------------------------- MODULE OwnedBoardsProofs -------------------------
(* For any number of boards, people, invitations and plans: what may be       *)
(* edited fits the plan, what a plan took comes back, and an invitation is    *)
(* good for once.                                                             *)
EXTENDS OwnedBoards, FiniteSetTheorems, SequenceTheorems, TLAPS

-----------------------------------------------------------------------------
(* Types. *)

Vias == {"none", "member", "org", "link", "public", "stale"}
Seat == [user : Others, suspended : BOOLEAN, via : Vias]
Board == [state : {"absent", "live", "trashed", "purged"}, locked : BOOLEAN]
Invitation == [state : {"none", "open", "revoked", "accepted"}, board : Shared \cup {"none"},
               user : Others \cup {"nobody"}, role : {"viewer", "editor"}]
Enforcement == [plan : Plans, given : BOOLEAN, trashed : SUBSET Boards, seats : [Shared -> Seq(Seat)],
                claimed : SUBSET Shared]

Typed ==
    /\ board \in [Boards -> Board] /\ plan \in Plans /\ due \in BOOLEAN
    /\ seats \in [Shared -> Seq(Seat)]
    /\ invite \in [Invites -> Invitation]
    /\ enforcing \in SUBSET Enforcement /\ \A e, f \in enforcing : e = f
    /\ claim \in SUBSET [by : Requests, user : Others, board : Shared, via : Vias]
    /\ accept \in SUBSET [by : Requests, invite : Invites, alone : BOOLEAN]

-----------------------------------------------------------------------------
(* An enforcement and what it read. *)

\* The limits that are enforced are those of the plan, or the plan has expired since.
InTime == \A e \in enforcing : e.given \/ e.plan = plan \/ due

\* A shared board in the trash is one whose seats were not looked at.
Trashed == \A b \in Shared : board[b].state # "absent" /\ (board[b].state = "trashed" => b \in unchecked)

\* A person has one seat on a board.
Once(list) == \A n, m \in DOMAIN list : list[n].user = list[m].user => n = m
SeatedOnce == \A b \in Shared : Once(seats[b]) /\ \A e \in enforcing : Once(e.seats[b])

\* A seat was read, unless it was claimed since; a suspended one always was.
WasRead(e, b, n) ==
    \E m \in DOMAIN e.seats[b] : /\ e.seats[b][m].user = seats[b][n].user
                                 /\ e.seats[b][m].suspended <=> seats[b][n].suspended
Known == \A e \in enforcing, b \in Shared : \A n \in DOMAIN seats[b] :
             b \notin e.claimed \/ seats[b][n].suspended => WasRead(e, b, n)

-----------------------------------------------------------------------------
(* An invitation that one request found open. *)

Alone ==
    /\ \A a, q \in accept : a.invite = q.invite /\ a.alone => a = q
    /\ \A a \in accept : a.alone => invite[a.invite].state # "accepted"

-----------------------------------------------------------------------------
(* Lists of seats. *)

ActiveIn(list) == {n \in DOMAIN list : ~list[n].suspended}

\* An injection bounds a cardinality.
LEMMA NotMore ==
    ASSUME NEW S, NEW T, IsFiniteSet(T), NEW f \in [S -> T], \A x, y \in S : f[x] = f[y] => x = y
    PROVE  IsFiniteSet(S) /\ Cardinality(S) <= Cardinality(T)
<1>1. f \in Injection(S, T)
  BY DEF Injection, IsInjective
<1> QED
  BY <1>1, FS_Injection

LEMMA ActiveIsFinite ==
    ASSUME NEW list \in Seq(Seat)
    PROVE  IsFiniteSet(ActiveIn(list)) /\ Cardinality(ActiveIn(list)) \in Nat
<1>1. Len(list) \in Nat /\ DOMAIN list = 1..Len(list)
  OBVIOUS
<1>2. IsFiniteSet(1..Len(list))
  BY <1>1, FS_Interval
<1>3. IsFiniteSet(ActiveIn(list))
  BY <1>1, <1>2, FS_Subset DEF ActiveIn
<1> QED
  BY <1>3, FS_CardinalityType

\* Taking one seat away leaves the others, in their order.
LEMMA Removed ==
    ASSUME NEW list \in Seq(Seat), NEW n \in DOMAIN list, NEW next, next = RemoveAt(list, n)
    PROVE  /\ next \in Seq(Seat)
           /\ Len(next) = Len(list) - 1
           /\ \A k \in DOMAIN next : next[k] = list[IF k < n THEN k ELSE k + 1]
<1>0. Len(list) \in Nat /\ DOMAIN list = 1..Len(list) /\ n \in 1..Len(list)
  OBVIOUS
<1>1. PICK head : head = SubSeq(list, 1, n - 1)
  OBVIOUS
<1>2. PICK tail : tail = SubSeq(list, n + 1, Len(list))
  OBVIOUS
<1>3. head \in Seq(Seat) /\ Len(head) = n - 1 /\ \A k \in 1..(n - 1) : head[k] = list[k]
  <2>1. \A k \in 1..(n - 1) : k \in 1..Len(list)
    BY <1>0
  <2> QED
    BY <1>0, <1>1, <2>1
<1>4. tail \in Seq(Seat) /\ Len(tail) = Len(list) - n /\ \A k \in 1..(Len(list) - n) : tail[k] = list[k + n]
  BY <1>0, <1>2
<1>5. next = head \o tail
  BY <1>1, <1>2 DEF RemoveAt
<1>6. next \in Seq(Seat) /\ Len(next) = Len(head) + Len(tail)
  BY <1>3, <1>4, <1>5, ConcatProperties
<1>7. \A k \in 1..Len(next) : next[k] = IF k <= Len(head) THEN head[k] ELSE tail[k - Len(head)]
  BY SMTT(30), <1>3, <1>4, <1>5, ConcatProperties
<1>8. Len(next) = Len(list) - 1
  BY <1>0, <1>3, <1>4, <1>6
<1>9. ASSUME NEW k \in DOMAIN next PROVE next[k] = list[IF k < n THEN k ELSE k + 1]
  <2>1. k \in 1..Len(next)
    BY <1>6
  <2>2. CASE k < n
    BY <1>0, <1>3, <1>7, <2>1, <2>2
  <2>3. CASE ~(k < n)
    <3>1. k - Len(head) \in 1..(Len(list) - n) /\ (k - Len(head)) + n = k + 1
      BY <1>0, <1>3, <1>8, <2>1, <2>3
    <3>2. next[k] = tail[k - Len(head)]
      BY <1>0, <1>3, <1>7, <2>1, <2>3
    <3> QED
      BY <1>4, <2>3, <3>1, <3>2
  <2> QED
    BY <2>2, <2>3
<1> QED
  BY <1>6, <1>8, <1>9

LEMMA Deleted ==
    ASSUME NEW list \in Seq(Seat), NEW u, NEW next, next = Without(list, u)
    PROVE  /\ next \in Seq(Seat)
           /\ \A k \in DOMAIN next : \E m \in DOMAIN list : next[k] = list[m]
           /\ Once(list) => Once(next)
           /\ Cardinality(ActiveIn(next)) <= Cardinality(ActiveIn(list))
<1> DEFINE rows == {n \in DOMAIN list : list[n].user = u}
<1>1. CASE rows = {}
  <2>1. next = list
    BY <1>1 DEF Without
  <2> QED
    BY <2>1, ActiveIsFinite
<1>2. CASE rows # {}
  <2>1. PICK n \in DOMAIN list : next = RemoveAt(list, n)
    BY <1>2 DEF Without
  <2>2. /\ next \in Seq(Seat) /\ Len(next) = Len(list) - 1
        /\ \A k \in DOMAIN next : next[k] = list[IF k < n THEN k ELSE k + 1]
    BY <2>1, Removed
  <2>3. PICK h : h = [k \in DOMAIN next |-> IF k < n THEN k ELSE k + 1]
    OBVIOUS
  <2>4. /\ DOMAIN next \subseteq Int /\ n \in Int
        /\ \A k \in DOMAIN next : h[k] \in DOMAIN list /\ next[k] = list[h[k]]
    <3>1. DOMAIN next = 1..Len(next) /\ DOMAIN list = 1..Len(list) /\ Len(list) \in Nat /\ Len(next) \in Nat
      BY <2>2
    <3> QED
      BY <2>2, <2>3, <3>1
  <2>5. \A j, k \in DOMAIN next : h[j] = h[k] => j = k
    BY <2>3, <2>4
  <2>6. Once(list) => Once(next)
    BY <2>4, <2>5 DEF Once
  <2>7. Cardinality(ActiveIn(next)) <= Cardinality(ActiveIn(list))
    <3>1. PICK f : f = [k \in ActiveIn(next) |-> h[k]]
      OBVIOUS
    <3>2. f \in [ActiveIn(next) -> ActiveIn(list)] /\ \A x, y \in ActiveIn(next) : f[x] = f[y] => x = y
      BY <2>4, <2>5, <3>1 DEF ActiveIn
    <3> QED
      BY <3>2, ActiveIsFinite, NotMore
  <2> QED
    BY <2>2, <2>4, <2>6, <2>7
<1> QED
  BY <1>1, <1>2

-----------------------------------------------------------------------------
(* Steps. *)

Quiet == UNCHANGED <<board, plan, due, seats, enforcing, unchecked>>

LEMMA Changes ==
    ASSUME Typed, [Next]_vars
    PROVE  \/ Quiet
           \/ \E b \in Boards : CreateBoard(b) \/ Restore(b) \/ Purge(b)
           \/ \E p \in Plans, out \in SUBSET Boards : StartEnforcing(p, out)
           \/ FinishEnforcing \/ PlanExpires
           \/ \E c \in claim : ClaimEditorSeat(c)
           \/ \E b \in Shared, u \in Others : Demote(b, u) \/ RemoveMember(b, u)
<1>1. ASSUME NEW r \in Requests,
             (\E i \in Invites : FindInvite(r, i)) \/ (\E b \in Shared, u \in Others : FindEditor(r, u, b))
      PROVE  Quiet
  BY <1>1 DEF FindInvite, FindEditor, Quiet
<1>2. \A a \in accept : AcceptInvite(a) => Quiet
  BY DEF AcceptInvite, Quiet
<1>3. \A b \in Boards : Trash(b) => StartEnforcing(plan, {b})
  BY DEF Trash
<1>4. \A p \in Plans : ChangePlan(p) => StartEnforcing(p, {})
  BY DEF ChangePlan
<1>5. Sweep => StartEnforcing(plan, {})
  BY DEF Sweep
<1>6. \A b \in Shared, u \in Others :
        Promote(b, u) \/ (\E i \in Invites, role \in {"viewer", "editor"} : Invite(i, b, u, role)) => Quiet
  BY DEF Promote, Invite, Quiet
<1>7. (\E b \in Shared, on \in BOOLEAN : SetLink(b, on)) \/ (\E i \in Invites : RevokeInvite(i)) => Quiet
  BY DEF SetLink, RevokeInvite, Quiet
<1>8. UNCHANGED vars => Quiet
  BY DEF vars, Quiet
<1>9. plan \in Plans
  BY DEF Typed
<1> QED
  BY <1>1, <1>2, <1>3, <1>4, <1>5, <1>6, <1>7, <1>8, <1>9 DEF Next

LEMMA ViaIsOne == \A b, u : RoleOn(b, u).via \in Vias
  BY DEF RoleOn, Resolve, Offer, Vias

\* The rows that a limit is applied to keep their people.
LEMMA SuspendedSeat ==
    ASSUME NEW row \in Seat, NEW read, NEW keep, NEW next, next = Suspend(row, read, keep)
    PROVE  /\ next \in Seat /\ next.user = row.user
           /\ next.suspended <=> IF row.user \in ToActivate(read, keep) THEN FALSE
                                 ELSE IF row.user \in ToSuspend(read, keep) THEN TRUE ELSE row.suspended
  BY DEF Suspend, Seat

\* What the end of an enforcement writes.
LEMMA Finished ==
    ASSUME Typed, FinishEnforcing
    PROVE  \E e \in enforcing, keep \in SUBSET Live :
             LET live == Live \ e.trashed IN
             /\ plan' = (IF e.given THEN e.plan ELSE plan) /\ due' = (due /\ plan' # e.plan)
             /\ unchecked' = e.claimed \cup (Shared \ live)
             /\ enforcing' = {} /\ UNCHANGED <<invite, claim, accept>>
             /\ keep \in Keepable(live, BoardLimit[e.plan])
             /\ board' = [b \in Boards |->
                    CASE b \in e.trashed /\ board[b].state = "live" -> [board[b] EXCEPT !.state = "trashed"]
                      [] b \in live -> [board[b] EXCEPT !.locked = b \notin keep]
                      [] OTHER -> board[b]]
             /\ seats' = [b \in Shared |->
                    IF b \notin live THEN seats[b]
                    ELSE [n \in DOMAIN seats[b] |-> Suspend(seats[b][n], e.seats[b], OtherSeats[e.plan])]]
<1>1. PICK e \in enforcing :
        /\ \E keep \in Keepable(Live \ e.trashed, BoardLimit[e.plan]) :
             board' = [b \in Boards |->
                    CASE b \in e.trashed /\ board[b].state = "live" -> [board[b] EXCEPT !.state = "trashed"]
                      [] b \in Live \ e.trashed -> [board[b] EXCEPT !.locked = b \notin keep]
                      [] OTHER -> board[b]]
        /\ seats' = [b \in Shared |->
                    IF b \notin Live \ e.trashed THEN seats[b]
                    ELSE [n \in DOMAIN seats[b] |-> Suspend(seats[b][n], e.seats[b], OtherSeats[e.plan])]]
        /\ plan' = IF e.given THEN e.plan ELSE plan
        /\ due' = (due /\ (IF e.given THEN e.plan ELSE plan) # e.plan)
        /\ unchecked' = e.claimed \cup (Shared \ (Live \ e.trashed))
  BY Zenon DEF FinishEnforcing
<1>2. PICK keep \in Keepable(Live \ e.trashed, BoardLimit[e.plan]) :
        board' = [b \in Boards |->
                    CASE b \in e.trashed /\ board[b].state = "live" -> [board[b] EXCEPT !.state = "trashed"]
                      [] b \in Live \ e.trashed -> [board[b] EXCEPT !.locked = b \notin keep]
                      [] OTHER -> board[b]]
  BY <1>1
<1>3. keep \in SUBSET Live
  BY <1>2 DEF Keepable
<1>4. enforcing' = {} /\ UNCHANGED <<invite, claim, accept>>
  BY DEF FinishEnforcing
<1>5. due' = (due /\ plan' # e.plan)
  BY <1>1, Zenon
<1> QED
  BY <1>1, <1>2, <1>3, <1>4, <1>5, Zenon

\* The same, board by board.
EndsWith(e, keep, live) ==
    /\ live = Live \ e.trashed /\ Live' = live /\ keep \in Keepable(live, BoardLimit[e.plan])
    /\ board' \in [Boards -> Board] /\ seats' \in [Shared -> Seq(Seat)]
    /\ \A b \in Boards : /\ b \in live => (board'[b].locked <=> b \notin keep)
                         /\ board'[b].state = "absent" => board[b].state = "absent"
                         /\ board'[b].state = "trashed" => b \notin live
    /\ plan' = (IF e.given THEN e.plan ELSE plan) /\ due' = (due /\ plan' # e.plan)
    /\ unchecked' = e.claimed \cup (Shared \ live)
    /\ enforcing' = {} /\ UNCHANGED <<invite, claim, accept>>
    /\ \A b \in Shared :
         /\ b \notin live => seats'[b] = seats[b]
         /\ DOMAIN seats'[b] = DOMAIN seats[b]
         /\ \A n \in DOMAIN seats[b] :
              /\ seats'[b][n].user = seats[b][n].user
              /\ b \in live => seats'[b][n] = Suspend(seats[b][n], e.seats[b], OtherSeats[e.plan])

LEMMA FinishedBoards ==
    ASSUME Typed, FinishEnforcing
    PROVE  \E e \in enforcing, keep \in SUBSET Live, live \in SUBSET Boards : EndsWith(e, keep, live)
<1>1. PICK e \in enforcing, keep \in SUBSET Live :
             /\ plan' = (IF e.given THEN e.plan ELSE plan) /\ due' = (due /\ plan' # e.plan)
             /\ unchecked' = e.claimed \cup (Shared \ (Live \ e.trashed))
             /\ enforcing' = {} /\ UNCHANGED <<invite, claim, accept>>
             /\ keep \in Keepable(Live \ e.trashed, BoardLimit[e.plan])
             /\ board' = [b \in Boards |->
                    CASE b \in e.trashed /\ board[b].state = "live" -> [board[b] EXCEPT !.state = "trashed"]
                      [] b \in (Live \ e.trashed) -> [board[b] EXCEPT !.locked = b \notin keep]
                      [] OTHER -> board[b]]
             /\ seats' = [b \in Shared |->
                    IF b \notin (Live \ e.trashed) THEN seats[b]
                    ELSE [n \in DOMAIN seats[b] |-> Suspend(seats[b][n], e.seats[b], OtherSeats[e.plan])]]
  BY Finished
<1>2. PICK live : live = Live \ e.trashed
  OBVIOUS
<1>3. \A b \in Boards : board[b] \in Board
  BY DEF Typed
<1>4. ASSUME NEW b \in Boards
      PROVE  /\ board'[b] \in Board
             /\ b \in live => board'[b].state = "live" /\ (board'[b].locked <=> b \notin keep)
             /\ b \notin live => board'[b].state # "live"
             /\ board'[b].state = "absent" => board[b].state = "absent"
  <2>1. CASE b \in e.trashed /\ board[b].state = "live"
    <3>1. board'[b] = [board[b] EXCEPT !.state = "trashed"]
      BY <1>1, <2>1
    <3> QED
      BY <1>2, <1>3, <2>1, <3>1 DEF Board
  <2>2. CASE b \in live
    <3>1. PICK locked \in BOOLEAN : locked = (b \notin keep)
      OBVIOUS
    <3>2. board'[b] = [board[b] EXCEPT !.locked = locked]
      BY <1>1, <1>2, <2>2, <3>1
    <3>3. board[b].state = "live"
      BY <1>2, <2>2 DEF Live
    <3> QED
      BY <1>3, <2>2, <3>1, <3>2, <3>3 DEF Board
  <2>3. CASE ~(b \in e.trashed /\ board[b].state = "live") /\ b \notin live
    <3>1. board'[b] = board[b]
      BY <1>1, <1>2, <2>3
    <3>2. board[b].state # "live"
      BY <1>2, <2>3 DEF Live
    <3> QED
      BY <1>3, <2>3, <3>1, <3>2
  <2> QED
    BY <2>1, <2>2, <2>3
<1>5. board' \in [Boards -> Board]
  <2>1. \A b \in Boards : board'[b] \in Board
    BY <1>4
  <2>2. board' = [b \in Boards |-> board'[b]]
    BY <1>1
  <2> QED
    BY <2>1, <2>2
<1>6. Live' = live
  BY <1>2, <1>4 DEF Live
<1>7. ASSUME NEW b \in Shared
      PROVE  /\ seats'[b] \in Seq(Seat)
             /\ b \notin live => seats'[b] = seats[b]
             /\ DOMAIN seats'[b] = DOMAIN seats[b]
             /\ \A n \in DOMAIN seats[b] :
                  /\ seats'[b][n].user = seats[b][n].user
                  /\ b \in live => seats'[b][n] = Suspend(seats[b][n], e.seats[b], OtherSeats[e.plan])
  <2>1. seats[b] \in Seq(Seat) /\ Len(seats[b]) \in Nat /\ DOMAIN seats[b] = 1..Len(seats[b])
    BY DEF Typed
  <2>2. CASE b \notin live
    <3>1. seats'[b] = seats[b]
      BY <1>1, <1>2, <2>2
    <3> QED
      BY <2>1, <2>2, <3>1
  <2>3. CASE b \in live
    <3>1. seats'[b] = [n \in DOMAIN seats[b] |-> Suspend(seats[b][n], e.seats[b], OtherSeats[e.plan])]
      BY <1>1, <1>2, <2>3
    <3>2. \A n \in DOMAIN seats[b] : seats[b][n] \in Seat
      BY <2>1
    <3>3. \A n \in DOMAIN seats[b] : seats'[b][n] \in Seat /\ seats'[b][n].user = seats[b][n].user
      BY <3>1, <3>2, SuspendedSeat
    <3>4. PICK f : f = seats'[b]
      OBVIOUS
    <3>5. f \in [1..Len(seats[b]) -> Seat]
      BY <2>1, <3>1, <3>3, <3>4, Zenon
    <3>6. f \in Seq(Seat)
      BY <2>1, <3>5
    <3> QED
      BY <2>3, <3>1, <3>3, <3>4, <3>6
  <2> QED
    BY <2>2, <2>3
<1>8. seats' \in [Shared -> Seq(Seat)]
  <2>1. seats' = [b \in Shared |-> seats'[b]]
    BY <1>1
  <2> QED
    BY <1>7, <2>1
<1>9. EndsWith(e, keep, live)
  <2>1. \A b \in Boards : board'[b].state = "trashed" => b \notin live
    BY <1>4
  <2>2. \A b \in Boards : /\ b \in live => (board'[b].locked <=> b \notin keep)
                          /\ board'[b].state = "absent" => board[b].state = "absent"
    BY <1>4
  <2>3. \A b \in Shared :
          /\ b \notin live => seats'[b] = seats[b]
          /\ DOMAIN seats'[b] = DOMAIN seats[b]
          /\ \A n \in DOMAIN seats[b] :
               /\ seats'[b][n].user = seats[b][n].user
               /\ b \in live => seats'[b][n] = Suspend(seats[b][n], e.seats[b], OtherSeats[e.plan])
    BY <1>7
  <2> QED
    BY <1>1, <1>2, <1>5, <1>6, <1>8, <2>1, <2>2, <2>3 DEF EndsWith
<1> QED
  BY <1>2, <1>9 DEF Live

\* A seat is claimed: in a list without that person, for which there is room.
Claimed(b, row) ==
    /\ seats' = [seats EXCEPT ![b] = Append(seats[b], row)]
    /\ enforcing' = {[e EXCEPT !.claimed = e.claimed \cup {b}] : e \in enforcing}
    /\ ~row.suspended /\ \A n \in DOMAIN seats[b] : seats[b][n].user # row.user
    /\ Cardinality(ActiveIn(seats[b])) < OtherSeats[plan]

LEMMA ClaimedSeat ==
    ASSUME Typed, NEW c \in claim, ClaimEditorSeat(c)
    PROVE  /\ UNCHANGED <<board, plan, due, unchecked>>
           /\ UNCHANGED <<seats, enforcing>> \/ \E row \in Seat : Claimed(c.board, row)
<1>1. UNCHANGED <<board, plan, due, unchecked>>
  BY DEF ClaimEditorSeat
<1>2. c.board \in Shared /\ c.user \in Others /\ c.via \in Vias
  BY DEF Typed
<1>3. ASSUME ~UNCHANGED <<seats, enforcing>> PROVE \E row \in Seat : Claimed(c.board, row)
  <2>1. SeatOf(c.board, c.user) = {} /\ TakeSeat(c)
    BY <1>3 DEF ClaimEditorSeat
  <2>2. PICK row : row = [user |-> c.user, suspended |-> FALSE, via |-> c.via]
    OBVIOUS
  <2>3. row \in Seat /\ row.user = c.user /\ ~row.suspended
    BY <1>2, <2>2 DEF Seat
  <2>4. /\ seats' = [seats EXCEPT ![c.board] = Append(@, row)]
        /\ enforcing' = {[e EXCEPT !.claimed = @ \cup {c.board}] : e \in enforcing}
        /\ Cardinality(Active(c.board)) < OtherSeats[plan]
    BY <1>3, <2>1, <2>2 DEF TakeSeat
  <2>5. \A n \in DOMAIN seats[c.board] : seats[c.board][n].user # row.user
    BY <2>1, <2>3 DEF SeatOf
  <2>6. seats' = [seats EXCEPT ![c.board] = Append(seats[c.board], row)]
    BY <2>4
  <2>7. enforcing' = {[e EXCEPT !.claimed = e.claimed \cup {c.board}] : e \in enforcing}
    BY <2>4
  <2>8. Cardinality(ActiveIn(seats[c.board])) < OtherSeats[plan]
    BY <2>4 DEF Active, ActiveIn
  <2> QED
    BY <2>3, <2>5, <2>6, <2>7, <2>8 DEF Claimed
<1> QED
  BY <1>1, <1>3

\* Somebody's seat is given up, or all seats of a board with the board.
Dropped(b) ==
    /\ UNCHANGED enforcing /\ seats' = [seats EXCEPT ![b] = seats'[b]] /\ seats'[b] \in Seq(Seat)
    /\ \A k \in DOMAIN seats'[b] : \E m \in DOMAIN seats[b] : seats'[b][k] = seats[b][m]
    /\ Once(seats[b]) => \A n, m \in DOMAIN seats'[b] : seats'[b][n].user = seats'[b][m].user => n = m
    /\ Cardinality({k \in DOMAIN seats'[b] : ~seats'[b][k].suspended}) <= Cardinality(ActiveIn(seats[b]))

LEMMA DroppedSeat ==
    ASSUME Typed, NEW b \in Shared, NEW u \in Others, Demote(b, u) \/ RemoveMember(b, u)
    PROVE  Dropped(b) /\ UNCHANGED <<board, plan, due, unchecked, invite, accept>>
<1>1. PICK next : next = Without(seats[b], u)
  OBVIOUS
<1>2. seats' = [seats EXCEPT ![b] = next] /\ UNCHANGED <<enforcing, board, plan, due, unchecked, invite, accept>>
  BY <1>1 DEF Demote, RemoveMember
<1>3. seats[b] \in Seq(Seat)
  BY DEF Typed
<1>4. /\ next \in Seq(Seat) /\ \A k \in DOMAIN next : \E m \in DOMAIN seats[b] : next[k] = seats[b][m]
      /\ Once(seats[b]) => Once(next)
      /\ Cardinality(ActiveIn(next)) <= Cardinality(ActiveIn(seats[b]))
  BY <1>1, <1>3, Deleted
<1>5. seats'[b] = next
  BY <1>2 DEF Typed
<1>6. Once(seats[b]) => \A n, m \in DOMAIN seats'[b] : seats'[b][n].user = seats'[b][m].user => n = m
  <2>1. Once(seats[b]) => \A n, m \in DOMAIN next : next[n].user = next[m].user => n = m
    BY <1>4 DEF Once
  <2> QED
    BY <1>5, <2>1
<1>7. Cardinality({k \in DOMAIN seats'[b] : ~seats'[b][k].suspended}) <= Cardinality(ActiveIn(seats[b]))
  <2>1. Cardinality({k \in DOMAIN next : ~next[k].suspended}) <= Cardinality(ActiveIn(seats[b]))
    BY <1>4 DEF ActiveIn
  <2> QED
    BY <1>5, <2>1
<1>8. \A k \in DOMAIN seats'[b] : \E m \in DOMAIN seats[b] : seats'[b][k] = seats[b][m]
  BY <1>4, <1>5
<1> QED
  BY <1>2, <1>4, <1>5, <1>6, <1>7, <1>8 DEF Dropped

LEMMA PurgedSeats ==
    ASSUME Typed, NEW b \in Boards, Purge(b)
    PROVE  /\ UNCHANGED <<plan, due, unchecked, enforcing, claim, accept>>
           /\ board[b].state = "trashed" /\ board' = [board EXCEPT ![b] = [state |-> "purged", locked |-> FALSE]]
           /\ IF b \in Shared THEN Dropped(b) ELSE UNCHANGED seats
<1>1. /\ UNCHANGED <<plan, due, unchecked, enforcing, claim, accept>>
      /\ board[b].state = "trashed" /\ board' = [board EXCEPT ![b] = [state |-> "purged", locked |-> FALSE]]
  BY DEF Purge
<1>2. ASSUME b \in Shared PROVE Dropped(b)
  <2>1. PICK next : next = <<>>
    OBVIOUS
  <2>2. seats' = [seats EXCEPT ![b] = next]
    BY <1>2, <2>1 DEF Purge
  <2>3. seats'[b] = next /\ seats[b] \in Seq(Seat)
    BY <1>2, <2>2 DEF Typed
  <2>4. next \in Seq(Seat) /\ DOMAIN next = {}
    BY <2>1
  <2>5. {k \in DOMAIN next : ~next[k].suspended} = {}
    BY <2>4
  <2>6. Cardinality({k \in DOMAIN next : ~next[k].suspended}) = 0
    BY <2>5, FS_EmptySet
  <2>7. Cardinality(ActiveIn(seats[b])) \in Nat
    BY <2>3, ActiveIsFinite
  <2>8. Cardinality({k \in DOMAIN next : ~next[k].suspended}) <= Cardinality(ActiveIn(seats[b]))
    BY <2>6, <2>7
  <2> QED
    BY <1>1, <2>2, <2>3, <2>4, <2>8 DEF Dropped
<1>3. b \notin Shared => UNCHANGED seats
  BY DEF Purge
<1> QED
  BY <1>1, <1>2, <1>3

LEMMA SlotTaken ==
    ASSUME Typed, NEW b \in Boards, CreateBoard(b) \/ Restore(b)
    PROVE  /\ UNCHANGED <<plan, due, unchecked, enforcing, seats, invite, claim, accept>>
           /\ board[b].state \in {"absent", "trashed"} /\ HasBoardSlot
           /\ board' \in [Boards -> Board] /\ board'[b].state = "live"
           /\ \A d \in Boards : d # b => board'[d] = board[d]
<1>1. /\ UNCHANGED <<plan, due, unchecked, enforcing, seats, invite, claim, accept>>
      /\ board[b].state \in {"absent", "trashed"} /\ HasBoardSlot
  BY DEF CreateBoard, Restore
<1>2. PICK row : row = [board[b] EXCEPT !.state = "live"]
  OBVIOUS
<1>3. row \in Board /\ row.state = "live"
  BY <1>2 DEF Typed, Board
<1>4. board' = [board EXCEPT ![b] = row]
  BY <1>2 DEF CreateBoard, Restore
<1> QED
  BY <1>1, <1>3, <1>4 DEF Typed

LEMMA RequestTypesStep ==
    ASSUME Typed, [Next]_vars
    PROVE  /\ invite' \in [Invites -> Invitation]
           /\ claim' \in SUBSET [by : Requests, user : Others, board : Shared, via : Vias]
           /\ accept' \in SUBSET [by : Requests, invite : Invites, alone : BOOLEAN]
<1> DEFINE Claims == [by : Requests, user : Others, board : Shared, via : Vias]
           Accepts == [by : Requests, invite : Invites, alone : BOOLEAN]
           Fine == invite' \in [Invites -> Invitation] /\ claim' \in SUBSET Claims /\ accept' \in SUBSET Accepts
<1> SUFFICES Fine
  OBVIOUS
<1>0. invite \in [Invites -> Invitation] /\ claim \in SUBSET Claims /\ accept \in SUBSET Accepts
  BY DEF Typed
<1>1. ASSUME UNCHANGED <<invite, accept>>, claim' \subseteq claim PROVE Fine
  BY <1>0, <1>1
<1>2. ASSUME NEW r \in Requests, NEW i \in Invites, FindInvite(r, i) PROVE Fine
  <2>1. UNCHANGED <<invite, claim>>
    BY <1>2 DEF FindInvite
  <2>2. ASSUME NEW a \in accept PROVE [a EXCEPT !.alone = a.alone /\ a.invite # i] \in Accepts
    <3>1. PICK alone \in BOOLEAN : alone = (a.alone /\ a.invite # i)
      BY <1>0
    <3> QED
      BY <1>0, <3>1
  <2>3. [by |-> r, invite |-> i, alone |-> \A a \in accept : a.invite # i] \in Accepts
    <3>1. PICK alone \in BOOLEAN : alone = (\A a \in accept : a.invite # i)
      OBVIOUS
    <3> QED
      BY <3>1
  <2>4. accept' = {[a EXCEPT !.alone = a.alone /\ a.invite # i] : a \in accept}
                  \cup {[by |-> r, invite |-> i, alone |-> \A a \in accept : a.invite # i]}
    BY <1>2 DEF FindInvite
  <2>5. accept' \in SUBSET Accepts
    <3> HIDE DEF Accepts
    <3> QED
      BY <2>2, <2>3, <2>4
  <2> QED
    BY <1>0, <2>1, <2>5
<1>3. ASSUME NEW r \in Requests, NEW b \in Shared, NEW u \in Others, FindEditor(r, u, b) PROVE Fine
  <2>1. UNCHANGED <<invite, accept>>
    BY <1>3 DEF FindEditor
  <2>2. claim' = claim \cup {[by |-> r, user |-> u, board |-> b, via |-> RoleOn(b, u).via]}
    BY <1>3 DEF FindEditor
  <2>3. [by |-> r, user |-> u, board |-> b, via |-> RoleOn(b, u).via] \in Claims
    BY ViaIsOne
  <2> QED
    BY <1>0, <2>1, <2>2, <2>3
<1>4. ASSUME NEW a \in accept, AcceptInvite(a) PROVE Fine
  <2>1. UNCHANGED claim /\ accept' \subseteq accept
    BY <1>4 DEF AcceptInvite
  <2>2. PICK i \in Invites : i = a.invite
    BY <1>0
  <2>3. PICK next : next = [invite[i] EXCEPT !.state = "accepted"]
    OBVIOUS
  <2>4. next \in Invitation
    BY <1>0, <2>3 DEF Invitation
  <2>5. UNCHANGED invite \/ invite' = [invite EXCEPT ![i] = next]
    BY <1>4, <2>2, <2>3 DEF AcceptInvite
  <2> QED
    BY <1>0, <2>1, <2>4, <2>5
<1>5. ASSUME NEW b \in Boards, CreateBoard(b) \/ Restore(b) PROVE Fine
  BY <1>1, <1>5 DEF CreateBoard, Restore
<1>6. ASSUME NEW b \in Boards, Purge(b) PROVE Fine
  <2>1. UNCHANGED <<claim, accept>>
    BY <1>6 DEF Purge
  <2>2. NoInvite \in Invitation
    BY DEF NoInvite, Invitation
  <2>3. UNCHANGED invite \/ invite' = [i \in Invites |-> IF invite[i].board = b THEN NoInvite ELSE invite[i]]
    BY <1>6 DEF Purge
  <2> QED
    BY <1>0, <2>1, <2>2, <2>3
<1>7. ASSUME NEW p, NEW out, StartEnforcing(p, out) PROVE Fine
  BY <1>1, <1>7 DEF StartEnforcing
<1>8. CASE FinishEnforcing \/ PlanExpires
  BY <1>1, <1>8 DEF FinishEnforcing, PlanExpires
<1>9. ASSUME NEW c \in claim, ClaimEditorSeat(c) PROVE Fine
  BY <1>1, <1>9 DEF ClaimEditorSeat
<1>10. ASSUME NEW b \in Shared, NEW u \in Others, Demote(b, u) \/ RemoveMember(b, u) PROVE Fine
  <2>1. UNCHANGED <<invite, accept>> /\ Stale(u, b)
    BY <1>10 DEF Demote, RemoveMember
  <2>2. ASSUME NEW c \in claim PROVE [c EXCEPT !.via = "stale"] \in Claims
    BY <1>0 DEF Vias
  <2>3. claim' \subseteq Claims
    BY <1>0, <2>1, <2>2 DEF Stale
  <2> QED
    BY <1>0, <2>1, <2>3
<1>11. ASSUME NEW b \in Shared, NEW u \in Others, Promote(b, u) PROVE Fine
  BY <1>1, <1>11 DEF Promote
<1>12. ASSUME NEW b \in Shared, NEW on, SetLink(b, on) PROVE Fine
  BY <1>1, <1>12 DEF SetLink
<1>13. ASSUME NEW b \in Shared, NEW u \in Others, NEW i \in Invites, NEW role \in {"viewer", "editor"},
              Invite(i, b, u, role)
       PROVE  Fine
  <2>1. [state |-> "open", board |-> b, user |-> u, role |-> role] \in Invitation
    BY DEF Invitation
  <2> QED
    BY <1>0, <1>13, <2>1 DEF Invite
<1>14. ASSUME NEW i \in Invites, RevokeInvite(i) PROVE Fine
  <2>1. PICK next : next = [invite[i] EXCEPT !.state = "revoked"]
    OBVIOUS
  <2>2. next \in Invitation
    BY <1>0, <2>1 DEF Invitation
  <2>3. invite' = [invite EXCEPT ![i] = next] /\ UNCHANGED <<claim, accept>>
    BY <1>14, <2>1 DEF RevokeInvite
  <2> QED
    BY <1>0, <2>2, <2>3
<1>15. CASE UNCHANGED vars
  BY <1>1, <1>15 DEF vars
<1>16. \A b \in Boards : Trash(b) => StartEnforcing(plan, {b})
  BY DEF Trash
<1>17. \A p \in Plans : ChangePlan(p) => StartEnforcing(p, {})
  BY DEF ChangePlan
<1>18. Sweep => StartEnforcing(plan, {})
  BY DEF Sweep
<1>19. CASE Next
  <2> HIDE DEF Fine
  <2>1. CASE \E r \in Requests : \/ \E i \in Invites : FindInvite(r, i)
                                 \/ \E b \in Shared, u \in Others : FindEditor(r, u, b)
    BY <1>2, <1>3, <2>1
  <2>2. CASE \E b \in Boards : CreateBoard(b) \/ Restore(b) \/ Purge(b) \/ Trash(b)
    BY <1>5, <1>6, <1>7, <1>16, <2>2
  <2>3. CASE \E b \in Shared, u \in Others :
               \/ Demote(b, u) \/ RemoveMember(b, u) \/ Promote(b, u)
               \/ \E i \in Invites, role \in {"viewer", "editor"} : Invite(i, b, u, role)
    BY <1>10, <1>11, <1>13, <2>3
  <2>4. CASE (\E p \in Plans : ChangePlan(p)) \/ Sweep \/ FinishEnforcing \/ PlanExpires
    BY <1>7, <1>8, <1>17, <1>18, <2>4
  <2>5. CASE \/ \E a \in accept : AcceptInvite(a)
             \/ \E c \in claim : ClaimEditorSeat(c)
             \/ \E b \in Shared, on \in BOOLEAN : SetLink(b, on)
             \/ \E i \in Invites : RevokeInvite(i)
    BY <1>4, <1>9, <1>12, <1>14, <2>5
  <2> QED
    BY <1>19, <2>1, <2>2, <2>3, <2>4, <2>5 DEF Next
<1> QED
  BY <1>15, <1>19

\* A claim adds one seat and marks the board for the enforcement under way.
LEMMA ClaimedParts ==
    ASSUME Typed, NEW b \in Shared, NEW row \in Seat, Claimed(b, row)
    PROVE  /\ seats' \in [Shared -> Seq(Seat)] /\ seats'[b] = Append(seats[b], row)
           /\ \A d \in Shared : d # b => seats'[d] = seats[d]
           /\ enforcing' \in SUBSET Enforcement
           /\ \A f \in enforcing' : \E e \in enforcing :
                /\ f.plan = e.plan /\ (f.given <=> e.given) /\ f.trashed = e.trashed /\ f.seats = e.seats
                /\ f.claimed = e.claimed \cup {b}
           /\ \A f, g \in enforcing' : f = g
           /\ enforcing' = {} => enforcing = {}
<1>1. seats \in [Shared -> Seq(Seat)] /\ seats' = [seats EXCEPT ![b] = Append(seats[b], row)]
  BY DEF Typed, Claimed
<1>2. Append(seats[b], row) \in Seq(Seat)
  BY <1>1
<1>3. /\ seats' \in [Shared -> Seq(Seat)] /\ seats'[b] = Append(seats[b], row)
      /\ \A d \in Shared : d # b => seats'[d] = seats[d]
  BY <1>1, <1>2
<1>4. enforcing' = {[e EXCEPT !.claimed = e.claimed \cup {b}] : e \in enforcing}
  BY DEF Claimed
<1>5. ASSUME NEW e \in enforcing, NEW f, f = [e EXCEPT !.claimed = e.claimed \cup {b}]
      PROVE  /\ f \in Enforcement
             /\ f.plan = e.plan /\ (f.given <=> e.given) /\ f.trashed = e.trashed /\ f.seats = e.seats
             /\ f.claimed = e.claimed \cup {b}
  <2>1. e \in Enforcement
    BY DEF Typed
  <2>2. PICK claimed \in SUBSET Shared : claimed = e.claimed \cup {b}
    BY <2>1 DEF Enforcement
  <2>3. f = [e EXCEPT !.claimed = claimed]
    BY <1>5, <2>2
  <2> QED
    BY <2>1, <2>2, <2>3 DEF Enforcement
<1>6. \A e, f \in enforcing : e = f
  BY DEF Typed
<1>7. enforcing' \in SUBSET Enforcement
  BY <1>4, <1>5
<1>8. \A f \in enforcing' : \E e \in enforcing :
        /\ f.plan = e.plan /\ (f.given <=> e.given) /\ f.trashed = e.trashed /\ f.seats = e.seats
        /\ f.claimed = e.claimed \cup {b}
  BY <1>4, <1>5
<1>9. (\A f, g \in enforcing' : f = g) /\ (enforcing' = {} => enforcing = {})
  BY <1>4, <1>6
<1> QED
  BY <1>3, <1>7, <1>8, <1>9

LEMMA TypedStep ==
    ASSUME Typed, [Next]_vars
    PROVE  Typed'
<1> DEFINE Fine == /\ board' \in [Boards -> Board] /\ plan' \in Plans /\ due' \in BOOLEAN
                   /\ seats' \in [Shared -> Seq(Seat)] /\ enforcing' \in SUBSET Enforcement
                   /\ \A e, f \in enforcing' : e = f
<1> SUFFICES Fine
  BY RequestTypesStep DEF Typed
<1>0. /\ board \in [Boards -> Board] /\ plan \in Plans /\ due \in BOOLEAN
      /\ seats \in [Shared -> Seq(Seat)] /\ enforcing \in SUBSET Enforcement /\ \A e, f \in enforcing : e = f
  BY DEF Typed
<1>1. CASE Quiet
  BY <1>0, <1>1 DEF Quiet
<1>2. ASSUME NEW b \in Boards, CreateBoard(b) \/ Restore(b) PROVE Fine
  BY <1>0, <1>2, SlotTaken
<1>3. ASSUME NEW b \in Boards, Purge(b) PROVE Fine
  <2>1. [state |-> "purged", locked |-> FALSE] \in Board
    BY DEF Board
  <2>2. board' = [board EXCEPT ![b] = [state |-> "purged", locked |-> FALSE]]
    BY <1>3, PurgedSeats
  <2>3. board' \in [Boards -> Board]
    BY <1>0, <2>1, <2>2
  <2>4. UNCHANGED <<plan, due, enforcing>> /\ (IF b \in Shared THEN Dropped(b) ELSE UNCHANGED seats)
    BY <1>3, PurgedSeats
  <2>5. seats' \in [Shared -> Seq(Seat)]
    BY <1>0, <2>4 DEF Dropped
  <2> QED
    BY <1>0, <2>3, <2>4, <2>5
<1>4. ASSUME NEW p \in Plans, NEW out \in SUBSET Boards, StartEnforcing(p, out) PROVE Fine
  <2>1. PICK given \in BOOLEAN : given = (p # plan)
    OBVIOUS
  <2>2. PICK e : e = [plan |-> p, given |-> given, trashed |-> out, seats |-> seats, claimed |-> {}]
    OBVIOUS
  <2>3. e \in Enforcement
    BY <1>0, <2>2 DEF Enforcement
  <2>4. enforcing' = {e} /\ UNCHANGED <<board, plan, due, seats>>
    BY <1>4, <2>1, <2>2 DEF StartEnforcing
  <2> QED
    BY <1>0, <2>3, <2>4
<1>5. CASE FinishEnforcing
  <2>1. PICK e \in enforcing, keep \in SUBSET Live, live \in SUBSET Boards : EndsWith(e, keep, live)
    BY <1>5, FinishedBoards
  <2>2. e.plan \in Plans
    BY <1>0 DEF Enforcement
  <2>3. plan' \in Plans /\ due' \in BOOLEAN
    BY <1>0, <2>1, <2>2 DEF EndsWith
  <2>4. board' \in [Boards -> Board] /\ seats' \in [Shared -> Seq(Seat)] /\ enforcing' = {}
    BY <2>1 DEF EndsWith
  <2> QED
    BY <2>3, <2>4
<1>6. CASE PlanExpires
  BY <1>0, <1>6, OwnedBoardsAssumption DEF PlanExpires
<1>7. ASSUME NEW c \in claim, ClaimEditorSeat(c) PROVE Fine
  <2>1. c.board \in Shared
    BY DEF Typed
  <2>2. UNCHANGED <<board, plan, due>>
    BY <1>7, ClaimedSeat
  <2>3. CASE UNCHANGED <<seats, enforcing>>
    BY <1>0, <2>2, <2>3
  <2>4. ASSUME NEW row \in Seat, Claimed(c.board, row) PROVE Fine
    BY <1>0, <2>1, <2>2, <2>4, ClaimedParts
  <2> QED
    BY <1>7, <2>3, <2>4, ClaimedSeat
<1>8. ASSUME NEW b \in Shared, NEW u \in Others, Demote(b, u) \/ RemoveMember(b, u) PROVE Fine
  <2>1. Dropped(b) /\ UNCHANGED <<board, plan, due>>
    BY <1>8, DroppedSeat
  <2> QED
    BY <1>0, <2>1 DEF Dropped
<1> HIDE DEF Fine
<1> QED
  BY <1>1, <1>2, <1>3, <1>4, <1>5, <1>6, <1>7, <1>8, Changes

-----------------------------------------------------------------------------
(* What an enforcement works on stays true. *)

LEMMA InTimeStep ==
    ASSUME Typed, InTime, [Next]_vars
    PROVE  InTime'
<1>1. CASE UNCHANGED <<plan, due, enforcing>>
  BY <1>1 DEF InTime
<1>2. ASSUME NEW p \in Plans, NEW out \in SUBSET Boards, StartEnforcing(p, out) PROVE InTime'
  <2>1. PICK e : e = [plan |-> p, given |-> p # plan, trashed |-> out, seats |-> seats, claimed |-> {}]
    OBVIOUS
  <2>2. enforcing' = {e} /\ UNCHANGED plan
    BY <1>2, <2>1 DEF StartEnforcing
  <2>3. e.given \/ e.plan = plan
    BY <2>1
  <2> QED
    BY <2>2, <2>3 DEF InTime
<1>3. CASE FinishEnforcing
  BY <1>3 DEF FinishEnforcing, InTime
<1>4. CASE PlanExpires
  BY <1>4 DEF PlanExpires, InTime
<1>5. ASSUME NEW c \in claim, ClaimEditorSeat(c) PROVE InTime'
  <2>1. c.board \in Shared /\ UNCHANGED <<plan, due>>
    BY <1>5, ClaimedSeat DEF Typed
  <2>2. ASSUME NEW row \in Seat, Claimed(c.board, row) PROVE InTime'
    BY <2>1, <2>2, ClaimedParts DEF InTime
  <2> QED
    BY <1>1, <1>5, <2>1, <2>2, ClaimedSeat
<1>6. \A b \in Boards : CreateBoard(b) \/ Restore(b) \/ Purge(b) => UNCHANGED <<plan, due, enforcing>>
  BY DEF CreateBoard, Restore, Purge
<1>7. \A b \in Shared, u \in Others : Demote(b, u) \/ RemoveMember(b, u) => UNCHANGED <<plan, due, enforcing>>
  BY DEF Demote, RemoveMember
<1>8. Quiet => UNCHANGED <<plan, due, enforcing>>
  BY DEF Quiet
<1> QED
  BY <1>1, <1>2, <1>3, <1>4, <1>5, <1>6, <1>7, <1>8, Changes

LEMMA TrashedStep ==
    ASSUME Typed, Trashed, [Next]_vars
    PROVE  Trashed'
<1>0. Shared \subseteq Boards /\ board \in [Boards -> Board]
  BY OwnedBoardsAssumption DEF Typed
<1>1. CASE UNCHANGED <<board, unchecked>>
  BY <1>1 DEF Trashed
<1>2. ASSUME NEW b \in Boards, CreateBoard(b) \/ Restore(b) PROVE Trashed'
  BY <1>0, <1>2, SlotTaken DEF Trashed
<1>3. ASSUME NEW b \in Boards, Purge(b) PROVE Trashed'
  <2>1. PICK row : row = [state |-> "purged", locked |-> FALSE]
    OBVIOUS
  <2>2. board' = [board EXCEPT ![b] = row] /\ UNCHANGED unchecked /\ row.state = "purged"
    BY <1>3, <2>1, PurgedSeats
  <2> QED
    BY <1>0, <2>2 DEF Trashed
<1>4. CASE FinishEnforcing
  <2>1. PICK e \in enforcing, keep \in SUBSET Live, live \in SUBSET Boards : EndsWith(e, keep, live)
    BY <1>4, FinishedBoards
  <2> QED
    BY <1>0, <2>1 DEF EndsWith, Trashed
<1>5. \A p, out : StartEnforcing(p, out) => UNCHANGED <<board, unchecked>>
  BY DEF StartEnforcing
<1>6. PlanExpires \/ Quiet => UNCHANGED <<board, unchecked>>
  BY DEF PlanExpires, Quiet
<1>7. \A c \in claim : ClaimEditorSeat(c) => UNCHANGED <<board, unchecked>>
  BY DEF ClaimEditorSeat
<1>8. \A b \in Shared, u \in Others : Demote(b, u) \/ RemoveMember(b, u) => UNCHANGED <<board, unchecked>>
  BY DEF Demote, RemoveMember
<1> QED
  BY <1>1, <1>2, <1>3, <1>4, <1>5, <1>6, <1>7, <1>8, Changes

LEMMA SeatsStep ==
    ASSUME Typed, SeatedOnce, Known, [Next]_vars
    PROVE  SeatedOnce' /\ Known'
<1>0. seats \in [Shared -> Seq(Seat)]
  BY DEF Typed
<1>1. CASE UNCHANGED <<seats, enforcing>>
  BY <1>1 DEF SeatedOnce, Known, WasRead, Once
<1>2. ASSUME NEW p \in Plans, NEW out \in SUBSET Boards, StartEnforcing(p, out) PROVE SeatedOnce' /\ Known'
  <2>1. PICK e : e = [plan |-> p, given |-> p # plan, trashed |-> out, seats |-> seats, claimed |-> {}]
    OBVIOUS
  <2>2. enforcing' = {e} /\ UNCHANGED seats
    BY <1>2, <2>1 DEF StartEnforcing
  <2>3. e.seats = seats
    BY <2>1
  <2> QED
    BY <2>2, <2>3 DEF SeatedOnce, Known, WasRead, Once
<1>3. CASE FinishEnforcing
  <2>1. PICK e \in enforcing, keep \in SUBSET Live, live \in SUBSET Boards : EndsWith(e, keep, live)
    BY <1>3, FinishedBoards
  <2>2. enforcing' = {}
    BY <2>1 DEF EndsWith
  <2>3. \A b \in Shared : DOMAIN seats'[b] = DOMAIN seats[b] /\ \A n \in DOMAIN seats[b] : seats'[b][n].user = seats[b][n].user
    BY <2>1 DEF EndsWith
  <2> QED
    BY <2>2, <2>3 DEF SeatedOnce, Known, Once
<1>4. ASSUME NEW c \in claim, ClaimEditorSeat(c) PROVE SeatedOnce' /\ Known'
  <2>1. PICK b \in Shared : b = c.board
    BY DEF Typed
  <2>2. ASSUME NEW row \in Seat, Claimed(b, row) PROVE SeatedOnce' /\ Known'
    <3>1. PICK len \in Nat : DOMAIN seats[b] = 1..len /\ Len(seats[b]) = len
      BY <1>0
    <3>2. /\ DOMAIN seats'[b] = 1..(len + 1) /\ seats'[b][len + 1] = row
          /\ \A n \in 1..len : seats'[b][n] = seats[b][n]
      BY SMTT(30), <1>0, <2>2, <3>1, ClaimedParts
    <3>3. ~row.suspended /\ \A n \in 1..len : seats[b][n].user # row.user
      BY <2>2, <3>1 DEF Claimed
    <3>4. \A d \in Shared : d # b => seats'[d] = seats[d]
      BY <2>2, ClaimedParts
    <3>5. \A f \in enforcing' : \E e \in enforcing : f.seats = e.seats /\ f.claimed = e.claimed \cup {b}
      BY <2>2, ClaimedParts
    <3>6. \A n \in 1..(len + 1) : n \in 1..len \/ n = len + 1
      OBVIOUS
    <3>7. \A n, m \in 1..(len + 1) : seats'[b][n].user = seats'[b][m].user => n = m
      BY SMTT(30), <3>1, <3>2, <3>3, <3>6 DEF SeatedOnce, Once
    <3>8. SeatedOnce'
      BY <3>2, <3>4, <3>5, <3>7 DEF SeatedOnce, Once
    <3>9. ASSUME NEW f \in enforcing', NEW d \in Shared, NEW n \in DOMAIN seats'[d],
                 d \notin f.claimed \/ seats'[d][n].suspended
          PROVE  WasRead(f, d, n)'
      <4>1. PICK e \in enforcing : f.seats = e.seats /\ f.claimed = e.claimed \cup {b}
        BY <3>5
      <4>2. n \in DOMAIN seats[d] /\ seats'[d][n] = seats[d][n] /\ (d \notin e.claimed \/ seats[d][n].suspended)
        BY <3>1, <3>2, <3>3, <3>4, <3>6, <3>9, <4>1
      <4>3. WasRead(e, d, n)
        BY <4>2 DEF Known
      <4> QED
        BY <4>1, <4>2, <4>3 DEF WasRead
    <3> QED
      BY <3>8, <3>9 DEF Known
  <2> QED
    BY <1>1, <1>4, <2>1, <2>2, ClaimedSeat
<1>5. ASSUME NEW b \in Shared, Dropped(b) PROVE SeatedOnce' /\ Known'
  <2>1. \A d \in Shared : d # b => seats'[d] = seats[d]
    BY <1>0, <1>5 DEF Dropped
  <2>2. \A k \in DOMAIN seats'[b] : \E m \in DOMAIN seats[b] : seats'[b][k] = seats[b][m]
    BY <1>5 DEF Dropped
  <2>3. UNCHANGED enforcing
    BY <1>5 DEF Dropped
  <2>4. SeatedOnce'
    BY <1>5, <2>1, <2>3 DEF SeatedOnce, Once, Dropped
  <2>5. ASSUME NEW e \in enforcing, NEW d \in Shared, NEW n \in DOMAIN seats'[d],
               d \notin e.claimed \/ seats'[d][n].suspended
        PROVE  WasRead(e, d, n)'
    <3>1. PICK m \in DOMAIN seats[d] : seats'[d][n] = seats[d][m]
      BY <2>1, <2>2
    <3>2. WasRead(e, d, m)
      BY <2>5, <3>1 DEF Known
    <3> QED
      BY <3>1, <3>2 DEF WasRead
  <2> QED
    BY <2>3, <2>4, <2>5 DEF Known
<1>6. \A b \in Boards : CreateBoard(b) \/ Restore(b) => UNCHANGED <<seats, enforcing>>
  BY DEF CreateBoard, Restore
<1>7. PlanExpires \/ Quiet => UNCHANGED <<seats, enforcing>>
  BY DEF PlanExpires, Quiet
<1>8. ASSUME NEW b \in Boards, Purge(b) PROVE SeatedOnce' /\ Known'
  BY <1>1, <1>5, <1>8, PurgedSeats
<1>9. ASSUME NEW b \in Shared, NEW u \in Others, Demote(b, u) \/ RemoveMember(b, u) PROVE SeatedOnce' /\ Known'
  BY <1>5, <1>9, DroppedSeat
<1> QED
  BY <1>1, <1>2, <1>3, <1>4, <1>6, <1>7, <1>8, <1>9, Changes

-----------------------------------------------------------------------------
(* Invitations. *)

\* An invitation is open, or nobody relies on having found it open alone.
LEMMA AloneStep ==
    ASSUME Typed, Alone, [Next]_vars
    PROVE  Alone' /\ (regranted = {} => regranted' = {})
<1> DEFINE Fine == Alone' /\ (regranted = {} => regranted' = {})
<1> SUFFICES Fine
  OBVIOUS
<1>0. /\ accept \in SUBSET [by : Requests, invite : Invites, alone : BOOLEAN]
      /\ invite \in [Invites -> Invitation]
  BY DEF Typed
<1>1. ASSUME UNCHANGED <<accept, regranted>>,
             \A i \in Invites : invite'[i].state = "accepted" => invite[i].state = "accepted"
      PROVE  Fine
  BY <1>0, <1>1 DEF Alone
<1>2. ASSUME NEW r \in Requests, NEW i \in Invites, FindInvite(r, i) PROVE Fine
  <2>1. PICK one : one = [by |-> r, invite |-> i, alone |-> \A a \in accept : a.invite # i]
    OBVIOUS
  <2>2. one.invite = i /\ (one.alone => \A a \in accept : a.invite # i)
    BY <2>1
  <2>3. accept' = {[a EXCEPT !.alone = a.alone /\ a.invite # i] : a \in accept} \cup {one}
    BY <1>2, <2>1 DEF FindInvite
  <2>4. ASSUME NEW a \in accept, NEW q, q = [a EXCEPT !.alone = a.alone /\ a.invite # i]
        PROVE  q.invite = a.invite /\ (q.alone => a.alone /\ a.invite # i)
    BY <1>0, <2>4
  <2>5. \A q \in accept' : \/ q = one
                           \/ \E a \in accept : /\ q = [a EXCEPT !.alone = a.alone /\ a.invite # i]
                                                /\ q.invite = a.invite /\ (q.alone => a.alone /\ a.invite # i)
    BY <2>3, <2>4
  <2>6. UNCHANGED <<invite, regranted>> /\ invite[i].state = "open"
    BY <1>2 DEF FindInvite, Acceptable
  <2>7. ASSUME NEW p \in accept', NEW q \in accept', p.invite = q.invite, p.alone PROVE p = q
    <3>1. CASE p = one
      BY <2>2, <2>5, <2>7, <3>1
    <3>2. CASE p # one
      <4>1. PICK a \in accept : /\ p = [a EXCEPT !.alone = a.alone /\ a.invite # i]
                                /\ p.invite = a.invite /\ a.alone /\ a.invite # i
        BY <2>5, <2>7, <3>2
      <4>2. PICK b \in accept : q = [b EXCEPT !.alone = b.alone /\ b.invite # i] /\ q.invite = b.invite
        BY <2>2, <2>5, <2>7, <4>1
      <4> QED
        BY <2>7, <4>1, <4>2 DEF Alone
    <3> QED
      BY <3>1, <3>2
  <2>8. \A q \in accept' : q.alone => invite'[q.invite].state # "accepted"
    BY <2>2, <2>5, <2>6 DEF Alone
  <2> QED
    BY <2>6, <2>7, <2>8 DEF Alone
<1>3. ASSUME NEW a \in accept, AcceptInvite(a) PROVE Fine
  <2>1. accept' = accept \ {a}
    BY <1>3 DEF AcceptInvite
  <2>2. \A q \in accept' : q.alone => q.invite # a.invite
    BY <2>1 DEF Alone
  <2>3. \A j \in Invites : j # a.invite => invite'[j] = invite[j]
    BY <1>0, <1>3 DEF AcceptInvite
  <2>4. a.alone => invite[a.invite].state # "accepted"
    BY DEF Alone
  <2>5. regranted = {} => regranted' = {}
    BY <1>3, <2>4 DEF AcceptInvite
  <2> QED
    BY <1>0, <2>1, <2>2, <2>3, <2>5 DEF Alone
<1>4. ASSUME NEW b \in Boards, CreateBoard(b) \/ Restore(b) PROVE Fine
  BY <1>1, <1>4 DEF CreateBoard, Restore
<1>5. ASSUME NEW b \in Boards, Purge(b) PROVE Fine
  <2>1. UNCHANGED <<accept, regranted>>
    BY <1>5 DEF Purge
  <2>2. UNCHANGED invite \/ invite' = [i \in Invites |-> IF invite[i].board = b THEN NoInvite ELSE invite[i]]
    BY <1>5 DEF Purge
  <2>3. \A i \in Invites : invite'[i].state = "accepted" => invite[i].state = "accepted"
    BY <2>2 DEF NoInvite
  <2> QED
    BY <1>1, <2>1, <2>3
<1>6. ASSUME NEW p, NEW out, StartEnforcing(p, out) PROVE Fine
  BY <1>1, <1>6 DEF StartEnforcing
<1>7. CASE FinishEnforcing \/ PlanExpires
  BY <1>1, <1>7 DEF FinishEnforcing, PlanExpires
<1>8. ASSUME NEW c \in claim, ClaimEditorSeat(c) PROVE Fine
  BY <1>1, <1>8 DEF ClaimEditorSeat
<1>9. ASSUME NEW b \in Shared, NEW u \in Others, Demote(b, u) \/ RemoveMember(b, u) \/ Promote(b, u) \/ (\E r \in Requests : FindEditor(r, u, b))
      PROVE  Fine
  BY <1>1, <1>9 DEF Demote, RemoveMember, Promote, FindEditor
<1>10. ASSUME NEW b \in Shared, NEW on, SetLink(b, on) PROVE Fine
  BY <1>1, <1>10 DEF SetLink
<1>11. ASSUME NEW b \in Shared, NEW u \in Others, NEW i \in Invites, NEW role \in {"viewer", "editor"},
              Invite(i, b, u, role)
       PROVE  Fine
  <2>1. PICK one : one = [state |-> "open", board |-> b, user |-> u, role |-> role]
    OBVIOUS
  <2>2. invite' = [invite EXCEPT ![i] = one] /\ one.state = "open" /\ UNCHANGED <<accept, regranted>>
    BY <1>11, <2>1 DEF Invite
  <2> QED
    BY <1>0, <1>1, <2>2
<1>12. ASSUME NEW i \in Invites, RevokeInvite(i) PROVE Fine
  <2>1. PICK one : one = [invite[i] EXCEPT !.state = "revoked"]
    OBVIOUS
  <2>2. invite' = [invite EXCEPT ![i] = one] /\ UNCHANGED <<accept, regranted>>
    BY <1>12, <2>1 DEF RevokeInvite
  <2>3. one.state = "revoked"
    BY <1>0, <2>1 DEF Invitation
  <2> QED
    BY <1>0, <1>1, <2>2, <2>3
<1>13. CASE UNCHANGED vars
  BY <1>1, <1>13 DEF vars
<1>14. \A b \in Boards : Trash(b) => StartEnforcing(plan, {b})
  BY DEF Trash
<1>15. \A p \in Plans : ChangePlan(p) => StartEnforcing(p, {})
  BY DEF ChangePlan
<1>16. Sweep => StartEnforcing(plan, {})
  BY DEF Sweep
<1>17. CASE Next
  <2> HIDE DEF Fine
  <2>1. CASE \E r \in Requests : \/ \E i \in Invites : FindInvite(r, i)
                                 \/ \E b \in Shared, u \in Others : FindEditor(r, u, b)
    BY <1>2, <1>9, <2>1
  <2>2. CASE \E b \in Boards : CreateBoard(b) \/ Restore(b) \/ Purge(b) \/ Trash(b)
    BY <1>4, <1>5, <1>6, <1>14, <2>2
  <2>3. CASE \E b \in Shared, u \in Others :
               \/ Demote(b, u) \/ RemoveMember(b, u) \/ Promote(b, u)
               \/ \E i \in Invites, role \in {"viewer", "editor"} : Invite(i, b, u, role)
    BY <1>9, <1>11, <2>3
  <2>4. CASE (\E p \in Plans : ChangePlan(p)) \/ Sweep \/ FinishEnforcing \/ PlanExpires
    BY <1>6, <1>7, <1>15, <1>16, <2>4
  <2>5. CASE \/ \E a \in accept : AcceptInvite(a)
             \/ \E c \in claim : ClaimEditorSeat(c)
             \/ \E b \in Shared, on \in BOOLEAN : SetLink(b, on)
             \/ \E i \in Invites : RevokeInvite(i)
    BY <1>3, <1>8, <1>10, <1>12, <2>5
  <2> QED
    BY <1>17, <2>1, <2>2, <2>3, <2>4, <2>5 DEF Next
<1> QED
  BY <1>13, <1>17

-----------------------------------------------------------------------------
(* Limits. *)

\* What an enforcement applied is the limit of the plan that is left, unless the plan expired since.
LEMMA LimitOfThePlan ==
    ASSUME Typed, InTime, NEW e \in enforcing, NEW keep, NEW live, EndsWith(e, keep, live), ~due'
    PROVE  plan' = e.plan
  BY DEF Typed, InTime, EndsWith

LEMMA BoardsFitStep ==
    ASSUME Typed, InTime, EditableBoardsFit, [Next]_vars
    PROVE  EditableBoardsFit'
<1> DEFINE Editable == {b \in Live : ~board[b].locked}
<1>0. /\ Shared \subseteq Boards /\ board \in [Boards -> Board] /\ plan \in Plans /\ IsFiniteSet(Boards)
      /\ BoardLimit \in [Plans -> Nat]
  BY OwnedBoardsAssumption DEF Typed
<1>1. \A s \in SUBSET Boards : IsFiniteSet(s) /\ Cardinality(s) \in Nat
  BY <1>0, FS_Subset, FS_CardinalityType
<1>2. CASE UNCHANGED <<board, plan, due>>
  BY <1>2 DEF EditableBoardsFit, Live
<1>3. ASSUME NEW b \in Boards, CreateBoard(b) \/ Restore(b) PROVE EditableBoardsFit'
  <2>1. Cardinality(Live) < BoardLimit[plan] /\ UNCHANGED plan
    BY <1>3, SlotTaken DEF HasBoardSlot
  <2>2. Editable' \subseteq Live \cup {b} /\ Live \cup {b} \subseteq Boards /\ Live \subseteq Boards
    BY <1>3, SlotTaken DEF Live
  <2>3. Cardinality(Live \cup {b}) <= Cardinality(Live) + 1
    BY <1>1, <2>2, FS_AddElement
  <2>4. Cardinality(Editable') <= Cardinality(Live \cup {b})
    BY <1>1, <2>2, FS_Subset
  <2>5. Cardinality(Editable') \in Nat /\ Cardinality(Live) \in Nat /\ Cardinality(Live \cup {b}) \in Nat
    BY <1>1, <2>2
  <2>6. Cardinality(Editable') <= BoardLimit[plan]
    BY <1>0, <2>1, <2>3, <2>4, <2>5
  <2> QED
    BY <2>1, <2>6 DEF EditableBoardsFit
<1>4. ASSUME NEW b \in Boards, Purge(b) PROVE EditableBoardsFit'
  <2>1. PICK row : row = [state |-> "purged", locked |-> FALSE]
    OBVIOUS
  <2>2. board' = [board EXCEPT ![b] = row] /\ UNCHANGED <<plan, due>> /\ row.state = "purged"
    BY <1>4, <2>1, PurgedSeats
  <2>3. board[b].state = "trashed"
    BY <1>4, PurgedSeats
  <2>4. Editable' = Editable
    BY <1>0, <2>2, <2>3 DEF Live
  <2> QED
    BY <2>2, <2>4 DEF EditableBoardsFit
<1>5. CASE FinishEnforcing
  <2>1. PICK e \in enforcing, keep \in SUBSET Live, live \in SUBSET Boards : EndsWith(e, keep, live)
    BY <1>5, FinishedBoards
  <2>2. BoardLimit[e.plan] \in Nat
    BY <1>0 DEF Typed, Enforcement
  <2>3. Cardinality(keep) <= BoardLimit[e.plan] /\ keep \subseteq live
    <3>1. /\ keep \subseteq live
          /\ Cardinality(keep) = IF Cardinality(live) <= BoardLimit[e.plan] THEN Cardinality(live) ELSE BoardLimit[e.plan]
      BY <2>1 DEF EndsWith, Keepable
    <3> QED
      BY <1>1, <2>2, <3>1
  <2>4. Live' = live /\ \A b \in live : board'[b].locked <=> b \notin keep
    BY <2>1 DEF EndsWith
  <2>5. Editable' = keep
    BY <2>3, <2>4
  <2>6. ~due' => plan' = e.plan
    BY <2>1, LimitOfThePlan
  <2> QED
    BY <2>3, <2>5, <2>6 DEF EditableBoardsFit
<1>6. PlanExpires => EditableBoardsFit'
  BY DEF PlanExpires, EditableBoardsFit
<1>7. \A p, out : StartEnforcing(p, out) => UNCHANGED <<board, plan, due>>
  BY DEF StartEnforcing
<1>8. \A c \in claim : ClaimEditorSeat(c) => UNCHANGED <<board, plan, due>>
  BY DEF ClaimEditorSeat
<1>9. \A b \in Shared, u \in Others : Demote(b, u) \/ RemoveMember(b, u) => UNCHANGED <<board, plan, due>>
  BY DEF Demote, RemoveMember
<1>10. Quiet => UNCHANGED <<board, plan, due>>
  BY DEF Quiet
<1> QED
  BY <1>2, <1>3, <1>4, <1>5, <1>6, <1>7, <1>8, <1>9, <1>10, Changes

\* After an enforcement the active seats are of people who were early on the list it read, if it
\* read all of them.
LEMMA EarlyAreActive ==
    ASSUME Typed, SeatedOnce, Known, NEW e \in enforcing, NEW keep, NEW live, EndsWith(e, keep, live),
           NEW b \in Shared, b \in live, b \notin e.claimed
    PROVE  Cardinality({n \in DOMAIN seats'[b] : ~seats'[b][n].suspended}) <= OtherSeats[e.plan]
<1> DEFINE list == e.seats[b]
           limit == OtherSeats[e.plan]
<1>1. limit \in Nat /\ list \in Seq(Seat) /\ seats[b] \in Seq(Seat)
  BY OwnedBoardsAssumption DEF Typed, Enforcement
<1>2. PICK len \in Nat : DOMAIN list = 1..len
  BY <1>1
<1>3. DOMAIN seats'[b] = DOMAIN seats[b]
  BY DEF EndsWith
<1>4. ASSUME NEW n \in ActiveIn(seats'[b])
      PROVE  \E m \in 1..limit : m \in DOMAIN list /\ list[m].user = seats[b][n].user
  <2>1. n \in DOMAIN seats[b] /\ ~seats'[b][n].suspended
    BY <1>3 DEF ActiveIn
  <2>2. PICK m \in DOMAIN list : /\ list[m].user = seats[b][n].user
                                 /\ list[m].suspended <=> seats[b][n].suspended
    BY <2>1 DEF Known, WasRead
  <2>3. PICK row \in Seat : row = seats[b][n]
    BY <1>1, <2>1
  <2>4. seats'[b][n] = Suspend(row, list, limit)
    BY <2>1, <2>3 DEF EndsWith
  <2>5. row.user \in ToActivate(list, limit) \/ (row.user \notin ToSuspend(list, limit) /\ ~row.suspended)
    BY <2>1, <2>4, SuspendedSeat
  <2>6. m <= limit
    <3>1. CASE row.user \in ToActivate(list, limit)
      <4>1. PICK k \in DOMAIN list : k <= limit /\ list[k].user = row.user
        BY <3>1 DEF ToActivate
      <4>2. k = m
        BY <2>2, <2>3, <4>1 DEF SeatedOnce, Once
      <4> QED
        BY <4>1, <4>2
    <3>2. CASE row.user \notin ToSuspend(list, limit) /\ ~row.suspended
      <4>1. ~(m > limit /\ ~list[m].suspended)
        BY <2>2, <2>3, <3>2 DEF ToSuspend
      <4> QED
        BY <1>1, <1>2, <2>2, <2>3, <3>2, <4>1
    <3> QED
      BY <2>5, <3>1, <3>2
  <2>7. m \in 1..limit
    BY <1>1, <1>2, <2>6
  <2> QED
    BY <2>2, <2>7
<1>5. PICK f : f = [n \in ActiveIn(seats'[b]) |->
                        CHOOSE m \in 1..limit : m \in DOMAIN list /\ list[m].user = seats[b][n].user]
  OBVIOUS
<1>6. \A n \in ActiveIn(seats'[b]) : f[n] \in 1..limit /\ list[f[n]].user = seats[b][n].user
  BY <1>4, <1>5
<1>7. f \in [ActiveIn(seats'[b]) -> 1..limit]
  BY <1>5, <1>6
<1>8. \A x, y \in ActiveIn(seats'[b]) : f[x] = f[y] => x = y
  <2>1. ActiveIn(seats'[b]) \subseteq DOMAIN seats[b]
    BY <1>3 DEF ActiveIn
  <2> QED
    BY <1>6, <2>1 DEF SeatedOnce, Once
<1>9. IsFiniteSet(1..limit) /\ Cardinality(1..limit) = limit
  <2>1. \A k \in Nat : IsFiniteSet(1..k) /\ Cardinality(1..k) = k
    BY FS_Interval
  <2> QED
    BY <1>1, <2>1
<1>10. PICK set : set = ActiveIn(seats'[b])
  OBVIOUS
<1>11. Cardinality(set) <= Cardinality(1..limit)
  <2>1. f \in [set -> 1..limit] /\ \A x, y \in set : f[x] = f[y] => x = y
    BY <1>7, <1>8, <1>10
  <2> QED
    BY <1>9, <2>1, NotMore
<1> QED
  BY <1>9, <1>10, <1>11 DEF ActiveIn

LEMMA SeatsFitStep ==
    ASSUME Typed, InTime, Trashed, SeatedOnce, Known, ActiveSeatsFitUnlessUnchecked, [Next]_vars
    PROVE  ActiveSeatsFitUnlessUnchecked'
<1> DEFINE Fits(b) == \/ b \in unchecked \/ board[b].locked
                      \/ Cardinality({n \in DOMAIN seats[b] : ~seats[b][n].suspended}) <= OtherSeats[plan]
           Fit == ~due => \A b \in Shared : b \in Live => Fits(b)
<1> SUFFICES Fit'
  BY DEF ActiveSeatsFitUnlessUnchecked, Active
<1>0. /\ Shared \subseteq Boards /\ board \in [Boards -> Board] /\ plan \in Plans
      /\ seats \in [Shared -> Seq(Seat)]
  BY OwnedBoardsAssumption DEF Typed
<1>1. Fit
  BY DEF ActiveSeatsFitUnlessUnchecked, Active
<1>2. CASE UNCHANGED <<board, plan, due, seats, unchecked>>
  BY <1>1, <1>2 DEF Live
<1>3. ASSUME NEW b \in Boards, CreateBoard(b) \/ Restore(b) PROVE Fit'
  <2>1. /\ UNCHANGED <<plan, due, seats, unchecked>> /\ board[b].state \in {"absent", "trashed"}
        /\ \A d \in Boards : d # b => board'[d] = board[d]
    BY <1>3, SlotTaken
  <2>2. b \in Shared => b \in unchecked
    BY <2>1 DEF Trashed
  <2>3. ASSUME NEW d \in Shared, d \in Live', d # b, ~due PROVE Fits(d)'
    <3>1. board'[d] = board[d] /\ d \in Live
      BY <1>0, <2>1, <2>3 DEF Live
    <3> QED
      BY <1>1, <2>1, <2>3, <3>1
  <2> QED
    BY <2>1, <2>2, <2>3
<1>4. ASSUME NEW b \in Shared, Dropped(b), UNCHANGED <<plan, due, unchecked>>,
             \A d \in Shared : board'[d].state = "live" => board'[d] = board[d]
      PROVE  Fit'
  <2>1. ASSUME NEW d \in Shared, d \in Live', ~due PROVE Fits(d)'
    <3>1. board'[d] = board[d] /\ d \in Live
      BY <1>0, <1>4, <2>1 DEF Live
    <3>2. CASE d # b
      <4>1. seats'[d] = seats[d]
        BY <1>0, <1>4, <3>2 DEF Dropped
      <4> QED
        BY <1>1, <1>4, <2>1, <3>1, <4>1
    <3>3. CASE d = b
      <4>1. Cardinality({n \in DOMAIN seats'[d] : ~seats'[d][n].suspended})
              <= Cardinality({n \in DOMAIN seats[d] : ~seats[d][n].suspended})
        BY <1>4, <3>3 DEF Dropped, ActiveIn
      <4>2. seats'[d] \in Seq(Seat) /\ seats[d] \in Seq(Seat) /\ OtherSeats[plan] \in Nat
        BY <1>0, <1>4, <3>3, OwnedBoardsAssumption DEF Dropped
      <4>3. /\ Cardinality({n \in DOMAIN seats'[d] : ~seats'[d][n].suspended}) \in Nat
            /\ Cardinality({n \in DOMAIN seats[d] : ~seats[d][n].suspended}) \in Nat
        BY <4>2, ActiveIsFinite DEF ActiveIn
      <4>4. Fits(d)
        BY <1>1, <2>1, <3>1
      <4> QED
        BY <1>4, <3>1, <4>1, <4>2, <4>3, <4>4
    <3> QED
      BY <3>2, <3>3
  <2> QED
    BY <1>4, <2>1
<1>5. ASSUME NEW b \in Boards, Purge(b) PROVE Fit'
  <2>1. PICK row : row = [state |-> "purged", locked |-> FALSE]
    OBVIOUS
  <2>2. /\ board' = [board EXCEPT ![b] = row] /\ row.state = "purged" /\ UNCHANGED <<plan, due, unchecked>>
        /\ IF b \in Shared THEN Dropped(b) ELSE UNCHANGED seats
    BY <1>5, <2>1, PurgedSeats
  <2>3. \A d \in Boards : board'[d].state = "live" => board'[d] = board[d]
    BY <1>0, <2>2
  <2>4. CASE b \in Shared
    BY <1>0, <1>4, <2>2, <2>3, <2>4
  <2>5. CASE b \notin Shared
    <3>1. UNCHANGED <<plan, due, unchecked, seats>>
      BY <2>2, <2>5
    <3>2. \A d \in Shared : board'[d] = board[d]
      BY <1>0, <2>2, <2>5
    <3> QED
      BY <1>0, <1>1, <3>1, <3>2 DEF Live
  <2> QED
    BY <2>4, <2>5
<1>6. CASE FinishEnforcing
  <2>1. PICK e \in enforcing, keep \in SUBSET Live, live \in SUBSET Boards : EndsWith(e, keep, live)
    BY <1>6, FinishedBoards
  <2>2. Live' = live /\ unchecked' = e.claimed \cup (Shared \ live)
    BY <2>1 DEF EndsWith
  <2>3. ~due' => plan' = e.plan
    BY <2>1, LimitOfThePlan
  <2>4. ASSUME NEW b \in Shared, b \in live, b \notin unchecked'
        PROVE  Cardinality({n \in DOMAIN seats'[b] : ~seats'[b][n].suspended}) <= OtherSeats[e.plan]
    BY <2>1, <2>2, <2>4, EarlyAreActive
  <2> QED
    BY <2>2, <2>3, <2>4
<1>7. PlanExpires => Fit'
  BY DEF PlanExpires
<1>8. ASSUME NEW c \in claim, ClaimEditorSeat(c) PROVE Fit'
  <2>1. PICK b \in Shared : b = c.board
    BY DEF Typed
  <2>2. UNCHANGED <<board, plan, due, unchecked>>
    BY <1>8, ClaimedSeat
  <2>3. ASSUME NEW row \in Seat, Claimed(b, row) PROVE Fit'
    <3>1. seats'[b] = Append(seats[b], row) /\ \A d \in Shared : d # b => seats'[d] = seats[d]
      BY <2>3, ClaimedParts
    <3>2. PICK len \in Nat : DOMAIN seats[b] = 1..len /\ Len(seats[b]) = len
      BY <1>0
    <3>3. ActiveIn(seats'[b]) \subseteq ActiveIn(seats[b]) \cup {len + 1}
      BY <1>0, <3>1, <3>2 DEF ActiveIn
    <3>4. IsFiniteSet(ActiveIn(seats[b])) /\ Cardinality(ActiveIn(seats[b])) \in Nat
      BY <1>0, ActiveIsFinite
    <3>5. /\ IsFiniteSet(ActiveIn(seats[b]) \cup {len + 1})
          /\ Cardinality(ActiveIn(seats[b]) \cup {len + 1}) <= Cardinality(ActiveIn(seats[b])) + 1
      <4>1. PICK set : set = ActiveIn(seats[b])
        OBVIOUS
      <4>2. IsFiniteSet(set \cup {len + 1}) /\ Cardinality(set \cup {len + 1}) <= Cardinality(set) + 1
        BY SMTT(30), <3>4, <4>1, FS_AddElement
      <4> QED
        BY <4>1, <4>2
    <3>6. /\ Cardinality(ActiveIn(seats'[b])) <= Cardinality(ActiveIn(seats[b]) \cup {len + 1})
          /\ Cardinality(ActiveIn(seats'[b])) \in Nat /\ Cardinality(ActiveIn(seats[b]) \cup {len + 1}) \in Nat
      BY <3>3, <3>5, FS_Subset, FS_CardinalityType
    <3>7. Cardinality(ActiveIn(seats[b])) < OtherSeats[plan] /\ OtherSeats[plan] \in Nat
      BY <1>0, <2>3, OwnedBoardsAssumption DEF Claimed
    <3>8. Cardinality(ActiveIn(seats'[b])) <= OtherSeats[plan]
      BY <3>4, <3>5, <3>6, <3>7
    <3>9. Cardinality({n \in DOMAIN seats'[b] : ~seats'[b][n].suspended}) <= OtherSeats[plan]
      BY <3>8 DEF ActiveIn
    <3> QED
      BY <1>1, <2>2, <3>1, <3>9 DEF Live
  <2> QED
    BY <1>2, <1>8, <2>1, <2>2, <2>3, ClaimedSeat
<1>9. ASSUME NEW b \in Shared, NEW u \in Others, Demote(b, u) \/ RemoveMember(b, u) PROVE Fit'
  BY <1>4, <1>9, DroppedSeat
<1>10. \A p, out : StartEnforcing(p, out) => UNCHANGED <<board, plan, due, seats, unchecked>>
  BY DEF StartEnforcing
<1>11. Quiet => UNCHANGED <<board, plan, due, seats, unchecked>>
  BY DEF Quiet
<1> HIDE DEF Fit
<1> QED
  BY <1>2, <1>3, <1>5, <1>6, <1>7, <1>8, <1>9, <1>10, <1>11, Changes

LEMMA ComesBackStep ==
    ASSUME Typed, SeatedOnce, Known, [Next]_vars, enforcing' = {},
           NEW e \in enforcing, NEW b \in Shared, board'[b].state = "live", NEW n \in DOMAIN seats'[b]
    PROVE  ~seats'[b][n].suspended \/ Len(e.seats[b]) > OtherSeats[e.plan]
<1>0. \A f \in enforcing : f = e
  BY DEF Typed
<1>1. FinishEnforcing
  <2>1. \A p, out : ~StartEnforcing(p, out)
    BY DEF StartEnforcing
  <2>2. enforcing' # enforcing
    OBVIOUS
  <2>3. ~Quiet /\ ~PlanExpires
    BY <2>2 DEF Quiet, PlanExpires
  <2>4. \A d \in Boards : ~(CreateBoard(d) \/ Restore(d) \/ Purge(d))
    BY <2>2 DEF CreateBoard, Restore, Purge
  <2>5. \A d \in Shared, u \in Others : ~(Demote(d, u) \/ RemoveMember(d, u))
    BY <2>2 DEF Demote, RemoveMember
  <2>6. ASSUME NEW c \in claim, ClaimEditorSeat(c) PROVE FALSE
    <3>1. c.board \in Shared
      BY DEF Typed
    <3> QED
      BY <2>2, <2>6, <3>1, ClaimedSeat, ClaimedParts
  <2> QED
    BY <2>1, <2>3, <2>4, <2>5, <2>6, Changes
<1>2. PICK keep \in SUBSET Live, live \in SUBSET Boards : EndsWith(e, keep, live)
  BY <1>0, <1>1, FinishedBoards
<1>3. b \in live
  BY <1>2, OwnedBoardsAssumption DEF EndsWith, Live
<1>4. SUFFICES ASSUME seats'[b][n].suspended, ~(Len(e.seats[b]) > OtherSeats[e.plan]) PROVE FALSE
  OBVIOUS
<1> DEFINE list == e.seats[b]
           limit == OtherSeats[e.plan]
<1>5. list \in Seq(Seat) /\ limit \in Nat /\ Len(list) <= limit /\ \A k \in DOMAIN list : k <= limit
  <2>1. list \in Seq(Seat) /\ limit \in Nat
    BY OwnedBoardsAssumption DEF Typed, Enforcement
  <2> QED
    BY <1>4, <2>1
<1>6. PICK row \in Seat : row = seats[b][n] /\ n \in DOMAIN seats[b]
  BY <1>2 DEF EndsWith, Typed
<1>7. seats'[b][n] = Suspend(row, list, limit)
  BY <1>2, <1>3, <1>6 DEF EndsWith
<1>8. row.user \notin ToSuspend(list, limit)
  <2>1. ASSUME NEW k \in DOMAIN list, k > limit PROVE FALSE
    BY <1>5, <2>1
  <2> HIDE DEF limit, list
  <2> QED
    BY <2>1 DEF ToSuspend
<1>9. row.suspended /\ row.user \notin ToActivate(list, limit)
  BY <1>4, <1>7, <1>8, SuspendedSeat
<1>10. PICK m \in DOMAIN list : list[m].user = row.user /\ list[m].suspended
  BY <1>6, <1>9 DEF Known, WasRead
<1>11. row.user \in ToActivate(list, limit)
  BY <1>5, <1>10 DEF ToActivate
<1> QED
  BY <1>9, <1>11

-----------------------------------------------------------------------------
(* Theorems. *)

OwnedInv ==
    /\ Typed /\ InTime /\ Trashed /\ SeatedOnce /\ Known
    /\ EditableBoardsFit /\ ActiveSeatsFitUnlessUnchecked
    /\ Alone /\ InviteGrantsOnceUnlessRaced

LEMMA OwnedInit ==
    ASSUME Init
    PROVE  OwnedInv
<1>1. \A b \in Boards : /\ board[b] \in Board /\ ~board[b].locked
                        /\ board[b].state = IF b \in Shared THEN "live" ELSE "absent"
  BY DEF Init, Board
<1>2. NoInvite \in Invitation
  BY DEF NoInvite, Invitation
<1>3. \A b \in Shared : seats[b] = <<>> /\ seats[b] \in Seq(Seat) /\ DOMAIN seats[b] = {}
  BY DEF Init
<1>4. Typed
  <2>1. board \in [Boards -> Board]
    BY <1>1 DEF Init
  <2>2. seats \in [Shared -> Seq(Seat)]
    BY <1>3 DEF Init
  <2>3. invite \in [Invites -> Invitation]
    BY <1>2 DEF Init
  <2> QED
    BY <2>1, <2>2, <2>3 DEF Init, Typed
<1>5. InTime /\ SeatedOnce /\ Known
  BY <1>3 DEF Init, InTime, SeatedOnce, Once, Known
<1>6. Trashed
  BY <1>1, OwnedBoardsAssumption DEF Trashed
<1>7. EditableBoardsFit
  <2>1. {b \in Live : ~board[b].locked} = Shared
    BY <1>1, OwnedBoardsAssumption DEF Live
  <2>2. Cardinality(Shared) <= BoardLimit[plan]
    BY OwnedBoardsAssumption DEF Init
  <2> QED
    BY <2>1, <2>2 DEF EditableBoardsFit
<1>8. ActiveSeatsFitUnlessUnchecked
  <2>1. \A b \in Shared : Active(b) = {}
    BY <1>3 DEF Active
  <2>2. OtherSeats[plan] \in Nat
    BY OwnedBoardsAssumption DEF Init
  <2>3. \A b \in Shared : Cardinality(Active(b)) <= OtherSeats[plan]
    BY <2>1, <2>2, FS_EmptySet
  <2> QED
    BY <2>3 DEF ActiveSeatsFitUnlessUnchecked
<1>9. Alone /\ InviteGrantsOnceUnlessRaced
  BY DEF Init, Alone, InviteGrantsOnceUnlessRaced
<1> QED
  BY <1>4, <1>5, <1>6, <1>7, <1>8, <1>9 DEF OwnedInv

LEMMA OwnedStep ==
    ASSUME OwnedInv, [Next]_vars
    PROVE  OwnedInv'
<1>1. Typed'
  BY TypedStep DEF OwnedInv
<1>2. InTime' /\ Trashed'
  BY InTimeStep, TrashedStep DEF OwnedInv
<1>3. SeatedOnce' /\ Known'
  BY SeatsStep DEF OwnedInv
<1>4. EditableBoardsFit'
  BY BoardsFitStep DEF OwnedInv
<1>5. ActiveSeatsFitUnlessUnchecked'
  BY SeatsFitStep DEF OwnedInv
<1>6. Alone' /\ InviteGrantsOnceUnlessRaced'
  BY AloneStep DEF OwnedInv, InviteGrantsOnceUnlessRaced
<1> QED
  BY <1>1, <1>2, <1>3, <1>4, <1>5, <1>6 DEF OwnedInv

LEMMA OwnedAlways == Spec => []OwnedInv
<1>1. Init => OwnedInv
  BY OwnedInit
<1>2. OwnedInv /\ [Next]_vars => OwnedInv'
  BY OwnedStep
<1> QED
  BY <1>1, <1>2, PTL DEF Spec

\* The boards somebody may edit fit the owner's plan: a live board is made, copied or restored
\* under the owner's lock and counted there, and an enforcement leaves no more unlocked than the
\* plan it read includes, which is the plan that is left unless it expired meanwhile.
THEOREM BoardsFit == Spec => []EditableBoardsFit
<1>1. OwnedInv => EditableBoardsFit
  BY DEF OwnedInv
<1> QED
  BY <1>1, OwnedAlways, PTL

\* The active editors of a board fit the plan, unless a seat was claimed while the limits were being
\* enforced or the board was in the trash then: those an enforcement leaves active were early on the
\* list that it read, one seat for each person.
THEOREM SeatsFit == Spec => []ActiveSeatsFitUnlessUnchecked
<1>1. OwnedInv => ActiveSeatsFitUnlessUnchecked
  BY DEF OwnedInv
<1> QED
  BY <1>1, OwnedAlways, PTL

\* An enforcement brings back every seat on a board with room for all: a suspended seat is always
\* one that the enforcement has read.
THEOREM SeatsReturn == Spec => SeatsComeBack
<1>1. OwnedInv /\ [Next]_vars =>
        [enforcing' = {} => \A e \in enforcing, b \in Shared : board'[b].state = "live" =>
           \A n \in DOMAIN seats'[b] :
              \/ ~seats'[b][n].suspended
              \/ Len(e.seats[b]) > OtherSeats[e.plan]]_vars
  BY ComesBackStep DEF OwnedInv
<1> QED
  BY <1>1, OwnedAlways, PTL DEF Spec, SeatsComeBack

\* An invitation makes somebody a member once, unless two requests found it open together: who
\* found it open alone still finds it so when it is accepted.
THEOREM InvitesGrantOnce == Spec => []InviteGrantsOnceUnlessRaced
<1>1. OwnedInv => InviteGrantsOnceUnlessRaced
  BY DEF OwnedInv
<1> QED
  BY <1>1, OwnedAlways, PTL
=============================================================================
