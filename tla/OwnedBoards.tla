---------------------------- MODULE OwnedBoards ----------------------------
(***************************************************************************)
(* The boards of one owner under the limits of the owner's plan: creating, *)
(* trash and restore, members, invitations and share links, editor seats.  *)
(*   apps/server/src/billing/limits.ts, api/boards.ts, boardExtras.ts,     *)
(*   sharing.ts, me.ts, shared/src/entitlements/checks.ts                  *)
(* A transaction is one action, or one per statement where what it read    *)
(* may be out of date when it writes. Advisory locks and row locks appear  *)
(* as what their holder excludes.                                          *)
(***************************************************************************)
EXTENDS BoardAccess, Sequences, FiniteSets, SequencesExt

CONSTANTS Boards,       \* ids of boards
          Shared,       \* the boards that are shared with others
          Others,       \* users other than the owner
          Invites,      \* ids of invitations
          Plans,        \* plans, "free" among them
          BoardLimit,   \* boards a plan includes
          OtherSeats,   \* editors other than the owner on each board
          Requests      \* requests that are handled at the same time, each its own transaction

ASSUME OwnedBoardsAssumption ==
    /\ Shared \subseteq Boards /\ "free" \in Plans
    /\ BoardLimit \in [Plans -> Nat] /\ OtherSeats \in [Plans -> Nat]
    /\ IsFiniteSet(Boards)

VARIABLES board,      \* absent, live, trashed or purged, and locked by the plan or not
          member,     \* roles of the others on shared boards
          seats,      \* editor seats of each shared board, in the order they were claimed
          link,       \* whether a share link that lets people edit is active
          invite,     \* invitations
          plan,       \* what the owner's valid grants amount to
          enforcing,  \* enforceOwnerLimits at work: what it has read, until its transaction commits
          claim,      \* requests that found somebody to be an editor and will claim a seat
          accept,     \* requests that found an invitation to be open
          due,        \* history: a grant has expired and nothing was enforced since
          unchecked,      \* history: boards in the trash, or with a new claim, during the last enforcement
          regranted   \* history: invitations that made somebody a member once more

vars == <<board, member, seats, link, invite, plan, enforcing, claim, accept,
          due, unchecked, regranted>>

NoInvite == [state |-> "none", board |-> "none", user |-> "nobody", role |-> "viewer"]

\* The shared boards are there at first, under a plan that includes them.
Init ==
    /\ board = [b \in Boards |-> [state |-> IF b \in Shared THEN "live" ELSE "absent", locked |-> FALSE]]
    /\ member = [b \in Shared |-> [u \in Others |-> "none"]]
    /\ seats = [b \in Shared |-> <<>>]
    /\ link = [b \in Shared |-> FALSE]
    /\ invite = [i \in Invites |-> NoInvite]
    /\ plan \in {p \in Plans : Cardinality(Shared) <= BoardLimit[p]}
    /\ enforcing = {} /\ claim = {} /\ accept = {}
    /\ due = FALSE /\ unchecked = {} /\ regranted = {}

Live == {b \in Boards : board[b].state = "live"}
Active(b) == {n \in DOMAIN seats[b] : ~seats[b][n].suspended}
SeatOf(b, u) == {n \in DOMAIN seats[b] : seats[b][n].user = u}
\* A row is deleted by its key, which is the board and the user.
Without(list, u) ==
    LET rows == {n \in DOMAIN list : list[n].user = u}
    IN  IF rows = {} THEN list ELSE RemoveAt(list, CHOOSE n \in rows : TRUE)

\* assertEditorSeatAvailable and checkEditorSeat
SeatAvailable(b, u) ==
    \/ \E n \in SeatOf(b, u) : ~seats[b][n].suspended
    \/ Cardinality(Active(b)) < OtherSeats[plan]

Idle(r) == \A q \in accept \cup claim : q.by # r

\* The role of somebody on a shared board, by membership or by the link.
RoleOn(b, u) ==
    Resolve([member |-> member[b][u], org |-> "none", link |-> IF link[b] THEN "editor" ELSE "none",
             isPublic |-> FALSE, capped |-> FALSE])

----------------------------------------------------------------------------
(* Boards *)

\* assertBoardSlot: under the lock of the owner's limits, the boards out of the trash are counted,
\* whatever is locked.
HasBoardSlot == Cardinality(Live) < BoardLimit[plan]

\* A board is made, or copied, if there is a slot for it.
CreateBoard(b) ==
    /\ enforcing = {} /\ board[b].state = "absent" /\ HasBoardSlot
    /\ board' = [board EXCEPT ![b].state = "live"]
    /\ UNCHANGED <<member, seats, link, invite, plan, enforcing, claim, accept, due, unchecked, regranted>>

\* Mutant: a restored board takes no slot.
RestoreAnyway(b) ==
    /\ board[b].state = "trashed" /\ enforcing = {}
    /\ board' = [board EXCEPT ![b].state = "live"]
    /\ UNCHANGED <<member, seats, link, invite, plan, enforcing, claim, accept,
                   due, unchecked, regranted>>
Restore(b) ==
    /\ board[b].state = "trashed" /\ enforcing = {} /\ HasBoardSlot
    /\ board' = [board EXCEPT ![b].state = "live"]
    /\ UNCHANGED <<member, seats, link, invite, plan, enforcing, claim, accept,
                   due, unchecked, regranted>>

\* Purging the trash deletes the row, and with it everything that refers to it.
Purge(b) ==
    /\ board[b].state = "trashed"
    /\ board' = [board EXCEPT ![b] = [state |-> "purged", locked |-> FALSE]]
    /\ IF b \in Shared
       THEN /\ member' = [member EXCEPT ![b] = [u \in Others |-> "none"]]
            /\ seats' = [seats EXCEPT ![b] = <<>>]
            /\ link' = [link EXCEPT ![b] = FALSE]
            /\ invite' = [i \in Invites |-> IF invite[i].board = b THEN NoInvite ELSE invite[i]]
       ELSE UNCHANGED <<member, seats, link, invite>>
    /\ UNCHANGED <<plan, enforcing, claim, accept, due, unchecked, regranted>>

----------------------------------------------------------------------------
(* Plan limits: a change of plan, an expired grant or a board moved to the trash *)

\* boardsToKeepEditable: those that are editable stay so before any other.
Keepable(live, limit) ==
    LET open == {b \in live : ~board[b].locked}
    IN  {keep \in SUBSET live :
            /\ Cardinality(keep) = IF Cardinality(live) <= limit THEN Cardinality(live) ELSE limit
            /\ keep \subseteq open \/ open \subseteq keep}

\* Under the owner's lock the plan, the boards and their seats are read.
StartEnforcing(newPlan, trashed) ==
    /\ enforcing = {}
    /\ enforcing' = {[plan |-> newPlan, given |-> newPlan # plan, trashed |-> trashed, seats |-> seats, claimed |-> {}]}
    /\ UNCHANGED <<board, member, seats, link, invite, plan, claim, accept,
                   due, unchecked, regranted>>

ChangePlan(p) == p # plan /\ StartEnforcing(p, {})
Sweep == due /\ StartEnforcing(plan, {})
Trash(b) == b \in Live /\ StartEnforcing(plan, {b})

\* seatsToKeepActive, of the seats that were read: the earliest claimed ones.
ToActivate(list, keep) == {list[n].user : n \in {n \in DOMAIN list : n <= keep /\ list[n].suspended}}
ToSuspend(list, keep) == {list[n].user : n \in {n \in DOMAIN list : n > keep /\ ~list[n].suspended}}

\* Mutant: what is over the limit is suspended, nothing comes back.
SuspendOnly(row, read, keep) ==
    IF row.user \in ToSuspend(read, keep) THEN [row EXCEPT !.suspended = TRUE] ELSE row
\* Mutant: seats are not suspended.
SuspendNone(row, read, keep) ==
    IF row.user \in ToActivate(read, keep) THEN [row EXCEPT !.suspended = FALSE] ELSE row
Suspend(row, read, keep) ==
    IF row.user \in ToActivate(read, keep) THEN [row EXCEPT !.suspended = FALSE]
    ELSE IF row.user \in ToSuspend(read, keep) THEN [row EXCEPT !.suspended = TRUE] ELSE row

\* The locks are set and lifted, the seats that were read are suspended or brought back, commit.
FinishEnforcing ==
    /\ \E e \in enforcing :
       LET live == Live \ e.trashed
           p == IF e.given THEN e.plan ELSE plan
       IN  /\ \E keep \in Keepable(live, BoardLimit[e.plan]) :
                board' = [b \in Boards |->
                    CASE b \in e.trashed /\ board[b].state = "live" -> [board[b] EXCEPT !.state = "trashed"]
                      [] b \in live -> [board[b] EXCEPT !.locked = b \notin keep]
                      [] OTHER -> board[b]]
           /\ seats' = [b \in Shared |->
                IF b \notin live THEN seats[b]
                ELSE [n \in DOMAIN seats[b] |-> Suspend(seats[b][n], e.seats[b], OtherSeats[e.plan])]]
           /\ plan' = p
           /\ due' = (due /\ p # e.plan)
           /\ unchecked' = e.claimed \cup (Shared \ live)
    /\ enforcing' = {}
    /\ UNCHANGED <<member, link, invite, claim, accept, regranted>>

\* A grant's time is over: from this moment the plan is a lesser one.
PlanExpires ==
    /\ plan # "free"
    /\ plan' = "free" /\ due' = TRUE
    /\ UNCHANGED <<board, member, seats, link, invite, enforcing, claim, accept,
                   unchecked, regranted>>

----------------------------------------------------------------------------
(* Editor seats *)

\* A ticket, an upgrade or a write reads the caller's access: an editor without a seat, on a board
\* that is not locked, will claim one.
FindEditor(r, u, b) ==
    /\ Idle(r)
    /\ b \in Shared \cap Live /\ ~board[b].locked
    /\ Can(RoleOn(b, u).role, "write") /\ SeatOf(b, u) = {}
    /\ claim' = claim \cup {[by |-> r, user |-> u, board |-> b, via |-> RoleOn(b, u).via]}
    /\ UNCHANGED <<board, member, seats, link, invite, plan, enforcing, accept,
                   due, unchecked, regranted>>

TakeSeat(c) ==
    IF Cardinality(Active(c.board)) < OtherSeats[plan] /\ board[c.board].state # "purged"
    THEN /\ seats' = [seats EXCEPT ![c.board] = Append(@, [user |-> c.user, suspended |-> FALSE, via |-> c.via])]
         /\ enforcing' = {[e EXCEPT !.claimed = @ \cup {c.board}] : e \in enforcing}
    ELSE UNCHANGED <<seats, enforcing>>

\* claimEditorSeat, under the lock of the board's seats.
ClaimEditorSeat(c) ==
    /\ claim' = claim \ {c}
    /\ IF SeatOf(c.board, c.user) = {} THEN TakeSeat(c) ELSE UNCHANGED <<seats, enforcing>>
    /\ UNCHANGED <<board, member, link, invite, plan, accept, due, unchecked, regranted>>

\* History: a claim that is on its way for somebody whose role was just taken.
Stale(u, b) ==
    claim' = {IF c.user = u /\ c.board = b THEN [c EXCEPT !.via = "stale"] ELSE c : c \in claim}

----------------------------------------------------------------------------
(* Members, links and invitations *)

\* PATCH and DELETE free the seat of somebody who is no longer an editor.
Demote(b, u) ==
    /\ b \in Live /\ member[b][u] = "editor"
    /\ member' = [member EXCEPT ![b][u] = "viewer"]
    /\ seats' = [seats EXCEPT ![b] = Without(@, u)]
    /\ Stale(u, b)
    /\ UNCHANGED <<board, link, invite, plan, enforcing, accept, due, unchecked, regranted>>
RemoveMember(b, u) ==
    /\ b \in Live /\ member[b][u] # "none"
    /\ member' = [member EXCEPT ![b][u] = "none"]
    /\ seats' = [seats EXCEPT ![b] = Without(@, u)]
    /\ Stale(u, b)
    /\ UNCHANGED <<board, link, invite, plan, enforcing, accept, due, unchecked, regranted>>
Promote(b, u) ==
    /\ b \in Live /\ member[b][u] = "viewer" /\ SeatAvailable(b, u)
    /\ member' = [member EXCEPT ![b][u] = "editor"]
    /\ UNCHANGED <<board, seats, link, invite, plan, enforcing, claim, accept,
                   due, unchecked, regranted>>

\* A link that lets people edit is made and revoked; the seats taken through it stay.
SetLink(b, on) ==
    /\ b \in Live /\ link[b] # on
    /\ link' = [link EXCEPT ![b] = on]
    /\ UNCHANGED <<board, member, seats, invite, plan, enforcing, claim, accept,
                   due, unchecked, regranted>>

Invite(i, b, u, role) ==
    /\ invite[i].state = "none" /\ b \in Live /\ member[b][u] = "none"
    /\ role = "editor" => SeatAvailable(b, "nobody")
    /\ invite' = [invite EXCEPT ![i] = [state |-> "open", board |-> b, user |-> u, role |-> role]]
    /\ UNCHANGED <<board, member, seats, link, plan, enforcing, claim, accept,
                   due, unchecked, regranted>>
RevokeInvite(i) ==
    /\ invite[i].state = "open"
    /\ invite' = [invite EXCEPT ![i].state = "revoked"]
    /\ UNCHANGED <<board, member, seats, link, plan, enforcing, claim, accept,
                   due, unchecked, regranted>>

\* Mutant: an accepted invitation opens again.
OpenOrAccepted(i) == invite[i].state \in {"open", "accepted"}
Acceptable(i) == invite[i].state = "open"

\* The link in the email and the first sign-in read the invitation without a lock.
FindInvite(r, i) ==
    /\ Idle(r)
    /\ Acceptable(i) /\ invite[i].board \in Live
    /\ accept' = {[a EXCEPT !.alone = @ /\ a.invite # i] : a \in accept}
                  \cup {[by |-> r, invite |-> i, alone |-> \A a \in accept : a.invite # i]}
    /\ UNCHANGED <<board, member, seats, link, invite, plan, enforcing, claim, due, unchecked, regranted>>
\* Then they add the member, with the higher of two roles, and mark the invitation accepted.
AcceptInvite(a) ==
    /\ accept' = accept \ {a}
    /\ LET i == a.invite
           b == invite[i].board
           u == invite[i].user
       IN  IF invite[i].state = "none" THEN UNCHANGED <<member, invite, regranted>>
           ELSE /\ member' = [member EXCEPT ![b][u] = IF Rank[invite[i].role] > Rank[@] THEN invite[i].role ELSE @]
                /\ invite' = [invite EXCEPT ![i].state = "accepted"]
                /\ regranted' = IF a.alone /\ invite[i].state = "accepted" /\ member[b][u] = "none"
                                THEN regranted \cup {i} ELSE regranted
    /\ UNCHANGED <<board, seats, link, plan, enforcing, claim, due, unchecked>>

Next ==
    \/ \E r \in Requests : \/ \E i \in Invites : FindInvite(r, i)
                           \/ \E b \in Shared, u \in Others : FindEditor(r, u, b)
    \/ \E a \in accept : AcceptInvite(a)
    \/ \E b \in Boards : CreateBoard(b) \/ Restore(b) \/ Purge(b) \/ Trash(b)
    \/ \E p \in Plans : ChangePlan(p)
    \/ Sweep \/ FinishEnforcing \/ PlanExpires
    \/ \E c \in claim : ClaimEditorSeat(c)
    \/ \E b \in Shared, u \in Others :
         \/ Demote(b, u) \/ RemoveMember(b, u) \/ Promote(b, u)
         \/ \E i \in Invites, role \in {"viewer", "editor"} : Invite(i, b, u, role)
    \/ \E b \in Shared, on \in BOOLEAN : SetLink(b, on)
    \/ \E i \in Invites : RevokeInvite(i)

Spec == Init /\ [][Next]_vars

----------------------------------------------------------------------------
(* Properties *)

\* The boards out of the trash that may be edited fit the plan, once an expired plan has been
\* enforced: every way to a live board is counted under the owner's lock (limits.ts:39, 64).
EditableBoardsFit ==
    ~due => Cardinality({b \in Live : ~board[b].locked}) <= BoardLimit[plan]

\* So do the active editor seats of each board, unless one was claimed while the limits were being
\* enforced, which another lock guards (limits.ts:135), or the board was in the trash then: a restore
\* checks the number of boards only.
ActiveSeatsFitUnlessUnchecked ==
    ~due => \A b \in Shared \cap Live :
                b \in unchecked \/ board[b].locked \/ Cardinality(Active(b)) <= OtherSeats[plan]

\* What the limits took comes back when the plan allows it again: after an enforcement no seat is
\* suspended on a board that has room for all of them (limits.ts:56-60).
SeatsComeBack ==
    [][enforcing' = {} => \A e \in enforcing, b \in Shared : board'[b].state = "live" =>
         \A n \in DOMAIN seats'[b] :
            \/ ~seats'[b][n].suspended
            \/ Len(e.seats[b]) > OtherSeats[e.plan]]_vars

\* An invitation makes somebody a member once: opening the link again never lets somebody back in
\* who was removed (sharing.ts:441), unless two requests found it open at the same time.
InviteGrantsOnceUnlessRaced == regranted = {}
=============================================================================
