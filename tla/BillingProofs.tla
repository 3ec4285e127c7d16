--------------------------- MODULE BillingProofs ---------------------------
(* For any number of people, subscriptions, seats, webhooks and transactions: *)
(* what was answered is applied, coupons, reminders and grace periods are     *)
(* counted once, and grants and limits follow the subscriptions.              *)
EXTENDS Billing, FiniteSetTheorems, WellFoundedInduction, TLAPS

-----------------------------------------------------------------------------
(* Types. *)

Statuses == {"none", "created", "active", "past_due", "paused", "cancelled"}
Row == [status : Statuses, quantity : Nat, periodEnd : Nat, cancel : BOOLEAN, grace : Int,
        reminded : BOOLEAN, coupon : BOOLEAN, counted : BOOLEAN]
Remote == [status : Statuses, quantity : Nat, periodEnd : Nat, ending : BOOLEAN, changes : Nat]
Grant == [until : Int, handled : BOOLEAN]
Transaction ==
    [kind : {"checkout", "sync", "cancel", "change", "team", "expiry"}, sub : Subs \cup {Trial},
     hasKey : BOOLEAN, hasRow : BOOLEAN, event : Nat, who : SUBSET Users, remote : Remote,
     row : Row, members : SUBSET Users]

Typed ==
    /\ now \in Nat /\ redeemed \in Nat
    /\ remote \in [Subs -> Remote] /\ sub \in [Subs -> Row]
    /\ grants \in [Subs \cup {Trial} -> [Users -> Grant]]
    /\ members \in SUBSET Users /\ Owner \in members
    /\ enforced \in [Users -> {"free", "pro", "team"}] /\ reminders \in [Subs -> Nat]
    /\ txs \in SUBSET Transaction
    /\ \A t \in txs : t.kind # "expiry" => t.sub \in Subs
    /\ members # {Owner} => \E s \in Subs : sub[s] # NoRow
    /\ \A t \in txs : t.kind = "team" => Owner \in t.who /\ sub[t.sub] # NoRow

-----------------------------------------------------------------------------
(* One transaction at a time holds a subscription's lock. *)

Locked ==
    /\ \A t \in txs : t.kind = "sync" => t.hasKey
    /\ \A t, r \in txs : t.sub = r.sub /\ t.hasKey /\ r.hasKey => t = r

\* The webhook of the last change has not been applied.
Unanswered(s) == <<s, remote[s].changes>> \in events

Copied(s) ==
    /\ sub[s].status = remote[s].status /\ sub[s].quantity = remote[s].quantity
    /\ sub[s].periodEnd = remote[s].periodEnd
Fetched(t) ==
    /\ t.remote.status = remote[t.sub].status /\ t.remote.quantity = remote[t.sub].quantity
    /\ t.remote.periodEnd = remote[t.sub].periodEnd

\* What a sync is going to write is the last state, or the last state's webhook is another's.
Answers(t) ==
    /\ t.remote.status # "none" /\ remote[t.sub].status # "none" /\ t.event <= remote[t.sub].changes
    /\ Fetched(t) \/ (Unanswered(t.sub) /\ t.event < remote[t.sub].changes)

Followed ==
    /\ \A s \in Subs, e \in Nat : <<s, e>> \in events => e <= remote[s].changes
    /\ \A s \in Subs : remote[s].changes > 0 => remote[s].status # "none" /\ (Unanswered(s) \/ Copied(s))
    /\ \A t \in txs : t.kind = "sync" => Answers(t)

\* What there is a row or a transaction of is known to the provider.
Known ==
    /\ \A s \in Subs : sub[s] # NoRow => remote[s].status # "none"
    /\ \A t \in txs : t.kind \in {"checkout", "sync", "cancel", "change"} => remote[t.sub].status # "none"

-----------------------------------------------------------------------------
(* Reminders, coupons. *)

RemindersKept == \A s \in Subs : reminders[s] <= 1 /\ (~sub[s].reminded => reminders[s] = 0)

-----------------------------------------------------------------------------
(* Grants follow rows, limits follow grants. *)

Follows(s, row, who) ==
    \A u \in Users : IF u \in Seated(row, who) /\ ValidUntil(row) # Never
                     THEN grants[s][u].until = ValidUntil(row)
                     ELSE grants[s][u].until <= now
GrantsFollow == \A s \in Subs \ raced, row \in Row, who \in SUBSET Users :
    row = sub[s] /\ who = members => Follows(s, row, who)

\* The sweep has not handled what is still to end.
Unhandled == \A s \in Subs \cup {Trial}, u \in Users \ missed : grants[s][u].until > now => ~grants[s][u].handled

\* A person's boards are in line, or the sweep is still to handle a grant.
InLine(u) == enforced[u] = PlanOf(u, grants)
ToHandle(u) ==
    \E s \in Subs \cup {Trial} : grants[s][u] # NoGrant /\ grants[s][u].until <= now /\ ~grants[s][u].handled
Enforced == \A u \in Users \ missed : InLine(u) \/ ToHandle(u)

-----------------------------------------------------------------------------
(* What the operators give. *)

LEMMA ConstantTypes ==
    /\ Trial \notin Subs /\ Forever \in Nat /\ Never \in Int /\ TrialTime \in Nat /\ MaxSubs \in Nat
    /\ MaxSeats \in Nat
    /\ NoRow \in Row /\ NewSub \in Remote /\ NoGrant \in Grant
    /\ Owner \in Users
<1>1. {MaxSubs, MaxSeats, MaxTime, TrialTime} \subseteq Nat
  BY BillingAssumption
<1>2. Owner \in Users
  BY BillingAssumption DEF Owner, Users, ToSet
<1> QED
  BY <1>1, <1>2 DEF Trial, Subs, Forever, Never, NoRow, NewSub, NoGrant, Row, Remote, Grant, Statuses

LEMMA OperatorTypes ==
    ASSUME Typed
    PROVE  /\ \A row \in Row : ValidUntil(row) \in Int
           /\ \A row \in Row, r \in Remote : Applied(row, r) \in Row
           /\ \A g \in Grant, until \in Int : Upsert(g, until) \in Grant
           /\ \A g \in Grant : EndGrant(g) \in Grant
           /\ \A s \in Subs, row \in Row, who \in SUBSET Users :
                Refreshed(s, row, who) \in [Subs \cup {Trial} -> [Users -> Grant]]
           /\ \A u, all : PlanOf(u, all) \in {"free", "pro", "team"}
<1>1. ASSUME NEW row \in Row PROVE ValidUntil(row) \in Int
  BY ConstantTypes DEF ValidUntil, Row, Failed
<1>2. ASSUME NEW row \in Row, NEW r \in Remote PROVE Applied(row, r) \in Row
  <2>1. NextGrace(row, r.status) \in Int
    BY ConstantTypes DEF NextGrace, Row, Typed
  <2>2. StaysReminded(row, NextGrace(row, r.status)) \in BOOLEAN /\ CouponCounts(row, r.status) \in BOOLEAN
    BY DEF StaysReminded, CouponCounts, Row
  <2> QED
    BY <2>1, <2>2 DEF Applied, Row, Remote
<1>3. ASSUME NEW g \in Grant, NEW until \in Int PROVE Upsert(g, until) \in Grant
  BY DEF Upsert, Grant
<1>4. ASSUME NEW g \in Grant PROVE EndGrant(g) \in Grant
  BY DEF EndGrant, Grant, Typed
<1>5. ASSUME NEW s \in Subs, NEW row \in Row, NEW who \in SUBSET Users
      PROVE  Refreshed(s, row, who) \in [Subs \cup {Trial} -> [Users -> Grant]]
  BY <1>1, <1>3, <1>4 DEF Refreshed, Typed
<1>6. \A u, all : PlanOf(u, all) \in {"free", "pro", "team"}
  BY DEF PlanOf
<1> QED
  BY <1>1, <1>2, <1>3, <1>4, <1>5, <1>6

\* The newest subscription, as soon as there is one.
LEMMA NewestIsThere ==
    ASSUME NEW s \in Subs, sub[s] # NoRow
    PROVE  Newest \in Subs /\ sub[Newest] # NoRow
<1> DEFINE S == {n \in Subs : sub[n] # NoRow}
           D == {MaxSubs - n : n \in S}
<1>1. D # {} /\ D \subseteq Nat
  BY ConstantTypes DEF Subs
<1>2. PICK d \in D : \A e \in D : ~(<<e, d>> \in OpToRel(<, Nat))
  <2> HIDE DEF D
  <2>1. \E d \in D : \A e \in D : ~(<<e, d>> \in OpToRel(<, Nat))
    BY <1>1, NatLessThanWellFounded, WFMin, Zenon
  <2> QED
    BY <2>1
<1>3. PICK n \in S : d = MaxSubs - n
  OBVIOUS
<1>4. ASSUME NEW m \in S PROVE n >= m
  <2>1. ~(MaxSubs - m < MaxSubs - n)
    BY <1>1, <1>2, <1>3 DEF OpToRel
  <2> QED
    BY <2>1, ConstantTypes DEF Subs
<1>5. Newest \in S
  BY <1>3, <1>4 DEF Newest, Max
<1> QED
  BY <1>5

\* Without a subscription nobody but the owner is in the team.
LEMMA NobodyWithoutSeats ==
    ASSUME Typed, NEW who \in SUBSET Users, BeginTeam(who)
    PROVE  Newest \in Subs /\ sub[Newest] # NoRow
<1>1. ASSUME \A s \in Subs : sub[s] = NoRow PROVE FALSE
  <2>1. members = {Owner}
    BY <1>1 DEF Typed
  <2>2. {s \in Subs : sub[s].status \in Live} = {}
    BY <1>1 DEF NoRow, Live
  <2>3. {sub[s].quantity : s \in {s \in Subs : sub[s].status \in Live}} = {}
    BY <2>2
  <2>4. Seats = 0
    BY <2>3 DEF Seats, Max
  <2>5. Cardinality(members) \in Nat
    BY <2>1, FS_Singleton
  <2> QED
    BY <2>1, <2>4, <2>5 DEF BeginTeam
<1> QED
  BY <1>1, NewestIsThere

\* A row stays.
LEMMA RowsStay ==
    ASSUME Typed, Followed, [Next]_vars
    PROVE  \A s \in Subs : sub[s] # NoRow => sub'[s] # NoRow
<1>1. ASSUME NEW t \in txs, CommitSync(t), NEW s \in Subs, sub[s] # NoRow PROVE sub'[s] # NoRow
  <2>1. t.sub \in Subs /\ t.remote.status # "none"
    BY <1>1 DEF CommitSync, Typed, Followed, Answers
  <2>2. sub'[t.sub].status = t.remote.status /\ (s # t.sub => sub'[s] = sub[s])
    BY <1>1, <2>1 DEF CommitSync, Typed, Applied
  <2> QED
    BY <1>1, <2>1, <2>2 DEF NoRow
<1>2. ASSUME NEW t \in txs, CommitCheckout(t), NEW s \in Subs, sub[s] # NoRow PROVE sub'[s] # NoRow
  BY <1>2 DEF CommitCheckout, Typed
<1>3. ASSUME NEW t \in txs, CommitCancel(t), NEW s \in Subs, sub[s] # NoRow PROVE sub'[s] # NoRow
  <2>1. t.sub \in Subs
    BY <1>3 DEF CommitCancel, Typed
  <2>2. sub[t.sub] \in Row
    BY <2>1 DEF Typed
  <2>3. sub'[t.sub].cancel /\ (s # t.sub => sub'[s] = sub[s])
    BY <1>3, <2>1, <2>2 DEF CommitCancel, Typed, Row
  <2> QED
    BY <1>3, <2>1, <2>3 DEF NoRow
<1>4. ASSUME NEW r \in Subs, Remind(r), NEW s \in Subs, sub[s] # NoRow PROVE sub'[s] # NoRow
  <2>1. sub'[r].status = sub[r].status /\ sub[r].status # "none" /\ (s # r => sub'[s] = sub[s])
    BY <1>4 DEF Remind, Typed, Row, Failed
  <2> QED
    BY <1>4, <2>1 DEF NoRow
<1>5. ASSUME UNCHANGED sub PROVE \A s \in Subs : sub[s] # NoRow => sub'[s] # NoRow
  BY <1>5
<1>6. \A s \in Subs : Pay(s) \/ Renew(s) \/ PaymentFails(s) \/ Pause(s) \/ End(s) => UNCHANGED sub
  BY DEF Pay, Renew, PaymentFails, Pause, End, AtProvider
<1>7. \A s \in Subs : BeginCheckout(s) \/ (\E e \in 0..MaxChanges : BeginSync(s, e))
                      \/ (\E kind \in {"cancel", "change"} : BeginManaging(s, kind)) => UNCHANGED sub
  BY DEF BeginCheckout, BeginSync, BeginManaging
<1>8. \A t \in txs : ReadRow(t) \/ CallCancel(t) \/ CommitChange(t) \/ CommitTeam(t) \/ Fails(t)
                     \/ (\E q \in 1..MaxSeats : CallChange(t, q))
                     \/ (\E another \in BOOLEAN : ClaimExpired(t, another)) => UNCHANGED sub
  BY DEF ReadRow, CallCancel, CommitChange, CommitTeam, Fails, CallChange, ClaimExpired
<1>9. Tick \/ (\E who \in SUBSET Users : BeginTeam(who)) \/ (\E u \in Students : StartTrial(u))
      \/ (\E u \in Users, s \in Subs \cup {Trial} : ListExpired(s, u)) \/ UNCHANGED vars => UNCHANGED sub
  BY DEF Tick, BeginTeam, StartTrial, ListExpired, vars
<1> QED
  BY <1>1, <1>2, <1>3, <1>4, <1>5, <1>6, <1>7, <1>8, <1>9 DEF Next

LEMMA TransactionTypes ==
    ASSUME Typed
    PROVE  /\ \A kind \in {"checkout", "sync", "cancel", "change", "team", "expiry"}, s \in Subs \cup {Trial} :
                Tx(kind, s) \in Transaction /\ Tx(kind, s).kind = kind /\ Tx(kind, s).sub = s
                /\ ~Tx(kind, s).hasKey /\ ~Tx(kind, s).hasRow
           /\ \A t \in txs : t \in Transaction /\ (t.kind # "expiry" => t.sub \in Subs)
  BY ConstantTypes DEF Typed, Transaction, Tx

\* One field written.
LEMMA RecordUpdates ==
    /\ \A row \in Row : [row EXCEPT !.cancel = TRUE] \in Row /\ [row EXCEPT !.reminded = TRUE] \in Row
    /\ \A r \in Remote : [r EXCEPT !.ending = TRUE] \in Remote
    /\ \A r \in Remote, q, n \in Nat : [r EXCEPT !.quantity = q, !.changes = n] \in Remote
    /\ \A g \in Grant, n \in Int : [g EXCEPT !.until = n] \in Grant /\ [g EXCEPT !.handled = TRUE] \in Grant
<1>1. \A row \in Row : [row EXCEPT !.cancel = TRUE] \in Row /\ [row EXCEPT !.reminded = TRUE] \in Row
  BY DEF Row
<1>2. \A r \in Remote : [r EXCEPT !.ending = TRUE] \in Remote
  BY DEF Remote
<1>3. \A r \in Remote, q, n \in Nat : [r EXCEPT !.quantity = q, !.changes = n] \in Remote
  BY DEF Remote
<1>4. \A g \in Grant, n \in Int : [g EXCEPT !.until = n] \in Grant /\ [g EXCEPT !.handled = TRUE] \in Grant
  BY DEF Grant
<1> QED
  BY <1>1, <1>2, <1>3, <1>4

\* One grant written.
LEMMA GrantWritten ==
    ASSUME Typed, NEW s \in Subs \cup {Trial}, NEW u \in Users, NEW g \in Grant
    PROVE  [grants EXCEPT ![s][u] = g] \in [Subs \cup {Trial} -> [Users -> Grant]]
<1>1. grants \in [Subs \cup {Trial} -> [Users -> Grant]]
  BY DEF Typed
<1>2. grants[s] \in [Users -> Grant]
  BY <1>1
<1>3. PICK row : row = [grants[s] EXCEPT ![u] = g]
  OBVIOUS
<1>4. row \in [Users -> Grant]
  BY <1>2, <1>3
<1>5. [grants EXCEPT ![s][u] = g] = [grants EXCEPT ![s] = row]
  BY <1>1, <1>3
<1> QED
  BY <1>1, <1>4, <1>5

LEMMA TypedStep ==
    ASSUME Typed, Followed, [Next]_vars
    PROVE  Typed'
<1> USE DEF Typed
<1>1. ASSUME UNCHANGED <<now, redeemed, remote, grants, members, enforced, reminders, sub>>,
             NEW t \in Transaction, t.kind # "expiry" => t.sub \in Subs,
             t.kind = "team" => Owner \in t.who /\ sub[t.sub] # NoRow, txs' \subseteq txs \cup {t}
      PROVE  Typed'
  BY <1>1
<1>2. ASSUME UNCHANGED <<now, redeemed, remote, grants, members, enforced, reminders, sub>>, txs' \subseteq txs
      PROVE  Typed'
  BY <1>2
<1>3. ASSUME NEW s \in Subs, Pay(s) \/ Renew(s) \/ PaymentFails(s) \/ Pause(s) \/ End(s) PROVE Typed'
  <2>1. PICK status \in Statuses, periodEnd \in Nat : AtProvider(s, status, periodEnd)
    BY <1>3 DEF Pay, Renew, PaymentFails, Pause, End, Statuses, Remote
  <2>2. remote' \in [Subs -> Remote]
    BY <2>1 DEF AtProvider, Remote
  <2> QED
    BY <2>1, <2>2 DEF AtProvider
<1>4. CASE Tick
  BY <1>4 DEF Tick
<1>5. ASSUME NEW s \in Subs, BeginCheckout(s) PROVE Typed'
  <2>1. remote' \in [Subs -> Remote]
    <3>1. PICK one : one = [remote[s] EXCEPT !.status = "created", !.quantity = MaxSeats]
      OBVIOUS
    <3>2. one \in Remote
      BY <3>1, ConstantTypes DEF Remote, Statuses
    <3>3. remote' = [remote EXCEPT ![s] = one]
      BY <1>5, <3>1 DEF BeginCheckout
    <3> QED
      BY <3>2, <3>3
  <2>2. txs' = txs \cup {Tx("checkout", s)}
    BY <1>5 DEF BeginCheckout, Begin
  <2> QED
    BY <1>5, <2>1, <2>2, TransactionTypes DEF BeginCheckout
<1>6. ASSUME NEW t \in txs, CommitCheckout(t) PROVE Typed'
  <2>1. t.sub \in Subs
    BY <1>6 DEF CommitCheckout
  <2>2. sub' \in [Subs -> Row]
    BY <1>6, <2>1, ConstantTypes DEF CommitCheckout, Row, Remote, Statuses
  <2> QED
    BY <1>6, <2>2, RowsStay DEF CommitCheckout
<1>7. ASSUME NEW s \in Subs, NEW e \in 0..MaxChanges, BeginSync(s, e) PROVE Typed'
  <2>1. PICK t : t = Tx("sync", s)
    OBVIOUS
  <2>2. t \in Transaction /\ t.kind = "sync" /\ t.sub = s
    BY <2>1, TransactionTypes
  <2>3. PICK r : r = [t EXCEPT !.hasKey = TRUE, !.event = e, !.remote = remote[s]]
    OBVIOUS
  <2>4. r \in Transaction /\ r.sub \in Subs /\ r.kind # "team"
    <3>1. e \in Nat /\ remote[s] \in Remote
      OBVIOUS
    <3> QED
      BY <2>2, <2>3, <3>1 DEF Transaction
  <2>5. txs' = txs \cup {r}
    BY <1>7, <2>1, <2>3 DEF BeginSync, Begin
  <2> QED
    BY <1>1, <1>7, <2>4, <2>5 DEF BeginSync
<1>8. ASSUME NEW t \in txs, ReadRow(t) PROVE Typed'
  <2>1. PICK r : r = [t EXCEPT !.hasRow = TRUE, !.members = members]
    OBVIOUS
  <2>2. t.sub \in Subs /\ r \in Transaction /\ r.sub = t.sub /\ r.kind # "team"
    BY <1>8, <2>1 DEF ReadRow, Transaction
  <2> QED
    BY <1>1, <1>8, <2>1, <2>2 DEF ReadRow
<1>9. ASSUME NEW t \in txs, CommitSync(t) PROVE Typed'
  <2>1. t.sub \in Subs /\ t.members \in SUBSET Users /\ t.remote \in Remote
    BY <1>9 DEF CommitSync, Transaction
  <2>2. PICK row : row = Applied(sub[t.sub], t.remote)
    OBVIOUS
  <2>3. row \in Row
    BY <2>1, <2>2, OperatorTypes
  <2>4. sub' = [sub EXCEPT ![t.sub] = row] /\ grants' = Refreshed(t.sub, row, t.members)
    BY <1>9, <2>2 DEF CommitSync
  <2>5. grants' \in [Subs \cup {Trial} -> [Users -> Grant]]
    BY <2>1, <2>3, <2>4, OperatorTypes
  <2>6. enforced' \in [Users -> {"free", "pro", "team"}]
    BY <1>9, OperatorTypes DEF CommitSync, Enforce
  <2>7. redeemed' \in Nat /\ reminders' \in [Subs -> Nat]
    BY <1>9 DEF CommitSync
  <2>8. UNCHANGED <<now, remote, members>> /\ txs' \subseteq txs
    BY <1>9 DEF CommitSync
  <2> QED
    BY <2>1, <2>3, <2>4, <2>5, <2>6, <2>7, <2>8, RowsStay
<1>10. ASSUME NEW s \in Subs, NEW kind \in {"cancel", "change"}, BeginManaging(s, kind) PROVE Typed'
  <2>1. PICK t : t = Tx(kind, s)
    OBVIOUS
  <2>2. t \in Transaction /\ t.kind = kind /\ t.sub = s
    BY <2>1, TransactionTypes
  <2>3. PICK r : r = [t EXCEPT !.hasRow = TRUE]
    OBVIOUS
  <2>4. r \in Transaction /\ r.sub \in Subs /\ r.kind # "team"
    BY <2>2, <2>3 DEF Transaction
  <2>5. txs' = txs \cup {r}
    BY <1>10, <2>1, <2>3 DEF BeginManaging, Begin
  <2> QED
    BY <1>1, <1>10, <2>4, <2>5 DEF BeginManaging
<1>11. ASSUME NEW t \in txs, CallCancel(t) PROVE Typed'
  <2>1. PICK r : r = [t EXCEPT !.hasKey = TRUE, !.members = members]
    OBVIOUS
  <2>2. t.sub \in Subs /\ r \in Transaction /\ r.sub = t.sub /\ r.kind # "team"
    BY <1>11, <2>1 DEF CallCancel, Transaction
  <2>3. remote' \in [Subs -> Remote]
    <3>1. PICK one : one = [remote[t.sub] EXCEPT !.ending = TRUE]
      OBVIOUS
    <3>2. one \in Remote
      BY <2>2, <3>1, RecordUpdates
    <3>3. remote' = [remote EXCEPT ![t.sub] = one]
      BY <1>11, <3>1 DEF CallCancel
    <3> QED
      BY <2>2, <3>2, <3>3
  <2>4. txs' \subseteq txs \cup {r}
    BY <1>11, <2>1 DEF CallCancel
  <2> QED
    BY <1>11, <2>2, <2>3, <2>4 DEF CallCancel
<1>12. ASSUME NEW t \in txs, NEW q \in 1..MaxSeats, CallChange(t, q) PROVE Typed'
  <2>1. PICK r : r = [t EXCEPT !.hasKey = TRUE]
    OBVIOUS
  <2>2. t.sub \in Subs /\ r \in Transaction /\ r.sub = t.sub /\ r.kind # "team"
    BY <1>12, <2>1 DEF CallChange, Transaction
  <2>3. remote' \in [Subs -> Remote]
    <3>1. PICK r1 : r1 = [remote[t.sub] EXCEPT !.quantity = q, !.changes = remote[t.sub].changes + 1]
      OBVIOUS
    <3>2. remote[t.sub] \in Remote /\ q \in Nat
      BY <2>2, ConstantTypes
    <3>3. remote[t.sub].changes + 1 \in Nat
      BY <3>2 DEF Remote
    <3>4. r1 \in Remote
      BY <3>1, <3>2, <3>3, RecordUpdates
    <3>5. remote' = [remote EXCEPT ![t.sub] = r1]
      BY <1>12, <2>2, <3>1, <3>2 DEF CallChange, Remote
    <3> QED
      BY <2>2, <3>4, <3>5
  <2>4. txs' \subseteq txs \cup {r}
    BY <1>12, <2>1 DEF CallChange
  <2> QED
    BY <1>12, <2>2, <2>3, <2>4 DEF CallChange
<1>13. ASSUME NEW t \in txs, CommitCancel(t) PROVE Typed'
  <2>1. t.sub \in Subs /\ t.members \in SUBSET Users
    BY <1>13 DEF CommitCancel, Transaction
  <2>2. PICK row : row = [sub[t.sub] EXCEPT !.cancel = TRUE]
    OBVIOUS
  <2>3. row \in Row
    BY <2>1, <2>2, RecordUpdates
  <2>4. sub' = [sub EXCEPT ![t.sub] = row] /\ grants' = Refreshed(t.sub, row, t.members)
    BY <1>13, <2>2 DEF CommitCancel
  <2>5. grants' \in [Subs \cup {Trial} -> [Users -> Grant]]
    BY <2>1, <2>3, <2>4, OperatorTypes
  <2>6. enforced' \in [Users -> {"free", "pro", "team"}]
    BY <1>13, OperatorTypes DEF CommitCancel, Enforce
  <2>7. UNCHANGED <<now, remote, members, redeemed, reminders>> /\ txs' \subseteq txs
    BY <1>13 DEF CommitCancel
  <2> QED
    BY <2>1, <2>3, <2>4, <2>5, <2>6, <2>7, RowsStay
<1>14. ASSUME NEW t \in txs, CommitChange(t) \/ Fails(t) PROVE Typed'
  BY <1>2, <1>14 DEF CommitChange, Fails
<1>15. ASSUME NEW who \in SUBSET Users, BeginTeam(who) PROVE Typed'
  <2>1. Newest \in Subs /\ sub[Newest] # NoRow
    BY <1>15, NobodyWithoutSeats
  <2>2. PICK t : t = Tx("team", Newest)
    OBVIOUS
  <2>3. t \in Transaction /\ t.kind = "team" /\ t.sub = Newest
    BY <2>1, <2>2, TransactionTypes
  <2>4. PICK r : r = [t EXCEPT !.who = who, !.row = sub[Newest]]
    OBVIOUS
  <2>5. r \in Transaction /\ r.sub = Newest /\ Owner \in r.who
    BY <1>15, <2>1, <2>3, <2>4 DEF Transaction, BeginTeam
  <2>6. txs' = txs \cup {r}
    BY <1>15, <2>2, <2>4 DEF BeginTeam, Begin
  <2> QED
    BY <1>1, <1>15, <2>1, <2>5, <2>6 DEF BeginTeam

<1>16. ASSUME NEW t \in txs, CommitTeam(t) PROVE Typed'
  <2>1. t.sub \in Subs /\ t.who \in SUBSET Users /\ t.row \in Row /\ Owner \in t.who /\ sub[t.sub] # NoRow
    BY <1>16 DEF CommitTeam, Transaction
  <2>2. grants' \in [Subs \cup {Trial} -> [Users -> Grant]]
    BY <1>16, <2>1, OperatorTypes DEF CommitTeam
  <2>3. enforced' \in [Users -> {"free", "pro", "team"}]
    BY <1>16, OperatorTypes DEF CommitTeam, Enforce
  <2>4. UNCHANGED <<now, remote, sub, redeemed, reminders>> /\ txs' \subseteq txs /\ members' = t.who
    BY <1>16 DEF CommitTeam
  <2> QED
    BY <2>1, <2>2, <2>3, <2>4
<1>17. ASSUME NEW u \in Students, StartTrial(u) PROVE Typed'
  <2>1. u \in Users
    BY BillingAssumption DEF Users
  <2>2. grants' \in [Subs \cup {Trial} -> [Users -> Grant]]
    <3>1. PICK g : g = [grants[Trial][u] EXCEPT !.until = now + TrialTime]
      OBVIOUS
    <3>2. g \in Grant
      <4>1. grants[Trial] \in [Users -> Grant]
        OBVIOUS
      <4>2. grants[Trial][u] \in Grant /\ now + TrialTime \in Int
        BY <2>1, <4>1, ConstantTypes
      <4> QED
        BY <3>1, <4>2, RecordUpdates
    <3>3. grants' = [grants EXCEPT ![Trial][u] = g]
      BY <1>17, <3>1 DEF StartTrial
    <3> QED
      BY <2>1, <3>2, <3>3, GrantWritten
  <2>3. enforced' \in [Users -> {"free", "pro", "team"}]
    BY <1>17, OperatorTypes DEF StartTrial, Enforce
  <2> QED
    BY <1>17, <2>2, <2>3 DEF StartTrial
<1>18. ASSUME NEW s \in Subs, Remind(s) PROVE Typed'
  <2>1. PICK row : row = [sub[s] EXCEPT !.reminded = TRUE]
    OBVIOUS
  <2>2. row \in Row
    BY <2>1, RecordUpdates
  <2>3. sub' = [sub EXCEPT ![s] = row]
    BY <1>18, <2>1 DEF Remind
  <2>4. reminders' \in [Subs -> Nat]
    BY <1>18 DEF Remind
  <2>5. sub' \in [Subs -> Row] /\ \A r \in Subs : sub[r] # NoRow => sub'[r] # NoRow
    BY <2>2, <2>3, RowsStay
  <2>6. UNCHANGED <<now, redeemed, remote, grants, members, enforced, txs>>
    BY <1>18 DEF Remind
  <2> QED
    BY <2>4, <2>5, <2>6
<1>19. ASSUME NEW s \in Subs \cup {Trial}, NEW u \in Users, ListExpired(s, u) PROVE Typed'
  <2>1. PICK t : t = Tx("expiry", s)
    OBVIOUS
  <2>2. t \in Transaction /\ t.kind = "expiry"
    BY <2>1, TransactionTypes
  <2>3. PICK r : r = [t EXCEPT !.who = {u}]
    OBVIOUS
  <2>4. r \in Transaction /\ r.kind = "expiry"
    BY <2>2, <2>3 DEF Transaction
  <2>5. txs' = txs \cup {r}
    BY <1>19, <2>1, <2>3 DEF ListExpired, Begin
  <2> QED
    BY <1>1, <1>19, <2>4, <2>5 DEF ListExpired
<1>20. ASSUME NEW t \in txs, NEW another \in BOOLEAN, ClaimExpired(t, another) PROVE Typed'
  <2>1. PICK u \in t.who : \/ UNCHANGED <<grants, enforced, missed>>
                           \/ grants' = [grants EXCEPT ![t.sub][u].handled = TRUE] /\ Enforce({u}, grants')
    BY <1>20 DEF ClaimExpired
  <2>2. u \in Users /\ t.sub \in Subs \cup {Trial}
    BY <2>1 DEF Transaction
  <2>3. grants' \in [Subs \cup {Trial} -> [Users -> Grant]]
    <3>1. PICK g : g = [grants[t.sub][u] EXCEPT !.handled = TRUE]
      OBVIOUS
    <3>2. g \in Grant
      <4>1. grants[t.sub] \in [Users -> Grant]
        BY <2>2
      <4>2. grants[t.sub][u] \in Grant
        BY <2>2, <4>1
      <4> QED
        BY <3>1, <4>2, RecordUpdates, ConstantTypes
    <3>3. UNCHANGED grants \/ grants' = [grants EXCEPT ![t.sub][u] = g]
      BY <2>1, <3>1
    <3>4. [grants EXCEPT ![t.sub][u] = g] \in [Subs \cup {Trial} -> [Users -> Grant]]
      BY <2>2, <3>2, GrantWritten
    <3> QED
      BY <3>3, <3>4
  <2>4. enforced' \in [Users -> {"free", "pro", "team"}]
    <3>1. CASE UNCHANGED enforced
      BY <3>1
    <3>2. CASE Enforce({u}, grants')
      BY <3>2, OperatorTypes DEF Enforce
    <3> QED
      BY <2>1, <3>1, <3>2
  <2>5. UNCHANGED <<now, remote, sub, members, redeemed, reminders>> /\ txs' \subseteq txs
    BY <1>20 DEF ClaimExpired
  <2> QED
    BY <2>3, <2>4, <2>5
<1>21. CASE UNCHANGED vars
  BY <1>21 DEF vars
<1> QED
  BY <1>3, <1>4, <1>5, <1>6, <1>7, <1>8, <1>9, <1>10, <1>11, <1>12, <1>13, <1>14, <1>15, <1>16, <1>17,
     <1>18, <1>19, <1>20, <1>21 DEF Next

LEMMA LockedStep ==
    ASSUME Typed, Locked, [Next]_vars
    PROVE  Locked'
<1> USE DEF Locked
<1>1. ASSUME txs' \subseteq txs PROVE Locked'
  BY <1>1
<1>2. ASSUME NEW r, txs' \subseteq txs \cup {r}, r.kind # "sync", ~r.hasKey PROVE Locked'
  BY <1>2
<1>3. ASSUME NEW r, txs' \subseteq txs \cup {r}, r.kind = "sync" => r.hasKey, KeyIsFree(r.sub) PROVE Locked'
  BY <1>3 DEF KeyIsFree
<1>4. ASSUME NEW t \in txs, ReadRow(t) PROVE Locked'
  <2>1. PICK r : r = [t EXCEPT !.hasRow = TRUE, !.members = members]
    OBVIOUS
  <2>2. r.kind = "sync" /\ r.sub = t.sub /\ r.hasKey
    BY <1>4, <2>1, TransactionTypes DEF ReadRow, Transaction
  <2>3. t.hasKey /\ txs' = (txs \ {t}) \cup {r}
    BY <1>4, <2>1 DEF ReadRow
  <2> QED
    BY <2>2, <2>3
<1>5. ASSUME NEW s \in Subs, NEW e \in 0..MaxChanges, BeginSync(s, e) PROVE Locked'
  <2>1. PICK t : t = Tx("sync", s)
    OBVIOUS
  <2>2. PICK r : r = [t EXCEPT !.hasKey = TRUE, !.event = e, !.remote = remote[s]]
    OBVIOUS
  <2>3. t \in Transaction /\ t.sub = s
    BY <2>1, TransactionTypes
  <2>4. r.hasKey /\ r.sub = s
    BY <2>2, <2>3 DEF Transaction
  <2>5. txs' = txs \cup {r} /\ KeyIsFree(s)
    BY <1>5, <2>1, <2>2 DEF BeginSync, Begin
  <2> QED
    BY <1>3, <2>4, <2>5
<1>6. ASSUME NEW t \in txs, CallCancel(t) PROVE Locked'
  <2>1. PICK r : r = [t EXCEPT !.hasKey = TRUE, !.members = members]
    OBVIOUS
  <2>2. r.sub = t.sub /\ r.kind # "sync"
    BY <1>6, <2>1, TransactionTypes DEF CallCancel, Transaction
  <2>3. txs' \subseteq txs \cup {r} /\ KeyIsFree(t.sub)
    BY <1>6, <2>1 DEF CallCancel
  <2> QED
    BY <1>3, <2>2, <2>3
<1>7. ASSUME NEW t \in txs, NEW q \in 1..MaxSeats, CallChange(t, q) PROVE Locked'
  <2>1. PICK r : r = [t EXCEPT !.hasKey = TRUE]
    OBVIOUS
  <2>2. r.sub = t.sub /\ r.kind # "sync"
    BY <1>7, <2>1, TransactionTypes DEF CallChange, Transaction
  <2>3. txs' \subseteq txs \cup {r} /\ KeyIsFree(t.sub)
    BY <1>7, <2>1 DEF CallChange
  <2> QED
    BY <1>3, <2>2, <2>3
<1>8. ASSUME NEW s \in Subs, NEW kind \in {"cancel", "change"}, BeginManaging(s, kind) PROVE Locked'
  <2>1. PICK t : t = Tx(kind, s)
    OBVIOUS
  <2>2. PICK r : r = [t EXCEPT !.hasRow = TRUE]
    OBVIOUS
  <2>3. t \in Transaction /\ t.kind = kind /\ ~t.hasKey
    BY <2>1, TransactionTypes
  <2>4. r.kind # "sync" /\ ~r.hasKey
    BY <2>2, <2>3 DEF Transaction
  <2>5. txs' = txs \cup {r}
    BY <1>8, <2>1, <2>2 DEF BeginManaging, Begin
  <2> QED
    BY <1>2, <2>4, <2>5
<1>9. ASSUME NEW s \in Subs, BeginCheckout(s) PROVE Locked'
  <2>1. PICK t : t = Tx("checkout", s)
    OBVIOUS
  <2>2. t.kind # "sync" /\ ~t.hasKey
    BY <2>1, TransactionTypes
  <2>3. txs' = txs \cup {t}
    BY <1>9, <2>1 DEF BeginCheckout, Begin
  <2> QED
    BY <1>2, <2>2, <2>3
<1>10. ASSUME NEW who \in SUBSET Users, BeginTeam(who) PROVE Locked'
  <2>1. PICK t : t = Tx("team", Newest)
    OBVIOUS
  <2>2. PICK r : r = [t EXCEPT !.who = who, !.row = sub[Newest]]
    OBVIOUS
  <2>3. t \in Transaction /\ t.kind = "team" /\ ~t.hasKey
    BY <1>10, <2>1, TransactionTypes, NobodyWithoutSeats
  <2>4. r.kind # "sync" /\ ~r.hasKey
    BY <2>2, <2>3 DEF Transaction
  <2>5. txs' = txs \cup {r}
    BY <1>10, <2>1, <2>2 DEF BeginTeam, Begin
  <2> QED
    BY <1>2, <2>4, <2>5
<1>11. ASSUME NEW s \in Subs \cup {Trial}, NEW u \in Users, ListExpired(s, u) PROVE Locked'
  <2>1. PICK t : t = Tx("expiry", s)
    OBVIOUS
  <2>2. PICK r : r = [t EXCEPT !.who = {u}]
    OBVIOUS
  <2>3. t \in Transaction /\ t.kind = "expiry" /\ ~t.hasKey
    BY <2>1, TransactionTypes
  <2>4. r.kind # "sync" /\ ~r.hasKey
    BY <2>2, <2>3 DEF Transaction
  <2>5. txs' = txs \cup {r}
    BY <1>11, <2>1, <2>2 DEF ListExpired, Begin
  <2> QED
    BY <1>2, <2>4, <2>5
<1>12. ASSUME NEW t \in txs,
              \/ CommitCheckout(t) \/ CommitSync(t) \/ CommitCancel(t) \/ CommitChange(t) \/ CommitTeam(t) \/ Fails(t)
              \/ \E another \in BOOLEAN : ClaimExpired(t, another)
       PROVE  Locked'
  <2>1. txs' \subseteq txs
    BY <1>12 DEF CommitCheckout, CommitSync, CommitCancel, CommitChange, CommitTeam, Fails, ClaimExpired
  <2> QED
    BY <1>1, <2>1
<1>13. ASSUME NEW s \in Subs, Pay(s) \/ Renew(s) \/ PaymentFails(s) \/ Pause(s) \/ End(s) \/ Remind(s) PROVE Locked'
  BY <1>13 DEF Pay, Renew, PaymentFails, Pause, End, AtProvider, Remind
<1>14. ASSUME Tick \/ UNCHANGED vars \/ \E u \in Students : StartTrial(u) PROVE Locked'
  BY <1>14 DEF Tick, StartTrial, vars
<1> QED
  BY <1>4, <1>5, <1>6, <1>7, <1>8, <1>9, <1>10, <1>11, <1>12, <1>13, <1>14 DEF Next

LEMMA KnownStep ==
    ASSUME Typed, Known, [Next]_vars
    PROVE  Known'
<1>0. /\ \A s \in Subs : remote[s] \in Remote /\ sub[s] \in Row
      /\ \A t \in txs : t \in Transaction /\ (t.kind # "expiry" => t.sub \in Subs)
      /\ remote \in [Subs -> Remote] /\ sub \in [Subs -> Row]
  BY DEF Typed
<1>1. ASSUME \A s \in Subs : remote[s].status # "none" => remote'[s].status # "none",
             \A s \in Subs : sub'[s] # NoRow => sub[s] # NoRow \/ remote[s].status # "none",
             \A t \in txs' : t.kind \in {"checkout", "sync", "cancel", "change"} =>
                 t.sub \in Subs /\ (remote'[t.sub].status # "none" \/ \E r \in txs : r.kind = t.kind /\ r.sub = t.sub)
      PROVE  Known'
  BY <1>1 DEF Known
<1>2. ASSUME UNCHANGED <<remote, sub>>, txs' \subseteq txs PROVE Known'
  BY <1>0, <1>1, <1>2
<1>3. ASSUME UNCHANGED <<remote, sub>>, NEW r, txs' \subseteq txs \cup {r},
             r.kind \in {"checkout", "sync", "cancel", "change"} => r.sub \in Subs /\ remote[r.sub].status # "none"
      PROVE  Known'
  BY <1>0, <1>1, <1>3
<1>4. ASSUME NEW s \in Subs, Pay(s) \/ Renew(s) \/ PaymentFails(s) \/ Pause(s) \/ End(s) PROVE Known'
  <2>1. PICK status \in Statuses \ {"none"}, periodEnd \in Nat : AtProvider(s, status, periodEnd)
    BY <1>0, <1>4 DEF Pay, Renew, PaymentFails, Pause, End, Statuses, Remote, Typed
  <2>2. PICK r : r = [status |-> status, quantity |-> remote[s].quantity, periodEnd |-> periodEnd,
                      ending |-> remote[s].ending, changes |-> remote[s].changes + 1]
    OBVIOUS
  <2>3. remote' = [remote EXCEPT ![s] = r]
    BY <1>0, <2>1, <2>2 DEF AtProvider, Remote
  <2>4. \A n \in Subs : remote[n].status # "none" => remote'[n].status # "none"
    BY <1>0, <2>2, <2>3
  <2>5. UNCHANGED <<sub, txs>>
    BY <2>1 DEF AtProvider
  <2> QED
    BY <1>0, <1>1, <2>4, <2>5
<1>5. ASSUME NEW t \in txs, NEW q \in 1..MaxSeats, CallChange(t, q) PROVE Known'
  <2>1. PICK r : r = [t EXCEPT !.hasKey = TRUE]
    OBVIOUS
  <2>2. t.sub \in Subs /\ r.kind = t.kind /\ r.sub = t.sub /\ remote[t.sub] \in Remote
    BY <1>0, <1>5, <2>1 DEF CallChange, Transaction
  <2>3. PICK next : next = [remote[t.sub] EXCEPT !.quantity = q, !.changes = remote[t.sub].changes + 1]
    OBVIOUS
  <2>4. remote' = [remote EXCEPT ![t.sub] = next]
    BY <1>0, <1>5, <2>2, <2>3 DEF CallChange, Remote
  <2>5. next.status = remote[t.sub].status
    BY <2>2, <2>3 DEF Remote
  <2>6. \A n \in Subs : remote'[n].status = remote[n].status
    BY <1>0, <2>2, <2>4, <2>5
  <2>7. UNCHANGED sub /\ txs' = (txs \ {t}) \cup {r}
    BY <1>5, <2>1 DEF CallChange
  <2> QED
    BY <1>0, <1>1, <2>2, <2>6, <2>7
<1>6. ASSUME NEW t \in txs, CallCancel(t) PROVE Known'
  <2>1. PICK r : r = [t EXCEPT !.hasKey = TRUE, !.members = members]
    OBVIOUS
  <2>2. t.sub \in Subs /\ r.kind = t.kind /\ r.sub = t.sub
    BY <1>0, <1>6, <2>1 DEF CallCancel, Transaction
  <2>3. \A n \in Subs : remote'[n].status = remote[n].status
    BY <1>0, <1>6, <2>2 DEF CallCancel, Remote
  <2>4. UNCHANGED sub /\ txs' = (txs \ {t}) \cup {r}
    BY <1>6, <2>1 DEF CallCancel
  <2> QED
    BY <1>0, <1>1, <2>2, <2>3, <2>4
<1>7. ASSUME NEW s \in Subs, BeginCheckout(s) PROVE Known'
  <2>1. PICK t : t = Tx("checkout", s)
    OBVIOUS
  <2>2. t.kind = "checkout" /\ t.sub = s
    BY <2>1, TransactionTypes
  <2>3. PICK r : r = [remote[s] EXCEPT !.status = "created", !.quantity = MaxSeats]
    OBVIOUS
  <2>4. r.status = "created"
    BY <1>0, <2>3 DEF Remote
  <2>5. remote' = [remote EXCEPT ![s] = r] /\ txs' = txs \cup {t} /\ UNCHANGED sub
    BY <1>7, <2>1, <2>3 DEF BeginCheckout, Begin
  <2>6. remote'[s] = r /\ \A n \in Subs : n # s => remote'[n] = remote[n]
    BY <1>0, <2>5
  <2>7. \A n \in Subs : remote[n].status # "none" => remote'[n].status # "none"
    BY <2>4, <2>6
  <2>8. remote'[t.sub].status # "none"
    BY <2>2, <2>4, <2>6
  <2> QED
    BY <1>0, <1>1, <2>2, <2>5, <2>7, <2>8
<1>8. ASSUME NEW s \in Subs, NEW e \in 0..MaxChanges, BeginSync(s, e) PROVE Known'
  <2>1. PICK t : t = Tx("sync", s)
    OBVIOUS
  <2>2. PICK r : r = [t EXCEPT !.hasKey = TRUE, !.event = e, !.remote = remote[s]]
    OBVIOUS
  <2>3. t \in Transaction /\ t.sub = s
    BY <2>1, TransactionTypes
  <2>4. r.sub = s
    BY <2>2, <2>3 DEF Transaction
  <2>5. txs' = txs \cup {r} /\ remote[s].status # "none" /\ UNCHANGED <<remote, sub>>
    BY <1>8, <2>1, <2>2 DEF BeginSync, Begin
  <2> QED
    BY <1>3, <2>4, <2>5
<1>9. ASSUME NEW t \in txs, ReadRow(t) PROVE Known'
  <2>1. PICK r : r = [t EXCEPT !.hasRow = TRUE, !.members = members]
    OBVIOUS
  <2>2. r.sub = t.sub /\ r.kind = t.kind /\ t.sub \in Subs
    BY <1>0, <1>9, <2>1 DEF Transaction, ReadRow
  <2>3. txs' = (txs \ {t}) \cup {r} /\ UNCHANGED <<remote, sub>>
    BY <1>9, <2>1 DEF ReadRow
  <2> QED
    BY <1>0, <1>1, <2>2, <2>3
<1>10. ASSUME NEW s \in Subs, NEW kind \in {"cancel", "change"}, BeginManaging(s, kind) PROVE Known'
  <2>1. PICK t : t = Tx(kind, s)
    OBVIOUS
  <2>2. PICK r : r = [t EXCEPT !.hasRow = TRUE]
    OBVIOUS
  <2>3. t \in Transaction /\ t.sub = s
    BY <2>1, TransactionTypes
  <2>4. r.sub = s
    BY <2>2, <2>3 DEF Transaction
  <2>5. txs' = txs \cup {r} /\ UNCHANGED <<remote, sub>> /\ sub[s].status \in Paid
    BY <1>10, <2>1, <2>2 DEF BeginManaging, Begin
  <2>6. remote[s].status # "none"
    BY <2>5 DEF Known, NoRow, Paid
  <2> QED
    BY <1>3, <2>4, <2>5, <2>6
<1>11. ASSUME NEW who \in SUBSET Users, BeginTeam(who) PROVE Known'
  <2>1. PICK t : t = Tx("team", Newest)
    OBVIOUS
  <2>2. PICK r : r = [t EXCEPT !.who = who, !.row = sub[Newest]]
    OBVIOUS
  <2>3. t \in Transaction /\ t.kind = "team"
    BY <1>11, <2>1, TransactionTypes, NobodyWithoutSeats
  <2>4. r.kind = "team"
    BY <2>2, <2>3 DEF Transaction
  <2>5. txs' = txs \cup {r} /\ UNCHANGED <<remote, sub>>
    BY <1>11, <2>1, <2>2 DEF BeginTeam, Begin
  <2> QED
    BY <1>3, <2>4, <2>5
<1>12. ASSUME NEW s \in Subs \cup {Trial}, NEW u \in Users, ListExpired(s, u) PROVE Known'
  <2>1. PICK t : t = Tx("expiry", s)
    OBVIOUS
  <2>2. PICK r : r = [t EXCEPT !.who = {u}]
    OBVIOUS
  <2>3. t \in Transaction /\ t.kind = "expiry"
    BY <2>1, TransactionTypes
  <2>4. r.kind = "expiry"
    BY <2>2, <2>3 DEF Transaction
  <2>5. txs' = txs \cup {r} /\ UNCHANGED <<remote, sub>>
    BY <1>12, <2>1, <2>2 DEF ListExpired, Begin
  <2> QED
    BY <1>3, <2>4, <2>5
<1>13. ASSUME NEW t \in txs, CommitCheckout(t) \/ CommitSync(t) \/ CommitCancel(t) PROVE Known'
  <2>1. t.sub \in Subs /\ txs' \subseteq txs /\ UNCHANGED remote
    BY <1>0, <1>13 DEF CommitCheckout, CommitSync, CommitCancel
  <2>2. \A s \in Subs : s # t.sub => sub'[s] = sub[s]
    BY <1>0, <1>13, <2>1 DEF CommitCheckout, CommitSync, CommitCancel
  <2>3. sub[t.sub] # NoRow \/ remote[t.sub].status # "none"
    BY <1>13 DEF Known, CommitCheckout, CommitSync, CommitCancel
  <2> QED
    BY <1>0, <1>1, <2>1, <2>2, <2>3
<1>14. ASSUME NEW s \in Subs, Remind(s) PROVE Known'
  <2>1. UNCHANGED <<remote, txs>> /\ sub[s] # NoRow
    BY <1>14 DEF Remind, NoRow, Failed
  <2>2. \A n \in Subs : n # s => sub'[n] = sub[n]
    BY <1>0, <1>14 DEF Remind
  <2> QED
    BY <1>0, <1>1, <2>1, <2>2
<1>15. ASSUME NEW t \in txs,
              \/ CommitChange(t) \/ CommitTeam(t) \/ Fails(t)
              \/ \E another \in BOOLEAN : ClaimExpired(t, another)
       PROVE  Known'
  <2>1. txs' \subseteq txs /\ UNCHANGED <<remote, sub>>
    BY <1>15 DEF CommitChange, CommitTeam, Fails, ClaimExpired
  <2> QED
    BY <1>2, <2>1
<1>16. ASSUME Tick \/ UNCHANGED vars \/ \E u \in Students : StartTrial(u) PROVE Known'
  BY <1>2, <1>16 DEF Tick, StartTrial, vars
<1> QED
  BY <1>4, <1>5, <1>6, <1>7, <1>8, <1>9, <1>10, <1>11, <1>12, <1>13, <1>14, <1>15, <1>16 DEF Next

LEMMA FollowedStep ==
    ASSUME Typed, Known, Locked, Followed, [Next]_vars
    PROVE  Followed'
<1>0. /\ \A s \in Subs : remote[s] \in Remote /\ remote[s].changes \in Nat /\ sub[s] \in Row
      /\ \A t \in txs : t \in Transaction /\ t.event \in Nat /\ (t.kind = "sync" => t.sub \in Subs)
      /\ remote \in [Subs -> Remote] /\ sub \in [Subs -> Row]
  BY DEF Typed, Remote, Transaction
<1>1. ASSUME UNCHANGED <<remote, events>>,
             \A s \in Subs : sub[s] # NoRow => sub'[s].status = sub[s].status /\ sub'[s].quantity = sub[s].quantity
                                               /\ sub'[s].periodEnd = sub[s].periodEnd,
             \A t \in txs' : t.kind = "sync" =>
                 \E r \in txs : r.kind = "sync" /\ r.sub = t.sub /\ r.remote = t.remote /\ r.event = t.event
      PROVE  Followed'
  <2>1. \A s \in Subs, e \in Nat : <<s, e>> \in events' => e <= remote'[s].changes
    BY <1>1 DEF Followed
  <2>2. ASSUME NEW s \in Subs, remote'[s].changes > 0
        PROVE  remote'[s].status # "none" /\ (Unanswered(s)' \/ Copied(s)')
    BY <1>1, <2>2 DEF Followed, Unanswered, Copied, NoRow
  <2>3. ASSUME NEW t \in txs', t.kind = "sync" PROVE Answers(t)'
    BY <1>1, <2>3 DEF Followed, Answers, Fetched, Unanswered
  <2> QED
    BY <2>1, <2>2, <2>3 DEF Followed
<1>2. ASSUME UNCHANGED <<remote, events, sub>>, txs' \subseteq txs PROVE Followed'
  BY <1>1, <1>2
<1>3. ASSUME UNCHANGED <<remote, events, sub>>, NEW r, txs' \subseteq txs \cup {r}, r.kind # "sync" PROVE Followed'
  BY <1>1, <1>3
\* Something happens at the provider: a webhook of it is there.
<1>4. ASSUME NEW s \in Subs, NEW r \in Remote, remote' = [remote EXCEPT ![s] = r], r.status # "none",
             r.changes = remote[s].changes + 1, events' = events \cup {<<s, remote[s].changes + 1>>}, UNCHANGED sub,
             \A t \in txs' : t.kind = "sync" => t \in txs
      PROVE  Followed'
  <2>0. /\ remote'[s] = r /\ \A n \in Subs : n # s => remote'[n] = remote[n]
        /\ r.changes \in Nat /\ r.changes > remote[s].changes /\ <<s, r.changes>> \in events'
    BY <1>0, <1>4
  <2>1. ASSUME NEW n \in Subs, NEW e \in Nat, <<n, e>> \in events' PROVE e <= remote'[n].changes
    BY <1>0, <1>4, <2>0, <2>1 DEF Followed
  <2>2. ASSUME NEW n \in Subs, remote'[n].changes > 0
        PROVE  remote'[n].status # "none" /\ (Unanswered(n)' \/ Copied(n)')
    <3>1. CASE n = s
      BY <1>4, <2>0, <3>1 DEF Unanswered
    <3>2. CASE n # s
      BY <1>4, <2>0, <2>2, <3>2 DEF Unanswered, Followed, Copied
    <3> QED
      BY <3>1, <3>2
  <2>3. ASSUME NEW t \in txs', t.kind = "sync" PROVE Answers(t)'
    <3>1. t \in txs /\ t.sub \in Subs /\ Answers(t) /\ t.event \in Nat
      BY <1>0, <1>4, <2>3 DEF Followed
    <3>2. CASE t.sub = s
      BY <1>0, <1>4, <2>0, <3>1, <3>2 DEF Answers, Unanswered
    <3>3. CASE t.sub # s
      BY <1>0, <1>4, <2>0, <3>1, <3>3 DEF Answers, Unanswered, Fetched
    <3> QED
      BY <3>2, <3>3
  <2> QED
    BY <2>1, <2>2, <2>3 DEF Followed

<1>5. ASSUME NEW s \in Subs, Pay(s) \/ Renew(s) \/ PaymentFails(s) \/ Pause(s) \/ End(s) PROVE Followed'
  <2>1. PICK status \in Statuses \ {"none"}, periodEnd \in Nat : AtProvider(s, status, periodEnd)
    BY <1>0, <1>5 DEF Pay, Renew, PaymentFails, Pause, End, Statuses, Remote, Typed
  <2>2. PICK r : r = [status |-> status, quantity |-> remote[s].quantity, periodEnd |-> periodEnd,
                      ending |-> remote[s].ending, changes |-> remote[s].changes + 1]
    OBVIOUS
  <2>3. r \in Remote /\ r.status # "none" /\ r.changes = remote[s].changes + 1
    BY <1>0, <2>2 DEF Remote
  <2>4. remote' = [remote EXCEPT ![s] = r]
    BY <1>0, <2>1, <2>2 DEF AtProvider, Remote
  <2>5. events' = events \cup {<<s, remote[s].changes + 1>>} /\ UNCHANGED <<sub, txs>>
    BY <2>1 DEF AtProvider
  <2> QED
    BY <1>4, <2>3, <2>4, <2>5
<1>6. ASSUME NEW t \in txs, NEW q \in 1..MaxSeats, CallChange(t, q) PROVE Followed'
  <2>1. PICK r : r = [remote[t.sub] EXCEPT !.quantity = q, !.changes = remote[t.sub].changes + 1]
    OBVIOUS
  <2>2. t.sub \in Subs /\ q \in Nat /\ remote[t.sub] \in Remote /\ sub[t.sub] \in Row
    BY <1>0, <1>6, ConstantTypes DEF CallChange, Typed
  <2>3. r \in Remote /\ r.changes = remote[t.sub].changes + 1
    <3>1. remote[t.sub].changes + 1 \in Nat
      BY <2>2 DEF Remote
    <3>2. r \in Remote
      BY <2>1, <2>2, <3>1, RecordUpdates
    <3>3. r.changes = remote[t.sub].changes + 1
      BY <2>1, <2>2 DEF Remote
    <3> QED
      BY <3>2, <3>3
  <2>4. remote' = [remote EXCEPT ![t.sub] = r]
    BY <1>0, <1>6, <2>1, <2>2 DEF CallChange, Remote
  <2>5. PICK next : next = [t EXCEPT !.hasKey = TRUE]
    OBVIOUS
  <2>6. next.kind = "change"
    BY <1>0, <1>6, <2>5 DEF CallChange, Transaction
  <2>7. \A x \in txs' : x.kind = "sync" => x \in txs
    BY <1>6, <2>5, <2>6 DEF CallChange
  <2>8. events' = events \cup {<<t.sub, remote[t.sub].changes + 1>>} /\ UNCHANGED sub
    BY <1>6 DEF CallChange
  <2>9. r.status # "none"
    <3>1. r.status = remote[t.sub].status
      BY <2>1, <2>2 DEF Remote
    <3> QED
      BY <1>6, <3>1 DEF CallChange, Known
  <2> QED
    BY <1>4, <2>2, <2>3, <2>4, <2>7, <2>8, <2>9
<1>7. ASSUME NEW t \in txs, CallCancel(t) PROVE Followed'
  <2>1. t.sub \in Subs
    BY <1>7 DEF CallCancel, Typed
  <2>2. \A s \in Subs : /\ remote'[s].status = remote[s].status /\ remote'[s].quantity = remote[s].quantity
                        /\ remote'[s].periodEnd = remote[s].periodEnd /\ remote'[s].changes = remote[s].changes
    BY <1>0, <1>7, <2>1 DEF CallCancel, Remote
  <2>3. PICK next : next = [t EXCEPT !.hasKey = TRUE, !.members = members]
    OBVIOUS
  <2>4. next.kind = "cancel"
    BY <1>0, <1>7, <2>3 DEF CallCancel, Transaction
  <2>5. \A x \in txs' : x.kind = "sync" => x \in txs
    BY <1>7, <2>3, <2>4 DEF CallCancel
  <2>6. UNCHANGED <<events, sub>>
    BY <1>7 DEF CallCancel
  <2>7. \A s \in Subs, e \in Nat : <<s, e>> \in events' => e <= remote'[s].changes
    BY <2>2, <2>6 DEF Followed
  <2>8. ASSUME NEW s \in Subs, remote'[s].changes > 0
        PROVE  remote'[s].status # "none" /\ (Unanswered(s)' \/ Copied(s)')
    BY <2>2, <2>6, <2>8 DEF Followed, Unanswered, Copied
  <2>9. ASSUME NEW x \in txs', x.kind = "sync" PROVE Answers(x)'
    <3>1. x.sub \in Subs /\ Answers(x)
      BY <1>0, <2>5, <2>9 DEF Followed
    <3> QED
      BY <2>2, <2>6, <3>1 DEF Answers, Fetched, Unanswered
  <2> QED
    BY <2>7, <2>8, <2>9 DEF Followed
<1>8. ASSUME NEW s \in Subs, BeginCheckout(s) PROVE Followed'
  <2>1. PICK r : r = [remote[s] EXCEPT !.status = "created", !.quantity = MaxSeats]
    OBVIOUS
  <2>2. r.status = "created" /\ r.changes = remote[s].changes
    BY <1>0, <2>1 DEF Remote
  <2>3. remote' = [remote EXCEPT ![s] = r]
    BY <1>8, <2>1 DEF BeginCheckout
  <2>4. remote'[s] = r /\ \A n \in Subs : n # s => remote'[n] = remote[n]
    BY <1>0, <2>3
  <2>5. remote[s].status = "none" /\ UNCHANGED <<events, sub>>
    BY <1>8 DEF BeginCheckout
  <2>6. ~(remote[s].changes > 0) /\ \A t \in txs : t.kind = "sync" => t.sub # s
    BY <2>5 DEF Followed, Answers
  <2>7. \A x \in txs' : x.kind = "sync" => x \in txs
    BY <1>8, TransactionTypes DEF BeginCheckout, Begin
  <2>8. \A n \in Subs, e \in Nat : <<n, e>> \in events' => e <= remote'[n].changes
    BY <2>2, <2>4, <2>5 DEF Followed
  <2>9. ASSUME NEW n \in Subs, remote'[n].changes > 0
        PROVE  remote'[n].status # "none" /\ (Unanswered(n)' \/ Copied(n)')
    BY <2>2, <2>4, <2>5, <2>6, <2>9 DEF Followed, Unanswered, Copied
  <2>10. ASSUME NEW x \in txs', x.kind = "sync" PROVE Answers(x)'
    <3>1. x.sub \in Subs /\ x.sub # s /\ Answers(x)
      BY <1>0, <2>6, <2>7, <2>10 DEF Followed
    <3> QED
      BY <2>4, <2>5, <3>1 DEF Answers, Fetched, Unanswered
  <2> QED
    BY <2>8, <2>9, <2>10 DEF Followed
<1>9. ASSUME NEW s \in Subs, NEW e \in 0..MaxChanges, BeginSync(s, e) PROVE Followed'
  <2>1. PICK t : t = Tx("sync", s)
    OBVIOUS
  <2>2. PICK r : r = [t EXCEPT !.hasKey = TRUE, !.event = e, !.remote = remote[s]]
    OBVIOUS
  <2>3. t \in Transaction /\ t.sub = s
    BY <2>1, TransactionTypes
  <2>4. r.event = e /\ r.sub = s /\ r.remote = remote[s]
    BY <2>2, <2>3 DEF Transaction
  <2>5. txs' = txs \cup {r} /\ remote[s].status # "none" /\ (e # 0 => <<s, e>> \in events)
        /\ UNCHANGED <<remote, events, sub>>
    BY <1>9, <2>1, <2>2 DEF BeginSync, Begin
  <2>6. e <= remote[s].changes
    BY <1>0, <2>5 DEF Followed
  <2>7. Answers(r)'
    BY <2>4, <2>5, <2>6 DEF Answers, Fetched
  <2>8. \A x \in txs : x.kind = "sync" => Answers(x)'
    BY <2>5 DEF Followed, Answers, Fetched, Unanswered
  <2>9. \A n \in Subs : Unanswered(n)' = Unanswered(n) /\ Copied(n)' = Copied(n)
    BY <2>5 DEF Unanswered, Copied
  <2> QED
    BY <2>5, <2>7, <2>8, <2>9 DEF Followed
<1>10. ASSUME NEW t \in txs, ReadRow(t) PROVE Followed'
  <2>1. PICK r : r = [t EXCEPT !.hasRow = TRUE, !.members = members]
    OBVIOUS
  <2>2. r.sub = t.sub /\ r.remote = t.remote /\ r.event = t.event
    BY <1>0, <2>1 DEF Transaction
  <2>3. t.kind = "sync" /\ txs' = (txs \ {t}) \cup {r} /\ UNCHANGED <<remote, events, sub>>
    BY <1>10, <2>1 DEF ReadRow
  <2> QED
    BY <1>1, <2>2, <2>3
<1>11. ASSUME NEW t \in txs, CommitCheckout(t) PROVE Followed'
  <2>1. t.sub \in Subs /\ txs' \subseteq txs /\ UNCHANGED <<remote, events>>
    BY <1>0, <1>11 DEF CommitCheckout, Typed
  <2>2. \A s \in Subs : sub[s] # NoRow => sub'[s] = sub[s]
    BY <1>0, <1>11, <2>1 DEF CommitCheckout
  <2> QED
    BY <1>1, <2>1, <2>2
<1>12. ASSUME NEW t \in txs, CommitCancel(t) PROVE Followed'
  <2>1. t.sub \in Subs /\ txs' \subseteq txs /\ UNCHANGED <<remote, events>>
    BY <1>0, <1>12 DEF CommitCancel, Typed
  <2>2. PICK row : row = [sub[t.sub] EXCEPT !.cancel = TRUE]
    OBVIOUS
  <2>3. row.status = sub[t.sub].status /\ row.quantity = sub[t.sub].quantity /\ row.periodEnd = sub[t.sub].periodEnd
    BY <1>0, <2>1, <2>2 DEF Row
  <2>4. sub' = [sub EXCEPT ![t.sub] = row]
    BY <1>12, <2>2 DEF CommitCancel
  <2>5. \A s \in Subs : sub'[s].status = sub[s].status /\ sub'[s].quantity = sub[s].quantity
                        /\ sub'[s].periodEnd = sub[s].periodEnd
    BY <1>0, <2>1, <2>3, <2>4
  <2> QED
    BY <1>1, <2>1, <2>5
<1>13. ASSUME NEW s \in Subs, Remind(s) PROVE Followed'
  <2>1. UNCHANGED <<remote, events, txs>>
    BY <1>13 DEF Remind
  <2>2. PICK row : row = [sub[s] EXCEPT !.reminded = TRUE]
    OBVIOUS
  <2>3. row.status = sub[s].status /\ row.quantity = sub[s].quantity /\ row.periodEnd = sub[s].periodEnd
    BY <1>0, <2>2 DEF Row
  <2>4. sub' = [sub EXCEPT ![s] = row]
    BY <1>13, <2>2 DEF Remind
  <2>5. \A n \in Subs : sub'[n].status = sub[n].status /\ sub'[n].quantity = sub[n].quantity
                        /\ sub'[n].periodEnd = sub[n].periodEnd
    BY <1>0, <2>3, <2>4
  <2> QED
    BY <1>1, <2>1, <2>5
\* Another's webhook is not taken away: nobody else holds the lock, and the last change is another event.
<1>14. ASSUME NEW t \in txs, CommitSync(t) PROVE Followed'
  <2>1. t.kind = "sync" /\ t.sub \in Subs /\ Answers(t) /\ t.hasKey
    BY <1>0, <1>14 DEF CommitSync, Followed, Locked
  <2>2. PICK row : row = Applied(sub[t.sub], t.remote)
    OBVIOUS
  <2>3. row.status = t.remote.status /\ row.quantity = t.remote.quantity /\ row.periodEnd = t.remote.periodEnd
    BY <2>2 DEF Applied
  <2>4. sub' = [sub EXCEPT ![t.sub] = row]
    BY <1>14, <2>2 DEF CommitSync
  <2>5. sub'[t.sub] = row /\ \A s \in Subs : s # t.sub => sub'[s] = sub[s]
    BY <1>0, <2>1, <2>4
  <2>6. events' = events \ {<<t.sub, t.event>>} /\ txs' = txs \ {t} /\ UNCHANGED remote
    BY <1>14 DEF CommitSync
  <2>7. \A s \in Subs, e \in Nat : <<s, e>> \in events' => e <= remote'[s].changes
    BY <2>6 DEF Followed
  <2>8. \A s \in Subs : s # t.sub => (Unanswered(s) => Unanswered(s)') /\ (Copied(s) => Copied(s)')
    BY <2>5, <2>6 DEF Unanswered, Copied
  <2>9. Copied(t.sub)' \/ Unanswered(t.sub)'
    <3>1. CASE Fetched(t)
      BY <2>3, <2>5, <2>6, <3>1 DEF Fetched, Copied
    <3>2. CASE Unanswered(t.sub) /\ t.event < remote[t.sub].changes
      <4>1. t.event # remote[t.sub].changes
        BY <1>0, <2>1, <3>2
      <4> QED
        BY <2>6, <3>2, <4>1 DEF Unanswered
    <3> QED
      BY <2>1, <3>1, <3>2 DEF Answers
  <2>10. ASSUME NEW s \in Subs, remote'[s].changes > 0
         PROVE  remote'[s].status # "none" /\ (Unanswered(s)' \/ Copied(s)')
    <3>1. remote[s].status # "none" /\ (Unanswered(s) \/ Copied(s))
      BY <2>6, <2>10 DEF Followed
    <3>2. CASE s = t.sub
      BY <2>6, <2>9, <3>1, <3>2
    <3>3. CASE s # t.sub
      BY <2>6, <2>8, <3>1, <3>3
    <3> QED
      BY <3>2, <3>3
  <2>11. ASSUME NEW x \in txs', x.kind = "sync" PROVE Answers(x)'
    <3>1. x.sub \in Subs /\ Answers(x) /\ x.sub # t.sub
      BY <1>0, <2>1, <2>6, <2>11 DEF Followed, Locked
    <3>2. Unanswered(x.sub) => <<x.sub, remote[x.sub].changes>> \in events'
      BY <2>6, <3>1 DEF Unanswered
    <3> QED
      BY <2>6, <3>1, <3>2 DEF Answers, Fetched, Unanswered
  <2> QED
    BY <2>7, <2>10, <2>11 DEF Followed

<1>15. ASSUME NEW s \in Subs, NEW kind \in {"cancel", "change"}, BeginManaging(s, kind) PROVE Followed'
  <2>1. PICK t : t = Tx(kind, s)
    OBVIOUS
  <2>2. PICK r : r = [t EXCEPT !.hasRow = TRUE]
    OBVIOUS
  <2>3. t \in Transaction /\ t.kind = kind
    BY <2>1, TransactionTypes
  <2>4. r.kind # "sync"
    BY <2>2, <2>3 DEF Transaction
  <2>5. txs' = txs \cup {r} /\ UNCHANGED <<remote, events, sub>>
    BY <1>15, <2>1, <2>2 DEF BeginManaging, Begin
  <2> QED
    BY <1>3, <2>4, <2>5
<1>16. ASSUME NEW who \in SUBSET Users, BeginTeam(who) PROVE Followed'
  <2>1. PICK t : t = Tx("team", Newest)
    OBVIOUS
  <2>2. PICK r : r = [t EXCEPT !.who = who, !.row = sub[Newest]]
    OBVIOUS
  <2>3. t \in Transaction /\ t.kind = "team"
    BY <1>16, <2>1, TransactionTypes, NobodyWithoutSeats
  <2>4. r.kind # "sync"
    BY <2>2, <2>3 DEF Transaction
  <2>5. txs' = txs \cup {r} /\ UNCHANGED <<remote, events, sub>>
    BY <1>16, <2>1, <2>2 DEF BeginTeam, Begin
  <2> QED
    BY <1>3, <2>4, <2>5
<1>17. ASSUME NEW s \in Subs \cup {Trial}, NEW u \in Users, ListExpired(s, u) PROVE Followed'
  <2>1. PICK t : t = Tx("expiry", s)
    OBVIOUS
  <2>2. PICK r : r = [t EXCEPT !.who = {u}]
    OBVIOUS
  <2>3. t \in Transaction /\ t.kind = "expiry"
    BY <2>1, TransactionTypes
  <2>4. r.kind # "sync"
    BY <2>2, <2>3 DEF Transaction
  <2>5. txs' = txs \cup {r} /\ UNCHANGED <<remote, events, sub>>
    BY <1>17, <2>1, <2>2 DEF ListExpired, Begin
  <2> QED
    BY <1>3, <2>4, <2>5
<1>18. ASSUME NEW t \in txs,
              \/ CommitChange(t) \/ CommitTeam(t) \/ Fails(t)
              \/ \E another \in BOOLEAN : ClaimExpired(t, another)
       PROVE  Followed'
  <2>1. txs' \subseteq txs /\ UNCHANGED <<remote, events, sub>>
    BY <1>18 DEF CommitChange, CommitTeam, Fails, ClaimExpired
  <2> QED
    BY <1>2, <2>1
<1>19. ASSUME Tick \/ UNCHANGED vars \/ \E u \in Students : StartTrial(u) PROVE Followed'
  BY <1>2, <1>19 DEF Tick, StartTrial, vars
<1> QED
  BY <1>5, <1>6, <1>7, <1>8, <1>9, <1>10, <1>11, <1>12, <1>13, <1>14, <1>15, <1>16, <1>17, <1>18, <1>19 DEF Next

-----------------------------------------------------------------------------
(* Rows, reminders and coupons. *)

\* What writes rows: with the fields that reminders, grace periods and coupons are about.
LEMMA RowChanges ==
    ASSUME Typed, [Next]_vars
    PROVE  \/ UNCHANGED <<sub, reminders, redeemed>>
           \/ \E t \in txs : CommitCheckout(t) \/ CommitSync(t) \/ CommitCancel(t)
           \/ \E s \in Subs : Remind(s)
<1>1. \A s \in Subs : Pay(s) \/ Renew(s) \/ PaymentFails(s) \/ Pause(s) \/ End(s)
                      => UNCHANGED <<sub, reminders, redeemed>>
  BY DEF Pay, Renew, PaymentFails, Pause, End, AtProvider
<1>2. \A s \in Subs : BeginCheckout(s) \/ (\E e \in 0..MaxChanges : BeginSync(s, e))
                      \/ (\E kind \in {"cancel", "change"} : BeginManaging(s, kind))
                      => UNCHANGED <<sub, reminders, redeemed>>
  BY DEF BeginCheckout, BeginSync, BeginManaging
<1>3. \A t \in txs : ReadRow(t) \/ CallCancel(t) \/ CommitChange(t) \/ CommitTeam(t) \/ Fails(t)
                     \/ (\E q \in 1..MaxSeats : CallChange(t, q))
                     \/ (\E another \in BOOLEAN : ClaimExpired(t, another)) => UNCHANGED <<sub, reminders, redeemed>>
  BY DEF ReadRow, CallCancel, CommitChange, CommitTeam, Fails, CallChange, ClaimExpired
<1>4. Tick \/ (\E who \in SUBSET Users : BeginTeam(who)) \/ (\E u \in Students : StartTrial(u))
      \/ (\E u \in Users, s \in Subs \cup {Trial} : ListExpired(s, u)) \/ UNCHANGED vars
      => UNCHANGED <<sub, reminders, redeemed>>
  BY DEF Tick, BeginTeam, StartTrial, ListExpired, vars
<1> QED
  BY <1>1, <1>2, <1>3, <1>4 DEF Next

LEMMA CheckoutRow ==
    ASSUME Typed, NEW t \in txs, CommitCheckout(t)
    PROVE  /\ UNCHANGED <<reminders, redeemed>>
           /\ \A s \in Subs : sub'[s] = sub[s] \/ /\ sub[s] = NoRow /\ ~sub'[s].reminded /\ ~sub'[s].counted
                                                  /\ sub'[s].grace = Never /\ sub'[s].status = "created"
<1>1. t.sub \in Subs /\ UNCHANGED <<reminders, redeemed>>
  BY DEF CommitCheckout, Typed
<1>2. PICK row : row = [NoRow EXCEPT !.status = "created", !.quantity = remote[t.sub].quantity, !.coupon = TRUE]
  OBVIOUS
<1>3. ~row.reminded /\ ~row.counted /\ row.grace = Never /\ row.status = "created"
  BY <1>2 DEF NoRow
<1>4. sub' = IF sub[t.sub] # NoRow THEN sub ELSE [sub EXCEPT ![t.sub] = row]
  BY <1>2 DEF CommitCheckout
<1> QED
  BY <1>1, <1>3, <1>4 DEF Typed

LEMMA CancelRow ==
    ASSUME Typed, NEW t \in txs, CommitCancel(t)
    PROVE  /\ UNCHANGED <<reminders, redeemed>>
           /\ \A s \in Subs : /\ sub'[s].reminded = sub[s].reminded /\ sub'[s].counted = sub[s].counted
                              /\ sub'[s].grace = sub[s].grace
<1>1. t.sub \in Subs /\ UNCHANGED <<reminders, redeemed>>
  BY DEF CommitCancel, Typed
<1>2. PICK row : row = [sub[t.sub] EXCEPT !.cancel = TRUE]
  OBVIOUS
<1>3. sub[t.sub] \in Row /\ sub \in [Subs -> Row]
  BY <1>1 DEF Typed
<1>4. row.reminded = sub[t.sub].reminded /\ row.counted = sub[t.sub].counted /\ row.grace = sub[t.sub].grace
  BY <1>2, <1>3 DEF Row
<1>5. sub' = [sub EXCEPT ![t.sub] = row]
  BY <1>2 DEF CommitCancel
<1> QED
  BY <1>1, <1>3, <1>4, <1>5

LEMMA RemindRow ==
    ASSUME Typed, NEW s \in Subs, Remind(s)
    PROVE  /\ ~sub[s].reminded /\ sub'[s].reminded /\ sub'[s].counted = sub[s].counted /\ sub'[s].grace = sub[s].grace
           /\ \A r \in Subs : r # s => sub'[r] = sub[r] /\ reminders'[r] = reminders[r]
           /\ reminders'[s] = reminders[s] + 1 /\ UNCHANGED redeemed
<1>1. PICK row : row = [sub[s] EXCEPT !.reminded = TRUE]
  OBVIOUS
<1>2. sub[s] \in Row /\ sub \in [Subs -> Row] /\ reminders \in [Subs -> Nat]
  BY DEF Typed
<1>3. row.reminded /\ row.counted = sub[s].counted /\ row.grace = sub[s].grace
  BY <1>1, <1>2 DEF Row
<1>4. sub' = [sub EXCEPT ![s] = row] /\ reminders' = [reminders EXCEPT ![s] = @ + 1] /\ ~sub[s].reminded
      /\ UNCHANGED redeemed
  BY <1>1 DEF Remind
<1> QED
  BY <1>2, <1>3, <1>4

LEMMA SyncRow ==
    ASSUME Typed, NEW t \in txs, CommitSync(t)
    PROVE  /\ t.sub \in Subs /\ \A s \in Subs : s # t.sub => sub'[s] = sub[s] /\ reminders'[s] = reminders[s]
           /\ sub'[t.sub].grace \in {sub[t.sub].grace, Never, now + 1}
           /\ sub[t.sub].grace # Never => sub'[t.sub].grace \in {sub[t.sub].grace, Never}
           /\ IF sub'[t.sub].grace = Never THEN reminders'[t.sub] = 0
              ELSE reminders'[t.sub] = reminders[t.sub] /\ (sub'[t.sub].reminded <=> sub[t.sub].reminded)
           /\ \/ UNCHANGED redeemed /\ (sub'[t.sub].counted <=> sub[t.sub].counted)
              \/ redeemed' = redeemed + 1 /\ ~sub[t.sub].counted /\ sub'[t.sub].counted
<1> DEFINE s == t.sub
<1>1. s \in Subs /\ t.remote \in Remote
  BY DEF CommitSync, Typed, Transaction
<1>2. sub[s] \in Row /\ sub \in [Subs -> Row] /\ reminders \in [Subs -> Nat] /\ redeemed \in Nat
  BY <1>1 DEF Typed
<1>3. PICK row : row = Applied(sub[s], t.remote)
  OBVIOUS
<1>4. /\ sub' = [sub EXCEPT ![s] = row]
      /\ redeemed' = redeemed + (IF CouponCounts(sub[s], row.status) THEN 1 ELSE 0)
      /\ reminders' = IF row.grace = Never THEN [reminders EXCEPT ![s] = 0] ELSE reminders
  BY <1>3 DEF CommitSync
<1>5. sub'[s] = row /\ \A r \in Subs : r # s => sub'[r] = sub[r] /\ reminders'[r] = reminders[r]
  BY <1>1, <1>2, <1>4
<1>6. PICK grace : grace = NextGrace(sub[s], t.remote.status)
  OBVIOUS
<1>7. /\ row.grace = grace /\ row.status = t.remote.status
      /\ row.reminded = StaysReminded(sub[s], grace)
      /\ row.counted = (sub[s].counted \/ CouponCounts(sub[s], t.remote.status))
  BY <1>3, <1>6 DEF Applied
<1>8. /\ grace \in {sub[s].grace, Never, now + 1}
      /\ sub[s].grace # Never => grace \in {sub[s].grace, Never}
  BY <1>6 DEF NextGrace
<1>9. IF grace = Never THEN reminders'[s] = 0
      ELSE reminders'[s] = reminders[s] /\ (row.reminded <=> sub[s].reminded)
  BY <1>1, <1>2, <1>4, <1>7 DEF StaysReminded, Row
<1>10. \/ UNCHANGED redeemed /\ (row.counted <=> sub[s].counted)
       \/ redeemed' = redeemed + 1 /\ ~sub[s].counted /\ row.counted
  BY <1>2, <1>4, <1>7 DEF CouponCounts, Row
<1> QED
  BY <1>1, <1>5, <1>7, <1>8, <1>9, <1>10

LEMMA RemindersStep ==
    ASSUME Typed, RemindersKept, [Next]_vars
    PROVE  RemindersKept'
<1>0. \A s \in Subs : reminders[s] \in Nat
  BY DEF Typed
<1>1. ASSUME NEW t \in txs, CommitCheckout(t) PROVE RemindersKept'
  BY <1>1, CheckoutRow DEF RemindersKept, NoRow
<1>2. ASSUME NEW t \in txs, CommitCancel(t) PROVE RemindersKept'
  BY <1>2, CancelRow DEF RemindersKept
<1>3. ASSUME NEW t \in txs, CommitSync(t) PROVE RemindersKept'
  BY <1>0, <1>3, SyncRow DEF RemindersKept
<1>4. ASSUME NEW s \in Subs, Remind(s) PROVE RemindersKept'
  BY <1>0, <1>4, RemindRow DEF RemindersKept
<1>5. ASSUME UNCHANGED <<sub, reminders, redeemed>> PROVE RemindersKept'
  BY <1>5 DEF RemindersKept
<1> QED
  BY <1>1, <1>2, <1>3, <1>4, <1>5, RowChanges

LEMMA GraceStep ==
    ASSUME Typed, [Next]_vars, NEW s \in Subs, sub[s].grace # Never, sub'[s].grace # Never
    PROVE  sub'[s].grace = sub[s].grace
<1>1. ASSUME NEW t \in txs, CommitCheckout(t) PROVE sub'[s].grace = sub[s].grace
  BY <1>1, CheckoutRow DEF NoRow
<1>2. ASSUME NEW t \in txs, CommitCancel(t) PROVE sub'[s].grace = sub[s].grace
  BY <1>2, CancelRow
<1>3. ASSUME NEW t \in txs, CommitSync(t) PROVE sub'[s].grace = sub[s].grace
  BY <1>3, SyncRow
<1>4. ASSUME NEW r \in Subs, Remind(r) PROVE sub'[s].grace = sub[s].grace
  BY <1>4, RemindRow
<1>5. ASSUME UNCHANGED <<sub, reminders, redeemed>> PROVE sub'[s].grace = sub[s].grace
  BY <1>5
<1> QED
  BY <1>1, <1>2, <1>3, <1>4, <1>5, RowChanges

LEMMA CouponStep ==
    ASSUME Typed, CouponsCountOnce, [Next]_vars
    PROVE  CouponsCountOnce'
<1> DEFINE C == {s \in Subs : sub[s].counted}
           D == {s \in Subs : sub'[s].counted}
<1>0. redeemed = Cardinality(C) /\ IsFiniteSet(C) /\ Cardinality(C) \in Nat
  <2>1. IsFiniteSet(Subs)
    BY ConstantTypes, FS_Interval DEF Subs
  <2>2. IsFiniteSet(C)
    BY <2>1, FS_Subset
  <2> QED
    BY <2>2, FS_CardinalityType DEF CouponsCountOnce
<1>1. SUFFICES redeemed' = Cardinality(D)
  BY DEF CouponsCountOnce
<1>2. ASSUME UNCHANGED redeemed, \A s \in Subs : sub'[s].counted <=> sub[s].counted PROVE redeemed' = Cardinality(D)
  <2>1. C = D
    BY <1>2
  <2> QED
    BY <1>0, <1>2, <2>1
<1>3. ASSUME NEW t \in txs, CommitSync(t) PROVE redeemed' = Cardinality(D)
  <2>1. CASE UNCHANGED redeemed /\ (sub'[t.sub].counted <=> sub[t.sub].counted)
    BY <1>2, <1>3, <2>1, SyncRow
  <2>2. CASE redeemed' = redeemed + 1 /\ ~sub[t.sub].counted /\ sub'[t.sub].counted
    <3>1. D = C \cup {t.sub} /\ t.sub \notin C
      BY <1>3, <2>2, SyncRow
    <3>2. Cardinality(C \cup {t.sub}) = Cardinality(C) + 1
      BY <1>0, <3>1, FS_AddElement
    <3> QED
      BY <1>0, <2>2, <3>1, <3>2
  <2> QED
    BY <1>3, <2>1, <2>2, SyncRow
<1>4. ASSUME NEW t \in txs, CommitCheckout(t) PROVE redeemed' = Cardinality(D)
  BY <1>2, <1>4, CheckoutRow DEF NoRow
<1>5. ASSUME NEW t \in txs, CommitCancel(t) PROVE redeemed' = Cardinality(D)
  BY <1>2, <1>5, CancelRow
<1>6. ASSUME NEW s \in Subs, Remind(s) PROVE redeemed' = Cardinality(D)
  BY <1>2, <1>6, RemindRow
<1>7. ASSUME UNCHANGED <<sub, reminders, redeemed>> PROVE redeemed' = Cardinality(D)
  BY <1>2, <1>7
<1> QED
  BY <1>3, <1>4, <1>5, <1>6, <1>7, RowChanges

-----------------------------------------------------------------------------
(* Grants and limits. *)

\* What a refresh writes, for each person.
LEMMA RefreshedGrants ==
    ASSUME Typed, NEW s \in Subs, NEW row \in Row, NEW who \in SUBSET Users,
           NEW all, all = Refreshed(s, row, who)
    PROVE  /\ \A r \in (Subs \cup {Trial}) \ {s} : all[r] = grants[r]
           /\ \A u \in Users : IF ValidUntil(row) # Never /\ u \in Seated(row, who)
                               THEN all[s][u] = Upsert(grants[s][u], ValidUntil(row))
                               ELSE all[s][u] = EndGrant(grants[s][u])
<1>1. grants \in [Subs \cup {Trial} -> [Users -> Grant]]
  BY DEF Typed
<1>2. PICK mine : mine = [u \in Users |-> IF ValidUntil(row) # Never /\ u \in Seated(row, who)
                                          THEN Upsert(grants[s][u], ValidUntil(row)) ELSE EndGrant(grants[s][u])]
  OBVIOUS
<1>3. all = [grants EXCEPT ![s] = mine]
  BY <1>2 DEF Refreshed
<1>4. all[s] = mine /\ \A r \in (Subs \cup {Trial}) \ {s} : all[r] = grants[r]
  BY <1>1, <1>3
<1> QED
  BY <1>2, <1>4

\* A commit that refreshes the grants of subscription s, for the row and the members that were read.
Refreshes(s, row, who) ==
    /\ grants' = Refreshed(s, row, who) /\ Enforce(Touched(s, who), grants')
    /\ UNCHANGED <<now, missed>>

LEMMA GrantChanges ==
    ASSUME Typed, [Next]_vars
    PROVE  \/ UNCHANGED <<now, grants, enforced, missed>>
           \/ Tick
           \/ \E s \in Subs, row \in Row, who \in SUBSET Users : Refreshes(s, row, who)
           \/ \E u \in Students : StartTrial(u)
           \/ \E t \in txs, another \in BOOLEAN : ClaimExpired(t, another)
<1>1. \A s \in Subs : Pay(s) \/ Renew(s) \/ PaymentFails(s) \/ Pause(s) \/ End(s) \/ Remind(s)
                      => UNCHANGED <<now, grants, enforced, missed>>
  BY DEF Pay, Renew, PaymentFails, Pause, End, AtProvider, Remind
<1>2. \A s \in Subs : BeginCheckout(s) \/ (\E e \in 0..MaxChanges : BeginSync(s, e))
                      \/ (\E kind \in {"cancel", "change"} : BeginManaging(s, kind))
                      => UNCHANGED <<now, grants, enforced, missed>>
  BY DEF BeginCheckout, BeginSync, BeginManaging
<1>3. \A t \in txs : CommitCheckout(t) \/ ReadRow(t) \/ CallCancel(t) \/ CommitChange(t) \/ Fails(t)
                     \/ (\E q \in 1..MaxSeats : CallChange(t, q)) => UNCHANGED <<now, grants, enforced, missed>>
  BY DEF CommitCheckout, ReadRow, CallCancel, CommitChange, Fails, CallChange
<1>4. (\E who \in SUBSET Users : BeginTeam(who)) \/ (\E u \in Users, s \in Subs \cup {Trial} : ListExpired(s, u))
      \/ UNCHANGED vars => UNCHANGED <<now, grants, enforced, missed>>
  BY DEF BeginTeam, ListExpired, vars
<1>5. ASSUME NEW t \in txs, CommitSync(t)
      PROVE  \E s \in Subs, row \in Row, who \in SUBSET Users : Refreshes(s, row, who)
  <2>1. t.sub \in Subs /\ t.members \in SUBSET Users /\ t.remote \in Remote
    BY <1>5 DEF CommitSync, Typed, Transaction
  <2>2. sub[t.sub] \in Row
    BY <2>1 DEF Typed
  <2>3. PICK row : row = Applied(sub[t.sub], t.remote)
    OBVIOUS
  <2>4. row \in Row
    BY <2>1, <2>2, <2>3, OperatorTypes
  <2>5. Refreshes(t.sub, row, t.members)
    BY <1>5, <2>3 DEF CommitSync, Refreshes
  <2> QED
    BY <2>1, <2>4, <2>5
<1>6. ASSUME NEW t \in txs, CommitCancel(t)
      PROVE  \E s \in Subs, row \in Row, who \in SUBSET Users : Refreshes(s, row, who)
  <2>1. t.sub \in Subs /\ t.members \in SUBSET Users
    BY <1>6 DEF CommitCancel, Typed, Transaction
  <2>2. sub[t.sub] \in Row
    BY <2>1 DEF Typed
  <2>3. PICK row : row = [sub[t.sub] EXCEPT !.cancel = TRUE]
    OBVIOUS
  <2>4. row \in Row
    BY <2>2, <2>3, RecordUpdates
  <2>5. Refreshes(t.sub, row, t.members)
    BY <1>6, <2>3 DEF CommitCancel, Refreshes
  <2> QED
    BY <2>1, <2>4, <2>5
<1>7. ASSUME NEW t \in txs, CommitTeam(t)
      PROVE  \E s \in Subs, row \in Row, who \in SUBSET Users : Refreshes(s, row, who)
  <2>1. t.sub \in Subs /\ t.who \in SUBSET Users /\ t.row \in Row
    BY <1>7 DEF CommitTeam, Typed, Transaction
  <2>2. Refreshes(t.sub, t.row, t.who)
    BY <1>7 DEF CommitTeam, Refreshes
  <2> QED
    BY <2>1, <2>2
<1> QED
  BY <1>1, <1>2, <1>3, <1>4, <1>5, <1>6, <1>7 DEF Next

LEMMA TrialGrant ==
    ASSUME Typed, NEW u \in Students, StartTrial(u)
    PROVE  /\ u \in Users /\ ~grants'[Trial][u].handled
           /\ \A s \in Subs \cup {Trial}, v \in Users : s # Trial \/ v # u => grants'[s][v] = grants[s][v]
           /\ Enforce({u}, grants') /\ UNCHANGED <<now, missed>>
<1>1. u \in Users
  BY BillingAssumption DEF Users
<1>2. grants \in [Subs \cup {Trial} -> [Users -> Grant]] /\ grants[Trial] \in [Users -> Grant]
  BY DEF Typed
<1>3. PICK g : g = [grants[Trial][u] EXCEPT !.until = now + TrialTime]
  OBVIOUS
<1>4. grants[Trial][u] = NoGrant /\ grants' = [grants EXCEPT ![Trial][u] = g] /\ Enforce({u}, grants')
      /\ UNCHANGED <<now, missed>>
  BY <1>3 DEF StartTrial
<1>5. ~g.handled
  BY <1>3, <1>4 DEF NoGrant
<1>6. grants'[Trial][u] = g
  BY <1>1, <1>2, <1>4
<1>7. \A s \in Subs \cup {Trial}, v \in Users : s # Trial \/ v # u => grants'[s][v] = grants[s][v]
  BY <1>1, <1>2, <1>4
<1> QED
  BY <1>1, <1>4, <1>5, <1>6, <1>7

LEMMA ClaimedGrant ==
    ASSUME Typed, NEW t \in txs, NEW another \in BOOLEAN, ClaimExpired(t, another)
    PROVE  /\ UNCHANGED now
           /\ \/ UNCHANGED <<grants, enforced, missed>>
              \/ \E s \in Subs \cup {Trial}, u \in Users :
                    /\ grants'[s][u].handled /\ grants'[s][u].until = grants[s][u].until
                    /\ \A r \in Subs \cup {Trial}, v \in Users : r # s \/ v # u => grants'[r][v] = grants[r][v]
                    /\ Enforce({u}, grants')
                    /\ missed \subseteq missed' /\ (grants[s][u].until > now => u \in missed')
<1>1. UNCHANGED now
  BY DEF ClaimExpired
<1>2. PICK u \in t.who : \/ UNCHANGED <<grants, enforced, missed>>
                         \/ /\ grants' = [grants EXCEPT ![t.sub][u].handled = TRUE]
                            /\ missed' = IF IsActive(grants[t.sub][u]) THEN missed \cup {u} ELSE missed
                            /\ Enforce({u}, grants')
  BY DEF ClaimExpired
<1>3. t.sub \in Subs \cup {Trial} /\ u \in Users
  BY <1>2 DEF Typed, Transaction
<1>4. grants \in [Subs \cup {Trial} -> [Users -> Grant]] /\ grants[t.sub] \in [Users -> Grant]
  BY <1>3 DEF Typed
<1>5. PICK g : g = [grants[t.sub][u] EXCEPT !.handled = TRUE]
  OBVIOUS
<1>6. grants[t.sub][u] \in Grant
  BY <1>3, <1>4
<1>7. g.handled /\ g.until = grants[t.sub][u].until
  BY <1>5, <1>6 DEF Grant
<1>8. ASSUME grants' = [grants EXCEPT ![t.sub][u].handled = TRUE],
             missed' = IF IsActive(grants[t.sub][u]) THEN missed \cup {u} ELSE missed
      PROVE  /\ grants'[t.sub][u] = g
             /\ \A r \in Subs \cup {Trial}, v \in Users : r # t.sub \/ v # u => grants'[r][v] = grants[r][v]
             /\ missed \subseteq missed' /\ (grants[t.sub][u].until > now => u \in missed')
  <2>1. grants' = [grants EXCEPT ![t.sub][u] = g]
    BY <1>5, <1>8
  <2>2. grants'[t.sub][u] = g
    BY <1>3, <1>4, <2>1
  <2>3. \A r \in Subs \cup {Trial}, v \in Users : r # t.sub \/ v # u => grants'[r][v] = grants[r][v]
    BY <1>3, <1>4, <2>1
  <2>4. missed \subseteq missed' /\ (grants[t.sub][u].until > now => u \in missed')
    BY <1>8 DEF IsActive
  <2> QED
    BY <2>2, <2>3, <2>4
<1>9. CASE UNCHANGED <<grants, enforced, missed>>
  BY <1>1, <1>9
<1>10. CASE /\ grants' = [grants EXCEPT ![t.sub][u].handled = TRUE]
            /\ missed' = IF IsActive(grants[t.sub][u]) THEN missed \cup {u} ELSE missed
            /\ Enforce({u}, grants')
  <2>1. grants'[t.sub][u].handled /\ grants'[t.sub][u].until = grants[t.sub][u].until
    BY <1>7, <1>8, <1>10
  <2>2. /\ \A r \in Subs \cup {Trial}, v \in Users : r # t.sub \/ v # u => grants'[r][v] = grants[r][v]
        /\ missed \subseteq missed' /\ (grants[t.sub][u].until > now => u \in missed')
    BY <1>8, <1>10
  <2> QED
    BY <1>1, <1>3, <1>10, <2>1, <2>2
<1> QED
  BY <1>2, <1>9, <1>10

LEMMA EnforcedNow ==
    ASSUME NEW who, Enforce(who, grants'), UNCHANGED now, NEW u \in Users
    PROVE  IF u \in who THEN InLine(u)' ELSE enforced'[u] = enforced[u]
<1>1. enforced'[u] = IF u \in who THEN PlanOf(u, grants') ELSE enforced[u]
  BY DEF Enforce
<1>2. ASSUME u \in who PROVE InLine(u)'
  BY <1>1, <1>2 DEF InLine, PlanOf, IsActive
<1> QED
  BY <1>1, <1>2

LEMMA InLineKept ==
    ASSUME UNCHANGED now, NEW u \in Users, InLine(u) \/ ToHandle(u), enforced'[u] = enforced[u],
           \A s \in Subs \cup {Trial} : grants'[s][u] = grants[s][u]
    PROVE  InLine(u)' \/ ToHandle(u)'
<1>1. ASSUME InLine(u) PROVE InLine(u)'
  BY <1>1 DEF InLine, PlanOf, IsActive
<1>2. ASSUME ToHandle(u) PROVE ToHandle(u)'
  BY <1>2 DEF ToHandle
<1> QED
  BY <1>1, <1>2

\* Whoever is not touched by a refresh has no grant of that subscription, before and after.
LEMMA UntouchedGrants ==
    ASSUME Typed, NEW s \in Subs, NEW row \in Row, NEW who \in SUBSET Users, Refreshes(s, row, who),
           NEW u \in Users \ Touched(s, who)
    PROVE  \A r \in Subs \cup {Trial} : grants'[r][u] = grants[r][u]
<1>1. u \notin who /\ grants[s][u] = NoGrant
  BY DEF Touched
<1>2. u \notin Seated(row, who)
  BY <1>1 DEF Seated
<1>3. EndGrant(grants[s][u]) = grants[s][u]
  BY <1>1 DEF EndGrant, IsActive, NoGrant, Never, Typed
<1>4. grants'[s][u] = EndGrant(grants[s][u]) /\ \A r \in (Subs \cup {Trial}) \ {s} : grants'[r] = grants[r]
  BY <1>2, RefreshedGrants DEF Refreshes
<1> QED
  BY <1>3, <1>4

LEMMA UpsertFields ==
    ASSUME NEW g \in Grant, NEW until \in Int, NEW next, next = Upsert(g, until)
    PROVE  next.until = until /\ (next.handled => g.handled /\ g.until = until)
<1>1. PICK same \in BOOLEAN : same <=> (g.handled /\ g.until = until)
  OBVIOUS
<1>2. (g.handled /\ g.until = until) = same
  BY <1>1 DEF Grant
<1>3. next = [until |-> until, handled |-> same]
  BY <1>2 DEF Upsert
<1> QED
  BY <1>1, <1>3

LEMMA UnhandledStep ==
    ASSUME Typed, Unhandled, [Next]_vars
    PROVE  Unhandled'
<1>0. now \in Nat /\ \A s \in Subs \cup {Trial}, u \in Users : grants[s][u] \in Grant
  BY DEF Typed
<1>1. ASSUME UNCHANGED <<now, grants, enforced, missed>> PROVE Unhandled'
  BY <1>1 DEF Unhandled
<1>2. CASE Tick
  <2>1. now' = now + 1 /\ UNCHANGED <<grants, missed>>
    BY <1>2 DEF Tick
  <2>2. \A s \in Subs \cup {Trial}, u \in Users : grants[s][u].until \in Int
    BY <1>0 DEF Grant
  <2> QED
    BY <1>0, <2>1, <2>2 DEF Unhandled
<1>3. ASSUME NEW s \in Subs, NEW row \in Row, NEW who \in SUBSET Users, Refreshes(s, row, who) PROVE Unhandled'
  <2>1. UNCHANGED <<now, missed>> /\ \A r \in (Subs \cup {Trial}) \ {s} : grants'[r] = grants[r]
    BY <1>3, RefreshedGrants DEF Refreshes
  <2>2. ASSUME NEW u \in Users \ missed, grants'[s][u].until > now PROVE ~grants'[s][u].handled
    <3>1. PICK g \in Grant : g = grants[s][u] /\ (g.until > now => ~g.handled)
      BY <1>0 DEF Unhandled
    <3>2. ValidUntil(row) \in Int
      BY OperatorTypes
    <3>3. grants'[s][u] = Upsert(g, ValidUntil(row)) \/ grants'[s][u] = EndGrant(g)
      BY <1>3, <3>1, RefreshedGrants DEF Refreshes
    <3>4. CASE grants'[s][u] = Upsert(g, ValidUntil(row))
      <4>1. PICK until \in Int : until = ValidUntil(row)
        BY <3>2
      <4>2. grants'[s][u].until = until /\ (grants'[s][u].handled => g.handled /\ g.until = until)
        BY <3>4, <4>1, UpsertFields
      <4> QED
        BY <2>2, <3>1, <4>2
    <3>5. CASE grants'[s][u] = EndGrant(g)
      BY <1>0, <2>2, <3>1, <3>5 DEF EndGrant, IsActive
    <3> QED
      BY <3>3, <3>4, <3>5
  <2>3. ASSUME NEW r \in Subs \cup {Trial}, NEW u \in Users \ missed, grants'[r][u].until > now
        PROVE  ~grants'[r][u].handled
    <3>1. CASE r = s
      BY <2>2, <2>3, <3>1
    <3>2. CASE r # s
      BY <2>1, <2>3, <3>2 DEF Unhandled
    <3> QED
      BY <3>1, <3>2
  <2> QED
    BY <2>1, <2>3 DEF Unhandled
<1>4. ASSUME NEW u \in Students, StartTrial(u) PROVE Unhandled'
  <2>1. UNCHANGED <<now, missed>> /\ ~grants'[Trial][u].handled
    BY <1>4, TrialGrant
  <2>2. \A s \in Subs \cup {Trial}, v \in Users : s # Trial \/ v # u => grants'[s][v] = grants[s][v]
    BY <1>4, TrialGrant
  <2> QED
    BY <2>1, <2>2 DEF Unhandled
<1>5. ASSUME NEW t \in txs, NEW another \in BOOLEAN, ClaimExpired(t, another) PROVE Unhandled'
  <2>1. CASE UNCHANGED <<grants, enforced, missed>>
    BY <1>1, <1>5, <2>1, ClaimedGrant
  <2>2. ASSUME NEW s \in Subs \cup {Trial}, NEW u \in Users, grants'[s][u].until = grants[s][u].until,
               \A r \in Subs \cup {Trial}, v \in Users : r # s \/ v # u => grants'[r][v] = grants[r][v],
               missed \subseteq missed', grants[s][u].until > now => u \in missed'
        PROVE  Unhandled'
    BY <1>5, <2>2, ClaimedGrant DEF Unhandled
  <2> QED
    BY <1>5, <2>1, <2>2, ClaimedGrant
<1> QED
  BY <1>1, <1>2, <1>3, <1>4, <1>5, GrantChanges

LEMMA EnforcedStep ==
    ASSUME Typed, Unhandled, Enforced, [Next]_vars
    PROVE  Enforced'
<1>0. now \in Nat /\ \A s \in Subs \cup {Trial}, u \in Users : grants[s][u] \in Grant
  BY DEF Typed
<1>1. ASSUME UNCHANGED <<now, grants, enforced, missed>> PROVE Enforced'
  BY <1>1, InLineKept DEF Enforced
\* A grant that ends now has not been handled; without one every plan is what it was.
<1>2. CASE Tick
  <2>1. now' = now + 1 /\ UNCHANGED <<grants, missed, enforced>>
    BY <1>2 DEF Tick
  <2>2. ASSUME NEW u \in Users \ missed PROVE InLine(u)' \/ ToHandle(u)'
    <3>0. \A s \in Subs \cup {Trial} : grants[s][u].until \in Int
      BY <1>0 DEF Grant
    <3>1. CASE ToHandle(u)
      BY <1>0, <2>1, <3>0, <3>1 DEF ToHandle
    <3>2. CASE InLine(u)
      <4>1. CASE \A s \in Subs \cup {Trial} : grants[s][u].until > now => grants[s][u].until > now + 1
        <5>1. \A s \in Subs \cup {Trial} : grants[s][u].until > now <=> grants'[s][u].until > now'
          BY <1>0, <2>1, <3>0, <4>1
        <5> QED
          BY <2>1, <3>2, <5>1 DEF InLine, PlanOf, IsActive
      <4>2. ASSUME NEW s \in Subs \cup {Trial}, grants[s][u].until > now, ~(grants[s][u].until > now + 1)
            PROVE  ToHandle(u)'
        <5>1. ~grants[s][u].handled
          BY <4>2 DEF Unhandled
        <5>2. grants[s][u] # NoGrant
          BY <1>0, <4>2 DEF NoGrant, Never
        <5>3. grants[s][u].until <= now + 1
          BY <1>0, <3>0, <4>2
        <5> QED
          BY <2>1, <5>1, <5>2, <5>3 DEF ToHandle
      <4> QED
        BY <4>1, <4>2
    <3> QED
      BY <3>1, <3>2 DEF Enforced
  <2> QED
    BY <2>1, <2>2 DEF Enforced
<1>3. ASSUME NEW s \in Subs, NEW row \in Row, NEW who \in SUBSET Users, Refreshes(s, row, who) PROVE Enforced'
  <2>1. UNCHANGED <<now, missed>> /\ Enforce(Touched(s, who), grants')
    BY <1>3 DEF Refreshes
  <2>2. ASSUME NEW u \in Users \ missed PROVE InLine(u)' \/ ToHandle(u)'
    <3>1. CASE u \in Touched(s, who)
      BY <2>1, <3>1, EnforcedNow
    <3>2. CASE u \notin Touched(s, who)
      <4>1. \A r \in Subs \cup {Trial} : grants'[r][u] = grants[r][u]
        BY <1>3, <3>2, UntouchedGrants
      <4>2. enforced'[u] = enforced[u]
        BY <2>1, <3>2, EnforcedNow
      <4> QED
        BY <2>1, <4>1, <4>2, InLineKept DEF Enforced
    <3> QED
      BY <3>1, <3>2
  <2> QED
    BY <2>1, <2>2 DEF Enforced
<1>4. ASSUME NEW u \in Students, StartTrial(u) PROVE Enforced'
  <2>1. UNCHANGED <<now, missed>> /\ Enforce({u}, grants')
    BY <1>4, TrialGrant
  <2>2. \A s \in Subs \cup {Trial}, v \in Users : s # Trial \/ v # u => grants'[s][v] = grants[s][v]
    BY <1>4, TrialGrant
  <2>3. ASSUME NEW v \in Users \ missed PROVE InLine(v)' \/ ToHandle(v)'
    <3>1. CASE v = u
      BY <2>1, <3>1, EnforcedNow
    <3>2. CASE v # u
      <4>1. enforced'[v] = enforced[v]
        BY <2>1, <3>2, EnforcedNow
      <4> QED
        BY <2>1, <2>2, <3>2, <4>1, InLineKept DEF Enforced
    <3> QED
      BY <3>1, <3>2
  <2> QED
    BY <2>1, <2>3 DEF Enforced
<1>5. ASSUME NEW t \in txs, NEW another \in BOOLEAN, ClaimExpired(t, another) PROVE Enforced'
  <2>0. UNCHANGED now
    BY <1>5, ClaimedGrant
  <2>1. CASE UNCHANGED <<grants, enforced, missed>>
    BY <1>1, <2>0, <2>1
  <2>2. ASSUME NEW s \in Subs \cup {Trial}, NEW u \in Users, Enforce({u}, grants'),
               \A r \in Subs \cup {Trial}, v \in Users : r # s \/ v # u => grants'[r][v] = grants[r][v],
               missed \subseteq missed'
        PROVE  Enforced'
    <3>1. ASSUME NEW v \in Users \ missed PROVE InLine(v)' \/ ToHandle(v)'
      <4>1. CASE v = u
        BY <2>0, <2>2, <4>1, EnforcedNow
      <4>2. CASE v # u
        <5>1. enforced'[v] = enforced[v]
          BY <2>0, <2>2, <4>2, EnforcedNow
        <5> QED
          BY <2>0, <2>2, <4>2, <5>1, InLineKept DEF Enforced
      <4> QED
        BY <4>1, <4>2
    <3> QED
      BY <2>2, <3>1 DEF Enforced
  <2> QED
    BY <1>5, <2>1, <2>2, ClaimedGrant
<1> QED
  BY <1>1, <1>2, <1>3, <1>4, <1>5, GrantChanges

\* Seats and ends depend on four fields of a row.
LEMMA FollowsRow ==
    ASSUME Typed, NEW s \in Subs, NEW a \in Row, NEW b \in Row, NEW who \in SUBSET Users, Follows(s, a, who),
           a.status = b.status, a.quantity = b.quantity, a.periodEnd = b.periodEnd, a.cancel = b.cancel,
           a.grace = b.grace
    PROVE  Follows(s, b, who)
<1>1. ValidUntil(a) = ValidUntil(b) /\ Seated(a, who) = Seated(b, who)
  BY DEF ValidUntil, Seated
<1> QED
  BY <1>1 DEF Follows

LEMMA NothingFromNoRow ==
    ASSUME NEW s \in Subs, NEW a, NEW b, NEW who, NEW what, Follows(s, a, who),
           a.status \in {"none", "created"}, b.status \in {"none", "created"}
    PROVE  Follows(s, b, what)
<1>1. ValidUntil(a) = Never /\ ValidUntil(b) = Never
  BY DEF ValidUntil, Failed
<1> QED
  BY <1>1 DEF Follows

LEMMA RefreshFollows ==
    ASSUME Typed, NEW s \in Subs, NEW row \in Row, NEW who \in SUBSET Users, grants' = Refreshed(s, row, who),
           UNCHANGED now
    PROVE  Follows(s, row, who)' /\ \A r \in (Subs \cup {Trial}) \ {s} : grants'[r] = grants[r]
<1>1. ASSUME NEW u \in Users, u \in Seated(row, who), ValidUntil(row) # Never
      PROVE  grants'[s][u].until = ValidUntil(row)
  <2>1. PICK g \in Grant : g = grants[s][u]
    BY DEF Typed
  <2>2. PICK until \in Int : until = ValidUntil(row)
    BY OperatorTypes
  <2>3. grants'[s][u] = Upsert(g, until)
    BY <1>1, <2>1, <2>2, RefreshedGrants
  <2> QED
    BY <2>2, <2>3, UpsertFields
<1>2. ASSUME NEW u \in Users, ~(u \in Seated(row, who) /\ ValidUntil(row) # Never) PROVE grants'[s][u].until <= now
  <2>1. PICK g \in Grant : g = grants[s][u]
    BY DEF Typed
  <2>2. grants'[s][u] = EndGrant(g)
    BY <1>2, <2>1, RefreshedGrants
  <2>3. now \in Int /\ g.until \in Int
    BY <2>1 DEF Typed, Grant
  <2> QED
    BY <2>2, <2>3 DEF EndGrant, IsActive
<1>3. \A r \in (Subs \cup {Trial}) \ {s} : grants'[r] = grants[r]
  BY RefreshedGrants
<1> QED
  BY <1>1, <1>2, <1>3 DEF Follows

LEMMA GrantsStep ==
    ASSUME Typed, Typed', GrantsFollow, [Next]_vars
    PROVE  GrantsFollow'
<1>0. /\ now \in Nat /\ members \in SUBSET Users /\ sub \in [Subs -> Row] /\ \A s \in Subs : sub'[s] \in Row
      /\ grants \in [Subs \cup {Trial} -> [Users -> Grant]]
      /\ \A s \in Subs \cup {Trial}, u \in Users : grants[s][u].until \in Int
  BY DEF Typed, Grant
<1>1. ASSUME NEW s \in Subs \ raced, NEW row \in Row, NEW who \in SUBSET Users, Follows(s, sub[s], members),
             row = sub'[s], who = members', \A u \in Users : grants'[s][u].until = grants[s][u].until,
             now' >= now, now' \in Nat, UNCHANGED members,
             \/ row = sub[s] \/ (row.status = "created" /\ sub[s] = NoRow)
             \/ /\ row.status = sub[s].status /\ row.quantity = sub[s].quantity /\ row.grace = sub[s].grace
                /\ row.periodEnd = sub[s].periodEnd /\ row.cancel = sub[s].cancel
      PROVE  Follows(s, row, who)'
  <2>1. Follows(s, row, who)
    BY <1>0, <1>1, FollowsRow, NothingFromNoRow DEF NoRow
  <2> QED
    BY <1>0, <1>1, <2>1 DEF Follows

<1>2. ASSUME UNCHANGED <<members, raced>>, now' >= now,
             \A s \in Subs, u \in Users : grants'[s][u].until = grants[s][u].until,
             \A s \in Subs :
                \/ sub'[s] = sub[s] \/ (sub'[s].status = "created" /\ sub[s] = NoRow)
                \/ /\ sub'[s].status = sub[s].status /\ sub'[s].quantity = sub[s].quantity
                   /\ sub'[s].grace = sub[s].grace /\ sub'[s].periodEnd = sub[s].periodEnd
                   /\ sub'[s].cancel = sub[s].cancel
      PROVE  GrantsFollow'
  <2>1. SUFFICES ASSUME NEW s \in Subs \ raced, NEW row \in Row, NEW who \in SUBSET Users,
                        row = sub'[s], who = members'
                 PROVE  Follows(s, row, who)'
    BY <1>2 DEF GrantsFollow
  <2>2. Follows(s, sub[s], members)
    BY <1>0 DEF GrantsFollow
  <2>3. now' \in Nat
    BY DEF Typed
  <2> QED
    BY <1>1, <1>2, <2>1, <2>2, <2>3
<1>3. ASSUME UNCHANGED <<now, members, sub, grants, raced>> PROVE GrantsFollow'
  BY <1>0, <1>2, <1>3
<1>4. CASE Tick
  <2>1. UNCHANGED <<members, sub, grants, raced>> /\ now' >= now
    BY <1>0, <1>4 DEF Tick
  <2> QED
    BY <1>2, <2>1
<1>5. ASSUME NEW t \in txs, CommitCheckout(t) PROVE GrantsFollow'
  <2>1. UNCHANGED <<now, members, grants, raced>>
    BY <1>5 DEF CommitCheckout
  <2>2. \A s \in Subs : sub'[s] = sub[s] \/ (sub'[s].status = "created" /\ sub[s] = NoRow)
    BY <1>5, CheckoutRow
  <2>3. now' >= now
    BY <1>0, <2>1
  <2> QED
    BY <1>2, <2>1, <2>2, <2>3
<1>6. ASSUME NEW s \in Subs, Remind(s) PROVE GrantsFollow'
  <2>1. UNCHANGED <<now, members, grants, raced>> /\ now' >= now
    BY <1>0, <1>6 DEF Remind
  <2>2. PICK row : row = [sub[s] EXCEPT !.reminded = TRUE]
    OBVIOUS
  <2>3. /\ row.status = sub[s].status /\ row.quantity = sub[s].quantity
        /\ row.grace = sub[s].grace /\ row.periodEnd = sub[s].periodEnd /\ row.cancel = sub[s].cancel
    BY <1>0, <2>2 DEF Row
  <2>4. sub' = [sub EXCEPT ![s] = row]
    BY <1>6, <2>2 DEF Remind
  <2>5. sub'[s] = row /\ \A r \in Subs : r # s => sub'[r] = sub[r]
    BY <1>0, <2>4
  <2> QED
    BY <1>2, <2>1, <2>3, <2>5
<1>7. ASSUME NEW u \in Students, StartTrial(u) PROVE GrantsFollow'
  <2>1. UNCHANGED <<now, members, sub, raced>> /\ now' >= now
    BY <1>0, <1>7 DEF StartTrial
  <2>2. \A s \in Subs, v \in Users : grants'[s][v] = grants[s][v]
    BY <1>7, TrialGrant, ConstantTypes
  <2> QED
    BY <1>2, <2>1, <2>2
<1>8. ASSUME NEW t \in txs, NEW another \in BOOLEAN, ClaimExpired(t, another) PROVE GrantsFollow'
  <2>1. UNCHANGED <<now, members, sub, raced>> /\ now' >= now
    BY <1>0, <1>8, ClaimedGrant DEF ClaimExpired
  <2>2. \A s \in Subs, v \in Users : grants'[s][v].until = grants[s][v].until
    BY <1>8, ClaimedGrant
  <2> QED
    BY <1>2, <2>1, <2>2
\* Another subscription than the one that is refreshed.
<1>9. ASSUME NEW s \in Subs \ raced, sub'[s] = sub[s], UNCHANGED <<now, members>>, grants'[s] = grants[s],
             NEW row \in Row, NEW who \in SUBSET Users, row = sub'[s], who = members'
      PROVE  Follows(s, row, who)'
  <2>1. Follows(s, sub[s], members)
    BY <1>0 DEF GrantsFollow
  <2> QED
    BY <1>0, <1>1, <1>9, <2>1
<1>10. ASSUME NEW t \in txs, CommitSync(t) PROVE GrantsFollow'
  <2>1. t.sub \in Subs /\ t.members \in SUBSET Users /\ t.remote \in Remote
    BY <1>10 DEF CommitSync, Typed, Transaction
  <2>2. PICK next : next = Applied(sub[t.sub], t.remote)
    OBVIOUS
  <2>3. /\ sub' = [sub EXCEPT ![t.sub] = next] /\ grants' = Refreshed(t.sub, next, t.members)
        /\ raced' = (IF t.members = members THEN raced \ {t.sub} ELSE raced \cup {t.sub}) /\ UNCHANGED <<now, members>>
    BY <1>10, <2>2 DEF CommitSync
  <2>4. next = sub'[t.sub] /\ \A r \in Subs : r # t.sub => sub'[r] = sub[r]
    BY <1>0, <2>1, <2>3
  <2>5. Follows(t.sub, next, t.members)' /\ \A r \in (Subs \cup {Trial}) \ {t.sub} : grants'[r] = grants[r]
    BY <1>0, <2>1, <2>3, <2>4, RefreshFollows
  <2>6. SUFFICES ASSUME NEW s \in Subs \ raced', NEW row \in Row, NEW who \in SUBSET Users,
                        row = sub'[s], who = members'
                 PROVE  Follows(s, row, who)'
    BY DEF GrantsFollow
  <2>7. CASE s = t.sub
    BY <2>3, <2>4, <2>5, <2>6, <2>7
  <2>8. CASE s # t.sub
    BY <1>9, <2>3, <2>4, <2>5, <2>6, <2>8
  <2> QED
    BY <2>7, <2>8
<1>11. ASSUME NEW t \in txs, CommitCancel(t) PROVE GrantsFollow'
  <2>1. t.sub \in Subs /\ t.members \in SUBSET Users
    BY <1>11 DEF CommitCancel, Typed, Transaction
  <2>2. PICK next : next = [sub[t.sub] EXCEPT !.cancel = TRUE]
    OBVIOUS
  <2>3. /\ sub' = [sub EXCEPT ![t.sub] = next] /\ grants' = Refreshed(t.sub, next, t.members)
        /\ raced' = (IF t.members = members THEN raced ELSE raced \cup {t.sub}) /\ UNCHANGED <<now, members>>
    BY <1>11, <2>2 DEF CommitCancel
  <2>4. next = sub'[t.sub] /\ \A r \in Subs : r # t.sub => sub'[r] = sub[r]
    BY <1>0, <2>1, <2>3
  <2>5. Follows(t.sub, next, t.members)' /\ \A r \in (Subs \cup {Trial}) \ {t.sub} : grants'[r] = grants[r]
    BY <1>0, <2>1, <2>3, <2>4, RefreshFollows
  <2>6. SUFFICES ASSUME NEW s \in Subs \ raced', NEW row \in Row, NEW who \in SUBSET Users,
                        row = sub'[s], who = members'
                 PROVE  Follows(s, row, who)'
    BY DEF GrantsFollow
  <2>7. CASE s = t.sub
    BY <2>3, <2>4, <2>5, <2>6, <2>7
  <2>8. CASE s # t.sub
    BY <1>9, <2>3, <2>4, <2>5, <2>6, <2>8
  <2> QED
    BY <2>7, <2>8
\* The row of now was read, or the subscription has no row and grants nothing.
<1>12. ASSUME NEW t \in txs, CommitTeam(t) PROVE GrantsFollow'
  <2>1. t.sub \in Subs /\ t.who \in SUBSET Users /\ t.row \in Row /\ sub[t.sub] # NoRow
    BY <1>12 DEF CommitTeam, Typed, Transaction
  <2>2. /\ grants' = Refreshed(t.sub, t.row, t.who) /\ members' = t.who /\ UNCHANGED <<now, sub>>
        /\ raced' = (raced \ {t.sub}) \cup {s \in Subs : sub[s] # NoRow /\ (s = t.sub => sub[s] # t.row)}
    BY <1>12 DEF CommitTeam
  <2>3. PICK next \in Row, team \in SUBSET Users : next = t.row /\ team = t.who
    BY <2>1
  <2>4. Follows(t.sub, next, team)' /\ \A r \in (Subs \cup {Trial}) \ {t.sub} : grants'[r] = grants[r]
    BY <2>1, <2>2, <2>3, RefreshFollows
  <2>5. SUFFICES ASSUME NEW s \in Subs \ raced', NEW row \in Row, NEW who \in SUBSET Users,
                        row = sub'[s], who = members'
                 PROVE  Follows(s, row, who)'
    BY DEF GrantsFollow
  <2>6. CASE s = t.sub
    BY <2>1, <2>2, <2>3, <2>4, <2>5, <2>6
  <2>7. CASE s # t.sub
    <3>1. s \notin raced /\ row = NoRow /\ grants'[s] = grants[s]
      BY <2>2, <2>4, <2>5, <2>7
    <3>2. Follows(s, sub[s], members)
      BY <1>0, <3>1 DEF GrantsFollow
    <3>3. Follows(s, row, who)
      BY <2>2, <2>5, <3>1, <3>2, NothingFromNoRow DEF NoRow
    <3> QED
      BY <2>2, <3>1, <3>3 DEF Follows
  <2> QED
    BY <2>6, <2>7
<1>13. \A s \in Subs : Pay(s) \/ Renew(s) \/ PaymentFails(s) \/ Pause(s) \/ End(s)
                       => UNCHANGED <<now, members, sub, grants, raced>>
  BY DEF Pay, Renew, PaymentFails, Pause, End, AtProvider
<1>14. \A s \in Subs : BeginCheckout(s) \/ (\E e \in 0..MaxChanges : BeginSync(s, e))
                      \/ (\E kind \in {"cancel", "change"} : BeginManaging(s, kind))
                      => UNCHANGED <<now, members, sub, grants, raced>>
  BY DEF BeginCheckout, BeginSync, BeginManaging
<1>15. \A t \in txs : ReadRow(t) \/ CallCancel(t) \/ CommitChange(t) \/ Fails(t)
                     \/ (\E q \in 1..MaxSeats : CallChange(t, q)) => UNCHANGED <<now, members, sub, grants, raced>>
  BY DEF ReadRow, CallCancel, CommitChange, Fails, CallChange
<1>16. (\E who \in SUBSET Users : BeginTeam(who)) \/ (\E u \in Users, s \in Subs \cup {Trial} : ListExpired(s, u))
      \/ UNCHANGED vars => UNCHANGED <<now, members, sub, grants, raced>>
  BY DEF BeginTeam, ListExpired, vars
<1> QED
  BY <1>3, <1>4, <1>5, <1>6, <1>7, <1>8, <1>10, <1>11, <1>12, <1>13, <1>14, <1>15, <1>16 DEF Next

-----------------------------------------------------------------------------
(* The theorems. *)

BillingInv ==
    /\ Typed /\ Known /\ Locked /\ Followed
    /\ RemindersKept /\ CouponsCountOnce
    /\ GrantsFollow /\ Unhandled /\ Enforced

LEMMA BillingStarts == Init => BillingInv
<1> SUFFICES ASSUME Init PROVE BillingInv
  OBVIOUS
<1>1. Typed
  <2>1. grants \in [Subs \cup {Trial} -> [Users -> Grant]]
    BY ConstantTypes DEF Init
  <2> QED
    BY <2>1, ConstantTypes DEF Init, Typed
<1>2. Known /\ Locked
  BY DEF Init, Known, Locked
<1>3. Followed
  BY DEF Init, Followed, NewSub
<1>4. RemindersKept
  BY DEF Init, RemindersKept
<1>5. CouponsCountOnce
  <2>1. {s \in Subs : sub[s].counted} = {}
    BY DEF Init, NoRow
  <2> QED
    BY <2>1, FS_EmptySet DEF Init, CouponsCountOnce
<1>6. \A s \in Subs \cup {Trial}, u \in Users : grants[s][u] = NoGrant /\ grants[s][u].until = Never
  BY DEF Init, NoGrant
<1>7. GrantsFollow
  <2>1. \A s \in Subs : ValidUntil(sub[s]) = Never
    BY DEF Init, NoRow, ValidUntil
  <2> QED
    BY <1>6, <2>1 DEF Init, GrantsFollow, Follows, Never
<1>8. Unhandled
  BY <1>6 DEF Init, Unhandled, Never
<1>9. Enforced
  <2>1. \A s \in Subs \cup {Trial}, u \in Users : ~(grants[s][u].until > now)
    BY <1>6 DEF Init, Never
  <2> QED
    BY <2>1 DEF Init, Enforced, InLine, PlanOf, IsActive
<1> QED
  BY <1>1, <1>2, <1>3, <1>4, <1>5, <1>7, <1>8, <1>9 DEF BillingInv

LEMMA BillingStep == BillingInv /\ [Next]_vars => BillingInv'
<1> SUFFICES ASSUME BillingInv, [Next]_vars PROVE BillingInv'
  OBVIOUS
<1> USE DEF BillingInv
<1>1. Typed'
  BY TypedStep
<1>2. Known' /\ Locked'
  BY KnownStep, LockedStep
<1>3. Followed'
  BY FollowedStep
<1>4. RemindersKept' /\ CouponsCountOnce'
  BY RemindersStep, CouponStep
<1>5. GrantsFollow'
  BY <1>1, GrantsStep
<1>6. Unhandled' /\ Enforced'
  BY UnhandledStep, EnforcedStep
<1> QED
  BY <1>1, <1>2, <1>3, <1>4, <1>5, <1>6

LEMMA BillingInvariant == Spec => []BillingInv
  BY BillingStarts, BillingStep, PTL DEF Spec

\* Whatever was lost, delivered twice, overtaken or rolled back: when every webhook is answered, our
\* copy of each subscription is the provider's (sync.ts:45-53).
THEOREM Answered == Spec => []AnsweredIsApplied
<1>1. BillingInv => AnsweredIsApplied
  BY DEF BillingInv, Followed, Unanswered, Copied, AnsweredIsApplied
<1> QED
  BY <1>1, BillingInvariant, PTL

\* Nobody gets two reminders of one failure, with any number of syncs and sweeps (service.ts:531).
THEOREM OneReminder == Spec => []RemindedOnce
<1>1. BillingInv => RemindedOnce
  BY DEF BillingInv, RemindersKept, RemindedOnce
<1> QED
  BY <1>1, BillingInvariant, PTL

\* However often a payment is announced, its coupon counts once (sync.ts:379).
THEOREM OneRedemption == Spec => []CouponsCountOnce
<1>1. BillingInv => CouponsCountOnce
  BY DEF BillingInv
<1> QED
  BY <1>1, BillingInvariant, PTL

\* No step moves the end of a grace period (derive.ts:148).
THEOREM OneGracePeriod == Spec => GraceIsNeverExtended
<1>1. BillingInv /\ [Next]_vars =>
        [\A s \in Subs : sub[s].grace # Never /\ sub'[s].grace # Never => sub'[s].grace = sub[s].grace]_vars
  BY GraceStep DEF BillingInv
<1> QED
  BY <1>1, BillingInvariant, PTL DEF Spec, GraceIsNeverExtended

\* Grants are those of the row and the members, except after a membership change that raced with a
\* sync (sync.ts:42, 320).
THEOREM GrantsAreOfTheRow == Spec => []GrantsFollowUnlessRaced
<1>1. ASSUME BillingInv PROVE GrantsFollowUnlessRaced
  <2>1. SUFFICES ASSUME NEW s \in Subs \ raced, NEW u \in Users
                 PROVE  IF u \in Seated(sub[s], members) /\ ValidUntil(sub[s]) > now
                        THEN grants[s][u].until = ValidUntil(sub[s]) ELSE ~IsActive(grants[s][u])
    BY DEF GrantsFollowUnlessRaced
  <2>2. sub[s] \in Row /\ members \in SUBSET Users /\ now \in Nat /\ grants[s][u] \in Grant
    BY <1>1, ConstantTypes DEF BillingInv, Typed
  <2>3. ValidUntil(sub[s]) \in Int /\ grants[s][u].until \in Int
    BY <1>1, <2>2, OperatorTypes DEF BillingInv, Grant
  <2>4. Follows(s, sub[s], members)
    BY <1>1, <2>2 DEF BillingInv, GrantsFollow
  <2> QED
    BY <2>2, <2>3, <2>4 DEF Follows, IsActive, Never
<1> QED
  BY <1>1, BillingInvariant, PTL

\* A person's limits are those of the person's plan, or the sweep has a grant still to handle; it
\* misses only what was renewed after it was listed (service.ts:576-585).
THEOREM LimitsAreOfThePlan == Spec => []LimitsFollowPlanUnlessMissed
<1>1. ASSUME BillingInv PROVE LimitsFollowPlanUnlessMissed
  <2>1. now \in Nat /\ \A s \in Subs \cup {Trial}, u \in Users : grants[s][u].until \in Int
    BY <1>1 DEF BillingInv, Typed, Grant
  <2> QED
    BY <1>1, <2>1 DEF BillingInv, Enforced, InLine, ToHandle, LimitsFollowPlanUnlessMissed, IsActive
<1> QED
  BY <1>1, BillingInvariant, PTL
=============================================================================
