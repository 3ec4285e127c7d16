------------------------------ MODULE Billing ------------------------------
(***************************************************************************)
(* The subscriptions of one team workspace and the grants that follow from *)
(* them: checkout, webhooks, refresh, cancel, change of seats, members,    *)
(* the student offer and the sweep, with the provider as environment.      *)
(*   apps/server/src/billing/service.ts, sync.ts, entitlements.ts,         *)
(*   api/billing.ts, shared/src/entitlements/derive.ts                     *)
(* A transaction is begun, may call the provider, and commits or fails:    *)
(* its writes show when it commits, what it read stays as it was read.     *)
(***************************************************************************)
EXTENDS Integers, Sequences, FiniteSets, SequencesExt, FiniteSetsExt

CONSTANTS SeatOrder,    \* the team's people in the order that gives them seats, owner first
          Students,     \* people with an academic email address
          MaxSubs,      \* checkouts
          MaxSeats,     \* seats of a subscription
          MaxChanges,   \* things that happen at the provider
          MaxTime,      \* the clock, in grace periods
          TrialTime,    \* the length of the student offer, in grace periods
          OfferUntil,   \* when the last student claims the offer
          MaxTx         \* transactions at the same time

ASSUME BillingAssumption ==
    /\ Students \subseteq ToSet(SeatOrder)
    /\ SeatOrder # <<>> /\ IsInjective(SeatOrder)
    /\ {MaxSubs, MaxSeats, MaxChanges, MaxTime, TrialTime, OfferUntil, MaxTx} \subseteq Nat

VARIABLES now,       \* the clock
          remote,    \* subscriptions at the provider
          events,    \* webhooks whose id is not in billing_events yet; another delivery changes nothing
          sub,       \* our rows of subscriptions, in the order they were made; a status is created,
             \* active, past_due, paused or cancelled
          members,   \* memberships of the team
          grants,    \* entitlements: team seats by subscription, and student trials
          txs,       \* transactions under way
          redeemed,  \* how often the coupon was counted
          enforced,  \* the plan each person's boards were last brought in line with
          reminders, \* history: reminders sent in the present failure episode of each subscription
          raced,     \* history: subscriptions with a membership change during a sync
          missed     \* history: people with a grant that the sweep handled although it had been renewed

vars == <<now, remote, events, sub, members, grants, txs, redeemed, enforced, reminders, raced, missed>>

Users == ToSet(SeatOrder)
Owner == SeatOrder[1]
Subs == 1..MaxSubs
Trial == 0
Forever == MaxTime + TrialTime + 10
Never == -1
Failed == {"past_due"}
Paid == {"active"}

NoRow == [status |-> "none", quantity |-> 0, periodEnd |-> 0, cancel |-> FALSE, grace |-> Never,
          reminded |-> FALSE, coupon |-> FALSE, counted |-> FALSE]
NoGrant == [until |-> Never, handled |-> FALSE]
NewSub == [status |-> "none", quantity |-> 0, periodEnd |-> 0, ending |-> FALSE, changes |-> 0]

Init ==
    /\ now = 0
    /\ remote = [s \in Subs |-> NewSub]
    /\ events = {}
    /\ sub = [s \in Subs |-> NoRow]
    /\ members = {Owner}
    /\ grants = [s \in Subs \cup {Trial} |-> [u \in Users |-> NoGrant]]
    /\ txs = {}
    /\ redeemed = 0
    /\ enforced = [u \in Users |-> "free"]
    /\ reminders = [s \in Subs |-> 0]
    /\ raced = {} /\ missed = {}

----------------------------------------------------------------------------
(* Plans, from grants *)

IsActive(g) == g.until > now

\* effectiveEntitlement: the highest plan among the grants that have not expired.
PlanOf(u, all) ==
    IF \E s \in Subs : IsActive(all[s][u]) THEN "team"
    ELSE IF IsActive(all[Trial][u]) THEN "pro" ELSE "free"

\* subscriptionValidUntil: Forever while it renews, Never when it gives nothing.
ValidUntil(row) ==
    CASE row.status \in {"none", "created", "paused"} -> Never
      [] row.status \in Failed -> row.grace
      [] row.status = "cancelled" -> IF row.grace # Never THEN row.grace ELSE row.periodEnd
      [] OTHER -> IF row.cancel THEN row.periodEnd ELSE Forever

\* Mutant: every failed attempt starts the period again.
GraceFromNow(row, status) == IF status \in Failed THEN now + 1 ELSE IF status \in Paid THEN Never ELSE row.grace
\* nextGrace: it starts at the first failed payment and ends with a payment.
NextGrace(row, status) ==
    IF status \in Failed THEN (IF row.grace # Never THEN row.grace ELSE now + 1)
    ELSE IF status \in Paid THEN Never ELSE row.grace

\* upsertGrant: another end re-arms the sweep.
Upsert(g, until) == [until |-> until, handled |-> g.handled /\ g.until = until]
\* endGrant: ends what runs longer.
EndGrant(g) == IF IsActive(g) THEN [until |-> now, handled |-> FALSE] ELSE g

\* teamMembersInSeatOrder, cut at the number of seats.
Ahead(v, u) == \E i, j \in DOMAIN SeatOrder : i < j /\ SeatOrder[i] = v /\ SeatOrder[j] = u
Seated(row, who) == {u \in who : Cardinality({v \in who : Ahead(v, u)}) < row.quantity}
\* Mutant: people who left the workspace keep their grant.
RefreshedMembers(s, row, who) ==
    [grants EXCEPT ![s] = [u \in Users |->
        IF ValidUntil(row) # Never /\ u \in Seated(row, who) THEN Upsert(grants[s][u], ValidUntil(row))
        ELSE IF u \in who THEN EndGrant(grants[s][u]) ELSE grants[s][u]]]
\* refreshSubscriptionGrants, for the members and the row that were read.
Refreshed(s, row, who) ==
    [grants EXCEPT ![s] = [u \in Users |->
        IF ValidUntil(row) # Never /\ u \in Seated(row, who) THEN Upsert(grants[s][u], ValidUntil(row))
        ELSE EndGrant(grants[s][u])]]
\* Mutant: those who had a grant before.
TouchedHolders(s, who) == {u \in Users : grants[s][u] # NoGrant}
\* Whose limits are enforced: the members, and people who left.
Touched(s, who) == who \cup {u \in Users : grants[s][u] # NoGrant}

\* enforceOwnerLimits for everybody touched (module OwnedBoards).
Enforce(who, all) == enforced' = [u \in Users |-> IF u \in who THEN PlanOf(u, all) ELSE enforced[u]]

----------------------------------------------------------------------------
(* Locks *)

\* Mutant: nobody waits for the advisory lock of a subscription.
NoKey(s) == TRUE
KeyIsFree(s) == \A t \in txs : t.sub = s => ~t.hasKey
RowIsFree(s) == \A t \in txs : t.sub = s => ~t.hasRow
TeamIsFree == \A t \in txs : t.kind # "team"

Begin(t) == Cardinality(txs) < MaxTx /\ txs' = txs \cup {t}
Tx(kind, s) == [kind |-> kind, sub |-> s, hasKey |-> FALSE, hasRow |-> FALSE, event |-> 0, who |-> {},
                remote |-> NewSub, row |-> NoRow, members |-> {}]

----------------------------------------------------------------------------
(* The provider and its customer *)

Live == {"active", "past_due"}
AtProvider(s, status, periodEnd) ==
    /\ remote[s].changes < MaxChanges
    /\ remote' = [remote EXCEPT ![s].status = status, ![s].periodEnd = periodEnd, ![s].changes = @ + 1]
    /\ events' = events \cup {<<s, remote[s].changes + 1>>}
    /\ UNCHANGED <<now, sub, members, grants, txs, redeemed, enforced, reminders, raced, missed>>

\* The checkout's response reached the customer, so the row was committed.
Pay(s) == remote[s].status = "created" /\ sub[s] # NoRow /\ AtProvider(s, "active", now + 1)
Renew(s) ==
    /\ remote[s].status \in Live \cup {"paused"} /\ ~remote[s].ending
    /\ AtProvider(s, "active", now + 1)
PaymentFails(s) == remote[s].status = "active" /\ ~remote[s].ending /\ AtProvider(s, "past_due", remote[s].periodEnd)
Pause(s) == remote[s].status = "active" /\ AtProvider(s, "paused", remote[s].periodEnd)
End(s) == remote[s].status \in Live /\ AtProvider(s, "cancelled", remote[s].periodEnd)

Tick ==
    /\ now < MaxTime
    /\ now' = now + 1
    /\ UNCHANGED <<remote, events, sub, members, grants, txs, redeemed, enforced, reminders, raced, missed>>

----------------------------------------------------------------------------
(* Checkout *)

\* A live subscription refuses a second checkout, one that was just made is used again.
BeginCheckout(s) ==
    /\ remote[s].status = "none" /\ \A r \in 1..(s - 1) : remote[r].status # "none"
    /\ \A t \in txs : t.kind # "checkout"
    /\ \A r \in Subs : sub[r].status \notin Live
    /\ Begin(Tx("checkout", s))
    /\ remote' = [remote EXCEPT ![s].status = "created", ![s].quantity = MaxSeats]
    /\ UNCHANGED <<now, events, sub, members, grants, redeemed, enforced, reminders, raced, missed>>

\* The insert conflicts if a sync has adopted the subscription meanwhile: then the transaction fails.
CommitCheckout(t) ==
    /\ t.kind = "checkout"
    /\ txs' = txs \ {t}
    /\ sub' = IF sub[t.sub] # NoRow THEN sub
              ELSE [sub EXCEPT ![t.sub] = [NoRow EXCEPT !.status = "created", !.quantity = remote[t.sub].quantity,
                                                        !.coupon = TRUE]]
    /\ UNCHANGED <<now, remote, events, members, grants, redeemed, enforced, reminders, raced, missed>>

----------------------------------------------------------------------------
(* Sync: webhooks, the refresh after checkout, the sweep *)

\* Under the subscription's lock, an event that was not applied before, or none, and the provider's state.
BeginSync(s, e) ==
    /\ remote[s].status # "none" /\ KeyIsFree(s)
    /\ e # 0 => <<s, e>> \in events
    /\ Begin([Tx("sync", s) EXCEPT !.hasKey = TRUE, !.event = e, !.remote = remote[s]])
    /\ UNCHANGED <<now, remote, events, sub, members, grants, redeemed, enforced, reminders, raced, missed>>

\* applyRemote reads the row, for update, and the members.
ReadRow(t) ==
    /\ t.kind = "sync" /\ ~t.hasRow /\ RowIsFree(t.sub)
    /\ txs' = (txs \ {t}) \cup {[t EXCEPT !.hasRow = TRUE, !.members = members]}
    /\ UNCHANGED <<now, remote, events, sub, members, grants, redeemed, enforced, reminders, raced, missed>>

\* Mutant: counted at each sync.
CountAtEachSync(row, next) == row.coupon /\ next \in Paid
\* redeemCoupon
CouponCounts(row, next) == row.coupon /\ ~row.counted /\ next \in Paid
\* Mutant: a sync asks for a reminder again.
ForgetReminder(row, grace) == FALSE
\* A new failure episode gets a new reminder.
StaysReminded(row, grace) == row.reminded /\ grace # Never

Applied(row, r) ==
    LET grace == NextGrace(row, r.status)
    IN  [status |-> r.status, quantity |-> r.quantity, periodEnd |-> r.periodEnd,
         cancel |-> row.cancel /\ r.status \in Paid, grace |-> grace,
         reminded |-> StaysReminded(row, grace), coupon |-> row.coupon,
         counted |-> row.counted \/ CouponCounts(row, r.status)]

\* Everything is committed at once; a row that was lost after checkout is made from the notes.  They
\* name the owner, who stays a member of the team: `unknown` (sync.ts:111), which only records the
\* event, is for subscriptions that are not ours.
CommitSync(t) ==
    /\ t.kind = "sync" /\ t.hasRow
    /\ LET s == t.sub
           row == Applied(sub[s], t.remote)
       IN  /\ sub' = [sub EXCEPT ![s] = row]
           /\ grants' = Refreshed(s, row, t.members)
           /\ Enforce(Touched(s, t.members), grants')
           /\ redeemed' = redeemed + (IF CouponCounts(sub[s], row.status) THEN 1 ELSE 0)
           /\ reminders' = IF row.grace = Never THEN [reminders EXCEPT ![s] = 0] ELSE reminders
           /\ raced' = IF t.members = members THEN raced \ {s} ELSE raced \cup {s}
    /\ events' = events \ {<<t.sub, t.event>>}
    /\ txs' = txs \ {t}
    /\ UNCHANGED <<now, remote, members, missed>>

----------------------------------------------------------------------------
(* Cancelling and changing seats: the row is locked first, then the subscription's key *)

\* Only a subscription that renews: its row, which is read first, says so until the end.
BeginManaging(s, kind) ==
    /\ sub[s].status \in Paid /\ ~sub[s].cancel /\ RowIsFree(s)
    /\ kind = "change" => remote[s].changes < MaxChanges
    /\ Begin([Tx(kind, s) EXCEPT !.hasRow = TRUE])
    /\ UNCHANGED <<now, remote, events, sub, members, grants, redeemed, enforced, reminders, raced, missed>>

\* It is cancelled at the provider, for the end of the cycle, or changed there.
CallCancel(t) ==
    /\ t.kind = "cancel" /\ ~t.hasKey /\ KeyIsFree(t.sub)
    /\ txs' = (txs \ {t}) \cup {[t EXCEPT !.hasKey = TRUE, !.members = members]}
    /\ remote' = [remote EXCEPT ![t.sub].ending = TRUE]
    /\ UNCHANGED <<now, events, sub, members, grants, redeemed, enforced, reminders, raced, missed>>
CallChange(t, quantity) ==
    /\ t.kind = "change" /\ ~t.hasKey /\ KeyIsFree(t.sub)
    /\ quantity # sub[t.sub].quantity /\ quantity >= Cardinality(members)
    /\ remote[t.sub].changes < MaxChanges
    /\ txs' = (txs \ {t}) \cup {[t EXCEPT !.hasKey = TRUE]}
    /\ remote' = [remote EXCEPT ![t.sub].quantity = quantity, ![t.sub].changes = @ + 1]
    /\ events' = events \cup {<<t.sub, remote[t.sub].changes + 1>>}
    /\ UNCHANGED <<now, sub, members, grants, redeemed, enforced, reminders, raced, missed>>

CommitCancel(t) ==
    /\ t.kind = "cancel" /\ t.hasKey
    /\ LET row == [sub[t.sub] EXCEPT !.cancel = TRUE]
       IN  /\ sub' = [sub EXCEPT ![t.sub] = row]
           /\ grants' = Refreshed(t.sub, row, t.members)
           /\ Enforce(Touched(t.sub, t.members), grants')
           /\ raced' = IF t.members = members THEN raced ELSE raced \cup {t.sub}
    /\ txs' = txs \ {t}
    /\ UNCHANGED <<now, remote, events, members, redeemed, reminders, missed>>
\* The change is audited; a sync follows.
CommitChange(t) ==
    /\ t.kind = "change" /\ t.hasKey
    /\ txs' = txs \ {t}
    /\ UNCHANGED <<now, remote, events, sub, members, grants, redeemed, enforced, reminders, raced, missed>>

\* A refusal, a lost connection, or a deadlock that the database resolves.
Fails(t) ==
    /\ txs' = txs \ {t}
    /\ UNCHANGED <<now, remote, events, sub, members, grants, redeemed, enforced, reminders, raced, missed>>

----------------------------------------------------------------------------
(* Members *)

Seats == Max({0} \cup {sub[s].quantity : s \in {s \in Subs : sub[s].status \in Live}})
Newest == Max({s \in Subs : sub[s] # NoRow})

\* Under the lock of the team's members; refreshTeamSeats reads the newest subscription without a lock.
BeginTeam(who) ==
    /\ TeamIsFree /\ Owner \in who
    /\ \/ \E u \in Users : who = members \cup {u} /\ u \notin members /\ Cardinality(members) < Seats
       \/ \E u \in members : who = members \ {u}
    /\ Begin([Tx("team", Newest) EXCEPT !.who = who, !.row = sub[Newest]])
    /\ UNCHANGED <<now, remote, events, sub, members, grants, redeemed, enforced, reminders, raced, missed>>
CommitTeam(t) ==
    /\ t.kind = "team"
    /\ members' = t.who
    /\ grants' = Refreshed(t.sub, t.row, t.who)
    /\ Enforce(Touched(t.sub, t.who), grants')
    /\ raced' = (raced \ {t.sub}) \cup {s \in Subs : sub[s] # NoRow /\ (s = t.sub => sub[s] # t.row)}
    /\ txs' = txs \ {t}
    /\ UNCHANGED <<now, remote, events, sub, redeemed, reminders, missed>>

----------------------------------------------------------------------------
(* The student offer, and the sweep *)

StartTrial(u) ==
    /\ grants[Trial][u] = NoGrant /\ now < OfferUntil
    /\ grants' = [grants EXCEPT ![Trial][u].until = now + TrialTime]
    /\ Enforce({u}, grants')
    /\ UNCHANGED <<now, remote, events, sub, members, txs, redeemed, reminders, raced, missed>>

\* A reminder before the end of the grace period is claimed by an update, then sent.
Remind(s) ==
    /\ sub[s].status \in Failed /\ ~sub[s].reminded /\ sub[s].grace > now /\ RowIsFree(s)
    /\ sub' = [sub EXCEPT ![s].reminded = TRUE]
    /\ reminders' = [reminders EXCEPT ![s] = @ + 1]
    /\ UNCHANGED <<now, remote, events, members, grants, txs, redeemed, enforced, raced, missed>>

\* Grants that have ended are listed, and handled one by one: claimed if nobody has, with the
\* limits of their holder enforced in the same transaction. Another sweep may have listed it too.
ListExpired(s, u) ==
    /\ grants[s][u] # NoGrant /\ ~IsActive(grants[s][u]) /\ ~grants[s][u].handled
    /\ Begin([Tx("expiry", s) EXCEPT !.who = {u}])
    /\ UNCHANGED <<now, remote, events, sub, members, grants, redeemed, enforced, reminders, raced, missed>>
ClaimExpired(t, another) ==
    /\ t.kind = "expiry"
    /\ txs' = IF another THEN txs ELSE txs \ {t}
    /\ \E u \in t.who :
         IF grants[t.sub][u].handled THEN UNCHANGED <<grants, enforced, missed>>
         ELSE /\ grants' = [grants EXCEPT ![t.sub][u].handled = TRUE]
              /\ missed' = IF IsActive(grants[t.sub][u]) THEN missed \cup {u} ELSE missed
              /\ Enforce({u}, grants')
    /\ UNCHANGED <<now, remote, events, sub, members, redeemed, reminders, raced>>

----------------------------------------------------------------------------
Next ==
    \/ Tick
    \/ \E s \in Subs :
         \/ Pay(s) \/ Renew(s) \/ PaymentFails(s) \/ Pause(s) \/ End(s)
         \/ Remind(s) \/ BeginCheckout(s)
         \/ \E e \in 0..MaxChanges : BeginSync(s, e)
         \/ \E kind \in {"cancel", "change"} : BeginManaging(s, kind)
    \/ \E t \in txs :
         \/ CommitCheckout(t) \/ ReadRow(t) \/ CommitSync(t) \/ CallCancel(t) \/ CommitCancel(t)
         \/ CommitChange(t) \/ CommitTeam(t) \/ Fails(t)
         \/ \E q \in 1..MaxSeats : CallChange(t, q)
         \/ \E another \in BOOLEAN : ClaimExpired(t, another)
    \/ \E who \in SUBSET Users : BeginTeam(who)
    \/ \E u \in Students : StartTrial(u)
    \/ \E u \in Users, s \in Subs \cup {Trial} : ListExpired(s, u)

Spec == Init /\ [][Next]_vars

----------------------------------------------------------------------------
(* Properties *)

\* Once every event is answered, our copy of a subscription is the provider's, whatever was lost,
\* delivered twice, overtaken or rolled back, and whatever is still under way (sync.ts:45-53).
AnsweredIsApplied ==
    \A s \in Subs :
        events = {} /\ remote[s].changes > 0 =>
            /\ sub[s].status = remote[s].status /\ sub[s].quantity = remote[s].quantity
            /\ sub[s].periodEnd = remote[s].periodEnd

\* What a subscription grants follows from its row and the members, unless a membership change
\* read the row of another moment, or of a newer subscription (sync.ts:42, 320).
GrantsFollowUnlessRaced ==
    \A s \in Subs \ raced, u \in Users :
        IF u \in Seated(sub[s], members) /\ ValidUntil(sub[s]) > now
        THEN grants[s][u].until = ValidUntil(sub[s])
        ELSE ~IsActive(grants[s][u])

\* A coupon is counted once for each subscription that was paid for (sync.ts:379).
CouponsCountOnce == redeemed = Cardinality({s \in Subs : sub[s].counted})

\* A failure episode has one grace period: later failures never extend it (derive.ts:148).
GraceIsNeverExtended ==
    [][\A s \in Subs : sub[s].grace # Never /\ sub'[s].grace # Never => sub'[s].grace = sub[s].grace]_vars

\* A failure episode has one reminder, however often it is synced and swept (service.ts:531).
RemindedOnce == \A s \in Subs : reminders[s] <= 1

\* The boards of a person are in line with the person's plan, unless a grant has ended that the
\* sweep is still to handle: whatever gives or takes a plan enforces it. The exception is a grant
\* that was renewed after the sweep listed it: it is marked as handled before it ends again.
LimitsFollowPlanUnlessMissed ==
    \A u \in Users \ missed :
        \/ enforced[u] = PlanOf(u, grants)
        \/ \E s \in Subs \cup {Trial} : grants[s][u] # NoGrant /\ ~IsActive(grants[s][u]) /\ ~grants[s][u].handled
=============================================================================
