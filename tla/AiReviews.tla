----------------------------- MODULE AiReviews -----------------------------
(***************************************************************************)
(* AI reviews and the monthly allowance they take from: the reservation,   *)
(* the call to the model, what is stored of it, and what is said when one  *)
(* of these fails.  An allowance is a person's own or a team's.            *)
(*   apps/server/src/api/reviews.ts (POST /boards/:id/reviews),            *)
(*   ai/entitlements.ts, ai/usage.ts, ai/reviewer.ts                       *)
(* One month; who is in the team does not change during it.                *)
(***************************************************************************)
EXTENDS Integers, FiniteSets

CONSTANTS Requests,     \* reviews that may be asked for
          By, On,       \* who asks for each, and the board it is about
          Unstored,     \* those of private boards that are not to be kept
          Interviewed,  \* those asked for during an interview of the board
          Team,         \* people whose allowance is pooled
          Allowance,    \* reviews per month of each allowance
          Lapse,        \* how long a reservation counts (RUNNING_RESERVATION_MINUTES)
          MaxTime,      \* the clock, in the same unit
          MaxFailures   \* reviews that the database or an instance fails

\* The allowance a person's reviews count toward, which is also what the advisory lock is taken on.
PoolOf(u) == IF u \in Team THEN "team" ELSE u
Pool(r) == PoolOf(By[r])
Pools == {Pool(r) : r \in Requests}

ASSUME AiReviewsAssumption ==
    /\ IsFiniteSet(Requests)
    /\ Interviewed \subseteq Requests \ Unstored
    /\ Allowance \in [Pools -> Nat]
    /\ Lapse \in Nat

VARIABLES now,       \* the clock
          at,        \* where each request is
          since,     \* when the transaction that reserves began: created_at of the row
          row,       \* the rows of reviews
          outcome,   \* how each call to the model ended
          usage,     \* reviews with a row in ai_usage that the transaction wrote
          again,     \* reviews with a row in ai_usage that the catch block wrote
          told,      \* what the requester was told last
          purged,    \* boards deleted for good
          outside,   \* those still to be read back whose requester is no interviewer or observer now
          failed,    \* reviews that met a failure
          lapsed,    \* history: reviews whose reservation ran out, or was purged, before they ended
          withheld   \* history: completed reviews that were not shown to who had asked for them

sideVars == <<outside, withheld>>
vars == <<now, at, since, row, outcome, usage, again, told, purged, failed, lapsed, sideVars>>

Outcomes == {"ok", "aborted", "error", "thrown"}

Init ==
    /\ now = 0
    /\ at = [r \in Requests |-> "idle"]
    /\ since = [r \in Requests |-> 0]
    /\ row = [r \in Requests |-> "none"]
    /\ outcome = [r \in Requests |-> "none"]
    /\ told = [r \in Requests |-> "nothing"]
    /\ usage = {} /\ again = {} /\ purged = {} /\ failed = {} /\ lapsed = {}
    /\ outside = {} /\ withheld = {}

-----------------------------------------------------------------------------
(* The allowance. *)

\* Outcomes that take from the allowance; every other one is free.
\* Mutant: everything the model was asked for counts, refusals and errors too.
EveryCall(o) == o # "none"
Counts(o) == o \in {"ok", "aborted"}
In(k) == {r \in Requests : Pool(r) = k}
Counted(rows, k) == {r \in rows \cap In(k) : Counts(outcome[r])}
Reserved(k, t) == {r \in In(k) : row[r] = "running" /\ since[r] + Lapse > t}

\* The reviews that count as a transaction that began at t sees them.
ReviewsUsed(k, t) ==
    Cardinality(Counted(usage, k)) + Cardinality(Counted(again, k)) + Cardinality(Reserved(k, t))

\* Mutant: teammates each take the lock on their own name.
PersonIsFree(r) == \A o \in Requests : at[o] = "allowed" => By[o] # By[r]
KeyIsFree(r) == \A o \in Requests : at[o] = "allowed" => Pool(o) # Pool(r)

-----------------------------------------------------------------------------
(* POST /boards/:id/reviews, one step for each statement or call it waits for. *)

\* The checks before the reservation change nothing and only refuse; a refused request never was.
Ask(r) ==
    /\ at[r] = "idle" /\ On[r] \notin purged
    /\ at' = [at EXCEPT ![r] = "waiting"]
    /\ since' = [since EXCEPT ![r] = now]
    /\ UNCHANGED <<now, row, outcome, usage, again, told, purged, failed, lapsed, sideVars>>

\* The advisory lock is held from here to the end of the transaction.
Count(r) ==
    /\ at[r] = "waiting" /\ KeyIsFree(r)
    /\ at' = [at EXCEPT ![r] = IF ReviewsUsed(Pool(r), since[r]) < Allowance[Pool(r)]
                               THEN "allowed" ELSE "over"]
    /\ lapsed' = IF since[r] + Lapse <= now THEN lapsed \cup {r} ELSE lapsed
    /\ UNCHANGED <<now, since, row, outcome, usage, again, told, purged, failed, sideVars>>

Insert(r) ==
    /\ at[r] = "allowed"
    /\ IF On[r] \in purged
       THEN at' = [at EXCEPT ![r] = "over"] /\ UNCHANGED row
       ELSE at' = [at EXCEPT ![r] = "calling"] /\ row' = [row EXCEPT ![r] = "running"]
    /\ UNCHANGED <<now, since, outcome, usage, again, told, purged, failed, lapsed, sideVars>>

\* "aborted": the requester has gone.  "error" stands for a refusal and unusable output as well,
\* "thrown" for an error before the model was asked.
CallEnds(r) ==
    /\ at[r] = "calling"
    /\ \E o \in Outcomes :
        /\ outcome' = [outcome EXCEPT ![r] = IF o = "thrown" THEN "none" ELSE o]
        /\ at' = [at EXCEPT ![r] = IF o = "thrown" THEN "clearing" ELSE "answered"]
    /\ UNCHANGED <<now, since, row, usage, again, told, purged, failed, lapsed, sideVars>>

\* The row as the transaction leaves it; a purge may have taken it away.
Settled(r) ==
    IF row[r] = "none" \/ r \in Unstored THEN "none"
    ELSE IF outcome[r] = "ok" THEN "completed" ELSE "failed"

SaveCommits(r) ==
    /\ usage' = usage \cup {r}
    /\ row' = [row EXCEPT ![r] = Settled(r)]

Save(r) ==
    /\ at[r] = "answered"
    /\ SaveCommits(r)
    /\ at' = [at EXCEPT ![r] = "saved"]
    /\ UNCHANGED <<now, since, outcome, again, told, purged, failed, lapsed, sideVars>>

\* Something fails for a review: what failed before may go on failing.
Fails(r) ==
    /\ Cardinality(failed \cup {r}) <= MaxFailures
    /\ failed' = failed \cup {r}

\* The transaction throws: rolled back, or committed and only its answer lost.
SaveFails(r) ==
    /\ at[r] = "answered" /\ Fails(r)
    /\ UNCHANGED <<usage, row>> \/ SaveCommits(r)
    /\ at' = [at EXCEPT ![r] = "caught"]
    /\ UNCHANGED <<now, since, outcome, again, told, purged, lapsed, sideVars>>

\* recordUsage outside the transaction; its failure is only logged.
RecordAgain(r) ==
    /\ at[r] = "caught"
    /\ \/ again' = again \cup {r} /\ UNCHANGED failed
       \/ Fails(r) /\ UNCHANGED again
    /\ at' = [at EXCEPT ![r] = "clearing"]
    /\ UNCHANGED <<now, since, row, outcome, usage, told, purged, lapsed, sideVars>>

\* loadReviewRecord finds the row, and its visibleTo lets the requester see it; what is not stored
\* is put together from what is at hand.
IsReadBack(r) == r \in Unstored \/ (row[r] # "none" /\ r \notin outside)

\* The completed review is read back to be sent.  It is not found when the board was purged or the
\* requester was taken out of the interview, and the read may fail: each throws.
Tell(r) ==
    /\ at[r] = "saved" /\ outside' = outside \ {r}
    /\ \/ /\ outcome[r] = "ok" /\ IsReadBack(r)
          /\ told' = [told EXCEPT ![r] = "done"] /\ at' = [at EXCEPT ![r] = "over"]
          /\ UNCHANGED <<failed, withheld>>
       \/ /\ outcome[r] = "ok" /\ ~IsReadBack(r)
          /\ at' = [at EXCEPT ![r] = "clearing"]
          /\ withheld' = IF row[r] = "none" THEN withheld ELSE withheld \cup {r}
          /\ UNCHANGED <<told, failed>>
       \/ /\ outcome[r] = "ok" /\ Fails(r)
          /\ at' = [at EXCEPT ![r] = "clearing"] /\ UNCHANGED <<told, withheld>>
       \/ /\ outcome[r] # "ok"
          /\ told' = [told EXCEPT ![r] = IF outcome[r] = "aborted" THEN @ ELSE "free"]
          /\ at' = [at EXCEPT ![r] = "over"] /\ UNCHANGED <<failed, withheld>>
    /\ UNCHANGED <<now, since, row, outcome, usage, again, purged, lapsed>>

\* Mutant: the reservation of a review that ended badly is left to run out.
LeaveRow(r) == row[r]
Cleared(r) ==
    IF r \in Unstored THEN "none" ELSE IF row[r] = "running" THEN "failed" ELSE row[r]

\* The end of the catch block: the row may not stay a reservation, and the requester is told
\* that the review did not count.
Clear(r) ==
    /\ at[r] = "clearing"
    /\ \/ row' = [row EXCEPT ![r] = Cleared(r)] /\ UNCHANGED failed
       \/ Fails(r) /\ UNCHANGED row
    /\ told' = [told EXCEPT ![r] = IF outcome[r] = "aborted" THEN @ ELSE "free"]
    /\ at' = [at EXCEPT ![r] = "over"]
    /\ UNCHANGED <<now, since, outcome, usage, again, purged, lapsed, sideVars>>

-----------------------------------------------------------------------------
(* What happens to it from outside. *)

\* The instance dies, or the reserving transaction fails.
Crash(r) ==
    /\ at[r] \notin {"idle", "over"} /\ Fails(r)
    /\ at' = [at EXCEPT ![r] = "over"]
    /\ UNCHANGED <<now, since, row, outcome, usage, again, told, purged, lapsed, sideVars>>

Tick ==
    /\ now < MaxTime
    /\ now' = now + 1
    /\ lapsed' = lapsed \cup
           {r \in Requests : (row[r] = "running" \/ at[r] = "allowed") /\ since[r] + Lapse <= now'}
    /\ UNCHANGED <<at, since, row, outcome, usage, again, told, purged, failed, sideVars>>

\* Deleting a board for good deletes its reviews; ai_usage refers to nothing.
Purge(b) ==
    /\ b \notin purged
    /\ purged' = purged \cup {b}
    /\ row' = [r \in Requests |-> IF On[r] = b THEN "none" ELSE row[r]]
    /\ lapsed' = lapsed \cup {r \in Requests : On[r] = b /\ row[r] = "running"}
    /\ UNCHANGED <<now, at, since, outcome, usage, again, told, failed, sideVars>>

\* Another list of participants for the interview of a board: who may see the reviews that are
\* completed and still to be read back.  (Nothing else depends on the list once the review is
\* reserved, so one that comes before the call has ended is as good as one that comes then.)
ReplaceParticipants(b) ==
    /\ \E gone \in SUBSET {By[r] : r \in Interviewed} :
        outside' = {r \in outside : On[r] # b} \cup
            {r \in Interviewed : /\ On[r] = b /\ By[r] \in gone
                                 /\ at[r] \in {"answered", "saved"} /\ outcome[r] = "ok"}
    /\ UNCHANGED <<now, at, since, row, outcome, usage, again, told, purged, failed, lapsed, withheld>>

Step(r) ==
    \/ Ask(r) \/ Count(r) \/ Insert(r) \/ CallEnds(r) \/ Save(r) \/ SaveFails(r)
    \/ RecordAgain(r) \/ Tell(r) \/ Clear(r) \/ Crash(r)

Next ==
    \/ \E r \in Requests : Step(r)
    \/ Tick
    \/ \E r \in Requests : Purge(On[r])
    \/ \E r \in Interviewed : ReplaceParticipants(On[r])

Spec == Init /\ [][Next]_vars

-----------------------------------------------------------------------------
(* Properties *)

Took(k) == Counted(usage \cup again, k)

\* No more reviews are counted than the allowance has, a team's included, whoever asks when and
\* whatever fails: the count sees a review from its reservation on, with no gap until its usage
\* is recorded (ai/entitlements.ts, reserveReview; "Usage and status change together").  But a
\* review that outlives its reservation, or whose board is purged under it, can be one too many.
QuotaHoldsUnlessLapsed == \A k \in Pools : Cardinality(Took(k) \ lapsed) <= Allowance[k]

\* When nothing failed, a review that is over and its requester tell the same story: no row still
\* reserves, nothing of an unstored one is left, "completed" means delivered and counted, and
\* what was said not to count does not ("None of these count toward the quota").  But somebody who
\* is no participant of the interview any more when the completed review is read back (reviews.ts:
\* 128) is told that it did not count, and it did: then it is kept for those who still are.
OneStoryUnlessFailedOrWithheld ==
    \A r \in Requests : at[r] = "over" /\ r \notin failed /\ On[r] \notin purged =>
        /\ row[r] # "running"
        /\ r \in Unstored => row[r] = "none"
        /\ r \notin Unstored /\ r \in Counted(usage, Pool(r)) => row[r] = IF outcome[r] = "ok" THEN "completed" ELSE "failed"
        /\ told[r] = "done" \/ r \in withheld <=> r \in Counted(usage, Pool(r)) /\ outcome[r] = "ok"
        /\ row[r] = "completed" => told[r] = "done" \/ r \in withheld
        /\ told[r] = "free" /\ r \notin withheld => r \notin Took(Pool(r))
=============================================================================
