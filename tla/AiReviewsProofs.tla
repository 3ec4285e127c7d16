-------------------------- MODULE AiReviewsProofs --------------------------
(* No allowance is overdrawn, for any number of reviews, people and boards,  *)
(* however long a reservation counts and whatever fails.                     *)
EXTENDS AiReviews, FiniteSetTheorems, TLAPS

\* Reviews that hold a part of the allowance k: one that was let in and is not inserted yet, a
\* reservation, and what was recorded as used.
Holds(k) ==
    {r \in In(k) \ lapsed : \/ at[r] = "allowed" \/ row[r] = "running"
                            \/ r \in usage \cup again /\ Counts(outcome[r])}

AiTypeOK ==
    /\ now \in Nat /\ since \in [Requests -> Nat]
    /\ at \in [Requests -> {"idle", "waiting", "allowed", "calling", "answered", "saved", "caught",
                            "clearing", "over"}]
    /\ row \in [Requests -> {"none", "running", "completed", "failed"}]
    /\ outcome \in [Requests -> Outcomes \cup {"none"}]
    /\ usage \subseteq Requests /\ again \subseteq Requests /\ lapsed \subseteq Requests

\* A review under way holds its part until it ends, as long as its reservation does not lapse.
KeepsItsPart(r) ==
    /\ at[r] \in {"idle", "waiting", "allowed"} => row[r] = "none"
    /\ at[r] \in {"calling", "answered"} => row[r] = "running"
    /\ at[r] = "caught" => row[r] = "running" \/ r \in usage

\* What was let in or reserves and has not lapsed is seen by every transaction that began by now.
IsSeen(r) == at[r] = "allowed" \/ row[r] = "running" => since[r] + Lapse > now

ReservationsOK ==
    \A r \in Requests :
        /\ since[r] <= now
        /\ at[r] \in {"idle", "waiting", "allowed"} => row[r] = "none"
        /\ r \notin lapsed => KeepsItsPart(r) /\ IsSeen(r)

IInv ==
    /\ AiTypeOK /\ ReservationsOK
    /\ \A k \in Pools : Cardinality(Holds(k)) <= Allowance[k]

-----------------------------------------------------------------------------
\* Any set of reviews is finite and has a size.
LEMMA ReviewsAreFinite ==
    ASSUME NEW S \in SUBSET Requests
    PROVE  IsFiniteSet(S) /\ Cardinality(S) \in Nat
  BY AiReviewsAssumption, FS_Subset, FS_CardinalityType

\* A part of a set of reviews is no larger.
LEMMA NoLarger ==
    ASSUME NEW S \in SUBSET Requests, NEW T \in SUBSET S
    PROVE  Cardinality(T) <= Cardinality(S)
  BY ReviewsAreFinite, FS_Subset

\* While nobody else is between the count and the insert, the transaction's count sees all
\* that holds a part of the allowance.
LEMMA CountSeesAll ==
    ASSUME IInv, NEW r \in Requests, at[r] = "waiting", KeyIsFree(r)
    PROVE  Cardinality(Holds(Pool(r))) <= ReviewsUsed(Pool(r), since[r])
<1> DEFINE k == Pool(r)
           a == Counted(usage, k)
           b == Counted(again, k)
           c == Reserved(k, since[r])
<1>1. a \in SUBSET Requests /\ b \in SUBSET Requests /\ c \in SUBSET Requests
  BY DEF Counted, Reserved, In
<1>2. Holds(k) \in SUBSET ((a \cup b) \cup c)
  <2> SUFFICES ASSUME NEW o \in Holds(k)
               PROVE  o \in (a \cup b) \cup c
    OBVIOUS
  <2>1. o \in Requests /\ Pool(o) = k /\ o \notin lapsed
    BY DEF Holds, In
  <2>2. at[o] # "allowed"
    BY <2>1 DEF KeyIsFree
  <2>3. CASE row[o] = "running"
    <3>1. since[o] + Lapse > now /\ since[r] <= now
      BY <2>1, <2>3 DEF IInv, ReservationsOK, IsSeen
    <3>2. since[o] + Lapse > since[r]
      BY <3>1, <2>1, AiReviewsAssumption DEF IInv, AiTypeOK
    <3> QED
      BY <2>1, <2>3, <3>2 DEF Reserved, In
  <2>4. CASE o \in usage \cup again /\ Counts(outcome[o])
    BY <2>1, <2>4 DEF Counted, In
  <2> QED
    BY <2>2, <2>3, <2>4 DEF Holds
<1>3. Cardinality(Holds(k)) <= Cardinality((a \cup b) \cup c)
  BY <1>1, <1>2, NoLarger
<1>4. Cardinality(a \cup b) <= Cardinality(a) + Cardinality(b)
  <2>1. /\ IsFiniteSet(a) /\ IsFiniteSet(b)
        /\ Cardinality(a) \in Nat /\ Cardinality(b) \in Nat /\ Cardinality(a \cap b) \in Nat
    BY <1>1, ReviewsAreFinite
  <2>2. Cardinality(a \cup b) = Cardinality(a) + Cardinality(b) - Cardinality(a \cap b)
    BY <2>1, FS_Union
  <2> QED
    BY <2>1, <2>2
<1>5. Cardinality((a \cup b) \cup c) <= Cardinality(a \cup b) + Cardinality(c)
  <2>1. /\ IsFiniteSet(a \cup b) /\ IsFiniteSet(c)
        /\ Cardinality(a \cup b) \in Nat /\ Cardinality(c) \in Nat
        /\ Cardinality((a \cup b) \cap c) \in Nat
    BY <1>1, ReviewsAreFinite
  <2>2. Cardinality((a \cup b) \cup c)
          = Cardinality(a \cup b) + Cardinality(c) - Cardinality((a \cup b) \cap c)
    BY <2>1, FS_Union
  <2> QED
    BY <2>1, <2>2
<1>6. /\ Cardinality(a) \in Nat /\ Cardinality(b) \in Nat /\ Cardinality(c) \in Nat
      /\ Cardinality(a \cup b) \in Nat /\ Cardinality((a \cup b) \cup c) \in Nat
      /\ Cardinality(Holds(k)) \in Nat
  <2>1. Holds(k) \in SUBSET Requests
    BY DEF Holds, In
  <2> QED
    BY <1>1, <2>1, ReviewsAreFinite
<1>7. ReviewsUsed(k, since[r]) = Cardinality(a) + Cardinality(b) + Cardinality(c)
  BY DEF ReviewsUsed
<1> HIDE DEF k, a, b, c
<1>8. Cardinality(Holds(k)) <= ReviewsUsed(k, since[r])
  BY <1>3, <1>4, <1>5, <1>6, <1>7
<1> QED
  BY <1>8 DEF k

-----------------------------------------------------------------------------
(* One step keeps the invariant. *)

\* A step in which nobody is let in takes nothing more from any allowance.
NobodyLetIn == \A k \in Pools : Holds(k)' \in SUBSET Holds(k)

LEMMA StillFits ==
    ASSUME IInv, NobodyLetIn
    PROVE  \A k \in Pools : Cardinality(Holds(k)') <= Allowance[k]
<1> SUFFICES ASSUME NEW k \in Pools
             PROVE  Cardinality(Holds(k)') <= Allowance[k]
  OBVIOUS
<1>1. Holds(k) \in SUBSET Requests /\ Holds(k)' \in SUBSET Holds(k)
  BY DEF Holds, In, NobodyLetIn
<1>2. Cardinality(Holds(k)') <= Cardinality(Holds(k)) /\ Holds(k)' \in SUBSET Requests
  BY <1>1, NoLarger
<1>3. Cardinality(Holds(k)') \in Nat /\ Cardinality(Holds(k)) \in Nat /\ Allowance[k] \in Nat
  BY <1>1, <1>2, ReviewsAreFinite, AiReviewsAssumption
<1> QED
  BY <1>2, <1>3 DEF IInv

\* The step that lets a review in does so while there is room for it.
LEMMA LetInFits ==
    ASSUME IInv, NEW r \in Requests, Count(r)
    PROVE  \A k \in Pools : Cardinality(Holds(k)') <= Allowance[k]
<1> SUFFICES ASSUME NEW k \in Pools
             PROVE  Cardinality(Holds(k)') <= Allowance[k]
  OBVIOUS
<1>1. Holds(k) \in SUBSET Requests /\ r \in Requests
  BY DEF Holds, In
<1>2. CASE k = Pool(r) /\ ReviewsUsed(Pool(r), since[r]) < Allowance[Pool(r)]
  <2>1. Holds(k)' \in SUBSET (Holds(k) \cup {r})
    BY DEF Count, Holds, In, IInv, AiTypeOK, Counts
  <2>2. Cardinality(Holds(k)') <= Cardinality(Holds(k) \cup {r})
    BY <1>1, <2>1, NoLarger
  <2>3. Cardinality(Holds(k) \cup {r}) <= Cardinality(Holds(k)) + 1
    <3>1. IsFiniteSet(Holds(k)) /\ Cardinality(Holds(k)) \in Nat
      BY <1>1, ReviewsAreFinite
    <3>2. Cardinality(Holds(k) \cup {r})
            = IF r \in Holds(k) THEN Cardinality(Holds(k)) ELSE Cardinality(Holds(k)) + 1
      BY <3>1, FS_AddElement
    <3> QED
      BY <3>1, <3>2
  <2>4. Cardinality(Holds(k)) < Allowance[k]
    <3>1. Cardinality(Holds(k)) <= ReviewsUsed(k, since[r])
      BY <1>2, CountSeesAll DEF Count
    <3>2. /\ Counted(usage, k) \in SUBSET Requests /\ Counted(again, k) \in SUBSET Requests
          /\ Reserved(k, since[r]) \in SUBSET Requests
      BY DEF Counted, Reserved, In
    <3>3. ReviewsUsed(k, since[r]) \in Nat
      BY <3>2, ReviewsAreFinite DEF ReviewsUsed
    <3>4. Cardinality(Holds(k)) \in Nat /\ Allowance[k] \in Nat
      BY <1>1, ReviewsAreFinite, AiReviewsAssumption
    <3> QED
      BY <1>2, <3>1, <3>3, <3>4
  <2>5. /\ Cardinality(Holds(k)) \in Nat /\ Cardinality(Holds(k)') \in Nat
        /\ Cardinality(Holds(k) \cup {r}) \in Nat /\ Allowance[k] \in Nat
    <3>1. Holds(k) \cup {r} \in SUBSET Requests /\ Holds(k)' \in SUBSET Requests
      BY <1>1, <2>1
    <3> QED
      BY <1>1, <3>1, ReviewsAreFinite, AiReviewsAssumption
  <2> QED
    BY <2>2, <2>3, <2>4, <2>5
<1>3. CASE ~(k = Pool(r) /\ ReviewsUsed(Pool(r), since[r]) < Allowance[Pool(r)])
  <2>1. Holds(k)' \in SUBSET Holds(k)
    BY <1>3 DEF Count, Holds, In, IInv, AiTypeOK, Counts
  <2>2. Cardinality(Holds(k)') <= Cardinality(Holds(k)) /\ Holds(k)' \in SUBSET Requests
    BY <1>1, <2>1, NoLarger
  <2>3. Cardinality(Holds(k)') \in Nat /\ Cardinality(Holds(k)) \in Nat /\ Allowance[k] \in Nat
    BY <1>1, <2>2, ReviewsAreFinite, AiReviewsAssumption
  <2> QED
    BY <2>2, <2>3 DEF IInv
<1> QED
  BY <1>2, <1>3

\* Every other step of a request leaves what its reservation stands for in place.
LEMMA RequestStepsKeep ==
    ASSUME IInv, NEW r \in Requests, Step(r), ~Count(r)
    PROVE  AiTypeOK' /\ ReservationsOK' /\ NobodyLetIn
<1> USE DEF IInv, AiTypeOK, ReservationsOK, KeepsItsPart, IsSeen
<1>1. ASSUME Ask(r) PROVE AiTypeOK' /\ ReservationsOK' /\ NobodyLetIn
  <2>1. AiTypeOK'
    BY <1>1 DEF Ask
  <2>2. ReservationsOK'
    BY <1>1, AiReviewsAssumption DEF Ask
  <2>3. NobodyLetIn
    BY <1>1 DEF Ask, NobodyLetIn, Holds, In, Counts
  <2> QED
    BY <2>1, <2>2, <2>3
<1>2. ASSUME Insert(r) PROVE AiTypeOK' /\ ReservationsOK' /\ NobodyLetIn
  <2>1. AiTypeOK'
    BY <1>2 DEF Insert
  <2>2. ReservationsOK'
    BY <1>2, AiReviewsAssumption DEF Insert
  <2>3. NobodyLetIn
    BY <1>2 DEF Insert, NobodyLetIn, Holds, In, Counts
  <2> QED
    BY <2>1, <2>2, <2>3
<1>3. ASSUME CallEnds(r) PROVE AiTypeOK' /\ ReservationsOK' /\ NobodyLetIn
  <2>1. AiTypeOK'
    BY <1>3 DEF CallEnds, Outcomes
  <2>2. ReservationsOK'
    BY <1>3, AiReviewsAssumption DEF CallEnds, Outcomes
  <2>3. NobodyLetIn
    BY <1>3 DEF CallEnds, Outcomes, NobodyLetIn, Holds, In, Counts
  <2> QED
    BY <2>1, <2>2, <2>3
<1>4. ASSUME Save(r) PROVE AiTypeOK' /\ ReservationsOK' /\ NobodyLetIn
  <2>1. AiTypeOK'
    BY <1>4 DEF Save, SaveCommits, Settled
  <2>2. ReservationsOK'
    BY <1>4, AiReviewsAssumption DEF Save, SaveCommits, Settled
  <2>3. NobodyLetIn
    BY <1>4 DEF Save, SaveCommits, Settled, NobodyLetIn, Holds, In, Counts
  <2> QED
    BY <2>1, <2>2, <2>3
<1>5. ASSUME SaveFails(r) PROVE AiTypeOK' /\ ReservationsOK' /\ NobodyLetIn
  <2>1. AiTypeOK'
    BY <1>5 DEF SaveFails, SaveCommits, Settled, Fails
  <2>2. ReservationsOK'
    BY <1>5, AiReviewsAssumption DEF SaveFails, SaveCommits, Settled, Fails
  <2>3. NobodyLetIn
    BY <1>5 DEF SaveFails, SaveCommits, Settled, Fails, NobodyLetIn, Holds, In, Counts
  <2> QED
    BY <2>1, <2>2, <2>3
<1>6. ASSUME RecordAgain(r) PROVE AiTypeOK' /\ ReservationsOK' /\ NobodyLetIn
  <2>1. AiTypeOK'
    BY <1>6 DEF RecordAgain, Fails
  <2>2. ReservationsOK'
    BY <1>6, AiReviewsAssumption DEF RecordAgain, Fails
  <2>3. NobodyLetIn
    BY <1>6 DEF RecordAgain, Fails, NobodyLetIn, Holds, In, Counts
  <2> QED
    BY <2>1, <2>2, <2>3
<1>7. ASSUME Tell(r) PROVE AiTypeOK' /\ ReservationsOK' /\ NobodyLetIn
  <2>1. AiTypeOK'
    BY <1>7 DEF Tell, Fails
  <2>2. ReservationsOK'
    BY <1>7, AiReviewsAssumption DEF Tell, Fails
  <2>3. NobodyLetIn
    BY <1>7 DEF Tell, Fails, NobodyLetIn, Holds, In, Counts
  <2> QED
    BY <2>1, <2>2, <2>3
<1>8. ASSUME Clear(r) PROVE AiTypeOK' /\ ReservationsOK' /\ NobodyLetIn
  <2>1. AiTypeOK'
    BY <1>8 DEF Clear, Fails, Cleared
  <2>2. ReservationsOK'
    BY <1>8, AiReviewsAssumption DEF Clear, Fails, Cleared
  <2>3. NobodyLetIn
    BY <1>8 DEF Clear, Fails, Cleared, NobodyLetIn, Holds, In, Counts
  <2> QED
    BY <2>1, <2>2, <2>3
<1>9. ASSUME Crash(r) PROVE AiTypeOK' /\ ReservationsOK' /\ NobodyLetIn
  <2>1. AiTypeOK'
    BY <1>9 DEF Crash, Fails
  <2>2. ReservationsOK'
    BY <1>9, AiReviewsAssumption DEF Crash, Fails
  <2>3. NobodyLetIn
    BY <1>9 DEF Crash, Fails, NobodyLetIn, Holds, In, Counts
  <2> QED
    BY <2>1, <2>2, <2>3
<1> QED
  BY <1>1, <1>2, <1>3, <1>4, <1>5, <1>6, <1>7, <1>8, <1>9 DEF Step

\* Letting a review in keeps the types and what reservations stand for.
LEMMA CountKeeps ==
    ASSUME IInv, NEW r \in Requests, Count(r)
    PROVE  AiTypeOK' /\ ReservationsOK'
<1>1. AiTypeOK'
  BY DEF IInv, AiTypeOK, Count
<1>2. ReservationsOK'
  BY AiReviewsAssumption DEF IInv, AiTypeOK, ReservationsOK, KeepsItsPart, IsSeen, Count
<1> QED
  BY <1>1, <1>2

\* Neither the clock nor a purge touches what has not lapsed after it.
LEMMA OutsideKeeps ==
    ASSUME IInv, Tick \/ \E b : Purge(b) \/ ReplaceParticipants(b)
    PROVE  AiTypeOK' /\ ReservationsOK' /\ NobodyLetIn
<1> USE DEF IInv, AiTypeOK, ReservationsOK, KeepsItsPart, IsSeen
<1>1. ASSUME Tick PROVE AiTypeOK' /\ ReservationsOK' /\ NobodyLetIn
  <2>1. AiTypeOK'
    BY <1>1 DEF Tick
  <2>2. ReservationsOK'
    BY <1>1, AiReviewsAssumption DEF Tick
  <2>3. NobodyLetIn
    BY <1>1 DEF Tick, NobodyLetIn, Holds, In, Counts
  <2> QED
    BY <2>1, <2>2, <2>3
<1>2. ASSUME NEW b, Purge(b) PROVE AiTypeOK' /\ ReservationsOK' /\ NobodyLetIn
  <2>1. AiTypeOK'
    BY <1>2 DEF Purge
  <2>2. ReservationsOK'
    BY <1>2, AiReviewsAssumption DEF Purge
  <2>3. NobodyLetIn
    BY <1>2 DEF Purge, NobodyLetIn, Holds, In, Counts
  <2> QED
    BY <2>1, <2>2, <2>3
<1>3. ASSUME NEW b, ReplaceParticipants(b) PROVE AiTypeOK' /\ ReservationsOK' /\ NobodyLetIn
  BY <1>3 DEF ReplaceParticipants, NobodyLetIn, Holds, In, Counts
<1> QED
  BY <1>1, <1>2, <1>3

-----------------------------------------------------------------------------
\* At first nothing is held.
LEMMA InitFits == Init => IInv
<1> SUFFICES ASSUME Init PROVE IInv
  OBVIOUS
<1>1. AiTypeOK /\ ReservationsOK
  BY DEF Init, AiTypeOK, ReservationsOK, KeepsItsPart, IsSeen, Outcomes
<1>2. ASSUME NEW k \in Pools PROVE Cardinality(Holds(k)) <= Allowance[k]
  <2>1. Holds(k) = {}
    BY DEF Init, Holds, In
  <2> QED
    BY <2>1, FS_EmptySet, AiReviewsAssumption
<1> QED
  BY <1>1, <1>2 DEF IInv

LEMMA StepFits == IInv /\ [Next]_vars => IInv'
<1> SUFFICES ASSUME IInv, [Next]_vars PROVE IInv'
  OBVIOUS
<1>1. ASSUME NEW r \in Requests, Count(r) PROVE IInv'
  BY <1>1, CountKeeps, LetInFits DEF IInv
<1>2. ASSUME NEW r \in Requests, Step(r), ~Count(r) PROVE IInv'
  BY <1>2, RequestStepsKeep, StillFits DEF IInv
<1>3. ASSUME Tick \/ \E b : Purge(b) \/ ReplaceParticipants(b) PROVE IInv'
  BY <1>3, OutsideKeeps, StillFits DEF IInv
<1>4. ASSUME UNCHANGED vars PROVE IInv'
  BY <1>4 DEF vars, IInv, AiTypeOK, ReservationsOK, KeepsItsPart, IsSeen, Holds, In, Counts
<1> QED
  BY <1>1, <1>2, <1>3, <1>4 DEF Next

\* What was taken from an allowance is part of what is held of it.
LEMMA TakenIsHeld == IInv => QuotaHoldsUnlessLapsed
<1> SUFFICES ASSUME IInv, NEW k \in Pools
             PROVE  Cardinality(Took(k) \ lapsed) <= Allowance[k]
  BY DEF QuotaHoldsUnlessLapsed
<1>1. Took(k) \ lapsed \in SUBSET Holds(k) /\ Holds(k) \in SUBSET Requests
  BY DEF Took, Counted, Holds, In
<1>2. Cardinality(Took(k) \ lapsed) <= Cardinality(Holds(k))
  BY <1>1, NoLarger
<1>3. Cardinality(Took(k) \ lapsed) \in Nat /\ Cardinality(Holds(k)) \in Nat
  <2>1. Took(k) \ lapsed \in SUBSET Requests
    BY <1>1
  <2> QED
    BY <1>1, <2>1, ReviewsAreFinite
<1>4. Allowance[k] \in Nat
  BY AiReviewsAssumption
<1> QED
  BY <1>2, <1>3, <1>4 DEF IInv

\* Whoever asks when, and whatever fails: no allowance, a person's own or a team's, is overdrawn
\* by reviews whose reservation lasted until they ended (reserveReview, reviewsUsed and the
\* transaction that ends a review).
THEOREM QuotaHolds == Spec => []QuotaHoldsUnlessLapsed
<1>1. Init => IInv
  BY InitFits
<1>2. IInv /\ [Next]_vars => IInv'
  BY StepFits
<1>3. IInv => QuotaHoldsUnlessLapsed
  BY TakenIsHeld
<1> QED
  BY <1>1, <1>2, <1>3, PTL DEF Spec
-----------------------------------------------------------------------------
(* A review that meets no failure, on a board that is there, and what is said of it. *)

Untouched(r) == outcome[r] = "none" /\ r \notin usage \cup again
Answered(r) == outcome[r] \in Outcomes \ {"thrown"} /\ r \notin again
Recorded(r) ==
    /\ Answered(r) /\ r \in usage
    /\ row[r] = IF r \in Unstored THEN "none" ELSE IF outcome[r] = "ok" THEN "completed" ELSE "failed"

\* What is known of a review at each of its steps.
Story(r) ==
    /\ at[r] # "caught"
    /\ at[r] # "over" => told[r] = "nothing"
    /\ at[r] \in {"idle", "waiting", "allowed"} => row[r] = "none" /\ Untouched(r)
    /\ at[r] = "calling" \/ (at[r] = "clearing" /\ r \notin withheld) => row[r] = "running" /\ Untouched(r)
    /\ at[r] = "answered" => row[r] = "running" /\ Answered(r) /\ r \notin usage
    /\ at[r] = "saved" => Recorded(r)
    /\ r \in withheld =>
         /\ at[r] \in {"clearing", "over"} /\ Recorded(r)
         /\ outcome[r] = "ok" /\ r \notin Unstored /\ (at[r] = "over" => told[r] = "free")
    /\ at[r] = "over" /\ r \notin withheld =>
         \/ /\ Untouched(r) /\ told[r] # "done"
            /\ row[r] = "none" \/ (row[r] = "failed" /\ r \notin Unstored)
         \/ /\ Recorded(r)
            /\ told[r] = CASE outcome[r] = "ok" -> "done"
                           [] outcome[r] = "aborted" -> "nothing"
                           [] OTHER -> "free"

StoryTypes ==
    /\ at \in [Requests -> {"idle", "waiting", "allowed", "calling", "answered", "saved", "caught",
                            "clearing", "over"}]
    /\ row \in [Requests -> {"none", "running", "completed", "failed"}]
    /\ outcome \in [Requests -> Outcomes \cup {"none"}]
    /\ told \in [Requests -> {"nothing", "done", "free"}]

StoryInv ==
    /\ StoryTypes
    /\ \A r \in Requests : r \notin failed /\ On[r] \notin purged => Story(r)

LEMMA StepTypes ==
    ASSUME StoryTypes, NEW r \in Requests, Step(r)
    PROVE  StoryTypes'
<1> USE DEF StoryTypes, Outcomes
<1>1. CASE Ask(r) BY <1>1 DEF Ask
<1>2. CASE Count(r) BY <1>2 DEF Count
<1>3. CASE Insert(r) BY <1>3 DEF Insert
<1>4. CASE CallEnds(r) BY <1>4 DEF CallEnds
<1>5. CASE Save(r) BY <1>5 DEF Save, SaveCommits, Settled
<1>6. CASE SaveFails(r) BY <1>6 DEF SaveFails, SaveCommits, Settled
<1>7. CASE RecordAgain(r) BY <1>7 DEF RecordAgain
<1>8. CASE Tell(r) BY <1>8 DEF Tell
<1>9. CASE Clear(r) BY <1>9 DEF Clear, Cleared
<1>10. CASE Crash(r) BY <1>10 DEF Crash
<1> QED
  BY <1>1, <1>2, <1>3, <1>4, <1>5, <1>6, <1>7, <1>8, <1>9, <1>10 DEF Step

\* A step of one review does not touch another.
LEMMA OthersKeepTheirStory ==
    ASSUME StoryTypes, NEW r \in Requests, Step(r), NEW o \in Requests, o # r, Story(o)
    PROVE  Story(o)'
<1>1. /\ at'[o] = at[o] /\ row'[o] = row[o] /\ outcome'[o] = outcome[o] /\ told'[o] = told[o]
      /\ o \in usage' <=> o \in usage
      /\ o \in again' <=> o \in again
      /\ o \in withheld' <=> o \in withheld
  <2> USE DEF StoryTypes, sideVars
  <2>1. CASE Ask(r) BY <2>1 DEF Ask
  <2>2. CASE Count(r) BY <2>2 DEF Count
  <2>3. CASE Insert(r) BY <2>3 DEF Insert
  <2>4. CASE CallEnds(r) BY <2>4 DEF CallEnds
  <2>5. CASE Save(r) BY <2>5 DEF Save, SaveCommits
  <2>6. CASE SaveFails(r) BY <2>6 DEF SaveFails, SaveCommits
  <2>7. CASE RecordAgain(r) BY <2>7 DEF RecordAgain
  <2>8. CASE Tell(r) BY <2>8 DEF Tell
  <2>9. CASE Clear(r) BY <2>9 DEF Clear
  <2>10. CASE Crash(r) BY <2>10 DEF Crash
  <2> QED
    BY <2>1, <2>2, <2>3, <2>4, <2>5, <2>6, <2>7, <2>8, <2>9, <2>10 DEF Step
<1> QED
  BY <1>1 DEF Story, Untouched, Answered, Recorded

\* A step that does not fail leads from each part of the story to the next.
LEMMA StoryGoesOn ==
    ASSUME StoryTypes, NEW r \in Requests, Step(r), Story(r), r \notin failed', On[r] \notin purged
    PROVE  Story(r)'
<1> USE DEF StoryTypes, Story, Untouched, Answered, Recorded, Outcomes, sideVars
<1>1. CASE Ask(r) BY <1>1 DEF Ask
<1>2. CASE Count(r)
  <2>1. at[r] = "waiting" /\ at'[r] \in {"allowed", "over"}
    BY <1>2 DEF Count
  <2>2. UNCHANGED <<row, outcome, usage, again, told, withheld>>
    BY <1>2 DEF Count
  <2> QED
    BY <2>1, <2>2
<1>3. CASE Insert(r) BY <1>3 DEF Insert
<1>4. CASE CallEnds(r) BY <1>4 DEF CallEnds
<1>5. CASE Save(r) BY <1>5 DEF Save, SaveCommits, Settled
<1>6. CASE SaveFails(r) BY <1>6 DEF SaveFails, Fails
<1>7. CASE RecordAgain(r) BY <1>7 DEF RecordAgain
<1>8. CASE Tell(r)
  <2>1. at[r] = "saved" /\ Recorded(r) /\ r \notin withheld
    BY <1>8 DEF Tell
  <2>2. UNCHANGED <<row, outcome, usage, again>>
    BY <1>8 DEF Tell
  <2>3. CASE outcome[r] = "ok" /\ ~IsReadBack(r)
    BY <1>8, <2>1, <2>2, <2>3 DEF Tell, IsReadBack, Fails
  <2>4. CASE ~(outcome[r] = "ok" /\ ~IsReadBack(r))
    BY <1>8, <2>1, <2>2, <2>4 DEF Tell, Fails
  <2> QED
    BY <2>3, <2>4
<1>9. CASE Clear(r)
  <2>1. at[r] = "clearing" /\ at'[r] = "over" /\ UNCHANGED <<outcome, usage, again, withheld>>
    BY <1>9 DEF Clear
  <2>2. row'[r] = IF r \in Unstored THEN "none" ELSE IF row[r] = "running" THEN "failed" ELSE row[r]
    BY <1>9, <2>1 DEF Clear, Cleared, Fails
  <2>3. told'[r] = "free"
    BY <1>9, <2>1 DEF Clear
  <2>4. CASE r \in withheld BY <2>1, <2>2, <2>3, <2>4
  <2>5. CASE r \notin withheld BY <2>1, <2>2, <2>3, <2>5
  <2> QED
    BY <2>4, <2>5
<1>10. CASE Crash(r) BY <1>10 DEF Crash, Fails
<1> QED
  BY <1>1, <1>2, <1>3, <1>4, <1>5, <1>6, <1>7, <1>8, <1>9, <1>10 DEF Step

\* What has failed, and what was purged, stays so.
LEMMA StepOnlyAdds ==
    ASSUME NEW r \in Requests, Step(r)
    PROVE  failed \subseteq failed' /\ purged' = purged
  BY DEF Step, Ask, Count, Insert, CallEnds, Save, SaveFails, RecordAgain, Tell, Clear, Crash, Fails

LEMMA StepKeepsStories == StoryInv /\ [Next]_vars => StoryInv'
<1> SUFFICES ASSUME StoryInv, [Next]_vars PROVE StoryInv'
  OBVIOUS
<1>1. ASSUME NEW r \in Requests, Step(r) PROVE StoryInv'
  <2>1. StoryTypes'
    BY <1>1, StepTypes DEF StoryInv
  <2>2. ASSUME NEW o \in Requests, o \notin failed', On[o] \notin purged' PROVE Story(o)'
    <3>1. o \notin failed /\ On[o] \notin purged
      BY <1>1, <2>2, StepOnlyAdds
    <3>2. CASE o = r BY <1>1, <2>2, <3>1, <3>2, StoryGoesOn DEF StoryInv
    <3>3. CASE o # r BY <1>1, <3>1, <3>3, OthersKeepTheirStory DEF StoryInv
    <3> QED
      BY <3>2, <3>3
  <2> QED
    BY <2>1, <2>2 DEF StoryInv
<1>2. ASSUME Tick PROVE StoryInv'
  BY <1>2 DEF Tick, sideVars, StoryInv, StoryTypes, Story, Untouched, Answered, Recorded
<1>3. ASSUME NEW r \in Requests, Purge(On[r]) PROVE StoryInv'
  <2>1. StoryTypes'
    BY <1>3 DEF Purge, StoryInv, StoryTypes
  <2>2. ASSUME NEW o \in Requests, o \notin failed', On[o] \notin purged' PROVE Story(o)'
    <3>1. Story(o) /\ row'[o] = row[o]
      BY <1>3, <2>2 DEF Purge, StoryInv, StoryTypes
    <3> QED
      BY <1>3, <3>1 DEF Purge, sideVars, Story, Untouched, Answered, Recorded
  <2> QED
    BY <2>1, <2>2 DEF StoryInv
<1>4. ASSUME UNCHANGED vars PROVE StoryInv'
  BY <1>4 DEF vars, sideVars, StoryInv, StoryTypes, Story, Untouched, Answered, Recorded
<1>5. ASSUME NEW b, ReplaceParticipants(b) PROVE StoryInv'
  BY <1>5 DEF ReplaceParticipants, StoryInv, StoryTypes, Story, Untouched, Answered, Recorded
<1> QED
  BY <1>1, <1>2, <1>3, <1>4, <1>5 DEF Next

\* A review that met no failure is told as it was counted and stored, whoever else asks, fails or
\* is purged meanwhile (the transaction that ends a review, and the catch block after it), unless
\* its requester may not see it any more when it is read back (visibleTo); it is kept even then.
THEOREM OneStory == Spec => []OneStoryUnlessFailedOrWithheld
<1>1. Init => StoryInv
  BY DEF Init, StoryInv, StoryTypes, Story, Untouched, Outcomes
<1>2. StoryInv /\ [Next]_vars => StoryInv'
  BY StepKeepsStories
<1>3. StoryInv => OneStoryUnlessFailedOrWithheld
  <2> SUFFICES ASSUME StoryInv, NEW r \in Requests,
                      at[r] = "over", r \notin failed, On[r] \notin purged
               PROVE  /\ row[r] # "running"
                      /\ r \in Unstored => row[r] = "none"
                      /\ r \notin Unstored /\ r \in Counted(usage, Pool(r))
                           => row[r] = IF outcome[r] = "ok" THEN "completed" ELSE "failed"
                      /\ told[r] = "done" \/ r \in withheld
                           <=> r \in Counted(usage, Pool(r)) /\ outcome[r] = "ok"
                      /\ row[r] = "completed" => told[r] = "done" \/ r \in withheld
                      /\ told[r] = "free" /\ r \notin withheld => r \notin Took(Pool(r))
    BY DEF OneStoryUnlessFailedOrWithheld
  <2>1. r \in In(Pool(r))
    BY DEF In
  <2>2. Story(r)
    BY DEF StoryInv
  <2> QED
    BY <2>1, <2>2 DEF Story, Untouched, Answered, Recorded, Counted, Took, Counts, Outcomes
<1> QED
  BY <1>1, <1>2, <1>3, PTL DEF Spec
=============================================================================
