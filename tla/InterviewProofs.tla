-------------------------- MODULE InterviewProofs --------------------------
(* For any number of people, tabs, hints and interviews: the clock and the  *)
(* hints, the read-only caps, what a tab shows and the question it fetches. *)
EXTENDS Interview, TLAPS

-----------------------------------------------------------------------------
(* Types. *)

Roles == {"none", "interviewer", "candidate", "observer"}
Kinds == {"start", "people", "pause", "resume", "extend", "reveal", "end"}
Row == [status : {"active", "ended"}, startedAt : Int, pausedAt : Int, pausedMs : Int, endedAt : Int,
        hints : SUBSET Hints, version : Nat, people : [Users -> Roles]]
Store == [iv : Nat, version : Nat, role : Roles, question : BOOLEAN, questionFor : Nat, late : BOOLEAN]
State == [iv : Nat, version : Nat, role : Roles]
Handled == [kind : Kinds, by : Users, done : {"committed", "announced"}, iv : Nat, version : Nat,
            affected : SUBSET Users]
Push == [to : SUBSET Tabs, iv : Nat, version : Nat]

\* What a request means to write.
Wants(r) ==
    /\ r.done = "nothing" /\ r.kind \in Kinds /\ r.by \in Users
    /\ r.people \in [Users -> Roles] /\ r.hints \in SUBSET Hints
    /\ r.kind \in {"start", "people"} => r.arg \in [Users -> Roles]
    /\ r.kind = "reveal" => r.arg \in Hints
    /\ r.kind # "start" => r.iv \in DOMAIN interviews

\* A version of an interview that there was.
Was(i, version) == i \in DOMAIN interviews /\ version <= interviews[i].version

Typed ==
    /\ now \in Nat /\ interviews \in Seq(Row)
    /\ joining \in SUBSET Users /\ missed \in SUBSET Users /\ capped \in [Users -> BOOLEAN]
    /\ tab \in [Tabs -> Store] /\ loads \in [Tabs -> SUBSET State]
    /\ pushes \in SUBSET Push /\ \A p \in pushes : p.iv # NoInterview => Was(p.iv, p.version)
    /\ \A r \in requests : \/ Wants(r)
                           \/ /\ r \in Handled /\ Was(r.iv, r.version)
                              /\ r.done = "announced" => r.by \in Tabs

-----------------------------------------------------------------------------
(* Operators. *)

LEMMA NewState ==
    ASSUME NEW t \in Store, NEW s \in State, NEW next, next = ApplyState(t, s)
    PROVE  /\ next \in Store
           /\ ~IsNewerState(t, s) => next = t
           /\ IsNewerState(t, s) =>
                /\ next.iv = s.iv /\ next.version = s.version /\ next.role = s.role
                /\ next.question <=> (t.question /\ t.iv = s.iv /\ s.role = "interviewer")
                /\ next.questionFor = QuestionFor(t, s)
                /\ next.late <=> (t.late /\ s.role = "interviewer" /\ t.questionFor = s.iv)
<1>1. CASE ~IsNewerState(t, s)
  BY <1>1 DEF ApplyState
<1>2. CASE IsNewerState(t, s)
  <2>1. PICK q \in BOOLEAN : q <=> (t.question /\ t.iv = s.iv /\ s.role = "interviewer")
    OBVIOUS
  <2>2. PICK l \in BOOLEAN : l <=> (t.late /\ s.role = "interviewer" /\ t.questionFor = s.iv)
    OBVIOUS
  <2>3. PICK for \in Nat : for = QuestionFor(t, s)
    BY DEF QuestionFor, NoInterview, State
  <2>4. t.question \in BOOLEAN /\ t.late \in BOOLEAN
    BY DEF Store
  <2>5. q = (t.question /\ t.iv = s.iv /\ s.role = "interviewer")
    BY <2>1, <2>4
  <2>6. l = (t.late /\ s.role = "interviewer" /\ t.questionFor = s.iv)
    BY <2>2, <2>4
  <2>7. next = [iv |-> s.iv, version |-> s.version, role |-> s.role, question |-> q, questionFor |-> for, late |-> l]
    BY <1>2, <2>3, <2>5, <2>6 DEF ApplyState
  <2> QED
    BY <1>2, <2>1, <2>2, <2>3, <2>7 DEF Store, State
<1> QED
  BY <1>1, <1>2

\* A view that a request returns, in the role of an interviewer or in another.
LEMMA NewView ==
    ASSUME NEW t \in Store, NEW view \in State, NEW next, next = ApplyView(t, view)
    PROVE  /\ next \in Store
           /\ IF IsNewerState(t, view)
              THEN next.iv = view.iv /\ next.version = view.version /\ next.role = view.role
              ELSE next.iv = t.iv /\ next.version = t.version /\ next.role = t.role
           /\ view.role = "interviewer" =>
                /\ next.questionFor = view.iv
                /\ IF next.iv = view.iv /\ next.role = "interviewer" THEN next.question ELSE next.late
           /\ view.role # "interviewer" =>
                /\ next.questionFor = IF IsNewerState(t, view) THEN NoInterview ELSE t.questionFor
                /\ ~IsNewerState(t, view) => /\ next.question <=> t.question
                                             /\ next.late <=> (t.late \/ t.role = "interviewer")
<1>1. CASE view.role # "interviewer"
  <2>1. PICK mid : mid = ApplyState(t, view)
    OBVIOUS
  <2>2. mid \in Store
    BY <2>1, NewState
  <2>3. PICK l \in BOOLEAN : l <=> (mid.late \/ mid.role = "interviewer")
    OBVIOUS
  <2>4. l = (mid.late \/ mid.role = "interviewer")
    BY <2>2, <2>3 DEF Store
  <2>5. next = [mid EXCEPT !.late = l]
    BY <1>1, <2>1, <2>4 DEF ApplyView
  <2>6. /\ next \in Store /\ next.iv = mid.iv /\ next.version = mid.version /\ next.role = mid.role
        /\ next.question = mid.question /\ next.questionFor = mid.questionFor /\ (next.late <=> l)
    BY <2>2, <2>5 DEF Store
  <2>7. QuestionFor(t, view) = NoInterview
    BY <1>1 DEF QuestionFor
  <2> QED
    BY <1>1, <2>1, <2>3, <2>6, <2>7, NewState
<1>2. CASE view.role = "interviewer"
  <2>1. PICK asked : asked = [t EXCEPT !.questionFor = view.iv]
    OBVIOUS
  <2>2. /\ asked \in Store /\ asked.questionFor = view.iv /\ asked.iv = t.iv /\ asked.version = t.version
        /\ asked.role = t.role
    BY <2>1 DEF Store, State
  <2>3. IsNewerState(asked, view) <=> IsNewerState(t, view)
    BY <2>2 DEF IsNewerState
  <2>4. PICK mid : mid = ApplyState(asked, view)
    OBVIOUS
  <2>5. mid \in Store /\ mid.questionFor = view.iv
    BY <1>2, <2>2, <2>4, NewState DEF QuestionFor
  <2>6. PICK mine \in BOOLEAN : mine = (mid.iv = view.iv /\ mid.role = "interviewer")
    OBVIOUS
  <2>7. PICK q \in BOOLEAN : q = (mid.question \/ mine)
    BY <2>5 DEF Store
  <2>8. PICK l \in BOOLEAN : l = (~mine /\ mid.questionFor = view.iv)
    OBVIOUS
  <2>9. next = [mid EXCEPT !.question = q, !.late = l]
    <3>1. next = [mid EXCEPT !.question = @ \/ (mid.iv = view.iv /\ mid.role = "interviewer"),
                             !.late = ~(mid.iv = view.iv /\ mid.role = "interviewer") /\ mid.questionFor = view.iv]
      BY <1>2, <2>1, <2>4 DEF ApplyView
    <3> QED
      BY <2>6, <2>7, <2>8, <3>1
  <2>10. /\ next \in Store /\ next.iv = mid.iv /\ next.version = mid.version /\ next.role = mid.role
         /\ next.questionFor = mid.questionFor /\ (next.question <=> q) /\ (next.late <=> l)
    BY <2>5, <2>9 DEF Store
  <2>11. IF mine THEN next.question ELSE next.late
    BY <2>5, <2>6, <2>7, <2>8, <2>10
  <2>12. IF IsNewerState(t, view)
         THEN next.iv = view.iv /\ next.version = view.version /\ next.role = view.role
         ELSE next.iv = t.iv /\ next.version = t.version /\ next.role = t.role
    BY <2>2, <2>3, <2>4, <2>10, NewState
  <2> QED
    BY <1>2, <2>5, <2>6, <2>10, <2>11, <2>12
<1> QED
  BY <1>1, <1>2

-----------------------------------------------------------------------------
(* Commits. *)

\* The request goes on, with the version it wrote.
Accepted(r, i, version) ==
    \E one \in Handled : /\ requests' = (requests \ {r}) \cup {one} /\ one.done = "committed"
                         /\ one.iv = i /\ one.version = version /\ one.affected = Affected(r)

Starts(r, one) ==
    /\ r.kind = "start" /\ Running = {} /\ interviews' = Append(interviews, one)
    /\ one.status = "active" /\ one.startedAt = now /\ one.pausedAt = Never /\ one.pausedMs = 0
    /\ one.endedAt = Never /\ one.hints = {} /\ one.version = 0 /\ one.people = r.arg
    /\ ran' = Append(ran, 0) /\ revealed' = Append(revealed, {}) /\ raced' = raced
    /\ missed' = missed \cup {u \in Users : WasCandidate(u) /\ r.arg[u] = "interviewer"}

\* What a request does to the row of its interview.
Writes(r, row, next) ==
    /\ next.version = row.version + 1 /\ next.startedAt = row.startedAt
    /\ next.status = IF r.kind = "end" THEN "ended" ELSE row.status
    /\ next.endedAt = IF r.kind = "end" THEN now ELSE row.endedAt
    /\ next.hints = IF r.kind = "reveal" THEN r.hints \cup {r.arg} ELSE row.hints
    /\ next.pausedAt = IF r.kind = "pause" THEN now ELSE IF r.kind \in {"resume", "end"} THEN Never ELSE row.pausedAt
    /\ r.kind = "resume" => row.pausedAt # Never
    /\ next.pausedMs = IF r.kind \in {"resume", "end"} /\ row.pausedAt # Never
                       THEN row.pausedMs + (now - row.pausedAt) ELSE row.pausedMs
    /\ IF r.kind = "people"
       THEN \A u \in Users : next.people[u] = r.arg[u] \/ (r.arg[u] = "none" /\ next.people[u] = row.people[u])
       ELSE next.people = row.people

Changes(r, next) ==
    /\ r.kind # "start" /\ interviews' = [interviews EXCEPT ![r.iv] = next]
    /\ Writes(r, interviews[r.iv], next) /\ Accepted(r, r.iv, next.version)
    /\ ran' = ran
    /\ revealed' = IF r.kind = "reveal" THEN [revealed EXCEPT ![r.iv] = revealed[r.iv] \cup {r.arg}] ELSE revealed
    /\ raced' = IF \/ r.kind = "pause" /\ (interviews[r.iv].status = "ended" \/ interviews[r.iv].pausedAt # Never)
                   \/ r.kind = "reveal" /\ interviews[r.iv].hints # r.hints
                   \/ r.kind = "end" /\ interviews[r.iv].status = "ended"
                THEN raced \cup {r.iv} ELSE raced
    /\ missed' = missed \cup (IF r.kind = "people" THEN Missed(r, r.people, r.arg)
                              ELSE IF r.kind = "end" THEN Missed(r, r.people, r.people) ELSE {})

Refuses(r) ==
    /\ requests' = requests \ {r} /\ UNCHANGED <<interviews, ran, revealed, raced>>
    /\ missed \subseteq missed' /\ missed' \in SUBSET Users

LEMMA AffectedOnes == \A r : Affected(r) \in SUBSET Users
  BY DEF Affected

LEMMA Acceptance ==
    ASSUME NEW r, r.kind \in Kinds, r.by \in Users, NEW i \in Nat, NEW version \in Nat, Committed(r, i, version)
    PROVE  Accepted(r, i, version)
<1>1. PICK affected \in SUBSET Users : affected = Affected(r)
  BY AffectedOnes
<1>2. PICK one : one = [kind |-> r.kind, by |-> r.by, done |-> "committed", iv |-> i, version |-> version,
                        affected |-> affected]
  OBVIOUS
<1>3. requests' = (requests \ {r}) \cup {one}
  BY <1>1, <1>2 DEF Committed
<1>4. one \in Handled /\ one.done = "committed" /\ one.iv = i /\ one.version = version /\ one.affected = affected
  BY <1>1, <1>2 DEF Handled
<1> QED
  BY <1>1, <1>3, <1>4 DEF Accepted

LEMMA Indices ==
    ASSUME Typed
    PROVE  /\ Latest \in Nat /\ DOMAIN interviews = 1..Latest
           /\ \A i \in DOMAIN interviews : i \in Nat /\ i # NoInterview /\ interviews[i] \in Row
  BY DEF Typed, Latest, NoInterview

\* The version of a row that is written is one more.
LEMMA Bumped ==
    ASSUME Typed, NEW r \in requests, Wants(r), r.kind # "start", NEW mid \in Row, Bump(r, mid)
    PROVE  \E next \in Row :
             /\ interviews' = [interviews EXCEPT ![r.iv] = next] /\ Accepted(r, r.iv, next.version)
             /\ next.version = mid.version + 1 /\ next.status = mid.status /\ next.startedAt = mid.startedAt
             /\ next.pausedAt = mid.pausedAt /\ next.pausedMs = mid.pausedMs /\ next.endedAt = mid.endedAt
             /\ next.hints = mid.hints /\ next.people = mid.people
<1>1. PICK next : next = [mid EXCEPT !.version = mid.version + 1]
  OBVIOUS
<1>2. /\ next \in Row /\ next.version = mid.version + 1
      /\ next.status = mid.status /\ next.startedAt = mid.startedAt
      /\ next.pausedAt = mid.pausedAt /\ next.pausedMs = mid.pausedMs /\ next.endedAt = mid.endedAt
      /\ next.hints = mid.hints /\ next.people = mid.people
  BY <1>1 DEF Row
<1>3. interviews' = [interviews EXCEPT ![r.iv] = next] /\ Committed(r, r.iv, next.version)
  BY <1>1, <1>2 DEF Bump
<1>4. r.iv \in Nat /\ next.version \in Nat
  BY <1>2, Indices DEF Wants, Row
<1>5. Accepted(r, r.iv, next.version)
  BY <1>3, <1>4, Acceptance DEF Wants
<1> QED
  BY <1>2, <1>3, <1>5

LEMMA MissedOnes == \A r, before, after : Missed(r, before, after) \in SUBSET Users
  BY DEF Missed

LEMMA Commits ==
    ASSUME Typed, NEW r \in requests, Commit(r)
    PROVE  /\ Wants(r) /\ UNCHANGED <<now, socketVars, tabVars>>
           /\ \/ Refuses(r)
              \/ \E one \in Row : Starts(r, one) /\ Accepted(r, Latest + 1, 0)
              \/ \E next \in Row : Changes(r, next)
<1>1. Wants(r)
  BY DEF Typed, Commit, Handled
<1>2. UNCHANGED <<now, socketVars, tabVars>>
  BY DEF Commit
<1>3. interviews \in Seq(Row) /\ Latest \in Nat
  BY Indices DEF Typed
<1> DEFINE Goal == \/ Refuses(r)
                   \/ \E one \in Row : Starts(r, one) /\ Accepted(r, Latest + 1, 0)
                   \/ \E next \in Row : Changes(r, next)
<1> SUFFICES Goal
  BY <1>1, <1>2
<1>4. CASE CommitStart(r)
  <2>1. CASE Running # {}
    BY <1>4, <2>1 DEF CommitStart, Refused, Refuses, Typed
  <2>2. CASE Running = {}
    <3>1. PICK one : one = [status |-> "active", startedAt |-> now, pausedAt |-> Never, pausedMs |-> 0,
                            endedAt |-> Never, hints |-> {}, version |-> 0, people |-> r.arg]
      OBVIOUS
    <3>2. r.kind = "start" /\ r.arg \in [Users -> Roles] /\ now \in Int /\ Never \in Int
      BY <1>1, <1>4 DEF CommitStart, Wants, Typed, Never
    <3>3. one \in Row
      BY <3>1, <3>2 DEF Row
    <3>4. Committed(r, Latest + 1, 0)
      BY <1>4, <2>2 DEF CommitStart
    <3>5. Accepted(r, Latest + 1, 0)
      <4>1. PICK i \in Nat : i = Latest + 1
        BY <1>3
      <4>2. PICK zero \in Nat : zero = 0
        OBVIOUS
      <4>3. Committed(r, i, zero) /\ r.kind \in Kinds /\ r.by \in Users
        BY <1>1, <3>4, <4>1, <4>2 DEF Wants
      <4>4. Accepted(r, i, zero)
        BY <4>3, Acceptance
      <4> QED
        BY <4>1, <4>2, <4>4
    <3>6. Starts(r, one)
      BY <1>4, <2>2, <3>1 DEF CommitStart, Starts
    <3> QED
      BY <3>3, <3>5, <3>6
  <2> QED
    BY <2>1, <2>2
<1>5. CASE r.kind # "start"
  <2>1. PICK row \in Row : row = interviews[r.iv]
    BY <1>1, <1>3, <1>5 DEF Wants
  <2>2. /\ row.people \in [Users -> Roles] /\ now \in Int /\ Never \in Int /\ row.pausedAt \in Int
        /\ row.pausedMs \in Int /\ row.hints \in SUBSET Hints
    BY DEF Row, Typed, Never
  <2>3. ASSUME CommitPeople(r) PROVE Goal
    <3>1. r.kind = "people" /\ r.arg \in [Users -> Roles]
      BY <1>1, <2>3 DEF CommitPeople, Wants
    <3>2. /\ UNCHANGED <<ran, revealed, raced>> /\ missed' = missed \cup Missed(r, r.people, r.arg)
      BY <2>3 DEF CommitPeople
    <3>3. ASSUME NEW list \in [Users -> Roles], Bump(r, [row EXCEPT !.people = list]),
                 \A u \in Users : list[u] = r.arg[u] \/ (r.arg[u] = "none" /\ list[u] = row.people[u])
          PROVE  Goal
      <4>1. PICK mid : mid = [row EXCEPT !.people = list]
        OBVIOUS
      <4>2. /\ mid \in Row /\ mid.version = row.version /\ mid.status = row.status /\ mid.startedAt = row.startedAt
            /\ mid.pausedAt = row.pausedAt /\ mid.pausedMs = row.pausedMs /\ mid.endedAt = row.endedAt
            /\ mid.hints = row.hints /\ mid.people = list
        BY <3>3, <4>1 DEF Row
      <4>3. PICK next \in Row :
             /\ interviews' = [interviews EXCEPT ![r.iv] = next] /\ Accepted(r, r.iv, next.version)
             /\ next.version = mid.version + 1 /\ next.status = mid.status /\ next.startedAt = mid.startedAt
             /\ next.pausedAt = mid.pausedAt /\ next.pausedMs = mid.pausedMs /\ next.endedAt = mid.endedAt
             /\ next.hints = mid.hints /\ next.people = mid.people
        BY <1>1, <1>5, <3>3, <4>1, <4>2, Bumped
      <4>4. Writes(r, row, next)
        BY <3>1, <3>3, <4>2, <4>3 DEF Writes
      <4>5. Changes(r, next)
        BY <2>1, <3>1, <3>2, <4>3, <4>4 DEF Changes
      <4> QED
        BY <4>5
    <3>4. ASSUME Refused(r), UNCHANGED interviews PROVE Goal
      BY <3>2, <3>4, MissedOnes DEF Refused, Refuses, Typed
    <3>5. PICK merged : merged = [u \in Users |-> IF r.arg[u] # "none" THEN r.arg[u] ELSE row.people[u]]
      OBVIOUS
    <3>6. /\ merged \in [Users -> Roles]
          /\ \A u \in Users : merged[u] = r.arg[u] \/ (r.arg[u] = "none" /\ merged[u] = row.people[u])
      BY <2>2, <3>1, <3>5
    <3>7. \/ Bump(r, [row EXCEPT !.people = r.arg])
          \/ Bump(r, [row EXCEPT !.people = merged])
          \/ Refused(r) /\ UNCHANGED interviews
      BY <2>1, <2>3, <3>5 DEF CommitPeople
    <3> QED
      BY <3>1, <3>3, <3>4, <3>6, <3>7
  <2>4. ASSUME NEW mid \in Row, Bump(r, mid), r.kind # "people",
               mid.version = row.version, mid.people = row.people,
               \A next : next.version = mid.version + 1 /\ next.status = mid.status /\ next.startedAt = mid.startedAt
                   /\ next.pausedAt = mid.pausedAt /\ next.pausedMs = mid.pausedMs /\ next.endedAt = mid.endedAt
                   /\ next.hints = mid.hints /\ next.people = mid.people => Writes(r, row, next),
               ran' = ran,
               revealed' = IF r.kind = "reveal" THEN [revealed EXCEPT ![r.iv] = revealed[r.iv] \cup {r.arg}] ELSE revealed,
               raced' = IF \/ r.kind = "pause" /\ (row.status = "ended" \/ row.pausedAt # Never)
                           \/ r.kind = "reveal" /\ row.hints # r.hints
                           \/ r.kind = "end" /\ row.status = "ended"
                        THEN raced \cup {r.iv} ELSE raced,
               missed' = missed \cup (IF r.kind = "end" THEN Missed(r, r.people, r.people) ELSE {})
        PROVE  Goal
    <3>1. PICK next \in Row :
             /\ interviews' = [interviews EXCEPT ![r.iv] = next] /\ Accepted(r, r.iv, next.version)
             /\ next.version = mid.version + 1 /\ next.status = mid.status /\ next.startedAt = mid.startedAt
             /\ next.pausedAt = mid.pausedAt /\ next.pausedMs = mid.pausedMs /\ next.endedAt = mid.endedAt
             /\ next.hints = mid.hints /\ next.people = mid.people
      BY <1>1, <1>5, <2>4, Bumped
    <3>2. Writes(r, row, next)
      BY <2>4, <3>1
    <3>3. Changes(r, next)
      BY <1>5, <2>1, <2>4, <3>1, <3>2 DEF Changes
    <3> QED
      BY <3>3
  <2>5. ASSUME CommitTimer(r) PROVE Goal
    <3>1. /\ UNCHANGED <<ran, revealed, missed>>
          /\ raced' = IF r.kind = "pause" /\ (row.status = "ended" \/ row.pausedAt # Never)
                      THEN raced \cup {r.iv} ELSE raced
      BY <2>1, <2>5 DEF CommitTimer
    <3>2. CASE r.kind = "pause" /\ Bump(r, [row EXCEPT !.pausedAt = now])
      <4>1. PICK mid : mid = [row EXCEPT !.pausedAt = now]
        OBVIOUS
      <4>2. /\ mid \in Row /\ mid.version = row.version /\ mid.status = row.status /\ mid.startedAt = row.startedAt
            /\ mid.pausedAt = now /\ mid.pausedMs = row.pausedMs /\ mid.endedAt = row.endedAt
            /\ mid.hints = row.hints /\ mid.people = row.people
        BY <2>2, <4>1 DEF Row
      <4> QED
        BY <2>4, <3>1, <3>2, <4>1, <4>2 DEF Writes
    <3>3. CASE r.kind = "resume" /\ row.pausedAt # Never /\ Bump(r, Resumed(r, row))
      <4>1. PICK mid : mid = Resumed(r, row)
        OBVIOUS
      <4>2. PICK ms \in Int : ms = row.pausedMs + (now - row.pausedAt)
        BY <2>2
      <4>3. mid = [row EXCEPT !.pausedMs = ms, !.pausedAt = Never]
        BY <4>1, <4>2 DEF Resumed
      <4>4. /\ mid \in Row /\ mid.version = row.version /\ mid.status = row.status /\ mid.startedAt = row.startedAt
            /\ mid.pausedAt = Never /\ mid.pausedMs = ms /\ mid.endedAt = row.endedAt
            /\ mid.hints = row.hints /\ mid.people = row.people
        BY <2>2, <4>3 DEF Row
      <4> QED
        BY <2>4, <3>1, <3>3, <4>1, <4>2, <4>4 DEF Writes
    <3>4. CASE r.kind = "extend" /\ Bump(r, row)
      BY <2>4, <3>1, <3>4 DEF Writes
    <3>5. CASE r.kind = "resume" /\ Refused(r) /\ UNCHANGED interviews
      BY <3>1, <3>5 DEF Refused, Refuses, Typed
    <3> QED
      BY <2>1, <2>5, <3>2, <3>3, <3>4, <3>5 DEF CommitTimer
  <2>6. ASSUME CommitReveal(r) PROVE Goal
    <3>1. r.kind = "reveal" /\ r.arg \in Hints /\ r.hints \in SUBSET Hints
      BY <1>1, <2>6 DEF CommitReveal, Wants
    <3>2. PICK mid : mid = [row EXCEPT !.hints = r.hints \cup {r.arg}]
      OBVIOUS
    <3>3. /\ mid \in Row /\ mid.version = row.version /\ mid.status = row.status /\ mid.startedAt = row.startedAt
          /\ mid.pausedAt = row.pausedAt /\ mid.pausedMs = row.pausedMs /\ mid.endedAt = row.endedAt
          /\ mid.hints = r.hints \cup {r.arg} /\ mid.people = row.people
      BY <3>1, <3>2 DEF Row
    <3>4. Bump(r, mid)
      BY <2>1, <2>6, <3>2 DEF CommitReveal
    <3>5. /\ revealed' = [revealed EXCEPT ![r.iv] = revealed[r.iv] \cup {r.arg}] /\ ran' = ran
          /\ missed' = missed /\ raced' = IF row.hints # r.hints THEN raced \cup {r.iv} ELSE raced
      BY <2>1, <2>6 DEF CommitReveal
    <3> QED
      BY <2>4, <3>1, <3>3, <3>4, <3>5 DEF Writes
  <2>7. ASSUME CommitEnd(r) PROVE Goal
    <3>1. r.kind = "end"
      BY <2>7 DEF CommitEnd
    <3>2. PICK mid : mid = Ended(r, row)
      OBVIOUS
    <3>3. PICK ms \in Int : ms = IF row.pausedAt = Never THEN row.pausedMs ELSE row.pausedMs + (now - row.pausedAt)
      BY <2>2
    <3>4. mid = [row EXCEPT !.status = "ended", !.endedAt = now, !.pausedAt = Never, !.pausedMs = ms]
      BY <3>2, <3>3 DEF Ended
    <3>5. /\ mid \in Row /\ mid.version = row.version /\ mid.status = "ended" /\ mid.startedAt = row.startedAt
          /\ mid.pausedAt = Never /\ mid.pausedMs = ms /\ mid.endedAt = now
          /\ mid.hints = row.hints /\ mid.people = row.people
      BY <2>2, <3>3, <3>4 DEF Row
    <3>6. Bump(r, mid)
      BY <2>1, <2>7, <3>2 DEF CommitEnd
    <3>7. /\ UNCHANGED <<ran, revealed>> /\ missed' = missed \cup Missed(r, r.people, r.people)
          /\ raced' = IF row.status = "ended" THEN raced \cup {r.iv} ELSE raced
      BY <2>1, <2>7 DEF CommitEnd
    <3> QED
      BY <2>4, <3>1, <3>3, <3>5, <3>6, <3>7 DEF Writes
  <2>8. CommitPeople(r) \/ CommitTimer(r) \/ CommitReveal(r) \/ CommitEnd(r)
    BY <1>5 DEF Commit, CommitStart
  <2> HIDE DEF Goal
  <2> QED
    BY <2>3, <2>5, <2>6, <2>7, <2>8
<1>6. r.kind = "start" => CommitStart(r)
  BY DEF Commit, CommitPeople, CommitTimer, CommitReveal, CommitEnd
<1> HIDE DEF Goal
<1> QED
  BY <1>4, <1>5, <1>6

-----------------------------------------------------------------------------
(* What a step leaves of the rows. *)

\* The state of an interview for somebody, as it was; if there is no later one, as it is.
IsRight(u, s) == /\ Was(s.iv, s.version)
                 /\ s.version = interviews[s.iv].version => s.role = RoleIn(s.iv, u)

LEMMA RowsStay ==
    ASSUME Typed, [Next]_vars
    PROVE  /\ interviews' \in Seq(Row) /\ DOMAIN interviews \subseteq DOMAIN interviews'
           /\ \A i \in DOMAIN interviews : \/ interviews'[i] = interviews[i]
                                           \/ interviews'[i].version > interviews[i].version
<1> DEFINE Fine == /\ interviews' \in Seq(Row) /\ DOMAIN interviews \subseteq DOMAIN interviews'
                   /\ \A i \in DOMAIN interviews : \/ interviews'[i] = interviews[i]
                                                   \/ interviews'[i].version > interviews[i].version
<1> SUFFICES Fine
  OBVIOUS
<1>1. CASE UNCHANGED interviews
  BY <1>1 DEF Typed
<1>2. ASSUME NEW r \in requests, Commit(r) PROVE Fine
  <2>1. CASE Refuses(r)
    BY <1>1, <2>1 DEF Refuses
  <2>2. ASSUME NEW one \in Row, Starts(r, one) PROVE Fine
    <3>1. interviews' = Append(interviews, one) /\ interviews \in Seq(Row)
      BY <2>2 DEF Starts, Typed
    <3> QED
      BY <3>1
  <2>3. ASSUME NEW next \in Row, Changes(r, next) PROVE Fine
    <3>1. r.iv \in DOMAIN interviews
      BY <1>2, <2>3, Commits DEF Wants, Changes
    <3>2. interviews' = [interviews EXCEPT ![r.iv] = next] /\ next.version = interviews[r.iv].version + 1
      BY <2>3 DEF Changes, Writes
    <3>3. interviews[r.iv].version \in Nat /\ interviews \in Seq(Row)
      <4>1. interviews[r.iv] \in Row
        BY <3>1, Indices
      <4> QED
        BY <4>1 DEF Typed, Row
    <3> QED
      BY <3>1, <3>2, <3>3
  <2> QED
    BY <1>2, <2>1, <2>2, <2>3, Commits
<1>3. Tick => UNCHANGED interviews
  BY DEF Tick
<1>4. \A u \in Users : BeginStart(u) \/ BeginChange(u) \/ Rejoin(u) => UNCHANGED interviews
  BY DEF BeginStart, BeginChange, Rejoin, Begin, serverVars
<1>5. ASSUME NEW r \in requests, Announce(r) \/ Answer(r) PROVE UNCHANGED interviews
  <2>1. CASE Announce(r)
    BY <2>1 DEF Announce
  <2>2. CASE Answer(r)
    BY <2>2 DEF Answer
  <2> QED
    BY <1>5, <2>1, <2>2
<1>6. \A p \in pushes : PushReads(p) \/ PushSends(p) \/ PushFails(p) => UNCHANGED interviews
  BY DEF PushReads, PushSends, PushFails, serverVars
<1>7. \A u \in Tabs : ServeLoad(u) \/ LoadReturns(u) \/ LoadFails(u) => UNCHANGED interviews
  BY DEF ServeLoad, LoadReturns, LoadFails, serverVars
<1>8. UNCHANGED vars => UNCHANGED interviews
  BY DEF vars, serverVars
<1> HIDE DEF Fine
<1> QED
  BY <1>1, <1>2, <1>3, <1>4, <1>5, <1>6, <1>7, <1>8 DEF Next

LEMMA RightStays ==
    ASSUME Typed, [Next]_vars, NEW i \in Nat, NEW version \in Nat, Was(i, version)
    PROVE  /\ Was(i, version)'
           /\ version = interviews'[i].version => version = interviews[i].version /\ interviews'[i] = interviews[i]
<1>1. interviews[i] \in Row /\ interviews'[i] \in Row
  BY RowsStay DEF Was, Typed
<1>2. interviews[i].version \in Nat /\ interviews'[i].version \in Nat
  BY <1>1 DEF Row
<1> QED
  BY <1>2, RowsStay DEF Was

LEMMA IsRightStays ==
    ASSUME Typed, [Next]_vars, NEW u, NEW s, s.iv \in Nat, s.version \in Nat, IsRight(u, s)
    PROVE  IsRight(u, s)'
  BY RightStays DEF IsRight, RoleIn

-----------------------------------------------------------------------------
(* Other steps. *)

LEMMA Begins ==
    ASSUME Typed, NEW u \in Users, BeginStart(u) \/ BeginChange(u)
    PROVE  /\ UNCHANGED <<now, interviews, ran, revealed, raced, missed, capped, joining, pushes, lost, tab, loads>>
           /\ \E q : Wants(q) /\ requests' = requests \cup {q}
<1> DEFINE Frame == UNCHANGED <<now, interviews, ran, revealed, raced, missed, capped, joining, pushes, lost, tab, loads>>
           Goal == Frame /\ \E q : Wants(q) /\ requests' = requests \cup {q}
<1> SUFFICES Goal
  OBVIOUS
<1>1. ASSUME NEW kind \in Kinds, NEW i, NEW arg, Begin(Request(kind, u, i, arg)),
             i = NoInterview \/ i \in DOMAIN interviews, kind # "start" => i \in DOMAIN interviews,
             kind \in {"start", "people"} => arg \in [Users -> Roles], kind = "reveal" => arg \in Hints
      PROVE  Goal
  <2>1. PICK q : q = Request(kind, u, i, arg)
    OBVIOUS
  <2>2. requests' = requests \cup {q} /\ Frame
    BY <1>1, <2>1 DEF Begin, socketVars, tabVars
  <2>3. /\ q.kind = kind /\ q.by = u /\ q.iv = i /\ q.arg = arg /\ q.done = "nothing"
        /\ q.hints = (IF i = NoInterview THEN {} ELSE interviews[i].hints)
        /\ q.people = (IF i = NoInterview THEN Nobody ELSE interviews[i].people)
    BY <2>1 DEF Request
  <2>4. Nobody \in [Users -> Roles]
    BY DEF Nobody, Roles
  <2>5. i \in DOMAIN interviews => interviews[i].hints \in SUBSET Hints /\ interviews[i].people \in [Users -> Roles]
    BY Indices DEF Row
  <2>6. q.hints \in SUBSET Hints /\ q.people \in [Users -> Roles]
    BY <1>1, <2>3, <2>4, <2>5
  <2>7. Wants(q)
    BY <1>1, <2>3, <2>6 DEF Wants
  <2> QED
    BY <2>2, <2>7
<1>2. \A list \in Lists(u) : list \in [Users -> Roles]
  BY DEF Lists, Roles
<1>3. CASE BeginStart(u)
  <2>1. PICK list \in Lists(u) : Begin(Request("start", u, NoInterview, list))
    BY <1>3 DEF BeginStart
  <2> QED
    BY <1>1, <1>2, <2>1 DEF Kinds
<1>4. CASE BeginChange(u)
  <2>1. PICK i \in DOMAIN interviews :
           \/ \E list \in Lists(u) : Begin(Request("people", u, i, list))
           \/ Begin(Request("pause", u, i, Nobody))
           \/ Begin(Request("resume", u, i, Nobody))
           \/ Begin(Request("extend", u, i, Nobody))
           \/ \E h \in Hints : Begin(Request("reveal", u, i, h))
           \/ Begin(Request("end", u, i, Nobody))
    BY <1>4 DEF BeginChange, Running
  <2> HIDE DEF Goal
  <2> QED
    BY <1>1, <1>2, <2>1 DEF Kinds
<1> QED
  BY <1>3, <1>4

LEMMA Announces ==
    ASSUME Typed, NEW r \in requests, Announce(r)
    PROVE  /\ r \in Handled /\ r.done = "committed" /\ Was(r.iv, r.version)
           /\ UNCHANGED <<now, interviews, ran, revealed, raced, missed, capped, tab, loads>>
           /\ joining' = joining \cup r.affected
           /\ requests \ {r} \subseteq requests'
           /\ \A q \in requests' : \/ q \in requests \ {r}
                                   \/ /\ q \in Handled /\ q.done = "announced" /\ q.by \in Tabs
                                      /\ q.iv = r.iv /\ q.version = r.version
           /\ pushes' \in SUBSET Push
           /\ \E new \in pushes' : new.to = Tabs \ joining' /\ new.iv = NoInterview
           /\ \A q \in pushes' : q.iv # NoInterview => \E p \in pushes : q.iv = p.iv /\ q.version = p.version
<1>1. r \in Handled /\ r.done = "committed" /\ Was(r.iv, r.version)
  BY DEF Announce, Typed, Wants
<1>2. /\ UNCHANGED <<now, interviews, ran, revealed, raced, missed, capped, tab, loads>>
      /\ joining' = joining \cup r.affected
  BY DEF Announce, tabVars
<1>3. PICK rest : /\ requests' = (requests \ {r}) \cup rest
                  /\ rest = IF r.by \in Tabs THEN {[r EXCEPT !.done = "announced", !.affected = {}]} ELSE {}
  BY DEF Announce
<1>4. ASSUME NEW q \in rest
      PROVE  q \in Handled /\ q.done = "announced" /\ q.by \in Tabs /\ q.iv = r.iv /\ q.version = r.version
  <2>1. r.by \in Tabs /\ q = [r EXCEPT !.done = "announced", !.affected = {}]
    BY <1>3, <1>4
  <2> QED
    BY <1>1, <2>1 DEF Handled
<1>5. PICK new : new = [to |-> Tabs \ joining', iv |-> NoInterview, version |-> 0]
  OBVIOUS
<1>6. new \in Push /\ new.to = Tabs \ joining' /\ new.iv = NoInterview
  BY <1>5 DEF Push, NoInterview
<1>7. pushes' = {[p EXCEPT !.to = p.to \ r.affected] : p \in pushes} \cup {new}
  BY <1>5 DEF Announce
<1>8. ASSUME NEW p \in pushes, NEW q, q = [p EXCEPT !.to = p.to \ r.affected]
      PROVE  q \in Push /\ q.iv = p.iv /\ q.version = p.version
  BY <1>8 DEF Push, Typed
<1>9. pushes' \in SUBSET Push
  BY <1>6, <1>7, <1>8
<1>10. \A q \in pushes' : q.iv # NoInterview => \E p \in pushes : q.iv = p.iv /\ q.version = p.version
  BY <1>6, <1>7, <1>8
<1>11. new \in pushes'
  BY <1>7
<1> QED
  BY <1>1, <1>2, <1>3, <1>4, <1>6, <1>9, <1>10, <1>11

-----------------------------------------------------------------------------
(* Tabs. *)

\* What was returned to a tab is of its user.
LoadsKnow == \A u \in Tabs : \A v \in loads[u] : v = Unread \/ IsRight(u, v)

\* What can happen to a tab in a step.
Kept(u) == tab'[u] = tab[u] /\ loads'[u] = loads[u]
Sent(u, s) == /\ tab'[u] = ApplyState(tab[u], s)
              /\ loads'[u] = IF Asks(tab[u], s) THEN loads[u] \cup {Unread} ELSE loads[u]
Viewed(u, s) == tab'[u] = ApplyView(tab[u], s) /\ loads'[u] \subseteq loads[u]
Served(u, s) == tab'[u] = tab[u] /\ loads'[u] \subseteq loads[u] \cup {s} /\ loads'[u] # {}
Failed(u) == /\ tab'[u] = [tab[u] EXCEPT !.questionFor = NoInterview, !.late = FALSE]
             /\ loads'[u] \subseteq loads[u]
Told(u) == Kept(u) \/ Failed(u) \/ \E s \in State : IsRight(u, s) /\ (Sent(u, s) \/ Viewed(u, s) \/ Served(u, s))

LEMMA RightState ==
    ASSUME Typed, NEW u \in Users, NEW i \in Nat, NEW version \in Nat, Was(i, version),
           NEW s, s = [iv |-> i, version |-> version, role |-> RoleIn(i, u)]
    PROVE  s \in State /\ IsRight(u, s) /\ s.iv = i
<1>1. PICK role : role = RoleIn(i, u)
  OBVIOUS
<1>2. role \in Roles
  BY <1>1, Indices DEF RoleIn, Was, Row, Roles
<1>3. s = [iv |-> i, version |-> version, role |-> role]
  BY <1>1
<1>4. s \in State /\ s.iv = i /\ s.version = version /\ s.role = role
  BY <1>2, <1>3 DEF State
<1> QED
  BY <1>1, <1>4 DEF IsRight

LEMMA Sends ==
    ASSUME Typed, NEW p \in pushes, PushSends(p)
    PROVE  /\ p.iv # NoInterview /\ pushes' = pushes \ {p}
           /\ UNCHANGED <<now, interviews, requests, ran, revealed, raced, missed, capped, joining>>
           /\ tab' = [u \in Tabs |-> tab'[u]] /\ loads' = [u \in Tabs |-> loads'[u]]
           /\ \A u \in Tabs : IF u \in p.to
                              THEN \E s \in State : /\ s.iv = p.iv /\ s.version = p.version /\ s.role = RoleIn(p.iv, u)
                                                    /\ IsRight(u, s) /\ Sent(u, s)
                              ELSE Kept(u)
<1>1. /\ p.iv # NoInterview /\ pushes' = pushes \ {p}
      /\ UNCHANGED <<now, interviews, requests, ran, revealed, raced, missed, capped, joining>>
  BY DEF PushSends, serverVars
<1>2. p \in Push /\ Was(p.iv, p.version)
  BY <1>1 DEF Typed
<1>3. PICK state : state = [u \in p.to |-> [iv |-> p.iv, version |-> p.version, role |-> RoleIn(p.iv, u)]]
  OBVIOUS
<1>4. /\ tab' = [u \in Tabs |-> IF u \in DOMAIN state THEN ApplyState(tab[u], state[u]) ELSE tab[u]]
      /\ loads' = [u \in Tabs |-> IF u \in DOMAIN state /\ Asks(tab[u], state[u])
                                  THEN loads[u] \cup {Unread} ELSE loads[u]]
  BY <1>3 DEF PushSends, Shows
<1>5. DOMAIN state = p.to
  BY <1>3
<1>6. ASSUME NEW u \in Tabs, u \in p.to
      PROVE  \E s \in State : /\ s.iv = p.iv /\ s.version = p.version /\ s.role = RoleIn(p.iv, u)
                              /\ IsRight(u, s) /\ Sent(u, s)
  <2>1. PICK s : s = [iv |-> p.iv, version |-> p.version, role |-> RoleIn(p.iv, u)]
    OBVIOUS
  <2>2. s \in State /\ IsRight(u, s)
    BY <1>2, <2>1, RightState, InterviewAssumption DEF Push
  <2>3. s.iv = p.iv /\ s.version = p.version /\ s.role = RoleIn(p.iv, u)
    BY <2>1
  <2>4. s = state[u]
    BY <1>3, <1>6, <2>1
  <2>5. Sent(u, s)
    BY <1>4, <1>5, <1>6, <2>4 DEF Sent
  <2> QED
    BY <2>2, <2>3, <2>5
<1>7. \A u \in Tabs : u \notin p.to => Kept(u)
  BY <1>4, <1>5 DEF Kept
<1>8. tab' = [u \in Tabs |-> tab'[u]] /\ loads' = [u \in Tabs |-> loads'[u]]
  BY <1>4
<1> QED
  BY <1>1, <1>6, <1>7, <1>8

LEMMA Answers ==
    ASSUME Typed, NEW r \in requests, Answer(r)
    PROVE  /\ r.done = "announced" /\ requests' = requests \ {r} /\ r.by \in Tabs
           /\ UNCHANGED <<now, interviews, ran, revealed, raced, missed, capped, joining, pushes, lost, loads>>
           /\ tab' = [u \in Tabs |-> tab'[u]]
           /\ \A u \in Tabs : u # r.by => Kept(u)
           /\ \E s \in State : IsRight(r.by, s) /\ Viewed(r.by, s)
<1>1. /\ r.done = "announced" /\ requests' = requests \ {r}
      /\ UNCHANGED <<now, interviews, ran, revealed, raced, missed, capped, joining, pushes, lost, loads>>
  BY DEF Answer, socketVars
<1>2. r \in Handled /\ r.by \in Tabs /\ Was(r.iv, r.version)
  BY <1>1 DEF Typed, Wants
<1>3. PICK s : s = [iv |-> r.iv, version |-> r.version, role |-> RoleIn(r.iv, r.by)]
  OBVIOUS
<1>4. s \in State /\ IsRight(r.by, s)
  BY <1>2, <1>3, RightState DEF Handled
<1>5. tab' = [tab EXCEPT ![r.by] = ApplyView(tab[r.by], s)]
  BY <1>3 DEF Answer
<1>6. tab' = [u \in Tabs |-> tab'[u]] /\ tab'[r.by] = ApplyView(tab[r.by], s) /\ \A u \in Tabs : u # r.by => tab'[u] = tab[u]
  BY <1>2, <1>5 DEF Typed
<1> QED
  BY <1>1, <1>2, <1>4, <1>6 DEF Viewed, Kept

LEMMA Loads ==
    ASSUME Typed, LoadsKnow, NEW u \in Tabs, ServeLoad(u) \/ LoadReturns(u) \/ LoadFails(u)
    PROVE  /\ UNCHANGED <<now, interviews, requests, ran, revealed, raced, missed, capped, joining, pushes, lost>>
           /\ tab' = [w \in Tabs |-> tab'[w]] /\ loads' = [w \in Tabs |-> loads'[w]]
           /\ \A w \in Tabs : Told(w)
<1>1. UNCHANGED <<now, interviews, requests, ran, revealed, raced, missed, capped, joining, pushes, lost>>
  BY DEF ServeLoad, LoadReturns, LoadFails, serverVars, socketVars
<1> DEFINE Goal == /\ tab' = [w \in Tabs |-> tab'[w]] /\ loads' = [w \in Tabs |-> loads'[w]]
                   /\ \A w \in Tabs : Told(w)
<1>2. ASSUME NEW set, loads' = [loads EXCEPT ![u] = set], tab' = [tab EXCEPT ![u] = tab'[u]],
             loads'[u] = set => Told(u)
      PROVE  Goal
  <2>1. tab' = [w \in Tabs |-> tab'[w]] /\ loads' = [w \in Tabs |-> loads'[w]]
    BY <1>2 DEF Typed
  <2>2. \A w \in Tabs : w # u => Kept(w)
    BY <1>2 DEF Typed, Kept
  <2>3. loads'[u] = set
    BY <1>2 DEF Typed
  <2> QED
    BY <1>2, <2>1, <2>2, <2>3 DEF Told
<1>3. CASE ServeLoad(u)
  <2>1. Latest # NoInterview /\ Unread \in loads[u] /\ UNCHANGED tab
    BY <1>3 DEF ServeLoad
  <2>2. PICK s : s = View(Latest, u)
    OBVIOUS
  <2>3. Latest \in DOMAIN interviews /\ Latest \in Nat /\ interviews[Latest] \in Row
    BY <2>1, Indices DEF NoInterview
  <2>4. s \in State /\ IsRight(u, s)
    <3>1. Was(Latest, interviews[Latest].version) /\ interviews[Latest].version \in Nat
      BY <2>3 DEF Was, Row
    <3> QED
      BY <2>2, <2>3, <3>1, RightState, InterviewAssumption DEF View
  <2>5. loads' = [loads EXCEPT ![u] = (loads[u] \ {Unread}) \cup {s}]
    BY <1>3, <2>2 DEF ServeLoad
  <2>6. loads'[u] = (loads[u] \ {Unread}) \cup {s} => Told(u)
    BY <2>1, <2>4 DEF Told, Served
  <2>7. tab' = [tab EXCEPT ![u] = tab'[u]]
    BY <2>1 DEF Typed
  <2> QED
    BY <1>1, <1>2, <2>5, <2>6, <2>7
<1>4. CASE LoadReturns(u)
  <2>1. PICK s \in loads[u] : /\ s # Unread /\ tab' = [tab EXCEPT ![u] = ApplyView(tab[u], s)]
                              /\ loads' = [loads EXCEPT ![u] = loads[u] \ {s}]
    BY <1>4 DEF LoadReturns
  <2>2. s \in State /\ IsRight(u, s)
    BY <2>1 DEF Typed, LoadsKnow
  <2>3. tab'[u] = ApplyView(tab[u], s) /\ tab' = [tab EXCEPT ![u] = tab'[u]]
    BY <2>1 DEF Typed
  <2>4. loads'[u] = loads[u] \ {s} => Told(u)
    BY <2>2, <2>3 DEF Told, Viewed
  <2> QED
    BY <1>1, <1>2, <2>1, <2>3, <2>4
<1>5. CASE LoadFails(u)
  <2>1. PICK s \in loads[u] : loads' = [loads EXCEPT ![u] = loads[u] \ {s}]
    BY <1>5 DEF LoadFails
  <2>2. PICK next : next = [tab[u] EXCEPT !.questionFor = NoInterview, !.late = FALSE]
    OBVIOUS
  <2>3. tab' = [tab EXCEPT ![u] = next]
    BY <1>5, <2>2 DEF LoadFails, Typed, Store
  <2>4. tab'[u] = next /\ tab' = [tab EXCEPT ![u] = tab'[u]]
    BY <2>3 DEF Typed
  <2>5. loads'[u] = loads[u] \ {s} => Told(u)
    BY <2>2, <2>4 DEF Told, Failed
  <2> QED
    BY <1>1, <1>2, <2>1, <2>4, <2>5
<1> QED
  BY <1>1, <1>3, <1>4, <1>5

LEMMA TabSteps ==
    ASSUME Typed, LoadsKnow, [Next]_vars
    PROVE  /\ tab' = [u \in Tabs |-> tab'[u]] /\ loads' = [u \in Tabs |-> loads'[u]]
           /\ \A u \in Tabs : Told(u)
           /\ interviews' = interviews \/ \A u \in Tabs : Kept(u)
<1> DEFINE Fine == /\ tab' = [u \in Tabs |-> tab'[u]] /\ loads' = [u \in Tabs |-> loads'[u]]
                   /\ \A u \in Tabs : Told(u)
                   /\ interviews' = interviews \/ \A u \in Tabs : Kept(u)
<1> SUFFICES Fine
  OBVIOUS
<1>1. CASE UNCHANGED <<tab, loads>>
  BY <1>1 DEF Typed, Told, Kept
<1>2. ASSUME NEW p \in pushes, PushSends(p) PROVE Fine
  BY <1>2, Sends DEF Told
<1>3. ASSUME NEW r \in requests, Answer(r) PROVE Fine
  <2>1. loads' = [u \in Tabs |-> loads'[u]]
    BY <1>3, Answers DEF Typed
  <2> QED
    BY <1>3, <2>1, Answers DEF Told
<1>4. ASSUME NEW u \in Tabs, ServeLoad(u) \/ LoadReturns(u) \/ LoadFails(u) PROVE Fine
  BY <1>4, Loads
<1>5. Tick => UNCHANGED <<tab, loads>>
  BY DEF Tick, tabVars
<1>6. \A u \in Users : BeginStart(u) \/ BeginChange(u) => UNCHANGED <<tab, loads>>
  BY Begins
<1>7. \A u \in Users : Rejoin(u) => UNCHANGED <<tab, loads>>
  BY DEF Rejoin, tabVars
<1>8. \A r \in requests : Commit(r) \/ Announce(r) => UNCHANGED <<tab, loads>>
  BY DEF Commit, Announce, tabVars
<1>9. \A p \in pushes : PushReads(p) \/ PushFails(p) => UNCHANGED <<tab, loads>>
  BY DEF PushReads, PushFails, tabVars
<1>10. UNCHANGED vars => UNCHANGED <<tab, loads>>
  BY DEF vars, tabVars
<1> HIDE DEF Fine
<1> QED
  BY <1>1, <1>2, <1>3, <1>4, <1>5, <1>6, <1>7, <1>8, <1>9, <1>10 DEF Next

LEMMA ToldTypes ==
    ASSUME Typed, NEW u \in Tabs, Told(u)
    PROVE  tab'[u] \in Store /\ loads'[u] \in SUBSET State
<1>1. tab[u] \in Store /\ loads[u] \in SUBSET State
  BY DEF Typed
<1>2. Unread \in State
  BY DEF Unread, State, NoInterview, Roles
<1>3. CASE Failed(u)
  <2>1. PICK next : next = [tab[u] EXCEPT !.questionFor = NoInterview, !.late = FALSE]
    OBVIOUS
  <2>2. next \in Store
    BY <1>1, <2>1 DEF Store, NoInterview
  <2> QED
    BY <1>1, <1>3, <2>1, <2>2 DEF Failed
<1>4. ASSUME NEW s \in State, Sent(u, s) \/ Viewed(u, s) \/ Served(u, s)
      PROVE  tab'[u] \in Store /\ loads'[u] \in SUBSET State
  BY <1>1, <1>2, <1>4, NewState, NewView DEF Sent, Viewed, Served
<1> QED
  BY <1>1, <1>3, <1>4 DEF Told, Kept

LEMMA PushesStep ==
    ASSUME Typed, [Next]_vars
    PROVE  pushes' \in SUBSET Push /\ \A p \in pushes' : p.iv # NoInterview => Was(p.iv, p.version)'
<1> DEFINE Fine == pushes' \in SUBSET Push /\ \A p \in pushes' : p.iv # NoInterview => Was(p.iv, p.version)'
<1> SUFFICES Fine
  OBVIOUS
<1>1. ASSUME NEW p \in pushes, p.iv # NoInterview PROVE p.iv \in Nat /\ p.version \in Nat /\ Was(p.iv, p.version)'
  <2>1. p \in Push /\ Was(p.iv, p.version)
    BY <1>1 DEF Typed
  <2> QED
    BY <2>1, RightStays DEF Push
<1>2. ASSUME pushes' \in SUBSET pushes PROVE Fine
  BY <1>1, <1>2 DEF Typed
<1>3. ASSUME NEW p \in pushes, PushReads(p) PROVE Fine
  <2>1. p.iv = NoInterview /\ Latest # NoInterview /\ UNCHANGED interviews
    BY <1>3 DEF PushReads, serverVars
  <2>2. Latest \in DOMAIN interviews /\ Latest \in Nat /\ interviews[Latest] \in Row
    BY <2>1, Indices DEF NoInterview
  <2>3. PICK q : q = [p EXCEPT !.iv = Latest, !.version = interviews[Latest].version]
    OBVIOUS
  <2>4. q \in Push /\ q.iv = Latest /\ q.version = interviews[Latest].version
    BY <2>2, <2>3 DEF Push, Row, Typed
  <2>5. pushes' = (pushes \ {p}) \cup {q}
    BY <1>3, <2>3 DEF PushReads, WithRow
  <2>6. Was(q.iv, q.version)'
    BY <2>1, <2>2, <2>4 DEF Was, Row
  <2> QED
    BY <1>1, <2>4, <2>5, <2>6 DEF Typed
<1>4. ASSUME NEW u \in Users, Rejoin(u) PROVE Fine
  <2>1. PICK q : q = [to |-> {u}, iv |-> NoInterview, version |-> 0]
    OBVIOUS
  <2>2. q.iv = NoInterview /\ (u \in Tabs => q \in Push)
    BY <2>1 DEF Push, NoInterview
  <2>3. pushes' = IF u \in Tabs /\ Latest # NoInterview THEN pushes \cup {q} ELSE pushes
    BY <1>4, <2>1 DEF Rejoin
  <2> QED
    BY <1>1, <2>2, <2>3 DEF Typed
<1>5. ASSUME NEW r \in requests, Announce(r) PROVE Fine
  <2>1. pushes' \in SUBSET Push
    BY <1>5, Announces
  <2>2. \A q \in pushes' : q.iv # NoInterview => \E p \in pushes : q.iv = p.iv /\ q.version = p.version
    BY <1>5, Announces
  <2> QED
    BY <1>1, <2>1, <2>2
<1>6. Tick => pushes' \in SUBSET pushes
  BY DEF Tick, socketVars
<1>7. \A u \in Users : BeginStart(u) \/ BeginChange(u) => pushes' \in SUBSET pushes
  BY Begins
<1>8. \A r \in requests : Commit(r) \/ Answer(r) => pushes' \in SUBSET pushes
  BY DEF Commit, Answer, socketVars
<1>9. \A p \in pushes : PushSends(p) \/ PushFails(p) => pushes' \in SUBSET pushes
  BY DEF PushSends, PushFails
<1>10. \A u \in Tabs : ServeLoad(u) \/ LoadReturns(u) \/ LoadFails(u) => pushes' \in SUBSET pushes
  BY DEF ServeLoad, LoadReturns, LoadFails, socketVars
<1>11. UNCHANGED vars => pushes' \in SUBSET pushes
  BY DEF vars, socketVars
<1> HIDE DEF Fine
<1> QED
  BY <1>2, <1>3, <1>4, <1>5, <1>6, <1>7, <1>8, <1>9, <1>10, <1>11 DEF Next

LEMMA RequestsStep ==
    ASSUME Typed, [Next]_vars, NEW r \in requests'
    PROVE  Wants(r)' \/ (r \in Handled /\ Was(r.iv, r.version)' /\ (r.done = "announced" => r.by \in Tabs))
<1> DEFINE Fine == Wants(r)' \/ (r \in Handled /\ Was(r.iv, r.version)' /\ (r.done = "announced" => r.by \in Tabs))
<1> SUFFICES Fine
  OBVIOUS
<1>1. CASE r \in requests
  <2>1. CASE Wants(r)
    BY <2>1, RowsStay DEF Wants
  <2>2. CASE r \in Handled /\ Was(r.iv, r.version) /\ (r.done = "announced" => r.by \in Tabs)
    <3>1. Was(r.iv, r.version)'
      BY <2>2, RightStays DEF Handled
    <3> QED
      BY <2>2, <3>1
  <2> QED
    BY <1>1, <2>1, <2>2 DEF Typed
<1>2. ASSUME NEW q \in requests, Commit(q) PROVE Fine
  <2>1. interviews \in Seq(Row) /\ Latest \in Nat
    BY Indices DEF Typed
  <2>2. ASSUME NEW one \in Row, Starts(q, one), Accepted(q, Latest + 1, 0) PROVE Fine
    <3>1. interviews' = Append(interviews, one) /\ one.version = 0
      BY <2>2 DEF Starts
    <3>2. PICK n \in Nat : n = Latest + 1
      BY <2>1
    <3>3. n \in DOMAIN interviews' /\ interviews'[n].version = 0
      BY <2>1, <3>1, <3>2 DEF Latest
    <3>4. Was(n, 0)'
      BY <3>3 DEF Was
    <3> QED
      BY <1>1, <2>2, <3>2, <3>4 DEF Accepted
  <2>3. ASSUME NEW next \in Row, Changes(q, next) PROVE Fine
    <3>1. q.iv \in DOMAIN interviews /\ interviews' = [interviews EXCEPT ![q.iv] = next] /\ Accepted(q, q.iv, next.version)
      BY <1>2, <2>3, Commits DEF Wants, Changes
    <3>2. Was(q.iv, next.version)'
      BY <2>1, <3>1 DEF Was, Row
    <3> QED
      BY <1>1, <3>1, <3>2 DEF Accepted
  <2>4. CASE Refuses(q)
    BY <1>1, <2>4 DEF Refuses
  <2> HIDE DEF Fine
  <2> QED
    BY <1>2, <2>2, <2>3, <2>4, Commits
<1>3. ASSUME NEW u \in Users, BeginStart(u) \/ BeginChange(u) PROVE Fine
  <2>1. PICK q : Wants(q) /\ requests' = requests \cup {q}
    BY <1>3, Begins
  <2>2. Wants(q)'
    BY <2>1, RowsStay DEF Wants
  <2> QED
    BY <1>1, <2>1, <2>2
<1>4. ASSUME NEW q \in requests, Announce(q) PROVE Fine
  <2>1. q \in Handled /\ Was(q.iv, q.version) /\ UNCHANGED interviews
    BY <1>4, Announces
  <2>2. \/ r \in requests
        \/ r \in Handled /\ r.done = "announced" /\ r.by \in Tabs /\ r.iv = q.iv /\ r.version = q.version
    BY <1>4, Announces
  <2> QED
    BY <1>1, <2>1, <2>2 DEF Was
<1>5. \A q \in requests : Answer(q) => requests' \subseteq requests
  BY DEF Answer
<1>6. Tick => requests' \subseteq requests
  BY DEF Tick
<1>7. \A u \in Users : Rejoin(u) => requests' \subseteq requests
  BY DEF Rejoin, serverVars
<1>8. \A p \in pushes : PushReads(p) \/ PushSends(p) \/ PushFails(p) => requests' \subseteq requests
  BY DEF PushReads, PushSends, PushFails, serverVars
<1>9. \A u \in Tabs : ServeLoad(u) \/ LoadReturns(u) \/ LoadFails(u) => requests' \subseteq requests
  BY DEF ServeLoad, LoadReturns, LoadFails, serverVars
<1>10. UNCHANGED vars => requests' \subseteq requests
  BY DEF vars, serverVars
<1>11. requests' \subseteq requests => Fine
  BY <1>1
<1> HIDE DEF Fine
<1> QED
  BY <1>2, <1>3, <1>4, <1>5, <1>6, <1>7, <1>8, <1>9, <1>10, <1>11 DEF Next

LEMMA TypedStep ==
    ASSUME Typed, LoadsKnow, [Next]_vars
    PROVE  Typed'
<1> DEFINE Small == /\ now' \in Nat /\ joining' \in SUBSET Users /\ missed' \in SUBSET Users
                    /\ capped' \in [Users -> BOOLEAN]
<1>1. /\ now \in Nat /\ joining \in SUBSET Users /\ missed \in SUBSET Users
      /\ capped \in [Users -> BOOLEAN]
  BY DEF Typed
<1>2. Small
  <2>1. CASE UNCHANGED <<now, joining, missed, capped>>
    BY <1>1, <2>1
  <2>2. Tick => Small
    BY <1>1 DEF Tick, socketVars
  <2>3. \A u \in Users : BeginStart(u) \/ BeginChange(u) => UNCHANGED <<now, joining, missed, capped>>
    BY Begins
  <2>4. ASSUME NEW u \in Users, Rejoin(u) PROVE Small
    <3>1. PICK c \in BOOLEAN : c = Cap(u)
      BY DEF Cap, WasCandidate
    <3> QED
      BY <1>1, <2>4, <3>1 DEF Rejoin, serverVars
  <2>5. ASSUME NEW r \in requests, Commit(r) PROVE Small
    <3>1. UNCHANGED <<now, joining, capped>>
      BY <2>5 DEF Commit, socketVars
    <3>2. missed' \in SUBSET Users
      BY <1>1, <2>5, Commits, MissedOnes DEF Refuses, Starts, Changes
    <3> QED
      BY <1>1, <3>1, <3>2
  <2>6. ASSUME NEW r \in requests, Announce(r) PROVE Small
    BY <1>1, <2>6, Announces DEF Handled
  <2>7. \A r \in requests : Answer(r) => UNCHANGED <<now, joining, missed, capped>>
    BY Answers
  <2>8. \A p \in pushes : PushReads(p) \/ PushSends(p) \/ PushFails(p) => UNCHANGED <<now, joining, missed, capped>>
    BY DEF PushReads, PushSends, PushFails, serverVars
  <2>9. \A u \in Tabs : ServeLoad(u) \/ LoadReturns(u) \/ LoadFails(u) => UNCHANGED <<now, joining, missed, capped>>
    BY DEF ServeLoad, LoadReturns, LoadFails, serverVars, socketVars
  <2>10. UNCHANGED vars => UNCHANGED <<now, joining, missed, capped>>
    BY DEF vars, serverVars, socketVars
  <2> HIDE DEF Small
  <2> QED
    BY <2>1, <2>2, <2>3, <2>4, <2>5, <2>6, <2>7, <2>8, <2>9, <2>10 DEF Next
<1>3. tab' \in [Tabs -> Store] /\ loads' \in [Tabs -> SUBSET State]
  <2>1. \A u \in Tabs : tab'[u] \in Store /\ loads'[u] \in SUBSET State
    BY TabSteps, ToldTypes
  <2> QED
    BY <2>1, TabSteps
<1>4. interviews' \in Seq(Row)
  BY RowsStay
<1>5. pushes' \in SUBSET Push /\ \A p \in pushes' : p.iv # NoInterview => Was(p.iv, p.version)'
  BY PushesStep
<1>6. \A r \in requests' : Wants(r)' \/ (r \in Handled /\ Was(r.iv, r.version)' /\ (r.done = "announced" => r.by \in Tabs))
  BY RequestsStep
<1> QED
  BY <1>2, <1>3, <1>4, <1>5, <1>6 DEF Typed

LEMMA LoadsKnowStep ==
    ASSUME Typed, LoadsKnow, [Next]_vars
    PROVE  LoadsKnow'
<1>1. ASSUME NEW u \in Tabs, NEW v \in loads'[u], v # Unread PROVE IsRight(u, v)'
  <2>1. \/ v \in loads[u]
        \/ \E s \in State : IsRight(u, s) /\ s = v
    BY <1>1, TabSteps DEF Told, Kept, Failed, Sent, Viewed, Served
  <2>2. IsRight(u, v) /\ v \in State
    BY <1>1, <2>1 DEF LoadsKnow, Typed
  <2> QED
    BY <2>2, IsRightStays DEF State
<1> QED
  BY <1>1 DEF LoadsKnow

\* A tab shows nothing, or something that was so.
TabsKnow == \A u \in Tabs, t \in Store : t = tab[u] => IsRight(u, t) \/ (t.iv = NoInterview /\ t.role = "none")

\* A question that was asked for is there, on its way or was late.
Fetching == \A u \in Tabs : tab[u].questionFor # NoInterview =>
               /\ tab[u].role # "interviewer" => tab[u].late
               /\ loads[u] = {} => tab[u].late \/ (tab[u].question /\ tab[u].iv = tab[u].questionFor)

LEMMA TabsKnowStep ==
    ASSUME Typed, LoadsKnow, TabsKnow, [Next]_vars
    PROVE  TabsKnow'
<1>1. ASSUME NEW u \in Tabs, NEW next \in Store, next = tab'[u]
      PROVE  IsRight(u, next)' \/ (next.iv = NoInterview /\ next.role = "none")
  <2>1. PICK t \in Store : t = tab[u]
    BY DEF Typed
  <2>2. IsRight(u, t) \/ (t.iv = NoInterview /\ t.role = "none")
    BY <2>1 DEF TabsKnow
  <2>3. ASSUME next.iv = t.iv, next.version = t.version, next.role = t.role
        PROVE  IsRight(u, next) \/ (next.iv = NoInterview /\ next.role = "none")
    BY <2>2, <2>3 DEF IsRight
  <2>4. ASSUME NEW s \in State, IsRight(u, s), next.iv = s.iv, next.version = s.version, next.role = s.role
        PROVE  IsRight(u, next)
    BY <2>4 DEF IsRight
  <2>5. IsRight(u, next) \/ (next.iv = NoInterview /\ next.role = "none")
    <3>1. Told(u)
      BY TabSteps
    <3>2. CASE Kept(u)
      BY <1>1, <2>1, <2>3, <3>2 DEF Kept
    <3>3. CASE Failed(u)
      BY <1>1, <2>1, <2>3, <3>3 DEF Failed, Store
    <3>4. ASSUME NEW s \in State, IsRight(u, s), Sent(u, s) \/ Viewed(u, s) \/ Served(u, s)
          PROVE  IsRight(u, next) \/ (next.iv = NoInterview /\ next.role = "none")
      <4>1. \/ next.iv = t.iv /\ next.version = t.version /\ next.role = t.role
            \/ next.iv = s.iv /\ next.version = s.version /\ next.role = s.role
        BY <1>1, <2>1, <3>4, NewState, NewView DEF Sent, Viewed, Served
      <4> QED
        BY <2>3, <2>4, <3>4, <4>1
    <3> QED
      BY <3>1, <3>2, <3>3, <3>4 DEF Told
  <2> QED
    BY <2>5, IsRightStays DEF Store
<1> QED
  BY <1>1 DEF TabsKnow

LEMMA FetchingStep ==
    ASSUME Typed, LoadsKnow, TabsKnow, Fetching, [Next]_vars
    PROVE  Fetching'
<1> SUFFICES ASSUME NEW u \in Tabs, tab'[u].questionFor # NoInterview
             PROVE  /\ tab'[u].role # "interviewer" => tab'[u].late
                    /\ loads'[u] = {} => tab'[u].late \/ (tab'[u].question /\ tab'[u].iv = tab'[u].questionFor)
  BY DEF Fetching
<1>1. PICK t \in Store : t = tab[u]
  BY DEF Typed
<1>2. PICK next \in Store : next = tab'[u]
  BY TabSteps, ToldTypes
<1>3. /\ t.questionFor # NoInterview /\ t.role # "interviewer" => t.late
      /\ t.questionFor # NoInterview /\ loads[u] = {} => t.late \/ (t.question /\ t.iv = t.questionFor)
  BY <1>1 DEF Fetching
<1> DEFINE Fine == /\ next.role # "interviewer" => next.late
                   /\ loads'[u] = {} => next.late \/ (next.question /\ next.iv = next.questionFor)
<1> SUFFICES Fine
  BY <1>2
<1>4. Told(u) /\ next.questionFor # NoInterview
  BY <1>2, TabSteps
<1>5. CASE Kept(u)
  BY <1>1, <1>2, <1>3, <1>4, <1>5 DEF Kept
<1>6. CASE Failed(u)
  <2>1. next.questionFor = NoInterview
    BY <1>1, <1>2, <1>6 DEF Failed, Store
  <2> QED
    BY <1>4, <2>1
<1>7. ASSUME NEW s \in State, Sent(u, s) PROVE Fine
  <2>1. CASE ~IsNewerState(t, s)
    <3>1. next = t /\ loads'[u] = loads[u]
      BY <1>1, <1>2, <1>7, <2>1, NewState DEF Sent, Asks
    <3> QED
      BY <1>3, <1>4, <3>1
  <2>2. CASE IsNewerState(t, s)
    <3>1. /\ next.iv = s.iv /\ next.role = s.role /\ next.questionFor = QuestionFor(t, s)
          /\ next.question <=> (t.question /\ t.iv = s.iv /\ s.role = "interviewer")
          /\ next.late <=> (t.late /\ s.role = "interviewer" /\ t.questionFor = s.iv)
      BY <1>1, <1>2, <1>7, <2>2, NewState DEF Sent
    <3>2. s.role = "interviewer" /\ next.questionFor = s.iv
      BY <1>4, <3>1 DEF QuestionFor
    <3>3. loads'[u] = {} => t.questionFor = s.iv /\ loads[u] = {}
      BY <1>1, <1>7, <2>2, <3>2 DEF Sent, Asks
    <3> QED
      BY <1>3, <1>4, <3>1, <3>2, <3>3
  <2> QED
    BY <2>1, <2>2
<1>8. ASSUME NEW s \in State, Viewed(u, s) PROVE Fine
  <2>1. next = ApplyView(t, s)
    BY <1>1, <1>2, <1>8 DEF Viewed
  <2>2. CASE s.role = "interviewer"
    <3>1. next.questionFor = s.iv /\ IF next.iv = s.iv /\ next.role = "interviewer" THEN next.question ELSE next.late
      BY <2>1, <2>2, NewView
    <3> QED
      BY <3>1
  <2>3. CASE s.role # "interviewer"
    <3>1. ~IsNewerState(t, s) /\ next.questionFor = t.questionFor
      BY <1>4, <2>1, <2>3, NewView
    <3>2. next.role = t.role /\ (next.late <=> (t.late \/ t.role = "interviewer"))
      BY <2>1, <2>3, <3>1, NewView
    <3> QED
      BY <1>3, <1>4, <3>1, <3>2
  <2> QED
    BY <2>2, <2>3
<1>9. ASSUME NEW s \in State, Served(u, s) PROVE Fine
  BY <1>1, <1>2, <1>3, <1>4, <1>9 DEF Served
<1> HIDE DEF Fine
<1> QED
  BY <1>4, <1>5, <1>6, <1>7, <1>8, <1>9 DEF Told

\* Somebody's tab shows the last state; it will be sent, or was lost; or a change is still to be
\* announced.
Current(u, t) == /\ t.iv = Latest /\ t.version = interviews[Latest].version
                 /\ t.role = RoleIn(Latest, u)
Coming(u) == \E p \in pushes \cup lost :
                /\ u \in p.to
                /\ p.iv # NoInterview => p.iv = Latest /\ p.version = interviews[Latest].version
Unannounced == \E r \in requests : r.done = "committed"
Informed == Latest # NoInterview =>
              \A u \in Tabs \ joining, t \in Store : t = tab[u] => Current(u, t) \/ Coming(u) \/ Unannounced

\* What was lost was, or would have been, of the last interview.
LostOnes == \A p \in lost : p.iv # NoInterview

LEMMA LostStep ==
    ASSUME Typed, LoadsKnow, LostOnes, [Next]_vars
    PROVE  LostOnes'
<1>1. \A p \in pushes : PushReads(p) \/ PushSends(p) => lost' = lost
  BY DEF PushReads, PushSends
<1>2. ASSUME NEW p \in pushes, PushFails(p) PROVE LostOnes'
  <2>1. WithRow(p).iv = Latest
    BY DEF WithRow, Typed, Push
  <2> QED
    BY <1>2, <2>1 DEF PushFails, LostOnes
<1>3. \A u \in Users : BeginStart(u) \/ BeginChange(u) => lost' = lost
  BY Begins
<1>4. \A u \in Users : Rejoin(u) => lost' = lost
  BY DEF Rejoin
<1>5. \A r \in requests : Commit(r) \/ Announce(r) \/ Answer(r) => lost' = lost
  BY DEF Commit, Announce, Answer, socketVars
<1>6. \A u \in Tabs : ServeLoad(u) \/ LoadReturns(u) \/ LoadFails(u) => lost' = lost
  BY Loads
<1>7. Tick \/ UNCHANGED vars => lost' = lost
  BY DEF Tick, vars, socketVars
<1>8. lost' = lost => LostOnes'
  BY DEF LostOnes
<1> QED
  BY <1>1, <1>2, <1>3, <1>4, <1>5, <1>6, <1>7, <1>8 DEF Next

\* The newest state there is cannot be replaced.
LEMMA CurrentStays ==
    ASSUME Typed, Latest # NoInterview, NEW u \in Tabs, NEW t \in Store, t = tab[u], Current(u, t), Told(u)
    PROVE  tab'[u].iv = t.iv /\ tab'[u].version = t.version /\ tab'[u].role = t.role
<1>1. CASE Kept(u)
  BY <1>1 DEF Kept
<1>2. CASE Failed(u)
  BY <1>2 DEF Failed, Store
<1>3. ASSUME NEW s \in State, IsRight(u, s), Sent(u, s) \/ Viewed(u, s) \/ Served(u, s)
      PROVE  tab'[u].iv = t.iv /\ tab'[u].version = t.version /\ tab'[u].role = t.role
  <2>1. Latest \in DOMAIN interviews /\ interviews[Latest].version \in Nat
    BY Indices DEF NoInterview, Row
  <2>2. s.iv \in 1..Latest /\ s.version <= interviews[s.iv].version /\ s.version \in Nat
    BY <1>3, Indices DEF IsRight, Was, State
  <2>3. ~IsNewerState(t, s)
    BY <2>1, <2>2, Indices DEF IsNewerState, Current
  <2> QED
    BY <1>3, <2>3, NewState, NewView DEF Sent, Viewed, Served
<1> QED
  BY <1>1, <1>2, <1>3 DEF Told

\* Sending the newest state to a tab makes it show it.
LEMMA SentIsCurrent ==
    ASSUME Typed, TabsKnow, Latest # NoInterview, NEW u \in Tabs, NEW t \in Store, t = tab[u],
           NEW s \in State, Current(u, s), NEW next, next = ApplyState(t, s)
    PROVE  next.iv = s.iv /\ next.version = s.version /\ next.role = s.role
<1>1. CASE IsNewerState(t, s)
  BY <1>1, NewState
<1>2. CASE ~IsNewerState(t, s)
  <2>1. Latest \in Nat /\ Latest > 0 /\ Latest \in DOMAIN interviews /\ interviews[Latest].version \in Nat
    BY Indices DEF NoInterview, Row
  <2>2. s.iv = Latest /\ s.version = interviews[Latest].version /\ s.role = RoleIn(Latest, u)
    BY DEF Current
  <2>3. t.iv \in Nat /\ t.version \in Nat
    BY DEF Store
  <2>4. ~(Latest > t.iv) /\ (t.iv = Latest => ~(interviews[Latest].version > t.version))
    BY <1>2, <2>2 DEF IsNewerState
  <2>5. IsRight(u, t)
    BY <2>1, <2>3, <2>4 DEF TabsKnow, NoInterview
  <2>6. t.iv \in 1..Latest /\ t.version <= interviews[t.iv].version
    BY <2>5, Indices DEF IsRight, Was
  <2>7. t.iv = Latest /\ t.version = interviews[Latest].version
    BY <2>1, <2>3, <2>4, <2>6
  <2>8. t.role = RoleIn(Latest, u)
    BY <2>5, <2>7 DEF IsRight
  <2>9. next = t
    BY <1>2, NewState
  <2> QED
    BY <2>2, <2>7, <2>8, <2>9
<1> QED
  BY <1>1, <1>2

LEMMA InformedStep ==
    ASSUME Typed, LoadsKnow, TabsKnow, Informed, [Next]_vars
    PROVE  Informed'
<1> SUFFICES ASSUME Latest' # NoInterview, NEW u \in Tabs \ joining', NEW next \in Store, next = tab'[u]
             PROVE  (Current(u, next) \/ Coming(u) \/ Unannounced)'
  BY DEF Informed
<1> DEFINE Goal == (Current(u, next) \/ Coming(u) \/ Unannounced)'
<1> SUFFICES Goal
  OBVIOUS
<1>0. PICK t \in Store : t = tab[u]
  BY DEF Typed
<1>1. ASSUME UNCHANGED <<interviews, pushes, lost>>, joining' = joining,
             \A r \in requests : r.done = "committed" => r \in requests'
      PROVE  Goal
  <2>1. Latest # NoInterview
    BY <1>1 DEF Latest
  <2>2. Told(u)
    BY TabSteps
  <2>3. CASE Current(u, t)
    <3>1. next.iv = t.iv /\ next.version = t.version /\ next.role = t.role
      BY <1>0, <2>1, <2>2, <2>3, CurrentStays
    <3>2. Current(u, next)
      BY <2>3, <3>1 DEF Current
    <3>3. Current(u, next)'
      BY <1>1, <3>2 DEF Current, Latest, RoleIn
    <3> QED
      BY <3>3
  <2>4. CASE Coming(u)
    BY <1>1, <2>4 DEF Coming, Latest
  <2>5. CASE Unannounced
    BY <1>1, <2>5 DEF Unannounced
  <2> QED
    BY <1>0, <1>1, <2>1, <2>3, <2>4, <2>5 DEF Informed
<1>2. CASE Tick
  BY <1>1, <1>2 DEF Tick, socketVars
<1>3. ASSUME NEW w \in Users, BeginStart(w) \/ BeginChange(w) PROVE Goal
  BY <1>1, <1>3, Begins
<1>4. ASSUME NEW w \in Users, Rejoin(w) PROVE Goal
  <2>1. PICK q : q = [to |-> {w}, iv |-> NoInterview, version |-> 0]
    OBVIOUS
  <2>2. /\ pushes' = IF w \in Tabs /\ Latest # NoInterview THEN pushes \cup {q} ELSE pushes
        /\ UNCHANGED <<interviews, requests, lost, tab>> /\ joining' = joining \ {w}
    BY <1>4, <2>1 DEF Rejoin, serverVars, tabVars
  <2>3. Latest # NoInterview /\ q.to = {w} /\ q.iv = NoInterview
    BY <2>1, <2>2 DEF Latest
  <2>4. CASE w = u
    <3>1. q \in pushes'
      BY <2>2, <2>3, <2>4
    <3> QED
      BY <2>3, <2>4, <3>1 DEF Coming
  <2>5. CASE w # u
    <3>1. Current(u, t) \/ Coming(u) \/ Unannounced
      BY <1>0, <2>2, <2>3, <2>5 DEF Informed
    <3>2. Current(u, t) => Current(u, next)'
      BY <1>0, <2>2 DEF Current, Latest, RoleIn
    <3>3. Coming(u) => Coming(u)'
      BY <2>2 DEF Coming, Latest
    <3>4. Unannounced => Unannounced'
      BY <2>2 DEF Unannounced
    <3> QED
      BY <3>1, <3>2, <3>3, <3>4
  <2> QED
    BY <2>4, <2>5
<1>5. ASSUME NEW r \in requests, Commit(r) PROVE Goal
  <2>1. CASE Refuses(r)
    <3>1. r.done = "nothing" /\ UNCHANGED <<joining, pushes, lost>>
      BY <1>5 DEF Commit, socketVars
    <3> QED
      BY <1>1, <2>1, <3>1 DEF Refuses
  <2>2. ASSUME NEW i, NEW version, Accepted(r, i, version) PROVE Goal
    BY <2>2 DEF Accepted, Unannounced
  <2> HIDE DEF Goal
  <2> QED
    BY <1>5, <2>1, <2>2, Commits DEF Changes
<1>6. ASSUME NEW r \in requests, Announce(r) PROVE Goal
  <2>1. PICK new \in pushes' : new.to = Tabs \ joining' /\ new.iv = NoInterview
    BY <1>6, Announces
  <2> QED
    BY <2>1 DEF Coming
<1>7. ASSUME NEW r \in requests, Answer(r) PROVE Goal
  BY <1>1, <1>7, Answers
<1>8. ASSUME NEW p \in pushes, PushReads(p) \/ PushFails(p) PROVE Goal
  <2>1. Latest # NoInterview /\ UNCHANGED <<interviews, requests, joining, tab>>
    BY <1>8 DEF PushReads, PushFails, serverVars, tabVars
  <2>2. PICK q : q = IF p.iv = NoInterview THEN WithRow(p) ELSE p
    OBVIOUS
  <2>3. pushes' \cup lost' = ((pushes \ {p}) \cup {q}) \cup lost
    BY <1>8, <2>2 DEF PushReads, PushFails
  <2>4. /\ q.to = p.to
        /\ IF p.iv = NoInterview THEN q.iv = Latest /\ q.version = interviews[Latest].version
           ELSE q = p
    BY <2>2 DEF WithRow, Typed, Push
  <2>5. Current(u, t) \/ Coming(u) \/ Unannounced
    BY <1>0, <2>1 DEF Informed
  <2>6. Current(u, t) => Current(u, next)'
    BY <1>0, <2>1 DEF Current, Latest, RoleIn
  <2>7. Coming(u) => Coming(u)'
    <3>1. SUFFICES ASSUME NEW a \in pushes \cup lost, u \in a.to,
                          a.iv # NoInterview => a.iv = Latest /\ a.version = interviews[Latest].version
                   PROVE  Coming(u)'
      BY DEF Coming
    <3>2. CASE a = p
      BY <2>1, <2>3, <2>4, <3>1, <3>2 DEF Coming, Latest
    <3>3. CASE a # p
      BY <2>1, <2>3, <3>1, <3>3 DEF Coming, Latest
    <3> QED
      BY <3>2, <3>3
  <2>8. Unannounced => Unannounced'
    BY <2>1 DEF Unannounced
  <2> QED
    BY <2>5, <2>6, <2>7, <2>8
<1>9. ASSUME NEW p \in pushes, PushSends(p) PROVE Goal
  <2>1. p.iv # NoInterview /\ pushes' = pushes \ {p} /\ UNCHANGED <<interviews, requests, joining, lost>>
    BY <1>9, Sends DEF PushSends
  <2>2. Latest # NoInterview /\ Latest' = Latest
    BY <2>1 DEF Latest
  <2>3. ASSUME NEW s, Current(u, s), next.iv = s.iv, next.version = s.version, next.role = s.role PROVE Goal
    <3>1. Current(u, next)
      BY <2>3 DEF Current
    <3>2. Current(u, next)'
      BY <2>1, <3>1 DEF Current, Latest, RoleIn
    <3> QED
      BY <3>2
  <2>4. CASE Current(u, t)
    <3>1. Told(u)
      BY TabSteps
    <3> QED
      BY <1>0, <2>2, <2>3, <2>4, <3>1, CurrentStays
  <2>5. CASE Unannounced
    BY <2>1, <2>5 DEF Unannounced
  <2>6. ASSUME NEW a \in pushes \cup lost, u \in a.to,
               a.iv # NoInterview => a.iv = Latest /\ a.version = interviews[Latest].version
        PROVE  Goal
    <3>1. CASE a # p
      BY <2>1, <2>6, <3>1 DEF Coming, Latest
    <3>2. CASE a = p
      <4>1. PICK s \in State : /\ s.iv = p.iv /\ s.version = p.version /\ s.role = RoleIn(p.iv, u)
                               /\ Sent(u, s)
        BY <1>9, <2>6, <3>2, Sends
      <4>2. Current(u, s)
        BY <2>1, <2>6, <3>2, <4>1 DEF Current
      <4>3. next = ApplyState(t, s)
        BY <1>0, <4>1 DEF Sent
      <4>4. next.iv = s.iv /\ next.version = s.version /\ next.role = s.role
        BY <1>0, <2>2, <4>2, <4>3, SentIsCurrent
      <4> QED
        BY <2>3, <4>2, <4>4
    <3> QED
      BY <3>1, <3>2
  <2>7. Current(u, t) \/ Coming(u) \/ Unannounced
    BY <1>0, <2>1, <2>2 DEF Informed
  <2> HIDE DEF Goal
  <2> QED
    BY <2>4, <2>5, <2>6, <2>7 DEF Coming
<1>10. ASSUME NEW w \in Tabs, ServeLoad(w) \/ LoadReturns(w) \/ LoadFails(w) PROVE Goal
  BY <1>1, <1>10, Loads
<1>11. CASE UNCHANGED vars
  BY <1>1, <1>11 DEF vars, serverVars, socketVars
<1> HIDE DEF Goal
<1> QED
  BY <1>2, <1>3, <1>4, <1>5, <1>6, <1>7, <1>8, <1>9, <1>10, <1>11 DEF Next

-----------------------------------------------------------------------------
(* Caps. *)

\* At most one interview is active, which the index makes sure of.
OneRunning == \A i, j \in Running : i = j

\* A cap is as an interview makes it, or the socket will be closed by an announcement.
CapsKept == \A u \in Users \ (joining \cup missed) :
               \/ capped[u] = Cap(u)
               \/ \E r \in requests : r.done = "committed" /\ u \in r.affected

LEMMA StartedRows ==
    ASSUME Typed, NEW r \in requests, NEW one \in Row, Starts(r, one)
    PROVE  /\ Running' = {Latest + 1} /\ interviews'[Latest + 1] = one
           /\ DOMAIN interviews' = DOMAIN interviews \cup {Latest + 1} /\ Latest + 1 \notin DOMAIN interviews
           /\ \A i \in DOMAIN interviews : interviews'[i] = interviews[i]
<1>1. interviews \in Seq(Row) /\ interviews' = Append(interviews, one) /\ one.status = "active" /\ Running = {}
  BY DEF Typed, Starts
<1>2. DOMAIN interviews = 1..Latest /\ Latest \in Nat
  BY Indices
<1>3. DOMAIN interviews' = 1..(Latest + 1) /\ interviews'[Latest + 1] = one
  BY <1>1, <1>2 DEF Latest
<1>4. \A i \in DOMAIN interviews : interviews'[i] = interviews[i]
  BY <1>1, <1>2 DEF Latest
<1>5. DOMAIN interviews' = DOMAIN interviews \cup {Latest + 1} /\ Latest + 1 \notin DOMAIN interviews
  BY <1>2, <1>3
<1>6. Running' = {Latest + 1}
  BY <1>1, <1>3, <1>4, <1>5 DEF Running
<1> QED
  BY <1>3, <1>4, <1>5, <1>6

LEMMA ChangedRows ==
    ASSUME Typed, NEW r \in requests, Wants(r), NEW next \in Row, Changes(r, next)
    PROVE  /\ r.iv \in DOMAIN interviews /\ interviews[r.iv] \in Row /\ interviews'[r.iv] = next
           /\ DOMAIN interviews' = DOMAIN interviews
           /\ \A i \in DOMAIN interviews : i # r.iv => interviews'[i] = interviews[i]
  BY Indices DEF Changes, Wants, Typed

LEMMA OneRunningStep ==
    ASSUME Typed, OneRunning, [Next]_vars
    PROVE  OneRunning'
<1>1. CASE UNCHANGED interviews
  BY <1>1 DEF OneRunning, Running
<1>2. ASSUME NEW r \in requests, Commit(r) PROVE OneRunning'
  <2>1. CASE Refuses(r)
    BY <1>1, <2>1 DEF Refuses
  <2>2. ASSUME NEW one \in Row, Starts(r, one) PROVE OneRunning'
    BY <2>2, StartedRows DEF OneRunning
  <2>3. ASSUME NEW next \in Row, Changes(r, next) PROVE OneRunning'
    <3>1. Wants(r)
      BY <1>2, Commits
    <3>2. next.status = "active" => interviews[r.iv].status = "active"
      BY <2>3 DEF Changes, Writes
    <3>3. Running' \subseteq Running
      BY <2>3, <3>1, <3>2, ChangedRows DEF Running
    <3> QED
      BY <3>3 DEF OneRunning
  <2> QED
    BY <1>2, <2>1, <2>2, <2>3, Commits
<1>3. Tick => UNCHANGED interviews
  BY DEF Tick
<1>4. \A u \in Users : BeginStart(u) \/ BeginChange(u) \/ Rejoin(u) => UNCHANGED interviews
  BY SMTT(30) DEF BeginStart, BeginChange, Rejoin, Begin, serverVars
<1>5. ASSUME NEW r \in requests, Announce(r) \/ Answer(r) PROVE UNCHANGED interviews
  <2>1. CASE Announce(r)
    BY <2>1 DEF Announce
  <2>2. CASE Answer(r)
    BY <2>2 DEF Answer
  <2> QED
    BY <1>5, <2>1, <2>2
<1>6. \A p \in pushes : PushReads(p) \/ PushSends(p) \/ PushFails(p) => UNCHANGED interviews
  BY DEF PushReads, PushSends, PushFails, serverVars
<1>7. \A u \in Tabs : ServeLoad(u) \/ LoadReturns(u) \/ LoadFails(u) => UNCHANGED interviews
  BY DEF ServeLoad, LoadReturns, LoadFails, serverVars
<1>8. UNCHANGED vars => UNCHANGED interviews
  BY DEF vars, serverVars
<1> QED
  BY <1>1, <1>2, <1>3, <1>4, <1>5, <1>6, <1>7, <1>8 DEF Next

\* Whose cap a commit changes has their socket closed, or is one of those history knows as missed.
LEMMA CapStays ==
    ASSUME Typed, OneRunning, NEW r \in requests, Commit(r), NEW u \in Users, u \notin missed', u \notin Affected(r)
    PROVE  Cap(u)' <=> Cap(u)
<1>1. Wants(r)
  BY Commits
<1>2. CASE Refuses(r)
  BY <1>2 DEF Refuses, Cap, Running, WasCandidate
<1>3. ASSUME NEW one \in Row, Starts(r, one) PROVE Cap(u)' <=> Cap(u)
  <2>1. Cap(u) <=> WasCandidate(u)
    BY <1>3 DEF Starts, Cap
  <2>2. WasCandidate(u)' <=> WasCandidate(u)
    <3>1. one.status # "ended"
      BY <1>3 DEF Starts
    <3> QED
      BY <1>3, <3>1, StartedRows DEF WasCandidate
  <2>3. Cap(u)' <=> IF one.people[u] # "none" THEN one.people[u] = "observer" ELSE WasCandidate(u)'
    BY <1>3, StartedRows DEF Cap
  <2>4. one.people[u] = r.arg[u] /\ r.kind = "start" /\ ~(WasCandidate(u) /\ r.arg[u] = "interviewer")
    BY <1>3 DEF Starts
  <2>5. r.arg[u] \in {"none", "interviewer"}
    BY <1>1, <2>4 DEF Wants, Affected, Roles
  <2> QED
    BY <2>1, <2>2, <2>3, <2>4, <2>5
<1>4. ASSUME NEW next \in Row, Changes(r, next) PROVE Cap(u)' <=> Cap(u)
  <2>1. PICK row \in Row : row = interviews[r.iv]
    BY <1>1, <1>4, ChangedRows
  <2>2. Writes(r, row, next)
    BY <1>4, <2>1 DEF Changes
  <2>3. ASSUME next.status = row.status, next.people[u] = row.people[u] PROVE Cap(u)' <=> Cap(u)
    <3>1. Running' = Running /\ \A i \in DOMAIN interviews : interviews'[i].people[u] = interviews[i].people[u]
      BY <1>1, <1>4, <2>1, <2>3, ChangedRows DEF Running
    <3>2. WasCandidate(u)' <=> WasCandidate(u)
      BY <1>1, <1>4, <2>1, <2>3, ChangedRows DEF WasCandidate
    <3> QED
      BY <3>1, <3>2 DEF Cap, Running
  <2>4. CASE r.kind \in {"people", "end"}
    <3>1. /\ row.people[u] = r.people[u]
          /\ WasCandidate(u) => r.people[u] # "interviewer" /\ (r.kind = "people" => r.arg[u] # "interviewer")
      BY <1>4, <2>1, <2>4 DEF Changes, Missed
    <3>2. r.people[u] \in {"none", "interviewer"} /\ (r.kind = "people" => r.arg[u] \in {"none", "interviewer"})
      BY <1>1, <2>4 DEF Wants, Affected, Roles
    <3>3. next.people[u] = row.people[u] \/ (r.kind = "people" /\ next.people[u] = r.arg[u])
      BY <2>2, <2>4 DEF Writes
    <3>4. row.people[u] \in {"none", "interviewer"} /\ next.people[u] \in {"none", "interviewer"}
      BY <3>1, <3>2, <3>3
    <3>5. WasCandidate(u)' <=> WasCandidate(u)
      BY <1>1, <1>4, <2>1, <3>4, ChangedRows DEF WasCandidate, Writes
    <3>6. WasCandidate(u) => row.people[u] = "none" /\ next.people[u] = "none"
      BY <3>1, <3>2, <3>3, <3>4
    <3>7. CASE r.iv \in Running
      <4>1. Running = {r.iv} /\ Running' \subseteq {r.iv}
        BY <1>1, <1>4, <3>7, ChangedRows DEF OneRunning, Running
      <4>2. Cap(u) <=> IF row.people[u] # "none" THEN row.people[u] = "observer" ELSE WasCandidate(u)
        BY <2>1, <4>1 DEF Cap
      <4>3. CASE r.iv \in Running'
        <5>1. Cap(u)' <=> IF next.people[u] # "none" THEN next.people[u] = "observer" ELSE WasCandidate(u)'
          BY <1>1, <1>4, <4>1, <4>3, ChangedRows DEF Cap
        <5> QED
          BY <3>4, <3>5, <3>6, <4>2, <5>1
      <4>4. CASE r.iv \notin Running'
        <5>1. Cap(u)' <=> WasCandidate(u)'
          BY <4>1, <4>4 DEF Cap
        <5> QED
          BY <3>4, <3>5, <3>6, <4>2, <5>1
      <4> QED
        BY <4>3, <4>4
    <3>8. CASE r.iv \notin Running
      <4>1. row.status # "active" /\ next.status # "active"
        BY <1>1, <1>4, <2>1, <2>2, <3>8, ChangedRows DEF Running, Writes
      <4>2. Running' = Running /\ r.iv \notin Running'
        BY <1>1, <1>4, <2>1, <4>1, ChangedRows DEF Running
      <4>3. \A i \in Running : interviews'[i] = interviews[i]
        BY <1>1, <1>4, <3>8, ChangedRows DEF Running
      <4> QED
        BY <3>5, <4>2, <4>3 DEF Cap
    <3> QED
      BY <3>7, <3>8
  <2>5. CASE r.kind \notin {"people", "end"}
    BY <2>2, <2>3, <2>5 DEF Writes
  <2> QED
    BY <2>4, <2>5
<1> QED
  BY <1>2, <1>3, <1>4, Commits

LEMMA CapsKeptStep ==
    ASSUME Typed, LoadsKnow, OneRunning, CapsKept, [Next]_vars
    PROVE  CapsKept'
<1> DEFINE Closing(u) == \E r \in requests : r.done = "committed" /\ u \in r.affected
           Kept1(u) == (capped[u] <=> Cap(u)) \/ Closing(u)
           Caps == \A u \in Users \ (joining \cup missed) : Kept1(u)
<1>0. (\A u \in Users : Cap(u) \in BOOLEAN /\ Cap(u)' \in BOOLEAN) /\ capped \in [Users -> BOOLEAN]
  BY DEF Cap, WasCandidate, Typed
<1>1. Caps
  BY <1>0 DEF CapsKept
<1>2. SUFFICES Caps'
  <2>1. capped' \in [Users -> BOOLEAN]
    BY TypedStep DEF Typed
  <2> QED
    BY <1>0, <1>2, <2>1 DEF CapsKept
<1>3. ASSUME UNCHANGED interviews PROVE \A u \in Users : Cap(u)' = Cap(u)
  BY <1>3 DEF Cap, Running, WasCandidate
<1>4. ASSUME UNCHANGED <<interviews, capped, joining, missed>>,
             \A r \in requests : r.done = "committed" => r \in requests'
      PROVE  Caps'
  BY <1>1, <1>3, <1>4
<1>5. ASSUME NEW r \in requests, Commit(r) PROVE Caps'
  <2>1. r.done = "nothing" /\ UNCHANGED <<capped, joining>>
    BY <1>5 DEF Commit, socketVars
  <2>2. missed \subseteq missed' /\ \A q \in requests : q.done = "committed" => q \in requests'
    BY <1>5, <2>1, Commits DEF Refuses, Starts, Changes, Accepted
  <2>3. ASSUME NEW u \in Users \ (joining \cup missed'), u \in Affected(r), ~Refuses(r) PROVE Closing(u)'
    <3>1. PICK i, version : Accepted(r, i, version)
      BY <1>5, <2>3, Commits DEF Changes
    <3> QED
      BY <2>3, <3>1 DEF Accepted
  <2>4. ASSUME NEW u \in Users \ (joining \cup missed') PROVE Kept1(u)'
    <3>1. Kept1(u)
      BY <1>1, <2>2, <2>4
    <3>2. Closing(u) => Closing(u)'
      BY <2>2
    <3>3. CASE u \in Affected(r) /\ ~Refuses(r)
      BY <2>3, <2>4, <3>3
    <3>4. CASE Refuses(r)
      <4>1. Cap(u)' = Cap(u)
        BY <1>3, <2>4, <3>4 DEF Refuses
      <4> QED
        BY <2>1, <3>1, <3>2, <4>1
    <3>5. CASE u \notin Affected(r)
      <4>1. Cap(u)' <=> Cap(u)
        BY <1>5, <2>4, <3>5, CapStays
      <4> QED
        BY <2>1, <3>1, <3>2, <4>1
    <3> QED
      BY <3>3, <3>4, <3>5
  <2> QED
    BY <2>1, <2>4
<1>6. ASSUME NEW r \in requests, Announce(r) PROVE Caps'
  <2>1. /\ UNCHANGED <<interviews, capped, missed>> /\ joining' = joining \cup r.affected
        /\ requests \ {r} \subseteq requests'
    BY <1>6, Announces
  <2>2. ASSUME NEW u \in Users \ (joining' \cup missed') PROVE Kept1(u)'
    <3>1. u \notin r.affected /\ u \in Users \ (joining \cup missed)
      BY <2>1, <2>2
    <3>2. Closing(u) => Closing(u)'
      BY <2>1, <3>1
    <3> QED
      BY <1>1, <1>3, <2>1, <3>1, <3>2
  <2> QED
    BY <2>2
<1>7. ASSUME NEW w \in Users, Rejoin(w) PROVE Caps'
  <2>1. capped' = [capped EXCEPT ![w] = Cap(w)] /\ joining' = joining \ {w} /\ UNCHANGED <<interviews, requests, missed>>
    BY <1>7 DEF Rejoin, serverVars
  <2>2. ASSUME NEW u \in Users \ (joining' \cup missed') PROVE Kept1(u)'
    <3>1. CASE u = w
      BY <1>0, <1>3, <2>1, <3>1
    <3>2. CASE u # w
      BY <1>0, <1>1, <1>3, <2>1, <2>2, <3>2
    <3> QED
      BY <3>1, <3>2
  <2> QED
    BY <2>2
<1>8. ASSUME NEW r \in requests, Answer(r) PROVE Caps'
  BY <1>4, <1>8, Answers
<1>9. Tick => Caps'
  BY <1>4 DEF Tick, socketVars
<1>10. ASSUME NEW u \in Users, BeginStart(u) \/ BeginChange(u) PROVE Caps'
  BY <1>4, <1>10, Begins
<1>11. ASSUME NEW p \in pushes, PushReads(p) \/ PushSends(p) \/ PushFails(p) PROVE Caps'
  BY <1>4, <1>11 DEF PushReads, PushSends, PushFails, serverVars
<1>12. ASSUME NEW u \in Tabs, ServeLoad(u) \/ LoadReturns(u) \/ LoadFails(u) PROVE Caps'
  BY <1>4, <1>12 DEF ServeLoad, LoadReturns, LoadFails, serverVars, socketVars
<1>13. UNCHANGED vars => Caps'
  BY <1>4 DEF vars, serverVars, socketVars
<1> HIDE DEF Caps
<1> QED
  BY <1>5, <1>6, <1>7, <1>8, <1>9, <1>10, <1>11, <1>12, <1>13 DEF Next

-----------------------------------------------------------------------------
(* Clock and hints. *)

\* The moment up to which a row's clock runs.
Until(row, time) == IF row.endedAt # Never THEN row.endedAt
                    ELSE IF row.pausedAt # Never THEN row.pausedAt ELSE time

\* A row tells how long its clock has run, and what was revealed.
Tells(row, time, length, hints) ==
    /\ row.hints = hints /\ length = Until(row, time) - row.startedAt - row.pausedMs
    /\ row.status = "ended" => row.pausedAt = Never

Clocked ==
    /\ ran \in Seq(Nat) /\ Len(ran) = Latest /\ revealed \in Seq(SUBSET Hints) /\ Len(revealed) = Latest
    /\ \A i \in DOMAIN interviews :
         /\ interviews[i].status = "active" <=> interviews[i].endedAt = Never
         /\ i \notin raced => Tells(interviews[i], now, ran[i], revealed[i])

\* The rows of the step before, with a time, lengths and hints of their own.
LEMMA ClockedStep ==
    ASSUME Typed, Clocked, [Next]_vars
    PROVE  Clocked'
<1> DEFINE Fine == /\ ran' \in Seq(Nat) /\ Len(ran') = Latest'
                   /\ revealed' \in Seq(SUBSET Hints) /\ Len(revealed') = Latest'
                   /\ \A i \in DOMAIN interviews' :
                        /\ interviews'[i].status = "active" <=> interviews'[i].endedAt = Never
                        /\ i \notin raced' => /\ interviews'[i].hints = revealed'[i]
                                              /\ ran'[i] = Until(interviews'[i], now') - interviews'[i].startedAt - interviews'[i].pausedMs
                                              /\ interviews'[i].status = "ended" => interviews'[i].pausedAt = Never
<1> SUFFICES Fine
  BY DEF Clocked, Tells, Until
<1>0. /\ ran \in Seq(Nat) /\ Len(ran) = Latest /\ revealed \in Seq(SUBSET Hints) /\ Len(revealed) = Latest
      /\ Latest \in Nat /\ DOMAIN interviews = 1..Latest /\ now \in Nat
      /\ DOMAIN ran = 1..Latest /\ DOMAIN revealed = 1..Latest
  BY Indices DEF Clocked, Typed
<1>1. CASE UNCHANGED <<now, interviews, ran, revealed, raced>>
  BY <1>0, <1>1 DEF Clocked, Tells, Until, Latest
<1>2. CASE Tick
  <2>1. /\ now' = now + 1 /\ UNCHANGED <<interviews, revealed, raced>>
        /\ ran' = [i \in DOMAIN ran |-> IF i \in Running /\ interviews[i].pausedAt = Never THEN ran[i] + 1 ELSE ran[i]]
    BY <1>2 DEF Tick
  <2>2. \A i \in 1..Latest : ran[i] \in Nat
    BY <1>0
  <2>3. DOMAIN ran' = 1..Latest /\ \A i \in 1..Latest : ran'[i] \in Nat
    BY <1>0, <2>1, <2>2
  <2>4. ran' \in Seq(Nat) /\ Len(ran') = Latest
    BY <1>0, <2>1, <2>3
  <2>5. ASSUME NEW i \in DOMAIN interviews
        PROVE  /\ interviews[i].status = "active" <=> interviews[i].endedAt = Never
               /\ i \notin raced => /\ interviews[i].hints = revealed[i]
                                    /\ ran'[i] = Until(interviews[i], now + 1) - interviews[i].startedAt - interviews[i].pausedMs
                                    /\ interviews[i].status = "ended" => interviews[i].pausedAt = Never
    <3>1. PICK row \in Row : row = interviews[i]
      BY Indices
    <3>2. /\ row.status = "active" <=> row.endedAt = Never
          /\ i \notin raced => Tells(row, now, ran[i], revealed[i])
      BY <3>1 DEF Clocked
    <3>3. ran'[i] = IF row.status = "active" /\ row.pausedAt = Never THEN ran[i] + 1 ELSE ran[i]
      BY <1>0, <2>1, <3>1 DEF Running
    <3>4. Until(row, now + 1) = IF row.endedAt = Never /\ row.pausedAt = Never THEN now + 1 ELSE Until(row, now)
      BY DEF Until
    <3>5. row.startedAt \in Int /\ row.pausedMs \in Int /\ Until(row, now) \in Int
      BY <1>0 DEF Row, Until
    <3>6. row.endedAt = Never /\ row.pausedAt = Never => Until(row, now) = now
      BY DEF Until
    <3>7. ASSUME i \notin raced PROVE ran'[i] = Until(row, now + 1) - row.startedAt - row.pausedMs
      <4>1. ran[i] = Until(row, now) - row.startedAt - row.pausedMs
        BY <3>2, <3>7 DEF Tells
      <4>2. CASE row.endedAt = Never /\ row.pausedAt = Never
        BY SMTT(30), <1>0, <3>2, <3>3, <3>4, <3>5, <3>6, <4>1, <4>2
      <4>3. CASE ~(row.endedAt = Never /\ row.pausedAt = Never)
        BY <3>2, <3>3, <3>4, <4>1, <4>3
      <4> QED
        BY <4>2, <4>3
    <3> QED
      BY <3>1, <3>2, <3>7 DEF Tells
  <2>6. Latest' = Latest /\ interviews' = interviews /\ revealed' = revealed
    BY <2>1 DEF Latest
  <2> QED
    BY <1>0, <2>1, <2>4, <2>5, <2>6
<1>3. ASSUME NEW r \in requests, Commit(r) PROVE Fine
  <2>0. Wants(r) /\ now' = now
    BY <1>3, Commits
  <2>1. CASE Refuses(r)
    BY <1>1, <2>0, <2>1 DEF Refuses
  <2>2. ASSUME NEW one \in Row, Starts(r, one) PROVE Fine
    <3>1. /\ ran' = Append(ran, 0) /\ revealed' = Append(revealed, {}) /\ raced' = raced
          /\ interviews' = Append(interviews, one) /\ interviews \in Seq(Row)
      BY <2>2 DEF Starts, Typed
    <3>2. Latest' = Latest + 1 /\ DOMAIN interviews' = 1..(Latest + 1)
      BY <1>0, <3>1 DEF Latest
    <3>3. /\ ran' \in Seq(Nat) /\ Len(ran') = Latest + 1 /\ ran'[Latest + 1] = 0
          /\ \A i \in 1..Latest : ran'[i] = ran[i]
      BY <1>0, <3>1
    <3>4. /\ revealed' \in Seq(SUBSET Hints) /\ Len(revealed') = Latest + 1 /\ revealed'[Latest + 1] = {}
          /\ \A i \in 1..Latest : revealed'[i] = revealed[i]
      BY <1>0, <3>1
    <3>5. interviews'[Latest + 1] = one /\ \A i \in 1..Latest : interviews'[i] = interviews[i]
      BY <1>0, <2>2, StartedRows
    <3>6. /\ one.status = "active" /\ one.startedAt = now /\ one.pausedAt = Never /\ one.pausedMs = 0
          /\ one.endedAt = Never /\ one.hints = {}
      BY <2>2 DEF Starts
    <3>7. 0 = Until(one, now) - one.startedAt - one.pausedMs
      BY <1>0, <3>6 DEF Until
    <3>8. ASSUME NEW i \in DOMAIN interviews'
          PROVE  /\ interviews'[i].status = "active" <=> interviews'[i].endedAt = Never
                 /\ i \notin raced' => /\ interviews'[i].hints = revealed'[i]
                                       /\ ran'[i] = Until(interviews'[i], now') - interviews'[i].startedAt - interviews'[i].pausedMs
                                       /\ interviews'[i].status = "ended" => interviews'[i].pausedAt = Never
      <4>1. CASE i = Latest + 1
        BY <2>0, <3>3, <3>4, <3>5, <3>6, <3>7, <4>1
      <4>2. CASE i # Latest + 1
        <5>1. i \in 1..Latest
          BY <1>0, <3>2, <4>2
        <5>2. /\ interviews[i].status = "active" <=> interviews[i].endedAt = Never
              /\ i \notin raced => Tells(interviews[i], now, ran[i], revealed[i])
          BY <1>0, <5>1 DEF Clocked
        <5> QED
          BY <2>0, <3>1, <3>3, <3>4, <3>5, <5>1, <5>2 DEF Tells
      <4> QED
        BY <4>1, <4>2
    <3> QED
      BY <3>2, <3>3, <3>4, <3>8
  <2>3. ASSUME NEW next \in Row, Changes(r, next) PROVE Fine
    <3>1. PICK i \in 1..Latest : i = r.iv
      BY <1>0, <2>0, <2>3, ChangedRows
    <3>2. PICK row \in Row : row = interviews[i]
      BY <2>0, <2>3, <3>1, ChangedRows
    <3>3. /\ Writes(r, row, next) /\ ran' = ran
          /\ revealed' = IF r.kind = "reveal" THEN [revealed EXCEPT ![i] = revealed[i] \cup {r.arg}] ELSE revealed
          /\ raced' = IF \/ r.kind = "pause" /\ (row.status = "ended" \/ row.pausedAt # Never)
                         \/ r.kind = "reveal" /\ row.hints # r.hints
                         \/ r.kind = "end" /\ row.status = "ended"
                      THEN raced \cup {i} ELSE raced
      BY <2>3, <3>1, <3>2 DEF Changes
    <3>4. /\ interviews'[i] = next /\ DOMAIN interviews' = 1..Latest
          /\ \A j \in 1..Latest : j # i => interviews'[j] = interviews[j]
      BY <1>0, <2>0, <2>3, <3>1, ChangedRows
    <3>5. Latest' = Latest
      <4>1. interviews' = [interviews EXCEPT ![i] = next]
        BY <2>3, <3>1 DEF Changes
      <4> QED
        BY <4>1 DEF Latest, Typed
    <3>6. revealed' \in Seq(SUBSET Hints) /\ Len(revealed') = Latest /\ \A j \in 1..Latest : j # i => revealed'[j] = revealed[j]
      <4>1. CASE r.kind = "reveal"
        <5>3. r.arg \in Hints
          BY <2>0, <4>1 DEF Wants
        <5>4. revealed[i] \in SUBSET Hints
          BY <1>0
        <5>1. PICK set \in SUBSET Hints : set = revealed[i] \cup {r.arg}
          BY <5>3, <5>4
        <5>2. revealed' = [revealed EXCEPT ![i] = set]
          BY <3>3, <4>1, <5>1
        <5> QED
          BY <1>0, <5>2
      <4>2. CASE r.kind # "reveal"
        BY <1>0, <3>3, <4>2
      <4> QED
        BY <4>1, <4>2
    <3>7. /\ row.status = "active" <=> row.endedAt = Never
          /\ i \notin raced => Tells(row, now, ran[i], revealed[i])
      BY <1>0, <3>2 DEF Clocked
    <3>8. next.status = "active" <=> next.endedAt = Never
      BY <1>0, <3>3, <3>7 DEF Writes, Never
    <3>9. ASSUME i \notin raced'
          PROVE  /\ next.hints = revealed'[i] /\ ran[i] = Until(next, now) - next.startedAt - next.pausedMs
                 /\ next.status = "ended" => next.pausedAt = Never
      <4>1. Tells(row, now, ran[i], revealed[i])
        BY <3>3, <3>7, <3>9
      <4>2. /\ r.kind = "pause" => row.status # "ended" /\ row.pausedAt = Never
            /\ r.kind = "reveal" => row.hints = r.hints
            /\ r.kind = "end" => row.status # "ended"
        BY <3>3, <3>9
      <4>3. next.hints = revealed'[i]
        BY <1>0, <3>3, <4>1, <4>2 DEF Writes, Tells
      <4>4. row.status \in {"active", "ended"} /\ now # Never
        BY <1>0 DEF Row, Never
      <4>5. next.status = "ended" => next.pausedAt = Never
        BY <3>3, <4>1, <4>2 DEF Writes, Tells
      <4>6. /\ row.startedAt \in Int /\ row.pausedAt \in Int /\ row.pausedMs \in Int /\ row.endedAt \in Int
            /\ ran[i] = Until(row, now) - row.startedAt - row.pausedMs /\ next.startedAt = row.startedAt
        BY <3>3, <4>1 DEF Row, Tells, Writes
      <4>7. ran[i] = Until(next, now) - next.startedAt - next.pausedMs
        <5>1. CASE r.kind = "pause"
          <6>1. row.endedAt = Never /\ row.pausedAt = Never
            BY <3>7, <4>2, <4>4, <5>1
          <6>2. next.endedAt = Never /\ next.pausedAt = now /\ next.pausedMs = row.pausedMs
            BY <3>3, <5>1, <6>1 DEF Writes
          <6> QED
            BY <1>0, <4>4, <4>6, <6>1, <6>2 DEF Until
        <5>2. CASE r.kind = "resume"
          <6>1. row.pausedAt # Never /\ row.endedAt = Never
            BY <3>3, <3>7, <4>1, <4>4, <5>2 DEF Writes, Tells
          <6>2. next.endedAt = Never /\ next.pausedAt = Never /\ next.pausedMs = row.pausedMs + (now - row.pausedAt)
            BY <3>3, <5>2, <6>1 DEF Writes
          <6> QED
            BY SMTT(30), <1>0, <4>6, <6>1, <6>2 DEF Until
        <5>3. CASE r.kind = "end"
          <6>1. row.endedAt = Never
            BY <3>7, <4>2, <4>4, <5>3
          <6>2. /\ next.endedAt = now
                /\ next.pausedMs = IF row.pausedAt # Never THEN row.pausedMs + (now - row.pausedAt) ELSE row.pausedMs
            BY <3>3, <5>3 DEF Writes
          <6>3. CASE row.pausedAt # Never
            BY SMTT(30), <1>0, <4>4, <4>6, <6>1, <6>2, <6>3 DEF Until
          <6>4. CASE row.pausedAt = Never
            BY <1>0, <4>4, <4>6, <6>1, <6>2, <6>4 DEF Until
          <6> QED
            BY <6>3, <6>4
        <5>4. CASE r.kind \notin {"pause", "resume", "end"}
          <6>1. next.endedAt = row.endedAt /\ next.pausedAt = row.pausedAt /\ next.pausedMs = row.pausedMs
            BY <3>3, <5>4 DEF Writes
          <6> QED
            BY <4>6, <6>1 DEF Until
        <5> QED
          BY <5>1, <5>2, <5>3, <5>4
      <4> QED
        BY <4>3, <4>5, <4>7
    <3>10. ASSUME NEW j \in DOMAIN interviews'
           PROVE  /\ interviews'[j].status = "active" <=> interviews'[j].endedAt = Never
                  /\ j \notin raced' => /\ interviews'[j].hints = revealed'[j]
                                        /\ ran'[j] = Until(interviews'[j], now') - interviews'[j].startedAt - interviews'[j].pausedMs
                                        /\ interviews'[j].status = "ended" => interviews'[j].pausedAt = Never
      <4>1. CASE j = i
        BY <2>0, <3>3, <3>4, <3>8, <3>9, <4>1
      <4>2. CASE j # i
        <5>1. j \in 1..Latest /\ interviews'[j] = interviews[j] /\ revealed'[j] = revealed[j] /\ (j \notin raced' => j \notin raced)
          BY <3>3, <3>4, <3>6, <4>2
        <5>2. /\ interviews[j].status = "active" <=> interviews[j].endedAt = Never
              /\ j \notin raced => Tells(interviews[j], now, ran[j], revealed[j])
          BY <1>0, <5>1 DEF Clocked
        <5> QED
          BY <2>0, <3>3, <5>1, <5>2 DEF Tells
      <4> QED
        BY <4>1, <4>2
    <3> QED
      BY <1>0, <3>3, <3>5, <3>6, <3>10
  <2> HIDE DEF Fine
  <2> QED
    BY <1>3, <2>1, <2>2, <2>3, Commits
<1>4. \A u \in Users : BeginStart(u) \/ BeginChange(u) => UNCHANGED <<now, interviews, ran, revealed, raced>>
  BY Begins
<1>5. \A u \in Users : Rejoin(u) => UNCHANGED <<now, interviews, ran, revealed, raced>>
  BY DEF Rejoin, serverVars
<1>6. ASSUME NEW r \in requests, Announce(r) \/ Answer(r) PROVE UNCHANGED <<now, interviews, ran, revealed, raced>>
  <2>1. CASE Announce(r)
    BY <2>1 DEF Announce
  <2>2. CASE Answer(r)
    BY <2>2 DEF Answer
  <2> QED
    BY <1>6, <2>1, <2>2
<1>7. \A p \in pushes : PushReads(p) \/ PushSends(p) \/ PushFails(p) => UNCHANGED <<now, interviews, ran, revealed, raced>>
  BY DEF PushReads, PushSends, PushFails, serverVars
<1>8. \A u \in Tabs : ServeLoad(u) \/ LoadReturns(u) \/ LoadFails(u) => UNCHANGED <<now, interviews, ran, revealed, raced>>
  BY DEF ServeLoad, LoadReturns, LoadFails, serverVars
<1>9. UNCHANGED vars => UNCHANGED <<now, interviews, ran, revealed, raced>>
  BY DEF vars, serverVars
<1> HIDE DEF Fine
<1> QED
  BY <1>1, <1>2, <1>3, <1>4, <1>5, <1>6, <1>7, <1>8, <1>9 DEF Next

-----------------------------------------------------------------------------
(* The invariant. *)

InterviewInv ==
    /\ Typed /\ LoadsKnow /\ TabsKnow /\ Fetching
    /\ LostOnes /\ Informed /\ OneRunning /\ CapsKept /\ Clocked

LEMMA InvInit == Init => InterviewInv
<1> SUFFICES ASSUME Init PROVE InterviewInv
  OBVIOUS
<1>1. /\ now = 0 /\ interviews = <<>> /\ requests = {} /\ capped = [u \in Users |-> FALSE] /\ joining = {}
      /\ pushes = {} /\ tab = [u \in Tabs |-> Fresh] /\ loads = [u \in Tabs |-> {}]
      /\ ran = <<>> /\ revealed = <<>> /\ raced = {} /\ missed = {} /\ lost = {}
  BY DEF Init
<1>2. Fresh \in Store /\ Fresh.iv = NoInterview /\ Fresh.role = "none" /\ Fresh.questionFor = NoInterview
  BY DEF Fresh, Store, Roles, NoInterview
<1>3. DOMAIN interviews = {} /\ Latest = NoInterview /\ interviews \in Seq(Row)
  BY <1>1 DEF Latest, NoInterview
<1>4. Typed
  BY <1>1, <1>2, <1>3 DEF Typed
<1>5. LoadsKnow
  BY <1>1 DEF LoadsKnow
<1>6. TabsKnow
  BY <1>1, <1>2 DEF TabsKnow
<1>7. Fetching
  BY <1>1, <1>2 DEF Fetching
<1>8. Informed
  BY <1>3 DEF Informed
<1>9. Running = {}
  BY <1>3 DEF Running
<1>10. OneRunning
  BY <1>9 DEF OneRunning
<1>11. CapsKept
  <2>1. \A u \in Users : Cap(u) = FALSE
    BY <1>3, <1>9 DEF Cap, WasCandidate
  <2> QED
    BY <1>1, <2>1 DEF CapsKept
<1>12. Clocked
  BY <1>1, <1>3 DEF Clocked, NoInterview
<1>13. LostOnes
  BY <1>1 DEF LostOnes
<1> QED
  BY <1>4, <1>5, <1>6, <1>7, <1>8, <1>10, <1>11, <1>12, <1>13 DEF InterviewInv

LEMMA InvStep == InterviewInv /\ [Next]_vars => InterviewInv'
<1> SUFFICES ASSUME InterviewInv, [Next]_vars PROVE InterviewInv'
  OBVIOUS
<1>0. Typed /\ LoadsKnow /\ TabsKnow /\ Fetching /\ LostOnes /\ Informed /\ OneRunning /\ CapsKept /\ Clocked
  BY DEF InterviewInv
<1>1. Typed'
  BY <1>0, TypedStep
<1>2. LoadsKnow'
  BY <1>0, LoadsKnowStep
<1>3. TabsKnow'
  BY <1>0, TabsKnowStep
<1>4. Fetching'
  BY <1>0, FetchingStep
<1>5. Informed'
  BY <1>0, InformedStep
<1>6. OneRunning'
  BY <1>0, OneRunningStep
<1>7. CapsKept'
  BY <1>0, CapsKeptStep
<1>8. Clocked'
  BY <1>0, ClockedStep
<1>9. LostOnes'
  BY <1>0, LostStep
<1> QED
  BY <1>1, <1>2, <1>3, <1>4, <1>5, <1>6, <1>7, <1>8, <1>9 DEF InterviewInv

\* InterviewInv is an invariant.
LEMMA Invariant == Spec => []InterviewInv
<1>1. Init => InterviewInv
  BY InvInit
<1>2. InterviewInv /\ [Next]_vars => InterviewInv'
  BY InvStep
<1> QED
  BY <1>1, <1>2, PTL DEF Spec

-----------------------------------------------------------------------------
(* The properties. *)

\* A row's clock, whoever computes it, is the time for which the interview ran, and its hints are
\* those that were revealed, unless a pause, a hint or an end met a row that had changed since it
\* was read (interviews.ts): each of these requests, committed in any order, keeps the sum.
THEOREM ClockAndHints == Spec => []ClockAndHintsHoldUnlessRaced
<1>1. InterviewInv => ClockAndHintsHoldUnlessRaced
  <2> SUFFICES ASSUME InterviewInv, NEW i \in DOMAIN interviews \ raced
               PROVE  Elapsed(interviews[i]) = ran[i] /\ interviews[i].hints = revealed[i]
    BY DEF ClockAndHintsHoldUnlessRaced
  <2>1. Typed /\ Clocked
    BY DEF InterviewInv
  <2>2. PICK row : row = interviews[i]
    OBVIOUS
  <2>3. Tells(row, now, ran[i], revealed[i])
    BY <2>1, <2>2 DEF Clocked
  <2>4. ran[i] \in Nat
    BY <2>1, Indices DEF Clocked
  <2>5. PICK n \in Nat : n = ran[i]
    BY <2>4
  <2>6. n = Until(row, now) - row.startedAt - row.pausedMs
    BY <2>3, <2>5 DEF Tells
  <2>7. Elapsed(row) = Max({0, n})
    BY <2>6 DEF Elapsed, Until
  <2>8. Max({0, n}) = n
    BY DEF Max
  <2> QED
    BY <2>2, <2>3, <2>5, <2>7, <2>8 DEF Tells
<1> QED
  BY <1>1, Invariant, PTL

\* When every committed change has been announced, each connected socket is read-only exactly if an
\* interview makes it so: announce() closes every socket whose cap the commit can have changed, and
\* the new ticket computes the cap again, unless another request changed the role in between.
THEOREM CapsFollow == Spec => []CapsFollowRolesUnlessMissed
<1>1. InterviewInv => CapsFollowRolesUnlessMissed
  BY DEF InterviewInv, CapsKept, CapsFollowRolesUnlessMissed
<1> QED
  BY <1>1, Invariant, PTL

\* A connected tab whose last broadcast has come shows the last interview, its version and the role
\* its user has in it, in whatever order broadcasts, answers and loaded views came: isNewerState
\* refuses no state that is newer than what is shown, and each commit is followed by a broadcast.
\* Only the loss of a broadcast of this very state, which upgrade.ts logs, leaves a tab behind it.
THEOREM TabsAreCurrent == Spec => []ShownIsCurrentUnlessLost
<1>1. InterviewInv => ShownIsCurrentUnlessLost
  <2> SUFFICES ASSUME InterviewInv, pushes = {}, \A r \in requests : r.done # "committed",
                      Latest # NoInterview, NEW u \in Tabs \ joining
               PROVE  \/ /\ tab[u].iv = Latest /\ tab[u].version = interviews[Latest].version
                         /\ tab[u].role = RoleIn(Latest, u)
                      \/ LostTo(u)
    BY DEF ShownIsCurrentUnlessLost
  <2>1. Typed /\ Informed /\ LostOnes
    BY DEF InterviewInv
  <2>2. PICK t \in Store : t = tab[u]
    BY <2>1 DEF Typed
  <2>3. Current(u, t) \/ Coming(u) \/ Unannounced
    BY <2>1, <2>2 DEF Informed
  <2> QED
    BY <2>1, <2>2, <2>3 DEF Current, Coming, Unannounced, LostOnes, LostTo
<1> QED
  BY <1>1, Invariant, PTL

\* An interviewer's tab that asked for the question and waits for no answer has it, unless an answer
\* came while its user's role was another than the one it was made for (InterviewStore.ts): a request
\* that fails is forgotten and asked again, and a state of another role drops both together.
THEOREM QuestionIsFetched == Spec => []QuestionIsFetchedUnlessLate
<1>1. InterviewInv => QuestionIsFetchedUnlessLate
  <2> SUFFICES ASSUME InterviewInv, NEW u \in Tabs, NEW t, t = tab[u],
                      t.role = "interviewer", t.questionFor = t.iv, loads[u] = {}
               PROVE  t.question \/ t.late
    BY DEF QuestionIsFetchedUnlessLate
  <2>1. Typed /\ TabsKnow /\ Fetching
    BY DEF InterviewInv
  <2>2. t \in Store
    BY <2>1 DEF Typed
  <2>3. IsRight(u, t) \/ (t.iv = NoInterview /\ t.role = "none")
    BY <2>1, <2>2 DEF TabsKnow
  <2>4. t.iv # NoInterview
    BY <2>1, <2>3, Indices DEF IsRight, Was, NoInterview
  <2> QED
    BY <2>1, <2>4 DEF Fetching
<1> QED
  BY <1>1, Invariant, PTL
=============================================================================
