----------------------------- MODULE Interview -----------------------------
(***************************************************************************)
(* The interviews of one board: the requests that change them, what is     *)
(* pushed to the tabs in the room, the read-only cap on their sockets and  *)
(* each tab's InterviewStore.                                              *)
(*   apps/server/src/api/interviews.ts, interview/service.ts,              *)
(*   access/boardAccess.ts, sync/upgrade.ts,                               *)
(*   apps/web/src/features/interview/InterviewStore.ts                     *)
(* A request checks what it read before its transaction; its answer and    *)
(* its announcement follow later, each by itself.                          *)
(***************************************************************************)
EXTENDS Integers, FiniteSets, Sequences, FiniteSetsExt

CONSTANTS Users,
          MayBe,        \* the roles the people on the board may be given
          Starters,     \* who has the Team plan and may edit the board
          Tabs,         \* whose tab is modelled
          Hints,        \* of the question
          MaxInterviews,
          Budgets,      \* how many requests there may be to start, end and change participants, to
                        \* pause, resume, extend and reveal, how often the clock ticks, and how many
                        \* broadcasts are lost
          MaxRequests   \* requests at the same time

ASSUME InterviewAssumption ==
    /\ MayBe \in [Users -> SUBSET {"none", "interviewer", "candidate", "observer"}]
    /\ Starters \subseteq Users /\ Tabs \subseteq Users
    /\ {MaxInterviews, MaxRequests} \subseteq Nat
    /\ Budgets \subseteq [people: Nat, clock: Nat, ticks: Nat, losses: Nat]

VARIABLES now,
          interviews,  \* rows of interviews with their participants, oldest first
          requests,    \* requests that are past their checks
          left,        \* of the budget
          capped,      \* whose socket is read-only because of an interview
          joining,     \* whose socket was closed to get a new ticket
          pushes,      \* broadcasts of the state that are on their way
          tab,         \* each tab's InterviewStore
          loads,       \* each tab's GETs: unread, or the view that is returned
          ran,         \* history: for how long each interview's clock should have run
          revealed,    \* history: hints revealed in each interview
          raced,       \* history: interviews changed by a request that had read another state
          missed,      \* history: people whose role changed under a request's announcement
          lost         \* history: broadcasts that were not sent because the state was not read

serverVars == <<interviews, requests, left, ran, revealed, raced, missed>>
socketVars == <<capped, joining, pushes, lost>>
tabVars == <<tab, loads>>
vars == <<now, serverVars, socketVars, tabVars>>

Never == -1
NoInterview == 0
Lists(by) == {list \in [Users -> {"none", "interviewer", "candidate", "observer"}] :
                 /\ \A u \in Users : list[u] \in MayBe[u]
                 /\ list[by] = "interviewer"
                 /\ Cardinality({u \in Users : list[u] = "candidate"}) <= 1}
Nobody == [u \in Users |-> "none"]

Latest == Len(interviews)
Running == {i \in DOMAIN interviews : interviews[i].status = "active"}
RoleIn(i, u) == IF i = NoInterview THEN "none" ELSE interviews[i].people[u]

----------------------------------------------------------------------------
(* Clock and cap *)

Elapsed(row) ==
    LET until == IF row.endedAt # Never THEN row.endedAt
                 ELSE IF row.pausedAt # Never THEN row.pausedAt ELSE now
    IN  Max({0, until - row.startedAt - row.pausedMs})

\* interviewCap: an observer of the running interview, or somebody who was the candidate of one
\* that is over and has no part in it.
WasCandidate(u) == \E i \in DOMAIN interviews :
                      interviews[i].status = "ended" /\ interviews[i].people[u] = "candidate"
Cap(u) ==
    IF \E i \in Running : interviews[i].people[u] # "none"
    THEN \E i \in Running : interviews[i].people[u] = "observer"
    ELSE WasCandidate(u)

----------------------------------------------------------------------------
(* A tab's InterviewStore *)

Fresh == [iv |-> NoInterview, version |-> 0, role |-> "none", question |-> FALSE,
          questionFor |-> NoInterview, late |-> FALSE]

\* Mutant: whatever comes last.
AnyState(t, s) == TRUE
IsNewerState(t, s) == \/ s.iv > t.iv
                      \/ s.iv = t.iv /\ s.version > t.version

\* Mutant: what was asked for is not forgotten with the role.
KeepsQuestionFor(t, s) == IF s.role = "interviewer" THEN s.iv ELSE t.questionFor
QuestionFor(t, s) == IF s.role = "interviewer" THEN s.iv ELSE NoInterview

\* applyState, and whether it asks for the question.
Asks(t, s) == IsNewerState(t, s) /\ s.role = "interviewer" /\ t.questionFor # s.iv
ApplyState(t, s) ==
    IF ~IsNewerState(t, s) THEN t
    ELSE [iv |-> s.iv, version |-> s.version, role |-> s.role,
          question |-> t.question /\ t.iv = s.iv /\ s.role = "interviewer",
          questionFor |-> QuestionFor(t, s), late |-> t.late /\ s.role = "interviewer" /\ t.questionFor = s.iv]

\* late, a history: this view came to a tab in another role than it was made for, with a question
\* for somebody who is no interviewer now, or without one for somebody who is again.
ApplyView(t, view) ==
    IF view.role # "interviewer"
    THEN LET next == ApplyState(t, view) IN [next EXCEPT !.late = @ \/ next.role = "interviewer"]
    ELSE LET next == ApplyState([t EXCEPT !.questionFor = view.iv], view)
             mine == next.iv = view.iv /\ next.role = "interviewer"
         IN  [next EXCEPT !.question = @ \/ mine,
                          !.late = ~mine /\ next.questionFor = view.iv]

Unread == [iv |-> NoInterview, version |-> 0, role |-> "none"]
View(i, u) == [iv |-> i, version |-> interviews[i].version, role |-> RoleIn(i, u)]

\* What tabs make of the states sent to them.
Shows(state) ==
    /\ tab' = [u \in Tabs |-> IF u \in DOMAIN state THEN ApplyState(tab[u], state[u]) ELSE tab[u]]
    /\ loads' = [u \in Tabs |-> IF u \in DOMAIN state /\ Asks(tab[u], state[u])
                                THEN loads[u] \cup {Unread} ELSE loads[u]]

\* GET /boards/:id/interview.
ServeLoad(u) ==
    /\ Unread \in loads[u] /\ Latest # NoInterview
    /\ loads' = [loads EXCEPT ![u] = (@ \ {Unread}) \cup {View(Latest, u)}]
    /\ UNCHANGED <<now, serverVars, socketVars, tab>>
LoadReturns(u) ==
    /\ \E view \in loads[u] \ {Unread} :
        /\ tab' = [tab EXCEPT ![u] = ApplyView(@, view)]
        /\ loads' = [loads EXCEPT ![u] = @ \ {view}]
    /\ UNCHANGED <<now, serverVars, socketVars>>
LoadFails(u) ==
    /\ \E view \in loads[u] : loads' = [loads EXCEPT ![u] = @ \ {view}]
    /\ tab' = [tab EXCEPT ![u].questionFor = NoInterview, ![u].late = FALSE]
    /\ UNCHANGED <<now, serverVars, socketVars>>

----------------------------------------------------------------------------
(* Requests: checks, transaction, announcement, answer *)

\* saw: the row the request read; people: the participants it read.
Request(kind, by, i, arg) ==
    [kind |-> kind, by |-> by, iv |-> i, arg |-> arg, done |-> "nothing", version |-> 0,
     pausedAt |-> IF i = NoInterview THEN Never ELSE interviews[i].pausedAt,
     hints |-> IF i = NoInterview THEN {} ELSE interviews[i].hints,
     people |-> IF i = NoInterview THEN Nobody ELSE interviews[i].people]

Begin(request) ==
    /\ Cardinality(requests) < MaxRequests
    /\ requests' = requests \cup {request}
    /\ LET cost == IF request.kind \in {"start", "people", "end"} THEN "people" ELSE "clock"
       IN  left[cost] > 0 /\ left' = [left EXCEPT ![cost] = @ - 1]
    /\ UNCHANGED <<now, interviews, ran, revealed, raced, missed, socketVars, tabVars>>

BeginStart(u) ==
    /\ u \in Starters /\ ~Cap(u)
    /\ \E list \in Lists(u) : Begin(Request("start", u, NoInterview, list))

\* requireRole and requireActive; a pause of a paused interview, and its like, changes nothing.
BeginChange(u) ==
    \E i \in Running :
        /\ interviews[i].people[u] = "interviewer"
        /\ \/ \E list \in Lists(u) : Begin(Request("people", u, i, list))
           \/ interviews[i].pausedAt = Never /\ Begin(Request("pause", u, i, Nobody))
           \/ interviews[i].pausedAt # Never /\ Begin(Request("resume", u, i, Nobody))
           \/ Begin(Request("extend", u, i, Nobody))
           \/ \E h \in Hints \ interviews[i].hints : Begin(Request("reveal", u, i, h))
           \/ Begin(Request("end", u, i, Nobody))

\* Mutant: those who are on the new list.
AffectedAfter(r) ==
    IF r.kind \in {"start", "people"} THEN {u \in Users : r.arg[u] \in {"candidate", "observer"}}
    ELSE IF r.kind = "end" THEN {u \in Users : r.people[u] \in {"candidate", "observer"}} ELSE {}
\* Whose sockets are closed: candidates and observers, before and after.
Affected(r) ==
    LET listed == CASE r.kind = "start" -> {r.arg} [] r.kind = "people" -> {r.people, r.arg}
                    [] r.kind = "end" -> {r.people} [] OTHER -> {}
    IN  {u \in Users : \E list \in listed : list[u] \in {"candidate", "observer"}}

Committed(r, i, version) ==
    requests' = (requests \ {r}) \cup
        {[kind |-> r.kind, by |-> r.by, done |-> "committed", iv |-> i, version |-> version,
          affected |-> Affected(r)]}
Refused(r) == requests' = requests \ {r}

\* At most one interview of a board is active (a unique index).
CommitStart(r) ==
    /\ r.kind = "start"
    /\ IF Running # {} THEN Refused(r) /\ UNCHANGED <<interviews, ran, revealed, missed>>
       ELSE /\ Latest < MaxInterviews
            /\ interviews' = Append(interviews,
                  [status |-> "active", startedAt |-> now, pausedAt |-> Never, pausedMs |-> 0,
                   endedAt |-> Never, hints |-> {}, version |-> 0, people |-> r.arg])
            /\ ran' = Append(ran, 0) /\ revealed' = Append(revealed, {})
            /\ Committed(r, Latest + 1, 0)
            /\ missed' = missed \cup {u \in Users : WasCandidate(u) /\ r.arg[u] = "interviewer"}
    /\ UNCHANGED raced

\* bump.
Bump(r, row) ==
    /\ interviews' = [interviews EXCEPT ![r.iv] = [row EXCEPT !.version = @ + 1]]
    /\ Committed(r, r.iv, row.version + 1)

\* History: whose role another request has changed since it was read, and who is taken for somebody
\* "never capped" as an interviewer but was the candidate of an earlier interview.
Missed(r, before, after) ==
    {u \in Users : \/ interviews[r.iv].people[u] # r.people[u]
                   \/ WasCandidate(u) /\ "interviewer" \in {before[u], after[u]}}

\* The old list is deleted and the new one inserted. A deletion that began before another list was
\* committed does not see that list: the two are merged, or collide in somebody's row.
CommitPeople(r) ==
    /\ r.kind = "people"
    /\ LET row == interviews[r.iv]
           both == {u \in Users : row.people[u] # "none" /\ r.arg[u] # "none"}
           merged == [u \in Users |-> IF r.arg[u] # "none" THEN r.arg[u] ELSE row.people[u]]
       IN  \/ Bump(r, [row EXCEPT !.people = r.arg])
           \/ row.people # r.people /\ both = {} /\ Bump(r, [row EXCEPT !.people = merged])
           \/ row.people # r.people /\ both # {} /\ Refused(r) /\ UNCHANGED interviews
    /\ missed' = missed \cup Missed(r, r.people, r.arg)
    /\ UNCHANGED <<ran, revealed, raced>>

\* The pause in the row counts, not the one that was read; without one the column would be null,
\* which the database refuses.
Resumed(r, row) ==
    [row EXCEPT !.pausedMs = @ + (now - row.pausedAt), !.pausedAt = Never]

\* Mutant: a pause that is still open is not counted.
EndedRunning(r, row) == [row EXCEPT !.status = "ended", !.endedAt = now, !.pausedAt = Never]
Ended(r, row) ==
    [row EXCEPT !.status = "ended", !.endedAt = now, !.pausedAt = Never,
                !.pausedMs = IF row.pausedAt = Never THEN @ ELSE @ + (now - row.pausedAt)]

CommitTimer(r) ==
    LET row == interviews[r.iv] IN
    /\ \/ r.kind = "pause" /\ Bump(r, [row EXCEPT !.pausedAt = now])
       \/ r.kind = "resume" /\ row.pausedAt # Never /\ Bump(r, Resumed(r, row))
       \/ r.kind = "resume" /\ row.pausedAt = Never /\ Refused(r) /\ UNCHANGED interviews
       \/ r.kind = "extend" /\ Bump(r, row)
    /\ raced' = IF r.kind = "pause" /\ (row.status = "ended" \/ row.pausedAt # Never)
                THEN raced \cup {r.iv} ELSE raced
    /\ UNCHANGED <<ran, revealed, missed>>

\* The list that was read, and the hint.
CommitReveal(r) ==
    /\ r.kind = "reveal"
    /\ Bump(r, [interviews[r.iv] EXCEPT !.hints = r.hints \cup {r.arg}])
    /\ revealed' = [revealed EXCEPT ![r.iv] = @ \cup {r.arg}]
    /\ raced' = IF interviews[r.iv].hints # r.hints THEN raced \cup {r.iv} ELSE raced
    /\ UNCHANGED <<ran, missed>>

CommitEnd(r) ==
    /\ r.kind = "end"
    /\ Bump(r, Ended(r, interviews[r.iv]))
    /\ raced' = IF interviews[r.iv].status = "ended" THEN raced \cup {r.iv} ELSE raced
    /\ missed' = missed \cup Missed(r, r.people, r.people)
    /\ UNCHANGED <<ran, revealed>>

Commit(r) ==
    /\ r.done = "nothing"
    /\ CommitStart(r) \/ CommitPeople(r) \/ CommitTimer(r) \/ CommitReveal(r) \/ CommitEnd(r)
    /\ UNCHANGED <<now, left, socketVars, tabVars>>

\* announce: sockets that are closed get no broadcast that is on its way. Only an answer to a tab that
\* is modelled matters.
Announce(r) ==
    /\ r.done = "committed"
    /\ joining' = joining \cup r.affected
    /\ pushes' = {[p EXCEPT !.to = @ \ r.affected] : p \in pushes}
                 \cup {[to |-> Tabs \ joining', iv |-> NoInterview, version |-> 0]}
    /\ requests' = (requests \ {r}) \cup (IF r.by \in Tabs THEN {[r EXCEPT !.done = "announced", !.affected = {}]} ELSE {})
    /\ UNCHANGED <<now, interviews, left, ran, revealed, raced, missed, capped, lost, tabVars>>

\* The caller's tab gets the row that was committed.
Answer(r) ==
    /\ r.done = "announced"
    /\ requests' = requests \ {r}
    /\ LET view == [iv |-> r.iv, version |-> r.version, role |-> RoleIn(r.iv, r.by)] IN
       tab' = [tab EXCEPT ![r.by] = ApplyView(@, view)]
    /\ UNCHANGED <<now, interviews, left, ran, revealed, raced, missed, socketVars, loads>>

----------------------------------------------------------------------------
(* Broadcasts and sockets *)

\* sendInterviewState: the row, then the participants; when one is not read, that is only logged.
WithRow(p) == [p EXCEPT !.iv = Latest, !.version = interviews[Latest].version]
PushReads(p) ==
    /\ p.iv = NoInterview /\ Latest # NoInterview
    /\ pushes' = (pushes \ {p}) \cup {WithRow(p)}
    /\ UNCHANGED <<now, serverVars, capped, joining, lost, tabVars>>
PushSends(p) ==
    /\ p.iv # NoInterview
    /\ Shows([u \in p.to |-> [iv |-> p.iv, version |-> p.version, role |-> RoleIn(p.iv, u)]])
    /\ pushes' = pushes \ {p}
    /\ UNCHANGED <<now, serverVars, capped, joining, lost>>
PushFails(p) ==
    /\ left.losses > 0 /\ left' = [left EXCEPT !.losses = @ - 1]
    /\ Latest # NoInterview /\ p.to # {}
    /\ pushes' = pushes \ {p}
    /\ lost' = lost \cup {IF p.iv = NoInterview THEN WithRow(p) ELSE p}
    /\ UNCHANGED <<now, interviews, requests, ran, revealed, raced, missed, capped, joining, tabVars>>

\* A new ticket and connection (SyncSession has their steps); who joins is sent the state.
Rejoin(u) ==
    /\ u \in joining
    /\ joining' = joining \ {u}
    /\ capped' = [capped EXCEPT ![u] = Cap(u)]
    /\ pushes' = IF u \in Tabs /\ Latest # NoInterview
                 THEN pushes \cup {[to |-> {u}, iv |-> NoInterview, version |-> 0]} ELSE pushes
    /\ UNCHANGED <<now, serverVars, lost, tabVars>>

Tick ==
    /\ left.ticks > 0 /\ left' = [left EXCEPT !.ticks = @ - 1] /\ now' = now + 1
    /\ ran' = [i \in DOMAIN ran |->
                 IF i \in Running /\ interviews[i].pausedAt = Never THEN ran[i] + 1 ELSE ran[i]]
    /\ UNCHANGED <<interviews, requests, revealed, raced, missed, socketVars, tabVars>>

Init ==
    /\ now = 0 /\ interviews = <<>> /\ requests = {} /\ left \in Budgets
    /\ capped = [u \in Users |-> FALSE] /\ joining = {} /\ pushes = {} /\ lost = {}
    /\ tab = [u \in Tabs |-> Fresh] /\ loads = [u \in Tabs |-> {}]
    /\ ran = <<>> /\ revealed = <<>> /\ raced = {} /\ missed = {}

Next ==
    \/ Tick
    \/ \E u \in Users : BeginStart(u) \/ BeginChange(u) \/ Rejoin(u)
    \/ \E r \in requests : Commit(r) \/ Announce(r) \/ Answer(r)
    \/ \E p \in pushes : PushReads(p) \/ PushSends(p) \/ PushFails(p)
    \/ \E u \in Tabs : ServeLoad(u) \/ LoadReturns(u) \/ LoadFails(u)

Spec == Init /\ [][Next]_vars

----------------------------------------------------------------------------
(* Properties *)

\* The clock every participant computes is the time for which the interview really ran, and every
\* hint that was revealed stays revealed: over any sequence of pauses, resumes and ends, those that
\* overlap included, unless a pause, end or hint came upon a row that was not as it was read
\* (interviews.ts:338, 376, 392).
ClockAndHintsHoldUnlessRaced ==
    \A i \in DOMAIN interviews \ raced :
        Elapsed(interviews[i]) = ran[i] /\ interviews[i].hints = revealed[i]

\* When a change is announced every socket is read-only exactly if an interview makes it so:
\* announce() closes all whose cap may have changed, without comparing roles (interviews.ts:158).
CapsFollowRolesUnlessMissed ==
    (\A r \in requests : r.done # "committed") =>
        \A u \in Users \ (joining \cup missed) : capped[u] = Cap(u)

\* A broadcast that would have told u of the state as it is now was lost.
LostTo(u) == \E p \in lost : u \in p.to /\ p.iv = Latest /\ p.version = interviews[Latest].version

\* When nothing is on its way any more, a connected tab shows the last state of the last interview
\* and its user's role in it, in whatever order broadcasts and answers came (isNewerState).  Only
\* a lost broadcast of just this state leaves a tab behind (upgrade.ts:250), and no later change.
ShownIsCurrentUnlessLost ==
    pushes = {} /\ (\A r \in requests : r.done # "committed") /\ Latest # NoInterview =>
        \A u \in Tabs \ joining :
            \/ /\ tab[u].iv = Latest /\ tab[u].version = interviews[Latest].version
               /\ tab[u].role = RoleIn(Latest, u)
            \/ LostTo(u)

\* An interviewer's tab that has asked for the question of its interview gets it, unless an answer
\* came in a moment when its user's role was another than when it was made (InterviewStore.ts:61,
\* 85: the question is then taken for asked and answered).
QuestionIsFetchedUnlessLate ==
    \A u \in Tabs :
        LET t == tab[u] IN
        t.role = "interviewer" /\ t.questionFor = t.iv /\ loads[u] = {} => t.question \/ t.late
=============================================================================
