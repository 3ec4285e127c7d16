------------------------- MODULE RoomManagerProofs -------------------------
(* What holds of a board's room and its write-ahead queue for any number of  *)
(* edits, members, overlapping evictions and lease changes: what was told to *)
(* be saved is stored, a writer forgets nothing, no update waits for nobody. *)
EXTENDS RoomManager, SequenceTheorems, TLAPS

-----------------------------------------------------------------------------
(* Sequences: what the queue and the chain do with them. *)

LEMMA TailOf ==
    ASSUME NEW S, NEW q \in Seq(S), q # <<>>
    PROVE  /\ Tail(q) \in Seq(S) /\ Head(q) \in S /\ Head(q) = q[1]
           /\ Len(q) \in Nat /\ 1 <= Len(q) /\ Len(Tail(q)) = Len(q) - 1
           /\ DOMAIN q = 1..Len(q) /\ DOMAIN Tail(q) = 1..(Len(q) - 1)
           /\ \A i \in DOMAIN Tail(q) : i + 1 \in DOMAIN q /\ Tail(q)[i] = q[i + 1]
<1>1. Tail(q) \in Seq(S) /\ Head(q) \in S /\ Head(q) = q[1] /\ Len(Tail(q)) = Len(q) - 1
  BY HeadTailProperties
<1>2. Len(q) \in Nat /\ Len(q) # 0 /\ DOMAIN q = 1..Len(q)
  BY LenProperties, EmptySeq
<1>3. \A i \in 1..Len(Tail(q)) : Tail(q)[i] = q[i + 1]
  BY HeadTailProperties
<1>4. DOMAIN Tail(q) = 1..Len(Tail(q))
  BY <1>1, LenProperties
<1> QED
  BY <1>1, <1>2, <1>3, <1>4

LEMMA JoinedBy ==
    ASSUME NEW S, NEW q \in Seq(S), NEW r \in Seq(S)
    PROVE  /\ q \o r \in Seq(S)
           /\ Len(q) \in Nat /\ Len(r) \in Nat /\ Len(q \o r) = Len(q) + Len(r)
           /\ DOMAIN q = 1..Len(q) /\ DOMAIN r = 1..Len(r)
           /\ DOMAIN (q \o r) = 1..(Len(q) + Len(r))
           /\ \A i \in DOMAIN q : (q \o r)[i] = q[i]
           /\ \A i \in DOMAIN r : (q \o r)[Len(q) + i] = r[i]
           /\ \A i \in DOMAIN (q \o r) \ DOMAIN q : i - Len(q) \in DOMAIN r /\ (q \o r)[i] = r[i - Len(q)]
<1>1. q \o r \in Seq(S) /\ Len(q \o r) = Len(q) + Len(r)
  BY ConcatProperties
<1>2. Len(q) \in Nat /\ DOMAIN q = 1..Len(q) /\ Len(r) \in Nat /\ DOMAIN r = 1..Len(r)
  BY LenProperties
<1>3. DOMAIN (q \o r) = 1..(Len(q) + Len(r))
  BY <1>1, LenProperties
<1>4. \A i \in 1..(Len(q) + Len(r)) : (q \o r)[i] = IF i <= Len(q) THEN q[i] ELSE r[i - Len(q)]
  BY <1>1, <1>2, ConcatProperties
<1>5. \A i \in DOMAIN q : (q \o r)[i] = q[i]
  BY <1>2, <1>4
<1>6. \A i \in DOMAIN r : (q \o r)[Len(q) + i] = r[i]
  <2> TAKE i \in DOMAIN r
  <2>1. /\ Len(q) + i \in 1..(Len(q) + Len(r)) /\ ~(Len(q) + i <= Len(q))
        /\ (Len(q) + i) - Len(q) = i
    BY <1>2
  <2> QED
    BY <1>4, <2>1
<1>7. \A i \in DOMAIN (q \o r) \ DOMAIN q : i - Len(q) \in DOMAIN r /\ (q \o r)[i] = r[i - Len(q)]
  <2> TAKE i \in DOMAIN (q \o r) \ DOMAIN q
  <2>1. i \in 1..(Len(q) + Len(r)) /\ ~(i <= Len(q)) /\ i - Len(q) \in 1..Len(r)
    BY <1>2, <1>3
  <2> QED
    BY <1>2, <1>4, <2>1
<1> QED
  BY <1>1, <1>2, <1>3, <1>5, <1>6, <1>7

LEMMA OneOf ==
    ASSUME NEW S, NEW x \in S
    PROVE  <<x>> \in Seq(S) /\ Len(<<x>>) = 1 /\ DOMAIN <<x>> = {1} /\ <<x>>[1] = x
  OBVIOUS

-----------------------------------------------------------------------------
(* Types. *)

Task == [task : {"flush", "catchUp", "compact"}, awaiter : Awaiters]

DatabaseTypes ==
    /\ stored \in SUBSET Edits /\ doc \in SUBSET Edits /\ persisted \in SUBSET Edits
    /\ purged \in BOOLEAN
QueueTypes ==
    /\ active \in BOOLEAN /\ closed \in BOOLEAN /\ timer \in BOOLEAN
    /\ pending \in Seq(SUBSET Edits) /\ sinceSnapshot \in 0..SnapshotEvery
TaskTypes ==
    /\ chain \in Seq(Task) /\ settled \in Awaiters
    /\ step \in {"ready", "appending", "committed", "reading", "read", "compacting"}
    /\ batch \in Seq(SUBSET Edits) /\ marker \in SUBSET SUBSET Edits /\ seen \in SUBSET Edits
ManagerTypes ==
    /\ room \in {"none", "loading", "leasing", "draining", "open"}
    /\ buffered \in Seq(Edits) /\ ours \in SUBSET Edits /\ members \in SUBSET Members
    /\ evictTimer \in BOOLEAN /\ closing \in BOOLEAN /\ accepting \in BOOLEAN
    /\ closer \in [Closers -> {"idle", "waiting", "flushing", "backoff", "compacting", "done"}]
    /\ wasWriter \in [Evictions -> BOOLEAN]
    /\ maintain \in {"idle", "renewing", "acquiring", "deactivating", "activating"}
    /\ raced \in BOOLEAN /\ leftBehind \in SUBSET Edits

PersistenceTypes == DatabaseTypes /\ QueueTypes /\ TaskTypes
Types == PersistenceTypes /\ ManagerTypes

LEMMA TaskOfChain ==
    ASSUME NEW a \in Awaiters, NEW t \in {"flush", "catchUp", "compact"}
    PROVE  [task |-> t, awaiter |-> a] \in Task
  BY DEF Task

LEMMA CoverIsEdits ==
    ASSUME NEW queue \in Seq(SUBSET Edits)
    PROVE  Cover(queue) \in SUBSET Edits
<1>1. \A i \in DOMAIN queue : queue[i] \in SUBSET Edits
  BY ElementOfSeq, LenProperties
<1> QED
  BY <1>1 DEF Cover

LEMMA EnqueueTyped ==
    ASSUME TaskTypes, NEW a \in Awaiters, NEW tasks \in {Flush(a), Compact(a), CatchUp(a)},
           EnqueueTasks(tasks)
    PROVE  chain' \in Seq(Task)
<1>1. Flush(a) \in Seq(Task) /\ Compact(a) \in Seq(Task) /\ CatchUp(a) \in Seq(Task)
  BY TaskOfChain, OneOf DEF Flush, Compact, CatchUp
<1> QED
  BY <1>1, ConcatProperties DEF EnqueueTasks, TaskTypes

LEMMA SettleTyped ==
    ASSUME TaskTypes, chain # <<>>, Settle
    PROVE  TaskTypes'
<1>1. Tail(chain) \in Seq(Task) /\ Head(chain) \in Task
  BY HeadTailProperties DEF TaskTypes
<1>2. Head(chain).awaiter \in Awaiters
  BY <1>1 DEF Task
<1>3. <<>> \in Seq(SUBSET Edits)
  BY EmptySeq
<1> QED
  BY <1>1, <1>2, <1>3 DEF Settle, TaskTypes

LEMMA OperationsTyped ==
    ASSUME PersistenceTypes
    PROVE  /\ \A e \in Edits : Receive(e) => PersistenceTypes'
           /\ Activate \/ BeginDeactivate \/ EndDeactivate \/ FlushTimer => PersistenceTypes'
           /\ \A c \in Closers : BeginClose(c) => PersistenceTypes'
           /\ \A asWriter \in BOOLEAN : Reopen(asWriter) => PersistenceTypes'
<1> USE DEF PersistenceTypes, DatabaseTypes, databaseVars, taskVars
<1>1. ASSUME NEW e \in Edits, Receive(e) PROVE PersistenceTypes'
  <2>1. Append(pending, {e}) \in Seq(SUBSET Edits)
    BY AppendProperties DEF QueueTypes
  <2> QED
    BY <1>1, <2>1 DEF Receive, ScheduleFlush, QueueTypes, TaskTypes
<1>2. CASE Activate
  BY <1>2, EnqueueTyped, AwaitersAssumption DEF Activate, QueueTypes, TaskTypes
<1>3. CASE BeginDeactivate
  BY <1>3, EnqueueTyped, AwaitersAssumption DEF BeginDeactivate, QueueTypes, TaskTypes
<1>4. CASE EndDeactivate
  BY <1>4, AwaitersAssumption, EmptySeq DEF EndDeactivate, QueueTypes, TaskTypes
<1>5. CASE FlushTimer
  BY <1>5, EnqueueTyped, AwaitersAssumption DEF FlushTimer, QueueTypes, TaskTypes
<1>6. ASSUME NEW c \in Closers, BeginClose(c) PROVE PersistenceTypes'
  <2>1. Flush(c) \in Seq(Task) /\ CatchUp("none") \in Seq(Task)
    BY TaskOfChain, OneOf, ClosersAssumption, AwaitersAssumption DEF Flush, CatchUp
  <2>2. CatchUp("none") \o Flush(c) \in Seq(Task)
    BY <2>1, ConcatProperties
  <2>3. chain' \in Seq(Task)
    <3> DEFINE tasks == CatchUp("none") \o Flush(c)
    <3>1. chain \o Flush(c) \in Seq(Task) /\ chain \o tasks \in Seq(Task)
      BY <2>1, <2>2, ConcatProperties DEF TaskTypes
    <3> QED
      BY <1>6, <3>1 DEF BeginClose, EnqueueTasks
  <2> QED
    BY <1>6, <2>3 DEF BeginClose, QueueTypes, TaskTypes
<1>7. ASSUME NEW asWriter \in BOOLEAN, Reopen(asWriter) PROVE PersistenceTypes'
  BY <1>7, EmptySeq DEF Reopen, FlushAfterReopen, QueueTypes, TaskTypes
<1> QED
  BY <1>1, <1>2, <1>3, <1>4, <1>5, <1>6, <1>7

LEMMA TasksTyped ==
    ASSUME PersistenceTypes, StartTask \/ AppendCommits \/ Reply, step # "ready" => chain # <<>>
    PROVE  PersistenceTypes'
<1> USE DEF PersistenceTypes, DatabaseTypes, databaseVars, queueVars, taskVars
<1>1. Cover(batch) \in SUBSET Edits
  BY CoverIsEdits DEF TaskTypes
<1>2. LoadResults \subseteq SUBSET Edits
  BY DEF LoadResults
<1>3. CASE StartEmptyFlush
  BY <1>3, SettleTyped DEF StartEmptyFlush, Due, QueueTypes
<1>4. CASE StartFlush
  <2> DEFINE cut == IF Len(pending) <= MaxBatch THEN Len(pending) ELSE MaxBatch
  <2>1. Len(pending) \in Nat /\ cut \in Nat /\ cut <= Len(pending)
    BY LenProperties, LimitsAssumption DEF QueueTypes
  <2>2. /\ SubSeq(pending, 1, cut) \in Seq(SUBSET Edits)
        /\ SubSeq(pending, cut + 1, Len(pending)) \in Seq(SUBSET Edits)
    BY <2>1, SubSeqProperties DEF QueueTypes
  <2>3. Marker(cut) \in SUBSET SUBSET Edits
    BY DEF Marker, DurableMarker
  <2>4. /\ batch' = SubSeq(pending, 1, cut) /\ pending' = SubSeq(pending, cut + 1, Len(pending))
        /\ marker' = Marker(cut)
    BY <1>4 DEF StartFlush
  <2> HIDE DEF cut
  <2> QED
    BY <1>4, <2>2, <2>3, <2>4 DEF StartFlush, QueueTypes, TaskTypes
<1>5. CASE StartCatchUp \/ StartCompact
  BY <1>5 DEF StartCatchUp, StartCompact, QueueTypes, TaskTypes
<1>6. CASE AppendCommits
  BY <1>1, <1>6 DEF AppendCommits, QueueTypes, TaskTypes
<1>7. CASE AppendReturns
  <2>1. UNION marker \in SUBSET Edits
    BY DEF TaskTypes
  <2>2. sinceSnapshot' \in 0..SnapshotEvery
    BY <1>7, LenProperties, LimitsAssumption DEF AppendReturns, Counted, QueueTypes, TaskTypes
  <2>3. QueueTypes' /\ DatabaseTypes'
    BY <1>7, <2>1, <2>2 DEF AppendReturns, ScheduleFlush, QueueTypes
  <2>4. TaskTypes'
    <3>1. CASE sinceSnapshot' = SnapshotEvery
      BY <1>7, <3>1, EmptySeq DEF AppendReturns, TaskTypes
    <3>2. CASE sinceSnapshot' # SnapshotEvery
      BY <1>7, <3>2, SettleTyped DEF AppendReturns
    <3> QED
      BY <3>1, <3>2
  <2> QED
    BY <2>3, <2>4
<1>8. CASE AppendFails
  <2>1. batch \o pending \in Seq(SUBSET Edits)
    BY ConcatProperties DEF QueueTypes, TaskTypes
  <2> QED
    BY <1>8, <2>1, SettleTyped DEF AppendFails, PutBack, Retry, ScheduleFlush, QueueTypes
<1>9. CASE AppendFindsNoBoard
  BY <1>9, SettleTyped, EmptySeq DEF AppendFindsNoBoard, QueueTypes
<1>10. CASE CatchUpReads
  BY <1>2, <1>10 DEF CatchUpReads, QueueTypes, TaskTypes
<1>11. ASSUME NEW missing \in SUBSET Edits PROVE CatchUpFirst(missing) \in Seq(SUBSET Edits)
  BY OneOf, ConcatProperties DEF CatchUpFirst, QueueTypes
<1>12. CASE CatchUpReturns
  <2>1. pending' \in Seq(SUBSET Edits)
    BY <1>11, <1>12 DEF CatchUpReturns, Missing, QueueTypes
  <2>2. persisted' \in SUBSET Edits
    BY <1>12 DEF CatchUpReturns, DurableMarker
  <2>3. TaskTypes'
    BY <1>12, SettleTyped DEF CatchUpReturns
  <2> QED
    BY <1>12, <2>1, <2>2, <2>3 DEF CatchUpReturns, QueueTypes
<1>13. CASE CatchUpFails
  BY <1>11, <1>13, SettleTyped DEF CatchUpFails, QueueTypes
<1>14. CASE CompactReturns
  BY <1>14, SettleTyped, LimitsAssumption DEF CompactReturns, QueueTypes
<1> QED
  BY <1>3, <1>4, <1>5, <1>6, <1>7, <1>8, <1>9, <1>10, <1>12, <1>13, <1>14 DEF StartTask, Reply

LEMMA ForgottenTyped ==
    ASSUME Types
    PROVE  /\ ForgetRoom /\ UNCHANGED databaseVars => PersistenceTypes'
           /\ ForgetRoom /\ InFlightMayCommit => PersistenceTypes'
           /\ InFlightMayCommit => stored \subseteq stored' /\ stored' \in SUBSET Edits
<1> USE DEF Types, PersistenceTypes, DatabaseTypes, databaseVars
<1>1. Cover(batch) \in SUBSET Edits
  BY CoverIsEdits DEF TaskTypes
<1>2. InFlightMayCommit => stored \subseteq stored' /\ stored' \in SUBSET Edits /\ purged' = purged
  BY <1>1 DEF InFlightMayCommit
<1>3. <<>> \in Seq(SUBSET Edits) /\ <<>> \in Seq(Task)
  BY EmptySeq
<1>4. ForgetRoom => QueueTypes'
  <2>1. 0 \in 0..SnapshotEvery
    BY LimitsAssumption
  <2> QED
    BY <1>3, <2>1 DEF ForgetRoom, QueueTypes
<1>5. ForgetRoom => TaskTypes'
  BY <1>3, AwaitersAssumption DEF ForgetRoom, TaskTypes
<1>6. ForgetRoom => doc' = {} /\ persisted' = {}
  BY DEF ForgetRoom
<1> QED
  BY <1>2, <1>4, <1>5, <1>6

LEMMA StartCloseTyped ==
    ASSUME Types, NEW c \in Closers, StartClose(c)
    PROVE  PersistenceTypes' /\ closing' \in BOOLEAN
           /\ closer' \in [Closers -> {"idle", "waiting", "flushing", "backoff", "compacting", "done"}]
  BY OperationsTyped DEF StartClose, Types, ManagerTypes

LEMMA TypesStep ==
    ASSUME Types, step # "ready" => chain # <<>>, [Next]_vars
    PROVE  Types'
<1> USE DEF Types
<1> DEFINE Still == UNCHANGED persistenceVars
<1>1. Still => PersistenceTypes'
  BY DEF persistenceVars, PersistenceTypes, DatabaseTypes, QueueTypes, TaskTypes
<1>2. UNCHANGED managerVars => ManagerTypes'
  BY DEF managerVars, ManagerTypes
<1>3. ASSUME NEW m \in Members, Join(m) \/ Leave(m) PROVE Types'
  <2>1. Still
    BY <1>3 DEF Join, Leave
  <2> QED
    BY <1>1, <1>3, <2>1 DEF Join, Leave, ManagerTypes
<1>4. ASSUME NEW e \in Edits, ClientEdit(e) \/ RemoteEdit(e) PROVE Types'
  <2>1. PersistenceTypes'
    BY <1>1, <1>4, OperationsTyped DEF ClientEdit, RemoteEdit
  <2>2. Append(buffered, e) \in Seq(Edits)
    BY AppendProperties DEF ManagerTypes
  <2> QED
    BY <1>4, <2>1, <2>2 DEF ClientEdit, RemoteEdit, ManagerTypes
<1>5. ASSUME NEW e \in Edits, PeerCommit(e) PROVE Types'
  BY <1>2, <1>5 DEF PeerCommit, PersistenceTypes, DatabaseTypes, QueueTypes, TaskTypes, queueVars, taskVars
<1>6. CASE PeerPersisted \/ Purge
  <2>1. PersistenceTypes'
    BY <1>6 DEF PeerPersisted, Purge, PersistenceTypes, DatabaseTypes, QueueTypes, TaskTypes,
                databaseVars, queueVars, taskVars
  <2> QED
    BY <1>2, <1>6, <2>1 DEF PeerPersisted, Purge
<1>7. CASE LoadBoard
  <2>1. doc' \in SUBSET Edits /\ persisted' \in SUBSET Edits
    BY <1>7 DEF LoadBoard, LoadResults, PersistenceTypes, DatabaseTypes
  <2>2. PersistenceTypes'
    BY <1>7, <2>1 DEF LoadBoard, PersistenceTypes, DatabaseTypes, QueueTypes, TaskTypes,
                      databaseVars, queueVars, taskVars
  <2> QED
    BY <1>7, <2>2 DEF LoadBoard, ManagerTypes
<1>8. ASSUME ForgetRoom, closer' \in [Closers -> {"idle", "waiting", "flushing", "backoff", "compacting", "done"}],
             accepting' \in BOOLEAN, raced' \in BOOLEAN, leftBehind' \in SUBSET Edits
      PROVE  ManagerTypes'
  BY <1>8, EmptySeq DEF ForgetRoom, ManagerTypes, NobodyEvicts
<1>9. CASE LoadFails
  <2>1. PersistenceTypes'
    BY <1>9, ForgottenTyped DEF LoadFails
  <2> QED
    BY <1>8, <1>9, <2>1 DEF LoadFails, ManagerTypes
<1>10. CASE Leased
  <2>1. PersistenceTypes'
    BY <1>10 DEF Leased, PersistenceTypes, DatabaseTypes, QueueTypes, TaskTypes, databaseVars, taskVars
  <2> QED
    BY <1>10, <2>1 DEF Leased, ManagerTypes
<1>11. CASE Drain
  <2>1. buffered # <<>> => Head(buffered) \in Edits /\ Tail(buffered) \in Seq(Edits)
    BY HeadTailProperties DEF ManagerTypes
  <2>2. PersistenceTypes'
    BY <1>1, <1>11, <2>1, OperationsTyped DEF Drain
  <2> QED
    BY <1>11, <2>1, <2>2 DEF Drain, ManagerTypes
<1>12. CASE MaintainLease
  <2>1. Still
    BY <1>12 DEF MaintainLease
  <2> QED
    BY <1>1, <1>12, <2>1 DEF MaintainLease, ManagerTypes
<1>13. ASSUME NEW answer \in BOOLEAN, LeaseRenewed(answer) \/ LeaseAcquired(answer) PROVE Types'
  <2>1. PersistenceTypes'
    BY <1>1, <1>13, OperationsTyped DEF LeaseRenewed, LeaseAcquired
  <2> QED
    BY <1>13, <2>1 DEF LeaseRenewed, LeaseAcquired, ManagerTypes
<1>14. CASE Deactivated
  BY <1>14, OperationsTyped DEF Deactivated, ManagerTypes
<1>15. ASSUME settled' = "none", UNCHANGED <<databaseVars, doc, queueVars, step, batch, marker, seen, persisted>>,
              chain' \in Seq(Task)
       PROVE  PersistenceTypes'
  BY <1>15, AwaitersAssumption DEF PersistenceTypes, DatabaseTypes, QueueTypes, TaskTypes, databaseVars, queueVars
<1>16. CASE Activated
  <2>1. PersistenceTypes'
    BY <1>15, <1>16 DEF Activated, PersistenceTypes, TaskTypes
  <2> QED
    BY <1>16, <2>1 DEF Activated, ManagerTypes
<1>17. ASSUME NEW c \in Evictions, Evict(c) PROVE Types'
  <2>1. CASE room = "open"
    BY <1>17, <2>1, StartCloseTyped DEF Evict, ManagerTypes, QueueTypes, PersistenceTypes, Closers
  <2>2. CASE room # "open"
    <3>1. PersistenceTypes'
      BY <1>1, <1>17, <2>2 DEF Evict
    <3> QED
      BY <1>17, <2>2, <3>1 DEF Evict, ManagerTypes, Closers
  <2> QED
    BY <2>1, <2>2
<1>18. CASE BeginShutdown
  <2>1. CASE room = "open"
    BY <1>18, <2>1, StartCloseTyped DEF BeginShutdown, ManagerTypes, Closers
  <2>2. CASE room # "open"
    <3>1. PersistenceTypes'
      BY <1>1, <1>18, <2>2 DEF BeginShutdown
    <3> QED
      BY <1>18, <2>2, <3>1 DEF BeginShutdown, ManagerTypes, Closers
  <2> QED
    BY <2>1, <2>2
<1>19. ASSUME NEW c \in Closers, LoadedForClose(c) PROVE Types'
  BY <1>19, StartCloseTyped DEF LoadedForClose, ManagerTypes, QueueTypes, PersistenceTypes
<1>20. ASSUME NEW c \in Closers, CloseFlushed(c) \/ CloseRetries(c) \/ CloseCompacted(c) PROVE Types'
  <2>1. c \in Awaiters
    BY ClosersAssumption
  <2>2. chain' \in Seq(Task)
    BY <1>20, <2>1, EnqueueTyped DEF CloseFlushed, CloseRetries, CloseCompacted, PersistenceTypes, TaskTypes
  <2>3. PersistenceTypes'
    <3>1. CASE CloseRetries(c)
      BY <2>2, <3>1 DEF CloseRetries, PersistenceTypes, DatabaseTypes, QueueTypes, TaskTypes, databaseVars, queueVars
    <3>2. CASE CloseFlushed(c) \/ CloseCompacted(c)
      BY <1>15, <2>2, <3>2 DEF CloseFlushed, CloseCompacted
    <3> QED
      BY <1>20, <3>1, <3>2
  <2> QED
    BY <1>20, <2>3 DEF CloseFlushed, CloseRetries, CloseCompacted, ManagerTypes
<1>21. ASSUME NEW c \in Evictions, EvictKeeps(c) PROVE Types'
  <2>1. (wasWriter[c] \/ Unsaved) \in BOOLEAN
    BY DEF ManagerTypes, Unsaved
  <2>2. PersistenceTypes'
    BY <1>21, <2>1, OperationsTyped DEF EvictKeeps
  <2> QED
    BY <1>21, <2>2 DEF EvictKeeps, ManagerTypes, OthersClose, Closers
<1>22. ASSUME NEW c \in Evictions, EvictDrops(c) PROVE Types'
  <2>1. PersistenceTypes'
    BY <1>22, ForgottenTyped DEF EvictDrops
  <2> QED
    BY <1>8, <1>22, <2>1 DEF EvictDrops, ManagerTypes, OthersClose, PersistenceTypes, DatabaseTypes
<1>23. CASE ShutdownEnds \/ Crash
  <2>1. PersistenceTypes'
    BY <1>23, ForgottenTyped DEF ShutdownEnds, Crash
  <2> QED
    BY <1>8, <1>23, <2>1 DEF ShutdownEnds, Crash, ManagerTypes, NobodyCloses, PersistenceTypes, DatabaseTypes
<1>24. CASE TaskStarts \/ Postgres \/ TaskReply \/ TimerFires
  BY <1>2, <1>24, TasksTyped, OperationsTyped DEF TaskStarts, Postgres, TaskReply, TimerFires
<1>25. CASE UNCHANGED vars
  BY <1>1, <1>2, <1>25 DEF vars
<1> QED
  BY <1>3, <1>4, <1>5, <1>6, <1>7, <1>9, <1>10, <1>11, <1>12, <1>13, <1>14, <1>16, <1>17, <1>18,
     <1>19, <1>20, <1>21, <1>22, <1>23, <1>24, <1>25 DEF Next

-----------------------------------------------------------------------------
(* The promise chain: where its head task is, and what a step does with it. *)

\* The batch and the marker belong to a flush, a read to a catch-up; while a task is at
\* one of its awaits no other awaiter is due.
ChainShape ==
    /\ step # "ready" => chain # <<>> /\ settled = "none"
    /\ step \notin {"appending", "committed"} => batch = <<>> /\ marker = {}
    /\ step \in {"appending", "committed"} => Head(chain).task = "flush"
    /\ step \in {"reading", "read"} => Head(chain).task = "catchUp"
    /\ step = "compacting" => Head(chain).task # "catchUp"

\* Tasks go to the end of the chain, or an awaiter continues.
Enqueued(tasks) ==
    /\ chain' = chain \o tasks /\ settled' \in {settled, "none"}
    /\ UNCHANGED <<step, batch, marker, seen>>

TaskStep == StartTask \/ AppendCommits \/ Reply

LEMMA TasksAreTyped ==
    \A a \in Awaiters : Flush(a) \in Seq(Task) /\ Compact(a) \in Seq(Task) /\ CatchUp(a) \in Seq(Task)
  BY TaskOfChain, OneOf DEF Flush, Compact, CatchUp

LEMMA ChainMoves ==
    ASSUME Types, [Next]_vars
    PROVE  \/ UNCHANGED taskVars
           \/ \E tasks \in Seq(Task) : Enqueued(tasks)
           \/ TaskStep
           \/ ForgetRoom
<1> DEFINE Goal == \/ UNCHANGED taskVars
                   \/ \E tasks \in Seq(Task) : Enqueued(tasks)
                   \/ TaskStep
                   \/ ForgetRoom
<1> SUFFICES Goal
  OBVIOUS
<1> USE DEF taskVars, persistenceVars
<1>1. <<>> \in Seq(Task) /\ chain \o <<>> = chain
  BY EmptySeq, ConcatEmptySeq DEF Types, PersistenceTypes, TaskTypes
<1>2. ASSUME NEW m \in Members, Join(m) \/ Leave(m) PROVE Goal
  BY <1>2 DEF Join, Leave
<1>3. ASSUME NEW e \in Edits, ClientEdit(e) \/ RemoteEdit(e) \/ PeerCommit(e) PROVE Goal
  BY <1>3 DEF ClientEdit, RemoteEdit, PeerCommit, Receive
<1>4. CASE PeerPersisted \/ Purge \/ LoadBoard \/ Leased \/ MaintainLease
  BY <1>4 DEF PeerPersisted, Purge, LoadBoard, Leased, MaintainLease
<1>5. CASE LoadFails \/ ShutdownEnds \/ Crash \/ \E c \in Evictions : EvictDrops(c)
  BY <1>5 DEF LoadFails, ShutdownEnds, Crash, EvictDrops
<1>6. CASE Drain
  BY <1>6 DEF Drain, Receive
<1>7. ASSUME NEW a \in Awaiters, NEW tasks \in {Flush(a), Compact(a), CatchUp(a)},
             EnqueueTasks(tasks), settled' \in {settled, "none"}, UNCHANGED <<step, batch, marker, seen>>
      PROVE  Goal
  BY <1>7, TasksAreTyped DEF EnqueueTasks, Enqueued
<1>8. ASSUME NEW answer \in BOOLEAN, LeaseRenewed(answer) \/ LeaseAcquired(answer) PROVE Goal
  <2>1. CASE BeginDeactivate
    BY <1>7, <2>1, AwaitersAssumption DEF BeginDeactivate
  <2>2. CASE Activate
    BY <1>7, <2>2, AwaitersAssumption DEF Activate
  <2> QED
    BY <1>8, <2>1, <2>2 DEF LeaseRenewed, LeaseAcquired
<1>9. ASSUME settled' = "none", UNCHANGED <<chain, step, batch, marker, seen>> PROVE Goal
  BY <1>1, <1>9 DEF Enqueued
<1>10. CASE Deactivated \/ Activated
  BY <1>9, <1>10 DEF Deactivated, EndDeactivate, Activated
<1>11. ASSUME NEW c \in Closers, BeginClose(c) PROVE Goal
  <2>1. Flush(c) \in Seq(Task) /\ CatchUp("none") \o Flush(c) \in Seq(Task)
    BY TasksAreTyped, ClosersAssumption, AwaitersAssumption, ConcatProperties
  <2> QED
    BY <1>11, <2>1 DEF BeginClose, EnqueueTasks, Enqueued
<1>12. CASE BeginShutdown \/ \E c \in Evictions : Evict(c)
  BY <1>11, <1>12 DEF BeginShutdown, Evict, StartClose, Closers
<1>13. ASSUME NEW c \in Closers, LoadedForClose(c) PROVE Goal
  BY <1>11, <1>13 DEF LoadedForClose, StartClose
<1>14. ASSUME NEW c \in Closers, CloseFlushed(c) \/ CloseRetries(c) \/ CloseCompacted(c) PROVE Goal
  <2>1. c \in Awaiters
    BY ClosersAssumption
  <2>2. EnqueueTasks(Flush(c)) \/ EnqueueTasks(Compact(c)) \/ UNCHANGED chain
    BY <1>14 DEF CloseFlushed, CloseRetries, CloseCompacted
  <2>3. UNCHANGED <<step, batch, marker, seen>> /\ settled' \in {settled, "none"}
    BY <1>14 DEF CloseFlushed, CloseRetries, CloseCompacted
  <2>4. CASE UNCHANGED chain
    BY <1>1, <2>3, <2>4 DEF Enqueued
  <2> QED
    BY <1>7, <2>1, <2>2, <2>3, <2>4
<1>15. ASSUME NEW c \in Evictions, EvictKeeps(c) PROVE Goal
  BY <1>15 DEF EvictKeeps, Reopen
<1>16. CASE TaskStarts \/ Postgres \/ TaskReply
  BY <1>16 DEF TaskStarts, Postgres, TaskReply, TaskStep
<1>17. CASE TimerFires
  BY <1>7, <1>17, AwaitersAssumption DEF TimerFires, FlushTimer
<1>18. CASE UNCHANGED vars
  BY <1>18 DEF vars
<1> HIDE DEF Goal
<1> QED
  BY <1>2, <1>3, <1>4, <1>5, <1>6, <1>8, <1>10, <1>12, <1>13, <1>14, <1>15, <1>16, <1>17, <1>18 DEF Next

LEMMA ChainShapeStep ==
    ASSUME Types, ChainShape, [Next]_vars
    PROVE  ChainShape'
<1> USE DEF ChainShape
<1>1. ASSUME NEW tasks \in Seq(Task), Enqueued(tasks) PROVE ChainShape'
  <2>1. chain # <<>> => chain' # <<>> /\ Head(chain') = Head(chain)
    BY <1>1, ConcatProperties, HeadTailProperties, EmptySeq, JoinedBy, TailOf
       DEF Enqueued, Types, PersistenceTypes, TaskTypes
  <2> QED
    BY <1>1, <2>1 DEF Enqueued
<1>2. CASE UNCHANGED taskVars
  BY <1>2 DEF taskVars
<1>3. CASE ForgetRoom
  BY <1>3 DEF ForgetRoom
<1>4. CASE TaskStep
  <2> USE DEF Settle, databaseVars, queueVars, taskVars
  <2>1. CASE StartTask
    BY <2>1 DEF StartTask, StartEmptyFlush, StartFlush, StartCatchUp, StartCompact, Due
  <2>2. CASE AppendCommits
    BY <2>2 DEF AppendCommits
  <2>3. CASE AppendReturns \/ AppendFails \/ AppendFindsNoBoard
    BY <2>3 DEF AppendReturns, AppendFails, AppendFindsNoBoard
  <2>4. CASE CatchUpReads \/ CatchUpReturns \/ CatchUpFails \/ CompactReturns
    BY <2>4 DEF CatchUpReads, CatchUpReturns, CatchUpFails, CompactReturns
  <2> QED
    BY <1>4, <2>1, <2>2, <2>3, <2>4 DEF TaskStep, Reply
<1> QED
  BY <1>1, <1>2, <1>3, <1>4, ChainMoves

-----------------------------------------------------------------------------
(* The room: what there is of its queue before it is open. *)

Busy(c) == closer[c] \in {"flushing", "backoff", "compacting", "done"}

RoomShape ==
    /\ room # "open" =>
         /\ chain = <<>> /\ settled = "none" /\ ~closing /\ ~closed /\ maintain = "idle"
         /\ \A c \in Closers : Busy(c) => c = Shutdown /\ closer[c] = "done" /\ room = "none"
    /\ room \in {"none", "loading", "leasing"} => ~active /\ ~timer /\ pending = <<>>
    /\ room \in {"none", "loading"} => doc = {}
    /\ room = "leasing" => doc \subseteq stored
    /\ closer[Shutdown] # "idle" => ~accepting

LEMMA RoomShapeStep ==
    ASSUME Types, ChainShape, RoomShape, [Next]_vars
    PROVE  RoomShape'
<1> USE DEF databaseVars, queueVars, taskVars, persistenceVars, Types, ManagerTypes
<1>1. ASSUME room = "open", room' = "open", UNCHANGED <<closer, accepting>> PROVE RoomShape'
  BY <1>1 DEF RoomShape
<1>2. ASSUME UNCHANGED <<room, chain, settled, closing, closed, active, timer, pending, doc, closer, accepting, maintain>>,
             stored \subseteq stored'
      PROVE  RoomShape'
  BY <1>2 DEF RoomShape, Busy
<1>3. ASSUME ForgetRoom, \A c \in Closers : closer'[c] = "idle" \/ (c = Shutdown /\ closer'[c] = "done"),
             closer'[Shutdown] # "idle" => ~accepting'
      PROVE  RoomShape'
  BY <1>3 DEF RoomShape, ForgetRoom, Busy, Closers
<1>4. Shutdown \in Closers
  BY DEF Closers
<1>5. ASSUME NEW m \in Members, Join(m) \/ Leave(m) PROVE RoomShape'
  <2>1. Leave(m) => RoomShape'
    BY <1>2 DEF Leave
  <2>2. Join(m) => RoomShape'
    BY <1>4 DEF Join, RoomShape, Busy
  <2> QED
    BY <1>5, <2>1, <2>2
<1>6. ASSUME NEW e \in Edits, ClientEdit(e) \/ RemoteEdit(e) PROVE RoomShape'
  BY <1>1, <1>2, <1>6 DEF ClientEdit, RemoteEdit
<1>7. ASSUME NEW e \in Edits, PeerCommit(e) PROVE RoomShape'
  BY <1>2, <1>7 DEF PeerCommit, managerVars
<1>8. CASE PeerPersisted \/ Purge
  BY <1>2, <1>8 DEF PeerPersisted, Purge, managerVars
<1>9. CASE LoadBoard
  <2>1. doc' \subseteq stored
    BY <1>9 DEF LoadBoard, LoadResults
  <2> QED
    BY <1>9, <2>1 DEF LoadBoard, RoomShape, Busy
<1>10. CASE LoadFails
  BY <1>3, <1>4, <1>10 DEF LoadFails, RoomShape
<1>11. CASE Leased
  BY <1>11 DEF Leased, RoomShape, Busy
<1>12. CASE Drain
  <2>1. /\ room = "draining" /\ room' \in {"draining", "open"}
        /\ UNCHANGED <<chain, settled, closing, closed, closer, accepting, maintain>>
    BY <1>12 DEF Drain, Receive
  <2> QED
    BY <2>1 DEF RoomShape, Busy
<1>13. CASE MaintainLease
  BY <1>1, <1>13 DEF MaintainLease
<1>14. ASSUME NEW answer \in BOOLEAN, LeaseRenewed(answer) \/ LeaseAcquired(answer) PROVE RoomShape'
  <2>1. room = "open" => RoomShape'
    BY <1>1, <1>14 DEF LeaseRenewed, LeaseAcquired
  <2>2. room # "open" => maintain \notin {"renewing", "acquiring"}
    BY DEF RoomShape
  <2> QED
    BY <1>14, <2>1, <2>2 DEF LeaseRenewed, LeaseAcquired
<1>15. CASE Deactivated \/ Activated
  <2>1. room = "open" /\ room' = "open" /\ UNCHANGED <<closer, accepting>>
    BY <1>15 DEF Deactivated, EndDeactivate, Activated, RoomShape
  <2> QED
    BY <1>1, <2>1
<1>16. ASSUME room = "open", room' = "open",
              closer'[Shutdown] = closer[Shutdown] \/ ~accepting', accepting' => accepting
       PROVE  RoomShape'
  BY <1>16 DEF RoomShape
<1>17. ASSUME NEW c \in Evictions, Evict(c) PROVE RoomShape'
  <2>1. c \in Closers /\ c # Shutdown
    BY ClosersAssumption DEF Closers
  <2>2. closer'[Shutdown] = closer[Shutdown] /\ room' = room /\ accepting' = accepting
    BY <1>4, <1>17, <2>1 DEF Evict, StartClose
  <2>3. CASE room = "open"
    BY <1>16, <2>2, <2>3
  <2>4. CASE room # "open"
    <3>1. UNCHANGED <<persistenceVars, closing, maintain>>
      BY <1>17, <2>4 DEF Evict
    <3>2. \A d \in Closers : Busy(d)' => Busy(d) /\ closer'[d] = closer[d]
      BY <1>17, <2>4 DEF Evict, Busy
    <3> QED
      BY <2>2, <2>4, <3>1, <3>2 DEF RoomShape
  <2> QED
    BY <2>3, <2>4
<1>18. CASE BeginShutdown
  <2>1. CASE room = "open"
    BY <1>4, <1>16, <1>18, <2>1 DEF BeginShutdown
  <2>2. CASE room # "open"
    BY <1>18, <2>2 DEF BeginShutdown, RoomShape, Busy
  <2> QED
    BY <2>1, <2>2
<1>19. ASSUME NEW c \in Closers, LoadedForClose(c) PROVE RoomShape'
  <2>1. closer[Shutdown] # "idle" \/ closer'[Shutdown] = closer[Shutdown]
    BY <1>19 DEF LoadedForClose, StartClose
  <2>2. room = "open" /\ room' = "open" /\ accepting' = accepting
    BY <1>19 DEF LoadedForClose
  <2> QED
    BY <2>1, <2>2 DEF RoomShape
<1>20. ASSUME NEW c \in Closers, CloseFlushed(c) \/ CloseRetries(c) \/ CloseCompacted(c) PROVE RoomShape'
  <2>1. room = "open"
    BY <1>20 DEF CloseFlushed, CloseRetries, CloseCompacted, RoomShape, Busy
  <2>2. closer[Shutdown] # "idle" \/ closer'[Shutdown] = closer[Shutdown]
    BY <1>4, <1>20 DEF CloseFlushed, CloseRetries, CloseCompacted
  <2>3. room' = room /\ accepting' = accepting
    BY <1>20 DEF CloseFlushed, CloseRetries, CloseCompacted
  <2> QED
    BY <2>1, <2>2, <2>3 DEF RoomShape
<1>21. ASSUME NEW c \in Evictions, EvictKeeps(c) PROVE RoomShape'
  <2>1. c # Shutdown /\ c \in Closers
    BY ClosersAssumption DEF Closers
  <2>2. room = "open"
    BY <1>21, <2>1 DEF EvictKeeps, CloseDone, RoomShape, Busy
  <2>3. closer'[Shutdown] = closer[Shutdown]
    BY <1>4, <1>21, <2>1 DEF EvictKeeps
  <2> QED
    BY <1>21, <2>2, <2>3 DEF EvictKeeps, RoomShape
<1>22. ASSUME NEW c \in Evictions, EvictDrops(c) PROVE RoomShape'
  BY <1>3, <1>4, <1>22 DEF EvictDrops, RoomShape
<1>23. CASE ShutdownEnds \/ Crash
  BY <1>3, <1>4, <1>23 DEF ShutdownEnds, Crash, NobodyCloses
<1>24. ASSUME TaskStep, UNCHANGED managerVars PROVE RoomShape'
  <2>1. chain # <<>>
    BY <1>24 DEF TaskStep, StartTask, StartEmptyFlush, StartFlush, StartCatchUp, StartCompact, Due,
                 AppendCommits, Reply, AppendReturns, AppendFails, AppendFindsNoBoard, CatchUpReads,
                 CatchUpReturns, CatchUpFails, CompactReturns, ChainShape
  <2> QED
    BY <1>1, <1>24, <2>1 DEF RoomShape, managerVars
<1>25. CASE TaskStarts \/ Postgres \/ TaskReply
  BY <1>24, <1>25 DEF TaskStarts, Postgres, TaskReply, TaskStep
<1>26. CASE TimerFires
  <2>1. room = "open"
    BY <1>26 DEF TimerFires, FlushTimer, Quiet, RoomShape
  <2> QED
    BY <1>1, <1>26, <2>1 DEF TimerFires, managerVars
<1>27. CASE UNCHANGED vars
  BY <1>2, <1>27 DEF vars, managerVars
<1> QED
  BY <1>5, <1>6, <1>7, <1>8, <1>9, <1>10, <1>11, <1>12, <1>13, <1>14, <1>15, <1>17, <1>18, <1>19,
     <1>20, <1>21, <1>22, <1>23, <1>25, <1>26, <1>27 DEF Next

-----------------------------------------------------------------------------
(* No lost wake-up. *)

\* A flush that has not begun yet.
FlushWaits == \E i \in DOMAIN chain : chain[i].task = "flush" /\ (i > 1 \/ step = "ready")

\* What a catch-up will queue is written by a flush behind it, or by the timer's.
CatchUpServed ==
    \A i \in DOMAIN chain : chain[i].task = "catchUp"
        => timer \/ \E j \in DOMAIN chain : j > i /\ chain[j].task = "flush"

Writing == timer \/ FlushWaits \/ step \in {"appending", "committed"}

Served ==
    /\ closed => \E c \in Closers : Busy(c)
    /\ CatchUpServed
    /\ active /\ pending # <<>> => Writing \/ \E c \in Closers : Busy(c)

LEMMA OneTask ==
    ASSUME NEW a \in Awaiters
    PROVE  /\ \A tasks \in {Flush(a), Compact(a), CatchUp(a)} :
                tasks \in Seq(Task) /\ Len(tasks) = 1 /\ DOMAIN tasks = {1} /\ tasks[1].awaiter = a
           /\ Flush(a)[1].task = "flush" /\ Compact(a)[1].task = "compact" /\ CatchUp(a)[1].task = "catchUp"
<1>1. \A x : Len(<<x>>) = 1 /\ DOMAIN <<x>> = {1} /\ <<x>>[1] = x
  OBVIOUS
<1> QED
  BY <1>1, TasksAreTyped DEF Flush, Compact, CatchUp

\* What close() enqueues in a room that does not write.
CaughtUpFlush(a) == CatchUp("none") \o Flush(a)

LEMMA CatchUpThenFlush ==
    ASSUME NEW a \in Awaiters, NEW tasks, tasks = CaughtUpFlush(a)
    PROVE  /\ tasks \in Seq(Task) /\ Len(tasks) = 2 /\ DOMAIN tasks = {1, 2}
           /\ tasks[1].task = "catchUp" /\ tasks[1].awaiter = "none"
           /\ tasks[2].task = "flush" /\ tasks[2].awaiter = a
<1> DEFINE q == CatchUp("none")
           r == Flush(a)
<1>1. /\ q \in Seq(Task) /\ Len(q) = 1 /\ DOMAIN q = {1} /\ q[1].awaiter = "none" /\ q[1].task = "catchUp"
      /\ r \in Seq(Task) /\ Len(r) = 1 /\ DOMAIN r = {1} /\ r[1].awaiter = a /\ r[1].task = "flush"
  BY OneTask, AwaitersAssumption
<1>2. tasks = q \o r
  BY DEF q, r, CaughtUpFlush
<1> HIDE DEF q, r
<1>3. /\ tasks \in Seq(Task) /\ Len(tasks) = Len(q) + Len(r) /\ DOMAIN tasks = 1..(Len(q) + Len(r))
      /\ \A i \in DOMAIN q : tasks[i] = q[i]
      /\ \A i \in DOMAIN r : tasks[Len(q) + i] = r[i]
  <2>1. q \in Seq(Task) /\ r \in Seq(Task)
    BY <1>1
  <2>2. q \o r \in Seq(Task) /\ Len(q \o r) = Len(q) + Len(r)
    BY <2>1, JoinedBy
  <2>3. DOMAIN (q \o r) = 1..(Len(q) + Len(r))
    BY <2>1, JoinedBy
  <2>4. \A i \in DOMAIN q : (q \o r)[i] = q[i]
    BY <2>1, JoinedBy
  <2>5. \A i \in DOMAIN r : (q \o r)[Len(q) + i] = r[i]
    BY <2>1, JoinedBy
  <2> QED
    BY <1>2, <2>2, <2>3, <2>4, <2>5
<1>4. tasks[1] = q[1] /\ tasks[1 + 1] = r[1]
  BY <1>1, <1>3
<1>5. Len(tasks) = 2 /\ DOMAIN tasks = {1, 2}
  BY <1>1, <1>3
<1> QED
  BY <1>1, <1>3, <1>4, <1>5

LEMMA EnqueueServes ==
    ASSUME Types, ChainShape, CatchUpServed, NEW tasks \in Seq(Task), Enqueued(tasks)
    PROVE  /\ tasks # <<>> /\ tasks[Len(tasks)].task = "flush" => CatchUpServed' /\ FlushWaits'
           /\ (\A i \in DOMAIN tasks : tasks[i].task # "catchUp") /\ timer' = timer => CatchUpServed'
           /\ FlushWaits => FlushWaits'
<1>1. chain \in Seq(Task) /\ chain' = chain \o tasks
  BY DEF Types, PersistenceTypes, TaskTypes, Enqueued
<1>2. step' = step /\ (Len(chain) = 0 => step = "ready")
  BY <1>1, EmptySeq DEF Enqueued, ChainShape
<1>3. /\ Len(chain) \in Nat /\ Len(tasks) \in Nat
      /\ DOMAIN chain = 1..Len(chain) /\ DOMAIN tasks = 1..Len(tasks)
      /\ DOMAIN chain' = 1..(Len(chain) + Len(tasks))
      /\ \A i \in DOMAIN chain : chain'[i] = chain[i]
      /\ \A i \in DOMAIN tasks : chain'[Len(chain) + i] = tasks[i]
      /\ \A i \in DOMAIN chain' \ DOMAIN chain : i - Len(chain) \in DOMAIN tasks /\ chain'[i] = tasks[i - Len(chain)]
  BY <1>1, JoinedBy
<1>4. ASSUME tasks # <<>>, tasks[Len(tasks)].task = "flush" PROVE CatchUpServed' /\ FlushWaits'
  <2> DEFINE last == Len(chain) + Len(tasks)
  <2>1. Len(tasks) >= 1
    BY <1>3, <1>4, EmptySeq
  <2>2. last \in DOMAIN chain' /\ chain'[last].task = "flush" /\ \A i \in DOMAIN chain' : i < last \/ i = last
    BY <1>3, <1>4, <2>1
  <2>3. last > 1 \/ step' = "ready"
    BY <1>2, <1>3, <2>1
  <2> HIDE DEF last
  <2>4. FlushWaits'
    BY <2>2, <2>3 DEF FlushWaits
  <2>5. \A i \in DOMAIN chain' : chain'[i].task = "catchUp" => i # last
    BY <2>2
  <2>6. \A i \in DOMAIN chain' : chain'[i].task = "catchUp"
          => \E j \in DOMAIN chain' : j > i /\ chain'[j].task = "flush"
    <3> TAKE i \in DOMAIN chain'
    <3> HAVE chain'[i].task = "catchUp"
    <3>1. last > i
      BY <1>3, <2>2, <2>5 DEF last
    <3> QED
      BY <2>2, <3>1
  <2> QED
    BY <2>4, <2>6 DEF CatchUpServed
<1>5. ASSUME \A i \in DOMAIN tasks : tasks[i].task # "catchUp", timer' = timer PROVE CatchUpServed'
  <2> SUFFICES ASSUME NEW i \in DOMAIN chain', chain'[i].task = "catchUp", ~timer'
               PROVE  \E j \in DOMAIN chain' : j > i /\ chain'[j].task = "flush"
    BY DEF CatchUpServed
  <2>1. i \in DOMAIN chain /\ chain[i].task = "catchUp"
    BY <1>3, <1>5
  <2>2. PICK j \in DOMAIN chain : j > i /\ chain[j].task = "flush"
    BY <1>5, <2>1 DEF CatchUpServed
  <2>3. j \in DOMAIN chain' /\ chain'[j] = chain[j]
    BY <1>3
  <2> QED
    BY <2>2, <2>3
<1>6. ASSUME FlushWaits PROVE FlushWaits'
  <2>1. PICK i \in DOMAIN chain : chain[i].task = "flush" /\ (i > 1 \/ step = "ready")
    BY <1>6 DEF FlushWaits
  <2>2. i \in DOMAIN chain' /\ chain'[i] = chain[i] /\ step' = step
    BY <1>2, <1>3
  <2> QED
    BY <2>1, <2>2 DEF FlushWaits
<1> QED
  BY <1>4, <1>5, <1>6

LEMMA SettleServes ==
    ASSUME Types, chain # <<>>, CatchUpServed, Settle, timer => timer'
    PROVE  /\ CatchUpServed'
           /\ FlushWaits /\ (step # "ready" \/ Head(chain).task # "flush") => FlushWaits'
           /\ Head(chain).task = "catchUp" => timer \/ FlushWaits'
<1>1. chain \in Seq(Task) /\ chain' = Tail(chain) /\ step' = "ready"
  BY DEF Types, PersistenceTypes, TaskTypes, Settle
<1>2. /\ Len(chain) \in Nat /\ 1 <= Len(chain) /\ Head(chain) = chain[1]
      /\ DOMAIN chain = 1..Len(chain) /\ DOMAIN chain' = 1..(Len(chain) - 1)
      /\ \A i \in DOMAIN chain' : i + 1 \in DOMAIN chain /\ chain'[i] = chain[i + 1]
  BY <1>1, TailOf
<1>3. \A j \in DOMAIN chain : j > 1 => j - 1 \in DOMAIN chain' /\ chain'[j - 1] = chain[j]
  BY <1>2
<1>4. CatchUpServed'
  <2> SUFFICES ASSUME NEW i \in DOMAIN chain', chain'[i].task = "catchUp", ~timer'
               PROVE  \E j \in DOMAIN chain' : j > i /\ chain'[j].task = "flush"
    BY DEF CatchUpServed
  <2>1. PICK j \in DOMAIN chain : j > i + 1 /\ chain[j].task = "flush"
    BY <1>2 DEF CatchUpServed
  <2>2. j > 1 /\ j - 1 > i
    BY <1>2, <2>1
  <2> QED
    BY <1>3, <2>1, <2>2
<1>5. \A j \in DOMAIN chain : j > 1 /\ chain[j].task = "flush" => FlushWaits'
  BY <1>1, <1>3 DEF FlushWaits
<1>6. FlushWaits /\ (step # "ready" \/ Head(chain).task # "flush") => FlushWaits'
  BY <1>2, <1>5 DEF FlushWaits
<1>7. Head(chain).task = "catchUp" => timer \/ FlushWaits'
  BY <1>2, <1>5 DEF CatchUpServed
<1> QED
  BY <1>4, <1>6, <1>7

\* What close() does to the chain: a flush is put last in it.
LEMMA CloseEnqueues ==
    ASSUME NEW c \in Closers, BeginClose(c)
    PROVE  \E tasks \in Seq(Task) : Enqueued(tasks) /\ tasks # <<>> /\ tasks[Len(tasks)].task = "flush"
<1>1. c \in Awaiters
  BY ClosersAssumption
<1>2. /\ CaughtUpFlush(c) \in Seq(Task) /\ CaughtUpFlush(c) # <<>>
      /\ CaughtUpFlush(c)[Len(CaughtUpFlush(c))].task = "flush"
  <2>1. PICK tasks : tasks = CaughtUpFlush(c)
    OBVIOUS
  <2>2. tasks \in Seq(Task) /\ Len(tasks) = 2 /\ tasks[2].task = "flush"
    BY <1>1, <2>1, CatchUpThenFlush
  <2>3. tasks # <<>>
    <3>1. 2 \in DOMAIN tasks
      BY <2>2, LenProperties
    <3> QED
      BY <3>1
  <2> QED
    BY <2>1, <2>2, <2>3
<1>3. Flush(c) \in Seq(Task) /\ Flush(c) # <<>> /\ Flush(c)[Len(Flush(c))].task = "flush"
  BY <1>1, OneTask, EmptySeq
<1>4. Enqueued(CaughtUpFlush(c)) \/ Enqueued(Flush(c))
  BY DEF BeginClose, EnqueueTasks, Enqueued, CaughtUpFlush
<1> QED
  BY <1>2, <1>3, <1>4

LEMMA ServedStep ==
    ASSUME Types, ChainShape, RoomShape, Served, [Next]_vars
    PROVE  Served'
<1> USE DEF databaseVars, queueVars, taskVars, persistenceVars, Types, ManagerTypes
<1>1. ASSUME NEW a \in Awaiters, Enqueued(Flush(a)) PROVE CatchUpServed' /\ FlushWaits'
  BY <1>1, EnqueueServes, OneTask, EmptySeq DEF Served
<1>2. ASSUME NEW a \in Awaiters, Enqueued(Compact(a)), timer' = timer
      PROVE  CatchUpServed' /\ (FlushWaits => FlushWaits')
  <2>1. Compact(a) \in Seq(Task) /\ \A i \in DOMAIN Compact(a) : Compact(a)[i].task # "catchUp"
    BY OneTask
  <2> QED
    BY <1>2, <2>1, EnqueueServes DEF Served
<1>3. ASSUME UNCHANGED <<chain, step, timer>> PROVE CatchUpServed' /\ (Writing => Writing')
  BY <1>3 DEF Served, CatchUpServed, Writing, FlushWaits
<1>4. ASSUME UNCHANGED <<chain, step, timer, closed, active, pending>>, \A c \in Closers : Busy(c) => Busy(c)'
      PROVE  Served'
  <2>1. (\E c \in Closers : Busy(c)) => \E c \in Closers : Busy(c)'
    BY <1>4
  <2> QED
    BY <1>3, <1>4, <2>1 DEF Served
<1>5. ASSUME NEW e \in Edits, Receive(e), UNCHANGED closer PROVE Served'
  <2>1. UNCHANGED <<chain, step, closed, active>> /\ (timer => timer')
    BY <1>5 DEF Receive, ScheduleFlush
  <2>2. active' /\ pending' # <<>> => timer' \/ closed \/ (pending # <<>> /\ timer' = timer)
    BY <1>5 DEF Receive, ScheduleFlush
  <2>3. CatchUpServed'
    BY <2>1 DEF Served, CatchUpServed
  <2>4. UNCHANGED <<chain, step>> => (FlushWaits' = FlushWaits)
    BY DEF FlushWaits
  <2>5. (\E c \in Closers : Busy(c))' = (\E c \in Closers : Busy(c))
    BY <1>5 DEF Busy
  <2>6. closed' => \E c \in Closers : Busy(c)'
    BY <2>1, <2>5 DEF Served
  <2>7. active' /\ pending' # <<>> => Writing' \/ \E c \in Closers : Busy(c)'
    BY <2>1, <2>2, <2>4, <2>5 DEF Served, Writing
  <2> QED
    BY <2>3, <2>6, <2>7 DEF Served
<1>6. ASSUME NEW m \in Members, Join(m) \/ Leave(m) PROVE Served'
  BY <1>4, <1>6 DEF Join, Leave, Busy
<1>7. ASSUME NEW e \in Edits, ClientEdit(e) \/ RemoteEdit(e) PROVE Served'
  BY <1>4, <1>5, <1>7 DEF ClientEdit, RemoteEdit, Busy
<1>8. ASSUME NEW e \in Edits, PeerCommit(e) PROVE Served'
  BY <1>4, <1>8 DEF PeerCommit, Busy, managerVars
<1>9. CASE PeerPersisted \/ Purge \/ LoadBoard \/ MaintainLease \/ UNCHANGED vars
  BY <1>4, <1>9 DEF PeerPersisted, Purge, LoadBoard, MaintainLease, Busy, managerVars, vars
<1>10. CASE ForgetRoom
  <2>1. chain' = <<>> /\ ~closed' /\ ~active'
    BY <1>10 DEF ForgetRoom
  <2>2. DOMAIN chain' = {}
    BY <2>1
  <2> QED
    BY <2>1, <2>2 DEF Served, CatchUpServed
<1>11. CASE Leased
  BY <1>3, <1>11 DEF Leased, Served, RoomShape
<1>12. CASE Drain
  <2>1. CASE buffered = <<>>
    BY <1>4, <1>12, <2>1 DEF Drain, Busy
  <2>2. CASE buffered # <<>>
    <3>1. Head(buffered) \in Edits
      BY <2>2, HeadTailProperties
    <3> QED
      BY <1>4, <1>5, <1>12, <2>2, <3>1 DEF Drain, Busy
  <2> QED
    BY <2>1, <2>2
<1>13. ASSUME NEW answer \in BOOLEAN, LeaseRenewed(answer) \/ LeaseAcquired(answer) PROVE Served'
  <2>1. CASE UNCHANGED persistenceVars
    BY <1>4, <1>13, <2>1 DEF LeaseRenewed, LeaseAcquired, Busy
  <2>2. CASE BeginDeactivate
    <3>1. Enqueued(Flush("deactivate")) /\ UNCHANGED <<closed, closer>>
      BY <1>13, <2>2 DEF LeaseRenewed, LeaseAcquired, BeginDeactivate, EnqueueTasks, Enqueued
    <3> QED
      BY <1>1, <3>1, AwaitersAssumption DEF Served, Writing, Busy
  <2>3. CASE Activate
    BY <2>3 DEF Activate, Served, Writing, CatchUpServed
  <2> QED
    BY <1>13, <2>1, <2>2, <2>3 DEF LeaseRenewed, LeaseAcquired
<1>14. CASE Deactivated
  <2>1. UNCHANGED <<chain, step, timer, closed, closer>> /\ pending' = <<>>
    BY <1>14 DEF Deactivated, EndDeactivate
  <2> QED
    BY <1>3, <2>1 DEF Served, Busy
<1>15. CASE Activated
  BY <1>4, <1>15 DEF Activated, Busy
<1>16. ASSUME NEW c \in Closers, StartClose(c) PROVE Served'
  <2>1. CatchUpServed'
    BY <1>16, CloseEnqueues, EnqueueServes DEF StartClose, Served
  <2>2. Busy(c)'
    BY <1>16 DEF StartClose, Busy
  <2> QED
    BY <2>1, <2>2 DEF Served
<1>17. ASSUME NEW c \in Evictions, Evict(c) PROVE Served'
  <2>1. room = "open" => StartClose(c) /\ c \in Closers
    BY <1>17 DEF Evict, Closers
  <2>2. room # "open" => Served'
    BY <1>4, <1>17 DEF Evict, Busy
  <2> QED
    BY <1>16, <2>1, <2>2
<1>18. CASE BeginShutdown
  <2>1. room = "open" => StartClose(Shutdown) /\ Shutdown \in Closers
    BY <1>18 DEF BeginShutdown, Closers
  <2>2. room # "open" => UNCHANGED <<chain, step, timer, closed, active, pending>>
    BY <1>18 DEF BeginShutdown
  <2>3. room # "open" => \A c \in Closers : Busy(c) => Busy(c)'
    BY <1>18 DEF BeginShutdown, RoomShape, Busy
  <2> QED
    BY <1>4, <1>16, <2>1, <2>2, <2>3
<1>19. ASSUME NEW c \in Closers, LoadedForClose(c) PROVE Served'
  BY <1>16, <1>19 DEF LoadedForClose
<1>20. ASSUME NEW c \in Closers, CloseFlushed(c) \/ CloseRetries(c) \/ CloseCompacted(c) PROVE Served'
  <2>1. Busy(c)'
    BY <1>20 DEF CloseFlushed, CloseRetries, CloseCompacted, Busy
  <2>2. c \in Awaiters
    BY ClosersAssumption
  <2>3. UNCHANGED <<step, timer>>
    BY <1>20 DEF CloseFlushed, CloseRetries, CloseCompacted
  <2>4. UNCHANGED chain \/ Enqueued(Compact(c)) \/ Enqueued(Flush(c))
    BY <1>20 DEF CloseFlushed, CloseRetries, CloseCompacted, EnqueueTasks, Enqueued
  <2>5. CatchUpServed'
    BY <1>1, <1>2, <1>3, <2>2, <2>3, <2>4
  <2> QED
    BY <2>1, <2>5 DEF Served
<1>21. ASSUME NEW c \in Evictions, EvictKeeps(c) PROVE Served'
  <2>1. Reopen(wasWriter[c] \/ Unsaved)
    BY <1>21 DEF EvictKeeps
  <2>2. UNCHANGED <<chain, step>> /\ ~closed' /\ (timer => timer') /\ (pending' # <<>> => timer')
    BY <2>1 DEF Reopen, FlushAfterReopen
  <2> QED
    BY <2>2 DEF Served, CatchUpServed, Writing
<1>22. ASSUME TaskStep, UNCHANGED managerVars PROVE Served'
  <2>1. \A c \in Closers : Busy(c)' = Busy(c)
    BY <1>22 DEF managerVars, Busy
  <2>2. CASE StartEmptyFlush
    BY <2>1, <2>2, SettleServes DEF StartEmptyFlush, Due, Served
  <2>3. CASE StartFlush
    <3>1. step' = "appending" /\ UNCHANGED <<chain, timer, closed>>
      BY <2>3 DEF StartFlush
    <3> QED
      BY <2>1, <3>1 DEF Served, CatchUpServed, Writing
  <2>4. CASE StartCatchUp \/ StartCompact
    <3>1. chain # <<>> /\ Head(chain).task # "flush" /\ UNCHANGED <<chain, timer, closed, active, pending>>
          /\ step = "ready" /\ step' \in {"reading", "compacting"}
      BY <2>4 DEF StartCatchUp, StartCompact, Due
    <3>2. chain \in Seq(Task) /\ Head(chain) = chain[1] /\ DOMAIN chain = 1..Len(chain) /\ Len(chain) \in Nat
      BY <3>1, TailOf DEF PersistenceTypes, TaskTypes
    <3>3. FlushWaits => FlushWaits'
      BY <3>1, <3>2 DEF FlushWaits
    <3> QED
      BY <2>1, <3>1, <3>3 DEF Served, CatchUpServed, Writing
  <2>5. CASE AppendCommits
    BY <2>1, <2>5 DEF AppendCommits, Served, CatchUpServed, Writing
  <2>6. ASSUME Settle, chain # <<>>, step # "ready", timer => timer', closed' = closed, active' = active,
               pending' # <<>> => \/ timer' \/ closed
                                  \/ Head(chain).task = "catchUp"
                                  \/ pending # <<>> /\ step = "compacting"
        PROVE  Served'
    BY <2>1, <2>6, SettleServes DEF Served, Writing
  <2>7. CASE AppendReturns
    <3>1. /\ chain # <<>> /\ UNCHANGED <<closed, active, pending>> /\ (timer => timer')
          /\ (pending' # <<>> => timer' \/ closed)
      BY <2>7 DEF AppendReturns, ScheduleFlush, ChainShape
    <3>2. Settle => Served'
      BY <2>6, <2>7, <3>1 DEF AppendReturns
    <3>3. UNCHANGED chain => Served'
      BY <2>1, <3>1 DEF Served, CatchUpServed, Writing
    <3> QED
      BY <2>7, <3>2, <3>3 DEF AppendReturns
  <2>8. CASE AppendFails
    BY <2>6, <2>8 DEF AppendFails, Retry, ScheduleFlush, ChainShape
  <2>9. CASE AppendFindsNoBoard
    BY <2>6, <2>9 DEF AppendFindsNoBoard, ChainShape
  <2>10. CASE CatchUpReads
    BY <2>1, <2>10 DEF CatchUpReads, Served, CatchUpServed, Writing, FlushWaits
  <2>11. CASE CatchUpReturns \/ CatchUpFails
    BY <2>6, <2>11 DEF CatchUpReturns, CatchUpFails, ChainShape
  <2>12. CASE CompactReturns
    BY <2>6, <2>12 DEF CompactReturns, ChainShape
  <2> QED
    BY <1>22, <2>2, <2>3, <2>4, <2>5, <2>7, <2>8, <2>9, <2>10, <2>11, <2>12 DEF TaskStep, StartTask, Reply
<1>23. CASE TaskStarts \/ Postgres \/ TaskReply
  BY <1>22, <1>23 DEF TaskStarts, Postgres, TaskReply, TaskStep
<1>24. CASE TimerFires
  <2>1. Enqueued(Flush("none")) /\ UNCHANGED <<closed, closer>>
    BY <1>24 DEF TimerFires, FlushTimer, EnqueueTasks, Enqueued, managerVars
  <2> QED
    BY <1>1, <2>1, AwaitersAssumption DEF Served, Writing, Busy
<1>25. CASE LoadFails \/ ShutdownEnds \/ Crash \/ \E c \in Evictions : EvictDrops(c)
  BY <1>10, <1>25 DEF LoadFails, ShutdownEnds, Crash, EvictDrops
<1> QED
  BY <1>6, <1>7, <1>8, <1>9, <1>11, <1>12, <1>13, <1>14, <1>15, <1>17, <1>18, <1>19, <1>20, <1>21,
     <1>23, <1>24, <1>25 DEF Next

LEMMA InitServes == Init => Types /\ ChainShape /\ RoomShape /\ Served
<1> SUFFICES ASSUME Init PROVE Types /\ ChainShape /\ RoomShape /\ Served
  OBVIOUS
<1>1. <<>> \in Seq(SUBSET Edits) /\ <<>> \in Seq(Task) /\ <<>> \in Seq(Edits)
  BY EmptySeq
<1>2. QueueTypes
  <2>1. 0 \in 0..SnapshotEvery
    BY LimitsAssumption
  <2> QED
    BY <1>1, <2>1 DEF Init, QueueTypes
<1>3. TaskTypes /\ DatabaseTypes
  BY <1>1, AwaitersAssumption DEF Init, TaskTypes, DatabaseTypes
<1>4. ManagerTypes
  BY <1>1 DEF Init, ManagerTypes, NobodyEvicts, NobodyCloses
<1>5. ChainShape
  BY DEF Init, ChainShape
<1>6. RoomShape
  BY DEF Init, RoomShape, Busy, NobodyCloses, Closers
<1>7. Served
  <2>1. DOMAIN chain = {}
    BY DEF Init
  <2> QED
    BY <2>1 DEF Init, Served, CatchUpServed
<1> QED
  BY <1>2, <1>3, <1>4, <1>5, <1>6, <1>7 DEF Types, PersistenceTypes

ServedInv == Types /\ ChainShape /\ RoomShape /\ Served

LEMMA ServedHolds == Spec => []ServedInv
<1>1. Init => ServedInv
  BY InitServes DEF ServedInv
<1>2. ServedInv /\ [Next]_vars => ServedInv'
  BY TypesStep, ChainShapeStep, RoomShapeStep, ServedStep DEF ServedInv, ChainShape
<1> QED
  BY <1>1, <1>2, PTL DEF Spec

\* No lost wake-up, for any chain of flushes, lease changes and overlapping closes: while
\* updates are queued in a writer, a timer, a task of the chain or a close() is going to
\* write them (scheduleFlush, flushNow, reopen and close of roomPersistence.ts).
THEOREM UpdatesAreServed == Spec => []QueueIsServed
<1>1. ServedInv => QueueIsServed
  <2> SUFFICES ASSUME ServedInv, active, pending # <<>>, ~timer, chain = <<>>
               PROVE  \E c \in Closers : closer[c] \notin {"idle", "waiting"}
    BY DEF QueueIsServed
  <2>1. DOMAIN chain = {} /\ step = "ready"
    BY DEF ServedInv, ChainShape
  <2>2. \E c \in Closers : Busy(c)
    BY <2>1 DEF ServedInv, Served, Writing, FlushWaits
  <2> QED
    BY <2>2 DEF Busy
<1> QED
  BY <1>1, ServedHolds, PTL

-----------------------------------------------------------------------------
(* Who waits for a task of the chain. *)

Awaits(a) == \E i \in DOMAIN chain : chain[i].awaiter = a

\* The one that enqueued a task is still at the await of it.
Awaited(a) ==
    \/ a \in Closers /\ closer[a] \in {"flushing", "compacting"}
    \/ a = "activate" /\ maintain = "activating"
    \/ a = "deactivate" /\ maintain = "deactivating"

\* Each waits for at most one task, settled or still in the chain.
OneEach ==
    \A i, j \in DOMAIN chain :
        chain[i].awaiter = chain[j].awaiter /\ chain[i].awaiter # "none" => i = j

Owed ==
    /\ \A a \in Awaiters \ {"none"} : settled = a \/ Awaits(a) => Awaited(a)
    /\ \A a \in Awaiters \ {"none"} : Awaits(a) => settled # a
    /\ OneEach

LEMMA EnqueueOwes ==
    ASSUME Types, Owed, NEW tasks \in Seq(Task), Enqueued(tasks), NEW a \in Awaiters,
           \A i \in DOMAIN tasks : tasks[i].awaiter \in {a, "none"},
           \A i, j \in DOMAIN tasks : tasks[i].awaiter = a /\ tasks[j].awaiter = a => i = j,
           a # "none" => ~Awaits(a)
    PROVE  /\ \A b \in Awaiters \ {"none"} : Awaits(b)' => Awaits(b) \/ b = a
           /\ OneEach'
<1>1. chain \in Seq(Task) /\ chain' = chain \o tasks
  BY DEF Types, PersistenceTypes, TaskTypes, Enqueued
<1>2. /\ DOMAIN chain = 1..Len(chain) /\ Len(chain) \in Nat
      /\ \A i \in DOMAIN chain : i \in DOMAIN chain' /\ chain'[i] = chain[i]
      /\ \A i \in DOMAIN chain' \ DOMAIN chain : i - Len(chain) \in DOMAIN tasks /\ chain'[i] = tasks[i - Len(chain)]
      /\ DOMAIN chain' = 1..(Len(chain) + Len(tasks))
  BY <1>1, JoinedBy
<1>3. \A b \in Awaiters \ {"none"} : Awaits(b)' => Awaits(b) \/ b = a
  BY <1>2 DEF Awaits
<1>4. OneEach'
  <2> SUFFICES ASSUME NEW i \in DOMAIN chain', NEW j \in DOMAIN chain',
                      chain'[i].awaiter = chain'[j].awaiter, chain'[i].awaiter # "none"
               PROVE  i = j
    BY DEF OneEach
  <2>1. CASE i \in DOMAIN chain /\ j \in DOMAIN chain
    BY <1>2, <2>1 DEF Owed, OneEach
  <2>2. CASE i \notin DOMAIN chain /\ j \notin DOMAIN chain
    <3>1. i - Len(chain) = j - Len(chain)
      BY <1>2, <2>2
    <3> QED
      BY <1>2, <3>1
  <2>3. ASSUME NEW k \in DOMAIN chain, NEW m \in DOMAIN chain' \ DOMAIN chain
        PROVE  chain'[k].awaiter # chain'[m].awaiter \/ chain'[m].awaiter = "none"
    BY <1>2, <2>3 DEF Awaits
  <2> QED
    BY <2>1, <2>2, <2>3
<1> QED
  BY <1>3, <1>4

LEMMA SettleOwes ==
    ASSUME Types, Owed, chain # <<>>, Settle
    PROVE  /\ \A b \in Awaiters \ {"none"} : Awaits(b)' => Awaits(b) /\ settled' # b
           /\ settled' # "none" => settled' \in Awaiters /\ Awaits(settled')
           /\ OneEach'
<1>1. chain \in Seq(Task) /\ chain' = Tail(chain) /\ settled' = Head(chain).awaiter
  BY DEF Types, PersistenceTypes, TaskTypes, Settle
<1>2. /\ 1 \in DOMAIN chain /\ chain[1] = Head(chain) /\ Head(chain) \in Task
      /\ \A i \in DOMAIN chain' : i \in Nat \ {0} /\ i + 1 \in DOMAIN chain /\ chain'[i] = chain[i + 1]
  BY <1>1, TailOf
<1>3. \A i \in DOMAIN chain' : i + 1 # 1
  BY <1>2
<1>4. \A b \in Awaiters \ {"none"} : Awaits(b)' => Awaits(b) /\ settled' # b
  BY <1>1, <1>2, <1>3 DEF Awaits, Owed, OneEach
<1>5. settled' # "none" => settled' \in Awaiters /\ Awaits(settled')
  BY <1>1, <1>2 DEF Awaits, Task
<1>6. OneEach'
  <2> SUFFICES ASSUME NEW i \in DOMAIN chain', NEW j \in DOMAIN chain',
                      chain'[i].awaiter = chain'[j].awaiter, chain'[i].awaiter # "none"
               PROVE  i = j
    BY DEF OneEach
  <2>1. i + 1 = j + 1
    BY <1>2 DEF Owed, OneEach
  <2> QED
    BY <1>2, <2>1
<1> QED
  BY <1>4, <1>5, <1>6

\* One awaiter enqueues its task and awaits it.
LEMMA NewTaskOwes ==
    ASSUME Types, Owed, NEW a \in Awaiters \ {"none"},
           NEW tasks \in {Flush(a), Compact(a), CatchUp(a), CaughtUpFlush(a)}, Enqueued(tasks),
           ~Awaits(a), settled' # a, Awaited(a)',
           \A b \in Awaiters \ {a} : Awaited(b) => Awaited(b)'
    PROVE  Owed'
<1>1. /\ tasks \in Seq(Task) /\ \A i \in DOMAIN tasks : tasks[i].awaiter \in {a, "none"}
      /\ \A i, j \in DOMAIN tasks : tasks[i].awaiter = a /\ tasks[j].awaiter = a => i = j
  BY OneTask, CatchUpThenFlush
<1>2. /\ \A b \in Awaiters \ {"none"} : Awaits(b)' => Awaits(b) \/ b = a
      /\ OneEach'
  BY <1>1, EnqueueOwes
<1>3. settled' \in {settled, "none"}
  BY DEF Enqueued
<1> QED
  BY <1>2, <1>3 DEF Owed

\* The chain stays, or nobody awaits what is added to it.
LEMMA NothingNewOwes ==
    ASSUME Types, Owed, UNCHANGED chain \/ Enqueued(Flush("none")), settled' \in {settled, "none"},
           \A b \in Awaiters : Awaited(b) /\ (Awaits(b) \/ settled' = b) => Awaited(b)'
    PROVE  Owed'
<1>1. OneEach' /\ \A b \in Awaiters \ {"none"} : Awaits(b)' => Awaits(b)
  <2>1. CASE UNCHANGED chain
    BY <2>1 DEF Owed, OneEach, Awaits
  <2>2. CASE Enqueued(Flush("none"))
    <3>1. /\ Flush("none") \in Seq(Task) /\ "none" \in Awaiters /\ DOMAIN Flush("none") = {1}
          /\ \A i \in DOMAIN Flush("none") : Flush("none")[i].awaiter = "none"
      BY OneTask, AwaitersAssumption
    <3> QED
      BY <2>2, <3>1, EnqueueOwes
  <2> QED
    BY <2>1, <2>2
<1> QED
  BY <1>1 DEF Owed

LEMMA OwedStep ==
    ASSUME Types, ChainShape, RoomShape, Owed, [Next]_vars
    PROVE  Owed'
<1> USE DEF databaseVars, queueVars, taskVars, persistenceVars, Types, ManagerTypes
<1>1. ASSUME UNCHANGED <<chain, closer, maintain>>, settled' \in {settled, "none"} PROVE Owed'
  BY <1>1, NothingNewOwes DEF Awaited
<1>2. ASSUME NEW c \in Closers PROVE c \in Awaiters \ {"none"} /\ c \notin {"activate", "deactivate"}
  BY ClosersAssumption
<1>3. {"activate", "deactivate"} \subseteq Awaiters \ {"none"}
  BY AwaitersAssumption
<1>4. ASSUME NEW c \in Closers, closer[c] \notin {"flushing", "compacting"}
      PROVE  ~Awaits(c) /\ settled # c
  BY <1>2, <1>4 DEF Owed, Awaited
<1>5. ASSUME NEW c \in Closers, NEW stage, closer' = [closer EXCEPT ![c] = stage], maintain' = maintain
      PROVE  /\ \A b \in Awaiters \ {c} : Awaited(b) => Awaited(b)'
             /\ stage \in {"flushing", "compacting"} => Awaited(c)'
  BY <1>2, <1>5 DEF Awaited
<1>6. ASSUME NEW c \in Closers, closer[c] \in {"idle", "waiting"}, StartClose(c), maintain' = maintain
      PROVE  Owed'
  <2>1. Enqueued(Flush(c)) \/ Enqueued(CaughtUpFlush(c))
    BY <1>6 DEF StartClose, BeginClose, EnqueueTasks, Enqueued, CaughtUpFlush
  <2>2. ~Awaits(c) /\ settled' # c
    BY <1>4, <1>6 DEF StartClose, BeginClose
  <2>3. Awaited(c)' /\ \A b \in Awaiters \ {c} : Awaited(b) => Awaited(b)'
    BY <1>5, <1>6 DEF StartClose
  <2> QED
    BY <1>2, <2>1, <2>2, <2>3, NewTaskOwes
<1>7. ASSUME NEW c \in Closers, NEW stage, closer' = [closer EXCEPT ![c] = stage], UNCHANGED <<chain, maintain>>,
             settled' \in {settled, "none"}, ~Awaits(c), settled' # c
      PROVE  Owed'
  BY <1>5, <1>7, NothingNewOwes
<1>8. ASSUME NEW m \in Members, Join(m) \/ Leave(m) PROVE Owed'
  BY <1>1, <1>8 DEF Join, Leave
<1>9. ASSUME NEW e \in Edits, ClientEdit(e) \/ RemoteEdit(e) \/ PeerCommit(e) PROVE Owed'
  BY <1>1, <1>9 DEF ClientEdit, RemoteEdit, PeerCommit, Receive, managerVars
<1>10. CASE PeerPersisted \/ Purge \/ LoadBoard \/ Leased \/ Drain \/ UNCHANGED vars
  BY <1>1, <1>10 DEF PeerPersisted, Purge, LoadBoard, Leased, Drain, Receive, managerVars, vars
<1>11. CASE ForgetRoom
  <2>1. DOMAIN chain' = {} /\ settled' = "none"
    BY <1>11 DEF ForgetRoom
  <2> QED
    BY <2>1 DEF Owed, OneEach, Awaits
<1>12. CASE LoadFails \/ ShutdownEnds \/ Crash \/ \E c \in Evictions : EvictDrops(c)
  BY <1>11, <1>12 DEF LoadFails, ShutdownEnds, Crash, EvictDrops
<1>13. ASSUME UNCHANGED <<chain, closer>>, settled' \in {settled, "none"},
              \A a \in {"activate", "deactivate"} : ~Awaits(a) /\ settled' # a
       PROVE  Owed'
  BY <1>13, NothingNewOwes DEF Awaited
<1>14. ASSUME NEW a \in {"activate", "deactivate"}, maintain \notin {"activating", "deactivating"}
       PROVE  ~Awaits(a) /\ settled # a
  BY <1>2, <1>3, <1>14 DEF Owed, Awaited
<1>15. CASE MaintainLease
  BY <1>13, <1>14, <1>15 DEF MaintainLease
<1>16. ASSUME NEW a \in {"activate", "deactivate"}, maintain \notin {"activating", "deactivating"},
              Enqueued(CatchUp(a)) \/ Enqueued(Flush(a)), Awaited(a)', closer' = closer, settled' = settled
       PROVE  Owed'
  <2>1. ~Awaits(a) /\ settled' # a
    BY <1>14, <1>16
  <2>2. \A b \in Awaiters \ {a} : Awaited(b) => Awaited(b)'
    BY <1>16 DEF Awaited
  <2> QED
    BY <1>3, <1>16, <2>1, <2>2, NewTaskOwes
<1>17. ASSUME NEW answer \in BOOLEAN, LeaseRenewed(answer) \/ LeaseAcquired(answer) PROVE Owed'
  <2>1. CASE UNCHANGED persistenceVars
    BY <1>13, <1>14, <1>17, <2>1 DEF LeaseRenewed, LeaseAcquired
  <2>2. CASE BeginDeactivate /\ LeaseRenewed(answer) /\ maintain' = "deactivating"
    <3>1. Enqueued(Flush("deactivate")) /\ closer' = closer /\ settled' = settled /\ maintain = "renewing"
      BY <2>2 DEF LeaseRenewed, BeginDeactivate, EnqueueTasks, Enqueued
    <3> QED
      BY <1>16, <2>2, <3>1 DEF Awaited
  <2>3. CASE Activate /\ LeaseAcquired(answer) /\ maintain' = "activating"
    <3>1. Enqueued(CatchUp("activate")) /\ closer' = closer /\ settled' = settled /\ maintain = "acquiring"
      BY <2>3 DEF LeaseAcquired, Activate, EnqueueTasks, Enqueued
    <3> QED
      BY <1>16, <2>3, <3>1 DEF Awaited
  <2> QED
    BY <1>17, <2>1, <2>2, <2>3 DEF LeaseRenewed, LeaseAcquired
<1>18. CASE Deactivated \/ Activated
  <2>1. PICK a \in {"activate", "deactivate"} : settled = a
    BY <1>18 DEF Deactivated, EndDeactivate, Activated
  <2>2. \A b \in {"activate", "deactivate"} : ~Awaits(b)
    BY <1>2, <1>3, <2>1 DEF Owed, Awaited
  <2> QED
    BY <1>13, <1>18, <2>2 DEF Deactivated, EndDeactivate, Activated
<1>19. ASSUME NEW c \in Evictions, Evict(c) PROVE Owed'
  <2>1. c \in Closers /\ closer[c] = "idle" /\ maintain' = maintain
    BY <1>19 DEF Closers, Evict
  <2>2. CASE room = "open"
    BY <1>6, <1>19, <2>1, <2>2 DEF Evict
  <2>3. CASE room # "open"
    <3>1. UNCHANGED <<chain, settled>> /\ closer' = [closer EXCEPT ![c] = "waiting"]
      BY <1>19, <2>3 DEF Evict
    <3> QED
      BY <1>4, <1>7, <2>1, <3>1
  <2> QED
    BY <2>2, <2>3
<1>20. CASE BeginShutdown
  <2>1. Shutdown \in Closers /\ closer[Shutdown] = "idle" /\ maintain' = maintain
    BY <1>20 DEF Closers, BeginShutdown, RoomShape
  <2>2. CASE room = "open"
    BY <1>6, <1>20, <2>1, <2>2 DEF BeginShutdown
  <2>3. CASE room # "open"
    <3> DEFINE stage == IF room = "none" THEN "done" ELSE "waiting"
    <3>1. UNCHANGED <<chain, settled>> /\ closer' = [closer EXCEPT ![Shutdown] = stage]
      BY <1>20, <2>3 DEF BeginShutdown
    <3> HIDE DEF stage
    <3> QED
      BY <1>4, <1>7, <2>1, <3>1
  <2> QED
    BY <2>2, <2>3
<1>21. ASSUME NEW c \in Closers, LoadedForClose(c) PROVE Owed'
  BY <1>6, <1>21 DEF LoadedForClose
<1>22. ASSUME NEW c \in Closers, CloseFlushed(c) \/ CloseCompacted(c) PROVE Owed'
  <2>1. ~Awaits(c) /\ settled' # c /\ settled' = "none" /\ maintain' = maintain
    BY <1>2, <1>22 DEF CloseFlushed, CloseCompacted, Owed
  <2>2. CASE UNCHANGED chain
    <3>1. \E stage : closer' = [closer EXCEPT ![c] = stage]
      BY <1>22 DEF CloseFlushed, CloseCompacted
    <3> QED
      BY <1>7, <2>1, <2>2, <3>1
  <2>3. CASE Enqueued(Compact(c)) /\ closer' = [closer EXCEPT ![c] = "compacting"]
    BY <1>2, <1>5, <2>1, <2>3, NewTaskOwes
  <2> QED
    BY <1>22, <2>1, <2>2, <2>3 DEF CloseFlushed, CloseCompacted, EnqueueTasks, Enqueued
<1>23. ASSUME NEW c \in Closers, CloseRetries(c) PROVE Owed'
  <2>1. Enqueued(Flush(c)) /\ closer' = [closer EXCEPT ![c] = "flushing"] /\ maintain' = maintain /\ settled' = settled
    BY <1>23 DEF CloseRetries, EnqueueTasks, Enqueued
  <2>2. ~Awaits(c) /\ settled # c
    BY <1>4, <1>23 DEF CloseRetries
  <2> QED
    BY <1>2, <1>5, <2>1, <2>2, NewTaskOwes
<1>24. ASSUME NEW c \in Evictions, EvictKeeps(c) PROVE Owed'
  <2>1. c \in Closers /\ ~Awaits(c) /\ settled # c
    BY <1>4, <1>24 DEF Closers, EvictKeeps, CloseDone
  <2>2. UNCHANGED <<chain, settled, maintain>> /\ closer' = [closer EXCEPT ![c] = "idle"]
    BY <1>24 DEF EvictKeeps, Reopen
  <2> QED
    BY <1>7, <2>1, <2>2
<1>25. ASSUME TaskStep, UNCHANGED managerVars PROVE Owed'
  <2>1. UNCHANGED <<closer, maintain>>
    BY <1>25 DEF managerVars
  <2>2. UNCHANGED <<chain, settled>> \/ (Settle /\ chain # <<>>)
    BY <1>25 DEF TaskStep, StartTask, StartEmptyFlush, StartFlush, StartCatchUp, StartCompact, Due,
                 AppendCommits, Reply, AppendReturns, AppendFails, AppendFindsNoBoard, CatchUpReads,
                 CatchUpReturns, CatchUpFails, CompactReturns, ChainShape
  <2>3. CASE Settle /\ chain # <<>>
    <3>1. \A b \in Awaiters \ {"none"} : Awaited(b) => Awaited(b)'
      BY <2>1 DEF Awaited
    <3> QED
      BY <2>3, <3>1, SettleOwes DEF Owed
  <2> QED
    BY <1>1, <2>1, <2>2, <2>3
<1>26. CASE TaskStarts \/ Postgres \/ TaskReply
  BY <1>25, <1>26 DEF TaskStarts, Postgres, TaskReply, TaskStep
<1>27. CASE TimerFires
  <2>1. Enqueued(Flush("none")) /\ UNCHANGED <<closer, maintain>>
    BY <1>27 DEF TimerFires, FlushTimer, EnqueueTasks, Enqueued, managerVars
  <2> QED
    BY <2>1, NothingNewOwes DEF Awaited, Enqueued
<1> QED
  BY <1>8, <1>9, <1>10, <1>12, <1>15, <1>17, <1>18, <1>19, <1>20, <1>21, <1>22, <1>23, <1>24, <1>26, <1>27 DEF Next

-----------------------------------------------------------------------------
(* The order of the chain while nothing cuts into a close. *)

OnlyClosers == \A i \in DOMAIN chain : chain[i].awaiter \in Closers
OnlyFlushes == \A i \in DOMAIN chain : chain[i].task = "flush" /\ chain[i].awaiter = "none"

\* A catch-up is only ever the head; behind a close's task there are only closes' tasks.
ChainOrder ==
    /\ \A i \in DOMAIN chain : i > 1 => chain[i].task # "catchUp"
    /\ \A i \in DOMAIN chain :
         /\ chain[i].task = "catchUp" => chain[i].awaiter \in {"none", "activate"}
         /\ chain[i].task = "compact" => chain[i].awaiter \in Closers
         /\ chain[i].awaiter = "activate" => chain[i].task = "catchUp"
    /\ \A i, j \in DOMAIN chain :
         i < j /\ chain[i].awaiter \in Closers => chain[j].awaiter \in Closers

\* An instance that does not write has nothing to write; one that closes the room writes
\* it, and no flush but the close's is on the way once the close has got its first answer.
Orderly ==
    /\ ChainOrder
    /\ ~active => pending = <<>> /\ step = "ready" /\ settled = "none" /\ OnlyFlushes
    /\ closing => active /\ closed /\ ~timer
    /\ \A c \in Closers : Busy(c) => closing \/ room = "none"
    /\ settled \in Closers => OnlyClosers
    /\ \A c \in Closers : closer[c] \in {"backoff", "compacting", "done"} => OnlyClosers
    /\ settled # "none" => ~CatchingUp

LEMMA EnqueueOrders ==
    ASSUME Types, ChainOrder, NEW a \in Awaiters, NEW tasks \in {Flush(a), Compact(a)}, Enqueued(tasks),
           tasks = Flush(a) \/ a \in Closers, a # "activate",
           a \in Closers \/ \A c \in Closers : ~Awaits(c)
    PROVE  /\ ChainOrder'
           /\ a \in Closers /\ OnlyClosers => OnlyClosers'
           /\ a = "none" /\ OnlyFlushes /\ tasks = Flush(a) => OnlyFlushes'
           /\ ~CatchingUp => ~CatchingUp'
<1>1. chain \in Seq(Task) /\ chain' = chain \o tasks /\ tasks \in Seq(Task)
  BY OneTask DEF Types, PersistenceTypes, TaskTypes, Enqueued
<1>2. /\ Len(tasks) = 1 /\ DOMAIN tasks = {1} /\ tasks[1].awaiter = a
      /\ tasks[1].task \in {"flush", "compact"} /\ (tasks = Flush(a) => tasks[1].task = "flush")
      /\ (tasks[1].task = "compact" => a \in Closers)
  BY OneTask
<1>3. /\ DOMAIN chain = 1..Len(chain) /\ Len(chain) \in Nat /\ DOMAIN chain' = 1..(Len(chain) + 1)
      /\ \A i \in DOMAIN chain : chain'[i] = chain[i]
      /\ \A i \in DOMAIN chain' \ DOMAIN chain : chain'[i] = tasks[i - Len(chain)]
  <2>1. /\ DOMAIN chain = 1..Len(chain) /\ Len(chain) \in Nat
        /\ DOMAIN chain' = 1..(Len(chain) + Len(tasks))
        /\ \A i \in DOMAIN chain : chain'[i] = chain[i]
        /\ \A i \in DOMAIN chain' \ DOMAIN chain : chain'[i] = tasks[i - Len(chain)]
    BY <1>1, JoinedBy
  <2> QED
    BY <1>2, <2>1
<1>4. \A i \in DOMAIN chain' : \/ i \in DOMAIN chain /\ chain'[i] = chain[i]
                               \/ i = Len(chain) + 1 /\ chain'[i] = tasks[1]
  BY <1>3
<1>5. ChainOrder'
  <2>1. \A i \in DOMAIN chain' : i > 1 => chain'[i].task # "catchUp"
    BY <1>2, <1>4 DEF ChainOrder
  <2>2. \A i \in DOMAIN chain' :
          /\ chain'[i].task = "catchUp" => chain'[i].awaiter \in {"none", "activate"}
          /\ chain'[i].task = "compact" => chain'[i].awaiter \in Closers
          /\ chain'[i].awaiter = "activate" => chain'[i].task = "catchUp"
    BY <1>2, <1>4 DEF ChainOrder
  <2>3. ASSUME NEW i \in DOMAIN chain', NEW j \in DOMAIN chain', i < j, chain'[i].awaiter \in Closers
        PROVE  chain'[j].awaiter \in Closers
    <3>1. i \in DOMAIN chain
      BY <1>3, <2>3
    <3>2. CASE j \in DOMAIN chain
      BY <1>3, <2>3, <3>1, <3>2 DEF ChainOrder
    <3>3. CASE j \notin DOMAIN chain
      BY <1>2, <1>3, <1>4, <2>3, <3>1, <3>3 DEF Awaits
    <3> QED
      BY <3>2, <3>3
  <2> QED
    BY <2>1, <2>2, <2>3 DEF ChainOrder
<1>6. a \in Closers /\ OnlyClosers => OnlyClosers'
  BY <1>2, <1>4 DEF OnlyClosers
<1>7. a = "none" /\ OnlyFlushes /\ tasks = Flush(a) => OnlyFlushes'
  BY <1>2, <1>4 DEF OnlyFlushes
<1>8. ~CatchingUp => ~CatchingUp'
  BY <1>2, <1>4 DEF CatchingUp
<1> QED
  BY <1>5, <1>6, <1>7, <1>8

LEMMA FirstTaskOrders ==
    ASSUME Types, chain = <<>>
    PROVE  /\ Enqueued(CatchUp("activate")) => ChainOrder'
           /\ \A c \in Closers : Enqueued(CaughtUpFlush(c)) => ChainOrder'
<1>1. ASSUME NEW tasks \in Seq(Task), Enqueued(tasks) PROVE chain' = tasks
  BY <1>1, ConcatEmptySeq DEF Enqueued
<1>2. ASSUME Enqueued(CatchUp("activate")) PROVE ChainOrder'
  <2>1. /\ CatchUp("activate") \in Seq(Task) /\ DOMAIN CatchUp("activate") = {1}
        /\ CatchUp("activate")[1].task = "catchUp" /\ CatchUp("activate")[1].awaiter = "activate"
    BY OneTask, AwaitersAssumption
  <2>2. chain' = CatchUp("activate")
    BY <1>1, <1>2, <2>1
  <2> QED
    BY <2>1, <2>2 DEF ChainOrder
<1>3. ASSUME NEW c \in Closers, Enqueued(CaughtUpFlush(c)) PROVE ChainOrder'
  <2>1. c \in Awaiters /\ c # "activate" /\ "none" \notin Closers
    BY ClosersAssumption
  <2>2. PICK tasks : tasks = CaughtUpFlush(c)
    OBVIOUS
  <2>3. /\ tasks \in Seq(Task) /\ DOMAIN tasks = {1, 2}
        /\ tasks[1].task = "catchUp" /\ tasks[1].awaiter = "none"
        /\ tasks[2].task = "flush" /\ tasks[2].awaiter = c
    BY <2>1, <2>2, CatchUpThenFlush
  <2>4. chain' = tasks
    BY <1>1, <1>3, <2>2, <2>3
  <2> QED
    BY <2>1, <2>3, <2>4 DEF ChainOrder
<1> QED
  BY <1>2, <1>3

LEMMA SettleOrders ==
    ASSUME Types, ChainOrder, chain # <<>>, Settle
    PROVE  /\ ChainOrder' /\ ~CatchingUp'
           /\ settled' \in Closers => OnlyClosers'
           /\ OnlyClosers => OnlyClosers'
           /\ OnlyFlushes => OnlyFlushes' /\ settled' = "none"
<1>1. chain \in Seq(Task) /\ chain' = Tail(chain) /\ settled' = Head(chain).awaiter
  BY DEF Types, PersistenceTypes, TaskTypes, Settle
<1>2. /\ 1 \in DOMAIN chain /\ chain[1] = Head(chain)
      /\ \A i \in DOMAIN chain' : i \in Nat \ {0} /\ i + 1 \in DOMAIN chain /\ chain'[i] = chain[i + 1]
  BY <1>1, TailOf
<1>3. \A i \in DOMAIN chain' : i + 1 > 1
  BY <1>2
<1>4. ChainOrder'
  <2>1. ASSUME NEW i \in DOMAIN chain', NEW j \in DOMAIN chain', i < j, chain'[i].awaiter \in Closers
        PROVE  chain'[j].awaiter \in Closers
    <3>1. i + 1 < j + 1 /\ i + 1 \in DOMAIN chain /\ j + 1 \in DOMAIN chain
      BY <1>2, <2>1
    <3> QED
      BY <1>2, <2>1, <3>1 DEF ChainOrder
  <2>2. \A i \in DOMAIN chain' :
          /\ chain'[i].task # "catchUp"
          /\ chain'[i].task = "compact" => chain'[i].awaiter \in Closers
          /\ chain'[i].awaiter = "activate" => chain'[i].task = "catchUp"
    BY <1>2, <1>3 DEF ChainOrder
  <2> QED
    BY <2>1, <2>2 DEF ChainOrder
<1>5. ~CatchingUp'
  BY <1>2, <1>3 DEF ChainOrder, CatchingUp
<1>6. settled' \in Closers => OnlyClosers'
  BY <1>1, <1>2, <1>3 DEF ChainOrder, OnlyClosers
<1>7. (OnlyClosers => OnlyClosers') /\ (OnlyFlushes => OnlyFlushes' /\ settled' = "none")
  BY <1>1, <1>2 DEF OnlyClosers, OnlyFlushes
<1> QED
  BY <1>4, <1>5, <1>6, <1>7

LEMMA OrderlyStep ==
    ASSUME Types, ChainShape, RoomShape, Owed, Orderly, [Next]_vars, ~raced', ChainShape', RoomShape'
    PROVE  Orderly'
<1> USE DEF databaseVars, queueVars, taskVars, persistenceVars, Types, ManagerTypes
<1>1. ASSUME chain' = <<>>, settled' = "none", ~closing', ~active' => pending' = <<>>,
             \A c \in Closers : Busy(c)' => room' = "none"
      PROVE  Orderly'
  <2>1. DOMAIN chain' = {} /\ step' = "ready"
    BY <1>1 DEF ChainShape
  <2>2. ChainOrder' /\ OnlyFlushes' /\ OnlyClosers'
    BY <2>1 DEF ChainOrder, OnlyFlushes, OnlyClosers
  <2> QED
    BY <1>1, <2>1, <2>2 DEF Orderly, CatchingUp
<1>2. ASSUME room' # "open", ~active' => pending' = <<>> PROVE Orderly'
  BY <1>1, <1>2 DEF RoomShape
<1>3. ASSUME UNCHANGED <<chain, step, settled, active, closing, closed, closer, room, pending, timer>>
      PROVE  Orderly'
  BY <1>3 DEF Orderly, ChainOrder, OnlyFlushes, OnlyClosers, CatchingUp, Busy
<1>4. ~active /\ ChainQuiet => chain = <<>>
  BY DEF Orderly, ChainQuiet
<1>5. \A c \in Closers : c \in Awaiters \ {"none", "activate", "deactivate"}
  BY ClosersAssumption
<1>6. ASSUME ~closing, room # "none" PROVE \A c \in Closers : ~Busy(c) /\ ~Awaits(c) /\ settled # c
  BY <1>5, <1>6 DEF Orderly, Owed, Awaited, Busy
<1>7. ASSUME NEW e \in Edits, Receive(e), UNCHANGED <<closing, closer, room>> PROVE Orderly'
  <2>1. UNCHANGED <<chain, step, settled, active, closed>> /\ (closed /\ ~timer => ~timer')
        /\ (~active => pending' = pending)
    BY <1>7 DEF Receive, ScheduleFlush
  <2> QED
    BY <1>7, <2>1 DEF Orderly, ChainOrder, OnlyFlushes, OnlyClosers, CatchingUp, Busy
<1>8. ASSUME NEW m \in Members, Join(m) \/ Leave(m) PROVE Orderly'
  <2>1. UNCHANGED persistenceVars /\ UNCHANGED <<closing, closer>>
    BY <1>8 DEF Join, Leave
  <2>2. CASE room' = room
    BY <1>3, <2>1, <2>2
  <2>3. CASE room' # room
    <3>1. room = "none" /\ room' = "loading"
      BY <1>8, <2>3 DEF Join, Leave
    <3> QED
      BY <1>2, <2>1, <3>1 DEF RoomShape
  <2> QED
    BY <2>2, <2>3
<1>9. ASSUME NEW e \in Edits, ClientEdit(e) \/ RemoteEdit(e) \/ PeerCommit(e) PROVE Orderly'
  BY <1>3, <1>7, <1>9 DEF ClientEdit, RemoteEdit, PeerCommit, managerVars
<1>10. CASE PeerPersisted \/ Purge \/ MaintainLease \/ UNCHANGED vars
  BY <1>3, <1>10 DEF PeerPersisted, Purge, MaintainLease, managerVars, vars
<1>11. CASE LoadBoard \/ Leased
  BY <1>2, <1>11 DEF LoadBoard, Leased, RoomShape
<1>12. CASE Drain
  <2>1. room = "draining" /\ UNCHANGED <<chain, settled, closing, closer>>
    BY <1>12 DEF Drain, Receive
  <2>2. ~active => pending' = pending /\ active' = active
    BY <1>12 DEF Drain, Receive
  <2>3. active' => active
    BY <1>12 DEF Drain, Receive
  <2>4. ~active' => pending' = <<>>
    BY <1>12, <2>2 DEF Orderly, Drain, Receive
  <2>5. \A c \in Closers : ~Busy(c)'
    BY <2>1 DEF RoomShape, Busy
  <2> QED
    BY <1>1, <2>1, <2>4, <2>5 DEF RoomShape
<1>13. ASSUME NEW answer \in BOOLEAN, LeaseRenewed(answer) \/ LeaseAcquired(answer) PROVE Orderly'
  <2>1. CASE UNCHANGED persistenceVars
    BY <1>3, <1>13, <2>1 DEF LeaseRenewed, LeaseAcquired
  <2>2. room = "open" /\ settled = "none" /\ ChainQuiet /\ UNCHANGED <<room, closing, closer>>
    BY <1>13 DEF LeaseRenewed, LeaseAcquired, RoomShape, Quiet, ChainQuiet
  <2>3. ASSUME ~closing, ChainOrder', active', settled' = "none" PROVE Orderly'
    BY <1>6, <2>2, <2>3, <1>5 DEF Orderly, Busy
  <2>4. CASE BeginDeactivate /\ LeaseRenewed(answer) /\ ~closing /\ active
    <3>1. Enqueued(Flush("deactivate")) /\ active' /\ settled' = "none"
      BY <2>2, <2>4 DEF BeginDeactivate, EnqueueTasks, Enqueued
    <3>2. ChainOrder'
      BY <1>6, <2>2, <2>4, <3>1, EnqueueOrders, AwaitersAssumption DEF Orderly
    <3> QED
      BY <2>3, <2>4, <3>1, <3>2
  <2>5. CASE Activate /\ LeaseAcquired(answer) /\ ~closing /\ ~active
    <3>1. Enqueued(CatchUp("activate")) /\ active' /\ settled' = "none"
      BY <2>2, <2>5 DEF Activate, EnqueueTasks, Enqueued
    <3>2. ChainOrder'
      BY <1>4, <2>2, <2>5, <3>1, FirstTaskOrders
    <3> QED
      BY <2>3, <2>5, <3>1, <3>2
  <2> QED
    BY <1>13, <2>1, <2>4, <2>5 DEF LeaseRenewed, LeaseAcquired
<1>14. CASE Deactivated
  <2>1. settled = "deactivate" /\ ~closing /\ ~closing' /\ settled' = "none" /\ pending' = <<>>
        /\ UNCHANGED <<chain, step, closer, room>> /\ ~CatchingUp
    BY <1>14, AwaitersAssumption DEF Deactivated, EndDeactivate, Orderly
  <2>2. step = "ready" /\ room = "open"
    BY <2>1 DEF ChainShape, RoomShape
  <2>3. \A c \in Closers : ~Busy(c) /\ ~Awaits(c)
    BY <1>6, <2>1, <2>2
  <2>4. OnlyFlushes
    <3> SUFFICES ASSUME NEW i \in DOMAIN chain
                 PROVE  chain[i].task = "flush" /\ chain[i].awaiter = "none"
      BY DEF OnlyFlushes
    <3>1. chain[i] \in Task
      BY ElementOfSeq, LenProperties DEF PersistenceTypes, TaskTypes
    <3>2. chain[i].task # "catchUp" /\ chain[i].awaiter # "activate" /\ chain[i].awaiter \notin Closers
      BY <2>1, <2>3 DEF CatchingUp, Orderly, ChainOrder, Awaits
    <3>3. chain[i].task = "flush"
      BY <3>1, <3>2 DEF Orderly, ChainOrder, Task
    <3>4. chain[i].awaiter \in Awaiters /\ chain[i].awaiter # "deactivate"
      BY <2>1, <3>1, AwaitersAssumption DEF Owed, Awaits, Task
    <3>5. chain[i].awaiter # "none" => FALSE
      <4> DEFINE a == chain[i].awaiter
      <4>1. SUFFICES ASSUME a # "none" PROVE FALSE
        OBVIOUS
      <4>2. Awaits(a) /\ a \in Awaiters \ {"none"}
        BY <3>4, <4>1 DEF Awaits
      <4>3. \A b \in Awaiters \ {"none"} : Awaits(b) => b \in Closers \/ b \in {"activate", "deactivate"}
        BY DEF Owed, Awaited
      <4> QED
        BY <3>2, <3>4, <4>2, <4>3
    <3> QED
      BY <3>3, <3>5
  <2> QED
    BY <2>1, <2>2, <2>3, <2>4, <1>5 DEF Orderly, ChainOrder, OnlyFlushes, Busy, CatchingUp
<1>15. CASE Activated
  <2>1. settled # "none" /\ settled' = "none"
        /\ UNCHANGED <<chain, step, active, closing, closed, closer, room, pending, timer>>
    BY <1>15 DEF Activated
  <2> QED
    BY <1>5, <2>1 DEF Orderly, ChainOrder, OnlyFlushes, OnlyClosers, CatchingUp, Busy
<1>16. ASSUME NEW c \in Closers, StartClose(c), ChainQuiet, room = "open", room' = room PROVE Orderly'
  <2>1. settled' = "none" /\ active' /\ closed' /\ ~timer' /\ closing'
    BY <1>16 DEF StartClose, BeginClose, ChainQuiet
  <2>2. closer' = [closer EXCEPT ![c] = "flushing"]
    BY <1>16 DEF StartClose
  <2>3. CASE active
    <3>1. Enqueued(Flush(c))
      BY <1>16, <2>3 DEF StartClose, BeginClose, EnqueueTasks, Enqueued
    <3>2. ChainOrder' /\ (OnlyClosers => OnlyClosers')
      BY <1>5, <3>1, EnqueueOrders DEF Orderly
    <3> QED
      BY <1>5, <2>1, <2>2, <3>2 DEF Orderly
  <2>4. CASE ~active
    <3>1. Enqueued(CaughtUpFlush(c)) /\ chain = <<>>
      BY <1>4, <1>16, <2>4 DEF StartClose, BeginClose, EnqueueTasks, Enqueued, CaughtUpFlush
    <3>2. ChainOrder'
      BY <3>1, FirstTaskOrders
    <3>3. \A d \in Closers : ~Busy(d)
      BY <1>6, <1>16, <2>4 DEF Orderly
    <3>4. \A d \in Closers : closer'[d] \notin {"backoff", "compacting", "done"}
      BY <2>2, <3>3 DEF Busy
    <3> QED
      BY <1>5, <2>1, <3>2, <3>4 DEF Orderly
  <2> QED
    BY <2>3, <2>4
<1>17. ASSUME NEW c \in Evictions, Evict(c) PROVE Orderly'
  <2>1. CASE room = "open"
    BY <1>16, <1>17, <2>1 DEF Evict, Quiet, Closers
  <2>2. CASE room # "open"
    BY <1>2, <1>17, <2>2 DEF Evict, Orderly
  <2> QED
    BY <2>1, <2>2
<1>18. CASE BeginShutdown
  <2>1. CASE room = "open"
    BY <1>16, <1>18, <2>1 DEF BeginShutdown, Quiet, Closers
  <2>2. CASE room # "open"
    BY <1>2, <1>18, <2>2 DEF BeginShutdown, Orderly
  <2> QED
    BY <2>1, <2>2
<1>19. ASSUME NEW c \in Closers, LoadedForClose(c) PROVE Orderly'
  BY <1>16, <1>19 DEF LoadedForClose
<1>20. ASSUME NEW c \in Closers, NEW stage \in {"flushing", "backoff", "compacting", "done"},
              closer' = [closer EXCEPT ![c] = stage], Busy(c), room = "open", OnlyClosers,
              \/ UNCHANGED chain
              \/ Enqueued(Flush(c))
              \/ Enqueued(Compact(c)),
              UNCHANGED <<step, closing, active, closed, timer, room, pending>>, settled' = "none"
       PROVE  Orderly'
  <2>1. ChainOrder' /\ OnlyClosers'
    <3>1. CASE UNCHANGED chain
      BY <1>20, <3>1 DEF Orderly, ChainOrder, OnlyClosers
    <3>2. CASE Enqueued(Flush(c)) \/ Enqueued(Compact(c))
      BY <1>5, <1>20, <3>2, EnqueueOrders DEF Orderly
    <3> QED
      BY <1>20, <3>1, <3>2
  <2>2. closing /\ active
    BY <1>20 DEF Orderly
  <2> QED
    BY <1>5, <1>20, <2>1, <2>2 DEF Orderly
<1>21. ASSUME NEW c \in Closers, CloseFlushed(c) \/ CloseRetries(c) \/ CloseCompacted(c) PROVE Orderly'
  <2>1. Busy(c) /\ OnlyClosers
    BY <1>21 DEF CloseFlushed, CloseRetries, CloseCompacted, Busy, Orderly
  <2>2. room = "open"
    BY <1>21 DEF CloseFlushed, CloseRetries, CloseCompacted, RoomShape, Busy
  <2>3. UNCHANGED <<step, closing, active, closed, timer, room, pending>> /\ settled' = "none"
    BY <1>21 DEF CloseFlushed, CloseRetries, CloseCompacted, Quiet, ChainQuiet
  <2>4. UNCHANGED chain \/ Enqueued(Flush(c)) \/ Enqueued(Compact(c))
    BY <1>21 DEF CloseFlushed, CloseRetries, CloseCompacted, EnqueueTasks, Enqueued
  <2>5. \E stage \in {"flushing", "backoff", "compacting", "done"} : closer' = [closer EXCEPT ![c] = stage]
    BY <1>21 DEF CloseFlushed, CloseRetries, CloseCompacted
  <2> QED
    BY <1>20, <2>1, <2>2, <2>3, <2>4, <2>5
<1>22. ASSUME NEW c \in Evictions, EvictKeeps(c) PROVE Orderly'
  <2>1. c \in Closers /\ closer[c] = "done" /\ settled = "none" /\ \A d \in Closers \ {c} : closer[d] = "idle"
    BY <1>22 DEF EvictKeeps, CloseDone, OthersClose, Closers
  <2>2. OnlyClosers /\ \A d \in Closers : ~Awaits(d)
    BY <1>5, <2>1 DEF Orderly, Owed, Awaited
  <2>3. DOMAIN chain = {}
    BY <2>2 DEF OnlyClosers, Awaits
  <2>4. chain = <<>>
    BY <2>3, TailOf DEF PersistenceTypes, TaskTypes
  <2>5. \A d \in Closers : ~Busy(d)'
    BY <1>22, <2>1 DEF EvictKeeps, Busy
  <2>6. chain' = chain /\ settled' = settled /\ ~closing' /\ (~active' => pending' = <<>>)
    BY <1>22 DEF EvictKeeps, Reopen
  <2> QED
    BY <1>1, <2>1, <2>4, <2>5, <2>6
<1>23. CASE LoadFails \/ ShutdownEnds \/ Crash \/ \E c \in Evictions : EvictDrops(c)
  <2>1. ForgetRoom
    BY <1>23 DEF LoadFails, ShutdownEnds, Crash, EvictDrops
  <2> QED
    BY <1>2, <2>1 DEF ForgetRoom
<1>24. ASSUME TaskStep, UNCHANGED managerVars PROVE Orderly'
  <2>1. UNCHANGED <<closing, closer, room>>
    BY <1>24 DEF managerVars
  <2>2. ASSUME Settle, chain # <<>>, UNCHANGED <<active, closed>>, closing => ~timer',
               active \/ (pending' = pending /\ step = "ready")
        PROVE  Orderly'
    <3>1. /\ ChainOrder' /\ ~CatchingUp' /\ (settled' \in Closers => OnlyClosers')
          /\ (OnlyClosers => OnlyClosers') /\ (OnlyFlushes => OnlyFlushes' /\ settled' = "none")
      BY <2>2, SettleOrders DEF Orderly
    <3>2. step' = "ready"
      BY <2>2 DEF Settle
    <3> QED
      BY <2>1, <2>2, <3>1, <3>2 DEF Orderly, Busy
  <2>3. ASSUME active, UNCHANGED <<chain, settled, active, closed>>, closing => ~timer' PROVE Orderly'
    BY <2>1, <2>3 DEF Orderly, ChainOrder, OnlyFlushes, OnlyClosers, CatchingUp, Busy
  <2>4. step # "ready" => active /\ chain # <<>>
    BY DEF Orderly, ChainShape
  <2>5. CASE StartEmptyFlush
    BY <2>2, <2>5 DEF StartEmptyFlush, Due, Orderly
  <2>6. CASE StartFlush
    BY <2>3, <2>6 DEF StartFlush, Orderly
  <2>7. CASE StartCatchUp \/ StartCompact
    <3>1. chain # <<>> /\ Head(chain).task # "flush" /\ UNCHANGED <<chain, settled, active, closed, timer>>
      BY <2>7 DEF StartCatchUp, StartCompact, Due
    <3>2. 1 \in DOMAIN chain /\ chain[1].task # "flush"
      BY <3>1, TailOf DEF PersistenceTypes, TaskTypes
    <3> QED
      BY <2>3, <3>1, <3>2 DEF Orderly, OnlyFlushes
  <2>8. CASE AppendCommits \/ CatchUpReads
    BY <2>3, <2>4, <2>8 DEF AppendCommits, CatchUpReads, Orderly
  <2>9. CASE AppendReturns
    <3>1. active /\ chain # <<>> /\ UNCHANGED <<active, closed>> /\ (closing => ~timer')
      BY <2>4, <2>9 DEF AppendReturns, ScheduleFlush, Orderly
    <3>2. Settle \/ UNCHANGED <<chain, settled>>
      BY <2>9 DEF AppendReturns
    <3> QED
      BY <2>2, <2>3, <3>1, <3>2
  <2>10. CASE AppendFails \/ AppendFindsNoBoard
    BY <2>2, <2>4, <2>10 DEF AppendFails, AppendFindsNoBoard, Retry, ScheduleFlush, Orderly
  <2>11. CASE CatchUpReturns \/ CatchUpFails \/ CompactReturns
    BY <2>2, <2>4, <2>11 DEF CatchUpReturns, CatchUpFails, CompactReturns, Orderly
  <2> QED
    BY <1>24, <2>5, <2>6, <2>7, <2>8, <2>9, <2>10, <2>11 DEF TaskStep, StartTask, Reply
<1>25. CASE TaskStarts \/ Postgres \/ TaskReply
  BY <1>24, <1>25 DEF TaskStarts, Postgres, TaskReply, TaskStep
<1>26. CASE TimerFires
  <2>1. Enqueued(Flush("none")) /\ timer /\ ~timer' /\ settled' = "none" /\ ~closing
        /\ UNCHANGED <<step, active, closed, closer, closing, room, pending>>
    BY <1>26 DEF TimerFires, FlushTimer, EnqueueTasks, Enqueued, managerVars, Quiet, ChainQuiet, Orderly
  <2>2. \A c \in Closers : ~Awaits(c) /\ ~Busy(c)
    BY <1>6, <2>1 DEF RoomShape
  <2>3. ChainOrder' /\ (OnlyFlushes => OnlyFlushes')
    BY <2>1, <2>2, EnqueueOrders, AwaitersAssumption DEF Orderly
  <2> QED
    BY <1>5, <2>1, <2>2, <2>3 DEF Orderly, Busy
<1> QED
  BY <1>8, <1>9, <1>10, <1>11, <1>12, <1>13, <1>14, <1>15, <1>17, <1>18, <1>19, <1>21, <1>22, <1>23,
     <1>25, <1>26 DEF Next

-----------------------------------------------------------------------------
(* Catch-ups in the chain. *)

LEMMA CatchUpsOfChain ==
    ASSUME Types
    PROVE  /\ \A a \in Awaiters : Enqueued(Flush(a)) \/ Enqueued(Compact(a)) => CatchingUp' = CatchingUp
           /\ \A a \in Awaiters : Enqueued(CatchUp(a)) => CatchingUp'
           /\ \A c \in Closers : Enqueued(CaughtUpFlush(c)) => CatchingUp'
           /\ Settle /\ chain # <<>> => /\ CatchingUp' => CatchingUp
                                        /\ CatchingUp /\ Head(chain).task # "catchUp" => CatchingUp'
<1>1. chain \in Seq(Task)
  BY DEF Types, PersistenceTypes, TaskTypes
<1>2. ASSUME NEW tasks \in Seq(Task), Enqueued(tasks)
      PROVE  CatchingUp' <=> CatchingUp \/ \E i \in DOMAIN tasks : tasks[i].task = "catchUp"
  <2>1. chain' = chain \o tasks
    BY <1>2 DEF Enqueued
  <2>2. /\ \A i \in DOMAIN chain : i \in DOMAIN chain' /\ chain'[i] = chain[i]
        /\ \A i \in DOMAIN tasks : Len(chain) + i \in DOMAIN chain' /\ chain'[Len(chain) + i] = tasks[i]
        /\ \A i \in DOMAIN chain' \ DOMAIN chain : i - Len(chain) \in DOMAIN tasks /\ chain'[i] = tasks[i - Len(chain)]
    BY <1>1, <1>2, <2>1, JoinedBy
  <2> QED
    BY <2>2 DEF CatchingUp
<1>3. ASSUME NEW a \in Awaiters, Enqueued(Flush(a)) \/ Enqueued(Compact(a)) PROVE CatchingUp' = CatchingUp
  BY <1>2, <1>3, OneTask DEF CatchingUp
<1>4. ASSUME NEW a \in Awaiters, Enqueued(CatchUp(a)) PROVE CatchingUp'
  BY <1>2, <1>4, OneTask
<1>5. ASSUME NEW c \in Closers, Enqueued(CaughtUpFlush(c)) PROVE CatchingUp'
  <2>1. PICK tasks : tasks = CaughtUpFlush(c)
    OBVIOUS
  <2>2. tasks \in Seq(Task) /\ 1 \in DOMAIN tasks /\ tasks[1].task = "catchUp"
    BY <2>1, CatchUpThenFlush, ClosersAssumption
  <2> QED
    BY <1>2, <1>5, <2>1, <2>2
<1>6. ASSUME Settle, chain # <<>>
      PROVE  /\ CatchingUp' => CatchingUp
             /\ CatchingUp /\ Head(chain).task # "catchUp" => CatchingUp'
  <2>1. /\ chain' = Tail(chain) /\ chain[1] = Head(chain)
        /\ \A i \in DOMAIN chain' : i + 1 \in DOMAIN chain /\ chain'[i] = chain[i + 1]
        /\ DOMAIN chain = 1..Len(chain) /\ Len(chain) \in Nat /\ DOMAIN chain' = 1..(Len(chain) - 1)
    BY <1>1, <1>6, TailOf DEF Settle
  <2>2. \A i \in DOMAIN chain : i # 1 => i - 1 \in DOMAIN chain' /\ chain'[i - 1] = chain[i]
    BY <2>1
  <2>3. CatchingUp' => CatchingUp
    BY <2>1 DEF CatchingUp
  <2>4. CatchingUp /\ Head(chain).task # "catchUp" => CatchingUp'
    <3> SUFFICES ASSUME Head(chain).task # "catchUp", NEW i \in DOMAIN chain, chain[i].task = "catchUp"
                 PROVE  CatchingUp'
      BY DEF CatchingUp
    <3>1. i # 1
      BY <2>1
    <3>2. i - 1 \in DOMAIN chain' /\ chain'[i - 1].task = "catchUp"
      BY <2>2, <3>1
    <3> QED
      BY <3>2 DEF CatchingUp
  <2> QED
    BY <2>3, <2>4
<1> QED
  BY <1>3, <1>4, <1>5, <1>6

-----------------------------------------------------------------------------
(* An instance that is alone. *)

\* It writes the room for as long as it is there, and never has to catch up.
Alone ==
    /\ room \in {"draining", "open"} => active
    /\ maintain = "idle" /\ ~CatchingUp
    /\ \A c \in Evictions : Busy(c) => wasWriter[c]

LEMMA AloneStep ==
    ASSUME ~Clustered, Types, ChainShape, RoomShape, Owed, Alone, [Next]_vars
    PROVE  Alone'
<1> USE DEF databaseVars, queueVars, taskVars, persistenceVars, Types, ManagerTypes
<1>1. ASSUME UNCHANGED <<chain, maintain, closer, wasWriter, room, active>> PROVE Alone'
  BY <1>1 DEF Alone, CatchingUp, Busy
<1>2. CASE ForgetRoom /\ \A c \in Closers : closer'[c] = "idle" \/ c = Shutdown
  <2>1. DOMAIN chain' = {} /\ room' = "none" /\ maintain' = "idle"
    BY <1>2 DEF ForgetRoom
  <2>2. \A c \in Evictions : closer'[c] = "idle"
    BY <1>2, ClosersAssumption DEF Closers
  <2> QED
    BY <2>1, <2>2 DEF Alone, CatchingUp, Busy
<1>3. ASSUME NEW m \in Members, Join(m) \/ Leave(m) PROVE Alone'
  <2>1. /\ UNCHANGED <<chain, maintain, closer, wasWriter, active>>
        /\ (room' = room \/ room' = "loading")
    BY <1>3 DEF Join, Leave
  <2> QED
    BY <2>1 DEF Alone, CatchingUp, Busy
<1>4. ASSUME NEW e \in Edits, ClientEdit(e) \/ RemoteEdit(e) \/ PeerCommit(e) PROVE Alone'
  BY <1>1, <1>4 DEF ClientEdit, RemoteEdit, PeerCommit, Receive, managerVars
<1>5. CASE PeerPersisted \/ Purge \/ UNCHANGED vars
  BY <1>1, <1>5 DEF PeerPersisted, Purge, managerVars, vars
<1>6. CASE LoadBoard \/ Leased \/ Drain
  <2>1. UNCHANGED <<chain, maintain, closer, wasWriter>>
    BY <1>6 DEF LoadBoard, Leased, Drain, Receive
  <2>2. room' \in {"draining", "open"} => active'
    BY <1>6 DEF LoadBoard, Leased, Drain, Receive, Alone
  <2> QED
    BY <2>1, <2>2 DEF Alone, CatchingUp, Busy
<1>7. ~MaintainLease
  BY DEF MaintainLease
<1>8. \A answer : ~LeaseRenewed(answer) /\ ~LeaseAcquired(answer)
  BY DEF LeaseRenewed, LeaseAcquired, Alone
<1>9. ~Deactivated
  <2>1. settled # "deactivate"
    BY AwaitersAssumption, ClosersAssumption DEF Owed, Awaited, Alone
  <2> QED
    BY <2>1 DEF Deactivated, EndDeactivate
<1>10. ~Activated
  <2>1. settled # "activate"
    BY AwaitersAssumption, ClosersAssumption DEF Owed, Awaited, Alone
  <2> QED
    BY <2>1 DEF Activated
<1>11. ASSUME NEW c \in Closers, StartClose(c), room = "open", room' = room, maintain' = maintain,
              \A d \in Evictions : (d # c => wasWriter'[d] = wasWriter[d]) /\ (d = c => wasWriter'[d] = active)
       PROVE  Alone'
  <2>1. active /\ active'
    BY <1>11 DEF Alone, StartClose, BeginClose
  <2>2. Enqueued(Flush(c)) /\ c \in Awaiters
    BY <1>11, <2>1, ClosersAssumption DEF StartClose, BeginClose, EnqueueTasks, Enqueued
  <2>3. ~CatchingUp'
    BY <2>2, CatchUpsOfChain DEF Alone
  <2>4. \A d \in Evictions : Busy(d)' => wasWriter'[d]
    BY <1>11, <2>1 DEF Alone, StartClose, Busy, Closers
  <2> QED
    BY <1>11, <2>1, <2>3, <2>4 DEF Alone
<1>12. ASSUME NEW c \in Evictions, Evict(c) PROVE Alone'
  <2>1. CASE room = "open"
    BY <1>11, <1>12, <2>1 DEF Evict, Closers
  <2>2. CASE room # "open"
    <3>1. UNCHANGED <<chain, maintain, wasWriter, room, active>> /\ \A d \in Evictions : Busy(d)' => Busy(d)
      BY <1>12, <2>2 DEF Evict, Busy, Closers
    <3> QED
      BY <3>1 DEF Alone, CatchingUp
  <2> QED
    BY <2>1, <2>2
<1>13. CASE BeginShutdown
  <2>1. CASE room = "open"
    BY <1>11, <1>13, <2>1, ClosersAssumption DEF BeginShutdown, Closers
  <2>2. CASE room # "open"
    <3>1. UNCHANGED <<chain, maintain, wasWriter, room, active>> /\ \A d \in Evictions : Busy(d)' => Busy(d)
      BY <1>13, <2>2, ClosersAssumption DEF BeginShutdown, Busy, Closers
    <3> QED
      BY <3>1 DEF Alone, CatchingUp
  <2> QED
    BY <2>1, <2>2
<1>14. ASSUME NEW c \in Closers, LoadedForClose(c) PROVE Alone'
  BY <1>11, <1>14 DEF LoadedForClose
<1>15. ASSUME NEW c \in Closers, CloseFlushed(c) \/ CloseRetries(c) \/ CloseCompacted(c) PROVE Alone'
  <2>1. UNCHANGED <<maintain, wasWriter, room, active>> /\ \A d \in Closers : Busy(d)' => Busy(d)
    BY <1>15 DEF CloseFlushed, CloseRetries, CloseCompacted, Busy
  <2>2. UNCHANGED chain \/ Enqueued(Flush(c)) \/ Enqueued(Compact(c))
    BY <1>15 DEF CloseFlushed, CloseRetries, CloseCompacted, EnqueueTasks, Enqueued
  <2>3. ~CatchingUp'
    BY <2>2, CatchUpsOfChain, ClosersAssumption DEF Alone, CatchingUp
  <2> QED
    BY <2>1, <2>3 DEF Alone, Closers
<1>16. ASSUME NEW c \in Evictions, EvictKeeps(c) PROVE Alone'
  <2>1. wasWriter[c]
    BY <1>16 DEF EvictKeeps, CloseDone, Alone, Busy
  <2>2. active' /\ UNCHANGED <<chain, maintain, room>>
    BY <1>16, <2>1 DEF EvictKeeps, Reopen
  <2>3. \A d \in Evictions : Busy(d)' => Busy(d) /\ wasWriter'[d] = wasWriter[d]
    BY <1>16 DEF EvictKeeps, Busy, Closers
  <2> QED
    BY <2>2, <2>3 DEF Alone, CatchingUp
<1>17. CASE LoadFails \/ ShutdownEnds \/ Crash
  BY <1>2, <1>17 DEF LoadFails, ShutdownEnds, Crash, NobodyCloses
<1>18. ASSUME NEW c \in Evictions, EvictDrops(c) PROVE Alone'
  BY <1>2, <1>18 DEF EvictDrops
<1>19. ASSUME TaskStep, UNCHANGED managerVars PROVE Alone'
  <2>1. UNCHANGED <<maintain, closer, wasWriter, room>>
    BY <1>19 DEF managerVars
  <2>2. UNCHANGED active /\ (UNCHANGED chain \/ (Settle /\ chain # <<>>))
    BY <1>19 DEF TaskStep, StartTask, StartEmptyFlush, StartFlush, StartCatchUp, StartCompact, Due,
                 AppendCommits, Reply, AppendReturns, AppendFails, AppendFindsNoBoard, CatchUpReads,
                 CatchUpReturns, CatchUpFails, CompactReturns, ChainShape
  <2>3. ~CatchingUp'
    BY <2>2, CatchUpsOfChain DEF Alone, CatchingUp
  <2> QED
    BY <2>1, <2>2, <2>3 DEF Alone, Busy
<1>20. CASE TaskStarts \/ Postgres \/ TaskReply
  BY <1>19, <1>20 DEF TaskStarts, Postgres, TaskReply, TaskStep
<1>21. CASE TimerFires
  <2>1. Enqueued(Flush("none")) /\ UNCHANGED <<maintain, closer, wasWriter, room, active>>
    BY <1>21 DEF TimerFires, FlushTimer, EnqueueTasks, Enqueued, managerVars
  <2>2. ~CatchingUp'
    BY <2>1, CatchUpsOfChain, AwaitersAssumption DEF Alone
  <2> QED
    BY <2>1, <2>2 DEF Alone, Busy
<1> QED
  BY <1>3, <1>4, <1>5, <1>6, <1>7, <1>8, <1>9, <1>10, <1>12, <1>13, <1>14, <1>15, <1>16, <1>17, <1>18,
     <1>20, <1>21 DEF Next

-----------------------------------------------------------------------------
(* Nothing is announced that is not stored, and nothing of a writer's is forgotten. *)

LEMMA CoverOfNone == Cover(<<>>) = {}
  BY DEF Cover

LEMMA CoverOfOne == ASSUME NEW s PROVE Cover(<<s>>) = s
<1>1. DOMAIN <<s>> = {1} /\ <<s>>[1] = s
  OBVIOUS
<1> QED
  BY <1>1 DEF Cover

LEMMA CoverOfJoined ==
    ASSUME NEW S, NEW q \in Seq(S), NEW r \in Seq(S)
    PROVE  Cover(q \o r) = Cover(q) \cup Cover(r)
<1>1. /\ \A i \in DOMAIN q : (q \o r)[i] = q[i] /\ i \in DOMAIN (q \o r)
      /\ \A i \in DOMAIN r : (q \o r)[Len(q) + i] = r[i] /\ Len(q) + i \in DOMAIN (q \o r)
      /\ \A i \in DOMAIN (q \o r) \ DOMAIN q : i - Len(q) \in DOMAIN r /\ (q \o r)[i] = r[i - Len(q)]
  BY JoinedBy
<1>2. ASSUME NEW x PROVE x \in Cover(q \o r) <=> \E i \in DOMAIN (q \o r) : x \in (q \o r)[i]
  BY DEF Cover
<1>3. ASSUME NEW x PROVE (x \in Cover(q) <=> \E i \in DOMAIN q : x \in q[i]) /\ (x \in Cover(r) <=> \E i \in DOMAIN r : x \in r[i])
  BY DEF Cover
<1> HIDE DEF Cover
<1>4. ASSUME NEW x PROVE x \in Cover(q \o r) <=> x \in Cover(q) \/ x \in Cover(r)
  <2>1. x \in Cover(q) \/ x \in Cover(r) => x \in Cover(q \o r)
    BY <1>1, <1>2, <1>3
  <2>2. x \in Cover(q \o r) => x \in Cover(q) \/ x \in Cover(r)
    BY <1>1, <1>2, <1>3
  <2> QED
    BY <2>1, <2>2
<1> QED
  BY <1>4

LEMMA CoverOfLonger ==
    ASSUME NEW S, NEW q \in Seq(S), NEW s \in S
    PROVE  Cover(Append(q, s)) = Cover(q) \cup s
<1>1. Append(q, s) = q \o <<s>> /\ <<s>> \in Seq(S)
  <2>1. Append(q, s) = q \o <<s>>
    BY AppendIsConcat, Zenon
  <2>2. <<s>> \in Seq(S)
    BY OneOf, Zenon
  <2> QED
    BY <2>1, <2>2
<1>2. Cover(q \o <<s>>) = Cover(q) \cup Cover(<<s>>)
  BY <1>1, CoverOfJoined
<1>3. Cover(<<s>>) = s
  BY CoverOfOne
<1> QED
  BY <1>1, <1>2, <1>3

\* Cutting a batch off the queue.
LEMMA CoverOfCut ==
    ASSUME NEW S, NEW q \in Seq(S), NEW cut \in 0..Len(q)
    PROVE  /\ Cover(SubSeq(q, 1, cut)) \cup Cover(SubSeq(q, cut + 1, Len(q))) = Cover(q)
           /\ cut = Len(q) => SubSeq(q, 1, cut) = q
           /\ DOMAIN SubSeq(q, 1, cut) = 1..cut
           /\ DOMAIN SubSeq(q, cut + 1, Len(q)) = 1..(Len(q) - cut)
           /\ \A i \in 1..cut : SubSeq(q, 1, cut)[i] = q[i]
           /\ \A i \in 1..(Len(q) - cut) : SubSeq(q, cut + 1, Len(q))[i] = q[cut + i]
<1> DEFINE b == SubSeq(q, 1, cut)
           r == SubSeq(q, cut + 1, Len(q))
<1>1. Len(q) \in Nat /\ DOMAIN q = 1..Len(q) /\ cut \in Nat /\ cut <= Len(q)
  BY LenProperties
<1>2. Len(b) = cut /\ b \in Seq(S) /\ \A i \in 1..cut : b[i] = q[i]
  <2>1. /\ b \in Seq(S)
        /\ Len(b) = IF 1 <= cut THEN cut - 1 + 1 ELSE 0
        /\ \A i \in 1..(cut - 1 + 1) : b[i] = q[1 + i - 1]
    BY <1>1, SubSeqProperties
  <2>2. cut - 1 + 1 = cut /\ \A i \in 1..cut : 1 + i - 1 = i
    BY <1>1
  <2> QED
    BY <1>1, <2>1, <2>2
<1>3. Len(r) = Len(q) - cut /\ r \in Seq(S) /\ \A i \in 1..(Len(q) - cut) : r[i] = q[cut + i]
  <2>1. /\ r \in Seq(S)
        /\ Len(r) = IF cut + 1 <= Len(q) THEN Len(q) - (cut + 1) + 1 ELSE 0
        /\ \A i \in 1..(Len(q) - (cut + 1) + 1) : r[i] = q[(cut + 1) + i - 1]
    BY <1>1, SubSeqProperties
  <2> HIDE DEF r
  <2>2. Len(q) - (cut + 1) + 1 = Len(q) - cut /\ (~(cut + 1 <= Len(q)) => Len(q) - cut = 0)
    <3>1. \A n, m \in Nat : m <= n => n - (m + 1) + 1 = n - m /\ (~(m + 1 <= n) => n - m = 0)
      OBVIOUS
    <3> QED
      BY <1>1, <3>1
  <2>3. Len(r) = Len(q) - cut
    BY <1>1, <2>1, <2>2
  <2>4. ASSUME NEW i \in 1..(Len(q) - cut) PROVE r[i] = q[cut + i]
    <3>1. (cut + 1) + i - 1 = cut + i
      BY <1>1
    <3> QED
      BY <2>1, <2>2, <3>1
  <2> QED
    BY <2>1, <2>3, <2>4
<1>4. DOMAIN b = 1..cut /\ DOMAIN r = 1..(Len(q) - cut)
  BY <1>2, <1>3, LenProperties
<1> HIDE DEF b, r
<1>5. cut = Len(q) => b = q
  BY <1>1, <1>2, <1>4, SeqEqual
<1>6. Cover(b) \cup Cover(r) = Cover(q)
  <2>1. Cover(b) \subseteq Cover(q) /\ Cover(r) \subseteq Cover(q)
    <3>1. ASSUME NEW i \in DOMAIN b PROVE i \in DOMAIN q /\ b[i] = q[i]
      BY <1>1, <1>2, <1>4
    <3>2. ASSUME NEW i \in DOMAIN r PROVE cut + i \in DOMAIN q /\ r[i] = q[cut + i]
      BY <1>1, <1>3, <1>4
    <3>3. Cover(b) \subseteq Cover(q)
      BY <3>1 DEF Cover
    <3>4. Cover(r) \subseteq Cover(q)
      BY <3>2 DEF Cover
    <3> QED
      BY <3>3, <3>4
  <2>2. ASSUME NEW i \in DOMAIN q PROVE q[i] \subseteq Cover(b) \cup Cover(r)
    <3>1. CASE i <= cut
      BY <1>1, <1>2, <1>4, <3>1 DEF Cover
    <3>2. CASE ~(i <= cut)
      <4>1. i - cut \in DOMAIN r /\ r[i - cut] = q[i]
        BY <1>1, <1>3, <1>4, <3>2
      <4> QED
        BY <4>1 DEF Cover
    <3> QED
      BY <3>1, <3>2
  <2>3. Cover(q) \subseteq Cover(b) \cup Cover(r)
    BY <2>2 DEF Cover
  <2> QED
    BY <2>1, <2>3
<1> QED
  BY <1>2, <1>3, <1>4, <1>5, <1>6 DEF b, r

\* What an acknowledgement may not run ahead of.
WriterDocCovered ==
    active /\ ~CatchingUp /\ ~purged => doc \subseteq stored \cup Cover(batch) \cup Cover(pending)
Truthful ==
    /\ persisted \subseteq stored
    /\ step = "committed" => Cover(batch) \subseteq stored /\ UNION marker \subseteq stored
    /\ step = "appending" /\ ~purged => UNION marker \subseteq stored \cup Cover(batch)
    /\ step = "read" => seen \subseteq stored
    /\ WriterDocCovered

\* Only a writer writes, and a flush runs before or after a catch-up, never ahead of one.
Disciplined ==
    /\ pending # <<>> => active
    /\ chain # <<>> /\ Head(chain).task # "catchUp" => ~CatchingUp
    /\ \A c \in Closers : Busy(c) => active \/ room = "none"

LEMMA DisciplineHolds ==
    ASSUME Types, RoomShape, Orderly \/ Alone
    PROVE  Disciplined
<1> USE DEF Types, ManagerTypes
<1>1. CASE Orderly
  <2>1. ASSUME chain # <<>>, Head(chain).task # "catchUp" PROVE ~CatchingUp
    <3>1. chain[1] = Head(chain) /\ DOMAIN chain = 1..Len(chain) /\ Len(chain) \in Nat
      BY <2>1, TailOf DEF PersistenceTypes, TaskTypes
    <3> QED
      BY <1>1, <2>1, <3>1 DEF Orderly, ChainOrder, CatchingUp
  <2> QED
    BY <1>1, <2>1 DEF Disciplined, Orderly
<1>2. CASE Alone
  BY <1>2 DEF Disciplined, Alone, RoomShape
<1> QED
  BY <1>1, <1>2

LEMMA TruthfulStep ==
    ASSUME Types, ChainShape, RoomShape, Disciplined, Truthful, [Next]_vars
    PROVE  Truthful'
<1> USE DEF databaseVars, queueVars, taskVars, persistenceVars, Types, ManagerTypes
<1>1. pending \in Seq(SUBSET Edits) /\ batch \in Seq(SUBSET Edits)
  BY DEF PersistenceTypes, QueueTypes, TaskTypes
\* The tasks and what they carry stay; the writer's part is settled by each action.
<1>2. ASSUME UNCHANGED <<step, batch, marker, seen, purged, persisted>>, stored \subseteq stored', WriterDocCovered'
      PROVE  Truthful'
  BY <1>2 DEF Truthful
<1>3. ASSUME UNCHANGED <<active, chain, purged, doc, batch, pending>>, stored \subseteq stored'
      PROVE  WriterDocCovered'
  BY <1>3 DEF Truthful, WriterDocCovered, CatchingUp
<1>4. ASSUME NEW e \in Edits, Receive(e) PROVE Truthful'
  <2>1. active => Cover(pending') = Cover(pending) \cup {e}
    <3>1. PICK one : one = {e}
      OBVIOUS
    <3>2. one \in SUBSET Edits
      BY <3>1
    <3>3. Cover(Append(pending, one)) = Cover(pending) \cup one
      BY <1>1, <3>2, CoverOfLonger
    <3>4. active => pending' = Append(pending, one)
      BY <1>4, <3>1 DEF Receive
    <3> QED
      BY <3>1, <3>3, <3>4
  <2>2. UNCHANGED <<step, batch, marker, seen, purged, persisted, active, chain, stored>> /\ doc' = doc \cup {e}
    BY <1>4 DEF Receive
  <2>3. WriterDocCovered'
    BY <2>1, <2>2 DEF Truthful, WriterDocCovered, CatchingUp
  <2> QED
    BY <1>2, <2>2, <2>3
<1>5. CASE UNCHANGED persistenceVars
  BY <1>2, <1>3, <1>5
<1>6. ASSUME NEW m \in Members, Join(m) \/ Leave(m) PROVE Truthful'
  BY <1>5, <1>6 DEF Join, Leave
<1>7. ASSUME NEW e \in Edits, ClientEdit(e) \/ RemoteEdit(e) PROVE Truthful'
  BY <1>4, <1>5, <1>7 DEF ClientEdit, RemoteEdit
<1>8. ASSUME NEW e \in Edits, PeerCommit(e) PROVE Truthful'
  BY <1>2, <1>3, <1>8 DEF PeerCommit
<1>9. CASE PeerPersisted
  <2>1. UNCHANGED <<step, batch, marker, seen, purged, stored>> /\ WriterDocCovered'
    BY <1>3, <1>9 DEF PeerPersisted
  <2>2. persisted' \subseteq stored'
    BY <1>9 DEF PeerPersisted, Truthful
  <2> QED
    BY <2>1, <2>2 DEF Truthful
<1>10. CASE Purge
  BY <1>10 DEF Purge, Truthful, WriterDocCovered
<1>11. CASE LoadBoard
  <2>1. doc' \subseteq stored
    BY <1>11 DEF LoadBoard, LoadResults
  <2>2. ~active /\ UNCHANGED <<stored, purged, active, step, batch, marker, seen>> /\ persisted' \subseteq doc'
    BY <1>11 DEF LoadBoard, RoomShape
  <2> QED
    BY <2>1, <2>2 DEF Truthful, WriterDocCovered
<1>12. CASE ForgetRoom /\ stored \subseteq stored'
  BY <1>12 DEF ForgetRoom, Truthful, WriterDocCovered
<1>13. CASE LoadFails
  BY <1>12, <1>13 DEF LoadFails
<1>14. CASE ShutdownEnds \/ Crash \/ \E c \in Evictions : EvictDrops(c)
  BY <1>12, <1>14, ForgottenTyped DEF ShutdownEnds, Crash, EvictDrops
<1>15. CASE Leased
  BY <1>2, <1>15 DEF Leased, RoomShape, WriterDocCovered
<1>16. CASE Drain
  <2>1. buffered # <<>> => Head(buffered) \in Edits
    BY HeadTailProperties
  <2> QED
    BY <1>4, <1>5, <1>16, <2>1 DEF Drain
<1>17. ASSUME NEW a \in Awaiters, Enqueued(Flush(a)) \/ Enqueued(Compact(a)),
              UNCHANGED <<stored, purged, persisted, doc, pending>>, active' = active
       PROVE  Truthful'
  <2>1. CatchingUp' = CatchingUp /\ UNCHANGED <<step, batch, marker, seen>>
    BY <1>17, CatchUpsOfChain DEF Enqueued
  <2> QED
    BY <1>2, <1>17, <2>1 DEF Truthful, WriterDocCovered
<1>18. ASSUME UNCHANGED <<step, batch, marker, seen, stored, purged, persisted>>, CatchingUp' PROVE Truthful'
  BY <1>2, <1>18 DEF WriterDocCovered
<1>19. ASSUME NEW answer \in BOOLEAN, LeaseRenewed(answer) \/ LeaseAcquired(answer) PROVE Truthful'
  <2>1. CASE BeginDeactivate
    BY <1>17, <2>1, AwaitersAssumption DEF BeginDeactivate, EnqueueTasks, Enqueued
  <2>2. CASE Activate
    <3>1. Enqueued(CatchUp("activate")) /\ UNCHANGED <<stored, purged, persisted>>
      BY <2>2 DEF Activate, EnqueueTasks, Enqueued
    <3> QED
      BY <1>18, <3>1, CatchUpsOfChain, AwaitersAssumption DEF Enqueued
  <2> QED
    BY <1>5, <1>19, <2>1, <2>2 DEF LeaseRenewed, LeaseAcquired
<1>20. CASE Deactivated
  BY <1>2, <1>20 DEF Deactivated, EndDeactivate, WriterDocCovered
<1>21. CASE MaintainLease \/ Activated
  BY <1>2, <1>3, <1>21 DEF MaintainLease, Activated
<1>22. ASSUME NEW c \in Closers, StartClose(c) PROVE Truthful'
  <2>1. BeginClose(c) /\ c \in Awaiters
    BY <1>22, ClosersAssumption DEF StartClose
  <2>2. UNCHANGED <<stored, purged, persisted, doc, pending, step, batch, marker, seen>> /\ active'
    BY <2>1 DEF BeginClose
  <2>3. CASE active
    <3>1. Enqueued(Flush(c)) /\ active' = active
      BY <2>1, <2>3 DEF PersistenceTypes, QueueTypes, BeginClose, EnqueueTasks, Enqueued
    <3> QED
      BY <1>17, <2>1, <2>2, <3>1
  <2>4. CASE ~active
    <3>1. Enqueued(CaughtUpFlush(c))
      BY <2>1, <2>4 DEF BeginClose, EnqueueTasks, Enqueued, CaughtUpFlush
    <3> QED
      BY <1>18, <2>2, <3>1, CatchUpsOfChain
  <2> QED
    BY <2>3, <2>4
<1>23. ASSUME NEW c \in Evictions, Evict(c) PROVE Truthful'
  BY <1>5, <1>22, <1>23 DEF Evict, Closers
<1>24. CASE BeginShutdown
  BY <1>5, <1>22, <1>24 DEF BeginShutdown, Closers
<1>25. ASSUME NEW c \in Closers, LoadedForClose(c) PROVE Truthful'
  BY <1>22, <1>25 DEF LoadedForClose
<1>26. ASSUME NEW c \in Closers, CloseFlushed(c) \/ CloseRetries(c) \/ CloseCompacted(c) PROVE Truthful'
  <2>1. UNCHANGED <<stored, purged, persisted, doc, pending, active, step, batch, marker, seen>>
    BY <1>26 DEF CloseFlushed, CloseRetries, CloseCompacted
  <2>2. UNCHANGED chain \/ Enqueued(Flush(c)) \/ Enqueued(Compact(c))
    BY <1>26 DEF CloseFlushed, CloseRetries, CloseCompacted, EnqueueTasks, Enqueued
  <2> QED
    BY <1>2, <1>3, <1>17, <2>1, <2>2, ClosersAssumption
<1>27. ASSUME NEW c \in Evictions, EvictKeeps(c) PROVE Truthful'
  <2>1. UNCHANGED <<stored, purged, persisted, doc, chain, step, batch, marker, seen>>
    BY <1>27 DEF EvictKeeps, Reopen
  <2>2. active' => pending' = pending
    BY <1>27 DEF EvictKeeps, Reopen
  <2>3. active \/ doc = {}
    BY <1>27 DEF EvictKeeps, CloseDone, Disciplined, Busy, RoomShape, Closers
  <2>4. WriterDocCovered'
    BY <2>1, <2>2, <2>3 DEF WriterDocCovered, Truthful, CatchingUp
  <2> QED
    BY <1>2, <2>1, <2>4
<1>28. CASE TimerFires
  BY <1>17, <1>28, AwaitersAssumption DEF TimerFires, FlushTimer, EnqueueTasks, Enqueued
\* A task that settles, with what it leaves queued.
<1>29. ASSUME Settle, chain # <<>>, UNCHANGED <<stored, purged, doc, active>>, persisted' \subseteq stored,
              active /\ ~purged /\ ~CatchingUp' => doc \subseteq stored \cup Cover(pending')
       PROVE  Truthful'
  <2>1. step' = "ready" /\ batch' = <<>>
    BY <1>29 DEF Settle
  <2> QED
    BY <1>29, <2>1 DEF Truthful, WriterDocCovered
<1>30. ASSUME Settle, chain # <<>>, Head(chain).task # "catchUp", ~CatchingUp', active, ~purged
       PROVE  doc \subseteq stored \cup Cover(batch) \cup Cover(pending)
  BY <1>30, CatchUpsOfChain DEF Truthful, WriterDocCovered
<1>31. CASE StartEmptyFlush \/ CompactReturns
  <2>1. Settle /\ chain # <<>> /\ Head(chain).task # "catchUp" /\ Cover(batch) = {}
        /\ UNCHANGED <<stored, purged, doc, active, pending, persisted>>
    BY <1>31, CoverOfNone DEF StartEmptyFlush, CompactReturns, Due, ChainShape
  <2> QED
    BY <1>29, <1>30, <2>1 DEF Truthful
<1>32. CASE StartFlush
  <2> DEFINE cut == IF Len(pending) <= MaxBatch THEN Len(pending) ELSE MaxBatch
  <2>1. cut \in 0..Len(pending)
    BY <1>1, LenProperties, LimitsAssumption
  <2>2. /\ batch' = SubSeq(pending, 1, cut) /\ pending' = SubSeq(pending, cut + 1, Len(pending))
        /\ marker' = Marker(cut) /\ step' = "appending"
        /\ UNCHANGED <<stored, purged, doc, active, chain, persisted>>
    BY <1>32 DEF StartFlush
  <2>3. Cover(batch) = {} /\ active /\ ~CatchingUp
    BY <1>32, CoverOfNone DEF StartFlush, Due, ChainShape, Disciplined
  <2> HIDE DEF cut
  <2>4. Cover(batch') \cup Cover(pending') = Cover(pending) /\ (cut = Len(pending) => Cover(batch') = Cover(pending))
    BY <1>1, <2>1, <2>2, CoverOfCut
  <2>5. UNION marker' \subseteq doc /\ (cut # Len(pending) => marker' = {})
    BY <2>2 DEF Marker, DurableMarker
  <2>6. ~purged => doc \subseteq stored \cup Cover(pending)
    BY <2>3 DEF Truthful, WriterDocCovered
  <2>7. ~purged => UNION marker' \subseteq stored \cup Cover(batch')
    BY <2>4, <2>5, <2>6
  <2>8. WriterDocCovered'
    BY <2>2, <2>4, <2>6 DEF WriterDocCovered
  <2> QED
    BY <2>2, <2>7, <2>8 DEF Truthful
<1>33. CASE StartCatchUp \/ StartCompact
  <2>1. UNCHANGED <<stored, purged, doc, active, chain, persisted, batch, pending>> /\ step' \in {"reading", "compacting"}
    BY <1>33 DEF StartCatchUp, StartCompact
  <2> QED
    BY <1>3, <2>1 DEF Truthful
<1>34. CASE AppendCommits
  BY <1>3, <1>34 DEF AppendCommits, Truthful
<1>35. CASE AppendReturns
  <2>1. /\ chain # <<>> /\ Head(chain).task # "catchUp" /\ persisted' \subseteq stored /\ Cover(batch) \subseteq stored
        /\ UNCHANGED <<stored, purged, doc, active, pending>>
    BY <1>35 DEF AppendReturns, ChainShape, Truthful
  <2>2. Settle => Truthful'
    BY <1>29, <1>30, <2>1
  <2>3. ASSUME step' = "compacting", batch' = <<>>, UNCHANGED chain PROVE Truthful'
    <3>1. WriterDocCovered'
      BY <2>1, <2>3 DEF WriterDocCovered, Truthful, CatchingUp
    <3> QED
      BY <2>1, <2>3, <3>1 DEF Truthful
  <2> QED
    BY <1>35, <2>2, <2>3 DEF AppendReturns
<1>36. CASE AppendFails
  <2>1. Cover(pending') = Cover(batch) \cup Cover(pending)
    BY <1>1, <1>36, CoverOfJoined DEF AppendFails, PutBack
  <2>2. Settle /\ chain # <<>> /\ Head(chain).task # "catchUp" /\ UNCHANGED <<stored, purged, doc, active, persisted>>
    BY <1>36 DEF AppendFails, ChainShape
  <2> QED
    BY <1>29, <1>30, <2>1, <2>2 DEF Truthful
<1>37. CASE AppendFindsNoBoard
  BY <1>29, <1>37 DEF AppendFindsNoBoard, ChainShape, Truthful
<1>38. CASE CatchUpReads
  <2>1. seen' \subseteq stored /\ step' = "read" /\ UNCHANGED <<stored, persisted>>
    BY <1>38 DEF CatchUpReads, LoadResults
  <2> QED
    BY <1>3, <1>38, <2>1 DEF CatchUpReads, Truthful
<1>39. ASSUME NEW missing \in SUBSET Edits PROVE Cover(CatchUpFirst(missing)) = missing \cup Cover(pending)
  <2>1. <<missing>> \in Seq(SUBSET Edits) /\ Cover(<<missing>>) = missing
    BY OneOf, CoverOfOne
  <2>2. PICK one : one = <<missing>>
    OBVIOUS
  <2>3. one \in Seq(SUBSET Edits) /\ Cover(one) = missing
    BY <2>1, <2>2
  <2>4. Cover(one \o pending) = Cover(one) \cup Cover(pending)
    BY <1>1, <2>3, CoverOfJoined
  <2>5. CatchUpFirst(missing) = one \o pending
    BY <2>2 DEF CatchUpFirst
  <2> QED
    BY <2>3, <2>4, <2>5
<1>40. CASE CatchUpReturns
  <2>1. seen \subseteq stored /\ Settle /\ chain # <<>> /\ UNCHANGED <<stored, purged, doc, active>>
    BY <1>40 DEF CatchUpReturns, ChainShape, Truthful
  <2>2. doc \subseteq stored \cup Missing /\ Missing \in SUBSET Edits
    BY <2>1 DEF Missing, PersistenceTypes, DatabaseTypes
  <2>3. doc \subseteq stored \cup Cover(pending')
    BY <1>39, <1>40, <2>2 DEF CatchUpReturns
  <2>4. persisted' \subseteq stored
    BY <1>40, <2>2 DEF CatchUpReturns, DurableMarker, Truthful
  <2> QED
    BY <1>29, <2>1, <2>3, <2>4
<1>41. CASE CatchUpFails
  <2>1. doc \subseteq Cover(pending')
    BY <1>39, <1>41 DEF CatchUpFails, PersistenceTypes, DatabaseTypes
  <2> QED
    BY <1>29, <1>41, <2>1 DEF CatchUpFails, ChainShape, Truthful
<1>42. CASE TaskStarts \/ Postgres \/ TaskReply
  BY <1>31, <1>32, <1>33, <1>34, <1>35, <1>36, <1>37, <1>38, <1>40, <1>41, <1>42
     DEF TaskStarts, Postgres, TaskReply, StartTask, Reply
<1>43. CASE UNCHANGED vars
  BY <1>5, <1>43 DEF vars
<1> QED
  BY <1>6, <1>7, <1>8, <1>9, <1>10, <1>11, <1>13, <1>14, <1>15, <1>16, <1>19, <1>20, <1>21, <1>23, <1>24,
     <1>25, <1>26, <1>27, <1>28, <1>42, <1>43 DEF Next

-----------------------------------------------------------------------------
(* Leaving a room for good. *)

LEMMA NothingLeftStep ==
    ASSUME Types, ChainShape, RoomShape, Owed, Orderly, Truthful, leftBehind = {}, [Next]_vars, ~raced'
    PROVE  leftBehind' = {}
<1> USE DEF Types, ManagerTypes
<1>1. ASSUME NEW c \in Closers, closer[c] = "done"
      PROVE  /\ ~CatchingUp
             /\ purged \/ doc \subseteq stored \cup Cover(batch) \cup Cover(pending)
             /\ (\A other \in Closers \ {c} : closer[other] = "idle") => batch = <<>>
  <2>1. OnlyClosers /\ (active \/ room = "none")
    BY <1>1 DEF Orderly, Busy
  <2>2. ~CatchingUp
    BY <2>1, ClosersAssumption DEF OnlyClosers, CatchingUp, Orderly, ChainOrder
  <2>3. purged \/ doc \subseteq stored \cup Cover(batch) \cup Cover(pending)
    BY <2>1, <2>2 DEF RoomShape, Truthful, WriterDocCovered
  <2>4. ASSUME \A other \in Closers \ {c} : closer[other] = "idle" PROVE batch = <<>>
    <3>1. \A d \in Closers : ~Awaited(d)
      BY <1>1, <2>4, ClosersAssumption DEF Awaited
    <3>2. \A d \in Closers : ~Awaits(d)
      BY <3>1, ClosersAssumption DEF Owed
    <3>3. DOMAIN chain = {}
      BY <2>1, <3>2 DEF OnlyClosers, Awaits
    <3>4. chain = <<>>
      BY <3>3, TailOf DEF PersistenceTypes, TaskTypes
    <3> QED
      BY <3>4 DEF ChainShape
  <2> QED
    BY <2>2, <2>3, <2>4
<1>2. ASSUME NEW c \in Evictions, EvictDrops(c) PROVE leftBehind' = {}
  <2>1. c \in Closers /\ closer[c] = "done" /\ pending = <<>> /\ stored \subseteq stored'
    BY <1>2, ForgottenTyped DEF EvictDrops, CloseDone, Unsaved, Closers
  <2>2. batch = <<>>
    BY <1>1, <1>2, <2>1 DEF EvictDrops, OthersClose
  <2>3. purged \/ doc \subseteq stored'
    BY <1>1, <2>1, <2>2, CoverOfNone
  <2> QED
    BY <1>2, <2>3 DEF EvictDrops
<1>3. CASE ShutdownEnds
  <2>1. closer[Shutdown] = "done" /\ stored \subseteq stored'
    BY <1>3, ForgottenTyped DEF ShutdownEnds, CloseDone
  <2>2. purged \/ pending # <<>> \/ batch # <<>> \/ doc \subseteq stored'
    BY <1>1, <2>1, CoverOfNone DEF Closers
  <2> QED
    BY <1>3, <2>2 DEF ShutdownEnds
<1>4. CASE UNCHANGED managerVars
  BY <1>4 DEF managerVars
<1>5. \A m \in Members : Join(m) \/ Leave(m) => UNCHANGED leftBehind
  BY DEF Join, Leave
<1>6. \A e \in Edits : ClientEdit(e) \/ RemoteEdit(e) \/ PeerCommit(e) => UNCHANGED leftBehind
  BY DEF ClientEdit, RemoteEdit, PeerCommit, managerVars
<1>7. PeerPersisted \/ Purge \/ LoadBoard \/ LoadFails \/ Leased \/ Drain \/ MaintainLease
      \/ Deactivated \/ Activated \/ BeginShutdown \/ Crash => UNCHANGED leftBehind
  BY DEF PeerPersisted, Purge, LoadBoard, LoadFails, Leased, Drain, MaintainLease, Deactivated, Activated,
         BeginShutdown, Crash, managerVars
<1>8. \A answer \in BOOLEAN : LeaseRenewed(answer) \/ LeaseAcquired(answer) => UNCHANGED leftBehind
  BY DEF LeaseRenewed, LeaseAcquired
<1>9. \A c \in Closers : LoadedForClose(c) \/ CloseFlushed(c) \/ CloseRetries(c) \/ CloseCompacted(c)
                         => UNCHANGED leftBehind
  BY DEF LoadedForClose, CloseFlushed, CloseRetries, CloseCompacted
<1>10. \A c \in Evictions : Evict(c) \/ EvictKeeps(c) => UNCHANGED leftBehind
  BY DEF Evict, EvictKeeps
<1>11. TaskStarts \/ Postgres \/ TaskReply \/ TimerFires \/ UNCHANGED vars => UNCHANGED leftBehind
  BY DEF TaskStarts, Postgres, TaskReply, TimerFires, managerVars, vars
<1> QED
  BY <1>2, <1>3, <1>5, <1>6, <1>7, <1>8, <1>9, <1>10, <1>11 DEF Next

LEMMA RacedStays ==
    ASSUME Types, [Next]_vars
    PROVE  raced => raced'
<1> USE DEF Types, ManagerTypes
<1>1. \A m \in Members : Join(m) \/ Leave(m) => UNCHANGED raced
  BY DEF Join, Leave
<1>2. \A e \in Edits : ClientEdit(e) \/ RemoteEdit(e) \/ PeerCommit(e) => UNCHANGED raced
  BY DEF ClientEdit, RemoteEdit, PeerCommit, managerVars
<1>3. PeerPersisted \/ Purge \/ LoadBoard \/ LoadFails \/ Leased \/ Drain \/ MaintainLease
      \/ Activated \/ BeginShutdown \/ Crash \/ ShutdownEnds => UNCHANGED raced
  BY DEF PeerPersisted, Purge, LoadBoard, LoadFails, Leased, Drain, MaintainLease, Activated,
         BeginShutdown, Crash, ShutdownEnds, managerVars
<1>4. \A answer \in BOOLEAN : LeaseRenewed(answer) \/ LeaseAcquired(answer) => UNCHANGED raced
  BY DEF LeaseRenewed, LeaseAcquired
<1>5. \A c \in Closers : LoadedForClose(c) \/ CloseFlushed(c) \/ CloseRetries(c) \/ CloseCompacted(c)
                         => UNCHANGED raced
  BY DEF LoadedForClose, CloseFlushed, CloseRetries, CloseCompacted
<1>6. Deactivated => (raced => raced')
  BY DEF Deactivated
<1>7. \A c \in Evictions : Evict(c) \/ EvictKeeps(c) \/ EvictDrops(c) => (raced => raced')
  BY DEF Evict, EvictKeeps, EvictDrops
<1>8. TaskStarts \/ Postgres \/ TaskReply \/ TimerFires \/ UNCHANGED vars => UNCHANGED raced
  BY DEF TaskStarts, Postgres, TaskReply, TimerFires, managerVars, vars
<1> QED
  BY <1>1, <1>2, <1>3, <1>4, <1>5, <1>6, <1>7, <1>8 DEF Next

LEMMA InitOrders == Init => Owed /\ Orderly /\ (~Clustered => Alone) /\ Truthful
<1> SUFFICES ASSUME Init PROVE Owed /\ Orderly /\ Alone /\ Truthful
  OBVIOUS
<1>1. DOMAIN chain = {} /\ chain = <<>> /\ settled = "none" /\ batch = <<>> /\ ~active /\ room = "none"
      /\ maintain = "idle" /\ pending = <<>> /\ step = "ready" /\ ~closing
  BY DEF Init
<1>2. \A c \in Closers : closer[c] = "idle"
  BY DEF Init, NobodyCloses
<1>3. Owed
  BY <1>1 DEF Owed, Awaits, OneEach
<1>4. Orderly
  BY <1>1, <1>2, ClosersAssumption DEF Orderly, ChainOrder, OnlyFlushes, OnlyClosers, CatchingUp, Busy
<1>5. Alone
  BY <1>1, <1>2 DEF Alone, CatchingUp, Busy, Closers
<1>6. Truthful
  BY <1>1 DEF Init, Truthful, WriterDocCovered
<1> QED
  BY <1>3, <1>4, <1>5, <1>6

-----------------------------------------------------------------------------
(* The log builds on itself. *)

\* Each update of a queue builds on what is there, on the updates before it, or on itself.
LaidDown(queue, onto) ==
    \A i \in DOMAIN queue : \A e \in queue[i] : \A d \in Before[e] :
        d \in onto \/ \E j \in DOMAIN queue : j <= i /\ d \in queue[j]

LEMMA LaidDownOnMore ==
    ASSUME NEW q, NEW A, NEW B, A \subseteq B, LaidDown(q, A)
    PROVE  LaidDown(q, B)
  BY DEF LaidDown

LEMMA LaidDownJoined ==
    ASSUME NEW S, NEW q \in Seq(S), NEW r \in Seq(S), NEW onto,
           LaidDown(q, onto), LaidDown(r, onto \cup Cover(q))
    PROVE  LaidDown(q \o r, onto)
<1>1. PICK all : all = q \o r
  OBVIOUS
<1>2. PICK n : n = Len(q)
  OBVIOUS
<1>3. n \in Nat /\ DOMAIN q = 1..n /\ Len(r) \in Nat /\ DOMAIN r = 1..Len(r)
  BY <1>2, LenProperties
<1>4. /\ \A i \in DOMAIN q : all[i] = q[i] /\ i \in DOMAIN all
      /\ \A i \in DOMAIN r : all[n + i] = r[i] /\ n + i \in DOMAIN all
      /\ \A i \in DOMAIN all \ DOMAIN q : i - n \in DOMAIN r /\ all[i] = r[i - n]
  BY <1>1, <1>2, JoinedBy
<1>5. ASSUME NEW i \in DOMAIN all, NEW e \in all[i], NEW d \in Before[e], d \notin onto
      PROVE  \E j \in DOMAIN all : j <= i /\ d \in all[j]
  <2>1. CASE i \in DOMAIN q
    <3>1. PICK j \in DOMAIN q : j <= i /\ d \in q[j]
      BY <1>4, <1>5, <2>1 DEF LaidDown
    <3> QED
      BY <1>4, <3>1
  <2>2. CASE i \notin DOMAIN q
    <3>1. i - n \in DOMAIN r /\ e \in r[i - n] /\ i - n \in Nat
      BY <1>3, <1>4, <1>5, <2>2
    <3>2. d \in Cover(q) \/ \E j \in DOMAIN r : j <= i - n /\ d \in r[j]
      BY <1>5, <3>1 DEF LaidDown
    <3>3. ASSUME NEW j \in DOMAIN r, j <= i - n, d \in r[j] PROVE \E k \in DOMAIN all : k <= i /\ d \in all[k]
      <4>1. n + j \in DOMAIN all /\ d \in all[n + j]
        BY <1>4, <3>3
      <4>2. i \in Int
        <5>1. Len(q \o r) \in Nat /\ DOMAIN all = 1..Len(q \o r)
          BY <1>1, ConcatProperties, LenProperties
        <5> QED
          BY <5>1
      <4>3. n + j <= i
        BY <1>3, <3>3, <4>2
      <4> QED
        BY <4>1, <4>3
    <3>4. ASSUME NEW j \in DOMAIN q, d \in q[j] PROVE \E k \in DOMAIN all : k <= i /\ d \in all[k]
      <4>1. j <= i
        <5>1. i - n >= 1 /\ i - n \in Nat /\ j \in 1..n /\ i \in Int
          <6>1. Len(q \o r) \in Nat /\ DOMAIN all = 1..Len(q \o r)
            BY <1>1, ConcatProperties, LenProperties
          <6> QED
            BY <1>3, <3>1, <6>1
        <5> QED
          BY <1>3, <5>1
      <4> QED
        BY <1>4, <3>4, <4>1
    <3> QED
      BY <3>2, <3>3, <3>4 DEF Cover
  <2> QED
    BY <2>1, <2>2
<1>6. LaidDown(all, onto)
  BY <1>5 DEF LaidDown
<1> QED
  BY <1>1, <1>6

LEMMA LaidDownOne ==
    ASSUME NEW s, NEW onto, \A e \in s : Before[e] \subseteq onto \cup s
    PROVE  LaidDown(<<s>>, onto)
<1>1. PICK one : one = <<s>>
  OBVIOUS
<1>2. DOMAIN one = {1} /\ one[1] = s
  BY <1>1
<1>3. LaidDown(one, onto)
  BY <1>2 DEF LaidDown
<1> QED
  BY <1>1, <1>3

LEMMA LaidDownLonger ==
    ASSUME NEW S, NEW q \in Seq(S), NEW s \in S, NEW onto,
           LaidDown(q, onto), \A e \in s : Before[e] \subseteq onto \cup Cover(q)
    PROVE  LaidDown(Append(q, s), onto)
<1>1. PICK one : one = <<s>>
  OBVIOUS
<1>2. one \in Seq(S) /\ Append(q, s) = q \o one
  BY <1>1, OneOf, AppendIsConcat
<1>3. LaidDown(one, onto \cup Cover(q))
  BY <1>1, LaidDownOne
<1>4. LaidDown(q \o one, onto)
  BY <1>2, <1>3, LaidDownJoined
<1> QED
  BY <1>2, <1>4

\* What all the rest builds on may be put first.
LEMMA LaidDownFirst ==
    ASSUME NEW S, NEW q \in Seq(S), NEW s \in S, NEW onto, NEW all,
           Integrated(all), s \subseteq all, Cover(q) \subseteq all, all \subseteq onto \cup s
    PROVE  LaidDown(<<s>> \o q, onto)
<1>1. PICK one : one = <<s>>
  OBVIOUS
<1>2. one \in Seq(S) /\ Cover(one) = s
  BY <1>1, OneOf, CoverOfOne
<1>3. LaidDown(one, onto)
  BY <1>1, LaidDownOne DEF Integrated
<1>4. LaidDown(q, onto \cup Cover(one))
  BY <1>2 DEF LaidDown, Cover, Integrated
<1>5. LaidDown(one \o q, onto)
  BY <1>2, <1>3, <1>4, LaidDownJoined
<1> QED
  BY <1>1, <1>5

LEMMA LaidDownCut ==
    ASSUME NEW S, NEW q \in Seq(S), NEW cut \in 0..Len(q), NEW onto, LaidDown(q, onto)
    PROVE  /\ LaidDown(SubSeq(q, 1, cut), onto)
           /\ LaidDown(SubSeq(q, cut + 1, Len(q)), onto \cup Cover(SubSeq(q, 1, cut)))
<1>1. PICK b, r : b = SubSeq(q, 1, cut) /\ r = SubSeq(q, cut + 1, Len(q))
  OBVIOUS
<1>2. /\ DOMAIN b = 1..cut /\ DOMAIN r = 1..(Len(q) - cut)
      /\ \A i \in 1..cut : b[i] = q[i]
      /\ \A i \in 1..(Len(q) - cut) : r[i] = q[cut + i]
  BY <1>1, CoverOfCut
<1>3. Len(q) \in Nat /\ DOMAIN q = 1..Len(q) /\ cut \in Nat /\ cut <= Len(q)
  BY LenProperties
<1>4. LaidDown(b, onto)
  <2> SUFFICES ASSUME NEW i \in DOMAIN b, NEW e \in b[i], NEW d \in Before[e], d \notin onto
               PROVE  \E j \in DOMAIN b : j <= i /\ d \in b[j]
    BY DEF LaidDown
  <2>1. i \in DOMAIN q /\ e \in q[i] /\ i <= cut
    BY <1>2, <1>3
  <2>2. PICK j \in DOMAIN q : j <= i /\ d \in q[j]
    BY <2>1 DEF LaidDown
  <2>3. j \in 1..cut
    BY <1>3, <2>1, <2>2
  <2> QED
    BY <1>2, <2>2, <2>3
<1>5. LaidDown(r, onto \cup Cover(b))
  <2> SUFFICES ASSUME NEW i \in DOMAIN r, NEW e \in r[i], NEW d \in Before[e], d \notin onto
               PROVE  d \in Cover(b) \/ \E j \in DOMAIN r : j <= i /\ d \in r[j]
    BY DEF LaidDown
  <2>1. cut + i \in DOMAIN q /\ e \in q[cut + i]
    BY <1>2, <1>3
  <2>2. PICK j \in DOMAIN q : j <= cut + i /\ d \in q[j]
    BY <2>1 DEF LaidDown
  <2>3. CASE j <= cut
    <3>1. j \in DOMAIN b /\ d \in b[j]
      BY <1>2, <1>3, <2>2, <2>3
    <3> QED
      BY <3>1 DEF Cover
  <2>4. CASE ~(j <= cut)
    <3>1. j - cut \in DOMAIN r /\ j - cut <= i /\ cut + (j - cut) = j
      BY <1>2, <1>3, <2>2, <2>4
    <3> QED
      BY <1>2, <2>2, <3>1
  <2> QED
    BY <2>3, <2>4
<1> QED
  BY <1>1, <1>4, <1>5

\* The document and the log are closed under what their edits build on, and everything on
\* its way to the log builds on the log and on what is ahead of it.
Grounded ==
    /\ Integrated(doc) /\ Integrated(stored)
    /\ Cover(pending) \subseteq doc /\ Cover(batch) \subseteq doc
    /\ ~purged => LaidDown(batch, stored)
    /\ ~purged /\ active /\ ~CatchingUp => LaidDown(pending, stored \cup Cover(batch))

LEMMA LaidDownNone == \A onto : LaidDown(<<>>, onto)
  BY DEF LaidDown

LEMMA IntegratedCommit ==
    ASSUME Integrated(stored), LaidDown(batch, stored)
    PROVE  Integrated(stored \cup Cover(batch))
<1> SUFFICES ASSUME NEW i \in DOMAIN batch, NEW e \in batch[i], NEW d \in Before[e], d \notin stored
             PROVE  d \in Cover(batch)
  BY DEF Integrated, Cover
<1>1. PICK j \in DOMAIN batch : d \in batch[j]
  BY DEF LaidDown
<1> QED
  BY <1>1 DEF Cover

LEMMA GroundedStep ==
    ASSUME Types, ChainShape, RoomShape, Disciplined, Truthful, Grounded, [Next]_vars
    PROVE  Grounded'
<1> USE DEF databaseVars, queueVars, taskVars, persistenceVars, Types, ManagerTypes
<1>1. pending \in Seq(SUBSET Edits) /\ batch \in Seq(SUBSET Edits)
  BY DEF PersistenceTypes, QueueTypes, TaskTypes
\* Nothing of the queue moves; the log may have grown.
<1>2. ASSUME UNCHANGED <<doc, pending, batch, purged>>, stored \subseteq stored', Integrated(stored'),
             active' => active \/ CatchingUp' \/ pending = <<>>, active /\ CatchingUp => ~active' \/ CatchingUp'
      PROVE  Grounded'
  <2>1. stored \cup Cover(batch) \subseteq stored' \cup Cover(batch)
    BY <1>2
  <2>2. ~purged => LaidDown(batch, stored')
    BY <1>2, LaidDownOnMore DEF Grounded
  <2>3. ASSUME ~purged, active, ~CatchingUp PROVE LaidDown(pending, stored' \cup Cover(batch))
    BY <2>1, <2>3, LaidDownOnMore DEF Grounded
  <2>4. pending = <<>> => LaidDown(pending, stored' \cup Cover(batch))
    BY LaidDownNone
  <2> QED
    BY <1>2, <2>2, <2>3, <2>4 DEF Grounded
<1>3. ASSUME UNCHANGED <<doc, pending, batch, purged, stored, active, chain>> PROVE Grounded'
  BY <1>2, <1>3 DEF Grounded, CatchingUp
<1>4. ASSUME NEW e \in Edits, Before[e] \subseteq doc, Receive(e) PROVE Grounded'
  <2>1. UNCHANGED <<batch, purged, active, chain, stored>> /\ doc' = doc \cup {e} /\ Integrated(doc')
    BY <1>4 DEF Receive, Grounded, Integrated
  <2>2. CatchingUp' = CatchingUp
    BY <2>1 DEF CatchingUp
  <2>3. CASE ~active
    BY <1>4, <2>1, <2>3 DEF Receive, Grounded
  <2>4. CASE active
    <3>1. PICK one : one = {e}
      OBVIOUS
    <3>2. one \in SUBSET Edits
      BY <3>1
    <3>3. pending' = Append(pending, one)
      BY <1>4, <2>4, <3>1 DEF Receive
    <3>4. Cover(pending') = Cover(pending) \cup one
      <4>1. Cover(Append(pending, one)) = Cover(pending) \cup one
        BY <1>1, <3>2, CoverOfLonger
      <4> QED
        BY <3>3, <4>1
    <3>5. ASSUME ~purged, ~CatchingUp PROVE LaidDown(pending', stored \cup Cover(batch))
      <4>1. LaidDown(pending, stored \cup Cover(batch))
        BY <2>4, <3>5 DEF Grounded
      <4>2. \A d \in one : Before[d] \subseteq stored \cup Cover(batch) \cup Cover(pending)
        BY <1>4, <2>4, <3>1, <3>5 DEF Truthful, WriterDocCovered
      <4>3. LaidDown(Append(pending, one), stored \cup Cover(batch))
        BY <1>1, <3>2, <4>1, <4>2, LaidDownLonger
      <4> QED
        BY <3>3, <4>3
    <3> QED
      BY <2>1, <2>2, <3>1, <3>4, <3>5 DEF Grounded
  <2> QED
    BY <2>3, <2>4 DEF PersistenceTypes, QueueTypes
<1>5. CASE UNCHANGED persistenceVars
  BY <1>3, <1>5
<1>6. ASSUME NEW m \in Members, Join(m) \/ Leave(m) PROVE Grounded'
  BY <1>5, <1>6 DEF Join, Leave
<1>7. ASSUME NEW e \in Edits, ClientEdit(e) \/ RemoteEdit(e) PROVE Grounded'
  BY <1>4, <1>5, <1>7 DEF ClientEdit, RemoteEdit
<1>8. ASSUME NEW e \in Edits, PeerCommit(e) PROVE Grounded'
  <2>1. Integrated(stored')
    BY <1>8 DEF PeerCommit, Grounded, Integrated
  <2>2. UNCHANGED <<active, chain>>
    BY <1>8 DEF PeerCommit
  <2> QED
    BY <1>2, <1>8, <2>1, <2>2 DEF PeerCommit, CatchingUp
<1>9. CASE PeerPersisted
  BY <1>3, <1>9 DEF PeerPersisted
<1>10. CASE Purge
  BY <1>10 DEF Purge, Grounded
\* Nothing is queued in a room that is not open, or was left.
<1>11. ASSUME batch' = <<>>, pending' = <<>>, Integrated(doc'), Integrated(stored') PROVE Grounded'
  BY <1>11, LaidDownNone, CoverOfNone DEF Grounded
<1>12. CASE LoadBoard
  <2>1. Integrated(doc') /\ UNCHANGED <<stored, pending, batch>>
    BY <1>12 DEF LoadBoard, LoadResults, Grounded, Integrated
  <2>2. batch = <<>> /\ pending = <<>>
    BY <1>12 DEF LoadBoard, RoomShape, ChainShape
  <2> QED
    BY <1>11, <2>1, <2>2 DEF Grounded
<1>13. CASE ForgetRoom /\ UNCHANGED stored
  <2>1. doc' = {} /\ pending' = <<>> /\ batch' = <<>> /\ Integrated(doc')
    BY <1>13 DEF ForgetRoom, Integrated
  <2> QED
    BY <1>11, <1>13, <2>1 DEF Grounded
<1>14. CASE ForgetRoom /\ InFlightMayCommit
  <2>1. doc' = {} /\ pending' = <<>> /\ batch' = <<>> /\ Integrated(doc')
    BY <1>14 DEF ForgetRoom, Integrated
  <2>2. stored' = stored \/ (~purged /\ stored' = stored \cup Cover(batch))
    BY <1>14 DEF InFlightMayCommit
  <2>3. Integrated(stored')
    BY <2>2, IntegratedCommit DEF Grounded
  <2> QED
    BY <1>11, <2>1, <2>3
<1>15. CASE LoadFails
  BY <1>13, <1>15 DEF LoadFails
<1>16. CASE ShutdownEnds \/ Crash \/ \E c \in Evictions : EvictDrops(c)
  BY <1>14, <1>16 DEF ShutdownEnds, Crash, EvictDrops
<1>17. CASE Leased
  <2>1. pending = <<>> /\ batch = <<>>
    BY <1>17 DEF Leased, RoomShape, ChainShape
  <2> QED
    BY <1>11, <1>17, <2>1 DEF Leased, Grounded
<1>18. CASE Drain
  <2>1. buffered # <<>> => Head(buffered) \in Edits
    BY HeadTailProperties
  <2> QED
    BY <1>4, <1>5, <1>18, <2>1 DEF Drain
<1>19. ASSUME NEW a \in Awaiters, Enqueued(Flush(a)) \/ Enqueued(Compact(a)),
              UNCHANGED <<stored, purged, doc, pending>>, active' = active
       PROVE  Grounded'
  <2>1. CatchingUp' = CatchingUp /\ batch' = batch
    BY <1>19, CatchUpsOfChain DEF Enqueued
  <2> QED
    BY <1>2, <1>19, <2>1 DEF Grounded
<1>20. ASSUME UNCHANGED <<stored, purged, doc, pending, batch>>, CatchingUp' PROVE Grounded'
  BY <1>2, <1>20 DEF Grounded
<1>21. ASSUME NEW answer \in BOOLEAN, LeaseRenewed(answer) \/ LeaseAcquired(answer) PROVE Grounded'
  <2>1. CASE BeginDeactivate
    BY <1>19, <2>1, AwaitersAssumption DEF BeginDeactivate, EnqueueTasks, Enqueued
  <2>2. CASE Activate
    <3>1. Enqueued(CatchUp("activate")) /\ UNCHANGED <<stored, purged, doc, pending, batch>>
      BY <2>2 DEF Activate, EnqueueTasks, Enqueued
    <3> QED
      BY <1>20, <3>1, CatchUpsOfChain, AwaitersAssumption
  <2> QED
    BY <1>5, <1>21, <2>1, <2>2 DEF LeaseRenewed, LeaseAcquired
<1>22. CASE Deactivated
  BY <1>22, CoverOfNone DEF Deactivated, EndDeactivate, Grounded
<1>23. CASE MaintainLease \/ Activated
  BY <1>3, <1>23 DEF MaintainLease, Activated
<1>24. ASSUME NEW c \in Closers, StartClose(c) PROVE Grounded'
  <2>1. BeginClose(c) /\ c \in Awaiters
    BY <1>24, ClosersAssumption DEF StartClose
  <2>2. UNCHANGED <<stored, purged, doc, pending, batch>> /\ active'
    BY <2>1 DEF BeginClose
  <2>3. CASE active
    <3>1. Enqueued(Flush(c)) /\ active' = active
      BY <2>1, <2>3 DEF PersistenceTypes, QueueTypes, BeginClose, EnqueueTasks, Enqueued
    <3> QED
      BY <1>19, <2>1, <2>2, <3>1
  <2>4. CASE ~active
    <3>1. Enqueued(CaughtUpFlush(c))
      BY <2>1, <2>4 DEF BeginClose, EnqueueTasks, Enqueued, CaughtUpFlush
    <3> QED
      BY <1>20, <2>2, <3>1, CatchUpsOfChain
  <2> QED
    BY <2>3, <2>4
<1>25. ASSUME NEW c \in Evictions, Evict(c) PROVE Grounded'
  BY <1>5, <1>24, <1>25 DEF Evict, Closers
<1>26. CASE BeginShutdown
  BY <1>5, <1>24, <1>26 DEF BeginShutdown, Closers
<1>27. ASSUME NEW c \in Closers, LoadedForClose(c) PROVE Grounded'
  BY <1>24, <1>27 DEF LoadedForClose
<1>28. ASSUME NEW c \in Closers, CloseFlushed(c) \/ CloseRetries(c) \/ CloseCompacted(c) PROVE Grounded'
  <2>1. UNCHANGED <<stored, purged, persisted, doc, pending, active, step, batch, marker, seen>>
    BY <1>28 DEF CloseFlushed, CloseRetries, CloseCompacted
  <2>2. UNCHANGED chain \/ Enqueued(Flush(c)) \/ Enqueued(Compact(c))
    BY <1>28 DEF CloseFlushed, CloseRetries, CloseCompacted, EnqueueTasks, Enqueued
  <2> QED
    BY <1>3, <1>19, <2>1, <2>2, ClosersAssumption
<1>29. ASSUME NEW c \in Evictions, EvictKeeps(c) PROVE Grounded'
  <2>1. UNCHANGED <<stored, purged, doc, chain, batch>>
    BY <1>29 DEF EvictKeeps, Reopen
  <2>2. active' => pending' = pending
    BY <1>29 DEF EvictKeeps, Reopen
  <2>3. ~active' => pending' = <<>>
    BY <1>29 DEF EvictKeeps, Reopen
  <2>4. active \/ pending = <<>>
    BY DEF Disciplined
  <2>5. CASE active'
    BY <1>2, <2>1, <2>2, <2>4, <2>5 DEF Grounded, CatchingUp
  <2>6. CASE ~active'
    BY <2>1, <2>3, <2>6, CoverOfNone DEF Grounded
  <2> QED
    BY <2>5, <2>6
<1>30. CASE TimerFires
  BY <1>19, <1>30, AwaitersAssumption DEF TimerFires, FlushTimer, EnqueueTasks, Enqueued
\* A task that settles, with what it leaves queued.
<1>31. ASSUME Settle, UNCHANGED <<stored, purged, doc, active>>, Cover(pending') \subseteq doc,
              active /\ ~purged /\ ~CatchingUp' => LaidDown(pending', stored)
       PROVE  Grounded'
  <2>1. batch' = <<>> /\ Cover(batch') = {} /\ stored' \cup Cover(batch') = stored
    BY <1>31, CoverOfNone DEF Settle
  <2>2. LaidDown(batch', stored')
    BY <2>1, LaidDownNone
  <2>3. active' /\ ~purged' /\ ~CatchingUp' => LaidDown(pending', stored' \cup Cover(batch'))
    BY <1>31, <2>1
  <2> QED
    BY <1>31, <2>1, <2>2, <2>3 DEF Grounded
<1>32. ASSUME Settle, chain # <<>>, Head(chain).task # "catchUp", ~CatchingUp', active, ~purged
       PROVE  LaidDown(pending, stored \cup Cover(batch))
  BY <1>32, CatchUpsOfChain DEF Grounded
<1>33. CASE StartEmptyFlush \/ CompactReturns
  <2>1. Settle /\ chain # <<>> /\ Head(chain).task # "catchUp" /\ batch = <<>>
        /\ UNCHANGED <<stored, purged, doc, active, pending>>
    BY <1>33 DEF StartEmptyFlush, CompactReturns, Due, ChainShape
  <2>2. stored \cup Cover(batch) = stored
    BY <2>1, CoverOfNone
  <2> QED
    BY <1>31, <1>32, <2>1, <2>2 DEF Grounded
<1>34. CASE StartFlush
  <2> DEFINE cut == IF Len(pending) <= MaxBatch THEN Len(pending) ELSE MaxBatch
  <2>1. cut \in 0..Len(pending)
    BY <1>1, LenProperties, LimitsAssumption
  <2>2. /\ batch' = SubSeq(pending, 1, cut) /\ pending' = SubSeq(pending, cut + 1, Len(pending))
        /\ UNCHANGED <<stored, purged, doc, active, chain>>
    BY <1>34 DEF StartFlush
  <2>3. batch = <<>> /\ active /\ ~CatchingUp
    BY <1>34 DEF StartFlush, Due, ChainShape, Disciplined
  <2>4. stored \cup Cover(batch) = stored
    BY <2>3, CoverOfNone
  <2> HIDE DEF cut
  <2>5. Cover(batch') \cup Cover(pending') = Cover(pending)
    BY <1>1, <2>1, <2>2, CoverOfCut
  <2>6. ASSUME ~purged PROVE LaidDown(batch', stored) /\ LaidDown(pending', stored \cup Cover(batch'))
    <3>1. LaidDown(pending, stored)
      BY <2>3, <2>4, <2>6 DEF Grounded
    <3> QED
      BY <1>1, <2>1, <2>2, <3>1, LaidDownCut
  <2> QED
    BY <2>2, <2>5, <2>6 DEF Grounded
<1>35. CASE StartCatchUp \/ StartCompact \/ CatchUpReads
  BY <1>3, <1>35 DEF StartCatchUp, StartCompact, CatchUpReads
<1>36. CASE AppendCommits
  <2>1. stored' = stored \cup Cover(batch) /\ Integrated(stored')
    BY <1>36, IntegratedCommit DEF AppendCommits, Grounded
  <2>2. UNCHANGED <<active, chain>>
    BY <1>36 DEF AppendCommits
  <2> QED
    BY <1>2, <1>36, <2>1, <2>2 DEF AppendCommits, CatchingUp
<1>37. CASE AppendReturns
  <2>1. /\ chain # <<>> /\ Head(chain).task # "catchUp" /\ stored \cup Cover(batch) = stored
        /\ UNCHANGED <<stored, purged, doc, active, pending>>
    BY <1>37 DEF AppendReturns, ChainShape, Truthful
  <2>2. Settle => Grounded'
    BY <1>31, <1>32, <2>1 DEF Grounded
  <2>3. ASSUME batch' = <<>>, UNCHANGED chain PROVE Grounded'
    <3>1. CatchingUp' = CatchingUp
      BY <2>3 DEF CatchingUp
    <3>2. LaidDown(batch', stored) /\ Cover(batch') = {} /\ stored \cup Cover(batch') = stored
      BY <2>3, LaidDownNone, CoverOfNone
    <3> QED
      BY <2>1, <3>1, <3>2 DEF Grounded
  <2> QED
    BY <1>37, <2>2, <2>3 DEF AppendReturns
<1>38. CASE AppendFails
  <2>1. pending' = batch \o pending
    BY <1>38 DEF AppendFails, PutBack
  <2>2. Settle /\ chain # <<>> /\ Head(chain).task # "catchUp" /\ UNCHANGED <<stored, purged, doc, active>>
    BY <1>38 DEF AppendFails, ChainShape
  <2>3. Cover(pending') \subseteq doc
    BY <1>1, <2>1, CoverOfJoined DEF Grounded
  <2>4. ASSUME active, ~purged, ~CatchingUp' PROVE LaidDown(pending', stored)
    <3>1. LaidDown(batch, stored) /\ LaidDown(pending, stored \cup Cover(batch))
      BY <1>32, <2>2, <2>4 DEF Grounded
    <3> QED
      BY <1>1, <2>1, <3>1, LaidDownJoined
  <2> QED
    BY <1>31, <2>2, <2>3, <2>4
<1>39. CASE AppendFindsNoBoard
  BY <1>31, <1>39, CoverOfNone DEF AppendFindsNoBoard
\* What is missing goes ahead of everything queued.
<1>40. ASSUME NEW missing \in SUBSET Edits, missing \subseteq doc, doc \subseteq stored \cup missing
       PROVE  /\ Cover(CatchUpFirst(missing)) \subseteq doc
              /\ LaidDown(CatchUpFirst(missing), stored)
  <2>1. PICK one : one = <<missing>>
    OBVIOUS
  <2>2. one \in Seq(SUBSET Edits) /\ Cover(one) = missing /\ CatchUpFirst(missing) = one \o pending
    BY <2>1, OneOf, CoverOfOne DEF CatchUpFirst
  <2>3. Cover(one \o pending) = Cover(one) \cup Cover(pending)
    BY <1>1, <2>2, CoverOfJoined
  <2>4. Cover(pending) \subseteq doc /\ Integrated(doc)
    BY DEF Grounded
  <2>5. LaidDown(<<missing>> \o pending, stored)
    BY <1>1, <1>40, <2>4, LaidDownFirst
  <2> QED
    BY <1>40, <2>2, <2>3, <2>4, <2>5 DEF CatchUpFirst
<1>41. CASE CatchUpReturns
  <2>1. seen \subseteq stored /\ Settle /\ UNCHANGED <<stored, purged, doc, active>>
    BY <1>41 DEF CatchUpReturns, Truthful
  <2>2. doc \subseteq stored \cup Missing /\ Missing \subseteq doc /\ Missing \in SUBSET Edits
    BY <2>1 DEF Missing, PersistenceTypes, DatabaseTypes
  <2>3. CASE Missing = {}
    <3>1. pending' = pending /\ Cover(pending) \subseteq doc /\ doc \subseteq stored
      BY <1>41, <2>2, <2>3 DEF CatchUpReturns, Grounded
    <3>2. LaidDown(pending, stored)
      BY <3>1 DEF Grounded, LaidDown, Integrated, Cover
    <3> QED
      BY <1>31, <2>1, <3>1, <3>2
  <2>4. CASE Missing # {}
    <3>1. pending' = CatchUpFirst(Missing)
      BY <1>41, <2>4 DEF CatchUpReturns
    <3> QED
      BY <1>31, <1>40, <2>1, <2>2, <3>1
  <2> QED
    BY <2>3, <2>4
<1>42. CASE CatchUpFails
  <2>1. pending' = CatchUpFirst(doc) /\ Settle /\ UNCHANGED <<stored, purged, doc, active>> /\ doc \in SUBSET Edits
    BY <1>42 DEF CatchUpFails, PersistenceTypes, DatabaseTypes
  <2> QED
    BY <1>31, <1>40, <2>1
<1>43. CASE TaskStarts \/ Postgres \/ TaskReply
  BY <1>33, <1>34, <1>35, <1>36, <1>37, <1>38, <1>39, <1>41, <1>42, <1>43
     DEF TaskStarts, Postgres, TaskReply, StartTask, Reply
<1>44. CASE UNCHANGED vars
  BY <1>5, <1>44 DEF vars
<1> QED
  BY <1>6, <1>7, <1>8, <1>9, <1>10, <1>12, <1>15, <1>16, <1>17, <1>18, <1>21, <1>22, <1>23, <1>25, <1>26,
     <1>27, <1>28, <1>29, <1>30, <1>43, <1>44 DEF Next

-----------------------------------------------------------------------------
(* The invariant of the room, and what follows from it. *)

\* Once a lease change has cut into a close, only an instance that is alone keeps the order.
RoomInv ==
    /\ ServedInv /\ Owed
    /\ raced \/ (Orderly /\ leftBehind = {})
    /\ Clustered \/ Alone
    /\ (raced /\ Clustered) \/ (Truthful /\ Grounded)

LEMMA RoomInvInit == Init => RoomInv
<1> SUFFICES ASSUME Init PROVE RoomInv
  OBVIOUS
<1>1. ServedInv /\ Owed /\ Orderly /\ (Clustered \/ Alone) /\ Truthful
  BY InitServes, InitOrders DEF ServedInv
<1>2. leftBehind = {} /\ doc = {} /\ stored = {} /\ batch = <<>> /\ pending = <<>>
  BY DEF Init
<1>3. Grounded
  BY <1>2, CoverOfNone, LaidDownNone DEF Grounded, Integrated
<1> QED
  BY <1>1, <1>2, <1>3 DEF RoomInv

LEMMA RoomInvStep ==
    ASSUME RoomInv, [Next]_vars
    PROVE  RoomInv'
<1>1. Types /\ ChainShape /\ RoomShape /\ Served /\ Owed /\ (raced => raced')
  BY RacedStays DEF RoomInv, ServedInv
<1>2. Types' /\ ChainShape' /\ RoomShape' /\ Served' /\ Owed'
  <2>1. Types' /\ ChainShape'
    <3>1. Types'
      BY <1>1, TypesStep DEF ChainShape
    <3>2. ChainShape'
      BY <1>1, ChainShapeStep
    <3> QED
      BY <3>1, <3>2
  <2>2. RoomShape' /\ Owed'
    BY <1>1, RoomShapeStep, OwedStep
  <2>3. Served'
    BY <1>1, ServedStep DEF ChainShape
  <2> QED
    BY <2>1, <2>2, <2>3
<1>3. Clustered \/ Alone'
  BY <1>1, AloneStep DEF RoomInv
<1>4. ASSUME ~raced' PROVE Orderly' /\ leftBehind' = {}
  <2>1. Orderly /\ leftBehind = {} /\ Truthful
    BY <1>1, <1>4 DEF RoomInv
  <2> QED
    BY <1>1, <1>2, <1>4, <2>1, OrderlyStep, NothingLeftStep
<1>5. ASSUME ~raced' \/ ~Clustered PROVE Truthful' /\ Grounded'
  <2>1. (Orderly \/ Alone) /\ Truthful /\ Grounded
    BY <1>1, <1>5 DEF RoomInv
  <2>2. Disciplined
    BY <1>1, <2>1, DisciplineHolds
  <2> QED
    BY <1>1, <2>1, <2>2, TruthfulStep, GroundedStep
<1> QED
  BY <1>2, <1>3, <1>4, <1>5 DEF RoomInv, ServedInv

LEMMA RoomInvHolds == Spec => []RoomInv
  BY RoomInvInit, RoomInvStep, PTL DEF Spec

\* No acknowledgement runs ahead of the database: what a room announced as persisted is
\* committed, through batches cut by MAX_BATCH, failed and retried appends, catch-ups of a new
\* writer and compactions, unless a lease change or another close's end cut into a close
\* (flushNow, catchUp and the persistedVector of rooms.ts).
THEOREM AnnouncedIsStored == Spec => []AckedIsDurableUnlessRaced
<1>1. RoomInv => AckedIsDurableUnlessRaced
  BY DEF RoomInv, Truthful, AckedIsDurableUnlessRaced, AckedIsDurable
<1> QED
  BY <1>1, RoomInvHolds, PTL

\* On an instance of its own (LocalLease, LocalRoomBus) acknowledgements are durable whatever
\* cuts into a close: it never loses the lease, so it never has to catch up.
THEOREM AnnouncedIsStoredAlone ==
    ASSUME ~Clustered
    PROVE  Spec => []AckedIsDurable
<1>1. RoomInv => AckedIsDurable
  BY DEF RoomInv, Truthful, AckedIsDurable
<1> QED
  BY <1>1, RoomInvHolds, PTL

\* Everything a writer holds is stored, on its way or queued, once it has caught up: an update
\* is never dropped between the document and the log (Receive, flushNow, catchUp).
THEOREM WritersForgetNothing == Spec => []WriterCovers
<1>1. RoomInv => WriterCovers
  BY DEF RoomInv, Truthful, WriterDocCovered, WriterCovers
<1> QED
  BY <1>1, RoomInvHolds, PTL

\* A room that leaves memory at its eviction, or at a shutdown that met no deadline, leaves
\* nothing unsaved (close() and evict()), unless a lease change or another close's end cut in.
THEOREM NothingIsLeftBehind == Spec => []NothingLeftBehindUnlessRaced
<1>1. RoomInv => NothingLeftBehindUnlessRaced
  BY DEF RoomInv, NothingLeftBehindUnlessRaced, NothingLeftBehind
<1> QED
  BY <1>1, RoomInvHolds, PTL

\* The log is closed under what its edits build on after any commit, lost reply, retry, crash
\* or catch-up: it can always be replayed from its start (flushNow puts a failed batch back
\* first, catchUp puts what is missing ahead of the queue).
THEOREM LogReplays == Spec => []StoredIsIntegrated
<1>1. RoomInv => StoredIsIntegrated
  BY DEF RoomInv, Grounded, StoredIsIntegrated
<1> QED
  BY <1>1, RoomInvHolds, PTL
=============================================================================
