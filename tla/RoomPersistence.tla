-------------------------- MODULE RoomPersistence --------------------------
(* The write-ahead queue of one board room on one server instance             *)
(* (apps/server/src/sync/roomPersistence.ts, class RoomPersistence, over a    *)
(* YjsContent), with the part of Postgres it writes to.                       *)
(*                                                                            *)
(* A document is the set of edits applied to it: Yjs updates are idempotent   *)
(* and commute once what they build on is there, so a state is its content.   *)
(* A queued update (NewUpdate) is the set of edits it carries.  A deletion    *)
(* does not show in a Yjs state vector, so a vector is the content without    *)
(* the Deletes.                                                               *)
(*                                                                            *)
(* JavaScript's run-to-completion is kept: a database reply, a timer or a     *)
(* message is a macrotask and happens only when no promise continuation is    *)
(* due (Quiet).  The promise chain of enqueueTask is the sequence `chain`;    *)
(* its head is the running task and `step` says which await it is at.  When a *)
(* task settles, whoever awaits it continues (`settled`) before the next task *)
(* of the chain starts, as the microtask queue orders them.                   *)
(*                                                                            *)
(* The module has no next-state relation of its own: RoomManager calls these  *)
(* operations and decides which of them may happen.                           *)
EXTENDS Naturals, Sequences

CONSTANTS
    Edits,          \* the edits clients may make to the board
    Deletes,        \* those that only delete: invisible in a state vector
    Before,         \* Before[e]: the edits e builds on (same author, or a target)
    Awaiters,       \* who may await a task of the chain, "none" and others
    MaxBatch,       \* MAX_BATCH: most updates in one append
    SnapshotEvery,  \* compaction threshold
    Clustered       \* TRUE: other instances write the same board too

ASSUME EditsAssumption ==
    /\ Deletes \subseteq Edits
    /\ Before \in [Edits -> SUBSET Edits]
ASSUME AwaitersAssumption == {"none", "deactivate", "activate"} \subseteq Awaiters
ASSUME LimitsAssumption ==
    /\ MaxBatch \in Nat \ {0}
    /\ SnapshotEvery \in Nat \ {0}
    /\ Clustered \in BOOLEAN

VARIABLES
    stored,         \* every edit committed to the board's update log so far
    purged,         \* the board's row was deleted for good
    doc,            \* content of the room's Y.Doc
    active,         \* this instance writes the room
    closed,         \* no flush is scheduled: close() is or was at work
    timer,          \* a flush timer is armed
    pending,        \* updates waiting to be written, oldest first
    chain,          \* tasks of the promise chain (flush, catchUp, compact); the head is running or due
    step,           \* where the head task is: "ready" before it starts, then appending, committed, ...
    batch,          \* the updates of the append in flight
    marker,         \* {v}: v is announced if that append commits; {} if nothing is
    seen,           \* what the catch-up's load has read
    sinceSnapshot,  \* updatesSinceSnapshot, counted up to SnapshotEvery
    settled,        \* awaiter of the task that just settled, "none" if none is due
    persisted       \* the room's persistedVector: what clients were told is saved

databaseVars == <<stored, purged>>
queueVars == <<active, closed, timer, pending, sinceSnapshot>>
taskVars == <<chain, step, batch, marker, seen, settled>>
persistenceVars == <<stored, purged, doc, active, closed, timer, pending, chain, step,
                     batch, marker, seen, sinceSnapshot, settled, persisted>>

\* The edits carried by a sequence of updates.
Cover(updates) == UNION {updates[i] : i \in DOMAIN updates}

\* Yjs integrates an update only on top of what it builds on.
Integrated(edits) == \A e \in edits : Before[e] \subseteq edits

\* A count of stored updates matters only below the compaction threshold.
Counted(n) == IF n > SnapshotEvery THEN SnapshotEvery ELSE n

\* YjsContent.durableMarker: the state vector of the room's document.
DurableMarker == doc \ Deletes

\* No promise continuation is due: the event loop may take the next macrotask.
ChainQuiet == settled = "none" /\ (chain = <<>> \/ step /= "ready")

(***************************************************************************)
(* scheduleFlush and enqueueTask.  Delays are not modelled: an armed timer *)
(* may fire at any later moment.                                           *)
(***************************************************************************)
ScheduleFlush == timer' = (timer \/ ~closed)

EnqueueTasks(tasks) == chain' = chain \o tasks

Flush(awaiter) == <<[task |-> "flush", awaiter |-> awaiter]>>
Compact(awaiter) == <<[task |-> "compact", awaiter |-> awaiter]>>
NoCatchUp(awaiter) == Flush(awaiter)  \* mutant: a new writer does not catch up
CatchUp(awaiter) == <<[task |-> "catchUp", awaiter |-> awaiter]>>

\* The running task's promise settles: its awaiter is due, the chain moves on.
Settle ==
    /\ chain' = Tail(chain)
    /\ step' = "ready"
    /\ settled' = Head(chain).awaiter
    /\ batch' = <<>> /\ marker' = {} /\ seen' = {}

(***************************************************************************)
(* Operations called by the room and its manager.                          *)
(***************************************************************************)

\* The doc's "update" handler: one edit arrives and, for the writer, is queued.
Receive(e) ==
    /\ doc' = doc \cup {e}
    /\ IF active
       THEN pending' = Append(pending, {e}) /\ ScheduleFlush
       ELSE UNCHANGED <<pending, timer>>
    /\ UNCHANGED <<databaseVars, active, closed, sinceSnapshot, taskVars, persisted>>

\* activate(): the catch-up goes into the chain before any flush of the new writer.
Activate ==
    /\ active' = TRUE
    /\ closed' = FALSE
    /\ timer' = TRUE
    /\ EnqueueTasks(CatchUp("activate"))
    /\ UNCHANGED <<databaseVars, doc, pending, sinceSnapshot,
                   step, batch, marker, seen, settled, persisted>>

\* deactivate(), up to its await of a last flush.
BeginDeactivate ==
    /\ timer' = FALSE
    /\ EnqueueTasks(Flush("deactivate"))
    /\ UNCHANGED <<databaseVars, doc, active, closed, pending, sinceSnapshot,
                   step, batch, marker, seen, settled, persisted>>

\* deactivate(), after it: whatever is still queued is forgotten.
EndDeactivate ==
    /\ settled = "deactivate"
    /\ settled' = "none"
    /\ active' = FALSE
    /\ pending' = <<>>
    /\ UNCHANGED <<databaseVars, doc, closed, timer, sinceSnapshot,
                   chain, step, batch, marker, seen, persisted>>

\* close(), up to its first await: a non-writer catches the database up first.
BeginClose(closer) ==
    /\ EnqueueTasks(IF active THEN Flush(closer) ELSE CatchUp("none") \o Flush(closer))
    /\ active' = TRUE
    /\ closed' = TRUE
    /\ timer' = FALSE
    /\ UNCHANGED <<databaseVars, doc, pending, sinceSnapshot,
                   step, batch, marker, seen, settled, persisted>>

\* reopen() schedules a flush of what is still queued.  Mutant: it does not.
NoFlushAfterReopen(asWriter) == timer' = timer
FlushAfterReopen(asWriter) == timer' = (timer \/ (asWriter /\ pending /= <<>>))

\* reopen(): undo close().
Reopen(asWriter) ==
    /\ closed' = FALSE
    /\ active' = asWriter
    /\ pending' = IF asWriter THEN pending ELSE <<>>
    /\ FlushAfterReopen(asWriter)
    /\ UNCHANGED <<databaseVars, doc, sinceSnapshot, taskVars, persisted>>

\* The flush timer fires: `timer = null; void this.flush()`.
FlushTimer ==
    /\ timer
    /\ timer' = FALSE
    /\ EnqueueTasks(Flush("none"))
    /\ UNCHANGED <<databaseVars, doc, active, closed, pending, sinceSnapshot,
                   step, batch, marker, seen, settled, persisted>>

(***************************************************************************)
(* The tasks of the chain.                                                 *)
(***************************************************************************)
Due(task) == settled = "none" /\ chain /= <<>> /\ step = "ready" /\ Head(chain).task = task

\* flushNow with nothing to write.
StartEmptyFlush ==
    /\ Due("flush") /\ pending = <<>>
    /\ Settle
    /\ UNCHANGED <<databaseVars, doc, queueVars, persisted>>

\* The cut point: only a batch that empties the queue leaves exactly the current vector
\* durable.  Mutant: a full batch never does.
MarkerIfShort(cut) == IF cut = Len(pending) /\ cut < MaxBatch THEN {DurableMarker} ELSE {}
Marker(cut) == IF cut = Len(pending) THEN {DurableMarker} ELSE {}

\* flushNow up to its append: cut a batch off the queue.
StartFlush ==
    /\ Due("flush") /\ pending /= <<>>
    /\ LET cut == IF Len(pending) <= MaxBatch THEN Len(pending) ELSE MaxBatch
       IN /\ batch' = SubSeq(pending, 1, cut)
          /\ pending' = SubSeq(pending, cut + 1, Len(pending))
          /\ marker' = Marker(cut)
    /\ step' = "appending"
    /\ UNCHANGED <<databaseVars, doc, active, closed, timer, sinceSnapshot,
                   chain, seen, settled, persisted>>

\* The append's statement commits in Postgres; its reply is still on the way.
AppendCommits ==
    /\ step = "appending" /\ ~purged
    /\ stored' = stored \cup Cover(batch)
    /\ step' = "committed"
    /\ UNCHANGED <<purged, doc, queueVars, chain, batch, marker, seen, settled, persisted>>

\* The append succeeded: acknowledge what the marker covers, go on with the queue,
\* and fold the log into a snapshot (still inside this task) when it has grown enough.
AppendReturns ==
    /\ step = "committed"
    /\ persisted' = persisted \cup UNION marker
    /\ IF pending /= <<>> THEN ScheduleFlush ELSE UNCHANGED timer
    /\ sinceSnapshot' = Counted(sinceSnapshot + Len(batch))
    /\ IF sinceSnapshot' = SnapshotEvery
       THEN /\ step' = "compacting"
            /\ batch' = <<>> /\ marker' = {}
            /\ UNCHANGED <<chain, seen, settled>>
       ELSE Settle
    /\ UNCHANGED <<databaseVars, doc, active, closed, pending>>

\* What a failed append leaves queued.  Mutants: without the batch; the batch last.
ForgetBatch == pending
BatchToBack == pending \o batch
PutBack == batch \o pending

\* A retry is scheduled unless close() is at work.  Mutant: it never is.
NoRetry == UNCHANGED timer
Retry == ScheduleFlush

\* The append failed, or its reply was lost after it committed: the batch goes back
\* to the front of the queue.
AppendFails ==
    /\ step \in {"appending", "committed"}
    /\ pending' = PutBack
    /\ Retry
    /\ Settle
    /\ UNCHANGED <<databaseVars, doc, active, closed, sinceSnapshot, persisted>>

\* BoardMissingError: the board was purged, nothing can be stored for it again.
AppendFindsNoBoard ==
    /\ step = "appending" /\ purged
    /\ pending' = <<>>
    /\ Settle
    /\ UNCHANGED <<databaseVars, doc, active, closed, timer, sinceSnapshot, persisted>>

StartCatchUp ==
    /\ Due("catchUp")
    /\ step' = "reading"
    /\ UNCHANGED <<databaseVars, doc, queueVars, chain, batch, marker, seen, settled, persisted>>

\* What repository.load may return: all that is stored, or less when another
\* instance's compaction commits between its statements (see BoardRepository).
LoadResults ==
    IF purged THEN {{}}
    ELSE IF Clustered THEN {edits \in SUBSET stored : Integrated(edits)}
    ELSE {stored}

CatchUpReads ==
    /\ step = "reading"
    /\ seen' \in LoadResults
    /\ step' = "read"
    /\ UNCHANGED <<databaseVars, doc, queueVars, chain, batch, marker, settled, persisted>>

\* What the document has beyond what was read, deletions included.  Mutant: by comparing
\* state vectors, which do not show them.
MissingByVector == (doc \ seen) \ Deletes
Missing == doc \ seen

\* It is written before what arrived meanwhile.  Mutant: after it.
CatchUpLast(missing) == pending \o <<missing>>
CatchUpFirst(missing) == <<missing>> \o pending

\* catchUp() after the load: queue what is missing; if nothing is, say that all is saved.
CatchUpReturns ==
    /\ step = "read"
    /\ pending' = IF Missing = {} THEN pending ELSE CatchUpFirst(Missing)
    /\ persisted' = IF Missing = {} /\ pending = <<>>
                    THEN persisted \cup DurableMarker ELSE persisted
    /\ sinceSnapshot' \in 0..SnapshotEvery
    /\ Settle
    /\ UNCHANGED <<databaseVars, doc, active, closed, timer>>

\* catchUp() when the load failed: the full document is queued.
CatchUpFails ==
    /\ step \in {"reading", "read"}
    /\ pending' = CatchUpFirst(doc)
    /\ Settle
    /\ UNCHANGED <<databaseVars, doc, active, closed, timer, sinceSnapshot, persisted>>

StartCompact ==
    /\ Due("compact")
    /\ step' = "compacting"
    /\ UNCHANGED <<databaseVars, doc, queueVars, chain, batch, marker, seen, settled, persisted>>

\* compactNow: the log was folded, or there was nothing to fold, or it failed.
CompactReturns ==
    /\ step = "compacting"
    /\ sinceSnapshot' \in {0, sinceSnapshot}
    /\ Settle
    /\ UNCHANGED <<databaseVars, doc, active, closed, timer, pending, persisted>>

\* The promise chain's own steps: what starts a due task, and what a reply does.
StartTask == StartEmptyFlush \/ StartFlush \/ StartCatchUp \/ StartCompact
Reply ==
    \/ AppendReturns \/ AppendFails \/ AppendFindsNoBoard
    \/ CatchUpReads \/ CatchUpReturns \/ CatchUpFails \/ CompactReturns
=============================================================================
