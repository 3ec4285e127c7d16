---------------------------- MODULE RoomManager ----------------------------
(* The life of one normal board's room on one server instance                 *)
(* (apps/server/src/sync/rooms.ts, classes Room and RoomManager): loading,    *)
(* members, eviction, shutdown, crash, and the persistence lease's changes,   *)
(* over the write-ahead queue of RoomPersistence.                             *)
(*                                                                            *)
(* Other instances are the environment: their edits arrive over the bus, they *)
(* commit to the same log and announce it, and Redis may answer any lease     *)
(* call either way.  With Clustered = FALSE (LocalLease, LocalRoomBus) none   *)
(* of that happens.                                                           *)
EXTENDS RoomPersistence

CONSTANTS
    Members,    \* connections that may be in the room
    Evictions,  \* evict() calls that may be under way at once (they overlap when
                \* saving takes longer than the grace period)
    MaxChain    \* bound: the flush timer fires only while fewer tasks are queued

Shutdown == "shutdown"
Closers == Evictions \cup {Shutdown}

ASSUME ClosersAssumption ==
    /\ Closers \subseteq Awaiters
    /\ Closers \cap {"none", "deactivate", "activate"} = {}
    /\ Shutdown \notin Evictions
    /\ MaxChain \in Nat

VARIABLES
    room,        \* "none": not in memory; loading, waiting for the lease, ...
    buffered,    \* edits received while loading, in order of arrival
    ours,        \* edits received from this instance's own connections
    members,     \* connections in the room
    evictTimer,  \* the grace period of the empty room is running
    closing,     \* Room.closing: lease changes are paused
    closer,      \* where each evict() and the shutdown's flushAll() is
    wasWriter,   \* evict()'s local of that name
    maintain,    \* where maintainLease is; "idle" is leaseBusy = false
    accepting,   \* FALSE once shutdown has begun
    raced,       \* history: a lease change, or the end of another close, cut into a close
    leftBehind   \* history: edits not stored when a room was left for good

managerVars == <<room, buffered, ours, members, evictTimer, closing, closer, wasWriter,
                 maintain, accepting, raced, leftBehind>>
vars == <<persistenceVars, managerVars>>

NobodyEvicts == [c \in Evictions |-> FALSE]
NobodyCloses == [c \in Closers |-> "idle"]

Init ==
    /\ stored = {} /\ purged = FALSE
    /\ doc = {} /\ persisted = {}
    /\ active = FALSE /\ closed = FALSE /\ timer = FALSE
    /\ pending = <<>> /\ sinceSnapshot = 0
    /\ chain = <<>> /\ step = "ready" /\ batch = <<>> /\ marker = {} /\ seen = {}
    /\ settled = "none"
    /\ room = "none" /\ buffered = <<>> /\ ours = {} /\ members = {}
    /\ evictTimer = FALSE /\ closing = FALSE
    /\ wasWriter = NobodyEvicts
    /\ maintain = "idle"
    /\ closer = NobodyCloses
    /\ accepting = TRUE
    /\ raced = FALSE /\ leftBehind = {}

\* The room and its queue leave memory: dropped, or gone with the process.
ForgetRoom ==
    /\ doc' = {} /\ persisted' = {}
    /\ active' = FALSE /\ closed' = FALSE /\ timer' = FALSE
    /\ pending' = <<>> /\ sinceSnapshot' = 0
    /\ chain' = <<>> /\ step' = "ready" /\ batch' = <<>> /\ marker' = {} /\ seen' = {}
    /\ settled' = "none"
    /\ room' = "none" /\ buffered' = <<>> /\ ours' = {} /\ members' = {}
    /\ evictTimer' = FALSE /\ closing' = FALSE
    /\ wasWriter' = NobodyEvicts
    /\ maintain' = "idle"

\* An append in flight when the room goes away may still commit.
InFlightMayCommit ==
    /\ stored' \in {stored} \cup
                  (IF step = "appending" /\ ~purged THEN {stored \cup Cover(batch)} ELSE {})
    /\ UNCHANGED purged

\* No continuation of a promise is due anywhere: the next macrotask may run.
Quiet ==
    /\ ChainQuiet
    /\ room /= "draining"
    /\ \A c \in Closers : closer[c] /= "done" /\ ~(closer[c] = "waiting" /\ room = "open")

----------------------------------------------------------------------------
(* Connections *)

\* acquire() + join(): the room is created, and starts to load, with its first member.
Join(m) ==
    /\ Quiet /\ accepting
    /\ m \notin members
    /\ members' = members \cup {m}
    /\ room' = IF room = "none" THEN "loading" ELSE room
    /\ evictTimer' = FALSE
    /\ UNCHANGED <<persistenceVars, buffered, ours, closing, closer, wasWriter, maintain,
                   accepting, raced, leftBehind>>

\* leave(): the last one out starts the grace period.
Leave(m) ==
    /\ Quiet
    /\ m \in members
    /\ members' = members \ {m}
    /\ evictTimer' = (evictTimer \/ members' = {})
    /\ UNCHANGED <<persistenceVars, room, buffered, ours, closing, closer, wasWriter,
                   maintain, accepting, raced, leftBehind>>

IsBuffered(e) == \E i \in DOMAIN buffered : buffered[i] = e

\* A connection that may write sends an edit.  Connections are frozen once shutdown has
\* begun; while the room loads, messages wait in the connection.
ClientEdit(e) ==
    /\ Quiet /\ accepting
    /\ members /= {}
    /\ \/ /\ room = "open"
          /\ e \notin doc /\ Before[e] \subseteq doc
          /\ Receive(e)
          /\ UNCHANGED buffered
       \/ /\ room \in {"loading", "leasing"}
          /\ ~IsBuffered(e)
          /\ buffered' = Append(buffered, e)
          /\ UNCHANGED persistenceVars
    /\ ours' = ours \cup {e}
    /\ UNCHANGED <<room, members, evictTimer, closing, closer, wasWriter, maintain,
                   accepting, raced, leftBehind>>

----------------------------------------------------------------------------
(* Other instances, and the database *)

\* handleCluster(update | syncReply): queued by the room while it loads.
RemoteEdit(e) ==
    /\ Quiet /\ Clustered
    /\ \/ /\ room = "open"
          /\ e \notin doc /\ Before[e] \subseteq doc
          /\ Receive(e)
          /\ UNCHANGED buffered
       \/ /\ room \in {"loading", "leasing"}
          /\ ~IsBuffered(e)
          /\ buffered' = Append(buffered, e)
          /\ UNCHANGED persistenceVars
    /\ UNCHANGED <<room, ours, members, evictTimer, closing, closer, wasWriter, maintain,
                   accepting, raced, leftBehind>>

\* Another instance commits an edit of its copy of the board.
PeerCommit(e) ==
    /\ Quiet /\ Clustered /\ ~purged
    /\ e \notin stored /\ Before[e] \subseteq stored
    /\ stored' = stored \cup {e}
    /\ UNCHANGED <<purged, doc, queueVars, taskVars, persisted, managerVars>>

\* handleCluster(persisted): while we write ourselves, only our own commits count.
PeerPersisted ==
    /\ Quiet /\ Clustered
    /\ room = "open" /\ ~active
    /\ \E vector \in SUBSET (stored \ Deletes) : persisted' = persisted \cup vector
    /\ UNCHANGED <<databaseVars, doc, queueVars, taskVars, managerVars>>

\* The trash is emptied (internal.ts): the row and, by cascade, its log are gone.
Purge ==
    /\ Quiet /\ ~purged
    /\ purged' = TRUE
    /\ UNCHANGED <<stored, doc, queueVars, taskVars, persisted, managerVars>>

----------------------------------------------------------------------------
(* Loading *)

\* load(): the board was read (after the subscription) and applied to the document.
LoadBoard ==
    /\ Quiet /\ room = "loading"
    /\ doc' \in LoadResults
    /\ persisted' = doc' \ Deletes
    /\ room' = "leasing"
    /\ UNCHANGED <<databaseVars, queueVars, taskVars, buffered, ours, members, evictTimer,
                   closing, closer, wasWriter, maintain, accepting, raced, leftBehind>>

\* load() fails, or finds the board in the trash: connections are closed, the room
\* dropped.  An evict() that waited for it ends without effect, and so does flushAll().
LoadFails ==
    /\ Quiet /\ room = "loading"
    /\ ForgetRoom
    /\ closer' = [c \in Closers |->
                    IF c = Shutdown /\ closer[c] = "waiting" THEN "done" ELSE "idle"]
    /\ UNCHANGED <<databaseVars, accepting, raced, leftBehind>>

\* The lease call of load() is answered; the queue exists from here on.
Leased ==
    /\ Quiet /\ room = "leasing"
    /\ active' \in IF Clustered THEN BOOLEAN ELSE {TRUE}
    /\ sinceSnapshot' \in 0..SnapshotEvery
    /\ room' = "draining"
    /\ UNCHANGED <<databaseVars, doc, closed, timer, pending, taskVars, persisted, buffered,
                   ours, members, evictTimer, closing, closer, wasWriter, maintain,
                   accepting, raced, leftBehind>>

\* finishLoading() and the connections' own buffers: one message after the other.
\* Yjs keeps aside an edit whose predecessors are missing until a resync brings them.
Drain ==
    /\ room = "draining"
    /\ IF buffered = <<>>
       THEN /\ room' = "open"
            /\ UNCHANGED <<persistenceVars, buffered>>
       ELSE LET e == Head(buffered)
            IN /\ buffered' = Tail(buffered)
               /\ IF e \notin doc /\ Before[e] \subseteq doc
                  THEN Receive(e) ELSE UNCHANGED persistenceVars
               /\ UNCHANGED room
    /\ UNCHANGED <<ours, members, evictTimer, closing, closer, wasWriter, maintain,
                   accepting, raced, leftBehind>>

----------------------------------------------------------------------------
(* The lease: maintainLease() *)

\* The renewal timer, a "lease released" message or a bus reconnect.
MaintainLease ==
    /\ Quiet /\ Clustered
    /\ room = "open" /\ ~closing /\ maintain = "idle"
    /\ maintain' = IF active THEN "renewing" ELSE "acquiring"
    /\ UNCHANGED <<persistenceVars, room, buffered, ours, members, evictTimer, closing,
                   closer, wasWriter, accepting, raced, leftBehind>>

\* renewLease() is answered; an unreachable Redis counts as held.
LeaseRenewed(held) ==
    /\ Quiet /\ maintain = "renewing"
    /\ IF ~held /\ ~closing /\ active
       THEN BeginDeactivate /\ maintain' = "deactivating"
       ELSE UNCHANGED persistenceVars /\ maintain' = "idle"
    /\ UNCHANGED <<room, buffered, ours, members, evictTimer, closing, closer, wasWriter,
                   accepting, raced, leftBehind>>

\* tryAcquireLease() is answered; an unreachable Redis counts as acquired.
LeaseAcquired(got) ==
    /\ Quiet /\ maintain = "acquiring"
    /\ IF got /\ ~closing /\ ~active
       THEN Activate /\ maintain' = "activating"
       ELSE UNCHANGED persistenceVars /\ maintain' = "idle"
    /\ UNCHANGED <<room, buffered, ours, members, evictTimer, closing, closer, wasWriter,
                   accepting, raced, leftBehind>>

\* The last flush of deactivate() settled.
Deactivated ==
    /\ EndDeactivate
    /\ maintain' = "idle"
    /\ raced' = (raced \/ closing)
    /\ UNCHANGED <<room, buffered, ours, members, evictTimer, closing, closer, wasWriter,
                   accepting, leftBehind>>

\* The catch-up that activate() waited for settled.
Activated ==
    /\ settled = "activate"
    /\ settled' = "none"
    /\ maintain' = "idle"
    /\ UNCHANGED <<databaseVars, doc, queueVars, chain, step, batch, marker, seen, persisted,
                   room, buffered, ours, members, evictTimer, closing, closer, wasWriter,
                   accepting, raced, leftBehind>>

----------------------------------------------------------------------------
(* Eviction and shutdown *)

StartClose(c) ==
    /\ BeginClose(c)
    /\ closing' = TRUE
    /\ closer' = [closer EXCEPT ![c] = "flushing"]

\* evict(): the grace period of the empty room is over.  A room still loading is waited for.
Evict(c) ==
    /\ Quiet /\ evictTimer /\ members = {}
    /\ closer[c] = "idle"
    /\ evictTimer' = FALSE
    /\ IF room = "open"
       THEN StartClose(c) /\ wasWriter' = [wasWriter EXCEPT ![c] = active]
       ELSE /\ closer' = [closer EXCEPT ![c] = "waiting"]
            /\ UNCHANGED <<persistenceVars, closing, wasWriter>>
    /\ UNCHANGED <<room, buffered, ours, members, maintain, accepting, raced, leftBehind>>

\* SyncServer.close(): no more upgrades or edits; flushAll() closes every room.
BeginShutdown ==
    /\ Quiet /\ accepting
    /\ accepting' = FALSE
    /\ IF room = "open"
       THEN StartClose(Shutdown)
       ELSE /\ closer' = [closer EXCEPT ![Shutdown] = IF room = "none" THEN "done" ELSE "waiting"]
            /\ UNCHANGED <<persistenceVars, closing>>
    /\ UNCHANGED <<room, buffered, ours, members, evictTimer, wasWriter, maintain, raced,
                   leftBehind>>

\* The room an evict() or flushAll() waited for has loaded (await room.ready).
LoadedForClose(c) ==
    /\ ChainQuiet
    /\ room = "open" /\ closer[c] = "waiting"
    /\ StartClose(c)
    /\ wasWriter' = IF c \in Evictions THEN [wasWriter EXCEPT ![c] = active] ELSE wasWriter
    /\ UNCHANGED <<room, buffered, ours, members, evictTimer, maintain, accepting, raced,
                   leftBehind>>

\* close() after a flush: retry while something is pending and the deadline has not
\* passed, then make a last snapshot if the log has grown.
CloseFlushed(c) ==
    /\ settled = c /\ closer[c] = "flushing"
    /\ settled' = "none"
    /\ \/ /\ pending /= <<>>
          /\ closer' = [closer EXCEPT ![c] = "backoff"]
          /\ UNCHANGED chain
       \/ /\ sinceSnapshot > 0
          /\ EnqueueTasks(Compact(c))
          /\ closer' = [closer EXCEPT ![c] = "compacting"]
       \/ /\ sinceSnapshot = 0
          /\ closer' = [closer EXCEPT ![c] = "done"]
          /\ UNCHANGED chain
    /\ UNCHANGED <<databaseVars, doc, queueVars, step, batch, marker, seen, persisted, room,
                   buffered, ours, members, evictTimer, closing, wasWriter, maintain,
                   accepting, raced, leftBehind>>

\* close()'s backoff is over: flush again.
CloseRetries(c) ==
    /\ Quiet /\ closer[c] = "backoff"
    /\ EnqueueTasks(Flush(c))
    /\ closer' = [closer EXCEPT ![c] = "flushing"]
    /\ UNCHANGED <<databaseVars, doc, queueVars, step, batch, marker, seen, settled,
                   persisted, room, buffered, ours, members, evictTimer, closing, wasWriter,
                   maintain, accepting, raced, leftBehind>>

\* close() after its snapshot.
CloseCompacted(c) ==
    /\ settled = c /\ closer[c] = "compacting"
    /\ settled' = "none"
    /\ closer' = [closer EXCEPT ![c] = "done"]
    /\ UNCHANGED <<databaseVars, doc, queueVars, chain, step, batch, marker, seen, persisted,
                   room, buffered, ours, members, evictTimer, closing, wasWriter, maintain,
                   accepting, raced, leftBehind>>

\* Whoever awaited close() continues after a task of the chain that is already due.
CloseDone(c) ==
    /\ closer[c] = "done" /\ settled = "none"
    /\ chain = <<>> \/ step /= "ready"

OthersClose(c) == \E other \in Closers \ {c} : closer[other] /= "idle"

\* The save failed: pendingCount is not 0.  Mutant: nobody looks.
NeverUnsaved == FALSE
Unsaved == pending /= <<>>

\* evict(): someone is in the room again, or the save failed: keep it.
EvictKeeps(c) ==
    /\ CloseDone(c)
    /\ members /= {} \/ Unsaved
    /\ Reopen(wasWriter[c] \/ Unsaved)
    /\ closing' = FALSE
    /\ closer' = [closer EXCEPT ![c] = "idle"]
    /\ wasWriter' = [wasWriter EXCEPT ![c] = FALSE]
    /\ evictTimer' = (evictTimer \/ members = {})
    /\ raced' = (raced \/ OthersClose(c))
    /\ UNCHANGED <<room, buffered, ours, members, maintain, accepting, leftBehind>>

\* evict(): everything is saved, the room leaves memory.
EvictDrops(c) ==
    /\ CloseDone(c)
    /\ members = {} /\ ~Unsaved
    /\ ForgetRoom
    /\ closer' = [other \in Closers |->
                    IF other = Shutdown /\ closer[other] /= "idle" THEN "done" ELSE "idle"]
    /\ InFlightMayCommit
    /\ leftBehind' = IF purged THEN leftBehind ELSE leftBehind \cup (doc \ stored')
    /\ raced' = (raced \/ OthersClose(c))
    /\ UNCHANGED accepting

\* flushAll() is over: connections are closed and the process exits; it is started
\* again.  Edits still queued or in flight were given up at the deadline.
ShutdownEnds ==
    /\ CloseDone(Shutdown)
    /\ ForgetRoom
    /\ closer' = NobodyCloses
    /\ accepting' = TRUE
    /\ InFlightMayCommit
    /\ leftBehind' = IF purged \/ pending /= <<>> \/ batch /= <<>> THEN leftBehind
                     ELSE leftBehind \cup ((ours \cap doc) \ stored')
    /\ UNCHANGED raced

\* The process dies, or shutdown's hard deadline ends it, and it is started again.
Crash ==
    /\ ForgetRoom
    /\ closer' = NobodyCloses
    /\ accepting' = TRUE
    /\ InFlightMayCommit
    /\ UNCHANGED <<raced, leftBehind>>

----------------------------------------------------------------------------
\* A task of the chain starts, or the database answers one.
TaskStarts == StartTask /\ UNCHANGED managerVars
Postgres == Quiet /\ AppendCommits /\ UNCHANGED managerVars
TaskReply == Quiet /\ Reply /\ UNCHANGED managerVars
TimerFires == Quiet /\ Len(chain) < MaxChain /\ FlushTimer /\ UNCHANGED managerVars

Next ==
    \/ \E m \in Members : Join(m) \/ Leave(m)
    \/ \E e \in Edits : ClientEdit(e) \/ RemoteEdit(e) \/ PeerCommit(e)
    \/ PeerPersisted \/ Purge
    \/ LoadBoard \/ LoadFails \/ Leased \/ Drain
    \/ MaintainLease
    \/ \E answer \in BOOLEAN : LeaseRenewed(answer) \/ LeaseAcquired(answer)
    \/ Deactivated \/ Activated
    \/ \E c \in Evictions : Evict(c) \/ EvictKeeps(c) \/ EvictDrops(c)
    \/ BeginShutdown
    \/ \E c \in Closers : \/ LoadedForClose(c) \/ CloseFlushed(c) \/ CloseRetries(c)
                          \/ CloseCompacted(c)
    \/ ShutdownEnds \/ Crash
    \/ TaskStarts \/ Postgres \/ TaskReply \/ TimerFires

Spec == Init /\ [][Next]_vars

(* The event loop runs every continuation and timer that is due, and Postgres answers.   *)
(* It may fail again and again, but not for ever: an append that keeps being retried      *)
(* commits at last, and at last its reply gets through.  Nothing makes a user, a peer, a  *)
(* crash or a purge happen.                                                               *)
Fairness ==
    /\ WF_vars(LoadBoard) /\ WF_vars(Leased) /\ WF_vars(Drain)
    /\ WF_vars(TaskStarts) /\ WF_vars(TaskReply) /\ WF_vars(TimerFires)
    /\ SF_vars(Postgres) /\ SF_vars(Quiet /\ AppendReturns /\ UNCHANGED managerVars)
    /\ WF_vars(Deactivated) /\ WF_vars(Activated)
    /\ \A c \in Closers : /\ WF_vars(LoadedForClose(c)) /\ WF_vars(CloseFlushed(c))
                          /\ WF_vars(CloseRetries(c)) /\ WF_vars(CloseCompacted(c))
    /\ \A c \in Evictions : WF_vars(EvictKeeps(c)) /\ WF_vars(EvictDrops(c))
    /\ WF_vars(ShutdownEnds)

FairSpec == Spec /\ Fairness

----------------------------------------------------------------------------
(* Properties *)

\* An edit clients were told is saved survives any failure of the server: what was announced
\* as persisted is committed (roomPersistence.ts, class comment; PROGRESS.md, failure model).
AckedIsDurable == persisted \subseteq stored

\* The same, unless a lease change or the end of another close cut into a running close.
AckedIsDurableUnlessRaced == raced \/ AckedIsDurable

\* "An instance never leaves a room holding edits that aren't stored" (roomPersistence.ts,
\* close()); "unsaved edits are never dropped" (rooms.ts, evict()).
NothingLeftBehind == leftBehind = {}

\* The same, unless a lease change or the end of another close cut into a running close.
NothingLeftBehindUnlessRaced == raced \/ NothingLeftBehind

CatchingUp == \E i \in DOMAIN chain : chain[i].task = "catchUp"

\* Everything in a writer's document is stored, on its way to Postgres or queued; what it
\* missed while another instance wrote is queued before any new marker is taken.
WriterCovers ==
    active /\ ~CatchingUp /\ ~purged /\ ~raced
        => doc \subseteq stored \cup Cover(batch) \cup Cover(pending)

\* No lost wake-up: while updates are queued in a writer, a timer, a task or a close is
\* going to write them, whichever way flushes fail, overlap with close() and are reopened.
QueueIsServed ==
    active /\ pending /= <<>>
        => timer \/ chain /= <<>> \/ \E c \in Closers : closer[c] \notin {"idle", "waiting"}

\* The log can be rebuilt from itself: nothing is stored before what it builds on, however
\* batches are cut, fail, are put back and retried.
StoredIsIntegrated == raced \/ Integrated(stored)

\* Clients do not wait for ever to see "saved".
EditsAreAcked ==
    \A e \in Edits \ Deletes : e \in doc ~> (e \in persisted \/ e \notin doc \/ purged)
=============================================================================
