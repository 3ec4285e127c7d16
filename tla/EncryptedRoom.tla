---------------------------- MODULE EncryptedRoom ----------------------------
(* The rooms of one private board, one per server instance                    *)
(* (apps/server/src/sync/encryptedRoom.ts, EncryptedRoom and its CipherLog),  *)
(* with their write queue, the board's rows in Postgres and the Redis bus.    *)
(*                                                                            *)
(* The queue's own races are the subject of RoomPersistence; here a flush     *)
(* takes all that is queued and only its visible steps are kept: cut, stored, *)
(* answered or failed.  A new writer takes a lease that is free; a lease is   *)
(* lost only with its process.  Presence is not modelled.                     *)
EXTENDS CipherLog

CONSTANTS
    Instances,    \* server instances
    MaxSeq,       \* bound: a reply is lost only while fewer rows are stored
    MaxRequests,  \* bound: snapshot requests sent
    MaxCrashes,   \* bound: processes that die
    MaxOutages,   \* bound: subscriptions that break
    MaxResyncs    \* bound: periodic sync requests

ASSUME RoomAssumption ==
    {MaxSeq, MaxRequests, MaxCrashes, MaxOutages, MaxResyncs} \subseteq Nat

NoRoom == "none"

VARIABLES
    rows,        \* board_updates and its archive; seq n is the n-th
    snapUpto,    \* the latest board_snapshots row: its seq_upto and content
    snapState,
    forgotten,   \* history: edits of a snapshot that neither the next one nor a row held
    hidden,      \* history: stored envelopes a room lost to an older snapshot (InstallReturns)
    lease,       \* the instance that holds the board's lease, or NoRoom
    phase,       \* per instance: "down", "loading", "leasing", "draining", "open"
    home,        \* per connection: the instance it is connected to
    log,         \* the room's CipherLog
    active,      \* it writes the board
    catching,    \* its catch-up task is queued or running
    queue,    \* its queue
    batch,       \* its append in flight
    firstSeq,    \* 0 until the append has committed
    marker,      \* the counters announced when it has
    told,        \* persistedVector
    request,     \* snapshotRequest: at most one
    starting,    \* requestSnapshot is at its await: what it read before
    installing,  \* receiveSnapshot calls at their await
    asked,       \* requests sent so far
    inbox,       \* per instance: what Redis has delivered to it and is not handled
    listening,   \* its subscription is up
    crashes, outages, resyncs,  \* so far
    late         \* appends Postgres got from processes that died, not committed yet

databaseVars == <<rows, snapUpto, snapState, forgotten, hidden>>
queueVars == <<active, catching, queue, batch, firstSeq, marker>>
snapshotVars == <<request, starting, installing, asked>>
busVars == <<inbox, listening>>
faultVars == <<crashes, outages, resyncs, late>>
roomVars == <<databaseVars, lease, phase, home, log, queueVars, told, snapshotVars, busVars,
              faultVars>>

RoomInit ==
    /\ rows = EarlierRows /\ snapUpto = 0 /\ snapState = {}
    /\ forgotten = {} /\ hidden = {}
    /\ lease = NoRoom
    /\ phase = [i \in Instances |-> "down"]
    /\ home = [p \in Connections |-> NoRoom]
    /\ log = [i \in Instances |-> EmptyLog]
    /\ active = [i \in Instances |-> FALSE] /\ catching = [i \in Instances |-> FALSE]
    /\ queue = [i \in Instances |-> <<>>] /\ batch = [i \in Instances |-> <<>>]
    /\ firstSeq = [i \in Instances |-> 0] /\ marker = [i \in Instances |-> NoCounters]
    /\ told = [i \in Instances |-> NoCounters]
    /\ request = [i \in Instances |-> {}] /\ starting = [i \in Instances |-> {}]
    /\ installing = [i \in Instances |-> {}] /\ asked = 0
    /\ inbox = [i \in Instances |-> <<>>] /\ listening = [i \in Instances |-> FALSE]
    /\ crashes = 0 /\ outages = 0 /\ resyncs = 0 /\ late = {}

\* What the database has: the rows, those in the archive too, and what the snapshot holds beyond
\* them.  A restart finds it all but the hidden rows that a snapshot has replaced.
Stored == snapState \cup Plain(Range(rows))
MembersOf(i) == {p \in member : home[p] = i}

----------------------------------------------------------------------------
(* Sending *)

\* broadcast: messages[p] goes to every member p; a client that left reads no more.
Deliver(i, messages) ==
    down' = [p \in Connections |->
                IF p \in MembersOf(i) \cap reading THEN down[p] \o messages[p] ELSE down[p]]

Updates(blobs) == [k \in DOMAIN blobs |-> ServerUpdate(blobs[k])]

\* publish: Redis hands it to every other subscriber; `rest` is what this instance still
\* has to handle.
Publish(i, rest, messages) ==
    inbox' = [j \in Instances |->
                IF j = i THEN rest
                ELSE IF listening[j] THEN inbox[j] \o messages ELSE inbox[j]]

\* The counters go with the envelopes, the seqs do not.
Entries(entries) ==
    [kind |-> "entries",
     entries |-> [k \in DOMAIN entries |-> Entry(entries[k].blob, entries[k].ack, 0)]]
SyncRequest(i, known) == [kind |-> "syncRequest", from |-> i, known |-> known]
PersistedVector(vector) == [kind |-> "persisted", vector |-> vector]

Enqueue(i, blobs) ==
    queue' = IF active[i] THEN [queue EXCEPT ![i] = @ \o blobs] ELSE queue

----------------------------------------------------------------------------
(* Loading (rooms.ts, load) *)

\* Subscribed, and the latest snapshot was read.
LoadSnapshot(i) ==
    /\ phase[i] = "down"
    /\ phase' = [phase EXCEPT ![i] = "loading"]
    /\ log' = [log EXCEPT ![i] = [@ EXCEPT !.upto = snapUpto, !.snapshot = snapState]]
    /\ listening' = [listening EXCEPT ![i] = TRUE]
    /\ UNCHANGED <<databaseVars, lease, home, queueVars, told, snapshotVars, inbox,
                   streamVars, faultVars>>

\* The live updates were read: the room has a log.
LoadUpdates(i) ==
    LET live == {s \in DOMAIN rows : s > snapUpto /\ s > log[i].upto}
    IN /\ phase[i] = "loading"
       /\ phase' = [phase EXCEPT ![i] = "leasing"]
       /\ log' = [log EXCEPT ![i] = Loaded(@, rows, live)]
       /\ UNCHANGED <<databaseVars, lease, home, queueVars, told, snapshotVars, busVars,
                      streamVars, faultVars>>

\* The lease was asked for, and the write queue made: the room handles what Redis has delivered
\* meanwhile ...
AskLease(i) ==
    /\ phase[i] = "leasing"
    /\ phase' = [phase EXCEPT ![i] = "draining"]
    /\ active' = [active EXCEPT ![i] = (lease = NoRoom)]
    /\ lease' = IF lease = NoRoom THEN i ELSE lease
    /\ UNCHANGED <<databaseVars, home, log, catching, queue, batch, firstSeq, marker, told,
                   snapshotVars, busVars, streamVars, faultVars>>

\* ... opens, and asks the other instances for what it lacks.
FinishLoading(i) ==
    /\ phase[i] = "draining" /\ inbox[i] = <<>>
    /\ phase' = [phase EXCEPT ![i] = "open"]
    /\ Publish(i, <<>>, <<SyncRequest(i, log[i].known)>>)
    /\ UNCHANGED <<databaseVars, lease, home, log, queueVars, told, snapshotVars, listening,
                   streamVars, faultVars>>

----------------------------------------------------------------------------
(* Members *)

\* welcome: a new member is sent the board and its entry of the persisted vector.
Welcome(i, p) ==
    /\ phase[i] = "open"
    /\ opened < MaxConnections /\ p = opened + 1
    /\ opened' = p
    /\ home' = [home EXCEPT ![p] = i]
    /\ member' = member \cup {p} /\ reading' = reading \cup {p}
    /\ down' = [down EXCEPT ![p] = <<EncryptedState(Content(log[i])), Persisted(told[i][p])>>]
    /\ UNCHANGED <<databaseVars, lease, phase, log, queueVars, told, snapshotVars, busVars,
                   up, faultVars>>

\* receiveUpdate: an envelope comes with its counter; one that is known changes nothing.
ReceiveUpdate(p) ==
    LET i == home[p]
        blob == Head(up[p]).blob
        new == <<Entry(blob, blob.n, 0)>>
    IN /\ p \in member /\ up[p] /= <<>> /\ Head(up[p]).type = "update"
       /\ up' = [up EXCEPT ![p] = Tail(@)]
       /\ IF blob \in log[i].known THEN UNCHANGED <<log, down, queue, inbox>>
          ELSE /\ log' = [log EXCEPT ![i] = Add(@, new)]
               /\ Deliver(i, [q \in Connections |->
                                IF q = p THEN <<>> ELSE <<ServerUpdate(blob)>>])
               /\ Enqueue(i, <<blob>>)
               /\ Publish(i, inbox[i], <<Entries(new)>>)
       /\ UNCHANGED <<databaseVars, lease, phase, home, active, catching, batch, firstSeq,
                      marker, told, snapshotVars, listening, opened, reading, member,
                      faultVars>>

\* The request a reply answers.  Mutant: any reply of the client that was asked.
AnyRequest(i, p, id) == {r \in request[i] : r.peer = p}
Answered(i, p, id) == {r \in request[i] : r.peer = p /\ r.id = id}

\* receiveSnapshot, up to its await: accepted from the client that was asked, for the
\* request it was asked.
ReceiveSnapshot(p) ==
    LET i == home[p]
        reply == Head(up[p])
        answered == Answered(i, p, reply.id)
    IN /\ p \in member /\ up[p] /= <<>> /\ Head(up[p]).type = "snapshot"
       /\ up' = [up EXCEPT ![p] = Tail(@)]
       /\ request' = [request EXCEPT ![i] = @ \ answered]
       /\ installing' = [installing EXCEPT ![i] = @ \cup
            {[id |-> r.id, upto |-> r.upto, edits |-> reply.edits, done |-> FALSE] : r \in answered}]
       /\ UNCHANGED <<databaseVars, lease, phase, home, log, queueVars, told, starting,
                      asked, busVars, opened, reading, member, down, faultVars>>

\* removeMember: the server notices that the client is gone.
RemoveMember(p) ==
    /\ p \in member \ reading
    /\ member' = member \ {p}
    /\ up' = [up EXCEPT ![p] = <<>>]
    /\ request' = [request EXCEPT ![home[p]] = {r \in @ : r.peer /= p}]
    /\ UNCHANGED <<databaseVars, lease, phase, home, log, queueVars, told, starting,
                   installing, asked, busVars, opened, reading, down, faultVars>>

----------------------------------------------------------------------------
(* The write queue (roomPersistence.ts over this content) *)

\* The whole queue is cut, and with it everything that was counted.
Flush(i) ==
    /\ phase[i] = "open" /\ active[i] /\ ~catching[i]
    /\ batch[i] = <<>> /\ queue[i] /= <<>>
    /\ batch' = [batch EXCEPT ![i] = queue[i]]
    /\ queue' = [queue EXCEPT ![i] = <<>>]
    /\ marker' = [marker EXCEPT ![i] = log[i].acks]
    /\ UNCHANGED <<databaseVars, lease, phase, home, log, active, catching, firstSeq, told,
                   snapshotVars, busVars, streamVars, faultVars>>

AppendCommits(i) ==
    /\ batch[i] /= <<>> /\ firstSeq[i] = 0
    /\ rows' = rows \o batch[i]
    /\ firstSeq' = [firstSeq EXCEPT ![i] = Len(rows) + 1]
    /\ UNCHANGED <<snapUpto, snapState, forgotten, hidden, lease, phase, home, log, active,
                   catching, queue, batch, marker, told, snapshotVars, busVars, streamVars,
                   faultVars>>

\* markPersisted by the writer: members and the other instances are told.
MarkPersisted(i, rest, vector) ==
    LET merged == MergeStateVectors(told[i], vector)
    IN /\ told' = [told EXCEPT ![i] = merged]
       /\ Deliver(i, [p \in Connections |-> <<Persisted(merged[p])>>])
       /\ Publish(i, rest, <<PersistedVector(vector)>>)

\* What a commit makes known.  Mutant: nothing new.
AlreadyTold(i) == told[i]
Marker(i) == marker[i]

AppendReturns(i) ==
    /\ firstSeq[i] /= 0
    /\ log' = [log EXCEPT ![i] = Committed(@, batch[i], firstSeq[i])]
    /\ MarkPersisted(i, inbox[i], Marker(i))
    /\ batch' = [batch EXCEPT ![i] = <<>>]
    /\ firstSeq' = [firstSeq EXCEPT ![i] = 0]
    /\ marker' = [marker EXCEPT ![i] = NoCounters]
    /\ UNCHANGED <<databaseVars, lease, phase, home, active, catching, queue, snapshotVars,
                   listening, opened, reading, member, up, faultVars>>

\* The append failed, or its reply was lost.
AppendFails(i) ==
    /\ batch[i] /= <<>>
    /\ firstSeq[i] = 0 \/ Len(rows) < MaxSeq
    /\ queue' = [queue EXCEPT ![i] = batch[i] \o @]
    /\ batch' = [batch EXCEPT ![i] = <<>>]
    /\ firstSeq' = [firstSeq EXCEPT ![i] = 0]
    /\ marker' = [marker EXCEPT ![i] = NoCounters]
    /\ UNCHANGED <<databaseVars, lease, phase, home, log, active, catching, told,
                   snapshotVars, busVars, streamVars, faultVars>>

\* activate: the lease was free.
TakeLease(i) ==
    /\ phase[i] = "open" /\ lease = NoRoom /\ ~active[i]
    /\ lease' = i
    /\ active' = [active EXCEPT ![i] = TRUE]
    /\ catching' = [catching EXCEPT ![i] = TRUE]
    /\ UNCHANGED <<databaseVars, phase, home, log, queue, batch, firstSeq, marker, told,
                   snapshotVars, busVars, streamVars, faultVars>>

\* catchUp: entries the rows do not hold are queued first; if there are none and the queue
\* is empty, everything counted is stored.
CatchUp(i) ==
    LET tagged == Tagged(log[i], rows)
        missing == Unstored(tagged)
    IN /\ catching[i]
       /\ catching' = [catching EXCEPT ![i] = FALSE]
       /\ log' = [log EXCEPT ![i] = tagged]
       /\ queue' = [queue EXCEPT ![i] = missing \o @]
       /\ IF missing = <<>> /\ queue[i] = <<>>
          THEN MarkPersisted(i, inbox[i], tagged.acks)
          ELSE UNCHANGED <<told, down, inbox>>
       /\ UNCHANGED <<databaseVars, lease, phase, home, active, batch, firstSeq, marker,
                      snapshotVars, listening, opened, reading, member, up, faultVars>>

\* catchUp when the rows cannot be read: fullState is queued.
CatchUpFails(i) ==
    /\ catching[i]
    /\ catching' = [catching EXCEPT ![i] = FALSE]
    /\ queue' = [queue EXCEPT ![i] = Unstored(log[i]) \o @]
    /\ UNCHANGED <<databaseVars, lease, phase, home, log, active, batch, firstSeq, marker,
                   told, snapshotVars, busVars, streamVars, faultVars>>

----------------------------------------------------------------------------
(* Snapshots *)

\* requestSnapshot, up to its await.
RequestSnapshot(i) ==
    /\ phase[i] = "open" /\ active[i] /\ asked < MaxRequests
    /\ request[i] = {} /\ starting[i] = {}
    /\ log[i].last > log[i].upto /\ MembersOf(i) /= {}
    /\ starting' = [starting EXCEPT ![i] = {[upto |-> log[i].last, covered |-> log[i].upto]}]
    /\ UNCHANGED <<databaseVars, lease, phase, home, log, queueVars, told, request,
                   installing, asked, busVars, streamVars, faultVars>>

\* Stored rows up to the request's seq that this room has never seen.  Mutant: none is
\* looked for.
NoUnseen(i, start) == <<>>
Unseen(i, start) ==
    RowEntries(log[i], rows, {s \in DOMAIN rows : start.covered < s /\ s <= start.upto})

\* requestSnapshot after updatesSince: they are added and relayed, then a member is asked.
AskClient(i) ==
    \E start \in starting[i] :
        LET relayed == Updates(BlobsOf(Unseen(i, start)))
            id == asked + 1
        IN /\ starting' = [starting EXCEPT ![i] = {}]
           /\ log' = [log EXCEPT ![i] = Add(@, Unseen(i, start))]
           /\ \/ /\ MembersOf(i) = {}
                 /\ UNCHANGED <<request, asked, down>>
              \/ \E p \in MembersOf(i) :
                    /\ asked' = id
                    /\ request' = [request EXCEPT ![i] =
                                    {[id |-> id, upto |-> start.upto, peer |-> p]}]
                    /\ Deliver(i, [q \in Connections |->
                                    IF q = p THEN relayed \o <<SnapshotRequest(id)>>
                                    ELSE relayed])
           /\ UNCHANGED <<databaseVars, lease, phase, home, queueVars, told, installing,
                          busVars, opened, reading, member, up, faultVars>>

\* updatesSince failed.
AskFails(i) ==
    /\ starting[i] /= {}
    /\ starting' = [starting EXCEPT ![i] = {}]
    /\ UNCHANGED <<databaseVars, lease, phase, home, log, queueVars, told, request, installing,
                   asked, busVars, streamVars, faultVars>>

RequestTimesOut(i) ==
    /\ request[i] /= {}
    /\ request' = [request EXCEPT ![i] = {}]
    /\ UNCHANGED <<databaseVars, lease, phase, home, log, queueVars, told, starting,
                   installing, asked, busVars, streamVars, faultVars>>

\* repository.installSnapshot: refused unless newer than the latest (see BoardRepository), which
\* it replaces.  The request was cleared before the await, so several calls may be at theirs, and
\* any of them goes on.
InstallCommits(i) ==
    /\ \E s \in installing[i] :
        /\ ~s.done
        /\ IF s.upto > snapUpto /\ s.upto <= Len(rows)
           THEN /\ snapUpto' = s.upto /\ snapState' = s.edits
                /\ forgotten' = forgotten \cup (snapState \ (s.edits \cup Plain(Range(rows))))
                /\ installing' = [installing EXCEPT ![i] = (@ \ {s}) \cup {[s EXCEPT !.done = TRUE]}]
           ELSE /\ installing' = [installing EXCEPT ![i] = @ \ {s}]
                /\ UNCHANGED <<snapUpto, snapState, forgotten>>
    /\ UNCHANGED <<rows, hidden, lease, phase, home, log, queueVars, told, request, starting, asked,
                   busVars, streamVars, faultVars>>

\* What the log forgets with an older snapshot than it has: the entries after it are gone.
Hides(i, s) == {rows[n] : n \in {m \in DOMAIN rows : s.upto < m /\ m <= log[i].upto}}

\* receiveSnapshot after its install: log.installSnapshot takes the snapshot as it comes, one
\* older than the log's too when the replies of two calls overtake each other.
InstallReturns(i) ==
    /\ \E s \in installing[i] :
        /\ s.done
        /\ log' = [log EXCEPT ![i] = Install(@, s.upto, s.edits)]
        /\ hidden' = hidden \cup Hides(i, s)
        /\ installing' = [installing EXCEPT ![i] = @ \ {s}]
    /\ UNCHANGED <<rows, snapUpto, snapState, forgotten, lease, phase, home, queueVars, told,
                   request, starting, asked, busVars, streamVars, faultVars>>

\* The install failed, or its reply was lost after it had committed: it is logged only.
InstallFails(i) ==
    /\ \E s \in installing[i] : installing' = [installing EXCEPT ![i] = @ \ {s}]
    /\ UNCHANGED <<databaseVars, lease, phase, home, log, queueVars, told, request, starting,
                   asked, busVars, streamVars, faultVars>>

----------------------------------------------------------------------------
(* The bus (handleCluster, answerSyncRequest, requestSync) *)

\* update and syncReply: what is new is relayed to the members and queued by the writer.
HandleEntries(i) ==
    LET m == Head(inbox[i])
        new == Picked(m.entries, FirstOnes(log[i], m.entries))
    IN /\ inbox[i] /= <<>> /\ m.kind = "entries" /\ phase[i] \in {"draining", "open"}
       /\ inbox' = [inbox EXCEPT ![i] = Tail(@)]
       /\ log' = [log EXCEPT ![i] = Add(@, new)]
       /\ Deliver(i, [p \in Connections |-> Updates(BlobsOf(new))])
       /\ Enqueue(i, BlobsOf(new))
       /\ UNCHANGED <<databaseVars, lease, phase, home, active, catching, batch, firstSeq,
                      marker, told, snapshotVars, listening, opened, reading, member, up,
                      faultVars>>

\* What an instance sends another one for the envelopes it knows.
Lacking(i, known) ==
    LET entries == log[i].entries
        lacking == {k \in DOMAIN entries : entries[k].blob \notin known}
    IN IF lacking = {} THEN <<>> ELSE <<Entries(Picked(entries, lacking))>>

\* Mutant: what the other one knows and we do not is not asked for.
AskNothing(i, known) == <<>>
AskToo(i, known) ==
    IF known \subseteq log[i].known THEN <<>> ELSE <<SyncRequest(i, log[i].known)>>

HandleSyncRequest(i) ==
    LET m == Head(inbox[i])
    IN /\ inbox[i] /= <<>> /\ m.kind = "syncRequest" /\ phase[i] \in {"draining", "open"}
       /\ inbox' = [j \in Instances |->
            IF j = i THEN Tail(inbox[i])
            ELSE IF ~listening[j] THEN inbox[j]
            ELSE IF j = m.from THEN inbox[j] \o Lacking(i, m.known) \o AskToo(i, m.known)
            ELSE inbox[j] \o AskToo(i, m.known)]
       /\ UNCHANGED <<databaseVars, lease, phase, home, log, queueVars, told, snapshotVars,
                      listening, streamVars, faultVars>>

\* persisted: while we write ourselves, only our own commits count.
HandlePersistedVector(i) ==
    LET m == Head(inbox[i])
        merged == MergeStateVectors(told[i], m.vector)
    IN /\ inbox[i] /= <<>> /\ m.kind = "persisted" /\ phase[i] \in {"draining", "open"}
       /\ inbox' = [inbox EXCEPT ![i] = Tail(@)]
       /\ IF active[i] THEN UNCHANGED <<told, down>>
          ELSE /\ told' = [told EXCEPT ![i] = merged]
               /\ Deliver(i, [p \in Connections |-> <<Persisted(merged[p])>>])
       /\ UNCHANGED <<databaseVars, lease, phase, home, log, queueVars, snapshotVars,
                      listening, opened, reading, member, up, faultVars>>

\* The subscription breaks: what is published until it is back is gone (what was on its way
\* then counts as published after).
LoseBus(i) ==
    /\ listening[i] /\ outages < MaxOutages
    /\ outages' = outages + 1
    /\ listening' = [listening EXCEPT ![i] = FALSE]
    /\ UNCHANGED <<databaseVars, lease, phase, home, log, queueVars, told, snapshotVars,
                   inbox, streamVars, crashes, resyncs, late>>

\* ... and comes back: an open room, which has handled what came before, asks for what it missed.
RegainBus(i) ==
    /\ phase[i] /= "down" /\ ~listening[i]
    /\ phase[i] = "open" => inbox[i] = <<>>
    /\ listening' = [listening EXCEPT ![i] = TRUE]
    /\ IF phase[i] = "open" THEN Publish(i, inbox[i], <<SyncRequest(i, log[i].known)>>)
       ELSE UNCHANGED inbox
    /\ UNCHANGED <<databaseVars, lease, phase, home, log, queueVars, told, snapshotVars,
                   streamVars, faultVars>>

\* resyncAll, every resyncMs.
Resync(i) ==
    /\ phase[i] = "open" /\ resyncs < MaxResyncs
    /\ resyncs' = resyncs + 1
    /\ Publish(i, inbox[i], <<SyncRequest(i, log[i].known)>>)
    /\ UNCHANGED <<databaseVars, lease, phase, home, log, queueVars, told, snapshotVars,
                   listening, streamVars, crashes, outages, late>>

\* The process dies; Postgres may still commit what it was sent.
Crash(i) ==
    /\ phase[i] /= "down" /\ crashes < MaxCrashes
    /\ crashes' = crashes + 1
    /\ late' = IF batch[i] /= <<>> /\ firstSeq[i] = 0 THEN late \cup {batch[i]} ELSE late
    /\ phase' = [phase EXCEPT ![i] = "down"]
    /\ lease' = IF lease = i THEN NoRoom ELSE lease
    /\ log' = [log EXCEPT ![i] = EmptyLog]
    /\ active' = [active EXCEPT ![i] = FALSE] /\ catching' = [catching EXCEPT ![i] = FALSE]
    /\ queue' = [queue EXCEPT ![i] = <<>>] /\ batch' = [batch EXCEPT ![i] = <<>>]
    /\ firstSeq' = [firstSeq EXCEPT ![i] = 0]
    /\ marker' = [marker EXCEPT ![i] = NoCounters] /\ told' = [told EXCEPT ![i] = NoCounters]
    /\ request' = [request EXCEPT ![i] = {}] /\ starting' = [starting EXCEPT ![i] = {}]
    /\ installing' = [installing EXCEPT ![i] = {}]
    /\ inbox' = [inbox EXCEPT ![i] = <<>>] /\ listening' = [listening EXCEPT ![i] = FALSE]
    /\ member' = member \ MembersOf(i)
    /\ up' = [p \in Connections |-> IF p \in MembersOf(i) THEN <<>> ELSE up[p]]
    /\ UNCHANGED <<databaseVars, home, asked, opened, reading, down, outages, resyncs>>

LateCommit ==
    \E append \in late :
        /\ rows' = rows \o append
        /\ late' = late \ {append}
        /\ UNCHANGED <<snapUpto, snapState, forgotten, hidden, lease, phase, home, log,
                       queueVars, told, snapshotVars, busVars, streamVars, crashes, outages,
                       resyncs>>
=============================================================================
