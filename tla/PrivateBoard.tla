---------------------------- MODULE PrivateBoard ----------------------------
(* A private board: its clients (EncryptedProvider), the rooms of the server  *)
(* instances (EncryptedRoom), and the connections between them.               *)
EXTENDS EncryptedRoom, EncryptedProvider

VARIABLE
    resumed    \* history: clients that connected again after an edit of theirs was sent

vars == <<streamVars, providerVars, roomVars, resumed>>

Init ==
    /\ opened = 0 /\ reading = {} /\ member = {}
    /\ up = [p \in Connections |-> <<>>] /\ down = [p \in Connections |-> <<>>]
    /\ ProviderInit /\ RoomInit
    /\ resumed = {}

\* The client's socket opens; the loaded room welcomes it.
Connect(c, i) ==
    /\ conn[c] = NoConnection
    /\ Welcome(i, opened + 1)
    /\ conn' = [conn EXCEPT ![c] = opened + 1]
    /\ resumed' = IF \E blob \in sent : \E e \in blob.edits \ Earlier : Author[e] = c
                  THEN resumed \cup {c} ELSE resumed
    /\ UNCHANGED <<doc, synced, counter, confirmed, unsent, pending, sending, sent>>

ClientStep(c) ==
    /\ \/ \E e \in Edits : Edit(c, e)
       \/ FlushFrame(c) \/ SendNext(c) \/ HandleNext(c) \/ Disconnect(c)
    /\ UNCHANGED <<roomVars, resumed>>

RoomStep(i) ==
    /\ \/ LoadSnapshot(i) \/ LoadUpdates(i) \/ AskLease(i) \/ FinishLoading(i)
       \/ Flush(i) \/ AppendCommits(i) \/ AppendReturns(i) \/ AppendFails(i)
       \/ TakeLease(i) \/ CatchUp(i) \/ CatchUpFails(i)
       \/ RequestSnapshot(i) \/ AskClient(i) \/ AskFails(i) \/ RequestTimesOut(i)
       \/ InstallCommits(i) \/ InstallReturns(i) \/ InstallFails(i)
       \/ HandleEntries(i) \/ HandleSyncRequest(i) \/ HandlePersistedVector(i)
       \/ LoseBus(i) \/ RegainBus(i) \/ Resync(i) \/ Crash(i)
    /\ UNCHANGED <<providerVars, resumed>>

MemberStep(p) ==
    /\ ReceiveUpdate(p) \/ ReceiveSnapshot(p) \/ RemoveMember(p)
    /\ UNCHANGED <<providerVars, resumed>>

Next ==
    \/ \E c \in Clients : ClientStep(c) \/ \E i \in Instances : Connect(c, i)
    \/ \E i \in Instances : RoomStep(i)
    \/ \E p \in Connections : MemberStep(p)
    \/ LateCommit /\ UNCHANGED <<providerVars, resumed>>

Spec == Init /\ [][Next]_vars

----------------------------------------------------------------------------
(* Properties *)

OwnEdits(c) == {e \in doc[c] \ Earlier : Author[e] = c}

\* What was stored once: only what clients captured in a snapshot and did not send can be
\* forgotten, by a snapshot of a client that never saw it.
Kept == Stored \cup forgotten

\* A client on its first connection since it wrote that is told everything is saved has its
\* edits in the database.
SavedIsStoredUnlessResumed ==
    \A c \in Clients \ resumed : Saved(c) => OwnEdits(c) \subseteq Kept

\* A client's snapshot holds every stored update it replaces: it was asked for a seq only
\* after it had been sent all of them, and answered with what it had then.  Only an envelope that
\* its room had hidden, when an older snapshot arrived after a newer one, may be missing
\* (encryptedRoom.ts, receiveSnapshot).
SnapshotCoversUnlessHidden ==
    \A s \in 1..snapUpto : rows[s] \in hidden \/ rows[s].edits \subseteq snapState

\* A synced client that is told everything is saved has at least been heard: its room or the
\* database has its edits, those it made offline included.
SavedIsReceived ==
    \A c \in Clients :
        conn[c] \in member /\ synced[c] /\ Saved(c)
            => OwnEdits(c) \subseteq Content(log[home[conn[c]]]) \cup Kept

\* Nothing is under way any more: no message, no write, no catch-up, no lost subscription; the
\* periodic requests were made.
Quiet ==
    /\ \A i \in Instances :
        /\ phase[i] \in {"down", "open"}
        /\ inbox[i] = <<>> /\ queue[i] = <<>> /\ batch[i] = <<>> /\ ~catching[i]
        /\ starting[i] = {} /\ installing[i] = {}
        /\ phase[i] = "open" => listening[i]
    /\ \A c \in Clients : sending[c] = <<>> /\ pending[c] = {}
    /\ \A p \in member : up[p] = <<>> /\ down[p] = <<>>
    /\ lease /= NoRoom /\ resyncs = MaxResyncs

\* All rooms hold the same board and all connected clients show it.
Agree ==
    /\ \A i, j \in {k \in Instances : phase[k] = "open"} : Content(log[i]) = Content(log[j])
    /\ \A c \in Clients : conn[c] \in member => doc[c] = Content(log[home[conn[c]]])

\* When all is quiet, what a client wrote on an earlier connection or another instance, and what
\* a broken subscription missed, has reached everybody, whether or not a periodic sync request
\* came in time (encryptedRoom.ts, answerSyncRequest; rooms.ts, resyncAll).
Converged == Quiet => Agree

\* When all is quiet no client waits for an acknowledgement any more ("or our clients would wait for
\* an acknowledgement forever": roomPersistence.ts, catchUp).
NobodyWaits == Quiet => \A c \in Clients : conn[c] \in member => Saved(c)
=============================================================================
