------------------------- MODULE EncryptedProvider -------------------------
(* The client of a private board                                              *)
(* (packages/shared/src/sync/encryptedProvider.ts, EncryptedSyncProvider).    *)
(*                                                                            *)
(* Incoming messages are decrypted and handled one at a time, in order, and   *)
(* dropped if their connection is gone: handling the head of `down` is one    *)
(* step.  Outgoing ones wait in `sending` for their encryption; the           *)
(* connection they were meant for stands for the provider's generation.       *)
(* Presence is not modelled, and the key is right.                            *)
EXTENDS EncryptedProtocol

VARIABLES
    doc,        \* content of each client's Y.Doc
    conn,       \* its connection, NoConnection while there is none
    synced,     \* the stored board was received and applied on this connection
    counter,    \* last update counter used on this connection
    confirmed,  \* persistedCounter: the highest one the server said is stored
    unsent,     \* local edits not sent on this connection
    pending,    \* edits of the current frame
    sending,    \* enqueueSend's queue: updates and snapshot replies
    sent        \* history: every update ever sent

providerVars == <<doc, conn, synced, counter, confirmed, unsent, pending, sending, sent>>

ProviderInit ==
    /\ doc = [c \in Clients |-> {}]
    /\ conn = [c \in Clients |-> NoConnection]
    /\ synced = [c \in Clients |-> FALSE]
    /\ counter = [c \in Clients |-> 0]
    /\ confirmed = [c \in Clients |-> 0]
    /\ unsent = [c \in Clients |-> FALSE]
    /\ pending = [c \in Clients |-> {}]
    /\ sending = [c \in Clients |-> <<>>]
    /\ sent = {}

Update(c, edits) == [conn |-> conn[c], type |-> "update", edits |-> edits]
Snapshot(c, id) == [conn |-> conn[c], type |-> "snapshot", id |-> id, edits |-> doc[c]]

\* inflight > 0: updates being encrypted, those of an old connection included.
Inflight(c) == \E i \in DOMAIN sending[c] : sending[c][i].type = "update"

\* recomputeSaveState: what the user is shown.  Mutant: what is being encrypted is forgotten.
SavedWithoutQueue(c) == ~unsent[c] /\ pending[c] = {} /\ confirmed[c] >= counter[c]
Saved(c) ==
    ~unsent[c] /\ pending[c] = {} /\ ~Inflight(c) /\ confirmed[c] >= counter[c]

\* handleDocUpdate: the user edits.
Edit(c, e) ==
    /\ e \in Edits \ doc[c] /\ Author[e] = c
    /\ doc' = [doc EXCEPT ![c] = @ \cup {e}]
    /\ IF conn[c] = NoConnection \/ ~synced[c]
       THEN unsent' = [unsent EXCEPT ![c] = TRUE] /\ UNCHANGED pending
       ELSE pending' = [pending EXCEPT ![c] = @ \cup {e}] /\ UNCHANGED unsent
    /\ UNCHANGED <<conn, synced, counter, confirmed, sending, sent, streamVars>>

\* The frame is over: its edits are merged into one update.
FlushFrame(c) ==
    /\ pending[c] /= {}
    /\ sending' = [sending EXCEPT ![c] = Append(@, Update(c, pending[c]))]
    /\ pending' = [pending EXCEPT ![c] = {}]
    /\ UNCHANGED <<doc, conn, synced, counter, confirmed, unsent, sent, streamVars>>

\* The head of the queue is encrypted: it is sent if its connection is still there.
SendNext(c) ==
    /\ sending[c] /= <<>>
    /\ sending' = [sending EXCEPT ![c] = Tail(@)]
    /\ LET item == Head(sending[c])
           n == counter[c] + 1
       IN IF item.conn /= conn[c]
          THEN UNCHANGED <<counter, sent, up>>
          ELSE IF item.type = "update"
          THEN /\ counter' = [counter EXCEPT ![c] = n]
               /\ sent' = sent \cup {Blob(conn[c], n, item.edits)}
               /\ up' = [up EXCEPT ![conn[c]] =
                            Append(@, ClientUpdate(Blob(conn[c], n, item.edits)))]
          ELSE /\ up' = [up EXCEPT ![conn[c]] = Append(@, SnapshotReply(item.id, item.edits))]
               /\ UNCHANGED <<counter, sent>>
    /\ UNCHANGED <<doc, conn, synced, confirmed, unsent, pending, opened, reading, member, down>>

\* What the server lacks of our document.  Mutant: nothing is sent back.
NothingMissing(c, edits) == {}
Missing(c, edits) == doc[c] \ edits

\* handle(MESSAGE_ENC_STATE)
HandleState(c, m) ==
    /\ doc' = [doc EXCEPT ![c] = @ \cup m.edits]
    /\ synced' = [synced EXCEPT ![c] = TRUE]
    /\ unsent' = [unsent EXCEPT ![c] = FALSE]
    /\ sending' = IF Missing(c, m.edits) = {} THEN sending
                  ELSE [sending EXCEPT ![c] = Append(@, Update(c, Missing(c, m.edits)))]
    /\ UNCHANGED confirmed

\* handle(MESSAGE_ENC_UPDATE)
HandleUpdate(c, m) ==
    /\ doc' = [doc EXCEPT ![c] = @ \cup m.edits]
    /\ UNCHANGED <<synced, confirmed, unsent, sending>>

\* handle(MESSAGE_PERSISTED): our entry of the vector.
HandlePersisted(c, m) ==
    /\ confirmed' = [confirmed EXCEPT ![c] = m.n]
    /\ UNCHANGED <<doc, synced, unsent, sending>>

\* handle(MESSAGE_ENC_SNAPSHOT_REQUEST): the document is captured now, in message order.
HandleRequest(c, m) ==
    /\ sending' = IF synced[c] THEN [sending EXCEPT ![c] = Append(@, Snapshot(c, m.id))]
                  ELSE sending
    /\ UNCHANGED <<doc, synced, confirmed, unsent>>

\* onMessage: the next message of the connection is decrypted and handled.
HandleNext(c) ==
    /\ conn[c] /= NoConnection /\ down[conn[c]] /= <<>>
    /\ LET m == Head(down[conn[c]])
       IN \/ m.type = "state" /\ HandleState(c, m)
          \/ m.type = "update" /\ HandleUpdate(c, m)
          \/ m.type = "persisted" /\ HandlePersisted(c, m)
          \/ m.type = "request" /\ HandleRequest(c, m)
    /\ down' = [down EXCEPT ![conn[c]] = Tail(@)]
    /\ UNCHANGED <<conn, counter, pending, sent, opened, reading, member, up>>

\* What is not confirmed on this connection is sent again on the next.
Unconfirmed(c) == pending[c] /= {} \/ Inflight(c) \/ counter[c] > confirmed[c]

\* onDisconnected: the socket is gone, or this side gave it up.
Disconnect(c) ==
    /\ conn[c] /= NoConnection
    /\ unsent' = [unsent EXCEPT ![c] = @ \/ Unconfirmed(c)]
    /\ pending' = [pending EXCEPT ![c] = {}]
    /\ synced' = [synced EXCEPT ![c] = FALSE]
    /\ counter' = [counter EXCEPT ![c] = 0]
    /\ confirmed' = [confirmed EXCEPT ![c] = 0]
    /\ conn' = [conn EXCEPT ![c] = NoConnection]
    /\ reading' = reading \ {conn[c]}
    /\ down' = [down EXCEPT ![conn[c]] = <<>>]
    /\ UNCHANGED <<doc, sending, sent, opened, member, up>>
=============================================================================
