------------------------- MODULE EncryptedProtocol -------------------------
(* What clients and rooms of a private (end-to-end encrypted) board share:    *)
(* connections, the ordered streams of each, and the envelopes they carry     *)
(* (packages/shared/src/sync/encryptedProtocol.ts).                           *)
(*                                                                            *)
(* An envelope has a random IV, so the connection and the counter it was      *)
(* first sent with identify it; its plaintext is the set of edits it carries. *)
(* Edits are independent of each other, and Yjs updates that only hold known  *)
(* edits change nothing.                                                      *)
EXTENDS Naturals, Sequences, FiniteSets

CONSTANTS
    Clients,         \* browsers with the board open
    Edits,           \* what they may write
    Earlier,         \* what an earlier session wrote and stored
    Author,          \* Author[e]: the client that writes e
    MaxConnections   \* bound: connections ever opened, one after the other

ASSUME ProtocolAssumption ==
    /\ Author \in [Edits -> Clients]
    /\ Edits \cap Earlier = {}
    /\ MaxConnections \in Nat

\* Peer ids, random per connection: used once each.
Connections == 1..MaxConnections
NoConnection == 0

VARIABLES
    opened,  \* connections opened so far
    reading, \* connections whose client still has them
    member,  \* connections the server has among a room's members
    up,      \* per connection: what the client sent and the room has not handled
    down     \* per connection: what the room sent and the client has not handled

streamVars == <<opened, reading, member, up, down>>

Written == Edits \cup Earlier
EarlierRows == IF Earlier = {} THEN <<>> ELSE <<[conn |-> NoConnection, n |-> 1, edits |-> Earlier]>>

Blob(p, n, edits) == [conn |-> p, n |-> n, edits |-> edits]
Blobs == [conn : Connections \cup {NoConnection}, n : Nat, edits : SUBSET Written]

\* Everything a set of blobs carries.
Plain(blobs) == UNION {blob.edits : blob \in blobs}

ClientUpdate(blob) == [type |-> "update", blob |-> blob]
SnapshotReply(id, edits) == [type |-> "snapshot", id |-> id, edits |-> edits]
EncryptedState(edits) == [type |-> "state", edits |-> edits]
ServerUpdate(blob) == [type |-> "update", edits |-> blob.edits]
Persisted(n) == [type |-> "persisted", n |-> n]
SnapshotRequest(id) == [type |-> "request", id |-> id]
=============================================================================
