------------------------------ MODULE CipherLog ------------------------------
(* The content of a private room: the latest encrypted snapshot and the       *)
(* envelopes after it (apps/server/src/sync/encryptedRoom.ts, class           *)
(* CipherLog).  A log is a record and an operation gives the log after it.    *)
(* Rows are what board_updates and its archive hold, in seq order: seq n is   *)
(* the n-th row.                                                              *)
EXTENDS EncryptedProtocol, SequencesExt

\* A vector of counters, one per connection.
NoCounters == [p \in Connections |-> 0]
MergeStateVectors(a, b) == [p \in Connections |-> IF a[p] >= b[p] THEN a[p] ELSE b[p]]

\* ack: the counter its client attached to it, 0 if it came without; seq 0: not known to be
\* stored.
Entry(blob, ack, seq) == [blob |-> blob, ack |-> ack, seq |-> seq]
BlobsOf(entries) == [k \in DOMAIN entries |-> entries[k].blob]

EmptyLog ==
    [upto |-> 0, snapshot |-> {}, entries |-> <<>>, known |-> {}, acks |-> NoCounters,
     last |-> 0]

\* What the log's holder can show of the board.
Content(log) == log.snapshot \cup Plain(Range(BlobsOf(log.entries)))

\* The elements of a finite set of numbers from the least to the greatest, and those of a
\* sequence at such positions.
Ascending(S) ==
    CHOOSE q \in [1..Cardinality(S) -> S] :
        Range(q) = S /\ \A j, k \in DOMAIN q : j < k => q[j] < q[k]
Picked(s, positions) ==
    LET q == Ascending(positions) IN [k \in DOMAIN q |-> s[q[k]]]

\* acks: the highest counter seen per peer.
Acked(acks, new) ==
    [p \in Connections |->
        Max({acks[p]} \cup {e.ack : e \in {f \in Range(new) : f.blob.conn = p}})]

\* add: a known entry changes nothing, whether or not it comes with its counter this time; the
\* new ones among `entries` are ...
FirstOnes(log, entries) ==
    {k \in DOMAIN entries :
        /\ entries[k].blob \notin log.known
        /\ \A j \in DOMAIN entries : j < k => entries[j].blob /= entries[k].blob}

\* ... and these are added.
Add(log, new) ==
    [log EXCEPT !.known = @ \cup Range(BlobsOf(new)),
                !.entries = @ \o new,
                !.acks = Acked(@, new),
                !.last = Max({@} \cup {e.seq : e \in Range(new)})]

\* The stored rows with these seqs that the log does not have, as entries.
RowEntries(log, rows, seqs) ==
    LET first == {s \in seqs :
            /\ rows[s] \notin log.known
            /\ \A t \in seqs : t < s => rows[t] /= rows[s]}
        q == Ascending(first)
    IN [k \in DOMAIN q |-> Entry(rows[q[k]], 0, q[k])]

\* load: the rows after the snapshot; lastCommittedSeq is the last of them.
Loaded(log, rows, seqs) ==
    [Add(log, RowEntries(log, rows, seqs)) EXCEPT !.last = Max({log.upto} \cup seqs)]

\* installSnapshot: entries it covers are forgotten.
Install(log, upto, snapshot) ==
    [log EXCEPT !.upto = upto, !.snapshot = snapshot,
                !.entries = Picked(@, {k \in DOMAIN @ : @[k].seq = 0 \/ @[k].seq > upto})]

\* The seq under which a row holds this envelope: 0 if none does.
StoredSeq(rows, after, blob) ==
    Max({0} \cup {s \in DOMAIN rows : s > after /\ rows[s] = blob})

\* catchUp: entries found among the rows get their seqs, the others are missing.
Tagged(log, rows) ==
    [log EXCEPT !.entries =
        [k \in DOMAIN log.entries |->
            LET entry == log.entries[k]
                seq == StoredSeq(rows, log.upto, entry.blob)
            IN IF seq = 0 THEN entry ELSE [entry EXCEPT !.seq = seq]]]

Unstored(log) ==
    BlobsOf(Picked(log.entries, {k \in DOMAIN log.entries : log.entries[k].seq = 0}))

\* The last seq of a batch.
LastOf(batch, firstSeq) == firstSeq + Len(batch) - 1

\* committed: the batch was stored from this seq on.
Committed(log, batch, firstSeq) ==
    LET lastSeq == LastOf(batch, firstSeq)
        At(blob) == firstSeq - 1 + StoredSeq(batch, 0, blob)
    IN [log EXCEPT
        !.entries = [k \in DOMAIN log.entries |->
            LET entry == log.entries[k]
            IN IF Contains(batch, entry.blob) THEN [entry EXCEPT !.seq = At(entry.blob)]
               ELSE entry],
        !.last = IF lastSeq > @ THEN lastSeq ELSE @]
=============================================================================
