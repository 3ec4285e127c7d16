--------------------------- MODULE BoardRepository ---------------------------
(* One board in Postgres, as apps/server/src/persistence/pgRepository.ts keeps *)
(* it: the board's row with its seq counter, the live updates, the archive of  *)
(* compacted ones, and the snapshots.  Appends, compactions and client-made    *)
(* snapshots lock the row, so each is one step.  Readers lock nothing: a load  *)
(* is three statements and updatesSince two, and another instance's writes may *)
(* commit between them.                                                        *)
(*                                                                             *)
(* An update is an opaque payload; a snapshot's state is the set of payloads   *)
(* merged into it.                                                             *)
EXTENDS Integers, Sequences, FiniteSets

CONSTANTS
    Updates,    \* payloads
    Template,   \* payloads of the seq-0 snapshot a copy or a template starts from
    IsPrivate,  \* boards.is_private: updates are ciphertext, never merged here
    Readers,    \* readers that may be in the middle of a load or an updatesSince
    MaxBatch,   \* bound: updates in one append
    MaxSeq      \* bound: the board's last_seq

ASSUME RepositoryAssumption ==
    /\ Template \subseteq Updates
    /\ IsPrivate \in BOOLEAN
    /\ MaxBatch \in Nat /\ MaxSeq \in Nat

VARIABLES
    row,        \* "live", "trashed" (deleted_at is set) or "purged"
    lastSeq,    \* boards.last_seq
    live,       \* board_updates: seq -> update
    archive,    \* board_update_archive: seq -> update
    snapshots,  \* board_snapshots: seq_upto -> state
    reader      \* per reader: the statement it is at and what it got so far

tables == <<lastSeq, live, archive, snapshots>>
vars == <<row, tables, reader>>

Batches == UNION {[1..n -> Updates] : n \in 1..MaxBatch}
NoRows == [s \in {} |-> {}]
After(rows, seq) == [s \in {t \in DOMAIN rows : t > seq} |-> rows[s]]
UpTo(rows, seq) == [s \in {t \in DOMAIN rows : t <= seq} |-> rows[s]]
Merged(older, newer) ==
    [s \in DOMAIN older \cup DOMAIN newer |-> IF s \in DOMAIN newer THEN newer[s] ELSE older[s]]
Payloads(rows) == {rows[s] : s \in DOMAIN rows}
Snapshot(seqUpto, state) == [s \in {seqUpto} |-> state]

\* order by seq_upto desc limit 1; 0 and nothing without a snapshot
LatestSeq(snaps) ==
    IF DOMAIN snaps = {} THEN 0
    ELSE CHOOSE s \in DOMAIN snaps : \A t \in DOMAIN snaps : t <= s
LatestState(snaps) == IF DOMAIN snaps = {} THEN {} ELSE snaps[LatestSeq(snaps)]

Idle == [at |-> "idle", after |-> 0, got |-> NoRows, state |-> {}, since |-> 0]

Init ==
    /\ row = "live"
    /\ lastSeq = 0 /\ live = NoRows /\ archive = NoRows
    /\ snapshots = IF Template = {} THEN NoRows ELSE Snapshot(0, Template)
    /\ reader = [r \in Readers |-> Idle]

----------------------------------------------------------------------------
(* Writers *)

\* The seqs an append reserves follow this one.  Mutant: they follow the live rows.
ReservedByLive ==
    IF DOMAIN live = {} THEN 0 ELSE CHOOSE s \in DOMAIN live : \A t \in DOMAIN live : t <= s
Reserved == lastSeq

\* The rows of a batch, in order.  Mutant: they start at the seq, not after it.
NewRowsFrom(batch, seq) == [s \in seq..(seq + Len(batch) - 1) |-> batch[s - seq + 1]]
NewRows(batch, seq) == [s \in (seq + 1)..(seq + Len(batch)) |-> batch[s - seq]]

\* append: reserve seqs on the board's row and insert the batch with them, atomically.
AppendBatch(batch) ==
    /\ row /= "purged"
    /\ Reserved + Len(batch) <= MaxSeq
    /\ lastSeq' = Reserved + Len(batch)
    /\ live' = Merged(live, NewRows(batch, Reserved))
    /\ UNCHANGED <<row, archive, snapshots, reader>>

\* Move the live rows up to a seq into the archive.  Mutants: those below it; none at all.
ArchiveBelow(seq) == archive' = Merged(archive, UpTo(live, seq - 1)) /\ live' = After(live, seq)
ArchiveNothing(seq) == archive' = archive /\ live' = After(live, seq)
ArchiveUpTo(seq) ==
    /\ archive' = Merged(archive, UpTo(live, seq))
    /\ live' = After(live, seq)

\* buildSnapshot: the previous state with the updates applied.  Mutant: without it.
BuiltFromUpdates(folded) == Payloads(folded)
BuildSnapshot(folded) == LatestState(snapshots) \cup Payloads(folded)

\* compact: fold everything after the latest snapshot into a new one.
Compact ==
    LET after == LatestSeq(snapshots)
        folded == After(live, after)
        last == CHOOSE s \in DOMAIN folded : \A t \in DOMAIN folded : t <= s
    IN /\ row /= "purged" /\ ~IsPrivate
       /\ DOMAIN folded /= {}
       /\ snapshots' = Merged(snapshots, Snapshot(last, BuildSnapshot(folded)))
       /\ ArchiveUpTo(last)
       /\ UNCHANGED <<row, lastSeq, reader>>

\* Every row of the board's history.
History == Merged(archive, live)

\* A client's snapshot is refused unless newer than the latest and not beyond the last
\* stored update.  Mutant: the second check is missing.
NewerThanLatest(seqUpto) == seqUpto > LatestSeq(snapshots)
Acceptable(seqUpto) == seqUpto <= lastSeq /\ seqUpto > LatestSeq(snapshots)

\* installSnapshot: a private board's client uploads a state of its own making.  It covers
\* every update up to seqUpto (SnapshotCovers of PrivateBoard), and whatever else the client
\* has; what an earlier one carried beyond its updates may be gone.
InstallSnapshot(seqUpto, state) ==
    /\ row /= "purged" /\ IsPrivate
    /\ Acceptable(seqUpto)
    /\ Template \cup Payloads(UpTo(History, seqUpto)) \subseteq state
    /\ snapshots' = Merged(snapshots, Snapshot(seqUpto, state))
    /\ ArchiveUpTo(seqUpto)
    /\ UNCHANGED <<row, lastSeq, reader>>

\* DELETE /boards/:id and POST /boards/:id/restore
Trash == row = "live" /\ row' = "trashed" /\ UNCHANGED <<tables, reader>>
Restore == row = "trashed" /\ row' = "live" /\ UNCHANGED <<tables, reader>>

\* The purge of expired trash deletes the row; its updates and snapshots go with it.
Purge ==
    /\ row = "trashed"
    /\ row' = "purged"
    /\ lastSeq' = 0 /\ live' = NoRows /\ archive' = NoRows /\ snapshots' = NoRows
    /\ UNCHANGED reader

----------------------------------------------------------------------------
(* Readers.  `since` is history: last_seq when the read began. *)

Step(r, next) == reader' = [reader EXCEPT ![r] = next] /\ UNCHANGED <<row, tables>>

LoadBoardRow(r) ==
    /\ reader[r].at = "idle"
    /\ row /= "purged"
    /\ Step(r, [Idle EXCEPT !.at = "loadSnapshot", !.since = lastSeq])

LoadSnapshot(r) ==
    /\ reader[r].at = "loadSnapshot"
    /\ Step(r, [reader[r] EXCEPT !.at = "loadUpdates", !.after = LatestSeq(snapshots),
                                 !.state = LatestState(snapshots)])

\* The updates after the snapshot that was read.  Mutant: the first one is skipped.
UpdatesAfterNext(rd) == After(live, rd.after + 1)
UpdatesAfter(rd) == After(live, rd.after)

LoadUpdates(r) ==
    /\ reader[r].at = "loadUpdates"
    /\ Step(r, [reader[r] EXCEPT !.at = "loaded", !.got = UpdatesAfter(reader[r])])

SinceLive(r, afterSeq) ==
    /\ reader[r].at = "idle"
    /\ Step(r, [Idle EXCEPT !.at = "sinceArchive", !.after = afterSeq, !.since = lastSeq,
                            !.got = After(live, afterSeq)])

\* Archived and live rows, each seq once.  Mutant: the archive counts only if nothing is live.
LiveOrArchived(rd) == IF DOMAIN rd.got = {} THEN After(archive, rd.after) ELSE rd.got
BySeq(rd) == Merged(After(archive, rd.after), rd.got)

SinceArchive(r) ==
    /\ reader[r].at = "sinceArchive"
    /\ Step(r, [reader[r] EXCEPT !.at = "listed", !.got = BySeq(reader[r])])

Done(r) ==
    /\ reader[r].at \in {"loaded", "listed"}
    /\ Step(r, Idle)

Next ==
    \/ \E batch \in Batches : AppendBatch(batch)
    \/ Compact
    \/ \E seqUpto \in 1..MaxSeq, state \in SUBSET Updates : InstallSnapshot(seqUpto, state)
    \/ Trash \/ Restore \/ Purge
    \/ \E r \in Readers : \/ LoadBoardRow(r) \/ LoadSnapshot(r) \/ LoadUpdates(r)
                          \/ SinceArchive(r) \/ Done(r)
                          \/ \E afterSeq \in 0..MaxSeq : SinceLive(r, afterSeq)

Spec == Init /\ [][Next]_vars

----------------------------------------------------------------------------
(* Properties *)

IsTable(rows) == DOMAIN rows \subseteq 1..MaxSeq /\ rows \in [DOMAIN rows -> Updates]

ReaderTypeOK(rd) ==
    /\ DOMAIN rd = {"at", "after", "since", "got", "state"}
    /\ rd.at \in {"idle", "loadSnapshot", "loadUpdates", "loaded", "sinceArchive", "listed"}
    /\ rd.after \in 0..MaxSeq /\ rd.since \in 0..MaxSeq
    /\ IsTable(rd.got) /\ rd.state \subseteq Updates

TypeOK ==
    /\ row \in {"live", "trashed", "purged"}
    /\ lastSeq \in 0..MaxSeq
    /\ IsTable(live) /\ IsTable(archive)
    /\ DOMAIN snapshots \subseteq 0..MaxSeq
    /\ snapshots \in [DOMAIN snapshots -> SUBSET Updates]
    /\ DOMAIN reader = Readers
    /\ \A r \in Readers : ReaderTypeOK(reader[r])

\* Seqs are handed out without a gap, and a row is in one of the two tables, the archive
\* holding exactly what the latest snapshot covers: no move ever loses a row or meets one
\* already there (both tables have (board_id, seq) as primary key).
HistoryIsWhole ==
    row /= "purged" =>
        /\ DOMAIN live \cup DOMAIN archive = 1..lastSeq
        /\ \A s \in DOMAIN live : s > LatestSeq(snapshots)
        /\ \A s \in DOMAIN archive : s <= LatestSeq(snapshots)

\* A snapshot covers the template and every update up to its seq; when the server made
\* it, nothing else.
SnapshotsAreFaithful ==
    \A s \in DOMAIN snapshots :
        LET covered == Template \cup Payloads(UpTo(History, s))
        IN IF IsPrivate THEN covered \subseteq snapshots[s] ELSE covered = snapshots[s]

\* updatesSince: "a compaction committing in between moves rows from the first to the
\* second, so they're seen twice rather than not at all" (pgRepository.ts).
SinceIsComplete ==
    \A r \in Readers :
        reader[r].at = "listed" /\ row /= "purged" =>
            \A s \in (reader[r].after + 1)..reader[r].since :
                s \in DOMAIN reader[r].got /\ reader[r].got[s] = History[s]

\* What a load misses of the updates that were committed when it began (repository.ts, LoadedBoard:
\* "Updates after the snapshot") was folded into a newer snapshot while it was reading.
LoadMissesOnlyFolded ==
    \A r \in Readers :
        reader[r].at = "loaded" /\ row /= "purged" =>
            \A s \in 1..reader[r].since :
                \/ IF s <= reader[r].after
                   THEN History[s] \in reader[r].state
                   ELSE s \in DOMAIN reader[r].got /\ reader[r].got[s] = History[s]
                \/ reader[r].after < s /\ s <= LatestSeq(snapshots)

\* What a reader that meets no writer sees.
Visible == LatestState(snapshots) \cup Payloads(After(live, LatestSeq(snapshots)))

\* Compactions, snapshots and the tables behind them are invisible: the store is an
\* append-only log (repository.ts, BoardRepository).
Log == INSTANCE DurableLog WITH log <- History, content <- Visible, Sealed <- IsPrivate,
                                present <- (row /= "purged")
ImplementsLog == Log!LogSpec
=============================================================================
