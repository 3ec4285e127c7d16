----------------------- MODULE BoardRepositoryProofs -----------------------
(* What BoardRepository keeps true for every board, batch size and number of  *)
(* readers, and what a reader gets when writers commit in the middle.          *)
EXTENDS BoardRepository, SequenceTheorems, TLAPS

(***************************************************************************)
(* Lemmas about batches and tables.                                        *)
(***************************************************************************)

\* A batch is a non-empty sequence of updates.
LEMMA BatchIsSeq ==
    ASSUME NEW batch \in Batches
    PROVE  /\ batch \in Seq(Updates)
           /\ Len(batch) \in Nat \ {0}
           /\ batch \in [1..Len(batch) -> Updates]
<1>1. MaxBatch \in Nat
  BY RepositoryAssumption
<1>2. PICK n \in 1..MaxBatch : batch \in [1..n -> Updates]
  BY DEF Batches
<1>3. batch \in Seq(Updates)
  BY <1>1, <1>2, SeqDef
<1>4. DOMAIN batch = 1..Len(batch) /\ Len(batch) \in Nat
  BY <1>3, LenProperties
<1>5. Len(batch) = n
  BY <1>1, <1>2, <1>4
<1> QED
  BY <1>1, <1>2, <1>3, <1>5

\* m is the seq of the latest snapshot, 0 if there is none.
LatestIs(snaps, m) ==
    \/ DOMAIN snaps = {} /\ m = 0
    \/ m \in DOMAIN snaps /\ DOMAIN snaps \subseteq Nat /\ \A t \in DOMAIN snaps : t <= m

LEMMA LatestUnique ==
    ASSUME NEW snaps, NEW m, LatestIs(snaps, m)
    PROVE  LatestSeq(snaps) = m
<1>1. CASE DOMAIN snaps = {}
  BY <1>1 DEF LatestIs, LatestSeq
<1>2. CASE DOMAIN snaps /= {}
  <2> DEFINE IsMax(s) == s \in DOMAIN snaps /\ \A t \in DOMAIN snaps : t <= s
  <2>1. IsMax(m) /\ DOMAIN snaps \subseteq Nat
    BY <1>2 DEF LatestIs
  <2>2. LatestSeq(snaps) = CHOOSE s \in DOMAIN snaps : \A t \in DOMAIN snaps : t <= s
    BY <1>2 DEF LatestSeq
  <2>3. IsMax(LatestSeq(snaps))
    BY <2>1, <2>2
  <2> QED
    BY <2>1, <2>3
<1> QED
  BY <1>1, <1>2

(***************************************************************************)
(* The inductive invariant.  HistoryIsWhole is not inductive: that an      *)
(* archived row is covered by the latest snapshot needs to know that this  *)
(* seq is a maximum at all, and which rows each table holds.               *)
(***************************************************************************)

\* The archive holds the rows up to the latest snapshot, board_updates those after it, up
\* to the counter; and a board that starts from a template has a snapshot.
Numbered ==
    row /= "purged" =>
        LET last == LatestSeq(snapshots) IN
        /\ LatestIs(snapshots, last)
        /\ last \in 0..lastSeq
        /\ DOMAIN live = (last + 1)..lastSeq
        /\ DOMAIN archive = 1..last
        /\ Template = {} \/ DOMAIN snapshots /= {}

PurgedIsEmpty == row = "purged" => DOMAIN snapshots = {}

IInv == TypeOK /\ Numbered /\ PurgedIsEmpty

LEMMA LatestState_Type ==
    ASSUME TypeOK, Numbered, row /= "purged"
    PROVE  LatestState(snapshots) \subseteq Updates
<1>1. CASE DOMAIN snapshots = {}
  BY <1>1 DEF LatestState
<1>2. CASE DOMAIN snapshots /= {}
  BY <1>2 DEF LatestState, Numbered, LatestIs, TypeOK
<1> QED
  BY <1>1, <1>2

LEMMA MergedDomain ==
    ASSUME NEW older, NEW newer
    PROVE  /\ DOMAIN Merged(older, newer) = DOMAIN older \cup DOMAIN newer
           /\ \A s \in DOMAIN newer : Merged(older, newer)[s] = newer[s]
           /\ \A s \in DOMAIN older \ DOMAIN newer : Merged(older, newer)[s] = older[s]
BY DEF Merged

LEMMA MergedTables ==
    ASSUME NEW older, NEW newer, IsTable(older), IsTable(newer)
    PROVE  IsTable(Merged(older, newer))
BY DEF Merged, IsTable

LEMMA CutTables ==
    ASSUME NEW rows, NEW seq, IsTable(rows)
    PROVE  /\ IsTable(After(rows, seq)) /\ DOMAIN After(rows, seq) = {t \in DOMAIN rows : t > seq}
           /\ IsTable(UpTo(rows, seq)) /\ DOMAIN UpTo(rows, seq) = {t \in DOMAIN rows : t <= seq}
BY DEF After, UpTo, IsTable

LEMMA EmptyTable == IsTable(NoRows) /\ DOMAIN NoRows = {}
BY DEF NoRows, IsTable

\* A snapshot later than the others becomes the latest one.
LEMMA NewestSnapshot ==
    ASSUME NEW snaps, NEW n \in Nat, NEW state, NEW m \in Nat, LatestIs(snaps, m), m < n
    PROVE  LatestIs(Merged(snaps, Snapshot(n, state)), n)
BY DEF Merged, Snapshot, LatestIs

LEMMA NewSnapshotIsLatest ==
    ASSUME IInv, row /= "purged", NEW upto \in Nat, NEW state, LatestSeq(snapshots) < upto,
           NEW snaps, snaps = Merged(snapshots, Snapshot(upto, state))
    PROVE  LatestSeq(snaps) = upto /\ LatestState(snaps) = state
<1>1. LatestIs(snapshots, LatestSeq(snapshots)) /\ LatestSeq(snapshots) \in Nat
  BY RepositoryAssumption DEF IInv, TypeOK, Numbered
<1>2. LatestIs(snaps, upto)
  BY <1>1 DEF Merged, Snapshot, LatestIs
<1>3. LatestSeq(snaps) = upto
  BY <1>2, LatestUnique
<1>4. DOMAIN snaps /= {} /\ snaps[upto] = state
  BY DEF Merged, Snapshot
<1> QED
  BY <1>3, <1>4 DEF LatestState

\* A compaction folds everything up to the counter.
LEMMA FoldedUpto ==
    ASSUME IInv, row /= "purged",
           NEW folded, folded = After(live, LatestSeq(snapshots)), DOMAIN folded /= {}
    PROVE  /\ (CHOOSE s \in DOMAIN folded : \A t \in DOMAIN folded : t <= s) = lastSeq
           /\ folded = live
           /\ LatestSeq(snapshots) < lastSeq
<1> DEFINE IsMax(s) == s \in DOMAIN folded /\ \A t \in DOMAIN folded : t <= s
<1>1. DOMAIN live = (LatestSeq(snapshots) + 1)..lastSeq /\ lastSeq \in Nat
         /\ LatestSeq(snapshots) \in 0..lastSeq
  BY RepositoryAssumption DEF IInv, Numbered, TypeOK
<1>2. DOMAIN folded = DOMAIN live
  BY <1>1 DEF After
<1>3. folded = live
  <2>1. folded = [s \in DOMAIN live |-> live[s]]
    BY <1>1, <1>2 DEF After
  <2>2. live = [s \in DOMAIN live |-> live[s]]
    BY DEF IInv, TypeOK, IsTable
  <2> QED
    BY <2>1, <2>2
<1>4. IsMax(lastSeq)
  BY <1>1, <1>2
<1>5. PICK top : top = CHOOSE s \in DOMAIN folded : \A t \in DOMAIN folded : t <= s
  OBVIOUS
<1>6. IsMax(top)
  BY <1>4, <1>5
<1>7. top = lastSeq
  BY <1>1, <1>2, <1>4, <1>6
<1> QED
  BY <1>1, <1>2, <1>3, <1>4, <1>5, <1>7

LEMMA InitInvariant == Init => IInv
<1> SUFFICES ASSUME Init PROVE IInv
  OBVIOUS
<1> USE DEF Init, Idle, Snapshot
<1>1. TypeOK
  BY EmptyTable, RepositoryAssumption DEF TypeOK, ReaderTypeOK, NoRows
<1>2. Numbered
  BY EmptyTable DEF Numbered, LatestIs, LatestSeq
<1> QED
  BY <1>1, <1>2 DEF Init, IInv, PurgedIsEmpty

LEMMA AppendInvariant ==
    ASSUME IInv, NEW batch \in Batches, AppendBatch(batch)
    PROVE  IInv'
<1> DEFINE rows == NewRows(batch, lastSeq)
<1>1. /\ batch \in [1..Len(batch) -> Updates] /\ Len(batch) \in Nat \ {0}
      /\ MaxSeq \in Nat /\ lastSeq \in 0..MaxSeq
  BY BatchIsSeq, RepositoryAssumption DEF IInv, TypeOK
<1>2. DOMAIN rows = (lastSeq + 1)..(lastSeq + Len(batch)) /\ lastSeq + Len(batch) <= MaxSeq
  BY DEF NewRows, AppendBatch, Reserved
<1>3. IsTable(rows)
  BY <1>1, <1>2 DEF NewRows, IsTable
<1>4. TypeOK'
  BY <1>1, <1>2, <1>3, MergedTables DEF IInv, TypeOK, AppendBatch, Reserved
<1>5. Numbered'
  <2>1. SUFFICES ASSUME row /= "purged" PROVE Numbered'
    BY DEF Numbered, AppendBatch
  <2>2. UNCHANGED <<row, archive, snapshots>> /\ lastSeq' = lastSeq + Len(batch)
    BY DEF AppendBatch, Reserved
  <2>3. DOMAIN live' = DOMAIN live \cup DOMAIN rows
    BY DEF AppendBatch, Reserved, Merged
  <2>4. LatestSeq(snapshots) \in 0..lastSeq /\ DOMAIN live = (LatestSeq(snapshots) + 1)..lastSeq
    BY <2>1 DEF IInv, Numbered
  <2>5. DOMAIN live' = (LatestSeq(snapshots) + 1)..lastSeq'
    BY <1>1, <1>2, <2>2, <2>3, <2>4
  <2>6. LatestSeq(snapshots) \in 0..lastSeq'
    BY <1>1, <2>2, <2>4
  <2> QED
    BY <2>1, <2>2, <2>5, <2>6 DEF IInv, Numbered
<1> QED
  BY <1>4, <1>5 DEF AppendBatch, IInv, PurgedIsEmpty

\* A new latest snapshot with everything up to it moved to the archive.
LEMMA SnapshotInvariant ==
    ASSUME IInv, row /= "purged", NEW upto \in Nat, NEW state \in SUBSET Updates,
           LatestSeq(snapshots) < upto, upto <= lastSeq,
           snapshots' = Merged(snapshots, Snapshot(upto, state)),
           ArchiveUpTo(upto), UNCHANGED <<row, lastSeq, reader>>
    PROVE  IInv'
<1>1. /\ LatestIs(snapshots, LatestSeq(snapshots)) /\ LatestSeq(snapshots) \in Nat
      /\ lastSeq \in 0..MaxSeq /\ MaxSeq \in Nat
  BY RepositoryAssumption DEF IInv, Numbered, TypeOK
<1>2. /\ LatestIs(snapshots', upto) /\ LatestSeq(snapshots') = upto
      /\ DOMAIN snapshots' = DOMAIN snapshots \cup {upto}
      /\ snapshots'[upto] = state
      /\ \A s \in DOMAIN snapshots \ {upto} : snapshots'[s] = snapshots[s]
  <2>1. PICK m \in Nat : m = LatestSeq(snapshots)
    BY <1>1
  <2>2. LatestIs(snapshots, m) /\ m < upto
    BY <1>1, <2>1
  <2>3. LatestIs(snapshots', upto)
    BY <2>2, NewestSnapshot
  <2>4. LatestSeq(snapshots') = upto
    BY <2>3, LatestUnique
  <2>5. /\ DOMAIN snapshots' = DOMAIN snapshots \cup {upto}
        /\ snapshots'[upto] = state
        /\ \A s \in DOMAIN snapshots \ {upto} : snapshots'[s] = snapshots[s]
    BY DEF Merged, Snapshot
  <2> QED
    BY <2>3, <2>4, <2>5
<1>3. TypeOK'
  <2>1. IsTable(live') /\ IsTable(archive')
    BY CutTables, MergedTables DEF ArchiveUpTo, IInv, TypeOK
  <2>2. snapshots' \in [DOMAIN snapshots' -> SUBSET Updates]
    <3>1. snapshots' = [s \in DOMAIN snapshots' |-> snapshots'[s]]
      BY DEF Merged
    <3>2. \A s \in DOMAIN snapshots' : snapshots'[s] \in SUBSET Updates
      BY <1>2 DEF IInv, TypeOK
    <3> QED
      BY <3>1, <3>2
  <2> QED
    BY <1>1, <1>2, <2>1, <2>2 DEF IInv, TypeOK
<1>4. Numbered'
  <2>0. /\ DOMAIN live = (LatestSeq(snapshots) + 1)..lastSeq
        /\ DOMAIN archive = 1..LatestSeq(snapshots)
    BY DEF IInv, Numbered
  <2>1. DOMAIN live' = (upto + 1)..lastSeq
    <3>1. DOMAIN live' = {t \in DOMAIN live : t > upto}
      BY CutTables DEF ArchiveUpTo, IInv, TypeOK
    <3> QED
      BY <1>1, <2>0, <3>1
  <2>2. DOMAIN archive' = 1..upto
    <3>1. DOMAIN archive' = DOMAIN archive \cup {t \in DOMAIN live : t <= upto}
      BY CutTables DEF ArchiveUpTo, IInv, TypeOK, Merged
    <3> QED
      BY <1>1, <2>0, <3>1
  <2> QED
    BY <1>1, <1>2, <2>1, <2>2 DEF Numbered
<1> QED
  BY <1>3, <1>4 DEF IInv, PurgedIsEmpty

LEMMA CompactInvariant ==
    ASSUME IInv, Compact
    PROVE  IInv'
<1> DEFINE folded == After(live, LatestSeq(snapshots))
<1>1. row /= "purged" /\ DOMAIN folded /= {}
  BY DEF Compact
<1>2. /\ (CHOOSE s \in DOMAIN folded : \A t \in DOMAIN folded : t <= s) = lastSeq
      /\ folded = live /\ LatestSeq(snapshots) < lastSeq
  BY <1>1, FoldedUpto
<1>3. BuildSnapshot(folded) \in SUBSET Updates
  BY <1>1, <1>2, LatestState_Type DEF BuildSnapshot, Payloads, IInv, TypeOK, IsTable
<1>4. PICK upto, state : upto = lastSeq /\ state = BuildSnapshot(folded)
  OBVIOUS
<1>5. upto \in Nat /\ state \in SUBSET Updates /\ LatestSeq(snapshots) < upto /\ upto <= lastSeq
  BY <1>2, <1>3, <1>4, RepositoryAssumption DEF IInv, TypeOK
<1>6. /\ snapshots' = Merged(snapshots, Snapshot(upto, state))
      /\ ArchiveUpTo(upto) /\ UNCHANGED <<row, lastSeq, reader>>
  BY <1>2, <1>4 DEF Compact
<1> QED
  BY <1>1, <1>5, <1>6, SnapshotInvariant

LEMMA InstallInvariant ==
    ASSUME IInv, NEW upto \in 1..MaxSeq, NEW state \in SUBSET Updates,
           InstallSnapshot(upto, state)
    PROVE  IInv'
<1>1. row /= "purged" /\ upto \in Nat
  BY RepositoryAssumption DEF InstallSnapshot
<1>2. LatestSeq(snapshots) \in 0..lastSeq /\ lastSeq \in Nat
  BY <1>1, RepositoryAssumption DEF IInv, TypeOK, Numbered
<1>3. LatestSeq(snapshots) < upto /\ upto <= lastSeq
  BY <1>1, <1>2 DEF InstallSnapshot, Acceptable
<1>4. /\ snapshots' = Merged(snapshots, Snapshot(upto, state))
      /\ ArchiveUpTo(upto) /\ UNCHANGED <<row, lastSeq, reader>>
  BY DEF InstallSnapshot
<1> QED
  BY <1>1, <1>3, <1>4, SnapshotInvariant

LEMMA TrashInvariant ==
    ASSUME IInv, Trash \/ Restore \/ Purge
    PROVE  IInv'
<1>1. CASE Trash \/ Restore
  BY <1>1 DEF Trash, Restore, tables, IInv, TypeOK, Numbered, PurgedIsEmpty
<1>2. CASE Purge
  BY <1>2, EmptyTable, RepositoryAssumption DEF Purge, IInv, TypeOK, Numbered, PurgedIsEmpty,
     NoRows
<1> QED
  BY <1>1, <1>2

ReaderStep(r) ==
    \/ LoadBoardRow(r) \/ LoadSnapshot(r) \/ LoadUpdates(r) \/ SinceArchive(r) \/ Done(r)
    \/ \E afterSeq \in 0..MaxSeq : SinceLive(r, afterSeq)

\* A reader changes nothing but itself.
LEMMA ReaderChangesNothing ==
    ASSUME NEW r \in Readers, ReaderStep(r)
    PROVE  /\ UNCHANGED <<row, lastSeq, live, archive, snapshots>>
           /\ \E next : reader' = [reader EXCEPT ![r] = next]
BY DEF ReaderStep, LoadBoardRow, LoadSnapshot, LoadUpdates, SinceLive, SinceArchive, Done,
       Step, tables

LEMMA ReaderTypeStep ==
    ASSUME IInv, NEW r \in Readers, ReaderStep(r)
    PROVE  ReaderTypeOK(reader'[r])
<1>1. /\ ReaderTypeOK(reader[r]) /\ DOMAIN reader = Readers
      /\ IsTable(live) /\ IsTable(archive) /\ lastSeq \in 0..MaxSeq /\ MaxSeq \in Nat
  BY RepositoryAssumption DEF IInv, TypeOK
<1> USE DEF ReaderTypeOK, Idle, Step
<1>2. CASE LoadBoardRow(r)
  BY <1>1, <1>2, EmptyTable DEF LoadBoardRow
<1>3. CASE LoadSnapshot(r)
  <2>1. LatestSeq(snapshots) \in 0..MaxSeq /\ LatestState(snapshots) \subseteq Updates
    <3>1. CASE DOMAIN snapshots = {}
      BY <1>1, <3>1 DEF LatestSeq, LatestState
    <3>2. CASE DOMAIN snapshots /= {} /\ row /= "purged"
      BY <1>1, <3>2, LatestState_Type DEF IInv, Numbered
    <3> QED
      BY <3>1, <3>2 DEF IInv, PurgedIsEmpty
  <2> QED
    BY <1>1, <1>3, <2>1 DEF LoadSnapshot
<1>4. CASE LoadUpdates(r)
  BY <1>1, <1>4, CutTables DEF LoadUpdates, UpdatesAfter
<1>5. CASE SinceArchive(r)
  BY <1>1, <1>5, CutTables, MergedTables DEF SinceArchive, BySeq
<1>6. CASE Done(r)
  BY <1>1, <1>6, EmptyTable DEF Done
<1>7. ASSUME NEW afterSeq \in 0..MaxSeq, SinceLive(r, afterSeq)
      PROVE  ReaderTypeOK(reader'[r])
  BY <1>1, <1>7, CutTables DEF SinceLive
<1> QED
  BY <1>2, <1>3, <1>4, <1>5, <1>6, <1>7 DEF ReaderStep

LEMMA ReaderInvariant ==
    ASSUME IInv, NEW r \in Readers, ReaderStep(r)
    PROVE  IInv'
<1>1. UNCHANGED <<row, lastSeq, live, archive, snapshots>>
  BY ReaderChangesNothing
<1>2. PICK next : reader' = [reader EXCEPT ![r] = next]
  BY ReaderChangesNothing
<1>3. TypeOK'
  <2>1. DOMAIN reader' = Readers
    BY <1>2 DEF IInv, TypeOK
  <2>2. \A q \in Readers : ReaderTypeOK(reader'[q])
    BY <1>2, ReaderTypeStep DEF IInv, TypeOK
  <2> QED
    BY <1>1, <2>1, <2>2 DEF IInv, TypeOK
<1>4. Numbered'
  BY <1>1 DEF IInv, Numbered
<1> QED
  BY <1>1, <1>3, <1>4 DEF IInv, PurgedIsEmpty

LEMMA NextInvariant == IInv /\ [Next]_vars => IInv'
<1> SUFFICES ASSUME IInv, [Next]_vars PROVE IInv'
  OBVIOUS
<1>1. CASE \E batch \in Batches : AppendBatch(batch)
  BY <1>1, AppendInvariant
<1>2. CASE Compact
  BY <1>2, CompactInvariant
<1>3. CASE \E seqUpto \in 1..MaxSeq, state \in SUBSET Updates : InstallSnapshot(seqUpto, state)
  BY <1>3, InstallInvariant
<1>4. CASE Trash \/ Restore \/ Purge
  BY <1>4, TrashInvariant
<1>5. CASE \E r \in Readers : ReaderStep(r)
  BY <1>5, ReaderInvariant
<1>6. CASE UNCHANGED vars
  BY <1>6 DEF vars, tables, IInv, TypeOK, Numbered, PurgedIsEmpty
<1> QED
  BY <1>1, <1>2, <1>3, <1>4, <1>5, <1>6 DEF Next, ReaderStep

LEMMA Invariant == Spec => []IInv
BY InitInvariant, NextInvariant, PTL DEF Spec

\* Every reachable state of the tables and of the readers in the middle of a read is well
\* typed; in particular the numbering never leaves the bound (repository.ts, append).
THEOREM TypeCorrect == Spec => []TypeOK
<1>1. IInv => TypeOK
  BY DEF IInv
<1> QED
  BY <1>1, Invariant, PTL

\* No compaction, client snapshot or append ever loses a row of the log, leaves a gap in its
\* numbering or moves a row to where one already is (pgRepository.ts, append and compact).
THEOREM WholeHistory == Spec => []HistoryIsWhole
<1>1. IInv => HistoryIsWhole
  <2> SUFFICES ASSUME IInv, row /= "purged"
               PROVE  /\ DOMAIN live \cup DOMAIN archive = 1..lastSeq
                      /\ \A s \in DOMAIN live : s > LatestSeq(snapshots)
                      /\ \A s \in DOMAIN archive : s <= LatestSeq(snapshots)
    BY DEF HistoryIsWhole
  <2>1. /\ LatestSeq(snapshots) \in 0..lastSeq /\ lastSeq \in Nat
        /\ DOMAIN live = (LatestSeq(snapshots) + 1)..lastSeq
        /\ DOMAIN archive = 1..LatestSeq(snapshots)
    BY RepositoryAssumption DEF IInv, TypeOK, Numbered
  <2> QED
    BY <2>1
<1> QED
  BY <1>1, Invariant, PTL

(***************************************************************************)
(* Snapshots.  The history is what a snapshot is compared with: moving     *)
(* rows to the archive leaves it alone, an append only adds to its end.    *)
(***************************************************************************)

LEMMA ArchivingKeepsHistory ==
    ASSUME IInv, NEW upto \in Nat, ArchiveUpTo(upto)
    PROVE  History' = History
<1>1. DOMAIN live \subseteq Nat /\ DOMAIN archive \subseteq Nat
  BY RepositoryAssumption DEF IInv, TypeOK, IsTable
<1>2. DOMAIN History' = DOMAIN History
  BY <1>1 DEF ArchiveUpTo, History, Merged, UpTo, After
<1>3. \A s \in DOMAIN History : History'[s] = History[s]
  BY <1>1 DEF ArchiveUpTo, History, Merged, UpTo, After
<1>4. /\ History = [s \in DOMAIN History |-> History[s]]
      /\ History' = [s \in DOMAIN History' |-> History'[s]]
  BY DEF History, Merged
<1> QED
  BY <1>2, <1>3, <1>4

LEMMA HistoryDomain ==
    ASSUME IInv, row /= "purged"
    PROVE  /\ DOMAIN History = 1..lastSeq /\ History \in [1..lastSeq -> Updates]
           /\ lastSeq \in Nat /\ LatestSeq(snapshots) \in 0..lastSeq
<1>1. /\ LatestSeq(snapshots) \in 0..lastSeq /\ lastSeq \in Nat
      /\ DOMAIN live = (LatestSeq(snapshots) + 1)..lastSeq
      /\ DOMAIN archive = 1..LatestSeq(snapshots)
  BY RepositoryAssumption DEF IInv, TypeOK, Numbered
<1>2. IsTable(History)
  BY MergedTables DEF History, IInv, TypeOK
<1>3. DOMAIN History = 1..lastSeq
  BY <1>1 DEF History, Merged
<1> QED
  BY <1>1, <1>2, <1>3 DEF IsTable

LEMMA AppendExtendsHistory ==
    ASSUME IInv, NEW batch \in Batches, AppendBatch(batch)
    PROVE  /\ DOMAIN History' = 1..(lastSeq + Len(batch))
           /\ \A s \in 1..lastSeq : History'[s] = History[s]
           /\ \A s \in (lastSeq + 1)..(lastSeq + Len(batch)) : History'[s] = batch[s - lastSeq]
<1>1. /\ LatestSeq(snapshots) \in 0..lastSeq /\ lastSeq \in Nat /\ Len(batch) \in Nat
      /\ DOMAIN live = (LatestSeq(snapshots) + 1)..lastSeq
      /\ DOMAIN archive = 1..LatestSeq(snapshots)
  BY RepositoryAssumption, BatchIsSeq DEF IInv, TypeOK, Numbered, AppendBatch
<1>2. /\ live' = Merged(live, NewRows(batch, lastSeq)) /\ archive' = archive
      /\ DOMAIN NewRows(batch, lastSeq) = (lastSeq + 1)..(lastSeq + Len(batch))
      /\ \A s \in (lastSeq + 1)..(lastSeq + Len(batch)) :
            NewRows(batch, lastSeq)[s] = batch[s - lastSeq]
  BY DEF AppendBatch, Reserved, NewRows
<1>3. /\ DOMAIN live' = (LatestSeq(snapshots) + 1)..(lastSeq + Len(batch))
      /\ \A s \in DOMAIN live : live'[s] = live[s]
      /\ \A s \in (lastSeq + 1)..(lastSeq + Len(batch)) : live'[s] = batch[s - lastSeq]
  BY <1>1, <1>2 DEF Merged
<1> QED
  BY <1>1, <1>2, <1>3 DEF History, Merged

\* What a snapshot at a seq covers.
CoveredBy(seq) == Template \cup Payloads(UpTo(History, seq))

Faithful(state, seq) == IF IsPrivate THEN CoveredBy(seq) \subseteq state ELSE CoveredBy(seq) = state

LEMMA FaithfulSnapshots == SnapshotsAreFaithful <=> \A s \in DOMAIN snapshots : Faithful(snapshots[s], s)
BY DEF SnapshotsAreFaithful, Faithful, CoveredBy

LEMMA LatestIsFaithful ==
    ASSUME IInv, SnapshotsAreFaithful, row /= "purged"
    PROVE  Faithful(LatestState(snapshots), LatestSeq(snapshots))
<1>1. CASE DOMAIN snapshots = {}
  <2>1. Template = {} /\ LatestSeq(snapshots) = 0 /\ LatestState(snapshots) = {}
    BY <1>1 DEF IInv, Numbered, LatestSeq, LatestState
  <2>2. DOMAIN UpTo(History, 0) = {}
    BY HistoryDomain DEF UpTo
  <2> QED
    BY <2>1, <2>2 DEF Faithful, CoveredBy, Payloads
<1>2. CASE DOMAIN snapshots /= {}
  <2>1. LatestSeq(snapshots) \in DOMAIN snapshots
    BY <1>2 DEF IInv, Numbered, LatestIs
  <2>2. LatestState(snapshots) = snapshots[LatestSeq(snapshots)]
    BY <1>2 DEF LatestState
  <2> QED
    BY <2>1, <2>2, FaithfulSnapshots
<1> QED
  BY <1>1, <1>2

\* Taken together, older snapshots stay faithful and a faithful new one joins them.
LEMMA SnapshotStaysFaithful ==
    ASSUME IInv, SnapshotsAreFaithful, NEW upto \in Nat, NEW state,
           snapshots' = Merged(snapshots, Snapshot(upto, state)),
           ArchiveUpTo(upto), Faithful(state, upto)
    PROVE  SnapshotsAreFaithful'
<1>1. History' = History
  BY ArchivingKeepsHistory
<1>2. \A s \in DOMAIN snapshots' : Faithful(snapshots'[s], s)
  BY FaithfulSnapshots DEF Merged, Snapshot
<1> QED
  BY <1>1, <1>2 DEF SnapshotsAreFaithful, Faithful, CoveredBy

LEMMA AppendStaysFaithful ==
    ASSUME IInv, SnapshotsAreFaithful, NEW batch \in Batches, AppendBatch(batch)
    PROVE  SnapshotsAreFaithful'
<1>1. /\ row /= "purged" /\ snapshots' = snapshots
      /\ LatestSeq(snapshots) \in 0..lastSeq /\ lastSeq \in Nat /\ Len(batch) \in Nat
      /\ DOMAIN History = 1..lastSeq
  BY HistoryDomain, BatchIsSeq DEF AppendBatch
<1>2. \A s \in DOMAIN snapshots : s \in Nat /\ s <= lastSeq
  BY <1>1 DEF IInv, Numbered, LatestIs
<1>3. ASSUME NEW s \in DOMAIN snapshots
      PROVE  UpTo(History', s) = UpTo(History, s)
  <2>1. {t \in DOMAIN History' : t <= s} = {t \in DOMAIN History : t <= s}
    BY <1>1, <1>2, AppendExtendsHistory
  <2>2. \A t \in {u \in DOMAIN History : u <= s} : History'[t] = History[t]
    BY <1>1, AppendExtendsHistory
  <2> QED
    BY <2>1, <2>2 DEF UpTo
<1> QED
  BY <1>1, <1>3 DEF SnapshotsAreFaithful

LEMMA CompactStaysFaithful ==
    ASSUME IInv, SnapshotsAreFaithful, Compact
    PROVE  SnapshotsAreFaithful'
<1> DEFINE folded == After(live, LatestSeq(snapshots))
<1>1. row /= "purged" /\ DOMAIN folded /= {} /\ ~IsPrivate
  BY DEF Compact
<1>2. /\ (CHOOSE s \in DOMAIN folded : \A t \in DOMAIN folded : t <= s) = lastSeq
      /\ folded = live /\ LatestSeq(snapshots) < lastSeq
  BY <1>1, FoldedUpto
<1>3. /\ LatestSeq(snapshots) \in Nat /\ lastSeq \in Nat
      /\ DOMAIN live = (LatestSeq(snapshots) + 1)..lastSeq
      /\ DOMAIN archive = 1..LatestSeq(snapshots)
      /\ DOMAIN History = 1..lastSeq
  BY <1>1, HistoryDomain DEF IInv, Numbered
<1>4. LatestState(snapshots) = Template \cup {History[s] : s \in 1..LatestSeq(snapshots)}
  <2>1. CoveredBy(LatestSeq(snapshots)) = LatestState(snapshots)
    BY <1>1, LatestIsFaithful DEF Faithful
  <2>2. Payloads(UpTo(History, LatestSeq(snapshots)))
           = {History[s] : s \in 1..LatestSeq(snapshots)}
    BY <1>2, <1>3 DEF UpTo, Payloads
  <2> QED
    BY <2>1, <2>2 DEF CoveredBy
<1>5. Payloads(folded) = {History[s] : s \in (LatestSeq(snapshots) + 1)..lastSeq}
  BY <1>2, <1>3 DEF Payloads, History, Merged
<1>6. CoveredBy(lastSeq) = Template \cup {History[s] : s \in 1..lastSeq}
  BY <1>3 DEF CoveredBy, UpTo, Payloads
<1>7. BuildSnapshot(folded) = CoveredBy(lastSeq)
  BY <1>2, <1>3, <1>4, <1>5, <1>6 DEF BuildSnapshot
<1>8. PICK upto, state : upto = lastSeq /\ state = BuildSnapshot(folded)
  OBVIOUS
<1>9. Faithful(state, upto) /\ upto \in Nat
  BY <1>1, <1>3, <1>7, <1>8 DEF Faithful
<1>10. snapshots' = Merged(snapshots, Snapshot(upto, state)) /\ ArchiveUpTo(upto)
  BY <1>2, <1>8 DEF Compact
<1> QED
  BY <1>9, <1>10, SnapshotStaysFaithful

LEMMA InstallStaysFaithful ==
    ASSUME IInv, SnapshotsAreFaithful, NEW upto \in 1..MaxSeq, NEW state \in SUBSET Updates,
           InstallSnapshot(upto, state)
    PROVE  SnapshotsAreFaithful'
<1>1. row /= "purged" /\ IsPrivate /\ upto \in Nat
  BY RepositoryAssumption DEF InstallSnapshot
<1>3. Template \cup Payloads(UpTo(History, upto)) \subseteq state
  BY DEF InstallSnapshot
<1>4. Faithful(state, upto)
  BY <1>1, <1>3 DEF Faithful, CoveredBy
<1>5. snapshots' = Merged(snapshots, Snapshot(upto, state)) /\ ArchiveUpTo(upto)
  BY DEF InstallSnapshot
<1> QED
  BY <1>1, <1>4, <1>5, SnapshotStaysFaithful

LEMMA NextStaysFaithful == IInv /\ SnapshotsAreFaithful /\ [Next]_vars => SnapshotsAreFaithful'
<1> SUFFICES ASSUME IInv, SnapshotsAreFaithful, [Next]_vars PROVE SnapshotsAreFaithful'
  OBVIOUS
<1>1. CASE \E batch \in Batches : AppendBatch(batch)
  BY <1>1, AppendStaysFaithful
<1>2. CASE Compact
  BY <1>2, CompactStaysFaithful
<1>3. CASE \E seqUpto \in 1..MaxSeq, state \in SUBSET Updates : InstallSnapshot(seqUpto, state)
  BY <1>3, InstallStaysFaithful
<1>4. CASE Trash \/ Restore
  BY <1>4 DEF Trash, Restore, tables, SnapshotsAreFaithful, History
<1>5. CASE Purge
  BY <1>5, EmptyTable DEF Purge, SnapshotsAreFaithful
<1>6. CASE \E r \in Readers : ReaderStep(r)
  BY <1>6, ReaderChangesNothing DEF SnapshotsAreFaithful, History
<1>7. CASE UNCHANGED vars
  BY <1>7 DEF vars, tables, SnapshotsAreFaithful, History
<1> QED
  BY <1>1, <1>2, <1>3, <1>4, <1>5, <1>6, <1>7 DEF Next, ReaderStep

\* Whatever interleaving of appends, compactions and client snapshots made it, a snapshot is
\* the template and every update up to its seq, so the archive may be left out of a load
\* (pgRepository.ts, compact and installSnapshot; roomPersistence.ts, buildSnapshot).
THEOREM FaithfulAlways == Spec => []SnapshotsAreFaithful
<1>1. Init => SnapshotsAreFaithful
  <2> SUFFICES ASSUME Init PROVE SnapshotsAreFaithful
    OBVIOUS
  <2>1. DOMAIN UpTo(History, 0) = {}
    BY EmptyTable DEF Init, History, Merged, UpTo
  <2>2. Payloads(UpTo(History, 0)) = {}
    BY <2>1 DEF Payloads
  <2> QED
    BY <2>2, EmptyTable DEF Init, SnapshotsAreFaithful, Snapshot
<1> QED
  BY <1>1, NextStaysFaithful, Invariant, PTL DEF Spec

(***************************************************************************)
(* The refinement: the tables implement the append-only log.               *)
(***************************************************************************)

LEMMA HistoryIsSeq ==
    ASSUME IInv, row /= "purged"
    PROVE  History \in Seq(Updates) /\ Len(History) = lastSeq
<1>1. History \in [1..lastSeq -> Updates] /\ lastSeq \in Nat /\ DOMAIN History = 1..lastSeq
  BY HistoryDomain
<1>2. History \in Seq(Updates)
  BY <1>1, SeqDef
<1>3. Len(History) = lastSeq
  BY <1>1, <1>2, LenProperties
<1> QED
  BY <1>2, <1>3

LEMMA EmptyHistory ==
    ASSUME NEW h, h = Merged(NoRows, NoRows)
    PROVE  h = <<>>
<1>1. DOMAIN h = {} /\ h = [s \in {} |-> h[s]]
  BY EmptyTable DEF Merged
<1>2. h \in [1..0 -> Updates]
  BY <1>1
<1>3. h \in Seq(Updates)
  BY <1>2, SeqDef
<1>4. Len(h) = 0
  BY <1>1, <1>3, LenProperties
<1> QED
  BY <1>3, <1>4, EmptySeq

LEMMA AllLater ==
    ASSUME NEW rows, NEW seq, \A s \in DOMAIN rows : s > seq
    PROVE  Payloads(After(rows, seq)) = Payloads(rows)
BY DEF After, Payloads

\* All live rows follow the latest snapshot.
LEMMA VisibleIs ==
    ASSUME IInv, row /= "purged"
    PROVE  Visible = LatestState(snapshots) \cup Payloads(live)
<1>1. \A s \in DOMAIN live : s > LatestSeq(snapshots)
  BY HistoryDomain DEF IInv, Numbered
<1> QED
  BY <1>1, AllLater DEF Visible

LEMMA NextVisibleIs ==
    ASSUME IInv', row' /= "purged"
    PROVE  Visible' = LatestState(snapshots') \cup Payloads(live')
<1>1. DOMAIN live' = (LatestSeq(snapshots') + 1)..lastSeq' /\ LatestSeq(snapshots') \in 0..lastSeq'
  BY DEF IInv, Numbered
<1>2. lastSeq' \in Nat
  BY RepositoryAssumption DEF IInv, TypeOK
<1>3. \A s \in DOMAIN live' : s > LatestSeq(snapshots')
  BY <1>1, <1>2
<1> QED
  BY <1>3, AllLater DEF Visible

LEMMA AppendExtends ==
    ASSUME IInv, NEW batch \in Batches, AppendBatch(batch)
    PROVE  Log!Extend(batch)
<1>1. /\ row /= "purged" /\ row' = row /\ IInv'
  BY AppendInvariant DEF AppendBatch
<1>2. /\ History \in Seq(Updates) /\ Len(History) = lastSeq /\ lastSeq \in Nat
      /\ batch \in Seq(Updates) /\ Len(batch) \in Nat /\ DOMAIN batch = 1..Len(batch)
  BY <1>1, HistoryIsSeq, HistoryDomain, BatchIsSeq
<1>3. History' \in Seq(Updates) /\ Len(History') = lastSeq + Len(batch)
  <2>1. \E n \in Nat : n = lastSeq + Len(batch)
    BY <1>2
  <2>2. IsTable(History')
    BY <1>1, MergedTables DEF IInv, TypeOK, History
  <2>3. DOMAIN History' = 1..(lastSeq + Len(batch))
    BY AppendExtendsHistory
  <2>4. History' \in [1..(lastSeq + Len(batch)) -> Updates]
    BY <2>2, <2>3 DEF IsTable
  <2>5. History' \in Seq(Updates)
    BY <2>1, <2>4, SeqDef
  <2> QED
    BY <1>2, <2>3, <2>5, LenProperties
<1>4. History' = History \o batch
  <2>1. /\ History \o batch \in Seq(Updates)
        /\ Len(History \o batch) = lastSeq + Len(batch)
        /\ \A i \in 1..(lastSeq + Len(batch)) :
              (History \o batch)[i] = IF i <= lastSeq THEN History[i] ELSE batch[i - lastSeq]
    BY <1>2, ConcatProperties
  <2>2. \A i \in 1..(lastSeq + Len(batch)) : History'[i] = (History \o batch)[i]
    BY <1>2, <2>1, AppendExtendsHistory
  <2> QED
    BY <1>3, <2>1, <2>2, SeqEqual
<1>5. Visible' = Visible \cup Log!Carried(batch)
  <2>1. DOMAIN NewRows(batch, lastSeq) = (lastSeq + 1)..(lastSeq + Len(batch))
    BY DEF NewRows
  <2>2. Payloads(NewRows(batch, lastSeq)) = {batch[i] : i \in 1..Len(batch)}
    <3>1. \A i \in 1..Len(batch) : /\ lastSeq + i \in DOMAIN NewRows(batch, lastSeq)
                                   /\ NewRows(batch, lastSeq)[lastSeq + i] = batch[i]
      BY <1>2, <2>1 DEF NewRows
    <3>2. \A s \in DOMAIN NewRows(batch, lastSeq) :
             s - lastSeq \in 1..Len(batch) /\ NewRows(batch, lastSeq)[s] = batch[s - lastSeq]
      BY <1>2, <2>1 DEF NewRows
    <3> QED
      BY <3>1, <3>2 DEF Payloads
  <2>3. \A s \in DOMAIN live : s \notin DOMAIN NewRows(batch, lastSeq)
    BY <1>1, <1>2, <2>1, HistoryDomain DEF IInv, Numbered
  <2>4. Payloads(Merged(live, NewRows(batch, lastSeq)))
           = Payloads(live) \cup Payloads(NewRows(batch, lastSeq))
    BY <2>3 DEF Payloads, Merged
  <2>5. /\ snapshots' = snapshots /\ live' = Merged(live, NewRows(batch, lastSeq))
    BY DEF AppendBatch, Reserved
  <2>6. Log!Carried(batch) = {batch[i] : i \in 1..Len(batch)}
    BY <1>2 DEF Log!Carried
  <2>7. Visible = LatestState(snapshots) \cup Payloads(live)
    BY <1>1, VisibleIs
  <2>8. Visible' = LatestState(snapshots)' \cup Payloads(live)'
    BY <1>1, NextVisibleIs
  <2> QED
    BY <2>2, <2>4, <2>5, <2>6, <2>7, <2>8
<1> QED
  BY <1>1, <1>4, <1>5 DEF Log!Extend

LEMMA CompactStutters ==
    ASSUME IInv, SnapshotsAreFaithful, Compact
    PROVE  UNCHANGED Log!logVars
<1> DEFINE folded == After(live, LatestSeq(snapshots))
<1>1. row /= "purged" /\ row' = row /\ IInv' /\ DOMAIN folded /= {}
  BY CompactInvariant DEF Compact
<1>2. /\ (CHOOSE s \in DOMAIN folded : \A t \in DOMAIN folded : t <= s) = lastSeq
      /\ folded = live /\ LatestSeq(snapshots) < lastSeq
  BY <1>1, FoldedUpto
<1>3. PICK upto, state : upto = lastSeq /\ state = BuildSnapshot(folded)
  OBVIOUS
<1>4. upto \in Nat /\ LatestSeq(snapshots) \in 0..upto
  BY <1>1, <1>3, HistoryDomain
<1>5. snapshots' = Merged(snapshots, Snapshot(upto, state)) /\ ArchiveUpTo(upto)
  BY <1>2, <1>3 DEF Compact
<1>6. History' = History
  BY <1>4, <1>5, ArchivingKeepsHistory
<1>7. Visible' = Visible
  <2>1. LatestState(snapshots') = state
    BY <1>1, <1>2, <1>3, <1>4, <1>5, NewSnapshotIsLatest
  <2>2. DOMAIN live' = {}
    <3>1. DOMAIN live = (LatestSeq(snapshots) + 1)..lastSeq
      BY <1>1 DEF IInv, Numbered
    <3> QED
      BY <1>3, <1>4, <1>5, <3>1 DEF ArchiveUpTo, After
  <2>3. state = LatestState(snapshots) \cup Payloads(live)
    BY <1>2, <1>3 DEF BuildSnapshot
  <2>4. Payloads(live') = {}
    BY <2>2 DEF Payloads
  <2> QED
    BY <1>1, <2>1, <2>3, <2>4, VisibleIs, NextVisibleIs
<1> QED
  BY <1>1, <1>6, <1>7 DEF Log!logVars

LEMMA InstallReplaces ==
    ASSUME IInv, NEW upto \in 1..MaxSeq, NEW state \in SUBSET Updates,
           InstallSnapshot(upto, state)
    PROVE  Log!Replace
<1>1. row /= "purged" /\ row' = row /\ IsPrivate /\ IInv' /\ upto \in Nat
  BY InstallInvariant, RepositoryAssumption DEF InstallSnapshot
<1>2. /\ LatestSeq(snapshots) \in 0..lastSeq /\ lastSeq \in Nat
      /\ DOMAIN live = (LatestSeq(snapshots) + 1)..lastSeq
  BY <1>1, HistoryDomain DEF IInv, Numbered
<1>3. /\ snapshots' = Merged(snapshots, Snapshot(upto, state)) /\ ArchiveUpTo(upto)
      /\ LatestSeq(snapshots) < upto
      /\ Payloads(UpTo(History, upto)) \subseteq state
  BY <1>1, <1>2 DEF InstallSnapshot, Acceptable
<1>4. History' = History
  BY <1>1, <1>3, ArchivingKeepsHistory
<1>5. LatestState(snapshots') = state
  BY <1>1, <1>3, NewSnapshotIsLatest
<1>6. Visible' = state \cup Payloads(live')
  BY <1>1, <1>5, NextVisibleIs
<1>7. Log!Carried(History) \subseteq Visible'
  <2>1. \A s \in DOMAIN History : s <= upto => History[s] \in Payloads(UpTo(History, upto))
    BY <1>1 DEF Payloads, UpTo
  <2>2. \A s \in DOMAIN History : s > upto => s \in DOMAIN live /\ History[s] = live[s]
    BY <1>1, <1>2, <1>3, HistoryDomain DEF History, Merged
  <2>3. \A s \in DOMAIN live : s > upto => live[s] \in Payloads(live')
    BY <1>3 DEF Payloads, ArchiveUpTo, After
  <2>4. \A s \in DOMAIN History : s <= upto \/ s > upto
    BY <1>1, <1>2, HistoryDomain
  <2> QED
    BY <1>3, <1>6, <2>1, <2>2, <2>3, <2>4 DEF Log!Carried
<1>8. Visible' \subseteq Updates
  <2>1. IsTable(live')
    BY <1>1 DEF IInv, TypeOK
  <2> QED
    BY <1>6, <2>1 DEF IsTable, Payloads
<1> QED
  BY <1>1, <1>4, <1>7, <1>8 DEF Log!Replace

LEMMA PurgeDeletes ==
    ASSUME IInv, Purge
    PROVE  Log!Delete
<1>1. row /= "purged" /\ row' = "purged"
  BY DEF Purge
<1>2. History' = <<>>
  BY EmptyHistory DEF Purge, History
<1>3. Visible' = {}
  BY EmptyTable DEF Purge, Visible, LatestSeq, LatestState, Payloads, After
<1> QED
  BY <1>1, <1>2, <1>3 DEF Log!Delete

LEMMA NextImplements ==
    ASSUME IInv, SnapshotsAreFaithful, [Next]_vars
    PROVE  [Log!LogNext]_Log!logVars
<1> USE DEF Log!LogNext
<1>1. CASE \E batch \in Batches : AppendBatch(batch)
  BY <1>1, AppendExtends
<1>2. CASE Compact
  BY <1>2, CompactStutters
<1>3. CASE \E seqUpto \in 1..MaxSeq, state \in SUBSET Updates : InstallSnapshot(seqUpto, state)
  BY <1>3, InstallReplaces
<1>4. CASE Trash \/ Restore
  BY <1>4 DEF Trash, Restore, tables, Log!logVars, History, Visible
<1>5. CASE Purge
  BY <1>5, PurgeDeletes
<1>6. CASE \E r \in Readers : ReaderStep(r)
  BY <1>6, ReaderChangesNothing DEF Log!logVars, History, Visible
<1>7. CASE UNCHANGED vars
  BY <1>7 DEF vars, tables, Log!logVars, History, Visible
<1> QED
  BY <1>1, <1>2, <1>3, <1>4, <1>5, <1>6, <1>7 DEF Next, ReaderStep

\* The store is an append-only log until it is purged (repository.ts, BoardRepository): seqs
\* are given out in the order of the appends, and compactions show in nothing a reader sees.
THEOREM RefinesLog == Spec => ImplementsLog
<1>1. Init => Log!LogInit
  <2> SUFFICES ASSUME Init PROVE Log!LogInit
    OBVIOUS
  <2>1. History = <<>>
    BY EmptyHistory DEF Init, History
  <2>2. Visible \subseteq Updates
    BY InitInvariant, LatestState_Type, EmptyTable, VisibleIs
    DEF Init, IInv, Payloads
  <2> QED
    BY <2>1, <2>2 DEF Log!LogInit, Init
<1>2. IInv /\ SnapshotsAreFaithful /\ [Next]_vars => [Log!LogNext]_Log!logVars
  BY NextImplements
<1> QED
  BY <1>1, <1>2, Invariant, FaithfulAlways, PTL DEF Spec, ImplementsLog, Log!LogSpec

(***************************************************************************)
(* Readers: what the locals of a read are worth at every statement.        *)
(***************************************************************************)

Latest == LatestSeq(snapshots)

\* A row got from a table is the row of the history.
RowsOfHistory(rows) == \A s \in DOMAIN rows : s \in 1..lastSeq /\ rows[s] = History[s]

\* What each statement of a read has established, however the tables changed since.
Knows(rd) ==
    /\ rd.at /= "idle" => rd.since <= lastSeq
    /\ rd.at \in {"sinceArchive", "listed", "loaded"} => RowsOfHistory(rd.got)
    /\ rd.at \in {"sinceArchive", "loaded"} =>
          \A s \in (rd.after + 1)..rd.since : s \in DOMAIN rd.got \/ s <= Latest
    /\ rd.at = "listed" => \A s \in (rd.after + 1)..rd.since : s \in DOMAIN rd.got
    /\ rd.at \in {"loadUpdates", "loaded"} =>
          /\ rd.after <= Latest
          /\ \A s \in 1..rd.after : History[s] \in rd.state

ReadersKnow == row /= "purged" => \A r \in Readers : Knows(reader[r])

\* Writers only add: the history grows at its end, the latest snapshot moves on.
LEMMA WritersOnlyAdd ==
    ASSUME IInv, row' /= "purged",
           \/ \E batch \in Batches : AppendBatch(batch)
           \/ Compact
           \/ \E seqUpto \in 1..MaxSeq, state \in SUBSET Updates : InstallSnapshot(seqUpto, state)
           \/ Trash \/ Restore
    PROVE  /\ row /= "purged" /\ reader' = reader
           /\ lastSeq \in Nat /\ lastSeq' \in Nat /\ lastSeq <= lastSeq'
           /\ Latest \in 0..lastSeq /\ Latest' \in Nat /\ Latest <= Latest'
           /\ \A s \in 1..lastSeq : History'[s] = History[s]
<1>1. row /= "purged" /\ reader' = reader
  BY DEF AppendBatch, Compact, InstallSnapshot, Trash, Restore
<1>2. lastSeq \in Nat /\ Latest \in 0..lastSeq
  BY <1>1, HistoryDomain DEF Latest
<1>3. ASSUME NEW batch \in Batches, AppendBatch(batch)
      PROVE  /\ lastSeq' \in Nat /\ lastSeq <= lastSeq' /\ Latest' = Latest
             /\ \A s \in 1..lastSeq : History'[s] = History[s]
  <2>1. Len(batch) \in Nat
    BY BatchIsSeq
  <2> QED
    BY <1>2, <1>3, <2>1, AppendExtendsHistory DEF AppendBatch, Reserved, Latest
<1>4. ASSUME Compact
      PROVE  lastSeq' = lastSeq /\ Latest' = lastSeq /\ History' = History
  <2> DEFINE folded == After(live, LatestSeq(snapshots))
  <2>1. /\ (CHOOSE s \in DOMAIN folded : \A t \in DOMAIN folded : t <= s) = lastSeq
        /\ LatestSeq(snapshots) < lastSeq
    BY <1>1, <1>4, FoldedUpto DEF Compact
  <2>2. PICK upto, state : upto = lastSeq /\ state = BuildSnapshot(folded)
    OBVIOUS
  <2>3. snapshots' = Merged(snapshots, Snapshot(upto, state)) /\ ArchiveUpTo(upto)
    BY <1>4, <2>1, <2>2 DEF Compact
  <2>4. LatestSeq(snapshots') = upto
    BY <1>1, <1>2, <2>1, <2>2, <2>3, NewSnapshotIsLatest
  <2>5. History' = History
    BY <1>2, <2>2, <2>3, ArchivingKeepsHistory
  <2> QED
    BY <1>4, <2>2, <2>4, <2>5 DEF Latest, Compact
<1>5. ASSUME NEW upto \in 1..MaxSeq, NEW state \in SUBSET Updates, InstallSnapshot(upto, state)
      PROVE  lastSeq' = lastSeq /\ Latest' = upto /\ Latest < upto /\ History' = History
  <2>1. upto \in Nat /\ LatestSeq(snapshots) < upto
    BY <1>2, <1>5, RepositoryAssumption DEF InstallSnapshot, Acceptable, Latest
  <2>2. snapshots' = Merged(snapshots, Snapshot(upto, state)) /\ ArchiveUpTo(upto)
    BY <1>5 DEF InstallSnapshot
  <2>3. LatestSeq(snapshots') = upto
    BY <1>1, <2>1, <2>2, NewSnapshotIsLatest
  <2>4. History' = History
    BY <2>1, <2>2, ArchivingKeepsHistory
  <2> QED
    BY <1>5, <2>1, <2>3, <2>4 DEF Latest, InstallSnapshot
<1>6. ASSUME Trash \/ Restore
      PROVE  lastSeq' = lastSeq /\ Latest' = Latest /\ History' = History
  BY <1>6 DEF Trash, Restore, tables, Latest, History
<1>7. CASE Compact
  BY <1>1, <1>2, <1>4, <1>7
<1>8. CASE Trash \/ Restore
  BY <1>1, <1>2, <1>6, <1>8
<1>9. CASE \E batch \in Batches : AppendBatch(batch)
  BY <1>1, <1>2, <1>3, <1>9
<1>10. CASE \E seqUpto \in 1..MaxSeq, state \in SUBSET Updates : InstallSnapshot(seqUpto, state)
  BY <1>1, <1>2, <1>5, <1>10, RepositoryAssumption
<1> QED
  BY <1>7, <1>8, <1>9, <1>10

LEMMA WritersKeepKnowledge ==
    ASSUME IInv, ReadersKnow, row' /= "purged",
           \/ \E batch \in Batches : AppendBatch(batch)
           \/ Compact
           \/ \E seqUpto \in 1..MaxSeq, state \in SUBSET Updates : InstallSnapshot(seqUpto, state)
           \/ Trash \/ Restore
    PROVE  ReadersKnow'
<1>1. /\ row /= "purged" /\ reader' = reader
      /\ lastSeq \in Nat /\ lastSeq' \in Nat /\ lastSeq <= lastSeq'
      /\ Latest \in 0..lastSeq /\ Latest' \in Nat /\ Latest <= Latest'
      /\ \A s \in 1..lastSeq : History'[s] = History[s]
  BY WritersOnlyAdd
<1>2. ASSUME NEW r \in Readers
      PROVE  Knows(reader[r])'
  <2> DEFINE rd == reader[r]
  <2>1. Knows(rd) /\ rd' = rd
    BY <1>1, <1>2 DEF ReadersKnow
  <2>2. rd.after \in Nat /\ rd.since \in Nat /\ DOMAIN rd.got \subseteq Nat
    BY <1>2, RepositoryAssumption DEF IInv, TypeOK, ReaderTypeOK, IsTable
  <2>3. rd.at /= "idle" => rd.since <= lastSeq'
    BY <1>1, <2>1, <2>2 DEF Knows
  <2>4. RowsOfHistory(rd.got) => RowsOfHistory(rd.got)'
    BY <1>1, <2>1, <2>2 DEF RowsOfHistory
  <2>5. rd.at \in {"sinceArchive", "loaded"} =>
          \A s \in (rd.after + 1)..rd.since : s \in DOMAIN rd.got \/ s <= Latest'
    BY <1>1, <2>1, <2>2 DEF Knows
  <2>6. rd.at \in {"loadUpdates", "loaded"} =>
          /\ rd.after <= Latest'
          /\ \A s \in 1..rd.after : History'[s] \in rd.state
    BY <1>1, <2>1, <2>2 DEF Knows
  <2> QED
    BY <2>1, <2>3, <2>4, <2>5, <2>6 DEF Knows
<1> QED
  BY <1>1, <1>2 DEF ReadersKnow

\* What a reader knows once it has taken a step.
LEMMA ReaderLearns ==
    ASSUME IInv, SnapshotsAreFaithful, ReadersKnow, row /= "purged",
           NEW r \in Readers, ReaderStep(r)
    PROVE  Knows(reader'[r])
<1>1. /\ lastSeq \in Nat /\ Latest \in 0..lastSeq /\ DOMAIN History = 1..lastSeq
      /\ DOMAIN live = (Latest + 1)..lastSeq /\ DOMAIN archive = 1..Latest
  BY HistoryDomain DEF IInv, Numbered, Latest
<1>2. /\ Knows(reader[r]) /\ DOMAIN reader = Readers
      /\ reader[r].after \in Nat /\ reader[r].since \in Nat
      /\ DOMAIN reader[r].got \subseteq Nat
      /\ DOMAIN reader[r] = {"at", "after", "since", "got", "state"}
  BY RepositoryAssumption DEF ReadersKnow, IInv, TypeOK, ReaderTypeOK, IsTable
<1>3. \A s \in DOMAIN live : History[s] = live[s]
  BY DEF History, Merged
<1>4. \A s \in DOMAIN archive : History[s] = archive[s]
  BY <1>1 DEF History, Merged
<1>5. CASE LoadBoardRow(r)
  BY <1>1, <1>2, <1>5 DEF LoadBoardRow, Step, Idle, Knows
<1>6. CASE LoadSnapshot(r)
  <2>1. /\ reader'[r].at = "loadUpdates" /\ reader'[r].since = reader[r].since
        /\ reader'[r].after = Latest /\ reader'[r].state = LatestState(snapshots)
        /\ reader[r].at = "loadSnapshot"
    BY <1>2, <1>6 DEF LoadSnapshot, Step, Latest
  <2>2. \A s \in 1..Latest : History[s] \in Payloads(UpTo(History, Latest))
    BY <1>1 DEF UpTo, Payloads
  <2>3. Payloads(UpTo(History, Latest)) \subseteq LatestState(snapshots)
    BY LatestIsFaithful DEF Faithful, CoveredBy, Latest
  <2> QED
    BY <1>1, <1>2, <2>1, <2>2, <2>3 DEF Knows
<1>7. CASE LoadUpdates(r)
  <2>1. /\ reader[r].at = "loadUpdates" /\ reader'[r].at = "loaded"
        /\ reader'[r].since = reader[r].since /\ reader'[r].after = reader[r].after
        /\ reader'[r].state = reader[r].state /\ reader'[r].got = After(live, reader[r].after)
    BY <1>2, <1>7 DEF LoadUpdates, Step, UpdatesAfter
  <2>2. RowsOfHistory(reader'[r].got)
    BY <1>1, <1>2, <1>3, <2>1 DEF RowsOfHistory, After
  <2>3. \A s \in (reader[r].after + 1)..reader[r].since : s \in DOMAIN reader'[r].got \/ s <= Latest
    BY <1>1, <1>2, <2>1 DEF After, Knows
  <2> QED
    BY <1>2, <2>1, <2>2, <2>3 DEF Knows
<1>8. CASE SinceArchive(r)
  <2>1. /\ reader[r].at = "sinceArchive" /\ reader'[r].at = "listed"
        /\ reader'[r].since = reader[r].since /\ reader'[r].after = reader[r].after
        /\ reader'[r].got = Merged(After(archive, reader[r].after), reader[r].got)
    BY <1>2, <1>8 DEF SinceArchive, Step, BySeq
  <2>2. RowsOfHistory(reader'[r].got)
    BY <1>1, <1>2, <1>4, <2>1 DEF RowsOfHistory, After, Merged, Knows
  <2>3. \A s \in (reader[r].after + 1)..reader[r].since : s \in DOMAIN reader'[r].got
    BY <1>1, <1>2, <2>1 DEF After, Merged, Knows
  <2> QED
    BY <1>2, <2>1, <2>2, <2>3 DEF Knows
<1>9. CASE Done(r)
  BY <1>2, <1>9 DEF Done, Step, Idle, Knows
<1>10. ASSUME NEW afterSeq \in 0..MaxSeq, SinceLive(r, afterSeq)
       PROVE  Knows(reader'[r])
  <2>1. /\ reader'[r].at = "sinceArchive" /\ reader'[r].since = lastSeq
        /\ reader'[r].after = afterSeq /\ reader'[r].got = After(live, afterSeq)
    BY <1>2, <1>10 DEF SinceLive, Step, Idle
  <2>2. afterSeq \in Nat
    BY RepositoryAssumption
  <2>3. RowsOfHistory(reader'[r].got)
    BY <1>1, <1>3, <2>1, <2>2 DEF RowsOfHistory, After
  <2>4. \A s \in (afterSeq + 1)..lastSeq : s \in DOMAIN reader'[r].got \/ s <= Latest
    BY <1>1, <2>1, <2>2 DEF After
  <2> QED
    BY <1>1, <2>1, <2>3, <2>4 DEF Knows
<1> QED
  BY <1>5, <1>6, <1>7, <1>8, <1>9, <1>10 DEF ReaderStep

LEMMA ReadersKeepKnowledge ==
    ASSUME IInv, SnapshotsAreFaithful, ReadersKnow, NEW r \in Readers, ReaderStep(r)
    PROVE  ReadersKnow'
<1>1. UNCHANGED <<row, lastSeq, live, archive, snapshots>>
  BY ReaderChangesNothing
<1>2. PICK next : reader' = [reader EXCEPT ![r] = next]
  BY ReaderChangesNothing
<1>3. SUFFICES ASSUME row /= "purged", NEW q \in Readers
               PROVE  Knows(reader[q])'
  BY <1>1 DEF ReadersKnow
<1>4. Latest' = Latest /\ History' = History
  BY <1>1 DEF Latest, History
<1>5. Knows(reader'[q])
  BY <1>2, <1>3, ReaderLearns DEF ReadersKnow, IInv, TypeOK
<1> QED
  BY <1>1, <1>4, <1>5 DEF Knows, RowsOfHistory

LEMMA NextKnows == IInv /\ SnapshotsAreFaithful /\ ReadersKnow /\ [Next]_vars => ReadersKnow'
<1> SUFFICES ASSUME IInv, SnapshotsAreFaithful, ReadersKnow, [Next]_vars PROVE ReadersKnow'
  OBVIOUS
<1>1. CASE row' = "purged"
  BY <1>1 DEF ReadersKnow
<1>2. CASE /\ row' /= "purged"
           /\ \/ \E batch \in Batches : AppendBatch(batch)
              \/ Compact
              \/ \E seqUpto \in 1..MaxSeq, state \in SUBSET Updates : InstallSnapshot(seqUpto, state)
              \/ Trash \/ Restore
  BY <1>2, WritersKeepKnowledge
<1>3. CASE Purge
  BY <1>3 DEF Purge, ReadersKnow
<1>4. CASE \E r \in Readers : ReaderStep(r)
  BY <1>4, ReadersKeepKnowledge
<1>5. CASE UNCHANGED vars
  BY <1>5 DEF vars, tables, ReadersKnow, Knows, RowsOfHistory, Latest, History
<1> QED
  BY <1>1, <1>2, <1>3, <1>4, <1>5 DEF Next, ReaderStep

LEMMA AlwaysKnow == Spec => []ReadersKnow
<1>1. Init => ReadersKnow
  BY DEF Init, ReadersKnow, Knows, Idle
<1> QED
  BY <1>1, NextKnows, Invariant, FaithfulAlways, PTL DEF Spec

\* updatesSince reads the live rows before the archived ones, so a compaction committing in
\* between shows it a row twice and never hides one (pgRepository.ts, updatesSince).
THEOREM SinceComplete == Spec => []SinceIsComplete
<1>1. IInv /\ ReadersKnow => SinceIsComplete
  BY DEF SinceIsComplete, ReadersKnow, Knows, RowsOfHistory
<1> QED
  BY <1>1, Invariant, AlwaysKnow, PTL

\* A load that meets a compaction misses only what that compaction folded: a newer snapshot
\* than the one it read holds it (pgRepository.ts, load).
THEOREM LoadMisses == Spec => []LoadMissesOnlyFolded
<1>1. IInv /\ ReadersKnow => LoadMissesOnlyFolded
  <2> SUFFICES ASSUME IInv, ReadersKnow, NEW r \in Readers, reader[r].at = "loaded",
                      row /= "purged", NEW s \in 1..reader[r].since
               PROVE  \/ IF s <= reader[r].after
                         THEN History[s] \in reader[r].state
                         ELSE s \in DOMAIN reader[r].got /\ reader[r].got[s] = History[s]
                      \/ reader[r].after < s /\ s <= LatestSeq(snapshots)
    BY DEF LoadMissesOnlyFolded
  <2>1. Knows(reader[r]) /\ reader[r].after \in Nat /\ reader[r].since \in Nat
    BY RepositoryAssumption DEF ReadersKnow, IInv, TypeOK, ReaderTypeOK
  <2>2. CASE s <= reader[r].after
    BY <2>1, <2>2 DEF Knows
  <2>3. CASE s > reader[r].after
    <3>1. s \in DOMAIN reader[r].got \/ s <= Latest
      BY <2>1, <2>3 DEF Knows
    <3> QED
      BY <2>1, <2>3, <3>1 DEF Knows, RowsOfHistory, Latest
  <2> QED
    BY <2>1, <2>2, <2>3
<1> QED
  BY <1>1, Invariant, AlwaysKnow, PTL
=============================================================================
