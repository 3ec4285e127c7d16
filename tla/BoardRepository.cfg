SPECIFICATION Spec
CONSTANTS
  Updates = {"t", "u", "v"}
  Template = {"t"}
  IsPrivate = FALSE
  Readers = {"r1"}
  MaxBatch = 2
  MaxSeq = 4
INVARIANTS
  TypeOK
  HistoryIsWhole
  SnapshotsAreFaithful
  SinceIsComplete
  LoadMissesOnlyFolded
PROPERTY
  ImplementsLog
