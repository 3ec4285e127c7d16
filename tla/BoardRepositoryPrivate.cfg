SPECIFICATION Spec
CONSTANTS
  Updates = {"u", "v"}
  Template = {}
  IsPrivate = TRUE
  Readers = {"r1"}
  MaxBatch = 2
  MaxSeq = 3
PROPERTY
  ImplementsLog
