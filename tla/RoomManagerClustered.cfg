SPECIFICATION Spec
CONSTANTS
  e1 = e1
  e2 = e2
  e3 = e3
  Edits = {e1, e2}
  Deletes = {e2}
  Before <- TwoEdits
  Members = {"m1"}
  Evictions = {"evict"}
  Awaiters = {"none", "deactivate", "activate", "evict", "shutdown"}
  MaxBatch = 1
  SnapshotEvery = 1
  MaxChain = 2
  Clustered = TRUE
CONSTRAINT UntilRaced
INVARIANTS
  AckedIsDurableUnlessRaced
  WriterCovers
  StoredIsIntegrated
