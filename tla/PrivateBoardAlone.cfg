SPECIFICATION Spec
CONSTANTS
  c1 = c1
  c2 = c2
  a = a
  b = b
  e0 = e0
  e1 = e1
  e2 = e2
  Clients = {c1, c2}
  Edits = {e1, e2}
  Earlier = {}
  Author <- EachWritesOne
  MaxConnections = 2
  Instances = {a}
  MaxSeq = 2
  MaxRequests = 2
  MaxCrashes = 1
  MaxOutages = 0
  MaxResyncs = 0
SYMMETRY AlikeWithEdits
CHECK_DEADLOCK FALSE
INVARIANTS
  SavedIsStoredUnlessResumed
  SnapshotCoversUnlessHidden
  NobodyWaits
