SPECIFICATION Spec
CONSTANTS
  c1 = c1
  c2 = c2
  a = a
  b = b
  e0 = e0
  e1 = e1
  e2 = e2
  Clients = {c1}
  Edits = {e1}
  Earlier = {e0}
  Author <- OneWritesAll
  MaxConnections = 1
  Instances = {a, b}
  MaxSeq = 2
  MaxRequests = 0
  MaxCrashes = 1
  MaxOutages = 1
  MaxResyncs = 1
SYMMETRY Alike
CHECK_DEADLOCK FALSE
INVARIANTS
  SavedIsReceived
  Converged
