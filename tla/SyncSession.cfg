SPECIFICATION FairSpec
CONSTANTS
  c1 = c1
  Clients = {c1}
  UserOf <- OneUser
  HasLink = {c1}
  e1 = e1
  d1 = d1
  Inserts = {e1}
  Deletes = {d1}
  Conns <- TwoSlots
  MaxSockets = 1
  MaxFaults = 2
  MaxChanges = 2
  Starts <- OneOrTheOther
INVARIANTS
  NeverStrandedUnlessBlinked
  SavedInsertionsAreStored
  QuietIsSent
  RevokedIsClosedUnlessRaced
PROPERTY EditsAreSaved
CHECK_DEADLOCK FALSE
