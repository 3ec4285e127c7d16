SPECIFICATION Spec
CONSTANTS
  Requests = {1, 2, 3}
  By <- Asker
  On <- Board
  Unstored = {2}
  Interviewed = {1}
  Team = {"ann", "bob"}
  Allowance <- Allowances
  Lapse = 1
  MaxTime = 1
  MaxFailures = 1
INVARIANTS
  QuotaHoldsUnlessLapsed
  OneStoryUnlessFailedOrWithheld
CHECK_DEADLOCK FALSE
