SPECIFICATION Spec
CONSTANTS
  SeatOrder <- Order
  Students = {"ann"}
  MaxSubs = 1
  MaxSeats = 2
  MaxChanges = 2
  MaxTime = 1
  TrialTime = 2
  OfferUntil = 1
  MaxTx = 2
INVARIANTS
  AnsweredIsApplied
  GrantsFollowUnlessRaced
  CouponsCountOnce
  RemindedOnce
  LimitsFollowPlanUnlessMissed
PROPERTY GraceIsNeverExtended
