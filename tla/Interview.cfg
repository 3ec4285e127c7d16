SPECIFICATION Spec
CONSTANTS
  Users = {"a", "b"}
  MayBe <- People
  Starters = {"a"}
  Tabs = {"b"}
  Hints = {1, 2}
  MaxInterviews = 2
  Budgets <- Mixes
  MaxRequests = 2
INVARIANTS
  ClockAndHintsHoldUnlessRaced
  CapsFollowRolesUnlessMissed
  ShownIsCurrentUnlessLost
  QuestionIsFetchedUnlessLate
CHECK_DEADLOCK FALSE
