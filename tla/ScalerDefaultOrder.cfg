SPECIFICATION Spec
CONSTANTS
  none = none
  one = one
  two = two
  oneOther = oneOther
  Plans <- MCPlans
  EmptyPlan = none
  Size <- MCSize
  MaxReplicas = 2
  Modes = {"default"}
  Overlap = FALSE
  RateLimited = TRUE
  UserActs = {}
  FailingLookups = FALSE
  MaxChanges = 2
  MaxFaults = 0
PROPERTIES
  PodsStartUnderTheirPlan
\* With nothing published and nothing to correct the system is at rest.
CHECK_DEADLOCK FALSE
