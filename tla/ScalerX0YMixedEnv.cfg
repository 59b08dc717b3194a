SPECIFICATION Spec
CONSTANTS
  none = none
  one = one
  two = two
  oneOther = oneOther
  Plans <- MCPlans
  EmptyPlan = none
  Size <- MCSize
  MaxReplicas = 2
  Modes = {"x0y"}
  Overlap = TRUE
  RateLimited = TRUE
  UserActs = {}
  FailingLookups = FALSE
  MaxChanges = 2
  MaxFaults = 0
INVARIANTS
  NoMixedEnv
\* With nothing published and nothing to correct the system is at rest.
CHECK_DEADLOCK FALSE
