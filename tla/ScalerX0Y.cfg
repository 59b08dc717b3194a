SPECIFICATION Spec
CONSTANTS
  none = none
  one = one
  two = two
  oneOther = oneOther
  Plans <- MCPlans
  EmptyPlan = none
  Size <- MCSize
  MaxReplicas = 2
  Modes = {"x0y"}
  Overlap = FALSE
  RateLimited = FALSE
  UserActs = {"pause"}
  FailingLookups = TRUE
  MaxChanges = 2
  MaxFaults = 2
INVARIANTS
  TypeOK
  NoMixedEnv
  SettledIsInPlace
PROPERTIES
  ShardsMoveAtZero
  PodsStartUnderTheirPlan
\* With nothing published and nothing to correct the system is at rest.
CHECK_DEADLOCK FALSE
