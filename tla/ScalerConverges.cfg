SPECIFICATION FairSpec
CONSTANTS
  none = none
  one = one
  two = two
  oneOther = oneOther
  Plans <- MCSmallPlans
  EmptyPlan = none
  Size <- MCSize
  MaxReplicas = 1
  Modes = {"x0y", "rollout-restart", "default"}
  Overlap = TRUE
  RateLimited = TRUE
  UserActs = {"drift", "pause"}
  FailingLookups = TRUE
  MaxChanges = 1
  MaxFaults = 2
INVARIANTS
  SettledIsInPlace
PROPERTIES
  EventuallyInPlace
\* With nothing published and nothing to correct the system is at rest.
CHECK_DEADLOCK FALSE
