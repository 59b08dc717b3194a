SPECIFICATION Spec
CONSTANTS
  none = none
  small = small
  other = other
  large = large
  Plans <- MCPlans
  EmptyPlan = none
  Size <- MCSize
  ScaleUp = 2
  ScaleDown = 3
  Paces <- MCPaces
  MaxTime = 9
  MaxFaults = 1
SYMMETRY MCSymmetry
INVARIANTS
  TypeOK
  UpToDate
PROPERTIES
  ImplementsElection
  NeverAwaitsProjection
\* The clock stops at the end of the pace.
CHECK_DEADLOCK FALSE
