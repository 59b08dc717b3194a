SPECIFICATION Spec
CONSTANTS
  cpu = cpu
  apps = apps
  unpolled = unpolled
  None = None
  Inputs <- MCInputs
  Weightings <- MCWeightings
  Offsets = {0, 1}
  Epsilon = 2
  Powers = {1, 2, 3}
INVARIANTS
  TypeOK
  MoreIsHeavier
  OffsetSuffices
  UnitsDoNotMatter
  IgnoredOnlyIfHalfAgree
  OutliersDoNotSkew
\* A calculation ends.
CHECK_DEADLOCK FALSE
