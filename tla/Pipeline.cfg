SPECIFICATION FairSpec
CONSTANTS
  poll1 = poll1
  poll2 = poll2
  plain = plain
  Malformed = Malformed
  Failure = Failure
  Sources <- MCSources
  Stages <- MCStages
  Kind <- MCKind
  Provider <- MCProvider
  Configs <- MCConfigs
  Data <- MCHistories
  Polls <- MCPolls
  Nothing <- MCNothing
  Calculate <- MCCalculate
  MaxEdits = 2
  MaxFaults = 1
INVARIANTS
  TypeOK
  SettledIsDerived
PROPERTIES
  EventuallyDerived
\* With nothing to compute the system is at rest.
CHECK_DEADLOCK FALSE
