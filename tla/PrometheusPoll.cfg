SPECIFICATION FairSpec
CONSTANTS
  a = a
  renamed = renamed
  empty = empty
  one = one
  two = two
  Malformed = Malformed
  None = None
  Lists <- MCLists
  Uids <- MCUids
  Configs <- MCConfigs
  Ids <- MCIds
  Period = 3
  RateLimit = 1
  MaxEdits = 2
  MaxFaults = 1
INVARIANTS
  TypeOK
  SettledIsCurrent
PROPERTIES
  NotPolledTwice
  EventuallyCurrent
  KeepsPolling
