SPECIFICATION FairSpec
CONSTANTS
  s1 = s1
  s2 = s2
  r0 = r0
  r1 = r1
  w0 = w0
  Absent = Absent
  Deleted = Deleted
  Unset = Unset
  Garbage = Garbage
  Shards <- MCShards
  Replicas <- MCReplicas
  Wide <- MCWide
  Int32 <- MCInt32
  Plans <- MCPlans
  MaxEdits = 2
  MaxFaults = 1
INVARIANTS
  TypeOK
  SettledIsTruthful
PROPERTIES
  ReportedMeansApplied
  ImplementsContract
  EventuallyTruthful
\* With no event on its way and no request queued the manager has nothing to do.
CHECK_DEADLOCK FALSE
