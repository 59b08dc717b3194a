SPECIFICATION Spec
CONSTANTS
  inCluster = inCluster
  a = a
  b = b
  c = c
  d = d
  MaxLoad = 3
  Shards <- MCShards
  InCluster <- MCInCluster
  Loads <- MCLoads
  Limits <- MCLimits
INVARIANTS
  TypeOK
  EachShardOnce
  WithinLimits
  NoNeedlessReplica
  AtLeastHalfFull
\* The partitioner ends when every shard has been placed.
CHECK_DEADLOCK FALSE
