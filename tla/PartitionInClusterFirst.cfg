SPECIFICATION Spec
CONSTANTS
  inCluster = inCluster
  a = a
  b = b
  c = c
  d = d
  MaxLoad = 2
  Shards <- MCShards
  InCluster <- MCInCluster
  Loads <- MCLoads
  Limits <- MCLimits
INVARIANTS
  InClusterFirst
\* The partitioner ends when every shard has been placed.
CHECK_DEADLOCK FALSE
