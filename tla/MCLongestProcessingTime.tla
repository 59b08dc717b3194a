------------------------ MODULE MCLongestProcessingTime ------------------------
(* The in-cluster shard and a few others, of equal and of different loads. *)
EXTENDS LongestProcessingTime

CONSTANTS inCluster, a, b, c, d, MaxLoad

MCShards == {inCluster, a, b, c, d}
MCInCluster == {inCluster}
MCLoads == 0..MaxLoad
MCLimits == {-1, 0, 1, 2, 3}
================================================================================
