-------------------------- MODULE MCReplicaSetScaler --------------------------
(* Up to two replicas; partitions of every size, and two of the same size. *)
EXTENDS ReplicaSetScaler

CONSTANTS none, one, oneOther, two

MCPlans == {none, one, two}
MCSmallPlans == {none, one, oneOther}
MCSize == [p \in Plans |-> IF p = none THEN 0 ELSE IF p = two THEN 2 ELSE 1]
=============================================================================
