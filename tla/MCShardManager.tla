---------------------------- MODULE MCShardManager ----------------------------
(* Two clusters and two replicas: three plans and a malformed one; and a    *)
(* number that is taken for one of the replicas.                           *)
EXTENDS ShardManager

CONSTANTS s1, s2, r0, r1, w0

MCShards == {s1, s2}
MCReplicas == {r0, r1}
MCWide == {w0}
MCInt32 == [n \in {r0, r1, w0} |-> IF n = w0 THEN r0 ELSE n]
MCPlans == {{}, {<<s1, r0>>, <<s2, r1>>}, {<<s1, r1>>, <<s2, r0>>}, {<<s1, r0>>, <<s1, r1>>}}
=============================================================================
