---------------------------- MODULE MCPrometheusPoll ----------------------------
(* Lists of one shard, of the same shard under another name, and of none;  *)
(* configurations of one metric, of two, and a malformed one.              *)
EXTENDS PrometheusPoll

CONSTANTS a, renamed, empty, one, two

MCLists == {a, renamed, empty}
MCUids == [l \in MCLists |-> IF l = empty THEN {} ELSE {"uid"}]
MCConfigs == {one, two, Malformed}
MCIds == [c \in MCConfigs |-> IF c = two THEN {"m", "n"} ELSE {"m"}]
=============================================================================
