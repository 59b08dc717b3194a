---------------------------- MODULE MCLoadIndexing ----------------------------
(* Up to seven shards with one metric, and up to four with two.  Shards are  *)
(* numbered by the first metric: every other input is one of these with    *)
(* the shards renamed.                                                     *)
EXTENDS LoadIndexing

CONSTANTS cpu, apps, unpolled

Ascending(n) == {f \in [1..n -> 0..3] : \A i \in 1..(n - 1) : f[i] <= f[i + 1]}

MCInputs ==
    UNION {{[shard \in 1..n |-> [metric \in {cpu} |-> f[shard]]] : f \in Ascending(n)} : n \in 0..7}
    \cup
    UNION {{[shard \in 1..n |-> [metric \in {cpu, apps} |->
                                   IF metric = cpu THEN f[shard] ELSE g[shard]]] :
            f \in Ascending(n), g \in [1..n -> 0..2]} : n \in 2..4}

MCWeightings == {[metric \in {cpu} |-> 1],
                 [metric \in {cpu, apps} |-> IF metric = cpu THEN 2 ELSE 1],
                 [metric \in {cpu, unpolled} |-> 1]}
=============================================================================
