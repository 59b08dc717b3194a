------------------------ MODULE MCMostWantedEvaluation ------------------------
(* Two plans of one size and a larger one. *)
EXTENDS MostWantedEvaluation, TLC

CONSTANTS none, small, other, large

MCPlans == {none, small, other, large}
MCSymmetry == Permutations({small, other})
MCSize == [p \in Plans |-> IF p = none THEN 0 ELSE IF p = large THEN 2 ELSE 1]

(* Samples that come now and then, with a fault; and one in every unit.    *)
MCPaces == {[gap |-> 3, until |-> 5, faults |-> 1], [gap |-> 1, until |-> 9, faults |-> 0]}
=============================================================================
