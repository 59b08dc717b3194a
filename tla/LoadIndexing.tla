----------------------------- MODULE LoadIndexing -----------------------------
(***************************************************************************)
(* What the Robust Scaling Normalizer and the Weighted p-Norm Load Index   *)
(* compute: from the values of the poll, values that can be compared with  *)
(* one another, and from these (or from those polled) a load of each shard.*)
(*                                                                         *)
(* The numbers are exact. All values are kept as whole numbers of one      *)
(* fraction of 1, 1/unit, and a load as its p-th power; the rounding of    *)
(* floating-point numbers and Quantities is left out.                      *)
(***************************************************************************)
EXTENDS FiniteSetsExt

CONSTANTS Inputs,    \* what may be polled: of each shard, a value of each metric
          Offsets,   \* values of positiveOffsetE, as numerators
          Epsilon,   \* their denominator
          None,      \* positiveOffsetE is not given; nothing is read yet
          Powers,    \* values of p
          Weightings \* values of weights

Metrics(input) == UNION {DOMAIN input[shard] : shard \in DOMAIN input}

ASSUME LoadIndexAssumption ==
    /\ \A input \in Inputs :
         /\ IsFiniteSet(DOMAIN input) /\ IsFiniteSet(Metrics(input))
         /\ input \in [DOMAIN input -> [Metrics(input) -> Nat]]
    /\ Offsets \subseteq Nat /\ Epsilon \in Nat \ {0} /\ None \notin Nat
    /\ Powers \subseteq Nat \ {0}
    /\ \A weighting \in Weightings : /\ IsFiniteSet(DOMAIN weighting)
                                    /\ weighting \in [DOMAIN weighting -> Nat]
    /\ None \notin Weightings

VARIABLES polled,  \* the values of the poll
          e,       \* positiveOffsetE, once it is read
          p, weights,  \* the same of the load index
          stage,   \* how far the values have come
          values,  \* the values the load index reads, of each shard and metric
          unit,    \* how many of them make 1
          loads    \* the p-th power of the load of each shard

vars   == <<polled, e, p, weights, stage, values, unit, loads>>

TypeOK == /\ polled \in [DOMAIN polled -> [Metrics(polled) -> Nat]]
          /\ e \in Offsets \cup {None}
          /\ p \in Powers \cup {None}
          /\ weights \in Weightings \cup {None}
          /\ stage \in {"polled", "normalized", "indexed", "failed"}
          /\ values \in [DOMAIN polled -> [Metrics(polled) -> Int]]
          /\ unit \in Nat \ {0}
          /\ loads \in [DOMAIN polled -> IF p = 1 THEN Int ELSE Nat]

Init == /\ polled \in Inputs
        /\ e = None /\ p = None /\ weights = None
        /\ stage = "polled"
        /\ values = polled /\ unit = 1
        /\ loads = [shard \in DOMAIN polled |-> 0]

------------------------------------------------------------------------------
(* Normalize. *)

(* The values of a metric, in ascending order. *)
Sorted(metric, input) ==
    [rank \in 1..Cardinality(DOMAIN input) |->
       CHOOSE v \in {input[shard][metric] : shard \in DOMAIN input} :
          /\ Cardinality({shard \in DOMAIN input : input[shard][metric] < v}) < rank
          /\ Cardinality({shard \in DOMAIN input : input[shard][metric] <= v}) >= rank]

(* Twice the median of the part of a sorted list from one index to another. *)
TwiceMedian(sorted, first, last) ==
    sorted[(first + last) \div 2] + sorted[(first + last + 1) \div 2]

(* Mutant: the spread is taken below the median only. *)
LowerSpread(sorted) ==
    LET n == Cardinality(DOMAIN sorted)
    IN IF n <= 1 THEN 0
       ELSE TwiceMedian(sorted, 1, n) - TwiceMedian(sorted, 1, n \div 2)

(* Twice the distance of the quartiles, the medians of the two halves; the *)
(* middle of an odd number of values belongs to neither.                   *)
TwiceIqr(sorted) ==
    LET n == Cardinality(DOMAIN sorted)
    IN IF n <= 1 THEN 0
       ELSE TwiceMedian(sorted, (n + 1) \div 2 + 1, n) - TwiceMedian(sorted, 1, n \div 2)

(* Mutant: values are set in relation to the whole range. *)
RangeScale(metric, input) ==
    LET sorted == Sorted(metric, input)
        n == Cardinality(DOMAIN sorted)
    IN IF sorted[n] = sorted[1] THEN 1 ELSE 2 * (sorted[n] - sorted[1])

(* Mutant: values are not set in relation to their spread. *)
Unscaled(metric, input) == 2

(* What the distance from the median is divided by, in halves. *)
Scale(metric, input) ==
    LET iqr == TwiceIqr(Sorted(metric, input)) IN IF iqr = 0 THEN 1 ELSE iqr

(* The distance from the median, in halves; none where the quartiles coincide. *)
Deviation(value, metric, input) ==
    LET sorted == Sorted(metric, input)
    IN IF TwiceIqr(sorted) = 0 THEN 0
       ELSE 2 * value - TwiceMedian(sorted, 1, Cardinality(DOMAIN sorted))

Product(f) == FoldFunction(LAMBDA x, y : x * y, 1, f)

CommonUnit(input) == Product([metric \in Metrics(input) |-> Scale(metric, input)])

Scaled(input) ==
    LET common == CommonUnit(input)
    IN [shard \in DOMAIN input |->
          [metric \in Metrics(input) |->
             Deviation(input[shard][metric], metric, input)
               * (common \div Scale(metric, input))]]

All(scaled) == UNION {{scaled[shard][metric] : metric \in DOMAIN scaled[shard]} :
                      shard \in DOMAIN scaled}

(* Mutant: the least of the values is not negative. *)
RaisedByE(scaled, offset) ==
    LET spread == Max(All(scaled)) - Min(All(scaled))
    IN [shard \in DOMAIN scaled |->
          [metric \in DOMAIN scaled[shard] |->
             Epsilon * scaled[shard][metric] + offset * spread]]

(* All values of all metrics are moved by the same offset. *)
Raised(scaled, offset) ==
    LET least  == Min(All(scaled))
        spread == Max(All(scaled)) - least
    IN [shard \in DOMAIN scaled |->
          [metric \in DOMAIN scaled[shard] |->
             Epsilon * (scaled[shard][metric] - least) + offset * spread]]

Normalize(offset) ==
    /\ stage = "polled" /\ stage' = "normalized"
    /\ e' = offset
    /\ IF offset = None
       THEN values' = Scaled(polled) /\ unit' = CommonUnit(polled)
       ELSE values' = Raised(Scaled(polled), offset) /\ unit' = Epsilon * CommonUnit(polled)
    /\ UNCHANGED <<polled, p, weights, loads>>

------------------------------------------------------------------------------
(* Calculate. *)

Power(x, n) == Product([i \in 1..n |-> x])

(* Mutant: a value counts with its square whatever its sign. *)
Squares(shard, power, weighting) ==
    SumFunction([metric \in DOMAIN weighting |-> weighting[metric] * Power(values[shard][metric], 2)])

(* The weighted sum of the powers of the values, over 1/unit^p. *)
WeightedSum(shard, power, weighting) ==
    SumFunction([metric \in DOMAIN weighting |->
                   weighting[metric] * Power(values[shard][metric], power)])

(* Mutant: what is not a number is passed on. *)
AnyRoot(power, sum) == TRUE

(* The p-th root of a negative number is not a number, nor is it a Quantity. *)
HasRoot(power, sum) == power = 1 \/ sum >= 0

(* Every weighted metric has its value, and the load of every shard is a number. *)
Calculable(power, weighting) ==
    \A shard \in DOMAIN values : /\ DOMAIN weighting \subseteq DOMAIN values[shard]
                                 /\ HasRoot(power, WeightedSum(shard, power, weighting))

(* The load index refers to the normalizer, or to the poll itself. *)
Calculate(power, weighting) ==
    /\ stage \in {"polled", "normalized"}
    /\ p' = power /\ weights' = weighting
    /\ IF Calculable(power, weighting)
       THEN /\ stage' = "indexed"
            /\ loads' = [shard \in DOMAIN values |-> WeightedSum(shard, power, weighting)]
       ELSE stage' = "failed" /\ UNCHANGED loads
    /\ UNCHANGED <<polled, e, values, unit>>

Next == \/ \E offset \in Offsets \cup {None} : Normalize(offset)
        \/ \E power \in Powers, weighting \in Weightings : Calculate(power, weighting)

Spec == Init /\ [][Next]_vars

------------------------------------------------------------------------------
(* Two shards' loads compare as their metrics do: one that has no less of  *)
(* anything weighted has no lower load index. A metric of which the        *)
(* quartiles coincide counts for nothing, and even powers of what lies     *)
(* below the median count as if it lay above: hence the condition.         *)
MoreIsHeavier ==
    stage = "indexed" /\ (p % 2 = 1 \/ \A v \in All(values) : v >= 0) =>
        \A s, t \in DOMAIN polled :
          (\A metric \in DOMAIN weights : polled[s][metric] <= polled[t][metric])
             => loads[s] <= loads[t]

(* A positive offset is all that the p-norm needs: with it, and with       *)
(* weights of metrics that are polled, the calculation never fails, and    *)
(* without it, it fails only for powers other than 1.                      *)
OffsetSuffices ==
    stage = "failed" =>
        \/ \E metric \in DOMAIN weights : metric \notin Metrics(polled)
        \/ e = None /\ p > 1

(* A metric polled in another unit and from another zero. *)
InUnit(input, metric, factor, zero) ==
    [shard \in DOMAIN input |-> [input[shard] EXCEPT ![metric] = factor * @ + zero]]

ScaledAlike(input, other) ==
    LET here  == Scaled(input)   hereUnit  == CommonUnit(input)
        there == Scaled(other)   thereUnit == CommonUnit(other)
    IN \A shard \in DOMAIN input, m \in Metrics(input) :
         there[shard][m] * hereUnit = here[shard][m] * thereUnit

(* The result does not depend on the unit a metric is polled in, nor on    *)
(* where its zero is.                                                      *)
UnitsDoNotMatter ==
    stage = "polled" =>
        \A metric \in Metrics(polled) : ScaledAlike(polled, InUnit(polled, metric, 3, 1))

(* A metric is left out of account (all its values are the same after the  *)
(* scaling) only where at least half of the shards have the same value:    *)
(* not only where "all values were identical or not enough data to compute *)
(* IQR" (line 80), so that the ones that differ may differ by any amount.  *)
IgnoredOnlyIfHalfAgree ==
    stage = "normalized" =>
        \A metric \in Metrics(polled) :
          Cardinality({values[shard][metric] : shard \in DOMAIN polled}) = 1 =>
             \E s \in DOMAIN polled :
                2 * Cardinality({t \in DOMAIN polled : polled[t][metric] = polled[s][metric]})
                   >= Cardinality(DOMAIN polled)

(* The one with the most of a metric has so much more of it. *)
OthersUnmoved(input, top, metric, more) ==
    (\A shard \in DOMAIN input : input[shard][metric] <= input[top][metric]) =>
        LET further == [input EXCEPT ![top][metric] = @ + more]
        IN \A shard \in DOMAIN input \ {top} :
             /\ Deviation(input[shard][metric], metric, further)
                  = Deviation(input[shard][metric], metric, input)
             /\ Scale(metric, further) = Scale(metric, input)

(* "Without outliers skewing the results" (DESIGN.md:204): with six shards *)
(* or more, however far the one with the most of a metric is from the      *)
(* others, these are scaled as if it were next to them.                    *)
OutliersDoNotSkew ==
    stage = "polled" /\ Cardinality(DOMAIN polled) >= 6 =>
        \A top \in DOMAIN polled, metric \in Metrics(polled) :
           OthersUnmoved(polled, top, metric, 10)
=============================================================================
