-------------------------- MODULE LoadIndexingProofs --------------------------
(***************************************************************************)
(* What TLAPS proves of the Robust Scaling Normalizer and the Weighted     *)
(* p-Norm Load Index, for any number of shards and metrics, any values,    *)
(* weights, powers and offsets.                                            *)
(***************************************************************************)
EXTENDS LoadIndexing, FoldTheorems

------------------------------------------------------------------------------
(* Powers. *)

LEMMA PowerStep ==
    ASSUME NEW x \in Int, NEW n \in Nat
    PROVE  /\ Power(x, 0) = 1
           /\ Power(x, n) \in Int
           /\ Power(x, n + 1) = x * Power(x, n)
<1> DEFINE f(m) == [i \in 1..m |-> x]
<1>1. ASSUME NEW m \in Nat
      PROVE  /\ IsFiniteSet(1..m) /\ \A i \in 1..m : f(m)[i] \in Int
             /\ Power(x, m) = ProductFunctionOnSet(f(m), 1..m)
  <2>1. IsFiniteSet(1..m)
    BY FS_Interval
  <2>2. DOMAIN f(m) = 1..m
    OBVIOUS
  <2>3. Power(x, m) = ProductFunctionOnSet(f(m), 1..m)
    BY <2>2 DEF Power, Product, FoldFunction, ProductFunctionOnSet
  <2> QED  BY <2>1, <2>3
<1>2. f(n + 1)[n + 1] = x /\ \A i \in 1..n : f(n + 1)[i] = x /\ f(n)[i] = x
  OBVIOUS
<1> HIDE DEF f
<1>3. Power(x, 0) = 1
  <2>1. 1..0 = {} /\ 0 \in Nat
    OBVIOUS
  <2> QED  BY <1>1, <2>1, ProductRemove
<1>4. Power(x, n) \in Int
  BY <1>1, ProductRemove
<1>5. (1..(n + 1)) \ {n + 1} = 1..n /\ n + 1 \in 1..(n + 1) /\ n + 1 \in Nat
  OBVIOUS
<1>6. ProductFunctionOnSet(f(n + 1), 1..(n + 1)) = x * ProductFunctionOnSet(f(n + 1), 1..n)
  <2>1. \A i \in 1..(n + 1) : ProductFunctionOnSet(f(n + 1), 1..(n + 1))
                                 = f(n + 1)[i] * ProductFunctionOnSet(f(n + 1), (1..(n + 1)) \ {i})
    BY <1>1, <1>5, ProductRemove
  <2> QED  BY <1>2, <1>5, <2>1
<1>7. ProductFunctionOnSet(f(n + 1), 1..n) = ProductFunctionOnSet(f(n), 1..n)
  BY <1>1, <1>2, ProductSame
<1> QED  BY <1>1, <1>3, <1>4, <1>5, <1>6, <1>7

(* Powers of numbers that are not negative compare as the numbers do. *)
LEMMA PowerMonotone ==
    ASSUME NEW x \in Nat, NEW y \in Nat, x <= y, NEW n \in Nat
    PROVE  Power(x, n) \in Nat /\ Power(y, n) \in Nat /\ Power(x, n) <= Power(y, n)
<1> DEFINE Holds(k) == Power(x, k) \in Nat /\ Power(y, k) \in Nat /\ Power(x, k) <= Power(y, k)
           T == {k \in Nat : ~Holds(k)}
<1>1. SUFFICES ASSUME T # {} PROVE FALSE
  OBVIOUS
<1>2. PICK k \in T : \A m \in T : k <= m
  <2> HIDE DEF Holds
  <2> QED  BY <1>1, LeastNat
<1>3. k # 0
  <2>1. Power(x, 0) = 1 /\ Power(y, 0) = 1
    BY PowerStep
  <2>2. Holds(0)
    BY <2>1
  <2> QED  BY <2>2
<1>4. k - 1 \in Nat /\ Holds(k - 1) /\ ~Holds(k)
  BY <1>2, <1>3
<1>5. Power(x, k) = x * Power(x, k - 1) /\ Power(y, k) = y * Power(y, k - 1)
  <2>1. (k - 1) + 1 = k
    BY <1>4
  <2> QED  BY <1>4, <2>1, PowerStep
<1>6. \A a, b \in Nat : a <= b => x * a \in Nat /\ y * b \in Nat /\ x * a <= y * b
  OBVIOUS
<1> QED  BY <1>4, <1>5, <1>6

(* Of a negative number, the odd powers are negative, the even ones not. *)
LEMMA PowerOfNegative ==
    ASSUME NEW x \in Int, NEW n \in Nat
    PROVE  Power(-x, n) = IF n % 2 = 0 THEN Power(x, n) ELSE -Power(x, n)
<1> DEFINE Holds(k) == Power(-x, k) = IF k % 2 = 0 THEN Power(x, k) ELSE -Power(x, k)
           T == {k \in Nat : ~Holds(k)}
<1>1. SUFFICES ASSUME T # {} PROVE FALSE
  OBVIOUS
<1>2. PICK k \in T : \A m \in T : k <= m
  <2> HIDE DEF Holds
  <2> QED  BY <1>1, LeastNat
<1>3. k # 0
  <2>1. Power(x, 0) = 1 /\ Power(-x, 0) = 1
    BY PowerStep
  <2>2. Holds(0)
    BY <2>1
  <2> QED  BY <2>2
<1>4. k - 1 \in Nat /\ Holds(k - 1) /\ ~Holds(k)
  BY <1>2, <1>3
<1> DEFINE a == Power(x, k - 1)
           b == Power(-x, k - 1)
<1>5. Power(x, k) = x * a /\ Power(-x, k) = (-x) * b /\ a \in Int /\ b \in Int
  <2>1. (k - 1) + 1 = k /\ -x \in Int
    BY <1>4
  <2> QED  BY <1>4, <2>1, PowerStep
<1>6. CASE k % 2 = 0
  <2>1. (k - 1) % 2 # 0
    BY <1>4, <1>6
  <2>2. b = -a
    BY <1>4, <2>1
  <2> HIDE DEF a, b
  <2>3. (-x) * b = x * a
    BY <1>5, <2>2
  <2> QED  BY <1>4, <1>5, <1>6, <2>3
<1>7. CASE k % 2 # 0
  <2>1. (k - 1) % 2 = 0
    BY <1>4, <1>7
  <2>2. b = a
    BY <1>4, <2>1
  <2> HIDE DEF a, b
  <2>3. (-x) * b = -(x * a)
    BY <1>5, <2>2
  <2> QED  BY <1>4, <1>5, <1>7, <2>3
<1> QED  BY <1>6, <1>7

(* Odd powers compare as the numbers do. *)
LEMMA OddPowerMonotone ==
    ASSUME NEW x \in Int, NEW y \in Int, x <= y, NEW n \in Nat, n % 2 = 1
    PROVE  Power(x, n) <= Power(y, n)
<1>1. /\ Power(x, n) \in Int /\ Power(y, n) \in Int
      /\ Power(-x, n) = -Power(x, n) /\ Power(-y, n) = -Power(y, n)
  <2>1. Power(x, n) \in Int /\ Power(y, n) \in Int
    BY PowerStep
  <2>2. n % 2 # 0
    OBVIOUS
  <2>3. Power(-x, n) = -Power(x, n)
    BY <2>2, PowerOfNegative
  <2>4. Power(-y, n) = -Power(y, n)
    BY <2>2, PowerOfNegative
  <2> QED  BY <2>1, <2>3, <2>4
<1>2. CASE x >= 0
  <2>1. x \in Nat /\ y \in Nat
    BY <1>2
  <2> QED  BY <2>1, PowerMonotone
<1>3. CASE x < 0 /\ y >= 0
  <2>1. -x \in Nat /\ y \in Nat /\ -x <= -x /\ y <= y
    BY <1>3
  <2>2. Power(-x, n) \in Nat /\ Power(y, n) \in Nat
    BY <2>1, PowerMonotone
  <2> QED  BY <1>1, <2>2
<1>4. CASE y < 0
  <2>1. -x \in Nat /\ -y \in Nat /\ -y <= -x
    BY <1>4
  <2>2. Power(-y, n) <= Power(-x, n)
    BY <2>1, PowerMonotone
  <2> QED  BY <1>1, <2>2
<1> QED  BY <1>2, <1>3, <1>4

------------------------------------------------------------------------------
(* Ranks. The values of a metric are a function on the shards. *)

Column(metric, input) == [shard \in DOMAIN input |-> input[shard][metric]]

Below(v, c) == {s \in DOMAIN c : c[s] < v}

Upto(v, c) == {s \in DOMAIN c : c[s] <= v}

(* The value at a rank: fewer than so many are less than it, and as many   *)
(* are not more.                                                           *)
AtRank(v, rank, c) == /\ Cardinality(Below(v, c)) < rank
                      /\ Cardinality(Upto(v, c)) >= rank

ValuesOf(c) == {c[s] : s \in DOMAIN c}

IsColumn(c) == c \in [DOMAIN c -> Nat] /\ IsFiniteSet(DOMAIN c)

LEMMA ColumnSets ==
    ASSUME NEW c, IsColumn(c), NEW v \in Int
    PROVE  /\ IsFiniteSet(Below(v, c)) /\ Cardinality(Below(v, c)) \in Nat
           /\ IsFiniteSet(Upto(v, c)) /\ Cardinality(Upto(v, c)) \in Nat
           /\ Cardinality(Upto(v, c)) <= Cardinality(DOMAIN c)
           /\ Cardinality(DOMAIN c) \in Nat
<1>1. Below(v, c) \subseteq DOMAIN c /\ Upto(v, c) \subseteq DOMAIN c
  BY DEF Below, Upto
<1> QED  BY <1>1, FS_Subset, FS_CardinalityType DEF IsColumn

(* A higher rank has no lower value. *)
LEMMA RanksAscend ==
    ASSUME NEW c, IsColumn(c), NEW v \in Int, NEW w \in Int,
           NEW i \in Nat, NEW j \in Nat, i <= j, AtRank(v, i, c), AtRank(w, j, c)
    PROVE  v <= w
<1>1. SUFFICES ASSUME w < v PROVE FALSE
  OBVIOUS
<1>2. Upto(w, c) \subseteq Below(v, c)
  <2>1. \A s \in DOMAIN c : c[s] \in Int
    BY DEF IsColumn
  <2> QED  BY <1>1, <2>1 DEF Upto, Below
<1>3. Cardinality(Upto(w, c)) <= Cardinality(Below(v, c))
  BY <1>2, ColumnSets, FS_Subset
<1>4. Cardinality(Upto(w, c)) \in Nat /\ Cardinality(Below(v, c)) \in Nat
  BY ColumnSets
<1> QED  BY <1>3, <1>4 DEF AtRank

LEMMA ValuesOfColumn ==
    ASSUME NEW c, IsColumn(c), NEW D \in SUBSET (DOMAIN c)
    PROVE  {c[s] : s \in D} \in SUBSET Nat /\ IsFiniteSet({c[s] : s \in D})
<1>1. {c[s] : s \in D} \in SUBSET Nat
  BY DEF IsColumn
<1>2. IsFiniteSet(D)
  BY FS_Subset DEF IsColumn
<1> DEFINE g == [s \in D |-> c[s]]
           T == {c[s] : s \in D}
<1>3. g \in Surjection(D, T)
  BY DEF Surjection
<1>4. IsFiniteSet(T)
  <2> HIDE DEF g, T
  <2> QED  BY <1>2, <1>3, FS_Surjection
<1> QED  BY <1>1, <1>4

(* Every rank has a value. *)
LEMMA RankExists ==
    ASSUME NEW c, IsColumn(c), NEW rank \in 1..Cardinality(DOMAIN c)
    PROVE  \E v \in ValuesOf(c) : AtRank(v, rank, c)
<1> DEFINE n == Cardinality(DOMAIN c)
           T == {v \in ValuesOf(c) : Cardinality(Upto(v, c)) >= rank}
<1>1. /\ ValuesOf(c) \in SUBSET Nat /\ IsFiniteSet(ValuesOf(c))
      /\ \A s \in DOMAIN c : c[s] \in Nat /\ c[s] \in ValuesOf(c)
  BY ValuesOfColumn DEF ValuesOf, IsColumn
<1>2. n \in Nat /\ n # 0 /\ rank \in Nat
  BY FS_CardinalityType DEF IsColumn
<1>3. DOMAIN c # {}
  BY <1>2, FS_EmptySet
<1>4. ValuesOf(c) # {}
  BY <1>3 DEF ValuesOf
<1>5. Max(ValuesOf(c)) \in T
  <2> DEFINE v == Max(ValuesOf(c))
  <2>1. v \in ValuesOf(c) /\ \A w \in ValuesOf(c) : w <= v
    BY <1>1, <1>4, Greatest
  <2> HIDE DEF v
  <2>2. Upto(v, c) = DOMAIN c
    BY <1>1, <2>1 DEF Upto
  <2> QED  BY <2>1, <2>2 DEF v
<1>6. PICK v \in T : \A w \in T : v <= w
  BY <1>1, <1>5, LeastNat
<1>7. v \in ValuesOf(c) /\ v \in Nat /\ Cardinality(Upto(v, c)) >= rank
  BY <1>1
<1>8. Cardinality(Below(v, c)) < rank
  <2>1. CASE Below(v, c) = {}
    BY <1>2, <2>1, FS_EmptySet
  <2>2. CASE Below(v, c) # {}
    <3> DEFINE B == {c[s] : s \in Below(v, c)}
               w == Max(B)
    <3>1. Below(v, c) \in SUBSET (DOMAIN c)
      BY DEF Below
    <3>2. B \in SUBSET Nat /\ IsFiniteSet(B) /\ B # {}
      BY <2>2, <3>1, ValuesOfColumn
    <3>3. w \in B /\ \A x \in B : x <= w
      <4> HIDE DEF B
      <4>1. B \in SUBSET Int
        BY <3>2
      <4> QED  BY <3>2, <4>1, Greatest
    <3>4. w \in Nat /\ w < v /\ w \in ValuesOf(c)
      BY <1>1, <1>7, <3>1, <3>2, <3>3 DEF Below
    <3>5. Below(v, c) = Upto(w, c)
      <4>1. ASSUME NEW s \in Below(v, c) PROVE s \in Upto(w, c)
        <5>1. s \in DOMAIN c /\ c[s] \in B
          BY DEF Below
        <5> QED  BY <3>3, <5>1 DEF Upto
      <4>2. ASSUME NEW s \in Upto(w, c) PROVE s \in Below(v, c)
        <5> HIDE DEF w
        <5>1. s \in DOMAIN c /\ c[s] <= w /\ c[s] \in Nat
          BY <1>1 DEF Upto
        <5>2. c[s] < v
          BY <1>7, <3>4, <5>1
        <5> QED  BY <5>1, <5>2 DEF Below
      <4> QED  BY <4>1, <4>2
    <3> HIDE DEF w
    <3>6. w \notin T
      BY <1>6, <1>7, <3>4
    <3>7. ~(Cardinality(Upto(w, c)) >= rank) /\ Cardinality(Upto(w, c)) \in Nat
      BY <3>4, <3>6, ColumnSets
    <3> QED  BY <1>2, <3>5, <3>7
  <2> QED  BY <2>1, <2>2
<1> QED  BY <1>7, <1>8 DEF AtRank

(* What is polled: of each shard, a value of each metric. *)
IsInput(input) == /\ IsFiniteSet(DOMAIN input) /\ IsFiniteSet(Metrics(input))
                  /\ input \in [DOMAIN input -> [Metrics(input) -> Nat]]

LEMMA InputColumn ==
    ASSUME NEW input, IsInput(input), NEW metric \in Metrics(input)
    PROVE  LET c == Column(metric, input)
           IN /\ IsColumn(c) /\ DOMAIN c = DOMAIN input
              /\ \A shard \in DOMAIN input : c[shard] = input[shard][metric]
  BY DEF Column, IsColumn, IsInput

(* A sorted list has at each rank the value of the rank. *)
LEMMA SortedRanks ==
    ASSUME NEW input, IsInput(input), NEW metric \in Metrics(input)
    PROVE  LET n == Cardinality(DOMAIN input)
               sorted == Sorted(metric, input)
               c == Column(metric, input)
           IN /\ n \in Nat /\ DOMAIN sorted = 1..n /\ Cardinality(DOMAIN sorted) = n
              /\ \A rank \in 1..n : /\ sorted[rank] \in Nat
                                    /\ \E shard \in DOMAIN input : sorted[rank] = c[shard]
                                    /\ AtRank(sorted[rank], rank, c)
<1> DEFINE n == Cardinality(DOMAIN input)
           sorted == Sorted(metric, input)
           c == Column(metric, input)
           V == {input[shard][metric] : shard \in DOMAIN input}
           P(v, rank) ==
              /\ Cardinality({shard \in DOMAIN input : input[shard][metric] < v}) < rank
              /\ Cardinality({shard \in DOMAIN input : input[shard][metric] <= v}) >= rank
<1>1. n \in Nat
  BY FS_CardinalityType DEF IsInput
<1>2. sorted = [rank \in 1..n |-> CHOOSE v \in V : P(v, rank)]
  BY DEF Sorted
<1>3. /\ IsColumn(c) /\ DOMAIN c = DOMAIN input
      /\ \A shard \in DOMAIN input : c[shard] = input[shard][metric] /\ c[shard] \in Nat
  BY InputColumn DEF IsColumn
<1>4. ValuesOf(c) = V
  BY <1>3 DEF ValuesOf
<1>5. ASSUME NEW v, NEW rank PROVE P(v, rank) <=> AtRank(v, rank, c)
  <2>1. Below(v, c) = {shard \in DOMAIN input : input[shard][metric] < v}
    BY <1>3 DEF Below
  <2>2. Upto(v, c) = {shard \in DOMAIN input : input[shard][metric] <= v}
    BY <1>3 DEF Upto
  <2> QED  BY <2>1, <2>2, Zenon DEF AtRank
<1> HIDE DEF P, sorted, c
<1>6. DOMAIN sorted = 1..n /\ Cardinality(1..n) = n
  BY <1>1, <1>2, FS_Interval
<1>7. ASSUME NEW rank \in 1..n
      PROVE  /\ sorted[rank] \in Nat
             /\ \E shard \in DOMAIN input : sorted[rank] = c[shard]
             /\ AtRank(sorted[rank], rank, c)
  <2>1. \E v \in V : P(v, rank)
    BY <1>3, <1>4, <1>5, RankExists
  <2>2. sorted[rank] = CHOOSE v \in V : P(v, rank)
    BY <1>2
  <2>3. sorted[rank] \in V /\ P(sorted[rank], rank)
    <3> HIDE DEF V
    <3> QED  BY <2>1, <2>2
  <2> QED  BY <1>3, <1>5, <2>3
<1> QED  BY <1>1, <1>6, <1>7 DEF sorted, c

(* The value of a rank is the only one that is at it. *)
LEMMA SortedUnique ==
    ASSUME NEW input, IsInput(input), NEW metric \in Metrics(input),
           NEW rank \in 1..Cardinality(DOMAIN input), NEW v \in Int,
           AtRank(v, rank, Column(metric, input))
    PROVE  v = Sorted(metric, input)[rank]
<1> DEFINE w == Sorted(metric, input)[rank]
           c == Column(metric, input)
<1>1. w \in Nat /\ AtRank(w, rank, c) /\ rank \in Nat /\ rank <= rank
  BY SortedRanks
<1>2. IsColumn(c) /\ AtRank(v, rank, c)
  BY InputColumn
<1> HIDE DEF w, c
<1>3. v <= w /\ w <= v
  <2>1. w \in Int
    BY <1>1
  <2> QED  BY <1>1, <1>2, <2>1, RanksAscend
<1> QED  BY <1>1, <1>3 DEF w

LEMMA SortedAscends ==
    ASSUME NEW input, IsInput(input), NEW metric \in Metrics(input),
           NEW i \in 1..Cardinality(DOMAIN input), NEW j \in 1..Cardinality(DOMAIN input), i <= j
    PROVE  Sorted(metric, input)[i] <= Sorted(metric, input)[j]
<1> DEFINE c == Column(metric, input)
           v == Sorted(metric, input)[i]
           w == Sorted(metric, input)[j]
<1>1. /\ v \in Int /\ AtRank(v, i, c) /\ i \in Nat
      /\ w \in Int /\ AtRank(w, j, c) /\ j \in Nat
  BY SortedRanks
<1>2. IsColumn(c)
  BY InputColumn
<1> HIDE DEF c, v, w
<1>3. v <= w
  BY <1>1, <1>2, RanksAscend
<1> QED  BY <1>3 DEF v, w

(* The indices that the medians of the list and of its halves are read at. *)
Middle(first, last) == (first + last) \div 2

LEMMA MedianIndices ==
    ASSUME NEW n \in Nat, n >= 1
    PROVE  /\ Middle(1, n) \in 1..n /\ Middle(1, n + 1) \in 1..n
           /\ Middle(1, n) <= Middle(1, n + 1)
  BY DEF Middle

LEMMA TwiceMedianAt ==
    ASSUME NEW sorted, NEW first \in Nat, NEW last \in Nat
    PROVE  TwiceMedian(sorted, first, last)
             = sorted[Middle(first, last)] + sorted[Middle(first, last + 1)]
<1>1. first + (last + 1) = first + last + 1
  OBVIOUS
<1> QED  BY <1>1 DEF TwiceMedian, Middle

(* Those of the quartiles, and how many ranks lie between them. *)
LEMMA QuartileIndices ==
    ASSUME NEW n \in Nat, n >= 2
    PROVE  LET h == n \div 2
               u == (n + 1) \div 2 + 1
           IN /\ h \in Nat /\ u \in Nat
              /\ Middle(1, h) \in 1..n /\ Middle(1, h + 1) \in 1..n
              /\ Middle(u, n) \in 1..n /\ Middle(u, n + 1) \in 1..n
              /\ Middle(1, h) <= Middle(1, h + 1) /\ Middle(1, h + 1) <= Middle(u, n)
              /\ Middle(u, n) <= Middle(u, n + 1)
              /\ 2 * (Middle(u, n + 1) - Middle(1, h) + 1) >= n
              /\ n >= 6 => Middle(u, n + 1) <= n - 1
  BY DEF Middle

(* The quartiles are in ascending order: their distance is not negative,   *)
(* and where it is nothing, all ranks from the first quartile to the third *)
(* have one value.                                                         *)
LEMMA QuartilesOf ==
    ASSUME NEW input, IsInput(input), NEW metric \in Metrics(input),
           Cardinality(DOMAIN input) >= 2
    PROVE  LET n == Cardinality(DOMAIN input)
               h == n \div 2
               u == (n + 1) \div 2 + 1
               sorted == Sorted(metric, input)
           IN /\ TwiceIqr(sorted) = sorted[Middle(u, n)] + sorted[Middle(u, n + 1)]
                                      - (sorted[Middle(1, h)] + sorted[Middle(1, h + 1)])
              /\ TwiceIqr(sorted) \in Nat
              /\ TwiceIqr(sorted) = 0 => sorted[Middle(1, h)] = sorted[Middle(u, n + 1)]
<1> DEFINE n == Cardinality(DOMAIN input)
           h == n \div 2
           u == (n + 1) \div 2 + 1
           sorted == Sorted(metric, input)
<1>1. n \in Nat /\ n >= 2 /\ Cardinality(DOMAIN sorted) = n
  BY SortedRanks
<1>2. /\ h \in Nat /\ u \in Nat
      /\ Middle(1, h) \in 1..n /\ Middle(1, h + 1) \in 1..n
      /\ Middle(u, n) \in 1..n /\ Middle(u, n + 1) \in 1..n
      /\ Middle(1, h) <= Middle(1, h + 1) /\ Middle(1, h + 1) <= Middle(u, n)
      /\ Middle(u, n) <= Middle(u, n + 1)
  <2> HIDE DEF n
  <2> QED  BY <1>1, QuartileIndices
<1>3. \A rank \in 1..n : sorted[rank] \in Nat
  BY SortedRanks
<1>4. \A i, j \in 1..n : i <= j => sorted[i] <= sorted[j]
  BY SortedAscends
<1>5. TwiceIqr(sorted) = TwiceMedian(sorted, u, n) - TwiceMedian(sorted, 1, h)
  <2>1. ~(Cardinality(DOMAIN sorted) <= 1)
    <3> HIDE DEF n, sorted
    <3> QED  BY <1>1
  <2> HIDE DEF sorted
  <2> QED  BY <1>1, <2>1, Zenon DEF TwiceIqr, u, h, n
<1> HIDE DEF n, h, u, sorted
<1>6. /\ TwiceMedian(sorted, u, n) = sorted[Middle(u, n)] + sorted[Middle(u, n + 1)]
      /\ TwiceMedian(sorted, 1, h) = sorted[Middle(1, h)] + sorted[Middle(1, h + 1)]
  BY <1>1, <1>2, TwiceMedianAt
<1>7. /\ sorted[Middle(1, h)] \in Nat /\ sorted[Middle(1, h + 1)] \in Nat
      /\ sorted[Middle(u, n)] \in Nat /\ sorted[Middle(u, n + 1)] \in Nat
      /\ sorted[Middle(1, h)] <= sorted[Middle(1, h + 1)]
      /\ sorted[Middle(1, h + 1)] <= sorted[Middle(u, n)]
      /\ sorted[Middle(u, n)] <= sorted[Middle(u, n + 1)]
  BY <1>2, <1>3, <1>4
<1>8. /\ TwiceIqr(sorted) \in Nat
      /\ TwiceIqr(sorted) = 0 => sorted[Middle(1, h)] = sorted[Middle(u, n + 1)]
  BY <1>5, <1>6, <1>7
<1>9. TwiceIqr(sorted) = sorted[Middle(u, n)] + sorted[Middle(u, n + 1)]
                           - (sorted[Middle(1, h)] + sorted[Middle(1, h + 1)])
  BY <1>5, <1>6, <1>7
<1> QED  BY <1>8, <1>9, Zenon DEF n, h, u, sorted

LEMMA ScaleType ==
    ASSUME NEW input, IsInput(input), NEW metric \in Metrics(input)
    PROVE  /\ TwiceIqr(Sorted(metric, input)) \in Nat
           /\ Scale(metric, input) \in Nat \ {0}
<1>1. TwiceIqr(Sorted(metric, input)) \in Nat
  <2>1. CASE Cardinality(DOMAIN input) <= 1
    <3>1. Cardinality(DOMAIN Sorted(metric, input)) <= 1
      BY <2>1, SortedRanks
    <3> QED  BY <3>1 DEF TwiceIqr
  <2>2. CASE ~(Cardinality(DOMAIN input) <= 1)
    <3>1. Cardinality(DOMAIN input) >= 2
      BY <2>2, SortedRanks
    <3> QED  BY <3>1, QuartilesOf
  <2> QED  BY <2>1, <2>2
<1> QED  BY <1>1 DEF Scale

(* The median of all values. *)
LEMMA MedianType ==
    ASSUME NEW input, IsInput(input), NEW metric \in Metrics(input), DOMAIN input # {}
    PROVE  LET n == Cardinality(DOMAIN input)
               sorted == Sorted(metric, input)
           IN /\ n \in Nat /\ n >= 1 /\ Cardinality(DOMAIN sorted) = n
              /\ Middle(1, n) \in 1..n /\ Middle(1, n + 1) \in 1..n
              /\ sorted[Middle(1, n)] \in Nat /\ sorted[Middle(1, n + 1)] \in Nat
              /\ TwiceMedian(sorted, 1, n) = sorted[Middle(1, n)] + sorted[Middle(1, n + 1)]
              /\ TwiceMedian(sorted, 1, n) \in Nat
<1> DEFINE n == Cardinality(DOMAIN input)
           sorted == Sorted(metric, input)
<1>1. /\ n \in Nat /\ n >= 1 /\ Cardinality(DOMAIN sorted) = n
      /\ \A rank \in 1..n : sorted[rank] \in Nat
  <2>1. n # 0
    BY FS_EmptySet DEF IsInput
  <2> QED  BY <2>1, SortedRanks
<1> HIDE DEF n, sorted
<1>2. Middle(1, n) \in 1..n /\ Middle(1, n + 1) \in 1..n
  BY <1>1, MedianIndices
<1>3. TwiceMedian(sorted, 1, n) = sorted[Middle(1, n)] + sorted[Middle(1, n + 1)]
  BY <1>1, TwiceMedianAt
<1> QED  BY <1>1, <1>2, <1>3 DEF n, sorted

LEMMA DeviationType ==
    ASSUME NEW input, IsInput(input), NEW metric \in Metrics(input), DOMAIN input # {},
           NEW value \in Nat
    PROVE  /\ Deviation(value, metric, input) \in Int
           /\ Deviation(value, metric, input) =
                IF TwiceIqr(Sorted(metric, input)) = 0 THEN 0
                ELSE 2 * value - TwiceMedian(Sorted(metric, input), 1, Cardinality(DOMAIN input))
  BY MedianType DEF Deviation

(* The common unit is a multiple of that of each metric. *)
LEMMA CommonUnitType ==
    ASSUME NEW input, IsInput(input)
    PROVE  /\ CommonUnit(input) \in Nat \ {0}
           /\ \A metric \in Metrics(input) :
                 /\ CommonUnit(input) \div Scale(metric, input) \in Nat \ {0}
                 /\ CommonUnit(input)
                      = Scale(metric, input) * (CommonUnit(input) \div Scale(metric, input))
<1> DEFINE M == Metrics(input)
           f == [metric \in M |-> Scale(metric, input)]
<1>1. IsFiniteSet(M) /\ \A metric \in M : f[metric] = Scale(metric, input) /\ f[metric] \in Nat \ {0}
  BY ScaleType DEF IsInput
<1>2. CommonUnit(input) = ProductFunctionOnSet(f, M)
  BY DEF CommonUnit, Product, FoldFunction, ProductFunctionOnSet
<1> HIDE DEF f, M
<1>3. CommonUnit(input) \in Nat \ {0}
  BY <1>1, <1>2, ProductIsPositive
<1>4. ASSUME NEW metric \in M
      PROVE  /\ CommonUnit(input) \div Scale(metric, input) \in Nat \ {0}
             /\ CommonUnit(input)
                  = Scale(metric, input) * (CommonUnit(input) \div Scale(metric, input))
  <2> DEFINE rest == ProductFunctionOnSet(f, M \ {metric})
             own  == Scale(metric, input)
  <2>1. IsFiniteSet(M \ {metric}) /\ \A x \in M \ {metric} : f[x] \in Nat \ {0}
    BY <1>1, FS_RemoveElement
  <2>2. rest \in Nat \ {0} /\ own \in Nat \ {0}
    BY <1>1, <2>1, ProductIsPositive
  <2>3. CommonUnit(input) = own * rest
    BY <1>1, <1>2, ProductRemove
  <2> HIDE DEF rest, own
  <2>4. (own * rest) \div own = rest
    BY <2>2
  <2> QED  BY <2>2, <2>3, <2>4 DEF own
<1> QED  BY <1>3, <1>4 DEF M

------------------------------------------------------------------------------
(* What Normalize makes of the values. *)

LEMMA ScaledType ==
    ASSUME NEW input, IsInput(input)
    PROVE  LET Count(metric) == CommonUnit(input) \div Scale(metric, input)
           IN /\ Scaled(input) \in [DOMAIN input -> [Metrics(input) -> Int]]
              /\ \A shard \in DOMAIN input, metric \in Metrics(input) :
                    /\ Deviation(input[shard][metric], metric, input) \in Int
                    /\ Count(metric) \in Nat \ {0}
                    /\ Scaled(input)[shard][metric]
                         = Deviation(input[shard][metric], metric, input) * Count(metric)
<1> DEFINE Count(metric) == CommonUnit(input) \div Scale(metric, input)
           D(shard, metric) == Deviation(input[shard][metric], metric, input)
<1>1. ASSUME NEW shard \in DOMAIN input, NEW metric \in Metrics(input)
      PROVE  D(shard, metric) \in Int /\ Count(metric) \in Nat \ {0}
  <2>1. input[shard][metric] \in Nat /\ DOMAIN input # {}
    BY DEF IsInput
  <2> QED  BY <2>1, DeviationType, CommonUnitType
<1>2. Scaled(input) = [shard \in DOMAIN input |->
                         [metric \in Metrics(input) |-> D(shard, metric) * Count(metric)]]
  BY DEF Scaled
<1> HIDE DEF D, Count
<1>3. \A shard \in DOMAIN input, metric \in Metrics(input) :
         D(shard, metric) * Count(metric) \in Int
  BY <1>1
<1>4. Scaled(input) \in [DOMAIN input -> [Metrics(input) -> Int]]
  BY <1>2, <1>3
<1>5. \A shard \in DOMAIN input, metric \in Metrics(input) :
         Scaled(input)[shard][metric] = D(shard, metric) * Count(metric)
  BY <1>2
<1> QED  BY <1>1, <1>4, <1>5 DEF D, Count

(* What has more of a metric does not have less of it when scaled, and of  *)
(* two that have the same of it when scaled, both have the same of it, or  *)
(* nobody's counts.                                                        *)
LEMMA ScaledMonotone ==
    ASSUME NEW input, IsInput(input), NEW metric \in Metrics(input),
           NEW s \in DOMAIN input, NEW t \in DOMAIN input
    PROVE  /\ input[s][metric] <= input[t][metric] =>
                Scaled(input)[s][metric] <= Scaled(input)[t][metric]
           /\ Scaled(input)[s][metric] = Scaled(input)[t][metric] =>
                \/ input[s][metric] = input[t][metric]
                \/ TwiceIqr(Sorted(metric, input)) = 0
<1> DEFINE x == input[s][metric]
           y == input[t][metric]
           dx == Deviation(x, metric, input)
           dy == Deviation(y, metric, input)
           q == CommonUnit(input) \div Scale(metric, input)
           m == TwiceMedian(Sorted(metric, input), 1, Cardinality(DOMAIN input))
           iqr == TwiceIqr(Sorted(metric, input))
<1>1. x \in Nat /\ y \in Nat /\ DOMAIN input # {}
  BY DEF IsInput
<1>2. /\ dx \in Int /\ dy \in Int /\ q \in Nat \ {0}
      /\ Scaled(input)[s][metric] = dx * q /\ Scaled(input)[t][metric] = dy * q
  BY ScaledType
<1>3. m \in Nat /\ dx = (IF iqr = 0 THEN 0 ELSE 2 * x - m) /\ dy = (IF iqr = 0 THEN 0 ELSE 2 * y - m)
  BY <1>1, MedianType, DeviationType
<1> HIDE DEF x, y, dx, dy, q, m, iqr
<1>4. \A a, b \in Int : (a <= b => a * q <= b * q) /\ (a * q = b * q => a = b)
  BY <1>2
<1>5. x <= y => dx <= dy
  BY <1>1, <1>3
<1>6. dx = dy => x = y \/ iqr = 0
  BY <1>1, <1>3
<1> QED  BY <1>2, <1>4, <1>5, <1>6 DEF x, y, iqr

LEMMA AllOf ==
    ASSUME NEW D, IsFiniteSet(D), NEW M, IsFiniteSet(M), NEW scaled \in [D -> [M -> Int]]
    PROVE  /\ All(scaled) \in SUBSET Int /\ IsFiniteSet(All(scaled))
           /\ \A shard \in D, metric \in M : scaled[shard][metric] \in All(scaled)
<1> DEFINE Row(shard) == {scaled[shard][metric] : metric \in M}
           Rows == {Row(shard) : shard \in D}
<1>1. All(scaled) = UNION Rows
  BY DEF All
<1>2. ASSUME NEW shard \in D PROVE Row(shard) \in SUBSET Int /\ IsFiniteSet(Row(shard))
  <2> DEFINE g == [metric \in M |-> scaled[shard][metric]]
  <2>1. Row(shard) \in SUBSET Int
    OBVIOUS
  <2>2. g \in Surjection(M, Row(shard))
    BY DEF Surjection
  <2> HIDE DEF g, Row
  <2> QED  BY <2>1, <2>2, FS_Surjection
<1>3. IsFiniteSet(Rows)
  <2> DEFINE g == [shard \in D |-> Row(shard)]
  <2> HIDE DEF Row
  <2>1. g \in Surjection(D, Rows)
    BY DEF Surjection
  <2> HIDE DEF g, Rows
  <2> QED  BY <2>1, FS_Surjection
<1>4. IsFiniteSet(UNION Rows)
  <2>1. \A row \in Rows : IsFiniteSet(row)
    BY <1>2
  <2> HIDE DEF Rows
  <2> QED  BY <1>3, <2>1, FS_UNION
<1> QED  BY <1>1, <1>2, <1>4

(* The offset leaves the order as it is, and nothing below zero. *)
LEMMA RaisedType ==
    ASSUME NEW D, IsFiniteSet(D), NEW M, IsFiniteSet(M), NEW scaled \in [D -> [M -> Int]],
           NEW offset \in Nat
    PROVE  /\ Raised(scaled, offset) \in [D -> [M -> Nat]]
           /\ \A s, t \in D, metric \in M :
                scaled[s][metric] <= scaled[t][metric]
                  <=> Raised(scaled, offset)[s][metric] <= Raised(scaled, offset)[t][metric]
<1> DEFINE least == Min(All(scaled))
           spread == Max(All(scaled)) - least
<1>1. Raised(scaled, offset) =
        [shard \in D |->
           [metric \in M |-> Epsilon * (scaled[shard][metric] - least) + offset * spread]]
  BY DEF Raised
<1>2. Epsilon \in Nat \ {0}
  BY LoadIndexAssumption
<1>3. ASSUME NEW shard \in D, NEW metric \in M
      PROVE  /\ least \in Int /\ spread \in Nat
             /\ scaled[shard][metric] \in Int /\ scaled[shard][metric] - least \in Nat
  <2>1. All(scaled) # {} /\ All(scaled) \in SUBSET Int /\ IsFiniteSet(All(scaled))
    BY AllOf
  <2>2. /\ Min(All(scaled)) \in All(scaled) /\ Max(All(scaled)) \in All(scaled)
        /\ \A y \in All(scaled) : Min(All(scaled)) <= y /\ y <= Max(All(scaled))
    BY <2>1, Greatest, Least
  <2>3. scaled[shard][metric] \in All(scaled)
    BY AllOf
  <2> QED  BY <2>1, <2>2, <2>3
<1> HIDE DEF least, spread
<1>4. ASSUME NEW shard \in D, NEW metric \in M
      PROVE  Epsilon * (scaled[shard][metric] - least) + offset * spread \in Nat
  <2>1. \A a, b, c, d \in Nat : a * b + c * d \in Nat
    OBVIOUS
  <2> QED  BY <1>2, <1>3, <2>1
<1>5. ASSUME NEW s \in D, NEW t \in D, NEW metric \in M
      PROVE  scaled[s][metric] <= scaled[t][metric]
               <=> Raised(scaled, offset)[s][metric] <= Raised(scaled, offset)[t][metric]
  <2> DEFINE a == scaled[s][metric]
             b == scaled[t][metric]
             c == offset * spread
  <2>1. a \in Int /\ b \in Int /\ least \in Int /\ c \in Nat
    BY <1>3
  <2>2. /\ Raised(scaled, offset)[s][metric] = Epsilon * (a - least) + c
        /\ Raised(scaled, offset)[t][metric] = Epsilon * (b - least) + c
    BY <1>1
  <2> HIDE DEF a, b, c
  <2>3. a <= b <=> Epsilon * (a - least) <= Epsilon * (b - least)
    BY <1>2, <2>1
  <2>4. Epsilon * (a - least) \in Int /\ Epsilon * (b - least) \in Int
    BY <1>2, <2>1
  <2>5. a <= b <=> Epsilon * (a - least) + c <= Epsilon * (b - least) + c
    BY <2>1, <2>3, <2>4
  <2> QED  BY <2>2, <2>5 DEF a, b
<1> QED  BY <1>1, <1>4, <1>5

------------------------------------------------------------------------------
(* The inductive invariant. *)

(* The values keep the order of those polled, metric by metric, and are    *)
(* not negative once an offset is given.                                   *)
ValuesInv ==
    /\ IsInput(polled)
    /\ values \in [DOMAIN polled -> [Metrics(polled) -> Int]] /\ unit \in Nat \ {0}
    /\ e \in Offsets \cup {None}
    /\ \A shard \in DOMAIN polled, metric \in Metrics(polled) :
         stage = "polled" \/ e # None => values[shard][metric] \in Nat
    /\ \A s, t \in DOMAIN polled, metric \in Metrics(polled) :
         polled[s][metric] <= polled[t][metric] => values[s][metric] <= values[t][metric]

(* What each stage has found: nothing, then normalized values, then the    *)
(* weighted sums or a reason why there are none.                           *)
StageInv ==
    /\ stage \in {"polled", "normalized", "indexed", "failed"}
    /\ stage = "polled" => e = None
    /\ stage = "normalized" =>
         values = (IF e = None THEN Scaled(polled) ELSE Raised(Scaled(polled), e))
    /\ stage \in {"polled", "normalized"} => p = None /\ weights = None
    /\ stage \in {"indexed", "failed"} => p \in Powers /\ weights \in Weightings
    /\ stage = "indexed" =>
         /\ Calculable(p, weights)
         /\ loads = [shard \in DOMAIN values |-> WeightedSum(shard, p, weights)]
    /\ stage # "indexed" => loads = [shard \in DOMAIN polled |-> 0]
    /\ OffsetSuffices

LoadInv == ValuesInv /\ StageInv

(* The weighted sum is a whole number, not negative if no value is, and no *)
(* less where no weighted metric has less.                                 *)
LEMMA SumType ==
    ASSUME ValuesInv, NEW power \in Powers, NEW weighting \in Weightings,
           DOMAIN weighting \subseteq Metrics(polled), NEW s \in DOMAIN polled
    PROVE  LET Term(metric) == weighting[metric] * Power(values[s][metric], power)
           IN /\ IsFiniteSet(DOMAIN weighting)
              /\ \A metric \in DOMAIN weighting : Term(metric) \in Int
              /\ WeightedSum(s, power, weighting) =
                   SumFunctionOnSet([metric \in DOMAIN weighting |-> Term(metric)], DOMAIN weighting)
              /\ WeightedSum(s, power, weighting) \in Int
              /\ (\A metric \in DOMAIN weighting : values[s][metric] \in Nat) =>
                    WeightedSum(s, power, weighting) \in Nat
<1> DEFINE Term(metric) == weighting[metric] * Power(values[s][metric], power)
           W == DOMAIN weighting
           f == [metric \in W |-> Term(metric)]
<1>1. IsFiniteSet(W) /\ power \in Nat /\ \A metric \in W : weighting[metric] \in Nat
  BY LoadIndexAssumption
<1>2. \A metric \in W : values[s][metric] \in Int
  BY DEF ValuesInv
<1>3. ASSUME NEW metric \in W PROVE Term(metric) \in Int
  <2>1. Power(values[s][metric], power) \in Int
    BY <1>1, <1>2, PowerStep
  <2> QED  BY <1>1, <2>1
<1>4. WeightedSum(s, power, weighting) = SumFunctionOnSet(f, W)
  BY DEF WeightedSum, SumFunction
<1>5. ASSUME NEW metric \in W, values[s][metric] \in Nat PROVE Term(metric) \in Nat
  <2>1. Power(values[s][metric], power) \in Nat
    <3>1. values[s][metric] <= values[s][metric]
      BY <1>5
    <3> QED  BY <1>1, <1>5, <3>1, PowerMonotone
  <2>2. \A a, b \in Nat : a * b \in Nat
    OBVIOUS
  <2> QED  BY <1>1, <2>1, <2>2
<1> HIDE DEF Term, W
<1>6. \A metric \in W : f[metric] = Term(metric)
  OBVIOUS
<1> HIDE DEF f
<1>7. SumFunctionOnSet(f, W) \in Int
  BY <1>1, <1>3, <1>6, IntSumRemove
<1>8. (\A metric \in W : values[s][metric] \in Nat) => SumFunctionOnSet(f, W) \in Nat
  BY <1>1, <1>5, <1>6, SumIsNat
<1> QED  BY <1>1, <1>3, <1>4, <1>7, <1>8 DEF W, f, Term

LEMMA SumOrdered ==
    ASSUME ValuesInv, NEW power \in Powers, NEW weighting \in Weightings,
           DOMAIN weighting \subseteq Metrics(polled),
           NEW s \in DOMAIN polled, NEW t \in DOMAIN polled,
           \A metric \in DOMAIN weighting : values[s][metric] <= values[t][metric],
           \/ power % 2 = 1
           \/ \A metric \in DOMAIN weighting : values[s][metric] >= 0
    PROVE  WeightedSum(s, power, weighting) <= WeightedSum(t, power, weighting)
<1> DEFINE W == DOMAIN weighting
           f == [metric \in W |-> weighting[metric] * Power(values[s][metric], power)]
           g == [metric \in W |-> weighting[metric] * Power(values[t][metric], power)]
<1>1. /\ IsFiniteSet(W)
      /\ \A metric \in W : f[metric] \in Int /\ g[metric] \in Int
      /\ WeightedSum(s, power, weighting) = SumFunctionOnSet(f, W)
      /\ WeightedSum(t, power, weighting) = SumFunctionOnSet(g, W)
  BY SumType
<1>2. power \in Nat /\ \A metric \in W : weighting[metric] \in Nat
  BY LoadIndexAssumption
<1>3. ASSUME NEW metric \in W PROVE f[metric] <= g[metric]
  <2> DEFINE x == values[s][metric]
             y == values[t][metric]
  <2>1. x \in Int /\ y \in Int /\ x <= y /\ (power % 2 = 1 \/ x >= 0)
    BY DEF ValuesInv
  <2> HIDE DEF x, y
  <2>2. Power(x, power) <= Power(y, power) /\ Power(x, power) \in Int /\ Power(y, power) \in Int
    <3>1. Power(x, power) \in Int /\ Power(y, power) \in Int
      BY <1>2, <2>1, PowerStep
    <3>2. CASE power % 2 = 1
      BY <1>2, <2>1, <3>1, <3>2, OddPowerMonotone
    <3>3. CASE x >= 0
      <4>1. x \in Nat /\ y \in Nat
        BY <2>1, <3>3
      <4> QED  BY <1>2, <2>1, <3>1, <4>1, PowerMonotone
    <3> QED  BY <2>1, <3>2, <3>3
  <2>3. \A w \in Nat : \A a, b \in Int : a <= b => w * a <= w * b
    OBVIOUS
  <2>4. f[metric] = weighting[metric] * Power(x, power) /\ g[metric] = weighting[metric] * Power(y, power)
    BY DEF x, y
  <2> QED  BY <1>2, <2>2, <2>3, <2>4
<1> HIDE DEF f, g
<1> QED  BY <1>1, <1>3, SumMonotone

LEMMA LoadInit == Init => LoadInv
<1> SUFFICES ASSUME Init PROVE LoadInv
  OBVIOUS
<1>1. /\ polled \in Inputs /\ e = None /\ p = None /\ weights = None
      /\ stage = "polled" /\ values = polled /\ unit = 1
      /\ loads = [shard \in DOMAIN polled |-> 0]
  BY DEF Init
<1>2. IsInput(polled)
  BY <1>1, LoadIndexAssumption DEF IsInput
<1>3. values \in [DOMAIN polled -> [Metrics(polled) -> Nat]]
  BY <1>1, <1>2 DEF IsInput
<1>4. ValuesInv
  BY <1>1, <1>2, <1>3 DEF ValuesInv
<1>5. StageInv
  BY <1>1 DEF StageInv, OffsetSuffices
<1> QED  BY <1>4, <1>5 DEF LoadInv

LEMMA NormalizeKeeps ==
    ASSUME LoadInv, NEW offset \in Offsets \cup {None}, Normalize(offset)
    PROVE  LoadInv'
<1> DEFINE M == Metrics(polled)
           scaled == Scaled(polled)
<1>1. /\ IsInput(polled) /\ stage = "polled" /\ stage' = "normalized" /\ e' = offset
      /\ polled' = polled /\ p' = p /\ weights' = weights /\ loads' = loads
      /\ IF offset = None
         THEN values' = scaled /\ unit' = CommonUnit(polled)
         ELSE values' = Raised(scaled, offset) /\ unit' = Epsilon * CommonUnit(polled)
  BY DEF LoadInv, ValuesInv, Normalize
<1>2. Metrics(polled)' = M /\ IsInput(polled)' /\ Scaled(polled)' = scaled
  <2>1. polled' = polled
    BY <1>1
  <2> QED  BY <1>1, <2>1
<1>3. /\ scaled \in [DOMAIN polled -> [M -> Int]]
      /\ \A s, t \in DOMAIN polled, metric \in M :
           polled[s][metric] <= polled[t][metric] => scaled[s][metric] <= scaled[t][metric]
  BY <1>1, ScaledType, ScaledMonotone
<1>4. CommonUnit(polled) \in Nat \ {0} /\ Epsilon \in Nat \ {0}
  BY <1>1, CommonUnitType, LoadIndexAssumption
<1>5. CASE offset = None
  <2>1. values' = scaled /\ unit' \in Nat \ {0}
    BY <1>1, <1>4, <1>5
  <2> QED  BY <1>1, <1>2, <1>3, <1>5, <2>1 DEF LoadInv, ValuesInv, StageInv, OffsetSuffices
<1>6. CASE offset # None
  <2> DEFINE raised == Raised(scaled, offset)
  <2>1. offset \in Nat /\ IsFiniteSet(DOMAIN polled) /\ IsFiniteSet(M)
    BY <1>1, <1>6, LoadIndexAssumption DEF IsInput
  <2>2. /\ raised \in [DOMAIN polled -> [M -> Nat]]
        /\ \A s, t \in DOMAIN polled, metric \in M :
             scaled[s][metric] <= scaled[t][metric] <=> raised[s][metric] <= raised[t][metric]
    <3> HIDE DEF M, scaled
    <3> QED  BY <1>3, <2>1, RaisedType
  <2>3. values' = raised /\ unit' \in Nat \ {0}
    <3>1. \A a, b \in Nat \ {0} : a * b \in Nat \ {0}
      OBVIOUS
    <3> QED  BY <1>1, <1>4, <1>6, <3>1
  <2> HIDE DEF raised, scaled
  <2>4. ValuesInv'
    <3>1. values' \in [DOMAIN polled -> [M -> Int]]
      BY <2>2, <2>3
    <3>2. \A s, t \in DOMAIN polled, metric \in M :
             polled[s][metric] <= polled[t][metric] => values'[s][metric] <= values'[t][metric]
      BY <1>3, <2>2, <2>3
    <3> QED  BY <1>1, <1>2, <2>2, <2>3, <3>1, <3>2 DEF ValuesInv
  <2>5. StageInv'
    BY <1>1, <1>2, <1>6, <2>3 DEF LoadInv, StageInv, OffsetSuffices, raised
  <2> QED  BY <2>4, <2>5 DEF LoadInv
<1> QED  BY <1>5, <1>6

LEMMA CalculateKeeps ==
    ASSUME LoadInv, NEW power \in Powers, NEW weighting \in Weightings, Calculate(power, weighting)
    PROVE  LoadInv'
<1>1. /\ stage \in {"polled", "normalized"} /\ p' = power /\ weights' = weighting
      /\ IF Calculable(power, weighting)
         THEN /\ stage' = "indexed"
              /\ loads' = [shard \in DOMAIN values |-> WeightedSum(shard, power, weighting)]
         ELSE stage' = "failed" /\ loads' = loads
      /\ polled' = polled /\ e' = e /\ values' = values /\ unit' = unit
  BY DEF Calculate
<1>2. power \in Nat \ {0} /\ None # weighting /\ None # power
  BY LoadIndexAssumption
<1>3. ValuesInv'
  <2>1. stage' # "polled"
    BY <1>1
  <2>2. IsInput(polled)' /\ Metrics(polled)' = Metrics(polled)
    BY <1>1 DEF LoadInv, ValuesInv
  <2> QED  BY <1>1, <2>1, <2>2 DEF LoadInv, ValuesInv
<1>4. CASE Calculable(power, weighting)
  <2>1. Calculable(p, weights)'
    BY <1>1, <1>4 DEF Calculable, WeightedSum
  <2>2. loads' = [shard \in DOMAIN values |-> WeightedSum(shard, p, weights)]'
    BY <1>1, <1>4 DEF WeightedSum
  <2>3. StageInv'
    BY <1>1, <1>4, <2>1, <2>2 DEF StageInv, OffsetSuffices
  <2> QED  BY <1>3, <2>3 DEF LoadInv
<1>5. CASE ~Calculable(power, weighting)
  <2>1. ASSUME DOMAIN weighting \subseteq Metrics(polled), e # None \/ power <= 1
        PROVE  FALSE
    <3>1. PICK shard \in DOMAIN values :
             ~(DOMAIN weighting \subseteq DOMAIN values[shard] /\ HasRoot(power, WeightedSum(shard, power, weighting)))
      BY <1>5 DEF Calculable
    <3>2. shard \in DOMAIN polled /\ DOMAIN values[shard] = Metrics(polled)
      BY <3>1 DEF LoadInv, ValuesInv
    <3>3. ~HasRoot(power, WeightedSum(shard, power, weighting))
      BY <2>1, <3>1, <3>2
    <3>4. e # None
      BY <1>2, <2>1, <3>3 DEF HasRoot
    <3>5. \A metric \in DOMAIN weighting : values[shard][metric] \in Nat
      BY <2>1, <3>2, <3>4 DEF LoadInv, ValuesInv
    <3>6. WeightedSum(shard, power, weighting) \in Nat
      BY <2>1, <3>2, <3>5, SumType DEF LoadInv
    <3> QED  BY <3>3, <3>6 DEF HasRoot
  <2>2. OffsetSuffices'
    <3>1. polled' = polled /\ weights' = weighting /\ e' = e /\ p' = power
      BY <1>1
    <3>2. \/ \E metric \in DOMAIN weighting : metric \notin Metrics(polled)
          \/ e = None /\ power > 1
      BY <1>2, <2>1
    <3> QED  BY <3>1, <3>2 DEF OffsetSuffices, Metrics
  <2>3. StageInv'
    BY <1>1, <1>5, <2>2 DEF LoadInv, StageInv
  <2> QED  BY <1>3, <2>3 DEF LoadInv
<1> QED  BY <1>4, <1>5

LEMMA LoadPreserved == LoadInv /\ [Next]_vars => LoadInv'
<1> SUFFICES ASSUME LoadInv, [Next]_vars PROVE LoadInv'
  OBVIOUS
<1>1. CASE \E offset \in Offsets \cup {None} : Normalize(offset)
  BY <1>1, NormalizeKeeps
<1>2. CASE \E power \in Powers, weighting \in Weightings : Calculate(power, weighting)
  BY <1>2, CalculateKeeps
<1>3. CASE UNCHANGED vars
  <2>1. /\ polled' = polled /\ e' = e /\ p' = p /\ weights' = weights /\ stage' = stage
        /\ values' = values /\ unit' = unit /\ loads' = loads
    BY <1>3 DEF vars
  <2>2. Metrics(polled)' = Metrics(polled) /\ Scaled(polled)' = Scaled(polled)
    BY <2>1
  <2>3. ValuesInv'
    BY <2>1, <2>2 DEF LoadInv, ValuesInv, IsInput
  <2>4. Calculable(p, weights)' <=> Calculable(p, weights)
    BY <2>1 DEF Calculable, WeightedSum
  <2>5. [shard \in DOMAIN values |-> WeightedSum(shard, p, weights)]'
          = [shard \in DOMAIN values |-> WeightedSum(shard, p, weights)]
    BY <2>1 DEF WeightedSum
  <2>6. OffsetSuffices'
    BY <2>1, <2>2 DEF LoadInv, StageInv, OffsetSuffices
  <2>7. Raised(Scaled(polled), e)' = Raised(Scaled(polled), e)
    BY <2>1
  <2>8. StageInv'
    BY <2>1, <2>2, <2>4, <2>5, <2>6, <2>7 DEF LoadInv, StageInv
  <2> QED  BY <2>3, <2>8 DEF LoadInv
<1> QED  BY <1>1, <1>2, <1>3 DEF Next

LEMMA LoadHolds == Spec => []LoadInv
  BY LoadInit, LoadPreserved, PTL DEF Spec

------------------------------------------------------------------------------
(* For any shards, metrics, values, weights, powers and offsets: the values *)
(* that the load index reads are there for every shard and metric, and a   *)
(* load other than of the first power is not negative, so that it has a    *)
(* root.                                                                   *)
THEOREM TypeCorrect == Spec => []TypeOK
<1>1. LoadInv => TypeOK
  <2> SUFFICES ASSUME LoadInv PROVE TypeOK
    OBVIOUS
  <2>1. /\ polled \in [DOMAIN polled -> [Metrics(polled) -> Nat]] /\ e \in Offsets \cup {None}
        /\ values \in [DOMAIN polled -> [Metrics(polled) -> Int]] /\ unit \in Nat \ {0}
    BY DEF LoadInv, ValuesInv, IsInput
  <2>2. /\ stage \in {"polled", "normalized", "indexed", "failed"}
        /\ p \in Powers \cup {None} /\ weights \in Weightings \cup {None}
    BY DEF LoadInv, StageInv
  <2>3. loads \in [DOMAIN polled -> IF p = 1 THEN Int ELSE Nat]
    <3>1. CASE stage = "indexed"
      <4>1. /\ p \in Powers /\ weights \in Weightings /\ Calculable(p, weights)
            /\ loads = [shard \in DOMAIN polled |-> WeightedSum(shard, p, weights)]
        BY <2>1, <3>1 DEF LoadInv, StageInv
      <4>2. ASSUME NEW shard \in DOMAIN polled
            PROVE  /\ WeightedSum(shard, p, weights) \in Int
                   /\ p # 1 => WeightedSum(shard, p, weights) \in Nat
        <5>1. /\ DOMAIN values = DOMAIN polled /\ DOMAIN values[shard] = Metrics(polled)
          BY <2>1
        <5>2. DOMAIN weights \subseteq Metrics(polled) /\ HasRoot(p, WeightedSum(shard, p, weights))
          BY <4>1, <5>1 DEF Calculable
        <5>3. WeightedSum(shard, p, weights) \in Int
          BY <4>1, <5>2, SumType DEF LoadInv
        <5> QED  BY <5>2, <5>3 DEF HasRoot
      <4> QED  BY <4>1, <4>2
    <3>2. CASE stage # "indexed"
      BY <3>2 DEF LoadInv, StageInv
    <3> QED  BY <3>1, <3>2
  <2> QED  BY <2>1, <2>2, <2>3 DEF TypeOK
<1> QED  BY <1>1, LoadHolds, PTL

(* For any powers and weights: with an offset, the calculation fails only  *)
(* for want of a metric; the normalized values, those of Raised, are never *)
(* negative, so neither is any weighted sum of their powers.               *)
THEOREM OffsetIsEnough == Spec => []OffsetSuffices
<1>1. LoadInv => OffsetSuffices
  BY DEF LoadInv, StageInv
<1> QED  BY <1>1, LoadHolds, PTL

(* For any number of shards and metrics, any values, weights and powers:   *)
(* normalized or not, with an offset or without, a shard that has no less  *)
(* of anything weighted has no lower load index, as far as the condition   *)
(* on powers and signs goes.                                               *)
THEOREM HeavierWhereMore == Spec => []MoreIsHeavier
<1>1. LoadInv => MoreIsHeavier
  <2> SUFFICES ASSUME LoadInv, stage = "indexed",
                      p % 2 = 1 \/ \A v \in All(values) : v >= 0,
                      NEW s \in DOMAIN polled, NEW t \in DOMAIN polled,
                      \A metric \in DOMAIN weights : polled[s][metric] <= polled[t][metric]
               PROVE  loads[s] <= loads[t]
    BY DEF MoreIsHeavier
  <2>1. /\ ValuesInv /\ p \in Powers /\ weights \in Weightings /\ Calculable(p, weights)
        /\ loads = [shard \in DOMAIN values |-> WeightedSum(shard, p, weights)]
    BY DEF LoadInv, StageInv
  <2>2. /\ IsInput(polled) /\ values \in [DOMAIN polled -> [Metrics(polled) -> Int]]
        /\ \A metric \in Metrics(polled) :
             polled[s][metric] <= polled[t][metric] => values[s][metric] <= values[t][metric]
    BY <2>1 DEF ValuesInv
  <2>3. DOMAIN weights \subseteq Metrics(polled)
    BY <2>1, <2>2 DEF Calculable
  <2>4. \A metric \in DOMAIN weights : values[s][metric] <= values[t][metric]
    BY <2>2, <2>3
  <2>5. \/ p % 2 = 1
        \/ \A metric \in DOMAIN weights : values[s][metric] >= 0
    <3>1. \A metric \in Metrics(polled) : values[s][metric] \in All(values)
      <4>1. IsFiniteSet(DOMAIN polled) /\ IsFiniteSet(Metrics(polled))
        BY <2>2 DEF IsInput
      <4> QED  BY <2>2, <4>1, AllOf
    <3> QED  BY <2>3, <3>1
  <2>6. WeightedSum(s, p, weights) <= WeightedSum(t, p, weights)
    BY <2>1, <2>3, <2>4, <2>5, SumOrdered
  <2> QED  BY <2>1, <2>2, <2>6
<1> QED  BY <1>1, LoadHolds, PTL

------------------------------------------------------------------------------
(* What is left out of account. *)

(* Where the quartiles of two shards or more coincide, half of them agree: *)
(* those on the ranks from the first quartile to the third.                *)
LEMMA QuartilesAgree ==
    ASSUME NEW input, IsInput(input), NEW metric \in Metrics(input),
           Cardinality(DOMAIN input) >= 2, TwiceIqr(Sorted(metric, input)) = 0
    PROVE  \E s \in DOMAIN input :
              2 * Cardinality({t \in DOMAIN input : input[t][metric] = input[s][metric]})
                >= Cardinality(DOMAIN input)
<1> DEFINE n == Cardinality(DOMAIN input)
           first == Middle(1, n \div 2)
           last == Middle((n + 1) \div 2 + 1, n + 1)
           c == Column(metric, input)
           v == Sorted(metric, input)[first]
           Agree == {t \in DOMAIN input : c[t] = v}
<1>1. n \in Nat /\ n >= 2
  BY SortedRanks
<1>2. first \in 1..n /\ last \in 1..n /\ 2 * (last - first + 1) >= n
  <2> HIDE DEF n
  <2> QED  BY <1>1, QuartileIndices
<1>3. v = Sorted(metric, input)[last]
  BY QuartilesOf
<1>4. /\ v \in Nat /\ AtRank(v, first, c) /\ AtRank(v, last, c)
      /\ \E s \in DOMAIN input : v = c[s]
  <2> HIDE DEF n, first, last
  <2>1. \A rank \in 1..n : /\ Sorted(metric, input)[rank] \in Nat
                           /\ \E s \in DOMAIN input : Sorted(metric, input)[rank] = c[s]
                           /\ AtRank(Sorted(metric, input)[rank], rank, c)
    BY SortedRanks DEF n
  <2> QED  BY <1>2, <1>3, <2>1
<1>5. /\ IsColumn(c) /\ DOMAIN c = DOMAIN input
      /\ \A s \in DOMAIN input : c[s] = input[s][metric] /\ c[s] \in Nat
  BY InputColumn DEF IsColumn
<1> HIDE DEF n, first, last, c, v
<1>6. Upto(v, c) = Below(v, c) \cup Agree /\ Below(v, c) \cap Agree = {}
  BY <1>4, <1>5 DEF Upto, Below
<1>7. IsFiniteSet(Agree) /\ Cardinality(Agree) \in Nat
  BY <1>5, FS_Subset, FS_CardinalityType DEF IsColumn
<1>8. Cardinality(Upto(v, c)) = Cardinality(Below(v, c)) + Cardinality(Agree)
  <2>1. IsFiniteSet(Below(v, c)) /\ Cardinality(Below(v, c)) \in Nat
    BY <1>4, <1>5, ColumnSets
  <2> HIDE DEF Agree
  <2>2. Cardinality(Below(v, c) \cap Agree) = 0
    BY <1>6, FS_EmptySet
  <2>3. Cardinality(Below(v, c) \cup Agree) =
          Cardinality(Below(v, c)) + Cardinality(Agree) - Cardinality(Below(v, c) \cap Agree)
    BY <1>7, <2>1, FS_Union
  <2> QED  BY <1>6, <1>7, <2>1, <2>2, <2>3
<1>9. 2 * Cardinality(Agree) >= n
  <2>1. /\ Cardinality(Below(v, c)) \in Nat /\ Cardinality(Below(v, c)) < first
        /\ Cardinality(Upto(v, c)) >= last
    BY <1>4, <1>5, ColumnSets DEF AtRank
  <2> HIDE DEF Agree
  <2> QED  BY <1>1, <1>2, <1>7, <1>8, <2>1
<1>10. PICK s \in DOMAIN input : v = c[s]
  BY <1>4
<1>11. Agree = {t \in DOMAIN input : input[t][metric] = input[s][metric]}
  BY <1>5, <1>10
<1> QED  BY <1>9, <1>11 DEF n

(* For any number of shards and metrics and any values: whatever the       *)
(* offset does, a metric of which all normalized values are the same is    *)
(* one that half of the shards agree in.                                   *)
THEOREM OnlyHalfAgreeing == Spec => []IgnoredOnlyIfHalfAgree
<1>1. LoadInv => IgnoredOnlyIfHalfAgree
  <2> SUFFICES ASSUME LoadInv, stage = "normalized", NEW metric \in Metrics(polled),
                      Cardinality({values[shard][metric] : shard \in DOMAIN polled}) = 1
               PROVE  \E s \in DOMAIN polled :
                         2 * Cardinality({t \in DOMAIN polled :
                                            polled[t][metric] = polled[s][metric]})
                           >= Cardinality(DOMAIN polled)
    BY DEF IgnoredOnlyIfHalfAgree
  <2> DEFINE V == {values[shard][metric] : shard \in DOMAIN polled}
             D == DOMAIN polled
             Agreeing(s) == {t \in D : polled[t][metric] = polled[s][metric]}
  <2>1. /\ IsInput(polled) /\ IsFiniteSet(D) /\ Cardinality(D) \in Nat
        /\ values = (IF e = None THEN Scaled(polled) ELSE Raised(Scaled(polled), e))
        /\ e \in Offsets \cup {None} /\ IsFiniteSet(Metrics(polled))
    BY FS_CardinalityType DEF LoadInv, ValuesInv, StageInv, IsInput
  <2>2. D # {}
    <3> SUFFICES ASSUME D = {} PROVE FALSE
      OBVIOUS
    <3>1. V = {}
      OBVIOUS
    <3>2. Cardinality(V) = 0
      <4> HIDE DEF V
      <4> QED  BY <3>1, FS_EmptySet
    <3> QED  BY <3>2
  <2>3. PICK x : V = {x}
    <3>1. IsFiniteSet(V)
      <4> DEFINE g == [shard \in D |-> values[shard][metric]]
      <4>1. g \in Surjection(D, V)
        BY DEF Surjection
      <4> HIDE DEF g, V
      <4> QED  BY <2>1, <4>1, FS_Surjection
    <3>2. Cardinality(V) = 1
      OBVIOUS
    <3> HIDE DEF V
    <3> QED  BY <3>1, <3>2, FS_Singleton
  <2>4. \A s, t \in D : values[s][metric] = values[t][metric]
    BY <2>3
  <2>5. \A s, t \in D : Scaled(polled)[s][metric] = Scaled(polled)[t][metric]
    <3>1. CASE e = None
      BY <2>1, <2>4, <3>1
    <3>2. CASE e # None
      <4> DEFINE scaled == Scaled(polled)
                 raised == Raised(scaled, e)
      <4>1. e \in Nat /\ values = raised
        BY <2>1, <3>2, LoadIndexAssumption
      <4>2. scaled \in [D -> [Metrics(polled) -> Int]]
        BY <2>1, ScaledType
      <4>3. /\ raised \in [D -> [Metrics(polled) -> Nat]]
            /\ \A s, t \in D : scaled[s][metric] <= scaled[t][metric]
                                 <=> raised[s][metric] <= raised[t][metric]
        <5> HIDE DEF scaled, D
        <5> QED  BY <2>1, <4>1, <4>2, RaisedType
      <4> HIDE DEF raised, scaled, D
      <4>4. ASSUME NEW s \in D, NEW t \in D PROVE scaled[s][metric] = scaled[t][metric]
        <5>1. raised[s][metric] = raised[t][metric] /\ raised[s][metric] \in Nat
          BY <2>4, <4>1, <4>3
        <5>2. scaled[s][metric] <= scaled[t][metric] /\ scaled[t][metric] <= scaled[s][metric]
          BY <4>3, <5>1
        <5>3. scaled[s][metric] \in Int /\ scaled[t][metric] \in Int
          BY <4>2
        <5> QED  BY <5>2, <5>3
      <4> QED  BY <4>4 DEF scaled, D
    <3> QED  BY <3>1, <3>2
  <2>6. CASE TwiceIqr(Sorted(metric, polled)) = 0 /\ Cardinality(D) >= 2
    BY <2>1, <2>6, QuartilesAgree
  <2>7. CASE Cardinality(D) <= 1
    <3>1. PICK s \in D : TRUE
      BY <2>2
    <3>2. IsFiniteSet(Agreeing(s)) /\ Cardinality(Agreeing(s)) \in Nat /\ Agreeing(s) # {}
      BY <2>1, FS_Subset, FS_CardinalityType
    <3>3. Cardinality(Agreeing(s)) # 0
      BY <3>2, FS_EmptySet
    <3>4. 2 * Cardinality(Agreeing(s)) >= Cardinality(D)
      <4> HIDE DEF D, Agreeing
      <4> QED  BY <2>1, <2>7, <3>2, <3>3
    <3> QED  BY <3>4
  <2>8. CASE TwiceIqr(Sorted(metric, polled)) # 0
    <3>1. PICK s \in D : TRUE
      BY <2>2
    <3>2. Agreeing(s) = D
      BY <2>1, <2>5, <2>8, ScaledMonotone
    <3>3. 2 * Cardinality(D) >= Cardinality(D)
      BY <2>1
    <3> QED  BY <3>2, <3>3
  <2>9. Cardinality(D) >= 2 \/ Cardinality(D) <= 1
    BY <2>1
  <2> QED  BY <2>6, <2>7, <2>8, <2>9
<1> QED  BY <1>1, LoadHolds, PTL

------------------------------------------------------------------------------
(* Outliers. *)

(* Two inputs of the same shards whose lists agree but for the last rank   *)
(* have the same quartiles and the same median, if there are six or more.  *)
LEMMA SameButTheLast ==
    ASSUME NEW a, IsInput(a), NEW b, IsInput(b), DOMAIN a = DOMAIN b,
           NEW metric, metric \in Metrics(a), metric \in Metrics(b),
           Cardinality(DOMAIN a) >= 6,
           \A rank \in 1..(Cardinality(DOMAIN a) - 1) :
              Sorted(metric, a)[rank] = Sorted(metric, b)[rank]
    PROVE  /\ Scale(metric, a) = Scale(metric, b)
           /\ \A value \in Nat : Deviation(value, metric, a) = Deviation(value, metric, b)
<1> DEFINE n == Cardinality(DOMAIN a)
           h == n \div 2
           u == (n + 1) \div 2 + 1
           sa == Sorted(metric, a)
           sb == Sorted(metric, b)
<1>1. n \in Nat /\ n >= 6 /\ n >= 2 /\ Cardinality(DOMAIN b) = n /\ DOMAIN a # {} /\ DOMAIN b # {}
  <2>1. n \in Nat /\ n >= 6
    BY SortedRanks
  <2>2. DOMAIN a # {}
    BY <2>1, FS_EmptySet
  <2> QED  BY <2>1, <2>2
<1>2. /\ Middle(1, h) \in 1..(n - 1) /\ Middle(1, h + 1) \in 1..(n - 1)
      /\ Middle(u, n) \in 1..(n - 1) /\ Middle(u, n + 1) \in 1..(n - 1)
      /\ Middle(1, n) \in 1..(n - 1) /\ Middle(1, n + 1) \in 1..(n - 1)
  <2> HIDE DEF n
  <2> QED  BY <1>1 DEF Middle
<1>3. /\ TwiceIqr(sa) = sa[Middle(u, n)] + sa[Middle(u, n + 1)]
                          - (sa[Middle(1, h)] + sa[Middle(1, h + 1)])
      /\ TwiceMedian(sa, 1, n) = sa[Middle(1, n)] + sa[Middle(1, n + 1)]
  BY <1>1, QuartilesOf, MedianType
<1>4. /\ TwiceIqr(sb) = sb[Middle(u, n)] + sb[Middle(u, n + 1)]
                          - (sb[Middle(1, h)] + sb[Middle(1, h + 1)])
      /\ TwiceMedian(sb, 1, n) = sb[Middle(1, n)] + sb[Middle(1, n + 1)]
  BY <1>1, QuartilesOf, MedianType
<1>5. \A rank \in 1..(n - 1) : sa[rank] = sb[rank]
  OBVIOUS
<1> HIDE DEF n, h, u, sa, sb
<1>6. TwiceIqr(sa) = TwiceIqr(sb) /\ TwiceMedian(sa, 1, n) = TwiceMedian(sb, 1, n)
  <2>1. /\ sa[Middle(u, n)] = sb[Middle(u, n)] /\ sa[Middle(u, n + 1)] = sb[Middle(u, n + 1)]
        /\ sa[Middle(1, h)] = sb[Middle(1, h)] /\ sa[Middle(1, h + 1)] = sb[Middle(1, h + 1)]
        /\ sa[Middle(1, n)] = sb[Middle(1, n)] /\ sa[Middle(1, n + 1)] = sb[Middle(1, n + 1)]
    BY <1>2, <1>5
  <2> QED  BY <1>3, <1>4, <2>1
<1>7. Scale(metric, a) = Scale(metric, b)
  BY <1>6 DEF Scale, sa, sb
<1>8. ASSUME NEW value \in Nat
      PROVE  Deviation(value, metric, a) = Deviation(value, metric, b)
  <2>1. Deviation(value, metric, a) = IF TwiceIqr(sa) = 0 THEN 0 ELSE 2 * value - TwiceMedian(sa, 1, n)
    BY <1>1, DeviationType DEF sa, n
  <2>2. Deviation(value, metric, b) = IF TwiceIqr(sb) = 0 THEN 0 ELSE 2 * value - TwiceMedian(sb, 1, n)
    <3>1. Cardinality(DOMAIN b) = Cardinality(DOMAIN a)
      OBVIOUS
    <3> QED  BY <1>1, <3>1, DeviationType DEF sb, n
  <2> QED  BY <1>6, <2>1, <2>2
<1> QED  BY <1>7, <1>8

(* However far the greatest value goes, it keeps the last rank, and the    *)
(* values of the other ranks stay what they are.                           *)
LEMMA OthersKeepTheirRanks ==
    ASSUME NEW c, IsColumn(c), NEW d, IsColumn(d), DOMAIN c = DOMAIN d,
           NEW top \in DOMAIN c, \A s \in DOMAIN c : c[s] <= c[top],
           \A s \in DOMAIN c \ {top} : d[s] = c[s],
           d[top] >= c[top],
           NEW rank \in 1..(Cardinality(DOMAIN c) - 1),
           NEW s \in DOMAIN c, AtRank(c[s], rank, c)
    PROVE  AtRank(c[s], rank, d)
<1> DEFINE v == c[s]
           D == DOMAIN c
<1>1. /\ v \in Nat /\ \A t \in D : c[t] \in Nat /\ d[t] \in Nat
      /\ IsFiniteSet(D) /\ Cardinality(D) \in Nat /\ rank \in Nat
  BY FS_CardinalityType DEF IsColumn
<1>2. Cardinality(Below(v, d)) < rank
  <2>1. Below(v, d) \subseteq Below(v, c)
    <3>1. ASSUME NEW t \in D, d[t] < v PROVE c[t] < v
      <4>1. c[t] <= d[t]
        BY <1>1
      <4> QED  BY <1>1, <3>1, <4>1
    <3> QED  BY <3>1 DEF Below
  <2>2. IsFiniteSet(Below(v, c)) /\ Cardinality(Below(v, c)) \in Nat /\ Cardinality(Below(v, d)) \in Nat
    BY <1>1, ColumnSets
  <2>3. Cardinality(Below(v, d)) <= Cardinality(Below(v, c))
    BY <2>1, <2>2, FS_Subset
  <2> HIDE DEF v
  <2>4. Cardinality(Below(v, c)) < rank
    BY DEF AtRank, v
  <2> QED  BY <1>1, <2>2, <2>3, <2>4
<1>3. Cardinality(Upto(v, d)) >= rank
  <2>1. CASE v < c[top]
    <3>1. Upto(v, d) = Upto(v, c)
      <4>1. ASSUME NEW t \in D PROVE d[t] <= v <=> c[t] <= v
        <5>1. CASE t = top
          <6>1. ~(d[top] <= v) /\ ~(c[top] <= v)
            BY <1>1, <2>1
          <6> QED  BY <5>1, <6>1
        <5>2. CASE t # top
          BY <5>2
        <5> QED  BY <5>1, <5>2
      <4> QED  BY <4>1 DEF Upto
    <3> QED  BY <3>1 DEF AtRank
  <2>2. CASE v = c[top]
    <3>1. D \ {top} \subseteq Upto(v, d)
      BY <2>2 DEF Upto
    <3>2. IsFiniteSet(Upto(v, d)) /\ Cardinality(Upto(v, d)) \in Nat
      BY <1>1, ColumnSets
    <3>3. Cardinality(D \ {top}) = Cardinality(D) - 1
      BY <1>1, FS_RemoveElement
    <3>4. Cardinality(D \ {top}) <= Cardinality(Upto(v, d))
      BY <3>1, <3>2, FS_Subset
    <3> HIDE DEF D, v
    <3>5. rank <= Cardinality(D) - 1
      BY <1>1 DEF D
    <3> QED  BY <1>1, <3>2, <3>3, <3>4, <3>5
  <2>3. v <= c[top] /\ c[top] \in Nat
    BY <1>1
  <2> QED  BY <1>1, <2>1, <2>2, <2>3
<1> QED  BY <1>2, <1>3 DEF AtRank

(* For any six shards or more, any values and any metric: the one with the *)
(* most of it may have any amount more, and the others are scaled as       *)
(* before; the quartiles and the median do not look at the last rank.      *)
THEOREM OutliersAside ==
    /\ Spec => []OutliersDoNotSkew
    /\ Spec => [](\A top \in DOMAIN polled, metric \in Metrics(polled), more \in Nat :
                    Cardinality(DOMAIN polled) >= 6 => OthersUnmoved(polled, top, metric, more))
<1> DEFINE AnyAmount ==
              \A top \in DOMAIN polled, metric \in Metrics(polled), more \in Nat :
                 Cardinality(DOMAIN polled) >= 6 => OthersUnmoved(polled, top, metric, more)
<1>1. LoadInv => AnyAmount
  <2> SUFFICES ASSUME LoadInv, Cardinality(DOMAIN polled) >= 6,
                      NEW top \in DOMAIN polled, NEW metric \in Metrics(polled), NEW more \in Nat,
                      \A shard \in DOMAIN polled : polled[shard][metric] <= polled[top][metric],
                      NEW shard \in DOMAIN polled \ {top}
               PROVE  LET further == [polled EXCEPT ![top][metric] = @ + more]
                      IN /\ Deviation(polled[shard][metric], metric, further)
                              = Deviation(polled[shard][metric], metric, polled)
                         /\ Scale(metric, further) = Scale(metric, polled)
    BY DEF OthersUnmoved
  <2> DEFINE further == [polled EXCEPT ![top][metric] = @ + more]
             M == Metrics(polled)
             D == DOMAIN polled
  <2>1. IsInput(polled) /\ polled \in [D -> [M -> Nat]]
    BY DEF LoadInv, ValuesInv, IsInput
  <2>2. /\ further \in [D -> [M -> Nat]] /\ DOMAIN further = D
        /\ \A s \in D \ {top} : further[s][metric] = polled[s][metric]
        /\ further[top][metric] = polled[top][metric] + more
    <3> HIDE DEF M, D
    <3>1. metric \in M /\ top \in D /\ polled[top][metric] \in Nat /\ DOMAIN polled = D
      BY <2>1 DEF M, D
    <3> QED  BY <2>1, <3>1
  <2>3. Metrics(further) = M
    <3>1. \A s \in D : DOMAIN further[s] = DOMAIN polled[s]
      BY <2>1, <2>2
    <3> HIDE DEF further
    <3> QED  BY <2>2, <3>1 DEF Metrics
  <2> HIDE DEF further
  <2>4. IsInput(further)
    BY <2>1, <2>2, <2>3 DEF IsInput
  <2>5. ASSUME NEW rank \in 1..(Cardinality(D) - 1)
        PROVE  Sorted(metric, polled)[rank] = Sorted(metric, further)[rank]
    <3> DEFINE c == Column(metric, polled)
               d == Column(metric, further)
    <3>1. /\ IsColumn(c) /\ DOMAIN c = D /\ \A s \in D : c[s] = polled[s][metric] /\ c[s] \in Nat
          /\ IsColumn(d) /\ DOMAIN d = D /\ \A s \in D : d[s] = further[s][metric]
      BY <2>1, <2>2, <2>3, <2>4, InputColumn DEF IsColumn
    <3>2. rank \in 1..Cardinality(D) /\ Cardinality(DOMAIN further) = Cardinality(D)
      BY <2>1, <2>2, SortedRanks
    <3>3. PICK s \in D : Sorted(metric, polled)[rank] = c[s] /\ AtRank(c[s], rank, c)
      BY <2>1, <3>2, SortedRanks
    <3>4. /\ \A t \in D : c[t] <= c[top]
          /\ \A t \in D \ {top} : d[t] = c[t]
          /\ d[top] >= c[top]
      <4>1. c[top] \in Nat /\ d[top] = c[top] + more /\ \A t \in D \ {top} : d[t] = c[t]
        BY <2>2, <3>1
      <4>2. \A t \in D : c[t] <= c[top]
        BY <3>1
      <4> HIDE DEF c, d, D
      <4> QED  BY <4>1, <4>2
    <3> HIDE DEF c, d, D
    <3>5. AtRank(c[s], rank, d)
      <4>1. top \in DOMAIN c /\ DOMAIN c = DOMAIN d
        BY <3>1 DEF D
      <4> QED  BY <3>1, <3>3, <3>4, <4>1, OthersKeepTheirRanks
    <3>6. c[s] = Sorted(metric, further)[rank]
      <4>1. c[s] \in Int /\ rank \in 1..Cardinality(DOMAIN further) /\ metric \in Metrics(further)
        BY <2>3, <3>1, <3>2
      <4> QED  BY <2>4, <3>5, <4>1, SortedUnique DEF d
    <3> QED  BY <3>3, <3>6
  <2>6. /\ Scale(metric, polled) = Scale(metric, further)
        /\ \A value \in Nat : Deviation(value, metric, polled) = Deviation(value, metric, further)
    BY <2>1, <2>2, <2>3, <2>4, <2>5, SameButTheLast
  <2>7. polled[shard][metric] \in Nat
    BY <2>1
  <2> QED  BY <2>6, <2>7 DEF further
<1>2. LoadInv => OutliersDoNotSkew
  <2>1. 10 \in Nat
    OBVIOUS
  <2> HIDE DEF AnyAmount
  <2>2. ASSUME AnyAmount PROVE OutliersDoNotSkew
    BY <2>1, <2>2 DEF OutliersDoNotSkew, AnyAmount
  <2> QED  BY <1>1, <2>2
<1> HIDE DEF AnyAmount
<1>3. (Spec => []OutliersDoNotSkew) /\ (Spec => []AnyAmount)
  BY <1>1, <1>2, LoadHolds, PTL
<1> QED  BY <1>3 DEF AnyAmount

------------------------------------------------------------------------------
(* Units. *)

(* Polled in another unit and from another zero, values keep their ranks,  *)
(* and with them the quartiles and the median, in the new unit.            *)
LEMMA OtherUnit ==
    ASSUME NEW a, IsInput(a), NEW b, IsInput(b), DOMAIN a = DOMAIN b, DOMAIN a # {},
           NEW metric, metric \in Metrics(a), metric \in Metrics(b),
           NEW k \in Nat \ {0}, NEW z \in Nat, b = InUnit(a, metric, k, z)
    PROVE  \/ /\ Scale(metric, b) = k * Scale(metric, a)
              /\ \A s \in DOMAIN a : Deviation(b[s][metric], metric, b)
                                       = k * Deviation(a[s][metric], metric, a)
           \/ \A s \in DOMAIN a : /\ Deviation(b[s][metric], metric, b) = 0
                                  /\ Deviation(a[s][metric], metric, a) = 0
<1> DEFINE n == Cardinality(DOMAIN a)
           h == n \div 2
           u == (n + 1) \div 2 + 1
           sa == Sorted(metric, a)
           sb == Sorted(metric, b)
           c == Column(metric, a)
           d == Column(metric, b)
<1>0. \A s \in DOMAIN a : b[s][metric] = k * a[s][metric] + z
  <2>1. \A s \in DOMAIN a : metric \in DOMAIN a[s] /\ b[s] = [a[s] EXCEPT ![metric] = k * @ + z]
    BY DEF InUnit, IsInput
  <2> QED  BY <2>1
<1>1. /\ n \in Nat /\ n >= 1
      /\ \A rank \in 1..n : /\ sa[rank] \in Nat /\ AtRank(sa[rank], rank, c)
  BY MedianType, SortedRanks
<1>2. /\ IsColumn(c) /\ DOMAIN c = DOMAIN a /\ \A s \in DOMAIN a : c[s] = a[s][metric] /\ c[s] \in Nat
      /\ IsColumn(d) /\ DOMAIN d = DOMAIN a /\ \A s \in DOMAIN a : d[s] = b[s][metric] /\ d[s] \in Nat
  BY InputColumn DEF IsColumn
<1> HIDE DEF c, d
<1>3. ASSUME NEW rank \in 1..n PROVE sb[rank] = k * sa[rank] + z
  <2> DEFINE v == sa[rank]
             w == k * v + z
  <2>1. v \in Nat /\ w \in Int /\ AtRank(v, rank, c)
    BY <1>1
  <2> HIDE DEF v
  <2>2. \A s \in DOMAIN a : (d[s] < w <=> c[s] < v) /\ (d[s] <= w <=> c[s] <= v)
    <3>1. \A s \in DOMAIN a : d[s] = k * c[s] + z
      BY <1>0, <1>2
    <3>2. \A x \in Nat : /\ k * x \in Nat /\ k * v \in Nat
                         /\ k * x < k * v <=> x < v
                         /\ k * x <= k * v <=> x <= v
      BY <2>1
    <3> QED  BY <1>2, <2>1, <3>1, <3>2
  <2>3. Below(w, d) = Below(v, c) /\ Upto(w, d) = Upto(v, c)
    BY <1>2, <2>2 DEF Below, Upto
  <2>4. AtRank(w, rank, d)
    BY <2>1, <2>3 DEF AtRank
  <2>5. w = sb[rank]
    <3> HIDE DEF w, sb
    <3>1. rank \in 1..Cardinality(DOMAIN b)
      OBVIOUS
    <3> QED  BY <2>1, <2>4, <3>1, SortedUnique DEF d, sb
  <2> QED  BY <2>5 DEF v
<1>4. /\ Middle(1, n) \in 1..n /\ Middle(1, n + 1) \in 1..n
      /\ TwiceMedian(sa, 1, n) = sa[Middle(1, n)] + sa[Middle(1, n + 1)]
      /\ TwiceMedian(sb, 1, n) = sb[Middle(1, n)] + sb[Middle(1, n + 1)]
      /\ TwiceMedian(sa, 1, n) \in Nat
  <2>1. Cardinality(DOMAIN b) = n
    OBVIOUS
  <2> QED  BY <2>1, MedianType
<1> DEFINE ma == TwiceMedian(sa, 1, n)
           mb == TwiceMedian(sb, 1, n)
           ia == TwiceIqr(sa)
           ib == TwiceIqr(sb)
<1>5. mb = k * ma + 2 * z /\ ma \in Nat
  <2> HIDE DEF n, sa, sb
  <2>1. /\ sb[Middle(1, n)] = k * sa[Middle(1, n)] + z /\ sa[Middle(1, n)] \in Nat
        /\ sb[Middle(1, n + 1)] = k * sa[Middle(1, n + 1)] + z /\ sa[Middle(1, n + 1)] \in Nat
    BY <1>1, <1>3, <1>4
  <2>2. \A x, y \in Nat : (k * x + z) + (k * y + z) = k * (x + y) + 2 * z
    OBVIOUS
  <2> QED  BY <1>4, <2>1, <2>2
<1>6. ib = k * ia /\ ia \in Nat
  <2>1. CASE n <= 1
    <3>1. Cardinality(DOMAIN sa) = n /\ Cardinality(DOMAIN sb) = n
      BY SortedRanks
    <3> QED  BY <2>1, <3>1 DEF TwiceIqr
  <2>2. CASE n >= 2
    <3>1. /\ ia = sa[Middle(u, n)] + sa[Middle(u, n + 1)] - (sa[Middle(1, h)] + sa[Middle(1, h + 1)])
          /\ ib = sb[Middle(u, n)] + sb[Middle(u, n + 1)] - (sb[Middle(1, h)] + sb[Middle(1, h + 1)])
      <4>1. Cardinality(DOMAIN b) = n
        OBVIOUS
      <4> QED  BY <2>2, <4>1, QuartilesOf
    <3>2. /\ Middle(1, h) \in 1..n /\ Middle(1, h + 1) \in 1..n
          /\ Middle(u, n) \in 1..n /\ Middle(u, n + 1) \in 1..n
      <4> HIDE DEF n
      <4> QED  BY <1>1, <2>2, QuartileIndices
    <3> HIDE DEF n, h, u, sa, sb, ia, ib
    <3>3. /\ sb[Middle(u, n)] = k * sa[Middle(u, n)] + z /\ sa[Middle(u, n)] \in Nat
          /\ sb[Middle(u, n + 1)] = k * sa[Middle(u, n + 1)] + z /\ sa[Middle(u, n + 1)] \in Nat
          /\ sb[Middle(1, h)] = k * sa[Middle(1, h)] + z /\ sa[Middle(1, h)] \in Nat
          /\ sb[Middle(1, h + 1)] = k * sa[Middle(1, h + 1)] + z /\ sa[Middle(1, h + 1)] \in Nat
      BY <1>1, <1>3, <3>2
    <3>4. ia \in Nat
      BY ScaleType DEF ia, sa
    <3>5. \A x, y, v, w \in Nat :
             (k * x + z) + (k * y + z) - ((k * v + z) + (k * w + z)) = k * (x + y - (v + w))
      OBVIOUS
    <3> QED  BY <3>1, <3>3, <3>4, <3>5
  <2> QED  BY <1>1, <2>1, <2>2
<1>7. ASSUME NEW s \in DOMAIN a
      PROVE  /\ a[s][metric] \in Nat /\ b[s][metric] = k * a[s][metric] + z
             /\ Deviation(a[s][metric], metric, a) = (IF ia = 0 THEN 0 ELSE 2 * a[s][metric] - ma)
             /\ Deviation(b[s][metric], metric, b) = (IF ib = 0 THEN 0 ELSE 2 * b[s][metric] - mb)
  <2>1. a[s][metric] \in Nat /\ b[s][metric] \in Nat /\ b[s][metric] = k * a[s][metric] + z
    BY <1>0, <1>2
  <2>2. Deviation(a[s][metric], metric, a) = (IF ia = 0 THEN 0 ELSE 2 * a[s][metric] - ma)
    BY <2>1, DeviationType
  <2>3. Deviation(b[s][metric], metric, b) = (IF ib = 0 THEN 0 ELSE 2 * b[s][metric] - mb)
    <3>1. Cardinality(DOMAIN b) = n
      OBVIOUS
    <3> QED  BY <2>1, <3>1, DeviationType
  <2> QED  BY <2>1, <2>2, <2>3
<1>8. Scale(metric, a) = (IF ia = 0 THEN 1 ELSE ia) /\ Scale(metric, b) = (IF ib = 0 THEN 1 ELSE ib)
  BY DEF Scale
<1> HIDE DEF ia, ib, ma, mb
<1>9. CASE ia = 0
  <2>1. ib = 0
    BY <1>6, <1>9
  <2> QED  BY <1>7, <1>9, <2>1
<1>10. CASE ia # 0
  <2>1. ib # 0
    <3>1. \A x \in Nat : k * x = 0 => x = 0
      OBVIOUS
    <3> QED  BY <1>6, <1>10, <3>1
  <2>2. Scale(metric, b) = k * Scale(metric, a)
    BY <1>6, <1>8, <1>10, <2>1
  <2>3. ASSUME NEW s \in DOMAIN a
        PROVE  Deviation(b[s][metric], metric, b) = k * Deviation(a[s][metric], metric, a)
    <3>1. 2 * (k * a[s][metric] + z) - (k * ma + 2 * z) = k * (2 * a[s][metric] - ma)
      <4>1. \A x, y \in Nat : 2 * (k * x + z) - (k * y + 2 * z) = k * (2 * x - y)
        OBVIOUS
      <4> QED  BY <1>5, <1>7, <4>1
    <3> QED  BY <1>5, <1>7, <1>10, <2>1, <3>1
  <2> QED  BY <2>2, <2>3
<1> QED  BY <1>9, <1>10

LEMMA ListOfRanks ==
    ASSUME NEW metric, NEW input
    PROVE  Sorted(metric, input)
             = [rank \in 1..Cardinality(DOMAIN input) |-> Sorted(metric, input)[rank]]
<1> DEFINE At(rank) == CHOOSE v \in {input[shard][metric] : shard \in DOMAIN input} :
                 /\ Cardinality({shard \in DOMAIN input : input[shard][metric] < v}) < rank
                 /\ Cardinality({shard \in DOMAIN input : input[shard][metric] <= v}) >= rank
           sorted == Sorted(metric, input)
<1>1. sorted = [rank \in 1..Cardinality(DOMAIN input) |-> At(rank)]
  BY DEF Sorted
<1> HIDE DEF At, sorted
<1>2. sorted = [rank \in 1..Cardinality(DOMAIN input) |-> sorted[rank]]
  BY <1>1
<1> QED  BY <1>2 DEF sorted

(* The same values make the same list. *)
LEMMA SameMetric ==
    ASSUME NEW a, IsInput(a), NEW b, IsInput(b), DOMAIN a = DOMAIN b,
           NEW metric, metric \in Metrics(a), metric \in Metrics(b),
           \A s \in DOMAIN a : b[s][metric] = a[s][metric]
    PROVE  Sorted(metric, a) = Sorted(metric, b)
<1> DEFINE n == Cardinality(DOMAIN a)
           sa == Sorted(metric, a)
           sb == Sorted(metric, b)
           c == Column(metric, a)
<1>1. c = Column(metric, b)
  BY DEF Column
<1>2. /\ sa = [rank \in 1..n |-> sa[rank]]
      /\ sb = [rank \in 1..n |-> sb[rank]]
  BY ListOfRanks
<1>3. ASSUME NEW rank \in 1..n PROVE sa[rank] = sb[rank]
  <2>1. sa[rank] \in Int /\ AtRank(sa[rank], rank, c)
    BY SortedRanks
  <2>2. rank \in 1..Cardinality(DOMAIN b)
    OBVIOUS
  <2> HIDE DEF sa, c
  <2> QED  BY <1>1, <2>1, <2>2, SortedUnique
<1> HIDE DEF sa, sb
<1>4. [rank \in 1..n |-> sa[rank]] = [rank \in 1..n |-> sb[rank]]
  BY <1>3
<1>5. sa = sb
  BY <1>2, <1>4, Zenon
<1> QED  BY <1>5 DEF sa, sb

(* For any number of shards and metrics and any values: the unit and the   *)
(* zero that one metric is polled in change no normalized value, of this   *)
(* metric or of another.                                                   *)
THEOREM AnyUnit ==
    /\ Spec => []UnitsDoNotMatter
    /\ Spec => [](\A metric \in Metrics(polled), k \in Nat \ {0}, z \in Nat :
                    ScaledAlike(polled, InUnit(polled, metric, k, z)))
<1> DEFINE EveryUnit == \A metric \in Metrics(polled), k \in Nat \ {0}, z \in Nat :
                           ScaledAlike(polled, InUnit(polled, metric, k, z))
<1>1. LoadInv => EveryUnit
  <2> SUFFICES ASSUME LoadInv, NEW metric \in Metrics(polled), NEW k \in Nat \ {0}, NEW z \in Nat,
                      NEW shard \in DOMAIN polled, NEW m \in Metrics(polled)
               PROVE  LET other == InUnit(polled, metric, k, z)
                      IN Scaled(other)[shard][m] * CommonUnit(polled)
                           = Scaled(polled)[shard][m] * CommonUnit(other)
    BY DEF ScaledAlike
  <2> DEFINE other == InUnit(polled, metric, k, z)
             M == Metrics(polled)
             D == DOMAIN polled
  <2>1. IsInput(polled) /\ polled \in [D -> [M -> Nat]]
    BY DEF LoadInv, ValuesInv, IsInput
  <2>2. /\ other \in [D -> [M -> Nat]] /\ DOMAIN other = D
        /\ \A s \in D : /\ other[s][metric] = k * polled[s][metric] + z
                        /\ \A x \in M \ {metric} : other[s][x] = polled[s][x]
    <3>1. ASSUME NEW s \in D
          PROVE  /\ other[s] = [polled[s] EXCEPT ![metric] = k * @ + z]
                 /\ polled[s] \in [M -> Nat]
      BY <2>1 DEF InUnit
    <3>2. metric \in M
      OBVIOUS
    <3>3. DOMAIN other = D /\ other = [s \in D |-> other[s]]
      BY DEF InUnit
    <3> HIDE DEF other, M, D
    <3>4. ASSUME NEW s \in D
          PROVE  /\ other[s] \in [M -> Nat] /\ other[s][metric] = k * polled[s][metric] + z
                 /\ \A x \in M \ {metric} : other[s][x] = polled[s][x]
      <4> DEFINE row == polled[s]
      <4>1. /\ row \in [M -> Nat] /\ row[metric] \in Nat
            /\ other[s] = [row EXCEPT ![metric] = k * row[metric] + z]
        BY <3>1, <3>2
      <4>2. k * row[metric] + z \in Nat
        BY <4>1
      <4> HIDE DEF row
      <4>3. /\ other[s] \in [M -> Nat] /\ other[s][metric] = k * row[metric] + z
            /\ \A x \in M \ {metric} : other[s][x] = row[x]
        BY <3>2, <4>1, <4>2
      <4> QED  BY <4>3 DEF row
    <3>5. other \in [D -> [M -> Nat]]
      BY <3>3, <3>4
    <3> QED  BY <3>3, <3>4, <3>5
  <2>3. Metrics(other) = M
    <3>1. \A s \in D : DOMAIN other[s] = DOMAIN polled[s]
      BY <2>1, <2>2
    <3> HIDE DEF other
    <3> QED  BY <2>2, <3>1 DEF Metrics
  <2>0. other = InUnit(polled, metric, k, z)
    OBVIOUS
  <2> HIDE DEF other
  <2>4. IsInput(other)
    BY <2>1, <2>2, <2>3 DEF IsInput
  <2> DEFINE here   == Deviation(polled[shard][m], m, polled)
             there  == Deviation(other[shard][m], m, other)
             hereS  == Scale(m, polled)
             thereS == Scale(m, other)
             hereQ  == CommonUnit(polled) \div hereS
             thereQ == CommonUnit(other) \div thereS
  <2>5. /\ here \in Int /\ hereS \in Nat \ {0} /\ hereQ \in Nat \ {0}
        /\ Scaled(polled)[shard][m] = here * hereQ
        /\ CommonUnit(polled) = hereS * hereQ
    BY <2>1, ScaledType, ScaleType, CommonUnitType
  <2>6. /\ there \in Int /\ thereS \in Nat \ {0} /\ thereQ \in Nat \ {0}
        /\ Scaled(other)[shard][m] = there * thereQ
        /\ CommonUnit(other) = thereS * thereQ
    BY <2>2, <2>3, <2>4, ScaledType, ScaleType, CommonUnitType
  <2>7. there * hereS = here * thereS
    <3>1. CASE m = metric
      <4>1. \/ thereS = k * hereS /\ there = k * here
            \/ there = 0 /\ here = 0
        <5>1. /\ DOMAIN polled # {} /\ metric \in Metrics(polled) /\ metric \in Metrics(other)
              /\ shard \in D /\ DOMAIN polled = DOMAIN other
          BY <2>2, <2>3
        <5>2. \/ /\ Scale(metric, other) = k * Scale(metric, polled)
                 /\ \A s \in DOMAIN polled : Deviation(other[s][metric], metric, other)
                                    = k * Deviation(polled[s][metric], metric, polled)
              \/ \A s \in DOMAIN polled : /\ Deviation(other[s][metric], metric, other) = 0
                                         /\ Deviation(polled[s][metric], metric, polled) = 0
          <6> HIDE DEF M, D
          <6> QED  BY <2>0, <2>1, <2>4, <5>1, OtherUnit
        <5> QED  BY <3>1, <5>1, <5>2
      <4> HIDE DEF here, there, hereS, thereS
      <4>2. (k * here) * hereS = here * (k * hereS)
        BY <2>5
      <4> QED  BY <2>5, <2>6, <4>1, <4>2
    <3>2. CASE m # metric
      <4>1. Sorted(m, polled) = Sorted(m, other)
        BY <2>1, <2>2, <2>3, <2>4, <3>2, SameMetric
      <4>2. other[shard][m] = polled[shard][m]
        BY <2>2, <3>2
      <4>3. there = here /\ thereS = hereS
        BY <4>1, <4>2 DEF Deviation, Scale
      <4> QED  BY <4>3
    <3> QED  BY <3>1, <3>2
  <2> HIDE DEF here, there, hereS, thereS, hereQ, thereQ
  <2>8. (there * thereQ) * (hereS * hereQ) = (there * hereS) * (thereQ * hereQ)
    BY <2>5, <2>6
  <2>9. (here * hereQ) * (thereS * thereQ) = (here * thereS) * (thereQ * hereQ)
    BY <2>5, <2>6
  <2>10. Scaled(other)[shard][m] * CommonUnit(polled) = Scaled(polled)[shard][m] * CommonUnit(other)
    BY <2>5, <2>6, <2>7, <2>8, <2>9
  <2> QED  BY <2>10 DEF other
<1>2. LoadInv => UnitsDoNotMatter
  <2>1. 3 \in Nat \ {0} /\ 1 \in Nat
    OBVIOUS
  <2> HIDE DEF EveryUnit
  <2>2. ASSUME EveryUnit PROVE UnitsDoNotMatter
    BY <2>1, <2>2 DEF UnitsDoNotMatter, EveryUnit
  <2> QED  BY <1>1, <2>2
<1> HIDE DEF EveryUnit
<1>3. (Spec => []UnitsDoNotMatter) /\ (Spec => []EveryUnit)
  BY <1>1, <1>2, LoadHolds, PTL
<1> QED  BY <1>3 DEF EveryUnit

===============================================================================
