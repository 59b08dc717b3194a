----------------------------- MODULE FoldTheorems -----------------------------
(***************************************************************************)
(* Facts about the folds of the community modules that the models use:     *)
(* SumFunctionOnSet, which adds up the values of a function, and           *)
(* FoldFunction, where it multiplies.  Both take the elements in an order  *)
(* nobody knows: the facts say that it does not matter.                    *)
(*                                                                         *)
(* They need induction over finite sets, and the library's induction       *)
(* theorems have an operator as a parameter; a least counterexample does   *)
(* as well, and sets of numbers have a least one.                          *)
(***************************************************************************)
EXTENDS Integers, FiniteSetTheorems, SequencesExt, TLAPS

(* A set of natural numbers has a least one. *)
LEMMA LeastNat ==
    ASSUME NEW T \in SUBSET Nat, T # {}
    PROVE  \E n \in T : \A m \in T : n <= m
<1>1. PICK n \in T : \A m \in T : <<m, n>> \notin OpToRel(<, Nat)
  BY NatLessThanWellFounded, WFMin
<1>2. ASSUME NEW m \in Nat, m < n PROVE <<m, n>> \in OpToRel(<, Nat)
  <2> DEFINE pair == <<m, n>>
  <2>1. pair \in Nat \X Nat /\ pair[1] < pair[2]
    BY <1>2
  <2> HIDE DEF pair
  <2>2. pair \in OpToRel(<, Nat)
    BY <2>1, Zenon DEF OpToRel
  <2> QED  BY <2>2 DEF pair
<1>3. \A m \in T : ~ (m < n)
  BY <1>1, <1>2
<1> QED  BY <1>3

Smaller(S) == {Cardinality(s) : s \in S}

(* A nonempty set of finite sets has one with the fewest elements: remove  *)
(* one of these and it is not of the set any more.                         *)
LEMMA FewestElements ==
    ASSUME NEW D, IsFiniteSet(D), NEW S \in SUBSET SUBSET D, S # {}
    PROVE  \E s \in S : \A x \in s : s \ {x} \notin S
<1>1. \A s \in SUBSET D : IsFiniteSet(s) /\ Cardinality(s) \in Nat
  BY FS_Subset, FS_CardinalityType
<1>2. Smaller(S) \in SUBSET Nat /\ Smaller(S) # {}
  BY <1>1 DEF Smaller
<1>3. PICK n \in Smaller(S) : \A m \in Smaller(S) : n <= m
  BY <1>2, LeastNat
<1>4. PICK s \in S : n = Cardinality(s)
  BY <1>3 DEF Smaller
<1>5. ASSUME NEW x \in s, s \ {x} \in S PROVE FALSE
  <2>1. Cardinality(s \ {x}) = n - 1
    BY <1>1, <1>4, FS_RemoveElement
  <2>2. n <= n - 1
    BY <1>3, <1>5, <2>1 DEF Smaller
  <2> QED  BY <1>2, <2>2
<1> QED  BY <1>5

------------------------------------------------------------------------------
(* The sums of a function over the subsets of a set: whatever element is   *)
(* taken first.                                                            *)
PartialSums(f, D) ==
    {g \in [SUBSET D -> Int] : /\ g[{}] = 0
                               /\ \A s \in SUBSET D : \A x \in s : g[s] = f[x] + g[s \ {x}]}

(* Sums over the subsets of a set without d give those over all its subsets. *)
LEMMA OneMore ==
    ASSUME NEW D, NEW f, \A x \in D : f[x] \in Int, NEW d \in D,
           NEW h \in PartialSums(f, D \ {d})
    PROVE  PartialSums(f, D) # {}
<1> DEFINE g == [s \in SUBSET D |-> IF d \in s THEN f[d] + h[s \ {d}] ELSE h[s]]
<1>1. /\ \A s \in SUBSET (D \ {d}) : h[s] \in Int
      /\ h[{}] = 0
      /\ \A s \in SUBSET (D \ {d}) : \A x \in s : h[s] = f[x] + h[s \ {x}]
  BY DEF PartialSums
<1>2. g \in [SUBSET D -> Int]
  <2> SUFFICES ASSUME NEW s \in SUBSET D
               PROVE  (IF d \in s THEN f[d] + h[s \ {d}] ELSE h[s]) \in Int
    OBVIOUS
  <2>1. s \ {d} \in SUBSET (D \ {d}) /\ (d \notin s => s \in SUBSET (D \ {d}))
    OBVIOUS
  <2> QED  BY <1>1, <2>1
<1>3. g[{}] = 0
  BY <1>1
<1>4. ASSUME NEW s \in SUBSET D, NEW x \in s PROVE g[s] = f[x] + g[s \ {x}]
  <2>1. s \ {x} \in SUBSET D /\ s \ {d} \in SUBSET (D \ {d})
    OBVIOUS
  <2>2. CASE x = d
    <3>1. g[s] = f[d] + h[s \ {d}] /\ g[s \ {d}] = h[s \ {d}]
      BY <2>1, <2>2
    <3> QED  BY <2>2, <3>1
  <2>3. CASE x # d /\ d \in s
    <3>1. g[s] = f[d] + h[s \ {d}] /\ g[s \ {x}] = f[d] + h[(s \ {x}) \ {d}]
      BY <2>1, <2>3
    <3>2. x \in s \ {d} /\ (s \ {d}) \ {x} = (s \ {x}) \ {d}
      BY <2>3
    <3>3. h[s \ {d}] = f[x] + h[(s \ {x}) \ {d}]
      <4>1. h[s \ {d}] = f[x] + h[(s \ {d}) \ {x}]
        BY <1>1, <2>1, <3>2, Zenon
      <4> QED  BY <3>2, <4>1, Zenon
    <3>4. f[d] \in Int /\ f[x] \in Int /\ h[(s \ {x}) \ {d}] \in Int
      <4>1. (s \ {x}) \ {d} \in SUBSET (D \ {d})
        OBVIOUS
      <4> QED  BY <1>1, <4>1
    <3> QED  BY <3>1, <3>3, <3>4
  <2>4. CASE d \notin s
    <3>1. s \in SUBSET (D \ {d}) /\ g[s] = h[s] /\ g[s \ {x}] = h[s \ {x}]
      BY <2>1, <2>4
    <3> QED  BY <1>1, <3>1
  <2> QED  BY <2>2, <2>3, <2>4
<1>5. g \in PartialSums(f, D)
  <2> HIDE DEF g
  <2> QED  BY <1>2, <1>3, <1>4 DEF PartialSums
<1> QED  BY <1>5

(* There are such sums for every finite set. *)
LEMMA SumsExist ==
    ASSUME NEW D, IsFiniteSet(D), NEW f, \A x \in D : f[x] \in Int
    PROVE  PartialSums(f, D) # {}
<1> DEFINE S == {s \in SUBSET D : PartialSums(f, s) = {}}
<1>1. SUFFICES ASSUME S # {} PROVE FALSE
  OBVIOUS
<1>2. PICK s \in S : \A x \in s : s \ {x} \notin S
  BY <1>1, FewestElements
<1>3. PartialSums(f, s) = {} /\ s \in SUBSET D
  OBVIOUS
<1>4. CASE s = {}
  <2> DEFINE g == [t \in SUBSET s |-> 0]
  <2>1. g \in PartialSums(f, s)
    BY <1>4 DEF PartialSums
  <2> QED  BY <1>3, <2>1
<1>5. ASSUME NEW x \in s PROVE FALSE
  <2>1. PartialSums(f, s \ {x}) # {}
    BY <1>2, <1>3
  <2>2. PICK h \in PartialSums(f, s \ {x}) : TRUE
    BY <2>1
  <2>3. PartialSums(f, s) # {}
    BY <1>3, <2>2, OneMore
  <2> QED  BY <1>3, <2>3
<1> QED  BY <1>4, <1>5

(* The recursion that the sum of the community modules is defined by. *)
FoldStep(f, h, s) == IF s = {} THEN 0
                     ELSE f[CHOOSE x \in s : TRUE] + h[s \ {CHOOSE x \in s : TRUE}]

IsFold(f, D, h) == h = [s \in SUBSET D |-> FoldStep(f, h, s)]

(* The partial sums are what it defines, and all that it defines. *)
LEMMA SumsAreTheFold ==
    ASSUME NEW D, IsFiniteSet(D), NEW f, \A x \in D : f[x] \in Int,
           NEW g \in PartialSums(f, D)
    PROVE  \A h : IsFold(f, D, h) <=> h = g
<1>1. /\ g \in [SUBSET D -> Int] /\ g[{}] = 0
      /\ \A s \in SUBSET D : \A x \in s : g[s] = f[x] + g[s \ {x}]
  BY DEF PartialSums
<1>2. IsFold(f, D, g)
  <2>1. ASSUME NEW s \in SUBSET D PROVE g[s] = FoldStep(f, g, s)
    <3>1. CASE s = {}
      BY <1>1, <3>1 DEF FoldStep
    <3>2. CASE s # {}
      <4> DEFINE x == CHOOSE x \in s : TRUE
      <4>1. x \in s
        BY <3>2
      <4>2. g[s] = f[x] + g[s \ {x}]
        <5> HIDE DEF x
        <5> QED  BY <1>1, <4>1
      <4> QED  BY <3>2, <4>2 DEF FoldStep
    <3> QED  BY <3>1, <3>2
  <2>2. g = [s \in SUBSET D |-> FoldStep(f, g, s)]
    BY <1>1, <2>1
  <2> QED  BY <2>2 DEF IsFold
<1>3. ASSUME NEW h, IsFold(f, D, h) PROVE h = g
  <2>1. /\ h = [s \in SUBSET D |-> FoldStep(f, h, s)]
        /\ \A s \in SUBSET D : h[s] = FoldStep(f, h, s)
    BY <1>3, Zenon DEF IsFold
  <2> DEFINE S == {s \in SUBSET D : h[s] # g[s]}
  <2>2. S = {}
    <3> SUFFICES ASSUME S # {} PROVE FALSE
      OBVIOUS
    <3>1. PICK s \in S : \A x \in s : s \ {x} \notin S
      BY FewestElements
    <3>2. s \in SUBSET D /\ h[s] # g[s] /\ \A x \in s : h[s \ {x}] = g[s \ {x}]
      BY <3>1
    <3>3. FoldStep(f, h, s) = FoldStep(f, g, s)
      <4>1. CASE s = {}
        BY <4>1 DEF FoldStep
      <4>2. CASE s # {}
        <5> DEFINE x == CHOOSE x \in s : TRUE
        <5>1. x \in s
          BY <4>2
        <5>2. h[s \ {x}] = g[s \ {x}]
          BY <3>2, <5>1
        <5> QED  BY <5>2, Zenon DEF FoldStep
      <4> QED  BY <4>1, <4>2
    <3>4. g[s] = FoldStep(f, g, s)
      BY <1>2, <3>2, Zenon DEF IsFold
    <3> QED  BY <2>1, <3>2, <3>3, <3>4
  <2>3. \A s \in SUBSET D : h[s] = g[s]
    BY <2>2
  <2>4. h = [s \in SUBSET D |-> h[s]]
    BY <2>1
  <2>5. g = [s \in SUBSET D |-> g[s]]
    BY <1>1
  <2> QED  BY <2>3, <2>4, <2>5
<1> QED  BY <1>2, <1>3

(* So the sum of the community modules is the partial sum. *)
LEMMA SumIsPartialSum ==
    ASSUME NEW D, IsFiniteSet(D), NEW f, \A x \in D : f[x] \in Int,
           NEW g \in PartialSums(f, D)
    PROVE  SumFunctionOnSet(f, D) = g[D]
<1> DEFINE iter == CHOOSE h : IsFold(f, D, h)
<1>1. iter = g
  BY SumsAreTheFold
<1>2. SumFunctionOnSet(f, D) = iter[D]
  BY DEF SumFunctionOnSet, FoldFunctionOnSet, MapThenFoldSet, IsFold, FoldStep
<1> QED  BY <1>1, <1>2

------------------------------------------------------------------------------
(* What the proofs cite: a sum is a whole number, and it is any of the     *)
(* values and the sum of the others.                                       *)
LEMMA IntSumRemove ==
    ASSUME NEW D, IsFiniteSet(D), NEW f, \A x \in D : f[x] \in Int
    PROVE  /\ SumFunctionOnSet(f, D) \in Int
           /\ D = {} => SumFunctionOnSet(f, D) = 0
           /\ \A x \in D : /\ SumFunctionOnSet(f, D \ {x}) \in Int
                           /\ SumFunctionOnSet(f, D) = f[x] + SumFunctionOnSet(f, D \ {x})
<1>1. PICK g \in PartialSums(f, D) : TRUE
  BY SumsExist
<1>2. /\ g \in [SUBSET D -> Int] /\ g[{}] = 0
      /\ \A s \in SUBSET D : \A x \in s : g[s] = f[x] + g[s \ {x}]
  BY DEF PartialSums
<1>3. ASSUME NEW t \in SUBSET D PROVE SumFunctionOnSet(f, t) = g[t]
  <2> DEFINE h == [s \in SUBSET t |-> g[s]]
  <2>1. h \in [SUBSET t -> Int] /\ h[{}] = 0
    BY <1>2
  <2>2. ASSUME NEW s \in SUBSET t, NEW x \in s PROVE h[s] = f[x] + h[s \ {x}]
    <3>1. s \in SUBSET D /\ s \ {x} \in SUBSET t
      OBVIOUS
    <3>2. g[s] = f[x] + g[s \ {x}]
      BY <1>2, <3>1
    <3> QED  BY <3>1, <3>2
  <2>3. h \in PartialSums(f, t)
    <3> HIDE DEF h
    <3> QED  BY <2>1, <2>2 DEF PartialSums
  <2>4. IsFiniteSet(t) /\ \A x \in t : f[x] \in Int
    BY FS_Subset
  <2>5. SumFunctionOnSet(f, t) = h[t]
    <3> HIDE DEF h
    <3> QED  BY <2>3, <2>4, SumIsPartialSum
  <2> QED  BY <2>5
<1>4. SumFunctionOnSet(f, D) = g[D] /\ g[D] \in Int
  BY <1>2, <1>3
<1>5. ASSUME NEW x \in D
      PROVE  /\ SumFunctionOnSet(f, D \ {x}) \in Int
             /\ SumFunctionOnSet(f, D) = f[x] + SumFunctionOnSet(f, D \ {x})
  <2>1. SumFunctionOnSet(f, D \ {x}) = g[D \ {x}] /\ g[D \ {x}] \in Int
    BY <1>2, <1>3
  <2>2. g[D] = f[x] + g[D \ {x}]
    BY <1>2
  <2> QED  BY <1>4, <2>1, <2>2
<1> QED  BY <1>2, <1>4, <1>5

(* Only the values on the set count. *)
LEMMA SumSame ==
    ASSUME NEW D, IsFiniteSet(D), NEW f, NEW h,
           \A x \in D : f[x] \in Int /\ h[x] = f[x]
    PROVE  SumFunctionOnSet(h, D) = SumFunctionOnSet(f, D)
<1>1. PICK g \in PartialSums(f, D) : TRUE
  BY SumsExist
<1>2. g \in PartialSums(h, D)
  BY DEF PartialSums
<1> QED  BY <1>1, <1>2, SumIsPartialSum

(* A sum of natural numbers is one. *)
LEMMA SumIsNat ==
    ASSUME NEW D, IsFiniteSet(D), NEW f, \A x \in D : f[x] \in Nat
    PROVE  SumFunctionOnSet(f, D) \in Nat
<1> DEFINE S == {s \in SUBSET D : SumFunctionOnSet(f, s) \notin Nat}
<1>1. SUFFICES ASSUME S # {} PROVE FALSE
  OBVIOUS
<1>2. PICK s \in S : \A x \in s : s \ {x} \notin S
  BY <1>1, FewestElements
<1>3. s \in SUBSET D /\ SumFunctionOnSet(f, s) \notin Nat
  OBVIOUS
<1>4. IsFiniteSet(s) /\ \A x \in s : f[x] \in Int
  BY <1>3, FS_Subset
<1>5. s # {}
  BY <1>3, <1>4, IntSumRemove
<1>6. PICK x \in s : TRUE
  BY <1>5
<1>7. SumFunctionOnSet(f, s) = f[x] + SumFunctionOnSet(f, s \ {x})
  BY <1>4, IntSumRemove
<1>8. SumFunctionOnSet(f, s \ {x}) \in Nat /\ f[x] \in Nat
  BY <1>2, <1>3
<1> QED  BY <1>3, <1>7, <1>8

LEMMA SumRemove ==
    ASSUME NEW D, IsFiniteSet(D), NEW f, \A x \in D : f[x] \in Nat
    PROVE  /\ SumFunctionOnSet(f, D) \in Nat
           /\ D = {} => SumFunctionOnSet(f, D) = 0
           /\ \A x \in D : /\ SumFunctionOnSet(f, D \ {x}) \in Nat
                           /\ SumFunctionOnSet(f, D) = f[x] + SumFunctionOnSet(f, D \ {x})
<1>1. \A x \in D : f[x] \in Int
  OBVIOUS
<1>2. ASSUME NEW x \in D PROVE SumFunctionOnSet(f, D \ {x}) \in Nat
  BY FS_RemoveElement, SumIsNat
<1>3. SumFunctionOnSet(f, D) \in Nat
  BY SumIsNat
<1> QED  BY <1>1, <1>2, <1>3, IntSumRemove

(* Where no term is more than the other, no sum is. *)
LEMMA SumMonotone ==
    ASSUME NEW D, IsFiniteSet(D), NEW f, NEW h,
           \A x \in D : f[x] \in Int /\ h[x] \in Int /\ f[x] <= h[x]
    PROVE  SumFunctionOnSet(f, D) <= SumFunctionOnSet(h, D)
<1> DEFINE S == {s \in SUBSET D : ~(SumFunctionOnSet(f, s) <= SumFunctionOnSet(h, s))}
<1>1. SUFFICES ASSUME S # {} PROVE FALSE
  OBVIOUS
<1>2. PICK s \in S : \A x \in s : s \ {x} \notin S
  BY <1>1, FewestElements
<1>3. s \in SUBSET D /\ ~(SumFunctionOnSet(f, s) <= SumFunctionOnSet(h, s))
  OBVIOUS
<1>4. IsFiniteSet(s) /\ \A x \in s : f[x] \in Int /\ h[x] \in Int /\ f[x] <= h[x]
  BY <1>3, FS_Subset
<1>5. s # {}
  <2>1. s = {} => SumFunctionOnSet(f, s) = 0 /\ SumFunctionOnSet(h, s) = 0
    BY <1>4, IntSumRemove
  <2> QED  BY <1>3, <2>1
<1>6. PICK x \in s : TRUE
  BY <1>5
<1>7. /\ SumFunctionOnSet(f, s) = f[x] + SumFunctionOnSet(f, s \ {x})
      /\ SumFunctionOnSet(f, s \ {x}) \in Int
  BY <1>4, IntSumRemove
<1>8. /\ SumFunctionOnSet(h, s) = h[x] + SumFunctionOnSet(h, s \ {x})
      /\ SumFunctionOnSet(h, s \ {x}) \in Int
  BY <1>4, IntSumRemove
<1>9. SumFunctionOnSet(f, s \ {x}) <= SumFunctionOnSet(h, s \ {x})
  BY <1>2, <1>3
<1> QED  BY <1>3, <1>4, <1>7, <1>8, <1>9

(* No value is more than the sum. *)
LEMMA SumAtLeast ==
    ASSUME NEW D, IsFiniteSet(D), NEW f, \A x \in D : f[x] \in Nat, NEW x \in D
    PROVE  f[x] <= SumFunctionOnSet(f, D)
<1>1. /\ SumFunctionOnSet(f, D \ {x}) \in Nat /\ f[x] \in Nat
      /\ SumFunctionOnSet(f, D) = f[x] + SumFunctionOnSet(f, D \ {x})
  BY SumRemove
<1> QED  BY <1>1

(* Where any two of the values amount to b, two or more of them amount to  *)
(* half of b each.                                                         *)
LEMMA PairsAddUp ==
    ASSUME NEW D, IsFiniteSet(D), NEW f, \A x \in D : f[x] \in Nat, NEW b \in Nat,
           \A x, y \in D : x # y => f[x] + f[y] >= b,
           Cardinality(D) >= 2
    PROVE  Cardinality(D) * b <= 2 * SumFunctionOnSet(f, D)
<1> DEFINE Enough(s) == Cardinality(s) * b <= 2 * SumFunctionOnSet(f, s)
           S == {s \in SUBSET D : Cardinality(s) >= 2 /\ ~Enough(s)}
<1>1. SUFFICES ASSUME S # {} PROVE FALSE
  OBVIOUS
<1>2. PICK s \in S : \A x \in s : s \ {x} \notin S
  BY <1>1, FewestElements
<1>3. s \in SUBSET D /\ Cardinality(s) >= 2 /\ ~Enough(s)
  OBVIOUS
<1>4. IsFiniteSet(s) /\ Cardinality(s) \in Nat
  BY <1>3, FS_Subset, FS_CardinalityType
<1>5. PICK x \in s : \E y \in s : y # x /\ 2 * f[x] >= b
  <2>1. s # {}
    <3>1. Cardinality(s) # 0
      BY <1>3, <1>4
    <3> QED  BY <3>1, FS_EmptySet
  <2>2. PICK x \in s : TRUE
    BY <2>1
  <2>3. IsFiniteSet(s \ {x}) /\ Cardinality(s \ {x}) = Cardinality(s) - 1
    BY <1>4, FS_RemoveElement
  <2>4. s \ {x} # {}
    <3>1. Cardinality(s \ {x}) # 0
      BY <1>3, <1>4, <2>3
    <3> QED  BY <3>1, FS_EmptySet
  <2>5. PICK y \in s : y # x
    BY <2>4
  <2>6. f[x] + f[y] >= b /\ f[x] \in Nat /\ f[y] \in Nat
    BY <1>3, <2>5
  <2>7. 2 * f[x] >= b \/ 2 * f[y] >= b
    BY <2>6
  <2> QED  BY <2>5, <2>7
<1>6. PICK y \in s : y # x
  BY <1>5
<1> DEFINE c == Cardinality(s)
           rest == SumFunctionOnSet(f, s \ {x})
<1>7. /\ IsFiniteSet(s \ {x}) /\ Cardinality(s \ {x}) = c - 1
      /\ rest \in Nat /\ f[x] \in Nat /\ SumFunctionOnSet(f, s) = f[x] + rest
  BY <1>3, <1>4, FS_RemoveElement, SumRemove
<1>8. ~(c * b <= 2 * (f[x] + rest))
  BY <1>3, <1>7
<1>9. CASE c = 2
  <2>1. f[y] <= rest
    BY <1>3, <1>6, <1>7, SumAtLeast
  <2>2. f[x] + f[y] >= b /\ f[y] \in Nat
    BY <1>3, <1>6
  <2> HIDE DEF c, rest
  <2> QED  BY <1>7, <1>8, <1>9, <2>1, <2>2
<1>10. CASE c > 2
  <2>1. Cardinality(s \ {x}) >= 2 /\ s \ {x} \in SUBSET D
    BY <1>3, <1>4, <1>7, <1>10
  <2>2. Enough(s \ {x})
    BY <1>2, <2>1
  <2>3. (c - 1) * b <= 2 * rest
    BY <1>7, <2>2
  <2>4. c \in Nat /\ 2 * f[x] >= b
    BY <1>4, <1>5
  <2> HIDE DEF c, rest
  <2>5. (c - 1) * b = c * b - b /\ c * b \in Nat
    BY <2>4
  <2>6. 2 * (f[x] + rest) = 2 * f[x] + 2 * rest
    BY <1>7
  <2> DEFINE product == c * b
  <2> HIDE DEF product
  <2>7. product - b <= 2 * rest /\ ~(product <= 2 * f[x] + 2 * rest) /\ product \in Nat
    BY <1>8, <2>3, <2>5, <2>6 DEF product
  <2> QED  BY <1>7, <2>4, <2>7
<1> QED  BY <1>3, <1>4, <1>9, <1>10

------------------------------------------------------------------------------
(* Products, in the same way. *)
ProductFunctionOnSet(f, D) == FoldFunctionOnSet(LAMBDA x, y : x * y, 1, f, D)

(* The products of a function over the subsets of a set. *)
PartialProducts(f, D) ==
    {g \in [SUBSET D -> Int] : /\ g[{}] = 1
                               /\ \A s \in SUBSET D : \A x \in s : g[s] = f[x] * g[s \ {x}]}

(* Products over the subsets of a set without d give those over all of them. *)
LEMMA OneMoreFactor ==
    ASSUME NEW D, NEW f, \A x \in D : f[x] \in Int, NEW d \in D,
           NEW h \in PartialProducts(f, D \ {d})
    PROVE  PartialProducts(f, D) # {}
<1> DEFINE g == [s \in SUBSET D |-> IF d \in s THEN f[d] * h[s \ {d}] ELSE h[s]]
<1>1. /\ \A s \in SUBSET (D \ {d}) : h[s] \in Int
      /\ h[{}] = 1
      /\ \A s \in SUBSET (D \ {d}) : \A x \in s : h[s] = f[x] * h[s \ {x}]
  BY DEF PartialProducts
<1>2. g \in [SUBSET D -> Int]
  <2> SUFFICES ASSUME NEW s \in SUBSET D
               PROVE  (IF d \in s THEN f[d] * h[s \ {d}] ELSE h[s]) \in Int
    OBVIOUS
  <2>1. s \ {d} \in SUBSET (D \ {d}) /\ (d \notin s => s \in SUBSET (D \ {d}))
    OBVIOUS
  <2> QED  BY <1>1, <2>1
<1>3. g[{}] = 1
  BY <1>1
<1>4. ASSUME NEW s \in SUBSET D, NEW x \in s PROVE g[s] = f[x] * g[s \ {x}]
  <2>1. s \ {x} \in SUBSET D /\ s \ {d} \in SUBSET (D \ {d})
    OBVIOUS
  <2>2. CASE x = d
    <3>1. g[s] = f[d] * h[s \ {d}] /\ g[s \ {d}] = h[s \ {d}]
      BY <2>1, <2>2
    <3> QED  BY <2>2, <3>1
  <2>3. CASE x # d /\ d \in s
    <3>1. g[s] = f[d] * h[s \ {d}] /\ g[s \ {x}] = f[d] * h[(s \ {x}) \ {d}]
      BY <2>1, <2>3
    <3>2. x \in s \ {d} /\ (s \ {d}) \ {x} = (s \ {x}) \ {d}
      BY <2>3
    <3>3. h[s \ {d}] = f[x] * h[(s \ {x}) \ {d}]
      <4>1. h[s \ {d}] = f[x] * h[(s \ {d}) \ {x}]
        BY <1>1, <2>1, <3>2, Zenon
      <4> QED  BY <3>2, <4>1, Zenon
    <3>4. f[d] \in Int /\ f[x] \in Int /\ h[(s \ {x}) \ {d}] \in Int
      <4>1. (s \ {x}) \ {d} \in SUBSET (D \ {d})
        OBVIOUS
      <4> QED  BY <1>1, <4>1
    <3> QED  BY <3>1, <3>3, <3>4
  <2>4. CASE d \notin s
    <3>1. s \in SUBSET (D \ {d}) /\ g[s] = h[s] /\ g[s \ {x}] = h[s \ {x}]
      BY <2>1, <2>4
    <3> QED  BY <1>1, <3>1
  <2> QED  BY <2>2, <2>3, <2>4
<1>5. g \in PartialProducts(f, D)
  <2> HIDE DEF g
  <2> QED  BY <1>2, <1>3, <1>4 DEF PartialProducts
<1> QED  BY <1>5

(* There are such products for every finite set. *)
LEMMA ProductsExist ==
    ASSUME NEW D, IsFiniteSet(D), NEW f, \A x \in D : f[x] \in Int
    PROVE  PartialProducts(f, D) # {}
<1> DEFINE S == {s \in SUBSET D : PartialProducts(f, s) = {}}
<1>1. SUFFICES ASSUME S # {} PROVE FALSE
  OBVIOUS
<1>2. PICK s \in S : \A x \in s : s \ {x} \notin S
  BY <1>1, FewestElements
<1>3. PartialProducts(f, s) = {} /\ s \in SUBSET D
  OBVIOUS
<1>4. CASE s = {}
  <2> DEFINE g == [t \in SUBSET s |-> 1]
  <2>1. g \in PartialProducts(f, s)
    BY <1>4 DEF PartialProducts
  <2> QED  BY <1>3, <2>1
<1>5. ASSUME NEW x \in s PROVE FALSE
  <2>1. PartialProducts(f, s \ {x}) # {}
    BY <1>2, <1>3
  <2>2. PICK h \in PartialProducts(f, s \ {x}) : TRUE
    BY <2>1
  <2>3. PartialProducts(f, s) # {}
    BY <1>3, <2>2, OneMoreFactor
  <2> QED  BY <1>3, <2>3
<1> QED  BY <1>4, <1>5

(* The recursion that the product is defined by. *)
ProductStep(f, h, s) == IF s = {} THEN 1
                     ELSE f[CHOOSE x \in s : TRUE] * h[s \ {CHOOSE x \in s : TRUE}]

IsProductFold(f, D, h) == h = [s \in SUBSET D |-> ProductStep(f, h, s)]

(* The partial products are what it defines, and all that it defines. *)
LEMMA ProductsAreTheFold ==
    ASSUME NEW D, IsFiniteSet(D), NEW f, \A x \in D : f[x] \in Int,
           NEW g \in PartialProducts(f, D)
    PROVE  \A h : IsProductFold(f, D, h) <=> h = g
<1>1. /\ g \in [SUBSET D -> Int] /\ g[{}] = 1
      /\ \A s \in SUBSET D : \A x \in s : g[s] = f[x] * g[s \ {x}]
  BY DEF PartialProducts
<1>2. IsProductFold(f, D, g)
  <2>1. ASSUME NEW s \in SUBSET D PROVE g[s] = ProductStep(f, g, s)
    <3>1. CASE s = {}
      BY <1>1, <3>1 DEF ProductStep
    <3>2. CASE s # {}
      <4> DEFINE x == CHOOSE x \in s : TRUE
      <4>1. x \in s
        BY <3>2
      <4>2. g[s] = f[x] * g[s \ {x}]
        <5> HIDE DEF x
        <5> QED  BY <1>1, <4>1
      <4> QED  BY <3>2, <4>2 DEF ProductStep
    <3> QED  BY <3>1, <3>2
  <2>2. g = [s \in SUBSET D |-> ProductStep(f, g, s)]
    BY <1>1, <2>1
  <2> QED  BY <2>2 DEF IsProductFold
<1>3. ASSUME NEW h, IsProductFold(f, D, h) PROVE h = g
  <2>1. /\ h = [s \in SUBSET D |-> ProductStep(f, h, s)]
        /\ \A s \in SUBSET D : h[s] = ProductStep(f, h, s)
    BY <1>3, Zenon DEF IsProductFold
  <2> DEFINE S == {s \in SUBSET D : h[s] # g[s]}
  <2>2. S = {}
    <3> SUFFICES ASSUME S # {} PROVE FALSE
      OBVIOUS
    <3>1. PICK s \in S : \A x \in s : s \ {x} \notin S
      BY FewestElements
    <3>2. s \in SUBSET D /\ h[s] # g[s] /\ \A x \in s : h[s \ {x}] = g[s \ {x}]
      BY <3>1
    <3>3. ProductStep(f, h, s) = ProductStep(f, g, s)
      <4>1. CASE s = {}
        BY <4>1 DEF ProductStep
      <4>2. CASE s # {}
        <5> DEFINE x == CHOOSE x \in s : TRUE
        <5>1. x \in s
          BY <4>2
        <5>2. h[s \ {x}] = g[s \ {x}]
          BY <3>2, <5>1
        <5> QED  BY <5>2, Zenon DEF ProductStep
      <4> QED  BY <4>1, <4>2
    <3>4. g[s] = ProductStep(f, g, s)
      BY <1>2, <3>2, Zenon DEF IsProductFold
    <3> QED  BY <2>1, <3>2, <3>3, <3>4
  <2>3. \A s \in SUBSET D : h[s] = g[s]
    BY <2>2
  <2>4. h = [s \in SUBSET D |-> h[s]]
    BY <2>1
  <2>5. g = [s \in SUBSET D |-> g[s]]
    BY <1>1
  <2> QED  BY <2>3, <2>4, <2>5
<1> QED  BY <1>2, <1>3

(* So the product is the partial product. *)
LEMMA ProductIsPartialProduct ==
    ASSUME NEW D, IsFiniteSet(D), NEW f, \A x \in D : f[x] \in Int,
           NEW g \in PartialProducts(f, D)
    PROVE  ProductFunctionOnSet(f, D) = g[D]
<1> DEFINE iter == CHOOSE h : IsProductFold(f, D, h)
<1>1. iter = g
  BY ProductsAreTheFold
<1>2. ProductFunctionOnSet(f, D) = iter[D]
  BY DEF ProductFunctionOnSet, FoldFunctionOnSet, MapThenFoldSet, IsProductFold, ProductStep
<1> QED  BY <1>1, <1>2

(* What the proofs cite: a product is a whole number, and it is any of the *)
(* factors times the product of the others.                                *)
LEMMA ProductRemove ==
    ASSUME NEW D, IsFiniteSet(D), NEW f, \A x \in D : f[x] \in Int
    PROVE  /\ ProductFunctionOnSet(f, D) \in Int
           /\ D = {} => ProductFunctionOnSet(f, D) = 1
           /\ \A x \in D : /\ ProductFunctionOnSet(f, D \ {x}) \in Int
                           /\ ProductFunctionOnSet(f, D) = f[x] * ProductFunctionOnSet(f, D \ {x})
<1>1. PICK g \in PartialProducts(f, D) : TRUE
  BY ProductsExist
<1>2. /\ g \in [SUBSET D -> Int] /\ g[{}] = 1
      /\ \A s \in SUBSET D : \A x \in s : g[s] = f[x] * g[s \ {x}]
  BY DEF PartialProducts
<1>3. ASSUME NEW t \in SUBSET D PROVE ProductFunctionOnSet(f, t) = g[t]
  <2> DEFINE h == [s \in SUBSET t |-> g[s]]
  <2>1. h \in [SUBSET t -> Int] /\ h[{}] = 1
    BY <1>2
  <2>2. ASSUME NEW s \in SUBSET t, NEW x \in s PROVE h[s] = f[x] * h[s \ {x}]
    <3>1. s \in SUBSET D /\ s \ {x} \in SUBSET t
      OBVIOUS
    <3>2. g[s] = f[x] * g[s \ {x}]
      BY <1>2, <3>1
    <3> QED  BY <3>1, <3>2
  <2>3. h \in PartialProducts(f, t)
    <3> HIDE DEF h
    <3> QED  BY <2>1, <2>2 DEF PartialProducts
  <2>4. IsFiniteSet(t) /\ \A x \in t : f[x] \in Int
    BY FS_Subset
  <2>5. ProductFunctionOnSet(f, t) = h[t]
    <3> HIDE DEF h
    <3> QED  BY <2>3, <2>4, ProductIsPartialProduct
  <2> QED  BY <2>5
<1>4. ProductFunctionOnSet(f, D) = g[D] /\ g[D] \in Int
  BY <1>2, <1>3
<1>5. ASSUME NEW x \in D
      PROVE  /\ ProductFunctionOnSet(f, D \ {x}) \in Int
             /\ ProductFunctionOnSet(f, D) = f[x] * ProductFunctionOnSet(f, D \ {x})
  <2>1. ProductFunctionOnSet(f, D \ {x}) = g[D \ {x}] /\ g[D \ {x}] \in Int
    BY <1>2, <1>3
  <2>2. g[D] = f[x] * g[D \ {x}]
    BY <1>2
  <2> QED  BY <1>4, <2>1, <2>2
<1> QED  BY <1>2, <1>4, <1>5

(* Only the values on the set count. *)
LEMMA ProductSame ==
    ASSUME NEW D, IsFiniteSet(D), NEW f, NEW h,
           \A x \in D : f[x] \in Int /\ h[x] = f[x]
    PROVE  ProductFunctionOnSet(h, D) = ProductFunctionOnSet(f, D)
<1>1. PICK g \in PartialProducts(f, D) : TRUE
  BY ProductsExist
<1>2. g \in PartialProducts(h, D)
  BY DEF PartialProducts
<1> QED  BY <1>1, <1>2, ProductIsPartialProduct

(* A product of positive numbers is one. *)
LEMMA ProductIsPositive ==
    ASSUME NEW D, IsFiniteSet(D), NEW f, \A x \in D : f[x] \in Nat \ {0}
    PROVE  ProductFunctionOnSet(f, D) \in Nat \ {0}
<1> DEFINE S == {s \in SUBSET D : ProductFunctionOnSet(f, s) \notin Nat \ {0}}
<1>1. SUFFICES ASSUME S # {} PROVE FALSE
  OBVIOUS
<1>2. PICK s \in S : \A x \in s : s \ {x} \notin S
  BY <1>1, FewestElements
<1>3. s \in SUBSET D /\ ProductFunctionOnSet(f, s) \notin Nat \ {0}
  OBVIOUS
<1>4. IsFiniteSet(s) /\ \A x \in s : f[x] \in Int
  BY <1>3, FS_Subset
<1>5. s # {}
  BY <1>3, <1>4, ProductRemove
<1>6. PICK x \in s : TRUE
  BY <1>5
<1>7. ProductFunctionOnSet(f, s) = f[x] * ProductFunctionOnSet(f, s \ {x})
  BY <1>4, ProductRemove
<1>8. ProductFunctionOnSet(f, s \ {x}) \in Nat \ {0} /\ f[x] \in Nat \ {0}
  BY <1>2, <1>3
<1>9. \A m, n \in Nat \ {0} : m * n \in Nat \ {0}
  OBVIOUS
<1> QED  BY <1>3, <1>7, <1>8, <1>9

------------------------------------------------------------------------------
(* Finite sets of numbers have a greatest and a least one. *)
LEMMA Greatest ==
    ASSUME NEW D \in SUBSET Int, IsFiniteSet(D), D # {}
    PROVE  Max(D) \in D /\ \A y \in D : y <= Max(D)
<1> DEFINE Has(s) == \E x \in s : \A y \in s : x >= y
           S == {s \in SUBSET D : s # {} /\ ~Has(s)}
<1>1. Has(D)
  <2>1. SUFFICES ASSUME S # {} PROVE FALSE
    OBVIOUS
  <2>2. PICK s \in S : \A x \in s : s \ {x} \notin S
    BY <2>1, FewestElements
  <2>3. s \in SUBSET D /\ s # {} /\ ~Has(s)
    OBVIOUS
  <2>4. PICK x \in s : TRUE
    BY <2>3
  <2>5. s \ {x} = {} \/ Has(s \ {x})
    BY <2>2, <2>3
  <2>6. CASE s \ {x} = {}
    BY <2>3, <2>6
  <2>7. ASSUME NEW m \in s \ {x}, \A y \in s \ {x} : m >= y PROVE FALSE
    <3>1. m \in Int /\ x \in Int /\ \A y \in s : y \in Int
      BY <2>3
    <3>2. CASE m >= x
      BY <2>3, <2>7, <3>1, <3>2
    <3>3. CASE x >= m
      <4>1. \A y \in s : x >= y
        BY <2>7, <3>1, <3>3
      <4> QED  BY <2>3, <4>1
    <3> QED  BY <3>1, <3>2, <3>3
  <2> QED  BY <2>5, <2>6, <2>7
<1>2. Max(D) \in D /\ \A y \in D : Max(D) >= y
  BY <1>1 DEF Max
<1> QED  BY <1>2

LEMMA Least ==
    ASSUME NEW D \in SUBSET Int, IsFiniteSet(D), D # {}
    PROVE  Min(D) \in D /\ \A y \in D : Min(D) <= y
<1> DEFINE Has(s) == \E x \in s : \A y \in s : x =< y
           S == {s \in SUBSET D : s # {} /\ ~Has(s)}
<1>1. Has(D)
  <2>1. SUFFICES ASSUME S # {} PROVE FALSE
    OBVIOUS
  <2>2. PICK s \in S : \A x \in s : s \ {x} \notin S
    BY <2>1, FewestElements
  <2>3. s \in SUBSET D /\ s # {} /\ ~Has(s)
    OBVIOUS
  <2>4. PICK x \in s : TRUE
    BY <2>3
  <2>5. s \ {x} = {} \/ Has(s \ {x})
    BY <2>2, <2>3
  <2>6. CASE s \ {x} = {}
    BY <2>3, <2>6
  <2>7. ASSUME NEW m \in s \ {x}, \A y \in s \ {x} : m =< y PROVE FALSE
    <3>1. m \in Int /\ x \in Int /\ \A y \in s : y \in Int
      BY <2>3
    <3>2. CASE m =< x
      BY <2>3, <2>7, <3>1, <3>2
    <3>3. CASE x =< m
      <4>1. \A y \in s : x =< y
        BY <2>7, <3>1, <3>3
      <4> QED  BY <2>3, <4>1
    <3> QED  BY <3>1, <3>2, <3>3
  <2> QED  BY <2>5, <2>6, <2>7
<1>2. Min(D) \in D /\ \A y \in D : Min(D) =< y
  BY <1>1 DEF Min
<1> QED  BY <1>2
===============================================================================
