-------------------- MODULE LongestProcessingTimeProofs --------------------
(***************************************************************************)
(* What TLAPS proves of the partitioner, for any shards, loads and limits. *)
(***************************************************************************)
EXTENDS LongestProcessingTime, FoldTheorems, SequenceTheorems, TLAPS

Replica == [shards : Seq(DOMAIN load), total : Nat]

(* The load of a listed shard is a number; there are finitely many shards. *)
LEMMA LoadsAreNumbers ==
  ASSUME NEW listed \in SUBSET Shards, load \in [listed -> Loads]
  PROVE  /\ DOMAIN load = listed /\ IsFiniteSet(listed)
         /\ \A shard \in listed : load[shard] \in Nat
<1>1. IsFiniteSet(listed)
  BY PartitionerAssumption, FS_Subset
<1> QED  BY <1>1, PartitionerAssumption

(* Bringing the in-cluster shard forward leaves a sequence of the same shards. *)
LEMMA SortedType ==
  ASSUME NEW S, NEW order \in Seq(S)
  PROVE  Sorted(order) \in Seq(S)
<1>1. CASE Found(order) = {}
  BY <1>1 DEF Sorted
<1>2. CASE Found(order) # {}
  <2> DEFINE k == CHOOSE i \in Found(order) : TRUE
  <2>1. k \in 1..Len(order)
    BY <1>2 DEF Found
  <2> HIDE DEF k
  <2>2. order[k] \in S /\ <<order[k]>> \in Seq(S)
    BY <2>1
  <2>3. SubSeq(order, 1, k-1) \in Seq(S) /\ SubSeq(order, k+1, Len(order)) \in Seq(S)
    BY <2>1, SubSeqProperties
  <2>4. RemoveAt(order, k) \in Seq(S)
    BY <2>3 DEF RemoveAt
  <2>5. Sorted(order) = <<order[k]>> \o RemoveAt(order, k)
    BY <1>2 DEF Sorted, k
  <2> QED  BY <2>2, <2>4, <2>5
<1> QED  BY <1>1, <1>2

(* The first of a descending sequence of all shards has the biggest load. *)
LEMMA FirstIsBiggest ==
  ASSUME NEW listed \in SUBSET Shards, load \in [listed -> Loads], NEW order \in Descending
  PROVE  /\ order \in Seq(listed)
         /\ Biggest(order) \in Nat
         /\ \A shard \in listed : load[shard] <= Biggest(order)
<1> DEFINE n == Cardinality(listed)
<1>1. /\ DOMAIN load = listed /\ IsFiniteSet(listed)
      /\ \A shard \in listed : load[shard] \in Nat
  BY LoadsAreNumbers
<1>2. n \in Nat /\ IsFiniteSet(1..n) /\ Cardinality(1..n) = n
  BY <1>1, FS_CardinalityType, FS_Interval
<1>3. /\ order \in [1..n -> listed]
      /\ \A i, j \in 1..n : i # j => order[i] # order[j]
      /\ \A i, j \in 1..n : i < j => load[order[i]] >= load[order[j]]
  BY <1>1 DEF Descending, SetToSeqs
<1> HIDE DEF n
<1>4. order \in Injection(1..n, listed)
  BY <1>3 DEF Injection, IsInjective
<1>5. order \in Surjection(1..n, listed)
  BY <1>1, <1>2, <1>4, FS_Injection DEF n
<1>6. order \in Seq(listed) /\ Len(order) = n
  BY <1>2, <1>3
<1>7. CASE n = 0
  <2>1. listed = {} /\ order = <<>>
    BY <1>1, <1>6, <1>7, FS_EmptySet DEF n
  <2> QED  BY <1>6, <2>1 DEF Biggest
<1>8. CASE n # 0
  <2>1. 1 \in 1..n /\ order # <<>>
    BY <1>2, <1>6, <1>8
  <2>2. Biggest(order) = load[order[1]] /\ Biggest(order) \in Nat
    BY <1>1, <1>3, <2>1 DEF Biggest
  <2>3. ASSUME NEW shard \in listed PROVE load[shard] <= Biggest(order)
    <3>1. PICK i \in 1..n : order[i] = shard
      BY <1>5 DEF Surjection
    <3>2. i = 1 \/ 1 < i
      BY <1>2
    <3>3. load[order[1]] >= load[order[i]]
      BY <1>1, <1>3, <2>1, <3>2
    <3> QED  BY <1>1, <1>3, <2>1, <2>2, <3>1, <3>3
  <2> QED  BY <1>6, <2>2, <2>3
<1> QED  BY <1>7, <1>8

(* Sorting gives shards of the input, and the bucket is their biggest load. *)
LEMMA InitType == Init => TypeOK
<1> SUFFICES ASSUME Init PROVE TypeOK
  OBVIOUS
<1>1. PICK listed \in SUBSET Shards : load \in [listed -> Loads]
  BY DEF Init
<1>2. PICK order \in Descending : bucket = Biggest(order) /\ pending = Sorted(order)
  BY DEF Init
<1>3. DOMAIN load = listed
  BY <1>1
<1>4. order \in Seq(listed) /\ bucket \in Nat /\ \A shard \in listed : load[shard] <= bucket
  BY <1>1, <1>2, FirstIsBiggest
<1>5. pending \in Seq(listed)
  BY <1>2, <1>4, SortedType
<1>6. replicas \in Seq([shards : Seq(listed), total : Nat])
  BY DEF Init
<1> QED  BY <1>1, <1>3, <1>4, <1>5, <1>6 DEF Init, TypeOK

(* What the type invariant says of the parts of the state, for the provers. *)
LEMMA StateTypes ==
  ASSUME TypeOK
  PROVE  /\ limit \in Int /\ bucket \in Nat
         /\ \A shard \in DOMAIN load : load[shard] \in Nat
         /\ replicas \in Seq(Replica) /\ Len(replicas) \in Nat
         /\ DOMAIN replicas = 1..Len(replicas)
         /\ \A i \in 1..Len(replicas) : replicas[i] \in Replica
<1>1. \A shard \in DOMAIN load : load[shard] \in Nat
  <2>1. PICK listed \in SUBSET Shards : load \in [listed -> Loads]
    BY DEF TypeOK
  <2> QED  BY <2>1, LoadsAreNumbers
<1>2. limit \in Int /\ bucket \in Nat
  BY PartitionerAssumption DEF TypeOK
<1>3. replicas \in Seq(Replica)
  BY DEF TypeOK, Replica
<1> QED  BY <1>1, <1>2, <1>3, LenProperties, ElementOfSeq

(* A new replica is of the right form. *)
LEMMA NewReplicaType ==
  ASSUME TypeOK, NEW shard \in DOMAIN load
  PROVE  /\ NewReplica(shard) \in Replica
         /\ NewReplica(shard).shards = <<shard>> /\ NewReplica(shard).total = load[shard]
  BY StateTypes DEF NewReplica, Replica

(* So is a replica that a shard has joined; its total is the sum, or a     *)
(* unit more where that was rounded up.                                    *)
LEMMA JoinedType ==
  ASSUME TypeOK, NEW shard \in DOMAIN load, NEW replica \in Replica, NEW e \in -1..1
  PROVE  /\ Joined(replica, shard, e) \in Replica
         /\ \/ Joined(replica, shard, e).total = replica.total + load[shard]
            \/ Joined(replica, shard, e).total = replica.total + load[shard] + 1
         /\ Joined(replica, shard, e).shards = Append(replica.shards, shard)
<1> DEFINE sum == replica.total + load[shard]
<1>1. Append(replica.shards, shard) \in Seq(DOMAIN load)
  BY AppendProperties DEF Replica
<1>2. sum \in Nat
  BY StateTypes DEF Replica
<1> HIDE DEF sum
<1>3. (2 * sum + e + 1) \div 2 = sum \/ (2 * sum + e + 1) \div 2 = sum + 1
  <2>1. e = -1 \/ e = 0 \/ e = 1
    OBVIOUS
  <2>2. (2 * sum) \div 2 = sum /\ (2 * sum + 1) \div 2 = sum /\ (2 * sum + 2) \div 2 = sum + 1
    BY <1>2
  <2> QED  BY <1>2, <2>1, <2>2
<1> QED  BY <1>1, <1>2, <1>3 DEF Replica, Joined, ParseQuantity, FloatSum, sum

(* No replica can take the shard, though sums may be inexact. *)
NoRoom(shard) ==
    \A i \in DOMAIN replicas : Full(replicas[i]) \/ replicas[i].total + load[shard] >= bucket

(* The k-th replica takes the shard with the error e. *)
Takes(k, shard, e) ==
    /\ k \in DOMAIN replicas /\ ~Full(replicas[k])
    /\ e \in Errors(replicas[k], shard) /\ FloatSum(replicas[k], shard, e) < 2 * bucket
    /\ replicas' = [replicas EXCEPT ![k] = Joined(@, shard, e)]

(* What one step does: the next shard gets a replica of its own when none  *)
(* can take it, or joins one that can; the other replicas stay.            *)
LEMMA StepShape ==
  ASSUME TypeOK, Next
  PROVE  /\ UNCHANGED <<load, limit, bucket>>
         /\ pending # <<>> /\ pending' = Tail(pending) /\ pending' \in Seq(DOMAIN load)
         /\ Head(pending) \in DOMAIN load
         /\ \/ NoRoom(Head(pending)) /\ replicas' = Append(replicas, NewReplica(Head(pending)))
            \/ \E k \in DOMAIN replicas, e \in -1..1 : Takes(k, Head(pending), e)
<1> DEFINE shard == Head(pending)
<1>1. /\ pending # <<>> /\ pending' = Tail(pending)
      /\ UNCHANGED <<load, limit, bucket>>
  BY DEF Next, Place
<1>2. shard \in DOMAIN load /\ Tail(pending) \in Seq(DOMAIN load)
  BY <1>1, HeadTailProperties DEF TypeOK
<1>3. PICK error \in [DOMAIN replicas -> -1..1] :
         /\ \A i \in DOMAIN replicas : error[i] \in Errors(replicas[i], shard)
         /\ CreateReplica(shard, error) \/ AssignToReplica(shard, error)
  BY DEF Next, Place
<1> HIDE DEF shard
<1>4. CASE CreateReplica(shard, error)
  <2>1. ASSUME NEW i \in DOMAIN replicas, ~Full(replicas[i])
        PROVE  replicas[i].total + load[shard] >= bucket
    <3>1. ~(FloatSum(replicas[i], shard, error[i]) < 2 * bucket)
      BY <1>4, <2>1 DEF CreateReplica, CanTake
    <3>2. /\ replicas[i].total \in Nat /\ load[shard] \in Nat /\ bucket \in Nat
          /\ error[i] \in -1..1
      BY <1>2, StateTypes DEF Replica
    <3> QED  BY <3>1, <3>2 DEF FloatSum
  <2>2. replicas' = Append(replicas, NewReplica(shard))
    BY <1>4 DEF CreateReplica
  <2> QED  BY <1>1, <1>2, <2>1, <2>2 DEF NoRoom, shard
<1>5. CASE AssignToReplica(shard, error)
  <2>1. PICK k \in CanTake(shard, error) :
           replicas' = [replicas EXCEPT ![k] = Joined(@, shard, error[k])]
    BY <1>5 DEF AssignToReplica, LeastLoaded
  <2>2. k \in DOMAIN replicas /\ error[k] \in -1..1 /\ Takes(k, shard, error[k])
    BY <1>3, <2>1 DEF CanTake, Takes
  <2> QED  BY <1>1, <1>2, <2>2 DEF shard
<1> QED  BY <1>3, <1>4, <1>5

(* The type invariant survives the placing of a shard. *)
LEMMA TypePreserved == TypeOK /\ [Next]_vars => TypeOK'
<1> SUFFICES ASSUME TypeOK, [Next]_vars PROVE TypeOK'
  OBVIOUS
<1>1. CASE Next
  <2> DEFINE shard == Head(pending)
  <2>1. UNCHANGED <<load, limit, bucket>> /\ pending' \in Seq(DOMAIN load) /\ shard \in DOMAIN load
    BY <1>1, StepShape
  <2>2. replicas \in Seq(Replica)
    BY DEF TypeOK, Replica
  <2>3. replicas' \in Seq(Replica)
    <3>1. CASE replicas' = Append(replicas, NewReplica(shard))
      <4>1. NewReplica(shard) \in Replica
        BY <2>1, NewReplicaType
      <4> QED  BY <2>2, <3>1, <4>1, AppendProperties
    <3>2. ASSUME NEW k \in DOMAIN replicas, NEW e \in -1..1, Takes(k, shard, e)
          PROVE  replicas' \in Seq(Replica)
      <4>1. k \in 1..Len(replicas) /\ replicas[k] \in Replica
        BY <2>2
      <4>2. Joined(replicas[k], shard, e) \in Replica
        BY <2>1, <4>1, JoinedType
      <4>3. replicas' = [replicas EXCEPT ![k] = Joined(replicas[k], shard, e)]
        BY <3>2 DEF Takes
      <4> QED  BY <2>2, <4>1, <4>2, <4>3, ExceptSeq
    <3> QED  BY <1>1, <3>1, <3>2, StepShape
  <2> QED  BY <2>1, <2>3 DEF TypeOK, Replica
<1>2. CASE UNCHANGED vars
  BY <1>2 DEF vars, TypeOK
<1> QED  BY <1>1, <1>2

(* The bucket size is the biggest load, and the totals remain numbers. *)
THEOREM TypeCorrect == Spec => []TypeOK
  BY InitType, TypePreserved, PTL DEF Spec

------------------------------------------------------------------------------
(* The load of a list of shards. *)
Terms(shards) == [k \in DOMAIN shards |-> load[shards[k]]]

LEMMA TermsAreNumbers ==
  ASSUME TypeOK, NEW shards \in Seq(DOMAIN load)
  PROVE  /\ DOMAIN shards = 1..Len(shards) /\ IsFiniteSet(DOMAIN shards)
         /\ \A k \in DOMAIN shards : /\ load[shards[k]] \in Nat
                                   /\ Terms(shards)[k] = load[shards[k]]
<1>1. DOMAIN shards = 1..Len(shards) /\ Len(shards) \in Nat
  OBVIOUS
<1>2. IsFiniteSet(DOMAIN shards)
  BY <1>1, FS_Interval
<1>3. \A k \in DOMAIN shards : shards[k] \in DOMAIN load
  OBVIOUS
<1> QED  BY <1>1, <1>2, <1>3, StateTypes DEF Terms

LEMMA TrueLoadIsSum ==
  ASSUME NEW shards
  PROVE  TrueLoad(shards) = SumFunctionOnSet(Terms(shards), DOMAIN shards)
  BY DEF TrueLoad, SumFunction, Terms

(* A shard more adds its load. *)
LEMMA LoadAppend ==
  ASSUME TypeOK, NEW shards \in Seq(DOMAIN load), NEW shard \in DOMAIN load
  PROVE  TrueLoad(Append(shards, shard)) = TrueLoad(shards) + load[shard]
<1> DEFINE n == Len(shards)
           longer == Append(shards, shard)
<1>1. /\ longer \in Seq(DOMAIN load) /\ n \in Nat
      /\ DOMAIN shards = 1..n /\ DOMAIN longer = 1..(n+1)
      /\ longer[n+1] = shard /\ \A k \in 1..n : longer[k] = shards[k]
  BY AppendProperties
<1> HIDE DEF longer, n
<1>2. /\ IsFiniteSet(1..n) /\ IsFiniteSet(1..(n+1))
      /\ \A k \in 1..n : Terms(shards)[k] = load[shards[k]] /\ load[shards[k]] \in Nat
      /\ \A k \in 1..(n+1) : Terms(longer)[k] = load[longer[k]] /\ load[longer[k]] \in Nat
  BY <1>1, TermsAreNumbers
<1>3. n + 1 \in 1..(n+1) /\ (1..(n+1)) \ {n+1} = 1..n
  BY <1>1
<1>4. TrueLoad(longer) = load[shard] + SumFunctionOnSet(Terms(longer), 1..n)
      /\ SumFunctionOnSet(Terms(longer), 1..n) \in Nat
  <2>1. \A k \in 1..(n+1) : Terms(longer)[k] \in Nat
    BY <1>2
  <2>2. \A k \in 1..(n+1) :
           /\ SumFunctionOnSet(Terms(longer), (1..(n+1)) \ {k}) \in Nat
           /\ SumFunctionOnSet(Terms(longer), 1..(n+1))
                = Terms(longer)[k] + SumFunctionOnSet(Terms(longer), (1..(n+1)) \ {k})
    BY <1>2, <2>1, SumRemove
  <2> QED  BY <1>1, <1>2, <1>3, <2>2, TrueLoadIsSum
<1>5. SumFunctionOnSet(Terms(longer), 1..n) = TrueLoad(shards)
  <2>1. \A k \in 1..n : Terms(shards)[k] \in Int /\ Terms(longer)[k] = Terms(shards)[k]
    BY <1>1, <1>2
  <2>2. SumFunctionOnSet(Terms(longer), 1..n) = SumFunctionOnSet(Terms(shards), 1..n)
    BY <1>2, <2>1, SumSame
  <2> QED  BY <1>1, <2>2, TrueLoadIsSum
<1>6. load[shard] \in Nat
  BY StateTypes
<1> QED  BY <1>4, <1>5, <1>6 DEF longer

LEMMA LoadOne ==
  ASSUME TypeOK, NEW shard \in DOMAIN load
  PROVE  TrueLoad(<<shard>>) = load[shard]
<1>1. <<>> \in Seq(DOMAIN load) /\ Append(<<>>, shard) = <<shard>> /\ DOMAIN <<>> = {}
  OBVIOUS
<1>2. TrueLoad(<<>>) = 0
  BY <1>1, TermsAreNumbers, SumRemove, TrueLoadIsSum
<1>3. TrueLoad(Append(<<>>, shard)) = TrueLoad(<<>>) + load[shard]
  BY <1>1, LoadAppend
<1>4. load[shard] \in Nat
  BY StateTypes
<1> QED  BY <1>1, <1>2, <1>3, <1>4

LEMMA LoadType ==
  ASSUME TypeOK, NEW shards \in Seq(DOMAIN load)
  PROVE  TrueLoad(shards) \in Nat
<1>1. \A k \in DOMAIN shards : Terms(shards)[k] \in Nat
  BY TermsAreNumbers
<1> QED  BY <1>1, TermsAreNumbers, SumRemove, TrueLoadIsSum

------------------------------------------------------------------------------
(* A total is never less than the shards' load: it is only rounded up. That *)
(* of a single shard is its load.                                          *)
Covers(replica) == /\ TrueLoad(replica.shards) <= replica.total
                   /\ Len(replica.shards) = 1 => replica.total = load[replica.shards[1]]

TotalsCover == \A i \in DOMAIN replicas : Covers(replicas[i])

(* The inductive invariant adds this to the properties themselves: the     *)
(* limits are kept because the comparison is of totals that cover the true *)
(* loads, and the replicas are needed because the first shard of each stays *)
(* the first.                                                              *)
IInv == TypeOK /\ TotalsCover /\ WithinLimits /\ NoNeedlessReplica

(* What WithinLimits asks of one replica. *)
Within(replica) == /\ Len(replica.shards) >= 1
                   /\ limit > 0 => Len(replica.shards) <= limit
                   /\ Len(replica.shards) > 1
                      => /\ TrueLoad(replica.shards) <= bucket
                         /\ \A k \in DOMAIN replica.shards : load[replica.shards[k]] < bucket

LEMMA WithinEach == WithinLimits <=> \A i \in DOMAIN replicas : Within(replicas[i])
  BY DEF WithinLimits, Within

(* A replica that stays as it was is as good as it was. *)
LEMMA SameReplica ==
  ASSUME UNCHANGED <<load, limit, bucket>>, NEW i, replicas'[i] = replicas[i]
  PROVE  /\ Covers(replicas[i])' <=> Covers(replicas[i])
         /\ Within(replicas[i])' <=> Within(replicas[i])
         /\ Full(replicas[i])' <=> Full(replicas[i])
  BY DEF Covers, Within, Full, TrueLoad, SumFunction

(* A replica is added only when no earlier one can take the shard. *)
LEMMA NewReplicaKeepsInv ==
  ASSUME IInv, NEW shard \in DOMAIN load, NoRoom(shard),
         replicas' = Append(replicas, NewReplica(shard)), UNCHANGED <<load, limit, bucket>>
  PROVE  TotalsCover' /\ WithinLimits' /\ NoNeedlessReplica'
<1> DEFINE n == Len(replicas)
<1>0. n \in Nat /\ \A i \in 1..(n+1) : i \in 1..n \/ i = n + 1
  BY StateTypes DEF IInv
<1>1. /\ replicas \in Seq(Replica) /\ n \in Nat
      /\ limit \in Int /\ bucket \in Nat /\ load[shard] \in Nat
      /\ \A other \in DOMAIN load : load[other] \in Nat
  BY StateTypes DEF IInv
<1>2. NewReplica(shard) \in Replica
  BY NewReplicaType DEF IInv
<1>3. /\ DOMAIN replicas = 1..n /\ DOMAIN replicas' = 1..(n+1)
      /\ \A i \in 1..n : replicas'[i] = replicas[i] /\ replicas[i] \in Replica
      /\ replicas'[n+1] = NewReplica(shard)
  BY <1>1, <1>2, AppendProperties
<1>4. /\ NewReplica(shard).shards = <<shard>> /\ NewReplica(shard).total = load[shard]
      /\ Len(<<shard>>) = 1 /\ <<shard>>[1] = shard
  BY DEF NewReplica
<1> HIDE DEF n
<1>5. ASSUME NEW i \in 1..(n+1) PROVE (Covers(replicas[i]) /\ Within(replicas[i]))'
  <2>1. CASE i \in 1..n
    <3>1. Covers(replicas[i]) /\ Within(replicas[i])
      BY <1>3, <2>1, WithinEach DEF IInv, TotalsCover
    <3> QED  BY <1>3, <2>1, <3>1, SameReplica
  <2>2. CASE i = n + 1
    <3>1. /\ replicas'[i].shards = <<shard>> /\ replicas'[i].total = load[shard]
          /\ Len(replicas'[i].shards) = 1 /\ replicas'[i].shards[1] = shard
      BY <1>3, <1>4, <2>2
    <3>2. TrueLoad(<<shard>>) = load[shard]
      BY LoadOne DEF IInv
    <3>3. TrueLoad(replicas[i].shards)' = TrueLoad(replicas'[i].shards)
      BY DEF TrueLoad
    <3>4. Covers(replicas[i])'
      BY <1>1, <3>1, <3>2, <3>3 DEF Covers
    <3>5. Within(replicas[i])'
      BY <1>1, <3>1 DEF Within
    <3> QED  BY <3>4, <3>5
  <2> QED  BY <1>0, <2>1, <2>2
<1>6. TotalsCover' /\ WithinLimits'
  <2>1. (\A i \in DOMAIN replicas : Within(replicas[i]))' => WithinLimits'
    BY WithinEach, PTL
  <2> QED  BY <1>3, <1>5, <2>1 DEF TotalsCover
<1>7. NoNeedlessReplica'
  <2> SUFFICES ASSUME NEW i \in 1..(n+1), NEW j \in 1..(n+1), i < j
               PROVE  \/ Full(replicas[i])'
                      \/ replicas'[i].total + load[replicas'[j].shards[1]] >= bucket
    BY <1>3 DEF NoNeedlessReplica
  <2>1. CASE j \in 1..n
    <3>1. i \in 1..n
      BY <1>1, <2>1
    <3>2. replicas'[i] = replicas[i] /\ replicas'[j] = replicas[j]
      BY <1>3, <2>1, <3>1
    <3>3. Full(replicas[i]) \/ replicas[i].total + load[replicas[j].shards[1]] >= bucket
      BY <1>3, <2>1, <3>1 DEF IInv, NoNeedlessReplica
    <3> QED  BY <3>2, <3>3 DEF Full
  <2>2. CASE j = n + 1
    BY <1>1, <1>3, <1>4, <2>2 DEF Full, NoRoom
  <2> QED  BY <1>0, <2>1, <2>2
<1> QED  BY <1>6, <1>7

(* Where the inexact sum is less than the bucket, the true one does not exceed it. *)
LEMMA Comparison ==
  ASSUME NEW t \in Nat, NEW l \in Nat, NEW b \in Nat, NEW e \in -1..1, 2 * (t + l) + e < 2 * b
  PROVE  t + l <= b /\ (e >= 0 => t + l < b) /\ (t # 0 => l < b) /\ (l # 0 => t < b)
<1>1. e \in Int /\ e >= -1
  OBVIOUS
<1>2. t + l <= b
  BY <1>1
<1>3. e >= 0 => t + l < b
  BY <1>1
<1> QED  BY <1>2, <1>3

(* A replica that takes a shard had room for it, and is only fuller for it. *)
LEMMA JoinKeepsInv ==
  ASSUME IInv, NEW shard \in DOMAIN load, NEW k, NEW e, Takes(k, shard, e),
         UNCHANGED <<load, limit, bucket>>
  PROVE  TotalsCover' /\ WithinLimits' /\ NoNeedlessReplica'
<1> DEFINE n == Len(replicas)
<1>1. /\ replicas \in Seq(Replica) /\ n \in Nat
      /\ limit \in Int /\ bucket \in Nat /\ load[shard] \in Nat
      /\ \A other \in DOMAIN load : load[other] \in Nat
  BY StateTypes DEF IInv
<1>2. /\ k \in 1..n /\ ~Full(replicas[k]) /\ e \in -1..1
      /\ \A i \in 1..n : replicas[i] \in Replica
  BY StateTypes DEF IInv, Takes, Errors
<1> DEFINE old == replicas[k]
           new == Joined(old, shard, e)
<1>3. /\ DOMAIN replicas = 1..n /\ DOMAIN replicas' = 1..n
      /\ replicas'[k] = new
      /\ \A i \in 1..n : i # k => replicas'[i] = replicas[i]
  BY <1>1, <1>2 DEF Takes
<1>4. /\ new.total \in Nat /\ new.total >= old.total + load[shard]
      /\ new.shards = Append(old.shards, shard) /\ new.shards \in Seq(DOMAIN load)
      /\ old.shards \in Seq(DOMAIN load) /\ old.total \in Nat
  <2>1. /\ old.shards \in Seq(DOMAIN load) /\ old.total \in Nat
    BY <1>2 DEF Replica
  <2>2. /\ new \in Replica /\ new.shards = Append(old.shards, shard)
        /\ new.total = old.total + load[shard] \/ new.total = old.total + load[shard] + 1
    BY <1>2, JoinedType DEF IInv
  <2>3. new.total \in Nat /\ new.shards \in Seq(DOMAIN load)
    BY <2>2 DEF Replica
  <2> HIDE DEF new, old
  <2> QED  BY <1>1, <2>1, <2>2, <2>3
<1>5. Covers(old) /\ Within(old)
  BY <1>2, <1>3, WithinEach DEF IInv, TotalsCover
<1>6. /\ old.total + load[shard] <= bucket
      /\ e >= 0 => old.total + load[shard] < bucket
      /\ old.total # 0 => load[shard] < bucket
      /\ load[shard] # 0 => old.total < bucket
  <2>1. 2 * (old.total + load[shard]) + e < 2 * bucket
    BY DEF Takes, FloatSum
  <2> HIDE DEF old
  <2> QED  BY <1>1, <1>2, <1>4, <2>1, Comparison
<1>7. e \in Errors(old, shard)
  BY DEF Takes
<1>8. ~Full(old)
  BY <1>2
<1> HIDE DEF new, old, n
<1>9. Len(old.shards) \in Nat /\ Len(old.shards) >= 1
  BY <1>4, <1>5 DEF Within
<1>10. /\ Len(new.shards) = Len(old.shards) + 1 /\ new.shards[1] = old.shards[1]
       /\ DOMAIN new.shards = 1..(Len(old.shards) + 1)
       /\ \A i \in 1..Len(old.shards) : new.shards[i] = old.shards[i]
       /\ new.shards[Len(old.shards) + 1] = shard
  BY <1>4, <1>9, AppendProperties
<1>11. TrueLoad(new.shards) = TrueLoad(old.shards) + load[shard] /\ TrueLoad(old.shards) \in Nat
  BY <1>4, LoadAppend, LoadType DEF IInv
(* The shard that joins does not fill a bucket, nor does the one it joins. *)
<1>12. load[shard] < bucket
  <2>1. CASE old.total = 0
    BY <1>1, <1>6, <1>7, <2>1 DEF Errors
  <2>2. CASE old.total # 0
    BY <1>6, <2>2
  <2> QED  BY <2>1, <2>2
<1>13. ASSUME NEW i \in 1..Len(old.shards) PROVE load[old.shards[i]] < bucket
  <2>1. CASE Len(old.shards) = 1
    <3>1. load[old.shards[i]] = old.total
      BY <1>5, <2>1 DEF Covers
    <3>2. old.total < bucket
      <4>1. CASE load[shard] = 0
        BY <1>4, <1>6, <1>7, <2>1, <4>1 DEF Errors
      <4>2. CASE load[shard] # 0
        BY <1>6, <4>2
      <4> QED  BY <4>1, <4>2
    <3> QED  BY <3>1, <3>2
  <2>2. CASE Len(old.shards) # 1
    <3> DEFINE m == Len(old.shards)
    <3>1. m > 1
      <4>1. m \in Nat /\ m >= 1 /\ m # 1
        BY <1>9, <2>2
      <4> HIDE DEF m
      <4> QED  BY <4>1
    <3>2. i \in DOMAIN old.shards
      BY <1>4
    <3> QED  BY <1>5, <3>1, <3>2 DEF Within
  <2> QED  BY <2>1, <2>2
<1>14. Covers(replicas[k])'
  <2>1. TrueLoad(replicas[k].shards)' = TrueLoad(new.shards)
    BY <1>3 DEF TrueLoad
  <2>2. TrueLoad(new.shards) <= new.total
    BY <1>1, <1>4, <1>5, <1>11 DEF Covers
  <2>3. Len(new.shards) # 1
    BY <1>9, <1>10
  <2> QED  BY <1>3, <2>1, <2>2, <2>3 DEF Covers
<1>15. Within(replicas[k])'
  <2>1. TrueLoad(replicas[k].shards)' = TrueLoad(new.shards)
    BY <1>3 DEF TrueLoad
  <2>2. TrueLoad(new.shards) <= bucket
    <3>1. TrueLoad(old.shards) <= old.total
      BY <1>5 DEF Covers
    <3> QED  BY <1>1, <1>4, <1>6, <1>11, <3>1
  <2>3. limit > 0 => Len(new.shards) <= limit
    BY <1>1, <1>8, <1>9, <1>10 DEF Full
  <2>4. \A i \in DOMAIN new.shards : load[new.shards[i]] < bucket
    <3> SUFFICES ASSUME NEW i \in 1..(Len(old.shards) + 1) PROVE load[new.shards[i]] < bucket
      BY <1>10
    <3>1. i \in 1..Len(old.shards) \/ i = Len(old.shards) + 1
      BY <1>9
    <3> QED  BY <1>10, <1>12, <1>13, <3>1
  <2>5. Len(new.shards) >= 1
    BY <1>9, <1>10
  <2> QED  BY <1>3, <2>1, <2>2, <2>3, <2>4, <2>5 DEF Within
<1>16. TotalsCover' /\ WithinLimits'
  <2>1. ASSUME NEW i \in 1..n PROVE (Covers(replicas[i]) /\ Within(replicas[i]))'
    <3>1. CASE i = k
      BY <1>14, <1>15, <3>1
    <3>2. CASE i # k
      <4>1. Covers(replicas[i]) /\ Within(replicas[i])
        BY <1>3, WithinEach DEF IInv, TotalsCover
      <4> QED  BY <1>3, <3>2, <4>1, SameReplica
    <3> QED  BY <3>1, <3>2
  <2>2. (\A i \in DOMAIN replicas : Within(replicas[i]))' => WithinLimits'
    BY WithinEach, PTL
  <2> QED  BY <1>3, <2>1, <2>2 DEF TotalsCover
<1>17. NoNeedlessReplica'
  <2> SUFFICES ASSUME NEW i \in 1..n, NEW j \in 1..n, i < j
               PROVE  \/ Full(replicas[i])'
                      \/ replicas'[i].total + load[replicas'[j].shards[1]] >= bucket
    BY <1>3 DEF NoNeedlessReplica
  <2>1. replicas'[j].shards[1] = replicas[j].shards[1]
    BY <1>3, <1>10 DEF old
  <2>2. \/ Full(replicas[i])
        \/ replicas[i].total + load[replicas[j].shards[1]] >= bucket
    BY <1>3 DEF IInv, NoNeedlessReplica
  <2>3. load[replicas[j].shards[1]] \in Nat
    <3>1. replicas[j].shards \in Seq(DOMAIN load) /\ Len(replicas[j].shards) >= 1
      BY <1>2, <1>3, WithinEach DEF IInv, Within, Replica
    <3> QED  BY <1>1, <3>1
  <2>4. CASE i = k
    <3>1. replicas[i].total = old.total /\ replicas'[i].total = new.total
      BY <1>3, <2>4 DEF old
    <3>2. old.total + load[replicas[j].shards[1]] >= bucket
      BY <1>8, <2>2, <2>4, <3>1 DEF old
    <3>3. new.total + load[replicas[j].shards[1]] >= bucket
      BY <1>1, <1>4, <2>3, <3>2
    <3> QED  BY <2>1, <3>1, <3>3
  <2>5. CASE i # k
    BY <1>3, <2>1, <2>2, <2>5, SameReplica
  <2> QED  BY <2>4, <2>5
<1> QED  BY <1>16, <1>17

(* The invariant holds in every state. *)
LEMMA InvHolds == Spec => []IInv
<1>1. Init => IInv
  BY InitType DEF Init, IInv, TotalsCover, WithinLimits, NoNeedlessReplica
<1>2. IInv /\ [Next]_vars => IInv'
  <2> SUFFICES ASSUME IInv, [Next]_vars PROVE IInv'
    OBVIOUS
  <2>1. TypeOK /\ TypeOK'
    BY TypePreserved DEF IInv
  <2>2. CASE Next
    BY <2>1, <2>2, StepShape, NewReplicaKeepsInv, JoinKeepsInv DEF IInv
  <2>3. CASE UNCHANGED vars
    <3>1. TotalsCover' <=> TotalsCover
      BY <2>3 DEF vars, TotalsCover, Covers, TrueLoad, SumFunction
    <3>2. WithinLimits' <=> WithinLimits
      BY <2>3 DEF vars, WithinLimits, TrueLoad, SumFunction
    <3>3. NoNeedlessReplica' <=> NoNeedlessReplica
      BY <2>3 DEF vars, NoNeedlessReplica, Full
    <3> QED  BY <2>1, <3>1, <3>2, <3>3 DEF IInv
  <2> QED  BY <2>2, <2>3
<1> QED  BY <1>1, <1>2, PTL DEF Spec

(* No replica exceeds maxShardsPerReplica. Shards that share one have a    *)
(* bucket's load at most, however the sums were rounded, and none of them  *)
(* fills a bucket, which is the load of the heaviest single shard.         *)
THEOREM LimitsRespected == Spec => []WithinLimits
  BY InvHolds, PTL DEF IInv

(* Whatever order the shards come in, the in-cluster one ahead or not, a   *)
(* replica is only created for a shard that no earlier one could take.     *)
THEOREM ReplicasNeeded == Spec => []NoNeedlessReplica
  BY InvHolds, PTL DEF IInv

------------------------------------------------------------------------------
(* Each shard is in one place, of those that are sorted or of those on the *)
(* replicas.                                                               *)
Placement ==
    /\ \A i, j \in DOMAIN pending : pending[i] = pending[j] => i = j
    /\ \A place \in Places, i \in DOMAIN pending : ShardAt(place) # pending[i]
    /\ \A p, q \in Places : ShardAt(p) = ShardAt(q) => p = q
    /\ \A shard \in DOMAIN load : \/ \E i \in DOMAIN pending : pending[i] = shard
                                  \/ \E place \in Places : ShardAt(place) = shard

(* The shard brought to the front pushes back those that were before it.   *)
LEMMA SortedShape ==
  ASSUME NEW S, NEW order \in Seq(S), Found(order) # {}
  PROVE  \E k \in 1..Len(order) :
           /\ Len(Sorted(order)) = Len(order)
           /\ Sorted(order)[1] = order[k]
           /\ \A i \in 2..k : Sorted(order)[i] = order[i-1]
           /\ \A i \in (k+1)..Len(order) : Sorted(order)[i] = order[i]
<1> DEFINE k == CHOOSE i \in Found(order) : TRUE
           n == Len(order)
           before == SubSeq(order, 1, k-1)
           after == SubSeq(order, k+1, n)
           one == <<order[k]>>
<1>1. k \in 1..n /\ n \in Nat
  BY DEF Found
<1>2. Sorted(order) = one \o (before \o after)
  BY DEF Sorted, RemoveAt
<1> HIDE DEF k
<1>3. /\ before \in Seq(S) /\ Len(before) = k - 1
      /\ \A i \in 1..(k-1) : before[i] = order[i]
  BY <1>1, SubSeqProperties
<1>4. /\ after \in Seq(S) /\ Len(after) = n - k
      /\ \A i \in 1..(n-k) : after[i] = order[k+i]
  BY <1>1, SubSeqProperties
<1>5. one \in Seq(S) /\ Len(one) = 1 /\ one[1] = order[k]
  BY <1>1
<1> HIDE DEF before, after, one, n
<1> DEFINE rest == before \o after
<1>6. /\ rest \in Seq(S) /\ Len(rest) = n - 1
      /\ \A i \in 1..(k-1) : rest[i] = order[i]
      /\ \A i \in k..(n-1) : rest[i] = order[i+1]
  <2>1. rest \in Seq(S) /\ Len(rest) = Len(before) + Len(after)
        /\ \A i \in 1..(Len(before) + Len(after)) :
              rest[i] = IF i <= Len(before) THEN before[i] ELSE after[i - Len(before)]
    BY <1>3, <1>4, ConcatProperties
  <2> HIDE DEF rest
  <2>2. Len(rest) = n - 1
    BY <1>1, <1>3, <1>4, <2>1
  <2>3. ASSUME NEW i \in 1..(k-1) PROVE rest[i] = order[i]
    BY <1>1, <1>3, <1>4, <2>1
  <2>4. ASSUME NEW i \in k..(n-1) PROVE rest[i] = order[i+1]
    <3>1. rest[i] = after[i - (k-1)]
      BY <1>1, <1>3, <1>4, <2>1
    <3>2. i - (k-1) \in 1..(n-k)
      BY <1>1
    <3> QED  BY <1>1, <1>4, <3>1, <3>2
  <2> QED  BY <2>1, <2>2, <2>3, <2>4
<1> HIDE DEF rest
<1>7. /\ Len(one \o rest) = n
      /\ \A i \in 1..n : (one \o rest)[i] = IF i <= 1 THEN one[i] ELSE rest[i-1]
  <2>1. /\ Len(one \o rest) = Len(one) + Len(rest)
        /\ \A i \in 1..(Len(one) + Len(rest)) :
              (one \o rest)[i] = IF i <= Len(one) THEN one[i] ELSE rest[i - Len(one)]
    <3>1. one \in Seq(S) /\ rest \in Seq(S)
      BY <1>5, <1>6
    <3> QED  BY ONLY <3>1, ConcatProperties
  <2>2. Len(one) + Len(rest) = n
    BY <1>1, <1>5, <1>6
  <2> QED  BY <1>5, <2>1, <2>2
<1>8. ASSUME NEW i \in 2..k PROVE (one \o rest)[i] = order[i-1]
  <2>1. i \in 1..n /\ ~(i <= 1) /\ i - 1 \in 1..(k-1)
    BY <1>1
  <2>2. (one \o rest)[i] = rest[i-1]
    BY <1>7, <2>1
  <2> QED  BY <1>6, <2>1, <2>2
<1>9. ASSUME NEW i \in (k+1)..n PROVE (one \o rest)[i] = order[i]
  <2>1. i \in 1..n /\ ~(i <= 1) /\ i - 1 \in k..(n-1) /\ (i - 1) + 1 = i
    BY <1>1
  <2>2. (one \o rest)[i] = rest[i-1]
    BY <1>7, <2>1
  <2>3. rest[i-1] = order[(i-1)+1]
    BY <1>6, <2>1
  <2> QED  BY <2>1, <2>2, <2>3
<1>10. Sorted(order) = one \o rest
  BY <1>2 DEF rest
<1>11. (one \o rest)[1] = order[k]
  BY <1>1, <1>5, <1>7
<1> QED  BY <1>1, <1>7, <1>8, <1>9, <1>10, <1>11 DEF n

(* So each shard is in the list once, after as before. *)
LEMMA SortedPermutes ==
  ASSUME NEW S, NEW order \in Seq(S),
         \A i, j \in 1..Len(order) : order[i] = order[j] => i = j,
         \A shard \in S : \E i \in 1..Len(order) : order[i] = shard
  PROVE  /\ \A i, j \in 1..Len(Sorted(order)) : Sorted(order)[i] = Sorted(order)[j] => i = j
         /\ \A shard \in S : \E i \in 1..Len(Sorted(order)) : Sorted(order)[i] = shard
<1>1. CASE Found(order) = {}
  BY <1>1 DEF Sorted
<1>2. CASE Found(order) # {}
  <2> DEFINE n == Len(order)
             s == Sorted(order)
  <2>1. PICK k \in 1..n : /\ Len(s) = n /\ s[1] = order[k]
                          /\ \A i \in 2..k : s[i] = order[i-1]
                          /\ \A i \in (k+1)..n : s[i] = order[i]
    BY <1>2, SortedShape
  <2> DEFINE from(i) == IF i = 1 THEN k ELSE IF i <= k THEN i - 1 ELSE i
  <2>2. n \in Nat
    OBVIOUS
  <2> HIDE DEF s, n
  <2>3. ASSUME NEW i \in 1..n PROVE from(i) \in 1..n /\ s[i] = order[from(i)]
    <3>1. i = 1 \/ i \in 2..k \/ i \in (k+1)..n
      BY <2>2
    <3>2. from(i) \in 1..n
      BY <2>2
    <3>3. CASE i = 1
      BY <2>1, <3>2, <3>3
    <3>4. CASE i \in 2..k
      <4>1. from(i) = i - 1
        BY <2>2, <3>4
      <4> HIDE DEF from
      <4> QED  BY <2>1, <3>2, <3>4, <4>1
    <3>5. CASE i \in (k+1)..n
      <4>1. from(i) = i
        BY <2>2, <3>5
      <4> HIDE DEF from
      <4> QED  BY <2>1, <3>2, <3>5, <4>1
    <3> HIDE DEF from
    <3> QED  BY <3>1, <3>3, <3>4, <3>5
  <2>4. ASSUME NEW i \in 1..n, NEW j \in 1..n, from(i) = from(j) PROVE i = j
    BY <2>2, <2>4
  <2>5. ASSUME NEW j \in 1..n PROVE \E i \in 1..n : from(i) = j
    <3>1. CASE j = k
      BY <2>2, <3>1
    <3>2. CASE j < k
      <4>1. j + 1 \in 1..n /\ from(j + 1) = j
        BY <2>2, <3>2
      <4> QED  BY <4>1
    <3>3. CASE j > k
      BY <2>2, <3>3
    <3> QED  BY <2>2, <3>1, <3>2, <3>3
  <2> HIDE DEF from
  <2>6. \A i, j \in 1..n : s[i] = s[j] => i = j
    <3> SUFFICES ASSUME NEW i \in 1..n, NEW j \in 1..n, s[i] = s[j] PROVE i = j
      OBVIOUS
    <3>1. from(i) \in 1..n /\ from(j) \in 1..n /\ order[from(i)] = order[from(j)]
      BY <2>3
    <3>2. from(i) = from(j)
      BY <3>1 DEF n
    <3> QED  BY <2>4, <3>2
  <2>7. ASSUME NEW shard \in S PROVE \E i \in 1..n : s[i] = shard
    <3>1. PICK j \in 1..n : order[j] = shard
      BY DEF n
    <3>2. PICK i \in 1..n : from(i) = j
      BY <2>5
    <3> QED  BY <2>3, <3>1, <3>2
  <2> QED  BY <2>1, <2>6, <2>7 DEF s
<1> QED  BY <1>1, <1>2

(* Sorting loses no shard and repeats none; nothing is placed yet. *)
LEMMA InitPlacement == Init => Placement
<1> SUFFICES ASSUME Init PROVE Placement
  OBVIOUS
<1>1. PICK listed \in SUBSET Shards : load \in [listed -> Loads]
  BY DEF Init
<1>2. PICK order \in Descending : pending = Sorted(order)
  BY DEF Init
<1> DEFINE n == Cardinality(listed)
<1>3. DOMAIN load = listed /\ IsFiniteSet(listed) /\ n \in Nat
  BY <1>1, LoadsAreNumbers, FS_CardinalityType
<1>4. order \in [1..n -> listed] /\ \A i, j \in 1..n : i # j => order[i] # order[j]
  BY <1>3 DEF Descending, SetToSeqs
<1>5. IsFiniteSet(1..n) /\ Cardinality(1..n) = n
  BY <1>3, FS_Interval
<1>6. order \in Surjection(1..n, listed)
  <2> HIDE DEF n
  <2>1. order \in Injection(1..n, listed)
    BY <1>4 DEF Injection, IsInjective
  <2> QED  BY <1>3, <1>5, <2>1, FS_Injection DEF n
<1> HIDE DEF n
<1>7. order \in Seq(listed) /\ Len(order) = n
  BY <1>3, <1>4
<1>8. /\ \A i, j \in 1..Len(order) : order[i] = order[j] => i = j
      /\ \A shard \in listed : \E i \in 1..Len(order) : order[i] = shard
  <2>1. \A shard \in listed : \E i \in 1..n : order[i] = shard
    BY <1>6 DEF Surjection
  <2> QED  BY <1>4, <1>7, <2>1
<1>9. /\ \A i, j \in 1..Len(pending) : pending[i] = pending[j] => i = j
      /\ \A shard \in listed : \E i \in 1..Len(pending) : pending[i] = shard
  BY <1>2, <1>7, <1>8, SortedPermutes
<1>10. DOMAIN pending = 1..Len(pending)
  BY <1>2, <1>7, SortedType
<1>11. Places = {}
  BY DEF Init, Places
<1> QED  BY <1>3, <1>9, <1>10, <1>11 DEF Placement

(* Where the next shard gets a place that was not there before, and no     *)
(* other moves, every shard is still in one place.                         *)
LEMMA PlacedOnce ==
  ASSUME TypeOK, Placement, pending # <<>>, pending' = Tail(pending), UNCHANGED load,
         NEW new, new \notin Places, Places' = Places \cup {new},
         replicas'[new[1]].shards[new[2]] = Head(pending),
         \A p \in Places : replicas'[p[1]].shards[p[2]] = replicas[p[1]].shards[p[2]]
  PROVE  Placement'
<1> DEFINE n == Len(pending)
           At(p) == replicas'[p[1]].shards[p[2]]
<1>1. /\ n \in Nat /\ n >= 1 /\ DOMAIN pending = 1..n /\ DOMAIN pending' = 1..(n-1)
      /\ Head(pending) = pending[1] /\ \A i \in 1..(n-1) : pending'[i] = pending[i+1]
  <2>1. pending \in Seq(DOMAIN load)
    BY DEF TypeOK
  <2> QED  BY <2>1
<1>2. At(new) = pending[1] /\ \A p \in Places : At(p) = ShardAt(p)
  BY <1>1 DEF ShardAt
<1>3. \A i, j \in 1..n : pending[i] = pending[j] => i = j
  BY <1>1 DEF Placement
<1>4. \A p \in Places, i \in 1..n : ShardAt(p) # pending[i]
  BY <1>1 DEF Placement
<1>5. \A p, q \in Places : ShardAt(p) = ShardAt(q) => p = q
  BY DEF Placement
<1>6. \A shard \in DOMAIN load : \/ \E i \in 1..n : pending[i] = shard
                                \/ \E p \in Places : ShardAt(p) = shard
  BY <1>1 DEF Placement
<1> HIDE DEF n, At
<1>7. ASSUME NEW i \in 1..(n-1), NEW j \in 1..(n-1), pending'[i] = pending'[j] PROVE i = j
  <2>1. pending[i+1] = pending[j+1] /\ i + 1 \in 1..n /\ j + 1 \in 1..n
    BY <1>1, <1>7
  <2>2. i + 1 = j + 1
    BY <1>3, <2>1
  <2> QED  BY <2>2
<1>8. ASSUME NEW p \in Places', NEW i \in 1..(n-1) PROVE At(p) # pending'[i]
  <2>1. pending'[i] = pending[i+1] /\ i + 1 \in 1..n /\ 1 \in 1..n /\ i + 1 # 1
    BY <1>1
  <2>2. CASE p = new
    <3>1. pending[1] # pending[i+1]
      BY <1>3, <2>1
    <3> QED  BY <1>2, <2>1, <2>2, <3>1
  <2>3. CASE p \in Places
    BY <1>2, <1>4, <2>1, <2>3
  <2> QED  BY <2>2, <2>3
<1>9. ASSUME NEW p \in Places', NEW q \in Places', At(p) = At(q) PROVE p = q
  <2>1. 1 \in 1..n
    BY <1>1
  <2> QED  BY <1>2, <1>4, <1>5, <1>9, <2>1
<1>10. ASSUME NEW shard \in DOMAIN load
       PROVE  \/ \E i \in 1..(n-1) : pending'[i] = shard
              \/ \E p \in Places' : At(p) = shard
  <2>1. CASE \E p \in Places : ShardAt(p) = shard
    BY <1>2, <2>1
  <2>2. ASSUME NEW i \in 1..n, pending[i] = shard
        PROVE  \/ \E j \in 1..(n-1) : pending'[j] = shard
               \/ \E p \in Places' : At(p) = shard
    <3>1. CASE i = 1
      BY <1>2, <2>2, <3>1
    <3>2. CASE i # 1
      <4>1. i - 1 \in 1..(n-1) /\ pending'[i-1] = pending[i]
        BY <1>1, <3>2
      <4> QED  BY <2>2, <4>1
    <3> QED  BY <3>1, <3>2
  <2> QED  BY <1>6, <2>1, <2>2
<1>11. \A i, j \in DOMAIN pending' : pending'[i] = pending'[j] => i = j
  BY <1>1, <1>7
<1>12. \A p \in Places', i \in DOMAIN pending' : At(p) # pending'[i]
  BY <1>1, <1>8
<1>13. \A p, q \in Places' : At(p) = At(q) => p = q
  BY <1>9
<1>14. \A shard \in DOMAIN load' : \/ \E i \in DOMAIN pending' : pending'[i] = shard
                                  \/ \E p \in Places' : At(p) = shard
  BY <1>1, <1>10
<1> QED  BY <1>11, <1>12, <1>13, <1>14 DEF Placement, ShardAt, At

(* The place is the first of a new replica, or the next of one there is.   *)
LEMMA PlacementPreserved == TypeOK /\ Placement /\ [Next]_vars => Placement'
<1> SUFFICES ASSUME TypeOK, Placement, [Next]_vars PROVE Placement'
  OBVIOUS
<1> DEFINE n == Len(replicas)
           shard == Head(pending)
<1>1. /\ replicas \in Seq(Replica) /\ n \in Nat /\ DOMAIN replicas = 1..n
      /\ \A i \in 1..n : replicas[i].shards \in Seq(DOMAIN load)
  BY StateTypes DEF Replica
<1>2. \A i \in 1..n : /\ Len(replicas[i].shards) \in Nat
                      /\ DOMAIN replicas[i].shards = 1..Len(replicas[i].shards)
  BY <1>1
<1>3. CASE Next
  <2>1. /\ pending # <<>> /\ pending' = Tail(pending) /\ UNCHANGED load /\ shard \in DOMAIN load
        /\ \/ replicas' = Append(replicas, NewReplica(shard))
           \/ \E k \in DOMAIN replicas, e \in -1..1 : Takes(k, shard, e)
    BY <1>3, StepShape
  <2> HIDE DEF shard, n
  <2>2. CASE replicas' = Append(replicas, NewReplica(shard))
    <3> DEFINE new == <<n + 1, 1>>
    <3>1. /\ DOMAIN replicas' = 1..(n+1) /\ replicas'[n+1].shards = <<shard>>
          /\ \A i \in 1..n : replicas'[i] = replicas[i]
      BY <1>1, <2>2, AppendProperties DEF NewReplica, n
    <3>2. Places' = Places \cup {new}
      BY <1>1, <3>1 DEF Places
    <3>3. new \notin Places
      BY <1>1 DEF Places
    <3>4. replicas'[new[1]].shards[new[2]] = shard
      BY <3>1
    <3>5. \A p \in Places : replicas'[p[1]].shards[p[2]] = replicas[p[1]].shards[p[2]]
      BY <1>1, <3>1 DEF Places
    <3> HIDE DEF new
    <3> QED  BY <2>1, <3>2, <3>3, <3>4, <3>5, PlacedOnce DEF shard
  <2>3. ASSUME NEW k \in DOMAIN replicas, NEW e \in -1..1, Takes(k, shard, e)
        PROVE  Placement'
    <3>1. k \in 1..n
      BY <1>1
    <3> DEFINE m == Len(replicas[k].shards)
               new == <<k, m + 1>>
    <3>2. /\ DOMAIN replicas' = 1..n /\ replicas'[k].shards = Append(replicas[k].shards, shard)
          /\ \A i \in 1..n : i # k => replicas'[i] = replicas[i]
      BY <1>1, <2>3, <3>1 DEF Joined, Takes
    <3>3. /\ m \in Nat /\ DOMAIN replicas[k].shards = 1..m /\ DOMAIN replicas'[k].shards = 1..(m+1)
          /\ replicas'[k].shards[m+1] = shard
          /\ \A j \in 1..m : replicas'[k].shards[j] = replicas[k].shards[j]
      BY <1>1, <1>2, <2>1, <3>1, <3>2, AppendProperties
    <3> HIDE DEF m
    <3>4. Places' = Places \cup {new}
      <4> DEFINE Of(i) == {i} \X DOMAIN replicas[i].shards
                 OfNext(i) == {i} \X DOMAIN replicas'[i].shards
      <4>1. Places = UNION {Of(i) : i \in 1..n} /\ Places' = UNION {OfNext(i) : i \in 1..n}
        BY <1>1, <3>2 DEF Places
      <4>2. OfNext(k) = Of(k) \cup {new}
        BY <3>3
      <4>3. \A i \in 1..n : i # k => OfNext(i) = Of(i)
        BY <3>2
      <4> HIDE DEF Of, OfNext, new
      <4> QED  BY <3>1, <4>1, <4>2, <4>3
    <3>5. new \notin Places
      BY <3>3 DEF Places
    <3>6. replicas'[new[1]].shards[new[2]] = shard
      BY <3>3
    <3>7. \A p \in Places : replicas'[p[1]].shards[p[2]] = replicas[p[1]].shards[p[2]]
      <4> SUFFICES ASSUME NEW i \in 1..n, NEW j \in DOMAIN replicas[i].shards
                   PROVE  replicas'[i].shards[j] = replicas[i].shards[j]
        BY <1>1 DEF Places
      <4> QED  BY <3>2, <3>3
    <3> HIDE DEF new
    <3> QED  BY <2>1, <3>4, <3>5, <3>6, <3>7, PlacedOnce DEF shard
  <2> QED  BY <2>1, <2>2, <2>3
<1>4. CASE UNCHANGED vars
  BY <1>4 DEF vars, Placement, Places, ShardAt
<1> QED  BY <1>3, <1>4

(* For any list of shards, though it is rearranged in place while it is    *)
(* sorted: when all are placed, each is on one replica, once.              *)
THEOREM NoneLostNoneTwice == Spec => []EachShardOnce
<1>1. Init => TypeOK /\ Placement
  BY InitType, InitPlacement
<1>2. TypeOK /\ Placement /\ [Next]_vars => (TypeOK /\ Placement)'
  BY TypePreserved, PlacementPreserved
<1>3. Placement => EachShardOnce
  BY DEF Placement, EachShardOnce, Done
<1> QED  BY <1>1, <1>2, <1>3, PTL DEF Spec

------------------------------------------------------------------------------
(* What is placed and what is left to place add up to the load of all, but *)
(* for a unit at most for each shard that joined others.                   *)
Totals == [i \in DOMAIN replicas |-> replicas[i].total]
Placed == SumFunctionOnSet(Totals, DOMAIN replicas)
Left   == {pending[i] : i \in DOMAIN pending}

Rounded == Cardinality(DOMAIN load) - Cardinality(Left) - Len(replicas)

Ledger == Placed + SumFunctionOnSet(load, Left) <= SumFunction(load) + Rounded

(* There is a shard that fills the bucket, if any has a load at all. *)
BucketMet == bucket = 0 \/ \E shard \in DOMAIN load : load[shard] = bucket

(* At the start everything is left. *)
LEMMA InitLedger == Init => Ledger /\ BucketMet
<1> SUFFICES ASSUME Init PROVE Ledger /\ BucketMet
  OBVIOUS
<1>1. TypeOK /\ Placement
  BY InitType, InitPlacement
<1>2. PICK listed \in SUBSET Shards : load \in [listed -> Loads]
  BY DEF Init
<1>3. DOMAIN load = listed /\ IsFiniteSet(listed) /\ \A shard \in listed : load[shard] \in Nat
  BY <1>2, LoadsAreNumbers
<1>4. Left = listed
  <2>1. pending \in Seq(listed)
    BY <1>1, <1>3 DEF TypeOK
  <2>2. Left \subseteq listed
    BY <2>1 DEF Left
  <2>3. Places = {}
    BY DEF Init, Places
  <2>4. \A shard \in listed : \E i \in DOMAIN pending : pending[i] = shard
    BY <1>1, <1>3, <2>3 DEF Placement
  <2> QED  BY <2>2, <2>4 DEF Left
<1>5. Placed = 0
  <2>1. DOMAIN replicas = {}
    BY DEF Init
  <2> QED  BY <2>1, FS_EmptySet, SumRemove DEF Placed
<1>6. SumFunctionOnSet(load, listed) \in Nat
  BY <1>3, SumRemove
<1>7. Ledger
  <2>1. Rounded = 0
    <3>1. Cardinality(listed) \in Nat /\ Len(replicas) = 0
      BY <1>3, FS_CardinalityType DEF Init
    <3> QED  BY <1>3, <1>4, <3>1 DEF Rounded
  <2> QED  BY <1>3, <1>4, <1>5, <1>6, <2>1 DEF Ledger, SumFunction
<1>8. BucketMet
  <2>1. PICK order \in Descending : bucket = Biggest(order)
    BY DEF Init
  <2>2. order \in Seq(listed)
    BY <1>2, <2>1, FirstIsBiggest
  <2>3. CASE order = <<>>
    BY <2>1, <2>3 DEF BucketMet, Biggest
  <2>4. CASE order # <<>>
    <3>1. order[1] \in listed /\ bucket = load[order[1]]
      BY <2>1, <2>2, <2>4 DEF Biggest
    <3> QED  BY <1>3, <3>1 DEF BucketMet
  <2> QED  BY <2>3, <2>4
<1> QED  BY <1>7, <1>8

(* The total of a replica grows by the load that leaves the list, or by a  *)
(* unit more if the shard is not the first of the replica.                 *)
LEMMA LedgerKept ==
  ASSUME TypeOK, Placement, Ledger, pending # <<>>, pending' = Tail(pending), UNCHANGED load,
         NEW more \in Nat, Placed \in Nat, Placed' = Placed + load[Head(pending)] + more,
         Len(replicas) \in Nat, Len(replicas') \in Nat, Len(replicas') + more <= Len(replicas) + 1
  PROVE  Ledger'
<1> DEFINE n == Len(pending)
           shard == Head(pending)
<1>1. /\ n \in Nat /\ n >= 1 /\ DOMAIN pending = 1..n /\ DOMAIN pending' = 1..(n-1)
      /\ shard = pending[1] /\ \A i \in 1..(n-1) : pending'[i] = pending[i+1]
      /\ \A i \in 1..n : pending[i] \in DOMAIN load
  <2>1. pending \in Seq(DOMAIN load)
    BY DEF TypeOK
  <2> QED  BY <2>1
<1> HIDE DEF n, shard
<1>2. Left' = Left \ {shard} /\ shard \in Left /\ Left \subseteq DOMAIN load
  <2>1. ASSUME NEW i \in 1..(n-1) PROVE pending'[i] \in Left \ {shard}
    <3>1. i + 1 \in 1..n /\ 1 \in 1..n /\ i + 1 # 1
      BY <1>1
    <3>2. pending[i+1] # pending[1]
      BY <1>1, <3>1 DEF Placement
    <3> QED  BY <1>1, <3>1, <3>2 DEF Left
  <2>2. ASSUME NEW i \in 1..n, pending[i] # shard PROVE pending[i] \in Left'
    <3>1. i - 1 \in 1..(n-1) /\ (i - 1) + 1 = i
      BY <1>1, <2>2
    <3>2. pending'[i-1] = pending[i]
      BY <1>1, <3>1
    <3> QED  BY <1>1, <3>1, <3>2 DEF Left
  <2>3. 1 \in 1..n
    BY <1>1
  <2>4. Left = {pending[i] : i \in 1..n} /\ Left' = {pending'[i] : i \in 1..(n-1)}
    BY <1>1 DEF Left
  <2>5. Left' \subseteq Left \ {shard}
    BY <2>1, <2>4
  <2>6. Left \ {shard} \subseteq Left'
    BY <2>2, <2>4
  <2>7. shard \in Left /\ Left \subseteq DOMAIN load
    BY <1>1, <2>3, <2>4
  <2> QED  BY <2>5, <2>6, <2>7
<1>3. /\ \A s \in Left : load[s] \in Nat
      /\ IsFiniteSet(Left)
  <2>1. PICK listed \in SUBSET Shards : load \in [listed -> Loads]
    BY DEF TypeOK
  <2>2. DOMAIN load = listed /\ IsFiniteSet(listed) /\ \A s \in listed : load[s] \in Nat
    BY <2>1, LoadsAreNumbers
  <2> QED  BY <1>2, <2>2, FS_Subset
<1>4. /\ SumFunctionOnSet(load, Left \ {shard}) \in Nat
      /\ SumFunctionOnSet(load, Left) = load[shard] + SumFunctionOnSet(load, Left \ {shard})
      /\ load[shard] \in Nat
  BY <1>2, <1>3, SumRemove
<1>5. PICK listed \in SUBSET Shards : load \in [listed -> Loads]
  BY DEF TypeOK
<1>6. DOMAIN load = listed /\ IsFiniteSet(listed) /\ \A s \in listed : load[s] \in Nat
  BY <1>5, LoadsAreNumbers
<1> DEFINE before == Placed + SumFunctionOnSet(load, Left)
           after  == Placed' + SumFunctionOnSet(load, Left')
           all    == SumFunction(load)
<1>7. before \in Nat /\ after = before + more
  <2>1. load[shard] + SumFunctionOnSet(load, Left \ {shard}) = SumFunctionOnSet(load, Left)
    BY <1>4
  <2>2. SumFunctionOnSet(load, Left') = SumFunctionOnSet(load, Left \ {shard})
    BY <1>2
  <2>3. Placed' = Placed + load[shard] + more
    BY DEF shard
  <2> DEFINE first == load[shard]
             others == SumFunctionOnSet(load, Left \ {shard})
  <2>4. first \in Nat /\ others \in Nat /\ Placed \in Nat
    BY <1>4
  <2>5. before = Placed + (first + others) /\ after = (Placed + first + more) + others
    BY <2>1, <2>2, <2>3
  <2> HIDE DEF first, others, before, after
  <2> QED  BY <2>4, <2>5
<1>8. all \in Nat
  BY <1>6, SumRemove DEF SumFunction
<1>9. Rounded \in Int /\ Rounded' \in Int /\ Rounded + more <= Rounded'
  <2> DEFINE left == Cardinality(Left)
             listedShards == Cardinality(DOMAIN load)
             m == Len(replicas)
             next == Len(replicas')
  <2>1. left \in Nat /\ Cardinality(Left') = left - 1 /\ listedShards \in Nat
    BY <1>2, <1>3, <1>6, FS_CardinalityType, FS_RemoveElement
  <2>2. Rounded = listedShards - left - m /\ Rounded' = listedShards - (left - 1) - next
    BY <2>1 DEF Rounded
  <2>3. m \in Nat /\ next \in Nat /\ next + more <= m + 1
    OBVIOUS
  <2> HIDE DEF left, listedShards, m, next
  <2> QED  BY <2>1, <2>2, <2>3
<1>10. before <= all + Rounded
  BY DEF Ledger
<1>11. after <= all + Rounded'
  <2> DEFINE slack == Rounded
             slackAfter == Rounded'
  <2>1. slack \in Int /\ slackAfter \in Int /\ slack + more <= slackAfter
    BY <1>9
  <2>2. before <= all + slack
    BY <1>10
  <2> HIDE DEF before, after, all, slack, slackAfter
  <2>3. after <= all + slackAfter
    BY <1>7, <1>8, <2>1, <2>2
  <2> QED  BY <2>3 DEF slackAfter
<1> QED  BY <1>11 DEF Ledger

LEMMA TotalsAreNumbers ==
  ASSUME TypeOK
  PROVE  /\ IsFiniteSet(DOMAIN replicas)
         /\ \A i \in DOMAIN replicas : Totals[i] = replicas[i].total /\ Totals[i] \in Nat
<1>1. IsFiniteSet(1..Len(replicas))
  BY StateTypes, FS_Interval
<1>2. DOMAIN replicas = 1..Len(replicas)
  BY StateTypes
<1>3. \A i \in DOMAIN replicas : replicas[i].total \in Nat
  BY StateTypes DEF Replica
<1> QED  BY <1>1, <1>2, <1>3 DEF Totals

(* Where one total is new, or has grown, and the others stay. *)
LEMMA PlacedGrows ==
  ASSUME TypeOK, TypeOK', NEW k \in DOMAIN replicas', NEW weight \in Nat,
         DOMAIN replicas = DOMAIN replicas' \ {k} \/ DOMAIN replicas = DOMAIN replicas',
         \A i \in DOMAIN replicas : i # k => replicas'[i].total = replicas[i].total,
         replicas'[k].total = weight + (IF k \in DOMAIN replicas THEN replicas[k].total ELSE 0)
  PROVE  Placed \in Nat /\ Placed' = Placed + weight
<1> DEFINE D == DOMAIN replicas'
           others == D \ {k}
           before == SumFunctionOnSet(Totals, others)
<1>1. /\ IsFiniteSet(DOMAIN replicas)
      /\ \A i \in DOMAIN replicas : Totals[i] = replicas[i].total /\ Totals[i] \in Nat
  BY TotalsAreNumbers
<1>2. /\ IsFiniteSet(D)
      /\ \A i \in D : Totals'[i] = replicas'[i].total /\ Totals'[i] \in Nat
  <2>1. (/\ IsFiniteSet(DOMAIN replicas)
         /\ \A i \in DOMAIN replicas : Totals[i] = replicas[i].total /\ Totals[i] \in Nat)'
    BY TotalsAreNumbers, PTL
  <2> QED  BY <2>1
<1>3. /\ SumFunctionOnSet(Totals', others) \in Nat
      /\ Placed' = Totals'[k] + SumFunctionOnSet(Totals', others)
  BY <1>2, SumRemove DEF Placed
<1>4. SumFunctionOnSet(Totals', others) = before
  <2>1. IsFiniteSet(others) /\ others \subseteq DOMAIN replicas
    BY <1>2, FS_RemoveElement
  <2>2. \A i \in others : Totals[i] \in Nat /\ Totals'[i] = Totals[i]
    BY <1>1, <1>2, <2>1
  <2> QED  BY <2>1, <2>2, SumSame
<1>5. CASE k \in DOMAIN replicas
  <2>1. DOMAIN replicas = D
    BY <1>5
  <2>2. Placed = Totals[k] + before /\ Placed \in Nat
    <3>1. \A i \in DOMAIN replicas : Totals[i] \in Nat
      BY <1>1
    <3>2. /\ SumFunctionOnSet(Totals, DOMAIN replicas) \in Nat
          /\ SumFunctionOnSet(Totals, DOMAIN replicas)
               = Totals[k] + SumFunctionOnSet(Totals, DOMAIN replicas \ {k})
      BY <1>1, <1>5, <3>1, SumRemove
    <3> QED  BY <2>1, <3>2 DEF Placed
  <2>3. Totals'[k] = weight + Totals[k] /\ Totals[k] \in Nat
    BY <1>1, <1>2, <1>5
  <2> HIDE DEF before, others
  <2> QED  BY <1>3, <1>4, <2>2, <2>3
<1>6. CASE k \notin DOMAIN replicas
  <2>1. Placed = before /\ Placed \in Nat
    <3>1. DOMAIN replicas = others
      BY <1>6
    <3> QED  BY <1>1, <3>1, SumRemove DEF Placed
  <2>2. Totals'[k] = weight
    BY <1>2, <1>6
  <2> HIDE DEF before, others
  <2> QED  BY <1>3, <1>4, <2>1, <2>2
<1> QED  BY <1>5, <1>6

LEMMA LedgerPreserved ==
  TypeOK /\ Placement /\ Ledger /\ BucketMet /\ [Next]_vars => Ledger' /\ BucketMet'
<1> SUFFICES ASSUME TypeOK, Placement, Ledger, BucketMet, [Next]_vars PROVE Ledger' /\ BucketMet'
  OBVIOUS
<1>0. TypeOK'
  BY TypePreserved
<1>1. CASE UNCHANGED vars
  BY <1>1 DEF vars, Ledger, BucketMet, Placed, Totals, Left, Rounded
<1>2. CASE Next
  <2> DEFINE n == Len(replicas)
             shard == Head(pending)
  <2>1. /\ pending # <<>> /\ pending' = Tail(pending)
        /\ UNCHANGED <<load, limit, bucket>> /\ shard \in DOMAIN load
        /\ \/ replicas' = Append(replicas, NewReplica(shard))
           \/ \E k \in DOMAIN replicas, e \in -1..1 : Takes(k, shard, e)
    BY <1>2, StepShape
  <2> HIDE DEF shard
  <2>2. /\ replicas \in Seq(Replica) /\ n \in Nat /\ DOMAIN replicas = 1..n
        /\ load[shard] \in Nat
    BY <2>1, StateTypes
  <2>3. CASE replicas' = Append(replicas, NewReplica(shard))
    <3>1. /\ DOMAIN replicas' = 1..(n+1) /\ replicas'[n+1].total = load[shard]
          /\ Len(replicas') = n + 1 /\ \A i \in 1..n : replicas'[i] = replicas[i]
      BY <2>1, <2>2, <2>3, NewReplicaType, AppendProperties
    <3>2. n + 1 \in DOMAIN replicas' /\ n + 1 \notin DOMAIN replicas
          /\ DOMAIN replicas = DOMAIN replicas' \ {n + 1}
      BY <2>2, <3>1
    <3>3. replicas'[n+1].total = load[shard] + 0
      BY <2>2, <3>1
    <3>4. Placed \in Nat /\ Placed' = Placed + load[shard]
      <4> HIDE DEF n
      <4> QED  BY <1>0, <2>2, <3>1, <3>2, <3>3, PlacedGrows
    <3>5. Placed' = Placed + load[shard] + 0 /\ Len(replicas') + 0 <= Len(replicas) + 1
      BY <2>2, <3>1, <3>4
    <3>6. Len(replicas) \in Nat /\ Len(replicas') \in Nat
      BY <2>2, <3>1
    <3>7. Ledger'
      BY <2>1, <3>4, <3>5, <3>6, LedgerKept DEF shard
    <3> QED  BY <2>1, <3>7 DEF BucketMet
  <2>4. ASSUME NEW k \in DOMAIN replicas, NEW e \in -1..1, Takes(k, shard, e)
        PROVE  Ledger' /\ BucketMet'
    <3> DEFINE joined == Joined(replicas[k], shard, e)
    <3>1. replicas[k] \in Replica /\ replicas[k].total \in Nat
      <4>1. replicas[k] \in Replica
        BY <2>2, StateTypes
      <4> QED  BY <4>1 DEF Replica
    <3>2. PICK more \in 0..1 : joined.total = load[shard] + more + replicas[k].total
      <4>1. joined.total = replicas[k].total + load[shard]
            \/ joined.total = replicas[k].total + load[shard] + 1
        BY <2>1, <3>1, JoinedType
      <4> HIDE DEF joined
      <4>2. joined.total = load[shard] + 0 + replicas[k].total
            \/ joined.total = load[shard] + 1 + replicas[k].total
        BY <2>2, <3>1, <4>1
      <4> QED  BY <4>2
    <3>3. replicas' = [replicas EXCEPT ![k] = joined]
      BY <2>4 DEF Takes
    <3> HIDE DEF joined
    <3>4. /\ DOMAIN replicas' = DOMAIN replicas /\ Len(replicas') = n
          /\ replicas'[k].total = (load[shard] + more) + replicas[k].total
          /\ \A i \in DOMAIN replicas : i # k => replicas'[i] = replicas[i]
      BY <2>2, <3>2, <3>3
    <3>5. load[shard] + more \in Nat
      BY <2>2
    <3>6. Placed \in Nat /\ Placed' = Placed + (load[shard] + more)
      <4> HIDE DEF n
      <4> QED  BY <1>0, <2>2, <3>4, <3>5, PlacedGrows
    <3>7. Placed' = Placed + load[shard] + more /\ Len(replicas') + more <= Len(replicas) + 1
      BY <2>2, <3>4, <3>6
    <3>8. Len(replicas) \in Nat /\ Len(replicas') \in Nat /\ more \in Nat
      BY <2>2, <3>4
    <3>9. Ledger'
      BY <2>1, <3>6, <3>7, <3>8, LedgerKept DEF shard
    <3> QED  BY <2>1, <3>9 DEF BucketMet
  <2> QED  BY <2>1, <2>3, <2>4
<1> QED  BY <1>1, <1>2

(* Any two replicas hold a bucket's load between them: the first shard of  *)
(* the later one did not fit the earlier one.                              *)
LEMMA TwoFillABucket ==
  ASSUME IInv, limit <= 0, NEW i \in DOMAIN replicas, NEW j \in DOMAIN replicas, i < j
  PROVE  replicas[i].total + replicas[j].total >= bucket
<1> DEFINE shards == replicas[j].shards
           first == shards[1]
<1>1. /\ shards \in Seq(DOMAIN load) /\ Len(shards) >= 1
      /\ replicas[i].total \in Nat /\ replicas[j].total \in Nat
      /\ limit \in Int /\ bucket \in Nat
  BY StateTypes, WithinEach DEF IInv, Within, Replica
<1>2. replicas[i].total + load[first] >= bucket
  BY <1>1 DEF IInv, NoNeedlessReplica, Full
<1>3. load[first] <= replicas[j].total /\ load[first] \in Nat
  <2> HIDE DEF shards, first
  <2>1. /\ DOMAIN shards = 1..Len(shards) /\ IsFiniteSet(DOMAIN shards)
        /\ \A k \in DOMAIN shards : /\ load[shards[k]] \in Nat
                                  /\ Terms(shards)[k] = load[shards[k]]
    BY <1>1, TermsAreNumbers DEF IInv
  <2>2. 1 \in DOMAIN shards
    BY <1>1, <2>1
  <2>3. \A k \in DOMAIN shards : Terms(shards)[k] \in Nat
    BY <2>1
  <2>4. Terms(shards)[1] <= SumFunctionOnSet(Terms(shards), DOMAIN shards)
    BY <2>1, <2>2, <2>3, SumAtLeast
  <2>5. SumFunctionOnSet(Terms(shards), DOMAIN shards) <= replicas[j].total
    BY TrueLoadIsSum DEF IInv, TotalsCover, Covers, shards
  <2>6. TrueLoad(shards) \in Nat
    BY <1>1, LoadType DEF IInv
  <2> QED  BY <1>1, <2>1, <2>2, <2>4, <2>5, <2>6, TrueLoadIsSum DEF first
<1> HIDE DEF first, shards
<1> QED  BY <1>1, <1>2, <1>3

(* Without a limit, the partitioner creates at most twice the replicas     *)
(* that the load fills, whatever the loads and the order they come in.     *)
THEOREM HalfFull == Spec => []AtLeastHalfFull
<1>1. Init => Ledger /\ BucketMet
  BY InitLedger
<1>2. Init => TypeOK /\ Placement
  BY InitType, InitPlacement
<1>3. /\ TypeOK /\ Placement /\ Ledger /\ BucketMet /\ [Next]_vars
      => (TypeOK /\ Placement /\ Ledger /\ BucketMet)'
  BY TypePreserved, PlacementPreserved, LedgerPreserved
<1>4. IInv /\ Ledger /\ BucketMet => AtLeastHalfFull
  <2> SUFFICES ASSUME IInv, Ledger, BucketMet, Done, limit <= 0
               PROVE  Len(replicas) * bucket <= 2 * (SumFunction(load) + (Cardinality(DOMAIN load) - Len(replicas)))
    BY DEF AtLeastHalfFull
  <2> DEFINE n == Len(replicas)
             all == SumFunction(load)
             card == Cardinality(DOMAIN load)
  <2>1. /\ n \in Nat /\ bucket \in Nat /\ DOMAIN replicas = 1..n /\ IsFiniteSet(1..n)
        /\ \A i \in 1..n : Totals[i] = replicas[i].total /\ Totals[i] \in Nat
    BY StateTypes, TotalsAreNumbers DEF IInv
  <2>2. IsFiniteSet(DOMAIN load) /\ \A shard \in DOMAIN load : load[shard] \in Nat
    <3>1. PICK listed \in SUBSET Shards : load \in [listed -> Loads]
      BY DEF IInv, TypeOK
    <3> QED  BY <3>1, LoadsAreNumbers
  <2>3. all \in Nat /\ bucket <= all
    <3>1. all \in Nat
      BY <2>2, SumRemove DEF SumFunction
    <3>2. ASSUME NEW shard \in DOMAIN load, load[shard] = bucket PROVE bucket <= all
      BY <2>2, <3>2, SumAtLeast DEF SumFunction
    <3> HIDE DEF all
    <3> QED  BY <2>1, <3>1, <3>2 DEF BucketMet
  <2>4. /\ SumFunctionOnSet(Totals, 1..n) \in Nat /\ card \in Nat
        /\ SumFunctionOnSet(Totals, 1..n) <= all + (card - n)
    <3>1. Left = {}
      BY DEF Left, Done
    <3>2. SumFunctionOnSet(load, Left) = 0 /\ Cardinality(Left) = 0
      BY <3>1, FS_EmptySet, SumRemove
    <3>3. Placed \in Nat /\ Placed = SumFunctionOnSet(Totals, 1..n)
      BY <2>1, SumRemove DEF Placed
    <3>4. card \in Nat
      BY <2>2, FS_CardinalityType
    <3>5. Placed + 0 <= all + (card - 0 - n)
      BY <3>2 DEF Ledger, Rounded
    <3> HIDE DEF n, all, card
    <3> QED  BY <2>1, <2>3, <3>3, <3>4, <3>5
  <2>5. Cardinality(1..n) = n
    <3> HIDE DEF n
    <3>1. Cardinality(1..n) = IF 1 > n THEN 0 ELSE n - 1 + 1
      BY <2>1, FS_Interval
    <3> QED  BY <2>1, <3>1
  <2>6. CASE n >= 2
    <3>1. ASSUME NEW i \in 1..n, NEW j \in 1..n, i # j PROVE Totals[i] + Totals[j] >= bucket
      <4>1. i < j \/ j < i
        BY <3>1
      <4>2. i < j => replicas[i].total + replicas[j].total >= bucket
        BY <2>1, TwoFillABucket
      <4>3. j < i => replicas[j].total + replicas[i].total >= bucket
        BY <2>1, TwoFillABucket
      <4>4. Totals[i] = replicas[i].total /\ Totals[j] = replicas[j].total
            /\ Totals[i] \in Nat /\ Totals[j] \in Nat
        BY <2>1
      <4> QED  BY <2>1, <4>1, <4>2, <4>3, <4>4
    <3>2. n * bucket <= 2 * SumFunctionOnSet(Totals, 1..n)
      <4> HIDE DEF n
      <4> QED  BY <2>1, <2>5, <2>6, <3>1, PairsAddUp
    <3>3. n * bucket \in Nat
      BY <2>1
    <3> DEFINE product == n * bucket
               sum == SumFunctionOnSet(Totals, 1..n)
    <3>4. product <= 2 * sum /\ product \in Nat /\ sum \in Nat /\ sum <= all + (card - n)
      BY <2>4, <3>2, <3>3
    <3> HIDE DEF n, all, card, product, sum
    <3>5. product <= 2 * (all + (card - n))
      BY <2>1, <2>3, <2>4, <3>4
    <3> QED  BY <3>5 DEF product, n, all, card
  <2>7. CASE n = 1
    <3>1. card >= 1
      <4>1. replicas[1].shards \in Seq(DOMAIN load) /\ Len(replicas[1].shards) >= 1
        BY <2>1, <2>7, StateTypes, WithinEach DEF IInv, Within, Replica
      <4>2. DOMAIN load # {}
        BY <4>1
      <4> QED  BY <2>2, <2>4, <4>2, FS_EmptySet
    <3> HIDE DEF all, card
    <3> QED  BY <2>1, <2>3, <2>4, <2>7, <3>1 DEF all, card
  <2>8. CASE n = 0
    <3> HIDE DEF all, card
    <3> QED  BY <2>1, <2>3, <2>4, <2>8 DEF all, card
  <2> QED  BY <2>1, <2>6, <2>7, <2>8
<1> QED  BY <1>1, <1>2, <1>3, <1>4, InvHolds, PTL DEF Spec
=============================================================================
