------------------------ MODULE LongestProcessingTime ------------------------
(***************************************************************************)
(* The Longest Processing Time partitioner: it sorts the shards by load,   *)
(* heaviest first, brings the in-cluster shard to the front if it finds    *)
(* it, and places one after another on the least loaded replica that can   *)
(* take it, or on a new one.                                               *)
(*                                                                         *)
(* Loads are whole numbers, of the smallest unit that a Quantity holds     *)
(* (10^-9), and none is negative: the p-norm asks for a positive offset    *)
(* (DESIGN.md). They are added as floating-point numbers, up to about a    *)
(* million (10^15 units), where a sum is off by less than half a unit; a   *)
(* total is then rounded up to a whole unit.                               *)
(***************************************************************************)
EXTENDS SequencesExt

CONSTANTS Shards,     \* the shards there may be
          InCluster,  \* those of them with the name "in-cluster"
          Loads,      \* the load indexes they may have
          Limits      \* values of maxShardsPerReplica; none, if not positive

ASSUME PartitionerAssumption == /\ IsFiniteSet(Shards) /\ InCluster \subseteq Shards
                                /\ Loads \subseteq Nat
                                /\ Limits \subseteq Int

VARIABLES load,      \* the input: the load of each shard listed
          limit,     \* and the parameter max
          bucket,    \* bucketSize, the biggest load
          pending,   \* the sorted shards still to be placed
          replicas   \* the replicas so far; the ID of the i-th is i - 1

vars == <<load, limit, bucket, pending, replicas>>

TypeOK == /\ \E listed \in SUBSET Shards : load \in [listed -> Loads]
          /\ limit \in Limits
          /\ bucket \in Nat /\ \A shard \in DOMAIN load : load[shard] <= bucket
          /\ pending \in Seq(DOMAIN load)
          /\ replicas \in Seq([shards : Seq(DOMAIN load), total : Nat])

------------------------------------------------------------------------------
(* Sort. *)

(* What sort.Sort may return: it is not stable, and the list comes in any order. *)
Descending == {order \in SetToSeqs(DOMAIN load) :
                 \A i, j \in DOMAIN order : i < j => load[order[i]] >= load[order[j]]}

(* sort.Search among the indexes (from 0) lo..hi-1: a binary search, which *)
(* takes the condition to hold from some index on.                         *)
Search(order) ==
    LET search[lo \in 0..Len(order), hi \in 0..Len(order)] ==
            LET mid == (lo + hi) \div 2
            IN IF lo >= hi THEN lo
               ELSE IF order[mid + 1] \in InCluster THEN search[lo, mid]
               ELSE search[mid + 1, hi]
    IN search[0, Len(order)]

(* The in-cluster shard, if the search hit upon it, is moved to the front. *)
Found(order) == {k \in DOMAIN order : k = Search(order) + 1 /\ order[k] \in InCluster}

(* Mutant: the shard put in front is not taken from its old place. *)
SortedTwice(order) == IF Found(order) = {} THEN order
                      ELSE LET k == CHOOSE k \in Found(order) : TRUE
                           IN <<order[k]>> \o order

Sorted(order) == IF Found(order) = {} THEN order
                 ELSE LET k == CHOOSE k \in Found(order) : TRUE
                      IN <<order[k]>> \o RemoveAt(order, k)

(* Mutant: the load of the first shard is read after the rearrangement. *)
FirstLoad(order) == IF order = <<>> THEN 0 ELSE load[Sorted(order)[1]]

Biggest(order) == IF order = <<>> THEN 0 ELSE load[order[1]]

Init == /\ \E listed \in SUBSET Shards : load \in [listed -> Loads]
        /\ limit \in Limits
        /\ \E order \in Descending : /\ bucket = Biggest(order)
                                     /\ pending = Sorted(order)
        /\ replicas = <<>>

------------------------------------------------------------------------------
(* Partition. *)

(* Mutant: a limit of zero, or a negative one, is taken literally. *)
FullAtZero(replica) == Len(replica.shards) >= limit

Full(replica) == limit > 0 /\ Len(replica.shards) >= limit

(* By how much the floating-point sum may miss: a little less or more than *)
(* the true one, in halves of a unit. If one addend is zero, the sum is    *)
(* the other, which as a load compares with loads as it should, but may    *)
(* already be a little more than it shows.                                 *)
Errors(replica, shard) ==
    {e \in -1..1 : /\ replica.total + load[shard] = 0 => e = 0
                   /\ \/ replica.total = 0
                      \/ load[shard] = 0 /\ Len(replica.shards) = 1
                      => e >= 0}

(* In halves of a unit. *)
FloatSum(replica, shard, e) == 2 * (replica.total + load[shard]) + e

(* Mutant: the fraction of a unit is cut off. *)
CutOff(halves) == halves \div 2

(* FormatFloat and ParseQuantity: a whole unit again, the next above. *)
ParseQuantity(halves) == (halves + 1) \div 2

(* Mutant: only the replica created last is looked at. *)
LastCanTake(shard, error) ==
    {i \in DOMAIN replicas : /\ i = Len(replicas)
                             /\ ~Full(replicas[i])
                             /\ FloatSum(replicas[i], shard, error[i]) < 2 * bucket}

(* The replicas that the shard may join, and the least loaded of them, the *)
(* first if there are several.                                             *)
CanTake(shard, error) ==
    {i \in DOMAIN replicas : /\ ~Full(replicas[i])
                             /\ FloatSum(replicas[i], shard, error[i]) < 2 * bucket}

LeastLoaded(candidates) ==
    {i \in candidates : \A j \in candidates : \/ replicas[i].total < replicas[j].total
                                              \/ replicas[i].total = replicas[j].total /\ i <= j}

NewReplica(shard) == [shards |-> <<shard>>, total |-> load[shard]]

Joined(replica, shard, e) == [shards |-> Append(replica.shards, shard),
                              total  |-> ParseQuantity(FloatSum(replica, shard, e))]

CreateReplica(shard, error) ==
    /\ CanTake(shard, error) = {}
    /\ replicas' = Append(replicas, NewReplica(shard))

AssignToReplica(shard, error) ==
    \E i \in LeastLoaded(CanTake(shard, error)) :
        replicas' = [replicas EXCEPT ![i] = Joined(@, shard, error[i])]

Place == /\ pending # <<>>
         /\ \E error \in [DOMAIN replicas -> -1..1] :
              /\ \A i \in DOMAIN replicas : error[i] \in Errors(replicas[i], Head(pending))
              /\ CreateReplica(Head(pending), error) \/ AssignToReplica(Head(pending), error)
         /\ pending' = Tail(pending)
         /\ UNCHANGED <<load, limit, bucket>>

Next == Place

Spec == Init /\ [][Next]_vars

Done == pending = <<>>

------------------------------------------------------------------------------
(* Where the shards are: pairs of a replica and a position in it. *)
Places == UNION {{i} \X DOMAIN replicas[i].shards : i \in DOMAIN replicas}

ShardAt(place) == replicas[place[1]].shards[place[2]]

(* The partition loses no shard and assigns none twice, though the list is *)
(* rearranged in place while it is sorted (lines 102-116).                 *)
EachShardOnce ==
    Done => /\ \A shard \in DOMAIN load : \E place \in Places : ShardAt(place) = shard
            /\ \A p, q \in Places : ShardAt(p) = ShardAt(q) => p = q

(* The load that the shards of a list really have. *)
TrueLoad(shards) == SumFunction([k \in DOMAIN shards |-> load[shards[k]]])

(* No replica has more shards than allowed. Shards together on a replica   *)
(* have no more than a bucket's load, though the comparison (line 60) is of *)
(* inexact sums and of totals that were rounded before; and none of them   *)
(* fills a bucket: the heaviest shard always has a replica to itself.      *)
WithinLimits ==
    \A i \in DOMAIN replicas :
        LET shards == replicas[i].shards
        IN /\ Len(shards) >= 1
           /\ limit > 0 => Len(shards) <= limit
           /\ Len(shards) > 1 => /\ TrueLoad(shards) <= bucket
                                 /\ \A k \in DOMAIN shards : load[shards[k]] < bucket

(* A replica is created only where it is needed: its first shard did not   *)
(* fit any earlier replica, and would not now either.                      *)
NoNeedlessReplica ==
    \A i, j \in DOMAIN replicas :
        i < j => \/ Full(replicas[i])
                 \/ replicas[i].total + load[replicas[j].shards[1]] >= bucket

(* Without a limit, then, at least half of what the replicas can hold, at  *)
(* a bucket each, is used, if a unit is added for each shard that joined   *)
(* another, to which its total may have been rounded up: no more than      *)
(* twice the replicas needed.                                              *)
AtLeastHalfFull ==
    Done /\ limit <= 0 =>
        Len(replicas) * bucket
          <= 2 * (SumFunction(load) + (Cardinality(DOMAIN load) - Len(replicas)))

(* "should put in-cluster first" (longestprocessingtime_test.go:42): the    *)
(* in-cluster shard is the first one of the first replica.                 *)
InClusterFirst ==
    Done => \A shard \in InCluster \cap DOMAIN load : replicas[1].shards[1] = shard
=============================================================================
