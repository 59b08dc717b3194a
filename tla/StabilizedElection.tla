-------------------------- MODULE StabilizedElection --------------------------
(***************************************************************************)
(* What an evaluator promises to the scaler: the partition it publishes    *)
(* changes only after the stabilization period of the change has passed    *)
(* since the previous election, a longer one if replicas are to be removed,*)
(* and only to a partition that was wanted not longer ago than the         *)
(* retention period.                                                       *)
(***************************************************************************)
EXTENDS Integers

CONSTANTS Plans, EmptyPlan,
          Size,       \* the number of replicas of a plan
          ScaleUp,    \* stabilization period of a change that removes no replica
          ScaleDown   \* stabilization period of one that removes some

VARIABLES now,
          wantedAt,   \* when the partitioner's output was last seen to be each plan
          elected,    \* the plan published
          electedAt   \* when it was elected

vars == <<now, wantedAt, elected, electedAt>>

Never == -1
Times == Nat \cup {Never}

Retention == IF ScaleUp > ScaleDown THEN ScaleUp ELSE ScaleDown

Period(from, to) == IF Size[to] < Size[from] THEN ScaleDown ELSE ScaleUp

TypeOK == /\ now \in Nat
          /\ wantedAt \in [Plans -> Times]
          /\ elected \in Plans
          /\ electedAt \in Times

Init == /\ now = 0
        /\ wantedAt = [p \in Plans |-> Never]
        /\ elected = EmptyPlan
        /\ electedAt = Never

Tick == now' = now + 1 /\ UNCHANGED <<wantedAt, elected, electedAt>>

(* The partitioner's output is sampled. *)
Sample(plan) == wantedAt' = [wantedAt EXCEPT ![plan] = now] /\ UNCHANGED now

Elect(plan) == /\ wantedAt'[plan] # Never /\ now < wantedAt'[plan] + Retention
               /\ electedAt = Never \/ now - electedAt >= Period(elected, plan)
               /\ elected' = plan
               /\ electedAt' = now

Next == \/ Tick
        \/ \E plan \in Plans :
              Sample(plan) /\ \/ UNCHANGED <<elected, electedAt>>
                              \/ \E winner \in Plans : Elect(winner)

Spec == Init /\ [][Next]_vars
=============================================================================
