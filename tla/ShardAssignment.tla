--------------------------- MODULE ShardAssignment ---------------------------
(***************************************************************************)
(* What a shard manager promises to those who read its object: whatever    *)
(* kind implements it, the plan it reports in its status, while it says it *)
(* is Ready, is one that somebody asked for in its specification, it was   *)
(* the one asked for at the moment of the report, and it is well formed.   *)
(* The Replica Set Scaler decides from these three fields alone whether it *)
(* may scale the application controller (common.ShardManagerStatus).       *)
(***************************************************************************)

CONSTANTS Plans,       \* the assignments of shards to replicas somebody may ask for
          WellFormed,  \* those of them that name no shard twice
          NoPlan       \* one of these: the empty list, before anything is asked or reported

VARIABLES requestedPlan,  \* spec.replicas
          reportedPlan,   \* status.replicas
          ready           \* the Ready condition of the status is True

vars == <<requestedPlan, reportedPlan, ready>>

TypeOK == /\ requestedPlan \in Plans
          /\ reportedPlan \in WellFormed
          /\ ready \in BOOLEAN

Init == /\ requestedPlan \in Plans
        /\ reportedPlan = NoPlan
        /\ ready = FALSE

(* Somebody, the scaler in this system, asks for another assignment. *)
Request(plan) == /\ requestedPlan' = plan
                 /\ UNCHANGED <<reportedPlan, ready>>

(* The manager has carried out the plan and says so. *)
Fulfil == /\ requestedPlan \in WellFormed
          /\ reportedPlan' = requestedPlan
          /\ ready' = TRUE
          /\ UNCHANGED requestedPlan

(* The manager could not: the last plan it carried out stays in its status. *)
Refuse == /\ ready' = FALSE
          /\ UNCHANGED <<requestedPlan, reportedPlan>>

Next == \/ \E plan \in Plans : Request(plan)
        \/ Fulfil
        \/ Refuse

Spec == Init /\ [][Next]_vars
=============================================================================
