------------------------- MODULE MostWantedEvaluation -------------------------
(***************************************************************************)
(* The Most Wanted Two-Phase Hysteresis Evaluation: it samples what the    *)
(* partitioner wants, counts the samples of each plan, and from time to    *)
(* time elects the plan sampled most.  Of the plans it keeps only hashes,  *)
(* so besides the elected plan it knows in full only the projection, the   *)
(* last plan that led the count when it was sampled.                       *)
(*                                                                         *)
(* Time advances in units of the rate limit (GlobalRateLimit, 5 s): one    *)
(* Reconcile in a unit, save after a restart, which forgets the last one.  *)
(***************************************************************************)
EXTENDS Integers, FiniteSets

CONSTANTS Plans, EmptyPlan, Size, ScaleUp, ScaleDown,
          Paces,     \* how the samples may come: at most "gap" units apart, until the time
                     \* "until", with "faults" restarts, failed calls and lost answers
          MaxTime, MaxFaults  \* bounds of the last two

ASSUME EvaluationAssumption ==
    /\ EmptyPlan \in Plans
    /\ Size \in [Plans -> Nat]
    /\ ScaleUp \in Nat /\ ScaleDown \in Nat
    /\ MaxTime \in Nat /\ MaxFaults \in Nat
    /\ Paces \subseteq [gap : Nat \ {0}, until : 0..MaxTime, faults : 0..MaxFaults]

VARIABLES
    pace, now,
    partition,       \* the partition provider's status
    history,         \* status.history: of each plan, its samples and when it was last seen
    projection,      \* status.projection
    elected,         \* status.replicas
    electedAt,       \* status.lastEvaluationTimestamp
    ready,           \* the Ready condition
    requested,       \* the work queue holds a request
    lastReconciled,  \* lastReconciled in memory
    faults,
    \* what an observer has seen:
    sampledAt,       \* when each plan was last sampled
    steadySince      \* since when the partition provider has reported its plan

status == <<history, projection, elected, electedAt, ready>>
observed == <<sampledAt, steadySince>>
vars == <<pace, now, partition, status, requested, lastReconciled, faults, observed>>

Never   == -1
Times   == 0..MaxTime \cup {Never}
NoRecord == [seenTimes |-> 0, timestamp |-> Never]

TypeOK == /\ pace \in Paces
          /\ now \in 0..MaxTime
          /\ partition \in [plan : Plans, ready : BOOLEAN]
          /\ history \in [Plans -> [seenTimes : Nat, timestamp : Times]]
          /\ \A p \in Plans : history[p].seenTimes = 0 <=> history[p].timestamp = Never
          /\ projection \in Plans
          /\ elected \in Plans
          /\ electedAt \in Times
          /\ ready \in BOOLEAN
          /\ requested \in BOOLEAN
          /\ lastReconciled \in Times
          /\ faults \in 0..MaxFaults
          /\ sampledAt \in [Plans -> Times]
          /\ steadySince \in Times

Init == /\ pace \in Paces
        /\ now = 0
        /\ partition \in [plan : Plans, ready : BOOLEAN]
        /\ history = [p \in Plans |-> NoRecord]
        /\ projection = EmptyPlan
        /\ elected = EmptyPlan
        /\ electedAt = Never
        /\ ready = FALSE
        /\ requested = TRUE
        /\ lastReconciled = Never
        /\ faults = 0
        /\ sampledAt = [p \in Plans |-> Never]
        /\ steadySince = 0

------------------------------------------------------------------------------
(* The history. *)

HistoryRetentionPeriod == IF ScaleUp > ScaleDown THEN ScaleUp ELSE ScaleDown

StabilizationPeriodForProjection(plan) ==
    IF Size[plan] < Size[elected] THEN ScaleDown ELSE ScaleUp

(* Mutant: only the count is kept up. *)
Counted(records, plan) == [records EXCEPT ![plan].seenTimes = @ + 1]

(* The plan is seen once more, or for the first time. *)
Noticed(records, plan) ==
    [records EXCEPT ![plan] = [seenTimes |-> @.seenTimes + 1, timestamp |-> now]]

(* Mutant: records exactly as old as the retention period are kept. *)
TrimmedLater(records) ==
    [p \in Plans |-> IF records[p].timestamp + HistoryRetentionPeriod >= now
                     THEN records[p] ELSE NoRecord]

(* Records last seen a retention period ago or earlier are removed. *)
Trimmed(records) ==
    [p \in Plans |-> IF records[p].timestamp + HistoryRetentionPeriod > now
                     THEN records[p] ELSE NoRecord]

(* The records seen most often; the tie breaker is the last seen one. *)
TopSeen(records) ==
    {p \in Plans : /\ records[p].seenTimes > 0
                   /\ \A q \in Plans :
                        \/ records[q].seenTimes < records[p].seenTimes
                        \/ /\ records[q].seenTimes = records[p].seenTimes
                           /\ records[q].timestamp <= records[p].timestamp}

(* Mutant: the history lives on after the election. *)
WonAndKept(plan) == [history EXCEPT ![plan] = [seenTimes |-> @.seenTimes + 1, timestamp |-> now]]

WonBy(plan) == [p \in Plans |-> IF p = plan THEN [seenTimes |-> 1, timestamp |-> now]
                                            ELSE NoRecord]

------------------------------------------------------------------------------
(* What Reconcile makes of the status, the partition provider being ready. *)

(* The stabilization period has passed: the projection is elected and the  *)
(* history starts anew with its record alone.                              *)
Elect(plan) ==
    /\ electedAt = Never \/ now - electedAt >= StabilizationPeriodForProjection(plan)
    /\ elected' = plan /\ electedAt' = now
    /\ history' = WonBy(plan)

(* Mutant: each sample starts the stabilization period anew. *)
AwaitAgain(plan, records) ==
    /\ electedAt # Never /\ now - electedAt < StabilizationPeriodForProjection(plan)
    /\ history' = records
    /\ electedAt' = now
    /\ UNCHANGED elected

Await(plan, records) ==
    /\ electedAt # Never /\ now - electedAt < StabilizationPeriodForProjection(plan)
    /\ history' = records
    /\ UNCHANGED <<elected, electedAt>>

(* The plan sampled now is, or becomes, or does not become the projection; *)
(* when the leader is neither of the two plans known in full, nothing can  *)
(* be elected (AwaitingNewProjection); nor when every record is trimmed.   *)
Sample ==
    LET plan == partition.plan
        records == Trimmed(Noticed(history, plan))
        known == {plan, projection}
    IN /\ \/ \E top \in TopSeen(records) \cap known :
                /\ projection' = top
                /\ ready' = TRUE
                /\ Elect(top) \/ Await(top, records)
          \/ /\ TopSeen(records) = {} \/ ~(TopSeen(records) \subseteq known)
             /\ ready' = FALSE
             /\ history' = records
             /\ UNCHANGED <<projection, elected, electedAt>>
       /\ sampledAt' = [sampledAt EXCEPT ![plan] = now]
       /\ UNCHANGED steadySince

NotReady == /\ ready' = FALSE
            /\ UNCHANGED <<history, projection, elected, electedAt, observed>>

(* The request is taken and the rate limit has passed. *)
Begin == /\ requested
         /\ lastReconciled < now
         /\ lastReconciled' = now

Fault == faults < pace.faults /\ faults' = faults + 1

Reconcile == /\ Begin
             /\ IF partition.ready THEN Sample ELSE NotReady
             /\ requested' = FALSE
             /\ UNCHANGED <<pace, now, partition, faults>>

(* Status().Update returns an error, of an outdated copy or of a failed    *)
(* call, and nothing of this Reconcile is kept; or its answer is lost, and *)
(* the retry will count the sample again.                                  *)
ReconcileFails == /\ Begin
                  /\ Fault
                  /\ \/ UNCHANGED <<status, observed>>
                     \/ IF partition.ready THEN Sample ELSE NotReady
                  /\ UNCHANGED <<pace, now, partition, requested>>

Restart == /\ Fault
           /\ lastReconciled' = Never
           /\ requested' = TRUE
           /\ UNCHANGED <<pace, now, partition, status, observed>>

------------------------------------------------------------------------------
(* The map function asks for the evaluations that refer to the partition;  *)
(* if it cannot list them, it says so in the log and asks for none.        *)
Notify == \/ requested' = TRUE /\ UNCHANGED faults
          \/ Fault /\ UNCHANGED requested

(* The partitioner reports a plan, the same or another, or that it has none. *)
Report(plan, isReady) ==
    /\ partition' = [plan |-> plan, ready |-> isReady]
    /\ Notify
    /\ steadySince' = IF partition' = partition THEN steadySince ELSE now
    /\ partition' # partition \/ ~requested
    /\ UNCHANGED <<pace, now, status, lastReconciled, sampledAt>>

LastSample == CHOOSE t \in Times : /\ \E p \in Plans : sampledAt[p] = t
                                   /\ \A p \in Plans : sampledAt[p] <= t

Tick == /\ now < pace.until
        /\ now - LastSample < pace.gap
        /\ now' = now + 1
        /\ UNCHANGED <<pace, partition, status, requested, lastReconciled, faults, observed>>

Next == \/ Reconcile \/ ReconcileFails \/ Restart
        \/ \E plan \in Plans, isReady \in BOOLEAN : Report(plan, isReady)
        \/ Tick

Spec == Init /\ [][Next]_vars

------------------------------------------------------------------------------
(* Whatever is restarted, refused or counted twice, the published plan     *)
(* changes only as often as the stabilization periods allow, and only to a *)
(* plan that the partitioner really wanted less than a retention period ago. *)
Stabilized == INSTANCE StabilizedElection WITH wantedAt <- sampledAt

ImplementsElection == Stabilized!Spec

(* "If current top seen record somehow is neither, this is a bug" (lines   *)
(* 294-299): the leader of the count is always a plan known in full, so a  *)
(* ready partitioner leaves the evaluation ready. It is so as long as      *)
(* samples come at every interval of the rate limit; when they do not,     *)
(* trimming may leave a leader of which only the hash is known.            *)
NeverAwaitsProjection == [][sampledAt' # sampledAt /\ pace.gap = 1 => ready']_vars

(* "This will guarantee that we will use an up to date configuration once  *)
(* every predetermined time window" (DESIGN.md): a plan that the           *)
(* partitioner has wanted for two retention periods on end is published,   *)
(* once the evaluator has nothing left to sample, if it samples at every   *)
(* interval of the rate limit.                                             *)
UpToDate == /\ pace.gap = 1
            /\ partition.ready /\ ~requested
            /\ now - steadySince > 2 * HistoryRetentionPeriod
            => elected = partition.plan
=============================================================================
