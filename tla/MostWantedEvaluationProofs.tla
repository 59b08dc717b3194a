---------------------- MODULE MostWantedEvaluationProofs ----------------------
(***************************************************************************)
(* Proofs about the Most Wanted Two-Phase Hysteresis Evaluation: for any   *)
(* plans, periods and faults, it implements StabilizedElection.            *)
(***************************************************************************)
EXTENDS MostWantedEvaluation, TLAPS

(* The periods are numbers. *)
LEMMA Periods ==
    /\ HistoryRetentionPeriod \in Nat
    /\ \A plan \in Plans : StabilizationPeriodForProjection(plan) \in Nat
BY EvaluationAssumption DEF HistoryRetentionPeriod, StabilizationPeriodForProjection

Records == [Plans -> [seenTimes : Nat, timestamp : Times]]

(* A record counts samples if and only if it has a time. *)
Consistent(records) == /\ records \in Records
                       /\ \A p \in Plans : records[p].seenTimes = 0
                                             <=> records[p].timestamp = Never

(* Counting a sample, trimming and the record of an election are consistent. *)
LEMMA RecordsConsistent ==
    ASSUME NEW plan \in Plans, Consistent(history), now \in 0..MaxTime
    PROVE  /\ Consistent(Trimmed(Noticed(history, plan)))
           /\ \A winner \in Plans : Consistent(WonBy(winner))
<1>0. MaxTime \in Nat
  BY EvaluationAssumption
<1>1. Consistent(Noticed(history, plan))
  BY <1>0 DEF Consistent, Noticed, Records, Times, Never
<1>2. ASSUME NEW records, Consistent(records) PROVE Consistent(Trimmed(records))
  BY <1>2, <1>0 DEF Consistent, Trimmed, Records, Times, Never, NoRecord
<1>3. ASSUME NEW winner \in Plans PROVE Consistent(WonBy(winner))
  BY <1>0 DEF Consistent, WonBy, Records, Times, Never, NoRecord
<1>4. QED
  BY <1>1, <1>2, <1>3

(* What a sample makes of the status: nothing is elected, or the leader is. *)
LEMMA SampleShape ==
    ASSUME Sample
    PROVE  LET records == Trimmed(Noticed(history, partition.plan))
           IN /\ ready' \in BOOLEAN
              /\ projection' \in {projection} \cup Plans
              /\ sampledAt' = [sampledAt EXCEPT ![partition.plan] = now]
              /\ steadySince' = steadySince
              /\ \/ history' = records /\ UNCHANGED <<elected, electedAt>>
                 \/ \E top \in TopSeen(records) : Elect(top)
<1> DEFINE records == Trimmed(Noticed(history, partition.plan))
<1>1. TopSeen(records) \subseteq Plans
  BY DEF TopSeen
<1>2. CASE \E top \in TopSeen(records) \cap {partition.plan, projection} :
             projection' = top /\ ready' = TRUE /\ (Elect(top) \/ Await(top, records))
  BY <1>1, <1>2 DEF Sample, Await
<1>3. CASE ready' = FALSE /\ history' = records /\ UNCHANGED <<projection, elected, electedAt>>
  BY <1>3 DEF Sample
<1>4. QED
  BY <1>2, <1>3 DEF Sample

(* A Reconcile, taken or failed, samples or leaves the record as it was. *)
LEMMA StepShape ==
    ASSUME Next
    PROVE  \/ Sample /\ UNCHANGED now
           \/ Tick
           \/ UNCHANGED <<now, history, projection, elected, electedAt, sampledAt>>
BY DEF Next, Reconcile, ReconcileFails, Restart, Report, Tick, NotReady, status, observed

(* At the start nothing has been counted. *)
LEMMA InitType == Init => TypeOK
<1> USE EvaluationAssumption DEF Times, Never
<1> SUFFICES ASSUME Init PROVE TypeOK
  OBVIOUS
<1>1. NoRecord \in [seenTimes : Nat, timestamp : Times] /\ Never \in Times /\ 0 \in Times
  BY DEF NoRecord
<1>2. \A p \in Plans : history[p] = NoRecord
  BY DEF Init
<1>3. \A p \in Plans : history[p].seenTimes = 0 /\ history[p].timestamp = Never
  BY <1>2 DEF NoRecord
<1>4. /\ history \in [Plans -> [seenTimes : Nat, timestamp : Times]]
      /\ sampledAt \in [Plans -> Times]
  <2> HIDE DEF Times, Never
  <2> QED  BY <1>1 DEF Init
<1>5. pace \in Paces /\ now \in 0..MaxTime /\ faults \in 0..MaxFaults
  BY DEF Init
<1>6. /\ projection \in Plans /\ elected \in Plans /\ electedAt \in Times
      /\ lastReconciled \in Times /\ steadySince \in Times
      /\ ready \in BOOLEAN /\ requested \in BOOLEAN
  BY <1>1 DEF Init
<1>7. QED
  <2> HIDE DEF Times, Never
  <2> QED  BY <1>3, <1>4, <1>5, <1>6 DEF Init, TypeOK

(* Types, with a consistent history. *)
THEOREM TypeCorrect == Spec => []TypeOK
<1> USE EvaluationAssumption DEF Times, Never
<1>1. Init => TypeOK
  BY InitType
<1>2. TypeOK /\ [Next]_vars => TypeOK'
  <2> SUFFICES ASSUME TypeOK, [Next]_vars PROVE TypeOK'
    OBVIOUS
  <2>1. Consistent(history)
    BY DEF TypeOK, Consistent, Records
  <2>0. pace.until \in 0..MaxTime /\ pace.faults \in 0..MaxFaults
    BY DEF TypeOK
  <2>2. ASSUME Sample, UNCHANGED now
        PROVE  /\ history' \in Records
               /\ \A p \in Plans : history'[p].seenTimes = 0 <=> history'[p].timestamp = Never
               /\ projection' \in Plans /\ elected' \in Plans /\ electedAt' \in Times
               /\ ready' \in BOOLEAN
               /\ sampledAt' \in [Plans -> Times] /\ steadySince' \in Times
    <3> DEFINE records == Trimmed(Noticed(history, partition.plan))
    <3>1. partition.plan \in Plans /\ now \in 0..MaxTime
      BY DEF TypeOK
    <3>2. /\ Consistent(records)
          /\ \A winner \in Plans : Consistent(WonBy(winner))
      BY <2>1, <3>1, RecordsConsistent
    <3>3. TopSeen(records) \subseteq Plans
      BY DEF TopSeen
    <3>4. /\ ready' \in BOOLEAN
          /\ projection' \in {projection} \cup Plans
          /\ sampledAt' = [sampledAt EXCEPT ![partition.plan] = now]
          /\ steadySince' = steadySince
          /\ \/ history' = records /\ UNCHANGED <<elected, electedAt>>
             \/ \E top \in TopSeen(records) : Elect(top)
      BY <2>2, SampleShape
    <3>5. Consistent(history') /\ elected' \in Plans /\ electedAt' \in Times
      <4>1. CASE history' = records /\ UNCHANGED <<elected, electedAt>>
        BY <3>2, <4>1 DEF TypeOK
      <4>2. ASSUME NEW top \in TopSeen(records), Elect(top)
            PROVE  Consistent(history') /\ elected' \in Plans /\ electedAt' \in Times
        BY <3>1, <3>2, <3>3, <4>2 DEF Elect
      <4> QED  BY <3>4, <4>1, <4>2
    <3> QED  BY <3>1, <3>4, <3>5 DEF Consistent, TypeOK
  <2>3. CASE Reconcile
    <3>1. CASE Sample
      BY <2>2, <2>3, <3>1 DEF Reconcile, Begin, TypeOK, Records
    <3>2. CASE NotReady
      BY <2>3, <3>2 DEF Reconcile, Begin, NotReady, TypeOK, observed
    <3> QED  BY <2>3, <3>1, <3>2 DEF Reconcile
  <2>4. CASE ReconcileFails
    <3>1. /\ faults' \in 0..MaxFaults /\ lastReconciled' \in Times
          /\ UNCHANGED <<pace, now, partition, requested>>
      BY <2>0, <2>4 DEF ReconcileFails, Begin, Fault, TypeOK
    <3>2. CASE Sample
      BY <2>2, <3>1, <3>2 DEF TypeOK, Records
    <3>3. CASE NotReady \/ UNCHANGED <<status, observed>>
      <4>1. UNCHANGED <<history, projection, elected, electedAt, sampledAt, steadySince>>
        BY <3>3 DEF NotReady, status, observed
      <4>2. ready' \in BOOLEAN
        BY <3>3 DEF NotReady, status, TypeOK
      <4> QED  BY <3>1, <4>1, <4>2 DEF TypeOK
    <3> QED  BY <2>4, <3>2, <3>3 DEF ReconcileFails
  <2>5. CASE Restart
    BY <2>0, <2>5 DEF Restart, Fault, TypeOK, status, observed
  <2>6. ASSUME NEW plan \in Plans, NEW isReady \in BOOLEAN, Report(plan, isReady) PROVE TypeOK'
    <3>1. requested' \in BOOLEAN /\ faults' \in 0..MaxFaults
      <4>1. Notify
        BY <2>6 DEF Report
      <4>2. CASE requested' = TRUE /\ UNCHANGED faults
        BY <4>2 DEF TypeOK
      <4>3. CASE Fault /\ UNCHANGED requested
        BY <2>0, <4>3 DEF Fault, TypeOK
      <4> QED  BY <4>1, <4>2, <4>3 DEF Notify
    <3>2. partition' \in [plan : Plans, ready : BOOLEAN] /\ steadySince' \in Times
      BY <2>6 DEF Report, TypeOK
    <3> QED  BY <2>6, <3>1, <3>2 DEF Report, TypeOK, status
  <2>7. CASE Tick
    BY <2>0, <2>7 DEF Tick, TypeOK, status, observed
  <2>8. CASE UNCHANGED vars
    BY <2>8 DEF vars, status, observed, TypeOK
  <2> QED  BY <2>3, <2>4, <2>5, <2>6, <2>7, <2>8 DEF Next
<1> QED  BY <1>1, <1>2, PTL DEF Spec

------------------------------------------------------------------------------
(* The inductive invariant: a record is of a sample at that time or, after *)
(* an election, of the plan elected then, which was sampled recently.      *)

(* The plan was sampled no earlier than its record says. *)
Genuine(p) == history[p].timestamp <= sampledAt[p]

(* The record is the one that its election has made. *)
Renewed(p) == /\ history[p].seenTimes = 1
              /\ history[p].timestamp = electedAt
              /\ sampledAt[p] # Never
              /\ electedAt < sampledAt[p] + HistoryRetentionPeriod

IInv == /\ TypeOK
        /\ electedAt <= now
        /\ \A p \in Plans : Genuine(p) \/ Renewed(p)

(* The leader of the count was sampled less than a retention period ago: if *)
(* its record is the one of its election, it leads the sample just taken    *)
(* only if it was elected at this very time.                                *)
LEMMA LeaderIsRecent ==
    ASSUME IInv,
           NEW top \in TopSeen(Trimmed(Noticed(history, partition.plan))),
           NEW sampled, sampled = [sampledAt EXCEPT ![partition.plan] = now]
    PROVE  sampled[top] # Never /\ now < sampled[top] + HistoryRetentionPeriod
<1> DEFINE plan == partition.plan
           noticed == Noticed(history, plan)
           records == Trimmed(noticed)
<1> USE DEF Times, Never
<1>1. /\ plan \in Plans /\ top \in Plans /\ now \in Nat
      /\ history \in [Plans -> [seenTimes : Nat, timestamp : Times]]
      /\ sampledAt \in [Plans -> Times]
      /\ MaxTime \in Nat /\ HistoryRetentionPeriod \in Nat
  BY EvaluationAssumption, Periods DEF IInv, TypeOK, TopSeen
<1>2. records[top].seenTimes > 0 /\ records[top] = noticed[top]
      /\ noticed[top].timestamp + HistoryRetentionPeriod > now
  BY <1>1 DEF TopSeen, Trimmed, NoRecord
<1>3. CASE top = plan
  <2>1. noticed[top].timestamp = now
    BY <1>1, <1>3 DEF Noticed
  <2> QED  BY <1>1, <1>2, <1>3, <2>1
<1>4. CASE top # plan
  <2>1. noticed[top] = history[top] /\ sampled[top] = sampledAt[top]
    BY <1>1, <1>4 DEF Noticed
  <2>2. CASE Genuine(top)
    <3>1. history[top].seenTimes > 0
      BY <1>2, <2>1
    <3>2. history[top].timestamp # Never /\ history[top].timestamp \in Times
      BY <1>1, <3>1 DEF IInv, TypeOK
    <3> QED  BY <1>1, <1>2, <2>1, <2>2, <3>2 DEF Genuine
  <2>3. CASE Renewed(top)
    <3>1. /\ noticed[plan].seenTimes >= 1 /\ noticed[plan].seenTimes \in Nat
          /\ noticed[plan].timestamp = now
      BY <1>1 DEF Noticed
    <3>2. HistoryRetentionPeriod > 0
      BY <1>1, <1>2, <2>1, <2>3 DEF Renewed, IInv, TypeOK
    <3>3. records[plan] = noticed[plan]
      BY <1>1, <3>1, <3>2 DEF Trimmed
    <3>4. records[top].seenTimes = 1 /\ records[top].timestamp = electedAt
      BY <1>2, <2>1, <2>3 DEF Renewed
    <3>5. now <= electedAt
      BY <1>1, <3>1, <3>3, <3>4 DEF TopSeen
    <3>6. electedAt = now
      BY <3>5, <1>1 DEF IInv, TypeOK
    <3> QED  BY <2>1, <2>3, <3>6 DEF Renewed
  <2> QED  BY <2>2, <2>3, <1>1 DEF IInv
<1> QED  BY <1>3, <1>4

(* The invariant holds in every state. *)
LEMMA InvHolds == Spec => []IInv
<1> USE EvaluationAssumption DEF Times, Never
<1>1. Init => TypeOK /\ IInv
  <2> SUFFICES ASSUME Init PROVE IInv
    BY DEF IInv
  <2>1. TypeOK
    BY InitType
  <2>2. \A p \in Plans : history[p] = NoRecord /\ sampledAt[p] = Never
    BY DEF Init
  <2> QED  BY <2>1, <2>2 DEF Init, IInv, Genuine, NoRecord
<1>2. TypeOK' /\ IInv /\ [Next]_vars => IInv'
  <2> SUFFICES ASSUME TypeOK', IInv, [Next]_vars PROVE IInv'
    OBVIOUS
  <2>1. CASE Sample /\ UNCHANGED now
    <3> DEFINE plan == partition.plan
               records == Trimmed(Noticed(history, plan))
    <3>1. /\ sampledAt' = [sampledAt EXCEPT ![plan] = now]
          /\ \/ history' = records /\ UNCHANGED <<elected, electedAt>>
             \/ \E top \in TopSeen(records) : Elect(top)
      BY <2>1, SampleShape
    <3>2. /\ plan \in Plans /\ now \in Nat /\ electedAt \in Times /\ MaxTime \in Nat
          /\ history \in [Plans -> [seenTimes : Nat, timestamp : Times]]
          /\ sampledAt \in [Plans -> Times] /\ sampledAt' \in [Plans -> Times]
          /\ HistoryRetentionPeriod \in Nat
      BY Periods DEF IInv, TypeOK
    <3>3. CASE history' = records /\ UNCHANGED <<elected, electedAt>>
      <4> SUFFICES ASSUME NEW p \in Plans PROVE (Genuine(p) \/ Renewed(p))'
        BY <2>1, <3>3 DEF IInv
      <4>1. CASE history'[p] = NoRecord
        BY <3>2, <4>1 DEF Genuine, NoRecord
      <4>2. CASE p = plan /\ history'[p] = Noticed(history, plan)[p]
        BY <3>1, <3>2, <4>2 DEF Genuine, Noticed
      <4>3. CASE p # plan /\ history'[p] = history[p]
        BY <3>1, <3>2, <3>3, <4>3 DEF IInv, Genuine, Renewed, HistoryRetentionPeriod
      <4> QED  BY <3>2, <3>3, <4>1, <4>2, <4>3 DEF Trimmed, Noticed
    <3>4. ASSUME NEW top \in TopSeen(records), Elect(top) PROVE IInv'
      <4>1. sampledAt'[top] # Never /\ now < sampledAt'[top] + HistoryRetentionPeriod
        BY <3>1, LeaderIsRecent
      <4>2. electedAt' = now /\ now' = now /\ history' = WonBy(top)
        BY <2>1, <3>4 DEF Elect
      <4>3. ASSUME NEW p \in Plans, p # top PROVE Genuine(p)'
        BY <3>2, <4>2, <4>3 DEF Genuine, WonBy, NoRecord
      <4>4. ASSUME NEW p \in Plans, p = top PROVE Renewed(p)'
        BY <3>2, <4>1, <4>2, <4>4 DEF Renewed, WonBy, HistoryRetentionPeriod
      <4> QED  BY <3>2, <4>2, <4>3, <4>4 DEF IInv
    <3> QED  BY <3>1, <3>3, <3>4
  <2>2. CASE Tick
    BY <2>2 DEF Tick, IInv, TypeOK, Genuine, Renewed, status, observed, HistoryRetentionPeriod
  <2>3. CASE UNCHANGED <<now, history, projection, elected, electedAt, sampledAt>>
    BY <2>3 DEF IInv, Genuine, Renewed, HistoryRetentionPeriod
  <2> QED  BY <2>1, <2>2, <2>3, StepShape DEF vars, status, observed
<1> QED  BY <1>1, <1>2, TypeCorrect, PTL DEF Spec

(* Whatever is restarted, refused or counted twice: elections respect the  *)
(* stabilization periods and elect plans sampled less than a retention     *)
(* period ago.                                                             *)
THEOREM EvaluationImplementsElection == Spec => ImplementsElection
<1>1. Init => Stabilized!Init
  BY DEF Init, Stabilized!Init, Never, Stabilized!Never
<1>2. IInv /\ [Next]_vars => [Stabilized!Next]_(Stabilized!vars)
  <2> SUFFICES ASSUME IInv, [Next]_vars PROVE [Stabilized!Next]_(Stabilized!vars)
    OBVIOUS
  <2>1. CASE Sample /\ UNCHANGED now
    <3> DEFINE plan == partition.plan
               records == Trimmed(Noticed(history, plan))
    <3>1. /\ sampledAt' = [sampledAt EXCEPT ![plan] = now]
          /\ \/ history' = records /\ UNCHANGED <<elected, electedAt>>
             \/ \E top \in TopSeen(records) : Elect(top)
      BY <2>1, SampleShape
    <3>2. plan \in Plans /\ Stabilized!Sample(plan)
      BY <2>1, <3>1 DEF IInv, TypeOK, Stabilized!Sample
    <3>3. ASSUME NEW top \in TopSeen(records), Elect(top)
          PROVE  top \in Plans /\ Stabilized!Elect(top)
      <4>1. sampledAt'[top] # Never /\ now < sampledAt'[top] + HistoryRetentionPeriod
        BY <3>1, LeaderIsRecent
      <4> QED  BY <3>3, <4>1 DEF Elect, TopSeen, Stabilized!Elect, Stabilized!Never, Never,
                                 Stabilized!Retention, HistoryRetentionPeriod,
                                 Stabilized!Period, StabilizationPeriodForProjection
    <3> QED  BY <3>1, <3>2, <3>3 DEF Stabilized!Next
  <2>2. CASE Tick
    BY <2>2 DEF Tick, Stabilized!Next, Stabilized!Tick, status, observed
  <2>3. CASE UNCHANGED <<now, history, projection, elected, electedAt, sampledAt>>
    BY <2>3 DEF Stabilized!vars
  <2> QED  BY <2>1, <2>2, <2>3, StepShape DEF vars, status, observed
<1> QED  BY <1>1, <1>2, InvHolds, PTL DEF Spec, ImplementsElection, Stabilized!Spec

------------------------------------------------------------------------------
(* Samples that come at every interval of the rate limit, and never twice. *)

(* There is a retention period; and at the regular pace nothing is         *)
(* restarted or refused, so that no two samples are of the same time: of   *)
(* two records with the same count and time the code may know neither.     *)
RegularPaces == /\ HistoryRetentionPeriod > 0
                /\ \A p \in Paces : p.gap = 1 => p.faults = 0

SampledNow == \E p \in Plans : sampledAt[p] = now

(* There is a last sample, and what was sampled now took this interval's   *)
(* Reconcile.                                                              *)
ClockInv == /\ \E t \in Times : /\ \E p \in Plans : sampledAt[p] = t
                              /\ \A p \in Plans : sampledAt[p] <= t
            /\ \A p \in Plans : sampledAt[p] <= now
            /\ SampledNow \/ electedAt = now => lastReconciled = now
            /\ 0 <= steadySince /\ steadySince <= now

(* Once something has been sampled there is an election, and the last one  *)
(* is at most a retention period old, less when this interval's sample has *)
(* been taken.                                                             *)
ElectionInv == IF electedAt = Never
               THEN /\ now = 0 /\ ~SampledNow
                    /\ \A p \in Plans : history[p] = NoRecord
               ELSE /\ electedAt <= now
                    /\ now - electedAt <= HistoryRetentionPeriod
                    /\ SampledNow => now - electedAt < HistoryRetentionPeriod
                    /\ projection \in TopSeen(history)

(* The records start with the election's own, and each has a time of its own. *)
RecordsInv == \A p \in Plans : history[p].timestamp # Never =>
                 /\ electedAt <= history[p].timestamp /\ history[p].timestamp <= now
                 /\ history[p].timestamp = now => lastReconciled = now
                 /\ history[p].timestamp = electedAt => history[p].seenTimes = 1
                 /\ \A q \in Plans : history[q].timestamp = history[p].timestamp => q = p

(* An election while the plan was steady has left no record of another     *)
(* plan but its own; and the next election is won by that plan.            *)
SteadyInv == /\ electedAt > steadySince =>
                   \A q \in Plans : q = partition.plan \/ history[q].timestamp \in {Never, electedAt}
             /\ electedAt > steadySince + HistoryRetentionPeriod => elected = partition.plan

RegularInv == pace.gap = 1 => ClockInv /\ ElectionInv /\ RecordsInv /\ SteadyInv

(* What a sample makes of the records: the plan's is counted and of now;   *)
(* the others' stay or are gone.                                           *)
LEMMA SampledRecords ==
    ASSUME RegularPaces, TypeOK
    PROVE  LET plan == partition.plan
               records == Trimmed(Noticed(history, plan))
           IN /\ plan \in Plans /\ now \in Nat
              /\ records[plan] = [seenTimes |-> history[plan].seenTimes + 1, timestamp |-> now]
              /\ \A q \in Plans : q # plan =>
                    records[q] = IF history[q].timestamp + HistoryRetentionPeriod > now
                                 THEN history[q] ELSE NoRecord
<1> DEFINE plan == partition.plan
<1>1. plan \in Plans /\ now \in Nat /\ history \in [Plans -> [seenTimes : Nat, timestamp : Times]]
  BY EvaluationAssumption DEF TypeOK
<1>2. Noticed(history, plan) = [history EXCEPT ![plan] = [seenTimes |-> history[plan].seenTimes + 1,
                                                          timestamp |-> now]]
  BY <1>1 DEF Noticed
<1>3. HistoryRetentionPeriod \in Nat \ {0}
  BY Periods DEF RegularPaces
<1>4. now + HistoryRetentionPeriod > now
  BY <1>1, <1>3
<1> QED  BY <1>1, <1>2, <1>4 DEF Trimmed

(* The leader of a regular sample is the plan just sampled or the          *)
(* projection, alone.                                                      *)
LEMMA LeaderKnown ==
    ASSUME RegularPaces, TypeOK, RegularInv, pace.gap = 1, lastReconciled < now
    PROVE  \E top \in {partition.plan, projection} :
              TopSeen(Trimmed(Noticed(history, partition.plan))) = {top}
<1> DEFINE plan == partition.plan
           records == Trimmed(Noticed(history, plan))
<1> USE DEF Never
<1>1. /\ plan \in Plans /\ projection \in Plans /\ now \in Nat
      /\ history \in [Plans -> [seenTimes : Nat, timestamp : Int]]
      /\ HistoryRetentionPeriod \in Nat \ {0}
      /\ electedAt \in Int /\ lastReconciled \in Int
      /\ \A q \in Plans : history[q].seenTimes = 0 <=> history[q].timestamp = Never
  BY Periods, EvaluationAssumption DEF RegularPaces, TypeOK, Times
<1>2. /\ records[plan].seenTimes = history[plan].seenTimes + 1 /\ records[plan].timestamp = now
      /\ \A q \in Plans : q # plan =>
            records[q] = IF history[q].timestamp + HistoryRetentionPeriod > now
                         THEN history[q] ELSE NoRecord
  BY SampledRecords
<1>3. /\ NoRecord.seenTimes = 0 /\ NoRecord.timestamp = Never
      /\ \A q \in Plans : history[q].seenTimes \in Nat /\ history[q].timestamp \in Int
  BY <1>1 DEF NoRecord
<1>4. \A q \in Plans : history[q].timestamp < now
  BY <1>1, <1>3 DEF RegularInv, RecordsInv
(* The plan leads whenever no other has been seen more often. *)
<1>5. ASSUME \A q \in Plans : q # plan => records[q].seenTimes <= history[plan].seenTimes + 1
      PROVE  TopSeen(records) = {plan}
  <2>1. plan \in TopSeen(records)
    <3> SUFFICES ASSUME NEW q \in Plans, q # plan
                 PROVE  \/ records[q].seenTimes < records[plan].seenTimes
                        \/ /\ records[q].seenTimes = records[plan].seenTimes
                           /\ records[q].timestamp <= records[plan].timestamp
      BY <1>1, <1>2, <1>3 DEF TopSeen
    <3>1. records[q].seenTimes \in Nat /\ records[q].timestamp <= now
      BY <1>1, <1>2, <1>3, <1>4
    <3> QED  BY <1>1, <1>2, <1>3, <1>5, <3>1
  <2>2. ASSUME NEW q \in TopSeen(records), q # plan PROVE FALSE
    <3>1. q \in Plans /\ records[q].seenTimes > 0
      BY DEF TopSeen
    <3>2. records[q] = history[q]
      BY <1>2, <1>3, <2>2, <3>1
    <3>3. \/ records[plan].seenTimes < records[q].seenTimes
          \/ records[plan].timestamp <= records[q].timestamp
      BY <1>1 DEF TopSeen
    <3>4. records[q].seenTimes <= history[plan].seenTimes + 1
      BY <1>5, <2>2, <3>1
    <3> HIDE DEF records
    <3> QED  BY <1>1, <1>2, <1>3, <1>4, <3>1, <3>2, <3>3, <3>4
  <2> QED  BY <2>1, <2>2
<1>6. CASE electedAt = Never
  <2>1. \A q \in Plans : history[q] = NoRecord
    BY <1>6 DEF RegularInv, ElectionInv
  <2>2. \A q \in Plans : q # plan => records[q].seenTimes <= history[plan].seenTimes + 1
    <3> HIDE DEF records
    <3> QED  BY <1>1, <1>2, <1>3, <2>1
  <2> QED  BY <1>5, <2>2
<1>7. CASE electedAt # Never
  <2>1. projection \in TopSeen(history)
    BY <1>7 DEF RegularInv, ElectionInv
  <2>2. /\ history[projection].seenTimes > 0
        /\ \A q \in Plans : \/ history[q].seenTimes < history[projection].seenTimes
                            \/ /\ history[q].seenTimes = history[projection].seenTimes
                               /\ history[q].timestamp <= history[projection].timestamp
    BY <2>1 DEF TopSeen
  <2>3. CASE history[projection].seenTimes <= history[plan].seenTimes + 1
    <3>1. \A q \in Plans : q # plan => records[q].seenTimes <= history[plan].seenTimes + 1
      <4> HIDE DEF records
      <4> QED  BY <1>1, <1>2, <1>3, <2>2, <2>3
    <3> QED  BY <1>5, <3>1
  <2>4. CASE history[projection].seenTimes > history[plan].seenTimes + 1
    <3>1. projection # plan
      BY <1>3, <1>1, <2>4
    (* The election's own record is the only one that can be trimmed, and has one sample. *)
    <3>2. history[projection].timestamp + HistoryRetentionPeriod > now
      <4>1. history[projection].timestamp # Never
        BY <1>1, <2>2
      <4>2. /\ electedAt <= history[projection].timestamp
            /\ history[projection].timestamp = electedAt => history[projection].seenTimes = 1
        BY <1>1, <4>1 DEF RegularInv, RecordsInv
      <4>3. now - electedAt <= HistoryRetentionPeriod
        BY <1>7 DEF RegularInv, ElectionInv
      <4> QED  BY <1>1, <1>3, <2>4, <4>2, <4>3
    <3>3. records[projection] = history[projection]
      BY <1>1, <1>2, <3>1, <3>2
    <3>4. projection \in TopSeen(records)
      <4>1. ASSUME NEW q \in Plans
            PROVE  \/ records[q].seenTimes < records[projection].seenTimes
                   \/ /\ records[q].seenTimes = records[projection].seenTimes
                      /\ records[q].timestamp <= records[projection].timestamp
        <5>1. CASE q = plan
          <6> HIDE DEF records
          <6> QED  BY <1>1, <1>2, <1>3, <2>4, <3>3, <5>1
        <5>2. CASE q # plan
          <6> HIDE DEF records
          <6> QED  BY <1>1, <1>2, <1>3, <2>2, <3>3, <5>2
        <5> QED  BY <5>1, <5>2
      <4> QED  BY <1>1, <2>2, <3>3, <4>1 DEF TopSeen
    <3>5. ASSUME NEW q \in TopSeen(records), q # projection PROVE FALSE
      <4>1. q \in Plans /\ records[q].seenTimes > 0
        BY DEF TopSeen
      <4>2. \/ records[projection].seenTimes < records[q].seenTimes
            \/ /\ records[projection].seenTimes = records[q].seenTimes
               /\ records[projection].timestamp <= records[q].timestamp
        BY <1>1 DEF TopSeen
      <4>3. q # plan
        <5> HIDE DEF records
        <5> QED  BY <1>1, <1>2, <1>3, <2>4, <3>3, <4>2
      <4>4. records[q] = history[q]
        BY <1>2, <1>3, <4>1, <4>3
      <4>5. history[q].timestamp = history[projection].timestamp
        <5> HIDE DEF records
        <5> QED  BY <1>1, <1>3, <2>2, <3>3, <4>1, <4>2, <4>4
      <4>6. history[projection].timestamp # Never
        BY <1>1, <2>2
      <4> QED  BY <1>1, <3>5, <4>1, <4>5, <4>6 DEF RegularInv, RecordsInv
    <3> QED  BY <3>4, <3>5
  <2> QED  BY <1>1, <1>3, <2>3, <2>4
<1> QED  BY <1>6, <1>7

(* So a regular sample awaits the leader, or elects it. *)
LEMMA RegularSample ==
    ASSUME RegularPaces, TypeOK, RegularInv, pace.gap = 1, lastReconciled < now, Sample
    PROVE  LET records == Trimmed(Noticed(history, partition.plan))
           IN \E top \in {partition.plan, projection} :
                 /\ TopSeen(records) = {top} /\ ready' = TRUE /\ projection' = top
                 /\ Elect(top) \/ Await(top, records)
<1> DEFINE records == Trimmed(Noticed(history, partition.plan))
<1>1. PICK top \in {partition.plan, projection} : TopSeen(records) = {top}
  BY LeaderKnown
<1>2. ~ (TopSeen(records) = {} \/ ~(TopSeen(records) \subseteq {partition.plan, projection}))
  BY <1>1
<1> HIDE DEF records
<1>3. \E t \in TopSeen(records) \cap {partition.plan, projection} :
         projection' = t /\ ready' = TRUE /\ (Elect(t) \/ Await(t, records))
  BY <1>2 DEF Sample, records
<1>4. projection' = top /\ ready' = TRUE /\ (Elect(top) \/ Await(top, records))
  BY <1>1, <1>3
<1> QED  BY <1>1, <1>4 DEF records

(* A regular sample keeps the invariant: waiting keeps the election recent, *)
(* and an election begins the records anew.                                *)
LEMMA RegularSampleKeeps ==
    ASSUME RegularPaces, TypeOK, TypeOK', RegularInv, pace.gap = 1, lastReconciled < now,
           Sample, lastReconciled' = now, UNCHANGED <<pace, now, partition>>
    PROVE  RegularInv'
<1> DEFINE plan == partition.plan
           records == Trimmed(Noticed(history, plan))
<1> USE DEF Never
<1>1. /\ plan \in Plans /\ projection \in Plans /\ now \in Nat
      /\ history \in [Plans -> [seenTimes : Nat, timestamp : Int]]
      /\ HistoryRetentionPeriod \in Nat \ {0} /\ HistoryRetentionPeriod' = HistoryRetentionPeriod
      /\ electedAt \in Int /\ lastReconciled \in Int /\ steadySince \in Int
      /\ sampledAt \in [Plans -> Int]
      /\ \A q \in Plans : history[q].seenTimes = 0 <=> history[q].timestamp = Never
  BY Periods, EvaluationAssumption DEF RegularPaces, TypeOK, Times, HistoryRetentionPeriod
<1>2. /\ records[plan].seenTimes = history[plan].seenTimes + 1 /\ records[plan].timestamp = now
      /\ \A q \in Plans : q # plan =>
            records[q] = IF history[q].timestamp + HistoryRetentionPeriod > now
                         THEN history[q] ELSE NoRecord
  BY SampledRecords
<1>3. /\ NoRecord.seenTimes = 0 /\ NoRecord.timestamp = Never
      /\ \A q \in Plans : history[q].seenTimes \in Nat /\ history[q].timestamp \in Int
  BY <1>1 DEF NoRecord
<1>4. \A q \in Plans : history[q].timestamp < now
  BY <1>1, <1>3 DEF RegularInv, RecordsInv
<1>5. /\ sampledAt' = [sampledAt EXCEPT ![plan] = now]
      /\ steadySince' = steadySince
      /\ pace' = pace /\ now' = now /\ partition' = partition
  BY DEF Sample
<1>6. PICK top \in {plan, projection} :
         /\ TopSeen(records) = {top} /\ ready' = TRUE /\ projection' = top
         /\ Elect(top) \/ Await(top, records)
  BY RegularSample
<1>7. top \in Plans /\ StabilizationPeriodForProjection(top) \in Nat
      /\ StabilizationPeriodForProjection(top) <= HistoryRetentionPeriod
  BY <1>1, EvaluationAssumption DEF StabilizationPeriodForProjection, HistoryRetentionPeriod
<1> HIDE DEF records
<1>8. ClockInv'
  <2>1. now \in Times
    BY DEF TypeOK, Times
  <2>2. \A p \in Plans : sampledAt'[p] <= now
    BY <1>1, <1>5 DEF RegularInv, ClockInv
  <2>3. sampledAt'[plan] = now
    BY <1>1, <1>5
  <2> QED  BY <1>1, <1>5, <2>1, <2>2, <2>3 DEF RegularInv, ClockInv
<1>9. SampledNow'
  BY <1>1, <1>5 DEF SampledNow
<1>10. CASE Await(top, records)
  <2>1. /\ history' = records /\ electedAt' = electedAt /\ elected' = elected
        /\ electedAt # Never /\ now - electedAt < HistoryRetentionPeriod
    BY <1>1, <1>7, <1>10 DEF Await
  <2>2. ElectionInv'
    <3>1. projection' \in TopSeen(history')
      BY <1>6, <2>1
    <3>2. electedAt <= now
      BY <1>1, <2>1 DEF RegularInv, ElectionInv
    <3> QED  BY <1>1, <1>5, <2>1, <3>1, <3>2 DEF ElectionInv, TopSeen
  <2>3. RecordsInv'
    <3> SUFFICES ASSUME NEW p \in Plans, history'[p].timestamp # Never
                 PROVE  /\ electedAt <= history'[p].timestamp /\ history'[p].timestamp <= now
                        /\ history'[p].timestamp = electedAt => history'[p].seenTimes = 1
                        /\ \A q \in Plans : history'[q].timestamp = history'[p].timestamp => q = p
      BY <1>5, <2>1 DEF RecordsInv
    <3>1. CASE p = plan
      <4>1. electedAt <= now
        BY <1>1, <2>1 DEF RegularInv, ElectionInv
      <4>2. electedAt # now
        BY <1>1 DEF RegularInv, ClockInv
      <4> QED  BY <1>1, <1>2, <1>3, <1>4, <2>1, <3>1, <4>1, <4>2
    <3>2. CASE p # plan
      <4>1. history'[p] = history[p] /\ history[p].timestamp # Never
        BY <1>2, <1>3, <2>1, <3>2
      <4>2. /\ electedAt <= history[p].timestamp /\ history[p].timestamp <= now
            /\ history[p].timestamp = electedAt => history[p].seenTimes = 1
            /\ \A q \in Plans : history[q].timestamp = history[p].timestamp => q = p
        BY <4>1 DEF RegularInv, RecordsInv
      <4>3. ASSUME NEW q \in Plans, history'[q].timestamp = history'[p].timestamp PROVE q = p
        <5>1. q # plan
          BY <1>1, <1>2, <1>4, <2>1, <4>1, <4>3
        <5>2. history'[q] = history[q]
          BY <1>2, <1>3, <2>1, <4>1, <4>3, <5>1
        <5> QED  BY <4>1, <4>2, <4>3, <5>2
      <4> QED  BY <4>1, <4>2, <4>3
    <3> QED  BY <3>1, <3>2
  <2>4. SteadyInv'
    <3>1. electedAt > steadySince =>
             \A q \in Plans : q = plan \/ history'[q].timestamp \in {Never, electedAt}
      BY <1>2, <1>3, <2>1 DEF RegularInv, SteadyInv
    <3> QED  BY <1>1, <1>5, <2>1, <3>1 DEF RegularInv, SteadyInv
  <2> QED  BY <1>8, <2>2, <2>3, <2>4 DEF RegularInv
<1>11. CASE Elect(top)
  <2>1. /\ history' = WonBy(top) /\ electedAt' = now /\ elected' = top /\ projection' = top
    BY <1>6, <1>11 DEF Elect
  <2>2. /\ history'[top].seenTimes = 1 /\ history'[top].timestamp = now
        /\ \A q \in Plans : q # top => history'[q] = NoRecord
    BY <1>7, <2>1 DEF WonBy
  <2>3. ElectionInv'
    <3>1. top \in TopSeen(history')
      BY <1>1, <1>3, <1>7, <2>2 DEF TopSeen
    <3> QED  BY <1>1, <1>5, <2>1, <3>1 DEF ElectionInv, TopSeen
  <2>4. RecordsInv'
    BY <1>1, <1>3, <1>5, <2>1, <2>2 DEF RecordsInv
  <2>5. ASSUME now > steadySince + HistoryRetentionPeriod PROVE top = plan
    <3>1. CASE electedAt = Never
      <4>1. now = 0 /\ 0 <= steadySince
        BY <3>1 DEF RegularInv, ElectionInv, ClockInv
      <4> QED  BY <1>1, <2>5, <4>1
    (* The last election was steady already, so another leader has but its own record. *)
    <3>2. CASE electedAt # Never
      <4>1. electedAt > steadySince
        BY <1>1, <2>5, <3>2 DEF RegularInv, ElectionInv
      <4>2. SUFFICES ASSUME top # plan PROVE FALSE
        OBVIOUS
      <4>3. /\ top \in TopSeen(records)
            /\ records[top].seenTimes > 0
            /\ \/ records[plan].seenTimes < records[top].seenTimes
               \/ records[plan].timestamp <= records[top].timestamp
        BY <1>1, <1>6, <4>2 DEF TopSeen
      <4>4. records[top] = history[top] /\ history[top].timestamp # Never
        BY <1>1, <1>2, <1>3, <1>7, <4>2, <4>3
      <4>5. history[top].timestamp = electedAt
        BY <1>7, <4>1, <4>2, <4>4 DEF RegularInv, SteadyInv
      <4>6. history[top].seenTimes = 1
        BY <1>7, <4>4, <4>5 DEF RegularInv, RecordsInv
      <4> QED  BY <1>1, <1>2, <1>3, <1>4, <1>7, <4>3, <4>4, <4>6
    <3> QED  BY <3>1, <3>2
  <2>6. SteadyInv'
    <3>1. \A q \in Plans : q = top \/ history'[q].timestamp = Never
      BY <1>3, <2>2
    <3>2. \A q \in Plans : q = plan \/ history'[q].timestamp \in {Never, now}
      BY <2>2, <3>1
    <3> QED  BY <1>1, <1>5, <2>1, <2>5, <3>2 DEF SteadyInv
  <2> QED  BY <1>8, <2>3, <2>4, <2>6 DEF RegularInv
<1> QED  BY <1>6, <1>10, <1>11

(* At the regular pace, the clock ticks only once a sample was taken.      *)
LEMMA TickAfterSample ==
    ASSUME TypeOK, ClockInv, pace.gap = 1, Tick
    PROVE  SampledNow
<1>1. LastSample \in Times /\ \E p \in Plans : sampledAt[p] = LastSample
  BY DEF ClockInv, LastSample
<1>2. PICK p \in Plans : sampledAt[p] = LastSample
  BY <1>1
<1>3. now \in Int /\ LastSample \in Int /\ LastSample <= now /\ now - LastSample < 1
  BY <1>1, <1>2, EvaluationAssumption DEF ClockInv, Tick, TypeOK, Times, Never
<1>4. LastSample = now
  BY <1>3
<1> QED  BY <1>2, <1>4 DEF SampledNow

(* At the start nothing has been sampled. *)
LEMMA RegularInit == Init => RegularInv
<1> SUFFICES ASSUME Init PROVE RegularInv
  OBVIOUS
<1> USE DEF Never
<1>1. /\ now = 0 /\ steadySince = 0 /\ electedAt = Never /\ lastReconciled = Never
      /\ \A p \in Plans : sampledAt[p] = Never /\ history[p] = NoRecord
  BY DEF Init
<1>2. ClockInv
  <2>1. EmptyPlan \in Plans /\ Never \in Times
    BY EvaluationAssumption DEF Times
  <2> QED  BY <1>1, <2>1 DEF ClockInv, SampledNow
<1>3. ElectionInv
  BY <1>1 DEF ElectionInv, SampledNow
<1>4. RecordsInv
  BY <1>1 DEF RecordsInv, NoRecord
<1>5. SteadyInv
  <2>1. HistoryRetentionPeriod \in Nat
    BY Periods
  <2> QED  BY <1>1, <2>1 DEF SteadyInv
<1> QED  BY <1>2, <1>3, <1>4, <1>5 DEF RegularInv

(* The invariant of regular samples holds in every state. *)
LEMMA RegularHolds == ASSUME RegularPaces PROVE Spec => []RegularInv
<1>1. Init => RegularInv
  BY RegularInit
<1>2. TypeOK /\ TypeOK' /\ RegularInv /\ [Next]_vars => RegularInv'
  <2> SUFFICES ASSUME TypeOK, TypeOK', RegularInv, [Next]_vars PROVE RegularInv'
    OBVIOUS
  <2> USE DEF Never
  <2>1. /\ pace' = pace /\ HistoryRetentionPeriod' = HistoryRetentionPeriod
        /\ HistoryRetentionPeriod \in Nat \ {0}
    BY Periods DEF RegularPaces, HistoryRetentionPeriod, Next, Reconcile, ReconcileFails, Restart,
                   Report, Tick, vars
  <2>2. SUFFICES ASSUME pace.gap = 1 PROVE RegularInv'
    BY <2>1 DEF RegularInv
  <2>3. /\ now \in Nat /\ electedAt \in Int /\ lastReconciled \in Int /\ steadySince \in Int
        /\ sampledAt \in [Plans -> Int]
        /\ history \in [Plans -> [seenTimes : Nat, timestamp : Int]]
        /\ pace.gap' = 1 /\ pace.faults = 0 /\ faults \in Nat
    BY <2>1, <2>2, EvaluationAssumption DEF TypeOK, Times, RegularPaces
  <2>4. ClockInv /\ ElectionInv /\ RecordsInv /\ SteadyInv
    BY <2>2 DEF RegularInv
  <2>5. ~Fault
    BY <2>3 DEF Fault
  <2>6. CASE Reconcile
    <3>1. lastReconciled < now /\ lastReconciled' = now /\ UNCHANGED <<pace, now, partition>>
      BY <2>6 DEF Reconcile, Begin
    <3>2. CASE Sample
      BY <2>2, <3>1, <3>2, RegularSampleKeeps
    <3>3. CASE NotReady
      <4>1. UNCHANGED <<history, projection, elected, electedAt, sampledAt, steadySince>>
        BY <3>3 DEF NotReady, observed
      <4> QED  BY <2>1, <2>4, <3>1, <4>1
                  DEF RegularInv, ClockInv, ElectionInv, RecordsInv, SteadyInv, SampledNow, TopSeen
    <3> QED  BY <2>6, <3>2, <3>3 DEF Reconcile
  <2>7. ASSUME NEW plan \in Plans, NEW isReady \in BOOLEAN, Report(plan, isReady) PROVE RegularInv'
    <3>1. UNCHANGED <<pace, now, history, projection, elected, electedAt, lastReconciled, sampledAt>>
      BY <2>7 DEF Report, status
    <3>2. steadySince' = IF partition' = partition THEN steadySince ELSE now
      BY <2>7 DEF Report
    <3>3. ClockInv' /\ ElectionInv' /\ RecordsInv'
      BY <2>1, <2>3, <2>4, <3>1, <3>2 DEF ClockInv, ElectionInv, RecordsInv, SampledNow, TopSeen
    <3>4. SteadyInv'
      <4>1. electedAt <= now
        BY <2>3, <2>4 DEF ElectionInv
      <4> QED  BY <2>1, <2>3, <2>4, <3>1, <3>2, <4>1 DEF SteadyInv
    <3> QED  BY <3>3, <3>4 DEF RegularInv
  <2>8. CASE Tick
    <3>1. SampledNow
      BY <2>2, <2>4, <2>8, TickAfterSample
    <3>2. /\ now' = now + 1
          /\ UNCHANGED <<pace, partition, history, projection, elected, electedAt, lastReconciled,
                         sampledAt, steadySince>>
      BY <2>8 DEF Tick, status, observed
    <3>3. electedAt # Never /\ electedAt <= now /\ now - electedAt < HistoryRetentionPeriod
      BY <2>4, <3>1 DEF ElectionInv
    <3>4. ~SampledNow'
      BY <2>3, <2>4, <3>2 DEF ClockInv, SampledNow
    <3>5. ClockInv'
      BY <2>3, <2>4, <3>2, <3>3, <3>4 DEF ClockInv
    <3>6. ElectionInv'
      BY <2>1, <2>3, <2>4, <3>2, <3>3, <3>4 DEF ElectionInv, TopSeen
    <3>7. RecordsInv'
      BY <2>3, <2>4, <3>2 DEF RecordsInv
    <3>8. SteadyInv'
      BY <2>1, <2>4, <3>2 DEF SteadyInv
    <3> QED  BY <3>5, <3>6, <3>7, <3>8 DEF RegularInv
  <2>9. CASE UNCHANGED vars
    BY <2>1, <2>4, <2>9
       DEF vars, status, observed, RegularInv, ClockInv, ElectionInv, RecordsInv, SteadyInv,
           SampledNow, TopSeen
  <2> QED  BY <2>5, <2>6, <2>7, <2>8, <2>9 DEF Next, ReconcileFails, Restart
<1> QED  BY <1>1, <1>2, TypeCorrect, PTL DEF Spec

(* "If current top seen record somehow is neither, this is a bug": with a  *)
(* sample at every interval of the rate limit it never is, for any plans   *)
(* and stabilization periods.                                              *)
THEOREM RegularSamplesKnowTheLeader == ASSUME RegularPaces PROVE Spec => NeverAwaitsProjection
<1>1. TypeOK /\ RegularInv /\ [Next]_vars
        => [sampledAt' # sampledAt /\ pace.gap = 1 => ready']_vars
  <2> SUFFICES ASSUME TypeOK, RegularInv, Next, sampledAt' # sampledAt, pace.gap = 1
               PROVE  ready'
    OBVIOUS
  <2>1. Sample /\ lastReconciled < now
    BY DEF Next, Reconcile, ReconcileFails, Begin, NotReady, Restart, Report, Tick, observed, status
  <2> QED  BY <2>1, RegularSample
<1> QED  BY <1>1, TypeCorrect, RegularHolds, PTL DEF Spec, NeverAwaitsProjection

(* "This will guarantee that we will use an up to date configuration once  *)
(* every predetermined time window": with a sample at every interval of    *)
(* the rate limit, a plan wanted for two retention periods on end is the   *)
(* one published.                                                          *)
THEOREM RegularSamplesKeepUp == ASSUME RegularPaces PROVE Spec => []UpToDate
<1>1. TypeOK /\ RegularInv => UpToDate
  <2> SUFFICES ASSUME TypeOK, RegularInv, pace.gap = 1,
                      now - steadySince > 2 * HistoryRetentionPeriod
               PROVE  elected = partition.plan
    BY DEF UpToDate
  <2>1. /\ now \in Nat /\ electedAt \in Int /\ steadySince \in Int /\ 0 <= steadySince
        /\ HistoryRetentionPeriod \in Nat \ {0}
    BY Periods, EvaluationAssumption DEF RegularPaces, TypeOK, Times, Never, RegularInv, ClockInv
  <2>2. now - electedAt <= HistoryRetentionPeriod
    BY <2>1 DEF RegularInv, ElectionInv
  <2>3. electedAt > steadySince + HistoryRetentionPeriod
    BY <2>1, <2>2
  <2> QED  BY <2>3 DEF RegularInv, SteadyInv
<1> QED  BY <1>1, TypeCorrect, RegularHolds, PTL
=============================================================================
