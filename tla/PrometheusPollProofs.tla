------------------------- MODULE PrometheusPollProofs -------------------------
(***************************************************************************)
(* What TLAPS proves of the Prometheus Poll, for every shard list, every   *)
(* configuration of metrics, every period and rate limit, and every number *)
(* of changes and failures.                                                *)
(***************************************************************************)
EXTENDS PrometheusPoll, TLAPS

(* The first states are of the right type. *)
LEMMA InitType == Init => TypeOK
<1> SUFFICES ASSUME Init PROVE TypeOK
  OBVIOUS
<1> USE PollAssumption
<1>1. status \in Statuses /\ pollSeen \in [spec : Configs, status : Statuses]
  BY DEF Init, Statuses, Conditions
<1>2. work \in Works
  BY DEF Init, Works, Idle, Conditions
<1>3. timer \in 1..Period \cup 1..RateLimit \cup {None}
  BY DEF Init
<1>4. cool \in 0..RateLimit /\ edits \in 0..MaxEdits /\ faults \in 0..MaxFaults
  BY DEF Init
<1>5. pollLag \subseteq {"status", "spec"} /\ outpaced \in BOOLEAN
       /\ requested \in BOOLEAN /\ missed \in BOOLEAN
  BY DEF Init
<1>6. manager \in Managers /\ managerSeen \in Managers /\ managerEvent \in BOOLEAN /\ spec \in Configs
  BY DEF Init
<1> QED  BY <1>1, <1>2, <1>3, <1>4, <1>5, <1>6 DEF TypeOK

(* What a Reconcile leaves in its record when it turns to its status. *)
LEMMA ReportType ==
  ASSUME NEW asked \in Polled \cup {None}, NEW outcome \in Conditions, NEW fresh \in BOOLEAN,
         ReportNext(asked, outcome, fresh)
  PROVE  /\ work' \in Works
         /\ work'.pc = "report" /\ work'.asked = asked
         /\ work'.outcome = outcome /\ work'.fresh = fresh
  BY DEF ReportNext, Works

(* The record of a Reconcile that waits, and of one that queries. *)
LEMMA IdleType == Idle \in Works /\ Idle.pc = "idle"
  BY DEF Idle, Works, Conditions

LEMMA QueryType ==
  ASSUME NEW fresh \in BOOLEAN, Asked \in Polled,
         work' = [Idle EXCEPT !.pc = "query", !.asked = Asked, !.fresh = fresh]
  PROVE  /\ work' \in Works
         /\ work'.pc = "query" /\ work'.asked = Asked /\ work'.fresh = fresh
  BY IdleType DEF Idle, Works

(* There is a shard list to ask for when the shard manager is ready. *)
LEMMA AskedType ==
  ASSUME TypeOK, Pollable(managerSeen.phase, pollSeen.spec)
  PROVE  Asked \in Polled
  BY DEF TypeOK, Managers, Phases, Pollable, Asked, Polled

(* The timer that results from one that is asked for comes no later. *)
LEMMA EarlierType ==
  ASSUME TypeOK, NEW t \in Nat \ {0}
  PROVE  /\ Earlier(t) \in Nat \ {0} /\ Earlier(t) # None /\ Earlier(t) <= t
         /\ timer # None => Earlier(t) <= timer
         /\ Earlier(t) \in {t, timer}
  BY PollAssumption DEF Earlier, TypeOK

(* A status that is written, or grows older, is one. *)
LEMMA StatusType ==
  ASSUME TypeOK
  PROVE  /\ NewStatus \in Statuses
         /\ Aged(status) \in Statuses /\ Aged(pollSeen.status) \in Statuses
<1> USE PollAssumption
<1>1. NewStatus \in Statuses
  BY DEF NewStatus, TypeOK, Statuses, Works
<1>2. ASSUME NEW st \in Statuses PROVE Aged(st) \in Statuses
  BY <1>2 DEF Aged, Statuses
<1> QED  BY <1>1, <1>2 DEF TypeOK

(* A Reconcile that starts reads only the cache. *)
LEMMA StartType ==
  ASSUME TypeOK, Start
  PROVE  /\ requested' = FALSE /\ missed' = FALSE /\ cool' = RateLimit /\ outpaced' \in BOOLEAN
         /\ UNCHANGED <<manager, spec, status, managerSeen, managerEvent, pollSeen, pollLag, edits>>
         /\ work.pc = "idle" /\ requested /\ cool = 0
<1>1. outpaced' \in BOOLEAN
  BY DEF Start
<1> QED  BY <1>1 DEF Start, Take, server, cache

LEMMA TypeAfterStart ==
  ASSUME TypeOK, Start, work' \in Works, faults' \in 0..MaxFaults,
         timer' \in 1..Period \cup 1..RateLimit \cup {None}
  PROVE  TypeOK'
<1>1. cool' \in 0..RateLimit
  BY StartType, PollAssumption
<1> QED  BY <1>1, StartType DEF TypeOK

(* So is what every step leads to, one case for each action. *)
LEMMA TypePreserved == TypeOK /\ [Next]_vars => TypeOK'
<1> SUFFICES ASSUME TypeOK, [Next]_vars PROVE TypeOK'
  OBVIOUS
<1> USE PollAssumption
<1>1. CASE PutOff
  <2>1. timer' \in 1..Period \cup 1..RateLimit \cup {None}
    <3>1. cool \in Nat \ {0} /\ cool \in 1..RateLimit /\ timer' = Earlier(cool)
      BY <1>1 DEF PutOff, TypeOK
    <3>2. Earlier(cool) \in {cool, timer}
      BY <3>1, EarlierType
    <3> QED  BY <3>1, <3>2 DEF TypeOK
  <2> QED  BY <1>1, <2>1 DEF PutOff, Take, TypeOK, server, cache
<1>2. CASE GiveUp
  <2>1. work' \in Works
    BY <1>2, ReportType DEF GiveUp
  <2>2. faults' \in 0..MaxFaults
    BY <1>2 DEF GiveUp, Fault, TypeOK
  <2> QED  BY <1>2, <2>1, <2>2, TypeAfterStart DEF GiveUp, TypeOK
<1>3. CASE Wait
  <2>1. timer' \in 1..Period \cup 1..RateLimit \cup {None}
    <3>1. pollSeen.status.age \in 0..Period /\ pollSeen.status.age < Period
      BY <1>3 DEF Wait, UpToDate, TypeOK, Statuses
    <3>2. Period - pollSeen.status.age \in 1..Period
      BY <3>1
    <3>3. Earlier(Period - pollSeen.status.age) \in {Period - pollSeen.status.age, timer}
      BY <3>2, EarlierType
    <3> QED  BY <1>3, <3>2, <3>3 DEF Wait, TypeOK
  <2> QED  BY <1>3, <2>1, TypeAfterStart DEF Wait, TypeOK
<1>4. CASE Query
  <2>1. work' \in Works
    BY <1>4, AskedType, QueryType DEF Query
  <2> QED  BY <1>4, <2>1, TypeAfterStart DEF Query, TypeOK
<1>5. CASE Answer
  <2>1. work' \in Works
    BY <1>5, ReportType DEF Answer, TypeOK, Works, Conditions
  <2>2. faults' \in 0..MaxFaults
    BY <1>5 DEF Answer, Fault, TypeOK
  <2> QED  BY <1>5, <2>1, <2>2 DEF Answer, TypeOK, server, cache, clocks
<1>6. CASE Report
  <2>1. timer' \in 1..Period \cup 1..RateLimit \cup {None}
    <3>1. Earlier(Period) \in {Period, timer} /\ Period \in 1..Period
      BY EarlierType
    <3> QED  BY <1>6, <3>1 DEF Report, TypeOK
  <2> QED  BY <1>6, <2>1, StatusType, IdleType DEF Report, PutStatus, TypeOK
<1>7. CASE ReportFails
  <2>1. status' \in Statuses /\ pollLag' \subseteq {"status", "spec"} /\ faults' \in 0..MaxFaults
    <3>1. CASE UNCHANGED <<status, pollLag>>
      BY <1>7, <3>1 DEF ReportFails, Fault, TypeOK
    <3>2. CASE Fault /\ PutStatus
      BY <3>2, StatusType DEF PutStatus, Fault, TypeOK
    <3> QED  BY <1>7, <3>1, <3>2 DEF ReportFails
  <2> QED  BY <1>7, <2>1, IdleType DEF ReportFails, TypeOK, clocks
<1>8. CASE DeliverManager
  <2>1. faults' \in 0..MaxFaults
    BY <1>8 DEF DeliverManager, Fault, TypeOK
  <2>2. requested' \in BOOLEAN /\ missed' \in BOOLEAN
    BY <1>8 DEF DeliverManager, TypeOK
  <2> QED  BY <1>8, <2>1, <2>2 DEF DeliverManager, TypeOK, server, clocks
<1>9. CASE DeliverPoll
  BY <1>9 DEF DeliverPoll, TypeOK, server, clocks
<1>10. CASE Crash
  <2>1. /\ UNCHANGED <<manager, spec, status, edits, outpaced>>
        /\ work' \in Works /\ requested' = TRUE /\ missed' = FALSE /\ timer' = None /\ cool' = 0
        /\ managerSeen' = manager /\ managerEvent' = FALSE /\ pollLag' = {}
    BY <1>10, IdleType DEF Crash, server
  <2>2. /\ pollSeen' \in [spec : Configs, status : Statuses]
        /\ faults' \in 0..MaxFaults /\ cool' \in 0..RateLimit
    BY <1>10, <2>1 DEF Crash, Fault, TypeOK
  <2> QED  BY <2>1, <2>2 DEF TypeOK
<1>11. CASE Tick
  <2>1. timer' \in 1..Period \cup 1..RateLimit \cup {None} /\ requested' \in BOOLEAN
    <3>1. CASE timer = None \/ timer = 1
      BY <1>11, <3>1 DEF Tick, TypeOK
    <3>2. CASE timer # None /\ timer # 1
      <4>1. timer \in 1..Period \cup 1..RateLimit /\ timer' = timer - 1 /\ requested' = requested
        BY <1>11, <3>2 DEF Tick, TypeOK
      <4> QED  BY <3>2, <4>1 DEF TypeOK
    <3> QED  BY <3>1, <3>2
  <2>2. cool' \in 0..RateLimit
    BY <1>11 DEF Tick, TypeOK
  <2>3. status' \in Statuses /\ pollSeen' \in [spec : Configs, status : Statuses]
    BY <1>11, StatusType DEF Tick, TypeOK
  <2> QED  BY <1>11, <2>1, <2>2, <2>3 DEF Tick, TypeOK
<1>12. ASSUME NEW new \in Managers, ChangeManager(new) PROVE TypeOK'
  BY <1>12 DEF ChangeManager, TypeOK, clocks
<1>13. ASSUME NEW config \in Configs, SetMetrics(config) PROVE TypeOK'
  <2>1. work' \in Works
    BY <1>13 DEF SetMetrics, TypeOK, Works
  <2> QED  BY <1>13, <2>1 DEF SetMetrics, TypeOK, clocks
<1>14. CASE UNCHANGED vars
  BY <1>14 DEF vars, TypeOK
<1> QED
  BY <1>1, <1>2, <1>3, <1>4, <1>5, <1>6, <1>7, <1>8, <1>9, <1>10, <1>11, <1>12, <1>13, <1>14
     DEF Next, Reconcile

(* Every state of the poll is of the right type; the timer, when there is  *)
(* one, is never due later than a period or a rate limit from now.         *)
THEOREM TypeCorrect == Spec => []TypeOK
  BY InitType, TypePreserved, PTL DEF Spec

------------------------------------------------------------------------------
(* The inductive invariant. *)

(* A copy in the cache is the server's, or its event is still to come; an  *)
(* older status shows an older poll. Who has values has polled.            *)
CacheInv == /\ ~managerEvent => managerSeen = manager
            /\ "spec" \notin pollLag => pollSeen.spec = spec
            /\ "status" \notin pollLag => pollSeen.status = status
            /\ status.age <= pollSeen.status.age
            /\ status.age < Period => status.values # None

(* The poll will run again, before more than the rate limit has passed. *)
Woken == \/ requested \/ "spec" \in pollLag
         \/ timer # None /\ timer <= cool

(* Or an event of its manager will wake it, or was lost. *)
Excused == Woken \/ managerEvent \/ missed

Present == [list |-> manager.list, config |-> spec]

(* What the poll holds of a manager that it has given up. *)
Unrepaired == {"ErrorFindingShardManager", "ShardManagerNotReady"}

(* What a Reconcile under way has read is true still, or the poll is excused. *)
WorkInv ==
    /\ work.pc = "query" => Excused \/ work.asked = Present
    /\ work.pc = "report" => \/ Excused
                             \/ work.outcome = "Ready" /\ work.asked = Present
                             \/ work.outcome \in {"PollingError", "ErrorFindingShardManager"}
                             \/ ~Pollable(manager.phase, spec)
    /\ work.pc = "query" \/ (work.pc = "report" /\ work.outcome = "Ready") => work.asked \in Polled

(* Optimistic locking: a status is taken only from the Reconcile that read *)
(* the server's, and that one had a reason to poll.                        *)
FreshInv ==
    work.pc # "idle" /\ work.fresh =>
        /\ pollLag = {}
        /\ work.pc = "query" \/ work.outcome = "Ready" =>
              status.age = Period \/ ~ObservedAgain(status.values, work.asked)

(* What Reconcile has found out in a way that brings no timer, or a retry. *)
OutcomeInv ==
    work.pc = "report" =>
        \/ work.outcome \in {"Ready", "PollingError"} \cup Unrepaired
        \/ work.outcome = "MalformedResource" /\ (Woken \/ spec = Malformed)

(* A timer is there, and in time for the values there are. *)
TimerSet == timer # None /\ timer <= Period - status.age /\ status.values # None

(* Whoever has polled last, and not given up, has a timer, whatever has    *)
(* become of its manager since then.                                       *)
TimerInv ==
    /\ work.pc = "idle" /\ ~Woken
    /\ spec # Malformed /\ status.condition \notin Unrepaired
    => TimerSet

(* Who waits without an excuse has polled what is there. *)
Sought == Pollable(manager.phase, spec) /\ status.condition # "ErrorFindingShardManager"

RestInv ==
    work.pc = "idle" /\ ~Excused /\ Sought =>
        /\ TimerSet
        /\ ~outpaced => Pairs(status.values) = Uids[manager.list] \X Ids[spec]

IInv == TypeOK /\ CacheInv /\ WorkInv /\ FreshInv /\ OutcomeInv /\ TimerInv /\ RestInv

(* At rest is who waits and will not run again. *)
LEMMA QuietMeans ==
  ASSUME TypeOK
  PROVE  Quiet <=> work.pc = "idle" /\ ~Woken /\ ~managerEvent
<1>1. timer # None => (timer > cool <=> ~(timer <= cool))
  BY PollAssumption DEF TypeOK
<1> QED  BY <1>1 DEF Quiet, Woken, TypeOK

(* The invariant implies the property: with no event lost by what was      *)
(* polled last, with one lost by the timer.                                *)
LEMMA InvSettled == IInv => SettledIsCurrent
<1> SUFFICES ASSUME IInv, Quiet, Expected
             PROVE  /\ TimerSet
                    /\ ~outpaced /\ ~missed => Pairs(status.values) = Uids[manager.list] \X Ids[spec]
  BY DEF SettledIsCurrent, TimerSet
<1>1. work.pc = "idle" /\ ~Woken /\ ~managerEvent /\ Sought
  BY QuietMeans DEF Expected, Sought, IInv
<1>2. CASE missed
  BY <1>1, <1>2 DEF IInv, TimerInv, Unrepaired, Expected, Sought, Pollable
<1>3. CASE ~missed
  BY <1>1, <1>3 DEF IInv, RestInv, Excused
<1> QED  BY <1>2, <1>3

(* The values show the present shards and metrics when Reconcile says so. *)
LEMMA ObservedMeansPresent ==
  ASSUME NEW values \in Polled, NEW asked, ObservedAgain(values, asked)
  PROVE  Pairs(values) = Uids[asked.list] \X Ids[asked.config]
<1> DEFINE U == Uids[values.list]
           I == Ids[values.config]
<1>1. Pairs(values) = U \X I
  BY PollAssumption DEF Pairs, Polled
<1>2. {pair[1] : pair \in U \X I} = Uids[asked.list] /\ {pair[2] : pair \in U \X I} = Ids[asked.config]
  BY <1>1 DEF ObservedAgain
<1> HIDE DEF U, I
<1>3. CASE U = {} \/ I = {}
  <2>1. U \X I = {}
    BY <1>3
  <2>2. Uids[asked.list] = {}
    BY <1>2, <2>1
  <2> QED  BY <1>1, <2>1, <2>2
<1>4. CASE U # {} /\ I # {}
  <2>1. {pair[1] : pair \in U \X I} = U
    <3>1. ASSUME NEW u \in U PROVE u \in {pair[1] : pair \in U \X I}
      <4>1. PICK i \in I : TRUE
        BY <1>4
      <4>2. <<u, i>> \in U \X I /\ <<u, i>>[1] = u
        BY <3>1, <4>1
      <4> QED  BY <4>2
    <3> QED  BY <3>1
  <2>2. {pair[2] : pair \in U \X I} = I
    <3>1. ASSUME NEW i \in I PROVE i \in {pair[2] : pair \in U \X I}
      <4>1. PICK u \in U : TRUE
        BY <1>4
      <4>2. <<u, i>> \in U \X I /\ <<u, i>>[2] = i
        BY <3>1, <4>1
      <4> QED  BY <4>2
    <3> QED  BY <3>1
  <2> QED  BY <1>1, <1>2, <2>1, <2>2
<1> QED  BY <1>3, <1>4

LEMMA InitInv == Init => IInv
<1> SUFFICES ASSUME Init PROVE IInv
  OBVIOUS
<1>1. TypeOK
  BY InitType
<1>2. CacheInv
  BY PollAssumption DEF Init, CacheInv
<1>3. work.pc = "idle" /\ Excused
  BY IdleType DEF Init, Excused, Woken
<1>4. WorkInv /\ FreshInv /\ OutcomeInv
  BY <1>3 DEF WorkInv, FreshInv, OutcomeInv
<1>5. TimerInv /\ RestInv
  BY <1>3 DEF TimerInv, RestInv, Init, Woken, Excused
<1> QED  BY <1>1, <1>2, <1>4, <1>5 DEF IInv

(* Growing older keeps the order of ages, and changes nothing else. *)
LEMMA AgedKeeps ==
  ASSUME TypeOK
  PROVE  /\ status.age \in 0..Period /\ pollSeen.status.age \in 0..Period
         /\ Aged(status).values = status.values /\ Aged(status).condition = status.condition
         /\ Aged(status).age = IF status.age < Period THEN status.age + 1 ELSE status.age
         /\ Aged(pollSeen.status).age = IF pollSeen.status.age < Period
                                        THEN pollSeen.status.age + 1 ELSE pollSeen.status.age
  BY DEF TypeOK, Statuses, Aged

(* A status taken by the server is new, and its event is to come. *)
LEMMA PutKeeps ==
  ASSUME IInv, work.pc = "report", PutStatus
  PROVE  /\ status' = NewStatus /\ pollLag = {} /\ pollLag' \subseteq {"status"}
         /\ pollLag' = {} => status' = status
         /\ status'.age <= status.age
         /\ work.outcome = "Ready" => /\ status'.values = work.asked /\ work.asked \in Polled
                                      /\ status'.age = 0 /\ status'.condition = "Ready"
         /\ work.outcome # "Ready" => /\ status'.values = status.values
                                      /\ status'.age = status.age
                                      /\ status'.condition = work.outcome
<1>1. work.fresh /\ pollLag = {} /\ status' = NewStatus
  BY DEF PutStatus, IInv, FreshInv
<1>2. pollLag' \subseteq {"status"} /\ (pollLag' = {} => status' = status)
  BY <1>1 DEF PutStatus
<1>3. CASE work.outcome = "Ready"
  BY <1>1, <1>2, <1>3 DEF NewStatus, IInv, TypeOK, Statuses, WorkInv
<1>4. CASE work.outcome # "Ready"
  BY <1>1, <1>2, <1>4 DEF NewStatus, IInv, TypeOK, Statuses
<1> QED  BY <1>1, <1>2, <1>3, <1>4

(* The cache, one case for each action that changes it or the server. *)
LEMMA CachePreserved == IInv /\ [Next]_vars => CacheInv'
<1> SUFFICES ASSUME IInv, [Next]_vars PROVE CacheInv'
  OBVIOUS
<1>1. CASE PutOff \/ GiveUp \/ Wait \/ Query \/ Answer
  <2>1. UNCHANGED <<server, cache>>
    BY <1>1 DEF PutOff, GiveUp, Wait, Query, Answer, Start, Take
  <2> QED  BY <2>1 DEF server, cache, IInv, CacheInv
<1>2. ASSUME work.pc = "report", PutStatus,
             UNCHANGED <<manager, spec, managerSeen, managerEvent, pollSeen>>
      PROVE  CacheInv'
  <2>1. /\ "spec" \notin pollLag /\ "spec" \notin pollLag'
        /\ "status" \notin pollLag' => status' = status
        /\ "status" \notin pollLag
        /\ status'.age <= status.age
        /\ status'.age < Period => status'.values # None
    BY <1>2, PutKeeps, PollAssumption DEF IInv, CacheInv, Polled
  <2>2. status'.age <= pollSeen.status.age
    <3>1. status.age \in Nat /\ pollSeen.status.age \in Nat /\ status'.age \in Nat
      BY <1>2, AgedKeeps, PutKeeps DEF IInv
    <3> QED  BY <2>1, <3>1 DEF IInv, CacheInv
  <2> QED  BY <1>2, <2>1, <2>2 DEF IInv, CacheInv
<1>3. CASE Report
  BY <1>2, <1>3 DEF Report
<1>4. CASE ReportFails
  <2>1. CASE UNCHANGED <<status, pollLag>>
    BY <1>4, <2>1 DEF ReportFails, IInv, CacheInv
  <2>2. CASE PutStatus
    BY <1>2, <1>4, <2>2 DEF ReportFails
  <2> QED  BY <1>4, <2>1, <2>2 DEF ReportFails
<1>5. CASE DeliverManager
  BY <1>5 DEF DeliverManager, server, IInv, CacheInv
<1>6. CASE DeliverPoll \/ Crash
  <2>1. /\ UNCHANGED <<manager, spec, status>>
        /\ pollSeen' = [spec |-> spec, status |-> status]
        /\ managerEvent' => managerEvent
        /\ managerSeen' = manager \/ UNCHANGED <<managerSeen, managerEvent>>
    BY <1>6 DEF DeliverPoll, Crash, server
  <2>2. status.age \in 0..Period
    BY AgedKeeps DEF IInv
  <2> QED  BY <2>1, <2>2 DEF IInv, CacheInv
<1>7. CASE Tick
  <2>1. /\ UNCHANGED <<manager, spec, managerSeen, managerEvent, pollLag>>
        /\ status' = Aged(status) /\ pollSeen'.spec = pollSeen.spec
        /\ pollSeen'.status = Aged(pollSeen.status)
    BY <1>7 DEF Tick, IInv, TypeOK
  <2>2. /\ Aged(status).age <= Aged(pollSeen.status).age
        /\ Aged(status).age < Period => status.age < Period
    BY AgedKeeps DEF IInv, CacheInv
  <2> QED  BY <2>1, <2>2, AgedKeeps DEF IInv, CacheInv
<1>8. ASSUME NEW new \in Managers, ChangeManager(new) PROVE CacheInv'
  BY <1>8 DEF ChangeManager, IInv, CacheInv
<1>9. ASSUME NEW config \in Configs, SetMetrics(config) PROVE CacheInv'
  BY <1>9 DEF SetMetrics, IInv, CacheInv
<1>10. CASE UNCHANGED vars
  BY <1>10 DEF vars, IInv, CacheInv
<1> QED
  BY <1>1, <1>3, <1>4, <1>5, <1>6, <1>7, <1>8, <1>9, <1>10 DEF Next, Reconcile

(* Who will run again stays so until a request is taken. *)
LEMMA WokenStays == IInv /\ [Next]_vars /\ ~Take /\ Woken => Woken'
<1> SUFFICES ASSUME IInv, [Next]_vars, ~Take, Woken PROVE Woken'
  OBVIOUS
<1> USE PollAssumption
<1>1. CASE Answer
  BY <1>1 DEF Answer, cache, clocks, Woken
<1>2. CASE Report
  <2>1. pollLag = {} /\ pollLag' \subseteq {"status"}
    BY <1>2, PutKeeps DEF Report
  <2>2. CASE requested
    BY <1>2, <2>2 DEF Report, Woken
  <2>3. CASE timer # None /\ timer <= cool
    <3>1. /\ Earlier(Period) \in Nat /\ Earlier(Period) # None /\ Earlier(Period) <= timer
          /\ timer \in Nat /\ cool \in Nat
      BY <2>3, EarlierType DEF IInv, TypeOK
    <3> QED  BY <1>2, <2>3, <3>1 DEF Report, Woken
  <2> QED  BY <2>1, <2>2, <2>3 DEF Woken
<1>3. CASE ReportFails \/ DeliverManager \/ Crash
  BY <1>3 DEF ReportFails, DeliverManager, Crash, Woken, clocks
<1>4. CASE DeliverPoll
  BY <1>4 DEF DeliverPoll, clocks, Woken
<1>5. CASE Tick
  <2>1. CASE requested \/ "spec" \in pollLag
    BY <1>5, <2>1 DEF Tick, Woken
  <2>2. CASE timer # None /\ timer <= cool
    <3>1. timer \in Nat \ {0} /\ cool \in Nat
      BY <2>2 DEF IInv, TypeOK
    <3>2. CASE timer = 1
      BY <1>5, <2>2, <3>2 DEF Tick, Woken
    <3>3. CASE timer # 1
      <4>1. timer' = timer - 1 /\ cool' = cool - 1
        BY <1>5, <2>2, <3>1, <3>3 DEF Tick
      <4> QED  BY <2>2, <3>1, <4>1 DEF Woken
    <3> QED  BY <3>2, <3>3
  <2> QED  BY <2>1, <2>2 DEF Woken
<1>6. ASSUME NEW new \in Managers, ChangeManager(new) PROVE Woken'
  BY <1>6 DEF ChangeManager, Woken, clocks
<1>7. ASSUME NEW config \in Configs, SetMetrics(config) PROVE Woken'
  BY <1>7 DEF SetMetrics, Woken
<1>8. CASE UNCHANGED vars
  BY <1>8 DEF vars, Woken
<1> QED
  BY <1>1, <1>2, <1>3, <1>4, <1>5, <1>6, <1>7, <1>8
     DEF Next, Reconcile, PutOff, GiveUp, Wait, Query, Start

(* And who is excused: an event that is delivered wakes the poll or is lost. *)
LEMMA ExcusedStays == IInv /\ [Next]_vars /\ ~Take /\ Excused => Excused'
<1> SUFFICES ASSUME IInv, [Next]_vars, ~Take, managerEvent \/ missed PROVE Excused'
  BY WokenStays DEF Excused
<1>1. CASE Answer \/ Report \/ ReportFails \/ DeliverPoll \/ Tick
  BY <1>1 DEF Answer, Report, ReportFails, DeliverPoll, Tick, cache, Excused
<1>2. CASE DeliverManager \/ Crash
  BY <1>2 DEF DeliverManager, Crash, Excused, Woken
<1>3. ASSUME NEW new \in Managers, ChangeManager(new) PROVE Excused'
  BY <1>3 DEF ChangeManager, Excused
<1>4. ASSUME NEW config \in Configs, SetMetrics(config) PROVE Excused'
  BY <1>4 DEF SetMetrics, Excused
<1>5. CASE UNCHANGED vars
  BY <1>5 DEF vars, Excused
<1> QED
  BY <1>1, <1>2, <1>3, <1>4, <1>5
     DEF Next, Reconcile, PutOff, GiveUp, Wait, Query, Start

(* Optimistic locking: only Query and Answer go on with a fresh copy. *)
LEMMA FreshPreserved == IInv /\ [Next]_vars => FreshInv'
<1> SUFFICES ASSUME IInv, [Next]_vars PROVE FreshInv'
  OBVIOUS
<1>1. CASE PutOff \/ Wait
  <2>1. work'.pc = "idle"
    BY <1>1 DEF PutOff, Wait, Start, Take
  <2> QED  BY <2>1 DEF FreshInv
<1>2. CASE GiveUp
  <2>1. PICK outcome \in Conditions :
           ReportNext(None, outcome, pollLag = {}) /\ outcome # "Ready"
    BY <1>2 DEF GiveUp
  <2>2. work'.pc = "report" /\ work'.outcome # "Ready" /\ (work'.fresh => pollLag = {})
    BY <2>1 DEF ReportNext
  <2>3. UNCHANGED <<server, cache>>
    BY <1>2 DEF GiveUp, Start, Take
  <2> QED  BY <2>2, <2>3 DEF FreshInv, cache
<1>3. CASE Query
  <2>1. /\ work'.pc = "query" /\ work'.asked = Asked /\ (work'.fresh => pollLag = {})
        /\ UNCHANGED <<server, cache>> /\ ~UpToDate
    BY <1>3, AskedType, QueryType DEF Query, Start, Take, IInv
  <2>2. CASE pollLag = {}
    <3>1. pollSeen.status = status /\ status.age \in 0..Period
      BY <2>2, AgedKeeps DEF IInv, CacheInv
    <3>2. status.age = Period \/ ~ObservedAgain(status.values, Asked)
      BY <2>1, <3>1, PollAssumption DEF UpToDate
    <3> QED  BY <2>1, <2>2, <3>2 DEF FreshInv, server, cache
  <2> QED  BY <2>1, <2>2 DEF FreshInv
<1>4. CASE Answer
  <2>1. PICK outcome \in {"Ready", "PollingError"} : ReportNext(work.asked, outcome, work.fresh)
    BY <1>4 DEF Answer
  <2>2. work'.asked = work.asked /\ work'.fresh = work.fresh /\ work'.pc = "report"
    BY <2>1 DEF ReportNext
  <2>3. work.pc = "query" /\ UNCHANGED <<server, cache>>
    BY <1>4 DEF Answer
  <2> QED  BY <2>2, <2>3 DEF IInv, FreshInv, server, cache
<1>5. CASE Report \/ ReportFails \/ Crash
  <2>1. work'.pc = "idle"
    BY <1>5, IdleType DEF Report, ReportFails, Crash
  <2> QED  BY <2>1 DEF FreshInv
<1>6. CASE DeliverManager
  BY <1>6 DEF DeliverManager, server, IInv, FreshInv
<1>7. CASE DeliverPoll
  BY <1>7 DEF DeliverPoll, server, IInv, FreshInv
<1>8. CASE Tick
  <2>1. /\ UNCHANGED <<pollLag, work>> /\ status' = Aged(status)
        /\ status'.values = status.values
        /\ status.age = Period => status'.age = Period
    BY <1>8, AgedKeeps, PollAssumption DEF Tick, IInv
  <2> QED  BY <2>1 DEF IInv, FreshInv
<1>9. ASSUME NEW new \in Managers, ChangeManager(new) PROVE FreshInv'
  BY <1>9 DEF ChangeManager, IInv, FreshInv
<1>10. ASSUME NEW config \in Configs, SetMetrics(config) PROVE FreshInv'
  <2>1. work'.pc = "idle" \/ ~work'.fresh
    BY <1>10 DEF SetMetrics, IInv, TypeOK, Works
  <2> QED  BY <2>1 DEF FreshInv
<1>11. CASE UNCHANGED vars
  BY <1>11 DEF vars, IInv, FreshInv
<1> QED
  BY <1>1, <1>2, <1>3, <1>4, <1>5, <1>6, <1>7, <1>8, <1>9, <1>10, <1>11 DEF Next, Reconcile

(* What the cache shows is present, when no event is to come. *)
LEMMA AskedIsPresent ==
  ASSUME IInv, ~managerEvent, "spec" \notin pollLag
  PROVE  Asked = Present /\ managerSeen = manager /\ pollSeen.spec = spec
  BY DEF IInv, CacheInv, Asked, Present

(* Queries are made of what is there, or of what will soon be seen gone. *)
LEMMA WorkPreserved == IInv /\ [Next]_vars => WorkInv'
<1> SUFFICES ASSUME IInv, [Next]_vars PROVE WorkInv'
  OBVIOUS
<1>1. CASE PutOff \/ Wait
  <2>1. work'.pc = "idle"
    BY <1>1 DEF PutOff, Wait, Start, Take
  <2> QED  BY <2>1 DEF WorkInv
<1>2. CASE GiveUp
  <2>1. /\ UNCHANGED <<manager, spec, managerEvent, pollLag>>
        /\ work'.pc = "report" /\ work'.outcome # "Ready"
        /\ \/ work'.outcome = "ErrorFindingShardManager"
           \/ ~Pollable(managerSeen.phase, pollSeen.spec)
    BY <1>2 DEF GiveUp, Start, Take, server, cache, ReportNext, Pollable
  <2>2. CASE managerEvent \/ "spec" \in pollLag
    BY <2>1, <2>2 DEF WorkInv, Excused, Woken
  <2>3. CASE ~managerEvent /\ "spec" \notin pollLag
    BY <2>1, <2>3, AskedIsPresent DEF WorkInv
  <2> QED  BY <2>2, <2>3
<1>3. CASE Query
  <2>1. /\ work'.pc = "query" /\ work'.asked = Asked /\ Asked \in Polled
        /\ UNCHANGED <<manager, spec, managerEvent, pollLag>>
    BY <1>3, AskedType, QueryType DEF Query, Start, Take, IInv, server, cache
  <2>2. CASE managerEvent \/ "spec" \in pollLag
    BY <2>1, <2>2 DEF WorkInv, Excused, Woken
  <2>3. CASE ~managerEvent /\ "spec" \notin pollLag
    BY <2>1, <2>3, AskedIsPresent DEF WorkInv, Present
  <2> QED  BY <2>2, <2>3
<1>4. CASE Answer
  <2>1. PICK outcome \in {"Ready", "PollingError"} : ReportNext(work.asked, outcome, work.fresh)
    BY <1>4 DEF Answer
  <2>2. /\ work.pc = "query" /\ work'.pc = "report"
        /\ work'.asked = work.asked /\ work'.outcome = outcome
        /\ UNCHANGED <<manager, spec, managerEvent, pollLag, requested, missed, timer, cool>>
    BY <1>4, <2>1 DEF Answer, ReportNext, server, cache, clocks
  <2>3. Excused => Excused'
    BY <2>2 DEF Excused, Woken
  <2> QED  BY <2>2, <2>3 DEF IInv, WorkInv, Present
<1>5. CASE Report \/ ReportFails \/ Crash
  <2>1. work'.pc = "idle"
    BY <1>5, IdleType DEF Report, ReportFails, Crash
  <2> QED  BY <2>1 DEF WorkInv
<1>6. ASSUME UNCHANGED <<work, manager, spec>>, ~Take PROVE WorkInv'
  <2>1. Excused => Excused'
    BY <1>6, ExcusedStays
  <2> QED  BY <1>6, <2>1 DEF IInv, WorkInv, Present
<1>7. CASE DeliverManager \/ DeliverPoll \/ Tick \/ UNCHANGED vars
  <2>1. UNCHANGED <<work, manager, spec>>
    BY <1>7 DEF DeliverManager, DeliverPoll, Tick, server, vars
  <2>2. ~Take
    BY <1>7 DEF DeliverManager, DeliverPoll, Tick, Take, server, cache, vars, IInv, TypeOK
  <2> QED  BY <1>6, <2>1, <2>2
<1>8. ASSUME NEW new \in Managers, ChangeManager(new) PROVE WorkInv'
  BY <1>8 DEF ChangeManager, IInv, WorkInv, Excused, Woken
<1>9. ASSUME NEW config \in Configs, SetMetrics(config) PROVE WorkInv'
  <2>1. Excused'
    BY <1>9 DEF SetMetrics, Excused, Woken
  <2>2. work'.pc = work.pc /\ work'.asked = work.asked /\ work'.outcome = work.outcome
    BY <1>9 DEF SetMetrics, IInv, TypeOK, Works
  <2> QED  BY <2>1, <2>2 DEF IInv, WorkInv
<1> QED
  BY <1>1, <1>2, <1>3, <1>4, <1>5, <1>7, <1>8, <1>9 DEF Next, Reconcile

(* What Reconcile finds out, when it does not poll. *)
LEMMA OutcomePreserved == IInv /\ [Next]_vars => OutcomeInv'
<1> SUFFICES ASSUME IInv, [Next]_vars PROVE OutcomeInv'
  OBVIOUS
<1>1. CASE PutOff \/ Wait
  <2>1. work'.pc = "idle"
    BY <1>1 DEF PutOff, Wait, Start, Take
  <2> QED  BY <2>1 DEF OutcomeInv
<1>2. CASE GiveUp
  <2>1. /\ UNCHANGED <<spec, pollLag>>
        /\ \/ work'.outcome \in Unrepaired
           \/ work'.outcome = "MalformedResource" /\ pollSeen.spec = Malformed
    BY <1>2 DEF GiveUp, Start, Take, server, cache, ReportNext, Unrepaired
  <2>2. "spec" \in pollLag \/ pollSeen.spec = spec
    BY DEF IInv, CacheInv
  <2> QED  BY <2>1, <2>2 DEF OutcomeInv, Woken
<1>3. CASE Query
  <2>1. work'.pc = "query"
    BY <1>3, AskedType, QueryType DEF Query, Start, Take, IInv
  <2> QED  BY <2>1 DEF OutcomeInv
<1>4. CASE Answer
  BY <1>4 DEF Answer, ReportNext, OutcomeInv
<1>5. CASE Report \/ ReportFails \/ Crash
  <2>1. work'.pc = "idle"
    BY <1>5, IdleType DEF Report, ReportFails, Crash
  <2> QED  BY <2>1 DEF OutcomeInv
<1>6. ASSUME UNCHANGED <<work, spec>>, ~Take PROVE OutcomeInv'
  <2>1. Woken => Woken'
    BY <1>6, WokenStays
  <2> QED  BY <1>6, <2>1 DEF IInv, OutcomeInv
<1>7. CASE DeliverManager \/ DeliverPoll \/ Tick \/ UNCHANGED vars
  <2>1. UNCHANGED <<work, spec>>
    BY <1>7 DEF DeliverManager, DeliverPoll, Tick, server, vars
  <2>2. ~Take
    BY <1>7 DEF DeliverManager, DeliverPoll, Tick, Take, server, cache, vars, IInv, TypeOK
  <2> QED  BY <1>6, <2>1, <2>2
<1>8. ASSUME NEW new \in Managers, ChangeManager(new) PROVE OutcomeInv'
  <2>1. UNCHANGED <<work, spec>> /\ ~Take
    BY <1>8 DEF ChangeManager, Take
  <2> QED  BY <1>6, <2>1
<1>9. ASSUME NEW config \in Configs, SetMetrics(config) PROVE OutcomeInv'
  <2>1. work'.pc = work.pc /\ work'.outcome = work.outcome /\ Woken'
    BY <1>9 DEF SetMetrics, IInv, TypeOK, Works, Woken
  <2> QED  BY <2>1 DEF IInv, OutcomeInv
<1> QED
  BY <1>1, <1>2, <1>3, <1>4, <1>5, <1>7, <1>8, <1>9 DEF Next, Reconcile

(* Who falls asleep because the values are good asks for the next look in time. *)
LEMMA WaitSets ==
  ASSUME IInv, Wait
  PROVE  /\ TimerSet' /\ status.values \in Polled
         /\ UNCHANGED <<manager, spec, status, managerEvent, pollLag>>
         /\ outpaced' = ("status" \in pollLag)
<1> USE PollAssumption
<1>1. /\ UNCHANGED <<manager, spec, status, managerEvent, pollLag>>
      /\ outpaced' = ("status" \in pollLag)
  BY DEF Wait, Start, Take, server, cache
<1>2. /\ pollSeen.status.age \in Nat /\ status.age \in Nat
      /\ status.age <= pollSeen.status.age /\ pollSeen.status.age < Period
  BY AgedKeeps DEF Wait, UpToDate, IInv, CacheInv
<1>3. timer' # None /\ timer' \in Nat /\ timer' <= Period - pollSeen.status.age
  <2>1. Period - pollSeen.status.age \in Nat \ {0}
    BY <1>2
  <2> QED  BY <2>1, EarlierType DEF Wait, IInv
<1>4. status.values \in Polled
  BY <1>2 DEF IInv, CacheInv, TypeOK, Statuses
<1>5. timer' <= Period - status'.age
  BY <1>1, <1>2, <1>3
<1>6. status'.values # None
  BY <1>1, <1>4 DEF Polled
<1> QED  BY <1>1, <1>3, <1>4, <1>5, <1>6 DEF TimerSet

(* So does who has just polled. *)
LEMMA ReportSets ==
  ASSUME IInv, Report, work.outcome = "Ready"
  PROVE  TimerSet' /\ status'.values = work.asked /\ work.asked \in Polled
<1> USE PollAssumption
<1>1. status'.values = work.asked /\ work.asked \in Polled /\ status'.age = 0
  BY PutKeeps DEF Report
<1>2. timer' # None /\ timer' \in Nat /\ timer' <= Period
  BY EarlierType DEF Report, IInv
<1>3. timer' <= Period - status'.age
  BY <1>1, <1>2
<1> QED  BY <1>1, <1>2, <1>3 DEF TimerSet, Polled

(* Values and timer grow old together. *)
LEMMA TickKeeps ==
  ASSUME IInv, Tick
  PROVE  /\ UNCHANGED <<manager, spec, work, missed, outpaced, managerEvent, pollLag>> /\ ~Take
         /\ status'.values = status.values /\ status'.condition = status.condition
         /\ TimerSet /\ ~Woken' => TimerSet'
<1> USE PollAssumption
<1>1. /\ UNCHANGED <<manager, spec, work, missed, outpaced, managerEvent, pollLag>>
      /\ status' = Aged(status)
      /\ ~Take
  BY DEF Tick, Take, IInv, TypeOK
<1>2. status'.values = status.values /\ status'.condition = status.condition
  BY <1>1, AgedKeeps DEF IInv
<1>3. ASSUME TimerSet, ~Woken' PROVE TimerSet'
  <2>1. timer # 1
    BY <1>3 DEF Tick, Woken, TimerSet
  <2>2. /\ timer \in Nat \ {0} /\ timer' = timer - 1 /\ timer' \in Nat /\ timer' # None
        /\ timer <= Period - status.age
    BY <1>3, <2>1 DEF Tick, IInv, TypeOK, TimerSet
  <2>3. status.age \in 0..Period /\ status'.age <= status.age + 1 /\ status'.age \in Nat
    BY <1>1, AgedKeeps DEF IInv
  <2>4. timer' <= Period - status'.age
    BY <2>2, <2>3
  <2> QED  BY <1>2, <1>3, <2>2, <2>4 DEF TimerSet
<1> QED  BY <1>1, <1>2, <1>3

(* A Reconcile that is put off leaves a timer that is early enough. *)
LEMMA PutOffWakes == IInv /\ PutOff => Woken'
<1> SUFFICES ASSUME IInv, PutOff PROVE Woken'
  OBVIOUS
<1>1. cool \in Nat \ {0} /\ timer' = Earlier(cool) /\ cool' = cool
  BY PollAssumption DEF PutOff, IInv, TypeOK
<1> QED  BY <1>1, EarlierType DEF IInv, Woken

(* Who falls asleep without having given up has a timer. *)
LEMMA TimerPreserved == IInv /\ [Next]_vars => TimerInv'
<1> SUFFICES ASSUME IInv, [Next]_vars, work'.pc = "idle", ~Woken',
                    spec' # Malformed, status'.condition \notin Unrepaired
             PROVE  TimerSet'
  BY DEF TimerInv
<1>1. ASSUME work.pc = "idle", ~Woken, spec # Malformed, status.condition \notin Unrepaired
      PROVE  TimerSet
  BY <1>1 DEF IInv, TimerInv
<1>2. ~PutOff
  BY PutOffWakes
<1>3. ~GiveUp /\ ~Query /\ ~Answer /\ ~ReportFails /\ ~Crash
  <2>1. ~GiveUp /\ ~Answer
    BY DEF GiveUp, Answer, ReportNext
  <2>2. ~Query
    BY AskedType, QueryType DEF Query, Start, Take, IInv
  <2>3. ~ReportFails /\ ~Crash
    BY DEF ReportFails, Crash, Woken
  <2> QED  BY <2>1, <2>2, <2>3
<1>4. CASE Wait
  BY <1>4, WaitSets
<1>5. CASE Report
  <2>1. /\ work.pc = "report" /\ spec' = spec /\ work.outcome # "PollingError"
        /\ ~Take
    BY <1>5 DEF Report, Retried, Woken, Take
  <2>2. ~Woken
    BY <2>1, WokenStays
  <2>3. work.outcome = "Ready"
    <3>1. work.outcome # "Ready" => work.outcome \notin Unrepaired
      BY <1>5, PutKeeps DEF Report
    <3> QED  BY <2>1, <2>2, <3>1 DEF IInv, OutcomeInv
  <2> QED  BY <1>5, <2>3, ReportSets
<1>6. ASSUME UNCHANGED <<spec, status, work, timer>>, ~Take PROVE TimerSet'
  BY <1>1, <1>6, WokenStays DEF TimerSet
<1>7. CASE DeliverManager \/ DeliverPoll \/ UNCHANGED vars
  <2>1. UNCHANGED <<spec, status, work, timer>>
    BY <1>7 DEF DeliverManager, DeliverPoll, server, clocks, vars
  <2>2. ~Take
    BY <1>7 DEF DeliverManager, DeliverPoll, Take, server, cache, vars, IInv, TypeOK
  <2> QED  BY <1>6, <2>1, <2>2
<1>8. CASE Tick
  BY <1>1, <1>8, TickKeeps, WokenStays
<1>9. ASSUME NEW new \in Managers, ChangeManager(new) PROVE TimerSet'
  <2>1. UNCHANGED <<spec, status, work, timer>> /\ ~Take
    BY <1>9 DEF ChangeManager, Take, clocks
  <2> QED  BY <1>6, <2>1
<1>10. ASSUME NEW config \in Configs, SetMetrics(config) PROVE FALSE
  BY <1>10 DEF SetMetrics, Woken
<1> QED
  BY <1>2, <1>3, <1>4, <1>5, <1>7, <1>8, <1>9, <1>10 DEF Next, Reconcile

(* Who falls asleep without an excuse has values of what is there. *)
LEMMA RestPreserved == IInv /\ [Next]_vars => RestInv'
<1> DEFINE Rested == /\ TimerSet
                     /\ ~outpaced => Pairs(status.values) = Uids[manager.list] \X Ids[spec]
<1> SUFFICES ASSUME IInv, [Next]_vars, work'.pc = "idle", ~Excused', Sought'
             PROVE  Rested'
  BY DEF RestInv
<1>1. ASSUME work.pc = "idle", ~Excused, Sought PROVE Rested
  BY <1>1 DEF IInv, RestInv
<1>2. ~PutOff
  BY PutOffWakes DEF Excused
<1>3. ~GiveUp /\ ~Query /\ ~Answer /\ ~ReportFails /\ ~Crash /\ ~DeliverManager
  <2>1. ~GiveUp /\ ~Answer
    BY DEF GiveUp, Answer, ReportNext
  <2>2. ~Query
    BY AskedType, QueryType DEF Query, Start, Take, IInv
  <2>3. ~ReportFails /\ ~Crash /\ ~DeliverManager
    BY DEF ReportFails, Crash, DeliverManager, Excused, Woken
  <2> QED  BY <2>1, <2>2, <2>3
<1>4. CASE Wait
  <2>1. /\ TimerSet' /\ status.values \in Polled
        /\ UNCHANGED <<manager, spec, status, managerEvent, pollLag>>
        /\ outpaced' = ("status" \in pollLag)
    BY <1>4, WaitSets
  <2>2. Asked = Present /\ UpToDate
    BY <1>4, <2>1, AskedIsPresent DEF Wait, Excused, Woken
  <2>3. ASSUME ~outpaced' PROVE Pairs(status.values) = Uids[manager.list] \X Ids[spec]
    <3>1. pollSeen.status = status
      BY <2>1, <2>3 DEF IInv, CacheInv
    <3>2. ObservedAgain(status.values, Present)
      BY <2>2, <3>1 DEF UpToDate
    <3> QED  BY <2>1, <3>2, ObservedMeansPresent DEF Present
  <2> QED  BY <2>1, <2>3
<1>5. CASE Report
  <2>1. /\ work.pc = "report" /\ UNCHANGED <<manager, spec, managerEvent>>
        /\ work.outcome # "PollingError" /\ ~Take
    BY <1>5 DEF Report, Retried, Excused, Woken, Take
  <2>2. ~Excused
    BY <2>1, ExcusedStays
  <2>3. work.outcome = "Ready" /\ work.asked = Present
    <3>1. work.outcome # "ErrorFindingShardManager"
      BY <1>5, PutKeeps DEF Report, Sought
    <3>2. Pollable(manager.phase, spec)
      BY <2>1 DEF Sought
    <3> QED  BY <2>1, <2>2, <3>1, <3>2 DEF IInv, WorkInv
  <2>4. TimerSet' /\ status'.values = Present /\ Present \in Polled
    BY <1>5, <2>3, ReportSets
  <2>5. Pairs(Present) = Uids[manager.list] \X Ids[spec]
    BY <2>4, PollAssumption DEF Pairs, Present, Polled
  <2> QED  BY <2>1, <2>4, <2>5
<1>6. CASE DeliverPoll
  <2>1. UNCHANGED <<manager, spec, status, work, timer, outpaced>> /\ ~Take
    BY <1>6 DEF DeliverPoll, server, clocks, Take, cache
  <2> QED  BY <1>1, <2>1, ExcusedStays DEF Sought, TimerSet
<1>7. CASE Tick
  <2>1. /\ UNCHANGED <<manager, spec, work, outpaced>> /\ ~Take
        /\ status'.values = status.values /\ status'.condition = status.condition
        /\ TimerSet => TimerSet'
    BY <1>7, TickKeeps DEF Excused
  <2>2. ~Excused /\ Sought
    BY <2>1, ExcusedStays DEF Sought
  <2> QED  BY <1>1, <2>1, <2>2
<1>8. ASSUME NEW new \in Managers, ChangeManager(new) PROVE FALSE
  BY <1>8 DEF ChangeManager, Excused
<1>9. ASSUME NEW config \in Configs, SetMetrics(config) PROVE FALSE
  BY <1>9 DEF SetMetrics, Excused, Woken
<1>10. CASE UNCHANGED vars
  BY <1>1, <1>10 DEF vars, Excused, Woken, Sought, TimerSet
<1> QED
  BY <1>2, <1>3, <1>4, <1>5, <1>6, <1>7, <1>8, <1>9, <1>10 DEF Next, Reconcile

LEMMA InvPreserved == IInv /\ [Next]_vars => IInv'
  BY TypePreserved, CachePreserved, WorkPreserved, FreshPreserved, OutcomePreserved,
     TimerPreserved, RestPreserved
     DEF IInv

LEMMA InvHolds == Spec => []IInv
  BY InitInv, InvPreserved, PTL DEF Spec

(* The poll never falls asleep: whatever is changed, fails, crashes or is  *)
(* put off, at rest it has values of the shards and metrics that there are *)
(* and a timer that brings the next poll within the period; if the last    *)
(* event of its manager was lost, it still has the timer.                  *)
THEOREM NeverAsleepOnOldValues == Spec => []SettledIsCurrent
  BY InvHolds, InvSettled, PTL

(* Values are replaced only when a period old, or of other shards or       *)
(* metrics: no copy of the status that was outdated leads to a poll whose  *)
(* values are taken.                                                       *)
THEOREM PollsAreNotRepeated == Spec => NotPolledTwice
<1> DEFINE Due == status'.age < status.age =>
                     status.age = Period \/ ~ObservedAgain(status.values, work.asked)
<1>1. IInv /\ [Next]_vars => [Due]_vars
  <2> SUFFICES ASSUME IInv, [Next]_vars, status'.age < status.age
               PROVE  status.age = Period \/ ~ObservedAgain(status.values, work.asked)
    OBVIOUS
  <2>1. status.age \in Nat /\ ~(status.age < status.age) /\ ~(Aged(status).age < status.age)
    BY AgedKeeps, PollAssumption DEF IInv
  <2>2. work.pc = "report" /\ PutStatus
    BY <2>1 DEF Next, Reconcile, PutOff, GiveUp, Wait, Query, Answer, Report, ReportFails, Start, Take,
           DeliverManager, DeliverPoll, Crash, Tick, ChangeManager, SetMetrics, server, vars
  <2>3. work.fresh /\ work.outcome = "Ready"
    BY <2>1, <2>2, PutKeeps DEF PutStatus
  <2> QED  BY <2>2, <2>3 DEF IInv, FreshInv
<1>2. [][Due]_vars => NotPolledTwice
  BY PTL DEF NotPolledTwice
<1> QED  BY <1>1, <1>2, InvHolds, PTL DEF Spec
===============================================================================
