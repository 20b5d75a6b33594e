------------------------ MODULE ClusterStatus_proofs ------------------------
(***************************************************************************)
(* Proofs about ClusterStatus, for any defects, any age of the status, any  *)
(* number of attempts and any number of failing calls.                      *)
(***************************************************************************)
EXTENDS ClusterStatus, FiniteSetTheorems, TLAPS

\* The numbers.
LEMMA Numbers ==
  /\ Tests \subseteq {"status", "failover"}
  /\ Lag \in Nat /\ Tries \in Nat /\ Tries >= 1 /\ Faults \in Nat
  /\ 0 \in 0..(Tries - 1) /\ 0 \in 0..Lag /\ 0 \in 0..Faults
BY ClusterStatusAssumption

-----------------------------------------------------------------------------
(* The invariant: where each test is, and what it has stopped by then.      *)

SyncLooks  == {"syncLook", "syncOther", "syncActive"}
SyncLabels == {"syncStop", "syncStart", "syncWait"} \cup SyncLooks
DbLabels   == {"db1Stop", "db1Look", "db2Stop", "quorum", "db1Start", "db2Start", "dbWait"}
BrLabels   == {"br1Stop", "br1Look", "br2Stop", "br3Stop", "brLook"}

\* What has been stopped and not been started again.
Stopped == Services \ (up \cup coming)

StatusInv ==
  test = "status" =>
    /\ pc \in {"healthy"} \cup SyncLabels \cup DbLabels \cup BrLabels \cup {"passed", "failed"}
    /\ pc \in {"healthy", "syncWait", "dbWait"} => Stopped = {}
    /\ pc \in SyncLabels => Stopped \subseteq {"sync1"}
    /\ pc \in DbLabels => Stopped \subseteq {"db1", "db2"}
    /\ pc = "db2Start" => Stopped \subseteq {"db2"}
    /\ pc \in BrLabels \cup {"passed"} => Stopped \subseteq Brokers

\* Between the stop of a broker and its restart.
Looking == {"agents", "degraded", "look1", "look", "start"}

FailoverInv ==
  test = "failover" =>
    /\ pc \in {"validate", "first", "wait", "stop", "passed", "failed"} \cup Looking
    /\ pc \in {"validate", "first", "wait", "stop"} => Stopped = {}
    /\ Stopped \subseteq {stopped} \cap Brokers
    /\ pc \in Looking => stopped \in Brokers
    /\ pc \in {"degraded", "look1"} => agent \in Brokers
    /\ pc \in {"start", "wait", "stop"} => target \in Brokers

IInv == TypeOK /\ StatusInv /\ FailoverInv

-----------------------------------------------------------------------------
(* What the parts of a step may do.                                         *)

\* Labels, as sets.
LEMMA LabelFacts ==
  /\ DOMAIN After = {"healthy", "syncWait", "db1Look", "dbWait", "br1Look", "brLook",
                     "validate", "agents", "degraded", "wait"} \cup SyncLooks
  /\ DOMAIN Stops = {"syncStop", "db1Stop", "db2Stop", "br1Stop", "br2Stop", "br3Stop"}
  /\ DOMAIN Starts = {"syncStart", "db1Start", "db2Start"}
  /\ DOMAIN Following = DOMAIN Stops \cup DOMAIN Starts
BY DEF After, Following, Stops, Starts, SyncLooks

\* A question takes time, but no view gets older than Lag.
LEMMA TickFacts ==
  ASSUME TypeOK, Tick
  PROVE  seen' = seen /\ age' \in [Views -> 0..Lag]
<1>1. seen' = seen /\ age' = [v \in Views |-> IF Fresh(v) THEN 0 ELSE age[v] + 1]
  BY DEF Tick
<1>2. ASSUME NEW v \in Views
      PROVE  (IF Fresh(v) THEN 0 ELSE age[v] + 1) \in 0..Lag
  <2>1. age[v] \in 0..Lag  BY DEF TypeOK
  <2>2. Fresh(v) \/ age[v] < Lag  BY DEF Tick
  <2> QED  BY <2>1, <2>2, Numbers
<1> QED  BY <1>1, <1>2

\* Where a check goes that is not satisfied.
LEMMA UnsatisfiedFacts ==
  ASSUME TypeOK, NEW l, Unsatisfied(l)
  PROVE  /\ \/ pc' = "failed"
            \/ l \in SyncLabels /\ pc' = "syncStop"
            \/ l \in DbLabels /\ pc' = "db1Stop"
         /\ tries' \in 0..(Tries - 1) /\ checks' \in 0..(Tries - 1)
         /\ why' \in {"none", "exhausted", "early", "assert"}
<1> USE Numbers DEF Fail, Repeat, Goto, TypeOK
<1>1. CASE l \in SyncLabels
  <2>1. Repeat("syncStop")  BY <1>1 DEF Unsatisfied, SyncLabels, SyncLooks
  <2>2. CASE checks + 1 < Tries  BY <1>1, <2>1, <2>2
  <2>3. CASE ~(checks + 1 < Tries)  BY <1>1, <2>1, <2>3
  <2> QED  BY <2>2, <2>3
<1>2. CASE l \in DbLabels
  <2>1. Repeat("db1Stop")  BY <1>2 DEF Unsatisfied, DbLabels
  <2>2. CASE checks + 1 < Tries  BY <1>2, <2>1, <2>2
  <2>3. CASE ~(checks + 1 < Tries)  BY <1>2, <2>1, <2>3
  <2> QED  BY <2>2, <2>3
<1>3. CASE l \notin SyncLabels /\ l \notin DbLabels
  <2>1. Fail("exhausted")  BY <1>3 DEF Unsatisfied, SyncLabels, SyncLooks, DbLabels
  <2> QED  BY <2>1
<1> QED  BY <1>1, <1>2, <1>3

\* A question is satisfied, asked again, or the check it is part of fails.
LEMMA AskFacts ==
  ASSUME TypeOK, Ask
  PROVE  /\ pc \in DOMAIN After
         /\ \/ Satisfied(pc) /\ pc' = After[pc]
            \/ pc' = pc
            \/ pc' = "failed"
            \/ pc \in SyncLabels /\ pc' = "syncStop"
            \/ pc \in DbLabels /\ pc' = "db1Stop"
         /\ tries' \in 0..(Tries - 1) /\ checks' \in 0..(Tries - 1)
         /\ why' \in {"none", "exhausted", "early", "assert"}
         /\ seen' = seen /\ age' \in [Views -> 0..Lag]
         /\ UNCHANGED <<world, loop>>
<1> USE Numbers
<1>1. pc \in DOMAIN After /\ Tick /\ UNCHANGED <<world, loop>>  BY DEF Ask
<1>2. CASE Unsatisfied(pc)  BY <1>1, <1>2, TickFacts, UnsatisfiedFacts
<1>3. CASE Satisfied(pc) /\ ~Unsatisfied(pc)
  <2>1. /\ Goto(After[pc]) /\ UNCHANGED why
        /\ checks' = IF pc \in {"syncWait", "dbWait"} THEN 0 ELSE checks
    BY <1>3 DEF Ask
  <2>2. checks' \in 0..(Tries - 1)  BY <2>1 DEF TypeOK
  <2> QED  BY <1>1, <1>3, <2>1, <2>2, TickFacts DEF Goto, TypeOK
<1>4. CASE ~Satisfied(pc) /\ ~Unsatisfied(pc)
  <2>1. tries + 1 < Limit(pc) /\ tries' = tries + 1 /\ UNCHANGED <<pc, checks, why>>
    BY <1>4 DEF Ask
  <2>2. Limit(pc) <= Tries  BY DEF Limit
  <2>3. tries' \in 0..(Tries - 1)  BY <2>1, <2>2 DEF TypeOK, Limit
  <2> QED  BY <1>1, <2>1, <2>3, TickFacts DEF TypeOK
<1> QED  BY <1>2, <1>3, <1>4

\* A call that fails is an attempt, or ends the check that it is part of.
LEMMA CallFacts ==
  ASSUME TypeOK, CallFails
  PROVE  /\ pc \notin {"passed", "failed"}
         /\ \/ pc' = pc
            \/ pc' = "failed"
            \/ pc \in SyncLabels /\ pc' = "syncStop"
            \/ pc \in DbLabels /\ pc' = "db1Stop"
         /\ tries' \in 0..(Tries - 1) /\ checks' \in 0..(Tries - 1)
         /\ why' \in {"none", "exhausted", "early", "assert"}
         /\ seen' = seen /\ age' \in [Views -> 0..Lag]
         /\ faults' = faults + 1 /\ faults' \in 0..Faults
         /\ UNCHANGED <<test, defect, up, coming, agent, loop>>
<1> USE Numbers
<1>1. /\ pc \notin {"passed", "failed"} /\ faults' = faults + 1 /\ faults' \in 0..Faults
      /\ UNCHANGED <<test, defect, up, coming, agent, loop>>
  BY DEF CallFails, TypeOK
<1>2. CASE Tick /\ tries + 1 < Limit(pc) /\ tries' = tries + 1 /\ UNCHANGED <<pc, checks, why>>
  <2>1. tries' \in 0..(Tries - 1)  BY <1>2 DEF TypeOK, Limit
  <2> QED  BY <1>1, <1>2, <2>1, TickFacts DEF TypeOK
<1>3. CASE Unsatisfied(pc) /\ UNCHANGED <<seen, age>>
  BY <1>1, <1>3, UnsatisfiedFacts DEF TypeOK
<1> QED  BY <1>2, <1>3 DEF CallFails

\* A start, and what becomes of it.
LEMMA StartingFacts ==
  ASSUME TypeOK, NEW s \in Services, Starting(s)
  PROVE  /\ up' \cup coming' = up \cup coming \cup {s}
         /\ up' \subseteq Services /\ coming' \subseteq (Dbs \cup Brokers) \ up'
         /\ up \subseteq up' /\ coming \subseteq coming'
         /\ s \in Syncs => UNCHANGED coming
         /\ s \notin Syncs => UNCHANGED up
<1> USE DEF TypeOK, Starting
<1>1. CASE s \in Syncs  BY <1>1 DEF Services, Syncs, Dbs, Brokers
<1>2. CASE s \notin Syncs  BY <1>2 DEF Services
<1> QED  BY <1>1, <1>2

LEMMA ComesUpFacts ==
  ASSUME TypeOK, ComesUp
  PROVE  /\ up' \cup coming' = up \cup coming
         /\ up' \subseteq Services /\ coming' \subseteq (Dbs \cup Brokers) \ up'
         /\ up \subseteq up' /\ coming' \subseteq coming /\ coming # {}
         /\ age' \in [Views -> 0..Lag]
         /\ UNCHANGED <<test, defect, agent, faults, seen, pc, tries, checks, loop, why>>
<1>1. PICK s \in coming : up' = up \cup {s} /\ coming' = coming \ {s}
  BY DEF ComesUp
<1>2. age' \in [Views -> 0..Lag]
  BY Numbers DEF ComesUp, TypeOK
<1> QED  BY <1>1, <1>2 DEF ComesUp, TypeOK, Services

-----------------------------------------------------------------------------
(* Every step keeps the invariant.                                          *)

LEMMA InitInv == Init => IInv
<1> SUFFICES ASSUME Init PROVE IInv
  OBVIOUS
<1>1. test \in {"status", "failover"} /\ Stopped = {}
  BY Numbers DEF Init, Stopped
<1>2. TypeOK  BY Numbers, LabelFacts, <1>1 DEF Init, TypeOK, Labels
<1>3. StatusInv  BY <1>1 DEF Init, StatusInv, SyncLabels, SyncLooks, DbLabels, BrLabels
<1>4. FailoverInv  BY <1>1 DEF Init, FailoverInv, Looking
<1> QED  BY <1>2, <1>3, <1>4 DEF IInv

LEMMA StepInv == IInv /\ [Next]_vars => IInv'
<1> SUFFICES ASSUME IInv, [Next]_vars PROVE IInv'
  OBVIOUS
<1> USE DEF IInv
<1>1. CASE Ask
  <2>1. TypeOK'
    <3>1. pc' \in Labels
      BY <1>1, AskFacts, LabelFacts DEF After, Labels, SyncLabels, SyncLooks, DbLabels, TypeOK
    <3> QED  BY <1>1, <3>1, AskFacts DEF TypeOK, world, loop
  <2>2. StatusInv'
    BY <1>1, AskFacts, LabelFacts
    DEF After, StatusInv, SyncLabels, SyncLooks, DbLabels, BrLabels, Stopped, world, Syncs
  <2>3. FailoverInv'
    <3>1. pc = "agents" /\ Satisfied(pc) => agent \in Brokers
      BY DEF Satisfied, TypeOK
    <3> QED
      BY <1>1, <3>1, AskFacts, LabelFacts
      DEF After, FailoverInv, Looking, SyncLabels, SyncLooks, DbLabels, Stopped, world, loop
  <2> QED  BY <2>1, <2>2, <2>3
<1>2. CASE AskWithoutQuorum
  <2>1. TypeOK'
    BY <1>2, TickFacts, Numbers DEF AskWithoutQuorum, Goto, TypeOK, Labels, Following, world, loop
  <2>2. StatusInv' /\ FailoverInv'
    BY <1>2 DEF AskWithoutQuorum, Goto, StatusInv, FailoverInv, Looking,
      SyncLabels, SyncLooks, DbLabels, BrLabels, Stopped, world, loop
  <2> QED  BY <2>1, <2>2
<1>3. CASE StopService
  <2>1. test = "status"
    BY <1>3, LabelFacts, Numbers DEF StopService, FailoverInv, Looking, TypeOK
  <2>2. Stops[pc] \in Services  BY <1>3, LabelFacts DEF StopService, Stops, Services, Syncs, Dbs, Brokers
  <2>3. Stopped' = Stopped \cup {Stops[pc]}
    BY <1>3, <2>2 DEF StopService, Stopped
  <2>4. pc' = Following[pc]  BY <1>3 DEF StopService, Goto
  <2>5. TypeOK'
    <3>1. pc' \in Labels
      BY <1>3, <2>4, LabelFacts DEF StopService, Following, Labels, SyncLooks
    <3> QED  BY <1>3, <3>1, Numbers DEF StopService, Goto, TypeOK, loop
  <2>6. StatusInv'
    BY <1>3, <2>1, <2>3, <2>4, LabelFacts
    DEF StopService, Following, Stops, StatusInv,
      SyncLabels, SyncLooks, DbLabels, BrLabels, Syncs, Dbs, Brokers
  <2> QED  BY <1>3, <2>1, <2>5, <2>6 DEF FailoverInv, StopService
<1>13. CASE StartService
  <2>1. test = "status"
    BY <1>13, LabelFacts, Numbers DEF StartService, FailoverInv, Looking, TypeOK
  <2>2. Starts[pc] \in Services  BY <1>13, LabelFacts DEF StartService, Starts, Services, Syncs, Dbs
  <2>3. Stopped' = Stopped \ {Starts[pc]}
    BY <1>13, <2>2, StartingFacts DEF StartService, Stopped
  <2>4. pc' = Following[pc]  BY <1>13 DEF StartService, Goto
  <2>5. TypeOK'
    <3>1. pc' \in Labels
      BY <1>13, <2>4, LabelFacts DEF StartService, Following, Labels, SyncLooks
    <3> QED
      BY <1>13, <2>2, <3>1, StartingFacts, Numbers DEF StartService, Goto, TypeOK, loop
  <2>6. StatusInv'
    BY <1>13, <2>1, <2>3, <2>4, LabelFacts
    DEF StartService, Following, Starts, StatusInv,
      SyncLabels, SyncLooks, DbLabels, BrLabels, Syncs, Dbs, Brokers
  <2> QED  BY <1>13, <2>1, <2>5, <2>6 DEF FailoverInv, StartService
<1>4. CASE StopFirst
  <2>1. test = "failover" /\ agent \in Brokers
    BY <1>4, Numbers DEF StopFirst, StatusInv, SyncLabels, SyncLooks, DbLabels, BrLabels, TypeOK
  <2>2. TypeOK'
    BY <1>4, <2>1, Numbers, LabelFacts DEF StopFirst, StopBroker, Goto, TypeOK, Labels
  <2>3. FailoverInv'
    BY <1>4, <2>1 DEF StopFirst, StopBroker, Goto, FailoverInv, Looking, Stopped
  <2> QED  BY <1>4, <2>1, <2>2, <2>3 DEF StatusInv, StopFirst, StopBroker
<1>5. CASE StopNext
  <2>1. test = "failover" /\ target \in Brokers
    BY <1>5, Numbers
    DEF StopNext, StatusInv, FailoverInv, SyncLabels, SyncLooks, DbLabels, BrLabels, TypeOK
  <2>2. TypeOK'
    BY <1>5, <2>1, Numbers, LabelFacts DEF StopNext, StopBroker, Goto, TypeOK, Labels
  <2>3. FailoverInv'
    BY <1>5, <2>1 DEF StopNext, StopBroker, Goto, FailoverInv, Looking, Stopped
  <2> QED  BY <1>5, <2>1, <2>2, <2>3 DEF StatusInv, StopNext, StopBroker
<1>6. CASE StartBroker
  <2>1. test = "failover" /\ stopped \in Brokers
    BY <1>6, Numbers
    DEF StartBroker, StatusInv, FailoverInv, SyncLabels, SyncLooks, DbLabels, BrLabels, Looking, TypeOK
  <2>2. Stopped' = Stopped \ {stopped}
    BY <1>6, <2>1, StartingFacts DEF StartBroker, Stopped, Services
  <2>3. TypeOK'
    BY <1>6, <2>1, StartingFacts, Numbers, LabelFacts
    DEF StartBroker, Goto, TypeOK, Labels, Services
  <2>4. FailoverInv'
    BY <1>6, <2>1, <2>2 DEF StartBroker, Goto, FailoverInv, Looking
  <2> QED  BY <1>6, <2>1, <2>3, <2>4 DEF StatusInv, StartBroker
<1>7. CASE LookForOther
  <2>1. test = "failover"
    BY <1>7, Numbers DEF LookForOther, StatusInv, SyncLabels, SyncLooks, DbLabels, BrLabels, TypeOK
  <2>2. /\ pc' \in {"failed", "start"} /\ tries' = 0 /\ checks' = checks
        /\ why' \in {why, "assert"} /\ target' = agent
        /\ UNCHANGED <<world, seen, age, stopped, restarted>>
    BY <1>7 DEF LookForOther, Fail, Goto
  <2>3. TypeOK'  BY <2>2, Numbers DEF TypeOK, Labels, world
  <2>4. FailoverInv'
    BY <1>7, <2>1, <2>2 DEF LookForOther, FailoverInv, Looking, Stopped, world
  <2> QED  BY <2>1, <2>2, <2>3, <2>4 DEF StatusInv, world
<1>8. CASE LookForRestarted
  <2>1. test = "failover"
    BY <1>8, Numbers DEF LookForRestarted, StatusInv, SyncLabels, SyncLooks, DbLabels, BrLabels, TypeOK
  <2>2. /\ pc' \in {"failed", "start", "passed"} /\ tries' = 0 /\ checks' = checks
        /\ why' \in {why, "assert", "early"}
        /\ target' \in Brokers \cup {Nobody} /\ (pc' = "start" => target' \in Brokers)
        /\ UNCHANGED <<world, seen, age, stopped, restarted>>
    BY <1>8 DEF LookForRestarted, Fail, Goto, TypeOK
  <2>3. TypeOK'  BY <2>2, Numbers DEF TypeOK, Labels, world
  <2>4. FailoverInv'
    BY <1>8, <2>1, <2>2 DEF LookForRestarted, FailoverInv, Looking, Stopped, world
  <2> QED  BY <2>1, <2>2, <2>3, <2>4 DEF StatusInv, world
<1>9. CASE CallFails
  <2>1. TypeOK'
    BY <1>9, CallFacts, LabelFacts DEF TypeOK, Labels, SyncLooks, loop
  <2>2. StatusInv'
    BY <1>9, CallFacts DEF StatusInv, SyncLabels, SyncLooks, DbLabels, BrLabels, Stopped
  <2>3. FailoverInv'
    BY <1>9, CallFacts DEF FailoverInv, Looking, SyncLabels, SyncLooks, DbLabels, Stopped, loop
  <2> QED  BY <2>1, <2>2, <2>3
<1>14. CASE ComesUp
  <2>1. Stopped' = Stopped  BY <1>14, ComesUpFacts DEF Stopped
  <2>2. TypeOK'  BY <1>14, ComesUpFacts DEF TypeOK, loop
  <2> QED  BY <1>14, <2>1, <2>2, ComesUpFacts DEF StatusInv, FailoverInv, loop
<1>10. CASE AgentConnects
  <2>1. agent' \in Brokers  BY <1>10 DEF AgentConnects
  <2>2. UNCHANGED <<test, defect, up, coming, faults, seen, age, pc, tries, checks, loop, why>>
    BY <1>10 DEF AgentConnects
  <2> QED
    BY <2>1, <2>2 DEF TypeOK, StatusInv, FailoverInv, Stopped, loop
<1>11. ASSUME NEW v \in Views, Gather(v) PROVE IInv'
  <2>1. seen' \in [Views -> SUBSET Services] /\ age' \in [Views -> 0..Lag]
    BY <1>11, Numbers DEF Gather, TypeOK
  <2>2. UNCHANGED <<world, pc, tries, checks, loop, why>>
    BY <1>11 DEF Gather
  <2> QED
    BY <2>1, <2>2 DEF TypeOK, StatusInv, FailoverInv, Stopped, loop, world
<1>12. CASE UNCHANGED vars
  BY <1>12 DEF vars, TypeOK, StatusInv, FailoverInv, Stopped, loop, world
<1> QED
  BY <1>1, <1>2, <1>3, <1>4, <1>5, <1>6, <1>7, <1>8, <1>9, <1>10, <1>11, <1>12,
    <1>13, <1>14
  DEF Next, Step

-----------------------------------------------------------------------------
(* The theorems.                                                            *)

\* The variables keep their types: no question and no check is repeated more
\* often than its retry allows.
THEOREM TypeCorrect == Spec => []TypeOK
BY InitInv, StepInv, PTL DEF Spec, IInv

-----------------------------------------------------------------------------
(* What the managers can know.                                              *)

\* In the failover test an agent that is connected is connected to a broker that
\* runs; from its stop to its restart the broker does not run, and the one to be
\* stopped next has not been restarted.
AgentInv ==
  test = "failover" =>
    /\ agent \in up \cup {Nobody}
    /\ pc \in Looking => stopped \notin up \cup coming
    /\ pc \in {"validate", "first", "agents", "degraded", "look1"} => restarted = {}
    /\ pc \in {"start", "wait", "stop"} => target \notin restarted
    /\ pc = "start" => target \in up
    /\ pc = "look" => stopped \notin restarted

\* A test that meets a defect gets no further than the question it is found by.
DefectInv ==
  /\ test = "status" =>
       /\ defect = "sync" => pc \in {"healthy", "syncStop", "syncLook", "failed"}
       /\ defect = "db" =>
            pc \in {"healthy", "db1Stop", "db1Look", "failed"} \cup SyncLabels
       /\ defect = "broker" => pc \notin {"br2Stop", "br3Stop", "brLook", "passed"}
  /\ test = "failover" =>
       /\ defect = "broker" => pc \in {"validate", "first", "agents", "degraded", "failed"}
       /\ defect = "shuns" => agent \notin restarted /\ pc # "passed"

\* A view that is out of date has been so for as long as the question is repeated.
AgeInv == \A v \in Views : Fresh(v) \/ age[v] >= tries

\* What has been started and does not run yet.  A status in which nothing is missing
\* has been gathered since it runs: in the check of the databases, because one was
\* seen to be missing; in the failover test only after the first stop, the one time
\* that it asks for the degraded status.
ComingInv ==
  /\ test = "status" =>
       /\ coming \subseteq {"db1", "db2"}
       /\ pc \notin DbLabels \cup {"failed"} => coming = {}
       /\ pc \in {"db1Look", "db2Stop"} => "db1" \notin up \cup coming
       /\ pc \in {"db2Stop", "quorum", "db1Start", "db2Start", "dbWait"} =>
            (Dbs \subseteq seen["mgr1"] => Dbs \subseteq up)
  /\ test = "failover" =>
       /\ coming \subseteq restarted
       /\ pc \in {"validate", "first"} => stopped = Nobody
       /\ pc = "look" => restarted # {}
       /\ pc = "start" => stopped \notin restarted
       /\ pc \in {"wait", "stop"} => stopped \in restarted
       /\ restarted = {} => Services \ {stopped} \subseteq seen["mgr1"]
       /\ pc = "look1" => stopped \notin seen["mgr1"]
       /\ pc = "start" /\ restarted = {} => stopped \notin seen["mgr1"]
       /\ pc = "wait" /\ restarted = {stopped} /\ stopped \in seen["mgr1"] => stopped \in up
       /\ pc = "stop" /\ restarted = {stopped} => Services \subseteq up
       /\ \A b \in Brokers : restarted \subseteq {b} => Services \ up \subseteq {stopped}

-----------------------------------------------------------------------------
(* While nothing is wrong.                                                  *)

Calm == defect \in {"none", "quorum"} /\ faults = 0

\* What runs is exactly what has not been stopped.
CalmRuns ==
  test = "status" =>
    /\ pc \in {"db1Stop", "db1Look", "db2Stop"} => coming = {}
    /\ pc = "syncStop" => checks = 0 \/ up = Services \ {"sync1"}
    /\ pc \in SyncLooks \cup {"syncStart"} => up = Services \ {"sync1"}
    /\ pc \in {"db1Stop", "br1Stop"} => up = Services
    /\ pc \in {"db1Look", "db2Stop"} => up = Services \ {"db1"}
    /\ pc \in {"br1Look", "br2Stop"} => up = Services \ {"br1"}
    /\ pc = "br3Stop" => up = Services \ {"br1", "br2"}
    /\ pc = "brLook" => up = Services \ Brokers

\* The check of the file synchronisation asks each question once in an attempt.
CalmAges ==
  pc \in {"syncStop"} \cup SyncLooks =>
    \A v \in Views : Fresh(v) \/ age[v] >= checks

\* Until the second database is stopped nobody has seen another but the first down.
CalmDbs ==
  pc \in {"healthy", "db1Stop", "db1Look", "db2Stop"} \cup SyncLabels =>
    \A v \in Views : Dbs \ seen[v] \subseteq {"db1"}

CalmEnd ==
  /\ pc = "failed" => test = "failover" /\ why = "early"
  /\ test = "failover" \/ pc \notin SyncLabels => checks = 0

CalmInv == Calm => CalmRuns /\ CalmAges /\ CalmDbs /\ CalmEnd

-----------------------------------------------------------------------------
(* What a status says.                                                      *)

\* The counts that the tests can meet.
LEMMA Counts ==
  /\ Cardinality({}) = 0
  /\ \A x : Cardinality({x}) = 1
  /\ Cardinality(Brokers) = 3 /\ Cardinality(Dbs) = 3 /\ Cardinality({"db2", "db3"}) = 2
<1>1. \A x, y : x # y => Cardinality({x, y}) = 2
  <2> SUFFICES ASSUME NEW x, NEW y, x # y PROVE Cardinality({x, y}) = 2
    OBVIOUS
  <2>1. Cardinality({x} \cup {y}) = Cardinality({x}) + 1
    BY FS_AddElement, FS_Singleton
  <2>2. {x} \cup {y} = {x, y}  OBVIOUS
  <2> QED  BY <2>1, <2>2, FS_Singleton
<1>2. ASSUME NEW x, NEW y, NEW z, x # y, x # z, y # z PROVE Cardinality({x, y, z}) = 3
  <2>1. IsFiniteSet({x, y})
    <3>1. IsFiniteSet({x} \cup {y})  BY FS_Singleton, FS_AddElement
    <3>2. {x} \cup {y} = {x, y}  OBVIOUS
    <3> QED  BY <3>1, <3>2
  <2>2. Cardinality({x, y} \cup {z}) = Cardinality({x, y}) + 1  BY <2>1, FS_AddElement, <1>2
  <2>3. {x, y} \cup {z} = {x, y, z}  OBVIOUS
  <2>4. Cardinality({x, y}) = 2  BY <1>1, <1>2
  <2> QED  BY <2>2, <2>3, <2>4
<1>3. Cardinality(Brokers) = 3  BY <1>2 DEF Brokers
<1>4. Cardinality(Dbs) = 3  BY <1>2 DEF Dbs
<1> QED  BY <1>1, <1>3, <1>4, FS_EmptySet, FS_Singleton

\* A kind of which nothing is known to be down is said to be well.
LEMMA NothingDown ==
  ASSUME NEW v, NEW kind, NEW n \in Nat, Down(v, kind) = {}
  PROVE  Status(v, kind, n) = "OK"
BY Counts DEF Status

\* And only then.
LEMMA AllSeen ==
  ASSUME TypeOK, NEW v, NEW n \in Nat, NEW kind \in {Syncs, Dbs, Brokers},
         Status(v, kind, n) = "OK", Hidden \cap kind = {}
  PROVE  kind \subseteq seen[v]
<1>1. Cardinality(Down(v, kind)) = 0
  <2>1. \/ Cardinality(Down(v, kind)) = 0
        \/ Status(v, kind, n) = "Degraded" \/ Status(v, kind, n) = "Fail"
    BY DEF Status
  <2> QED  BY <2>1
<1>2. IsFiniteSet(kind)
  <2>1. IsFiniteSet({"sync1"} \cup {"sync2"})  BY FS_Singleton, FS_Union
  <2>2. IsFiniteSet({"db1"} \cup {"db2"} \cup {"db3"})  BY FS_Singleton, FS_Union
  <2>3. IsFiniteSet({"br1"} \cup {"br2"} \cup {"br3"})  BY FS_Singleton, FS_Union
  <2>4. Syncs = {"sync1"} \cup {"sync2"} /\ Dbs = {"db1"} \cup {"db2"} \cup {"db3"}
        /\ Brokers = {"br1"} \cup {"br2"} \cup {"br3"}
    BY DEF Syncs, Dbs, Brokers
  <2> QED  BY <2>1, <2>2, <2>3, <2>4
<1>3. IsFiniteSet(Down(v, kind))  BY <1>2, FS_Subset DEF Down
<1>4. Down(v, kind) = {}  BY <1>1, <1>3, FS_EmptySet
<1> QED  BY <1>4 DEF Down

\* With one down it is degraded.
LEMMA OneDown ==
  ASSUME NEW v, NEW kind, NEW n \in Nat \ {0}, NEW s, Down(v, kind) = {s}
  PROVE  Status(v, kind, n) = "Degraded"
<1>1. Cardinality(Down(v, kind)) = 1  BY Counts
<1> QED  BY <1>1 DEF Status

\* A view that is up to date knows what is down, where no defect hides it.
LEMMA UpToDate ==
  ASSUME NEW v \in Views, NEW kind, Hidden = {}, seen[v] = up
  PROVE  Down(v, kind) = kind \ up
BY DEF Down

\* The defects that hide nothing, and those that do.
LEMMA HiddenFacts ==
  /\ defect \in {"none", "quorum", "shuns"} => Hidden = {}
  /\ defect = "sync" => Hidden = Syncs
  /\ defect = "db" => Hidden = Dbs
  /\ defect = "broker" => Hidden = Brokers
BY DEF Hidden

-----------------------------------------------------------------------------
(* Questions.                                                               *)

\* A question ends in one of four ways.
LEMMA AskWays ==
  ASSUME Ask
  PROVE  /\ pc \in DOMAIN After /\ Tick /\ UNCHANGED <<world, loop>>
         /\ \/ /\ Satisfied(pc) /\ pc' = After[pc] /\ tries' = 0 /\ why' = why
               /\ checks' = IF pc \in {"syncWait", "dbWait"} THEN 0 ELSE checks
               /\ pc = "db1Look" => "db1" \in Down("mgr1", Dbs)
            \/ /\ ~Satisfied(pc) /\ tries + 1 < Limit(pc)
               /\ tries' = tries + 1 /\ UNCHANGED <<pc, checks, why>>
            \/ ~Satisfied(pc) /\ ~(tries + 1 < Limit(pc)) /\ Unsatisfied(pc)
            \/ /\ pc = "db1Look" /\ Satisfied(pc) /\ "db1" \notin Down("mgr1", Dbs)
               /\ Unsatisfied(pc)
<1>1. CASE Satisfied(pc)
  <2>1. CASE pc = "db1Look" /\ "db1" \notin Down("mgr1", Dbs)  BY <1>1, <2>1 DEF Ask
  <2>2. CASE ~(pc = "db1Look" /\ "db1" \notin Down("mgr1", Dbs))
    BY <1>1, <2>2 DEF Ask, Goto
  <2> QED  BY <2>1, <2>2
<1>2. CASE ~Satisfied(pc)
  <2>1. CASE tries + 1 < Limit(pc)  BY <1>2, <2>1 DEF Ask
  <2>2. CASE ~(tries + 1 < Limit(pc))  BY <1>2, <2>2 DEF Ask
  <2> QED  BY <2>1, <2>2
<1> QED  BY <1>1, <1>2

\* A question that follows another starts to be repeated anew.
LEMMA UnsatisfiedRestarts ==
  ASSUME NEW l, Unsatisfied(l)
  PROVE  tries' = 0
<1> USE DEF Fail, Repeat, Goto
<1>1. CASE l \in SyncLabels
  <2>1. Repeat("syncStop")  BY <1>1 DEF Unsatisfied, SyncLabels, SyncLooks
  <2> QED  BY <2>1
<1>2. CASE l \in DbLabels
  <2>1. Repeat("db1Stop")  BY <1>2 DEF Unsatisfied, DbLabels
  <2> QED  BY <2>1
<1>3. CASE l \notin SyncLabels /\ l \notin DbLabels
  <2>1. Fail("exhausted")  BY <1>3 DEF Unsatisfied, SyncLabels, SyncLooks, DbLabels
  <2> QED  BY <2>1
<1> QED  BY <1>1, <1>2, <1>3

\* While a question is asked, a view that is out of date gets older.
LEMMA TickAges ==
  ASSUME TypeOK, Tick, UNCHANGED up, NEW v \in Views
  PROVE  /\ seen'[v] = seen[v]
         /\ Fresh(v) \/ (age[v] < Lag /\ age'[v] = age[v] + 1)
BY DEF Tick, TypeOK

\* No view stays out of date while a question is repeated Lag times.
LEMMA AgeStep == TypeOK /\ AgeInv /\ [Next]_vars => AgeInv'
<1> SUFFICES ASSUME TypeOK, AgeInv, [Next]_vars PROVE AgeInv'
  OBVIOUS
<1>0. ASSUME tries' = 0, age' \in [Views -> Nat] PROVE AgeInv'
  <2>1. ASSUME NEW v \in Views PROVE age'[v] >= tries'  BY <1>0
  <2> QED  BY <2>1 DEF AgeInv
<1>a. age \in [Views -> Nat]  BY Numbers DEF TypeOK
<1>1. CASE Ask
  <2>1. Tick /\ UNCHANGED <<up, coming>>  BY <1>1 DEF Ask, world
  <2>2. age' \in [Views -> Nat]  BY <2>1, TickFacts, Numbers
  <2>3. CASE tries' = 0  BY <1>0, <2>2, <2>3
  <2>4. CASE tries' # 0
    <3>1. tries' = tries + 1  BY <1>1, <2>4, AskWays, UnsatisfiedRestarts
    <3>2. ASSUME NEW v \in Views, ~Fresh(v)' PROVE age'[v] >= tries'
      <4>1. ~Fresh(v)  BY <2>1, <3>2, TickAges DEF Fresh
      <4>2. age'[v] = age[v] + 1  BY <2>1, <4>1, TickAges
      <4>3. age[v] >= tries  BY <4>1 DEF AgeInv
      <4> QED  BY <3>1, <4>2, <4>3, <1>a DEF TypeOK
    <3> QED  BY <3>2 DEF AgeInv
  <2> QED  BY <2>3, <2>4
<1>2. CASE AskWithoutQuorum
  BY <1>0, <1>2, TickFacts, Numbers DEF AskWithoutQuorum, Goto
<1>3. CASE StopService  BY <1>0, <1>a, <1>3 DEF StopService, Goto
<1>13. CASE StartService  BY <1>0, <1>a, <1>13 DEF StartService, Goto
<1>4. CASE StopFirst  BY <1>0, <1>a, <1>4 DEF StopFirst, StopBroker, Goto
<1>5. CASE StopNext  BY <1>0, <1>a, <1>5 DEF StopNext, StopBroker, Goto
<1>6. CASE StartBroker  BY <1>0, <1>a, <1>6 DEF StartBroker, Goto
<1>7. CASE LookForOther  BY <1>0, <1>a, <1>7 DEF LookForOther, Fail, Goto
<1>8. CASE LookForRestarted  BY <1>0, <1>a, <1>8 DEF LookForRestarted, Fail, Goto
<1>9. CASE CallFails
  <2>1. UNCHANGED <<up, coming>>  BY <1>9, CallFacts
  <2>2. CASE Unsatisfied(pc) /\ UNCHANGED <<seen, age>>
    BY <1>0, <1>a, <2>2, UnsatisfiedRestarts
  <2>3. CASE Tick /\ tries' = tries + 1
    <3>1. ASSUME NEW v \in Views, ~Fresh(v)' PROVE age'[v] >= tries'
      <4>1. ~Fresh(v)  BY <2>1, <2>3, <3>1, TickAges DEF Fresh
      <4>2. age'[v] = age[v] + 1  BY <2>1, <2>3, <4>1, TickAges
      <4>3. age[v] >= tries  BY <4>1 DEF AgeInv
      <4> QED  BY <2>3, <4>2, <4>3, <1>a DEF TypeOK
    <3> QED  BY <3>1 DEF AgeInv
  <2> QED  BY <1>9, <2>2, <2>3 DEF CallFails
<1>14. CASE ComesUp
  <2>1. tries' = tries /\ seen' = seen /\ coming # {}  BY <1>14, ComesUpFacts
  <2>2. ASSUME NEW v \in Views, ~Fresh(v)' PROVE age'[v] >= tries'
    <3>1. age'[v] = age[v]  BY <1>14, <2>1, <2>2 DEF ComesUp, Fresh
    <3>2. age[v] >= tries  BY <2>1 DEF AgeInv, Fresh
    <3> QED  BY <2>1, <3>1, <3>2
  <2> QED  BY <2>2 DEF AgeInv
<1>10. CASE AgentConnects  BY <1>10 DEF AgentConnects, AgeInv, Fresh
<1>11. ASSUME NEW w \in Views, Gather(w) PROVE AgeInv'
  <2>1. ASSUME NEW v \in Views PROVE Fresh(v)' \/ age'[v] >= tries'
    <3>1. CASE v = w
      <4>1. CASE coming = {}  BY <1>11, <3>1, <4>1 DEF Gather, TypeOK, world, Fresh
      <4>2. CASE coming # {}  BY <1>11, <3>1, <4>2 DEF Gather, world, AgeInv, Fresh
      <4> QED  BY <4>1, <4>2
    <3>2. CASE v # w
      <4>1. age'[v] = age[v]  BY <1>11, <3>2 DEF Gather, TypeOK
      <4> QED  BY <1>11, <3>2, <4>1 DEF Gather, TypeOK, world, AgeInv, Fresh
    <3> QED  BY <3>1, <3>2
  <2> QED  BY <2>1 DEF AgeInv
<1>12. CASE UNCHANGED vars  BY <1>12 DEF vars, world, AgeInv, Fresh
<1> QED
  BY <1>1, <1>2, <1>3, <1>4, <1>5, <1>6, <1>7, <1>8, <1>9, <1>10, <1>11, <1>12,
    <1>13, <1>14
  DEF Next, Step

-----------------------------------------------------------------------------
(* The agent, and what the defects hide.                                    *)

\* Which test the labels belong to.
LEMMA TestOfLabel ==
  ASSUME TypeOK, StatusInv, FailoverInv
  PROVE  /\ pc \in SyncLabels \cup DbLabels \cup BrLabels \cup {"healthy"} => test = "status"
         /\ pc \in Looking \cup {"validate", "first", "wait", "stop"} => test = "failover"
         /\ test \in {"status", "failover"}
BY Numbers DEF TypeOK, StatusInv, FailoverInv, SyncLabels, SyncLooks, DbLabels, BrLabels, Looking

\* An agent is connected to what runs, and a broker is stopped once.
LEMMA AgentStep ==
  TypeOK /\ FailoverInv /\ AgentInv /\ [Next]_vars => AgentInv'
<1> SUFFICES ASSUME TypeOK, FailoverInv, AgentInv, test = "failover", [Next]_vars
             PROVE  AgentInv'
  BY DEF AgentInv, Next, Step, Ask, AskWithoutQuorum, StopService, StartService, StopFirst,
    StopNext, StopBroker, StartBroker, LookForOther, LookForRestarted, CallFails, ComesUp,
    AgentConnects, Gather, vars, world
<1>1. CASE Ask
  <2>1. pc \in {"validate", "agents", "degraded", "wait"}
    BY <1>1, AskFacts, LabelFacts DEF FailoverInv, Looking, SyncLooks
  <2>2. pc' \in {pc, "failed", After[pc]}
    BY <1>1, <2>1, AskFacts DEF SyncLabels, SyncLooks, DbLabels
  <2> QED  BY <1>1, <2>1, <2>2, AskFacts DEF AgentInv, After, Looking, world, loop
<1>2. CASE AskWithoutQuorum  BY <1>2 DEF AskWithoutQuorum, FailoverInv, Looking
<1>3. CASE StopService  BY <1>3, LabelFacts DEF StopService, FailoverInv, Looking
<1>13. CASE StartService  BY <1>13, LabelFacts DEF StartService, FailoverInv, Looking
<1>4. CASE StopFirst
  BY <1>4 DEF StopFirst, StopBroker, Goto, AgentInv, Looking, TypeOK, Brokers, Nobody
<1>5. CASE StopNext
  BY <1>5 DEF StopNext, StopBroker, Goto, AgentInv, Looking, FailoverInv
<1>6. CASE StartBroker
  <2>1. target # stopped /\ stopped \in Services
    BY <1>6 DEF StartBroker, AgentInv, FailoverInv, Looking, Services
  <2>2. up \subseteq up'  BY <1>6, <2>1, StartingFacts DEF StartBroker
  <2> QED  BY <1>6, <2>1, <2>2 DEF StartBroker, Goto, AgentInv, Looking
<1>7. CASE LookForOther
  <2>1. /\ pc' = "failed" \/ (pc' = "start" /\ agent # stopped)
        /\ target' = agent /\ UNCHANGED <<test, up, coming, agent, stopped, restarted>>
    BY <1>7 DEF LookForOther, Fail, Goto, world
  <2>2. agent \in Brokers /\ restarted = {} /\ stopped \notin up \cup coming /\ agent \in up
    BY <1>7 DEF LookForOther, FailoverInv, AgentInv, Looking, Brokers, Nobody
  <2> QED  BY <2>1, <2>2 DEF AgentInv, Looking
<1>8. CASE LookForRestarted
  <2>1. UNCHANGED <<test, up, coming, agent, stopped, restarted>>
    BY <1>8 DEF LookForRestarted, world
  <2>2. \/ pc' \in {"failed", "passed"}
        \/ pc' = "start" /\ agent # Nobody /\ agent \notin restarted /\ target' = agent
    BY <1>8 DEF LookForRestarted, Fail, Goto
  <2>3. pc = "look"  BY <1>8 DEF LookForRestarted
  <2> QED  BY <2>1, <2>2, <2>3 DEF AgentInv, Looking
<1>9. CASE CallFails
  <2>1. pc' \in {pc, "failed"}
    BY <1>9, CallFacts DEF FailoverInv, Looking, SyncLabels, SyncLooks, DbLabels
  <2> QED  BY <1>9, <2>1, CallFacts DEF AgentInv, Looking, loop
<1>14. CASE ComesUp  BY <1>14, ComesUpFacts DEF AgentInv, Looking, loop
<1>10. CASE AgentConnects  BY <1>10 DEF AgentConnects, AgentInv, Looking, loop
<1>11. ASSUME NEW v \in Views, Gather(v) PROVE AgentInv'
  BY <1>11 DEF Gather, AgentInv, Looking, loop, world
<1>12. CASE UNCHANGED vars  BY <1>12 DEF vars, AgentInv, Looking, loop, world
<1> QED
  BY <1>1, <1>2, <1>3, <1>4, <1>5, <1>6, <1>7, <1>8, <1>9, <1>10, <1>11, <1>12,
    <1>13, <1>14
  DEF Next, Step

\* A status that hides the services that are asked about never says that one is down.
LEMMA HiddenUnseen ==
  /\ defect = "sync" => ~Satisfied("syncLook")
  /\ defect = "db" => ~Satisfied("db1Look")
  /\ defect = "broker" => ~Satisfied("br1Look") /\ ~Satisfied("degraded")
<1>1. ASSUME defect = "sync" PROVE ~Satisfied("syncLook")
  <2>1. Down("own", Syncs) = {}  BY <1>1, HiddenFacts DEF Down
  <2> QED  BY <2>1 DEF Satisfied, SyncSeen
<1>2. ASSUME defect = "db" PROVE ~Satisfied("db1Look")
  <2>1. Down("mgr1", Dbs) = {}  BY <1>2, HiddenFacts DEF Down
  <2>2. Db("mgr1") = "OK"  BY <2>1, NothingDown DEF Db
  <2> QED  BY <2>2 DEF Satisfied, AfterDbChange
<1>3. ASSUME defect = "broker" PROVE ~Satisfied("br1Look") /\ ~Satisfied("degraded")
  <2>1. Down("mgr1", Brokers) = {}  BY <1>3, HiddenFacts DEF Down
  <2>2. Broker("mgr1") = "OK"  BY <2>1, NothingDown DEF Broker
  <2> QED  BY <2>2 DEF Satisfied, Validated
<1> QED  BY <1>1, <1>2, <1>3

\* A defect stops the test at its question, and the agent that avoids what was
\* restarted is never found there.
LEMMA DefectStep ==
  TypeOK /\ StatusInv /\ FailoverInv /\ AgentInv /\ DefectInv /\ [Next]_vars => DefectInv'
<1> SUFFICES ASSUME TypeOK, StatusInv, FailoverInv, AgentInv, DefectInv, [Next]_vars
             PROVE  DefectInv'
  OBVIOUS
<1> USE DEF DefectInv, SyncLabels, SyncLooks
<1>1. CASE Ask
  <2>1. UNCHANGED <<test, defect, agent, restarted>>  BY <1>1, AskFacts DEF world, loop
  <2>2. pc' = After[pc] => Satisfied(pc) \/ pc' \in {"failed", "syncStop", "db1Stop"}
    BY <1>1, AskFacts, LabelFacts DEF After, DbLabels
  <2>3. /\ pc = "syncLook" /\ defect = "sync" => ~Satisfied(pc)
        /\ pc = "db1Look" /\ defect = "db" => ~Satisfied(pc)
        /\ pc \in {"br1Look", "degraded"} /\ defect = "broker" => ~Satisfied(pc)
    BY HiddenUnseen
  <2> QED
    BY <1>1, <2>1, <2>2, <2>3, AskFacts, LabelFacts, TestOfLabel
    DEF After, DbLabels, BrLabels, Looking
<1>2. CASE AskWithoutQuorum
  BY <1>2, TestOfLabel DEF AskWithoutQuorum, Goto, DbLabels, world, loop
<1>3. CASE StopService
  BY <1>3, TestOfLabel, LabelFacts DEF StopService, Goto, Following, DbLabels, BrLabels, loop
<1>13. CASE StartService
  BY <1>13, TestOfLabel, LabelFacts DEF StartService, Goto, Following, DbLabels, BrLabels, loop
<1>4. CASE StopFirst
  <2>1. restarted = {}  BY <1>4, TestOfLabel DEF StopFirst, AgentInv
  <2> QED
    BY <1>4, <2>1, TestOfLabel DEF StopFirst, StopBroker, Goto
<1>5. CASE StopNext
  <2>1. Nobody \notin restarted  BY DEF TypeOK, Brokers, Nobody
  <2> QED  BY <1>5, <2>1, TestOfLabel DEF StopNext, StopBroker, Goto
<1>6. CASE StartBroker
  <2>1. test = "failover" /\ stopped \notin up /\ agent \in up \cup {Nobody} /\ stopped # Nobody
    BY <1>6, TestOfLabel DEF StartBroker, AgentInv, FailoverInv, Looking, Brokers, Nobody
  <2> QED  BY <1>6, <2>1 DEF StartBroker, Goto
<1>7. CASE LookForOther
  <2>1. pc = "look1" /\ pc' \in {"failed", "start"} /\ UNCHANGED <<test, defect, agent, restarted>>
    BY <1>7 DEF LookForOther, Fail, Goto, world
  <2> QED  BY <2>1, TestOfLabel DEF Looking
<1>8. CASE LookForRestarted
  <2>1. /\ pc = "look" /\ UNCHANGED <<test, defect, agent, restarted>>
        /\ pc' \in {"failed", "start"} \/ (pc' = "passed" /\ agent \in restarted)
    BY <1>8 DEF LookForRestarted, Fail, Goto, world
  <2> QED  BY <2>1, TestOfLabel DEF Looking
<1>9. CASE CallFails
  BY <1>9, CallFacts, TestOfLabel DEF DbLabels, BrLabels, loop
<1>14. CASE ComesUp  BY <1>14, ComesUpFacts DEF loop
<1>10. CASE AgentConnects  BY <1>10 DEF AgentConnects, loop
<1>11. ASSUME NEW v \in Views, Gather(v) PROVE DefectInv'
  BY <1>11 DEF Gather, world, loop
<1>12. CASE UNCHANGED vars  BY <1>12 DEF vars, world, loop
<1> QED
  BY <1>1, <1>2, <1>3, <1>4, <1>5, <1>6, <1>7, <1>8, <1>9, <1>10, <1>11, <1>12,
    <1>13, <1>14
  DEF Next, Step


\* What an answer says of what was started.
LEMMA AnswerFacts ==
  ASSUME TypeOK, StatusInv, FailoverInv, AgentInv, DefectInv, ComingInv, Satisfied(pc)
  PROVE  /\ pc = "dbWait" => Dbs \subseteq up
         /\ pc = "degraded" => stopped \notin seen["mgr1"]
         /\ pc = "wait" /\ restarted = {stopped} => stopped \in up
<1>1. ASSUME pc = "dbWait" PROVE Dbs \subseteq up
  <2>1. test = "status" /\ defect # "db"
    BY <1>1, TestOfLabel DEF DefectInv, SyncLabels, SyncLooks, DbLabels
  <2>2. Status("mgr1", Dbs, 1) = "OK"  BY <1>1 DEF Satisfied, AfterDbChange, Db
  <2>3. Hidden \cap Dbs = {}
    BY <2>1 DEF Hidden, Syncs, Dbs, Brokers
  <2>4. Dbs \subseteq seen["mgr1"]  BY <2>2, <2>3, AllSeen
  <2> QED  BY <1>1, <2>1, <2>4 DEF ComingInv
<1>2. ASSUME pc = "degraded" PROVE stopped \notin seen["mgr1"]
  <2>1. test = "failover" /\ restarted = {}
    BY <1>2, TestOfLabel DEF Looking, AgentInv
  <2>2. Broker("mgr1") = "Degraded"  BY <1>2 DEF Satisfied, Validated
  <2>3. Down("mgr1", Brokers) # {}  BY <2>2, NothingDown DEF Broker
  <2>4. PICK b \in Brokers : b \notin seen["mgr1"]  BY <2>3 DEF Down
  <2>5. b = stopped  BY <2>1, <2>4 DEF ComingInv, Services
  <2> QED  BY <2>4, <2>5
<1>3. ASSUME pc = "wait", restarted = {stopped} PROVE stopped \in up
  <2>1. test = "failover" /\ defect # "broker"
    BY <1>3, TestOfLabel DEF DefectInv
  <2>2. Status("mgr1", Brokers, 2) = "OK"  BY <1>3 DEF Satisfied, Broker
  <2>3. Hidden \cap Brokers = {}
    BY <2>1 DEF Hidden, Syncs, Dbs, Brokers
  <2>4. Brokers \subseteq seen["mgr1"]  BY <2>2, <2>3, AllSeen
  <2>5. stopped \in Brokers  BY <1>3 DEF TypeOK
  <2> QED  BY <1>3, <2>1, <2>4, <2>5 DEF ComingInv
<1> QED  BY <1>1, <1>2, <1>3

\* So what was started runs before anything else is stopped, as far as that goes.
LEMMA ComingStep ==
  TypeOK /\ StatusInv /\ FailoverInv /\ AgentInv /\ DefectInv /\ ComingInv /\ [Next]_vars
    => ComingInv'
<1> SUFFICES ASSUME TypeOK, StatusInv, FailoverInv, AgentInv, DefectInv, ComingInv,
                    [Next]_vars
             PROVE  ComingInv'
  OBVIOUS
<1> USE DEF ComingInv, DbLabels
<1>0. pc \in {"look", "look1"} /\ test = "failover" => stopped \notin restarted
  BY DEF AgentInv
<1>1. CASE Ask
  <2>1. UNCHANGED <<test, up, coming, stopped, restarted, seen>>
    BY <1>1, AskFacts DEF world, loop
  <2>2. \/ Satisfied(pc) /\ pc' = After[pc]
        \/ pc' = pc
        \/ pc' = "failed"
        \/ pc \in SyncLabels /\ pc' = "syncStop"
        \/ pc \in DbLabels /\ pc' = "db1Stop"
    BY <1>1, AskFacts
  <2>3. CASE pc' = pc  BY <2>1, <2>3
  <2>4. CASE pc' = "failed"  BY <2>1, <2>4
  <2>5. CASE pc \in SyncLabels /\ pc' = "syncStop"
    BY <2>1, <2>5, TestOfLabel DEF SyncLabels, SyncLooks
  <2>6. CASE pc \in DbLabels /\ pc' = "db1Stop"
    BY <2>1, <2>6, TestOfLabel
  <2>7. CASE /\ Satisfied(pc) /\ pc' = After[pc] /\ pc' \notin {pc, "failed"}
             /\ ~(pc \in SyncLabels /\ pc' = "syncStop")
             /\ ~(pc \in DbLabels /\ pc' = "db1Stop")
    <3>1. pc \in DOMAIN After  BY <1>1, AskFacts
    <3>2. CASE pc = "db1Look"
      <4>1. pc' = "db2Stop"  BY <2>7, <3>2 DEF After
      <4>2. "db1" \notin seen["mgr1"]
        <5>1. "db1" \in Down("mgr1", Dbs)
          BY <1>1, <2>7, <3>2, <4>1, AskWays, UnsatisfiedFacts DEF SyncLabels, SyncLooks
        <5> QED  BY <5>1 DEF Down
      <4> QED  BY <2>1, <3>2, <4>1, <4>2, TestOfLabel DEF Dbs
    <3>3. CASE pc = "dbWait"
      <4>1. pc' = "br1Stop"  BY <2>7, <3>3 DEF After
      <4>2. coming = {}
        BY <2>7, <3>3, AnswerFacts, TestOfLabel DEF TypeOK, Dbs
      <4> QED  BY <2>1, <3>3, <4>1, <4>2, TestOfLabel
    <3>4. CASE pc \in {"healthy", "syncWait", "br1Look", "brLook"} \cup SyncLooks
      <4>1. pc' \in SyncLabels \cup BrLabels \cup {"passed", "db1Stop"} /\ test = "status"
        BY <2>7, <3>4, TestOfLabel DEF After, SyncLabels, SyncLooks, BrLabels
      <4> QED  BY <2>1, <3>4, <4>1 DEF SyncLabels, SyncLooks, BrLabels
    <3>5. CASE pc \in {"validate", "agents"}
      <4>1. pc' = (IF pc = "validate" THEN "first" ELSE "degraded") /\ test = "failover"
        BY <2>7, <3>5, TestOfLabel DEF After, Looking
      <4> QED  BY <2>1, <3>5, <4>1
    <3>6. CASE pc = "degraded"
      <4>1. pc' = "look1" /\ test = "failover"
        BY <2>7, <3>6, TestOfLabel DEF After, Looking
      <4> QED  BY <2>1, <2>7, <3>6, <4>1, AnswerFacts
    <3>7. CASE pc = "wait"
      <4>1. pc' = "stop" /\ test = "failover" /\ stopped \in Brokers
        BY <2>7, <3>7, TestOfLabel DEF After, TypeOK, ComingInv, Nobody
      <4>2. restarted = {stopped} => Services \subseteq up
        BY <2>7, <3>7, <4>1, AnswerFacts
      <4> QED  BY <2>1, <3>7, <4>1, <4>2
    <3> QED  BY <3>1, <3>2, <3>3, <3>4, <3>5, <3>6, <3>7, LabelFacts
  <2> QED  BY <2>2, <2>3, <2>4, <2>5, <2>6, <2>7
<1>2. CASE AskWithoutQuorum
  BY <1>2, TestOfLabel DEF AskWithoutQuorum, Goto, Tick, world, loop
<1>3. CASE StopService
  <2>1. test = "status" /\ test' = "status"
    BY <1>3, TestOfLabel, LabelFacts DEF StopService, SyncLabels, SyncLooks, BrLabels
  <2>2. /\ pc \in DOMAIN Stops /\ pc' = Following[pc]
        /\ up' = up \ {Stops[pc]} /\ coming' = coming \ {Stops[pc]} /\ UNCHANGED seen
    BY <1>3 DEF StopService, Goto
  <2> QED  BY <2>1, <2>2, LabelFacts DEF Following, Stops, Dbs
<1>13. CASE StartService
  <2>1. test = "status" /\ test' = "status"
    BY <1>13, TestOfLabel, LabelFacts DEF StartService, SyncLabels, SyncLooks
  <2>2. /\ pc \in DOMAIN Starts /\ pc' = Following[pc] /\ UNCHANGED seen
        /\ Starting(Starts[pc])
    BY <1>13 DEF StartService, Goto
  <2>3. CASE pc = "syncStart"
    BY <2>1, <2>2, <2>3 DEF Following, Starts, Starting, Syncs
  <2>4. CASE pc \in {"db1Start", "db2Start"}
    <3>1. /\ pc' \in {"db2Start", "dbWait"} /\ up' = up
          /\ coming' \subseteq coming \cup {"db1", "db2"}
      BY <2>2, <2>4 DEF Following, Starts, Starting, Syncs
    <3> QED  BY <2>1, <2>2, <2>4, <3>1
  <2> QED  BY <2>2, <2>3, <2>4, LabelFacts
<1>4. CASE StopFirst
  <2>1. /\ test = "failover" /\ restarted = {} /\ Stopped = {}
    BY <1>4, TestOfLabel DEF StopFirst, AgentInv, FailoverInv
  <2>2. Services \subseteq up /\ coming = {}  BY <2>1 DEF Stopped
  <2>3. agent \in Brokers  BY <1>4 DEF StopFirst, TypeOK
  <2>4. Services \subseteq seen["mgr1"]
    BY <1>4, <2>1 DEF StopFirst, Nobody, Services, Syncs, Dbs, Brokers
  <2> QED
    BY <1>4, <2>1, <2>2, <2>3, <2>4 DEF StopFirst, StopBroker, Goto
<1>5. CASE StopNext
  <2>1. /\ test = "failover" /\ stopped \in restarted /\ target \in Brokers
    BY <1>5, TestOfLabel DEF StopNext, FailoverInv
  <2>2. /\ pc' = "look" /\ up' = up \ {target} /\ coming' = coming \ {target}
        /\ stopped' = target /\ UNCHANGED <<test, seen, restarted>>
    BY <1>5 DEF StopNext, StopBroker, Goto
  <2>3. ASSUME NEW b \in Brokers, restarted \subseteq {b} PROVE Services \ up' \subseteq {target}
    <3>1. restarted = {stopped}  BY <2>1, <2>3
    <3> QED  BY <1>5, <2>1, <2>2, <3>1 DEF StopNext
  <2> QED  BY <2>1, <2>2, <2>3
<1>6. CASE StartBroker
  <2>1. test = "failover" /\ stopped \in Brokers
    BY <1>6, TestOfLabel DEF StartBroker, Looking, FailoverInv
  <2>2. /\ pc = "start" /\ pc' = "wait" /\ up' = up /\ coming' \subseteq coming \cup {stopped}
        /\ restarted' = restarted \cup {stopped} /\ UNCHANGED <<test, seen, stopped>>
    BY <1>6, <2>1 DEF StartBroker, Goto, Starting, Brokers, Syncs
  <2>3. stopped \notin restarted  BY <2>1, <2>2
  <2>4. restarted' = {stopped} => restarted = {}  BY <2>2, <2>3
  <2>5. restarted' # {} /\ coming' \subseteq restarted' /\ stopped \in restarted'
    BY <2>1, <2>2
  <2>6. pc' = "wait" /\ restarted' = {stopped} => (stopped \in seen["mgr1"] => stopped \in up)
    BY <2>1, <2>2, <2>4
  <2>7. ASSUME NEW b \in Brokers, restarted' \subseteq {b}
        PROVE  Services \ up \subseteq {stopped}
    <3>1. restarted \subseteq {b}  BY <2>2, <2>7
    <3> QED  BY <2>1, <3>1
  <2> QED  BY <2>1, <2>2, <2>5, <2>6, <2>7
<1>7. CASE LookForOther
  <2>1. /\ test = "failover" /\ pc = "look1" /\ pc' \in {"failed", "start"}
        /\ UNCHANGED <<test, up, coming, seen, stopped, restarted>>
    BY <1>7, TestOfLabel DEF LookForOther, Fail, Goto, world, Looking
  <2> QED  BY <1>0, <2>1
<1>8. CASE LookForRestarted
  <2>1. /\ test = "failover" /\ pc = "look" /\ pc' \in {"failed", "start", "passed"}
        /\ UNCHANGED <<test, up, coming, seen, stopped, restarted>>
    BY <1>8, TestOfLabel DEF LookForRestarted, Fail, Goto, world, Looking
  <2> QED  BY <1>0, <2>1
<1>9. CASE CallFails
  <2>1. UNCHANGED <<test, up, coming, seen, stopped, restarted>>
    BY <1>9, CallFacts DEF loop
  <2>2. CASE pc' = pc  BY <2>1, <2>2
  <2>3. CASE pc' = "failed"  BY <2>1, <2>3
  <2>4. CASE pc \in SyncLabels /\ pc' = "syncStop"
    BY <2>1, <2>4, TestOfLabel DEF SyncLabels, SyncLooks
  <2>5. CASE pc \in DbLabels /\ pc' = "db1Stop"
    BY <2>1, <2>5, TestOfLabel
  <2> QED  BY <1>9, <2>2, <2>3, <2>4, <2>5, CallFacts
<1>14. CASE ComesUp
  <2>1. /\ UNCHANGED <<test, pc, seen, stopped, restarted>> /\ up \subseteq up'
        /\ coming' \subseteq coming /\ up' \cup coming' = up \cup coming
    BY <1>14, ComesUpFacts DEF loop
  <2> QED  BY <2>1
<1>10. CASE AgentConnects  BY <1>10 DEF AgentConnects, loop
<1>11. ASSUME NEW v \in Views, Gather(v) PROVE ComingInv'
  <2>1. UNCHANGED <<test, pc, up, coming, stopped, restarted>>
    BY <1>11 DEF Gather, world, loop
  <2>2. seen'["mgr1"] = up \/ seen'["mgr1"] = seen["mgr1"]
    BY <1>11 DEF Gather, TypeOK, Views
  <2>3. test = "failover" /\ restarted = {} => Services \ up \subseteq {stopped}
    BY DEF Brokers
  <2>4. test = "failover" /\ pc \in {"look1", "start"} => stopped \notin up
    BY DEF AgentInv, Looking
  <2> QED  BY <2>1, <2>2, <2>3, <2>4
<1>12. CASE UNCHANGED vars  BY <1>12 DEF vars, world, loop
<1> QED
  BY <1>1, <1>2, <1>3, <1>4, <1>5, <1>6, <1>7, <1>8, <1>9, <1>10, <1>11, <1>12,
    <1>13, <1>14
  DEF Next, Step

-----------------------------------------------------------------------------
(* The last time a question is asked, nothing is out of date.               *)

\* Old views have been gathered anew, and an agent has found a broker.
LEMMA LastTime ==
  ASSUME TypeOK, AgeInv, Lag < Tries, Tick, UNCHANGED up, ~(tries + 1 < Tries)
  PROVE  (\A v \in Views : Fresh(v)) /\ agent # Nobody
<1>1. tries >= Lag  BY Numbers DEF TypeOK
<1>2. ASSUME NEW v \in Views PROVE Fresh(v)
  <2> SUFFICES ASSUME ~Fresh(v) PROVE FALSE
    OBVIOUS
  <2>1. age[v] < Lag  BY TickAges
  <2>2. age[v] >= tries  BY DEF AgeInv
  <2> QED  BY <1>1, <2>1, <2>2, Numbers DEF TypeOK
<1>3. agent # Nobody  BY <1>1, Numbers DEF Tick, TypeOK
<1> QED  BY <1>2, <1>3

\* Nor is anything in the last attempt of the check of the file synchronisation.
LEMMA LastAttempt ==
  ASSUME TypeOK, CalmAges, Lag < Tries, Tick, UNCHANGED up, pc \in SyncLooks,
         ~(checks + 1 < Tries)
  PROVE  \A v \in Views : Fresh(v)
<1>1. checks >= Lag  BY Numbers DEF TypeOK
<1> SUFFICES ASSUME NEW v \in Views, ~Fresh(v) PROVE FALSE
  OBVIOUS
<1>2. age[v] < Lag  BY TickAges
<1>3. age[v] >= checks  BY DEF CalmAges
<1> QED  BY <1>1, <1>2, <1>3, Numbers DEF TypeOK

\* What a view says that is up to date.
Known(v) ==
  /\ Syncs \subseteq up => Manager(v) = "OK"
  /\ Dbs \subseteq up => Db(v) = "OK"
  /\ Brokers \subseteq up => Broker(v) = "OK"
  /\ Syncs \ up = {"sync1"} => Manager(v) = "Degraded" /\ "sync1" \in Down(v, Syncs)
  /\ "sync1" \in up => "sync1" \notin Down(v, Syncs)
  /\ "sync2" \in up => "sync2" \notin Down(v, Syncs)
  /\ Dbs \ up = {"db1"} => Db(v) = "Degraded"
  /\ \A b : Brokers \ up = {b} => Broker(v) = "Degraded"
  /\ Brokers \cap up = {} => Broker(v) = "Fail"

\* With everything running, and with services of one kind stopped.
LEMMA AllUp ==
  ASSUME NEW v \in Views, Hidden = {}, seen[v] = up
  PROVE  Known(v)
<1> USE DEF Known
<1>1. \A kind : Down(v, kind) = kind \ up  BY UpToDate
<1>2. Syncs \subseteq up => Manager(v) = "OK"
  <2>1. Syncs \subseteq up => Down(v, Syncs) = {}  BY <1>1
  <2> QED  BY <2>1, NothingDown DEF Manager
<1>3. Dbs \subseteq up => Db(v) = "OK"
  <2>1. Dbs \subseteq up => Down(v, Dbs) = {}  BY <1>1
  <2> QED  BY <2>1, NothingDown DEF Db
<1>4. Brokers \subseteq up => Broker(v) = "OK"
  <2>1. Brokers \subseteq up => Down(v, Brokers) = {}  BY <1>1
  <2> QED  BY <2>1, NothingDown DEF Broker
<1>5. Syncs \ up = {"sync1"} => Manager(v) = "Degraded" /\ "sync1" \in Down(v, Syncs)
  <2>1. Syncs \ up = {"sync1"} => Down(v, Syncs) = {"sync1"}  BY <1>1
  <2> QED  BY <2>1, OneDown DEF Manager
<1>9. /\ "sync1" \in up => "sync1" \notin Down(v, Syncs)
      /\ "sync2" \in up => "sync2" \notin Down(v, Syncs)
  BY <1>1
<1>6. Dbs \ up = {"db1"} => Db(v) = "Degraded"
  <2>1. Dbs \ up = {"db1"} => Down(v, Dbs) = {"db1"}  BY <1>1
  <2> QED  BY <2>1, OneDown DEF Db
<1>7. ASSUME NEW b, Brokers \ up = {b} PROVE Broker(v) = "Degraded"
  <2>1. Down(v, Brokers) = {b}  BY <1>1, <1>7
  <2> QED  BY <2>1, OneDown DEF Broker
<1>8. ASSUME Brokers \cap up = {} PROVE Broker(v) = "Fail"
  <2>1. Down(v, Brokers) = Brokers  BY <1>1, <1>8
  <2>2. Cardinality(Down(v, Brokers)) = 3  BY <2>1, Counts
  <2> QED  BY <2>2 DEF Broker, Status
<1> QED  BY <1>2, <1>3, <1>4, <1>5, <1>6, <1>7, <1>8, <1>9

\* The managers answer as long as two databases run.
LEMMA TheyAnswer ==
  ASSUME Dbs \subseteq up \/ Dbs \ up = {"db1"}
  PROVE  Answers
<1>1. CASE Dbs \subseteq up
  <2>1. up \cap Dbs = Dbs  BY <1>1
  <2> QED  BY <2>1, Counts DEF Answers
<1>2. CASE Dbs \ up = {"db1"}
  <2>1. up \cap Dbs = {"db2", "db3"}  BY <1>2 DEF Dbs
  <2> QED  BY <2>1, Counts DEF Answers
<1> QED  BY <1>1, <1>2

\* So while nothing is wrong the last time is a success.
LEMMA LastSucceeds ==
  ASSUME TypeOK, StatusInv, FailoverInv, AgentInv, AgeInv, Lag < Tries, Calm, CalmRuns,
         CalmAges, Tick, UNCHANGED up, pc \in DOMAIN After,
         IF pc \in SyncLooks THEN ~(checks + 1 < Tries) ELSE ~(tries + 1 < Tries)
  PROVE  Satisfied(pc)
<1>0. \A v \in Views : Fresh(v)  BY LastTime, LastAttempt
<1>1. (\A v \in Views : seen[v] = up) /\ coming = {}  BY <1>0 DEF Fresh, Views
<1>2. Hidden = {}  BY HiddenFacts DEF Calm
<1>3. {"own", "mgr1", "mgr2"} = Views  BY DEF Views
<1>4. Known("own") /\ Known("mgr1") /\ Known("mgr2")  BY <1>1, <1>2, <1>3, AllUp
<1>5. up \subseteq Services  BY DEF TypeOK
<1>6. CASE pc \in {"healthy", "syncWait", "dbWait", "validate", "wait"}
  <2>1. up = Services
    BY <1>1, <1>5, <1>6, TestOfLabel
    DEF StatusInv, FailoverInv, Stopped, SyncLabels, SyncLooks, DbLabels, Looking
  <2>2. Syncs \subseteq up /\ Dbs \subseteq up /\ Brokers \subseteq up
    BY <2>1 DEF Services
  <2>3. Answers  BY <2>2, TheyAnswer
  <2>4. /\ "sync1" \notin Down("own", Syncs) /\ Broker("own") = "OK"
        /\ Manager("mgr1") = "OK" /\ Db("mgr1") = "OK" /\ Broker("mgr1") = "OK"
    BY <1>4, <2>2 DEF Known, Syncs
  <2>5. OwnStatus = "OK" /\ Cluster("mgr1") = "OK"  BY <2>4 DEF OwnStatus, Own, Cluster
  <2> QED
    BY <1>6, <2>3, <2>4, <2>5 DEF Satisfied, Healthy, AfterDbChange, Validated
<1>7. CASE pc \in SyncLooks
  <2>1. up = Services \ {"sync1"}
    BY <1>7, TestOfLabel DEF CalmRuns, SyncLabels, SyncLooks
  <2>2. /\ Syncs \ up = {"sync1"} /\ "sync2" \in up
        /\ Dbs \subseteq up /\ Brokers \subseteq up
    BY <2>1 DEF Services, Syncs, Dbs, Brokers
  <2>3. /\ "sync1" \in Down("own", Syncs)
        /\ Manager("mgr2") = "Degraded" /\ Db("mgr2") = "OK" /\ Broker("mgr2") = "OK"
        /\ "sync2" \notin Down("mgr2", Syncs)
    BY <1>4, <2>2 DEF Known
  <2>4. OwnStatus = "Fail" /\ Cluster("mgr2") = "Degraded" /\ Own("mgr2", "sync2") = "OK"
    BY <2>3 DEF OwnStatus, Own, Cluster
  <2> QED  BY <1>7, <2>3, <2>4 DEF Satisfied, SyncSeen, SyncLooks
<1>8. CASE pc = "db1Look"
  <2>1. up = Services \ {"db1"}  BY <1>8, TestOfLabel DEF CalmRuns, DbLabels
  <2>2. Syncs \subseteq up /\ Dbs \ up = {"db1"} /\ Brokers \subseteq up
    BY <2>1 DEF Services, Syncs, Dbs, Brokers
  <2>3. Answers  BY <2>2, TheyAnswer
  <2>4. /\ "sync1" \notin Down("own", Syncs) /\ Broker("own") = "OK"
        /\ Manager("mgr1") = "OK" /\ Db("mgr1") = "Degraded" /\ Broker("mgr1") = "OK"
    BY <1>4, <2>2 DEF Known, Syncs
  <2>5. OwnStatus = "OK" /\ Cluster("mgr1") = "Degraded"  BY <2>4 DEF OwnStatus, Own, Cluster
  <2> QED  BY <1>8, <2>3, <2>4, <2>5 DEF Satisfied, AfterDbChange
<1>9. CASE pc \in {"br1Look", "degraded"}
  <2>1. PICK b \in Brokers : up = Services \ {b} /\ (pc = "br1Look" => b = "br1")
    <3>1. CASE pc = "br1Look"  BY <3>1, TestOfLabel DEF CalmRuns, BrLabels, Brokers
    <3>2. CASE pc = "degraded"
      <4>1. stopped \in Brokers /\ stopped \notin up /\ Stopped \subseteq {stopped}
        BY <3>2, TestOfLabel DEF FailoverInv, AgentInv, Looking
      <4> QED  BY <1>1, <1>5, <3>2, <4>1 DEF Stopped, Services
    <3> QED  BY <1>9, <3>1, <3>2
  <2>2. Syncs \subseteq up /\ Dbs \subseteq up /\ Brokers \ up = {b}
    BY <2>1 DEF Services, Syncs, Dbs, Brokers
  <2>3. Answers  BY <2>2, TheyAnswer
  <2>4. /\ "sync1" \notin Down("own", Syncs) /\ Broker("own") = "Degraded"
        /\ Manager("mgr1") = "OK" /\ Db("mgr1") = "OK" /\ Broker("mgr1") = "Degraded"
    BY <1>4, <2>2 DEF Known, Syncs
  <2>5. OwnStatus = "OK" /\ Cluster("mgr1") = "Degraded"  BY <2>4 DEF OwnStatus, Own, Cluster
  <2>6. pc = "br1Look" => "br1" \in Down("mgr1", Brokers)
    <3>1. Down("mgr1", Brokers) = {b}  BY <1>1, <1>2, <1>3, <2>2, UpToDate
    <3> QED  BY <2>1, <3>1
  <2> QED  BY <1>9, <2>3, <2>4, <2>5, <2>6 DEF Satisfied, Validated
<1>10. CASE pc = "brLook"
  <2>1. up = Services \ Brokers  BY <1>10, TestOfLabel DEF CalmRuns, BrLabels
  <2>2. Brokers \cap up = {}  BY <2>1
  <2>3. Broker("own") = "Fail" /\ Broker("mgr1") = "Fail"  BY <1>4, <2>2 DEF Known
  <2>4. OwnStatus = "Fail" /\ Cluster("mgr1") = "Fail"  BY <2>3 DEF OwnStatus, Own, Cluster
  <2> QED  BY <1>10, <2>3, <2>4 DEF Satisfied
<1>11. CASE pc = "agents"
  <2>1. agent # Nobody  BY <1>11, LastTime DEF SyncLooks
  <2> QED  BY <1>11, <2>1 DEF Satisfied
<1> QED  BY <1>6, <1>7, <1>8, <1>9, <1>10, <1>11, LabelFacts


\* While nothing is wrong a question is answered as it should be, or repeated.
LEMMA CalmAsk ==
  ASSUME TypeOK, StatusInv, FailoverInv, AgentInv, AgeInv, Lag < Tries, Calm, CalmRuns,
         CalmAges, CalmDbs, Ask
  PROVE  /\ pc \in DOMAIN After /\ Tick /\ UNCHANGED <<world, loop>> /\ why' = why
         /\ \/ /\ Satisfied(pc) /\ pc' = After[pc]
               /\ checks' = IF pc \in {"syncWait", "dbWait"} THEN 0 ELSE checks
            \/ UNCHANGED <<pc, checks>>
            \/ pc \in SyncLooks /\ pc' = "syncStop" /\ checks' = checks + 1
<1>1. pc \in DOMAIN After /\ Tick /\ UNCHANGED <<world, loop>>  BY AskWays
<1>2. UNCHANGED up  BY <1>1 DEF world
<1>3. ASSUME ~Satisfied(pc), ~(tries + 1 < Limit(pc)), Unsatisfied(pc)
      PROVE  pc \in SyncLooks /\ pc' = "syncStop" /\ checks' = checks + 1 /\ why' = why
  <2>1. pc \in SyncLooks
    <3>1. pc \notin SyncLooks => Limit(pc) = Tries  BY DEF Limit, SyncLooks
    <3> QED  BY <1>1, <1>2, <1>3, <3>1, LastSucceeds
  <2>2. Repeat("syncStop")  BY <1>3, <2>1 DEF Unsatisfied, SyncLooks
  <2>3. checks + 1 < Tries  BY <1>1, <1>2, <1>3, <2>1, LastSucceeds
  <2> QED  BY <2>1, <2>2, <2>3 DEF Repeat, Goto
<1>4. ASSUME pc = "db1Look", Satisfied(pc) PROVE "db1" \in Down("mgr1", Dbs)
  <2>1. Db("mgr1") = "Degraded"  BY <1>4 DEF Satisfied, AfterDbChange
  <2>2. Down("mgr1", Dbs) # {}  BY <2>1, NothingDown DEF Db
  <2>3. Down("mgr1", Dbs) \subseteq {"db1"}
    <3>1. Dbs \ seen["mgr1"] \subseteq {"db1"}  BY <1>4 DEF CalmDbs, Views
    <3> QED  BY <3>1 DEF Down
  <2> QED  BY <2>2, <2>3
<1> QED  BY <1>1, <1>3, <1>4, AskWays

\* Calm steps come from calm states: what a test meets does not change, and calls that
\* failed have failed.
LEMMA CalmBefore ==
  ASSUME TypeOK, [Next]_vars, Calm'
  PROVE  Calm
<1> USE DEF Calm, world
<1>1. CASE CallFails
  <2>1. faults' = faults + 1 /\ faults \in Nat  BY <1>1, Numbers DEF CallFails, TypeOK
  <2> QED  BY <2>1
<1>2. CASE ~CallFails
  <2>1. UNCHANGED <<defect, faults>>
    BY <1>2 DEF Next, Step, Ask, AskWithoutQuorum, StopService, StartService, StopFirst,
      StopNext, StopBroker, StartBroker, LookForOther, LookForRestarted, ComesUp,
      AgentConnects, Gather, vars
  <2> QED  BY <2>1
<1> QED  BY <1>1, <1>2

\* No broker is restarted a third time without the test being over.
LEMMA TwoRestarted ==
  ASSUME TypeOK, FailoverInv, AgentInv, test = "failover", pc = "look"
  PROVE  ~(Cardinality(restarted) >= 3)
<1>1. /\ restarted \subseteq Brokers /\ stopped \in Brokers /\ stopped \notin restarted
  BY DEF TypeOK, FailoverInv, AgentInv, Looking
<1>2. IsFiniteSet(Brokers)
  <2>1. Brokers = {"br1"} \cup {"br2"} \cup {"br3"}  BY DEF Brokers
  <2> QED  BY <2>1, FS_Singleton, FS_Union
<1>3. IsFiniteSet(restarted) /\ IsFiniteSet({stopped})  BY <1>1, <1>2, FS_Subset, FS_Singleton
<1>4. IsFiniteSet(restarted \cup {stopped})  BY <1>3, FS_Union
<1>5. Cardinality(restarted \cup {stopped}) = Cardinality(restarted) + 1
  BY <1>1, <1>3, FS_AddElement
<1>6. Cardinality(restarted \cup {stopped}) <= 3
  BY <1>1, <1>2, FS_Subset, Counts
<1>7. Cardinality(restarted) \in Nat  BY <1>3, FS_CardinalityType
<1> QED  BY <1>5, <1>6, <1>7

\* What runs, what is known of it and where the test is stay in step.
LEMMA CalmStep ==
  ASSUME TypeOK, StatusInv, FailoverInv, AgentInv, DefectInv, AgeInv, ComingInv,
         Lag < Tries, CalmInv, [Next]_vars
  PROVE  CalmInv'
<1> SUFFICES ASSUME Calm' PROVE (CalmRuns /\ CalmAges /\ CalmDbs /\ CalmEnd)'
  BY DEF CalmInv
<1>0. Calm /\ CalmRuns /\ CalmAges /\ CalmDbs /\ CalmEnd  BY CalmBefore DEF CalmInv
<1> USE DEF CalmRuns, CalmDbs, CalmEnd, SyncLabels, SyncLooks
<1>1. CASE Ask
  <2>1. /\ pc \in DOMAIN After /\ Tick /\ UNCHANGED <<world, loop>> /\ why' = why
        /\ \/ /\ pc' = After[pc]
              /\ checks' = IF pc \in {"syncWait", "dbWait"} THEN 0 ELSE checks
           \/ UNCHANGED <<pc, checks>>
           \/ pc \in SyncLooks /\ pc' = "syncStop" /\ checks' = checks + 1
    BY <1>0, <1>1, CalmAsk
  <2>2. UNCHANGED <<test, up, coming, seen>>  BY <2>1 DEF world, Tick
  <2>a. pc \in {"syncWait", "dbWait"} /\ pc' = After[pc] => up = Services /\ coming = {}
    <3>1. pc = "syncWait" => coming = {}
      BY TestOfLabel DEF ComingInv, DbLabels
    <3>2. pc = "dbWait" /\ pc' = After[pc] => coming = {}
      <4>1. ComingInv'  BY ComingStep
      <4>2. pc = "dbWait" => test = "status"  BY TestOfLabel DEF DbLabels
      <4>3. After["dbWait"] = "br1Stop"  BY DEF After
      <4> QED  BY <2>2, <4>1, <4>2, <4>3 DEF ComingInv, DbLabels
    <3>3. pc \in {"syncWait", "dbWait"} => Stopped = {}
      BY TestOfLabel DEF StatusInv, DbLabels
    <3> QED  BY <3>1, <3>2, <3>3 DEF Stopped, TypeOK
  <2>3. CalmRuns'
    BY <1>0, <2>1, <2>2, <2>a, LabelFacts DEF After
  <2>4. CalmAges'
    <3>1. ASSUME pc' \in {"syncStop"} \cup SyncLooks, NEW v \in Views, ~Fresh(v)'
          PROVE  age'[v] >= checks'
      <4>1. ~Fresh(v) /\ age'[v] = age[v] + 1 /\ age[v] \in Nat
        BY <2>1, <2>2, <3>1, TickAges, Numbers DEF TypeOK, Fresh
      <4>2. CASE pc = "healthy"
        <5>1. checks' = 0  BY <1>0, <2>1, <3>1, <4>2 DEF After
        <5> QED  BY <4>1, <5>1
      <4>3. CASE pc \in SyncLooks
        <5>1. age[v] >= checks  BY <1>0, <4>1, <4>3 DEF CalmAges
        <5>2. checks' = checks \/ checks' = checks + 1  BY <2>1, <4>3
        <5>3. checks \in Nat  BY DEF TypeOK
        <5> QED  BY <4>1, <5>1, <5>2, <5>3
      <4> QED  BY <2>1, <3>1, <4>2, <4>3, LabelFacts DEF After
    <3> QED  BY <3>1 DEF CalmAges
  <2>5. CalmDbs'
    BY <1>0, <2>1, <2>2, LabelFacts DEF After
  <2>6. CalmEnd'
    <3>1. pc \in SyncLabels => test = "status"  BY TestOfLabel
    <3> QED  BY <1>0, <2>1, <2>2, <3>1, LabelFacts DEF After
  <2> QED  BY <2>3, <2>4, <2>5, <2>6
<1>2. CASE AskWithoutQuorum
  BY <1>0, <1>2 DEF AskWithoutQuorum, Goto, CalmAges, world
<1>3. CASE StopService
  <2>1. test = "status"  BY <1>3, TestOfLabel, LabelFacts DEF StopService, DbLabels, BrLabels
  <2>2. /\ pc \in DOMAIN Stops /\ pc' = Following[pc]
        /\ up' = up \ {Stops[pc]} /\ coming' = coming \ {Stops[pc]}
        /\ UNCHANGED <<test, seen, age, checks, why>>
    BY <1>3 DEF StopService, Goto
  <2>3. up \subseteq Services  BY DEF TypeOK
  <2>4. CalmRuns'
    <3>1. pc = "syncStop" => coming = {} /\ Services \ {"sync1"} \subseteq up
      BY <2>1 DEF StatusInv, Stopped, ComingInv, DbLabels
    <3>2. pc # "db2Stop" => coming = {}
      BY <1>0, <2>1, <2>2, LabelFacts DEF ComingInv, DbLabels
    <3>3. CASE pc = "syncStop"
      <4>1. pc' = "syncLook" /\ up' = up \ {"sync1"}
        BY <2>2, <3>3 DEF Following, Stops
      <4> QED  BY <2>3, <3>1, <3>3, <4>1
    <3>4. CASE pc = "db1Stop"
      <4>1. pc' = "db1Look" /\ up' = Services \ {"db1"} /\ coming' = {}
        BY <1>0, <2>1, <2>2, <3>2, <3>4 DEF Following, Stops
      <4> QED  BY <4>1
    <3>5. CASE pc = "br1Stop"
      <4>1. pc' = "br1Look" /\ up' = Services \ {"br1"}
        BY <1>0, <2>1, <2>2, <3>5 DEF Following, Stops
      <4> QED  BY <4>1
    <3>6. CASE pc = "br2Stop"
      <4>1. pc' = "br3Stop" /\ up' = (Services \ {"br1"}) \ {"br2"}
        BY <1>0, <2>1, <2>2, <3>6 DEF Following, Stops
      <4> QED  BY <4>1
    <3>7. CASE pc = "br3Stop"
      <4>1. pc' = "brLook" /\ up' = (Services \ {"br1", "br2"}) \ {"br3"}
        BY <1>0, <2>1, <2>2, <3>7 DEF Following, Stops
      <4> QED  BY <4>1 DEF Brokers
    <3>8. CASE pc = "db2Stop"
      <4>1. pc' = "quorum"  BY <2>2, <3>8 DEF Following
      <4> QED  BY <4>1
    <3> QED  BY <2>2, <3>3, <3>4, <3>5, <3>6, <3>7, <3>8, LabelFacts
  <2>5. CalmAges'
    <3>1. CASE pc = "syncStop"
      <4>1. CASE checks = 0
        BY <2>2, <3>1, <4>1, Numbers DEF CalmAges, TypeOK
      <4>2. CASE up = Services \ {"sync1"}
        <5>1. up' = up /\ coming' = coming
          BY <2>1, <2>2, <3>1, <4>2 DEF Stops, ComingInv, DbLabels
        <5> QED  BY <1>0, <2>2, <3>1, <5>1 DEF CalmAges, Fresh
      <4> QED  BY <1>0, <2>1, <3>1, <4>1, <4>2
    <3>2. CASE pc # "syncStop"
      BY <2>2, <3>2, LabelFacts DEF Following, CalmAges
    <3> QED  BY <3>1, <3>2
  <2>6. CalmDbs' /\ CalmEnd'
    BY <1>0, <2>1, <2>2, LabelFacts DEF Following
  <2> QED  BY <2>4, <2>5, <2>6
<1>13. CASE StartService
  <2>1. test = "status"  BY <1>13, TestOfLabel, LabelFacts DEF StartService, DbLabels
  <2>2. /\ pc \in DOMAIN Starts /\ pc' = Following[pc]
        /\ UNCHANGED <<test, seen, age, checks, why>>
    BY <1>13 DEF StartService, Goto
  <2>3. pc' \in {"syncWait", "db2Start", "dbWait"}
    BY <2>2, LabelFacts DEF Following
  <2>4. CalmRuns' /\ CalmAges'  BY <2>3 DEF CalmAges
  <2>5. CalmDbs' /\ CalmEnd'
    BY <1>0, <2>1, <2>2, LabelFacts DEF Following
  <2> QED  BY <2>4, <2>5
<1>4. CASE StopFirst
  <2>1. test = "failover"  BY <1>4, TestOfLabel DEF StopFirst
  <2> QED  BY <1>0, <1>4, <2>1 DEF StopFirst, StopBroker, Goto, CalmAges
<1>5. CASE StopNext
  <2>1. test = "failover"  BY <1>5, TestOfLabel DEF StopNext
  <2> QED  BY <1>0, <1>5, <2>1 DEF StopNext, StopBroker, Goto, CalmAges
<1>6. CASE StartBroker
  <2>1. test = "failover"  BY <1>6, TestOfLabel DEF StartBroker, Looking
  <2> QED  BY <1>0, <1>6, <2>1 DEF StartBroker, Goto, CalmAges
<1>7. CASE LookForOther
  <2>1. test = "failover"  BY <1>7, TestOfLabel DEF LookForOther, Looking
  <2>2. agent # stopped
    BY <1>7, <2>1 DEF LookForOther, AgentInv, FailoverInv, Looking, Brokers, Nobody
  <2> QED  BY <1>0, <1>7, <2>1, <2>2 DEF LookForOther, Goto, CalmAges, world
<1>8. CASE LookForRestarted
  <2>1. test = "failover" /\ pc = "look"  BY <1>8, TestOfLabel DEF LookForRestarted, Looking
  <2>2. ~(Cardinality(restarted) >= 3)  BY <2>1, TwoRestarted
  <2>3. /\ (pc' = "failed" /\ why' = "early") \/ (pc' \in {"passed", "start"} /\ why' = why)
        /\ checks' = checks /\ test' = test
    BY <1>8, <2>2 DEF LookForRestarted, Fail, Goto, world
  <2> QED  BY <1>0, <2>1, <2>3 DEF CalmAges
<1>9. CASE CallFails
  <2>1. faults' = faults + 1 /\ faults \in Nat  BY <1>9, Numbers DEF CallFails, TypeOK
  <2> QED  BY <2>1 DEF Calm
<1>14. CASE ComesUp
  <2>1. UNCHANGED <<test, pc, checks, why, seen>> /\ coming # {}
    BY <1>14, ComesUpFacts
  <2>2. test = "status" => pc \in DbLabels \cup {"failed"}
    BY <2>1 DEF ComingInv
  <2>3. pc \notin {"syncStop"} \cup SyncLooks
    BY <2>2, TestOfLabel DEF DbLabels
  <2>4. test = "status" => pc \notin {"db1Stop", "db1Look", "db2Stop"}
    BY <1>0, <2>1
  <2> QED  BY <1>0, <2>1, <2>2, <2>3, <2>4 DEF CalmAges, DbLabels
<1>10. CASE AgentConnects  BY <1>0, <1>10 DEF AgentConnects, CalmAges, Fresh
<1>11. ASSUME NEW w \in Views, Gather(w) PROVE (CalmRuns /\ CalmAges /\ CalmDbs /\ CalmEnd)'
  <2>1. UNCHANGED <<test, up, coming, pc, checks, why>>  BY <1>11 DEF Gather, world
  <2>2. /\ seen' = [seen EXCEPT ![w] = up]
        /\ coming = {} => age' = [age EXCEPT ![w] = 0]
    BY <1>11 DEF Gather
  <2>3. CalmAges'
    <3>1. ASSUME pc \in {"syncStop"} \cup SyncLooks, NEW v \in Views
          PROVE  Fresh(v)' \/ age'[v] >= checks
      <4>a. coming = {}
        BY <3>1, TestOfLabel DEF ComingInv, DbLabels
      <4>1. CASE v = w  BY <2>1, <2>2, <4>a, <4>1 DEF TypeOK, Fresh
      <4>2. CASE v # w  BY <1>0, <2>1, <2>2, <3>1, <4>a, <4>2 DEF TypeOK, CalmAges, Fresh
      <4> QED  BY <4>1, <4>2
    <3> QED  BY <2>1, <3>1 DEF CalmAges
  <2>4. CalmDbs'
    <3>1. ASSUME pc \in {"healthy", "db1Stop", "db1Look", "db2Stop"} \cup SyncLabels
          PROVE  Dbs \ up \subseteq {"db1"}
      <4>1. test = "status"  BY <3>1, TestOfLabel DEF DbLabels
      <4>2. CASE pc \in {"healthy"} \cup SyncLabels
        BY <4>1, <4>2 DEF StatusInv, Stopped, ComingInv, DbLabels, Dbs, Services
      <4>3. CASE pc \in {"db1Stop", "db1Look", "db2Stop"}
        BY <1>0, <4>1, <4>3 DEF Services
      <4> QED  BY <3>1, <4>2, <4>3
    <3>2. ASSUME NEW v \in Views PROVE seen'[v] = up \/ seen'[v] = seen[v]
      BY <2>2 DEF TypeOK
    <3> QED  BY <1>0, <2>1, <3>1, <3>2
  <2> QED  BY <1>0, <2>1, <2>3, <2>4
<1>12. CASE UNCHANGED vars
  BY <1>0, <1>12 DEF vars, world, CalmAges, Fresh
<1> QED
  BY <1>1, <1>2, <1>3, <1>4, <1>5, <1>6, <1>7, <1>8, <1>9, <1>10, <1>11, <1>12,
    <1>13, <1>14
  DEF Next, Step


-----------------------------------------------------------------------------
(* What the tests find.                                                     *)

\* At first everything runs, everybody knows it and the agent is connected.
LEMMA StartsWell == Init => AgentInv /\ DefectInv /\ AgeInv /\ ComingInv /\ CalmInv
<1> SUFFICES ASSUME Init PROVE AgentInv /\ DefectInv /\ AgeInv /\ ComingInv /\ CalmInv
  OBVIOUS
<1>1. /\ test \in {"status", "failover"} /\ up = Services /\ agent \in Brokers
      /\ coming = {} /\ stopped = Nobody
      /\ restarted = {} /\ checks = 0 /\ tries = 0
      /\ pc = IF test = "status" THEN "healthy" ELSE "validate"
      /\ \A v \in Views : seen[v] = up
  BY Numbers DEF Init
<1>2. AgentInv  BY <1>1 DEF AgentInv, Looking, Services
<1>3. DefectInv  BY <1>1 DEF DefectInv
<1>4. AgeInv  BY <1>1 DEF AgeInv, Fresh
<1>6. ComingInv  BY <1>1 DEF ComingInv, Views
<1>5. CalmInv
  BY <1>1 DEF CalmInv, CalmRuns, CalmAges, CalmDbs, CalmEnd, SyncLabels, SyncLooks, Services
<1> QED  BY <1>2, <1>3, <1>4, <1>5, <1>6

\* An invariant of all that may happen, whatever the defect and the faults.
THEOREM Invariance == Spec => [](IInv /\ AgentInv /\ DefectInv /\ AgeInv /\ ComingInv)
<1> DEFINE Inv == IInv /\ AgentInv /\ DefectInv /\ AgeInv /\ ComingInv
<1>1. Inv /\ [Next]_vars => Inv'
  <2>1. IInv => TypeOK /\ StatusInv /\ FailoverInv  BY DEF IInv
  <2> QED  BY <2>1, StepInv, AgentStep, DefectStep, AgeStep, ComingStep
<1>2. Init => Inv  BY InitInv, StartsWell
<1> QED  BY <1>1, <1>2, PTL DEF Spec

\* While services of one kind are stopped or come up again those of the others run,
\* whichever calls fail, however old the answers are and however often a check is
\* repeated; of the brokers the failover test has no two down before it restarts a
\* second one.
THEOREM OneKindAtATime == Spec => []OneThingAtATime
<1>1. IInv /\ ComingInv => OneThingAtATime
  <2> SUFFICES ASSUME IInv, ComingInv PROVE OneThingAtATime
    OBVIOUS
  <2>1. test = "status" /\ pc # "failed" =>
          \/ Services \ up \subseteq Syncs
          \/ Services \ up \subseteq {"db1", "db2"}
          \/ Services \ up \subseteq Brokers
    BY DEF IInv, StatusInv, ComingInv, Stopped, SyncLabels, SyncLooks, DbLabels, Syncs
  <2>2. pc = "passed" => Services \ up \subseteq Brokers
    <3>1. CASE test = "status"
      BY <3>1 DEF IInv, StatusInv, ComingInv, Stopped, DbLabels
    <3>2. CASE test = "failover"
      BY <3>2 DEF IInv, TypeOK, FailoverInv, ComingInv, Stopped
    <3> QED  BY <3>1, <3>2, Numbers DEF IInv, TypeOK
  <2>3. ASSUME test = "failover", Cardinality(restarted) <= 1
        PROVE  Cardinality(Services \ up) <= 1
    <3>1. IsFiniteSet(restarted)
      <4>1. Brokers = {"br1"} \cup {"br2"} \cup {"br3"}  BY DEF Brokers
      <4>2. IsFiniteSet(Brokers)  BY <4>1, FS_Singleton, FS_Union
      <4> QED  BY <4>2, FS_Subset DEF IInv, TypeOK
    <3>2. PICK b \in Brokers : restarted \subseteq {b}
      <4>1. Cardinality(restarted) \in Nat  BY <3>1, FS_CardinalityType
      <4>2. CASE Cardinality(restarted) = 0
        <5>1. restarted = {}  BY <3>1, <4>2, FS_EmptySet
        <5> QED  BY <5>1 DEF Brokers
      <4>3. CASE Cardinality(restarted) = 1
        <5>1. \E b : restarted = {b}  BY <3>1, <4>3, FS_Singleton
        <5> QED  BY <5>1 DEF IInv, TypeOK
      <4> QED  BY <2>3, <4>1, <4>2, <4>3
    <3>3. Services \ up = {} \/ Services \ up = {stopped}
      BY <2>3, <3>2 DEF ComingInv
    <3>4. Cardinality({}) = 0 /\ Cardinality({stopped}) = 1  BY Counts
    <3> QED  BY <3>3, <3>4
  <2> QED  BY <2>1, <2>2, <2>3 DEF OneThingAtATime
<1> QED  BY <1>1, Invariance, PTL

\* No test passes over a defect it is there to find, however old the answers it gets
\* are, whichever calls fail and however often its checks are repeated.
THEOREM DefectsFound == Spec => []DefectsAreFound
<1>1. IInv /\ DefectInv => DefectsAreFound
  BY DEF IInv, TypeOK, DefectInv, SyncLabels, SyncLooks, DefectsAreFound
<1> QED  BY <1>1, Invariance, PTL

\* Where no status is out of date for as many questions as are asked, a test of a
\* product without the defects whose calls work fails only by its look for the agent's
\* connection before there is one.
THEOREM NoFailureIsFalse ==
  ASSUME Lag < Tries
  PROVE  Spec => []NoFalseFailure
<1>1. IInv /\ AgentInv /\ DefectInv /\ AgeInv /\ ComingInv /\ CalmInv /\ [Next]_vars => CalmInv'
  BY CalmStep DEF IInv
<1>2. CalmInv => NoFalseFailure
  BY DEF CalmInv, Calm, CalmEnd, NoFalseFailure
<1> QED  BY <1>1, <1>2, Invariance, StartsWell, PTL DEF Spec
=============================================================================
