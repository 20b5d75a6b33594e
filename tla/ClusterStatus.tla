---------------------------- MODULE ClusterStatus ----------------------------
(***************************************************************************)
(* Tests that stop services of a cluster and ask its managers whether they  *)
(* noticed.  The status a manager reports is what it last gathered, so      *)
(* every question is repeated a number of times: an answer that satisfies   *)
(* the test may be an old one.                                              *)
(*                                                                         *)
(* Test "status" stops the file synchronisation of mgr1, two databases and  *)
(* the brokers in turn; test "failover" stops and restarts brokers under    *)
(* an agent until it is back on one that has been restarted.                *)
(***************************************************************************)
EXTENDS Naturals, FiniteSets

CONSTANTS Tests,    \* the tests to run: a subset of {"status", "failover"}
          Defects,  \* defects of the product that they may meet
          Lag,      \* questions a gathered status may be out of date for
          Tries,    \* times a question, or a whole check, is repeated
          Faults    \* how many calls to a node may fail

ASSUME ClusterStatusAssumption ==
  /\ Tests \subseteq {"status", "failover"}
  /\ Lag \in Nat /\ Tries \in Nat \ {0} /\ Faults \in Nat

Syncs   == {"sync1", "sync2"}
Dbs     == {"db1", "db2", "db3"}
Brokers == {"br1", "br2", "br3"}
Services == Syncs \cup Dbs \cup Brokers

\* mgr1's own status, and the status of the cluster as mgr1 and mgr2 have it
\* (what mgr2 says of itself is in the latter).
Views == {"own", "mgr1", "mgr2"}
Nobody == "nobody"

VARIABLES
  test, defect,
  up,         \* the services that run
  coming,     \* those that have been started and do not run yet
  seen, age,  \* for every view, those that ran when it was gathered, and since when
  agent,      \* the broker the example's agent is connected to
  pc,
  tries,      \* attempts of this question
  checks,     \* and of this check
  stopped,    \* agent_broker: the broker the failover test has stopped
  target,     \* new_agent_broker_ip
  restarted,  \* restarted_broker_ips
  faults,
  why         \* why the test failed

world == <<test, defect, up, coming, agent, faults>>
loop  == <<stopped, target, restarted>>
vars  == <<world, seen, age, pc, tries, checks, loop, why>>

Init ==
  /\ test \in Tests /\ defect \in Defects
  /\ up = Services /\ coming = {}
  /\ seen = [v \in Views |-> Services] /\ age = [v \in Views |-> 0]
  /\ agent \in Brokers
  /\ pc = IF test = "status" THEN "healthy" ELSE "validate"
  /\ tries = 0 /\ checks = 0
  /\ stopped = Nobody /\ target = Nobody /\ restarted = {}
  /\ faults = 0 /\ why = "none"

----------------------------------------------------------------------------
(* What the managers say *)

\* A defect may hide a kind of service from them.
Hidden == CASE defect = "sync" -> Syncs [] defect = "db" -> Dbs
            [] defect = "broker" -> Brokers [] OTHER -> {}
Down(v, kind) == kind \ (seen[v] \cup Hidden)

Status(v, kind, tolerated) ==
  LET n == Cardinality(Down(v, kind))
  IN  IF n = 0 THEN "OK" ELSE IF n <= tolerated THEN "Degraded" ELSE "Fail"
Db(v)      == Status(v, Dbs, 1)
Broker(v)  == Status(v, Brokers, 2)
Manager(v) == Status(v, Syncs, 1)
Cluster(v) ==
  LET parts == {Db(v), Broker(v), Manager(v)}
  IN  IF "Fail" \in parts THEN "Fail" ELSE IF "Degraded" \in parts THEN "Degraded" ELSE "OK"
Own(v, sync) ==
  IF sync \notin Down(v, Syncs) /\ Broker(v) # "Fail" THEN "OK" ELSE "Fail"
OwnStatus == Own("own", "sync1")

\* Without a majority of databases a manager answers no question, but for one
\* with the defect of going on as if nothing had happened.
Answers == Cardinality(up \cap Dbs) >= 2 \/ defect = "quorum"

\* Nothing is left to be noticed.
Fresh(v) == coming = {} /\ seen[v] = up

Gather(v) ==
  /\ seen[v] # up
  /\ seen' = [seen EXCEPT ![v] = up]
  /\ age' = IF coming = {} THEN [age EXCEPT ![v] = 0] ELSE age
  /\ UNCHANGED <<world, pc, tries, checks, loop, why>>

ComesUp ==
  /\ \E s \in coming : up' = up \cup {s} /\ coming' = coming \ {s}
  /\ age' = [v \in Views |-> IF coming' = {} /\ seen[v] = up' THEN 0 ELSE age[v]]
  /\ UNCHANGED <<test, defect, agent, faults, seen, pc, tries, checks, loop, why>>

AgentConnects ==
  /\ agent = Nobody
  /\ \E b \in up \cap Brokers :
       /\ defect = "shuns" => b \notin restarted
       /\ agent' = b
  /\ UNCHANGED <<test, defect, up, coming, faults, seen, age, pc, tries, checks, loop, why>>

----------------------------------------------------------------------------
(* The tests *)

\* "It can take time for prometheus state to update.  Thirty seconds should be
\* much more than enough": a question takes time, in which what was started comes
\* up and is noticed, no view gets older than Lag, and an agent finds another
\* broker.
Tick ==
  /\ \A v \in Views : Fresh(v) \/ age[v] < Lag
  /\ agent = Nobody => tries < Lag
  /\ age' = [v \in Views |-> IF Fresh(v) THEN 0 ELSE age[v] + 1]
  /\ UNCHANGED seen

Goto(l) == pc' = l /\ tries' = 0
Fail(reason) == Goto("failed") /\ why' = reason /\ UNCHANGED checks

\* A check that is repeated for ever.
RepeatForever(first) == Goto(first) /\ UNCHANGED <<checks, why>>

\* retrying.retry around a whole check: it starts again with its first command.
Repeat(first) ==
  IF checks + 1 < Tries
  THEN Goto(first) /\ checks' = checks + 1 /\ UNCHANGED why
  ELSE Fail("exhausted")

Unsatisfied(l) ==
  CASE l \in {"syncStop", "syncLook", "syncOther", "syncActive", "syncStart", "syncWait"}
         -> Repeat("syncStop")
    [] l \in {"db1Stop", "db1Look", "db2Stop", "quorum", "db1Start", "db2Start", "dbWait"}
         -> Repeat("db1Stop")
    [] OTHER -> Fail("exhausted")

Healthy == Cluster("mgr1") = "OK"

\* A check that does not look at the status.
AnyStatus(status) == Answers /\ OwnStatus = "OK"

AfterDbChange(status) ==
  Answers /\ Cluster("mgr1") = status /\ Db("mgr1") = status /\ OwnStatus = "OK"

Validated(brokers) ==
  /\ Answers /\ OwnStatus = "OK" /\ Manager("mgr1") = "OK" /\ Db("mgr1") = "OK"
  /\ Broker("mgr1") = brokers

\* A check that looks at whether a manager works only.
LookAtManager(l) == Manager("mgr2") # "Fail"

\* With the file synchronisation of mgr1 stopped: of mgr1's own status, and of
\* what mgr2 says of the cluster and of itself.
SyncSeen(l) ==
  CASE l = "syncLook"   -> OwnStatus = "Fail" /\ "sync1" \in Down("own", Syncs)
    [] l = "syncOther"  -> Cluster("mgr2") = "Degraded" /\ Manager("mgr2") = "Degraded"
    [] l = "syncActive" -> Own("mgr2", "sync2") = "OK" /\ "sync2" \notin Down("mgr2", Syncs)

Satisfied(l) ==
  CASE l = "healthy"  -> Healthy
    [] l \in {"syncLook", "syncOther", "syncActive"} -> SyncSeen(l)
    [] l = "syncWait" -> Healthy
    [] l = "db1Look"  -> AfterDbChange("Degraded")
    [] l = "dbWait"   -> AfterDbChange("OK")
    [] l = "br1Look"  -> /\ Cluster("mgr1") = "Degraded" /\ Broker("mgr1") = "Degraded"
                         /\ "br1" \in Down("mgr1", Brokers) /\ OwnStatus = "OK"
    [] l = "brLook"   -> /\ Cluster("mgr1") = "Fail" /\ Broker("mgr1") = "Fail"
                         /\ OwnStatus = "Fail"
    [] l = "validate" -> Validated("OK")
    [] l = "agents"   -> agent # Nobody
    [] l = "degraded" -> Validated("Degraded")
    [] l = "wait"     -> Broker("mgr1") = "OK"

After ==
  [healthy |-> "syncStop", syncLook |-> "syncOther", syncOther |-> "syncActive",
   syncActive |-> "syncStart", syncWait |-> "db1Stop",
   db1Look |-> "db2Stop", dbWait |-> "br1Stop", br1Look |-> "br2Stop",
   brLook |-> "passed", validate |-> "first", agents |-> "degraded",
   degraded |-> "look1", wait |-> "stop"]

\* A check that does not repeat its questions.
AskOnce(l) == 1

\* How often a question is repeated before the check it is part of fails.
Limit(l) ==
  IF l \in {"syncLook", "syncOther", "syncActive"} THEN 1 ELSE Tries

Ask ==
  /\ pc \in DOMAIN After
  /\ Tick
  /\ IF Satisfied(pc)
     THEN IF pc = "db1Look" /\ "db1" \notin Down("mgr1", Dbs)
          THEN Unsatisfied(pc)
          ELSE /\ Goto(After[pc]) /\ UNCHANGED why
               /\ checks' = IF pc \in {"syncWait", "dbWait"} THEN 0 ELSE checks
     ELSE IF tries + 1 < Limit(pc)
          THEN tries' = tries + 1 /\ UNCHANGED <<pc, checks, why>>
          ELSE Unsatisfied(pc)
  /\ UNCHANGED <<world, loop>>

\* With two databases gone, an error is what is expected, and no error passes.
AskWithoutQuorum ==
  /\ pc = "quorum"
  /\ Tick /\ Goto("db1Start")
  /\ UNCHANGED <<world, checks, loop, why>>

Stops ==
  [syncStop |-> "sync1", db1Stop |-> "db1", db2Stop |-> "db2", br1Stop |-> "br1",
   br2Stop |-> "br2", br3Stop |-> "br3"]
Starts == [syncStart |-> "sync1", db1Start |-> "db1", db2Start |-> "db2"]
Following ==
  [syncStop |-> "syncLook", syncStart |-> "syncWait", db1Stop |-> "db1Look",
   db2Stop |-> "quorum", db1Start |-> "db2Start", db2Start |-> "dbWait",
   br1Stop |-> "br1Look", br2Stop |-> "br3Stop", br3Stop |-> "brLook"]

StopService ==
  /\ pc \in DOMAIN Stops
  /\ up' = up \ {Stops[pc]} /\ coming' = coming \ {Stops[pc]}
  /\ Goto(Following[pc])
  /\ UNCHANGED <<test, defect, agent, faults, seen, age, checks, loop, why>>

\* The command returns when the process runs.  A database or a broker has to join
\* its cluster before it counts.
Starting(s) ==
  IF s \in Syncs
  THEN up' = up \cup {s} /\ UNCHANGED coming
  ELSE coming' = coming \cup ({s} \ up) /\ UNCHANGED up

StartService ==
  /\ pc \in DOMAIN Starts
  /\ Starting(Starts[pc])
  /\ Goto(Following[pc])
  /\ UNCHANGED <<test, defect, agent, faults, seen, age, checks, loop, why>>

\* A call to a node fails.  Where its question is retried it counts as an attempt;
\* elsewhere it ends the check that it is part of.
CallFails ==
  /\ pc \notin {"passed", "failed"} /\ faults < Faults
  /\ faults' = faults + 1
  /\ IF pc \in DOMAIN After \ {"healthy", "syncWait", "wait"} /\ tries + 1 < Limit(pc)
     THEN Tick /\ tries' = tries + 1 /\ UNCHANGED <<pc, checks, why>>
     ELSE Unsatisfied(pc) /\ UNCHANGED <<seen, age>>
  /\ UNCHANGED <<test, defect, up, coming, agent, loop>>

\* The broker of the agent is stopped, and with it the agent's connection.
StopBroker(b, next) ==
  /\ up' = up \ {b} /\ coming' = coming \ {b} /\ stopped' = b
  /\ agent' = IF agent = b THEN Nobody ELSE agent
  /\ Goto(next)
  /\ UNCHANGED <<test, defect, faults, seen, age, checks, restarted, why>>

StopFirst ==
  /\ pc = "first" /\ agent # Nobody
  /\ StopBroker(agent, "agents") /\ UNCHANGED target

StopNext ==
  /\ pc = "stop"
  /\ StopBroker(target, "look") /\ UNCHANGED target

StartBroker ==
  /\ pc = "start"
  /\ Starting(stopped) /\ restarted' = restarted \cup {stopped}
  /\ Goto("wait")
  /\ UNCHANGED <<test, defect, agent, faults, seen, age, checks, stopped, target, why>>

\* The agent's connection is looked for once; there may be none yet.
LookForOther ==
  /\ pc = "look1"
  /\ target' = agent
  /\ IF agent = stopped THEN Fail("assert") ELSE Goto("start") /\ UNCHANGED <<checks, why>>
  /\ UNCHANGED <<world, seen, age, stopped, restarted>>

LookForRestarted ==
  /\ pc = "look"
  /\ IF agent = Nobody
     THEN Fail("early") /\ UNCHANGED target
     ELSE /\ target' = agent
          /\ IF Cardinality(restarted) >= 3
             THEN Fail("assert")
             ELSE /\ Goto(IF agent \in restarted THEN "passed" ELSE "start")
                  /\ UNCHANGED <<checks, why>>
  /\ UNCHANGED <<world, seen, age, stopped, restarted>>

Step ==
  \/ Ask \/ AskWithoutQuorum \/ StopService \/ StartService
  \/ StopFirst \/ StopNext \/ StartBroker \/ LookForOther \/ LookForRestarted

Next == Step \/ CallFails \/ ComesUp \/ AgentConnects \/ \E v \in Views : Gather(v)

\* The test's process goes on; what was started comes up; prometheus gathers; an
\* agent without a broker looks for one.
Fairness ==
  /\ WF_vars(Step) /\ WF_vars(ComesUp) /\ WF_vars(AgentConnects)
  /\ \A v \in Views : WF_vars(Gather(v))

Spec == Init /\ [][Next]_vars /\ Fairness

----------------------------------------------------------------------------
(* Properties *)

Labels == DOMAIN After \cup DOMAIN Following
            \cup {"quorum", "first", "look1", "look", "stop", "start", "passed", "failed"}

\* The variables hold what their comments say, and no count exceeds its limit.
TypeOK ==
  /\ test \in Tests /\ defect \in Defects
  /\ up \subseteq Services /\ coming \subseteq (Dbs \cup Brokers) \ up
  /\ seen \in [Views -> SUBSET Services] /\ age \in [Views -> 0 .. Lag]
  /\ agent \in Brokers \cup {Nobody}
  /\ pc \in Labels
  /\ tries \in 0 .. Tries - 1 /\ checks \in 0 .. Tries - 1
  /\ stopped \in Brokers \cup {Nobody} /\ target \in Brokers \cup {Nobody}
  /\ restarted \subseteq Brokers
  /\ faults \in 0 .. Faults
  /\ why \in {"none", "exhausted", "early", "assert"}

\* The tests are there to find these: a status that hides a stopped service, an
\* agent that never goes back to a broker.  A test that passes over one has been
\* answered by something else than what it asked about.
DefectsAreFound ==
  pc = "passed" =>
    /\ test = "status" => defect \notin {"sync", "db", "broker"}
    /\ test = "failover" => defect \notin {"broker", "shuns"}

\* One thing at a time: while services of one kind do not run those of the others
\* do, so that a degraded status is due to what was stopped, although a start
\* returns before the service counts and the status asked for may be an old one;
\* the databases and the file synchronisation are left running, and until the
\* second restart of a broker no two of them are down.  (From then on two may be:
\* nothing has shown that the status the test waits for is not older than the
\* stop.)
OneThingAtATime ==
  LET down == Services \ up IN
  /\ test = "status" /\ pc # "failed" =>
       down \subseteq Syncs \/ down \subseteq {"db1", "db2"} \/ down \subseteq Brokers
  /\ pc = "passed" => down \subseteq Brokers
  /\ test = "failover" /\ Cardinality(restarted) <= 1 => Cardinality(down) <= 1

\* "Thirty seconds should be much more than enough": with a product that has
\* none of the defects and calls that work, no test fails, but for a look for
\* the agent's connection before there is one.
NoFalseFailure ==
  pc = "failed" /\ defect \in {"none", "quorum"} /\ faults = 0 => why = "early"

\* Retries are bounded at every level: every test comes to a verdict.
Ends == <>(pc \in {"passed", "failed"})
=============================================================================
