-------------------------- MODULE ClusterBootstrap --------------------------
(***************************************************************************)
(* run_cluster_bootstrap and the VM.bootstrap protocol it drives.           *)
(*                                                                          *)
(* The test process prepares the brokers, the databases and the managers    *)
(* one after the other.  Preparing one of them (a "unit") writes files to   *)
(* the unit's machine over SSH and launches an installation script in the   *)
(* background; the test process learns how the installation ended only      *)
(* from two marker files, /tmp/bootstrap_complete and                       *)
(* /tmp/bootstrap_failed, which are per machine and not per unit.           *)
(***************************************************************************)
EXTENDS Integers, Sequences, FiniteSets

CONSTANTS
  Nodes,          \* the machines
  Brokers,        \* sequence of machines that get a rabbit
  Dbs,            \* sequence of machines that get a database
  Managers,       \* sequence of machines that get a manager
  Skip,           \* units named in skip_bootstrap_list
  PreCluster,     \* pre_cluster_rabbit
  StaleComplete,  \* machines that may hold an old /tmp/bootstrap_complete
  StaleFailed     \* machines that may hold an old /tmp/bootstrap_failed

NumBrokers  == Len(Brokers)
NumBackends == Len(Brokers) + Len(Dbs)
NumUnits    == NumBackends + Len(Managers)

\* A unit is a component of the cluster, numbered in the order in which
\* run_cluster_bootstrap prepares them: rabbit1.., db1.., manager1...  A
\* unit stands for the friendly_name the code gives the node.
Units    == 1..NumUnits
Backends == 1..NumBackends
DbUnits  == NumBrokers + 1 .. NumBackends
NoUnit   == 0

NodeOf(u) == IF u <= NumBrokers THEN Brokers[u]
             ELSE IF u <= NumBackends THEN Dbs[u - NumBrokers]
             ELSE Managers[u - NumBackends]

Needed == Units \ Skip

ASSUME ClusterAssumption ==
  /\ Brokers \in Seq(Nodes) /\ Dbs \in Seq(Nodes) /\ Managers \in Seq(Nodes)
  /\ NumBackends > 0
  /\ Skip \subseteq Units
  /\ PreCluster \in BOOLEAN
  /\ StaleComplete \subseteq Nodes /\ StaleFailed \subseteq Nodes

VARIABLES
  step,         \* the next thing the test process does ...
  unit,         \* ... and the unit it does it for
  friendlyName, \* friendly_name of each node, as the unit it names
  complete,     \* machines with /tmp/bootstrap_complete
  failed,       \* machines with /tmp/bootstrap_failed
  conf,         \* the unit whose configuration is in /tmp/cloudify.conf
  script,       \* the unit whose script is in /tmp/bootstrap_script
  dbNodes,      \* for each manager, the databases its configuration names
  job,          \* the background installation launched for each unit
  up,           \* units whose `cfy_manager install' has succeeded
  broken        \* units whose installation has failed

testProc == <<step, unit, friendlyName, dbNodes>>
tmpFiles == <<complete, failed, conf, script>>
vars == <<step, unit, friendlyName, dbNodes, complete, failed, conf, script,
          job, up, broken>>

Terminal == {"done", "failed", "unreachable"}
Steps == {"prep", "clear", "conf", "script", "launch", "poll", "await"}
           \cup Terminal

\* A background job: where bash is in the script, the unit whose script it
\* is executing and the unit whose configuration it has moved into place.
JobSteps == {"none", "spawned", "move", "install", "touch", "fail", "ended"}
Job == [at : JobSteps, runs : Units \cup {NoUnit}, cfg : Units \cup {NoUnit}]
NoJob == [at |-> "none", runs |-> NoUnit, cfg |-> NoUnit]

Init ==
  /\ step = "prep" /\ unit = 1
  /\ friendlyName = [n \in Nodes |-> NoUnit]
  /\ dbNodes = [u \in Units |-> {}]
  /\ complete \in SUBSET StaleComplete
  /\ failed \in SUBSET StaleFailed
  /\ conf = [n \in Nodes |-> NoUnit]
  /\ script = [n \in Nodes |-> NoUnit]
  /\ job = [u \in Units |-> NoJob]
  /\ up = {} /\ broken = {}

-----------------------------------------------------------------------------
(* Faulty variants of the definitions below: plausible mistakes in the code, *)
(* used only to show that the properties would notice them.                  *)

\* Not waiting for the managers one by one, or for the rabbit to join.
BlockOnRabbit1Only(u) == PreCluster /\ u = 1 /\ NumBrokers > 0
BlockOnManagersOnly(u) == u \notin Backends

\* Bootstrapping a node named in skip_bootstrap_list all the same.
IgnoreSkipList ==
  /\ step = "prep"
  /\ friendlyName' = [friendlyName EXCEPT ![NodeOf(unit)] = unit]
  /\ step' = "clear"
  /\ UNCHANGED <<unit, tmpFiles, job, up, broken>>

\* Telling the managers of the skipped databases too.
ConfigureAllDbs(names) == DbUnits

\* Not removing the old completion marker.
KeepMarker ==
  /\ step = "clear"
  /\ step' = "conf"
  /\ UNCHANGED <<unit, friendlyName, dbNodes, tmpFiles, job, up, broken>>

\* "not done" taken for "failed".
NotDoneIsFailed(n) == n \notin complete

\* Waiting for the brokers only.
AwaitBrokersOnly ==
  \/ unit < NumBrokers /\ step' = "await" /\ unit' = unit + 1
  \/ unit >= NumBrokers /\ step' = "prep" /\ unit' = NumBackends + 1

\* No `|| touch /tmp/bootstrap_failed'.
FailSilently(u) ==
  /\ job[u].at = "fail"
  /\ job' = [job EXCEPT ![u].at = "ended"]
  /\ UNCHANGED <<testProc, tmpFiles, up, broken>>

-----------------------------------------------------------------------------
(* The test process.                                                        *)

\* Rabbits and databases install in parallel, except the rabbit that the
\* others join; "we have to block on every manager".
Blocking(u) == u \notin Backends \/ (PreCluster /\ u = 1 /\ NumBrokers > 0)

\* Where run_cluster_bootstrap goes once it is finished with the current unit.
Proceed ==
  \/ unit = NumBackends /\ step' = "await" /\ unit' = 1
  \/ unit > NumBackends /\ unit = NumUnits /\ step' = "done" /\ unit' = unit
  \/ unit \notin {NumBackends, NumUnits} /\ step' = "prep" /\ unit' = unit + 1

\* The node gets the unit's name, certificates for it and its configuration;
\* a unit in skip_bootstrap_list gets no more than that.
BasePrep ==
  /\ step = "prep"
  /\ friendlyName' = [friendlyName EXCEPT ![NodeOf(unit)] = unit]
  /\ IF unit \in Skip THEN Proceed ELSE step' = "clear" /\ unit' = unit
  /\ UNCHANGED <<tmpFiles, job, up, broken>>

PrepareRabbit == unit <= NumBrokers /\ BasePrep /\ UNCHANGED dbNodes

PrepareDb == unit \in DbUnits /\ BasePrep /\ UNCHANGED dbNodes

\* A manager is told of the databases: of the only one, or of those in the
\* cluster whose node does not go by a skipped name.
ConfiguredDbs(names) ==
  IF Len(Dbs) > 1 THEN {d \in DbUnits : names[NodeOf(d)] \notin Skip} ELSE DbUnits

PrepareManager ==
  /\ unit \notin Backends
  /\ BasePrep
  /\ dbNodes' = [dbNodes EXCEPT ![unit] = ConfiguredDbs(friendlyName')]

Prepare == PrepareRabbit \/ PrepareDb \/ PrepareManager

\* VM.bootstrap: rm -f /tmp/bootstrap_complete (and not bootstrap_failed)
ClearMarker ==
  /\ step = "clear"
  /\ complete' = complete \ {NodeOf(unit)}
  /\ step' = "conf"
  /\ UNCHANGED <<unit, friendlyName, dbNodes, failed, conf, script, job, up,
                 broken>>

PutConfig ==
  /\ step = "conf"
  /\ conf' = [conf EXCEPT ![NodeOf(unit)] = unit]
  /\ step' = "script"
  /\ UNCHANGED <<unit, friendlyName, dbNodes, complete, failed, script, job, up,
                 broken>>

PutScript ==
  /\ step = "script"
  /\ script' = [script EXCEPT ![NodeOf(unit)] = unit]
  /\ step' = "launch"
  /\ UNCHANGED <<unit, friendlyName, dbNodes, complete, failed, conf, job, up,
                 broken>>

\* nohup bash /tmp/bootstrap_script &
Launch ==
  /\ step = "launch"
  /\ job' = [job EXCEPT ![unit].at = "spawned"]
  /\ IF Blocking(unit) THEN step' = "poll" /\ unit' = unit ELSE Proceed
  /\ UNCHANGED <<friendlyName, dbNodes, tmpFiles, up, broken>>

\* What bootstrap_is_complete concludes from the markers.  Neither: the
\* caller sleeps and asks again, and nothing changes.
SeenComplete(n) == n \in complete
SeenFailed(n)   == n \notin complete /\ n \in failed

\* The loop at the end of a blocking bootstrap.
Poll ==
  /\ step = "poll"
  /\ \/ SeenComplete(NodeOf(unit)) /\ Proceed
     \/ SeenFailed(NodeOf(unit)) /\ step' = "failed" /\ unit' = unit
  /\ UNCHANGED <<friendlyName, dbNodes, tmpFiles, job, up, broken>>

\* The loop over brokers + dbs before the managers.  Whether a node is
\* skipped is decided by the friendly_name it has by then.
Awaited == friendlyName[NodeOf(unit)] \notin Skip

AwaitNext ==
  \/ unit < NumBackends /\ step' = "await" /\ unit' = unit + 1
  \/ unit = NumUnits /\ step' = "done" /\ unit' = unit
  \/ unit = NumBackends /\ unit < NumUnits /\ step' = "prep" /\ unit' = unit + 1

Await ==
  /\ step = "await"
  /\ \/ (Awaited => SeenComplete(NodeOf(unit))) /\ AwaitNext
     \/ Awaited /\ SeenFailed(NodeOf(unit)) /\ step' = "failed" /\ unit' = unit
  /\ UNCHANGED <<friendlyName, dbNodes, tmpFiles, job, up, broken>>

\* Every step above talks to the machine over SSH and raises when the
\* connection cannot be made again within the retries.
LoseConnection ==
  /\ step \notin Terminal
  /\ step' = "unreachable"
  /\ UNCHANGED <<unit, friendlyName, dbNodes, tmpFiles, job, up, broken>>

TestProcess ==
  \/ Prepare \/ ClearMarker \/ PutConfig \/ PutScript
  \/ Launch \/ Poll \/ Await

-----------------------------------------------------------------------------
(* The background installations:                                            *)
(*   ( mv cloudify.conf && cfy_manager install && touch bootstrap_complete )*)
(*   || touch bootstrap_failed &                                            *)

\* bash opens the script that is there by now.
ReadScript(u) ==
  /\ job[u].at = "spawned"
  /\ job' = [job EXCEPT ![u].at = "move", ![u].runs = script[NodeOf(u)]]
  /\ UNCHANGED <<testProc, tmpFiles, up, broken>>

MoveConfig(u) ==
  LET n == NodeOf(u) IN
  /\ job[u].at = "move"
  /\ IF conf[n] # NoUnit
     THEN /\ job' = [job EXCEPT ![u].at = "install", ![u].cfg = conf[n]]
          /\ conf' = [conf EXCEPT ![n] = NoUnit]
          /\ UNCHANGED broken
     ELSE /\ job' = [job EXCEPT ![u].at = "fail"]
          /\ broken' = broken \cup {job[u].runs}
          /\ UNCHANGED conf
  /\ UNCHANGED <<testProc, complete, failed, script, up>>

\* cfy_manager installs what the configuration it is given says.
InstallSucceeds(u) ==
  /\ job[u].at = "install"
  /\ job' = [job EXCEPT ![u].at = "touch"]
  /\ up' = up \cup {job[u].cfg}
  /\ UNCHANGED <<testProc, tmpFiles, broken>>

InstallFails(u) ==
  /\ job[u].at = "install"
  /\ job' = [job EXCEPT ![u].at = "fail"]
  /\ broken' = broken \cup {job[u].cfg}
  /\ UNCHANGED <<testProc, tmpFiles, up>>

TouchComplete(u) ==
  /\ job[u].at = "touch"
  /\ job' = [job EXCEPT ![u].at = "ended"]
  /\ complete' = complete \cup {NodeOf(u)}
  /\ UNCHANGED <<testProc, failed, conf, script, up, broken>>

TouchFailed(u) ==
  /\ job[u].at = "fail"
  /\ job' = [job EXCEPT ![u].at = "ended"]
  /\ failed' = failed \cup {NodeOf(u)}
  /\ UNCHANGED <<testProc, complete, conf, script, up, broken>>

RunJob(u) ==
  \/ ReadScript(u) \/ MoveConfig(u)
  \/ InstallSucceeds(u) \/ InstallFails(u)
  \/ TouchComplete(u) \/ TouchFailed(u)

-----------------------------------------------------------------------------
Next == TestProcess \/ LoseConnection \/ (\E u \in Units : RunJob(u))

Spec == Init /\ [][Next]_vars

\* The test process is a sequential program that never waits but in its
\* polling loops; a job is a shell on a running machine.
Fairness == WF_vars(TestProcess) /\ \A u \in Units : WF_vars(RunJob(u))

FairSpec == Spec /\ Fairness

-----------------------------------------------------------------------------
(* Properties.                                                              *)

TypeOK ==
  /\ step \in Steps
  /\ unit \in Units
  /\ friendlyName \in [Nodes -> Units \cup {NoUnit}]
  /\ dbNodes \in [Units -> SUBSET DbUnits]
  /\ complete \subseteq Nodes /\ failed \subseteq Nodes
  /\ conf \in [Nodes -> Units \cup {NoUnit}]
  /\ script \in [Nodes -> Units \cup {NoUnit}]
  /\ job \in [Units -> Job]
  /\ up \subseteq Units \cup {NoUnit} /\ broken \subseteq Units \cup {NoUnit}

Launched == {u \in Units : job[u].at # "none"}

\* "Ensure all backend nodes are up before installing managers": whenever a
\* manager's installation has been launched, every broker and database that
\* is not skipped has been installed successfully, whatever the markers say.
BackendsUpBeforeManagers ==
  (\E m \in Launched : m \notin Backends) => Backends \cap Needed \subseteq up

\* "We have to block on every manager": a manager's installation is launched
\* only when those of the managers before it have succeeded.
ManagersOneAtATime ==
  \A m, k \in Units \ Backends :
    m \in Launched /\ k < m /\ k \in Needed => k \in up

\* A rabbit that joins rabbit1 is only installed when rabbit1 is up.
JoinTargetUp ==
  PreCluster /\ NumBrokers > 0 /\ 1 \in Needed =>
    \A r \in Launched : 1 < r /\ r <= NumBrokers => 1 \in up

\* The managers of a cluster with several databases are configured with
\* exactly the databases that were installed, and these are up.
ManagersKnowTheDbs ==
  Len(Dbs) > 1 =>
    \A m \in Launched \ Backends :
      dbNodes[m] = DbUnits \cap Needed /\ dbNodes[m] \subseteq up

\* The fixture hands the cluster to a test only when everything it was asked
\* to install is installed.
DoneMeansUp == step = "done" => Needed \subseteq up

\* "BOOTSTRAP FAILED!" is only reported when an installation of this run
\* failed (machines that start without old markers).
NoFalseAlarm == step = "failed" => broken # {}

\* The bootstrap always comes to an end: no installation ends without
\* leaving the marker its poll waits for.
Termination == <>(step \in Terminal)

\* The assumption that the full cluster meets and the compact one does not.
SeparateMachines ==
  \A u, v \in Units : NodeOf(u) = NodeOf(v) => u = v

-----------------------------------------------------------------------------
(* The refinement of ClusterStartup.                                        *)

Requires == [u \in Units |->
  Needed \cap IF u \notin Backends THEN 1..(u - 1)
              ELSE IF PreCluster /\ 1 < u /\ u <= NumBrokers THEN {1}
              ELSE {}]

Outcome == CASE step = "done" -> "success"
             [] step \in {"failed", "unreachable"} -> "error"
             [] OTHER -> "running"

Startup == INSTANCE ClusterStartup WITH
             started <- Launched, up <- up, outcome <- Outcome

\* In terms of what is really installed, the bootstrap starts every component
\* after those it depends on and succeeds only when all are up.
StartupSpec == Startup!Spec
=============================================================================
