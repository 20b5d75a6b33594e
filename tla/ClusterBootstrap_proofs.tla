----------------------- MODULE ClusterBootstrap_proofs -----------------------
(***************************************************************************)
(* Proofs about ClusterBootstrap, for every cluster: any number of machines *)
(* and components, any set of skipped units, with or without old markers on *)
(* the machines.                                                            *)
(***************************************************************************)
EXTENDS ClusterBootstrap, TLAPS

-----------------------------------------------------------------------------
(* The constants.                                                           *)

\* The numbers of brokers, backends and units are naturals, in that order.
LEMMA Sizes ==
  /\ NumBrokers \in Nat /\ NumBackends \in Nat /\ NumUnits \in Nat
  /\ NumBrokers <= NumBackends /\ NumBackends <= NumUnits
  /\ 0 < NumBackends
BY ClusterAssumption DEF NumBrokers, NumBackends, NumUnits

\* Every unit has a machine.
LEMMA NodeOfType == \A u \in Units : NodeOf(u) \in Nodes
<1>1. TAKE u \in Units
<1>2. CASE u <= NumBrokers
  <2>1. u \in 1..Len(Brokers)  BY <1>2, Sizes DEF Units, NumBrokers
  <2> QED  BY <1>2, <2>1, ClusterAssumption DEF NodeOf
<1>3. CASE ~(u <= NumBrokers) /\ u <= NumBackends
  <2>1. u - NumBrokers \in 1..Len(Dbs)
    BY <1>3, Sizes, ClusterAssumption DEF Units, NumBrokers, NumBackends
  <2> QED  BY <1>3, <2>1, ClusterAssumption DEF NodeOf
<1>4. CASE ~(u <= NumBrokers) /\ ~(u <= NumBackends)
  <2>1. u - NumBackends \in 1..Len(Managers)
    BY <1>4, Sizes, ClusterAssumption DEF Units, NumUnits, NumBackends
  <2> QED  BY <1>4, <2>1, ClusterAssumption DEF NodeOf
<1> QED  BY <1>2, <1>3, <1>4

-----------------------------------------------------------------------------
(* Type correctness.                                                        *)

\* The three ways to prepare a unit differ only in the configuration.
LEMMA PrepareFacts == Prepare => BasePrep
BY DEF Prepare, PrepareRabbit, PrepareDb, PrepareManager

\* The current unit stays a unit: none of the loops runs past its end.
LEMMA UnitType ==
  ASSUME unit \in Units, step \in Steps,
         Proceed \/ AwaitNext
  PROVE  unit' \in Units /\ step' \in Steps
BY Sizes DEF Proceed, AwaitNext, Units, Steps, Terminal

\* Every action keeps the types: Proceed and AwaitNext stay within the units, the
\* rest only assigns members of the declared sets.
LEMMA TypeStep == TypeOK /\ [Next]_vars => TypeOK'
<1> SUFFICES ASSUME TypeOK, [Next]_vars PROVE TypeOK'
  OBVIOUS
<1> USE NodeOfType DEF TypeOK, tmpFiles, testProc
<1>1. ASSUME TestProcess PROVE TypeOK'
  <2>1. CASE Prepare
    <3>1. unit' \in Units /\ step' \in Steps
      BY <2>1, UnitType, PrepareFacts DEF BasePrep, Steps
    <3>2. dbNodes' \in [Units -> SUBSET DbUnits]
      BY <2>1 DEF Prepare, PrepareRabbit, PrepareDb, PrepareManager, ConfiguredDbs
    <3> QED  BY <2>1, <3>1, <3>2, PrepareFacts DEF BasePrep
  <2>2. CASE ClearMarker  BY <2>2 DEF ClearMarker, Steps
  <2>3. CASE PutConfig  BY <2>3 DEF PutConfig, Steps
  <2>4. CASE PutScript  BY <2>4 DEF PutScript, Steps
  <2>5. CASE Launch
    <3>1. unit' \in Units /\ step' \in Steps
      BY <2>5, UnitType DEF Launch, Steps
    <3>2. job' \in [Units -> Job]  BY <2>5 DEF Launch, Job, JobSteps
    <3> QED  BY <2>5, <3>1, <3>2 DEF Launch
  <2>6. CASE Poll
    <3>1. unit' \in Units /\ step' \in Steps
      BY <2>6, UnitType DEF Poll, Steps, Terminal
    <3> QED  BY <2>6, <3>1 DEF Poll
  <2>7. CASE Await
    <3>1. unit' \in Units /\ step' \in Steps
      BY <2>7, UnitType DEF Await, Steps, Terminal
    <3> QED  BY <2>7, <3>1 DEF Await
  <2> QED  BY <1>1, <2>1, <2>2, <2>3, <2>4, <2>5, <2>6, <2>7 DEF TestProcess
<1>2. CASE LoseConnection  BY <1>2 DEF LoseConnection, Steps, Terminal
<1>3. ASSUME NEW u \in Units, RunJob(u) PROVE TypeOK'
  <2> USE DEF Job, JobSteps
  <2>1. CASE ReadScript(u)
    <3>1. job[u] \in Job /\ script[NodeOf(u)] \in Units \cup {NoUnit}
      BY <2>1, NodeOfType DEF ReadScript
    <3>2. [job[u] EXCEPT !.at = "move", !.runs = script[NodeOf(u)]] \in Job  BY <3>1
    <3> HIDE DEF Job, JobSteps
    <3>3. job' \in [Units -> Job]  BY <2>1, <3>2 DEF ReadScript
    <3> QED  BY <2>1, <3>3 DEF ReadScript
  <2>2. CASE MoveConfig(u)  BY <2>2 DEF MoveConfig
  <2>3. CASE InstallSucceeds(u)  BY <2>3 DEF InstallSucceeds
  <2>4. CASE InstallFails(u)  BY <2>4 DEF InstallFails
  <2>5. CASE TouchComplete(u)  BY <2>5 DEF TouchComplete
  <2>6. CASE TouchFailed(u)  BY <2>6 DEF TouchFailed
  <2> QED  BY <1>3, <2>1, <2>2, <2>3, <2>4, <2>5, <2>6 DEF RunJob
<1>4. CASE UNCHANGED vars  BY <1>4 DEF vars
<1> QED  BY <1>1, <1>2, <1>3, <1>4 DEF Next

\* A bootstrap starts with its variables in their types.
LEMMA TypeInit == Init => TypeOK
BY Sizes, ClusterAssumption
DEF Init, TypeOK, Units, Steps, Job, JobSteps, NoJob, NoUnit

\* Every variable keeps its type in every run of every cluster; in particular
\* the loops over brokers, dbs and managers never index past their lists.
THEOREM TypeCorrect == Spec => []TypeOK
<1>1. Init => TypeOK  BY TypeInit
<1>2. TypeOK /\ [Next]_vars => TypeOK'  BY TypeStep
<1> QED  BY <1>1, <1>2, PTL DEF Spec

-----------------------------------------------------------------------------
(* The inductive invariant.                                                 *)

\* The test process is preparing or polling the current unit.
Installing == step \in {"prep", "clear", "conf", "script", "launch", "poll"}

\* The units that the test process has already dealt with (launched or
\* skipped); every unit may be one once it has stopped with an error.
Reached(v) ==
  \/ Installing /\ (v < unit \/ (v = unit /\ step = "poll"))
  \/ step = "await" /\ v \in Backends
  \/ step \in Terminal

\* Jobs exist for the units already reached, and all that are needed have one.
JobsFollowTheTest ==
  \A v \in Units :
    /\ v \in Launched => v \in Needed /\ Reached(v)
    /\ Reached(v) /\ v \in Needed /\ step \notin {"failed", "unreachable"}
         => v \in Launched

\* A machine is named after its unit from the preparation on.
NamesFollowTheTest ==
  \A v \in Units :
    \/ step \in Terminal
    \/ ~Reached(v) /\ (v = unit => step \in {"prep", "await"})
    \/ friendlyName[NodeOf(v)] = v

\* Files in /tmp belong to the unit of the machine.
FilesBelongToUnit ==
  \A v \in Units :
    /\ conf[NodeOf(v)] \in {NoUnit, v}
    /\ script[NodeOf(v)] \in {NoUnit, v}
    /\ job[v].runs \in {NoUnit, v}
    /\ job[v].cfg \in {NoUnit, v}
    /\ job[v].at = "install" => job[v].cfg = v
    /\ job[v].at = "touch" => v \in up

\* Once the job of a unit exists, the completion marker tells the truth; just
\* before, there is none.
MarkersTellTheTruth ==
  /\ \A v \in Launched : NodeOf(v) \in complete => v \in up
  /\ step \in {"conf", "script", "launch"} => NodeOf(unit) \notin complete

\* What the test process has waited for is up.
WaitedIsUp ==
  /\ step = "await" \/ (Installing /\ unit \notin Backends)
       => \A v \in Needed : v < unit => v \in up
  /\ step = "await" => unit \in Backends
  /\ step \in {"clear", "conf", "script", "launch", "poll"} => unit \in Needed

\* rabbit1 is up whenever the test process is past it.
Rabbit1IsUp ==
  /\ PreCluster /\ NumBrokers > 0 /\ 1 \in Needed
  /\ step = "await" \/ (Installing /\ unit # 1)
  => 1 \in up

\* The order of launches, kept after the test process has stopped too.
LaunchOrder ==
  \A m \in Launched : m \notin Backends => \A v \in Needed : v < m => v \in up

\* The databases a manager is configured with, from its preparation on.
DbsKnown ==
  Len(Dbs) > 1 =>
    \A m \in Units \ Backends :
      \/ m \in Launched
      \/ m = unit /\ step \in {"clear", "conf", "script", "launch"}
      => dbNodes[m] = DbUnits \cap Needed

IInv ==
  /\ TypeOK
  /\ JobsFollowTheTest
  /\ NamesFollowTheTest
  /\ FilesBelongToUnit
  /\ MarkersTellTheTruth
  /\ WaitedIsUp
  /\ Rabbit1IsUp
  /\ LaunchOrder
  /\ DbsKnown
  /\ JoinTargetUp
  /\ DoneMeansUp

-----------------------------------------------------------------------------
(* Every step preserves each part of the invariant.                         *)

\* Moving on to the next unit makes exactly the current one reached.
LEMMA ProceedReached ==
  ASSUME TypeOK, Installing, Proceed
  PROVE  /\ \A v \in Units : Reached(v)' <=> v <= unit
         /\ step' \in {"prep", "await", "done"}
BY Sizes DEF TypeOK, Installing, Proceed, Reached, Units, Backends, Terminal

\* A job exists only for a unit the test process has reached and needs, and runs
\* what was launched for it.
LEMMA JobsStep ==
  ASSUME IInv, [Next]_vars
  PROVE  JobsFollowTheTest'
<1> USE DEF IInv, JobsFollowTheTest, Launched
<1>1. CASE Prepare
  <2>1. CASE unit \in Skip
    BY <1>1, <2>1, ProceedReached, PrepareFacts DEF BasePrep, Installing, Reached, Needed,
       TypeOK, Terminal, Units
  <2>2. CASE unit \notin Skip
    BY <1>1, <2>2, PrepareFacts DEF BasePrep, Installing, Reached, Terminal
  <2> QED  BY <2>1, <2>2
<1>2. CASE ClearMarker \/ PutConfig \/ PutScript
  BY <1>2 DEF ClearMarker, PutConfig, PutScript, Installing, Reached, Terminal
<1>3. CASE Launch
  <2>1. unit \in Needed /\ step = "launch" /\ Launched' = Launched \cup {unit}
    BY <1>3 DEF Launch, WaitedIsUp, TypeOK, Job
  <2>2. \A v \in Units : Reached(v)' <=> v <= unit
    BY <1>3, ProceedReached DEF Launch, Installing, Reached, Terminal, TypeOK,
       Units
  <2>3. \A v \in Units : Reached(v) <=> v < unit
    BY <2>1 DEF Installing, Reached, Terminal, TypeOK, Units
  <2>4. step' \in {"poll", "prep", "await", "done"}
    BY <1>3, ProceedReached DEF Launch, Installing
  <2> QED  BY <2>1, <2>2, <2>3, <2>4, <1>3 DEF Launch, TypeOK, Units
<1>4. CASE Poll
    BY <1>4, ProceedReached DEF Poll, Installing, Reached, Terminal, Needed, TypeOK, Units
<1>5. CASE Await
  BY <1>5, Sizes DEF Await, AwaitNext, Installing, Reached, Terminal, TypeOK,
     Units, Backends, WaitedIsUp
<1>6. CASE LoseConnection
  BY <1>6 DEF LoseConnection, Reached, Terminal, Installing
<1>7. ASSUME NEW u \in Units, RunJob(u) PROVE JobsFollowTheTest'
  <2>1. Launched' = Launched /\ UNCHANGED <<step, unit>>
    BY <1>7 DEF RunJob, ReadScript, MoveConfig, InstallSucceeds, InstallFails,
       TouchComplete, TouchFailed, testProc, TypeOK, Job
  <2> QED  BY <2>1 DEF Reached, Installing
<1>8. CASE UNCHANGED vars  BY <1>8 DEF vars, Reached, Installing
<1> QED  BY <1>1, <1>2, <1>3, <1>4, <1>5, <1>6, <1>7, <1>8 DEF Next, TestProcess

\* A background job changes neither what the test process does next nor which
\* jobs exist, and nothing that is up goes down.
LEMMA JobFrame ==
  ASSUME TypeOK, NEW u \in Units, RunJob(u)
  PROVE  /\ UNCHANGED <<step, unit, friendlyName, script, Launched>>
         /\ \A v \in Units : Reached(v)' <=> Reached(v)
         /\ Installing' <=> Installing
         /\ up \subseteq up'
BY DEF RunJob, ReadScript, MoveConfig, InstallSucceeds, InstallFails,
   TouchComplete, TouchFailed, testProc, tmpFiles, TypeOK, Job, Launched,
   Reached, Installing

\* A node keeps the name that the preparation of its unit gave it.
LEMMA NamesStep ==
  ASSUME SeparateMachines, IInv, [Next]_vars
  PROVE  NamesFollowTheTest'
<1> USE DEF IInv, NamesFollowTheTest
<1>1. CASE Prepare
  <2>1. \A v \in Units : friendlyName'[NodeOf(v)]
                           = IF v = unit THEN unit ELSE friendlyName[NodeOf(v)]
    BY <1>1, NodeOfType, PrepareFacts DEF BasePrep, TypeOK, SeparateMachines
  <2>2. CASE unit \in Skip
    <3>1. step = "prep" /\ Proceed  BY <1>1, <2>2, PrepareFacts DEF BasePrep
    <3>2. \A v \in Units : Reached(v) <=> v < unit
      BY <3>1 DEF Reached, Installing, Terminal
    <3>3. /\ \A v \in Units : Reached(v)' <=> v <= unit
          /\ step' \in {"prep", "await", "done"}
      BY <3>1, ProceedReached DEF Installing
    <3> QED  BY <2>1, <3>1, <3>2, <3>3 DEF TypeOK, Terminal, Units
  <2>3. CASE unit \notin Skip
    BY <1>1, <2>1, <2>3, PrepareFacts DEF BasePrep, Installing, Reached, TypeOK, Terminal, Units
  <2> QED  BY <2>2, <2>3
<1>2. CASE ClearMarker \/ PutConfig \/ PutScript
  BY <1>2 DEF ClearMarker, PutConfig, PutScript, Installing, Reached, Terminal
<1>3. CASE Launch \/ Poll
  <2>1. CASE Proceed
    <3>1. step \in {"launch", "poll"} /\ UNCHANGED friendlyName
      BY <1>3 DEF Launch, Poll
    <3>2. \A v \in Units : v <= unit => Reached(v) \/ v = unit
      BY <3>1 DEF Reached, Installing, TypeOK, Units
    <3>3. /\ \A v \in Units : Reached(v)' <=> v <= unit
          /\ step' \in {"prep", "await", "done"}
      BY <2>1, <3>1, ProceedReached DEF Installing
    <3>4. \A v \in Units : v <= unit => friendlyName[NodeOf(v)] = v
      BY <3>1, <3>2 DEF Terminal, TypeOK
    <3> QED  BY <3>1, <3>3, <3>4 DEF TypeOK, Units, Terminal
  <2>2. CASE ~Proceed
    BY <1>3, <2>2 DEF Launch, Poll, Installing, Reached, Terminal
  <2> QED  BY <2>1, <2>2
<1>4. CASE Await
  BY <1>4, Sizes DEF Await, AwaitNext, Installing, Reached, Terminal, TypeOK,
     Units, Backends, WaitedIsUp
<1>5. CASE LoseConnection  BY <1>5 DEF LoseConnection, Terminal
<1>6. ASSUME NEW u \in Units, RunJob(u) PROVE NamesFollowTheTest'
  BY <1>6, JobFrame
<1>7. CASE UNCHANGED vars  BY <1>7 DEF vars, Reached, Installing
<1> QED  BY <1>1, <1>2, <1>3, <1>4, <1>5, <1>6, <1>7 DEF Next, TestProcess

\* The configuration and the script on a machine are its own unit's while a job
\* of that unit may still read them.
LEMMA FilesStep ==
  ASSUME SeparateMachines, IInv, [Next]_vars
  PROVE  FilesBelongToUnit'
<1> USE NodeOfType DEF IInv, FilesBelongToUnit
<1>1. CASE Prepare \/ ClearMarker \/ Poll \/ Await
  BY <1>1, PrepareFacts DEF BasePrep, ClearMarker, Poll, Await, tmpFiles
<1>2. CASE PutConfig
  BY <1>2 DEF PutConfig, SeparateMachines, TypeOK
<1>3. CASE PutScript
  BY <1>3 DEF PutScript, SeparateMachines, TypeOK
<1>4. CASE Launch
  BY <1>4 DEF Launch, tmpFiles, TypeOK, Job
<1>5. CASE LoseConnection  BY <1>5 DEF LoseConnection, tmpFiles
<1>6. ASSUME NEW u \in Units, RunJob(u) PROVE FilesBelongToUnit'
  <2> USE DEF TypeOK, Job, testProc, tmpFiles
  <2>1. CASE ReadScript(u)  BY <2>1 DEF ReadScript
  <2>2. CASE MoveConfig(u)  BY <2>2 DEF MoveConfig, SeparateMachines
  <2>3. CASE InstallSucceeds(u)  BY <2>3 DEF InstallSucceeds
  <2>4. CASE InstallFails(u)  BY <2>4 DEF InstallFails
  <2>5. CASE TouchComplete(u)  BY <2>5 DEF TouchComplete
  <2>6. CASE TouchFailed(u)  BY <2>6 DEF TouchFailed
  <2> QED  BY <1>6, <2>1, <2>2, <2>3, <2>4, <2>5, <2>6 DEF RunJob
<1>7. CASE UNCHANGED vars  BY <1>7 DEF vars
<1> QED  BY <1>1, <1>2, <1>3, <1>4, <1>5, <1>6, <1>7 DEF Next, TestProcess

\* Once a unit's marker has been cleared, a marker on its machine tells the truth.
LEMMA MarkersStep ==
  ASSUME SeparateMachines, IInv, [Next]_vars
  PROVE  MarkersTellTheTruth'
<1> USE NodeOfType DEF IInv, MarkersTellTheTruth, tmpFiles
<1>1. CASE Prepare
  BY <1>1, ProceedReached, PrepareFacts DEF BasePrep, Launched, Installing
<1>2. CASE ClearMarker
  BY <1>2 DEF ClearMarker, Launched
<1>3. CASE PutConfig \/ PutScript
  BY <1>3 DEF PutConfig, PutScript, Launched
<1>4. CASE Launch
  <2>1. Launched' = Launched \cup {unit}
    BY <1>4 DEF Launch, TypeOK, Job, Launched
  <2>2. step' \notin {"conf", "script", "launch"}
    BY <1>4, ProceedReached DEF Launch, Installing
  <2> QED  BY <1>4, <2>1, <2>2 DEF Launch
<1>5. CASE Poll
  BY <1>5, ProceedReached DEF Poll, Installing, Launched
<1>6. CASE Await  BY <1>6 DEF Await, AwaitNext, Launched
<1>7. CASE LoseConnection  BY <1>7 DEF LoseConnection, Terminal, Launched
<1>8. ASSUME NEW u \in Units, RunJob(u) PROVE MarkersTellTheTruth'
  <2>1. CASE TouchComplete(u)
    <3>1. u \in Launched /\ u \in up
      BY <2>1 DEF TouchComplete, Launched, FilesBelongToUnit
    <3>2. step \in {"conf", "script", "launch"} => unit \notin Launched
      BY DEF JobsFollowTheTest, Reached, Installing, Terminal, TypeOK, Units
    <3>3. step \in {"conf", "script", "launch"} => NodeOf(unit) # NodeOf(u)
      BY <3>1, <3>2 DEF SeparateMachines, TypeOK
    <3>4. \A v \in Launched : NodeOf(v) = NodeOf(u) => v = u
      BY DEF SeparateMachines, Launched
    <3> QED  BY <1>8, JobFrame, <2>1, <3>1, <3>3, <3>4 DEF TouchComplete, testProc
  <2>2. CASE ~TouchComplete(u)
    <3>1. complete' = complete
      BY <1>8, <2>2 DEF RunJob, ReadScript, MoveConfig, InstallSucceeds,
         InstallFails, TouchFailed
    <3> QED  BY <1>8, JobFrame, <3>1
  <2> QED  BY <2>1, <2>2
<1>9. CASE UNCHANGED vars  BY <1>9 DEF vars, Launched
<1> QED
  BY <1>1, <1>2, <1>3, <1>4, <1>5, <1>6, <1>7, <1>8, <1>9 DEF Next, TestProcess

\* A poll that sees the completion marker of the current unit is right.
LEMMA PollIsRight ==
  ASSUME IInv, step = "poll", SeenComplete(NodeOf(unit))
  PROVE  unit \in up
BY DEF IInv, SeenComplete, MarkersTellTheTruth, JobsFollowTheTest, Reached,
   Installing, Terminal, WaitedIsUp, TypeOK

\* So is the wait for the backend nodes, skipped ones aside: the name it looks
\* up is still the unit's.
LEMMA AwaitIsRight ==
  ASSUME IInv, step = "await", Awaited => SeenComplete(NodeOf(unit))
  PROVE  unit \in Needed => unit \in up
<1>1. Reached(unit)  BY DEF IInv, WaitedIsUp, Reached
<1>2. friendlyName[NodeOf(unit)] = unit
  BY <1>1 DEF IInv, NamesFollowTheTest, Terminal, TypeOK
<1>3. unit \in Needed => unit \in Launched
  BY <1>1 DEF IInv, JobsFollowTheTest, TypeOK
<1> QED
  BY <1>2, <1>3 DEF Awaited, Needed, IInv, SeenComplete, MarkersTellTheTruth

\* The waiting done by the test process justifies its next move.
LEMMA WaitedStep ==
  ASSUME IInv, [Next]_vars
  PROVE  WaitedIsUp'
<1> USE Sizes DEF IInv, TypeOK, Installing, Units, Backends
<1>1. ASSUME Installing, Proceed, UNCHANGED up,
             unit \notin Backends /\ unit \in Needed => unit \in up
      PROVE  WaitedIsUp'
  <2>1. CASE unit \in Backends  BY <1>1, <2>1 DEF Proceed, WaitedIsUp, Needed
  <2>2. CASE unit \notin Backends
    <3>1. \A v \in Needed : v < unit + 1 => v \in up
      BY <1>1, <2>2 DEF WaitedIsUp, Needed
    <3> QED  BY <1>1, <2>2, <3>1 DEF Proceed, WaitedIsUp, Needed
  <2> QED  BY <2>1, <2>2
<1>2. CASE Prepare
  <2>1. CASE unit \in Skip
    BY <1>1, <1>2, <2>1, PrepareFacts DEF BasePrep, Needed
  <2>2. CASE unit \notin Skip
    BY <1>2, <2>2, PrepareFacts DEF BasePrep, Needed, WaitedIsUp
  <2> QED  BY <2>1, <2>2
<1>3. CASE ClearMarker \/ PutConfig \/ PutScript
  BY <1>3 DEF ClearMarker, PutConfig, PutScript, WaitedIsUp
<1>4. CASE Launch
  <2>1. CASE Blocking(unit)
    BY <1>4, <2>1 DEF Launch, WaitedIsUp
  <2>2. CASE ~Blocking(unit)
    BY <1>1, <1>4, <2>2 DEF Launch, Blocking
  <2> QED  BY <2>1, <2>2
<1>5. CASE Poll
  <2>1. CASE SeenComplete(NodeOf(unit)) /\ Proceed
    BY <1>1, <1>5, <2>1, PollIsRight DEF Poll
  <2>2. CASE step' = "failed"  BY <2>2 DEF WaitedIsUp
  <2> QED  BY <1>5, <2>1, <2>2 DEF Poll
<1>6. CASE Await
  <2>1. CASE (Awaited => SeenComplete(NodeOf(unit))) /\ AwaitNext
    <3>1. \A v \in Needed : v < unit + 1 => v \in up
      BY <1>6, <2>1, AwaitIsRight DEF Await, WaitedIsUp, Needed
    <3> QED  BY <1>6, <2>1, <3>1 DEF Await, AwaitNext, WaitedIsUp, Needed
  <2>2. CASE step' = "failed"  BY <2>2 DEF WaitedIsUp
  <2> QED  BY <1>6, <2>1, <2>2 DEF Await
<1>7. CASE LoseConnection  BY <1>7 DEF LoseConnection, WaitedIsUp
<1>8. ASSUME NEW u \in Units, RunJob(u) PROVE WaitedIsUp'
  BY <1>8, JobFrame DEF WaitedIsUp
<1>9. CASE UNCHANGED vars  BY <1>9 DEF vars, WaitedIsUp
<1> QED
  BY <1>2, <1>3, <1>4, <1>5, <1>6, <1>7, <1>8, <1>9 DEF Next, TestProcess

\* Past the blocking bootstrap of rabbit1, rabbit1 is up.
LEMMA Rabbit1Step ==
  ASSUME IInv, [Next]_vars
  PROVE  Rabbit1IsUp'
<1> SUFFICES ASSUME PreCluster, NumBrokers > 0, 1 \in Needed PROVE Rabbit1IsUp'
  BY DEF Rabbit1IsUp
<1> USE Sizes DEF IInv, TypeOK, Installing, Units, Backends, Rabbit1IsUp
<1>1. CASE Prepare
  BY <1>1, PrepareFacts DEF BasePrep, Proceed, Needed
<1>2. CASE ClearMarker \/ PutConfig \/ PutScript
  BY <1>2 DEF ClearMarker, PutConfig, PutScript
<1>3. CASE Launch
  BY <1>3 DEF Launch, Blocking, Proceed
<1>4. CASE Poll
  BY <1>4, PollIsRight DEF Poll, Proceed
<1>5. CASE Await \/ LoseConnection
  BY <1>5 DEF Await, AwaitNext, LoseConnection, Terminal
<1>6. ASSUME NEW u \in Units, RunJob(u) PROVE Rabbit1IsUp'
  BY <1>6, JobFrame
<1>7. CASE UNCHANGED vars  BY <1>7 DEF vars
<1> QED  BY <1>1, <1>2, <1>3, <1>4, <1>5, <1>6, <1>7 DEF Next, TestProcess

\* Only Launch makes a job; everything up stays up.
LEMMA LaunchFrame ==
  ASSUME TypeOK, [Next]_vars
  PROVE  /\ Launched' = Launched \/ (Launch /\ Launched' = Launched \cup {unit})
         /\ up \subseteq up'
<1>1. CASE Launch  BY <1>1 DEF Launch, TypeOK, Job, Launched
<1>2. CASE TestProcess /\ ~Launch
  BY <1>2, PrepareFacts DEF TestProcess, BasePrep, ClearMarker, PutConfig, PutScript, Poll,
     Await, Launched
<1>3. CASE LoseConnection  BY <1>3 DEF LoseConnection, Launched
<1>4. ASSUME NEW u \in Units, RunJob(u)
      PROVE  Launched' = Launched /\ up \subseteq up'
  BY <1>4, JobFrame
<1>5. CASE UNCHANGED vars  BY <1>5 DEF vars, Launched
<1> QED  BY <1>1, <1>2, <1>3, <1>4, <1>5 DEF Next

\* A launch comes after everything the test process has waited for by then.
LEMMA LaunchOrderStep ==
  ASSUME IInv, [Next]_vars
  PROVE  LaunchOrder'
<1>1. Launch /\ unit \notin Backends => \A v \in Needed : v < unit => v \in up
  BY DEF Launch, IInv, WaitedIsUp, Installing
<1> QED  BY <1>1, LaunchFrame DEF IInv, LaunchOrder

\* The databases a manager is configured with are those that are installed.
LEMMA DbsKnownStep ==
  ASSUME SeparateMachines, IInv, [Next]_vars
  PROVE  DbsKnown'
<1> USE DEF IInv, DbsKnown
<1>1. CASE PrepareManager
  <2>1. step = "prep" /\ unit \notin Backends /\ Launched' = Launched
    BY <1>1 DEF PrepareManager, BasePrep, Launched
  <2>2. ASSUME NEW d \in DbUnits
        PROVE  friendlyName'[NodeOf(d)] = d /\ d \in Units
    <3>1. d \in Units /\ d < unit /\ d # unit /\ unit \in Units
      BY <2>1, Sizes DEF DbUnits, Backends, Units, TypeOK
    <3>2. friendlyName[NodeOf(d)] = d
      BY <2>1, <3>1 DEF NamesFollowTheTest, Reached, Installing, Terminal
    <3>3. NodeOf(d) # NodeOf(unit)
      BY <3>1 DEF SeparateMachines
    <3> QED  BY <1>1, <3>1, <3>2, <3>3, NodeOfType
             DEF PrepareManager, BasePrep, TypeOK
  <2>3. Len(Dbs) > 1 => ConfiguredDbs(friendlyName') = DbUnits \cap Needed
    BY <2>2 DEF ConfiguredDbs, Needed
  <2>4. \A m \in Units : dbNodes'[m] = IF m = unit THEN ConfiguredDbs(friendlyName')
                                        ELSE dbNodes[m]
    BY <1>1 DEF PrepareManager, TypeOK
  <2>5. unit' = unit \/ step' \in {"prep", "await", "done"}
    BY <1>1, <2>1, ProceedReached DEF PrepareManager, BasePrep, Installing
  <2> QED  BY <2>1, <2>3, <2>4, <2>5
<1>2. CASE PrepareRabbit \/ PrepareDb
  <2>1. /\ UNCHANGED <<dbNodes, Launched>>
        /\ unit' \in Backends \/ step' \in {"prep", "await", "done"}
    BY <1>2, ProceedReached, Sizes
    DEF PrepareRabbit, PrepareDb, BasePrep, Launched, Installing, Backends,
        DbUnits, TypeOK, Units
  <2> QED  BY <2>1
<1>3. CASE ClearMarker \/ PutConfig \/ PutScript
  BY <1>3 DEF ClearMarker, PutConfig, PutScript, Launched
<1>4. CASE Launch
  <2>1. dbNodes' = dbNodes /\ step' \in {"poll", "prep", "await", "done"}
    BY <1>4, ProceedReached DEF Launch, Installing
  <2>2. step = "launch"  BY <1>4 DEF Launch
  <2> QED  BY <2>1, <2>2, LaunchFrame
<1>5. CASE Poll \/ Await
  <2>1. /\ UNCHANGED <<dbNodes, Launched>>
        /\ step' \in {"prep", "await", "done", "failed"}
    BY <1>5, ProceedReached DEF Poll, Await, AwaitNext, Launched, Installing
  <2> QED  BY <2>1
<1>6. CASE LoseConnection  BY <1>6 DEF LoseConnection, Launched, Terminal
<1>7. ASSUME NEW u \in Units, RunJob(u) PROVE DbsKnown'
  <2>1. dbNodes' = dbNodes
    BY <1>7 DEF RunJob, ReadScript, MoveConfig, InstallSucceeds, InstallFails,
       TouchComplete, TouchFailed, testProc
  <2> QED  BY <1>7, <2>1, JobFrame
<1>8. CASE UNCHANGED vars  BY <1>8 DEF vars, Launched
<1> QED
  BY <1>1, <1>2, <1>3, <1>4, <1>5, <1>6, <1>7, <1>8
  DEF Next, TestProcess, Prepare

\* A rabbit is launched after rabbit1 when it is to join it.
LEMMA JoinStep ==
  ASSUME IInv, [Next]_vars
  PROVE  JoinTargetUp'
<1>1. Launch /\ 1 < unit /\ PreCluster /\ NumBrokers > 0 /\ 1 \in Needed => 1 \in up
  BY DEF Launch, IInv, Rabbit1IsUp, Installing
<1> QED  BY <1>1, LaunchFrame DEF IInv, JoinTargetUp

\* The last wait has been for the last unit when the bootstrap is done.
LEMMA DoneStep ==
  ASSUME IInv, [Next]_vars
  PROVE  DoneMeansUp'
<1> USE Sizes DEF IInv, TypeOK, Units, Backends, DoneMeansUp
<1>1. CASE Prepare
  BY <1>1, PrepareFacts DEF BasePrep, Proceed, WaitedIsUp, Installing, Needed
<1>2. CASE ClearMarker \/ PutConfig \/ PutScript
  BY <1>2 DEF ClearMarker, PutConfig, PutScript
<1>3. CASE Launch
  BY <1>3 DEF Launch, Blocking, Proceed
<1>4. CASE Poll
  BY <1>4, PollIsRight DEF Poll, Proceed, WaitedIsUp, Installing, Needed
<1>5. CASE Await
  BY <1>5, AwaitIsRight DEF Await, AwaitNext, WaitedIsUp, Needed
<1>6. CASE LoseConnection  BY <1>6 DEF LoseConnection
<1>7. ASSUME NEW u \in Units, RunJob(u) PROVE DoneMeansUp'
  BY <1>7, JobFrame
<1>8. CASE UNCHANGED vars  BY <1>8 DEF vars
<1> QED
  BY <1>1, <1>2, <1>3, <1>4, <1>5, <1>6, <1>7, <1>8 DEF Next, TestProcess

-----------------------------------------------------------------------------
(* The theorems.                                                            *)

\* The invariant holds before the first unit is prepared, whatever old completion
\* markers there are.
LEMMA InvInit == ASSUME SeparateMachines PROVE Init => IInv
<1> SUFFICES ASSUME Init PROVE IInv
  OBVIOUS
<1> USE Sizes, NodeOfType DEF Init, NoJob, NoUnit, Launched, Installing, Units
<1>1. TypeOK  BY TypeInit
<1>2. JobsFollowTheTest /\ NamesFollowTheTest
  BY DEF JobsFollowTheTest, NamesFollowTheTest, Reached, Terminal
<1>3. FilesBelongToUnit /\ MarkersTellTheTruth
  BY DEF FilesBelongToUnit, MarkersTellTheTruth
<1>4. WaitedIsUp /\ Rabbit1IsUp /\ LaunchOrder /\ JoinTargetUp /\ DoneMeansUp
  BY DEF WaitedIsUp, Rabbit1IsUp, LaunchOrder, JoinTargetUp, DoneMeansUp,
     Backends, Needed
<1>5. DbsKnown
  <2>1. Launched = {} /\ step = "prep"  OBVIOUS
  <2> HIDE DEF Init, Launched
  <2> QED  BY <2>1 DEF DbsKnown
<1> QED  BY <1>1, <1>2, <1>3, <1>4, <1>5 DEF IInv

\* No step of the test process or of a background job breaks the invariant.
LEMMA InvStep ==
  ASSUME SeparateMachines
  PROVE  IInv /\ [Next]_vars => IInv'
<1> SUFFICES ASSUME IInv, [Next]_vars PROVE IInv'
  OBVIOUS
<1>1. TypeOK'  BY TypeStep DEF IInv
<1> QED
  BY <1>1, JobsStep, NamesStep, FilesStep, MarkersStep, WaitedStep,
     Rabbit1Step, LaunchOrderStep, DbsKnownStep, JoinStep, DoneStep
  DEF IInv

\* The inductive invariant holds throughout every bootstrap of a cluster whose
\* components have machines of their own.
THEOREM Invariance == ASSUME SeparateMachines PROVE Spec => []IInv
<1>1. Init => IInv  BY InvInit
<1>2. IInv /\ [Next]_vars => IInv'  BY InvStep
<1> QED  BY <1>1, <1>2, PTL DEF Spec

\* On every cluster whose components have machines of their own, whatever old
\* completion markers lie on them and however the installations interleave, a
\* manager is only installed once every backend node is up.
THEOREM BackendsFirst ==
  ASSUME SeparateMachines PROVE Spec => []BackendsUpBeforeManagers
<1>1. IInv => BackendsUpBeforeManagers
  BY Sizes DEF IInv, LaunchOrder, BackendsUpBeforeManagers, Backends, Needed,
     Launched, Units
<1> QED  BY <1>1, Invariance, PTL

\* Likewise for the managers: each is installed after those before it.
THEOREM ManagersInOrder ==
  ASSUME SeparateMachines PROVE Spec => []ManagersOneAtATime
<1>1. IInv => ManagersOneAtATime
  BY DEF IInv, LaunchOrder, ManagersOneAtATime
<1> QED  BY <1>1, Invariance, PTL

\* A rabbit that joins the cluster of rabbit1 finds it up.
THEOREM JoinTargetFirst ==
  ASSUME SeparateMachines PROVE Spec => []JoinTargetUp
<1>1. IInv => JoinTargetUp  BY DEF IInv
<1> QED  BY <1>1, Invariance, PTL

\* The managers are configured with the databases that were installed, all of
\* them and no other, and find them up.
THEOREM DbsAreKnown == ASSUME SeparateMachines PROVE Spec => []ManagersKnowTheDbs
<1>1. IInv => ManagersKnowTheDbs
  <2> SUFFICES ASSUME IInv, Len(Dbs) > 1, NEW m \in Launched \ Backends
               PROVE  dbNodes[m] = DbUnits \cap Needed /\ dbNodes[m] \subseteq up
    BY DEF ManagersKnowTheDbs
  <2>1. dbNodes[m] = DbUnits \cap Needed
    BY DEF IInv, DbsKnown, Launched
  <2>2. \A d \in DbUnits : d < m
    BY Sizes DEF DbUnits, Backends, Launched, Units
  <2> QED  BY <2>1, <2>2 DEF IInv, LaunchOrder
<1> QED  BY <1>1, Invariance, PTL

\* A bootstrap that reports success has installed everything it had to.
THEOREM SuccessIsReal == ASSUME SeparateMachines PROVE Spec => []DoneMeansUp
<1>1. IInv => DoneMeansUp  BY DEF IInv
<1> QED  BY <1>1, Invariance, PTL

-----------------------------------------------------------------------------
(* ClusterBootstrap implements ClusterStartup.                              *)

\* The abstract startup begins with nothing started, as the bootstrap does.
LEMMA StartupInit == Init => Startup!Init
BY DEF Init, Startup!Init, Launched, NoJob, Outcome

\* A step that launches nothing, finishes no installation and does not stop
\* the test process is invisible to the abstract specification.
LEMMA StartupStutter ==
  ASSUME UNCHANGED <<Launched, up>>, step \notin Terminal, step' \notin Terminal
  PROVE  UNCHANGED Startup!svars
BY DEF Startup!svars, Outcome, Terminal

\* The test process stops: with everything up, or with an error.
LEMMA StartupEnd ==
  ASSUME UNCHANGED <<Launched, up>>, step \notin Terminal, step' \in Terminal,
         DoneMeansUp'
  PROVE  Startup!Next
BY DEF Startup!Next, Startup!Succeed, Startup!GiveUp, Outcome, Terminal,
   DoneMeansUp

\* What a unit requires is up when it is launched.
LEMMA RequirementsUp ==
  ASSUME IInv, Launch
  PROVE  Requires[unit] \subseteq up
<1> USE Sizes DEF IInv, TypeOK, Launch, Installing, Units
<1>1. CASE unit \notin Backends
  BY <1>1 DEF Requires, WaitedIsUp, Needed
<1>2. CASE unit \in Backends /\ PreCluster /\ 1 < unit /\ unit <= NumBrokers
  BY <1>2 DEF Requires, Rabbit1IsUp
<1>3. CASE unit \in Backends /\ ~(PreCluster /\ 1 < unit /\ unit <= NumBrokers)
  BY <1>3 DEF Requires
<1> QED  BY <1>1, <1>2, <1>3

\* Every step of the bootstrap is a step of the abstract startup or invisible to it.
LEMMA StartupStep ==
  ASSUME SeparateMachines, IInv, IInv', [Next]_vars
  PROVE  [Startup!Next]_Startup!svars
<1> USE DEF IInv
<1>1. CASE TestProcess /\ ~Launch
  <2>1. UNCHANGED <<Launched, up>> /\ step \notin Terminal
    BY <1>1, PrepareFacts DEF TestProcess, BasePrep, ClearMarker, PutConfig, PutScript, Poll,
       Await, Launched, Terminal
  <2> QED  BY <2>1, StartupStutter, StartupEnd
<1>2. CASE Launch
  <2>1. /\ unit \in Needed /\ unit \in Units /\ unit \notin Launched
        /\ Launched' = Launched \cup {unit} /\ up' = up
    BY <1>2 DEF Launch, WaitedIsUp, JobsFollowTheTest, Reached, Installing,
       Terminal, TypeOK, Job, Launched, Units
  <2>2. step \notin Terminal /\ step' \notin Terminal
    BY <1>2, Sizes DEF Launch, Blocking, Proceed, TypeOK, Units, Backends,
       Terminal
  <2>3. Startup!Start(unit)
    BY <1>2, <2>1, <2>2, RequirementsUp DEF Startup!Start, Outcome, Terminal
  <2> QED  BY <2>1, <2>3 DEF Startup!Next
<1>3. CASE LoseConnection
  <2>1. UNCHANGED <<Launched, up>> /\ step \notin Terminal /\ step' \in Terminal
    BY <1>3 DEF LoseConnection, Launched, Terminal
  <2> QED  BY <2>1, StartupEnd
<1>4. ASSUME NEW u \in Units, RunJob(u) PROVE [Startup!Next]_Startup!svars
  <2>1. Launched' = Launched /\ Outcome' = Outcome
    BY <1>4, JobFrame DEF Outcome
  <2>2. CASE InstallSucceeds(u)
    <3>1. up' = up \cup {u} /\ u \in Launched
      BY <2>2 DEF InstallSucceeds, FilesBelongToUnit, Launched
    <3>2. CASE u \in up
      BY <2>1, <3>1, <3>2 DEF Startup!svars
    <3>3. CASE u \notin up
      BY <2>1, <3>1, <3>3 DEF Startup!Next, Startup!ComeUp
    <3> QED  BY <3>2, <3>3
  <2>3. CASE ~InstallSucceeds(u)
    <3>1. up' = up
      BY <1>4, <2>3 DEF RunJob, ReadScript, MoveConfig, InstallFails,
         TouchComplete, TouchFailed
    <3> QED  BY <2>1, <3>1 DEF Startup!svars
  <2> QED  BY <2>2, <2>3
<1>5. CASE UNCHANGED vars
  BY <1>5 DEF vars, Startup!svars, Launched, Outcome
<1> QED  BY <1>1, <1>2, <1>3, <1>4, <1>5 DEF Next

\* Seen through what is really installed, the bootstrap of any cluster with a
\* machine per component is a startup that respects every dependency.
THEOREM Refinement == ASSUME SeparateMachines PROVE Spec => StartupSpec
<1>1. Init => Startup!Init  BY StartupInit
<1>2. IInv /\ IInv' /\ [Next]_vars => [Startup!Next]_Startup!svars
  BY StartupStep
<1> QED
  BY <1>1, <1>2, Invariance, PTL DEF Spec, StartupSpec, Startup!Spec

-----------------------------------------------------------------------------
(* Alarms.                                                                  *)

\* A failure marker is either one that lay on the machine before or was left
\* by an installation that is known to have failed, and so is the failure that
\* the test process reports.
AlarmsAreReal ==
  /\ failed \subseteq StaleFailed \/ broken # {}
  /\ \A u \in Units : job[u].at = "fail" => broken # {}
  /\ step = "failed" => broken # {} \/ NodeOf(unit) \in StaleFailed

\* Only SeenFailed leads to "failed", and no unit is exchanged on the way.
LEMMA AlarmSeen ==
  ASSUME TypeOK, [Next]_vars, step' = "failed", step # "failed"
  PROVE  NodeOf(unit) \in failed /\ UNCHANGED <<unit, broken, job, failed>>
<1> USE DEF tmpFiles
<1>1. CASE Prepare
  BY <1>1, PrepareFacts DEF BasePrep, Proceed
<1>2. CASE ClearMarker \/ PutConfig \/ PutScript
  BY <1>2 DEF ClearMarker, PutConfig, PutScript
<1>3. CASE Launch  BY <1>3 DEF Launch, Proceed
<1>4. CASE Poll  BY <1>4 DEF Poll, Proceed, SeenFailed
<1>5. CASE Await  BY <1>5 DEF Await, AwaitNext, SeenFailed
<1>6. CASE LoseConnection  BY <1>6 DEF LoseConnection
<1>7. ASSUME NEW u \in Units, RunJob(u) PROVE FALSE
  BY <1>7, JobFrame
<1>8. CASE UNCHANGED vars  BY <1>8 DEF vars
<1> QED
  BY <1>1, <1>2, <1>3, <1>4, <1>5, <1>6, <1>7, <1>8 DEF Next, TestProcess

\* The test process creates no failure marker and no failing job, and once it
\* has reported a failure it does nothing more.
LEMMA AlarmFrame ==
  ASSUME TypeOK, TestProcess \/ LoseConnection \/ UNCHANGED vars
  PROVE  /\ UNCHANGED <<failed, broken>>
         /\ \A u \in Units : job'[u].at = "fail" => job[u].at = "fail"
         /\ step = "failed" => UNCHANGED <<step, unit>>
<1> USE DEF tmpFiles
<1>1. CASE Prepare  BY <1>1, PrepareFacts DEF BasePrep
<1>2. CASE ClearMarker \/ PutConfig \/ PutScript
  BY <1>2 DEF ClearMarker, PutConfig, PutScript
<1>3. CASE Launch  BY <1>3 DEF Launch, TypeOK, Job
<1>4. CASE Poll \/ Await  BY <1>4 DEF Poll, Await
<1>5. CASE LoseConnection  BY <1>5 DEF LoseConnection, Terminal
<1>6. CASE UNCHANGED vars  BY <1>6 DEF vars
<1> QED  BY <1>1, <1>2, <1>3, <1>4, <1>5, <1>6 DEF TestProcess

\* A job only fails, and only leaves the failure marker, after `broken' has
\* recorded what failed.
LEMMA AlarmStep == TypeOK /\ AlarmsAreReal /\ [Next]_vars => AlarmsAreReal'
<1> SUFFICES ASSUME TypeOK, AlarmsAreReal, [Next]_vars PROVE AlarmsAreReal'
  OBVIOUS
<1> USE DEF AlarmsAreReal
<1>1. CASE TestProcess \/ LoseConnection \/ UNCHANGED vars
  BY <1>1, AlarmFrame, AlarmSeen
<1>2. ASSUME NEW u \in Units, RunJob(u) PROVE AlarmsAreReal'
  <2> USE <1>2, JobFrame DEF TypeOK, Job, testProc, tmpFiles
  <2>1. CASE ReadScript(u)  BY <2>1 DEF ReadScript
  <2>2. CASE MoveConfig(u)
    <3>1. UNCHANGED <<step, unit, failed>>  BY <2>2 DEF MoveConfig
    <3>2. CASE conf[NodeOf(u)] # NoUnit
      <4>1. \A v \in Units : job'[v].at = "fail" => job[v].at = "fail"
        BY <2>2, <3>2 DEF MoveConfig
      <4> QED  BY <2>2, <3>1, <3>2, <4>1 DEF MoveConfig
    <3>3. CASE conf[NodeOf(u)] = NoUnit
      <4>1. broken' = broken \cup {job[u].runs}
        BY <2>2, <3>3 DEF MoveConfig
      <4> QED  BY <3>1, <4>1
    <3> QED  BY <3>2, <3>3
  <2>3. CASE InstallSucceeds(u)  BY <2>3 DEF InstallSucceeds
  <2>4. CASE InstallFails(u)  BY <2>4 DEF InstallFails
  <2>5. CASE TouchComplete(u)  BY <2>5 DEF TouchComplete
  <2>6. CASE TouchFailed(u)  BY <2>6 DEF TouchFailed
  <2> QED  BY <1>2, <2>1, <2>2, <2>3, <2>4, <2>5, <2>6 DEF RunJob
<1> QED  BY <1>1, <1>2 DEF Next

\* On every cluster, compact or not: a failure that is reported is that of an
\* installation of this run, or the unit it is reported for is on a machine
\* with an old marker.
THEOREM AlarmsHaveACause == Spec => []AlarmsAreReal
<1>1. Init => AlarmsAreReal
  BY DEF Init, AlarmsAreReal, NoJob
<1> QED  BY <1>1, TypeInit, TypeStep, AlarmStep, PTL DEF Spec

\* So when no machine starts with an old marker, no alarm is false: not even
\* where several components share a machine and its two markers.
THEOREM NoFalseAlarms == ASSUME StaleFailed = {} PROVE Spec => []NoFalseAlarm
<1>1. AlarmsAreReal => NoFalseAlarm  BY DEF AlarmsAreReal, NoFalseAlarm
<1> QED  BY <1>1, AlarmsHaveACause, PTL
=============================================================================
