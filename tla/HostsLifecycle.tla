--------------------------- MODULE HostsLifecycle ---------------------------
(***************************************************************************)
(* Hosts.create and Hosts.destroy as a fixture calls them: the tenant,      *)
(* blueprints, deployments and executions they make on the infrastructure   *)
(* manager, the records Hosts keeps of them, and what remains when a call   *)
(* fails half way.                                                          *)
(***************************************************************************)
EXTENDS Integers, Sequences, FiniteSets

CONSTANTS
  NumVms,          \* len(instances)
  OnSuccess,       \* teardown.on_success of the test config
  OnFailure,       \* teardown.on_failure of the test config
  TryFinally,      \* the fixture destroys in a finally clause
  Verdicts,        \* how the fixture's destroy may learn how the test ended
  PassedBefore,    \* how many tests may have passed earlier in the session
  DestroyMayFail,  \* calls to the manager may fail during destroy too
  LostAnswers      \* a call that fails may have taken effect on the manager

ASSUME HostsAssumption ==
  /\ NumVms \in Nat \ {0}
  /\ {OnSuccess, OnFailure, TryFinally, DestroyMayFail, LostAnswers}
       \subseteq BOOLEAN
  /\ Verdicts \subseteq {"session", "fixture", "test"}
  /\ PassedBefore \subseteq Nat

\* Deployments: the infrastructure and one for each VM.  self.deployments is
\* indexed as the deployments are numbered, shifted by one.
Infra == 0
Vms   == 1..NumVms
Deps  == 0..NumVms

BlueprintOrder == <<"infrastructure", "test_vm">>
Blueprints == {"infrastructure", "test_vm"}
BlueprintOf(d) == IF d = Infra THEN "infrastructure" ELSE "test_vm"

Workflows == {"install", "uninstall"}
Statuses  == {"none", "started", "terminated", "failed", "cancelling",
              "cancelled"}
Active    == {"started", "cancelling"}
EndStates == {"terminated", "failed", "cancelled"}

VARIABLES
  \* the infrastructure manager
  tenant,      \* the test tenant exists
  bps,         \* blueprints in it
  deps,        \* deployments in it
  live,        \* deployments that may hold cloud resources
  exec,        \* status of the latest execution of each workflow; the
               \* creations of deployment environments are not counted
  foreign,     \* executions of the default tenant have been killed
  \* the test process
  pc,          \* the next statement
  k,           \* index of the loops over deployments and blueprints
  caller,      \* who called destroy
  header,      \* tenant header of the client
  selfTenant,  \* self.tenant is set
  blueprints,  \* self.blueprints
  deployments, \* len(self.deployments)
  uninstalls,  \* keys of self._test_vm_uninstalls
  killed,      \* executions that this destroy has cancelled
  passed,      \* session.testspassed
  created,     \* create has returned
  testFailed,  \* the test has failed, or was not reached
  raised,      \* an exception has reached pytest
  result       \* how the last destroy ended

manager == <<tenant, bps, deps, live, exec, foreign>>
records == <<header, selfTenant, blueprints, deployments, uninstalls, killed>>
session == <<passed, created, testFailed>>
control == <<pc, k, caller, raised, result>>
vars == <<manager, records, session, control>>

\* The executions of the test tenant.
Execs == {x \in Deps \X Workflows : exec[x[1]][x[2]] # "none"}
Status(x) == exec[x[1]][x[2]]

CreateSteps == {"tenant", "prepare", "blueprint", "deploy", "start",
                "waitInstall", "boot"}
\* The steps of destroy at which something has been or will be removed.
Removing == {"cancel", "checkCancelled", "undeploy", "waitUndeploy",
             "deleteVm", "undeployInfra", "waitUndeployInfra", "deleteInfra",
             "deleteBlueprints", "deletePlugins", "deleteTenant"}

Init ==
  /\ tenant = FALSE /\ bps = {} /\ deps = {} /\ live = {} /\ foreign = FALSE
  /\ exec = [d \in Deps |-> [w \in Workflows |-> "none"]]
  /\ pc = "tenant" /\ k = 0 /\ caller = "fixture"
  /\ header = "default" /\ selfTenant = FALSE
  /\ blueprints = {} /\ deployments = 0 /\ uninstalls = {} /\ killed = {}
  /\ passed \in PassedBefore /\ created = FALSE /\ testFailed = TRUE
  /\ raised = FALSE /\ result = "none"

-----------------------------------------------------------------------------
(* Control.                                                                 *)

At(step, index) ==
  /\ pc' = step /\ k' = index
  /\ UNCHANGED <<caller, raised, result, session>>

\* An exception in create: destroy, then raise it again.
CreateRaises ==
  /\ pc' = "decide" /\ caller' = "create" /\ raised' = TRUE
  /\ UNCHANGED <<k, result, session>>

\* destroy is over, by r = "raised" or otherwise.  A fixture that destroys in
\* a finally clause and had not got past create destroys again.
DestroyEnds(r) ==
  /\ result' = r
  /\ raised' = (raised \/ r = "raised")
  /\ IF caller = "create" /\ TryFinally
     THEN pc' = "decide" /\ caller' = "fixture"
     ELSE pc' = "over" /\ UNCHANGED caller
  /\ UNCHANGED <<k, session>>

\* What a call that may fail leaves of a value it was to change.
Maybe(old, new) == IF LostAnswers THEN {old, new} ELSE {old}

\* The client addresses the test tenant.
Addressed == tenant /\ header = "test"

-----------------------------------------------------------------------------
(* Faulty variants of the definitions below: plausible mistakes in the code, *)
(* used only to show that the properties would notice them.                  *)

\* Not switching the client to the new tenant.
ForgetHeader ==
  /\ pc = "tenant"
  /\ tenant' = TRUE /\ selfTenant' = TRUE /\ At("prepare", 0)
  /\ UNCHANGED <<bps, deps, live, exec, foreign, header, blueprints,
                 deployments, uninstalls, killed>>

\* Not checking that the executions are cancelled.
CancelIsEnough == TRUE

\* An execution that has ended taken for one that has terminated.
EndedAnyhow(d) == exec[d]["uninstall"] \in EndStates

\* Waiting without a timeout.
AwaitForever(d, next, index) ==
  exec[d]["uninstall"] \in EndStates /\ At(next, index)

\* executions.start for run_blocking_execution
DontAwaitInfra ==
  /\ pc = "undeployInfra"
  /\ Infra \in deps /\ tenant
  /\ exec' = [exec EXCEPT ![Infra]["uninstall"] = "started"]
  /\ At("deleteInfra", 0)
  /\ UNCHANGED <<tenant, bps, deps, live, foreign, records>>

\* Deleting the blueprint of the infrastructure only.
DeleteFirstBlueprint ==
  /\ pc = "deleteBlueprints"
  /\ bps' = bps \ {"infrastructure"}
  /\ At("deletePlugins", 0)
  /\ UNCHANGED <<tenant, deps, live, exec, foreign, records>>

\* No self.tenant = None.
KeepSelfTenant ==
  /\ pc = "deleteTenant"
  /\ header' = "default" /\ tenant' = FALSE
  /\ DestroyEnds("tornDown")
  /\ UNCHANGED <<bps, deps, live, exec, foreign, selfTenant, blueprints,
                 deployments, uninstalls, killed>>

-----------------------------------------------------------------------------
(* create                                                                   *)

CreateTenant ==
  /\ pc = "tenant"
  /\ \/ tenant' = TRUE /\ header' = "test" /\ selfTenant' = TRUE
        /\ At("prepare", 0)
     \/ tenant' \in Maybe(FALSE, TRUE) /\ UNCHANGED <<header, selfTenant>>
        /\ CreateRaises
  /\ UNCHANGED <<bps, deps, live, exec, foreign, blueprints, deployments,
                 uninstalls, killed>>

\* The secrets, and the check that the platform's plugin is there.
Prepare ==
  /\ pc = "prepare"
  /\ At("blueprint", 1) \/ CreateRaises
  /\ UNCHANGED <<manager, records>>

UploadBlueprint ==
  LET b == BlueprintOrder[k] IN
  /\ pc = "blueprint"
  /\ \/ /\ bps' = bps \cup {b} /\ blueprints' = blueprints \cup {b}
        /\ IF k = 1 THEN At("blueprint", 2) ELSE At("deploy", Infra)
     \/ bps' \in Maybe(bps, bps \cup {b}) /\ UNCHANGED blueprints /\ CreateRaises
  /\ UNCHANGED <<tenant, deps, live, exec, foreign, header, selfTenant,
                 deployments, uninstalls, killed>>

CreateDeployment ==
  /\ pc = "deploy"
  /\ \/ deps' = deps \cup {k} /\ deployments' = deployments + 1
        /\ At("start", k)
     \/ deps' \in Maybe(deps, deps \cup {k}) /\ UNCHANGED deployments
        /\ CreateRaises
  /\ UNCHANGED <<tenant, bps, live, exec, foreign, header, selfTenant,
                 blueprints, uninstalls, killed>>

Starts(d, w) ==
  /\ exec' = [exec EXCEPT ![d][w] = "started"]
  /\ live' = IF w = "install" THEN live \cup {d} ELSE live

\* The infrastructure is installed before the first VM is deployed, the VMs
\* in parallel.
StartInstall ==
  /\ pc = "start"
  /\ \/ /\ Starts(k, "install")
        /\ IF k = Infra THEN At("waitInstall", Infra)
           ELSE IF k < NumVms THEN At("deploy", k + 1)
           ELSE At("waitInstall", 1)
     \/ LostAnswers /\ Starts(k, "install") /\ CreateRaises
     \/ UNCHANGED <<exec, live>> /\ CreateRaises
  /\ UNCHANGED <<tenant, bps, deps, foreign, records>>

\* wait_for_execution raises on any end but termination, and on its timeout.
WaitInstall ==
  /\ pc = "waitInstall"
  /\ \/ /\ exec[k]["install"] = "terminated"
        /\ IF k = Infra THEN At("deploy", 1)
           ELSE IF k < NumVms THEN At("waitInstall", k + 1) ELSE At("boot", 0)
     \/ CreateRaises
  /\ UNCHANGED <<manager, records>>

\* Bootstrapping the managers among the VMs and finalizing them all.
Boot ==
  /\ pc = "boot"
  /\ \/ /\ pc' = "test" /\ created' = TRUE
        /\ UNCHANGED <<k, caller, raised, result, passed, testFailed>>
     \/ CreateRaises
  /\ UNCHANGED <<manager, records>>

\* pytest runs the test and counts it; then the fixture is torn down.
RunTest ==
  /\ pc = "test" /\ pc' = "decide"
  /\ \/ testFailed' = FALSE /\ passed' = passed + 1
     \/ UNCHANGED <<testFailed, passed>>
  /\ UNCHANGED <<k, caller, raised, result, created, manager, records>>

-----------------------------------------------------------------------------
(* destroy                                                                  *)

\* What destroy takes for "the tests passed".  Called with no argument, as
\* create does, it is the session's count.  A fixture that clears a flag in an
\* except clause only learns of an exception of create: pytest does not raise a
\* test's failure in the fixture.  A test that calls create and destroy itself
\* knows.
ConsideredPassed(verdict) ==
  CASE caller = "create" \/ verdict = "session" -> passed > 0
    [] caller = "fixture" /\ verdict = "fixture" -> created
    [] caller = "fixture" /\ verdict = "test" -> ~testFailed

Decide ==
  /\ pc = "decide"
  /\ \E verdict \in Verdicts :
       IF ~(IF ConsideredPassed(verdict) THEN OnSuccess ELSE OnFailure)
       THEN DestroyEnds("kept")
       ELSE IF ~selfTenant THEN DestroyEnds("nothing")
       ELSE At("cancel", 0)
  /\ UNCHANGED <<manager, records>>

\* Kill-cancels every execution the client's tenant lists, ended ones too.
\* The calls are one step: cancelling sets a status whatever it was before.
CancelThese(xs) ==
  exec' = [d \in Deps |-> [w \in Workflows |->
             IF <<d, w>> \in xs THEN "cancelling" ELSE exec[d][w]]]

Cancel ==
  /\ pc = "cancel"
  /\ foreign' = (foreign \/ header = "default")
  /\ \/ /\ killed' = IF Addressed THEN Execs ELSE {}
        /\ CancelThese(killed')
        /\ At("checkCancelled", 0)
     \/ /\ DestroyMayFail
        /\ \E xs \in SUBSET (IF Addressed THEN Execs ELSE {}) : CancelThese(xs)
        /\ UNCHANGED killed
        /\ DestroyEnds("raised")
  /\ UNCHANGED <<tenant, bps, deps, live, header, selfTenant, blueprints,
                 deployments, uninstalls>>

AllCancelled == \A x \in killed : Status(x) = "cancelled"

\* "Could not complete teardown" when one is not cancelled after 30 looks.
CheckCancelled ==
  /\ pc = "checkCancelled"
  /\ \/ AllCancelled /\ At("undeploy", 1)
     \/ DestroyMayFail /\ DestroyEnds("raised")
  /\ UNCHANGED <<manager, records>>

\* The manager refuses to run a workflow on a deployment it does not know.
StartUninstall(d, next, index) ==
  \/ d \in deps /\ Addressed /\ Starts(d, "uninstall") /\ At(next, index)
  \/ /\ ~(d \in deps /\ Addressed)
     /\ UNCHANGED <<exec, live>> /\ DestroyEnds("raised")
  \/ /\ DestroyMayFail
     /\ \/ UNCHANGED <<exec, live>>
        \/ LostAnswers /\ d \in deps /\ Addressed /\ Starts(d, "uninstall")
     /\ DestroyEnds("raised")

\* for vm_id in self.deployments[1:]
Undeploy ==
  /\ pc = "undeploy"
  /\ IF k < deployments
     THEN /\ StartUninstall(k, "undeploy", k + 1)
          /\ uninstalls' = IF pc' = "undeploy" THEN uninstalls \cup {k}
                           ELSE uninstalls
     ELSE At("waitUndeploy", 1) /\ UNCHANGED <<exec, live, uninstalls>>
  /\ UNCHANGED <<tenant, bps, deps, foreign, header, selfTenant, blueprints,
                 deployments, killed>>

\* wait_for_execution on the uninstall execution of d.
Uninstalled(d) == exec[d]["uninstall"] = "terminated"
AwaitUninstall(d, next, index) ==
  \/ Uninstalled(d) /\ At(next, index)
  \/ ~Uninstalled(d) /\ exec[d]["uninstall"] \in EndStates
     /\ DestroyEnds("raised")
  \/ DestroyMayFail /\ DestroyEnds("raised")

WaitUndeploy ==
  /\ pc = "waitUndeploy"
  /\ IF k \in uninstalls THEN AwaitUninstall(k, "waitUndeploy", k + 1)
     ELSE At("deleteVm", 1)
  /\ UNCHANGED <<manager, records>>

\* delete_deployment: a refused call, or one whose effect is not seen within
\* forty looks at the list, raises.
DeleteDeployment(d, next, index) ==
  \/ d \in deps /\ Addressed /\ deps' = deps \ {d} /\ At(next, index)
  \/ ~(d \in deps /\ Addressed) /\ UNCHANGED deps /\ DestroyEnds("raised")
  \/ /\ DestroyMayFail
     /\ deps' = deps \/ (d \in deps /\ Addressed /\ deps' = deps \ {d})
     /\ DestroyEnds("raised")

DeleteVm ==
  /\ pc = "deleteVm"
  /\ IF k \in uninstalls THEN DeleteDeployment(k, "deleteVm", k + 1)
     ELSE At("undeployInfra", 0) /\ UNCHANGED deps
  /\ UNCHANGED <<tenant, bps, live, exec, foreign, records>>

UndeployInfra ==
  /\ pc = "undeployInfra"
  /\ StartUninstall(Infra, "waitUndeployInfra", 0)
  /\ UNCHANGED <<tenant, bps, deps, foreign, records>>

WaitUndeployInfra ==
  /\ pc = "waitUndeployInfra"
  /\ AwaitUninstall(Infra, "deleteInfra", 0)
  /\ UNCHANGED <<manager, records>>

DeleteInfra ==
  /\ pc = "deleteInfra"
  /\ DeleteDeployment(Infra, "deleteBlueprints", 1)
  /\ UNCHANGED <<tenant, bps, live, exec, foreign, records>>

\* The manager does not delete a blueprint that a deployment uses.
Deletable(b) == b \in bps /\ Addressed /\ \A d \in deps : BlueprintOf(d) # b

DeleteBlueprints ==
  LET b == BlueprintOrder[k] IN
  /\ pc = "deleteBlueprints"
  /\ \/ k = 3 /\ At("deletePlugins", 0) /\ UNCHANGED bps
     \/ /\ k < 3 /\ b \notin blueprints
        /\ At("deleteBlueprints", k + 1) /\ UNCHANGED bps
     \/ /\ k < 3 /\ b \in blueprints
        /\ \/ Deletable(b) /\ bps' = bps \ {b} /\ At("deleteBlueprints", k + 1)
           \/ ~Deletable(b) /\ UNCHANGED bps /\ DestroyEnds("raised")
           \/ DestroyMayFail /\ bps' \in Maybe(bps, IF Deletable(b) THEN bps \ {b}
                                                    ELSE bps)
              /\ DestroyEnds("raised")
  /\ UNCHANGED <<tenant, deps, live, exec, foreign, records>>

\* The plugins of the tenant are listed and deleted.  create uploads none, it
\* only looks for the platform's: the list has no plugin of the tenant's own.
DeletePlugins ==
  /\ pc = "deletePlugins"
  /\ At("deleteTenant", 0) \/ (DestroyMayFail /\ DestroyEnds("raised"))
  /\ UNCHANGED <<manager, records>>

\* The client leaves the tenant before it asks for its deletion; self.tenant
\* is only reset when that has succeeded.
DeleteTenant ==
  /\ pc = "deleteTenant"
  /\ header' = "default"
  /\ \/ tenant' = FALSE /\ selfTenant' = FALSE /\ DestroyEnds("tornDown")
     \/ DestroyMayFail /\ tenant' \in Maybe(tenant, FALSE)
        /\ UNCHANGED selfTenant /\ DestroyEnds("raised")
  /\ UNCHANGED <<bps, deps, live, exec, foreign, blueprints, deployments,
                 uninstalls, killed>>

-----------------------------------------------------------------------------
(* The infrastructure manager's executions.                                 *)

Ends(d, w, s) ==
  /\ exec' = [exec EXCEPT ![d][w] = s]
  /\ UNCHANGED <<tenant, bps, deps, foreign, records, session, control>>

InstallEnds(d) ==
  /\ exec[d]["install"] = "started"
  /\ \E s \in {"terminated", "failed"} : Ends(d, "install", s)
  /\ UNCHANGED live

\* The resources are gone when an uninstall terminates; one that fails leaves
\* them, and is a fault of the teardown.
UninstallEnds(d) ==
  /\ exec[d]["uninstall"] = "started"
  /\ \/ Ends(d, "uninstall", "terminated") /\ live' = live \ {d}
     \/ DestroyMayFail /\ Ends(d, "uninstall", "failed") /\ UNCHANGED live

KillEnds(d) ==
  /\ \E w \in Workflows :
       exec[d][w] = "cancelling" /\ Ends(d, w, "cancelled")
  /\ UNCHANGED live

InfraManager == \E d \in Deps : InstallEnds(d) \/ UninstallEnds(d) \/ KillEnds(d)

-----------------------------------------------------------------------------
Create ==
  \/ CreateTenant \/ Prepare \/ UploadBlueprint \/ CreateDeployment
  \/ StartInstall \/ WaitInstall \/ Boot

Destroy ==
  \/ Decide \/ Cancel \/ CheckCancelled
  \/ Undeploy \/ WaitUndeploy \/ DeleteVm
  \/ UndeployInfra \/ WaitUndeployInfra \/ DeleteInfra
  \/ DeleteBlueprints \/ DeletePlugins \/ DeleteTenant

TestProcess == Create \/ RunTest \/ Destroy

Next == TestProcess \/ InfraManager

Spec == Init /\ [][Next]_vars

\* The test process is sequential and each of its waits is bounded; nothing
\* is assumed of the manager.
FairSpec == Spec /\ WF_vars(TestProcess)

-----------------------------------------------------------------------------
(* Properties.                                                              *)

ManagerTypes ==
  /\ tenant \in BOOLEAN /\ bps \subseteq Blueprints /\ deps \subseteq Deps
  /\ live \subseteq Deps /\ exec \in [Deps -> [Workflows -> Statuses]]
  /\ foreign \in BOOLEAN

RecordTypes ==
  /\ header \in {"default", "test"} /\ selfTenant \in BOOLEAN
  /\ blueprints \subseteq Blueprints /\ deployments \in 0..(NumVms + 1)
  /\ uninstalls \subseteq Vms /\ killed \subseteq Deps \X Workflows
  /\ passed \in Nat /\ created \in BOOLEAN /\ testFailed \in BOOLEAN

ControlTypes ==
  /\ pc \in CreateSteps \cup Removing \cup {"test", "decide", "over"}
  /\ k \in 0..(NumVms + 1) \cup 0..3
  /\ caller \in {"fixture", "create"} /\ raised \in BOOLEAN
  /\ result \in {"none", "kept", "nothing", "tornDown", "raised"}

TypeOK == ManagerTypes /\ RecordTypes /\ ControlTypes

\* Whatever fails, everything that exists can still be found: resources
\* through their deployment, deployments through a blueprint and the tenant.
ResourcesAreTracked ==
  /\ live \subseteq deps
  /\ \A d \in deps : BlueprintOf(d) \in bps
  /\ bps # {} => tenant

\* The networks are only taken down when no VM is left in them.
InfrastructureOutlivesVms ==
  exec[Infra]["uninstall"] = "started" => live \cap Vms = {}

\* destroy that returns after tearing down leaves nothing of the test.
CleanReturn ==
  result = "tornDown" =>
    ~tenant /\ bps = {} /\ deps = {} /\ live = {} /\ ~selfTenant

\* destroy kills the executions of another tenant only when nothing at all is
\* left of the test: when an earlier destroy has removed everything and then
\* failed to delete the tenant, having left it already.
StraysOnlyWhenGone == foreign => bps = {} /\ deps = {} /\ live = {}

\* What the descriptions of the teardown settings say: the resources of a
\* failed test are removed only under on_failure, those of a test that passed
\* only under on_success.  destroy with no argument goes by the number of tests
\* that have passed in the session instead.
TeardownAsConfigured ==
  pc \in Removing /\ created => IF testFailed THEN OnFailure ELSE OnSuccess

\* An execution is only started on a deployment that has none under way, so
\* that an uninstall never runs beside the install it undoes.
OneExecutionAtATime ==
  [][\A d \in Deps : \A w \in Workflows :
       exec[d][w] # "started" /\ exec'[d][w] = "started" =>
         \A v \in Workflows : exec[d][v] \notin Active]_vars

\* What has been torn down stays so, and tearing it down again (as a fixture
\* with a finally clause does) is no error.
CleanIsFinal ==
  [][result = "tornDown" => result' # "raised" /\ UNCHANGED manager]_vars

\* create, the test and destroy come to an end whatever the manager does.
Termination == <>(pc = "over")
=============================================================================
