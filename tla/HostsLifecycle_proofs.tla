------------------------ MODULE HostsLifecycle_proofs ------------------------
(***************************************************************************)
(* Proofs about HostsLifecycle, for every number of VMs, every setting and  *)
(* every way in which the calls of create and destroy fail.                 *)
(***************************************************************************)
EXTENDS HostsLifecycle, TLAPS

AfterTenant == (CreateSteps \ {"tenant"}) \cup {"test"}
BlueprintsUp == {"deploy", "start", "waitInstall", "boot", "test"}
VmsGone == {"deleteVm", "undeployInfra", "waitUndeployInfra", "deleteInfra",
            "deleteBlueprints", "deletePlugins", "deleteTenant"}
InfraKnown == {"waitUndeployInfra", "deleteInfra", "deleteBlueprints",
               "deletePlugins", "deleteTenant"}

\* The ranges of the loops and what self.deployments has grown to.
Indices ==
  /\ pc = "blueprint" => k \in 1..2
  /\ pc \in {"deploy", "start", "waitInstall"} => k \in Deps
  /\ pc \in {"undeploy", "waitUndeploy", "deleteVm"} => k \in 1..(NumVms + 1)
  /\ pc = "deleteBlueprints" => k \in 1..3
  /\ pc \in {"tenant", "prepare", "blueprint"} => deployments = 0
  /\ pc = "deploy" => deployments = k
  /\ pc = "start" => deployments = k + 1 /\ k \in deps
  /\ pc = "waitInstall" /\ k = Infra => deployments = 1

\* While create is running nothing has been undone.
Creating ==
  /\ pc \in CreateSteps \cup {"test"} =>
       /\ uninstalls = {} /\ result = "none"
       /\ \A d \in Deps : exec[d]["uninstall"] = "none"
  /\ pc = "tenant" => bps = {} /\ deps = {}
  /\ pc \in AfterTenant => Addressed /\ selfTenant
  /\ pc = "blueprint" /\ k = 2 => "infrastructure" \in bps \cap blueprints
  /\ pc \in BlueprintsUp => bps = Blueprints /\ blueprints = Blueprints

\* What was installed is recorded; a deployment is only installed once.
Recorded ==
  /\ \A d \in live : d < deployments
  /\ \A d \in Deps : exec[d]["install"] # "none" => d < deployments
  /\ pc = "start" => exec[k]["install"] = "none"

\* destroy has started, awaited and seen the end of every VM's uninstall
\* before it goes on.
Undone ==
  /\ \A d \in Deps : Uninstalled(d) => d \notin live
  /\ pc = "undeploy" => \A d \in Vms : d < k /\ d < deployments => d \in uninstalls
  /\ pc \in {"waitUndeploy"} \cup VmsGone =>
       \A d \in Vms : d < deployments => d \in uninstalls
  /\ pc = "waitUndeploy" => \A d \in Vms : d < k => d \notin live
  /\ pc \in VmsGone => live \cap Vms = {}
  /\ pc \in {"deleteInfra", "deleteBlueprints", "deletePlugins", "deleteTenant"} =>
       Infra \notin live

\* self.blueprints is complete by the time destroy iterates over it.
BlueprintsKnown ==
  /\ deps # {} => blueprints = Blueprints
  /\ pc \in InfraKnown => blueprints = Blueprints
  /\ pc = "deleteBlueprints" => \A i \in 1..2 : i < k => BlueprintOrder[i] \notin bps
  /\ pc \in {"deletePlugins", "deleteTenant"} => bps = {}

\* What has been torn down is not touched again.
Final == result = "tornDown" => pc \in {"decide", "over"}

\* No execution is under way on a deployment destroy is about to uninstall.
Quiet ==
  /\ pc = "checkCancelled" /\ Addressed => Execs \subseteq killed
  /\ pc = "undeploy" /\ Addressed =>
       \A d \in Deps : d = Infra \/ d >= k => \A w \in Workflows : exec[d][w] \notin Active
  /\ pc \in {"waitUndeploy", "deleteVm", "undeployInfra"} /\ Addressed =>
       \A w \in Workflows : exec[Infra][w] \notin Active

IInv ==
  /\ TypeOK /\ Indices /\ Creating /\ Recorded /\ Undone /\ BlueprintsKnown
  /\ Final /\ Quiet
  /\ ResourcesAreTracked /\ InfrastructureOutlivesVms /\ CleanReturn

-----------------------------------------------------------------------------
(* Basic definitions, visible in all the proofs below. *)
USE HostsAssumption DEF Infra, Vms, Deps, Workflows, Statuses, Active, EndStates,
  CreateSteps, Removing, Blueprints, BlueprintOf, Addressed, AfterTenant,
  BlueprintsUp, VmsGone, InfraKnown, vars, manager, records, session, control

-----------------------------------------------------------------------------
(* Every step of create preserves the invariant: what it makes is recorded,  *)
(* and nothing is undone. *)

\* The tenant, the header and self.tenant are set together or not at all, but for a
\* tenant whose creation was not answered.
LEMMA CreateTenantStep == IInv /\ CreateTenant => IInv'
<1> SUFFICES ASSUME IInv, CreateTenant PROVE IInv' OBVIOUS
<1> USE DEF IInv, TypeOK, ManagerTypes, RecordTypes, ControlTypes, Indices, Creating,
        CreateTenant, At, CreateRaises, Maybe
<1>1. ManagerTypes' OBVIOUS
<1>2. RecordTypes' OBVIOUS
<1>3. ControlTypes' OBVIOUS
<1>4. Indices' OBVIOUS
<1>5. Creating' BY DEF Final
<1>6. Recorded' BY DEF Recorded
<1>7. Undone' BY DEF Recorded, Undone, Uninstalled
<1>8. BlueprintsKnown' BY DEF BlueprintsKnown, BlueprintOrder
<1>9. Final' BY DEF Final, CleanReturn
<1>10. Quiet' BY DEF Recorded, Quiet, Execs
<1>11. ResourcesAreTracked' BY DEF Undone, BlueprintsKnown, ResourcesAreTracked
<1>12. InfrastructureOutlivesVms' BY DEF Undone, InfrastructureOutlivesVms
<1>13. CleanReturn'
     BY DEF BlueprintsKnown, Final, ResourcesAreTracked, CleanReturn
<1> QED BY <1>1, <1>2, <1>3, <1>4, <1>5, <1>6, <1>7, <1>8, <1>9, <1>10, <1>11,
   <1>12, <1>13

\* Uploading secrets changes none of what the invariant speaks of.
LEMMA PrepareStep == IInv /\ Prepare => IInv'
<1> SUFFICES ASSUME IInv, Prepare PROVE IInv' OBVIOUS
<1> USE DEF IInv, TypeOK, ManagerTypes, RecordTypes, ControlTypes, Indices, Creating,
        Prepare, At, CreateRaises
<1>1. ManagerTypes' OBVIOUS
<1>2. RecordTypes' OBVIOUS
<1>3. ControlTypes'
  <2>1. (pc \in CreateSteps \cup Removing \cup {"test", "decide", "over"})' OBVIOUS
  <2>2. (k \in 0..(NumVms + 1) \cup 0..3)' OBVIOUS
  <2>3. (caller \in {"fixture", "create"})' OBVIOUS
  <2>4. (raised \in BOOLEAN)' OBVIOUS
  <2>5. (result \in {"none", "kept", "nothing", "tornDown", "raised"})' OBVIOUS
  <2> QED BY <2>1, <2>2, <2>3, <2>4, <2>5 DEF ControlTypes
<1>4. Indices' OBVIOUS
<1>5. Creating' BY DEF Final
<1>6. Recorded' BY DEF Recorded
<1>7. Undone' BY DEF Recorded, Undone, Uninstalled
<1>8. BlueprintsKnown' BY DEF BlueprintsKnown, BlueprintOrder
<1>9. Final' BY DEF Final, CleanReturn
<1>10. Quiet' BY DEF Recorded, Quiet, Execs
<1>11. ResourcesAreTracked' BY DEF Undone, BlueprintsKnown, ResourcesAreTracked
<1>12. InfrastructureOutlivesVms' BY DEF Undone, InfrastructureOutlivesVms
<1>13. CleanReturn'
     BY DEF BlueprintsKnown, Final, ResourcesAreTracked, CleanReturn
<1> QED BY <1>1, <1>2, <1>3, <1>4, <1>5, <1>6, <1>7, <1>8, <1>9, <1>10, <1>11,
   <1>12, <1>13

\* A blueprint is recorded once uploaded, and only in the tenant.
LEMMA UploadBlueprintStep == IInv /\ UploadBlueprint => IInv'
<1> SUFFICES ASSUME IInv, UploadBlueprint PROVE IInv' OBVIOUS
<1> USE DEF IInv, TypeOK, ManagerTypes, RecordTypes, ControlTypes, Indices, Creating,
        UploadBlueprint, At, CreateRaises, Maybe, BlueprintOrder
<1>1. k \in {1, 2}
      BY DEF Indices
<1>2. k = 1 => BlueprintOrder[k] = "infrastructure"
      OBVIOUS
<1>3. k = 2 => BlueprintOrder[k] = "test_vm"
      OBVIOUS
<1>4. ManagerTypes'
  <2>1. (tenant \in BOOLEAN)' BY <1>1, <1>2, <1>3
  <2>2. (bps \subseteq Blueprints)' BY <1>1, <1>2, <1>3
  <2>3. (deps \subseteq Deps)' BY <1>1, <1>2, <1>3
  <2>4. (live \subseteq Deps)' BY <1>1, <1>2, <1>3
  <2>5. (exec \in [Deps -> [Workflows -> Statuses]])' BY <1>1, <1>2, <1>3
  <2>6. (foreign \in BOOLEAN)' BY <1>1, <1>2, <1>3
  <2> QED BY <2>1, <2>2, <2>3, <2>4, <2>5, <2>6 DEF ManagerTypes
<1>5. RecordTypes'
  <2>1. (header \in {"default", "test"})' BY <1>1, <1>2, <1>3
  <2>2. (selfTenant \in BOOLEAN)' BY <1>1, <1>2, <1>3
  <2>3. (blueprints \subseteq Blueprints)' BY <1>1, <1>2, <1>3
  <2>4. (deployments \in 0..(NumVms + 1))' BY <1>1, <1>2, <1>3
  <2>5. (uninstalls \subseteq Vms)' BY <1>1, <1>2, <1>3
  <2>6. (killed \subseteq Deps \X Workflows)' BY <1>1, <1>2, <1>3
  <2>7. (passed \in Nat)' BY <1>1, <1>2, <1>3
  <2>8. (created \in BOOLEAN)' BY <1>1, <1>2, <1>3
  <2>9. (testFailed \in BOOLEAN)' BY <1>1, <1>2, <1>3
  <2> QED BY <2>1, <2>2, <2>3, <2>4, <2>5, <2>6, <2>7, <2>8, <2>9 DEF
     RecordTypes
<1>6. ControlTypes'
  <2>1. (pc \in CreateSteps \cup Removing \cup {"test", "decide", "over"})'
       BY <1>1, <1>2, <1>3
  <2>2. (k \in 0..(NumVms + 1) \cup 0..3)' BY <1>1, <1>2, <1>3
  <2>3. (caller \in {"fixture", "create"})' BY <1>1, <1>2, <1>3
  <2>4. (raised \in BOOLEAN)' BY <1>1, <1>2, <1>3
  <2>5. (result \in {"none", "kept", "nothing", "tornDown", "raised"})'
       BY <1>1, <1>2, <1>3
  <2> QED BY <2>1, <2>2, <2>3, <2>4, <2>5 DEF ControlTypes
<1>7. Indices' BY <1>1, <1>2, <1>3
<1>8. Creating'
  <2>1. (pc \in CreateSteps \cup {"test"} =>
          /\ uninstalls = {} /\ result = "none"
          /\ \A d \in Deps : exec[d]["uninstall"] = "none")'
               BY <1>1, <1>2, <1>3 DEF Final
  <2>2. (pc = "tenant" => bps = {} /\ deps = {})' BY <1>1, <1>2, <1>3 DEF Final
  <2>3. (pc \in AfterTenant => Addressed /\ selfTenant)'
       BY <1>1, <1>2, <1>3 DEF Final
  <2>4. (pc = "blueprint" /\ k = 2 => "infrastructure" \in bps \cap blueprints)'
       BY <1>1, <1>2, <1>3 DEF Final
  <2>5. (pc \in BlueprintsUp => bps = Blueprints /\ blueprints = Blueprints)'
       BY <1>1, <1>2, <1>3 DEF Final
  <2> QED BY <2>1, <2>2, <2>3, <2>4, <2>5 DEF Creating
<1>9. Recorded' BY <1>1, <1>2, <1>3 DEF Recorded
<1>10. Undone' BY <1>1, <1>2, <1>3 DEF Recorded, Undone, Uninstalled
<1>11. BlueprintsKnown' BY <1>1, <1>2, <1>3 DEF BlueprintsKnown, BlueprintOrder
<1>12. Final' BY <1>1, <1>2, <1>3 DEF Final, CleanReturn
<1>13. Quiet' BY <1>1, <1>2, <1>3 DEF Recorded, Quiet, Execs
<1>14. ResourcesAreTracked'
     BY <1>1, <1>2, <1>3 DEF Undone, BlueprintsKnown, ResourcesAreTracked
<1>15. InfrastructureOutlivesVms'
     BY <1>1, <1>2, <1>3 DEF Undone, InfrastructureOutlivesVms
<1>16. CleanReturn'
     BY <1>1, <1>2, <1>3 DEF BlueprintsKnown, Final, ResourcesAreTracked,
        CleanReturn
<1> QED BY <1>4, <1>5, <1>6, <1>7, <1>8, <1>9, <1>10, <1>11, <1>12, <1>13,
   <1>14, <1>15, <1>16

\* A deployment is made of an uploaded blueprint, and recorded at its index.
LEMMA CreateDeploymentStep == IInv /\ CreateDeployment => IInv'
<1> SUFFICES ASSUME IInv, CreateDeployment PROVE IInv' OBVIOUS
<1> USE DEF IInv, TypeOK, ManagerTypes, RecordTypes, ControlTypes, Indices, Creating,
        CreateDeployment, At, CreateRaises, Maybe
<1>1. ManagerTypes' OBVIOUS
<1>2. RecordTypes' OBVIOUS
<1>3. ControlTypes' OBVIOUS
<1>4. Indices' OBVIOUS
<1>5. Creating' BY DEF Final
<1>6. Recorded' BY DEF Recorded
<1>7. Undone' BY DEF Recorded, Undone, Uninstalled
<1>8. BlueprintsKnown' BY DEF BlueprintsKnown, BlueprintOrder
<1>9. Final' BY DEF Final, CleanReturn
<1>10. Quiet' BY DEF Recorded, Quiet, Execs
<1>11. ResourcesAreTracked' BY DEF Undone, BlueprintsKnown, ResourcesAreTracked
<1>12. InfrastructureOutlivesVms' BY DEF Undone, InfrastructureOutlivesVms
<1>13. CleanReturn'
     BY DEF BlueprintsKnown, Final, ResourcesAreTracked, CleanReturn
<1> QED BY <1>1, <1>2, <1>3, <1>4, <1>5, <1>6, <1>7, <1>8, <1>9, <1>10, <1>11,
   <1>12, <1>13

\* An install starts on a deployment that has no execution yet.
LEMMA StartInstallStep == IInv /\ StartInstall => IInv'
<1> SUFFICES ASSUME IInv, StartInstall PROVE IInv' OBVIOUS
<1> USE DEF IInv, TypeOK, ManagerTypes, RecordTypes, ControlTypes, Indices, Creating,
        StartInstall, At, CreateRaises, Starts
<1>1. deployments = k + 1 /\ k \in Deps
      BY DEF Indices
<1>2. deployments' = deployments
      OBVIOUS
<1>3. live' = live \cup {k} \/ live' = live
      OBVIOUS
<1>4. \A d \in live' : d < deployments'
      <2> HIDE DEF StartInstall, Starts
      <2>1. \A d \in live : d < deployments BY DEF Recorded
      <2>2. k < deployments BY <1>1
      <2> QED BY <2>1, <2>2, <1>2, <1>3
<1>5. ManagerTypes'
  <2>1. (tenant \in BOOLEAN)' BY <1>1, <1>2, <1>3, <1>4
  <2>2. (bps \subseteq Blueprints)' BY <1>1, <1>2, <1>3, <1>4
  <2>3. (deps \subseteq Deps)' BY <1>1, <1>2, <1>3, <1>4
  <2>4. (live \subseteq Deps)' BY <1>1, <1>2, <1>3, <1>4
  <2>5. (exec \in [Deps -> [Workflows -> Statuses]])' BY <1>1, <1>2, <1>3, <1>4
  <2>6. (foreign \in BOOLEAN)' BY <1>1, <1>2, <1>3, <1>4
  <2> QED BY <2>1, <2>2, <2>3, <2>4, <2>5, <2>6 DEF ManagerTypes
<1>6. RecordTypes' BY <1>1, <1>2, <1>3, <1>4
<1>7. ControlTypes'
  <2>1. (pc \in CreateSteps \cup Removing \cup {"test", "decide", "over"})'
       BY <1>1, <1>2, <1>3, <1>4
  <2>2. (k \in 0..(NumVms + 1) \cup 0..3)' BY <1>1, <1>2, <1>3, <1>4
  <2>3. (caller \in {"fixture", "create"})' BY <1>1, <1>2, <1>3, <1>4
  <2>4. (raised \in BOOLEAN)' BY <1>1, <1>2, <1>3, <1>4
  <2>5. (result \in {"none", "kept", "nothing", "tornDown", "raised"})'
       BY <1>1, <1>2, <1>3, <1>4
  <2> QED BY <2>1, <2>2, <2>3, <2>4, <2>5 DEF ControlTypes
<1>8. Indices' BY <1>1, <1>2, <1>3, <1>4
<1>9. Creating' BY <1>1, <1>2, <1>3, <1>4 DEF Final
<1>10. Recorded'
  <2>1. (\A d \in live : d < deployments)'
       BY <1>1, <1>2, <1>3, <1>4 DEF Recorded
  <2>2. (\A d \in Deps : exec[d]["install"] # "none" => d < deployments)'
       BY <1>1, <1>2, <1>3, <1>4 DEF Recorded
  <2>3. (pc = "start" => exec[k]["install"] = "none")'
       BY <1>1, <1>2, <1>3, <1>4 DEF Recorded
  <2> QED BY <2>1, <2>2, <2>3 DEF Recorded
<1>11. Undone' BY <1>1, <1>2, <1>3, <1>4 DEF Recorded, Undone, Uninstalled
<1>12. BlueprintsKnown'
     BY <1>1, <1>2, <1>3, <1>4 DEF BlueprintsKnown, BlueprintOrder
<1>13. Final' BY <1>1, <1>2, <1>3, <1>4 DEF Final, CleanReturn
<1>14. Quiet' BY <1>1, <1>2, <1>3, <1>4 DEF Recorded, Quiet, Execs
<1>15. ResourcesAreTracked'
     BY <1>1, <1>2, <1>3, <1>4 DEF Undone, BlueprintsKnown, ResourcesAreTracked
<1>16. InfrastructureOutlivesVms'
     BY <1>1, <1>2, <1>3, <1>4 DEF Undone, InfrastructureOutlivesVms
<1>17. CleanReturn'
     BY <1>1, <1>2, <1>3, <1>4 DEF BlueprintsKnown, Final, ResourcesAreTracked,
        CleanReturn
<1> QED BY <1>5, <1>6, <1>7, <1>8, <1>9, <1>10, <1>11, <1>12, <1>13, <1>14,
   <1>15, <1>16, <1>17

\* Waiting for an install changes nothing on the manager.
LEMMA WaitInstallStep == IInv /\ WaitInstall => IInv'
<1> SUFFICES ASSUME IInv, WaitInstall PROVE IInv' OBVIOUS
<1> USE DEF IInv, TypeOK, ManagerTypes, RecordTypes, ControlTypes, Indices, Creating,
        WaitInstall, At, CreateRaises
<1>1. ManagerTypes' OBVIOUS
<1>2. RecordTypes' OBVIOUS
<1>3. ControlTypes'
  <2>1. (pc \in CreateSteps \cup Removing \cup {"test", "decide", "over"})' OBVIOUS
  <2>2. (k \in 0..(NumVms + 1) \cup 0..3)' OBVIOUS
  <2>3. (caller \in {"fixture", "create"})' OBVIOUS
  <2>4. (raised \in BOOLEAN)' OBVIOUS
  <2>5. (result \in {"none", "kept", "nothing", "tornDown", "raised"})' OBVIOUS
  <2> QED BY <2>1, <2>2, <2>3, <2>4, <2>5 DEF ControlTypes
<1>4. Indices' OBVIOUS
<1>5. Creating' BY DEF Final
<1>6. Recorded' BY DEF Recorded
<1>7. Undone' BY DEF Recorded, Undone, Uninstalled
<1>8. BlueprintsKnown' BY DEF BlueprintsKnown, BlueprintOrder
<1>9. Final' BY DEF Final, CleanReturn
<1>10. Quiet' BY DEF Recorded, Quiet, Execs
<1>11. ResourcesAreTracked' BY DEF Undone, BlueprintsKnown, ResourcesAreTracked
<1>12. InfrastructureOutlivesVms' BY DEF Undone, InfrastructureOutlivesVms
<1>13. CleanReturn'
     BY DEF BlueprintsKnown, Final, ResourcesAreTracked, CleanReturn
<1> QED BY <1>1, <1>2, <1>3, <1>4, <1>5, <1>6, <1>7, <1>8, <1>9, <1>10, <1>11,
   <1>12, <1>13

\* Booting the VMs changes nothing on the manager.
LEMMA BootStep == IInv /\ Boot => IInv'
<1> SUFFICES ASSUME IInv, Boot PROVE IInv' OBVIOUS
<1> USE DEF IInv, TypeOK, ManagerTypes, RecordTypes, ControlTypes, Indices, Creating,
        Boot, CreateRaises
<1>1. ManagerTypes' OBVIOUS
<1>2. RecordTypes' OBVIOUS
<1>3. ControlTypes' OBVIOUS
<1>4. Indices' OBVIOUS
<1>5. Creating' BY DEF Final
<1>6. Recorded' BY DEF Recorded
<1>7. Undone' BY DEF Recorded, Undone, Uninstalled
<1>8. BlueprintsKnown' BY DEF BlueprintsKnown, BlueprintOrder
<1>9. Final' BY DEF Final, CleanReturn
<1>10. Quiet' BY DEF Recorded, Quiet, Execs
<1>11. ResourcesAreTracked' BY DEF Undone, BlueprintsKnown, ResourcesAreTracked
<1>12. InfrastructureOutlivesVms' BY DEF Undone, InfrastructureOutlivesVms
<1>13. CleanReturn'
     BY DEF BlueprintsKnown, Final, ResourcesAreTracked, CleanReturn
<1> QED BY <1>1, <1>2, <1>3, <1>4, <1>5, <1>6, <1>7, <1>8, <1>9, <1>10, <1>11,
   <1>12, <1>13

-----------------------------------------------------------------------------
(* The test, and every step of destroy. *)

\* Neither does the test.
LEMMA RunTestStep == IInv /\ RunTest => IInv'
<1> SUFFICES ASSUME IInv, RunTest PROVE IInv' OBVIOUS
<1> USE DEF IInv, TypeOK, ManagerTypes, RecordTypes, ControlTypes, Indices, Creating,
        RunTest
<1>1. ManagerTypes' OBVIOUS
<1>2. RecordTypes'
  <2>1. (header \in {"default", "test"})' OBVIOUS
  <2>2. (selfTenant \in BOOLEAN)' OBVIOUS
  <2>3. (blueprints \subseteq Blueprints)' OBVIOUS
  <2>4. (deployments \in 0..(NumVms + 1))' OBVIOUS
  <2>5. (uninstalls \subseteq Vms)' OBVIOUS
  <2>6. (killed \subseteq Deps \X Workflows)' OBVIOUS
  <2>7. (passed \in Nat)' OBVIOUS
  <2>8. (created \in BOOLEAN)' OBVIOUS
  <2>9. (testFailed \in BOOLEAN)' OBVIOUS
  <2> QED BY <2>1, <2>2, <2>3, <2>4, <2>5, <2>6, <2>7, <2>8, <2>9 DEF
     RecordTypes
<1>3. ControlTypes' OBVIOUS
<1>4. Indices' OBVIOUS
<1>5. Creating' BY DEF Final
<1>6. Recorded' BY DEF Recorded
<1>7. Undone' BY DEF Recorded, Undone, Uninstalled
<1>8. BlueprintsKnown' BY DEF BlueprintsKnown, BlueprintOrder
<1>9. Final' BY DEF Final, CleanReturn
<1>10. Quiet' BY DEF Recorded, Quiet, Execs
<1>11. ResourcesAreTracked' BY DEF Undone, BlueprintsKnown, ResourcesAreTracked
<1>12. InfrastructureOutlivesVms' BY DEF Undone, InfrastructureOutlivesVms
<1>13. CleanReturn'
     BY DEF BlueprintsKnown, Final, ResourcesAreTracked, CleanReturn
<1> QED BY <1>1, <1>2, <1>3, <1>4, <1>5, <1>6, <1>7, <1>8, <1>9, <1>10, <1>11,
   <1>12, <1>13

\* destroy starts with the records that create or an earlier destroy has left.
LEMMA DecideStep == IInv /\ Decide => IInv'
<1> SUFFICES ASSUME IInv, Decide PROVE IInv' OBVIOUS
<1> USE DEF IInv, TypeOK, ManagerTypes, RecordTypes, ControlTypes, Indices, Creating,
        Decide, At, DestroyEnds
<1>1. ManagerTypes' OBVIOUS
<1>2. RecordTypes' OBVIOUS
<1>3. ControlTypes' OBVIOUS
<1>4. Indices' OBVIOUS
<1>5. Creating' BY DEF Final
<1>6. Recorded' BY DEF Recorded
<1>7. Undone' BY DEF Recorded, Undone, Uninstalled
<1>8. BlueprintsKnown' BY DEF BlueprintsKnown, BlueprintOrder
<1>9. Final'
  <2>1. (result = "tornDown" => pc \in {"decide", "over"})'
       BY DEF Final, CleanReturn
  <2> QED BY <2>1 DEF Final
<1>10. Quiet' BY DEF Recorded, Quiet, Execs
<1>11. ResourcesAreTracked' BY DEF Undone, BlueprintsKnown, ResourcesAreTracked
<1>12. InfrastructureOutlivesVms' BY DEF Undone, InfrastructureOutlivesVms
<1>13. CleanReturn'
     BY DEF BlueprintsKnown, Final, ResourcesAreTracked, CleanReturn
<1> QED BY <1>1, <1>2, <1>3, <1>4, <1>5, <1>6, <1>7, <1>8, <1>9, <1>10, <1>11,
   <1>12, <1>13

\* Every execution of the tenant is remembered when it is cancelled.
LEMMA CancelStep == IInv /\ Cancel => IInv'
<1> SUFFICES ASSUME IInv, Cancel PROVE IInv' OBVIOUS
<1> USE DEF IInv, TypeOK, ManagerTypes, RecordTypes, ControlTypes, Indices, Creating,
        Cancel, At, DestroyEnds, CancelThese, Execs
<1>1. exec \in [Deps -> [Workflows -> Statuses]]
      BY DEF TypeOK, ManagerTypes
<1>2. PICK xs \in SUBSET Execs : CancelThese(xs)
      <2> HIDE DEF IInv, CancelThese
      <2> QED BY DEF Execs
<1>3. exec' \in [Deps -> [Workflows -> Statuses]]
      BY <1>1, <1>2
<1>4. \A d \in Deps, w \in Workflows :
        exec'[d][w] \in {exec[d][w], "cancelling"} /\ (exec[d][w] = "none" => exec'[d][w] = "none")
      BY <1>1, <1>2 DEF Execs
<1>5. ManagerTypes'
  <2>1. (tenant \in BOOLEAN)' BY <1>1, <1>2, <1>3, <1>4
  <2>2. (bps \subseteq Blueprints)' BY <1>1, <1>2, <1>3, <1>4
  <2>3. (deps \subseteq Deps)' BY <1>1, <1>2, <1>3, <1>4
  <2>4. (live \subseteq Deps)' BY <1>1, <1>2, <1>3, <1>4
  <2>5. (exec \in [Deps -> [Workflows -> Statuses]])' BY <1>1, <1>2, <1>3, <1>4
  <2>6. (foreign \in BOOLEAN)' BY <1>1, <1>2, <1>3, <1>4
  <2> QED BY <2>1, <2>2, <2>3, <2>4, <2>5, <2>6 DEF ManagerTypes
<1>6. RecordTypes' BY <1>1, <1>2, <1>3, <1>4
<1>7. ControlTypes' BY <1>1, <1>2, <1>3, <1>4
<1>8. Indices' BY <1>1, <1>2, <1>3, <1>4
<1>9. Creating' BY <1>1, <1>2, <1>3, <1>4 DEF Final
<1>10. Recorded'
  <2>1. (\A d \in live : d < deployments)'
       BY <1>1, <1>2, <1>3, <1>4 DEF Recorded
  <2>2. (\A d \in Deps : exec[d]["install"] # "none" => d < deployments)'
       BY <1>1, <1>2, <1>3, <1>4 DEF Recorded
  <2>3. (pc = "start" => exec[k]["install"] = "none")'
       BY <1>1, <1>2, <1>3, <1>4 DEF Recorded
  <2> QED BY <2>1, <2>2, <2>3 DEF Recorded
<1>11. Undone'
  <2>1. (\A d \in Deps : Uninstalled(d) => d \notin live)'
       BY <1>1, <1>2, <1>3, <1>4 DEF Recorded, Undone, Uninstalled
  <2>2. (pc = "undeploy" => \A d \in Vms : d < k /\ d < deployments => d \in uninstalls)'
       BY <1>1, <1>2, <1>3, <1>4 DEF Recorded, Undone, Uninstalled
  <2>3. (pc \in {"waitUndeploy"} \cup VmsGone =>
          \A d \in Vms : d < deployments => d \in uninstalls)'
               BY <1>1, <1>2, <1>3, <1>4 DEF Recorded, Undone, Uninstalled
  <2>4. (pc = "waitUndeploy" => \A d \in Vms : d < k => d \notin live)'
       BY <1>1, <1>2, <1>3, <1>4 DEF Recorded, Undone, Uninstalled
  <2>5. (pc \in VmsGone => live \cap Vms = {})'
       BY <1>1, <1>2, <1>3, <1>4 DEF Recorded, Undone, Uninstalled
  <2>6. (pc \in {"deleteInfra", "deleteBlueprints", "deleteTenant"} => Infra \notin live)'
       BY <1>1, <1>2, <1>3, <1>4 DEF Recorded, Undone, Uninstalled
  <2> QED BY <2>1, <2>2, <2>3, <2>4, <2>5, <2>6 DEF Undone
<1>12. BlueprintsKnown'
     BY <1>1, <1>2, <1>3, <1>4 DEF BlueprintsKnown, BlueprintOrder
<1>13. Final' BY <1>1, <1>2, <1>3, <1>4 DEF Final, CleanReturn
<1>14. Quiet'
  <2>1. (pc = "checkCancelled" /\ Addressed => Execs \subseteq killed)'
       BY <1>1, <1>2, <1>3, <1>4 DEF Recorded, Quiet, Execs
  <2>2. (pc = "undeploy" /\ Addressed =>
          \A d \in Deps : d = Infra \/ d >= k => \A w \in Workflows : exec[d][w] \notin Active)'
               BY <1>1, <1>2, <1>3, <1>4 DEF Recorded, Quiet, Execs
  <2>3. (pc \in {"waitUndeploy", "deleteVm", "undeployInfra"} /\ Addressed =>
          \A w \in Workflows : exec[Infra][w] \notin Active)'
               BY <1>1, <1>2, <1>3, <1>4 DEF Recorded, Quiet, Execs
  <2> QED BY <2>1, <2>2, <2>3 DEF Quiet
<1>15. ResourcesAreTracked'
     BY <1>1, <1>2, <1>3, <1>4 DEF Undone, BlueprintsKnown, ResourcesAreTracked
<1>16. InfrastructureOutlivesVms'
  <2>1. (exec[Infra]["uninstall"] = "started" => live \cap Vms = {})'
       BY <1>1, <1>2, <1>3, <1>4 DEF Undone, InfrastructureOutlivesVms
  <2> QED BY <2>1 DEF InfrastructureOutlivesVms
<1>17. CleanReturn'
     BY <1>1, <1>2, <1>3, <1>4 DEF BlueprintsKnown, Final, ResourcesAreTracked,
        CleanReturn
<1> QED BY <1>5, <1>6, <1>7, <1>8, <1>9, <1>10, <1>11, <1>12, <1>13, <1>14,
   <1>15, <1>16, <1>17

\* Past the check, nothing is under way on any deployment.
LEMMA CheckCancelledStep == IInv /\ CheckCancelled => IInv'
<1> SUFFICES ASSUME IInv, CheckCancelled PROVE IInv' OBVIOUS
<1> USE DEF IInv, TypeOK, ManagerTypes, RecordTypes, ControlTypes, Indices, Creating,
        CheckCancelled, At, DestroyEnds, AllCancelled, Status, Execs
<1>1. pc = "checkCancelled" /\ Addressed /\ AllCancelled =>
         \A d \in Deps, w \in Workflows : exec[d][w] \in {"none", "cancelled"}
      <2> SUFFICES ASSUME pc = "checkCancelled", Addressed, AllCancelled, NEW d \in Deps, NEW w \in Workflows,
                        exec[d][w] # "none" PROVE exec[d][w] = "cancelled" OBVIOUS
      <2>1. <<d, w>> \in Execs BY DEF Execs
      <2>2. <<d, w>> \in killed BY <2>1 DEF Quiet
      <2> QED BY <2>2 DEF AllCancelled, Status
<1>2. ManagerTypes' BY <1>1
<1>3. RecordTypes' BY <1>1
<1>4. ControlTypes' BY <1>1
<1>5. Indices' BY <1>1
<1>6. Creating' BY <1>1 DEF Final
<1>7. Recorded' BY <1>1 DEF Recorded
<1>8. Undone' BY <1>1 DEF Recorded, Undone, Uninstalled
<1>9. BlueprintsKnown' BY <1>1 DEF BlueprintsKnown, BlueprintOrder
<1>10. Final' BY <1>1 DEF Final, CleanReturn
<1>11. Quiet'
  <2>1. (pc = "checkCancelled" /\ Addressed => Execs \subseteq killed)'
       BY <1>1 DEF Recorded, Quiet, Execs
  <2>2. (pc = "undeploy" /\ Addressed =>
          \A d \in Deps : d = Infra \/ d >= k => \A w \in Workflows : exec[d][w] \notin Active)'
               BY <1>1 DEF Recorded, Quiet, Execs
  <2>3. (pc \in {"waitUndeploy", "deleteVm", "undeployInfra"} /\ Addressed =>
          \A w \in Workflows : exec[Infra][w] \notin Active)'
               BY <1>1 DEF Recorded, Quiet, Execs
  <2> QED BY <2>1, <2>2, <2>3 DEF Quiet
<1>12. ResourcesAreTracked'
     BY <1>1 DEF Undone, BlueprintsKnown, ResourcesAreTracked
<1>13. InfrastructureOutlivesVms' BY <1>1 DEF Undone, InfrastructureOutlivesVms
<1>14. CleanReturn'
     BY <1>1 DEF BlueprintsKnown, Final, ResourcesAreTracked, CleanReturn
<1> QED BY <1>2, <1>3, <1>4, <1>5, <1>6, <1>7, <1>8, <1>9, <1>10, <1>11, <1>12,
   <1>13, <1>14

\* An uninstall starts on a deployment on which nothing is under way.
LEMMA UndeployStep == IInv /\ Undeploy => IInv'
<1> SUFFICES ASSUME IInv, Undeploy PROVE IInv' OBVIOUS
<1> USE DEF IInv, TypeOK, ManagerTypes, RecordTypes, ControlTypes, Indices, Creating,
        Undeploy, At, DestroyEnds, StartUninstall, Starts
<1>1. k < deployments => k \in Vms
      BY DEF TypeOK, RecordTypes, Indices
<1>2. UNCHANGED exec \/ Starts(k, "uninstall")
      <2> HIDE DEF Starts
      <2> QED OBVIOUS
<1>3. exec \in [Deps -> [Workflows -> Statuses]]
      BY DEF TypeOK, ManagerTypes
<1>4. k < deployments \/ UNCHANGED exec
      <2> HIDE DEF Starts
      <2> QED OBVIOUS
<1>5. exec' \in [Deps -> [Workflows -> Statuses]]
      <2>1. UNCHANGED exec \/ exec' = [exec EXCEPT ![k]["uninstall"] = "started"]
        BY <1>2 DEF Starts
      <2> HIDE DEF IInv, TypeOK, ManagerTypes, RecordTypes, ControlTypes, Indices,
               Creating, Undeploy, StartUninstall, Starts, At, DestroyEnds
      <2>2. CASE UNCHANGED exec  BY <2>2, <1>3
      <2>3. CASE k \in Vms /\ exec' = [exec EXCEPT ![k]["uninstall"] = "started"]
        BY <2>3, <1>3
      <2> QED BY <2>1, <2>2, <2>3, <1>1, <1>4
<1>6. uninstalls' = uninstalls \/ (k < deployments /\ uninstalls' = uninstalls \cup {k})
      <2> HIDE DEF StartUninstall, Starts
      <2> QED OBVIOUS
<1>7. ManagerTypes'
  <2>1. (tenant \in BOOLEAN)' BY <1>1, <1>2, <1>3, <1>4, <1>5, <1>6
  <2>2. (bps \subseteq Blueprints)' BY <1>1, <1>2, <1>3, <1>4, <1>5, <1>6
  <2>3. (deps \subseteq Deps)' BY <1>1, <1>2, <1>3, <1>4, <1>5, <1>6
  <2>4. (live \subseteq Deps)' BY <1>1, <1>2, <1>3, <1>4, <1>5, <1>6
  <2>5. (exec \in [Deps -> [Workflows -> Statuses]])'
       BY <1>1, <1>2, <1>3, <1>4, <1>5, <1>6
  <2>6. (foreign \in BOOLEAN)' BY <1>1, <1>2, <1>3, <1>4, <1>5, <1>6
  <2> QED BY <2>1, <2>2, <2>3, <2>4, <2>5, <2>6 DEF ManagerTypes
<1>8. RecordTypes'
  <2>1. (header \in {"default", "test"})' BY <1>1, <1>2, <1>3, <1>4, <1>5, <1>6
  <2>2. (selfTenant \in BOOLEAN)' BY <1>1, <1>2, <1>3, <1>4, <1>5, <1>6
  <2>3. (blueprints \subseteq Blueprints)' BY <1>1, <1>2, <1>3, <1>4, <1>5, <1>6
  <2>4. (deployments \in 0..(NumVms + 1))' BY <1>1, <1>2, <1>3, <1>4, <1>5, <1>6
  <2>5. (uninstalls \subseteq Vms)' BY <1>1, <1>2, <1>3, <1>4, <1>5, <1>6
  <2>6. (killed \subseteq Deps \X Workflows)'
       BY <1>1, <1>2, <1>3, <1>4, <1>5, <1>6
  <2>7. (passed \in Nat)' BY <1>1, <1>2, <1>3, <1>4, <1>5, <1>6
  <2>8. (created \in BOOLEAN)' BY <1>1, <1>2, <1>3, <1>4, <1>5, <1>6
  <2>9. (testFailed \in BOOLEAN)' BY <1>1, <1>2, <1>3, <1>4, <1>5, <1>6
  <2> QED BY <2>1, <2>2, <2>3, <2>4, <2>5, <2>6, <2>7, <2>8, <2>9 DEF
     RecordTypes
<1>9. ControlTypes'
  <2>1. (pc \in CreateSteps \cup Removing \cup {"test", "decide", "over"})'
       BY <1>1, <1>2, <1>3, <1>4, <1>5, <1>6
  <2>2. (k \in 0..(NumVms + 1) \cup 0..3)' BY <1>1, <1>2, <1>3, <1>4, <1>5, <1>6
  <2>3. (caller \in {"fixture", "create"})'
       BY <1>1, <1>2, <1>3, <1>4, <1>5, <1>6
  <2>4. (raised \in BOOLEAN)' BY <1>1, <1>2, <1>3, <1>4, <1>5, <1>6
  <2>5. (result \in {"none", "kept", "nothing", "tornDown", "raised"})'
       BY <1>1, <1>2, <1>3, <1>4, <1>5, <1>6
  <2> QED BY <2>1, <2>2, <2>3, <2>4, <2>5 DEF ControlTypes
<1>10. Indices' BY <1>1, <1>2, <1>3, <1>4, <1>5, <1>6
<1>11. Creating' BY <1>1, <1>2, <1>3, <1>4, <1>5, <1>6 DEF Final
<1>12. Recorded' BY <1>1, <1>2, <1>3, <1>4, <1>5, <1>6 DEF Recorded
<1>13. Undone' BY <1>1, <1>2, <1>3, <1>4, <1>5, <1>6 DEF Recorded, Undone,
   Uninstalled
<1>14. BlueprintsKnown'
     BY <1>1, <1>2, <1>3, <1>4, <1>5, <1>6 DEF BlueprintsKnown, BlueprintOrder
<1>15. Final' BY <1>1, <1>2, <1>3, <1>4, <1>5, <1>6 DEF Final, CleanReturn
<1>16. Quiet' BY <1>1, <1>2, <1>3, <1>4, <1>5, <1>6 DEF Recorded, Quiet, Execs
<1>17. ResourcesAreTracked'
     BY <1>1, <1>2, <1>3, <1>4, <1>5, <1>6 DEF Undone, BlueprintsKnown,
        ResourcesAreTracked
<1>18. InfrastructureOutlivesVms'
     BY <1>1, <1>2, <1>3, <1>4, <1>5, <1>6 DEF Undone,
        InfrastructureOutlivesVms
<1>19. CleanReturn'
     BY <1>1, <1>2, <1>3, <1>4, <1>5, <1>6 DEF BlueprintsKnown, Final,
        ResourcesAreTracked, CleanReturn
<1> QED BY <1>7, <1>8, <1>9, <1>10, <1>11, <1>12, <1>13, <1>14, <1>15, <1>16,
   <1>17, <1>18, <1>19

\* Past the wait for a VM's uninstall the VM is gone.
LEMMA WaitUndeployStep == IInv /\ WaitUndeploy => IInv'
<1> SUFFICES ASSUME IInv, WaitUndeploy PROVE IInv' OBVIOUS
<1> USE DEF IInv, TypeOK, ManagerTypes, RecordTypes, ControlTypes, Indices, Creating,
        WaitUndeploy, At, DestroyEnds, AwaitUninstall
<1>1. ManagerTypes' OBVIOUS
<1>2. RecordTypes' OBVIOUS
<1>3. ControlTypes'
  <2>1. (pc \in CreateSteps \cup Removing \cup {"test", "decide", "over"})' OBVIOUS
  <2>2. (k \in 0..(NumVms + 1) \cup 0..3)' OBVIOUS
  <2>3. (caller \in {"fixture", "create"})' OBVIOUS
  <2>4. (raised \in BOOLEAN)' OBVIOUS
  <2>5. (result \in {"none", "kept", "nothing", "tornDown", "raised"})' OBVIOUS
  <2> QED BY <2>1, <2>2, <2>3, <2>4, <2>5 DEF ControlTypes
<1>4. Indices' OBVIOUS
<1>5. Creating' BY DEF Final
<1>6. Recorded' BY DEF Recorded
<1>7. Undone' BY DEF Recorded, Undone, Uninstalled
<1>8. BlueprintsKnown' BY DEF BlueprintsKnown, BlueprintOrder
<1>9. Final' BY DEF Final, CleanReturn
<1>10. Quiet' BY DEF Recorded, Quiet, Execs
<1>11. ResourcesAreTracked' BY DEF Undone, BlueprintsKnown, ResourcesAreTracked
<1>12. InfrastructureOutlivesVms' BY DEF Undone, InfrastructureOutlivesVms
<1>13. CleanReturn'
     BY DEF BlueprintsKnown, Final, ResourcesAreTracked, CleanReturn
<1> QED BY <1>1, <1>2, <1>3, <1>4, <1>5, <1>6, <1>7, <1>8, <1>9, <1>10, <1>11,
   <1>12, <1>13

\* A VM's deployment is deleted when its uninstall has terminated.
LEMMA DeleteVmStep == IInv /\ DeleteVm => IInv'
<1> SUFFICES ASSUME IInv, DeleteVm PROVE IInv' OBVIOUS
<1> USE DEF IInv, TypeOK, ManagerTypes, RecordTypes, ControlTypes, Indices, Creating,
        DeleteVm, At, DestroyEnds, DeleteDeployment
<1>1. ManagerTypes' OBVIOUS
<1>2. RecordTypes' OBVIOUS
<1>3. ControlTypes'
  <2>1. (pc \in CreateSteps \cup Removing \cup {"test", "decide", "over"})' OBVIOUS
  <2>2. (k \in 0..(NumVms + 1) \cup 0..3)' OBVIOUS
  <2>3. (caller \in {"fixture", "create"})' OBVIOUS
  <2>4. (raised \in BOOLEAN)' OBVIOUS
  <2>5. (result \in {"none", "kept", "nothing", "tornDown", "raised"})' OBVIOUS
  <2> QED BY <2>1, <2>2, <2>3, <2>4, <2>5 DEF ControlTypes
<1>4. Indices' OBVIOUS
<1>5. Creating' BY DEF Final
<1>6. Recorded' BY DEF Recorded
<1>7. Undone' BY DEF Recorded, Undone, Uninstalled
<1>8. BlueprintsKnown' BY DEF BlueprintsKnown, BlueprintOrder
<1>9. Final' BY DEF Final, CleanReturn
<1>10. Quiet' BY DEF Recorded, Quiet, Execs
<1>11. ResourcesAreTracked'
  <2>1. UNCHANGED <<tenant, bps, live>> /\ live \cap Vms = {}
       BY DEF Undone
  <2>2. deps' = deps \/ (k \in Vms /\ deps' = deps \ {k}) OBVIOUS
  <2>3. live \subseteq deps' BY <2>1, <2>2 DEF ResourcesAreTracked
  <2>4. deps' \subseteq deps BY <2>2
  <2> QED BY <2>1, <2>3, <2>4 DEF ResourcesAreTracked
<1>12. InfrastructureOutlivesVms' BY DEF Undone, InfrastructureOutlivesVms
<1>13. CleanReturn'
     BY DEF BlueprintsKnown, Final, ResourcesAreTracked, CleanReturn
<1> QED BY <1>1, <1>2, <1>3, <1>4, <1>5, <1>6, <1>7, <1>8, <1>9, <1>10, <1>11,
   <1>12, <1>13

\* The infrastructure's uninstall starts when no VM is left.
LEMMA UndeployInfraStep == IInv /\ UndeployInfra => IInv'
<1> SUFFICES ASSUME IInv, UndeployInfra PROVE IInv' OBVIOUS
<1> USE DEF IInv, TypeOK, ManagerTypes, RecordTypes, ControlTypes, Indices, Creating,
        UndeployInfra, At, DestroyEnds, StartUninstall, Starts
<1>1. ManagerTypes'
  <2>1. (tenant \in BOOLEAN)' OBVIOUS
  <2>2. (bps \subseteq Blueprints)' OBVIOUS
  <2>3. (deps \subseteq Deps)' OBVIOUS
  <2>4. (live \subseteq Deps)' OBVIOUS
  <2>5. (exec \in [Deps -> [Workflows -> Statuses]])' OBVIOUS
  <2>6. (foreign \in BOOLEAN)' OBVIOUS
  <2> QED BY <2>1, <2>2, <2>3, <2>4, <2>5, <2>6 DEF ManagerTypes
<1>2. RecordTypes' OBVIOUS
<1>3. ControlTypes'
  <2>1. (pc \in CreateSteps \cup Removing \cup {"test", "decide", "over"})' OBVIOUS
  <2>2. (k \in 0..(NumVms + 1) \cup 0..3)' OBVIOUS
  <2>3. (caller \in {"fixture", "create"})' OBVIOUS
  <2>4. (raised \in BOOLEAN)' OBVIOUS
  <2>5. (result \in {"none", "kept", "nothing", "tornDown", "raised"})' OBVIOUS
  <2> QED BY <2>1, <2>2, <2>3, <2>4, <2>5 DEF ControlTypes
<1>4. Indices' OBVIOUS
<1>5. Creating' BY DEF Final
<1>6. Recorded'
  <2>1. (\A d \in live : d < deployments)' BY DEF Recorded
  <2>2. (\A d \in Deps : exec[d]["install"] # "none" => d < deployments)'
       BY DEF Recorded
  <2>3. (pc = "start" => exec[k]["install"] = "none")' BY DEF Recorded
  <2> QED BY <2>1, <2>2, <2>3 DEF Recorded
<1>7. Undone' BY DEF Recorded, Undone, Uninstalled
<1>8. BlueprintsKnown' BY DEF BlueprintsKnown, BlueprintOrder
<1>9. Final' BY DEF Final, CleanReturn
<1>10. Quiet' BY DEF Recorded, Quiet, Execs
<1>11. ResourcesAreTracked' BY DEF Undone, BlueprintsKnown, ResourcesAreTracked
<1>12. InfrastructureOutlivesVms' BY DEF Undone, InfrastructureOutlivesVms
<1>13. CleanReturn'
     BY DEF BlueprintsKnown, Final, ResourcesAreTracked, CleanReturn
<1> QED BY <1>1, <1>2, <1>3, <1>4, <1>5, <1>6, <1>7, <1>8, <1>9, <1>10, <1>11,
   <1>12, <1>13

\* Past the wait for the infrastructure's uninstall it is gone.
LEMMA WaitUndeployInfraStep == IInv /\ WaitUndeployInfra => IInv'
<1> SUFFICES ASSUME IInv, WaitUndeployInfra PROVE IInv' OBVIOUS
<1> USE DEF IInv, TypeOK, ManagerTypes, RecordTypes, ControlTypes, Indices, Creating,
        WaitUndeployInfra, At, DestroyEnds, AwaitUninstall
<1>1. ManagerTypes' OBVIOUS
<1>2. RecordTypes' OBVIOUS
<1>3. ControlTypes'
  <2>1. (pc \in CreateSteps \cup Removing \cup {"test", "decide", "over"})' OBVIOUS
  <2>2. (k \in 0..(NumVms + 1) \cup 0..3)' OBVIOUS
  <2>3. (caller \in {"fixture", "create"})' OBVIOUS
  <2>4. (raised \in BOOLEAN)' OBVIOUS
  <2>5. (result \in {"none", "kept", "nothing", "tornDown", "raised"})' OBVIOUS
  <2> QED BY <2>1, <2>2, <2>3, <2>4, <2>5 DEF ControlTypes
<1>4. Indices' OBVIOUS
<1>5. Creating' BY DEF Final
<1>6. Recorded' BY DEF Recorded
<1>7. Undone' BY DEF Recorded, Undone, Uninstalled
<1>8. BlueprintsKnown' BY DEF BlueprintsKnown, BlueprintOrder
<1>9. Final' BY DEF Final, CleanReturn
<1>10. Quiet' BY DEF Recorded, Quiet, Execs
<1>11. ResourcesAreTracked' BY DEF Undone, BlueprintsKnown, ResourcesAreTracked
<1>12. InfrastructureOutlivesVms' BY DEF Undone, InfrastructureOutlivesVms
<1>13. CleanReturn'
     BY DEF BlueprintsKnown, Final, ResourcesAreTracked, CleanReturn
<1> QED BY <1>1, <1>2, <1>3, <1>4, <1>5, <1>6, <1>7, <1>8, <1>9, <1>10, <1>11,
   <1>12, <1>13

\* The infrastructure's deployment is deleted when nothing of it is left.
LEMMA DeleteInfraStep == IInv /\ DeleteInfra => IInv'
<1> SUFFICES ASSUME IInv, DeleteInfra PROVE IInv' OBVIOUS
<1> USE DEF IInv, TypeOK, ManagerTypes, RecordTypes, ControlTypes, Indices, Creating,
        DeleteInfra, At, DestroyEnds, DeleteDeployment
<1>1. ManagerTypes' OBVIOUS
<1>2. RecordTypes' OBVIOUS
<1>3. ControlTypes'
  <2>1. (pc \in CreateSteps \cup Removing \cup {"test", "decide", "over"})' OBVIOUS
  <2>2. (k \in 0..(NumVms + 1) \cup 0..3)' OBVIOUS
  <2>3. (caller \in {"fixture", "create"})' OBVIOUS
  <2>4. (raised \in BOOLEAN)' OBVIOUS
  <2>5. (result \in {"none", "kept", "nothing", "tornDown", "raised"})' OBVIOUS
  <2> QED BY <2>1, <2>2, <2>3, <2>4, <2>5 DEF ControlTypes
<1>4. Indices' OBVIOUS
<1>5. Creating' BY DEF Final
<1>6. Recorded' BY DEF Recorded
<1>7. Undone' BY DEF Recorded, Undone, Uninstalled
<1>8. BlueprintsKnown' BY DEF BlueprintsKnown, BlueprintOrder
<1>9. Final' BY DEF Final, CleanReturn
<1>10. Quiet' BY DEF Recorded, Quiet, Execs
<1>11. ResourcesAreTracked' BY DEF Undone, BlueprintsKnown, ResourcesAreTracked
<1>12. InfrastructureOutlivesVms' BY DEF Undone, InfrastructureOutlivesVms
<1>13. CleanReturn'
     BY DEF BlueprintsKnown, Final, ResourcesAreTracked, CleanReturn
<1> QED BY <1>1, <1>2, <1>3, <1>4, <1>5, <1>6, <1>7, <1>8, <1>9, <1>10, <1>11,
   <1>12, <1>13

\* The blueprints are deleted when no deployment uses them.
LEMMA DeleteBlueprintsStep == IInv /\ DeleteBlueprints => IInv'
<1> SUFFICES ASSUME IInv, DeleteBlueprints PROVE IInv' OBVIOUS
<1> USE DEF IInv, TypeOK, ManagerTypes, RecordTypes, ControlTypes, Indices, Creating,
        DeleteBlueprints, At, DestroyEnds, Maybe, Deletable, BlueprintOrder
<1>1. k \in 1..3
      BY DEF Indices
<1>2. BlueprintOrder[1] = "infrastructure" /\ BlueprintOrder[2] = "test_vm"
      OBVIOUS
<1>3. pc' \in {"deletePlugins", "deleteTenant"} => k = 3 /\ bps' = bps
      OBVIOUS
<1>4. k = 3 => bps = {}
      BY <1>2 DEF TypeOK, ManagerTypes, BlueprintsKnown
<1>5. ManagerTypes' BY <1>1, <1>2, <1>3, <1>4
<1>6. RecordTypes' BY <1>1, <1>2, <1>3, <1>4
<1>7. ControlTypes'
  <2>1. (pc \in CreateSteps \cup Removing \cup {"test", "decide", "over"})'
       BY <1>1, <1>2, <1>3, <1>4
  <2>2. (k \in 0..(NumVms + 1) \cup 0..3)' BY <1>1, <1>2, <1>3, <1>4
  <2>3. (caller \in {"fixture", "create"})' BY <1>1, <1>2, <1>3, <1>4
  <2>4. (raised \in BOOLEAN)' BY <1>1, <1>2, <1>3, <1>4
  <2>5. (result \in {"none", "kept", "nothing", "tornDown", "raised"})'
       BY <1>1, <1>2, <1>3, <1>4
  <2> QED BY <2>1, <2>2, <2>3, <2>4, <2>5 DEF ControlTypes
<1>8. Indices' BY <1>1, <1>2, <1>3, <1>4
<1>9. Creating' BY <1>1, <1>2, <1>3, <1>4 DEF Final
<1>10. Recorded' BY <1>1, <1>2, <1>3, <1>4 DEF Recorded
<1>11. Undone' BY <1>1, <1>2, <1>3, <1>4 DEF Recorded, Undone, Uninstalled
<1>12. BlueprintsKnown'
  <2>1. (deps # {} => blueprints = Blueprints)'
       BY <1>1, <1>2, <1>3, <1>4 DEF BlueprintsKnown, BlueprintOrder
  <2>2. (pc \in InfraKnown => blueprints = Blueprints)'
       BY <1>1, <1>2, <1>3, <1>4 DEF BlueprintsKnown, BlueprintOrder
  <2>3. (pc = "deleteBlueprints" => \A i \in 1..2 : i < k => BlueprintOrder[i] \notin bps)'
       BY <1>1, <1>2, <1>3, <1>4 DEF BlueprintsKnown, BlueprintOrder
  <2>4. (pc \in {"deletePlugins", "deleteTenant"} => bps = {})'
       BY <1>1, <1>2, <1>3, <1>4 DEF BlueprintsKnown, BlueprintOrder
  <2> QED BY <2>1, <2>2, <2>3, <2>4 DEF BlueprintsKnown
<1>13. Final' BY <1>1, <1>2, <1>3, <1>4 DEF Final, CleanReturn
<1>14. Quiet' BY <1>1, <1>2, <1>3, <1>4 DEF Recorded, Quiet, Execs
<1>15. ResourcesAreTracked'
     BY <1>1, <1>2, <1>3, <1>4 DEF Undone, BlueprintsKnown, ResourcesAreTracked
<1>16. InfrastructureOutlivesVms'
     BY <1>1, <1>2, <1>3, <1>4 DEF Undone, InfrastructureOutlivesVms
<1>17. CleanReturn'
     BY <1>1, <1>2, <1>3, <1>4 DEF BlueprintsKnown, Final, ResourcesAreTracked,
        CleanReturn
<1> QED BY <1>5, <1>6, <1>7, <1>8, <1>9, <1>10, <1>11, <1>12, <1>13, <1>14,
   <1>15, <1>16, <1>17

\* The tenant has no plugin that would have to be deleted first.
LEMMA DeletePluginsStep == IInv /\ DeletePlugins => IInv'
<1> SUFFICES ASSUME IInv, DeletePlugins PROVE IInv' OBVIOUS
<1> USE DEF IInv, TypeOK, ManagerTypes, RecordTypes, ControlTypes, Indices, Creating,
        DeletePlugins, At, DestroyEnds
<1>1. ManagerTypes' OBVIOUS
<1>2. RecordTypes' OBVIOUS
<1>3. ControlTypes' OBVIOUS
<1>4. Indices' OBVIOUS
<1>5. Creating' BY DEF Final
<1>6. Recorded' BY DEF Recorded
<1>7. Undone' BY DEF Recorded, Undone, Uninstalled
<1>8. BlueprintsKnown' BY DEF BlueprintsKnown, BlueprintOrder
<1>9. Final' BY DEF Final, CleanReturn
<1>10. Quiet' BY DEF Recorded, Quiet, Execs
<1>11. ResourcesAreTracked' BY DEF Undone, BlueprintsKnown, ResourcesAreTracked
<1>12. InfrastructureOutlivesVms' BY DEF Undone, InfrastructureOutlivesVms
<1>13. CleanReturn'
     BY DEF BlueprintsKnown, Final, ResourcesAreTracked, CleanReturn
<1> QED BY <1>1, <1>2, <1>3, <1>4, <1>5, <1>6, <1>7, <1>8, <1>9, <1>10, <1>11,
   <1>12, <1>13

\* The tenant is deleted when it is empty.
LEMMA DeleteTenantStep == IInv /\ DeleteTenant => IInv'
<1> SUFFICES ASSUME IInv, DeleteTenant PROVE IInv' OBVIOUS
<1> USE DEF IInv, TypeOK, ManagerTypes, RecordTypes, ControlTypes, Indices, Creating,
        DeleteTenant, DestroyEnds, Maybe
<1>1. ManagerTypes' OBVIOUS
<1>2. RecordTypes' OBVIOUS
<1>3. ControlTypes' OBVIOUS
<1>4. Indices' OBVIOUS
<1>5. Creating' BY DEF Final
<1>6. Recorded' BY DEF Recorded
<1>7. Undone' BY DEF Recorded, Undone, Uninstalled
<1>8. BlueprintsKnown' BY DEF BlueprintsKnown, BlueprintOrder
<1>9. Final' BY DEF Final, CleanReturn
<1>10. Quiet' BY DEF Recorded, Quiet, Execs
<1>11. ResourcesAreTracked' BY DEF Undone, BlueprintsKnown, ResourcesAreTracked
<1>12. InfrastructureOutlivesVms' BY DEF Undone, InfrastructureOutlivesVms
<1>13. CleanReturn'
     BY DEF BlueprintsKnown, Final, ResourcesAreTracked, CleanReturn
<1> QED BY <1>1, <1>2, <1>3, <1>4, <1>5, <1>6, <1>7, <1>8, <1>9, <1>10, <1>11,
   <1>12, <1>13

-----------------------------------------------------------------------------
(* The executions of the infrastructure manager. *)

\* An install that ends leaves its resources to its deployment.
LEMMA InstallEndsStep == IInv /\ (\E d \in Deps : InstallEnds(d)) => IInv'
<1> SUFFICES ASSUME IInv, NEW e \in Deps, InstallEnds(e) PROVE IInv' OBVIOUS
<1> USE DEF IInv, TypeOK, ManagerTypes, RecordTypes, ControlTypes, Indices, Creating,
        InstallEnds, Ends
<1>1. ManagerTypes' OBVIOUS
<1>2. RecordTypes' OBVIOUS
<1>3. ControlTypes' OBVIOUS
<1>4. Indices' OBVIOUS
<1>5. Creating' BY DEF Final
<1>6. Recorded' BY DEF Recorded
<1>7. Undone' BY DEF Recorded, Undone, Uninstalled
<1>8. BlueprintsKnown' BY DEF BlueprintsKnown, BlueprintOrder
<1>9. Final' BY DEF Final, CleanReturn
<1>10. Quiet' BY DEF Recorded, Quiet, Execs
<1>11. ResourcesAreTracked' BY DEF Undone, BlueprintsKnown, ResourcesAreTracked
<1>12. InfrastructureOutlivesVms' BY DEF Undone, InfrastructureOutlivesVms
<1>13. CleanReturn'
     BY DEF BlueprintsKnown, Final, ResourcesAreTracked, CleanReturn
<1> QED BY <1>1, <1>2, <1>3, <1>4, <1>5, <1>6, <1>7, <1>8, <1>9, <1>10, <1>11,
   <1>12, <1>13

\* An uninstall that ends may only remove resources.
LEMMA UninstallEndsStep == IInv /\ (\E d \in Deps : UninstallEnds(d)) => IInv'
<1> SUFFICES ASSUME IInv, NEW e \in Deps, UninstallEnds(e) PROVE IInv' OBVIOUS
<1> USE DEF IInv, TypeOK, ManagerTypes, RecordTypes, ControlTypes, Indices, Creating,
        UninstallEnds, Ends
<1>1. live' \subseteq live /\ deployments' = deployments
      OBVIOUS
<1>2. \A d \in live' : d < deployments'
      <2> HIDE DEF UninstallEnds, Ends
      <2> QED BY <1>1 DEF Recorded
<1>3. ManagerTypes'
  <2>1. (tenant \in BOOLEAN)' BY <1>1, <1>2
  <2>2. (bps \subseteq Blueprints)' BY <1>1, <1>2
  <2>3. (deps \subseteq Deps)' BY <1>1, <1>2
  <2>4. (live \subseteq Deps)' BY <1>1, <1>2
  <2>5. (exec \in [Deps -> [Workflows -> Statuses]])' BY <1>1, <1>2
  <2>6. (foreign \in BOOLEAN)' BY <1>1, <1>2
  <2> QED BY <2>1, <2>2, <2>3, <2>4, <2>5, <2>6 DEF ManagerTypes
<1>4. RecordTypes' BY <1>1, <1>2
<1>5. ControlTypes' BY <1>1, <1>2
<1>6. Indices' BY <1>1, <1>2
<1>7. Creating' BY <1>1, <1>2 DEF Final
<1>8. Recorded'
  <2>1. (\A d \in live : d < deployments)' BY <1>1, <1>2 DEF Recorded
  <2>2. (\A d \in Deps : exec[d]["install"] # "none" => d < deployments)'
       BY <1>1, <1>2 DEF Recorded
  <2>3. (pc = "start" => exec[k]["install"] = "none")'
       BY <1>1, <1>2 DEF Recorded
  <2> QED BY <2>1, <2>2, <2>3 DEF Recorded
<1>9. Undone' BY <1>1, <1>2 DEF Recorded, Undone, Uninstalled
<1>10. BlueprintsKnown' BY <1>1, <1>2 DEF BlueprintsKnown, BlueprintOrder
<1>11. Final' BY <1>1, <1>2 DEF Final, CleanReturn
<1>12. Quiet' BY <1>1, <1>2 DEF Recorded, Quiet, Execs
<1>13. ResourcesAreTracked'
     BY <1>1, <1>2 DEF Undone, BlueprintsKnown, ResourcesAreTracked
<1>14. InfrastructureOutlivesVms'
     BY <1>1, <1>2 DEF Undone, InfrastructureOutlivesVms
<1>15. CleanReturn'
     BY <1>1, <1>2 DEF BlueprintsKnown, Final, ResourcesAreTracked, CleanReturn
<1> QED BY <1>3, <1>4, <1>5, <1>6, <1>7, <1>8, <1>9, <1>10, <1>11, <1>12,
   <1>13, <1>14, <1>15

\* A kill that takes effect changes a status only.
LEMMA KillEndsStep == IInv /\ (\E d \in Deps : KillEnds(d)) => IInv'
<1> SUFFICES ASSUME IInv, NEW e \in Deps, KillEnds(e) PROVE IInv' OBVIOUS
<1> USE DEF IInv, TypeOK, ManagerTypes, RecordTypes, ControlTypes, Indices, Creating,
        KillEnds, Ends
<1>1. ManagerTypes' OBVIOUS
<1>2. RecordTypes' OBVIOUS
<1>3. ControlTypes' OBVIOUS
<1>4. Indices' OBVIOUS
<1>5. Creating' BY DEF Final
<1>6. Recorded' BY DEF Recorded
<1>7. Undone' BY DEF Recorded, Undone, Uninstalled
<1>8. BlueprintsKnown' BY DEF BlueprintsKnown, BlueprintOrder
<1>9. Final' BY DEF Final, CleanReturn
<1>10. Quiet' BY DEF Recorded, Quiet, Execs
<1>11. ResourcesAreTracked' BY DEF Undone, BlueprintsKnown, ResourcesAreTracked
<1>12. InfrastructureOutlivesVms' BY DEF Undone, InfrastructureOutlivesVms
<1>13. CleanReturn'
     BY DEF BlueprintsKnown, Final, ResourcesAreTracked, CleanReturn
<1> QED BY <1>1, <1>2, <1>3, <1>4, <1>5, <1>6, <1>7, <1>8, <1>9, <1>10, <1>11,
   <1>12, <1>13

-----------------------------------------------------------------------------
(* The theorems. *)

\* Before create there is nothing, and no record of anything.
LEMMA InitStep == Init => IInv
<1> SUFFICES ASSUME Init PROVE IInv OBVIOUS
<1> USE DEF Init
<1>1. TypeOK
  <2>1. ManagerTypes BY DEF ManagerTypes
  <2>2. RecordTypes
    <3>1. passed \in Nat /\ deployments \in 0..(NumVms + 1) OBVIOUS
    <3>2. killed \subseteq Deps \X Workflows /\ uninstalls \subseteq Vms OBVIOUS
    <3> QED BY <3>1, <3>2 DEF RecordTypes
  <2>3. ControlTypes
    <3>1. k \in 0..(NumVms + 1) \cup 0..3 OBVIOUS
    <3>2. pc \in CreateSteps OBVIOUS
    <3> QED BY <3>1, <3>2 DEF ControlTypes
  <2> QED BY <2>1, <2>2, <2>3 DEF TypeOK
<1>2. Indices /\ Creating /\ Recorded BY DEF Indices, Creating, Recorded
<1>3. Undone /\ BlueprintsKnown /\ Final /\ Quiet
  BY DEF Undone, BlueprintsKnown, Final, Quiet, Uninstalled
<1>4. ResourcesAreTracked /\ InfrastructureOutlivesVms /\ CleanReturn
  BY DEF ResourcesAreTracked, InfrastructureOutlivesVms, CleanReturn
<1> QED BY <1>1, <1>2, <1>3, <1>4 DEF IInv

\* The invariant reads no variable that is not listed in vars.
LEMMA StutterStep == IInv /\ UNCHANGED vars => IInv'
BY DEF IInv, TypeOK, ManagerTypes, RecordTypes, ControlTypes, Indices,
       Creating, Recorded, Undone, BlueprintsKnown, Final, Quiet, Uninstalled,
       ResourcesAreTracked, InfrastructureOutlivesVms, CleanReturn, Execs

\* The invariant of all the following theorems is inductive: every step of
\* create, of destroy and of the infrastructure manager preserves it.
THEOREM Invariance == Spec => []IInv
<1>1. IInv /\ [Next]_vars => IInv'
  <2> SUFFICES ASSUME IInv, [Next]_vars PROVE IInv' OBVIOUS
  <2> HIDE DEF vars
  <2>1. CASE CreateTenant BY <2>1, CreateTenantStep
  <2>2. CASE Prepare BY <2>2, PrepareStep
  <2>3. CASE UploadBlueprint BY <2>3, UploadBlueprintStep
  <2>4. CASE CreateDeployment BY <2>4, CreateDeploymentStep
  <2>5. CASE StartInstall BY <2>5, StartInstallStep
  <2>6. CASE WaitInstall BY <2>6, WaitInstallStep
  <2>7. CASE Boot BY <2>7, BootStep
  <2>8. CASE RunTest BY <2>8, RunTestStep
  <2>9. CASE Decide BY <2>9, DecideStep
  <2>10. CASE Cancel BY <2>10, CancelStep
  <2>11. CASE CheckCancelled BY <2>11, CheckCancelledStep
  <2>12. CASE Undeploy BY <2>12, UndeployStep
  <2>13. CASE WaitUndeploy BY <2>13, WaitUndeployStep
  <2>14. CASE DeleteVm BY <2>14, DeleteVmStep
  <2>15. CASE UndeployInfra BY <2>15, UndeployInfraStep
  <2>16. CASE WaitUndeployInfra BY <2>16, WaitUndeployInfraStep
  <2>17. CASE DeleteInfra BY <2>17, DeleteInfraStep
  <2>18. CASE DeleteBlueprints BY <2>18, DeleteBlueprintsStep
  <2>19. CASE DeleteTenant BY <2>19, DeleteTenantStep
  <2>22. CASE DeletePlugins BY <2>22, DeletePluginsStep
  <2>20. CASE InfraManager
    BY <2>20, InstallEndsStep, UninstallEndsStep, KillEndsStep DEF InfraManager
  <2>21. CASE UNCHANGED vars BY <2>21, StutterStep
  <2> QED
    BY <2>1, <2>2, <2>3, <2>4, <2>5, <2>6, <2>7, <2>8, <2>9, <2>10, <2>11,
       <2>12, <2>13, <2>14, <2>15, <2>16, <2>17, <2>18, <2>19, <2>20, <2>21, <2>22
    DEF Next, TestProcess, Create, Destroy
<1> QED BY <1>1, InitStep, PTL DEF Spec

\* The state of Hosts and of the infrastructure manager has the declared types.
THEOREM TypeCorrect == Spec => []TypeOK
<1>1. IInv => TypeOK BY DEF IInv
<1> QED BY <1>1, Invariance, PTL

\* Whatever call of create or destroy fails, with or without having taken
\* effect, cloud resources stay findable through a deployment, and deployments
\* through a blueprint and the tenant.
THEOREM NothingGetsLost == Spec => []ResourcesAreTracked
<1>1. IInv => ResourcesAreTracked BY DEF IInv
<1> QED BY <1>1, Invariance, PTL

\* destroy takes the networks down only when every VM is gone.
THEOREM VmsGoFirst == Spec => []InfrastructureOutlivesVms
<1>1. IInv => InfrastructureOutlivesVms BY DEF IInv
<1> QED BY <1>1, Invariance, PTL

\* A destroy that returns after tearing down has removed everything.
THEOREM ReturnIsClean == Spec => []CleanReturn
<1>1. IInv => CleanReturn BY DEF IInv
<1> QED BY <1>1, Invariance, PTL

-----------------------------------------------------------------------------
\* The steps that start an execution find none under way on its deployment.
LEMMA StartsAlone ==
  ASSUME IInv, [Next]_vars, NEW d \in Deps, NEW w \in Workflows,
         exec[d][w] # "started", exec'[d][w] = "started"
  PROVE  \A v \in Workflows : exec[d][v] \notin Active
<1>types. exec \in [Deps -> [Workflows -> Statuses]] /\ deployments \in Nat /\ k \in Nat
  BY DEF IInv, TypeOK, ManagerTypes, RecordTypes, ControlTypes
<1> HIDE DEF vars
<1>1. CASE StartInstall
  <2>1. pc = "start" /\ k \in Deps /\ deployments = k + 1
    BY <1>1 DEF StartInstall, IInv, Indices
  <2>2. d = k
    BY <1>1, <1>types, <2>1 DEF StartInstall, Starts
  <2>3. exec[k]["install"] = "none" /\ exec[k]["uninstall"] = "none"
    BY <2>1 DEF IInv, Recorded, Creating
  <2> QED BY <2>2, <2>3
<1>2. CASE Undeploy
  <2>1. pc = "undeploy" /\ k \in Nat \ {0}
    BY <1>2 DEF Undeploy, IInv, Indices
  <2>2. d = k /\ Addressed
    BY <1>2, <1>types, <2>1 DEF Undeploy, StartUninstall, Starts, At
  <2> QED BY <2>1, <2>2, <1>types DEF IInv, Quiet
<1>3. CASE UndeployInfra
  <2>1. d = Infra /\ Addressed
    BY <1>3, <1>types DEF UndeployInfra, StartUninstall, Starts
  <2> QED BY <1>3, <2>1 DEF UndeployInfra, IInv, Quiet
<1>4. CASE Cancel
  <2>1. PICK xs \in SUBSET (Deps \X Workflows) : CancelThese(xs)
    BY <1>4 DEF Cancel, Execs
  <2>2. exec'[d][w] \in {exec[d][w], "cancelling"}
    BY <2>1 DEF CancelThese
  <2> QED BY <2>2
<1>5. CASE InfraManager
  <2>1. PICK e \in Deps : InstallEnds(e) \/ UninstallEnds(e) \/ KillEnds(e)
    BY <1>5 DEF InfraManager
  <2>2. \E v \in Workflows, s \in EndStates : exec' = [exec EXCEPT ![e][v] = s]
    <3>1. CASE InstallEnds(e)  BY <3>1 DEF InstallEnds, Ends
    <3>2. CASE UninstallEnds(e)  BY <3>2 DEF UninstallEnds, Ends
    <3>3. CASE KillEnds(e)  BY <3>3 DEF KillEnds, Ends
    <3> QED BY <2>1, <3>1, <3>2, <3>3
  <2>3. PICK v \in Workflows, s \in EndStates : exec' = [exec EXCEPT ![e][v] = s]
    BY <2>2
  <2>4. exec'[d][w] \in {exec[d][w], s}
    BY <2>3, <1>types
  <2> QED BY <2>4
<1>6. CASE UNCHANGED exec
  BY <1>6
<1>7. StartInstall \/ Undeploy \/ UndeployInfra \/ Cancel \/ InfraManager \/ UNCHANGED exec
  BY DEF Next, TestProcess, Create, Destroy, vars, manager,
         CreateTenant, Prepare, UploadBlueprint, CreateDeployment, WaitInstall,
         Boot, RunTest, Decide, CheckCancelled, WaitUndeploy, DeleteVm,
         WaitUndeployInfra, DeleteInfra, DeleteBlueprints, DeletePlugins, DeleteTenant
<1> QED BY <1>1, <1>2, <1>3, <1>4, <1>5, <1>6, <1>7

\* No execution is started on a deployment beside another one.
THEOREM ExecutionsDoNotOverlap == Spec => OneExecutionAtATime
<1> DEFINE Alone ==
      \A d \in Deps : \A w \in Workflows :
        exec[d][w] # "started" /\ exec'[d][w] = "started" =>
          \A v \in Workflows : exec[d][v] \notin Active
<1>1. IInv /\ [Next]_vars => [Alone]_vars
  BY StartsAlone
<1> QED BY <1>1, Invariance, PTL DEF Spec, OneExecutionAtATime

-----------------------------------------------------------------------------
(* Executions of other tenants.                                             *)

\* The client has left the tenant, or destroy has cancelled outside it, only
\* when no blueprint is left, and no deployment with it.
GoneWhenAstray ==
  /\ foreign \/ (selfTenant /\ header = "default") =>
       bps = {} /\ pc \notin CreateSteps \cup {"test"}
  /\ pc \in Removing => selfTenant

\* create works in its tenant; destroy, which adds no blueprint, leaves the tenant
\* after the last blueprint's deletion.
LEMMA GoneWhenAstrayStep == IInv /\ GoneWhenAstray /\ [Next]_vars => GoneWhenAstray'
<1> SUFFICES ASSUME IInv, GoneWhenAstray, [Next]_vars PROVE GoneWhenAstray' OBVIOUS
<1> USE DEF GoneWhenAstray, At, CreateRaises, DestroyEnds
<1>t. selfTenant \in BOOLEAN /\ foreign \in BOOLEAN /\ header \in {"default", "test"}
  BY DEF IInv, TypeOK, ManagerTypes, RecordTypes
<1>1. CASE CreateTenant
  <2>1. ~foreign /\ (selfTenant => header = "test") /\ foreign' = foreign
    BY <1>1, <1>t DEF CreateTenant
  <2>2. CASE header' = "test" /\ pc' = "prepare"
    BY <2>1, <2>2
  <2>3. CASE UNCHANGED <<header, selfTenant>> /\ pc' = "decide"
    BY <2>1, <2>3
  <2> QED BY <1>1, <2>2, <2>3 DEF CreateTenant
<1>2. CASE Prepare \/ UploadBlueprint \/ CreateDeployment \/ StartInstall
           \/ WaitInstall \/ Boot \/ RunTest
  <2>1. pc \in AfterTenant /\ UNCHANGED <<foreign, header, selfTenant>>
    BY <1>2 DEF Prepare, UploadBlueprint, CreateDeployment, StartInstall,
       WaitInstall, Boot, RunTest
  <2>2. pc' \notin Removing
    BY <1>2 DEF Prepare, UploadBlueprint, CreateDeployment, StartInstall,
       WaitInstall, Boot, RunTest
  <2>3. ~foreign /\ header = "test"
    BY <2>1, <1>t DEF IInv, Creating
  <2> QED BY <2>1, <2>2, <2>3
<1>3. CASE Decide  BY <1>3, <1>t DEF Decide
<1>4. CASE Cancel
  <2>1. selfTenant /\ UNCHANGED <<bps, header, selfTenant>>
        /\ pc' \notin CreateSteps \cup {"test"}
    BY <1>4 DEF Cancel
  <2>2. foreign' \/ (selfTenant' /\ header' = "default") => bps' = {}
    <3>1. foreign' => foreign \/ header = "default"
      BY <1>4, <1>t DEF Cancel
    <3> QED BY <2>1, <3>1
  <2> QED BY <2>1, <2>2
<1>5. CASE \/ CheckCancelled \/ Undeploy \/ WaitUndeploy \/ DeleteVm \/ UndeployInfra
           \/ WaitUndeployInfra \/ DeleteInfra \/ DeleteBlueprints \/ DeletePlugins
  <2> USE <1>5 DEF CheckCancelled, Undeploy, StartUninstall, WaitUndeploy,
          AwaitUninstall, DeleteVm, DeleteDeployment, UndeployInfra,
          WaitUndeployInfra, DeleteInfra, DeleteBlueprints, DeletePlugins, Maybe
  <2>1. UNCHANGED <<foreign, header, selfTenant>> /\ pc \in Removing
    OBVIOUS
  <2>2. pc' \notin CreateSteps \cup {"test"}
    OBVIOUS
  <2>3. bps' \subseteq bps
    OBVIOUS
  <2> QED BY <2>1, <2>2, <2>3
<1>6. CASE DeleteTenant
  <2>1. bps = {} /\ bps' = bps /\ pc' \notin CreateSteps \cup Removing \cup {"test"}
    BY <1>6 DEF DeleteTenant, IInv, BlueprintsKnown
  <2> QED BY <2>1
<1>7. CASE InfraManager
  BY <1>7 DEF InfraManager, InstallEnds, UninstallEnds, KillEnds, Ends
<1>8. CASE UNCHANGED vars  BY <1>8
<1> HIDE DEF vars
<1> QED
  BY <1>1, <1>2, <1>3, <1>4, <1>5, <1>6, <1>7, <1>8 DEF Next, TestProcess, Create, Destroy

\* Whatever fails and however often destroy is called, the executions of another
\* tenant are only killed when the test has left no blueprint, deployment or
\* resource: those of its own are never passed over for them.
THEOREM OwnExecutionsFirst == Spec => []StraysOnlyWhenGone
<1>1. Init => GoneWhenAstray
  BY DEF Init, GoneWhenAstray
<1>2. IInv /\ GoneWhenAstray => StraysOnlyWhenGone
  BY DEF GoneWhenAstray, StraysOnlyWhenGone, IInv, ResourcesAreTracked
<1> QED BY <1>1, <1>2, GoneWhenAstrayStep, Invariance, PTL DEF Spec

-----------------------------------------------------------------------------
(* What has been torn down stays so.                                        *)

\* The executions of a tenant that destroy has found empty of running ones come
\* to their ends, one wait after the other.
Settled ==
  /\ \A d \in uninstalls : d < deployments
  /\ pc \in InfraKnown => Addressed
  /\ pc \in {"undeploy", "waitUndeploy"} \cup VmsGone /\ Addressed =>
       \A d \in Deps : exec[d]["install"] \notin Active
  /\ pc = "undeploy" /\ Addressed =>
       \A d \in Vms : exec[d]["uninstall"] \in Active => d \in uninstalls
  /\ pc = "waitUndeploy" /\ Addressed =>
       \A d \in Vms : exec[d]["uninstall"] \in Active => d \in uninstalls /\ k <= d
  /\ pc \in VmsGone /\ Addressed =>
       \A d \in Vms : exec[d]["uninstall"] \notin Active
  /\ pc \in {"deleteInfra", "deleteBlueprints", "deletePlugins", "deleteTenant"} =>
       exec[Infra]["uninstall"] \notin Active
  /\ result = "tornDown" => \A d \in Deps, w \in Workflows : exec[d][w] \notin Active

\* The manager only ends executions.
LEMMA EndsEnds ==
  ASSUME TypeOK, InfraManager, NEW d \in Deps, NEW w \in Workflows,
         exec'[d][w] \in Active
  PROVE  exec[d][w] \in Active
<1>1. PICK e \in Deps : InstallEnds(e) \/ UninstallEnds(e) \/ KillEnds(e)
  BY DEF InfraManager
<1>2. \E v \in Workflows, s \in EndStates : exec' = [exec EXCEPT ![e][v] = s]
  <2>1. CASE InstallEnds(e)  BY <2>1 DEF InstallEnds, Ends
  <2>2. CASE UninstallEnds(e)  BY <2>2 DEF UninstallEnds, Ends
  <2>3. CASE KillEnds(e)  BY <2>3 DEF KillEnds, Ends
  <2> QED BY <1>1, <2>1, <2>2, <2>3
<1>3. PICK v \in Workflows, s \in EndStates : exec' = [exec EXCEPT ![e][v] = s]
  BY <1>2
<1>4. exec'[d][w] \in {exec[d][w], s}
  BY <1>3 DEF TypeOK, ManagerTypes
<1> QED BY <1>4

\* Each wait of destroy leaves one execution less that may be running, and what is
\* started is awaited.
LEMMA SettledStep == IInv /\ Settled /\ [Next]_vars => Settled'
<1> SUFFICES ASSUME IInv, Settled, [Next]_vars PROVE Settled' OBVIOUS
<1> USE DEF IInv, TypeOK, ManagerTypes, RecordTypes, ControlTypes, Settled, Indices, Creating,
        At, CreateRaises, DestroyEnds
<1>1. CASE CreateTenant BY <1>1 DEF CreateTenant
<1>2. CASE Prepare BY <1>2 DEF Prepare
<1>3. CASE UploadBlueprint BY <1>3 DEF UploadBlueprint
<1>4. CASE CreateDeployment BY <1>4 DEF CreateDeployment
<1>5. CASE StartInstall BY <1>5 DEF StartInstall, Starts
<1>6. CASE WaitInstall BY <1>6 DEF WaitInstall
<1>7. CASE Boot BY <1>7 DEF Boot
<1>8. CASE RunTest BY <1>8 DEF RunTest
<1>9. CASE Decide BY <1>9 DEF Decide
<1>10. CASE Cancel
  <2>1. /\ pc' \in {"checkCancelled", "decide", "over"}
        /\ UNCHANGED <<uninstalls, deployments>>
        /\ result' # "tornDown"
    BY <1>10 DEF Cancel, Final
  <2> QED BY <2>1
<1>11. CASE CheckCancelled
  <2>1. /\ UNCHANGED <<uninstalls, deployments, exec, tenant, header>>
        /\ pc' \in {"undeploy", "decide", "over"} /\ result' # "tornDown"
        /\ pc' = "undeploy" => AllCancelled
    BY <1>11 DEF CheckCancelled, Final
  <2>2. ASSUME Addressed, AllCancelled, NEW d \in Deps, NEW w \in Workflows
        PROVE  exec[d][w] \notin Active
    <3>1. exec[d][w] # "none" => <<d, w>> \in Execs
      BY DEF Execs
    <3>2. exec[d][w] # "none" => <<d, w>> \in killed
      BY <1>11, <2>2, <3>1 DEF CheckCancelled, Quiet
    <3> QED BY <2>2, <3>2 DEF AllCancelled, Status
  <2> QED BY <2>1, <2>2
<1>12. CASE Undeploy
  <2>1. /\ UNCHANGED <<deployments, tenant, header>>
        /\ pc' \in {"undeploy", "waitUndeploy", "decide", "over"} /\ result' # "tornDown"
        /\ pc' = "waitUndeploy" => UNCHANGED <<uninstalls, exec>> /\ k' = 1
    BY <1>12 DEF Undeploy, StartUninstall, Final
  <2>2. pc' = "undeploy" => uninstalls' = uninstalls \cup {k} /\ k < deployments
    BY <1>12 DEF Undeploy, StartUninstall
  <2>3. \A d \in uninstalls' : d < deployments'
    BY <1>12 DEF Undeploy
  <2>4. pc' = "undeploy" =>
          \A d \in Deps, w \in Workflows :
            exec'[d][w] \in Active => exec[d][w] \in Active \/ (d = k /\ w = "uninstall")
    BY <1>12 DEF Undeploy, StartUninstall, Starts
  <2> QED BY <1>12, <2>1, <2>2, <2>3, <2>4 DEF Undeploy
<1>13. CASE WaitUndeploy
  <2>1. /\ UNCHANGED <<uninstalls, deployments, exec, tenant, header>>
        /\ pc' \in {"waitUndeploy", "deleteVm", "decide", "over"} /\ result' # "tornDown"
    BY <1>13 DEF WaitUndeploy, AwaitUninstall, Final
  <2>2. CASE pc' = "waitUndeploy"
    <3>1. k' = k + 1 /\ Uninstalled(k)
      BY <1>13, <2>2 DEF WaitUndeploy, AwaitUninstall
    <3> QED BY <1>13, <2>1, <2>2, <3>1 DEF WaitUndeploy, Uninstalled
  <2>3. CASE pc' = "deleteVm"
    <3>1. k \notin uninstalls
      BY <1>13, <2>3 DEF WaitUndeploy, AwaitUninstall
    <3>2. \A d \in uninstalls : d < k
      BY <1>13, <3>1 DEF WaitUndeploy, Undone
    <3> QED BY <1>13, <2>1, <2>3, <3>2 DEF WaitUndeploy
  <2> QED BY <2>1, <2>2, <2>3
<1>14. CASE DeleteVm BY <1>14 DEF DeleteVm, DeleteDeployment
<1>15. CASE UndeployInfra
  <2>1. /\ UNCHANGED <<uninstalls, deployments, tenant, header>>
        /\ pc' \in {"waitUndeployInfra", "decide", "over"} /\ result' # "tornDown"
        /\ pc' = "waitUndeployInfra" => Addressed
    BY <1>15 DEF UndeployInfra, StartUninstall, Final
  <2>2. pc' = "waitUndeployInfra" =>
          \A d \in Deps, w \in Workflows :
            exec'[d][w] \in Active => exec[d][w] \in Active \/ (d = Infra /\ w = "uninstall")
    BY <1>15 DEF UndeployInfra, StartUninstall, Starts
  <2> QED BY <1>15, <2>1, <2>2 DEF UndeployInfra
<1>16. CASE WaitUndeployInfra BY <1>16 DEF WaitUndeployInfra, AwaitUninstall, Uninstalled
<1>17. CASE DeleteInfra BY <1>17 DEF DeleteInfra, DeleteDeployment
<1>18. CASE DeleteBlueprints BY <1>18 DEF DeleteBlueprints
<1>19. CASE DeleteTenant
  <2>1. pc = "deleteTenant" /\ pc' \in {"decide", "over"}
        /\ UNCHANGED <<uninstalls, deployments, exec>>
    BY <1>19 DEF DeleteTenant
  <2>2. \A d \in Deps, w \in Workflows : exec[d][w] \notin Active
    BY <2>1
  <2> QED BY <2>1, <2>2
<1>22. CASE DeletePlugins BY <1>22 DEF DeletePlugins
<1>20. CASE InfraManager
  <2>1. UNCHANGED <<uninstalls, deployments, tenant, header, pc, k, result>>
    BY <1>20 DEF InfraManager, InstallEnds, UninstallEnds, KillEnds, Ends
  <2>2. \A d \in Deps, w \in Workflows : exec'[d][w] \in Active => exec[d][w] \in Active
    BY <1>20, EndsEnds
  <2> QED BY <2>1, <2>2
<1>21. CASE UNCHANGED vars BY <1>21
<1> HIDE DEF vars
<1> QED
  BY <1>1, <1>2, <1>3, <1>4, <1>5, <1>6, <1>7, <1>8, <1>9, <1>10, <1>11,
     <1>12, <1>13, <1>14, <1>15, <1>16, <1>17, <1>18, <1>19, <1>20, <1>21, <1>22
  DEF Next, TestProcess, Create, Destroy

\* In a run of any length, no execution is left running by a destroy that has
\* torn everything down.
LEMMA SettledInvariant == Spec => []Settled
<1>1. Init => Settled
  BY DEF Init, Settled
<1> QED BY <1>1, SettledStep, Invariance, PTL DEF Spec

\* Once everything is torn down, what is left for destroy and the manager changes
\* nothing.
LEMMA FinalStep ==
  ASSUME IInv, Settled, [Next]_vars, result = "tornDown"
  PROVE  result' # "raised" /\ UNCHANGED manager
<1> USE DEF IInv, Final, CleanReturn
<1>1. pc \in {"decide", "over"} /\ ~selfTenant  OBVIOUS
<1>2. CASE Decide
  BY <1>1, <1>2 DEF Decide, DestroyEnds
<1>3. CASE InfraManager
  <2>1. PICK e \in Deps, w \in Workflows : exec[e][w] \in Active
    BY <1>3 DEF InfraManager, InstallEnds, UninstallEnds, KillEnds
  <2> QED BY <2>1 DEF Settled
<1>4. CASE UNCHANGED vars  BY <1>4
<1> HIDE DEF vars
<1> QED
  BY <1>1, <1>2, <1>3, <1>4
  DEF Next, TestProcess, Create, Destroy, CreateTenant, Prepare, UploadBlueprint,
      CreateDeployment, StartInstall, WaitInstall, Boot, RunTest, Cancel, CheckCancelled,
      Undeploy, WaitUndeploy, DeleteVm, UndeployInfra, WaitUndeployInfra, DeleteInfra,
      DeleteBlueprints, DeletePlugins, DeleteTenant

\* A fixture that destroys again after create has torn everything down changes
\* nothing and is not told of an error, and no execution still runs that could
\* bring something back, whatever failed before.
THEOREM TornDownIsFinal == Spec => CleanIsFinal
<1> DEFINE Stays == result = "tornDown" => result' # "raised" /\ UNCHANGED manager
<1>1. IInv /\ Settled /\ [Next]_vars => [Stays]_vars
  BY FinalStep
<1> QED BY <1>1, Invariance, SettledInvariant, PTL DEF Spec, CleanIsFinal
==============================================================================
