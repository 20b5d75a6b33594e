----------------------- MODULE ExampleLifecycle_proofs -----------------------
(***************************************************************************)
(* Proofs about ExampleLifecycle, for any number of tests of any kinds, any *)
(* number of looks and any faults.                                          *)
(***************************************************************************)
EXTENDS ExampleLifecycle, TLAPS

\* The numbers, and the tenants of the tests.
LEMMA Numbers ==
  /\ NumTests \in Nat \ {0} /\ MaxLooks \in Nat \ {0}
  /\ Kinds \subseteq {"install", "update", "cli", "bundle"} /\ 1 \in Tests
BY ExampleAssumption DEF Tests

LEMMA TenantType == TypeOK => Tenant \in Tenants
BY Numbers DEF TypeOK, Tenant, Tenants, Tests

-----------------------------------------------------------------------------
(* Type correctness.                                                        *)

\* What the helpers may do to the example: it goes on, fails or is uninstalled.
ExampleType ==
  /\ pc \in {"plugin", "executions", "secret", "blueprint", "profile",
             "cliBlueprint", "bundle", "bundled", "deployment", "awaitEnv", "env",
             "install", "awaitInstall", "events", "check", "body", "updated", "add",
             "awaitAdd", "added", "oldThere", "announced", "prepare", "move",
             "awaitMove", "moved", "newThere", "oldGone", "announcementGone",
             "uninstall", "awaitUninstall", "gone", "delete", "deleted", "cliRemove",
             "cliProfile", "passed", "failed"}
  /\ looks \in 0..(MaxLooks - 1) /\ installed \in BOOLEAN /\ ending \in BOOLEAN

LEMMA FailFacts ==
  ASSUME TypeOK, Fail
  PROVE  /\ pc' \in {"uninstall", "failed"} /\ looks' = 0
         /\ installed' = installed /\ ending' \in BOOLEAN
<1> USE DEF Fail, TypeOK
<1>1. CASE fixture /\ installed /\ ~ending  BY <1>1
<1>2. CASE ~(fixture /\ installed /\ ~ending)  BY <1>2
<1> QED  BY <1>1, <1>2

LEMMA LookFacts ==
  ASSUME TypeOK, NEW ok, NEW next, Look(ok, next)
  PROVE  /\ pc' \in {pc, next, "uninstall", "failed"} /\ looks' \in 0..(MaxLooks - 1)
         /\ installed' = installed /\ ending' \in BOOLEAN
<1> USE Numbers, FailFacts DEF Look, TypeOK
<1>1. CASE ok  BY <1>1
<1>2. CASE ~ok /\ looks + 1 < MaxLooks  BY <1>2
<1>3. CASE ~ok /\ ~(looks + 1 < MaxLooks)  BY <1>3
<1> QED  BY <1>1, <1>2, <1>3

LEMMA MakeFacts ==
  ASSUME TypeOK, NEW set, NEW next, Make(set, next)
  PROVE  /\ pc' \in {next, "uninstall", "failed"} /\ looks' \in 0..(MaxLooks - 1)
         /\ installed' = installed /\ ending' \in BOOLEAN
<1> USE Numbers, FailFacts DEF Make, Goto, TypeOK
<1>1. CASE Tenant \notin set \/ ~premium  BY <1>1
<1>2. CASE ~(Tenant \notin set \/ ~premium)  BY <1>2
<1> QED  BY <1>1, <1>2

LEMMA StartFacts ==
  ASSUME TypeOK, NEW w \in Workflows, NEW next, StartWorkflow(w, next)
  PROVE  /\ pc' \in {next, "uninstall", "failed"} /\ looks' \in 0..(MaxLooks - 1)
         /\ installed' = installed /\ ending' \in BOOLEAN
         /\ job' \in [Tenants -> Workflows \cup {"none"}]
<1> USE Numbers, FailFacts, TenantType DEF StartWorkflow, Goto, TypeOK
<1>1. CASE dep[Tenant] = "ready" /\ job[Tenant] = "none"  BY <1>1
<1>2. CASE ~(dep[Tenant] = "ready" /\ job[Tenant] = "none")  BY <1>2
<1> QED  BY <1>1, <1>2

LEMMA AwaitFacts ==
  ASSUME TypeOK, NEW next \in BOOLEAN, Await(next)
  PROVE  /\ faulted' \in BOOLEAN
         /\ next \/ Fail
BY DEF Await, TypeOK

LEMMA TypeInit == Init => TypeOK
<1> SUFFICES ASSUME Init PROVE TypeOK
  OBVIOUS
<1> USE Numbers DEF Init
<1>1. ExampleType
  <2>1. pc = "plugin"  OBVIOUS
  <2>2. looks \in 0..(MaxLooks - 1)  OBVIOUS
  <2> QED  BY <2>1, <2>2 DEF ExampleType
<1>2. dep \in [Tenants -> {"none", "ready", "deleting"}] /\ paths \in [Tenants -> SUBSET Paths]
  OBVIOUS
<1>3. /\ job \in [Tenants -> Workflows \cup {"none"}]
      /\ last \in [Tenants -> {"none", "ok", "failed"}]
  OBVIOUS
<1>4. /\ failures \subseteq Tenants /\ files \subseteq Paths \X Tenants
      /\ bundles \in [Tests -> {"none", "creating", "created", "failed"}]
  OBVIOUS
<1>5. fixture \in BOOLEAN /\ premium \in BOOLEAN /\ t \in Tests /\ kind \in Kinds
  BY DEF Fixtures
<1>6. {plugins, secrets, blueprints, updates} \subseteq SUBSET Tenants  OBVIOUS
<1>7. faulted \in BOOLEAN /\ raised \in BOOLEAN /\ spoiled \in BOOLEAN /\ everUp \in BOOLEAN
  OBVIOUS
<1> HIDE DEF Init
<1> QED  BY <1>1, <1>2, <1>3, <1>4, <1>5, <1>6, <1>7 DEF TypeOK, ExampleType

\* Every action keeps the types.
LEMMA TypeStep == TypeOK /\ [Next]_vars => TypeOK'
<1> SUFFICES ASSUME TypeOK, [Next]_vars PROVE TypeOK'
  OBVIOUS
<1> USE Numbers, TenantType, FailFacts, LookFacts, MakeFacts, StartFacts, AwaitFacts 
        DEF TypeOK, test, example, store, run, history, Goto, Raise, Plugged, Installed,
            Fixtures
<1>1. CASE UploadPlugin  BY <1>1 DEF UploadPlugin
<1>2. CASE WaitForAllExecutions
  <2>1. PICK ok \in BOOLEAN : Look(ok, Plugged)  BY <1>2 DEF WaitForAllExecutions
  <2>2. pc = "executions" /\ UNCHANGED <<test, store, run, history>>
    BY <1>2 DEF WaitForAllExecutions
  <2>3. /\ pc' \in {pc, Plugged, "uninstall", "failed"} /\ looks' \in 0..(MaxLooks - 1)
        /\ installed' = installed /\ ending' \in BOOLEAN
    BY <2>1, LookFacts
  <2> QED  BY <2>2, <2>3
<1>3. CASE SetSecret  BY <1>3 DEF SetSecret
<1>4. CASE UploadBlueprint  BY <1>4 DEF UploadBlueprint
<1>5. CASE CliPrepare  BY <1>5 DEF CliPrepare
<1>6. CASE CliUpload  BY <1>6 DEF CliUpload
<1>7. CASE CreateBundle  BY <1>7 DEF CreateBundle
<1>8. CASE AwaitBundle  BY <1>8 DEF AwaitBundle
<1>9. CASE CreateDeployment
  <2>1. CASE dep[Tenant] = "none"
    <3>1. /\ dep' \in [Tenants -> {"none", "ready", "deleting"}]
          /\ paths' \in [Tenants -> SUBSET Paths]
          /\ job' \in [Tenants -> Workflows \cup {"none"}]
      BY <1>9, <2>1 DEF CreateDeployment, Workflows, Paths
    <3>2. ExampleType'  BY <1>9, <2>1 DEF CreateDeployment, ExampleType
    <3> QED  BY <1>9, <3>1, <3>2 DEF CreateDeployment, ExampleType
  <2>2. CASE dep[Tenant] # "none"
    <3>1. ExampleType'  BY <1>9, <2>2 DEF CreateDeployment, ExampleType
    <3> QED  BY <1>9, <2>2, <3>1 DEF CreateDeployment, ExampleType
  <2> QED  BY <2>1, <2>2
<1>10. CASE AwaitEnv
  <2>1. ExampleType' /\ faulted' \in BOOLEAN
    <3>1. CASE Fail
      <4>1. faulted' \in BOOLEAN  BY <1>10 DEF AwaitEnv, Await
      <4> QED  BY <3>1, <4>1 DEF ExampleType
    <3>2. CASE ~Fail
      BY <1>10, <3>2 DEF AwaitEnv, Await, ExampleType
    <3> QED  BY <3>1, <3>2
  <2>2. everUp' \in BOOLEAN  BY <1>10 DEF AwaitEnv
  <2>3. UNCHANGED <<test, store, run, raised, spoiled>>  BY <1>10 DEF AwaitEnv
  <2> QED  BY <2>1, <2>2, <2>3 DEF ExampleType
<1>11. CASE WaitForEnv  BY <1>11 DEF WaitForEnv
<1>12. CASE Install
  <2>1. ExampleType' /\ job' \in [Tenants -> Workflows \cup {"none"}]
    BY <1>12 DEF Install, ExampleType, Workflows
  <2> QED  BY <1>12, <2>1 DEF Install, ExampleType
<1>13. CASE AwaitInstall
  <2>1. ExampleType' /\ faulted' \in BOOLEAN
    <3>1. CASE Fail
      <4>1. faulted' \in BOOLEAN  BY <1>13 DEF AwaitInstall, Await
      <4> QED  BY <3>1, <4>1 DEF ExampleType
    <3>2. CASE ~Fail
      BY <1>13, <3>2 DEF AwaitInstall, Await, ExampleType
    <3> QED  BY <3>1, <3>2
  <2>2. everUp' \in BOOLEAN  BY <1>13 DEF AwaitInstall
  <2>3. UNCHANGED <<test, store, run, raised, spoiled>>  BY <1>13 DEF AwaitInstall
  <2> QED  BY <2>1, <2>2, <2>3 DEF ExampleType
<1>14. CASE CheckFiles  BY <1>14 DEF CheckFiles
<1>15. CASE UploadUpdated  BY <1>15 DEF UploadUpdated
<1>16. CASE Update
  <2>1. ExampleType' /\ job' \in [Tenants -> Workflows \cup {"none"}]
    BY <1>16 DEF Update, ExampleType, Workflows
  <2> QED  BY <1>16, <2>1 DEF Update, ExampleType
<1>17. CASE AwaitUpdate
  <2>1. ExampleType' /\ faulted' \in BOOLEAN
    <3>1. CASE Fail
      <4>1. faulted' \in BOOLEAN  BY <1>17 DEF AwaitUpdate, Await
      <4> QED  BY <3>1, <4>1 DEF ExampleType
    <3>2. CASE ~Fail
      BY <1>17, <3>2 DEF AwaitUpdate, Await, ExampleType
    <3> QED  BY <3>1, <3>2
  <2>2. everUp' \in BOOLEAN  BY <1>17 DEF AwaitUpdate
  <2>3. UNCHANGED <<test, store, run, raised, spoiled>>  BY <1>17 DEF AwaitUpdate
  <2> QED  BY <2>1, <2>2, <2>3 DEF ExampleType
<1>18. CASE Prepare
  <2>1. ExampleType'  BY <1>18 DEF Prepare, ExampleType
  <2>2. files' \subseteq Paths \X Tenants
    BY <1>18 DEF Prepare, Paths
  <2>3. UNCHANGED <<test, store, dep, paths, job, last, failures, bundles, history>>
    BY <1>18 DEF Prepare
  <2> QED  BY <2>1, <2>2, <2>3 DEF ExampleType
<1>19. CASE Uninstall
  <2>1. ExampleType' /\ job' \in [Tenants -> Workflows \cup {"none"}]
    BY <1>19 DEF Uninstall, ExampleType, Workflows
  <2> QED  BY <1>19, <2>1 DEF Uninstall, ExampleType
<1>20. CASE AwaitUninstall
  <2>1. ExampleType' /\ faulted' \in BOOLEAN
    <3>1. CASE Fail
      <4>1. faulted' \in BOOLEAN  BY <1>20 DEF AwaitUninstall, Await
      <4> QED  BY <3>1, <4>1 DEF ExampleType
    <3>2. CASE ~Fail
      BY <1>20, <3>2 DEF AwaitUninstall, Await, ExampleType
    <3> QED  BY <3>1, <3>2
  <2>2. everUp' \in BOOLEAN  BY <1>20 DEF AwaitUninstall
  <2>3. UNCHANGED <<test, store, run, raised, spoiled>>  BY <1>20 DEF AwaitUninstall
  <2> QED  BY <2>1, <2>2, <2>3 DEF ExampleType
<1>21. CASE CheckDeleted  BY <1>21 DEF CheckDeleted
<1>22. CASE Delete  BY <1>22 DEF Delete
<1>23. CASE Deleted  BY <1>23 DEF Deleted
<1>24. CASE CliRemove  BY <1>24 DEF CliRemove
<1>25. CASE CliCleanup  BY <1>25 DEF CliCleanup
<1>26. CASE NextTest
  <2>1. t' \in Tests /\ kind' \in Kinds /\ fixture' \in BOOLEAN
    BY <1>26 DEF NextTest, Tests
  <2>2. pc' = "plugin"  BY <1>26 DEF NextTest
  <2>3. looks' \in 0..(MaxLooks - 1)
    <3>1. looks' = 0  BY <1>26 DEF NextTest
    <3> HIDE DEF TypeOK
    <3> QED  BY <3>1
  <2>4. ExampleType'  BY <1>26, <2>2, <2>3 DEF NextTest, ExampleType
  <2>5. spoiled' \in BOOLEAN /\ raised' \in BOOLEAN /\ everUp' \in BOOLEAN
    BY <1>26 DEF NextTest
  <2>6. UNCHANGED <<premium, store, run, faulted>>  BY <1>26 DEF NextTest
  <2> QED  BY <2>1, <2>4, <2>5, <2>6 DEF ExampleType
<1>27. ASSUME NEW n \in Tenants, WorkflowEnds(n) PROVE TypeOK'
  <2>1. Owned(n) \subseteq Paths \X Tenants  BY DEF Owned
  <2>2. Outcome(n) \subseteq Paths \X Tenants
    BY <2>1 DEF Outcome, Paths
  <2>3. Moved(n) \subseteq Paths  BY DEF Moved, Paths
  <2>4. job' \in [Tenants -> Workflows \cup {"none"}]  BY <1>27 DEF WorkflowEnds
  <2>5. last' \in [Tenants -> {"none", "ok", "failed"}]  BY <1>27 DEF WorkflowEnds
  <2>6. paths' \in [Tenants -> SUBSET Paths]  BY <1>27, <2>3 DEF WorkflowEnds
  <2>7. files' \subseteq Paths \X Tenants  BY <1>27, <2>2 DEF WorkflowEnds
  <2>8. faulted' \in BOOLEAN  BY <1>27 DEF WorkflowEnds
  <2>9. UNCHANGED <<test, example, store, dep, bundles, raised, spoiled, everUp>>
    BY <1>27 DEF WorkflowEnds
  <2>10. failures' \subseteq Tenants  BY <1>27 DEF WorkflowEnds
  <2> QED  BY <2>4, <2>5, <2>6, <2>7, <2>8, <2>9, <2>10
<1>28. ASSUME NEW n \in Tenants, DeletionEnds(n) PROVE TypeOK'
  BY <1>28 DEF DeletionEnds
<1>29. CASE CheckEvents
  <2>1. /\ pc' \in {"check", "uninstall", "failed"} /\ looks' \in 0..(MaxLooks - 1)
        /\ installed' = installed /\ ending' \in BOOLEAN /\ raised' \in BOOLEAN
    <3>1. CASE Goto("check") /\ UNCHANGED raised  BY <3>1
    <3>2. CASE Raise  BY <3>2
    <3> QED  BY <1>29, <3>1, <3>2 DEF CheckEvents
  <2>2. UNCHANGED <<test, store, run, faulted, spoiled, everUp>>  BY <1>29 DEF CheckEvents
  <2> QED  BY <2>1, <2>2
<1>30. CASE RunBody
  <2>1. /\ pc' \in {"uninstall", "failed"} /\ looks' \in 0..(MaxLooks - 1)
        /\ installed' = installed /\ ending' \in BOOLEAN /\ raised' \in BOOLEAN
    <3>1. CASE Goto("uninstall") /\ UNCHANGED raised  BY <3>1
    <3>2. CASE Raise  BY <3>2
    <3> QED  BY <1>30, <3>1, <3>2 DEF RunBody
  <2>2. UNCHANGED <<test, store, run, faulted, spoiled, everUp>>  BY <1>30 DEF RunBody
  <2> QED  BY <2>1, <2>2
<1>31. CASE CheckUpdate
  <2>1. /\ pc' \in {"oldThere", "newThere", "uninstall", "failed"}
        /\ looks' \in 0..(MaxLooks - 1)
        /\ installed' = installed /\ ending' \in BOOLEAN /\ raised' \in BOOLEAN
    <3>1. CASE Raise  BY <3>1
    <3>2. CASE ~Raise  BY <1>31, <3>2 DEF CheckUpdate
    <3> QED  BY <3>1, <3>2
  <2>2. UNCHANGED <<test, store, run, faulted, spoiled, everUp>>  BY <1>31 DEF CheckUpdate
  <2> QED  BY <2>1, <2>2
<1>32. ASSUME NEW n \in Tests, BundleEnds(n) PROVE TypeOK'
  <2>1. bundles' \in [Tests -> {"none", "creating", "created", "failed"}]
    BY <1>32 DEF BundleEnds
  <2>2. faulted' \in BOOLEAN  BY <1>32 DEF BundleEnds
  <2>3. UNCHANGED <<test, example, store, dep, paths, job, last, failures, files, raised,
                    spoiled, everUp>>
    BY <1>32 DEF BundleEnds
  <2> QED  BY <2>1, <2>2, <2>3
<1>33. CASE UNCHANGED vars  BY <1>33 DEF vars
<1> QED
  BY <1>1, <1>2, <1>3, <1>4, <1>5, <1>6, <1>7, <1>8, <1>9, <1>10, <1>11, <1>12,
     <1>13, <1>14, <1>15, <1>16, <1>17, <1>18, <1>19, <1>20, <1>21, <1>22, <1>23, <1>24,
     <1>25, <1>26, <1>27, <1>28, <1>29, <1>30, <1>31, <1>32, <1>33
  DEF Next, Test, Manager

\* The variables keep their types: no check is repeated beyond its looks.
THEOREM TypeCorrect == Spec => []TypeOK
BY TypeInit, TypeStep, PTL DEF Spec

-----------------------------------------------------------------------------
(* Where a test may be.                                                     *)

Before    == {"plugin", "executions", "secret", "blueprint", "profile", "cliBlueprint",
              "bundle", "bundled", "deployment"}
Updating  == {"updated", "add", "awaitAdd", "added", "oldThere", "announced"}
Moving    == {"prepare", "move", "awaitMove", "moved", "newThere", "oldGone",
              "announcementGone"}
Starting  == {"awaitEnv", "env", "install", "awaitInstall"}
Running   == Starting \cup {"events", "check", "body"}
Undoing   == {"uninstall", "awaitUninstall", "gone", "delete", "deleted"}
CliEnd    == {"cliRemove", "cliProfile"}

\* Each kind of test has its statements; an update in the default tenant does not
\* get past its look for the announcement.
FlowInv ==
  /\ pc \in {"secret", "blueprint", "events"} => kind \in {"install", "update"}
  /\ pc \in {"profile", "cliBlueprint"} \cup CliEnd => kind \in {"cli", "bundle"}
  /\ pc \in {"bundle", "bundled"} => kind = "bundle"
  /\ kind = "bundle" => pc \in {"plugin", "executions", "profile", "bundle", "bundled",
                               "cliProfile", "passed", "failed"}
  /\ pc = "body" => kind = "install"
  /\ pc \in Updating \cup Moving => kind = "update"
  /\ pc \in {"events", "body"} \cup Updating \cup Moving => installed
  /\ pc = "check" /\ kind # "cli" => installed
  /\ pc \in Moving => premium
  /\ kind = "update" /\ pc \in Undoing \cup {"passed"} => premium
  /\ fixture => kind = "install"
  /\ ending => fixture /\ pc \in Undoing \cup {"failed"}
  /\ pc \in Before \cup Starting => ~everUp
  /\ installed =>
       /\ kind \in {"install", "update"}
       /\ pc \in {"events", "check", "body", "uninstall", "awaitUninstall", "failed"}
                  \cup Updating \cup Moving

\* From its creation to its deletion the deployment is there; from the wait for a
\* workflow to the start of the next one none is running.
DeployedInv ==
  pc \in Running \cup Updating \cup Moving \cup (Undoing \ {"deleted"}) => dep[Tenant] = "ready"

IdleInv ==
  /\ pc = "awaitAdd" => job[Tenant] \in {"add", "none"}
  /\ \/ pc \in {"env", "install", "events", "check", "body", "gone", "delete", "deleted"}
                 \cup (Updating \ {"awaitAdd"}) \cup (Moving \ {"awaitMove"})
     \/ pc = "passed" /\ kind = "install"
     => job[Tenant] = "none"

\* With tenants, those of the tests to come are as they were made.
FreshInv ==
  premium => \A n \in Tenants : t < n =>
    /\ dep[n] = "none" /\ job[n] = "none" /\ last[n] = "none" /\ paths[n] = {}
    /\ \A p \in Paths : <<p, n>> \notin files
    /\ n \notin plugins \cup secrets \cup blueprints \cup updates

\* With tenants, only an update knows of other paths than the first.
OwnPathInv ==
  premium /\ kind # "update" =>
    /\ job[t] \notin {"add", "move"} /\ paths[t] \subseteq {"test"}
    /\ \A p \in {"announcement", "new"} : <<p, t>> \notin files

\* Without, nothing is ever moved, and an announcement lies beside the first file,
\* where the check after the uninstall looks.
DefaultInv ==
  ~premium =>
    /\ job[0] # "move" /\ <<"new", 0>> \notin files
    /\ paths[0] \in {{}, {"test"}, {"test", "announcement"}}
    /\ <<"announcement", 0>> \in files =>
         <<"test", 0>> \in files /\ "announcement" \in paths[0] /\ dep[0] = "ready"
    /\ job[0] \in {"install", "add"} => dep[0] = "ready"
    /\ job[0] = "add" => <<"test", 0>> \in files
    /\ pc \in Updating => <<"test", 0>> \in files
    /\ pc = "delete" => <<"test", 0>> \notin files

\* An example that was uninstalled has left nothing.
RemovedInv ==
  /\ kind = "install" /\ pc \in {"delete", "deleted", "passed"} =>
       \A p \in Paths : <<p, Tenant>> \notin files
  /\ kind = "install" /\ pc = "passed" => dep[Tenant] = "none"

-----------------------------------------------------------------------------
(* While nothing goes wrong.                                                *)

Calm == ~faulted /\ ~spoiled

Waits == {<<"awaitEnv", "create">>, <<"awaitInstall", "install">>, <<"awaitAdd", "add">>,
          <<"awaitMove", "move">>, <<"awaitUninstall", "uninstall">>}

\* A workflow runs only while its test waits for it, and has ended well when the
\* test finds that it has ended.
CalmJobs ==
  /\ \A n \in Tenants : job[n] # "none" => n = Tenant /\ <<pc, job[n]>> \in Waits
  /\ failures = {} /\ \A n \in Tenants : last[n] # "failed"
  /\ \A n \in Tests : /\ bundles[n] # "failed"
                      /\ bundles[n] = "creating" => n = t /\ pc = "bundled"
  /\ pc \in {"awaitEnv", "awaitInstall", "awaitAdd", "awaitMove", "awaitUninstall"}
       /\ job[Tenant] = "none" => last[Tenant] = "ok"

\* The deployment is there from its creation to its deletion.
CalmDeployment ==
  /\ pc \in Before \cup CliEnd \cup {"passed"} => dep[Tenant] = "none"
  /\ pc \in Running \cup Updating \cup Moving \cup (Undoing \ {"deleted"}) =>
       dep[Tenant] = "ready"
  /\ pc = "failed" /\ fixture /\ everUp => dep[Tenant] = "none" /\ files = {}

At(ps) == ps \X {Tenant}
Done(before, after) == files = At(IF job[Tenant] = "none" THEN after ELSE before)

\* The files on the host are those of the test's example, at the paths that its
\* last workflow has left them.
CalmFiles ==
  /\ pc \in Before \cup CliEnd \cup {"awaitEnv", "env", "install", "gone", "delete",
                                     "deleted", "passed"} => files = {}
  /\ pc = "awaitInstall" => Done({}, {"test"})
  /\ pc \in {"events", "check", "body", "updated", "add"} => files = At({"test"})
  /\ pc = "awaitAdd" => Done({"test"}, {"test", "announcement"})
  /\ pc \in {"added", "oldThere", "announced", "prepare"} =>
       files = At({"test", "announcement"})
  /\ pc = "move" => files = At({"announcement", "new"})
  /\ pc = "awaitMove" => Done({"announcement", "new"}, {"new"})
  /\ pc \in {"moved", "newThere", "oldGone", "announcementGone"} => files = At({"new"})
  /\ pc = "uninstall" => files = At(paths[Tenant])
  /\ pc = "awaitUninstall" => Done(paths[Tenant], {})

\* The manager knows these paths.
CalmPaths ==
  /\ pc \in Running \cup {"updated", "add"} => paths[Tenant] = {"test"}
  /\ pc = "awaitAdd" =>
       paths[Tenant] = IF job[Tenant] = "none" THEN {"test", "announcement"} ELSE {"test"}
  /\ pc \in {"added", "oldThere", "announced", "prepare", "move"} =>
       paths[Tenant] = {"test", "announcement"}
  /\ pc = "awaitMove" /\ job[Tenant] = "none" => paths[Tenant] = {"new"}
  /\ pc \in {"moved", "newThere", "oldGone", "announcementGone"} => paths[Tenant] = {"new"}

\* What a test is going to make is not there yet, and tolerated if it is.
CalmStore ==
  /\ premium =>
       /\ pc = "plugin" => t \notin plugins
       /\ pc \in {"plugin", "executions", "secret"} => t \notin secrets
       /\ pc \in {"plugin", "executions", "secret", "blueprint"} => t \notin blueprints
  /\ pc \in Before \cup Running \cup {"updated"} => Tenant \notin updates
  /\ ~premium /\ 0 \in updates => kind = "update"

\* Only a test that cannot pass, or makes an assertion that fails, fails.
CalmEnd ==
  pc = "failed" \/ ending => raised \/ (kind = "update" /\ ~premium) \/ kind = "cli"

CalmInv ==
  Calm => CalmJobs /\ CalmDeployment /\ CalmFiles /\ CalmPaths /\ CalmStore /\ CalmEnd

-----------------------------------------------------------------------------
(* The steps preserve the general part, whatever goes wrong.                *)

\* A failure ends the example or has it uninstalled, from wherever it was.
LEMMA FailFlow ==
  ASSUME TypeOK, FlowInv, Fail, UNCHANGED test
  PROVE  FlowInv'
<1> USE DEF TypeOK, FlowInv, Before, Starting, Updating, Moving, Running, Undoing, CliEnd,
            test, Fail
<1>1. CASE fixture /\ installed /\ ~ending  BY <1>1
<1>2. CASE ~(fixture /\ installed /\ ~ending)  BY <1>2
<1> QED  BY <1>1, <1>2

\* A test goes from statement to statement of its own kind, and uninstalls in the end
\* only what it installed.
LEMMA FlowStep ==
  ASSUME TypeOK, FlowInv, [Next]_vars
  PROVE  FlowInv'
<1> USE Numbers
        DEF TypeOK, FlowInv, Before, Updating, Moving, Running, Undoing, CliEnd, test,
            example, store, run, history, Goto, Fail, Raise, Plugged, Installed,
            Fixtures, Starting
<1>1. CASE UploadPlugin  BY <1>1 DEF UploadPlugin, Make
<1>2. CASE WaitForAllExecutions  BY <1>2 DEF WaitForAllExecutions, Look
<1>3. CASE SetSecret  BY <1>3 DEF SetSecret, Make
<1>4. CASE UploadBlueprint  BY <1>4 DEF UploadBlueprint, Make
<1>5. CASE CliPrepare  BY <1>5 DEF CliPrepare
<1>6. CASE CliUpload  BY <1>6 DEF CliUpload
<1>7. CASE CreateBundle  BY <1>7 DEF CreateBundle
<1>8. CASE AwaitBundle  BY <1>8 DEF AwaitBundle, Look
<1>9. CASE CreateDeployment  BY <1>9 DEF CreateDeployment
<1>10. CASE AwaitEnv  BY <1>10 DEF AwaitEnv, Await
<1>11. CASE WaitForEnv  BY <1>11 DEF WaitForEnv
<1>12. CASE Install  BY <1>12 DEF Install, StartWorkflow
<1>13. CASE AwaitInstall
  <2>1. pc = "awaitInstall" /\ UNCHANGED <<test, store, run>>  BY <1>13 DEF AwaitInstall
  <2>2. CASE Fail  BY <2>1, <2>2
  <2>3. CASE pc' = Installed /\ installed' = (kind # "cli") /\ UNCHANGED <<looks, ending>>
    <3>1. CASE kind = "cli"  BY <2>1, <2>3, <3>1
    <3>2. CASE kind # "cli"  BY <2>1, <2>3, <3>2
    <3> QED  BY <3>1, <3>2
  <2> QED  BY <1>13, <2>2, <2>3 DEF AwaitInstall, Await
<1>14. CASE CheckFiles
  <2>1. CASE pc = "check"  BY <1>14, <2>1 DEF CheckFiles, Look
  <2>2. CASE pc = "oldThere"
    <3>1. UNCHANGED <<test, store, run, history>>  BY <1>14 DEF CheckFiles
    <3>2. \/ pc' \in {"oldThere", "announced"} /\ UNCHANGED <<installed, ending>>
          \/ Fail
      BY <1>14, <2>2 DEF CheckFiles, Look
    <3>3. CASE pc' \in {"oldThere", "announced"} /\ UNCHANGED <<installed, ending>>
      BY <2>2, <3>1, <3>3
    <3>4. CASE Fail  BY <3>1, <3>4, FailFlow
    <3> QED  BY <3>2, <3>3, <3>4
  <2>3. CASE pc = "announced"
    <3>1. CASE premium  BY <1>14, <2>3, <3>1 DEF CheckFiles, Look
    <3>2. CASE ~premium
      <4>1. Tenant = 0  BY <3>2 DEF Tenant
      <4>2. UNCHANGED <<pc, installed, ending>> \/ Fail
        BY <1>14, <2>3, <4>1 DEF CheckFiles, Look
      <4>3. UNCHANGED <<test, store, run, history>>  BY <1>14 DEF CheckFiles
      <4>4. CASE UNCHANGED <<pc, installed, ending>>  BY <2>3, <4>3, <4>4
      <4>5. CASE Fail  BY <4>3, <4>5, FailFlow
      <4> QED  BY <4>2, <4>4, <4>5
    <3> QED  BY <3>1, <3>2
  <2>4. CASE pc = "newThere"
    <3>1. UNCHANGED <<test, store, run, history>>  BY <1>14 DEF CheckFiles
    <3>2. \/ pc' \in {"newThere", "oldGone"} /\ UNCHANGED <<installed, ending>>
          \/ Fail
      BY <1>14, <2>4 DEF CheckFiles, Look
    <3>3. CASE pc' \in {"newThere", "oldGone"} /\ UNCHANGED <<installed, ending>>
      BY <2>4, <3>1, <3>3
    <3>4. CASE Fail  BY <3>1, <3>4, FailFlow
    <3> QED  BY <3>2, <3>3, <3>4
  <2> QED  BY <1>14, <2>1, <2>2, <2>3, <2>4 DEF CheckFiles
<1>15. CASE UploadUpdated
  <2>1. pc = "updated" /\ UNCHANGED test  BY <1>15 DEF UploadUpdated
  <2>2. CASE Fail  BY <2>1, <2>2, FailFlow
  <2>3. CASE pc' = "add" /\ UNCHANGED <<installed, ending>>  BY <2>1, <2>3
  <2> QED  BY <1>15, <2>2, <2>3 DEF UploadUpdated
<1>16. CASE Update  BY <1>16 DEF Update, StartWorkflow
<1>17. CASE AwaitUpdate  BY <1>17 DEF AwaitUpdate, Await
<1>18. CASE Prepare  BY <1>18 DEF Prepare, Found
<1>19. CASE Uninstall  BY <1>19 DEF Uninstall, StartWorkflow
<1>20. CASE AwaitUninstall  BY <1>20 DEF AwaitUninstall, Await
<1>21. CASE CheckDeleted  BY <1>21 DEF CheckDeleted, Look, Found
<1>22. CASE Delete  BY <1>22 DEF Delete
<1>23. CASE Deleted
  <2>1. CASE kind = "cli" /\ dep[Tenant] = "none"  BY <1>23, <2>1 DEF Deleted
  <2>4. CASE kind = "cli" /\ dep[Tenant] # "none"  BY <1>23, <2>4 DEF Deleted
  <2>2. CASE kind # "cli" /\ ending
    <3>1. pc = "deleted" /\ UNCHANGED <<test, store, run>>  BY <1>23 DEF Deleted
    <3>2. /\ pc' \in {"deleted", "failed"} /\ UNCHANGED <<installed, ending>>
      BY <1>23, <2>2, <3>1 DEF Deleted, Look
    <3> QED  BY <2>2, <3>1, <3>2
  <2>3. CASE kind # "cli" /\ ~ending  BY <1>23, <2>3 DEF Deleted, Look
  <2> QED  BY <2>1, <2>2, <2>3, <2>4
<1>24. CASE CliRemove  BY <1>24 DEF CliRemove
<1>25. CASE CliCleanup  BY <1>25 DEF CliCleanup
<1>26. CASE NextTest  BY <1>26 DEF NextTest
<1>27. ASSUME NEW n \in Tenants, WorkflowEnds(n) PROVE FlowInv'
  BY <1>27 DEF WorkflowEnds, Possible, Moved, Outcome, Owned
<1>28. ASSUME NEW n \in Tenants, DeletionEnds(n) PROVE FlowInv'
  BY <1>28 DEF DeletionEnds
<1>29. CASE CheckEvents
  <2>1. pc = "events" /\ UNCHANGED <<test, everUp>>  BY <1>29 DEF CheckEvents
  <2>2. CASE Fail  BY <2>1, <2>2, FailFlow
  <2>3. CASE pc' = "check" /\ UNCHANGED <<installed, ending>>  BY <2>1, <2>3
  <2> QED  BY <1>29, <2>2, <2>3 DEF CheckEvents, Raise
<1>30. CASE RunBody
  <2>1. pc = "body" /\ UNCHANGED test  BY <1>30 DEF RunBody
  <2>2. CASE Fail  BY <2>1, <2>2, FailFlow
  <2>3. CASE pc' = "uninstall" /\ UNCHANGED <<installed, ending, everUp>>  BY <2>1, <2>3
  <2> QED  BY <1>30, <2>2, <2>3 DEF RunBody, Raise
<1>31. CASE CheckUpdate  BY <1>31 DEF CheckUpdate, Raise
<1>32. ASSUME NEW n \in Tests, BundleEnds(n) PROVE FlowInv'
  BY <1>32 DEF BundleEnds
<1>33. CASE UNCHANGED vars  BY <1>33 DEF vars
<1> QED
  BY <1>1, <1>2, <1>3, <1>4, <1>5, <1>6, <1>7, <1>8, <1>9, <1>10, <1>11, <1>12,
     <1>13, <1>14, <1>15, <1>16, <1>17, <1>18, <1>19, <1>20, <1>21, <1>22, <1>23,
     <1>24, <1>25, <1>26, <1>27, <1>28, <1>29, <1>30, <1>31, <1>32, <1>33
  DEF Next, Test, Manager

\* No statement but the deletion takes the deployment away.
LEMMA DeployedInvStep ==
  ASSUME TypeOK, FlowInv, DeployedInv, [Next]_vars
  PROVE  DeployedInv'
<1> USE Numbers, TenantType
        DEF TypeOK, FlowInv, DeployedInv, Before, Updating, Moving, Running, Undoing,
            CliEnd, test, example, store, run, history, Goto, Fail, Raise, Plugged,
            Installed, Fixtures, Starting, Tenant, Paths, Tests, Tenants
<1>1. CASE UploadPlugin  BY <1>1 DEF UploadPlugin, Make
<1>2. CASE WaitForAllExecutions  BY <1>2 DEF WaitForAllExecutions, Look
<1>3. CASE SetSecret  BY <1>3 DEF SetSecret, Make
<1>4. CASE UploadBlueprint  BY <1>4 DEF UploadBlueprint, Make
<1>5. CASE CliPrepare  BY <1>5 DEF CliPrepare
<1>6. CASE CliUpload  BY <1>6 DEF CliUpload
<1>7. CASE CreateBundle  BY <1>7 DEF CreateBundle
<1>8. CASE AwaitBundle  BY <1>8 DEF AwaitBundle, Look
<1>9. CASE CreateDeployment  BY <1>9 DEF CreateDeployment
<1>10. CASE AwaitEnv  BY <1>10 DEF AwaitEnv, Await
<1>11. CASE WaitForEnv  BY <1>11 DEF WaitForEnv
<1>12. CASE Install  BY <1>12 DEF Install, StartWorkflow
<1>13. CASE AwaitInstall  BY <1>13 DEF AwaitInstall, Await
<1>14. CASE CheckFiles  BY <1>14 DEF CheckFiles, Look
<1>15. CASE UploadUpdated  BY <1>15 DEF UploadUpdated
<1>16. CASE Update  BY <1>16 DEF Update, StartWorkflow
<1>17. CASE AwaitUpdate  BY <1>17 DEF AwaitUpdate, Await
<1>18. CASE Prepare  BY <1>18 DEF Prepare, Found
<1>19. CASE Uninstall  BY <1>19 DEF Uninstall, StartWorkflow
<1>20. CASE AwaitUninstall  BY <1>20 DEF AwaitUninstall, Await
<1>21. CASE CheckDeleted  BY <1>21 DEF CheckDeleted, Look, Found
<1>22. CASE Delete  BY <1>22 DEF Delete
<1>23. CASE Deleted  BY <1>23 DEF Deleted, Look
<1>24. CASE CliRemove  BY <1>24 DEF CliRemove
<1>25. CASE CliCleanup  BY <1>25 DEF CliCleanup
<1>26. CASE NextTest  BY <1>26 DEF NextTest
<1>27. ASSUME NEW n \in Tenants, WorkflowEnds(n) PROVE DeployedInv'
  BY <1>27 DEF WorkflowEnds, Possible, Moved, Outcome, Owned
<1>28. ASSUME NEW n \in Tenants, DeletionEnds(n) PROVE DeployedInv'
  BY <1>28 DEF DeletionEnds
<1>29. CASE CheckEvents  BY <1>29 DEF CheckEvents, Raise
<1>30. CASE RunBody  BY <1>30 DEF RunBody, Raise
<1>31. CASE CheckUpdate  BY <1>31 DEF CheckUpdate, Raise
<1>32. ASSUME NEW n \in Tests, BundleEnds(n) PROVE DeployedInv'
  BY <1>32 DEF BundleEnds
<1>33. CASE UNCHANGED vars  BY <1>33 DEF vars
<1> QED
  BY <1>1, <1>2, <1>3, <1>4, <1>5, <1>6, <1>7, <1>8, <1>9, <1>10, <1>11, <1>12,
     <1>13, <1>14, <1>15, <1>16, <1>17, <1>18, <1>19, <1>20, <1>21, <1>22, <1>23,
     <1>24, <1>25, <1>26, <1>27, <1>28, <1>29, <1>30, <1>31, <1>32, <1>33
  DEF Next, Test, Manager

\* A wait that went well leaves no workflow running; a statement that goes on starts
\* none unless its wait comes next.
LEMMA IdleInvStep ==
  ASSUME TypeOK, FlowInv, IdleInv, [Next]_vars
  PROVE  IdleInv'
<1> USE Numbers, TenantType
        DEF TypeOK, FlowInv, IdleInv, Before, Updating, Moving, Running, Undoing,
            CliEnd, test, example, store, run, history, Goto, Fail, Raise, Plugged,
            Installed, Fixtures, Starting, Tenant, Paths, Tests, Tenants
<1>1. CASE UploadPlugin  BY <1>1 DEF UploadPlugin, Make
<1>2. CASE WaitForAllExecutions  BY <1>2 DEF WaitForAllExecutions, Look
<1>3. CASE SetSecret  BY <1>3 DEF SetSecret, Make
<1>4. CASE UploadBlueprint  BY <1>4 DEF UploadBlueprint, Make
<1>5. CASE CliPrepare  BY <1>5 DEF CliPrepare
<1>6. CASE CliUpload  BY <1>6 DEF CliUpload
<1>7. CASE CreateBundle  BY <1>7 DEF CreateBundle
<1>8. CASE AwaitBundle  BY <1>8 DEF AwaitBundle, Look
<1>9. CASE CreateDeployment  BY <1>9 DEF CreateDeployment
<1>10. CASE AwaitEnv  BY <1>10 DEF AwaitEnv, Await
<1>11. CASE WaitForEnv  BY <1>11 DEF WaitForEnv
<1>12. CASE Install  BY <1>12 DEF Install, StartWorkflow
<1>13. CASE AwaitInstall  BY <1>13 DEF AwaitInstall, Await
<1>14. CASE CheckFiles  BY <1>14 DEF CheckFiles, Look
<1>15. CASE UploadUpdated  BY <1>15 DEF UploadUpdated
<1>16. CASE Update  BY <1>16 DEF Update, StartWorkflow
<1>17. CASE AwaitUpdate  BY <1>17 DEF AwaitUpdate, Await
<1>18. CASE Prepare  BY <1>18 DEF Prepare, Found
<1>19. CASE Uninstall  BY <1>19 DEF Uninstall, StartWorkflow
<1>20. CASE AwaitUninstall  BY <1>20 DEF AwaitUninstall, Await
<1>21. CASE CheckDeleted  BY <1>21 DEF CheckDeleted, Look, Found
<1>22. CASE Delete  BY <1>22 DEF Delete
<1>23. CASE Deleted  BY <1>23 DEF Deleted, Look
<1>24. CASE CliRemove  BY <1>24 DEF CliRemove
<1>25. CASE CliCleanup  BY <1>25 DEF CliCleanup
<1>26. CASE NextTest  BY <1>26 DEF NextTest
<1>27. ASSUME NEW n \in Tenants, WorkflowEnds(n) PROVE IdleInv'
  BY <1>27 DEF WorkflowEnds, Possible, Moved, Outcome, Owned
<1>28. ASSUME NEW n \in Tenants, DeletionEnds(n) PROVE IdleInv'
  BY <1>28 DEF DeletionEnds
<1>29. CASE CheckEvents  BY <1>29 DEF CheckEvents, Raise
<1>30. CASE RunBody  BY <1>30 DEF RunBody, Raise
<1>31. CASE CheckUpdate  BY <1>31 DEF CheckUpdate, Raise
<1>32. ASSUME NEW n \in Tests, BundleEnds(n) PROVE IdleInv'
  BY <1>32 DEF BundleEnds
<1>33. CASE UNCHANGED vars  BY <1>33 DEF vars
<1> QED
  BY <1>1, <1>2, <1>3, <1>4, <1>5, <1>6, <1>7, <1>8, <1>9, <1>10, <1>11, <1>12,
     <1>13, <1>14, <1>15, <1>16, <1>17, <1>18, <1>19, <1>20, <1>21, <1>22, <1>23,
     <1>24, <1>25, <1>26, <1>27, <1>28, <1>29, <1>30, <1>31, <1>32, <1>33
  DEF Next, Test, Manager

\* What a test and its workflows do is done in the test's own tenant.
LEMMA FreshInvStep ==
  ASSUME TypeOK, FreshInv, [Next]_vars
  PROVE  FreshInv'
<1> USE Numbers, TenantType
        DEF TypeOK, FreshInv, Before, Updating, Moving, Running, Undoing, CliEnd, test,
            example, store, run, history, Goto, Fail, Raise, Plugged, Installed,
            Fixtures, Starting, Tenant, Paths, Tests, Tenants
<1>1. CASE UploadPlugin  BY <1>1 DEF UploadPlugin, Make
<1>2. CASE WaitForAllExecutions  BY <1>2 DEF WaitForAllExecutions, Look
<1>3. CASE SetSecret  BY <1>3 DEF SetSecret, Make
<1>4. CASE UploadBlueprint  BY <1>4 DEF UploadBlueprint, Make
<1>5. CASE CliPrepare  BY <1>5 DEF CliPrepare
<1>6. CASE CliUpload  BY <1>6 DEF CliUpload
<1>7. CASE CreateBundle  BY <1>7 DEF CreateBundle
<1>8. CASE AwaitBundle  BY <1>8 DEF AwaitBundle, Look
<1>9. CASE CreateDeployment  BY <1>9 DEF CreateDeployment
<1>10. CASE AwaitEnv  BY <1>10 DEF AwaitEnv, Await
<1>11. CASE WaitForEnv  BY <1>11 DEF WaitForEnv
<1>12. CASE Install  BY <1>12 DEF Install, StartWorkflow
<1>13. CASE AwaitInstall  BY <1>13 DEF AwaitInstall, Await
<1>14. CASE CheckFiles  BY <1>14 DEF CheckFiles, Look
<1>15. CASE UploadUpdated  BY <1>15 DEF UploadUpdated
<1>16. CASE Update  BY <1>16 DEF Update, StartWorkflow
<1>17. CASE AwaitUpdate  BY <1>17 DEF AwaitUpdate, Await
<1>18. CASE Prepare
  <2>1. CASE Found("test") # {}
    <3>1. ASSUME premium, NEW n \in Tenants, t < n, NEW p \in Paths PROVE <<p, n>> \notin files'
      <4>1. t' = t /\ premium' = premium  BY <1>18 DEF Prepare
      <4>2. <<p, n>> \notin files  BY <3>1
      <4>3. n # Tenant  BY <3>1
      <4> QED  BY <1>18, <2>1, <4>2, <4>3 DEF Prepare
    <3>2. UNCHANGED <<test, store, dep, paths, job, last, failures, bundles>>
      BY <1>18 DEF Prepare
    <3> QED  BY <3>1, <3>2
  <2>2. CASE Found("test") = {}  BY <1>18, <2>2 DEF Prepare
  <2> QED  BY <2>1, <2>2
<1>19. CASE Uninstall  BY <1>19 DEF Uninstall, StartWorkflow
<1>20. CASE AwaitUninstall  BY <1>20 DEF AwaitUninstall, Await
<1>21. CASE CheckDeleted  BY <1>21 DEF CheckDeleted, Look, Found
<1>22. CASE Delete  BY <1>22 DEF Delete
<1>23. CASE Deleted  BY <1>23 DEF Deleted, Look
<1>24. CASE CliRemove  BY <1>24 DEF CliRemove
<1>25. CASE CliCleanup  BY <1>25 DEF CliCleanup
<1>26. CASE NextTest  BY <1>26 DEF NextTest
<1>27. ASSUME NEW n \in Tenants, WorkflowEnds(n) PROVE FreshInv'
  BY <1>27 DEF WorkflowEnds, Possible, Moved, Outcome, Owned
<1>28. ASSUME NEW n \in Tenants, DeletionEnds(n) PROVE FreshInv'
  BY <1>28 DEF DeletionEnds
<1>29. CASE CheckEvents  BY <1>29 DEF CheckEvents, Raise
<1>30. CASE RunBody  BY <1>30 DEF RunBody, Raise
<1>31. CASE CheckUpdate  BY <1>31 DEF CheckUpdate, Raise
<1>32. ASSUME NEW n \in Tests, BundleEnds(n) PROVE FreshInv'
  BY <1>32 DEF BundleEnds
<1>33. CASE UNCHANGED vars  BY <1>33 DEF vars
<1> QED
  BY <1>1, <1>2, <1>3, <1>4, <1>5, <1>6, <1>7, <1>8, <1>9, <1>10, <1>11, <1>12,
     <1>13, <1>14, <1>15, <1>16, <1>17, <1>18, <1>19, <1>20, <1>21, <1>22, <1>23,
     <1>24, <1>25, <1>26, <1>27, <1>28, <1>29, <1>30, <1>31, <1>32, <1>33
  DEF Next, Test, Manager

\* Nothing but an update's workflows adds a path or an announcement.
LEMMA OwnPathInvStep ==
  ASSUME TypeOK, FlowInv, FreshInv, OwnPathInv, [Next]_vars
  PROVE  OwnPathInv'
<1> USE Numbers, TenantType
        DEF TypeOK, FlowInv, FreshInv, OwnPathInv, Before, Updating, Moving, Running,
            Undoing, CliEnd, test, example, store, run, history, Goto, Fail, Raise,
            Plugged, Installed, Fixtures, Starting, Tenant, Paths, Tests, Tenants
<1>1. CASE UploadPlugin  BY <1>1 DEF UploadPlugin, Make
<1>2. CASE WaitForAllExecutions  BY <1>2 DEF WaitForAllExecutions, Look
<1>3. CASE SetSecret  BY <1>3 DEF SetSecret, Make
<1>4. CASE UploadBlueprint  BY <1>4 DEF UploadBlueprint, Make
<1>5. CASE CliPrepare  BY <1>5 DEF CliPrepare
<1>6. CASE CliUpload  BY <1>6 DEF CliUpload
<1>7. CASE CreateBundle  BY <1>7 DEF CreateBundle
<1>8. CASE AwaitBundle  BY <1>8 DEF AwaitBundle, Look
<1>9. CASE CreateDeployment  BY <1>9 DEF CreateDeployment
<1>10. CASE AwaitEnv  BY <1>10 DEF AwaitEnv, Await
<1>11. CASE WaitForEnv  BY <1>11 DEF WaitForEnv
<1>12. CASE Install  BY <1>12 DEF Install, StartWorkflow
<1>13. CASE AwaitInstall  BY <1>13 DEF AwaitInstall, Await
<1>14. CASE CheckFiles  BY <1>14 DEF CheckFiles, Look
<1>15. CASE UploadUpdated  BY <1>15 DEF UploadUpdated
<1>16. CASE Update  BY <1>16 DEF Update, StartWorkflow
<1>17. CASE AwaitUpdate  BY <1>17 DEF AwaitUpdate, Await
<1>18. CASE Prepare  BY <1>18 DEF Prepare, Found
<1>19. CASE Uninstall  BY <1>19 DEF Uninstall, StartWorkflow
<1>20. CASE AwaitUninstall  BY <1>20 DEF AwaitUninstall, Await
<1>21. CASE CheckDeleted  BY <1>21 DEF CheckDeleted, Look, Found
<1>22. CASE Delete  BY <1>22 DEF Delete
<1>23. CASE Deleted  BY <1>23 DEF Deleted, Look
<1>24. CASE CliRemove  BY <1>24 DEF CliRemove
<1>25. CASE CliCleanup  BY <1>25 DEF CliCleanup
<1>26. CASE NextTest
  <2>1. CASE premium
    <3>1. t + 1 \in Tenants /\ t < t + 1  BY <1>26 DEF NextTest
    <3>2. /\ job[t + 1] = "none" /\ paths[t + 1] = {}
          /\ \A p \in Paths : <<p, t + 1>> \notin files
      BY <2>1, <3>1
    <3> QED  BY <1>26, <3>2 DEF NextTest
  <2>2. CASE ~premium  BY <1>26, <2>2 DEF NextTest
  <2> QED  BY <2>1, <2>2
<1>27. ASSUME NEW n \in Tenants, WorkflowEnds(n) PROVE OwnPathInv'
  BY <1>27 DEF WorkflowEnds, Possible, Moved, Outcome, Owned
<1>28. ASSUME NEW n \in Tenants, DeletionEnds(n) PROVE OwnPathInv'
  BY <1>28 DEF DeletionEnds
<1>29. CASE CheckEvents  BY <1>29 DEF CheckEvents, Raise
<1>30. CASE RunBody  BY <1>30 DEF RunBody, Raise
<1>31. CASE CheckUpdate  BY <1>31 DEF CheckUpdate, Raise
<1>32. ASSUME NEW n \in Tests, BundleEnds(n) PROVE OwnPathInv'
  BY <1>32 DEF BundleEnds
<1>33. CASE UNCHANGED vars  BY <1>33 DEF vars
<1> QED
  BY <1>1, <1>2, <1>3, <1>4, <1>5, <1>6, <1>7, <1>8, <1>9, <1>10, <1>11, <1>12,
     <1>13, <1>14, <1>15, <1>16, <1>17, <1>18, <1>19, <1>20, <1>21, <1>22, <1>23,
     <1>24, <1>25, <1>26, <1>27, <1>28, <1>29, <1>30, <1>31, <1>32, <1>33
  DEF Next, Test, Manager

\* An announcement is made beside the first file, and an uninstall that deletes that
\* file deletes both.
LEMMA DefaultInvStep ==
  ASSUME TypeOK, FlowInv, IdleInv, DefaultInv, [Next]_vars
  PROVE  DefaultInv'
<1> USE Numbers, TenantType
        DEF TypeOK, FlowInv, IdleInv, DefaultInv, Before, Updating, Moving, Running,
            Undoing, CliEnd, test, example, store, run, history, Goto, Fail, Raise,
            Plugged, Installed, Fixtures, Starting, Tenant, Paths, Tests, Tenants
<1>1. CASE UploadPlugin  BY <1>1 DEF UploadPlugin, Make
<1>2. CASE WaitForAllExecutions  BY <1>2 DEF WaitForAllExecutions, Look
<1>3. CASE SetSecret  BY <1>3 DEF SetSecret, Make
<1>4. CASE UploadBlueprint  BY <1>4 DEF UploadBlueprint, Make
<1>5. CASE CliPrepare  BY <1>5 DEF CliPrepare
<1>6. CASE CliUpload  BY <1>6 DEF CliUpload
<1>7. CASE CreateBundle  BY <1>7 DEF CreateBundle
<1>8. CASE AwaitBundle  BY <1>8 DEF AwaitBundle, Look
<1>9. CASE CreateDeployment  BY <1>9 DEF CreateDeployment
<1>10. CASE AwaitEnv  BY <1>10 DEF AwaitEnv, Await
<1>11. CASE WaitForEnv  BY <1>11 DEF WaitForEnv
<1>12. CASE Install  BY <1>12 DEF Install, StartWorkflow
<1>13. CASE AwaitInstall  BY <1>13 DEF AwaitInstall, Await
<1>14. CASE CheckFiles  BY <1>14 DEF CheckFiles, Look
<1>15. CASE UploadUpdated  BY <1>15 DEF UploadUpdated
<1>16. CASE Update  BY <1>16 DEF Update, StartWorkflow
<1>17. CASE AwaitUpdate  BY <1>17 DEF AwaitUpdate, Await
<1>18. CASE Prepare  BY <1>18 DEF Prepare, Found
<1>19. CASE Uninstall  BY <1>19 DEF Uninstall, StartWorkflow
<1>20. CASE AwaitUninstall  BY <1>20 DEF AwaitUninstall, Await
<1>21. CASE CheckDeleted  BY <1>21 DEF CheckDeleted, Look, Found
<1>22. CASE Delete  BY <1>22 DEF Delete
<1>23. CASE Deleted  BY <1>23 DEF Deleted, Look
<1>24. CASE CliRemove  BY <1>24 DEF CliRemove
<1>25. CASE CliCleanup  BY <1>25 DEF CliCleanup
<1>26. CASE NextTest  BY <1>26 DEF NextTest
<1>27. ASSUME NEW n \in Tenants, WorkflowEnds(n) PROVE DefaultInv'
  <2>1. UNCHANGED <<test, example, dep>> /\ 0 \in Tenants  BY <1>27 DEF WorkflowEnds
  <2>2. CASE premium  BY <2>1, <2>2
  <2>7. CASE n # 0 /\ ~premium
    <3>1. job'[0] = job[0] /\ paths'[0] = paths[0]  BY <1>27, <2>1, <2>7 DEF WorkflowEnds
    <3>2. ASSUME NEW p \in Paths PROVE <<p, 0>> \in files' <=> <<p, 0>> \in files
      BY <1>27, <2>7 DEF WorkflowEnds, Outcome, Owned
    <3> QED  BY <2>1, <3>1, <3>2
  <2>3. CASE n = 0 /\ ~premium /\ job[0] = "add"
    BY <1>27, <2>1, <2>3 DEF WorkflowEnds, Possible, Moved, Outcome, Owned
  <2>4. CASE n = 0 /\ ~premium /\ job[0] = "uninstall"
    BY <1>27, <2>1, <2>4 DEF WorkflowEnds, Possible, Moved, Outcome, Owned
  <2>5. CASE n = 0 /\ ~premium /\ job[0] = "install"
    BY <1>27, <2>1, <2>5 DEF WorkflowEnds, Possible, Moved, Outcome, Owned
  <2>6. CASE n = 0 /\ ~premium /\ job[0] \notin {"add", "uninstall", "install"}
    BY <1>27, <2>1, <2>6 DEF WorkflowEnds, Possible, Moved, Outcome, Owned
  <2> QED  BY <2>2, <2>3, <2>4, <2>5, <2>6, <2>7
<1>28. ASSUME NEW n \in Tenants, DeletionEnds(n) PROVE DefaultInv'
  BY <1>28 DEF DeletionEnds
<1>29. CASE CheckEvents  BY <1>29 DEF CheckEvents, Raise
<1>30. CASE RunBody  BY <1>30 DEF RunBody, Raise
<1>31. CASE CheckUpdate  BY <1>31 DEF CheckUpdate, Raise
<1>32. ASSUME NEW n \in Tests, BundleEnds(n) PROVE DefaultInv'
  BY <1>32 DEF BundleEnds
<1>33. CASE UNCHANGED vars  BY <1>33 DEF vars
<1> QED
  BY <1>1, <1>2, <1>3, <1>4, <1>5, <1>6, <1>7, <1>8, <1>9, <1>10, <1>11, <1>12,
     <1>13, <1>14, <1>15, <1>16, <1>17, <1>18, <1>19, <1>20, <1>21, <1>22, <1>23,
     <1>24, <1>25, <1>26, <1>27, <1>28, <1>29, <1>30, <1>31, <1>32, <1>33
  DEF Next, Test, Manager

\* The look for the first file before the deletion finds everything that is left: in a
\* tenant there is no other file, and in the default tenant none without that one.
LEMMA RemovedInvStep ==
  ASSUME TypeOK, FlowInv, IdleInv, OwnPathInv, DefaultInv, RemovedInv, [Next]_vars
  PROVE  RemovedInv'
<1> USE Numbers, TenantType
        DEF TypeOK, FlowInv, IdleInv, OwnPathInv, DefaultInv, RemovedInv, Before,
            Updating, Moving, Running, Undoing, CliEnd, test, example, store, run,
            history, Goto, Fail, Raise, Plugged, Installed, Fixtures, Starting, Tenant,
            Paths, Tests, Tenants
<1>1. CASE UploadPlugin  BY <1>1 DEF UploadPlugin, Make
<1>2. CASE WaitForAllExecutions  BY <1>2 DEF WaitForAllExecutions, Look
<1>3. CASE SetSecret  BY <1>3 DEF SetSecret, Make
<1>4. CASE UploadBlueprint  BY <1>4 DEF UploadBlueprint, Make
<1>5. CASE CliPrepare  BY <1>5 DEF CliPrepare
<1>6. CASE CliUpload  BY <1>6 DEF CliUpload
<1>7. CASE CreateBundle  BY <1>7 DEF CreateBundle
<1>8. CASE AwaitBundle  BY <1>8 DEF AwaitBundle, Look
<1>9. CASE CreateDeployment  BY <1>9 DEF CreateDeployment
<1>10. CASE AwaitEnv  BY <1>10 DEF AwaitEnv, Await
<1>11. CASE WaitForEnv  BY <1>11 DEF WaitForEnv
<1>12. CASE Install  BY <1>12 DEF Install, StartWorkflow
<1>13. CASE AwaitInstall  BY <1>13 DEF AwaitInstall, Await
<1>14. CASE CheckFiles  BY <1>14 DEF CheckFiles, Look
<1>15. CASE UploadUpdated  BY <1>15 DEF UploadUpdated
<1>16. CASE Update  BY <1>16 DEF Update, StartWorkflow
<1>17. CASE AwaitUpdate  BY <1>17 DEF AwaitUpdate, Await
<1>18. CASE Prepare  BY <1>18 DEF Prepare, Found
<1>19. CASE Uninstall  BY <1>19 DEF Uninstall, StartWorkflow
<1>20. CASE AwaitUninstall  BY <1>20 DEF AwaitUninstall, Await
<1>21. CASE CheckDeleted
  <2>1. CASE pc = "gone" /\ premium  BY <1>21, <2>1 DEF CheckDeleted, Look, Found
  <2>2. CASE pc = "gone" /\ ~premium  BY <1>21, <2>2 DEF CheckDeleted, Look, Found
  <2>3. CASE pc # "gone"  BY <1>21, <2>3 DEF CheckDeleted, Look
  <2> QED  BY <2>1, <2>2, <2>3
<1>22. CASE Delete  BY <1>22 DEF Delete
<1>23. CASE Deleted  BY <1>23 DEF Deleted, Look
<1>24. CASE CliRemove  BY <1>24 DEF CliRemove
<1>25. CASE CliCleanup  BY <1>25 DEF CliCleanup
<1>26. CASE NextTest  BY <1>26 DEF NextTest
<1>27. ASSUME NEW n \in Tenants, WorkflowEnds(n) PROVE RemovedInv'
  BY <1>27 DEF WorkflowEnds, Possible, Moved, Outcome, Owned
<1>28. ASSUME NEW n \in Tenants, DeletionEnds(n) PROVE RemovedInv'
  BY <1>28 DEF DeletionEnds
<1>29. CASE CheckEvents  BY <1>29 DEF CheckEvents, Raise
<1>30. CASE RunBody  BY <1>30 DEF RunBody, Raise
<1>31. CASE CheckUpdate  BY <1>31 DEF CheckUpdate, Raise
<1>32. ASSUME NEW n \in Tests, BundleEnds(n) PROVE RemovedInv'
  BY <1>32 DEF BundleEnds
<1>33. CASE UNCHANGED vars  BY <1>33 DEF vars
<1> QED
  BY <1>1, <1>2, <1>3, <1>4, <1>5, <1>6, <1>7, <1>8, <1>9, <1>10, <1>11, <1>12,
     <1>13, <1>14, <1>15, <1>16, <1>17, <1>18, <1>19, <1>20, <1>21, <1>22, <1>23,
     <1>24, <1>25, <1>26, <1>27, <1>28, <1>29, <1>30, <1>31, <1>32, <1>33
  DEF Next, Test, Manager

-----------------------------------------------------------------------------
(* The steps that leave things calm preserve the calm part.                 *)

\* While nothing goes wrong the workflow that ends is the one the test waits for, and
\* it does its work.
LEMMA CalmWorkflow ==
  ASSUME TypeOK, FlowInv, Calm, CalmInv, Calm', NEW n \in Tenants, WorkflowEnds(n)
  PROVE  /\ n = Tenant /\ <<pc, job[n]>> \in Waits
         /\ job' = [job EXCEPT ![n] = "none"] /\ last' = [last EXCEPT ![n] = "ok"]
         /\ paths' = [paths EXCEPT ![n] = Moved(n)] /\ files' = Outcome(n)
         /\ UNCHANGED <<test, example, store, dep, failures, bundles, history>>
<1>1. n = Tenant /\ <<pc, job[n]>> \in Waits
  BY DEF CalmInv, CalmJobs, WorkflowEnds
<1>2. Possible(n)
  <2>1. CASE job[n] = "uninstall"
    <3>1. pc = "awaitUninstall"  BY <1>1, <2>1 DEF Waits
    <3>2. files = paths[n] \X {n}
      BY <1>1, <2>1, <3>1 DEF CalmInv, CalmFiles, Done, At
    <3> QED  BY <2>1, <3>2 DEF Possible, Owned
  <2>2. CASE job[n] = "move"
    <3>1. pc = "awaitMove"  BY <1>1, <2>2 DEF Waits
    <3>2. files = {"announcement", "new"} \X {n}
      BY <1>1, <2>2, <3>1 DEF CalmInv, CalmFiles, Done, At
    <3> QED  BY <2>2, <3>2 DEF Possible
  <2> QED  BY <2>1, <2>2 DEF Possible
<1>3. faulted = FALSE /\ faulted' = FALSE  BY DEF Calm, TypeOK, WorkflowEnds
<1> QED  BY <1>1, <1>2, <1>3 DEF WorkflowEnds, history

\* A workflow is started only where its wait comes next.
LEMMA CalmJobsStep ==
  ASSUME TypeOK, FlowInv, Calm, CalmInv, Calm', [Next]_vars
  PROVE  CalmJobs'
<1> USE Numbers, TenantType
        DEF TypeOK, FlowInv, CalmJobs, CalmDeployment, CalmInv, Calm, Before, Updating,
            Moving, Running, Undoing, CliEnd, test, example, store, run, history, Goto,
            Fail, Raise, Plugged, Installed, Fixtures, Starting, Waits, At, Done,
            Tenant, Paths, Tests, Tenants
<1>1. CASE UploadPlugin  BY <1>1 DEF UploadPlugin, Make
<1>2. CASE WaitForAllExecutions  BY <1>2 DEF WaitForAllExecutions, Look
<1>3. CASE SetSecret  BY <1>3 DEF SetSecret, Make
<1>4. CASE UploadBlueprint  BY <1>4 DEF UploadBlueprint, Make
<1>5. CASE CliPrepare  BY <1>5 DEF CliPrepare
<1>6. CASE CliUpload  BY <1>6 DEF CliUpload
<1>7. CASE CreateBundle  BY <1>7 DEF CreateBundle
<1>8. CASE AwaitBundle  BY <1>8 DEF AwaitBundle, Look
<1>9. CASE CreateDeployment  BY <1>9 DEF CreateDeployment
<1>10. CASE AwaitEnv  BY <1>10 DEF AwaitEnv, Await
<1>11. CASE WaitForEnv  BY <1>11 DEF WaitForEnv
<1>12. CASE Install  BY <1>12 DEF Install, StartWorkflow
<1>13. CASE AwaitInstall  BY <1>13 DEF AwaitInstall, Await
<1>14. CASE CheckFiles  BY <1>14 DEF CheckFiles, Look
<1>15. CASE UploadUpdated  BY <1>15 DEF UploadUpdated
<1>16. CASE Update  BY <1>16 DEF Update, StartWorkflow
<1>17. CASE AwaitUpdate  BY <1>17 DEF AwaitUpdate, Await
<1>18. CASE Prepare  BY <1>18 DEF Prepare, Found
<1>19. CASE Uninstall  BY <1>19 DEF Uninstall, StartWorkflow
<1>20. CASE AwaitUninstall  BY <1>20 DEF AwaitUninstall, Await
<1>21. CASE CheckDeleted  BY <1>21 DEF CheckDeleted, Look, Found
<1>22. CASE Delete  BY <1>22 DEF Delete
<1>23. CASE Deleted  BY <1>23 DEF Deleted, Look
<1>24. CASE CliRemove  BY <1>24 DEF CliRemove
<1>25. CASE CliCleanup  BY <1>25 DEF CliCleanup
<1>26. CASE NextTest  BY <1>26 DEF NextTest
<1>27. ASSUME NEW n \in Tenants, WorkflowEnds(n) PROVE CalmJobs'
  <2>1. /\ n = Tenant /\ <<pc, job[n]>> \in Waits /\ Tenant' = Tenant
        /\ job' = [job EXCEPT ![n] = "none"] /\ last' = [last EXCEPT ![n] = "ok"]
        /\ paths' = [paths EXCEPT ![n] = Moved(n)] /\ files' = Outcome(n)
        /\ UNCHANGED <<test, example, store, dep, failures, bundles, history>>
    BY <1>27, CalmWorkflow
  <2>3. CASE pc = "awaitEnv" /\ job[n] = "create"  BY <2>1, <2>3 DEF Outcome, Owned, Moved
  <2>4. CASE pc = "awaitInstall" /\ job[n] = "install"  BY <2>1, <2>4 DEF Outcome, Owned, Moved
  <2>5. CASE pc = "awaitAdd" /\ job[n] = "add"  BY <2>1, <2>5 DEF Outcome, Owned, Moved
  <2>6. CASE pc = "awaitMove" /\ job[n] = "move"  BY <2>1, <2>6 DEF Outcome, Owned, Moved
  <2>7. CASE pc = "awaitUninstall" /\ job[n] = "uninstall"  BY <2>1, <2>7 DEF Outcome, Owned, Moved
  <2> QED  BY <2>1, <2>3, <2>4, <2>5, <2>6, <2>7
<1>28. ASSUME NEW n \in Tenants, DeletionEnds(n) PROVE CalmJobs'
  BY <1>28 DEF DeletionEnds
<1>29. CASE CheckEvents  BY <1>29 DEF CheckEvents, Raise
<1>30. CASE RunBody  BY <1>30 DEF RunBody, Raise
<1>31. CASE CheckUpdate  BY <1>31 DEF CheckUpdate, Raise
<1>32. ASSUME NEW n \in Tests, BundleEnds(n) PROVE CalmJobs'
  BY <1>32 DEF BundleEnds
<1>33. CASE UNCHANGED vars  BY <1>33 DEF vars
<1> QED
  BY <1>1, <1>2, <1>3, <1>4, <1>5, <1>6, <1>7, <1>8, <1>9, <1>10, <1>11, <1>12,
     <1>13, <1>14, <1>15, <1>16, <1>17, <1>18, <1>19, <1>20, <1>21, <1>22, <1>23,
     <1>24, <1>25, <1>26, <1>27, <1>28, <1>29, <1>30, <1>31, <1>32, <1>33
  DEF Next, Test, Manager

\* The deployment is made and deleted where it is not there, and where it is.
LEMMA CalmDeploymentStep ==
  ASSUME TypeOK, FlowInv, FreshInv, Calm, CalmInv, Calm', [Next]_vars
  PROVE  CalmDeployment'
<1> USE Numbers, TenantType
        DEF TypeOK, FlowInv, FreshInv, CalmJobs, CalmDeployment, CalmFiles, CalmInv,
            Calm, Before, Updating, Moving, Running, Undoing, CliEnd, test, example,
            store, run, history, Goto, Fail, Raise, Plugged, Installed, Fixtures,
            Starting, Waits, At, Done, Tenant, Paths, Tests, Tenants
<1>1. CASE UploadPlugin  BY <1>1 DEF UploadPlugin, Make
<1>2. CASE WaitForAllExecutions  BY <1>2 DEF WaitForAllExecutions, Look
<1>3. CASE SetSecret  BY <1>3 DEF SetSecret, Make
<1>4. CASE UploadBlueprint  BY <1>4 DEF UploadBlueprint, Make
<1>5. CASE CliPrepare  BY <1>5 DEF CliPrepare
<1>6. CASE CliUpload  BY <1>6 DEF CliUpload
<1>7. CASE CreateBundle  BY <1>7 DEF CreateBundle
<1>8. CASE AwaitBundle  BY <1>8 DEF AwaitBundle, Look
<1>9. CASE CreateDeployment  BY <1>9 DEF CreateDeployment
<1>10. CASE AwaitEnv  BY <1>10 DEF AwaitEnv, Await
<1>11. CASE WaitForEnv  BY <1>11 DEF WaitForEnv
<1>12. CASE Install  BY <1>12 DEF Install, StartWorkflow
<1>13. CASE AwaitInstall  BY <1>13 DEF AwaitInstall, Await
<1>14. CASE CheckFiles  BY <1>14 DEF CheckFiles, Look
<1>15. CASE UploadUpdated
  <2>1. /\ pc = "updated" /\ pc' \in {"add", "uninstall", "failed"}
        /\ UNCHANGED <<test, run, history>>
    BY <1>15 DEF UploadUpdated
  <2>2. pc' = "failed" => ~fixture  BY <1>15, <2>1 DEF UploadUpdated
  <2>3. dep[Tenant] = "ready"  BY <2>1
  <2> QED  BY <2>1, <2>2, <2>3
<1>16. CASE Update  BY <1>16 DEF Update, StartWorkflow
<1>17. CASE AwaitUpdate  BY <1>17 DEF AwaitUpdate, Await
<1>18. CASE Prepare
  <2>1. files = {<<"test", Tenant>>, <<"announcement", Tenant>>}  BY <1>18 DEF Prepare
  <2>2. Found("test") = {<<"test", Tenant>>}  BY <2>1 DEF Found
  <2>3. /\ files' = {<<"announcement", Tenant>>, <<"new", Tenant>>}
        /\ pc' = "move" /\ UNCHANGED <<looks, installed, ending>>
        /\ UNCHANGED <<test, store, dep, paths, job, last, failures, bundles, history>>
    <3>1. Found("test") # {}  BY <2>2
    <3>2. /\ files' = (files \ Found("test")) \cup {<<"new", Tenant>>}
          /\ pc' = "move" /\ UNCHANGED <<looks, installed, ending>>
          /\ UNCHANGED <<test, store, dep, paths, job, last, failures, bundles, history>>
      BY <1>18, <3>1 DEF Prepare
    <3>3. ({<<"test", Tenant>>, <<"announcement", Tenant>>} \ {<<"test", Tenant>>})
             \cup {<<"new", Tenant>>}
            = {<<"announcement", Tenant>>, <<"new", Tenant>>}
      OBVIOUS
    <3> QED  BY <2>1, <2>2, <3>2, <3>3
  <2>4. dep[Tenant] = "ready" /\ dep' = dep /\ Tenant' = Tenant  BY <1>18, <2>3 DEF Prepare
  <2> HIDE DEF CalmFiles
  <2> QED  BY <2>3, <2>4
<1>19. CASE Uninstall  BY <1>19 DEF Uninstall, StartWorkflow
<1>20. CASE AwaitUninstall  BY <1>20 DEF AwaitUninstall, Await
<1>21. CASE CheckDeleted  BY <1>21 DEF CheckDeleted, Look, Found
<1>22. CASE Delete  BY <1>22 DEF Delete
<1>23. CASE Deleted  BY <1>23 DEF Deleted, Look
<1>24. CASE CliRemove  BY <1>24 DEF CliRemove
<1>25. CASE CliCleanup  BY <1>25 DEF CliCleanup
<1>26. CASE NextTest
  <2>1. pc = "passed" /\ pc' = "plugin"  BY <1>26 DEF NextTest
  <2>2. dep[Tenant'] = "none"
    <3>1. CASE premium
      <4>1. t + 1 \in Tenants /\ t < t + 1 /\ Tenant' = t + 1  BY <1>26, <3>1 DEF NextTest
      <4>2. dep[t + 1] = "none"  BY <3>1, <4>1 DEF FreshInv
      <4> QED  BY <4>1, <4>2
    <3>2. CASE ~premium  BY <1>26, <2>1, <3>2 DEF NextTest
    <3> QED  BY <3>1, <3>2
  <2>3. dep' = dep  BY <1>26 DEF NextTest
  <2> QED  BY <2>1, <2>2, <2>3
<1>27. ASSUME NEW n \in Tenants, WorkflowEnds(n) PROVE CalmDeployment'
  <2>1. <<pc, job[n]>> \in Waits /\ UNCHANGED <<test, example, dep>>  BY <1>27, CalmWorkflow
  <2>2. pc # "failed"  BY <2>1
  <2>3. Tenant' = Tenant  BY <2>1
  <2> HIDE DEF CalmFiles, CalmJobs
  <2> QED  BY <2>1, <2>2, <2>3
<1>28. ASSUME NEW n \in Tenants, DeletionEnds(n) PROVE CalmDeployment'
  BY <1>28 DEF DeletionEnds
<1>29. CASE CheckEvents
  <2>1. /\ pc = "events" /\ pc' \in {"check", "uninstall", "failed"}
        /\ UNCHANGED <<test, run, everUp>>
    BY <1>29 DEF CheckEvents, Raise
  <2>2. pc' = "failed" => ~fixture  BY <1>29, <2>1 DEF CheckEvents, Raise
  <2>3. dep[Tenant] = "ready"  BY <2>1
  <2> HIDE DEF CalmFiles, CalmJobs
  <2> QED  BY <2>1, <2>2, <2>3
<1>30. CASE RunBody
  <2>1. /\ pc = "body" /\ pc' \in {"check", "uninstall", "failed"}
        /\ UNCHANGED <<test, run, everUp>>
    BY <1>30 DEF RunBody, Raise
  <2>2. pc' = "failed" => ~fixture  BY <1>30, <2>1 DEF RunBody, Raise
  <2>3. dep[Tenant] = "ready"  BY <2>1
  <2> HIDE DEF CalmFiles, CalmJobs
  <2> QED  BY <2>1, <2>2, <2>3
<1>31. CASE CheckUpdate  BY <1>31 DEF CheckUpdate, Raise
<1>32. ASSUME NEW n \in Tests, BundleEnds(n) PROVE CalmDeployment'
  BY <1>32 DEF BundleEnds
<1>33. CASE UNCHANGED vars  BY <1>33 DEF vars
<1> QED
  BY <1>1, <1>2, <1>3, <1>4, <1>5, <1>6, <1>7, <1>8, <1>9, <1>10, <1>11, <1>12,
     <1>13, <1>14, <1>15, <1>16, <1>17, <1>18, <1>19, <1>20, <1>21, <1>22, <1>23,
     <1>24, <1>25, <1>26, <1>27, <1>28, <1>29, <1>30, <1>31, <1>32, <1>33
  DEF Next, Test, Manager

\* Each workflow leaves the files that the next statements expect.
LEMMA CalmFilesStep ==
  ASSUME TypeOK, FlowInv, Calm, CalmInv, Calm', [Next]_vars
  PROVE  CalmFiles'
<1> USE Numbers, TenantType
        DEF TypeOK, FlowInv, CalmJobs, CalmDeployment, CalmFiles, CalmPaths, CalmInv,
            Calm, Before, Updating, Moving, Running, Undoing, CliEnd, test, example,
            store, run, history, Goto, Fail, Raise, Plugged, Installed, Fixtures,
            Starting, Waits, At, Done, Tenant, Paths, Tests, Tenants
<1>1. CASE UploadPlugin  BY <1>1 DEF UploadPlugin, Make
<1>2. CASE WaitForAllExecutions  BY <1>2 DEF WaitForAllExecutions, Look
<1>3. CASE SetSecret  BY <1>3 DEF SetSecret, Make
<1>4. CASE UploadBlueprint  BY <1>4 DEF UploadBlueprint, Make
<1>5. CASE CliPrepare  BY <1>5 DEF CliPrepare
<1>6. CASE CliUpload  BY <1>6 DEF CliUpload
<1>7. CASE CreateBundle  BY <1>7 DEF CreateBundle
<1>8. CASE AwaitBundle  BY <1>8 DEF AwaitBundle, Look
<1>9. CASE CreateDeployment  BY <1>9 DEF CreateDeployment
<1>10. CASE AwaitEnv  BY <1>10 DEF AwaitEnv, Await
<1>11. CASE WaitForEnv  BY <1>11 DEF WaitForEnv
<1>12. CASE Install  BY <1>12 DEF Install, StartWorkflow
<1>13. CASE AwaitInstall  BY <1>13 DEF AwaitInstall, Await
<1>14. CASE CheckFiles  BY <1>14 DEF CheckFiles, Look
<1>15. CASE UploadUpdated
  <2>1. /\ pc = "updated" /\ pc' \in {"add", "uninstall", "failed"}
        /\ UNCHANGED <<test, run, history>>
    BY <1>15 DEF UploadUpdated
  <2>2. files = At({"test"}) /\ paths[Tenant] = {"test"}  BY <2>1
  <2>3. Tenant' = Tenant /\ files' = files /\ paths' = paths  BY <2>1
  <2> QED  BY <2>1, <2>2, <2>3
<1>16. CASE Update  BY <1>16 DEF Update, StartWorkflow
<1>17. CASE AwaitUpdate  BY <1>17 DEF AwaitUpdate, Await
<1>18. CASE Prepare
  <2>1. files = {<<"test", Tenant>>, <<"announcement", Tenant>>}  BY <1>18 DEF Prepare
  <2>2. Found("test") = {<<"test", Tenant>>}  BY <2>1 DEF Found
  <2>3. /\ files' = {<<"announcement", Tenant>>, <<"new", Tenant>>}
        /\ pc' = "move" /\ UNCHANGED <<looks, installed, ending>>
        /\ UNCHANGED <<test, store, dep, paths, job, last, failures, bundles, history>>
    <3>1. Found("test") # {}  BY <2>2
    <3>2. /\ files' = (files \ Found("test")) \cup {<<"new", Tenant>>}
          /\ pc' = "move" /\ UNCHANGED <<looks, installed, ending>>
          /\ UNCHANGED <<test, store, dep, paths, job, last, failures, bundles, history>>
      BY <1>18, <3>1 DEF Prepare
    <3>3. ({<<"test", Tenant>>, <<"announcement", Tenant>>} \ {<<"test", Tenant>>})
             \cup {<<"new", Tenant>>}
            = {<<"announcement", Tenant>>, <<"new", Tenant>>}
      OBVIOUS
    <3> QED  BY <2>1, <2>2, <3>2, <3>3
  <2> QED  BY <2>3
<1>19. CASE Uninstall  BY <1>19 DEF Uninstall, StartWorkflow
<1>20. CASE AwaitUninstall  BY <1>20 DEF AwaitUninstall, Await
<1>21. CASE CheckDeleted  BY <1>21 DEF CheckDeleted, Look, Found
<1>22. CASE Delete  BY <1>22 DEF Delete
<1>23. CASE Deleted  BY <1>23 DEF Deleted, Look
<1>24. CASE CliRemove  BY <1>24 DEF CliRemove
<1>25. CASE CliCleanup  BY <1>25 DEF CliCleanup
<1>26. CASE NextTest  BY <1>26 DEF NextTest
<1>27. ASSUME NEW n \in Tenants, WorkflowEnds(n) PROVE CalmFiles'
  <2>1. /\ n = Tenant /\ <<pc, job[n]>> \in Waits /\ Tenant' = Tenant
        /\ job' = [job EXCEPT ![n] = "none"] /\ last' = [last EXCEPT ![n] = "ok"]
        /\ paths' = [paths EXCEPT ![n] = Moved(n)] /\ files' = Outcome(n)
        /\ UNCHANGED <<test, example, store, dep, failures, bundles, history>>
    BY <1>27, CalmWorkflow
  <2>3. CASE pc = "awaitEnv" /\ job[n] = "create"  BY <2>1, <2>3 DEF Outcome, Owned, Moved
  <2>4. CASE pc = "awaitInstall" /\ job[n] = "install"  BY <2>1, <2>4 DEF Outcome, Owned, Moved
  <2>5. CASE pc = "awaitAdd" /\ job[n] = "add"  BY <2>1, <2>5 DEF Outcome, Owned, Moved
  <2>6. CASE pc = "awaitMove" /\ job[n] = "move"  BY <2>1, <2>6 DEF Outcome, Owned, Moved
  <2>7. CASE pc = "awaitUninstall" /\ job[n] = "uninstall"  BY <2>1, <2>7 DEF Outcome, Owned, Moved
  <2> QED  BY <2>1, <2>3, <2>4, <2>5, <2>6, <2>7
<1>28. ASSUME NEW n \in Tenants, DeletionEnds(n) PROVE CalmFiles'
  BY <1>28 DEF DeletionEnds
<1>29. CASE CheckEvents
  <2>1. /\ pc = "events" /\ pc' \in {"check", "uninstall", "failed"}
        /\ UNCHANGED <<test, run>>
    BY <1>29 DEF CheckEvents, Raise
  <2>2. files = At({"test"}) /\ paths[Tenant] = {"test"}  BY <2>1
  <2>3. Tenant' = Tenant /\ files' = files /\ paths' = paths  BY <2>1
  <2> QED  BY <2>1, <2>2, <2>3
<1>30. CASE RunBody
  <2>1. /\ pc = "body" /\ pc' \in {"check", "uninstall", "failed"}
        /\ UNCHANGED <<test, run>>
    BY <1>30 DEF RunBody, Raise
  <2>2. files = At({"test"}) /\ paths[Tenant] = {"test"}  BY <2>1
  <2>3. Tenant' = Tenant /\ files' = files /\ paths' = paths  BY <2>1
  <2> QED  BY <2>1, <2>2, <2>3
<1>31. CASE CheckUpdate  BY <1>31 DEF CheckUpdate, Raise
<1>32. ASSUME NEW n \in Tests, BundleEnds(n) PROVE CalmFiles'
  BY <1>32 DEF BundleEnds
<1>33. CASE UNCHANGED vars  BY <1>33 DEF vars
<1> QED
  BY <1>1, <1>2, <1>3, <1>4, <1>5, <1>6, <1>7, <1>8, <1>9, <1>10, <1>11, <1>12,
     <1>13, <1>14, <1>15, <1>16, <1>17, <1>18, <1>19, <1>20, <1>21, <1>22, <1>23,
     <1>24, <1>25, <1>26, <1>27, <1>28, <1>29, <1>30, <1>31, <1>32, <1>33
  DEF Next, Test, Manager

\* Each update leaves the manager with the paths of its blueprint.
LEMMA CalmPathsStep ==
  ASSUME TypeOK, FlowInv, Calm, CalmInv, Calm', [Next]_vars
  PROVE  CalmPaths'
<1> USE Numbers, TenantType
        DEF TypeOK, FlowInv, CalmJobs, CalmDeployment, CalmPaths, CalmInv, Calm, Before,
            Updating, Moving, Running, Undoing, CliEnd, test, example, store, run,
            history, Goto, Fail, Raise, Plugged, Installed, Fixtures, Starting, Waits,
            At, Done, Tenant, Paths, Tests, Tenants
<1>1. CASE UploadPlugin  BY <1>1 DEF UploadPlugin, Make
<1>2. CASE WaitForAllExecutions  BY <1>2 DEF WaitForAllExecutions, Look
<1>3. CASE SetSecret  BY <1>3 DEF SetSecret, Make
<1>4. CASE UploadBlueprint  BY <1>4 DEF UploadBlueprint, Make
<1>5. CASE CliPrepare  BY <1>5 DEF CliPrepare
<1>6. CASE CliUpload  BY <1>6 DEF CliUpload
<1>7. CASE CreateBundle  BY <1>7 DEF CreateBundle
<1>8. CASE AwaitBundle  BY <1>8 DEF AwaitBundle, Look
<1>9. CASE CreateDeployment  BY <1>9 DEF CreateDeployment
<1>10. CASE AwaitEnv  BY <1>10 DEF AwaitEnv, Await
<1>11. CASE WaitForEnv  BY <1>11 DEF WaitForEnv
<1>12. CASE Install  BY <1>12 DEF Install, StartWorkflow
<1>13. CASE AwaitInstall  BY <1>13 DEF AwaitInstall, Await
<1>14. CASE CheckFiles
  <2>1. UNCHANGED <<test, run>>  BY <1>14 DEF CheckFiles
  <2>2. CASE pc = "check"
    <3>1. pc' \in {"check", "body", "updated", "uninstall", "failed"}
      BY <1>14, <2>2 DEF CheckFiles, Look
    <3> QED  BY <2>1, <2>2, <3>1
  <2>3. CASE pc = "oldThere"
    <3>1. pc' \in {"oldThere", "announced", "uninstall", "failed"}
      BY <1>14, <2>3 DEF CheckFiles, Look
    <3> QED  BY <2>1, <2>3, <3>1
  <2>4. CASE pc = "announced"
    <3>1. pc' \in {"announced", "prepare", "uninstall", "failed"}
      BY <1>14, <2>4 DEF CheckFiles, Look
    <3> QED  BY <2>1, <2>4, <3>1
  <2>5. CASE pc = "newThere"
    <3>1. pc' \in {"newThere", "oldGone", "uninstall", "failed"}
      BY <1>14, <2>5 DEF CheckFiles, Look
    <3> QED  BY <2>1, <2>5, <3>1
  <2> QED  BY <1>14, <2>2, <2>3, <2>4, <2>5 DEF CheckFiles
<1>15. CASE UploadUpdated
  <2>1. /\ pc = "updated" /\ pc' \in {"add", "uninstall", "failed"}
        /\ UNCHANGED <<test, run>>
    BY <1>15 DEF UploadUpdated
  <2> QED  BY <2>1
<1>16. CASE Update
  <2>1. job[Tenant] = "none" /\ dep[Tenant] = "ready"
    <3>1. pc \in {"add", "move"}  BY <1>16 DEF Update
    <3> QED  BY <3>1
  <2>2. UNCHANGED <<premium, t, paths>>  BY <1>16 DEF Update
  <2>3. CASE pc = "add"
    <3>1. pc' = "awaitAdd" /\ job' = [job EXCEPT ![Tenant] = "add"]
      BY <1>16, <2>1, <2>3 DEF Update, StartWorkflow
    <3>2. paths[Tenant] = {"test"}  BY <2>3
    <3> QED  BY <2>2, <3>1, <3>2
  <2>4. CASE pc = "move"
    <3>1. pc' = "awaitMove" /\ job' = [job EXCEPT ![Tenant] = "move"]
      BY <1>16, <2>1, <2>4 DEF Update, StartWorkflow
    <3> QED  BY <2>2, <3>1
  <2> QED  BY <1>16, <2>3, <2>4 DEF Update
<1>17. CASE AwaitUpdate  BY <1>17 DEF AwaitUpdate, Await
<1>18. CASE Prepare
  <2>1. /\ pc = "prepare" /\ pc' \in {"move", "uninstall", "failed"}
        /\ UNCHANGED <<test, paths, job>>
    BY <1>18 DEF Prepare
  <2> QED  BY <2>1
<1>19. CASE Uninstall  BY <1>19 DEF Uninstall, StartWorkflow
<1>20. CASE AwaitUninstall  BY <1>20 DEF AwaitUninstall, Await
<1>21. CASE CheckDeleted
  <2>1. UNCHANGED <<test, run>>  BY <1>21 DEF CheckDeleted
  <2>2. CASE pc = "gone"
    <3>1. pc' \in {"gone", "delete", "uninstall", "failed"}
      BY <1>21, <2>2 DEF CheckDeleted, Look
    <3> QED  BY <2>1, <3>1
  <2>3. CASE pc = "oldGone"
    <3>1. pc' \in {"oldGone", "announcementGone", "uninstall", "failed"}
      BY <1>21, <2>3 DEF CheckDeleted, Look
    <3> QED  BY <2>1, <2>3, <3>1
  <2>4. CASE pc = "announcementGone"
    <3>1. pc' \in {"announcementGone", "uninstall", "failed"}
      BY <1>21, <2>4 DEF CheckDeleted, Look
    <3> QED  BY <2>1, <2>4, <3>1
  <2> QED  BY <1>21, <2>2, <2>3, <2>4 DEF CheckDeleted
<1>22. CASE Delete  BY <1>22 DEF Delete
<1>23. CASE Deleted  BY <1>23 DEF Deleted, Look
<1>24. CASE CliRemove  BY <1>24 DEF CliRemove
<1>25. CASE CliCleanup  BY <1>25 DEF CliCleanup
<1>26. CASE NextTest  BY <1>26 DEF NextTest
<1>27. ASSUME NEW n \in Tenants, WorkflowEnds(n) PROVE CalmPaths'
  <2>1. /\ n = Tenant /\ <<pc, job[n]>> \in Waits /\ Tenant' = Tenant
        /\ job' = [job EXCEPT ![n] = "none"] /\ last' = [last EXCEPT ![n] = "ok"]
        /\ paths' = [paths EXCEPT ![n] = Moved(n)] /\ files' = Outcome(n)
        /\ UNCHANGED <<test, example, store, dep, failures, bundles, history>>
    BY <1>27, CalmWorkflow
  <2>3. CASE pc = "awaitEnv" /\ job[n] = "create"  BY <2>1, <2>3 DEF Outcome, Owned, Moved
  <2>4. CASE pc = "awaitInstall" /\ job[n] = "install"  BY <2>1, <2>4 DEF Outcome, Owned, Moved
  <2>5. CASE pc = "awaitAdd" /\ job[n] = "add"  BY <2>1, <2>5 DEF Outcome, Owned, Moved
  <2>6. CASE pc = "awaitMove" /\ job[n] = "move"  BY <2>1, <2>6 DEF Outcome, Owned, Moved
  <2>7. CASE pc = "awaitUninstall" /\ job[n] = "uninstall"  BY <2>1, <2>7 DEF Outcome, Owned, Moved
  <2> QED  BY <2>1, <2>3, <2>4, <2>5, <2>6, <2>7
<1>28. ASSUME NEW n \in Tenants, DeletionEnds(n) PROVE CalmPaths'
  BY <1>28 DEF DeletionEnds
<1>29. CASE CheckEvents
  <2>1. /\ pc = "events" /\ pc' \in {"check", "uninstall", "failed"}
        /\ UNCHANGED <<test, run, store>>
    BY <1>29 DEF CheckEvents, Raise
  <2> QED  BY <2>1
<1>30. CASE RunBody
  <2>1. /\ pc = "body" /\ pc' \in {"check", "uninstall", "failed"}
        /\ UNCHANGED <<test, run, store>>
    BY <1>30 DEF RunBody, Raise
  <2> QED  BY <2>1
<1>31. CASE CheckUpdate  BY <1>31 DEF CheckUpdate, Raise
<1>32. ASSUME NEW n \in Tests, BundleEnds(n) PROVE CalmPaths'
  BY <1>32 DEF BundleEnds
<1>33. CASE UNCHANGED vars  BY <1>33 DEF vars
<1> QED
  BY <1>1, <1>2, <1>3, <1>4, <1>5, <1>6, <1>7, <1>8, <1>9, <1>10, <1>11, <1>12,
     <1>13, <1>14, <1>15, <1>16, <1>17, <1>18, <1>19, <1>20, <1>21, <1>22, <1>23,
     <1>24, <1>25, <1>26, <1>27, <1>28, <1>29, <1>30, <1>31, <1>32, <1>33
  DEF Next, Test, Manager

\* What is made is made once in a tenant.
LEMMA CalmStoreStep ==
  ASSUME TypeOK, FlowInv, FreshInv, Calm, CalmInv, Calm', [Next]_vars
  PROVE  CalmStore'
<1> USE Numbers, TenantType
        DEF TypeOK, FlowInv, FreshInv, CalmStore, CalmInv, Calm, Before, Updating,
            Moving, Running, Undoing, CliEnd, test, example, store, run, history, Goto,
            Fail, Raise, Plugged, Installed, Fixtures, Starting, Waits, At, Done,
            Tenant, Paths, Tests, Tenants
<1>1. CASE UploadPlugin  BY <1>1 DEF UploadPlugin, Make
<1>2. CASE WaitForAllExecutions  BY <1>2 DEF WaitForAllExecutions, Look
<1>3. CASE SetSecret  BY <1>3 DEF SetSecret, Make
<1>4. CASE UploadBlueprint  BY <1>4 DEF UploadBlueprint, Make
<1>5. CASE CliPrepare  BY <1>5 DEF CliPrepare
<1>6. CASE CliUpload
  <2>1. CASE Tenant \in blueprints  BY <1>6, <2>1 DEF CliUpload
  <2>2. CASE Tenant \notin blueprints  BY <1>6, <2>2 DEF CliUpload
  <2> QED  BY <2>1, <2>2
<1>7. CASE CreateBundle  BY <1>7 DEF CreateBundle
<1>8. CASE AwaitBundle  BY <1>8 DEF AwaitBundle, Look
<1>9. CASE CreateDeployment  BY <1>9 DEF CreateDeployment
<1>10. CASE AwaitEnv  BY <1>10 DEF AwaitEnv, Await
<1>11. CASE WaitForEnv  BY <1>11 DEF WaitForEnv
<1>12. CASE Install  BY <1>12 DEF Install, StartWorkflow
<1>13. CASE AwaitInstall  BY <1>13 DEF AwaitInstall, Await
<1>14. CASE CheckFiles  BY <1>14 DEF CheckFiles, Look
<1>15. CASE UploadUpdated  BY <1>15 DEF UploadUpdated
<1>16. CASE Update  BY <1>16 DEF Update, StartWorkflow
<1>17. CASE AwaitUpdate  BY <1>17 DEF AwaitUpdate, Await
<1>18. CASE Prepare
  <2>1. pc' \in {"move", "uninstall", "failed"} /\ UNCHANGED <<test, store>>
    BY <1>18 DEF Prepare
  <2> QED  BY <2>1
<1>19. CASE Uninstall  BY <1>19 DEF Uninstall, StartWorkflow
<1>20. CASE AwaitUninstall  BY <1>20 DEF AwaitUninstall, Await
<1>21. CASE CheckDeleted  BY <1>21 DEF CheckDeleted, Look, Found
<1>22. CASE Delete  BY <1>22 DEF Delete
<1>23. CASE Deleted  BY <1>23 DEF Deleted, Look
<1>24. CASE CliRemove  BY <1>24 DEF CliRemove
<1>25. CASE CliCleanup  BY <1>25 DEF CliCleanup
<1>26. CASE NextTest
  <2>1. pc = "passed" /\ pc' = "plugin"  BY <1>26 DEF NextTest
  <2>2. UNCHANGED <<premium, store>>  BY <1>26 DEF NextTest
  <2>3. CASE premium
    <3>1. t + 1 \in Tenants /\ t < t + 1 /\ t' = t + 1  BY <1>26 DEF NextTest
    <3>2. t' \notin plugins \cup secrets \cup blueprints \cup updates  BY <2>3, <3>1
    <3> QED  BY <2>1, <2>2, <2>3, <3>2
  <2>4. CASE ~premium
    <3>1. 0 \notin updates  BY <1>26, <2>1, <2>4
    <3> QED  BY <2>1, <2>2, <2>4, <3>1
  <2> QED  BY <2>3, <2>4
<1>27. ASSUME NEW n \in Tenants, WorkflowEnds(n) PROVE CalmStore'
  BY <1>27 DEF WorkflowEnds, Possible, Moved, Outcome, Owned
<1>28. ASSUME NEW n \in Tenants, DeletionEnds(n) PROVE CalmStore'
  BY <1>28 DEF DeletionEnds
<1>29. CASE CheckEvents
  <2>1. /\ pc = "events" /\ pc' \in {"check", "uninstall", "failed"}
        /\ UNCHANGED <<test, run, store>>
    BY <1>29 DEF CheckEvents, Raise
  <2> QED  BY <2>1
<1>30. CASE RunBody
  <2>1. /\ pc = "body" /\ pc' \in {"check", "uninstall", "failed"}
        /\ UNCHANGED <<test, run, store>>
    BY <1>30 DEF RunBody, Raise
  <2> QED  BY <2>1
<1>31. CASE CheckUpdate  BY <1>31 DEF CheckUpdate, Raise
<1>32. ASSUME NEW n \in Tests, BundleEnds(n) PROVE CalmStore'
  BY <1>32 DEF BundleEnds
<1>33. CASE UNCHANGED vars  BY <1>33 DEF vars
<1> QED
  BY <1>1, <1>2, <1>3, <1>4, <1>5, <1>6, <1>7, <1>8, <1>9, <1>10, <1>11, <1>12,
     <1>13, <1>14, <1>15, <1>16, <1>17, <1>18, <1>19, <1>20, <1>21, <1>22, <1>23,
     <1>24, <1>25, <1>26, <1>27, <1>28, <1>29, <1>30, <1>31, <1>32, <1>33
  DEF Next, Test, Manager

\* Only the wait for a bundle sees one that is being made.
LEMMA CalmBundles ==
  ASSUME CalmJobs, pc # "bundled", NEW n \in Tests
  PROVE  bundles[n] # "failed" /\ bundles[n] # "creating"
BY DEF CalmJobs

\* Each check and each request that a test makes succeeds.
LEMMA CalmEndStep ==
  ASSUME TypeOK, FlowInv, Calm, CalmInv, Calm', [Next]_vars
  PROVE  CalmEnd'
<1> USE Numbers, TenantType
        DEF TypeOK, FlowInv, CalmJobs, CalmDeployment, CalmFiles, CalmStore, CalmEnd,
            CalmInv, Calm, Before, Updating, Moving, Running, Undoing, CliEnd, test,
            example, store, run, history, Goto, Fail, Raise, Plugged, Installed,
            Fixtures, Starting, Waits, At, Done, Tenant, Paths, Tests, Tenants
<1>1. CASE UploadPlugin  BY <1>1 DEF UploadPlugin, Make
<1>2. CASE WaitForAllExecutions
  <2>1. pc = "executions" /\ UNCHANGED <<test, history>>  BY <1>2 DEF WaitForAllExecutions
  <2>2. failures = {} /\ \A n \in Tenants : job[n] = "none"  BY <2>1
  <2>3. ASSUME NEW n \in Tests PROVE bundles[n] \in {"none", "created"}
    <3>1. bundles[n] \in {"none", "creating", "created", "failed"}  OBVIOUS
    <3>2. bundles[n] # "failed" /\ bundles[n] # "creating"  BY <2>1, CalmBundles
    <3> QED  BY <3>1, <3>2
  <2>4. pc' = Plugged /\ ending' = ending
    BY <1>2, <2>2, <2>3 DEF WaitForAllExecutions, Look
  <2> QED  BY <2>1, <2>4
<1>3. CASE SetSecret  BY <1>3 DEF SetSecret, Make
<1>4. CASE UploadBlueprint  BY <1>4 DEF UploadBlueprint, Make
<1>5. CASE CliPrepare  BY <1>5 DEF CliPrepare
<1>6. CASE CliUpload  BY <1>6 DEF CliUpload
<1>7. CASE CreateBundle  BY <1>7 DEF CreateBundle
<1>8. CASE AwaitBundle  BY <1>8 DEF AwaitBundle, Look
<1>9. CASE CreateDeployment  BY <1>9 DEF CreateDeployment
<1>10. CASE AwaitEnv  BY <1>10 DEF AwaitEnv, Await
<1>11. CASE WaitForEnv  BY <1>11 DEF WaitForEnv
<1>12. CASE Install  BY <1>12 DEF Install, StartWorkflow
<1>13. CASE AwaitInstall  BY <1>13 DEF AwaitInstall, Await
<1>14. CASE CheckFiles  BY <1>14 DEF CheckFiles, Look
<1>15. CASE UploadUpdated  BY <1>15 DEF UploadUpdated
<1>16. CASE Update  BY <1>16 DEF Update, StartWorkflow
<1>17. CASE AwaitUpdate  BY <1>17 DEF AwaitUpdate, Await
<1>18. CASE Prepare
  <2>1. files = {<<"test", Tenant>>, <<"announcement", Tenant>>}  BY <1>18 DEF Prepare
  <2>2. Found("test") = {<<"test", Tenant>>}  BY <2>1 DEF Found
  <2>3. /\ files' = {<<"announcement", Tenant>>, <<"new", Tenant>>}
        /\ pc' = "move" /\ UNCHANGED <<looks, installed, ending>>
        /\ UNCHANGED <<test, store, dep, paths, job, last, failures, bundles, history>>
    <3>1. Found("test") # {}  BY <2>2
    <3>2. /\ files' = (files \ Found("test")) \cup {<<"new", Tenant>>}
          /\ pc' = "move" /\ UNCHANGED <<looks, installed, ending>>
          /\ UNCHANGED <<test, store, dep, paths, job, last, failures, bundles, history>>
      BY <1>18, <3>1 DEF Prepare
    <3>3. ({<<"test", Tenant>>, <<"announcement", Tenant>>} \ {<<"test", Tenant>>})
             \cup {<<"new", Tenant>>}
            = {<<"announcement", Tenant>>, <<"new", Tenant>>}
      OBVIOUS
    <3> QED  BY <2>1, <2>2, <3>2, <3>3
  <2> QED  BY <2>3
<1>19. CASE Uninstall  BY <1>19 DEF Uninstall, StartWorkflow
<1>20. CASE AwaitUninstall  BY <1>20 DEF AwaitUninstall, Await
<1>21. CASE CheckDeleted  BY <1>21 DEF CheckDeleted, Look, Found
<1>22. CASE Delete  BY <1>22 DEF Delete
<1>23. CASE Deleted  BY <1>23 DEF Deleted, Look
<1>24. CASE CliRemove  BY <1>24 DEF CliRemove
<1>25. CASE CliCleanup  BY <1>25 DEF CliCleanup
<1>26. CASE NextTest  BY <1>26 DEF NextTest
<1>27. ASSUME NEW n \in Tenants, WorkflowEnds(n) PROVE CalmEnd'
  BY <1>27 DEF WorkflowEnds, Possible, Moved, Outcome, Owned
<1>28. ASSUME NEW n \in Tenants, DeletionEnds(n) PROVE CalmEnd'
  BY <1>28 DEF DeletionEnds
<1>29. CASE CheckEvents  BY <1>29 DEF CheckEvents, Raise
<1>30. CASE RunBody  BY <1>30 DEF RunBody, Raise
<1>31. CASE CheckUpdate  BY <1>31 DEF CheckUpdate, Raise
<1>32. ASSUME NEW n \in Tests, BundleEnds(n) PROVE CalmEnd'
  BY <1>32 DEF BundleEnds
<1>33. CASE UNCHANGED vars  BY <1>33 DEF vars
<1> QED
  BY <1>1, <1>2, <1>3, <1>4, <1>5, <1>6, <1>7, <1>8, <1>9, <1>10, <1>11, <1>12,
     <1>13, <1>14, <1>15, <1>16, <1>17, <1>18, <1>19, <1>20, <1>21, <1>22, <1>23,
     <1>24, <1>25, <1>26, <1>27, <1>28, <1>29, <1>30, <1>31, <1>32, <1>33
  DEF Next, Test, Manager

\* A fault and an earlier failure are never forgotten: calm steps come from calm states.
LEMMA CalmBefore ==
  ASSUME TypeOK, [Next]_vars, Calm'
  PROVE  Calm
<1> USE DEF Calm, TypeOK, test, example, store, run, history, vars
<1>1. CASE UploadPlugin  BY <1>1 DEF UploadPlugin
<1>2. CASE WaitForAllExecutions  BY <1>2 DEF WaitForAllExecutions
<1>3. CASE SetSecret  BY <1>3 DEF SetSecret
<1>4. CASE UploadBlueprint  BY <1>4 DEF UploadBlueprint
<1>5. CASE CliPrepare  BY <1>5 DEF CliPrepare
<1>6. CASE CliUpload  BY <1>6 DEF CliUpload
<1>7. CASE CreateBundle  BY <1>7 DEF CreateBundle
<1>8. CASE AwaitBundle  BY <1>8 DEF AwaitBundle
<1>9. CASE CreateDeployment  BY <1>9 DEF CreateDeployment
<1>10. CASE AwaitEnv  BY <1>10 DEF AwaitEnv, Await
<1>11. CASE WaitForEnv  BY <1>11 DEF WaitForEnv
<1>12. CASE Install  BY <1>12 DEF Install
<1>13. CASE AwaitInstall  BY <1>13 DEF AwaitInstall, Await
<1>14. CASE CheckFiles  BY <1>14 DEF CheckFiles
<1>15. CASE UploadUpdated  BY <1>15 DEF UploadUpdated
<1>16. CASE Update  BY <1>16 DEF Update
<1>17. CASE AwaitUpdate  BY <1>17 DEF AwaitUpdate, Await
<1>18. CASE Prepare  BY <1>18 DEF Prepare
<1>19. CASE Uninstall  BY <1>19 DEF Uninstall
<1>20. CASE AwaitUninstall  BY <1>20 DEF AwaitUninstall, Await
<1>21. CASE CheckDeleted  BY <1>21 DEF CheckDeleted
<1>22. CASE Delete  BY <1>22 DEF Delete
<1>23. CASE Deleted  BY <1>23 DEF Deleted
<1>24. CASE CliRemove  BY <1>24 DEF CliRemove
<1>25. CASE CliCleanup  BY <1>25 DEF CliCleanup
<1>26. CASE NextTest  BY <1>26 DEF NextTest
<1>27. ASSUME NEW n \in Tenants, WorkflowEnds(n) PROVE Calm
  BY <1>27 DEF WorkflowEnds
<1>28. ASSUME NEW n \in Tenants, DeletionEnds(n) PROVE Calm
  BY <1>28 DEF DeletionEnds
<1>29. CASE CheckEvents  BY <1>29 DEF CheckEvents
<1>30. CASE RunBody  BY <1>30 DEF RunBody
<1>31. CASE CheckUpdate  BY <1>31 DEF CheckUpdate
<1>32. ASSUME NEW n \in Tests, BundleEnds(n) PROVE Calm
  BY <1>32 DEF BundleEnds
<1>33. CASE UNCHANGED vars  BY <1>33
<1> QED
  BY <1>1, <1>2, <1>3, <1>4, <1>5, <1>6, <1>7, <1>8, <1>9, <1>10, <1>11, <1>12,
     <1>13, <1>14, <1>15, <1>16, <1>17, <1>18, <1>19, <1>20, <1>21, <1>22, <1>23,
     <1>24, <1>25, <1>26, <1>27, <1>28, <1>29, <1>30, <1>31, <1>32, <1>33
  DEF Next, Test, Manager

-----------------------------------------------------------------------------
(* The invariant and what follows from it.                                  *)

\* Whatever goes wrong.
GeneralInv ==
  FlowInv /\ DeployedInv /\ IdleInv /\ FreshInv /\ OwnPathInv /\ DefaultInv /\ RemovedInv

\* Before the first statement nothing has been made.
LEMMA GeneralInit == Init => GeneralInv
<1> SUFFICES ASSUME Init PROVE GeneralInv
  OBVIOUS
<1>1. t = 1 /\ Tenant \in Tenants /\ 0 \in Tenants
  BY Numbers DEF Init, Tenant, Tenants, Tests
<1>2. pc = "plugin"
  BY DEF Init
<1>3. /\ ~installed /\ ~ending /\ ~everUp /\ files = {}
      /\ plugins = {} /\ secrets = {} /\ blueprints = {} /\ updates = {}
      /\ \A n \in Tenants : dep[n] = "none" /\ job[n] = "none" /\ last[n] = "none"
                              /\ paths[n] = {}
  BY DEF Init
<1>4. kind \in {"install", "update", "cli", "bundle"} /\ (fixture => kind = "install")
  BY Numbers DEF Init, Fixtures
<1>5. FlowInv
  BY <1>2, <1>3, <1>4 DEF FlowInv, Updating, Moving, Undoing, CliEnd, Starting, Before
<1>6. DeployedInv /\ IdleInv
  BY <1>2 DEF DeployedInv, IdleInv, Starting, Running, Updating, Moving, Undoing
<1>7. FreshInv  BY <1>3 DEF FreshInv
<1>8. OwnPathInv
  <2>1. premium => Tenant = t  BY DEF Tenant
  <2> QED  BY <1>1, <1>3, <2>1 DEF OwnPathInv
<1>9. DefaultInv /\ RemovedInv
  BY <1>1, <1>2, <1>3 DEF DefaultInv, RemovedInv, Updating
<1> QED  BY <1>5, <1>6, <1>7, <1>8, <1>9 DEF GeneralInv

\* Every step preserves every part.
LEMMA GeneralStep == TypeOK /\ GeneralInv /\ [Next]_vars => GeneralInv'
BY FlowStep, DeployedInvStep, IdleInvStep, FreshInvStep, OwnPathInvStep, DefaultInvStep,
   RemovedInvStep DEF GeneralInv

\* Nor is anything running, stored or on the host.
LEMMA CalmInit == Init => CalmInv
<1> SUFFICES ASSUME Init PROVE CalmInv
  OBVIOUS
<1>1. Tenant \in Tenants  BY Numbers DEF Init, Tenant, Tenants, Tests
<1>2. pc = "plugin"  BY DEF Init
<1>3. /\ ~ending /\ ~everUp /\ files = {} /\ failures = {}
      /\ \A n \in Tests : bundles[n] = "none"
      /\ plugins = {} /\ secrets = {} /\ blueprints = {} /\ updates = {}
      /\ \A n \in Tenants : dep[n] = "none" /\ job[n] = "none" /\ last[n] = "none"
  BY DEF Init
<1>4. CalmJobs  BY <1>2, <1>3 DEF CalmJobs
<1>5. CalmDeployment
  BY <1>1, <1>2, <1>3 DEF CalmDeployment, Starting, Running, Updating, Moving, Undoing
<1>6. CalmFiles  BY <1>2, <1>3 DEF CalmFiles
<1>7. CalmPaths  BY <1>2 DEF CalmPaths, Starting, Running
<1>8. CalmStore  BY <1>3 DEF CalmStore
<1>9. CalmEnd  BY <1>2, <1>3 DEF CalmEnd
<1> QED  BY <1>4, <1>5, <1>6, <1>7, <1>8, <1>9 DEF CalmInv

\* Until something goes wrong: a step that leaves things calm found them calm.
LEMMA CalmStep == TypeOK /\ GeneralInv /\ CalmInv /\ [Next]_vars => CalmInv'
<1> SUFFICES ASSUME TypeOK, GeneralInv, CalmInv, [Next]_vars, Calm' PROVE CalmInv'
  BY DEF CalmInv, Calm
<1>1. Calm  BY CalmBefore
<1>2. FlowInv /\ FreshInv  BY DEF GeneralInv
<1>3. CalmJobs' /\ CalmDeployment'  BY <1>1, <1>2, CalmJobsStep, CalmDeploymentStep
<1>4. CalmFiles' /\ CalmPaths'  BY <1>1, <1>2, CalmFilesStep, CalmPathsStep
<1>5. CalmStore' /\ CalmEnd'  BY <1>1, <1>2, CalmStoreStep, CalmEndStep
<1> QED  BY <1>3, <1>4, <1>5 DEF CalmInv

\* The invariant of whatever may go wrong holds always.
THEOREM GeneralInvariance == Spec => []GeneralInv
BY TypeCorrect, GeneralInit, GeneralStep, PTL DEF Spec

\* A test of an installed example that passes leaves no deployment and no file behind,
\* whichever workflow, wait or deletion failed or was lost in it or before it.
THEOREM NothingIsLeft == Spec => []NothingRemains
<1>1. GeneralInv => NothingRemains  BY DEF GeneralInv, RemovedInv, NothingRemains
<1> QED  BY <1>1, GeneralInvariance, PTL

\* While nothing has gone wrong, every workflow, file, path and object of the manager
\* is as the statement under way expects it.
THEOREM CalmInvariance == Spec => []CalmInv
BY TypeCorrect, GeneralInvariance, CalmInit, CalmStep, PTL DEF Spec

\* While nothing has gone wrong no test fails but those that cannot pass, whatever the
\* tests before it left behind on the manager.
THEOREM NoFailureIsFalse == Spec => []NoFalseFailure
<1>1. CalmInv /\ FlowInv => NoFalseFailure  BY DEF CalmInv, Calm, CalmEnd, NoFalseFailure
<1>2. GeneralInv => FlowInv  BY DEF GeneralInv
<1> QED  BY <1>1, <1>2, CalmInvariance, GeneralInvariance, PTL

\* A fixture that uninstalls leaves no deployment and no file of an installed example,
\* although an assertion of its test has failed, while nothing else has.
THEOREM FixturesCleanUp == Spec => []CleanedUp
<1>1. CalmInv => CleanedUp
  <2> SUFFICES ASSUME CalmInv, pc = "failed", fixture, everUp, ~faulted, ~spoiled
               PROVE  dep[Tenant] = "none" /\ \A p \in Paths : <<p, Tenant>> \notin files
    BY DEF CleanedUp
  <2>1. CalmDeployment  BY DEF CalmInv, Calm
  <2> QED  BY <2>1 DEF CalmDeployment
<1> QED  BY <1>1, CalmInvariance, PTL
=============================================================================
