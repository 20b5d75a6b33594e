-------------------------- MODULE ExampleLifecycle --------------------------
(***************************************************************************)
(* Example deployments that tests make, one after another, on one manager:  *)
(* through the REST client (BaseExample), with a deployment update in       *)
(* between, or through the CLI.  An example's `file' node writes a file to   *)
(* the example's host when it is installed and deletes it when it is         *)
(* uninstalled.  Workflows run on the manager while the test waits, and go  *)
(* on after a wait that timed out (see ExecutionWait).                      *)
(***************************************************************************)
EXTENDS Integers, FiniteSets

CONSTANTS
  NumTests,   \* tests that use the manager
  Kinds,      \* what they do, of "install", "update", "cli" and
              \* "bundle" (a log bundle, through the CLI)
  MaxLooks,   \* looks of a retried check (15, 30, 40 or 200)
  Faults      \* of "workflow" (one fails), "timeout" (a wait does), "lost" (a
              \* workflow ends well and leaves files as they were) and
              \* "assertion" (one about anything else than the files fails)

ASSUME ExampleAssumption ==
  /\ NumTests \in Nat \ {0} /\ MaxLooks \in Nat \ {0}
  /\ Kinds \subseteq {"install", "update", "cli", "bundle"} /\ Kinds # {}
  /\ Faults \subseteq {"workflow", "timeout", "lost", "assertion"}

Tests     == 1..NumTests
Tenants   == 0..NumTests        \* 0 is default_tenant
Paths     == {"test", "announcement", "new"}
Workflows == {"create", "install", "add", "move", "uninstall"}

VARIABLES
  premium,    \* the manager has tenants
  \* the test under way
  t, kind,
  fixture,    \* the example comes from a fixture that uninstalls it in the end
  pc,         \* its next statement
  looks,      \* looks made in the retried check under way
  installed,  \* BaseExample.installed
  ending,     \* it has failed and the fixture is uninstalling
  \* the manager, tenant by tenant
  plugins, secrets, blueprints, updates,  \* tenants that have each of them
  dep,        \* the deployment
  paths,      \* where its nodes keep files
  job, last,  \* its running workflow, and how the last one ended
  failures,   \* tenants that list an execution that failed
  bundles,    \* the log bundle of each test
  files,      \* files on the host, by path and tenant
  \* history
  faulted,    \* something has failed on the manager, or taken too long
  raised,     \* an assertion of this test, not about the files, has failed
  spoiled,    \* an earlier test has failed
  everUp      \* this test's install has succeeded

test    == <<premium, t, kind, fixture>>
example == <<pc, looks, installed, ending>>
store   == <<plugins, secrets, blueprints, updates>>
run     == <<dep, paths, job, last, failures, bundles, files>>
history == <<faulted, raised, spoiled, everUp>>
vars    == <<test, example, store, run, history>>

\* prepare_and_get_test_tenant: a tenant of its own, or the default one.
Tenant == IF premium THEN t ELSE 0

\* Only tests that do not update have a fixture that uninstalls their example.
Fixtures(k) == {f \in BOOLEAN : f => k = "install"}

Init ==
  /\ premium \in BOOLEAN /\ t = 1 /\ kind \in Kinds /\ fixture \in Fixtures(kind)
  /\ pc = "plugin" /\ looks = 0 /\ installed = FALSE /\ ending = FALSE
  /\ plugins = {} /\ secrets = {} /\ blueprints = {} /\ updates = {}
  /\ dep = [n \in Tenants |-> "none"] /\ paths = [n \in Tenants |-> {}]
  /\ job = [n \in Tenants |-> "none"] /\ last = [n \in Tenants |-> "none"]
  /\ failures = {} /\ bundles = [n \in Tests |-> "none"] /\ files = {}
  /\ faulted = FALSE /\ raised = FALSE /\ spoiled = FALSE /\ everUp = FALSE

-----------------------------------------------------------------------------
(* Helpers.                                                                 *)

\* The next statement, of an example that goes on.
Goto(next) == pc' = next /\ UNCHANGED <<looks, installed, ending>>

\* An exception: the fixture, if there is one, uninstalls what is installed.
Fail ==
  /\ looks' = 0
  /\ IF fixture /\ installed /\ ~ending
     THEN pc' = "uninstall" /\ ending' = TRUE /\ UNCHANGED installed
     ELSE pc' = "failed" /\ UNCHANGED <<installed, ending>>

\* A check under retrying.retry, or the loop of delete_deployment.
Look(ok, next) ==
  IF ok THEN pc' = next /\ looks' = 0 /\ UNCHANGED <<installed, ending>>
  ELSE IF looks + 1 < MaxLooks
       THEN looks' = looks + 1 /\ UNCHANGED <<pc, installed, ending>>
       ELSE Fail

\* Making something in the test's tenant: community tolerates that it exists.
Make(set, next) ==
  IF Tenant \notin set \/ ~premium THEN Goto(next) ELSE Fail

\* executions.start; the manager runs one workflow of a deployment at a time.
StartWorkflow(w, next) ==
  IF dep[Tenant] = "ready" /\ job[Tenant] = "none"
  THEN job' = [job EXCEPT ![Tenant] = w] /\ Goto(next)
  ELSE Fail /\ UNCHANGED job

\* wait_for_execution: the workflow ended, well or not, or took too long.
Await(next) ==
  \/ job[Tenant] = "none" /\ UNCHANGED faulted
     /\ IF last[Tenant] = "ok" THEN next ELSE Fail
  \/ job[Tenant] # "none" /\ "timeout" \in Faults /\ faulted' = TRUE /\ Fail

\* An assertion fails, for reasons of its own.
Raise == "assertion" \in Faults /\ raised' = TRUE /\ Fail

\* What follows the upload of the plugin, and the installation.
Plugged   == IF kind \in {"cli", "bundle"} THEN "profile" ELSE "secret"
Installed == IF kind = "cli" THEN "check" ELSE "events"

\* The files the tests may find under a path: a prefix of all of them.
Found(p) == {f \in files : f[1] = p}

-----------------------------------------------------------------------------
(* Faulty variants of the actions below.                                    *)

\* An install that does not set the flag.
ForgetInstalled ==
  /\ pc = "awaitInstall"
  /\ Await(Goto(Installed))
  /\ everUp' = (everUp \/ pc' = Installed)
  /\ UNCHANGED <<test, store, run, raised, spoiled>>

\* An update whose new file is not put in place beforehand.
PrepareNothing ==
  /\ pc = "prepare"
  /\ IF Found("test") # {} THEN Goto("move") ELSE Fail
  /\ files' = files \ Found("test")
  /\ UNCHANGED <<test, store, dep, paths, job, last, failures, bundles, history>>

\* A deployment deleted without a look at the files.
DontCheckDeleted ==
  /\ pc \in {"gone", "oldGone", "announcementGone"}
  /\ Goto(CASE pc = "gone" -> "delete" [] pc = "oldGone" -> "announcementGone"
            [] OTHER -> "uninstall")
  /\ UNCHANGED <<test, store, run, history>>

\* A create_deployment that does not wait for the environment itself.
DontAwaitEnv ==
  /\ pc = "awaitEnv"
  /\ Goto("env")
  /\ UNCHANGED <<test, store, run, history>>

-----------------------------------------------------------------------------
(* Upload and installation.                                                 *)

\* upload_test_plugin, then wait_for_all_executions.
UploadPlugin ==
  /\ pc = "plugin"
  /\ Make(plugins, IF Tenant \in plugins THEN Plugged ELSE "executions")
  /\ plugins' = plugins \cup {Tenant}
  /\ UNCHANGED <<test, secrets, blueprints, updates, run, history>>

\* wait_for_all_executions: every execution of every tenant has terminated; one
\* that failed never will.
WaitForAllExecutions ==
  /\ pc = "executions"
  /\ Look(/\ failures = {} /\ \A n \in Tenants : job[n] = "none"
          /\ \A n \in Tests : bundles[n] \in {"none", "created"}, Plugged)
  /\ UNCHANGED <<test, store, run, history>>

\* set_agent_key_secret.
SetSecret ==
  /\ pc = "secret"
  /\ Make(secrets, "blueprint")
  /\ secrets' = secrets \cup {Tenant}
  /\ UNCHANGED <<test, plugins, blueprints, updates, run, history>>

UploadBlueprint ==
  /\ pc = "blueprint"
  /\ Make(blueprints, "deployment")
  /\ blueprints' = blueprints \cup {Tenant}
  /\ UNCHANGED <<test, plugins, secrets, updates, run, history>>

\* The CLI's _prepare uses a profile for the tenant and creates the secret, and
\* _test_upload_and_install the blueprint: neither may exist.  (For a bundle
\* there is no secret.)
CliPrepare ==
  /\ pc = "profile"
  /\ IF kind = "bundle" THEN Goto("bundle") /\ UNCHANGED secrets
     ELSE /\ IF Tenant \in secrets THEN Fail ELSE Goto("cliBlueprint")
          /\ secrets' = secrets \cup {Tenant}
  /\ UNCHANGED <<test, plugins, blueprints, updates, run, history>>

CliUpload ==
  /\ pc = "cliBlueprint"
  /\ IF Tenant \in blueprints THEN Fail ELSE Goto("deployment")
  /\ blueprints' = blueprints \cup {Tenant}
  /\ UNCHANGED <<test, plugins, secrets, updates, run, history>>

\* _test_cfy_log_bundles creates a bundle and waits until it is listed as created;
\* the copy it then downloads has the same hash.
CreateBundle ==
  /\ pc = "bundle"
  /\ bundles' = [bundles EXCEPT ![t] = "creating"]
  /\ Goto("bundled")
  /\ UNCHANGED <<test, store, dep, paths, job, last, failures, files, history>>

AwaitBundle ==
  /\ pc = "bundled"
  /\ Look(bundles[t] = "created", "cliProfile")
  /\ faulted' = (faulted \/ pc' = "failed")
  /\ UNCHANGED <<test, store, run, raised, spoiled, everUp>>

\* create_deployment; a deployment that exists is tolerated nowhere.
CreateDeployment ==
  /\ pc = "deployment"
  /\ IF dep[Tenant] = "none"
     THEN /\ dep' = [dep EXCEPT ![Tenant] = "ready"]
          /\ paths' = [paths EXCEPT ![Tenant] = {"test"}]
          /\ job' = [job EXCEPT ![Tenant] = "create"]
          /\ Goto("awaitEnv")
     ELSE Fail /\ UNCHANGED <<dep, paths, job>>
  /\ UNCHANGED <<test, store, last, failures, bundles, files, history>>

\* It waits for create_deployment_environment ...
AwaitEnv ==
  /\ pc = "awaitEnv"
  /\ Await(Goto("env"))
  /\ UNCHANGED <<test, store, run, raised, spoiled, everUp>>

\* ... and wait_for_deployment_environment_creation does so again, without end.
WaitForEnv ==
  /\ pc = "env" /\ job[Tenant] = "none" /\ last[Tenant] = "ok"
  /\ Goto("install")
  /\ UNCHANGED <<test, store, run, history>>

Install ==
  /\ pc = "install"
  /\ StartWorkflow("install", "awaitInstall")
  /\ UNCHANGED <<test, store, dep, paths, last, failures, bundles, files, history>>

\* The flag is set once the install has succeeded.  (The CLI flows leave it.)
AwaitInstall ==
  /\ pc = "awaitInstall"
  /\ Await(pc' = Installed /\ installed' = (kind # "cli") /\ UNCHANGED <<looks, ending>>)
  /\ everUp' = (everUp \/ pc' = Installed)
  /\ UNCHANGED <<test, store, run, raised, spoiled>>

\* assert_deployment_events_exist.
CheckEvents ==
  /\ pc = "events"
  /\ (Goto("check") /\ UNCHANGED raised) \/ Raise
  /\ UNCHANGED <<test, store, run, faulted, spoiled, everUp>>

\* check_files asks for the instances of the deployment under the client's own
\* tenant and looks, for each instance of `file' it is given, for a file of that
\* name: the announcement is another node's, and the instances of a deployment in
\* another tenant are not found.
CheckFiles ==
  /\ pc \in {"check", "oldThere", "announced", "newThere"}
  /\ LET p == CASE pc \in {"check", "oldThere"} -> "test"
                [] pc = "announced" -> "announcement" [] OTHER -> "new"
         next == CASE pc = "check" -> CASE kind = "install" -> "body"
                                        [] kind = "update" -> "updated"
                                        [] OTHER -> "uninstall"
                   [] pc = "oldThere" -> "announced" [] pc = "announced" -> "prepare"
                   [] OTHER -> "oldGone"
     IN Look(Tenant = 0 => p # "announcement" /\ <<p, Tenant>> \in files, next)
  /\ UNCHANGED <<test, store, run, history>>

\* What else the test does with the example.
RunBody ==
  /\ pc = "body"
  /\ (Goto("uninstall") /\ UNCHANGED raised) \/ Raise
  /\ UNCHANGED <<test, store, run, faulted, spoiled, everUp>>

-----------------------------------------------------------------------------
(* apply_and_check_deployment_update.                                       *)

\* The updated blueprint; nobody tolerates that it exists.
UploadUpdated ==
  /\ pc = "updated"
  /\ IF Tenant \in updates THEN Fail ELSE Goto("add")
  /\ updates' = updates \cup {Tenant}
  /\ UNCHANGED <<test, plugins, secrets, blueprints, run, history>>

\* _update_deployment, twice: to the blueprint with a second file, skipping the
\* reinstallation, and back to the first one with another path.
Update ==
  /\ pc \in {"add", "move"}
  /\ IF pc = "add" THEN StartWorkflow("add", "awaitAdd")
     ELSE StartWorkflow("move", "awaitMove")
  /\ UNCHANGED <<test, store, dep, paths, last, failures, bundles, files, history>>

AwaitUpdate ==
  /\ pc \in {"awaitAdd", "awaitMove"}
  /\ Await(Goto(IF pc = "awaitAdd" THEN "added" ELSE "moved"))
  /\ UNCHANGED <<test, store, run, raised, spoiled, everUp>>

\* wait_for_deployment_update: the state of the update follows its workflow.
CheckUpdate ==
  /\ pc \in {"added", "moved"}
  /\ \/ Goto(IF pc = "added" THEN "oldThere" ELSE "newThere") /\ UNCHANGED raised
     \/ Raise
  /\ UNCHANGED <<test, store, run, faulted, spoiled, everUp>>

\* The files under the old path are removed, and one is put under the new path
\* for the uninstall to find.
Prepare ==
  /\ pc = "prepare"
  /\ IF Found("test") # {}
     THEN files' = (files \ Found("test")) \cup {<<"new", Tenant>>} /\ Goto("move")
     ELSE UNCHANGED files /\ Fail
  /\ UNCHANGED <<test, store, dep, paths, job, last, failures, bundles, history>>

-----------------------------------------------------------------------------
(* Removal.                                                                 *)

Uninstall ==
  /\ pc = "uninstall"
  /\ StartWorkflow("uninstall", "awaitUninstall")
  /\ UNCHANGED <<test, store, dep, paths, last, failures, bundles, files, history>>

AwaitUninstall ==
  /\ pc = "awaitUninstall"
  /\ Await(pc' = "gone" /\ installed' = FALSE /\ UNCHANGED <<looks, ending>>)
  /\ UNCHANGED <<test, store, run, raised, spoiled, everUp>>

\* check_all_test_files_deleted, at the path the example began with; the
\* update checks two paths.
CheckDeleted ==
  /\ pc \in {"gone", "oldGone", "announcementGone"}
  /\ Look(Found(IF pc = "announcementGone" THEN "announcement" ELSE "test") = {},
          CASE pc = "gone" -> "delete" [] pc = "oldGone" -> "announcementGone"
            [] OTHER -> "uninstall")
  /\ UNCHANGED <<test, store, run, history>>

\* delete_deployment, which the manager refuses while a workflow runs.
Delete ==
  /\ pc = "delete"
  /\ IF dep[Tenant] = "ready" /\ job[Tenant] = "none"
     THEN dep' = [dep EXCEPT ![Tenant] = "deleting"] /\ Goto("deleted")
     ELSE UNCHANGED dep /\ Fail
  /\ UNCHANGED <<test, store, paths, job, last, failures, bundles, files, history>>

\* It is listed no more; a CLI flow looks once, after four seconds.
Deleted ==
  /\ pc = "deleted"
  /\ IF kind = "cli"
     THEN IF dep[Tenant] = "none" THEN Goto("cliRemove") ELSE Fail
     ELSE Look(dep[Tenant] = "none", IF ending THEN "failed" ELSE "passed")
  /\ faulted' = (faulted \/ (pc' = "failed" /\ dep[Tenant] # "none"))
  /\ UNCHANGED <<test, store, run, raised, spoiled, everUp>>

\* The end of _test_teardown: secret and blueprint are deleted and gone.
CliRemove ==
  /\ pc = "cliRemove"
  /\ secrets' = secrets \ {Tenant} /\ blueprints' = blueprints \ {Tenant}
  /\ Goto("cliProfile")
  /\ UNCHANGED <<test, plugins, updates, run, history>>

\* _cleanup_profile deletes the secret the flow made, which fails if there is none,
\* and then the profile.
CliCleanup ==
  /\ pc = "cliProfile"
  /\ IF kind = "bundle" THEN Goto("passed") /\ UNCHANGED secrets
     ELSE /\ IF Tenant \in secrets THEN Goto("passed") ELSE Fail
          /\ secrets' = secrets \ {Tenant}
  /\ UNCHANGED <<test, plugins, blueprints, updates, run, history>>

\* The next test on the manager, with an example of its own.
NextTest ==
  /\ pc \in {"passed", "failed"} /\ t < NumTests
  /\ t' = t + 1 /\ kind' \in Kinds /\ fixture' \in Fixtures(kind')
  /\ pc' = "plugin" /\ looks' = 0 /\ installed' = FALSE /\ ending' = FALSE
  /\ spoiled' = (spoiled \/ pc = "failed") /\ raised' = FALSE /\ everUp' = FALSE
  /\ UNCHANGED <<premium, store, run, faulted>>

Test ==
  \/ UploadPlugin \/ WaitForAllExecutions \/ SetSecret \/ UploadBlueprint
  \/ CliPrepare \/ CliUpload \/ CreateBundle \/ AwaitBundle
  \/ CreateDeployment \/ AwaitEnv \/ WaitForEnv
  \/ Install \/ AwaitInstall \/ CheckEvents \/ CheckFiles \/ RunBody
  \/ UploadUpdated \/ Update \/ AwaitUpdate \/ CheckUpdate \/ Prepare
  \/ Uninstall \/ AwaitUninstall \/ CheckDeleted \/ Delete \/ Deleted
  \/ CliRemove \/ CliCleanup \/ NextTest

-----------------------------------------------------------------------------
(* The manager.                                                             *)

\* What a workflow leaves on the host; its delete operations fail on a file that
\* is not there.
Owned(n) == paths[n] \X {n}
Possible(n) ==
  CASE job[n] = "uninstall" -> Owned(n) \subseteq files
    [] job[n] = "move" -> {<<"new", n>>, <<"announcement", n>>} \subseteq files
    [] OTHER -> TRUE
Moved(n) ==
  CASE job[n] = "add" -> {"test", "announcement"}
    [] job[n] = "move" -> {"new"}
    [] OTHER -> paths[n]
Outcome(n) ==
  CASE job[n] = "install" -> files \cup Owned(n)
    [] job[n] = "add"  -> files \cup {<<"announcement", n>>}
    [] job[n] = "move" -> (files \ {<<"announcement", n>>}) \cup {<<"new", n>>}
    [] job[n] = "uninstall" -> files \ Owned(n)
    [] OTHER -> files

WorkflowEnds(n) ==
  /\ job[n] # "none"
  /\ job' = [job EXCEPT ![n] = "none"]
  /\ \/ /\ Possible(n)
        /\ last' = [last EXCEPT ![n] = "ok"] /\ UNCHANGED failures
        /\ paths' = [paths EXCEPT ![n] = Moved(n)]
        /\ \/ files' = Outcome(n) /\ UNCHANGED faulted
           \/ "lost" \in Faults /\ files' = files /\ faulted' = TRUE
     \/ /\ ~Possible(n) \/ "workflow" \in Faults
        /\ last' = [last EXCEPT ![n] = "failed"] /\ failures' = failures \cup {n}
        /\ UNCHANGED <<paths, files>>
        /\ faulted' = (faulted \/ Possible(n))
  /\ UNCHANGED <<test, example, store, dep, bundles, raised, spoiled, everUp>>

\* A log bundle is made by an execution of its own.
BundleEnds(n) ==
  /\ bundles[n] = "creating"
  /\ \/ bundles' = [bundles EXCEPT ![n] = "created"] /\ UNCHANGED faulted
     \/ /\ "workflow" \in Faults
        /\ bundles' = [bundles EXCEPT ![n] = "failed"] /\ faulted' = TRUE
  /\ UNCHANGED <<test, example, store, dep, paths, job, last, failures, files,
                 raised, spoiled, everUp>>

\* A deletion takes its time, and takes the executions with it.
DeletionEnds(n) ==
  /\ dep[n] = "deleting"
  /\ dep' = [dep EXCEPT ![n] = "none"] /\ last' = [last EXCEPT ![n] = "none"]
  /\ failures' = failures \ {n}
  /\ UNCHANGED <<test, example, store, paths, job, bundles, files, history>>

Manager ==
  \/ \E n \in Tenants : WorkflowEnds(n) \/ DeletionEnds(n)
  \/ \E n \in Tests : BundleEnds(n)

Next == Test \/ Manager

Spec == Init /\ [][Next]_vars

\* The test is scheduled.
FairSpec == Spec /\ WF_vars(Test)

-----------------------------------------------------------------------------
(* Properties.                                                              *)

\* The variables have their types (the example and the manager's tables).
TypeOK ==
  /\ premium \in BOOLEAN /\ t \in Tests /\ kind \in Kinds /\ fixture \in BOOLEAN
  /\ pc \in {"plugin", "executions", "secret", "blueprint", "profile",
             "cliBlueprint", "bundle", "bundled", "deployment", "awaitEnv", "env",
             "install", "awaitInstall", "events", "check", "body", "updated", "add",
             "awaitAdd", "added", "oldThere", "announced", "prepare", "move",
             "awaitMove", "moved", "newThere", "oldGone", "announcementGone",
             "uninstall", "awaitUninstall", "gone", "delete", "deleted", "cliRemove",
             "cliProfile", "passed", "failed"}
  /\ looks \in 0..(MaxLooks - 1) /\ installed \in BOOLEAN /\ ending \in BOOLEAN
  /\ {plugins, secrets, blueprints, updates} \subseteq SUBSET Tenants
  /\ dep \in [Tenants -> {"none", "ready", "deleting"}]
  /\ paths \in [Tenants -> SUBSET Paths]
  /\ job \in [Tenants -> Workflows \cup {"none"}]
  /\ last \in [Tenants -> {"none", "ok", "failed"}]
  /\ failures \subseteq Tenants
  /\ bundles \in [Tests -> {"none", "creating", "created", "failed"}]
  /\ files \subseteq Paths \X Tenants
  /\ faulted \in BOOLEAN /\ raised \in BOOLEAN /\ spoiled \in BOOLEAN /\ everUp \in BOOLEAN

\* A test that passes without an update leaves no deployment and no file, also
\* where an uninstall that ends well has deleted nothing.  (After an update the
\* check looks where the file no longer is.)
NothingRemains ==
  pc = "passed" /\ kind = "install" =>
    dep[Tenant] = "none" /\ \A p \in Paths : <<p, Tenant>> \notin files

\* An installed example is gone when its test is over although an assertion of the
\* test failed, if its fixture uninstalls what is installed: unless a workflow, a wait
\* or a deletion has failed too, or a test before it.
CleanedUp ==
  pc = "failed" /\ fixture /\ everUp /\ ~faulted /\ ~spoiled =>
    dep[Tenant] = "none" /\ \A p \in Paths : <<p, Tenant>> \notin files

\* As long as nothing goes wrong no test fails, whatever the tests before it left
\* behind, except two that cannot pass: an update in the default tenant, which
\* looks for the announcement under the name of the other node's instance, and a
\* CLI flow, which deletes its secret twice.
NoFalseFailure ==
  pc = "failed" /\ ~faulted /\ ~raised /\ ~spoiled =>
    (kind = "update" /\ ~premium) \/ kind = "cli"

\* A test that goes on from its check of the installed files has seen its file.
InstalledFilesVerified ==
  [][pc = "check" /\ pc' \in {"body", "updated", "uninstall"} /\ ~ending' =>
       <<"test", Tenant>> \in files]_vars

\* The tests end: no wait goes on for ever, in particular not the unbounded one
\* for the environment.
Ends == <>(t = NumTests /\ pc \in {"passed", "failed"})
=============================================================================
