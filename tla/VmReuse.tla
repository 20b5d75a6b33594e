------------------------------- MODULE VmReuse -------------------------------
(***************************************************************************)
(* The session's VMs as one test after another uses them: the rsync backup  *)
(* that session fixtures take, and for each test reboot_if_required, the    *)
(* bootstrap, the test and rsync_restore.  Bootstraps and restores run in   *)
(* the background on the VMs and report through marker files in /tmp, which *)
(* only reboot_if_required clears.                                          *)
(***************************************************************************)
EXTENDS Integers, FiniteSets

CONSTANTS
  NumVms,               \* VMs of the session fixture
  NumTests,             \* len(request.session.items)
  Faults                \* what may fail, of "backup", "install", "restore",
                        \* "call"

ASSUME ReuseAssumption ==
  /\ NumVms \in Nat \ {0} /\ NumTests \in Nat \ {0}
  /\ Faults \subseteq {"backup", "install", "restore", "call"}

Vms   == 1..NumVms
Tests == 1..NumTests
Markers == {"complete", "failed"}

VARIABLES
  \* the test process
  pc,              \* the next statement of fixtures and test
  k,               \* the VM it is about
  test,            \* the test under way
  rebootRequired,  \* VMs with reboot_required set
  changed,         \* VMs whose install_config is not the basic one
  reported,        \* tests whose setup ended with "BOOTSTRAP FAILED!"
  ran,             \* tests whose body has run
  \* the machines
  backup,          \* state of /cfy_backup on each VM
  dirt,            \* tests that left files in the restored locations
  bsMarks,         \* /tmp/bootstrap_complete and _failed
  rsMarks,         \* /tmp/rsync_restore_complete and _failed
  installing,      \* tests whose installation is running
  restoring,       \* tests whose restore is running
  rebooting,       \* VMs told to shut down that are not down yet
  down,            \* VMs that are down
  cut,             \* tests of which a restart has killed a background job
  broken,          \* tests of which an installation has failed
  faulted          \* something has failed in this session

files == <<backup, dirt, bsMarks, rsMarks>>
jobs  == <<installing, restoring, rebooting, down, cut, broken>>
notes == <<rebootRequired, changed, reported, ran>>
vars  == <<pc, k, test, notes, files, jobs, faulted>>

Setup    == {"reboot", "restart", "launch", "awaitInstall"}
Teardown == {"restore", "awaitRestore"}

Init ==
  /\ pc = IF NumTests > 1 THEN "backup" ELSE "reboot"
  /\ k = 1 /\ test = 1
  /\ rebootRequired = {} /\ changed = {} /\ reported = {} /\ ran = {}
  /\ backup = [v \in Vms |-> "none"]
  /\ dirt = [v \in Vms |-> {}]
  /\ bsMarks = [v \in Vms |-> {}] /\ rsMarks = [v \in Vms |-> {}]
  /\ installing = [v \in Vms |-> {}] /\ restoring = [v \in Vms |-> {}]
  /\ rebooting = {} /\ down = {} /\ cut = {} /\ broken = {} /\ faulted = FALSE

-----------------------------------------------------------------------------
(* Control.                                                                 *)

\* To the next VM of the loop, or to the first VM of the next loop.
Advance(next) ==
  /\ IF k < NumVms THEN pc' = pc /\ k' = k + 1 ELSE pc' = next /\ k' = 1
  /\ UNCHANGED test

\* The fixtures of this test are over, normally or by an exception.
NextTest ==
  IF test < NumTests THEN pc' = "reboot" /\ k' = 1 /\ test' = test + 1
  ELSE pc' = "over" /\ UNCHANGED <<k, test>>

-----------------------------------------------------------------------------
(* Faulty variants of the definitions below: plausible mistakes in the code, *)
(* used only to show that the properties would notice them.                  *)

\* No rm -rf /tmp/* before the reboot.
KeepTmp ==
  /\ pc = "reboot"
  /\ rebooting' = rebooting \cup ({k} \cap rebootRequired)
  /\ Advance("restart")
  /\ UNCHANGED <<notes, files, installing, restoring, down, cut, broken, faulted>>

\* No deepcopy of basic_install_config.
KeepConfig ==
  /\ pc = "restore"
  /\ restoring' = [restoring EXCEPT ![k] = @ \cup {test}]
  /\ Advance("awaitRestore")
  /\ UNCHANGED <<notes, files, installing, rebooting, down, cut, broken, faulted>>

\* Taking "not done" for an answer.
DontAwaitRestore ==
  /\ pc = "awaitRestore"
  /\ rebootRequired' = rebootRequired \cup {k}
  /\ IF k < NumVms THEN Advance("awaitRestore") ELSE NextTest
  /\ UNCHANGED <<changed, reported, ran, files, jobs, faulted>>

\* No touch after an installation that failed.
FailWithoutMarker(v, t) ==
  /\ t \in installing[v]
  /\ installing' = [installing EXCEPT ![v] = @ \ {t}]
  /\ faulted' = TRUE
  /\ UNCHANGED <<pc, k, test, notes, files, restoring, rebooting, down, cut, broken>>

-----------------------------------------------------------------------------
(* The session fixture: Hosts.rsync_backup.                                 *)

StartBackup ==
  /\ pc = "backup"
  /\ backup' = [backup EXCEPT ![k] = "running"]
  /\ Advance("awaitBackup")
  /\ UNCHANGED <<notes, dirt, bsMarks, rsMarks, jobs, faulted>>

\* Without its session fixture no test runs.
AwaitBackup ==
  /\ pc = "awaitBackup"
  /\ \/ backup[k] = "complete" /\ Advance("reboot")
     \/ backup[k] = "failed" /\ pc' = "over" /\ UNCHANGED <<k, test>>
  /\ UNCHANGED <<notes, files, jobs, faulted>>

-----------------------------------------------------------------------------
(* A test's setup.                                                          *)

\* The first loop of reboot_if_required: rm -rf /tmp/*, stop sshd, shut down.
Reboot ==
  /\ pc = "reboot"
  /\ IF k \in rebootRequired
     THEN /\ bsMarks' = [bsMarks EXCEPT ![k] = {}]
          /\ rsMarks' = [rsMarks EXCEPT ![k] = {}]
          /\ rebooting' = rebooting \cup {k}
     ELSE UNCHANGED <<bsMarks, rsMarks, rebooting>>
  /\ Advance("restart")
  /\ UNCHANGED <<notes, backup, dirt, installing, restoring, down, cut, broken,
                 faulted>>

\* The second loop, which asks whether the VM answers: over the connection that
\* is open already, and so also before the VM has gone down.
AwaitRestart ==
  /\ pc = "restart"
  /\ Advance("launch")
  /\ UNCHANGED <<notes, files, jobs, faulted>>

\* Preparing install_config and VM.bootstrap: the removal of the completion
\* marker, the upload and the launch (in detail in ClusterBootstrap).
Launch ==
  /\ pc = "launch"
  /\ changed' = changed \cup {k}
  /\ bsMarks' = [bsMarks EXCEPT ![k] = @ \ {"complete"}]
  /\ installing' = [installing EXCEPT ![k] = @ \cup {test}]
  /\ dirt' = [dirt EXCEPT ![k] = @ \cup {test}]
  /\ Advance("awaitInstall")
  /\ UNCHANGED <<rebootRequired, reported, ran, backup, rsMarks, restoring,
                 rebooting, down, cut, broken, faulted>>

\* A bootstrap without a marker of its completion is taken for failed.
NotDoneIsFailed ==
  /\ pc = "awaitInstall"
  /\ IF "complete" \in bsMarks[k] THEN Advance("test") /\ UNCHANGED reported
     ELSE /\ "failed" \in bsMarks[k] \/ installing[k] # {}
          /\ reported' = reported \cup {test} /\ NextTest
  /\ UNCHANGED <<rebootRequired, changed, ran, files, jobs, faulted>>

\* An exception in the setup: no test, and nothing after the yield either.
AwaitInstall ==
  /\ pc = "awaitInstall"
  /\ \/ "complete" \in bsMarks[k] /\ Advance("test") /\ UNCHANGED reported
     \/ /\ "complete" \notin bsMarks[k] /\ "failed" \in bsMarks[k]
        /\ reported' = reported \cup {test}
        /\ NextTest
  /\ UNCHANGED <<rebootRequired, changed, ran, files, jobs, faulted>>

\* The test, which may leave anything anywhere.
RunTest ==
  /\ pc = "test"
  /\ ran' = ran \cup {test}
  /\ dirt' = [v \in Vms |-> dirt[v] \cup {test}]
  /\ IF NumTests > 1 THEN pc' = "restore" /\ UNCHANGED <<k, test>> ELSE NextTest
  /\ UNCHANGED <<rebootRequired, changed, reported, backup, bsMarks, rsMarks,
                 jobs, faulted>>

-----------------------------------------------------------------------------
(* A test's teardown: util.rsync_restore.                                   *)

Restore ==
  /\ pc = "restore"
  /\ changed' = changed \ {k}
  /\ restoring' = [restoring EXCEPT ![k] = @ \cup {test}]
  /\ Advance("awaitRestore")
  /\ UNCHANGED <<rebootRequired, reported, ran, files, installing, rebooting,
                 down, cut, broken, faulted>>

AwaitRestore ==
  /\ pc = "awaitRestore"
  /\ \/ /\ "complete" \in rsMarks[k]
        /\ rebootRequired' = rebootRequired \cup {k}
        /\ IF k < NumVms THEN Advance("awaitRestore") ELSE NextTest
     \/ /\ "complete" \notin rsMarks[k] /\ "failed" \in rsMarks[k]
        /\ UNCHANGED rebootRequired
        /\ NextTest
  /\ UNCHANGED <<changed, reported, ran, files, jobs, faulted>>

\* Every step above talks to a VM and raises when it cannot reach it.
LoseConnection ==
  /\ "call" \in Faults
  /\ \/ /\ pc \in {"backup", "awaitBackup"}
        /\ pc' = "over" /\ UNCHANGED <<k, test>>
     \/ pc \in Setup \cup Teardown /\ NextTest
  /\ faulted' = TRUE
  /\ UNCHANGED <<notes, files, jobs>>

\* A connection is made again to a VM that was down, once it is back.
TestProcess ==
  /\ k \notin down
  /\ \/ StartBackup \/ AwaitBackup
     \/ Reboot \/ AwaitRestart \/ Launch \/ AwaitInstall
     \/ RunTest
     \/ Restore \/ AwaitRestore

-----------------------------------------------------------------------------
(* The machines.                                                            *)

BackupEnds(v) ==
  /\ backup[v] = "running"
  /\ \/ backup' = [backup EXCEPT ![v] = "complete"] /\ UNCHANGED faulted
     \/ /\ "backup" \in Faults
        /\ backup' = [backup EXCEPT ![v] = "failed"]
        /\ faulted' = TRUE
  /\ UNCHANGED <<pc, k, test, notes, dirt, bsMarks, rsMarks, jobs>>

\* An installation writes to the VM until it ends.
InstallSucceeds(v, t) ==
  /\ t \in installing[v]
  /\ installing' = [installing EXCEPT ![v] = @ \ {t}]
  /\ dirt' = [dirt EXCEPT ![v] = @ \cup {t}]
  /\ bsMarks' = [bsMarks EXCEPT ![v] = @ \cup {"complete"}]
  /\ UNCHANGED <<pc, k, test, notes, backup, rsMarks, restoring, rebooting,
                 down, cut, broken, faulted>>

InstallFails(v, t) ==
  /\ "install" \in Faults
  /\ t \in installing[v]
  /\ installing' = [installing EXCEPT ![v] = @ \ {t}]
  /\ dirt' = [dirt EXCEPT ![v] = @ \cup {t}]
  /\ bsMarks' = [bsMarks EXCEPT ![v] = @ \cup {"failed"}]
  /\ broken' = broken \cup {t}
  /\ faulted' = TRUE
  /\ UNCHANGED <<pc, k, test, notes, backup, rsMarks, restoring, rebooting, down,
                 cut>>

RestoreSucceeds(v, t) ==
  /\ t \in restoring[v]
  /\ restoring' = [restoring EXCEPT ![v] = @ \ {t}]
  /\ dirt' = [dirt EXCEPT ![v] = {}]
  /\ rsMarks' = [rsMarks EXCEPT ![v] = @ \cup {"complete"}]
  /\ UNCHANGED <<pc, k, test, notes, backup, bsMarks, installing, rebooting,
                 down, cut, broken, faulted>>

RestoreFails(v, t) ==
  /\ "restore" \in Faults
  /\ t \in restoring[v]
  /\ restoring' = [restoring EXCEPT ![v] = @ \ {t}]
  /\ rsMarks' = [rsMarks EXCEPT ![v] = @ \cup {"failed"}]
  /\ faulted' = TRUE
  /\ UNCHANGED <<pc, k, test, notes, backup, dirt, bsMarks, installing,
                 rebooting, down, cut, broken>>

\* The VM goes down, and what was running there is gone: also what the test under
\* way has launched since it told the VM to restart.
GoesDown(v) ==
  /\ v \in rebooting
  /\ rebooting' = rebooting \ {v} /\ down' = down \cup {v}
  /\ installing' = [installing EXCEPT ![v] = {}]
  /\ restoring' = [restoring EXCEPT ![v] = {}]
  /\ cut' = cut \cup ({test} \cap (installing[v] \cup restoring[v]))
  /\ UNCHANGED <<pc, k, test, notes, files, broken, faulted>>

ComesUp(v) ==
  /\ v \in down
  /\ down' = down \ {v}
  /\ UNCHANGED <<pc, k, test, notes, files, installing, restoring, rebooting,
                 cut, broken, faulted>>

Machine(v) ==
  \/ BackupEnds(v) \/ GoesDown(v) \/ ComesUp(v)
  \/ \E t \in Tests : InstallSucceeds(v, t) \/ InstallFails(v, t)
  \/ \E t \in Tests : RestoreSucceeds(v, t) \/ RestoreFails(v, t)

-----------------------------------------------------------------------------
Next == TestProcess \/ LoseConnection \/ (\E v \in Vms : Machine(v))

Spec == Init /\ [][Next]_vars

\* The test process only waits in its polling loops; commands on a running VM
\* end, and a VM that is told to reboot does.
FairSpec == Spec /\ WF_vars(TestProcess) /\ \A v \in Vms : WF_vars(Machine(v))

-----------------------------------------------------------------------------
(* Properties.                                                              *)

TypeOK ==
  /\ pc \in {"backup", "awaitBackup", "test", "over"} \cup Setup \cup Teardown
  /\ k \in Vms /\ test \in Tests
  /\ rebootRequired \subseteq Vms /\ changed \subseteq Vms
  /\ reported \subseteq Tests /\ ran \subseteq Tests
  /\ backup \in [Vms -> {"none", "running", "complete", "failed"}]
  /\ dirt \in [Vms -> SUBSET Tests]
  /\ bsMarks \in [Vms -> SUBSET Markers] /\ rsMarks \in [Vms -> SUBSET Markers]
  /\ installing \in [Vms -> SUBSET Tests] /\ restoring \in [Vms -> SUBSET Tests]
  /\ rebooting \subseteq Vms /\ down \subseteq Vms
  /\ cut \subseteq Tests /\ broken \subseteq Tests /\ faulted \in BOOLEAN

\* Tests do not see each other while nothing fails: when a test begins, its VMs
\* hold nothing but the installation made for it.
CleanStart ==
  pc = "test" /\ ~faulted =>
    \A v \in Vms : dirt[v] = {test} /\ installing[v] = {}

\* The installation a test asks for starts from the basic configuration: "revert
\* install config to avoid leaking state between tests".
ConfigReverted == pc = "launch" => \A v \in Vms : v >= k => v \notin changed

\* "Rsync restore complete": a VM that is taken for restored is, and is not
\* rebooted, bootstrapped or tested while the restore is still copying.
RestoreWaitedFor ==
  pc \in Setup \cup {"test"} => \A v \in rebootRequired : restoring[v] = {}

\* As long as nothing fails that is so, and every VM about to be installed has
\* its configuration reverted.
RestoredForUse == ~faulted => RestoreWaitedFor /\ ConfigReverted

\* "BOOTSTRAP FAILED!" is only said when an installation has failed, of this test
\* or, as the marker of a failure is not removed before the next bootstrap, of
\* an earlier one.
AlarmHasCause == \A t \in reported : \E u \in broken : u <= t

\* A test that polls for the marker of a job that a restart has killed.
Stranded == pc \in {"awaitInstall", "awaitRestore"} /\ test \in cut

\* The session comes to an end, and every test gets to run unless something fails:
\* no poll waits for a marker that is not going to be there.  The one exception is
\* the restart that reboot_if_required takes for complete before the VM has gone
\* down: the test it leaves stranded polls for ever.
AllTestsRun ==
  \/ <>(pc = "over" /\ (ran = Tests \/ faulted))
  \/ <>[]Stranded
=============================================================================
