--------------------------- MODULE VmReuse_proofs ---------------------------
(***************************************************************************)
(* Proofs about VmReuse, for any number of VMs and tests and any faults.    *)
(***************************************************************************)
EXTENDS VmReuse, TLAPS

LEMMA Numbers ==
  /\ NumVms \in Nat \ {0} /\ NumTests \in Nat \ {0}
  /\ 1 \in Vms /\ 1 \in Tests
BY ReuseAssumption DEF Vms, Tests

-----------------------------------------------------------------------------
(* Type correctness.                                                        *)

\* The control operators stay within the VMs and the tests.
LEMMA AdvanceTypes ==
  ASSUME TypeOK, NEW next, Advance(next)
  PROVE  k' \in Vms /\ test' \in Tests /\ pc' \in {pc, next}
BY Numbers DEF Advance, TypeOK, Vms

LEMMA NextTestTypes ==
  ASSUME TypeOK, NextTest
  PROVE  k' \in Vms /\ test' \in Tests /\ pc' \in {"reboot", "over"}
BY Numbers DEF NextTest, TypeOK, Tests

LEMMA TypeInit == Init => TypeOK
BY Numbers DEF Init, TypeOK, Setup, Teardown

\* Every action keeps the types.
LEMMA TypeStep == TypeOK /\ [Next]_vars => TypeOK'
<1> SUFFICES ASSUME TypeOK, [Next]_vars PROVE TypeOK'
  OBVIOUS
<1> USE AdvanceTypes, NextTestTypes DEF TypeOK, Setup, Teardown, Markers, files, jobs, notes
<1>1. CASE StartBackup  BY <1>1 DEF StartBackup
<1>2. CASE AwaitBackup  BY <1>2 DEF AwaitBackup
<1>3. CASE Reboot  BY <1>3 DEF Reboot
<1>4. CASE AwaitRestart  BY <1>4 DEF AwaitRestart
<1>5. CASE Launch  BY <1>5 DEF Launch
<1>6. CASE AwaitInstall  BY <1>6 DEF AwaitInstall
<1>7. CASE RunTest  BY <1>7, Numbers DEF RunTest
<1>8. CASE Restore  BY <1>8 DEF Restore
<1>9. CASE AwaitRestore  BY <1>9 DEF AwaitRestore
<1>10. CASE LoseConnection  BY <1>10 DEF LoseConnection
<1>11. ASSUME NEW v \in Vms, Machine(v) PROVE TypeOK'
  <2>1. CASE BackupEnds(v)  BY <2>1 DEF BackupEnds
  <2>2. CASE GoesDown(v)  BY <2>2 DEF GoesDown
  <2>7. CASE ComesUp(v)  BY <2>7 DEF ComesUp
  <2>3. ASSUME NEW t \in Tests, InstallSucceeds(v, t) PROVE TypeOK'
    BY <2>3 DEF InstallSucceeds
  <2>4. ASSUME NEW t \in Tests, InstallFails(v, t) PROVE TypeOK'
    BY <2>4 DEF InstallFails
  <2>5. ASSUME NEW t \in Tests, RestoreSucceeds(v, t) PROVE TypeOK'
    BY <2>5 DEF RestoreSucceeds
  <2>6. ASSUME NEW t \in Tests, RestoreFails(v, t) PROVE TypeOK'
    BY <2>6 DEF RestoreFails
  <2> QED  BY <1>11, <2>1, <2>2, <2>3, <2>4, <2>5, <2>6, <2>7
     DEF Machine
<1>12. CASE UNCHANGED vars  BY <1>12 DEF vars
<1> QED
  BY <1>1, <1>2, <1>3, <1>4, <1>5, <1>6, <1>7, <1>8, <1>9, <1>10, <1>11, <1>12
  DEF Next, TestProcess

\* The variables keep their types: no loop over the VMs runs past its end.
THEOREM TypeCorrect == Spec => []TypeOK
BY TypeInit, TypeStep, PTL DEF Spec

-----------------------------------------------------------------------------
(* Installations.                                                           *)

\* What is being installed was launched by this test, which is past its restarts,
\* or by one before it.
InstallsAreRecent ==
  \A v \in Vms : \A t \in installing[v] :
    t <= test /\ (pc \in {"backup", "awaitBackup", "reboot", "restart"} => t < test)

\* The number of the test only grows, and a launch is the test's own.
LEMMA InstallsStep ==
  ASSUME TypeOK, InstallsAreRecent, [Next]_vars PROVE InstallsAreRecent'
<1> USE Numbers DEF TypeOK, InstallsAreRecent, Setup, Teardown, files, jobs, notes,
        Advance, NextTest, Tests
<1>1. CASE StartBackup  BY <1>1 DEF StartBackup
<1>2. CASE AwaitBackup  BY <1>2 DEF AwaitBackup
<1>3. CASE Reboot  BY <1>3 DEF Reboot
<1>4. CASE AwaitRestart  BY <1>4 DEF AwaitRestart
<1>5. CASE Launch  BY <1>5 DEF Launch
<1>6. CASE AwaitInstall  BY <1>6 DEF AwaitInstall
<1>7. CASE RunTest  BY <1>7 DEF RunTest
<1>8. CASE Restore  BY <1>8 DEF Restore
<1>9. CASE AwaitRestore  BY <1>9 DEF AwaitRestore
<1>10. CASE LoseConnection  BY <1>10 DEF LoseConnection
<1>11. ASSUME NEW v \in Vms, Machine(v) PROVE InstallsAreRecent'
  <2>1. CASE BackupEnds(v)  BY <2>1 DEF BackupEnds
  <2>2. CASE GoesDown(v)  BY <2>2 DEF GoesDown
  <2>7. CASE ComesUp(v)  BY <2>7 DEF ComesUp
  <2>3. ASSUME NEW t \in Tests, InstallSucceeds(v, t) PROVE InstallsAreRecent'
    BY <2>3 DEF InstallSucceeds
  <2>4. ASSUME NEW t \in Tests, InstallFails(v, t) PROVE InstallsAreRecent'
    BY <2>4 DEF InstallFails
  <2>5. ASSUME NEW t \in Tests, RestoreSucceeds(v, t) PROVE InstallsAreRecent'
    BY <2>5 DEF RestoreSucceeds
  <2>6. ASSUME NEW t \in Tests, RestoreFails(v, t) PROVE InstallsAreRecent'
    BY <2>6 DEF RestoreFails
  <2> QED  BY <1>11, <2>1, <2>2, <2>3, <2>4, <2>5, <2>6, <2>7
     DEF Machine
<1>12. CASE UNCHANGED vars  BY <1>12 DEF vars
<1> QED
  BY <1>1, <1>2, <1>3, <1>4, <1>5, <1>6, <1>7, <1>8, <1>9, <1>10, <1>11, <1>12
  DEF Next, TestProcess

-----------------------------------------------------------------------------
(* Alarms.                                                                  *)

\* A marker of a failure is there because an installation has failed, of this test
\* or of one before it.
MarkersHaveCause ==
  \A v \in Vms : "failed" \in bsMarks[v] => \E u \in broken : u <= test

\* Markers and alarms appear after their causes, which are never forgotten.
LEMMA AlarmStep ==
  ASSUME TypeOK, InstallsAreRecent, MarkersHaveCause, AlarmHasCause, [Next]_vars PROVE (MarkersHaveCause /\ AlarmHasCause)'
<1> USE Numbers DEF TypeOK, InstallsAreRecent, MarkersHaveCause, AlarmHasCause, Setup,
        Teardown, files, jobs, notes, Advance, NextTest, Tests, Markers
<1>1. CASE StartBackup  BY <1>1 DEF StartBackup
<1>2. CASE AwaitBackup  BY <1>2 DEF AwaitBackup
<1>3. CASE Reboot  BY <1>3 DEF Reboot
<1>4. CASE AwaitRestart  BY <1>4 DEF AwaitRestart
<1>5. CASE Launch  BY <1>5 DEF Launch
<1>6. CASE AwaitInstall
  <2>1. \/ reported' = reported /\ test' = test
        \/ /\ reported' = reported \cup {test} /\ "failed" \in bsMarks[k]
           /\ test' \in Nat /\ test <= test'
    BY <1>6 DEF AwaitInstall
  <2>2. UNCHANGED <<bsMarks, broken>>  BY <1>6 DEF AwaitInstall
  <2>3. AlarmHasCause'  BY <2>1, <2>2
  <2>4. MarkersHaveCause'  BY <2>1, <2>2
  <2> QED  BY <2>3, <2>4
<1>7. CASE RunTest  BY <1>7 DEF RunTest
<1>8. CASE Restore  BY <1>8 DEF Restore
<1>9. CASE AwaitRestore  BY <1>9 DEF AwaitRestore
<1>10. CASE LoseConnection  BY <1>10 DEF LoseConnection
<1>11. ASSUME NEW v \in Vms, Machine(v) PROVE (MarkersHaveCause /\ AlarmHasCause)'
  <2>1. CASE BackupEnds(v)  BY <2>1 DEF BackupEnds
  <2>2. CASE GoesDown(v)  BY <2>2 DEF GoesDown
  <2>7. CASE ComesUp(v)  BY <2>7 DEF ComesUp
  <2>3. ASSUME NEW t \in Tests, InstallSucceeds(v, t) PROVE (MarkersHaveCause /\ AlarmHasCause)'
    BY <2>3 DEF InstallSucceeds
  <2>4. ASSUME NEW t \in Tests, InstallFails(v, t) PROVE (MarkersHaveCause /\ AlarmHasCause)'
    BY <2>4 DEF InstallFails
  <2>5. ASSUME NEW t \in Tests, RestoreSucceeds(v, t) PROVE (MarkersHaveCause /\ AlarmHasCause)'
    BY <2>5 DEF RestoreSucceeds
  <2>6. ASSUME NEW t \in Tests, RestoreFails(v, t) PROVE (MarkersHaveCause /\ AlarmHasCause)'
    BY <2>6 DEF RestoreFails
  <2> QED  BY <1>11, <2>1, <2>2, <2>3, <2>4, <2>5, <2>6, <2>7
     DEF Machine
<1>12. CASE UNCHANGED vars  BY <1>12 DEF vars
<1> QED
  BY <1>1, <1>2, <1>3, <1>4, <1>5, <1>6, <1>7, <1>8, <1>9, <1>10, <1>11, <1>12
  DEF Next, TestProcess

\* "BOOTSTRAP FAILED!" always has a cause, though it may be an earlier test's.
THEOREM AlarmsHaveCauses == Spec => []AlarmHasCause
<1> DEFINE IInv == TypeOK /\ InstallsAreRecent /\ MarkersHaveCause /\ AlarmHasCause
<1>1. Init => IInv
  BY TypeInit, Numbers DEF Init, InstallsAreRecent, MarkersHaveCause, AlarmHasCause
<1>2. IInv /\ [Next]_vars => IInv'
  BY TypeStep, InstallsStep, AlarmStep
<1>3. IInv => AlarmHasCause  OBVIOUS
<1> QED  BY <1>1, <1>2, <1>3, PTL DEF Spec

-----------------------------------------------------------------------------
(* A session in which nothing fails.                                        *)

\* For the VM v, the test process has not come to the installation of this test,
\* has launched it, or has launched the restore after it.
Unused(v)    == \/ pc \in {"backup", "awaitBackup", "reboot", "restart"}
                \/ pc = "launch" /\ k <= v
Installed(v) == (pc = "launch" /\ v < k) \/ pc \in {"awaitInstall", "test"}
Restored(v)  == (pc = "restore" /\ v < k) \/ pc = "awaitRestore"

\* A restore runs only while the test process is at the restores; its marker
\* tells the truth, and is gone before the next one is launched.
RestoresInOrder ==
  \A v \in Vms :
    /\ "failed" \notin rsMarks[v]
    /\ restoring[v] # {} => Restored(v) /\ "complete" \notin rsMarks[v]
    /\ restoring[v] \subseteq {test}
    /\ rsMarks[v] # {} =>
         \/ Restored(v) \/ pc = "over"
         \/ pc = "reboot" /\ k <= v /\ v \in rebootRequired
    /\ pc = "awaitRestore" /\ v < k =>
         "complete" \in rsMarks[v] /\ v \in rebootRequired

\* An installation runs only while the test process is at the installations; it
\* is the test's own and finds nothing from another, and its marker tells the
\* truth.
InstallsInOrder ==
  \A v \in Vms :
    /\ "failed" \notin bsMarks[v]
    /\ Unused(v) => dirt[v] = {}
    /\ Installed(v) => dirt[v] = {test}
    /\ Restored(v) /\ "complete" \in rsMarks[v] => dirt[v] = {}
    /\ installing[v] # {} => Installed(v) /\ "complete" \notin bsMarks[v]
    /\ installing[v] \subseteq {test}
    /\ pc = "awaitInstall" /\ v < k => installing[v] = {}
    /\ pc = "test" => installing[v] = {} /\ k = 1

\* Restoring a VM reverts its install_config.
ConfigsInOrder ==
  \A v \in changed : ~Unused(v) /\ ~Restored(v)

Orderly == ~faulted => RestoresInOrder /\ InstallsInOrder /\ ConfigsInOrder

\* What a calm session is: the hypothesis of the lemmas below.
Calm == ~faulted /\ RestoresInOrder /\ InstallsInOrder /\ ConfigsInOrder

\* The marker of an earlier restore is gone before the next one is launched.
LEMMA RestoresInOrderStep ==
  ASSUME TypeOK, Calm, [Next]_vars, ~faulted'
  PROVE  RestoresInOrder'
<1> USE Numbers DEF Calm, TypeOK, RestoresInOrder, InstallsInOrder, ConfigsInOrder, Unused,
        Installed, Restored, Setup, Teardown, Markers, files, jobs, notes, Advance,
        NextTest, Vms, Tests
<1>1. CASE StartBackup  BY <1>1 DEF StartBackup
<1>2. CASE AwaitBackup  BY <1>2 DEF AwaitBackup
<1>3. CASE Reboot  BY <1>3 DEF Reboot
<1>4. CASE AwaitRestart  BY <1>4 DEF AwaitRestart
<1>5. CASE Launch  BY <1>5 DEF Launch
<1>6. CASE AwaitInstall  BY <1>6 DEF AwaitInstall
<1>7. CASE RunTest  BY <1>7 DEF RunTest
<1>8. CASE Restore  BY <1>8 DEF Restore
<1>9. CASE AwaitRestore  BY <1>9 DEF AwaitRestore
<1>10. CASE LoseConnection  BY <1>10 DEF LoseConnection
<1>11. ASSUME NEW v \in Vms, Machine(v) PROVE RestoresInOrder'
  <2>1. CASE BackupEnds(v)  BY <2>1 DEF BackupEnds
  <2>2. CASE GoesDown(v)  BY <2>2 DEF GoesDown
  <2>7. CASE ComesUp(v)  BY <2>7 DEF ComesUp
  <2>3. ASSUME NEW t \in Tests, InstallSucceeds(v, t) PROVE RestoresInOrder'
    BY <2>3 DEF InstallSucceeds
  <2>4. ASSUME NEW t \in Tests, InstallFails(v, t) PROVE RestoresInOrder'
    BY <2>4 DEF InstallFails
  <2>5. ASSUME NEW t \in Tests, RestoreSucceeds(v, t) PROVE RestoresInOrder'
    BY <2>5 DEF RestoreSucceeds
  <2>6. ASSUME NEW t \in Tests, RestoreFails(v, t) PROVE RestoresInOrder'
    BY <2>6 DEF RestoreFails
  <2> QED  BY <1>11, <2>1, <2>2, <2>3, <2>4, <2>5, <2>6, <2>7
     DEF Machine
<1>12. CASE UNCHANGED vars  BY <1>12 DEF vars
<1> QED
  BY <1>1, <1>2, <1>3, <1>4, <1>5, <1>6, <1>7, <1>8, <1>9, <1>10, <1>11, <1>12
  DEF Next, TestProcess

\* An installation finds the VM restored.
LEMMA InstallsInOrderStep ==
  ASSUME TypeOK, Calm, [Next]_vars, ~faulted'
  PROVE  InstallsInOrder'
<1> USE Numbers DEF Calm, TypeOK, RestoresInOrder, InstallsInOrder, ConfigsInOrder, Unused,
        Installed, Restored, Setup, Teardown, Markers, files, jobs, notes, Advance,
        NextTest, Vms, Tests
<1>1. CASE StartBackup  BY <1>1 DEF StartBackup
<1>2. CASE AwaitBackup  BY <1>2 DEF AwaitBackup
<1>3. CASE Reboot  BY <1>3 DEF Reboot
<1>4. CASE AwaitRestart  BY <1>4 DEF AwaitRestart
<1>5. CASE Launch  BY <1>5 DEF Launch
<1>6. CASE AwaitInstall  BY <1>6 DEF AwaitInstall
<1>7. CASE RunTest  BY <1>7 DEF RunTest
<1>8. CASE Restore  BY <1>8 DEF Restore
<1>9. CASE AwaitRestore  BY <1>9 DEF AwaitRestore
<1>10. CASE LoseConnection  BY <1>10 DEF LoseConnection
<1>11. ASSUME NEW v \in Vms, Machine(v) PROVE InstallsInOrder'
  <2>1. CASE BackupEnds(v)  BY <2>1 DEF BackupEnds
  <2>2. CASE GoesDown(v)  BY <2>2 DEF GoesDown
  <2>7. CASE ComesUp(v)  BY <2>7 DEF ComesUp
  <2>3. ASSUME NEW t \in Tests, InstallSucceeds(v, t) PROVE InstallsInOrder'
    BY <2>3 DEF InstallSucceeds
  <2>4. ASSUME NEW t \in Tests, InstallFails(v, t) PROVE InstallsInOrder'
    BY <2>4 DEF InstallFails
  <2>5. ASSUME NEW t \in Tests, RestoreSucceeds(v, t) PROVE InstallsInOrder'
    BY <2>5 DEF RestoreSucceeds
  <2>6. ASSUME NEW t \in Tests, RestoreFails(v, t) PROVE InstallsInOrder'
    BY <2>6 DEF RestoreFails
  <2> QED  BY <1>11, <2>1, <2>2, <2>3, <2>4, <2>5, <2>6, <2>7
     DEF Machine
<1>12. CASE UNCHANGED vars  BY <1>12 DEF vars
<1> QED
  BY <1>1, <1>2, <1>3, <1>4, <1>5, <1>6, <1>7, <1>8, <1>9, <1>10, <1>11, <1>12
  DEF Next, TestProcess

\* A configuration is only changed by the launch, and reverted by the restore.
LEMMA ConfigsStep ==
  ASSUME TypeOK, Calm, [Next]_vars, ~faulted'
  PROVE  ConfigsInOrder'
<1> USE Numbers DEF Calm, TypeOK, RestoresInOrder, InstallsInOrder, ConfigsInOrder, Unused,
        Installed, Restored, Setup, Teardown, Markers, files, jobs, notes, Advance,
        NextTest, Vms, Tests
<1>1. CASE StartBackup  BY <1>1 DEF StartBackup
<1>2. CASE AwaitBackup  BY <1>2 DEF AwaitBackup
<1>3. CASE Reboot  BY <1>3 DEF Reboot
<1>4. CASE AwaitRestart  BY <1>4 DEF AwaitRestart
<1>5. CASE Launch  BY <1>5 DEF Launch
<1>6. CASE AwaitInstall  BY <1>6 DEF AwaitInstall
<1>7. CASE RunTest  BY <1>7 DEF RunTest
<1>8. CASE Restore  BY <1>8 DEF Restore
<1>9. CASE AwaitRestore  BY <1>9 DEF AwaitRestore
<1>10. CASE LoseConnection  BY <1>10 DEF LoseConnection
<1>11. ASSUME NEW v \in Vms, Machine(v) PROVE ConfigsInOrder'
  <2>1. CASE BackupEnds(v)  BY <2>1 DEF BackupEnds
  <2>2. CASE GoesDown(v)  BY <2>2 DEF GoesDown
  <2>7. CASE ComesUp(v)  BY <2>7 DEF ComesUp
  <2>3. ASSUME NEW t \in Tests, InstallSucceeds(v, t) PROVE ConfigsInOrder'
    BY <2>3 DEF InstallSucceeds
  <2>4. ASSUME NEW t \in Tests, InstallFails(v, t) PROVE ConfigsInOrder'
    BY <2>4 DEF InstallFails
  <2>5. ASSUME NEW t \in Tests, RestoreSucceeds(v, t) PROVE ConfigsInOrder'
    BY <2>5 DEF RestoreSucceeds
  <2>6. ASSUME NEW t \in Tests, RestoreFails(v, t) PROVE ConfigsInOrder'
    BY <2>6 DEF RestoreFails
  <2> QED  BY <1>11, <2>1, <2>2, <2>3, <2>4, <2>5, <2>6, <2>7
     DEF Machine
<1>12. CASE UNCHANGED vars  BY <1>12 DEF vars
<1> QED
  BY <1>1, <1>2, <1>3, <1>4, <1>5, <1>6, <1>7, <1>8, <1>9, <1>10, <1>11, <1>12
  DEF Next, TestProcess

\* What has failed is not forgotten.
LEMMA FaultsStay == ASSUME faulted, [Next]_vars PROVE faulted'
BY DEF Next, TestProcess, Machine, vars, StartBackup, AwaitBackup, Reboot, AwaitRestart,
   Launch, AwaitInstall, RunTest, Restore, AwaitRestore, LoseConnection, BackupEnds,
   GoesDown, ComesUp, InstallSucceeds, InstallFails, RestoreSucceeds, RestoreFails

\* The session is orderly until something fails, also where a VM goes down only
\* after the test process has stopped waiting for it.
LEMMA OrderlyInvariant == Spec => [](TypeOK /\ Orderly)
<1>1. Init => Orderly
  BY Numbers DEF Init, Orderly, RestoresInOrder, InstallsInOrder, ConfigsInOrder, Unused,
     Installed, Restored
<1>2. TypeOK /\ Orderly /\ [Next]_vars => Orderly'
  BY FaultsStay, RestoresInOrderStep, InstallsInOrderStep, ConfigsStep DEF Orderly, Calm
<1> QED  BY <1>1, <1>2, TypeInit, TypeStep, PTL DEF Spec

\* In a session of any length on any number of VMs, a test finds on its VMs its
\* own installation and nothing of the tests before it, as long as nothing failed.
THEOREM TestsStartClean == Spec => []CleanStart
<1>1. TypeOK /\ Orderly => CleanStart
  BY DEF Orderly, CleanStart, InstallsInOrder, Installed
<1> QED  BY <1>1, OrderlyInvariant, PTL

\* As long as nothing failed, no restore is still copying when a VM is prepared or
\* tested, and every configuration is reverted before the next installation.
THEOREM RestoredBeforeUse == Spec => []RestoredForUse
<1>1. TypeOK /\ Orderly => RestoredForUse
  <2> SUFFICES ASSUME TypeOK, RestoresInOrder, ConfigsInOrder
               PROVE  RestoreWaitedFor /\ ConfigReverted
    BY DEF Orderly, RestoredForUse
  <2>1. RestoreWaitedFor
    BY DEF RestoreWaitedFor, RestoresInOrder, Restored, Setup, TypeOK
  <2>2. ConfigReverted
    BY DEF ConfigReverted, ConfigsInOrder, Unused, TypeOK, Vms
  <2> QED  BY <2>1, <2>2
<1> QED  BY <1>1, OrderlyInvariant, PTL
=============================================================================
