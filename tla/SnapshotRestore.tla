--------------------------- MODULE SnapshotRestore ---------------------------
(***************************************************************************)
(* Snapshots as the suites use them: taken on one manager, carried over and *)
(* restored on another ("migrate": test after test for each old version, on *)
(* a manager that is empty and is reinstalled in between), or taken on one  *)
(* manager of a cluster and restored on its neighbour ("cluster").  The     *)
(* restore replaces the manager's passwords and restarts its REST service   *)
(* while the test waits for it through that service.                        *)
(***************************************************************************)
EXTENDS Integers, FiniteSets

CONSTANTS
  Rounds,       \* the old versions a migration goes through
  MaxLooks,     \* looks of a retried check (20 for the creation, 10 or 36)
  MaxAttempts,  \* waits for one restore (60)
  MaxCalls,     \* calls of restore_snapshot by its retry decorator (15)
  Faults        \* what may go wrong, of "create", "restore", "missing" (the
                \* restore fails on a missing file), "loss" (part of the
                \* snapshot is not restored) and "call"

ASSUME SnapshotAssumption ==
  /\ {Rounds, MaxLooks, MaxAttempts, MaxCalls} \subseteq Nat \ {0}
  /\ Faults \subseteq {"create", "restore", "missing", "loss", "call"}

Parts == {"resources", "users", "environments"}

VARIABLES
  \* the test
  mode,      \* "migrate" or "cluster"
  round,
  pc,        \* its next statement
  looks,     \* looks made in the retried check under way
  call,      \* calls of restore_snapshot made by the decorator
  attempt,   \* waits made in this call
  reset,     \* password_reset
  client,    \* the password of manager.client, "plain" if it lacks TLS
  cli,       \* the password in the manager's CLI profile
  \* the managers
  snapshot,  \* its state on the manager it is taken on
  arrived,   \* its archive is on the manager that restores it
  exec,      \* the restore execution
  post,      \* the restore's own follow-up is still to be done
  pw,        \* the admin password of the restoring manager
  rest,      \* its REST service: "up", "down", or "guarded" by a new security
             \* configuration that it has read half
  have,      \* the parts it has
  \* history
  faulted,   \* something has failed
  late       \* a bounded number of looks or attempts was not enough

test    == <<mode, round>>
retries == <<looks, call, attempt, reset>>
access  == <<client, cli>>
archive == <<snapshot, arrived>>
manager == <<exec, post, pw, rest, have>>
history == <<faulted, late>>
vars == <<test, pc, retries, access, archive, manager, history>>

\* admin_password, the password of the manager the snapshot is of.
SnapshotPassword == IF mode = "cluster" THEN "own" ELSE "snapshot"

\* A call through manager.client is answered.
Answered == rest = "up" /\ client = pw

Init ==
  /\ mode \in {"migrate", "cluster"} /\ round = 1
  /\ pc = IF mode = "migrate" THEN "empty" ELSE "create"
  /\ looks = 0 /\ call = 1 /\ attempt = 0 /\ reset = FALSE
  /\ client = "own" /\ cli = "own"
  /\ snapshot = "none" /\ arrived = FALSE
  /\ exec = "none" /\ post = FALSE /\ pw = "own" /\ rest = "up"
  /\ have = IF mode = "migrate" THEN {} ELSE Parts
  /\ faulted = FALSE /\ late = FALSE

-----------------------------------------------------------------------------
(* Helpers.                                                                 *)

Goto(next) == pc' = next /\ UNCHANGED <<retries, history>>

\* An exception that nothing catches.
Raise == Goto("failed")

\* A check under retrying.retry: `ok' ends it, anything else is looked at again
\* until the looks are used up.
Look(ok, next) ==
  /\ IF ok THEN pc' = next /\ looks' = 0 /\ UNCHANGED late
     ELSE IF looks + 1 < MaxLooks
          THEN looks' = looks + 1 /\ UNCHANGED <<pc, late>>
          ELSE pc' = "failed" /\ late' = TRUE /\ UNCHANGED looks
  /\ UNCHANGED <<call, attempt, reset, faulted>>

\* A faulty variant of the next definition: retried on whatever was raised.
RetryAlways(text, isLate) ==
  IF call < MaxCalls
  THEN pc' = "restore" /\ call' = call + 1 /\ UNCHANGED late
  ELSE UNCHANGED call /\ pc' = "failed" /\ late' = (late \/ isLate)

\* What restore_snapshot raises is retried by its decorator if the text of it
\* mentions a missing file.
RaiseOrRetry(text, isLate) ==
  IF text = "missing" /\ call < MaxCalls
  THEN pc' = "restore" /\ call' = call + 1 /\ UNCHANGED late
  ELSE UNCHANGED call /\ pc' = "failed" /\ late' = (late \/ isLate \/ text = "missing")

-----------------------------------------------------------------------------
(* Faulty variants of the actions below.                                    *)

\* A client given the password and a CLI profile that is not.
ResetClientOnly ==
  /\ pc = "refused"
  /\ IF reset THEN UNCHANGED client ELSE client' = SnapshotPassword
  /\ UNCHANGED cli
  /\ reset' = TRUE /\ attempt' = attempt + 1
  /\ pc' = "wait"
  /\ UNCHANGED <<test, looks, call, archive, manager, history>>

\* A refusal that does not count as an attempt.
RefusedUncounted ==
  /\ pc = "refused"
  /\ client' = SnapshotPassword /\ cli' = SnapshotPassword
  /\ reset' = TRUE
  /\ pc' = "wait"
  /\ UNCHANGED <<test, looks, call, attempt, archive, manager, history>>

\* A test that does not wait for the follow-up.
DontWaitForRestore ==
  /\ pc = "settled"
  /\ Goto("services")
  /\ UNCHANGED <<test, access, archive, manager>>

\* A snapshot whose existence is enough.
SeeSnapshot ==
  /\ pc = "created"
  /\ Look(snapshot # "none", IF mode = "migrate" THEN "carry" ELSE "restore")
  /\ UNCHANGED <<test, access, archive, manager>>

\* Secrets and plugins that are counted, not compared.
SkipState ==
  /\ pc = "state"
  /\ Goto("environments")
  /\ UNCHANGED <<test, access, archive, manager>>

\* A next round on the manager as it is.
NextRoundAsIs ==
  /\ pc = "next" /\ round < Rounds
  /\ round' = round + 1 /\ pc' = "create"
  /\ call' = 1 /\ attempt' = 0 /\ reset' = FALSE
  /\ snapshot' = "none" /\ arrived' = FALSE
  /\ UNCHANGED <<mode, looks, access, manager, history>>

-----------------------------------------------------------------------------
(* The snapshot is taken and carried over.                                  *)

\* confirm_manager_empty: only the default tenant, with nothing in it.
ConfirmEmpty ==
  /\ pc = "empty"
  /\ IF Answered /\ have = {} THEN Goto("create") ELSE Raise
  /\ UNCHANGED <<test, access, archive, manager>>

\* create_snapshot; get_manager_state has listed what the manager has.
CreateSnapshot ==
  /\ pc = "create"
  /\ snapshot' = "creating"
  /\ Goto("created")
  /\ UNCHANGED <<test, access, arrived, manager>>

\* assert_snapshot_created: it is listed, as created.
AssertCreated ==
  /\ pc = "created"
  /\ Look(snapshot = "created", IF mode = "migrate" THEN "carry" ELSE "restore")
  /\ UNCHANGED <<test, access, archive, manager>>

\* download_snapshot and upload_snapshot; the manager has nothing to give while
\* the snapshot is being written.  (In a cluster the archive comes by syncthing.)
Carry ==
  /\ pc = "carry"
  /\ IF snapshot = "created" /\ Answered
     THEN arrived' = TRUE /\ Goto("restore") ELSE UNCHANGED arrived /\ Raise
  /\ UNCHANGED <<test, access, snapshot, manager>>

-----------------------------------------------------------------------------
(* restore_snapshot.                                                        *)

\* The snapshots are listed and the restore is started.  A manager that is not
\* empty takes it only by force, which the cluster suites use.
StartRestore ==
  /\ pc = "restore" /\ Answered /\ arrived /\ (have = {} \/ mode = "cluster")
  /\ attempt' = 0 /\ reset' = FALSE
  /\ exec' = "running" /\ post' = TRUE /\ pc' = "wait"
  /\ UNCHANGED <<test, looks, call, access, archive, pw, rest, have, history>>

\* It is refused, or its file is not there yet.
RestoreRefused ==
  /\ pc = "restore" /\ ~(Answered /\ arrived /\ (have = {} \/ mode = "cluster"))
  /\ RaiseOrRetry(IF Answered /\ ~arrived THEN "missing" ELSE "refused", FALSE)
  /\ UNCHANGED <<test, looks, attempt, reset, access, archive, manager, faulted>>

\* One attempt: wait_for_execution, retrying client errors itself, ends with the
\* execution.
WaitEnds ==
  /\ pc = "wait" /\ attempt < MaxAttempts /\ Answered
  /\ CASE exec = "terminated" -> pc' = "settled" /\ UNCHANGED <<call, late>>
       [] exec = "failed"     -> RaiseOrRetry("failed", FALSE)
       [] exec = "missing"    -> RaiseOrRetry("missing", FALSE)
       [] OTHER -> FALSE
  /\ UNCHANGED <<test, looks, attempt, reset, access, archive, manager, faulted>>

\* Or with UserUnauthorizedError, for the password or the half-read
\* configuration, whatever the execution does.
WaitRefused ==
  /\ pc = "wait" /\ attempt < MaxAttempts
  /\ rest # "down" /\ client # "plain"
  /\ rest = "guarded" \/ client # pw
  /\ Goto("refused")
  /\ UNCHANGED <<test, access, archive, manager>>

\* The first refusal makes the CLI and a new client use the snapshot's password.
\* get_rest_client asks the service whether it wants TLS; a service that is down
\* does not say so, and the client speaks plain HTTP from then on.  (The client is
\* made twice; the second replaces the first before that has been used, so that
\* what the service is at the second time decides.)
Refused ==
  /\ pc = "refused"
  /\ IF reset THEN UNCHANGED access
     ELSE /\ client' = IF rest = "down" THEN "plain" ELSE SnapshotPassword
          /\ cli' = SnapshotPassword
  /\ reset' = TRUE /\ attempt' = attempt + 1
  /\ pc' = "wait"
  /\ UNCHANGED <<test, looks, call, archive, manager, history>>

\* Or with another client error, where it does not retry those.
WaitError ==
  /\ pc = "wait" /\ attempt < MaxAttempts /\ (rest = "down" \/ client = "plain")
  /\ attempt' = attempt + 1
  /\ UNCHANGED <<test, pc, looks, call, reset, access, archive, manager, history>>

\* Or with ExecutionTimeout, which is not among what is caught.
WaitTimeout ==
  /\ pc = "wait" /\ attempt < MaxAttempts
  /\ RaiseOrRetry("timeout", TRUE)
  /\ UNCHANGED <<test, looks, attempt, reset, access, archive, manager, faulted>>

\* "Snapshot restore did not succeed in time."
OutOfAttempts ==
  /\ pc = "wait" /\ attempt = MaxAttempts
  /\ RaiseOrRetry("in time", TRUE)
  /\ UNCHANGED <<test, looks, attempt, reset, access, archive, manager, faulted>>

-----------------------------------------------------------------------------
(* After the restore.                                                       *)

\* wait_for_restore looks at the restore status until it is NOT_RUNNING.  The
\* cluster suites sleep instead.
WaitForRestore ==
  /\ pc = "settled"
  /\ IF mode = "migrate" THEN Look(Answered /\ ~post, "services") ELSE Goto("passed")
  /\ UNCHANGED <<test, access, archive, manager>>

\* verify_services_status: a look fails if a service is inactive and lists its
\* units (an inactive one that lists none passes).
VerifyServices ==
  /\ pc = "services"
  /\ \E inactive \in BOOLEAN : Look(Answered /\ ~inactive, "credentials")
  /\ UNCHANGED <<test, access, archive, manager>>

\* check_credentials: the user of the old manager can log in.
CheckCredentials ==
  /\ pc = "credentials"
  /\ IF rest = "up" /\ "users" \in have THEN Goto("state") ELSE Raise
  /\ UNCHANGED <<test, access, archive, manager>>

\* get_manager_state, tenant by tenant, is what it was.
CheckState ==
  /\ pc = "state"
  /\ IF Answered /\ "resources" \in have THEN Goto("environments") ELSE Raise
  /\ UNCHANGED <<test, access, archive, manager>>

\* check_deployments looks for the directory of each deployment.
CheckDeployments ==
  /\ pc = "environments"
  /\ IF "environments" \in have THEN Goto("agents") ELSE Raise
  /\ UNCHANGED <<test, access, archive, manager>>

\* upgrade_agents runs the manager's CLI; stop_manager ends the old manager.
UpgradeAgents ==
  /\ pc = "agents"
  /\ IF rest = "up" /\ cli = pw THEN Goto("next") ELSE Raise
  /\ UNCHANGED <<test, access, archive, manager>>

\* The new manager is torn down and bootstrapped for the next version, which
\* makes a new client; after the last one the test is over.
NextRound ==
  /\ pc = "next"
  /\ IF round < Rounds
     THEN /\ round' = round + 1 /\ pc' = "empty"
          /\ call' = 1 /\ attempt' = 0 /\ reset' = FALSE
          /\ client' = "own" /\ cli' = "own"
          /\ snapshot' = "none" /\ arrived' = FALSE
          /\ exec' = "none" /\ post' = FALSE /\ pw' = "own" /\ have' = {}
     ELSE /\ pc' = "passed"
          /\ UNCHANGED <<round, call, attempt, reset, access, archive, exec, post, pw, have>>
  /\ UNCHANGED <<mode, looks, rest, history>>

\* A call of the test fails for a reason of its own.
CallFails ==
  /\ pc \notin {"passed", "failed"} /\ "call" \in Faults
  /\ pc' = "failed" /\ faulted' = TRUE
  /\ UNCHANGED <<test, retries, access, archive, manager, late>>

Test ==
  \/ ConfirmEmpty \/ CreateSnapshot \/ AssertCreated \/ Carry
  \/ StartRestore \/ RestoreRefused
  \/ WaitEnds \/ WaitRefused \/ Refused \/ WaitError \/ WaitTimeout \/ OutOfAttempts
  \/ WaitForRestore \/ VerifyServices \/ CheckCredentials \/ CheckState
  \/ CheckDeployments \/ UpgradeAgents \/ NextRound \/ CallFails

-----------------------------------------------------------------------------
(* The managers.                                                            *)

SnapshotWritten ==
  /\ snapshot = "creating"
  /\ \/ snapshot' = "created" /\ UNCHANGED faulted
     \/ "create" \in Faults /\ snapshot' = "failed" /\ faulted' = TRUE
  /\ UNCHANGED <<test, pc, retries, access, arrived, manager, late>>

Synced ==
  /\ mode = "cluster" /\ snapshot = "created" /\ ~arrived
  /\ arrived' = TRUE
  /\ UNCHANGED <<test, pc, retries, access, snapshot, manager, history>>

\* The restore brings the users, and with them the password.
RestoreUsers ==
  /\ exec = "running" /\ rest = "up"
  /\ have' = have \cup {"users"} /\ pw' = SnapshotPassword
  /\ UNCHANGED <<test, pc, retries, access, archive, exec, post, rest, history>>

\* The REST service restarts, or reads its configuration, while a restore and
\* its follow-up run, and is back in the end.
RestChanges ==
  /\ IF rest = "up" THEN post /\ rest' \in {"down", "guarded"} ELSE rest' = "up"
  /\ UNCHANGED <<test, pc, retries, access, archive, exec, post, pw, have, history>>

\* The restore ends, with everything restored unless there is a fault.
RestoreEnds ==
  /\ exec = "running"
  /\ \/ /\ exec' = "terminated" /\ "users" \in have
        /\ have' = have \cup {"resources"}
        /\ UNCHANGED <<post, pw, faulted>>
     \/ /\ "loss" \in Faults /\ faulted' = TRUE
        /\ exec' = "terminated" /\ pw' = SnapshotPassword
        /\ have' \in {have, have \cup {"resources"}, have \ {"users"}}
        /\ UNCHANGED post
     \/ /\ exec' \in {IF f = "restore" THEN "failed" ELSE f :
                        f \in Faults \cap {"restore", "missing"}}
        /\ faulted' = TRUE /\ post' = FALSE
        /\ UNCHANGED <<have, pw>>
  /\ UNCHANGED <<test, pc, retries, access, archive, rest, late>>

\* The follow-up makes the environments of the deployments again.
FollowUp ==
  /\ exec = "terminated" /\ post /\ rest = "up"
  /\ post' = FALSE
  /\ \/ have' = have \cup {"environments"} /\ UNCHANGED faulted
     \/ "loss" \in Faults /\ UNCHANGED have /\ faulted' = TRUE
  /\ UNCHANGED <<test, pc, retries, access, archive, exec, pw, rest, late>>

Managers == SnapshotWritten \/ Synced \/ RestoreUsers \/ RestChanges \/ RestoreEnds
            \/ FollowUp

Next == Test \/ Managers

Spec == Init /\ [][Next]_vars

\* The test is scheduled; that a wait ends is the Termination of ExecutionWait.
FairSpec == Spec /\ WF_vars(Test)

-----------------------------------------------------------------------------
(* Properties.                                                              *)

\* The variables have their types (retry counters of the snapshot helpers).
TypeOK ==
  /\ mode \in {"migrate", "cluster"} /\ round \in 1..Rounds
  /\ pc \in {"empty", "create", "created", "carry", "restore", "wait", "refused",
             "settled", "services", "credentials", "state", "environments",
             "agents", "next", "passed", "failed"}
  /\ looks \in 0..(MaxLooks - 1) /\ call \in 1..MaxCalls
  /\ attempt \in 0..MaxAttempts /\ reset \in BOOLEAN
  /\ client \in {"own", "snapshot", "plain"} /\ cli \in {"own", "snapshot"}
  /\ snapshot \in {"none", "creating", "created", "failed"} /\ arrived \in BOOLEAN
  /\ exec \in {"none", "running", "terminated", "failed", "missing"}
  /\ post \in BOOLEAN /\ pw \in {"own", "snapshot"}
  /\ rest \in {"up", "down", "guarded"} /\ have \subseteq Parts
  /\ faulted \in BOOLEAN /\ late \in BOOLEAN

Restored == {"agents", "next", "passed"}

\* A migration whose checks are over has lost nothing: whatever the restore and
\* its follow-up leave out, one of the test's checks notices.
NothingLost == mode = "migrate" /\ pc \in Restored => have = Parts /\ ~post

\* The client and the CLI that the rest of the test uses fit the manager that
\* came out of the restore, whichever refusals the test has seen on the way.
AccessFits ==
  pc \in Restored \cup {"settled", "services", "credentials", "state", "environments"}
    => client = pw /\ cli = pw

\* As long as nothing goes wrong, and no look or attempt was one too few, no test
\* fails: it is not overtaken by the snapshot's writing, by the follow-up of the
\* restore, or by what the round before left.
NoFalseFailure == pc = "failed" => faulted \/ late

\* A restore is not started on top of one that is running or has succeeded,
\* whatever restore_snapshot is retried for.
NeverOnTop ==
  [][pc = "restore" /\ exec' = "running" => exec \in {"none", "missing"}]_vars

\* The test ends, whatever the managers do.
Ends == <>(pc \in {"passed", "failed"})
=============================================================================
