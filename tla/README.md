# Verification of cloudify-system-tests

TLA+ specifications of the parts of this repository whose behaviour depends on
order, failure or concurrency: how a cluster is bootstrapped, how test hosts
are created and torn down on the infrastructure manager, how the VMs of a
session are reused from one test to the next, how the tests wait for workflows,
what they do with examples, snapshots and the status of a cluster, and how their
configuration is put together and checked. TLC checks the specifications on
small instances; TLAPS proves the main results for every instance.

## 1. The system

The repository drives real machines. One pytest process is the only active
program of the repository itself; what runs beside it is on the other side of
an SSH connection or of a REST call: background shells on test VMs, the VMs
restarting, executions on the infrastructure manager. The process learns of
them by polling, and every poll, call and connection may fail. That is where
the difficulty is, and what the models are about.

| Component | State | Operations | Interacts with |
|---|---|---|---|
| Cluster bootstrap (`test_suites/cluster/conftest.py`) | `friendly_name` and `install_config` of each node, `skip_bootstrap_list` | `run_cluster_bootstrap`, `_bootstrap_rabbit_node`, `_bootstrap_db_node`, `_bootstrap_manager_node` | VM access |
| VM access (`framework/test_hosts.py`, class `VM`) | SSH connection, `reboot_required`, `install_config`; on the VM: markers, script and configuration in `/tmp` | `bootstrap`, `bootstrap_is_complete`, `rsync_backup`, `rsync_restore`, `async_command_is_complete`, `wait_for_ssh` | the machines, over SSH |
| Test hosts (class `Hosts`) | `tenant`, `blueprints`, `deployments`, `_test_vm_installs`, `_test_vm_uninstalls`, the tenant header of the client | `create`, `destroy` and their steps | infrastructure manager, over REST |
| Session fixtures (`conftest.py`, suites' `conftest.py`) | `session.testspassed`, the VMs of the session | fixtures of session, module and function scope | `Hosts`, `VM`, `util` |
| Waiting (`framework/util.py`) | the client's tenant header | `wait_for_execution`, `run_blocking_execution`, `create_deployment`, `delete_deployment`, `set_client_tenant`, retried checks | any manager |
| Examples (`framework/examples.py`, `deployment_update.py`) | `installed`, `inputs`, the deployment on the manager, files on the VM | upload, create, install, check, update, uninstall | waiting, `VM` |
| Snapshots (`test_suites/snapshots`) | snapshot on a manager, the client's password | create, download, upload, restore with retries | waiting |
| Configuration (`framework/config.py`, `config_schemas/`) | merged schema, raw configuration | schema merge, defaults, validation | all |
| AWS cleanup (`aws_cleanup`) | resources grouped by test | list, filter by age, delete in dependency order | AWS |
| Cluster status and failover (`cluster_status_shared.py`, `full_failover_test.py`) | which services a test has stopped, the broker an agent uses | stop, ask until the managers have noticed, start, fail over | product |
| CLI suites (`test_suites/cli`) | profile, secret, blueprint, example | install and teardown flows, log bundles | product's CLI |
| Other suites (auth, summary, scaling, service composition, bootstrap, general, multi-network, agent, management of brokers and databases) | little of their own | linear scripts against a manager | fixtures |
| Plugins, blueprints, packaging | none | payload, declarative | product |

How they interact: a fixture makes `Hosts`, `create` calls the infrastructure
manager until VMs exist and boots them; the fixture (or `bootstrap`) installs
the product with background scripts and marker files; after the test
`rsync_restore` brings session VMs back to their backup, and `destroy` removes
everything.

### What is hard, and the properties that answer it

`PROJECT.json` lists the hazards line by line. In short:

* **Background jobs that report through files.** A marker is per machine and
  per file name, not per job: an old or a foreign marker is as good as the
  right one. (`StartupSpec`, `BackendsUpBeforeManagers`, `AlarmHasCause`,
  `RestoredForUse`.)
* **Parallel installations with dependencies.** (`StartupSpec`,
  `ManagersKnowTheDbs`.)
* **Partial failure of a long sequence of remote calls**, each of which may
  have taken effect when it is reported failed. (`ResourcesAreTracked`,
  `CleanReturn`.)
* **Teardown order and teardown twice.** (`InfrastructureOutlivesVms`,
  `OneExecutionAtATime`, `CleanIsFinal`, `StraysOnlyWhenGone`.) A verdict on the
  wrong test decides it. (`TeardownAsConfigured`.)
* **Fixtures whose second half is skipped, or reached by a failure.**
  (`RestoredForUse`, `CleanStart`, `CleanedUp`.)
* **Polls without a limit, and restarts that kill what they wait for.**
  (`Termination`, `AllTestsRun`, `Ends`.)
* **Clocks, windows and timeouts of a wait.** (`EventsShown`, `TimeoutIsFresh`,
  `Implements`.)
* **A service that restarts, and changes its password, under the test that asks
  it.** (`NeverOnTop`, `AccessFits`, `NothingLost`.)
* **Tests that share a manager.** (`NothingRemains`, `CleanedUp`,
  `NoFalseFailure` of `ExampleLifecycle`.)
* **Answers from a cache.** (`DefectsAreFound`, `OneThingAtATime`.)
* **Files merged in any order, checked once and read for hours.**
  (`MergedWhole`, `TestsFindTheirSettings`, `SameVerdict`, `SampleIsEnough`.)

## 2. The modules

| Module | Role |
|---|---|
| `ClusterStartup` | abstract: a component starts after those it requires, success means all are up |
| `ClusterBootstrap` | `run_cluster_bootstrap` and the `VM.bootstrap` protocol; implements `ClusterStartup` |
| `ClusterBootstrap_proofs` | its theorems |
| `MCClusterBootstrap` | instances: a full and a compact cluster |
| `HostsLifecycle` | `Hosts.create` and `Hosts.destroy` against the infrastructure manager |
| `HostsLifecycle_proofs` | its theorems |
| `MCHostsLifecycle` | the numbers of earlier passed tests for the runs |
| `VmReuse` | backup, reboot, bootstrap, test, restore over the tests of a session |
| `VmReuse_proofs` | its theorems |
| `BlockingWait` | abstract: a wait whose answer agrees with the execution and which hands the client back |
| `ExecutionWait` | `wait_for_execution`, `run_blocking_execution`; implements `BlockingWait` |
| `ExecutionWait_proofs` | its theorems |
| `SnapshotRestore` | a snapshot taken, carried over, restored and checked |
| `SnapshotRestore_proofs` | its theorems |
| `ExampleLifecycle` | example deployments of several tests on one manager: REST, update, CLI, log bundle |
| `ExampleLifecycle_proofs` | its theorems |
| `ConfigSchema` | schema files, `test_config.yaml`, `test-config` and the settings a session reads |
| `ConfigSchema_proofs` | its theorems |
| `ClusterStatus` | services stopped under the eyes of the managers; brokers failed over under an agent |
| `ClusterStatus_proofs` | its theorems |

How they fit together: `HostsLifecycle` and `ExampleLifecycle` take from
`ExecutionWait` that a wait ends with the execution, at its timeout or with an
error, and that the client is handed back; `SnapshotRestore` takes its end. The
waits of `HostsLifecycle` for bootstraps are those of `ClusterBootstrap`, the
installation of `VmReuse` is one of its units. `BlockingWait` and
`ClusterStartup` are what the callers rely on, shown to be implemented.

Each module that is checked also contains a section of *faulty variants*:
definitions that differ from the real ones as a plausible bug would. The
`mutants` of `PROJECT.json` say which property notices which variant; they are
not part of any specification.

### 2.1 ClusterBootstrap

A *unit* is a component (rabbit1.., db1.., manager1..), numbered in the order
of the three loops of `run_cluster_bootstrap`; it stands for the
`friendly_name` the code gives. `NodeOf` is the machine it goes to: with one
component per machine `NodeOf` is injective (`SeparateMachines`), on a compact
cluster it is not.

* `step`, `unit`: where the test process is. `prep` is `_bootstrap_*_node` up
  to the call of `bootstrap`; `clear`, `conf`, `script`, `launch` are the
  commands of `VM.bootstrap` that touch the machine, each a separate SSH
  round trip and hence a separate action; `poll` is the blocking loop of
  `bootstrap`; `await` the loop over `brokers + dbs`. A look that finds
  neither marker changes nothing and is not an action.
* `complete`, `failed`, `conf`, `script`: `/tmp/bootstrap_complete`,
  `/tmp/bootstrap_failed`, `/tmp/cloudify.conf`, `/tmp/bootstrap_script` per
  machine. The initial markers are any subset of `StaleComplete` and
  `StaleFailed`.
* `job`: the background shell of each unit. It opens the script that is there
  when it comes to run (`ReadScript`), moves the configuration away
  (`MoveConfig`), installs what that says (`InstallSucceeds`,
  `InstallFails`), and touches a marker. `up` and `broken` are ghosts: what
  has really been installed or failed.
* `LoseConnection`: any command raises once its retries are used up.

Abstracted: certificates, passwords, monitoring and security settings (data
that no property tells apart); finalising a node after its bootstrap.

### 2.2 HostsLifecycle

The infrastructure manager is `tenant`, `bps`, `deps`, `exec` (the latest
execution of each workflow of each deployment) and the ghost `live` (the
deployments that may hold cloud resources); the records of `Hosts` are
`selfTenant`, `header`, `blueprints`, `deployments`, `uninstalls`. `pc` and `k`
give the statement and the loop index. Each call of `create` succeeds, or
raises with or without having taken effect (`LostAnswers`); with
`DestroyMayFail` so do those of `destroy`. A failed call in `create` runs
`destroy` (`CreateRaises`), and a fixture with a finally clause runs it again
(`TryFinally`). `Verdicts` are the ways in which callers tell `destroy` how the
test went: the session's count of passed tests when it is called without an
argument, a flag that a fixture clears in an `except`, or a test that calls it
itself and knows.

Executions end on the manager at any time, in any way (`InstallEnds`,
`UninstallEnds`, `KillEnds`), so a wait that gives up leaves them under way.
Abstracted: the kill-cancel loop sends its calls in one step, because cancelling
sets a status whatever it was before; a call that fails part way leaves any subset
cancelled. So is the loop that deletes the plugins (`DeletePlugins`), of which
nothing but the tenant's end depends, and which may raise. The secrets and the
check for the plugin in `create` (`Prepare`) and the booting of VMs (`Boot`) are one
step each that succeeds or raises; the loops of `Boot` that wait for the bootstrap
of each manager are those of `ClusterBootstrap`.
The manager refuses workflows and deletions of deployments it does not know,
and deletions of blueprints in use.

### 2.3 VmReuse

The session fixture takes a backup; then for each test: `Reboot` and
`AwaitRestart` (the two loops of `reboot_if_required`), `Launch` and
`AwaitInstall` (`bootstrap`, in detail in `ClusterBootstrap`), `RunTest`,
`Restore` and `AwaitRestore` (the two loops of `rsync_restore`). Machines have
markers in `/tmp`, running installations and restores, a backup, and `dirt`:
the tests that have left files in the restored locations.

A restart has the phases of a real one. `Reboot` empties `/tmp`, stops sshd and
tells the VM to shut down (`rebooting`), the VM goes down some time later (`down`)
and kills what runs on it then, and comes up later still. `AwaitRestart` asks over
the connection that is open already, as `ensure_conn` does, so it may be answered
before the VM has gone down, and `Launch` may start an installation that the restart
kills. No assumption is made about which sessions stopping sshd ends. `cut` are the
tests that have lost a job in this way; such a test polls for a marker that nobody
is going to make (`Stranded`).

A restore that succeeds removes all dirt. `faulted` records that
something has failed, so that one run with every fault can also say what holds
while there was none. `NextTest` is both the normal
end of a test's fixtures and what an exception in them leads to.
`AlarmHasCause` says that "BOOTSTRAP FAILED!" is only reported in a session in which
an installation has failed, for this test or an earlier one, on any VM: whose failure
it was the marker does not say (see the schedules below).

### 2.4 ExecutionWait

One call, from its first statement to its end; `pc` names the next statement.
`start` is `run_blocking_execution`, `begin` the statements before the loop,
`poll` and `show` the two calls inside the `try`, `pause` the sleep of the
handler, `decide` the two tests after it, `settle` the last two seconds, `report`
`_fail_wait_for_execution`. `prev`, `cur` and `began` are `prev_time`,
`current_time` and the time from which `timeout_time` is counted; time is in
seconds. `now` is the manager's clock, `skew` what the process's differs by:
`output_events` filters the manager's timestamps by the process's times.
`shown` and `skipped` are the seconds whose events were shown, or whose poll
failed after it had moved the window. Abstracted: pages of events, and what an
event says.

### 2.5 SnapshotRestore

`mode` is "migrate" (the multi-tenant upgrade test: each old version's snapshot
restored on a manager that is empty and is reinstalled in between) or "cluster"
(a restore by force on a manager of the cluster, the archive arriving by
syncthing). `pc` names the helper under way, `looks` counts its
`retrying.retry`, `attempt` the waits in `restore_snapshot` and `call` the calls
of it by its decorator. The manager has the restore's execution, the
post-restore commands (`post`), its password, the state of its REST service
(`rest`: "up", "down", or "guarded" while it reads `rest-security.conf` and
refuses everybody) and what has been restored (`have`). `client` is "plain" when
`get_rest_client` was called while the service could not say that it wants TLS.
Each wait is one step, by the `Termination` of `ExecutionWait`. The wait after a refusal makes
its client twice, and only the second is used: `Refused` is the two. `late` and
`faulted` are ghosts: a look or an attempt was one too few, or something has
gone wrong. Abstracted: what the state of a manager consists of (three parts
that are restored by different means), certificates, icons.

### 2.6 ExampleLifecycle

Tests of four kinds run one after another on one manager, which has tenants
(`premium`) or not. `pc` names the statement of `upload_and_verify_install`,
`uninstall`, `apply_and_check_deployment_update` or of the CLI flows, the checks of
events, of listed executions and of the update's state included; `installed`
is the flag of `BaseExample`, and `Fail` what an exception does to a fixture that
uninstalls in its second half. Such fixtures (`fixture`) belong to tests that
install and do not update, as in the repository; what gets them to their second half
with the example still installed is a failing assertion of the test, about anything
but the files (the fault "assertion", in the test's body as well as in its checks).
The manager runs one workflow of a deployment at a
time (`job`, `last`), each with the effect its plugin has on `files`; a wait that
times out leaves the workflow running, and `failures` keeps what a listing of all
executions shows. `Make` is what tests do about things that
exist already: tolerated on a community manager, an error elsewhere. Abstracted:
the content of files (one content per path), Windows paths, inputs.

### 2.7 ConfigSchema

An entry is a path of a namespace and a key. The repository's schema files are
represented by an entry of every kind they have: with and without a default,
with allowed values, nullable or not, Boolean, of a platform. `extra` is a schema
file somebody is adding. `Merge(f)` is `_update_schema` for one file, in any
order, as `glob` lists them; `Check` is `check_config_is_valid`, `Raises` the two
conditions under which it raises instead of reporting; `Generated` what
`show_schema` prints. A blank in the file is `None` to YAML. `generate` is used
with its output redirected to the configuration (`README.md:41`), so when it fails the file is
empty. `Over` is the `dict.update` of the code, on schemas and on values. `Read` is `Config.__getitem__` for the
settings tests ask for, and `Suits` what the entry of the schema file promises of
them: a value, an allowed one, and null only where it is nullable. An entry
named as a namespace (`extra = "clash"`) raises a `KeyError` in one order and
replaces the namespace silently in the other; the model has both, and the
properties that would fail say so by excluding it. Abstracted: the texts of the
report, descriptions, values beyond allowed or not.

### 2.8 ClusterStatus

`up` is what runs, `coming` what has been started and does not run yet (a database
or a broker joins its cluster first, `ComesUp`); `seen` and `age` are what each
source of a status has gathered and for how many questions it has been out of date:
mgr1's own status and the cluster's as mgr1 and mgr2 report it. mgr2's status of
itself comes from the same source as its view of the cluster. A question (`Ask`) is
answered from `seen` and lets time pass (`Tick`), in which no view gets older than
`Lag`: "Thirty seconds should be much more than enough". The check of the file
synchronisation asks its three questions (`syncLook`, `syncOther`, `syncActive`)
once each in an attempt. `tries` counts the repetitions of a question, `checks` those
of a check that is retried as a whole and then starts again with its first
command. `StopService` and `StartService` are the commands; `CallFails` is a failing
call at any statement, which counts as an attempt where the code retries and ends the
check, or the test, in the loops that do not catch it. `After` and `Following` are
the order of the two scripts, `Satisfied` their assertions. `defect` is a defect of
the product that the test meets, which
hides stopped services from the status or keeps an agent from going back to a
broker: a test is good if it finds those and nothing else. Abstracted: the
syncthing, Patroni and RabbitMQ commands are a service stopped or started; the
questions of the example's agents beside the broker are part of `validate`.

## 3. The runs

| Run | Instance | Shows |
|---|---|---|
| `cluster_full` | 8 machines: 3 rabbits, 3 databases of which the last is in the skip list (`cluster_missing_one_db`), 2 managers; old completion markers on some | the bootstrap implements `ClusterStartup` (dependency order, success means all up), tells managers the databases there are, reports no failure without one, and ends |
| `cluster_compact_race` | all components on the same 2 machines | **violated** `BackendsUpBeforeManagers` |
| `hosts_teardown` | 3 VMs, teardown of what is taken for a failure, destroyed again in a finally clause, every way to learn the verdict, everything may fail | resources stay findable, networks outlive VMs, what is torn down is gone for good, a second destroy does no harm, and both calls end |
| `hosts_verdict` | 1 VM, the default settings, a test after one that has passed | **violated** `TeardownAsConfigured` |
| `reuse_session` | 2 VMs, 3 tests, anything may fail any number of times, restarts take their time | clean starts and restores that were waited for while nothing fails; alarms that have a cause; whatever fails, an end of the session, unless a restart leaves a test stranded |
| `execution_wait` | timeout of 3 s in 7, clocks off by one, every call may fail | the wait implements `BlockingWait`, shows the events, tells honest timeouts, and ends |
| `snapshot_restore` | 2 old versions, 3 attempts, 2 calls and looks; anything may fail | nothing is lost unnoticed, the credentials fit, no restore on top of another, no failure without a cause, an end |
| `example_lifecycle` | 3 tests of any kind, with and without tenants; workflows fail, take too long or do nothing, assertions fail | a test leaves nothing, a fixture cleans up after a failing test, no test fails for what another left, an end |
| `example_unchecked` | 1 test in a tenant of its own | **violated** `InstalledFilesVerified` |
| `config_schema` | a schema file of every kind being added, 3 platforms, one edit | the merge does not depend on the order, samples are accepted, verdicts are stable, a session finds its settings as the schema promises them |
| `config_generate` | the command of the README | **violated** `BasicConfigIsGenerated` |
| `cluster_status` | 5 defects and none, a status up to 3 questions old, services that take time to come up, 4 attempts, 2 failing calls | the tests find the defects and fail for nothing else, stop one kind of service at a time, and end |

### Bounds

* *Cluster.* Three rabbits give one that is joined and two that join in
  parallel; three databases give a cluster with one missing and two left; two
  managers give an order. What the proofs add is every other size.
* *Hosts.* One VM is the smallest fixture, two give parallel installs, three a
  loop with a middle. `PassedBefore` is 0 in the passing run and 1 in the violated
  one: only whether it is positive matters. One setting is on and the other off, so
  that each way of `Decide` is taken.
* *VM reuse.* Two VMs are what it takes for one restore to fail before the
  wait for another; a stale marker needs one test to make it, one to keep it
  and one to believe it.
  Nothing is unbounded: files and jobs are identified by the test that made
  them.
* *Waiting.* Three seconds are two rounds before the deadline and one at it;
  `MaxTime` leaves room for the last poll and its two seconds. One second of
  skew either way is enough for a window in the future or the past. The proofs
  are for every timeout and skew.
* *Snapshots.* Two versions make one reinstallation; three attempts are one
  refusal that changes the password, one after it and a last one; two calls are
  one retry.
* *Examples.* Three tests: one leaves something, one fails on it or adds to it, one
  finds what the two have left. Two looks are a
  retry and the last one.
* *Configuration.* One edit is every single mistake; two files for a namespace
  and two platforms are what the merge distinguishes.
* *Cluster status.* Three databases and brokers, as in the tests: one and two
  stopped give different answers. `Lag < Tries` is the comment's assumption that
  the retries are enough, so questions are answered by old states and, in time,
  by the new one; one call that fails and one while its check is repeated are 2.
  Two synchronised directories, as mgr1's is stopped and mgr2's is not.
* Deadlock is not checked because every one of these programs ends, or, as a
  stranded test, asks for ever what nothing answers.

### Fairness

* `ClusterBootstrap`: weak fairness of the test process, which is sequential
  and only waits in its polls, and of each background job, a shell on a running
  machine; `cfy_manager install` is assumed to end, well or badly.
* `HostsLifecycle`: weak fairness of the test process only. Each of its waits
  is bounded, so nothing is assumed of the manager. The exception is the wait
  of `create` for a bootstrap, which has no limit in the code and is part of
  `Boot`; that it ends is a result of `ClusterBootstrap`.
* `VmReuse`: as for the cluster; in addition a VM told to restart goes down and
  comes up.
* `ExecutionWait`: the test process goes on and time passes; that the execution
  ends is not assumed.
* `SnapshotRestore`, `ExampleLifecycle`: the test process goes on. Nothing is
  assumed of the managers, neither that a workflow ends nor that the REST service
  comes back.
* `ClusterStatus`: the test process goes on, a service that was started comes up,
  each view is gathered again in time
  (the scrape interval of prometheus) and an agent without a broker connects to
  one (its reconnection loop).
* `ConfigSchema`: none; every command is a finite script, and its properties are
  about what it says.

No action is given strong fairness, and `LoseConnection` is given none.

### The violations, as schedules

* *Compact cluster* (`cluster_compact_race`). rabbit2 installs in the background
  on the machine of db2. The bootstrap of db2 removes the completion marker;
  then rabbit2's installation ends and touches it. The wait for the backend
  nodes finds the marker of node 2 and goes on to the managers while db2 is
  being installed. The comment in `VM.bootstrap` shows that an *old* marker on a
  compact cluster was thought of; one that comes late was not.
* *Session count* (`hosts_verdict`). One test passes, the next fails; `destroy()`
  sees `testspassed == 1` and removes the resources of the failed one under
  `on_success`, although `on_failure` is false. The description of `on_failure` is
  "Whether to tear down test resources if the test fails."
* *Unchecked files* (`example_unchecked`). An install ends well and leaves no
  file; `check_files` asks for the node instances after `set_client_tenant` has
  given the client its own tenant back, gets an empty list, and passes.
* *Generate* (`config_generate`). `generate --platform openstack` checks what it
  is about to print; `rhel_username_override` is `null` by default and not
  nullable, so it prints nothing, and `tee` leaves an empty `test_config.yaml`.

The models contain further schedules that the code's comments do not deny as
plainly. The properties of the passing runs say what is left in spite of them, or
exclude them by name:

* *Flags in an except clause.* Fixtures that clear a flag in an `except` around the
  `yield` (`"fixture" \in Verdicts`) do not learn of a failing test: pytest does not
  raise it there. Only an exception in `create` clears the flag.
* *Early failure.* A blueprint upload fails; `destroy` raises at the uninstall
  of a deployment that was never made, and leaves blueprints and tenant.
* *Destroy twice.* In a fixture with a finally clause, deleting the tenant fails
  after `create` has raised; the second
  `destroy` believes it has a tenant, but its client now addresses
  `default_tenant`, where it kill-cancels everything. `StraysOnlyWhenGone` says
  that this happens only when nothing of the test's own is left.
* *Leak.* A bootstrap fails; the restore after the yield, which would have
  reverted `install_config`, is skipped. `CleanStart` is therefore about sessions
  in which nothing has failed.
* *False alarm.* After that failure nothing reboots the VM, so
  `/tmp/bootstrap_failed` is still there when the next test polls.
* *Stale restore.* The restore of VM 1 fails after that of VM 2 has completed;
  VM 2 keeps its marker without being marked for a reboot, and its next restore
  is believed complete at once.
* *Early answer.* The connection that sent `shutdown -r now` still answers, the
  bootstrap starts on a machine that is about to go down, and the restart kills it.
  No marker will come, and the poll for it has no limit: `AllTestsRun` leaves
  this as the only way in which a session does not end.
* *Update in the default tenant.* There the instances are found, and the
  announcement is looked for under the name of the other node's instance: the
  check cannot pass.
* *CLI cleanup.* The teardown has deleted the secret that `_cleanup_profile`
  deletes, so the flow fails at its last step but one.
* *Failover.* The agent's connection is looked for once, right after its broker
  was stopped; an agent that has not found another yet fails the test
  (`why = "early"`).
* *Two brokers down.* The failover test waits for the broker it has started again,
  and a status from before the stop may answer it, so that the next one is stopped
  while the last is coming up. The wait after the first restart is safe: the degraded
  status was asked for before it. Those after it are not, and `OneThingAtATime` says
  that no two brokers are down until a second one has been restarted.
* *Quorum.* With two databases gone an error is expected and its absence passes:
  a product that goes on without a quorum is not found.

## 4. The proofs

All theorems are about `Spec`, which has no fairness but in `ClusterStatus` (where the
proofs use none of it), for all values of the
constants that satisfy the named assumptions (`ClusterAssumption`,
`HostsAssumption`, `ReuseAssumption`, `WaitAssumption`, `SnapshotAssumption`,
`ExampleAssumption`, `ConfigAssumption`, `ClusterStatusAssumption`). Every safety
property that a passing run checks is also a theorem. Beyond the named
assumptions, theorems assume only what follows; each is a hypothesis of the
theorem itself, and where it matters a schedule above shows that it is needed:

| Theorem | Assumes | Without it |
|---|---|---|
| those of `ClusterBootstrap` that rest on `IInv` | `SeparateMachines` | false: `cluster_compact_race` |
| `NoFalseAlarms` | `StaleFailed = {}`: no machine comes with a failure marker | false: *false alarm*; `AlarmsHaveACause` says what is left |
| `NoFailureIsFalse` of `ClusterStatus` | `Lag < Tries`: "thirty seconds should be much more than enough" | false: with `Lag = Tries` TLC finds the failure |

A type invariant that is proved is not checked again by a run (but for
`ConfigSchema`'s, which says that no generated file shows the absence of a value),
and of the bootstrap's invariants the runs check those that `StartupSpec` does not
imply.

**ClusterBootstrap.** `TypeCorrect` and `AlarmsHaveACause` hold of every cluster. The others,
but for `NoFalseAlarms`, assume `SeparateMachines`; `cluster_compact_race` shows that
they need to. The invariant `IInv` ties each waiting point of the test process to the ghost `up`:
jobs exist exactly for the units passed (`JobsFollowTheTest`), a machine's
files belong to its unit (`FilesBelongToUnit`), a marker seen after the launch
tells the truth (`MarkersTellTheTruth`: the removal of the old marker is what
makes this inductive), so what has been waited for is up (`WaitedIsUp`,
`Rabbit1IsUp`). From it follow `BackendsFirst`, `ManagersInOrder`,
`JoinTargetFirst`, `DbsAreKnown` and `SuccessIsReal`.
That a failed installation surfaces needs no theorem: a unit that is not up keeps the
bootstrap from `done`, and `Termination` leaves it no other end. `NamesFollowTheTest` is needed for skipped databases, because
the skip list is looked up by a name that is written on the way.
`Refinement` then needs no more than that each launch finds its requirements
up and that `done` means all up. `AlarmsHaveACause` holds of compact clusters too,
and its invariant `AlarmsAreReal` is about them: a failure marker, a job on its way
to one and the end "failed" each imply that an installation has failed or that the
marker was there before, whoever's the marker is. `NoFalseAlarms` follows.

**HostsLifecycle.** `IInv` says for each statement of `create` and `destroy`
what exists on the manager and what the records know of it: `Recorded`
(whatever was installed is among `self.deployments`, by the order in which
`create` appends and starts), `Undone` (past its wait a VM is gone, and
`destroy` only moves on when it is), `BlueprintsKnown`, and `Quiet` (from the
check of the cancelled executions on, nothing is under way on what is about to
be uninstalled). From it follow `NothingGetsLost`, `VmsGoFirst`,
`ReturnIsClean` and the action property `ExecutionsDoNotOverlap`.
`OwnExecutionsFirst`, for `StraysOnlyWhenGone`, has an invariant of its own:
`GoneWhenAstray`, by which the client has left the tenant while `selfTenant` is still
set, or `destroy` has cancelled outside, only when the last blueprint has been
deleted, and with it everything that refers to it. It holds for every fixture, with
and without a finally clause.
`TornDownIsFinal` needs more than that the manager is empty after a complete
destroy: an execution that ends late must not bring anything back. `Settled` follows
the executions through `destroy`: after the check of the cancelled ones no install is
under way, those that are were started by `destroy` itself, and each wait takes one
away, so at "tornDown" there is none.

**ExecutionWait.** `IInv` has five parts beside the types: the client is in the
execution's tenant while the loop runs and in the caller's before and after
(`RightTenant`); both readings of the clock lie in the past, in order
(`ClockRead`); an end state that was fetched is the execution's, because it never
leaves one (`StatusIsTrue`); without `allow_client_error` an end that no round
has noticed came after the last fetch (`UnseenEnd`, needed because the timeout is
tested before the status); and the seconds before the last window's end are shown
or were skipped (`NoGap`, needed because windows only add up if each begins where
the last one ended). From it follow `TypeCorrect`, `EventsAreShown`,
`TimeoutsAreFresh` and, since the end of a call is the only step that tells
something, `WaitImplementsBlockingWait`.

**VmReuse.** Three invariants beside the types. `InstallsAreRecent`: an installation
that runs was launched by this test, which is then past its restarts, or by one before
it. `MarkersHaveCause`, for `AlarmsHaveCauses`: where there is a marker of a failure an
installation has failed, of this test or of one before it. `Orderly`, for the sessions without a failure, says
how the loops interlock: `RestoresInOrder` (a restore runs only from its launch to the
end of its wait; its marker is gone before the next one is launched, because the
restored VM is marked for a reboot, which is what the stale restore above lacks),
`InstallsInOrder` (so are installations, and what a VM holds is the test's own from
its launch on) and `ConfigsInOrder`. `TestsStartClean` and `RestoredBeforeUse` follow;
neither depends on restarts being waited for, since what is believed here are
markers, and a job that a restart kills leaves none.

**SnapshotRestore.** Each theorem has an invariant of its own over the types.
`RefusedInTime`: a refusal belongs to a wait begun with an attempt left (the type
theorem needs it). `NoRestoreYet`: back at `restore_snapshot`, the latest execution
is one that missed its file, or there is none (`RestoresAreNeverOnTop`).
`AccessInv`: the client's password and the CLI's change together unless the client
has lost its TLS, and after the wait both are the manager's (`CredentialsFit`).
`CheckedInv`: what a check has passed is there and stays (`NothingGetsLost`).
`CalmInv`: without a fault the service is up but for the restore, and each
statement finds what it needs; an exception can only be a look or an attempt too
few (`FailuresHaveCauses`).

**ExampleLifecycle.** For the types, what the helpers (`Goto`, `Fail`, `Look`,
`Make`, `StartWorkflow`, `Await`) may do to an example is stated once in a lemma
each and cited by the actions. The other theorems have two invariants.
`GeneralInv` holds whatever goes wrong: which statements each kind of test has
(`FlowInv`), that nothing but the deletion takes a deployment away (`DeployedInv`),
where no workflow can be running (`IdleInv`), that tests with tenants leave those
of others alone (`FreshInv`), and where a second file can lie. The last part is what
`NothingIsLeft` hangs on, since the check after an uninstall looks at the first path
only: in a tenant an installed example has no other (`OwnPathInv`), and in the default
tenant, where an earlier update may have left its announcement, there is none without
the first file (`DefaultInv`). `CalmInv` is about states in which nothing has gone wrong: a
workflow runs only under its wait and has ended well when the wait is over
(`CalmJobs`), and the deployment, the files, the paths and what the manager stores
are exactly those the next statement expects (`CalmDeployment`, `CalmFiles`,
`CalmPaths`, `CalmStore`); so no statement raises but those that always do
(`CalmEnd`). `NoFailureIsFalse` is its last part. A failing assertion is not such
a wrong: the fixture's uninstall finds the deployment and the files as any other
does, so once it has ended the test nothing of them is left, which is the part of
`CalmDeployment` that `FixturesCleanUp` is.

**ConfigSchema.** The merge is a loop over a set, so its invariants are about the
files merged so far. `SchemaInv`: an entry of the schema is one of a merged file.
`MergedInv`: without a clash of names every namespace and every entry of a merged
file that counts is there, and no file with an error has been merged. `RawInv`: at each
statement the raw values are those of the file, or the platform's. `FileInv` and
`SampleInv` say what a file that was generated, edited or filled in can hold. The
order disappears in `VerdictInv`: every verdict equals `FileVerdict`, a function of
the file and the schema files alone, from which `VerdictStays` (two verdicts on one
file agree), `SettingsAreThere` (a session runs on a file whose `FileVerdict` is
"ok", and a value that was not reported suits the entry it is for) and `SampleSuffices` follow. The last needs that `show_schema` prints exactly
the entries that count for the platform, which is `MergedInv` at `show`. The lemmas about schema files (`RepositoryForm`,
`ExtraFormed`, `OnePerNamespace`, `Disjoint`) are about the entries named in section
2.7, and so are the theorems: they are for every combination of kinds of extra
files, platforms and numbers of edits, not for schema files of other shapes.

**ClusterStatus.** `StatusInv` and `FailoverInv` say for each statement of the two
tests which services are stopped there. They are inductive because a check that is
repeated begins with a command of its own kind and ends with everything of that
kind started again. The types need the second one too:
the broker that is started is one that was stopped. They speak of what was stopped
and not started again; that the services among `coming` run when the next ones are
stopped is `ComingInv`: a status in which nothing is missing has been gathered since
they run, because one in which they were missing came before it. In the check of the
databases that always is so; in the failover test it is at the first restart only,
since it asks for the degraded status once, and there the invariant ends with what
it can say. `OneKindAtATime` follows from all three. `DefectsFound` follows from
`DefectInv`, which bounds how far a test gets that meets a defect: a status that
hides the services a question is about never satisfies it, whatever else is stopped
and however old it is; for an agent that shuns restarted brokers, `AgentInv` adds
that it is always connected to one that runs. `NoFailureIsFalse` is about time.
`AgeInv`: a view that is out of date has been so for as long as the question is
repeated; `CalmAges` says the same of the attempts of the check of the file
synchronisation, which asks only once in each. A view out of date is one that differs
from what runs or that something is still coming up for. With `Lag < Tries` the last
repetition finds every view up to date (`LastTime`, `LastAttempt`), and what runs is
exactly what has not been stopped (`CalmRuns`), so it succeeds (`LastSucceeds`). The
one answer that starts the check of the databases again although it satisfies, a
degraded status in which the first database is not the one that is missing, would
take a view that has seen the second one down, and there is none before it is stopped
(`CalmDbs`). The failover test ends before a third restart (`TwoRestarted`).

Only model-checked: the liveness properties (`Termination`, `AllTestsRun`, `Ends`),
which are out of the prover's reach, as is `ENABLED`. The four violations are
TLC's. No proof needs an induction over data: the recursive parts of the code are
loops, which are steps of the models.

## 5. Not modelled, and the plan

Not modelled for good: certificates and the text of configurations, SFTP and
Windows remoting, the assertions that suites make about the product (summary
tables, scaling results, authentication responses), the plugins and blueprints
the product executes beyond what their file nodes do, packaging. The cluster
manager tool, the management of brokers and databases, the failover of managers
and the upgrade of agents are linear scripts: one blocking command of the product
after another, where an exception ends the test and nothing of the repository is
concurrent. `run()` of `util.py` repeats a single call that keeps no state.

Next, in this order:

1. `AwsCleanup`: listing, filtering by age, deletion by kinds, with the
   dependencies between the kinds, refusals, repeated runs and a session that
   goes on creating. Properties: resources of excluded tests stay, a run that
   ends without an error has left nothing it listed, running it again finishes
   the work.
2. `ClusterMembership`: brokers and databases added and removed as the
   management suites do, if more than the order of their commands turns out to
   matter.
3. Proofs: what holds of compact clusters beside `TypeCorrect` and
   `AlarmsHaveACause`; `MergedWhole` for schema files of every shape.
