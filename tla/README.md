# A TLA+ model of the GitHub runner operator

The repository holds two programs. The **runner manager**
(`github-runner-manager/`) is a long-running service that keeps a fleet of
self-hosted GitHub runners on OpenStack: it creates a server and a GitHub
registration for each runner, follows the load that a *planner* service
streams, and deletes what is finished, broken or too much. The **charm**
(`src/`) is the Juju operator that installs, configures, restarts and flushes
that service on a machine, possibly beside other units.

This directory models the control of those programs in TLA+, checks it with
TLC on small instances and proves its safety properties and three refinements
with TLAPS. `PROJECT.json` is the index: components, runs, mutants, the source
lines of every definition, findings, hazards and theorems.
Paths below are relative to
`github-runner-manager/src/github_runner_manager/` unless they start with
`src/` (the charm) or `docs/`.

## 1. Inventory

| Part | State | Operations | What makes it hard | What makes it correct |
|---|---|---|---|---|
| Pressure reconciler (`manager/pressure_reconciler.py`) | `_last_pressure`, `_runner_count`, `_create_paused`, `_stop`; a lock shared with the HTTP server | create loop (stream of pressures), reconcile loop (timer), `stop` | two threads and the HTTP thread take turns on the fleet; the create loop trusts a count it does not verify; calls last minutes and fail in part; pressures are read before the lock is had | the count covers the fleet; the cap holds; a pause holds and is lifted; the fleet converges; stop is prompt |
| Service process (`cli.py`, `thread_manager.py`, `http_server.py`) | threads, error queue, the lock | start, `SIGTERM`, `/runner/flush`, `/runner/check` | a thread that dies ends the process; joins time out; the process restarts with no memory | shutdown lets operations finish; nothing is lost for good by a crash |
| Planner client (`planner_client.py`) | an HTTP stream | `stream_pressure` | disconnects, silence, malformed lines | what it yields is a pressure |
| Runner manager (`manager/runner_manager.py`) | none of its own: the servers and the registrations *are* the state | `create_runners`, `cleanup`, `soft_delete_runners`, `delete_runners`, `flush_runners`, `get_runners` | every call works from two snapshots while jobs start and end; deletions are parallel and fail one by one; a creation has two halves | jobs are not killed; a server goes after its registration; nothing useless stays for good; starting runners are spared |
| GitHub provider (`platform/github_provider.py`, `github_client.py`, `manager/models.py`) | GitHub's runner list, shared with other units and other people | health, registration with a runner group, deletion, job information | runners are listed page by page while others come and go; a unit knows its own by the beginning of their names; deletion of a busy runner is refused (422); API errors of two kinds, of which one is caught higher up | a unit claims only its own; a registered runner is not taken for a missing one; a registered runner keeps its server, unless the call does not spare busy runners or the server names no runner |
| OpenStack (`openstack_cloud/`) | servers, key pairs and key files, a security group | launch, list, delete, expire keys, SSH | deletion and creation are asynchronous; names are not unique in OpenStack; keys are shared between creations and cleanup | one server per name; a key lives as long as its server may need it |
| Runner metrics (`metrics/runner.py`, `metrics/events.py`, `metrics/github.py`) | files on the server, an event log | pull, parse, look up the job, issue | files may be missing, large or malformed, and are written while they are read; clocks disagree; a server that would not go is listed again; issuing stops half-way | events in order, each at most once for a deletion request; no event of what was pulled is lost but for a few named reasons |
| Configuration (`src/charm_state.py`, `src/factories.py`, `configuration/`) | options, secrets, relation data; a YAML file | parse, validate, translate, validate again | two programs check the same values with rules of their own; combinations of fields | what the charm accepts the service can run |
| Charm (`src/charm.py`) | stored copy of the options, relation data, unit status | one handler per Juju event and action | handlers fail half-way; an error that is caught counts as a success and the event does not come again; options change between two hooks | an active unit runs with the current configuration; a change that needs a flush gets one; the planner knows the runners |
| Manager service and client (`src/manager_service.py`, `src/manager_client.py`) | service file, configuration file, port file, a lock file on the machine | `setup`, `install_package`, `cleanup`, `stop`, port allocation; HTTP requests with retries | units of one machine run at the same time; ports are taken by others | ports are distinct; removal leaves nothing behind |
| Log rotation, cloud-init templates, Prometheus metrics, vendored libraries | | | | not modelled: see section 8 |

How they interact. The charm writes the configuration and (re)starts the
service; it flushes through HTTP. In the service the main thread starts the
HTTP server, the create loop and the reconcile loop as daemon threads and
then waits for an error from any of them. Both loops and the flush handler
change the fleet through the one `RunnerManager` and exclude each other with
one lock. The `RunnerManager` calls OpenStack and GitHub, which change on
their own: servers are built, fail and disappear; agents connect, take jobs
and vanish.

## 2. Plan

Most important first. *Done* means modelled, checked and, where a proof module
is named, proved.

| # | Module | Subject | State |
|---|---|---|---|
| 1 | `CappedFleet`, `PressureReconciler`, `PressureReconcilerProofs` | the abstract fleet whose orders keep to a cap; the two loops, the flush handler, shutdown and restart that implement it, on a fleet of counters | done |
| 2 | `RunnerManager`, `RunnerManagerProofs` | the six calls on the runners, one by one | done |
| 3 | `OpenstackCloud`, `OpenstackCloudProofs` | servers, duplicates, keys | done |
| 4 | `PortRegistry`, `ManagerService`, `ManagerServiceProofs`, `MCManagerService` | the abstract registry of ports; hooks, ports and services of the units of one machine, which implement it | done |
| 5 | `EventLog`, `RunnerMetrics`, `RunnerMetricsProofs`, `MCRunnerMetrics` | the abstract log of metric events, and the files, calls and lookups that implement it | done |
| 6 | `CharmConfig`, `Charm`, `CharmProofs`, `MCCharm` | the configuration as an operator over options, secrets and relations; the hooks of one unit | done |
| 7 | `InstanceID`, `GithubRunnerPlatform`, `GithubRunnerPlatformProofs`, `MCGithubRunnerPlatform` | names; several units on one path, with paged listings | done |
| 8 | composition of 1 and 2 | the loops on runners instead of counters: that the effects `PressureReconciler` allows a call are those `RunnerManager` produces | planned |
| 9 | `SecurityGroup` | the group and its rules, made side by side by workers and units | planned |
| 10 | `PlannerStream` | parsing of the stream as an operator, against a reference definition | planned |

How they fit together. `EventLog` is what `RunnerMetrics` implements
(`Log == INSTANCE EventLog WITH ...`), `CappedFleet` what `PressureReconciler`
implements (`Fleet == INSTANCE CappedFleet WITH ...`), `PortRegistry` what
`ManagerService` implements (`Registry == INSTANCE PortRegistry WITH ...`),
`CharmConfig` what `Charm` computes with, `InstanceID` what `GithubRunnerPlatform` names with. The
other modules share states by contract: `PressureReconciler` takes the calls of
`RunnerManager` by their effect on numbers, `RunnerManager` takes a launch of
`OpenstackCloud` and a listing of `GithubRunnerPlatform` by their result,
`Charm` takes `setup` and flush of `ManagerService` by their success or
failure.

An abstraction worth stating next is an atomic `create or nothing` runner,
which `RunnerManager` implements up to what cleanup still has to remove.
Theorems worth proving next are that refinement, and for the composition (8)
that the number of servers changes in each call of `RunnerManager` as
`PressureReconciler` supposes.

## 3. How the modules correspond to the code

### PressureReconciler

State. `stop`, `lastPressure`, `runnerCount`, `createPaused` are `_stop`,
`_last_pressure`, `_runner_count`, `_create_paused` of `PressureReconciler`.
`lock` is the `Lock` that `cli.py` makes and hands to the reconciler and to the
HTTP server. `pc` holds where the three threads are: the create loop (`start`,
in the planner's `stream`, in the `backoff` after an error, `idle` without a
planner, handler `called`, waiting to `acquire`, `creating`), the reconcile
loop (`wait`, `acquire`, `cleanup`, `sync`, `creating`, `deleting`) and the
HTTP thread. `arg`, `next`, `cur` are the locals of the handlers; `pending` and
`made` are the creations of a create call without an outcome and those whose id
it will return. The fleet is two counters: `up`, and `going` for servers that
are still listed although their deletion was accepted (`get_runners` counts
both). `limbo` counts create requests that nobody waits for any more. Whether
there is a planner is chosen at the start, from the constant `Planner`: with
none, the create loop serves `min_pressure` once and ends. `lateCalls` is
history: how often each critical section of the loops (`Sections`: the create
call, the reconcile round, and the first sync of the create loop) was entered
since stop was set.

Actions. One per step between two points where another thread can get in.
`StorePressure` comes before the lock, as in the code; so does the read of
`_last_pressure` in `Tick`. `InitialSync` and an `EnterCreate` that finds
nothing to do hold the lock only within one step. `Spawn`, the creations of a
create call, are separate steps, since crashes, the cloud and the HTTP checks
get in between. `SoftDelete` states what `soft_delete_runners` may delete and
return: servers that are already going are found again and subtracted again;
busy runners, errors and broken runners change the number, which counts as a
fault. `Sigterm`, `ExitAfterJoin`, `ExitOnError` and `Restart` are the signal
handler of `cli.py`, its bounded joins, the error queue of `thread_manager.py`
and the restart by systemd or the charm.

`CappedFleet` is what the two loops promise together, without threads, locks,
counts or pauses: servers are ordered by one call at a time (`Order`, or
`Count` after a look at all servers), each order is delivered or given up, the
call reports what it got or is abandoned (`Report`, `Abandon`), servers go
(`Shrink`) and orders that were given up may be served late (`Appear`) or never
(`Lapse`). Servers that nobody reported are `strays` until the next count. The
refinement mapping: `fleet` is `up`, `calls` the loops that are `creating`,
`ordered` and `delivered` the sums of `pending` and `made`, `lost` is `limbo`,
`strays` is `unreported`.

### RunnerManager

State. `vm` is the server of each instance (`none`, `build`, `active`,
`error`, `going` for an accepted deletion, `gone`), `old` its age against
`RUNNER_MAXIMUM_CREATION_TIME`, `registered`, `online` and `busy` are GitHub's
runner list. There is no other state: the code keeps none. The call in
progress has the two snapshots (`listed`, `errored`, and what was read of
GitHub, of which only the choice `chosen` is kept) and the results of its
parallel deletions (`wanted`, `deleted`, `raised`, `doomed`). `stage` is the
worker process of each creation. `Legacy` instances have a server without
`runner_id` in its metadata: `_get_vms_to_cleanup` deletes them always.

Actions. A deletion is `CallDelete`, `ListServers`, `ListRunners` (the choice
of `_get_platform_runners_to_cleanup`, `_to_scale_down`, `_to_flush`), one
`DeleteRunner` per runner, `ChooseServers`, one `DeleteServer` per server, and
the return; in between servers fail, agents connect, take and finish jobs and
GitHub forgets runners. A creation is `Register`, `Launch` and, after a failed
launch, `Undo`, the workers in any order. The calls are the six the program
makes: `create_runners`, `cleanup`, `soft_delete_runners`, `delete_runners`
(`hard`), and `flush_runners` with its two modes.

### OpenstackCloud

State. Servers with their names and status, key pairs in OpenStack, key files
on disk, which of them are young. A server's number is its rank by
`created_at`; of two servers of one name made in the same second the code keeps
the one that is listed last, and OpenStack lists them in one order: the ranks
stand for that order too. Deletion of a server by an operator is left out,
because no property could then hold of its name.

Actions. A launch is `CreateKeypair`, `WriteKeyfile`, `CreateServer` or
`CreateFails`, and `ReadMetadata` (`from_openstack_server`); a deletion
`DropServer`, `DropKeypair`, `DropKeyfile`; the names of one call side by side.
A listing (`StartList`, `DeleteDuplicate`, `ListReturns`) is made under the
lock of the process, or beside any call for `GET /runner/check`, which takes no
lock. `CallExpire` to `ExpireEnds` is `delete_expired_keys`, whose list of
servers is read first and whose list of key pairs is read after the files are
gone. `Crash` cuts any of it.

Above this module the result of a launch is taken by its contract: see
`LaunchReturns` in section 7 for what the code does at present. What the
`TypeError` makes of a create call is among the behaviours of `CreateRaises`,
`DeleteRaises`, `InitialSyncRaises` and `ExitOnError` of the modules above;
their liveness properties, which let those happen a bounded number of times,
suppose the repair.

### PortRegistry and ManagerService

State. Per unit: the port file, the service file, the version of the
configuration file; the systemd service (`off`, `starting`, `loaded` after it
read its configuration, `up` when it listens, `deaf` when its HTTP thread ended,
`failed` while it awaits its automatic restart), the port of its command line
and the configuration it has read; who listens on which port; the hook that
runs and where it is. `lock` is `port-alloc.lock`, `used` and `offset` the
locals of its holder.

Actions. `CallHook` is the constructor of the charm object: it looks at the
port file, and allocates if there is no number in it. `TakeLock`, `Probe`,
`WritePort` are `ensure_http_port_for_unit` and `_select_http_port`; then a
configure hook goes through `setup` (`Stop`, `WriteFiles`, `Enable`), the
readiness probe and perhaps a flush, a halt hook (install, or a
configuration without an image) through `Stop`, a stop hook through the probe,
the flush and `cleanup`. `HookFails` ends a hook anywhere, as a failing command
or the kill of its process would: the file lock goes with the process, and a
port file may be left truncated. `LoadConfig`, `BindPort`, `ServiceCrashes` and
`RestartService` (`Restart=on-failure`) are the service's own steps. Hooks of
different units interleave, as the lock in the code supposes.
`install_package` stops the service like the halt hook does. `fellBack` and
`raced` are history: the units that took their base port for want of a free
one, and those whose service awaited its automatic restart when the hook that
runs, or ran last, stopped it.

`PortRegistry` is what the units of a machine are promised, without lock, files
or probe: a unit that has no port gets one in one step, which no other unit has
(`Allocate`), or shares its base port (`FallBack`), and nothing but `Release`
takes it away. The refinement mapping: `owned` is the number in the port file,
a truncated file being none, and `shared` the units of `fellBack` that have a
port. `WritePort` is the one step that allocates and `RemoveUnitData` the one
that releases; what a hook does before, and where it dies, is not seen. Ports
of the registry say nothing of who listens: that is `OwnAnswer`.

### EventLog and RunnerMetrics

State. `file` holds the three metric files of each server, written by the
runner in the order installed, pre-job, post-job; a content is a time stamp, or
`Bad` for what is too large or cannot be parsed. `got` is what the call in
progress has read, `at` how far it is with each server, `doomed` the servers
still to delete, `todo`, `cur`, `due` and `done` the loop of
`_issue_runner_metrics`. `EventLog` has two variables: `requests` counts the
deletion requests of a server, `issued` the events of each kind in the log.
`owed` and `excused` are history: the events that the metrics pulled by this
call hold and the log does not have yet, fixed when the pulls are through, and
the runners of the call that lost events for a reason that is known.

Actions. `PullFile` is `_pull_file_contents` with the parser, `PullBreaks` a
connection that fails (the runner goes on with the files it has), `PullRaises`
an error that ends the call. `StartDelete`, `DeleteServer` and `StartIssue` are
the order of `cleanup`, `flush_runners` and `_delete_runners_core`: all pulls,
all deletions, all events. `IssueRunner` asks GitHub for the job and counts the
events that are due (`Due`), with the durations that the code cuts at zero and
those it does not; `IssueRaises` is what `github_metrics.job` does not catch.
`IssueEvent` and `IssueFails` append one line or give up on the runner. Four
things excuse a runner: an installation that ends before it starts, a lookup
that raises, a write that fails, the end of the process. In
between files are written and servers vanish, and `Crash` ends any of it.

### CharmConfig and Charm

`CharmConfig` is an operator, not a state machine: `Accepted` is
`CharmState.from_charm` with the parsers of `src/charm_state.py`,
`Application` what `create_application_configuration` makes of the inputs,
`Runnable` the validators of `configuration/` and `openstack_cloud/` together
with what `build_pressure_reconciler` raises, `CloudInit` what a runner gets of
it, `PlannerLabels` and `RunnerLabels` what the two sides call the runners.
Texts are values of four kinds: not set, well-formed, malformed, and those with
a meaning of their own (an empty list of clouds, a path that is a repository).

State of `Charm`. `inputs` is the world: options, secrets, relations. `pending`
are the events that Juju owes the unit, `failed` the hook that Juju will run
again before any other, `hook`, `step` and `seen` the hook that runs, where it
is, and the inputs it runs on. `stored` is `_stored`, `conf` the inputs that the
service was last started with. `runners` are the kinds of idle runners that
exist: of which authentication, path, labels, clouds and image, and with which
cloud-init. `told` and `builder` is what relation data says of this unit.
`missed` and `untold` are history: a flush that was due and did not happen, and
a reconcile that did not tell the planner. A flush is missed when a hook that
asks for one ends in an error before it, when config-changed has stored a
change and then fails, and when no hook sees a change (`Overlooked`): options
are changed, a hook of another event makes the service run with them, and they
are changed back, so that what was stored and what is set agree. The next flush
of a hook makes good for all of these; the flush action of an operator empties
the fleet, but does not, because the service goes on with the configuration
that no hook looked at.

Actions. `Begin` starts a due hook; `Install`, `ReadState` or `RefuseState`,
`FindImage` or `MissImage`, `Setup` or `SetupFails`, `Flush` and `Commit` are
the order of `_on_config_changed` and its relatives, `_setup_state`,
`_reconcile` and `_check_image_ready`. `RefuseState` and `MissImage` are the
errors that `catch_charm_errors` turns into a status; `HookFails` any other:
what the hook stored and told is lost, what it did to the service is not.
`CreateRunner` is a running service; `FlushAction` the action of that name.
`SetOption`, `SetSecret`, `SetImage`, `SetPlanner`, `SetDebug`, `LeaderChanges`
and `Restarts` change the world at any time, and owe the unit the events that
the charm observes, and no others. Juju tells a unit of a new content of a
secret that it has read: one that the options name now, one that the running
hook or the service was given (`Referenced`), and perhaps others that it read
before.

### InstanceID and GithubRunnerPlatform

`InstanceID` has the names of `manager/models.py` as sequences of the parts
between hyphens, so that a prefix is a prefix of a sequence. Random suffixes
are one part; that Juju lets no part of an application name be a number is
what tells `app-1` from `app-1-1`.

State of `GithubRunnerPlatform`. `runners` is GitHub's list in its order, with
`online` and `busy`; `servers` the OpenStack project. Each unit has two
sessions: the calls that exclude each other by the lock, and
`GET /runner/check`, which takes none. A session has the servers it listed,
the pages it has read, what it found, the runners it chose to delete
(`targets`), and the state of its deletions. `Legacy` are the servers without a
`runner_id`. `made`
is history: whose instance is whose; `shifted` too: a runner on a page already
read has left, so that another moved up unseen.

Actions. `Register` (with the runner group, which it needs on an organization
only), `Launch`, `Undo`; `ListServers`, `ListPage` (one page of
`list_runners`), `Choose` (what every deleting call cleans up, and with `Picks`
what a flush, an idle or a busy one, or a scale-down, a soft or a hard one,
takes besides), `DeleteRunner` with its refusals and errors, `DestroyServers`,
`AnswerCheck`, `CallRaises`, `Crash`. `Doomed` is `_get_vms_to_cleanup`: the
listed servers without a `runner_id`, whatever GitHub says, and those of the
runners that GitHub deleted, or, for a busy flush and a hard scale-down, of all
runners that the call chose. Runners connect, take jobs and leave
whenever they like.

## 4. Runs

| Run | What it asks | Bounds |
|---|---|---|
| `reconciler_safety` | is every server counted, does the cap hold, does a pause hold, what happens after stop; do the loops implement `CappedFleet`; all of it with and without a planner | pressures 0, 1 and 3 (below, at and above the cap of 2), two servers at start, one deletion under way, two faults |
| `reconciler_liveness` | does the fleet settle; is a pause lifted; with and without a planner | pressures 0 and 2 around a floor of 1, no cap, a surplus at start, one fault of any kind, which includes a signal |
| `manager_safety` | do jobs survive, do registrations go first, are starting runners spared, against agents that move between the snapshots and the deletions; is the invariant of the proofs one | three instances: one legacy, one left by an earlier process, one new; all six calls; one fault |
| `manager_liveness` | is every useless slot freed, that of a legacy server included | two instances, two faults (a creation that fails and whose undo fails) |
| `cloud` | are the keys of a server kept, does one server of a name stay, do duplicates and orphaned keys go | two names, one of them there before; two faults (a duplicate, and a failure while it is dealt with); both listers |
| `cloud_launch` | violation, see section 7 | one name |
| `service` | are ports distinct, does a flush reach its own unit, is the configuration that was written in force; do files, lock and probe implement `PortRegistry` | two units with the same base port and one further candidate each, one change of configuration, two faults (a crash and a foreign program, two crashes, two failing hooks, ...) |
| `service_fallback` | violation, see section 7 | no further candidate |
| `metrics` | is every event of what was pulled issued, but for those lost for a reason that is named, does the log implement `EventLog`; is the invariant of the proofs one | two runners; stamps before and after the creation of the server, so that every duration may be negative; two deletion requests for each server, one fault |
| `charm` | is what the charm accepts runnable; is an active unit up to date, with its runners and the planner; does the service follow | 596 deployments in which one group of related options takes all combinations, and one deployment that goes on to change twice, also forth and back, with one failing hook |
| `charm_flush` | violation, see section 7 | one deployment, three changes: an option, a relation, the option again |
| `platform` | does a unit claim only its own, does a listing tell the truth, does a registered runner keep its server, but for what `Legacy` and `HardCalls` name; is the invariant of the proofs one | units `runner/0` and `runner-one/0` and a runner of neither, each unit with a server of earlier times, one of them without `runner_id`; pages of two; the first unit makes all creating and deleting calls, the second is checked meanwhile; two faults, among them the departure of anybody's idle runner |

Why the bounds are enough to say something. The count of the reconciler goes
wrong, if at all, by one server that is missed once: fleets of two and three
with one server gone astray show it, and what is proved holds for any number.
The races of `RunnerManager` are between one runner and one call; three
instances let a second runner push the scale down to take another. A port
conflict is between two units. A page that shifts needs one runner more than a
page holds; what another unit does is seen of a listing as runners that come
and leave, which they do of themselves. The events of one runner depend on those of another only through an
error that ends the call, for which two are enough. A flush is lost, or not,
between two changes of the world and one hook that fails; which values the
charm accepts depends on one option, or on a group that the deployments combine
in full. Faults are bounded, so that "eventually" is after the last of them; a
fault is never needed for progress. The ranges that the guards leave open are
bounded by the faults (`limbo`, `unreported`, `lateCalls`) or by constants
(`MaxGoing`, `MaxVersion`, `MaxRequests`, `changes`).

`SYMMETRY` is used in `service` and `metrics`, whose units and runners are
alike, so that a permutation of them maps behaviours to behaviours; these runs
check safety only, for which symmetry is sound. Deadlock is checked in every
run but the two of `Charm`: there a world that changes no more leaves a unit
whose hooks have all run, and nothing is left to happen. Elsewhere the timer,
new calls and new hooks keep the models going, and `AllRemoved` stands for a
machine that lost its last unit.

Every property of a passing run has a mutant: an operator named as the mutant
in its comment, in the module that defines what it replaces. With it the
property fails under the configuration of the run.

## 5. Fairness

`PressureReconciler`: threads that are ready to run do run; calls to OpenStack
and GitHub return (clients have timeouts); the lock is had eventually by
whoever keeps asking, which is strong fairness of the `Acquire` steps: a
`threading.Lock` promises no order, but the loops leave it for the length of a
stream wait or a timer interval, so that a waiter is not passed over for good.
The timer fires again and again. A process that ended is started again, by
`Restart=` of its service file after an error and by the charm otherwise. The
planner is not supposed to send anything, no signal is supposed to arrive, no
fault to happen.

`RunnerManager`: the reconcile loop calls `cleanup` again and again, between
other calls (strong fairness, since it competes for the lock); a call that
began goes on; time passes, the cloud finishes deletions, GitHub notices an
agent that is gone. Agents need not connect, jobs need not end.

`OpenstackCloud`: the same for the calls that list and that expire keys; both
are part of every reconcile tick, whose length is bounded because no launch or
deletion waits for another. Listing is fair only when there is a server to
list, since an empty list has nothing to do.

`Charm`: Juju runs the hooks that are due, one after the other, runs a failed
hook again, and a hook that runs goes on (weak fairness of both together). The
world need not change, and a hook need not fail.

`ManagerService`, `RunnerMetrics` and `GithubRunnerPlatform` have no fairness:
their properties are safety properties.

## 6. What is proved

Proof modules are checked by TLAPS without any unproved step, for every value
of the constants that the named assumptions admit.

`PressureReconcilerProofs`, from `ConfigAssumption` (pressures, floor and cap
are integers, of any sign) and `BoundAssumption`: `TypeCorrect`,
`CountCoversFleet`, `CapHolds`, `PauseIsKept`, `StopBoundsWork`. None of these
properties is inductive. `FleetCounted` speaks of states in which the lock is
free; to carry it through a critical section the invariant says what each of
them knows: a create call has started from the count and has made so many
since (`CallInv`), a scale down has started from everything that was listed
(`DeleteInv`), and only one thread is inside, the one that has the lock
(`LockInv`). `BoundedWorkAfterStop` allows each loop one critical section after
stop; only a create loop without a planner, which looks at stop nowhere between
its first sync and its one create call, may have both. It needs to know that a
loop which entered late has no other handler ahead of it (`StopInv`). `ImplementsCappedFleet` is the
refinement of `CappedFleet`, step by step: the entry of the create loop is an
`Order` or leaves the fleet alone (`EnterCreateOrders`), a sync is a `Count`
(`SyncCounts`), the return of a call a `Report`, an error or the end of the
process an `Abandon` (`ErrorAbandons`, `ExitAbandons`). That there is never a
second call to order is `LockInv`; that an order keeps to the cap is what
`CallInv` says of the state after it. `CappedFleet` needs no more than that to
keep to its cap: `CapStays`.

`RunnerManagerProofs`, from `InstancesAssumption`: `TypeCorrect`,
`PlatformIsFirst`, `JobsDoSurvive`, `StartersAreSpared`. The argument: what
GitHub deleted in a gentle call is unregistered and stays so, because only a
create call registers and calls exclude each other (`CreateApart`); the doomed
servers of a gentle call are those and the legacy ones; a busy runner is
registered, so its server is not doomed. Without `CreateApart` a runner could
be registered again between the two deletions. `StartersSpared` is about a
snapshot that grows old: cleanup decides on a list of servers that is read
before the list of runners, and deletes after both. The invariant says that
what the snapshot shows to be gone, in error or too old stays so
(`ListingStays`, `CleanupSpares`): no server comes up within a call but one
whose request was abandoned, which nobody waits for.

`OpenstackCloudProofs`, from `NamesAssumption` (finitely many names, and a
value that is none of them): `TypeCorrect`, `KeysAreKept`, `LastServerIsKept`.
An expiry deletes what its list of servers did not name. That is safe because,
while it runs, no server comes up that anybody waits for (`ExpirySpares`):
calls exclude each other (`WorkInCalls`, `ListsUnderLock`), a name is launched
once, and a request that may be served late is of a launch that failed
(`LaunchedOnce`). The last server of a name stays because the server that every
listing keeps is the same one: servers get their ranks in order
(`RanksInOrder`, with `RanksLeft` for the rank the next one needs), so the
first server of a launched name is and remains the first (`FirstIsUp`), and
what any listing has still to delete, whenever it looked, has an earlier server
of its name (`LaterOnly`).

`ManagerServiceProofs`, from `ServiceAssumption`: `TypeCorrect`,
`PortsStayApart`, `FlushIsAnswered`, `ConfigurationIsApplied` and
`ImplementsRegistry`, for any number of units, any bases and any number of
candidates, hooks that fail anywhere. Ports stay apart because what
the holder of the lock has read remains an upper bound of what is persisted
(`UsedIsCurrent`), which needs that a hook allocates only for a unit without a
port and that only the holder persists one (`LockIsHeld`, `PortIsKnown`). The
types need that a service file goes before the port file (`ServiceHasPort`):
systemd never starts a service whose port is not a number. On top of these
facts (`PortInv`) stand those of the processes (`ProcessInv`): the process of
an installed unit has the port of its port file (`ProcessHasPort`) and listens
on no other (`ListenerIsUp`), so that an answer on a port is the owner's, since
ports are apart; a service is off while its configuration is written, unless
systemd was about to start it, and what it has read afterwards is what was
written (`ConfigurationIsRead`). `ImplementsRegistry` is the refinement of
`PortRegistry`: the write of a candidate is an `Allocate` because what was read
under the lock is current when it is written, or a `FallBack` because a unit
that found every candidate taken writes its base port (`WriteIsAllocation`,
from `UsedIsCurrent` and `CandidateIsFree`); the removal of the data is the
`Release` of a port there is (`RemovalIsRelease`); and a hook that dies while
it writes leaves no port where there was none, since no hook with a port
allocates (`NoPortStays`, `PortIsKnown`).

`RunnerMetricsProofs`, from `MetricsAssumption` (any runners, any time stamps,
any durations that GitHub may answer): `TypeCorrect`, `NothingIsForgotten`, and
`ImplementsEventLog`, the refinement of `EventLog`: the initial log is empty,
`DeleteServer` maps to `Request`, `IssueEvent` to `Issue`, every other step
leaves both variables alone. That `IssueEvent` is an `Issue` needs that the
runner in hand has a deletion request without an installed event
(`FreshInv`, which rests on what each phase of a call has left to do,
`PhaseInv`), and that its events come in order (`Log!Ordered`). That nothing is
forgotten rests on the lemma `PresentIsDue`: whatever the clocks and GitHub
say, every event of which the metrics have the files is accepted, because the
durations that may be negative are cut at zero. The duration of the
installation is not: where it is negative the runner gets no event at all.
`NothingForgotten` names this loss, and those by a lookup, a write or a process
that fails (`excused`); it does not rule them out.

`CharmProofs`, from `CharmAssumption` (options refer to secrets there are, what
is not set is not malformed, labels are lists): `TypeCorrect`;
`AcceptedAlwaysRuns`, by `AcceptedIsRunnable`, which goes through the validators
of both programs side by side; `ActiveAlwaysCurrent`, `NoneIsStale`,
`PlannerAlwaysKnows`. `ActiveIsCurrent` needs to know, at every point between a
change of the world and the end of a hook, that either a hook that reconciles
is due, or the one that runs has seen inputs that make the same application
(`CharmInv`, with `Same` for that equality); the work is in `WorldStep`: a
change that is no event for the charm changes nothing that it looks at.
`PlannerKnows` follows with `TellInv`: what the planner was told is what the
configuration says, because both sides compute the same labels
(`FlavorIsLabel`).

`NoStaleRunners` needs more, since a flush comes after the configuration it is
for, and other hooks apply configurations without a flush. The invariant
(`RunnersInv`) compares three inputs: those of the world, those a hook has seen
and those in force. Unless a hook that flushes is due, each is at most newer
than the one before (`Newer`: the same image, no further connection for
debugging, no new content of a secret that the older inputs refer to;
`NewerInv`), and a changed option is seen by config-changed (`CoreInv`).
Runners then fit the configuration in force, or a flush is to come (`Excused`),
or the history has one that was lost (`FitInv`).

The attempt to prove `NoStaleRunners` from an earlier form of the model failed,
and for good reasons. The property held on the instances that had been checked
and was false on larger ones, in three ways, each confirmed by a run of TLC.
First, options that are changed, applied by a hook of another event, and
changed back leave runners of the first change; the history had noted this for
config-changed alone (now `Overlooked`, for every hook that reconciles, also
one that fails after the service was started). Second, an operator's flush
action cleared the history of a flush that was missed, although the old
configuration stays in force and makes stale runners again. Third, a secret
that the options name no longer, and that the service still has, changed
without an event, which Juju does not do (now in `Referenced`). The instance of
the run `charm` was extended so that it contains the first of these.

`GithubRunnerPlatformProofs`, from `PartsAssumption`, `UnitsAssumption`,
`EarlierAssumption` and `PlatformAssumption` (any units, any page size, any
runners of others): `TypeCorrect`, `OthersAreSafe`, `PagesAreEnough`,
`NoRunnerLosesItsServer`. Names are told apart by `UnitsApart`: where one
prefix ends in a number, a longer one has a word. What a listing has seen is
`PageInv`: as long as nobody on a page already read has left, every runner of
the unit on those pages is among the found; the steps of GitHub shift the list,
and `ShrinkFact` and `LeaveFact` say how. `ClaimInv` has that a runner which a
session saw deleted stays off GitHub, since suffixes are not used again, so
that its server may go. `NoRunnerLosesItsServer` has the two exceptions of the
code: servers without a `runner_id` go at every deleting call of their unit,
and a busy flush or a hard scale-down takes the servers of all runners it
chose, refused or not (as `tests/unit/manager/test_runner_manager.py` expects
of a busy flush). In every other case the server of a registered runner stays,
which is what idle flushes, soft scale-downs and cleanups rely on.

The inductive invariants are named `IInv` (`CharmInv`, `RunnersInv` and
`TellInv` in `CharmProofs`). TLC checks `IInv` in the safety runs of modules
`RunnerManager`, `OpenstackCloud`, `RunnerMetrics` and `GithubRunnerPlatform`;
the others were checked before they were proved, on the instances of
`reconciler_safety`, `service` and `charm`.

Every invariant and every safety property of a step that a run checks is
proved. Model-checked only are the liveness properties (`Converges`,
`PauseIsLifted`, `EventuallyFreed`, `DuplicatesGo`, `KeysReclaimed`,
`Follows`), which the proof system cannot derive from fairness. That the three
properties of section 7 fail is shown by TLC.

## 7. Findings

Where the code does not do what the repository says, a run shows it:

1. `LaunchReturns`: the metadata of a new server has a field `prefix` that
   `RunnerMetadata` does not take, so `launch_instance` ends in a `TypeError`
   although the server was made, and so does every later listing of it.
2. `FallbackSurfaces`: with all candidates taken the base port is used "and
   systemd start will fail": it does not, the service is `Type=simple`; the
   readiness probe is answered by the service that has the port, and a flush
   empties the runners of that unit.
3. `NoFlushIsLost`: "Idle runners will be flushed and restarted"
   (`docs/how-to/debug-with-ssh.md:24`) when the debug relation is made. If the
   charm refuses an unrelated option at that moment, the error is caught, the
   event is over, and the hook that follows the correction of the option
   configures the connection without a flush: the unit is active and its idle
   runners lack the connection.

Observations without a run of their own, the service first:

- The signal handler promises to wait for all threads, but its joins time out
  after 60 seconds (`cli.py:38-39`, `cli.py:53`) and the process exits in the
  middle of an operation. The next process counts again from the cloud, so
  nothing is lost but the servers in the making.
- A create loop without a planner does not look at the stop event between its
  first sync and its create call (`pressure_reconciler.py:141-150`): a signal
  that arrives before the sync is followed by a whole create call.
- The server of an earlier release, without `runner_id` in its metadata, goes
  at the next cleanup, flush or scale-down of any kind, although its runner may
  have a job (`manager/runner_manager.py:766`, `:775`).
- `delete_runners` deletes the servers of all runners it chose, those included
  that GitHub refused to delete. It has no such caller at present.
- Of two servers with one name the oldest is kept, the docstring says the
  latest (`openstack_cloud/openstack_cloud.py:649-650`).
- A job lookup whose token is refused, or that does not reach GitHub, is no
  error that `metrics/github.py` catches: it ends the reconcile loop, and with
  it the process, and the metrics of the runners still to issue are lost.
- The duration of an installation is the one duration that is not cut at zero
  (`metrics/runner.py:513-522`): where the clock of the server is behind that
  of the manager it is negative, `RunnerInstalled` refuses it, and no event of
  the runner is issued (`metrics/runner.py:464`).
- A post-job file written between the pull and the deletion of its server is
  never read.
- `metrics/runner.py:545-549` observes the idle time of a runner with its
  operands swapped, so that the histogram gets negative values; the event does
  not.
- A name that is too long for a hostname raises `InstanceIDInvalidError`
  (`manager/models.py:107`), which nothing catches: the create loop and the
  process end, at every start again.
- Runner groups are looked for among the first 100 of an organization.
- While a page shifts, a runner that is idle or starting may look gone and be
  counted out; `ServersOutliveRunners` says that its server survives that.
- `GET /runner/check` does not catch `PlatformError`.
- Two Juju models with units of the same names on one path and project would
  claim each other's runners: names are unique in a model only
  (`UnitNames` of `InstanceID`).
- A security group counts as complete by what the code lists of its rules;
  fields that are not listed may differ.
- `docs/adr/001_pressure_reconciler_design.md:52` names a configured fallback
  for a planner that cannot be reached; the code
  (`pressure_reconciler.py:160`) falls back to the last pressure or
  `min_pressure`, whichever is larger, and has no such option.
- What the charm accepts and the service refuses (`Unchecked` in
  `CharmConfig`): a list of clouds that is empty, and an endpoint of the planner
  that is no URL. A malformed proxy of the model raises an error that the
  install and upgrade hooks do not catch (`Doomed`).
- The handlers of `secret_changed` and `upgrade_charm` never set a status, so
  that one that was blocked by a secret stays so until another event;
  `_on_start` sets `active` whatever the options say.
- Departures of the image and debug relations are not observed.
- The image builder gets the credentials of the cloud when it is related, and
  not again when they change.
- A new leader tells the planner at its next reconcile only (`untold`).
- A change of the runner group, the flavor label, the plaintext clouds or the
  proxies flushes nothing. `aproxy` without redirect ports is silently off.
- `src/charm_state.py` declares patterns on the fields of a debug connection
  with an argument that its version of pydantic ignores, and has a parser of
  the mirror that nothing calls; the label of a flavor appears twice among the
  labels.
- The charm object of the remove hook persists a port again after the stop hook
  cleaned up (`src/charm.py:281`, `src/manager_service.py:276-277`): the data
  directory of the unit stays on the machine and holds its port.
- A service that awaits its automatic restart is not active, so neither `setup`
  nor `cleanup` stops it. After `setup` it may run with the previous
  configuration (`docs/how-to/change-path.md:5` promises runners for the new
  one), after
  `cleanup` it may run without a service file, and answer for a unit that gets
  its port. `ConfigurationApplies` and `OwnAnswer` name these exceptions
  (`raced`, `life`).
- When the HTTP server cannot bind its port, werkzeug raises `SystemExit`,
  which `except Exception` of `thread_manager.py` lets through: the thread ends
  unreported and the process goes on without an HTTP server (`deaf`).
- The handlers of `MissingServerConfigError` in the reconciler are not
  reachable: it is a `RunnerError` where it is raised, and is caught below.

## 8. Not modelled

- The security group of the servers and the choice of an OpenStack API version
  are planned or change nothing; what they can do to a launch is in its faults.
- Parsing of the planner's stream is planned (section 2); what comes out of it
  is an update, an error or silence.
- The composition of the loops with the calls on single runners is planned;
  until then each module states by contract what it takes of the other.
- Prometheus metrics and the gauges of the HTTP server: nothing reads them back.
- GitHub's answer 404 to a deletion counts as deleted. That is the behaviour of
  PyGithub as the client uses it; `github_client.py` re-raises other errors.
- `get_runner_health`, `get_runner` and `check_job_been_picked_up` of the GitHub
  provider have no callers. Token refresh changes no runner.
- Secrets that are granted or revoked while a hook is due, and malformed debug
  connections that go away again.
- Cloud-init and job templates: shell scripts that run outside these programs;
  `CharmConfig` has what they are rendered from.
- What installation does to users, packages and the services of earlier
  releases; log rotation, which writes one file; vendored charm libraries.
