# A TLA+ model of ICoPa

ICoPa profiles networked robot and cloud workloads. A user uploads an inventory
of VMs, runtime environments, scenarios (topologies) and experiment plans; the
Hub compiles a plan into runs, executes each run on the VMs over SSH from a
Celery worker, collects metrics, provisions cloud VMs on request and probes
latencies between VMs online. This directory holds TLA+ models of the parts of
it where several actors share state, TLC instances that check them, and TLAPS
proofs.

## Inventory

| component | state | operations | hard behaviour |
|---|---|---|---|
| profiling run lifecycle (`icopa_hub/profiling_exps`: `api.py`, `models.py`, `celery_tasks.py` 653-766 and 1447-1500, `services/artifacts.py`) | `ProfilingExperiment` row (status, generated plan, `current_gen_version`), `ProfilingRun` rows, Celery messages | upload, delete, generate (plain, replacing a generation, replacing a run), start, rerun (new, in place), run delete, bulk delete, the task, the dispatcher that claims the next run | no locks: handlers check, then write; a task works with rows it loaded minutes ago; a refused message is executed in the caller's process; duplicates; deaths |
| plan compilation (`icopa_core/task_executor`: `exec_pipeline_gen.py`, `targeting.py`, payload checks of `action_center.py`) | none | entries, templates, execEdge groups, axes, include and exclude filters, placeholders, targets | axes of groups that conflict, filters over a product, an edge selected twice |
| run execution (`celery_tasks.py` 446-650 and 767-1446) | tracker of runs, phases and actions, counts and verdict of the row, inventory rows of the VMs | inventory resolution, connectivity prechecks, phases, actions, stop on failure, verdict, dispatch of the next row | partial failure; which entries are marked skipped; a verdict that must agree with its parts |
| action executors (`icopa_core/task_executor`, `icopa_core/connectors`) | the containers of the VMs | connectivity, ping, routers, stress, responder, sender, clean-ups, metrics, as series of SSH commands | a command is refused, lost, or carried out without an answer; containers end or crash between two commands |
| online probing (`icopa_hub/micro_probing`) | `ProbeSession`, `ProbeWindow` rows, one message per session | create and dispatch, stop, the task's claim, windows, gaps and end, lookups | stop against a measurement in flight; late and duplicate messages; half-failed dispatch; inventory archived between windows |
| cloud provisioning (`icopa_hub/cloud_provisioning`) | `ProvisioningVM` row, rows of stop, start and check requests, linked inventory VM, one message per task | upload, create, delete, start, stop, check and their tasks | tasks end in any order and save terminal statuses unconditionally; a check writes the status a create works under |
| cloud providers (`icopa_core/cloud_provisioning`) | VM, network interface, public address, security group at Azure; the ids a row keeps | create, delete, lookup, stop, start as series of requests with deadlines | leftovers of failed attempts; resources that refer to each other; a request that times out after it was accepted; a VM that is evicted |
| scenarios (`icopa_hub/scenarios`) | `Scenario` row with three check statuses and a verdict, `ScenarioValidationRun` rows, task messages | upload, delete, clean, validate and the validation task with its checks, probes and collection | superseded tasks writing into newer rows; every writer computes the verdict from a copy; a run that is given up while it executes |
| inventory (`icopa_hub/inventory`) | VM rows with two JSON columns, credentials, stop requests in a result backend | upload, delete, check, stop a container, poll; notes of other tasks | everybody saves a whole column from the copy he loaded minutes ago |
| Kubernetes connector, runtime environments, accounts, CLI, GUI, action scripts, observability, configs | files and rows written by one request | | I/O and presentation |

Components meet in three places only: the database rows, the Celery broker
(Redis, early acknowledgement, `apply_async(retry=False)`) and the remote hosts.
Profiling, probing, scenarios and inventory lock nothing and have no transaction
that spans two statements, so a step of their models is one statement on shared
rows. The tasks of provisioning lock the row while they save
(`select_for_update` in an `atomic` block): there a step is one such block, and
what is unprotected is the time between two blocks of a task and between the
check and the save of a handler. The plan compiler has no state; an executor and
a provisioner call work alone on the remote host, and their steps are commands.

What makes each component correct:

* run lifecycle: one run of an experiment at a time; a RUNNING run is in
  somebody's hands; a generation is executed to its end; the
  status of the experiment is the one of its runs; deleted runs stay deleted; run
  rows never outlive their experiment.
* plan compilation: each selected edge and each combination of its axes that
  passes the filters becomes one run.
* run execution and executors: what is reported as success is so on the VM;
  tracker, counts and verdict agree; nothing is begun behind a failure that
  stops; latencies are measured one run at a time; a started generation settles.
* probing: one loop per session, one active session per pair, terminal statuses
  are final, windows in order, every session ends.
* provisioning: an inventory VM is usable only while its cloud VM exists, a
  deleted VM stays deleted, every request reaches a terminal status.
* providers: ready means every resource is ready, deleted means none is left,
  leftovers never block the next attempt, every call returns.
* scenarios: the verdict is the one of the stored checks; a scope is validated
  once at a time; only probes that succeeded are offered for collection.
* inventory: the answers of a stop request tell what its task did and settle;
  a row nobody overlapped lists the containers that run.

## Modules

| module | what it is |
|---|---|
| `ProfilingRuns` | the run lifecycle: handlers, task and dispatcher, one action per statement on shared rows |
| `ProfilingRunsProofs` | theorems of `ProfilingRuns` |
| `PlanCompilation` | the compiler as operators, and what it owes |
| `PlanCompilationProofs` | lemmas on the compiler's lists, and that it compiles what it owes |
| `VmExecutors` | one executor at a time, command by command, and the containers of the VMs |
| `RunExecution` | the task that executes the runs of a generation; composes `PlanCompilation` and `VmExecutors` |
| `RunExecutionProofs` | theorems of `RunExecution`; its first lemmas are those of `VmExecutors` |
| `ProbeContract` | abstract specification: what a probe session promises its owner |
| `ProbeSession` | the handlers, the broker and the probing task, which implement `ProbeContract` |
| `ProbeSessionProofs` | theorems of `ProbeSession`, the refinement among them |
| `CloudProvisioning` | one provisioned VM: handlers, five tasks, its inventory VM and the VM in the cloud |
| `CloudProvisioningProofs` | theorems of `CloudProvisioning` |
| `ProvisionerContract` | abstract specification: what a provider call promises the task that makes it |
| `CloudResources` | the calls of the Azure provisioner, request by request, which implement `ProvisionerContract` |
| `CloudResourcesProofs` | theorems of `CloudResources`, the refinement among them |
| `ScenarioValidation` | one scenario: its handlers and the validation task |
| `ScenarioValidationProofs` | theorems of `ScenarioValidation` |
| `InventoryVm` | one inventory VM and all writers of its row |
| `InventoryVmProofs` | theorems of `InventoryVm` |
| `MCProfilingRuns`, `MCRunExecution`, `MCProbeSession`, `MCCloudProvisioning`, `MCCloudResources`, `MCScenarioValidation`, `MCInventoryVm` | instances for TLC |

### ProfilingRuns

`exp` is the experiment row, `runs` the run rows by primary key (UNUSED before
the key is given out, DELETED after), `queue` the copies of a run's task message
in the broker, `proc` what every Hub thread and worker slot is doing. A
process's record holds exactly what the Python frame holds across statements: the
run id, the in-memory experiment `snap`, the ids listed by a bulk delete, the
rows still to be created. `snap` matters: `sync_status_from_runs` compares the
derived status with the status *in memory* (`SyncDerive`) and saves only when they
differ (`SyncSave`).

A request is a first read that also makes the checks of its handler
(`StartRead`, `GenerateRead`, ...), then one action per statement. A request
answered with an error before anything is written is a stuttering step. Threads
that get a refused message execute the task themselves, so every action of the
task is an action of handlers too. What a run *does* on its VMs is the single
choice `ok` of `TaskFinish`: `celery_tasks.py` 767-1446 changes no status.

One user owns everything: all queries filter by the owner, so users do not meet.

Faults are chosen per instance: `refuse` (the broker takes no message),
`lateRefuse` (it took it and the answer was lost), `redeliver` (the visibility
timeout puts a message back that still waits in a prefetch buffer), `claim` (the
claim's statement fails), `preview` and `artifacts` (files cannot be written or
removed), `crash`.

`DeleteExperiment` is one statement and needs no handler record: it may fall
between any two steps of the others, as the request of another thread would.

### ProbeSession and ProbeContract

`status`, `pair` and `windows` are the rows; `usable[p]` says that both VMs of a
pair are unarchived and owned; `client` is a handler between insert, dispatch
and the FAILED of a dispatch that raised; `worker` is a task between statements.
Every change of status is a conditional update, one action. The insert of
`Create` is merged with the validation before it; a VM archived between the two
is found by the first `Refetch`.

`ProbeContract` has only `status`, `results` and the set of sessions with a
measurement in flight. `KeepsContract` maps `results` to the windows and the set
to the workers at `measure`. A stop during a measurement, a lost worker, a late
message or a duplicate must all be steps of the contract or no step at all.

### CloudProvisioning

`row` is the `ProvisioningVM` (its status, and `known`: result_data has the
subscription and ids a delete needs), `inv` the inventory VM linked to it
(`present` is the foreign key), `cloud` the VM at Azure. An operation is a number
that stands for the task id and, for a stop, start or check, for its request row
(`op[i].st`); it is in the handler (`client`), in the broker (`queue`) or with a
`worker`. `lost` is a history variable: the operations whose message was refused
or whose worker died.

A handler is `Read` (load the row, make the checks, `Accepted`), `SaveStatus` or
`SaveRequest`, and `Send`. A task is a first block (`BeginCreate`, ...), the
calls to Azure without a lock, and a last block (`FinishCreate`, ...,
`FailLifecycle`, `FailRequest`). Creating and deleting are two steps each, since
Azure carries them out while the task polls (`Settle`). `Break` stands for every
way a call ends in an error, deadlines included; `SwitchPower` may change the
power of the VM and still report an error. `cloud` starts as `absent` or `on`: a
template may name a VM that exists already, which checks and creates adopt. The
owner may remove the inventory VM at any time (`RemoveInventory`).

`Exclusive` names the kinds of operation the client never overlaps with others:
the statuses protect create and delete from each other, and a check changes the
status without being such an operation. Left out are duplicate deliveries: the
tasks make no claim on their row, so a duplicate of a lifecycle message simply
runs again.

### PlanCompilation, VmExecutors and RunExecution

`PlanCompilation` translates `compile_experiment_plan`: `Entries` are the phases
with those of the groups behind them, `MergedAxes` and `Product` give the
variants of an edge, `Kept` applies include and exclude, `Resolve` and `Render`
fill in targets and values, `Compiles` collects every reason to refuse a plan,
`CompiledPlan` is the result. `Combinations` and `Owed` are the reference:
functions from axes to values without any order, whose number and content the
plan must meet (`RunsOwedOnce`). `Product` follows the code's loop over the axes,
one axis wider at each step. `WellFormed` says which values an experiment has as
lists, which are those the code reads as lists from its file. Names of nodes and
axes are numbers in their alphabetical order, and so are the values of axes.

`VmExecutors` has the containers of each VM in `box` (`up`, `done`, `broken`)
and one executor `exec`, which walks through `Steps` as its Python method does:
the question whether a container runs, the command, the check that it is up, the
wait for a sender, the verification. An answer is `ok`, `lost` (the command never
arrived), `late` (carried out, not answered), `refused` where the command itself
may refuse, or `kept`: `docker rm -f ... || true` says ok although Docker kept the
container. Docker refuses to start a container whose name is taken (`Conflict`).
A preset knows its own container and the names of former versions of it, so
starting or cleaning the responder leaves the sender of its VM alone (`Removes`).
With `cleanup_only` among its parameters a preset only removes its container; a
profiling preset does so in every cleanup phase too (`PresetExecutor`).
`disturbed` is a history variable: a question about a container's state was not
answered, or a container crashed; a start that got no answer is no disturbance,
since its executor then reports a failure. `ToldTheTruth` says nothing of the
presets that only remove a router or a stress container: they do not look
whether it is gone. The preset catalogue is not part of the repository: a preset
is what its executor sends, one of `Presets`.

`RunExecution` joins the two: `Generate` compiles a plan and makes the rows,
`Start` begins a task, `BeginRun`, `BeginPrecheck`, `BeginPhase`, `BeginAction`,
`EndAction`, `EndPhase`, `EndRun` and `FinishTask` are the loops of the task, and
`DispatchNext` hands on. `task.verified` is the set of VMs the task does not check
again. An experiment is generated and started once in a behaviour: how requests
and tasks overlap is the subject of `ProfilingRuns`, where all of this is the
choice `ok` of `TaskFinish`.

### CloudResources and ProvisionerContract

`res` is the state of the four resources and `row` what the task saves (`known`,
`ids`, and the history `whole`: the ids are those of a create that succeeded).
A call creates (`Prepare`, then `Put` and `AwaitReady` for each resource,
`GetAddress`), deletes (`Delete`, `AwaitGone` in the order of the code), looks up (`View`)
or switches power. `Put` and `Delete` may be refused or time out after they were
accepted; `Settle` is Azure, which may give up, and `Evict` takes the power of a
spot VM or, by the eviction policy of its template, the VM itself. A create that
failed leaves the subscription and ids of an earlier success in the row
(`SaveCreate`: `update_execution_status` saves the status only), so that a later
delete goes by those and must find what the failed create left as well. Calls
follow one another: `CloudProvisioning` is about tasks that overlap and takes each
call for the two steps `ProvisionerContract` allows, which is what
`KeepsProvisionerContract` shows. A VM that is evicted for good after a create has
seen it is ready leaves a row that says SUCCEEDED; `RowTellsCloud` excepts that
VM (the history `evicted`), since the code looks once and then saves.

### ScenarioValidation

`scen` is the `Scenario` row, `vruns` the `ScenarioValidationRun` rows (status,
scope, whether metrics are offered, and the history `given`: a clean or a release
gave the run up). A validate request looks for a run of its scope in flight
(`LookupFound`, `LookupNone`), releases a stale one, creates its run, sends,
stores the task id and marks the scenario, each a statement. The task runs the
checks of its scope (`TaskCheck`), selects and collects metrics (`CollectSelect`,
`CollectDone`) and saves scenario and run one after the other. `proc[p].seen` is
the copy of the check statuses a process loaded: it writes them all back, those it
was not asked for as it loaded them. The `try` block of the task goes on after the
last save (`TaskReturn`); what raises there takes a saved outcome back
(`TaskRaise`, `TaskFailScenario`, `TaskFailRun`). A scenario uploaded again after its deletion
is a row with a key of its own, and another instance.

### InventoryVm

`row` has the two JSON columns: `managed` (containers) and `ops` (the last stop
operation of each container, in metadata). Every writer loads the row, works, and
saves one whole column from `proc[p].seen`. A stop request is `StopRead`,
`Enqueue`, `SaveOp`; the task is `TaskLoad` to `TaskReport`; a poll reads the row
first, then the backend (`Poll`, one step, since it writes nothing). Phases of
scenarios (`PhaseBegin` to `TrackSave`) and notes (`NoteRead`, `NoteSave`) are the
other writers. A VM that does not answer the task is saved without its containers
(`unreachable`). An upload after a delete makes a row with another primary key,
which no task of the old row finds: the one row of this model does not come back,
and `Upload` needs it present. `docker stop` and `docker rm` are one step. `trust` is a history
variable: whether the row was undisturbed since a check. Left out are the status
and system information of a VM, its credentials' files and the access history.

## Runs

All instances set `CHECK_DEADLOCK FALSE`: clients may stop sending requests, and
then everything comes to rest.

| run | instance | shows |
|---|---|---|
| `ProfilingOneClient` | 1 thread, 1 worker, 3 keys, 2 generations, plans of 2 that stop on failure, all requests, deletes of the experiment by other threads, all faults but crashes and duplicates | `TypeOK`, `NoOrphanRunning`, `RowsBelongToExperiment`, `NoResurrection` |
| `ProfilingSerial` | patient client, 2 workers, 5 keys, 3 generations, all requests but replaceGen, refused messages, failed claims and artifacts | `AtMostOneRunning`, `NoDoubleExecution`, `StatusFollowsRuns` |
| `ProfilingClaims` | patient client, 2 workers, 4 keys, 1 generation of 2, generate, replaceGen, start, bulk delete, duplicates and crashes | `OneSenderPerRun`, `NoActiveRunDeleted` |
| `ProfilingLiveness` | 1 thread, 1 worker, plans of 3, fairness | `GenerationDrains` |
| `RunExecution` | 3 VMs, 3 edges, about 900 experiments compiled and 11 executed, 2 faults, fairness | `TypeOK`, `EachCombinationOnce`, `ReportsAreTrue`, `TrackerAgrees`, `MeasuredAlone`, `GenerationSettles` |
| `ProbeSafety` | 1 thread, 2 workers, 2 sessions of one pair, 2 windows, all faults | `TypeOK`, `OneLoopPerSession`, `OneActivePerPair`, `KeepsContract` |
| `ProbeLiveness` | 1 thread, 1 worker, 2 sessions on 2 pairs, all faults but a crash | `SessionsEnd` |
| `ProvisioningOneClient` | 1 thread that makes checks alone, 2 workers, 3 operations, refused messages and crashes, fairness | `TypeOK`, `OneLifecycleTask`, `DeletedIsFinal`, `ArchivedIsFinal`, `OperationEnds` |
| `ProvisioningRevived` | the same without faults, checks overlap the rest | violates `DeletedIsFinal` |
| `CloudResources` | 4 templates, deadlines of 2 polls, 3 faults, calls in any order, fairness | `TypeOK`, `RowTellsCloud`, `UndisturbedSucceeds`, `KeepsProvisionerContract`, `CallsEnd` |
| `ScenarioValidation` | 1 thread, 1 worker, 2 runs, 2 scopes (a probe of the actions, a collection with every check), refused messages, errors and one death, fairness | `TypeOK`, `VerdictAgrees`, `OneTaskPerScope`, `OfferedProbesSucceeded`, `RunsEnd` |
| `InventoryVm` | 1 thread, 1 worker, 1 container, 2 stop requests, a phase of 2 actions, 1 event, fairness | `TypeOK`, `AnswersTellOutcome`, `ListedIsRunning`, `AnswersSettle` |

`ProvisioningOneClient` and `ProvisioningRevived` belong together: a check saves
SUCCEEDED for a VM whose create task has not ended; the VM can then be deleted,
and the create task takes it out of DELETED. `PROJECT.json` has the lines that
say otherwise under "findings".

The properties of `ProfilingSerial` and `ProfilingClaims` are stated for a client
that waits for the answer and for the worker (`Patient`, a guard of `Accept` and
`DeleteExperiment`), and that is what the code needs. With an impatient client
TLC finds that between a task's last save and its dispatcher's claim no run is
RUNNING, so that a start gets through its 409 check and two runs of one
experiment execute at once; and that a sync which compares with an old in-memory
status does not save, and nobody corrects the stored status afterwards.
`NoActiveRunDeleted` needs the patience too: the RUNNING check and the delete of
a replacing generate are a plan compilation apart. What it does say is that a run
a dead worker left RUNNING is refused by the handlers and so stays for the user
to see. A client that does not wait is not stopped by the code, so of these five
only `OneSenderPerRun` is stated as a theorem: a patient client may still meet
duplicated messages and deaths there. The others are checked for what they catch
at rest: a dispatch before the outcome is saved, a message that was taken and is
executed in the handler too, a path without its sync, a guard that lets RUNNING
rows through. `RowsBelongToExperiment` needs a delete of the experiment in the
middle of a generate or rerun, which `DeleteExperiment` gives even with one
handler; the theorem `RowsHaveExperiment` covers any number of them.

### Bounds

`MaxRuns`, `MaxGen`, `MaxCopies`, `PlanSize`, `MaxSessions`, `WindowCount`,
`Polls`, `MaxPolls`, `MaxOps`, `MaxTasks`, `MaxDeaths`, `MaxFaults` and
`MaxEvents` bound the instances and are guards of the actions that would leave them.
`RoomToCreate` refuses a generate or rerun when the unused keys would not suffice
for every thread to create a whole plan: a handler never blocks for lack of a
key, which the code's keys cannot run out of. Two workers are enough for two
tasks and two dispatchers, three
runs for a run that is executing, one that is claimed and one left over; two
windows give a first, a gap and a last. Three operations on a VM are a create, a
delete and one that overlaps them; the theorems have no such bound.

Two faults in a run are one that leaves something behind and one that hits the
attempt that finds it; a provider may meet a third, so that a create succeeds, one
fails, and the delete after them is disturbed too. Deadlines of two polls let a wait
both continue and end. The executed plans of `MCRunExecution` have two runs of
two phases with up to three actions, so that a failure has something before and
behind it on each level; the compiled ones combine every kind of phase, group,
axes and filter. Two validation runs give one that executes while the other is
created, released or cleaned; one scope is a probe of the actions alone, the other
a collection with every check, so that both write one check and the first also
writes back what it read of the others.
`MaxEvents` of `InventoryVm` counts uploads, deletes, failures (a refused
message too), deaths and changes from outside: one of them is combined with
every overlap of the rest. Larger instances without liveness (two threads; two
workers; two containers; each with one task and up to 3 million states) were run
by hand and show the same.

### Fairness

`ProfilingRuns!Fairness` is weak fairness of each process (the operating system
schedules threads and worker slots) and strong fairness of the delivery of each
message (a broker list is served in order; a worker slot that becomes free again
and again takes it). `TaskFinish` is thereby assumed to happen: every SSH command of the code has a
timeout. Nothing is assumed of clients. `ProbeSession!Fairness` is the same;
every wait of the probing task is bounded. `CloudProvisioning!Fairness` is weak
fairness of handlers, of workers and of the delivery of each message (messages
are not duplicated, so none is ever taken away from a waiting one); nothing is
assumed of Azure, since every wait for it has a deadline (`Break` stays enabled).
`CloudResources` assumes only that a call goes on (`WF` of `CallStep`), its waits
end after `MaxPolls`; nothing is assumed of Azure. `RunExecution` assumes that the task and the
command under way go on, nothing of containers. `ScenarioValidation` has weak
fairness of each handler and of each worker slot, which goes on with its task or
takes some message.
`InventoryVm` has weak fairness of processes, strong fairness of deliveries
(phases may occupy the worker) and weak fairness of polls: the GUI asks every two
seconds, and gives up after 120 times, which is not modelled.

## Proofs

`ProfilingRunsProofs` proves for every number of threads, workers, runs and
generations and all faults (unless said otherwise):

* `TypeCorrect`: `Spec => []TypeOK`. The inductive invariant adds that a process
  that works on a run has a run id, and that one about to create rows has rows left.
* `DeletedForEver`: `Spec => NoResurrection`. Each action that writes a run row is
  guarded by the row being live, because the code saves with `update_fields`.
* `RowsHaveExperiment`: `Spec => []RowsBelongToExperiment`. `Without` removes all
  rows with the experiment, and rows are created under it only.
* `NoOrphan`: `"crash" \notin Faults => (Spec => []NoOrphanRunning)`. The heart is
  three lemmas on who holds a run: a process that lets go of a run hands it over
  (to the broker or to itself as executor) or leaves it not RUNNING; other
  processes keep what they hold; a run becomes RUNNING only in the hands of the
  process that writes it.

`NoOrphan` and `RowsHaveExperiment` are what covers several client threads with
every request kind: the instances with two threads grow out of reach there.

* `OneSender`: `Patient => (Spec => []OneSenderPerRun)`, with duplicates and
  crashes. `Patient` is a constant of the instance; why it is needed is said under
  Runs. Two facts are carried together. `AloneWhenAsked`: a request that has
  not sent its run yet is the only thing going on, because it was accepted when
  all was quiet and until then adds no message. `AllMarked`: the run of who syncs
  or sends is not PENDING. A second sender would have to find the run PENDING
  again, and only a request makes it so, which is alone.

`ProbeSessionProofs` does the same for `ProbeSession`, for every number of
request threads, workers, sessions, pairs, windows and polls:

* `ProbeTypeCorrect`, `OneLoop`, `OneActive`: `TypeOK`, `OneLoopPerSession` and
  `OneActivePerPair`. None is inductive alone. `Inv` joins them with `Requesting`
  (a handler between insert and dispatch holds an existing session), `Steady` (a
  worker at window `i` has written windows `1..i-1`, all of them ok) and
  `Untouched` (a session that is PENDING, or that nobody has claimed, has no
  window and no loop). `Untouched` is what makes the conditional claim decide:
  the worker that turns PENDING into RUNNING enters an empty loop.
* `ImplementsContract`: `Spec => KeepsContract`, the refinement of `ProbeContract`.
  One lemma per group of actions (`FinishContract`, `RequestContract`,
  `WorkerContract`, the faults) names the abstract step a concrete one maps to;
  `Steady` gives the order of the windows, `OneLoop` that the set of measured
  sessions loses a session when its one worker writes.

`CloudProvisioningProofs` proves `ProvisioningTypeCorrect` (`TypeOK`) for every
number of client threads, workers and operations, every fault and clients of any
kind, and under the assumption `Orderly` (one client thread, checks made alone) `OneLifecycle`, `DeletedForGood` and `ArchivedForGood`: the properties
`OneLifecycleTask`, `DeletedIsFinal` and `ArchivedIsFinal`. The assumption is what
the code needs: with two threads both get through the check of `create`, and
`ProvisioningRevived` shows what an overlapping check does. The inductive
invariant of the three is `Basic` (`TypeOK`, and `OnePlace`: an operation is in one place and
was asked for), `OneLifecycleTask`, `Alone` (while a check is in flight nothing
else is), `Locked` (a lifecycle operation in flight beyond its handler's read
goes with PENDING, RUNNING or DELETING, so that no other passes its handler) and
`Seen` (what a task that is about to save has seen of the cloud is still so, and
the VM behind an archived inventory VM is gone). Lemmas on how a worker keeps
(`Keeps`) or drops (`Drops`) its operation carry the parts through the 18 steps
of a task.

`CloudResourcesProofs` proves, for every set of templates, deadline and number
of faults:

* `ResourcesTypeCorrect`: `TypeOK`. It is not inductive without `Shape`: which
  kind of call is at which place, what it still has to deal with there (`Put` and
  `Delete` take the next resource from that set) and whether it has polls left.
* `KeepsProviderContract`: `Spec => KeepsProvisionerContract`. `ComesUp` (a VM that
  is being created will be on) says that the cloud's own steps are those of the
  contract, `Shape` that a success was seen. Each action then is a step of the contract or none.
* `RowIsTrue`: `Spec => []RowTellsCloud`, along `Stages`: at each place of a create
  the resources already dealt with are ready and those it rests on stay so, at
  each place of a delete with the ids of a whole create those already dealt with
  are gone, and a DELETED row of such a create has nothing left that anybody
  would bring back before the next create.
* `NothingInTheWay`: `Spec => []UndisturbedSucceeds`, with `Clear`: an undisturbed
  call waits only for what the cloud is at work on, and one that failed could not
  have succeeded. It rests on `Stages`: `NeedsFirst` and `NoUseLeft` read off the
  two orders that what a resource needs was made before it, and what uses it was
  deleted before it.

`ScenarioValidationProofs` proves, for every number of handlers, workers and
runs, all scopes, requests and faults:

* `ValidationTypeCorrect`: `TypeOK`, with `Held`: a process has a run
  at the places that write one, and a worker is at the places of a task only.
* `VerdictIsTrue`: `VerdictAgrees`. Stale copies do no harm because verdict and
  checks are always saved together.
* `OfferedSucceeded`: `OfferedProbesSucceeded`, with `Offers`: only a
  probe's run has the flag, a task works in the scope of its run, and no process
  or message stands for a key that was never given out. So the one step that
  ends a probe without success is made by a task that takes the flag away itself.
  One lemma for each group of steps (`OffersMove`, `OffersStay`, `OffersAsk`,
  `OffersSave`) carries it through.

`InventoryVmProofs` proves, for every number of threads, workers, containers,
tasks and events and all phases:

* `VmTypeCorrect`: `TypeOK`, with `Shape`: a process works for a task the broker
  has accepted or for none, and a phase is under way only with actions left.
* `AnswersAreTrue`: `AnswersTellOutcome`. `Truth` has two halves. `Ledger` is
  about the tasks: one process works for a task, its `ok` says whether the
  container was removed, and a task that is removed, or was reported as FAILED, is
  past its attempt, so that neither can change any more. `OpsTrue` is about the
  copies: not only the row but every copy a process has loaded holds operations
  that say no more than was done. An old copy may therefore be written back at any
  time; what it says of a task was true when it was read and stays true
  (`OpsCarry`), since `Past` and `removed` never shrink.
* `ListedAfterCheck`: `ListedIsRunning`. `Calm` says that, unless trust is stale,
  at most one process watches the VM, and `Sound` what this one knows at each of
  its places: that its copy is the row's list, or what is still to be added to
  and taken from that copy before it lists what runs. `CalmKept` carries it
  through every step that begins, continues or ends the watching.

`PlanCompilationProofs` proves `CompilesEachOnce`: for every scenario and every
experiment whose axes repeat no value, `CompiledPlan` has each combination that
passes the filters once for each selected edge, and no other run. The library's
induction theorems take an operator, which the provers here cannot instantiate,
so each induction is one over a set of numbers that has a least element
(`Least`, `Induction`). What rests on it is stated as facts of the operators:

* `FlattenIsLastPrefix`, `FlatNext`, `Flattened`: concatenation keeps the
  elements of lists that are apart, each once.
* `Ranks`, `Sorted`: sorting by rank lists each element of a set of numbers
  once, ascending. `Selection`: filtering keeps those that pass, each once.
* `ProductIsLastStep`, `WidenCombines`, `ProductCombines`: after `n` axes, the
  list of variants holds each function from those axes to their values once.
  This is the heart: an axis that lost or repeated a value would do so at the
  step that widens by it.
* `VariantsCombine`, `EdgesOnce`, `RunsMade`: the variants of an edge are the
  combinations `Owed` names, edges selected twice are taken once, and a run
  stands for one pair of the two, in order.

Its last part (`PlanFormed`) says where the actions of a compiled plan come
from: those of a phase, a group or a template, with a VM for a target.

`RunExecutionProofs` proves, for every scenario, set of experiments and plan,
and any number of VMs, polls and faults: `TypesAreKept` (`TypeOK`),
`CombinationsRunOnce` (`EachCombinationOnce`), `ReportsHold` (`ReportsAreTrue`),
`MeasurementsAreAlone` (`MeasuredAlone`) and `TrackerAndRowsAgree`
(`TrackerAgrees`). The assumptions on the constants are that the nodes are
numbers and finitely many, that experiments are well formed, and that
experiments and templates name presets and containers that `VmExecutors` has an
executor or a state for, and give a clean-up its containers as a list and not by
an axis (`SpecsAssumption`, `TemplatesKnown`): that is the reach of the model,
since names outside it meet no state it has. One inductive invariant, `IInv`,
carries all:

* `Planned`: the plan is the one compiled from the experiment, its rows cover
  the runs one by one or all together. `EachCombinationOnce` follows by
  `CompilesEachOnce`.
* `Typed` and `Placed`: the records, and that the row, run, phase and action the
  task points at exist. Without `Placed` no write to the tracker is known to
  keep its shape.
* `Executing` and `Truthful`: an executor is at a step its kind has, and an
  undisturbed one knows on its way what it will report at the end: the sender is
  up or done while it is awaited, what a cleanup removed so far is absent.
* `Alone`: a sender is up only under the executor that awaits it, or behind an
  action that failed, until the run is over. So the next sender finds none,
  while nothing went wrong.
* `Story`: how far each run has come (`Told`, `Underway`): before a place all is
  done, behind it nothing is begun. `InRow` and `InOrder` extend this to the
  runs of a row and the rows of the generation, with the counts;
  `CollectedSoFar` to `metrics_collected`, `StopsAtFailure` to
  `stop_on_failure`.

Each action has a lemma (`BeginRunStep`, `EndActionStep`, ...). `CommandStep` to
`CrashStep` are those of the executors' own steps; `DetailStep` covers the steps
inside one run, `StatusStep` and `RunEnds` those that end one, `MachineMoves`
those that only the VMs take.

`ScopesInTurn`, in `ScenarioValidationProofs`, proves `OneTaskPerScope` for one
Hub thread and any number of workers, runs and scopes. The assumption is what
the code needs: two threads both find no run in flight and both create one,
since nothing is locked. `InTurn` adds to the property what makes a request find
the run it must not double. `OneCarrier`: a message is consumed by the one
process that carries the run to its end, the statements after its last save
included. `LastUnused`: keys are given in order. `Visible`:
a run in hand that nobody gave up is PENDING or RUNNING in the table, which is
what the lookup asks for, unless the handler executes it itself and so asks
nothing. `NewRun`: the run being sent is the youngest. `Asked`: what a handler
has read still excuses the run it will create. The property has an exception,
and the proof carries it (`Yielded`): a request without an edge takes the newest
run it matches (`scenarios/api.py` 985-993), which may check one edge, and then
gives up that one in place of an older one of its own scope. The run's two
scopes have no single edge, because a third exceeds its time; with a third TLC
was run by hand on the invariant `InTurn`.

Left to TLC: liveness (`GenerationDrains`, `GenerationSettles`, `SessionsEnd`,
`OperationEnds`, `CallsEnd`, `RunsEnd`, `AnswersSettle`), which is out of this
prover's reach; and `NoActiveRunDeleted`, `AtMostOneRunning`, `NoDoubleExecution`
and `StatusFollowsRuns`, which need a client that waits, as said under Runs. Each
other invariant, action property and refinement that a passing run checks is a
theorem. `TypeOK` of `ProbeContract` is not needed: the
refinement is a statement about steps.

## Plan

Done, each with its MC module and runs, theorems where named:

1. `ProfilingRuns`: types, deletion, cascade, orphans and one sender proved.
2. `ProbeContract`, `ProbeSession`: invariants and the refinement proved.
3. `CloudProvisioning`: types and the three safety properties proved.
4. `PlanCompilation`, `VmExecutors`, `RunExecution`: all five invariants proved.
5. `ScenarioValidation`: types, verdict, offered probes and one task per scope
   proved.
6. `ProvisionerContract`, `CloudResources`: types, both invariants and the
   refinement proved.
7. `InventoryVm`: types and both invariants proved.

Left:

1. The run check of an experiment (`profiling_exps/api.py` 1886-1911), and what
   a check of a scenario looks at (`scenarios/celery_tasks.py`: the VMs, actions
   and pings it asks for), which `TaskCheck` takes for its verdict.

## Not modelled

Formatting, YAML, the contents of results, files other than whether
they can be written, the GUI and CLI, action scripts, configs, authentication
(one owner), read-only handlers and lookups. Runtime environments and accounts
are rows that one request writes and nobody else changes. The Kubernetes
connector is a wrapper around `kubectl` that only its own test uses. The run
check and the probe lookups compute an answer from rows the models have and
change nothing but a note. Duplicate deliveries in provisioning and validation
are left out: their tasks make no claim on their row, so a duplicate simply runs
again. The events and templates of provisioning, and the notes and comparisons
of experiments, are data that no other operation reads.
