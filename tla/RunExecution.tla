---------------------------- MODULE RunExecution ----------------------------
(***************************************************************************)
(* execute_generated_plan_run_task (icopa_hub/profiling_exps/              *)
(* celery_tasks.py): the task that carries out the runs of one generation, *)
(* phase by phase and action by action, over the plan of PlanCompilation   *)
(* and with the executors of VmExecutors.  The rows' statuses as other     *)
(* requests see and change them are the subject of ProfilingRuns; here one *)
(* client generates and starts, and the tasks follow one another.          *)
(***************************************************************************)
EXTENDS PlanCompilation, VmExecutors

CONSTANTS
    Specs,            \* experiments that may be generated
    Runnable,         \* those of them that are also started
    Environments,     \* runtime environments of the user
    BrokenTemplates   \* those whose RRT configuration is no YAML object

(* The VMs are those of the scenario.  Experiments name the presets and    *)
(* containers that have an executor and a state in VmExecutors.            *)
Known(action) ==
    /\ action.preset \in Presets \cup {""}
    /\ action.type = "cleanup_containers" => action.axis = 0 /\ action.value \in SUBSET Containers

KnownActions(actions) == \A i \in DOMAIN actions : Known(actions[i])
KnownEntries(entries) == \A i \in DOMAIN entries : KnownActions(entries[i].actions)

ASSUME VmsAssumption == Vms \in SUBSET Nat /\ IsFiniteSet(Vms) /\ Vms = {n.name : n \in VmNodes}
ASSUME TemplatesKnown == \A t \in DOMAIN Templates : KnownActions(Templates[t])
ASSUME SpecsAssumption ==
    \A s \in Specs : /\ WellFormed(s)
                     /\ KnownEntries(s.phases)
                     /\ \A g \in DOMAIN s.groups : KnownEntries(s.groups[g].phases)

VARIABLES
    spec,      \* the experiment the plan was generated from
    plan,      \* ProfilingExperiment.generated_payload
    rows,      \* ProfilingRun rows of the generation
    tracker,   \* phase_action_execution_status: run -> statuses
    task,      \* the task that executes a row
    vmRows     \* inventory rows of the VMs

vars == <<execVars, spec, plan, rows, tracker, task, vmRows>>

NoSpec == [phases |-> << >>, groups |-> << >>, axes |-> << >>, include |-> {}, exclude |-> {},
           env |-> 0, stop |-> TRUE, precheck |-> TRUE]
NoPlan == [runs |-> << >>, stop |-> TRUE, precheck |-> TRUE]
EntryStatus == {"PENDING", "RUNNING", "SUCCEEDED", "FAILED", "SKIPPED"}
Idle == [pc |-> "idle", row |-> 0, run |-> 0, phase |-> 0, action |-> 0, ok |-> TRUE,
         verified |-> {}, todo |-> << >>, done |-> 0, failed |-> 0, attempted |-> FALSE, collected |-> TRUE]
PCs == {"idle", "load", "nextRun", "precheck", "prechecking", "phases", "actions", "executing",
        "endRun", "finish", "dispatch", "died"}

Init ==
    /\ ExecInit
    /\ spec = NoSpec
    /\ plan = NoPlan
    /\ rows = << >>
    /\ tracker = << >>
    /\ task = Idle
    /\ vmRows = [v \in Vms |-> [status |-> "UNKNOWN", ready |-> FALSE]]

---------------------------------------------------------------------------
(* Helpers over the tracker: run, phase and action of the running task.    *)

FreshEntry(run) ==
    [status |-> "PENDING",
     phases |-> [p \in DOMAIN run.phases |->
        [status |-> "PENDING", actions |-> [a \in DOMAIN run.phases[p].actions |-> "PENDING"]]]]

Row == rows[task.row]
RowRuns(row) == row.first..row.last
Run == plan.runs[task.run]
Phase == Run.phases[task.phase]
Action == Phase.actions[task.action]

SetRun(status) == [tracker EXCEPT ![task.run].status = status]
SetPhase(status) == [tracker EXCEPT ![task.run].phases[task.phase].status = status]
SetAction(status) == [tracker EXCEPT ![task.run].phases[task.phase].actions[task.action] = status]

SkipPending(t) ==
    [r \in DOMAIN t |-> IF r \in RowRuns(Row) /\ t[r].status = "PENDING" THEN [t[r] EXCEPT !.status = "SKIPPED"] ELSE t[r]]

(* The loop over the runs goes on, or ends at a failure or the last run.   *)
AfterRun(ok) ==
    LET counted == IF ok THEN [task EXCEPT !.done = @ + 1] ELSE [task EXCEPT !.failed = @ + 1]
    IN  IF (~ok /\ plan.stop) \/ task.run = Row.last
        THEN [counted EXCEPT !.pc = "finish"]
        ELSE [counted EXCEPT !.pc = "nextRun", !.run = @ + 1]

---------------------------------------------------------------------------
(* Generate: the plan, and a row for each run; rows of older versions      *)
(* stand for the whole plan.                                               *)
RowForShort(first, last) ==
    [first |-> first, last |-> last - 1, status |-> "PENDING", done |-> 0, failed |-> 0, collected |-> FALSE]

RowFor(first, last) ==
    [first |-> first, last |-> last, status |-> "PENDING", done |-> 0, failed |-> 0, collected |-> FALSE]

Generate ==
    /\ rows = << >>
    /\ \E s \in {x \in Specs : Compiles(x)}, whole \in BOOLEAN :
         LET p == CompiledPlan(s)
         IN  /\ spec' = s
             /\ plan' = p
             /\ rows' = IF whole THEN <<RowFor(1, Len(p.runs))>> ELSE [i \in DOMAIN p.runs |-> RowFor(i, i)]
             /\ tracker' = [i \in DOMAIN p.runs |-> FreshEntry(p.runs[i])]
    /\ UNCHANGED <<execVars, task, vmRows>>

BeginTask(r) ==
    /\ rows' = [rows EXCEPT ![r].status = "RUNNING", ![r].collected = FALSE]
    /\ tracker' = [i \in DOMAIN tracker |-> IF i \in RowRuns(rows[r]) THEN FreshEntry(plan.runs[i]) ELSE tracker[i]]
    /\ task' = [Idle EXCEPT !.pc = "load", !.row = r]
    /\ UNCHANGED <<execVars, spec, plan, vmRows>>

Start ==
    /\ task.pc = "idle" /\ rows # << >> /\ spec \in Runnable
    /\ \A r \in DOMAIN rows : rows[r].status = "PENDING"
    /\ BeginTask(1)

(* A VM of the scenario is no longer in the inventory. *)
InventoryFails ==
    /\ task.pc = "load"
    /\ tracker' = [i \in DOMAIN tracker |->
                     IF i \in RowRuns(Row) THEN [tracker[i] EXCEPT !.status = "FAILED"] ELSE tracker[i]]
    /\ rows' = [rows EXCEPT ![task.row].status = "FAILED", ![task.row].failed = Row.last - Row.first + 1]
    /\ task' = [task EXCEPT !.pc = "dispatch"]
    /\ UNCHANGED <<execVars, spec, plan, vmRows>>

InventoryResolved ==
    /\ task.pc = "load"
    /\ task' = [task EXCEPT !.pc = "nextRun", !.run = Row.first]
    /\ UNCHANGED <<execVars, spec, plan, rows, tracker, vmRows>>

---------------------------------------------------------------------------
(* One run: its runtime environment, the connectivity of its VMs.          *)

Actions(run) == UNION {ToSet(run.phases[p].actions) : p \in DOMAIN run.phases}
ChecksItself(run) == \E a \in Actions(run) : a.type = "check_connectivity"
PrecheckTargets(run) ==
    LET targets == {a.target : a \in Actions(run)} \cap Vms
    IN  Ascending(IF targets = {} THEN Vms ELSE targets)

BeginRun ==
    /\ task.pc = "nextRun" /\ Run.env \in Environments
    /\ tracker' = SetRun("RUNNING")
    /\ task' = IF plan.precheck /\ ~ChecksItself(Run)
               THEN [task EXCEPT !.pc = "precheck", !.ok = TRUE, !.todo = PrecheckTargets(Run)]
               ELSE [task EXCEPT !.pc = "phases", !.ok = TRUE, !.phase = 1]
    /\ UNCHANGED <<execVars, spec, plan, rows, vmRows>>

(* Without a runtime environment the run fails; the runs behind it are not *)
(* marked as skipped.                                                      *)
RunWithoutEnvironment ==
    /\ task.pc = "nextRun" /\ Run.env \notin Environments
    /\ tracker' = SetRun("FAILED")
    /\ task' = AfterRun(FALSE)
    /\ UNCHANGED <<execVars, spec, plan, rows, vmRows>>

(* A node that passed with its container runtime is later checked without. *)
ChecksRuntime(action) ==
    CASE action.value = "runtime" -> TRUE
      [] action.value = "ssh" -> FALSE
      [] OTHER -> action.target \notin task.verified

SyncVm(action) ==
    IF action.type # "check_connectivity" THEN vmRows
    ELSE [vmRows EXCEPT ![action.target] =
            [status |-> IF exec.ok THEN "ACTIVE" ELSE "ERROR",
             ready |-> IF ChecksRuntime(action) THEN exec.ok ELSE @.ready]]

(* Mutant of Verified: a check without the runtime verifies the node, too. *)
VerifiedBySsh(action) ==
    IF action.type # "check_connectivity" THEN task.verified
    ELSE IF ~exec.ok THEN task.verified \ {action.target}
    ELSE task.verified \cup {action.target}

Verified(action) ==
    IF action.type # "check_connectivity" THEN task.verified
    ELSE IF ~exec.ok THEN task.verified \ {action.target}
    ELSE IF ChecksRuntime(action) THEN task.verified \cup {action.target} ELSE task.verified

PrecheckOf(node) == [type |-> "check_connectivity", preset |-> "", target |-> node,
                     cleanup_only |-> FALSE, value |-> "default"]

BeginPrecheck ==
    /\ task.pc = "precheck" /\ task.todo # << >>
    /\ Begin(PrecheckOf(Head(task.todo)), FALSE)
    /\ task' = [task EXCEPT !.pc = "prechecking"]
    /\ UNCHANGED <<box, faults, spec, plan, rows, tracker, vmRows>>

EndPrecheck ==
    /\ task.pc = "prechecking" /\ exec.step = "done"
    /\ LET action == PrecheckOf(Head(task.todo))
       IN  /\ vmRows' = SyncVm(action)
           /\ task' = [task EXCEPT !.pc = "precheck", !.todo = Tail(@), !.ok = @ /\ exec.ok,
                                   !.verified = Verified(action)]
    /\ exec' = NoExecutor
    /\ UNCHANGED <<box, faults, spec, plan, rows, tracker>>

PrecheckPassed ==
    /\ task.pc = "precheck" /\ task.todo = << >> /\ task.ok
    /\ task' = [task EXCEPT !.pc = "phases", !.phase = 1]
    /\ UNCHANGED <<execVars, spec, plan, rows, tracker, vmRows>>

PrecheckFailed ==
    /\ task.pc = "precheck" /\ task.todo = << >> /\ ~task.ok
    /\ tracker' = IF plan.stop THEN SkipPending(SetRun("FAILED")) ELSE SetRun("FAILED")
    /\ task' = AfterRun(FALSE)
    /\ UNCHANGED <<execVars, spec, plan, rows, vmRows>>

---------------------------------------------------------------------------
(* Phases and actions, always one after the other. *)

BeginPhase ==
    /\ task.pc = "phases"
    /\ tracker' = SetPhase("RUNNING")
    /\ task' = [task EXCEPT !.pc = "actions", !.action = 1]
    /\ UNCHANGED <<execVars, spec, plan, rows, vmRows>>

IsProbe(action) == action.preset \in {"profiling/latency_sender", "profiling/latency_responder"}
PhaseGoesOn == task.ok /\ task.action <= Len(Phase.actions)

BeginAction ==
    /\ task.pc = "actions" /\ PhaseGoesOn
    /\ ~(IsProbe(Action) /\ Run.env \in BrokenTemplates)
    /\ tracker' = SetAction("RUNNING")
    /\ Begin(Action, Phase.cleanup)
    /\ task' = [task EXCEPT !.pc = "executing"]
    /\ UNCHANGED <<box, faults, spec, plan, rows, vmRows>>

(* The configuration of a probe is rendered outside the try block: a       *)
(* template that is no YAML object ends the task, and the row stays        *)
(* RUNNING.                                                                *)
ActionRaises ==
    /\ task.pc = "actions" /\ PhaseGoesOn
    /\ IsProbe(Action) /\ Run.env \in BrokenTemplates
    /\ task' = [task EXCEPT !.pc = "died"]
    /\ UNCHANGED <<execVars, spec, plan, rows, tracker, vmRows>>

(* Mutant of EndAction: only the last collection counts. *)
EndActionLastCollect ==
    /\ task.pc = "executing" /\ exec.step = "done"
    /\ tracker' = SetAction(IF exec.ok THEN "SUCCEEDED" ELSE "FAILED")
    /\ vmRows' = SyncVm(Action)
    /\ task' = [task EXCEPT !.pc = "actions", !.ok = exec.ok,
                            !.action = IF exec.ok THEN @ + 1 ELSE @,
                            !.verified = Verified(Action),
                            !.attempted = @ \/ Action.type = "collect_metrics",
                            !.collected = IF Action.type = "collect_metrics" THEN exec.ok ELSE @]
    /\ exec' = NoExecutor
    /\ UNCHANGED <<box, faults, spec, plan, rows>>

EndAction ==
    /\ task.pc = "executing" /\ exec.step = "done"
    /\ tracker' = SetAction(IF exec.ok THEN "SUCCEEDED" ELSE "FAILED")
    /\ vmRows' = SyncVm(Action)
    /\ task' = [task EXCEPT !.pc = "actions", !.ok = exec.ok,
                            !.action = IF exec.ok THEN @ + 1 ELSE @,
                            !.verified = Verified(Action),
                            !.attempted = @ \/ Action.type = "collect_metrics",
                            !.collected = @ /\ (Action.type = "collect_metrics" => exec.ok)]
    /\ exec' = NoExecutor
    /\ UNCHANGED <<box, faults, spec, plan, rows>>

EndPhase ==
    /\ task.pc = "actions" /\ ~PhaseGoesOn
    /\ tracker' = SetPhase(IF task.ok THEN "SUCCEEDED" ELSE "FAILED")
    /\ task' = IF task.ok /\ task.phase < Len(Run.phases)
               THEN [task EXCEPT !.pc = "phases", !.phase = @ + 1]
               ELSE [task EXCEPT !.pc = "endRun"]
    /\ UNCHANGED <<execVars, spec, plan, rows, vmRows>>

(* Mutant of EndRun: the failed run is forgotten when the others are skipped. *)
EndRunSkips ==
    /\ task.pc = "endRun"
    /\ tracker' = IF task.ok THEN SetRun("SUCCEEDED")
                  ELSE IF plan.stop THEN SkipPending(tracker) ELSE SetRun("FAILED")
    /\ task' = AfterRun(task.ok)
    /\ UNCHANGED <<execVars, spec, plan, rows, vmRows>>

EndRun ==
    /\ task.pc = "endRun"
    /\ tracker' = IF task.ok THEN SetRun("SUCCEEDED")
                  ELSE IF plan.stop THEN SkipPending(SetRun("FAILED")) ELSE SetRun("FAILED")
    /\ task' = AfterRun(task.ok)
    /\ UNCHANGED <<execVars, spec, plan, rows, vmRows>>

---------------------------------------------------------------------------
FinishTask ==
    /\ task.pc = "finish"
    /\ rows' = [rows EXCEPT ![task.row] =
                  [@ EXCEPT !.status = IF task.failed = 0 THEN "SUCCEEDED" ELSE "FAILED",
                            !.done = task.done, !.failed = task.failed,
                            !.collected = task.attempted /\ task.collected]]
    /\ task' = [task EXCEPT !.pc = "dispatch"]
    /\ UNCHANGED <<execVars, spec, plan, tracker, vmRows>>

PendingRows == {r \in DOMAIN rows : rows[r].status = "PENDING"}
(* Mutants of MayDispatch: the policy is ignored, or taken for granted. *)
MayAlwaysDispatch == Row.status \in {"SUCCEEDED", "FAILED"}
MayDispatchAfterSuccess == Row.status = "SUCCEEDED"

MayDispatch == Row.status = "SUCCEEDED" \/ ~plan.stop

DispatchNext ==
    /\ task.pc = "dispatch" /\ MayDispatch /\ PendingRows # {}
    /\ BeginTask(Min(PendingRows))

NothingToDispatch ==
    /\ task.pc = "dispatch" /\ ~(MayDispatch /\ PendingRows # {})
    /\ task' = Idle
    /\ UNCHANGED <<execVars, spec, plan, rows, tracker, vmRows>>

TaskStep ==
    \/ InventoryFails \/ InventoryResolved
    \/ BeginRun \/ RunWithoutEnvironment
    \/ BeginPrecheck \/ EndPrecheck \/ PrecheckPassed \/ PrecheckFailed
    \/ BeginPhase \/ BeginAction \/ ActionRaises \/ EndAction \/ EndPhase \/ EndRun
    \/ FinishTask \/ DispatchNext \/ NothingToDispatch

RunCommand == ExecStep /\ UNCHANGED <<spec, plan, rows, tracker, task, vmRows>>
ContainersMove == (SenderEnds \/ Crash) /\ task.pc # "idle" /\ UNCHANGED <<spec, plan, rows, tracker, task, vmRows>>

Next ==
    \/ Generate
    \/ Start
    \/ TaskStep
    \/ RunCommand
    \/ ContainersMove

Spec == Init /\ [][Next]_vars
FairSpec == Spec /\ WF_vars(TaskStep) /\ WF_vars(RunCommand)

---------------------------------------------------------------------------
RowStatus == {"PENDING", "RUNNING", "SUCCEEDED", "FAILED"}
Finished == {"SUCCEEDED", "FAILED"}
Ids == DOMAIN plan.runs

(* Statuses are words of their own lists, the rows cover the plan, and the *)
(* tracker has the shape of the plan (ProfilingRun,                        *)
(* phase_action_execution_status).                                         *)
TypeOK ==
    /\ box \in [Vms -> [Containers -> ContainerStates]]
    /\ exec.step \in Steps /\ exec.kind \in Executors /\ exec.left \in 0..MaxPolls
    /\ faults \in 0..MaxFaults
    /\ task.pc \in PCs /\ task.verified \subseteq Vms
    /\ UNION {RowRuns(rows[r]) : r \in DOMAIN rows} = Ids
    /\ \A r \in DOMAIN rows : rows[r].status \in RowStatus
    /\ DOMAIN tracker = Ids
    /\ \A i \in Ids : /\ tracker[i].status \in EntryStatus
                      /\ DOMAIN tracker[i].phases = DOMAIN plan.runs[i].phases
    /\ vmRows \in [Vms -> [status : {"UNKNOWN", "ACTIVE", "ERROR"}, ready : BOOLEAN]]

(* "Each variant combination runs exactly once" (compile_experiment_plan): *)
(* for axes without repeated values the plan has one run for each selected *)
(* edge and each combination of its axes that passes include and exclude,  *)
(* whatever mixture of global axes, edge axes and filters it came from.    *)
EachCombinationOnce ==
    (plan # NoPlan /\ \A e \in ToSet(RunEdges(spec)) : DistinctValues(MergedAxes(spec, e)))
        => RunsOwedOnce(spec, plan.runs)

(* What an executor reports as success is so on its VM, unless a status it *)
(* waited for was not answered or a container crashed under it: the sender *)
(* has ended, what was started is up, what was removed and looked for is   *)
(* gone, whatever became of its commands on the way; and a node the task   *)
(* goes on to check without its container runtime has an inventory row     *)
(* that says ACTIVE and ready.                                             *)
ReportsAreTrue ==
    /\ (exec.step = "done" /\ exec.ok /\ ~exec.disturbed) => ToldTheTruth
    /\ \A v \in task.verified : vmRows[v].status = "ACTIVE" /\ vmRows[v].ready

(* The tracker and the row tell one story: a SUCCEEDED run has done all    *)
(* its actions, in a run that did not succeed nothing was begun behind the *)
(* action it stopped at, a finished row counts what its runs show, its     *)
(* metrics_collected covers every collect_metrics action that was reached, *)
(* and with stop_on_failure nothing is done on a VM behind a failed run.   *)
StepsOf(i) == UNION {{<<p, a>> : a \in DOMAIN plan.runs[i].phases[p].actions} : p \in DOMAIN plan.runs[i].phases}
StatusOf(i, x) == tracker[i].phases[x[1]].actions[x[2]]
Earlier(x, y) == x[1] < y[1] \/ (x[1] = y[1] /\ x[2] < y[2])

RunAgrees(i) ==
    /\ (tracker[i].status = "SUCCEEDED") = (\A p \in DOMAIN tracker[i].phases : tracker[i].phases[p].status = "SUCCEEDED")
    /\ \A x, y \in StepsOf(i) :
         (Earlier(x, y) /\ StatusOf(i, y) # "PENDING") => StatusOf(i, x) = "SUCCEEDED"
    /\ tracker[i].status = "SUCCEEDED" => \A x \in StepsOf(i) : StatusOf(i, x) = "SUCCEEDED"

RunsWith(row, status) == {i \in RowRuns(row) : tracker[i].status = status}

RowAgrees(row) ==
    /\ (row.status = "SUCCEEDED") = (RunsWith(row, "SUCCEEDED") = RowRuns(row))
    /\ row.done = Cardinality(RunsWith(row, "SUCCEEDED"))
    /\ row.failed = Cardinality(RunsWith(row, "FAILED"))

AllCollected(row) ==
    \A i \in RowRuns(row) : \A x \in StepsOf(i) :
        plan.runs[i].phases[x[1]].actions[x[2]].type = "collect_metrics" => StatusOf(i, x) \in {"PENDING", "SUCCEEDED"}

Begun(i) == \E x \in StepsOf(i) : StatusOf(i, x) # "PENDING"

TrackerAgrees ==
    /\ \A i \in Ids : (\A r \in DOMAIN rows : i \in RowRuns(rows[r]) => rows[r].status \in Finished) => RunAgrees(i)
    /\ \A r \in DOMAIN rows : /\ rows[r].status \in Finished => RowAgrees(rows[r])
                            /\ rows[r].collected => AllCollected(rows[r])
    /\ plan.stop => \A i, j \in Ids : (i < j /\ tracker[i].status = "FAILED") => ~Begun(j)

(* While no command went wrong and no run failed there is at most one      *)
(* sender on the VMs: latencies are measured one run at a time.            *)
MeasuredAlone ==
    (faults = 0 /\ \A i \in Ids : tracker[i].status # "FAILED") =>
        Cardinality({v \in Vms : box[v]["sender"] = "up"}) <= 1

(* A started generation comes to rest: each row is finished, or follows a  *)
(* failure that stopped the generation, unless a task died of its template. *)
Settled ==
    \/ task.pc = "died"
    \/ /\ task.pc = "idle"
       /\ \A r \in DOMAIN rows : \/ rows[r].status \in Finished
                                \/ /\ plan.stop
                                   /\ \E q \in 1..(r - 1) : rows[q].status = "FAILED"

GenerationSettles == (task.pc = "load") ~> Settled
=============================================================================
