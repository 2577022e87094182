-------------------------- MODULE RunExecutionProofs --------------------------
(***************************************************************************)
(* What RunExecution promises for every scenario, every experiment that    *)
(* compiles, and any number of runs, polls and faults.                     *)
(***************************************************************************)
EXTENDS RunExecution, PlanCompilationProofs

-----------------------------------------------------------------------------
(* The inductive invariant, part by part *)

\* Where the plan and its rows come from.
NothingYet == spec = NoSpec /\ plan = NoPlan /\ rows = << >> /\ tracker = << >> /\ task = Idle
PlanMade == spec \in Specs /\ Compiles(spec) /\ plan = CompiledPlan(spec)
WholeRow == DOMAIN rows = {1} /\ rows[1].first = 1 /\ rows[1].last = Len(plan.runs)
RowPerRun == DOMAIN rows = Ids /\ \A r \in DOMAIN rows : rows[r].first = r /\ rows[r].last = r
Planned == NothingYet \/ (PlanMade /\ (WholeRow \/ RowPerRun))

\* The records of the module.
RowRecords == [first : Nat, last : Nat, status : RowStatus, done : Nat, failed : Nat, collected : BOOLEAN]
TaskRecords ==
  [pc : PCs, row : Nat, run : Nat, phase : Nat, action : Nat, ok : BOOLEAN, verified : SUBSET Vms,
   todo : Seq(Vms), done : Nat, failed : Nat, attempted : BOOLEAN, collected : BOOLEAN]
ExecRecords ==
  [kind : Executors, vm : Vms \cup {0}, step : Steps, names : SUBSET Containers, todo : SUBSET Containers,
   left : 0..MaxPolls, removed : BOOLEAN, ok : BOOLEAN, disturbed : BOOLEAN]
VmRecords == [status : {"UNKNOWN", "ACTIVE", "ERROR"}, ready : BOOLEAN]

HasShape(t, run) ==
  /\ DOMAIN t = {"status", "phases"} /\ t.status \in EntryStatus
  /\ DOMAIN t.phases = DOMAIN run.phases
  /\ \A p \in DOMAIN run.phases : /\ DOMAIN t.phases[p] = {"status", "actions"}
                                  /\ DOMAIN t.phases[p].actions = DOMAIN run.phases[p].actions

VmTyped ==
  /\ exec \in ExecRecords
  /\ faults \in 0..MaxFaults
  /\ box \in [Vms -> [Containers -> ContainerStates]]
Typed ==
  /\ VmTyped
  /\ \A r \in DOMAIN rows : rows[r] \in RowRecords
  /\ task \in TaskRecords
  /\ vmRows \in [Vms -> VmRecords]
  /\ DOMAIN tracker = Ids
  /\ \A i \in Ids : HasShape(tracker[i], plan.runs[i])

\* Where the task is.
At(pcs) == task.pc \in pcs
RunPCs == {"nextRun", "precheck", "prechecking", "phases", "actions", "executing", "endRun"}
PhasePCs == {"phases", "actions", "executing", "endRun"}
Placed ==
  /\ ~At({"idle"}) => task.row \in DOMAIN rows
  /\ At(RunPCs) => task.run \in RowRuns(Row)
  /\ At(PhasePCs) => task.phase \in DOMAIN Run.phases
  /\ At({"actions"}) => task.action \in 1..(Len(Phase.actions) + 1)
  /\ At({"executing"}) => task.action \in DOMAIN Phase.actions
  /\ At({"actions"}) /\ ~task.ok => task.action \in DOMAIN Phase.actions
  /\ At({"prechecking"}) => task.todo # << >>
  /\ At({"phases", "executing"}) => task.ok

\* What the executor is at: a command for a VM, and the container it waits for.
ExecutorState ==
  /\ exec.step = "idle" => exec = NoExecutor
  /\ exec.step # "idle" => exec.left >= 1
  /\ exec.kind # "wait" => exec.vm \in Vms
  /\ exec.kind = "wait" => exec.step \in {"idle", "done"}
  /\ exec.step = "running?" => exec.kind = "stress"
  /\ exec.step = "check" => exec.kind \in {"router", "stress"}
  /\ exec.step = "await" => exec.kind = "sender"
  /\ exec.step = "verify" => CleansProbe(exec.kind) \/ exec.kind = "cleanup"
  /\ CleansProbe(exec.kind) => exec.names = Removes(exec.kind)
  /\ exec.kind = "cleanup" /\ exec.step \in {"command", "verify"} => exec.todo # {}
Executing ==
  /\ At({"prechecking", "executing"}) = (exec.step # "idle")
  /\ At({"prechecking"}) => exec.kind # "sender"
  /\ ExecutorState

\* What an undisturbed executor knows of its VM on the way.
KnowsItsVm ==
  ~exec.disturbed =>
    /\ exec.step = "done" /\ exec.ok => ToldTheTruth
    /\ exec.step = "await" => box[exec.vm]["sender"] \in {"up", "done"}
    /\ exec.kind = "cleanup" /\ exec.ok => \A c \in exec.names \ exec.todo : box[exec.vm][c] = "absent"
Truthful ==
  /\ KnowsItsVm
  /\ \A v \in task.verified : vmRows[v].status = "ACTIVE" /\ vmRows[v].ready

\* A sender is up while the executor awaits it, or is left by an action that failed.
NoFailedRun == \A i \in Ids : tracker[i].status # "FAILED"
Awaited == exec.kind = "sender" /\ (exec.step = "await" \/ (exec.step = "done" /\ ~exec.ok))
LeftBehind == At({"actions", "endRun"}) /\ ~task.ok
SenderUp(v) == box[v]["sender"] = "up"
Alone ==
  faults = 0 /\ NoFailedRun =>
    /\ \A v, w \in Vms : SenderUp(v) /\ SenderUp(w) => v = w
    /\ \A v \in Vms : SenderUp(v) => (Awaited /\ v = exec.vm) \/ LeftBehind

\* How far a run has come.
PhaseStatus(i, p) == tracker[i].phases[p].status
ActionStatus(i, p, a) == tracker[i].phases[p].actions[a]
PhasesIn(i) == DOMAIN plan.runs[i].phases
ActionsIn(i, p) == DOMAIN plan.runs[i].phases[p].actions
BlankPhase(i, p) == PhaseStatus(i, p) = "PENDING" /\ \A a \in ActionsIn(i, p) : ActionStatus(i, p, a) = "PENDING"
DonePhase(i, p) == PhaseStatus(i, p) = "SUCCEEDED" /\ \A a \in ActionsIn(i, p) : ActionStatus(i, p, a) = "SUCCEEDED"
Blank(i) == \A p \in PhasesIn(i) : BlankPhase(i, p)
Complete(i) == \A p \in PhasesIn(i) : DonePhase(i, p)

\* All phases and actions before a place are done, and nothing was begun behind it.
UpTo(i, p, a) ==
  /\ \A q \in PhasesIn(i) : (q < p => DonePhase(i, q)) /\ (q > p => BlankPhase(i, q))
  /\ \A b \in ActionsIn(i, p) : /\ b < a => ActionStatus(i, p, b) = "SUCCEEDED"
                                /\ b > a => ActionStatus(i, p, b) = "PENDING"
StoppedAt(i, p, a) == UpTo(i, p, a) /\ PhaseStatus(i, p) # "SUCCEEDED"
Stopped(i) == \E p \in PhasesIn(i) : \E a \in Nat : StoppedAt(i, p, a)

\* The entries of the tracker, those of the run under way apart.
Told(i) ==
  /\ tracker[i].status \in {"PENDING", "SKIPPED"} => Blank(i)
  /\ tracker[i].status = "SUCCEEDED" => Complete(i)
  /\ tracker[i].status = "FAILED" => Stopped(i)
  /\ tracker[i].status = "RUNNING" => i = task.run /\ At(RunPCs \cup {"died"})

\* The run under way.
Underway ==
  /\ At({"precheck", "prechecking"}) => Blank(task.run)
  /\ At({"phases"}) => /\ \A q \in PhasesIn(task.run) : q < task.phase => DonePhase(task.run, q)
                       /\ \A q \in PhasesIn(task.run) : q >= task.phase => BlankPhase(task.run, q)
  /\ At({"actions"}) => /\ StoppedAt(task.run, task.phase, task.action)
                        /\ task.ok /\ task.action \in DOMAIN Phase.actions
                             => ActionStatus(task.run, task.phase, task.action) = "PENDING"
  /\ At({"executing"}) => StoppedAt(task.run, task.phase, task.action)
  /\ At({"endRun"}) => IF task.ok THEN Complete(task.run) ELSE StoppedAt(task.run, task.phase, task.action)
  /\ At(RunPCs \ {"nextRun"}) => tracker[task.run].status = "RUNNING"

\* The row under way: what was done, what is to come, what is counted.
InRow ==
  /\ At({"load"}) => \A i \in RowRuns(Row) : tracker[i].status = "PENDING"
  /\ At(RunPCs) => \A i \in RowRuns(Row) : /\ i < task.run => tracker[i].status \in Finished
                                           /\ i > task.run => tracker[i].status = "PENDING"
  /\ At({"nextRun"}) => tracker[task.run].status = "PENDING"
  /\ At({"finish"}) => /\ \A i \in RowRuns(Row) : tracker[i].status # "RUNNING"
                       /\ task.failed = 0 => \A i \in RowRuns(Row) : tracker[i].status = "SUCCEEDED"
  /\ At(RunPCs \cup {"load", "finish"}) => /\ task.done = Cardinality(RunsWith(Row, "SUCCEEDED"))
                                           /\ task.failed = Cardinality(RunsWith(Row, "FAILED"))

\* What a failed collection does to the row under way.
IsCollect(i, p, a) == plan.runs[i].phases[p].actions[a].type = "collect_metrics"
CollectedSoFar ==
  At(RunPCs \cup {"load", "finish"}) /\ task.collected =>
    \A i \in RowRuns(Row) : \A p \in PhasesIn(i) : \A a \in ActionsIn(i, p) :
      IsCollect(i, p, a) => \/ ActionStatus(i, p, a) \in {"PENDING", "SUCCEEDED"}
                            \/ At({"executing"}) /\ i = task.run /\ p = task.phase /\ a = task.action

\* The rows, in the order of their runs.
InOrder ==
  /\ ~At({"idle"}) => /\ \A r \in DOMAIN rows : /\ r < task.row => rows[r].status \in Finished
                                                /\ r > task.row => rows[r].status = "PENDING"
                      /\ IF At({"dispatch"}) THEN Row.status \in Finished ELSE Row.status = "RUNNING"
  /\ \A r \in DOMAIN rows :
       /\ rows[r].status = "PENDING" => \A i \in RowRuns(rows[r]) : tracker[i].status = "PENDING"
       /\ rows[r].status \notin Finished => ~rows[r].collected /\ rows[r].done = 0
       /\ rows[r].status = "RUNNING" => r = task.row /\ ~At({"idle"})
       /\ rows[r].status \in Finished => RowAgrees(rows[r]) /\ \A i \in RowRuns(rows[r]) : tracker[i].status # "RUNNING"
       /\ rows[r].collected => AllCollected(rows[r])

\* Nothing goes on behind a failure that stops.
StopsAtFailure ==
  plan.stop =>
    /\ At(RunPCs \cup {"load"}) => NoFailedRun
    /\ At({"finish"}) /\ task.failed = 0 => NoFailedRun
    /\ At({"dispatch"}) /\ Row.status = "SUCCEEDED" => NoFailedRun
    /\ \A i, j \in Ids : i < j /\ tracker[i].status = "FAILED" => Blank(j)

Story == (\A i \in Ids : Told(i)) /\ Underway /\ InRow /\ CollectedSoFar /\ InOrder /\ StopsAtFailure
IInv == Planned /\ Typed /\ Placed /\ Executing /\ Truthful /\ Alone /\ Story


-----------------------------------------------------------------------------
(* The plan and its rows *)

SoundAction(a) ==
  /\ a.type \in ActionTypes
  /\ a.type = "run_runtime_preset" => a.preset \in Presets
  /\ IF a.type = "wait" THEN a.target = 0 ELSE a.target \in Vms
  /\ a.type = "cleanup_containers" => a.value \in SUBSET Containers

\* The VMs of the executors are those the compiler resolves targets to.
LEMMA VmsAreNamed == VmNames = Vms /\ VmNames \in SUBSET Nat /\ IsFiniteSet(VmNames)
  BY VmsAssumption DEF VmNames

\* Actions of phases and templates name presets and containers there are.
LEMMA ListsKnown ==
  ASSUME NEW s \in Specs, NEW list \in ActionLists(s), NEW k \in DOMAIN list
  PROVE  Known(list[k])
<1>1. CASE list \in PhaseLists(s)
  BY <1>1, SpecsAssumption DEF PhaseLists, KnownEntries, KnownActions
<1>2. CASE list \in GroupLists(s)
  BY <1>2, SpecsAssumption DEF GroupLists, KnownEntries, KnownActions
<1>3. CASE list \in TemplateLists
  BY <1>3, TemplatesKnown DEF TemplateLists, KnownActions
<1> QED BY <1>1, <1>2, <1>3 DEF ActionLists

\* What is rendered from them has an executor, and its target is a VM.
LEMMA ActionsSound ==
  ASSUME NEW s \in Specs, NEW a, ComesFrom(s, a)
  PROVE  SoundAction(a)
<1>1. PICK list \in ActionLists(s) : \E k \in DOMAIN list : \E variant, edge :
        ActionIsSound(list[k], variant, edge) /\ a \in Rendered(list[k], variant, edge)
  BY DEF ComesFrom
<1>2. PICK k \in DOMAIN list : \E variant, edge :
        ActionIsSound(list[k], variant, edge) /\ a \in Rendered(list[k], variant, edge)
  BY <1>1
<1>3. PICK variant, edge : ActionIsSound(list[k], variant, edge) /\ a \in Rendered(list[k], variant, edge)
  BY <1>2
<1> DEFINE b == list[k]
<1>4. Known(b)
  BY ListsKnown
<1> HIDE DEF b
<1>5. ActionIsSound(b, variant, edge) /\ a \in Rendered(b, variant, edge)
  BY <1>3 DEF b
<1>6. PICK node \in IF b.type \in Untargeted THEN {0} ELSE Resolve(b, variant, edge) :
        /\ a.type = b.type /\ a.preset = b.preset /\ a.target = node
        /\ a.value = IF b.axis = 0 THEN b.value ELSE variant[b.axis]
  BY <1>5 DEF Rendered
<1>7. Resolve(b, variant, edge) \subseteq Vms
  BY VmsAreNamed, RenderMakes
<1>8. b.type \in ActionTypes /\ (b.type = "run_runtime_preset") = (b.preset # "")
  BY <1>5 DEF ActionIsSound
<1> QED BY <1>4, <1>6, <1>7, <1>8 DEF SoundAction, Known, Untargeted

\* What is known of the compiled plan.
LEMMA PlanFacts ==
  ASSUME PlanMade
  PROVE  /\ Ids = 1..Len(plan.runs) /\ Len(plan.runs) \in Nat \ {0}
         /\ \A i \in Ids : /\ PhasesIn(i) = 1..Len(plan.runs[i].phases) /\ Len(plan.runs[i].phases) \in Nat \ {0}
                           /\ \A p \in PhasesIn(i) :
                                /\ plan.runs[i].phases[p].cleanup \in BOOLEAN
                                /\ ActionsIn(i, p) = 1..Len(plan.runs[i].phases[p].actions)
                                /\ Len(plan.runs[i].phases[p].actions) \in Nat
                                /\ \A a \in ActionsIn(i, p) : SoundAction(plan.runs[i].phases[p].actions[a])
<1>1. PlanIsFormed(spec, plan)
  BY SpecsAssumption, VmsAreNamed, PlanFormed DEF PlanMade
<1>2. \A i \in Ids : RunIsFormed(spec, plan.runs[i])
  BY <1>1 DEF PlanIsFormed, Ids
<1>3. \A i \in Ids : \A p \in PhasesIn(i) : PhaseIsFormed(spec, plan.runs[i].phases[p])
  BY <1>2 DEF RunIsFormed, PhasesIn
<1>4. \A a : ComesFrom(spec, a) => SoundAction(a)
  BY ActionsSound DEF PlanMade
<1>5. \A i \in Ids : \A p \in PhasesIn(i) : \A a \in ActionsIn(i, p) : SoundAction(plan.runs[i].phases[p].actions[a])
  BY <1>3, <1>4 DEF PhaseIsFormed, ActionsIn
<1>6. Ids = 1..Len(plan.runs) /\ Len(plan.runs) \in Nat \ {0}
  BY <1>1 DEF PlanIsFormed, Ids
<1>7. \A i \in Ids : PhasesIn(i) = 1..Len(plan.runs[i].phases) /\ Len(plan.runs[i].phases) \in Nat \ {0}
  BY <1>2 DEF RunIsFormed, PhasesIn
<1>8. \A i \in Ids : \A p \in PhasesIn(i) : /\ plan.runs[i].phases[p].cleanup \in BOOLEAN
                                            /\ ActionsIn(i, p) = 1..Len(plan.runs[i].phases[p].actions)
                                            /\ Len(plan.runs[i].phases[p].actions) \in Nat
  BY <1>3 DEF PhaseIsFormed, ActionsIn
<1> QED BY <1>5, <1>6, <1>7, <1>8

\* The rows share the runs among them, in order.
RowsPartition ==
  /\ \A r \in DOMAIN rows : /\ r \in Nat \ {0}
                            /\ rows[r].first \in Ids /\ rows[r].last \in Ids /\ rows[r].first <= rows[r].last
                            /\ RowRuns(rows[r]) \subseteq Ids
  /\ \A i \in Ids : \E r \in DOMAIN rows : i \in RowRuns(rows[r])
  /\ \A r, q \in DOMAIN rows : \A i \in RowRuns(rows[r]), j \in RowRuns(rows[q]) :
       (i < j => r <= q) /\ (i = j => r = q)

\* Rows of either kind divide the runs of the plan among them.
LEMMA RowFacts ==
  ASSUME PlanMade, WholeRow \/ RowPerRun
  PROVE  RowsPartition
<1>1. Ids = 1..Len(plan.runs) /\ Len(plan.runs) \in Nat \ {0}
  BY PlanFacts
<1> DEFINE n == Len(plan.runs)
<1> HIDE DEF n
<1>2. Ids = 1..n /\ n \in Nat \ {0}
  BY <1>1 DEF n
<1>3. CASE WholeRow
  <2>1. DOMAIN rows = {1} /\ RowRuns(rows[1]) = 1..n /\ rows[1].first = 1 /\ rows[1].last = n
    BY <1>3 DEF WholeRow, RowRuns, n
  <2> QED BY <1>2, <2>1 DEF RowsPartition
<1>4. CASE RowPerRun
  <2>1. DOMAIN rows = 1..n /\ \A r \in 1..n : rows[r].first = r /\ rows[r].last = r
    BY <1>2, <1>4 DEF RowPerRun
  <2>2. \A r \in 1..n : RowRuns(rows[r]) = {r}
    BY <1>2, <2>1 DEF RowRuns
  <2> QED BY <1>2, <2>1, <2>2 DEF RowsPartition
<1> QED BY <1>3, <1>4

-----------------------------------------------------------------------------
(* What the setters do to the tracker *)

\* SetRun writes the status of one run ...
LEMMA RunSet ==
  ASSUME Typed, NEW s, task.run \in Ids, tracker' = SetRun(s)
  PROVE  /\ DOMAIN tracker' = Ids
         /\ \A i \in Ids : /\ i # task.run => tracker'[i] = tracker[i]
                           /\ tracker'[i].phases = tracker[i].phases
                           /\ DOMAIN tracker'[i] = {"status", "phases"}
         /\ tracker'[task.run].status = s
<1>1. DOMAIN tracker = Ids /\ \A i \in Ids : DOMAIN tracker[i] = {"status", "phases"}
  BY DEF Typed, HasShape
<1>2. tracker' = [tracker EXCEPT ![task.run] = [tracker[task.run] EXCEPT !.status = s]]
  BY DEF SetRun
<1> QED BY <1>1, <1>2

\* ... SetPhase that of one phase ...
LEMMA PhaseSet ==
  ASSUME Typed, NEW s, task.run \in Ids, task.phase \in PhasesIn(task.run), tracker' = SetPhase(s)
  PROVE  /\ DOMAIN tracker' = Ids
         /\ \A i \in Ids : /\ i # task.run => tracker'[i] = tracker[i]
                           /\ tracker'[i].status = tracker[i].status
                           /\ DOMAIN tracker'[i] = {"status", "phases"}
                           /\ DOMAIN tracker'[i].phases = PhasesIn(i)
         /\ \A q \in PhasesIn(task.run) : /\ q # task.phase => tracker'[task.run].phases[q] = tracker[task.run].phases[q]
                                          /\ tracker'[task.run].phases[q].actions = tracker[task.run].phases[q].actions
                                          /\ DOMAIN tracker'[task.run].phases[q] = {"status", "actions"}
         /\ tracker'[task.run].phases[task.phase].status = s
<1> DEFINE t == tracker[task.run]
           f == t.phases[task.phase]
           f2 == [f EXCEPT !.status = s]
           t2 == [t EXCEPT !.phases = [t.phases EXCEPT ![task.phase] = f2]]
<1>1. /\ DOMAIN tracker = Ids
      /\ \A i \in Ids : /\ DOMAIN tracker[i] = {"status", "phases"} /\ DOMAIN tracker[i].phases = PhasesIn(i)
                        /\ \A p \in PhasesIn(i) : DOMAIN tracker[i].phases[p] = {"status", "actions"}
  BY DEF Typed, HasShape, PhasesIn
<1>2. tracker' = [tracker EXCEPT ![task.run] = t2]
  BY DEF SetPhase
<1>3. DOMAIN f2 = {"status", "actions"} /\ f2.status = s /\ f2.actions = f.actions
  BY <1>1
<1> HIDE DEF f2
<1>4. /\ DOMAIN t2 = {"status", "phases"} /\ t2.status = t.status
      /\ t2.phases = [t.phases EXCEPT ![task.phase] = f2]
  BY <1>1
<1> HIDE DEF t2
<1>5. tracker'[task.run] = t2 /\ DOMAIN tracker' = Ids /\ \A i \in Ids : i # task.run => tracker'[i] = tracker[i]
  BY <1>1, <1>2
<1>6. /\ DOMAIN t2.phases = PhasesIn(task.run) /\ t2.phases[task.phase] = f2
      /\ \A q \in PhasesIn(task.run) : q # task.phase => t2.phases[q] = tracker[task.run].phases[q]
  BY <1>1, <1>4
<1>7. \A i \in Ids : /\ tracker'[i].status = tracker[i].status
                     /\ DOMAIN tracker'[i] = {"status", "phases"}
                     /\ DOMAIN tracker'[i].phases = PhasesIn(i)
  BY <1>1, <1>4, <1>5, <1>6
<1>8. \A q \in PhasesIn(task.run) : /\ q # task.phase => tracker'[task.run].phases[q] = tracker[task.run].phases[q]
                                    /\ tracker'[task.run].phases[q].actions = tracker[task.run].phases[q].actions
                                    /\ DOMAIN tracker'[task.run].phases[q] = {"status", "actions"}
  BY <1>1, <1>3, <1>5, <1>6
<1> QED BY <1>3, <1>5, <1>6, <1>7, <1>8

\* ... and SetAction that of one action.
LEMMA ActionSet ==
  ASSUME Typed, NEW s, task.run \in Ids, task.phase \in PhasesIn(task.run),
         task.action \in ActionsIn(task.run, task.phase), tracker' = SetAction(s)
  PROVE  /\ DOMAIN tracker' = Ids
         /\ \A i \in Ids : /\ i # task.run => tracker'[i] = tracker[i]
                           /\ tracker'[i].status = tracker[i].status
                           /\ DOMAIN tracker'[i] = {"status", "phases"}
                           /\ DOMAIN tracker'[i].phases = PhasesIn(i)
         /\ \A q \in PhasesIn(task.run) : /\ q # task.phase => tracker'[task.run].phases[q] = tracker[task.run].phases[q]
                                          /\ tracker'[task.run].phases[q].status = tracker[task.run].phases[q].status
                                          /\ DOMAIN tracker'[task.run].phases[q] = {"status", "actions"}
                                          /\ DOMAIN tracker'[task.run].phases[q].actions = ActionsIn(task.run, q)
         /\ \A a \in ActionsIn(task.run, task.phase) : tracker'[task.run].phases[task.phase].actions[a] =
              IF a = task.action THEN s ELSE tracker[task.run].phases[task.phase].actions[a]
<1> DEFINE t == tracker[task.run]
           f == t.phases[task.phase]
           f2 == [f EXCEPT !.actions = [f.actions EXCEPT ![task.action] = s]]
           t2 == [t EXCEPT !.phases = [t.phases EXCEPT ![task.phase] = f2]]
<1>1. /\ DOMAIN tracker = Ids
      /\ \A i \in Ids : /\ DOMAIN tracker[i] = {"status", "phases"} /\ DOMAIN tracker[i].phases = PhasesIn(i)
                        /\ \A p \in PhasesIn(i) : /\ DOMAIN tracker[i].phases[p] = {"status", "actions"}
                                                  /\ DOMAIN tracker[i].phases[p].actions = ActionsIn(i, p)
  BY DEF Typed, HasShape, PhasesIn, ActionsIn
<1>2. tracker' = [tracker EXCEPT ![task.run] = t2]
  BY DEF SetAction
<1>3. /\ DOMAIN f2 = {"status", "actions"} /\ f2.status = f.status /\ f2.actions = [f.actions EXCEPT ![task.action] = s]
      /\ DOMAIN f2.actions = ActionsIn(task.run, task.phase)
  BY <1>1
<1> HIDE DEF f2
<1>4. /\ DOMAIN t2 = {"status", "phases"} /\ t2.status = t.status
      /\ t2.phases = [t.phases EXCEPT ![task.phase] = f2]
  BY <1>1
<1> HIDE DEF t2
<1>5. tracker'[task.run] = t2 /\ DOMAIN tracker' = Ids /\ \A i \in Ids : i # task.run => tracker'[i] = tracker[i]
  BY <1>1, <1>2
<1>6. /\ DOMAIN t2.phases = PhasesIn(task.run) /\ t2.phases[task.phase] = f2
      /\ \A q \in PhasesIn(task.run) : q # task.phase => t2.phases[q] = tracker[task.run].phases[q]
  BY <1>1, <1>4
<1>7. \A i \in Ids : /\ tracker'[i].status = tracker[i].status
                     /\ DOMAIN tracker'[i] = {"status", "phases"}
                     /\ DOMAIN tracker'[i].phases = PhasesIn(i)
  BY <1>1, <1>4, <1>5, <1>6
<1>8. \A q \in PhasesIn(task.run) : /\ q # task.phase => tracker'[task.run].phases[q] = tracker[task.run].phases[q]
                                    /\ tracker'[task.run].phases[q].status = tracker[task.run].phases[q].status
                                    /\ DOMAIN tracker'[task.run].phases[q] = {"status", "actions"}
                                    /\ DOMAIN tracker'[task.run].phases[q].actions = ActionsIn(task.run, q)
  BY <1>1, <1>3, <1>5, <1>6
<1>9. \A a \in ActionsIn(task.run, task.phase) : f2.actions[a] = IF a = task.action THEN s ELSE f.actions[a]
  BY <1>1, <1>3
<1> QED BY <1>5, <1>6, <1>7, <1>8, <1>9

\* Entries are skipped without their phases being touched.
LEMMA SkipSet ==
  ASSUME Typed, task.run \in Ids, NEW s, tracker' = SkipPending(SetRun(s))
  PROVE  /\ DOMAIN tracker' = Ids
         /\ \A i \in Ids : /\ tracker'[i].phases = tracker[i].phases
                           /\ DOMAIN tracker'[i] = {"status", "phases"}
                           /\ i # task.run => tracker'[i].status = IF i \in RowRuns(Row) /\ tracker[i].status = "PENDING"
                                                                   THEN "SKIPPED" ELSE tracker[i].status
         /\ s # "PENDING" => tracker'[task.run].status = s
<1> DEFINE t == tracker
           S == Ids
           n == task.run
           u == [t EXCEPT ![n].status = s]
<1>0. DOMAIN t = S /\ n \in S /\ \A i \in S : DOMAIN t[i] = {"status", "phases"}
  BY DEF Typed, HasShape
<1> HIDE DEF t, S, n
<1>1. /\ DOMAIN u = S
      /\ \A i \in S : /\ DOMAIN u[i] = {"status", "phases"} /\ u[i].phases = t[i].phases
                      /\ u[i].status = IF i = n THEN s ELSE t[i].status
  BY <1>0
<1> HIDE DEF u
<1>2. tracker' = [r \in S |-> IF r \in RowRuns(Row) /\ u[r].status = "PENDING"
                              THEN [u[r] EXCEPT !.status = "SKIPPED"] ELSE u[r]]
  <2>1. SetRun(s) = u
    BY DEF SetRun, u, t, n
  <2> QED BY <1>1, <2>1 DEF SkipPending
<1>3. \A i \in S : tracker'[i] = IF i \in RowRuns(Row) /\ u[i].status = "PENDING"
                                 THEN [u[i] EXCEPT !.status = "SKIPPED"] ELSE u[i]
  BY <1>2
<1>4. \A i \in S : LET e == [u[i] EXCEPT !.status = "SKIPPED"]
                   IN  DOMAIN e = {"status", "phases"} /\ e.phases = u[i].phases /\ e.status = "SKIPPED"
  BY <1>1
<1>5. DOMAIN tracker' = S
  BY <1>2
<1>6. \A i \in S : tracker'[i].phases = t[i].phases /\ DOMAIN tracker'[i] = {"status", "phases"}
  BY <1>1, <1>3, <1>4
<1>7. \A i \in S : tracker'[i].status = IF i \in RowRuns(Row) /\ u[i].status = "PENDING" THEN "SKIPPED" ELSE u[i].status
  BY <1>3, <1>4
<1>8. s # "PENDING" => tracker'[n].status = s
  BY <1>0, <1>1, <1>7
<1> QED BY <1>1, <1>5, <1>6, <1>7, <1>8 DEF t, S, n

\* A fresh tracker entry has the shape of its run, and all of it is PENDING.
LEMMA FreshShape ==
  ASSUME NEW run
  PROVE  /\ HasShape(FreshEntry(run), run) /\ FreshEntry(run).status = "PENDING"
         /\ \A p \in DOMAIN run.phases :
              /\ FreshEntry(run).phases[p].status = "PENDING"
              /\ \A a \in DOMAIN run.phases[p].actions : FreshEntry(run).phases[p].actions[a] = "PENDING"
  BY DEF FreshEntry, HasShape, EntryStatus

-----------------------------------------------------------------------------
(* One command of an executor *)

\* The sets the executors are built from.
LEMMA VmConstants ==
  /\ MaxPolls \in Nat \ {0} /\ MaxFaults \in Nat
  /\ Probes \subseteq Containers /\ {"sender", "responder", "router", "stress"} = Containers
  /\ {"absent", "up", "done", "broken"} = ContainerStates
  /\ {"idle", "running?", "command", "check", "await", "verify", "done"} = Steps
  BY PollsAssumption, FaultsAssumption DEF Probes, Containers, ContainerStates, Steps

\* Faults are counted up to their bound, and zero means there were none.
LEMMA FaultsCounted ==
  ASSUME faults \in 0..MaxFaults, NEW n \in Nat, Faults(n)
  PROVE  faults' \in 0..MaxFaults /\ faults' >= faults /\ (faults' = 0 => n = 0)
  BY FaultsAssumption DEF Faults

\* The records an executor goes on with.
LEMMA ExecPolls ==
  ASSUME exec \in ExecRecords, exec.left >= 1, exec.left # 1, NEW e, e = [exec EXCEPT !.left = @ - 1]
  PROVE  /\ e \in ExecRecords
         /\ e.kind = exec.kind /\ e.vm = exec.vm /\ e.names = exec.names
         /\ e.todo = exec.todo /\ e.disturbed = exec.disturbed /\ e.ok = exec.ok
         /\ e.step = exec.step /\ e.left >= 1
<1>1. exec.left \in 0..MaxPolls /\ MaxPolls \in Nat
  BY VmConstants DEF ExecRecords
<1>2. exec.left - 1 \in 0..MaxPolls /\ exec.left - 1 >= 1
  BY <1>1
<1> QED BY <1>2 DEF ExecRecords

\* What a command that arrives makes of the containers of its VM.
LEMMA BoxAfterCommand ==
  ASSUME VmTyped, exec.vm \in Vms, NEW a
  PROVE  /\ AfterCommand(a) \in [Containers -> ContainerStates]
         /\ \A c \in Containers : AfterCommand(a)[c] =
              IF Starts(exec.kind) /\ ~Conflict(a) /\ a # "refused" /\ c = exec.kind THEN "up"
              ELSE IF c \in Removal(a) THEN "absent" ELSE box[exec.vm][c]
<1>1. box[exec.vm] \in [Containers -> ContainerStates]
  BY DEF VmTyped
<1>2. /\ Removed(Removal(a)) \in [Containers -> ContainerStates]
      /\ \A c \in Containers : Removed(Removal(a))[c] =
           IF c \in Removal(a) THEN "absent" ELSE box[exec.vm][c]
  BY <1>1, VmConstants DEF Removed
<1>3. Starts(exec.kind) => exec.kind \in Containers
  BY VmConstants DEF Starts, Probes
<1> HIDE DEF Removed
<1> QED BY <1>2, <1>3, VmConstants DEF AfterCommand

\* A command changes the containers of the VM it is sent to only.
LEMMA BoxUpdated ==
  ASSUME VmTyped, exec.vm \in Vms, NEW b \in [Containers -> ContainerStates],
         box' = [box EXCEPT ![exec.vm] = b]
  PROVE  /\ box' \in [Vms -> [Containers -> ContainerStates]]
         /\ box'[exec.vm] = b /\ \A v \in Vms : v # exec.vm => box'[v] = box[v]
  BY DEF VmTyped

\* What the executor makes of the answer.
LEMMA ExecAfterAnswer ==
  ASSUME VmTyped, NEW a, exec' = AfterAnswer(a), exec.step = "command"
  PROVE  /\ exec' \in ExecRecords
         /\ exec'.kind = exec.kind /\ exec'.vm = exec.vm /\ exec'.names = exec.names
         /\ exec'.todo = exec.todo /\ exec'.left = exec.left
         /\ exec'.disturbed = exec.disturbed
         /\ \/ CleansProbe(exec.kind) /\ exec'.step = "verify"
            \/ Answered(a) /\ ~Conflict(a) /\ exec.kind \in {"router", "stress"} /\ exec'.step = "check"
            \/ Answered(a) /\ ~Conflict(a) /\ exec.kind = "sender" /\ exec'.step = "await"
            \/ /\ ~CleansProbe(exec.kind) /\ exec'.step = "done" /\ exec'.ok = (Answered(a) /\ ~Conflict(a))
               /\ exec'.ok => exec.kind \notin {"router", "stress", "sender"}
<1>1. exec \in ExecRecords
  BY DEF VmTyped
<1> DEFINE e == AfterAnswer(a)
<1>2. /\ e \in ExecRecords
      /\ e.kind = exec.kind /\ e.vm = exec.vm /\ e.names = exec.names
      /\ e.todo = exec.todo /\ e.left = exec.left /\ e.disturbed = exec.disturbed
      /\ \/ CleansProbe(exec.kind) /\ e.step = "verify"
         \/ Answered(a) /\ ~Conflict(a) /\ exec.kind \in {"router", "stress"} /\ e.step = "check"
         \/ Answered(a) /\ ~Conflict(a) /\ exec.kind = "sender" /\ e.step = "await"
         \/ /\ ~CleansProbe(exec.kind) /\ e.step = "done" /\ e.ok = (Answered(a) /\ ~Conflict(a))
            /\ e.ok => exec.kind \notin {"router", "stress", "sender"}
  <2> DEFINE ok == Answered(a) /\ ~Conflict(a)
  <2>1. ok = (Answered(a) /\ ~Conflict(a)) /\ ok \in BOOLEAN
    BY DEF Answered, Conflict
  <2>2. e = CASE CleansProbe(exec.kind) -> [Continue("verify") EXCEPT !.removed = ok]
              [] ok /\ exec.kind \in {"router", "stress"} -> Continue("check")
              [] ok /\ exec.kind = "sender" -> Continue("await")
              [] OTHER -> Finish(ok)
    BY DEF AfterAnswer
  <2> HIDE DEF ok, e
  <2>3. CASE CleansProbe(exec.kind)
    <3>1. e = [Continue("verify") EXCEPT !.removed = ok]
      BY <2>2, <2>3 DEF CleansProbe
    <3>2. "verify" \in Steps
      BY VmConstants
    <3> QED BY <1>1, <2>1, <2>3, <3>1, <3>2 DEF Continue, ExecRecords
  <2>4. CASE ~CleansProbe(exec.kind) /\ ok /\ exec.kind \in {"router", "stress"}
    <3>1. e = Continue("check")
      BY <2>2, <2>4
    <3> QED BY <1>1, <2>1, <2>4, <3>1, VmConstants DEF Continue, ExecRecords
  <2>5. CASE ~CleansProbe(exec.kind) /\ ok /\ exec.kind = "sender"
    <3>1. e = Continue("await")
      BY <2>2, <2>5
    <3> QED BY <1>1, <2>1, <2>5, <3>1, VmConstants DEF Continue, ExecRecords
  <2>6. CASE ~CleansProbe(exec.kind) /\ ~(ok /\ exec.kind \in {"router", "stress", "sender"})
    <3>1. e = Finish(ok)
      BY <2>2, <2>6
    <3> QED BY <1>1, <2>1, <2>6, <3>1, VmConstants DEF Finish, ExecRecords
  <2> QED BY <2>3, <2>4, <2>5, <2>6
<1> QED BY <1>2

\* What each command keeps: the invariants of executor and VM, and that a sender
\* is up only if it was, or if the command started it and waits for it.
SendersKept ==
  faults' = 0 =>
    /\ faults = 0
    /\ \A v \in Vms : SenderUp(v)' => \/ SenderUp(v) /\ (Awaited /\ v = exec.vm => Awaited')
                                      \/ v = exec.vm /\ exec.step = "command" /\ Awaited'
GoesOn ==
  /\ VmTyped' /\ ExecutorState' /\ KnowsItsVm' /\ SendersKept
  /\ exec'.step # "idle" /\ exec'.vm = exec.vm /\ exec'.kind = exec.kind

\* A start that was answered and met no container of its name leaves the VM as the
\* executor says (VMZenohProfilingProbeExec.execute_impl).
LEMMA CommandStep ==
  ASSUME VmTyped, ExecutorState, KnowsItsVm, Command
  PROVE  GoesOn
<1>1. PICK a \in AnswersTo(exec.kind) :
        /\ Faults(Cost(a))
        /\ box' = IF Arrived(a) THEN [box EXCEPT ![exec.vm] = AfterCommand(a)] ELSE box
        /\ exec' = AfterAnswer(a)
  BY DEF Command
<1>2. exec.step = "command" /\ exec.kind # "cleanup" /\ exec \in ExecRecords
  BY DEF Command, VmTyped
<1>3. exec.kind # "wait" /\ exec.vm \in Vms
  BY <1>2 DEF ExecutorState
<1>4. /\ exec' \in ExecRecords
      /\ exec'.kind = exec.kind /\ exec'.vm = exec.vm /\ exec'.names = exec.names
      /\ exec'.todo = exec.todo /\ exec'.left = exec.left
      /\ exec'.disturbed = exec.disturbed
      /\ \/ CleansProbe(exec.kind) /\ exec'.step = "verify"
         \/ Answered(a) /\ ~Conflict(a) /\ exec.kind \in {"router", "stress"} /\ exec'.step = "check"
         \/ Answered(a) /\ ~Conflict(a) /\ exec.kind = "sender" /\ exec'.step = "await"
         \/ /\ ~CleansProbe(exec.kind) /\ exec'.step = "done" /\ exec'.ok = (Answered(a) /\ ~Conflict(a))
            /\ exec'.ok => exec.kind \notin {"router", "stress", "sender"}
  BY <1>1, <1>2, ExecAfterAnswer
<1> DEFINE b == AfterCommand(a)
<1>5. /\ b \in [Containers -> ContainerStates]
      /\ \A c \in Containers : b[c] =
           IF Starts(exec.kind) /\ ~Conflict(a) /\ a # "refused" /\ c = exec.kind THEN "up"
           ELSE IF c \in Removal(a) THEN "absent" ELSE box[exec.vm][c]
  BY <1>3, BoxAfterCommand
<1> HIDE DEF b
<1>6. /\ box' \in [Vms -> [Containers -> ContainerStates]]
      /\ box'[exec.vm] = IF Arrived(a) THEN b ELSE box[exec.vm]
      /\ \A v \in Vms : v # exec.vm => box'[v] = box[v]
  <2>1. CASE Arrived(a)
    <3>1. box' = [box EXCEPT ![exec.vm] = b]
      BY <1>1, <2>1 DEF b
    <3> QED BY <1>3, <1>5, <2>1, <3>1, BoxUpdated
  <2>2. CASE ~Arrived(a)
    BY <1>1, <2>2 DEF VmTyped
  <2> QED BY <2>1, <2>2
<1>7. Cost(a) \in Nat /\ (Cost(a) = 0 => a = "ok")
  BY DEF Cost
<1>8. faults' \in 0..MaxFaults /\ (faults' = 0 => faults = 0 /\ a = "ok")
  <2>1. faults \in 0..MaxFaults
    BY DEF VmTyped
  <2>2. faults' \in 0..MaxFaults /\ faults' >= faults /\ (faults' = 0 => Cost(a) = 0)
    BY <1>1, <1>7, <2>1, FaultsCounted
  <2> QED BY <1>7, <2>1, <2>2, FaultsAssumption
<1>9. VmTyped'
  BY <1>4, <1>6, <1>8 DEF VmTyped
<1>10. ExecutorState'
  BY <1>2, <1>3, <1>4 DEF ExecutorState
<1>11. KnowsItsVm'
  <2>1. SUFFICES ASSUME ~exec'.disturbed
                 PROVE  /\ exec'.step = "done" /\ exec'.ok => ToldTheTruth'
                        /\ exec'.step = "await" => box'[exec.vm]["sender"] \in {"up", "done"}
    BY <1>2, <1>4 DEF KnowsItsVm
  <2>2. Answered(a) => box'[exec.vm] = b /\ a # "refused"
    BY <1>6 DEF Answered, Arrived
  <2>3. ASSUME exec'.step = "await" PROVE box'[exec.vm]["sender"] = "up"
    <3>1. exec.kind = "sender" /\ Answered(a) /\ ~Conflict(a)
      BY <1>4, <2>3
    <3> QED BY <1>5, <2>2, <3>1, VmConstants DEF Starts, Probes
  <2>4. ASSUME exec'.step = "done", exec'.ok PROVE ToldTheTruth'
    <3>1. Answered(a) /\ ~Conflict(a) /\ ~CleansProbe(exec.kind)
          /\ exec.kind \notin {"router", "stress", "sender", "cleanup"}
      BY <1>2, <1>4, <2>4
    <3>2. CASE exec.kind = "responder"
      <4>1. box'[exec.vm]["responder"] = "up"
        BY <1>5, <2>2, <3>1, <3>2, VmConstants DEF Starts, Probes
      <4> QED BY <1>4, <3>2, <4>1 DEF ToldTheTruth, CleansProbe
    <3>3. CASE exec.kind # "responder"
      BY <1>4, <3>1, <3>3 DEF ToldTheTruth
    <3> QED BY <3>2, <3>3
  <2> QED BY <2>3, <2>4
<1>12. ASSUME faults' = 0, NEW v \in Vms, SenderUp(v)'
       PROVE  \/ SenderUp(v) /\ (Awaited /\ v = exec.vm => Awaited')
              \/ v = exec.vm /\ exec.step = "command" /\ Awaited'
  <2>1. ~Awaited
    BY <1>2 DEF Awaited
  <2>2. CASE v # exec.vm
    BY <1>6, <1>12, <2>1, <2>2 DEF SenderUp
  <2>3. CASE v = exec.vm
    <3>1. a = "ok" /\ box'[exec.vm] = b /\ b["sender"] = "up"
      BY <1>4, <1>6, <1>8, <1>12, <2>3 DEF Arrived, SenderUp
    <3>2. CASE exec.kind = "sender" /\ ~Conflict(a)
      BY <1>2, <1>4, <2>3, <3>1, <3>2 DEF Awaited, Answered, CleansProbe
    <3>3. CASE ~(exec.kind = "sender" /\ ~Conflict(a))
      BY <1>5, <2>1, <2>3, <3>1, <3>3, VmConstants DEF SenderUp
    <3> QED BY <3>2, <3>3
  <2> QED BY <2>2, <2>3
<1>13. exec'.step # "idle"
  BY <1>4
<1> QED BY <1>4, <1>8, <1>9, <1>10, <1>11, <1>12, <1>13 DEF GoesOn, SendersKept

\* Commands that only look: the containers stay as they are.
LEMMA LookStep ==
  ASSUME VmTyped, ExecutorState, box' = box, NEW n \in Nat, Faults(n), exec' \in ExecRecords,
         exec'.kind = exec.kind, exec'.vm = exec.vm, exec'.names = exec.names, exec'.step # "idle",
         ExecutorState', KnowsItsVm',
         Awaited /\ n = 0 /\ SenderUp(exec.vm) => Awaited'
  PROVE  GoesOn
<1>1. faults' \in 0..MaxFaults /\ (faults' = 0 => faults = 0 /\ n = 0)
  <2>1. faults \in 0..MaxFaults
    BY DEF VmTyped
  <2> QED BY <2>1, FaultsCounted, FaultsAssumption
<1>2. VmTyped'
  BY <1>1 DEF VmTyped
<1>3. SendersKept
  BY <1>1 DEF SendersKept, SenderUp
<1> QED BY <1>2, <1>3 DEF GoesOn

\* A stress container that is up is taken over (_check_already_running).
LEMMA StressAlreadyRunningStep ==
  ASSUME VmTyped, ExecutorState, KnowsItsVm, StressAlreadyRunning
  PROVE  GoesOn
<1>1. PICK a \in {"ok", "lost"} :
        /\ Faults(Cost(a))
        /\ exec' = IF Answered(a) /\ Up("stress") THEN Finish(TRUE) ELSE Continue("command")
  BY DEF StressAlreadyRunning
<1>2. /\ exec.step = "running?" /\ exec.kind = "stress" /\ exec.vm \in Vms /\ exec \in ExecRecords /\ box' = box
      /\ exec.left >= 1
  BY DEF StressAlreadyRunning, VmTyped, ExecutorState
<1>3. Cost(a) \in Nat
  BY DEF Cost
<1>4. CASE Answered(a) /\ Up("stress")
  <2>1. exec' = Finish(TRUE)
    BY <1>1, <1>4
  <2>2. /\ exec' \in ExecRecords /\ exec'.kind = exec.kind /\ exec'.vm = exec.vm /\ exec'.names = exec.names
        /\ exec'.left = exec.left /\ exec'.step = "done"
    BY <1>2, <2>1, VmConstants DEF Finish, ExecRecords
  <2>3. ExecutorState'
    BY <1>2, <2>2 DEF ExecutorState
  <2>4. KnowsItsVm'
    BY <1>2, <1>4, <2>2 DEF KnowsItsVm, ToldTheTruth, Up, CleansProbe
  <2> QED BY <1>1, <1>2, <1>3, <2>2, <2>3, <2>4, LookStep DEF Awaited
<1>5. CASE ~(Answered(a) /\ Up("stress"))
  <2>1. exec' = Continue("command")
    BY <1>1, <1>5
  <2>2. /\ exec' \in ExecRecords /\ exec'.kind = exec.kind /\ exec'.vm = exec.vm /\ exec'.names = exec.names
        /\ exec'.left = exec.left /\ exec'.step = "command"
    BY <1>2, <2>1, VmConstants DEF Continue, ExecRecords
  <2>3. ExecutorState'
    BY <1>2, <2>2 DEF ExecutorState
  <2>4. KnowsItsVm'
    BY <1>2, <2>2 DEF KnowsItsVm
  <2> QED BY <1>1, <1>2, <1>3, <2>2, <2>3, <2>4, LookStep DEF Awaited
<1> QED BY <1>4, <1>5

\* The check after a deploy ends well only when the container is up.
LEMMA CheckStep ==
  ASSUME VmTyped, ExecutorState, KnowsItsVm, Check
  PROVE  GoesOn
<1> DEFINE Result(a) == IF Answered(a) /\ Up(exec.kind) THEN Finish(TRUE)
                        ELSE IF exec.kind = "router" \/ exec.left = 1 THEN Finish(FALSE)
                        ELSE [exec EXCEPT !.left = @ - 1]
<1>1. PICK a \in {"ok", "lost"} : Faults(Cost(a)) /\ exec' = Result(a)
  BY DEF Check
<1>2. /\ exec.step = "check" /\ exec.kind \in {"router", "stress"} /\ exec.vm \in Vms /\ exec \in ExecRecords
      /\ box' = box /\ exec.left \in 1..MaxPolls
  BY DEF Check, VmTyped, ExecutorState, ExecRecords
<1>3. Cost(a) \in Nat
  BY DEF Cost
<1>4. /\ Result(a) \in ExecRecords
      /\ Result(a).kind = exec.kind /\ Result(a).vm = exec.vm /\ Result(a).names = exec.names
      /\ Result(a).left >= 1 /\ Result(a).step \in {"done", "check"}
      /\ Result(a).step = "done" /\ Result(a).ok => Up(exec.kind)
  <2>1. CASE Answered(a) /\ Up(exec.kind)
    <3> DEFINE e == Result(a)
    <3>1. e = Finish(TRUE)
      BY <2>1
    <3> HIDE DEF e, Result
    <3>2. /\ e \in ExecRecords /\ e.kind = exec.kind /\ e.vm = exec.vm /\ e.names = exec.names
          /\ e.left = exec.left /\ e.step = "done"
      BY <1>2, <3>1, VmConstants DEF Finish, ExecRecords
    <3> QED BY <1>2, <2>1, <3>2 DEF e
  <2>2. CASE ~(Answered(a) /\ Up(exec.kind)) /\ (exec.kind = "router" \/ exec.left = 1)
    <3> DEFINE e == Result(a)
    <3>1. e = Finish(FALSE)
      BY <2>2
    <3> HIDE DEF e, Result
    <3>2. /\ e \in ExecRecords /\ e.kind = exec.kind /\ e.vm = exec.vm /\ e.names = exec.names
          /\ e.left = exec.left /\ e.step = "done"
      BY <1>2, <3>1, VmConstants DEF Finish, ExecRecords
    <3>3. ~e.ok
      BY <1>2, <3>1 DEF Finish, ExecRecords
    <3> QED BY <1>2, <3>2, <3>3 DEF e
  <2>3. CASE ~(Answered(a) /\ Up(exec.kind)) /\ ~(exec.kind = "router" \/ exec.left = 1)
    <3>1. Result(a) = [exec EXCEPT !.left = @ - 1]
      BY <2>3
    <3> HIDE DEF Result
    <3> QED BY <1>2, <2>3, <3>1, ExecPolls
  <2> QED BY <2>1, <2>2, <2>3
<1> HIDE DEF Result
<1>5. /\ exec' \in ExecRecords /\ exec'.kind = exec.kind /\ exec'.vm = exec.vm /\ exec'.names = exec.names
      /\ exec'.left >= 1 /\ exec'.step \in {"done", "check"}
      /\ exec'.step = "done" /\ exec'.ok => Up(exec.kind)
  BY <1>1, <1>4
<1>6. ExecutorState'
  BY <1>2, <1>5 DEF ExecutorState
<1>7. KnowsItsVm'
  BY <1>2, <1>5 DEF KnowsItsVm, ToldTheTruth, Up, CleansProbe
<1> QED BY <1>1, <1>2, <1>3, <1>5, <1>6, <1>7, LookStep DEF Awaited

\* The wait for a sender ends well only when the sender was seen to have ended
\* (_wait_sender_completion).
LEMMA AwaitStep ==
  ASSUME VmTyped, ExecutorState, KnowsItsVm, AwaitSender
  PROVE  GoesOn
<1> DEFINE SeenUp(a) == Answered(a) /\ Up("sender")
           SeenBroken(b) == Answered(b) /\ box[exec.vm]["sender"] = "broken"
           Result(a, b) == IF ~SeenUp(a) THEN Finish(~SeenBroken(b))
                           ELSE IF exec.left = 1 THEN Finish(FALSE)
                           ELSE [exec EXCEPT !.left = @ - 1]
<1>1. PICK a \in {"ok", "lost"}, b \in {"ok", "lost"} :
        Faults(Cost(a) + Cost(b)) /\ exec' = Disturb(Disturb(Result(a, b), a), b)
  BY DEF AwaitSender
<1>2. /\ exec.step = "await" /\ exec.kind = "sender" /\ exec.vm \in Vms /\ exec \in ExecRecords
      /\ box' = box /\ exec.left \in 1..MaxPolls
  BY DEF AwaitSender, VmTyped, ExecutorState, ExecRecords
<1>3. Cost(a) + Cost(b) \in Nat /\ (Cost(a) + Cost(b) = 0 => a = "ok" /\ b = "ok")
  BY DEF Cost
<1>4. /\ Result(a, b) \in ExecRecords
      /\ Result(a, b).kind = exec.kind /\ Result(a, b).vm = exec.vm /\ Result(a, b).names = exec.names
      /\ Result(a, b).disturbed = exec.disturbed
      /\ Result(a, b).left >= 1 /\ Result(a, b).step \in {"done", "await"}
      /\ Result(a, b).step = "done" /\ Result(a, b).ok => ~SeenUp(a) /\ ~SeenBroken(b)
  <2>1. CASE ~SeenUp(a)
    <3> DEFINE e == Result(a, b)
               ok == ~SeenBroken(b)
    <3>1. e = Finish(ok) /\ ok \in BOOLEAN
      BY <2>1
    <3>2. ok => ~SeenBroken(b)
      OBVIOUS
    <3> HIDE DEF e, Result, ok
    <3>3. /\ e \in ExecRecords /\ e.kind = exec.kind /\ e.vm = exec.vm /\ e.names = exec.names
          /\ e.left = exec.left /\ e.step = "done" /\ e.disturbed = exec.disturbed /\ e.ok = ok
      BY <1>2, <3>1, VmConstants DEF Finish, ExecRecords
    <3> HIDE DEF SeenUp, SeenBroken
    <3> QED BY <1>2, <2>1, <3>2, <3>3 DEF e
  <2>2. CASE SeenUp(a) /\ exec.left = 1
    <3> DEFINE e == Result(a, b)
    <3>1. e = Finish(FALSE)
      BY <2>2
    <3> HIDE DEF e, Result
    <3>2. /\ e \in ExecRecords /\ e.kind = exec.kind /\ e.vm = exec.vm /\ e.names = exec.names
          /\ e.left = exec.left /\ e.step = "done" /\ e.disturbed = exec.disturbed
      BY <1>2, <3>1, VmConstants DEF Finish, ExecRecords
    <3>3. ~e.ok
      BY <1>2, <3>1 DEF Finish, ExecRecords
    <3> QED BY <1>2, <3>2, <3>3 DEF e
  <2>3. CASE SeenUp(a) /\ exec.left # 1
    <3>1. Result(a, b) = [exec EXCEPT !.left = @ - 1]
      BY <2>3
    <3> HIDE DEF Result
    <3> QED BY <1>2, <2>3, <3>1, ExecPolls
  <2> QED BY <2>1, <2>2, <2>3
<1> DEFINE e == Result(a, b)
<1> HIDE DEF e
<1>5. exec' = Disturb(Disturb(e, a), b) /\ e \in ExecRecords
  BY <1>1, <1>4 DEF e
<1> HIDE DEF Result
<1>6. /\ exec' \in ExecRecords /\ exec'.kind = e.kind /\ exec'.vm = e.vm /\ exec'.names = e.names
      /\ exec'.left = e.left /\ exec'.step = e.step /\ exec'.ok = e.ok
      /\ exec'.disturbed = (e.disturbed \/ a # "ok" \/ b # "ok")
  BY <1>5 DEF Disturb, ExecRecords
<1>7. /\ exec'.kind = exec.kind /\ exec'.vm = exec.vm /\ exec'.names = exec.names
      /\ exec'.disturbed = (exec.disturbed \/ a # "ok" \/ b # "ok")
      /\ exec'.left >= 1 /\ exec'.step \in {"done", "await"}
      /\ exec'.step = "done" /\ exec'.ok => ~SeenUp(a) /\ ~SeenBroken(b)
  BY <1>4, <1>6 DEF e
<1>8. ExecutorState'
  BY <1>2, <1>7 DEF ExecutorState
<1>9. KnowsItsVm'
  <2>1. SUFFICES ASSUME ~exec'.disturbed
                 PROVE  /\ exec'.step = "done" /\ exec'.ok => ToldTheTruth'
                        /\ box'[exec'.vm]["sender"] \in {"up", "done"}
    BY <1>2, <1>7 DEF KnowsItsVm
  <2>2. ~exec.disturbed /\ a = "ok" /\ b = "ok"
    BY <1>7, <2>1
  <2>3. box[exec.vm]["sender"] \in {"up", "done"}
    BY <1>2, <2>2 DEF KnowsItsVm
  <2> QED BY <1>2, <1>7, <2>2, <2>3 DEF ToldTheTruth, Answered, Up, CleansProbe
<1>10. Awaited /\ Cost(a) + Cost(b) = 0 /\ SenderUp(exec.vm) => Awaited'
  BY <1>2, <1>3, <1>6, <1>7 DEF Awaited, Answered, Up, SenderUp, ExecRecords
<1> QED BY <1>1, <1>2, <1>3, <1>6, <1>7, <1>8, <1>9, <1>10, LookStep

\* A cleanup removes its containers one after the other.
LEMMA CleanupCommandStep ==
  ASSUME VmTyped, ExecutorState, KnowsItsVm, CleanupCommand
  PROVE  GoesOn
<1>1. PICK a \in {"ok", "lost", "late"} :
        /\ Faults(Cost(a))
        /\ box' = IF Arrived(a) THEN [box EXCEPT ![exec.vm] = Removed({NextName})] ELSE box
        /\ exec' = Continue("verify")
  BY DEF CleanupCommand
<1>2. /\ exec.step = "command" /\ exec.kind = "cleanup" /\ exec.vm \in Vms /\ exec \in ExecRecords
      /\ exec.left >= 1 /\ exec.todo # {}
  BY DEF CleanupCommand, VmTyped, ExecutorState
<1>3. /\ exec' \in ExecRecords /\ exec'.kind = "cleanup" /\ exec'.vm = exec.vm /\ exec'.names = exec.names
      /\ exec'.todo = exec.todo /\ exec'.left = exec.left /\ exec'.step = "verify" /\ exec'.ok = exec.ok
  BY <1>1, <1>2, VmConstants DEF Continue, ExecRecords
<1>4. exec'.disturbed = exec.disturbed
  BY <1>1, <1>2 DEF Continue, ExecRecords
<1>5. /\ Removed({NextName}) \in [Containers -> ContainerStates]
      /\ \A c \in Containers : Removed({NextName})[c] \in {"absent", box[exec.vm][c]}
  <2>1. box[exec.vm] \in [Containers -> ContainerStates]
    BY <1>2 DEF VmTyped
  <2> QED BY <2>1, VmConstants DEF Removed
<1>6. /\ box' \in [Vms -> [Containers -> ContainerStates]]
      /\ \A v \in Vms : v # exec.vm => box'[v] = box[v]
      /\ \A c \in Containers : box'[exec.vm][c] \in {"absent", box[exec.vm][c]}
  <2>1. CASE Arrived(a)
    <3> DEFINE b == Removed({NextName})
    <3>1. box' = [box EXCEPT ![exec.vm] = b] /\ b \in [Containers -> ContainerStates]
      BY <1>1, <1>5, <2>1
    <3>2. \A c \in Containers : b[c] \in {"absent", box[exec.vm][c]}
      BY <1>5
    <3> HIDE DEF b
    <3> QED BY <1>2, <3>1, <3>2, BoxUpdated
  <2>2. CASE ~Arrived(a)
    BY <1>1, <2>2 DEF VmTyped
  <2> QED BY <2>1, <2>2
<1>7. faults' \in 0..MaxFaults /\ (faults' = 0 => faults = 0)
  <2>1. Cost(a) \in Nat /\ faults \in 0..MaxFaults
    BY DEF Cost, VmTyped
  <2> QED BY <1>1, <2>1, FaultsCounted, FaultsAssumption
<1>8. VmTyped'
  BY <1>3, <1>6, <1>7 DEF VmTyped
<1>9. ExecutorState'
  BY <1>2, <1>3 DEF ExecutorState
<1>10. KnowsItsVm'
  <2>1. SUFFICES ASSUME ~exec'.disturbed, exec'.ok, NEW c \in exec'.names \ exec'.todo
                 PROVE  box'[exec'.vm][c] = "absent"
    BY <1>3 DEF KnowsItsVm
  <2>2. ~exec.disturbed /\ exec.ok /\ c \in exec.names \ exec.todo /\ c \in Containers
    BY <1>2, <1>3, <1>4, <2>1 DEF ExecRecords
  <2>3. box[exec.vm][c] = "absent"
    BY <1>2, <2>2 DEF KnowsItsVm
  <2> QED BY <1>3, <1>6, <2>2, <2>3
<1>11. SendersKept
  <2>1. "sender" \in Containers /\ ~Awaited
    BY <1>2, VmConstants DEF Awaited
  <2>2. \A v \in Vms : SenderUp(v)' => SenderUp(v)
    BY <1>6, <2>1 DEF SenderUp
  <2> QED BY <1>7, <2>1, <2>2 DEF SendersKept
<1> QED BY <1>2, <1>3, <1>8, <1>9, <1>10, <1>11 DEF GoesOn

\* The removal of a probe ends well only when the probe was not seen again.
LEMMA VerifyProbeStep ==
  ASSUME VmTyped, ExecutorState, KnowsItsVm, VerifyProbe
  PROVE  GoesOn
<1> DEFINE Remaining(blind) == {c \in exec.names : Seen(c, blind)}
           Result(blind) == IF Remaining(blind) = {} THEN Finish(exec.removed)
                            ELSE IF exec.left = 1 THEN Finish(FALSE)
                            ELSE [exec EXCEPT !.left = @ - 1]
<1>1. PICK blind \in SUBSET exec.names :
        Faults(Cardinality(blind)) /\ exec' = [Result(blind) EXCEPT !.disturbed = @ \/ blind # {}]
  BY DEF VerifyProbe
<1>2. /\ exec.step = "verify" /\ CleansProbe(exec.kind) /\ exec.vm \in Vms /\ exec \in ExecRecords
      /\ box' = box /\ exec.left \in 1..MaxPolls /\ exec.names \subseteq Probes
  BY DEF VerifyProbe, VmTyped, ExecutorState, ExecRecords, CleansProbe, Removes, Probes
<1>3. Cardinality(blind) \in Nat
  <2>1. blind \in SUBSET {"responder", "sender"}
    BY <1>1, <1>2 DEF Probes
  <2>2. {"responder", "sender"} = {"responder"} \cup {"sender"}
    OBVIOUS
  <2>3. IsFiniteSet({"responder"})
    BY FS_Singleton
  <2>4. IsFiniteSet({"responder"} \cup {"sender"})
    BY <2>3, FS_AddElement
  <2> QED BY <2>1, <2>2, <2>4, FS_Subset, FS_CardinalityType
<1> DEFINE e == Result(blind)
<1>4. /\ e \in ExecRecords /\ e.kind = exec.kind /\ e.vm = exec.vm /\ e.names = exec.names
      /\ e.left >= 1 /\ e.step \in {"done", "verify"} /\ e.disturbed = exec.disturbed
      /\ e.step = "done" /\ e.ok => Remaining(blind) = {}
  <2>1. CASE Remaining(blind) = {}
    <3>1. e = Finish(exec.removed)
      BY <2>1
    <3> HIDE DEF e
    <3>2. /\ e \in ExecRecords /\ e.kind = exec.kind /\ e.vm = exec.vm /\ e.names = exec.names
          /\ e.left = exec.left /\ e.step = "done" /\ e.disturbed = exec.disturbed
      BY <1>2, <3>1, VmConstants DEF Finish, ExecRecords
    <3> HIDE DEF Remaining
    <3> QED BY <1>2, <2>1, <3>2
  <2>2. CASE Remaining(blind) # {} /\ exec.left = 1
    <3>1. e = Finish(FALSE)
      BY <2>2
    <3> HIDE DEF e
    <3>2. /\ e \in ExecRecords /\ e.kind = exec.kind /\ e.vm = exec.vm /\ e.names = exec.names
          /\ e.left = exec.left /\ e.step = "done" /\ e.disturbed = exec.disturbed
      BY <1>2, <3>1, VmConstants DEF Finish, ExecRecords
    <3>3. ~e.ok
      BY <1>2, <3>1 DEF Finish, ExecRecords
    <3> HIDE DEF Remaining
    <3> QED BY <1>2, <3>2, <3>3
  <2>3. CASE Remaining(blind) # {} /\ exec.left # 1
    <3>1. e = [exec EXCEPT !.left = @ - 1]
      BY <2>3
    <3> HIDE DEF e, Remaining
    <3> QED BY <1>2, <2>3, <3>1, ExecPolls
  <2> QED BY <2>1, <2>2, <2>3
<1>5. exec' = [e EXCEPT !.disturbed = @ \/ blind # {}]
  BY <1>1
<1> HIDE DEF e, Result
<1>6. /\ exec' \in ExecRecords /\ exec'.kind = exec.kind /\ exec'.vm = exec.vm /\ exec'.names = exec.names
      /\ exec'.left >= 1 /\ exec'.step \in {"done", "verify"}
      /\ exec'.step = "done" /\ exec'.ok => Remaining(blind) = {}
      /\ exec'.disturbed = (exec.disturbed \/ blind # {})
  <2> HIDE DEF Remaining
  <2> QED BY <1>4, <1>5 DEF ExecRecords
<1>7. ExecutorState'
  BY <1>2, <1>6 DEF ExecutorState, CleansProbe
<1>8. KnowsItsVm'
  <2>1. SUFFICES ASSUME ~exec'.disturbed, exec'.step = "done", exec'.ok
                 PROVE  \A c \in exec.names : box'[exec'.vm][c] = "absent"
    BY <1>2, <1>6 DEF KnowsItsVm, ToldTheTruth, CleansProbe
  <2>2. blind = {} /\ Remaining(blind) = {}
    BY <1>6, <2>1 DEF ExecRecords
  <2> QED BY <1>2, <1>6, <2>2 DEF Seen, Has
<1> QED BY <1>1, <1>2, <1>3, <1>6, <1>7, <1>8, LookStep DEF Awaited

\* A cleanup of containers ends well only when none of them was seen again.
LEMMA VerifyCleanupStep ==
  ASSUME VmTyped, ExecutorState, KnowsItsVm, VerifyCleanup
  PROVE  GoesOn
<1> DEFINE SeenUp(blind) == Has(NextName) /\ ~blind
           rest == [exec EXCEPT !.todo = @ \ {NextName}, !.left = MaxPolls]
           Result(blind) ==
             IF SeenUp(blind) /\ exec.left > 1 THEN [exec EXCEPT !.left = @ - 1]
             ELSE [rest EXCEPT !.ok = @ /\ ~SeenUp(blind), !.step = IF rest.todo = {} THEN "done" ELSE "command"]
<1>1. PICK blind \in BOOLEAN :
        /\ Faults(IF blind THEN 1 ELSE 0) /\ exec' = [Result(blind) EXCEPT !.disturbed = @ \/ blind]
  BY DEF VerifyCleanup
<1>2. /\ exec.step = "verify" /\ exec.kind = "cleanup" /\ exec.vm \in Vms /\ exec \in ExecRecords
      /\ box' = box /\ exec.left \in 1..MaxPolls /\ exec.todo # {}
  <2>1. exec.step = "verify" /\ exec.kind = "cleanup" /\ box' = box
    BY DEF VerifyCleanup
  <2>2. exec \in ExecRecords
    BY DEF VmTyped
  <2>3. exec.left >= 1 /\ exec.vm \in Vms /\ exec.todo # {}
    BY <2>1 DEF ExecutorState
  <2> QED BY <2>1, <2>2, <2>3, VmConstants DEF ExecRecords
<1>3. NextName \in exec.todo
  BY <1>2 DEF NextName
<1> DEFINE name == NextName
           seen == SeenUp(blind)
           e == Result(blind)
<1>4. seen = (box[exec.vm][name] # "absent" /\ ~blind) /\ seen \in BOOLEAN
  BY DEF Has
<1>5. \/ seen /\ exec.left > 1 /\ e = [exec EXCEPT !.left = @ - 1]
      \/ ~(seen /\ exec.left > 1)
         /\ e = [rest EXCEPT !.ok = @ /\ ~seen, !.step = IF rest.todo = {} THEN "done" ELSE "command"]
  OBVIOUS
<1>6. rest \in ExecRecords /\ rest.kind = exec.kind /\ rest.vm = exec.vm /\ rest.names = exec.names
      /\ rest.todo = exec.todo \ {name} /\ rest.left = MaxPolls /\ rest.ok = exec.ok /\ rest.disturbed = exec.disturbed
  <2>1. exec.todo \ {name} \in SUBSET Containers /\ MaxPolls \in 0..MaxPolls
    BY <1>2, VmConstants DEF ExecRecords
  <2> DEFINE fewer == exec.todo \ {name}
  <2>2. fewer \in SUBSET Containers /\ rest = [exec EXCEPT !.todo = fewer, !.left = MaxPolls]
    BY <2>1
  <2> HIDE DEF fewer, rest
  <2>3. /\ rest \in ExecRecords /\ rest.kind = exec.kind /\ rest.vm = exec.vm /\ rest.names = exec.names
        /\ rest.todo = fewer /\ rest.left = MaxPolls /\ rest.ok = exec.ok /\ rest.disturbed = exec.disturbed
    BY <1>2, <2>1, <2>2 DEF ExecRecords
  <2> QED BY <2>3 DEF fewer
<1>7. exec' = [e EXCEPT !.disturbed = @ \/ blind]
  BY <1>1
<1> HIDE DEF e, Result, seen, SeenUp, rest, name
<1>8. /\ e \in ExecRecords /\ e.kind = exec.kind /\ e.vm = exec.vm /\ e.names = exec.names
      /\ e.left >= 1 /\ e.disturbed = exec.disturbed
      /\ \/ e.step = "verify" /\ e.todo = exec.todo /\ e.ok = exec.ok
         \/ /\ e.step = "command" /\ e.todo = exec.todo \ {name} /\ e.todo # {}
            /\ e.ok => exec.ok /\ ~seen
         \/ /\ e.step = "done" /\ e.todo = exec.todo \ {name} /\ e.todo = {}
            /\ e.ok => exec.ok /\ ~seen
  <2>1. CASE seen /\ exec.left > 1 /\ e = [exec EXCEPT !.left = @ - 1]
    BY <1>2, <2>1, ExecPolls
  <2>2. CASE e = [rest EXCEPT !.ok = @ /\ ~seen, !.step = IF rest.todo = {} THEN "done" ELSE "command"]
    <3> DEFINE ok == rest.ok /\ ~seen
               step == IF rest.todo = {} THEN "done" ELSE "command"
    <3>1. ok \in BOOLEAN /\ step \in Steps /\ (ok => exec.ok /\ ~seen)
      BY <1>6, VmConstants
    <3>2. e = [rest EXCEPT !.ok = ok, !.step = step]
      BY <2>2
    <3>3. IF rest.todo = {} THEN step = "done" ELSE step = "command"
      OBVIOUS
    <3> HIDE DEF ok, step
    <3>4. /\ e \in ExecRecords /\ e.kind = rest.kind /\ e.vm = rest.vm /\ e.names = rest.names
          /\ e.left = rest.left /\ e.disturbed = rest.disturbed /\ e.todo = rest.todo /\ e.ok = ok /\ e.step = step
      BY <1>6, <3>1, <3>2 DEF ExecRecords
    <3> QED BY <1>6, <3>1, <3>3, <3>4, VmConstants
  <2> QED BY <1>5, <2>1, <2>2
<1>9. /\ exec' \in ExecRecords /\ exec'.kind = e.kind /\ exec'.vm = e.vm /\ exec'.names = e.names
      /\ exec'.left = e.left /\ exec'.step = e.step /\ exec'.todo = e.todo /\ exec'.ok = e.ok
      /\ exec'.disturbed = (e.disturbed \/ blind)
  BY <1>7, <1>8 DEF ExecRecords
<1>10. ExecutorState'
  BY <1>2, <1>8, <1>9 DEF ExecutorState
<1>11. KnowsItsVm'
  <2>1. SUFFICES ASSUME ~exec'.disturbed, exec'.ok
                 PROVE  \A c \in exec'.names \ exec'.todo : box'[exec'.vm][c] = "absent"
    <3>1. exec'.kind = "cleanup" /\ exec'.step # "await" /\ (exec'.step = "done" => exec'.todo = {})
      BY <1>2, <1>8, <1>9
    <3> QED BY <2>1, <3>1 DEF KnowsItsVm, ToldTheTruth
  <2>2. ~exec.disturbed /\ ~blind /\ exec.ok
    BY <1>2, <1>8, <1>9, <2>1 DEF ExecRecords
  <2>3. \A c \in exec.names \ exec.todo : box[exec.vm][c] = "absent"
    BY <1>2, <2>2 DEF KnowsItsVm
  <2>4. exec'.todo # exec.todo => exec'.todo = exec.todo \ {name} /\ box[exec.vm][name] = "absent"
    BY <1>4, <1>8, <1>9, <2>1, <2>2
  <2> QED BY <1>2, <1>8, <1>9, <2>3, <2>4
<1>12. exec'.step # "idle"
  BY <1>8, <1>9
<1>13. (IF blind THEN 1 ELSE 0) \in Nat
  OBVIOUS
<1> QED BY <1>1, <1>2, <1>8, <1>9, <1>10, <1>11, <1>12, <1>13, LookStep DEF Awaited

\* The containers by themselves: only a sender that is up ends, and a crash is remembered.
LEMMA OneContainer ==
  ASSUME VmTyped, NEW v \in Vms, NEW c \in Containers, NEW s \in ContainerStates, box' = [box EXCEPT ![v][c] = s]
  PROVE  /\ box' \in [Vms -> [Containers -> ContainerStates]]
         /\ \A w \in Vms : \A d \in Containers : box'[w][d] = IF w = v /\ d = c THEN s ELSE box[w][d]
  BY DEF VmTyped

\* A sender that ends makes nothing untrue that was reported.
LEMMA SenderEndsStep ==
  ASSUME VmTyped, ExecutorState, KnowsItsVm, SenderEnds
  PROVE  VmTyped' /\ ExecutorState' /\ KnowsItsVm' /\ SendersKept /\ exec' = exec
<1>1. exec' = exec /\ faults' = faults /\ exec \in ExecRecords
  BY DEF SenderEnds, VmTyped
<1>2. PICK v \in Vms : box[v]["sender"] = "up" /\ box' = [box EXCEPT ![v]["sender"] = "done"]
  BY DEF SenderEnds
<1>3. /\ box' \in [Vms -> [Containers -> ContainerStates]]
      /\ \A w \in Vms : \A d \in Containers : box'[w][d] = IF w = v /\ d = "sender" THEN "done" ELSE box[w][d]
  BY <1>2, VmConstants, OneContainer
<1>4. VmTyped'
  BY <1>1, <1>3 DEF VmTyped
<1>5. ExecutorState'
  BY <1>1 DEF ExecutorState
<1>6. SendersKept
  BY <1>1, <1>3, VmConstants DEF SendersKept, SenderUp, Awaited
<1>7. KnowsItsVm'
  <2>1. SUFFICES ASSUME ~exec.disturbed
                 PROVE  /\ exec.step = "done" /\ exec.ok => ToldTheTruth'
                        /\ exec.step = "await" => box'[exec.vm]["sender"] \in {"up", "done"}
                        /\ exec.kind = "cleanup" /\ exec.ok => \A c \in exec.names \ exec.todo : box'[exec.vm][c] = "absent"
    BY <1>1 DEF KnowsItsVm
  <2>2. exec.names \subseteq Containers
    BY <1>1 DEF ExecRecords
  <2>3. CASE exec.kind = "wait"
    BY <1>1, <2>3 DEF ToldTheTruth, ExecutorState, CleansProbe
  <2>4. CASE exec.kind # "wait"
    <3>1. exec.vm \in Vms
      BY <2>4 DEF ExecutorState
    <3>2. \A d \in Containers : /\ box[exec.vm][d] = "absent" => box'[exec.vm][d] = "absent"
                                /\ d # "sender" /\ box[exec.vm][d] = "up" => box'[exec.vm][d] = "up"
                                /\ box[exec.vm]["sender"] = "done" => box'[exec.vm]["sender"] = "done"
                                /\ box[exec.vm]["sender"] = "up" => box'[exec.vm]["sender"] \in {"up", "done"}
      BY <1>2, <1>3, <3>1, VmConstants
    <3>3. exec.step = "await" => box'[exec.vm]["sender"] \in {"up", "done"}
      BY <2>1, <3>2, VmConstants DEF KnowsItsVm
    <3>4. exec.kind = "cleanup" /\ exec.ok => \A c \in exec.names \ exec.todo : box'[exec.vm][c] = "absent"
      BY <2>1, <2>2, <3>2 DEF KnowsItsVm
    <3>5. ASSUME exec.step = "done", exec.ok PROVE ToldTheTruth'
      <4>1. ToldTheTruth
        BY <2>1, <3>5 DEF KnowsItsVm
      <4> QED BY <1>1, <2>2, <3>2, <4>1, VmConstants DEF ToldTheTruth
    <3> QED BY <3>3, <3>4, <3>5
  <2> QED BY <2>3, <2>4
<1> QED BY <1>1, <1>4, <1>5, <1>6, <1>7

\* A container that crashes under an executor disturbs it.
LEMMA CrashStep ==
  ASSUME VmTyped, ExecutorState, KnowsItsVm, Crash
  PROVE  /\ VmTyped' /\ ExecutorState' /\ KnowsItsVm' /\ SendersKept
         /\ exec'.step = exec.step /\ exec'.vm = exec.vm /\ exec'.kind = exec.kind
<1>1. /\ exec' = [exec EXCEPT !.disturbed = @ \/ exec.step # "idle"]
      /\ Faults(1) /\ exec \in ExecRecords
  BY DEF Crash, VmTyped
<1>2. PICK v \in Vms, c \in Containers : box[v][c] = "up" /\ box' = [box EXCEPT ![v][c] = "broken"]
  BY DEF Crash
<1>3. box' \in [Vms -> [Containers -> ContainerStates]]
  BY <1>2, VmConstants, OneContainer
<1>4. faults' \in 0..MaxFaults /\ faults' # 0
  <2>1. faults \in 0..MaxFaults
    BY DEF VmTyped
  <2> QED BY <1>1, <2>1, FaultsCounted
<1>5. /\ exec' \in ExecRecords /\ exec'.kind = exec.kind /\ exec'.vm = exec.vm /\ exec'.names = exec.names
      /\ exec'.todo = exec.todo /\ exec'.left = exec.left /\ exec'.step = exec.step /\ exec'.ok = exec.ok
      /\ exec'.disturbed = (exec.disturbed \/ exec.step # "idle")
  <2> DEFINE d == exec.disturbed \/ exec.step # "idle"
  <2>1. d \in BOOLEAN /\ exec' = [exec EXCEPT !.disturbed = d]
    BY <1>1
  <2> HIDE DEF d
  <2>2. /\ exec' \in ExecRecords /\ exec'.kind = exec.kind /\ exec'.vm = exec.vm /\ exec'.names = exec.names
        /\ exec'.todo = exec.todo /\ exec'.left = exec.left /\ exec'.step = exec.step /\ exec'.ok = exec.ok
        /\ exec'.disturbed = d
    BY <1>1, <2>1 DEF ExecRecords
  <2> QED BY <2>2 DEF d
<1>6. ASSUME exec.step = "idle" PROVE exec' = exec
  <2>1. exec = NoExecutor /\ exec.disturbed = FALSE
    BY <1>6 DEF ExecutorState, NoExecutor
  <2>2. (exec.disturbed \/ exec.step # "idle") = FALSE
    BY <1>6, <2>1
  <2>3. exec' = [exec EXCEPT !.disturbed = FALSE]
    BY <1>1, <2>2
  <2> QED BY <2>1, <2>3 DEF NoExecutor
<1>7. VmTyped'
  BY <1>3, <1>4, <1>5 DEF VmTyped
<1>8. ExecutorState'
  BY <1>5, <1>6 DEF ExecutorState
<1>9. KnowsItsVm'
  <2>1. CASE exec.step # "idle"
    BY <1>5, <2>1 DEF KnowsItsVm
  <2>2. CASE exec.step = "idle"
    <3>1. exec'.step = "idle" /\ exec'.kind = "wait"
      BY <1>6, <2>2 DEF ExecutorState, NoExecutor
    <3> QED BY <3>1 DEF KnowsItsVm
  <2> QED BY <2>1, <2>2
<1> QED BY <1>4, <1>5, <1>7, <1>8, <1>9 DEF SendersKept

\* Whatever happens on the VMs, executors go on to report the truth.
LEMMA MachineStep ==
  ASSUME VmTyped, ExecutorState, KnowsItsVm, ExecStep \/ SenderEnds \/ Crash
  PROVE  /\ VmTyped' /\ ExecutorState' /\ KnowsItsVm' /\ SendersKept
         /\ (exec'.step # "idle") = (exec.step # "idle") /\ exec'.vm = exec.vm /\ exec'.kind = exec.kind
<1>1. CASE ExecStep
  <2>1. exec.step # "idle"
    BY <1>1 DEF ExecStep, Command, CleanupCommand, StressAlreadyRunning, Check, AwaitSender, VerifyProbe, VerifyCleanup
  <2>2. GoesOn
    BY <1>1, CommandStep, CleanupCommandStep, StressAlreadyRunningStep, CheckStep, AwaitStep, VerifyProbeStep,
       VerifyCleanupStep DEF ExecStep
  <2> QED BY <2>1, <2>2 DEF GoesOn
<1>2. CASE SenderEnds
  BY <1>2, SenderEndsStep
<1>3. CASE Crash
  BY <1>3, CrashStep
<1> QED BY <1>1, <1>2, <1>3

\* An action is handed to a fresh executor.
LEMMA BeginStep ==
  ASSUME NEW action, SoundAction(action), NEW cleanup \in BOOLEAN, Begin(action, cleanup)
  PROVE  /\ exec' \in ExecRecords /\ ExecutorState' /\ KnowsItsVm'
         /\ exec'.step # "idle" /\ exec'.kind = ExecutorOf(action, cleanup)
<1> DEFINE kind == ExecutorOf(action, cleanup)
           names == NamesOf(action, kind)
           invalid == Invalid(action, kind)
           step == IF invalid THEN "done" ELSE FirstStep(kind)
           ok == ~invalid
<1>1. exec' = [kind |-> kind, vm |-> action.target, names |-> names, todo |-> names, left |-> MaxPolls,
               step |-> step, removed |-> FALSE, ok |-> ok, disturbed |-> FALSE]
  BY DEF Begin
<1>2. kind \in Executors /\ (kind = "wait") = (action.type = "wait")
      /\ (kind = "cleanup") = (action.type \in {"cleanup_zenoh_routers", "cleanup_containers"})
  BY DEF SoundAction, ExecutorOf, PresetExecutor, ActionTypes, Untargeted, Executors, Presets
<1>3. names \in SUBSET Containers /\ (CleansProbe(kind) => names = Removes(kind))
  BY <1>2, VmConstants DEF SoundAction, NamesOf, CleansProbe, Removes, Probes
<1>4. kind = "cleanup" /\ ~invalid => names # {}
  BY <1>2 DEF NamesOf, Invalid, CleansProbe
<1>5. kind = "wait" => action.target = 0 /\ ~invalid
  BY <1>2 DEF SoundAction, Invalid
<1>6. kind # "wait" => action.target \in Vms
  BY <1>2 DEF SoundAction
<1>7. /\ ok = ~invalid /\ ok \in BOOLEAN
      /\ \/ step = "done" /\ ~ok
         \/ ok /\ step = FirstStep(kind)
  OBVIOUS
<1> HIDE DEF kind, names, invalid, step, ok
<1>8. step \in {"done", "running?", "command"} /\ (step = "running?" => kind = "stress")
      /\ (step = "done" /\ ok) = (kind = "wait") /\ (kind = "wait" => step = "done")
  BY <1>5, <1>7 DEF FirstStep
<1>9. /\ exec'.kind = kind /\ exec'.vm = action.target /\ exec'.names = names /\ exec'.todo = names
       /\ exec'.left = MaxPolls /\ exec'.step = step /\ exec'.removed = FALSE /\ exec'.ok = ok /\ exec'.disturbed = FALSE
  BY <1>1
<1>10. exec' \in ExecRecords
  BY <1>1, <1>2, <1>3, <1>5, <1>6, <1>7, <1>8, VmConstants DEF ExecRecords
<1>11. ExecutorState'
  <2>1. MaxPolls >= 1
    BY VmConstants
  <2>2. step # "idle" /\ step \notin {"check", "await", "verify"}
    BY <1>8
  <2>3. kind = "cleanup" /\ step = "command" => names # {}
    BY <1>4, <1>7, <1>8
  <2>4. exec'.kind # "wait" => exec'.vm \in Vms
    BY <1>6, <1>9
  <2>5. exec'.kind = "wait" => exec'.step \in {"idle", "done"}
    BY <1>8, <1>9
  <2>6. exec'.step = "running?" => exec'.kind = "stress"
    BY <1>8, <1>9
  <2> QED BY <1>3, <1>9, <2>1, <2>2, <2>3, <2>4, <2>5, <2>6 DEF ExecutorState
<1>12. KnowsItsVm'
  BY <1>7, <1>8, <1>9 DEF KnowsItsVm, ToldTheTruth, CleansProbe
<1> QED BY <1>8, <1>9, <1>10, <1>11, <1>12 DEF kind


-----------------------------------------------------------------------------
(* Where a task stands, and what a step leaves as it is *)

\* While a task is there, its row, its run and its place in the plan exist.
LEMMA Standing ==
  ASSUME Planned, Typed, Placed, ~At({"idle"})
  PROVE  /\ PlanMade /\ (WholeRow \/ RowPerRun) /\ RowsPartition
         /\ task.row \in DOMAIN rows /\ Row \in RowRecords /\ RowRuns(Row) \subseteq Ids
         /\ Row.first \in RowRuns(Row) /\ Row.last \in RowRuns(Row) /\ Row.first <= Row.last
         /\ At(RunPCs) => task.run \in Ids /\ task.run \in RowRuns(Row)
         /\ At(PhasePCs) => task.phase \in PhasesIn(task.run)
<1>1. PlanMade /\ (WholeRow \/ RowPerRun)
  BY DEF Planned, NothingYet, At, Idle
<1>2. RowsPartition
  BY <1>1, RowFacts
<1>3. task.row \in DOMAIN rows /\ Row \in RowRecords
  BY DEF Placed, Typed, Row
<1>4. RowRuns(Row) \subseteq Ids /\ Row.first <= Row.last
  BY <1>2, <1>3 DEF RowsPartition, Row
<1>5. Row.first \in RowRuns(Row) /\ Row.last \in RowRuns(Row)
  BY <1>3, <1>4 DEF RowRuns, RowRecords
<1>6. At(RunPCs) => task.run \in Ids /\ task.run \in RowRuns(Row)
  BY <1>4 DEF Placed
<1>7. At(PhasePCs) => task.phase \in PhasesIn(task.run)
  BY DEF Placed, PhasesIn, Run
<1> QED BY <1>1, <1>2, <1>3, <1>4, <1>5, <1>6, <1>7

\* Runs, phases and actions are counted from one.
LEMMA IdsArePositive ==
  ASSUME PlanMade
  PROVE  Ids \subseteq Nat \ {0} /\ \A i \in Ids : /\ PhasesIn(i) \subseteq Nat \ {0} /\ 1 \in PhasesIn(i)
                                                   /\ \A p \in PhasesIn(i) : ActionsIn(i, p) \subseteq Nat \ {0}
<1>1. /\ Ids = 1..Len(plan.runs) /\ Len(plan.runs) \in Nat \ {0}
      /\ \A i \in Ids : /\ PhasesIn(i) = 1..Len(plan.runs[i].phases) /\ Len(plan.runs[i].phases) \in Nat \ {0}
                        /\ \A p \in PhasesIn(i) : /\ ActionsIn(i, p) = 1..Len(plan.runs[i].phases[p].actions)
                                                  /\ Len(plan.runs[i].phases[p].actions) \in Nat
  BY PlanFacts
<1>2. \A n \in Nat : 1..n \subseteq Nat \ {0} /\ (n # 0 => 1 \in 1..n)
  OBVIOUS
<1>3. Ids \subseteq Nat \ {0}
  BY <1>1, <1>2
<1>4. ASSUME NEW i \in Ids
      PROVE  PhasesIn(i) \subseteq Nat \ {0} /\ 1 \in PhasesIn(i)
  BY <1>1, <1>2
<1>5. ASSUME NEW i \in Ids, NEW p \in PhasesIn(i)
      PROVE  ActionsIn(i, p) \subseteq Nat \ {0}
  BY <1>1, <1>2
<1> QED BY <1>3, <1>4, <1>5

\* A step of the task that sends no command leaves the VMs as they are.
LEMMA MachineRests ==
  ASSUME UNCHANGED execVars
  PROVE  /\ VmTyped' = VmTyped /\ ExecutorState' = ExecutorState /\ KnowsItsVm' = KnowsItsVm
         /\ Awaited' = Awaited /\ \A v : SenderUp(v)' = SenderUp(v)
<1>1. box' = box /\ exec' = exec /\ faults' = faults
  BY DEF execVars
<1>2. VmTyped' = VmTyped
  BY <1>1 DEF VmTyped
<1>3. ExecutorState' = ExecutorState
  BY <1>1 DEF ExecutorState
<1>4. KnowsItsVm' = KnowsItsVm
  BY <1>1 DEF KnowsItsVm, ToldTheTruth
<1>5. Awaited' = Awaited /\ \A v : SenderUp(v)' = SenderUp(v)
  BY <1>1 DEF Awaited, SenderUp
<1> QED BY <1>2, <1>3, <1>4, <1>5

\* A plan that is kept keeps its runs, phases and actions.
LEMMA PlanKept ==
  ASSUME UNCHANGED <<spec, plan>>
  PROVE  /\ PlanMade' = PlanMade /\ Ids' = Ids
         /\ \A i : /\ PhasesIn(i)' = PhasesIn(i)
                   /\ \A p : /\ ActionsIn(i, p)' = ActionsIn(i, p)
                             /\ \A a : IsCollect(i, p, a)' = IsCollect(i, p, a)
<1>1. spec' = spec /\ plan' = plan
  OBVIOUS
<1> QED BY <1>1 DEF PlanMade, Ids, PhasesIn, ActionsIn, IsCollect

\* A run whose entries are as they were.
LEMMA DetailKept ==
  ASSUME UNCHANGED plan, NEW i, tracker'[i].phases = tracker[i].phases
  PROVE  /\ Blank(i)' = Blank(i) /\ Complete(i)' = Complete(i) /\ Stopped(i)' = Stopped(i)
         /\ \A p : /\ PhaseStatus(i, p)' = PhaseStatus(i, p)
                   /\ BlankPhase(i, p)' = BlankPhase(i, p) /\ DonePhase(i, p)' = DonePhase(i, p)
                   /\ \A a : /\ ActionStatus(i, p, a)' = ActionStatus(i, p, a)
                             /\ StoppedAt(i, p, a)' = StoppedAt(i, p, a)
<1>1. plan' = plan /\ PhasesIn(i)' = PhasesIn(i) /\ \A p : ActionsIn(i, p)' = ActionsIn(i, p)
  BY DEF PhasesIn, ActionsIn
<1>2. \A p : /\ PhaseStatus(i, p)' = PhaseStatus(i, p)
             /\ \A a : ActionStatus(i, p, a)' = ActionStatus(i, p, a)
  BY DEF PhaseStatus, ActionStatus
<1>3. \A p : BlankPhase(i, p)' = BlankPhase(i, p)
  BY <1>1, <1>2 DEF BlankPhase
<1>4. \A p : DonePhase(i, p)' = DonePhase(i, p)
  BY <1>1, <1>2 DEF DonePhase
<1>5. \A p, a : StoppedAt(i, p, a)' = StoppedAt(i, p, a)
  BY <1>1, <1>2, <1>3, <1>4 DEF StoppedAt, UpTo
<1>6. Blank(i)' = Blank(i)
  BY <1>1, <1>3 DEF Blank
<1>7. Complete(i)' = Complete(i)
  BY <1>1, <1>4 DEF Complete
<1>8. Stopped(i)' = Stopped(i)
  BY <1>1, <1>5 DEF Stopped
<1> QED BY <1>2, <1>3, <1>4, <1>5, <1>6, <1>7, <1>8

\* A blank run has not gone beyond its first action.
LEMMA BlankStops ==
  ASSUME PlanMade, NEW i \in Ids, Blank(i)
  PROVE  Stopped(i)
<1>1. PhasesIn(i) \subseteq Nat \ {0} /\ 1 \in PhasesIn(i) /\ ActionsIn(i, 1) \subseteq Nat \ {0}
  BY IdsArePositive
<1>2. \A p \in PhasesIn(i) : BlankPhase(i, p)
  BY DEF Blank
<1>3. StoppedAt(i, 1, 1)
  BY <1>1, <1>2 DEF StoppedAt, UpTo, BlankPhase
<1> QED BY <1>1, <1>3 DEF Stopped


-----------------------------------------------------------------------------
(* Steps within a run *)

RunningPCs == RunPCs \ {"nextRun"}

\* A step inside the run that is carried out keeps the invariant when it keeps
\* the story of that run.
LEMMA DetailStep ==
  ASSUME IInv, At(RunningPCs), At(RunningPCs)', UNCHANGED <<spec, plan, rows>>,
         task'.row = task.row, task'.run = task.run, task'.done = task.done, task'.failed = task.failed,
         DOMAIN tracker' = Ids,
         \A i \in Ids : /\ tracker'[i].status = tracker[i].status
                        /\ i # task.run => tracker'[i].phases = tracker[i].phases
  PROVE  /\ Planned' /\ (\A i \in Ids : Told(i))' /\ InRow' /\ InOrder' /\ StopsAtFailure'
         /\ NoFailedRun' = NoFailedRun /\ tracker'[task.run].status = "RUNNING"
         /\ Row' = Row /\ Run' = Run
<1>1. /\ PlanMade /\ (WholeRow \/ RowPerRun) /\ RowsPartition
      /\ task.row \in DOMAIN rows /\ RowRuns(Row) \subseteq Ids
      /\ task.run \in Ids /\ task.run \in RowRuns(Row)
  BY Standing DEF IInv, At, RunningPCs, RunPCs
<1>2. /\ spec' = spec /\ plan' = plan /\ rows' = rows /\ Row' = Row /\ Run' = Run /\ Ids' = Ids
      /\ PlanMade' /\ \A i : /\ PhasesIn(i)' = PhasesIn(i)
                             /\ \A p : /\ ActionsIn(i, p)' = ActionsIn(i, p)
                                       /\ \A a : IsCollect(i, p, a)' = IsCollect(i, p, a)
  BY <1>1, PlanKept DEF Row, Run
<1>3. \A i \in Ids : i # task.run =>
        /\ Blank(i)' = Blank(i) /\ Complete(i)' = Complete(i) /\ Stopped(i)' = Stopped(i)
        /\ \A p, a : ActionStatus(i, p, a)' = ActionStatus(i, p, a)
  BY <1>2, DetailKept
<1>4. Planned'
  BY <1>1, <1>2 DEF Planned, WholeRow, RowPerRun
<1>5. tracker[task.run].status = "RUNNING"
  BY DEF IInv, Story, Underway, At, RunningPCs
<1>6. (\A i \in Ids : Told(i))'
  <2>1. SUFFICES ASSUME NEW i \in Ids PROVE Told(i)'
    BY <1>2
  <2>2. Told(i)
    BY DEF IInv, Story
  <2>3. At(RunPCs \cup {"died"})'
    BY DEF At, RunningPCs
  <2>4. CASE i = task.run
    BY <1>5, <2>3, <2>4 DEF Told, At
  <2>5. CASE i # task.run
    BY <1>3, <2>2, <2>3, <2>5 DEF Told, At
  <2> QED BY <2>4, <2>5
<1>7. \A row, s : RunsWith(row, s)' = {i \in RowRuns(row) : tracker'[i].status = s}
  BY DEF RunsWith, RowRuns
<1>8. \A r \in DOMAIN rows : \A s : RunsWith(rows[r], s)' = RunsWith(rows[r], s)
  <2>1. \A r \in DOMAIN rows : RowRuns(rows[r]) \subseteq Ids
    BY <1>1 DEF RowsPartition
  <2> QED BY <1>7, <2>1 DEF RunsWith
<1>9. InRow'
  <2>1. \A i \in RowRuns(Row) : /\ i < task.run => tracker[i].status \in Finished
                                /\ i > task.run => tracker[i].status = "PENDING"
    BY DEF IInv, Story, InRow, At, RunningPCs, RunPCs
  <2>2. task.done = Cardinality(RunsWith(Row, "SUCCEEDED")) /\ task.failed = Cardinality(RunsWith(Row, "FAILED"))
    BY DEF IInv, Story, InRow, At, RunningPCs, RunPCs
  <2>3. \A s : RunsWith(Row, s)' = RunsWith(Row, s)
    BY <1>1, <1>8 DEF Row
  <2>4. ~At({"load"})' /\ ~At({"nextRun"})' /\ ~At({"finish"})'
    BY DEF At, RunningPCs, RunPCs
  <2>5. \A i \in RowRuns(Row) : /\ i < task.run => tracker'[i].status \in Finished
                                /\ i > task.run => tracker'[i].status = "PENDING"
    BY <1>1, <2>1
  <2>6. task'.done = Cardinality(RunsWith(Row, "SUCCEEDED"))' /\ task'.failed = Cardinality(RunsWith(Row, "FAILED"))'
    BY <1>2, <2>2, <2>3
  <2>7. RowRuns(Row)' = RowRuns(Row)
    BY <1>2 DEF RowRuns
  <2> QED BY <1>2, <2>4, <2>5, <2>6, <2>7 DEF InRow
<1>10. InOrder'
  <2>1. ~At({"idle"}) /\ ~At({"idle"})' /\ ~At({"dispatch"}) /\ ~At({"dispatch"})'
    BY DEF At, RunningPCs, RunPCs
  <2>2. InOrder
    BY DEF IInv, Story
  <2>3. ASSUME NEW r \in DOMAIN rows
        PROVE  /\ rows[r].status = "PENDING" => \A i \in RowRuns(rows[r]) : tracker'[i].status = "PENDING"
               /\ rows[r].status \in Finished => RowAgrees(rows[r])' /\ \A i \in RowRuns(rows[r]) : tracker'[i].status # "RUNNING"
               /\ rows[r].collected => AllCollected(rows[r])'
    <3>1. RowRuns(rows[r]) \subseteq Ids
      BY <1>1 DEF RowsPartition
    <3>2. RowAgrees(rows[r])' = RowAgrees(rows[r])
      BY <1>2, <1>8 DEF RowAgrees, RowRuns
    <3>3. ASSUME rows[r].collected PROVE AllCollected(rows[r])'
      <4>1. r # task.row
        BY <2>1, <2>2, <3>3 DEF InOrder, Finished, Row
      <4>2. task.run \notin RowRuns(rows[r])
        BY <1>1, <4>1 DEF RowsPartition, Row
      <4>3. AllCollected(rows[r])
        BY <2>2, <3>3 DEF InOrder
      <4>4. SUFFICES ASSUME NEW i \in RowRuns(rows[r]) PROVE
              \A x \in StepsOf(i)' : plan'.runs[i].phases[x[1]].actions[x[2]].type = "collect_metrics"
                => StatusOf(i, x)' \in {"PENDING", "SUCCEEDED"}
        BY <1>2 DEF AllCollected, RowRuns
      <4>5. StepsOf(i)' = StepsOf(i) /\ tracker'[i].phases = tracker[i].phases
        BY <1>2, <3>1, <4>2 DEF StepsOf
      <4> QED BY <1>2, <4>3, <4>5 DEF AllCollected, StatusOf
    <3> QED BY <2>2, <3>1, <3>2, <3>3 DEF InOrder
  <2>4. \A r : RowRuns(rows[r])' = RowRuns(rows[r])
    BY <1>2 DEF RowRuns
  <2> QED BY <1>2, <2>1, <2>2, <2>3, <2>4 DEF InOrder
<1>11. NoFailedRun' = NoFailedRun
  BY <1>2 DEF NoFailedRun
<1>12. StopsAtFailure'
  <2>1. plan.stop => NoFailedRun
    BY DEF IInv, Story, StopsAtFailure, At, RunningPCs
  <2> QED BY <1>2, <1>11, <2>1 DEF StopsAtFailure, NoFailedRun
<1> QED BY <1>1, <1>2, <1>4, <1>5, <1>6, <1>9, <1>10, <1>11, <1>12


\* The tracker keeps the shape of the plan.
TrackerShaped == DOMAIN tracker = Ids /\ \A i \in Ids : HasShape(tracker[i], plan.runs[i])

\* The tracker keeps its shape when statuses of runs are written ...
LEMMA ShapeAfterStatus ==
  ASSUME Typed, UNCHANGED plan, DOMAIN tracker' = Ids,
         \A i \in Ids : /\ tracker'[i].phases = tracker[i].phases
                        /\ DOMAIN tracker'[i] = {"status", "phases"} /\ tracker'[i].status \in EntryStatus
  PROVE  TrackerShaped'
<1>1. Ids' = Ids
  BY DEF Ids
<1> QED BY <1>1 DEF TrackerShaped, Typed, HasShape

\* ... when one of a phase is ...
LEMMA ShapeAfterPhase ==
  ASSUME Typed, UNCHANGED plan, NEW s, task.run \in Ids, task.phase \in PhasesIn(task.run), tracker' = SetPhase(s)
  PROVE  TrackerShaped'
<1>1. Ids' = Ids
  BY DEF Ids
<1>2. /\ DOMAIN tracker = Ids
      /\ \A i \in Ids : /\ tracker[i].status \in EntryStatus /\ DOMAIN tracker[i] = {"status", "phases"}
                        /\ DOMAIN tracker[i].phases = PhasesIn(i)
                        /\ \A p \in PhasesIn(i) : /\ DOMAIN tracker[i].phases[p] = {"status", "actions"}
                                                  /\ DOMAIN tracker[i].phases[p].actions = ActionsIn(i, p)
  BY DEF Typed, HasShape, PhasesIn, ActionsIn
<1>3. SUFFICES ASSUME NEW i \in Ids
               PROVE  /\ tracker'[i].status \in EntryStatus /\ DOMAIN tracker'[i] = {"status", "phases"}
                      /\ DOMAIN tracker'[i].phases = PhasesIn(i)
                      /\ \A p \in PhasesIn(i) : /\ DOMAIN tracker'[i].phases[p] = {"status", "actions"}
                                                /\ DOMAIN tracker'[i].phases[p].actions = ActionsIn(i, p)
  BY <1>1, PhaseSet DEF TrackerShaped, HasShape, PhasesIn, ActionsIn
<1>4. CASE i = task.run
  BY <1>2, <1>4, PhaseSet
<1>5. CASE i # task.run
  BY <1>2, <1>5, PhaseSet
<1> QED BY <1>4, <1>5

\* ... and when one of an action is.
LEMMA ShapeAfterAction ==
  ASSUME Typed, UNCHANGED plan, NEW s, task.run \in Ids, task.phase \in PhasesIn(task.run),
         task.action \in ActionsIn(task.run, task.phase), tracker' = SetAction(s)
  PROVE  TrackerShaped'
<1>1. Ids' = Ids
  BY DEF Ids
<1>2. /\ DOMAIN tracker = Ids
      /\ \A i \in Ids : /\ tracker[i].status \in EntryStatus /\ DOMAIN tracker[i] = {"status", "phases"}
                        /\ DOMAIN tracker[i].phases = PhasesIn(i)
                        /\ \A p \in PhasesIn(i) : /\ DOMAIN tracker[i].phases[p] = {"status", "actions"}
                                                  /\ DOMAIN tracker[i].phases[p].actions = ActionsIn(i, p)
  BY DEF Typed, HasShape, PhasesIn, ActionsIn
<1>3. SUFFICES ASSUME NEW i \in Ids
               PROVE  /\ tracker'[i].status \in EntryStatus /\ DOMAIN tracker'[i] = {"status", "phases"}
                      /\ DOMAIN tracker'[i].phases = PhasesIn(i)
                      /\ \A p \in PhasesIn(i) : /\ DOMAIN tracker'[i].phases[p] = {"status", "actions"}
                                                /\ DOMAIN tracker'[i].phases[p].actions = ActionsIn(i, p)
  <2>1. DOMAIN tracker' = Ids
    BY ActionSet
  <2>2. SUFFICES \A i \in Ids : HasShape(tracker'[i], plan.runs[i])
    BY <1>1, <2>1 DEF TrackerShaped
  <2> QED BY DEF HasShape, PhasesIn, ActionsIn
<1>4. CASE i = task.run
  BY <1>2, <1>4, ActionSet
<1>5. CASE i # task.run
  BY <1>2, <1>5, ActionSet
<1> QED BY <1>4, <1>5

\* No sender starts or ends while the machine rests.
LEMMA AloneKept ==
  ASSUME Alone, UNCHANGED execVars, NoFailedRun' => NoFailedRun, LeftBehind => LeftBehind'
  PROVE  Alone'
<1>1. faults' = faults /\ exec' = exec /\ Awaited' = Awaited /\ \A v : SenderUp(v)' = SenderUp(v)
  BY MachineRests DEF execVars
<1> QED BY <1>1 DEF Alone

\* Collections are not looked at again.
LEMMA CollectedKept ==
  ASSUME RowRuns(Row) \subseteq Ids, CollectedSoFar, At(RunPCs \cup {"load", "finish"}), ~At({"executing"}),
         UNCHANGED <<spec, plan, rows>>, task'.row = task.row, task'.collected = task.collected,
         \A i \in Ids : \A p \in PhasesIn(i) : \A a \in ActionsIn(i, p) : ActionStatus(i, p, a)' = ActionStatus(i, p, a)
  PROVE  CollectedSoFar'
<1>1. /\ Row' = Row /\ RowRuns(Row)' = RowRuns(Row)
      /\ \A i : /\ PhasesIn(i)' = PhasesIn(i)
                /\ \A p : /\ ActionsIn(i, p)' = ActionsIn(i, p)
                          /\ \A a : IsCollect(i, p, a)' = IsCollect(i, p, a)
  BY PlanKept DEF Row, RowRuns
<1> QED BY <1>1 DEF CollectedSoFar

\* The inventory follows the checks, and the task remembers whom it verified.
Verifies == \A v \in task.verified : vmRows[v].status = "ACTIVE" /\ vmRows[v].ready

\* After a check the nodes taken for verified have an ACTIVE and ready row
\* (_sync_connectivity_result_to_inventory).
LEMMA Synced ==
  ASSUME vmRows \in [Vms -> VmRecords], task.verified \in SUBSET Vms, Verifies, exec.ok \in BOOLEAN,
         NEW action, SoundAction(action)
  PROVE  /\ SyncVm(action) \in [Vms -> VmRecords] /\ Verified(action) \in SUBSET Vms
         /\ \A v \in Verified(action) : SyncVm(action)[v].status = "ACTIVE" /\ SyncVm(action)[v].ready
<1>1. CASE action.type # "check_connectivity"
  BY <1>1 DEF SyncVm, Verified, Verifies
<1>2. CASE action.type = "check_connectivity"
  <2> DEFINE n == action.target
             old == vmRows[n]
             checked == ChecksRuntime(action)
             new == [status |-> IF exec.ok THEN "ACTIVE" ELSE "ERROR", ready |-> IF checked THEN exec.ok ELSE old.ready]
  <2>1. n \in Vms
    BY <1>2 DEF SoundAction
  <2>2. SyncVm(action) = [vmRows EXCEPT ![n] = new]
    BY <1>2 DEF SyncVm
  <2>3. Verified(action) = IF ~exec.ok THEN task.verified \ {n}
                           ELSE IF checked THEN task.verified \cup {n} ELSE task.verified
    BY <1>2 DEF Verified
  <2>4. old.ready \in BOOLEAN
    BY <2>1 DEF VmRecords
  <2>5. new \in VmRecords /\ (exec.ok => new.status = "ACTIVE" /\ new.ready = IF checked THEN TRUE ELSE old.ready)
    BY <2>4 DEF VmRecords
  <2> HIDE DEF new, checked, n
  <2>6. /\ SyncVm(action) \in [Vms -> VmRecords]
        /\ SyncVm(action)[n] = new /\ \A v \in Vms : v # n => SyncVm(action)[v] = vmRows[v]
    BY <2>1, <2>2, <2>5
  <2>7. Verified(action) \in SUBSET Vms
    BY <2>1, <2>3
  <2>8. ASSUME NEW v \in Verified(action)
        PROVE  SyncVm(action)[v].status = "ACTIVE" /\ SyncVm(action)[v].ready
    <3>1. v \in Vms /\ (v # n => v \in task.verified) /\ (v = n => exec.ok /\ (checked \/ n \in task.verified))
      BY <2>1, <2>3, <2>8
    <3>2. CASE v # n
      BY <2>6, <3>1, <3>2 DEF Verifies
    <3>3. CASE v = n
      BY <2>5, <2>6, <3>1, <3>3 DEF Verifies
    <3> QED BY <3>2, <3>3
  <2> QED BY <2>6, <2>7, <2>8
<1> QED BY <1>1, <1>2

\* The connectivity check before a run is an action on a VM.
LEMMA PrecheckIsSound == ASSUME NEW node \in Vms PROVE SoundAction(PrecheckOf(node))
<1>1. PrecheckOf(node).type = "check_connectivity" /\ PrecheckOf(node).target = node
  BY DEF PrecheckOf
<1>2. "check_connectivity" \in ActionTypes
  BY DEF ActionTypes
<1>3. PrecheckOf(node).type # "run_runtime_preset" /\ PrecheckOf(node).type # "wait"
      /\ PrecheckOf(node).type # "cleanup_containers"
  BY <1>1
<1> QED BY <1>1, <1>2, <1>3, Zenon DEF SoundAction

\* The action a task is at is one of its plan, on a VM.
LEMMA CurrentAction ==
  ASSUME IInv, At({"executing"}) \/ (At({"actions"}) /\ PhaseGoesOn)
  PROVE  /\ SoundAction(Action) /\ Phase.cleanup \in BOOLEAN
         /\ task.run \in Ids /\ task.phase \in PhasesIn(task.run) /\ task.action \in ActionsIn(task.run, task.phase)
         /\ task.ok
<1>1. PlanMade /\ task.run \in Ids /\ task.phase \in PhasesIn(task.run)
  BY Standing DEF IInv, At, RunPCs, PhasePCs
<1>2. /\ ActionsIn(task.run, task.phase) = 1..Len(Phase.actions) /\ Len(Phase.actions) \in Nat
      /\ Phase.cleanup \in BOOLEAN
      /\ \A a \in ActionsIn(task.run, task.phase) : SoundAction(Phase.actions[a])
  BY <1>1, PlanFacts DEF Phase, Run
<1>3. task.ok
  BY DEF IInv, Placed, At, PhaseGoesOn
<1>4. task.action \in ActionsIn(task.run, task.phase)
  <2>1. CASE At({"executing"})
    BY <2>1 DEF IInv, Placed, ActionsIn, Phase, Run
  <2>2. CASE At({"actions"}) /\ PhaseGoesOn
    BY <1>2, <2>2 DEF IInv, Placed, PhaseGoesOn
  <2> QED BY <2>1, <2>2
<1> QED BY <1>1, <1>2, <1>3, <1>4 DEF Action


\* BeginPrecheck keeps the invariant.
LEMMA BeginPrecheckStep ==
  ASSUME IInv, BeginPrecheck
  PROVE  IInv'
<1>1. /\ task.pc = "precheck" /\ task.todo # << >> /\ task' = [task EXCEPT !.pc = "prechecking"]
      /\ Begin(PrecheckOf(Head(task.todo)), FALSE) /\ UNCHANGED <<box, faults, spec, plan, rows, tracker, vmRows>>
  BY DEF BeginPrecheck
<1>2. task \in TaskRecords /\ VmTyped /\ TrackerShaped /\ vmRows \in [Vms -> VmRecords]
  BY DEF IInv, Typed, TrackerShaped
<1>3. task' \in TaskRecords /\ task'.pc = "prechecking" /\ task'.ok = task.ok /\ task'.verified = task.verified
      /\ task'.row = task.row /\ task'.run = task.run /\ task'.done = task.done /\ task'.failed = task.failed
      /\ task'.todo = task.todo /\ task'.collected = task.collected
  BY <1>1, <1>2 DEF TaskRecords, PCs
<1>4. SoundAction(PrecheckOf(Head(task.todo)))
  <2>1. task.todo \in Seq(Vms)
    BY <1>2 DEF TaskRecords
  <2>2. Head(task.todo) \in Vms
    BY <1>1, <2>1
  <2> QED BY <2>2, PrecheckIsSound
<1>5. /\ exec' \in ExecRecords /\ ExecutorState' /\ KnowsItsVm' /\ exec'.step # "idle" /\ exec'.kind = "connect"
  <2>1. ExecutorOf(PrecheckOf(Head(task.todo)), FALSE) = "connect"
    BY DEF ExecutorOf, PrecheckOf
  <2> QED BY <1>1, <1>4, <2>1, BeginStep
<1>6. At(RunningPCs) /\ At(RunningPCs)'
  BY <1>1, <1>3 DEF At, RunningPCs, RunPCs
<1>7. /\ Planned' /\ (\A i \in Ids : Told(i))' /\ InRow' /\ InOrder' /\ StopsAtFailure'
      /\ NoFailedRun' = NoFailedRun /\ tracker'[task.run].status = "RUNNING" /\ Row' = Row
  BY <1>1, <1>2, <1>3, <1>6, DetailStep DEF TrackerShaped
<1>8. Ids' = Ids /\ RowRuns(Row)' = RowRuns(Row)
  BY <1>1, <1>7 DEF Ids, RowRuns
<1>9. Typed'
  BY <1>1, <1>2, <1>3, <1>5, <1>8 DEF IInv, Typed, TrackerShaped, VmTyped
<1>10. Placed'
  BY <1>1, <1>3, <1>7, <1>8 DEF IInv, Placed, At, RunPCs, PhasePCs
<1>11. Executing'
  BY <1>3, <1>5 DEF Executing, At
<1>12. Truthful'
  BY <1>1, <1>3, <1>5 DEF IInv, Truthful
<1>13. Alone'
  <2>1. exec.step = "idle" /\ ~LeftBehind
    BY <1>1 DEF IInv, Executing, At, LeftBehind
  <2> QED BY <1>1, <1>7, <2>1 DEF IInv, Alone, Awaited, SenderUp
<1>14. Underway'
  <2>1. Blank(task.run) /\ Blank(task.run)' = Blank(task.run)
    BY <1>1, DetailKept DEF IInv, Story, Underway, At
  <2> QED BY <1>3, <1>7, <2>1 DEF Underway, At
<1>15. CollectedSoFar'
  <2>1. RowRuns(Row) \subseteq Ids
    BY <1>1, Standing DEF IInv, At
  <2> QED BY <1>1, <1>3, <2>1, CollectedKept DEF IInv, Story, ActionStatus, At, RunPCs
<1> QED BY <1>7, <1>9, <1>10, <1>11, <1>12, <1>13, <1>14, <1>15 DEF IInv, Story


\* A task between two actions has no executor to answer for.
LEMMA NoExecutorIsSound ==
  ASSUME exec' = NoExecutor
  PROVE  exec' \in ExecRecords /\ ExecutorState' /\ KnowsItsVm' /\ exec'.step = "idle" /\ ~Awaited'
<1>1. /\ exec'.kind = "wait" /\ exec'.vm = 0 /\ exec'.step = "idle" /\ exec'.names = {} /\ exec'.todo = {}
      /\ exec'.left = 0 /\ exec'.ok = FALSE
  BY DEF NoExecutor
<1>2. exec' \in ExecRecords
  BY VmConstants DEF NoExecutor, ExecRecords, Executors
<1>3. ExecutorState'
  BY <1>1 DEF ExecutorState, CleansProbe, NoExecutor
<1>4. KnowsItsVm'
  BY <1>1 DEF KnowsItsVm
<1> QED BY <1>1, <1>2, <1>3, <1>4 DEF Awaited

\* EndPrecheck keeps it: what is verified is written to the inventory.
LEMMA EndPrecheckStep ==
  ASSUME IInv, EndPrecheck
  PROVE  IInv'
<1> DEFINE action == PrecheckOf(Head(task.todo))
           ok == task.ok /\ exec.ok
           todo == Tail(task.todo)
           verified == Verified(action)
<1>1. /\ task.pc = "prechecking" /\ exec.step = "done" /\ vmRows' = SyncVm(action)
      /\ task' = [task EXCEPT !.pc = "precheck", !.todo = todo, !.ok = ok, !.verified = verified]
      /\ exec' = NoExecutor /\ UNCHANGED <<box, faults, spec, plan, rows, tracker>>
  BY DEF EndPrecheck
<1>2. task \in TaskRecords /\ VmTyped /\ TrackerShaped /\ vmRows \in [Vms -> VmRecords] /\ exec.ok \in BOOLEAN
  BY DEF IInv, Typed, TrackerShaped, VmTyped, ExecRecords
<1>3. task.todo # << >> /\ task.todo \in Seq(Vms)
  BY <1>1, <1>2 DEF IInv, Placed, At, TaskRecords
<1>4. SoundAction(action) /\ todo \in Seq(Vms)
  <2>1. Head(task.todo) \in Vms /\ Tail(task.todo) \in Seq(Vms)
    BY <1>3
  <2> QED BY <2>1, PrecheckIsSound
<1>5. ok \in BOOLEAN /\ task.verified \in SUBSET Vms
  BY <1>2 DEF TaskRecords
<1>6. /\ SyncVm(action) \in [Vms -> VmRecords] /\ verified \in SUBSET Vms
      /\ \A v \in verified : SyncVm(action)[v].status = "ACTIVE" /\ SyncVm(action)[v].ready
  <2>1. Verifies
    BY DEF IInv, Truthful, Verifies
  <2> HIDE DEF action
  <2> QED BY <1>2, <1>4, <1>5, <2>1, Synced
<1> HIDE DEF action, ok, todo, verified
<1>7. /\ task' \in TaskRecords /\ task'.pc = "precheck" /\ task'.verified = verified
      /\ task'.row = task.row /\ task'.run = task.run /\ task'.done = task.done /\ task'.failed = task.failed
      /\ task'.collected = task.collected
  BY <1>1, <1>2, <1>4, <1>5, <1>6 DEF TaskRecords, PCs
<1>8. exec' \in ExecRecords /\ ExecutorState' /\ KnowsItsVm' /\ exec'.step = "idle" /\ ~Awaited'
  BY <1>1, NoExecutorIsSound
<1>9. At(RunningPCs) /\ At(RunningPCs)'
  BY <1>1, <1>7 DEF At, RunningPCs, RunPCs
<1>10. /\ Planned' /\ (\A i \in Ids : Told(i))' /\ InRow' /\ InOrder' /\ StopsAtFailure'
       /\ NoFailedRun' = NoFailedRun /\ tracker'[task.run].status = "RUNNING" /\ Row' = Row
  BY <1>1, <1>2, <1>7, <1>9, DetailStep DEF TrackerShaped
<1>11. Ids' = Ids /\ RowRuns(Row)' = RowRuns(Row)
  BY <1>1, <1>10 DEF Ids, RowRuns
<1>12. Typed'
  BY <1>1, <1>2, <1>6, <1>7, <1>8, <1>11 DEF IInv, Typed, TrackerShaped, VmTyped
<1>13. Placed'
  BY <1>1, <1>7, <1>10, <1>11 DEF IInv, Placed, At, RunPCs, PhasePCs
<1>14. Executing'
  BY <1>7, <1>8 DEF Executing, At
<1>15. Truthful'
  BY <1>1, <1>6, <1>7, <1>8 DEF Truthful
<1>16. Alone'
  <2>1. ~Awaited /\ ~LeftBehind
    BY <1>1 DEF IInv, Executing, At, LeftBehind, Awaited
  <2> QED BY <1>1, <1>10, <2>1 DEF IInv, Alone, SenderUp
<1>17. Underway'
  <2>1. Blank(task.run) /\ Blank(task.run)' = Blank(task.run)
    BY <1>1, DetailKept DEF IInv, Story, Underway, At
  <2> QED BY <1>7, <1>10, <2>1 DEF Underway, At
<1>18. CollectedSoFar'
  <2>1. RowRuns(Row) \subseteq Ids
    BY <1>1, Standing DEF IInv, At
  <2> QED BY <1>1, <1>7, <2>1, CollectedKept DEF IInv, Story, ActionStatus, At, RunPCs
<1> QED BY <1>10, <1>12, <1>13, <1>14, <1>15, <1>16, <1>17, <1>18 DEF IInv, Story

\* PrecheckPassed keeps the invariant.
LEMMA PrecheckPassedStep ==
  ASSUME IInv, PrecheckPassed
  PROVE  IInv'
<1>1. /\ task.pc = "precheck" /\ task.ok /\ task' = [task EXCEPT !.pc = "phases", !.phase = 1]
      /\ UNCHANGED <<execVars, spec, plan, rows, tracker, vmRows>>
  BY DEF PrecheckPassed
<1>2. task \in TaskRecords /\ VmTyped /\ TrackerShaped /\ vmRows \in [Vms -> VmRecords]
  BY DEF IInv, Typed, TrackerShaped
<1>3. /\ task' \in TaskRecords /\ task'.pc = "phases" /\ task'.phase = 1 /\ task'.ok /\ task'.verified = task.verified
      /\ task'.row = task.row /\ task'.run = task.run /\ task'.done = task.done /\ task'.failed = task.failed
      /\ task'.collected = task.collected
  BY <1>1, <1>2 DEF TaskRecords, PCs
<1>4. VmTyped' /\ ExecutorState' /\ KnowsItsVm' /\ exec' = exec
  BY <1>1, <1>2, MachineRests DEF IInv, Executing, Truthful, execVars
<1>5. At(RunningPCs) /\ At(RunningPCs)'
  BY <1>1, <1>3 DEF At, RunningPCs, RunPCs
<1>6. /\ Planned' /\ (\A i \in Ids : Told(i))' /\ InRow' /\ InOrder' /\ StopsAtFailure'
      /\ NoFailedRun' = NoFailedRun /\ tracker'[task.run].status = "RUNNING" /\ Row' = Row /\ Run' = Run
  BY <1>1, <1>2, <1>3, <1>5, DetailStep DEF TrackerShaped
<1>7. Ids' = Ids /\ RowRuns(Row)' = RowRuns(Row)
  BY <1>1, <1>6 DEF Ids, RowRuns
<1>8. PlanMade /\ task.run \in Ids /\ RowRuns(Row) \subseteq Ids
  BY <1>1, Standing DEF IInv, At, RunPCs
<1>9. PhasesIn(task.run) \subseteq Nat \ {0} /\ 1 \in PhasesIn(task.run) /\ PhasesIn(task.run)' = PhasesIn(task.run)
  BY <1>1, <1>8, IdsArePositive, PlanKept
<1>10. Typed'
  BY <1>1, <1>2, <1>3, <1>4, <1>7 DEF IInv, Typed, TrackerShaped
<1>11. Placed'
  BY <1>1, <1>3, <1>6, <1>7, <1>9 DEF IInv, Placed, At, RunPCs, PhasePCs, PhasesIn, Run
<1>12. Executing'
  BY <1>1, <1>3, <1>4 DEF IInv, Executing, At
<1>13. Truthful'
  BY <1>1, <1>3, <1>4 DEF IInv, Truthful
<1>14. Alone'
  <2>1. ~LeftBehind
    BY <1>1 DEF At, LeftBehind
  <2> QED BY <1>1, <1>6, <2>1, AloneKept DEF IInv
<1>15. Underway'
  <2>1. Blank(task.run)' /\ task'.run = task.run
    BY <1>1, <1>3, DetailKept DEF IInv, Story, Underway, At
  <2>2. \A q \in PhasesIn(task.run) : BlankPhase(task.run, q)' /\ q >= 1
    BY <1>9, <2>1 DEF Blank
  <2> QED BY <1>3, <1>6, <1>9, <2>2 DEF Underway, At
<1>16. CollectedSoFar'
  BY <1>1, <1>3, <1>8, CollectedKept DEF IInv, Story, ActionStatus, At, RunPCs
<1> QED BY <1>6, <1>10, <1>11, <1>12, <1>13, <1>14, <1>15, <1>16 DEF IInv, Story

\* BeginPhase keeps it: all phases before are done.
LEMMA BeginPhaseStep ==
  ASSUME IInv, BeginPhase
  PROVE  IInv'
<1>1. /\ task.pc = "phases" /\ tracker' = SetPhase("RUNNING") /\ task' = [task EXCEPT !.pc = "actions", !.action = 1]
      /\ UNCHANGED <<execVars, spec, plan, rows, vmRows>>
  BY DEF BeginPhase
<1>2. Typed /\ task \in TaskRecords /\ VmTyped /\ vmRows \in [Vms -> VmRecords] /\ task.ok
  BY <1>1 DEF IInv, Typed, Placed, At
<1>3. /\ task' \in TaskRecords /\ task'.pc = "actions" /\ task'.action = 1 /\ task'.phase = task.phase
      /\ task'.ok /\ task'.verified = task.verified
      /\ task'.row = task.row /\ task'.run = task.run /\ task'.done = task.done /\ task'.failed = task.failed
      /\ task'.collected = task.collected
  BY <1>1, <1>2 DEF TaskRecords, PCs
<1>4. VmTyped' /\ ExecutorState' /\ KnowsItsVm' /\ exec' = exec
  BY <1>1, <1>2, MachineRests DEF IInv, Executing, Truthful, execVars
<1>5. At(RunningPCs) /\ At(RunningPCs)'
  BY <1>1, <1>3 DEF At, RunningPCs, RunPCs
<1>6. PlanMade /\ task.run \in Ids /\ RowRuns(Row) \subseteq Ids /\ task.phase \in PhasesIn(task.run)
  BY <1>1, Standing DEF IInv, At, RunPCs, PhasePCs
<1>7. /\ DOMAIN tracker' = Ids
      /\ \A i \in Ids : tracker'[i].status = tracker[i].status /\ (i # task.run => tracker'[i] = tracker[i])
      /\ \A q \in PhasesIn(task.run) : /\ q # task.phase => tracker'[task.run].phases[q] = tracker[task.run].phases[q]
                                       /\ tracker'[task.run].phases[q].actions = tracker[task.run].phases[q].actions
      /\ tracker'[task.run].phases[task.phase].status = "RUNNING"
  BY <1>1, <1>2, <1>6, PhaseSet
<1>8. /\ Planned' /\ (\A i \in Ids : Told(i))' /\ InRow' /\ InOrder' /\ StopsAtFailure'
      /\ NoFailedRun' = NoFailedRun /\ tracker'[task.run].status = "RUNNING" /\ Row' = Row /\ Run' = Run
  BY <1>1, <1>3, <1>5, <1>7, DetailStep
<1>9. /\ Ids' = Ids /\ RowRuns(Row)' = RowRuns(Row)
      /\ \A i : PhasesIn(i)' = PhasesIn(i) /\ \A p : ActionsIn(i, p)' = ActionsIn(i, p)
  BY <1>1, <1>8, PlanKept DEF RowRuns
<1>10. /\ PhasesIn(task.run) \subseteq Nat \ {0}
       /\ ActionsIn(task.run, task.phase) = 1..Len(Phase.actions) /\ Len(Phase.actions) \in Nat
  BY <1>6, IdsArePositive, PlanFacts DEF Phase, Run
<1>11. Typed'
  BY <1>1, <1>2, <1>3, <1>4, <1>6, <1>9, ShapeAfterPhase DEF Typed, TrackerShaped
<1>12. Placed'
  <2>1. Phase' = Phase
    BY <1>3, <1>8 DEF Phase
  <2>2. 1 \in 1..(Len(Phase.actions) + 1)
    BY <1>10
  <2> QED BY <1>1, <1>3, <1>8, <1>9, <2>1, <2>2 DEF IInv, Placed, At, RunPCs, PhasePCs
<1>13. Executing'
  BY <1>1, <1>3, <1>4 DEF IInv, Executing, At
<1>14. Truthful'
  BY <1>1, <1>3, <1>4 DEF IInv, Truthful
<1>15. Alone'
  <2>1. ~LeftBehind
    BY <1>1 DEF At, LeftBehind
  <2> QED BY <1>1, <1>8, <2>1, AloneKept DEF IInv
<1>16. Underway'
  <2>1. /\ \A q \in PhasesIn(task.run) : q < task.phase => DonePhase(task.run, q)
        /\ \A q \in PhasesIn(task.run) : q >= task.phase => BlankPhase(task.run, q)
    BY <1>1 DEF IInv, Story, Underway, At
  <2>2. \A q \in PhasesIn(task.run) : q # task.phase => /\ DonePhase(task.run, q)' = DonePhase(task.run, q)
                                                        /\ BlankPhase(task.run, q)' = BlankPhase(task.run, q)
    BY <1>3, <1>7, <1>9 DEF DonePhase, BlankPhase, PhaseStatus, ActionStatus
  <2>3. \A q \in PhasesIn(task.run) : /\ q < task.phase => DonePhase(task.run, q)'
                                      /\ q > task.phase => BlankPhase(task.run, q)'
    BY <1>3, <1>6, <1>10, <2>1, <2>2
  <2>4. \A b \in ActionsIn(task.run, task.phase) : ActionStatus(task.run, task.phase, b)' = "PENDING"
    BY <1>3, <1>6, <1>7, <1>10, <2>1 DEF BlankPhase, ActionStatus
  <2>5. \A b \in ActionsIn(task.run, task.phase) : ~(b < 1)
    BY <1>10
  <2>6. PhaseStatus(task.run, task.phase)' # "SUCCEEDED"
    BY <1>3, <1>7 DEF PhaseStatus
  <2>7. StoppedAt(task.run, task.phase, 1)'
    BY <1>3, <1>9, <2>3, <2>4, <2>5, <2>6 DEF StoppedAt, UpTo
  <2>8. task'.action \in DOMAIN Phase'.actions => ActionStatus(task.run, task.phase, 1)' = "PENDING"
    <3>1. Phase' = Phase /\ DOMAIN Phase.actions = ActionsIn(task.run, task.phase)
      BY <1>3, <1>8 DEF Phase, Run, ActionsIn
    <3> QED BY <1>3, <2>4, <3>1
  <2> QED BY <1>3, <1>8, <2>7, <2>8 DEF Underway, At
<1>17. CollectedSoFar'
  <2>1. \A i \in Ids : \A p \in PhasesIn(i) : \A a \in ActionsIn(i, p) : ActionStatus(i, p, a)' = ActionStatus(i, p, a)
    BY <1>7 DEF ActionStatus
  <2> QED BY <1>1, <1>3, <1>6, <2>1, CollectedKept DEF IInv, Story, At, RunPCs
<1> QED BY <1>8, <1>11, <1>12, <1>13, <1>14, <1>15, <1>16, <1>17 DEF IInv, Story


\* Rows and tracker at rest.
LEMMA TrackerRests ==
  ASSUME UNCHANGED <<spec, plan, rows, tracker>>
  PROVE  /\ NoFailedRun' = NoFailedRun
         /\ \A i : Blank(i)' = Blank(i) /\ Complete(i)' = Complete(i) /\ Stopped(i)' = Stopped(i)
         /\ \A r : /\ RowRuns(rows[r])' = RowRuns(rows[r]) /\ RowAgrees(rows[r])' = RowAgrees(rows[r])
                   /\ AllCollected(rows[r])' = AllCollected(rows[r])
                   /\ \A s : RunsWith(rows[r], s)' = RunsWith(rows[r], s)
<1>1. spec' = spec /\ plan' = plan /\ rows' = rows /\ tracker' = tracker
  OBVIOUS
<1>2. \A r : RowRuns(rows[r])' = RowRuns(rows[r]) /\ \A s : RunsWith(rows[r], s)' = RunsWith(rows[r], s)
  BY <1>1 DEF RowRuns, RunsWith
<1>3. \A r : RowAgrees(rows[r])' = RowAgrees(rows[r])
  BY <1>1, <1>2 DEF RowAgrees
<1>4. \A r : AllCollected(rows[r])' = AllCollected(rows[r])
  BY <1>1, <1>2 DEF AllCollected, StepsOf, StatusOf
<1>5. NoFailedRun' = NoFailedRun
  BY <1>1 DEF NoFailedRun, Ids
<1>6. \A i : Blank(i)' = Blank(i) /\ Complete(i)' = Complete(i) /\ Stopped(i)' = Stopped(i)
  BY <1>1, DetailKept
<1> QED BY <1>2, <1>3, <1>4, <1>5, <1>6

\* Rows and runs that are not written stay in their order.
LEMMA InOrderRests ==
  ASSUME InOrder, UNCHANGED <<spec, plan, rows, tracker>>, task'.row = task.row,
         ~At({"idle", "dispatch"}), ~At({"idle", "dispatch"})'
  PROVE  InOrder'
<1>1. rows' = rows /\ tracker' = tracker /\ Row' = Row
  BY DEF Row
<1> QED BY <1>1, TrackerRests DEF InOrder, At

\* ActionRaises keeps it: a task that died does nothing more.
LEMMA ActionRaisesStep ==
  ASSUME IInv, ActionRaises
  PROVE  IInv'
<1>1. /\ task.pc = "actions" /\ PhaseGoesOn /\ task' = [task EXCEPT !.pc = "died"]
      /\ UNCHANGED <<execVars, spec, plan, rows, tracker, vmRows>>
  BY DEF ActionRaises
<1>2. Typed /\ task \in TaskRecords /\ VmTyped /\ vmRows \in [Vms -> VmRecords] /\ TrackerShaped
  BY <1>1 DEF IInv, Typed, TrackerShaped
<1>3. /\ task' \in TaskRecords /\ task'.pc = "died" /\ task'.verified = task.verified
      /\ task'.row = task.row /\ task'.run = task.run
  BY <1>1, <1>2 DEF TaskRecords, PCs
<1>4. VmTyped' /\ ExecutorState' /\ KnowsItsVm' /\ exec' = exec
  BY <1>1, <1>2, MachineRests DEF IInv, Executing, Truthful, execVars
<1>5. PlanMade /\ (WholeRow \/ RowPerRun)
  BY <1>1, Standing DEF IInv, At
<1>6. Ids' = Ids /\ Row' = Row
  BY <1>1, <1>3 DEF Ids, Row
<1>7. Planned'
  BY <1>1, <1>5, <1>6 DEF Planned, PlanMade, WholeRow, RowPerRun
<1>8. Typed'
  BY <1>1, <1>2, <1>3, <1>4, <1>6 DEF Typed, TrackerShaped
<1>9. Placed'
  BY <1>1, <1>3, <1>6 DEF IInv, Placed, At, RunPCs, PhasePCs
<1>10. Executing'
  BY <1>1, <1>3, <1>4 DEF IInv, Executing, At
<1>11. Truthful'
  BY <1>1, <1>3, <1>4 DEF IInv, Truthful
<1>12. Alone'
  <2>1. ~LeftBehind
    BY <1>1 DEF At, LeftBehind, PhaseGoesOn
  <2> QED BY <1>1, <2>1, AloneKept, TrackerRests DEF IInv
<1>13. (\A i \in Ids : Told(i))'
  <2>1. SUFFICES ASSUME NEW i \in Ids PROVE Told(i)'
    BY <1>6
  <2>2. Told(i)
    BY DEF IInv, Story
  <2> QED BY <1>1, <1>3, <2>2, TrackerRests DEF Told, At
<1>14. Underway' /\ InRow' /\ CollectedSoFar'
  BY <1>3 DEF Underway, InRow, CollectedSoFar, At, RunPCs
<1>15. InOrder'
  BY <1>1, <1>3, InOrderRests DEF IInv, Story, At
<1>16. StopsAtFailure'
  BY <1>1, <1>3, <1>6, TrackerRests DEF IInv, Story, StopsAtFailure, At, RunPCs
<1> QED BY <1>7, <1>8, <1>9, <1>10, <1>11, <1>12, <1>13, <1>14, <1>15, <1>16 DEF IInv, Story

\* BeginAction keeps it: all actions before are done.
LEMMA BeginActionStep ==
  ASSUME IInv, BeginAction
  PROVE  IInv'
<1>1. /\ task.pc = "actions" /\ PhaseGoesOn /\ tracker' = SetAction("RUNNING") /\ Begin(Action, Phase.cleanup)
      /\ task' = [task EXCEPT !.pc = "executing"] /\ UNCHANGED <<box, faults, spec, plan, rows, vmRows>>
  BY DEF BeginAction
<1>2. Typed /\ task \in TaskRecords /\ VmTyped /\ vmRows \in [Vms -> VmRecords]
  BY <1>1 DEF IInv, Typed
<1>3. /\ task' \in TaskRecords /\ task'.pc = "executing" /\ task'.action = task.action /\ task'.phase = task.phase
      /\ task'.ok = task.ok /\ task'.verified = task.verified
      /\ task'.row = task.row /\ task'.run = task.run /\ task'.done = task.done /\ task'.failed = task.failed
      /\ task'.collected = task.collected
  BY <1>1, <1>2 DEF TaskRecords, PCs
<1>4. /\ SoundAction(Action) /\ Phase.cleanup \in BOOLEAN /\ task.ok
      /\ task.run \in Ids /\ task.phase \in PhasesIn(task.run) /\ task.action \in ActionsIn(task.run, task.phase)
  BY <1>1, CurrentAction DEF At
<1>5. exec' \in ExecRecords /\ ExecutorState' /\ KnowsItsVm' /\ exec'.step # "idle"
  BY <1>1, <1>4, BeginStep
<1>6. At(RunningPCs) /\ At(RunningPCs)'
  BY <1>1, <1>3 DEF At, RunningPCs, RunPCs
<1>7. RowRuns(Row) \subseteq Ids
  BY <1>1, Standing DEF IInv, At
<1>8. /\ DOMAIN tracker' = Ids
      /\ \A i \in Ids : tracker'[i].status = tracker[i].status /\ (i # task.run => tracker'[i] = tracker[i])
      /\ \A q \in PhasesIn(task.run) : /\ q # task.phase => tracker'[task.run].phases[q] = tracker[task.run].phases[q]
                                       /\ tracker'[task.run].phases[q].status = tracker[task.run].phases[q].status
      /\ \A a \in ActionsIn(task.run, task.phase) : tracker'[task.run].phases[task.phase].actions[a] =
           IF a = task.action THEN "RUNNING" ELSE tracker[task.run].phases[task.phase].actions[a]
  BY <1>1, <1>2, <1>4, ActionSet
<1>9. /\ Planned' /\ (\A i \in Ids : Told(i))' /\ InRow' /\ InOrder' /\ StopsAtFailure'
      /\ NoFailedRun' = NoFailedRun /\ tracker'[task.run].status = "RUNNING" /\ Row' = Row /\ Run' = Run
  BY <1>1, <1>3, <1>6, <1>8, DetailStep
<1>10. /\ Ids' = Ids /\ RowRuns(Row)' = RowRuns(Row) /\ Phase' = Phase
       /\ \A i : /\ PhasesIn(i)' = PhasesIn(i)
                 /\ \A p : /\ ActionsIn(i, p)' = ActionsIn(i, p)
                           /\ \A a : IsCollect(i, p, a)' = IsCollect(i, p, a)
  BY <1>1, <1>3, <1>9, PlanKept DEF RowRuns, Phase
<1>11. Typed'
  BY <1>1, <1>2, <1>3, <1>4, <1>5, <1>10, ShapeAfterAction DEF Typed, TrackerShaped, VmTyped
<1>12. Placed'
  <2>1. task.action \in DOMAIN Phase.actions
    BY <1>4 DEF ActionsIn, Phase, Run
  <2> QED BY <1>1, <1>3, <1>4, <1>9, <1>10, <2>1 DEF IInv, Placed, At, RunPCs, PhasePCs
<1>13. Executing'
  BY <1>3, <1>5 DEF Executing, At
<1>14. Truthful'
  BY <1>1, <1>3, <1>5 DEF IInv, Truthful
<1>15. Alone'
  <2>1. ~Awaited /\ ~LeftBehind
    BY <1>1, <1>4 DEF IInv, Executing, At, LeftBehind, Awaited
  <2> QED BY <1>1, <1>9, <2>1 DEF IInv, Alone, SenderUp
<1>16. Underway'
  <2>1. StoppedAt(task.run, task.phase, task.action)
    BY <1>1 DEF IInv, Story, Underway, At
  <2>2. \A q \in PhasesIn(task.run) : q # task.phase => /\ DonePhase(task.run, q)' = DonePhase(task.run, q)
                                                        /\ BlankPhase(task.run, q)' = BlankPhase(task.run, q)
    BY <1>3, <1>8, <1>10 DEF DonePhase, BlankPhase, PhaseStatus, ActionStatus
  <2>3. \A b \in ActionsIn(task.run, task.phase) :
          b # task.action => ActionStatus(task.run, task.phase, b)' = ActionStatus(task.run, task.phase, b)
    BY <1>3, <1>8 DEF ActionStatus
  <2>4. PhaseStatus(task.run, task.phase)' = PhaseStatus(task.run, task.phase)
    BY <1>3, <1>4, <1>8 DEF PhaseStatus
  <2>5. task.run \in Ids /\ PhasesIn(task.run) \subseteq Nat \ {0} /\ ActionsIn(task.run, task.phase) \subseteq Nat \ {0}
    BY <1>1, <1>4, Standing, IdsArePositive DEF IInv, At
  <2>6. \A q \in PhasesIn(task.run) : /\ q < task.phase => DonePhase(task.run, q)'
                                      /\ q > task.phase => BlankPhase(task.run, q)'
    BY <1>3, <1>4, <2>1, <2>2, <2>5 DEF StoppedAt, UpTo
  <2>7. \A b \in ActionsIn(task.run, task.phase) :
          /\ b < task.action => ActionStatus(task.run, task.phase, b)' = "SUCCEEDED"
          /\ b > task.action => ActionStatus(task.run, task.phase, b)' = "PENDING"
    BY <1>3, <1>4, <2>1, <2>3, <2>5 DEF StoppedAt, UpTo
  <2>8. StoppedAt(task.run, task.phase, task.action)'
    BY <1>3, <1>10, <2>1, <2>4, <2>6, <2>7 DEF StoppedAt, UpTo
  <2> QED BY <1>3, <1>9, <2>8 DEF Underway, At
<1>17. CollectedSoFar'
  <2>1. SUFFICES ASSUME task.collected, NEW i \in RowRuns(Row), NEW p \in PhasesIn(i), NEW a \in ActionsIn(i, p),
                        IsCollect(i, p, a), ~(i = task.run /\ p = task.phase /\ a = task.action)
                 PROVE  ActionStatus(i, p, a)' \in {"PENDING", "SUCCEEDED"}
    BY <1>3, <1>9, <1>10 DEF CollectedSoFar, At
  <2>2. ActionStatus(i, p, a) \in {"PENDING", "SUCCEEDED"}
    BY <1>1, <2>1 DEF IInv, Story, CollectedSoFar, At, RunPCs
  <2>3. ActionStatus(i, p, a)' = ActionStatus(i, p, a)
    BY <1>4, <1>7, <1>8, <2>1 DEF ActionStatus
  <2> QED BY <2>2, <2>3
<1> QED BY <1>9, <1>11, <1>12, <1>13, <1>14, <1>15, <1>16, <1>17 DEF IInv, Story


\* EndAction keeps it: an action is SUCCEEDED when its executor says so, and
\* metrics_collected remembers every collection that failed.
LEMMA EndActionStep ==
  ASSUME IInv, EndAction
  PROVE  IInv'
<1>0. PICK r, p, a, next : /\ r = task.run /\ p = task.phase /\ a = task.action
                           /\ next = IF exec.ok THEN a + 1 ELSE a
  OBVIOUS
<1> USE <1>0
<1> DEFINE verified == Verified(Action)
           attempted == task.attempted \/ Action.type = "collect_metrics"
           collected == task.collected /\ (Action.type = "collect_metrics" => exec.ok)
           status == IF exec.ok THEN "SUCCEEDED" ELSE "FAILED"
<1>1. /\ task.pc = "executing" /\ exec.step = "done" /\ tracker' = SetAction(status) /\ vmRows' = SyncVm(Action)
      /\ task' = [task EXCEPT !.pc = "actions", !.ok = exec.ok, !.action = next, !.verified = verified,
                              !.attempted = attempted, !.collected = collected]
      /\ exec' = NoExecutor /\ UNCHANGED <<box, faults, spec, plan, rows>>
  BY DEF EndAction
<1>2. Typed /\ task \in TaskRecords /\ VmTyped /\ vmRows \in [Vms -> VmRecords] /\ exec.ok \in BOOLEAN
  BY DEF IInv, Typed, VmTyped, ExecRecords
<1>3. /\ SoundAction(Action) /\ task.ok
      /\ r \in Ids /\ p \in PhasesIn(r) /\ a \in ActionsIn(r, p)
  BY <1>1, CurrentAction DEF At
<1>4. RowRuns(Row) \subseteq Ids /\ PlanMade
  BY <1>1, Standing DEF IInv, At
<1>5. /\ ActionsIn(r, p) = 1..Len(Phase.actions) /\ Len(Phase.actions) \in Nat /\ ActionsIn(r, p) = DOMAIN Phase.actions
      /\ PhasesIn(r) \subseteq Nat \ {0} /\ a \in Nat
  <2>1. ActionsIn(r, p) = 1..Len(Phase.actions) /\ Len(Phase.actions) \in Nat
    BY <1>3, <1>4, PlanFacts DEF Phase, Run
  <2> QED BY <1>2, <1>3, <1>4, <2>1, IdsArePositive DEF ActionsIn, Phase, Run, TaskRecords
<1>6. /\ next \in Nat /\ attempted \in BOOLEAN /\ collected \in BOOLEAN
      /\ (exec.ok => next = a + 1) /\ (~exec.ok => next = a)
  BY <1>2, <1>5 DEF TaskRecords
<1>7. /\ SyncVm(Action) \in [Vms -> VmRecords] /\ verified \in SUBSET Vms
      /\ \A v \in verified : SyncVm(Action)[v].status = "ACTIVE" /\ SyncVm(Action)[v].ready
  <2>1. Verifies /\ task.verified \in SUBSET Vms
    BY <1>2 DEF IInv, Truthful, Verifies, TaskRecords
  <2> QED BY <1>2, <1>3, <2>1, Synced
<1>8. IsCollect(r, p, a) /\ collected => exec.ok
  BY DEF IsCollect, Action, Phase, Run
<1>9. collected => task.collected
  OBVIOUS
<1> HIDE DEF verified, attempted, collected
<1>10. /\ task' \in TaskRecords /\ task'.pc = "actions" /\ task'.action = next /\ task'.phase = p
       /\ task'.ok = exec.ok /\ task'.verified = verified
       /\ task'.row = task.row /\ task'.run = r /\ task'.done = task.done /\ task'.failed = task.failed
       /\ task'.collected = collected
  BY <1>1, <1>2, <1>6, <1>7 DEF TaskRecords, PCs
<1>11. exec' \in ExecRecords /\ ExecutorState' /\ KnowsItsVm' /\ exec'.step = "idle" /\ ~Awaited'
  BY <1>1, NoExecutorIsSound
<1>12. At(RunningPCs) /\ At(RunningPCs)'
  BY <1>1, <1>10 DEF At, RunningPCs, RunPCs
<1>13. /\ DOMAIN tracker' = Ids
       /\ \A i \in Ids : tracker'[i].status = tracker[i].status /\ (i # r => tracker'[i] = tracker[i])
       /\ \A q \in PhasesIn(r) : /\ q # p => tracker'[r].phases[q] = tracker[r].phases[q]
                                 /\ tracker'[r].phases[q].status = tracker[r].phases[q].status
       /\ \A b \in ActionsIn(r, p) : tracker'[r].phases[p].actions[b] =
            IF b = a THEN status ELSE tracker[r].phases[p].actions[b]
  <2> HIDE DEF status
  <2> QED BY <1>1, <1>2, <1>3, ActionSet
<1>14. /\ Planned' /\ (\A i \in Ids : Told(i))' /\ InRow' /\ InOrder' /\ StopsAtFailure'
       /\ NoFailedRun' = NoFailedRun /\ tracker'[r].status = "RUNNING" /\ Row' = Row /\ Run' = Run
  BY <1>1, <1>10, <1>12, <1>13, DetailStep
<1>15. /\ Ids' = Ids /\ RowRuns(Row)' = RowRuns(Row) /\ Phase' = Phase
       /\ \A i : /\ PhasesIn(i)' = PhasesIn(i)
                 /\ \A q : /\ ActionsIn(i, q)' = ActionsIn(i, q)
                           /\ \A b : IsCollect(i, q, b)' = IsCollect(i, q, b)
  BY <1>1, <1>10, <1>14, PlanKept DEF RowRuns, Phase
<1>16. Typed'
  BY <1>1, <1>2, <1>3, <1>7, <1>10, <1>11, <1>15, ShapeAfterAction DEF Typed, TrackerShaped, VmTyped
<1>17. Placed'
  <2>1. next \in 1..(Len(Phase.actions) + 1) /\ (~exec.ok => next \in DOMAIN Phase.actions)
    BY <1>3, <1>5, <1>6
  <2> QED BY <1>1, <1>3, <1>10, <1>14, <1>15, <2>1 DEF IInv, Placed, At, RunPCs, PhasePCs
<1>18. Executing'
  BY <1>10, <1>11 DEF Executing, At
<1>19. Truthful'
  BY <1>1, <1>7, <1>10, <1>11 DEF Truthful
<1>20. Alone'
  <2>1. Awaited => ~exec.ok
    BY <1>1 DEF Awaited
  <2>2. ~LeftBehind
    BY <1>1 DEF At, LeftBehind
  <2>3. ~exec.ok => LeftBehind'
    BY <1>10 DEF At, LeftBehind
  <2> QED BY <1>1, <1>14, <2>1, <2>2, <2>3 DEF IInv, Alone, SenderUp
<1>21. Underway'
  <2>1. StoppedAt(r, p, a)
    BY <1>1 DEF IInv, Story, Underway, At
  <2>2. \A q \in PhasesIn(r) : q # p => /\ DonePhase(r, q)' = DonePhase(r, q)
                                        /\ BlankPhase(r, q)' = BlankPhase(r, q)
    BY <1>10, <1>13, <1>15 DEF DonePhase, BlankPhase, PhaseStatus, ActionStatus
  <2>3. \A b \in ActionsIn(r, p) :
          ActionStatus(r, p, b)' = IF b = a THEN status ELSE ActionStatus(r, p, b)
    BY <1>10, <1>13 DEF ActionStatus
  <2>4. PhaseStatus(r, p)' = PhaseStatus(r, p)
    BY <1>3, <1>10, <1>13 DEF PhaseStatus
  <2>5. \A q \in PhasesIn(r) : /\ q < p => DonePhase(r, q)'
                               /\ q > p => BlankPhase(r, q)'
    BY <1>3, <1>5, <1>10, <2>1, <2>2 DEF StoppedAt, UpTo
  <2>6. \A b \in ActionsIn(r, p) : /\ b < next => ActionStatus(r, p, b)' = "SUCCEEDED"
                                   /\ b > next => ActionStatus(r, p, b)' = "PENDING"
    <3>1. SUFFICES ASSUME NEW b \in ActionsIn(r, p)
                   PROVE  /\ b < next => ActionStatus(r, p, b)' = "SUCCEEDED"
                          /\ b > next => ActionStatus(r, p, b)' = "PENDING"
      BY <1>10
    <3>2. b \in Nat /\ (b < a => ActionStatus(r, p, b) = "SUCCEEDED") /\ (b > a => ActionStatus(r, p, b) = "PENDING")
      BY <1>5, <2>1 DEF StoppedAt, UpTo
    <3>3. b < next => b < a \/ (b = a /\ exec.ok)
      BY <1>5, <1>6, <3>2
    <3>4. b > next => b > a
      BY <1>5, <1>6, <3>2
    <3> QED BY <1>5, <2>3, <3>2, <3>3, <3>4
  <2>7. StoppedAt(r, p, next)'
    BY <1>10, <1>15, <2>1, <2>4, <2>5, <2>6 DEF StoppedAt, UpTo
  <2>8. exec.ok /\ next \in ActionsIn(r, p) => ActionStatus(r, p, next)' = "PENDING"
    <3>1. SUFFICES ASSUME exec.ok, next \in ActionsIn(r, p) PROVE ActionStatus(r, p, next)' = "PENDING"
      OBVIOUS
    <3>2. next > a /\ next # a
      BY <1>5, <1>6, <3>1
    <3>3. ActionStatus(r, p, next) = "PENDING"
      BY <2>1, <3>1, <3>2 DEF StoppedAt, UpTo
    <3> QED BY <1>10, <1>13, <3>1, <3>2, <3>3 DEF ActionStatus
  <2>9. DOMAIN Phase'.actions = ActionsIn(r, p)
    BY <1>5, <1>15
  <2>10. StoppedAt(task.run, task.phase, task.action)'
    BY <1>10, <2>7
  <2> QED BY <1>10, <1>14, <2>8, <2>9, <2>10 DEF Underway, At
<1>22. CollectedSoFar'
  <2>1. SUFFICES ASSUME collected, NEW i \in RowRuns(Row), NEW q \in PhasesIn(i), NEW b \in ActionsIn(i, q),
                        IsCollect(i, q, b)
                 PROVE  ActionStatus(i, q, b)' \in {"PENDING", "SUCCEEDED"}
    BY <1>10, <1>14, <1>15 DEF CollectedSoFar, At
  <2>2. CASE i = r /\ q = p /\ b = a
    BY <1>8, <1>13, <2>1, <2>2 DEF ActionStatus
  <2>3. CASE ~(i = r /\ q = p /\ b = a)
    <3>1. ActionStatus(i, q, b) \in {"PENDING", "SUCCEEDED"}
      BY <1>1, <1>9, <2>1, <2>3 DEF IInv, Story, CollectedSoFar, At, RunPCs
    <3>2. ActionStatus(i, q, b)' = ActionStatus(i, q, b)
      BY <1>3, <1>4, <1>13, <2>1, <2>3 DEF ActionStatus
    <3> QED BY <3>1, <3>2
  <2> QED BY <2>2, <2>3
<1> QED BY <1>14, <1>16, <1>17, <1>18, <1>19, <1>20, <1>21, <1>22 DEF IInv, Story

\* EndPhase keeps it: a phase is SUCCEEDED when its last action is.
LEMMA EndPhaseStep ==
  ASSUME IInv, EndPhase
  PROVE  IInv'
<1>0. PICK r, p, a : r = task.run /\ p = task.phase /\ a = task.action
  OBVIOUS
<1> USE <1>0
<1> DEFINE status == IF task.ok THEN "SUCCEEDED" ELSE "FAILED"
<1>1. /\ task.pc = "actions" /\ ~PhaseGoesOn /\ tracker' = SetPhase(status)
      /\ task' = IF task.ok /\ p < Len(Run.phases) THEN [task EXCEPT !.pc = "phases", !.phase = p + 1]
                 ELSE [task EXCEPT !.pc = "endRun"]
      /\ UNCHANGED <<execVars, spec, plan, rows, vmRows>>
  BY DEF EndPhase
<1>2. Typed /\ task \in TaskRecords /\ VmTyped /\ vmRows \in [Vms -> VmRecords]
  BY <1>1 DEF IInv, Typed
<1>3. PlanMade /\ r \in Ids /\ RowRuns(Row) \subseteq Ids /\ p \in PhasesIn(r)
  BY <1>1, Standing DEF IInv, At, RunPCs, PhasePCs
<1>4. /\ PhasesIn(r) = 1..Len(Run.phases) /\ Len(Run.phases) \in Nat \ {0} /\ p \in Nat
      /\ ActionsIn(r, p) = 1..Len(Phase.actions) /\ Len(Phase.actions) \in Nat /\ ActionsIn(r, p) = DOMAIN Phase.actions
      /\ a \in 1..(Len(Phase.actions) + 1) /\ (~task.ok => a \in ActionsIn(r, p))
      /\ (task.ok => a = Len(Phase.actions) + 1)
  <2>1. PhasesIn(r) = 1..Len(Run.phases) /\ Len(Run.phases) \in Nat \ {0}
    BY <1>3, PlanFacts DEF Run
  <2>2. ActionsIn(r, p) = 1..Len(Phase.actions) /\ Len(Phase.actions) \in Nat /\ ActionsIn(r, p) = DOMAIN Phase.actions
    BY <1>3, PlanFacts DEF Run, Phase, ActionsIn
  <2>3. a \in 1..(Len(Phase.actions) + 1) /\ (~task.ok => a \in ActionsIn(r, p))
    BY <1>1, <2>2 DEF IInv, Placed, At
  <2>4. task.ok => a = Len(Phase.actions) + 1
    BY <1>1, <2>2, <2>3 DEF PhaseGoesOn
  <2> QED BY <1>3, <2>1, <2>2, <2>3, <2>4
<1>5. \/ /\ task.ok /\ p + 1 \in PhasesIn(r) /\ task'.pc = "phases" /\ task'.phase = p + 1
         /\ task' = [task EXCEPT !.pc = "phases", !.phase = p + 1]
      \/ /\ task.ok => p = Len(Run.phases)
         /\ task'.pc = "endRun" /\ task'.phase = p /\ task' = [task EXCEPT !.pc = "endRun"]
  <2>1. CASE task.ok /\ p < Len(Run.phases)
    <3>1. task' = [task EXCEPT !.pc = "phases", !.phase = p + 1] /\ p + 1 \in PhasesIn(r)
      BY <1>1, <1>4, <2>1
    <3> QED BY <1>2, <2>1, <3>1 DEF TaskRecords
  <2>2. CASE ~(task.ok /\ p < Len(Run.phases))
    <3>1. task' = [task EXCEPT !.pc = "endRun"] /\ (task.ok => p = Len(Run.phases))
      BY <1>1, <1>3, <1>4, <2>2
    <3> QED BY <1>2, <3>1 DEF TaskRecords
  <2> QED BY <2>1, <2>2
<1>6. /\ task' \in TaskRecords /\ task'.pc \in {"phases", "endRun"} /\ task'.action = a
      /\ task'.ok = task.ok /\ task'.verified = task.verified
      /\ task'.row = task.row /\ task'.run = r /\ task'.done = task.done /\ task'.failed = task.failed
      /\ task'.collected = task.collected
  <2>1. p + 1 \in Nat /\ {"phases", "endRun"} \subseteq PCs
    BY <1>4 DEF PCs
  <2>2. CASE task' = [task EXCEPT !.pc = "phases", !.phase = p + 1]
    BY <1>2, <2>1, <2>2 DEF TaskRecords
  <2>3. CASE task' = [task EXCEPT !.pc = "endRun"]
    BY <1>2, <2>1, <2>3 DEF TaskRecords
  <2> QED BY <1>5, <2>2, <2>3
<1>7. VmTyped' /\ ExecutorState' /\ KnowsItsVm' /\ exec' = exec
  BY <1>1, <1>2, MachineRests DEF IInv, Executing, Truthful, execVars
<1>8. At(RunningPCs) /\ At(RunningPCs)'
  BY <1>1, <1>6 DEF At, RunningPCs, RunPCs
<1>9. /\ DOMAIN tracker' = Ids
      /\ \A i \in Ids : tracker'[i].status = tracker[i].status /\ (i # r => tracker'[i] = tracker[i])
      /\ \A q \in PhasesIn(r) : /\ q # p => tracker'[r].phases[q] = tracker[r].phases[q]
                                /\ tracker'[r].phases[q].actions = tracker[r].phases[q].actions
      /\ tracker'[r].phases[p].status = status
  <2> HIDE DEF status
  <2> QED BY <1>1, <1>2, <1>3, PhaseSet
<1>10. /\ Planned' /\ (\A i \in Ids : Told(i))' /\ InRow' /\ InOrder' /\ StopsAtFailure'
       /\ NoFailedRun' = NoFailedRun /\ tracker'[r].status = "RUNNING" /\ Row' = Row /\ Run' = Run
  BY <1>1, <1>6, <1>8, <1>9, DetailStep
<1>11. /\ Ids' = Ids /\ RowRuns(Row)' = RowRuns(Row)
       /\ \A i : PhasesIn(i)' = PhasesIn(i) /\ \A q : ActionsIn(i, q)' = ActionsIn(i, q)
  BY <1>1, <1>10, PlanKept DEF RowRuns
<1>12. Typed'
  BY <1>1, <1>2, <1>3, <1>6, <1>7, <1>11, ShapeAfterPhase DEF Typed, TrackerShaped
<1>13. Placed'
  <2>1. task'.phase \in DOMAIN Run'.phases /\ (task'.pc = "phases" => task'.ok)
    BY <1>3, <1>5, <1>6, <1>10 DEF PhasesIn, Run
  <2> QED BY <1>1, <1>6, <1>10, <1>11, <2>1 DEF IInv, Placed, At, RunPCs, PhasePCs
<1>14. Executing'
  BY <1>1, <1>6, <1>7 DEF IInv, Executing, At
<1>15. Truthful'
  BY <1>1, <1>6, <1>7 DEF IInv, Truthful
<1>16. Alone'
  <2>1. LeftBehind => LeftBehind'
    BY <1>5, <1>6 DEF At, LeftBehind
  <2> QED BY <1>1, <1>10, <2>1, AloneKept DEF IInv
<1>17. Underway'
  <2>1. StoppedAt(r, p, a)
    BY <1>1 DEF IInv, Story, Underway, At
  <2>2. \A q \in PhasesIn(r) : q # p => /\ DonePhase(r, q)' = DonePhase(r, q)
                                        /\ BlankPhase(r, q)' = BlankPhase(r, q)
    BY <1>6, <1>9, <1>11 DEF DonePhase, BlankPhase, PhaseStatus, ActionStatus
  <2>3. \A q \in PhasesIn(r) : \A b : ActionStatus(r, q, b)' = ActionStatus(r, q, b)
    BY <1>6, <1>9 DEF ActionStatus
  <2>4. \A q \in PhasesIn(r) : /\ q < p => DonePhase(r, q)'
                               /\ q > p => BlankPhase(r, q)'
    BY <1>4, <1>6, <2>1, <2>2 DEF StoppedAt, UpTo
  <2>5. ASSUME task.ok PROVE DonePhase(r, p)'
    <3>1. \A b \in ActionsIn(r, p) : b < a
      BY <1>4, <2>5
    <3>2. \A b \in ActionsIn(r, p) : ActionStatus(r, p, b) = "SUCCEEDED"
      BY <2>1, <3>1 DEF StoppedAt, UpTo
    <3>3. tracker'[r].phases[p].status = "SUCCEEDED"
      BY <1>9, <2>5
    <3>4. \A b \in ActionsIn(r, p) : ActionStatus(r, p, b)' = "SUCCEEDED"
      BY <1>3, <2>3, <3>2
    <3>5. PhaseStatus(r, p)' = "SUCCEEDED"
      BY <3>3 DEF PhaseStatus
    <3> QED BY <1>11, <3>4, <3>5 DEF DonePhase
  <2>6. ASSUME ~task.ok PROVE StoppedAt(task.run, task.phase, task.action)'
    <3>1. task'.pc = "endRun" /\ task'.phase = p /\ tracker'[r].phases[p].status # "SUCCEEDED"
      BY <1>5, <1>9, <2>6
    <3>2. \A b \in ActionsIn(r, p) : /\ b < a => ActionStatus(r, p, b)' = "SUCCEEDED"
                                     /\ b > a => ActionStatus(r, p, b)' = "PENDING"
      BY <1>3, <1>6, <2>1, <2>3 DEF StoppedAt, UpTo
    <3>3. PhaseStatus(r, p)' # "SUCCEEDED"
      BY <3>1 DEF PhaseStatus
    <3>4. UpTo(r, p, a)'
      BY <1>11, <2>4, <3>2 DEF UpTo
    <3>5. StoppedAt(r, p, a)'
      BY <3>3, <3>4 DEF StoppedAt
    <3>6. task'.run = r /\ task'.phase = p /\ task'.action = a
      BY <1>6, <3>1
    <3> QED BY <3>5, <3>6
  <2>7. CASE task'.pc = "phases"
    <3>1. task.ok /\ task'.phase = p + 1
      BY <1>5, <2>7
    <3>2. \A q \in PhasesIn(r) : /\ q < p + 1 => q < p \/ q = p
                                 /\ q >= p + 1 => q > p
      BY <1>4
    <3>3. \A q \in PhasesIn(r) : /\ q < p + 1 => DonePhase(r, q)'
                                 /\ q >= p + 1 => BlankPhase(r, q)'
      BY <1>6, <2>4, <2>5, <3>1, <3>2
    <3> QED BY <1>6, <1>10, <1>11, <2>7, <3>1, <3>3 DEF Underway, At
  <2>8. CASE task'.pc = "endRun"
    <3>1. task.ok => Complete(r)'
      <4>1. SUFFICES ASSUME task.ok PROVE \A q \in PhasesIn(r) : DonePhase(r, q)'
        BY <1>6, <1>11 DEF Complete
      <4>2. \A q \in PhasesIn(r) : q < p \/ q = p
        BY <1>4, <1>5, <2>8, <4>1
      <4> QED BY <2>4, <2>5, <4>1, <4>2
    <3> QED BY <1>6, <1>10, <2>6, <2>8, <3>1 DEF Underway, At
  <2> QED BY <1>6, <2>7, <2>8
<1>18. CollectedSoFar'
  <2>1. \A i \in Ids : \A q \in PhasesIn(i) : \A b \in ActionsIn(i, q) : ActionStatus(i, q, b)' = ActionStatus(i, q, b)
    BY <1>9 DEF ActionStatus
  <2> QED BY <1>1, <1>3, <1>6, <2>1, CollectedKept DEF IInv, Story, At, RunPCs
<1> QED BY <1>10, <1>12, <1>13, <1>14, <1>15, <1>16, <1>17, <1>18 DEF IInv, Story


-----------------------------------------------------------------------------
(* Runs begin and end *)

\* The statuses of the row under way change, and nothing else of the tracker.
StatusesMove ==
  /\ DOMAIN tracker' = Ids
  /\ \A i \in Ids : /\ tracker'[i].phases = tracker[i].phases
                    /\ DOMAIN tracker'[i] = {"status", "phases"} /\ tracker'[i].status \in EntryStatus
                    /\ i \notin RowRuns(Row) => tracker'[i].status = tracker[i].status

\* What is known of the rows that are not under way.
LEMMA OtherRows ==
  ASSUME IInv, ~At({"idle"}), StatusesMove, UNCHANGED <<spec, plan>>,
         NEW r \in DOMAIN rows, r # task.row, rows'[r] = rows[r]
  PROVE  /\ rows[r].status = "PENDING" => \A i \in RowRuns(rows[r]) : tracker'[i].status = "PENDING"
         /\ rows[r].status \in Finished => RowAgrees(rows[r])' /\ \A i \in RowRuns(rows[r]) : tracker'[i].status # "RUNNING"
         /\ rows[r].collected => AllCollected(rows[r])'
<1>1. InOrder /\ RowsPartition /\ task.row \in DOMAIN rows
  BY Standing DEF IInv, Story
<1>2. \A i \in RowRuns(rows[r]) : i \in Ids /\ i \notin RowRuns(Row)
  BY <1>1 DEF RowsPartition, Row
<1>3. \A i \in RowRuns(rows[r]) : tracker'[i].status = tracker[i].status /\ tracker'[i].phases = tracker[i].phases
  BY <1>2 DEF StatusesMove
<1>4. RowRuns(rows[r])' = RowRuns(rows[r])
  BY DEF RowRuns
<1>5. \A s : RunsWith(rows[r], s)' = RunsWith(rows[r], s)
  BY <1>3, <1>4 DEF RunsWith
<1>6. RowAgrees(rows[r])' = RowAgrees(rows[r])
  BY <1>4, <1>5 DEF RowAgrees
<1>7. AllCollected(rows[r])' = AllCollected(rows[r])
  <2>1. \A i : StepsOf(i)' = StepsOf(i)
    BY DEF StepsOf
  <2>2. \A i \in RowRuns(rows[r]) : \A x : StatusOf(i, x)' = StatusOf(i, x)
    BY <1>3 DEF StatusOf
  <2> QED BY <1>4, <2>1, <2>2 DEF AllCollected
<1> QED BY <1>1, <1>3, <1>6, <1>7 DEF InOrder

\* A step that writes statuses of runs only keeps rows, order and shape.
LEMMA StatusStep ==
  ASSUME IInv, At(RunPCs), At(RunPCs \cup {"finish"})', UNCHANGED <<spec, plan, rows>>, task'.row = task.row,
         StatusesMove
  PROVE  /\ Planned' /\ InOrder' /\ TrackerShaped' /\ Row' = Row /\ Ids' = Ids /\ RowRuns(Row)' = RowRuns(Row)
         /\ \A i \in Ids : Blank(i)' = Blank(i) /\ Complete(i)' = Complete(i) /\ Stopped(i)' = Stopped(i)
<1>1. /\ PlanMade /\ (WholeRow \/ RowPerRun) /\ RowsPartition
      /\ task.row \in DOMAIN rows /\ RowRuns(Row) \subseteq Ids
  BY Standing DEF IInv, At, RunPCs
<1>2. /\ spec' = spec /\ plan' = plan /\ rows' = rows /\ Row' = Row /\ Ids' = Ids /\ PlanMade'
  BY <1>1, PlanKept DEF Row
<1>3. \A i \in Ids : Blank(i)' = Blank(i) /\ Complete(i)' = Complete(i) /\ Stopped(i)' = Stopped(i)
  BY <1>2, DetailKept DEF StatusesMove
<1>4. Planned'
  BY <1>1, <1>2 DEF Planned, WholeRow, RowPerRun
<1>5. TrackerShaped'
  BY <1>2, ShapeAfterStatus DEF IInv, StatusesMove
<1>6. InOrder'
  <2>1. /\ ~At({"idle"}) /\ ~At({"idle"})' /\ ~At({"dispatch"}) /\ ~At({"dispatch"})'
    BY DEF At, RunPCs
  <2>2. InOrder /\ Row.status = "RUNNING"
    BY <2>1 DEF IInv, Story, InOrder
  <2>3. ASSUME NEW r \in DOMAIN rows
        PROVE  /\ rows[r].status = "PENDING" => \A i \in RowRuns(rows[r]) : tracker'[i].status = "PENDING"
               /\ rows[r].status \in Finished => RowAgrees(rows[r])' /\ \A i \in RowRuns(rows[r]) : tracker'[i].status # "RUNNING"
               /\ rows[r].collected => AllCollected(rows[r])'
    <3>1. CASE r = task.row
      BY <2>2, <3>1 DEF InOrder, Row, Finished
    <3>2. CASE r # task.row
      BY <1>2, <2>1, <3>2, OtherRows
    <3> QED BY <3>1, <3>2
  <2>4. \A r : RowRuns(rows[r])' = RowRuns(rows[r])
    BY <1>2 DEF RowRuns
  <2> QED BY <1>2, <2>1, <2>2, <2>3, <2>4 DEF InOrder
<1>7. RowRuns(Row)' = RowRuns(Row)
  BY <1>2 DEF RowRuns
<1> QED BY <1>2, <1>3, <1>4, <1>5, <1>6, <1>7

\* Runs of later rows have not begun.
LEMMA LaterRuns ==
  ASSUME IInv, ~At({"idle"}), NEW i \in RowRuns(Row), NEW j \in Ids, i < j, j \notin RowRuns(Row)
  PROVE  tracker[j].status = "PENDING" /\ Blank(j)
<1>1. InOrder /\ RowsPartition /\ task.row \in DOMAIN rows /\ Told(j)
  BY Standing DEF IInv, Story
<1>2. PICK q \in DOMAIN rows : j \in RowRuns(rows[q])
  BY <1>1 DEF RowsPartition
<1>3. task.row <= q /\ q # task.row
  BY <1>1, <1>2 DEF RowsPartition, Row
<1>4. q \in Nat /\ task.row \in Nat
  BY <1>1 DEF RowsPartition
<1>5. q > task.row
  BY <1>3, <1>4
<1>6. tracker[j].status = "PENDING"
  BY <1>1, <1>2, <1>5 DEF InOrder
<1> QED BY <1>1, <1>6 DEF Told

\* Where AfterRun goes, and what it counts.
LEMMA AfterRunFacts ==
  ASSUME task \in TaskRecords, NEW ok \in BOOLEAN, task' = AfterRun(ok)
  PROVE  /\ task' \in TaskRecords
         /\ task'.row = task.row /\ task'.verified = task.verified /\ task'.collected = task.collected
         /\ task'.done = IF ok THEN task.done + 1 ELSE task.done
         /\ task'.failed = IF ok THEN task.failed ELSE task.failed + 1
         /\ IF (~ok /\ plan.stop) \/ task.run = Row.last THEN task'.pc = "finish" /\ task'.run = task.run
            ELSE task'.pc = "nextRun" /\ task'.run = task.run + 1
<1> DEFINE t == IF ok THEN [task EXCEPT !.done = @ + 1] ELSE [task EXCEPT !.failed = @ + 1]
<1>1. /\ t \in TaskRecords /\ t.row = task.row /\ t.verified = task.verified /\ t.collected = task.collected
      /\ t.run = task.run /\ t.done = IF ok THEN task.done + 1 ELSE task.done
      /\ t.failed = IF ok THEN task.failed ELSE task.failed + 1
  <2>1. CASE ok
    <3>1. t = [task EXCEPT !.done = @ + 1]
      BY <2>1
    <3> HIDE DEF t
    <3> QED BY <2>1, <3>1 DEF TaskRecords
  <2>2. CASE ~ok
    <3>1. t = [task EXCEPT !.failed = @ + 1]
      BY <2>2
    <3> HIDE DEF t
    <3> QED BY <2>2, <3>1 DEF TaskRecords
  <2> QED BY <2>1, <2>2
<1>2. task' = IF (~ok /\ plan.stop) \/ task.run = Row.last THEN [t EXCEPT !.pc = "finish"]
              ELSE [t EXCEPT !.pc = "nextRun", !.run = @ + 1]
  BY DEF AfterRun
<1> HIDE DEF t
<1>3. {"finish", "nextRun"} \subseteq PCs
  BY DEF PCs
<1>4. CASE (~ok /\ plan.stop) \/ task.run = Row.last
  <2>1. task' = [t EXCEPT !.pc = "finish"]
    BY <1>2, <1>4
  <2>2. /\ task' \in TaskRecords /\ task'.row = t.row /\ task'.verified = t.verified /\ task'.collected = t.collected
        /\ task'.run = t.run /\ task'.done = t.done /\ task'.failed = t.failed /\ task'.pc = "finish"
    BY <1>1, <1>3, <2>1 DEF TaskRecords
  <2> QED BY <1>1, <1>4, <2>2
<1>5. CASE ~((~ok /\ plan.stop) \/ task.run = Row.last)
  <2>1. task' = [t EXCEPT !.pc = "nextRun", !.run = @ + 1]
    BY <1>2, <1>5
  <2>2. t.run + 1 \in Nat
    BY <1>1 DEF TaskRecords
  <2>3. /\ task' \in TaskRecords /\ task'.row = t.row /\ task'.verified = t.verified /\ task'.collected = t.collected
        /\ task'.run = t.run + 1 /\ task'.done = t.done /\ task'.failed = t.failed /\ task'.pc = "nextRun"
    BY <1>1, <1>3, <2>1, <2>2 DEF TaskRecords
  <2> QED BY <1>1, <1>5, <2>3
<1> QED BY <1>4, <1>5


\* The runs of the row with one status, when a run gets it.
LEMMA Counted ==
  ASSUME IInv, ~At({"idle"}), NEW n \in RowRuns(Row), NEW s \in Finished, tracker[n].status # s, tracker'[n].status = s,
         RowRuns(Row)' = RowRuns(Row),
         \A i \in RowRuns(Row) : i # n => (tracker'[i].status = s) = (tracker[i].status = s)
  PROVE  Cardinality(RunsWith(Row, s))' = Cardinality(RunsWith(Row, s)) + 1
<1>1. RunsWith(Row, s)' = RunsWith(Row, s) \cup {n} /\ n \notin RunsWith(Row, s)
  BY DEF RunsWith
<1>2. IsFiniteSet(RunsWith(Row, s))
  <2>1. Row \in RowRecords
    BY Standing DEF IInv
  <2>2. Row.first \in Int /\ Row.last \in Int
    BY <2>1 DEF RowRecords
  <2>3. IsFiniteSet(RowRuns(Row))
    BY <2>2, FS_Interval DEF RowRuns
  <2> QED BY <2>3, FS_Subset DEF RunsWith
<1> QED BY <1>1, <1>2, FS_AddElement

\* A run that ends is complete or stopped at its failure, it is counted, and
\* with stop_on_failure those behind a failure are not begun.
LEMMA RunEnds ==
  ASSUME IInv, At({"nextRun", "precheck", "endRun"}), NEW ok \in BOOLEAN,
         UNCHANGED <<execVars, spec, plan, rows, vmRows>>, task' = AfterRun(ok), StatusesMove,
         tracker'[task.run].status = IF ok THEN "SUCCEEDED" ELSE "FAILED",
         \A i \in Ids : i # task.run => \/ tracker'[i].status = tracker[i].status
                                        \/ /\ ~ok /\ plan.stop
                                           /\ tracker[i].status = "PENDING" /\ tracker'[i].status = "SKIPPED",
         IF ok THEN Complete(task.run) ELSE Stopped(task.run),
         LeftBehind => ~ok
  PROVE  IInv'
<1>0. PICK n : n = task.run
  OBVIOUS
<1>1. Typed /\ task \in TaskRecords /\ VmTyped /\ vmRows \in [Vms -> VmRecords]
  BY DEF IInv, Typed
<1>2. /\ PlanMade /\ RowsPartition /\ task.row \in DOMAIN rows /\ Row \in RowRecords /\ RowRuns(Row) \subseteq Ids
      /\ n \in Ids /\ n \in RowRuns(Row) /\ ~At({"idle"}) /\ Ids \subseteq Nat
      /\ Row.first \in Nat /\ Row.last \in Nat /\ n \in Row.first..Row.last
  <2>1. At(RunPCs) /\ ~At({"idle"})
    BY DEF At, RunPCs
  <2>2. PlanMade /\ RowsPartition /\ task.row \in DOMAIN rows /\ Row \in RowRecords /\ RowRuns(Row) \subseteq Ids
        /\ n \in Ids /\ n \in RowRuns(Row)
    BY <1>0, <2>1, Standing DEF IInv
  <2> QED BY <2>1, <2>2, IdsArePositive DEF RowRecords, RowRuns
<1>3. /\ task' \in TaskRecords
      /\ task'.row = task.row /\ task'.verified = task.verified /\ task'.collected = task.collected
      /\ task'.done = IF ok THEN task.done + 1 ELSE task.done
      /\ task'.failed = IF ok THEN task.failed ELSE task.failed + 1
      /\ IF (~ok /\ plan.stop) \/ n = Row.last THEN task'.pc = "finish" /\ task'.run = n
         ELSE task'.pc = "nextRun" /\ task'.run = n + 1
  BY <1>0, <1>1, AfterRunFacts
<1>4. At(RunPCs) /\ At({"finish", "nextRun"})' /\ At(RunPCs \cup {"finish"})'
  BY <1>3 DEF At, RunPCs
<1>5. /\ Planned' /\ InOrder' /\ TrackerShaped' /\ Row' = Row /\ Ids' = Ids /\ RowRuns(Row)' = RowRuns(Row)
      /\ \A i \in Ids : Blank(i)' = Blank(i) /\ Complete(i)' = Complete(i) /\ Stopped(i)' = Stopped(i)
  BY <1>3, <1>4, StatusStep
<1>6. VmTyped' /\ ExecutorState' /\ KnowsItsVm' /\ exec' = exec
  BY <1>1, MachineRests DEF IInv, Executing, Truthful, execVars
<1>7. tracker[n].status \in {"PENDING", "RUNNING"}
  BY <1>0 DEF IInv, Story, InRow, Underway, At, RunPCs
<1>8. \A i \in RowRuns(Row) : /\ i < n => tracker[i].status \in Finished
                              /\ i > n => tracker[i].status = "PENDING"
  BY <1>0, <1>4 DEF IInv, Story, InRow
<1>9. \A i \in Ids : i # n => /\ tracker[i].status # "RUNNING"
                              /\ ok \/ ~plan.stop => tracker'[i].status = tracker[i].status
                              /\ \A s \in Finished : (tracker'[i].status = s) = (tracker[i].status = s)
                              /\ tracker'[i].status # "RUNNING"
  <2>1. \A i \in Ids : i # n => tracker[i].status # "RUNNING"
    BY <1>0 DEF IInv, Story, Told
  <2> QED BY <1>0, <2>1 DEF Finished
<1>10. Typed'
  BY <1>1, <1>3, <1>5, <1>6 DEF Typed, TrackerShaped
<1>11. Placed'
  <2>1. task'.pc = "nextRun" => task'.run \in RowRuns(Row)
    BY <1>2, <1>3 DEF RowRuns
  <2> QED BY <1>2, <1>3, <1>4, <1>5, <2>1 DEF Placed, At, RunPCs, PhasePCs
<1>12. exec.step = "idle"
  BY DEF IInv, Executing, At
<1>13. Executing'
  BY <1>3, <1>6, <1>12 DEF Executing, At
<1>14. Truthful'
  BY <1>3, <1>6 DEF IInv, Truthful
<1>15. NoFailedRun' => ok /\ NoFailedRun
  <2>1. SUFFICES ASSUME NoFailedRun' PROVE ok /\ NoFailedRun
    OBVIOUS
  <2>2. ok
    BY <1>0, <1>2, <1>5, <2>1 DEF NoFailedRun
  <2>3. \A i \in Ids : tracker[i].status # "FAILED"
    BY <1>5, <1>7, <1>9, <2>1 DEF NoFailedRun, Finished
  <2> QED BY <2>2, <2>3 DEF NoFailedRun
<1>16. Alone'
  <2>1. ~Awaited
    BY <1>12 DEF Awaited
  <2>2. faults' = faults /\ \A v : SenderUp(v)' = SenderUp(v)
    BY MachineRests DEF execVars
  <2> QED BY <1>15, <2>1, <2>2 DEF IInv, Alone
<1>17. (\A i \in Ids : Told(i))'
  <2>1. SUFFICES ASSUME NEW i \in Ids PROVE Told(i)'
    BY <1>5
  <2>2. CASE i = n
    BY <1>0, <1>5, <2>2 DEF Told
  <2>3. CASE i # n
    <3>1. Told(i)
      BY DEF IInv, Story
    <3>2. tracker'[i].status \in {tracker[i].status} \cup (IF tracker[i].status = "PENDING" THEN {"SKIPPED"} ELSE {})
      BY <1>0, <2>3
    <3> QED BY <1>5, <1>9, <2>3, <3>1, <3>2 DEF Told
  <2> QED BY <2>2, <2>3
<1>18. Underway'
  BY <1>4 DEF Underway, At, RunPCs
<1>19. CollectedSoFar'
  <2>1. \A i \in Ids : \A p \in PhasesIn(i) : \A a \in ActionsIn(i, p) : ActionStatus(i, p, a)' = ActionStatus(i, p, a)
    BY DEF StatusesMove, ActionStatus
  <2>2. At(RunPCs \cup {"load", "finish"}) /\ ~At({"executing"})
    BY DEF At, RunPCs
  <2> QED BY <1>2, <1>3, <2>1, <2>2, CollectedKept DEF IInv, Story
<1>20. /\ task'.done = Cardinality(RunsWith(Row, "SUCCEEDED"))'
       /\ task'.failed = Cardinality(RunsWith(Row, "FAILED"))'
  <2>1. task.done = Cardinality(RunsWith(Row, "SUCCEEDED")) /\ task.failed = Cardinality(RunsWith(Row, "FAILED"))
    BY <1>4 DEF IInv, Story, InRow, At
  <2>2. CASE ok
    <3>1. Cardinality(RunsWith(Row, "SUCCEEDED"))' = Cardinality(RunsWith(Row, "SUCCEEDED")) + 1
      BY <1>0, <1>2, <1>5, <1>7, <1>9, <2>2, Counted DEF Finished
    <3>2. RunsWith(Row, "FAILED")' = RunsWith(Row, "FAILED")
      BY <1>0, <1>2, <1>5, <1>7, <1>9, <2>2 DEF RunsWith, Finished
    <3> QED BY <1>3, <2>1, <2>2, <3>1, <3>2
  <2>3. CASE ~ok
    <3>1. Cardinality(RunsWith(Row, "FAILED"))' = Cardinality(RunsWith(Row, "FAILED")) + 1
      BY <1>0, <1>2, <1>5, <1>7, <1>9, <2>3, Counted DEF Finished
    <3>2. RunsWith(Row, "SUCCEEDED")' = RunsWith(Row, "SUCCEEDED")
      BY <1>0, <1>2, <1>5, <1>7, <1>9, <2>3 DEF RunsWith, Finished
    <3> QED BY <1>3, <2>1, <2>3, <3>1, <3>2
  <2> QED BY <2>2, <2>3
<1>21. InRow'
  <2>1. CASE task'.pc = "finish"
    <3>1. \A i \in RowRuns(Row) : tracker'[i].status # "RUNNING"
      BY <1>0, <1>2, <1>9
    <3>2. ASSUME task'.failed = 0, NEW i \in RowRuns(Row) PROVE tracker'[i].status = "SUCCEEDED"
      <4>1. ok /\ task.failed = 0 /\ n = Row.last
        BY <1>1, <1>3, <2>1, <3>2 DEF TaskRecords
      <4>2. i <= n /\ i \in Nat
        BY <1>2, <4>1 DEF RowRuns
      <4>3. CASE i = n
        BY <1>0, <4>1, <4>3
      <4>4. CASE i # n
        <5>1. tracker[i].status \in Finished /\ tracker'[i].status = tracker[i].status
          BY <1>2, <1>8, <1>9, <4>1, <4>2, <4>4
        <5>2. tracker[i].status # "FAILED"
          <6>1. Cardinality(RunsWith(Row, "FAILED")) = 0
            BY <1>4, <4>1 DEF IInv, Story, InRow, At
          <6>2. Row.first \in Int /\ Row.last \in Int
            BY <1>2
          <6>3. IsFiniteSet(RowRuns(Row))
            BY <6>2, FS_Interval DEF RowRuns
          <6>4. IsFiniteSet(RunsWith(Row, "FAILED"))
            BY <6>3, FS_Subset DEF RunsWith
          <6>5. RunsWith(Row, "FAILED") = {}
            BY <6>1, <6>4, FS_EmptySet
          <6> QED BY <6>5 DEF RunsWith
        <5> QED BY <5>1, <5>2 DEF Finished
      <4> QED BY <4>3, <4>4
    <3> QED BY <1>5, <1>20, <2>1, <3>1, <3>2 DEF InRow, At, RunPCs
  <2>2. CASE task'.pc = "nextRun"
    <3>1. task'.run = n + 1 /\ n # Row.last /\ (ok \/ ~plan.stop) /\ n + 1 \in RowRuns(Row)
      BY <1>2, <1>3, <2>2 DEF RowRuns
    <3>2. ASSUME NEW i \in RowRuns(Row)
          PROVE  /\ i < n + 1 => tracker'[i].status \in Finished
                 /\ i > n + 1 => tracker'[i].status = "PENDING"
                 /\ i = n + 1 => tracker'[i].status = "PENDING"
      <4>1. i \in Ids /\ i \in Nat /\ n \in Nat
        BY <1>2
      <4>2. CASE i = n
        BY <1>0, <4>1, <4>2 DEF Finished
      <4>3. CASE i # n
        BY <1>8, <1>9, <3>1, <4>1, <4>3
      <4> QED BY <4>2, <4>3
    <3> QED BY <1>5, <1>20, <2>2, <3>1, <3>2 DEF InRow, At, RunPCs
  <2> QED BY <1>3, <2>1, <2>2
<1>22. StopsAtFailure'
  <2>1. SUFFICES ASSUME plan.stop
                 PROVE  /\ At({"nextRun"})' => NoFailedRun'
                        /\ At({"finish"})' /\ task'.failed = 0 => NoFailedRun'
                        /\ \A i, j \in Ids : i < j /\ tracker'[i].status = "FAILED" => Blank(j)'
    BY <1>4, <1>5 DEF StopsAtFailure, At, RunPCs
  <2>2. NoFailedRun
    BY <1>4, <2>1 DEF IInv, Story, StopsAtFailure, At
  <2>3. ok => NoFailedRun'
    BY <1>0, <1>2, <1>5, <1>9, <2>2 DEF NoFailedRun, Finished
  <2>4. At({"nextRun"})' => ok
    BY <1>3, <2>1 DEF At
  <2>5. task'.failed = 0 => ok
    BY <1>1, <1>3 DEF TaskRecords
  <2>6. ASSUME NEW i \in Ids, NEW j \in Ids, i < j, tracker'[i].status = "FAILED" PROVE Blank(j)'
    <3>1. i = n
      BY <1>9, <2>2, <2>6 DEF NoFailedRun, Finished
    <3>2. Blank(j)
      <4>1. CASE j \in RowRuns(Row)
        <5>1. tracker[j].status = "PENDING"
          BY <1>2, <1>8, <2>6, <3>1, <4>1
        <5> QED BY <5>1 DEF IInv, Story, Told
      <4>2. CASE j \notin RowRuns(Row)
        BY <1>2, <2>6, <3>1, <4>2, LaterRuns
      <4> QED BY <4>1, <4>2
    <3> QED BY <1>5, <3>2
  <2> QED BY <2>3, <2>4, <2>5, <2>6
<1> QED BY <1>5, <1>10, <1>11, <1>13, <1>14, <1>16, <1>17, <1>18, <1>19, <1>21, <1>22 DEF IInv, Story


\* The status of one run moves ...
LEMMA RunSetMoves ==
  ASSUME IInv, At(RunPCs), NEW s \in EntryStatus, tracker' = SetRun(s)
  PROVE  /\ StatusesMove /\ tracker'[task.run].status = s
         /\ \A i \in Ids : i # task.run => tracker'[i].status = tracker[i].status
<1>1. Typed /\ task.run \in Ids /\ task.run \in RowRuns(Row)
  BY Standing DEF IInv, At, RunPCs
<1>2. /\ DOMAIN tracker' = Ids
      /\ \A i \in Ids : /\ i # task.run => tracker'[i] = tracker[i]
                        /\ tracker'[i].phases = tracker[i].phases /\ DOMAIN tracker'[i] = {"status", "phases"}
      /\ tracker'[task.run].status = s
  BY <1>1, RunSet
<1>3. \A i \in Ids : tracker[i].status \in EntryStatus
  BY <1>1 DEF Typed, HasShape
<1>4. \A i \in Ids : tracker'[i].status \in EntryStatus
  BY <1>2, <1>3
<1> QED BY <1>1, <1>2, <1>4 DEF StatusesMove

\* ... and those that are still PENDING become SKIPPED with a failure.
LEMMA SkipSetMoves ==
  ASSUME IInv, At(RunPCs), tracker' = SkipPending(SetRun("FAILED"))
  PROVE  /\ StatusesMove /\ tracker'[task.run].status = "FAILED"
         /\ \A i \in Ids : i # task.run => \/ tracker'[i].status = tracker[i].status
                                           \/ tracker[i].status = "PENDING" /\ tracker'[i].status = "SKIPPED"
<1>1. Typed /\ task.run \in Ids /\ task.run \in RowRuns(Row)
  BY Standing DEF IInv, At, RunPCs
<1>2. DOMAIN tracker = Ids /\ \A i \in Ids : DOMAIN tracker[i] = {"status", "phases"} /\ tracker[i].status \in EntryStatus
  BY <1>1 DEF Typed, HasShape
<1>3. /\ DOMAIN tracker' = Ids
      /\ \A i \in Ids : /\ tracker'[i].phases = tracker[i].phases
                        /\ DOMAIN tracker'[i] = {"status", "phases"}
                        /\ i # task.run => tracker'[i].status = IF i \in RowRuns(Row) /\ tracker[i].status = "PENDING"
                                                                THEN "SKIPPED" ELSE tracker[i].status
      /\ tracker'[task.run].status = "FAILED"
  BY <1>1, SkipSet
<1>4. \A i \in Ids : tracker'[i].status \in EntryStatus
  BY <1>2, <1>3 DEF EntryStatus
<1>5. \A i \in Ids : i \notin RowRuns(Row) => tracker'[i].status = tracker[i].status
  BY <1>1, <1>3
<1> QED BY <1>3, <1>4, <1>5 DEF StatusesMove

\* RunWithoutEnvironment keeps the invariant.
LEMMA RunWithoutEnvironmentStep ==
  ASSUME IInv, RunWithoutEnvironment
  PROVE  IInv'
<1>1. /\ task.pc = "nextRun" /\ tracker' = SetRun("FAILED") /\ task' = AfterRun(FALSE)
      /\ UNCHANGED <<execVars, spec, plan, rows, vmRows>>
  BY DEF RunWithoutEnvironment
<1>2. /\ At(RunPCs) /\ At({"nextRun", "precheck", "endRun"}) /\ ~LeftBehind
  BY <1>1 DEF At, RunPCs, LeftBehind
<1>3. /\ StatusesMove /\ tracker'[task.run].status = "FAILED"
      /\ \A i \in Ids : i # task.run => tracker'[i].status = tracker[i].status
  BY <1>1, <1>2, RunSetMoves DEF EntryStatus
<1>4. PlanMade /\ task.run \in Ids
  BY <1>1, Standing DEF IInv, At, RunPCs
<1>5. tracker[task.run].status = "PENDING"
  BY <1>1 DEF IInv, Story, InRow, At
<1>6. Stopped(task.run)
  BY <1>4, <1>5, BlankStops DEF IInv, Story, Told
<1> QED BY <1>1, <1>2, <1>3, <1>6, RunEnds

\* PrecheckFailed keeps the invariant.
LEMMA PrecheckFailedStep ==
  ASSUME IInv, PrecheckFailed
  PROVE  IInv'
<1>1. /\ task.pc = "precheck" /\ task' = AfterRun(FALSE)
      /\ tracker' = IF plan.stop THEN SkipPending(SetRun("FAILED")) ELSE SetRun("FAILED")
      /\ UNCHANGED <<execVars, spec, plan, rows, vmRows>>
  BY DEF PrecheckFailed
<1>2. /\ At(RunPCs) /\ At({"nextRun", "precheck", "endRun"}) /\ ~LeftBehind
  BY <1>1 DEF At, RunPCs, LeftBehind
<1>3. /\ StatusesMove /\ tracker'[task.run].status = "FAILED"
      /\ \A i \in Ids : i # task.run => \/ tracker'[i].status = tracker[i].status
                                        \/ /\ plan.stop
                                           /\ tracker[i].status = "PENDING" /\ tracker'[i].status = "SKIPPED"
  <2>1. CASE plan.stop
    BY <1>1, <1>2, <2>1, SkipSetMoves
  <2>2. CASE ~plan.stop
    BY <1>1, <1>2, <2>2, RunSetMoves DEF EntryStatus
  <2> QED BY <2>1, <2>2
<1>4. PlanMade /\ task.run \in Ids
  BY <1>1, Standing DEF IInv, At, RunPCs
<1>5. Stopped(task.run)
  BY <1>1, <1>4, BlankStops DEF IInv, Story, Underway, At
<1> QED BY <1>1, <1>2, <1>3, <1>5, RunEnds

\* EndRun keeps the invariant.
LEMMA EndRunStep ==
  ASSUME IInv, EndRun
  PROVE  IInv'
<1>1. /\ task.pc = "endRun" /\ task' = AfterRun(task.ok)
      /\ tracker' = IF task.ok THEN SetRun("SUCCEEDED")
                    ELSE IF plan.stop THEN SkipPending(SetRun("FAILED")) ELSE SetRun("FAILED")
      /\ UNCHANGED <<execVars, spec, plan, rows, vmRows>>
  BY DEF EndRun
<1>2. /\ At(RunPCs) /\ At({"nextRun", "precheck", "endRun"}) /\ task.ok \in BOOLEAN
  BY <1>1 DEF At, RunPCs, IInv, Typed, TaskRecords
<1>3. /\ StatusesMove /\ tracker'[task.run].status = IF task.ok THEN "SUCCEEDED" ELSE "FAILED"
      /\ \A i \in Ids : i # task.run => \/ tracker'[i].status = tracker[i].status
                                        \/ /\ ~task.ok /\ plan.stop
                                           /\ tracker[i].status = "PENDING" /\ tracker'[i].status = "SKIPPED"
  <2>1. CASE task.ok
    BY <1>1, <1>2, <2>1, RunSetMoves DEF EntryStatus
  <2>2. CASE ~task.ok /\ plan.stop
    BY <1>1, <1>2, <2>2, SkipSetMoves
  <2>3. CASE ~task.ok /\ ~plan.stop
    BY <1>1, <1>2, <2>3, RunSetMoves DEF EntryStatus
  <2> QED BY <2>1, <2>2, <2>3
<1>4. task.run \in Ids /\ task.phase \in PhasesIn(task.run)
  BY <1>1, Standing DEF IInv, At, RunPCs, PhasePCs
<1>5. IF task.ok THEN Complete(task.run) ELSE StoppedAt(task.run, task.phase, task.action)
  BY <1>1 DEF IInv, Story, Underway, At
<1>6. IF task.ok THEN Complete(task.run) ELSE Stopped(task.run)
  BY <1>4, <1>5 DEF Stopped, IInv, Typed, TaskRecords
<1>7. LeftBehind => ~task.ok
  BY DEF LeftBehind
<1> HIDE DEF IInv
<1> QED BY <1>1, <1>2, <1>3, <1>6, <1>7, RunEnds

\* The nodes that are checked before a run are VMs.
LEMMA PrecheckTargetsAreVms == ASSUME NEW run PROVE PrecheckTargets(run) \in Seq(Vms)
<1> DEFINE targets == {a.target : a \in Actions(run)} \cap Vms
           nodes == IF targets = {} THEN Vms ELSE targets
<1>1. nodes \in SUBSET Vms
  OBVIOUS
<1>2. PrecheckTargets(run) = Ascending(nodes)
  BY DEF PrecheckTargets
<1> HIDE DEF nodes
<1>3. nodes \in SUBSET Nat /\ IsFiniteSet(nodes)
  BY <1>1, VmsAssumption, FS_Subset
<1>4. Ascending(nodes) \in Seq(nodes)
  BY <1>3, Sorted
<1> QED BY <1>1, <1>2, <1>4

\* BeginRun keeps it: the run that is begun was PENDING.
LEMMA BeginRunStep ==
  ASSUME IInv, BeginRun
  PROVE  IInv'
<1>0. PICK n : n = task.run
  OBVIOUS
<1>1. /\ task.pc = "nextRun" /\ tracker' = SetRun("RUNNING") /\ UNCHANGED <<execVars, spec, plan, rows, vmRows>>
      /\ \/ task' = [task EXCEPT !.pc = "precheck", !.ok = TRUE, !.todo = PrecheckTargets(Run)]
         \/ task' = [task EXCEPT !.pc = "phases", !.ok = TRUE, !.phase = 1]
  BY DEF BeginRun
<1>2. Typed /\ task \in TaskRecords /\ VmTyped /\ vmRows \in [Vms -> VmRecords]
  BY DEF IInv, Typed
<1>3. /\ task' \in TaskRecords /\ (task'.pc = "precheck" \/ (task'.pc = "phases" /\ task'.phase = 1)) /\ task'.ok
      /\ task'.row = task.row /\ task'.run = n /\ task'.done = task.done /\ task'.failed = task.failed
      /\ task'.verified = task.verified /\ task'.collected = task.collected
  <2>1. CASE task' = [task EXCEPT !.pc = "precheck", !.ok = TRUE, !.todo = PrecheckTargets(Run)]
    <3>1. PrecheckTargets(Run) \in Seq(Vms)
      BY PrecheckTargetsAreVms
    <3> HIDE DEF PrecheckTargets
    <3> QED BY <1>0, <1>2, <2>1, <3>1 DEF TaskRecords, PCs
  <2>2. CASE task' = [task EXCEPT !.pc = "phases", !.ok = TRUE, !.phase = 1]
    BY <1>0, <1>2, <2>2 DEF TaskRecords, PCs
  <2> QED BY <1>1, <2>1, <2>2
<1>4. At(RunPCs) /\ At({"precheck", "phases"})' /\ At(RunPCs \cup {"finish"})'
  BY <1>1, <1>3 DEF At, RunPCs
<1>5. /\ PlanMade /\ n \in Ids /\ n \in RowRuns(Row) /\ RowRuns(Row) \subseteq Ids
  BY <1>0, <1>1, Standing DEF IInv, At, RunPCs
<1>6. /\ StatusesMove /\ tracker'[n].status = "RUNNING"
      /\ \A i \in Ids : i # n => tracker'[i].status = tracker[i].status
  BY <1>0, <1>1, <1>4, RunSetMoves DEF EntryStatus
<1>7. /\ Planned' /\ InOrder' /\ TrackerShaped' /\ Row' = Row /\ Ids' = Ids /\ RowRuns(Row)' = RowRuns(Row)
      /\ \A i \in Ids : Blank(i)' = Blank(i) /\ Complete(i)' = Complete(i) /\ Stopped(i)' = Stopped(i)
  BY <1>1, <1>3, <1>4, <1>6, StatusStep
<1>8. VmTyped' /\ ExecutorState' /\ KnowsItsVm' /\ exec' = exec
  BY <1>1, <1>2, MachineRests DEF IInv, Executing, Truthful, execVars
<1>9. tracker[n].status = "PENDING" /\ Blank(n)
  BY <1>0, <1>1, <1>5 DEF IInv, Story, InRow, Told, At
<1>10. PhasesIn(n) \subseteq Nat \ {0} /\ 1 \in PhasesIn(n) /\ PhasesIn(n)' = PhasesIn(n)
  BY <1>1, <1>5, IdsArePositive, PlanKept
<1>11. Typed'
  BY <1>1, <1>2, <1>3, <1>7, <1>8 DEF Typed, TrackerShaped
<1>12. Placed'
  <2>1. task'.run \in RowRuns(Row)' /\ (task'.pc = "phases" => task'.phase \in DOMAIN Run'.phases)
    BY <1>3, <1>5, <1>7, <1>10 DEF PhasesIn, Run
  <2> QED BY <1>1, <1>3, <1>7, <2>1 DEF IInv, Placed, At, RunPCs, PhasePCs
<1>13. Executing'
  BY <1>1, <1>3, <1>8 DEF IInv, Executing, At
<1>14. Truthful'
  BY <1>1, <1>3, <1>8 DEF IInv, Truthful
<1>15. NoFailedRun' = NoFailedRun
  BY <1>6, <1>7, <1>9 DEF NoFailedRun
<1>16. Alone'
  <2>1. ~LeftBehind
    BY <1>1 DEF At, LeftBehind
  <2> QED BY <1>1, <1>15, <2>1, AloneKept DEF IInv
<1>17. (\A i \in Ids : Told(i))'
  <2>1. SUFFICES ASSUME NEW i \in Ids PROVE Told(i)'
    BY <1>7
  <2>2. At(RunPCs \cup {"died"})' /\ task'.run = n
    BY <1>3, <1>4 DEF At, RunPCs
  <2>3. CASE i = n
    BY <1>6, <2>2, <2>3 DEF Told
  <2>4. CASE i # n
    <3>1. Told(i)
      BY DEF IInv, Story
    <3> QED BY <1>0, <1>6, <1>7, <2>2, <2>4, <3>1 DEF Told
  <2> QED BY <2>3, <2>4
<1>18. Underway'
  <2>1. Blank(n)'
    BY <1>5, <1>7, <1>9
  <2>2. \A q \in PhasesIn(n) : BlankPhase(n, q)' /\ q >= 1
    BY <1>10, <2>1 DEF Blank
  <2> QED BY <1>3, <1>4, <1>6, <1>10, <2>1, <2>2 DEF Underway, At
<1>19. CollectedSoFar'
  <2>1. \A i \in Ids : \A p \in PhasesIn(i) : \A a \in ActionsIn(i, p) : ActionStatus(i, p, a)' = ActionStatus(i, p, a)
    BY <1>6 DEF StatusesMove, ActionStatus
  <2> QED BY <1>1, <1>3, <1>5, <2>1, CollectedKept DEF IInv, Story, At, RunPCs
<1>20. InRow'
  <2>1. \A i \in RowRuns(Row) : /\ i < n => tracker[i].status \in Finished
                                /\ i > n => tracker[i].status = "PENDING"
    BY <1>0, <1>4 DEF IInv, Story, InRow
  <2>2. task.done = Cardinality(RunsWith(Row, "SUCCEEDED")) /\ task.failed = Cardinality(RunsWith(Row, "FAILED"))
    BY <1>4 DEF IInv, Story, InRow, At
  <2>3. RunsWith(Row, "SUCCEEDED")' = RunsWith(Row, "SUCCEEDED") /\ RunsWith(Row, "FAILED")' = RunsWith(Row, "FAILED")
    BY <1>5, <1>6, <1>7, <1>9 DEF RunsWith
  <2>4. \A i \in RowRuns(Row) : /\ i < n => tracker'[i].status \in Finished
                                /\ i > n => tracker'[i].status = "PENDING"
    <3>1. n \in Nat
      BY <1>5, IdsArePositive
    <3>2. \A i \in RowRuns(Row) : (i < n \/ i > n) => i # n
      BY <3>1
    <3> QED BY <1>5, <1>6, <2>1, <3>2
  <2> QED BY <1>3, <1>4, <1>7, <2>2, <2>3, <2>4 DEF InRow, At
<1>21. StopsAtFailure'
  <2>1. plan.stop => NoFailedRun
    BY <1>4 DEF IInv, Story, StopsAtFailure, At
  <2> QED BY <1>1, <1>7, <1>15, <2>1 DEF StopsAtFailure, NoFailedRun
<1> QED BY <1>7, <1>11, <1>12, <1>13, <1>14, <1>16, <1>17, <1>18, <1>19, <1>20, <1>21 DEF IInv, Story


\* InventoryResolved keeps the invariant.
LEMMA InventoryResolvedStep ==
  ASSUME IInv, InventoryResolved
  PROVE  IInv'
<1>1. /\ task.pc = "load" /\ task' = [task EXCEPT !.pc = "nextRun", !.run = Row.first]
      /\ UNCHANGED <<execVars, spec, plan, rows, tracker, vmRows>>
  BY DEF InventoryResolved
<1>2. Typed /\ task \in TaskRecords /\ VmTyped /\ vmRows \in [Vms -> VmRecords]
  BY DEF IInv, Typed
<1>3. /\ PlanMade /\ task.row \in DOMAIN rows /\ Row \in RowRecords /\ RowRuns(Row) \subseteq Ids
      /\ Row.first \in RowRuns(Row) /\ Row.first \in Nat /\ ~At({"idle"}) /\ At({"load"})
  <2>1. ~At({"idle"}) /\ At({"load"})
    BY <1>1 DEF At
  <2> QED BY <2>1, Standing DEF IInv, RowRecords
<1>4. /\ task' \in TaskRecords /\ task'.pc = "nextRun" /\ task'.row = task.row /\ task'.run = Row.first
      /\ task'.done = task.done /\ task'.failed = task.failed
      /\ task'.verified = task.verified /\ task'.collected = task.collected
  BY <1>1, <1>2, <1>3 DEF TaskRecords, PCs
<1>5. /\ Planned' /\ InOrder' /\ Row' = Row /\ RowRuns(Row)' = RowRuns(Row) /\ Ids' = Ids
      /\ \A i : Blank(i)' = Blank(i) /\ Complete(i)' = Complete(i) /\ Stopped(i)' = Stopped(i)
      /\ NoFailedRun' = NoFailedRun
      /\ \A s : RunsWith(Row, s)' = RunsWith(Row, s)
  <2>1. Planned'
    BY <1>1, <1>3, PlanKept DEF IInv, Planned, WholeRow, RowPerRun, NothingYet, At, Idle
  <2>2. InOrder'
    BY <1>1, <1>4, InOrderRests DEF IInv, Story, At
  <2>3. Row' = Row
    BY <1>1, <1>4 DEF Row
  <2> QED BY <1>1, <2>1, <2>2, <2>3, PlanKept, TrackerRests DEF RowRuns, RunsWith
<1>6. VmTyped' /\ ExecutorState' /\ KnowsItsVm' /\ exec' = exec
  BY <1>1, <1>2, MachineRests DEF IInv, Executing, Truthful, execVars
<1>7. \A i \in RowRuns(Row) : tracker[i].status = "PENDING"
  BY <1>3 DEF IInv, Story, InRow
<1>8. Typed'
  BY <1>1, <1>2, <1>4, <1>5, <1>6 DEF Typed
<1>9. Placed'
  BY <1>1, <1>3, <1>4, <1>5 DEF Placed, At, RunPCs, PhasePCs
<1>10. Executing'
  BY <1>1, <1>4, <1>6 DEF IInv, Executing, At
<1>11. Truthful'
  BY <1>1, <1>4, <1>6 DEF IInv, Truthful
<1>12. Alone'
  <2>1. ~LeftBehind
    BY <1>1 DEF At, LeftBehind
  <2> QED BY <1>1, <1>5, <2>1, AloneKept DEF IInv
<1>13. (\A i \in Ids : Told(i))'
  <2>1. SUFFICES ASSUME NEW i \in Ids PROVE Told(i)'
    BY <1>5
  <2>2. Told(i) /\ tracker[i].status # "RUNNING"
    BY <1>1 DEF IInv, Story, Told, At, RunPCs
  <2> QED BY <1>1, <1>5, <2>2 DEF Told
<1>14. Underway'
  BY <1>4 DEF Underway, At, RunPCs
<1>15. CollectedSoFar'
  <2>1. \A i \in Ids : \A p \in PhasesIn(i) : \A a \in ActionsIn(i, p) : ActionStatus(i, p, a)' = ActionStatus(i, p, a)
    BY <1>1 DEF ActionStatus
  <2> QED BY <1>1, <1>3, <1>4, <2>1, CollectedKept DEF IInv, Story, At, RunPCs
<1>16. InRow'
  <2>1. task.done = Cardinality(RunsWith(Row, "SUCCEEDED")) /\ task.failed = Cardinality(RunsWith(Row, "FAILED"))
    BY <1>3 DEF IInv, Story, InRow, At
  <2>2. \A i \in RowRuns(Row) : ~(i < Row.first)
    BY <1>3 DEF RowRuns, RowRecords
  <2>3. task'.done = Cardinality(RunsWith(Row, "SUCCEEDED"))' /\ task'.failed = Cardinality(RunsWith(Row, "FAILED"))'
    BY <1>4, <1>5, <2>1
  <2>4. \A i \in RowRuns(Row)' : /\ i < task'.run => tracker'[i].status \in Finished
                                 /\ i > task'.run => tracker'[i].status = "PENDING"
    BY <1>1, <1>4, <1>5, <1>7, <2>2
  <2>5. tracker'[task'.run].status = "PENDING"
    BY <1>1, <1>3, <1>4, <1>7
  <2> QED BY <1>4, <2>3, <2>4, <2>5 DEF InRow, At
<1>17. StopsAtFailure'
  <2>1. plan.stop => NoFailedRun /\ NoFailedRun'
    BY <1>3, <1>5 DEF IInv, Story, StopsAtFailure, At
  <2> QED BY <1>1, <1>4, <1>5, <2>1 DEF StopsAtFailure, NoFailedRun
<1> QED BY <1>5, <1>8, <1>9, <1>10, <1>11, <1>12, <1>13, <1>14, <1>15, <1>16, <1>17 DEF IInv, Story

\* InventoryFails keeps it: the row fails and none of its runs is begun.
LEMMA InventoryFailsStep ==
  ASSUME IInv, InventoryFails
  PROVE  IInv'
<1>0. PICK r : r = task.row
  OBVIOUS
<1>1. /\ task.pc = "load" /\ task' = [task EXCEPT !.pc = "dispatch"]
      /\ tracker' = [i \in DOMAIN tracker |->
                       IF i \in RowRuns(Row) THEN [tracker[i] EXCEPT !.status = "FAILED"] ELSE tracker[i]]
      /\ rows' = [rows EXCEPT ![r].status = "FAILED", ![r].failed = Row.last - Row.first + 1]
      /\ UNCHANGED <<execVars, spec, plan, vmRows>>
  BY <1>0 DEF InventoryFails
<1>2. Typed /\ task \in TaskRecords /\ VmTyped /\ vmRows \in [Vms -> VmRecords] /\ TrackerShaped
  BY DEF IInv, Typed, TrackerShaped
<1>3. /\ PlanMade /\ (WholeRow \/ RowPerRun) /\ RowsPartition /\ r \in DOMAIN rows /\ Row \in RowRecords
      /\ RowRuns(Row) \subseteq Ids /\ Row.first \in RowRuns(Row) /\ Row.first <= Row.last /\ Row.first \in Nat /\ Row.last \in Nat
      /\ ~At({"idle"}) /\ At({"load"})
  <2>1. ~At({"idle"}) /\ At({"load"})
    BY <1>1 DEF At
  <2> QED BY <1>0, <2>1, Standing DEF IInv, RowRecords
<1>4. /\ task' \in TaskRecords /\ task'.pc = "dispatch" /\ task'.row = r /\ task'.verified = task.verified
      /\ At({"dispatch"})' /\ ~At(RunPCs \cup {"idle", "load", "finish", "died"})'
  BY <1>0, <1>1, <1>2 DEF TaskRecords, PCs, At, RunPCs
<1>5. /\ DOMAIN tracker' = Ids
      /\ \A i \in Ids : /\ tracker'[i].phases = tracker[i].phases /\ DOMAIN tracker'[i] = {"status", "phases"}
                        /\ tracker'[i].status = IF i \in RowRuns(Row) THEN "FAILED" ELSE tracker[i].status
  <2>1. DOMAIN tracker = Ids /\ \A i \in Ids : DOMAIN tracker[i] = {"status", "phases"}
    BY <1>2 DEF TrackerShaped, HasShape
  <2>2. ASSUME NEW i \in Ids
        PROVE  /\ tracker'[i].phases = tracker[i].phases /\ DOMAIN tracker'[i] = {"status", "phases"}
               /\ tracker'[i].status = IF i \in RowRuns(Row) THEN "FAILED" ELSE tracker[i].status
    <3>1. tracker'[i] = IF i \in RowRuns(Row) THEN [tracker[i] EXCEPT !.status = "FAILED"] ELSE tracker[i]
      BY <1>1, <2>1
    <3> QED BY <2>1, <3>1
  <2> QED BY <1>1, <2>1, <2>2
<1>6. StatusesMove
  <2>1. \A i \in Ids : tracker[i].status \in EntryStatus
    BY <1>2 DEF TrackerShaped, HasShape
  <2>2. \A i \in Ids : tracker'[i].status \in EntryStatus
    BY <1>5, <2>1 DEF EntryStatus
  <2> QED BY <1>5, <2>2 DEF StatusesMove
<1>7. /\ DOMAIN rows' = DOMAIN rows /\ \A q \in DOMAIN rows : q # r => rows'[q] = rows[q]
      /\ rows'[r] \in RowRecords /\ rows'[r].status = "FAILED" /\ rows'[r].failed = Row.last - Row.first + 1
      /\ rows'[r].first = Row.first /\ rows'[r].last = Row.last /\ rows'[r].done = Row.done /\ rows'[r].collected = Row.collected
  <2>1. rows[r] \in RowRecords /\ rows[r] = Row
    BY <1>0, <1>3 DEF Row
  <2>2. PICK e : e = [rows[r] EXCEPT !.status = "FAILED", !.failed = Row.last - Row.first + 1]
    OBVIOUS
  <2>3. Row.last - Row.first + 1 \in Nat
    BY <1>3
  <2>4. /\ e \in RowRecords /\ e.status = "FAILED" /\ e.failed = Row.last - Row.first + 1
        /\ e.first = Row.first /\ e.last = Row.last /\ e.done = Row.done /\ e.collected = Row.collected
    BY <2>1, <2>2, <2>3 DEF RowRecords, RowStatus
  <2>5. DOMAIN rows' = DOMAIN rows /\ \A q \in DOMAIN rows : q # r => rows'[q] = rows[q]
    BY <1>1
  <2>6. rows'[r] = e
    BY <1>1, <1>3, <2>2
  <2> QED BY <2>4, <2>5, <2>6
<1>8. /\ Ids' = Ids /\ PlanMade' /\ RowRuns(Row)' = RowRuns(Row) /\ Row' = rows'[r]
      /\ \A i \in Ids : Blank(i)' = Blank(i) /\ Complete(i)' = Complete(i) /\ Stopped(i)' = Stopped(i)
  BY <1>0, <1>1, <1>3, <1>4, <1>5, <1>7, PlanKept, DetailKept DEF Row, RowRuns
<1>9. Planned'
  <2>1. \A q \in DOMAIN rows : rows'[q].first = rows[q].first /\ rows'[q].last = rows[q].last
    BY <1>0, <1>7 DEF Row
  <2>2. plan' = plan
    BY <1>1
  <2> QED BY <1>3, <1>7, <1>8, <2>1, <2>2 DEF Planned, WholeRow, RowPerRun
<1>10. TrackerShaped'
  BY <1>1, <1>2, <1>6, ShapeAfterStatus DEF StatusesMove
<1>11. VmTyped' /\ ExecutorState' /\ KnowsItsVm' /\ exec' = exec
  BY <1>1, <1>2, MachineRests DEF IInv, Executing, Truthful, execVars
<1>12. \A i \in RowRuns(Row) : tracker[i].status = "PENDING" /\ Blank(i) /\ Stopped(i)
  <2>1. \A i \in RowRuns(Row) : tracker[i].status = "PENDING"
    BY <1>3 DEF IInv, Story, InRow
  <2>2. \A i \in RowRuns(Row) : Blank(i)
    BY <1>3, <2>1 DEF IInv, Story, Told
  <2> QED BY <1>3, <2>1, <2>2, BlankStops
<1>13. Typed'
  <2>1. \A q \in DOMAIN rows' : rows'[q] \in RowRecords
    BY <1>2, <1>7 DEF Typed
  <2> QED BY <1>1, <1>2, <1>4, <1>10, <1>11, <2>1 DEF Typed, TrackerShaped
<1>14. Placed'
  BY <1>3, <1>4, <1>7 DEF Placed, At, RunPCs, PhasePCs
<1>15. Executing'
  BY <1>1, <1>4, <1>11 DEF IInv, Executing, At
<1>16. Truthful'
  BY <1>1, <1>4, <1>11 DEF IInv, Truthful
<1>17. ~NoFailedRun'
  BY <1>3, <1>5, <1>8 DEF NoFailedRun
<1>18. Alone'
  BY <1>17 DEF Alone
<1>19. (\A i \in Ids : Told(i))'
  <2>1. SUFFICES ASSUME NEW i \in Ids PROVE Told(i)'
    BY <1>8
  <2>2. Told(i) /\ tracker[i].status # "RUNNING"
    BY <1>1 DEF IInv, Story, Told, At, RunPCs
  <2>3. CASE i \in RowRuns(Row)
    BY <1>5, <1>8, <1>12, <2>3 DEF Told
  <2>4. CASE i \notin RowRuns(Row)
    BY <1>5, <1>8, <2>2, <2>4 DEF Told
  <2> QED BY <2>3, <2>4
<1>20. Underway' /\ InRow' /\ CollectedSoFar'
  BY <1>4 DEF Underway, InRow, CollectedSoFar, At, RunPCs
<1>21. InOrder'
  <2>1. /\ \A q \in DOMAIN rows : /\ q < r => rows[q].status \in Finished
                                  /\ q > r => rows[q].status = "PENDING"
        /\ Row.status = "RUNNING" /\ Row.done = 0 /\ ~Row.collected
    BY <1>0, <1>1, <1>3 DEF IInv, Story, InOrder, At, Row, Finished
  <2>2. \A q \in DOMAIN rows : rows[q].status = "RUNNING" => q = r
    BY <1>0 DEF IInv, Story, InOrder
  <2>3. ASSUME NEW q \in DOMAIN rows, q # r
        PROVE  /\ rows'[q].status = "PENDING" => \A i \in RowRuns(rows'[q]) : tracker'[i].status = "PENDING"
               /\ rows'[q].status \in Finished => RowAgrees(rows[q])' /\ \A i \in RowRuns(rows'[q]) : tracker'[i].status # "RUNNING"
               /\ rows'[q].collected => AllCollected(rows[q])'
               /\ rows'[q].status \notin Finished => ~rows'[q].collected /\ rows'[q].done = 0
               /\ rows'[q].status # "RUNNING"
    <3>1. rows'[q] = rows[q]
      BY <1>7, <2>3
    <3>2. rows[q].status \notin Finished => ~rows[q].collected /\ rows[q].done = 0
      BY DEF IInv, Story, InOrder
    <3> QED BY <1>0, <1>1, <1>3, <1>6, <2>2, <2>3, <3>1, <3>2, OtherRows
  <2>4. RowRuns(rows'[r]) = RowRuns(Row)
    BY <1>7 DEF RowRuns
  <2>5. \A i \in RowRuns(rows'[r]) : tracker'[i].status = "FAILED"
    BY <1>3, <1>5, <2>4
  <2>6. RowAgrees(rows[r])'
    <3>1. RunsWith(rows[r], "FAILED")' = RowRuns(Row)
      BY <2>4, <2>5 DEF RunsWith
    <3>2. RunsWith(rows[r], "SUCCEEDED")' = {}
      BY <2>5 DEF RunsWith
    <3>3. Cardinality(RowRuns(Row)) = Row.last - Row.first + 1
      <4>1. Row.first \in Int /\ Row.last \in Int
        BY <1>3
      <4>2. Cardinality(Row.first..Row.last) = IF Row.first > Row.last THEN 0 ELSE Row.last - Row.first + 1
        BY <4>1, FS_Interval
      <4> QED BY <1>3, <4>2 DEF RowRuns
    <3>4. Row.first \in RowRuns(Row)
      BY <1>3
    <3>5. RowRuns(rows[r])' = RowRuns(Row)
      BY <2>4 DEF RowRuns
    <3>6. Cardinality(RunsWith(rows[r], "SUCCEEDED"))' = 0
      BY <3>2, FS_EmptySet
    <3>7. Cardinality(RunsWith(rows[r], "FAILED"))' = Row.last - Row.first + 1
      BY <3>1, <3>3
    <3> QED BY <1>7, <2>1, <3>2, <3>4, <3>5, <3>6, <3>7 DEF RowAgrees
  <2>7. ~rows'[r].collected
    BY <1>7, <2>1
  <2>8. \A q \in DOMAIN rows : /\ q < r => rows'[q].status \in Finished
                               /\ q > r => rows'[q].status = "PENDING"
    <3>1. SUFFICES ASSUME NEW q \in DOMAIN rows, q < r \/ q > r
                   PROVE  /\ q < r => rows'[q].status \in Finished
                          /\ q > r => rows'[q].status = "PENDING"
      OBVIOUS
    <3>2. q # r
      <4>1. q \in Nat /\ r \in Nat
        BY <1>3 DEF RowsPartition
      <4> QED BY <3>1, <4>1
    <3> QED BY <1>7, <2>1, <3>2
  <2>9. \A q \in DOMAIN rows :
          /\ rows'[q].status = "PENDING" => \A i \in RowRuns(rows'[q]) : tracker'[i].status = "PENDING"
          /\ rows'[q].status \in Finished => RowAgrees(rows[q])' /\ \A i \in RowRuns(rows'[q]) : tracker'[i].status # "RUNNING"
          /\ rows'[q].collected => AllCollected(rows[q])'
          /\ rows'[q].status \notin Finished => ~rows'[q].collected /\ rows'[q].done = 0
          /\ rows'[q].status # "RUNNING"
    <3> QED BY <1>7, <2>3, <2>5, <2>6, <2>7 DEF Finished
  <2>10. \A q \in DOMAIN rows : RowRuns(rows[q])' = RowRuns(rows'[q])
    BY DEF RowRuns
  <2> QED BY <1>4, <1>7, <1>8, <2>8, <2>9, <2>10 DEF InOrder, At, Finished
<1>22. StopsAtFailure'
  <2>1. SUFFICES ASSUME plan.stop, NEW i \in Ids, NEW j \in Ids, i < j, tracker'[i].status = "FAILED"
                 PROVE  Blank(j)
    BY <1>1, <1>4, <1>7, <1>8 DEF StopsAtFailure, At, RunPCs
  <2>2. NoFailedRun
    BY <1>3, <2>1 DEF IInv, Story, StopsAtFailure, At
  <2>3. i \in RowRuns(Row)
    BY <1>5, <2>1, <2>2 DEF NoFailedRun
  <2>4. CASE j \in RowRuns(Row)
    BY <1>12, <2>4
  <2>5. CASE j \notin RowRuns(Row)
    BY <1>3, <2>1, <2>3, <2>5, LaterRuns
  <2> QED BY <2>4, <2>5
<1> QED BY <1>9, <1>13, <1>14, <1>15, <1>16, <1>18, <1>19, <1>20, <1>21, <1>22 DEF IInv, Story


\* FinishTask keeps it: the row counts what its runs show.
LEMMA FinishTaskStep ==
  ASSUME IInv, FinishTask
  PROVE  IInv'
<1>0. PICK r : r = task.row
  OBVIOUS
<1>1. /\ task.pc = "finish" /\ task' = [task EXCEPT !.pc = "dispatch"]
      /\ rows' = [rows EXCEPT ![r] =
                    [@ EXCEPT !.status = IF task.failed = 0 THEN "SUCCEEDED" ELSE "FAILED",
                              !.done = task.done, !.failed = task.failed,
                              !.collected = task.attempted /\ task.collected]]
      /\ UNCHANGED <<execVars, spec, plan, tracker, vmRows>>
  BY <1>0 DEF FinishTask
<1>2. Typed /\ task \in TaskRecords /\ VmTyped /\ vmRows \in [Vms -> VmRecords]
  BY DEF IInv, Typed
<1>3. /\ PlanMade /\ (WholeRow \/ RowPerRun) /\ RowsPartition /\ r \in DOMAIN rows /\ Row \in RowRecords
      /\ RowRuns(Row) \subseteq Ids /\ Row.first \in Nat /\ Row.last \in Nat
      /\ ~At({"idle"}) /\ At({"finish"})
  <2>1. ~At({"idle"}) /\ At({"finish"})
    BY <1>1 DEF At
  <2> QED BY <1>0, <2>1, Standing DEF IInv, RowRecords
<1>4. /\ task' \in TaskRecords /\ task'.pc = "dispatch" /\ task'.row = r /\ task'.verified = task.verified
      /\ At({"dispatch"})' /\ ~At(RunPCs \cup {"idle", "load", "finish", "died"})'
  BY <1>0, <1>1, <1>2 DEF TaskRecords, PCs, At, RunPCs
<1>5. /\ DOMAIN rows' = DOMAIN rows /\ \A q \in DOMAIN rows : q # r => rows'[q] = rows[q]
      /\ rows'[r] \in RowRecords /\ rows'[r].status = (IF task.failed = 0 THEN "SUCCEEDED" ELSE "FAILED")
      /\ rows'[r].first = Row.first /\ rows'[r].last = Row.last
      /\ rows'[r].done = task.done /\ rows'[r].failed = task.failed
      /\ rows'[r].collected => task.collected
  <2>1. rows[r] \in RowRecords /\ rows[r] = Row
    BY <1>0, <1>3 DEF Row
  <2>2. PICK s : s = IF task.failed = 0 THEN "SUCCEEDED" ELSE "FAILED"
    OBVIOUS
  <2>3. PICK c \in BOOLEAN : c = (task.attempted /\ task.collected)
    OBVIOUS
  <2>4. PICK e : e = [rows[r] EXCEPT !.status = s, !.done = task.done, !.failed = task.failed, !.collected = c]
    OBVIOUS
  <2>5. task.done \in Nat /\ task.failed \in Nat /\ s \in RowStatus
    BY <1>2, <2>2 DEF TaskRecords, RowStatus
  <2>6. /\ e \in RowRecords /\ e.status = s /\ e.done = task.done /\ e.failed = task.failed
        /\ e.first = Row.first /\ e.last = Row.last /\ e.collected = c
    BY <2>1, <2>4, <2>5 DEF RowRecords
  <2>7. DOMAIN rows' = DOMAIN rows /\ \A q \in DOMAIN rows : q # r => rows'[q] = rows[q]
    BY <1>1
  <2>8. rows'[r] = e
    BY <1>1, <1>3, <2>2, <2>3, <2>4
  <2>9. c => task.collected
    BY <2>3
  <2> QED BY <2>2, <2>6, <2>7, <2>8, <2>9
<1>6. /\ Ids' = Ids /\ PlanMade' /\ RowRuns(Row)' = RowRuns(Row) /\ Row' = rows'[r] /\ NoFailedRun' = NoFailedRun
      /\ \A i : Blank(i)' = Blank(i) /\ Complete(i)' = Complete(i) /\ Stopped(i)' = Stopped(i)
  BY <1>0, <1>1, <1>3, <1>4, <1>5, PlanKept, DetailKept DEF Row, RowRuns, NoFailedRun
<1>7. Planned'
  <2>1. \A q \in DOMAIN rows : rows'[q].first = rows[q].first /\ rows'[q].last = rows[q].last
    BY <1>0, <1>5 DEF Row
  <2>2. plan' = plan
    BY <1>1
  <2> QED BY <1>3, <1>5, <1>6, <2>1, <2>2 DEF Planned, WholeRow, RowPerRun
<1>8. VmTyped' /\ ExecutorState' /\ KnowsItsVm' /\ exec' = exec
  BY <1>1, <1>2, MachineRests DEF IInv, Executing, Truthful, execVars
<1>9. Typed'
  <2>1. \A q \in DOMAIN rows' : rows'[q] \in RowRecords
    BY <1>2, <1>5 DEF Typed
  <2> QED BY <1>1, <1>2, <1>4, <1>6, <1>8, <2>1 DEF Typed
<1>10. Placed'
  BY <1>3, <1>4, <1>5 DEF Placed, At, RunPCs, PhasePCs
<1>11. Executing'
  BY <1>1, <1>4, <1>8 DEF IInv, Executing, At
<1>12. Truthful'
  BY <1>1, <1>4, <1>8 DEF IInv, Truthful
<1>13. Alone'
  <2>1. ~LeftBehind
    BY <1>1 DEF At, LeftBehind
  <2> QED BY <1>1, <1>6, <2>1, AloneKept DEF IInv
<1>14. (\A i \in Ids : Told(i))'
  <2>1. SUFFICES ASSUME NEW i \in Ids PROVE Told(i)'
    BY <1>6
  <2>2. Told(i) /\ tracker[i].status # "RUNNING"
    BY <1>1 DEF IInv, Story, Told, At, RunPCs
  <2> QED BY <1>1, <1>6, <2>2 DEF Told
<1>15. Underway' /\ InRow' /\ CollectedSoFar'
  BY <1>4 DEF Underway, InRow, CollectedSoFar, At, RunPCs
<1>16. InOrder'
  <2>1. /\ \A q \in DOMAIN rows : /\ q < r => rows[q].status \in Finished
                                  /\ q > r => rows[q].status = "PENDING"
        /\ \A q \in DOMAIN rows : rows[q].status = "RUNNING" => q = r
    BY <1>0, <1>3 DEF IInv, Story, InOrder
  <2>2. ASSUME NEW q \in DOMAIN rows
        PROVE  /\ RowRuns(rows[q])' = RowRuns(rows[q]) /\ \A s : RunsWith(rows[q], s)' = RunsWith(rows[q], s)
               /\ AllCollected(rows[q])' = AllCollected(rows[q])
    <3>1. rows'[q].first = rows[q].first /\ rows'[q].last = rows[q].last
      BY <1>0, <1>5 DEF Row
    <3>2. RowRuns(rows[q])' = RowRuns(rows[q])
      BY <3>1 DEF RowRuns
    <3>3. plan' = plan /\ tracker' = tracker
      BY <1>1
    <3>4. \A s : RunsWith(rows[q], s)' = RunsWith(rows[q], s)
      BY <3>2, <3>3 DEF RunsWith
    <3>5. \A i : StepsOf(i)' = StepsOf(i) /\ \A x : StatusOf(i, x)' = StatusOf(i, x)
      BY <3>3 DEF StepsOf, StatusOf
    <3>6. AllCollected(rows[q])' = AllCollected(rows[q])
      BY <3>2, <3>3, <3>5 DEF AllCollected
    <3> QED BY <3>2, <3>4, <3>6
  <2>3. ASSUME NEW q \in DOMAIN rows, q # r
        PROVE  /\ rows'[q].status = "PENDING" => \A i \in RowRuns(rows[q])' : tracker'[i].status = "PENDING"
               /\ rows'[q].status \notin Finished => ~rows'[q].collected /\ rows'[q].done = 0
               /\ rows'[q].status # "RUNNING"
               /\ rows'[q].status \in Finished => RowAgrees(rows[q])' /\ \A i \in RowRuns(rows[q])' : tracker'[i].status # "RUNNING"
               /\ rows'[q].collected => AllCollected(rows[q])'
    <3>1. rows'[q] = rows[q]
      BY <1>5, <2>3
    <3>2. RowAgrees(rows[q])' = RowAgrees(rows[q])
      BY <2>2, <3>1 DEF RowAgrees
    <3>3. /\ rows[q].status = "PENDING" => \A i \in RowRuns(rows[q]) : tracker[i].status = "PENDING"
          /\ rows[q].status \notin Finished => ~rows[q].collected /\ rows[q].done = 0
          /\ rows[q].status \in Finished => RowAgrees(rows[q]) /\ \A i \in RowRuns(rows[q]) : tracker[i].status # "RUNNING"
          /\ rows[q].collected => AllCollected(rows[q])
      BY DEF IInv, Story, InOrder
    <3>4. tracker' = tracker
      BY <1>1
    <3> QED BY <2>1, <2>2, <2>3, <3>1, <3>2, <3>3, <3>4
  <2>4. /\ \A i \in RowRuns(Row) : tracker[i].status # "RUNNING"
        /\ task.failed = 0 => \A i \in RowRuns(Row) : tracker[i].status = "SUCCEEDED"
        /\ task.done = Cardinality(RunsWith(Row, "SUCCEEDED"))
        /\ task.failed = Cardinality(RunsWith(Row, "FAILED"))
    BY <1>3 DEF IInv, Story, InRow, At
  <2>5. Row = rows[r]
    BY <1>0 DEF Row
  <2>6. RowAgrees(rows[r])'
    <3>1. (task.failed = 0) = (RunsWith(Row, "SUCCEEDED") = RowRuns(Row))
      <4>1. CASE task.failed = 0
        BY <2>4, <4>1 DEF RunsWith
      <4>2. CASE task.failed # 0
        <5>1. RunsWith(Row, "FAILED") # {}
          BY <2>4, <4>2, FS_EmptySet
        <5>2. PICK i \in RowRuns(Row) : tracker[i].status = "FAILED"
          BY <5>1 DEF RunsWith
        <5>3. i \notin RunsWith(Row, "SUCCEEDED")
          BY <5>2 DEF RunsWith
        <5> QED BY <4>2, <5>3
      <4> QED BY <4>1, <4>2
    <3>2. /\ RowRuns(rows[r])' = RowRuns(Row) /\ RunsWith(rows[r], "SUCCEEDED")' = RunsWith(Row, "SUCCEEDED")
          /\ RunsWith(rows[r], "FAILED")' = RunsWith(Row, "FAILED")
      BY <1>3, <2>2, <2>5
    <3> QED BY <1>5, <2>4, <3>1, <3>2 DEF RowAgrees
  <2>7. rows'[r].collected => AllCollected(rows[r])'
    <3>1. SUFFICES ASSUME task.collected PROVE AllCollected(Row)
      BY <1>3, <1>5, <2>2, <2>5
    <3>2. \A i \in RowRuns(Row) : \A p \in PhasesIn(i) : \A a \in ActionsIn(i, p) :
            IsCollect(i, p, a) => ActionStatus(i, p, a) \in {"PENDING", "SUCCEEDED"}
      BY <1>1, <3>1 DEF IInv, Story, CollectedSoFar, At
    <3>3. ASSUME NEW i \in RowRuns(Row), NEW x \in StepsOf(i),
                 plan.runs[i].phases[x[1]].actions[x[2]].type = "collect_metrics"
          PROVE  StatusOf(i, x) \in {"PENDING", "SUCCEEDED"}
      <4>1. PICK p \in PhasesIn(i) : \E a \in ActionsIn(i, p) : x = <<p, a>>
        BY <3>3 DEF StepsOf, PhasesIn, ActionsIn
      <4>2. PICK a \in ActionsIn(i, p) : x = <<p, a>>
        BY <4>1
      <4> QED BY <3>2, <3>3, <4>2 DEF IsCollect, ActionStatus, StatusOf
    <3> QED BY <3>3 DEF AllCollected
  <2>8. rows'[r].status \in Finished /\ \A i \in RowRuns(rows[r])' : tracker'[i].status # "RUNNING"
    BY <1>1, <1>3, <1>5, <2>2, <2>4, <2>5 DEF Finished
  <2>9. \A q \in DOMAIN rows : /\ q < r => rows'[q].status \in Finished
                               /\ q > r => rows'[q].status = "PENDING"
    <3>1. SUFFICES ASSUME NEW q \in DOMAIN rows, q < r \/ q > r
                   PROVE  /\ q < r => rows'[q].status \in Finished
                          /\ q > r => rows'[q].status = "PENDING"
      OBVIOUS
    <3>2. q # r
      <4>1. q \in Nat /\ r \in Nat
        BY <1>3 DEF RowsPartition
      <4> QED BY <3>1, <4>1
    <3> QED BY <1>5, <2>1, <3>2
  <2>10. \A q \in DOMAIN rows :
          /\ rows'[q].status = "PENDING" => \A i \in RowRuns(rows[q])' : tracker'[i].status = "PENDING"
          /\ rows'[q].status \notin Finished => ~rows'[q].collected /\ rows'[q].done = 0
          /\ rows'[q].status # "RUNNING"
          /\ rows'[q].status \in Finished => RowAgrees(rows[q])' /\ \A i \in RowRuns(rows[q])' : tracker'[i].status # "RUNNING"
          /\ rows'[q].collected => AllCollected(rows[q])'
    BY <2>3, <2>6, <2>7, <2>8 DEF Finished
  <2> QED BY <1>4, <1>5, <1>6, <2>8, <2>9, <2>10 DEF InOrder, At, Finished
<1>17. StopsAtFailure'
  <2>1. plan.stop /\ task.failed = 0 => NoFailedRun
    BY <1>3 DEF IInv, Story, StopsAtFailure
  <2>2. plan.stop => \A i, j \in Ids : i < j /\ tracker[i].status = "FAILED" => Blank(j)
    BY DEF IInv, Story, StopsAtFailure
  <2>3. Row'.status = "SUCCEEDED" => task.failed = 0
    BY <1>5, <1>6
  <2>4. ~At(RunPCs \cup {"load"})' /\ ~At({"finish"})'
    BY <1>4 DEF At, RunPCs
  <2>5. plan' = plan /\ tracker' = tracker
    BY <1>1
  <2> QED BY <1>6, <2>1, <2>2, <2>3, <2>4, <2>5 DEF StopsAtFailure
<1> QED BY <1>7, <1>9, <1>10, <1>11, <1>12, <1>13, <1>14, <1>15, <1>16, <1>17 DEF IInv, Story

\* NothingToDispatch keeps the invariant.
LEMMA NothingToDispatchStep ==
  ASSUME IInv, NothingToDispatch
  PROVE  IInv'
<1>1. task.pc = "dispatch" /\ task' = Idle /\ UNCHANGED <<execVars, spec, plan, rows, tracker, vmRows>>
  BY DEF NothingToDispatch
<1>2. Typed /\ task \in TaskRecords /\ VmTyped /\ vmRows \in [Vms -> VmRecords]
  BY DEF IInv, Typed
<1>3. PlanMade /\ (WholeRow \/ RowPerRun) /\ ~At({"idle"}) /\ At({"dispatch"})
  <2>1. ~At({"idle"}) /\ At({"dispatch"})
    BY <1>1 DEF At
  <2> QED BY <2>1, Standing DEF IInv
<1>4. /\ task' \in TaskRecords /\ task'.pc = "idle" /\ task'.verified = {}
      /\ At({"idle"})' /\ ~At(PCs \ {"idle"})'
  <2>1. << >> \in Seq(Vms)
    OBVIOUS
  <2> QED BY <1>1, <2>1 DEF TaskRecords, PCs, At, Idle
<1>5. /\ Planned' /\ Ids' = Ids /\ NoFailedRun' = NoFailedRun
      /\ \A i : Blank(i)' = Blank(i) /\ Complete(i)' = Complete(i) /\ Stopped(i)' = Stopped(i)
      /\ \A r : /\ RowRuns(rows[r])' = RowRuns(rows[r]) /\ RowAgrees(rows[r])' = RowAgrees(rows[r])
                /\ AllCollected(rows[r])' = AllCollected(rows[r])
  <2>1. Planned'
    BY <1>1, <1>3, PlanKept DEF Planned, WholeRow, RowPerRun
  <2> QED BY <1>1, <2>1, PlanKept, TrackerRests
<1>6. VmTyped' /\ ExecutorState' /\ KnowsItsVm' /\ exec' = exec
  BY <1>1, <1>2, MachineRests DEF IInv, Executing, Truthful, execVars
<1>7. Typed'
  BY <1>1, <1>2, <1>4, <1>5, <1>6 DEF Typed
<1>8. Placed'
  BY <1>4 DEF Placed, At, PCs, RunPCs, PhasePCs
<1>9. Executing'
  BY <1>1, <1>4, <1>6 DEF IInv, Executing, At
<1>10. Truthful'
  BY <1>4, <1>6 DEF IInv, Truthful
<1>11. Alone'
  <2>1. ~LeftBehind
    BY <1>1 DEF At, LeftBehind
  <2> QED BY <1>1, <1>5, <2>1, AloneKept DEF IInv
<1>12. (\A i \in Ids : Told(i))'
  <2>1. SUFFICES ASSUME NEW i \in Ids PROVE Told(i)'
    BY <1>5
  <2>2. Told(i) /\ tracker[i].status # "RUNNING"
    BY <1>1 DEF IInv, Story, Told, At, RunPCs
  <2> QED BY <1>1, <1>5, <2>2 DEF Told
<1>13. Underway' /\ InRow' /\ CollectedSoFar'
  BY <1>4 DEF Underway, InRow, CollectedSoFar, At, RunPCs
<1>14. InOrder'
  <2>1. Row.status \in Finished
    BY <1>3 DEF IInv, Story, InOrder
  <2>2. \A r \in DOMAIN rows : rows[r].status # "RUNNING"
    BY <2>1 DEF IInv, Story, InOrder, Row, Finished
  <2>3. \A r \in DOMAIN rows :
          /\ rows[r].status = "PENDING" => \A i \in RowRuns(rows[r]) : tracker[i].status = "PENDING"
          /\ rows[r].status \notin Finished => ~rows[r].collected /\ rows[r].done = 0
          /\ rows[r].status \in Finished => RowAgrees(rows[r]) /\ \A i \in RowRuns(rows[r]) : tracker[i].status # "RUNNING"
          /\ rows[r].collected => AllCollected(rows[r])
    BY DEF IInv, Story, InOrder
  <2>4. rows' = rows /\ tracker' = tracker
    BY <1>1
  <2> QED BY <1>4, <1>5, <2>2, <2>3, <2>4 DEF InOrder
<1>15. StopsAtFailure'
  <2>1. plan.stop => \A i, j \in Ids : i < j /\ tracker[i].status = "FAILED" => Blank(j)
    BY DEF IInv, Story, StopsAtFailure
  <2>2. ~At(RunPCs \cup {"load"})' /\ ~At({"finish"})' /\ ~At({"dispatch"})'
    BY <1>4 DEF At, RunPCs
  <2>3. plan' = plan /\ tracker' = tracker
    BY <1>1
  <2> QED BY <1>5, <2>1, <2>2, <2>3 DEF StopsAtFailure
<1> QED BY <1>5, <1>7, <1>8, <1>9, <1>10, <1>11, <1>12, <1>13, <1>14, <1>15 DEF IInv, Story


\* A task takes up a row: its entries are fresh.
LEMMA BeginTaskStep ==
  ASSUME IInv, At({"idle", "dispatch"}), NEW r \in DOMAIN rows, rows[r].status = "PENDING",
         \A q \in DOMAIN rows : (q < r => rows[q].status \in Finished) /\ (q > r => rows[q].status = "PENDING"),
         plan.stop => NoFailedRun, BeginTask(r)
  PROVE  IInv'
<1>1. /\ rows' = [rows EXCEPT ![r].status = "RUNNING", ![r].collected = FALSE]
      /\ tracker' = [i \in DOMAIN tracker |-> IF i \in RowRuns(rows[r]) THEN FreshEntry(plan.runs[i]) ELSE tracker[i]]
      /\ task' = [Idle EXCEPT !.pc = "load", !.row = r]
      /\ UNCHANGED <<execVars, spec, plan, vmRows>>
  BY DEF BeginTask
<1>2. Typed /\ task \in TaskRecords /\ VmTyped /\ vmRows \in [Vms -> VmRecords] /\ DOMAIN tracker = Ids
      /\ rows[r] \in RowRecords /\ \A i \in Ids : HasShape(tracker[i], plan.runs[i])
  BY DEF IInv, Typed
<1>3. /\ PlanMade /\ (WholeRow \/ RowPerRun) /\ RowsPartition /\ RowRuns(rows[r]) \subseteq Ids /\ r \in Nat
      /\ ~At(RunPCs \cup {"died", "load", "finish"}) /\ exec.step = "idle" /\ ~LeftBehind
  <2>1. ~NothingYet
    BY DEF NothingYet
  <2>2. PlanMade /\ (WholeRow \/ RowPerRun)
    BY <2>1 DEF IInv, Planned
  <2>3. RowsPartition
    BY <2>2, RowFacts
  <2>4. ~At(RunPCs \cup {"died", "load", "finish"}) /\ ~At({"prechecking", "executing"}) /\ ~LeftBehind
    BY DEF At, RunPCs, LeftBehind
  <2>5. exec.step = "idle"
    BY <2>4 DEF IInv, Executing
  <2> QED BY <2>2, <2>3, <2>4, <2>5 DEF RowsPartition
<1>4. /\ task' \in TaskRecords /\ task'.pc = "load" /\ task'.row = r /\ task'.verified = {} /\ task'.done = 0 /\ task'.failed = 0
      /\ At({"load"})' /\ ~At(RunPCs \cup {"idle", "dispatch", "finish", "died"})'
  <2>1. << >> \in Seq(Vms)
    OBVIOUS
  <2>2. /\ task' \in TaskRecords /\ task'.pc = "load" /\ task'.row = r /\ task'.verified = {}
        /\ task'.done = 0 /\ task'.failed = 0
    BY <1>1, <1>3, <2>1 DEF TaskRecords, PCs, Idle
  <2> QED BY <2>2 DEF At, RunPCs
<1>5. /\ DOMAIN rows' = DOMAIN rows /\ \A q \in DOMAIN rows : q # r => rows'[q] = rows[q]
      /\ rows'[r] \in RowRecords /\ rows'[r].status = "RUNNING" /\ ~rows'[r].collected
      /\ rows'[r].first = rows[r].first /\ rows'[r].last = rows[r].last /\ rows'[r].done = rows[r].done
  <2>1. PICK e : e = [rows[r] EXCEPT !.status = "RUNNING", !.collected = FALSE]
    OBVIOUS
  <2>2. /\ e \in RowRecords /\ e.status = "RUNNING" /\ ~e.collected
        /\ e.first = rows[r].first /\ e.last = rows[r].last /\ e.done = rows[r].done
    BY <1>2, <2>1 DEF RowRecords, RowStatus
  <2>3. DOMAIN rows' = DOMAIN rows /\ \A q \in DOMAIN rows : q # r => rows'[q] = rows[q]
    BY <1>1
  <2>4. rows'[r] = e
    BY <1>1, <2>1
  <2> QED BY <2>2, <2>3, <2>4
<1>6. /\ DOMAIN tracker' = Ids
      /\ \A i \in Ids : tracker'[i] = IF i \in RowRuns(rows[r]) THEN FreshEntry(plan.runs[i]) ELSE tracker[i]
  BY <1>1, <1>2
<1>7. /\ Ids' = Ids /\ PlanMade' /\ Row' = rows'[r] /\ RowRuns(Row)' = RowRuns(rows[r]) /\ plan' = plan
      /\ \A q \in DOMAIN rows : RowRuns(rows[q])' = RowRuns(rows[q])
  <2>1. \A q \in DOMAIN rows : rows'[q].first = rows[q].first /\ rows'[q].last = rows[q].last
    BY <1>5
  <2> QED BY <1>1, <1>3, <1>4, <2>1, PlanKept DEF Row, RowRuns
<1>8. Planned'
  <2>1. \A q \in DOMAIN rows : rows'[q].first = rows[q].first /\ rows'[q].last = rows[q].last
    BY <1>5
  <2> QED BY <1>3, <1>5, <1>7, <2>1 DEF Planned, WholeRow, RowPerRun
<1>9. \A i \in RowRuns(rows[r]) : tracker[i].status = "PENDING"
  BY DEF IInv, Story, InOrder
<1>10. ASSUME NEW i \in RowRuns(rows[r])
       PROVE  HasShape(tracker'[i], plan.runs[i]) /\ tracker'[i].status = "PENDING" /\ Blank(i)'
  <2>1. tracker'[i] = FreshEntry(plan.runs[i])
    BY <1>3, <1>6
  <2>2. \A p \in PhasesIn(i) : /\ FreshEntry(plan.runs[i]).phases[p].status = "PENDING"
                               /\ \A a \in ActionsIn(i, p) : FreshEntry(plan.runs[i]).phases[p].actions[a] = "PENDING"
    BY FreshShape DEF PhasesIn, ActionsIn
  <2>3. \A p \in PhasesIn(i) : BlankPhase(i, p)'
    BY <1>7, <2>1, <2>2 DEF BlankPhase, PhaseStatus, ActionStatus, ActionsIn
  <2>4. Blank(i)'
    BY <1>7, <2>3 DEF Blank, PhasesIn
  <2> QED BY <2>1, <2>4, FreshShape
<1>11. ASSUME NEW i \in Ids, i \notin RowRuns(rows[r])
       PROVE  /\ tracker'[i] = tracker[i]
              /\ Blank(i)' = Blank(i) /\ Complete(i)' = Complete(i) /\ Stopped(i)' = Stopped(i)
  <2>1. tracker'[i] = tracker[i]
    BY <1>6, <1>11
  <2> QED BY <1>7, <2>1, DetailKept
<1>12. VmTyped' /\ ExecutorState' /\ KnowsItsVm' /\ exec' = exec
  BY <1>1, <1>2, MachineRests DEF IInv, Executing, Truthful, execVars
<1>13. Typed'
  <2>1. \A q \in DOMAIN rows' : rows'[q] \in RowRecords
    BY <1>2, <1>5 DEF Typed
  <2>2. \A i \in Ids : HasShape(tracker'[i], plan'.runs[i])
    BY <1>2, <1>7, <1>10, <1>11
  <2> QED BY <1>1, <1>2, <1>4, <1>6, <1>7, <1>12, <2>1, <2>2 DEF Typed
<1>14. Placed'
  BY <1>4, <1>5 DEF Placed, At, RunPCs, PhasePCs
<1>15. Executing'
  BY <1>3, <1>4, <1>12 DEF Executing, At
<1>16. Truthful'
  BY <1>4, <1>12 DEF IInv, Truthful
<1>17. /\ NoFailedRun' => NoFailedRun
       /\ NoFailedRun => NoFailedRun'
  <2>1. \A i \in Ids : (tracker'[i].status = "FAILED") = (tracker[i].status = "FAILED")
    BY <1>9, <1>10, <1>11
  <2> QED BY <1>7, <2>1 DEF NoFailedRun
<1>18. Alone'
  BY <1>1, <1>3, <1>17, AloneKept DEF IInv
<1>19. (\A i \in Ids : Told(i))'
  <2>1. SUFFICES ASSUME NEW i \in Ids PROVE Told(i)'
    BY <1>7
  <2>2. Told(i) /\ tracker[i].status # "RUNNING"
    BY <1>3 DEF IInv, Story, Told, At, RunPCs
  <2>3. CASE i \in RowRuns(rows[r])
    BY <1>10, <2>3 DEF Told
  <2>4. CASE i \notin RowRuns(rows[r])
    BY <1>11, <2>2, <2>4 DEF Told
  <2> QED BY <2>3, <2>4
<1>20. Underway'
  BY <1>4 DEF Underway, At, RunPCs
<1>21. InRow'
  <2>1. \A i \in RowRuns(Row)' : tracker'[i].status = "PENDING"
    BY <1>7, <1>10
  <2>2. RunsWith(Row, "SUCCEEDED")' = {} /\ RunsWith(Row, "FAILED")' = {}
    BY <2>1 DEF RunsWith
  <2>3. Cardinality(RunsWith(Row, "SUCCEEDED"))' = 0 /\ Cardinality(RunsWith(Row, "FAILED"))' = 0
    BY <2>2, FS_EmptySet
  <2> QED BY <1>4, <2>1, <2>3 DEF InRow, At, RunPCs
<1>22. CollectedSoFar'
  <2>1. ASSUME NEW i \in RowRuns(rows[r]), NEW p \in PhasesIn(i), NEW a \in ActionsIn(i, p)
        PROVE  ActionStatus(i, p, a)' = "PENDING"
    BY <1>1, <1>10, PlanKept DEF Blank, BlankPhase
  <2> QED BY <1>1, <1>7, <2>1, PlanKept DEF CollectedSoFar
<1>23. InOrder'
  <2>1. \A q \in DOMAIN rows : q # r => rows[q].status # "RUNNING"
    <3>1. SUFFICES ASSUME NEW q \in DOMAIN rows, q # r PROVE rows[q].status # "RUNNING"
      OBVIOUS
    <3>2. q \in Nat
      BY <1>3 DEF RowsPartition
    <3>3. q < r \/ q > r
      BY <1>3, <3>1, <3>2
    <3> QED BY <3>3 DEF Finished
  <2>2. ASSUME NEW q \in DOMAIN rows, q # r
        PROVE  /\ rows'[q].status = "PENDING" => \A i \in RowRuns(rows[q])' : tracker'[i].status = "PENDING"
               /\ rows'[q].status \notin Finished => ~rows'[q].collected /\ rows'[q].done = 0
               /\ rows'[q].status # "RUNNING"
               /\ rows'[q].status \in Finished => RowAgrees(rows[q])' /\ \A i \in RowRuns(rows[q])' : tracker'[i].status # "RUNNING"
               /\ rows'[q].collected => AllCollected(rows[q])'
    <3>1. rows'[q] = rows[q] /\ RowRuns(rows[q])' = RowRuns(rows[q])
      BY <1>5, <1>7, <2>2
    <3>2. \A i \in RowRuns(rows[q]) : i \in Ids /\ i \notin RowRuns(rows[r])
      BY <1>3, <2>2 DEF RowsPartition
    <3>3. \A i \in RowRuns(rows[q]) : tracker'[i] = tracker[i]
      BY <1>11, <3>2
    <3>4. \A s : RunsWith(rows[q], s)' = RunsWith(rows[q], s)
      BY <3>1, <3>3 DEF RunsWith
    <3>5. RowAgrees(rows[q])' = RowAgrees(rows[q])
      BY <3>1, <3>4 DEF RowAgrees
    <3>6. \A i \in RowRuns(rows[q]) : StepsOf(i)' = StepsOf(i) /\ \A x : StatusOf(i, x)' = StatusOf(i, x)
      BY <1>7, <3>3 DEF StepsOf, StatusOf
    <3>7. AllCollected(rows[q])' = AllCollected(rows[q])
      <4>1. plan' = plan /\ RowRuns(rows[q])' = RowRuns(rows[q])
        BY <1>1, <3>1
      <4>2. \A i \in RowRuns(rows[q]) : StepsOf(i)' = StepsOf(i)
        BY <3>6
      <4>3. \A i \in RowRuns(rows[q]) : \A x : StatusOf(i, x)' = StatusOf(i, x)
        BY <3>6
      <4> QED BY <4>1, <4>2, <4>3 DEF AllCollected
    <3>8. /\ rows[q].status = "PENDING" => \A i \in RowRuns(rows[q]) : tracker[i].status = "PENDING"
          /\ rows[q].status \notin Finished => ~rows[q].collected /\ rows[q].done = 0
          /\ rows[q].status \in Finished => RowAgrees(rows[q]) /\ \A i \in RowRuns(rows[q]) : tracker[i].status # "RUNNING"
          /\ rows[q].collected => AllCollected(rows[q])
      BY DEF IInv, Story, InOrder
    <3> QED BY <2>1, <2>2, <3>1, <3>3, <3>5, <3>7, <3>8
  <2>3. \A q \in DOMAIN rows : /\ q < r => rows'[q].status \in Finished
                               /\ q > r => rows'[q].status = "PENDING"
    <3>1. SUFFICES ASSUME NEW q \in DOMAIN rows, q < r \/ q > r
                   PROVE  /\ q < r => rows'[q].status \in Finished
                          /\ q > r => rows'[q].status = "PENDING"
      OBVIOUS
    <3>2. q # r
      <4>1. q \in Nat
        BY <1>3 DEF RowsPartition
      <4> QED BY <1>3, <3>1, <4>1
    <3> QED BY <1>5, <3>2
  <2>4. rows'[r].done = 0
    BY <1>5 DEF IInv, Story, InOrder, Finished
  <2>5. ~At({"idle"})' /\ ~At({"dispatch"})'
    BY <1>4 DEF At
  <2>6. \A q \in DOMAIN rows :
          /\ rows'[q].status = "PENDING" => \A i \in RowRuns(rows[q])' : tracker'[i].status = "PENDING"
          /\ rows'[q].status \notin Finished => ~rows'[q].collected /\ rows'[q].done = 0
          /\ rows'[q].status = "RUNNING" => q = r
          /\ rows'[q].status \in Finished => RowAgrees(rows[q])' /\ \A i \in RowRuns(rows[q])' : tracker'[i].status # "RUNNING"
          /\ rows'[q].collected => AllCollected(rows[q])'
    BY <1>5, <2>2, <2>4 DEF Finished
  <2> QED BY <1>4, <1>5, <1>7, <2>3, <2>5, <2>6 DEF InOrder
<1>24. StopsAtFailure'
  <2>1. plan.stop => NoFailedRun'
    BY <1>17
  <2>2. ~At({"finish"})' /\ ~At({"dispatch"})'
    BY <1>4 DEF At
  <2>3. plan.stop => \A i \in Ids : tracker'[i].status # "FAILED"
    BY <1>7, <2>1 DEF NoFailedRun
  <2> QED BY <1>7, <2>1, <2>2, <2>3 DEF StopsAtFailure
<1> QED BY <1>8, <1>13, <1>14, <1>15, <1>16, <1>18, <1>19, <1>20, <1>21, <1>22, <1>23, <1>24 DEF IInv, Story

\* Start keeps it: the first row's task begins while nothing was begun.
LEMMA StartStep ==
  ASSUME IInv, Start
  PROVE  IInv'
<1>1. /\ task.pc = "idle" /\ rows # << >> /\ BeginTask(1)
      /\ \A r \in DOMAIN rows : rows[r].status = "PENDING"
  BY DEF Start
<1>2. PlanMade /\ (WholeRow \/ RowPerRun)
  BY <1>1 DEF IInv, Planned, NothingYet
<1>3. RowsPartition /\ 1 \in DOMAIN rows
  <2>1. CASE WholeRow
    BY <1>2, <2>1, RowFacts DEF WholeRow
  <2>2. CASE RowPerRun
    <3>1. Ids = 1..Len(plan.runs) /\ Len(plan.runs) \in Nat \ {0}
      BY <1>2, PlanFacts
    <3>2. 1 \in Ids
      BY <3>1
    <3> QED BY <1>2, <2>2, <3>2, RowFacts DEF RowPerRun
  <2> QED BY <1>2, <2>1, <2>2
<1>4. NoFailedRun
  <2>1. SUFFICES ASSUME NEW i \in Ids PROVE tracker[i].status = "PENDING"
    BY DEF NoFailedRun
  <2>2. PICK r \in DOMAIN rows : i \in RowRuns(rows[r])
    BY <1>3 DEF RowsPartition
  <2> QED BY <1>1, <2>2 DEF IInv, Story, InOrder
<1>5. \A q \in DOMAIN rows : ~(q < 1)
  BY <1>3 DEF RowsPartition
<1>6. At({"idle", "dispatch"})
  BY <1>1 DEF At
<1>7. PICK r : r = 1
  OBVIOUS
<1>8. /\ r \in DOMAIN rows /\ rows[r].status = "PENDING" /\ BeginTask(r)
      /\ \A q \in DOMAIN rows : (q < r => rows[q].status \in Finished) /\ (q > r => rows[q].status = "PENDING")
  BY <1>1, <1>3, <1>5, <1>7
<1> QED BY <1>4, <1>6, <1>8, BeginTaskStep

\* DispatchNext keeps it: the next row is begun only where nothing before it
\* failed, or failures do not stop.
LEMMA DispatchNextStep ==
  ASSUME IInv, DispatchNext
  PROVE  IInv'
<1>1. task.pc = "dispatch" /\ MayDispatch /\ PendingRows # {} /\ BeginTask(Min(PendingRows))
  BY DEF DispatchNext
<1>2. At({"dispatch"}) /\ At({"idle", "dispatch"}) /\ ~At({"idle"})
  BY <1>1 DEF At
<1>3. RowsPartition /\ task.row \in DOMAIN rows
  BY <1>2, Standing DEF IInv
<1>4. DOMAIN rows \subseteq Nat
  BY <1>3 DEF RowsPartition
<1>5. PICK r : r = Min(PendingRows)
  OBVIOUS
<1>6. PendingRows \in SUBSET Nat
  BY <1>4 DEF PendingRows
<1>7. r \in PendingRows /\ \A q \in PendingRows : r <= q
  <2>1. \E x \in PendingRows : \A y \in PendingRows : x <= y
    BY <1>1, <1>6, Least
  <2> QED BY <1>5, <2>1 DEF Min
<1>8. r \in DOMAIN rows /\ rows[r].status = "PENDING" /\ BeginTask(r)
  BY <1>1, <1>5, <1>7 DEF PendingRows
<1>9. /\ \A q \in DOMAIN rows : /\ q < task.row => rows[q].status \in Finished
                                /\ q > task.row => rows[q].status = "PENDING"
      /\ rows[task.row].status \in Finished
  BY <1>2 DEF IInv, Story, InOrder, Row
<1>10. r > task.row
  BY <1>3, <1>4, <1>8, <1>9 DEF Finished
<1>11. \A q \in DOMAIN rows : (q < r => rows[q].status \in Finished) /\ (q > r => rows[q].status = "PENDING")
  <2>1. SUFFICES ASSUME NEW q \in DOMAIN rows
                 PROVE  (q < r => rows[q].status \in Finished) /\ (q > r => rows[q].status = "PENDING")
    OBVIOUS
  <2>2. q \in Nat /\ r \in Nat /\ task.row \in Nat
    BY <1>3, <1>4, <1>8
  <2>3. q < r => rows[q].status # "PENDING"
    BY <1>7, <2>2 DEF PendingRows
  <2>4. q < task.row \/ q = task.row \/ q > task.row
    BY <2>2
  <2>5. q > r => q > task.row
    BY <1>10, <2>2
  <2> QED BY <1>9, <2>3, <2>4, <2>5
<1>12. plan.stop => NoFailedRun
  BY <1>1, <1>2 DEF IInv, Story, StopsAtFailure, MayDispatch
<1> QED BY <1>2, <1>8, <1>11, <1>12, BeginTaskStep


\* The story of tracker and rows is not touched by what happens on the VMs.
LEMMA StoryRests ==
  ASSUME UNCHANGED <<spec, plan, rows, tracker, task>>
  PROVE  Story' = Story
<1>1. Ids' = Ids
  BY DEF Ids
<1>2. (\A i \in Ids : Told(i))' = (\A i \in Ids : Told(i))
  <2>1. \A i : Told(i)' = Told(i)
    BY TrackerRests DEF Told, At
  <2> QED BY <1>1, <2>1
<1>3. Underway' = Underway
  BY DEF Underway, At, Blank, Complete, DonePhase, BlankPhase, StoppedAt, UpTo, PhaseStatus, ActionStatus, PhasesIn, ActionsIn,
         Phase, Run
<1>4. InRow' = InRow
  BY DEF InRow, At, Row, RowRuns, RunsWith
<1>5. CollectedSoFar' = CollectedSoFar
  BY DEF CollectedSoFar, At, Row, RowRuns, PhasesIn, ActionsIn, ActionStatus, IsCollect
<1>6. InOrder' = InOrder
  BY DEF InOrder, At, Row, RowRuns, RowAgrees, RunsWith, AllCollected, StepsOf, StatusOf
<1>7. StopsAtFailure' = StopsAtFailure
  BY <1>1 DEF StopsAtFailure, At, Row, NoFailedRun, Blank, BlankPhase, PhaseStatus, ActionStatus, PhasesIn, ActionsIn
<1> QED BY <1>2, <1>3, <1>4, <1>5, <1>6, <1>7 DEF Story

\* A command goes on, or a container moves.
LEMMA MachineMoves ==
  ASSUME IInv, ExecStep \/ SenderEnds \/ Crash, UNCHANGED <<spec, plan, rows, tracker, task, vmRows>>
  PROVE  IInv'
<1>1. Typed /\ VmTyped /\ ExecutorState /\ KnowsItsVm
  BY DEF IInv, Typed, Executing, Truthful
<1>2. /\ VmTyped' /\ ExecutorState' /\ KnowsItsVm' /\ SendersKept
      /\ (exec'.step # "idle") = (exec.step # "idle") /\ exec'.vm = exec.vm /\ exec'.kind = exec.kind
  BY <1>1, MachineStep
<1>3. Planned' /\ NoFailedRun' = NoFailedRun /\ LeftBehind' = LeftBehind
  <2>1. Planned'
    BY PlanKept DEF IInv, Planned, NothingYet, WholeRow, RowPerRun
  <2> QED BY <2>1, TrackerRests DEF LeftBehind, At
<1>4. Typed'
  BY <1>1, <1>2, PlanKept DEF Typed
<1>5. Placed'
  BY DEF IInv, Placed, At, Row, Run, Phase, RowRuns
<1>6. Executing'
  BY <1>2 DEF IInv, Executing, At
<1>7. Truthful'
  BY <1>2 DEF IInv, Truthful
<1>8. Alone'
  <2>1. SUFFICES ASSUME faults' = 0, NoFailedRun'
                 PROVE  /\ \A v, w \in Vms : SenderUp(v)' /\ SenderUp(w)' => v = w
                        /\ \A v \in Vms : SenderUp(v)' => (Awaited' /\ v = exec'.vm) \/ LeftBehind'
    BY DEF Alone
  <2>2. /\ \A v, w \in Vms : SenderUp(v) /\ SenderUp(w) => v = w
        /\ \A v \in Vms : SenderUp(v) => (Awaited /\ v = exec.vm) \/ LeftBehind
    BY <1>2, <1>3, <2>1 DEF IInv, Alone, SendersKept
  <2>3. \A v \in Vms : SenderUp(v)' => \/ SenderUp(v) /\ (Awaited /\ v = exec.vm => Awaited')
                                       \/ v = exec.vm /\ exec.step = "command" /\ Awaited'
    BY <1>2, <2>1 DEF SendersKept
  <2>4. exec.step = "command" => ~Awaited /\ ~LeftBehind
    BY DEF IInv, Executing, Awaited, LeftBehind, At
  <2>5. \A v, w \in Vms : SenderUp(v)' /\ SenderUp(w)' => v = w
    BY <2>2, <2>3, <2>4
  <2>6. \A v \in Vms : SenderUp(v)' => (Awaited' /\ v = exec'.vm) \/ LeftBehind'
    BY <1>2, <1>3, <2>2, <2>3
  <2> QED BY <2>5, <2>6
<1>9. Story'
  BY StoryRests DEF IInv
<1> QED BY <1>3, <1>4, <1>5, <1>6, <1>7, <1>8, <1>9 DEF IInv


\* Generate establishes the plan, its rows and its fresh tracker.
LEMMA GenerateStep ==
  ASSUME IInv, Generate
  PROVE  IInv'
<1>1. /\ rows = << >> /\ UNCHANGED <<execVars, task, vmRows>>
      /\ \E s \in {x \in Specs : Compiles(x)}, whole \in BOOLEAN :
           /\ spec' = s /\ plan' = CompiledPlan(s)
           /\ rows' = IF whole THEN <<RowFor(1, Len(CompiledPlan(s).runs))>>
                               ELSE [i \in DOMAIN CompiledPlan(s).runs |-> RowFor(i, i)]
           /\ tracker' = [i \in DOMAIN CompiledPlan(s).runs |-> FreshEntry(CompiledPlan(s).runs[i])]
  BY DEF Generate
<1>2. PICK s \in Specs, whole \in BOOLEAN :
           /\ Compiles(s)
           /\ spec' = s /\ plan' = CompiledPlan(s)
           /\ rows' = IF whole THEN <<RowFor(1, Len(CompiledPlan(s).runs))>>
                               ELSE [i \in DOMAIN CompiledPlan(s).runs |-> RowFor(i, i)]
           /\ tracker' = [i \in DOMAIN CompiledPlan(s).runs |-> FreshEntry(CompiledPlan(s).runs[i])]
  BY <1>1
<1>3. NothingYet
  <2>1. CASE PlanMade /\ WholeRow
    BY <1>1, <2>1 DEF WholeRow
  <2>2. CASE PlanMade /\ RowPerRun
    <3>1. Ids = 1..Len(plan.runs) /\ Len(plan.runs) \in Nat \ {0}
      BY <2>2, PlanFacts
    <3>2. 1 \in DOMAIN rows
      BY <2>2, <3>1 DEF RowPerRun
    <3> QED BY <1>1, <3>2
  <2> QED BY <2>1, <2>2 DEF IInv, Planned
<1>4. PICK runs : runs = CompiledPlan(s).runs
  OBVIOUS
<1>5. PICK n : n = Len(runs)
  OBVIOUS
<1>6. /\ Ids' = 1..n /\ n \in Nat \ {0} /\ plan'.runs = runs
      /\ rows' = (IF whole THEN <<RowFor(1, n)>> ELSE [i \in 1..n |-> RowFor(i, i)])
      /\ tracker' = [i \in 1..n |-> FreshEntry(runs[i])]
  <2>1. PlanIsFormed(s, CompiledPlan(s))
    BY <1>2, SpecsAssumption, VmsAreNamed, PlanFormed
  <2>2. DOMAIN runs = 1..n /\ n \in Nat \ {0}
    BY <1>4, <1>5, <2>1 DEF PlanIsFormed
  <2>3. plan'.runs = runs
    BY <1>2, <1>4
  <2>4. /\ rows' = (IF whole THEN <<RowFor(1, n)>> ELSE [i \in 1..n |-> RowFor(i, i)])
        /\ tracker' = [i \in 1..n |-> FreshEntry(runs[i])]
    BY <1>2, <1>4, <1>5, <2>2
  <2> QED BY <2>2, <2>3, <2>4 DEF Ids
<1>7. PlanMade'
  BY <1>2 DEF PlanMade
<1>8. ASSUME NEW r \in DOMAIN rows'
      PROVE  rows'[r] \in RowRecords /\ rows'[r].status = "PENDING" /\ rows'[r].done = 0 /\ ~rows'[r].collected
  <2>1. \A a, b \in 1..n : /\ RowFor(a, b) \in RowRecords /\ RowFor(a, b).status = "PENDING"
                           /\ RowFor(a, b).done = 0 /\ ~RowFor(a, b).collected
    BY <1>6 DEF RowFor, RowRecords, RowStatus
  <2>2. \E a, b \in 1..n : rows'[r] = RowFor(a, b)
    <3>1. CASE whole
      <4>1. rows' = <<RowFor(1, n)>>
        BY <1>6, <3>1
      <4>2. r = 1 /\ rows'[r] = RowFor(1, n)
        BY <1>8, <4>1
      <4>3. 1 \in 1..n /\ n \in 1..n
        BY <1>6
      <4> QED BY <4>2, <4>3
    <3>2. CASE ~whole
      <4>1. rows' = [i \in 1..n |-> RowFor(i, i)]
        BY <1>6, <3>2
      <4> QED BY <1>8, <4>1
    <3> QED BY <3>1, <3>2
  <2> QED BY <2>1, <2>2
<1>9. Planned'
  <2>1. CASE whole
    <3>1. rows' = <<RowFor(1, n)>>
      BY <1>6, <2>1
    <3>2. DOMAIN rows' = {1} /\ rows'[1].first = 1 /\ rows'[1].last = n
      BY <3>1 DEF RowFor
    <3>3. WholeRow'
      BY <1>5, <1>6, <3>2 DEF WholeRow
    <3> QED BY <1>7, <3>3 DEF Planned
  <2>2. CASE ~whole
    <3>1. rows' = [i \in 1..n |-> RowFor(i, i)]
      BY <1>6, <2>2
    <3>2. DOMAIN rows' = 1..n /\ \A r \in 1..n : rows'[r].first = r /\ rows'[r].last = r
      BY <3>1 DEF RowFor
    <3>3. RowPerRun'
      BY <1>6, <3>2 DEF RowPerRun
    <3> QED BY <1>7, <3>3 DEF Planned
  <2> QED BY <2>1, <2>2
<1>10. ASSUME NEW i \in 1..n
       PROVE  HasShape(tracker'[i], plan'.runs[i]) /\ tracker'[i].status = "PENDING" /\ Blank(i)'
  <2>1. tracker'[i] = FreshEntry(runs[i]) /\ plan'.runs[i] = runs[i]
    BY <1>6
  <2>2. \A p \in DOMAIN runs[i].phases :
          /\ FreshEntry(runs[i]).phases[p].status = "PENDING"
          /\ \A a \in DOMAIN runs[i].phases[p].actions : FreshEntry(runs[i]).phases[p].actions[a] = "PENDING"
    BY FreshShape
  <2>3. \A p \in DOMAIN runs[i].phases : BlankPhase(i, p)'
    BY <2>1, <2>2 DEF BlankPhase, PhaseStatus, ActionStatus, ActionsIn
  <2>4. Blank(i)'
    BY <2>1, <2>3 DEF Blank, PhasesIn
  <2> QED BY <2>1, <2>4, FreshShape
<1>11. task = Idle /\ task' = Idle /\ task'.pc = "idle" /\ task'.verified = {} /\ At({"idle"})' /\ ~At(PCs \ {"idle"})'
  <2>1. task' = task
    BY <1>1
  <2> QED BY <1>3, <2>1 DEF NothingYet, Idle, At, PCs
<1>12. Typed /\ VmTyped' /\ ExecutorState' /\ KnowsItsVm' /\ exec' = exec
  BY <1>1, MachineRests DEF IInv, Typed, Executing, Truthful, execVars
<1>13. Typed'
  <2>1. \A r \in DOMAIN rows' : rows'[r] \in RowRecords
    BY <1>8
  <2>2. DOMAIN tracker' = 1..n /\ \A i \in 1..n : HasShape(tracker'[i], plan'.runs[i])
    BY <1>6, <1>10
  <2> QED BY <1>1, <1>6, <1>12, <2>1, <2>2 DEF Typed
<1>14. Placed'
  BY <1>11 DEF Placed, At, PCs, RunPCs, PhasePCs
<1>15. Executing'
  BY <1>1, <1>12 DEF IInv, Executing, At
<1>16. Truthful'
  BY <1>11, <1>12 DEF IInv, Truthful
<1>17. NoFailedRun /\ NoFailedRun'
  <2>1. Ids = {}
    BY <1>3 DEF NothingYet, NoPlan, Ids
  <2> QED BY <1>6, <1>10, <2>1 DEF NoFailedRun
<1>18. Alone'
  <2>1. ~LeftBehind
    BY <1>3 DEF NothingYet, Idle, LeftBehind, At
  <2> QED BY <1>1, <1>17, <2>1, AloneKept DEF IInv
<1>19. (\A i \in Ids : Told(i))'
  <2>1. SUFFICES ASSUME NEW i \in 1..n PROVE Told(i)'
    BY <1>6
  <2> QED BY <1>10 DEF Told
<1>20. Underway' /\ InRow' /\ CollectedSoFar'
  BY <1>11 DEF Underway, InRow, CollectedSoFar, At, PCs, RunPCs
<1>21. InOrder'
  <2>1. \A r \in DOMAIN rows' : RowRuns(rows[r])' \subseteq 1..n
    <3>1. SUFFICES ASSUME NEW r \in DOMAIN rows', NEW i \in RowRuns(rows[r])' PROVE i \in 1..n
      OBVIOUS
    <3>2. i \in rows'[r].first..rows'[r].last
      BY <3>1 DEF RowRuns
    <3>3. CASE whole
      <4>1. rows' = <<RowFor(1, n)>>
        BY <1>6, <3>3
      <4>2. rows'[r].first = 1 /\ rows'[r].last = n
        BY <4>1 DEF RowFor
      <4> QED BY <3>2, <4>2
    <3>4. CASE ~whole
      <4>1. rows' = [j \in 1..n |-> RowFor(j, j)]
        BY <1>6, <3>4
      <4>2. r \in 1..n /\ rows'[r].first = r /\ rows'[r].last = r
        BY <4>1 DEF RowFor
      <4> QED BY <1>6, <3>2, <4>2
    <3> QED BY <3>3, <3>4
  <2>2. \A r \in DOMAIN rows' : \A i \in RowRuns(rows[r])' : tracker'[i].status = "PENDING"
    BY <1>10, <2>1
  <2> QED BY <1>8, <1>11, <2>2 DEF InOrder, Finished
<1>22. StopsAtFailure'
  <2>1. \A i \in Ids' : tracker'[i].status # "FAILED"
    BY <1>6, <1>10
  <2>2. ~At(RunPCs \cup {"load"})' /\ ~At({"finish"})' /\ ~At({"dispatch"})'
    BY <1>11 DEF At, PCs, RunPCs
  <2> QED BY <2>1, <2>2 DEF StopsAtFailure
<1> QED BY <1>9, <1>13, <1>14, <1>15, <1>16, <1>18, <1>19, <1>20, <1>21, <1>22 DEF IInv, Story

-----------------------------------------------------------------------------
(* The invariant holds in every state of a behaviour *)

\* Nothing has been generated and nothing runs.
LEMMA InitIsSound == Init => IInv
<1> SUFFICES ASSUME Init PROVE IInv
  OBVIOUS
<1>1. /\ box = [v \in Vms |-> [c \in Containers |-> "absent"]] /\ exec = NoExecutor /\ faults = 0
      /\ spec = NoSpec /\ plan = NoPlan /\ rows = << >> /\ tracker = << >> /\ task = Idle
      /\ vmRows = [v \in Vms |-> [status |-> "UNKNOWN", ready |-> FALSE]]
  BY DEF Init, ExecInit
<1>2. Planned
  BY <1>1 DEF Planned, NothingYet
<1>3. Ids = {} /\ DOMAIN rows = {} /\ DOMAIN tracker = {}
  BY <1>1 DEF Ids, NoPlan
<1>4. /\ exec.kind = "wait" /\ exec.vm = 0 /\ exec.step = "idle" /\ exec.names = {} /\ exec.todo = {}
      /\ exec.left = 0 /\ exec.ok = FALSE
  BY <1>1 DEF NoExecutor
<1>5. Typed
  <2>1. exec \in ExecRecords
    BY <1>1, VmConstants DEF NoExecutor, ExecRecords, Executors
  <2>2. box \in [Vms -> [Containers -> ContainerStates]]
    BY <1>1, VmConstants
  <2>3. faults \in 0..MaxFaults
    BY <1>1, VmConstants
  <2>4. task \in TaskRecords
    <3>1. << >> \in Seq(Vms)
      OBVIOUS
    <3> QED BY <1>1, <3>1 DEF TaskRecords, PCs, Idle
  <2>5. vmRows \in [Vms -> VmRecords]
    BY <1>1 DEF VmRecords
  <2> QED BY <1>3, <2>1, <2>2, <2>3, <2>4, <2>5 DEF Typed, VmTyped
<1>6. task.pc = "idle" /\ task.verified = {}
  BY <1>1 DEF Idle
<1>7. Placed
  BY <1>6 DEF Placed, At, RunPCs, PhasePCs
<1>8. Executing
  BY <1>1, <1>4, <1>6 DEF Executing, ExecutorState, At, CleansProbe
<1>9. Truthful
  BY <1>4, <1>6 DEF Truthful, KnowsItsVm
<1>10. Alone
  <2>1. "sender" \in Containers
    BY VmConstants
  <2>2. \A v \in Vms : ~SenderUp(v)
    BY <1>1, <2>1 DEF SenderUp
  <2> QED BY <2>2 DEF Alone
<1>11. Story
  BY <1>3, <1>6 DEF Story, Underway, InRow, CollectedSoFar, InOrder, StopsAtFailure, At, RunPCs
<1> QED BY <1>2, <1>5, <1>7, <1>8, <1>9, <1>10, <1>11 DEF IInv

\* Nothing changes when nothing happens.
LEMMA StutterKeeps ==
  ASSUME IInv, UNCHANGED vars
  PROVE  IInv'
<1>1. UNCHANGED execVars /\ UNCHANGED <<spec, plan, rows, tracker, task, vmRows>>
  BY DEF vars
<1>2. Typed' /\ Placed' /\ Executing' /\ Truthful'
  <2>1. VmTyped' /\ ExecutorState' /\ KnowsItsVm'
    BY <1>1, MachineRests DEF IInv, Typed, Executing, Truthful
  <2>2. Typed'
    BY <1>1, <2>1, PlanKept DEF IInv, Typed
  <2>3. Placed'
    BY <1>1 DEF IInv, Placed, At, Row, Run, Phase, RowRuns
  <2>4. Executing' /\ Truthful'
    BY <1>1, <2>1 DEF IInv, Executing, Truthful, At, execVars
  <2> QED BY <2>2, <2>3, <2>4
<1>3. Planned' /\ Alone' /\ Story'
  <2>1. Planned'
    BY <1>1, PlanKept DEF IInv, Planned, NothingYet, WholeRow, RowPerRun
  <2>2. Alone'
    BY <1>1, TrackerRests, AloneKept DEF IInv, LeftBehind, At
  <2> QED BY <1>1, <2>1, <2>2, StoryRests DEF IInv
<1> QED BY <1>2, <1>3 DEF IInv

\* Every step keeps the invariant.
LEMMA StepKeeps == IInv /\ [Next]_vars => IInv'
<1> SUFFICES ASSUME IInv, [Next]_vars PROVE IInv'
  OBVIOUS
<1>1. CASE Generate
  BY <1>1, GenerateStep
<1>2. CASE Start
  BY <1>2, StartStep
<1>3. CASE TaskStep
  BY <1>3, InventoryFailsStep, InventoryResolvedStep, BeginRunStep, RunWithoutEnvironmentStep, BeginPrecheckStep,
     EndPrecheckStep, PrecheckPassedStep, PrecheckFailedStep, BeginPhaseStep, BeginActionStep, ActionRaisesStep,
     EndActionStep, EndPhaseStep, EndRunStep, FinishTaskStep, DispatchNextStep, NothingToDispatchStep
  DEF TaskStep
<1>4. CASE RunCommand
  BY <1>4, MachineMoves DEF RunCommand
<1>5. CASE ContainersMove
  BY <1>5, MachineMoves DEF ContainersMove
<1>6. CASE UNCHANGED vars
  BY <1>6, StutterKeeps
<1> QED BY <1>1, <1>2, <1>3, <1>4, <1>5, <1>6 DEF Next

\* The inductive invariant.
LEMMA IInvHolds == Spec => []IInv
  BY InitIsSound, StepKeeps, PTL DEF Spec


-----------------------------------------------------------------------------
(* What follows from it *)

\* Type correctness is a part of the invariant.
LEMMA TypesFollow == IInv => TypeOK
<1> SUFFICES ASSUME IInv PROVE TypeOK
  OBVIOUS
<1>1. /\ exec \in ExecRecords /\ faults \in 0..MaxFaults /\ box \in [Vms -> [Containers -> ContainerStates]]
      /\ task \in TaskRecords /\ vmRows \in [Vms -> VmRecords]
      /\ \A r \in DOMAIN rows : rows[r] \in RowRecords
      /\ DOMAIN tracker = Ids /\ \A i \in Ids : HasShape(tracker[i], plan.runs[i])
  BY DEF IInv, Typed, VmTyped
<1>2. UNION {RowRuns(rows[r]) : r \in DOMAIN rows} = Ids
  <2>1. CASE NothingYet
    <3>1. DOMAIN rows = {} /\ Ids = {}
      BY <2>1 DEF NothingYet, NoPlan, Ids
    <3> QED BY <3>1
  <2>2. CASE ~NothingYet
    <3>1. RowsPartition
      BY <2>2, RowFacts DEF IInv, Planned
    <3> QED BY <3>1 DEF RowsPartition
  <2> QED BY <2>1, <2>2
<1>3. exec.step \in Steps /\ exec.kind \in Executors /\ exec.left \in 0..MaxPolls
  BY <1>1 DEF ExecRecords
<1>4. task.pc \in PCs /\ task.verified \subseteq Vms
  BY <1>1 DEF TaskRecords
<1>5. \A r \in DOMAIN rows : rows[r].status \in RowStatus
  BY <1>1 DEF RowRecords
<1>6. \A i \in Ids : /\ tracker[i].status \in EntryStatus
                     /\ DOMAIN tracker[i].phases = DOMAIN plan.runs[i].phases
  BY <1>1 DEF HasShape
<1> QED BY <1>1, <1>2, <1>3, <1>4, <1>5, <1>6 DEF TypeOK, VmRecords

\* Statuses are words of their lists, the rows cover the plan, and the tracker has
\* the shape of the plan, in every state of every scenario (ProfilingRun,
\* phase_action_execution_status).
THEOREM TypesAreKept == Spec => []TypeOK
  BY IInvHolds, TypesFollow, PTL

\* The plan is the compiled one, and that has each combination once.
LEMMA CombinationsFollow == IInv => EachCombinationOnce
<1> SUFFICES ASSUME IInv, plan # NoPlan, \A e \in ToSet(RunEdges(spec)) : DistinctValues(MergedAxes(spec, e))
             PROVE  RunsOwedOnce(spec, plan.runs)
  BY DEF EachCombinationOnce
<1>1. spec \in Specs /\ Compiles(spec) /\ plan = CompiledPlan(spec)
  BY DEF IInv, Planned, NothingYet, PlanMade
<1>2. WellFormed(spec)
  BY <1>1, SpecsAssumption
<1>3. WellFormedAxesOf(spec) /\ GraphIsSound
  BY <1>1, <1>2 DEF WellFormed, Compiles
<1> QED BY <1>1, <1>3, CompilesEachOnce

\* The plan a task carries out has each selected edge and each combination of its
\* axes exactly once, when no axis repeats a value (compile_experiment_plan: "Each
\* variant combination runs exactly once").
THEOREM CombinationsRunOnce == Spec => []EachCombinationOnce
  BY IInvHolds, CombinationsFollow, PTL

\* What executors report as success is so on their VM, and who is taken for verified
\* has an inventory row that says so (the executors, _sync_connectivity_result_to_inventory).
THEOREM ReportsHold == Spec => []ReportsAreTrue
<1>1. IInv => ReportsAreTrue
  BY DEF IInv, Truthful, KnowsItsVm, ReportsAreTrue
<1> QED BY <1>1, IInvHolds, PTL

\* Latencies are measured by one sender at a time while nothing went wrong
\* (execute_generated_plan_run_task: runs, phases and actions follow one another).
THEOREM MeasurementsAreAlone == Spec => []MeasuredAlone
<1>1. ASSUME IInv PROVE MeasuredAlone
  <2>1. SUFFICES ASSUME faults = 0, NoFailedRun
                 PROVE  Cardinality({v \in Vms : box[v]["sender"] = "up"}) <= 1
    BY DEF MeasuredAlone, NoFailedRun
  <2> DEFINE up == {v \in Vms : box[v]["sender"] = "up"}
  <2>2. \A v, w \in up : v = w
    BY <1>1, <2>1 DEF IInv, Alone, SenderUp
  <2>3. CASE up = {}
    BY <2>3, FS_EmptySet
  <2>4. CASE up # {}
    <3>1. PICK v : v \in up
      BY <2>4
    <3>2. up = {v}
      BY <2>2, <3>1
    <3> HIDE DEF up
    <3>3. Cardinality(up) = 1
      BY <3>2, FS_Singleton
    <3> QED BY <3>3 DEF up
  <2> QED BY <2>3, <2>4
<1> QED BY <1>1, IInvHolds, PTL

\* The steps of a run are the actions of its phases.
LEMMA StepsAreActions ==
  ASSUME NEW i, NEW x \in StepsOf(i)
  PROVE  \E p \in PhasesIn(i) : \E a \in ActionsIn(i, p) :
           x = <<p, a>> /\ x[1] = p /\ x[2] = a /\ StatusOf(i, x) = ActionStatus(i, p, a)
<1>1. PICK p \in PhasesIn(i) : \E a \in ActionsIn(i, p) : x = <<p, a>>
  BY DEF StepsOf, PhasesIn, ActionsIn
<1>2. PICK a \in ActionsIn(i, p) : x = <<p, a>>
  BY <1>1
<1> QED BY <1>2 DEF StatusOf, ActionStatus

\* A blank run has begun nothing.
LEMMA BlankIsNotBegun ==
  ASSUME NEW i, Blank(i)
  PROVE  \A x \in StepsOf(i) : StatusOf(i, x) = "PENDING"
  BY StepsAreActions DEF Blank, BlankPhase

\* A run that is not under way tells what was done in it.
LEMMA RunsAgree ==
  ASSUME IInv, PlanMade, NEW i \in Ids, tracker[i].status # "RUNNING"
  PROVE  RunAgrees(i)
<1>1. /\ DOMAIN tracker[i].phases = PhasesIn(i) /\ tracker[i].status \in EntryStatus
      /\ \A p \in PhasesIn(i) : tracker[i].phases[p].status = PhaseStatus(i, p)
  BY DEF IInv, Typed, HasShape, PhasesIn, PhaseStatus
<1>2. 1 \in PhasesIn(i) /\ PhasesIn(i) \subseteq Nat /\ \A p \in PhasesIn(i) : ActionsIn(i, p) \subseteq Nat
  BY IdsArePositive
<1>3. Told(i)
  BY DEF IInv, Story
<1>4. CASE tracker[i].status \in {"PENDING", "SKIPPED"}
  <2>1. \A x \in StepsOf(i) : StatusOf(i, x) = "PENDING"
    BY <1>3, <1>4, BlankIsNotBegun DEF Told
  <2>2. PhaseStatus(i, 1) = "PENDING"
    BY <1>2, <1>3, <1>4 DEF Told, Blank, BlankPhase
  <2> QED BY <1>1, <1>2, <1>4, <2>1, <2>2 DEF RunAgrees
<1>5. CASE tracker[i].status = "SUCCEEDED"
  <2>1. Complete(i)
    BY <1>3, <1>5 DEF Told
  <2>2. \A x \in StepsOf(i) : StatusOf(i, x) = "SUCCEEDED"
    BY <2>1, StepsAreActions DEF Complete, DonePhase
  <2>3. \A p \in PhasesIn(i) : PhaseStatus(i, p) = "SUCCEEDED"
    BY <2>1 DEF Complete, DonePhase
  <2> QED BY <1>1, <1>5, <2>2, <2>3 DEF RunAgrees
<1>6. CASE tracker[i].status = "FAILED"
  <2>1. PICK p \in PhasesIn(i) : \E a \in Nat : StoppedAt(i, p, a)
    BY <1>3, <1>6 DEF Told, Stopped
  <2>2. PICK a \in Nat : StoppedAt(i, p, a)
    BY <2>1
  <2>3. ASSUME NEW x \in StepsOf(i), NEW y \in StepsOf(i), Earlier(x, y), StatusOf(i, y) # "PENDING"
        PROVE  StatusOf(i, x) = "SUCCEEDED"
    <3>1. PICK q \in PhasesIn(i) : \E b \in ActionsIn(i, q) : x[1] = q /\ x[2] = b /\ StatusOf(i, x) = ActionStatus(i, q, b)
      BY StepsAreActions
    <3>2. PICK b \in ActionsIn(i, q) : x[1] = q /\ x[2] = b /\ StatusOf(i, x) = ActionStatus(i, q, b)
      BY <3>1
    <3>3. PICK s \in PhasesIn(i) : \E c \in ActionsIn(i, s) : y[1] = s /\ y[2] = c /\ StatusOf(i, y) = ActionStatus(i, s, c)
      BY StepsAreActions
    <3>4. PICK c \in ActionsIn(i, s) : y[1] = s /\ y[2] = c /\ StatusOf(i, y) = ActionStatus(i, s, c)
      BY <3>3
    <3>5. q < s \/ (q = s /\ b < c)
      BY <2>3, <3>2, <3>4 DEF Earlier
    <3>6. /\ p \in Nat /\ q \in Nat /\ s \in Nat /\ b \in Nat /\ c \in Nat
      BY <1>2, <3>2, <3>4
    <3>7. /\ \A o \in PhasesIn(i) : (o < p => DonePhase(i, o)) /\ (o > p => BlankPhase(i, o))
          /\ \A d \in ActionsIn(i, p) : /\ d < a => ActionStatus(i, p, d) = "SUCCEEDED"
                                        /\ d > a => ActionStatus(i, p, d) = "PENDING"
      BY <2>2 DEF StoppedAt, UpTo
    <3>8. ~(s > p)
      BY <2>3, <3>4, <3>7 DEF BlankPhase
    <3>9. CASE q < p
      BY <3>2, <3>7, <3>9 DEF DonePhase
    <3>10. CASE ~(q < p)
      <4>1. q = p /\ s = p /\ b < c
        BY <3>5, <3>6, <3>8, <3>10
      <4>2. ~(c > a)
        BY <2>3, <3>4, <3>7, <4>1
      <4>3. b < a
        BY <3>6, <4>1, <4>2
      <4> QED BY <3>2, <3>7, <4>1, <4>3
    <3> QED BY <3>9, <3>10
  <2>4. PhaseStatus(i, p) # "SUCCEEDED"
    BY <2>2 DEF StoppedAt
  <2> QED BY <1>1, <1>6, <2>3, <2>4 DEF RunAgrees
<1> QED BY <1>1, <1>4, <1>5, <1>6 DEF EntryStatus

\* The story of runs and rows the invariant tells is the one TrackerAgrees asks
\* for.
LEMMA AgreementFollows == IInv => TrackerAgrees
<1> SUFFICES ASSUME IInv PROVE TrackerAgrees
  OBVIOUS
<1>1. ASSUME NEW i \in Ids, \A r \in DOMAIN rows : i \in RowRuns(rows[r]) => rows[r].status \in Finished
      PROVE  RunAgrees(i)
  <2>1. PlanMade /\ RowsPartition
    <3>1. ~NothingYet
      BY <1>1 DEF NothingYet, NoPlan, Ids
    <3> QED BY <3>1, RowFacts DEF IInv, Planned
  <2>2. PICK r \in DOMAIN rows : i \in RowRuns(rows[r])
    BY <2>1 DEF RowsPartition
  <2>3. tracker[i].status # "RUNNING"
    BY <1>1, <2>2 DEF IInv, Story, InOrder
  <2> QED BY <2>1, <2>3, RunsAgree
<1>2. \A r \in DOMAIN rows : /\ rows[r].status \in Finished => RowAgrees(rows[r])
                             /\ rows[r].collected => AllCollected(rows[r])
  BY DEF IInv, Story, InOrder
<1>3. ASSUME plan.stop, NEW i \in Ids, NEW j \in Ids, i < j, tracker[i].status = "FAILED"
      PROVE  ~Begun(j)
  <2>1. Blank(j)
    BY <1>3 DEF IInv, Story, StopsAtFailure
  <2> QED BY <2>1, BlankIsNotBegun DEF Begun
<1> QED BY <1>1, <1>2, <1>3 DEF TrackerAgrees

\* Tracker and rows tell one story: what SUCCEEDED was done to the last action,
\* nothing was begun behind the place a run stopped at, finished rows count what
\* their runs show, and nothing goes on behind a failure that stops
\* (execute_generated_plan_run_task, _build_phase_action_tracker).
THEOREM TrackerAndRowsAgree == Spec => []TrackerAgrees
  BY IInvHolds, AgreementFollows, PTL

=============================================================================
