-------------------------- MODULE ScenarioValidation --------------------------
(***************************************************************************)
(* The validation of one scenario: the REST handlers that upload, delete,  *)
(* clean and validate, and validate_scenario_task, which runs the action,  *)
(* node and graph checks of one ScenarioValidationRun in its own process   *)
(* or, when the broker refuses the message, in the handler's.              *)
(*                                                                         *)
(* Nobody holds a lock: a step is one statement that reads or writes       *)
(* shared rows, and `proc[p].seen` is the copy of the check statuses a     *)
(* process loaded and later writes back for the checks it was not asked    *)
(* to make.  A request that is answered with an error before it writes     *)
(* anything is a stuttering step.                                          *)
(*                                                                         *)
(* A scenario that is uploaded again after its deletion is a new row with  *)
(* a new key that no earlier process refers to: Init of another instance.  *)
(***************************************************************************)
EXTENDS Integers, FiniteSets

CONSTANTS
  Handlers,    \* Hub threads
  Workers,     \* Celery worker slots
  MaxRuns,     \* bound: keys available to ScenarioValidationRun rows
  MaxDeaths,   \* bound: worker processes that die
  Scopes,      \* the scopes clients ask for: which checks, phase and edge
  Requests,    \* the request kinds clients send in this instance
  Faults       \* the faults the environment shows in this instance

Kinds == {"actions", "node", "graph"}
Phases == {"none", "probe", "collect"}
Edges == {"all", "one"}
AllScopes == [kinds : (SUBSET Kinds) \ {{}}, phase : Phases, edge : Edges]

ASSUME ProcsAssumption == Handlers \cap Workers = {}
ASSUME InputsAssumption ==
  /\ MaxRuns \in Nat /\ MaxDeaths \in Nat /\ Scopes \subseteq AllScopes
  /\ Requests \subseteq {"upload", "delete", "clean", "validate"}
  /\ Faults \subseteq {"refuse", "raise"}

Procs == Handlers \cup Workers
RunIds == 1..MaxRuns
NoRun == 0

CheckStatus == {"UNKNOWN", "PENDING", "RUNNING", "PASS", "FAIL"}
ValidationStatus == {"IDLE", "PENDING", "RUNNING", "SUCCEEDED", "FAILED"}
Active == {"PENDING", "RUNNING", "CANCEL_REQUESTED"}
RunStatus == Active \cup {"SUCCEEDED", "FAILED", "CANCELED"}
Checks == [Kinds -> CheckStatus]

VARIABLES
  scen,     \* the Scenario row: its three check statuses and their verdict
  vruns,    \* the ScenarioValidationRun rows by key
  queue,    \* runs with a task message in the broker
  revoked,  \* runs whose task id the workers were told to discard
  ended,    \* runs whose task has a final state in the result backend
  dead,     \* the runs of the worker processes that died
  proc      \* what every handler and worker slot is doing

vars == <<scen, vruns, queue, revoked, ended, dead, proc>>
broker == <<queue, revoked, ended>>

-----------------------------------------------------------------------------
(* Rows and process records *)

Unknown == [k \in Kinds |-> "UNKNOWN"]
Row == [present : BOOLEAN, checks : Checks, verdict : ValidationStatus]

\* Mutant of Computed: the word of a check is stored as the verdict.
ComputedWord(c) ==
  IF \E k \in Kinds : c[k] = "FAIL" THEN "FAIL" ELSE "IDLE"

\* compute_validation_status
Computed(c) ==
  LET in == {c[k] : k \in Kinds}
  IN CASE "RUNNING" \in in -> "RUNNING"
       [] "RUNNING" \notin in /\ "PENDING" \in in -> "PENDING"
       [] in \cap {"RUNNING", "PENDING"} = {} /\ "FAIL" \in in -> "FAILED"
       [] in = {"PASS"} -> "SUCCEEDED"
       [] OTHER -> "IDLE"

\* Every writer computes the verdict from its own copy and saves all three
\* check statuses with it.
Stored(c) == [present |-> TRUE, checks |-> c, verdict |-> Computed(c)]
Fresh == Stored(Unknown)

\* Mutant of SaveChecks: only the requested statuses are saved, and the
\* verdict is still computed from the process's copy.
SaveRequestedChecks(kinds, c) ==
  scen' = [scen EXCEPT !.checks = [k \in Kinds |-> IF k \in kinds THEN c[k] ELSE @[k]],
                       !.verdict = Computed(c)]

SaveChecks(kinds, c) == scen' = Stored(c)

With(c, kinds, s) == [k \in Kinds |-> IF k \in kinds THEN s ELSE c[k]]

RunRows ==
  [st : RunStatus \cup {"UNUSED", "DELETED"}, scope : AllScopes, task : BOOLEAN,
   given : {"no", "clean", "stale"}, collect : BOOLEAN]
Live == {r \in RunIds : vruns[r].st \in RunStatus}
ActiveRuns == {r \in RunIds : vruns[r].st \in Active}
Blank(s) ==
  [st |-> s, task |-> FALSE, given |-> "no", collect |-> FALSE,
   scope |-> [kinds |-> Kinds, phase |-> "none", edge |-> "all"]]
Newest(S, r) == r \in S /\ \A q \in S : q <= r

RequestPCs == {"uploadSave", "uploadFile", "clean", "cancel", "lookup", "release",
               "create", "send", "refused", "saveTask", "mark"}
TaskPCs == {"load", "markScenario", "markRun", "check", "collecting", "saveRun",
            "failScenario", "failRun"}
\* A task that has saved its outcome, and may yet take it back.
AfterPCs == {"saved", "undoScenario", "undoRun"}
ProcRecords ==
  [pc : {"idle"} \cup RequestPCs \cup TaskPCs \cup AfterPCs, run : RunIds \cup {NoRun},
   scope : AllScopes, seen : Checks, todo : SUBSET RunIds, known : SUBSET RunIds,
   left : SUBSET Kinds, ok : BOOLEAN, bad : SUBSET Kinds, src : RunIds \cup {NoRun}]
Idle ==
  [pc |-> "idle", run |-> NoRun, scope |-> Blank("UNUSED").scope, seen |-> Unknown,
   todo |-> {}, known |-> {}, left |-> {}, ok |-> TRUE, bad |-> {}, src |-> NoRun]

Become(p, rec) == proc' = [proc EXCEPT ![p] = rec]
Goto(p, pc) == proc' = [proc EXCEPT ![p].pc = pc]
Return(p) == Become(p, Idle)
At(p, pc) == proc[p].pc = pc
Alive(r) == r \in Live

TaskOf(r) == [Idle EXCEPT !.pc = "load", !.run = r, !.scope = vruns[r].scope]

\* A task that ends, normally or by an exception, in a worker or a handler.
EndTask(p) ==
  /\ Return(p)
  /\ ended' = ended \cup (IF p \in Workers THEN {proc[p].run} ELSE {})
  /\ UNCHANGED <<queue, revoked>>

\* save(update_fields = ...) of a row that is gone raises.
SaveRun(r, row) == vruns' = [vruns EXCEPT ![r] = row]

-----------------------------------------------------------------------------
(* Requests *)

Accept(h, kind) == At(h, "idle") /\ kind \in Requests /\ scen.present

UploadRead(h) ==
  /\ Accept(h, "upload")
  /\ Goto(h, "uploadSave")
  /\ UNCHANGED <<scen, vruns, broker, dead>>

\* scenario_obj.save() writes every field and inserts a row that is gone;
\* cached_yaml_file.save(save=True) does so once more.
UploadSave(h) ==
  /\ proc[h].pc \in {"uploadSave", "uploadFile"}
  /\ scen' = Fresh
  /\ IF At(h, "uploadSave") THEN Goto(h, "uploadFile") ELSE Return(h)
  /\ UNCHANGED <<vruns, broker, dead>>

\* The runs go with the scenario.
Delete(h) ==
  /\ Accept(h, "delete")
  /\ scen' = [Fresh EXCEPT !.present = FALSE]
  /\ vruns' = [r \in RunIds |-> IF r \in Live THEN Blank("DELETED") ELSE vruns[r]]
  /\ UNCHANGED <<broker, dead, proc>>

CleanRead(h) ==
  /\ Accept(h, "clean")
  /\ Become(h, [Idle EXCEPT !.pc = "clean", !.todo = ActiveRuns,
                            !.known = {r \in ActiveRuns : vruns[r].task}])
  /\ UNCHANGED <<scen, vruns, broker, dead>>

\* CANCEL_REQUESTED is saved; a task whose id was known is revoked.
CleanRequest(h, r) ==
  /\ At(h, "clean") /\ Newest(proc[h].todo, r)
  /\ UNCHANGED <<scen, queue, ended, dead>>
  /\ \/ ~Alive(r) /\ Return(h) /\ UNCHANGED <<vruns, revoked>>
     \/ /\ Alive(r)
        /\ SaveRun(r, [vruns[r] EXCEPT !.st = "CANCEL_REQUESTED"])
        /\ revoked' = revoked \cup ({r} \cap proc[h].known)
        /\ Become(h, [proc[h] EXCEPT !.pc = "cancel", !.run = r, !.todo = @ \ {r}])

CleanCancel(h) ==
  LET r == proc[h].run
  IN /\ At(h, "cancel")
     /\ UNCHANGED <<scen, broker, dead>>
     /\ \/ ~Alive(r) /\ Return(h) /\ UNCHANGED vruns
        \/ /\ Alive(r)
           /\ SaveRun(r, [vruns[r] EXCEPT !.st = "CANCELED", !.given = "clean"])
           /\ Goto(h, "clean")

\* _reset_validation_state
CleanReset(h) ==
  /\ At(h, "clean") /\ proc[h].todo = {}
  /\ scen' = IF scen.present THEN Fresh ELSE scen
  /\ Return(h)
  /\ UNCHANGED <<vruns, broker, dead>>

ValidateRead(h, scope) ==
  /\ Accept(h, "validate")
  /\ scope \in Scopes
  /\ \E r \in RunIds : vruns[r].st = "UNUSED"
  /\ Become(h, [Idle EXCEPT !.pc = "lookup", !.scope = scope, !.seen = scen.checks])
  /\ UNCHANGED <<scen, vruns, broker, dead>>

\* A request without an edge also matches a run that checks one edge.
SameScope(s, of) ==
  /\ s.kinds = of.kinds /\ s.phase = of.phase
  /\ s.edge = "one" => of.edge = "one"

\* Mutant of Candidates: a run that is already RUNNING is overlooked.
PendingCandidates(scope) ==
  {r \in ActiveRuns : vruns[r].st = "PENDING" /\ SameScope(scope, vruns[r].scope)}

Candidates(scope) == {r \in ActiveRuns : SameScope(scope, vruns[r].scope)}

InFlight(r) == vruns[r].task /\ r \notin ended

LookupNone(h) ==
  /\ At(h, "lookup") /\ Candidates(proc[h].scope) = {}
  /\ Goto(h, "create")
  /\ UNCHANGED <<scen, vruns, broker, dead>>

\* A run of the last three minutes whose task is in flight answers the
\* request; any other is released.
LookupFound(h, r, recent) ==
  /\ At(h, "lookup") /\ Newest(Candidates(proc[h].scope), r)
  /\ IF recent /\ InFlight(r)
     THEN Return(h)
     ELSE Become(h, [proc[h] EXCEPT !.pc = "release", !.run = r])
  /\ UNCHANGED <<scen, vruns, broker, dead>>

Release(h) ==
  LET r == proc[h].run
  IN /\ At(h, "release")
     /\ UNCHANGED <<scen, broker, dead>>
     /\ \/ ~Alive(r) /\ Return(h) /\ UNCHANGED vruns
        \/ /\ Alive(r)
           /\ SaveRun(r, [vruns[r] EXCEPT !.st = "FAILED", !.given = "stale"])
           /\ Become(h, [proc[h] EXCEPT !.pc = "create", !.run = NoRun])

\* The foreign key fails when the scenario is gone.
Create(h, r) ==
  /\ At(h, "create")
  /\ vruns[r].st = "UNUSED" /\ \A q \in RunIds : vruns[q].st = "UNUSED" => r <= q
  /\ UNCHANGED <<scen, broker, dead>>
  /\ \/ ~scen.present /\ Return(h) /\ UNCHANGED vruns
     \/ /\ scen.present
        /\ SaveRun(r, [Blank("PENDING") EXCEPT !.scope = proc[h].scope])
        /\ Become(h, [proc[h] EXCEPT !.pc = "send", !.run = r])

\* apply_async, which raises when the broker refuses the message.
Send(h) ==
  LET r == proc[h].run
  IN /\ At(h, "send")
     /\ \/ queue' = queue \cup {r} /\ Goto(h, "saveTask")
        \/ "refuse" \in Faults /\ UNCHANGED queue /\ Goto(h, "refused")
     /\ UNCHANGED <<scen, vruns, revoked, ended, dead>>

\* Mutant of Refused: the handler answers that the broker is down, and
\* neither records it in the run nor executes the run itself.
RefusedAndReturn(h) ==
  /\ At(h, "refused")
  /\ Return(h)
  /\ UNCHANGED <<scen, vruns, broker, dead>>

\* The run is saved as FAILED and then executed by the handler itself.
Refused(h) ==
  LET r == proc[h].run
  IN /\ At(h, "refused")
     /\ UNCHANGED <<scen, broker, dead>>
     /\ \/ ~Alive(r) /\ Return(h) /\ UNCHANGED vruns
        \/ /\ Alive(r)
           /\ SaveRun(r, [vruns[r] EXCEPT !.st = "FAILED"])
           /\ Become(h, TaskOf(r))

SaveTask(h) ==
  LET r == proc[h].run
  IN /\ At(h, "saveTask")
     /\ UNCHANGED <<scen, broker, dead>>
     /\ \/ ~Alive(r) /\ Return(h) /\ UNCHANGED vruns
        \/ /\ Alive(r)
           /\ SaveRun(r, [vruns[r] EXCEPT !.task = TRUE])
           /\ Goto(h, "mark")

\* The scenario is marked PENDING after the message was sent.
Mark(h) ==
  LET asked == proc[h].scope.kinds
  IN /\ At(h, "mark")
     /\ IF scen.present THEN SaveChecks(asked, With(proc[h].seen, asked, "PENDING"))
                        ELSE UNCHANGED scen
     /\ Return(h)
     /\ UNCHANGED <<vruns, broker, dead>>

-----------------------------------------------------------------------------
(* validate_scenario_task *)

\* A worker that was told to revoke the task discards its message.
Deliver(w, r) ==
  /\ At(w, "idle") /\ r \in queue
  /\ queue' = queue \ {r}
  /\ IF r \in revoked
     THEN ended' = ended \cup {r} /\ UNCHANGED proc
     ELSE UNCHANGED ended /\ Become(w, TaskOf(r))
  /\ UNCHANGED <<scen, vruns, revoked, dead>>

\* Every statement that needs a row the deletion took with it raises; so does
\* the progress trace of the handler of exceptions: the task ends.
TaskLosesRow(p) ==
  /\ proc[p].pc \in TaskPCs \cup AfterPCs
  /\ ~scen.present \/ ~Alive(proc[p].run)
  /\ EndTask(p)
  /\ UNCHANGED <<scen, vruns, dead>>

InTask(p, pc) == At(p, pc) /\ scen.present /\ Alive(proc[p].run)

TaskLoad(p) ==
  /\ InTask(p, "load")
  /\ Become(p, [proc[p] EXCEPT !.pc = "markScenario", !.seen = scen.checks])
  /\ UNCHANGED <<scen, vruns, broker, dead>>

TaskMarkScenario(p) ==
  LET asked == proc[p].scope.kinds
      marked == With(proc[p].seen, asked, "RUNNING")
  IN /\ InTask(p, "markScenario")
     /\ SaveChecks(asked, marked)
     /\ Become(p, [proc[p] EXCEPT !.pc = "markRun", !.seen = marked])
     /\ UNCHANGED <<vruns, broker, dead>>

\* Whether this run leaves probe metrics on the hosts.
Probing(scope) == scope.phase = "probe" /\ "actions" \in scope.kinds

TaskMarkRun(p) ==
  LET r == proc[p].run
  IN /\ InTask(p, "markRun")
     /\ SaveRun(r, [vruns[r] EXCEPT !.st = "RUNNING", !.task = @ \/ p \in Workers,
                                    !.collect = Probing(proc[p].scope)])
     /\ Become(p, [proc[p] EXCEPT !.pc = "check", !.left = proc[p].scope.kinds])
     /\ UNCHANGED <<scen, broker, dead>>

\* The checks are made in this order ...
Turn(p, k) ==
  /\ k \in proc[p].left
  /\ k = "node" => "actions" \notin proc[p].left
  /\ k = "graph" => proc[p].left = {"graph"}

Checked(p, k, ok) ==
  [proc[p] EXCEPT !.pc = "check", !.left = @ \ {k}, !.src = NoRun,
                  !.bad = IF ok THEN @ ELSE @ \cup {k}]

\* ... and each passes or fails; the collect phase is not done in one step.
TaskCheck(p, k, ok) ==
  /\ InTask(p, "check") /\ Turn(p, k)
  /\ k = "actions" => proc[p].scope.phase # "collect"
  /\ Become(p, Checked(p, k, ok))
  /\ UNCHANGED <<scen, vruns, broker, dead>>

\* _find_pending_metrics_source_run
Sources(r) == {q \in Live \ {r} : vruns[q].collect}

CollectSelect(p) ==
  LET sources == Sources(proc[p].run)
  IN /\ InTask(p, "check") /\ Turn(p, "actions") /\ proc[p].scope.phase = "collect"
     /\ \/ sources = {} /\ Become(p, Checked(p, "actions", FALSE))
        \/ \E q \in sources : /\ Newest(sources, q)
                              /\ Become(p, [proc[p] EXCEPT !.pc = "collecting", !.src = q])
     /\ UNCHANGED <<scen, vruns, broker, dead>>

CollectDone(p, ok) ==
  LET q == proc[p].src
  IN /\ InTask(p, "collecting")
     /\ IF ok THEN SaveRun(q, [vruns[q] EXCEPT !.collect = FALSE]) ELSE UNCHANGED vruns
     /\ Become(p, Checked(p, "actions", ok))
     /\ UNCHANGED <<scen, broker, dead>>

TaskSaveScenario(p) ==
  LET asked == proc[p].scope.kinds
      found == [k \in Kinds |-> IF k \notin asked THEN proc[p].seen[k]
                                ELSE IF k \in proc[p].bad THEN "FAIL" ELSE "PASS"]
  IN /\ InTask(p, "check") /\ proc[p].left = {}
     /\ SaveChecks(asked, found)
     /\ Become(p, [proc[p] EXCEPT !.pc = "saveRun", !.seen = found])
     /\ UNCHANGED <<vruns, broker, dead>>

\* Mutant of Offered: a failed probe is still offered for collection.
OfferedAnyway(row, scope, ok) == IF scope.phase = "probe" THEN TRUE ELSE row.collect

\* need_to_collect_metrics at the end of a run.
Offered(row, scope, ok) ==
  CASE scope.phase = "probe"   -> ok /\ "actions" \in scope.kinds
    [] scope.phase = "collect" -> FALSE
    [] OTHER                   -> row.collect

TaskSaveRun(p) ==
  LET r == proc[p].run
      ok == proc[p].bad = {}
  IN /\ InTask(p, "saveRun")
     /\ SaveRun(r, [vruns[r] EXCEPT !.st = IF ok THEN "SUCCEEDED" ELSE "FAILED",
                                    !.collect = Offered(vruns[r], proc[p].scope, ok)])
     /\ Goto(p, "saved")
     /\ UNCHANGED <<scen, broker, dead>>

\* The outcome is followed by the metrics of the hosts and the trace.
TaskReturn(p) ==
  /\ InTask(p, "saved")
  /\ EndTask(p)
  /\ UNCHANGED <<scen, vruns, dead>>

\* A soft time limit or any other exception inside the try block, which goes
\* on after the outcome was saved.
TaskRaise(p) ==
  /\ "raise" \in Faults
  /\ proc[p].pc \in {"check", "collecting", "saveRun", "saved"}
  /\ scen.present /\ Alive(proc[p].run)
  /\ Become(p, [proc[p] EXCEPT !.pc = IF @ = "saved" THEN "undoScenario" ELSE "failScenario",
                               !.src = NoRun, !.left = {}, !.bad = {}])
  /\ UNCHANGED <<scen, vruns, broker, dead>>

TaskFailScenario(p) ==
  LET asked == proc[p].scope.kinds
  IN /\ InTask(p, "failScenario") \/ InTask(p, "undoScenario")
     /\ SaveChecks(asked, With(proc[p].seen, asked, "FAIL"))
     /\ Become(p, [proc[p] EXCEPT !.pc = IF @ = "failScenario" THEN "failRun" ELSE "undoRun",
                                  !.seen = Unknown])
     /\ UNCHANGED <<vruns, broker, dead>>

TaskFailRun(p) ==
  LET r == proc[p].run
  IN /\ InTask(p, "failRun") \/ InTask(p, "undoRun")
     /\ SaveRun(r, [vruns[r] EXCEPT !.st = "FAILED",
                                    !.collect = Offered(vruns[r], proc[p].scope, FALSE)])
     /\ EndTask(p)
     /\ UNCHANGED <<scen, dead>>

\* A worker process dies; its message was acknowledged and is not sent again.
Crash(w) ==
  /\ Cardinality(dead) < MaxDeaths /\ ~At(w, "idle")
  /\ Return(w)
  /\ dead' = dead \cup {proc[w].run}
  /\ UNCHANGED <<scen, vruns, broker>>

-----------------------------------------------------------------------------
HandlerStep(h) ==
  \/ UploadSave(h) \/ CleanCancel(h) \/ CleanReset(h) \/ LookupNone(h) \/ Release(h)
  \/ Send(h) \/ Refused(h) \/ SaveTask(h) \/ Mark(h)
  \/ \E r \in RunIds : CleanRequest(h, r) \/ Create(h, r)
  \/ \E r \in RunIds, recent \in BOOLEAN : LookupFound(h, r, recent)

TaskStep(p) ==
  \/ TaskLosesRow(p) \/ TaskLoad(p) \/ TaskMarkScenario(p) \/ TaskMarkRun(p)
  \/ CollectSelect(p) \/ TaskSaveScenario(p) \/ TaskSaveRun(p)
  \/ TaskReturn(p)
  \/ TaskRaise(p) \/ TaskFailScenario(p) \/ TaskFailRun(p)
  \/ \E ok \in BOOLEAN : CollectDone(p, ok)
  \/ \E ok \in BOOLEAN, k \in Kinds : TaskCheck(p, k, ok)

Request(h) ==
  \/ UploadRead(h) \/ Delete(h) \/ CleanRead(h)
  \/ \E scope \in Scopes : ValidateRead(h, scope)

Init ==
  /\ scen = Fresh
  /\ vruns = [r \in RunIds |-> Blank("UNUSED")]
  /\ queue = {} /\ revoked = {} /\ ended = {} /\ dead = {}
  /\ proc = [p \in Procs |-> Idle]

Next ==
  \/ \E h \in Handlers : Request(h) \/ HandlerStep(h)
  \/ \E p \in Procs : TaskStep(p)
  \/ \E w \in Workers : Crash(w) \/ \E r \in RunIds : Deliver(w, r)

Spec == Init /\ [][Next]_vars

\* Threads and workers go on with what they began, and idle workers fetch
\* messages; nobody is obliged to send a request or to die.
Fairness ==
  /\ \A h \in Handlers : WF_vars(HandlerStep(h) \/ TaskStep(h))
  /\ \A w \in Workers : WF_vars(TaskStep(w) \/ \E r \in RunIds : Deliver(w, r))
FairSpec == Spec /\ Fairness

-----------------------------------------------------------------------------
(* Properties *)

\* Rows, messages and process records stay well formed.
TypeOK ==
  /\ scen \in Row
  /\ vruns \in [RunIds -> RunRows]
  /\ queue \subseteq RunIds /\ revoked \subseteq RunIds
  /\ ended \subseteq RunIds /\ dead \subseteq RunIds
  /\ proc \in [Procs -> ProcRecords]

\* The stored validation_status is the one the three stored check statuses
\* imply, although each writer computes it from its own, possibly stale, copy.
VerdictAgrees == scen.present => scen.verdict = Computed(scen.checks)

\* Until its outcome is saved.
Executing(r) == r \in queue \ revoked \/ \E p \in Procs : proc[p].run = r /\ proc[p].pc \in TaskPCs

GivenUp(r) == vruns[r].given # "no"
InsteadOf(x, r) ==
  /\ GivenUp(x) /\ vruns[x].scope # vruns[r].scope
  /\ SameScope(vruns[r].scope, vruns[x].scope)

\* With one Hub thread a run whose task is in hand gets a younger run of its
\* own scope only if a clean or a release gave it up before, whatever the
\* workers do: this is what answering with the run in flight is for.  The
\* exception is a request without an edge: it looks at the newest run it
\* matches, and may give up one that checks one edge instead.
OneTaskPerScope ==
  \A r, q \in Live :
    (r < q /\ vruns[r].scope = vruns[q].scope /\ Executing(r))
    => GivenUp(r) \/ \E x \in (r + 1)..(q - 1) : InsteadOf(x, r)

\* Metrics are offered for collection only by a probe under way or by one
\* that succeeded, unless the run is being or was given up or its process died.
OfferedProbesSucceeded ==
  \A r \in Live :
    vruns[r].collect =>
      \/ vruns[r].st \in {"SUCCEEDED", "CANCEL_REQUESTED"}
      \/ vruns[r].given # "no" \/ r \in dead
      \/ \E p \in Procs : proc[p].run = r /\ proc[p].pc \in TaskPCs

\* Every run that was accepted gets a final status, unless the worker that
\* executed it died: whatever the broker refuses, the task
\* raises or a clean cancels.
RunsEnd == \A r \in RunIds : r \in ActiveRuns ~> (r \notin ActiveRuns \/ r \in dead)
=============================================================================
