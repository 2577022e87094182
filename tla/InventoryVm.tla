------------------------------ MODULE InventoryVm ------------------------------
(***************************************************************************)
(* One VM of the inventory (icopa_hub/inventory) and everybody who writes  *)
(* its row: upload, delete and check requests, the stop-container request  *)
(* with its Celery task and its polls, the actions of a scenario phase     *)
(* (scenarios/celery_tasks.py) and the tasks that leave a note in metadata.*)
(*                                                                         *)
(* Nobody locks the row.  managed_containers and metadata are JSON columns:*)
(* a writer loads the row, works for seconds or minutes, and saves the     *)
(* whole column from the copy it loaded (proc[p].seen).  A request that is *)
(* answered with an error before it writes anything is a stuttering step.  *)
(***************************************************************************)
EXTENDS Naturals, Sequences

CONSTANTS
  Handlers,    \* Hub threads
  Workers,     \* Celery worker slots
  Containers,  \* on the VM
  Icopa,       \* those with "icopa" in their name
  Phases,      \* what scenario phases do on this VM: sequences of actions
  MaxTasks,    \* bound: stop requests the broker accepts
  MaxEvents    \* bound: uploads, deletes, failures, deaths, changes from outside

ActionKinds == {"stress", "router", "clean"}
Actions == [kind : ActionKinds, container : Containers]

ASSUME VmProcesses == Handlers \cap Workers = {}
ASSUME VmContainers == Containers # {} /\ Icopa \subseteq Containers
ASSUME VmPhases == Phases \subseteq Seq(Actions) \ {<<>>}
ASSUME VmBounds == MaxTasks \in Nat /\ MaxEvents \in Nat

Procs == Handlers \cup Workers
Tasks == 1..MaxTasks
Local == 0          \* the empty task id of a task a handler executes itself

VARIABLES
  row,      \* the VM row: SSH key, managed_containers, metadata.container_ops
  box,      \* the containers on the VM
  of,       \* the container each task is to remove
  queue,    \* tasks with a message in the broker
  result,   \* the result backend
  answer,   \* the last answer the client got for a task
  proc,     \* what every handler and worker is doing
  removed,  \* history: tasks whose docker rm was carried out and answered
  lost,     \* history: tasks whose worker died
  trust,    \* history: whether the row has been undisturbed since a check
  events

vars == <<row, box, of, queue, result, answer, proc, removed, lost, trust, events>>
broker == <<of, queue, result, answer>>
past == <<removed, lost>>

---------------------------------------------------------------------------
(* Rows and process records *)

Final == {"SUCCEEDED", "FAILED"}
Op == [task : {Local} \cup Tasks, status : {"none", "RUNNING"} \cup Final]
Ops == [Containers -> Op]
NoOps == [c \in Containers |-> [task |-> Local, status |-> "none"]]
Rows == [present : BOOLEAN, key : BOOLEAN, managed : SUBSET Containers, ops : Ops]

(* What a frame still uses of the row it loaded.                           *)
OpsOf(r) == [r EXCEPT !.key = FALSE, !.managed = {}]
ManagedOf(r) == [r EXCEPT !.key = FALSE, !.ops = NoOps]
NoRow == [present |-> FALSE, key |-> FALSE, managed |-> {}, ops |-> NoOps]
Running == {c \in Containers : box[c] = "running"}

StopPCs == {"load", "begin", "connect", "unreachable", "remove", "look", "report"}
PhasePCs == {"act", "noteRead", "noteSave", "exec", "trackRead", "trackSave"}
PCs == {"idle", "enqueue", "saveOp", "checkLook", "checkSave", "save"} \cup StopPCs \cup PhasePCs

Records == [pc : PCs, task : {Local} \cup Tasks, c : Containers, seen : Rows,
            found : SUBSET Containers, ok : BOOLEAN, todo : Seq(Actions)]

Idle == [pc |-> "idle", task |-> Local, c |-> CHOOSE c \in Containers : TRUE, seen |-> NoRow,
         found |-> {}, ok |-> FALSE, todo |-> <<>>]

At(p, pc) == proc[p].pc = pc
Become(p, rec) == proc' = [proc EXCEPT ![p] = rec]
Goto(p, pc) == Become(p, [proc[p] EXCEPT !.pc = pc])
Return(p) == Become(p, Idle)

(* The writers whose save of managed_containers rests on what they saw.    *)
Watching(p) == proc[p].pc \in StopPCs \cup {"checkLook", "checkSave", "save", "exec", "trackRead", "trackSave"}
Alone(p) == \A q \in Procs \ {p} : ~Watching(q)

Undisturbed == UNCHANGED <<trust, events>>
Join(p) == trust' = (IF Alone(p) THEN trust ELSE "stale") /\ UNCHANGED events
Happens == events < MaxEvents /\ events' = events + 1
Fault == Happens /\ trust' = "stale"

---------------------------------------------------------------------------
(* Upload and delete *)

(* update_or_create replaces metadata, and container_ops with it.  When the *)
(* VM was deleted, an upload of its name makes another row with another    *)
(* primary key, which no task of the old one finds: the one row that this  *)
(* module follows does not come back.                                      *)
Upload(key) ==
  /\ row.present
  /\ row' = [row EXCEPT !.key = key, !.ops = NoOps]
  /\ Happens
  /\ UNCHANGED <<box, broker, proc, past, trust>>

Delete ==
  /\ row.present
  /\ row' = NoRow
  /\ Fault
  /\ UNCHANGED <<box, broker, proc, past>>

---------------------------------------------------------------------------
(* InventoryCheckVMAPIView: connect, list, save *)

CheckRead(h) ==
  /\ At(h, "idle") /\ row.present /\ row.key
  /\ Become(h, [Idle EXCEPT !.pc = "checkLook", !.seen = [row EXCEPT !.key = FALSE]])
  /\ trust' = (IF ~Alone(h) THEN "stale" ELSE IF trust = "good" THEN "good" ELSE "checking")
  /\ UNCHANGED <<row, box, broker, past, events>>

Saving(h, ok, found) ==
  Become(h, [proc[h] EXCEPT !.pc = "checkSave", !.ok = ok, !.found = found, !.seen = OpsOf(@)])

(* The VM or its docker does not answer, or docker ps fails and lists      *)
(* nothing; else the containers the row lists and those named icopa.       *)
CheckLook(h) ==
  /\ At(h, "checkLook")
  /\ LET shown == Running \cap (proc[h].seen.managed \cup Icopa)
     IN  \/ Saving(h, TRUE, shown) /\ Undisturbed
         \/ Saving(h, TRUE, {}) /\ Fault
         \/ Saving(h, FALSE, {}) /\ Fault
  /\ UNCHANGED <<row, box, broker, past>>

(* save(update_fields = ...) of a row that is gone raises.                 *)
CheckSave(h) ==
  /\ At(h, "checkSave")
  /\ row' = IF ~row.present THEN row
            ELSE [row EXCEPT !.ops = proc[h].seen.ops,
                             !.managed = IF proc[h].ok THEN proc[h].found ELSE @]
  /\ trust' = (IF trust # "checking" THEN trust ELSE IF proc[h].ok THEN "good" ELSE "stale")
  /\ Return(h)
  /\ UNCHANGED <<box, broker, past, events>>

---------------------------------------------------------------------------
(* InventoryStopContainerAPIView: the request *)

StopRead(h, c) ==
  /\ At(h, "idle") /\ row.present
  /\ Become(h, [Idle EXCEPT !.pc = "enqueue", !.c = c, !.seen = OpsOf(row)])
  /\ UNCHANGED <<row, box, broker, past, trust, events>>

(* apply_async(retry=False); a handler whose message the broker refuses    *)
(* executes the task itself, without a task id.                            *)
Enqueue(h) ==
  /\ At(h, "enqueue")
  /\ \/ /\ \E t \in Tasks : /\ t = Len(of) + 1
                            /\ queue' = queue \cup {t}
                            /\ Become(h, [proc[h] EXCEPT !.pc = "saveOp", !.task = t])
        /\ of' = Append(of, proc[h].c)
        /\ UNCHANGED <<trust, events>>
     \/ /\ Become(h, [Idle EXCEPT !.pc = "load", !.c = proc[h].c])
        /\ Fault
        /\ UNCHANGED <<of, queue>>
  /\ UNCHANGED <<row, box, result, answer, past>>

WithOp(ops, c, t, status) == [ops EXCEPT ![c] = [task |-> t, status |-> status]]

(* Mutant of SaveOp: the request says QUEUED, which no reader knows. *)
SaveOpQueued(h) ==
  /\ At(h, "saveOp")
  /\ IF row.present
     THEN /\ row' = [row EXCEPT !.ops = WithOp(proc[h].seen.ops, proc[h].c, proc[h].task, "QUEUED")]
          /\ answer' = [answer EXCEPT ![proc[h].task] = "RUNNING"]
     ELSE UNCHANGED <<row, answer>>
  /\ Return(h)
  /\ UNCHANGED <<box, of, queue, result, past, trust, events>>

(* Saved from the copy that was loaded before the message was sent: the    *)
(* task may have ended by now.                                             *)
SaveOp(h) ==
  /\ At(h, "saveOp")
  /\ IF row.present
     THEN /\ row' = [row EXCEPT !.ops = WithOp(proc[h].seen.ops, proc[h].c, proc[h].task, "RUNNING")]
          /\ answer' = [answer EXCEPT ![proc[h].task] = "RUNNING"]
     ELSE UNCHANGED <<row, answer>>
  /\ Return(h)
  /\ UNCHANGED <<box, of, queue, result, past, trust, events>>

---------------------------------------------------------------------------
(* stop_and_remove_vm_container_task *)

Deliver(w, t) ==
  /\ At(w, "idle") /\ t \in queue
  /\ queue' = queue \ {t}
  /\ Become(w, [Idle EXCEPT !.pc = "load", !.task = t, !.c = of[t]])
  /\ Join(w)
  /\ UNCHANGED <<row, box, of, result, answer, past>>

(* The end of a task: what a worker reports goes to the result backend.    *)
EndTask(p, verdict) ==
  /\ result' = IF p \in Workers THEN [result EXCEPT ![proc[p].task] = verdict] ELSE result
  /\ Return(p)

TaskLoad(p) ==
  /\ At(p, "load")
  /\ IF row.present
     THEN Become(p, [proc[p] EXCEPT !.pc = "begin", !.seen = row]) /\ UNCHANGED result
     ELSE EndTask(p, "FAILED")
  /\ UNCHANGED <<row, box, of, queue, answer, past, trust, events>>

OpSeen(p, status) == WithOp(proc[p].seen.ops, proc[p].c, proc[p].task, status)

(* A VM without credential or key path is a failure at once.               *)
TaskBegin(p) ==
  LET status == IF proc[p].seen.key THEN "RUNNING" ELSE "FAILED"
  IN /\ At(p, "begin")
     /\ IF ~row.present THEN EndTask(p, "raised") /\ UNCHANGED row
        ELSE /\ row' = [row EXCEPT !.ops = OpSeen(p, status)]
             /\ IF proc[p].seen.key
                THEN Become(p, [proc[p] EXCEPT !.pc = "connect", !.seen.ops = OpSeen(p, status), !.seen.key = FALSE]) /\ UNCHANGED result
                ELSE EndTask(p, "FAILED")
     /\ UNCHANGED <<box, of, queue, answer, past, trust, events>>

Looked(p, found) == Become(p, [proc[p] EXCEPT !.pc = "save", !.found = found, !.seen = OpsOf(@)])

(* test_connectivity; a VM that does not answer is saved as ERROR, without *)
(* its containers.                                                         *)
TaskConnect(p) ==
  /\ At(p, "connect")
  /\ \/ Goto(p, "remove") /\ Undisturbed
     \/ Become(p, [proc[p] EXCEPT !.pc = "unreachable", !.seen = OpsOf(@)]) /\ Fault
  /\ UNCHANGED <<row, box, broker, past>>

(* stop_and_remove_container: docker stop, then docker rm.  A failing      *)
(* docker ps reads as not found, the stop or the rm may fail, the answer   *)
(* of a docker rm may get lost.                                            *)
TaskRemove(p) ==
  LET c == proc[p].c
      done == Become(p, [proc[p] EXCEPT !.pc = "look", !.ok = TRUE]) /\ removed' = removed \cup {proc[p].task}
      not == Goto(p, "look") /\ UNCHANGED removed
  IN /\ At(p, "remove")
     /\ \/ box[c] # "absent" /\ box' = [box EXCEPT ![c] = "absent"] /\ done /\ Undisturbed
        \/ box[c] = "absent" /\ UNCHANGED box /\ not /\ Undisturbed
        \/ /\ box' \in {box, [box EXCEPT ![c] = "absent"],
                       [box EXCEPT ![c] = IF @ = "absent" THEN @ ELSE "stopped"]}
           /\ not /\ Fault
     /\ UNCHANGED <<row, broker, lost>>

(* The containers the row listed, and the one to remove: which are up.     *)
TaskLook(p) ==
  LET tracked == proc[p].seen.managed \cup {proc[p].c}
  IN /\ At(p, "look")
     /\ \/ Looked(p, Running \cap tracked) /\ Undisturbed
        \/ Looked(p, {}) /\ Fault
     /\ UNCHANGED <<row, box, broker, past>>

Verdict(p) == IF proc[p].ok THEN "SUCCEEDED" ELSE "FAILED"

TaskSave(p) ==
  /\ At(p, "save") \/ At(p, "unreachable")
  /\ IF ~row.present THEN EndTask(p, "raised") /\ UNCHANGED row
     ELSE /\ row' = [row EXCEPT !.ops = OpSeen(p, Verdict(p)),
                              !.managed = IF At(p, "save") THEN proc[p].found ELSE @]
          /\ Goto(p, "report")
          /\ UNCHANGED result
  /\ UNCHANGED <<box, of, queue, answer, past, trust, events>>

TaskReport(p) ==
  /\ At(p, "report")
  /\ EndTask(p, Verdict(p))
  /\ UNCHANGED <<row, box, of, queue, answer, past, trust, events>>

---------------------------------------------------------------------------
(* The poll of a stop request: it only reads, and is one step. *)

(* Mutant of Stored: whatever task the operation belongs to. *)
StoredForAny(t) == row.ops[of[t]].status

Stored(t) == IF row.ops[of[t]].task = t THEN row.ops[of[t]].status ELSE "none"

(* Mutant of InProgress: the row is believed when it says RUNNING. *)
InProgressByRow(t) == result[t] = "none" \/ Stored(t) = "RUNNING"

(* AsyncResult: the backend knows nothing of a task before its end.        *)
InProgress(t) == result[t] = "none"

Payload(t) == IF result[t] \in Final THEN result[t] ELSE "FAILED"

Poll(t) ==
  /\ answer[t] # "none" /\ row.present
  /\ answer' = [answer EXCEPT ![t] = IF Stored(t) \in Final THEN Stored(t)
                                     ELSE IF InProgress(t) THEN "RUNNING" ELSE Payload(t)]
  /\ UNCHANGED <<row, box, of, queue, result, proc, past, trust, events>>

---------------------------------------------------------------------------
(* _execute_phase_actions on this VM, and notes in metadata *)

PhaseBegin(w, phase) ==
  /\ At(w, "idle") /\ row.present /\ row.key
  /\ Become(w, [Idle EXCEPT !.pc = "act", !.todo = phase])
  /\ UNCHANGED <<row, box, broker, past, trust, events>>

Action(p) == Head(proc[p].todo)

(* A stress action first reads the capabilities of the VM and caches them  *)
(* in metadata; the phase ends when it cannot.                             *)
ActBegin(p) ==
  /\ At(p, "act")
  /\ \/ Action(p).kind = "stress" /\ Goto(p, "noteRead") /\ Undisturbed
     \/ Action(p).kind = "stress" /\ Return(p) /\ Fault
     \/ Action(p).kind # "stress" /\ Goto(p, "exec") /\ Join(p)
  /\ UNCHANGED <<row, box, broker, past>>

(* A profiling run's connectivity check and the tasks of cloud provisioning *)
(* write notes of theirs into metadata in the same way.                    *)
NoteRead(p) ==
  /\ At(p, "noteRead")
  /\ Become(p, [proc[p] EXCEPT !.pc = "noteSave", !.seen = OpsOf(row)])
  /\ UNCHANGED <<row, box, broker, past, trust, events>>

(* Nothing is saved for a row that was gone when it was read; a save of a  *)
(* row that went since raises and ends the task.                           *)
NoteSave(p) ==
  LET raises == proc[p].seen.present /\ ~row.present
  IN /\ At(p, "noteSave")
     /\ row' = IF row.present /\ proc[p].seen.present THEN [row EXCEPT !.ops = proc[p].seen.ops] ELSE row
     /\ IF raises THEN Return(p) /\ UNCHANGED trust
        ELSE Goto(p, "exec") /\ trust' = (IF Alone(p) THEN trust ELSE "stale")
     /\ UNCHANGED <<box, broker, past, events>>

(* What the log of the command says it removed and started: a start is     *)
(* "docker rm -f c; docker run --name c", or finds c running already.      *)
Effects(a) == [run |-> IF a.kind = "clean" THEN {} ELSE {a.container},
               rm  |-> {a.container}]

(* Mutant of Kept: what a start removed before is taken for removed. *)
KeptAll(rm, run) == rm

Kept(rm, run) == rm \ run

ActExec(p) ==
  LET c == Action(p).container
  IN /\ At(p, "exec")
     /\ \/ /\ box' = [box EXCEPT ![c] = IF Effects(Action(p)).run = {} THEN "absent" ELSE "running"]
           /\ Goto(p, "trackRead")
           /\ Undisturbed
        \/ /\ box' \in {box, [box EXCEPT ![c] = "absent"], [box EXCEPT ![c] = "stopped"]}
           /\ Return(p)
           /\ Fault
     /\ UNCHANGED <<row, broker, past>>

(* _update_vm_managed_containers *)
TrackRead(p) ==
  /\ At(p, "trackRead")
  /\ Become(p, [proc[p] EXCEPT !.pc = "trackSave", !.seen = ManagedOf(row)])
  /\ UNCHANGED <<row, box, broker, past, trust, events>>

(* The next action, once this one has been written down.                   *)
TrackSave(p) ==
  LET e == Effects(Action(p))
      saved == (proc[p].seen.managed \cup e.run) \ Kept(e.rm, e.run)
      rest == Tail(proc[p].todo)
      raises == proc[p].seen.present /\ ~row.present
  IN /\ At(p, "trackSave")
     /\ row' = IF row.present /\ proc[p].seen.present THEN [row EXCEPT !.managed = saved] ELSE row
     /\ IF rest = <<>> \/ raises THEN Return(p)
        ELSE Become(p, [Idle EXCEPT !.pc = "act", !.todo = rest])
     /\ UNCHANGED <<box, broker, past, trust, events>>

---------------------------------------------------------------------------
(* The environment *)

(* A container exits, or a run, a clean-up or a person starts or removes   *)
(* it without telling the inventory.                                       *)
Elsewhere(c, state) ==
  /\ box[c] # state
  /\ box' = [box EXCEPT ![c] = state]
  /\ Fault
  /\ UNCHANGED <<row, broker, proc, past>>

(* A worker process dies; its message was acknowledged when it was taken.  *)
Crash(w) ==
  /\ ~At(w, "idle")
  /\ lost' = lost \cup ({proc[w].task} \cap Tasks)
  /\ Return(w)
  /\ Fault
  /\ UNCHANGED <<row, box, broker, removed>>

---------------------------------------------------------------------------
Init ==
  /\ row = [NoRow EXCEPT !.present = TRUE, !.key = TRUE]
  /\ box = [c \in Containers |-> "absent"]
  /\ of = <<>>
  /\ queue = {}
  /\ result = [t \in Tasks |-> "none"]
  /\ answer = [t \in Tasks |-> "none"]
  /\ proc = [p \in Procs |-> Idle]
  /\ removed = {} /\ lost = {}
  /\ trust = "good"
  /\ events = 0

Request(h) ==
  \/ CheckRead(h)
  \/ \E c \in Containers : StopRead(h, c)

TaskStep(p) ==
  \/ TaskLoad(p) \/ TaskBegin(p) \/ TaskConnect(p) \/ TaskRemove(p)
  \/ TaskLook(p) \/ TaskSave(p) \/ TaskReport(p)

PhaseStep(p) ==
  \/ ActBegin(p) \/ NoteRead(p) \/ NoteSave(p) \/ ActExec(p) \/ TrackRead(p) \/ TrackSave(p)

Step(p) ==
  \/ CheckLook(p) \/ CheckSave(p) \/ Enqueue(p) \/ SaveOp(p)
  \/ TaskStep(p) \/ PhaseStep(p)

Next ==
  \/ \E key \in BOOLEAN : Upload(key)
  \/ Delete
  \/ \E h \in Handlers : Request(h)
  \/ \E p \in Procs : Step(p)
  \/ \E t \in Tasks : Poll(t)
  \/ \E w \in Workers : Crash(w)
  \/ \E w \in Workers, t \in Tasks : Deliver(w, t)
  \/ \E w \in Workers, phase \in Phases : PhaseBegin(w, phase)
  \/ \E c \in Containers, state \in {"absent", "stopped", "running"} : Elsewhere(c, state)

Spec == Init /\ [][Next]_vars

(* Threads and workers go on with what they began, the broker hands out    *)
(* its messages, and the client polls every two seconds (stopContainer of  *)
(* inventory.store.ts, which gives up after 120 polls).                    *)
Fairness ==
  /\ \A p \in Procs : WF_vars(Step(p))
  /\ \A w \in Workers, t \in Tasks : SF_vars(Deliver(w, t))
  /\ \A t \in Tasks : WF_vars(Poll(t))
FairSpec == Spec /\ Fairness

---------------------------------------------------------------------------
(* Rows, results and process records stay well formed; a stored operation  *)
(* has one of the statuses its readers know.                               *)
TypeOK ==
  /\ row \in Rows
  /\ box \in [Containers -> {"absent", "stopped", "running"}]
  /\ of \in Seq(Containers) /\ Len(of) <= MaxTasks
  /\ queue \subseteq Tasks
  /\ result \in [Tasks -> {"none", "raised"} \cup Final]
  /\ answer \in [Tasks -> {"none", "RUNNING"} \cup Final]
  /\ proc \in [Procs -> Records]
  /\ removed \subseteq {Local} \cup Tasks /\ lost \subseteq Tasks
  /\ trust \in {"good", "checking", "stale"}
  /\ events \in 0..MaxEvents

(* SUCCEEDED is answered only for a task that has removed its container,   *)
(* and FAILED for such a task only when the VM was deleted meanwhile,      *)
(* although every writer of metadata may overwrite the operation of a task *)
(* or bring back that of an earlier one.                                   *)
AnswersTellOutcome ==
  \A t \in Tasks :
    /\ answer[t] = "SUCCEEDED" => t \in removed
    /\ (answer[t] = "FAILED" /\ t \in removed) => result[t] = "raised"

(* A client that polls gets a final answer and never another one, unless   *)
(* the worker died or the VM is deleted: a RUNNING that an overlapping     *)
(* save brought back into the row does not keep or revive the wait.        *)
AnswersSettle ==
  \A t \in Tasks :
    answer[t] = "RUNNING" ~> ([](answer[t] \in Final) \/ t \in lost \/ ~row.present)

(* After a check that nobody overlapped, and as long as writers follow one *)
(* another and all goes well, the row lists nothing that is not running    *)
(* and misses nothing that is named icopa: what the node check of a        *)
(* scenario and the stop buttons of the GUI rely on.                       *)
ListedIsRunning ==
  (trust = "good" /\ row.present /\ \A p \in Procs : ~Watching(p)) =>
     row.managed \subseteq Running /\ Running \cap Icopa \subseteq row.managed
=============================================================================
