---------------------------- MODULE ProfilingRuns ----------------------------
(***************************************************************************)
(* The life of the runs of one profiling experiment: the REST handlers     *)
(* that upload, generate, start, rerun and delete, the Celery task that    *)
(* executes one run, and the dispatcher at the end of that task that       *)
(* claims the next PENDING run of the generation.                          *)
(*                                                                         *)
(* Handlers and tasks share one database and no lock.  A step is one       *)
(* statement that reads or writes shared rows, and what a process read     *)
(* earlier stays in its record `proc[p]` until it uses it: `snap` is the   *)
(* in-memory ProfilingExperiment, which sync_status_from_runs compares     *)
(* with and derives from long after it was loaded.  The two queries of one *)
(* derivation count as one read.                                           *)
(*                                                                         *)
(* A request the code answers with an error before it writes anything is   *)
(* a stuttering step and is not represented.                               *)
(***************************************************************************)
EXTENDS Integers, FiniteSets

CONSTANTS
  Handlers,      \* Hub threads: each serves one request at a time (deletes of
                 \* the whole experiment need none of them)
  Workers,       \* Celery worker slots: each executes one task at a time
  MaxRuns,       \* bound: primary keys available to ProfilingRun rows
  MaxGen,        \* bound: largest current_gen_version
  MaxCopies,     \* bound: copies of one task message in the broker
  PlanSize,      \* number of runs a plan compiles to
  StopChoices,   \* the values execution_policy.stop_on_failure may take
  Patient,       \* whether clients wait for the system to come to rest
  Requests,      \* the request kinds clients send in this instance
  Faults         \* the faults the environment may show in this instance

Procs == Handlers \cup Workers

RequestKinds == {"upload", "deleteExperiment", "generate", "replaceGen",
                 "replaceRun", "start", "rerunNew", "rerunInPlace",
                 "deleteRun", "bulkDelete"}

FaultKinds == {"crash", "redeliver", "refuse", "lateRefuse", "claim",
               "preview", "artifacts"}

ASSUME ProcsAssumption == Handlers \cap Workers = {}
ASSUME BoundsAssumption ==
  /\ MaxRuns \in Nat /\ MaxGen \in Nat /\ MaxCopies \in Nat
  /\ PlanSize \in Nat \ {0}
ASSUME ChoicesAssumption ==
  /\ Patient \in BOOLEAN
  /\ StopChoices \subseteq BOOLEAN
  /\ Requests \subseteq RequestKinds
  /\ Faults \subseteq FaultKinds

RunIds == 1..MaxRuns
NoRun == 0

RunStatus == {"PENDING", "RUNNING", "SUCCEEDED", "FAILED"}
ExperimentStatus == {"NEW", "WAITING", "RUNNING", "FINISHED", "ERROR"}

VARIABLES
  exp,     \* the ProfilingExperiment row
  runs,    \* the ProfilingRun rows by primary key, with their past
  queue,   \* task messages in the broker: copies per run
  proc     \* what every handler and worker slot is doing

vars == <<exp, runs, queue, proc>>

-----------------------------------------------------------------------------
(* Rows, snapshots and process records *)

Snapshots == [status : ExperimentStatus, gen : 0..MaxGen, plan : BOOLEAN]
Experiments == [present : BOOLEAN, status : ExperimentStatus,
                gen : 0..MaxGen, plan : BOOLEAN]
\* UNUSED: the key was never given out.  DELETED: its row is gone.
RunRows == [st : RunStatus \cup {"UNUSED", "DELETED"}, gen : 0..MaxGen,
            sof : BOOLEAN]

RequestPCs == {"check", "select", "prepare", "publish", "mark", "sync", "syncSave",
               "genSave", "genDelete", "genCreate", "bulkDelete", "deleteRow",
               "resync", "resyncSave", "uploadDelete", "uploadSave"}
TaskPCs == {"load", "begin", "began", "beganSave", "exec", "finished",
            "finishedSave", "next", "claim"}
PCs == {"idle", "send"} \cup RequestPCs \cup TaskPCs

ProcRecords ==
  [pc : PCs, op : RequestKinds \cup {"task"}, run : RunIds \cup {NoRun},
   gen : 0..MaxGen, snap : Snapshots, todo : SUBSET RunIds, left : 0..PlanSize,
   stop : BOOLEAN]

NoSnapshot == [status |-> "NEW", gen |-> 0, plan |-> FALSE]
Idle == [pc |-> "idle", op |-> "task", run |-> NoRun, gen |-> 0,
         snap |-> NoSnapshot, todo |-> {}, left |-> 0, stop |-> FALSE]

Unused == {r \in RunIds : runs[r].st = "UNUSED"}
Live(rs) == {r \in RunIds : rs[r].st \in RunStatus}
InGen(rs, g) == {r \in Live(rs) : rs[r].gen = g}
PendingIn(g) == {r \in InGen(runs, g) : runs[r].st = "PENDING"}
Running == {r \in RunIds : runs[r].st = "RUNNING"}
IsFirst(r, S) == r \in S /\ \A q \in S : r <= q

Gone == [st |-> "DELETED", gen |-> 0, sof |-> FALSE]
Without(S) == [r \in RunIds |-> IF r \in S THEN Gone ELSE runs[r]]
Load == [status |-> exp.status, gen |-> exp.gen, plan |-> exp.plan]

\* A new row gets the smallest key that was never used.
RoomToCreate == Cardinality(Unused) >= PlanSize * Cardinality(Handlers)

\* Mutant of Derived: a run's status word is stored as the experiment's.
DerivedRunWord(e, rs) == IF e.plan THEN "PENDING" ELSE "NEW"

\* derive_status_from_runs: the plan and the generation are the in-memory ones.
Derived(e, rs) ==
  LET current == InGen(rs, e.gen)
      pool == IF e.gen > 0 /\ current # {} THEN current ELSE Live(rs)
      statuses == {rs[r].st : r \in pool}
  IN CASE ~e.plan                   -> "NEW"
       [] e.plan /\ statuses = {}   -> "WAITING"
       [] e.plan /\ "RUNNING" \in statuses -> "RUNNING"
       [] e.plan /\ "RUNNING" \notin statuses /\ "PENDING" \in statuses
                                    -> "WAITING"
       [] e.plan /\ statuses = {"SUCCEEDED"} -> "FINISHED"
       [] OTHER                     -> "ERROR"

Become(p, rec) == proc' = [proc EXCEPT ![p] = rec]
Goto(p, pc) == proc' = [proc EXCEPT ![p].pc = pc]
Return(p) == Become(p, Idle)

\* A process that only has a run id left to work with.
Sending(r) == [Idle EXCEPT !.pc = "send", !.run = r]
Executing(r) == [Idle EXCEPT !.pc = "load", !.run = r]

\* Where a process goes on, keeping only what it still uses.
Continue(p, then, rec) ==
  Become(p, CASE then = "idle" -> Idle
              [] then = "send" -> Sending(rec.run)
              [] OTHER         -> [rec EXCEPT !.pc = then])

\* sync_status_from_runs compares what it derives with the in-memory status
\* and has nothing to save when they agree ...
SyncDerive(p, save, then) ==
  LET derived == Derived(proc[p].snap, runs)
  IN /\ UNCHANGED <<exp, runs, queue>>
     /\ \/ proc[p].snap.status = derived /\ Continue(p, then, proc[p])
        \/ /\ proc[p].snap.status # derived
           /\ Become(p, [proc[p] EXCEPT !.pc = save, !.snap.status = derived])

\* ... and otherwise saves the derived status; a row that is gone raises and
\* ends the caller.
SyncSave(p, then) ==
  /\ UNCHANGED <<runs, queue>>
  /\ \/ /\ exp.present
        /\ exp' = [exp EXCEPT !.status = proc[p].snap.status]
        /\ Continue(p, then, proc[p])
     \/ ~exp.present /\ Return(p) /\ UNCHANGED exp

\* Mutant of CreatePending: a row is created with no constraint on its key.
CreateUnconstrained(r, g, sof) ==
  /\ IsFirst(r, Unused)
  /\ runs' = [runs EXCEPT ![r] = [st |-> "PENDING", gen |-> g, sof |-> sof]]

\* _create_pending_run: the foreign key fails when the experiment is gone.
CreatePending(r, g, sof) ==
  /\ exp.present
  /\ IsFirst(r, Unused)
  /\ runs' = [runs EXCEPT ![r] = [st |-> "PENDING", gen |-> g, sof |-> sof]]

\* The row is created and deleted again because its preview file failed.
CreateAndUndo(r) ==
  /\ "preview" \in Faults
  /\ exp.present
  /\ IsFirst(r, Unused)
  /\ runs' = Without({r})

-----------------------------------------------------------------------------
(* Requests: the first read of each handler *)

Quiet == (\A p \in Procs : proc[p].pc = "idle") /\ \A r \in RunIds : queue[r] = 0

Accept(h, kind) ==
  /\ proc[h].pc = "idle"
  /\ Patient => Quiet
  /\ kind \in Requests
  /\ exp.present
  /\ UNCHANGED <<exp, runs, queue>>

Request(kind, pc) == [Idle EXCEPT !.op = kind, !.pc = pc, !.snap = Load]

\* Start wants a generated payload and a generation; the run is optional.
StartRead(h, g, r) ==
  /\ Accept(h, "start")
  /\ exp.plan
  /\ Become(h, [Request("start", "check") EXCEPT !.gen = g, !.run = r])

\* Rerun loads the source run and, with the same query, its experiment.
RerunRead(h, kind, r) ==
  /\ Accept(h, kind)
  /\ r \in Live(runs) \ Running
  /\ kind = "rerunNew" => RoomToCreate /\ exp.gen < MaxGen
  /\ Become(h, [Request(kind, "check") EXCEPT !.run = r, !.stop = runs[r].sof])

\* The compiled plan has one stop_on_failure policy for all of its runs.
GenerateRead(h, sof) ==
  /\ Accept(h, "generate")
  /\ RoomToCreate /\ exp.gen < MaxGen
  /\ Become(h, [Request("generate", "genSave")
       EXCEPT !.gen = exp.gen + 1, !.left = PlanSize, !.stop = sof])

\* Replacing a generation: none of its runs may be RUNNING at this read.
ReplaceGenRead(h, g, sof) ==
  /\ Accept(h, "replaceGen")
  /\ RoomToCreate
  /\ InGen(runs, g) # {} /\ InGen(runs, g) \cap Running = {}
  /\ Become(h, [Request("replaceGen", "genSave")
       EXCEPT !.gen = g, !.left = PlanSize, !.stop = sof])

\* Replacing one run: it must be PENDING at this read.
ReplaceRunRead(h, r, sof) ==
  /\ Accept(h, "replaceRun")
  /\ RoomToCreate /\ exp.gen < MaxGen
  /\ runs[r].st = "PENDING"
  /\ Become(h, [Request("replaceRun", "genSave")
       EXCEPT !.gen = exp.gen + 1, !.run = r, !.left = 1, !.stop = sof])

DeleteRunRead(h, r) ==
  /\ Accept(h, "deleteRun")
  /\ runs[r].st \in {"SUCCEEDED", "FAILED"}
  /\ Become(h, [Request("deleteRun", "deleteRow") EXCEPT !.run = r])

\* Mutant of BulkDeleteRead: with a generation nothing is skipped.
BulkDeleteAll(h, g) ==
  LET listed == IF g = 0 THEN Live(runs) ELSE InGen(runs, g)
      skipped == IF g = 0 THEN {"PENDING", "RUNNING"} ELSE {}
  IN /\ Accept(h, "bulkDelete")
     /\ listed # {}
     /\ Become(h, [Request("bulkDelete", "bulkDelete")
          EXCEPT !.todo = {r \in listed : runs[r].st \notin skipped}])

\* Without a generation active runs are skipped, with one only RUNNING runs.
BulkDeleteRead(h, g) ==
  LET listed == IF g = 0 THEN Live(runs) ELSE InGen(runs, g)
      skipped == IF g = 0 THEN {"PENDING", "RUNNING"} ELSE {"RUNNING"}
  IN /\ Accept(h, "bulkDelete")
     /\ listed # {}
     /\ Become(h, [Request("bulkDelete", "bulkDelete")
          EXCEPT !.todo = {r \in listed : runs[r].st \notin skipped}])

UploadRead(h) ==
  /\ Accept(h, "upload")
  /\ Become(h, Request("upload", "uploadDelete"))

\* The delete of the experiment and, by cascade, of its runs is one statement:
\* also while each of Handlers serves a request, some other thread executes it.
DeleteExperiment ==
  /\ Patient => Quiet
  /\ "deleteExperiment" \in Requests
  /\ exp.present
  /\ exp' = [exp EXCEPT !.present = FALSE]
  /\ runs' = Without(Live(runs))
  /\ UNCHANGED <<queue, proc>>

Arrive(h) ==
  \/ \E g \in 1..MaxGen, r \in RunIds \cup {NoRun} : StartRead(h, g, r)
  \/ \E kind \in {"rerunNew", "rerunInPlace"}, r \in RunIds : RerunRead(h, kind, r)
  \/ \E sof \in StopChoices :
       \/ GenerateRead(h, sof)
       \/ \E g \in 1..MaxGen : ReplaceGenRead(h, g, sof)
       \/ \E r \in RunIds : ReplaceRunRead(h, r, sof)
  \/ \E r \in RunIds : DeleteRunRead(h, r)
  \/ \E g \in 0..MaxGen : BulkDeleteRead(h, g)
  \/ UploadRead(h)

-----------------------------------------------------------------------------
(* Start and rerun *)

\* 409 when some run of the experiment is RUNNING.
CheckRunning(p) ==
  /\ proc[p].pc = "check"
  /\ UNCHANGED <<exp, runs, queue>>
  /\ \/ Running # {} /\ Return(p)
     \/ /\ Running = {}
        /\ Goto(p, IF proc[p].op = "start" THEN "select" ELSE "prepare")

\* Start lists the PENDING runs of the generation and takes the requested
\* one, or the oldest.
StartSelect(p) ==
  LET pending == PendingIn(proc[p].gen)
  IN /\ proc[p].pc = "select"
     /\ UNCHANGED <<exp, runs, queue>>
     /\ \/ \E r \in pending :
             /\ IF proc[p].run = NoRun THEN IsFirst(r, pending)
                                       ELSE r = proc[p].run
             /\ Become(p, [proc[p] EXCEPT !.pc = "mark", !.run = r])
        \/ /\ IF proc[p].run = NoRun THEN pending = {}
                                     ELSE proc[p].run \notin pending
           /\ Return(p)

\* The source row itself is reset to PENDING; a preview failure leaves it so.
RerunInPlace(p) ==
  LET r == proc[p].run
  IN /\ proc[p].pc = "prepare" /\ proc[p].op = "rerunInPlace"
     /\ UNCHANGED <<exp, queue>>
     /\ \/ /\ r \in Live(runs)
           /\ runs' = [runs EXCEPT ![r].st = "PENDING"]
           /\ \/ Goto(p, "mark")
              \/ "preview" \in Faults /\ Return(p)
        \/ /\ r \notin Live(runs) \/ "artifacts" \in Faults
           /\ Return(p)
           /\ UNCHANGED runs

\* A new run is created one generation above the loaded experiment's.
RerunCreate(p) ==
  /\ proc[p].pc = "prepare" /\ proc[p].op = "rerunNew"
  /\ UNCHANGED <<exp, queue>>
  /\ \/ \E r \in RunIds :
          /\ CreatePending(r, proc[p].snap.gen + 1, proc[p].stop)
          /\ Become(p, [proc[p] EXCEPT !.pc = "publish", !.run = r])
     \/ /\ \E r \in RunIds : CreateAndUndo(r)
        /\ Return(p)
     \/ /\ ~exp.present
        /\ Return(p)
        /\ UNCHANGED runs

\* The cloned payload becomes the experiment's current generation.
RerunPublish(p) ==
  LET g == proc[p].snap.gen + 1
  IN /\ proc[p].pc = "publish"
     /\ UNCHANGED <<runs, queue>>
     /\ \/ /\ exp.present
           /\ exp' = [exp EXCEPT !.gen = g, !.plan = TRUE]
           /\ Become(p, [proc[p] EXCEPT !.pc = "mark", !.snap.gen = g,
                                        !.snap.plan = TRUE])
        \/ ~exp.present /\ Return(p) /\ UNCHANGED exp

\* status = RUNNING is saved whatever the row holds by now.
MarkRunning(p) ==
  LET r == proc[p].run
  IN /\ proc[p].pc = "mark"
     /\ UNCHANGED <<exp, queue>>
     /\ \/ /\ r \in Live(runs)
           /\ runs' = [runs EXCEPT ![r].st = "RUNNING"]
           /\ Goto(p, "sync")
        \/ /\ r \notin Live(runs)
           /\ Return(p)
           /\ UNCHANGED runs

SyncMarked(p) == proc[p].pc = "sync" /\ SyncDerive(p, "syncSave", "send")
SaveMarked(p) == proc[p].pc = "syncSave" /\ SyncSave(p, "send")

Enqueue(r) ==
  /\ queue[r] < MaxCopies
  /\ queue' = [queue EXCEPT ![r] = @ + 1]

\* Mutant of Send: a refused message is reported and nothing runs the task.
SendGivesUp(p) ==
  /\ proc[p].pc = "send"
  /\ UNCHANGED <<exp, runs>>
  /\ \/ Enqueue(proc[p].run) /\ Return(p)
     \/ "refuse" \in Faults /\ UNCHANGED queue /\ Return(p)

\* Mutant of Send: the in-process fallback also runs after a message was sent.
SendAndExecute(p) ==
  /\ proc[p].pc = "send"
  /\ UNCHANGED <<exp, runs>>
  /\ Enqueue(proc[p].run) /\ Become(p, Executing(proc[p].run))

\* apply_async; when the broker refuses, the task runs in this very process,
\* also when the message had arrived and only the answer was lost.
Send(p) ==
  LET r == proc[p].run
  IN /\ proc[p].pc = "send"
     /\ UNCHANGED <<exp, runs>>
     /\ \/ Enqueue(r) /\ Return(p)
        \/ "refuse" \in Faults /\ UNCHANGED queue /\ Become(p, Executing(r))
        \/ "lateRefuse" \in Faults /\ Enqueue(r) /\ Become(p, Executing(r))

-----------------------------------------------------------------------------
(* Generate, delete, upload *)

GenerateSave(p) ==
  /\ proc[p].pc = "genSave"
  /\ UNCHANGED <<runs, queue>>
  /\ \/ /\ exp.present
        /\ exp' = [exp EXCEPT !.gen = proc[p].gen, !.plan = TRUE]
        /\ Become(p, [proc[p] EXCEPT
             !.pc = IF proc[p].op = "generate" THEN "genCreate" ELSE "genDelete",
             !.snap.gen = proc[p].gen, !.snap.plan = TRUE])
     \/ ~exp.present /\ Return(p) /\ UNCHANGED exp

\* What is replaced is deleted with no second look at its status.
GenerateDelete(p) ==
  LET replaced == IF proc[p].op = "replaceGen" THEN InGen(runs, proc[p].gen)
                  ELSE {proc[p].run} \cap Live(runs)
  IN /\ proc[p].pc = "genDelete"
     /\ runs' = Without(replaced)
     /\ Goto(p, "genCreate")
     /\ UNCHANGED <<exp, queue>>

\* One row per compiled run; the last one is followed by the status sync.
GenerateCreate(p) ==
  /\ proc[p].pc = "genCreate"
  /\ UNCHANGED <<exp, queue>>
  /\ \/ \E r \in RunIds :
          /\ CreatePending(r, proc[p].gen, proc[p].stop)
          /\ Become(p, [proc[p] EXCEPT
               !.pc = IF proc[p].left = 1 THEN "resync" ELSE "genCreate",
               !.left = proc[p].left - 1])
     \/ /\ \E r \in RunIds : CreateAndUndo(r)
        /\ Return(p)
     \/ /\ ~exp.present
        /\ Return(p)
        /\ UNCHANGED runs

DeleteRow(p) ==
  /\ proc[p].pc = "deleteRow"
  /\ UNCHANGED <<exp, queue>>
  /\ \/ /\ runs' = Without({proc[p].run})
        /\ Goto(p, "resync")
     \/ "artifacts" \in Faults /\ Return(p) /\ UNCHANGED runs

\* One listed run at a time; a run whose artifacts resist is left alone.
BulkDeleteOne(p) ==
  /\ proc[p].pc = "bulkDelete"
  /\ UNCHANGED <<exp, queue>>
  /\ \/ \E r \in proc[p].todo :
          /\ IsFirst(r, proc[p].todo)
          /\ Become(p, [proc[p] EXCEPT !.todo = @ \ {r}])
          /\ \/ runs' = Without({r})
             \/ "artifacts" \in Faults /\ UNCHANGED runs
     \/ proc[p].todo = {} /\ Goto(p, "resync") /\ UNCHANGED runs

Resync(p) == proc[p].pc = "resync" /\ SyncDerive(p, "resyncSave", "idle")
SaveResynced(p) == proc[p].pc = "resyncSave" /\ SyncSave(p, "idle")

UploadDeleteRuns(p) ==
  /\ proc[p].pc = "uploadDelete"
  /\ runs' = Without(Live(runs))
  /\ Goto(p, "uploadSave")
  /\ UNCHANGED <<exp, queue>>

\* A full save(): every column is written from memory, current_gen_version
\* among them, and a row deleted meanwhile is inserted again.
UploadSave(p) ==
  /\ proc[p].pc = "uploadSave"
  /\ exp' = [present |-> TRUE, status |-> "NEW", gen |-> proc[p].snap.gen,
             plan |-> FALSE]
  /\ Return(p)
  /\ UNCHANGED <<runs, queue>>

-----------------------------------------------------------------------------
(* execute_generated_plan_run_task and _dispatch_next_pending_run *)

Deliver(w, r) ==
  /\ proc[w].pc = "idle"
  /\ queue[r] > 0
  /\ queue' = [queue EXCEPT ![r] = @ - 1]
  /\ Become(w, Executing(r))
  /\ UNCHANGED <<exp, runs>>

\* The task loads the run with its experiment; a missing row ends it ...
TaskLoad(p) ==
  LET r == proc[p].run
  IN /\ proc[p].pc = "load"
     /\ UNCHANGED <<exp, runs, queue>>
     /\ \/ /\ r \in Live(runs)
           /\ Become(p, [proc[p] EXCEPT !.pc = "begin", !.gen = runs[r].gen,
                                        !.snap = Load])
        \/ r \notin Live(runs) /\ Return(p)

\* Mutant of TaskBegin: only a PENDING run is executed, a claimed one is not.
BeginIfPending(p) ==
  LET r == proc[p].run
  IN /\ proc[p].pc = "begin"
     /\ UNCHANGED <<exp, queue>>
     /\ \/ /\ runs[r].st = "PENDING"
           /\ runs' = [runs EXCEPT ![r].st = "RUNNING"]
           /\ Goto(p, "began")
        \/ runs[r].st # "PENDING" /\ Return(p) /\ UNCHANGED runs

\* ... and saves RUNNING: no claim, no look at the status it found.
TaskBegin(p) ==
  LET r == proc[p].run
  IN /\ proc[p].pc = "begin"
     /\ UNCHANGED <<exp, queue>>
     /\ \/ /\ r \in Live(runs)
           /\ runs' = [runs EXCEPT ![r].st = "RUNNING"]
           /\ Goto(p, "began")
        \/ r \notin Live(runs) /\ Return(p) /\ UNCHANGED runs

\* Mutant of TaskSyncBegan: the next run is dispatched before this one is over.
DispatchFirst(p) == proc[p].pc = "began" /\ SyncDerive(p, "finishedSave", "next")

TaskSyncBegan(p) == proc[p].pc = "began" /\ SyncDerive(p, "beganSave", "exec")
TaskSaveBegan(p) == proc[p].pc = "beganSave" /\ SyncSave(p, "exec")

\* Mutant of TaskFinish: a plain save() inserts a deleted row again.
FinishInserts(p, ok) ==
  LET r == proc[p].run
  IN /\ proc[p].pc = "exec"
     /\ UNCHANGED <<exp, queue>>
     /\ runs' = [runs EXCEPT ![r].st = IF ok THEN "SUCCEEDED" ELSE "FAILED"]
     /\ Become(p, [proc[p] EXCEPT !.pc = "finished",
                                  !.stop = ~ok /\ runs[r].sof])

\* Mutant of TaskFinish: the plan stops at a failure whatever its policy says.
FinishStopsAlways(p, ok) ==
  LET r == proc[p].run
  IN /\ proc[p].pc = "exec"
     /\ UNCHANGED <<exp, queue>>
     /\ \/ /\ r \in Live(runs)
           /\ runs' = [runs EXCEPT ![r].st = IF ok THEN "SUCCEEDED" ELSE "FAILED"]
           /\ Become(p, [proc[p] EXCEPT !.pc = "finished", !.stop = ~ok])
        \/ r \notin Live(runs) /\ Return(p) /\ UNCHANGED runs

\* The outcome is saved unless the row was deleted under the task.
TaskFinish(p, ok) ==
  LET r == proc[p].run
  IN /\ proc[p].pc = "exec"
     /\ UNCHANGED <<exp, queue>>
     /\ \/ /\ r \in Live(runs)
           /\ runs' = [runs EXCEPT ![r].st = IF ok THEN "SUCCEEDED" ELSE "FAILED"]
           /\ Become(p, [proc[p] EXCEPT !.pc = "finished",
                                        !.stop = ~ok /\ runs[r].sof])
        \/ /\ r \notin Live(runs)
           /\ Return(p)
           /\ UNCHANGED runs

\* Mutant of TaskSyncFinished: the experiment is not synced after the outcome.
FinishedWithoutSync(p) ==
  /\ proc[p].pc = "finished"
  /\ IF proc[p].stop THEN Return(p) ELSE Goto(p, "next")
  /\ UNCHANGED <<exp, runs, queue>>

AfterOutcome(p) == IF proc[p].stop THEN "idle" ELSE "next"
TaskSyncFinished(p) ==
  proc[p].pc = "finished" /\ SyncDerive(p, "finishedSave", AfterOutcome(p))
TaskSaveFinished(p) ==
  proc[p].pc = "finishedSave" /\ SyncSave(p, AfterOutcome(p))

\* The oldest PENDING run of the same generation is looked up ...
DispatchLookup(p) ==
  LET pending == PendingIn(proc[p].gen)
  IN /\ proc[p].pc = "next"
     /\ UNCHANGED <<exp, runs, queue>>
     /\ \/ \E r \in pending :
             /\ IsFirst(r, pending)
             /\ Become(p, [Idle EXCEPT !.pc = "claim", !.run = r])
        \/ pending = {} /\ Return(p)

\* Mutant of DispatchClaim: the claim does not look at the status.
ClaimAnyway(p) ==
  LET r == proc[p].run
  IN /\ proc[p].pc = "claim"
     /\ r \in Live(runs)
     /\ runs' = [runs EXCEPT ![r].st = "RUNNING"]
     /\ Goto(p, "send")
     /\ UNCHANGED <<exp, queue>>

\* ... and claimed by an update that only applies to a PENDING row.
DispatchClaim(p) ==
  LET r == proc[p].run
  IN /\ proc[p].pc = "claim"
     /\ UNCHANGED <<exp, queue>>
     /\ \/ /\ runs[r].st = "PENDING"
           /\ runs' = [runs EXCEPT ![r].st = "RUNNING"]
           /\ Goto(p, "send")
        \/ /\ runs[r].st # "PENDING" \/ "claim" \in Faults
           /\ Return(p)
           /\ UNCHANGED runs

-----------------------------------------------------------------------------
(* Faults *)

\* The broker's visibility timeout puts a message back that is still waiting
\* in some worker's prefetch buffer.
Redeliver(r) ==
  /\ "redeliver" \in Faults
  /\ queue[r] > 0 /\ queue[r] < MaxCopies
  /\ queue' = [queue EXCEPT ![r] = @ + 1]
  /\ UNCHANGED <<exp, runs, proc>>

\* A process is killed, or an exception the task does not catch ends it.
Crash(p) ==
  /\ "crash" \in Faults
  /\ proc[p].pc # "idle"
  /\ Return(p)
  /\ UNCHANGED <<exp, runs, queue>>

-----------------------------------------------------------------------------
Init ==
  /\ exp = [present |-> TRUE, status |-> "NEW", gen |-> 0, plan |-> FALSE]
  /\ runs = [r \in RunIds |-> [st |-> "UNUSED", gen |-> 0, sof |-> FALSE]]
  /\ queue = [r \in RunIds |-> 0]
  /\ proc = [p \in Procs |-> Idle]

Serve(p) ==
  \/ CheckRunning(p) \/ StartSelect(p)
  \/ RerunInPlace(p) \/ RerunCreate(p) \/ RerunPublish(p)
  \/ MarkRunning(p) \/ SyncMarked(p) \/ SaveMarked(p) \/ Send(p)
  \/ GenerateSave(p) \/ GenerateDelete(p) \/ GenerateCreate(p)
  \/ DeleteRow(p) \/ BulkDeleteOne(p) \/ Resync(p) \/ SaveResynced(p)
  \/ UploadDeleteRuns(p) \/ UploadSave(p)

Task(p) ==
  \/ TaskLoad(p) \/ TaskBegin(p) \/ TaskSyncBegan(p) \/ TaskSaveBegan(p)
  \/ \E ok \in BOOLEAN : TaskFinish(p, ok)
  \/ TaskSyncFinished(p) \/ TaskSaveFinished(p)
  \/ DispatchLookup(p) \/ DispatchClaim(p)

Progress == \E p \in Procs : Serve(p) \/ Task(p)
Delivery == \E w \in Workers, r \in RunIds : Deliver(w, r)
Fault == (\E r \in RunIds : Redeliver(r)) \/ (\E p \in Procs : Crash(p))

Next == (\E h \in Handlers : Arrive(h)) \/ DeleteExperiment \/ Progress \/ Delivery \/ Fault

Spec == Init /\ [][Next]_vars

\* Threads and worker slots are scheduled, and the broker's list is served in
\* order, so no message is passed over for ever.  Clients owe nothing.
Fairness ==
  /\ \A p \in Procs : WF_vars(Serve(p)) /\ WF_vars(Task(p))
  /\ \A r \in RunIds : SF_vars(\E w \in Workers : Deliver(w, r))
FairSpec == Spec /\ Fairness

-----------------------------------------------------------------------------
(* Properties *)

\* Every row, snapshot, message count and process record is well formed.
TypeOK ==
  /\ exp \in Experiments
  /\ runs \in [RunIds -> RunRows]
  /\ queue \in [RunIds -> 0..MaxCopies]
  /\ proc \in [Procs -> ProcRecords]

Holding == {"sync", "syncSave", "send", "load", "begin", "began", "beganSave", "exec"}
Holds(p, r) == proc[p].run = r /\ proc[p].pc \in Holding

\* As long as no process dies, a run shown RUNNING is in somebody's hands: its
\* task is in the broker, or a process is about to send it or is executing it.
\* Every error path of start, rerun, claim and task has to keep this true, or
\* the 409 guards of start and rerun lock the experiment for ever.
NoOrphanRunning ==
  \A r \in Running : queue[r] > 0 \/ \E p \in Procs : Holds(p, r)

\* Rows exist only under an existing experiment (the cascade of its delete
\* against the creates of a generate or rerun that is half way through).
RowsBelongToExperiment == Live(runs) # {} => exp.present

\* A deleted run never comes back: no task or handler that still holds the
\* deleted run in memory recreates it by saving it.
NoResurrection ==
  [][\A r \in RunIds : runs[r].st = "DELETED" => runs'[r].st = "DELETED"]_vars

\* At most one run of the experiment is RUNNING: what the 409 answers of start
\* and rerun are there for.
AtMostOneRunning == Cardinality(Running) <= 1

Executed == {"began", "beganSave", "exec"}

\* No run is executed by two processes at once: a task that has marked its run
\* RUNNING is the only one to do so until it has saved the outcome.
NoDoubleExecution ==
  \A p, q \in Procs :
    p # q => ~(proc[p].run = proc[q].run /\ proc[p].pc \in Executed
                                         /\ proc[q].pc \in Executed)

\* Two dispatchers never send the same run: the conditional update of the
\* claim decides between tasks that looked up the same PENDING row.
OneSenderPerRun ==
  \A p, q \in Procs :
    p # q => ~(proc[p].run = proc[q].run /\ proc[p].pc = "send"
                                         /\ proc[q].pc = "send")

\* When nothing is in progress the stored experiment status is the one its
\* runs imply.
StatusFollowsRuns == Quiet /\ exp.present => exp.status = Derived(Load, runs)

\* No request of a patient client but upload or delete of the whole experiment
\* takes away a run shown RUNNING, also one that a dead worker left behind.
NoActiveRunDeleted ==
  [][\A r \in Running : runs'[r].st = "DELETED" =>
       ~exp'.present \/ \E p \in Procs : proc[p].pc = "uploadDelete"]_vars

\* No run stays RUNNING for ever, and where failures do not stop a plan, once a
\* run of a generation is RUNNING the chain of dispatches goes on until the
\* generation has no PENDING run left.
GenerationDrains ==
  /\ \A r \in RunIds : r \in Running ~> r \notin Running
  /\ \A g \in 1..MaxGen : (\E r \in Running : runs[r].gen = g) ~> PendingIn(g) = {}
=============================================================================
