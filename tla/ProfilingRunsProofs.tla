------------------------- MODULE ProfilingRunsProofs -------------------------
(***************************************************************************)
(* What ProfilingRuns promises for every number of handlers, workers,      *)
(* runs, generations and message copies: to all clients first, and then to *)
(* a patient one, which sends no request before all tasks and messages of  *)
(* the earlier ones are gone.                                              *)
(***************************************************************************)
EXTENDS ProfilingRuns, FiniteSetTheorems, TLAPS

USE ProcsAssumption, BoundsAssumption, ChoicesAssumption

\* Type correctness is not inductive: a rerun that will create a row needs the
\* loaded generation to have a successor, and a generate counts its rows down
\* to one and stops.
Creating(rec) ==
  /\ rec.op = "rerunNew" /\ rec.pc \in {"check", "prepare"} => rec.snap.gen < MaxGen
  /\ rec.pc = "publish" => rec.snap.gen < MaxGen
  /\ rec.pc \in {"genSave", "genDelete", "genCreate"} => rec.left # 0
WorkRecords == {rec \in ProcRecords : Creating(rec)}

IndType ==
  /\ exp \in Experiments
  /\ runs \in [RunIds -> RunRows]
  /\ queue \in [RunIds -> 0..MaxCopies]
  /\ proc \in [Procs -> WorkRecords]

-----------------------------------------------------------------------------
(* Records *)

LEMMA PCsMembers ==
  /\ "idle" \in PCs /\ "send" \in PCs /\ "load" \in PCs /\ "begin" \in PCs
  /\ "check" \in PCs /\ "select" \in PCs /\ "prepare" \in PCs /\ "publish" \in PCs
  /\ "mark" \in PCs /\ "sync" \in PCs /\ "syncSave" \in PCs
  /\ "genSave" \in PCs /\ "genDelete" \in PCs /\ "genCreate" \in PCs
  /\ "bulkDelete" \in PCs /\ "deleteRow" \in PCs /\ "resync" \in PCs
  /\ "resyncSave" \in PCs /\ "uploadDelete" \in PCs /\ "uploadSave" \in PCs
  /\ "began" \in PCs /\ "beganSave" \in PCs /\ "exec" \in PCs
  /\ "finished" \in PCs /\ "finishedSave" \in PCs /\ "next" \in PCs
  /\ "claim" \in PCs
BY DEF PCs, RequestPCs, TaskPCs

LEMMA IdleType == Idle \in WorkRecords
BY DEF Idle, WorkRecords, Creating, ProcRecords, NoSnapshot, Snapshots, PCs,
       RequestKinds, NoRun, ExperimentStatus

\* A record with only a program counter and a run in it.
LEMMA SendingType ==
  ASSUME NEW r \in RunIds \cup {NoRun}, NEW pc \in {"send", "load", "claim"}
  PROVE  [Idle EXCEPT !.pc = pc, !.run = r] \in WorkRecords
<1>1. [Idle EXCEPT !.pc = pc, !.run = r] \in ProcRecords
  BY IdleType, PCsMembers DEF ProcRecords, WorkRecords
<1> QED BY <1>1, IdleType DEF WorkRecords, Creating, ProcRecords

\* A status is derived from any in-memory experiment.
LEMMA DerivedType ==
  ASSUME NEW e, NEW rs
  PROVE  Derived(e, rs) \in ExperimentStatus
BY DEF Derived, ExperimentStatus

LEMMA BecomeType ==
  ASSUME IndType, NEW p \in Procs, NEW rec \in WorkRecords, Become(p, rec)
  PROVE  proc' \in [Procs -> WorkRecords]
BY DEF Become, IndType

LEMMA ReturnType ==
  ASSUME IndType, NEW p \in Procs, Return(p)
  PROVE  proc' \in [Procs -> WorkRecords]
BY BecomeType, IdleType DEF Return

\* Goto keeps a record well formed when it does not enter a creating state.
LEMMA GotoType ==
  ASSUME IndType, NEW p \in Procs, NEW pc \in PCs, Goto(p, pc),
         Creating([proc[p] EXCEPT !.pc = pc])
  PROVE  proc' \in [Procs -> WorkRecords]
<1>1. proc[p] \in ProcRecords
  BY DEF IndType, WorkRecords
<1>2. [proc[p] EXCEPT !.pc = pc] \in WorkRecords
  BY <1>1 DEF WorkRecords, ProcRecords
<1> QED BY <1>2 DEF Goto, IndType

LEMMA LoadType ==
  ASSUME IndType
  PROVE  Load \in Snapshots
BY DEF IndType, Load, Snapshots, Experiments

LEMMA RunsUpdate ==
  ASSUME IndType, NEW r, NEW s \in RunStatus,
         runs' = [runs EXCEPT ![r].st = s]
  PROVE  runs' \in [RunIds -> RunRows]
BY DEF IndType, RunRows, RunStatus

LEMMA WithoutType ==
  ASSUME IndType, NEW S
  PROVE  Without(S) \in [RunIds -> RunRows]
BY DEF IndType, Without, Gone, RunRows, RunStatus

-----------------------------------------------------------------------------
(* Every step keeps the types *)

\* A request that is accepted starts a well-formed record.
LEMMA ArriveType ==
  ASSUME IndType, NEW h \in Handlers, Arrive(h)
  PROVE  IndType'
<1>1. h \in Procs /\ Idle \in WorkRecords /\ Load \in Snapshots
  BY IdleType, LoadType DEF Procs
<1>2. ASSUME NEW kind \in RequestKinds, NEW pc \in PCs
      PROVE  /\ Request(kind, pc) \in ProcRecords
             /\ Request(kind, pc).op = kind /\ Request(kind, pc).pc = pc
             /\ Request(kind, pc).snap = Load
  <2>1. Request(kind, pc) \in ProcRecords
    BY <1>1, <1>2 DEF Request, WorkRecords, ProcRecords
  <2>2. /\ Request(kind, pc).op = kind /\ Request(kind, pc).pc = pc
        /\ Request(kind, pc).snap = Load
    BY DEF Request, Idle
  <2> QED BY <2>1, <2>2
<1>3. exp.gen \in 0..MaxGen /\ \A r \in RunIds : runs[r].sof \in BOOLEAN
  BY DEF IndType, Experiments, RunRows
<1>4. CASE \E g \in 1..MaxGen, r \in RunIds \cup {NoRun} : StartRead(h, g, r)
  <2> PICK g \in 1..MaxGen, r \in RunIds \cup {NoRun} : StartRead(h, g, r)
    BY <1>4
  <2> DEFINE rec == [Request("start", "check") EXCEPT !.gen = g, !.run = r]
  <2>1. /\ Request("start", "check") \in ProcRecords
        /\ Request("start", "check").op = "start"
        /\ Request("start", "check").pc = "check"
    BY <1>2, PCsMembers DEF RequestKinds
  <2>2. rec \in ProcRecords
    BY <2>1, g \in 0..MaxGen DEF ProcRecords
  <2>3. rec.op = "start" /\ rec.pc = "check"
    BY <2>1 DEF ProcRecords
  <2>4. rec \in WorkRecords
    BY <2>2, <2>3 DEF WorkRecords, Creating
  <2> QED BY <1>1, <2>4, BecomeType DEF StartRead, Accept, IndType
<1>5. CASE \E kind \in {"rerunNew", "rerunInPlace"}, r \in RunIds : RerunRead(h, kind, r)
  <2> PICK kind \in {"rerunNew", "rerunInPlace"}, r \in RunIds : RerunRead(h, kind, r)
    BY <1>5
  <2> DEFINE rec == [Request(kind, "check") EXCEPT !.run = r, !.stop = runs[r].sof]
  <2>1. /\ Request(kind, "check") \in ProcRecords
        /\ Request(kind, "check").op = kind /\ Request(kind, "check").snap = Load
    BY <1>2, PCsMembers DEF RequestKinds
  <2>2. Load.gen = exp.gen /\ (kind = "rerunNew" => exp.gen < MaxGen)
    BY DEF RerunRead, Load
  <2>3. rec \in ProcRecords
    BY <1>3, <2>1 DEF ProcRecords
  <2>4. rec.snap = Load /\ rec.pc = "check" /\ rec.op = kind
    BY <1>2, <2>1, PCsMembers DEF ProcRecords, RequestKinds
  <2>5. rec \in WorkRecords
    BY <2>2, <2>3, <2>4 DEF WorkRecords, Creating
  <2> QED BY <1>1, <2>5, BecomeType DEF RerunRead, Accept, IndType
<1>6. CASE \E sof \in StopChoices : GenerateRead(h, sof)
  <2> PICK sof \in StopChoices : GenerateRead(h, sof)
    BY <1>6
  <2> DEFINE rec == [Request("generate", "genSave")
                       EXCEPT !.gen = exp.gen + 1, !.left = PlanSize, !.stop = sof]
  <2>1. /\ Request("generate", "genSave") \in ProcRecords
        /\ Request("generate", "genSave").op = "generate"
        /\ Request("generate", "genSave").pc = "genSave"
    BY <1>2, PCsMembers DEF RequestKinds
  <2>2. exp.gen + 1 \in 0..MaxGen /\ PlanSize \in (0..PlanSize) \ {0} /\ sof \in BOOLEAN
    BY <1>3 DEF GenerateRead
  <2>3. rec \in ProcRecords
    BY <2>1, <2>2 DEF ProcRecords
  <2>4. rec.left # 0 /\ rec.pc = "genSave" /\ rec.op = "generate"
    BY <2>1, <2>2 DEF ProcRecords
  <2>5. rec \in WorkRecords
    BY <2>3, <2>4 DEF WorkRecords, Creating
  <2> QED BY <1>1, <2>5, BecomeType DEF GenerateRead, Accept, IndType
<1>7. CASE \E sof \in StopChoices, g \in 1..MaxGen : ReplaceGenRead(h, g, sof)
  <2> PICK sof \in StopChoices, g \in 1..MaxGen : ReplaceGenRead(h, g, sof)
    BY <1>7
  <2> DEFINE rec == [Request("replaceGen", "genSave")
                       EXCEPT !.gen = g, !.left = PlanSize, !.stop = sof]
  <2>1. /\ Request("replaceGen", "genSave") \in ProcRecords
        /\ Request("replaceGen", "genSave").op = "replaceGen"
        /\ Request("replaceGen", "genSave").pc = "genSave"
    BY <1>2, PCsMembers DEF RequestKinds
  <2>2. g \in 0..MaxGen /\ PlanSize \in (0..PlanSize) \ {0} /\ sof \in BOOLEAN
    BY <1>3 DEF ReplaceGenRead
  <2>3. rec \in ProcRecords
    BY <2>1, <2>2 DEF ProcRecords
  <2>4. rec.left # 0 /\ rec.pc = "genSave" /\ rec.op = "replaceGen"
    BY <2>1, <2>2 DEF ProcRecords
  <2>5. rec \in WorkRecords
    BY <2>3, <2>4 DEF WorkRecords, Creating
  <2> QED BY <1>1, <2>5, BecomeType DEF ReplaceGenRead, Accept, IndType
<1>8. CASE \E sof \in StopChoices, r \in RunIds : ReplaceRunRead(h, r, sof)
  <2> PICK sof \in StopChoices, r \in RunIds : ReplaceRunRead(h, r, sof)
    BY <1>8
  <2> DEFINE rec == [Request("replaceRun", "genSave")
                       EXCEPT !.gen = exp.gen + 1, !.run = r, !.left = 1, !.stop = sof]
  <2>1. /\ Request("replaceRun", "genSave") \in ProcRecords
        /\ Request("replaceRun", "genSave").op = "replaceRun"
        /\ Request("replaceRun", "genSave").pc = "genSave"
    BY <1>2, PCsMembers DEF RequestKinds
  <2>2. exp.gen + 1 \in 0..MaxGen /\ 1 \in (0..PlanSize) \ {0} /\ sof \in BOOLEAN
    BY <1>3 DEF ReplaceRunRead
  <2>3. rec \in ProcRecords
    BY <2>1, <2>2 DEF ProcRecords
  <2>4. rec.left # 0 /\ rec.pc = "genSave" /\ rec.op = "replaceRun"
    BY <2>1, <2>2 DEF ProcRecords
  <2>5. rec \in WorkRecords
    BY <2>3, <2>4 DEF WorkRecords, Creating
  <2> QED BY <1>1, <2>5, BecomeType DEF ReplaceRunRead, Accept, IndType
<1>9. CASE \E r \in RunIds : DeleteRunRead(h, r)
  <2> PICK r \in RunIds : DeleteRunRead(h, r)
    BY <1>9
  <2>1. /\ Request("deleteRun", "deleteRow") \in ProcRecords
        /\ Request("deleteRun", "deleteRow").op = "deleteRun"
        /\ Request("deleteRun", "deleteRow").pc = "deleteRow"
    BY <1>2, PCsMembers DEF RequestKinds
  <2>2. [Request("deleteRun", "deleteRow") EXCEPT !.run = r] \in WorkRecords
    BY <2>1 DEF WorkRecords, ProcRecords, Creating
  <2> QED BY <1>1, <2>2, BecomeType DEF DeleteRunRead, Accept, IndType
<1>10. CASE \E g \in 0..MaxGen : BulkDeleteRead(h, g)
  <2> PICK g \in 0..MaxGen : BulkDeleteRead(h, g)
    BY <1>10
  <2>1. /\ Request("bulkDelete", "bulkDelete") \in ProcRecords
        /\ Request("bulkDelete", "bulkDelete").op = "bulkDelete"
        /\ Request("bulkDelete", "bulkDelete").pc = "bulkDelete"
    BY <1>2, PCsMembers DEF RequestKinds
  <2>2. ASSUME NEW S \in SUBSET RunIds
        PROVE  [Request("bulkDelete", "bulkDelete") EXCEPT !.todo = S] \in WorkRecords
    BY <2>1 DEF WorkRecords, ProcRecords, Creating
  <2>3. \E S \in SUBSET RunIds :
           Become(h, [Request("bulkDelete", "bulkDelete") EXCEPT !.todo = S])
    BY DEF BulkDeleteRead, Live, InGen
  <2>4. proc' \in [Procs -> WorkRecords]
    BY <1>1, <2>2, <2>3, BecomeType
  <2> QED BY <2>4 DEF BulkDeleteRead, Accept, IndType
<1>11. CASE UploadRead(h)
  <2>1. /\ Request("upload", "uploadDelete") \in ProcRecords
        /\ Request("upload", "uploadDelete").op = "upload"
        /\ Request("upload", "uploadDelete").pc = "uploadDelete"
    BY <1>2, PCsMembers DEF RequestKinds
  <2>2. Request("upload", "uploadDelete") \in WorkRecords
    BY <2>1 DEF WorkRecords, Creating
  <2> QED BY <1>1, <1>11, <2>2, BecomeType DEF UploadRead, Accept, IndType
<1> QED BY <1>4, <1>5, <1>6, <1>7, <1>8, <1>9, <1>10, <1>11 DEF Arrive

LEMMA ProcType ==
  ASSUME IndType, NEW p \in Procs
  PROVE  /\ proc[p] \in ProcRecords /\ Creating(proc[p])
         /\ proc[p].gen \in 0..MaxGen /\ proc[p].run \in RunIds \cup {NoRun}
         /\ proc[p].left \in 0..PlanSize /\ proc[p].stop \in BOOLEAN
         /\ proc[p].snap.gen \in 0..MaxGen
         /\ proc[p].snap.status \in ExperimentStatus
<1>1. proc[p] \in WorkRecords
  BY DEF IndType
<1> QED BY <1>1 DEF WorkRecords, ProcRecords, Snapshots

LEMMA CreateType ==
  ASSUME IndType, NEW r \in RunIds, NEW g \in 0..MaxGen, NEW sof \in BOOLEAN,
         CreatePending(r, g, sof)
  PROVE  runs' \in [RunIds -> RunRows]
BY DEF CreatePending, IndType, RunRows, RunStatus

\* Continuing anywhere but in a creating state keeps a record well formed.
LEMMA ContinueType ==
  ASSUME IndType, NEW p \in Procs, NEW rec \in ProcRecords,
         NEW then \in {"idle", "send", "exec", "next"},
         Continue(p, then, rec)
  PROVE  proc' \in [Procs -> WorkRecords]
<1>1. Sending(rec.run) \in WorkRecords
  <2>1. rec.run \in RunIds \cup {NoRun}
    BY DEF ProcRecords
  <2> QED BY <2>1, SendingType DEF Sending
<1>2. [rec EXCEPT !.pc = then] \in WorkRecords
  <2>1. CASE then \in {"exec", "next"}
    BY <2>1, PCsMembers DEF WorkRecords, ProcRecords, Creating
  <2>2. CASE then \in {"idle", "send"}
    BY <2>2, PCsMembers DEF WorkRecords, ProcRecords, Creating
  <2> QED BY <2>1, <2>2
<1>3. CASE then = "idle"
  BY <1>3, IdleType, BecomeType DEF Continue
<1>4. CASE then = "send"
  BY <1>4, <1>1, BecomeType DEF Continue
<1>5. CASE then \in {"exec", "next"}
  BY <1>5, <1>2, BecomeType DEF Continue
<1> QED BY <1>3, <1>4, <1>5

LEMMA SyncType ==
  ASSUME IndType, NEW p \in Procs,
         NEW then \in {"idle", "send", "exec", "next"},
         NEW save \in {"syncSave", "resyncSave", "beganSave", "finishedSave"},
         SyncDerive(p, save, then) \/ SyncSave(p, then)
  PROVE  IndType'
<1>1. proc[p] \in ProcRecords /\ proc[p].snap.status \in ExperimentStatus
  BY ProcType
<1>2. CASE SyncDerive(p, save, then)
  <2> DEFINE derived == Derived(proc[p].snap, runs)
             rec == [proc[p] EXCEPT !.pc = save, !.snap.status = derived]
  <2>1. derived \in ExperimentStatus
    BY DerivedType
  <2> HIDE DEF derived
  <2>2. [proc[p].snap EXCEPT !.status = derived] \in Snapshots
    BY <1>1, <2>1 DEF ProcRecords, Snapshots
  <2>3. rec \in ProcRecords
    BY <1>1, <2>2, PCsMembers DEF ProcRecords
  <2>4. rec.pc = save
    BY <1>1 DEF ProcRecords
  <2>5. rec \in WorkRecords
    BY <2>3, <2>4 DEF WorkRecords, Creating
  <2>6. Continue(p, then, proc[p]) \/ Become(p, rec)
    BY <1>2 DEF SyncDerive, derived
  <2>7. proc' \in [Procs -> WorkRecords]
    BY <1>1, <2>5, <2>6, ContinueType, BecomeType
  <2> QED BY <1>2, <2>7 DEF SyncDerive, IndType
<1>3. CASE SyncSave(p, then)
  <2>1. proc' \in [Procs -> WorkRecords]
    BY <1>1, <1>3, ContinueType, ReturnType DEF SyncSave
  <2>2. exp' \in Experiments
    BY <1>1, <1>3 DEF SyncSave, IndType, Experiments
  <2> QED BY <1>3, <2>1, <2>2 DEF SyncSave, IndType
<1> QED BY <1>2, <1>3

LEMMA ExecutingType ==
  ASSUME NEW r \in RunIds \cup {NoRun}
  PROVE  Executing(r) \in WorkRecords
BY SendingType DEF Executing

\* The steps of a handler up to the point where it hands its run over.
LEMMA ServeType ==
  ASSUME IndType, NEW p \in Procs, Serve(p)
  PROVE  IndType'
<1> USE DEF IndType
<1>t. /\ proc[p] \in ProcRecords /\ Creating(proc[p])
      /\ proc[p].gen \in 0..MaxGen /\ proc[p].run \in RunIds \cup {NoRun}
      /\ proc[p].left \in 0..PlanSize /\ proc[p].stop \in BOOLEAN
      /\ proc[p].snap.gen \in 0..MaxGen /\ proc[p].snap.status \in ExperimentStatus
  BY ProcType
<1>g. ASSUME NEW pc \in {"select", "mark", "sync", "resync", "uploadSave", "send", "began"},
             Goto(p, pc)
      PROVE  proc' \in [Procs -> WorkRecords]
  <2>1. [proc[p] EXCEPT !.pc = pc].pc = pc
    BY <1>t DEF ProcRecords
  <2> QED BY <1>g, <2>1, GotoType, PCsMembers DEF Creating
<1>1. CASE CheckRunning(p)
  <2>1. CASE proc[p].op = "start"
    BY <1>1, <1>g, <2>1, ReturnType DEF CheckRunning
  <2>2. CASE proc[p].op # "start"
    <3>1. Creating([proc[p] EXCEPT !.pc = "prepare"])
      BY <1>1, <1>t DEF CheckRunning, Creating, ProcRecords
    <3> QED BY <1>1, <2>2, <3>1, GotoType, PCsMembers, ReturnType DEF CheckRunning
  <2> QED BY <2>1, <2>2
<1>2. CASE StartSelect(p)
  <2>1. ASSUME NEW r \in RunIds
        PROVE  [proc[p] EXCEPT !.pc = "mark", !.run = r] \in WorkRecords
    BY <1>t, PCsMembers DEF WorkRecords, ProcRecords, Creating
  <2>2. PendingIn(proc[p].gen) \subseteq RunIds
    BY DEF PendingIn, InGen, Live
  <2>3. proc' \in [Procs -> WorkRecords]
    BY <1>2, <2>1, <2>2, BecomeType, ReturnType DEF StartSelect
  <2> QED BY <1>2, <2>3 DEF StartSelect
<1>3. CASE RerunInPlace(p)
  <2>1. runs' \in [RunIds -> RunRows]
    BY <1>3, RunsUpdate DEF RerunInPlace, RunStatus
  <2>2. proc' \in [Procs -> WorkRecords]
    BY <1>3, <1>g, ReturnType DEF RerunInPlace
  <2> QED BY <1>3, <2>1, <2>2 DEF RerunInPlace
<1>4. CASE RerunCreate(p)
  <2>0. proc[p].pc = "prepare" /\ proc[p].op = "rerunNew"
    BY <1>4 DEF RerunCreate
  <2>1. proc[p].snap.gen + 1 \in 0..MaxGen
    BY <2>0, <1>t DEF Creating
  <2>2. ASSUME NEW r \in RunIds
        PROVE  [proc[p] EXCEPT !.pc = "publish", !.run = r] \in WorkRecords
    <3>1. [proc[p] EXCEPT !.pc = "publish", !.run = r] \in ProcRecords
      BY <1>t, PCsMembers DEF ProcRecords
    <3> QED BY <1>t, <1>4, <3>1 DEF WorkRecords, ProcRecords, Creating, RerunCreate
  <2>3. runs' \in [RunIds -> RunRows]
    <3>1. ASSUME NEW r \in RunIds, CreatePending(r, proc[p].snap.gen + 1, proc[p].stop)
          PROVE  runs' \in [RunIds -> RunRows]
      BY <1>t, <2>1, <3>1, CreateType
    <3>2. ASSUME NEW r \in RunIds, CreateAndUndo(r)
          PROVE  runs' \in [RunIds -> RunRows]
      BY <3>2, WithoutType DEF CreateAndUndo
    <3> QED BY <1>4, <3>1, <3>2 DEF RerunCreate
  <2>4. proc' \in [Procs -> WorkRecords]
    BY <1>4, <2>2, BecomeType, ReturnType DEF RerunCreate
  <2> QED BY <1>4, <2>3, <2>4 DEF RerunCreate
<1>5. CASE RerunPublish(p)
  <2> DEFINE g == proc[p].snap.gen + 1
             rec == [proc[p] EXCEPT !.pc = "mark", !.snap.gen = g, !.snap.plan = TRUE]
  <2>1. CASE exp.present /\ exp' = [exp EXCEPT !.gen = g, !.plan = TRUE] /\ Become(p, rec)
    <3>1. g \in 0..MaxGen
      <4>1. proc[p].pc = "publish"
        BY <1>5 DEF RerunPublish
      <4> QED BY <4>1, <1>t DEF Creating
    <3>2. exp' \in Experiments
      BY <2>1, <3>1 DEF Experiments
    <3>3. [proc[p].snap EXCEPT !.gen = g, !.plan = TRUE] \in Snapshots
      BY <1>t, <3>1 DEF ProcRecords, Snapshots
    <3>4. rec \in ProcRecords
      BY <1>t, <3>3, PCsMembers DEF ProcRecords
    <3>5. rec.pc = "mark"
      BY <1>t DEF ProcRecords
    <3>6. rec \in WorkRecords
      BY <3>4, <3>5 DEF WorkRecords, Creating
    <3> QED BY <1>5, <2>1, <3>2, <3>6, BecomeType DEF RerunPublish
  <2>2. CASE ~exp.present /\ Return(p) /\ UNCHANGED exp
    BY <1>5, <2>2, ReturnType DEF RerunPublish
  <2> QED BY <1>5, <2>1, <2>2 DEF RerunPublish
<1>6. CASE MarkRunning(p)
  <2>1. runs' \in [RunIds -> RunRows]
    BY <1>6, RunsUpdate DEF MarkRunning, RunStatus
  <2>2. proc' \in [Procs -> WorkRecords]
    BY <1>6, <1>g, ReturnType DEF MarkRunning
  <2> QED BY <1>6, <2>1, <2>2 DEF MarkRunning
<1>7. CASE SyncMarked(p) \/ SaveMarked(p) \/ Resync(p) \/ SaveResynced(p)
  BY <1>7, SyncType DEF SyncMarked, SaveMarked, Resync, SaveResynced
<1>8. CASE Send(p)
  <2>1. queue' \in [RunIds -> 0..MaxCopies]
    BY <1>8 DEF Send, Enqueue
  <2>2. proc' \in [Procs -> WorkRecords]
    BY <1>8, <1>t, ExecutingType, BecomeType, ReturnType DEF Send
  <2> QED BY <1>8, <2>1, <2>2 DEF Send
<1>9. CASE GenerateSave(p)
  <2> DEFINE rec == [proc[p] EXCEPT
                       !.pc = IF proc[p].op = "generate" THEN "genCreate" ELSE "genDelete",
                       !.snap.gen = proc[p].gen, !.snap.plan = TRUE]
  <2>1. rec \in ProcRecords
    BY <1>t, PCsMembers DEF ProcRecords, Snapshots
  <2>2. rec.left = proc[p].left /\ rec.pc \in {"genCreate", "genDelete"}
    BY <1>t DEF ProcRecords
  <2>3. rec \in WorkRecords
    BY <1>9, <1>t, <2>1, <2>2 DEF WorkRecords, Creating, GenerateSave
  <2>4. proc' \in [Procs -> WorkRecords]
    BY <1>9, <2>3, BecomeType, ReturnType DEF GenerateSave
  <2>5. exp' \in Experiments
    BY <1>9, <1>t DEF GenerateSave, Experiments
  <2> QED BY <1>9, <2>4, <2>5 DEF GenerateSave
<1>10. CASE GenerateDelete(p)
  <2>1. Creating([proc[p] EXCEPT !.pc = "genCreate"])
    BY <1>10, <1>t DEF GenerateDelete, Creating, ProcRecords
  <2>2. proc' \in [Procs -> WorkRecords]
    BY <1>10, <2>1, GotoType, PCsMembers DEF GenerateDelete
  <2> QED BY <1>10, <2>2, WithoutType DEF GenerateDelete
<1>11. CASE GenerateCreate(p)
  <2> DEFINE rec == [proc[p] EXCEPT
                       !.pc = IF proc[p].left = 1 THEN "resync" ELSE "genCreate",
                       !.left = proc[p].left - 1]
  <2>1. proc[p].left # 0 /\ proc[p].left - 1 \in 0..PlanSize
    BY <1>11, <1>t DEF GenerateCreate, Creating
  <2>2. rec \in ProcRecords
    BY <1>t, <2>1, PCsMembers DEF ProcRecords
  <2>3. /\ rec.left = proc[p].left - 1
        /\ rec.pc = IF proc[p].left = 1 THEN "resync" ELSE "genCreate"
    BY <1>t DEF ProcRecords
  <2>4. rec \in WorkRecords
    <3>1. rec.pc \in {"resync", "genCreate"} /\ (rec.pc = "genCreate" => rec.left # 0)
      BY <1>t, <2>1, <2>3
    <3> QED BY <2>2, <3>1 DEF WorkRecords, Creating
  <2>5. proc' \in [Procs -> WorkRecords]
    BY <1>11, <2>4, BecomeType, ReturnType DEF GenerateCreate
  <2>6. runs' \in [RunIds -> RunRows]
    <3>1. ASSUME NEW r \in RunIds, CreatePending(r, proc[p].gen, proc[p].stop)
          PROVE  runs' \in [RunIds -> RunRows]
      BY <1>t, <3>1, CreateType
    <3>2. ASSUME NEW r \in RunIds, CreateAndUndo(r)
          PROVE  runs' \in [RunIds -> RunRows]
      BY <3>2, WithoutType DEF CreateAndUndo
    <3> QED BY <1>11, <3>1, <3>2 DEF GenerateCreate
  <2> QED BY <1>11, <2>5, <2>6 DEF GenerateCreate
<1>12. CASE DeleteRow(p)
  <2>1. proc' \in [Procs -> WorkRecords]
    BY <1>12, <1>g, ReturnType DEF DeleteRow
  <2> QED BY <1>12, <2>1, WithoutType DEF DeleteRow
<1>13. CASE BulkDeleteOne(p)
  <2>1. ASSUME NEW r
        PROVE  [proc[p] EXCEPT !.todo = @ \ {r}] \in WorkRecords
    BY <1>t DEF WorkRecords, ProcRecords, Creating
  <2>2. proc' \in [Procs -> WorkRecords]
    BY <1>13, <2>1, <1>g, BecomeType DEF BulkDeleteOne
  <2>3. runs' \in [RunIds -> RunRows]
    BY <1>13, WithoutType DEF BulkDeleteOne
  <2> QED BY <1>13, <2>2, <2>3 DEF BulkDeleteOne
<1>14. CASE UploadDeleteRuns(p)
  <2>1. proc' \in [Procs -> WorkRecords]
    BY <1>14, <1>g DEF UploadDeleteRuns
  <2> QED BY <1>14, <2>1, WithoutType DEF UploadDeleteRuns
<1>15. CASE UploadSave(p)
  BY <1>15, <1>t, ReturnType DEF UploadSave, Experiments, ExperimentStatus
<1> QED BY <1>1, <1>2, <1>3, <1>4, <1>5, <1>6, <1>7, <1>8, <1>9, <1>10, <1>11,
           <1>12, <1>13, <1>14, <1>15 DEF Serve

\* The steps of a task and of the dispatcher at its end.
LEMMA TaskType ==
  ASSUME IndType, NEW p \in Procs, Task(p)
  PROVE  IndType'
<1> USE DEF IndType
<1>t. /\ proc[p] \in ProcRecords /\ Creating(proc[p])
      /\ proc[p].run \in RunIds \cup {NoRun}
  BY ProcType
<1>g. ASSUME NEW pc \in {"send", "began"}, Goto(p, pc)
      PROVE  proc' \in [Procs -> WorkRecords]
  <2>1. [proc[p] EXCEPT !.pc = pc].pc = pc
    BY <1>t DEF ProcRecords
  <2> QED BY <1>g, <2>1, GotoType, PCsMembers DEF Creating
<1>1. CASE TaskLoad(p)
  <2> DEFINE rec == [proc[p] EXCEPT !.pc = "begin", !.gen = runs[proc[p].run].gen,
                                    !.snap = Load]
  <2>1. ASSUME proc[p].run \in Live(runs)
        PROVE  rec \in WorkRecords
    <3>1. runs[proc[p].run].gen \in 0..MaxGen
      BY <2>1 DEF Live, RunRows
    <3>2. rec \in ProcRecords
      BY <1>t, <3>1, LoadType, PCsMembers DEF ProcRecords
    <3>3. rec.pc = "begin"
      BY <1>t DEF ProcRecords
    <3> QED BY <3>2, <3>3 DEF WorkRecords, Creating
  <2>2. proc' \in [Procs -> WorkRecords]
    BY <1>1, <2>1, BecomeType, ReturnType DEF TaskLoad
  <2> QED BY <1>1, <2>2 DEF TaskLoad
<1>2. CASE TaskBegin(p)
  <2>1. runs' \in [RunIds -> RunRows]
    BY <1>2, RunsUpdate DEF TaskBegin, RunStatus
  <2>2. proc' \in [Procs -> WorkRecords]
    BY <1>2, <1>g, ReturnType DEF TaskBegin
  <2> QED BY <1>2, <2>1, <2>2 DEF TaskBegin
<1>3. CASE TaskSyncBegan(p) \/ TaskSaveBegan(p) \/ TaskSyncFinished(p) \/ TaskSaveFinished(p)
  BY <1>3, SyncType DEF TaskSyncBegan, TaskSaveBegan, TaskSyncFinished,
     TaskSaveFinished, AfterOutcome
<1>4. ASSUME NEW ok \in BOOLEAN, TaskFinish(p, ok)
      PROVE  IndType'
  <2> DEFINE rec == [proc[p] EXCEPT !.pc = "finished",
                                    !.stop = ~ok /\ runs[proc[p].run].sof]
  <2>1. rec \in WorkRecords
    BY <1>t, PCsMembers DEF WorkRecords, ProcRecords, Creating
  <2>2. runs' \in [RunIds -> RunRows]
    BY <1>4, RunsUpdate DEF TaskFinish, RunStatus
  <2>3. proc' \in [Procs -> WorkRecords]
    BY <1>4, <2>1, BecomeType, ReturnType DEF TaskFinish
  <2> QED BY <1>4, <2>2, <2>3 DEF TaskFinish
<1>5. CASE DispatchLookup(p)
  <2>1. ASSUME NEW r \in RunIds
        PROVE  [Idle EXCEPT !.pc = "claim", !.run = r] \in WorkRecords
    BY SendingType
  <2>2. PendingIn(proc[p].gen) \subseteq RunIds
    BY DEF PendingIn, InGen, Live
  <2>3. proc' \in [Procs -> WorkRecords]
    BY <1>5, <2>1, <2>2, BecomeType, ReturnType DEF DispatchLookup
  <2> QED BY <1>5, <2>3 DEF DispatchLookup
<1>6. CASE DispatchClaim(p)
  <2>1. runs' \in [RunIds -> RunRows]
    BY <1>6, RunsUpdate DEF DispatchClaim, RunStatus
  <2>2. proc' \in [Procs -> WorkRecords]
    BY <1>6, <1>g, ReturnType DEF DispatchClaim
  <2> QED BY <1>6, <2>1, <2>2 DEF DispatchClaim
<1> QED BY <1>1, <1>2, <1>3, <1>4, <1>5, <1>6 DEF Task

LEMMA NextType == IndType /\ [Next]_vars => IndType'
<1> SUFFICES ASSUME IndType, [Next]_vars PROVE IndType'
  OBVIOUS
<1>1. ASSUME NEW w \in Workers, NEW r \in RunIds, Deliver(w, r)
      PROVE  IndType'
  <2>1. queue' \in [RunIds -> 0..MaxCopies]
    BY <1>1 DEF Deliver, IndType
  <2>2. proc' \in [Procs -> WorkRecords]
    BY <1>1, ExecutingType, BecomeType DEF Deliver, Procs
  <2> QED BY <1>1, <2>1, <2>2 DEF Deliver, IndType
<1>2. ASSUME NEW r \in RunIds, Redeliver(r)
      PROVE  IndType'
  BY <1>2 DEF Redeliver, IndType
<1>3. ASSUME NEW p \in Procs, Crash(p)
      PROVE  IndType'
  BY <1>3, ReturnType DEF Crash, IndType
<1>4. CASE UNCHANGED vars
  BY <1>4 DEF vars, IndType
<1>5. CASE DeleteExperiment
  BY <1>5, WithoutType DEF DeleteExperiment, IndType, Experiments
<1> QED BY <1>1, <1>2, <1>3, <1>4, <1>5, ArriveType, ServeType, TaskType
        DEF Next, Progress, Delivery, Fault

LEMMA InitType == Init => IndType
<1> SUFFICES ASSUME Init PROVE IndType
  OBVIOUS
<1>1. exp \in Experiments
  BY DEF Init, Experiments, ExperimentStatus
<1>2. runs \in [RunIds -> RunRows]
  BY DEF Init, RunRows
<1>3. queue \in [RunIds -> 0..MaxCopies] /\ proc \in [Procs -> WorkRecords]
  BY IdleType DEF Init
<1> QED BY <1>1, <1>2, <1>3 DEF IndType

LEMMA Typed == Spec => []IndType
BY InitType, NextType, PTL DEF Spec

\* Every row, snapshot, message count and process record stays well formed: no
\* generation, key or row count a handler computes leaves its range.
THEOREM TypeCorrect == Spec => []TypeOK
<1>1. IndType => TypeOK
  BY DEF IndType, TypeOK, WorkRecords
<1> QED BY <1>1, Typed, PTL

-----------------------------------------------------------------------------
(* What a step may do to the rows *)

\* The only things a step does to the table of runs: nothing, deleting rows,
\* changing the status of an existing row, creating a row under an existing
\* experiment; and only a delete of all rows takes the experiment away.
RowsStep ==
  \/ UNCHANGED runs /\ (exp.present => exp'.present)
  \/ UNCHANGED exp /\ \E S : runs' = Without(S)
  \/ runs' = Without(Live(runs))
  \/ UNCHANGED exp /\ \E r \in Live(runs), st \in RunStatus :
                         runs' = [runs EXCEPT ![r].st = st]
  \/ /\ UNCHANGED exp /\ exp.present
     /\ \E r \in Unused, row \in RunRows : runs' = [runs EXCEPT ![r] = row]

LEMMA CreateRows ==
  ASSUME IndType, NEW r \in RunIds, NEW g \in 0..MaxGen, NEW sof \in BOOLEAN,
         UNCHANGED exp, CreatePending(r, g, sof)
  PROVE  RowsStep
BY DEF RowsStep, CreatePending, IsFirst, RunRows, RunStatus

LEMMA ServeRows ==
  ASSUME IndType, NEW p \in Procs, Serve(p)
  PROVE  RowsStep
<1>t. /\ Creating(proc[p]) /\ proc[p].gen \in 0..MaxGen
      /\ proc[p].stop \in BOOLEAN /\ proc[p].snap.gen \in 0..MaxGen
  BY ProcType
<1>1. CASE \/ CheckRunning(p) \/ StartSelect(p) \/ Send(p)
           \/ SyncMarked(p) \/ SaveMarked(p) \/ Resync(p) \/ SaveResynced(p)
  BY <1>1 DEF CheckRunning, StartSelect, Send, SyncMarked, SaveMarked, Resync,
     SaveResynced, SyncDerive, SyncSave, RowsStep, IndType, Experiments
<1>2. CASE RerunPublish(p) \/ GenerateSave(p) \/ UploadSave(p)
  <2>1. ASSUME NEW g PROVE [exp EXCEPT !.gen = g, !.plan = TRUE].present = exp.present
    BY DEF IndType, Experiments
  <2>2. CASE RerunPublish(p)
    BY <2>1, <2>2 DEF RerunPublish, RowsStep
  <2>3. CASE GenerateSave(p)
    BY <2>1, <2>3 DEF GenerateSave, RowsStep
  <2>4. CASE UploadSave(p)
    BY <2>4 DEF UploadSave, RowsStep
  <2> QED BY <1>2, <2>2, <2>3, <2>4
<1>3. CASE RerunInPlace(p) \/ MarkRunning(p)
  BY <1>3 DEF RerunInPlace, MarkRunning, RowsStep, RunStatus
<1>4. CASE DeleteRow(p) \/ BulkDeleteOne(p) \/ UploadDeleteRuns(p) \/ GenerateDelete(p)
  BY <1>4 DEF DeleteRow, BulkDeleteOne, UploadDeleteRuns, GenerateDelete, RowsStep
<1>5. ASSUME NEW r \in RunIds, CreateAndUndo(r), UNCHANGED exp
      PROVE  RowsStep
  BY <1>5 DEF CreateAndUndo, RowsStep
<1>6. CASE RerunCreate(p)
  <2>1. proc[p].pc = "prepare" /\ proc[p].op = "rerunNew" /\ UNCHANGED exp
    BY <1>6 DEF RerunCreate
  <2>2. proc[p].snap.gen + 1 \in 0..MaxGen
    BY <1>t, <2>1 DEF Creating
  <2>3. ASSUME NEW r \in RunIds, CreatePending(r, proc[p].snap.gen + 1, proc[p].stop)
        PROVE  RowsStep
    BY <1>t, <2>1, <2>2, <2>3, CreateRows
  <2>4. CASE UNCHANGED runs
    BY <2>1, <2>4 DEF RowsStep
  <2> QED BY <1>5, <1>6, <2>1, <2>3, <2>4 DEF RerunCreate
<1>7. CASE GenerateCreate(p)
  <2>1. UNCHANGED exp
    BY <1>7 DEF GenerateCreate
  <2>2. ASSUME NEW r \in RunIds, CreatePending(r, proc[p].gen, proc[p].stop)
        PROVE  RowsStep
    BY <1>t, <2>1, <2>2, CreateRows
  <2>3. CASE UNCHANGED runs
    BY <2>1, <2>3 DEF RowsStep
  <2> QED BY <1>5, <1>7, <2>1, <2>2, <2>3 DEF GenerateCreate
<1> QED BY <1>1, <1>2, <1>3, <1>4, <1>6, <1>7 DEF Serve

LEMMA TaskRows ==
  ASSUME IndType, NEW p \in Procs, Task(p)
  PROVE  RowsStep
<1>1. CASE TaskLoad(p) \/ DispatchLookup(p)
  BY <1>1 DEF TaskLoad, DispatchLookup, RowsStep
<1>2. CASE TaskSyncBegan(p) \/ TaskSaveBegan(p) \/ TaskSyncFinished(p) \/ TaskSaveFinished(p)
  BY <1>2 DEF TaskSyncBegan, TaskSaveBegan, TaskSyncFinished, TaskSaveFinished,
     SyncDerive, SyncSave, RowsStep, IndType, Experiments
<1>3. CASE TaskBegin(p)
  BY <1>3 DEF TaskBegin, RowsStep, RunStatus
<1>4. ASSUME NEW ok \in BOOLEAN, TaskFinish(p, ok)
      PROVE  RowsStep
  BY <1>4 DEF TaskFinish, RowsStep, RunStatus
<1>5. CASE DispatchClaim(p)
  <2> DEFINE r == proc[p].run
  <2>1. CASE r \in RunIds /\ runs[r].st = "PENDING"
    BY <1>5, <2>1 DEF DispatchClaim, RowsStep, Live, RunStatus
  <2>2. CASE r \notin RunIds
    BY <1>5, <2>2 DEF DispatchClaim, RowsStep, IndType
  <2>3. CASE runs[r].st # "PENDING"
    BY <1>5, <2>3 DEF DispatchClaim, RowsStep
  <2> QED BY <2>1, <2>2, <2>3
<1> QED BY <1>1, <1>2, <1>3, <1>4, <1>5 DEF Task

LEMMA NextRows == IndType /\ [Next]_vars => RowsStep
<1> SUFFICES ASSUME IndType, [Next]_vars PROVE RowsStep
  OBVIOUS
<1>1. ASSUME NEW h \in Handlers, Arrive(h)
      PROVE  RowsStep
  <2>1. UNCHANGED <<exp, runs>>
    BY <1>1 DEF Arrive, StartRead, RerunRead, GenerateRead, ReplaceGenRead,
       ReplaceRunRead, DeleteRunRead, BulkDeleteRead, UploadRead, Accept
  <2> QED BY <2>1 DEF RowsStep
<1>2. CASE DeleteExperiment
  BY <1>2 DEF DeleteExperiment, RowsStep
<1>3. CASE Delivery \/ Fault \/ UNCHANGED vars
  BY <1>3 DEF Delivery, Fault, Deliver, Redeliver, Crash, vars, RowsStep
<1> QED BY <1>1, <1>2, <1>3, ServeRows, TaskRows DEF Next, Progress

\* A deleted run stays deleted: whatever a task or handler still holds of it in
\* memory, none of their saves recreates the row.
THEOREM DeletedForEver == Spec => NoResurrection
<1>1. IndType /\ RowsStep =>
        \A r \in RunIds : runs[r].st = "DELETED" => runs'[r].st = "DELETED"
  BY DEF RowsStep, IndType, Without, Gone, Live, Unused, RunStatus
<1>2. IndType /\ [Next]_vars =>
        [\A r \in RunIds : runs[r].st = "DELETED" => runs'[r].st = "DELETED"]_vars
  BY <1>1, NextRows
<1> QED BY <1>2, Typed, PTL DEF Spec, NoResurrection

\* Rows exist only under an existing experiment, also when its delete comes
\* between two creates of a generate or rerun.
THEOREM RowsHaveExperiment == Spec => []RowsBelongToExperiment
<1>1. Init => RowsBelongToExperiment
  BY DEF Init, RowsBelongToExperiment, Live, RunStatus
<1>2. IndType /\ RowsStep /\ RowsBelongToExperiment => RowsBelongToExperiment'
  BY DEF RowsStep, IndType, RowsBelongToExperiment, Without, Gone, Live, Unused,
     RunStatus
<1>3. IndType /\ [Next]_vars /\ RowsBelongToExperiment => RowsBelongToExperiment'
  BY <1>2, NextRows
<1> QED BY <1>1, <1>3, Typed, PTL DEF Spec

-----------------------------------------------------------------------------
(* A run shown RUNNING is in somebody's hands *)

\* A step of one process keeps every RUNNING run attended when the process does
\* not let go of a run that stays RUNNING, and when a run that becomes RUNNING
\* is one it now holds.
LEMMA HandOver ==
  ASSUME IndType, NoOrphanRunning, NEW p \in Procs, NEW rec,
         proc' = [proc EXCEPT ![p] = rec],
         UNCHANGED queue,
         \A r \in Running' : (r \in Running /\ ~Holds(p, r))
                             \/ (rec.run = r /\ rec.pc \in Holding)
  PROVE  NoOrphanRunning'
<1> SUFFICES ASSUME NEW r \in Running'
             PROVE  queue'[r] > 0 \/ \E q \in Procs : Holds(q, r)'
  BY DEF NoOrphanRunning
<1>1. CASE rec.run = r /\ rec.pc \in Holding
  BY <1>1 DEF Holds, IndType
<1>2. CASE r \in Running /\ ~Holds(p, r)
  <2>1. CASE queue[r] > 0
    BY <2>1
  <2>2. ASSUME NEW q \in Procs, Holds(q, r)
        PROVE  Holds(q, r)'
    BY <1>2, <2>2 DEF Holds, IndType
  <2> QED BY <1>2, <2>1, <2>2 DEF NoOrphanRunning
<1> QED BY <1>1, <1>2

LEMMA Bystander ==
  ASSUME IndType, NoOrphanRunning, NEW p \in Procs, NEW rec,
         proc' = [proc EXCEPT ![p] = rec],
         UNCHANGED queue,
         proc[p].pc \notin Holding,
         Running' \subseteq Running
  PROVE  NoOrphanRunning'
BY HandOver DEF Holds

\* What deleting rows, resetting one to PENDING or creating one leaves RUNNING.
LEMMA NoNewRunning ==
  ASSUME IndType,
         \/ UNCHANGED runs
         \/ \E S : runs' = Without(S)
         \/ \E r, st : st # "RUNNING" /\ runs' = [runs EXCEPT ![r].st = st]
         \/ \E r, row : row.st # "RUNNING" /\ runs' = [runs EXCEPT ![r] = row]
  PROVE  Running' \subseteq Running
BY DEF Running, IndType, Without, Gone, RunRows

LEMMA PCsHolding ==
  /\ "idle" \notin Holding /\ "check" \notin Holding /\ "select" \notin Holding
  /\ "prepare" \notin Holding /\ "publish" \notin Holding /\ "mark" \notin Holding
  /\ "genSave" \notin Holding /\ "genDelete" \notin Holding
  /\ "genCreate" \notin Holding /\ "bulkDelete" \notin Holding
  /\ "deleteRow" \notin Holding /\ "resync" \notin Holding
  /\ "resyncSave" \notin Holding /\ "uploadDelete" \notin Holding
  /\ "uploadSave" \notin Holding /\ "finished" \notin Holding
  /\ "finishedSave" \notin Holding /\ "next" \notin Holding /\ "claim" \notin Holding
  /\ "sync" \in Holding /\ "syncSave" \in Holding /\ "send" \in Holding
  /\ "load" \in Holding /\ "begin" \in Holding /\ "began" \in Holding
  /\ "beganSave" \in Holding /\ "exec" \in Holding
BY DEF Holding

\* A process that is not holding a run takes up the one it marks RUNNING.
LEMMA TakesUp ==
  ASSUME IndType, NoOrphanRunning, NEW p \in Procs, NEW pc \in Holding,
         \/ UNCHANGED runs
         \/ runs' = [runs EXCEPT ![proc[p].run].st = "RUNNING"],
         UNCHANGED queue,
         Goto(p, pc)
  PROVE  NoOrphanRunning'
<1> DEFINE rec == [proc[p] EXCEPT !.pc = pc]
<1>1. rec.run = proc[p].run /\ rec.pc = pc
  BY ProcType DEF ProcRecords
<1>2. proc' = [proc EXCEPT ![p] = rec]
  BY DEF Goto
<1>3. ASSUME NEW r \in Running' PROVE r \in Running \/ r = proc[p].run
  BY <1>3 DEF Running, IndType
<1>4. \A r \in Running' : (r \in Running /\ ~Holds(p, r)) \/ (rec.run = r /\ rec.pc \in Holding)
  BY <1>1, <1>3 DEF Holds
<1> QED BY <1>2, <1>4, HandOver

\* A sync before the run is sent or executed keeps the run in hand, also when
\* it has to save; a sync after the outcome has no run in hand.
LEMMA SyncAttends ==
  ASSUME IndType, NoOrphanRunning, RowsBelongToExperiment, NEW p \in Procs,
         NEW then, NEW save,
         SyncDerive(p, save, then) \/ SyncSave(p, then),
         \/ then \in {"send", "exec"} /\ save \in Holding
         \/ then \in {"idle", "next"} /\ proc[p].pc \notin Holding
  PROVE  NoOrphanRunning'
<1>1. UNCHANGED <<runs, queue>> /\ Running' = Running
  BY DEF SyncDerive, SyncSave, Running
<1>2. proc[p] \in ProcRecords
  BY ProcType
<1>3. CASE Return(p) /\ ~exp.present
  <2>1. Running = {}
    BY <1>3 DEF RowsBelongToExperiment, Live, Running, RunStatus
  <2> QED BY <1>1, <2>1 DEF NoOrphanRunning
<1>4. CASE Continue(p, then, proc[p])
  <2>1. PICK rec : proc' = [proc EXCEPT ![p] = rec]
                   /\ (then = "send" => rec = Sending(proc[p].run))
                   /\ (then = "exec" => rec = [proc[p] EXCEPT !.pc = then])
    BY <1>4 DEF Continue, Become
  <2>2. CASE then \in {"send", "exec"}
    <3>1. rec.run = proc[p].run /\ rec.pc \in Holding
      <4>1. Sending(proc[p].run).run = proc[p].run /\ Sending(proc[p].run).pc = "send"
        BY DEF Sending, Idle
      <4>2. LET e == [proc[p] EXCEPT !.pc = "exec"]
            IN  e.run = proc[p].run /\ e.pc = "exec"
        BY <1>2 DEF ProcRecords
      <4> QED BY <2>1, <2>2, <4>1, <4>2, PCsHolding
    <3>2. \A r \in Running' : (r \in Running /\ ~Holds(p, r))
                             \/ (rec.run = r /\ rec.pc \in Holding)
      BY <1>1, <3>1 DEF Holds
    <3> QED BY <1>1, <2>1, <3>2, HandOver
  <2>3. CASE proc[p].pc \notin Holding
    BY <1>1, <2>1, <2>3, Bystander
  <2> QED BY <2>2, <2>3
<1>5. CASE Become(p, [proc[p] EXCEPT !.pc = save,
                                     !.snap.status = Derived(proc[p].snap, runs)])
  <2> DEFINE derived == Derived(proc[p].snap, runs)
             rec == [proc[p] EXCEPT !.pc = save, !.snap.status = derived]
  <2>2. proc' = [proc EXCEPT ![p] = rec]
    BY <1>5 DEF Become
  <2> HIDE DEF derived
  <2>1. rec.run = proc[p].run /\ rec.pc = save
    BY <1>2 DEF ProcRecords
  <2> HIDE DEF rec
  <2>3. CASE save \in Holding
    <3>1. \A r \in Running' : (r \in Running /\ ~Holds(p, r))
                             \/ (rec.run = r /\ rec.pc \in Holding)
      BY <1>1, <2>1, <2>3 DEF Holds
    <3> QED BY <1>1, <2>2, <3>1, HandOver
  <2>4. CASE proc[p].pc \notin Holding
    BY <1>1, <2>2, <2>4, Bystander
  <2> QED BY <2>3, <2>4
<1> QED BY <1>3, <1>4, <1>5 DEF SyncDerive, SyncSave

LEMMA SendAttends ==
  ASSUME IndType, NoOrphanRunning, NEW p \in Procs, Send(p)
  PROVE  NoOrphanRunning'
<1> DEFINE r == proc[p].run
<1>1. Running' = Running
  BY DEF Send, Running
<1>2. \A q \in RunIds : queue[q] > 0 => queue'[q] > 0
  BY DEF Send, Enqueue, IndType
<1>3. CASE Enqueue(r) /\ Return(p)
  <2>1. r \in RunIds => queue'[r] > 0
    BY <1>3 DEF Enqueue, IndType
  <2>2. ASSUME NEW q \in Running, NEW x \in Procs, Holds(x, q)
        PROVE  queue'[q] > 0 \/ Holds(x, q)'
    BY <1>3, <2>1, <2>2 DEF Holds, Return, Become, IndType, Running
  <2> QED BY <1>1, <1>2, <2>2 DEF NoOrphanRunning, Running
<1>4. CASE Become(p, Executing(r))
  <2>1. Executing(r).run = r /\ Executing(r).pc \in Holding
    BY PCsHolding DEF Executing, Idle
  <2>2. ASSUME NEW q \in Running, NEW x \in Procs, Holds(x, q)
        PROVE  Holds(x, q)'
    BY <1>4, <2>1, <2>2 DEF Holds, Become, IndType
  <2> QED BY <1>1, <1>2, <2>2 DEF NoOrphanRunning, Running
<1> QED BY <1>3, <1>4 DEF Send

LEMMA ServeAttends ==
  ASSUME IndType, NoOrphanRunning, RowsBelongToExperiment, NEW p \in Procs, Serve(p)
  PROVE  NoOrphanRunning'
<1>1. CASE CheckRunning(p) \/ StartSelect(p) \/ RerunPublish(p) \/ GenerateSave(p)
           \/ UploadSave(p)
  <2>1. /\ UNCHANGED <<runs, queue>>
        /\ proc[p].pc \in {"check", "select", "publish", "genSave", "uploadSave"}
        /\ \E rec : proc' = [proc EXCEPT ![p] = rec]
    BY <1>1 DEF CheckRunning, StartSelect, RerunPublish, GenerateSave, UploadSave,
       Goto, Return, Become
  <2> QED BY <2>1, Bystander, NoNewRunning, PCsHolding
<1>2. CASE DeleteRow(p) \/ BulkDeleteOne(p) \/ UploadDeleteRuns(p) \/ GenerateDelete(p)
  <2>1. /\ UNCHANGED queue
        /\ UNCHANGED runs \/ \E S : runs' = Without(S)
        /\ proc[p].pc \in {"deleteRow", "bulkDelete", "uploadDelete", "genDelete"}
        /\ \E rec : proc' = [proc EXCEPT ![p] = rec]
    BY <1>2 DEF DeleteRow, BulkDeleteOne, UploadDeleteRuns, GenerateDelete,
       Goto, Return, Become
  <2> QED BY <2>1, Bystander, NoNewRunning, PCsHolding
<1>3. CASE RerunInPlace(p)
  <2>1. /\ UNCHANGED queue /\ proc[p].pc = "prepare"
        /\ UNCHANGED runs \/ \E r : runs' = [runs EXCEPT ![r].st = "PENDING"]
        /\ \E rec : proc' = [proc EXCEPT ![p] = rec]
    BY <1>3 DEF RerunInPlace, Goto, Return, Become
  <2> QED BY <2>1, Bystander, NoNewRunning, PCsHolding
<1>4. CASE RerunCreate(p) \/ GenerateCreate(p)
  <2>1. /\ UNCHANGED queue /\ proc[p].pc \in {"prepare", "genCreate"}
        /\ \E rec : proc' = [proc EXCEPT ![p] = rec]
    BY <1>4 DEF RerunCreate, GenerateCreate, Goto, Return, Become
  <2>2. ASSUME NEW r, NEW g, NEW sof, CreatePending(r, g, sof)
        PROVE  \E row : row.st # "RUNNING" /\ runs' = [runs EXCEPT ![r] = row]
    BY <2>2 DEF CreatePending
  <2>3. \/ UNCHANGED runs \/ \E S : runs' = Without(S)
        \/ \E r, row : row.st # "RUNNING" /\ runs' = [runs EXCEPT ![r] = row]
    BY <1>4, <2>2 DEF RerunCreate, GenerateCreate, CreateAndUndo
  <2> QED BY <2>1, <2>3, Bystander, NoNewRunning, PCsHolding
<1>5. CASE MarkRunning(p)
  <2>1. CASE UNCHANGED runs /\ Return(p)
    BY <1>5, <2>1, Bystander, NoNewRunning, PCsHolding DEF MarkRunning, Return, Become
  <2>2. CASE runs' = [runs EXCEPT ![proc[p].run].st = "RUNNING"] /\ Goto(p, "sync")
    BY <1>5, <2>2, TakesUp, PCsHolding DEF MarkRunning
  <2> QED BY <1>5, <2>1, <2>2 DEF MarkRunning
<1>6. CASE SyncMarked(p) \/ SaveMarked(p) \/ Resync(p) \/ SaveResynced(p)
  BY <1>6, SyncAttends, PCsHolding DEF SyncMarked, SaveMarked, Resync, SaveResynced
<1>7. CASE Send(p)
  BY <1>7, SendAttends
<1> QED BY <1>1, <1>2, <1>3, <1>4, <1>5, <1>6, <1>7 DEF Serve

LEMMA TaskAttends ==
  ASSUME IndType, NoOrphanRunning, RowsBelongToExperiment, NEW p \in Procs, Task(p)
  PROVE  NoOrphanRunning'
<1>t. proc[p] \in ProcRecords
  BY ProcType
<1>i. ASSUME UNCHANGED <<runs, queue>>, Return(p), proc[p].run \notin Live(runs)
      PROVE  NoOrphanRunning'
  <2>1. \A r \in Running' : r \in Running /\ ~Holds(p, r)
    BY <1>i DEF Running, Live, RunStatus, Holds
  <2> QED BY <1>i, <2>1, HandOver DEF Return, Become
<1>1. CASE TaskLoad(p)
  <2> DEFINE rec == [proc[p] EXCEPT !.pc = "begin", !.gen = runs[proc[p].run].gen,
                                    !.snap = Load]
  <2>1. CASE Become(p, rec)
    <3>1. rec.run = proc[p].run /\ rec.pc \in Holding
      BY <1>t, PCsHolding DEF ProcRecords
    <3>2. proc' = [proc EXCEPT ![p] = rec]
      BY <2>1 DEF Become
    <3>3. UNCHANGED queue /\ Running' = Running
      BY <1>1 DEF TaskLoad, Running
    <3> HIDE DEF rec
    <3> QED BY <3>1, <3>2, <3>3, HandOver DEF Holds
  <2>2. CASE proc[p].run \notin Live(runs) /\ Return(p)
    BY <1>1, <1>i, <2>2 DEF TaskLoad
  <2> QED BY <1>1, <2>1, <2>2 DEF TaskLoad
<1>2. CASE TaskBegin(p)
  <2>1. CASE runs' = [runs EXCEPT ![proc[p].run].st = "RUNNING"] /\ Goto(p, "began")
    BY <1>2, <2>1, TakesUp, PCsHolding DEF TaskBegin
  <2>2. CASE proc[p].run \notin Live(runs) /\ Return(p) /\ UNCHANGED runs
    BY <1>2, <1>i, <2>2 DEF TaskBegin
  <2> QED BY <1>2, <2>1, <2>2 DEF TaskBegin
<1>3. CASE TaskSyncBegan(p) \/ TaskSaveBegan(p) \/ TaskSyncFinished(p) \/ TaskSaveFinished(p)
  BY <1>3, SyncAttends, PCsHolding DEF TaskSyncBegan, TaskSaveBegan,
     TaskSyncFinished, TaskSaveFinished, AfterOutcome
<1>4. ASSUME NEW ok \in BOOLEAN, TaskFinish(p, ok)
      PROVE  NoOrphanRunning'
  <2> DEFINE r == proc[p].run
  <2>1. PICK rec : proc' = [proc EXCEPT ![p] = rec]
    BY <1>4 DEF TaskFinish, Return, Become
  <2>2. CASE r \in Live(runs)
    <3>1. PICK st : st # "RUNNING" /\ runs' = [runs EXCEPT ![r].st = st]
      BY <1>4, <2>2 DEF TaskFinish
    <3>2. \A q \in Running' : q \in Running /\ q # r
      BY <3>1 DEF Running, IndType, RunRows
    <3> QED BY <1>4, <2>1, <3>2, HandOver DEF TaskFinish, Holds
  <2>3. CASE r \notin Live(runs)
    BY <1>4, <1>i, <2>3 DEF TaskFinish
  <2> QED BY <2>2, <2>3
<1>5. CASE DispatchLookup(p)
  <2>1. /\ UNCHANGED <<runs, queue>> /\ proc[p].pc = "next"
        /\ \E rec : proc' = [proc EXCEPT ![p] = rec]
    BY <1>5 DEF DispatchLookup, Return, Become
  <2> QED BY <2>1, Bystander, NoNewRunning, PCsHolding
<1>6. CASE DispatchClaim(p)
  <2>1. CASE UNCHANGED runs /\ Return(p)
    BY <1>6, <2>1, Bystander, NoNewRunning, PCsHolding DEF DispatchClaim, Return, Become
  <2>2. CASE runs' = [runs EXCEPT ![proc[p].run].st = "RUNNING"] /\ Goto(p, "send")
    BY <1>6, <2>2, TakesUp, PCsHolding DEF DispatchClaim
  <2> QED BY <1>6, <2>1, <2>2 DEF DispatchClaim
<1> QED BY <1>1, <1>2, <1>3, <1>4, <1>5, <1>6 DEF Task

LEMMA ArriveAttends ==
  ASSUME IndType, NoOrphanRunning, NEW h \in Handlers, Arrive(h)
  PROVE  NoOrphanRunning'
<1>1. /\ UNCHANGED <<runs, queue>> /\ proc[h].pc = "idle"
      /\ \E rec : proc' = [proc EXCEPT ![h] = rec]
  BY DEF Arrive, StartRead, RerunRead, GenerateRead, ReplaceGenRead,
     ReplaceRunRead, DeleteRunRead, BulkDeleteRead, UploadRead, Accept, Become
<1> QED BY <1>1, Bystander, NoNewRunning, PCsHolding DEF Procs

\* A delivered message leaves the broker for the worker that executes it.
LEMMA DeliverAttends ==
  ASSUME IndType, NoOrphanRunning, NEW w \in Workers, NEW r \in RunIds, Deliver(w, r)
  PROVE  NoOrphanRunning'
<1>1. proc' = [proc EXCEPT ![w] = Executing(r)] /\ Running' = Running
  BY DEF Deliver, Become, Running
<1>2. Executing(r).run = r /\ Executing(r).pc \in Holding /\ w \in Procs
  BY PCsHolding DEF Executing, Idle, Procs
<1>3. Holds(w, r)'
  BY <1>1, <1>2 DEF Holds, IndType
<1>4. ASSUME NEW q \in Running, q # r
      PROVE  queue'[q] > 0 \/ \E p \in Procs : Holds(p, q)'
  <2>1. CASE queue[q] > 0
    BY <1>4, <2>1 DEF Deliver, IndType, Running
  <2>2. ASSUME NEW p \in Procs, Holds(p, q)
        PROVE  Holds(p, q)'
    <3>1. p # w
      BY <2>2, PCsHolding DEF Deliver, Holds
    <3> QED BY <1>1, <2>2, <3>1 DEF Holds, IndType
  <2> QED BY <1>4, <2>1, <2>2 DEF NoOrphanRunning
<1> QED BY <1>1, <1>2, <1>3, <1>4 DEF NoOrphanRunning

LEMMA NextAttends ==
  ASSUME "crash" \notin Faults, IndType, RowsBelongToExperiment, NoOrphanRunning,
         [Next]_vars
  PROVE  NoOrphanRunning'
<1>1. ASSUME NEW r \in RunIds, Redeliver(r)
      PROVE  NoOrphanRunning'
  <2>1. /\ \A q \in RunIds : queue[q] > 0 => queue'[q] > 0
        /\ Running' = Running /\ UNCHANGED proc
    BY <1>1 DEF Redeliver, IndType, Running
  <2> QED BY <2>1 DEF NoOrphanRunning, Running, Holds
<1>2. CASE UNCHANGED vars
  BY <1>2 DEF vars, NoOrphanRunning, Running, Holds
<1>3. ~\E p \in Procs : Crash(p)
  BY DEF Crash
<1>4. CASE DeleteExperiment
  <2>1. Running' = {}
    BY <1>4 DEF DeleteExperiment, Running, Without, Gone, Live, RunStatus, IndType
  <2> QED BY <2>1 DEF NoOrphanRunning
<1> QED BY <1>1, <1>2, <1>3, <1>4, ArriveAttends, ServeAttends, TaskAttends, DeliverAttends
        DEF Next, Progress, Delivery, Fault

\* As long as no process dies, a run shown RUNNING is in the broker or in the
\* hands of a process.  What makes the invariant inductive is that runs exist
\* only under an existing experiment: a status sync that raises because the
\* experiment is gone lets go of a run that is gone too.
THEOREM NoOrphan == "crash" \notin Faults => (Spec => []NoOrphanRunning)
<1> SUFFICES ASSUME "crash" \notin Faults PROVE Spec => []NoOrphanRunning
  OBVIOUS
<1>1. Init => NoOrphanRunning
  BY DEF Init, NoOrphanRunning, Running
<1>2. IndType /\ RowsBelongToExperiment /\ NoOrphanRunning /\ [Next]_vars
        => NoOrphanRunning'
  BY NextAttends
<1> QED BY <1>1, <1>2, Typed, RowsHaveExperiment, PTL DEF Spec

-----------------------------------------------------------------------------
(* Patient clients *)

At(p, pcs) == proc[p].pc \in pcs

\* Nothing goes on but what p does.
Only(p) ==
  /\ \A q \in Procs : q # p => proc[q].pc = "idle"
  /\ \A r \in RunIds : queue[r] = 0

\* The places of a request before it sends its run.
AloneWhenAsked == \A p \in Procs : At(p, RequestPCs) => Only(p)

-----------------------------------------------------------------------------
(* A request is alone *)

\* Where processes are and what the broker has: a request begins when all is
\* quiet, a process goes on, a message is sent, delivered or duplicated.
Enters(p) == Quiet /\ UNCHANGED queue /\ p \in Handlers /\ At(p, RequestPCs)'
Continues(p) ==
  /\ UNCHANGED queue
  /\ ~At(p, {"idle"})
  /\ At(p, RequestPCs)' => At(p, RequestPCs)
Sends(p) ==
  /\ At(p, {"send"}) /\ At(p, {"idle", "load"})'
  /\ \A r \in RunIds : r # proc[p].run => queue'[r] = queue[r]
TakesMessage(p) ==
  /\ At(p, {"idle"}) /\ At(p, {"load"})'
  /\ proc'[p].run \in RunIds /\ queue[proc'[p].run] > 0
  /\ queue' = [queue EXCEPT ![proc'[p].run] = @ - 1]
Moves(p) ==
  /\ \A q \in Procs : q # p => proc'[q] = proc[q]
  /\ Enters(p) \/ Continues(p) \/ Sends(p) \/ TakesMessage(p)
Rests ==
  /\ UNCHANGED proc
  /\ \/ UNCHANGED queue
     \/ "redeliver" \in Faults /\ \E r \in RunIds : queue[r] > 0 /\ queue' = [queue EXCEPT ![r] = @ + 1]

LEMMA PlacesDiffer ==
  /\ "idle" \notin RequestPCs /\ "send" \notin RequestPCs
  /\ TaskPCs \cap RequestPCs = {} /\ "idle" \notin TaskPCs /\ "send" \notin TaskPCs
BY DEF RequestPCs, TaskPCs

LEMMA Own ==
  ASSUME IndType, NEW p \in Procs, NEW rec, Become(p, rec)
  PROVE  proc'[p] = rec /\ \A q \in Procs : q # p => proc'[q] = proc[q]
BY DEF Become, IndType

LEMMA OwnPc ==
  ASSUME IndType, NEW p \in Procs, NEW pc, Goto(p, pc)
  PROVE  /\ proc'[p] = [proc[p] EXCEPT !.pc = pc] /\ proc'[p].pc = pc
         /\ proc'[p].run = proc[p].run /\ proc'[p].op = proc[p].op /\ proc'[p].gen = proc[p].gen
         /\ proc'[p].snap = proc[p].snap /\ proc'[p].todo = proc[p].todo
         /\ proc'[p].stop = proc[p].stop
         /\ \A q \in Procs : q # p => proc'[q] = proc[q]
<1>1. proc[p] \in ProcRecords
  BY ProcType
<1> QED BY <1>1 DEF Goto, IndType, ProcRecords

LEMMA OwnReturn ==
  ASSUME IndType, NEW p \in Procs, Return(p)
  PROVE  /\ proc'[p] = Idle /\ proc'[p].pc = "idle"
         /\ \A q \in Procs : q # p => proc'[q] = proc[q]
BY Own DEF Return, Idle

\* What a process keeps when a status sync lets it go on.
Onward(p, then) ==
  /\ proc'[p].pc = then
  /\ then # "idle" => proc'[p].run = proc[p].run
  /\ then \notin {"idle", "send"} => /\ proc'[p].gen = proc[p].gen
                                     /\ proc'[p].snap = proc[p].snap
                                     /\ proc'[p].stop = proc[p].stop

LEMMA Continued ==
  ASSUME IndType, NEW p \in Procs, NEW then \in PCs, Continue(p, then, proc[p])
  PROVE  Onward(p, then) /\ \A q \in Procs : q # p => proc'[q] = proc[q]
<1>1. proc[p] \in ProcRecords
  BY ProcType
<1>2. CASE then = "idle"
  BY <1>2, Own DEF Continue, Onward, Idle
<1>3. CASE then = "send"
  <2>1. Become(p, [Idle EXCEPT !.pc = "send", !.run = proc[p].run])
    BY <1>3 DEF Continue, Sending
  <2>2. /\ proc'[p] = [Idle EXCEPT !.pc = "send", !.run = proc[p].run]
        /\ \A q \in Procs : q # p => proc'[q] = proc[q]
    BY <2>1, Own
  <2>3. proc'[p].pc = "send" /\ proc'[p].run = proc[p].run
    BY <2>2 DEF Idle
  <2> QED BY <1>3, <2>2, <2>3 DEF Onward
<1>4. CASE then \notin {"idle", "send"}
  <2>1. Become(p, [proc[p] EXCEPT !.pc = then])
    BY <1>4 DEF Continue
  <2> QED BY <1>1, <1>4, <2>1, Own DEF Onward, ProcRecords
<1> QED BY <1>2, <1>3, <1>4

LEMMA Derives ==
  ASSUME IndType, NEW p \in Procs, NEW save \in PCs, NEW then \in PCs,
         SyncDerive(p, save, then)
  PROVE  /\ UNCHANGED <<exp, runs, queue>>
         /\ \A q \in Procs : q # p => proc'[q] = proc[q]
         /\ \/ Onward(p, then) /\ proc[p].snap.status = Derived(proc[p].snap, runs)
            \/ /\ proc'[p].pc = save /\ proc'[p].run = proc[p].run
               /\ proc'[p].gen = proc[p].gen /\ proc'[p].stop = proc[p].stop
               /\ proc'[p].snap = [proc[p].snap EXCEPT !.status = Derived(proc[p].snap, runs)]
<1>1. proc[p] \in ProcRecords
  BY ProcType
<1>2. CASE proc[p].snap.status = Derived(proc[p].snap, runs)
  BY <1>2, Continued DEF SyncDerive
<1>3. CASE proc[p].snap.status # Derived(proc[p].snap, runs)
  <2> DEFINE st == Derived(proc[p].snap, runs)
  <2>1. UNCHANGED <<exp, runs, queue>> /\ Become(p, [proc[p] EXCEPT !.pc = save, !.snap.status = st])
    BY <1>3 DEF SyncDerive
  <2> HIDE DEF st
  <2>2. /\ proc'[p] = [proc[p] EXCEPT !.pc = save, !.snap.status = st]
        /\ \A q \in Procs : q # p => proc'[q] = proc[q]
    BY <2>1, Own
  <2>3. /\ proc'[p].pc = save /\ proc'[p].run = proc[p].run
        /\ proc'[p].gen = proc[p].gen /\ proc'[p].stop = proc[p].stop
        /\ proc'[p].snap = [proc[p].snap EXCEPT !.status = st]
    BY <1>1, <2>2 DEF ProcRecords
  <2> QED BY <2>1, <2>2, <2>3 DEF st
<1> QED BY <1>2, <1>3

LEMMA Saves ==
  ASSUME IndType, NEW p \in Procs, NEW then \in PCs, SyncSave(p, then)
  PROVE  /\ UNCHANGED <<runs, queue>>
         /\ \A q \in Procs : q # p => proc'[q] = proc[q]
         /\ \/ /\ exp.present /\ exp' = [exp EXCEPT !.status = proc[p].snap.status]
               /\ Onward(p, then)
            \/ ~exp.present /\ UNCHANGED exp /\ proc'[p].pc = "idle"
BY Continued, OwnReturn DEF SyncSave

LEMMA ServeMoves ==
  ASSUME IndType, NEW p \in Procs, Serve(p)
  PROVE  Moves(p)
<1>t. proc[p] \in ProcRecords
  BY ProcType
<1>c. {"select", "prepare", "publish", "mark", "sync", "syncSave", "genSave", "genDelete",
       "genCreate", "bulkDelete", "deleteRow", "resync", "resyncSave", "uploadDelete",
       "uploadSave", "check"} = RequestPCs
  BY DEF RequestPCs
<1>s. ASSUME At(p, RequestPCs), UNCHANGED queue,
             \A q \in Procs : q # p => proc'[q] = proc[q]
      PROVE  Moves(p)
  BY <1>s, PlacesDiffer DEF Moves, Continues, At
<1>1. CASE CheckRunning(p)
  BY <1>1, <1>c, <1>s, OwnPc, OwnReturn DEF CheckRunning, At
<1>2. CASE StartSelect(p)
  BY <1>2, <1>c, <1>s, Own, OwnReturn DEF StartSelect, At
<1>3. CASE RerunInPlace(p)
  BY <1>3, <1>c, <1>s, OwnPc, OwnReturn DEF RerunInPlace, At
<1>4. CASE RerunCreate(p)
  BY <1>4, <1>c, <1>s, Own, OwnReturn DEF RerunCreate, At
<1>5. CASE RerunPublish(p)
  BY <1>5, <1>c, <1>s, Own, OwnReturn DEF RerunPublish, At
<1>6. CASE MarkRunning(p)
  BY <1>6, <1>c, <1>s, OwnPc, OwnReturn DEF MarkRunning, At
<1>7. CASE SyncMarked(p) \/ Resync(p)
  BY <1>7, <1>c, <1>s, Derives, PCsMembers DEF SyncMarked, Resync, At
<1>8. CASE SaveMarked(p) \/ SaveResynced(p)
  BY <1>8, <1>c, <1>s, Saves, PCsMembers DEF SaveMarked, SaveResynced, At
<1>9. CASE Send(p)
  <2> DEFINE r == proc[p].run
  <2>1. \A q \in Procs : q # p => proc'[q] = proc[q]
    BY <1>9, Own, OwnReturn DEF Send
  <2>2. proc'[p].pc \in {"idle", "load"}
    <3>1. CASE Return(p)
      BY <3>1, OwnReturn
    <3>2. CASE Become(p, Executing(r))
      <4>1. proc'[p] = Executing(r)
        BY <3>2, Own
      <4> QED BY <4>1 DEF Executing, Idle
    <3> QED BY <1>9, <3>1, <3>2 DEF Send
  <2>3. \A q \in RunIds : q # r => queue'[q] = queue[q]
    BY <1>9 DEF Send, Enqueue, IndType
  <2> QED BY <1>9, <2>1, <2>2, <2>3 DEF Moves, Sends, At, Send
<1>10. CASE GenerateSave(p)
  BY <1>10, <1>c, <1>s, Own, OwnReturn DEF GenerateSave, At
<1>11. CASE GenerateDelete(p)
  BY <1>11, <1>c, <1>s, OwnPc DEF GenerateDelete, At
<1>12. CASE GenerateCreate(p)
  BY <1>12, <1>c, <1>s, Own, OwnReturn DEF GenerateCreate, At
<1>13. CASE DeleteRow(p)
  BY <1>13, <1>c, <1>s, OwnPc, OwnReturn DEF DeleteRow, At
<1>14. CASE BulkDeleteOne(p)
  BY <1>14, <1>c, <1>s, Own, OwnPc DEF BulkDeleteOne, At
<1>15. CASE UploadDeleteRuns(p)
  BY <1>15, <1>c, <1>s, OwnPc DEF UploadDeleteRuns, At
<1>16. CASE UploadSave(p)
  BY <1>16, <1>c, <1>s, OwnReturn DEF UploadSave, At
<1> QED BY <1>1, <1>2, <1>3, <1>4, <1>5, <1>6, <1>7, <1>8, <1>9, <1>10, <1>11, <1>12,
        <1>13, <1>14, <1>15, <1>16 DEF Serve

LEMMA TaskMoves ==
  ASSUME IndType, NEW p \in Procs, Task(p)
  PROVE  Moves(p) /\ At(p, TaskPCs) /\ UNCHANGED queue
<1>t. proc[p] \in ProcRecords
  BY ProcType
<1>c. {"load", "begin", "began", "beganSave", "exec", "finished", "finishedSave", "next",
       "claim"} = TaskPCs
  BY DEF TaskPCs
<1>s. ASSUME At(p, TaskPCs), UNCHANGED queue, ~At(p, RequestPCs)',
             \A q \in Procs : q # p => proc'[q] = proc[q]
      PROVE  Moves(p) /\ At(p, TaskPCs) /\ UNCHANGED queue
  BY <1>s, PlacesDiffer DEF Moves, Continues, At
<1>r. ASSUME At(p, TaskPCs), UNCHANGED queue, Return(p)
      PROVE  Moves(p) /\ At(p, TaskPCs) /\ UNCHANGED queue
  BY <1>r, <1>s, OwnReturn, PlacesDiffer DEF At
<1>o. ASSUME NEW pc \in TaskPCs \cup {"idle", "send"}
      PROVE  pc \notin RequestPCs /\ pc \in PCs
  BY <1>o, PlacesDiffer DEF PCs
<1>1. CASE TaskLoad(p)
  <2>1. ASSUME Become(p, [proc[p] EXCEPT !.pc = "begin", !.gen = runs[proc[p].run].gen,
                                         !.snap = Load])
        PROVE  proc'[p].pc = "begin" /\ \A q \in Procs : q # p => proc'[q] = proc[q]
    <3>1. /\ proc'[p] = [proc[p] EXCEPT !.pc = "begin", !.gen = runs[proc[p].run].gen, !.snap = Load]
          /\ \A q \in Procs : q # p => proc'[q] = proc[q]
      BY <2>1, Own
    <3> QED BY <1>t, <3>1 DEF ProcRecords
  <2> QED BY <1>1, <2>1, <1>c, <1>o, <1>s, <1>r DEF TaskLoad, At
<1>2. CASE TaskBegin(p)
  BY <1>2, <1>c, <1>o, <1>s, <1>r, OwnPc DEF TaskBegin, At
<1>3. CASE TaskSyncBegan(p) \/ TaskSyncFinished(p)
  BY <1>3, <1>c, <1>o, <1>s, Derives DEF TaskSyncBegan, TaskSyncFinished, AfterOutcome, At, Onward
<1>4. CASE TaskSaveBegan(p) \/ TaskSaveFinished(p)
  BY <1>4, <1>c, <1>o, <1>s, Saves DEF TaskSaveBegan, TaskSaveFinished, AfterOutcome, At, Onward
<1>5. ASSUME NEW ok \in BOOLEAN, TaskFinish(p, ok)
      PROVE  Moves(p) /\ At(p, TaskPCs) /\ UNCHANGED queue
  <2>1. ASSUME NEW stop, Become(p, [proc[p] EXCEPT !.pc = "finished", !.stop = stop])
        PROVE  proc'[p].pc = "finished" /\ \A q \in Procs : q # p => proc'[q] = proc[q]
    <3>1. /\ proc'[p] = [proc[p] EXCEPT !.pc = "finished", !.stop = stop]
          /\ \A q \in Procs : q # p => proc'[q] = proc[q]
      BY <2>1, Own
    <3> QED BY <1>t, <3>1 DEF ProcRecords
  <2> QED BY <1>5, <2>1, <1>c, <1>o, <1>s, <1>r DEF TaskFinish, At
<1>6. CASE DispatchLookup(p)
  <2>1. ASSUME NEW r, Become(p, [Idle EXCEPT !.pc = "claim", !.run = r])
        PROVE  proc'[p].pc = "claim" /\ \A q \in Procs : q # p => proc'[q] = proc[q]
    <3>1. /\ proc'[p] = [Idle EXCEPT !.pc = "claim", !.run = r]
          /\ \A q \in Procs : q # p => proc'[q] = proc[q]
      BY <2>1, Own
    <3> QED BY <3>1 DEF Idle
  <2> QED BY <1>6, <2>1, <1>c, <1>o, <1>s, <1>r DEF DispatchLookup, At
<1>7. CASE DispatchClaim(p)
  BY <1>7, <1>c, <1>o, <1>s, <1>r, OwnPc DEF DispatchClaim, At
<1> QED BY <1>1, <1>2, <1>3, <1>4, <1>5, <1>6, <1>7 DEF Task

\* Where a request starts.
FirstPlaces == {"check", "genSave", "deleteRow", "bulkDelete", "uploadDelete"}

LEMMA ArriveStarts ==
  ASSUME Patient, IndType, NEW h \in Handlers, Arrive(h)
  PROVE  /\ Quiet /\ UNCHANGED <<exp, runs, queue>>
         /\ \A q \in Procs : q # h => proc'[q] = proc[q]
         /\ proc'[h].pc \in FirstPlaces
<1> DEFINE Accepted == /\ Quiet /\ UNCHANGED <<exp, runs, queue>>
                       /\ \A q \in Procs : q # h => proc'[q] = proc[q]
                       /\ proc'[h].pc \in FirstPlaces
<1>h. h \in Procs
  BY DEF Procs
<1>1. ASSUME NEW g \in 1..MaxGen, NEW r \in RunIds \cup {NoRun}, StartRead(h, g, r)
      PROVE  Accepted
  <2>1. proc'[h] = [Request("start", "check") EXCEPT !.gen = g, !.run = r]
    BY <1>1, <1>h, Own DEF StartRead
  <2>2. proc'[h].pc = "check"
    BY <2>1 DEF Request, Idle
  <2> QED BY <1>1, <1>h, <2>2, Own DEF StartRead, Accept, FirstPlaces
<1>2. ASSUME NEW kind \in {"rerunNew", "rerunInPlace"}, NEW r \in RunIds, RerunRead(h, kind, r)
      PROVE  Accepted
  <2>1. proc'[h] = [Request(kind, "check") EXCEPT !.run = r, !.stop = runs[r].sof]
    BY <1>2, <1>h, Own DEF RerunRead
  <2>2. proc'[h].pc = "check"
    BY <2>1 DEF Request, Idle
  <2> QED BY <1>2, <1>h, <2>2, Own DEF RerunRead, Accept, FirstPlaces
<1>3. ASSUME NEW sof \in StopChoices, GenerateRead(h, sof)
      PROVE  Accepted
  <2>1. proc'[h] = [Request("generate", "genSave")
                      EXCEPT !.gen = exp.gen + 1, !.left = PlanSize, !.stop = sof]
    BY <1>3, <1>h, Own DEF GenerateRead
  <2>2. proc'[h].pc = "genSave"
    BY <2>1 DEF Request, Idle
  <2> QED BY <1>3, <1>h, <2>2, Own DEF GenerateRead, Accept, FirstPlaces
<1>4. ASSUME NEW sof \in StopChoices, NEW g \in 1..MaxGen, ReplaceGenRead(h, g, sof)
      PROVE  Accepted
  <2>1. proc'[h] = [Request("replaceGen", "genSave")
                      EXCEPT !.gen = g, !.left = PlanSize, !.stop = sof]
    BY <1>4, <1>h, Own DEF ReplaceGenRead
  <2>2. proc'[h].pc = "genSave"
    BY <2>1 DEF Request, Idle
  <2> QED BY <1>4, <1>h, <2>2, Own DEF ReplaceGenRead, Accept, FirstPlaces
<1>5. ASSUME NEW sof \in StopChoices, NEW r \in RunIds, ReplaceRunRead(h, r, sof)
      PROVE  Accepted
  <2>1. proc'[h] = [Request("replaceRun", "genSave")
                      EXCEPT !.gen = exp.gen + 1, !.run = r, !.left = 1, !.stop = sof]
    BY <1>5, <1>h, Own DEF ReplaceRunRead
  <2>2. proc'[h].pc = "genSave"
    BY <2>1 DEF Request, Idle
  <2> QED BY <1>5, <1>h, <2>2, Own DEF ReplaceRunRead, Accept, FirstPlaces
<1>6. ASSUME NEW r \in RunIds, DeleteRunRead(h, r)
      PROVE  Accepted
  <2>1. proc'[h] = [Request("deleteRun", "deleteRow") EXCEPT !.run = r]
    BY <1>6, <1>h, Own DEF DeleteRunRead
  <2>2. proc'[h].pc = "deleteRow"
    BY <2>1 DEF Request, Idle
  <2> QED BY <1>6, <1>h, <2>2, Own DEF DeleteRunRead, Accept, FirstPlaces
<1>7. ASSUME NEW g \in 0..MaxGen, BulkDeleteRead(h, g)
      PROVE  Accepted
  <2>1. PICK todo : Become(h, [Request("bulkDelete", "bulkDelete") EXCEPT !.todo = todo])
    BY <1>7 DEF BulkDeleteRead
  <2>2. proc'[h] = [Request("bulkDelete", "bulkDelete") EXCEPT !.todo = todo]
    BY <2>1, <1>h, Own
  <2>3. proc'[h].pc = "bulkDelete"
    BY <2>2 DEF Request, Idle
  <2> QED BY <1>7, <1>h, <2>1, <2>3, Own DEF BulkDeleteRead, Accept, FirstPlaces
<1>8. ASSUME UploadRead(h)
      PROVE  Accepted
  <2>1. proc'[h] = Request("upload", "uploadDelete")
    BY <1>8, <1>h, Own DEF UploadRead
  <2>2. proc'[h].pc = "uploadDelete"
    BY <2>1 DEF Request, Idle
  <2> QED BY <1>8, <1>h, <2>2, Own DEF UploadRead, Accept, FirstPlaces
<1> QED BY <1>1, <1>2, <1>3, <1>4, <1>5, <1>6, <1>7, <1>8 DEF Arrive

\* Every step is one of these.
LEMMA NextMoves ==
  ASSUME Patient, IndType, [Next]_vars
  PROVE  Rests \/ \E p \in Procs : Moves(p)
<1>1. ASSUME NEW h \in Handlers, Arrive(h)
      PROVE  Rests \/ \E p \in Procs : Moves(p)
  <2>1. h \in Procs /\ FirstPlaces \subseteq RequestPCs
    BY DEF Procs, FirstPlaces, RequestPCs
  <2> QED BY <1>1, <2>1, ArriveStarts DEF Moves, Enters, At
<1>2. ASSUME NEW w \in Workers, NEW r \in RunIds, Deliver(w, r)
      PROVE  Rests \/ \E p \in Procs : Moves(p)
  <2>1. w \in Procs /\ proc'[w] = Executing(r) /\ \A q \in Procs : q # w => proc'[q] = proc[q]
    BY <1>2, Own DEF Deliver, Procs
  <2>2. proc'[w].pc = "load" /\ proc'[w].run = r
    BY <2>1 DEF Executing, Idle
  <2>3. Moves(w)
    BY <1>2, <2>1, <2>2 DEF Moves, TakesMessage, At, Deliver
  <2> QED BY <2>1, <2>3
<1>3. ASSUME NEW p \in Procs, Crash(p)
      PROVE  Moves(p)
  BY <1>3, OwnReturn, PlacesDiffer DEF Crash, Moves, Continues, At
<1>4. ASSUME NEW r \in RunIds, Redeliver(r)
      PROVE  Rests
  BY <1>4 DEF Redeliver, Rests
<1>5. CASE DeleteExperiment \/ UNCHANGED vars
  BY <1>5 DEF DeleteExperiment, vars, Rests
<1> QED BY <1>1, <1>2, <1>3, <1>4, <1>5, ServeMoves, TaskMoves
        DEF Next, Progress, Delivery, Fault

LEMMA StaysAlone ==
  ASSUME Patient, IndType, AloneWhenAsked, [Next]_vars
  PROVE  AloneWhenAsked'
<1>1. CASE Rests
  BY <1>1 DEF Rests, AloneWhenAsked, Only, At
<1>2. ASSUME NEW x \in Procs, Moves(x)
      PROVE  AloneWhenAsked'
  <2> SUFFICES ASSUME NEW p \in Procs, At(p, RequestPCs)'
               PROVE  Only(p)'
    BY DEF AloneWhenAsked
  <2>1. CASE x # p
    <3>1. proc'[p] = proc[p] /\ At(p, RequestPCs) /\ proc[p].pc # "idle"
      BY <1>2, <2>1, PlacesDiffer DEF Moves, At
    <3>2. proc[x].pc = "idle" /\ \A r \in RunIds : queue[r] = 0
      BY <2>1, <3>1 DEF AloneWhenAsked, Only
    <3> QED BY <1>2, <3>1, <3>2 DEF Moves, Enters, Continues, Sends, TakesMessage, At, Quiet
  <2>2. CASE x = p
    <3>1. CASE Enters(p)
      BY <1>2, <2>2, <3>1 DEF Moves, Enters, Quiet, Only
    <3>2. CASE Continues(p)
      BY <1>2, <2>2, <3>2 DEF Moves, Continues, AloneWhenAsked, Only
    <3> QED BY <1>2, <2>2, <3>1, <3>2, PlacesDiffer DEF Moves, Sends, TakesMessage, At, TaskPCs
  <2> QED BY <2>1, <2>2
<1> QED BY <1>1, <1>2, NextMoves

LEMMA Alone == Patient => (Spec => []AloneWhenAsked)
<1> SUFFICES ASSUME Patient PROVE Spec => []AloneWhenAsked
  OBVIOUS
<1>1. Init => AloneWhenAsked
  BY PlacesDiffer DEF Init, AloneWhenAsked, At, Idle
<1>2. IndType /\ AloneWhenAsked /\ [Next]_vars => AloneWhenAsked'
  BY StaysAlone
<1> QED BY <1>1, <1>2, Typed, PTL DEF Spec

-----------------------------------------------------------------------------
(* What each step does, field by field *)

Ends(p) == proc'[p].pc = "idle"
Turns(p, pc) ==
  /\ proc'[p].pc = pc
  /\ proc'[p].run = proc[p].run /\ proc'[p].op = proc[p].op
  /\ proc'[p].gen = proc[p].gen /\ proc'[p].snap = proc[p].snap
  /\ proc'[p].todo = proc[p].todo /\ proc'[p].stop = proc[p].stop
Creates(r) == r \in Unused /\ exp.present /\ \E g, sof :
                runs' = [runs EXCEPT ![r] = [st |-> "PENDING", gen |-> g, sof |-> sof]]
Undoes == "preview" \in Faults /\ \E r \in Unused : runs' = Without({r})
Sets(r, st) == r \in Live(runs) /\ runs' = [runs EXCEPT ![r].st = st]

LEMMA Turned ==
  ASSUME IndType, NEW p \in Procs
  PROVE  /\ \A pc : Goto(p, pc) => Turns(p, pc)
         /\ Return(p) => Ends(p)
BY OwnPc, OwnReturn DEF Turns, Ends

LEMMA CheckRunningDoes ==
  ASSUME IndType, NEW p \in Procs, CheckRunning(p)
  PROVE  /\ At(p, {"check"}) /\ UNCHANGED <<exp, runs, queue>>
         /\ Ends(p) \/ (Running = {} /\ (Turns(p, "select") \/ Turns(p, "prepare")))
BY Turned DEF CheckRunning, At

LEMMA StartSelectDoes ==
  ASSUME IndType, NEW p \in Procs, StartSelect(p)
  PROVE  /\ At(p, {"select"}) /\ UNCHANGED <<exp, runs, queue>>
         /\ \/ Ends(p)
            \/ /\ proc'[p].pc = "mark" /\ proc'[p].run \in PendingIn(proc[p].gen)
               /\ proc'[p].snap = proc[p].snap
<1>t. proc[p] \in ProcRecords
  BY ProcType
<1>1. ASSUME NEW r \in PendingIn(proc[p].gen), Become(p, [proc[p] EXCEPT !.pc = "mark", !.run = r])
      PROVE  proc'[p].pc = "mark" /\ proc'[p].run = r /\ proc'[p].snap = proc[p].snap
  <2>1. proc'[p] = [proc[p] EXCEPT !.pc = "mark", !.run = r]
    BY <1>1, Own
  <2> QED BY <1>t, <2>1 DEF ProcRecords
<1> QED BY <1>1, Turned DEF StartSelect, At

LEMMA RerunInPlaceDoes ==
  ASSUME IndType, NEW p \in Procs, RerunInPlace(p)
  PROVE  /\ At(p, {"prepare"}) /\ UNCHANGED <<exp, queue>>
         /\ \/ /\ Sets(proc[p].run, "PENDING")
               /\ Turns(p, "mark") \/ ("preview" \in Faults /\ Ends(p))
            \/ Ends(p) /\ UNCHANGED runs
BY Turned DEF RerunInPlace, Sets, At

LEMMA RerunCreateDoes ==
  ASSUME IndType, NEW p \in Procs, RerunCreate(p)
  PROVE  /\ At(p, {"prepare"}) /\ UNCHANGED <<exp, queue>>
         /\ \/ /\ \E r \in Unused : Creates(r) /\ proc'[p].run = r
               /\ proc'[p].pc = "publish" /\ proc'[p].snap = proc[p].snap
            \/ Undoes /\ Ends(p)
            \/ ~exp.present /\ Ends(p) /\ UNCHANGED runs
<1>t. proc[p] \in ProcRecords
  BY ProcType
<1>1. ASSUME NEW r, Become(p, [proc[p] EXCEPT !.pc = "publish", !.run = r])
      PROVE  proc'[p].pc = "publish" /\ proc'[p].run = r /\ proc'[p].snap = proc[p].snap
  <2>1. proc'[p] = [proc[p] EXCEPT !.pc = "publish", !.run = r]
    BY <1>1, Own
  <2> QED BY <1>t, <2>1 DEF ProcRecords
<1> QED BY <1>1, Turned
        DEF RerunCreate, CreatePending, CreateAndUndo, IsFirst, Creates, Undoes, At

LEMMA RerunPublishDoes ==
  ASSUME IndType, NEW p \in Procs, RerunPublish(p)
  PROVE  /\ At(p, {"publish"}) /\ UNCHANGED <<runs, queue>>
         /\ \/ /\ exp.present
               /\ exp' = [exp EXCEPT !.gen = proc[p].snap.gen + 1, !.plan = TRUE]
               /\ proc'[p].pc = "mark" /\ proc'[p].run = proc[p].run
               /\ proc'[p].snap = [proc[p].snap EXCEPT !.gen = proc[p].snap.gen + 1,
                                                       !.plan = TRUE]
            \/ ~exp.present /\ Ends(p) /\ UNCHANGED exp
<1> DEFINE g == proc[p].snap.gen + 1
<1>t. proc[p] \in ProcRecords /\ proc[p].snap \in Snapshots
  BY ProcType DEF ProcRecords
<1>1. ASSUME Become(p, [proc[p] EXCEPT !.pc = "mark", !.snap.gen = g, !.snap.plan = TRUE])
      PROVE  /\ proc'[p].pc = "mark" /\ proc'[p].run = proc[p].run
             /\ proc'[p].snap = [proc[p].snap EXCEPT !.gen = g, !.plan = TRUE]
  <2> HIDE DEF g
  <2>1. proc'[p] = [proc[p] EXCEPT !.pc = "mark", !.snap.gen = g, !.snap.plan = TRUE]
    BY <1>1, Own
  <2> QED BY <1>t, <2>1 DEF ProcRecords, Snapshots
<1> QED BY <1>1, Turned DEF RerunPublish, At

LEMMA MarkRunningDoes ==
  ASSUME IndType, NEW p \in Procs, MarkRunning(p)
  PROVE  /\ At(p, {"mark"}) /\ UNCHANGED <<exp, queue>>
         /\ \/ Sets(proc[p].run, "RUNNING") /\ Turns(p, "sync")
            \/ proc[p].run \notin Live(runs) /\ Ends(p) /\ UNCHANGED runs
BY Turned DEF MarkRunning, Sets, At

LEMMA SendDoes ==
  ASSUME IndType, NEW p \in Procs, Send(p)
  PROVE  /\ At(p, {"send"}) /\ UNCHANGED <<exp, runs>>
         /\ \/ Enqueue(proc[p].run) /\ Ends(p)
            \/ /\ UNCHANGED queue \/ ("lateRefuse" \in Faults /\ Enqueue(proc[p].run))
               /\ proc'[p].pc = "load" /\ proc'[p].run = proc[p].run
<1>1. ASSUME Become(p, Executing(proc[p].run))
      PROVE  proc'[p].pc = "load" /\ proc'[p].run = proc[p].run
  <2>1. proc'[p] = Executing(proc[p].run)
    BY <1>1, Own
  <2> QED BY <2>1 DEF Executing, Idle
<1> QED BY <1>1, Turned DEF Send, At

LEMMA GenerateSaveDoes ==
  ASSUME IndType, NEW p \in Procs, GenerateSave(p)
  PROVE  /\ At(p, {"genSave"}) /\ UNCHANGED <<runs, queue>>
         /\ \/ /\ exp.present
               /\ exp' = [exp EXCEPT !.gen = proc[p].gen, !.plan = TRUE]
               /\ proc'[p].pc = IF proc[p].op = "generate" THEN "genCreate" ELSE "genDelete"
               /\ proc'[p].run = proc[p].run /\ proc'[p].op = proc[p].op
               /\ proc'[p].gen = proc[p].gen
               /\ proc'[p].snap = [proc[p].snap EXCEPT !.gen = proc[p].gen, !.plan = TRUE]
            \/ ~exp.present /\ Ends(p) /\ UNCHANGED exp
<1> DEFINE pc == IF proc[p].op = "generate" THEN "genCreate" ELSE "genDelete"
           g == proc[p].gen
<1>t. proc[p] \in ProcRecords /\ proc[p].snap \in Snapshots
  BY ProcType DEF ProcRecords
<1>1. ASSUME Become(p, [proc[p] EXCEPT !.pc = pc, !.snap.gen = g, !.snap.plan = TRUE])
      PROVE  /\ proc'[p].pc = pc /\ proc'[p].run = proc[p].run /\ proc'[p].op = proc[p].op
             /\ proc'[p].gen = proc[p].gen
             /\ proc'[p].snap = [proc[p].snap EXCEPT !.gen = g, !.plan = TRUE]
  <2> HIDE DEF pc, g
  <2>1. proc'[p] = [proc[p] EXCEPT !.pc = pc, !.snap.gen = g, !.snap.plan = TRUE]
    BY <1>1, Own
  <2> QED BY <1>t, <2>1 DEF ProcRecords, Snapshots
<1> QED BY <1>1, Turned DEF GenerateSave, At

LEMMA GenerateDeleteDoes ==
  ASSUME IndType, NEW p \in Procs, GenerateDelete(p)
  PROVE  /\ At(p, {"genDelete"}) /\ UNCHANGED <<exp, queue>> /\ Turns(p, "genCreate")
         /\ runs' = Without(IF proc[p].op = "replaceGen" THEN InGen(runs, proc[p].gen)
                            ELSE {proc[p].run} \cap Live(runs))
BY Turned DEF GenerateDelete, At

LEMMA GenerateCreateDoes ==
  ASSUME IndType, NEW p \in Procs, GenerateCreate(p)
  PROVE  /\ At(p, {"genCreate"}) /\ UNCHANGED <<exp, queue>>
         /\ \/ (\E r \in Unused : Creates(r)) /\ (Turns(p, "resync") \/ Turns(p, "genCreate"))
            \/ Undoes /\ Ends(p)
            \/ ~exp.present /\ Ends(p) /\ UNCHANGED runs
<1> DEFINE pc == IF proc[p].left = 1 THEN "resync" ELSE "genCreate"
           left == proc[p].left - 1
<1>t. proc[p] \in ProcRecords
  BY ProcType
<1>1. ASSUME Become(p, [proc[p] EXCEPT !.pc = pc, !.left = left])
      PROVE  Turns(p, pc)
  <2> HIDE DEF pc, left
  <2>1. proc'[p] = [proc[p] EXCEPT !.pc = pc, !.left = left]
    BY <1>1, Own
  <2> QED BY <1>t, <2>1 DEF ProcRecords, Turns
<1>2. ASSUME NEW r \in RunIds, CreatePending(r, proc[p].gen, proc[p].stop)
      PROVE  r \in Unused /\ Creates(r)
  BY <1>2 DEF CreatePending, IsFirst, Creates
<1>3. ASSUME NEW r \in RunIds, CreateAndUndo(r)
      PROVE  Undoes
  BY <1>3 DEF CreateAndUndo, IsFirst, Undoes
<1> QED BY <1>1, <1>2, <1>3, Turned DEF GenerateCreate, At

LEMMA DeleteRowDoes ==
  ASSUME IndType, NEW p \in Procs, DeleteRow(p)
  PROVE  /\ At(p, {"deleteRow"}) /\ UNCHANGED <<exp, queue>>
         /\ \/ runs' = Without({proc[p].run}) /\ Turns(p, "resync")
            \/ Ends(p) /\ UNCHANGED runs
BY Turned DEF DeleteRow, At

LEMMA BulkDeleteOneDoes ==
  ASSUME IndType, NEW p \in Procs, BulkDeleteOne(p)
  PROVE  /\ At(p, {"bulkDelete"}) /\ UNCHANGED <<exp, queue>>
         /\ \/ /\ UNCHANGED runs \/ \E r \in proc[p].todo : runs' = Without({r})
               /\ proc'[p].pc = "bulkDelete" /\ proc'[p].todo \subseteq proc[p].todo
               /\ proc'[p].snap = proc[p].snap
            \/ UNCHANGED runs /\ Turns(p, "resync")
<1>t. proc[p] \in ProcRecords
  BY ProcType
<1>1. ASSUME NEW r, Become(p, [proc[p] EXCEPT !.todo = @ \ {r}])
      PROVE  /\ proc'[p].pc = proc[p].pc /\ proc'[p].todo \subseteq proc[p].todo
             /\ proc'[p].snap = proc[p].snap
  <2>1. proc'[p] = [proc[p] EXCEPT !.todo = @ \ {r}]
    BY <1>1, Own
  <2> QED BY <1>t, <2>1 DEF ProcRecords
<1> QED BY <1>1, Turned DEF BulkDeleteOne, At

LEMMA UploadDoes ==
  ASSUME IndType, NEW p \in Procs
  PROVE  /\ UploadDeleteRuns(p) =>
              /\ At(p, {"uploadDelete"}) /\ UNCHANGED <<exp, queue>> /\ Turns(p, "uploadSave")
              /\ runs' = Without(Live(runs))
         /\ UploadSave(p) =>
              /\ At(p, {"uploadSave"}) /\ UNCHANGED <<runs, queue>> /\ Ends(p)
              /\ exp'.present /\ exp'.status = "NEW" /\ exp'.plan = FALSE
<1>1. ASSUME UploadSave(p)
      PROVE  exp'.present /\ exp'.status = "NEW" /\ exp'.plan = FALSE
  <2>1. exp' = [present |-> TRUE, status |-> "NEW", gen |-> proc[p].snap.gen, plan |-> FALSE]
    BY <1>1 DEF UploadSave
  <2> QED BY <2>1
<1> QED BY <1>1, Turned DEF UploadDeleteRuns, UploadSave, At

LEMMA TaskLoadDoes ==
  ASSUME IndType, NEW p \in Procs, TaskLoad(p)
  PROVE  /\ At(p, {"load"}) /\ UNCHANGED <<exp, runs, queue>>
         /\ \/ /\ proc[p].run \in Live(runs)
               /\ proc'[p].pc = "begin" /\ proc'[p].run = proc[p].run /\ proc'[p].snap = Load
            \/ proc[p].run \notin Live(runs) /\ Ends(p)
<1>t. proc[p] \in ProcRecords
  BY ProcType
<1>1. ASSUME Become(p, [proc[p] EXCEPT !.pc = "begin", !.gen = runs[proc[p].run].gen, !.snap = Load])
      PROVE  proc'[p].pc = "begin" /\ proc'[p].run = proc[p].run /\ proc'[p].snap = Load
  <2>1. proc'[p] = [proc[p] EXCEPT !.pc = "begin", !.gen = runs[proc[p].run].gen, !.snap = Load]
    BY <1>1, Own
  <2> QED BY <1>t, <2>1 DEF ProcRecords
<1> QED BY <1>1, Turned DEF TaskLoad, At

LEMMA TaskBeginDoes ==
  ASSUME IndType, NEW p \in Procs, TaskBegin(p)
  PROVE  /\ At(p, {"begin"}) /\ UNCHANGED <<exp, queue>>
         /\ \/ Sets(proc[p].run, "RUNNING") /\ Turns(p, "began")
            \/ proc[p].run \notin Live(runs) /\ Ends(p) /\ UNCHANGED runs
BY Turned DEF TaskBegin, Sets, At

LEMMA TaskFinishDoes ==
  ASSUME IndType, NEW p \in Procs, NEW ok \in BOOLEAN, TaskFinish(p, ok)
  PROVE  /\ At(p, {"exec"}) /\ UNCHANGED <<exp, queue>>
         /\ \/ /\ Sets(proc[p].run, "SUCCEEDED") \/ Sets(proc[p].run, "FAILED")
               /\ proc'[p].pc = "finished" /\ proc'[p].run = proc[p].run
               /\ proc'[p].snap = proc[p].snap
            \/ proc[p].run \notin Live(runs) /\ Ends(p) /\ UNCHANGED runs
<1>t. proc[p] \in ProcRecords
  BY ProcType
<1>1. ASSUME NEW stop, Become(p, [proc[p] EXCEPT !.pc = "finished", !.stop = stop])
      PROVE  proc'[p].pc = "finished" /\ proc'[p].run = proc[p].run /\ proc'[p].snap = proc[p].snap
  <2>1. proc'[p] = [proc[p] EXCEPT !.pc = "finished", !.stop = stop]
    BY <1>1, Own
  <2> QED BY <1>t, <2>1 DEF ProcRecords
<1> QED BY <1>1, Turned DEF TaskFinish, Sets, At

LEMMA DispatchLookupDoes ==
  ASSUME IndType, NEW p \in Procs, DispatchLookup(p)
  PROVE  /\ At(p, {"next"}) /\ UNCHANGED <<exp, runs, queue>>
         /\ \/ proc'[p].pc = "claim" /\ proc'[p].run \in RunIds
            \/ Ends(p)
<1>1. ASSUME NEW r \in PendingIn(proc[p].gen), Become(p, [Idle EXCEPT !.pc = "claim", !.run = r])
      PROVE  proc'[p].pc = "claim" /\ proc'[p].run \in RunIds
  <2>1. proc'[p] = [Idle EXCEPT !.pc = "claim", !.run = r]
    BY <1>1, Own
  <2> QED BY <2>1 DEF Idle, PendingIn, InGen, Live
<1> QED BY <1>1, Turned DEF DispatchLookup, At

LEMMA DispatchClaimDoes ==
  ASSUME IndType, NEW p \in Procs, DispatchClaim(p)
  PROVE  /\ At(p, {"claim"}) /\ UNCHANGED <<exp, queue>>
         /\ \/ /\ runs[proc[p].run].st = "PENDING" /\ Turns(p, "send")
               /\ proc[p].run \in RunIds => Sets(proc[p].run, "RUNNING")
               /\ proc[p].run \notin RunIds => UNCHANGED runs
            \/ Ends(p) /\ UNCHANGED runs
<1>1. runs[proc[p].run].st = "PENDING" /\ proc[p].run \in RunIds => proc[p].run \in Live(runs)
  BY DEF Live, RunStatus
<1>2. proc[p].run \notin RunIds =>
        [runs EXCEPT ![proc[p].run].st = "RUNNING"] = runs
  BY DEF IndType
<1> QED BY <1>1, <1>2, Turned DEF DispatchClaim, Sets, At

\* The status syncs of a request and of a task.
DerivedBy(p) == Derived(proc[p].snap, runs)
Syncs(p, from, save, then) ==
  /\ At(p, {from}) /\ UNCHANGED <<exp, runs, queue>>
  /\ \/ Onward(p, then) /\ proc[p].snap.status = DerivedBy(p)
     \/ /\ proc'[p].pc = save /\ proc'[p].run = proc[p].run
        /\ proc'[p].snap = [proc[p].snap EXCEPT !.status = DerivedBy(p)]
Stores(p, from, then) ==
  /\ At(p, {from}) /\ UNCHANGED <<runs, queue>>
  /\ \/ exp.present /\ exp' = [exp EXCEPT !.status = proc[p].snap.status] /\ Onward(p, then)
     \/ ~exp.present /\ UNCHANGED exp /\ Ends(p)

LEMMA SyncsDo ==
  ASSUME IndType, NEW p \in Procs
  PROVE  /\ SyncMarked(p) => Syncs(p, "sync", "syncSave", "send")
         /\ SaveMarked(p) => Stores(p, "syncSave", "send")
         /\ Resync(p) => Syncs(p, "resync", "resyncSave", "idle")
         /\ SaveResynced(p) => Stores(p, "resyncSave", "idle")
         /\ TaskSyncBegan(p) => Syncs(p, "began", "beganSave", "exec")
         /\ TaskSaveBegan(p) => Stores(p, "beganSave", "exec")
         /\ TaskSyncFinished(p) => Syncs(p, "finished", "finishedSave", AfterOutcome(p))
         /\ TaskSaveFinished(p) => Stores(p, "finishedSave", AfterOutcome(p))
         /\ AfterOutcome(p) \in {"idle", "next"}
<1>1. AfterOutcome(p) \in {"idle", "next"} /\ AfterOutcome(p) \in PCs
  BY PCsMembers DEF AfterOutcome
<1>2. ASSUME NEW from, At(p, {from}), NEW save \in PCs, NEW then \in PCs, SyncDerive(p, save, then)
      PROVE  Syncs(p, from, save, then)
  BY <1>2, Derives DEF Syncs, DerivedBy
<1>3. ASSUME NEW from, At(p, {from}), NEW then \in PCs, SyncSave(p, then)
      PROVE  Stores(p, from, then)
  BY <1>3, Saves DEF Stores, Ends
<1>4. SyncMarked(p) => Syncs(p, "sync", "syncSave", "send")
  BY <1>2, PCsMembers DEF SyncMarked, At
<1>5. Resync(p) => Syncs(p, "resync", "resyncSave", "idle")
  BY <1>2, PCsMembers DEF Resync, At
<1>6. TaskSyncBegan(p) => Syncs(p, "began", "beganSave", "exec")
  BY <1>2, PCsMembers DEF TaskSyncBegan, At
<1>7. TaskSyncFinished(p) => Syncs(p, "finished", "finishedSave", AfterOutcome(p))
  BY <1>1, <1>2, PCsMembers DEF TaskSyncFinished, At
<1>8. SaveMarked(p) => Stores(p, "syncSave", "send")
  BY <1>3, PCsMembers DEF SaveMarked, At
<1>9. SaveResynced(p) => Stores(p, "resyncSave", "idle")
  BY <1>3, PCsMembers DEF SaveResynced, At
<1>10. TaskSaveBegan(p) => Stores(p, "beganSave", "exec")
  BY <1>3, PCsMembers DEF TaskSaveBegan, At
<1>11. TaskSaveFinished(p) => Stores(p, "finishedSave", AfterOutcome(p))
  BY <1>1, <1>3, PCsMembers DEF TaskSaveFinished, At
<1> QED BY <1>1, <1>4, <1>5, <1>6, <1>7, <1>8, <1>9, <1>10, <1>11

\* What a step does to a row, read off what it does to the table.
LEMMA RowOf ==
  ASSUME IndType
  PROVE  /\ \A r, st : Sets(r, st) =>
              /\ r \in Live(runs) /\ r \in RunIds
              /\ runs'[r].st = st /\ \A q \in RunIds : q # r => runs'[q] = runs[q]
         /\ \A r : Creates(r) =>
              /\ r \in RunIds /\ runs[r].st = "UNUSED" /\ exp.present
              /\ runs'[r].st = "PENDING" /\ \A q \in RunIds : q # r => runs'[q] = runs[q]
         /\ \A S : runs' = Without(S) =>
              \A q \in RunIds : IF q \in S THEN runs'[q].st = "DELETED" ELSE runs'[q] = runs[q]
BY DEF Sets, Creates, Live, Unused, Without, Gone, IndType, RunRows

-----------------------------------------------------------------------------
(* One sender *)

\* Who is about to claim or send a run has one, and the run to be sent is
\* PENDING no more.
Marked(p) ==
  /\ At(p, {"claim", "sync", "syncSave", "send"}) => proc[p].run \in RunIds
  /\ At(p, {"sync", "syncSave", "send"}) => runs[proc[p].run].st # "PENDING"
AllMarked == \A p \in Procs : Marked(p)

LEMMA ServeMarks ==
  ASSUME IndType, NEW p \in Procs, Serve(p), Marked(p)
  PROVE  Marked(p)'
<1>s. ASSUME proc'[p].pc \notin {"claim", "sync", "syncSave", "send"} PROVE Marked(p)'
  BY <1>s DEF Marked, At
<1>1. CASE CheckRunning(p) \/ StartSelect(p)
  BY <1>1, <1>s, CheckRunningDoes, StartSelectDoes DEF Ends, Turns
<1>2. CASE RerunInPlace(p) \/ RerunCreate(p) \/ RerunPublish(p)
  BY <1>2, <1>s, RerunInPlaceDoes, RerunCreateDoes, RerunPublishDoes DEF Ends, Turns
<1>3. CASE MarkRunning(p)
  BY <1>3, MarkRunningDoes, RowOf DEF Ends, Turns, Marked, At
<1>4. CASE SyncMarked(p)
  BY <1>4, SyncsDo DEF Syncs, Onward, Marked, At
<1>5. CASE SaveMarked(p)
  BY <1>5, SyncsDo DEF Stores, Onward, Ends, Marked, At
<1>6. CASE Resync(p) \/ SaveResynced(p)
  BY <1>6, <1>s, SyncsDo DEF Syncs, Stores, Onward, Ends
<1>7. CASE Send(p)
  BY <1>7, <1>s, SendDoes DEF Ends
<1>8. CASE GenerateSave(p) \/ GenerateDelete(p) \/ GenerateCreate(p)
  BY <1>8, <1>s, GenerateSaveDoes, GenerateDeleteDoes, GenerateCreateDoes DEF Ends, Turns
<1>9. CASE DeleteRow(p) \/ BulkDeleteOne(p) \/ UploadDeleteRuns(p) \/ UploadSave(p)
  BY <1>9, <1>s, DeleteRowDoes, BulkDeleteOneDoes, UploadDoes DEF Ends, Turns
<1> QED BY <1>1, <1>2, <1>3, <1>4, <1>5, <1>6, <1>7, <1>8, <1>9 DEF Serve

LEMMA TaskMarks ==
  ASSUME IndType, NEW p \in Procs, Task(p), Marked(p)
  PROVE  Marked(p)'
<1>s. ASSUME proc'[p].pc \notin {"claim", "sync", "syncSave", "send"} PROVE Marked(p)'
  BY <1>s DEF Marked, At
<1>1. CASE TaskLoad(p) \/ TaskBegin(p) \/ \E ok \in BOOLEAN : TaskFinish(p, ok)
  BY <1>1, <1>s, TaskLoadDoes, TaskBeginDoes, TaskFinishDoes DEF Ends, Turns
<1>2. CASE TaskSyncBegan(p) \/ TaskSaveBegan(p)
  BY <1>2, <1>s, SyncsDo DEF Syncs, Stores, Onward, Ends
<1>3. CASE TaskSyncFinished(p) \/ TaskSaveFinished(p)
  BY <1>3, <1>s, SyncsDo DEF Syncs, Stores, Onward, Ends
<1>4. CASE DispatchLookup(p)
  BY <1>4, DispatchLookupDoes DEF Ends, Marked, At
<1>5. CASE DispatchClaim(p)
  BY <1>5, DispatchClaimDoes, RowOf DEF Ends, Turns, Marked, At
<1> QED BY <1>1, <1>2, <1>3, <1>4, <1>5 DEF Task

\* Only a request makes a row PENDING.
LEMMA MakesPending ==
  ASSUME IndType, NEW p \in Procs, Serve(p) \/ Task(p), NEW r \in RunIds,
         runs'[r].st = "PENDING", runs[r].st # "PENDING"
  PROVE  At(p, RequestPCs)
<1>c. {"prepare", "genCreate", "mark", "genDelete", "deleteRow", "bulkDelete", "uploadDelete"}
        \subseteq RequestPCs
  BY DEF RequestPCs
<1>u. ~UNCHANGED runs
  OBVIOUS
<1>1. ASSUME Serve(p) PROVE At(p, RequestPCs)
  <2>1. ~CheckRunning(p) /\ ~StartSelect(p) /\ ~RerunPublish(p) /\ ~Send(p)
        /\ ~GenerateSave(p) /\ ~UploadSave(p)
    BY <1>u, CheckRunningDoes, StartSelectDoes, RerunPublishDoes, SendDoes, GenerateSaveDoes,
       UploadDoes
  <2>2. ~SyncMarked(p) /\ ~SaveMarked(p) /\ ~Resync(p) /\ ~SaveResynced(p)
    BY <1>u DEF SyncMarked, SaveMarked, Resync, SaveResynced, SyncDerive, SyncSave
  <2> QED BY <1>1, <1>c, <2>1, <2>2, RerunInPlaceDoes, RerunCreateDoes, MarkRunningDoes,
             GenerateDeleteDoes, GenerateCreateDoes, DeleteRowDoes, BulkDeleteOneDoes, UploadDoes
          DEF Serve, At
<1>2. ~Task(p)
  <2>1. ~TaskLoad(p) /\ ~DispatchLookup(p)
    BY <1>u, TaskLoadDoes, DispatchLookupDoes
  <2>2. ~TaskSyncBegan(p) /\ ~TaskSaveBegan(p) /\ ~TaskSyncFinished(p) /\ ~TaskSaveFinished(p)
    BY <1>u DEF TaskSyncBegan, TaskSaveBegan, TaskSyncFinished, TaskSaveFinished,
       SyncDerive, SyncSave
  <2>3. ~TaskBegin(p) /\ ~\E ok \in BOOLEAN : TaskFinish(p, ok)
    BY <1>u, TaskBeginDoes, TaskFinishDoes, RowOf
  <2>4. ~DispatchClaim(p)
    BY <1>u, DispatchClaimDoes, RowOf
  <2> QED BY <2>1, <2>2, <2>3, <2>4 DEF Task
<1> QED BY <1>1, <1>2

\* Only a claim makes somebody a sender while others are at work.
LEMMA BecomesSender ==
  ASSUME IndType, NEW p \in Procs, Serve(p) \/ Task(p), At(p, {"send"})', ~At(p, RequestPCs)
  PROVE  DispatchClaim(p)
<1>1. ~Serve(p)
  <2>1. ASSUME Serve(p) PROVE proc[p].pc \in RequestPCs \cup {"send"}
    <3>1. CASE SyncMarked(p) \/ SaveMarked(p) \/ Resync(p) \/ SaveResynced(p)
      BY <3>1 DEF SyncMarked, SaveMarked, Resync, SaveResynced, RequestPCs
    <3>2. CASE ~(SyncMarked(p) \/ SaveMarked(p) \/ Resync(p) \/ SaveResynced(p))
      BY <2>1, <3>2, CheckRunningDoes, StartSelectDoes, RerunInPlaceDoes, RerunCreateDoes,
         RerunPublishDoes, MarkRunningDoes, SendDoes, GenerateSaveDoes, GenerateDeleteDoes,
         GenerateCreateDoes, DeleteRowDoes, BulkDeleteOneDoes, UploadDoes
         DEF Serve, RequestPCs, At
    <3> QED BY <3>1, <3>2
  <2>2. ASSUME Serve(p) PROVE At(p, {"send"})
    BY <2>1, <2>2 DEF At
  <2>3. ASSUME Serve(p) PROVE Send(p)
    <3>1. At(p, {"send"})
      BY <2>2, <2>3
    <3> QED BY <2>3, <3>1, CheckRunningDoes, StartSelectDoes, RerunInPlaceDoes, RerunCreateDoes,
         RerunPublishDoes, MarkRunningDoes, GenerateSaveDoes, GenerateDeleteDoes,
         GenerateCreateDoes, DeleteRowDoes, BulkDeleteOneDoes, UploadDoes
         DEF Serve, SyncMarked, SaveMarked, Resync, SaveResynced, At
  <2> QED BY <2>3, SendDoes DEF Ends, At
<1>2. ASSUME Task(p), ~DispatchClaim(p) PROVE FALSE
  <2>1. proc'[p].pc # "send"
    <3>1. CASE TaskLoad(p) \/ TaskBegin(p) \/ \E ok \in BOOLEAN : TaskFinish(p, ok)
      BY <3>1, TaskLoadDoes, TaskBeginDoes, TaskFinishDoes DEF Ends, Turns
    <3>2. CASE TaskSyncBegan(p) \/ TaskSaveBegan(p)
      BY <3>2, SyncsDo DEF Syncs, Stores, Onward, Ends
    <3>3. CASE TaskSyncFinished(p) \/ TaskSaveFinished(p)
      BY <3>3, SyncsDo DEF Syncs, Stores, Onward, Ends
    <3>4. CASE DispatchLookup(p)
      BY <3>4, DispatchLookupDoes DEF Ends
    <3> QED BY <1>2, <3>1, <3>2, <3>3, <3>4 DEF Task
  <2> QED BY <2>1 DEF At
<1> QED BY <1>1, <1>2

\* What the steps that leave the rows alone do: a message is delivered or
\* duplicated, a process dies, nothing happens.
LEMMA Others ==
  ASSUME Patient, IndType, [Next]_vars,
         ~\E h \in Handlers : Arrive(h), ~DeleteExperiment,
         ~\E p \in Procs : Serve(p) \/ Task(p)
  PROVE  /\ UNCHANGED <<exp, runs>>
         /\ \/ \E w \in Workers, r \in RunIds :
                 /\ queue[r] > 0 /\ queue' = [queue EXCEPT ![r] = @ - 1]
                 /\ proc[w].pc = "idle" /\ proc'[w].pc = "load" /\ proc'[w].run = r
                 /\ \A q \in Procs : q # w => proc'[q] = proc[q]
            \/ /\ "crash" \in Faults /\ UNCHANGED queue
               /\ \E p \in Procs : /\ proc[p].pc # "idle" /\ Ends(p)
                                   /\ \A q \in Procs : q # p => proc'[q] = proc[q]
            \/ Rests
<1>1. ASSUME NEW w \in Workers, NEW r \in RunIds, Deliver(w, r)
      PROVE  /\ UNCHANGED <<exp, runs>>
             /\ queue[r] > 0 /\ queue' = [queue EXCEPT ![r] = @ - 1]
             /\ proc[w].pc = "idle" /\ proc'[w].pc = "load" /\ proc'[w].run = r
             /\ \A q \in Procs : q # w => proc'[q] = proc[q]
  <2>1. w \in Procs /\ proc'[w] = Executing(r) /\ \A q \in Procs : q # w => proc'[q] = proc[q]
    BY <1>1, Own DEF Deliver, Procs
  <2>2. proc'[w].pc = "load" /\ proc'[w].run = r
    BY <2>1 DEF Executing, Idle
  <2> QED BY <1>1, <2>1, <2>2 DEF Deliver
<1>2. ASSUME NEW p \in Procs, Crash(p)
      PROVE  /\ UNCHANGED <<exp, runs, queue>> /\ "crash" \in Faults /\ proc[p].pc # "idle"
             /\ Ends(p) /\ \A q \in Procs : q # p => proc'[q] = proc[q]
  BY <1>2, OwnReturn DEF Crash, Ends
<1>3. ASSUME NEW r \in RunIds, Redeliver(r)
      PROVE  UNCHANGED <<exp, runs>> /\ Rests
  BY <1>3 DEF Redeliver, Rests
<1>4. CASE UNCHANGED vars
  BY <1>4 DEF vars, Rests
<1> QED BY <1>1, <1>2, <1>3, <1>4 DEF Next, Progress, Delivery, Fault

LEMMA KeepsOthers ==
  ASSUME IndType, NEW p \in Procs, Serve(p) \/ Task(p)
  PROVE  \A q \in Procs : q # p => proc'[q] = proc[q]
BY ServeMoves, TaskMoves DEF Moves

LEMMA StaysMarked ==
  ASSUME Patient, IndType, AloneWhenAsked, AllMarked, [Next]_vars
  PROVE  AllMarked'
<1> SUFFICES ASSUME NEW p \in Procs PROVE Marked(p)'
  BY DEF AllMarked
<1>m. Marked(p)
  BY DEF AllMarked
<1>1. ASSUME NEW h \in Handlers, Arrive(h)
      PROVE  Marked(p)'
  <2>1. h \in Procs
    BY DEF Procs
  <2>2. proc'[p].pc \notin {"claim", "sync", "syncSave", "send"}
    BY <1>1, <2>1, ArriveStarts DEF Quiet, FirstPlaces
  <2> QED BY <2>2 DEF Marked, At
<1>2. ASSUME NEW x \in Procs, Serve(x) \/ Task(x)
      PROVE  Marked(p)'
  <2>1. CASE x = p
    BY <1>2, <1>m, <2>1, ServeMarks, TaskMarks
  <2>2. CASE x # p
    <3>1. proc'[p] = proc[p]
      BY <1>2, <2>2, KeepsOthers
    <3>2. ASSUME At(p, {"sync", "syncSave", "send"}) PROVE runs'[proc[p].run].st # "PENDING"
      <4>1. proc[p].pc # "idle" /\ proc[p].run \in RunIds /\ runs[proc[p].run].st # "PENDING"
        BY <1>m, <3>2 DEF Marked, At
      <4>2. ~At(x, RequestPCs)
        BY <2>2, <4>1 DEF AloneWhenAsked, Only
      <4> QED BY <1>2, <4>1, <4>2, MakesPending
    <3> QED BY <1>m, <3>1, <3>2 DEF Marked, At
  <2> QED BY <2>1, <2>2
<1>3. CASE DeleteExperiment
  BY <1>3 DEF DeleteExperiment, Quiet, Marked, At
<1>4. CASE /\ ~\E h \in Handlers : Arrive(h)
           /\ ~DeleteExperiment
           /\ ~\E x \in Procs : Serve(x) \/ Task(x)
  <2>1. UNCHANGED runs /\ (proc'[p] = proc[p] \/ proc'[p].pc \in {"idle", "load"})
    BY <1>4, Others DEF Ends, Rests, Procs
  <2> QED BY <1>m, <2>1 DEF Marked, At
<1> QED BY <1>1, <1>2, <1>3, <1>4

\* A patient client's runs have one sender each, also when messages are
\* duplicated and processes die: of several dispatchers that looked up the same
\* PENDING run one claims it, and nobody makes it PENDING again meanwhile.
THEOREM OneSender == Patient => (Spec => []OneSenderPerRun)
<1> SUFFICES ASSUME Patient PROVE Spec => []OneSenderPerRun
  OBVIOUS
<1>1. Init => AllMarked /\ OneSenderPerRun
  BY DEF Init, AllMarked, Marked, At, OneSenderPerRun, Idle
<1>2. IndType /\ AloneWhenAsked /\ AllMarked /\ OneSenderPerRun /\ [Next]_vars
        => AllMarked' /\ OneSenderPerRun'
  <2> SUFFICES ASSUME IndType, AloneWhenAsked, AllMarked, OneSenderPerRun, [Next]_vars
               PROVE  OneSenderPerRun'
    BY StaysMarked
  <2> SUFFICES ASSUME NEW p \in Procs, NEW q \in Procs, p # q, proc'[p].run = proc'[q].run,
                      proc'[p].pc = "send", proc'[q].pc = "send"
               PROVE  FALSE
    BY DEF OneSenderPerRun
  <2>1. ASSUME NEW x \in Procs, NEW y \in Procs, x # y, Serve(x) \/ Task(x), proc[x].pc # "send",
               proc'[x].pc = "send", proc'[y].pc = "send", proc'[x].run = proc'[y].run
        PROVE  FALSE
    <3>1. proc'[y] = proc[y]
      BY <2>1, KeepsOthers
    <3>2. ~At(x, RequestPCs)
      BY <2>1, <3>1 DEF AloneWhenAsked, Only
    <3>3. DispatchClaim(x)
      BY <2>1, <3>2, BecomesSender DEF At
    <3>4. proc'[x].run = proc[x].run /\ runs[proc[x].run].st = "PENDING"
      BY <2>1, <3>3, DispatchClaimDoes DEF Ends, Turns
    <3>5. runs[proc[y].run].st # "PENDING"
      BY <2>1, <3>1 DEF AllMarked, Marked, At
    <3> QED BY <2>1, <3>1, <3>4, <3>5
  <2>2. ASSUME NEW x \in Procs, Serve(x) \/ Task(x)
        PROVE  FALSE
    <3>1. \A y \in Procs : y # x => proc'[y] = proc[y]
      BY <2>2, KeepsOthers
    <3>2. CASE x = p /\ proc[p].pc # "send"
      BY <2>1, <2>2, <3>2
    <3>3. CASE x = q /\ proc[q].pc # "send"
      BY <2>1, <2>2, <3>3
    <3>4. ASSUME proc[x].pc = "send" PROVE proc'[x].pc # "send"
      <4>1. ~At(x, RequestPCs) /\ ~DispatchClaim(x)
        BY <3>4, PlacesDiffer DEF At, DispatchClaim
      <4> QED BY <2>2, <4>1, BecomesSender DEF At
    <3> QED BY <3>1, <3>2, <3>3, <3>4 DEF OneSenderPerRun
  <2>3. ASSUME NEW h \in Handlers, Arrive(h)
        PROVE  FALSE
    <3>1. h \in Procs
      BY DEF Procs
    <3> QED BY <2>3, <3>1, ArriveStarts DEF Quiet, FirstPlaces
  <2>4. CASE DeleteExperiment
    BY <2>4 DEF DeleteExperiment, Quiet
  <2>5. CASE /\ ~\E h \in Handlers : Arrive(h)
             /\ ~DeleteExperiment
             /\ ~\E x \in Procs : Serve(x) \/ Task(x)
    BY <2>5, Others DEF Ends, Rests, Procs, OneSenderPerRun
  <2> QED BY <2>2, <2>3, <2>4, <2>5
<1> QED BY <1>1, <1>2, Typed, Alone, PTL DEF Spec
=============================================================================
