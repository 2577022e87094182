-------------------------- MODULE InventoryVmProofs --------------------------
(***************************************************************************)
(* Theorems of InventoryVm, for every number of threads, workers,          *)
(* containers, tasks and events: records stay well formed, and what a      *)
(* client is answered about a stop request is what its task did.           *)
(***************************************************************************)
EXTENDS InventoryVm, SequenceTheorems, TLAPS

(* Data *)

(* A stored operation is replaced by one that is well formed.              *)
LEMMA WithOpType ==
  ASSUME NEW ops \in Ops, NEW c \in Containers, NEW t \in {Local} \cup Tasks, NEW s \in {"none", "RUNNING"} \cup Final
  PROVE  WithOp(ops, c, t, s) \in Ops
  BY DEF WithOp, Ops, Op

(* The parts of a row that a frame uses are rows.                          *)
LEMMA RowTypes ==
  /\ NoOps \in Ops /\ NoRow \in Rows
  /\ \A r \in Rows : OpsOf(r) \in Rows /\ ManagedOf(r) \in Rows
<1>1. NoOps \in Ops
  BY DEF NoOps, Ops, Op
<1>2. NoRow \in Rows
  BY <1>1 DEF NoRow, Rows
<1>3. ASSUME NEW r \in Rows PROVE OpsOf(r) \in Rows /\ ManagedOf(r) \in Rows
  BY <1>1 DEF OpsOf, ManagedOf, Rows
<1> QED BY <1>1, <1>2, <1>3

(* Somebody who does nothing.                                              *)
LEMMA IdleType == Idle \in Records /\ Idle.task = Local /\ Idle.pc = "idle" /\ Idle.ok = FALSE /\ Idle.seen = NoRow
<1>1. (CHOOSE c \in Containers : TRUE) \in Containers
  BY VmContainers
<1>2. <<>> \in Seq(Actions)
  OBVIOUS
<1> QED BY <1>1, <1>2, RowTypes DEF Idle, Records, PCs

---------------------------------------------------------------------------
(* Types *)

(* A process works for a task the broker has accepted, or for none, and is *)
(* in a phase only with actions left.                                      *)
Fits(rec) ==
  /\ rec \in Records
  /\ rec.task \in {Local} \cup DOMAIN of
  /\ rec.pc \in PhasePCs => rec.todo # <<>>

Shape ==
  /\ \A p \in Procs : Fits(proc[p])
  /\ queue \subseteq DOMAIN of
  /\ \A t \in Tasks : answer[t] # "none" => t \in DOMAIN of

(* One process moves on.                                                   *)
LEMMA FitsKept ==
  ASSUME TypeOK, Shape, NEW p \in Procs, NEW rec, Become(p, rec), UNCHANGED of, Fits(rec)
  PROVE  proc' \in [Procs -> Records] /\ \A q \in Procs : Fits(proc[q])'
<1>1. proc' \in [Procs -> Records]
  BY DEF TypeOK, Become, Fits
<1>2. ASSUME NEW q \in Procs PROVE Fits(proc[q])'
  BY <1>2 DEF TypeOK, Become, Shape, Fits
<1> QED BY <1>1, <1>2

(* What a process becomes fits it.                                         *)
LEMMA IdleFits == Fits(Idle)
BY IdleType DEF Fits, PhasePCs

(* A frame that goes on with its own task, or with no task.                *)
LEMMA FitsNext ==
  ASSUME NEW old, NEW pc \in PCs, NEW seen \in Rows, Fits(old), pc \in PhasePCs => old.todo # <<>>
  PROVE  /\ Fits([old EXCEPT !.pc = pc])
         /\ Fits([old EXCEPT !.pc = pc, !.seen = seen])
         /\ \A found \in SUBSET Containers : Fits([old EXCEPT !.pc = pc, !.found = found, !.seen = seen])
         /\ \A ok \in BOOLEAN, found \in SUBSET Containers : Fits([old EXCEPT !.pc = pc, !.ok = ok, !.found = found, !.seen = seen])
<1> USE DEF Fits, Records
<1>1. Fits([old EXCEPT !.pc = pc])
  OBVIOUS
<1>2. Fits([old EXCEPT !.pc = pc, !.seen = seen])
  OBVIOUS
<1>3. ASSUME NEW found \in SUBSET Containers PROVE Fits([old EXCEPT !.pc = pc, !.found = found, !.seen = seen])
  OBVIOUS
<1>4. ASSUME NEW ok \in BOOLEAN, NEW found \in SUBSET Containers
      PROVE  Fits([old EXCEPT !.pc = pc, !.ok = ok, !.found = found, !.seen = seen])
  OBVIOUS
<1> QED BY <1>1, <1>2, <1>3, <1>4

(* What the first step of a request or a phase makes of a process.         *)
LEMMA FitsSeen ==
  ASSUME NEW pc \in PCs \ PhasePCs, NEW seen \in Rows
  PROVE  Fits([Idle EXCEPT !.pc = pc, !.seen = seen])
BY IdleType DEF Fits, Records

(* The same for a container.                                               *)
LEMMA FitsFirst ==
  ASSUME NEW pc \in PCs \ PhasePCs, NEW seen \in Rows, NEW c \in Containers
  PROVE  /\ Fits([Idle EXCEPT !.pc = pc, !.c = c, !.seen = seen])
         /\ Fits([Idle EXCEPT !.pc = pc, !.c = c])
         /\ \A t \in Tasks \cap DOMAIN of : Fits([Idle EXCEPT !.pc = pc, !.task = t, !.c = c])
<1> USE IdleType DEF Fits, Records
<1>2. Fits([Idle EXCEPT !.pc = pc, !.c = c, !.seen = seen])
  OBVIOUS
<1>3. Fits([Idle EXCEPT !.pc = pc, !.c = c])
  OBVIOUS
<1>4. ASSUME NEW t \in Tasks \cap DOMAIN of PROVE Fits([Idle EXCEPT !.pc = pc, !.task = t, !.c = c])
  OBVIOUS
<1> QED BY <1>2, <1>3, <1>4

(* A worker that begins a phase has its actions before it.                 *)
LEMMA FitsPhase ==
  ASSUME NEW todo \in Seq(Actions), todo # <<>>
  PROVE  Fits([Idle EXCEPT !.pc = "act", !.todo = todo])
BY IdleType DEF Fits, Records, PCs, PhasePCs

(* The parts of TypeOK that are not about processes.                       *)
Statuses == {"none", "raised"} \cup Final
Answers == {"none", "RUNNING"} \cup Final
Times == trust \in {"good", "checking", "stale"} /\ events \in 0..MaxEvents
Outside ==
  /\ row \in Rows
  /\ box \in [Containers -> {"absent", "stopped", "running"}]
  /\ result \in [Tasks -> Statuses]
  /\ answer \in [Tasks -> Answers]
  /\ removed \subseteq {Local} \cup Tasks /\ lost \subseteq Tasks
  /\ Times

(* Whatever a step does to the history, it stays within its bounds.        *)
LEMMA TimesKept ==
  ASSUME Times,
         \/ Undisturbed \/ Fault \/ UNCHANGED <<trust, events>>
         \/ \E p \in Procs : Join(p)
  PROVE  Times'
BY VmBounds DEF Times, Undisturbed, Fault, Happens, Join

(* One process moves on, nothing is sent, and the client asks for nothing. *)
LEMMA TypedStep ==
  ASSUME TypeOK, Shape, NEW p \in Procs, NEW rec, Become(p, rec), Fits(rec),
         UNCHANGED <<of, queue, answer>>, Outside'
  PROVE  TypeOK' /\ Shape'
<1>1. proc' \in [Procs -> Records] /\ \A q \in Procs : Fits(proc[q])'
  BY FitsKept
<1>2. TypeOK'
  BY <1>1 DEF TypeOK, Outside, Times, Statuses, Answers
<1>3. Shape'
  BY <1>1 DEF Shape
<1> QED BY <1>2, <1>3

(* The process of a step, and what it has seen.                            *)
LEMMA AProcess ==
  ASSUME TypeOK, Shape, NEW p \in Procs
  PROVE  /\ Fits(proc[p])
         /\ proc[p] \in Records
         /\ proc[p].seen \in Rows /\ proc[p].c \in Containers /\ proc[p].task \in {Local} \cup Tasks
         /\ proc[p].found \in SUBSET Containers /\ proc[p].ok \in BOOLEAN /\ proc[p].todo \in Seq(Actions)
         /\ OpsOf(proc[p].seen) \in Rows
         /\ OpsOf(row) \in Rows /\ ManagedOf(row) \in Rows
         /\ proc[p].seen.ops \in Ops /\ row.ops \in Ops
         /\ proc[p].seen.managed \in SUBSET Containers /\ row.managed \in SUBSET Containers
         /\ Outside
<1>1. Fits(proc[p]) /\ proc[p] \in Records
  BY DEF Shape, Fits
<1>2. Outside
  BY DEF TypeOK, Outside, Times, Statuses, Answers
<1>3. row \in Rows
  BY <1>2 DEF Outside
<1>4. proc[p].seen \in Rows
  BY <1>1 DEF Records
<1>5. \A r \in Rows : r.ops \in Ops /\ r.managed \in SUBSET Containers
  BY DEF Rows
<1> QED BY <1>1, <1>2, <1>3, <1>4, <1>5, RowTypes DEF Records

(* Changes of a row's columns.                                             *)
LEMMA RowChanges ==
  ASSUME NEW r \in Rows, NEW ops \in Ops, NEW managed \in SUBSET Containers, NEW key \in BOOLEAN
  PROVE  /\ [r EXCEPT !.ops = ops] \in Rows
         /\ [r EXCEPT !.managed = managed] \in Rows
         /\ [r EXCEPT !.ops = ops, !.managed = managed] \in Rows
         /\ [r EXCEPT !.present = TRUE, !.key = key, !.ops = ops] \in Rows
         /\ [r EXCEPT !.key = FALSE] \in Rows
         /\ [r EXCEPT !.ops = ops, !.key = FALSE] \in Rows
BY DEF Rows

(* The requests for a check keep the types.                                *)
LEMMA CheckTypes ==
  ASSUME TypeOK, Shape, NEW h \in Procs, CheckRead(h) \/ CheckLook(h) \/ CheckSave(h)
  PROVE  TypeOK' /\ Shape'
<1> USE AProcess
<1>1. CASE CheckRead(h)
  <2>1. Fits([Idle EXCEPT !.pc = "checkLook", !.seen = [row EXCEPT !.key = FALSE]])
    <3>1. [row EXCEPT !.key = FALSE] \in Rows
      BY DEF Outside, Rows
    <3>2. "checkLook" \in PCs \ PhasePCs
      BY DEF PCs, PhasePCs
    <3> QED BY <3>1, <3>2, FitsSeen
  <2>2. Times'
    BY <1>1 DEF CheckRead, Times, Outside
  <2>3. Outside'
    BY <1>1, <2>2 DEF CheckRead, Outside, broker, past
  <2> QED BY <1>1, <2>1, <2>3, TypedStep DEF CheckRead, broker
<1>2. CASE CheckLook(h)
  <2>1. PICK ok \in BOOLEAN, found \in SUBSET Containers : Saving(h, ok, found)
    BY <1>2 DEF CheckLook, Running
  <2>2. Fits([proc[h] EXCEPT !.pc = "checkSave", !.ok = ok, !.found = found, !.seen = OpsOf(proc[h].seen)])
    BY FitsNext DEF PCs, PhasePCs
  <2>3. Times'
    BY <1>2, TimesKept DEF CheckLook, Outside
  <2>4. Outside'
    BY <1>2, <2>3 DEF CheckLook, Outside, broker, past
  <2> QED BY <1>2, <2>1, <2>2, <2>4, TypedStep DEF CheckLook, broker, Saving
<1>3. CASE CheckSave(h)
  <2>1. Times'
    BY <1>3 DEF CheckSave, Times, Outside
  <2>2. row' \in Rows
    <3>1. proc[h].seen.ops \in Ops /\ proc[h].found \in SUBSET Containers /\ row \in Rows
      BY DEF Outside
    <3>2. CASE ~row.present
      BY <1>3, <3>1, <3>2 DEF CheckSave
    <3>3. CASE row.present /\ proc[h].ok
      BY <1>3, <3>1, <3>3, RowChanges DEF CheckSave
    <3>4. CASE row.present /\ ~proc[h].ok
      BY <1>3, <3>1, <3>4 DEF CheckSave, Rows
    <3> QED BY <3>2, <3>3, <3>4
  <2>3. Outside'
    BY <1>3, <2>1, <2>2 DEF CheckSave, Outside, broker, past
  <2> QED BY <1>3, <2>3, IdleFits, TypedStep DEF CheckSave, broker, Return
<1> QED BY <1>1, <1>2, <1>3

(* A task or a handler that has sent its message is typed.                 *)
LEMMA SeenOp ==
  ASSUME TypeOK, Shape, NEW p \in Procs, NEW status \in {"RUNNING"} \cup Final
  PROVE  WithOp(proc[p].seen.ops, proc[p].c, proc[p].task, status) \in Ops
<1>1. proc[p].seen.ops \in Ops /\ proc[p].c \in Containers /\ proc[p].task \in {Local} \cup Tasks
  BY AProcess
<1> QED BY <1>1, WithOpType

(* The broker gives out the next number.                                   *)
LEMMA NextTask ==
  ASSUME TypeOK, NEW c \in Containers, of' = Append(of, c), Len(of) + 1 \in Tasks
  PROVE  /\ of' \in Seq(Containers) /\ Len(of') <= MaxTasks
         /\ DOMAIN of' = DOMAIN of \cup {Len(of) + 1} /\ Len(of) + 1 \notin DOMAIN of
         /\ DOMAIN of \subseteq Tasks
<1>1. of \in Seq(Containers) /\ Len(of) \in Nat /\ Len(of) <= MaxTasks
  BY DEF TypeOK
<1>2. of' \in Seq(Containers) /\ Len(of') = Len(of) + 1
  BY <1>1, AppendProperties
<1>3. DOMAIN of = 1..Len(of) /\ DOMAIN of' = 1..Len(of')
  BY <1>1, <1>2
<1> QED BY <1>1, <1>2, <1>3, VmBounds DEF Tasks

(* What Enqueue does: the message is accepted, or the handler goes on with *)
(* the task itself.                                                        *)
Accepted(h) ==
  /\ Len(of) + 1 \in Tasks
  /\ of' = Append(of, proc[h].c)
  /\ queue' = queue \cup {Len(of) + 1}
  /\ Become(h, [proc[h] EXCEPT !.pc = "saveOp", !.task = Len(of) + 1])
  /\ UNCHANGED <<trust, events>>
Turned(h) ==
  /\ Become(h, [Idle EXCEPT !.pc = "load", !.c = proc[h].c])
  /\ Fault
  /\ UNCHANGED <<of, queue>>

(* The broker takes the message of a stop request, or the handler goes on. *)
LEMMA EnqueueCases ==
  ASSUME NEW h \in Procs, Enqueue(h)
  PROVE  /\ Accepted(h) \/ Turned(h)
         /\ At(h, "enqueue")
         /\ UNCHANGED <<row, box, result, answer, removed, lost>>
BY DEF Enqueue, Accepted, Turned, past

(* The requests to stop a container keep the types.                        *)
LEMMA StopTypes ==
  ASSUME TypeOK, Shape, NEW h \in Procs,
         (\E c \in Containers : StopRead(h, c)) \/ Enqueue(h) \/ SaveOp(h)
  PROVE  TypeOK' /\ Shape'
<1>1. /\ row \in Rows /\ OpsOf(row) \in Rows /\ Outside /\ Fits(proc[h]) /\ proc[h] \in Records
      /\ proc[h].c \in Containers
  BY AProcess DEF Outside
<1>2. ASSUME NEW c \in Containers, StopRead(h, c) PROVE TypeOK' /\ Shape'
  <2>1. "enqueue" \in PCs \ PhasePCs
    BY DEF PCs, PhasePCs
  <2>2. Fits([Idle EXCEPT !.pc = "enqueue", !.c = c, !.seen = OpsOf(row)])
    BY <1>1, <2>1, FitsFirst
  <2>3. Outside'
    BY <1>1, <1>2 DEF StopRead, Outside, Times, broker, past
  <2> QED BY <1>2, <2>2, <2>3, TypedStep DEF StopRead, broker
<1>3. ASSUME Enqueue(h), Turned(h) PROVE TypeOK' /\ Shape'
  <2>1. "load" \in PCs \ PhasePCs
    BY DEF PCs, PhasePCs, StopPCs
  <2>2. Fits([Idle EXCEPT !.pc = "load", !.c = proc[h].c])
    BY <1>1, <2>1, FitsFirst, RowTypes
  <2>3. Times'
    BY <1>1, <1>3, TimesKept DEF Turned, Outside
  <2>4. Outside'
    BY <1>1, <1>3, <2>3, EnqueueCases DEF Outside
  <2> QED BY <1>3, <2>2, <2>4, TypedStep, EnqueueCases DEF Turned
<1>4. ASSUME Enqueue(h), Accepted(h) PROVE TypeOK' /\ Shape'
  <2> DEFINE t == Len(of) + 1
             rec == [proc[h] EXCEPT !.pc = "saveOp", !.task = t]
  <2>1. /\ of' \in Seq(Containers) /\ Len(of') <= MaxTasks
        /\ DOMAIN of' = DOMAIN of \cup {t} /\ t \notin DOMAIN of /\ t \in Tasks
    BY <1>1, <1>4, NextTask DEF Accepted
  <2>2. rec \in Records /\ rec.pc = "saveOp" /\ rec.task = t
    BY <1>1, <2>1 DEF Records, PCs
  <2>3. proc' = [proc EXCEPT ![h] = rec]
    BY <1>4 DEF Accepted, Become
  <2>4. proc' \in [Procs -> Records]
    BY <2>2, <2>3 DEF TypeOK
  <2>5. queue' \subseteq DOMAIN of' /\ queue' \subseteq Tasks
    BY <1>4, <2>1 DEF Accepted, Shape, TypeOK
  <2>6. TypeOK'
    BY <1>4, <2>1, <2>4, <2>5, EnqueueCases DEF TypeOK, Accepted
  <2>7. ASSUME NEW q \in Procs PROVE Fits(proc[q])'
    <3>1. CASE q = h
      BY <3>1, <2>1, <2>2, <2>3 DEF TypeOK, Fits, PhasePCs
    <3>2. CASE q # h
      BY <3>2, <2>1, <2>3 DEF TypeOK, Fits, Shape
    <3> QED BY <3>1, <3>2
  <2>8. \A u \in Tasks : answer'[u] # "none" => u \in DOMAIN of'
    BY <1>4, <2>1, EnqueueCases DEF Shape
  <2> QED BY <2>5, <2>6, <2>7, <2>8 DEF Shape
<1>5. CASE SaveOp(h)
  <2>1. row' \in Rows
    <3>1. WithOp(proc[h].seen.ops, proc[h].c, proc[h].task, "RUNNING") \in Ops
      BY SeenOp
    <3> QED BY <1>1, <1>5, <3>1, RowChanges DEF SaveOp
  <2>2. answer' \in [Tasks -> Answers] /\ \A t \in Tasks : answer'[t] # "none" => t \in DOMAIN of
    <3>1. proc[h].task \in {Local} \cup DOMAIN of /\ Local \notin Tasks
      BY <1>1, VmBounds DEF Fits, Tasks, Local
    <3>2. answer' = answer \/ answer' = [answer EXCEPT ![proc[h].task] = "RUNNING"]
      BY <1>5 DEF SaveOp
    <3>3. answer \in [Tasks -> Answers] /\ \A t \in Tasks : answer[t] # "none" => t \in DOMAIN of
      BY <1>1 DEF Outside, Shape
    <3>4. "RUNNING" \in Answers
      BY DEF Answers
    <3> QED BY <3>1, <3>2, <3>3, <3>4
  <2>3. proc' \in [Procs -> Records] /\ \A q \in Procs : Fits(proc[q])'
    BY <1>5, FitsKept, IdleFits DEF SaveOp, Return
  <2>4. TypeOK'
    BY <1>5, <2>1, <2>2, <2>3 DEF SaveOp, TypeOK, past, Answers
  <2>5. Shape'
    BY <1>5, <2>2, <2>3 DEF Shape, SaveOp
  <2> QED BY <2>4, <2>5
<1> QED BY <1>2, <1>3, <1>4, <1>5, EnqueueCases

(* The task keeps the types, from the message to its end.                  *)
LEMMA DeliverTypes ==
  ASSUME TypeOK, Shape, NEW w \in Workers, NEW t \in Tasks, Deliver(w, t)
  PROVE  TypeOK' /\ Shape'
<1>1. /\ w \in Procs /\ of[t] \in Containers /\ t \in Tasks \cap DOMAIN of
  BY DEF Deliver, Shape, TypeOK, Procs
<1>2. "load" \in PCs \ PhasePCs
  BY DEF PCs, PhasePCs, StopPCs
<1>3. Fits([Idle EXCEPT !.pc = "load", !.task = t, !.c = of[t]])
  BY <1>1, <1>2, FitsFirst, RowTypes
<1>4. proc' \in [Procs -> Records] /\ \A q \in Procs : Fits(proc[q])'
  BY <1>1, <1>3, FitsKept DEF Deliver
<1>5. Times'
  BY <1>1, AProcess, TimesKept DEF Deliver, Outside
<1>6. TypeOK'
  BY <1>4, <1>5 DEF Deliver, TypeOK, past, Times
<1>7. Shape'
  BY <1>4 DEF Shape, Deliver
<1> QED BY <1>6, <1>7

(* A task that ends reports to the result backend or to nobody.            *)
LEMMA EndTypes ==
  ASSUME TypeOK, Shape, NEW p \in Procs, NEW v \in {"raised"} \cup Final, EndTask(p, v)
  PROVE  Become(p, Idle) /\ result' \in [Tasks -> Statuses]
<1>1. v \in Statuses /\ result \in [Tasks -> Statuses]
  BY DEF Statuses, TypeOK
<1>2. result' = result \/ result' = [result EXCEPT ![proc[p].task] = v]
  BY DEF EndTask
<1> QED BY <1>1, <1>2 DEF EndTask, Return

(* What a task reports of its own work is final.                           *)
LEMMA VerdictType == ASSUME NEW p \in Procs PROVE Verdict(p) \in Final
BY DEF Verdict, Final

(* The steps of a task keep types.                                         *)
LEMMA TaskTypes ==
  ASSUME TypeOK, Shape, NEW p \in Procs, TaskStep(p)
  PROVE  TypeOK' /\ Shape'
<1>1. /\ row \in Rows /\ Outside /\ Fits(proc[p]) /\ proc[p] \in Records /\ OpsOf(proc[p].seen) \in Rows
      /\ proc[p].c \in Containers /\ proc[p].seen \in Rows /\ proc[p].seen.ops \in Ops
      /\ proc[p].found \in SUBSET Containers /\ proc[p].seen.managed \in SUBSET Containers
  BY AProcess DEF Outside
<1>2. \A pc \in StopPCs \cup {"save"} : pc \in PCs \ PhasePCs
  BY DEF PCs, PhasePCs, StopPCs
<1>4. ASSUME UNCHANGED <<of, queue, answer>>, NEW rec, Become(p, rec), Fits(rec), Outside'
      PROVE  TypeOK' /\ Shape'
  BY <1>4, TypedStep
<1>5. \A found \in SUBSET Containers : Looked(p, found) => \E rec : Become(p, rec) /\ Fits(rec)
  <2> SUFFICES ASSUME NEW found \in SUBSET Containers, Looked(p, found)
               PROVE  \E rec : Become(p, rec) /\ Fits(rec)
    OBVIOUS
  <2>1. Fits([proc[p] EXCEPT !.pc = "save", !.found = found, !.seen = OpsOf(proc[p].seen)])
    BY <1>1, <1>2, FitsNext
  <2> QED BY <2>1 DEF Looked
<1>6. \A pc \in StopPCs : Goto(p, pc) => \E rec : Become(p, rec) /\ Fits(rec)
  <2> SUFFICES ASSUME NEW pc \in StopPCs, Goto(p, pc)
               PROVE  \E rec : Become(p, rec) /\ Fits(rec)
    OBVIOUS
  <2>1. Fits([proc[p] EXCEPT !.pc = pc])
    BY <1>1, <1>2, FitsNext
  <2> QED BY <2>1 DEF Goto
<1>7. \A v \in {"raised"} \cup Final : EndTask(p, v) => Become(p, Idle) /\ result' \in [Tasks -> Statuses]
  BY EndTypes
<1>8. CASE TaskLoad(p)
  <2>1. Fits([proc[p] EXCEPT !.pc = "begin", !.seen = row])
    BY <1>1, <1>2, FitsNext DEF StopPCs
  <2>2. \/ Become(p, [proc[p] EXCEPT !.pc = "begin", !.seen = row]) /\ result' = result
        \/ Become(p, Idle) /\ result' \in [Tasks -> Statuses]
    BY <1>7, <1>8 DEF TaskLoad, Final
  <2>3. /\ \E rec : Become(p, rec) /\ Fits(rec)
        /\ result' \in [Tasks -> Statuses]
    BY <1>1, <2>1, <2>2, IdleFits DEF Outside
  <2>4. Outside'
    BY <1>1, <1>8, <2>3 DEF TaskLoad, Outside, past, Times
  <2> QED BY <1>4, <1>8, <2>3, <2>4 DEF TaskLoad
<1>9. CASE TaskBegin(p)
  <2> DEFINE status == IF proc[p].seen.key THEN "RUNNING" ELSE "FAILED"
             rec == [proc[p] EXCEPT !.pc = "connect", !.seen.ops = OpSeen(p, status), !.seen.key = FALSE]
  <2>1. OpSeen(p, status) \in Ops
    BY SeenOp DEF OpSeen, Final
  <2>2. row' \in Rows
    <3>1. row' = row \/ row' = [row EXCEPT !.ops = OpSeen(p, status)]
      BY <1>9 DEF TaskBegin
    <3> HIDE DEF status
    <3>2. [row EXCEPT !.ops = OpSeen(p, status)] \in Rows
      BY <1>1, <2>1, RowChanges
    <3> QED BY <1>1, <3>1, <3>2
  <2>3. Fits(rec)
    <3>1. [[proc[p].seen EXCEPT !.ops = OpSeen(p, status)] EXCEPT !.key = FALSE] \in Rows
      BY <1>1, <2>1 DEF Rows
    <3>2. rec = [proc[p] EXCEPT !.pc = "connect",
                                !.seen = [[proc[p].seen EXCEPT !.ops = OpSeen(p, status)] EXCEPT !.key = FALSE]]
      BY <1>1 DEF Records, Rows
    <3> QED BY <1>1, <1>2, <3>1, <3>2, FitsNext DEF StopPCs
  <2>4. \E next : Become(p, next) /\ Fits(next)
    BY <1>7, <1>9, <2>3, IdleFits DEF TaskBegin, Final
  <2>5. result' \in [Tasks -> Statuses]
    BY <1>1, <1>7, <1>9 DEF TaskBegin, Final, Outside
  <2>6. Outside'
    BY <1>1, <1>9, <2>2, <2>5 DEF TaskBegin, Outside, past, Times
  <2> QED BY <1>4, <1>9, <2>4, <2>6 DEF TaskBegin
<1>10. CASE TaskConnect(p)
  <2>1. \E rec : Become(p, rec) /\ Fits(rec)
    <3>1. Fits([proc[p] EXCEPT !.pc = "unreachable", !.seen = OpsOf(proc[p].seen)])
      BY <1>1, <1>2, FitsNext DEF StopPCs
    <3> QED BY <1>6, <1>10, <3>1 DEF TaskConnect, StopPCs
  <2>2. Times'
    BY <1>1, <1>10, TimesKept DEF TaskConnect, Outside
  <2>3. Outside'
    BY <1>1, <1>10, <2>2 DEF TaskConnect, Outside, past, broker
  <2> QED BY <1>4, <1>10, <2>1, <2>3 DEF TaskConnect, broker
<1>11. CASE TaskRemove(p)
  <2>1. Fits([proc[p] EXCEPT !.pc = "look", !.ok = TRUE])
    BY <1>1 DEF Fits, Records, PCs, StopPCs, PhasePCs
  <2>2. \E rec : Become(p, rec) /\ Fits(rec)
    BY <1>6, <1>11, <2>1 DEF TaskRemove, StopPCs
  <2>3. Times'
    BY <1>1, <1>11, TimesKept DEF TaskRemove, Outside
  <2>4. box' \in [Containers -> {"absent", "stopped", "running"}]
    BY <1>1, <1>11 DEF TaskRemove, Outside
  <2>5. removed' \subseteq {Local} \cup Tasks
    BY <1>1, <1>11 DEF TaskRemove, Outside, Records
  <2>6. Outside'
    BY <1>1, <1>11, <2>3, <2>4, <2>5 DEF TaskRemove, Outside, broker
  <2> QED BY <1>4, <1>11, <2>2, <2>6 DEF TaskRemove, broker
<1>12. CASE TaskLook(p)
  <2>1. \E rec : Become(p, rec) /\ Fits(rec)
    BY <1>1, <1>5, <1>12 DEF TaskLook, Running
  <2>2. Times'
    BY <1>1, <1>12, TimesKept DEF TaskLook, Outside
  <2>3. Outside'
    BY <1>1, <1>12, <2>2 DEF TaskLook, Outside, past, broker
  <2> QED BY <1>4, <1>12, <2>1, <2>3 DEF TaskLook, broker
<1>13. CASE TaskSave(p)
  <2>1. OpSeen(p, Verdict(p)) \in Ops
    BY SeenOp, VerdictType DEF OpSeen
  <2>2. row' \in Rows
    <3>1. PICK found : found = IF At(p, "save") THEN proc[p].found ELSE row.managed
      OBVIOUS
    <3>2. found \in SUBSET Containers
      BY <1>1, <3>1 DEF Records, Rows
    <3>3. [row EXCEPT !.ops = OpSeen(p, Verdict(p)), !.managed = found] \in Rows
      BY <1>1, <2>1, <3>2 DEF Rows
    <3> QED BY <1>1, <1>13, <3>1, <3>3 DEF TaskSave
  <2>3. \E rec : Become(p, rec) /\ Fits(rec)
    BY <1>6, <1>7, <1>13, IdleFits DEF TaskSave, StopPCs
  <2>4. result' \in [Tasks -> Statuses]
    BY <1>1, <1>7, <1>13 DEF TaskSave, Outside
  <2>5. Outside'
    BY <1>1, <1>13, <2>2, <2>4 DEF TaskSave, Outside, past, Times
  <2> QED BY <1>4, <1>13, <2>3, <2>5 DEF TaskSave
<1>14. CASE TaskReport(p)
  <2>1. Become(p, Idle) /\ result' \in [Tasks -> Statuses]
    BY <1>7, <1>14, VerdictType DEF TaskReport
  <2>2. Outside'
    BY <1>1, <1>14, <2>1 DEF TaskReport, Outside, past, Times
  <2> QED BY <1>4, <1>14, <2>1, <2>2, IdleFits DEF TaskReport
<1> QED BY <1>8, <1>9, <1>10, <1>11, <1>12, <1>13, <1>14 DEF TaskStep

(* The actions of a phase keep the types.                                  *)
LEMMA PhaseTypes ==
  ASSUME TypeOK, Shape, NEW p \in Procs,
         PhaseStep(p) \/ (p \in Workers /\ \E phase \in Phases : PhaseBegin(p, phase))
  PROVE  TypeOK' /\ Shape'
<1>1. /\ row \in Rows /\ Outside /\ Fits(proc[p]) /\ proc[p] \in Records
      /\ OpsOf(row) \in Rows /\ ManagedOf(row) \in Rows /\ row.managed \in SUBSET Containers
      /\ proc[p].seen \in Rows /\ proc[p].seen.ops \in Ops /\ proc[p].seen.managed \in SUBSET Containers
      /\ proc[p].todo \in Seq(Actions)
  BY AProcess DEF Outside
<1>2. ASSUME UNCHANGED <<of, queue, answer>>, NEW rec, Become(p, rec), Fits(rec), Outside'
      PROVE  TypeOK' /\ Shape'
  BY <1>2, TypedStep
<1>3. ASSUME NEW phase \in Phases, PhaseBegin(p, phase) PROVE TypeOK' /\ Shape'
  <2>1. phase \in Seq(Actions) /\ phase # <<>>
    BY VmPhases
  <2>2. Outside'
    BY <1>1, <1>3 DEF PhaseBegin, Outside, past, broker, Times
  <2> QED BY <1>2, <1>3, <2>1, <2>2, FitsPhase DEF PhaseBegin, broker
<1>4. ASSUME NEW pc \in PhasePCs, proc[p].pc \in PhasePCs, NEW seen \in Rows
      PROVE  /\ Fits([proc[p] EXCEPT !.pc = pc])
             /\ Fits([proc[p] EXCEPT !.pc = pc, !.seen = seen])
  <2>1. pc \in PCs /\ proc[p].todo # <<>>
    BY <1>1, <1>4 DEF PCs, Fits
  <2> QED BY <1>1, <2>1, FitsNext
<1>5. \A pc \in PhasePCs : Goto(p, pc) /\ proc[p].pc \in PhasePCs => \E rec : Become(p, rec) /\ Fits(rec)
  BY <1>4, RowTypes DEF Goto
<1>6. Return(p) => \E rec : Become(p, rec) /\ Fits(rec)
  BY IdleFits DEF Return
<1>7. CASE ActBegin(p)
  <2>1. \E rec : Become(p, rec) /\ Fits(rec)
    BY <1>5, <1>6, <1>7 DEF ActBegin, PhasePCs, At
  <2>2. Times'
    BY <1>1, <1>7, TimesKept DEF ActBegin, Outside
  <2>3. Outside'
    BY <1>1, <1>7, <2>2 DEF ActBegin, Outside, past, broker
  <2> QED BY <1>2, <1>7, <2>1, <2>3 DEF ActBegin, broker
<1>8. CASE NoteRead(p)
  <2>1. Fits([proc[p] EXCEPT !.pc = "noteSave", !.seen = OpsOf(row)])
    BY <1>1, <1>4, <1>8 DEF NoteRead, PhasePCs, At
  <2>2. Outside'
    BY <1>1, <1>8 DEF NoteRead, Outside, past, broker, Times
  <2> QED BY <1>2, <1>8, <2>1, <2>2 DEF NoteRead, broker
<1>9. CASE NoteSave(p)
  <2>1. \E rec : Become(p, rec) /\ Fits(rec)
    BY <1>5, <1>6, <1>9 DEF NoteSave, PhasePCs, At
  <2>2. Times'
    BY <1>1, <1>9 DEF NoteSave, Outside, Times
  <2>3. row' \in Rows
    BY <1>1, <1>9, RowChanges DEF NoteSave
  <2>4. Outside'
    BY <1>1, <1>9, <2>2, <2>3 DEF NoteSave, Outside, past, broker
  <2> QED BY <1>2, <1>9, <2>1, <2>4 DEF NoteSave, broker
<1>10. CASE ActExec(p)
  <2>1. \E rec : Become(p, rec) /\ Fits(rec)
    BY <1>5, <1>6, <1>10 DEF ActExec, PhasePCs, At
  <2>2. Times'
    BY <1>1, <1>10, TimesKept DEF ActExec, Outside
  <2>3. box' \in [Containers -> {"absent", "stopped", "running"}]
    BY <1>1, <1>10 DEF ActExec, Outside
  <2>4. Outside'
    BY <1>1, <1>10, <2>2, <2>3 DEF ActExec, Outside, past, broker
  <2> QED BY <1>2, <1>10, <2>1, <2>4 DEF ActExec, broker
<1>11. CASE TrackRead(p)
  <2>1. Fits([proc[p] EXCEPT !.pc = "trackSave", !.seen = ManagedOf(row)])
    BY <1>1, <1>4, <1>11 DEF TrackRead, PhasePCs, At
  <2>2. Outside'
    BY <1>1, <1>11 DEF TrackRead, Outside, past, broker, Times
  <2> QED BY <1>2, <1>11, <2>1, <2>2 DEF TrackRead, broker
<1>12. CASE TrackSave(p)
  <2>1. proc[p].todo # <<>>
    BY <1>1, <1>12 DEF TrackSave, At, Fits, PhasePCs
  <2>2. Head(proc[p].todo) \in Actions /\ Tail(proc[p].todo) \in Seq(Actions)
    BY <1>1, <2>1, HeadTailProperties
  <2>3. Effects(Action(p)).run \in SUBSET Containers
    BY <2>2 DEF Effects, Action, Actions
  <2>4. row' \in Rows
    <3>1. ((proc[p].seen.managed \cup Effects(Action(p)).run) \ Kept(Effects(Action(p)).rm, Effects(Action(p)).run)) \in SUBSET Containers
      BY <1>1, <2>3
    <3> QED BY <1>1, <1>12, <3>1, RowChanges DEF TrackSave
  <2>5. Tail(proc[p].todo) # <<>> => Fits([Idle EXCEPT !.pc = "act", !.todo = Tail(proc[p].todo)])
    BY <2>2, FitsPhase
  <2>6. \E rec : Become(p, rec) /\ Fits(rec)
    BY <1>6, <1>12, <2>5 DEF TrackSave
  <2>7. Outside'
    BY <1>1, <1>12, <2>4 DEF TrackSave, Outside, past, broker, Times
  <2> QED BY <1>2, <1>12, <2>6, <2>7 DEF TrackSave, broker
<1> QED BY <1>3, <1>7, <1>8, <1>9, <1>10, <1>11, <1>12 DEF PhaseStep

(* Uploads, deletes, polls, deaths and changes from outside keep the types. *)
LEMMA OtherTypes ==
  ASSUME TypeOK, Shape,
         \/ \E key \in BOOLEAN : Upload(key)
         \/ Delete
         \/ \E t \in Tasks : Poll(t)
         \/ \E w \in Workers : Crash(w)
         \/ \E c \in Containers, state \in {"absent", "stopped", "running"} : Elsewhere(c, state)
         \/ UNCHANGED vars
  PROVE  TypeOK' /\ Shape'
<1>1. Outside /\ row \in Rows /\ row.ops \in Ops
  BY DEF TypeOK, Outside, Times, Statuses, Answers, Rows
<1>2. ASSUME UNCHANGED <<of, queue, answer, proc>>, Outside' PROVE TypeOK' /\ Shape'
  BY <1>2 DEF Outside, Times, Statuses, Answers, TypeOK, Shape, Fits
<1>3. ASSUME NEW key \in BOOLEAN, Upload(key) PROVE TypeOK' /\ Shape'
  <2>1. row' \in Rows
    BY <1>1, <1>3, RowTypes DEF Upload, Rows
  <2>2. events' \in 0..MaxEvents
    <3>1. events \in 0..MaxEvents
      BY <1>1 DEF Outside, Times
    <3>2. Happens
      BY <1>3 DEF Upload
    <3> QED BY <3>1, <3>2, VmBounds DEF Happens
  <2>3. trust' \in {"good", "checking", "stale"}
    BY <1>1, <1>3 DEF Upload, Outside, Times
  <2>4. Outside'
    BY <1>1, <1>3, <2>1, <2>2, <2>3 DEF Upload, Outside, Times, broker, past
  <2> QED BY <1>2, <1>3, <2>4 DEF Upload, broker
<1>4. CASE Delete
  <2>1. Times'
    BY <1>1, <1>4, TimesKept DEF Delete, Outside
  <2>2. Outside'
    BY <1>1, <1>4, <2>1, RowTypes DEF Delete, Outside, broker, past
  <2> QED BY <1>2, <1>4, <2>2 DEF Delete, broker
<1>5. ASSUME NEW t \in Tasks, Poll(t) PROVE TypeOK' /\ Shape'
  <2> DEFINE said == IF Stored(t) \in Final THEN Stored(t) ELSE IF InProgress(t) THEN "RUNNING" ELSE Payload(t)
  <2>1. said \in Answers \ {"none"}
    BY DEF Answers, Final, Payload
  <2>2. answer' = [answer EXCEPT ![t] = said] /\ answer[t] # "none"
    BY <1>5 DEF Poll
  <2> HIDE DEF said
  <2>3. answer' \in [Tasks -> Answers]
    BY <1>1, <2>1, <2>2 DEF Outside
  <2>4. TypeOK'
    BY <1>5, <2>3 DEF TypeOK, Poll, Answers, past
  <2>5. \A u \in Tasks : answer'[u] # "none" => u \in DOMAIN of
    BY <1>1, <2>1, <2>2 DEF Outside, Shape
  <2>6. Shape'
    BY <1>5, <2>5 DEF Shape, Poll, Fits
  <2> QED BY <2>4, <2>6
<1>6. ASSUME NEW w \in Workers, Crash(w) PROVE TypeOK' /\ Shape'
  <2>1. w \in Procs
    BY DEF Procs
  <2>2. Times'
    BY <1>1, <1>6, TimesKept DEF Crash, Outside
  <2>3. Outside'
    BY <1>1, <1>6, <2>2 DEF Crash, Outside, broker
  <2> QED BY <1>6, <2>1, <2>3, IdleFits, TypedStep DEF Crash, Return, broker
<1>7. ASSUME NEW c \in Containers, NEW state \in {"absent", "stopped", "running"}, Elsewhere(c, state)
      PROVE  TypeOK' /\ Shape'
  <2>1. Times'
    BY <1>1, <1>7, TimesKept DEF Elsewhere, Outside
  <2>2. Outside'
    BY <1>1, <1>7, <2>1 DEF Elsewhere, Outside, broker, past
  <2> QED BY <1>2, <1>7, <2>2 DEF Elsewhere, broker
<1>8. CASE UNCHANGED vars
  BY <1>1, <1>2, <1>8 DEF vars, Outside, Times
<1> QED BY <1>3, <1>4, <1>5, <1>6, <1>7, <1>8

(* Every step keeps the types.                                             *)
THEOREM TypesKept == TypeOK /\ Shape /\ [Next]_vars => TypeOK' /\ Shape'
<1> SUFFICES ASSUME TypeOK, Shape, [Next]_vars PROVE TypeOK' /\ Shape'
  OBVIOUS
<1>1. Handlers \subseteq Procs /\ Workers \subseteq Procs
  BY DEF Procs
<1>2. ASSUME NEW h \in Handlers, Request(h) PROVE TypeOK' /\ Shape'
  BY <1>1, <1>2, CheckTypes, StopTypes DEF Request
<1>3. ASSUME NEW p \in Procs, Step(p) PROVE TypeOK' /\ Shape'
  BY <1>3, CheckTypes, StopTypes, TaskTypes, PhaseTypes DEF Step
<1>4. ASSUME NEW w \in Workers, NEW t \in Tasks, Deliver(w, t) PROVE TypeOK' /\ Shape'
  BY <1>4, DeliverTypes
<1>5. ASSUME NEW w \in Workers, NEW phase \in Phases, PhaseBegin(w, phase) PROVE TypeOK' /\ Shape'
  BY <1>1, <1>5, PhaseTypes
<1> QED BY <1>2, <1>3, <1>4, <1>5, OtherTypes DEF Next

(* At first nothing is going on.                                           *)
LEMMA TypesAtFirst == Init => TypeOK /\ Shape
<1> SUFFICES ASSUME Init PROVE TypeOK /\ Shape
  OBVIOUS
<1>1. row \in Rows
  BY RowTypes DEF Init, Rows
<1>2. of \in Seq(Containers) /\ Len(of) = 0 /\ DOMAIN of = {}
  BY DEF Init
<1>3. TypeOK
  BY <1>1, <1>2, IdleType, VmBounds DEF Init, TypeOK, Final
<1>4. Shape
  BY <1>2, IdleFits DEF Init, Shape
<1> QED BY <1>3, <1>4

(* Rows, answers and process records stay well formed (TypeOK), for every  *)
(* number of threads, workers, containers, tasks and events.               *)
THEOREM VmTypeCorrect == Spec => []TypeOK
BY TypesAtFirst, TypesKept, PTL DEF Spec

---------------------------------------------------------------------------
(* What a task did *)

(* A process works for a task from the message to the report; it is early  *)
(* until it has tried to remove the container; and a task is past that     *)
(* when nobody will try it any more.                                       *)
TaskPCs == StopPCs \cup {"save"}
EarlyPCs == {"load", "begin", "connect", "remove"}
Works(p, t) == proc[p].pc \in TaskPCs /\ proc[p].task = t
Past(t) ==
  /\ t \in DOMAIN of /\ t \notin queue
  /\ \A p \in Procs : Works(p, t) => proc[p].pc \notin EarlyPCs

(* One process works for a task, and tells what it did; a result or an     *)
(* answer that says FAILED comes after the last attempt.                   *)
Book(t) ==
  /\ t \in queue => result[t] = "none"
  /\ t \notin DOMAIN of => result[t] = "none" /\ answer[t] = "none"
  /\ t \in removed => Past(t)
  /\ result[t] = "SUCCEEDED" => t \in removed
  /\ result[t] = "FAILED" => Past(t) /\ t \notin removed
  /\ answer[t] = "SUCCEEDED" => t \in removed
  /\ answer[t] = "FAILED" => result[t] = "raised" \/ (Past(t) /\ t \notin removed)
Hand(p, t) ==
  Works(p, t) =>
    /\ t \notin queue /\ result[t] = "none"
    /\ proc[p].ok <=> t \in removed
    /\ \A q \in Procs : Works(q, t) => q = p
Ledger == \A t \in Tasks : Book(t) /\ \A p \in Procs : Hand(p, t)

(* A stored operation of a task does not say more than was done.           *)
OpOk(o) ==
  o.task \in Tasks =>
    /\ o.task \in DOMAIN of
    /\ o.status = "SUCCEEDED" => o.task \in removed
    /\ o.status = "FAILED" => Past(o.task) /\ o.task \notin removed
OpsOk(ops) == \A c \in Containers : OpOk(ops[c])
OpsTrue == OpsOk(row.ops) /\ \A p \in Procs : OpsOk(proc[p].seen.ops)

(* What a step may do to the tasks: those that are past their attempt stay *)
(* so, and are removed by then or never.                                   *)
Orderly ==
  /\ removed \subseteq removed'
  /\ DOMAIN of \subseteq DOMAIN of'
  /\ \A t \in Tasks : Past(t) => Past(t)' /\ (t \in removed' => t \in removed)

(* Operations that were right stay right, wherever they are kept.          *)
LEMMA OpsCarry ==
  ASSUME Orderly, NEW ops \in Ops, OpsOk(ops)
  PROVE  OpsOk(ops)'
<1>1. ASSUME NEW c \in Containers PROVE OpOk(ops[c])'
  BY DEF Orderly, OpsOk, OpOk
<1> QED BY <1>1 DEF OpsOk

(* One process moves on and may write the row.                             *)
LEMMA OpsStep ==
  ASSUME TypeOK, Shape, OpsTrue, Orderly, NEW p \in Procs, NEW rec, Become(p, rec),
         OpsOk(row.ops)', OpsOk(rec.seen.ops)'
  PROVE  OpsTrue'
<1>1. ASSUME NEW q \in Procs PROVE OpsOk(proc[q].seen.ops)'
  <2>1. CASE q = p
    <3>1. proc'[q] = rec
      BY <2>1 DEF TypeOK, Become
    <3>2. (proc[q].seen.ops)' = rec.seen.ops
      BY <3>1
    <3> QED BY <3>2 DEF OpsOk, OpOk
  <2>2. CASE q # p
    <3>1. proc'[q] = proc[q]
      BY <2>2 DEF TypeOK, Become
    <3>2. proc[q].seen.ops \in Ops /\ OpsOk(proc[q].seen.ops)
      BY AProcess DEF OpsTrue
    <3>3. \A ops \in Ops : OpsOk(ops) => OpsOk(ops)'
      BY OpsCarry
    <3> QED BY <3>1, <3>2, <3>3 DEF OpsOk, OpOk
  <2> QED BY <2>1, <2>2
<1> QED BY <1>1 DEF OpsTrue

(* The task of a process is one the broker has accepted.                   *)
LEMMA WorksAccepted ==
  ASSUME Shape, NEW p \in Procs, NEW t \in Tasks, Works(p, t)
  PROVE  t \in DOMAIN of
<1>1. Local \notin Tasks
  BY VmBounds DEF Local, Tasks
<1> QED BY <1>1 DEF Shape, Fits, Works

(* Nobody takes up a task, and no attempt begins again.                    *)
Onward(t) ==
  \A q \in Procs : Works(q, t)' =>
    /\ Works(q, t)
    /\ proc'[q].pc \in EarlyPCs => proc[q].pc \in EarlyPCs
    /\ proc'[q].ok <=> proc[q].ok

(* What a process that goes on with its task, or leaves it, does to it.    *)
LEMMA OnwardStep ==
  ASSUME TypeOK, NEW p \in Procs, NEW rec, Become(p, rec), NEW t \in Tasks,
         rec.task \in {Local, proc[p].task},
         (rec.task = t /\ rec.pc \in TaskPCs) =>
           /\ proc[p].pc \in TaskPCs
           /\ rec.pc \in EarlyPCs => proc[p].pc \in EarlyPCs
           /\ rec.ok <=> proc[p].ok
  PROVE  Onward(t)
<1>1. Local \notin Tasks
  BY VmBounds DEF Local, Tasks
<1>2. proc' = [proc EXCEPT ![p] = rec] /\ proc \in [Procs -> Records]
  BY DEF Become, TypeOK
<1>3. SUFFICES ASSUME NEW q \in Procs, Works(q, t)'
               PROVE  /\ Works(q, t)
                      /\ proc'[q].pc \in EarlyPCs => proc[q].pc \in EarlyPCs
                      /\ proc'[q].ok <=> proc[q].ok
  BY DEF Onward
<1>4. CASE q = p
  BY <1>1, <1>2, <1>3, <1>4 DEF Works
<1>5. CASE q # p
  BY <1>2, <1>3, <1>5 DEF Works
<1> QED BY <1>4, <1>5

(* A task whose books nobody touches, but for an answer that says RUNNING. *)
LEMMA BooksKept ==
  ASSUME Ledger, NEW t \in Tasks, Onward(t), UNCHANGED <<of, queue, removed>>, result'[t] = result[t],
         answer'[t] = answer[t] \/ (t \in DOMAIN of /\ answer'[t] = "RUNNING")
  PROVE  /\ Past(t) => Past(t)'
         /\ Book(t)' /\ \A q \in Procs : Hand(q, t)'
<1>1. Book(t) /\ \A q \in Procs : Hand(q, t)
  BY DEF Ledger
<1>2. Past(t) => Past(t)'
  BY DEF Past, Onward
<1>3. Book(t)'
  BY <1>1, <1>2 DEF Book
<1>4. ASSUME NEW q \in Procs PROVE Hand(q, t)'
  BY <1>1 DEF Hand, Onward
<1> QED BY <1>2, <1>3, <1>4

(* A process that reports what it did, and leaves its task.                *)
LEMMA BooksClosed ==
  ASSUME Shape, Ledger, NEW p \in Procs, NEW t \in Tasks, Works(p, t), ~Works(p, t)', Onward(t),
         UNCHANGED <<of, queue, removed, answer>>,
         result'[t] = "SUCCEEDED" => proc[p].ok,
         result'[t] = "FAILED" => ~proc[p].ok
  PROVE  /\ Past(t) => Past(t)'
         /\ Book(t)' /\ \A q \in Procs : Hand(q, t)'
<1>1. Book(t) /\ Hand(p, t) /\ t \in DOMAIN of
  BY WorksAccepted DEF Ledger
<1>2. t \notin queue /\ result[t] = "none" /\ (proc[p].ok <=> t \in removed)
  BY <1>1 DEF Hand
<1>3. \A q \in Procs : ~Works(q, t)'
  BY <1>1 DEF Onward, Hand
<1>4. Past(t)'
  BY <1>1, <1>2, <1>3 DEF Past
<1>5. Book(t)'
  BY <1>1, <1>2, <1>4 DEF Book
<1> QED BY <1>3, <1>4, <1>5 DEF Hand

(* A process goes on, and its task, if it has one, goes on or ends.        *)
LEMMA LedgerStep ==
  ASSUME TypeOK, Shape, Ledger, NEW p \in Procs, NEW rec, Become(p, rec),
         UNCHANGED <<of, queue, removed>>,
         rec.task \in {Local, proc[p].task},
         rec.task = proc[p].task /\ rec.task # Local /\ rec.pc \in TaskPCs =>
           /\ proc[p].pc \in TaskPCs
           /\ rec.pc \in EarlyPCs => proc[p].pc \in EarlyPCs
           /\ rec.ok <=> proc[p].ok,
         \A t \in Tasks :
           \/ /\ result'[t] = result[t]
              /\ answer'[t] = answer[t] \/ (t \in DOMAIN of /\ answer'[t] = "RUNNING")
           \/ /\ Works(p, t) /\ rec.task = Local
              /\ result'[t] = "SUCCEEDED" => proc[p].ok
              /\ result'[t] = "FAILED" => ~proc[p].ok
              /\ UNCHANGED answer
  PROVE  Ledger' /\ Orderly
<1>1. Local \notin Tasks
  BY VmBounds DEF Local, Tasks
<1>2. ASSUME NEW t \in Tasks
      PROVE  (Past(t) => Past(t)') /\ Book(t)' /\ \A q \in Procs : Hand(q, t)'
  <2>1. Onward(t)
    BY <1>1, OnwardStep
  <2>2. CASE /\ result'[t] = result[t]
             /\ answer'[t] = answer[t] \/ (t \in DOMAIN of /\ answer'[t] = "RUNNING")
    BY <2>1, <2>2, BooksKept
  <2>3. CASE /\ Works(p, t) /\ rec.task = Local
             /\ result'[t] = "SUCCEEDED" => proc[p].ok
             /\ result'[t] = "FAILED" => ~proc[p].ok
             /\ UNCHANGED answer
    <3>1. ~Works(p, t)'
      BY <1>1, <2>3 DEF Works, Become, TypeOK
    <3> QED BY <2>1, <2>3, <3>1, BooksClosed
  <2> QED BY <2>2, <2>3
<1>3. Ledger'
  BY <1>2 DEF Ledger
<1>4. Orderly
  BY <1>2 DEF Orderly
<1> QED BY <1>3, <1>4

(* Operations that come from the row, from what a process loaded, or from  *)
(* nowhere, are right.                                                     *)
LEMMA CarriedOk ==
  ASSUME TypeOK, Shape, OpsTrue, Orderly, NEW p \in Procs, NEW ops \in {row.ops, proc[p].seen.ops, NoOps}
  PROVE  ops \in Ops /\ OpsOk(ops) /\ OpsOk(ops)'
<1>1. ops \in Ops
  BY AProcess, RowTypes
<1>2. OpsOk(ops)
  <2>1. OpsOk(NoOps)
    BY VmBounds DEF OpsOk, NoOps, OpOk, Local, Tasks
  <2> QED BY <2>1 DEF OpsTrue
<1> QED BY <1>1, <1>2, OpsCarry

(* An operation is written over one of those.                              *)
LEMMA WithOpOk ==
  ASSUME TypeOK, Shape, OpsTrue, Orderly, NEW p \in Procs, NEW ops \in {row.ops, proc[p].seen.ops, NoOps},
         NEW c \in Containers, NEW t \in {Local} \cup Tasks, NEW status, OpOk([task |-> t, status |-> status])'
  PROVE  OpsOk(WithOp(ops, c, t, status))'
<1>1. ops \in Ops /\ OpsOk(ops)'
  BY CarriedOk
<1>2. ASSUME NEW d \in Containers PROVE OpOk(WithOp(ops, c, t, status)[d])'
  <2>1. CASE d = c
    <3>1. WithOp(ops, c, t, status)[d] = [task |-> t, status |-> status]
      BY <1>1, <2>1 DEF WithOp, Ops
    <3> QED BY <3>1 DEF OpOk
  <2>2. CASE d # c
    <3>1. WithOp(ops, c, t, status)[d] = ops[d]
      BY <1>1, <2>2 DEF WithOp, Ops
    <3> QED BY <1>1, <3>1 DEF OpsOk, OpOk
  <2> QED BY <2>1, <2>2
<1> QED BY <1>2 DEF OpsOk

(* What is told of the tasks is true.                                      *)
Truth == Ledger /\ OpsTrue

(* A process goes on, and neither row nor frame gets operations that were  *)
(* in neither.                                                             *)
LEMMA Ordinary ==
  ASSUME TypeOK, Shape, Truth, NEW p \in Procs, NEW rec, Become(p, rec),
         UNCHANGED <<of, queue, removed, answer>>,
         rec.task \in {Local, proc[p].task},
         rec.task = proc[p].task /\ rec.task # Local /\ rec.pc \in TaskPCs =>
           /\ proc[p].pc \in TaskPCs
           /\ rec.pc \in EarlyPCs => proc[p].pc \in EarlyPCs
           /\ rec.ok <=> proc[p].ok,
         \A t \in Tasks :
           \/ result'[t] = result[t]
           \/ /\ Works(p, t) /\ rec.task = Local
              /\ result'[t] = "SUCCEEDED" => proc[p].ok
              /\ result'[t] = "FAILED" => ~proc[p].ok,
         row'.ops \in {row.ops, proc[p].seen.ops, NoOps},
         rec.seen.ops \in {row.ops, proc[p].seen.ops, NoOps}
  PROVE  Truth'
<1>1. Ledger' /\ Orderly
  BY LedgerStep DEF Truth
<1>2. \A ops \in {row.ops, proc[p].seen.ops, NoOps} : OpsOk(ops)'
  BY <1>1, CarriedOk DEF Truth
<1>3. OpsOk(row.ops)' /\ OpsOk(rec.seen.ops)'
  BY <1>2 DEF OpsOk, OpOk
<1>4. OpsTrue'
  BY <1>1, <1>3, OpsStep DEF Truth
<1> QED BY <1>1, <1>4 DEF Truth

(* Nobody moves, and the row keeps its operations or loses them.           *)
LEMMA Still ==
  ASSUME TypeOK, Shape, Truth, UNCHANGED <<of, queue, removed, answer, result, proc>>,
         row'.ops \in {row.ops, NoOps}
  PROVE  Truth'
<1>1. ASSUME NEW t \in Tasks PROVE (Past(t) => Past(t)') /\ Book(t)' /\ \A q \in Procs : Hand(q, t)'
  BY BooksKept DEF Onward, Works, Truth
<1>2. Ledger' /\ Orderly
  BY <1>1 DEF Ledger, Orderly
<1>3. ASSUME NEW q \in Procs PROVE OpsOk(row.ops)' /\ OpsOk(proc[q].seen.ops)'
  <2>1. \A ops \in {row.ops, proc[q].seen.ops, NoOps} : OpsOk(ops)'
    BY <1>2, CarriedOk DEF Truth
  <2> QED BY <2>1 DEF OpsOk, OpOk
<1>4. OpsOk(row.ops)'
  <2>1. OpsOk(NoOps)'
    BY VmBounds DEF OpsOk, NoOps, OpOk, Local, Tasks
  <2>2. OpsOk(row.ops) /\ row.ops \in Ops
    BY DEF Truth, OpsTrue, TypeOK, Rows
  <2>3. \A ops \in Ops : OpsOk(ops) => OpsOk(ops)'
    BY <1>2, OpsCarry
  <2> QED BY <2>1, <2>2, <2>3 DEF OpsOk, OpOk
<1> QED BY <1>2, <1>3, <1>4 DEF Truth, OpsTrue

(* The operations of what a frame keeps of a row.                          *)
LEMMA KeptOps ==
  /\ NoRow.ops = NoOps
  /\ \A r \in Rows : OpsOf(r).ops = r.ops /\ ManagedOf(r).ops = NoOps
BY DEF NoRow, OpsOf, ManagedOf, Rows

(* A check tells nothing of tasks.                                         *)
LEMMA CheckTruth ==
  ASSUME TypeOK, Shape, Truth, NEW h \in Procs,
         CheckRead(h) \/ CheckLook(h) \/ CheckSave(h) \/ \E c \in Containers : StopRead(h, c)
  PROVE  Truth'
<1>1. proc[h] \in Records /\ proc[h].seen \in Rows /\ row \in Rows
  BY AProcess DEF Outside
<1>2. CASE CheckRead(h)
  <2> DEFINE rec == [Idle EXCEPT !.pc = "checkLook", !.seen = [row EXCEPT !.key = FALSE]]
  <2>1. rec.task = Local /\ rec.seen.ops = row.ops
    BY <1>1, IdleType DEF Records, Rows
  <2>2. Become(h, rec) /\ UNCHANGED <<row, of, queue, removed, answer, result>>
    BY <1>2 DEF CheckRead, broker, past
  <2> HIDE DEF rec
  <2> QED BY <2>1, <2>2, Ordinary
<1>3. CASE CheckLook(h)
  <2>1. PICK ok \in BOOLEAN, found \in SUBSET Containers : Saving(h, ok, found)
    BY <1>3 DEF CheckLook, Running
  <2> DEFINE rec == [proc[h] EXCEPT !.pc = "checkSave", !.ok = ok, !.found = found, !.seen = OpsOf(proc[h].seen)]
  <2>2. rec.task = proc[h].task /\ rec.seen.ops = proc[h].seen.ops /\ rec.pc \notin TaskPCs
    BY <1>1, KeptOps DEF Records, TaskPCs, StopPCs
  <2>3. Become(h, rec) /\ UNCHANGED <<row, of, queue, removed, answer, result>>
    BY <1>3, <2>1 DEF CheckLook, broker, past, Saving
  <2> HIDE DEF rec
  <2> QED BY <2>2, <2>3, Ordinary
<1>4. CASE CheckSave(h)
  <2>1. row'.ops \in {row.ops, proc[h].seen.ops}
    BY <1>1, <1>4 DEF CheckSave, Rows
  <2>2. Idle.task = Local /\ Idle.seen.ops = NoOps
    BY IdleType, KeptOps
  <2>3. Become(h, Idle) /\ UNCHANGED <<of, queue, removed, answer, result>>
    BY <1>4 DEF CheckSave, Return, broker, past
  <2> QED BY <2>1, <2>2, <2>3, Ordinary
<1>5. ASSUME NEW c \in Containers, StopRead(h, c) PROVE Truth'
  <2> DEFINE rec == [Idle EXCEPT !.pc = "enqueue", !.c = c, !.seen = OpsOf(row)]
  <2>1. rec.task = Local /\ rec.seen.ops = row.ops
    BY <1>1, IdleType, KeptOps DEF Records
  <2>2. Become(h, rec) /\ UNCHANGED <<row, of, queue, removed, answer, result>>
    BY <1>5 DEF StopRead, broker, past
  <2> HIDE DEF rec
  <2> QED BY <2>1, <2>2, Ordinary
<1> QED BY <1>2, <1>3, <1>4, <1>5

(* Phases tell nothing of tasks, and bring back operations as they were.   *)
LEMMA PhaseTruth ==
  ASSUME TypeOK, Shape, Truth, NEW p \in Procs,
         PhaseStep(p) \/ \E phase \in Phases : PhaseBegin(p, phase)
  PROVE  Truth'
<1>1. proc[p] \in Records /\ proc[p].seen \in Rows /\ row \in Rows
  BY AProcess DEF Outside
<1>2. UNCHANGED <<of, queue, removed, answer, result>>
  BY DEF PhaseStep, PhaseBegin, ActBegin, NoteRead, NoteSave, ActExec, TrackRead, TrackSave, broker, past
<1>3. row'.ops \in {row.ops, proc[p].seen.ops}
  BY <1>1 DEF PhaseStep, PhaseBegin, ActBegin, NoteRead, NoteSave, ActExec, TrackRead, TrackSave, Rows
<1>4. ASSUME NEW rec, Become(p, rec), rec.task \in {Local, proc[p].task}, rec.pc \notin TaskPCs,
             rec.seen.ops \in {row.ops, proc[p].seen.ops, NoOps}
      PROVE  Truth'
  BY <1>2, <1>3, <1>4, Ordinary
<1>5. ASSUME Return(p) PROVE Truth'
  BY <1>4, <1>5, IdleType, KeptOps DEF Return, TaskPCs, StopPCs
<1>6. ASSUME NEW pc \in PhasePCs, Goto(p, pc) PROVE Truth'
  <2> DEFINE rec == [proc[p] EXCEPT !.pc = pc]
  <2>1. rec.task = proc[p].task /\ rec.seen.ops = proc[p].seen.ops /\ rec.pc \notin TaskPCs
    BY <1>1 DEF Records, TaskPCs, StopPCs, PhasePCs
  <2> HIDE DEF rec
  <2>2. Become(p, rec)
    BY <1>6 DEF Goto, rec
  <2> QED BY <1>4, <2>1, <2>2
<1>7. ASSUME NEW todo, Become(p, [Idle EXCEPT !.pc = "act", !.todo = todo]) PROVE Truth'
  <2> DEFINE rec == [Idle EXCEPT !.pc = "act", !.todo = todo]
  <2>1. rec.task = Local /\ rec.seen.ops = NoOps /\ rec.pc \notin TaskPCs
    BY IdleType, KeptOps DEF Records, TaskPCs, StopPCs
  <2>2. Become(p, rec)
    BY <1>7
  <2> HIDE DEF rec
  <2> QED BY <1>4, <2>1, <2>2
<1>8. CASE ActBegin(p) \/ ActExec(p) \/ NoteSave(p)
  BY <1>5, <1>6, <1>8 DEF ActBegin, ActExec, NoteSave, PhasePCs
<1>9. CASE NoteRead(p)
  <2> DEFINE rec == [proc[p] EXCEPT !.pc = "noteSave", !.seen = OpsOf(row)]
  <2>1. rec.task = proc[p].task /\ rec.pc \notin TaskPCs /\ rec.seen.ops \in {row.ops, NoOps}
    BY <1>1, KeptOps DEF Records, TaskPCs, StopPCs
  <2>2. Become(p, rec)
    BY <1>9 DEF NoteRead
  <2> HIDE DEF rec
  <2> QED BY <1>4, <2>1, <2>2
<1>10. CASE TrackRead(p)
  <2> DEFINE rec == [proc[p] EXCEPT !.pc = "trackSave", !.seen = ManagedOf(row)]
  <2>1. rec.task = proc[p].task /\ rec.pc \notin TaskPCs /\ rec.seen.ops \in {row.ops, NoOps}
    BY <1>1, KeptOps DEF Records, TaskPCs, StopPCs
  <2>2. Become(p, rec)
    BY <1>10 DEF TrackRead
  <2> HIDE DEF rec
  <2> QED BY <1>4, <2>1, <2>2
<1>11. CASE TrackSave(p)
  BY <1>5, <1>7, <1>11 DEF TrackSave
<1>12. CASE \E phase \in Phases : PhaseBegin(p, phase)
  BY <1>7, <1>12 DEF PhaseBegin
<1> QED BY <1>8, <1>9, <1>10, <1>11, <1>12 DEF PhaseStep

(* A process that works for a task the broker gave out is the only one,    *)
(* and has removed nothing as long as it is early.                         *)
LEMMA Attempts ==
  ASSUME Shape, Ledger, NEW p \in Procs, proc[p].pc \in EarlyPCs, proc[p].task \in Tasks
  PROVE  /\ Works(p, proc[p].task) /\ proc[p].task \notin removed /\ ~proc[p].ok
         /\ ~Past(proc[p].task) /\ result[proc[p].task] = "none"
<1>1. Works(p, proc[p].task)
  BY DEF Works, TaskPCs, StopPCs, EarlyPCs
<1>2. ~Past(proc[p].task)
  BY <1>1 DEF Past
<1> QED BY <1>1, <1>2 DEF Ledger, Book, Hand

(* How a task ends: for its own task, or for none.                         *)
LEMMA EndedResult ==
  ASSUME TypeOK, NEW p \in Procs, proc[p].pc \in TaskPCs, NEW v \in {"raised"} \cup Final, EndTask(p, v),
         NEW t \in Tasks, result'[t] # result[t]
  PROVE  Works(p, t) /\ result'[t] = v
<1>1. result' = result \/ result' = [result EXCEPT ![proc[p].task] = v]
  BY DEF EndTask
<1> QED BY <1>1 DEF TypeOK, Works

(* A task that ends leaves the truth: what it reports is what it did.      *)
LEMMA EndTruth ==
  ASSUME TypeOK, Shape, Truth, NEW p \in Procs, proc[p].pc \in TaskPCs,
         NEW v \in {"raised"} \cup Final, EndTask(p, v),
         UNCHANGED <<of, queue, removed, answer, row>>,
         v = "SUCCEEDED" => proc[p].ok,
         v = "FAILED" => ~proc[p].ok \/ proc[p].task \notin Tasks
  PROVE  Truth'
<1>1. Become(p, Idle)
  BY DEF EndTask, Return
<1>2. Idle.task = Local /\ Idle.seen.ops = NoOps
  BY IdleType, KeptOps
<1>3. \A t \in Tasks :
        \/ result'[t] = result[t]
        \/ /\ Works(p, t) /\ Idle.task = Local
           /\ result'[t] = "SUCCEEDED" => proc[p].ok
           /\ result'[t] = "FAILED" => ~proc[p].ok
  BY <1>2, EndedResult DEF Works
<1>4. Idle.pc \notin TaskPCs
  BY IdleType DEF TaskPCs, StopPCs
<1> QED BY <1>1, <1>2, <1>3, <1>4, Ordinary

(* A worker that dies has told what it had told.                           *)
LEMMA CrashTruth ==
  ASSUME TypeOK, Shape, Truth, NEW w \in Workers, Crash(w)
  PROVE  Truth'
<1>1. w \in Procs /\ Become(w, Idle) /\ UNCHANGED <<row, of, queue, removed, answer, result>>
  BY DEF Crash, Return, broker, Procs
<1>2. Idle.task = Local /\ Idle.seen.ops = NoOps /\ Idle.pc \notin TaskPCs
  BY IdleType, KeptOps DEF TaskPCs, StopPCs
<1> QED BY <1>1, <1>2, Ordinary

(* The steps of a task that write neither row nor history.                 *)
LEMMA TaskTruth ==
  ASSUME TypeOK, Shape, Truth, NEW p \in Procs,
         TaskLoad(p) \/ TaskConnect(p) \/ TaskLook(p) \/ TaskReport(p)
  PROVE  Truth'
<1>1. proc[p] \in Records /\ proc[p].seen \in Rows /\ row \in Rows
  BY AProcess DEF Outside
<1>2. UNCHANGED <<row, of, queue, removed, answer>>
  BY DEF TaskLoad, TaskConnect, TaskLook, TaskReport, broker, past
<1>3. ASSUME NEW rec, Become(p, rec), UNCHANGED result, rec.task = proc[p].task, rec.ok = proc[p].ok,
             rec.pc \in EarlyPCs => proc[p].pc \in EarlyPCs, proc[p].pc \in TaskPCs,
             rec.seen.ops \in {row.ops, proc[p].seen.ops}
      PROVE  Truth'
  BY <1>2, <1>3, Ordinary
<1>4. ASSUME NEW found, Looked(p, found), UNCHANGED result, proc[p].pc \in TaskPCs PROVE Truth'
  <2> DEFINE rec == [proc[p] EXCEPT !.pc = "save", !.found = found, !.seen = OpsOf(proc[p].seen)]
  <2>1. /\ rec.task = proc[p].task /\ rec.seen.ops = proc[p].seen.ops /\ rec.ok = proc[p].ok
        /\ rec.pc \notin EarlyPCs
    BY <1>1, KeptOps DEF Records, EarlyPCs
  <2>2. Become(p, rec)
    BY <1>4 DEF Looked
  <2> HIDE DEF rec
  <2> QED BY <1>3, <1>4, <2>1, <2>2
<1>5. CASE TaskLoad(p)
  <2>1. proc[p].pc \in TaskPCs /\ proc[p].pc \in EarlyPCs
    BY <1>5 DEF TaskLoad, At, TaskPCs, StopPCs, EarlyPCs
  <2>2. CASE row.present
    <3> DEFINE rec == [proc[p] EXCEPT !.pc = "begin", !.seen = row]
    <3>1. rec.task = proc[p].task /\ rec.seen = row /\ rec.ok = proc[p].ok
      BY <1>1 DEF Records
    <3>2. Become(p, rec) /\ UNCHANGED result
      BY <1>5, <2>2 DEF TaskLoad
    <3> HIDE DEF rec
    <3> QED BY <1>3, <2>1, <3>1, <3>2
  <2>3. CASE ~row.present
    <3>1. EndTask(p, "FAILED")
      BY <1>5, <2>3 DEF TaskLoad
    <3>2. ~proc[p].ok \/ proc[p].task \notin Tasks
      BY <2>1, Attempts DEF Truth
    <3> QED BY <1>2, <2>1, <3>1, <3>2, EndTruth DEF Final
  <2> QED BY <2>2, <2>3
<1>6. CASE TaskConnect(p)
  <2>1. proc[p].pc \in TaskPCs /\ proc[p].pc \in EarlyPCs /\ UNCHANGED result
    BY <1>6 DEF TaskConnect, At, TaskPCs, StopPCs, EarlyPCs, broker
  <2>2. CASE Goto(p, "remove")
    <3> DEFINE rec == [proc[p] EXCEPT !.pc = "remove"]
    <3>1. rec.task = proc[p].task /\ rec.seen = proc[p].seen /\ rec.ok = proc[p].ok
      BY <1>1 DEF Records
    <3>2. Become(p, rec)
      BY <2>2 DEF Goto
    <3> HIDE DEF rec
    <3> QED BY <1>3, <2>1, <3>1, <3>2
  <2>3. CASE Become(p, [proc[p] EXCEPT !.pc = "unreachable", !.seen = OpsOf(proc[p].seen)])
    <3>1. PICK rec : rec = [proc[p] EXCEPT !.pc = "unreachable", !.seen = OpsOf(proc[p].seen)]
      OBVIOUS
    <3>2. /\ rec.pc = "unreachable" /\ rec.task = proc[p].task /\ rec.ok = proc[p].ok
          /\ rec.seen.ops = proc[p].seen.ops
      BY <1>1, <3>1, KeptOps DEF Records
    <3>3. rec.pc \in TaskPCs /\ rec.pc \notin EarlyPCs
      BY <3>2 DEF TaskPCs, StopPCs, EarlyPCs
    <3> QED BY <1>3, <2>1, <2>3, <3>1, <3>2, <3>3
  <2> QED BY <1>6, <2>2, <2>3 DEF TaskConnect
<1>7. CASE TaskLook(p)
  <2>1. proc[p].pc \in TaskPCs /\ UNCHANGED result
    BY <1>7 DEF TaskLook, At, TaskPCs, StopPCs, broker
  <2> QED BY <1>4, <1>7, <2>1 DEF TaskLook
<1>8. CASE TaskReport(p)
  <2>1. proc[p].pc \in TaskPCs /\ EndTask(p, Verdict(p))
    BY <1>8 DEF TaskReport, At, TaskPCs, StopPCs
  <2>2. Verdict(p) \in Final /\ (Verdict(p) = "SUCCEEDED" => proc[p].ok) /\ (Verdict(p) = "FAILED" => ~proc[p].ok)
    BY <1>1 DEF Verdict, Final, Records
  <2> QED BY <1>2, <2>1, <2>2, EndTruth
<1> QED BY <1>5, <1>6, <1>7, <1>8

(* The broker accepts a message: a task nobody has heard of.               *)
LEMMA AcceptTruth ==
  ASSUME TypeOK, Shape, Truth, NEW h \in Procs, Enqueue(h), Accepted(h)
  PROVE  Truth'
<1>0. PICK t, rec : t = Len(of) + 1 /\ rec = [proc[h] EXCEPT !.pc = "saveOp", !.task = t]
  OBVIOUS
<1>1. proc[h] \in Records /\ proc[h].c \in Containers
  BY AProcess
<1>2. DOMAIN of' = DOMAIN of \cup {t} /\ t \notin DOMAIN of /\ t \in Tasks
  BY <1>0, <1>1, NextTask DEF Accepted
<1>3. /\ rec.task = t /\ rec.seen = proc[h].seen /\ rec.pc \notin TaskPCs
      /\ Become(h, rec) /\ queue' = queue \cup {t}
      /\ UNCHANGED <<row, result, answer, removed>>
      /\ proc[h].pc \notin TaskPCs
  BY <1>0, <1>1, EnqueueCases DEF Accepted, Records, TaskPCs, StopPCs, At
<1>4. ASSUME NEW u \in Tasks PROVE Onward(u) /\ \A q \in Procs : ~(Works(q, u)' /\ u = t)
  <2>1. ASSUME NEW q \in Procs, Works(q, u)'
        PROVE  Works(q, u) /\ proc'[q] = proc[q] /\ u # t
    <3>1. q # h /\ proc'[q] = proc[q]
      BY <1>3, <2>1 DEF Works, Become, TypeOK
    <3>2. Works(q, u)
      BY <2>1, <3>1 DEF Works
    <3> QED BY <1>2, <3>1, <3>2, WorksAccepted
  <2> QED BY <2>1 DEF Onward
<1>5. ASSUME NEW u \in Tasks
      PROVE  (Past(u) => Past(u)') /\ Book(u)' /\ \A q \in Procs : Hand(q, u)'
  <2>1. Onward(u) /\ Book(u) /\ \A q \in Procs : Hand(q, u)
    BY <1>4 DEF Truth, Ledger
  <2>2. Past(u) => Past(u)'
    BY <1>2, <1>3, <2>1 DEF Past, Onward
  <2>3. Book(u)'
    BY <1>2, <1>3, <2>1, <2>2 DEF Book, Past
  <2>4. ASSUME NEW q \in Procs PROVE Hand(q, u)'
    BY <1>3, <1>4, <2>1 DEF Hand, Onward
  <2> QED BY <2>2, <2>3, <2>4
<1>6. Ledger' /\ Orderly
  BY <1>2, <1>3, <1>5 DEF Ledger, Orderly
<1>7. \A ops \in {row.ops, proc[h].seen.ops, NoOps} : OpsOk(ops)'
  BY <1>6, CarriedOk DEF Truth
<1>8. OpsOk(row.ops)' /\ OpsOk(rec.seen.ops)'
  BY <1>3, <1>7 DEF OpsOk, OpOk
<1>9. OpsTrue'
  BY <1>3, <1>6, <1>8, OpsStep DEF Truth
<1> QED BY <1>6, <1>9 DEF Truth

(* A refused message leaves a task without a number to the handler.        *)
LEMMA TurnedTruth ==
  ASSUME TypeOK, Shape, Truth, NEW h \in Procs, Enqueue(h), Turned(h)
  PROVE  Truth'
<1> DEFINE rec == [Idle EXCEPT !.pc = "load", !.c = proc[h].c]
<1>1. rec.task = Local /\ rec.seen.ops = NoOps
  BY IdleType, KeptOps DEF Records
<1>2. Become(h, rec) /\ UNCHANGED <<row, of, queue, removed, answer, result>>
  BY EnqueueCases DEF Turned
<1> HIDE DEF rec
<1> QED BY <1>1, <1>2, Ordinary

(* The request notes that its task runs, which says nothing of the end.    *)
LEMMA SaveOpTruth ==
  ASSUME TypeOK, Shape, Truth, NEW h \in Procs, SaveOp(h)
  PROVE  Truth'
<1>1. /\ proc[h].task \in {Local} \cup Tasks /\ proc[h].c \in Containers /\ row \in Rows
      /\ Fits(proc[h]) /\ Local \notin Tasks
  BY AProcess, VmBounds DEF Outside, Local, Tasks
<1>2. Become(h, Idle) /\ UNCHANGED <<of, queue, removed, result>>
  BY DEF SaveOp, Return, past
<1>3. Idle.task = Local /\ Idle.seen.ops = NoOps /\ Idle.pc \notin TaskPCs
  BY IdleType, KeptOps DEF TaskPCs, StopPCs
<1>4. ASSUME NEW t \in Tasks PROVE answer'[t] = answer[t] \/ (t \in DOMAIN of /\ answer'[t] = "RUNNING")
  <2>1. answer' = answer \/ answer' = [answer EXCEPT ![proc[h].task] = "RUNNING"]
    BY DEF SaveOp
  <2> QED BY <1>1, <2>1 DEF TypeOK, Fits
<1>5. Ledger' /\ Orderly
  BY <1>2, <1>3, <1>4, LedgerStep DEF Truth
<1>6. \A ops \in {row.ops, proc[h].seen.ops, NoOps} : OpsOk(ops)'
  BY <1>5, CarriedOk DEF Truth
<1>7. PICK t, c, ops : t = proc[h].task /\ c = proc[h].c /\ ops = proc[h].seen.ops
  OBVIOUS
<1>8. OpsOk(WithOp(ops, c, t, "RUNNING"))'
  <2>1. OpOk([task |-> t, status |-> "RUNNING"])'
    BY <1>1, <1>2, <1>7 DEF OpOk, Fits
  <2> QED BY <1>1, <1>5, <1>7, <2>1, WithOpOk DEF Truth
<1>9. OpsOk(row.ops)'
  <2>1. row'.ops = row.ops \/ row'.ops = WithOp(ops, c, t, "RUNNING")
    BY <1>1, <1>7 DEF SaveOp, Rows
  <2> QED BY <1>6, <1>8, <2>1 DEF OpsOk, OpOk
<1>10. OpsTrue'
  <2>1. PICK rec : rec = Idle
    OBVIOUS
  <2>2. OpsOk(rec.seen.ops)'
    BY <1>3, <1>6, <2>1 DEF OpsOk, OpOk
  <2> QED BY <1>2, <1>5, <1>9, <2>1, <2>2, OpsStep DEF Truth
<1> QED BY <1>5, <1>10 DEF Truth

(* A worker takes a message: nobody works for its task, or ever did.       *)
LEMMA DeliverTruth ==
  ASSUME TypeOK, Shape, Truth, NEW w \in Workers, NEW t \in Tasks, Deliver(w, t)
  PROVE  Truth'
<1>0. PICK rec : rec = [Idle EXCEPT !.pc = "load", !.task = t, !.c = of[t]]
  OBVIOUS
<1>1. /\ rec.task = t /\ rec.seen.ops = NoOps /\ rec.pc = "load" /\ rec.ok = FALSE
      /\ w \in Procs
  BY <1>0, IdleType, KeptOps DEF Records, Procs
<1>2. /\ Become(w, rec) /\ queue' = queue \ {t} /\ t \in queue /\ proc[w].pc = "idle"
      /\ UNCHANGED <<row, of, result, answer, removed>>
  BY <1>0 DEF Deliver, past, At
<1>3. Book(t) /\ ~Past(t) /\ t \notin removed /\ result[t] = "none"
  BY <1>2 DEF Truth, Ledger, Book, Past
<1>4. ASSUME NEW q \in Procs, q # w, NEW u \in Tasks PROVE proc'[q] = proc[q] /\ (Works(q, u)' <=> Works(q, u))
  BY <1>2, <1>4 DEF Become, TypeOK, Works
<1>5. proc'[w] = rec
  BY <1>1, <1>2 DEF Become, TypeOK
<1>6. ASSUME NEW u \in Tasks
      PROVE  (Past(u) => Past(u)') /\ Book(u)' /\ \A q \in Procs : Hand(q, u)'
  <2>1. CASE u = t
    <3>1. ASSUME NEW q \in Procs PROVE Works(q, t)' => q = w
      BY <1>2, <1>4 DEF Truth, Ledger, Hand
    <3>2. Book(t)'
      BY <1>2, <1>3 DEF Book
    <3>3. ASSUME NEW q \in Procs PROVE Hand(q, t)'
      BY <1>1, <1>2, <1>3, <1>5, <3>1 DEF Hand
    <3> QED BY <1>3, <2>1, <3>2, <3>3
  <2>2. CASE u # t
    <3>1. Onward(u)
      <4>1. ~Works(w, u)'
        BY <1>1, <1>5, <2>2 DEF Works
      <4> QED BY <1>4, <4>1 DEF Onward
    <3>2. Book(u) /\ \A q \in Procs : Hand(q, u)
      BY DEF Truth, Ledger
    <3>3. Past(u) => Past(u)'
      BY <1>2, <3>1 DEF Past, Onward
    <3>4. Book(u)'
      BY <1>2, <2>2, <3>2, <3>3 DEF Book
    <3>5. ASSUME NEW q \in Procs PROVE Hand(q, u)'
      BY <1>2, <2>2, <3>1, <3>2 DEF Hand, Onward
    <3> QED BY <3>3, <3>4, <3>5
  <2> QED BY <2>1, <2>2
<1>7. Ledger' /\ Orderly
  BY <1>2, <1>6 DEF Ledger, Orderly
<1>8. \A ops \in {row.ops, proc[w].seen.ops, NoOps} : OpsOk(ops)'
  BY <1>1, <1>7, CarriedOk DEF Truth
<1>9. OpsOk(row.ops)' /\ OpsOk(rec.seen.ops)'
  BY <1>1, <1>2, <1>8 DEF OpsOk, OpOk
<1>10. OpsTrue'
  BY <1>1, <1>2, <1>7, <1>9, OpsStep DEF Truth
<1> QED BY <1>7, <1>10 DEF Truth

(* The step that removes the container, or tries to.                       *)
LEMMA RemoveTruth ==
  ASSUME TypeOK, Shape, Truth, NEW p \in Procs, TaskRemove(p)
  PROVE  Truth'
<1>1. /\ proc[p] \in Records /\ proc[p].pc = "remove" /\ proc[p].task \in {Local} \cup Tasks
      /\ UNCHANGED <<row, of, queue, result, answer>>
  BY AProcess DEF TaskRemove, At, broker
<1>2. proc[p].pc \in EarlyPCs /\ proc[p].pc \in TaskPCs /\ "look" \notin EarlyPCs
  BY <1>1 DEF EarlyPCs, TaskPCs, StopPCs
<1>3. CASE Goto(p, "look") /\ UNCHANGED removed
  <2>1. PICK rec : rec = [proc[p] EXCEPT !.pc = "look"]
    OBVIOUS
  <2>2. rec.task = proc[p].task /\ rec.seen = proc[p].seen /\ rec.ok = proc[p].ok /\ rec.pc = "look"
    BY <1>1, <2>1 DEF Records
  <2>3. Become(p, rec)
    BY <1>3, <2>1 DEF Goto
  <2> QED BY <1>1, <1>2, <1>3, <2>2, <2>3, Ordinary
<1>4. CASE /\ Become(p, [proc[p] EXCEPT !.pc = "look", !.ok = TRUE])
           /\ removed' = removed \cup {proc[p].task}
  <2>0. PICK rec, t : rec = [proc[p] EXCEPT !.pc = "look", !.ok = TRUE] /\ t = proc[p].task
    OBVIOUS
  <2>1. rec.task = t /\ rec.seen = proc[p].seen /\ rec.ok /\ rec.pc = "look"
    BY <1>1, <2>0 DEF Records
  <2>2. Become(p, rec) /\ proc'[p] = rec /\ removed' = removed \cup {t}
    BY <1>1, <1>4, <2>0 DEF Become, TypeOK
  <2>3. ASSUME NEW q \in Procs, q # p PROVE proc'[q] = proc[q]
    BY <2>2, <2>3 DEF Become, TypeOK
  <2>4. ASSUME NEW q \in Procs, NEW u \in Tasks PROVE Works(q, u)' <=> Works(q, u)
    <3>1. CASE q = p
      BY <1>2, <2>0, <2>1, <2>2, <3>1 DEF Works, TaskPCs, StopPCs
    <3>2. CASE q # p
      BY <2>3, <3>2 DEF Works
    <3> QED BY <3>1, <3>2
  <2>5. ASSUME NEW u \in Tasks
        PROVE  /\ Past(u) => Past(u)' /\ (u \in removed' => u \in removed)
               /\ Book(u)' /\ \A q \in Procs : Hand(q, u)'
    <3>1. Book(u) /\ \A q \in Procs : Hand(q, u)
      BY DEF Truth, Ledger
    <3>2. CASE u = t
      <4>1. Works(p, t) /\ t \notin removed /\ ~Past(t) /\ result[t] = "none" /\ t \in DOMAIN of /\ t \notin queue
        BY <1>2, <2>0, <3>1, <3>2, Attempts, WorksAccepted DEF Truth, Hand
      <4>2. \A q \in Procs : Works(q, t)' => q = p
        BY <2>4, <3>1, <3>2, <4>1 DEF Hand
      <4>3. Past(t)'
        BY <1>1, <1>2, <2>1, <2>2, <4>1, <4>2 DEF Past
      <4>4. Book(t)'
        BY <1>1, <2>2, <3>1, <3>2, <4>1, <4>3 DEF Book
      <4>5. ASSUME NEW q \in Procs PROVE Hand(q, t)'
        BY <1>1, <2>1, <2>2, <4>1, <4>2 DEF Hand
      <4> QED BY <3>2, <4>1, <4>4, <4>5
    <3>3. CASE u # t
      <4>1. u \in removed' <=> u \in removed
        BY <2>2, <3>3
      <4>2. ASSUME NEW q \in Procs, Works(q, u) PROVE proc'[q] = proc[q]
        BY <2>0, <2>3, <3>3, <4>2 DEF Works
      <4>3. Past(u) <=> Past(u)'
        BY <1>1, <2>4, <4>2 DEF Past
      <4>4. Book(u)'
        BY <1>1, <3>1, <4>1, <4>3 DEF Book
      <4>5. ASSUME NEW q \in Procs PROVE Hand(q, u)'
        BY <1>1, <2>4, <3>1, <4>1, <4>2 DEF Hand
      <4> QED BY <4>1, <4>3, <4>4, <4>5
    <3> QED BY <3>2, <3>3
  <2>6. Ledger' /\ Orderly
    BY <1>1, <2>2, <2>5 DEF Ledger, Orderly
  <2>7. \A ops \in {row.ops, proc[p].seen.ops, NoOps} : OpsOk(ops)'
    BY <2>6, CarriedOk DEF Truth
  <2>8. OpsOk(row.ops)' /\ OpsOk(rec.seen.ops)'
    BY <1>1, <2>1, <2>7 DEF OpsOk, OpOk
  <2>9. OpsTrue'
    BY <2>2, <2>6, <2>8, OpsStep DEF Truth
  <2> QED BY <2>6, <2>9 DEF Truth
<1> QED BY <1>3, <1>4 DEF TaskRemove

(* Once its process has tried, or given up, a task is past its attempt.    *)
LEMMA LeftPast ==
  ASSUME Shape, Ledger, NEW p \in Procs, NEW t \in Tasks, Works(p, t), Onward(t), UNCHANGED <<of, queue>>,
         Works(p, t)' => proc'[p].pc \notin EarlyPCs
  PROVE  Past(t)'
<1>1. t \in DOMAIN of /\ Hand(p, t)
  BY WorksAccepted DEF Ledger
<1>2. t \notin queue /\ \A q \in Procs : Works(q, t)' => q = p
  BY <1>1 DEF Hand, Onward
<1> QED BY <1>1, <1>2 DEF Past

(* A task writes the state of its operation.                               *)
LEMMA SavedTruth ==
  ASSUME TypeOK, Shape, Truth, NEW p \in Procs, NEW rec, Become(p, rec),
         UNCHANGED <<of, queue, removed, answer>>,
         proc[p].pc \in TaskPCs, rec.task \in {Local, proc[p].task},
         rec.task # Local =>
           /\ rec.pc \in TaskPCs
           /\ rec.pc \in EarlyPCs => proc[p].pc \in EarlyPCs
           /\ rec.ok <=> proc[p].ok,
         \A t \in Tasks :
           \/ result'[t] = result[t]
           \/ /\ Works(p, t) /\ rec.task = Local
              /\ result'[t] = "SUCCEEDED" => proc[p].ok
              /\ result'[t] = "FAILED" => ~proc[p].ok,
         NEW status, row'.ops = OpSeen(p, status),
         status = "SUCCEEDED" => proc[p].ok,
         status = "FAILED" => ~proc[p].ok \/ proc[p].task = Local,
         status = "FAILED" => rec.task = Local \/ rec.pc \notin EarlyPCs,
         rec.seen.ops \in {proc[p].seen.ops, NoOps, OpSeen(p, status)}
  PROVE  Truth'
<1>1. /\ proc[p].task \in {Local} \cup Tasks /\ proc[p].c \in Containers
      /\ Local \notin Tasks
  BY AProcess, VmBounds DEF Outside, Local, Tasks
<1>2. Ledger' /\ Orderly
  BY <1>1, LedgerStep DEF Truth
<1>3. PICK t, c, ops : t = proc[p].task /\ c = proc[p].c /\ ops = proc[p].seen.ops
  OBVIOUS
<1>4. OpOk([task |-> t, status |-> status])'
  <2>1. CASE t \notin Tasks
    BY <2>1 DEF OpOk
  <2>2. CASE t \in Tasks
    <3>1. Works(p, t) /\ t \in DOMAIN of /\ Hand(p, t)
      BY <1>3, <2>2, WorksAccepted DEF Works, Truth, Ledger
    <3>2. ASSUME status = "FAILED" PROVE Past(t)'
      <4>1. Onward(t)
        BY <1>1, <1>3, <2>2, OnwardStep
      <4>2. Works(p, t)' => proc'[p].pc \notin EarlyPCs
        BY <1>1, <1>3, <2>2, <3>2 DEF Works, Become, TypeOK
      <4> QED BY <3>1, <4>1, <4>2, <2>2, LeftPast DEF Truth
    <3>3. proc[p].ok <=> t \in removed
      BY <3>1 DEF Hand
    <3> QED BY <1>1, <1>3, <2>2, <3>1, <3>2, <3>3 DEF OpOk
  <2> QED BY <2>1, <2>2
<1>5. \A o \in {row.ops, proc[p].seen.ops, NoOps} : OpsOk(o)'
  BY <1>2, CarriedOk DEF Truth
<1>6. OpsOk(WithOp(ops, c, t, status))'
  BY <1>1, <1>2, <1>3, <1>4, WithOpOk DEF Truth
<1>7. OpSeen(p, status) = WithOp(ops, c, t, status)
  BY <1>3 DEF OpSeen
<1>8. OpsOk(row.ops)' /\ OpsOk(rec.seen.ops)'
  BY <1>5, <1>6, <1>7 DEF OpsOk, OpOk
<1>9. OpsTrue'
  BY <1>2, <1>8, OpsStep DEF Truth
<1> QED BY <1>2, <1>9 DEF Truth

(* The first save of a task: it runs, or it fails at once.                 *)
LEMMA BeginTruth ==
  ASSUME TypeOK, Shape, Truth, NEW p \in Procs, TaskBegin(p)
  PROVE  Truth'
<1>1. /\ proc[p] \in Records /\ proc[p].seen \in Rows /\ row \in Rows
      /\ proc[p].pc = "begin" /\ UNCHANGED <<of, queue, removed, answer>>
  BY AProcess DEF Outside, TaskBegin, At, past
<1>2. proc[p].pc \in TaskPCs /\ proc[p].pc \in EarlyPCs
  BY <1>1 DEF TaskPCs, StopPCs, EarlyPCs
<1>3. ~proc[p].ok \/ proc[p].task = Local
  <2>1. proc[p].task \in {Local} \cup Tasks
    BY <1>1 DEF Records
  <2> QED BY <1>2, <2>1, Attempts DEF Truth
<1>4. CASE ~row.present
  <2>1. EndTask(p, "raised") /\ UNCHANGED row
    BY <1>4 DEF TaskBegin
  <2> QED BY <1>1, <1>2, <2>1, EndTruth
<1>5. CASE row.present /\ proc[p].seen.key
  <2>0. PICK ops : ops = OpSeen(p, "RUNNING")
    OBVIOUS
  <2>1. PICK rec : rec = [proc[p] EXCEPT !.pc = "connect", !.seen.ops = ops, !.seen.key = FALSE]
    OBVIOUS
  <2>2. /\ rec.task = proc[p].task /\ rec.seen.ops = ops /\ rec.ok = proc[p].ok
        /\ rec.pc = "connect"
    BY <1>1, <2>1 DEF Records, Rows
  <2>3. Become(p, rec) /\ UNCHANGED result
    BY <1>5, <2>0, <2>1 DEF TaskBegin
  <2>4. row'.ops = OpSeen(p, "RUNNING")
    BY <1>1, <1>5 DEF TaskBegin, Rows
  <2>5. rec.pc \in TaskPCs
    BY <2>2 DEF TaskPCs, StopPCs
  <2> QED BY <1>1, <1>2, <2>0, <2>2, <2>3, <2>4, <2>5, SavedTruth
<1>6. CASE row.present /\ ~proc[p].seen.key
  <2>1. EndTask(p, "FAILED") /\ row'.ops = OpSeen(p, "FAILED")
    BY <1>1, <1>6 DEF TaskBegin, Rows
  <2>2. Become(p, Idle) /\ Idle.task = Local /\ Idle.seen.ops = NoOps
    BY <2>1, IdleType, KeptOps DEF EndTask, Return
  <2>3. ASSUME NEW t \in Tasks
        PROVE  \/ result'[t] = result[t]
               \/ Works(p, t) /\ result'[t] = "FAILED" /\ ~proc[p].ok
    <3>1. Local \notin Tasks
      BY VmBounds DEF Local, Tasks
    <3>2. result'[t] # result[t] => Works(p, t) /\ result'[t] = "FAILED"
      BY <1>2, <2>1, EndedResult DEF Final
    <3> QED BY <1>3, <3>1, <3>2 DEF Works
  <2> QED BY <1>1, <1>2, <1>3, <2>1, <2>2, <2>3, SavedTruth
<1> QED BY <1>4, <1>5, <1>6

(* The last save of a task.                                                *)
LEMMA SaveTruth ==
  ASSUME TypeOK, Shape, Truth, NEW p \in Procs, TaskSave(p)
  PROVE  Truth'
<1>1. /\ proc[p] \in Records /\ proc[p].seen \in Rows /\ row \in Rows
      /\ proc[p].pc \in {"save", "unreachable"} /\ UNCHANGED <<of, queue, removed, answer>>
  BY AProcess DEF Outside, TaskSave, At, past
<1>2. proc[p].pc \in TaskPCs
  BY <1>1 DEF TaskPCs, StopPCs
<1>3. CASE ~row.present
  <2>1. EndTask(p, "raised") /\ UNCHANGED row
    BY <1>3 DEF TaskSave
  <2> QED BY <1>1, <1>2, <2>1, EndTruth
<1>4. CASE row.present
  <2>1. PICK rec, v : rec = [proc[p] EXCEPT !.pc = "report"] /\ v = Verdict(p)
    OBVIOUS
  <2>2. rec.task = proc[p].task /\ rec.seen = proc[p].seen /\ rec.ok = proc[p].ok /\ rec.pc = "report"
    BY <1>1, <2>1 DEF Records
  <2>3. Become(p, rec) /\ UNCHANGED result
    BY <1>4, <2>1 DEF TaskSave, Goto
  <2>4. row'.ops = OpSeen(p, v)
    BY <1>1, <1>4, <2>1 DEF TaskSave, Rows
  <2>5. rec.pc \in TaskPCs /\ rec.pc \notin EarlyPCs
    BY <2>2 DEF TaskPCs, StopPCs, EarlyPCs
  <2>6. (v = "SUCCEEDED" => proc[p].ok) /\ (v = "FAILED" => ~proc[p].ok)
    BY <2>1 DEF Verdict
  <2> QED BY <1>1, <1>2, <2>2, <2>3, <2>4, <2>5, <2>6, SavedTruth
<1> QED BY <1>3, <1>4

(* A poll answers what the row or the result backend says.                 *)
LEMMA PollTruth ==
  ASSUME TypeOK, Shape, Truth, NEW t \in Tasks, Poll(t)
  PROVE  Truth'
<1>1. /\ UNCHANGED <<row, of, queue, result, proc, removed>> /\ t \in DOMAIN of
      /\ answer \in [Tasks -> Answers] /\ of[t] \in Containers
      /\ result[t] \in Statuses
  BY DEF Poll, past, Shape, TypeOK, Answers, Statuses
<1>2. PICK a : a = IF Stored(t) \in Final THEN Stored(t) ELSE IF InProgress(t) THEN "RUNNING" ELSE Payload(t)
  OBVIOUS
<1>3. answer' = [answer EXCEPT ![t] = a]
  BY <1>2 DEF Poll
<1>4. Book(t) /\ OpOk(row.ops[of[t]])
  BY <1>1 DEF Truth, Ledger, OpsTrue, OpsOk
<1>5. (a = "SUCCEEDED" => t \in removed) /\ (a = "FAILED" => result[t] = "raised" \/ (Past(t) /\ t \notin removed))
  <2>1. CASE Stored(t) \in Final
    <3>1. row.ops[of[t]].task = t /\ Stored(t) = row.ops[of[t]].status
      BY <2>1 DEF Stored, Final
    <3> QED BY <1>2, <1>4, <2>1, <3>1 DEF OpOk
  <2>2. CASE Stored(t) \notin Final /\ InProgress(t)
    BY <1>2, <2>2
  <2>3. CASE Stored(t) \notin Final /\ ~InProgress(t)
    <3>1. a = Payload(t) /\ result[t] \in {"raised", "SUCCEEDED", "FAILED"}
      BY <1>1, <1>2, <2>3 DEF InProgress, Statuses, Final
    <3> QED BY <1>4, <3>1 DEF Payload, Final, Book
  <2> QED BY <2>1, <2>2, <2>3
<1>6. ASSUME NEW u \in Tasks PROVE (Past(u)' <=> Past(u)) /\ Book(u)' /\ \A q \in Procs : Hand(q, u)'
  <2>1. Book(u) /\ \A q \in Procs : Hand(q, u)
    BY DEF Truth, Ledger
  <2>2. Past(u)' <=> Past(u)
    BY <1>1 DEF Past, Works
  <2>3. Book(u)'
    <3>1. CASE u = t
      BY <1>1, <1>3, <1>5, <2>1, <2>2, <3>1 DEF Book
    <3>2. CASE u # t
      BY <1>1, <1>3, <2>1, <2>2, <3>2 DEF Book
    <3> QED BY <3>1, <3>2
  <2>4. ASSUME NEW q \in Procs PROVE Hand(q, u)'
    BY <1>1, <2>1 DEF Hand, Works
  <2> QED BY <2>2, <2>3, <2>4
<1>7. Ledger' /\ Orderly
  BY <1>1, <1>6 DEF Ledger, Orderly
<1>8. ASSUME NEW q \in Procs PROVE OpsOk(row.ops)' /\ OpsOk(proc[q].seen.ops)'
  <2>1. \A ops \in {row.ops, proc[q].seen.ops, NoOps} : OpsOk(ops)'
    BY <1>7, CarriedOk DEF Truth
  <2> QED BY <1>1, <2>1 DEF OpsOk, OpOk
<1>9. OpsOk(row.ops)'
  <2>1. \A ops \in Ops : OpsOk(ops) => OpsOk(ops)'
    BY <1>7, OpsCarry
  <2>2. row.ops \in Ops /\ OpsOk(row.ops)
    BY DEF TypeOK, Rows, Truth, OpsTrue
  <2> QED BY <1>1, <2>1, <2>2 DEF OpsOk, OpOk
<1> QED BY <1>7, <1>8, <1>9 DEF Truth, OpsTrue

(* Every step keeps the truth.                                             *)
THEOREM TruthKept == TypeOK /\ Shape /\ Truth /\ [Next]_vars => Truth'
<1> SUFFICES ASSUME TypeOK, Shape, Truth, [Next]_vars PROVE Truth'
  OBVIOUS
<1>1. Handlers \subseteq Procs /\ Workers \subseteq Procs /\ row \in Rows
  BY DEF Procs, TypeOK
<1>2. ASSUME \/ \E key \in BOOLEAN : Upload(key)
             \/ Delete
             \/ \E c \in Containers, state \in {"absent", "stopped", "running"} : Elsewhere(c, state)
             \/ UNCHANGED vars
      PROVE  Truth'
  <2>1. UNCHANGED <<of, queue, removed, answer, result, proc>>
    BY <1>2 DEF Upload, Delete, Elsewhere, broker, past, vars
  <2>2. row'.ops \in {row.ops, NoOps}
    BY <1>1, <1>2, KeptOps DEF Upload, Delete, Elsewhere, vars, Rows
  <2> QED BY <2>1, <2>2, Still
<1>3. ASSUME NEW h \in Handlers, Request(h) PROVE Truth'
  BY <1>1, <1>3, CheckTruth DEF Request
<1>4. ASSUME NEW p \in Procs, Step(p) PROVE Truth'
  <2>1. CASE CheckLook(p) \/ CheckSave(p)
    BY <2>1, CheckTruth
  <2>2. CASE Enqueue(p)
    BY <2>2, EnqueueCases, AcceptTruth, TurnedTruth
  <2>3. CASE SaveOp(p)
    BY <2>3, SaveOpTruth
  <2>4. CASE TaskStep(p)
    BY <2>4, TaskTruth, BeginTruth, SaveTruth, RemoveTruth DEF TaskStep
  <2>5. CASE PhaseStep(p)
    BY <2>5, PhaseTruth
  <2> QED BY <1>4, <2>1, <2>2, <2>3, <2>4, <2>5 DEF Step
<1>5. ASSUME NEW t \in Tasks, Poll(t) PROVE Truth'
  BY <1>5, PollTruth
<1>6. ASSUME NEW w \in Workers, Crash(w) PROVE Truth'
  BY <1>6, CrashTruth
<1>7. ASSUME NEW w \in Workers, NEW t \in Tasks, Deliver(w, t) PROVE Truth'
  BY <1>7, DeliverTruth
<1>8. ASSUME NEW w \in Workers, NEW phase \in Phases, PhaseBegin(w, phase) PROVE Truth'
  BY <1>1, <1>8, PhaseTruth
<1> QED BY <1>2, <1>3, <1>4, <1>5, <1>6, <1>7, <1>8 DEF Next

(* What a poll answers of a stop request is what its task did              *)
(* (AnswersTellOutcome), however many writers overwrite the operations of  *)
(* the row from old copies, and whichever messages are refused, workers    *)
(* die or VMs are deleted meanwhile.                                       *)
THEOREM AnswersAreTrue == Spec => []AnswersTellOutcome
<1>1. Init => TypeOK /\ Shape /\ Truth
  <2> SUFFICES ASSUME Init PROVE TypeOK /\ Shape /\ Truth
    OBVIOUS
  <2>1. TypeOK /\ Shape
    BY TypesAtFirst
  <2>2. \A p \in Procs : proc[p].seen.ops = NoOps /\ proc[p].pc \notin TaskPCs
    BY IdleType, KeptOps DEF Init, TaskPCs, StopPCs
  <2>3. row.ops = NoOps
    BY RowTypes, KeptOps DEF Init, Rows
  <2>4. Local \notin Tasks
    BY VmBounds DEF Local, Tasks
  <2>5. OpsOk(NoOps)
    BY <2>4 DEF OpsOk, NoOps, OpOk
  <2>6. Ledger
    BY <2>2 DEF Init, Ledger, Book, Hand, Works
  <2> QED BY <2>1, <2>2, <2>3, <2>5, <2>6 DEF Truth, OpsTrue
<1>2. Truth => AnswersTellOutcome
  BY DEF Truth, Ledger, Book, AnswersTellOutcome
<1> QED BY <1>1, <1>2, TypesKept, TruthKept, PTL DEF Spec

---------------------------------------------------------------------------
(* What a row lists *)

Listed(m) == m \subseteq Running /\ Running \cap Icopa \subseteq m

(* What a row that lists m lists once the action of p is written down.     *)
After(p, m) == LET e == Effects(Action(p)) IN (m \cup e.run) \ Kept(e.rm, e.run)

WatchPCs == StopPCs \cup {"checkLook", "checkSave", "save", "exec", "trackRead", "trackSave"}
SettledPCs == {"checkLook", "load", "begin", "connect", "remove", "report", "exec"}

(* What the only watcher knows of the VM, and what it has yet to save.     *)
Sound(p) ==
  /\ ~At(p, "unreachable")
  /\ At(p, "checkSave") => proc[p].ok /\ Listed(proc[p].found)
  /\ (trust = "good" /\ row.present) =>
       /\ proc[p].pc \in SettledPCs => Listed(row.managed)
       /\ proc[p].pc \in {"begin", "connect", "remove", "look"} => proc[p].seen.managed = row.managed
       /\ At(p, "look") => Running \cap Icopa \subseteq row.managed
       /\ At(p, "save") => Listed(proc[p].found)
       /\ At(p, "trackRead") => Listed(After(p, row.managed))
       /\ At(p, "trackSave") => proc[p].seen.present /\ Listed(After(p, proc[p].seen.managed))

Calm ==
  trust # "stale" =>
    /\ \A p \in Procs : Watching(p) => Alone(p) /\ Sound(p)
    /\ (trust = "good" /\ row.present /\ \A p \in Procs : ~Watching(p)) => Listed(row.managed)

(* Nobody begins or ends to watch, and VM and row stay as they are.        *)
LEMMA Unmoved ==
  ASSUME Calm, UNCHANGED <<box, trust>>, row'.managed = row.managed, row'.present = row.present,
         \A q \in Procs : (Watching(q)' <=> Watching(q)) /\ (Watching(q) => proc'[q] = proc[q])
  PROVE  Calm'
<1>1. Running' = Running
  BY DEF Running
<1>2. ASSUME NEW q \in Procs, Watching(q)', trust' # "stale" PROVE Alone(q)' /\ Sound(q)'
  <2>1. Alone(q) /\ Sound(q) /\ proc'[q] = proc[q]
    BY <1>2 DEF Calm
  <2>2. Alone(q)'
    BY <2>1 DEF Alone
  <2>3. Sound(q)'
    BY <1>1, <2>1 DEF Sound, Listed, After, At, Action
  <2> QED BY <2>2, <2>3
<1> QED BY <1>1, <1>2 DEF Calm, Listed

(* The only watcher moves, or somebody becomes it.                         *)
LEMMA Moved ==
  ASSUME TypeOK, NEW p \in Procs, NEW rec, Become(p, rec),
         trust' # "stale" => Alone(p),
         trust' # "stale" /\ rec.pc \in WatchPCs => Sound(p)',
         trust' = "good" /\ row'.present /\ rec.pc \notin WatchPCs => Listed(row.managed)'
  PROVE  Calm'
<1>1. proc'[p] = rec /\ \A q \in Procs \ {p} : proc'[q] = proc[q]
  BY DEF Become, TypeOK
<1>2. Watching(p)' <=> rec.pc \in WatchPCs
  BY <1>1 DEF Watching, WatchPCs
<1>3. \A q \in Procs \ {p} : Watching(q)' <=> Watching(q)
  BY <1>1 DEF Watching
<1>4. trust' # "stale" => \A q \in Procs \ {p} : ~Watching(q)'
  BY <1>3 DEF Alone
<1> QED BY <1>2, <1>4 DEF Calm, Alone

(* Who finds nobody watching may rely on a good row, and who watches, on   *)
(* what he has seen.                                                       *)
LEMMA Relies ==
  ASSUME Calm, NEW p \in Procs, trust # "stale"
  PROVE  /\ Watching(p) => Alone(p) /\ Sound(p)
         /\ (~Watching(p) /\ Alone(p) /\ trust = "good" /\ row.present) => Listed(row.managed)
BY DEF Calm, Alone

(* A check that saves what it found makes the row good.                    *)
LEMMA CheckCalm ==
  ASSUME TypeOK, Shape, Calm, NEW h \in Procs, CheckRead(h) \/ CheckLook(h) \/ CheckSave(h)
  PROVE  Calm'
<1>1. proc[h] \in Records /\ row \in Rows
  BY AProcess DEF Outside
<1>2. CASE CheckRead(h)
  <2>1. PICK rec : rec = [Idle EXCEPT !.pc = "checkLook", !.seen = [row EXCEPT !.key = FALSE]]
    OBVIOUS
  <2>2. rec.pc = "checkLook"
    BY <2>1, IdleType DEF Records
  <2>3. Become(h, rec) /\ UNCHANGED <<row, box>> /\ ~Watching(h) /\ proc'[h] = rec
    BY <1>2, <2>1 DEF CheckRead, At, Watching, StopPCs, Become, TypeOK
  <2>4. (trust' # "stale" => Alone(h)) /\ (trust' = "good" => trust = "good")
    BY <1>2 DEF CheckRead
  <2>5. trust' = "good" /\ row.present => Listed(row.managed)
    BY <2>3, <2>4, Relies
  <2>6. Sound(h)'
    BY <2>2, <2>3, <2>5 DEF Sound, At, Listed, Running
  <2>7. rec.pc \in WatchPCs
    BY <2>2 DEF WatchPCs
  <2> QED BY <2>3, <2>4, <2>6, <2>7, Moved
<1>3. CASE CheckLook(h)
  <2>1. CASE trust' = "stale"
    BY <2>1 DEF Calm
  <2>2. CASE trust' # "stale"
    <3>1. PICK shown : shown = Running \cap (proc[h].seen.managed \cup Icopa)
      OBVIOUS
    <3>2. PICK rec : rec = [proc[h] EXCEPT !.pc = "checkSave", !.ok = TRUE, !.found = shown, !.seen = OpsOf(proc[h].seen)]
      OBVIOUS
    <3>3. Become(h, rec) /\ trust' = trust
      BY <1>3, <2>2, <3>1, <3>2 DEF CheckLook, Saving, Undisturbed, Fault
    <3>4. rec.pc = "checkSave" /\ rec.ok /\ rec.found = shown /\ proc'[h] = rec
      BY <1>1, <3>2, <3>3 DEF Records, Become, TypeOK
    <3>5. UNCHANGED <<row, box>> /\ Watching(h)
      BY <1>3 DEF CheckLook, At, Watching
    <3>6. Alone(h)
      BY <2>2, <3>3, <3>5, Relies
    <3>7. Listed(shown)
      BY <3>1 DEF Listed
    <3>8. Sound(h)'
      BY <3>4, <3>5, <3>7 DEF Sound, At, Listed, Running, SettledPCs
    <3>9. rec.pc \in WatchPCs
      BY <3>4 DEF WatchPCs
    <3> QED BY <3>3, <3>6, <3>8, <3>9, Moved
  <2> QED BY <2>1, <2>2
<1>4. CASE CheckSave(h)
  <2>1. Become(h, Idle) /\ UNCHANGED box /\ Watching(h) /\ At(h, "checkSave")
    BY <1>4 DEF CheckSave, Return, At, Watching
  <2>2. CASE trust = "stale"
    <3>1. trust' = "stale"
      BY <1>4, <2>2 DEF CheckSave
    <3> QED BY <3>1 DEF Calm
  <2>3. CASE trust # "stale"
    <3>1. Alone(h) /\ proc[h].ok /\ Listed(proc[h].found)
      BY <2>1, <2>3, Relies DEF Sound
    <3>2. row'.present => row'.managed = proc[h].found
      BY <1>1, <1>4, <3>1 DEF CheckSave, Rows
    <3>3. row'.present => Listed(row.managed)'
      BY <2>1, <3>1, <3>2 DEF Listed, Running
    <3>4. Idle.pc \notin WatchPCs
      BY IdleType DEF WatchPCs, StopPCs
    <3> QED BY <2>1, <3>1, <3>3, <3>4, Moved
  <2> QED BY <2>2, <2>3
<1> QED BY <1>2, <1>3, <1>4

(* A request to stop a container does not concern the list.                *)
LEMMA RequestCalm ==
  ASSUME TypeOK, Shape, Calm, NEW h \in Procs,
         (\E c \in Containers : StopRead(h, c)) \/ Enqueue(h) \/ SaveOp(h)
  PROVE  Calm'
<1>1. proc[h] \in Records /\ row \in Rows
  BY AProcess DEF Outside
<1>2. ASSUME NEW rec, Become(h, rec), ~Watching(h), rec.pc \notin WatchPCs, UNCHANGED <<box, trust>>,
             row'.managed = row.managed, row'.present = row.present
      PROVE  Calm'
  <2>1. proc'[h] = rec /\ \A q \in Procs \ {h} : proc'[q] = proc[q]
    BY <1>2 DEF Become, TypeOK
  <2>2. \A q \in Procs : (Watching(q)' <=> Watching(q)) /\ (Watching(q) => proc'[q] = proc[q])
    BY <1>2, <2>1 DEF Watching, WatchPCs
  <2> QED BY <1>2, <2>2, Unmoved
<1>3. ASSUME NEW c \in Containers, StopRead(h, c) PROVE Calm'
  <2>1. PICK rec : rec = [Idle EXCEPT !.pc = "enqueue", !.c = c, !.seen = OpsOf(row)]
    OBVIOUS
  <2>2. rec.pc \notin WatchPCs
    BY <2>1, IdleType DEF Records, WatchPCs, StopPCs
  <2>3. Become(h, rec) /\ UNCHANGED <<row, box, trust>> /\ ~Watching(h)
    BY <1>3, <2>1 DEF StopRead, At, Watching, StopPCs
  <2> QED BY <1>2, <2>2, <2>3
<1>4. CASE Enqueue(h)
  <2>1. CASE Turned(h)
    BY <2>1 DEF Turned, Fault, Calm
  <2>2. CASE Accepted(h)
    <3>1. PICK rec : rec = [proc[h] EXCEPT !.pc = "saveOp", !.task = Len(of) + 1]
      OBVIOUS
    <3>2. rec.pc \notin WatchPCs
      BY <1>1, <3>1 DEF Records, WatchPCs, StopPCs
    <3>3. Become(h, rec) /\ UNCHANGED <<row, box, trust>> /\ ~Watching(h)
      BY <1>4, <2>2, <3>1, EnqueueCases DEF Accepted, At, Watching, StopPCs, Enqueue
    <3> QED BY <1>2, <3>2, <3>3
  <2> QED BY <1>4, <2>1, <2>2, EnqueueCases
<1>5. CASE SaveOp(h)
  <2>1. Become(h, Idle) /\ UNCHANGED <<box, trust>> /\ ~Watching(h)
    BY <1>5 DEF SaveOp, Return, At, Watching, StopPCs
  <2>2. row'.managed = row.managed /\ row'.present = row.present
    BY <1>1, <1>5 DEF SaveOp, Rows
  <2>3. Idle.pc \notin WatchPCs
    BY IdleType DEF WatchPCs, StopPCs
  <2> QED BY <1>2, <2>1, <2>2, <2>3
<1> QED BY <1>3, <1>4, <1>5

(* The only watcher goes on, or is done.                                   *)
LEMMA WatcherMoves ==
  ASSUME TypeOK, Calm, NEW p \in Procs, NEW rec, Become(p, rec), Watching(p), UNCHANGED trust,
         Sound(p) /\ trust # "stale" /\ rec.pc \in WatchPCs => Sound(p)',
         Sound(p) /\ trust = "good" /\ row'.present /\ rec.pc \notin WatchPCs => Listed(row.managed)'
  PROVE  Calm'
<1>1. trust # "stale" => Alone(p) /\ Sound(p)
  BY Relies
<1>2. trust = "good" => trust # "stale"
  OBVIOUS
<1> QED BY <1>1, <1>2, Moved

(* A task begins to watch when it is delivered.                            *)
LEMMA DeliverCalm ==
  ASSUME TypeOK, Shape, Calm, NEW w \in Workers, NEW t \in Tasks, Deliver(w, t)
  PROVE  Calm'
<1>1. PICK rec : rec = [Idle EXCEPT !.pc = "load", !.task = t, !.c = of[t]]
  OBVIOUS
<1>2. rec.pc = "load" /\ w \in Procs
  BY <1>1, IdleType DEF Records, Procs
<1>3. Become(w, rec) /\ UNCHANGED <<row, box>> /\ ~Watching(w) /\ proc'[w] = rec
  BY <1>1, <1>2 DEF Deliver, At, Watching, StopPCs, Become, TypeOK
<1>4. (trust' # "stale" => Alone(w)) /\ (trust' = "good" => trust = "good")
  BY DEF Deliver, Join
<1>5. trust' = "good" /\ row.present => Listed(row.managed)
  BY <1>2, <1>3, <1>4, Relies
<1>6. Sound(w)' /\ rec.pc \in WatchPCs
  BY <1>2, <1>3, <1>5 DEF Sound, At, Listed, Running, WatchPCs, StopPCs
<1> QED BY <1>2, <1>3, <1>4, <1>6, Moved

(* A task that works with the row it loaded, and saves what it found.      *)
LEMMA TaskCalm ==
  ASSUME TypeOK, Shape, Calm, NEW p \in Procs, TaskStep(p)
  PROVE  Calm'
<1>1. proc[p] \in Records /\ proc[p].seen \in Rows /\ row \in Rows
  BY AProcess DEF Outside
<1>2. Watching(p)
  BY DEF TaskStep, TaskLoad, TaskBegin, TaskConnect, TaskRemove, TaskLook, TaskSave, TaskReport, At, Watching, StopPCs
<1>3. Idle.pc \notin WatchPCs
  BY IdleType DEF WatchPCs, StopPCs
<1>4. ASSUME NEW rec, Become(p, rec) PROVE proc'[p] = rec
  BY <1>4 DEF Become, TypeOK
<1>5. CASE trust' = "stale"
  BY <1>5 DEF Calm
<1>6. ASSUME trust' # "stale", TaskLoad(p) PROVE Calm'
  <2>1. UNCHANGED <<row, box, trust>> /\ At(p, "load")
    BY <1>6 DEF TaskLoad
  <2>2. CASE row.present
    <3>1. PICK rec : rec = [proc[p] EXCEPT !.pc = "begin", !.seen = row]
      OBVIOUS
    <3>2. rec.pc = "begin" /\ rec.seen = row
      BY <1>1, <3>1 DEF Records
    <3>3. Become(p, rec) /\ proc'[p] = rec
      BY <1>4, <1>6, <2>2, <3>1 DEF TaskLoad
    <3>4. Sound(p) => Sound(p)'
      BY <2>1, <3>2, <3>3 DEF Sound, At, Listed, Running, SettledPCs
    <3>5. rec.pc \in WatchPCs
      BY <3>2 DEF WatchPCs, StopPCs
    <3> QED BY <1>2, <2>1, <3>3, <3>4, <3>5, WatcherMoves
  <2>3. CASE ~row.present
    <3>1. Become(p, Idle)
      BY <1>6, <2>3 DEF TaskLoad, EndTask, Return
    <3> QED BY <1>2, <1>3, <2>1, <2>3, <3>1, WatcherMoves
  <2> QED BY <2>2, <2>3
<1>7. ASSUME trust' # "stale", TaskBegin(p) PROVE Calm'
  <2>1. /\ UNCHANGED <<box, trust>> /\ At(p, "begin")
        /\ row'.present = row.present /\ row'.managed = row.managed
    BY <1>1, <1>7 DEF TaskBegin, Rows
  <2>2. CASE row.present /\ proc[p].seen.key
    <3>1. PICK rec : rec = [proc[p] EXCEPT !.pc = "connect", !.seen.ops = OpSeen(p, "RUNNING"), !.seen.key = FALSE]
      OBVIOUS
    <3>2. rec.pc = "connect" /\ rec.seen.managed = proc[p].seen.managed
      BY <1>1, <3>1 DEF Records, Rows
    <3>3. Become(p, rec) /\ proc'[p] = rec
      BY <1>4, <1>7, <2>2, <3>1 DEF TaskBegin
    <3>4. Sound(p) => Sound(p)'
      BY <2>1, <3>2, <3>3 DEF Sound, At, Listed, Running, SettledPCs
    <3>5. rec.pc \in WatchPCs
      BY <3>2 DEF WatchPCs, StopPCs
    <3> QED BY <1>2, <2>1, <3>3, <3>4, <3>5, WatcherMoves
  <2>3. CASE ~(row.present /\ proc[p].seen.key)
    <3>1. Become(p, Idle)
      BY <1>7, <2>3 DEF TaskBegin, EndTask, Return
    <3>2. Sound(p) /\ trust = "good" /\ row'.present => Listed(row.managed)'
      BY <2>1 DEF Sound, At, Listed, Running, SettledPCs
    <3> QED BY <1>2, <1>3, <2>1, <3>1, <3>2, WatcherMoves
  <2> QED BY <2>2, <2>3
<1>8. ASSUME trust' # "stale", TaskConnect(p) PROVE Calm'
  <2>1. UNCHANGED <<row, box, trust>> /\ At(p, "connect") /\ Goto(p, "remove")
    BY <1>8 DEF TaskConnect, Undisturbed, Fault
  <2>2. PICK rec : rec = [proc[p] EXCEPT !.pc = "remove"]
    OBVIOUS
  <2>3. rec.pc = "remove" /\ rec.seen = proc[p].seen
    BY <1>1, <2>2 DEF Records
  <2>4. Become(p, rec) /\ proc'[p] = rec
    BY <1>4, <2>1, <2>2 DEF Goto
  <2>5. Sound(p) => Sound(p)'
    BY <2>1, <2>3, <2>4 DEF Sound, At, Listed, Running, SettledPCs
  <2>6. rec.pc \in WatchPCs
    BY <2>3 DEF WatchPCs, StopPCs
  <2> QED BY <1>2, <2>1, <2>4, <2>5, <2>6, WatcherMoves
<1>9. ASSUME trust' # "stale", TaskRemove(p) PROVE Calm'
  <2>1. UNCHANGED <<row, trust>> /\ At(p, "remove")
    BY <1>9 DEF TaskRemove, Undisturbed, Fault
  <2>2. Running' \subseteq Running
    BY <1>9 DEF TaskRemove, Undisturbed, Fault, Running, TypeOK
  <2>3. PICK rec : /\ Become(p, rec)
                   /\ rec \in {[proc[p] EXCEPT !.pc = "look", !.ok = TRUE], [proc[p] EXCEPT !.pc = "look"]}
    BY <1>9 DEF TaskRemove, Goto, Undisturbed, Fault
  <2>4. rec.pc = "look" /\ rec.seen = proc[p].seen /\ proc'[p] = rec
    BY <1>1, <1>4, <2>3 DEF Records
  <2>5. Sound(p) => Sound(p)'
    BY <2>1, <2>2, <2>4 DEF Sound, At, Listed, SettledPCs
  <2>6. rec.pc \in WatchPCs
    BY <2>4 DEF WatchPCs, StopPCs
  <2> QED BY <1>2, <2>1, <2>3, <2>5, <2>6, WatcherMoves
<1>10. ASSUME trust' # "stale", TaskLook(p) PROVE Calm'
  <2>1. PICK found : found = Running \cap (proc[p].seen.managed \cup {proc[p].c})
    OBVIOUS
  <2>2. UNCHANGED <<row, box, trust>> /\ At(p, "look") /\ Looked(p, found)
    BY <1>10, <2>1 DEF TaskLook, Undisturbed, Fault
  <2>3. PICK rec : rec = [proc[p] EXCEPT !.pc = "save", !.found = found, !.seen = OpsOf(proc[p].seen)]
    OBVIOUS
  <2>4. rec.pc = "save" /\ rec.found = found
    BY <1>1, <2>3 DEF Records
  <2>5. Become(p, rec) /\ proc'[p] = rec
    BY <1>4, <2>2, <2>3 DEF Looked
  <2>6. Sound(p) /\ trust = "good" /\ row.present => Listed(found)
    BY <2>1, <2>2 DEF Sound, At, Listed
  <2>7. Sound(p) => Sound(p)'
    BY <2>2, <2>4, <2>5, <2>6 DEF Sound, At, Listed, Running, SettledPCs
  <2>8. rec.pc \in WatchPCs
    BY <2>4 DEF WatchPCs
  <2> QED BY <1>2, <2>2, <2>5, <2>7, <2>8, WatcherMoves
<1>11. ASSUME trust' # "stale", TaskSave(p) PROVE Calm'
  <2>1. UNCHANGED <<box, trust>> /\ At(p, "save")
    <3>1. UNCHANGED <<box, trust>> /\ Watching(p) /\ (At(p, "save") \/ At(p, "unreachable"))
      BY <1>11 DEF TaskSave, Watching, At, StopPCs
    <3> QED BY <1>11, <3>1, Relies DEF Sound
  <2>2. CASE row.present
    <3>1. PICK rec : rec = [proc[p] EXCEPT !.pc = "report"]
      OBVIOUS
    <3>2. rec.pc = "report"
      BY <1>1, <3>1 DEF Records
    <3>3. Become(p, rec) /\ proc'[p] = rec
      BY <1>4, <1>11, <2>2, <3>1 DEF TaskSave, Goto
    <3>4. row'.managed = proc[p].found
      BY <1>1, <1>11, <2>1, <2>2 DEF TaskSave, Rows
    <3>5. Sound(p) => Sound(p)'
      BY <2>1, <2>2, <3>2, <3>3, <3>4 DEF Sound, At, Listed, Running, SettledPCs
    <3>6. rec.pc \in WatchPCs
      BY <3>2 DEF WatchPCs, StopPCs
    <3> QED BY <1>2, <2>1, <3>3, <3>5, <3>6, WatcherMoves
  <2>3. CASE ~row.present
    <3>1. Become(p, Idle) /\ UNCHANGED row
      BY <1>11, <2>3 DEF TaskSave, EndTask, Return
    <3> QED BY <1>2, <1>3, <2>1, <2>3, <3>1, WatcherMoves
  <2> QED BY <2>2, <2>3
<1>12. ASSUME trust' # "stale", TaskReport(p) PROVE Calm'
  <2>1. UNCHANGED <<row, box, trust>> /\ At(p, "report") /\ Become(p, Idle)
    BY <1>12 DEF TaskReport, EndTask, Return
  <2>2. Sound(p) /\ trust = "good" /\ row'.present => Listed(row.managed)'
    BY <2>1 DEF Sound, At, Listed, Running, SettledPCs
  <2> QED BY <1>2, <1>3, <2>1, <2>2, WatcherMoves
<1> QED BY <1>5, <1>6, <1>7, <1>8, <1>9, <1>10, <1>11, <1>12 DEF TaskStep

(* A phase begins to watch when it is about to touch a container, and      *)
(* writes down what that changed.                                          *)
LEMMA PhaseCalm ==
  ASSUME TypeOK, Shape, Calm, NEW p \in Procs, PhaseStep(p) \/ \E phase \in Phases : PhaseBegin(p, phase)
  PROVE  Calm'
<1>1. proc[p] \in Records /\ proc[p].seen \in Rows /\ row \in Rows
  BY AProcess DEF Outside
<1>2. Idle.pc \notin WatchPCs
  BY IdleType DEF WatchPCs, StopPCs
<1>3. ASSUME NEW rec, Become(p, rec) PROVE proc'[p] = rec /\ \A q \in Procs \ {p} : proc'[q] = proc[q]
  BY <1>3 DEF Become, TypeOK
<1>4. ASSUME NEW rec, Become(p, rec), ~Watching(p), rec.pc \notin WatchPCs, UNCHANGED <<box, trust>>,
             row'.managed = row.managed, row'.present = row.present
      PROVE  Calm'
  <2>1. \A q \in Procs : (Watching(q)' <=> Watching(q)) /\ (Watching(q) => proc'[q] = proc[q])
    BY <1>3, <1>4 DEF Watching, WatchPCs
  <2> QED BY <1>4, <2>1, Unmoved
<1>5. ASSUME NEW todo, Become(p, [Idle EXCEPT !.pc = "act", !.todo = todo])
      PROVE  \E rec : Become(p, rec) /\ rec.pc \notin WatchPCs
  <2>1. PICK rec : rec = [Idle EXCEPT !.pc = "act", !.todo = todo]
    OBVIOUS
  <2>2. rec.pc \notin WatchPCs
    BY <2>1, IdleType DEF Records, WatchPCs, StopPCs
  <2> QED BY <1>5, <2>1, <2>2
<1>6. ASSUME NEW pc \in PhasePCs, Goto(p, pc)
      PROVE  \E rec : Become(p, rec) /\ rec.pc = pc
  <2>1. PICK rec : rec = [proc[p] EXCEPT !.pc = pc]
    OBVIOUS
  <2> QED BY <1>1, <1>6, <2>1 DEF Goto, Records
<1>7. ASSUME Goto(p, "exec"), ~Watching(p), UNCHANGED box, row'.managed = row.managed, row'.present = row.present,
             trust' = IF Alone(p) THEN trust ELSE "stale"
      PROVE  Calm'
  <2>1. PICK rec : Become(p, rec) /\ rec.pc = "exec"
    BY <1>6, <1>7 DEF PhasePCs
  <2>2. trust' # "stale" => Alone(p) /\ trust' = trust
    BY <1>7
  <2>3. trust' = "good" /\ row.present => Listed(row.managed)
    BY <1>7, <2>2, Relies
  <2>4. Sound(p)'
    BY <1>3, <1>7, <2>1, <2>3 DEF Sound, At, Listed, Running
  <2>5. rec.pc \in WatchPCs
    BY <2>1 DEF WatchPCs
  <2> QED BY <2>1, <2>2, <2>4, <2>5, Moved
<1>8. CASE trust' = "stale"
  BY <1>8 DEF Calm
<1>9. ASSUME NEW phase \in Phases, PhaseBegin(p, phase) PROVE Calm'
  <2>1. ~Watching(p) /\ UNCHANGED <<row, box, trust>>
    BY <1>9 DEF PhaseBegin, At, Watching, StopPCs
  <2> QED BY <1>4, <1>5, <1>9, <2>1 DEF PhaseBegin
<1>10. ASSUME ActBegin(p), trust' # "stale" PROVE Calm'
  <2>1. ~Watching(p) /\ UNCHANGED <<row, box>>
    BY <1>10 DEF ActBegin, At, Watching, StopPCs
  <2>2. CASE Goto(p, "noteRead") /\ Undisturbed
    <3>1. PICK rec : Become(p, rec) /\ rec.pc = "noteRead"
      BY <1>6, <2>2 DEF PhasePCs
    <3>2. rec.pc \notin WatchPCs
      BY <3>1 DEF WatchPCs, StopPCs
    <3> QED BY <1>4, <2>1, <2>2, <3>1, <3>2 DEF Undisturbed
  <2>3. CASE Goto(p, "exec") /\ Join(p)
    BY <1>7, <2>1, <2>3 DEF Join
  <2> QED BY <1>10, <2>2, <2>3 DEF ActBegin, Fault
<1>11. CASE NoteRead(p)
  <2>1. PICK rec : rec = [proc[p] EXCEPT !.pc = "noteSave", !.seen = OpsOf(row)]
    OBVIOUS
  <2>2. rec.pc \notin WatchPCs
    BY <1>1, <2>1 DEF Records, WatchPCs, StopPCs
  <2>3. Become(p, rec) /\ UNCHANGED <<row, box, trust>> /\ ~Watching(p)
    BY <1>11, <2>1 DEF NoteRead, At, Watching, StopPCs
  <2> QED BY <1>4, <2>2, <2>3
<1>12. CASE NoteSave(p)
  <2>1. /\ ~Watching(p) /\ UNCHANGED box
        /\ row'.managed = row.managed /\ row'.present = row.present
    BY <1>1, <1>12 DEF NoteSave, At, Watching, StopPCs, Rows
  <2>2. CASE Return(p) /\ UNCHANGED trust
    BY <1>2, <1>4, <2>1, <2>2 DEF Return
  <2>3. CASE Goto(p, "exec") /\ trust' = IF Alone(p) THEN trust ELSE "stale"
    BY <1>7, <2>1, <2>3
  <2> QED BY <1>12, <2>2, <2>3 DEF NoteSave
<1>13. ASSUME ActExec(p), trust' # "stale" PROVE Calm'
  <2>0. PICK a : a = Action(p)
    OBVIOUS
  <2>1. /\ box' = [box EXCEPT ![a.container] = IF Effects(a).run = {} THEN "absent" ELSE "running"]
        /\ Goto(p, "trackRead") /\ UNCHANGED <<row, trust>>
    BY <1>13, <2>0 DEF ActExec, Undisturbed, Fault
  <2>2. PICK rec : rec = [proc[p] EXCEPT !.pc = "trackRead"]
    OBVIOUS
  <2>3. rec.pc = "trackRead" /\ rec.todo = proc[p].todo /\ Become(p, rec) /\ proc'[p] = rec
    BY <1>1, <1>3, <2>1, <2>2 DEF Records, Goto
  <2>4. Action(p)' = a /\ Watching(p) /\ At(p, "exec")
    BY <1>13, <2>0, <2>3 DEF Action, ActExec, At, Watching
  <2>5. ASSUME Listed(row.managed), row.managed \subseteq Containers
        PROVE  /\ (row.managed \cup Effects(a).run) \ Kept(Effects(a).rm, Effects(a).run) \subseteq Running'
               /\ Running' \cap Icopa \subseteq (row.managed \cup Effects(a).run) \ Kept(Effects(a).rm, Effects(a).run)
    <3>1. Effects(a).rm = {a.container} /\ Effects(a).run \in {{}, {a.container}}
      BY DEF Effects
    <3>2. a.container \in Containers
      <4>1. proc[p].todo \in Seq(Actions) /\ proc[p].todo # <<>>
        BY <1>1, <2>4 DEF Shape, Fits, At, PhasePCs, Records
      <4>2. Head(proc[p].todo) \in Actions
        BY <4>1
      <4> QED BY <2>0, <4>2 DEF Action, Actions
    <3>3. box \in [Containers -> {"absent", "stopped", "running"}]
      BY DEF TypeOK
    <3>4. CASE Effects(a).run = {}
      <4>1. Running' = Running \ {a.container}
        BY <2>1, <3>2, <3>3, <3>4 DEF Running
      <4>2. (row.managed \cup Effects(a).run) \ Kept(Effects(a).rm, Effects(a).run) = row.managed \ {a.container}
        BY <3>1, <3>4 DEF Kept
      <4> QED BY <2>5, <4>1, <4>2 DEF Listed
    <3>5. CASE Effects(a).run = {a.container}
      <4>1. Running' = Running \cup {a.container}
        BY <2>1, <3>2, <3>3, <3>5 DEF Running
      <4>2. (row.managed \cup Effects(a).run) \ Kept(Effects(a).rm, Effects(a).run) = row.managed \cup {a.container}
        BY <3>1, <3>5 DEF Kept
      <4> QED BY <2>5, <4>1, <4>2 DEF Listed
    <3> QED BY <3>1, <3>4, <3>5
  <2>6. Sound(p) /\ trust = "good" /\ row.present => Listed(After(p, row.managed))'
    <3>1. row.managed \subseteq Containers
      BY <1>1 DEF Rows
    <3>2. Sound(p) /\ trust = "good" /\ row.present => Listed(row.managed)
      BY <2>4 DEF Sound, At, SettledPCs
    <3> QED BY <2>1, <2>4, <2>5, <3>1, <3>2 DEF Listed, After, Running
  <2>7. Sound(p) => Sound(p)'
    BY <2>1, <2>3, <2>6 DEF Sound, At, SettledPCs
  <2>8. rec.pc \in WatchPCs
    BY <2>3 DEF WatchPCs
  <2> QED BY <2>1, <2>3, <2>4, <2>7, <2>8, WatcherMoves
<1>14. CASE TrackRead(p)
  <2>1. PICK rec : rec = [proc[p] EXCEPT !.pc = "trackSave", !.seen = ManagedOf(row)]
    OBVIOUS
  <2>2. UNCHANGED <<row, box, trust>> /\ At(p, "trackRead") /\ Watching(p) /\ Become(p, rec)
    BY <1>14, <2>1 DEF TrackRead, At, Watching
  <2>3. /\ rec.pc = "trackSave" /\ rec.todo = proc[p].todo
        /\ rec.seen.managed = row.managed /\ rec.seen.present = row.present /\ proc'[p] = rec
    BY <1>1, <1>3, <2>1, <2>2 DEF Records, ManagedOf, Rows
  <2>4. Action(p)' = Action(p)
    BY <2>3 DEF Action
  <2>5. Sound(p) => Sound(p)'
    BY <2>2, <2>3, <2>4 DEF Sound, At, Listed, Running, SettledPCs, After
  <2>6. rec.pc \in WatchPCs
    BY <2>3 DEF WatchPCs
  <2> QED BY <2>2, <2>3, <2>5, <2>6, WatcherMoves
<1>15. CASE TrackSave(p)
  <2>1. UNCHANGED <<box, trust>> /\ At(p, "trackSave") /\ Watching(p)
    BY <1>15 DEF TrackSave, At, Watching
  <2>2. row' = IF row.present /\ proc[p].seen.present THEN [row EXCEPT !.managed = After(p, proc[p].seen.managed)] ELSE row
    BY <1>15 DEF TrackSave, After
  <2>3. Sound(p) /\ trust = "good" /\ row'.present => Listed(row.managed)'
    <3>1. row'.present => row.present
      BY <1>1, <2>2 DEF Rows
    <3>2. Sound(p) /\ trust = "good" /\ row.present => proc[p].seen.present /\ Listed(After(p, proc[p].seen.managed))
      BY <2>1 DEF Sound
    <3>3. row.present /\ proc[p].seen.present => row'.managed = After(p, proc[p].seen.managed)
      BY <1>1, <2>2 DEF Rows
    <3> QED BY <2>1, <3>1, <3>2, <3>3 DEF Listed, Running
  <2>4. \E rec : Become(p, rec) /\ rec.pc \notin WatchPCs
    BY <1>2, <1>5, <1>15 DEF TrackSave, Return
  <2> QED BY <2>1, <2>3, <2>4, WatcherMoves
<1> QED BY <1>8, <1>9, <1>10, <1>11, <1>12, <1>13, <1>14, <1>15 DEF PhaseStep

(* Every step keeps what the watchers rely on.                             *)
THEOREM CalmKept == TypeOK /\ Shape /\ Calm /\ [Next]_vars => Calm'
<1> SUFFICES ASSUME TypeOK, Shape, Calm, [Next]_vars PROVE Calm'
  OBVIOUS
<1>1. Handlers \subseteq Procs /\ Workers \subseteq Procs /\ row \in Rows
  BY DEF Procs, TypeOK
<1>2. CASE trust' = "stale"
  BY <1>2 DEF Calm
<1>3. ASSUME UNCHANGED <<box, trust, proc>>, row'.managed = row.managed, row'.present = row.present
      PROVE  Calm'
  <2>1. \A q \in Procs : (Watching(q)' <=> Watching(q)) /\ (Watching(q) => proc'[q] = proc[q])
    BY <1>3 DEF Watching
  <2> QED BY <1>3, <2>1, Unmoved
<1>4. CASE UNCHANGED vars
  BY <1>3, <1>4 DEF vars
<1>5. ASSUME NEW key \in BOOLEAN, Upload(key), trust' # "stale" PROVE Calm'
  <2>1. UNCHANGED <<box, trust, proc>> /\ row'.managed = row.managed /\ row'.present = row.present
    BY <1>1, <1>5 DEF Upload, Rows
  <2> QED BY <1>3, <2>1
<1>6. ASSUME NEW t \in Tasks, Poll(t) PROVE Calm'
  BY <1>3, <1>6 DEF Poll
<1>7. ASSUME NEW h \in Handlers, Request(h) PROVE Calm'
  BY <1>1, <1>7, CheckCalm, RequestCalm DEF Request
<1>8. ASSUME NEW p \in Procs, Step(p) PROVE Calm'
  BY <1>8, CheckCalm, RequestCalm, TaskCalm, PhaseCalm DEF Step
<1>9. ASSUME NEW w \in Workers, NEW t \in Tasks, Deliver(w, t) PROVE Calm'
  BY <1>9, DeliverCalm
<1>10. ASSUME NEW w \in Workers, NEW phase \in Phases, PhaseBegin(w, phase) PROVE Calm'
  BY <1>1, <1>10, PhaseCalm
<1>11. ASSUME \/ Delete
              \/ \E w \in Workers : Crash(w)
              \/ \E c \in Containers, state \in {"absent", "stopped", "running"} : Elsewhere(c, state)
       PROVE  trust' = "stale"
  BY <1>11 DEF Delete, Crash, Elsewhere, Fault
<1> QED BY <1>2, <1>4, <1>5, <1>6, <1>7, <1>8, <1>9, <1>10, <1>11 DEF Next

(* After a check that nobody overlapped, and as long as writers follow one *)
(* another and all goes well, the row lists what runs                      *)
(* (ListedIsRunning), whatever the phases and the stop requests are.       *)
THEOREM ListedAfterCheck == Spec => []ListedIsRunning
<1>1. Init => Calm
  <2> SUFFICES ASSUME Init PROVE Calm
    OBVIOUS
  <2>1. row.managed = {} /\ Running = {}
    BY RowTypes DEF Init, Rows, NoRow, Running
  <2>2. \A p \in Procs : ~Watching(p)
    BY IdleType DEF Init, Watching, StopPCs
  <2> QED BY <2>1, <2>2 DEF Calm, Listed
<1>2. Calm => ListedIsRunning
  BY DEF Calm, ListedIsRunning, Listed
<1> QED BY <1>1, <1>2, TypesAtFirst, TypesKept, CalmKept, PTL DEF Spec

=============================================================================
