----------------------- MODULE ScenarioValidationProofs -----------------------
(***************************************************************************)
(* Theorems of ScenarioValidation for every number of threads, workers,    *)
(* runs and scopes: its types, that the stored verdict is the one of the   *)
(* stored checks, that only probes that succeeded are offered, and for one *)
(* thread that a scope is validated once at a time.                        *)
(***************************************************************************)
EXTENDS ScenarioValidation, TLAPS

---------------------------------------------------------------------------
(* The verdict *)

(* The stored verdict is the one the stored checks imply, whoever wrote    *)
(* the row last and however old the copy was he wrote from.                *)
THEOREM VerdictIsTrue == Spec => []VerdictAgrees
<1>1. Init => VerdictAgrees
  BY DEF Init, VerdictAgrees, Fresh, Stored
<1>2. VerdictAgrees /\ [Next]_vars => VerdictAgrees'
  <2> SUFFICES ASSUME VerdictAgrees, [Next]_vars PROVE VerdictAgrees'
    OBVIOUS
  <2>1. CASE scen' = scen
    BY <2>1 DEF VerdictAgrees
  <2>2. ASSUME NEW c, scen' = Stored(c) PROVE VerdictAgrees'
    BY <2>2 DEF VerdictAgrees, Stored
  <2>3. CASE scen' = [Fresh EXCEPT !.present = FALSE]
    BY <2>3 DEF VerdictAgrees, Fresh, Stored
  <2>4. \/ scen' = scen \/ (\E c : scen' = Stored(c)) \/ scen' = [Fresh EXCEPT !.present = FALSE]
    <3>1. ASSUME NEW h \in Handlers, Request(h) PROVE scen' = scen \/ scen' = [Fresh EXCEPT !.present = FALSE]
      BY <3>1 DEF Request, UploadRead, Delete, CleanRead, ValidateRead
    <3>2. ASSUME NEW h \in Handlers, HandlerStep(h) PROVE scen' = scen \/ \E c : scen' = Stored(c)
      BY <3>2 DEF HandlerStep, UploadSave, CleanCancel, CleanReset, LookupNone, Release, Send, Refused,
         SaveTask, Mark, CleanRequest, Create, LookupFound, SaveChecks, Fresh
    <3>3. ASSUME NEW p \in Procs, TaskStep(p) PROVE scen' = scen \/ \E c : scen' = Stored(c)
      BY <3>3 DEF TaskStep, TaskLosesRow, TaskLoad, TaskMarkScenario, TaskMarkRun, CollectSelect,
         TaskSaveScenario, TaskSaveRun, TaskReturn, TaskRaise, TaskFailScenario, TaskFailRun, CollectDone, TaskCheck,
         SaveChecks
    <3>4. ASSUME NEW w \in Workers, Crash(w) \/ \E r \in RunIds : Deliver(w, r) PROVE scen' = scen
      BY <3>4 DEF Crash, Deliver
    <3>5. CASE UNCHANGED vars
      BY <3>5 DEF vars
    <3> QED BY <3>1, <3>2, <3>3, <3>4, <3>5 DEF Next
  <2> QED BY <2>1, <2>2, <2>3, <2>4
<1> QED BY <1>1, <1>2, PTL DEF Spec

---------------------------------------------------------------------------
(* Types *)

(* What a process holds at each of its places.                             *)
RunPCs == TaskPCs \cup AfterPCs \cup {"cancel", "release", "send", "refused", "saveTask", "mark"}
Holds(p, rec) ==
  /\ rec.pc \in RunPCs => rec.run \in RunIds
  /\ p \in Workers => rec.pc \in {"idle"} \cup TaskPCs \cup AfterPCs
  /\ rec.pc = "collecting" => rec.src \in RunIds
Held == \A p \in Procs : Holds(p, proc[p])

(* The verdict of three check statuses is a status of a validation.        *)
LEMMA StoredType ==
  ASSUME NEW c \in Checks
  PROVE  Stored(c) \in Row
<1> DEFINE in == {c[k] : k \in Kinds}
<1>1. Computed(c) \in ValidationStatus
  <2>1. CASE "RUNNING" \in in
    BY <2>1 DEF Computed, ValidationStatus
  <2>2. CASE "RUNNING" \notin in /\ "PENDING" \in in
    BY <2>2 DEF Computed, ValidationStatus
  <2>3. CASE "RUNNING" \notin in /\ "PENDING" \notin in
    BY <2>3 DEF Computed, ValidationStatus
  <2> QED BY <2>1, <2>2, <2>3
<1> QED BY <1>1 DEF Stored, Row

(* Fresh checks and copies with some statuses replaced are checks.         *)
LEMMA ChecksType ==
  /\ Unknown \in Checks
  /\ \A c \in Checks, kinds \in SUBSET Kinds, s \in CheckStatus : With(c, kinds, s) \in Checks
BY DEF Unknown, Checks, CheckStatus, With

(* A blank run row is a row.                                               *)
LEMMA BlankType ==
  ASSUME NEW s \in RunStatus \cup {"UNUSED", "DELETED"}
  PROVE  Blank(s) \in RunRows /\ Blank(s).scope \in AllScopes
<1>1. [kinds |-> Kinds, phase |-> "none", edge |-> "all"] \in AllScopes
  BY DEF AllScopes, Kinds, Phases, Edges
<1>2. ASSUME NEW scope \in AllScopes
      PROVE  [st |-> s, task |-> FALSE, given |-> "no", collect |-> FALSE, scope |-> scope] \in RunRows
  BY DEF RunRows
<1>3. Blank(s).scope = [kinds |-> Kinds, phase |-> "none", edge |-> "all"]
  BY DEF Blank
<1> QED BY <1>1, <1>2, <1>3 DEF Blank

(* An idle process is well formed.                                         *)
LEMMA IdleType == Idle \in ProcRecords
<1>1. Blank("UNUSED").scope \in AllScopes
  BY BlankType
<1> QED BY <1>1, ChecksType DEF Idle, ProcRecords

(* A row or a process that is replaced by a well formed one.               *)
LEMMA Replaced ==
  ASSUME TypeOK
  PROVE  /\ \A p \in Procs : \A rec \in ProcRecords : Become(p, rec) => proc' \in [Procs -> ProcRecords]
         /\ \A p \in Procs : Return(p) => proc' \in [Procs -> ProcRecords]
         /\ \A r \in RunIds : \A rr \in RunRows : SaveRun(r, rr) => vruns' \in [RunIds -> RunRows]
BY IdleType DEF TypeOK, Become, Return, SaveRun

(* A run whose status is saved, alone or with what gave it up.             *)
LEMMA RowType ==
  ASSUME NEW row \in RunRows, NEW st \in RunStatus
  PROVE  /\ [row EXCEPT !.st = st] \in RunRows
         /\ \A given \in {"no", "clean", "stale"} : [row EXCEPT !.st = st, !.given = given] \in RunRows
         /\ \A collect \in BOOLEAN : [row EXCEPT !.st = st, !.collect = collect] \in RunRows
         /\ \A task \in BOOLEAN, collect \in BOOLEAN :
              [row EXCEPT !.st = st, !.task = task, !.collect = collect] \in RunRows
BY DEF RunRows

(* A run of which one other column is saved.                               *)
LEMMA ColumnType ==
  ASSUME NEW row \in RunRows, NEW b \in BOOLEAN
  PROVE  [row EXCEPT !.task = b] \in RunRows /\ [row EXCEPT !.collect = b] \in RunRows
BY DEF RunRows

(* The four shared sets of a run keep their type in a step that leaves them *)
(* alone, and so do the other variables.                                    *)
Typed == scen' \in Row /\ vruns' \in [RunIds -> RunRows] /\ proc' \in [Procs -> ProcRecords]
Sets == queue' \subseteq RunIds /\ revoked' \subseteq RunIds /\ ended' \subseteq RunIds /\ dead' \subseteq RunIds

(* Every request step keeps the types.                                     *)
LEMMA RequestTypes ==
  ASSUME TypeOK, Held, NEW h \in Handlers, Request(h) \/ HandlerStep(h)
  PROVE  Typed /\ Sets
<1> USE DEF Typed, Sets
<1>0. /\ h \in Procs /\ proc[h] \in ProcRecords /\ scen \in Row /\ scen.checks \in Checks
      /\ vruns \in [RunIds -> RunRows] /\ proc \in [Procs -> ProcRecords]
      /\ queue \subseteq RunIds /\ revoked \subseteq RunIds /\ ended \subseteq RunIds /\ dead \subseteq RunIds
      /\ Fresh \in Row /\ ActiveRuns \in SUBSET RunIds
  BY StoredType, ChecksType DEF TypeOK, Procs, Row, Fresh, ActiveRuns
<1>1. ASSUME NEW pc \in {"idle"} \cup RequestPCs \cup TaskPCs PROVE [proc[h] EXCEPT !.pc = pc] \in ProcRecords
  BY <1>0 DEF ProcRecords
<1>2. ASSUME NEW pc \in {"idle"} \cup RequestPCs \cup TaskPCs, Goto(h, pc) PROVE proc' \in [Procs -> ProcRecords]
  BY <1>0, <1>1, <1>2 DEF Goto
<1>3. Return(h) => proc' \in [Procs -> ProcRecords]
  BY <1>0, Replaced
<1>4. CASE UploadRead(h)
  BY <1>0, <1>2, <1>4 DEF UploadRead, RequestPCs, broker
<1>5. CASE Delete(h)
  <2>1. \A r \in RunIds : (IF r \in Live THEN Blank("DELETED") ELSE vruns[r]) \in RunRows
    BY <1>0, BlankType
  <2>2. [Fresh EXCEPT !.present = FALSE] \in Row
    BY <1>0 DEF Row
  <2> QED BY <1>0, <1>5, <2>1, <2>2 DEF Delete, broker
<1>6. CASE CleanRead(h)
  <2>1. [Idle EXCEPT !.pc = "clean", !.todo = ActiveRuns, !.known = {r \in ActiveRuns : vruns[r].task}] \in ProcRecords
    <3>1. {r \in ActiveRuns : vruns[r].task} \in SUBSET RunIds
      BY <1>0
    <3> QED BY <1>0, <3>1, IdleType DEF ProcRecords, RequestPCs
  <2> QED BY <1>0, <1>6, <2>1, Replaced DEF CleanRead, broker
<1>7. CASE \E scope \in Scopes : ValidateRead(h, scope)
  <2>1. PICK scope \in Scopes : ValidateRead(h, scope)
    BY <1>7
  <2>2. [Idle EXCEPT !.pc = "lookup", !.scope = scope, !.seen = scen.checks] \in ProcRecords
    <3>1. scope \in AllScopes
      BY InputsAssumption
    <3> QED BY <1>0, <3>1, IdleType DEF ProcRecords, RequestPCs
  <2> QED BY <1>0, <2>1, <2>2, Replaced DEF ValidateRead, broker
<1>8. CASE UploadSave(h)
  <2>1. proc' \in [Procs -> ProcRecords]
    BY <1>2, <1>3, <1>8 DEF UploadSave, RequestPCs
  <2> QED BY <1>0, <1>8, <2>1 DEF UploadSave, broker
<1>9. ASSUME NEW r \in RunIds, CleanRequest(h, r) PROVE Typed /\ Sets
  <2>1. [vruns[r] EXCEPT !.st = "CANCEL_REQUESTED"] \in RunRows
    BY <1>0, RowType DEF RunStatus, Active
  <2>2. [proc[h] EXCEPT !.pc = "cancel", !.run = r, !.todo = @ \ {r}] \in ProcRecords
    BY <1>0 DEF ProcRecords, RequestPCs
  <2> QED BY <1>0, <1>3, <1>9, <2>1, <2>2, Replaced DEF CleanRequest
<1>10. CASE CleanCancel(h)
  <2> DEFINE r == proc[h].run
  <2>1. r \in RunIds
    BY <1>0, <1>10 DEF CleanCancel, At, Held, Holds, RunPCs, TaskPCs, AfterPCs
  <2>2. [vruns[r] EXCEPT !.st = "CANCELED", !.given = "clean"] \in RunRows
    BY <1>0, <2>1, RowType DEF RunStatus
  <2> QED BY <1>0, <1>2, <1>3, <1>10, <2>1, <2>2, Replaced DEF CleanCancel, RequestPCs, broker
<1>11. CASE CleanReset(h)
  BY <1>0, <1>3, <1>11 DEF CleanReset, broker
<1>12. CASE LookupNone(h)
  BY <1>0, <1>2, <1>12 DEF LookupNone, RequestPCs, broker
<1>13. ASSUME NEW r \in RunIds, NEW recent \in BOOLEAN, LookupFound(h, r, recent) PROVE Typed /\ Sets
  <2>1. [proc[h] EXCEPT !.pc = "release", !.run = r] \in ProcRecords
    BY <1>0 DEF ProcRecords, RequestPCs
  <2>2. proc' \in [Procs -> ProcRecords]
    BY <1>0, <1>3, <1>13, <2>1, Replaced DEF LookupFound
  <2> QED BY <1>0, <1>13, <2>2 DEF LookupFound, broker
<1>14. CASE Release(h)
  <2> DEFINE r == proc[h].run
  <2>1. r \in RunIds
    BY <1>0, <1>14 DEF Release, At, Held, Holds, RunPCs, TaskPCs, AfterPCs
  <2>2. [vruns[r] EXCEPT !.st = "FAILED", !.given = "stale"] \in RunRows
    BY <1>0, <2>1, RowType DEF RunStatus
  <2>3. [proc[h] EXCEPT !.pc = "create", !.run = NoRun] \in ProcRecords
    BY <1>0 DEF ProcRecords, RequestPCs
  <2> QED BY <1>0, <1>3, <1>14, <2>1, <2>2, <2>3, Replaced DEF Release, broker
<1>15. ASSUME NEW r \in RunIds, Create(h, r) PROVE Typed /\ Sets
  <2>1. [Blank("PENDING") EXCEPT !.scope = proc[h].scope] \in RunRows
    <3>1. Blank("PENDING") \in RunRows
      BY BlankType DEF RunStatus, Active
    <3>2. proc[h].scope \in AllScopes
      BY <1>0 DEF ProcRecords
    <3> QED BY <3>1, <3>2 DEF RunRows
  <2>2. [proc[h] EXCEPT !.pc = "send", !.run = r] \in ProcRecords
    BY <1>0 DEF ProcRecords, RequestPCs
  <2> QED BY <1>0, <1>3, <1>15, <2>1, <2>2, Replaced DEF Create, broker
<1>16. CASE Send(h)
  <2>1. proc[h].run \in RunIds
    BY <1>0, <1>16 DEF Send, At, Held, Holds, RunPCs, TaskPCs, AfterPCs
  <2>2. proc' \in [Procs -> ProcRecords]
    BY <1>2, <1>16 DEF Send, RequestPCs
  <2> QED BY <1>0, <1>16, <2>1, <2>2 DEF Send
<1>17. CASE Refused(h)
  <2> DEFINE r == proc[h].run
  <2>1. r \in RunIds
    BY <1>0, <1>17 DEF Refused, At, Held, Holds, RunPCs, TaskPCs, AfterPCs
  <2>2. [vruns[r] EXCEPT !.st = "FAILED"] \in RunRows
    BY <1>0, <2>1, RowType DEF RunStatus
  <2>3. TaskOf(r) \in ProcRecords
    <3>1. vruns[r].scope \in AllScopes
      BY <1>0, <2>1 DEF RunRows
    <3> QED BY <2>1, <3>1, IdleType DEF TaskOf, ProcRecords, TaskPCs
  <2> QED BY <1>0, <1>3, <1>17, <2>1, <2>2, <2>3, Replaced DEF Refused, broker
<1>18. CASE SaveTask(h)
  <2> DEFINE r == proc[h].run
  <2>1. r \in RunIds
    BY <1>0, <1>18 DEF SaveTask, At, Held, Holds, RunPCs, TaskPCs, AfterPCs
  <2>2. [vruns[r] EXCEPT !.task = TRUE] \in RunRows
    BY <1>0, <2>1, ColumnType
  <2> QED BY <1>0, <1>2, <1>3, <1>18, <2>1, <2>2, Replaced DEF SaveTask, RequestPCs, broker
<1>19. CASE Mark(h)
  <2>1. With(proc[h].seen, proc[h].scope.kinds, "PENDING") \in Checks
    <3>1. proc[h].seen \in Checks /\ proc[h].scope.kinds \in SUBSET Kinds
      BY <1>0 DEF ProcRecords, AllScopes
    <3> QED BY <3>1, ChecksType DEF CheckStatus
  <2> QED BY <1>0, <1>3, <1>19, <2>1, StoredType DEF Mark, SaveChecks, broker
<1> QED
  BY <1>4, <1>5, <1>6, <1>7, <1>8, <1>9, <1>10, <1>11, <1>12, <1>13, <1>14, <1>15, <1>16, <1>17, <1>18, <1>19
  DEF Request, HandlerStep

(* Every step of a task, of the broker and of a dying worker keeps them.   *)
LEMMA TaskTypes ==
  ASSUME TypeOK, Held, NEW p \in Procs, TaskStep(p)
  PROVE  Typed /\ Sets
<1> USE DEF Typed, Sets
<1> DEFINE r == proc[p].run
           asked == proc[p].scope.kinds
<1>0. /\ proc[p] \in ProcRecords /\ scen \in Row /\ scen.checks \in Checks
      /\ vruns \in [RunIds -> RunRows] /\ proc \in [Procs -> ProcRecords]
      /\ queue \subseteq RunIds /\ revoked \subseteq RunIds /\ ended \subseteq RunIds /\ dead \subseteq RunIds
      /\ proc[p].seen \in Checks /\ asked \in SUBSET Kinds
  BY DEF TypeOK, Row, ProcRecords, AllScopes
<1>1. proc[p].pc \in TaskPCs \cup AfterPCs /\ r \in RunIds
  <2>1. proc[p].pc \in TaskPCs \cup AfterPCs
    BY <1>0 DEF TaskStep, TaskLosesRow, TaskLoad, TaskMarkScenario, TaskMarkRun, CollectSelect, TaskSaveScenario,
       TaskSaveRun, TaskReturn, TaskRaise, TaskFailScenario, TaskFailRun, CollectDone, TaskCheck, InTask, At,
       TaskPCs, AfterPCs
  <2> QED BY <2>1 DEF Held, Holds, RunPCs
<1>2. EndTask(p) => proc' \in [Procs -> ProcRecords] /\ queue' \subseteq RunIds /\ revoked' \subseteq RunIds /\ ended' \subseteq RunIds
  BY <1>0, <1>1, Replaced DEF EndTask
<1>3. \A pc \in TaskPCs \cup AfterPCs :
        /\ [proc[p] EXCEPT !.pc = pc] \in ProcRecords
        /\ \A seen \in Checks : [proc[p] EXCEPT !.pc = pc, !.seen = seen] \in ProcRecords
  BY <1>0 DEF ProcRecords
<1>4. ASSUME NEW k \in Kinds, NEW ok \in BOOLEAN PROVE Checked(p, k, ok) \in ProcRecords
  <2>1. proc[p].left \ {k} \in SUBSET Kinds /\ (IF ok THEN proc[p].bad ELSE proc[p].bad \cup {k}) \in SUBSET Kinds
    BY <1>0 DEF ProcRecords
  <2> QED BY <1>0, <2>1 DEF Checked, ProcRecords, TaskPCs
<1>5. CASE TaskLosesRow(p)
  BY <1>0, <1>2, <1>5 DEF TaskLosesRow
<1>6. CASE TaskLoad(p)
  <2>1. [proc[p] EXCEPT !.pc = "markScenario", !.seen = scen.checks] \in ProcRecords
    BY <1>0, <1>3 DEF TaskPCs
  <2> QED BY <1>0, <1>6, <2>1, Replaced DEF TaskLoad, broker
<1>7. CASE TaskMarkScenario(p)
  <2>1. With(proc[p].seen, asked, "RUNNING") \in Checks
    BY <1>0, ChecksType DEF CheckStatus
  <2>2. [proc[p] EXCEPT !.pc = "markRun", !.seen = With(proc[p].seen, asked, "RUNNING")] \in ProcRecords
    BY <1>3, <2>1 DEF TaskPCs
  <2> QED BY <1>0, <1>7, <2>1, <2>2, Replaced, StoredType DEF TaskMarkScenario, SaveChecks, broker
<1>8. CASE TaskMarkRun(p)
  <2>1. (vruns[r].task \/ p \in Workers) \in BOOLEAN /\ Probing(proc[p].scope) \in BOOLEAN
    BY DEF Probing
  <2>2. [vruns[r] EXCEPT !.st = "RUNNING", !.task = @ \/ p \in Workers, !.collect = Probing(proc[p].scope)] \in RunRows
    BY <1>0, <1>1, <2>1, RowType DEF RunStatus, Active
  <2>3. [proc[p] EXCEPT !.pc = "check", !.left = asked] \in ProcRecords
    BY <1>0 DEF ProcRecords, TaskPCs
  <2> QED BY <1>0, <1>1, <1>8, <2>2, <2>3, Replaced DEF TaskMarkRun, broker
<1>9. ASSUME NEW k \in Kinds, NEW ok \in BOOLEAN, TaskCheck(p, k, ok) PROVE Typed /\ Sets
  BY <1>0, <1>4, <1>9, Replaced DEF TaskCheck, broker
<1>10. CASE CollectSelect(p)
  <2>1. "actions" \in Kinds /\ Checked(p, "actions", FALSE) \in ProcRecords
    BY <1>4 DEF Kinds
  <2>2. ASSUME NEW q \in Sources(r) PROVE [proc[p] EXCEPT !.pc = "collecting", !.src = q] \in ProcRecords
    <3>1. q \in RunIds
      BY DEF Sources, Live
    <3> QED BY <1>0, <3>1 DEF ProcRecords, TaskPCs
  <2>3. proc' \in [Procs -> ProcRecords]
    BY <1>10, <2>1, <2>2, Replaced DEF CollectSelect
  <2> QED BY <1>0, <1>10, <2>3 DEF CollectSelect, broker
<1>11. ASSUME NEW ok \in BOOLEAN, CollectDone(p, ok) PROVE Typed /\ Sets
  <2> DEFINE q == proc[p].src
  <2>1. q \in RunIds
    BY <1>11 DEF CollectDone, InTask, At, Held, Holds
  <2>2. [vruns[q] EXCEPT !.collect = FALSE] \in RunRows
    BY <1>0, <2>1, ColumnType
  <2>3. Checked(p, "actions", ok) \in ProcRecords
    BY <1>4 DEF Kinds
  <2> QED BY <1>0, <1>11, <2>1, <2>2, <2>3, Replaced DEF CollectDone, broker
<1>12. CASE TaskSaveScenario(p)
  <2> DEFINE found == [k \in Kinds |-> IF k \notin asked THEN proc[p].seen[k]
                                       ELSE IF k \in proc[p].bad THEN "FAIL" ELSE "PASS"]
  <2>1. found \in Checks
    BY <1>0 DEF Checks, CheckStatus
  <2>2. [proc[p] EXCEPT !.pc = "saveRun", !.seen = found] \in ProcRecords
    BY <1>3, <2>1 DEF TaskPCs
  <2>3. scen' = Stored(found) /\ Become(p, [proc[p] EXCEPT !.pc = "saveRun", !.seen = found])
    BY <1>12 DEF TaskSaveScenario, SaveChecks
  <2> HIDE DEF found
  <2> QED BY <1>0, <1>12, <2>1, <2>2, <2>3, Replaced, StoredType DEF TaskSaveScenario, broker
<1>13. \A ok \in BOOLEAN : Offered(vruns[r], proc[p].scope, ok) \in BOOLEAN
  <2>1. vruns[r].collect \in BOOLEAN
    BY <1>0, <1>1 DEF RunRows
  <2> QED BY <2>1 DEF Offered
<1>14. CASE TaskSaveRun(p)
  <2>1. [vruns[r] EXCEPT !.st = IF proc[p].bad = {} THEN "SUCCEEDED" ELSE "FAILED",
                         !.collect = Offered(vruns[r], proc[p].scope, proc[p].bad = {})] \in RunRows
    BY <1>0, <1>1, <1>13, RowType DEF RunStatus
  <2>2. proc' \in [Procs -> ProcRecords]
    BY <1>0, <1>3, <1>14 DEF TaskSaveRun, Goto, AfterPCs
  <2> QED BY <1>0, <1>1, <1>14, <2>1, <2>2, Replaced DEF TaskSaveRun, broker
<1>15. CASE TaskRaise(p)
  <2>1. \A pc \in {"failScenario", "undoScenario"} :
          [proc[p] EXCEPT !.pc = pc, !.src = NoRun, !.left = {}, !.bad = {}] \in ProcRecords
    BY <1>0 DEF ProcRecords, TaskPCs, AfterPCs
  <2> QED BY <1>0, <1>15, <2>1, Replaced DEF TaskRaise, broker
<1>16. CASE TaskFailScenario(p)
  <2>1. With(proc[p].seen, asked, "FAIL") \in Checks
    BY <1>0, ChecksType DEF CheckStatus
  <2>2. proc' \in [Procs -> ProcRecords]
    BY <1>0, <1>3, <1>16, ChecksType, Replaced DEF TaskFailScenario, TaskPCs, AfterPCs
  <2> QED BY <1>0, <1>16, <2>1, <2>2, StoredType DEF TaskFailScenario, SaveChecks, broker
<1>17. CASE TaskFailRun(p)
  <2>1. [vruns[r] EXCEPT !.st = "FAILED", !.collect = Offered(vruns[r], proc[p].scope, FALSE)] \in RunRows
    BY <1>0, <1>1, <1>13, RowType DEF RunStatus
  <2> QED BY <1>0, <1>1, <1>2, <1>17, <2>1, Replaced DEF TaskFailRun
<1>18. CASE TaskReturn(p)
  BY <1>0, <1>2, <1>18 DEF TaskReturn
<1> QED
  BY <1>5, <1>6, <1>7, <1>8, <1>9, <1>10, <1>11, <1>12, <1>14, <1>15, <1>16, <1>17, <1>18 DEF TaskStep

(* A message that is taken, or discarded, and a worker that dies.          *)
LEMMA WorkerTypes ==
  ASSUME TypeOK, Held, NEW w \in Workers, Crash(w) \/ \E r \in RunIds : Deliver(w, r)
  PROVE  Typed /\ Sets
<1> USE DEF Typed, Sets
<1>0. /\ w \in Procs /\ scen \in Row /\ vruns \in [RunIds -> RunRows] /\ proc \in [Procs -> ProcRecords]
      /\ queue \subseteq RunIds /\ revoked \subseteq RunIds /\ ended \subseteq RunIds /\ dead \subseteq RunIds
  BY DEF TypeOK, Procs
<1>1. CASE Crash(w)
  <2>1. proc[w].run \in RunIds
    BY <1>0, <1>1 DEF Crash, At, Held, Holds, RunPCs, TaskPCs, AfterPCs
  <2> QED BY <1>0, <1>1, <2>1, Replaced DEF Crash, broker
<1>2. ASSUME NEW r \in RunIds, Deliver(w, r) PROVE Typed /\ Sets
  <2>1. TaskOf(r) \in ProcRecords
    <3>1. vruns[r].scope \in AllScopes
      BY <1>0 DEF RunRows
    <3> QED BY <3>1, IdleType DEF TaskOf, ProcRecords, TaskPCs
  <2>2. proc' \in [Procs -> ProcRecords]
    BY <1>0, <1>2, <2>1, Replaced DEF Deliver
  <2> QED BY <1>0, <1>2, <2>2 DEF Deliver
<1> QED BY <1>1, <1>2

(* Every step keeps the types.                                             *)
THEOREM TypesKept == TypeOK /\ Held /\ [Next]_vars => TypeOK'
<1> SUFFICES ASSUME TypeOK, Held, [Next]_vars PROVE Typed /\ Sets
  BY DEF Typed, Sets, TypeOK
<1>1. CASE UNCHANGED vars
  BY <1>1 DEF vars, TypeOK, Typed, Sets
<1> QED BY <1>1, RequestTypes, TaskTypes, WorkerTypes DEF Next

(* A process that moves on and still holds what its new place needs.       *)
LEMMA MovesOn ==
  ASSUME TypeOK, Held, NEW p \in Procs, NEW rec, Become(p, rec), Holds(p, rec)
  PROVE  Held'
<1>1. \A q \in Procs : proc'[q] = IF q = p THEN rec ELSE proc[q]
  BY DEF TypeOK, Become
<1> QED BY <1>1 DEF Held, Holds

(* ... and one that goes to another place with what it has.                *)
LEMMA GoesTo ==
  ASSUME TypeOK, Held, NEW p \in Procs, NEW pc, Goto(p, pc), pc # "collecting",
         pc \in RunPCs => proc[p].pc \in RunPCs, p \in Workers => pc \in {"idle"} \cup TaskPCs \cup AfterPCs
  PROVE  Held'
<1>1. proc[p] \in ProcRecords
  BY DEF TypeOK
<1> DEFINE rec == [proc[p] EXCEPT !.pc = pc]
<1>2. rec.pc = pc /\ rec.run = proc[p].run
  BY <1>1 DEF ProcRecords
<1>3. Holds(p, rec)
  BY <1>2 DEF Held, Holds
<1>4. Become(p, rec)
  BY DEF Goto, Become
<1> QED BY <1>3, <1>4, MovesOn

(* A process that becomes idle holds nothing.                              *)
LEMMA LetsGo ==
  ASSUME TypeOK, Held, NEW p \in Procs, Return(p)
  PROVE  Held'
<1>1. Holds(p, Idle)
  BY DEF Holds, Idle, RunPCs, TaskPCs, AfterPCs
<1> QED BY <1>1, MovesOn DEF Return

(* A task that is begun holds its run.                                     *)
LEMMA Begins ==
  ASSUME NEW p \in Procs, NEW r \in RunIds
  PROVE  /\ Holds(p, TaskOf(r)) /\ TaskOf(r).pc = "load" /\ TaskOf(r).run = r
         /\ TaskOf(r).scope = vruns[r].scope
BY DEF Holds, TaskOf, Idle, RunPCs, TaskPCs, AfterPCs

(* Every step leaves every process with what its place needs.              *)
THEOREM HeldKept == TypeOK /\ Held /\ [Next]_vars => Held'
<1> SUFFICES ASSUME TypeOK, Held, [Next]_vars PROVE Held'
  OBVIOUS
<1>0. proc \in [Procs -> ProcRecords] /\ \A h \in Handlers : h \in Procs /\ h \notin Workers
  BY ProcsAssumption DEF TypeOK, Procs
<1>1. ASSUME NEW h \in Handlers, Request(h) PROVE Held'
  <2>1. CASE UploadRead(h)
    BY <1>0, <2>1, GoesTo DEF UploadRead, RunPCs, TaskPCs, AfterPCs
  <2>2. CASE Delete(h)
    BY <2>2 DEF Delete, Held
  <2>3. CASE CleanRead(h)
    <3>1. Holds(h, [Idle EXCEPT !.pc = "clean", !.todo = ActiveRuns, !.known = {r \in ActiveRuns : vruns[r].task}])
      BY <1>0 DEF Holds, Idle, RunPCs, TaskPCs, AfterPCs
    <3> QED BY <1>0, <2>3, <3>1, MovesOn DEF CleanRead
  <2>4. ASSUME NEW scope \in Scopes, ValidateRead(h, scope) PROVE Held'
    <3>1. Holds(h, [Idle EXCEPT !.pc = "lookup", !.scope = scope, !.seen = scen.checks])
      BY <1>0 DEF Holds, Idle, RunPCs, TaskPCs, AfterPCs
    <3> QED BY <1>0, <2>4, <3>1, MovesOn DEF ValidateRead
  <2> QED BY <1>1, <2>1, <2>2, <2>3, <2>4 DEF Request
<1>2. ASSUME NEW h \in Handlers, HandlerStep(h) PROVE Held'
  <2>1. CASE UploadSave(h)
    BY <1>0, <2>1, GoesTo, LetsGo DEF UploadSave, RunPCs, TaskPCs, AfterPCs
  <2>2. CASE CleanCancel(h)
    BY <1>0, <2>2, GoesTo, LetsGo DEF CleanCancel, RunPCs, TaskPCs, AfterPCs
  <2>3. CASE CleanReset(h)
    BY <1>0, <2>3, LetsGo DEF CleanReset
  <2>4. CASE LookupNone(h)
    BY <1>0, <2>4, GoesTo DEF LookupNone, RunPCs, TaskPCs, AfterPCs
  <2>5. CASE Release(h)
    <3>1. Holds(h, [proc[h] EXCEPT !.pc = "create", !.run = NoRun])
      BY <1>0 DEF Holds, ProcRecords, RunPCs, TaskPCs, AfterPCs
    <3> QED BY <1>0, <2>5, <3>1, MovesOn, LetsGo DEF Release
  <2>6. CASE Send(h)
    BY <1>0, <2>6, GoesTo DEF Send, At, RunPCs, TaskPCs, AfterPCs
  <2>7. CASE Refused(h)
    <3>1. proc[h].run \in RunIds
      BY <1>0, <2>7 DEF Refused, At, Held, Holds, RunPCs
    <3> QED BY <1>0, <2>7, <3>1, Begins, MovesOn, LetsGo DEF Refused
  <2>8. CASE SaveTask(h)
    BY <1>0, <2>8, GoesTo, LetsGo DEF SaveTask, At, RunPCs, TaskPCs, AfterPCs
  <2>9. CASE Mark(h)
    BY <1>0, <2>9, LetsGo DEF Mark
  <2>10. ASSUME NEW r \in RunIds, CleanRequest(h, r) PROVE Held'
    <3>1. Holds(h, [proc[h] EXCEPT !.pc = "cancel", !.run = r, !.todo = @ \ {r}])
      BY <1>0 DEF Holds, ProcRecords
    <3> QED BY <1>0, <2>10, <3>1, MovesOn, LetsGo DEF CleanRequest
  <2>11. ASSUME NEW r \in RunIds, Create(h, r) PROVE Held'
    <3>1. Holds(h, [proc[h] EXCEPT !.pc = "send", !.run = r])
      BY <1>0 DEF Holds, ProcRecords
    <3> QED BY <1>0, <2>11, <3>1, MovesOn, LetsGo DEF Create
  <2>12. ASSUME NEW r \in RunIds, NEW recent \in BOOLEAN, LookupFound(h, r, recent) PROVE Held'
    <3>1. Holds(h, [proc[h] EXCEPT !.pc = "release", !.run = r])
      BY <1>0 DEF Holds, ProcRecords
    <3> QED BY <1>0, <2>12, <3>1, MovesOn, LetsGo DEF LookupFound
  <2> QED BY <1>2, <2>1, <2>2, <2>3, <2>4, <2>5, <2>6, <2>7, <2>8, <2>9, <2>10, <2>11, <2>12 DEF HandlerStep
<1>3. ASSUME NEW p \in Procs, TaskStep(p) PROVE Held'
  <2>0. proc[p] \in ProcRecords /\ (proc[p].pc \in TaskPCs \cup AfterPCs => proc[p].run \in RunIds)
    BY <1>0 DEF Held, Holds, RunPCs
  <2>1. CASE TaskLosesRow(p) \/ TaskReturn(p) \/ TaskFailRun(p)
    BY <2>1, LetsGo DEF TaskLosesRow, TaskReturn, TaskFailRun, EndTask
  <2>2. CASE TaskLoad(p)
    <3>1. Holds(p, [proc[p] EXCEPT !.pc = "markScenario", !.seen = scen.checks])
      BY <2>0, <2>2 DEF TaskLoad, InTask, At, Holds, ProcRecords, TaskPCs
    <3> QED BY <2>2, <3>1, MovesOn DEF TaskLoad
  <2>3. CASE TaskMarkScenario(p)
    <3>1. Holds(p, [proc[p] EXCEPT !.pc = "markRun", !.seen = With(@, proc[p].scope.kinds, "RUNNING")])
      BY <2>0, <2>3 DEF TaskMarkScenario, InTask, At, Holds, ProcRecords, TaskPCs
    <3> QED BY <2>3, <3>1, MovesOn DEF TaskMarkScenario
  <2>4. CASE TaskMarkRun(p)
    <3>1. Holds(p, [proc[p] EXCEPT !.pc = "check", !.left = proc[p].scope.kinds])
      BY <2>0, <2>4 DEF TaskMarkRun, InTask, At, Holds, ProcRecords, TaskPCs
    <3> QED BY <2>4, <3>1, MovesOn DEF TaskMarkRun
  <2>5. ASSUME NEW k, NEW ok, proc[p].pc \in TaskPCs PROVE Holds(p, Checked(p, k, ok))
    BY <2>0, <2>5 DEF Holds, Checked, ProcRecords, TaskPCs
  <2>6. CASE CollectSelect(p)
    <3>1. ASSUME NEW q \in Sources(proc[p].run) PROVE Holds(p, [proc[p] EXCEPT !.pc = "collecting", !.src = q])
      BY <2>0, <2>6 DEF CollectSelect, InTask, At, Holds, ProcRecords, TaskPCs, Sources, Live
    <3>2. \/ Become(p, Checked(p, "actions", FALSE))
          \/ \E q \in Sources(proc[p].run) : Become(p, [proc[p] EXCEPT !.pc = "collecting", !.src = q])
      BY <2>6 DEF CollectSelect
    <3>3. proc[p].pc \in TaskPCs
      BY <2>6 DEF CollectSelect, InTask, At, TaskPCs
    <3> QED BY <2>5, <3>1, <3>2, <3>3, MovesOn
  <2>7. CASE TaskSaveScenario(p)
    <3>1. \A c : Holds(p, [proc[p] EXCEPT !.pc = "saveRun", !.seen = c])
      BY <2>0, <2>7 DEF TaskSaveScenario, InTask, At, Holds, ProcRecords, TaskPCs
    <3> QED BY <2>7, <3>1, MovesOn DEF TaskSaveScenario
  <2>8. CASE TaskRaise(p)
    <3>1. \A pc \in {"failScenario", "undoScenario"} :
            Holds(p, [proc[p] EXCEPT !.pc = pc, !.src = NoRun, !.left = {}, !.bad = {}])
      BY <2>0, <2>8 DEF TaskRaise, Holds, ProcRecords, TaskPCs, AfterPCs
    <3> QED BY <2>8, <3>1, MovesOn DEF TaskRaise
  <2>9. CASE TaskFailScenario(p)
    <3>1. \A pc \in {"failRun", "undoRun"} : Holds(p, [proc[p] EXCEPT !.pc = pc, !.seen = Unknown])
      BY <2>0, <2>9 DEF TaskFailScenario, InTask, At, Holds, ProcRecords, TaskPCs, AfterPCs
    <3> QED BY <2>9, <3>1, MovesOn DEF TaskFailScenario
  <2>10. ASSUME NEW ok \in BOOLEAN, CollectDone(p, ok) PROVE Held'
    BY <2>5, <2>10, MovesOn DEF CollectDone, InTask, At, TaskPCs
  <2>11. ASSUME NEW ok \in BOOLEAN, NEW k \in Kinds, TaskCheck(p, k, ok) PROVE Held'
    BY <2>5, <2>11, MovesOn DEF TaskCheck, InTask, At, TaskPCs
  <2>12. CASE TaskSaveRun(p)
    BY <2>12, GoesTo DEF TaskSaveRun, InTask, At, RunPCs, TaskPCs, AfterPCs
  <2> QED BY <1>3, <2>1, <2>2, <2>3, <2>4, <2>6, <2>7, <2>8, <2>9, <2>10, <2>11, <2>12 DEF TaskStep
<1>4. ASSUME NEW w \in Workers, Crash(w) \/ \E r \in RunIds : Deliver(w, r) PROVE Held'
  <2>1. w \in Procs
    BY DEF Procs
  <2>2. CASE Crash(w)
    BY <2>1, <2>2, LetsGo DEF Crash
  <2>3. ASSUME NEW r \in RunIds, Deliver(w, r) PROVE Held'
    <3>1. CASE r \in revoked
      BY <2>3, <3>1 DEF Deliver, Held
    <3>2. CASE r \notin revoked
      BY <2>1, <2>3, <3>2, Begins, MovesOn DEF Deliver
    <3> QED BY <3>1, <3>2
  <2> QED BY <1>4, <2>2, <2>3
<1>5. CASE UNCHANGED vars
  BY <1>5 DEF vars, Held
<1> QED BY <1>1, <1>2, <1>3, <1>4, <1>5 DEF Next

(* Rows, messages and process records stay well formed.                    *)
THEOREM ValidationTypeCorrect == Spec => []TypeOK
<1>1. Init => TypeOK /\ Held
  <2> SUFFICES ASSUME Init PROVE TypeOK /\ Held
    OBVIOUS
  <2>1. TypeOK
    BY StoredType, ChecksType, BlankType, IdleType DEF Init, TypeOK, Fresh
  <2>2. Held
    BY DEF Init, Held, Holds, Idle, RunPCs, TaskPCs, AfterPCs
  <2> QED BY <2>1, <2>2
<1>2. TypeOK /\ Held /\ [Next]_vars => (TypeOK /\ Held)'
  BY TypesKept, HeldKept
<1> QED BY <1>1, <1>2, PTL DEF Spec

---------------------------------------------------------------------------
(* What is offered for collection *)

(* Runs go with their scenario, a run that was never created is in nobody's *)
(* hands, a task works for the scope of its run, and only probes offer.    *)
Offers ==
  /\ ~scen.present => Live = {}
  /\ \A r \in RunIds : vruns[r].collect => vruns[r].scope.phase = "probe"
  /\ \A p \in Procs : /\ proc[p].pc \in TaskPCs \cup AfterPCs /\ proc[p].run \in Live
                         => proc[p].scope = vruns[proc[p].run].scope
                      /\ proc[p].pc \in RunPCs => vruns[proc[p].run].st # "UNUSED"
  /\ \A r \in queue : vruns[r].st # "UNUSED"
  /\ OfferedProbesSucceeded

(* The run a process has taken up, and its scope.                          *)
Follows(rec) ==
  /\ rec.pc \in RunPCs => rec.run \in RunIds /\ vruns[rec.run].st # "UNUSED"
  /\ rec.pc \in TaskPCs \cup AfterPCs /\ rec.run \in Live => rec.scope = vruns[rec.run].scope

(* A process that moves on while no run row is written: the task it leaves *)
(* was that of a row that is gone, or died.                                *)
LEMMA OffersMove ==
  ASSUME TypeOK, Offers, NEW p \in Procs, NEW rec, Become(p, rec), Follows(rec), vruns' = vruns, dead \subseteq dead',
         ~scen'.present => Live = {}, \A r \in queue' : vruns[r].st # "UNUSED",
         (proc[p].pc \in TaskPCs /\ proc[p].run \in Live) =>
            (rec.pc \in TaskPCs /\ rec.run = proc[p].run) \/ proc[p].run \in dead'
  PROVE  Offers'
<1>1. \A q \in Procs : proc'[q] = IF q = p THEN rec ELSE proc[q]
  BY DEF TypeOK, Become
<1>2. Live' = Live
  BY DEF Live
<1>3. ASSUME NEW r \in Live, vruns[r].collect
      PROVE  \/ vruns[r].st \in {"SUCCEEDED", "CANCEL_REQUESTED"} \/ vruns[r].given # "no" \/ r \in dead'
             \/ \E q \in Procs : proc'[q].run = r /\ proc'[q].pc \in TaskPCs
  <2>1. \/ vruns[r].st \in {"SUCCEEDED", "CANCEL_REQUESTED"} \/ vruns[r].given # "no" \/ r \in dead
        \/ \E q \in Procs : proc[q].run = r /\ proc[q].pc \in TaskPCs
    BY <1>3 DEF Offers, OfferedProbesSucceeded
  <2>2. ASSUME NEW q \in Procs, proc[q].run = r, proc[q].pc \in TaskPCs
        PROVE  r \in dead' \/ \E o \in Procs : proc'[o].run = r /\ proc'[o].pc \in TaskPCs
    BY <1>1, <1>3, <2>2
  <2> QED BY <2>1, <2>2
<1>4. OfferedProbesSucceeded'
  BY <1>2, <1>3 DEF OfferedProbesSucceeded
<1>5. \A q \in Procs : /\ proc'[q].pc \in TaskPCs \cup AfterPCs /\ proc'[q].run \in Live => proc'[q].scope = vruns[proc'[q].run].scope
                       /\ proc'[q].pc \in RunPCs => vruns[proc'[q].run].st # "UNUSED"
  BY <1>1 DEF Offers, Follows
<1> QED BY <1>2, <1>4, <1>5 DEF Offers

(* A process that goes on with the task it has.                            *)
LEMMA OffersStay ==
  ASSUME TypeOK, Held, Offers, NEW p \in Procs, NEW rec, Become(p, rec), UNCHANGED <<vruns, queue, dead>>,
         scen'.present = scen.present, proc[p].pc \in TaskPCs \cup AfterPCs, rec.pc \in TaskPCs \cup AfterPCs,
         rec.pc \in AfterPCs => proc[p].pc \in AfterPCs, rec.run = proc[p].run, rec.scope = proc[p].scope
  PROVE  Offers'
<1>1. proc[p].run \in RunIds /\ proc[p].pc \in RunPCs
  BY DEF Held, Holds, RunPCs
<1>2. Follows(rec)
  BY <1>1 DEF Follows, Offers
<1>3. proc[p].pc \in TaskPCs => rec.pc \in TaskPCs
  BY DEF TaskPCs, AfterPCs
<1> QED BY <1>2, <1>3, OffersMove DEF Offers

(* A process that has no task and takes up none.                           *)
LEMMA OffersAsk ==
  ASSUME TypeOK, Offers, NEW p \in Procs, NEW rec, Become(p, rec), UNCHANGED <<vruns, queue, dead>>,
         scen'.present = scen.present, proc[p].pc \notin TaskPCs,
         rec.pc \notin TaskPCs \cup AfterPCs, rec.pc \in RunPCs => rec.run \in RunIds /\ vruns[rec.run].st # "UNUSED"
  PROVE  Offers'
<1>1. Follows(rec)
  BY DEF Follows
<1> QED BY <1>1, OffersMove DEF Offers

(* A process that writes the row of a run: it is offered only for a reason *)
(* that still holds.                                                       *)
LEMMA OffersSave ==
  ASSUME TypeOK, Offers, NEW p \in Procs, NEW rec, Become(p, rec), Follows(rec),
         UNCHANGED <<queue, dead>>, scen' = scen,
         NEW r \in Live, NEW saved, SaveRun(r, saved), saved.st \in RunStatus, saved.scope = vruns[r].scope,
         saved.collect => saved.scope.phase = "probe",
         (saved.collect /\ saved.st \notin {"SUCCEEDED", "CANCEL_REQUESTED"} /\ saved.given = "no") =>
            \/ rec.pc \in TaskPCs /\ rec.run = r
            \/ /\ vruns[r].collect /\ saved.st = vruns[r].st /\ saved.given = vruns[r].given
               /\ ~(proc[p].pc \in TaskPCs /\ proc[p].run = r),
         proc[p].pc \in TaskPCs => (rec.pc \in TaskPCs /\ rec.run = proc[p].run) \/ proc[p].run = r
  PROVE  Offers'
<1>1. \A q \in Procs : proc'[q] = IF q = p THEN rec ELSE proc[q]
  BY DEF TypeOK, Become
<1>2. r \in RunIds /\ vruns[r].st \in RunStatus /\ \A q \in RunIds : vruns'[q] = IF q = r THEN saved ELSE vruns[q]
  BY DEF TypeOK, SaveRun, Live
<1>3. Live' = Live
  BY <1>2 DEF Live
<1>4. "UNUSED" \notin RunStatus
  BY DEF RunStatus, Active
<1>5. \A q \in RunIds : /\ vruns'[q].scope = vruns[q].scope
                        /\ vruns[q].st # "UNUSED" => vruns'[q].st # "UNUSED"
                        /\ vruns'[q].collect => vruns'[q].scope.phase = "probe"
  BY <1>2, <1>4 DEF Offers
<1>6. ASSUME NEW q \in Live, vruns'[q].collect
      PROVE  \/ vruns'[q].st \in {"SUCCEEDED", "CANCEL_REQUESTED"} \/ vruns'[q].given # "no" \/ q \in dead
             \/ \E o \in Procs : proc'[o].run = q /\ proc'[o].pc \in TaskPCs
  <2>0. q \in RunIds
    BY DEF Live
  <2>1. vruns[q].collect => \/ vruns[q].st \in {"SUCCEEDED", "CANCEL_REQUESTED"} \/ vruns[q].given # "no" \/ q \in dead
                            \/ \E o \in Procs : proc[o].run = q /\ proc[o].pc \in TaskPCs
    BY DEF Offers, OfferedProbesSucceeded
  <2>2. CASE q # r
    <3>1. vruns'[q] = vruns[q]
      BY <1>2, <2>0, <2>2
    <3>2. ASSUME NEW o \in Procs, proc[o].run = q, proc[o].pc \in TaskPCs
          PROVE  \E x \in Procs : proc'[x].run = q /\ proc'[x].pc \in TaskPCs
      BY <1>1, <2>2, <3>2
    <3> QED BY <1>6, <2>1, <3>1, <3>2
  <2>3. CASE q = r
    <3>1. vruns'[q] = saved
      BY <1>2, <2>3
    <3>2. CASE rec.pc \in TaskPCs /\ rec.run = r
      BY <1>1, <2>3, <3>2
    <3>3. CASE /\ vruns[r].collect /\ saved.st = vruns[r].st /\ saved.given = vruns[r].given
               /\ ~(proc[p].pc \in TaskPCs /\ proc[p].run = r)
      <4>1. ASSUME NEW o \in Procs, proc[o].run = q, proc[o].pc \in TaskPCs
            PROVE  proc'[o].run = q /\ proc'[o].pc \in TaskPCs
        BY <1>1, <2>3, <3>3, <4>1
      <4> QED BY <2>1, <2>3, <3>1, <3>3, <4>1
    <3> QED BY <1>6, <3>1, <3>2, <3>3
  <2> QED BY <2>2, <2>3
<1>7. OfferedProbesSucceeded'
  BY <1>3, <1>6 DEF OfferedProbesSucceeded
<1>8. \A q \in Procs : /\ proc'[q].pc \in TaskPCs \cup AfterPCs /\ proc'[q].run \in Live' => proc'[q].scope = vruns'[proc'[q].run].scope
                       /\ proc'[q].pc \in RunPCs => vruns'[proc'[q].run].st # "UNUSED"
  <2> SUFFICES ASSUME NEW q \in Procs
               PROVE  /\ proc'[q].pc \in TaskPCs \cup AfterPCs /\ proc'[q].run \in Live' => proc'[q].scope = vruns'[proc'[q].run].scope
                      /\ proc'[q].pc \in RunPCs => vruns'[proc'[q].run].st # "UNUSED"
    OBVIOUS
  <2>1. Live \subseteq RunIds
    BY DEF Live
  <2>2. CASE q = p
    BY <1>1, <1>3, <1>5, <2>1, <2>2 DEF Follows
  <2>3. CASE q # p
    <3>1. proc'[q] = proc[q]
      BY <1>1, <2>3
    <3>2. /\ proc[q].pc \in TaskPCs \cup AfterPCs /\ proc[q].run \in Live => proc[q].scope = vruns[proc[q].run].scope
          /\ proc[q].pc \in RunPCs => vruns[proc[q].run].st # "UNUSED"
      BY DEF Offers
    <3>3. vruns'[proc[q].run].st = "UNUSED" => vruns[proc[q].run].st = "UNUSED"
      BY <1>2, <1>4, <1>5 DEF SaveRun, TypeOK
    <3> QED BY <1>3, <1>5, <2>1, <3>1, <3>2, <3>3
  <2> QED BY <2>2, <2>3
<1>9. queue \subseteq RunIds
  BY DEF TypeOK
<1> QED BY <1>3, <1>5, <1>7, <1>8, <1>9 DEF Offers

(* Every request step keeps the account of what is offered.                *)
LEMMA RequestOffers ==
  ASSUME TypeOK, Held, Offers, NEW h \in Handlers, Request(h) \/ HandlerStep(h)
  PROVE  Offers'
<1>0. /\ h \in Procs /\ proc[h] \in ProcRecords /\ vruns \in [RunIds -> RunRows] /\ Live \subseteq RunIds
      /\ TaskPCs \cup AfterPCs \subseteq RunPCs /\ proc \in [Procs -> ProcRecords] /\ queue \subseteq RunIds
      /\ \A s \in RunRows : \A st : [s EXCEPT !.st = st].st = st
  BY DEF TypeOK, Procs, Live, RunRows, RunPCs
<1>1. /\ Idle.pc = "idle" /\ "idle" \notin RunPCs /\ "idle" \notin TaskPCs /\ RequestPCs \cap TaskPCs = {}
      /\ "idle" \notin AfterPCs
      /\ TaskPCs \subseteq RunPCs
  BY DEF Idle, RunPCs, TaskPCs, AfterPCs, RequestPCs
<1>2. Follows(Idle)
  BY <1>1 DEF Follows
<1>3. ASSUME Return(h), proc[h].pc \notin TaskPCs, UNCHANGED <<vruns, queue, dead>>, scen'.present = scen.present
      PROVE  Offers'
  BY <1>0, <1>1, <1>3, OffersAsk DEF Return
<1>4. ASSUME NEW pc, Goto(h, pc), proc[h].pc \notin TaskPCs, pc \notin TaskPCs \cup AfterPCs,
             pc \in RunPCs => proc[h].pc \in RunPCs, UNCHANGED <<vruns, queue, dead>>, scen'.present = scen.present
      PROVE  Offers'
  <2> DEFINE rec == [proc[h] EXCEPT !.pc = pc]
  <2>1. rec.pc = pc /\ rec.run = proc[h].run /\ Become(h, rec)
    BY <1>0, <1>4 DEF ProcRecords, Goto, Become
  <2>2. proc[h].pc \in RunPCs => proc[h].run \in RunIds /\ vruns[proc[h].run].st # "UNUSED"
    BY <1>0 DEF Held, Holds, Offers
  <2> HIDE DEF rec
  <2> QED BY <1>0, <1>4, <2>1, <2>2, OffersAsk
<1>5. CASE UploadRead(h)
  BY <1>4, <1>5 DEF UploadRead, Accept, At, TaskPCs, AfterPCs, RunPCs, broker
<1>6. CASE Delete(h)
  <2>1. \A r \in RunIds : vruns'[r] = IF r \in Live THEN Blank("DELETED") ELSE vruns[r]
    BY <1>6 DEF Delete
  <2>2. Blank("DELETED").st = "DELETED" /\ Blank("DELETED").collect = FALSE /\ "DELETED" \notin RunStatus
    BY DEF Blank, RunStatus, Active
  <2>3. Live' = {}
    BY <2>1, <2>2 DEF Live
  <2>4. \A r \in RunIds : /\ vruns'[r].collect => vruns[r].collect /\ vruns'[r].scope = vruns[r].scope
                          /\ vruns'[r].st = "UNUSED" => vruns[r].st = "UNUSED"
    BY <2>1, <2>2
  <2>5. \A p \in Procs : proc[p].pc \in RunPCs => proc[p].run \in RunIds
    BY DEF Held, Holds
  <2>6. \A p \in Procs : proc[p].pc \in RunPCs => vruns'[proc[p].run].st # "UNUSED"
    BY <2>4, <2>5 DEF Offers
  <2>7. proc' = proc /\ queue' = queue
    BY <1>6 DEF Delete, broker
  <2> QED BY <1>0, <2>3, <2>4, <2>6, <2>7 DEF Offers, OfferedProbesSucceeded
<1>7. CASE CleanRead(h)
  <2> DEFINE rec == [Idle EXCEPT !.pc = "clean", !.todo = ActiveRuns, !.known = {r \in ActiveRuns : vruns[r].task}]
  <2>1. rec.pc = "clean" /\ Become(h, rec) /\ UNCHANGED <<vruns, queue, dead, scen>> /\ proc[h].pc = "idle"
    BY <1>7 DEF CleanRead, Idle, Accept, At, broker
  <2> HIDE DEF rec
  <2> QED BY <1>0, <2>1, OffersAsk DEF TaskPCs, AfterPCs, RunPCs
<1>8. ASSUME NEW scope \in Scopes, ValidateRead(h, scope) PROVE Offers'
  <2> DEFINE rec == [Idle EXCEPT !.pc = "lookup", !.scope = scope, !.seen = scen.checks]
  <2>1. rec.pc = "lookup" /\ Become(h, rec) /\ UNCHANGED <<vruns, queue, dead, scen>> /\ proc[h].pc = "idle"
    BY <1>8 DEF ValidateRead, Idle, Accept, At, broker
  <2> HIDE DEF rec
  <2> QED BY <1>0, <2>1, OffersAsk DEF TaskPCs, AfterPCs, RunPCs
<1>9. CASE UploadSave(h)
  <2>1. scen'.present = TRUE /\ UNCHANGED <<vruns, queue, dead>> /\ proc[h].pc \notin TaskPCs
    BY <1>9 DEF UploadSave, Fresh, Stored, TaskPCs, AfterPCs, broker
  <2>2. PICK rec \in {[proc[h] EXCEPT !.pc = "uploadFile"], Idle} : Become(h, rec)
    BY <1>9 DEF UploadSave, Goto, Return, Become
  <2>3. rec.pc \in {"uploadFile", "idle"}
    BY <1>0, <1>1, <2>2 DEF ProcRecords
  <2>4. Follows(rec)
    BY <2>3 DEF Follows, RunPCs, TaskPCs, AfterPCs
  <2>5. \A r \in queue : vruns[r].st # "UNUSED"
    BY DEF Offers
  <2> QED BY <1>0, <2>1, <2>2, <2>4, <2>5, OffersMove
<1>10. ASSUME NEW r \in RunIds, CleanRequest(h, r) PROVE Offers'
  <2>0. proc[h].pc \notin TaskPCs /\ UNCHANGED <<scen, queue, dead>>
    BY <1>10 DEF CleanRequest, At, TaskPCs, AfterPCs
  <2>1. CASE r \in Live /\ SaveRun(r, [vruns[r] EXCEPT !.st = "CANCEL_REQUESTED"])
              /\ Become(h, [proc[h] EXCEPT !.pc = "cancel", !.run = r, !.todo = @ \ {r}])
    <3> DEFINE saved == [vruns[r] EXCEPT !.st = "CANCEL_REQUESTED"]
               rec == [proc[h] EXCEPT !.pc = "cancel", !.run = r, !.todo = @ \ {r}]
    <3>1. saved.st = "CANCEL_REQUESTED" /\ saved.scope = vruns[r].scope /\ saved.collect = vruns[r].collect
      BY <1>0, <2>1 DEF RunRows
    <3>2. rec.pc = "cancel" /\ rec.run = r
      BY <1>0 DEF ProcRecords
    <3>3. vruns[r].st # "UNUSED" /\ "CANCEL_REQUESTED" \in RunStatus
      BY <2>1 DEF Live, RunStatus, Active
    <3>4. Follows(rec)
      BY <1>10, <3>2, <3>3 DEF Follows, TaskPCs, AfterPCs
    <3>5. saved.collect => saved.scope.phase = "probe"
      BY <1>10, <3>1 DEF Offers
    <3>6. SaveRun(r, saved) /\ Become(h, rec)
      BY <2>1
    <3> HIDE DEF saved, rec
    <3> QED BY <1>0, <2>0, <2>1, <3>1, <3>3, <3>4, <3>5, <3>6, OffersSave
  <2>2. CASE Return(h) /\ UNCHANGED vruns
    BY <1>3, <2>0, <2>2
  <2> QED BY <1>10, <2>1, <2>2 DEF CleanRequest, Alive
<1>11. ASSUME NEW r, r = proc[h].run, NEW given \in {"clean", "stale"}, NEW st \in {"CANCELED", "FAILED"}, r \in Live,
              SaveRun(r, [vruns[r] EXCEPT !.st = st, !.given = given]),
              NEW rec, Become(h, rec), rec.pc \notin RunPCs, proc[h].pc \notin TaskPCs, UNCHANGED <<scen, queue, dead>>
       PROVE  Offers'
  <2> DEFINE saved == [vruns[r] EXCEPT !.st = st, !.given = given]
  <2>1. saved.st = st /\ saved.given = given /\ saved.scope = vruns[r].scope /\ saved.collect = vruns[r].collect
    BY <1>0, <1>11 DEF RunRows
  <2>2. saved.collect => saved.scope.phase = "probe"
    BY <1>0, <1>11, <2>1 DEF Offers
  <2>3. Follows(rec) /\ saved.st \in RunStatus /\ saved.given # "no"
    BY <1>0, <1>11, <2>1 DEF Follows, RunStatus
  <2>4. SaveRun(r, saved)
    BY <1>11
  <2> HIDE DEF saved
  <2> QED BY <1>0, <1>11, <2>1, <2>2, <2>3, <2>4, OffersSave
<1>12. CASE CleanCancel(h)
  <2>1. proc[h].pc \notin TaskPCs /\ UNCHANGED <<scen, queue, dead>>
    BY <1>12 DEF CleanCancel, At, TaskPCs, AfterPCs, broker
  <2>2. CASE Goto(h, "clean") /\ proc[h].run \in Live
             /\ SaveRun(proc[h].run, [vruns[proc[h].run] EXCEPT !.st = "CANCELED", !.given = "clean"])
    <3>1. [proc[h] EXCEPT !.pc = "clean"].pc \notin RunPCs /\ Become(h, [proc[h] EXCEPT !.pc = "clean"])
      BY <1>0, <2>2 DEF ProcRecords, RunPCs, TaskPCs, AfterPCs, Goto, Become
    <3> QED BY <1>11, <2>1, <2>2, <3>1
  <2> QED BY <1>3, <1>12, <2>1, <2>2 DEF CleanCancel, Alive
<1>13. CASE CleanReset(h)
  <2>1. scen'.present = scen.present
    BY <1>13 DEF CleanReset, Fresh, Stored, TypeOK, Row
  <2> QED BY <1>3, <1>13, <2>1 DEF CleanReset, At, TaskPCs, AfterPCs, broker
<1>14. CASE LookupNone(h)
  BY <1>4, <1>14 DEF LookupNone, At, TaskPCs, AfterPCs, RunPCs, broker
<1>15. CASE Release(h)
  <2>1. proc[h].pc \notin TaskPCs /\ UNCHANGED <<scen, queue, dead>>
    BY <1>15 DEF Release, At, TaskPCs, AfterPCs, broker
  <2>2. CASE /\ proc[h].run \in Live /\ SaveRun(proc[h].run, [vruns[proc[h].run] EXCEPT !.st = "FAILED", !.given = "stale"])
             /\ Become(h, [proc[h] EXCEPT !.pc = "create", !.run = NoRun])
    <3>1. [proc[h] EXCEPT !.pc = "create", !.run = NoRun].pc \notin RunPCs
      BY <1>0 DEF ProcRecords, RunPCs, TaskPCs, AfterPCs
    <3> QED BY <1>11, <2>1, <2>2, <3>1
  <2> QED BY <1>3, <1>15, <2>1, <2>2 DEF Release, Alive
<1>16. ASSUME NEW r \in RunIds, NEW recent \in BOOLEAN, LookupFound(h, r, recent) PROVE Offers'
  <2>1. proc[h].pc \notin TaskPCs /\ UNCHANGED <<scen, vruns, queue, dead>>
    BY <1>16 DEF LookupFound, At, TaskPCs, AfterPCs, broker
  <2>2. CASE Become(h, [proc[h] EXCEPT !.pc = "release", !.run = r])
    <3> DEFINE rec == [proc[h] EXCEPT !.pc = "release", !.run = r]
    <3>1. rec.pc = "release" /\ rec.run = r
      BY <1>0 DEF ProcRecords
    <3>2. vruns[r].st # "UNUSED"
      BY <1>16 DEF LookupFound, Newest, Candidates, ActiveRuns, Active
    <3>3. Become(h, rec)
      BY <2>2
    <3> HIDE DEF rec
    <3> QED BY <1>0, <2>1, <3>1, <3>2, <3>3, OffersAsk DEF TaskPCs, AfterPCs
  <2>3. CASE Return(h)
    BY <1>3, <2>1, <2>3
  <2> QED BY <1>16, <2>2, <2>3 DEF LookupFound
<1>17. ASSUME NEW r \in RunIds, Create(h, r) PROVE Offers'
  <2>1. proc[h].pc \notin TaskPCs /\ UNCHANGED <<scen, queue, dead>> /\ vruns[r].st = "UNUSED"
    BY <1>17 DEF Create, At, TaskPCs, AfterPCs, broker
  <2>2. CASE Return(h) /\ UNCHANGED vruns
    BY <1>3, <2>1, <2>2
  <2>3. CASE /\ scen.present /\ SaveRun(r, [Blank("PENDING") EXCEPT !.scope = proc[h].scope])
             /\ Become(h, [proc[h] EXCEPT !.pc = "send", !.run = r])
    <3> DEFINE saved == [Blank("PENDING") EXCEPT !.scope = proc[h].scope]
               rec == [proc[h] EXCEPT !.pc = "send", !.run = r]
    <3>1. saved.st = "PENDING" /\ saved.collect = FALSE
      BY DEF Blank
    <3>2. rec.pc = "send" /\ rec.run = r
      BY <1>0 DEF ProcRecords
    <3>3. SaveRun(r, saved) /\ Become(h, rec)
      BY <2>3
    <3> HIDE DEF saved, rec
    <3>4. \A q \in RunIds : vruns'[q] = IF q = r THEN saved ELSE vruns[q]
      BY <1>0, <3>3 DEF SaveRun
    <3>5. \A q \in Procs : proc'[q] = IF q = h THEN rec ELSE proc[q]
      BY <1>0, <3>3 DEF Become
    <3>6. Live \subseteq Live' /\ r \notin Live /\ \A q \in Live' : q = r \/ q \in Live
      BY <2>1, <3>1, <3>4 DEF Live, RunStatus, Active
    <3>7. \A q \in Procs : q # h /\ proc[q].pc \in RunPCs => proc[q].run \in RunIds /\ proc[q].run # r
      BY <2>1 DEF Held, Holds, Offers
    <3>8. /\ \A q \in RunIds : vruns'[q].collect => vruns'[q].scope.phase = "probe"
          /\ \A q \in queue : vruns'[q].st # "UNUSED"
      BY <1>0, <3>1, <3>4 DEF Offers
    <3>9. \A q \in Procs : /\ proc'[q].pc \in TaskPCs \cup AfterPCs /\ proc'[q].run \in Live' => proc'[q].scope = vruns'[proc'[q].run].scope
                           /\ proc'[q].pc \in RunPCs => vruns'[proc'[q].run].st # "UNUSED"
      <4> SUFFICES ASSUME NEW q \in Procs
                   PROVE  /\ proc'[q].pc \in TaskPCs \cup AfterPCs /\ proc'[q].run \in Live' => proc'[q].scope = vruns'[proc'[q].run].scope
                          /\ proc'[q].pc \in RunPCs => vruns'[proc'[q].run].st # "UNUSED"
        OBVIOUS
      <4>1. CASE q = h
        BY <3>1, <3>2, <3>4, <3>5, <4>1 DEF TaskPCs, AfterPCs
      <4>2. CASE q # h
        <5>1. proc'[q] = proc[q]
          BY <3>5, <4>2
        <5>2. CASE proc[q].pc \in RunPCs
          BY <3>4, <3>6, <3>7, <4>2, <5>1, <5>2 DEF Offers
        <5>3. CASE proc[q].pc \notin RunPCs
          BY <1>0, <5>1, <5>3
        <5> QED BY <5>2, <5>3
      <4> QED BY <4>1, <4>2
    <3>10. OfferedProbesSucceeded'
      <4> SUFFICES ASSUME NEW q \in Live', vruns'[q].collect
                   PROVE  \/ vruns'[q].st \in {"SUCCEEDED", "CANCEL_REQUESTED"} \/ vruns'[q].given # "no" \/ q \in dead'
                          \/ \E o \in Procs : proc'[o].run = q /\ proc'[o].pc \in TaskPCs
        BY DEF OfferedProbesSucceeded
      <4>1. q \in RunIds /\ q # r /\ q \in Live
        BY <1>0, <3>1, <3>4, <3>6
      <4>2. vruns'[q] = vruns[q]
        BY <3>4, <4>1
      <4>3. \/ vruns[q].st \in {"SUCCEEDED", "CANCEL_REQUESTED"} \/ vruns[q].given # "no" \/ q \in dead
            \/ \E o \in Procs : proc[o].run = q /\ proc[o].pc \in TaskPCs
        BY <4>1, <4>2 DEF Offers, OfferedProbesSucceeded
      <4>4. ASSUME NEW o \in Procs, proc[o].run = q, proc[o].pc \in TaskPCs
            PROVE  proc'[o].run = q /\ proc'[o].pc \in TaskPCs
        BY <2>1, <3>5, <4>4
      <4> QED BY <2>1, <4>2, <4>3, <4>4
    <3> QED BY <2>1, <2>3, <3>8, <3>9, <3>10 DEF Offers
  <2> QED BY <1>17, <2>2, <2>3 DEF Create
<1>18. CASE Send(h)
  <2>1. proc[h].run \in RunIds /\ vruns[proc[h].run].st # "UNUSED" /\ proc[h].pc \notin TaskPCs
    BY <1>0, <1>18 DEF Send, At, Held, Holds, Offers, RunPCs, TaskPCs, AfterPCs
  <2>2. PICK pc \in {"saveTask", "refused"} : Goto(h, pc)
    BY <1>18 DEF Send
  <2> DEFINE rec == [proc[h] EXCEPT !.pc = pc]
  <2>3. rec.pc = pc /\ rec.run = proc[h].run /\ Become(h, rec)
    BY <1>0, <2>2 DEF ProcRecords, Goto, Become
  <2>4. queue' \subseteq queue \cup {proc[h].run} /\ UNCHANGED <<scen, vruns, dead>>
    BY <1>18 DEF Send
  <2>5. \A r \in queue' : vruns[r].st # "UNUSED"
    BY <2>1, <2>4 DEF Offers
  <2> HIDE DEF rec
  <2>6. Follows(rec)
    BY <2>1, <2>3 DEF Follows, TaskPCs, AfterPCs
  <2>7. ~scen'.present => Live = {}
    BY <2>4 DEF Offers
  <2> QED BY <1>0, <2>1, <2>3, <2>4, <2>5, <2>6, <2>7, OffersMove
<1>19. CASE Refused(h)
  <2> DEFINE r == proc[h].run
  <2>1. r \in RunIds /\ proc[h].pc \notin TaskPCs /\ UNCHANGED <<scen, queue, dead>>
    <3>1. proc[h].pc = "refused" /\ UNCHANGED <<scen, queue, dead>>
      BY <1>19 DEF Refused, At, broker
    <3>2. Holds(h, proc[h])
      BY <1>0 DEF Held
    <3> QED BY <3>1, <3>2 DEF Holds, RunPCs, TaskPCs, AfterPCs
  <2>2. CASE Return(h) /\ UNCHANGED vruns
    BY <1>3, <2>1, <2>2
  <2>3. CASE r \in Live /\ SaveRun(r, [vruns[r] EXCEPT !.st = "FAILED"]) /\ Become(h, TaskOf(r))
    <3> DEFINE saved == [vruns[r] EXCEPT !.st = "FAILED"]
    <3>1. saved.st = "FAILED" /\ saved.scope = vruns[r].scope /\ saved.collect = vruns[r].collect
      BY <1>0, <2>1 DEF RunRows
    <3>2. saved.collect => saved.scope.phase = "probe"
      BY <2>1, <3>1 DEF Offers
    <3>3. TaskOf(r).pc = "load" /\ TaskOf(r).run = r /\ TaskOf(r).scope = vruns[r].scope
      BY <1>0, <2>1, Begins
    <3>4. vruns[r].st # "UNUSED" /\ "FAILED" \in RunStatus /\ "load" \in TaskPCs
      BY <2>3 DEF Live, RunStatus, Active, TaskPCs, AfterPCs
    <3>5. Follows(TaskOf(r))
      BY <2>1, <3>3, <3>4 DEF Follows
    <3>6. SaveRun(r, saved)
      BY <2>3
    <3> HIDE DEF saved
    <3> QED BY <1>0, <2>1, <2>3, <3>1, <3>2, <3>3, <3>4, <3>5, <3>6, OffersSave
  <2> QED BY <1>19, <2>2, <2>3 DEF Refused, Alive
<1>20. CASE SaveTask(h)
  <2> DEFINE r == proc[h].run
  <2>1. /\ r \in RunIds /\ proc[h].pc \notin TaskPCs /\ UNCHANGED <<scen, queue, dead>>
        /\ vruns[r].st # "UNUSED"
    <3>1. proc[h].pc = "saveTask" /\ UNCHANGED <<scen, queue, dead>>
      BY <1>20 DEF SaveTask, At, broker
    <3>2. Holds(h, proc[h]) /\ (proc[h].pc \in RunPCs => vruns[r].st # "UNUSED")
      BY <1>0 DEF Held, Offers
    <3> QED BY <3>1, <3>2 DEF Holds, RunPCs, TaskPCs, AfterPCs
  <2>2. CASE Return(h) /\ UNCHANGED vruns
    BY <1>3, <2>1, <2>2
  <2>3. CASE r \in Live /\ SaveRun(r, [vruns[r] EXCEPT !.task = TRUE]) /\ Goto(h, "mark")
    <3> DEFINE saved == [vruns[r] EXCEPT !.task = TRUE]
               rec == [proc[h] EXCEPT !.pc = "mark"]
    <3>1. /\ saved.st = vruns[r].st /\ saved.scope = vruns[r].scope /\ saved.collect = vruns[r].collect
          /\ saved.given = vruns[r].given
      BY <1>0, <2>1 DEF RunRows
    <3>2. saved.collect => saved.scope.phase = "probe"
      BY <2>1, <3>1 DEF Offers
    <3>3. rec.pc = "mark" /\ rec.run = r /\ Become(h, rec)
      BY <1>0, <2>3 DEF ProcRecords, Goto, Become
    <3>4. SaveRun(r, saved) /\ vruns[r].st \in RunStatus
      BY <2>3 DEF Live
    <3> HIDE DEF saved, rec
    <3>5. Follows(rec)
      BY <2>1, <3>3 DEF Follows, TaskPCs, AfterPCs
    <3>6. saved.collect => vruns[r].collect /\ ~(proc[h].pc \in TaskPCs /\ proc[h].run = r)
      BY <2>1, <3>1
    <3> QED BY <1>0, <2>1, <2>3, <3>1, <3>2, <3>3, <3>4, <3>5, <3>6, OffersSave
  <2> QED BY <1>20, <2>2, <2>3 DEF SaveTask, Alive
<1>21. CASE Mark(h)
  <2>1. scen'.present = scen.present
    <3>1. scen.present \in BOOLEAN
      BY DEF TypeOK, Row
    <3>2. CASE scen.present
      <4>1. \E c : scen' = Stored(c)
        BY <1>21, <3>2 DEF Mark, SaveChecks
      <4>2. scen'.present = TRUE
        BY <4>1 DEF Stored
      <4> QED BY <3>1, <3>2, <4>2
    <3>3. CASE ~scen.present
      BY <1>21, <3>3 DEF Mark
    <3> QED BY <3>2, <3>3
  <2> QED BY <1>3, <1>21, <2>1 DEF Mark, At, TaskPCs, AfterPCs, broker
<1> QED
  BY <1>5, <1>6, <1>7, <1>8, <1>9, <1>10, <1>12, <1>13, <1>14, <1>15, <1>16, <1>17, <1>18, <1>19, <1>20, <1>21
  DEF Request, HandlerStep

(* Every step of a task keeps it: a run that does not end well takes back  *)
(* what it offered.                                                        *)
LEMMA TaskOffers ==
  ASSUME TypeOK, Held, Offers, NEW p \in Procs, TaskStep(p)
  PROVE  Offers'
<1> DEFINE r == proc[p].run
           scope == proc[p].scope
<1>0. /\ proc[p] \in ProcRecords /\ vruns \in [RunIds -> RunRows] /\ Live \subseteq RunIds
      /\ proc \in [Procs -> ProcRecords] /\ scen.present \in BOOLEAN
  BY DEF TypeOK, Live, Row
<1>1. proc[p].pc \in TaskPCs \cup AfterPCs /\ r \in RunIds
  <2>1. proc[p].pc \in TaskPCs \cup AfterPCs
    BY <1>0 DEF TaskStep, TaskLosesRow, TaskLoad, TaskMarkScenario, TaskMarkRun, CollectSelect, TaskSaveScenario,
       TaskSaveRun, TaskReturn, TaskRaise, TaskFailScenario, TaskFailRun, CollectDone, TaskCheck, InTask, At,
       TaskPCs, AfterPCs
  <2>2. Holds(p, proc[p])
    BY DEF Held
  <2> QED BY <2>1, <2>2 DEF Holds, RunPCs
<1>2. Follows(Idle) /\ Idle.pc \notin TaskPCs \cup AfterPCs
  BY DEF Follows, Idle, RunPCs, TaskPCs, AfterPCs
<1>3. \A c : scen.present /\ scen' = Stored(c) => scen'.present = scen.present
  BY <1>0 DEF Stored
<1>4. \A pc \in TaskPCs : /\ [proc[p] EXCEPT !.pc = pc].pc = pc /\ [proc[p] EXCEPT !.pc = pc].run = r
                          /\ [proc[p] EXCEPT !.pc = pc].scope = scope
                          /\ \A c : LET rec == [proc[p] EXCEPT !.pc = pc, !.seen = c]
                                    IN  rec.pc = pc /\ rec.run = r /\ rec.scope = scope
  BY <1>0 DEF ProcRecords
<1>5. \A k, ok : Checked(p, k, ok).pc = "check" /\ Checked(p, k, ok).run = r /\ Checked(p, k, ok).scope = scope
  BY <1>0 DEF Checked, ProcRecords
<1>6. CASE TaskLosesRow(p)
  <2>1. r \notin Live
    BY <1>6 DEF TaskLosesRow, Alive, Offers
  <2>2. Become(p, Idle) /\ UNCHANGED <<scen, vruns, queue, dead>>
    BY <1>6 DEF TaskLosesRow, EndTask, Return
  <2> QED BY <1>2, <2>1, <2>2, OffersMove DEF Offers
<1>7. CASE TaskLoad(p)
  <2> DEFINE rec == [proc[p] EXCEPT !.pc = "markScenario", !.seen = scen.checks]
  <2>1. rec.pc = "markScenario" /\ rec.run = r /\ rec.scope = scope
    BY <1>0 DEF ProcRecords
  <2>2. Become(p, rec) /\ UNCHANGED <<scen, vruns, queue, dead>>
    BY <1>7 DEF TaskLoad, broker
  <2> HIDE DEF rec
  <2> QED BY <1>1, <2>1, <2>2, OffersStay DEF TaskPCs, AfterPCs
<1>8. CASE TaskMarkScenario(p)
  <2>1. PICK c : Become(p, [proc[p] EXCEPT !.pc = "markRun", !.seen = c]) /\ scen' = Stored(c)
    BY <1>8 DEF TaskMarkScenario, SaveChecks
  <2>2. scen.present /\ UNCHANGED <<vruns, queue, dead>>
    BY <1>8 DEF TaskMarkScenario, InTask, broker
  <2> DEFINE rec == [proc[p] EXCEPT !.pc = "markRun", !.seen = c]
  <2>3. rec.pc = "markRun" /\ rec.run = r /\ rec.scope = scope /\ Become(p, rec)
    BY <1>0, <2>1 DEF ProcRecords
  <2> HIDE DEF rec
  <2> QED BY <1>1, <1>3, <2>1, <2>2, <2>3, OffersStay DEF TaskPCs, AfterPCs
<1>9. CASE TaskMarkRun(p)
  <2> DEFINE saved == [vruns[r] EXCEPT !.st = "RUNNING", !.task = @ \/ p \in Workers, !.collect = Probing(scope)]
             rec == [proc[p] EXCEPT !.pc = "check", !.left = scope.kinds]
  <2>1. saved.st = "RUNNING" /\ saved.scope = vruns[r].scope /\ saved.collect = Probing(scope)
    BY <1>0, <1>1 DEF RunRows
  <2>2. rec.pc = "check" /\ rec.run = r /\ rec.scope = scope
    BY <1>0 DEF ProcRecords
  <2>3. r \in Live /\ SaveRun(r, saved) /\ Become(p, rec) /\ UNCHANGED <<scen, queue, dead>>
    BY <1>9 DEF TaskMarkRun, InTask, Alive, broker
  <2>4. scope = vruns[r].scope /\ vruns[r].st # "UNUSED"
    BY <1>1, <2>3 DEF Offers, RunPCs
  <2>5. saved.collect => saved.scope.phase = "probe"
    BY <2>1, <2>4 DEF Probing
  <2> HIDE DEF saved, rec
  <2>6. Follows(rec) /\ "RUNNING" \in RunStatus /\ "check" \in TaskPCs
    BY <1>1, <2>2, <2>4 DEF Follows, RunStatus, Active, TaskPCs, AfterPCs
  <2> QED BY <1>1, <2>1, <2>2, <2>3, <2>5, <2>6, OffersSave
<1>10. ASSUME NEW k \in Kinds, NEW ok \in BOOLEAN, TaskCheck(p, k, ok) PROVE Offers'
  BY <1>1, <1>5, <1>10, OffersStay DEF TaskCheck, TaskPCs, AfterPCs, broker
<1>11. CASE CollectSelect(p)
  <2>1. UNCHANGED <<scen, vruns, queue, dead>>
    BY <1>11 DEF CollectSelect, broker
  <2>2. CASE Become(p, Checked(p, "actions", FALSE))
    BY <1>1, <1>5, <2>1, <2>2, OffersStay DEF TaskPCs, AfterPCs
  <2>3. ASSUME NEW q, Become(p, [proc[p] EXCEPT !.pc = "collecting", !.src = q]) PROVE Offers'
    <3> DEFINE rec == [proc[p] EXCEPT !.pc = "collecting", !.src = q]
    <3>1. rec.pc = "collecting" /\ rec.run = r /\ rec.scope = scope /\ Become(p, rec)
      BY <1>0, <2>3 DEF ProcRecords
    <3> HIDE DEF rec
    <3> QED BY <1>1, <2>1, <3>1, OffersStay DEF TaskPCs, AfterPCs
  <2> QED BY <1>11, <2>2, <2>3 DEF CollectSelect
<1>12. ASSUME NEW ok \in BOOLEAN, CollectDone(p, ok) PROVE Offers'
  <2> DEFINE q == proc[p].src
             rec == Checked(p, "actions", ok)
  <2>1. Become(p, rec) /\ UNCHANGED <<scen, queue, dead>> /\ proc[p].pc = "collecting" /\ r \in Live
    BY <1>12 DEF CollectDone, InTask, At, Alive, broker
  <2>2. rec.pc = "check" /\ rec.run = r /\ rec.scope = scope
    BY <1>5
  <2>3. CASE vruns' = vruns
    BY <1>1, <2>1, <2>2, <2>3, OffersStay DEF TaskPCs, AfterPCs
  <2>4. CASE q \in Live /\ SaveRun(q, [vruns[q] EXCEPT !.collect = FALSE])
    <3> DEFINE saved == [vruns[q] EXCEPT !.collect = FALSE]
    <3>1. saved.st = vruns[q].st /\ saved.scope = vruns[q].scope /\ saved.collect = FALSE /\ SaveRun(q, saved)
      BY <1>0, <2>4 DEF RunRows
    <3>2. vruns[q].st \in RunStatus
      BY <2>4 DEF Live
    <3>3. scope = vruns[r].scope /\ vruns[r].st # "UNUSED"
      BY <1>1, <2>1 DEF Offers, RunPCs
    <3> HIDE DEF saved, rec
    <3>4. Follows(rec) /\ "check" \in TaskPCs
      BY <1>1, <2>2, <3>3 DEF Follows, TaskPCs, AfterPCs
    <3> QED BY <2>1, <2>2, <2>4, <3>1, <3>2, <3>4, OffersSave
  <2>5. CASE q \notin Live /\ SaveRun(q, [vruns[q] EXCEPT !.collect = FALSE])
    <3>1. q \in RunIds
      BY <2>1 DEF Held, Holds
    <3>2. vruns' = [vruns EXCEPT ![q] = [vruns[q] EXCEPT !.collect = FALSE]]
      BY <2>5 DEF SaveRun
    <3>3. /\ \A x \in RunIds : /\ vruns'[x].st = vruns[x].st /\ vruns'[x].scope = vruns[x].scope
                              /\ vruns'[x].given = vruns[x].given /\ (vruns'[x].collect => vruns[x].collect)
      BY <1>0, <3>1, <3>2 DEF RunRows
    <3>4. Live' = Live
      BY <3>3 DEF Live
    <3>5. \A x \in Procs : proc'[x].run = proc[x].run /\ proc'[x].scope = proc[x].scope /\ (proc'[x].pc = proc[x].pc \/ x = p)
      BY <1>0, <2>1, <2>2 DEF Become
    <3>6. proc'[p].pc = "check" /\ "check" \in TaskPCs /\ "check" \in RunPCs /\ proc[p].pc \in RunPCs \cap TaskPCs
          /\ "check" \notin AfterPCs /\ proc[p].pc \notin AfterPCs
      BY <1>0, <1>1, <2>1, <2>2 DEF Become, TaskPCs, AfterPCs, RunPCs
    <3>7. \A x \in Procs : /\ proc'[x].pc \in TaskPCs <=> proc[x].pc \in TaskPCs
                           /\ proc'[x].pc \in AfterPCs <=> proc[x].pc \in AfterPCs
                           /\ proc'[x].pc \in RunPCs <=> proc[x].pc \in RunPCs
      BY <1>1, <3>5, <3>6
    <3>8. \A x \in Procs : proc[x].pc \in RunPCs => proc[x].run \in RunIds
      BY DEF Held, Holds
    <3>9. OfferedProbesSucceeded'
      BY <1>0, <2>1, <3>3, <3>4, <3>5, <3>7 DEF Offers, OfferedProbesSucceeded
    <3>10. \A x \in Procs : /\ proc'[x].pc \in TaskPCs \cup AfterPCs /\ proc'[x].run \in Live'
                               => proc'[x].scope = vruns'[proc'[x].run].scope
                            /\ proc'[x].pc \in RunPCs => vruns'[proc'[x].run].st # "UNUSED"
      BY <1>0, <3>3, <3>4, <3>5, <3>7, <3>8 DEF Offers
    <3>11. queue \subseteq RunIds
      BY DEF TypeOK
    <3>12. \A x \in RunIds : vruns'[x].collect => vruns'[x].scope.phase = "probe"
      BY <3>3 DEF Offers
    <3>13. \A x \in queue' : vruns'[x].st # "UNUSED"
      BY <2>1, <3>3, <3>11 DEF Offers
    <3>14. ~scen'.present => Live' = {}
      BY <2>1, <3>4 DEF Offers
    <3> QED BY <3>9, <3>10, <3>12, <3>13, <3>14 DEF Offers
  <2> QED BY <1>12, <2>3, <2>4, <2>5 DEF CollectDone
<1>13. CASE TaskSaveScenario(p)
  <2>1. PICK c : Become(p, [proc[p] EXCEPT !.pc = "saveRun", !.seen = c]) /\ scen' = Stored(c)
    BY <1>13 DEF TaskSaveScenario, SaveChecks
  <2>2. scen.present /\ UNCHANGED <<vruns, queue, dead>>
    BY <1>13 DEF TaskSaveScenario, InTask, broker
  <2> DEFINE rec == [proc[p] EXCEPT !.pc = "saveRun", !.seen = c]
  <2>3. rec.pc = "saveRun" /\ rec.run = r /\ rec.scope = scope /\ Become(p, rec)
    BY <1>0, <2>1 DEF ProcRecords
  <2> HIDE DEF rec
  <2> QED BY <1>1, <1>3, <2>1, <2>2, <2>3, OffersStay DEF TaskPCs, AfterPCs
<1>14. ASSUME NEW st \in {"SUCCEEDED", "FAILED"}, NEW ok \in BOOLEAN, ok => st = "SUCCEEDED", r \in Live,
              SaveRun(r, [vruns[r] EXCEPT !.st = st, !.collect = Offered(vruns[r], scope, ok)]),
              NEW rec, Become(p, rec), Follows(rec), rec.pc \notin TaskPCs, UNCHANGED <<scen, queue, dead>>
       PROVE  Offers'
  <2> DEFINE saved == [vruns[r] EXCEPT !.st = st, !.collect = Offered(vruns[r], scope, ok)]
  <2>1. saved.st = st /\ saved.scope = vruns[r].scope /\ saved.collect = Offered(vruns[r], scope, ok)
    BY <1>0, <1>1 DEF RunRows
  <2>2. scope = vruns[r].scope /\ (vruns[r].collect => vruns[r].scope.phase = "probe")
    BY <1>1, <1>14 DEF Offers
  <2>3. Offered(vruns[r], scope, ok) => scope.phase = "probe" /\ ok
    BY <2>2 DEF Offered
  <2>4. saved.st \in RunStatus /\ SaveRun(r, saved)
    BY <1>14, <2>1 DEF RunStatus
  <2> HIDE DEF saved
  <2> QED BY <1>1, <1>2, <1>14, <2>1, <2>2, <2>3, <2>4, OffersSave
<1>15. CASE TaskSaveRun(p)
  <2> DEFINE rec == [proc[p] EXCEPT !.pc = "saved"]
  <2>0. rec.pc = "saved" /\ rec.run = r /\ rec.scope = scope /\ proc[p].pc \in RunPCs
    BY <1>0, <1>1 DEF ProcRecords, RunPCs
  <2>1. r \in Live /\ Become(p, rec) /\ UNCHANGED <<scen, queue, dead>>
    BY <1>15 DEF TaskSaveRun, InTask, Alive, Goto, Become, broker
  <2>2. SaveRun(r, [vruns[r] EXCEPT !.st = IF proc[p].bad = {} THEN "SUCCEEDED" ELSE "FAILED",
                                    !.collect = Offered(vruns[r], scope, proc[p].bad = {})])
    BY <1>15 DEF TaskSaveRun
  <2> HIDE DEF rec
  <2>5. Follows(rec) /\ rec.pc \notin TaskPCs
    BY <1>1, <2>0 DEF Follows, Offers, TaskPCs
  <2>3. CASE proc[p].bad = {}
    <3>1. (proc[p].bad = {}) = TRUE
      BY <2>3
    <3>2. SaveRun(r, [vruns[r] EXCEPT !.st = "SUCCEEDED", !.collect = Offered(vruns[r], scope, TRUE)])
      BY <2>2, <2>3, <3>1
    <3> QED BY <1>14, <2>1, <2>5, <3>2
  <2>4. CASE proc[p].bad # {}
    <3>1. (proc[p].bad = {}) = FALSE
      BY <2>4
    <3>2. SaveRun(r, [vruns[r] EXCEPT !.st = "FAILED", !.collect = Offered(vruns[r], scope, FALSE)])
      BY <2>2, <2>4, <3>1
    <3> QED BY <1>14, <2>1, <2>5, <3>2
  <2> QED BY <2>3, <2>4
<1>16. CASE TaskRaise(p)
  <2>1. PICK pc \in {"failScenario", "undoScenario"} :
          /\ Become(p, [proc[p] EXCEPT !.pc = pc, !.src = NoRun, !.left = {}, !.bad = {}])
          /\ pc = "undoScenario" => proc[p].pc = "saved"
    BY <1>16 DEF TaskRaise
  <2> DEFINE rec == [proc[p] EXCEPT !.pc = pc, !.src = NoRun, !.left = {}, !.bad = {}]
  <2>2. rec.pc = pc /\ rec.run = r /\ rec.scope = scope /\ Become(p, rec)
    BY <1>0, <2>1 DEF ProcRecords
  <2>3. UNCHANGED <<scen, vruns, queue, dead>>
    BY <1>16 DEF TaskRaise, broker
  <2> HIDE DEF rec
  <2> QED BY <1>1, <2>1, <2>2, <2>3, OffersStay DEF TaskPCs, AfterPCs
<1>17. CASE TaskFailScenario(p)
  <2>1. PICK pc \in {"failRun", "undoRun"} : /\ Become(p, [proc[p] EXCEPT !.pc = pc, !.seen = Unknown])
                                             /\ pc = "undoRun" => proc[p].pc = "undoScenario"
    BY <1>17 DEF TaskFailScenario, InTask, At
  <2> DEFINE rec == [proc[p] EXCEPT !.pc = pc, !.seen = Unknown]
  <2>2. rec.pc = pc /\ rec.run = r /\ rec.scope = scope /\ Become(p, rec)
    BY <1>0, <2>1 DEF ProcRecords
  <2>3. UNCHANGED <<vruns, queue, dead>> /\ scen.present /\ \E c : scen' = Stored(c)
    BY <1>17 DEF TaskFailScenario, InTask, SaveChecks, broker
  <2> HIDE DEF rec
  <2> QED BY <1>1, <1>3, <2>1, <2>2, <2>3, OffersStay DEF TaskPCs, AfterPCs
<1>18. CASE TaskFailRun(p)
  <2>1. /\ r \in Live /\ Become(p, Idle) /\ UNCHANGED <<scen, queue, dead>>
        /\ SaveRun(r, [vruns[r] EXCEPT !.st = "FAILED", !.collect = Offered(vruns[r], scope, FALSE)])
    BY <1>18 DEF TaskFailRun, InTask, Alive, EndTask, Return
  <2> QED BY <1>2, <1>14, <2>1
<1>19. CASE TaskReturn(p)
  <2>1. proc[p].pc \notin TaskPCs /\ Become(p, Idle) /\ UNCHANGED <<scen, vruns, queue, dead>>
    BY <1>19 DEF TaskReturn, InTask, At, EndTask, Return, TaskPCs
  <2> QED BY <1>2, <2>1, OffersMove DEF Offers
<1> QED
  BY <1>6, <1>7, <1>8, <1>9, <1>10, <1>11, <1>12, <1>13, <1>15, <1>16, <1>17, <1>18, <1>19 DEF TaskStep

(* A worker that takes a message works for the scope of its run; one that  *)
(* dies leaves its run among the dead.                                     *)
LEMMA WorkerOffers ==
  ASSUME TypeOK, Held, Offers, NEW w \in Workers, Crash(w) \/ \E r \in RunIds : Deliver(w, r)
  PROVE  Offers'
<1>0. w \in Procs /\ Follows(Idle) /\ "idle" \notin TaskPCs
  BY DEF Procs, Follows, Idle, RunPCs, TaskPCs, AfterPCs
<1>1. CASE Crash(w)
  <2>1. Become(w, Idle) /\ dead \subseteq dead' /\ proc[w].run \in dead' /\ UNCHANGED <<scen, vruns, queue>>
    BY <1>1 DEF Crash, Return, broker
  <2> QED BY <1>0, <2>1, OffersMove DEF Offers
<1>2. ASSUME NEW r \in RunIds, Deliver(w, r) PROVE Offers'
  <2>1. /\ proc[w].pc = "idle" /\ UNCHANGED <<scen, vruns, dead>> /\ queue' \subseteq queue
        /\ vruns[r].st # "UNUSED"
    BY <1>2 DEF Deliver, At, Offers
  <2>2. CASE Become(w, TaskOf(r))
    <3>1. TaskOf(r).run = r /\ TaskOf(r).scope = vruns[r].scope
      BY <1>0, Begins
    <3>2. Follows(TaskOf(r))
      BY <2>1, <3>1 DEF Follows
    <3> QED BY <1>0, <2>1, <2>2, <3>2, OffersMove DEF Offers
  <2>3. CASE UNCHANGED proc
    BY <2>1, <2>3 DEF Offers, OfferedProbesSucceeded, Live
  <2> QED BY <1>2, <2>2, <2>3 DEF Deliver
<1> QED BY <1>1, <1>2

(* Metrics are offered only by probes that are under way or succeeded,     *)
(* however many runs, tasks and cleans overlap.                            *)
THEOREM OfferedSucceeded == Spec => []OfferedProbesSucceeded
<1>1. Init => TypeOK /\ Held /\ Offers
  <2> SUFFICES ASSUME Init PROVE TypeOK /\ Held /\ Offers
    OBVIOUS
  <2>1. TypeOK
    BY StoredType, ChecksType, BlankType, IdleType DEF Init, TypeOK, Fresh
  <2>2. Held
    BY DEF Init, Held, Holds, Idle, RunPCs, TaskPCs, AfterPCs
  <2>3. \A r \in RunIds : vruns[r].collect = FALSE /\ vruns[r].st = "UNUSED"
    BY DEF Init, Blank
  <2>4. "UNUSED" \notin RunStatus /\ queue = {} /\ \A p \in Procs : proc[p].pc = "idle"
    BY DEF Init, RunStatus, Active, Idle
  <2>5. Live = {}
    BY <2>3, <2>4 DEF Live
  <2>6. Offers
    BY <2>3, <2>4, <2>5 DEF Offers, OfferedProbesSucceeded, RunPCs, TaskPCs, AfterPCs
  <2> QED BY <2>1, <2>2, <2>6
<1>2. TypeOK /\ Held /\ Offers /\ [Next]_vars => Offers'
  <2> SUFFICES ASSUME TypeOK, Held, Offers, [Next]_vars PROVE Offers'
    OBVIOUS
  <2>1. CASE UNCHANGED vars
    BY <2>1 DEF vars, Offers, OfferedProbesSucceeded, Live
  <2> QED BY <2>1, RequestOffers, TaskOffers, WorkerOffers DEF Next
<1>3. TypeOK /\ Held /\ Offers /\ [Next]_vars => (TypeOK /\ Held /\ Offers)'
  BY <1>2, TypesKept, HeldKept
<1>4. Offers => OfferedProbesSucceeded
  BY DEF Offers
<1> QED BY <1>1, <1>3, <1>4, PTL DEF Spec


---------------------------------------------------------------------------
(* One task per scope *)

(* One thread handles all requests.                                        *)
Alone == \A h, g \in Handlers : h = g

(* The process whose task is that of a run, the one that still executes it, *)
(* and the runs that were ever created.                                    *)
Carried(p, r) == proc[p].run = r /\ proc[p].pc \in TaskPCs \cup AfterPCs
Executes(p, r) == proc[p].run = r /\ proc[p].pc \in TaskPCs
Created(r) == vruns[r].st # "UNUSED"

(* A run is executed once: its message is consumed by the one process that *)
(* carries it.                                                             *)
OneCarrier ==
  \A p \in Procs, r \in RunIds :
    Carried(p, r) => r \notin queue /\ \A q \in Procs : Carried(q, r) => q = p

(* Keys are given in order, and nobody gives up a run that does not exist. *)
LastUnused ==
  \A r \in RunIds : ~Created(r) => ~GivenUp(r) /\ \A q \in RunIds : q > r => ~Created(q)

(* A run in hand that nobody gave up is still looked for: its task is in   *)
(* the broker or in somebody's hands, and its row is the row of a live run *)
(* or the handler itself executes it.                                      *)
InHand(r) == r \in Live /\ Executing(r) /\ ~GivenUp(r)
Visible ==
  \A r \in RunIds : InHand(r) => vruns[r].st \in Active \/ \E h \in Handlers : Carried(h, r)

(* The run that is being sent is the youngest, and is in nobody's hands.   *)
NewRun ==
  \A h \in Handlers :
    proc[h].pc \in {"send", "refused"} =>
      /\ proc[h].run \notin queue /\ \A p \in Procs : ~Carried(p, proc[h].run)
      /\ \A x \in RunIds : x > proc[h].run => ~Created(x)
      /\ proc[h].pc = "send" /\ proc[h].run \in Live /\ ~GivenUp(proc[h].run) =>
            vruns[proc[h].run].st \in Active

(* What a handler found out when it looked for runs of its scope: a run in *)
(* hand stands in its way only if a younger one was given up in its place, *)
(* or will be.                                                             *)
Yielded(r) == \E x \in RunIds : x > r /\ InsteadOf(x, r)
MayCreate(s) == \A r \in RunIds : InHand(r) /\ vruns[r].scope = s => Yielded(r)
MayRelease(s, n) ==
  \A r \in RunIds :
    InHand(r) /\ vruns[r].scope = s =>
      r = n \/ Yielded(r) \/ (r < n /\ vruns[n].scope # s /\ SameScope(s, vruns[n].scope))
Asks(h) ==
  /\ proc[h].pc = "create" => MayCreate(proc[h].scope)
  /\ proc[h].pc = "release" => MayRelease(proc[h].scope, proc[h].run)
Asked == \A h \in Handlers : Asks(h)

InTurn == OneCarrier /\ LastUnused /\ Visible /\ NewRun /\ Asked /\ OneTaskPerScope

(* A step that gives up runs, ends tasks or hands on the runs of N, and    *)
(* takes up no others, keeps the account of who executes what.             *)
LEMMA InTurnKept ==
  ASSUME TypeOK, Held, InTurn, NEW N \in SUBSET RunIds,
         \A r \in RunIds :
           /\ vruns'[r].scope = vruns[r].scope /\ (GivenUp(r) => GivenUp(r)') /\ (r \in Live' => r \in Live)
           /\ Created(r)' <=> Created(r)
           /\ ~Created(r) /\ GivenUp(r)' => GivenUp(r),
         \A r \in RunIds :
           \/ vruns'[r].st = vruns[r].st \/ vruns'[r].st \in Active \/ GivenUp(r)' \/ r \in N
           \/ \E p \in Procs : Carried(p, r) /\ ~Executes(p, r)',
         queue' \subseteq queue \cup N, revoked \subseteq revoked',
         \A n \in N : /\ n \notin queue /\ (\A p \in Procs : ~Carried(p, n)) /\ \A x \in RunIds : x > n => ~Created(x)
                      /\ InHand(n)' => vruns'[n].st \in Active \/ \E h \in Handlers : Carried(h, n)',
         \A p \in Procs, r \in RunIds :
           Carried(p, r)' /\ ~Carried(p, r) =>
             r \notin queue' /\ r \in N \cup (queue \ revoked) /\ \A q \in Procs : Carried(q, r)' => q = p,
         \A p \in Procs, r \in RunIds : Executes(p, r)' /\ Carried(p, r) => Executes(p, r),
         \A h \in Handlers : /\ proc'[h].pc \in {"send", "refused"} =>
                                  N = {} /\ proc[h].run = proc'[h].run /\ proc[h].pc \in {"send", "refused"}
                             /\ proc'[h].pc = "send" => proc[h].pc = "send"
                             /\ Asks(h)' \/ (N = {} /\ proc'[h] = proc[h])
  PROVE  InTurn'
<1>0. Handlers \subseteq Procs /\ Live \subseteq RunIds /\ queue \subseteq RunIds
  BY DEF Procs, Live, TypeOK
<1>1. ASSUME NEW r \in RunIds, Executing(r)' PROVE Executing(r) \/ r \in N
  <2>1. CASE r \in queue' \ revoked'
    BY <2>1 DEF Executing
  <2>2. ASSUME NEW p \in Procs, Executes(p, r)' PROVE Executing(r) \/ r \in N
    <3>1. CASE Carried(p, r)
      BY <2>2, <3>1 DEF Executing, Executes
    <3>2. CASE ~Carried(p, r)
      <4>1. r \in N \cup (queue \ revoked)
        BY <2>2, <3>2 DEF Carried, Executes
      <4> QED BY <4>1 DEF Executing
    <3> QED BY <3>1, <3>2
  <2> QED BY <1>1, <2>1, <2>2 DEF Executing, Executes
<1>2. ASSUME NEW r \in RunIds, InHand(r)' PROVE InHand(r) \/ r \in N
  BY <1>1, <1>2 DEF InHand
<1>3. ASSUME NEW x \in RunIds, NEW r \in RunIds, InsteadOf(x, r) PROVE InsteadOf(x, r)'
  BY <1>3 DEF InsteadOf
<1>4. ASSUME NEW r \in RunIds, Yielded(r) PROVE Yielded(r)'
  BY <1>3, <1>4 DEF Yielded
<1>5. ASSUME NEW p \in Procs, NEW r \in RunIds, Carried(p, r)'
      PROVE  r \notin queue' /\ \A q \in Procs : Carried(q, r)' => q = p
  <2>1. CASE ~Carried(p, r)
    BY <1>5, <2>1
  <2>2. CASE Carried(p, r)
    <3>1. r \notin queue /\ r \notin N /\ \A q \in Procs : Carried(q, r) => q = p
      BY <2>2 DEF InTurn, OneCarrier
    <3>2. ASSUME NEW q \in Procs, Carried(q, r)' PROVE q = p
      <4>1. CASE Carried(q, r)
        BY <3>1, <4>1
      <4>2. CASE ~Carried(q, r)
        BY <1>5, <3>2, <4>2
      <4> QED BY <4>1, <4>2
    <3> QED BY <3>1, <3>2
  <2> QED BY <2>1, <2>2
<1>6. ASSUME NEW p \in Procs, NEW r \in RunIds, Carried(p, r), ~Executes(p, r)' PROVE ~Executing(r)'
  <2>1. r \notin queue /\ r \notin N /\ \A q \in Procs : Carried(q, r) => q = p
    BY <1>6 DEF InTurn, OneCarrier
  <2>2. ASSUME NEW q \in Procs, Executes(q, r)' PROVE FALSE
    <3>1. Carried(q, r)'
      BY <2>2 DEF Carried, Executes
    <3>2. Carried(q, r)
      BY <2>1, <3>1
    <3> QED BY <1>6, <2>1, <2>2, <3>2
  <2> QED BY <2>1, <2>2 DEF Executing, Executes
<1>7. OneCarrier'
  BY <1>5 DEF OneCarrier
<1>8. LastUnused'
  <2> SUFFICES ASSUME NEW r \in RunIds, ~Created(r)' PROVE ~GivenUp(r)' /\ \A q \in RunIds : q > r => ~Created(q)'
    BY DEF LastUnused
  <2>1. ~Created(r)
    BY DEF Created
  <2>2. ~GivenUp(r) /\ \A q \in RunIds : q > r => ~Created(q)
    BY <2>1 DEF InTurn, LastUnused
  <2> QED BY <2>1, <2>2
<1>9. Visible'
  <2> SUFFICES ASSUME NEW r \in RunIds, InHand(r)'
               PROVE  vruns'[r].st \in Active \/ \E h \in Handlers : Carried(h, r)'
    BY DEF Visible
  <2>1. CASE r \in N
    BY <2>1
  <2>2. CASE r \notin N
    <3>1. InHand(r) /\ Executing(r)' /\ ~GivenUp(r)'
      BY <1>2, <2>2 DEF InHand
    <3>2. vruns'[r].st = vruns[r].st \/ vruns'[r].st \in Active
      BY <1>6, <2>2, <3>1
    <3>3. vruns[r].st \in Active \/ \E h \in Handlers : Carried(h, r)
      BY <3>1 DEF InTurn, Visible
    <3>4. ASSUME NEW h \in Handlers, Carried(h, r) PROVE Carried(h, r)'
      <4>1. Executes(h, r)'
        BY <1>0, <1>6, <3>1, <3>4
      <4> QED BY <4>1 DEF Carried, Executes
    <3> QED BY <3>2, <3>3, <3>4
  <2> QED BY <2>1, <2>2
<1>10. NewRun'
  <2> SUFFICES ASSUME NEW h \in Handlers, proc'[h].pc \in {"send", "refused"}
               PROVE  /\ proc'[h].run \notin queue' /\ \A p \in Procs : ~Carried(p, proc[h].run)'
                      /\ proc'[h].run = proc[h].run
                      /\ \A x \in RunIds : x > proc[h].run => ~Created(x)'
                      /\ proc'[h].pc = "send" /\ proc[h].run \in Live' /\ ~GivenUp(proc[h].run)' =>
                            vruns'[proc[h].run].st \in Active
    BY DEF NewRun, Created, Carried, GivenUp
  <2>0. PICK n : n = proc[h].run
    OBVIOUS
  <2>1. N = {} /\ proc[h].pc \in {"send", "refused"} /\ proc'[h].run = n
    BY <2>0
  <2>2. n \in RunIds
    BY <1>0, <2>0, <2>1 DEF Held, Holds, RunPCs
  <2>3. /\ n \notin queue /\ \A p \in Procs : ~Carried(p, n)
        /\ \A x \in RunIds : x > n => ~Created(x)
        /\ proc[h].pc = "send" /\ n \in Live /\ ~GivenUp(n) => vruns[n].st \in Active
    BY <2>0, <2>1 DEF InTurn, NewRun
  <2>4. \A p \in Procs : ~Carried(p, n)'
    BY <2>1, <2>2, <2>3
  <2>5. ASSUME NEW x \in RunIds, x > n PROVE ~Created(x)'
    BY <2>3, <2>5
  <2>6. proc'[h].pc = "send" /\ n \in Live' /\ ~GivenUp(n)' => vruns'[n].st \in Active
    <3>1. ASSUME proc'[h].pc = "send", n \in Live', ~GivenUp(n)' PROVE vruns'[n].st \in Active
      <4>1. proc[h].pc = "send" /\ n \in Live /\ ~GivenUp(n)
        BY <2>2, <3>1
      <4>2. vruns[n].st \in Active
        BY <2>3, <4>1
      <4>3. vruns'[n].st = vruns[n].st \/ vruns'[n].st \in Active
        BY <2>1, <2>2, <2>3, <3>1
      <4> QED BY <4>2, <4>3
    <3> QED BY <3>1
  <2> QED BY <2>0, <2>1, <2>3, <2>4, <2>5, <2>6
<1>11. Asked'
  <2> SUFFICES ASSUME NEW h \in Handlers PROVE Asks(h)'
    BY DEF Asked
  <2>1. CASE Asks(h)'
    BY <2>1
  <2>2. CASE N = {} /\ proc'[h] = proc[h]
    <3>0. PICK s, n : s = proc[h].scope /\ n = proc[h].run
      OBVIOUS
    <3>1. Asks(h)
      BY DEF InTurn, Asked
    <3>2. ASSUME MayCreate(s) PROVE MayCreate(s)'
      <4> SUFFICES ASSUME NEW r \in RunIds, InHand(r)', vruns'[r].scope = s PROVE Yielded(r)'
        BY DEF MayCreate
      <4>1. InHand(r) /\ vruns[r].scope = s
        BY <1>2, <2>2
      <4> QED BY <1>4, <3>2, <4>1 DEF MayCreate
    <3>3. ASSUME MayRelease(s, n), n \in RunIds PROVE MayRelease(s, n)'
      <4> SUFFICES ASSUME NEW r \in RunIds, InHand(r)', vruns'[r].scope = s
                   PROVE  r = n \/ Yielded(r)' \/ (r < n /\ vruns'[n].scope # s /\ SameScope(s, vruns'[n].scope))
        BY DEF MayRelease
      <4>1. InHand(r) /\ vruns[r].scope = s
        BY <1>2, <2>2
      <4>2. vruns'[n].scope = vruns[n].scope
        BY <3>3
      <4> QED BY <1>4, <3>3, <4>1, <4>2 DEF MayRelease
    <3>4. proc[h].pc = "release" => n \in RunIds
      BY <1>0, <3>0 DEF Held, Holds, RunPCs
    <3> QED BY <2>2, <3>0, <3>1, <3>2, <3>3, <3>4 DEF Asks
  <2> QED BY <2>1, <2>2
<1>12. OneTaskPerScope'
  <2> SUFFICES ASSUME NEW r \in Live', NEW q \in Live', r < q, vruns'[r].scope = vruns'[q].scope, Executing(r)'
               PROVE  GivenUp(r)' \/ \E x \in (r + 1)..(q - 1) : InsteadOf(x, r)'
    BY DEF OneTaskPerScope
  <2>1. r \in RunIds /\ q \in RunIds /\ r \in Live /\ q \in Live /\ vruns[r].scope = vruns[q].scope
    BY DEF Live
  <2>2. Created(q)
    BY <2>1 DEF Live, Created, RunStatus, Active
  <2>3. Executing(r)
    BY <1>1, <2>1, <2>2 DEF RunIds
  <2>4. GivenUp(r) \/ \E x \in (r + 1)..(q - 1) : InsteadOf(x, r)
    BY <2>1, <2>3 DEF InTurn, OneTaskPerScope
  <2>5. \A x \in (r + 1)..(q - 1) : x \in RunIds
    <3>1. r \in RunIds /\ q \in RunIds
      BY <2>1
    <3> QED BY <3>1, InputsAssumption DEF RunIds
  <2>6. \A x \in (r + 1)..(q - 1) : InsteadOf(x, r) => InsteadOf(x, r)'
    BY <1>3, <2>1, <2>5
  <2>7. GivenUp(r) => GivenUp(r)'
    BY <2>1
  <2> QED BY <2>4, <2>6, <2>7
<1> QED BY <1>7, <1>8, <1>9, <1>10, <1>11, <1>12 DEF InTurn

(* What a process that goes to pc may write into the row of a run.         *)
Allowed(p, pc, r, row) ==
  /\ row.scope = vruns[r].scope
  /\ \/ row.st = vruns[r].st /\ row.given = vruns[r].given
     \/ /\ r \in Live /\ row.st \in RunStatus /\ (GivenUp(r) => row.given # "no")
        /\ \/ row.st \in Active \/ row.given # "no"
           \/ Carried(p, r) /\ pc \notin TaskPCs

(* A process that takes up no run, and goes back to none it has executed.  *)
GoesOn(p, rec) ==
  /\ rec.pc \in TaskPCs => proc[p].pc \in TaskPCs /\ rec.run = proc[p].run
  /\ rec.pc \in AfterPCs => proc[p].pc \in TaskPCs \cup AfterPCs /\ rec.run = proc[p].run

(* A process that moves on and takes up no run, while at most one row is   *)
(* written: it stays as live as it was, is given up, or is the one the     *)
(* process leaves.                                                         *)
LEMMA InTurnMoves ==
  ASSUME TypeOK, Held, InTurn, NEW p \in Procs, NEW rec, Become(p, rec), queue' = queue, revoked \subseteq revoked',
         GoesOn(p, rec),
         p \in Handlers => rec.pc \notin {"send", "refused"} /\ Asks(p)',
         \/ vruns' = vruns
         \/ \E r \in RunIds : \E row : SaveRun(r, row) /\ Allowed(p, rec.pc, r, row)
  PROVE  InTurn'
<1>0. \A q \in Procs : proc'[q] = IF q = p THEN rec ELSE proc[q]
  BY DEF TypeOK, Become
<1>1. "UNUSED" \notin RunStatus /\ Handlers \subseteq Procs
  BY DEF RunStatus, Active, Procs
<1>2. ASSUME NEW q \in Procs, NEW r \in RunIds, Carried(q, r)' PROVE Carried(q, r)
  BY <1>0, <1>2 DEF Carried, GoesOn
<1>3. /\ \A r \in RunIds : rec.pc \notin TaskPCs => ~Executes(p, r)'
      /\ \A q \in Procs, r \in RunIds : Executes(q, r)' /\ Carried(q, r) => Executes(q, r)
  BY <1>0 DEF Carried, Executes, GoesOn
<1>4. \A h \in Handlers : /\ proc'[h].pc \in {"send", "refused"} => proc'[h] = proc[h]
                          /\ Asks(h)' \/ proc'[h] = proc[h]
  BY <1>0, <1>1
<1>5. ASSUME NEW r \in RunIds
      PROVE  /\ vruns'[r].scope = vruns[r].scope /\ (GivenUp(r) => GivenUp(r)') /\ (r \in Live' => r \in Live)
             /\ Created(r)' <=> Created(r)
             /\ ~Created(r) /\ GivenUp(r)' => GivenUp(r)
             /\ \/ vruns'[r].st = vruns[r].st \/ vruns'[r].st \in Active \/ GivenUp(r)'
                \/ \E q \in Procs : Carried(q, r) /\ ~Executes(q, r)'
  <2>1. CASE vruns'[r].st = vruns[r].st /\ vruns'[r].given = vruns[r].given /\ vruns'[r].scope = vruns[r].scope
    BY <2>1 DEF GivenUp, Live, Created
  <2>2. ASSUME NEW row, vruns'[r] = row, Allowed(p, rec.pc, r, row), r \in Live, row.st \in RunStatus,
               GivenUp(r) => row.given # "no",
               \/ row.st \in Active \/ row.given # "no"
               \/ Carried(p, r) /\ rec.pc \notin TaskPCs
        PROVE  /\ vruns'[r].scope = vruns[r].scope /\ (GivenUp(r) => GivenUp(r)') /\ (r \in Live' => r \in Live)
               /\ Created(r)' <=> Created(r)
               /\ ~Created(r) /\ GivenUp(r)' => GivenUp(r)
               /\ \/ vruns'[r].st = vruns[r].st \/ vruns'[r].st \in Active \/ GivenUp(r)'
                  \/ \E q \in Procs : Carried(q, r) /\ ~Executes(q, r)'
    <3>1. Created(r) /\ Created(r)' /\ row.scope = vruns[r].scope
      BY <1>1, <2>2 DEF Created, Live, Allowed
    <3>2. row.given # "no" => GivenUp(r)'
      BY <2>2 DEF GivenUp
    <3>3. Carried(p, r) /\ rec.pc \notin TaskPCs => \E q \in Procs : Carried(q, r) /\ ~Executes(q, r)'
      BY <1>3
    <3> QED BY <2>2, <3>1, <3>2, <3>3
  <2>3. CASE vruns' = vruns
    BY <2>1, <2>3
  <2>4. ASSUME NEW s \in RunIds, NEW row, SaveRun(s, row), s # r PROVE vruns'[r] = vruns[r]
    BY <2>4 DEF SaveRun, TypeOK
  <2>5. ASSUME NEW row, SaveRun(r, row), Allowed(p, rec.pc, r, row)
        PROVE  /\ vruns'[r] = row
               /\ \/ vruns'[r].st = vruns[r].st /\ vruns'[r].given = vruns[r].given /\ vruns'[r].scope = vruns[r].scope
                  \/ /\ r \in Live /\ row.st \in RunStatus /\ (GivenUp(r) => row.given # "no")
                     /\ \/ row.st \in Active \/ row.given # "no"
                        \/ Carried(p, r) /\ rec.pc \notin TaskPCs
    <3>1. vruns'[r] = row
      BY <2>5 DEF SaveRun, TypeOK
    <3> QED BY <2>5, <3>1 DEF Allowed
  <2> QED BY <2>1, <2>2, <2>3, <2>4, <2>5
<1>6. /\ queue' \subseteq queue \cup {} /\ {} \in SUBSET RunIds
      /\ \A q \in Procs, r \in RunIds : ~(Carried(q, r)' /\ ~Carried(q, r))
  BY <1>2
<1>7. \A h \in Handlers : /\ proc'[h].pc \in {"send", "refused"} =>
                               {} = {} /\ proc[h].run = proc'[h].run /\ proc[h].pc \in {"send", "refused"}
                          /\ proc'[h].pc = "send" => proc[h].pc = "send"
                          /\ Asks(h)' \/ ({} = {} /\ proc'[h] = proc[h])
  BY <1>4
<1> QED BY <1>3, <1>5, <1>6, <1>7, InTurnKept

(* ... and one that does not look for runs of its scope either.            *)
LEMMA InTurnLeaves ==
  ASSUME TypeOK, Held, InTurn, NEW p \in Procs, NEW rec, Become(p, rec), queue' = queue, revoked \subseteq revoked',
         GoesOn(p, rec),
         rec.pc \notin {"send", "refused", "create", "release"},
         \/ vruns' = vruns
         \/ \E r \in RunIds : \E row : SaveRun(r, row) /\ Allowed(p, rec.pc, r, row)
  PROVE  InTurn'
<1>1. proc'[p] = rec
  BY DEF TypeOK, Become
<1>2. Asks(p)'
  BY <1>1 DEF Asks
<1> QED BY <1>2, InTurnMoves

(* The steps of a task: whoever executes a run keeps it to the end, and a  *)
(* run that is left by its task is executed by nobody.                     *)
LEMMA TaskInTurn ==
  ASSUME TypeOK, Held, InTurn, NEW p \in Procs, TaskStep(p)
  PROVE  InTurn'
<1> DEFINE r == proc[p].run
           scope == proc[p].scope
<1>0. proc[p] \in ProcRecords /\ vruns \in [RunIds -> RunRows] /\ proc \in [Procs -> ProcRecords]
  BY DEF TypeOK
<1>1. proc[p].pc \in TaskPCs \cup AfterPCs /\ r \in RunIds
  <2>1. proc[p].pc \in TaskPCs \cup AfterPCs
    BY <1>0 DEF TaskStep, TaskLosesRow, TaskLoad, TaskMarkScenario, TaskMarkRun, CollectSelect, TaskSaveScenario,
       TaskSaveRun, TaskReturn, TaskRaise, TaskFailScenario, TaskFailRun, CollectDone, TaskCheck, InTask, At,
       TaskPCs, AfterPCs
  <2>2. Holds(p, proc[p])
    BY DEF Held
  <2> QED BY <2>1, <2>2 DEF Holds, RunPCs
<1>2. Idle.pc = "idle" /\ "idle" \notin TaskPCs /\ GoesOn(p, Idle) /\ Carried(p, r)
  BY <1>1 DEF Idle, GoesOn, TaskPCs, AfterPCs, Carried
<1>3. {"markScenario", "markRun", "check", "collecting", "saveRun", "failScenario", "failRun"} \subseteq TaskPCs
  BY DEF TaskPCs, AfterPCs
<1>4. ASSUME NEW rec, Become(p, rec), GoesOn(p, rec), rec.pc \in TaskPCs \cup AfterPCs, queue' = queue, revoked' = revoked,
             \/ vruns' = vruns
             \/ \E q \in RunIds : \E row : SaveRun(q, row) /\ Allowed(p, rec.pc, q, row)
      PROVE  InTurn'
  <2>1. rec.pc \notin {"send", "refused", "create", "release"}
    BY <1>4 DEF TaskPCs, AfterPCs
  <2> QED BY <1>4, <2>1, InTurnLeaves
<1>20. \A rec : rec.pc \in TaskPCs /\ rec.run = r /\ proc[p].pc \in TaskPCs => GoesOn(p, rec)
  BY DEF GoesOn, TaskPCs, AfterPCs
<1>21. ASSUME proc[p].pc \notin TaskPCs
       PROVE  /\ ~TaskLoad(p) /\ ~TaskMarkScenario(p) /\ ~TaskMarkRun(p) /\ ~CollectSelect(p) /\ ~TaskSaveScenario(p)
              /\ \A k, ok : ~TaskCheck(p, k, ok)
              /\ \A ok : ~CollectDone(p, ok)
  BY <1>21 DEF TaskLoad, TaskMarkScenario, TaskMarkRun, CollectSelect, TaskSaveScenario, TaskCheck, CollectDone, InTask, At,
     TaskPCs
<1>5. ASSUME NEW row, Become(p, Idle), queue' = queue, revoked' = revoked,
             vruns' = vruns \/ (SaveRun(r, row) /\ Allowed(p, "idle", r, row))
      PROVE  InTurn'
  <2>1. /\ GoesOn(p, Idle)
        /\ Idle.pc \notin {"send", "refused", "create", "release"} /\ revoked \subseteq revoked'
    BY <1>2, <1>5
  <2>2. \/ vruns' = vruns
        \/ \E q \in RunIds : \E w : SaveRun(q, w) /\ Allowed(p, Idle.pc, q, w)
    BY <1>1, <1>2, <1>5
  <2> QED BY <1>5, <2>1, <2>2, InTurnLeaves
<1>6. CASE TaskLosesRow(p)
  BY <1>5, <1>6 DEF TaskLosesRow, EndTask, Return
<1>7. CASE TaskLoad(p)
  <2> DEFINE rec == [proc[p] EXCEPT !.pc = "markScenario", !.seen = scen.checks]
  <2>1. rec.pc = "markScenario" /\ rec.run = r
    BY <1>0 DEF ProcRecords
  <2>2. Become(p, rec) /\ UNCHANGED <<vruns, queue, revoked>>
    BY <1>7 DEF TaskLoad, broker
  <2> HIDE DEF rec
  <2> QED BY <1>3, <1>4, <1>20, <1>21, <1>7, <2>1, <2>2
<1>8. CASE TaskMarkScenario(p)
  <2>1. PICK c : Become(p, [proc[p] EXCEPT !.pc = "markRun", !.seen = c])
    BY <1>8 DEF TaskMarkScenario
  <2> DEFINE rec == [proc[p] EXCEPT !.pc = "markRun", !.seen = c]
  <2>2. rec.pc = "markRun" /\ rec.run = r /\ Become(p, rec) /\ UNCHANGED <<vruns, queue, revoked>>
    BY <1>0, <1>8, <2>1 DEF ProcRecords, TaskMarkScenario, broker
  <2> HIDE DEF rec
  <2> QED BY <1>3, <1>4, <1>20, <1>21, <1>8, <2>2
<1>9. CASE TaskMarkRun(p)
  <2> DEFINE saved == [vruns[r] EXCEPT !.st = "RUNNING", !.task = @ \/ p \in Workers, !.collect = Probing(scope)]
             rec == [proc[p] EXCEPT !.pc = "check", !.left = scope.kinds]
  <2>1. saved.st = "RUNNING" /\ saved.scope = vruns[r].scope /\ saved.given = vruns[r].given
    BY <1>0, <1>1 DEF RunRows
  <2>2. rec.pc = "check" /\ rec.run = r
    BY <1>0 DEF ProcRecords
  <2>3. r \in Live /\ SaveRun(r, saved) /\ Become(p, rec) /\ UNCHANGED <<queue, revoked>>
    BY <1>9 DEF TaskMarkRun, InTask, Alive, broker
  <2> HIDE DEF saved, rec
  <2>4. Allowed(p, rec.pc, r, saved)
    BY <2>1, <2>3 DEF Allowed, GivenUp, RunStatus, Active
  <2> QED BY <1>1, <1>3, <1>4, <1>20, <1>21, <1>9, <2>2, <2>3, <2>4
<1>10. \A k, ok : Checked(p, k, ok).pc = "check" /\ Checked(p, k, ok).run = r
  BY <1>0 DEF Checked, ProcRecords
<1>11. ASSUME NEW k \in Kinds, NEW ok \in BOOLEAN, TaskCheck(p, k, ok) PROVE InTurn'
  BY <1>3, <1>4, <1>20, <1>21, <1>10, <1>11 DEF TaskCheck, broker
<1>12. CASE CollectSelect(p)
  <2>1. UNCHANGED <<vruns, queue, revoked>>
    BY <1>12 DEF CollectSelect, broker
  <2>2. CASE Become(p, Checked(p, "actions", FALSE))
    <3> DEFINE rec == Checked(p, "actions", FALSE)
    <3>1. rec.pc = "check" /\ rec.run = r /\ Become(p, rec)
      BY <1>10, <2>2
    <3> HIDE DEF rec
    <3> QED BY <1>3, <1>4, <1>20, <1>21, <1>12, <2>1, <3>1
  <2>3. ASSUME NEW q, Become(p, [proc[p] EXCEPT !.pc = "collecting", !.src = q]) PROVE InTurn'
    <3> DEFINE rec == [proc[p] EXCEPT !.pc = "collecting", !.src = q]
    <3>1. rec.pc = "collecting" /\ rec.run = r /\ Become(p, rec)
      BY <1>0, <2>3 DEF ProcRecords
    <3> HIDE DEF rec
    <3> QED BY <1>3, <1>4, <1>20, <1>21, <1>12, <2>1, <3>1
  <2> QED BY <1>12, <2>2, <2>3 DEF CollectSelect
<1>13. ASSUME NEW ok \in BOOLEAN, CollectDone(p, ok) PROVE InTurn'
  <2> DEFINE q == proc[p].src
             rec == Checked(p, "actions", ok)
             saved == [vruns[q] EXCEPT !.collect = FALSE]
  <2>1. /\ Become(p, rec) /\ UNCHANGED <<queue, revoked>> /\ proc[p].pc = "collecting"
        /\ vruns' = vruns \/ SaveRun(q, saved)
    BY <1>13 DEF CollectDone, InTask, At, broker
  <2>2. rec.pc = "check" /\ rec.run = r
    BY <1>10
  <2>3. q \in RunIds
    BY <2>1 DEF Held, Holds
  <2>4. saved.st = vruns[q].st /\ saved.scope = vruns[q].scope /\ saved.given = vruns[q].given
    BY <1>0, <2>3 DEF RunRows
  <2> HIDE DEF saved, rec, q
  <2>5. Allowed(p, rec.pc, q, saved)
    BY <2>4 DEF Allowed
  <2> QED BY <1>3, <1>4, <1>20, <1>21, <1>13, <2>1, <2>2, <2>3, <2>5
<1>14. CASE TaskSaveScenario(p)
  <2>1. PICK c : Become(p, [proc[p] EXCEPT !.pc = "saveRun", !.seen = c])
    BY <1>14 DEF TaskSaveScenario
  <2> DEFINE rec == [proc[p] EXCEPT !.pc = "saveRun", !.seen = c]
  <2>2. rec.pc = "saveRun" /\ rec.run = r /\ Become(p, rec) /\ UNCHANGED <<vruns, queue, revoked>>
    BY <1>0, <1>14, <2>1 DEF ProcRecords, TaskSaveScenario, broker
  <2> HIDE DEF rec
  <2> QED BY <1>3, <1>4, <1>20, <1>21, <1>14, <2>2
<1>15. ASSUME NEW st \in {"SUCCEEDED", "FAILED"}, NEW c, r \in Live, SaveRun(r, [vruns[r] EXCEPT !.st = st, !.collect = c]),
              NEW rec, Become(p, rec), GoesOn(p, rec), rec.pc \in {"idle", "saved"}, UNCHANGED <<queue, revoked>>
       PROVE  InTurn'
  <2> DEFINE saved == [vruns[r] EXCEPT !.st = st, !.collect = c]
  <2>1. saved.st = st /\ saved.scope = vruns[r].scope /\ saved.given = vruns[r].given /\ SaveRun(r, saved)
    BY <1>0, <1>1, <1>15 DEF RunRows
  <2> HIDE DEF saved
  <2>2. Allowed(p, rec.pc, r, saved)
    BY <1>2, <1>15, <2>1 DEF Allowed, GivenUp, RunStatus, TaskPCs
  <2>3. rec.pc \notin {"send", "refused", "create", "release"} /\ revoked \subseteq revoked'
    BY <1>15
  <2> QED BY <1>1, <1>15, <2>1, <2>2, <2>3, InTurnLeaves
<1>16. CASE TaskSaveRun(p)
  <2>1. PICK st, c : st = (IF proc[p].bad = {} THEN "SUCCEEDED" ELSE "FAILED") /\ c = Offered(vruns[r], scope, proc[p].bad = {})
    OBVIOUS
  <2>2. st \in {"SUCCEEDED", "FAILED"}
    BY <2>1
  <2> DEFINE rec == [proc[p] EXCEPT !.pc = "saved"]
  <2>3. rec.pc = "saved" /\ rec.run = r
    BY <1>0 DEF ProcRecords
  <2>4. r \in Live /\ Become(p, rec) /\ UNCHANGED <<queue, revoked>> /\ SaveRun(r, [vruns[r] EXCEPT !.st = st, !.collect = c])
    BY <1>16, <2>1 DEF TaskSaveRun, InTask, Alive, Goto, Become, broker
  <2> HIDE DEF rec
  <2>5. GoesOn(p, rec)
    BY <1>1, <2>3 DEF GoesOn, TaskPCs
  <2> QED BY <1>15, <2>2, <2>3, <2>4, <2>5
<1>17. CASE TaskRaise(p)
  <2>1. PICK pc \in {"failScenario", "undoScenario"} :
          /\ Become(p, [proc[p] EXCEPT !.pc = pc, !.src = NoRun, !.left = {}, !.bad = {}])
          /\ pc = IF proc[p].pc = "saved" THEN "undoScenario" ELSE "failScenario"
    BY <1>17 DEF TaskRaise
  <2> DEFINE rec == [proc[p] EXCEPT !.pc = pc, !.src = NoRun, !.left = {}, !.bad = {}]
  <2>2. rec.pc = pc /\ rec.run = r /\ Become(p, rec)
    BY <1>0, <2>1 DEF ProcRecords
  <2>3. UNCHANGED <<vruns, queue, revoked>> /\ proc[p].pc \in {"check", "collecting", "saveRun", "saved"}
    BY <1>17 DEF TaskRaise, broker
  <2> HIDE DEF rec
  <2>4. GoesOn(p, rec) /\ rec.pc \in TaskPCs \cup AfterPCs
    BY <2>1, <2>2, <2>3 DEF GoesOn, TaskPCs, AfterPCs
  <2> QED BY <1>4, <2>2, <2>3, <2>4
<1>18. CASE TaskFailScenario(p)
  <2>1. PICK pc \in {"failRun", "undoRun"} :
          /\ Become(p, [proc[p] EXCEPT !.pc = pc, !.seen = Unknown])
          /\ pc = IF proc[p].pc = "failScenario" THEN "failRun" ELSE "undoRun"
    BY <1>18 DEF TaskFailScenario
  <2> DEFINE rec == [proc[p] EXCEPT !.pc = pc, !.seen = Unknown]
  <2>2. rec.pc = pc /\ rec.run = r /\ Become(p, rec)
    BY <1>0, <2>1 DEF ProcRecords
  <2>3. UNCHANGED <<vruns, queue, revoked>> /\ proc[p].pc \in {"failScenario", "undoScenario"}
    BY <1>18 DEF TaskFailScenario, InTask, At, broker
  <2> HIDE DEF rec
  <2>4. GoesOn(p, rec) /\ rec.pc \in TaskPCs \cup AfterPCs
    BY <2>1, <2>2, <2>3 DEF GoesOn, TaskPCs, AfterPCs
  <2> QED BY <1>4, <2>2, <2>3, <2>4
<1>19. CASE TaskFailRun(p)
  <2>1. PICK c : c = Offered(vruns[r], scope, FALSE)
    OBVIOUS
  <2>2. /\ r \in Live /\ Become(p, Idle) /\ UNCHANGED <<queue, revoked>>
        /\ SaveRun(r, [vruns[r] EXCEPT !.st = "FAILED", !.collect = c])
    BY <1>19, <2>1 DEF TaskFailRun, InTask, Alive, EndTask, Return
  <2> QED BY <1>2, <1>15, <2>2
<1>22. CASE TaskReturn(p)
  BY <1>5, <1>22 DEF TaskReturn, EndTask, Return
<1> QED
  BY <1>6, <1>7, <1>8, <1>9, <1>11, <1>12, <1>13, <1>14, <1>16, <1>17, <1>18, <1>19, <1>22 DEF TaskStep

(* A worker that takes a message is the only one to carry its run; one     *)
(* that dies leaves it to nobody.                                          *)
LEMMA WorkerInTurn ==
  ASSUME TypeOK, Held, InTurn, NEW w \in Workers, Crash(w) \/ \E r \in RunIds : Deliver(w, r)
  PROVE  InTurn'
<1>0. w \in Procs /\ w \notin Handlers /\ Idle.pc = "idle" /\ "idle" \notin TaskPCs \cup AfterPCs /\ Handlers \subseteq Procs
  BY ProcsAssumption DEF Procs, Idle, TaskPCs, AfterPCs
<1>1. CASE Crash(w)
  <2>1. Become(w, Idle) /\ UNCHANGED <<vruns, queue, revoked>>
    BY <1>1 DEF Crash, Return, broker
  <2>2. GoesOn(w, Idle) /\ Idle.pc \notin {"send", "refused", "create", "release"}
    BY <1>0 DEF GoesOn
  <2> QED BY <1>0, <2>1, <2>2, InTurnLeaves
<1>2. ASSUME NEW r \in RunIds, Deliver(w, r) PROVE InTurn'
  <2>1. /\ proc[w].pc = "idle" /\ UNCHANGED <<vruns, revoked>> /\ queue' = queue \ {r} /\ r \in queue
        /\ \A q \in Procs : q # w => proc'[q] = proc[q]
        /\ \/ proc'[w] = proc[w]
           \/ r \notin revoked /\ proc'[w] = TaskOf(r)
    BY <1>0, <1>2 DEF Deliver, At, Become, TypeOK
  <2>2. TaskOf(r).run = r
    BY <1>0, Begins
  <2>3. \A q \in Procs : ~Carried(q, r)
    BY <2>1 DEF InTurn, OneCarrier
  <2>4. ASSUME NEW q \in Procs, NEW x \in RunIds, Carried(q, x)', ~Carried(q, x)
        PROVE  q = w /\ x = r /\ r \notin revoked
    BY <2>1, <2>2, <2>4 DEF Carried
  <2>5. \A x \in RunIds : /\ vruns'[x].scope = vruns[x].scope /\ (GivenUp(x) => GivenUp(x)') /\ (x \in Live' => x \in Live)
                          /\ Created(x)' <=> Created(x)
                          /\ ~Created(x) /\ GivenUp(x)' => GivenUp(x)
                          /\ vruns'[x].st = vruns[x].st
    BY <2>1 DEF GivenUp, Live, Created
  <2>6. \A h \in Handlers : proc'[h] = proc[h]
    BY <1>0, <2>1
  <2>7. \A q \in Procs, x \in RunIds :
          Carried(q, x)' /\ ~Carried(q, x) =>
            x \notin queue' /\ x \in {} \cup (queue \ revoked) /\ \A o \in Procs : Carried(o, x)' => o = q
    <3> SUFFICES ASSUME NEW q \in Procs, NEW x \in RunIds, Carried(q, x)', ~Carried(q, x)
                 PROVE  x \notin queue' /\ x \in queue \ revoked /\ \A o \in Procs : Carried(o, x)' => o = q
      OBVIOUS
    <3>1. q = w /\ x = r /\ r \notin revoked
      BY <2>4
    <3>2. ASSUME NEW o \in Procs, Carried(o, x)' PROVE o = q
      <4>1. ~Carried(o, x)
        BY <2>3, <3>1
      <4> QED BY <2>4, <3>1, <3>2, <4>1
    <3> QED BY <2>1, <3>1, <3>2
  <2>8. queue' \subseteq queue \cup {} /\ revoked \subseteq revoked' /\ {} \in SUBSET RunIds
    BY <2>1
  <2>9. \A h \in Handlers : /\ proc'[h].pc \in {"send", "refused"} =>
                                 {} = {} /\ proc[h].run = proc'[h].run /\ proc[h].pc \in {"send", "refused"}
                            /\ proc'[h].pc = "send" => proc[h].pc = "send"
                            /\ Asks(h)' \/ ({} = {} /\ proc'[h] = proc[h])
    BY <2>6
  <2>10. \A q \in Procs, x \in RunIds : Executes(q, x)' /\ Carried(q, x) => Executes(q, x)
    BY <1>0, <2>1 DEF Executes, Carried
  <2> QED BY <2>5, <2>7, <2>8, <2>9, <2>10, InTurnKept
<1> QED BY <1>1, <1>2

(* A deletion leaves no run to account for.                                *)
LEMMA DeleteInTurn ==
  ASSUME TypeOK, InTurn, Alone, NEW h \in Handlers, Delete(h)
  PROVE  InTurn'
<1>1. /\ \A r \in RunIds : vruns'[r] = IF r \in Live THEN Blank("DELETED") ELSE vruns[r]
      /\ UNCHANGED <<queue, revoked, proc>> /\ proc[h].pc = "idle"
  BY DEF Delete, Accept, At, broker
<1>2. Blank("DELETED").st = "DELETED" /\ "DELETED" \notin RunStatus /\ "UNUSED" \notin RunStatus
  BY DEF Blank, RunStatus, Active
<1>3. Live' = {}
  BY <1>1, <1>2 DEF Live
<1>4. \A r \in RunIds : ~InHand(r)'
  BY <1>3 DEF InHand
<1>5. \A r \in RunIds : /\ Created(r)' <=> Created(r)
                        /\ ~Created(r) => vruns'[r] = vruns[r]
  BY <1>1, <1>2 DEF Live, Created
<1>6. OneCarrier'
  BY <1>1 DEF InTurn, OneCarrier, Carried
<1>7. LastUnused'
  <2> SUFFICES ASSUME NEW r \in RunIds, ~Created(r)' PROVE ~GivenUp(r)' /\ \A q \in RunIds : q > r => ~Created(q)'
    BY DEF LastUnused, Created
  <2>1. ~Created(r) /\ vruns'[r] = vruns[r]
    BY <1>5
  <2>2. ~GivenUp(r) /\ \A q \in RunIds : q > r => ~Created(q)
    BY <2>1 DEF InTurn, LastUnused
  <2> QED BY <1>5, <2>1, <2>2 DEF GivenUp
<1>8. Visible'
  BY <1>4 DEF Visible
<1>9. NewRun'
  <2>1. \A g \in Handlers : proc'[g].pc = "idle"
    BY <1>1 DEF Alone
  <2> QED BY <2>1 DEF NewRun
<1>10. Asked'
  BY <1>4 DEF Asked, Asks, MayCreate, MayRelease
<1>11. OneTaskPerScope'
  BY <1>3 DEF OneTaskPerScope
<1> QED BY <1>6, <1>7, <1>8, <1>9, <1>10, <1>11 DEF InTurn

(* A new run is the youngest, and is created only when every older run of  *)
(* its scope in hand was given up or another was in its place.             *)
LEMMA CreateInTurn ==
  ASSUME TypeOK, Held, Offers, InTurn, Alone, NEW h \in Handlers, NEW n \in RunIds, Create(h, n)
  PROVE  InTurn'
<1>0. /\ h \in Procs /\ proc \in [Procs -> ProcRecords] /\ vruns \in [RunIds -> RunRows]
      /\ proc[h].pc = "create" /\ proc[h].pc \notin TaskPCs \cup AfterPCs /\ proc[h] \in ProcRecords /\ queue \subseteq RunIds
  BY DEF TypeOK, Procs, Create, At, TaskPCs, AfterPCs
<1>1. CASE ~scen.present
  <2>1. Become(h, Idle) /\ vruns' = vruns /\ queue' = queue /\ revoked \subseteq revoked'
    BY <1>1 DEF Create, Return, broker
  <2>2. GoesOn(h, Idle) /\ Idle.pc \notin {"send", "refused", "create", "release"}
    BY DEF Idle, GoesOn, TaskPCs, AfterPCs
  <2> QED BY <1>0, <2>1, <2>2, InTurnLeaves
<1>2. CASE scen.present
  <2> DEFINE row == [Blank("PENDING") EXCEPT !.scope = proc[h].scope]
             rec == [proc[h] EXCEPT !.pc = "send", !.run = n]
  <2>1. /\ SaveRun(n, row) /\ Become(h, rec) /\ queue' = queue /\ revoked' = revoked
        /\ vruns[n].st = "UNUSED" /\ \A q \in RunIds : vruns[q].st = "UNUSED" => n <= q
    BY <1>2 DEF Create, broker
  <2>2. row.st = "PENDING" /\ row.given = "no" /\ row.scope = proc[h].scope /\ "PENDING" \in Active
    BY DEF Blank, Active
  <2>3. rec.pc = "send" /\ rec.run = n
    BY <1>0 DEF ProcRecords
  <2> HIDE DEF row, rec
  <2>4. /\ \A q \in RunIds : vruns'[q] = IF q = n THEN row ELSE vruns[q]
        /\ \A q \in Procs : proc'[q] = IF q = h THEN rec ELSE proc[q]
    BY <1>0, <2>1 DEF SaveRun, Become
  <2>5. ~Created(n) /\ n \notin queue /\ (\A p \in Procs : ~Carried(p, n)) /\ "send" \notin TaskPCs \cup AfterPCs
    BY <2>1 DEF Created, Offers, Carried, RunPCs, TaskPCs, AfterPCs
  <2>6. \A q \in Procs, r \in RunIds : (Carried(q, r)' <=> Carried(q, r)) /\ (Executes(q, r)' <=> Executes(q, r))
    BY <1>0, <2>3, <2>4, <2>5 DEF Carried, Executes
  <2>7. \A r \in RunIds : Executing(r)' <=> Executing(r)
    <3> SUFFICES ASSUME NEW r \in RunIds PROVE Executing(r)' <=> Executing(r)
      OBVIOUS
    <3>1. Executing(r) <=> (r \in queue \ revoked \/ \E q \in Procs : Executes(q, r))
      BY DEF Executing, Executes
    <3>2. Executing(r)' <=> (r \in queue' \ revoked' \/ \E q \in Procs : Executes(q, r)')
      BY DEF Executing, Executes
    <3> QED BY <2>1, <2>6, <3>1, <3>2
  <2>8. ~Executing(n)'
    BY <2>5, <2>7 DEF Executing, Carried
  <2>9. \A q \in RunIds : /\ q # n => (Created(q)' <=> Created(q)) /\ (GivenUp(q)' <=> GivenUp(q)) /\ (q \in Live' <=> q \in Live)
                          /\ q # n => vruns'[q].scope = vruns[q].scope /\ vruns'[q].st = vruns[q].st
    BY <2>4 DEF Created, GivenUp, Live
  <2>10. Created(n)' /\ ~GivenUp(n)' /\ ~GivenUp(n)
    BY <2>2, <2>4, <2>5 DEF Created, GivenUp, Active, InTurn, LastUnused
  <2>11. \A q \in RunIds : q > n => ~Created(q)
    BY <2>5 DEF InTurn, LastUnused
  <2>12. \A x \in RunIds : GivenUp(x) => x < n
    <3> SUFFICES ASSUME NEW x \in RunIds, GivenUp(x) PROVE x < n
      OBVIOUS
    <3>1. Created(x)
      BY DEF InTurn, LastUnused
    <3>2. x # n /\ ~(x > n)
      BY <2>5, <2>11, <3>1
    <3> QED BY <3>2 DEF RunIds
  <2>13. ASSUME NEW x \in RunIds, NEW r \in RunIds, r # n, InsteadOf(x, r) PROVE x # n /\ InsteadOf(x, r)'
    <3>1. x # n
      BY <2>10, <2>13 DEF InsteadOf
    <3> QED BY <2>9, <2>13, <3>1 DEF InsteadOf
  <2>14. OneCarrier'
    BY <2>1, <2>6 DEF InTurn, OneCarrier
  <2>15. LastUnused'
    <3> SUFFICES ASSUME NEW r \in RunIds, ~Created(r)' PROVE ~GivenUp(r)' /\ \A q \in RunIds : q > r => ~Created(q)'
      BY DEF LastUnused, Created
    <3>1. r # n /\ ~Created(r)
      BY <2>9, <2>10
    <3>2. ~GivenUp(r) /\ \A q \in RunIds : q > r => ~Created(q)
      BY <3>1 DEF InTurn, LastUnused
    <3>3. r >= n
      BY <2>1, <3>1 DEF Created
    <3>4. \A q \in RunIds : q > r => q # n
      BY <3>1, <3>3 DEF RunIds
    <3> QED BY <2>9, <3>1, <3>2, <3>4
  <2>16. Visible'
    <3> SUFFICES ASSUME NEW r \in RunIds, InHand(r)'
                 PROVE  vruns'[r].st \in Active \/ \E g \in Handlers : Carried(g, r)'
      BY DEF Visible
    <3>1. r # n
      BY <2>8 DEF InHand
    <3>2. InHand(r)
      BY <2>7, <2>9, <3>1 DEF InHand
    <3>3. vruns[r].st \in Active \/ \E g \in Handlers : Carried(g, r)
      BY <3>2 DEF InTurn, Visible
    <3> QED BY <2>6, <2>9, <3>1, <3>3 DEF Procs
  <2>17. NewRun'
    <3> SUFFICES ASSUME NEW g \in Handlers
                 PROVE  /\ proc'[g].run = n /\ n \notin queue' /\ \A p \in Procs : ~Carried(p, n)'
                        /\ \A x \in RunIds : x > n => ~Created(x)'
                        /\ vruns'[n].st \in Active
      BY DEF NewRun, Carried, Created
    <3>1. g = h
      BY DEF Alone
    <3>2. \A x \in RunIds : x > n => x # n
      BY DEF RunIds
    <3> QED BY <1>0, <2>1, <2>2, <2>3, <2>4, <2>5, <2>6, <2>9, <2>11, <3>1, <3>2
  <2>18. Asked'
    <3>1. \A g \in Handlers : proc'[g].pc = "send"
      BY <1>0, <2>3, <2>4 DEF Alone
    <3> QED BY <3>1 DEF Asked, Asks
  <2>19. OneTaskPerScope'
    <3> SUFFICES ASSUME NEW r \in Live', NEW q \in Live', r < q, vruns'[r].scope = vruns'[q].scope, Executing(r)'
                 PROVE  GivenUp(r)' \/ \E x \in (r + 1)..(q - 1) : InsteadOf(x, r)'
      BY DEF OneTaskPerScope
    <3>0. r \in RunIds /\ q \in RunIds /\ r # n
      BY <2>8 DEF Live
    <3>1. Executing(r) /\ r \in Live
      BY <2>7, <2>9, <3>0
    <3>2. GivenUp(r) \/ \E x \in (r + 1)..(q - 1) : x \in RunIds /\ InsteadOf(x, r)
      <4>1. CASE q # n
        <5>1. q \in Live /\ vruns[r].scope = vruns[q].scope
          BY <2>9, <3>0, <4>1
        <5>2. GivenUp(r) \/ \E x \in (r + 1)..(q - 1) : InsteadOf(x, r)
          BY <3>1, <5>1 DEF InTurn, OneTaskPerScope
        <5>3. \A x \in (r + 1)..(q - 1) : x \in RunIds
          BY <3>0, InputsAssumption DEF RunIds
        <5> QED BY <5>2, <5>3
      <4>2. CASE q = n
        <5>1. vruns[r].scope = proc[h].scope
          BY <2>2, <2>4, <2>9, <3>0, <4>2
        <5>2. GivenUp(r) \/ Yielded(r)
          BY <1>0, <3>0, <3>1, <5>1 DEF InTurn, Asked, Asks, MayCreate, InHand
        <5>3. ASSUME NEW x \in RunIds, x > r, InsteadOf(x, r) PROVE x \in (r + 1)..(q - 1)
          <6>1. x < n
            BY <2>12, <5>3 DEF InsteadOf
          <6> QED BY <3>0, <4>2, <5>3, <6>1 DEF RunIds
        <5> QED BY <5>2, <5>3 DEF Yielded
      <4> QED BY <4>1, <4>2
    <3> QED BY <2>9, <2>13, <3>0, <3>2
  <2> QED BY <2>14, <2>15, <2>16, <2>17, <2>18, <2>19 DEF InTurn
<1> QED BY <1>1, <1>2

(* A handler that looks for runs of its scope finds the newest, and        *)
(* releases it before it creates another: what is then still in hand gave  *)
(* way to the one that was released.                                       *)
LEMMA LookupInTurn ==
  ASSUME TypeOK, Held, InTurn, Alone, NEW h \in Handlers,
         \/ LookupNone(h) \/ Release(h)
         \/ \E r \in RunIds, recent \in BOOLEAN : LookupFound(h, r, recent)
  PROVE  InTurn'
<1>0. /\ h \in Procs /\ proc \in [Procs -> ProcRecords] /\ vruns \in [RunIds -> RunRows]
      /\ proc[h] \in ProcRecords /\ Live \subseteq RunIds
  BY DEF TypeOK, Procs, Live
<1>1. Idle.pc = "idle" /\ {"idle", "lookup", "create", "release"} \cap (TaskPCs \cup AfterPCs) = {}
  BY DEF Idle, TaskPCs, AfterPCs
<1>2. PICK s : s = proc[h].scope
  OBVIOUS
<1>3. ASSUME Return(h), UNCHANGED <<vruns, queue, revoked>> PROVE InTurn'
  <2>1. /\ GoesOn(h, Idle) /\ Become(h, Idle) /\ revoked \subseteq revoked'
        /\ Idle.pc \notin {"send", "refused", "create", "release"}
    BY <1>1, <1>3 DEF Return, GoesOn
  <2> QED BY <1>0, <1>3, <2>1, InTurnLeaves
<1>4. ASSUME NEW rec, Become(h, rec), proc[h].pc \notin TaskPCs, rec.pc \notin TaskPCs, UNCHANGED <<queue, revoked>>
      PROVE  /\ \A r \in RunIds : Executing(r)' => Executing(r)
             /\ proc'[h] = rec
  <2>1. \A q \in Procs : proc'[q] = IF q = h THEN rec ELSE proc[q]
    BY <1>0, <1>4 DEF Become
  <2>2. \A q \in Procs, r \in RunIds : Executes(q, r)' => Executes(q, r)
    BY <1>4, <2>1 DEF Executes
  <2> QED BY <1>0, <1>4, <2>1, <2>2 DEF Executing, Executes
<1>5. ASSUME vruns' = vruns, NEW r \in RunIds PROVE (GivenUp(r)' <=> GivenUp(r)) /\ (r \in Live' => r \in Live)
  BY <1>5 DEF GivenUp, Live
<1>6. ASSUME proc[h].pc = "lookup", NEW r \in RunIds, InHand(r), vruns[r].scope = s PROVE r \in Candidates(s)
  <2>1. \A g \in Handlers : proc[g].pc = "lookup"
    BY <1>6 DEF Alone
  <2>2. vruns[r].st \in Active
    BY <1>1, <1>6, <2>1 DEF InTurn, Visible, Carried
  <2> QED BY <1>6, <2>2 DEF Candidates, ActiveRuns, SameScope
<1>7. CASE LookupNone(h)
  <2> DEFINE rec == [proc[h] EXCEPT !.pc = "create"]
  <2>1. rec.pc = "create" /\ rec.scope = s
    BY <1>0, <1>2 DEF ProcRecords
  <2>2. Become(h, rec) /\ UNCHANGED <<vruns, queue, revoked>> /\ proc[h].pc = "lookup" /\ Candidates(s) = {}
    BY <1>2, <1>7 DEF LookupNone, Goto, Become, At, broker
  <2> HIDE DEF rec
  <2>3. proc'[h] = rec /\ \A r \in RunIds : Executing(r)' => Executing(r)
    BY <1>1, <1>4, <2>1, <2>2
  <2>4. MayCreate(s)'
    <3> SUFFICES ASSUME NEW r \in RunIds, InHand(r)', vruns'[r].scope = s PROVE FALSE
      BY DEF MayCreate
    <3>1. InHand(r) /\ vruns[r].scope = s
      BY <1>5, <2>2, <2>3 DEF InHand
    <3> QED BY <1>6, <2>2, <3>1
  <2>5. Asks(h)'
    BY <2>1, <2>3, <2>4 DEF Asks
  <2>6. GoesOn(h, rec) /\ rec.pc \notin {"send", "refused"} /\ revoked \subseteq revoked'
    BY <1>1, <2>1, <2>2 DEF GoesOn
  <2> QED BY <1>0, <2>2, <2>5, <2>6, InTurnMoves
<1>8. ASSUME NEW n \in RunIds, NEW recent \in BOOLEAN, LookupFound(h, n, recent) PROVE InTurn'
  <2> DEFINE rec == [proc[h] EXCEPT !.pc = "release", !.run = n]
  <2>1. rec.pc = "release" /\ rec.scope = s /\ rec.run = n
    BY <1>0, <1>2 DEF ProcRecords
  <2>2. /\ UNCHANGED <<vruns, queue, revoked>> /\ proc[h].pc = "lookup" /\ Newest(Candidates(s), n)
        /\ Return(h) \/ Become(h, rec)
    BY <1>2, <1>8 DEF LookupFound, At, broker
  <2> HIDE DEF rec
  <2>3. CASE Become(h, rec)
    <3>1. proc'[h] = rec /\ \A r \in RunIds : Executing(r)' => Executing(r)
      BY <1>1, <1>4, <2>1, <2>2, <2>3
    <3>2. n \in Live /\ SameScope(s, vruns[n].scope)
      BY <2>2 DEF Newest, Candidates, ActiveRuns, Live, RunStatus
    <3>3. MayRelease(s, n)'
      <4> SUFFICES ASSUME NEW r \in RunIds, InHand(r)', vruns'[r].scope = s, r # n,
                          ~(r < n /\ vruns'[n].scope # s /\ SameScope(s, vruns'[n].scope))
                   PROVE  Yielded(r)'
        BY DEF MayRelease
      <4>1. InHand(r) /\ vruns[r].scope = s
        BY <1>5, <2>2, <3>1 DEF InHand
      <4>2. r <= n
        BY <1>6, <2>2, <4>1 DEF Newest
      <4>3. r < n /\ vruns[n].scope = s
        BY <2>2, <3>2, <4>2 DEF RunIds
      <4>4. PICK x \in (r + 1)..(n - 1) : InsteadOf(x, r)
        BY <3>2, <4>1, <4>3 DEF InHand, InTurn, OneTaskPerScope
      <4>5. x \in RunIds /\ x > r
        BY <4>4, InputsAssumption DEF RunIds
      <4>6. InsteadOf(x, r)'
        BY <1>5, <2>2, <4>4, <4>5 DEF InsteadOf
      <4> QED BY <4>5, <4>6 DEF Yielded
    <3>4. Asks(h)'
      BY <2>1, <3>1, <3>3 DEF Asks
    <3>5. GoesOn(h, rec) /\ rec.pc \notin {"send", "refused"} /\ revoked \subseteq revoked'
      BY <1>1, <2>1, <2>2 DEF GoesOn
    <3> QED BY <1>0, <2>2, <2>3, <3>4, <3>5, InTurnMoves
  <2> QED BY <1>3, <2>2, <2>3
<1>9. CASE Release(h)
  <2> DEFINE rec == [proc[h] EXCEPT !.pc = "create", !.run = NoRun]
  <2>0. PICK n : n = proc[h].run
    OBVIOUS
  <2> DEFINE row == [vruns[n] EXCEPT !.st = "FAILED", !.given = "stale"]
  <2>1. rec.pc = "create" /\ rec.scope = s
    BY <1>0, <1>2 DEF ProcRecords
  <2>2. /\ UNCHANGED <<queue, revoked>> /\ proc[h].pc = "release"
        /\ \/ Return(h) /\ UNCHANGED vruns
           \/ n \in Live /\ SaveRun(n, row) /\ Become(h, rec)
    BY <1>9, <2>0 DEF Release, At, Alive, broker
  <2>3. CASE n \in Live /\ SaveRun(n, row) /\ Become(h, rec)
    <3>0. n \in RunIds
      BY <1>0, <2>3
    <3>1. row.st = "FAILED" /\ row.given = "stale" /\ row.scope = vruns[n].scope
      BY <1>0, <3>0 DEF RunRows
    <3> HIDE DEF rec, row
    <3>2. \A q \in RunIds : vruns'[q] = IF q = n THEN row ELSE vruns[q]
      BY <1>0, <2>3, <3>0 DEF SaveRun
    <3>3. proc'[h] = rec /\ \A r \in RunIds : Executing(r)' => Executing(r)
      BY <1>1, <1>4, <2>1, <2>2, <2>3
    <3>4. GivenUp(n)' /\ \A q \in RunIds : vruns'[q].scope = vruns[q].scope /\ (GivenUp(q) => GivenUp(q)')
      BY <3>0, <3>1, <3>2 DEF GivenUp
    <3>5. MayRelease(s, n)
      BY <1>2, <2>0, <2>2 DEF InTurn, Asked, Asks
    <3>6. MayCreate(s)'
      <4> SUFFICES ASSUME NEW r \in RunIds, InHand(r)', vruns'[r].scope = s PROVE Yielded(r)'
        BY DEF MayCreate
      <4>1. r # n /\ ~GivenUp(r)' /\ r \in Live'
        BY <3>4 DEF InHand
      <4>2. r \in Live /\ ~GivenUp(r) /\ Executing(r) /\ vruns[r].scope = s
        BY <3>2, <3>3, <3>4, <4>1 DEF InHand, Live
      <4>3. Yielded(r) \/ (r < n /\ vruns[n].scope # s /\ SameScope(s, vruns[n].scope))
        BY <3>5, <4>1, <4>2 DEF MayRelease, InHand
      <4>4. ASSUME NEW x \in RunIds, x > r, InsteadOf(x, r) PROVE Yielded(r)'
        <5>1. InsteadOf(x, r)'
          BY <3>4, <4>4 DEF InsteadOf
        <5> QED BY <4>4, <5>1 DEF Yielded
      <4>5. ASSUME r < n, vruns[n].scope # s, SameScope(s, vruns[n].scope) PROVE Yielded(r)'
        <5>1. InsteadOf(n, r)'
          BY <3>0, <3>4, <4>2, <4>5 DEF InsteadOf
        <5>2. n > r
          BY <3>0, <4>5 DEF RunIds
        <5> QED BY <3>0, <5>1, <5>2 DEF Yielded
      <4> QED BY <4>3, <4>4, <4>5 DEF Yielded
    <3>7. Asks(h)'
      BY <2>1, <3>3, <3>6 DEF Asks
    <3>8. Allowed(h, rec.pc, n, row)
      BY <2>3, <3>1 DEF Allowed, RunStatus
    <3>9. GoesOn(h, rec) /\ rec.pc \notin {"send", "refused"} /\ revoked \subseteq revoked'
      BY <1>1, <2>1, <2>2 DEF GoesOn
    <3> QED BY <1>0, <2>2, <2>3, <3>0, <3>7, <3>8, <3>9, InTurnMoves
  <2> QED BY <1>3, <2>2, <2>3
<1> QED BY <1>7, <1>8, <1>9

(* The run that is sent, or that the broker refused, is taken up once.     *)
LEMMA SendInTurn ==
  ASSUME TypeOK, Held, InTurn, Alone, NEW h \in Handlers, Send(h) \/ Refused(h)
  PROVE  InTurn'
<1>0. /\ h \in Procs /\ proc \in [Procs -> ProcRecords] /\ vruns \in [RunIds -> RunRows]
      /\ proc[h] \in ProcRecords
  BY DEF TypeOK, Procs
<1>1. PICK n : n = proc[h].run
  OBVIOUS
<1>2. proc[h].pc \in {"send", "refused"} /\ n \in RunIds /\ \A g \in Handlers : g = h
  BY <1>0, <1>1 DEF Send, Refused, At, Held, Holds, RunPCs, Alone
<1>3. /\ n \notin queue /\ \A p \in Procs : ~Carried(p, n)
      /\ \A x \in RunIds : x > n => ~Created(x)
      /\ proc[h].pc = "send" /\ n \in Live /\ ~GivenUp(n) => vruns[n].st \in Active
  BY <1>1, <1>2 DEF InTurn, NewRun
<1>4. \A rec : Become(h, rec) => \A q \in Procs : proc'[q] = IF q = h THEN rec ELSE proc[q]
  BY <1>0 DEF Become
<1>5. CASE Send(h)
  <2>1. \/ queue' = queue \cup {n} /\ Goto(h, "saveTask")
        \/ UNCHANGED queue /\ Goto(h, "refused")
    BY <1>1, <1>5 DEF Send
  <2>2. UNCHANGED <<vruns, revoked>> /\ proc[h].pc = "send"
    BY <1>5 DEF Send, At
  <2>3. PICK pc : Goto(h, pc) /\ (\/ pc = "saveTask" /\ queue' = queue \cup {n}
                                  \/ pc = "refused" /\ queue' = queue)
    BY <2>1
  <2> DEFINE rec == [proc[h] EXCEPT !.pc = pc]
  <2>4. rec.pc = pc /\ rec.run = n /\ Become(h, rec)
    BY <1>0, <1>1, <2>3 DEF ProcRecords, Goto, Become
  <2> HIDE DEF rec
  <2>5. PICK N : N = (IF pc = "saveTask" THEN {n} ELSE {})
    OBVIOUS
  <2>6. N \in SUBSET RunIds /\ queue' \subseteq queue \cup N /\ revoked \subseteq revoked' /\ \A x \in N : x = n
    BY <1>2, <2>2, <2>3, <2>5
  <2>7. \A q \in Procs, r \in RunIds : Carried(q, r)' => Carried(q, r)
    BY <1>2, <1>4, <2>3, <2>4 DEF Carried, TaskPCs, AfterPCs
  <2>8. \A r \in RunIds : /\ vruns'[r].scope = vruns[r].scope /\ (GivenUp(r) => GivenUp(r)') /\ (r \in Live' => r \in Live)
                          /\ Created(r)' <=> Created(r)
                          /\ ~Created(r) /\ GivenUp(r)' => GivenUp(r)
                          /\ vruns'[r].st = vruns[r].st
    BY <2>2 DEF GivenUp, Live, Created
  <2>9. InHand(n)' => vruns'[n].st \in Active
    BY <1>2, <1>3, <2>2 DEF InHand, GivenUp, Live
  <2>10. \A x \in N : /\ x \notin queue /\ (\A p \in Procs : ~Carried(p, x)) /\ \A y \in RunIds : y > x => ~Created(y)
                      /\ InHand(x)' => vruns'[x].st \in Active \/ \E g \in Handlers : Carried(g, x)'
    BY <1>3, <2>6, <2>9
  <2>11. \A g \in Handlers : /\ proc'[g].pc \in {"send", "refused"} =>
                                 N = {} /\ proc[g].run = proc'[g].run /\ proc[g].pc \in {"send", "refused"}
                             /\ proc'[g].pc = "send" => proc[g].pc = "send"
                             /\ Asks(g)' \/ (N = {} /\ proc'[g] = proc[g])
    <3> SUFFICES ASSUME NEW g \in Handlers
                 PROVE  /\ proc'[g].pc \in {"send", "refused"} =>
                             N = {} /\ proc[g].run = proc'[g].run /\ proc[g].pc \in {"send", "refused"}
                        /\ proc'[g].pc = "send" => proc[g].pc = "send"
                        /\ Asks(g)'
      OBVIOUS
    <3>1. g = h /\ proc'[g] = rec
      BY <1>0, <1>2, <1>4, <2>4
    <3>2. pc = "refused" => N = {}
      BY <2>5
    <3>3. Asks(g)'
      BY <2>3, <2>4, <3>1 DEF Asks
    <3> QED BY <1>1, <2>2, <2>3, <2>4, <3>1, <3>2, <3>3
  <2>12. \A q \in Procs, r \in RunIds : Executes(q, r)' => Executes(q, r)
    BY <1>4, <2>3, <2>4 DEF Executes, TaskPCs
  <2> QED BY <2>6, <2>7, <2>8, <2>10, <2>11, <2>12, InTurnKept
<1>6. ASSUME Return(h), UNCHANGED <<vruns, queue, revoked>> PROVE InTurn'
  <2>1. /\ GoesOn(h, Idle) /\ Become(h, Idle) /\ revoked \subseteq revoked'
        /\ Idle.pc \notin {"send", "refused", "create", "release"}
    BY <1>6 DEF Idle, GoesOn, TaskPCs, AfterPCs, Return
  <2> QED BY <1>0, <1>6, <2>1, InTurnLeaves
<1>7. ASSUME n \in Live, SaveRun(n, [vruns[n] EXCEPT !.st = "FAILED"]), Become(h, TaskOf(n)), UNCHANGED <<queue, revoked>>
      PROVE  InTurn'
  <2> DEFINE row == [vruns[n] EXCEPT !.st = "FAILED"]
  <2>1. row.st = "FAILED" /\ row.given = vruns[n].given /\ row.scope = vruns[n].scope
    BY <1>0, <1>2 DEF RunRows
  <2>2. \A q \in RunIds : vruns'[q] = IF q = n THEN row ELSE vruns[q]
    BY <1>0, <1>2, <1>7 DEF SaveRun
  <2> HIDE DEF row
  <2>3. TaskOf(n).pc = "load" /\ TaskOf(n).run = n
    BY <1>0, <1>2, Begins
  <2>4. Carried(h, n)'
    BY <1>0, <1>4, <1>7, <2>3 DEF Carried, TaskPCs, AfterPCs
  <2>5. ASSUME NEW q \in Procs, NEW r \in RunIds, Carried(q, r)', ~Carried(q, r) PROVE q = h /\ r = n
    BY <1>4, <1>7, <2>3, <2>5 DEF Carried
  <2>6. \A r \in RunIds : /\ vruns'[r].scope = vruns[r].scope /\ (GivenUp(r) => GivenUp(r)') /\ (r \in Live' => r \in Live)
                          /\ Created(r)' <=> Created(r)
                          /\ ~Created(r) /\ GivenUp(r)' => GivenUp(r)
                          /\ vruns'[r].st = vruns[r].st \/ r \in {n}
    BY <1>7, <2>1, <2>2 DEF GivenUp, Live, Created, RunStatus, Active
  <2>7. \A q \in Procs, r \in RunIds :
          Carried(q, r)' /\ ~Carried(q, r) =>
            r \notin queue' /\ r \in {n} \cup (queue \ revoked) /\ \A o \in Procs : Carried(o, r)' => o = q
    BY <1>3, <1>7, <2>5
  <2>8. \A x \in {n} : /\ x \notin queue /\ (\A p \in Procs : ~Carried(p, x)) /\ \A y \in RunIds : y > x => ~Created(y)
                       /\ InHand(x)' => vruns'[x].st \in Active \/ \E g \in Handlers : Carried(g, x)'
    BY <1>3, <2>4
  <2>9. \A g \in Handlers : proc'[g].pc = "load"
    BY <1>0, <1>2, <1>4, <1>7, <2>3
  <2>10. \A g \in Handlers : /\ proc'[g].pc \in {"send", "refused"} =>
                                 {n} = {} /\ proc[g].run = proc'[g].run /\ proc[g].pc \in {"send", "refused"}
                             /\ proc'[g].pc = "send" => proc[g].pc = "send"
                             /\ Asks(g)' \/ ({n} = {} /\ proc'[g] = proc[g])
    BY <2>9 DEF Asks
  <2>11. queue' \subseteq queue \cup {n} /\ revoked \subseteq revoked' /\ {n} \in SUBSET RunIds
    BY <1>2, <1>7
  <2>12. \A q \in Procs, r \in RunIds : Executes(q, r)' /\ Carried(q, r) => Executes(q, r)
    BY <1>2, <1>3, <1>4, <1>7, <2>3 DEF Executes, Carried
  <2> QED BY <2>6, <2>7, <2>8, <2>10, <2>11, <2>12, InTurnKept
<1>8. CASE Refused(h)
  BY <1>1, <1>6, <1>7, <1>8 DEF Refused, Alive, broker
<1> QED BY <1>5, <1>8

(* Every request and every step of a handler keeps the account.            *)
LEMMA RequestInTurn ==
  ASSUME TypeOK, Held, Offers, InTurn, Alone, NEW h \in Handlers, Request(h) \/ HandlerStep(h)
  PROVE  InTurn'
<1>0. /\ h \in Procs /\ proc \in [Procs -> ProcRecords] /\ vruns \in [RunIds -> RunRows]
      /\ proc[h] \in ProcRecords /\ Live \subseteq RunIds
  BY DEF TypeOK, Procs, Live
<1>1. ASSUME NEW rec, Become(h, rec), rec.pc \in {"idle", "uploadSave", "uploadFile", "clean", "cancel", "lookup", "mark"},
             queue' = queue, revoked \subseteq revoked',
             \/ vruns' = vruns
             \/ \E r \in RunIds : \E row : SaveRun(r, row) /\ Allowed(h, rec.pc, r, row)
      PROVE  InTurn'
  <2>1. GoesOn(h, rec) /\ rec.pc \notin {"send", "refused", "create", "release"}
    BY <1>1 DEF GoesOn, TaskPCs, AfterPCs
  <2> QED BY <1>0, <1>1, <2>1, InTurnLeaves
<1>2. ASSUME Return(h), UNCHANGED <<vruns, queue, revoked>> PROVE InTurn'
  BY <1>1, <1>2 DEF Return, Idle
<1>3. ASSUME NEW pc \in {"uploadSave", "uploadFile", "clean", "mark"}, Goto(h, pc), queue' = queue, revoked' = revoked,
             \/ vruns' = vruns
             \/ \E r \in RunIds : \E row : SaveRun(r, row) /\ Allowed(h, pc, r, row)
      PROVE  InTurn'
  <2> DEFINE rec == [proc[h] EXCEPT !.pc = pc]
  <2>1. rec.pc = pc /\ Become(h, rec)
    BY <1>0, <1>3 DEF ProcRecords, Goto, Become
  <2> HIDE DEF rec
  <2> QED BY <1>1, <1>3, <2>1
<1>4. CASE UploadRead(h)
  BY <1>3, <1>4 DEF UploadRead, broker
<1>5. CASE Delete(h)
  BY <1>5, DeleteInTurn
<1>6. CASE CleanRead(h)
  <2> DEFINE rec == [Idle EXCEPT !.pc = "clean", !.todo = ActiveRuns, !.known = {r \in ActiveRuns : vruns[r].task}]
  <2>1. rec.pc = "clean"
    BY DEF Idle
  <2>2. Become(h, rec) /\ UNCHANGED <<vruns, queue, revoked>>
    BY <1>6 DEF CleanRead, broker
  <2> HIDE DEF rec
  <2> QED BY <1>1, <2>1, <2>2
<1>7. ASSUME NEW scope \in Scopes, ValidateRead(h, scope) PROVE InTurn'
  <2> DEFINE rec == [Idle EXCEPT !.pc = "lookup", !.scope = scope, !.seen = scen.checks]
  <2>1. rec.pc = "lookup"
    BY DEF Idle
  <2>2. Become(h, rec) /\ UNCHANGED <<vruns, queue, revoked>>
    BY <1>7 DEF ValidateRead, broker
  <2> HIDE DEF rec
  <2> QED BY <1>1, <2>1, <2>2
<1>8. CASE UploadSave(h)
  BY <1>2, <1>3, <1>8 DEF UploadSave, broker
<1>9. ASSUME NEW r \in RunIds, CleanRequest(h, r) PROVE InTurn'
  <2> DEFINE rec == [proc[h] EXCEPT !.pc = "cancel", !.run = r, !.todo = @ \ {r}]
             row == [vruns[r] EXCEPT !.st = "CANCEL_REQUESTED"]
  <2>1. rec.pc = "cancel"
    BY <1>0 DEF ProcRecords
  <2>2. row.st = "CANCEL_REQUESTED" /\ row.given = vruns[r].given /\ row.scope = vruns[r].scope
    BY <1>0 DEF RunRows
  <2>3. /\ queue' = queue
        /\ \/ Return(h) /\ UNCHANGED <<vruns, revoked>>
           \/ r \in Live /\ SaveRun(r, row) /\ revoked \subseteq revoked' /\ Become(h, rec)
    BY <1>9 DEF CleanRequest, Alive
  <2> HIDE DEF rec, row
  <2>4. r \in Live => Allowed(h, rec.pc, r, row)
    BY <2>2 DEF Allowed, GivenUp, RunStatus, Active
  <2> QED BY <1>1, <1>2, <2>1, <2>3, <2>4
<1>10. CASE CleanCancel(h)
  <2>0. PICK r : r = proc[h].run
    OBVIOUS
  <2> DEFINE row == [vruns[r] EXCEPT !.st = "CANCELED", !.given = "clean"]
  <2>1. /\ UNCHANGED <<queue, revoked>>
        /\ \/ Return(h) /\ UNCHANGED vruns
           \/ r \in Live /\ SaveRun(r, row) /\ Goto(h, "clean")
    BY <1>10, <2>0 DEF CleanCancel, Alive, broker
  <2>2. r \in RunIds => row.st = "CANCELED" /\ row.given = "clean" /\ row.scope = vruns[r].scope
    BY <1>0 DEF RunRows
  <2> HIDE DEF row
  <2>3. r \in Live => Allowed(h, "clean", r, row)
    BY <1>0, <2>2 DEF Allowed, RunStatus
  <2> QED BY <1>0, <1>2, <1>3, <2>1, <2>3
<1>11. CASE CleanReset(h)
  BY <1>2, <1>11 DEF CleanReset, broker
<1>12. CASE SaveTask(h)
  <2>0. PICK r : r = proc[h].run
    OBVIOUS
  <2> DEFINE row == [vruns[r] EXCEPT !.task = TRUE]
  <2>1. /\ UNCHANGED <<queue, revoked>>
        /\ \/ Return(h) /\ UNCHANGED vruns
           \/ r \in Live /\ SaveRun(r, row) /\ Goto(h, "mark")
    BY <1>12, <2>0 DEF SaveTask, Alive, broker
  <2>2. r \in RunIds => row.st = vruns[r].st /\ row.given = vruns[r].given /\ row.scope = vruns[r].scope
    BY <1>0 DEF RunRows
  <2> HIDE DEF row
  <2>3. r \in Live => Allowed(h, "mark", r, row)
    BY <1>0, <2>2 DEF Allowed
  <2> QED BY <1>0, <1>2, <1>3, <2>1, <2>3
<1>13. CASE Mark(h)
  BY <1>2, <1>13 DEF Mark, broker
<1>14. CASE LookupNone(h) \/ Release(h) \/ \E r \in RunIds, recent \in BOOLEAN : LookupFound(h, r, recent)
  BY <1>14, LookupInTurn
<1>15. CASE Send(h) \/ Refused(h)
  BY <1>15, SendInTurn
<1>16. ASSUME NEW r \in RunIds, Create(h, r) PROVE InTurn'
  BY <1>16, CreateInTurn
<1> QED
  BY <1>4, <1>5, <1>6, <1>7, <1>8, <1>9, <1>10, <1>11, <1>12, <1>13, <1>14, <1>15, <1>16 DEF Request, HandlerStep

(* With one thread for the requests, a run whose task is in hand gets a    *)
(* younger run of its scope only when it was given up, or when a run that  *)
(* checks one edge was given up in its place by a request without an edge. *)
THEOREM ScopesInTurn ==
  ASSUME \A h, g \in Handlers : h = g
  PROVE  Spec => []OneTaskPerScope
<1>0. Alone
  BY DEF Alone
<1>1. Init => TypeOK /\ Held /\ Offers /\ InTurn
  <2> SUFFICES ASSUME Init PROVE TypeOK /\ Held /\ Offers /\ InTurn
    OBVIOUS
  <2>1. TypeOK
    BY StoredType, ChecksType, BlankType, IdleType DEF Init, TypeOK, Fresh
  <2>2. Held
    BY DEF Init, Held, Holds, Idle, RunPCs, TaskPCs, AfterPCs
  <2>3. \A r \in RunIds : vruns[r].collect = FALSE /\ vruns[r].st = "UNUSED" /\ vruns[r].given = "no"
    BY DEF Init, Blank
  <2>4. "UNUSED" \notin RunStatus /\ queue = {} /\ \A p \in Procs : proc[p].pc = "idle"
    BY DEF Init, RunStatus, Active, Idle
  <2>5. Live = {}
    BY <2>3, <2>4 DEF Live
  <2>6. Offers
    BY <2>3, <2>4, <2>5 DEF Offers, OfferedProbesSucceeded, RunPCs, TaskPCs, AfterPCs
  <2>7. OneCarrier
    BY <2>4 DEF OneCarrier, Carried, TaskPCs, AfterPCs
  <2>8. LastUnused
    BY <2>3 DEF LastUnused, Created, GivenUp
  <2>9. NewRun /\ Asked
    BY <2>4 DEF NewRun, Asked, Asks, Procs
  <2>10. Visible /\ OneTaskPerScope
    BY <2>5 DEF Visible, InHand, OneTaskPerScope
  <2> QED BY <2>1, <2>2, <2>6, <2>7, <2>8, <2>9, <2>10 DEF InTurn
<1>2. TypeOK /\ Held /\ Offers /\ InTurn /\ [Next]_vars => Offers'
  BY RequestOffers, TaskOffers, WorkerOffers DEF Next, vars, Offers, OfferedProbesSucceeded, Live
<1>3. TypeOK /\ Held /\ Offers /\ InTurn /\ [Next]_vars => InTurn'
  <2> SUFFICES ASSUME TypeOK, Held, Offers, InTurn, [Next]_vars PROVE InTurn'
    OBVIOUS
  <2>1. CASE UNCHANGED vars
    BY <2>1 DEF vars, InTurn, OneCarrier, LastUnused, Visible, NewRun, Asked, Asks, MayCreate, MayRelease, OneTaskPerScope,
       Carried, Created, InHand, Yielded, InsteadOf, GivenUp, Executing, Live
  <2> QED BY <1>0, <2>1, RequestInTurn, TaskInTurn, WorkerInTurn DEF Next
<1>4. TypeOK /\ Held /\ Offers /\ InTurn /\ [Next]_vars => (TypeOK /\ Held /\ Offers /\ InTurn)'
  BY <1>2, <1>3, TypesKept, HeldKept
<1>5. InTurn => OneTaskPerScope
  BY DEF InTurn
<1> QED BY <1>1, <1>4, <1>5, PTL DEF Spec

=============================================================================
