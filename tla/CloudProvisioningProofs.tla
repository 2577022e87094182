---------------------- MODULE CloudProvisioningProofs ----------------------
(***************************************************************************)
(* Theorems of CloudProvisioning.  An operation in flight has one place:   *)
(* its handler, the broker or a worker.  The statuses of the row then act  *)
(* as a lock on creates and deletes, if one client asks for one operation  *)
(* at a time and checks are made alone.                                    *)
(***************************************************************************)
EXTENDS CloudProvisioning, TLAPS

\* An operation is in one place, and nobody has it before it was asked for.
OnePlace ==
  /\ \A i \in queue : op[i].kind # "unused"
  /\ \A c \in Clients : client[c].pc # "idle" =>
       client[c].op \in Ops \ queue /\ op[client[c].op].kind # "unused"
  /\ \A w \in Workers : worker[w].pc # "idle" =>
       worker[w].op \in Ops \ queue /\ Kind(w) # "unused"
  /\ \A c, d \in Clients :
       client[c].pc # "idle" /\ client[d].pc # "idle" /\ client[c].op = client[d].op => c = d
  /\ \A v, w \in Workers :
       worker[v].pc # "idle" /\ worker[w].pc # "idle" /\ worker[v].op = worker[w].op => v = w
  /\ \A c \in Clients, w \in Workers :
       client[c].pc # "idle" /\ worker[w].pc # "idle" => client[c].op # worker[w].op

Basic == TypeOK /\ OnePlace

LEMMA Parts ==
  TypeOK => /\ op \in [Ops -> [kind : Kinds \cup {"unused"}, st : RequestStatus]]
            /\ client \in [Clients -> ClientRecords]
            /\ worker \in [Workers -> WorkerRecords]
            /\ \A i \in Ops : op[i].kind \in Kinds \cup {"unused"} /\ op[i].st \in RequestStatus
            /\ row.status \in Status /\ row.known \in BOOLEAN
BY DEF TypeOK

-----------------------------------------------------------------------------
(* How steps move operations *)

\* A worker goes on with the operation it has.
Keeps(w) == /\ worker[w].pc # "idle" /\ worker'[w].pc # "idle"
            /\ worker'[w].op = worker[w].op
            /\ worker' \in [Workers -> WorkerRecords]
            /\ \A v \in Workers \ {w} : worker'[v] = worker[v]

\* A worker lets go of it.
Drops(w) == /\ worker[w].pc # "idle" /\ worker'[w].pc = "idle"
            /\ worker' \in [Workers -> WorkerRecords]
            /\ \A v \in Workers \ {w} : worker'[v] = worker[v]

KindsKept == \A i \in Ops : op'[i].kind = op[i].kind

LEMMA GotoKeeps ==
  ASSUME TypeOK, NEW w \in Workers, NEW pc \in {"call", "wait"}, Goto(w, pc),
         worker[w].pc # "idle"
  PROVE  Keeps(w) /\ worker'[w].pc = pc
<1> DEFINE rec == [worker[w] EXCEPT !.pc = pc]
<1>1. worker \in [Workers -> WorkerRecords] /\ worker[w] \in WorkerRecords
  BY DEF TypeOK
<1>2. rec \in WorkerRecords /\ rec.pc = pc /\ rec.op = worker[w].op
  BY <1>1 DEF WorkerRecords
<1>3. worker' = [worker EXCEPT ![w] = rec]
  BY <1>1 DEF Goto
<1> HIDE DEF rec
<1> QED BY <1>1, <1>2, <1>3 DEF Keeps

LEMMA AnsweredKeeps ==
  ASSUME TypeOK, NEW w \in Workers, NEW result \in {"ok", "partial", "error"},
         Answered(w, result), worker[w].pc # "idle"
  PROVE  Keeps(w) /\ worker'[w].pc = "save" /\ worker'[w].result = result
<1> DEFINE rec == [worker[w] EXCEPT !.pc = "save", !.result = result]
<1>1. worker \in [Workers -> WorkerRecords] /\ worker[w] \in WorkerRecords
  BY DEF TypeOK
<1>2. /\ rec \in WorkerRecords /\ rec.pc = "save" /\ rec.op = worker[w].op
      /\ rec.result = result
  BY <1>1 DEF WorkerRecords
<1>3. worker' = [worker EXCEPT ![w] = rec]
  BY <1>1 DEF Answered
<1> HIDE DEF rec
<1> QED BY <1>1, <1>2, <1>3 DEF Keeps

LEMMA ReturnDrops ==
  ASSUME TypeOK, NEW w \in Workers, Return(w), worker[w].pc # "idle"
  PROVE  Drops(w)
<1>1. NoWorker \in WorkerRecords /\ NoWorker.pc = "idle"
  BY ProvisioningBounds DEF NoWorker, WorkerRecords
<1> QED BY <1>1 DEF TypeOK, Return, Drops

LEMMA KeepsPlace ==
  ASSUME Basic, NEW w \in Workers, Keeps(w), KindsKept, UNCHANGED <<queue, client>>
  PROVE  OnePlace' /\ \A i \in Ops : InFlight(i)' => InFlight(i)
<1>1. \A v \in Workers : worker'[v].op = worker[v].op
                         /\ (worker'[v].pc = "idle" <=> worker[v].pc = "idle")
  BY DEF Keeps
<1>2. \A i \in queue : i \in Ops
  BY DEF Basic, TypeOK
<1>3. OnePlace'
  BY <1>1, <1>2 DEF Basic, OnePlace, KindsKept, Kind
<1>4. \A i \in Ops : InFlight(i)' => InFlight(i)
  BY <1>1 DEF InFlight
<1> QED BY <1>3, <1>4

LEMMA DropsPlace ==
  ASSUME Basic, NEW w \in Workers, Drops(w), KindsKept, UNCHANGED <<queue, client>>
  PROVE  OnePlace' /\ \A i \in Ops : InFlight(i)' => InFlight(i) /\ i # worker[w].op
<1>1. \A v \in Workers : worker'[v].pc # "idle" => v # w /\ worker'[v] = worker[v]
  BY DEF Drops
<1>2. \A i \in queue : i \in Ops
  BY DEF Basic, TypeOK
<1>3. OnePlace'
  BY <1>1, <1>2 DEF Basic, OnePlace, KindsKept, Kind
<1>4. \A i \in Ops : InFlight(i)' => InFlight(i) /\ i # worker[w].op
  BY <1>1 DEF InFlight, Drops, Basic, OnePlace
<1> QED BY <1>3, <1>4

LEMMA StatusKeepsKinds ==
  ASSUME TypeOK, NEW i \in Ops, NEW st \in RequestStatus, op' = [op EXCEPT ![i].st = st]
  PROVE  /\ op' \in [Ops -> [kind : Kinds \cup {"unused"}, st : RequestStatus]]
         /\ KindsKept
<1> DEFINE rec == [op[i] EXCEPT !.st = st]
<1>1. op[i] \in [kind : Kinds \cup {"unused"}, st : RequestStatus]
  BY DEF TypeOK
<1>2. /\ rec \in [kind : Kinds \cup {"unused"}, st : RequestStatus]
      /\ rec.kind = op[i].kind
  BY <1>1
<1>3. op' = [op EXCEPT ![i] = rec]
  BY Parts
<1> HIDE DEF rec
<1> QED BY <1>2, <1>3, Parts DEF KindsKept

-----------------------------------------------------------------------------
(* Types and places are kept *)

\* The fields of row and inv that a step writes.
LEMMA RowStatus ==
  ASSUME TypeOK, NEW s \in Status, row' = [row EXCEPT !.status = s]
  PROVE  /\ row' \in [status : Status, known : BOOLEAN]
         /\ row'.status = s /\ row'.known = row.known
BY DEF TypeOK

LEMMA InventoryFields ==
  ASSUME TypeOK, NEW b \in BOOLEAN
  PROVE  /\ [inv EXCEPT !.on = b] \in [present : BOOLEAN, on : BOOLEAN, archived : BOOLEAN]
         /\ [inv EXCEPT !.on = b].archived = inv.archived
         /\ [inv EXCEPT !.on = FALSE, !.archived = TRUE]
              \in [present : BOOLEAN, on : BOOLEAN, archived : BOOLEAN]
         /\ Upserted \in [present : BOOLEAN, on : BOOLEAN, archived : BOOLEAN]
         /\ ~Upserted.archived
BY DEF TypeOK, Upserted

\* What a step of a worker does to operations.
Handed(w) == (Keeps(w) \/ Drops(w)) /\ KindsKept /\ UNCHANGED <<queue, client>>

LEMMA BeginBasic ==
  ASSUME Basic, NEW w \in Workers, BeginCreate(w) \/ BeginDelete(w) \/ BeginRequest(w)
  PROVE  TypeOK' /\ Handed(w)
<1>0. TypeOK /\ (worker[w].pc # "idle" => worker[w].op \in Ops)
  BY DEF Basic, OnePlace
<1>1. CASE BeginCreate(w)
  <2>1. Keeps(w)
    BY <1>0, <1>1, GotoKeeps DEF BeginCreate, At
  <2>2. row' \in [status : Status, known : BOOLEAN]
    BY <1>0, <1>1, RowStatus DEF BeginCreate, Status, Busy
  <2> QED BY <1>0, <1>1, <2>1, <2>2 DEF BeginCreate, TypeOK, Handed, Keeps, KindsKept
<1>2. CASE BeginDelete(w)
  <2>1. Keeps(w)
    BY <1>0, <1>2, GotoKeeps, AnsweredKeeps DEF BeginDelete, At
  <2>2. row' \in [status : Status, known : BOOLEAN]
    BY <1>0, <1>2, RowStatus DEF BeginDelete, Status, Busy
  <2> QED BY <1>0, <1>2, <2>1, <2>2 DEF BeginDelete, TypeOK, Handed, Keeps, KindsKept
<1>3. CASE BeginRequest(w)
  <2>1. Keeps(w)
    BY <1>0, <1>3, GotoKeeps DEF BeginRequest, At
  <2>2. op' \in [Ops -> [kind : Kinds \cup {"unused"}, st : RequestStatus]] /\ KindsKept
    BY <1>0, <1>3, StatusKeepsKinds DEF BeginRequest, At, RequestStatus
  <2> QED BY <1>0, <1>3, <2>1, <2>2 DEF BeginRequest, TypeOK, Handed, Keeps
<1> QED BY <1>1, <1>2, <1>3

\* The steps that talk to the cloud.
Asks(w) == \/ Provision(w) \/ Provisioned(w) \/ Deprovision(w) \/ Deprovisioned(w)
           \/ SwitchPower(w) \/ LookUp(w) \/ Break(w)

LEMMA AskBasic ==
  ASSUME Basic, NEW w \in Workers, Asks(w)
  PROVE  TypeOK' /\ Handed(w)
<1>0. TypeOK
  BY DEF Basic
<1>1. Keeps(w)
  <2>1. CASE Provision(w) \/ Deprovision(w)
    BY <1>0, <2>1, GotoKeeps DEF Provision, Deprovision, At
  <2>2. CASE Provisioned(w) \/ Deprovisioned(w) \/ SwitchPower(w) \/ Break(w)
    BY <1>0, <2>2, AnsweredKeeps DEF Provisioned, Deprovisioned, SwitchPower, Break, At
  <2>3. CASE LookUp(w)
    BY <1>0, <2>3, AnsweredKeeps DEF LookUp, At
  <2> QED BY <2>1, <2>2, <2>3 DEF Asks
<1>2. /\ UNCHANGED <<row, inv, op, queue, client, lost>>
      /\ cloud' \in {"absent", "creating", "on", "off", "deleting"}
  BY <1>0 DEF Asks, Provision, Provisioned, Deprovision, Deprovisioned, SwitchPower,
              LookUp, Break, TypeOK
<1> QED BY <1>0, <1>1, <1>2 DEF TypeOK, Handed, Keeps, KindsKept

\* The steps that write the outcome.
Ends(w) == \/ FinishCreate(w) \/ FinishDelete(w) \/ FailLifecycle(w)
           \/ FinishStop(w) \/ FinishStart(w) \/ FinishCheck(w) \/ FinishPartial(w)
           \/ FailRequest(w)

LEMMA EndBasic ==
  ASSUME Basic, NEW w \in Workers, Ends(w)
  PROVE  TypeOK' /\ Handed(w) /\ Drops(w)
<1>0. /\ TypeOK /\ worker[w].pc = "save" /\ worker[w].op \in Ops
      /\ Return(w) /\ UNCHANGED <<cloud, queue, client, lost>>
  BY DEF Basic, OnePlace, Ends, FinishCreate, FinishDelete, FailLifecycle, FinishStop,
         FinishStart, FinishCheck, FinishPartial, FailRequest, Saving, At
<1>1. Drops(w)
  BY <1>0, ReturnDrops
<1>2. op' \in [Ops -> [kind : Kinds \cup {"unused"}, st : RequestStatus]] /\ KindsKept
  <2>1. UNCHANGED op \/ \E st \in {"PASS", "FAIL"} : op' = [op EXCEPT ![worker[w].op].st = st]
    BY DEF Ends, FinishCreate, FinishDelete, FailLifecycle, FinishStop, FinishStart,
           FinishCheck, FinishPartial, FailRequest
  <2>2. CASE UNCHANGED op
    BY <1>0, <2>2 DEF TypeOK, KindsKept
  <2> QED BY <1>0, <2>1, <2>2, StatusKeepsKinds DEF RequestStatus
<1>3. row' \in [status : Status, known : BOOLEAN]
  <2>1. CASE FinishCreate(w)
    BY <2>1 DEF FinishCreate, Status
  <2>4. CASE FinishCheck(w)
    <3>1. PICK s \in Status : row' = [status |-> s, known |-> TRUE]
      BY <1>0, <2>4, Parts DEF FinishCheck, Status
    <3> QED BY <3>1
  <2>2. CASE FinishDelete(w) \/ FailLifecycle(w) \/ FinishStart(w)
    BY <1>0, <2>2, RowStatus DEF FinishDelete, FailLifecycle, FinishStart, Status, TypeOK
  <2>3. CASE FinishStop(w) \/ FinishPartial(w) \/ FailRequest(w)
    BY <1>0, <2>3 DEF FinishStop, FinishPartial, FailRequest, TypeOK
  <2> QED BY <2>1, <2>2, <2>3, <2>4 DEF Ends
<1>4. inv' \in [present : BOOLEAN, on : BOOLEAN, archived : BOOLEAN]
  <2>1. inv.present \in BOOLEAN
    BY <1>0 DEF TypeOK
  <2>2. \/ UNCHANGED inv \/ inv' = Upserted
        \/ \E b \in BOOLEAN : inv' = [inv EXCEPT !.on = b]
        \/ inv' = [inv EXCEPT !.on = FALSE, !.archived = TRUE]
    BY <2>1 DEF Ends, FinishCreate, FinishDelete, FailLifecycle, FinishStop, FinishStart,
                FinishCheck, FinishPartial, FailRequest
  <2> QED BY <1>0, <2>2, InventoryFields DEF TypeOK
<1> QED BY <1>0, <1>1, <1>2, <1>3, <1>4 DEF TypeOK, Handed, Drops

-----------------------------------------------------------------------------
(* The invariant *)

\* An operation of a kind in Exclusive is in flight alone.
Alone == \A i, j \in Ops :
           InFlight(i) /\ InFlight(j) /\ op[i].kind \in Exclusive => i = j

\* The row is in a Busy status from the save of the handler to the last save of
\* the task, and is not when a handler has yet to save.
Locked ==
  /\ \A i \in queue : op[i].kind \in Lifecycle => row.status \in Busy
  /\ \A w \in Workers :
       worker[w].pc # "idle" /\ Kind(w) \in Lifecycle => row.status \in Busy
  /\ \A c \in Clients : client[c].pc = "send" /\ op[client[c].op].kind \in Lifecycle =>
       row.status \in Busy
  /\ \A c \in Clients :
       client[c].pc \in {"save", "discard"} /\ op[client[c].op].kind \in Lifecycle =>
         row.status \in {"INITIALIZED", "FAILED", "SUCCEEDED"}
  /\ \A c \in Clients : client[c].pc = "discard" => op[client[c].op].kind = "delete"

\* What a task that is about to save has seen is still so, and an archived VM is gone.
Seen ==
  /\ \A w \in Workers : Saving(w, {"delete"}, "ok") => cloud = "absent"
  /\ \A w \in Workers : Saving(w, {"check"}, "ok") => cloud \in {"on", "off"}
  /\ inv.archived => cloud = "absent" /\ row.status = "DELETED"

Inv == Basic /\ OneLifecycleTask /\ Alone /\ Locked /\ Seen

\* One request at a time, and checks alone.
Orderly == (\A c, d \in Clients : c = d) /\ "check" \in Exclusive

LEMMA FewerInFlight ==
  ASSUME OneLifecycleTask, Alone, KindsKept, \A i \in Ops : InFlight(i)' => InFlight(i)
  PROVE  OneLifecycleTask' /\ Alone'
<1>1. OneLifecycleTask'
  BY DEF OneLifecycleTask, KindsKept
<1>2. Alone'
  BY DEF Alone, KindsKept
<1> QED BY <1>1, <1>2

\* Places that are not taken exclude others.
LEMMA OneOnly ==
  ASSUME Inv, NEW w \in Workers, worker[w].pc # "idle",
         Kind(w) \in Lifecycle \/ Kind(w) \in Exclusive
  PROVE  /\ \A i \in queue : op[i].kind \notin Lifecycle \/ Kind(w) \notin Lifecycle
         /\ \A c \in Clients : client[c].pc # "idle" =>
              op[client[c].op].kind \notin Lifecycle \/ Kind(w) \notin Lifecycle
         /\ \A v \in Workers : worker[v].pc # "idle" /\ v # w =>
              Kind(v) \notin Lifecycle \/ Kind(w) \notin Lifecycle
         /\ Kind(w) \in Exclusive =>
              /\ queue = {}
              /\ \A c \in Clients : client[c].pc = "idle"
              /\ \A v \in Workers : v # w => worker[v].pc = "idle"
<1>1. worker[w].op \in Ops /\ InFlight(worker[w].op) /\ worker[w].op \notin queue
  BY DEF Inv, Basic, OnePlace, InFlight
<1>2. \A i \in queue : i \in Ops /\ InFlight(i) /\ i # worker[w].op
  BY <1>1 DEF Inv, Basic, TypeOK, InFlight
<1>3. \A c \in Clients : client[c].pc # "idle" =>
        client[c].op \in Ops /\ InFlight(client[c].op) /\ client[c].op # worker[w].op
  BY DEF Inv, Basic, OnePlace, InFlight
<1>4. \A v \in Workers : worker[v].pc # "idle" /\ v # w =>
        worker[v].op \in Ops /\ InFlight(worker[v].op) /\ worker[v].op # worker[w].op
  BY DEF Inv, Basic, OnePlace, InFlight
<1> QED BY <1>1, <1>2, <1>3, <1>4 DEF Inv, OneLifecycleTask, Alone, Kind

\* What a step of a worker must do with the status to respect the lock.
LEMMA WorkerLocked ==
  ASSUME Inv, NEW w \in Workers, Handed(w), worker[w].pc # "idle",
         \/ row'.status = row.status
         \/ Kind(w) \in Lifecycle /\ row'.status \in Busy
         \/ Kind(w) \in Lifecycle /\ Drops(w)
         \/ Kind(w) \in Exclusive /\ Drops(w)
         \/ row.status = "FAILED" /\ row'.status = "SUCCEEDED"
  PROVE  Locked'
<1>1. /\ \A v \in Workers : worker'[v].pc # "idle" =>
           worker[v].pc # "idle" /\ Kind(v)' = Kind(v)
      /\ \A c \in Clients : client[c].pc # "idle" =>
           op'[client[c].op].kind = op[client[c].op].kind
      /\ \A i \in queue : op'[i].kind = op[i].kind
      /\ UNCHANGED <<queue, client>>
  <2>1. \A v \in Workers : worker'[v].pc # "idle" =>
          worker[v].pc # "idle" /\ worker'[v].op = worker[v].op /\ worker[v].op \in Ops
    BY DEF Handed, Keeps, Drops, Inv, Basic, OnePlace
  <2> QED BY <2>1 DEF Handed, KindsKept, Kind, Inv, Basic, OnePlace, TypeOK
<1>2. CASE row'.status = row.status
  BY <1>1, <1>2 DEF Inv, Locked, Lifecycle
<1>3. CASE Kind(w) \in Lifecycle /\ row'.status \in Busy
  BY <1>1, <1>3, OneOnly DEF Inv, Locked, Lifecycle
<1>4. CASE Kind(w) \in Lifecycle /\ Drops(w)
  <2>1. \A v \in Workers : worker'[v].pc # "idle" => v # w
    BY <1>4 DEF Drops
  <2> QED BY <1>1, <1>4, <2>1, OneOnly DEF Inv, Locked, Lifecycle
<1>5. CASE Kind(w) \in Exclusive /\ Drops(w)
  <2>1. \A v \in Workers : worker'[v].pc = "idle"
    BY <1>5, OneOnly DEF Drops
  <2> QED BY <1>1, <1>5, <2>1, OneOnly DEF Locked
<1>6. CASE row.status = "FAILED" /\ row'.status = "SUCCEEDED"
  BY <1>1, <1>6 DEF Inv, Locked, Lifecycle, Busy
<1> QED BY <1>2, <1>3, <1>4, <1>5, <1>6

\* Places and exclusion follow from how operations move.
LEMMA HandedKeeps ==
  ASSUME Inv, NEW w \in Workers, Handed(w)
  PROVE  OnePlace' /\ OneLifecycleTask' /\ Alone'
<1>1. OnePlace' /\ \A i \in Ops : InFlight(i)' => InFlight(i)
  BY KeepsPlace, DropsPlace DEF Handed, Inv
<1> QED BY <1>1, FewerInFlight DEF Handed, Inv

\* What other workers have seen stays so while the cloud does.
LEMMA OthersSaw ==
  ASSUME Inv, NEW w \in Workers, Handed(w), worker'[w].pc # "save", UNCHANGED cloud
  PROVE  /\ \A v \in Workers : Saving(v, {"delete"}, "ok")' => cloud' = "absent"
         /\ \A v \in Workers : Saving(v, {"check"}, "ok")' => cloud' \in {"on", "off"}
<1>1. \A v \in Workers : worker'[v].pc = "save" =>
        worker'[v] = worker[v] /\ worker[v].op \in Ops
  BY DEF Handed, Keeps, Drops, Inv, Basic, OnePlace
<1> QED BY <1>1 DEF Inv, Seen, Saving, At, Kind, Handed, KindsKept

LEMMA BeginInv ==
  ASSUME Inv, NEW w \in Workers, BeginCreate(w) \/ BeginDelete(w) \/ BeginRequest(w)
  PROVE  Inv'
<1>1. TypeOK' /\ Handed(w) /\ worker[w].pc = "begin"
  BY BeginBasic DEF Inv, BeginCreate, BeginDelete, BeginRequest, At
<1>2. \/ Kind(w) \in Lifecycle /\ row'.status \in Busy
      \/ row' = row
  BY Parts DEF BeginCreate, BeginDelete, BeginRequest, At, Lifecycle, Busy, Inv, Basic, TypeOK
<1>3. Locked'
  BY <1>1, <1>2, WorkerLocked
<1>4. UNCHANGED <<inv, cloud>>
  BY DEF BeginCreate, BeginDelete, BeginRequest
<1>5. /\ \A v \in Workers : Saving(v, {"delete"}, "ok")' => cloud' = "absent"
      /\ \A v \in Workers : Saving(v, {"check"}, "ok")' => cloud' \in {"on", "off"}
  <2>1. TypeOK /\ worker[w].pc # "idle"
    BY <1>1 DEF Inv, Basic
  <2>2. CASE worker'[w].pc # "save"
    BY <1>1, <1>4, <2>2, OthersSaw
  <2>3. CASE worker'[w].pc = "save"
    <3>1. BeginDelete(w) /\ Answered(w, "error")
      BY <2>1, <2>3, GotoKeeps DEF BeginCreate, BeginDelete, BeginRequest
    <3>2. worker'[w].result = "error"
      BY <2>1, <3>1, AnsweredKeeps
    <3>3. \A v \in Workers : v # w => worker'[v] = worker[v]
      BY <1>1 DEF Handed, Keeps, Drops
    <3>4. \A v \in Workers : worker[v].pc # "idle" => worker[v].op \in Ops
      BY DEF Inv, Basic, OnePlace
    <3> QED BY <1>1, <1>4, <3>2, <3>3, <3>4
            DEF Inv, Seen, Saving, At, Kind, Handed, KindsKept
  <2> QED BY <2>2, <2>3
<1>6. inv'.archived => row'.status = "DELETED"
  <2>1. Kind(w) \in Lifecycle => row.status \in Busy
    BY <1>1 DEF Inv, Locked
  <2>2. row.status = "DELETED" => row.status \notin Busy
    BY DEF Busy
  <2> QED BY <1>2, <1>4, <2>1, <2>2 DEF Inv, Seen
<1>7. Seen'
  BY <1>4, <1>5, <1>6 DEF Inv, Seen
<1> QED BY <1>1, <1>3, <1>7, HandedKeeps DEF Inv, Basic

\* A worker with a create or delete: no inventory VM is archived.
LEMMA LockedNotArchived ==
  ASSUME Inv, NEW w \in Workers, worker[w].pc # "idle", Kind(w) \in Lifecycle
  PROVE  ~inv.archived
BY DEF Inv, Locked, Seen, Busy

LEMMA AskInv ==
  ASSUME Inv, NEW w \in Workers, Asks(w), "check" \in Exclusive
  PROVE  Inv'
<1>1. TypeOK' /\ Handed(w) /\ worker[w].pc \in {"call", "wait"} /\ UNCHANGED <<row, inv>>
  BY AskBasic DEF Inv, Asks, Provision, Provisioned, Deprovision, Deprovisioned,
                  SwitchPower, LookUp, Break, At
<1>2. Locked'
  BY <1>1, WorkerLocked
<1>3. /\ \A v \in Workers : v # w => worker'[v] = worker[v]
      /\ \A v \in Workers : worker[v].pc # "idle" => worker[v].op \in Ops
      /\ worker'[w].pc # "idle" => worker'[w].op = worker[w].op /\ Kind(w)' = Kind(w)
  BY <1>1 DEF Handed, Keeps, Drops, Inv, Basic, OnePlace, Kind, KindsKept,
              Asks, Provision, Provisioned, Deprovision, Deprovisioned, SwitchPower, LookUp, Break
<1>4. \A v \in Workers : Saving(v, {"delete"}, "ok")' => cloud' = "absent"
  <2> SUFFICES ASSUME NEW v \in Workers, Saving(v, {"delete"}, "ok")'
               PROVE  cloud' = "absent"
    OBVIOUS
  <2>1. CASE v = w
    <3>1. Kind(w) = "delete" /\ worker'[w].pc = "save" /\ worker'[w].result = "ok"
      BY <1>3, <2>1 DEF Saving, At
    <3>2. CASE Break(w)
      BY <1>1, <3>1, <3>2, AnsweredKeeps DEF Break, Inv, Basic
    <3>3. CASE Provision(w) \/ Deprovision(w)
      BY <1>1, <3>1, <3>3, GotoKeeps DEF Provision, Deprovision, Inv, Basic
    <3> QED BY <3>1, <3>2, <3>3 DEF Asks, Provisioned, Deprovisioned, SwitchPower, LookUp, At
  <2>2. CASE v # w
    <3>1. Saving(v, {"delete"}, "ok") /\ Kind(v) = "delete"
      BY <1>1, <1>3, <2>2 DEF Saving, At, Kind, Handed, KindsKept
    <3>2. cloud = "absent" /\ Kind(w) # "create"
      BY <1>1, <2>2, <3>1, OneOnly DEF Inv, Seen, Saving, At, Lifecycle
    <3> QED BY <3>2 DEF Asks, Provision, Provisioned, Deprovision, Deprovisioned,
                        SwitchPower, LookUp, Break, At
  <2> QED BY <2>1, <2>2
<1>5. \A v \in Workers : Saving(v, {"check"}, "ok")' => cloud' \in {"on", "off"}
  <2> SUFFICES ASSUME NEW v \in Workers, Saving(v, {"check"}, "ok")'
               PROVE  cloud' \in {"on", "off"}
    OBVIOUS
  <2>1. CASE v = w
    <3>1. Kind(w) = "check" /\ worker'[w].pc = "save" /\ worker'[w].result = "ok"
      BY <1>3, <2>1 DEF Saving, At
    <3>2. CASE Break(w)
      BY <1>1, <3>1, <3>2, AnsweredKeeps DEF Break, Inv, Basic
    <3>3. CASE LookUp(w)
      BY <1>1, <3>1, <3>3, AnsweredKeeps DEF LookUp, Inv, Basic
    <3> QED BY <3>1, <3>2, <3>3 DEF Asks, Provision, Provisioned, Deprovision,
                                    Deprovisioned, SwitchPower, At
  <2>2. CASE v # w
    <3>1. Saving(v, {"check"}, "ok") /\ Kind(v) \in Exclusive
      BY <1>1, <1>3, <2>2 DEF Saving, At, Kind, Handed, KindsKept
    <3> QED BY <1>1, <2>2, <3>1, OneOnly DEF Saving, At
  <2> QED BY <2>1, <2>2
<1>6. inv'.archived => cloud' = "absent" /\ row'.status = "DELETED"
  <2>1. CASE Kind(w) \in Lifecycle
    BY <1>1, <2>1, LockedNotArchived
  <2>2. CASE Kind(w) \notin Lifecycle
    BY <1>1, <2>2 DEF Inv, Seen, Asks, Provision, Provisioned, Deprovision, Deprovisioned,
                      SwitchPower, LookUp, Break, At, Lifecycle
  <2> QED BY <2>1, <2>2
<1> QED BY <1>1, <1>2, <1>4, <1>5, <1>6, HandedKeeps DEF Inv, Basic, Seen

LEMMA EndInv ==
  ASSUME Inv, NEW w \in Workers, Ends(w), "check" \in Exclusive
  PROVE  Inv'
<1>1. TypeOK' /\ Handed(w) /\ Drops(w) /\ UNCHANGED cloud /\ worker[w].pc = "save"
  BY EndBasic DEF Inv, Ends, FinishCreate, FinishDelete, FailLifecycle, FinishStop,
                  FinishStart, FinishCheck, FinishPartial, FailRequest, Saving, At
<1>2. \/ Kind(w) \in Lifecycle \/ Kind(w) \in Exclusive
      \/ row'.status = row.status
      \/ row.status = "FAILED" /\ row'.status = "SUCCEEDED"
  BY DEF Ends, FinishCreate, FinishDelete, FailLifecycle, FinishStop, FinishStart,
         FinishCheck, FinishPartial, FailRequest, Saving, At, Lifecycle, Inv, Basic, TypeOK
<1>3. Locked'
  BY <1>1, <1>2, WorkerLocked
<1>4. inv'.archived => cloud' = "absent" /\ row'.status = "DELETED"
  <2>1. CASE Kind(w) \in Lifecycle
    BY <1>1, <2>1, LockedNotArchived, InventoryFields
    DEF Inv, Basic, TypeOK, Seen, Ends, FinishCreate, FinishDelete, FailLifecycle,
        FinishStop, FinishStart, FinishCheck, FinishPartial, FailRequest, Saving, At,
        Lifecycle, Requests
  <2>2. CASE Kind(w) \notin Lifecycle
    <3>1. inv'.archived => inv.archived
      <4>1. inv.present \in BOOLEAN /\ TypeOK
        BY DEF Inv, Basic, TypeOK
      <4> QED BY <2>2, <4>1, InventoryFields
              DEF Ends, FinishCreate, FinishDelete, FailLifecycle, FinishStop, FinishStart,
                  FinishCheck, FinishPartial, FailRequest, Saving, At, Lifecycle
    <3>2. row.status = "DELETED" => row'.status = "DELETED"
      BY <2>2 DEF Ends, FinishCreate, FinishDelete, FailLifecycle, FinishStop, FinishStart,
                  FinishCheck, FinishPartial, FailRequest, Saving, At, Lifecycle,
                  Inv, Basic, TypeOK
    <3> QED BY <1>1, <3>1, <3>2 DEF Inv, Seen
  <2> QED BY <2>1, <2>2
<1>5. Seen'
  BY <1>1, <1>4, OthersSaw DEF Seen, Drops
<1> QED BY <1>1, <1>3, <1>5, HandedKeeps DEF Inv, Basic

-----------------------------------------------------------------------------
(* Handlers *)

\* A handler goes on with the operation it has.
Holds(c) == /\ client[c].pc # "idle" /\ client'[c].pc = "send"
            /\ client'[c].op = client[c].op
            /\ client' \in [Clients -> ClientRecords]
            /\ \A d \in Clients \ {c} : client'[d] = client[d]

\* A handler is over.
Leaves(c) == /\ client[c].pc # "idle" /\ client'[c].pc = "idle"
             /\ client' \in [Clients -> ClientRecords]
             /\ \A d \in Clients \ {c} : client'[d] = client[d]

LEMMA HandlerMoves ==
  ASSUME TypeOK, NEW c \in Clients, client[c].pc # "idle"
  PROVE  /\ client' = [client EXCEPT ![c].pc = "send"] => Holds(c)
         /\ client' = [client EXCEPT ![c] = NoClient] => Leaves(c)
<1> DEFINE rec == [client[c] EXCEPT !.pc = "send"]
<1>1. client \in [Clients -> ClientRecords] /\ client[c] \in ClientRecords
  BY DEF TypeOK
<1>2. rec \in ClientRecords /\ rec.pc = "send" /\ rec.op = client[c].op
  BY <1>1 DEF ClientRecords
<1>3. NoClient \in ClientRecords /\ NoClient.pc = "idle"
  BY ProvisioningBounds DEF NoClient, ClientRecords
<1>4. ASSUME client' = [client EXCEPT ![c].pc = "send"] PROVE Holds(c)
  <2>1. client' = [client EXCEPT ![c] = rec]
    BY <1>1, <1>4
  <2> HIDE DEF rec
  <2> QED BY <1>1, <1>2, <2>1 DEF Holds
<1>5. ASSUME client' = [client EXCEPT ![c] = NoClient] PROVE Leaves(c)
  BY <1>1, <1>3, <1>5 DEF Leaves
<1> QED BY <1>4, <1>5

\* What a handler's step does to operations: it keeps its own, gives it to the
\* broker, or drops it.
Passes(c) == /\ KindsKept /\ UNCHANGED worker
             /\ \/ Holds(c) /\ UNCHANGED queue
                \/ Leaves(c) /\ UNCHANGED queue
                \/ Leaves(c) /\ queue' = queue \cup {client[c].op}

LEMMA PassesBasic ==
  ASSUME Basic, NEW c \in Clients, Passes(c)
  PROVE  OnePlace' /\ \A i \in Ops : InFlight(i)' => InFlight(i)
<1>1. client[c].pc # "idle" /\ client[c].op \in Ops
  BY DEF Passes, Holds, Leaves, Basic, OnePlace
<1>2. \A d \in Clients : client'[d].pc # "idle" =>
        client[d].pc # "idle" /\ client'[d].op = client[d].op
  BY DEF Passes, Holds, Leaves
<1>3. queue' \subseteq Ops
  BY <1>1 DEF Passes, Basic, TypeOK
<1>4. OnePlace'
  <2>1. \A i \in queue' : op'[i].kind # "unused"
    BY <1>1, <1>3 DEF Passes, KindsKept, Basic, OnePlace
  <2>2. \A d \in Clients : client'[d].pc # "idle" =>
          client'[d].op \in Ops \ queue' /\ op'[client'[d].op].kind # "unused"
    BY <1>1, <1>2 DEF Passes, Holds, Leaves, KindsKept, Basic, OnePlace
  <2>3. \A w \in Workers : worker'[w].pc # "idle" =>
          worker'[w].op \in Ops \ queue' /\ Kind(w)' # "unused"
    BY <1>1 DEF Passes, KindsKept, Kind, Basic, OnePlace
  <2>4. \A v, w \in Workers : worker'[v].pc # "idle" /\ worker'[w].pc # "idle"
                              /\ worker'[v].op = worker'[w].op => v = w
    BY DEF Passes, Basic, OnePlace
  <2>5. \A d \in Clients, w \in Workers :
          client'[d].pc # "idle" /\ worker'[w].pc # "idle" => client'[d].op # worker'[w].op
    BY <1>2 DEF Passes, Basic, OnePlace
  <2>6. \A d, e \in Clients : client'[d].pc # "idle" /\ client'[e].pc # "idle"
                              /\ client'[d].op = client'[e].op => d = e
    BY <1>2 DEF Basic, OnePlace
  <2> QED BY <2>1, <2>2, <2>3, <2>4, <2>5, <2>6 DEF OnePlace
<1>5. \A i \in Ops : InFlight(i)' => InFlight(i)
  BY <1>1, <1>2 DEF InFlight, Passes
<1> QED BY <1>4, <1>5

LEMMA HandleBasic ==
  ASSUME Basic, NEW c \in Clients, Handle(c)
  PROVE  TypeOK' /\ Passes(c)
<1>1. /\ TypeOK /\ client[c].pc # "idle" /\ client[c].op \in Ops
      /\ UNCHANGED <<inv, cloud, worker>>
  BY DEF Basic, OnePlace, Handle, Discard, SaveStatus, SaveRequest, Send, Refuse
<1>2. /\ op' \in [Ops -> [kind : Kinds \cup {"unused"}, st : RequestStatus]]
      /\ KindsKept
  <2>1. UNCHANGED op \/ op' = [op EXCEPT ![client[c].op].st = "PENDING"]
    BY DEF Handle, Discard, SaveStatus, SaveRequest, Send, Refuse
  <2>2. CASE UNCHANGED op
    BY <1>1, <2>2 DEF TypeOK, KindsKept
  <2> QED BY <1>1, <2>1, <2>2, StatusKeepsKinds DEF RequestStatus
<1>3. Passes(c)
  BY <1>1, <1>2, HandlerMoves DEF Handle, Discard, SaveStatus, SaveRequest, Send, Refuse, Passes
<1>4. row' \in [status : Status, known : BOOLEAN]
  <2>1. CASE SaveStatus(c)
    BY <1>1, <2>1, RowStatus DEF SaveStatus, Status, Busy
  <2>2. CASE Discard(c)
    BY <1>1, <2>2, RowStatus DEF Discard, Status
  <2>3. CASE UNCHANGED row
    BY <1>1, <2>3 DEF TypeOK
  <2> QED BY <2>1, <2>2, <2>3 DEF Handle, SaveRequest, Send, Refuse
<1>5. TypeOK'
  <2>1. client' \in [Clients -> ClientRecords]
    BY <1>3 DEF Passes, Holds, Leaves
  <2>2. queue' \subseteq Ops /\ lost' \subseteq Ops
    BY <1>1 DEF TypeOK, Handle, Discard, SaveStatus, SaveRequest, Send, Refuse
  <2> QED BY <1>1, <1>2, <1>4, <2>1, <2>2 DEF TypeOK
<1> QED BY <1>3, <1>5

LEMMA PassesPlace ==
  ASSUME Inv, NEW c \in Clients, Passes(c)
  PROVE  OnePlace' /\ OneLifecycleTask' /\ Alone'
BY PassesBasic, FewerInFlight DEF Inv, Passes

\* While a handler has an operation that changes the status, nobody else has.
LEMMA HandlerOnly ==
  ASSUME Inv, NEW c \in Clients, client[c].pc # "idle", op[client[c].op].kind \in Lifecycle
  PROVE  /\ \A i \in queue : op[i].kind \notin Lifecycle
         /\ \A w \in Workers : worker[w].pc # "idle" => Kind(w) \notin Lifecycle
         /\ \A d \in Clients : client[d].pc # "idle" /\ d # c =>
              op[client[d].op].kind \notin Lifecycle
<1>1. client[c].op \in Ops /\ InFlight(client[c].op) /\ client[c].op \notin queue
  BY DEF Inv, Basic, OnePlace, InFlight
<1>2. \A i \in queue : i \in Ops /\ InFlight(i) /\ i # client[c].op
  BY <1>1 DEF Inv, Basic, TypeOK, InFlight
<1>3. \A w \in Workers : worker[w].pc # "idle" =>
        worker[w].op \in Ops /\ InFlight(worker[w].op) /\ client[c].op # worker[w].op
  BY DEF Inv, Basic, OnePlace, InFlight
<1>4. \A d \in Clients : client[d].pc # "idle" /\ d # c =>
        client[d].op \in Ops /\ InFlight(client[d].op) /\ client[d].op # client[c].op
  BY DEF Inv, Basic, OnePlace, InFlight
<1> QED BY <1>1, <1>2, <1>3, <1>4 DEF Inv, OneLifecycleTask, Kind

\* The handler's step takes the lock, or does not touch the status, or ends.
LEMMA HandlerLocked ==
  ASSUME Inv, NEW c \in Clients, Passes(c),
         \/ row'.status = row.status
            /\ (op[client[c].op].kind \in Lifecycle => client[c].pc = "send")
         \/ op[client[c].op].kind \in Lifecycle /\ Holds(c) /\ row'.status \in Busy
            /\ UNCHANGED queue
         \/ op[client[c].op].kind \in Lifecycle /\ Leaves(c) /\ UNCHANGED queue
  PROVE  Locked'
<1>1. client[c].pc # "idle" /\ client[c].op \in Ops
  BY DEF Passes, Holds, Leaves, Inv, Basic, OnePlace
<1>2. /\ \A i \in Ops : op'[i].kind = op[i].kind
      /\ \A w \in Workers : worker[w].pc # "idle" => Kind(w)' = Kind(w)
      /\ \A d \in Clients : client[d].pc # "idle" => client[d].op \in Ops
      /\ \A i \in queue : i \in Ops
      /\ UNCHANGED worker
  BY DEF Passes, KindsKept, Kind, Inv, Basic, OnePlace, TypeOK
<1>3. CASE row'.status = row.status
           /\ (op[client[c].op].kind \in Lifecycle => client[c].pc = "send")
  BY <1>1, <1>2, <1>3 DEF Passes, Holds, Leaves, Inv, Locked
<1>4. CASE /\ op[client[c].op].kind \in Lifecycle /\ Holds(c) /\ row'.status \in Busy
           /\ UNCHANGED queue
  <2>1. \A d \in Clients : client'[d].pc \in {"save", "discard"} =>
          d # c /\ client'[d] = client[d]
    BY <1>4 DEF Holds
  <2> QED BY <1>1, <1>2, <1>4, <2>1, HandlerOnly DEF Inv, Locked, Lifecycle
<1>5. CASE op[client[c].op].kind \in Lifecycle /\ Leaves(c) /\ UNCHANGED queue
  <2>1. \A d \in Clients : client'[d].pc # "idle" => d # c /\ client'[d] = client[d]
    BY <1>5 DEF Leaves
  <2> QED BY <1>1, <1>2, <1>5, <2>1, HandlerOnly DEF Inv, Locked, Lifecycle
<1> QED BY <1>3, <1>4, <1>5

\* What workers have seen, when neither they nor the cloud move.
LEMMA StillSeen ==
  ASSUME Inv, UNCHANGED <<cloud, worker>>,
         \A w \in Workers : worker[w].pc # "idle" => Kind(w)' = Kind(w),
         inv'.archived => inv.archived /\ row'.status = row.status
  PROVE  Seen'
BY DEF Inv, Seen, Saving, At

LEMMA HandleInv ==
  ASSUME Inv, NEW c \in Clients, Handle(c)
  PROVE  Inv'
<1>1. /\ TypeOK /\ client[c].pc # "idle" /\ client[c].op \in Ops
      /\ UNCHANGED <<inv, cloud, worker>>
  BY DEF Inv, Basic, OnePlace, Handle, Discard, SaveStatus, SaveRequest, Send, Refuse
<1>3. TypeOK' /\ Passes(c) /\ KindsKept
  BY HandleBasic DEF Inv, Passes
<1>6. Locked' /\ (inv'.archived => row'.status = row.status)
  <2>1. CASE Discard(c)
    <3>1. op[client[c].op].kind \in Lifecycle /\ Leaves(c) /\ UNCHANGED queue
      BY <1>1, <2>1, HandlerMoves DEF Discard, Inv, Locked, Lifecycle
    <3>2. ~inv.archived
      BY <2>1, <3>1 DEF Discard, Inv, Locked, Seen
    <3> QED BY <1>1, <1>3, <3>1, <3>2, HandlerLocked
  <2>2. CASE SaveStatus(c)
    <3>1. op[client[c].op].kind \in Lifecycle /\ Holds(c) /\ UNCHANGED queue
      BY <1>1, <2>2, HandlerMoves DEF SaveStatus
    <3>2. row'.status \in Busy
      <4>1. \E s \in Busy : row' = [row EXCEPT !.status = s]
        BY <2>2 DEF SaveStatus, Busy
      <4> QED BY <1>1, <4>1, RowStatus DEF Status
    <3>3. ~inv.archived
      BY <2>2, <3>1 DEF SaveStatus, Inv, Locked, Seen
    <3> QED BY <1>1, <1>3, <3>1, <3>2, <3>3, HandlerLocked
  <2>3. CASE SaveRequest(c)
    <3>1. op[client[c].op].kind \notin Lifecycle /\ UNCHANGED row
      BY <2>3 DEF SaveRequest, Requests, Lifecycle
    <3> QED BY <1>3, <3>1, HandlerLocked
  <2>4. CASE Send(c) \/ Refuse(c)
    <3>1. client[c].pc = "send" /\ UNCHANGED row
      BY <2>4 DEF Send, Refuse
    <3> QED BY <1>3, <3>1, HandlerLocked
  <2> QED BY <2>1, <2>2, <2>3, <2>4 DEF Handle
<1>7. Seen'
  <2>1. \A w \in Workers : worker[w].pc # "idle" => Kind(w)' = Kind(w)
    BY <1>1, <1>3 DEF KindsKept, Kind, Inv, Basic, OnePlace
  <2> QED BY <1>1, <1>6, <2>1, StillSeen
<1> QED BY <1>3, <1>6, <1>7, PassesPlace DEF Inv, Basic

\* A new operation: its id is unused, so nobody has it.
LEMMA ReadBasic ==
  ASSUME Basic, NEW c \in Clients, NEW k \in Kinds, NEW i \in Ops, Read(c, k, i)
  PROVE  /\ TypeOK' /\ OnePlace'
         /\ client[c].pc = "idle" /\ client'[c].op = i /\ client'[c].pc \in {"save", "discard"}
         /\ client'[c].pc = "discard" => k = "delete"
         /\ op'[i].kind = k /\ \A j \in Ops : j # i => op'[j] = op[j]
         /\ i \notin queue /\ \A w \in Workers : worker[w].pc # "idle" => worker[w].op \in Ops \ {i}
         /\ UNCHANGED <<row, inv, cloud, queue, worker, lost>>
<1> DEFINE pc == IF k = "delete" /\ row.status = "INITIALIZED" THEN "discard" ELSE "save"
           rec == [pc |-> pc, op |-> i]
           kindRec == [op[i] EXCEPT !.kind = k]
<1>1. /\ TypeOK /\ client[c].pc = "idle" /\ op[i].kind = "unused"
      /\ UNCHANGED <<row, inv, cloud, queue, worker, lost>>
  BY DEF Basic, Read
<1>2. rec \in ClientRecords /\ client' = [client EXCEPT ![c] = rec]
  BY DEF Read, ClientRecords, Ops
<1>3. client' \in [Clients -> ClientRecords] /\ \A d \in Clients : d # c => client'[d] = client[d]
  BY <1>1, <1>2 DEF TypeOK
<1>4. client'[c].pc = pc /\ client'[c].op = i /\ pc \in {"save", "discard"}
  BY <1>1, <1>2 DEF TypeOK
<1>5. /\ op' \in [Ops -> [kind : Kinds \cup {"unused"}, st : RequestStatus]]
      /\ op'[i].kind = k /\ \A j \in Ops : j # i => op'[j] = op[j]
  <2>1. op[i] \in [kind : Kinds \cup {"unused"}, st : RequestStatus]
    BY <1>1 DEF TypeOK
  <2>2. kindRec \in [kind : Kinds \cup {"unused"}, st : RequestStatus] /\ kindRec.kind = k
    BY <2>1
  <2>3. op' = [op EXCEPT ![i] = kindRec]
    BY <1>1, Parts DEF Read
  <2> HIDE DEF kindRec
  <2> QED BY <1>1, <2>2, <2>3, Parts
<1>6. TypeOK'
  BY <1>1, <1>3, <1>5 DEF TypeOK
<1>7. pc = "discard" => k = "delete"
  OBVIOUS
<1> HIDE DEF pc, rec, kindRec
<1>8. i \notin queue /\ (\A w \in Workers : worker[w].pc # "idle" => worker[w].op \in Ops \ {i})
  BY <1>1 DEF Basic, OnePlace, Kind
<1>9. \A d \in Clients : d # c /\ client'[d].pc # "idle" =>
        client[d].pc # "idle" /\ client'[d].op = client[d].op /\ client[d].op \in Ops \ {i}
  BY <1>1, <1>3 DEF Basic, OnePlace
<1>10. \A j \in queue : j \in Ops /\ op'[j] = op[j]
  BY <1>5, <1>8 DEF Basic, TypeOK
<1>11. OnePlace'
  <2>1. "unused" \notin Kinds
    BY DEF Kinds, Lifecycle, Requests
  <2>2. \A j \in queue' : op'[j].kind # "unused"
    BY <1>1, <1>10 DEF Basic, OnePlace
  <2>3. \A d \in Clients : client'[d].pc # "idle" =>
          client'[d].op \in Ops \ queue' /\ op'[client'[d].op].kind # "unused"
    BY <1>1, <1>4, <1>5, <1>8, <1>9, <2>1 DEF Basic, OnePlace
  <2>4. \A w \in Workers : worker'[w].pc # "idle" =>
          worker'[w].op \in Ops \ queue' /\ Kind(w)' # "unused"
    BY <1>1, <1>5, <1>8 DEF Basic, OnePlace, Kind
  <2>5. \A d, e \in Clients : client'[d].pc # "idle" /\ client'[e].pc # "idle"
                              /\ client'[d].op = client'[e].op => d = e
    BY <1>4, <1>9 DEF Basic, OnePlace
  <2>6. \A v, w \in Workers : worker'[v].pc # "idle" /\ worker'[w].pc # "idle"
                              /\ worker'[v].op = worker'[w].op => v = w
    BY <1>1 DEF Basic, OnePlace
  <2>7. \A d \in Clients, w \in Workers :
          client'[d].pc # "idle" /\ worker'[w].pc # "idle" => client'[d].op # worker'[w].op
    BY <1>1, <1>4, <1>8, <1>9 DEF Basic, OnePlace
  <2> QED BY <2>2, <2>3, <2>4, <2>5, <2>6, <2>7 DEF OnePlace
<1> QED BY <1>1, <1>4, <1>5, <1>6, <1>7, <1>8, <1>11

\* It takes its place only if the statuses of the row allow it.
LEMMA ReadInv ==
  ASSUME Inv, Orderly, NEW c \in Clients, NEW k \in Kinds, NEW i \in Ops, Read(c, k, i)
  PROVE  Inv'
<1>1. /\ TypeOK /\ client[c].pc = "idle" /\ op[i].kind = "unused"
      /\ UNCHANGED <<row, inv, cloud, queue, worker, lost>>
  BY DEF Inv, Basic, Read
<1>4. /\ client'[c].pc \in {"save", "discard"} /\ client'[c].op = i
      /\ client'[c].pc = "discard" => k = "delete"
  BY ReadBasic DEF Inv
<1>5. op'[i].kind = k /\ \A j \in Ops : j # i => op'[j] = op[j]
  BY ReadBasic DEF Inv
<1>6. TypeOK' /\ OnePlace'
  BY ReadBasic DEF Inv
<1>7. \A d \in Clients : d = c
  BY DEF Orderly
<1>8. i \notin queue /\ (\A w \in Workers : worker[w].pc # "idle" => worker[w].op \in Ops \ {i})
  BY <1>1 DEF Inv, Basic, OnePlace, Kind
<1>9. \A w \in Workers : worker[w].pc # "idle" => Kind(w)' = Kind(w)
  BY <1>1, <1>5, <1>8 DEF Kind
<1>10. \A j \in queue : j \in Ops /\ op'[j] = op[j]
  BY <1>5, <1>8 DEF Inv, Basic, TypeOK
<1>12. \A j \in Ops : InFlight(j)' => j = i \/ (InFlight(j) /\ op'[j].kind = op[j].kind)
  BY <1>1, <1>4, <1>5, <1>7 DEF InFlight
<1>13. Alone'
  <2>1. k \in Exclusive => \A j \in Ops : ~InFlight(j)
    BY DEF Read, AtRest
  <2>2. \A j \in Ops : InFlight(j) => op[j].kind \notin Exclusive
    BY DEF Read
  <2> QED BY <1>5, <1>12, <2>1, <2>2 DEF Alone
<1>14. k \in Lifecycle => row.status \in {"INITIALIZED", "FAILED", "SUCCEEDED"}
  BY DEF Read, Accepted, Lifecycle
<1>15. k \in Lifecycle => \A j \in Ops : InFlight(j) => op[j].kind \notin Lifecycle
  <2> SUFFICES ASSUME k \in Lifecycle, NEW j \in Ops, InFlight(j)
               PROVE  op[j].kind \notin Lifecycle
    OBVIOUS
  <2>1. row.status \notin Busy
    BY <1>14 DEF Busy
  <2>2. CASE j \in queue
    BY <2>1, <2>2 DEF Inv, Locked
  <2>3. CASE \E w \in Workers : worker[w].pc # "idle" /\ worker[w].op = j
    BY <2>1, <2>3 DEF Inv, Locked, Kind
  <2> QED BY <1>1, <1>7, <2>2, <2>3 DEF InFlight
<1>16. OneLifecycleTask'
  BY <1>5, <1>12, <1>15 DEF Inv, OneLifecycleTask
<1>17. Locked'
  BY <1>1, <1>4, <1>5, <1>7, <1>9, <1>10, <1>14 DEF Inv, Locked
<1>18. Seen'
  BY <1>1, <1>9, StillSeen
<1> QED BY <1>6, <1>13, <1>16, <1>17, <1>18 DEF Inv, Basic

-----------------------------------------------------------------------------
(* Broker and environment *)

LEMMA DeliverBasic ==
  ASSUME Basic, NEW w \in Workers, NEW i \in Ops, Deliver(w, i)
  PROVE  /\ TypeOK' /\ OnePlace'
         /\ worker'[w].pc = "begin" /\ worker'[w].op = i
         /\ \A v \in Workers : v # w => worker'[v] = worker[v]
<1> DEFINE rec == [pc |-> "begin", op |-> i, result |-> "none"]
<1>1. /\ TypeOK /\ worker[w].pc = "idle" /\ i \in queue /\ queue' = queue \ {i}
      /\ UNCHANGED <<row, inv, cloud, op, client, lost>>
  BY DEF Basic, Deliver
<1>2. rec \in WorkerRecords /\ worker' = [worker EXCEPT ![w] = rec]
  BY DEF Deliver, WorkerRecords, Ops
<1>3. /\ worker' \in [Workers -> WorkerRecords]
      /\ worker'[w].pc = "begin" /\ worker'[w].op = i
      /\ \A v \in Workers : v # w => worker'[v] = worker[v]
  BY <1>1, <1>2 DEF TypeOK
<1> HIDE DEF rec
<1>4. TypeOK'
  BY <1>1, <1>3 DEF TypeOK
<1>5. OnePlace'
  BY <1>1, <1>3 DEF Basic, OnePlace, Kind
<1> QED BY <1>3, <1>4, <1>5

LEMMA DeliverInv ==
  ASSUME Inv, NEW w \in Workers, NEW i \in Ops, Deliver(w, i)
  PROVE  Inv'
<1>1. /\ TypeOK /\ worker[w].pc = "idle" /\ i \in queue /\ queue' = queue \ {i}
      /\ UNCHANGED <<row, inv, cloud, op, client, lost>>
  BY DEF Inv, Basic, Deliver
<1>3. /\ TypeOK' /\ OnePlace'
      /\ worker'[w].pc = "begin" /\ worker'[w].op = i
      /\ \A v \in Workers : v # w => worker'[v] = worker[v]
  BY DeliverBasic DEF Inv
<1>6. \A j \in Ops : InFlight(j)' => InFlight(j)
  BY <1>1, <1>3 DEF InFlight
<1>7. OneLifecycleTask' /\ Alone'
  BY <1>1, <1>6, FewerInFlight DEF Inv, KindsKept
<1>8. Locked'
  BY <1>1, <1>3 DEF Inv, Locked, Kind
<1>9. Seen'
  BY <1>1, <1>3 DEF Inv, Seen, Saving, At, Kind
<1> QED BY <1>3, <1>7, <1>8, <1>9 DEF Inv, Basic

LEMMA CrashBasic ==
  ASSUME Basic, NEW w \in Workers, Crash(w)
  PROVE  TypeOK' /\ Handed(w) /\ Drops(w)
<1>1. /\ TypeOK /\ worker[w].pc # "idle" /\ worker[w].op \in Ops /\ Return(w)
      /\ UNCHANGED <<row, inv, cloud, op, queue, client>> /\ lost' = lost \cup {worker[w].op}
  BY DEF Basic, OnePlace, Crash
<1>2. Drops(w) /\ Handed(w)
  BY <1>1, ReturnDrops DEF Handed, KindsKept
<1>3. TypeOK'
  BY <1>1, <1>2 DEF TypeOK, Drops
<1> QED BY <1>2, <1>3

LEMMA CrashInv ==
  ASSUME Inv, NEW w \in Workers, Crash(w)
  PROVE  Inv'
<1>1. worker[w].pc # "idle" /\ UNCHANGED <<row, inv, cloud>>
  BY DEF Crash
<1>2. TypeOK' /\ Drops(w) /\ Handed(w)
  BY CrashBasic DEF Inv
<1>4. Locked'
  BY <1>1, <1>2, WorkerLocked
<1>5. Seen'
  <2>1. worker'[w].pc # "save"
    BY <1>2 DEF Drops
  <2> QED BY <1>1, <1>2, <2>1, OthersSaw DEF Inv, Seen
<1> QED BY <1>2, <1>4, <1>5, HandedKeeps DEF Inv, Basic

\* Upload, the owner's inventory and the cloud move no operation.
LEMMA EnvironmentBasic ==
  ASSUME Basic, Upload \/ RemoveInventory \/ Settle
  PROVE  TypeOK' /\ OnePlace' /\ UNCHANGED <<op, queue, client, worker, lost>>
<1>1. TypeOK /\ UNCHANGED <<op, queue, client, worker, lost>>
  BY DEF Basic, Upload, RemoveInventory, Settle
<1>2. TypeOK'
  <2>1. CASE Upload
    BY <1>1, <2>1, RowStatus DEF Upload, Status, TypeOK
  <2>2. CASE RemoveInventory
    BY <1>1, <2>2 DEF RemoveInventory, TypeOK, NoVM
  <2>3. CASE Settle
    BY <1>1, <2>3 DEF Settle, TypeOK
  <2> QED BY <2>1, <2>2, <2>3
<1>3. OnePlace'
  BY <1>1 DEF Basic, OnePlace, Kind
<1> QED BY <1>1, <1>2, <1>3

LEMMA EnvironmentInv ==
  ASSUME Inv, Upload \/ RemoveInventory \/ Settle
  PROVE  Inv'
<1>1. TypeOK /\ TypeOK' /\ UNCHANGED <<op, queue, client, worker, lost>>
  BY EnvironmentBasic DEF Inv, Basic
<1>3. OnePlace' /\ OneLifecycleTask' /\ Alone'
  BY <1>1 DEF Inv, Basic, OnePlace, OneLifecycleTask, Alone, InFlight, Kind
<1>4. row.status = "ABSENT" \/ UNCHANGED row
  BY DEF Upload, RemoveInventory, Settle
<1>5. Locked'
  <2>1. CASE UNCHANGED row
    BY <1>1, <2>1 DEF Inv, Locked, Kind
  <2>2. CASE row.status = "ABSENT"
    BY <1>1, <2>2 DEF Inv, Locked, Kind, Busy
  <2> QED BY <1>4, <2>1, <2>2
<1>6. Seen'
  <2>1. cloud \in {"absent", "on", "off"} => UNCHANGED cloud
    BY DEF Upload, RemoveInventory, Settle
  <2>2. inv'.archived => inv.archived /\ UNCHANGED row
    BY DEF Upload, RemoveInventory, Settle, NoVM, Inv, Seen
  <2> QED BY <1>1, <2>1, <2>2 DEF Inv, Seen, Saving, At, Kind
<1> QED BY <1>1, <1>3, <1>5, <1>6 DEF Inv, Basic

-----------------------------------------------------------------------------
(* The theorems *)

LEMMA InitInv == Init => Inv
<1> SUFFICES ASSUME Init PROVE Inv
  OBVIOUS
<1>1. /\ row \in [status : Status, known : BOOLEAN] /\ row.status = "ABSENT"
      /\ inv \in [present : BOOLEAN, on : BOOLEAN, archived : BOOLEAN] /\ ~inv.archived
  BY DEF Init, NoVM, Status
<1>2. /\ NoClient \in ClientRecords /\ NoWorker \in WorkerRecords
      /\ NoClient.pc = "idle" /\ NoWorker.pc = "idle"
  BY ProvisioningBounds DEF NoClient, NoWorker, ClientRecords, WorkerRecords
<1>3. op \in [Ops -> [kind : Kinds \cup {"unused"}, st : RequestStatus]]
  BY DEF Init, RequestStatus
<1>4. /\ \A c \in Clients : client[c].pc = "idle"
      /\ \A w \in Workers : worker[w].pc = "idle"
      /\ queue = {}
  BY <1>2 DEF Init
<1>5. TypeOK
  BY <1>1, <1>2, <1>3 DEF Init, TypeOK
<1>6. OnePlace /\ Locked /\ Seen
  BY <1>1, <1>4 DEF OnePlace, Locked, Seen, Saving, At
<1>7. OneLifecycleTask /\ Alone
  BY <1>4 DEF OneLifecycleTask, Alone, InFlight
<1> QED BY <1>5, <1>6, <1>7 DEF Inv, Basic

LEMMA NextInv == Orderly /\ Inv /\ [Next]_vars => Inv'
<1> SUFFICES ASSUME Orderly, Inv, [Next]_vars PROVE Inv'
  OBVIOUS
<1>1. CASE Upload \/ RemoveInventory \/ Settle
  BY <1>1, EnvironmentInv
<1>2. ASSUME NEW c \in Clients, NEW k \in Kinds, NEW i \in Ops, Read(c, k, i) PROVE Inv'
  BY <1>2, ReadInv
<1>3. ASSUME NEW c \in Clients, Handle(c) PROVE Inv'
  BY <1>3, HandleInv
<1>4. ASSUME NEW w \in Workers, NEW i \in Ops, Deliver(w, i) PROVE Inv'
  BY <1>4, DeliverInv
<1>5. ASSUME NEW w \in Workers, Work(w) PROVE Inv'
  <2>1. CASE BeginCreate(w) \/ BeginDelete(w) \/ BeginRequest(w)
    BY <2>1, BeginInv
  <2>2. CASE Asks(w)
    BY <2>2, AskInv DEF Orderly
  <2>3. CASE Ends(w)
    BY <2>3, EndInv DEF Orderly
  <2> QED BY <1>5, <2>1, <2>2, <2>3 DEF Work, Asks, Ends
<1>6. ASSUME NEW w \in Workers, Crash(w) PROVE Inv'
  BY <1>6, CrashInv
<1>7. CASE UNCHANGED vars
  BY <1>7 DEF vars, Inv, Basic, TypeOK, OnePlace, OneLifecycleTask, Alone, Locked, Seen,
              InFlight, Kind, Saving, At
<1> QED BY <1>1, <1>2, <1>3, <1>4, <1>5, <1>6, <1>7 DEF Next

LEMMA Invariant == ASSUME Orderly PROVE Spec => []Inv
<1>1. Inv /\ [Next]_vars => Inv'
  BY NextInv
<1> QED BY <1>1, InitInv, PTL DEF Spec

\* What a step may do to a deleted VM and to an archived inventory VM.
LEMMA DeletedStep ==
  ASSUME Inv, Orderly, [Next]_vars, row.status = "DELETED"
  PROVE  row'.status = "DELETED"
<1>0. row.status \notin Busy \cup {"ABSENT", "INITIALIZED", "FAILED", "SUCCEEDED"} /\ TypeOK
  BY DEF Busy, Inv, Basic
<1>1. \A w \in Workers : worker[w].pc # "idle" => Kind(w) \notin Lifecycle
  BY <1>0 DEF Inv, Locked
<1>2. ASSUME NEW c \in Clients, Handle(c) PROVE row'.status = "DELETED"
  BY <1>0, <1>2 DEF Handle, Discard, SaveStatus, SaveRequest, Send, Refuse, Inv, Locked, Lifecycle
<1>3. ASSUME NEW w \in Workers, Work(w) PROVE row'.status = "DELETED"
  <2>1. CASE FinishStart(w) \/ FinishCheck(w) \/ FinishPartial(w)
    BY <1>0, <2>1 DEF FinishStart, FinishCheck, FinishPartial, TypeOK
  <2>2. CASE UNCHANGED row
    BY <2>2
  <2>3. CASE Kind(w) \in Lifecycle /\ worker[w].pc # "idle"
    BY <1>1, <2>3
  <2> QED BY <1>3, <2>1, <2>2, <2>3
          DEF Work, BeginCreate, BeginDelete, BeginRequest, Provision, Provisioned, Deprovision,
              Deprovisioned, SwitchPower, LookUp, Break, FinishCreate, FinishDelete,
              FailLifecycle, FinishStop, FailRequest, Saving, At, Lifecycle
<1>4. CASE UNCHANGED row
  BY <1>4
<1> QED BY <1>0, <1>2, <1>3, <1>4
        DEF Next, vars, Upload, Read, Deliver, RemoveInventory, Settle, Crash

LEMMA ArchivedStep ==
  ASSUME Inv, Orderly, [Next]_vars, inv.archived
  PROVE  inv'.archived \/ ~inv'.present
<1>0. TypeOK /\ cloud = "absent" /\ row.status \notin Busy
  BY DEF Inv, Basic, Seen, Busy
<1>1. \A w \in Workers : worker[w].pc # "idle" => Kind(w) \notin Lifecycle
  BY <1>0 DEF Inv, Locked
<1>2. ASSUME NEW w \in Workers, Work(w) PROVE inv'.archived \/ ~inv'.present
  <2>1. inv.present \in BOOLEAN
    BY <1>0 DEF TypeOK
  <2>2. CASE FinishStop(w) \/ FinishStart(w)
    BY <1>0, <2>1, <2>2, InventoryFields DEF FinishStop, FinishStart
  <2>3. CASE FinishCheck(w)
    BY <1>0, <2>3 DEF FinishCheck, Inv, Seen
  <2>4. CASE Kind(w) \in Lifecycle /\ worker[w].pc # "idle"
    BY <1>1, <2>4
  <2>5. CASE UNCHANGED inv
    BY <2>5
  <2> QED BY <1>2, <2>2, <2>3, <2>4, <2>5
          DEF Work, BeginCreate, BeginDelete, BeginRequest, Provision, Provisioned, Deprovision,
              Deprovisioned, SwitchPower, LookUp, Break, FinishCreate, FinishDelete,
              FailLifecycle, FinishPartial, FailRequest, Saving, At, Lifecycle
<1>3. CASE UNCHANGED inv
  BY <1>3
<1>4. CASE RemoveInventory
  BY <1>4 DEF RemoveInventory, NoVM
<1>5. ASSUME NEW c \in Clients, Handle(c) PROVE UNCHANGED inv
  BY <1>5 DEF Handle, Discard, SaveStatus, SaveRequest, Send, Refuse
<1> QED BY <1>2, <1>3, <1>4, <1>5 DEF Next, vars, Upload, Read, Deliver, Settle, Crash

LEMMA BasicKept == Basic /\ [Next]_vars => Basic'
<1> SUFFICES ASSUME Basic, [Next]_vars PROVE Basic'
  OBVIOUS
<1>1. CASE Upload \/ RemoveInventory \/ Settle
  BY <1>1, EnvironmentBasic DEF Basic
<1>2. ASSUME NEW c \in Clients, NEW k \in Kinds, NEW i \in Ops, Read(c, k, i) PROVE Basic'
  BY <1>2, ReadBasic DEF Basic
<1>3. ASSUME NEW c \in Clients, Handle(c) PROVE Basic'
  BY <1>3, HandleBasic, PassesBasic DEF Basic
<1>4. ASSUME NEW w \in Workers, NEW i \in Ops, Deliver(w, i) PROVE Basic'
  BY <1>4, DeliverBasic DEF Basic
<1>5. ASSUME NEW w \in Workers, TypeOK', Handed(w) PROVE Basic'
  BY <1>5, KeepsPlace, DropsPlace DEF Basic, Handed
<1>6. ASSUME NEW w \in Workers, Work(w) PROVE Basic'
  <2>1. BeginCreate(w) \/ BeginDelete(w) \/ BeginRequest(w) \/ Asks(w) \/ Ends(w)
    BY <1>6 DEF Work, Asks, Ends
  <2> QED BY <1>5, <2>1, BeginBasic, AskBasic, EndBasic
<1>7. ASSUME NEW w \in Workers, Crash(w) PROVE Basic'
  BY <1>5, <1>7, CrashBasic
<1>8. CASE UNCHANGED vars
  BY <1>8 DEF vars, Basic, TypeOK, OnePlace, Kind
<1> QED BY <1>1, <1>2, <1>3, <1>4, <1>6, <1>7, <1>8 DEF Next

\* Rows, operations, handlers and workers stay well formed for every number of
\* clients and however their requests overlap: in particular every task saves
\* one of the statuses of models.py.  A step is well typed only because an
\* operation has one place (OnePlace), which is what makes Basic inductive.
THEOREM ProvisioningTypeCorrect == Spec => []TypeOK
<1>1. Init => Basic
  BY InitInv DEF Inv
<1>2. Basic => TypeOK
  BY DEF Basic
<1> QED BY <1>1, <1>2, BasicKept, PTL DEF Spec

\* With one request at a time and checks made alone, the checks of the create and
\* delete handlers (api.py) let one create or delete be on its way, however long
\* its task waits for the cloud and whichever messages and workers are lost.
THEOREM OneLifecycle == ASSUME Orderly PROVE Spec => []OneLifecycleTask
<1>1. Inv => OneLifecycleTask
  BY DEF Inv
<1> QED BY <1>1, Invariant, PTL

\* A VM that deprovision_vm_task, or the delete of a VM never created, left
\* DELETED is DELETED for ever: late start and stop tasks do not revive it.
THEOREM DeletedForGood == ASSUME Orderly PROVE Spec => DeletedIsFinal
<1>1. Inv /\ [Next]_vars => [row.status = "DELETED" => row'.status = "DELETED"]_vars
  BY DeletedStep
<1> QED BY <1>1, Invariant, PTL DEF Spec, DeletedIsFinal

\* No later create or check puts an archived inventory VM back to use
\* (_upsert_inventory_vm clears the flag whenever it is called).
THEOREM ArchivedForGood == ASSUME Orderly PROVE Spec => ArchivedIsFinal
<1>1. Inv /\ [Next]_vars => [inv.archived => inv'.archived \/ ~inv'.present]_vars
  BY ArchivedStep
<1> QED BY <1>1, Invariant, PTL DEF Spec, ArchivedIsFinal
=============================================================================
