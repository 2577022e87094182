------------------------- MODULE CloudProvisioning -------------------------
(***************************************************************************)
(* One ProvisioningVM of icopa_hub/cloud_provisioning: the handlers that   *)
(* create, delete, stop, start and check it, the five Celery tasks, the    *)
(* inventory VM they keep, and the VM in the cloud.  A `transaction.atomic` *)
(* block on the row is one action; a call to the cloud stands between two  *)
(* of them.                                                                *)
(***************************************************************************)
EXTENDS Naturals, FiniteSets

CONSTANTS Clients,     \* Hub threads that serve the owner of the VM
          Workers,     \* slots of the Celery workers
          MaxOps,      \* bound on the operations a behaviour contains
          Exclusive,   \* kinds of operation the client never overlaps
          Faults       \* what may go wrong besides the cloud

Lifecycle == {"create", "delete"}
Requests == {"stop", "start", "check"}
Kinds == Lifecycle \cup Requests
FaultKinds == {"refuse", "crash"}
Ops == 1..MaxOps

ASSUME ProvisioningBounds == MaxOps \in Nat
ASSUME ProvisioningKinds == Exclusive \subseteq Kinds
ASSUME ProvisioningFaults == Faults \subseteq FaultKinds

VARIABLES row,      \* the ProvisioningVM: status, and whether result_data knows the cloud VM
          inv,      \* the inventory VM linked to it
          cloud,    \* the VM in the cloud
          op,       \* per task id: what was asked, and the status of its request row
          queue,    \* task messages in the broker
          client, worker,
          lost      \* history: operations whose message was refused or whose worker died

vars == <<row, inv, cloud, op, queue, client, worker, lost>>

Busy == {"PENDING", "RUNNING", "DELETING"}
Status == Busy \cup {"ABSENT", "INITIALIZED", "SUCCEEDED", "FAILED", "DELETED"}
RequestStatus == {"none", "PENDING", "RUNNING", "PASS", "FAIL"}

ClientRecords == [pc : {"idle", "save", "discard", "send"}, op : 0..MaxOps]
WorkerRecords == [pc : {"idle", "begin", "call", "wait", "save"}, op : 0..MaxOps,
                  result : {"none", "ok", "partial", "error"}]
NoClient == [pc |-> "idle", op |-> 0]
NoWorker == [pc |-> "idle", op |-> 0, result |-> "none"]
NoVM == [present |-> FALSE, on |-> FALSE, archived |-> FALSE]

Init == /\ row = [status |-> "ABSENT", known |-> FALSE]
        /\ inv = NoVM
        /\ cloud \in {"absent", "on"}    \* the template may name a VM that exists
        /\ op = [i \in Ops |-> [kind |-> "unused", st |-> "none"]]
        /\ queue = {}
        /\ client = [c \in Clients |-> NoClient]
        /\ worker = [w \in Workers |-> NoWorker]
        /\ lost = {}

InFlight(i) == \/ i \in queue
               \/ \E c \in Clients : client[c].pc # "idle" /\ client[c].op = i
               \/ \E w \in Workers : worker[w].pc # "idle" /\ worker[w].op = i

AtRest == \A i \in Ops : ~InFlight(i)

-----------------------------------------------------------------------------
(* The handlers *)

\* Mutant of Accepted: create no longer refuses a VM that is being deleted.
AcceptedWhileDeleting ==
  [create |-> {"INITIALIZED", "FAILED", "DELETING"},
   delete |-> {"INITIALIZED", "SUCCEEDED", "FAILED"},
   stop   |-> {"SUCCEEDED", "FAILED"},
   start  |-> {"SUCCEEDED", "FAILED"},
   check  |-> Status \ {"ABSENT"}]

\* The statuses in which a handler does not answer 400.
Accepted == [create |-> {"INITIALIZED", "FAILED"},
             delete |-> {"INITIALIZED", "SUCCEEDED", "FAILED"},
             stop   |-> {"SUCCEEDED", "FAILED"},
             start  |-> {"SUCCEEDED", "FAILED"},
             check  |-> Status \ {"ABSENT"}]

Upload ==
  /\ row.status = "ABSENT"
  /\ row' = [row EXCEPT !.status = "INITIALIZED"]
  /\ UNCHANGED <<inv, cloud, op, queue, client, worker, lost>>

\* A request loads the row and passes the checks of its handler.
Read(c, k, i) ==
  /\ client[c].pc = "idle"
  /\ row.status \in Accepted[k]
  /\ k \in Exclusive => AtRest
  /\ \A j \in Ops : InFlight(j) => op[j].kind \notin Exclusive
  /\ op[i].kind = "unused" /\ \A j \in 1..(i - 1) : op[j].kind # "unused"
  /\ op' = [op EXCEPT ![i].kind = k]
  /\ client' = [client EXCEPT ![c] =
       [pc |-> IF k = "delete" /\ row.status = "INITIALIZED" THEN "discard" ELSE "save",
        op |-> i]]
  /\ UNCHANGED <<row, inv, cloud, queue, worker, lost>>

\* Deleting a VM that was never created ends in the handler.
Discard(c) ==
  /\ client[c].pc = "discard"
  /\ row' = [row EXCEPT !.status = "DELETED"]
  /\ client' = [client EXCEPT ![c] = NoClient]
  /\ UNCHANGED <<inv, cloud, op, queue, worker, lost>>

SaveStatus(c) ==
  /\ client[c].pc = "save" /\ op[client[c].op].kind \in Lifecycle
  /\ row' = [row EXCEPT !.status =
               IF op[client[c].op].kind = "create" THEN "PENDING" ELSE "DELETING"]
  /\ client' = [client EXCEPT ![c].pc = "send"]
  /\ UNCHANGED <<inv, cloud, op, queue, worker, lost>>

SaveRequest(c) ==
  /\ client[c].pc = "save" /\ op[client[c].op].kind \in Requests
  /\ op' = [op EXCEPT ![client[c].op].st = "PENDING"]
  /\ client' = [client EXCEPT ![c].pc = "send"]
  /\ UNCHANGED <<row, inv, cloud, queue, worker, lost>>

\* `delay`; the task id it returns is saved and never read by the Hub.
Send(c) ==
  /\ client[c].pc = "send"
  /\ queue' = queue \cup {client[c].op}
  /\ client' = [client EXCEPT ![c] = NoClient]
  /\ UNCHANGED <<row, inv, cloud, op, worker, lost>>

\* `delay` raises, or the thread dies before it: the row keeps what was saved.
Refuse(c) ==
  /\ "refuse" \in Faults /\ client[c].pc = "send"
  /\ lost' = lost \cup {client[c].op}
  /\ client' = [client EXCEPT ![c] = NoClient]
  /\ UNCHANGED <<row, inv, cloud, op, queue, worker>>

\* The owner deletes the inventory VM; the foreign key of the row becomes null.
RemoveInventory ==
  /\ inv.present
  /\ inv' = NoVM
  /\ UNCHANGED <<row, cloud, op, queue, client, worker, lost>>

-----------------------------------------------------------------------------
(* The tasks *)

Kind(w) == op[worker[w].op].kind
At(w, pc, kinds) == worker[w].pc = pc /\ Kind(w) \in kinds
Saving(w, kinds, result) == At(w, "save", kinds) /\ worker[w].result = result

Goto(w, pc) == worker' = [worker EXCEPT ![w].pc = pc]
Answered(w, result) == worker' = [worker EXCEPT ![w].pc = "save", ![w].result = result]
Return(w) == worker' = [worker EXCEPT ![w] = NoWorker]

Deliver(w, i) ==
  /\ worker[w].pc = "idle" /\ i \in queue
  /\ queue' = queue \ {i}
  /\ worker' = [worker EXCEPT ![w] = [pc |-> "begin", op |-> i, result |-> "none"]]
  /\ UNCHANGED <<row, inv, cloud, op, client, lost>>

BeginCreate(w) ==
  /\ At(w, "begin", {"create"})
  /\ row' = [row EXCEPT !.status = "RUNNING"]
  /\ Goto(w, "call")
  /\ UNCHANGED <<inv, cloud, op, queue, client, lost>>

\* Without the ids in result_data the task cannot name what it shall delete.
BeginDelete(w) ==
  /\ At(w, "begin", {"delete"})
  /\ row' = [row EXCEPT !.status = "DELETING"]
  /\ IF row.known THEN Goto(w, "call") ELSE Answered(w, "error")
  /\ UNCHANGED <<inv, cloud, op, queue, client, lost>>

BeginRequest(w) ==
  /\ At(w, "begin", Requests)
  /\ op' = [op EXCEPT ![worker[w].op].st = "RUNNING"]
  /\ Goto(w, "call")
  /\ UNCHANGED <<row, inv, cloud, queue, client, lost>>

\* The PUT of the VM: it creates one, or finds the one that is there.
Provision(w) ==
  /\ At(w, "call", {"create"}) /\ cloud # "deleting"
  /\ cloud' = IF cloud = "absent" THEN "creating" ELSE cloud
  /\ Goto(w, "wait")
  /\ UNCHANGED <<row, inv, op, queue, client, lost>>

Provisioned(w) ==
  /\ At(w, "wait", {"create"}) /\ cloud \in {"on", "off"}
  /\ Answered(w, "ok")
  /\ UNCHANGED <<row, inv, cloud, op, queue, client, lost>>

Deprovision(w) ==
  /\ At(w, "call", {"delete"})
  /\ cloud' = IF cloud = "absent" THEN "absent" ELSE "deleting"
  /\ Goto(w, "wait")
  /\ UNCHANGED <<row, inv, op, queue, client, lost>>

Deprovisioned(w) ==
  /\ At(w, "wait", {"delete"}) /\ cloud = "absent"
  /\ Answered(w, "ok")
  /\ UNCHANGED <<row, inv, cloud, op, queue, client, lost>>

\* The command, the wait for its power state and the lookup after it; the command
\* may take effect although the wait fails.
SwitchPower(w) ==
  /\ At(w, "call", {"stop", "start"}) /\ cloud \in {"on", "off"}
  /\ cloud' = IF Kind(w) = "start" THEN "on" ELSE "off"
  /\ \E result \in {"ok", "error"} : Answered(w, result)
  /\ UNCHANGED <<row, inv, op, queue, client, lost>>

\* A VM in transition exists with a provisioning state other than Succeeded.
LookUp(w) ==
  /\ At(w, "call", {"check"}) /\ cloud # "absent"
  /\ Answered(w, IF cloud \in {"on", "off"} THEN "ok" ELSE "partial")
  /\ UNCHANGED <<row, inv, cloud, op, queue, client, lost>>

\* Missing credentials, an error of the cloud, a VM that is not there, a
\* deadline that passes, attached resources that stay, a VM without address.
Break(w) ==
  /\ worker[w].pc \in {"call", "wait"}
  /\ Answered(w, "error")
  /\ UNCHANGED <<row, inv, cloud, op, queue, client, lost>>

Upserted == [present |-> TRUE, on |-> TRUE, archived |-> FALSE]

FinishCreate(w) ==
  /\ Saving(w, {"create"}, "ok")
  /\ row' = [status |-> "SUCCEEDED", known |-> TRUE]
  /\ inv' = Upserted
  /\ Return(w)
  /\ UNCHANGED <<cloud, op, queue, client, lost>>

FinishDelete(w) ==
  /\ Saving(w, {"delete"}, "ok")
  /\ row' = [row EXCEPT !.status = "DELETED"]
  /\ inv' = IF inv.present THEN [inv EXCEPT !.on = FALSE, !.archived = TRUE] ELSE inv
  /\ Return(w)
  /\ UNCHANGED <<cloud, op, queue, client, lost>>

\* Mutant of FailLifecycle: the except clause only logs.
FailSilently(w) ==
  /\ Saving(w, Lifecycle, "error")
  /\ Return(w)
  /\ UNCHANGED <<row, inv, cloud, op, queue, client, lost>>

\* A failure saves its status only: what an earlier result told stays known.
FailLifecycle(w) ==
  /\ Saving(w, Lifecycle, "error")
  /\ row' = [row EXCEPT !.status = "FAILED"]
  /\ Return(w)
  /\ UNCHANGED <<inv, cloud, op, queue, client, lost>>

\* Mutant of FinishStop: the status of the cloud's answer goes into the request.
FinishStopped(w) ==
  /\ Saving(w, {"stop"}, "ok")
  /\ op' = [op EXCEPT ![worker[w].op].st = "STOPPED"]
  /\ inv' = [inv EXCEPT !.on = FALSE]
  /\ Return(w)
  /\ UNCHANGED <<row, cloud, queue, client, lost>>

FinishStop(w) ==
  /\ Saving(w, {"stop"}, "ok")
  /\ op' = [op EXCEPT ![worker[w].op].st = "PASS"]
  /\ inv' = [inv EXCEPT !.on = FALSE]
  /\ Return(w)
  /\ UNCHANGED <<row, cloud, queue, client, lost>>

\* Mutant of FinishStart: a VM with no task under way has succeeded once it starts.
StartSucceeds(w) ==
  /\ Saving(w, {"start"}, "ok")
  /\ op' = [op EXCEPT ![worker[w].op].st = "PASS"]
  /\ row' = IF row.status \in Busy THEN row ELSE [row EXCEPT !.status = "SUCCEEDED"]
  /\ inv' = [inv EXCEPT !.on = inv.present]
  /\ Return(w)
  /\ UNCHANGED <<cloud, queue, client, lost>>

\* Mutant of FinishStart: the inventory VM is written as the other tasks write it.
StartUpserts(w) ==
  /\ Saving(w, {"start"}, "ok")
  /\ op' = [op EXCEPT ![worker[w].op].st = "PASS"]
  /\ row' = IF row.status = "FAILED" THEN [row EXCEPT !.status = "SUCCEEDED"] ELSE row
  /\ inv' = IF inv.present THEN Upserted ELSE inv
  /\ Return(w)
  /\ UNCHANGED <<cloud, queue, client, lost>>

FinishStart(w) ==
  /\ Saving(w, {"start"}, "ok")
  /\ op' = [op EXCEPT ![worker[w].op].st = "PASS"]
  /\ row' = IF row.status = "FAILED" THEN [row EXCEPT !.status = "SUCCEEDED"] ELSE row
  /\ inv' = [inv EXCEPT !.on = inv.present]
  /\ Return(w)
  /\ UNCHANGED <<cloud, queue, client, lost>>

\* A VM without an address is not put into the inventory.
FinishCheck(w) ==
  /\ Saving(w, {"check"}, "ok")
  /\ op' = [op EXCEPT ![worker[w].op].st = "PASS"]
  /\ row' = [status |-> IF row.status \in {"INITIALIZED", "PENDING", "RUNNING"}
                        THEN "SUCCEEDED" ELSE row.status,
             known |-> TRUE]
  /\ inv' \in {inv, Upserted}
  /\ Return(w)
  /\ UNCHANGED <<cloud, queue, client, lost>>

FinishPartial(w) ==
  /\ Saving(w, {"check"}, "partial")
  /\ op' = [op EXCEPT ![worker[w].op].st = "FAIL"]
  /\ row' = [row EXCEPT !.known = TRUE]
  /\ Return(w)
  /\ UNCHANGED <<inv, cloud, queue, client, lost>>

\* Mutant of FailRequest: the except clause only logs.
FailUnrecorded(w) ==
  /\ Saving(w, Requests, "error")
  /\ Return(w)
  /\ UNCHANGED <<row, inv, cloud, op, queue, client, lost>>

FailRequest(w) ==
  /\ Saving(w, Requests, "error")
  /\ op' = [op EXCEPT ![worker[w].op].st = "FAIL"]
  /\ Return(w)
  /\ UNCHANGED <<row, inv, cloud, queue, client, lost>>

-----------------------------------------------------------------------------
(* The environment *)

\* The cloud carries out what it was asked for, or gives up creating.
Settle ==
  /\ \/ cloud = "creating" /\ cloud' \in {"on", "absent"}
     \/ cloud = "deleting" /\ cloud' = "absent"
  /\ UNCHANGED <<row, inv, op, queue, client, worker, lost>>

\* A worker dies; the broker has forgotten the message.
Crash(w) ==
  /\ "crash" \in Faults /\ worker[w].pc # "idle"
  /\ lost' = lost \cup {worker[w].op}
  /\ Return(w)
  /\ UNCHANGED <<row, inv, cloud, op, queue, client>>

Handle(c) == Discard(c) \/ SaveStatus(c) \/ SaveRequest(c) \/ Send(c) \/ Refuse(c)

Work(w) ==
  \/ BeginCreate(w) \/ BeginDelete(w) \/ BeginRequest(w)
  \/ Provision(w) \/ Provisioned(w) \/ Deprovision(w) \/ Deprovisioned(w)
  \/ SwitchPower(w) \/ LookUp(w) \/ Break(w)
  \/ FinishCreate(w) \/ FinishDelete(w) \/ FailLifecycle(w)
  \/ FinishStop(w) \/ FinishStart(w) \/ FinishCheck(w) \/ FinishPartial(w) \/ FailRequest(w)

Next == \/ Upload
        \/ \E c \in Clients, k \in Kinds, i \in Ops : Read(c, k, i)
        \/ \E c \in Clients : Handle(c)
        \/ \E w \in Workers, i \in Ops : Deliver(w, i)
        \/ \E w \in Workers : Work(w)
        \/ RemoveInventory
        \/ Settle
        \/ \E w \in Workers : Crash(w)

Spec == Init /\ [][Next]_vars

\* Threads and workers are scheduled, and a message reaches a free worker.
Fairness == /\ \A c \in Clients : WF_vars(Handle(c))
            /\ \A w \in Workers : WF_vars(Work(w))
            /\ \A i \in Ops : WF_vars(\E w \in Workers : Deliver(w, i))

FairSpec == Spec /\ Fairness

-----------------------------------------------------------------------------
(* Properties *)

\* The rows, messages and records of threads and workers are well formed.
TypeOK ==
  /\ row \in [status : Status, known : BOOLEAN]
  /\ inv \in [present : BOOLEAN, on : BOOLEAN, archived : BOOLEAN]
  /\ cloud \in {"absent", "creating", "on", "off", "deleting"}
  /\ op \in [Ops -> [kind : Kinds \cup {"unused"}, st : RequestStatus]]
  /\ queue \subseteq Ops /\ lost \subseteq Ops
  /\ client \in [Clients -> ClientRecords]
  /\ worker \in [Workers -> WorkerRecords]

\* The statuses PENDING, RUNNING and DELETING work as a lock: while a create or
\* delete is on its way, from its handler to its task's end, there is no other.
OneLifecycleTask ==
  \A i, j \in Ops : InFlight(i) /\ InFlight(j) /\ op[i].kind \in Lifecycle
                      /\ op[j].kind \in Lifecycle => i = j

\* No late task of a stop, a start or a check, and no create, takes a deleted VM
\* out of DELETED.
DeletedIsFinal == [][row.status = "DELETED" => row'.status = "DELETED"]_vars

\* What deprovisioning archived stays archived until its owner removes it.
ArchivedIsFinal == [][inv.archived => inv'.archived \/ ~inv'.present]_vars

\* Operations end with a verdict, unless their message or worker was lost: a
\* create or delete in the row, a stop, start or check in its request.
OperationEnds ==
  /\ row.status \in Busy ~> \/ row.status \notin Busy
                            \/ \E i \in lost : op[i].kind \in Lifecycle
  /\ \A i \in Ops : op[i].st = "PENDING" ~> op[i].st \in {"PASS", "FAIL"} \/ i \in lost
=============================================================================
