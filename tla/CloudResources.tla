---------------------------- MODULE CloudResources ----------------------------
(***************************************************************************)
(* AzureProvisioner (icopa_core/cloud_provisioning/azure.py): how one call *)
(* of a task creates, deletes, looks up, stops or starts the VM of a       *)
(* ProvisioningVM row together with its network interface, public address  *)
(* and security group, request by request, and what the task keeps of the  *)
(* result.  Calls follow one another: CloudProvisioning is about requests  *)
(* and tasks that overlap.  A request may be refused, or time out after    *)
(* the cloud has accepted it; the cloud works on its own and may give up.  *)
(***************************************************************************)
EXTENDS Naturals

CONSTANTS MaxPolls,   \* polls before a deadline
          MaxFaults,  \* requests that fail, resources that break, evictions
          Configs     \* request_spec: [ip, ssh, image, address : BOOLEAN, spot : Spots]

ASSUME ResourcePolls == MaxPolls \in Nat \ {0}
ASSUME ResourceFaults == MaxFaults \in Nat
(* Not a spot VM, or what becomes of it when it is evicted. *)
Spots == {"none", "Deallocate", "Delete"}
ASSUME ResourceConfigs ==
  Configs \subseteq [ip : BOOLEAN, ssh : BOOLEAN, image : BOOLEAN, address : BOOLEAN, spot : Spots]

VARIABLES config,  \* what the template asks for
          res,     \* the resources in the cloud
          power,   \* of the VM
          row,     \* status and result_data: subscription, resource ids, last create
          call,    \* the call under way
          faults

vars == <<config, res, power, row, call, faults>>

Attached == {"nic", "pip", "nsg"}
Resources == Attached \cup {"vm"}
ResourceStates == {"absent", "creating", "ready", "failed", "deleting"}
Status == {"INITIALIZED", "RUNNING", "DELETING", "SUCCEEDED", "FAILED", "DELETED"}
Kinds == {"create", "delete", "check", "stop", "start"}
PCs == {"idle", "prepare", "put", "wait", "address", "delete", "gone", "view", "power", "awaitPower", "save"}

NoCall == [kind |-> "none", pc |-> "idle", todo |-> {}, left |-> 0, found |-> "absent",
           seen |-> FALSE, ok |-> FALSE, disturbed |-> FALSE, evicted |-> FALSE]

Init == /\ config \in Configs
        /\ \E vm \in {"absent", "ready"} :     \* the template may name resources that exist
             res = [r \in Resources |-> vm]
        /\ power = "on"
        /\ row = [status |-> "INITIALIZED", known |-> FALSE, ids |-> {}, whole |-> FALSE]
        /\ call = NoCall
        /\ faults = 0

Wanted == {"nic", "vm"} \cup (IF config.ip THEN {"pip"} ELSE {}) \cup (IF config.ssh THEN {"nsg"} ELSE {})

---------------------------------------------------------------------------
(* The cloud: what refers to a resource, and when it accepts a request.    *)

InUse(r) == \/ r = "nic" /\ res["vm"] # "absent"
            \/ r = "pip" /\ config.ip /\ res["nic"] # "absent"
            \/ r = "nsg" /\ config.ssh /\ res["nic"] # "absent"

Needs == [vm |-> {"nic"}, nic |-> Wanted \ {"nic", "vm"}, pip |-> {}, nsg |-> {}]
Busy(r) == res[r] \in {"creating", "deleting"}
Accepts(r) == ~Busy(r) /\ \A d \in Needs[r] : res[d] = "ready"

(* The cloud carries out what it was asked for, or gives up creating.      *)
Settle ==
  /\ \E r \in Resources :
       \/ res[r] = "creating" /\ res' = [res EXCEPT ![r] = "ready"] /\ UNCHANGED <<faults, call>>
       \/ res[r] = "deleting" /\ res' = [res EXCEPT ![r] = "absent"] /\ UNCHANGED <<faults, call>>
       \/ /\ res[r] = "creating" /\ faults < MaxFaults
          /\ res' = [res EXCEPT ![r] = "failed"]
          /\ faults' = faults + 1
          /\ call' = [call EXCEPT !.disturbed = TRUE]
  /\ UNCHANGED <<config, power, row>>

(* A spot VM is evicted: it is powered off or removed.  The history        *)
(* `evicted` is set when the call has seen the VM and loses it.            *)
Evict ==
  /\ config.spot # "none" /\ res["vm"] = "ready" /\ power = "on" /\ faults < MaxFaults
  /\ IF config.spot = "Delete"
     THEN res' = [res EXCEPT !["vm"] = "deleting"] /\ UNCHANGED power
     ELSE power' = "off" /\ UNCHANGED res
  /\ faults' = faults + 1
  /\ call' = [call EXCEPT !.disturbed = TRUE, !.evicted = @ \/ (call.seen /\ config.spot = "Delete")]
  /\ UNCHANGED <<config, row>>

---------------------------------------------------------------------------
Answers == {"ok", "refused", "late"}
Arrived(a) == a # "refused"

Goto(pc) == [call EXCEPT !.pc = pc]
Fail == [call EXCEPT !.pc = "save", !.ok = FALSE]
Succeed == [call EXCEPT !.pc = "save", !.ok = TRUE]
Done(r) == [call EXCEPT !.todo = @ \ {r}]

(* A request that fails ends the call in its except clause.                *)
Request(a, next) ==
  /\ a # "ok" => faults < MaxFaults
  /\ faults' = IF a = "ok" THEN faults ELSE faults + 1
  /\ call' = IF a = "ok" THEN next ELSE [Fail EXCEPT !.disturbed = TRUE]

(* Mutants of Poll: a deadline that is only looked at for zero, and none. *)
PollPastDeadline == [call EXCEPT !.left = @ - 1]
PollForEver == call

(* A poll that finds the state not reached: sleep, or the deadline.        *)
Poll == IF call.left = 1 THEN [Fail EXCEPT !.disturbed = TRUE] ELSE [call EXCEPT !.left = @ - 1]

PutOrder == <<"nsg", "pip", "nic", "vm">>
(* Mutant of DeleteOrder: the resources as they were created. *)
DeleteAsCreated == PutOrder
DeleteOrder == <<"vm", "nic", "pip", "nsg">>
First(order, todo) ==
  order[CHOOSE i \in 1..4 : order[i] \in todo /\ \A j \in 1..(i - 1) : order[j] \notin todo]

---------------------------------------------------------------------------
(* The tasks: the row before and after a call.                             *)

Begin(kind, pc, todo) ==
  call' = [NoCall EXCEPT !.kind = kind, !.pc = pc, !.todo = todo, !.left = MaxPolls]

BeginCreate ==
  /\ call.pc = "idle" /\ row.status \in {"INITIALIZED", "FAILED"}
  /\ row' = [row EXCEPT !.status = "RUNNING"]
  /\ Begin("create", "prepare", Wanted)
  /\ UNCHANGED <<config, res, power, faults>>

(* delete needs the subscription of an earlier result; the VM is named     *)
(* even without an id of its own.                                          *)
BeginDelete ==
  /\ call.pc = "idle" /\ row.status \in {"SUCCEEDED", "FAILED"} /\ row.known
  /\ row' = [row EXCEPT !.status = "DELETING"]
  /\ Begin("delete", "delete", row.ids \cup {"vm"})
  /\ UNCHANGED <<config, res, power, faults>>

RefuseDelete ==
  /\ call.pc = "idle" /\ row.status \in {"SUCCEEDED", "FAILED"} /\ ~row.known
  /\ row' = [row EXCEPT !.status = "FAILED"]
  /\ UNCHANGED <<config, res, power, call, faults>>

BeginLook ==
  /\ call.pc = "idle"
  /\ Begin("check", "view", {"vm"})
  /\ UNCHANGED <<config, res, power, row, faults>>

BeginPower(kind) ==
  /\ call.pc = "idle" /\ row.status \in {"SUCCEEDED", "FAILED"}
  /\ Begin(kind, "power", {})
  /\ UNCHANGED <<config, res, power, row, faults>>

---------------------------------------------------------------------------
(* provision_vm *)

(* Token, subscription, subnet and size: nothing is created yet.           *)
Prepare ==
  /\ call.pc = "prepare"
  /\ \E a \in {"ok", "refused"} : Request(a, Goto("put"))
  /\ UNCHANGED <<config, res, power, row>>

(* The PUT of _put_and_wait: a resource that is there is kept.  The image  *)
(* is looked at after the network resources were made.                     *)
Put ==
  /\ call.pc = "put"
  /\ LET r == First(PutOrder, call.todo)
     IN  IF (r = "vm" /\ ~config.image) \/ ~Accepts(r)
         THEN call' = [Fail EXCEPT !.disturbed = @ \/ Busy(r)] /\ UNCHANGED <<res, power, faults>>
         ELSE \E a \in Answers :
                /\ Request(a, [Goto("wait") EXCEPT !.left = MaxPolls])
                /\ IF Arrived(a) /\ res[r] # "ready"
                   THEN res' = [res EXCEPT ![r] = "creating"] /\ power' = IF r = "vm" THEN "on" ELSE power
                   ELSE UNCHANGED <<res, power>>
  /\ UNCHANGED <<config, row>>

AfterPut(r) ==
  IF r # "vm" THEN [Done(r) EXCEPT !.pc = "put"]
  ELSE IF config.ip THEN [Done(r) EXCEPT !.pc = "address", !.seen = TRUE]
  ELSE [Done(r) EXCEPT !.pc = "save", !.seen = TRUE, !.ok = TRUE]

(* Mutant of AwaitReady: a resource that failed counts as finished. *)
AwaitEnd ==
  /\ call.pc = "wait"
  /\ LET r == First(PutOrder, call.todo)
         next == IF res[r] \in {"ready", "failed"} THEN AfterPut(r) ELSE Poll
     IN  \E a \in {"ok", "refused"} : Request(a, next)
  /\ UNCHANGED <<config, res, power, row>>

(* _wait_for_provisioning, and the GET of the finished resource.           *)
AwaitReady ==
  /\ call.pc = "wait"
  /\ LET r == First(PutOrder, call.todo)
         next == CASE res[r] = "ready" -> AfterPut(r)
                   [] res[r] \in {"failed", "absent"} -> Fail
                   [] OTHER -> Poll
     IN  \E a \in {"ok", "refused"} : Request(a, next)
  /\ UNCHANGED <<config, res, power, row>>

GetAddress ==
  /\ call.pc = "address"
  /\ \E a \in {"ok", "refused"} : Request(a, Succeed)
  /\ UNCHANGED <<config, res, power, row>>

---------------------------------------------------------------------------
(* delete_vm *)

Delete ==
  /\ call.pc = "delete"
  /\ LET r == First(DeleteOrder, call.todo)
     IN  IF InUse(r)
         THEN call' = Fail /\ UNCHANGED <<res, faults>>
         ELSE \E a \in Answers :
                /\ Request(a, [Goto("gone") EXCEPT !.left = MaxPolls])
                /\ res' = IF Arrived(a) /\ res[r] # "absent" THEN [res EXCEPT ![r] = "deleting"] ELSE res
  /\ UNCHANGED <<config, power, row>>

AfterDelete(r) ==
  IF call.todo = {r} THEN [Done(r) EXCEPT !.pc = "save", !.seen = TRUE, !.ok = TRUE]
  ELSE [Done(r) EXCEPT !.pc = "delete", !.seen = @ \/ r = "vm"]

(* Mutant of AwaitGone: a VM that is being deleted counts as gone. *)
AwaitLeaving ==
  /\ call.pc = "gone"
  /\ LET r == First(DeleteOrder, call.todo)
         next == IF res[r] \in {"absent", "deleting"} THEN AfterDelete(r) ELSE Poll
     IN  \E a \in {"ok", "refused"} : Request(a, next)
  /\ UNCHANGED <<config, res, power, row>>

(* _wait_until_gone *)
AwaitGone ==
  /\ call.pc = "gone"
  /\ LET r == First(DeleteOrder, call.todo)
         next == IF res[r] = "absent" THEN AfterDelete(r) ELSE Poll
     IN  \E a \in {"ok", "refused"} : Request(a, next)
  /\ UNCHANGED <<config, res, power, row>>

---------------------------------------------------------------------------
(* get_vm_instance_view, stop_vm and start_vm *)

View ==
  /\ call.pc = "view"
  /\ \E a \in {"ok", "refused"} : Request(a, [Succeed EXCEPT !.seen = TRUE, !.found = res["vm"]])
  /\ UNCHANGED <<config, res, power, row>>

Switched(kind) == IF kind = "stop" THEN "off" ELSE "on"

SwitchPower ==
  /\ call.pc = "power"
  /\ IF res["vm"] # "ready" THEN call' = [Fail EXCEPT !.disturbed = @ \/ Busy("vm")] /\ UNCHANGED <<power, faults>>
     ELSE \E a \in Answers :
            /\ Request(a, Goto("awaitPower"))
            /\ power' = IF Arrived(a) THEN Switched(call.kind) ELSE power
  /\ UNCHANGED <<config, res, row>>

(* A VM that is being removed reports no power state.                      *)
AwaitPower ==
  /\ call.pc = "awaitPower"
  /\ LET next == CASE res["vm"] = "absent" -> Fail
                   [] res["vm"] = "ready" /\ power = Switched(call.kind) -> [Succeed EXCEPT !.seen = TRUE]
                   [] OTHER -> Poll
     IN  \E a \in {"ok", "refused"} : Request(a, next)
  /\ UNCHANGED <<config, res, power, row>>

---------------------------------------------------------------------------
(* What the task makes of the result.  A create that failed, or succeeded  *)
(* without any address, saves its status and leaves the subscription and   *)
(* ids of an earlier result (update_execution_status).                     *)
Addressed == config.ip \/ config.address

(* Mutant of SaveCreate: ids are kept of what the template asked for, created or not. *)
SaveCreateWithoutGroup ==
  /\ call.pc = "save" /\ call.kind = "create"
  /\ row' = IF call.ok /\ Addressed
            THEN [status |-> "SUCCEEDED", known |-> TRUE, ids |-> Wanted \ {"nsg"}, whole |-> TRUE]
            ELSE [row EXCEPT !.status = "FAILED"]
  /\ call' = [NoCall EXCEPT !.ok = call.ok]
  /\ UNCHANGED <<config, res, power, faults>>

SaveCreate ==
  /\ call.pc = "save" /\ call.kind = "create"
  /\ row' = IF call.ok /\ Addressed
            THEN [status |-> "SUCCEEDED", known |-> TRUE, ids |-> Wanted, whole |-> TRUE]
            ELSE [row EXCEPT !.status = "FAILED"]
  /\ call' = [NoCall EXCEPT !.ok = call.ok]
  /\ UNCHANGED <<config, res, power, faults>>

SaveDelete ==
  /\ call.pc = "save" /\ call.kind = "delete"
  /\ row' = [row EXCEPT !.status = IF call.ok THEN "DELETED" ELSE "FAILED"]
  /\ call' = [NoCall EXCEPT !.ok = call.ok]
  /\ UNCHANGED <<config, res, power, faults>>

(* A check that finds the VM remembers subscription and VM, and promotes a *)
(* row nobody has created.                                                 *)
SaveCheck ==
  /\ call.pc = "save" /\ call.kind = "check"
  /\ row' = IF ~call.ok \/ call.found = "absent" THEN row
            ELSE [row EXCEPT !.known = TRUE, !.ids = @ \cup {"vm"},
                             !.status = IF @ = "INITIALIZED" /\ call.found = "ready" THEN "SUCCEEDED" ELSE @]
  /\ call' = [NoCall EXCEPT !.ok = call.ok]
  /\ UNCHANGED <<config, res, power, faults>>

SavePower ==
  /\ call.pc = "save" /\ call.kind \in {"stop", "start"}
  /\ row' = IF call.ok /\ call.kind = "start" /\ row.status = "FAILED"
            THEN [row EXCEPT !.status = "SUCCEEDED"] ELSE row
  /\ call' = [NoCall EXCEPT !.ok = call.ok]
  /\ UNCHANGED <<config, res, power, faults>>

---------------------------------------------------------------------------
CallStep ==
  \/ Prepare \/ Put \/ AwaitReady \/ GetAddress
  \/ Delete \/ AwaitGone
  \/ View \/ SwitchPower \/ AwaitPower
  \/ SaveCreate \/ SaveDelete \/ SaveCheck \/ SavePower

Next ==
  \/ BeginCreate \/ BeginDelete \/ RefuseDelete \/ BeginLook
  \/ \E kind \in {"stop", "start"} : BeginPower(kind)
  \/ CallStep
  \/ Settle \/ Evict

Spec == Init /\ [][Next]_vars
FairSpec == Spec /\ WF_vars(CallStep)

---------------------------------------------------------------------------
(* Records are well formed, and a call knows which resources it still has  *)
(* to deal with (ProvisionVMResult, DeleteVMResult, ProvisioningVM).       *)
TypeOK ==
  /\ config \in Configs
  /\ res \in [Resources -> ResourceStates]
  /\ power \in {"on", "off"}
  /\ row \in [status : Status, known : BOOLEAN, ids : SUBSET Resources, whole : BOOLEAN]
  /\ call \in [kind : Kinds \cup {"none"}, pc : PCs, todo : SUBSET Resources, left : 0..MaxPolls,
               found : ResourceStates, seen : BOOLEAN, ok : BOOLEAN, disturbed : BOOLEAN, evicted : BOOLEAN]
  /\ faults \in 0..MaxFaults

(* What the row says of the cloud is true.  A create that reports success  *)
(* has left every resource of the template ready, one after the other,     *)
(* whatever earlier attempts left behind, but for a VM that was evicted    *)
(* after the call had seen it; and a row that is DELETED, and that ever    *)
(* got its ids from a create that succeeded, has left nothing there, the   *)
(* leftovers of a later create that failed included.                       *)
RowTellsCloud ==
  /\ (call.kind = "create" /\ call.pc = "save" /\ call.ok) =>
       \A r \in Wanted : res[r] = "ready" \/ (r = "vm" /\ call.evicted)
  /\ (row.status = "DELETED" /\ row.whole) => \A r \in Wanted : res[r] = "absent"

(* A call that no request, resource or deadline disturbed succeeds: what   *)
(* failed attempts left in the cloud never stands in the way of the next   *)
(* create or delete, in whatever state it was left.                        *)
Possible(kind) ==
  CASE kind = "create" -> config.image
    [] kind \in {"stop", "start"} -> res["vm"] = "ready"
    [] OTHER -> row.whole
UndisturbedSucceeds ==
  (call.pc = "save" /\ ~call.disturbed /\ Possible(call.kind)) => call.ok

(* The calls keep the contract of the protocol class.                      *)
Contract == INSTANCE ProvisionerContract WITH
  cloud <- IF res["vm"] = "ready" THEN power ELSE res["vm"],
  call <- [kind |-> call.kind, reached |-> call.seen, ok |-> call.kind = "none" /\ call.ok]
KeepsProvisionerContract == Contract!Spec

(* Every call returns: each wait has a deadline of its own.                *)
CallsEnd == (call.pc # "idle") ~> (call.pc = "idle")
=============================================================================
