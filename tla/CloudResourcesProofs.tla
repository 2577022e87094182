------------------------- MODULE CloudResourcesProofs -------------------------
(***************************************************************************)
(* Theorems of CloudResources: its types, that what the row says of the    *)
(* cloud is true, and that its calls keep the contract of the provider     *)
(* class, for every template, deadline and number of faults.               *)
(***************************************************************************)
EXTENDS CloudResources, TLAPS

---------------------------------------------------------------------------
(* The order in which a call takes up its resources *)

(* The first resource of a list of four that is still to be dealt with is  *)
(* one of those, and none of those comes before it.                        *)
LEMMA FirstIsFirst ==
  ASSUME NEW order \in [1..4 -> Resources], NEW todo \in SUBSET Resources,
         todo # {}, \A r \in Resources : \E i \in 1..4 : order[i] = r
  PROVE  \E i \in 1..4 : /\ First(order, todo) = order[i]
                         /\ order[i] \in todo
                         /\ \A j \in 1..(i - 1) : order[j] \notin todo
<1> DEFINE P(i) == order[i] \in todo /\ \A j \in 1..(i - 1) : order[j] \notin todo
<1>1. \E i \in 1..4 : P(i)
  <2>1. PICK r \in todo : TRUE
    OBVIOUS
  <2>2. PICK i \in 1..4 : order[i] \in todo
    BY <2>1
  <2>3. \/ order[1] \in todo
        \/ order[1] \notin todo /\ order[2] \in todo
        \/ order[1] \notin todo /\ order[2] \notin todo /\ order[3] \in todo
        \/ order[1] \notin todo /\ order[2] \notin todo /\ order[3] \notin todo /\ order[4] \in todo
    BY <2>2
  <2>4. P(1) \/ P(2) \/ P(3) \/ P(4)
    BY <2>3
  <2> QED BY <2>4
<1>2. P(CHOOSE i \in 1..4 : P(i)) /\ (CHOOSE i \in 1..4 : P(i)) \in 1..4
  BY <1>1
<1> QED BY <1>2 DEF First

(* A create takes the VM last.                                             *)
LEMMA PutVmLast ==
  ASSUME NEW todo \in SUBSET Resources, todo # {}
  PROVE  /\ First(PutOrder, todo) \in todo
         /\ First(PutOrder, todo) = "vm" => todo = {"vm"}
<1>1. PutOrder \in [1..4 -> Resources] /\ \A r \in Resources : \E i \in 1..4 : PutOrder[i] = r
  BY DEF PutOrder, Resources, Attached
<1>2. PICK i \in 1..4 : /\ First(PutOrder, todo) = PutOrder[i]
                        /\ PutOrder[i] \in todo
                        /\ \A j \in 1..(i - 1) : PutOrder[j] \notin todo
  BY <1>1, FirstIsFirst
<1>3. ASSUME PutOrder[i] = "vm" PROVE todo = {"vm"}
  <2>1. i = 4
    BY <1>3 DEF PutOrder
  <2>2. "nsg" \notin todo /\ "pip" \notin todo /\ "nic" \notin todo
    BY <1>2, <2>1 DEF PutOrder
  <2> QED BY <1>2, <1>3, <2>2 DEF Resources, Attached
<1> QED BY <1>2, <1>3

(* A delete takes the VM first.                                            *)
LEMMA DeleteVmFirst ==
  ASSUME NEW todo \in SUBSET Resources, todo # {}
  PROVE  /\ First(DeleteOrder, todo) \in todo
         /\ "vm" \in todo => First(DeleteOrder, todo) = "vm"
<1>1. DeleteOrder \in [1..4 -> Resources] /\ \A r \in Resources : \E i \in 1..4 : DeleteOrder[i] = r
  BY DEF DeleteOrder, Resources, Attached
<1>2. PICK i \in 1..4 : /\ First(DeleteOrder, todo) = DeleteOrder[i]
                        /\ DeleteOrder[i] \in todo
                        /\ \A j \in 1..(i - 1) : DeleteOrder[j] \notin todo
  BY <1>1, FirstIsFirst
<1>3. ASSUME "vm" \in todo PROVE i = 1
  <2>1. DeleteOrder[1] \in todo
    BY <1>3 DEF DeleteOrder
  <2> QED BY <1>2, <2>1
<1> QED BY <1>2, <1>3 DEF DeleteOrder

---------------------------------------------------------------------------
(* Types *)

CallRecords ==
  [kind : Kinds \cup {"none"}, pc : PCs, todo : SUBSET Resources, left : 0..MaxPolls,
   found : ResourceStates, seen : BOOLEAN, ok : BOOLEAN, disturbed : BOOLEAN, evicted : BOOLEAN]

(* A deadline that is not over can be counted down by one poll.            *)
LEMMA Deadlines ==
  /\ 0 \in 0..MaxPolls /\ MaxPolls \in 0..MaxPolls
  /\ \A n \in 0..MaxPolls : n # 0 => n - 1 \in 0..MaxPolls
BY ResourcePolls

(* A request leaves the call well formed if its good end does.             *)
LEMMA RequestTypes ==
  ASSUME TypeOK, NEW a, NEW next \in CallRecords, Request(a, next)
  PROVE  call' \in CallRecords /\ faults' \in 0..MaxFaults
<1>1. call \in CallRecords /\ faults \in 0..MaxFaults
  BY DEF TypeOK, CallRecords
<1>2. [Fail EXCEPT !.disturbed = TRUE] \in CallRecords
  BY <1>1 DEF CallRecords, Fail, PCs
<1>3. faults' \in 0..MaxFaults
  BY <1>1, ResourceFaults DEF Request
<1> QED BY <1>2, <1>3 DEF Request

(* The calls that a failure, a success, the next place or a poll leads to. *)
LEMMA StepTypes ==
  ASSUME TypeOK
  PROVE  /\ Fail \in CallRecords /\ Succeed \in CallRecords
         /\ \A pc \in PCs : Goto(pc) \in CallRecords /\ [Goto(pc) EXCEPT !.left = MaxPolls] \in CallRecords
         /\ call.left # 0 => Poll \in CallRecords
         /\ \A r \in Resources : AfterPut(r) \in CallRecords /\ AfterDelete(r) \in CallRecords
<1>1. call \in CallRecords
  BY DEF TypeOK, CallRecords
<1>2. Fail \in CallRecords /\ Succeed \in CallRecords /\ [Fail EXCEPT !.disturbed = TRUE] \in CallRecords
  BY <1>1 DEF CallRecords, Fail, Succeed, PCs
<1>3. \A pc \in PCs : Goto(pc) \in CallRecords /\ [Goto(pc) EXCEPT !.left = MaxPolls] \in CallRecords
  BY <1>1, Deadlines DEF CallRecords, Goto
<1>4. ASSUME call.left # 0 PROVE Poll \in CallRecords
  <2>1. call.left - 1 \in 0..MaxPolls
    BY <1>1, <1>4, Deadlines DEF CallRecords
  <2>2. [call EXCEPT !.left = @ - 1] \in CallRecords
    BY <1>1, <2>1 DEF CallRecords
  <2> QED BY <1>2, <2>2 DEF Poll
<1>5. ASSUME NEW r \in Resources PROVE AfterPut(r) \in CallRecords /\ AfterDelete(r) \in CallRecords
  BY <1>1 DEF CallRecords, AfterPut, AfterDelete, Done, PCs
<1> QED BY <1>2, <1>3, <1>4, <1>5

(* The calls and rows that begin and end.                                  *)
LEMMA BeginTypes ==
  ASSUME TypeOK, NEW kind \in Kinds, NEW pc \in PCs, NEW todo \in SUBSET Resources, Begin(kind, pc, todo)
  PROVE  call' \in CallRecords
BY Deadlines DEF Begin, CallRecords, NoCall, PCs, ResourceStates

(* What a save leaves is an idle call.                                     *)
LEMMA NoCallTypes ==
  ASSUME TypeOK
  PROVE  [NoCall EXCEPT !.ok = call.ok] \in CallRecords
<1>1. call.ok \in BOOLEAN
  BY DEF TypeOK
<1> QED BY <1>1, Deadlines DEF CallRecords, NoCall, PCs, ResourceStates

(* A template asks for resources there are.                                *)
LEMMA WantedTypes == Wanted \subseteq Resources
BY DEF Wanted, Resources, Attached

RowRecords == [status : Status, known : BOOLEAN, ids : SUBSET Resources, whole : BOOLEAN]

(* The resource a wait or a request is about is one there is.              *)
LEMMA TodoTypes ==
  ASSUME TypeOK, call.todo # {}
  PROVE  First(PutOrder, call.todo) \in Resources /\ First(DeleteOrder, call.todo) \in Resources
<1>1. call.todo \in SUBSET Resources
  BY DEF TypeOK
<1> QED BY <1>1, PutVmLast, DeleteVmFirst

---------------------------------------------------------------------------
(* What a call is doing at each of its places *)

Shape ==
  /\ call.pc = "idle" <=> call.kind = "none"
  /\ call.pc = "idle" => ~call.seen
  /\ call.pc \in {"prepare", "put", "wait", "address"} => call.kind = "create"
  /\ call.pc \in {"delete", "gone"} => call.kind = "delete"
  /\ call.pc = "view" => call.kind = "check"
  /\ call.pc \in {"power", "awaitPower"} => call.kind \in {"stop", "start"}
  /\ call.pc \in {"prepare", "put", "wait"} => "vm" \in call.todo /\ ~call.seen
  /\ call.pc \in {"view", "power", "awaitPower"} => ~call.seen
  /\ call.pc \in {"delete", "gone"} => call.todo # {} /\ (call.seen <=> "vm" \notin call.todo)
  /\ call.pc = "address" => call.seen
  /\ call.pc \in {"wait", "gone", "power", "awaitPower"} => call.left # 0
  /\ (call.pc = "save" /\ call.ok) => call.seen

(* A VM that is being created will be on.                                  *)
ComesUp == res["vm"] = "creating" => power = "on"

(* Every step of a call, of its task and of the cloud keeps the types.     *)
THEOREM TypesKept == TypeOK /\ Shape /\ [Next]_vars => TypeOK'
<1> SUFFICES ASSUME TypeOK, Shape, [Next]_vars PROVE TypeOK'
  OBVIOUS
<1> USE DEF Shape
<1>0. /\ config \in Configs /\ res \in [Resources -> ResourceStates] /\ power \in {"on", "off"}
      /\ row \in RowRecords /\ call \in CallRecords /\ faults \in 0..MaxFaults
  BY DEF TypeOK, RowRecords, CallRecords
<1> SUFFICES /\ config' \in Configs /\ res' \in [Resources -> ResourceStates] /\ power' \in {"on", "off"}
             /\ row' \in RowRecords /\ call' \in CallRecords /\ faults' \in 0..MaxFaults
  BY DEF TypeOK, RowRecords, CallRecords
<1>1. CASE BeginCreate
  BY <1>0, <1>1, BeginTypes, WantedTypes DEF BeginCreate, RowRecords, Status, Kinds, PCs
<1>2. CASE BeginDelete
  <2>1. row.ids \cup {"vm"} \in SUBSET Resources
    BY <1>0 DEF RowRecords, Resources
  <2>2. call' \in CallRecords
    BY <1>2, <2>1, BeginTypes DEF BeginDelete, Kinds, PCs
  <2> QED BY <1>0, <1>2, <2>2 DEF BeginDelete, RowRecords, Status
<1>3. CASE RefuseDelete
  BY <1>0, <1>3 DEF RefuseDelete, RowRecords, Status
<1>4. CASE BeginLook
  <2>1. call' \in CallRecords
    BY <1>4, BeginTypes DEF BeginLook, Kinds, PCs, Resources
  <2> QED BY <1>0, <1>4, <2>1 DEF BeginLook
<1>5. ASSUME NEW kind \in {"stop", "start"}, BeginPower(kind) PROVE call' \in CallRecords
  BY <1>5, BeginTypes DEF BeginPower, Kinds, PCs
<1>6. CASE Prepare
  BY <1>0, <1>6, StepTypes, RequestTypes DEF Prepare, PCs
<1>7. CASE Put
  <2> DEFINE r == First(PutOrder, call.todo)
  <2>1. r \in Resources /\ call.todo # {}
    BY <1>7, TodoTypes DEF Put
  <2>2. res' \in [Resources -> ResourceStates] /\ power' \in {"on", "off"}
    BY <1>0, <1>7, <2>1 DEF Put, ResourceStates
  <2>3. CASE (r = "vm" /\ ~config.image) \/ ~Accepts(r)
    <3>1. Fail \in CallRecords
      BY StepTypes
    <3>2. Busy(r) \in BOOLEAN
      BY DEF Busy
    <3>3. [Fail EXCEPT !.disturbed = @ \/ Busy(r)] \in CallRecords
      BY <3>1, <3>2 DEF CallRecords
    <3> QED BY <1>0, <1>7, <2>2, <2>3, <3>3 DEF Put
  <2>4. CASE ~((r = "vm" /\ ~config.image) \/ ~Accepts(r))
    <3>1. PICK a \in Answers : Request(a, [Goto("wait") EXCEPT !.left = MaxPolls])
      BY <1>7, <2>4 DEF Put
    <3>2. call' \in CallRecords /\ faults' \in 0..MaxFaults
      BY <3>1, StepTypes, RequestTypes DEF PCs
    <3> QED BY <1>0, <1>7, <2>2, <3>2 DEF Put
  <2> QED BY <2>3, <2>4
<1>8. CASE AwaitReady
  <2> DEFINE r == First(PutOrder, call.todo)
             next == CASE res[r] = "ready" -> AfterPut(r)
                       [] res[r] \in {"failed", "absent"} -> Fail
                       [] OTHER -> Poll
  <2>1. r \in Resources
    BY <1>8, TodoTypes DEF AwaitReady
  <2>2. next \in CallRecords
    BY <1>8, <2>1, StepTypes DEF AwaitReady
  <2>3. \E a \in {"ok", "refused"} : Request(a, next)
    BY <1>8 DEF AwaitReady
  <2> HIDE DEF next
  <2>4. call' \in CallRecords /\ faults' \in 0..MaxFaults
    BY <2>2, <2>3, RequestTypes
  <2> QED BY <1>0, <1>8, <2>4 DEF AwaitReady
<1>9. CASE GetAddress
  BY <1>0, <1>9, StepTypes, RequestTypes DEF GetAddress
<1>10. CASE Delete
  <2> DEFINE r == First(DeleteOrder, call.todo)
  <2>1. r \in Resources
    BY <1>10, TodoTypes DEF Delete
  <2>2. res' \in [Resources -> ResourceStates]
    BY <1>0, <1>10, <2>1 DEF Delete, ResourceStates
  <2>3. call' \in CallRecords /\ faults' \in 0..MaxFaults
    <3>1. CASE InUse(r)
      BY <1>0, <1>10, <3>1, StepTypes DEF Delete
    <3>2. CASE ~InUse(r)
      <4>1. PICK a \in Answers : Request(a, [Goto("gone") EXCEPT !.left = MaxPolls])
        BY <1>10, <3>2 DEF Delete
      <4> QED BY <4>1, StepTypes, RequestTypes DEF PCs
    <3> QED BY <3>1, <3>2
  <2> QED BY <1>0, <1>10, <2>2, <2>3 DEF Delete
<1>11. CASE AwaitGone
  <2> DEFINE r == First(DeleteOrder, call.todo)
             next == IF res[r] = "absent" THEN AfterDelete(r) ELSE Poll
  <2>1. r \in Resources
    BY <1>11, TodoTypes DEF AwaitGone
  <2>2. next \in CallRecords
    BY <1>11, <2>1, StepTypes DEF AwaitGone
  <2>3. \E a \in {"ok", "refused"} : Request(a, next)
    BY <1>11 DEF AwaitGone
  <2> HIDE DEF next
  <2>4. call' \in CallRecords /\ faults' \in 0..MaxFaults
    BY <2>2, <2>3, RequestTypes
  <2> QED BY <1>0, <1>11, <2>4 DEF AwaitGone
<1>12. CASE View
  <2>1. [Succeed EXCEPT !.seen = TRUE, !.found = res["vm"]] \in CallRecords
    <3>1. Succeed \in CallRecords /\ res["vm"] \in ResourceStates
      BY <1>0, StepTypes DEF Resources
    <3> QED BY <3>1 DEF CallRecords
  <2> QED BY <1>0, <1>12, <2>1, RequestTypes DEF View
<1>13. CASE SwitchPower
  <2>1. power' \in {"on", "off"}
    BY <1>0, <1>13 DEF SwitchPower, Switched
  <2>2. CASE res["vm"] # "ready"
    <3>1. Fail \in CallRecords /\ Busy("vm") \in BOOLEAN
      BY StepTypes DEF Busy
    <3>2. [Fail EXCEPT !.disturbed = @ \/ Busy("vm")] \in CallRecords
      BY <3>1 DEF CallRecords
    <3> QED BY <1>0, <1>13, <2>1, <2>2, <3>2 DEF SwitchPower
  <2>3. CASE res["vm"] = "ready"
    <3>1. PICK a \in Answers : Request(a, Goto("awaitPower"))
      BY <1>13, <2>3 DEF SwitchPower
    <3>2. call' \in CallRecords /\ faults' \in 0..MaxFaults
      BY <3>1, StepTypes, RequestTypes DEF PCs
    <3> QED BY <1>0, <1>13, <2>1, <3>2 DEF SwitchPower
  <2> QED BY <2>2, <2>3
<1>14. CASE AwaitPower
  <2>1. [Succeed EXCEPT !.seen = TRUE] \in CallRecords
    <3>1. Succeed \in CallRecords
      BY StepTypes
    <3> QED BY <3>1 DEF CallRecords
  <2> DEFINE next == CASE res["vm"] = "absent" -> Fail
                       [] res["vm"] = "ready" /\ power = Switched(call.kind) -> [Succeed EXCEPT !.seen = TRUE]
                       [] OTHER -> Poll
  <2>2. next \in CallRecords
    BY <1>14, <2>1, StepTypes DEF AwaitPower
  <2>3. \E a \in {"ok", "refused"} : Request(a, next)
    BY <1>14 DEF AwaitPower
  <2> HIDE DEF next
  <2>4. call' \in CallRecords /\ faults' \in 0..MaxFaults
    BY <2>2, <2>3, RequestTypes
  <2> QED BY <1>0, <1>14, <2>4 DEF AwaitPower
<1>15. CASE SaveCreate
  <2>1. row' \in RowRecords
    BY <1>0, <1>15, WantedTypes DEF SaveCreate, RowRecords, Status
  <2> QED BY <1>0, <1>15, <2>1, NoCallTypes DEF SaveCreate
<1>16. CASE SaveDelete
  <2>1. row' \in RowRecords
    BY <1>0, <1>16 DEF SaveDelete, RowRecords, Status
  <2> QED BY <1>0, <1>16, <2>1, NoCallTypes DEF SaveDelete
<1>17. CASE SaveCheck
  <2>1. row' \in RowRecords
    BY <1>0, <1>17 DEF SaveCheck, RowRecords, Status, Resources
  <2> QED BY <1>0, <1>17, <2>1, NoCallTypes DEF SaveCheck
<1>18. CASE SavePower
  <2>1. row' \in RowRecords
    BY <1>0, <1>18 DEF SavePower, RowRecords, Status
  <2> QED BY <1>0, <1>18, <2>1, NoCallTypes DEF SavePower
<1>19. CASE Settle
  <2>1. [call EXCEPT !.disturbed = TRUE] \in CallRecords
    BY <1>0 DEF CallRecords
  <2>2. faults < MaxFaults => faults + 1 \in 0..MaxFaults
    BY <1>0, ResourceFaults
  <2>3. res' \in [Resources -> ResourceStates]
    BY <1>0, <1>19 DEF Settle, ResourceStates
  <2>4. call' \in CallRecords
    BY <1>0, <1>19, <2>1 DEF Settle
  <2>5. faults' \in 0..MaxFaults
    BY <1>0, <1>19, <2>2 DEF Settle
  <2> QED BY <1>0, <1>19, <2>3, <2>4, <2>5 DEF Settle
<1>20. CASE Evict
  <2>1. call' \in CallRecords
    <3>1. (call.evicted \/ (call.seen /\ config.spot = "Delete")) \in BOOLEAN
      BY <1>0 DEF CallRecords
    <3> QED BY <1>0, <1>20, <3>1 DEF Evict, CallRecords
  <2>2. res' \in [Resources -> ResourceStates] /\ power' \in {"on", "off"}
    BY <1>0, <1>20 DEF Evict, ResourceStates
  <2> QED BY <1>0, <1>20, <2>1, <2>2, ResourceFaults DEF Evict
<1>21. CASE UNCHANGED vars
  BY <1>0, <1>21 DEF vars
<1> QED
  BY <1>0, <1>1, <1>2, <1>3, <1>4, <1>5, <1>6, <1>7, <1>8, <1>9, <1>10, <1>11, <1>12, <1>13, <1>14,
     <1>15, <1>16, <1>17, <1>18, <1>19, <1>20, <1>21 DEF Next, CallStep, BeginPower

(* A request that ends the call in its except clause, and every other      *)
(* failure, leads to the save with the goal as it was.                     *)
LEMMA RequestEnds ==
  ASSUME TypeOK, NEW a, NEW next, Request(a, next)
  PROVE  \/ call' = next
         \/ /\ call'.kind = call.kind /\ call'.pc = "save" /\ ~call'.ok
            /\ call'.seen = call.seen /\ call'.todo = call.todo
<1>1. call \in CallRecords
  BY DEF TypeOK, CallRecords
<1> QED BY <1>1 DEF Request, Fail, CallRecords

(* What a failure and a poll leave of the call.                            *)
LEMMA FailEnds ==
  ASSUME TypeOK
  PROVE  /\ Fail.kind = call.kind /\ Fail.pc = "save" /\ ~Fail.ok /\ Fail.seen = call.seen /\ Fail.todo = call.todo
         /\ \/ Poll.kind = call.kind /\ Poll.pc = "save" /\ ~Poll.ok /\ Poll.seen = call.seen /\ Poll.todo = call.todo
            \/ /\ Poll.kind = call.kind /\ Poll.pc = call.pc /\ Poll.ok = call.ok /\ Poll.seen = call.seen
               /\ Poll.todo = call.todo /\ Poll.left = call.left - 1 /\ call.left # 1 /\ Poll.evicted = call.evicted
<1>1. call \in CallRecords
  BY DEF TypeOK, CallRecords
<1>2. /\ Fail.kind = call.kind /\ Fail.pc = "save" /\ ~Fail.ok /\ Fail.seen = call.seen /\ Fail.todo = call.todo
      /\ Fail \in CallRecords
  BY <1>1, StepTypes DEF Fail, CallRecords
<1>3. ASSUME call.left = 1
      PROVE  Poll.kind = call.kind /\ Poll.pc = "save" /\ ~Poll.ok /\ Poll.seen = call.seen /\ Poll.todo = call.todo
  BY <1>2, <1>3 DEF Poll, CallRecords
<1>4. ASSUME call.left # 1
      PROVE  /\ Poll.kind = call.kind /\ Poll.pc = call.pc /\ Poll.ok = call.ok /\ Poll.seen = call.seen
             /\ Poll.todo = call.todo /\ Poll.left = call.left - 1 /\ Poll.evicted = call.evicted
  BY <1>1, <1>4 DEF Poll, CallRecords
<1> QED BY <1>2, <1>3, <1>4

(* Every step keeps what a call knows at its place.                        *)
THEOREM ShapeKept == TypeOK /\ Shape /\ [Next]_vars => Shape'
<1> SUFFICES ASSUME TypeOK, Shape, [Next]_vars PROVE Shape'
  OBVIOUS
<1>0. call \in CallRecords /\ MaxPolls # 0
  BY ResourcePolls DEF TypeOK, CallRecords
<1>1. CASE BeginCreate
  BY <1>0, <1>1 DEF Shape, BeginCreate, Begin, NoCall, Wanted
<1>2. CASE BeginDelete
  BY <1>0, <1>2 DEF Shape, BeginDelete, Begin, NoCall
<1>3. CASE RefuseDelete \/ UNCHANGED vars
  BY <1>3 DEF Shape, RefuseDelete, vars
<1>4. CASE BeginLook
  BY <1>0, <1>4 DEF Shape, BeginLook, Begin, NoCall
<1>5. ASSUME NEW kind \in {"stop", "start"}, BeginPower(kind) PROVE Shape'
  BY <1>0, <1>5 DEF Shape, BeginPower, Begin, NoCall
<1>6. CASE Prepare
  <2>1. \E a : Request(a, Goto("put"))
    BY <1>6 DEF Prepare
  <2> QED BY <1>0, <1>6, <2>1, RequestEnds DEF Shape, Prepare, Goto, CallRecords
<1>7. CASE Put
  <2>1. \/ call'.kind = call.kind /\ call'.pc = "save" /\ ~call'.ok /\ call'.seen = call.seen /\ call'.todo = call.todo
        \/ \E a : Request(a, [Goto("wait") EXCEPT !.left = MaxPolls])
    BY <1>0, <1>7 DEF Put, Fail, CallRecords
  <2> QED BY <1>0, <1>7, <2>1, RequestEnds DEF Shape, Put, Goto, CallRecords
<1>8. CASE AwaitReady
  <2> DEFINE r == First(PutOrder, call.todo)
             next == CASE res[r] = "ready" -> AfterPut(r)
                       [] res[r] \in {"failed", "absent"} -> Fail
                       [] OTHER -> Poll
  <2>1. \E a : Request(a, next)
    BY <1>8 DEF AwaitReady
  <2>2. /\ call.pc = "wait" /\ call.kind = "create" /\ "vm" \in call.todo /\ ~call.seen /\ call.left # 0
        /\ r \in call.todo /\ r \in Resources
    BY <1>0, <1>8, PutVmLast DEF Shape, AwaitReady, CallRecords
  <2>3. CASE call' = AfterPut(r)
    BY <1>0, <2>2, <2>3 DEF Shape, AfterPut, Done, CallRecords
  <2>4. CASE call' = Poll
    BY <1>0, <2>2, <2>4, FailEnds DEF Shape, CallRecords
  <2>5. CASE call'.kind = call.kind /\ call'.pc = "save" /\ ~call'.ok
    BY <2>2, <2>5 DEF Shape
  <2>6. next = AfterPut(r) \/ next = Fail \/ next = Poll
    OBVIOUS
  <2> HIDE DEF next
  <2> QED BY <2>1, <2>3, <2>4, <2>5, <2>6, RequestEnds, FailEnds
<1>9. CASE GetAddress
  <2>1. \E a : Request(a, Succeed)
    BY <1>9 DEF GetAddress
  <2> QED BY <1>0, <1>9, <2>1, RequestEnds DEF Shape, GetAddress, Succeed, CallRecords
<1>10. CASE Delete
  <2>1. \/ call'.kind = call.kind /\ call'.pc = "save" /\ ~call'.ok /\ call'.seen = call.seen /\ call'.todo = call.todo
        \/ \E a : Request(a, [Goto("gone") EXCEPT !.left = MaxPolls])
    BY <1>0, <1>10 DEF Delete, Fail, CallRecords
  <2> QED BY <1>0, <1>10, <2>1, RequestEnds DEF Shape, Delete, Goto, CallRecords
<1>11. CASE AwaitGone
  <2> DEFINE r == First(DeleteOrder, call.todo)
             next == IF res[r] = "absent" THEN AfterDelete(r) ELSE Poll
  <2>1. \E a : Request(a, next)
    BY <1>11 DEF AwaitGone
  <2>2. /\ call.pc = "gone" /\ call.kind = "delete" /\ call.left # 0
        /\ (call.seen <=> "vm" \notin call.todo)
        /\ r \in call.todo /\ ("vm" \in call.todo => r = "vm")
    BY <1>0, <1>11, DeleteVmFirst DEF Shape, AwaitGone, CallRecords
  <2>3. CASE call' = AfterDelete(r)
    <3>1. CASE call.todo = {r}
      BY <1>0, <2>2, <2>3, <3>1 DEF Shape, AfterDelete, Done, CallRecords
    <3>2. CASE call.todo # {r}
      <4>1. call' = [Done(r) EXCEPT !.pc = "delete", !.seen = @ \/ r = "vm"]
        BY <2>3, <3>2 DEF AfterDelete
      <4>2. /\ call'.pc = "delete" /\ call'.kind = "delete" /\ call'.todo = call.todo \ {r}
            /\ call'.seen = (call.seen \/ r = "vm")
        BY <1>0, <2>2, <4>1 DEF Done, CallRecords
      <4>3. call'.todo # {}
        BY <2>2, <3>2, <4>2
      <4>4. call'.seen <=> "vm" \notin call'.todo
        BY <2>2, <4>2
      <4> QED BY <4>2, <4>3, <4>4 DEF Shape
    <3> QED BY <3>1, <3>2
  <2>4. CASE call' = Poll
    BY <1>0, <2>2, <2>4, FailEnds DEF Shape, CallRecords
  <2>5. CASE call'.kind = call.kind /\ call'.pc = "save" /\ ~call'.ok
    BY <2>2, <2>5 DEF Shape
  <2>6. next = AfterDelete(r) \/ next = Poll
    OBVIOUS
  <2> HIDE DEF next
  <2> QED BY <2>1, <2>3, <2>4, <2>5, <2>6, RequestEnds
<1>12. CASE View
  <2>1. \E a : Request(a, [Succeed EXCEPT !.seen = TRUE, !.found = res["vm"]])
    BY <1>12 DEF View
  <2>2. CASE call' = [Succeed EXCEPT !.seen = TRUE, !.found = res["vm"]]
    <3>1. call'.kind = call.kind /\ call'.pc = "save" /\ call'.seen
      BY <1>0, <2>2 DEF Succeed, CallRecords
    <3>2. call.kind = "check"
      BY <1>12 DEF Shape, View
    <3> QED BY <3>1, <3>2 DEF Shape
  <2>3. CASE call'.kind = call.kind /\ call'.pc = "save" /\ ~call'.ok
    BY <1>12, <2>3 DEF Shape, View
  <2> QED BY <2>1, <2>2, <2>3, RequestEnds
<1>13. CASE SwitchPower
  <2>1. \/ call'.kind = call.kind /\ call'.pc = "save" /\ ~call'.ok /\ call'.seen = call.seen /\ call'.todo = call.todo
        \/ \E a : Request(a, Goto("awaitPower"))
    BY <1>0, <1>13 DEF SwitchPower, Fail, CallRecords
  <2> QED BY <1>0, <1>13, <2>1, RequestEnds DEF Shape, SwitchPower, Goto, CallRecords
<1>14. CASE AwaitPower
  <2> DEFINE next == CASE res["vm"] = "absent" -> Fail
                       [] res["vm"] = "ready" /\ power = Switched(call.kind) -> [Succeed EXCEPT !.seen = TRUE]
                       [] OTHER -> Poll
  <2>1. \E a : Request(a, next)
    BY <1>14 DEF AwaitPower
  <2>2. call.pc = "awaitPower" /\ call.kind \in {"stop", "start"} /\ ~call.seen /\ call.left # 0
    BY <1>14 DEF Shape, AwaitPower
  <2>3. CASE call' = [Succeed EXCEPT !.seen = TRUE]
    BY <1>0, <2>2, <2>3 DEF Shape, Succeed, CallRecords
  <2>4. CASE call' = Poll
    BY <1>0, <2>2, <2>4, FailEnds DEF Shape, CallRecords
  <2>5. CASE call'.kind = call.kind /\ call'.pc = "save" /\ ~call'.ok
    BY <2>2, <2>5 DEF Shape
  <2>6. next = [Succeed EXCEPT !.seen = TRUE] \/ next = Poll \/ next = Fail
    OBVIOUS
  <2> HIDE DEF next
  <2> QED BY <2>1, <2>3, <2>4, <2>5, <2>6, RequestEnds, FailEnds
<1>15. CASE SaveCreate \/ SaveDelete \/ SaveCheck \/ SavePower
  <2>1. call' = [NoCall EXCEPT !.ok = call.ok]
    BY <1>15 DEF SaveCreate, SaveDelete, SaveCheck, SavePower
  <2> QED BY <2>1 DEF Shape, NoCall
<1>16. CASE Settle \/ Evict
  <2>1. \/ call' \in {call, [call EXCEPT !.disturbed = TRUE]}
        \/ \E e : call' = [call EXCEPT !.disturbed = TRUE, !.evicted = e]
    BY <1>16 DEF Settle, Evict
  <2> QED BY <1>0, <2>1 DEF Shape, CallRecords
<1> QED
  BY <1>1, <1>2, <1>3, <1>4, <1>5, <1>6, <1>7, <1>8, <1>9, <1>10, <1>11, <1>12, <1>13, <1>14, <1>15, <1>16
  DEF Next, CallStep

(* ComesUp needs no word on the call: only Put creates, and it turns on.   *)
THEOREM ComesUpKept == TypeOK /\ Shape /\ ComesUp /\ [Next]_vars => ComesUp'
<1> SUFFICES ASSUME TypeOK, Shape, ComesUp, [Next]_vars PROVE ComesUp'
  OBVIOUS
<1>0. res \in [Resources -> ResourceStates] /\ "vm" \in Resources
  BY DEF TypeOK, Resources
<1>1. CASE Put
  <2> DEFINE r == First(PutOrder, call.todo)
  <2>1. r \in Resources
    BY <1>1, TodoTypes DEF Put, Shape
  <2>2. \/ UNCHANGED <<res, power>>
        \/ res' = [res EXCEPT ![r] = "creating"] /\ power' = IF r = "vm" THEN "on" ELSE power
    BY <1>1 DEF Put
  <2> HIDE DEF r
  <2> QED BY <1>0, <2>1, <2>2 DEF ComesUp
<1>2. CASE Delete
  <2> DEFINE r == First(DeleteOrder, call.todo)
  <2>1. r \in Resources
    BY <1>2, TodoTypes DEF Delete, Shape
  <2>2. power' = power /\ (res' = res \/ res' = [res EXCEPT ![r] = "deleting"])
    BY <1>2 DEF Delete
  <2> HIDE DEF r
  <2> QED BY <1>0, <2>1, <2>2 DEF ComesUp
<1>3. CASE SwitchPower
  <2>1. res["vm"] # "ready" => power' = power
    BY <1>3 DEF SwitchPower
  <2> QED BY <1>3, <2>1 DEF SwitchPower, ComesUp
<1>4. CASE Settle
  <2>1. PICK r \in Resources, s \in {"ready", "absent", "failed"} : res' = [res EXCEPT ![r] = s]
    BY <1>4 DEF Settle
  <2>2. power' = power
    BY <1>4 DEF Settle
  <2> QED BY <1>0, <2>1, <2>2 DEF ComesUp
<1>5. CASE Evict
  BY <1>0, <1>5 DEF Evict, ComesUp
<1>6. CASE UNCHANGED <<res, power>>
  BY <1>6 DEF ComesUp
<1> QED
  BY <1>1, <1>2, <1>3, <1>4, <1>5, <1>6 DEF Next, CallStep, vars, BeginCreate, BeginDelete, RefuseDelete,
     BeginLook, BeginPower, Prepare, AwaitReady, GetAddress, AwaitGone, View, AwaitPower,
     SaveCreate, SaveDelete, SaveCheck, SavePower

(* Types, for every specification that takes these steps.                  *)
THEOREM ResourcesTypeCorrect == Spec => []TypeOK
<1>1. Init => TypeOK /\ Shape /\ ComesUp
  BY Deadlines, ResourceFaults DEF Init, TypeOK, Shape, ComesUp, NoCall, PCs, Kinds, Status, ResourceStates, Resources, Attached
<1>2. TypeOK /\ Shape /\ ComesUp /\ [Next]_vars => (TypeOK /\ Shape /\ ComesUp)'
  BY TypesKept, ShapeKept, ComesUpKept
<1> QED BY <1>1, <1>2, PTL DEF Spec

---------------------------------------------------------------------------
(* The contract *)

Vm == IF res["vm"] = "ready" THEN power ELSE res["vm"]
Asked == [kind |-> call.kind, reached |-> call.seen, ok |-> call.kind = "none" /\ call.ok]

(* A step that leaves the kind of a call under way and what it saw alone   *)
(* leaves the abstract call alone.                                         *)
LEMMA SameCall ==
  ASSUME call.kind # "none", call'.kind = call.kind, call'.seen = call.seen
  PROVE  Asked' = Asked
BY DEF Asked

(* A step that does nothing but see the VM where the call wants it.        *)
LEMMA Sees ==
  ASSUME call.kind # "none", ~call.seen, call.seen \in BOOLEAN, Vm \in Contract!Goal[call.kind], UNCHANGED <<res, power>>,
         call'.kind = call.kind, call'.seen = TRUE
  PROVE  Contract!Observe
<1>1. Vm' = Vm
  BY DEF Vm
<1>2. /\ Asked = [kind |-> call.kind, reached |-> FALSE, ok |-> FALSE]
      /\ Asked' = [kind |-> call.kind, reached |-> TRUE, ok |-> FALSE]
  BY DEF Asked
<1>3. ASSUME NEW before, NEW after,
             before = [kind |-> call.kind, reached |-> FALSE, ok |-> FALSE],
             after = [kind |-> call.kind, reached |-> TRUE, ok |-> FALSE]
      PROVE  after = [before EXCEPT !.reached = TRUE]
  <2>1. after.kind = before.kind /\ after.reached = TRUE /\ after.ok = before.ok
    BY <1>3
  <2>2. DOMAIN after = {"kind", "reached", "ok"}
    BY <1>3
  <2> QED BY <1>3, <2>1, <2>2
<1>4. Asked' = [Asked EXCEPT !.reached = TRUE]
  BY <1>2, <1>3, Zenon
<1> QED BY <1>1, <1>4 DEF Contract!Observe, Asked, Vm

(* Where a request of a call may lead: to its good end, or to the save.    *)
LEMMA RequestContract ==
  ASSUME TypeOK, call.kind # "none", NEW a, NEW next, Request(a, next), UNCHANGED <<res, power>>,
         next.kind = call.kind,
         \/ next.seen = call.seen
         \/ ~call.seen /\ next.seen = TRUE /\ Vm \in Contract!Goal[call.kind]
  PROVE  Contract!Observe \/ UNCHANGED <<Vm, Asked>>
<1>1. call.seen \in BOOLEAN
  BY DEF TypeOK
<1>2. Vm' = Vm
  BY DEF Vm
<1>3. CASE call'.kind = call.kind /\ call'.seen = call.seen
  BY <1>2, <1>3, SameCall
<1>4. CASE call' = next
  BY <1>1, <1>2, <1>3, <1>4, Sees
<1> QED BY <1>3, <1>4, RequestEnds

(* Every step of a call or of the cloud is one the contract allows, or     *)
(* none at all for it.                                                     *)
THEOREM KeepsProvisionerContractStep ==
  TypeOK /\ Shape /\ ComesUp /\ [Next]_vars => Contract!Next \/ UNCHANGED <<Vm, Asked>>
<1> SUFFICES ASSUME TypeOK, Shape, ComesUp, [Next]_vars
             PROVE  Contract!Next \/ UNCHANGED <<Vm, Asked>>
  OBVIOUS
<1> USE DEF Contract!Next
<1>0. /\ call \in CallRecords /\ res \in [Resources -> ResourceStates] /\ power \in {"on", "off"}
      /\ "vm" \in Resources
  BY DEF TypeOK, CallRecords, Resources
<1>1. Vm \in {"absent", "creating", "failed", "on", "off", "deleting"}
  BY <1>0 DEF Vm, ResourceStates
<1>2. ASSUME NEW kind \in Kinds, NEW pc, NEW todo, call.pc = "idle", Begin(kind, pc, todo), UNCHANGED <<res, power>>
      PROVE  Contract!Ask(kind) /\ kind \in Contract!Kinds
  <2>1. call.kind = "none" /\ Vm' = Vm
    BY <1>2 DEF Shape, Vm
  <2>2. call'.kind = kind /\ call'.seen = FALSE /\ kind # "none"
    BY <1>2 DEF Begin, NoCall, Kinds
  <2>3. Asked' = [kind |-> kind, reached |-> FALSE, ok |-> FALSE]
    BY <2>2 DEF Asked
  <2>4. Contract!Ask(kind)
    BY <2>1, <2>3 DEF Contract!Ask, Vm, Asked
  <2>5. kind \in Contract!Kinds
    BY DEF Kinds, Contract!Kinds, Contract!Goal
  <2> QED BY <2>4, <2>5
<1>3. CASE BeginCreate \/ BeginDelete \/ BeginLook \/ \E kind \in {"stop", "start"} : BeginPower(kind)
  BY <1>2, <1>3 DEF BeginCreate, BeginDelete, BeginLook, BeginPower, Kinds
<1>4. CASE RefuseDelete \/ UNCHANGED vars
  BY <1>4 DEF RefuseDelete, vars, Vm, Asked
<1>5. CASE Prepare \/ GetAddress
  <2>1. PICK a \in {"ok", "refused"}, next \in {Goto("put"), Succeed} : Request(a, next)
    BY <1>5 DEF Prepare, GetAddress
  <2>2. call.kind # "none" /\ next.kind = call.kind /\ next.seen = call.seen /\ UNCHANGED <<res, power>>
    BY <1>0, <1>5, <2>1 DEF Prepare, GetAddress, Shape, Goto, Succeed, CallRecords
  <2> QED BY <2>1, <2>2, RequestContract
<1>6. CASE Put
  <2> DEFINE r == First(PutOrder, call.todo)
  <2>1. call.kind = "create" /\ r \in Resources
    BY <1>6, TodoTypes DEF Put, Shape
  <2>2. call'.kind = call.kind /\ call'.seen = call.seen
    <3>1. \/ call'.kind = call.kind /\ call'.seen = call.seen
          \/ \E a : Request(a, [Goto("wait") EXCEPT !.left = MaxPolls])
      BY <1>0, <1>6 DEF Put, Fail, CallRecords
    <3> QED BY <1>0, <3>1, RequestEnds DEF Goto, CallRecords
  <2>3. Asked' = Asked
    BY <2>1, <2>2, SameCall
  <2>4. CASE UNCHANGED <<res, power>>
    BY <2>3, <2>4 DEF Vm
  <2>5. CASE /\ Accepts(r) /\ res[r] # "ready" /\ res' = [res EXCEPT ![r] = "creating"]
             /\ power' = IF r = "vm" THEN "on" ELSE power
    <3>1. CASE r # "vm"
      BY <1>0, <2>1, <2>3, <2>5, <3>1 DEF Vm
    <3>2. CASE r = "vm"
      <4>1. Vm \in {"absent", "failed"} /\ Vm' = "creating"
        BY <1>0, <2>5, <3>2 DEF Accepts, Busy, Vm, ResourceStates
      <4>2. Asked.kind = "create"
        BY <2>1 DEF Asked
      <4> QED BY <2>3, <4>1, <4>2 DEF Contract!Command, Vm, Asked
    <3> QED BY <3>1, <3>2
  <2> QED BY <1>6, <2>4, <2>5 DEF Put
<1>7. CASE AwaitReady
  <2> DEFINE r == First(PutOrder, call.todo)
             next == CASE res[r] = "ready" -> AfterPut(r)
                       [] res[r] \in {"failed", "absent"} -> Fail
                       [] OTHER -> Poll
  <2>1. \E a : Request(a, next)
    BY <1>7 DEF AwaitReady
  <2>2. call.kind = "create" /\ ~call.seen /\ UNCHANGED <<res, power>>
    BY <1>7 DEF AwaitReady, Shape
  <2>3. CASE res[r] = "ready" /\ r = "vm"
    <3>1. Vm \in Contract!Goal[call.kind]
      BY <1>0, <2>2, <2>3 DEF Vm, Contract!Goal
    <3>2. next.kind = call.kind /\ next.seen = TRUE
      BY <1>0, <2>3 DEF AfterPut, Done, CallRecords
    <3> HIDE DEF next
    <3> QED BY <2>1, <2>2, <3>1, <3>2, RequestContract
  <2>4. CASE ~(res[r] = "ready" /\ r = "vm")
    <3>1. r # "vm" => AfterPut(r).kind = call.kind /\ AfterPut(r).seen = call.seen
      BY <1>0 DEF AfterPut, Done, CallRecords
    <3>2. next.kind = call.kind /\ next.seen = call.seen
      BY <2>4, <3>1, FailEnds
    <3> HIDE DEF next
    <3> QED BY <2>1, <2>2, <3>2, RequestContract
  <2> QED BY <2>3, <2>4
<1>8. CASE Delete
  <2> DEFINE r == First(DeleteOrder, call.todo)
  <2>1. call.kind = "delete" /\ r \in Resources
    BY <1>8, TodoTypes DEF Delete, Shape
  <2>2. call'.kind = call.kind /\ call'.seen = call.seen
    <3>1. \/ call'.kind = call.kind /\ call'.seen = call.seen
          \/ \E a : Request(a, [Goto("gone") EXCEPT !.left = MaxPolls])
      BY <1>0, <1>8 DEF Delete, Fail, CallRecords
    <3> QED BY <1>0, <3>1, RequestEnds DEF Goto, CallRecords
  <2>3. Asked' = Asked /\ power' = power
    BY <1>8, <2>1, <2>2, SameCall DEF Delete
  <2>4. CASE res' = res
    BY <2>3, <2>4 DEF Vm
  <2>5. CASE res[r] # "absent" /\ res' = [res EXCEPT ![r] = "deleting"]
    <3>1. CASE r # "vm"
      BY <1>0, <2>1, <2>3, <2>5, <3>1 DEF Vm
    <3>2. CASE r = "vm"
      <4>1. Vm # "absent" /\ Vm' = "deleting"
        BY <1>0, <2>5, <3>2 DEF Vm
      <4>2. Asked.kind = "delete"
        BY <2>1 DEF Asked
      <4> QED BY <2>3, <4>1, <4>2 DEF Contract!Command, Vm, Asked
    <3> QED BY <3>1, <3>2
  <2> QED BY <1>8, <2>4, <2>5 DEF Delete
<1>9. CASE AwaitGone
  <2> DEFINE r == First(DeleteOrder, call.todo)
             next == IF res[r] = "absent" THEN AfterDelete(r) ELSE Poll
  <2>1. \E a : Request(a, next)
    BY <1>9 DEF AwaitGone
  <2>2. /\ call.kind = "delete" /\ (call.seen <=> "vm" \notin call.todo) /\ UNCHANGED <<res, power>>
        /\ r \in call.todo /\ ("vm" \in call.todo => r = "vm")
    BY <1>0, <1>9, DeleteVmFirst DEF Shape, AwaitGone, CallRecords
  <2>3. call.seen \in BOOLEAN
    BY <1>0 DEF CallRecords
  <2>4. CASE res[r] = "absent" /\ r = "vm"
    <3>1. Vm \in Contract!Goal[call.kind] /\ ~call.seen
      BY <1>0, <2>2, <2>4 DEF Vm, Contract!Goal
    <3>2. next.kind = call.kind /\ next.seen = TRUE
      BY <1>0, <2>4 DEF AfterDelete, Done, CallRecords
    <3> HIDE DEF next
    <3> QED BY <2>1, <2>2, <3>1, <3>2, RequestContract
  <2>5. CASE res[r] = "absent" /\ r # "vm"
    <3>1. call.seen = TRUE
      BY <2>2, <2>3, <2>5
    <3>2. next.kind = call.kind /\ next.seen = call.seen
      BY <1>0, <2>5, <3>1 DEF AfterDelete, Done, CallRecords
    <3> HIDE DEF next
    <3> QED BY <2>1, <2>2, <3>2, RequestContract
  <2>6. CASE res[r] # "absent"
    <3>1. next.kind = call.kind /\ next.seen = call.seen
      BY <2>6, FailEnds
    <3> HIDE DEF next
    <3> QED BY <2>1, <2>2, <3>1, RequestContract
  <2> QED BY <2>4, <2>5, <2>6
<1>10. CASE View
  <2>1. PICK a : Request(a, [Succeed EXCEPT !.seen = TRUE, !.found = res["vm"]])
    BY <1>10 DEF View
  <2>2. call.kind = "check" /\ ~call.seen /\ UNCHANGED <<res, power>>
    BY <1>10 DEF View, Shape
  <2>3. Vm \in Contract!Goal[call.kind]
    BY <1>1, <2>2 DEF Contract!Goal
  <2> DEFINE next == [Succeed EXCEPT !.seen = TRUE, !.found = res["vm"]]
  <2>4. next.kind = call.kind /\ next.seen = TRUE
    BY <1>0 DEF Succeed, CallRecords
  <2>5. Request(a, next)
    BY <2>1
  <2> HIDE DEF next
  <2> QED BY <2>2, <2>3, <2>4, <2>5, RequestContract
<1>11. CASE SwitchPower
  <2>1. call.kind \in {"stop", "start"}
    BY <1>11 DEF SwitchPower, Shape
  <2>2. call'.kind = call.kind /\ call'.seen = call.seen
    <3>1. \/ call'.kind = call.kind /\ call'.seen = call.seen
          \/ \E a : Request(a, Goto("awaitPower"))
      BY <1>0, <1>11 DEF SwitchPower, Fail, CallRecords
    <3> QED BY <1>0, <3>1, RequestEnds DEF Goto, CallRecords
  <2>3. Asked' = Asked /\ res' = res
    BY <1>11, <2>1, <2>2, SameCall DEF SwitchPower
  <2>4. CASE power' = power
    BY <2>3, <2>4 DEF Vm
  <2>5. CASE res["vm"] = "ready" /\ power' = Switched(call.kind) /\ power' # power
    <3>1. Vm = power /\ Vm' = power'
      BY <2>3, <2>5 DEF Vm
    <3>2. \/ Asked.kind = "stop" /\ Vm = "on" /\ Vm' = "off"
          \/ Asked.kind = "start" /\ Vm = "off" /\ Vm' = "on"
      BY <1>0, <2>1, <2>5, <3>1 DEF Switched, Asked
    <3> QED BY <2>3, <3>2 DEF Contract!Command, Vm, Asked
  <2> QED BY <1>11, <2>4, <2>5 DEF SwitchPower
<1>12. CASE AwaitPower
  <2> DEFINE next == CASE res["vm"] = "absent" -> Fail
                       [] res["vm"] = "ready" /\ power = Switched(call.kind) -> [Succeed EXCEPT !.seen = TRUE]
                       [] OTHER -> Poll
  <2>1. \E a : Request(a, next)
    BY <1>12 DEF AwaitPower
  <2>2. call.kind \in {"stop", "start"} /\ ~call.seen /\ UNCHANGED <<res, power>>
    BY <1>12 DEF AwaitPower, Shape
  <2>3. CASE res["vm"] = "ready" /\ power = Switched(call.kind)
    <3>1. Vm \in Contract!Goal[call.kind]
      BY <2>2, <2>3 DEF Vm, Contract!Goal, Switched
    <3>2. next.kind = call.kind /\ next.seen = TRUE
      BY <1>0, <2>3 DEF Succeed, CallRecords
    <3> HIDE DEF next
    <3> QED BY <2>1, <2>2, <3>1, <3>2, RequestContract
  <2>4. CASE ~(res["vm"] = "ready" /\ power = Switched(call.kind))
    <3>1. next.kind = call.kind /\ next.seen = call.seen
      BY <2>4, FailEnds
    <3> HIDE DEF next
    <3> QED BY <2>1, <2>2, <3>1, RequestContract
  <2> QED BY <2>3, <2>4
<1>13. CASE SaveCreate \/ SaveDelete \/ SaveCheck \/ SavePower
  <2>1. /\ call.pc = "save" /\ call.kind # "none" /\ UNCHANGED <<res, power>>
        /\ call' = [NoCall EXCEPT !.ok = call.ok]
    BY <1>13 DEF SaveCreate, SaveDelete, SaveCheck, SavePower, Shape
  <2>2. call'.kind = "none" /\ call'.seen = FALSE /\ call'.ok = call.ok
    BY <2>1 DEF NoCall
  <2>3. call.ok \in BOOLEAN /\ (call.ok => call.seen)
    BY <1>0, <2>1 DEF Shape, CallRecords
  <2>4. Asked' = [kind |-> "none", reached |-> FALSE, ok |-> call.ok]
    <3>1. ("none" = "none" /\ call.ok) = call.ok
      BY <2>3
    <3> QED BY <2>2, <3>1 DEF Asked
  <2>5. Vm' = Vm /\ Asked.kind # "none" /\ (call.ok => Asked.reached)
    BY <2>1, <2>3 DEF Vm, Asked
  <2>6. Contract!Answer(call.ok)
    BY <2>4, <2>5 DEF Contract!Answer, Vm, Asked
  <2> QED BY <2>3, <2>6
<1>14. CASE Settle
  <2>1. call'.kind = call.kind /\ call'.seen = call.seen /\ call'.ok = call.ok
    <3>1. call' \in {call, [call EXCEPT !.disturbed = TRUE]}
      BY <1>14 DEF Settle
    <3> QED BY <1>0, <3>1 DEF CallRecords
  <2>2. Asked' = Asked
    BY <2>1 DEF Asked
  <2>3. PICK r \in Resources, s \in {"ready", "absent", "failed"} :
          /\ res' = [res EXCEPT ![r] = s] /\ power' = power
          /\ \/ res[r] = "creating" /\ s \in {"ready", "failed"}
             \/ res[r] = "deleting" /\ s = "absent"
    BY <1>14 DEF Settle
  <2>4. CASE r # "vm"
    BY <1>0, <2>2, <2>3, <2>4 DEF Vm
  <2>5. CASE r = "vm"
    <3>1. \/ Vm = "creating" /\ Vm' \in {"on", "failed"}
          \/ Vm = "deleting" /\ Vm' = "absent"
      BY <1>0, <2>3, <2>5 DEF Vm, ComesUp
    <3> QED BY <2>2, <3>1 DEF Contract!Settle, Vm, Asked
  <2> QED BY <2>4, <2>5
<1>15. CASE Evict
  <2>1. call'.kind = call.kind /\ call'.seen = call.seen /\ call'.ok = call.ok
    BY <1>0, <1>15 DEF Evict, CallRecords
  <2>2. Asked' = Asked
    BY <2>1 DEF Asked
  <2>3. Vm = "on" /\ Vm' \in {"off", "deleting"}
    BY <1>0, <1>15 DEF Evict, Vm
  <2> QED BY <2>2, <2>3 DEF Contract!Settle, Vm, Asked
<1> QED
  BY <1>3, <1>4, <1>5, <1>6, <1>7, <1>8, <1>9, <1>10, <1>11, <1>12, <1>13, <1>14, <1>15 DEF Next, CallStep

(* The calls keep the contract of the provider class, for every template,  *)
(* every deadline and every number of faults.                              *)
THEOREM KeepsProviderContract == Spec => KeepsProvisionerContract
<1>1. Init => TypeOK /\ Shape /\ ComesUp
  BY Deadlines, ResourceFaults
  DEF Init, TypeOK, Shape, ComesUp, NoCall, PCs, Kinds, Status, ResourceStates, Resources, Attached
<1>2. TypeOK /\ Shape /\ ComesUp /\ [Next]_vars => (TypeOK /\ Shape /\ ComesUp)'
  BY TypesKept, ShapeKept, ComesUpKept
<1>3. Init => Contract!Init
  <2> SUFFICES ASSUME Init PROVE Contract!Init
    OBVIOUS
  <2>1. Vm \in {"absent", "on"}
    BY DEF Init, Vm, Resources
  <2>2. call.kind = "none" /\ call.seen = FALSE /\ call.ok = FALSE
    BY DEF Init, NoCall
  <2>3. Asked = [kind |-> "none", reached |-> FALSE, ok |-> FALSE]
    BY <2>2 DEF Asked
  <2> QED BY <2>1, <2>3 DEF Contract!Init, Vm, Asked
<1>4. TypeOK /\ Shape /\ ComesUp /\ [Next]_vars => [Contract!Next]_Contract!vars
  BY KeepsProvisionerContractStep DEF Contract!vars, Vm, Asked
<1> QED BY <1>1, <1>2, <1>3, <1>4, PTL DEF Spec, KeepsProvisionerContract, Contract!Spec

---------------------------------------------------------------------------
(* The row *)

(* How far a create and a delete have come, and what their rows say.       *)
Stages ==
  /\ row.whole => Wanted \subseteq row.ids
  /\ call.kind = "create" => row.status = "RUNNING" /\ call.todo \subseteq Wanted
  /\ call.kind = "delete" => row.status = "DELETING"
  /\ (call.kind = "create" /\ (call.pc = "save" => call.ok)) =>
       \A r \in Wanted \ call.todo : res[r] = "ready" \/ (r = "vm" /\ call.evicted)
  /\ (call.kind = "delete" /\ row.whole /\ (call.pc = "save" => call.ok)) =>
       \A r \in Wanted \ call.todo : res[r] = "absent"
  /\ (call.kind \in {"create", "delete"} /\ (call.pc = "address" \/ (call.pc = "save" /\ call.ok))) => call.todo = {}
  /\ (row.status = "DELETED" /\ row.whole) => \A r \in Wanted : res[r] = "absent"

(* A call that fails promises nothing.                                     *)
LEMMA FailedStage ==
  ASSUME Stages, UNCHANGED <<config, row>>, call'.kind = call.kind, call'.todo = call.todo,
         call'.pc = "save", ~call'.ok, res' = res \/ call.kind \in {"create", "delete"}
  PROVE  Stages'
<1>1. Wanted' = Wanted
  BY DEF Wanted
<1> QED BY <1>1 DEF Stages

(* Neither does one that creates and deletes nothing.                      *)
LEMMA QuietStage ==
  ASSUME Stages, UNCHANGED <<config, res, row>>, call'.kind \notin {"create", "delete"}
  PROVE  Stages'
<1>1. Wanted' = Wanted
  BY DEF Wanted
<1> QED BY <1>1 DEF Stages

(* A step of a create or delete under way that leaves row and cloud alone. *)
LEMMA NextStage ==
  ASSUME Stages, UNCHANGED <<config, res, row>>, call.kind \in {"create", "delete"}, call.pc # "save",
         call'.kind = call.kind, call'.todo \subseteq call.todo, call'.evicted = call.evicted,
         \A r \in call.todo \ call'.todo : res[r] = IF call.kind = "create" THEN "ready" ELSE "absent",
         call'.pc \in {"save", "address"} => call'.todo = {}
  PROVE  Stages'
<1>1. Wanted' = Wanted
  BY DEF Wanted
<1> QED BY <1>1 DEF Stages

(* Every step keeps the account of what was created and deleted.           *)
THEOREM StagesKept == TypeOK /\ Shape /\ Stages /\ [Next]_vars => Stages'
<1> SUFFICES ASSUME TypeOK, Shape, Stages, [Next]_vars PROVE Stages'
  OBVIOUS
<1>0. /\ call \in CallRecords /\ res \in [Resources -> ResourceStates] /\ row \in RowRecords
      /\ Wanted \subseteq Resources /\ (config' = config => Wanted' = Wanted)
  BY WantedTypes DEF TypeOK, CallRecords, RowRecords, Wanted
<1>1. CASE BeginCreate
  <2>1. call'.kind = "create" /\ call'.pc = "prepare" /\ call'.todo = Wanted
    BY <1>1 DEF BeginCreate, Begin, NoCall
  <2>2. row'.status = "RUNNING" /\ row'.whole = row.whole /\ row'.ids = row.ids
    BY <1>0, <1>1 DEF BeginCreate, RowRecords
  <2> QED BY <1>0, <1>1, <2>1, <2>2 DEF BeginCreate, Stages
<1>2. CASE BeginDelete
  <2>1. call'.kind = "delete" /\ call'.pc = "delete" /\ call'.todo = row.ids \cup {"vm"}
    BY <1>2 DEF BeginDelete, Begin, NoCall
  <2>2. row'.status = "DELETING" /\ row'.whole = row.whole /\ row'.ids = row.ids
    BY <1>0, <1>2 DEF BeginDelete, RowRecords
  <2> QED BY <1>0, <1>2, <2>1, <2>2 DEF BeginDelete, Stages
<1>3. CASE RefuseDelete
  <2>1. row'.status = "FAILED" /\ row'.whole = row.whole /\ row'.ids = row.ids /\ call.kind = "none"
    BY <1>0, <1>3 DEF RefuseDelete, RowRecords, Shape
  <2> QED BY <1>0, <1>3, <2>1 DEF RefuseDelete, Stages
<1>4. CASE BeginLook \/ \E kind \in {"stop", "start"} : BeginPower(kind)
  <2>1. PICK kind \in {"check", "stop", "start"} : call'.kind = kind /\ UNCHANGED <<config, res, row>>
    BY <1>4 DEF BeginLook, BeginPower, Begin, NoCall
  <2> QED BY <2>1, QuietStage
<1>5. CASE Prepare
  <2>1. \E a : Request(a, Goto("put"))
    BY <1>5 DEF Prepare
  <2>2. call.pc = "prepare" /\ call.kind = "create" /\ UNCHANGED <<config, res, row>>
    BY <1>5 DEF Prepare, Shape
  <2>3. CASE call' = Goto("put")
    <3>1. call'.kind = call.kind /\ call'.todo = call.todo /\ call'.pc = "put" /\ call'.evicted = call.evicted
      BY <1>0, <2>3 DEF Goto, CallRecords
    <3> QED BY <2>2, <3>1, NextStage
  <2> QED BY <2>1, <2>2, <2>3, RequestEnds, FailedStage
<1>6. CASE Put
  <2> DEFINE r == First(PutOrder, call.todo)
             next == [Goto("wait") EXCEPT !.left = MaxPolls]
  <2>1. /\ call.pc = "put" /\ call.kind = "create" /\ UNCHANGED <<config, row>>
        /\ r \in call.todo /\ r \in Resources
    BY <1>0, <1>6, PutVmLast DEF Put, Shape, CallRecords
  <2>2. \/ call'.kind = call.kind /\ call'.pc = "save" /\ ~call'.ok /\ call'.todo = call.todo
        \/ \E a : Request(a, next)
    BY <1>0, <1>6 DEF Put, Fail, CallRecords
  <2>3. res' = res \/ res' = [res EXCEPT ![r] = "creating"]
    BY <1>6 DEF Put
  <2>4. CASE call' = next
    <3>1. call'.kind = call.kind /\ call'.todo = call.todo /\ call'.pc = "wait" /\ call'.evicted = call.evicted
      BY <1>0, <2>4 DEF Goto, CallRecords
    <3>2. /\ row.status = "RUNNING" /\ call.todo \subseteq Wanted
          /\ \A d \in Wanted \ call.todo : res[d] = "ready" \/ (d = "vm" /\ call.evicted)
      BY <2>1 DEF Stages
    <3>3. \A d \in Wanted \ call.todo : res'[d] = "ready" \/ (d = "vm" /\ call.evicted)
      BY <1>0, <2>1, <2>3, <3>2
    <3> QED BY <1>0, <2>1, <3>1, <3>2, <3>3 DEF Stages
  <2> HIDE DEF next
  <2> QED BY <2>1, <2>2, <2>4, RequestEnds, FailedStage
<1>7. CASE AwaitReady
  <2> DEFINE r == First(PutOrder, call.todo)
             next == CASE res[r] = "ready" -> AfterPut(r)
                       [] res[r] \in {"failed", "absent"} -> Fail
                       [] OTHER -> Poll
  <2>1. \E a : Request(a, next)
    BY <1>7 DEF AwaitReady
  <2>2. /\ call.pc = "wait" /\ call.kind = "create" /\ UNCHANGED <<config, res, row>>
        /\ r \in call.todo /\ (r = "vm" => call.todo = {"vm"})
    BY <1>0, <1>7, PutVmLast DEF Shape, AwaitReady, CallRecords
  <2>3. CASE call' = AfterPut(r) /\ res[r] = "ready"
    <3>1. call'.kind = call.kind /\ call'.todo = call.todo \ {r} /\ call'.evicted = call.evicted
      BY <1>0, <2>2, <2>3 DEF AfterPut, Done, CallRecords
    <3>2. r # "vm" => call'.pc = "put"
      BY <1>0, <2>2, <2>3 DEF AfterPut, Done, CallRecords
    <3> QED BY <2>2, <2>3, <3>1, <3>2, NextStage
  <2>4. CASE call' = Poll
    BY <2>2, <2>4, FailEnds, FailedStage, NextStage
  <2>5. CASE call'.kind = call.kind /\ call'.pc = "save" /\ ~call'.ok /\ call'.todo = call.todo
    BY <2>2, <2>5, FailedStage
  <2>6. (next = AfterPut(r) /\ res[r] = "ready") \/ next = Fail \/ next = Poll
    OBVIOUS
  <2> HIDE DEF next
  <2> QED BY <2>1, <2>3, <2>4, <2>5, <2>6, RequestEnds, FailEnds
<1>8. CASE GetAddress
  <2>1. \E a : Request(a, Succeed)
    BY <1>8 DEF GetAddress
  <2>2. call.pc = "address" /\ call.kind = "create" /\ call.todo = {} /\ UNCHANGED <<config, res, row>>
    BY <1>8 DEF GetAddress, Shape, Stages
  <2>3. CASE call' = Succeed
    <3>1. call'.kind = call.kind /\ call'.todo = call.todo /\ call'.evicted = call.evicted
      BY <1>0, <2>3 DEF Succeed, CallRecords
    <3> QED BY <2>2, <3>1, NextStage
  <2> QED BY <2>1, <2>2, <2>3, RequestEnds, FailedStage
<1>9. CASE Delete
  <2> DEFINE r == First(DeleteOrder, call.todo)
             next == [Goto("gone") EXCEPT !.left = MaxPolls]
  <2>1. /\ call.pc = "delete" /\ call.kind = "delete" /\ UNCHANGED <<config, row>>
        /\ r \in call.todo /\ r \in Resources
    BY <1>0, <1>9, DeleteVmFirst DEF Delete, Shape, CallRecords
  <2>2. \/ call'.kind = call.kind /\ call'.pc = "save" /\ ~call'.ok /\ call'.todo = call.todo
        \/ \E a : Request(a, next)
    BY <1>0, <1>9 DEF Delete, Fail, CallRecords
  <2>3. res' = res \/ res' = [res EXCEPT ![r] = "deleting"]
    BY <1>9 DEF Delete
  <2>4. CASE call' = next
    <3>1. call'.kind = call.kind /\ call'.todo = call.todo /\ call'.pc = "gone"
      BY <1>0, <2>4 DEF Goto, CallRecords
    <3>2. row.status = "DELETING" /\ (row.whole => \A d \in Wanted \ call.todo : res[d] = "absent")
      BY <2>1 DEF Stages
    <3>3. row.whole => \A d \in Wanted \ call.todo : res'[d] = "absent"
      BY <1>0, <2>1, <2>3, <3>2
    <3> QED BY <1>0, <2>1, <3>1, <3>2, <3>3 DEF Stages
  <2> HIDE DEF next
  <2> QED BY <2>1, <2>2, <2>4, RequestEnds, FailedStage
<1>10. CASE AwaitGone
  <2> DEFINE r == First(DeleteOrder, call.todo)
             next == IF res[r] = "absent" THEN AfterDelete(r) ELSE Poll
  <2>1. \E a : Request(a, next)
    BY <1>10 DEF AwaitGone
  <2>2. call.pc = "gone" /\ call.kind = "delete" /\ UNCHANGED <<config, res, row>> /\ r \in call.todo
    BY <1>0, <1>10, DeleteVmFirst DEF Shape, AwaitGone, CallRecords
  <2>3. CASE call' = AfterDelete(r) /\ res[r] = "absent"
    <3>1. call'.kind = call.kind /\ call'.todo = call.todo \ {r} /\ call'.evicted = call.evicted
      BY <1>0, <2>2, <2>3 DEF AfterDelete, Done, CallRecords
    <3>2. call.todo # {r} => call'.pc = "delete"
      BY <1>0, <2>2, <2>3 DEF AfterDelete, Done, CallRecords
    <3> QED BY <2>2, <2>3, <3>1, <3>2, NextStage
  <2>4. CASE call' = Poll
    BY <2>2, <2>4, FailEnds, FailedStage, NextStage
  <2>5. CASE call'.kind = call.kind /\ call'.pc = "save" /\ ~call'.ok /\ call'.todo = call.todo
    BY <2>2, <2>5, FailedStage
  <2>6. (next = AfterDelete(r) /\ res[r] = "absent") \/ next = Poll
    OBVIOUS
  <2> HIDE DEF next
  <2> QED BY <2>1, <2>3, <2>4, <2>5, <2>6, RequestEnds
<1>11. CASE View
  <2>1. \E a : Request(a, [Succeed EXCEPT !.seen = TRUE, !.found = res["vm"]])
    BY <1>11 DEF View
  <2>2. call.kind = "check" /\ UNCHANGED <<config, res, row>>
    BY <1>11 DEF View, Shape
  <2>3. call'.kind = call.kind
    BY <1>0, <2>1, RequestEnds DEF Succeed, CallRecords
  <2> QED BY <2>2, <2>3, QuietStage
<1>12. CASE SwitchPower
  <2>1. \/ call'.kind = call.kind
        \/ \E a : Request(a, Goto("awaitPower"))
    BY <1>0, <1>12 DEF SwitchPower, Fail, CallRecords
  <2>2. call.kind \in {"stop", "start"} /\ UNCHANGED <<config, res, row>>
    BY <1>12 DEF SwitchPower, Shape
  <2>3. call'.kind = call.kind
    BY <1>0, <2>1, RequestEnds DEF Goto, CallRecords
  <2> QED BY <2>2, <2>3, QuietStage
<1>13. CASE AwaitPower
  <2> DEFINE next == CASE res["vm"] = "absent" -> Fail
                       [] res["vm"] = "ready" /\ power = Switched(call.kind) -> [Succeed EXCEPT !.seen = TRUE]
                       [] OTHER -> Poll
  <2>1. \E a : Request(a, next)
    BY <1>13 DEF AwaitPower
  <2>2. call.kind \in {"stop", "start"} /\ UNCHANGED <<config, res, row>>
    BY <1>13 DEF AwaitPower, Shape
  <2>3. [Succeed EXCEPT !.seen = TRUE].kind = call.kind
    BY <1>0 DEF Succeed, CallRecords
  <2>4. next.kind = call.kind
    BY <2>3, FailEnds
  <2> HIDE DEF next
  <2> QED BY <2>1, <2>2, <2>4, RequestEnds, QuietStage
<1>14. ASSUME call' = [NoCall EXCEPT !.ok = call.ok], UNCHANGED <<config, res>>,
              row'.whole => Wanted \subseteq row'.ids,
              (row'.status = "DELETED" /\ row'.whole) => \A r \in Wanted : res[r] = "absent"
       PROVE  Stages'
  <2>1. call'.kind = "none"
    BY <1>14 DEF NoCall
  <2> QED BY <1>0, <1>14, <2>1 DEF Stages
<1>15. CASE SaveCreate
  <2>1. row.status = "RUNNING"
    BY <1>15 DEF SaveCreate, Stages
  <2>2. row'.status \in {"SUCCEEDED", "FAILED"} /\ (row'.whole => Wanted \subseteq row'.ids)
    BY <1>0, <1>15 DEF SaveCreate, RowRecords, Stages
  <2> QED BY <1>14, <1>15, <2>2 DEF SaveCreate
<1>16. CASE SaveDelete
  <2>1. row'.status = (IF call.ok THEN "DELETED" ELSE "FAILED") /\ row'.whole = row.whole /\ row'.ids = row.ids
    BY <1>0, <1>16 DEF SaveDelete, RowRecords
  <2>2. (call.ok /\ row.whole) => \A r \in Wanted : res[r] = "absent"
    BY <1>16 DEF SaveDelete, Stages
  <2> QED BY <1>14, <1>16, <2>1, <2>2 DEF SaveDelete, Stages
<1>17. CASE SaveCheck
  <2>1. /\ row'.whole = row.whole /\ row.ids \subseteq row'.ids
        /\ row'.status = "DELETED" => row.status = "DELETED"
    BY <1>0, <1>17 DEF SaveCheck, RowRecords
  <2> QED BY <1>14, <1>17, <2>1 DEF SaveCheck, Stages
<1>18. CASE SavePower
  <2>1. /\ row'.whole = row.whole /\ row'.ids = row.ids
        /\ row'.status = "DELETED" => row.status = "DELETED"
    BY <1>0, <1>18 DEF SavePower, RowRecords
  <2> QED BY <1>14, <1>18, <2>1 DEF SavePower, Stages
<1>19. CASE Settle
  <2>1. PICK r \in Resources, s \in {"ready", "absent", "failed"} :
          res' = [res EXCEPT ![r] = s] /\ res[r] \in {"creating", "deleting"}
    BY <1>19 DEF Settle
  <2>2. call' \in {call, [call EXCEPT !.disturbed = TRUE]} /\ UNCHANGED <<config, row>>
    BY <1>19 DEF Settle
  <2>3. /\ call'.kind = call.kind /\ call'.pc = call.pc /\ call'.ok = call.ok /\ call'.todo = call.todo
        /\ call'.evicted = call.evicted
    BY <1>0, <2>2 DEF CallRecords
  <2>4. \A d \in Wanted : res[d] \in {"ready", "absent"} => res'[d] = res[d]
    BY <1>0, <2>1
  <2> QED BY <1>0, <2>2, <2>3, <2>4 DEF Stages
<1>20. CASE Evict
  <2>1. /\ call'.kind = call.kind /\ call'.pc = call.pc /\ call'.ok = call.ok /\ call'.todo = call.todo
        /\ UNCHANGED <<config, row>> /\ (call.evicted => call'.evicted)
    BY <1>0, <1>20 DEF Evict, CallRecords
  <2>2. ASSUME config.spot # "Delete" PROVE res' = res
    BY <1>20, <2>2 DEF Evict
  <2>3. ASSUME config.spot = "Delete"
        PROVE  /\ res' = [res EXCEPT !["vm"] = "deleting"] /\ res["vm"] = "ready"
               /\ call.seen => call'.evicted
    BY <1>0, <1>20, <2>3 DEF Evict, CallRecords
  <2>4. CASE config.spot # "Delete"
    BY <1>0, <2>1, <2>2, <2>4 DEF Stages
  <2>5. CASE config.spot = "Delete"
    <3>1. \A r \in Wanted : res[r] = "absent" => res'[r] = "absent"
      BY <1>0, <2>3, <2>5
    <3>2. \A r \in Wanted : res[r] = "ready" => res'[r] = "ready" \/ (r = "vm" /\ (call.seen => call'.evicted))
      BY <1>0, <2>3, <2>5
    <3>3. (call.kind = "create" /\ "vm" \notin call.todo /\ (call.pc = "save" => call.ok)) => call.seen
      BY <1>0 DEF Shape, CallRecords, PCs
    <3> QED BY <1>0, <2>1, <3>1, <3>2, <3>3 DEF Stages
  <2> QED BY <2>4, <2>5
<1>21. CASE UNCHANGED vars
  BY <1>0, <1>21 DEF vars, Stages
<1> QED
  BY <1>1, <1>2, <1>3, <1>4, <1>5, <1>6, <1>7, <1>8, <1>9, <1>10, <1>11, <1>12, <1>13, <1>15, <1>16, <1>17,
     <1>18, <1>19, <1>20, <1>21 DEF Next, CallStep

(* What the row says of the cloud is true, for every template and every    *)
(* number of faults.                                                       *)
THEOREM RowIsTrue == Spec => []RowTellsCloud
<1>1. Init => TypeOK /\ Shape /\ Stages
  BY Deadlines, ResourceFaults
  DEF Init, TypeOK, Shape, Stages, NoCall, PCs, Kinds, Status, ResourceStates, Resources, Attached
<1>2. TypeOK /\ Shape /\ Stages /\ [Next]_vars => (TypeOK /\ Shape /\ Stages)'
  BY TypesKept, ShapeKept, StagesKept
<1>3. Stages => RowTellsCloud
  BY DEF Stages, RowTellsCloud
<1> QED BY <1>1, <1>2, <1>3, PTL DEF Spec

---------------------------------------------------------------------------
(* Calls that nothing disturbs *)

(* Where such a call waits, the cloud is at work; and if it has failed, it *)
(* could not succeed.                                                      *)
Clear ==
  ~call.disturbed =>
    /\ call.pc = "wait" => res[First(PutOrder, call.todo)] \in {"creating", "ready"}
    /\ (call.pc = "save" /\ ~call.ok) =>
         \/ call.kind = "create" /\ ~config.image
         \/ call.kind = "delete" /\ ~row.whole
         \/ call.kind \in {"stop", "start"} /\ res["vm"] \notin {"creating", "ready"}

(* What the next resource of a create needs has been dealt with.           *)
LEMMA NeedsFirst ==
  ASSUME NEW todo \in SUBSET Resources, todo # {}, NEW d \in Needs[First(PutOrder, todo)]
  PROVE  d \in Wanted \ todo /\ d # "vm"
<1>1. PutOrder \in [1..4 -> Resources] /\ \A r \in Resources : \E i \in 1..4 : PutOrder[i] = r
  BY DEF PutOrder, Resources, Attached
<1>2. PICK i \in 1..4 : /\ First(PutOrder, todo) = PutOrder[i]
                        /\ \A j \in 1..(i - 1) : PutOrder[j] \notin todo
  BY <1>1, FirstIsFirst
<1>3. CASE i = 1 \/ i = 2
  BY <1>2, <1>3 DEF PutOrder, Needs
<1>4. CASE i = 3
  <2>1. "nsg" \notin todo /\ "pip" \notin todo
    BY <1>2, <1>4 DEF PutOrder
  <2>2. d \in Wanted \ {"nic", "vm"}
    BY <1>2, <1>4 DEF PutOrder, Needs
  <2> QED BY <2>1, <2>2 DEF Wanted
<1>5. CASE i = 4
  <2>1. "nic" \notin todo
    BY <1>2, <1>5 DEF PutOrder
  <2> QED BY <1>2, <1>5, <2>1 DEF PutOrder, Needs, Wanted
<1> QED BY <1>2, <1>3, <1>4, <1>5

(* Nothing uses the next resource of a delete that names all of them.      *)
LEMMA NoUseLeft ==
  ASSUME NEW todo \in SUBSET Resources, todo # {}, \A r \in Wanted \ todo : res[r] = "absent"
  PROVE  ~InUse(First(DeleteOrder, todo))
<1>1. DeleteOrder \in [1..4 -> Resources] /\ \A r \in Resources : \E i \in 1..4 : DeleteOrder[i] = r
  BY DEF DeleteOrder, Resources, Attached
<1>2. PICK i \in 1..4 : /\ First(DeleteOrder, todo) = DeleteOrder[i]
                        /\ \A j \in 1..(i - 1) : DeleteOrder[j] \notin todo
  BY <1>1, FirstIsFirst
<1>3. CASE i = 1
  BY <1>2, <1>3 DEF DeleteOrder, InUse
<1>4. CASE i = 2
  <2>1. "vm" \notin todo
    BY <1>2, <1>4 DEF DeleteOrder
  <2> QED BY <1>2, <1>4, <2>1 DEF DeleteOrder, InUse, Wanted
<1>5. CASE i = 3 \/ i = 4
  <2>1. "nic" \notin todo
    BY <1>2, <1>5 DEF DeleteOrder
  <2> QED BY <1>2, <1>5, <2>1 DEF DeleteOrder, InUse, Wanted
<1> QED BY <1>2, <1>3, <1>4, <1>5

(* A request that fails, and a deadline that is over, disturb the call.    *)
LEMMA Disturbs ==
  ASSUME TypeOK
  PROVE  /\ \A a, next : Request(a, next) => call' = next \/ call'.disturbed
         /\ Poll.disturbed \/ (Poll.pc = call.pc /\ Poll.todo = call.todo /\ Poll.disturbed = call.disturbed)
<1>1. call \in CallRecords /\ Fail \in CallRecords
  BY StepTypes DEF TypeOK, CallRecords
<1>2. [Fail EXCEPT !.disturbed = TRUE].disturbed
  BY <1>1 DEF CallRecords
<1>3. /\ [call EXCEPT !.left = call.left - 1].pc = call.pc
      /\ [call EXCEPT !.left = call.left - 1].todo = call.todo
      /\ [call EXCEPT !.left = call.left - 1].disturbed = call.disturbed
  BY <1>1 DEF CallRecords
<1> QED BY <1>2, <1>3 DEF Request, Poll

(* Every step keeps a call that nothing disturbs clear of obstacles.       *)
THEOREM ClearKept == TypeOK /\ Shape /\ Stages /\ Clear /\ [Next]_vars => Clear'
<1> SUFFICES ASSUME TypeOK, Shape, Stages, Clear, [Next]_vars PROVE Clear'
  OBVIOUS
<1>0. /\ call \in CallRecords /\ res \in [Resources -> ResourceStates]
      /\ Fail \in CallRecords /\ Poll.disturbed \in BOOLEAN
  BY StepTypes DEF TypeOK, CallRecords, Poll, Fail
<1>1. ASSUME call'.pc \notin {"wait", "save"} PROVE Clear'
  BY <1>1 DEF Clear
<1>2. ASSUME call'.pc = "save", call'.ok PROVE Clear'
  BY <1>2 DEF Clear
<1>3. ASSUME call'.disturbed PROVE Clear'
  BY <1>3 DEF Clear
<1>4. CASE BeginCreate \/ BeginDelete \/ BeginLook \/ \E kind \in {"stop", "start"} : BeginPower(kind)
  <2>1. call'.pc \in {"prepare", "delete", "view", "power"}
    BY <1>4 DEF BeginCreate, BeginDelete, BeginLook, BeginPower, Begin, NoCall
  <2> QED BY <1>1, <2>1
<1>5. CASE RefuseDelete
  BY <1>1, <1>5 DEF RefuseDelete
<1>6. CASE SaveCreate \/ SaveDelete \/ SaveCheck \/ SavePower
  <2>1. call'.pc = "idle"
    BY <1>6 DEF SaveCreate, SaveDelete, SaveCheck, SavePower, NoCall
  <2> QED BY <1>1, <2>1
<1>7. CASE Prepare
  <2>1. call' = Goto("put") \/ call'.disturbed
    BY <1>7, Disturbs DEF Prepare
  <2>2. Goto("put").pc = "put"
    BY <1>0 DEF Goto, CallRecords
  <2> QED BY <1>1, <1>3, <2>1, <2>2
<1>8. CASE Put
  <2> DEFINE r == First(PutOrder, call.todo)
             next == [Goto("wait") EXCEPT !.left = MaxPolls]
  <2>1. /\ call.kind = "create" /\ call.todo \in SUBSET Resources /\ call.todo # {}
        /\ r \in Resources /\ UNCHANGED <<config, row>>
    BY <1>0, <1>8, PutVmLast DEF Put, Shape, CallRecords
  <2>2. \A d \in Needs[r] : res[d] = "ready"
    BY <1>8, <2>1, NeedsFirst DEF Put, Stages
  <2>3. CASE (r = "vm" /\ ~config.image) \/ ~Accepts(r)
    <3>1. call' = [Fail EXCEPT !.disturbed = Fail.disturbed \/ Busy(r)] /\ UNCHANGED res
      BY <1>8, <2>3 DEF Put
    <3>2. Busy(r) => call'.disturbed
      BY <1>0, <3>1 DEF CallRecords
    <3>3. call'.kind = "create"
      BY <1>0, <2>1, <3>1, FailEnds DEF CallRecords
    <3>4. ~Busy(r) => ~config.image
      BY <2>2, <2>3 DEF Accepts
    <3>5. call'.pc = "save"
      BY <1>0, <3>1, FailEnds DEF CallRecords
    <3> QED BY <2>1, <3>2, <3>3, <3>4, <3>5 DEF Clear
  <2>4. CASE ~((r = "vm" /\ ~config.image) \/ ~Accepts(r))
    <3>1. PICK a \in Answers :
            /\ Request(a, next)
            /\ res' = IF Arrived(a) /\ res[r] # "ready" THEN [res EXCEPT ![r] = "creating"] ELSE res
      BY <1>8, <2>4 DEF Put
    <3>2. CASE a # "ok"
      <4>1. call'.disturbed
        BY <1>0, <3>1, <3>2 DEF Request, CallRecords
      <4> QED BY <1>3, <4>1
    <3>3. CASE a = "ok"
      <4>1. call'.pc = "wait" /\ call'.todo = call.todo
        BY <1>0, <3>1, <3>3 DEF Request, Goto, CallRecords
      <4>2. res'[r] \in {"creating", "ready"}
        BY <1>0, <2>1, <3>1, <3>3 DEF Arrived
      <4> QED BY <4>1, <4>2 DEF Clear
    <3> QED BY <3>2, <3>3
  <2> QED BY <2>3, <2>4
<1>9. CASE AwaitReady
  <2> DEFINE r == First(PutOrder, call.todo)
             next == CASE res[r] = "ready" -> AfterPut(r)
                       [] res[r] \in {"failed", "absent"} -> Fail
                       [] OTHER -> Poll
  <2>1. (call' = next \/ call'.disturbed) /\ call.pc = "wait" /\ UNCHANGED <<config, res, row>>
    BY <1>9, Disturbs DEF AwaitReady
  <2>2. CASE call.disturbed
    <3>1. AfterPut(r).disturbed /\ Fail.disturbed /\ Poll.disturbed
      BY <1>0, <2>2, Disturbs DEF CallRecords, AfterPut, Done, Fail
    <3>2. next \in {AfterPut(r), Fail, Poll}
      OBVIOUS
    <3> HIDE DEF next
    <3> QED BY <1>3, <2>1, <3>1, <3>2
  <2>3. CASE ~call.disturbed
    <3>1. res[r] \in {"creating", "ready"}
      BY <2>1, <2>3 DEF Clear
    <3>2. CASE res[r] = "ready" /\ call' = AfterPut(r)
      <4>1. call'.pc \in {"put", "address"} \/ (call'.pc = "save" /\ call'.ok)
        BY <1>0, <3>2 DEF AfterPut, Done, CallRecords
      <4> QED BY <1>1, <1>2, <4>1
    <3>3. CASE call' = Poll
      <4>1. call'.disturbed \/ (call'.pc = "wait" /\ call'.todo = call.todo)
        BY <2>1, <3>3, Disturbs
      <4> QED BY <2>1, <3>1, <4>1 DEF Clear
    <3> QED BY <1>3, <2>1, <3>1, <3>2, <3>3
  <2> QED BY <2>2, <2>3
<1>10. CASE GetAddress
  <2>1. call' = Succeed \/ call'.disturbed
    BY <1>10, Disturbs DEF GetAddress
  <2>2. Succeed.pc = "save" /\ Succeed.ok
    BY <1>0 DEF Succeed, CallRecords
  <2> QED BY <1>2, <1>3, <2>1, <2>2
<1>11. CASE Delete
  <2> DEFINE r == First(DeleteOrder, call.todo)
             next == [Goto("gone") EXCEPT !.left = MaxPolls]
  <2>1. /\ call.kind = "delete" /\ call.todo \in SUBSET Resources /\ call.todo # {}
        /\ UNCHANGED <<config, row>> /\ call.pc = "delete"
    BY <1>0, <1>11 DEF Delete, Shape, CallRecords
  <2>2. CASE InUse(r)
    <3>1. call' = Fail
      BY <1>11, <2>2 DEF Delete
    <3>2. ~row.whole
      BY <2>1, <2>2, NoUseLeft DEF Stages
    <3> QED BY <2>1, <3>1, <3>2, FailEnds DEF Clear
  <2>3. CASE ~InUse(r)
    <3>1. \E a : Request(a, next)
      BY <1>11, <2>3 DEF Delete
    <3>2. next.pc = "gone"
      BY <1>0 DEF Goto, CallRecords
    <3> HIDE DEF next
    <3> QED BY <1>1, <1>3, <3>1, <3>2, Disturbs
  <2> QED BY <2>2, <2>3
<1>12. CASE AwaitGone
  <2> DEFINE r == First(DeleteOrder, call.todo)
             next == IF res[r] = "absent" THEN AfterDelete(r) ELSE Poll
  <2>1. (call' = next \/ call'.disturbed) /\ call.pc = "gone"
    BY <1>12, Disturbs DEF AwaitGone
  <2>2. AfterDelete(r).pc = "delete" \/ (AfterDelete(r).pc = "save" /\ AfterDelete(r).ok)
    BY <1>0 DEF AfterDelete, Done, CallRecords
  <2>3. Poll.disturbed \/ Poll.pc = "gone"
    BY <2>1, Disturbs
  <2> QED BY <1>1, <1>2, <1>3, <2>1, <2>2, <2>3
<1>13. CASE View
  <2>1. call' = [Succeed EXCEPT !.seen = TRUE, !.found = res["vm"]] \/ call'.disturbed
    BY <1>13, Disturbs DEF View
  <2>2. [Succeed EXCEPT !.seen = TRUE, !.found = res["vm"]].pc = "save" /\ [Succeed EXCEPT !.seen = TRUE, !.found = res["vm"]].ok
    BY <1>0 DEF Succeed, CallRecords
  <2> QED BY <1>2, <1>3, <2>1, <2>2
<1>14. CASE SwitchPower
  <2>1. call.kind \in {"stop", "start"} /\ UNCHANGED <<config, res, row>>
    BY <1>14 DEF SwitchPower, Shape
  <2>2. CASE res["vm"] # "ready"
    <3>1. call' = [Fail EXCEPT !.disturbed = Fail.disturbed \/ Busy("vm")]
      BY <1>14, <2>2 DEF SwitchPower
    <3>2. (Busy("vm") => call'.disturbed) /\ call'.kind = call.kind /\ call'.pc = "save"
      BY <1>0, <3>1, FailEnds DEF CallRecords
    <3> QED BY <2>1, <2>2, <3>2 DEF Clear, Busy
  <2>3. CASE res["vm"] = "ready"
    <3>1. \E a : Request(a, Goto("awaitPower"))
      BY <1>14, <2>3 DEF SwitchPower
    <3>2. Goto("awaitPower").pc = "awaitPower"
      BY <1>0 DEF Goto, CallRecords
    <3> QED BY <1>1, <1>3, <3>1, <3>2, Disturbs
  <2> QED BY <2>2, <2>3
<1>15. CASE AwaitPower
  <2> DEFINE next == CASE res["vm"] = "absent" -> Fail
                       [] res["vm"] = "ready" /\ power = Switched(call.kind) -> [Succeed EXCEPT !.seen = TRUE]
                       [] OTHER -> Poll
  <2>1. (call' = next \/ call'.disturbed) /\ call.pc = "awaitPower"
    BY <1>15, Disturbs DEF AwaitPower
  <2>2. [Succeed EXCEPT !.seen = TRUE].pc = "save" /\ [Succeed EXCEPT !.seen = TRUE].ok
    BY <1>0 DEF Succeed, CallRecords
  <2>3. Poll.disturbed \/ Poll.pc = "awaitPower"
    BY <2>1, Disturbs
  <2>4. CASE call' = Fail /\ res["vm"] = "absent"
    <3>1. call.kind \in {"stop", "start"} /\ UNCHANGED <<config, res, row>>
      BY <1>15 DEF AwaitPower, Shape
    <3> QED BY <2>4, <3>1, FailEnds DEF Clear
  <2>5. \/ next = Fail /\ res["vm"] = "absent"
        \/ next = [Succeed EXCEPT !.seen = TRUE]
        \/ next = Poll
    OBVIOUS
  <2> HIDE DEF next
  <2> QED BY <1>1, <1>2, <1>3, <2>1, <2>2, <2>3, <2>4, <2>5
<1>16. CASE Settle
  <2>1. PICK r \in Resources, s \in {"ready", "absent", "failed"} :
          /\ res' = [res EXCEPT ![r] = s]
          /\ \/ res[r] = "creating" /\ s = "ready" /\ UNCHANGED call
             \/ res[r] = "deleting" /\ s = "absent" /\ UNCHANGED call
             \/ call' = [call EXCEPT !.disturbed = TRUE]
    BY <1>16 DEF Settle
  <2>2. CASE call' = [call EXCEPT !.disturbed = TRUE]
    <3>1. call'.disturbed
      BY <1>0, <2>2 DEF CallRecords
    <3> QED BY <1>3, <3>1
  <2>3. CASE UNCHANGED call /\ ((res[r] = "creating" /\ s = "ready") \/ (res[r] = "deleting" /\ s = "absent"))
    <3>1. \A d \in Resources : res[d] \in {"creating", "ready"} <=> res'[d] \in {"creating", "ready"}
      BY <1>0, <2>1, <2>3
    <3>2. "vm" \in Resources /\ (call.pc = "wait" => First(PutOrder, call.todo) \in Resources)
      BY TodoTypes DEF Resources, Shape
    <3>3. UNCHANGED <<config, row>>
      BY <1>16 DEF Settle
    <3> QED BY <2>3, <3>1, <3>2, <3>3 DEF Clear
  <2> QED BY <2>1, <2>2, <2>3
<1>17. CASE Evict
  <2>1. call'.disturbed
    BY <1>0, <1>17 DEF Evict, CallRecords
  <2> QED BY <1>3, <2>1
<1>18. CASE UNCHANGED vars
  BY <1>18 DEF vars, Clear
<1> QED
  BY <1>4, <1>5, <1>6, <1>7, <1>8, <1>9, <1>10, <1>11, <1>12, <1>13, <1>14, <1>15, <1>16, <1>17, <1>18
  DEF Next, CallStep

(* A call that nothing disturbs succeeds where it can                      *)
(* (UndisturbedSucceeds): no leftover of earlier failed attempts, in       *)
(* whatever state, stands in the way of the next create or delete.         *)
THEOREM NothingInTheWay == Spec => []UndisturbedSucceeds
<1>1. Init => TypeOK /\ Shape /\ Stages /\ Clear
  BY Deadlines, ResourceFaults
  DEF Init, TypeOK, Shape, Stages, Clear, NoCall, PCs, Kinds, Status, ResourceStates, Resources, Attached
<1>2. TypeOK /\ Shape /\ Stages /\ Clear /\ [Next]_vars => (TypeOK /\ Shape /\ Stages /\ Clear)'
  BY TypesKept, ShapeKept, StagesKept, ClearKept
<1>3. Clear => UndisturbedSucceeds
  BY DEF Clear, UndisturbedSucceeds, Possible
<1> QED BY <1>1, <1>2, <1>3, PTL DEF Spec

=============================================================================
