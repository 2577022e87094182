-------------------------- MODULE ProvisionerContract --------------------------
(***************************************************************************)
(* The provider contract of icopa_core/cloud_provisioning/base.py, as the  *)
(* Hub's tasks rely on it and as CloudProvisioning takes it for granted:   *)
(* one call at a time, and no call succeeds before the VM has been seen in *)
(* the state it was asked for.                                             *)
(***************************************************************************)

VARIABLES cloud,  \* the VM
          call    \* the call under way, whether its goal was seen, the last verdict

vars == <<cloud, call>>

Goal == [create |-> {"on", "off"}, delete |-> {"absent"}, stop |-> {"off"}, start |-> {"on"},
         check |-> {"absent", "creating", "failed", "on", "off", "deleting"}]
Kinds == DOMAIN Goal

Init == /\ cloud \in {"absent", "on"}
        /\ call = [kind |-> "none", reached |-> FALSE, ok |-> FALSE]

Ask(k) == /\ call.kind = "none"
          /\ call' = [kind |-> k, reached |-> FALSE, ok |-> FALSE]
          /\ UNCHANGED cloud

(* What a call may do to the VM, and what the cloud does by itself.        *)
Command == /\ \/ call.kind = "create" /\ cloud \in {"absent", "failed"} /\ cloud' = "creating"
              \/ call.kind = "delete" /\ cloud # "absent" /\ cloud' = "deleting"
              \/ call.kind = "stop" /\ cloud = "on" /\ cloud' = "off"
              \/ call.kind = "start" /\ cloud = "off" /\ cloud' = "on"
           /\ UNCHANGED call

Settle == /\ \/ cloud = "creating" /\ cloud' \in {"on", "failed"}
             \/ cloud = "deleting" /\ cloud' = "absent"
             \/ cloud = "on" /\ cloud' \in {"off", "deleting"}
          /\ UNCHANGED call

Observe == /\ call.kind # "none" /\ ~call.reached
           /\ cloud \in Goal[call.kind]
           /\ call' = [call EXCEPT !.reached = TRUE]
           /\ UNCHANGED cloud

Answer(ok) == /\ call.kind # "none"
              /\ ok => call.reached
              /\ call' = [kind |-> "none", reached |-> FALSE, ok |-> ok]
              /\ UNCHANGED cloud

Next == \/ \E k \in Kinds : Ask(k)
        \/ Command \/ Settle \/ Observe
        \/ \E ok \in BOOLEAN : Answer(ok)

Spec == Init /\ [][Next]_vars
=============================================================================
