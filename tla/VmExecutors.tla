----------------------------- MODULE VmExecutors -----------------------------
(***************************************************************************)
(* The action executors of icopa_core/task_executor: one action at a time, *)
(* each a series of SSH commands to one VM (connectors/vm_ssh_client.py)   *)
(* that start, watch and remove containers.  An executor knows of the VM   *)
(* only what its commands answer; a command may be lost before it reaches  *)
(* the VM, or time out after it was executed there.                        *)
(***************************************************************************)
EXTENDS Naturals, Sequences, FiniteSets

CONSTANTS
    Vms,          \* the VM nodes of the scenario
    StressLimit,  \* 80 percent of what a VM has
    MaxPolls,     \* polls before a deadline
    MaxFaults     \* commands that go wrong and containers that crash

ASSUME PollsAssumption == MaxPolls \in Nat \ {0}
ASSUME FaultsAssumption == MaxFaults \in Nat

VARIABLES
    box,     \* what is on each VM: the state of each named container
    exec,    \* the executor that runs, or ran last
    faults   \* faults so far

execVars == <<box, exec, faults>>

(* icopa-zenoh-router, icopa-zenoh-profiling-*, and the stress container.  *)
Probes == {"responder", "sender"}
Containers == Probes \cup {"router", "stress"}
ContainerStates == {"absent", "up", "done", "broken"}

Executors == {"wait", "connect", "ping", "collect", "router", "clean_router", "responder", "sender",
              "clean_responder", "clean_sender", "stress", "clean_stress", "cleanup"}
Steps == {"idle", "running?", "command", "check", "await", "verify", "done"}

(* The container an executor starts, and the one its command removes       *)
(* first: a preset knows its own container (and names of former versions). *)
Starts(kind) == kind \in Probes \cup {"router", "stress"}
CleansProbe(kind) == kind \in {"clean_responder", "clean_sender"}
Removes(kind) ==
    CASE kind \in {"responder", "clean_responder"} -> {"responder"}
      [] kind \in {"sender", "clean_sender"} -> {"sender"}
      [] kind \in {"stress", "clean_stress"} -> {"stress"}
      [] kind = "clean_router" -> {"router"}
      [] OTHER -> {}

NoExecutor == [kind |-> "wait", vm |-> 0, step |-> "idle", names |-> {}, todo |-> {},
               left |-> 0, removed |-> FALSE, ok |-> FALSE, disturbed |-> FALSE]

ExecInit ==
    /\ box = [v \in Vms |-> [c \in Containers |-> "absent"]]
    /\ exec = NoExecutor
    /\ faults = 0

---------------------------------------------------------------------------
(* build_executor: which class runs an action, and the commands it starts  *)
(* with.  With cleanup_only among its parameters a preset only removes its *)
(* container, a profiling preset in each cleanup phase.                    *)

Presets == {"routing/clean_router", "routing/setup_zenoh_routing", "stress/stress_cpu_ram",
            "profiling/latency_sender", "profiling/latency_responder"}

PresetExecutor(preset, only, cleanup) ==
    CASE preset = "routing/clean_router" -> "clean_router"
      [] preset = "routing/setup_zenoh_routing" -> "router"
      [] preset = "stress/stress_cpu_ram" -> IF only THEN "clean_stress" ELSE "stress"
      [] preset = "profiling/latency_sender" -> IF only \/ cleanup THEN "clean_sender" ELSE "sender"
      [] preset = "profiling/latency_responder" -> IF only \/ cleanup THEN "clean_responder" ELSE "responder"

ExecutorOf(action, cleanup) ==
    CASE action.type = "wait" -> "wait"
      [] action.type = "check_connectivity" -> "connect"
      [] action.type = "check_graph_ping" -> "ping"
      [] action.type = "collect_metrics" -> "collect"
      [] action.type \in {"cleanup_zenoh_routers", "cleanup_containers"} -> "cleanup"
      [] action.type = "run_runtime_preset" -> PresetExecutor(action.preset, action.cleanup_only, cleanup)

NamesOf(action, kind) ==
    CASE CleansProbe(kind) -> Removes(kind)
      [] action.type = "cleanup_zenoh_routers" -> {"router"}
      [] action.type = "cleanup_containers" -> action.value
      [] OTHER -> {}

FirstStep(kind) ==
    CASE kind = "wait" -> "done"
      [] kind = "stress" -> "running?"
      [] OTHER -> "command"

(* validate_input raises ActionExecutionError before any command is sent.  *)
Invalid(action, kind) ==
    \/ kind = "stress" /\ action.value > StressLimit
    \/ action.type = "cleanup_containers" /\ action.value = {}

Begin(action, cleanup) ==
    LET kind == ExecutorOf(action, cleanup)
        names == NamesOf(action, kind)
    IN  exec' = [kind |-> kind, vm |-> action.target, names |-> names, todo |-> names, left |-> MaxPolls,
                 step |-> IF Invalid(action, kind) THEN "done" ELSE FirstStep(kind),
                 removed |-> FALSE, ok |-> ~Invalid(action, kind), disturbed |-> FALSE]

---------------------------------------------------------------------------
(* An answer is ok, lost with its command, late, a refusal, or an ok that  *)
(* hides a removal that failed.                                            *)
Answered(a) == a \in {"ok", "kept"}
Arrived(a) == a # "lost"

(* A fault costs one of MaxFaults.  An executor is disturbed by a status   *)
(* that is not answered and by a crash.                                    *)
Faults(n) == n <= MaxFaults - faults /\ faults' = faults + n
Cost(a) == IF a = "ok" THEN 0 ELSE 1

Finish(ok) == [exec EXCEPT !.step = "done", !.ok = ok]
Continue(step) == [exec EXCEPT !.step = step]
Disturb(e, a) == [e EXCEPT !.disturbed = @ \/ a # "ok"]

Has(c) == box[exec.vm][c] # "absent"
Up(c) == box[exec.vm][c] = "up"

(* docker rm -f ... || true, which is never refused and may leave what it  *)
(* should remove; docker run -d --name, which fails when the name is taken. *)
Removed(names) == [c \in Containers |-> IF c \in names THEN "absent" ELSE box[exec.vm][c]]
OnlyRemoves(kind) == CleansProbe(kind) \/ kind \in {"clean_router", "clean_stress"}
AnswersTo(kind) ==
    {"ok", "lost", "late"} \cup (IF OnlyRemoves(kind) THEN {} ELSE {"refused"})
                           \cup (IF Removes(kind) = {} THEN {} ELSE {"kept"})

Removal(a) == IF a = "kept" THEN {} ELSE Removes(exec.kind)
Conflict(a) == Starts(exec.kind) /\ exec.kind \notin Removal(a) /\ Has(exec.kind)
AfterCommand(a) ==
    IF Starts(exec.kind) /\ ~Conflict(a) /\ a # "refused"
    THEN [Removed(Removal(a)) EXCEPT ![exec.kind] = "up"]
    ELSE Removed(Removal(a))

(* Mutant of AfterAnswer: a sender is not waited for. *)
AfterStart(a) ==
    LET ok == Answered(a) /\ ~Conflict(a)
    IN  CASE CleansProbe(exec.kind) -> [Continue("verify") EXCEPT !.removed = ok]
          [] ok /\ exec.kind \in {"router", "stress"} -> Continue("check")
          [] OTHER -> Finish(ok)

(* What the executor does with the answer of its command. *)
AfterAnswer(a) ==
    LET ok == Answered(a) /\ ~Conflict(a)
    IN  CASE CleansProbe(exec.kind) -> [Continue("verify") EXCEPT !.removed = ok]
          [] ok /\ exec.kind \in {"router", "stress"} -> Continue("check")
          [] ok /\ exec.kind = "sender" -> Continue("await")
          [] OTHER -> Finish(ok)

Command ==
    /\ exec.step = "command" /\ exec.kind # "cleanup"
    /\ \E a \in AnswersTo(exec.kind) :
         /\ Faults(Cost(a))
         /\ box' = IF Arrived(a) THEN [box EXCEPT ![exec.vm] = AfterCommand(a)] ELSE box
         /\ exec' = AfterAnswer(a)

(* cleanup_containers removes one container after the other and looks away *)
(* from the result of the removal: only the status decides.                *)
NextName == CHOOSE c \in exec.todo : TRUE

CleanupCommand ==
    /\ exec.step = "command" /\ exec.kind = "cleanup"
    /\ \E a \in {"ok", "lost", "late"} :
         /\ Faults(Cost(a))
         /\ box' = IF Arrived(a)
                   THEN [box EXCEPT ![exec.vm] = Removed({NextName})] ELSE box
         /\ exec' = Continue("verify")

(* _check_already_running: a stress container that is up is kept. *)
StressAlreadyRunning ==
    /\ exec.step = "running?"
    /\ \E a \in {"ok", "lost"} :
         /\ Faults(Cost(a))
         /\ exec' = IF Answered(a) /\ Up("stress") THEN Finish(TRUE) ELSE Continue("command")
    /\ UNCHANGED box

(* A router is looked at once, a stress container until the attempts end.  *)
Check ==
    /\ exec.step = "check"
    /\ \E a \in {"ok", "lost"} :
         /\ Faults(Cost(a))
         /\ exec' = IF Answered(a) /\ Up(exec.kind) THEN Finish(TRUE)
                    ELSE IF exec.kind = "router" \/ exec.left = 1 THEN Finish(FALSE)
                    ELSE [exec EXCEPT !.left = @ - 1]
    /\ UNCHANGED box

(* Mutant of AwaitSender: the deadline counts as completion. *)
AwaitUntilTimeout ==
    /\ exec.step = "await"
    /\ \E running, all \in {"ok", "lost"} :
         LET seenUp == Answered(running) /\ Up("sender")
             seenBroken == Answered(all) /\ box[exec.vm]["sender"] = "broken"
             next == IF ~seenUp THEN Finish(~seenBroken)
                     ELSE IF exec.left = 1 THEN Finish(TRUE)
                     ELSE [exec EXCEPT !.left = @ - 1]
         IN  /\ Faults(Cost(running) + Cost(all))
             /\ exec' = Disturb(Disturb(next, running), all)
    /\ UNCHANGED box

(* _wait_sender_completion: docker ps, then docker ps -a.  A sender that   *)
(* is not seen running counts as completed unless it is seen to have       *)
(* failed.                                                                 *)
AwaitSender ==
    /\ exec.step = "await"
    /\ \E running, all \in {"ok", "lost"} :
         LET seenUp == Answered(running) /\ Up("sender")
             seenBroken == Answered(all) /\ box[exec.vm]["sender"] = "broken"
             next == IF ~seenUp THEN Finish(~seenBroken)
                     ELSE IF exec.left = 1 THEN Finish(FALSE)
                     ELSE [exec EXCEPT !.left = @ - 1]
         IN  /\ Faults(Cost(running) + Cost(all))
             /\ exec' = Disturb(Disturb(next, running), all)
    /\ UNCHANGED box

(* get_container_status: a container whose status commands are not         *)
(* answered does not exist.                                                *)
Seen(c, blind) == Has(c) /\ c \notin blind

VerifyProbe ==
    /\ exec.step = "verify" /\ CleansProbe(exec.kind)
    /\ \E blind \in SUBSET exec.names :
         LET remaining == {c \in exec.names : Seen(c, blind)}
             next == IF remaining = {} THEN Finish(exec.removed)
                     ELSE IF exec.left = 1 THEN Finish(FALSE)
                     ELSE [exec EXCEPT !.left = @ - 1]
         IN  /\ Faults(Cardinality(blind))
             /\ exec' = [next EXCEPT !.disturbed = @ \/ blind # {}]
    /\ UNCHANGED box

VerifyCleanup ==
    /\ exec.step = "verify" /\ exec.kind = "cleanup"
    /\ \E blind \in BOOLEAN :
         LET rest == [exec EXCEPT !.todo = @ \ {NextName}, !.left = MaxPolls]
             seen == Has(NextName) /\ ~blind
             next == IF seen /\ exec.left > 1 THEN [exec EXCEPT !.left = @ - 1]
                     ELSE [rest EXCEPT !.ok = @ /\ ~seen,
                                       !.step = IF rest.todo = {} THEN "done" ELSE "command"]
         IN  /\ Faults(IF blind THEN 1 ELSE 0)
             /\ exec' = [next EXCEPT !.disturbed = @ \/ blind]
    /\ UNCHANGED box

ExecStep ==
    \/ Command
    \/ CleanupCommand
    \/ StressAlreadyRunning
    \/ Check
    \/ AwaitSender
    \/ VerifyProbe
    \/ VerifyCleanup

---------------------------------------------------------------------------
(* The containers: a sender ends by itself, any container may crash.       *)

SenderEnds ==
    /\ \E v \in Vms : /\ box[v]["sender"] = "up"
                      /\ box' = [box EXCEPT ![v]["sender"] = "done"]
    /\ UNCHANGED <<exec, faults>>

Crash ==
    /\ \E v \in Vms, c \in Containers : /\ box[v][c] = "up"
                                        /\ box' = [box EXCEPT ![v][c] = "broken"]
    /\ Faults(1)
    /\ exec' = [exec EXCEPT !.disturbed = @ \/ exec.step # "idle"]

---------------------------------------------------------------------------
(* What a successful executor has told its caller.  The presets that only  *)
(* remove a router or a stress container do not look whether it is gone,   *)
(* and promise nothing.                                                    *)
ToldTheTruth ==
    CASE exec.kind = "router" -> box[exec.vm]["router"] = "up"
      [] exec.kind = "responder" -> box[exec.vm]["responder"] = "up"
      [] exec.kind = "stress" -> box[exec.vm]["stress"] = "up"
      [] exec.kind = "sender" -> box[exec.vm]["sender"] = "done"
      [] CleansProbe(exec.kind) \/ exec.kind = "cleanup" -> \A c \in exec.names : box[exec.vm][c] = "absent"
      [] OTHER -> TRUE
=============================================================================
