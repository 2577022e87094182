---------------------------- MODULE ProbeSession ----------------------------
(***************************************************************************)
(* Online latency probing: the handler that creates and dispatches a       *)
(* session, the stop handler, and execute_probe_session, the Celery task   *)
(* that measures the windows of one session one after the other.           *)
(*                                                                         *)
(* Handlers and tasks share the database.  Status changes are conditional  *)
(* updates (one statement each); between them a task holds nothing but its *)
(* session id, the sequence number and the outcome it is about to save.    *)
(***************************************************************************)
EXTENDS Integers, FiniteSets

CONSTANTS
  Clients,       \* Hub threads that create sessions
  Workers,       \* Celery worker slots
  MaxSessions,   \* bound: primary keys available to ProbeSession rows
  Pairs,         \* directed pairs of inventory VMs of the owner
  WindowCount,   \* window_count of every session
  Polls,         \* interval_sec of every session: status polls between windows
  MaxCopies,     \* bound: copies of one task message in the broker
  Faults         \* the faults the environment may show in this instance

FaultKinds == {"crash", "redeliver", "refuse", "lateRefuse", "softLimit", "archive"}

ASSUME ProbeActors == Clients \cap Workers = {}
ASSUME ProbeBounds ==
  /\ MaxSessions \in Nat /\ MaxCopies \in Nat
  /\ WindowCount \in Nat \ {0} /\ Polls \in Nat \ {0}
ASSUME ProbeFaults == Faults \subseteq FaultKinds

Sessions == 1..MaxSessions
NoSession == 0
Windows == 1..WindowCount

Active == {"PENDING", "RUNNING"}
Terminal == {"SUCCEEDED", "FAILED", "STOPPED"}
Status == {"ABSENT"} \cup Active \cup Terminal

VARIABLES
  status,     \* ProbeSession.status by primary key
  pair,       \* the pair of VMs of every session
  windows,    \* ProbeWindow rows: outcome by session and sequence
  usable,     \* whether both VMs of a pair are in the owner's inventory
  queue,      \* task messages in the broker: copies per session
  client,     \* what every Hub thread is doing with the session it created
  worker      \* what every worker slot is doing

vars == <<status, pair, windows, usable, queue, client, worker>>

ClientRecords == [pc : {"idle", "dispatch", "giveUp"}, session : Sessions \cup {NoSession}]
NoRequest == [pc |-> "idle", session |-> NoSession]

WorkerPCs == {"idle", "claim", "refetch", "measure", "wait", "fail", "succeed"}
WorkerRecords == [pc : WorkerPCs, session : Sessions \cup {NoSession},
                  seq : 1..WindowCount, polls : 0..Polls]
Idle == [pc |-> "idle", session |-> NoSession, seq |-> 1, polls |-> 0]

Return(w) == worker' = [worker EXCEPT ![w] = Idle]
Goto(w, pc) == worker' = [worker EXCEPT ![w].pc = pc]

\* Mutant of Finish: the status is saved whatever the row holds.
FinishAnyway(s, t) == status' = [status EXCEPT ![s] = t]

\* ProbeSession.finish: only a PENDING or RUNNING session gets the status.
Finish(s, t) ==
  status' = [status EXCEPT ![s] = IF @ \in Active THEN t ELSE @]

-----------------------------------------------------------------------------
(* Handlers *)

IsNext(s) == status[s] = "ABSENT" /\ \A q \in Sessions : q < s => status[q] # "ABSENT"

\* The insert obeys unique_active_probe_pair; a second active session is a 409.
Create(c, s, p) ==
  /\ client[c].pc = "idle"
  /\ IsNext(s)
  /\ usable[p]
  /\ \A q \in Sessions : pair[q] = p => status[q] \notin Active
  /\ status' = [status EXCEPT ![s] = "PENDING"]
  /\ pair' = [pair EXCEPT ![s] = p]
  /\ client' = [client EXCEPT ![c] = [pc |-> "dispatch", session |-> s]]
  /\ UNCHANGED <<windows, usable, queue, worker>>

\* apply_async may fail before the message is sent, and the call or the update
\* of task_id after it was: the session is given up in both cases.
Dispatch(c) ==
  LET s == client[c].session
      fail == client' = [client EXCEPT ![c].pc = "giveUp"]
  IN /\ client[c].pc = "dispatch"
     /\ UNCHANGED <<status, pair, windows, usable, worker>>
     /\ \/ "refuse" \in Faults /\ fail /\ UNCHANGED queue
        \/ /\ queue[s] < MaxCopies
           /\ queue' = [queue EXCEPT ![s] = @ + 1]
           /\ \/ client' = [client EXCEPT ![c] = NoRequest]
              \/ "lateRefuse" \in Faults /\ fail

\* The FAILED of a session whose task may be running by now.
GiveUp(c) ==
  /\ client[c].pc = "giveUp"
  /\ Finish(client[c].session, "FAILED")
  /\ client' = [client EXCEPT ![c] = NoRequest]
  /\ UNCHANGED <<pair, windows, usable, queue, worker>>

Stop(s) ==
  /\ status[s] # "ABSENT"
  /\ Finish(s, "STOPPED")
  /\ UNCHANGED <<pair, windows, usable, queue, client, worker>>

-----------------------------------------------------------------------------
(* execute_probe_session *)

Deliver(w, s) ==
  /\ worker[w].pc = "idle"
  /\ queue[s] > 0
  /\ queue' = [queue EXCEPT ![s] = @ - 1]
  /\ worker' = [worker EXCEPT ![w] = [Idle EXCEPT !.pc = "claim", !.session = s]]
  /\ UNCHANGED <<status, pair, windows, usable, client>>

\* Mutant of Claim: a session that is RUNNING already may be claimed again.
ClaimActive(w) ==
  LET s == worker[w].session
  IN /\ worker[w].pc = "claim"
     /\ UNCHANGED <<pair, windows, usable, queue, client>>
     /\ \/ /\ status[s] \in Active
           /\ status' = [status EXCEPT ![s] = "RUNNING"]
           /\ Goto(w, "refetch")
        \/ status[s] \notin Active /\ Return(w) /\ UNCHANGED status

\* Mutant of Claim: a session that ended before its task began is taken up.
ClaimEnded(w) ==
  LET s == worker[w].session
  IN /\ worker[w].pc = "claim"
     /\ UNCHANGED <<pair, windows, usable, queue, client>>
     /\ \/ /\ status[s] # "RUNNING"
           /\ status' = [status EXCEPT ![s] = "RUNNING"]
           /\ Goto(w, "refetch")
        \/ status[s] = "RUNNING" /\ Return(w) /\ UNCHANGED status

\* Only one delivery turns PENDING into RUNNING.
Claim(w) ==
  LET s == worker[w].session
  IN /\ worker[w].pc = "claim"
     /\ UNCHANGED <<pair, windows, usable, queue, client>>
     /\ \/ /\ status[s] = "PENDING"
           /\ status' = [status EXCEPT ![s] = "RUNNING"]
           /\ Goto(w, "refetch")
        \/ status[s] # "PENDING" /\ Return(w) /\ UNCHANGED status

\* Mutant of Refetch: lost inventory ends the loop but not the session.
RefetchReturns(w) ==
  LET s == worker[w].session
  IN /\ worker[w].pc = "refetch"
     /\ UNCHANGED <<status, pair, windows, usable, queue, client>>
     /\ IF status[s] = "RUNNING" /\ usable[pair[s]] THEN Goto(w, "measure")
                                                  ELSE Return(w)

\* Before each window: the session must still be RUNNING, its VMs usable.
Refetch(w) ==
  LET s == worker[w].session
  IN /\ worker[w].pc = "refetch"
     /\ UNCHANGED <<status, pair, windows, usable, queue, client>>
     /\ \/ status[s] # "RUNNING" /\ Return(w)
        \/ status[s] = "RUNNING" /\ ~usable[pair[s]] /\ Goto(w, "fail")
        \/ status[s] = "RUNNING" /\ usable[pair[s]] /\ Goto(w, "measure")

\* Mutant of Record: the gap also follows the last window.
RecordAndWait(w, outcome) ==
  LET s == worker[w].session
      i == worker[w].seq
  IN /\ worker[w].pc = "measure"
     /\ UNCHANGED <<status, pair, usable, queue, client>>
     /\ \/ /\ windows[s][i] = "none"
           /\ windows' = [windows EXCEPT ![s][i] = outcome]
           /\ worker' = [worker EXCEPT ![w].pc = IF outcome = "error" THEN "fail" ELSE "wait",
                                       ![w].polls = Polls]
        \/ windows[s][i] # "none" /\ Goto(w, "fail") /\ UNCHANGED windows

\* The measurement is made and its window saved, whatever the session has
\* become meanwhile; unique_probe_window refuses a second row.
Record(w, outcome) ==
  LET s == worker[w].session
      i == worker[w].seq
      after == IF outcome = "error" THEN "fail"
               ELSE IF i < WindowCount THEN "wait" ELSE "succeed"
  IN /\ worker[w].pc = "measure"
     /\ UNCHANGED <<status, pair, usable, queue, client>>
     /\ \/ /\ windows[s][i] = "none"
           /\ windows' = [windows EXCEPT ![s][i] = outcome]
           /\ worker' = [worker EXCEPT ![w].pc = after, ![w].polls = Polls]
        \/ windows[s][i] # "none" /\ Goto(w, "fail") /\ UNCHANGED windows

\* One poll per second of the gap between two windows.
Poll(w) ==
  LET s == worker[w].session
  IN /\ worker[w].pc = "wait"
     /\ UNCHANGED <<status, pair, windows, usable, queue, client>>
     /\ \/ /\ worker[w].polls = 0
           /\ worker' = [worker EXCEPT ![w].pc = "refetch", ![w].seq = @ + 1]
        \/ worker[w].polls > 0 /\ status[s] # "RUNNING" /\ Return(w)
        \/ /\ worker[w].polls > 0 /\ status[s] = "RUNNING"
           /\ worker' = [worker EXCEPT ![w].polls = @ - 1]

Conclude(w) ==
  /\ worker[w].pc \in {"fail", "succeed"}
  /\ Finish(worker[w].session,
            IF worker[w].pc = "fail" THEN "FAILED" ELSE "SUCCEEDED")
  /\ Return(w)
  /\ UNCHANGED <<pair, windows, usable, queue, client>>

-----------------------------------------------------------------------------
(* Environment *)

\* Deprovisioning archives a VM of the pair, provisioning brings it back.
ChangeInventory(p) ==
  /\ "archive" \in Faults
  /\ usable' = [usable EXCEPT ![p] = ~@]
  /\ UNCHANGED <<status, pair, windows, queue, client, worker>>

\* The broker puts a message back that still waits in some prefetch buffer.
Redeliver(s) ==
  /\ "redeliver" \in Faults
  /\ queue[s] > 0 /\ queue[s] < MaxCopies
  /\ queue' = [queue EXCEPT ![s] = @ + 1]
  /\ UNCHANGED <<status, pair, windows, usable, client, worker>>

\* soft_time_limit raises inside the loop and is caught like any failure.
SoftLimit(w) ==
  /\ "softLimit" \in Faults
  /\ worker[w].pc \in {"refetch", "measure", "wait", "succeed"}
  /\ Goto(w, "fail")
  /\ UNCHANGED <<status, pair, windows, usable, queue, client>>

\* Hard termination of a worker.
Crash(w) ==
  /\ "crash" \in Faults
  /\ worker[w].pc # "idle"
  /\ Return(w)
  /\ UNCHANGED <<status, pair, windows, usable, queue, client>>

-----------------------------------------------------------------------------
Init ==
  /\ status = [s \in Sessions |-> "ABSENT"]
  /\ pair \in [Sessions -> Pairs]
  /\ windows = [s \in Sessions |-> [i \in Windows |-> "none"]]
  /\ usable = [p \in Pairs |-> TRUE]
  /\ queue = [s \in Sessions |-> 0]
  /\ client = [c \in Clients |-> NoRequest]
  /\ worker = [w \in Workers |-> Idle]

Run(w) ==
  \/ Claim(w) \/ Refetch(w) \/ Poll(w) \/ Conclude(w)
  \/ \E outcome \in {"ok", "error"} : Record(w, outcome)

Next ==
  \/ \E c \in Clients : Dispatch(c) \/ GiveUp(c) \/ \E s \in Sessions, p \in Pairs : Create(c, s, p)
  \/ \E s \in Sessions : Stop(s) \/ Redeliver(s) \/ \E w \in Workers : Deliver(w, s)
  \/ \E w \in Workers : Run(w) \/ SoftLimit(w) \/ Crash(w)
  \/ \E p \in Pairs : ChangeInventory(p)

Spec == Init /\ [][Next]_vars

\* Threads and worker slots are scheduled and the broker serves its list in
\* order; nobody has to stop a session or to create one.
Fairness ==
  /\ \A c \in Clients : WF_vars(Dispatch(c) \/ GiveUp(c))
  /\ \A w \in Workers : WF_vars(Run(w))
  /\ \A s \in Sessions : SF_vars(\E w \in Workers : Deliver(w, s))
FairSpec == Spec /\ Fairness

-----------------------------------------------------------------------------
(* Properties *)

\* Rows, message counts and the records of clients and workers are well formed;
\* no worker counts past the last window.
TypeOK ==
  /\ status \in [Sessions -> Status]
  /\ pair \in [Sessions -> Pairs]
  /\ windows \in [Sessions -> [Windows -> {"none", "ok", "error"}]]
  /\ usable \in [Pairs -> BOOLEAN]
  /\ queue \in [Sessions -> 0..MaxCopies]
  /\ client \in [Clients -> ClientRecords]
  /\ worker \in [Workers -> WorkerRecords]

Loop == {"refetch", "measure", "wait", "fail", "succeed"}
Runs(w, s) == worker[w].session = s /\ worker[w].pc \in Loop

\* However often its task is delivered, and whatever stops and dispatch failures
\* come in between, a session is measured by one loop ("duplicate deliveries
\* cannot start a second loop", tasks.py).
OneLoopPerSession ==
  \A v, w \in Workers, s \in Sessions : Runs(v, s) /\ Runs(w, s) => v = w

\* One active session per owner and directed pair, also when the task of a
\* session that was stopped or given up arrives after its successor was created.
OneActivePerPair ==
  \A q, s \in Sessions :
    q # s /\ pair[q] = pair[s] => ~(status[q] \in Active /\ status[s] \in Active)

\* While no worker dies, every session reaches a terminal status: no error path
\* of dispatch, claim or loop leaves it active, where it would block its pair.
SessionsEnd == \A s \in Sessions : status[s] \in Active ~> status[s] \in Terminal

Measuring == {s \in Sessions : \E w \in Workers :
                worker[w].pc = "measure" /\ worker[w].session = s}

Contract == INSTANCE ProbeContract WITH results <- windows, measuring <- Measuring

\* Handlers, broker, workers and faults together keep the promise that
\* ProbeContract makes to the owner of a session.
KeepsContract == Contract!Spec
=============================================================================
