------------------------- MODULE ProbeSessionProofs -------------------------
(***************************************************************************)
(* What ProbeSession promises for every number of clients, workers,        *)
(* sessions, pairs, windows and message copies, under every fault.         *)
(***************************************************************************)
EXTENDS ProbeSession, TLAPS

USE ProbeActors, ProbeBounds, ProbeFaults

\* What a worker in the loop knows of its session's windows.
Steady(rec) ==
  /\ rec.pc # "idle" => rec.session \in Sessions
  /\ rec.pc = "claim" => rec.seq = 1
  /\ rec.pc \in {"refetch", "measure"} =>
       \A j \in Windows : windows[rec.session][j] = IF j < rec.seq THEN "ok" ELSE "none"
  /\ rec.pc = "wait" =>
       /\ rec.seq < WindowCount
       /\ \A j \in Windows : windows[rec.session][j] = IF j <= rec.seq THEN "ok" ELSE "none"
  /\ rec.pc = "succeed" => \A j \in Windows : windows[rec.session][j] = "ok"

\* A session no task has claimed has no window and no loop.
Unclaimed(s) == status[s] \in {"ABSENT", "PENDING"}
Untouched ==
  \A s \in Sessions : Unclaimed(s) =>
    /\ \A j \in Windows : windows[s][j] = "none"
    /\ \A w \in Workers : ~Runs(w, s)

Requesting == \A c \in Clients : client[c].pc # "idle" => client[c].session \in Sessions

Inv ==
  /\ TypeOK
  /\ Requesting
  /\ \A w \in Workers : Steady(worker[w])
  /\ Untouched
  /\ OneLoopPerSession
  /\ OneActivePerPair

-----------------------------------------------------------------------------
(* Steps that only end sessions, move workers forward or drop them *)

\* No session becomes active, or changes otherwise than from active to terminal.
Settles ==
  \A s \in Sessions :
    status'[s] = status[s] \/ (status[s] \in Active /\ status'[s] \in Terminal)

\* No worker enters the loop or changes its session within it.
NoEntry ==
  \A w \in Workers : worker'[w].pc \in Loop =>
    worker[w].pc \in Loop /\ worker'[w].session = worker[w].session

LEMMA FinishSettles ==
  ASSUME status \in [Sessions -> Status], NEW s, NEW t \in Terminal, Finish(s, t)
  PROVE  status' \in [Sessions -> Status] /\ Settles
BY DEF Finish, Settles, Status, Terminal, Active

LEMMA QuietStep ==
  ASSUME Inv, TypeOK', Requesting', UNCHANGED <<pair, windows>>, Settles, NoEntry,
         \A w \in Workers : Steady(worker'[w])
  PROVE  Inv'
<1>1. \A w \in Workers : Steady(worker[w])'
  BY DEF Steady
<1>2. Untouched'
  <2> SUFFICES ASSUME NEW s \in Sessions, Unclaimed(s)'
               PROVE  /\ \A j \in Windows : windows'[s][j] = "none"
                      /\ \A w \in Workers : ~Runs(w, s)'
    BY DEF Untouched
  <2>1. Unclaimed(s)
    BY DEF Unclaimed, Settles, Terminal
  <2> QED BY <2>1 DEF Inv, Untouched, NoEntry, Runs
<1>3. OneLoopPerSession'
  BY DEF Inv, OneLoopPerSession, NoEntry, Runs
<1>4. OneActivePerPair'
  BY DEF Inv, OneActivePerPair, Settles, Active, Terminal
<1> QED BY <1>1, <1>2, <1>3, <1>4 DEF Inv

LEMMA NoChange ==
  ASSUME Inv, UNCHANGED <<status, worker>>
  PROVE  Settles /\ NoEntry /\ \A w \in Workers : Steady(worker'[w])
BY DEF Inv, Settles, NoEntry

\* One worker goes on with a well-formed record.
LEMMA Moves ==
  ASSUME Inv, NEW w \in Workers, NEW rec \in WorkerRecords,
         worker' = [worker EXCEPT ![w] = rec], Steady(rec),
         rec.pc \in Loop => worker[w].pc \in Loop /\ rec.session = worker[w].session
  PROVE  /\ worker' \in [Workers -> WorkerRecords]
         /\ NoEntry
         /\ \A v \in Workers : Steady(worker'[v])
BY DEF Inv, TypeOK, NoEntry

LEMMA IdleSteady ==
  Idle \in WorkerRecords /\ Steady(Idle) /\ Idle.pc \notin Loop /\ Idle.seq = 1
BY DEF Idle, WorkerRecords, WorkerPCs, Steady, Loop, NoSession

\* A worker keeps its session and window and changes its program counter.
LEMMA GotoMoves ==
  ASSUME Inv, NEW w \in Workers, NEW pc \in WorkerPCs, Goto(w, pc)
  PROVE  /\ [worker[w] EXCEPT !.pc = pc] \in WorkerRecords
         /\ worker' = [worker EXCEPT ![w] = [worker[w] EXCEPT !.pc = pc]]
         /\ [worker[w] EXCEPT !.pc = pc].pc = pc
         /\ [worker[w] EXCEPT !.pc = pc].session = worker[w].session
         /\ [worker[w] EXCEPT !.pc = pc].seq = worker[w].seq
<1>1. worker \in [Workers -> WorkerRecords]
  BY DEF Inv, TypeOK
<1>2. worker[w] \in WorkerRecords
  BY <1>1
<1>3. [worker[w] EXCEPT !.pc = pc] \in WorkerRecords
  BY <1>2 DEF WorkerRecords
<1> QED BY <1>1, <1>2, <1>3 DEF Goto, WorkerRecords

\* A worker that returns, for whatever reason.
LEMMA ReturnMoves ==
  ASSUME Inv, NEW w \in Workers, Return(w)
  PROVE  /\ worker' \in [Workers -> WorkerRecords]
         /\ NoEntry
         /\ \A v \in Workers : Steady(worker'[v])
BY IdleSteady, Moves DEF Return

\* A worker in the loop that goes on to fail.
LEMMA FailMoves ==
  ASSUME Inv, NEW w \in Workers, worker[w].pc \in Loop, Goto(w, "fail")
  PROVE  /\ worker' \in [Workers -> WorkerRecords]
         /\ NoEntry
         /\ \A v \in Workers : Steady(worker'[v])
<1> DEFINE rec == [worker[w] EXCEPT !.pc = "fail"]
<1>1. /\ rec \in WorkerRecords /\ rec.pc = "fail" /\ rec.session = worker[w].session
      /\ worker' = [worker EXCEPT ![w] = rec]
  BY GotoMoves DEF WorkerPCs
<1>2. Steady(rec)
  BY <1>1 DEF Inv, Steady, Loop
<1> QED BY <1>1, <1>2, Moves

\* What an unprimed session sees of a step that leaves queue and client alone.
LEMMA TypeParts ==
  Inv => /\ status \in [Sessions -> Status] /\ pair \in [Sessions -> Pairs]
         /\ windows \in [Sessions -> [Windows -> {"none", "ok", "error"}]]
         /\ queue \in [Sessions -> 0..MaxCopies]
         /\ worker \in [Workers -> WorkerRecords]
         /\ client \in [Clients -> ClientRecords]
         /\ usable \in [Pairs -> BOOLEAN]
BY DEF Inv, TypeOK

\* Steps of one worker that end at most its session.
LEMMA WorkerStep ==
  ASSUME Inv, UNCHANGED <<pair, windows, usable, queue, client>>,
         status' \in [Sessions -> Status], Settles,
         worker' \in [Workers -> WorkerRecords], NoEntry,
         \A v \in Workers : Steady(worker'[v])
  PROVE  Inv'
<1>1. TypeOK' /\ Requesting'
  BY DEF Inv, TypeOK, Requesting
<1> QED BY <1>1, QuietStep

LEMMA StaysSettled ==
  ASSUME Inv, UNCHANGED status
  PROVE  status' \in [Sessions -> Status] /\ Settles
BY TypeParts DEF Settles

-----------------------------------------------------------------------------
(* The invariant is inductive: one lemma per action *)

LEMMA CreateInv ==
  ASSUME Inv, NEW c \in Clients, NEW s \in Sessions, NEW p \in Pairs, Create(c, s, p)
  PROVE  Inv'
<1> USE DEF Create
<1>1. TypeOK' /\ Requesting'
  <2>1. [pc |-> "dispatch", session |-> s] \in ClientRecords
    BY DEF ClientRecords
  <2>2. status' \in [Sessions -> Status] /\ pair' \in [Sessions -> Pairs]
    BY TypeParts DEF Status, Active
  <2>3. client' \in [Clients -> ClientRecords] /\ Requesting'
    BY <2>1, TypeParts DEF Inv, Requesting
  <2> QED BY <2>2, <2>3 DEF Inv, TypeOK
<1>2. \A w \in Workers : Steady(worker[w])'
  BY DEF Inv, Steady
<1>3. status[s] = "ABSENT" /\ \A q \in Sessions : q # s => status'[q] = status[q]
  BY TypeParts DEF IsNext
<1>4. Untouched'
  BY <1>3 DEF Inv, Untouched, Unclaimed, Runs
<1>5. OneLoopPerSession'
  BY DEF Inv, OneLoopPerSession, Runs
<1>6. OneActivePerPair'
  BY <1>3, TypeParts DEF Inv, OneActivePerPair
<1> QED BY <1>1, <1>2, <1>4, <1>5, <1>6 DEF Inv

LEMMA ClientInv ==
  ASSUME Inv, NEW c \in Clients, Dispatch(c) \/ GiveUp(c)
  PROVE  Inv'
<1>1. client[c] \in ClientRecords /\ client[c].session \in Sessions
  BY TypeParts DEF Inv, Requesting, Dispatch, GiveUp
<1>2. CASE Dispatch(c)
  <2>1. UNCHANGED <<status, pair, windows, usable, worker>>
    BY <1>2 DEF Dispatch
  <2>2. queue' \in [Sessions -> 0..MaxCopies]
    BY <1>1, <1>2, TypeParts DEF Dispatch
  <2>3. NoRequest \in ClientRecords /\ NoRequest.pc = "idle"
        /\ [client[c] EXCEPT !.pc = "giveUp"] \in ClientRecords
        /\ [client[c] EXCEPT !.pc = "giveUp"].session = client[c].session
    BY <1>1 DEF NoRequest, ClientRecords, NoSession
  <2>4. client' \in [Clients -> ClientRecords] /\ Requesting'
    <3>1. PICK rec \in ClientRecords :
            /\ client' = [client EXCEPT ![c] = rec]
            /\ rec.pc # "idle" => rec.session \in Sessions
      <4>1. CASE client' = [client EXCEPT ![c] = NoRequest]
        BY <2>3, <4>1
      <4>2. CASE client' = [client EXCEPT ![c].pc = "giveUp"]
        BY <1>1, <2>3, <4>2
      <4> QED BY <1>2, <4>1, <4>2 DEF Dispatch
    <3> QED BY <3>1, TypeParts DEF Inv, Requesting
  <2>5. TypeOK'
    BY <2>1, <2>2, <2>4 DEF Inv, TypeOK
  <2> QED BY <2>1, <2>4, <2>5, NoChange, QuietStep
<1>3. CASE GiveUp(c)
  <2>1. UNCHANGED <<pair, windows, usable, queue, worker>>
    BY <1>3 DEF GiveUp
  <2>2. status' \in [Sessions -> Status] /\ Settles
    BY <1>3, TypeParts, FinishSettles DEF GiveUp, Terminal
  <2>3. NoRequest \in ClientRecords /\ NoRequest.pc = "idle"
    BY DEF NoRequest, ClientRecords, NoSession
  <2>4. client' \in [Clients -> ClientRecords] /\ Requesting'
    BY <1>3, <2>3, TypeParts DEF GiveUp, Inv, Requesting
  <2>5. TypeOK'
    BY <2>1, <2>2, <2>4 DEF Inv, TypeOK
  <2>6. NoEntry /\ \A w \in Workers : Steady(worker'[w])
    BY <2>1 DEF Inv, NoEntry
  <2> QED BY <2>1, <2>2, <2>4, <2>5, <2>6, QuietStep
<1> QED BY <1>2, <1>3

LEMMA StopInv ==
  ASSUME Inv, NEW s \in Sessions, Stop(s)
  PROVE  Inv'
<1>1. status' \in [Sessions -> Status] /\ Settles
  BY TypeParts, FinishSettles DEF Stop, Terminal
<1>2. worker' \in [Workers -> WorkerRecords] /\ NoEntry
      /\ \A w \in Workers : Steady(worker'[w])
  BY TypeParts DEF Stop, Inv, NoEntry
<1> QED BY <1>1, <1>2, WorkerStep DEF Stop

LEMMA DeliverInv ==
  ASSUME Inv, NEW w \in Workers, NEW s \in Sessions, Deliver(w, s)
  PROVE  Inv'
<1> DEFINE rec == [Idle EXCEPT !.pc = "claim", !.session = s]
<1>1. rec \in WorkerRecords /\ rec.pc = "claim" /\ rec.session = s /\ rec.seq = 1
  BY IdleSteady DEF WorkerRecords, WorkerPCs
<1>2. Steady(rec) /\ rec.pc \notin Loop
  BY <1>1 DEF Steady, Loop
<1>3. /\ worker' \in [Workers -> WorkerRecords] /\ NoEntry
      /\ \A v \in Workers : Steady(worker'[v])
  BY <1>1, <1>2, Moves DEF Deliver
<1>4. queue' \in [Sessions -> 0..MaxCopies]
  BY TypeParts DEF Deliver
<1>5. TypeOK' /\ Requesting'
  BY <1>3, <1>4 DEF Deliver, Inv, TypeOK, Requesting
<1>6. Settles
  BY DEF Deliver, Settles
<1> QED BY <1>3, <1>5, <1>6, QuietStep DEF Deliver

\* The one step that enters the loop.
LEMMA ClaimInv ==
  ASSUME Inv, NEW w \in Workers, Claim(w)
  PROVE  Inv'
<1> DEFINE s == worker[w].session
<1>1. s \in Sessions /\ worker[w] \in WorkerRecords
  BY TypeParts DEF Claim, Inv, Steady
<1>2. CASE status[s] # "PENDING"
  BY <1>2, ReturnMoves, StaysSettled, WorkerStep DEF Claim
<1>3. CASE status[s] = "PENDING"
  <2> DEFINE rec == [worker[w] EXCEPT !.pc = "refetch"]
  <2>1. /\ UNCHANGED <<pair, windows, usable, queue, client>>
        /\ status' = [status EXCEPT ![s] = "RUNNING"]
        /\ Goto(w, "refetch")
    BY <1>3 DEF Claim
  <2>2. /\ rec \in WorkerRecords /\ rec.pc = "refetch" /\ rec.session = s
        /\ rec.seq = worker[w].seq /\ worker' = [worker EXCEPT ![w] = rec]
    BY <2>1, GotoMoves DEF WorkerPCs
  <2>3. rec.seq = 1
    BY <1>1, <2>2 DEF Claim, Inv, Steady
  <2> HIDE DEF rec
  <2>4. TypeOK' /\ Requesting'
    BY <2>1, <2>2, TypeParts DEF Inv, TypeOK, Requesting, Status, Active
  <2>5. Steady(rec)
    BY <1>1, <1>3, <2>2, <2>3 DEF Inv, Untouched, Unclaimed, Steady, Windows
  <2>6. \A v \in Workers : Steady(worker[v])'
    BY <2>1, <2>2, <2>5, TypeParts DEF Inv, Steady
  <2>7. \A v \in Workers : ~Runs(v, s)
    BY <1>1, <1>3 DEF Inv, Untouched, Unclaimed
  <2>8. \A v \in Workers, q \in Sessions :
          Runs(v, q)' => (v = w /\ q = s) \/ (v # w /\ Runs(v, q))
    BY <2>2, TypeParts DEF Runs
  <2>9. OneLoopPerSession'
    BY <2>7, <2>8 DEF Inv, OneLoopPerSession
  <2>10. Untouched'
    BY <1>1, <2>1, <2>8, TypeParts DEF Inv, Untouched, Unclaimed
  <2>11. OneActivePerPair'
    BY <1>1, <1>3, <2>1, TypeParts DEF Inv, OneActivePerPair, Active
  <2> QED BY <2>4, <2>6, <2>9, <2>10, <2>11 DEF Inv
<1> QED BY <1>2, <1>3

LEMMA RefetchInv ==
  ASSUME Inv, NEW w \in Workers, Refetch(w)
  PROVE  Inv'
<1>1. worker[w].pc = "refetch" /\ worker[w].pc \in Loop
      /\ UNCHANGED <<status, pair, windows, usable, queue, client>>
  BY DEF Refetch, Loop
<1>2. CASE Return(w)
  BY <1>1, <1>2, ReturnMoves, StaysSettled, WorkerStep
<1>3. CASE Goto(w, "fail")
  BY <1>1, <1>3, FailMoves, StaysSettled, WorkerStep
<1>4. CASE Goto(w, "measure")
  <2> DEFINE rec == [worker[w] EXCEPT !.pc = "measure"]
  <2>1. /\ rec \in WorkerRecords /\ rec.pc = "measure" /\ rec.session = worker[w].session
        /\ rec.seq = worker[w].seq /\ worker' = [worker EXCEPT ![w] = rec]
    BY <1>4, GotoMoves DEF WorkerPCs
  <2> HIDE DEF rec
  <2>2. Steady(rec)
    BY <1>1, <2>1 DEF Inv, Steady
  <2>3. /\ worker' \in [Workers -> WorkerRecords] /\ NoEntry
        /\ \A v \in Workers : Steady(worker'[v])
    BY <1>1, <2>1, <2>2, Moves
  <2> QED BY <1>1, <2>3, StaysSettled, WorkerStep
<1> QED BY <1>2, <1>3, <1>4 DEF Refetch

\* A window is written, by the only worker in the loop of its session.
LEMMA RecordInv ==
  ASSUME Inv, NEW w \in Workers, NEW outcome \in {"ok", "error"}, Record(w, outcome)
  PROVE  Inv'
<1> DEFINE s == worker[w].session
           i == worker[w].seq
<1>1. /\ worker[w].pc = "measure" /\ worker[w] \in WorkerRecords
      /\ s \in Sessions /\ i \in Windows /\ i \in Nat
      /\ Runs(w, s)
  BY TypeParts DEF Record, Inv, Steady, WorkerRecords, Windows, Runs, Loop
<1>2. \A j \in Windows : windows[s][j] = IF j < i THEN "ok" ELSE "none"
  BY <1>1 DEF Inv, Steady
<1>3. PICK rec \in WorkerRecords :
        /\ windows' = [windows EXCEPT ![s][i] = outcome]
        /\ worker' = [worker EXCEPT ![w] = rec]
        /\ rec.session = s /\ rec.seq = i
        /\ rec.pc = IF outcome = "error" THEN "fail"
                    ELSE IF i < WindowCount THEN "wait" ELSE "succeed"
  <2> DEFINE pc == IF outcome = "error" THEN "fail"
                   ELSE IF i < WindowCount THEN "wait" ELSE "succeed"
             rec == [worker[w] EXCEPT !.pc = pc, !.polls = Polls]
  <2>1. windows[s][i] = "none"
    BY <1>1, <1>2
  <2>2. /\ windows' = [windows EXCEPT ![s][i] = outcome]
        /\ worker' = [worker EXCEPT ![w].pc = pc, ![w].polls = Polls]
    BY <2>1 DEF Record
  <2>3. pc \in WorkerPCs
    BY DEF WorkerPCs
  <2>4. worker' = [worker EXCEPT ![w] = rec]
    BY <2>2, TypeParts
  <2> HIDE DEF pc
  <2>5. rec \in WorkerRecords /\ rec.session = s /\ rec.seq = i /\ rec.pc = pc
    <3>1. worker[w] \in WorkerRecords /\ Polls \in 0..Polls
      BY <1>1
    <3>2. [worker[w] EXCEPT !.pc = pc, !.polls = Polls] \in WorkerRecords
      BY <2>3, <3>1 DEF WorkerRecords
    <3> QED BY <3>1, <3>2 DEF WorkerRecords
  <2> QED BY <2>2, <2>4, <2>5 DEF pc
<1>4. UNCHANGED <<status, pair, usable, queue, client>>
  BY DEF Record
<1>5. windows' \in [Sessions -> [Windows -> {"none", "ok", "error"}]]
  BY <1>1, <1>3, TypeParts
<1>6. TypeOK' /\ Requesting'
  BY <1>3, <1>4, <1>5, TypeParts DEF Inv, TypeOK, Requesting
<1>7. /\ \A q \in Sessions : q # s => windows'[q] = windows[q]
      /\ \A j \in Windows : windows'[s][j] = IF j = i THEN outcome ELSE windows[s][j]
  BY <1>1, <1>3, TypeParts
<1>8. \A v \in Workers, q \in Sessions : Runs(v, q)' => Runs(v, q)
  BY <1>1, <1>3, TypeParts DEF Runs, Loop
<1>9. \A v \in Workers : Steady(worker[v])'
  <2> SUFFICES ASSUME NEW v \in Workers PROVE Steady(worker[v])'
    OBVIOUS
  <2>1. CASE v = w
    <3>1. worker'[v] = rec
      BY <1>3, <2>1, TypeParts
    <3>2. rec.pc \in {"fail", "wait", "succeed"} /\ (rec.pc = "wait" => i < WindowCount)
          /\ (rec.pc \in {"wait", "succeed"} => outcome = "ok")
          /\ (rec.pc = "succeed" => i = WindowCount)
      BY <1>1, <1>3 DEF Windows
    <3>3. rec.pc = "wait" =>
            \A j \in Windows : windows'[s][j] = IF j <= i THEN "ok" ELSE "none"
      BY <1>1, <1>2, <1>7, <3>2 DEF Windows
    <3>4. rec.pc = "succeed" => \A j \in Windows : windows'[s][j] = "ok"
      BY <1>1, <1>2, <1>7, <3>2 DEF Windows
    <3> QED BY <1>1, <1>3, <3>1, <3>2, <3>3, <3>4 DEF Steady
  <2>2. CASE v # w
    <3>1. worker'[v] = worker[v]
      BY <1>3, <2>2, TypeParts
    <3>2. worker[v].pc \in Loop => worker[v].session \in Sessions /\ worker[v].session # s
      BY <1>1, <2>2 DEF Inv, OneLoopPerSession, Runs, Steady, Loop
    <3>3. worker[v].pc \in Loop => windows'[worker[v].session] = windows[worker[v].session]
      BY <1>7, <3>2
    <3>4. Steady(worker[v])
      BY DEF Inv
    <3> QED BY <3>1, <3>3, <3>4 DEF Steady, Loop
  <2> QED BY <2>1, <2>2
<1>10. Untouched'
  <2>1. ~Unclaimed(s)
    BY <1>1 DEF Inv, Untouched
  <2> QED BY <1>4, <1>7, <1>8, <2>1 DEF Inv, Untouched, Unclaimed
<1>11. OneLoopPerSession' /\ OneActivePerPair'
  BY <1>4, <1>8 DEF Inv, OneLoopPerSession, OneActivePerPair
<1> QED BY <1>6, <1>9, <1>10, <1>11 DEF Inv

LEMMA PollInv ==
  ASSUME Inv, NEW w \in Workers, Poll(w)
  PROVE  Inv'
<1>1. worker[w].pc = "wait" /\ worker[w].pc \in Loop /\ worker[w] \in WorkerRecords
      /\ UNCHANGED <<status, pair, windows, usable, queue, client>>
  BY TypeParts DEF Poll, Loop
<1>2. CASE Return(w)
  BY <1>1, <1>2, ReturnMoves, StaysSettled, WorkerStep
<1>3. ASSUME NEW rec \in WorkerRecords, worker' = [worker EXCEPT ![w] = rec],
             rec.session = worker[w].session,
             \/ rec.pc = "wait" /\ rec.seq = worker[w].seq
             \/ rec.pc = "refetch" /\ rec.seq = worker[w].seq + 1
      PROVE  Inv'
  <2>1. Steady(rec)
    <3>1. worker[w].seq \in Nat /\ Steady(worker[w])
      BY <1>1 DEF Inv, WorkerRecords
    <3>2. \A j \in Windows : j < worker[w].seq + 1 <=> j <= worker[w].seq
      BY <3>1 DEF Windows
    <3> QED BY <1>1, <1>3, <3>1, <3>2 DEF Steady
  <2>2. /\ worker' \in [Workers -> WorkerRecords] /\ NoEntry
        /\ \A v \in Workers : Steady(worker'[v])
    BY <1>1, <1>3, <2>1, Moves
  <2> QED BY <1>1, <2>2, StaysSettled, WorkerStep
<1>4. CASE worker' = [worker EXCEPT ![w].pc = "refetch", ![w].seq = @ + 1]
  <2> DEFINE rec == [worker[w] EXCEPT !.pc = "refetch", !.seq = @ + 1]
  <2>1. worker[w].seq < WindowCount /\ worker[w].seq \in 1..WindowCount
    BY <1>1 DEF Inv, Steady, WorkerRecords
  <2>2. worker[w].seq + 1 \in 1..WindowCount
    BY <2>1
  <2>3. rec \in WorkerRecords
    BY <1>1, <2>2 DEF WorkerRecords, WorkerPCs
  <2>4. rec.pc = "refetch" /\ rec.session = worker[w].session
        /\ rec.seq = worker[w].seq + 1
    BY <1>1 DEF WorkerRecords
  <2>5. worker' = [worker EXCEPT ![w] = rec]
    BY <1>4, TypeParts
  <2> QED BY <1>3, <2>3, <2>4, <2>5
<1>5. CASE worker[w].polls > 0 /\ worker' = [worker EXCEPT ![w].polls = @ - 1]
  <2> DEFINE rec == [worker[w] EXCEPT !.polls = @ - 1]
  <2>1. worker[w].polls - 1 \in 0..Polls
    BY <1>1, <1>5 DEF WorkerRecords
  <2>2. rec \in WorkerRecords
    BY <1>1, <2>1 DEF WorkerRecords
  <2>3. rec.pc = "wait" /\ rec.session = worker[w].session /\ rec.seq = worker[w].seq
    BY <1>1 DEF WorkerRecords
  <2>4. worker' = [worker EXCEPT ![w] = rec]
    BY <1>5, TypeParts
  <2> QED BY <1>3, <2>2, <2>3, <2>4
<1> QED BY <1>2, <1>4, <1>5 DEF Poll

LEMMA ConcludeInv ==
  ASSUME Inv, NEW w \in Workers, Conclude(w)
  PROVE  Inv'
<1>1. status' \in [Sessions -> Status] /\ Settles
  BY TypeParts, FinishSettles DEF Conclude, Terminal
<1>2. Return(w) /\ UNCHANGED <<pair, windows, usable, queue, client>>
  BY DEF Conclude
<1> QED BY <1>1, <1>2, ReturnMoves, WorkerStep

LEMMA FaultInv ==
  ASSUME Inv,
         \/ \E p \in Pairs : ChangeInventory(p)
         \/ \E s \in Sessions : Redeliver(s)
         \/ \E w \in Workers : SoftLimit(w) \/ Crash(w)
  PROVE  Inv'
<1>1. CASE \E p \in Pairs : ChangeInventory(p)
  <2>1. usable' \in [Pairs -> BOOLEAN] /\ UNCHANGED <<status, pair, windows, queue, client, worker>>
    BY <1>1, TypeParts DEF ChangeInventory
  <2>2. TypeOK' /\ Requesting'
    BY <2>1 DEF Inv, TypeOK, Requesting
  <2> QED BY <2>1, <2>2, NoChange, QuietStep
<1>2. CASE \E s \in Sessions : Redeliver(s)
  <2>1. UNCHANGED <<status, pair, windows, usable, client, worker>>
        /\ queue' \in [Sessions -> 0..MaxCopies]
    BY <1>2, TypeParts DEF Redeliver
  <2>2. TypeOK' /\ Requesting'
    BY <2>1 DEF Inv, TypeOK, Requesting
  <2> QED BY <2>1, <2>2, NoChange, QuietStep
<1>3. ASSUME NEW w \in Workers, SoftLimit(w) PROVE Inv'
  BY <1>3, FailMoves, StaysSettled, WorkerStep DEF SoftLimit, Loop
<1>4. ASSUME NEW w \in Workers, Crash(w) PROVE Inv'
  BY <1>4, ReturnMoves, StaysSettled, WorkerStep DEF Crash
<1> QED BY <1>1, <1>2, <1>3, <1>4

LEMMA InitInv == Init => Inv
<1> SUFFICES ASSUME Init PROVE Inv
  OBVIOUS
<1>1. TypeOK
  BY IdleSteady DEF Init, TypeOK, Status, NoRequest, ClientRecords, NoSession
<1>2. Requesting /\ \A w \in Workers : Steady(worker[w])
  BY IdleSteady DEF Init, Requesting, NoRequest
<1>3. Untouched /\ OneLoopPerSession /\ OneActivePerPair
  BY IdleSteady DEF Init, Untouched, OneLoopPerSession, OneActivePerPair, Runs, Active
<1> QED BY <1>1, <1>2, <1>3 DEF Inv

LEMMA NextInv == Inv /\ [Next]_vars => Inv'
<1> SUFFICES ASSUME Inv, [Next]_vars PROVE Inv'
  OBVIOUS
<1>1. CASE \E c \in Clients, s \in Sessions, p \in Pairs : Create(c, s, p)
  BY <1>1, CreateInv
<1>2. CASE \E c \in Clients : Dispatch(c) \/ GiveUp(c)
  BY <1>2, ClientInv
<1>3. CASE \E s \in Sessions : Stop(s)
  BY <1>3, StopInv
<1>4. CASE \E w \in Workers, s \in Sessions : Deliver(w, s)
  BY <1>4, DeliverInv
<1>5. ASSUME NEW w \in Workers, Run(w) PROVE Inv'
  BY <1>5, ClaimInv, RefetchInv, RecordInv, PollInv, ConcludeInv DEF Run
<1>6. CASE UNCHANGED vars
  BY <1>6 DEF vars, Inv, TypeOK, Requesting, Steady, Untouched, Unclaimed, Runs,
              OneLoopPerSession, OneActivePerPair
<1> QED BY <1>1, <1>2, <1>3, <1>4, <1>5, <1>6, FaultInv DEF Next

LEMMA Invariant == Spec => []Inv
BY InitInv, NextInv, PTL DEF Spec

-----------------------------------------------------------------------------
(* ProbeSession implements ProbeContract *)

ContractUnchanged == UNCHANGED <<status, windows, Measuring>>
ContractStep == Contract!Next \/ ContractUnchanged

\* The sessions being measured stay the same when no worker enters or leaves
\* its measurement.
LEMMA MeasuringKept ==
  ASSUME \A w \in Workers :
           /\ worker'[w].pc = "measure" <=> worker[w].pc = "measure"
           /\ worker[w].pc = "measure" => worker'[w].session = worker[w].session
  PROVE  Measuring' = Measuring
BY DEF Measuring

\* A worker outside a measurement goes on to something else than one.
LEMMA OneKept ==
  ASSUME Inv, NEW w \in Workers, worker[w].pc # "measure", NEW rec,
         rec.pc # "measure", worker' = [worker EXCEPT ![w] = rec]
  PROVE  Measuring' = Measuring
BY MeasuringKept, TypeParts

LEMMA GotoKept ==
  ASSUME Inv, NEW w \in Workers, worker[w].pc # "measure",
         NEW pc \in WorkerPCs, pc # "measure", Goto(w, pc)
  PROVE  Measuring' = Measuring
<1> DEFINE rec == [worker[w] EXCEPT !.pc = pc]
<1>1. worker' = [worker EXCEPT ![w] = rec] /\ rec.pc = pc
  BY GotoMoves
<1> HIDE DEF rec
<1> QED BY <1>1, OneKept

LEMMA ReturnKept ==
  ASSUME Inv, NEW w \in Workers, worker[w].pc # "measure", Return(w)
  PROVE  Measuring' = Measuring
BY OneKept, Idle.pc # "measure" DEF Return, Idle

\* Only one worker measures a session, so when it leaves the session is left.
LEMMA MeasuringLeft ==
  ASSUME Inv, NEW w \in Workers, worker[w].pc = "measure", NEW rec,
         rec.pc # "measure", worker' = [worker EXCEPT ![w] = rec]
  PROVE  /\ worker[w].session \in Sessions /\ worker[w].session \in Measuring
         /\ Measuring' = Measuring \ {worker[w].session}
<1> DEFINE s == worker[w].session
<1>1. s \in Sessions /\ Runs(w, s)
  BY DEF Inv, Steady, Runs, Loop
<1>2. \A v \in Workers : v # w => ~(worker[v].pc = "measure" /\ worker[v].session = s)
  BY <1>1 DEF Inv, OneLoopPerSession, Runs, Loop
<1>3. \A v \in Workers : worker'[v] = IF v = w THEN rec ELSE worker[v]
  BY TypeParts
<1> QED BY <1>1, <1>2, <1>3 DEF Measuring

\* A conditional update ends an active session or changes nothing.
LEMMA FinishContract ==
  ASSUME Inv, NEW s \in Sessions, NEW t \in Terminal, Finish(s, t),
         UNCHANGED windows, Measuring' = Measuring,
         t = "SUCCEEDED" => /\ status[s] = "RUNNING" => s \notin Measuring
                            /\ \A j \in Windows : windows[s][j] = "ok"
                            /\ status[s] # "PENDING"
  PROVE  ContractStep
<1>1. CASE status[s] \in Active
  <2>1. status' = [status EXCEPT ![s] = t]
    BY <1>1, TypeParts DEF Finish
  <2>2. t = "SUCCEEDED" =>
          status[s] = "RUNNING" /\ s \notin Measuring /\ Contract!Complete(s)
    BY <1>1 DEF Active, Contract!Complete, Windows
  <2>3. Contract!End(s, t)
    BY <1>1, <2>1, <2>2 DEF Contract!End, Contract!Active, Active
  <2> QED BY <2>3 DEF ContractStep, Contract!Next, Contract!Terminal, Terminal
<1>2. CASE status[s] \notin Active
  BY <1>2, TypeParts DEF Finish, ContractStep, ContractUnchanged
<1> QED BY <1>1, <1>2

LEMMA HandlerContract ==
  ASSUME Inv,
         \/ \E c \in Clients, s \in Sessions, p \in Pairs : Create(c, s, p)
         \/ \E c \in Clients : Dispatch(c) \/ GiveUp(c)
         \/ \E s \in Sessions : Stop(s)
  PROVE  ContractStep
<1>1. ASSUME NEW c \in Clients, NEW s \in Sessions, NEW p \in Pairs, Create(c, s, p)
      PROVE  ContractStep
  <2>1. Contract!Create(s)
    BY <1>1 DEF Create, IsNext, Contract!Create, Measuring
  <2> QED BY <2>1 DEF ContractStep, Contract!Next
<1>2. ASSUME NEW c \in Clients, Dispatch(c) PROVE ContractStep
  BY <1>2 DEF Dispatch, ContractStep, ContractUnchanged, Measuring
<1>3. ASSUME NEW c \in Clients, GiveUp(c) PROVE ContractStep
  <2>1. client[c].session \in Sessions
    BY <1>3 DEF GiveUp, Inv, Requesting
  <2>2. Measuring' = Measuring /\ Finish(client[c].session, "FAILED") /\ UNCHANGED windows
    BY <1>3 DEF GiveUp, Measuring
  <2> QED BY <2>1, <2>2, FinishContract DEF Terminal
<1>4. ASSUME NEW s \in Sessions, Stop(s) PROVE ContractStep
  <2>1. Measuring' = Measuring /\ Finish(s, "STOPPED") /\ UNCHANGED windows
    BY <1>4 DEF Stop, Measuring
  <2> QED BY <2>1, FinishContract DEF Terminal
<1> QED BY <1>1, <1>2, <1>3, <1>4

LEMMA WorkerContract ==
  ASSUME Inv, NEW w \in Workers, Run(w)
  PROVE  ContractStep
<1> DEFINE s == worker[w].session
           i == worker[w].seq
<1>0. worker[w] \in WorkerRecords /\ (worker[w].pc # "idle" => s \in Sessions)
  BY TypeParts DEF Inv, Steady
<1>1. CASE Claim(w)
  <2>1. CASE status[s] = "PENDING"
    <3>1. worker[w].pc # "measure" /\ Goto(w, "refetch")
      BY <1>1, <2>1 DEF Claim
    <3>2. Measuring' = Measuring
      BY <3>1, GotoKept DEF WorkerPCs
    <3>3. Contract!Begin(s) /\ s \in Sessions
      BY <1>0, <1>1, <2>1, <3>2 DEF Claim, Contract!Begin
    <3> QED BY <3>3 DEF ContractStep, Contract!Next
  <2>2. CASE status[s] # "PENDING"
    BY <1>1, <2>2, ReturnKept DEF Claim, ContractStep, ContractUnchanged
  <2> QED BY <2>1, <2>2
<1>2. CASE Refetch(w)
  <2>1. worker[w].pc = "refetch" /\ UNCHANGED <<status, windows>> /\ s \in Sessions
    BY <1>0, <1>2 DEF Refetch
  <2>2. CASE Return(w)
    BY <2>1, <2>2, ReturnKept DEF ContractStep, ContractUnchanged
  <2>3. CASE Goto(w, "fail")
    BY <2>1, <2>3, GotoKept DEF ContractStep, ContractUnchanged, WorkerPCs
  <2>4. CASE Goto(w, "measure") /\ status[s] = "RUNNING"
    <3>1. s \notin Measuring
      BY <2>1 DEF Measuring, Inv, OneLoopPerSession, Runs, Loop
    <3>2. Measuring' = Measuring \cup {s}
      <4>1. /\ worker'[w].pc = "measure" /\ worker'[w].session = s
            /\ \A v \in Workers : v # w => worker'[v] = worker[v]
        <5> DEFINE rec == [worker[w] EXCEPT !.pc = "measure"]
        <5>1. rec.pc = "measure" /\ rec.session = s /\ worker' = [worker EXCEPT ![w] = rec]
          BY <2>4, GotoMoves DEF WorkerPCs
        <5> HIDE DEF rec
        <5> QED BY <5>1, TypeParts
      <4>2. ASSUME NEW q \in Sessions PROVE q \in Measuring' <=> (q = s \/ q \in Measuring)
        <5>1. ASSUME q \in Measuring' PROVE q = s \/ q \in Measuring
          <6>1. PICK v \in Workers : worker'[v].pc = "measure" /\ worker'[v].session = q
            BY <5>1 DEF Measuring
          <6>2. CASE v = w
            BY <4>1, <6>1, <6>2
          <6>3. CASE v # w
            <7>1. worker[v].pc = "measure" /\ worker[v].session = q
              BY <4>1, <6>1, <6>3
            <7> QED BY <7>1 DEF Measuring
          <6> QED BY <6>2, <6>3
        <5>2. ASSUME q \in Measuring PROVE q \in Measuring'
          <6>1. PICK v \in Workers : worker[v].pc = "measure" /\ worker[v].session = q
            BY <5>2 DEF Measuring
          <6>2. v # w
            BY <2>1, <6>1
          <6>3. worker'[v].pc = "measure" /\ worker'[v].session = q
            BY <4>1, <6>1, <6>2
          <6> QED BY <6>3 DEF Measuring
        <5>3. ASSUME q = s PROVE q \in Measuring'
          BY <4>1, <5>3 DEF Measuring
        <5> QED BY <5>1, <5>2, <5>3
      <4>3. Measuring \subseteq Sessions /\ Measuring' \subseteq Sessions
        BY DEF Measuring
      <4> QED BY <2>1, <4>2, <4>3
    <3>3. \A j \in Windows : windows[s][j] = IF j < i THEN "ok" ELSE "none"
      BY <2>1 DEF Inv, Steady
    <3>4. i \in Windows /\ windows[s][i] = "none"
      BY <1>0, <3>3 DEF WorkerRecords, Windows
    <3>5. ~Contract!Failed(s) /\ ~Contract!Complete(s)
      BY <3>3, <3>4 DEF Contract!Failed, Contract!Complete, Windows
    <3>6. Contract!Measure(s)
      BY <2>1, <2>4, <3>1, <3>2, <3>5 DEF Contract!Measure
    <3> QED BY <2>1, <3>6 DEF ContractStep, Contract!Next
  <2> QED BY <1>2, <2>2, <2>3, <2>4 DEF Refetch
<1>3. ASSUME NEW outcome \in {"ok", "error"}, Record(w, outcome) PROVE ContractStep
  <2>1. worker[w].pc = "measure" /\ s \in Sessions /\ i \in Windows
        /\ \A j \in Windows : windows[s][j] = IF j < i THEN "ok" ELSE "none"
    BY <1>0, <1>3 DEF Record, Inv, Steady, WorkerRecords, Windows
  <2>2. windows[s][i] = "none"
    BY <2>1 DEF Windows
  <2> DEFINE pc == IF outcome = "error" THEN "fail"
                   ELSE IF i < WindowCount THEN "wait" ELSE "succeed"
             rec == [worker[w] EXCEPT !.pc = pc, !.polls = Polls]
  <2>3. worker' = [worker EXCEPT ![w] = rec] /\ UNCHANGED status
        /\ windows' = [windows EXCEPT ![s][i] = outcome]
    BY <1>3, <2>2, TypeParts DEF Record
  <2>4. rec.pc # "measure"
    BY <1>0 DEF WorkerRecords
  <2> HIDE DEF rec
  <2>5. s \in Measuring /\ Measuring' = Measuring \ {s}
    BY <2>1, <2>3, <2>4, MeasuringLeft
  <2>6. Contract!Recorded(s) = 1..(i - 1)
    BY <2>1 DEF Contract!Recorded, Windows
  <2>7. Contract!Record(s, i, outcome)
    BY <2>3, <2>5, <2>6 DEF Contract!Record
  <2> QED BY <2>1, <2>7 DEF ContractStep, Contract!Next, Contract!Outcomes, Windows
<1>4. CASE Poll(w)
  <2>1. worker[w].pc = "wait" /\ UNCHANGED <<status, windows>>
    BY <1>4 DEF Poll
  <2>2. PICK rec : worker' = [worker EXCEPT ![w] = rec] /\ rec.pc # "measure"
    <3>1. CASE Return(w)
      BY <3>1, Idle.pc # "measure" DEF Return, Idle
    <3>2. CASE worker' = [worker EXCEPT ![w].pc = "refetch", ![w].seq = @ + 1]
      <4>1. worker' = [worker EXCEPT ![w] = [worker[w] EXCEPT !.pc = "refetch", !.seq = @ + 1]]
        BY <3>2, TypeParts
      <4>2. [worker[w] EXCEPT !.pc = "refetch", !.seq = @ + 1].pc # "measure"
        BY <1>0 DEF WorkerRecords
      <4> QED BY <4>1, <4>2
    <3>3. CASE worker' = [worker EXCEPT ![w].polls = @ - 1]
      <4>1. worker' = [worker EXCEPT ![w] = [worker[w] EXCEPT !.polls = @ - 1]]
        BY <3>3, TypeParts
      <4>2. [worker[w] EXCEPT !.polls = @ - 1].pc # "measure"
        BY <1>0, <2>1 DEF WorkerRecords
      <4> QED BY <4>1, <4>2
    <3> QED BY <1>4, <3>1, <3>2, <3>3 DEF Poll
  <2> QED BY <2>1, <2>2, OneKept DEF ContractStep, ContractUnchanged
<1>5. CASE Conclude(w)
  <2> DEFINE t == IF worker[w].pc = "fail" THEN "FAILED" ELSE "SUCCEEDED"
  <2>1. worker[w].pc \in {"fail", "succeed"} /\ s \in Sessions /\ t \in Terminal
        /\ Finish(s, t) /\ UNCHANGED windows /\ Return(w) /\ Runs(w, s)
    BY <1>0, <1>5 DEF Conclude, Terminal, Runs, Loop
  <2>2. Measuring' = Measuring
    BY <2>1, ReturnKept
  <2>3. t = "SUCCEEDED" => \A j \in Windows : windows[s][j] = "ok"
    BY <2>1 DEF Inv, Steady
  <2>4. status[s] # "PENDING" /\ (t = "SUCCEEDED" => s \notin Measuring)
    BY <2>1 DEF Inv, Untouched, Unclaimed, Measuring, OneLoopPerSession, Runs, Loop
  <2> HIDE DEF t
  <2> QED BY <2>1, <2>2, <2>3, <2>4, FinishContract
<1> QED BY <1>1, <1>2, <1>3, <1>4, <1>5 DEF Run

\* A measurement that a fault ends is abandoned.
LEMMA Abandoned ==
  ASSUME Inv, NEW w \in Workers, NEW rec, rec.pc # "measure",
         worker' = [worker EXCEPT ![w] = rec], UNCHANGED <<status, windows>>
  PROVE  ContractStep
<1>1. CASE worker[w].pc = "measure"
  <2>1. Contract!Abandon(worker[w].session) /\ worker[w].session \in Sessions
    BY <1>1, MeasuringLeft DEF Contract!Abandon
  <2> QED BY <2>1 DEF ContractStep, Contract!Next
<1>2. CASE worker[w].pc # "measure"
  BY <1>2, OneKept DEF ContractStep, ContractUnchanged
<1> QED BY <1>1, <1>2

LEMMA EnvironmentContract ==
  ASSUME Inv,
         \/ \E w \in Workers, s \in Sessions : Deliver(w, s)
         \/ \E p \in Pairs : ChangeInventory(p)
         \/ \E s \in Sessions : Redeliver(s)
         \/ \E w \in Workers : SoftLimit(w) \/ Crash(w)
  PROVE  ContractStep
<1>1. ASSUME NEW w \in Workers, NEW s \in Sessions, Deliver(w, s) PROVE ContractStep
  <2> DEFINE rec == [Idle EXCEPT !.pc = "claim", !.session = s]
  <2>1. rec.pc = "claim"
    BY IdleSteady DEF WorkerRecords
  <2> QED BY <1>1, <2>1, Abandoned DEF Deliver
<1>2. CASE \/ \E p \in Pairs : ChangeInventory(p)
           \/ \E s \in Sessions : Redeliver(s)
  BY <1>2 DEF ChangeInventory, Redeliver, ContractStep, ContractUnchanged, Measuring
<1>3. ASSUME NEW w \in Workers, SoftLimit(w) PROVE ContractStep
  <2>1. Goto(w, "fail") /\ UNCHANGED <<status, windows>>
    BY <1>3 DEF SoftLimit
  <2> DEFINE rec == [worker[w] EXCEPT !.pc = "fail"]
  <2>2. worker' = [worker EXCEPT ![w] = rec] /\ rec.pc = "fail"
    BY <2>1, GotoMoves DEF WorkerPCs
  <2> HIDE DEF rec
  <2> QED BY <2>1, <2>2, Abandoned
<1>4. ASSUME NEW w \in Workers, Crash(w) PROVE ContractStep
  <2>1. Return(w) /\ UNCHANGED <<status, windows>> /\ Idle.pc # "measure"
    BY <1>4 DEF Crash, Idle
  <2> QED BY <2>1, Abandoned DEF Return
<1> QED BY <1>1, <1>2, <1>3, <1>4

LEMMA NextContract == Inv /\ [Next]_vars => [Contract!Next]_(Contract!contractVars)
<1> SUFFICES ASSUME Inv, [Next]_vars PROVE ContractStep
  BY DEF ContractStep, ContractUnchanged, Contract!contractVars
<1>1. CASE UNCHANGED vars
  BY <1>1 DEF vars, ContractStep, ContractUnchanged, Measuring
<1> QED BY <1>1, HandlerContract, WorkerContract, EnvironmentContract DEF Next

LEMMA InitContract == Init => Contract!Init
<1> SUFFICES ASSUME Init PROVE Contract!Init
  OBVIOUS
<1>1. Measuring = {}
  BY DEF Init, Measuring, Idle
<1> QED BY <1>1 DEF Init, Contract!Init, Windows

-----------------------------------------------------------------------------
(* Theorems *)

\* Rows, messages and records stay well formed; no worker counts past the last
\* window of its session (models.py, tasks.py).
THEOREM ProbeTypeCorrect == Spec => []TypeOK
<1>1. Inv => TypeOK
  BY DEF Inv
<1> QED BY <1>1, Invariant, PTL

\* However often execute_probe_session is delivered, one loop measures a session.
THEOREM OneLoop == Spec => []OneLoopPerSession
<1>1. Inv => OneLoopPerSession
  BY DEF Inv
<1> QED BY <1>1, Invariant, PTL

\* A directed pair has one active session, whatever late tasks find
\* (unique_active_probe_pair is never violated by an update).
THEOREM OneActive == Spec => []OneActivePerPair
<1>1. Inv => OneActivePerPair
  BY DEF Inv
<1> QED BY <1>1, Invariant, PTL

\* Handlers, broker and workers implement the promise of ProbeContract: statuses
\* only move forward, windows come in order, none starts after a stop, and
\* SUCCEEDED means that every window was recorded without an error.
THEOREM ImplementsContract == Spec => KeepsContract
BY InitContract, NextContract, Invariant, PTL DEF Spec, KeepsContract, Contract!Spec

=============================================================================
