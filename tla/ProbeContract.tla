---------------------------- MODULE ProbeContract ----------------------------
(***************************************************************************)
(* What a latency probe session promises its owner, whatever workers,      *)
(* message deliveries and inventory changes there are behind it:           *)
(*   - its status only moves forward and a terminal status is final;       *)
(*   - one measurement is in flight at a time and each starts while the    *)
(*     session is RUNNING, so that at most one result arrives after a stop;*)
(*   - results are recorded in order, none after a failed one;             *)
(*   - SUCCEEDED means that every window was recorded without an error.    *)
(***************************************************************************)
EXTENDS Integers

CONSTANTS Sessions, WindowCount

Outcomes == {"ok", "error"}
Active == {"PENDING", "RUNNING"}
Terminal == {"SUCCEEDED", "FAILED", "STOPPED"}

VARIABLES
  status,      \* status of every session, ABSENT before it is created
  results,     \* outcome of every window, "none" before it is recorded
  measuring    \* sessions with a measurement in flight

contractVars == <<status, results, measuring>>

Recorded(s) == {i \in 1..WindowCount : results[s][i] # "none"}
Failed(s) == \E i \in 1..WindowCount : results[s][i] = "error"
Complete(s) == \A i \in 1..WindowCount : results[s][i] = "ok"

Create(s) ==
  /\ status[s] = "ABSENT"
  /\ status' = [status EXCEPT ![s] = "PENDING"]
  /\ UNCHANGED <<results, measuring>>

Begin(s) ==
  /\ status[s] = "PENDING"
  /\ status' = [status EXCEPT ![s] = "RUNNING"]
  /\ UNCHANGED <<results, measuring>>

Measure(s) ==
  /\ status[s] = "RUNNING"
  /\ s \notin measuring
  /\ ~Failed(s) /\ ~Complete(s)
  /\ measuring' = measuring \cup {s}
  /\ UNCHANGED <<status, results>>

Record(s, i, o) ==
  /\ s \in measuring
  /\ Recorded(s) = 1..(i - 1)
  /\ results' = [results EXCEPT ![s][i] = o]
  /\ measuring' = measuring \ {s}
  /\ UNCHANGED status

\* The measurement in flight is given up without a result.
Abandon(s) ==
  /\ s \in measuring
  /\ measuring' = measuring \ {s}
  /\ UNCHANGED <<status, results>>

End(s, t) ==
  /\ status[s] \in Active
  /\ t = "SUCCEEDED" => status[s] = "RUNNING" /\ s \notin measuring /\ Complete(s)
  /\ status' = [status EXCEPT ![s] = t]
  /\ UNCHANGED <<results, measuring>>

Init ==
  /\ status = [s \in Sessions |-> "ABSENT"]
  /\ results = [s \in Sessions |-> [i \in 1..WindowCount |-> "none"]]
  /\ measuring = {}

Next == \E s \in Sessions :
  \/ Create(s) \/ Begin(s) \/ Measure(s) \/ Abandon(s)
  \/ \E i \in 1..WindowCount, o \in Outcomes : Record(s, i, o)
  \/ \E t \in Terminal : End(s, t)

Spec == Init /\ [][Next]_contractVars
=============================================================================
