--------------------------- MODULE MCProfilingRuns ---------------------------
(* Small instances of ProfilingRuns for TLC. *)
EXTENDS ProfilingRuns, TLC

Processes == Permutations(Handlers) \cup Permutations(Workers)
=============================================================================
