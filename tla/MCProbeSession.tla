--------------------------- MODULE MCProbeSession ---------------------------
(* Small instances of ProbeSession for TLC. *)
EXTENDS ProbeSession, TLC

Slots == Permutations(Workers)
=============================================================================
