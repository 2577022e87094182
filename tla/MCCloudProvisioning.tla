------------------------ MODULE MCCloudProvisioning ------------------------
(* Small instances of CloudProvisioning for TLC. *)
EXTENDS CloudProvisioning, TLC

\* Worker slots are interchangeable (safety only: symmetry is unsound for liveness).
Slots == Permutations(Workers)
=============================================================================
