----------------------------- MODULE MCInventoryVm -----------------------------
(* A small instance of InventoryVm for TLC: one container, named icopa. *)
EXTENDS InventoryVm

\* A phase that starts the container and cleans it away again.
MCPhases == {<<[kind |-> "stress", container |-> "icopa"], [kind |-> "clean", container |-> "icopa"]>>}
=============================================================================
