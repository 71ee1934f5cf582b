----------------------------- MODULE MCStorage -----------------------------
(* StorageTransaction on two runs, two transactions, two units. *)
EXTENDS StorageTransaction
=============================================================================
