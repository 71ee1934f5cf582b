----------------------------- MODULE MCInstall -----------------------------
(* InstallTransaction on two runs, two transactions, three files. *)
EXTENDS InstallTransaction

MCPreexisting == {1}
=============================================================================
