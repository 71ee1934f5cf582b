----------------------------- MODULE MCPrimary -----------------------------
(* PrimaryHost on small bounds; the .cfg files give the constants. *)
EXTENDS PrimaryHost
=============================================================================
