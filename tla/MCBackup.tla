------------------------------ MODULE MCBackup ------------------------------
(* BackupHost on small bounds; the .cfg files give the constants. *)
EXTENDS BackupHost
=============================================================================
