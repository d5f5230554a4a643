------------------------------ MODULE MCBackup ------------------------------
(* Backup on small instances. *)
EXTENDS Backup
=============================================================================
