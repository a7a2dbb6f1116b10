---------------------------- MODULE MCSyncRunner ----------------------------
(* SyncRunner has finite instances as it stands. *)
EXTENDS SyncRunner
=============================================================================
