-------------------------- MODULE MCProcessRunner --------------------------
(* ProcessRunner has finite instances as it stands. *)
EXTENDS ProcessRunner
=============================================================================
