---------------------------- MODULE MCExecution ----------------------------
(* Execution for TLC. *)
EXTENDS Execution
=============================================================================
