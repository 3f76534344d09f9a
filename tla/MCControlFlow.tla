---------------------------- MODULE MCControlFlow ----------------------------
(* ControlFlow for TLC. *)
EXTENDS ControlFlow
=============================================================================
