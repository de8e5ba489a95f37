---------------------------- MODULE MCExecution ----------------------------
(* TLC instance of Execution. *)
EXTENDS Execution
============================================================================
