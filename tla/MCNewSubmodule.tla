--------------------------- MODULE MCNewSubmodule ----------------------------
(* TLC instance of NewSubmodule by itself. *)
EXTENDS NewSubmodule
==============================================================================
