------------------------------- MODULE MCChat --------------------------------
(* TLC instance of Chat. *)
EXTENDS Chat
=============================================================================
