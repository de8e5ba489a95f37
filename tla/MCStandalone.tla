---------------------------- MODULE MCStandalone -----------------------------
(* TLC instance of Standalone: the bounds of the parts are in the configuration. *)
(* One endpoint is enough for the bindings of two names, which are lowered one   *)
(* by one: both may be bound to it, and a step is of its tenant or of another.   *)
EXTENDS Standalone

CONSTANTS endpoint, t1, t2

MCOwner == [e \in {endpoint} |-> t1]
=============================================================================
