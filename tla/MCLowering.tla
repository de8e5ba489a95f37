----------------------------- MODULE MCLowering -----------------------------
(* TLC instances of Lowering. *)
EXTENDS Lowering

CONSTANTS own, foreign, t1, t2

MCOwner == [e \in {own, foreign} |-> IF e = own THEN t1 ELSE t2]
=============================================================================
