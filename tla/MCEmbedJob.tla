----------------------------- MODULE MCEmbedJob -----------------------------
(* TLC instances of EmbedJob. *)
EXTENDS EmbedJob
=============================================================================
