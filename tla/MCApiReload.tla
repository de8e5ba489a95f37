----------------------------- MODULE MCApiReload -----------------------------
(* TLC instances of ApiReload. *)
EXTENDS ApiReload
=============================================================================
