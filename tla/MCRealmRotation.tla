-------------------------- MODULE MCRealmRotation --------------------------
(* TLC instances of RealmRotation. *)
EXTENDS RealmRotation
=============================================================================
