------------------------------ MODULE MCReloads ------------------------------
(* TLC instance of Reloads. *)
EXTENDS Reloads

Entry(registry, kid, files) == [registry |-> registry, kid |-> kid, files |-> files]

\* A pair of files behind a minting key, and, in another realm, one kid twice: a
\* combined file and then a pair.
MCConfigs ==
    {[realm_id |-> "home",
      entries |-> <<Entry("minting", "api", <<"mint">>), Entry("realm", "k", <<"kem", "ecdh">>)>>],
     [realm_id |-> "moved",
      entries |-> <<Entry("realm", "k", <<"mint">>), Entry("realm", "k", <<"kem", "ecdh">>)>>]}
=============================================================================
