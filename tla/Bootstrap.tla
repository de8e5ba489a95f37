------------------------------ MODULE Bootstrap ------------------------------
(***************************************************************************)
(* `philharmonic-api bootstrap` (philharmonic-api-server/src/main.rs): the *)
(* first tenant and its administrator, written to the substrate one row at *)
(* a time and without a transaction.  Runs fail, are killed, are repeated, *)
(* and two operators may run it at once.                                   *)
(* The substrate store is external: entities are minted fresh, contents    *)
(* are addressed by their digest, and a first revision makes an entity     *)
(* visible to the policy layer.                                            *)
(***************************************************************************)
EXTENDS Naturals, Sequences, FiniteSets

CONSTANTS Runs   \* the invocations of the command

VARIABLES pc,          \* the next step of each invocation, or how it ended
          entities,    \* the entity table: <<kind, run that minted it>>
          contents,    \* the content store
          revisions,   \* first revisions: an entity's contents and references
          printed,     \* invocations that printed their token
          overlapped   \* history: two invocations were under way at once

store == <<entities, contents, revisions>>
vars == <<pc, store, printed, overlapped>>

Kinds == {"tenant", "principal", "role", "membership"}
Ended == {"not started", "done", "refused", "failed"}
UnderWay == {r \in Runs : pc[r] \notin Ended}

\* The contents an entity's revision names.  The token's hash is of one run, the others
\* are the same bytes, so the same digest, in every run.
ContentsOf(kind, r) ==
    CASE kind = "tenant" -> {<<"display_name">>, <<"settings">>}
      [] kind = "principal" -> {<<"credential_hash", r>>, <<"Bootstrap Operator">>}
      [] kind = "role" -> {<<"Bootstrap Admin">>, <<"ALL_ATOMS">>}
      [] OTHER -> {}

\* The entities it refers to, each pinned to revision 0.
RefersTo(kind) ==
    CASE kind = "tenant" -> {}
      [] kind = "membership" -> {"tenant", "principal", "role"}
      [] OTHER -> {"tenant"}

----------------------------------------------------------------------------
Go(r, from, to) == pc[r] = from /\ pc' = [pc EXCEPT ![r] = to] /\ UNCHANGED <<printed, overlapped>>

\* Paths, configuration, subdomain name, connection and schema migration: nothing of the
\* deployment's data is touched, and each may fail.
Start(r) ==
    /\ pc[r] = "not started"
    /\ pc' = [pc EXCEPT ![r] = "count"]
    /\ overlapped' = (overlapped \/ UnderWay # {})
    /\ UNCHANGED <<store, printed>>

CountPrincipals == Cardinality({e \in entities : e[1] = "principal"})

\* Mutant: a database with one principal is taken for a new one.
CountOffByOne(r) ==
    Go(r, "count", IF CountPrincipals > 1 THEN "refused" ELSE "create tenant") /\ UNCHANGED store

Count(r) ==
    Go(r, "count", IF CountPrincipals > 0 THEN "refused" ELSE "create tenant") /\ UNCHANGED store

Create(r, kind, from, to) ==
    /\ Go(r, from, to)
    /\ entities' = entities \cup {<<kind, r>>}
    /\ UNCHANGED <<contents, revisions>>

Put(r, kind, from, to) ==
    /\ Go(r, from, to)
    /\ contents' = contents \cup ContentsOf(kind, r)
    /\ UNCHANGED <<entities, revisions>>

AppendRevision(r, kind, from, to) ==
    /\ Go(r, from, to)
    /\ revisions' = revisions \cup {[kind |-> kind, by |-> r, names |-> ContentsOf(kind, r),
                                     refs |-> {<<k, r>> : k \in RefersTo(kind)}]}
    /\ UNCHANGED <<entities, contents>>

CreateTenant(r) == Create(r, "tenant", "create tenant", "put tenant")
PutTenant(r) == Put(r, "tenant", "put tenant", "append tenant")
AppendTenant(r) == AppendRevision(r, "tenant", "append tenant", "create principal")

CreatePrincipal(r) == Create(r, "principal", "create principal", "put principal")
PutPrincipal(r) == Put(r, "principal", "put principal", "append principal")
AppendPrincipal(r) == AppendRevision(r, "principal", "append principal", "create role")

CreateRole(r) == Create(r, "role", "create role", "put role")
PutRole(r) == Put(r, "role", "put role", "append role")
AppendRole(r) == AppendRevision(r, "role", "append role", "create membership")

CreateMembership(r) == Create(r, "membership", "create membership", "append membership")
AppendMembership(r) == AppendRevision(r, "membership", "append membership", "print")

PrintToken(r) ==
    /\ pc[r] = "print"
    /\ pc' = [pc EXCEPT ![r] = "done"]
    /\ printed' = printed \cup {r}
    /\ UNCHANGED <<store, overlapped>>

\* An error of any step ends the run with what it has written, and so does a kill.
Fail(r) ==
    /\ pc[r] \notin Ended
    /\ pc' = [pc EXCEPT ![r] = "failed"]
    /\ UNCHANGED <<store, printed, overlapped>>

----------------------------------------------------------------------------
Init ==
    /\ pc = [r \in Runs |-> "not started"]
    /\ entities = {} /\ contents = {} /\ revisions = {}
    /\ printed = {}
    /\ overlapped = FALSE

Next ==
    \E r \in Runs :
        \/ Start(r) \/ Count(r)
        \/ CreateTenant(r) \/ PutTenant(r) \/ AppendTenant(r)
        \/ CreatePrincipal(r) \/ PutPrincipal(r) \/ AppendPrincipal(r)
        \/ CreateRole(r) \/ PutRole(r) \/ AppendRole(r)
        \/ CreateMembership(r) \/ AppendMembership(r)
        \/ PrintToken(r) \/ Fail(r)

Spec == Init /\ [][Next]_vars

----------------------------------------------------------------------------
\* What the policy layer needs to let a run's token administer its tenant: every first
\* revision, with its contents stored and its references minted.
Administrator(r) ==
    \A kind \in Kinds :
        \E rev \in revisions :
            /\ rev.kind = kind /\ rev.by = r
            /\ rev.names \subseteq contents
            /\ rev.refs \subseteq entities

\* The refusal of main.rs:152-157 does what it is for: however often bootstrap failed and
\* was repeated, one run at a time leaves at most one administrator, and a token that was
\* printed is that administrator's.
OneAdministrator ==
    /\ ~overlapped => Cardinality({r \in Runs : Administrator(r)}) <= 1
    /\ \A r \in printed : Administrator(r)
=============================================================================
