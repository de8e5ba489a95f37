------------------------------ MODULE Lowering ------------------------------
(***************************************************************************)
(* From an abstract configuration to an executed connector call.  The API  *)
(* server lowers the bindings of a step one by one (lowerer.rs): it reads  *)
(* the endpoint's latest revision, opens its stored configuration and      *)
(* seals it into a payload for the realm its lowerer picked.  A script     *)
(* then calls the lowered endpoints through the server's dispatch table    *)
(* (dispatch_dynamic), and the connector service verifies and executes     *)
(* them (handle_connector_request_inner).  Tenants rotate and retire their *)
(* endpoints meanwhile and both processes may be reconfigured.             *)
(* Keys and expiry are in RealmRotation; here a payload sealed for a realm *)
(* is one that only a connector of that realm accepts.                     *)
(***************************************************************************)
EXTENDS Naturals, Sequences, FiniteSets

CONSTANTS Tasks,       \* step executions
          Names,       \* names of bindings
          Endpoints,   \* TenantEndpointConfig entities
          NoEndpoint,  \* a UUID no endpoint config has
          Tenants,
          Owner,       \* the tenant each endpoint was stored for
          Realms,
          Services,    \* connector processes
          NoService,   \* where a call is that was not forwarded
          Impls,       \* implementation names a revision may state
          Registered,  \* those the connector binary has
          MaxRevision  \* bound: revisions of all endpoints

ASSUME LoweringAssumption ==
    /\ NoEndpoint \notin Endpoints
    /\ NoService \notin Services
    /\ Owner \in [Endpoints -> Tenants]
    /\ Registered \subseteq Impls
    /\ MaxRevision \in Nat

VARIABLES endpointLog, \* of each endpoint, oldest first; the index stands for the config
          lowerer,     \* the realm the live lowerer encrypts to
          dispatch,    \* upstreams of each realm in the live table
          realmOf,     \* realm_id of each connector's live RuntimeState
          doing,       \* of each step execution: where it is
          tenant,      \* the subject's tenant
          bindings,    \* its abstract configuration
          realm,       \* the realm of the lowerer it was dispatched with
          latest,      \* the revision read for the binding being lowered
          endpoints,   \* what was lowered so far
          since,       \* newest revision of each endpoint when lowering began
          request,     \* the script's call in flight
          replied      \* and how its last one ended

loweringVars == <<endpointLog, lowerer, dispatch, realmOf, doing, tenant, bindings, realm,
                  latest, endpoints, since, request, replied>>
deployment == <<lowerer, dispatch, realmOf>>
dispatched == <<tenant, bindings, realm, since>>

\* The associated data of a stored configuration.  Its key version is of the same row when
\* it is sealed and when it is opened, and left out.
AssociatedData(who, e) == <<who, e>>

Revisions == [impl : Impls, retired : BOOLEAN, sealedFor : Tenants \X Endpoints]
NoRead == [name |-> "none"]
NoCall == [at |-> NoService]
Nothing == [n \in {} |-> NoRead]

\* The newest revision of an endpoint, 0 while it has none.
Newest(e) == Len(endpointLog[e])

Stored == {r \in Endpoints \X (1 .. MaxRevision) : r[2] <= Newest(r[1])}

----------------------------------------------------------------------------
(* Tenants and the operator *)

\* Creation, rotation and retirement each append a revision, whose configuration is sealed
\* for the endpoint and its tenant.
AppendEndpoint(e, rev) ==
    /\ Cardinality(Stored) < MaxRevision
    /\ rev.sealedFor = AssociatedData(Owner[e], e)
    /\ endpointLog' = [endpointLog EXCEPT ![e] = Append(@, rev)]
    /\ UNCHANGED <<deployment, doing, dispatched, latest, endpoints, request, replied>>

\* A reload builds a lowerer with a realm key map of its own, whose first key can
\* be any of them.
ReloadLowerer ==
    /\ lowerer' \in Realms \ {lowerer}
    /\ UNCHANGED <<endpointLog, dispatch, realmOf, doing, dispatched,
                   latest, endpoints, request, replied>>

ReloadDispatch ==
    /\ dispatch' \in [Realms -> SUBSET Services] \ {dispatch}
    /\ UNCHANGED <<endpointLog, lowerer, realmOf, doing, dispatched,
                   latest, endpoints, request, replied>>

ReloadService(s) ==
    /\ \E r \in Realms \ {realmOf[s]} : realmOf' = [realmOf EXCEPT ![s] = r]
    /\ UNCHANGED <<endpointLog, lowerer, dispatch, doing, dispatched,
                   latest, endpoints, request, replied>>

----------------------------------------------------------------------------
(* ConnectorConfigLowerer::lower *)

BeginLowering(t) ==
    /\ doing[t] = "idle"
    /\ \E who \in Tenants, config \in [Names -> Endpoints \cup {NoEndpoint}] :
          /\ tenant' = [tenant EXCEPT ![t] = who]
          /\ bindings' = [bindings EXCEPT ![t] = config]
    /\ realm' = [realm EXCEPT ![t] = lowerer]
    /\ since' = [since EXCEPT ![t] = [e \in Endpoints |-> Newest(e)]]
    /\ doing' = [doing EXCEPT ![t] = "lowering"]
    /\ UNCHANGED <<endpointLog, deployment, latest, endpoints, request, replied>>

Left(t) == Names \ DOMAIN endpoints[t]

\* resolve_public and get_latest_revision_typed: one read fixes the revision.
ReadLatest(t, n) ==
    /\ doing[t] = "lowering"
    /\ latest[t] = NoRead
    /\ n \in Left(t)
    /\ bindings[t][n] \in Endpoints
    /\ Newest(bindings[t][n]) > 0
    /\ latest' = [latest EXCEPT ![t] = [name |-> n, rev |-> Newest(bindings[t][n])]]
    /\ UNCHANGED <<endpointLog, deployment, doing, dispatched,
                   endpoints, request, replied>>

\* sck_decrypt, with the subject's tenant and the endpoint that the binding named.
Opens(t, e, rev) == endpointLog[e][rev].sealedFor = AssociatedData(tenant[t], e)

\* Mutant: the implementation is looked up again when the payload is built.
ImplementationReread(e, rev) == endpointLog[e][Newest(e)].impl

Implementation(e, rev) == endpointLog[e][rev].impl

\* The rest of the loop body reads what the revision refers to, seals the payload
\* and mints its token.
LowerBinding(t) ==
    LET n == latest[t].name
        e == bindings[t][n]
        rev == latest[t].rev
    IN  /\ doing[t] = "lowering"
        /\ latest[t] # NoRead
        /\ Opens(t, e, rev)
        /\ endpoints' = [endpoints EXCEPT ![t] =
               [m \in DOMAIN endpoints[t] \cup {n} |->
                   IF m = n
                     THEN [endpoint |-> e, config |-> rev, realm |-> realm[t],
                           impl |-> Implementation(e, rev)]
                     ELSE endpoints[t][m]]]
        /\ latest' = [latest EXCEPT ![t] = NoRead]
        /\ UNCHANGED <<endpointLog, deployment, doing, dispatched, request, replied>>

\* An unknown UUID, an endpoint with no revision, a blob that does not open or any
\* error of the store makes the whole lowering fail.
LoweringFails(t) ==
    /\ doing[t] = "lowering"
    /\ doing' = [doing EXCEPT ![t] = "failed"]
    /\ latest' = [latest EXCEPT ![t] = NoRead]
    /\ UNCHANGED <<endpointLog, deployment, dispatched, endpoints, request, replied>>

Lowered(t) == Left(t) = {}

StartScript(t) ==
    /\ doing[t] = "lowering"
    /\ latest[t] = NoRead
    /\ Lowered(t)
    /\ doing' = [doing EXCEPT ![t] = "running"]
    /\ UNCHANGED <<endpointLog, deployment, dispatched, latest, endpoints, request, replied>>

----------------------------------------------------------------------------
(* Calls of the script *)

\* dispatch_dynamic: the table is read once.  A path of a realm it does not list is
\* not found; without a table the path falls through to the web UI.
Forward(t, n) ==
    LET upstreams == dispatch[endpoints[t][n].realm]
        NoTable == \A r \in Realms : dispatch[r] = {}
    IN  /\ doing[t] = "running"
        /\ request[t] = NoCall
        /\ \/ /\ \E s \in upstreams :
                    request' = [request EXCEPT ![t] = [at |-> s, name |-> n, checked |-> FALSE]]
              /\ UNCHANGED replied
           \/ /\ upstreams = {}
              /\ replied' = [replied EXCEPT ![t] = IF NoTable THEN "webui" ELSE "unknown_realm"]
              /\ UNCHANGED request
        /\ UNCHANGED <<endpointLog, deployment, doing, dispatched, latest, endpoints>>

Answer(t, how) ==
    /\ replied' = [replied EXCEPT ![t] = how]
    /\ request' = [request EXCEPT ![t] = NoCall]

\* verify_and_decrypt, under the read lock, which also clones the realm.
Verify(t) ==
    LET s == request[t].at
        sealed == endpoints[t][request[t].name].realm
    IN  /\ request[t] # NoCall
        /\ ~request[t].checked
        /\ IF sealed = realmOf[s]
             THEN /\ request' = [request EXCEPT ![t] =
                         [at |-> s, name |-> @.name, checked |-> TRUE, realm |-> realmOf[s]]]
                  /\ UNCHANGED replied
             ELSE Answer(t, "unauthorized")
        /\ UNCHANGED <<endpointLog, deployment, doing, dispatched, latest, endpoints>>

\* Mutant: the service's realm is read again after the lock was dropped.
ServiceRealmReread(t) == realmOf[request[t].at]

ServiceRealm(t) == request[t].realm

\* The payload's own realm and implementation are checked, and it is executed.
Execute(t) ==
    LET payload == endpoints[t][request[t].name]
    IN  /\ request[t] # NoCall
        /\ request[t].checked
        /\ Answer(t, IF payload.realm # ServiceRealm(t) THEN "wrong_payload_realm"
                     ELSE IF payload.impl \notin Registered THEN "unknown_implementation"
                     ELSE "executed")
        /\ UNCHANGED <<endpointLog, deployment, doing, dispatched, latest, endpoints>>

----------------------------------------------------------------------------
LoweringInit ==
    /\ endpointLog = [e \in Endpoints |-> <<>>]
    /\ lowerer \in Realms
    /\ dispatch \in [Realms -> SUBSET Services]
    /\ realmOf \in [Services -> Realms]
    /\ doing = [t \in Tasks |-> "idle"]
    /\ tenant \in [Tasks -> Tenants]
    /\ bindings = [t \in Tasks |-> [n \in Names |-> NoEndpoint]]
    /\ realm = [t \in Tasks |-> lowerer]
    /\ latest = [t \in Tasks |-> NoRead]
    /\ endpoints = [t \in Tasks |-> Nothing]
    /\ since = [t \in Tasks |-> [e \in Endpoints |-> 0]]
    /\ request = [t \in Tasks |-> NoCall]
    /\ replied = [t \in Tasks |-> "none"]

LoweringNext ==
    \/ \E e \in Endpoints, rev \in Revisions : AppendEndpoint(e, rev)
    \/ ReloadLowerer
    \/ ReloadDispatch
    \/ \E s \in Services : ReloadService(s)
    \/ \E t \in Tasks :
          \/ BeginLowering(t)
          \/ \E n \in Names : ReadLatest(t, n)
          \/ LowerBinding(t)
          \/ LoweringFails(t)
          \/ StartScript(t)
          \/ \E n \in Names : Forward(t, n)
          \/ Verify(t)
          \/ Execute(t)

LoweringSpec == LoweringInit /\ [][LoweringNext]_loweringVars

----------------------------------------------------------------------------
(* Safety *)

Answers == {"none", "webui", "unknown_realm", "unauthorized", "wrong_payload_realm",
            "unknown_implementation", "executed"}

LoweredEndpoints ==
    [endpoint : Endpoints, config : 1 .. MaxRevision, realm : Realms, impl : Impls]

\* Types of the variables.
LoweringTypes ==
    /\ \A e \in Endpoints : endpointLog[e] \in Seq(Revisions) /\ Newest(e) <= MaxRevision
    /\ lowerer \in Realms
    /\ dispatch \in [Realms -> SUBSET Services]
    /\ realmOf \in [Services -> Realms]
    /\ doing \in [Tasks -> {"idle", "lowering", "failed", "running"}]
    /\ tenant \in [Tasks -> Tenants]
    /\ bindings \in [Tasks -> [Names -> Endpoints \cup {NoEndpoint}]]
    /\ realm \in [Tasks -> Realms]
    /\ replied \in [Tasks -> Answers]
    /\ \A t \in Tasks :
          /\ latest[t] = NoRead \/ latest[t] \in [name : Names, rev : 1 .. MaxRevision]
          /\ \A n \in DOMAIN endpoints[t] : n \in Names /\ endpoints[t][n] \in LoweredEndpoints
          /\ request[t] # NoCall => request[t].at \in Services /\ request[t].name \in Names

\* What is sealed for a binding is one revision of the endpoint it names, the
\* implementation and the configuration of the same one, and none that was
\* replaced before the lowering began, whatever its tenant does meanwhile; and no
\* script runs with a part of its bindings.
LoweredFromOneFreshRevision ==
    \A t \in Tasks :
        /\ doing[t] = "running" => Names \subseteq DOMAIN endpoints[t]
        /\ \A n \in DOMAIN endpoints[t] :
              LET lowered == endpoints[t][n]
              IN  /\ lowered.endpoint = bindings[t][n]
                  /\ lowered.config \in since[t][lowered.endpoint] .. Newest(lowered.endpoint)
                  /\ lowered.impl = endpointLog[lowered.endpoint][lowered.config].impl

\* A reload between the verification of a call and the check of its payload never
\* turns it away: both look at the realm the service had under the lock.
VerifiedRealmStands == \A t \in Tasks : replied[t] # "wrong_payload_realm"

(* A statement of the documentation that the code does not keep *)

\* Design 10, endpoint retirement: "Templates referencing a retired config fail at
\* the lowerer."  The lowerer reads no is_retired.
RetiredFailsAtLowerer ==
    \A t \in Tasks : \A n \in DOMAIN endpoints[t] :
        LET e == endpoints[t][n].endpoint
        IN  since[t][e] > 0 => ~endpointLog[e][since[t][e]].retired
=============================================================================
