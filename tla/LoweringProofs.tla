--------------------------- MODULE LoweringProofs ---------------------------
(***************************************************************************)
(* Proofs about Lowering, for every set of tasks, endpoints, tenants,      *)
(* realms and connectors and every number of revisions.                    *)
(***************************************************************************)
EXTENDS Lowering, TLAPS

Logs ==
    /\ endpointLog \in [Endpoints -> Seq(Revisions)]
    /\ realmOf \in [Services -> Realms]

Steps ==
    /\ DOMAIN tenant = Tasks
    /\ DOMAIN bindings = Tasks
    /\ DOMAIN realm = Tasks
    /\ DOMAIN latest = Tasks
    /\ DOMAIN endpoints = Tasks
    /\ since \in [Tasks -> [Endpoints -> Nat]]
    /\ DOMAIN request = Tasks
    /\ DOMAIN replied = Tasks
    /\ DOMAIN doing = Tasks

\* The i-th revision of a log was its newest at some time since it had old of them.
Fresh(log, old, i) ==
    /\ i \in Nat \ {0}
    /\ old <= i
    /\ i <= Len(log)

\* lowered is what one fresh revision of e says.
Faithful(lowered, e, old, logs) ==
    /\ e \in Endpoints
    /\ lowered.endpoint = e
    /\ Fresh(logs[e], old[e], lowered.config)
    /\ lowered.impl = logs[e][lowered.config].impl

\* Before it begins a task has lowered nothing, and what it read is still fresh.
ReadInv ==
    \A t \in Tasks :
        /\ doing[t] = "idle" => endpoints[t] = Nothing /\ latest[t] = NoRead
        /\ \A e \in Endpoints : since[t][e] <= Len(endpointLog[e])
        /\ latest[t] # NoRead =>
              /\ doing[t] = "lowering"
              /\ latest[t].name \in Names
              /\ bindings[t][latest[t].name] \in Endpoints
              /\ Fresh(endpointLog[bindings[t][latest[t].name]],
                       since[t][bindings[t][latest[t].name]], latest[t].rev)

LoweredInv ==
    \A t \in Tasks : \A n \in DOMAIN endpoints[t] :
        Faithful(endpoints[t][n], bindings[t][n], since[t], endpointLog)

\* A script runs with every binding, and a checked call carries the realm its payload was
\* sealed for.
CallInv ==
    \A t \in Tasks :
        /\ doing[t] = "running" => Names \subseteq DOMAIN endpoints[t]
        /\ replied[t] # "wrong_payload_realm"
        /\ request[t] # NoCall =>
              /\ doing[t] = "running"
              /\ request[t].checked => request[t].realm = endpoints[t][request[t].name].realm

Inv == Logs /\ Steps /\ ReadInv /\ LoweredInv /\ CallInv

----------------------------------------------------------------------------
(* A revision, once appended, stays where it is. *)
LEMMA AppendKeeps ==
    ASSUME Logs, NEW e \in Endpoints, NEW rev \in Revisions, AppendEndpoint(e, rev)
    PROVE  /\ endpointLog' \in [Endpoints -> Seq(Revisions)]
           /\ \A f \in Endpoints :
                 /\ Len(endpointLog[f]) \in Nat
                 /\ Len(endpointLog'[f]) \in Nat
                 /\ Len(endpointLog[f]) <= Len(endpointLog'[f])
           /\ \A f \in Endpoints, i \in Nat \ {0} :
                 i <= Len(endpointLog[f]) => endpointLog'[f][i] = endpointLog[f][i]
  BY DEF AppendEndpoint, Logs

(* Appending a revision disturbs nothing that was read or lowered. *)
LEMMA AppendPreserves ==
    ASSUME Inv, NEW e \in Endpoints, NEW rev \in Revisions, AppendEndpoint(e, rev)
    PROVE  Inv'
<1>1. /\ endpointLog' \in [Endpoints -> Seq(Revisions)]
      /\ \A f \in Endpoints :
            /\ Len(endpointLog[f]) \in Nat
            /\ Len(endpointLog'[f]) \in Nat
            /\ Len(endpointLog[f]) <= Len(endpointLog'[f])
      /\ \A f \in Endpoints, i \in Nat \ {0} :
            i <= Len(endpointLog[f]) => endpointLog'[f][i] = endpointLog[f][i]
  BY AppendKeeps DEF Inv
<1>2. UNCHANGED <<deployment, doing, dispatched, latest, endpoints, request, replied>>
  BY DEF AppendEndpoint
<1>3. \A f \in Endpoints, old \in Nat, i \in Nat :
          Fresh(endpointLog[f], old, i) => Fresh(endpointLog'[f], old, i)
  BY <1>1 DEF Fresh
<1>4. Logs' /\ Steps'
  BY <1>1, <1>2 DEF Inv, Logs, Steps, deployment, dispatched
<1>5. ASSUME NEW t \in Tasks, NEW f \in Endpoints, since[t][f] <= Len(endpointLog[f])
      PROVE  since'[t][f] <= Len(endpointLog'[f])
  <2>1. since'[t][f] = since[t][f] /\ since[t][f] \in Nat
    BY <1>2 DEF Inv, Steps, dispatched
  <2> QED BY <1>1, <1>5, <2>1
<1>6. ReadInv'
  <2> SUFFICES ASSUME NEW t \in Tasks
               PROVE  /\ doing'[t] = "idle" => endpoints'[t] = Nothing /\ latest'[t] = NoRead
                      /\ latest'[t] # NoRead =>
                            /\ doing'[t] = "lowering"
                            /\ latest'[t].name \in Names
                            /\ bindings'[t][latest'[t].name] \in Endpoints
                            /\ Fresh(endpointLog'[bindings'[t][latest'[t].name]],
                                     since'[t][bindings'[t][latest'[t].name]], latest'[t].rev)
    BY <1>5 DEF Inv, ReadInv
  <2>1. doing'[t] = "idle" => endpoints'[t] = Nothing /\ latest'[t] = NoRead
    BY <1>2 DEF Inv, ReadInv
  <2>2. ASSUME latest'[t] # NoRead
        PROVE  /\ doing'[t] = "lowering"
               /\ latest'[t].name \in Names
               /\ bindings'[t][latest'[t].name] \in Endpoints
               /\ Fresh(endpointLog'[bindings'[t][latest'[t].name]],
                        since'[t][bindings'[t][latest'[t].name]], latest'[t].rev)
    <3> DEFINE f == bindings[t][latest[t].name]
    <3>1. /\ doing[t] = "lowering" /\ latest[t].name \in Names /\ f \in Endpoints
          /\ Fresh(endpointLog[f], since[t][f], latest[t].rev)
      BY <1>2, <2>2 DEF Inv, ReadInv
    <3>2. since[t][f] \in Nat /\ latest[t].rev \in Nat
      BY <3>1 DEF Inv, Steps, Fresh
    <3>3. Fresh(endpointLog'[f], since[t][f], latest[t].rev)
      BY <1>3, <3>1, <3>2
    <3> QED BY <1>2, <3>1, <3>3 DEF dispatched
  <2> QED BY <2>1, <2>2
<1>7. LoweredInv'
  <2> SUFFICES ASSUME NEW t \in Tasks, NEW n \in DOMAIN endpoints'[t]
               PROVE  Faithful(endpoints'[t][n], bindings'[t][n], since'[t],
                               endpointLog')
    BY DEF LoweredInv
  <2> DEFINE l == endpoints[t][n]
             f == bindings[t][n]
  <2>1. Faithful(l, f, since[t], endpointLog)
    BY <1>2 DEF Inv, LoweredInv
  <2>2. f \in Endpoints /\ since[t][f] \in Nat /\ l.config \in Nat \ {0}
        /\ l.config <= Len(endpointLog[f])
    BY <2>1 DEF Faithful, Fresh, Inv, Steps
  <2>3. Fresh(endpointLog'[f], since[t][f], l.config)
    BY <1>3, <2>1, <2>2 DEF Faithful
  <2>4. endpointLog'[f][l.config] = endpointLog[f][l.config]
    BY <1>1, <2>2
  <2>5. Faithful(l, f, since[t], endpointLog')
    BY <2>1, <2>3, <2>4 DEF Faithful
  <2> QED BY <1>2, <2>5 DEF dispatched
<1>8. CallInv'
  BY <1>2 DEF Inv, CallInv
<1> QED BY <1>4, <1>5, <1>6, <1>7, <1>8 DEF Inv

(* The invariant is inductive. *)
LEMMA InitInv == LoweringInit => Inv
<1> SUFFICES ASSUME LoweringInit PROVE Inv
  OBVIOUS
<1>1. Logs /\ Steps
  BY DEF LoweringInit, Logs, Steps
<1>2. ReadInv /\ LoweredInv /\ CallInv
  BY DEF LoweringInit, ReadInv, LoweredInv, CallInv, Nothing
<1> QED BY <1>1, <1>2 DEF Inv

LEMMA NextInv == Inv /\ [LoweringNext]_loweringVars => Inv'
<1> SUFFICES ASSUME Inv, [LoweringNext]_loweringVars PROVE Inv'
  OBVIOUS
<1> USE DEF Inv
<1>1. ASSUME NEW e \in Endpoints, NEW rev \in Revisions, AppendEndpoint(e, rev) PROVE Inv'
  BY <1>1, AppendPreserves
<1>2. CASE ReloadLowerer \/ ReloadDispatch \/ UNCHANGED loweringVars
  BY <1>2 DEF ReloadLowerer, ReloadDispatch, loweringVars, dispatched, Logs, Steps, ReadInv,
              LoweredInv, CallInv
<1>3. ASSUME NEW s \in Services, ReloadService(s) PROVE Inv'
  BY <1>3 DEF ReloadService, dispatched, Logs, Steps, ReadInv, LoweredInv, CallInv
<1>4. ASSUME NEW t \in Tasks, BeginLowering(t) PROVE Inv'
  <2>1. Logs' /\ Steps'
    BY <1>4 DEF BeginLowering, deployment, Logs, Steps, Newest
  <2>2. /\ \A u \in Tasks : u # t =>
              /\ doing'[u] = doing[u] /\ tenant'[u] = tenant[u]
              /\ bindings'[u] = bindings[u] /\ since'[u] = since[u]
        /\ UNCHANGED <<endpointLog, latest, endpoints, request, replied>>
        /\ endpoints[t] = Nothing /\ latest[t] = NoRead /\ doing'[t] = "lowering"
        /\ request[t] = NoCall
    BY <1>4 DEF BeginLowering, Steps, ReadInv, CallInv
  <2>3. \A f \in Endpoints : since'[t][f] <= Len(endpointLog'[f])
    BY <1>4 DEF BeginLowering, Steps, Logs, Newest
  <2>4. ReadInv' /\ LoweredInv' /\ CallInv'
    BY <2>2, <2>3 DEF ReadInv, LoweredInv, CallInv, Nothing
  <2> QED BY <2>1, <2>4
<1>5. ASSUME NEW t \in Tasks, NEW n \in Names, ReadLatest(t, n) PROVE Inv'
  <2>1. /\ UNCHANGED <<endpointLog, deployment, doing, dispatched, endpoints, request, replied>>
        /\ DOMAIN latest' = Tasks
        /\ doing[t] = "lowering" /\ bindings[t][n] \in Endpoints
        /\ Len(endpointLog[bindings[t][n]]) > 0
        /\ latest'[t] = [name |-> n, rev |-> Len(endpointLog[bindings[t][n]])]
        /\ \A u \in Tasks : u # t => latest'[u] = latest[u]
    BY <1>5 DEF ReadLatest, Steps, Newest
  <2>2. Logs' /\ Steps'
    BY <2>1 DEF deployment, dispatched, Logs, Steps
  <2>3. Fresh(endpointLog[bindings[t][n]], since[t][bindings[t][n]],
              Len(endpointLog[bindings[t][n]]))
    BY <2>1 DEF Fresh, Logs, ReadInv
  <2>4. ReadInv'
    BY <2>1, <2>3 DEF dispatched, ReadInv
  <2>5. LoweredInv' /\ CallInv'
    BY <2>1 DEF dispatched, LoweredInv, CallInv
  <2> QED BY <2>2, <2>4, <2>5
<1>6. ASSUME NEW t \in Tasks, LowerBinding(t) PROVE Inv'
  <2> DEFINE n == latest[t].name
             e == bindings[t][n]
             rev == latest[t].rev
  <2>1. /\ doing[t] = "lowering" /\ latest[t] # NoRead
        /\ e \in Endpoints /\ Fresh(endpointLog[e], since[t][e], rev) /\ request[t] = NoCall
    BY <1>6 DEF LowerBinding, ReadInv, CallInv
  <2>2. /\ UNCHANGED <<endpointLog, deployment, doing, dispatched, request, replied>>
        /\ DOMAIN endpoints' = Tasks /\ DOMAIN latest' = Tasks
        /\ latest'[t] = NoRead
        /\ \A u \in Tasks : u # t => endpoints'[u] = endpoints[u] /\ latest'[u] = latest[u]
    BY <1>6 DEF LowerBinding, Steps
  <2>3. /\ DOMAIN endpoints'[t] = DOMAIN endpoints[t] \cup {n}
        /\ endpoints'[t][n] = [endpoint |-> e, config |-> rev, realm |-> realm[t],
                                impl |-> endpointLog[e][rev].impl]
        /\ \A m \in DOMAIN endpoints[t] : m # n => endpoints'[t][m] = endpoints[t][m]
    BY <1>6 DEF LowerBinding, Steps, Implementation
  <2>4. Logs' /\ Steps'
    BY <2>2 DEF Logs, Steps, deployment, dispatched
  <2>5. ReadInv'
    BY <2>1, <2>2 DEF ReadInv, dispatched
  <2>6. Faithful(endpoints'[t][n], e, since[t], endpointLog)
    BY <2>1, <2>3 DEF Faithful
  <2>7. ASSUME NEW u \in Tasks, NEW m \in DOMAIN endpoints'[u], ~(u = t /\ m = n)
        PROVE  Faithful(endpoints'[u][m], bindings[u][m], since[u], endpointLog)
    <3>1. m \in DOMAIN endpoints[u] /\ endpoints'[u][m] = endpoints[u][m]
      BY <2>2, <2>3, <2>7
    <3> QED BY <3>1 DEF LoweredInv
  <2>8. LoweredInv'
    <3> SUFFICES ASSUME NEW u \in Tasks, NEW m \in DOMAIN endpoints'[u]
                 PROVE  Faithful(endpoints'[u][m], bindings'[u][m], since'[u],
                                 endpointLog')
      BY DEF LoweredInv
    <3>1. Faithful(endpoints'[u][m], bindings[u][m], since[u], endpointLog)
      BY <2>6, <2>7
    <3> QED BY <2>2, <3>1 DEF dispatched
  <2>9. CallInv'
    BY <2>1, <2>2 DEF CallInv
  <2> QED BY <2>4, <2>5, <2>8, <2>9
<1>7. ASSUME NEW t \in Tasks, LoweringFails(t) PROVE Inv'
  BY <1>7 DEF LoweringFails, deployment, dispatched, Logs, Steps, ReadInv, LoweredInv,
              CallInv
<1>8. ASSUME NEW t \in Tasks, StartScript(t) PROVE Inv'
  BY <1>8 DEF StartScript, Lowered, Left, deployment, dispatched, Logs, Steps, ReadInv, LoweredInv,
              CallInv
<1>9. ASSUME NEW t \in Tasks, (\E n \in Names : Forward(t, n)) \/ Verify(t) \/ Execute(t)
      PROVE Inv'
  <2>1. UNCHANGED <<endpointLog, deployment, doing, dispatched, latest, endpoints>>
    BY <1>9 DEF Forward, Verify, Execute
  <2>2. DOMAIN request' = Tasks /\ DOMAIN replied' = Tasks
    BY <1>9 DEF Forward, Verify, Execute, Answer, Steps
  <2>3. Logs' /\ Steps' /\ ReadInv' /\ LoweredInv'
    BY <2>1, <2>2 DEF Logs, Steps, ReadInv, LoweredInv, deployment, dispatched
  <2>4. CASE \E n \in Names : Forward(t, n)
    BY <2>1, <2>3, <2>4 DEF Forward, CallInv, Steps
  <2>5. CASE Verify(t)
    BY <2>1, <2>3, <2>5 DEF Verify, Answer, CallInv, Steps
  <2>6. CASE Execute(t)
    BY <2>1, <2>3, <2>6 DEF Execute, ServiceRealm, Answer, CallInv, Steps
  <2> QED BY <1>9, <2>4, <2>5, <2>6
<1> QED
  BY <1>1, <1>2, <1>3, <1>4, <1>5, <1>6, <1>7, <1>8, <1>9 DEF LoweringNext

(* Every reachable state satisfies it. *)
THEOREM Invariant == LoweringSpec => []Inv
<1>1. LoweringInit => Inv
  BY InitInv
<1>2. Inv /\ [LoweringNext]_loweringVars => Inv'
  BY NextInv
<1> QED BY <1>1, <1>2, PTL DEF LoweringSpec

----------------------------------------------------------------------------
(* Whatever a tenant does to its endpoints during a lowering, each binding is *)
(* lowered from one revision that was the newest since the lowering began, and *)
(* its script starts with all of them.                                         *)
THEOREM OneFreshRevision == LoweringSpec => []LoweredFromOneFreshRevision
<1>1. Inv => LoweredFromOneFreshRevision
  BY DEF Inv, Logs, Steps, LoweredInv, CallInv, Faithful, Fresh, Newest,
         LoweredFromOneFreshRevision
<1> QED BY <1>1, Invariant, PTL

(* No reload of the connector turns away a call it has verified. *)
THEOREM VerifiedStands == LoweringSpec => []VerifiedRealmStands
<1>1. Inv => VerifiedRealmStands
  BY DEF Inv, CallInv, VerifiedRealmStands
<1> QED BY <1>1, Invariant, PTL
=============================================================================
