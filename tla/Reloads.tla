------------------------------- MODULE Reloads -------------------------------
(* ApiReload, ConnectorReload and WorkerTokens together: the reload loops of the *)
(* three servers.  They share nothing, so a behaviour is one of a single server; *)
(* what the modules name alike is one variable, the rest stays put.              *)
EXTENDS Naturals, Sequences

CONSTANTS Requests, NoRouter, MaxVersion,
          Configs, Files, MaxGeneration,
          Jobs, NoToken, MaxToken,
          MaxEdit, MaxCrash

VARIABLES server,
          explicit, toml, editing, edits, settled, pending, loop, hooked, crashes,
          keyFiles, up, loaded, built, api, dispatch, sck, router, rows,
          generation, loading, unread, partial, keys, live,
          tokens, accepted, rotation, apiToken, job, answer

\* A configuration lists its keys, each with one file or more.
ASSUME ConfigsAssumption ==
    \A c \in Configs :
        c.entries \in Seq([registry : STRING, kid : STRING, files : Seq(Files) \ {<<>>}])

Api == INSTANCE ApiReload
Connector == INSTANCE ConnectorReload
Worker == INSTANCE WorkerTokens

reloading == <<hooked, edits>>
apiOnly == <<keyFiles, up, loaded, built, api, dispatch, sck, router, rows>>
connectorOnly == <<generation, loading, unread, partial, keys, live>>
workerOnly == <<tokens, accepted, rotation, apiToken, job, answer>>
vars == <<server, Api!vars, Connector!vars, Worker!vars>>

NoReloading == hooked = 0 /\ edits = 0

NoApi == /\ keyFiles = 0 /\ up = 0 /\ loaded = 0 /\ built = 0 /\ api = 0
         /\ dispatch = 0 /\ sck = 0 /\ router = 0 /\ rows = 0

NoConnector == /\ generation = 0 /\ loading = 0 /\ unread = 0
               /\ partial = 0 /\ keys = 0 /\ live = 0

NoWorker == /\ tokens = 0 /\ accepted = 0 /\ rotation = 0
            /\ apiToken = 0 /\ job = 0 /\ answer = 0

Init ==
    \/ server = "api" /\ Api!Init /\ NoReloading /\ NoConnector /\ NoWorker
    \/ server = "connector" /\ Connector!Init /\ NoApi /\ NoWorker
    \/ server = "worker" /\ Worker!Init /\ toml = 0 /\ NoApi /\ NoConnector

Of(name) == server = name /\ UNCHANGED server

ApiServer == Of("api") /\ Api!Server /\ UNCHANGED <<reloading, connectorOnly, workerOnly>>
ConnectorServer == Of("connector") /\ Connector!Serve /\ UNCHANGED <<apiOnly, workerOnly>>
WorkerServer == Of("worker") /\ Worker!Serve /\ UNCHANGED <<toml, apiOnly, connectorOnly>>

Next ==
    \/ Of("api") /\ Api!Next /\ UNCHANGED <<reloading, connectorOnly, workerOnly>>
    \/ Of("connector") /\ Connector!Next /\ UNCHANGED <<apiOnly, workerOnly>>
    \/ Of("worker") /\ Worker!Next /\ UNCHANGED <<toml, apiOnly, connectorOnly>>

\* tokio runs each loop whenever it can go on.
FairSpec ==
    /\ Init /\ [][Next]_vars
    /\ WF_vars(ApiServer) /\ WF_vars(ConnectorServer) /\ WF_vars(WorkerServer)

\* The API server: see ApiReload.
SettledMeansCurrent == server = "api" => Api!SettledMeansCurrent
MixedOnlyWhileWriting == server = "api" => Api!MixedOnlyWhileWriting
NeverBackToDefaults == server = "api" => Api!NeverBackToDefaults
ReloadTakesEffect ==
    (server = "api" /\ Api!Reloadable) ~> (server # "api" \/ Api!Reloaded)

\* The connector: see ConnectorReload.
SettledKeysAreLive == server = "connector" => Connector!SettledKeysAreLive
WholeConfigurations == server = "connector" => Connector!WholeConfigurations

\* The worker: see WorkerTokens.
SettledTokensAreLive == server = "worker" => Worker!SettledTokensAreLive
RotationRefusesNoJob == server = "worker" => Worker!RotationRefusesNoJob
=============================================================================
