----------------------------- MODULE ApiReload -----------------------------
(***************************************************************************)
(* Configuration of a running API server (serve, build_runtime and         *)
(* dispatch_dynamic of bins/philharmonic-api-server/src/main.rs).  The     *)
(* process reads api.toml and, later, the key files it names, one after    *)
(* the other; on SIGHUP it does so again and swaps the router and the      *)
(* connector dispatch table, in that order, each under a lock of its own,  *)
(* while the operator goes on editing and requests keep the router they    *)
(* were accepted with.  What LongLivedState holds is read at startup only. *)
(* Versions of api.toml and of the key files are numbered; version n of    *)
(* the one names keys that version n of the other first has.  Version 0 is *)
(* the built-in default configuration, which names none; the server here   *)
(* has its database and signing key whichever configuration it runs.       *)
(***************************************************************************)
EXTENDS Naturals

CONSTANTS Requests,
          NoRouter,        \* a request slot not in use
          MaxVersion,      \* bound: versions of each file
          MaxCrash         \* bound: ends of the process

VARIABLES explicit,  \* the server is started with -c
          toml,      \* version of api.toml on disk
          editing,   \* "no", or how a reader finds it: "missing" or "malformed"
          keyFiles,  \* version of the key files on disk, the SCK among them
          settled,   \* nothing was edited since the last SIGHUP or start
          up,        \* start_server has run: requests are accepted
          pending,   \* a SIGHUP that `notified` has not returned for
          loop,      \* where `serve` is
          loaded,    \* the version load_api_config returned
          built,     \* the Runtime build_runtime makes: its configuration, and the key
                     \* file versions in its verifying keys and in its lowerers
          api,       \* the live router
          dispatch,  \* the live connector dispatch table
          sck,       \* the key file version LongLivedState holds
          router,    \* the router each request was accepted with
          rows,      \* the endpoint config stored last by this process, if any
          crashes

vars == <<explicit, toml, editing, keyFiles, settled, up, pending, loop, loaded, built, api,
          dispatch, sck, router, rows, crashes>>
disk == <<explicit, toml, editing, keyFiles, settled>>
live == <<api, dispatch, sck, router, rows>>

Runtimes == [config : 0 .. MaxVersion, registry : 0 .. MaxVersion, lowerer : 0 .. MaxVersion]

Empty == [config |-> 0, registry |-> 0, lowerer |-> 0]

Serving == up

Exit == loop' = "down" /\ up' = FALSE

----------------------------------------------------------------------------
(* The operator *)

BeginEdit(how) ==
    /\ editing = "no"
    /\ editing' = how
    /\ settled' = FALSE
    /\ UNCHANGED <<explicit, toml, keyFiles, up, pending, loop, loaded, built, live, crashes>>

\* The edit is completed or taken back.
FinishEdit ==
    /\ editing # "no"
    /\ editing' = "no"
    /\ toml' \in {toml, toml + 1} \cap 1 .. MaxVersion
    /\ settled' = FALSE
    /\ UNCHANGED <<explicit, keyFiles, up, pending, loop, loaded, built, live, crashes>>

InstallKeys ==
    /\ keyFiles < MaxVersion
    /\ keyFiles' = keyFiles + 1
    /\ settled' = FALSE
    /\ UNCHANGED <<explicit, toml, editing, up, pending, loop, loaded, built, live, crashes>>

\* Of several SIGHUPs the loop sees one; before ReloadHandle::new a SIGHUP has its
\* default effect and ends the process.
Hangup ==
    /\ loop # "down"
    /\ settled' = TRUE
    /\ IF ~up \/ loop = "starting"
         THEN Exit /\ UNCHANGED pending
         ELSE pending' = TRUE /\ UNCHANGED <<loop, up>>
    /\ UNCHANGED <<explicit, toml, editing, keyFiles, loaded, built, live, crashes>>

----------------------------------------------------------------------------
(* Startup *)

\* Mutant: a missing file means the defaults, -c or not.
LoadsDefaultsAlways == editing = "missing"

\* Without -c a missing api.toml is read as the built-in defaults.
LoadsDefaults == editing = "missing" /\ ~explicit

\* load_api_config: what it returns, unless it fails.
Loads(config) ==
    \/ editing = "no" /\ config = toml
    \/ LoadsDefaults /\ config = 0

LoadFails == editing # "no" /\ ~LoadsDefaults

\* A server that cannot load its configuration is not started.
Boot ==
    /\ loop = "down"
    /\ Loads(loaded')
    /\ settled' = TRUE
    /\ pending' = FALSE
    /\ loop' = "booting"
    /\ rows' = {}
    /\ router' = [r \in Requests |-> NoRouter]
    /\ UNCHANGED <<explicit, toml, editing, keyFiles, up, built, api, dispatch, sck, crashes>>

\* read_fixed_key_file and read_fixed_secret_file: the file the configuration names is
\* there, or none is named.
Found == loaded <= keyFiles
Read == IF loaded = 0 THEN 0 ELSE keyFiles

\* load_signing_key and load_sck_bytes; the defaults name no signing key, which a start needs.
BootState ==
    /\ loop = "booting"
    /\ IF Found /\ loaded > 0
         THEN sck' = Read /\ loop' = "building" /\ UNCHANGED up
         ELSE Exit /\ UNCHANGED sck
    /\ UNCHANGED <<disk, pending, loaded, built, api, dispatch, router, rows, crashes>>

\* The router is built: the first one is served at once.
BootStart ==
    /\ loop = "built" /\ ~up
    /\ api' = built
    /\ dispatch' = built.config
    /\ up' = TRUE /\ loop' = "starting"
    /\ UNCHANGED <<disk, pending, loaded, built, sck, router, rows, crashes>>

InstallHandler ==
    /\ loop = "starting"
    /\ loop' = "waiting"
    /\ UNCHANGED <<disk, up, pending, loaded, built, live, crashes>>

Crash ==
    /\ loop # "down"
    /\ crashes < MaxCrash
    /\ crashes' = crashes + 1
    /\ Exit
    /\ UNCHANGED <<disk, pending, loaded, built, live>>

----------------------------------------------------------------------------
(* build_runtime, at startup and on every reload *)

\* A failure ends a starting process, and the reload of a running one.
BuildFails == IF up THEN loop' = "waiting" /\ UNCHANGED up ELSE Exit

\* build_verifying_key_registry.
BuildRegistry ==
    /\ loop = "building"
    /\ IF Found
         THEN /\ built' = [config |-> loaded, registry |-> Read, lowerer |-> 0]
              /\ loop' = "registered" /\ UNCHANGED up
         ELSE BuildFails /\ UNCHANGED built
    /\ UNCHANGED <<disk, pending, loaded, live, crashes>>

\* build_config_lowerer and build_embed_job_lowerer; of the defaults the lowerer is a stub.
BuildLowerers ==
    /\ loop = "registered"
    /\ IF Found
         THEN /\ built' = [built EXCEPT !.lowerer = Read]
              /\ loop' = "built" /\ UNCHANGED up
         ELSE BuildFails /\ UNCHANGED built
    /\ UNCHANGED <<disk, pending, loaded, live, crashes>>

----------------------------------------------------------------------------
(* The reload loop *)

Notified ==
    /\ loop = "waiting"
    /\ pending
    /\ pending' = FALSE
    /\ loop' = "loading"
    /\ UNCHANGED <<disk, up, loaded, built, live, crashes>>

Load ==
    /\ loop = "loading"
    /\ \/ Loads(loaded') /\ loop' = "building"
       \/ LoadFails /\ loop' = "waiting" /\ UNCHANGED loaded
    /\ UNCHANGED <<disk, up, pending, built, live, crashes>>

\* Mutant: the dispatch table is only written when the server starts.
WriteApiOnly ==
    /\ loop = "built" /\ up
    /\ api' = built
    /\ loop' = "waiting"
    /\ UNCHANGED <<disk, up, pending, loaded, built, dispatch, sck, router, rows, crashes>>

WriteApi ==
    /\ loop = "built" /\ up
    /\ api' = built
    /\ loop' = "writing"
    /\ UNCHANGED <<disk, up, pending, loaded, built, dispatch, sck, router, rows, crashes>>

\* Mutant: a SIGHUP that arrived in the meantime is taken for served.
WriteDispatchServed ==
    /\ loop = "writing"
    /\ dispatch' = built.config
    /\ loop' = "waiting"
    /\ pending' = FALSE
    /\ UNCHANGED <<disk, up, loaded, built, api, sck, router, rows, crashes>>

WriteDispatch ==
    /\ loop = "writing"
    /\ dispatch' = built.config
    /\ loop' = "waiting"
    /\ UNCHANGED <<disk, up, pending, loaded, built, api, sck, router, rows, crashes>>

----------------------------------------------------------------------------
(* Requests *)

\* dispatch_dynamic clones the live router and runs the request on the clone.
Accept(r) ==
    /\ Serving
    /\ router[r] = NoRouter
    /\ router' = [router EXCEPT ![r] = api]
    /\ UNCHANGED <<disk, up, pending, loop, loaded, built, api, dispatch, sck, rows, crashes>>

\* An endpoint route encrypts with the SCK of the process and labels the
\* row with the configuration's sck_key_version.
StoreEndpoint(r) ==
    /\ Serving
    /\ router[r] # NoRouter
    /\ rows' = {[key_version |-> router[r].config, sck |-> sck]}
    /\ router' = [router EXCEPT ![r] = NoRouter]
    /\ UNCHANGED <<disk, up, pending, loop, loaded, built, api, dispatch, sck, crashes>>

----------------------------------------------------------------------------
Init ==
    /\ explicit \in BOOLEAN
    /\ toml = 1
    /\ editing = "no"
    /\ keyFiles = 1
    /\ settled = TRUE
    /\ up = FALSE
    /\ pending = FALSE
    /\ loop = "down"
    /\ loaded = 0
    /\ built = Empty
    /\ api = Empty
    /\ dispatch = 0
    /\ sck = 0
    /\ router = [r \in Requests |-> NoRouter]
    /\ rows = {}
    /\ crashes = 0

Operator ==
    \/ \E how \in {"missing", "malformed"} : BeginEdit(how)
    \/ FinishEdit
    \/ InstallKeys
    \/ Hangup

Server ==
    \/ Boot \/ BootState \/ BootStart \/ InstallHandler
    \/ BuildRegistry \/ BuildLowerers
    \/ Notified \/ Load \/ WriteApi \/ WriteDispatch

Next ==
    \/ Operator
    \/ Server
    \/ Crash
    \/ \E r \in Requests : Accept(r) \/ StoreEndpoint(r)

Spec == Init /\ [][Next]_vars

\* tokio runs the loop whenever it can go on, and no reader keeps a lock.
FairSpec == Spec /\ WF_vars(Server)

----------------------------------------------------------------------------
(* Safety *)

\* Types of the variables.
TypeOK ==
    /\ explicit \in BOOLEAN
    /\ toml \in 1 .. MaxVersion
    /\ editing \in {"no", "missing", "malformed"}
    /\ keyFiles \in 1 .. MaxVersion
    /\ settled \in BOOLEAN
    /\ pending \in BOOLEAN
    /\ up \in BOOLEAN
    /\ loop \in {"down", "booting", "building", "registered", "built", "starting", "waiting",
                 "loading", "writing"}
    /\ loaded \in 0 .. toml
    /\ built \in Runtimes
    /\ api \in Runtimes
    /\ dispatch \in 0 .. toml
    /\ sck \in 0 .. keyFiles
    /\ router \in [Requests -> Runtimes \cup {NoRouter}]
    /\ rows \subseteq [key_version : 0 .. toml, sck : 0 .. keyFiles]
    /\ crashes \in 0 .. MaxCrash

\* What a reload of the files as they are would load.
Loadable == editing = "no" /\ toml <= keyFiles

Current ==
    /\ api = [config |-> toml, registry |-> keyFiles, lowerer |-> keyFiles]
    /\ dispatch = toml

\* A SIGHUP sent after the last edit is never lost: once the loop is idle again
\* the server runs what is on disk, however many SIGHUPs were merged and however
\* an earlier reload tore api.toml and the key files from each other.
SettledMeansCurrent ==
    loop = "waiting" /\ ~pending /\ settled /\ Loadable => Current

\* The router and the dispatch table come from different configurations only
\* between the two writes; a reload that fails half-way leaves neither changed.
MixedOnlyWhileWriting ==
    Serving /\ loop # "writing" => dispatch = api.config

\* A server with an explicit configuration never falls back to the defaults,
\* whatever state a SIGHUP finds the file in.
NeverBackToDefaults ==
    explicit /\ Serving => api.config > 0 /\ dispatch > 0

(* Liveness *)

Reloadable == settled /\ Loadable /\ Serving

Reloaded == Current \/ ~settled \/ ~Serving

\* A settled, loadable configuration is eventually the live one, unless it is
\* edited again or the process ends.
ReloadTakesEffect == Reloadable ~> Reloaded

(* Statements of the documentation that the code does not keep *)

\* SCK proposal: key_version says "what generation of the SCK is encrypting this".
\* The label follows api.toml on SIGHUP, the SCK only changes on a restart, so a
\* row can claim a newer SCK than the one that encrypted it.
KeyVersionNotAhead == \A row \in rows : row.key_version <= row.sck
=============================================================================
