---------------------------- MODULE WorkerTokens ----------------------------
(***************************************************************************)
(* The bearer tokens of the mechanics worker (serve of                     *)
(* bins/mechanics-worker/src/main.rs) and their rotation.  The worker adds *)
(* its tokens on start and replaces them on SIGHUP; no other part of the   *)
(* configuration is reloaded, and an empty list refuses every request.     *)
(* The API server builds the executor of a router with the token of its    *)
(* own configuration, and a job runs with the executor of the router it    *)
(* was dispatched by (ApiReload has that reload; here it is one step).     *)
(* The operator rotates the token in the order this makes safe: the worker *)
(* learns the new one, the API server changes over, the old one goes.      *)
(***************************************************************************)
EXTENDS Naturals

CONSTANTS Jobs,
          NoToken,    \* a job slot not in use
          MaxToken,   \* bound: tokens ever made, which are numbered
          MaxEdit,    \* bound: times mechanics.toml is found unreadable
          MaxCrash    \* bound: ends of the process

VARIABLES explicit,  \* the worker is started with -c
          tokens,    \* the list in mechanics.toml
          editing,   \* "no", or how a reader finds the file: "missing" or "malformed"
          edits,
          settled,   \* nothing was edited since the last SIGHUP or start
          pending,   \* a SIGHUP that `notified` has not returned for
          loop,      \* where `serve` is
          hooked,    \* the SIGHUP handler is installed
          accepted,  \* the tokens of the running server
          rotation,  \* where the operator is
          apiToken,  \* the token of the API server's live router
          job,       \* the token each job was dispatched with
          answer,    \* what the last job heard: "none", "ran" or "refused"
          crashes

disk == <<explicit, tokens, editing, edits>>
calls == <<apiToken, job, answer>>
vars == <<disk, settled, pending, loop, hooked, accepted, rotation, calls, crashes>>

Serving == loop # "down" /\ (hooked \/ loop = "starting")

----------------------------------------------------------------------------
(* The operator *)

BeginEdit(how) ==
    /\ editing = "no"
    /\ edits < MaxEdit
    /\ edits' = edits + 1
    /\ editing' = how
    /\ settled' = FALSE
    /\ UNCHANGED <<explicit, tokens, pending, loop, hooked, accepted, rotation, calls, crashes>>

FinishEdit ==
    /\ editing # "no"
    /\ editing' = "no"
    /\ settled' = FALSE
    /\ UNCHANGED <<explicit, tokens, edits, pending, loop, hooked, accepted, rotation, calls,
                   crashes>>

Hangup ==
    /\ loop # "down"
    /\ settled' = TRUE
    /\ IF hooked
         THEN pending' = TRUE /\ UNCHANGED loop
         ELSE loop' = "down" /\ UNCHANGED pending
    /\ UNCHANGED <<disk, hooked, accepted, rotation, calls, crashes>>

Rewrite(list, to) ==
    /\ editing = "no"
    /\ tokens' = list
    /\ rotation' = to
    /\ settled' = FALSE
    /\ UNCHANGED <<explicit, editing, edits, pending, loop, hooked, accepted, calls, crashes>>

AddToken ==
    /\ rotation = "steady"
    /\ apiToken < MaxToken
    /\ Rewrite({apiToken, apiToken + 1}, "added")

\* The worker's log says that its tokens changed.
SwitchApi ==
    /\ rotation = "added"
    /\ Serving
    /\ accepted = tokens
    /\ apiToken' = apiToken + 1
    /\ rotation' = "switched"
    /\ UNCHANGED <<disk, settled, pending, loop, hooked, accepted, job, answer, crashes>>

RemoveToken ==
    /\ rotation = "switched"
    /\ \A j \in Jobs : job[j] \in {NoToken, apiToken}
    /\ Rewrite({apiToken}, "steady")

----------------------------------------------------------------------------
(* The worker *)

Boot ==
    /\ loop = "down"
    /\ editing = "no"
    /\ loop' = "loading"
    /\ settled' = TRUE
    /\ pending' = FALSE
    /\ hooked' = FALSE
    /\ UNCHANGED <<disk, accepted, rotation, calls, crashes>>

Crash ==
    /\ loop # "down"
    /\ crashes < MaxCrash
    /\ crashes' = crashes + 1
    /\ loop' = "down"
    /\ UNCHANGED <<disk, settled, pending, hooked, accepted, rotation, calls>>

Notified ==
    /\ loop = "waiting"
    /\ pending
    /\ pending' = FALSE
    /\ loop' = "loading"
    /\ UNCHANGED <<disk, settled, hooked, accepted, rotation, calls, crashes>>

\* Without -c a missing file is read as the defaults, which have no token.
LoadsDefaults == editing = "missing" /\ ~explicit

Loads == loop = "loading" /\ (editing = "no" \/ LoadsDefaults)

Loaded == IF editing = "no" THEN tokens ELSE {}

LoadFails ==
    /\ loop = "loading"
    /\ ~Loads
    /\ loop' = IF hooked THEN "waiting" ELSE "down"
    /\ UNCHANGED <<disk, settled, pending, hooked, accepted, rotation, calls, crashes>>

\* Mutant: only the first token of the list is added.
AddedFirst == {t \in Loaded : \A u \in Loaded : t <= u}

\* One add_token for each token of the list, before the server starts.
Added == Loaded

\* The metrics listener, the limits, the TLS files or a listener may fail.
Start ==
    /\ Loads
    /\ ~hooked
    /\ accepted' = Added
    /\ loop' \in {"starting", "down"}
    /\ UNCHANGED <<disk, settled, pending, hooked, rotation, calls, crashes>>

InstallHandler ==
    /\ loop = "starting"
    /\ loop' = "waiting"
    /\ hooked' = TRUE
    /\ UNCHANGED <<disk, settled, pending, accepted, rotation, calls, crashes>>

\* Mutant: a reload adds the tokens of the list to those it finds.
ReplaceTokensByAdding ==
    /\ Loads
    /\ hooked
    /\ accepted' = accepted \cup Loaded
    /\ loop' = "waiting"
    /\ UNCHANGED <<disk, settled, pending, hooked, rotation, calls, crashes>>

ReplaceTokens ==
    /\ Loads
    /\ hooked
    /\ accepted' = Loaded
    /\ loop' = "waiting"
    /\ UNCHANGED <<disk, settled, pending, hooked, rotation, calls, crashes>>

----------------------------------------------------------------------------
(* Jobs *)

Dispatch(j) ==
    /\ job[j] = NoToken
    /\ job' = [job EXCEPT ![j] = apiToken]
    /\ UNCHANGED <<disk, settled, pending, loop, hooked, accepted, rotation, apiToken, answer,
                   crashes>>

CallWorker(j) ==
    /\ job[j] # NoToken
    /\ Serving
    /\ answer' = IF job[j] \in accepted THEN "ran" ELSE "refused"
    /\ job' = [job EXCEPT ![j] = NoToken]
    /\ UNCHANGED <<disk, settled, pending, loop, hooked, accepted, rotation, apiToken, crashes>>

----------------------------------------------------------------------------
Init ==
    /\ explicit \in BOOLEAN
    /\ tokens = {1}
    /\ editing = "no"
    /\ edits = 0
    /\ settled = TRUE
    /\ pending = FALSE
    /\ loop = "down"
    /\ hooked = FALSE
    /\ accepted = {}
    /\ rotation = "steady"
    /\ apiToken = 1
    /\ job = [j \in Jobs |-> NoToken]
    /\ answer = "none"
    /\ crashes = 0

Serve == Boot \/ Notified \/ LoadFails \/ Start \/ InstallHandler \/ ReplaceTokens

Next ==
    \/ \E how \in {"missing", "malformed"} : BeginEdit(how)
    \/ FinishEdit
    \/ Hangup
    \/ AddToken \/ SwitchApi \/ RemoveToken
    \/ Serve
    \/ Crash
    \/ \E j \in Jobs : Dispatch(j) \/ CallWorker(j)

Spec == Init /\ [][Next]_vars

----------------------------------------------------------------------------
\* The worker refuses no job while its token is rotated, across crashes and failed
\* reloads, as long as no SIGHUP finds mechanics.toml missing without -c: that one
\* takes every token away.
RotationRefusesNoJob == answer = "refused" => ~explicit

\* A token that is rotated out is refused from the reload on that the operator sent,
\* and an empty list left by a missing file is repaired by the next SIGHUP.
SettledTokensAreLive ==
    loop = "waiting" /\ ~pending /\ settled /\ editing = "no" => accepted = tokens
=============================================================================
