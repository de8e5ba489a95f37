---------------------------- MODULE RealmRotation ----------------------------
(***************************************************************************)
(* Rotation of a realm's keys under running work.  The API server lowers   *)
(* each workflow step or embed job once, with the key its configuration    *)
(* names (lowerer.rs), and the script then presents the same token on      *)
(* every call to the realm's connector service, which knows a set of keys  *)
(* (philharmonic-connector/src/main.rs).  Both processes swap their        *)
(* configuration on SIGHUP without waiting for work in progress: a task    *)
(* keeps the lowerer it was dispatched with.  The operator follows the     *)
(* rotation procedure of docs/design/11-security-and-cryptography.md.      *)
(* Keys are numbered in the order of their introduction; one number stands *)
(* for the lowerer's signing key and the realm's key pair, which rotate    *)
(* alike.                                                                  *)
(***************************************************************************)
EXTENDS Naturals

CONSTANTS Tasks,       \* workflow steps and embed jobs
          Lifetime,    \* token_lifetime_ms of the lowerer
          RunTimeout,  \* the executor's run timeout
          DrainFirst,  \* the operator lets dispatched work lower before the overlap
          MaxKey,      \* bound: rotations
          MaxTime      \* bound: the clock

ASSUME RealmRotationAssumption ==
    /\ Lifetime \in Nat
    /\ RunTimeout \in Nat
    /\ MaxTime \in Nat
    /\ MaxKey \in Nat \ {0}
    /\ DrainFirst \in BOOLEAN

VARIABLES now,
          signingFile,  \* the key api.toml names
          lowerer,      \* the key of the live ConnectorConfigLowerer
          keysFile,     \* the keys connector.toml lists
          keys,         \* the keys of the connector's live RuntimeState
          stage,        \* where the operator is in the procedure
          switched,     \* when the operator saw the switch complete
          pc,           \* of each task
          held,         \* the key of the lowerer each task was dispatched with
          exp,          \* the expiry of its token
          deadline,     \* when the executor gives up its run
          answer,       \* the connector's answer to its last call
          answered      \* and when it gave it

rotationVars == <<now, signingFile, lowerer, keysFile, keys, stage, switched, pc, held,
                  exp, deadline, answer, answered>>
operatorVars == <<signingFile, keysFile, stage, switched>>
taskVars == <<pc, held, exp, deadline, answer, answered>>

Stages == {"steady", "distributing", "switching", "draining", "overlap", "retiring"}

----------------------------------------------------------------------------
(* The operator *)

\* Generate the next key pair and register its private key with the connector.
Distribute ==
    /\ stage = "steady"
    /\ signingFile < MaxKey
    /\ keysFile' = keysFile \cup {signingFile + 1}
    /\ stage' = "distributing"
    /\ UNCHANGED <<now, signingFile, lowerer, keys, switched, taskVars>>

Switch ==
    /\ stage = "distributing"
    /\ keys = keysFile
    /\ signingFile' = signingFile + 1
    /\ stage' = "switching"
    /\ UNCHANGED <<now, lowerer, keysFile, keys, switched, taskVars>>

SwitchSeen ==
    /\ stage = "switching"
    /\ lowerer = signingFile
    /\ stage' = "draining"
    /\ UNCHANGED <<now, signingFile, lowerer, keysFile, keys, switched, taskVars>>

\* No task still has to lower with a key older than the live one.
Drained == \A t \in Tasks : pc[t] = "dispatched" => held[t] = lowerer

BeginOverlap ==
    /\ stage = "draining"
    /\ DrainFirst => Drained
    /\ switched' = now
    /\ stage' = "overlap"
    /\ UNCHANGED <<now, signingFile, lowerer, keysFile, keys, taskVars>>

\* "Keep old key available ... during overlap >= maximum token/payload lifetime."
RetireKey ==
    /\ stage = "overlap"
    /\ now >= switched + Lifetime
    /\ keysFile' = {signingFile}
    /\ stage' = "retiring"
    /\ UNCHANGED <<now, signingFile, lowerer, keys, switched, taskVars>>

RetireSeen ==
    /\ stage = "retiring"
    /\ keys = keysFile
    /\ stage' = "steady"
    /\ UNCHANGED <<now, signingFile, lowerer, keysFile, keys, switched, taskVars>>

----------------------------------------------------------------------------
(* The servers *)

\* The API server's reload: later dispatches get a lowerer of the new file.
ReloadApi ==
    /\ lowerer # signingFile
    /\ lowerer' = signingFile
    /\ UNCHANGED <<now, keys, operatorVars, taskVars>>

\* Mutant: the registry keeps one key per realm, the newest.
ReloadConnectorNewestOnly ==
    /\ keys # keysFile
    /\ keys' = {k \in keysFile : \A other \in keysFile : other <= k}
    /\ UNCHANGED <<now, lowerer, operatorVars, taskVars>>

\* The connector's reload: one write replaces the whole RuntimeState.
ReloadConnector ==
    /\ keys # keysFile
    /\ keys' = keysFile
    /\ UNCHANGED <<now, lowerer, operatorVars, taskVars>>

\* A request clones the live router; its task keeps that router's lowerer.
DispatchTask(t) ==
    /\ pc[t] = "idle"
    /\ pc' = [pc EXCEPT ![t] = "dispatched"]
    /\ held' = [held EXCEPT ![t] = lowerer]
    /\ UNCHANGED <<now, lowerer, keys, operatorVars, exp, deadline, answer,
                   answered>>

\* Mutant: the token outlives the lifetime the configuration states.
ExpiryPadded == now + Lifetime + 1

Expiry == now + Lifetime

\* ConnectorConfigLowerer::lower mints one token for the whole run.
LowerTask(t) ==
    /\ pc[t] = "dispatched"
    /\ pc' = [pc EXCEPT ![t] = "lowered"]
    /\ exp' = [exp EXCEPT ![t] = Expiry]
    /\ UNCHANGED <<now, lowerer, keys, operatorVars, held, deadline, answer,
                   answered>>

\* The executor starts the script, maybe much later.
StartRun(t) ==
    /\ pc[t] = "lowered"
    /\ pc' = [pc EXCEPT ![t] = "running"]
    /\ deadline' = [deadline EXCEPT ![t] = now + RunTimeout]
    /\ UNCHANGED <<now, lowerer, keys, operatorVars, held, exp, answer,
                   answered>>

\* verify_and_decrypt: the key is looked up before the expiry is checked.
Verdict(t) ==
    IF held[t] \notin keys THEN "unknown_key"
    ELSE IF exp[t] <= now THEN "expired" ELSE "accepted"

\* handle_connector_request_inner holds the read lock over the verification; a
\* script that is refused throws, which ends its run.
CallConnector(t) ==
    /\ pc[t] = "running"
    /\ answer' = [answer EXCEPT ![t] = Verdict(t)]
    /\ answered' = [answered EXCEPT ![t] = now]
    /\ pc' = [pc EXCEPT ![t] = IF Verdict(t) = "accepted" THEN "running" ELSE "ended"]
    /\ UNCHANGED <<now, lowerer, keys, operatorVars, held, exp, deadline>>

\* A task fails before it runs, its script returns, or the executor's timeout
\* cuts it off.
EndTask(t) ==
    /\ pc[t] \in {"dispatched", "lowered", "running"}
    /\ pc' = [pc EXCEPT ![t] = "ended"]
    /\ UNCHANGED <<now, lowerer, keys, operatorVars, held, exp, deadline, answer,
                   answered>>

\* The executor lets no run pass its deadline.
Tick ==
    /\ now < MaxTime
    /\ \A t \in Tasks : pc[t] = "running" => now + 1 < deadline[t]
    /\ now' = now + 1
    /\ UNCHANGED <<lowerer, keys, operatorVars, taskVars>>

----------------------------------------------------------------------------
RotationInit ==
    /\ now = 0
    /\ signingFile = 1
    /\ lowerer = 1
    /\ keysFile = {1}
    /\ keys = {1}
    /\ stage = "steady"
    /\ switched = 0
    /\ pc = [t \in Tasks |-> "idle"]
    /\ held = [t \in Tasks |-> 0]
    /\ exp = [t \in Tasks |-> 0]
    /\ deadline = [t \in Tasks |-> 0]
    /\ answer = [t \in Tasks |-> "none"]
    /\ answered = [t \in Tasks |-> 0]

Operator ==
    \/ Distribute \/ Switch \/ SwitchSeen \/ BeginOverlap \/ RetireKey \/ RetireSeen

RotationNext ==
    \/ Operator
    \/ ReloadApi
    \/ ReloadConnector
    \/ \E t \in Tasks :
          DispatchTask(t) \/ LowerTask(t) \/ StartRun(t) \/ CallConnector(t) \/ EndTask(t)
    \/ Tick

RotationSpec == RotationInit /\ [][RotationNext]_rotationVars

----------------------------------------------------------------------------
(* Safety *)

\* Types of the variables, and how far their times and keys can reach.
RotationTypes ==
    /\ now \in 0 .. MaxTime
    /\ switched \in 0 .. MaxTime
    /\ signingFile \in 1 .. MaxKey
    /\ lowerer \in 1 .. MaxKey
    /\ keysFile \subseteq 1 .. MaxKey
    /\ keys \subseteq 1 .. MaxKey
    /\ stage \in Stages
    /\ pc \in [Tasks -> {"idle", "dispatched", "lowered", "running", "ended"}]
    /\ held \in [Tasks -> 0 .. MaxKey]
    /\ exp \in [Tasks -> 0 .. MaxTime + Lifetime]
    /\ deadline \in [Tasks -> 0 .. MaxTime + RunTimeout]
    /\ answer \in [Tasks -> {"none", "accepted", "expired", "unknown_key"}]
    /\ answered \in [Tasks -> 0 .. MaxTime]

\* A token that has not expired is never refused for its key, whichever of the
\* two processes reloads first and however slowly a task lowers or runs: the
\* connector knows a key before anything is encrypted to it and until the last
\* token minted with it has expired.
NoLiveTokenRefused ==
    \A t \in Tasks : answer[t] = "unknown_key" => exp[t] <= answered[t]

\* The live lowerer never mints with a key the live connector does not know.
LowererKeyKnown == lowerer \in keys

\* A retired key is really gone: once the procedure is over, neither process
\* uses it and whatever was minted with it has expired.
RetiredKeyIsDead ==
    stage = "steady" =>
        /\ lowerer = signingFile
        /\ keys = {signingFile}
        /\ \A t \in Tasks : held[t] # signingFile =>
              pc[t] # "dispatched" /\ exp[t] <= now

(* Liveness *)

\* No part of a rotation that waits for the system waits for ever: no reload is
\* lost and no task holds an old lowerer back.  (What remains is the overlap,
\* which only waits for the clock.)
RotationProceeds ==
    /\ stage = "distributing" ~> stage = "overlap"
    /\ stage = "retiring" ~> stage = "steady"

(* A statement of the documentation that the code does not keep *)

\* Design 11, Key identifiers: to keep the old key for the maximum token lifetime
\* after the switch is enough.  Work dispatched before the reload mints tokens
\* with the old key after it.
OverlapSuffices == NoLiveTokenRefused
=============================================================================
