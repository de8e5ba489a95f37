----------------------------- MODULE ChatServer ------------------------------
(***************************************************************************)
(* philharmonic-chat (bins/philharmonic-chat/src): a server without state  *)
(* that checks the agents' shared token and makes a fresh workflow         *)
(* instance, with an ephemeral token for it, for each mock test.  The two  *)
(* calls to the API are not undone: a failure of the second, or a client   *)
(* that went away, leaves the instance.  The API is external.              *)
(***************************************************************************)
EXTENDS Naturals, FiniteSets

CONSTANTS MaxMints   \* bound: mint requests of the browser

VARIABLES server,     \* "starting", "up" or the reason it ended
          instances,  \* how many workflow instances were made here
          minted,     \* the ephemeral tokens: the instance of each
          call,       \* the request being handled, Idle when there is none
          response,   \* the answer on its way to the browser
          mints

vars == <<server, instances, minted, call, response, mints>>

Idle == [route |-> "none", token |-> "none", instance |-> 0]
Response(status, instance) == [status |-> status, instance |-> instance]
NoResponse == Response(0, 0)

----------------------------------------------------------------------------
(* Startup *)

Configs == [readable : BOOLEAN, apiUrl : BOOLEAN, tokens : BOOLEAN,
            tls : {"none", "bad files", "good"}, h3 : BOOLEAN, bind : BOOLEAN]

\* Config::validate: the URL's scheme, and no empty token.
Validate(config) == config.apiUrl /\ config.tokens

ValidateStartup(config) == Validate(config) /\ config.tls # "bad files"

StartServer(config) ==
    CASE config.tls = "none" /\ config.h3 -> "HTTP/3 requires TLS"
      [] ~config.bind -> "failed to bind"
      [] OTHER -> "up"

Serve(config) ==
    /\ server = "starting"
    /\ server' = CASE ~config.readable -> "cannot read"
                   [] config.readable /\ ~ValidateStartup(config) -> "invalid"
                   [] OTHER -> StartServer(config)
    /\ UNCHANGED <<instances, minted, call, response, mints>>

----------------------------------------------------------------------------
(* Requests *)

\* constant_time_eq: as equality, without its timing.
TokenMatches(presented) == presented = "agent"

Answer(status, instance) == response' = Response(status, instance) /\ call' = Idle

SignIn(presented) ==
    /\ server = "up" /\ call = Idle /\ response = NoResponse
    /\ Answer(IF TokenMatches(presented) THEN 204 ELSE 401, 0)
    /\ UNCHANGED <<server, instances, minted, mints>>

\* require_agent_token_bearer; without a bearer there is nothing to compare.
Mint(presented) ==
    /\ server = "up" /\ call = Idle /\ response = NoResponse
    /\ mints < MaxMints
    /\ mints' = mints + 1
    /\ IF presented # "none" /\ TokenMatches(presented)
         THEN call' = [route |-> "create", token |-> presented, instance |-> 0] /\ UNCHANGED response
         ELSE Answer(401, 0)
    /\ UNCHANGED <<server, instances, minted>>

\* decode_api_response: a body over the cap, a status that is no success and JSON that is
\* not the answer's are all a bad gateway; the API may have done what was asked.
ApiAnswers == {"ok", "failed", "answer lost"}

CreateInstance(api) ==
    /\ call.route = "create"
    /\ instances' = IF api = "failed" THEN instances ELSE instances + 1
    /\ IF api = "ok" THEN call' = [call EXCEPT !.route = "token", !.instance = instances'] /\ UNCHANGED response
                     ELSE Answer(502, 0)
    /\ UNCHANGED <<server, minted, mints>>

MintToken(api) ==
    /\ call.route = "token"
    /\ minted' = IF api = "failed" THEN minted ELSE minted \cup {call.instance}
    /\ IF api = "ok" THEN Answer(200, call.instance) ELSE Answer(502, 0)
    /\ UNCHANGED <<server, instances, mints>>

\* A client that goes away ends the handler at its next await.
Disconnect ==
    /\ call # Idle
    /\ Answer(502, 0)
    /\ UNCHANGED <<server, instances, minted, mints>>

----------------------------------------------------------------------------
Init ==
    /\ server = "starting"
    /\ instances = 0 /\ minted = {}
    /\ call = Idle /\ response = NoResponse /\ mints = 0

Next ==
    \/ \E config \in Configs : Serve(config)
    \/ \E presented \in {"agent", "wrong", "none"} : SignIn(presented) \/ Mint(presented)
    \/ \E api \in ApiAnswers : CreateInstance(api) \/ MintToken(api)
    \/ Disconnect
=============================================================================
