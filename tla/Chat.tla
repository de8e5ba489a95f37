-------------------------------- MODULE Chat ---------------------------------
(***************************************************************************)
(* One browser tab of the chat UI (App.tsx, SignIn.tsx, Awaiting.tsx) with *)
(* the chat server behind it: the agent signs in and out, and opens and    *)
(* leaves the transcript of a waiting chat or of a mock test's fresh       *)
(* instance.                                                               *)
(***************************************************************************)
EXTENDS Naturals, Sequences, FiniteSets

CONSTANTS MaxMints, Slots, MaxSends, MaxOthers, MaxFailures, MaxSwitches,
          MaxLeaves   \* bound: chats left, and signings out

VARIABLES server, instances, minted, call, response, mints,
          steps, mounted, shown, draft, isInflight, error, greetingAttempted, requests,
          sends, failures, switches,
          auth,      \* "signed out", "signing in" or "signed in"
          view,      \* what a signed-in tab shows
          minting,   \* startMockTest awaits its answer
          leaves

Server == INSTANCE ChatServer
Panel == INSTANCE ChatPanel

theServer == <<server, instances, minted, call, response, mints>>
thePanel == <<steps, mounted, shown, draft, isInflight, error, greetingAttempted, requests,
              sends, failures, switches>>
theTab == <<auth, view, minting, leaves>>
vars == <<theServer, thePanel, theTab>>

Chats == {"agent-chat", "mock-chat"}
Step(by) == Panel!Step(by, TRUE)

----------------------------------------------------------------------------
(* The chat server; one request of the tab to it is handled at a time *)

Serve(config) == Server!Serve(config) /\ UNCHANGED <<thePanel, theTab>>

Handle ==
    /\ \/ \E api \in Server!ApiAnswers : Server!CreateInstance(api) \/ Server!MintToken(api)
       \/ Server!Disconnect
    /\ UNCHANGED <<thePanel, theTab>>

Taken == response' = Server!NoResponse /\ UNCHANGED <<server, instances, minted, call, mints>>

----------------------------------------------------------------------------
(* Signing in and out *)

SubmitSignIn(token) ==
    /\ auth = "signed out"
    /\ Server!SignIn(token)
    /\ auth' = "signing in"
    /\ UNCHANGED <<thePanel, view, minting, leaves>>

\* The tab still has the view it was signed out of.
SignedIn ==
    /\ auth = "signing in" /\ response # Server!NoResponse
    /\ Taken
    /\ IF response.status = 204
         THEN /\ auth' = "signed in"
              /\ IF view \in Chats THEN Panel!Mount(steps) ELSE UNCHANGED thePanel
         ELSE auth' = "signed out" /\ UNCHANGED thePanel
    /\ UNCHANGED <<view, minting, leaves>>

SignOut ==
    /\ auth = "signed in" /\ leaves < MaxLeaves
    /\ leaves' = leaves + 1
    /\ auth' = "signed out"
    /\ IF view \in Chats THEN Panel!Unmount ELSE UNCHANGED thePanel
    /\ UNCHANGED <<theServer, view, minting>>

----------------------------------------------------------------------------
(* The list of waiting chats, and leaving it *)

Listed == auth = "signed in" /\ view = "awaiting"

\* The button is disabled until the answer is there, but a list opened again has another.
StartMockTest(token) ==
    /\ Listed
    /\ Server!Mint(token)
    /\ minting' = TRUE
    /\ UNCHANGED <<thePanel, auth, view, leaves>>

\* A mock test opens the instance it was given, whatever the tab shows by then; an error
\* leaves the view.
MockTestStarted ==
    /\ minting /\ response # Server!NoResponse
    /\ Taken
    /\ minting' = FALSE
    /\ IF response.status = 200
         THEN /\ view' = "mock-chat"
              /\ IF auth = "signed in" THEN Panel!Mount(<<>>) ELSE Panel!Of(<<>>)
         ELSE UNCHANGED <<thePanel, view>>
    /\ UNCHANGED <<auth, leaves>>

\* An agent's chat has a step from the start.
OpenAgentChat ==
    /\ Listed
    /\ view' = "agent-chat"
    /\ Panel!Mount(<<Step("other")>>)
    /\ UNCHANGED <<theServer, auth, minting, leaves>>

\* The back button of a chat, and the header's, which is there when signed out, too.
Back ==
    /\ view \in Chats /\ leaves < MaxLeaves
    /\ leaves' = leaves + 1
    /\ view' = "awaiting"
    /\ IF mounted THEN Panel!Unmount ELSE UNCHANGED thePanel
    /\ UNCHANGED <<theServer, auth, minting>>

PanelStep == Panel!Next /\ UNCHANGED <<theServer, theTab>>

----------------------------------------------------------------------------
Init ==
    /\ Server!Init /\ Panel!Init
    /\ auth = "signed out" /\ view = "awaiting" /\ minting = FALSE /\ leaves = 0

Next ==
    \/ \E config \in Server!Configs : Serve(config)
    \/ Handle
    \/ \E token \in {"agent", "wrong"} : SubmitSignIn(token)
    \/ SignedIn \/ SignOut
    \/ \E token \in {"agent", "none"} : StartMockTest(token)
    \/ MockTestStarted \/ OpenAgentChat \/ Back
    \/ PanelStep

\* The timer fires, every request is answered or fails, and the browser runs what awaits it.
Fairness ==
    /\ WF_vars(Panel!Tick /\ UNCHANGED <<theServer, theTab>>)
    /\ \A s \in Slots :
           /\ WF_vars(Panel!Respond(s) /\ UNCHANGED <<theServer, theTab>>)
           /\ WF_vars((Panel!Refreshed(s) \/ Panel!Executed(s)) /\ UNCHANGED <<theServer, theTab>>)

Spec == Init /\ [][Next]_vars /\ Fairness

----------------------------------------------------------------------------
\* The guard of the greeting stands for one `refresh`: however its polls overlap and fail,
\* a mount of a mock test's chat is greeted once, and once more for each switch of the
\* language, which makes another `refresh` and clears the guard.  A chat that waits for an
\* agent is never greeted.
GreetedOncePerRefresh ==
    mounted => Panel!Greetings <= IF view = "mock-chat" THEN 1 + switches ELSE 0

\* Answers may be shown out of order, but when the chat comes to rest the tab shows it.
CatchesUp == <>[]Panel!Current

(* Statements of the documentation that the code does not keep *)

\* README of philharmonic-chat: "The trigger is single-shot per ChatPanel mount".  A switch
\* of the language while the instance has no steps yet greets again.
GreetedOncePerMount == mounted => Panel!Greetings <= 1
=============================================================================
