------------------------------ MODULE ChatPanel ------------------------------
(***************************************************************************)
(* The transcript of one chat in a browser (ChatPanel.tsx): refreshes that *)
(* poll every two seconds whether or not the last one answered, the        *)
(* greeting of a fresh instance, and the sender.  Answers come in any      *)
(* order, fail, or get lost after the workflow did its step; a change of   *)
(* the language makes a new `refresh`, which starts the panel afresh.      *)
(* What is asked by a panel that was left counts as another client's.      *)
(* The workflow instance is external; the output of a step is the whole    *)
(* transcript, or nothing when the step failed.                            *)
(***************************************************************************)
EXTENDS Naturals, Sequences, FiniteSets

CONSTANTS Slots,        \* bound: requests in flight at a time, polls beyond it are not sent
          MaxSends, MaxOthers, MaxFailures, MaxSwitches   \* bounds

VARIABLES steps,      \* the instance: who executed each step, and whether it has an output
          mounted,
          shown,      \* messages: the transcript after this many steps, 0 when empty
          draft, isInflight, error, greetingAttempted,
          requests,   \* by slot
          sends, failures,
          switches    \* of the language since the mount

data == <<sends, failures, switches>>
vars == <<steps, mounted, shown, draft, isInflight, error, greetingAttempted, requests, data>>

Request(op) == [op |-> op, at |-> "sent", latest |-> 0]
Free == [op |-> "none", at |-> "free", latest |-> 0]
FreeSlots == {s \in Slots : requests[s] = Free}
Step(by, output) == [by |-> by, output |-> output]
Put(s, request) == requests' = [requests EXCEPT ![s] = request]

----------------------------------------------------------------------------
(* The panel *)

\* The effects of a mount and of a changed `refresh`: the effect that resets the panel and
\* the one of usePoll each call refresh.
Afresh(pending) ==
    /\ shown' = 0 /\ draft' = FALSE /\ error' = FALSE /\ greetingAttempted' = FALSE
    /\ LET free == {s \in Slots : pending[s] = Free}
       IN  \E polls \in SUBSET free :
               /\ Cardinality(polls) = 2 \/ (Cardinality(polls) < 2 /\ polls = free)
               /\ requests' = [s \in Slots |-> IF s \in polls THEN Request("poll") ELSE pending[s]]

NoRequests == [s \in Slots |-> Free]

\* The instance of a panel that is not mounted.
Of(before) ==
    /\ steps' = before
    /\ UNCHANGED <<mounted, shown, draft, isInflight, error, greetingAttempted, requests, data>>

\* What was asked before the mount is asked by others.
Mount(before) ==
    /\ mounted' = TRUE /\ steps' = before /\ isInflight' = FALSE /\ switches' = 0
    /\ Afresh(NoRequests)
    /\ UNCHANGED <<sends, failures>>

\* The steps are those of others to a panel that is mounted on them again.
ByOthers == [i \in DOMAIN steps |-> Step("other", steps[i].output)]

Unmount ==
    /\ mounted
    /\ mounted' = FALSE /\ steps' = ByOthers
    /\ shown' = 0 /\ draft' = FALSE /\ error' = FALSE /\ greetingAttempted' = FALSE
    /\ isInflight' = FALSE /\ switches' = 0
    /\ requests' = NoRequests
    /\ UNCHANGED <<sends, failures>>

SwitchLanguage ==
    /\ mounted /\ switches < MaxSwitches
    /\ switches' = switches + 1
    /\ Afresh(requests)
    /\ UNCHANGED <<steps, mounted, isInflight, sends, failures>>

\* Mutant: polling waits until an error is gone.
TickUnlessError ==
    /\ mounted /\ ~error
    /\ \E s \in FreeSlots : Put(s, Request("poll"))
    /\ UNCHANGED <<steps, mounted, shown, draft, isInflight, error, greetingAttempted, data>>

Tick ==
    /\ mounted
    /\ \E s \in FreeSlots : Put(s, Request("poll"))
    /\ UNCHANGED <<steps, mounted, shown, draft, isInflight, error, greetingAttempted, data>>

\* The text area and the button are disabled while something is in flight.
Type ==
    /\ mounted /\ ~draft /\ ~isInflight /\ sends < MaxSends
    /\ draft' = TRUE
    /\ UNCHANGED <<steps, mounted, shown, isInflight, error, greetingAttempted, requests, data>>

SendMessage ==
    /\ draft /\ ~isInflight /\ sends < MaxSends
    /\ \E s \in FreeSlots : Put(s, Request("send"))
    /\ isInflight' = TRUE /\ error' = FALSE
    /\ sends' = sends + 1
    /\ UNCHANGED <<steps, mounted, shown, draft, greetingAttempted, failures, switches>>

----------------------------------------------------------------------------
(* The API *)

Answered(s, latest) == Put(s, [requests[s] EXCEPT !.at = "answered", !.latest = latest])
FailedRequest(s) == Put(s, [requests[s] EXCEPT !.at = "failed"])

\* A step that fails has no output.
Execute(by) ==
    \E output \in BOOLEAN :
        /\ output \/ failures < MaxFailures
        /\ failures' = IF output THEN failures ELSE failures + 1
        /\ steps' = Append(steps, Step(by, output))

\* The latest step at this moment; an execute makes one.
Respond(s) ==
    /\ requests[s].at = "sent"
    /\ IF requests[s].op = "poll" THEN UNCHANGED <<steps, failures>> ELSE Execute(requests[s].op)
    /\ Answered(s, Len(steps'))
    /\ UNCHANGED <<mounted, shown, draft, isInflight, error, greetingAttempted, sends, switches>>

\* A request fails before or after the workflow did its step.
Lose(s) ==
    /\ requests[s].at = "sent" /\ failures < MaxFailures
    /\ failures' = failures + 1
    /\ \/ UNCHANGED steps
       \/ /\ requests[s].op # "poll"
          /\ \E output \in BOOLEAN : steps' = Append(steps, Step(requests[s].op, output))
    /\ FailedRequest(s)
    /\ UNCHANGED <<mounted, shown, draft, isInflight, error, greetingAttempted, sends, switches>>

\* Others execute on the instance too: agents, and the customer's own page.
Other ==
    /\ mounted /\ Cardinality({i \in DOMAIN steps : steps[i].by = "other"}) < MaxOthers
    /\ Execute("other")
    /\ UNCHANGED <<mounted, shown, draft, isInflight, error, greetingAttempted, requests, sends,
                   switches>>

----------------------------------------------------------------------------
(* Answers *)

\* parseMessages: a step without an output shows nothing.
Transcript(n) == IF n > 0 /\ steps[n].output THEN n ELSE 0

\* Mutant: the attempt is not marked.
GreetUnmarked(s) ==
    /\ Put(s, Request("greeting"))
    /\ isInflight' = TRUE
    /\ UNCHANGED <<shown, error, greetingAttempted>>

Greet(s) ==
    /\ Put(s, Request("greeting"))
    /\ greetingAttempted' = TRUE
    /\ isInflight' = TRUE
    /\ UNCHANGED <<shown, error>>

\* refresh with its answer.  It shows what it got, be it older than what is shown, and
\* greets an instance without steps.
Refreshed(s) ==
    /\ requests[s].op = "poll"
    /\ CASE requests[s].at = "failed" ->
                error' = TRUE /\ Put(s, Free) /\ UNCHANGED <<shown, isInflight, greetingAttempted>>
         [] requests[s].at = "answered" /\ requests[s].latest > 0 ->
                /\ shown' = Transcript(requests[s].latest) /\ error' = FALSE /\ Put(s, Free)
                /\ UNCHANGED <<isInflight, greetingAttempted>>
         [] requests[s].at = "answered" /\ requests[s].latest = 0 /\ greetingAttempted ->
                Put(s, Free) /\ UNCHANGED <<shown, isInflight, error, greetingAttempted>>
         [] requests[s].at = "answered" /\ requests[s].latest = 0 /\ ~greetingAttempted -> Greet(s)
         [] OTHER -> FALSE
    /\ UNCHANGED <<steps, mounted, draft, data>>

\* The answer of an execute.  A greeting leaves the draft, and a failure leaves both.
Executed(s) ==
    /\ requests[s].op \in {"greeting", "send"} /\ requests[s].at # "sent"
    /\ Put(s, Free)
    /\ isInflight' = FALSE
    /\ IF requests[s].at = "failed"
         THEN error' = TRUE /\ UNCHANGED <<shown, draft>>
         ELSE /\ shown' = Transcript(requests[s].latest)
              /\ IF requests[s].op = "send" THEN draft' = FALSE /\ UNCHANGED error
                 ELSE error' = FALSE /\ UNCHANGED draft
    /\ UNCHANGED <<steps, mounted, greetingAttempted, data>>

----------------------------------------------------------------------------
Init ==
    /\ steps = <<>> /\ mounted = FALSE /\ shown = 0
    /\ draft = FALSE /\ isInflight = FALSE /\ error = FALSE /\ greetingAttempted = FALSE
    /\ requests = NoRequests
    /\ sends = 0 /\ failures = 0 /\ switches = 0

Next ==
    \/ SwitchLanguage \/ Tick \/ Type \/ SendMessage \/ Other
    \/ \E s \in Slots : Respond(s) \/ Lose(s) \/ Refreshed(s) \/ Executed(s)

Greetings == Cardinality({i \in DOMAIN steps : steps[i].by = "greeting"})

Current == mounted => shown = Transcript(Len(steps))
=============================================================================
