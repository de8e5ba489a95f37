----------------------------- MODULE Execution -----------------------------
(***************************************************************************)
(* Two views of what a dispatched step or job runs: the keys and the       *)
(* expiry of its tokens (RealmRotation), and the loop of the embed script  *)
(* that makes the calls (EmbedScript).  They tell different things apart   *)
(* and share no state, so a behaviour is one of a single view and the      *)
(* variables of the other stay put.                                        *)
(***************************************************************************)
EXTENDS RealmRotation, EmbedScript

VARIABLE view

vars == <<view, rotationVars, scriptVars>>

NoScript ==
    /\ items = <<>> /\ batch = <<>> /\ corpus = <<>> /\ kept = <<>>
    /\ size = 0 /\ start = 0 /\ origin = "none" /\ phase = "none"

Init ==
    /\ RotationInit
    /\ \/ view = "keys" /\ NoScript
       \/ view = "script" /\ ScriptInit

OfKeys(action) == view = "keys" /\ action /\ UNCHANGED <<view, scriptVars>>
OfScript(action) == view = "script" /\ action /\ UNCHANGED <<view, rotationVars>>

Next == OfKeys(RotationNext) \/ OfScript(ScriptNext)

\* Both processes handle every SIGHUP, tasks end at the latest on their timeouts, and the
\* operator and the clock go on; the worker's run timeout bounds every await of a script.
FairSpec ==
    /\ Init /\ [][Next]_vars
    /\ WF_vars(OfKeys(Operator))
    /\ WF_vars(OfKeys(ReloadApi))
    /\ WF_vars(OfKeys(ReloadConnector))
    /\ WF_vars(OfKeys(Tick))
    /\ \A t \in Tasks :
           WF_vars(OfKeys(LowerTask(t))) /\ WF_vars(OfKeys(StartRun(t))) /\ WF_vars(OfKeys(EndTask(t)))
    /\ WF_vars(OfScript(RunStep))

----------------------------------------------------------------------------
\* The batch loop of embed_script.js and the parse of its output always come to an end.
Terminates == view = "script" => <>(phase \in {"thrown", "refused", "accepted"})
============================================================================
