------------------------- MODULE RealmRotationProofs -------------------------
(***************************************************************************)
(* Proofs about RealmRotation for any number of tasks, keys and rotations, *)
(* any token lifetime and run timeout.  The invariant says, for each stage *)
(* of the procedure, which keys the two processes can hold, which keys     *)
(* dispatched work may still mint with, and which an unexpired token can   *)
(* bear.                                                                   *)
(***************************************************************************)
EXTENDS RealmRotation, TLAPS

\* Keys the two files and the two processes can hold in each stage.
StageInv ==
    /\ lowerer \in keys
    /\ stage \in {"steady", "distributing"} => lowerer = signingFile
    /\ stage = "steady" => keysFile = {signingFile} /\ keys = {signingFile}
    /\ stage = "distributing" =>
          /\ signingFile < MaxKey
          /\ keysFile = {signingFile, signingFile + 1}
          /\ keys \in {{signingFile}, keysFile}
    /\ stage \in {"switching", "draining", "overlap"} =>
          /\ signingFile > 1
          /\ keysFile = {signingFile - 1, signingFile}
          /\ keys = keysFile
    /\ stage \in {"draining", "overlap", "retiring"} => lowerer = signingFile
    /\ stage = "retiring" =>
          /\ signingFile > 1
          /\ keysFile = {signingFile}
          /\ keys \in {{signingFile - 1, signingFile}, keysFile}

\* Keys that dispatched work may still mint with, and keys of unexpired tokens.
Mintable == IF stage \in {"switching", "draining"} THEN {signingFile - 1, signingFile}
            ELSE {signingFile}

Presentable == IF stage \in {"switching", "draining", "overlap"}
                 THEN {signingFile - 1, signingFile}
               ELSE {signingFile}

\* An old token expires before the overlap does.
TokenInv ==
    \A t \in Tasks :
        /\ pc[t] = "idle" => exp[t] = 0
        /\ pc[t] = "dispatched" => exp[t] = 0 /\ held[t] \in Mintable
        /\ exp[t] <= now + Lifetime
        /\ exp[t] > now => held[t] \in Presentable
        /\ stage = "overlap" /\ held[t] # signingFile =>
              exp[t] <= now \/ exp[t] <= switched + Lifetime

----------------------------------------------------------------------------
\* Type correctness is inductive on its own once the key in the file is known
\* to have a successor whenever one is switched to.
Typed == RotationTypes /\ StageInv

LEMMA InitTyped == RotationInit => Typed
<1> SUFFICES ASSUME RotationInit PROVE Typed
  OBVIOUS
<1>1. RotationTypes
  BY RealmRotationAssumption DEF RotationInit, RotationTypes, Stages
<1>2. StageInv
  BY DEF RotationInit, StageInv
<1> QED
  BY <1>1, <1>2 DEF Typed

LEMMA TypedStep == Typed /\ [RotationNext]_rotationVars => Typed'
<1> SUFFICES ASSUME Typed, [RotationNext]_rotationVars PROVE Typed'
  OBVIOUS
<1> USE RealmRotationAssumption
<1>a. RotationTypes /\ StageInv
  BY DEF Typed
<1>1. CASE Distribute
  <2>1. RotationTypes'
    BY <1>a, <1>1 DEF Distribute, RotationTypes, Stages, taskVars
  <2>2. StageInv'
    BY <1>a, <1>1 DEF Distribute, StageInv, RotationTypes, Stages
  <2> QED
    BY <2>1, <2>2 DEF Typed
<1>2. CASE Switch
  <2>1. RotationTypes'
    BY <1>a, <1>2 DEF Switch, RotationTypes, StageInv, Stages, taskVars
  <2>2. StageInv'
    BY <1>a, <1>2 DEF Switch, StageInv, RotationTypes, Stages
  <2> QED
    BY <2>1, <2>2 DEF Typed
<1>3. CASE SwitchSeen
  BY <1>a, <1>3 DEF SwitchSeen, RotationTypes, StageInv, Stages, taskVars, Typed
<1>4. CASE BeginOverlap
  BY <1>a, <1>4 DEF BeginOverlap, RotationTypes, StageInv, Stages, taskVars, Typed
<1>5. CASE RetireKey
  BY <1>a, <1>5 DEF RetireKey, RotationTypes, StageInv, Stages, taskVars, Typed
<1>6. CASE RetireSeen
  BY <1>a, <1>6 DEF RetireSeen, RotationTypes, StageInv, Stages, taskVars, Typed
<1>7. CASE ReloadApi
  <2>1. RotationTypes'
    BY <1>a, <1>7 DEF ReloadApi, RotationTypes, operatorVars, taskVars
  <2>2. StageInv'
    BY <1>a, <1>7 DEF ReloadApi, StageInv, RotationTypes, Stages, operatorVars
  <2> QED
    BY <2>1, <2>2 DEF Typed
<1>8. CASE ReloadConnector
  <2>1. RotationTypes'
    BY <1>a, <1>8 DEF ReloadConnector, RotationTypes, operatorVars, taskVars
  <2>2. StageInv'
    BY <1>a, <1>8 DEF ReloadConnector, StageInv, RotationTypes, Stages, operatorVars
  <2> QED
    BY <2>1, <2>2 DEF Typed
<1>9. ASSUME NEW t \in Tasks,
             DispatchTask(t) \/ LowerTask(t) \/ StartRun(t) \/ CallConnector(t) \/ EndTask(t)
      PROVE Typed'
  <2>1. StageInv'
    BY <1>a, <1>9 DEF DispatchTask, LowerTask, StartRun, CallConnector, EndTask,
                      operatorVars, StageInv
  <2>2. RotationTypes'
    <3>1. CASE DispatchTask(t)
      BY <1>a, <3>1 DEF DispatchTask, operatorVars, RotationTypes
    <3>2. CASE LowerTask(t)
      BY <1>a, <3>2 DEF LowerTask, Expiry, operatorVars, RotationTypes
    <3>3. CASE StartRun(t)
      BY <1>a, <3>3 DEF StartRun, operatorVars, RotationTypes
    <3>4. CASE CallConnector(t)
      BY <1>a, <3>4 DEF CallConnector, Verdict, operatorVars, RotationTypes
    <3>5. CASE EndTask(t)
      BY <1>a, <3>5 DEF EndTask, operatorVars, RotationTypes
    <3> QED
      BY <1>9, <3>1, <3>2, <3>3, <3>4, <3>5
  <2> QED
    BY <2>1, <2>2 DEF Typed
<1>10. CASE Tick
  <2>1. RotationTypes'
    BY <1>a, <1>10 DEF Tick, operatorVars, taskVars, RotationTypes
  <2>2. StageInv'
    BY <1>a, <1>10 DEF Tick, operatorVars, StageInv
  <2> QED
    BY <2>1, <2>2 DEF Typed
<1>11. CASE UNCHANGED rotationVars
  BY <1>a, <1>11 DEF rotationVars, RotationTypes, StageInv, Typed
<1> QED
  BY <1>1, <1>2, <1>3, <1>4, <1>5, <1>6, <1>7, <1>8, <1>9, <1>10, <1>11
  DEF RotationNext, Operator

\* The times and keys stay in their ranges.
THEOREM TypeCorrect == RotationSpec => []RotationTypes
<1>1. Typed => RotationTypes
  BY DEF Typed
<1> QED
  BY InitTyped, TypedStep, <1>1, PTL DEF RotationSpec

\* Whatever the two processes reload and in which order, the lowerer's key is one
\* the connector has.
THEOREM KeyKnown == RotationSpec => []LowererKeyKnown
<1>1. Typed => LowererKeyKnown
  BY DEF Typed, StageInv, LowererKeyKnown
<1> QED
  BY InitTyped, TypedStep, <1>1, PTL DEF RotationSpec

----------------------------------------------------------------------------
\* The operator lets dispatched work lower first: then the documented overlap is
\* enough.
RotationStrong == Typed /\ TokenInv

LEMMA InitTokens == RotationInit => TokenInv
<1> SUFFICES ASSUME RotationInit, NEW t \in Tasks
             PROVE  /\ pc[t] = "idle" => exp[t] = 0
                    /\ pc[t] = "dispatched" => exp[t] = 0 /\ held[t] \in Mintable
                    /\ exp[t] <= now + Lifetime
                    /\ exp[t] > now => held[t] \in Presentable
                    /\ stage = "overlap" /\ held[t] # signingFile =>
                          exp[t] <= now \/ exp[t] <= switched + Lifetime
  BY DEF TokenInv
<1> QED
  BY RealmRotationAssumption DEF RotationInit

LEMMA TokenStep ==
    ASSUME DrainFirst
    PROVE  RotationStrong /\ [RotationNext]_rotationVars => TokenInv'
<1> SUFFICES ASSUME RotationStrong, [RotationNext]_rotationVars, NEW t \in Tasks
             PROVE  /\ pc'[t] = "idle" => exp'[t] = 0
                    /\ pc'[t] = "dispatched" => exp'[t] = 0 /\ held'[t] \in Mintable'
                    /\ exp'[t] <= now' + Lifetime
                    /\ exp'[t] > now' => held'[t] \in Presentable'
                    /\ stage' = "overlap" /\ held'[t] # signingFile' =>
                          exp'[t] <= now' \/ exp'[t] <= switched' + Lifetime
  BY DEF TokenInv
<1> USE RealmRotationAssumption
<1>a. RotationTypes /\ StageInv
  BY DEF RotationStrong, Typed
<1>b. /\ pc[t] = "idle" => exp[t] = 0
      /\ pc[t] = "dispatched" => exp[t] = 0 /\ held[t] \in Mintable
      /\ exp[t] <= now + Lifetime
      /\ exp[t] > now => held[t] \in Presentable
      /\ stage = "overlap" /\ held[t] # signingFile =>
            exp[t] <= now \/ exp[t] <= switched + Lifetime
  BY DEF RotationStrong, TokenInv
<1>c. /\ now \in Nat /\ switched \in Nat /\ signingFile \in Nat /\ exp[t] \in Nat
      /\ held[t] \in Nat
  BY <1>a DEF RotationTypes
<1>1. CASE Distribute
  BY <1>a, <1>b, <1>c, <1>1 DEF Distribute, taskVars, Mintable, Presentable
<1>2. CASE Switch
  BY <1>a, <1>b, <1>c, <1>2 DEF Switch, taskVars, Mintable, Presentable
<1>3. CASE SwitchSeen
  BY <1>a, <1>b, <1>c, <1>3 DEF SwitchSeen, taskVars, Mintable, Presentable
\* The overlap begins with no old lowerer left and every token minted by now.
<1>4. CASE BeginOverlap
  <2>1. pc[t] = "dispatched" => held[t] = signingFile
    BY <1>a, <1>4 DEF BeginOverlap, Drained, StageInv
  <2> QED
    BY <1>a, <1>b, <1>c, <1>4, <2>1
    DEF BeginOverlap, taskVars, Mintable, Presentable
\* The overlap ends when the last of those has expired.
<1>5. CASE RetireKey
  BY <1>a, <1>b, <1>c, <1>5 DEF RetireKey, taskVars, Mintable, Presentable
<1>6. CASE RetireSeen
  BY <1>a, <1>b, <1>c, <1>6 DEF RetireSeen, taskVars, Mintable, Presentable
<1>7. CASE ReloadApi
  BY <1>b, <1>7 DEF ReloadApi, operatorVars, taskVars, Mintable, Presentable
<1>8. CASE ReloadConnector
  BY <1>b, <1>8 DEF ReloadConnector, operatorVars, taskVars, Mintable, Presentable
<1>9. ASSUME NEW u \in Tasks, DispatchTask(u)
      PROVE  /\ pc'[t] = "idle" => exp'[t] = 0
             /\ pc'[t] = "dispatched" => exp'[t] = 0 /\ held'[t] \in Mintable'
             /\ exp'[t] <= now' + Lifetime
             /\ exp'[t] > now' => held'[t] \in Presentable'
             /\ stage' = "overlap" /\ held'[t] # signingFile' =>
                   exp'[t] <= now' \/ exp'[t] <= switched' + Lifetime
  <2>1. lowerer \in Mintable
    BY <1>a DEF StageInv, RotationTypes, Stages, Mintable
  <2>2. UNCHANGED <<now, switched, stage, signingFile, exp>>
    BY <1>9 DEF DispatchTask, operatorVars
  <2>3. /\ pc' = [pc EXCEPT ![u] = "dispatched"]
        /\ held' = [held EXCEPT ![u] = lowerer]
        /\ pc[u] = "idle"
    BY <1>9 DEF DispatchTask
  <2>4. CASE t = u
    BY <1>a, <1>b, <1>c, <2>1, <2>2, <2>3, <2>4 DEF RotationTypes, Mintable, Presentable
  <2>5. CASE t # u
    BY <1>a, <1>b, <2>2, <2>3, <2>5 DEF RotationTypes, Mintable, Presentable
  <2> QED
    BY <2>4, <2>5
<1>10. ASSUME NEW u \in Tasks, LowerTask(u)
       PROVE  /\ pc'[t] = "idle" => exp'[t] = 0
              /\ pc'[t] = "dispatched" => exp'[t] = 0 /\ held'[t] \in Mintable'
              /\ exp'[t] <= now' + Lifetime
              /\ exp'[t] > now' => held'[t] \in Presentable'
              /\ stage' = "overlap" /\ held'[t] # signingFile' =>
                    exp'[t] <= now' \/ exp'[t] <= switched' + Lifetime
  <2>1. UNCHANGED <<now, switched, stage, signingFile, held>>
    BY <1>10 DEF LowerTask, operatorVars
  <2>2. /\ pc' = [pc EXCEPT ![u] = "lowered"]
        /\ exp' = [exp EXCEPT ![u] = now + Lifetime]
        /\ pc[u] = "dispatched"
    BY <1>10 DEF LowerTask, Expiry
  <2>3. CASE t = u
    BY <1>a, <1>b, <1>c, <2>1, <2>2, <2>3 DEF RotationTypes, Mintable, Presentable
  <2>4. CASE t # u
    BY <1>a, <1>b, <2>1, <2>2, <2>4 DEF RotationTypes, Mintable, Presentable
  <2> QED
    BY <2>3, <2>4
<1>11. ASSUME NEW u \in Tasks, StartRun(u) \/ CallConnector(u) \/ EndTask(u)
       PROVE  /\ pc'[t] = "idle" => exp'[t] = 0
              /\ pc'[t] = "dispatched" => exp'[t] = 0 /\ held'[t] \in Mintable'
              /\ exp'[t] <= now' + Lifetime
              /\ exp'[t] > now' => held'[t] \in Presentable'
              /\ stage' = "overlap" /\ held'[t] # signingFile' =>
                    exp'[t] <= now' \/ exp'[t] <= switched' + Lifetime
  <2>1. UNCHANGED <<now, switched, stage, signingFile, held, exp>>
    BY <1>11 DEF StartRun, CallConnector, EndTask, operatorVars
  <2>2. pc'[t] = pc[t] \/ pc'[t] \in {"running", "ended"}
    BY <1>a, <1>11 DEF StartRun, CallConnector, EndTask, RotationTypes
  <2> QED
    BY <1>b, <2>1, <2>2 DEF Mintable, Presentable
<1>12. CASE Tick
  BY <1>b, <1>c, <1>12 DEF Tick, operatorVars, taskVars, Mintable, Presentable
<1>13. CASE UNCHANGED rotationVars
  BY <1>b, <1>13 DEF rotationVars, Mintable, Presentable
<1> QED
  BY <1>1, <1>2, <1>3, <1>4, <1>5, <1>6, <1>7, <1>8, <1>9, <1>10, <1>11, <1>12, <1>13
  DEF RotationNext, Operator

\* A refusal for the key is remembered with the token it refused.
AnswerInv ==
    \A t \in Tasks :
        /\ pc[t] \in {"idle", "dispatched", "lowered"} => answer[t] = "none"
        /\ answer[t] = "unknown_key" => exp[t] <= answered[t]

LEMMA InitAnswers == RotationInit => AnswerInv
BY DEF RotationInit, AnswerInv

LEMMA AnswerStep == RotationStrong /\ AnswerInv /\ [RotationNext]_rotationVars => AnswerInv'
<1> SUFFICES ASSUME RotationStrong, AnswerInv, [RotationNext]_rotationVars, NEW t \in Tasks
             PROVE  /\ pc'[t] \in {"idle", "dispatched", "lowered"} => answer'[t] = "none"
                    /\ answer'[t] = "unknown_key" => exp'[t] <= answered'[t]
  BY DEF AnswerInv
<1>a. /\ RotationTypes
      /\ pc[t] \in {"idle", "dispatched", "lowered"} => answer[t] = "none"
      /\ answer[t] = "unknown_key" => exp[t] <= answered[t]
  BY DEF RotationStrong, Typed, AnswerInv
<1>1. CASE UNCHANGED <<pc, exp, answer, answered>>
  BY <1>a, <1>1
<1>2. ASSUME NEW u \in Tasks,
             DispatchTask(u) \/ LowerTask(u) \/ StartRun(u) \/ EndTask(u)
      PROVE  /\ pc'[t] \in {"idle", "dispatched", "lowered"} => answer'[t] = "none"
             /\ answer'[t] = "unknown_key" => exp'[t] <= answered'[t]
  BY <1>a, <1>2 DEF DispatchTask, LowerTask, StartRun, EndTask, RotationTypes
\* The connector knows every key an unexpired token can bear.
<1>3. ASSUME NEW u \in Tasks, CallConnector(u)
      PROVE  /\ pc'[t] \in {"idle", "dispatched", "lowered"} => answer'[t] = "none"
             /\ answer'[t] = "unknown_key" => exp'[t] <= answered'[t]
  <2>1. CASE t # u
    BY <1>a, <1>3, <2>1 DEF CallConnector, RotationTypes
  <2>2. CASE t = u
    <3>1. /\ pc'[t] \in {"running", "ended"}
          /\ answer'[t] = Verdict(t)
          /\ answered'[t] = now
          /\ exp'[t] = exp[t]
      BY <1>a, <1>3, <2>2 DEF CallConnector, RotationTypes
    <3>2. Presentable \subseteq keys
      BY DEF RotationStrong, Typed, RotationTypes, StageInv, Stages, Presentable
    <3>3. exp[t] > now => held[t] \in keys
      BY <3>2 DEF RotationStrong, TokenInv
    <3>4. exp[t] \in Nat /\ now \in Nat
      BY <1>a, RealmRotationAssumption DEF RotationTypes
    <3>5. Verdict(t) = "unknown_key" => exp[t] <= now
      BY <3>3, <3>4 DEF Verdict
    <3> QED
      BY <3>1, <3>5
  <2> QED
    BY <2>1, <2>2
<1>4. CASE Operator
  BY <1>1, <1>4 DEF Operator, Distribute, Switch, SwitchSeen, BeginOverlap, RetireKey,
                    RetireSeen, taskVars
<1>5. CASE ReloadApi \/ ReloadConnector \/ Tick
  BY <1>1, <1>5 DEF ReloadApi, ReloadConnector, Tick, taskVars
<1>6. CASE UNCHANGED rotationVars
  BY <1>1, <1>6 DEF rotationVars
<1> QED
  BY <1>2, <1>3, <1>4, <1>5, <1>6 DEF RotationNext

\* With the drain, no unexpired token is refused for its key: the overlap of one
\* token lifetime is enough, for every interleaving of the two reloads with the
\* work in progress.
THEOREM LiveTokensAccepted == ASSUME DrainFirst PROVE RotationSpec => []NoLiveTokenRefused
<1>1. RotationInit => RotationStrong /\ AnswerInv
  BY InitTyped, InitTokens, InitAnswers DEF RotationStrong
<1>2. RotationStrong /\ AnswerInv /\ [RotationNext]_rotationVars => (RotationStrong /\ AnswerInv)'
  BY TypedStep, TokenStep, AnswerStep DEF RotationStrong
<1>3. RotationStrong /\ AnswerInv => NoLiveTokenRefused
  BY DEF AnswerInv, NoLiveTokenRefused
<1> QED
  BY <1>1, <1>2, <1>3, PTL DEF RotationSpec

\* With the drain, nothing minted with a retired key is still alive when the
\* rotation is over.
THEOREM RetiredKeysDead == ASSUME DrainFirst PROVE RotationSpec => []RetiredKeyIsDead
<1>1. RotationInit => RotationStrong
  BY InitTyped, InitTokens DEF RotationStrong
<1>2. RotationStrong /\ [RotationNext]_rotationVars => RotationStrong'
  BY TypedStep, TokenStep DEF RotationStrong
<1>3. RotationStrong => RetiredKeyIsDead
  BY RealmRotationAssumption
  DEF RotationStrong, Typed, RotationTypes, StageInv, TokenInv, Mintable, Presentable, RetiredKeyIsDead
<1> QED
  BY <1>1, <1>2, <1>3, PTL DEF RotationSpec
=============================================================================
