----------------------------- MODULE ChatProofs ------------------------------
(***************************************************************************)
(* What Chat promises for every number of slots, messages, failures, chats *)
(* left and changes of the language: a mounted panel greets its instance   *)
(* once, and once more for each switch of the language.  The invariant is  *)
(* a budget.  The mount and each switch give one chance to greet; a poll   *)
(* that finds no steps turns the chance into a request on its way, and the *)
(* API turns that into a step of the instance, or drops it.                *)
(***************************************************************************)
EXTENDS Chat, FiniteSetTheorems, SequenceTheorems, TLAPS

----------------------------------------------------------------------------
(* The budget *)

\* A greeting is executed, on its way to the API, or may still be sent: at most one of these
\* for the mount and one for each switch of the language.
Greeted == {i \in DOMAIN steps : steps[i].by = "greeting"}
Asked(s) == requests[s].op = "greeting" /\ requests[s].at = "sent"
OnTheirWay == {s \in Slots : Asked(s)}
Unspent == IF mounted /\ ~greetingAttempted THEN 1 ELSE 0

Budget ==
    /\ IsFiniteSet(OnTheirWay)
    /\ Cardinality(Greeted) + Cardinality(OnTheirWay) + Unspent <= switches + 1

Executions == {"other", "greeting", "send"}
InstanceSteps == [by : Executions, output : BOOLEAN]
Requests == [op : {"none", "poll", "greeting", "send"}, at : {"free", "sent", "answered", "failed"},
             latest : Nat]

PanelTypes ==
    /\ steps \in Seq(InstanceSteps)
    /\ requests \in [Slots -> Requests]
    /\ \A s \in Slots : requests[s].at = "sent" => requests[s].op # "none"
    /\ mounted \in BOOLEAN /\ greetingAttempted \in BOOLEAN /\ switches \in Nat

\* A chat that has steps from the start shows them to every poll, so it is never greeted.
NotFresh ==
    /\ steps # <<>>
    /\ \A s \in Slots : requests[s].op = "poll" /\ requests[s].at = "answered" => requests[s].latest > 0

Ungreeted == Greeted = {} /\ \A s \in Slots : requests[s].op # "greeting"

ChatInv ==
    /\ PanelTypes /\ Budget
    /\ mounted <=> auth = "signed in" /\ view \in Chats
    /\ ~mounted => switches = 0 /\ requests = [s \in Slots |-> Panel!Free] /\ Ungreeted
    /\ view # "mock-chat" => Ungreeted
    /\ view = "agent-chat" => NotFresh

----------------------------------------------------------------------------
(* Counting *)

LEMMA Known ==
    /\ \A op : Panel!Request(op) = [op |-> op, at |-> "sent", latest |-> 0]
    /\ Panel!Free = [op |-> "none", at |-> "free", latest |-> 0]
    /\ Panel!Free \in Requests
    /\ \A op \in {"poll", "greeting", "send"} : Panel!Request(op) \in Requests
    /\ \A by \in Executions, output \in BOOLEAN :
           Panel!Step(by, output) \in InstanceSteps /\ Panel!Step(by, output).by = by
    /\ \A S : Panel!Cardinality(S) = Cardinality(S)
<1>1. \A S : Panel!Cardinality(S) = Cardinality(S)
  BY DEF Panel!Cardinality, Cardinality
<1>2. \A by \in Executions, output \in BOOLEAN :
          Panel!Step(by, output) \in InstanceSteps /\ Panel!Step(by, output).by = by
  BY DEF Panel!Step, InstanceSteps
<1> QED BY <1>1, <1>2 DEF Panel!Request, Panel!Free, Requests

LEMMA GreetedFinite ==
    ASSUME PanelTypes PROVE IsFiniteSet(Greeted) /\ Cardinality(Greeted) \in Nat
<1>1. Len(steps) \in Nat /\ DOMAIN steps = 1 .. Len(steps)
  BY DEF PanelTypes
<1>2. IsFiniteSet(1 .. Len(steps))
  BY <1>1, FS_Interval
<1>3. IsFiniteSet(Greeted)
  BY <1>1, <1>2, FS_Subset DEF Greeted
<1> QED BY <1>3, FS_CardinalityType

(* A step of the instance counts when it is a greeting. *)
LEMMA CountExecuted ==
    ASSUME PanelTypes, NEW by \in Executions, NEW output \in BOOLEAN,
           steps' = Append(steps, Panel!Step(by, output))
    PROVE  /\ Cardinality(Greeted)' = Cardinality(Greeted) + (IF by = "greeting" THEN 1 ELSE 0)
           /\ by # "greeting" => Greeted' = Greeted
           /\ steps' \in Seq(InstanceSteps) /\ steps' # <<>> /\ Len(steps') \in Nat /\ Len(steps') > 0
<1> PICK n \in Nat : n = Len(steps)
  BY DEF PanelTypes
<1> PICK step \in InstanceSteps : step = Panel!Step(by, output) /\ step.by = by
  BY Known
<1>1. /\ steps' \in Seq(InstanceSteps) /\ Len(steps') = n + 1
      /\ DOMAIN steps = 1 .. n /\ DOMAIN steps' = 1 .. (n + 1)
      /\ \A i \in 1 .. n : steps'[i] = steps[i]
      /\ steps'[n + 1] = step
  BY DEF PanelTypes
<1>2. /\ Greeted' = {i \in 1 .. (n + 1) : steps'[i].by = "greeting"}
      /\ Greeted = {i \in 1 .. n : steps[i].by = "greeting"}
  BY <1>1 DEF Greeted
<1>3. n + 1 \notin Greeted
  BY <1>2
<1>4. CASE by = "greeting"
  <2>1. Greeted' = Greeted \cup {n + 1}
    BY <1>1, <1>2, <1>4
  <2>2. Cardinality(Greeted') = Cardinality(Greeted) + 1
    BY <1>3, <2>1, GreetedFinite, FS_AddElement
  <2> QED BY <1>1, <1>4, <2>2
<1>5. CASE by # "greeting"
  <2>1. Greeted' = Greeted
    BY <1>1, <1>2, <1>5
  <2> QED BY <1>1, <1>5, <2>1, GreetedFinite
<1> QED BY <1>4, <1>5

(* A slot gets another request. *)
LEMMA CountPut ==
    ASSUME PanelTypes, IsFiniteSet(OnTheirWay), NEW s \in Slots, NEW r \in Requests, Panel!Put(s, r)
    PROVE  /\ requests' \in [Slots -> Requests]
           /\ requests'[s] = r /\ \A t \in Slots : t # s => requests'[t] = requests[t]
           /\ IsFiniteSet(OnTheirWay')
           /\ Cardinality(OnTheirWay) \in Nat /\ Cardinality(OnTheirWay') \in Nat
           /\ Asked(s)' <=> r.op = "greeting" /\ r.at = "sent"
           /\ (Asked(s)' <=> Asked(s)) => Cardinality(OnTheirWay') = Cardinality(OnTheirWay)
           /\ Asked(s)' /\ ~Asked(s) => Cardinality(OnTheirWay') = Cardinality(OnTheirWay) + 1
           /\ ~Asked(s)' /\ Asked(s) => Cardinality(OnTheirWay') + 1 = Cardinality(OnTheirWay)
<1>1. /\ requests' \in [Slots -> Requests]
      /\ requests'[s] = r /\ \A t \in Slots : t # s => requests'[t] = requests[t]
  BY DEF Panel!Put, PanelTypes
<1>2. /\ Asked(s)' <=> r.op = "greeting" /\ r.at = "sent"
      /\ \A t \in Slots : t # s => (t \in OnTheirWay' <=> t \in OnTheirWay)
  BY <1>1 DEF Asked, OnTheirWay
<1>3. (s \in OnTheirWay <=> Asked(s)) /\ (s \in OnTheirWay' <=> Asked(s)')
  BY DEF OnTheirWay
<1>4. OnTheirWay \subseteq Slots /\ OnTheirWay' \subseteq Slots
  BY DEF OnTheirWay
<1>5. Cardinality(OnTheirWay) \in Nat
  BY FS_CardinalityType
<1>6. CASE Asked(s)' <=> Asked(s)
  <2>1. OnTheirWay' = OnTheirWay
    BY <1>2, <1>3, <1>4, <1>6
  <2> QED BY <1>1, <1>2, <1>5, <1>6, <2>1
<1>7. CASE Asked(s)' /\ ~Asked(s)
  <2>1. OnTheirWay' = OnTheirWay \cup {s} /\ s \notin OnTheirWay
    BY <1>2, <1>3, <1>4, <1>7
  <2>2. IsFiniteSet(OnTheirWay') /\ Cardinality(OnTheirWay') = Cardinality(OnTheirWay) + 1
    BY <2>1, FS_AddElement
  <2> QED BY <1>1, <1>2, <1>5, <1>7, <2>2
<1>8. CASE ~Asked(s)' /\ Asked(s)
  <2>1. OnTheirWay' = OnTheirWay \ {s} /\ s \in OnTheirWay
    BY <1>2, <1>3, <1>4, <1>8
  <2>2. IsFiniteSet(OnTheirWay') /\ Cardinality(OnTheirWay') = Cardinality(OnTheirWay) - 1
    BY <2>1, FS_RemoveElement
  <2>3. Cardinality(OnTheirWay') \in Nat
    BY <2>2, FS_CardinalityType
  <2> QED BY <1>1, <1>2, <1>5, <1>8, <2>2, <2>3
<1> QED BY <1>6, <1>7, <1>8

LEMMA ChatInit == Init => ChatInv
<1> SUFFICES ASSUME Init PROVE ChatInv
  OBVIOUS
<1>1. /\ steps = <<>> /\ mounted = FALSE /\ greetingAttempted = FALSE /\ switches = 0
      /\ requests = [s \in Slots |-> Panel!Free] /\ auth = "signed out" /\ view = "awaiting"
  BY DEF Init, Panel!Init, Panel!NoRequests
<1>2. /\ \A s \in Slots : requests[s] = Panel!Free
      /\ Panel!Free.op = "none" /\ Panel!Free.at = "free" /\ Panel!Free \in Requests
  BY <1>1, Known
<1>3. Greeted = {}
  <2>1. steps = <<>>
    BY <1>1
  <2>2. \A i : i \notin DOMAIN steps
    BY <2>1
  <2> QED BY <2>2 DEF Greeted
<1>4. Budget
  <2>1. OnTheirWay = {}
    BY <1>2 DEF OnTheirWay, Asked
  <2>2. Unspent = 0 /\ switches = 0
    BY <1>1 DEF Unspent
  <2>3. IsFiniteSet(OnTheirWay) /\ Cardinality(Greeted) = 0 /\ Cardinality(OnTheirWay) = 0
    BY <1>3, <2>1, FS_EmptySet
  <2> HIDE DEF Init
  <2>4. Cardinality(Greeted) + Cardinality(OnTheirWay) + Unspent <= switches + 1
    BY <2>2, <2>3
  <2> QED BY <2>3, <2>4 DEF Budget
<1>5. PanelTypes
  <2>1. steps \in Seq(InstanceSteps)
    <3>1. steps = <<>>
      BY <1>1
    <3> QED BY <3>1
  <2>2. requests \in [Slots -> Requests]
    BY <1>1, <1>2
  <2>3. \A s \in Slots : requests[s].at # "sent"
    BY <1>2
  <2>4. mounted \in BOOLEAN /\ greetingAttempted \in BOOLEAN /\ switches \in Nat
    BY <1>1
  <2> QED BY <2>1, <2>2, <2>3, <2>4 DEF PanelTypes
<1>6. Ungreeted
  BY <1>2, <1>3 DEF Ungreeted
<1> QED BY <1>1, <1>4, <1>5, <1>6 DEF ChatInv, Chats

----------------------------------------------------------------------------
(* The panel *)

LEMMA Numbers ==
    ASSUME ChatInv
    PROVE  /\ PanelTypes /\ IsFiniteSet(OnTheirWay)
           /\ Cardinality(Greeted) \in Nat /\ Cardinality(OnTheirWay) \in Nat /\ switches \in Nat
           /\ Cardinality(Greeted) + Cardinality(OnTheirWay) + Unspent <= switches + 1
<1>1. PanelTypes /\ Budget
  BY DEF ChatInv
<1> QED BY <1>1, GreetedFinite, FS_CardinalityType DEF Budget, PanelTypes

(* A slot in use is one of a mounted panel. *)
LEMMA InUse == ASSUME ChatInv, NEW s \in Slots, requests[s].at # "free" \/ requests[s].op # "none" PROVE mounted
<1>1. Panel!Free.op = "none" /\ Panel!Free.at = "free"
  BY Known
<1> QED BY <1>1 DEF ChatInv

(* A step about one slot, of which the effect on the budget is known. *)
LEMMA SlotPreserves ==
    ASSUME ChatInv, NEW s \in Slots, NEW r \in Requests, Panel!Put(s, r),
           r.at = "sent" => r.op # "none",
           mounted, UNCHANGED <<auth, view, mounted, switches>>, greetingAttempted' \in BOOLEAN,
           steps' \in Seq(InstanceSteps), Budget',
           view # "mock-chat" => Greeted' = {} /\ r.op # "greeting",
           view = "agent-chat" => steps' # <<>> /\ (r.op = "poll" /\ r.at = "answered" => r.latest > 0)
    PROVE  ChatInv'
<1>1. /\ requests' \in [Slots -> Requests]
      /\ requests'[s] = r /\ \A t \in Slots : t # s => requests'[t] = requests[t]
  BY Numbers, CountPut
<1>2. PanelTypes'
  <2>1. \A t \in Slots : requests'[t].at = "sent" => requests'[t].op # "none"
    BY <1>1, Numbers DEF PanelTypes
  <2> QED BY <1>1, <2>1, Numbers DEF PanelTypes
<1>3. view # "mock-chat" => Ungreeted'
  BY <1>1 DEF ChatInv, Ungreeted
<1>4. view = "agent-chat" => NotFresh'
  BY <1>1 DEF ChatInv, NotFresh
<1> QED BY <1>2, <1>3, <1>4 DEF ChatInv

(* A start clears the attempt, and sends nothing but polls. *)
LEMMA AfreshAsks ==
    ASSUME NEW pending \in [Slots -> Requests], Panel!Afresh(pending)
    PROVE  /\ requests' \in [Slots -> Requests]
           /\ \A s \in Slots : \/ requests'[s] = pending[s]
                               \/ pending[s] = Panel!Free /\ requests'[s] = Panel!Request("poll")
           /\ greetingAttempted' = FALSE /\ draft' = FALSE
<1> DEFINE poll == Panel!Request("poll")
           free == {s \in Slots : pending[s] = Panel!Free}
<1>1. PICK polls \in SUBSET free : requests' = [s \in Slots |-> IF s \in polls THEN poll ELSE pending[s]]
  BY DEF Panel!Afresh
<1>2. greetingAttempted' = FALSE /\ draft' = FALSE
  BY DEF Panel!Afresh
<1>3. poll \in Requests
  BY Known
<1> HIDE DEF poll
<1>4. requests' \in [Slots -> Requests]
  BY <1>1, <1>3
<1>5. \A s \in Slots : requests'[s] = pending[s] \/ (pending[s] = Panel!Free /\ requests'[s] = poll)
  BY <1>1
<1> QED BY <1>2, <1>4, <1>5 DEF poll

LEMMA SwitchLanguagePreserves ==
    ASSUME ChatInv, Panel!SwitchLanguage, UNCHANGED <<auth, view>> PROVE ChatInv'
<1>1. mounted /\ UNCHANGED <<steps, mounted>> /\ Panel!Afresh(requests) /\ switches' = switches + 1
  BY DEF Panel!SwitchLanguage
<1>2. /\ requests' \in [Slots -> Requests]
      /\ \A s \in Slots : \/ requests'[s] = requests[s]
                          \/ requests[s] = Panel!Free /\ requests'[s] = Panel!Request("poll")
      /\ greetingAttempted' = FALSE
  BY <1>1, Numbers, AfreshAsks DEF PanelTypes
<1>3. /\ Panel!Request("poll").op = "poll" /\ Panel!Request("poll").at = "sent"
      /\ Panel!Free.op = "none"
  BY Known
<1>4. Greeted' = Greeted /\ OnTheirWay' = OnTheirWay
  <2>1. \A s \in Slots : Asked(s)' <=> Asked(s)
    BY <1>2, <1>3 DEF Asked
  <2> QED BY <1>1, <2>1 DEF Greeted, OnTheirWay
<1>5. Budget'
  <2>1. Unspent \in {0, 1} /\ Unspent' = 1
    BY <1>1, <1>2 DEF Unspent
  <2>2. Cardinality(Greeted') = Cardinality(Greeted) /\ Cardinality(OnTheirWay') = Cardinality(OnTheirWay)
    BY <1>4
  <2>3. Cardinality(Greeted') + Cardinality(OnTheirWay') + Unspent' <= switches' + 1
    BY <1>1, <2>1, <2>2, Numbers
  <2> QED BY <1>4, <2>3, Numbers DEF Budget
<1>6. PanelTypes'
  <2>1. \A s \in Slots : requests'[s].at = "sent" => requests'[s].op # "none"
    BY <1>2, <1>3, Numbers DEF PanelTypes
  <2>2. steps' \in Seq(InstanceSteps) /\ mounted' \in BOOLEAN
    BY <1>1, Numbers DEF PanelTypes
  <2>3. switches' \in Nat
    BY <1>1, Numbers
  <2> QED BY <1>2, <2>1, <2>2, <2>3 DEF PanelTypes
<1>7. view # "mock-chat" => Ungreeted'
  BY <1>2, <1>3, <1>4 DEF ChatInv, Ungreeted
<1>8. view = "agent-chat" => NotFresh'
  BY <1>1, <1>2, <1>3 DEF ChatInv, NotFresh
<1> QED BY <1>1, <1>5, <1>6, <1>7, <1>8 DEF ChatInv

(* Tick and SendMessage: a free slot gets a request that is no greeting. *)
LEMMA AskPreserves ==
    ASSUME ChatInv, NEW s \in Panel!FreeSlots, NEW op \in {"poll", "send"}, Panel!Put(s, Panel!Request(op)),
           mounted, UNCHANGED <<auth, view, mounted, switches, steps, greetingAttempted>>
    PROVE  ChatInv'
<1>1. /\ Panel!Request(op) \in Requests /\ Panel!Request(op).op = op /\ Panel!Request(op).at = "sent"
      /\ Panel!Free.op = "none"
  BY Known
<1>2. s \in Slots /\ ~Asked(s)
  BY <1>1 DEF Panel!FreeSlots, Asked
<1>3. IsFiniteSet(OnTheirWay') /\ Cardinality(OnTheirWay') = Cardinality(OnTheirWay)
  <2>1. ~Asked(s)'
    BY <1>1, <1>2, Numbers, CountPut
  <2> QED BY <1>1, <1>2, <2>1, Numbers, CountPut
<1>4. Greeted' = Greeted /\ Unspent' = Unspent
  BY DEF Greeted, Unspent
<1>5. Budget'
  BY <1>3, <1>4, Numbers DEF Budget
<1>6. steps' \in Seq(InstanceSteps) /\ greetingAttempted' \in BOOLEAN
  BY Numbers DEF PanelTypes
<1>7. /\ view # "mock-chat" => Greeted' = {}
      /\ view = "agent-chat" => steps' # <<>>
  BY <1>4 DEF ChatInv, Ungreeted, NotFresh
<1> QED BY <1>1, <1>2, <1>5, <1>6, <1>7, SlotPreserves

LEMMA OtherPreserves ==
    ASSUME ChatInv, Panel!Other, UNCHANGED <<auth, view>> PROVE ChatInv'
<1>1. mounted /\ UNCHANGED <<mounted, greetingAttempted, requests, switches>>
  BY DEF Panel!Other
<1> PICK output \in BOOLEAN : steps' = Append(steps, Panel!Step("other", output))
  BY DEF Panel!Other, Panel!Execute
<1>2. "other" \in Executions /\ "other" # "greeting"
  BY DEF Executions
<1>3. Greeted' = Greeted /\ steps' \in Seq(InstanceSteps) /\ steps' # <<>>
  BY <1>2, Numbers, CountExecuted
<1>4. OnTheirWay' = OnTheirWay /\ Unspent' = Unspent
  BY <1>1 DEF OnTheirWay, Asked, Unspent
<1>5. Budget'
  BY <1>1, <1>3, <1>4, Numbers DEF Budget
<1>6. PanelTypes'
  BY <1>1, <1>3, Numbers DEF PanelTypes
<1> QED BY <1>1, <1>3, <1>5, <1>6 DEF ChatInv, Ungreeted, NotFresh

(* The steps after which a request is no longer on its way: what it did is in by, if anything. *)
LEMMA ExecutedKeepsBudget ==
    ASSUME ChatInv, NEW s \in Slots, NEW r \in Requests, Panel!Put(s, r), requests[s].at = "sent", r.at # "sent",
           \/ steps' = steps
           \/ /\ requests[s].op \in {"greeting", "send"}
              /\ \E output \in BOOLEAN : steps' = Append(steps, Panel!Step(requests[s].op, output)),
           UNCHANGED <<mounted, greetingAttempted, switches>>
    PROVE  /\ Budget' /\ steps' \in Seq(InstanceSteps)
           /\ requests[s].op # "greeting" => Greeted' = Greeted
           /\ steps # <<>> => steps' # <<>>
<1>1. Unspent' = Unspent
  BY DEF Unspent
<1>2. Unspent \in {0, 1}
  BY DEF Unspent
<1>3. ~Asked(s)' /\ (Asked(s) <=> requests[s].op = "greeting") /\ IsFiniteSet(OnTheirWay')
  BY Numbers, CountPut DEF Asked
<1>4. /\ Asked(s) => Cardinality(OnTheirWay') + 1 = Cardinality(OnTheirWay)
      /\ ~Asked(s) => Cardinality(OnTheirWay') = Cardinality(OnTheirWay)
      /\ Cardinality(OnTheirWay') \in Nat
  BY <1>3, Numbers, CountPut
<1>5. CASE steps' = steps
  <2>1. Greeted' = Greeted
    BY <1>5 DEF Greeted
  <2>2. Cardinality(Greeted') = Cardinality(Greeted)
    BY <2>1
  <2>3. Cardinality(Greeted') + Cardinality(OnTheirWay') + Unspent' <= switches' + 1
    BY <1>1, <1>2, <1>4, <2>2, Numbers
  <2> QED BY <1>3, <1>5, <2>1, <2>3, Numbers DEF Budget, PanelTypes
<1>6. CASE /\ requests[s].op \in {"greeting", "send"}
           /\ \E output \in BOOLEAN : steps' = Append(steps, Panel!Step(requests[s].op, output))
  <2> PICK by \in Executions, output \in BOOLEAN :
         by = requests[s].op /\ steps' = Append(steps, Panel!Step(by, output))
    BY <1>6 DEF Executions
  <2>1. /\ Cardinality(Greeted)' = Cardinality(Greeted) + (IF by = "greeting" THEN 1 ELSE 0)
        /\ by # "greeting" => Greeted' = Greeted
        /\ steps' \in Seq(InstanceSteps) /\ steps' # <<>>
    BY Numbers, CountExecuted
  <2>2. Cardinality(Greeted') + Cardinality(OnTheirWay') + Unspent' <= switches' + 1
    BY <1>1, <1>2, <1>3, <1>4, <2>1, Numbers
  <2> QED BY <1>3, <2>1, <2>2 DEF Budget
<1> QED BY <1>5, <1>6

LEMMA AnswerKind ==
    ASSUME PanelTypes, NEW s \in Slots, NEW latest \in Nat
    PROVE  LET r == [requests[s] EXCEPT !.at = "answered", !.latest = latest]
               f == [requests[s] EXCEPT !.at = "failed"]
           IN  /\ r \in Requests /\ r.op = requests[s].op /\ r.at = "answered" /\ r.latest = latest
               /\ f \in Requests /\ f.op = requests[s].op /\ f.at = "failed"
BY DEF PanelTypes, Requests

LEMMA RespondPreserves ==
    ASSUME ChatInv, NEW s \in Slots, Panel!Respond(s), UNCHANGED <<auth, view>> PROVE ChatInv'
<1> DEFINE r == [requests[s] EXCEPT !.at = "answered", !.latest = Len(steps')]
<1>1. /\ requests[s].at = "sent" /\ Panel!Put(s, r)
      /\ \/ requests[s].op = "poll" /\ steps' = steps
         \/ /\ requests[s].op # "poll"
            /\ \E output \in BOOLEAN : steps' = Append(steps, Panel!Step(requests[s].op, output))
      /\ UNCHANGED <<mounted, greetingAttempted, switches>>
  BY DEF Panel!Respond, Panel!Answered, Panel!Execute
<1>2. mounted
  BY <1>1, InUse
<1>3. requests[s].op \in {"poll", "greeting", "send"}
  BY <1>1, Numbers DEF PanelTypes, Requests
<1>4. \/ steps' = steps
      \/ /\ requests[s].op \in {"greeting", "send"}
         /\ \E output \in BOOLEAN : steps' = Append(steps, Panel!Step(requests[s].op, output))
  BY <1>1, <1>3
<1>5. Len(steps') \in Nat /\ (steps' # <<>> => Len(steps') > 0)
  <2>1. CASE steps' = steps
    BY <2>1, Numbers, EmptySeq, LenProperties DEF PanelTypes
  <2>2. ASSUME requests[s].op \in {"greeting", "send"}, NEW output \in BOOLEAN,
               steps' = Append(steps, Panel!Step(requests[s].op, output))
        PROVE  Len(steps') \in Nat /\ Len(steps') > 0
    <3> PICK by \in Executions : by = requests[s].op
      BY <2>2 DEF Executions
    <3> QED BY <2>2, Numbers, CountExecuted
  <2> QED BY <1>4, <2>1, <2>2
<1>6. r \in Requests /\ r.op = requests[s].op /\ r.at = "answered" /\ r.latest = Len(steps')
  <2> PICK latest \in Nat : latest = Len(steps')
    BY <1>5
  <2> QED BY Numbers, AnswerKind
<1> HIDE DEF r
<1>7. /\ Budget' /\ steps' \in Seq(InstanceSteps)
      /\ requests[s].op # "greeting" => Greeted' = Greeted
      /\ steps # <<>> => steps' # <<>>
  BY <1>1, <1>4, <1>6, ExecutedKeepsBudget
<1>8. /\ view # "mock-chat" => Greeted' = {} /\ r.op # "greeting"
      /\ view = "agent-chat" => steps' # <<>> /\ r.latest > 0
  BY <1>5, <1>6, <1>7 DEF ChatInv, Ungreeted, NotFresh
<1>9. greetingAttempted' \in BOOLEAN
  BY <1>1, Numbers DEF PanelTypes
<1> QED BY <1>1, <1>2, <1>6, <1>7, <1>8, <1>9, SlotPreserves

LEMMA LosePreserves ==
    ASSUME ChatInv, NEW s \in Slots, Panel!Lose(s), UNCHANGED <<auth, view>> PROVE ChatInv'
<1> DEFINE r == [requests[s] EXCEPT !.at = "failed"]
<1>1. /\ requests[s].at = "sent" /\ Panel!Put(s, r)
      /\ \/ steps' = steps
         \/ /\ requests[s].op # "poll"
            /\ \E output \in BOOLEAN : steps' = Append(steps, Panel!Step(requests[s].op, output))
      /\ UNCHANGED <<mounted, greetingAttempted, switches>>
  BY DEF Panel!Lose, Panel!FailedRequest
<1>2. mounted
  BY <1>1, InUse
<1>3. requests[s].op \in {"poll", "greeting", "send"}
  BY <1>1, Numbers DEF PanelTypes, Requests
<1>4. \/ steps' = steps
      \/ /\ requests[s].op \in {"greeting", "send"}
         /\ \E output \in BOOLEAN : steps' = Append(steps, Panel!Step(requests[s].op, output))
  BY <1>1, <1>3
<1>5. r \in Requests /\ r.op = requests[s].op /\ r.at = "failed"
  <2>1. 0 \in Nat
    OBVIOUS
  <2> QED BY <2>1, Numbers, AnswerKind
<1> HIDE DEF r
<1>6. /\ Budget' /\ steps' \in Seq(InstanceSteps)
      /\ requests[s].op # "greeting" => Greeted' = Greeted
      /\ steps # <<>> => steps' # <<>>
  BY <1>1, <1>4, <1>5, ExecutedKeepsBudget
<1>7. /\ view # "mock-chat" => Greeted' = {} /\ r.op # "greeting"
      /\ view = "agent-chat" => steps' # <<>>
  BY <1>5, <1>6 DEF ChatInv, Ungreeted, NotFresh
<1>8. greetingAttempted' \in BOOLEAN
  BY <1>1, Numbers DEF PanelTypes
<1> QED BY <1>1, <1>2, <1>5, <1>6, <1>7, <1>8, SlotPreserves

(* A request that is no longer on its way is taken. *)
LEMMA FreePreserves ==
    ASSUME ChatInv, NEW s \in Slots, Panel!Put(s, Panel!Free), mounted, ~Asked(s),
           UNCHANGED <<auth, view, mounted, switches, steps, greetingAttempted>>
    PROVE  ChatInv'
<1>1. Panel!Free \in Requests /\ Panel!Free.op = "none" /\ Panel!Free.at = "free"
  BY Known
<1>2. ~Asked(s)'
  BY <1>1, Numbers, CountPut
<1>3. IsFiniteSet(OnTheirWay') /\ Cardinality(OnTheirWay') = Cardinality(OnTheirWay)
  BY <1>1, <1>2, Numbers, CountPut
<1>4. Greeted' = Greeted /\ Unspent' = Unspent
  BY DEF Greeted, Unspent
<1>5. Budget'
  BY <1>3, <1>4, Numbers DEF Budget
<1>6. steps' \in Seq(InstanceSteps) /\ greetingAttempted' \in BOOLEAN
  BY Numbers DEF PanelTypes
<1>7. /\ view # "mock-chat" => Greeted' = {}
      /\ view = "agent-chat" => steps' # <<>>
  BY <1>4 DEF ChatInv, Ungreeted, NotFresh
<1> QED BY <1>1, <1>5, <1>6, <1>7, SlotPreserves

(* The greeting takes the chance the start gave, and only a fresh instance answers with no steps. *)
LEMMA GreetPreserves ==
    ASSUME ChatInv, NEW s \in Slots, Panel!Greet(s), ~greetingAttempted,
           requests[s].op = "poll", requests[s].at = "answered", requests[s].latest = 0,
           UNCHANGED <<auth, view, mounted, switches, steps>>
    PROVE  ChatInv'
<1> DEFINE r == Panel!Request("greeting")
<1>1. Panel!Put(s, r) /\ greetingAttempted' = TRUE
  BY DEF Panel!Greet
<1>2. r \in Requests /\ r.op = "greeting" /\ r.at = "sent"
  BY Known
<1>3. mounted
  BY InUse
<1>4. view = "mock-chat"
  <2>1. view # "agent-chat"
    <3>1. view = "agent-chat" => requests[s].latest > 0
      BY DEF ChatInv, NotFresh
    <3>2. ~ (requests[s].latest > 0)
      BY SMT
    <3> QED BY <3>1, <3>2
  <2>2. view \in Chats
    BY <1>3 DEF ChatInv
  <2> QED BY <2>1, <2>2 DEF Chats
<1> HIDE DEF r
<1>5. ~Asked(s) /\ Asked(s)'
  BY <1>1, <1>2, Numbers, CountPut DEF Asked
<1>6. IsFiniteSet(OnTheirWay') /\ Cardinality(OnTheirWay') = Cardinality(OnTheirWay) + 1
  BY <1>1, <1>2, <1>5, Numbers, CountPut
<1>7. Greeted' = Greeted /\ Unspent = 1 /\ Unspent' = 0
  BY <1>1, <1>3 DEF Greeted, Unspent
<1>8. Budget'
  <2>1. Cardinality(Greeted') = Cardinality(Greeted)
    BY <1>7
  <2>2. Cardinality(Greeted') + Cardinality(OnTheirWay') + Unspent' <= switches' + 1
    BY <1>6, <1>7, <2>1, Numbers
  <2> QED BY <1>6, <2>2 DEF Budget
<1>9. steps' \in Seq(InstanceSteps) /\ greetingAttempted' \in BOOLEAN
  BY <1>1, Numbers DEF PanelTypes
<1> QED BY <1>1, <1>2, <1>3, <1>4, <1>8, <1>9, SlotPreserves

LEMMA RefreshedPreserves ==
    ASSUME ChatInv, NEW s \in Slots, Panel!Refreshed(s), UNCHANGED <<auth, view>> PROVE ChatInv'
<1>1. requests[s].op = "poll" /\ UNCHANGED <<steps, mounted, switches>>
  BY DEF Panel!Refreshed, Panel!data
<1>2. mounted /\ ~Asked(s)
  BY <1>1, InUse DEF Asked
<1>3. \/ Panel!Put(s, Panel!Free) /\ greetingAttempted' = greetingAttempted
      \/ /\ requests[s].at = "answered" /\ requests[s].latest = 0 /\ ~greetingAttempted
         /\ Panel!Greet(s)
  BY DEF Panel!Refreshed
<1>4. CASE Panel!Put(s, Panel!Free) /\ greetingAttempted' = greetingAttempted
  BY <1>1, <1>2, <1>4, FreePreserves
<1>5. CASE /\ requests[s].at = "answered" /\ requests[s].latest = 0 /\ ~greetingAttempted
           /\ Panel!Greet(s)
  BY <1>1, <1>5, GreetPreserves
<1> QED BY <1>3, <1>4, <1>5

LEMMA ExecutedPreserves ==
    ASSUME ChatInv, NEW s \in Slots, Panel!Executed(s), UNCHANGED <<auth, view>> PROVE ChatInv'
<1>1. /\ requests[s].op \in {"greeting", "send"} /\ requests[s].at # "sent"
      /\ Panel!Put(s, Panel!Free) /\ UNCHANGED <<steps, mounted, switches, greetingAttempted>>
  BY DEF Panel!Executed, Panel!data
<1>2. mounted /\ ~Asked(s)
  BY <1>1, InUse DEF Asked
<1> QED BY <1>1, <1>2, FreePreserves

\* Only a mounted panel has a draft.
Drafting == draft => mounted

LEMMA SendMessagePreserves ==
    ASSUME ChatInv, Drafting, Panel!SendMessage, UNCHANGED <<auth, view>> PROVE ChatInv'
<1>1. /\ \E s \in Panel!FreeSlots : Panel!Put(s, Panel!Request("send"))
      /\ mounted /\ UNCHANGED <<mounted, switches, steps, greetingAttempted>>
  BY DEF Panel!SendMessage, Drafting
<1> QED BY <1>1, AskPreserves

LEMMA TypePreserves ==
    ASSUME ChatInv, Panel!Type, UNCHANGED <<auth, view>> PROVE ChatInv'
<1>1. UNCHANGED <<steps, mounted, greetingAttempted, requests, switches>>
  BY DEF Panel!Type, Panel!data
<1> QED BY <1>1 DEF ChatInv, PanelTypes, Budget, Greeted, OnTheirWay, Asked, Unspent, Ungreeted, NotFresh

LEMMA PanelPreserves == ASSUME ChatInv, Drafting, Panel!Next, UNCHANGED <<auth, view>> PROVE ChatInv' /\ Drafting'
<1>1. CASE Panel!SwitchLanguage
  BY <1>1, SwitchLanguagePreserves DEF Panel!SwitchLanguage, Panel!Afresh, Drafting
<1>2. CASE Panel!Tick
  <2>1. /\ \E s \in Panel!FreeSlots : Panel!Put(s, Panel!Request("poll"))
        /\ mounted /\ UNCHANGED <<mounted, switches, steps, greetingAttempted, draft>>
    BY <1>2 DEF Panel!Tick, Panel!data
  <2> QED BY <2>1, AskPreserves DEF Drafting
<1>3. CASE Panel!SendMessage
  BY <1>3, SendMessagePreserves DEF Panel!SendMessage, Drafting
<1>4. CASE Panel!Type
  BY <1>4, TypePreserves DEF Panel!Type, Drafting
<1>5. CASE Panel!Other
  BY <1>5, OtherPreserves DEF Panel!Other, Drafting
<1>6. ASSUME NEW s \in Slots, Panel!Respond(s) PROVE ChatInv' /\ Drafting'
  BY <1>6, RespondPreserves DEF Panel!Respond, Drafting
<1>7. ASSUME NEW s \in Slots, Panel!Lose(s) PROVE ChatInv' /\ Drafting'
  BY <1>7, LosePreserves DEF Panel!Lose, Drafting
<1>8. ASSUME NEW s \in Slots, Panel!Refreshed(s) PROVE ChatInv' /\ Drafting'
  BY <1>8, RefreshedPreserves DEF Panel!Refreshed, Drafting
<1>9. ASSUME NEW s \in Slots, Panel!Executed(s) PROVE ChatInv' /\ Drafting'
  <2>1. mounted' = mounted /\ (draft' = draft \/ draft' = FALSE)
    BY <1>9 DEF Panel!Executed
  <2> QED BY <1>9, <2>1, ExecutedPreserves DEF Drafting
<1> QED BY <1>1, <1>2, <1>3, <1>4, <1>5, <1>6, <1>7, <1>8, <1>9 DEF Panel!Next

----------------------------------------------------------------------------
(* The tab *)

(* What holds of a panel that is mounted on these steps, and of one that is not mounted. *)
LEMMA MountPreserves ==
    ASSUME NEW before \in Seq(InstanceSteps), \A i \in DOMAIN before : before[i].by # "greeting",
           Panel!Mount(before), auth' = "signed in", view' \in Chats,
           view' = "agent-chat" => before # <<>>
    PROVE  ChatInv' /\ Drafting'
<1>1. mounted' = TRUE /\ steps' = before /\ switches' = 0 /\ Panel!Afresh(Panel!NoRequests)
  BY DEF Panel!Mount
<1>2. /\ Panel!Request("poll").op = "poll" /\ Panel!Request("poll").at = "sent"
      /\ Panel!Free.op = "none" /\ Panel!Free.at = "free"
  BY Known
<1>3. /\ Panel!NoRequests \in [Slots -> Requests]
      /\ \A s \in Slots : Panel!NoRequests[s] = Panel!Free
  BY Known DEF Panel!NoRequests
<1>4. /\ requests' \in [Slots -> Requests]
      /\ \A s \in Slots : requests'[s] = Panel!Free \/ requests'[s] = Panel!Request("poll")
      /\ greetingAttempted' = FALSE
  <2> DEFINE pending == Panel!NoRequests
  <2>1. pending \in [Slots -> Requests] /\ Panel!Afresh(pending)
    BY <1>1, <1>3
  <2>2. \A s \in Slots : pending[s] = Panel!Free
    BY <1>3
  <2> HIDE DEF pending
  <2> QED BY <2>1, <2>2, AfreshAsks
<1>5. \A s \in Slots : requests'[s].op \in {"none", "poll"} /\ requests'[s].at # "answered"
                      /\ (requests'[s].at = "sent" => requests'[s].op # "none")
  BY <1>2, <1>4
<1>6. OnTheirWay' = {}
  BY <1>5 DEF OnTheirWay, Asked
<1>7. Greeted' = {}
  BY <1>1 DEF Greeted
<1>8. Budget'
  <2>1. Unspent' = 1
    BY <1>1, <1>4 DEF Unspent
  <2>2. IsFiniteSet(OnTheirWay') /\ Cardinality(Greeted') = 0 /\ Cardinality(OnTheirWay') = 0
    BY <1>6, <1>7, FS_EmptySet
  <2>3. switches' = 0
    BY <1>1
  <2>4. Cardinality(Greeted') + Cardinality(OnTheirWay') + Unspent' <= switches' + 1
    BY ONLY <2>1, <2>2, <2>3
  <2> QED BY <2>2, <2>4 DEF Budget
<1>9. PanelTypes'
  <2>1. switches' \in Nat
    BY <1>1
  <2>2. mounted' \in BOOLEAN
    BY <1>1
  <2> QED BY <1>1, <1>4, <1>5, <2>1, <2>2 DEF PanelTypes
<1>10. Ungreeted'
  BY <1>5, <1>7 DEF Ungreeted
<1>11. view' = "agent-chat" => NotFresh'
  <2>1. view' = "agent-chat" => steps' # <<>>
    BY <1>1
  <2> QED BY <1>5, <2>1 DEF NotFresh
<1> QED BY <1>1, <1>8, <1>9, <1>10, <1>11 DEF ChatInv, Drafting

(* A panel that is not mounted has nothing on its way, and nothing of its own was executed. *)
LEMMA NotMounted ==
    ASSUME mounted' = FALSE, switches' = 0, greetingAttempted' \in BOOLEAN, draft' = FALSE,
           requests' = [s \in Slots |-> Panel!Free],
           steps' \in Seq(InstanceSteps), \A i \in DOMAIN steps' : steps'[i].by # "greeting",
           view' = "agent-chat" => steps' # <<>>,
           ~ (auth' = "signed in" /\ view' \in Chats)
    PROVE  ChatInv' /\ Drafting'
<1>1. /\ \A s \in Slots : requests'[s] = Panel!Free
      /\ Panel!Free.op = "none" /\ Panel!Free.at = "free" /\ Panel!Free \in Requests
  BY Known
<1>2. Greeted' = {} /\ OnTheirWay' = {}
  BY <1>1 DEF Greeted, OnTheirWay, Asked
<1>3. Budget'
  <2>1. Unspent' = 0
    BY DEF Unspent
  <2>2. IsFiniteSet(OnTheirWay') /\ Cardinality(Greeted') = 0 /\ Cardinality(OnTheirWay') = 0
    BY <1>2, FS_EmptySet
  <2>3. Cardinality(Greeted') + Cardinality(OnTheirWay') + Unspent' <= switches' + 1
    <3>1. switches' = 0
      OBVIOUS
    <3> QED BY ONLY <2>1, <2>2, <3>1
  <2> QED BY <2>2, <2>3 DEF Budget
<1>4. PanelTypes'
  <2>1. requests' \in [Slots -> Requests]
    BY <1>1
  <2>2. \A s \in Slots : requests'[s].at = "sent" => requests'[s].op # "none"
    BY <1>1
  <2>3. switches' \in Nat /\ mounted' \in BOOLEAN
    OBVIOUS
  <2> QED BY <2>1, <2>2, <2>3 DEF PanelTypes
<1>5. Ungreeted'
  BY <1>1, <1>2 DEF Ungreeted
<1>6. view' = "agent-chat" => NotFresh'
  BY <1>1 DEF NotFresh
<1> QED BY <1>3, <1>4, <1>5, <1>6 DEF ChatInv, Drafting

LEMMA UnmountPreserves ==
    ASSUME ChatInv, Panel!Unmount, auth' # "signed in" \/ view' \notin Chats,
           view' = "agent-chat" => view = "agent-chat"
    PROVE  ChatInv' /\ Drafting'
<1>1. /\ mounted' = FALSE /\ steps' = Panel!ByOthers /\ draft' = FALSE /\ greetingAttempted' = FALSE
      /\ switches' = 0 /\ requests' = [s \in Slots |-> Panel!Free]
  BY DEF Panel!Unmount, Panel!NoRequests
<1>2. steps \in Seq(InstanceSteps)
  BY Numbers DEF PanelTypes
<1>3. steps' = [i \in 1 .. Len(steps) |-> Panel!Step("other", steps[i].output)] /\ Len(steps) \in Nat
  <2>1. DOMAIN steps = 1 .. Len(steps) /\ Len(steps) \in Nat
    BY <1>2, LenProperties
  <2> QED BY <1>1, <2>1 DEF Panel!ByOthers
<1>4. \A i \in 1 .. Len(steps) : /\ Panel!Step("other", steps[i].output) \in InstanceSteps
                                 /\ Panel!Step("other", steps[i].output).by = "other"
  <2> SUFFICES ASSUME NEW i \in 1 .. Len(steps)
               PROVE  /\ Panel!Step("other", steps[i].output) \in InstanceSteps
                      /\ Panel!Step("other", steps[i].output).by = "other"
    OBVIOUS
  <2>1. steps[i].output \in BOOLEAN
    <3>1. steps[i] \in InstanceSteps
      BY <1>2, ElementOfSeq
    <3> QED BY <3>1 DEF InstanceSteps
  <2>2. "other" \in Executions
    BY DEF Executions
  <2> QED BY <2>1, <2>2, Known
<1>5. steps' \in Seq(InstanceSteps) /\ \A i \in DOMAIN steps' : steps'[i].by # "greeting"
  <2>1. \A i \in 1 .. Len(steps) : steps'[i] \in InstanceSteps /\ steps'[i].by = "other"
    BY <1>3, <1>4
  <2>2. DOMAIN steps' = 1 .. Len(steps)
    BY <1>3
  <2>3. steps' \in [1 .. Len(steps) -> InstanceSteps]
    BY <1>3, <2>1
  <2>4. steps' \in Seq(InstanceSteps)
    BY <1>3, <2>3, SeqDef
  <2> QED BY <2>1, <2>2, <2>4
<1>6. view' = "agent-chat" => steps' # <<>>
  <2>1. view' = "agent-chat" => steps # <<>>
    BY DEF ChatInv, NotFresh
  <2>2. steps # <<>> => Len(steps) # 0
    BY <1>2, EmptySeq
  <2>3. steps' = <<>> => Len(steps) = 0
    <3>1. Len(steps') = Len(steps)
      <4>1. DOMAIN steps' = 1 .. Len(steps)
        BY <1>3
      <4>2. DOMAIN steps' = 1 .. Len(steps') /\ Len(steps') \in Nat
        BY <1>5, LenProperties
      <4> QED BY ONLY <1>3, <4>1, <4>2
    <3> QED BY <1>3, <1>5, <3>1, EmptySeq
  <2> QED BY <2>1, <2>2, <2>3
<1> QED BY <1>1, <1>5, <1>6, NotMounted

(* The tab changes where the panel is not concerned. *)
LEMMA ElsewherePreserves ==
    ASSUME ChatInv, Drafting, UNCHANGED thePanel, view' = view,
           auth = "signed in" \/ auth' = "signed in" => view \notin Chats \/ auth' = auth
    PROVE  ChatInv' /\ Drafting'
<1>1. UNCHANGED <<steps, mounted, draft, greetingAttempted, requests, switches>>
  BY DEF thePanel
<1>2. PanelTypes' /\ Budget' /\ Drafting'
  BY <1>1 DEF ChatInv, PanelTypes, Budget, Greeted, OnTheirWay, Asked, Unspent, Drafting
<1>3. (Ungreeted => Ungreeted') /\ (NotFresh => NotFresh')
  BY <1>1 DEF Ungreeted, NotFresh, Greeted
<1>4. mounted' <=> auth' = "signed in" /\ view' \in Chats
  BY <1>1 DEF ChatInv
<1> QED BY <1>1, <1>2, <1>3, <1>4 DEF ChatInv

(* The steps that change what is mounted. *)
LEMMA SignedInPreserves == ASSUME ChatInv, Drafting, SignedIn PROVE ChatInv' /\ Drafting'
<1>1. auth = "signing in" /\ view' = view /\ ~mounted
  BY DEF SignedIn, ChatInv
<1>2. CASE auth' = "signed in" /\ view \in Chats /\ Panel!Mount(steps)
  <2>1. steps \in Seq(InstanceSteps) /\ \A i \in DOMAIN steps : steps[i].by # "greeting"
    BY <1>1 DEF ChatInv, PanelTypes, Ungreeted, Greeted
  <2> QED BY <1>1, <1>2, <2>1, MountPreserves DEF ChatInv, NotFresh
<1>3. CASE UNCHANGED thePanel /\ (view \notin Chats \/ auth' = "signed out")
  BY <1>1, <1>3, ElsewherePreserves
<1> QED BY <1>1, <1>2, <1>3 DEF SignedIn

LEMMA SignOutPreserves == ASSUME ChatInv, Drafting, SignOut PROVE ChatInv' /\ Drafting'
<1>1. auth = "signed in" /\ auth' = "signed out" /\ view' = view
  BY DEF SignOut
<1>2. CASE Panel!Unmount
  BY <1>1, <1>2, UnmountPreserves
<1>3. CASE view \notin Chats /\ UNCHANGED thePanel
  BY <1>1, <1>3, ElsewherePreserves
<1> QED BY <1>2, <1>3 DEF SignOut

LEMMA BackPreserves == ASSUME ChatInv, Drafting, Back PROVE ChatInv' /\ Drafting'
<1>1. view' = "awaiting" /\ auth' = auth /\ "awaiting" \notin Chats
  BY DEF Back, Chats
<1>2. CASE Panel!Unmount
  BY <1>1, <1>2, UnmountPreserves
<1>3. CASE ~mounted /\ UNCHANGED thePanel
  <2>1. /\ UNCHANGED <<steps, mounted, draft, greetingAttempted, requests, switches>>
        /\ PanelTypes /\ switches = 0 /\ requests = [s \in Slots |-> Panel!Free] /\ Greeted = {}
        /\ draft \in BOOLEAN => draft = FALSE
    BY <1>3 DEF thePanel, ChatInv, Ungreeted, Drafting
  <2>2. PanelTypes' /\ Budget' /\ Drafting' /\ Ungreeted'
    BY <1>3, <2>1 DEF ChatInv, PanelTypes, Budget, Greeted, OnTheirWay, Asked, Unspent, Drafting, Ungreeted
  <2> QED BY <1>1, <1>3, <2>1, <2>2 DEF ChatInv
<1> QED BY <1>2, <1>3 DEF Back

LEMMA MockTestStartedPreserves == ASSUME ChatInv, Drafting, MockTestStarted PROVE ChatInv' /\ Drafting'
<1>1. auth' = auth
  BY DEF MockTestStarted
<1>2. <<>> \in Seq(InstanceSteps) /\ DOMAIN <<>> = {}
  OBVIOUS
<1>3. CASE auth = "signed in" /\ view' = "mock-chat" /\ Panel!Mount(<<>>)
  <2> DEFINE before == <<>>
  <2>1. before \in Seq(InstanceSteps) /\ DOMAIN before = {} /\ Panel!Mount(before)
    BY <1>2, <1>3
  <2> HIDE DEF before
  <2> QED BY <1>1, <1>3, <2>1, MountPreserves DEF Chats
<1>4. CASE auth # "signed in" /\ view' = "mock-chat" /\ Panel!Of(<<>>)
  <2>1. /\ UNCHANGED <<mounted, draft, greetingAttempted, requests, switches>> /\ steps' = <<>>
    BY <1>4 DEF Panel!Of, Panel!data
  <2>2. ~mounted /\ switches = 0 /\ requests = [s \in Slots |-> Panel!Free] /\ greetingAttempted \in BOOLEAN
    BY <1>4 DEF ChatInv, PanelTypes
  <2>3. \A i : i \notin DOMAIN steps'
    BY <1>2, <2>1
  <2>4. Greeted' = {} /\ OnTheirWay' = OnTheirWay /\ Unspent' = Unspent
    BY <2>1, <2>3 DEF Greeted, OnTheirWay, Asked, Unspent
  <2>5. Budget'
    <3>1. Cardinality(Greeted') = 0
      BY <2>4, FS_EmptySet
    <3>2. Cardinality(Greeted') + Cardinality(OnTheirWay') + Unspent' <= switches' + 1
      <4>1. Unspent \in {0, 1}
        BY DEF Unspent
      <4> QED BY <2>1, <2>4, <3>1, <4>1, Numbers
    <3> QED BY <2>4, <3>2, Numbers DEF Budget
  <2>6. PanelTypes'
    <3>1. steps' \in Seq(InstanceSteps)
      BY <1>2, <2>1
    <3> QED BY <2>1, <3>1, Numbers DEF PanelTypes
  <2>7. Ungreeted'
    BY <2>1, <2>2, <2>4, Known DEF Ungreeted
  <2> QED BY <1>1, <1>4, <2>1, <2>2, <2>5, <2>6, <2>7 DEF ChatInv, Drafting
<1>5. CASE UNCHANGED thePanel /\ view' = view
  BY <1>1, <1>5, ElsewherePreserves
<1> QED BY <1>3, <1>4, <1>5 DEF MockTestStarted

LEMMA OpenAgentChatPreserves == ASSUME ChatInv, Drafting, OpenAgentChat PROVE ChatInv' /\ Drafting'
<1> DEFINE before == <<Step("other")>>
<1>1. auth' = auth /\ auth = "signed in" /\ view' = "agent-chat" /\ Panel!Mount(before)
  BY DEF OpenAgentChat, Listed
<1>2. Step("other") \in InstanceSteps /\ Step("other").by = "other"
  <2>1. "other" \in Executions
    BY DEF Executions
  <2> QED BY <2>1, Known DEF Step
<1>3. before \in Seq(InstanceSteps) /\ before # <<>> /\ \A i \in DOMAIN before : before[i].by = "other"
  BY <1>2
<1> HIDE DEF before
<1> QED BY <1>1, <1>3, MountPreserves DEF Chats

LEMMA ChatStep == ASSUME ChatInv, Drafting, [Next]_vars PROVE ChatInv' /\ Drafting'
<1>1. ASSUME NEW config \in Server!Configs, Serve(config) PROVE ChatInv' /\ Drafting'
  BY <1>1, ElsewherePreserves DEF Serve, theTab
<1>2. ASSUME NEW token, SubmitSignIn(token) PROVE ChatInv' /\ Drafting'
  BY <1>2, ElsewherePreserves DEF SubmitSignIn
<1>3. ASSUME NEW token, StartMockTest(token) PROVE ChatInv' /\ Drafting'
  BY <1>3, ElsewherePreserves DEF StartMockTest
<1>4. CASE Handle
  BY <1>4, ElsewherePreserves DEF Handle, theTab
<1>5. CASE PanelStep
  BY <1>5, PanelPreserves DEF PanelStep, theTab
<1>6. CASE UNCHANGED vars
  BY <1>6, ElsewherePreserves DEF vars, theTab
<1> QED BY <1>1, <1>2, <1>3, <1>4, <1>5, <1>6, SignedInPreserves, SignOutPreserves, BackPreserves,
           MockTestStartedPreserves, OpenAgentChatPreserves DEF Next

THEOREM ChatInvariant == Spec => [](ChatInv /\ Drafting)
<1>1. Init => ChatInv /\ Drafting
  BY ChatInit DEF Init, Panel!Init, Drafting
<1>2. ChatInv /\ Drafting /\ [Next]_vars => ChatInv' /\ Drafting'
  BY ChatStep
<1> QED BY <1>1, <1>2, PTL DEF Spec

(* However many refreshes of one panel overlap, fail or come late: a mounted panel's instance *)
(* has one greeting, and one more for each change of the language since the mount; a chat     *)
(* that waits for an agent has none.                                                          *)
THEOREM GreetedOnce == Spec => []GreetedOncePerRefresh
<1>1. ASSUME ChatInv PROVE GreetedOncePerRefresh
  <2>1. Panel!Greetings = Cardinality(Greeted)
    BY Known DEF Panel!Greetings, Greeted
  <2>2. Unspent \in {0, 1}
    BY DEF Unspent
  <2>3. CASE view = "mock-chat"
    <3>1. Cardinality(Greeted) <= 1 + switches
      BY <1>1, <2>2, Numbers
    <3> QED BY <2>1, <2>3, <3>1 DEF GreetedOncePerRefresh
  <2>4. CASE view # "mock-chat"
    <3>1. Cardinality(Greeted) = 0
      BY <1>1, <2>4, FS_EmptySet DEF ChatInv, Ungreeted
    <3> QED BY <2>1, <2>4, <3>1 DEF GreetedOncePerRefresh
  <2> QED BY <2>3, <2>4
<1> QED BY <1>1, ChatInvariant, PTL
=============================================================================
