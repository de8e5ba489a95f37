-------------------------- MODULE EmbedScriptProofs --------------------------
(***************************************************************************)
(* Proofs about EmbedScript, for every set of ids, number of items, batch  *)
(* size and cap, and whatever endpoint and worker answer.                  *)
(***************************************************************************)
EXTENDS EmbedScript, SequenceTheorems, TLAPS

AnyItem == [id : Ids \cup {Alien}, of : Nat, flaw : Flaws]

Phases == {"looping", "awaiting", "thrown", "returned", "parsing", "refused", "accepted"}

TypeOK ==
    /\ items \in Seq(Ids)
    /\ size \in Nat \ {0}
    /\ start \in Nat
    /\ batch \in Seq(Nat)
    /\ corpus \in Seq(AnyItem)
    /\ origin \in {"script", "worker", "other"}
    /\ kept \in Seq(AnyItem)
    /\ phase \in Phases

\* The corpus so far has the vector of each of the first n items, in their order.
CoversFirst(n) ==
    /\ Len(corpus) = n
    /\ \A k \in 1 .. n : corpus[k].id = items[k] /\ corpus[k].of = k

\* Between batches the items up to `start` are covered, and a request carries the next
\* ones; what an honest script returns covers all of them.
ScriptInv ==
    /\ phase \in {"looping", "awaiting"} => origin = "script"
    /\ phase = "looping" => CoversFirst(UpTo(start, Len(items)))
    /\ phase = "awaiting" =>
          /\ start < Len(items)
          /\ CoversFirst(start)
          /\ Len(batch) = UpTo(size, Len(items) - start)
          /\ \A k \in 1 .. Len(batch) : batch[k] = start + k
    /\ phase \in {"returned", "parsing", "accepted"} /\ origin = "script" => CoversFirst(Len(items))

\* What the parser has kept is the beginning of the corpus, and nothing to refuse is in it.
ParseInv ==
    /\ Len(kept) <= Len(corpus)
    /\ phase \in {"looping", "awaiting", "returned"} => kept = << >>
    /\ phase \in {"parsing", "accepted"} => origin # "other" /\ Len(corpus) <= MaxCorpusItems
    /\ phase = "accepted" => Len(kept) = Len(corpus)
    /\ phase = "refused" => ~WellFormed
    /\ \A k \in 1 .. Len(kept) :
          kept[k] = corpus[k] /\ corpus[k].id \in Sources /\ corpus[k].flaw = "none"
    /\ \A j, k \in 1 .. Len(kept) : kept[j].id = kept[k].id => j = k

IInv == TypeOK /\ ScriptInv /\ ParseInv

----------------------------------------------------------------------------
LEMMA InitIInv == ScriptInit => IInv
<1> SUFFICES ASSUME ScriptInit PROVE IInv
  OBVIOUS
<1>1. items \in Seq(Ids) /\ size \in Nat \ {0} /\ start = 0 /\ batch = << >>
      /\ corpus = << >> /\ origin = "script" /\ kept = << >> /\ phase = "looping"
  BY EmbedScriptAssumption DEF ScriptInit
<1>2. TypeOK
  BY <1>1 DEF TypeOK, Phases
<1>3. UpTo(start, Len(items)) = 0
  BY <1>1 DEF UpTo
<1>4. ScriptInv /\ ParseInv
  BY <1>1, <1>3 DEF ScriptInv, ParseInv, CoversFirst
<1> QED BY <1>2, <1>4 DEF IInv

(* An answer covers the items of its batch and of all batches before it. *)
LEMMA RespondPreserves ==
    ASSUME IInv, NEW n \in 0 .. Len(batch) + 1, NEW flaws \in [1 .. n -> Flaws], Respond(flaws)
    PROVE  IInv'
<1> USE DEF IInv
<1> DEFINE last == Len(batch)
           new == Paired(flaws)
<1>1. /\ phase = "awaiting" /\ n = last /\ start < Len(items)
      /\ CoversFirst(start) /\ last = UpTo(size, Len(items) - start)
      /\ \A k \in 1 .. last : batch[k] = start + k
      /\ kept = << >> /\ origin = "script"
  <2>1. batch \in Seq(Nat) /\ Len(batch) \in Nat /\ Len(flaws) = n
    BY DEF TypeOK
  <2> QED BY <2>1 DEF Respond, CountMatches, ScriptInv, ParseInv
<1>2. /\ corpus' = corpus \o new /\ start' = start + size /\ batch' = << >>
      /\ phase' = "looping" /\ UNCHANGED <<items, size, origin, kept>>
  BY DEF Respond
<1>3. last \in Nat /\ last >= 1 /\ last <= size /\ start + last <= Len(items)
      /\ start + last = UpTo(start + size, Len(items))
  BY <1>1 DEF TypeOK, UpTo
<1>4. new \in Seq(AnyItem) /\ Len(new) = last
  <2>1. \A k \in 1 .. last : new[k] \in AnyItem
    <3> SUFFICES ASSUME NEW k \in 1 .. last PROVE new[k] \in AnyItem
      OBVIOUS
    <3>1. items[start + k] \in Ids
      BY <1>3 DEF TypeOK
    <3>2. flaws[k] \in Flaws /\ batch[k] \in Nat
      <4>1. k \in 1 .. n
        BY <1>1
      <4>2. flaws[k] \in Flaws
        BY <4>1
      <4>3. batch[k] \in Nat
        BY <1>3 DEF TypeOK
      <4> QED BY <4>2, <4>3
    <3>3. new[k] = [id |-> items[start + k], of |-> batch[k], flaw |-> flaws[k]]
      BY DEF Paired
    <3> QED BY <3>1, <3>2, <3>3 DEF AnyItem
  <2> QED BY <1>3, <2>1 DEF Paired
<1>5. /\ corpus' \in Seq(AnyItem) /\ Len(corpus') = start + last
      /\ \A k \in 1 .. start : corpus'[k] = corpus[k]
      /\ \A k \in 1 .. last : corpus'[start + k] = new[k]
  <2>1. corpus \in Seq(AnyItem) /\ Len(corpus) = start /\ start \in Nat
    BY <1>1 DEF TypeOK, CoversFirst
  <2> HIDE DEF new
  <2>2. /\ corpus' \in Seq(AnyItem) /\ Len(corpus') = start + last
        /\ \A k \in 1 .. (start + last) :
              corpus'[k] = IF k <= start THEN corpus[k] ELSE new[k - start]
    <3>1. corpus' = corpus \o new
      BY <1>2
    <3>2. /\ corpus \o new \in Seq(AnyItem)
          /\ Len(corpus \o new) = Len(corpus) + Len(new)
          /\ \A k \in 1 .. (Len(corpus) + Len(new)) :
                (corpus \o new)[k] = IF k <= Len(corpus) THEN corpus[k] ELSE new[k - Len(corpus)]
      BY <1>4, <2>1, ConcatProperties
    <3> QED BY <1>4, <2>1, <3>1, <3>2
  <2>3. \A k \in 1 .. start : corpus'[k] = corpus[k]
    <3> SUFFICES ASSUME NEW k \in 1 .. start PROVE corpus'[k] = corpus[k]
      OBVIOUS
    <3>1. k \in 1 .. (start + last) /\ k <= start
      BY <1>3, <2>1
    <3> QED BY <2>2, <3>1
  <2>4. \A k \in 1 .. last : corpus'[start + k] = new[k]
    <3> SUFFICES ASSUME NEW k \in 1 .. last PROVE corpus'[start + k] = new[k]
      OBVIOUS
    <3>1. /\ start + k \in 1 .. (start + last)
          /\ ~(start + k <= start)
          /\ (start + k) - start = k
      BY <1>3, <2>1
    <3>2. corpus'[start + k] = new[(start + k) - start]
      BY <2>2, <3>1
    <3> QED BY <3>1, <3>2
  <2> QED BY <2>2, <2>3, <2>4
<1>6. TypeOK'
  BY <1>2, <1>5 DEF TypeOK, Phases
<1>7. \A k \in 1 .. (start + last) : corpus'[k].id = items[k] /\ corpus'[k].of = k
  <2> SUFFICES ASSUME NEW k \in 1 .. (start + last)
               PROVE  corpus'[k].id = items[k] /\ corpus'[k].of = k
    OBVIOUS
  <2>1. CASE k <= start
    BY <1>1, <1>5, <2>1 DEF CoversFirst, TypeOK
  <2>2. CASE k > start
    <3>1. k - start \in 1 .. last /\ k = start + (k - start)
      BY <1>3, <2>2 DEF TypeOK
    <3>2. corpus'[k] = new[k - start]
      BY <1>5, <3>1
    <3>3. new[k - start].id = items[start + (k - start)] /\ new[k - start].of = batch[k - start]
      BY <3>1 DEF Paired
    <3>4. new[k - start].id = items[k] /\ new[k - start].of = k
      BY <1>1, <3>1, <3>3
    <3> QED BY <3>2, <3>4
  <2> QED BY <1>3, <2>1, <2>2 DEF TypeOK
<1>8. ScriptInv'
  BY <1>1, <1>2, <1>3, <1>5, <1>7 DEF ScriptInv, CoversFirst
<1>9. ParseInv'
  BY <1>1, <1>2, <1>5 DEF ParseInv, TypeOK
<1> QED BY <1>6, <1>8, <1>9

(* The checks of one item say the same as the declarative reading of the whole. *)
LEMMA ParseItemPreserves == IInv /\ ParseItem => IInv'
<1> SUFFICES ASSUME IInv, ParseItem PROVE IInv'
  OBVIOUS
<1> USE DEF IInv
<1> DEFINE i == Len(kept) + 1
           item == corpus[i]
<1>1. /\ phase = "parsing" /\ Len(kept) \in Nat /\ Len(corpus) \in Nat
      /\ i \in 1 .. Len(corpus) /\ item \in AnyItem
      /\ UNCHANGED <<items, size, start, batch, corpus, origin>>
  BY DEF ParseItem, TypeOK
<1>2. Sources' = Sources
  BY <1>1 DEF Sources
<1>3. CASE Acceptable(item)
  <2>1. kept' = Append(kept, item) /\ phase' = "parsing"
    BY <1>1, <1>3 DEF ParseItem
  <2>2. /\ kept' \in Seq(AnyItem) /\ Len(kept') = i
        /\ kept'[i] = item /\ \A k \in 1 .. Len(kept) : kept'[k] = kept[k]
    BY <1>1, <2>1 DEF TypeOK
  <2>3. \A k \in 1 .. Len(kept) : kept[k].id # item.id
    BY <1>3 DEF Acceptable, SeenIds
  <2>4. TypeOK' /\ ScriptInv'
    BY <1>1, <2>1, <2>2 DEF TypeOK, ScriptInv, CoversFirst
  <2>5. \A k \in 1 .. Len(kept') :
            kept'[k] = corpus[k] /\ corpus[k].id \in Sources /\ corpus[k].flaw = "none"
    BY <1>1, <1>3, <2>2 DEF ParseInv, Acceptable
  <2>6. \A j, k \in 1 .. Len(kept') : kept'[j].id = kept'[k].id => j = k
    BY <1>1, <2>2, <2>3 DEF ParseInv
  <2>7. ParseInv'
    BY <1>1, <1>2, <2>1, <2>2, <2>5, <2>6 DEF ParseInv
  <2> QED BY <2>4, <2>7
<1>4. CASE ~Acceptable(item)
  <2>1. phase' = "refused" /\ kept' = kept
    BY <1>1, <1>4 DEF ParseItem
  <2>2. ~WellFormed
    <3>1. CASE item.id \notin Sources \/ item.flaw # "none"
      BY <1>1, <3>1 DEF WellFormed
    <3>2. CASE item.id \in SeenIds
      <4>1. PICK k \in 1 .. Len(kept) : kept[k].id = item.id
        BY <3>2 DEF SeenIds
      <4>2. k \in 1 .. Len(corpus) /\ k # i /\ corpus[k].id = corpus[i].id
        BY <1>1, <4>1 DEF ParseInv
      <4> QED BY <1>1, <4>2 DEF WellFormed
    <3> QED BY <1>4, <3>1, <3>2 DEF Acceptable
  <2>3. WellFormed' = WellFormed
    BY <1>1, <1>2 DEF WellFormed
  <2>4. TypeOK' /\ ScriptInv'
    BY <1>1, <2>1 DEF TypeOK, Phases, ScriptInv, CoversFirst
  <2>5. ParseInv'
    BY <1>1, <1>2, <2>1, <2>2, <2>3 DEF ParseInv
  <2> QED BY <2>4, <2>5
<1> QED BY <1>3, <1>4

(* The positions of a batch are a sequence that counts up from `start'. *)
LEMMA CountingSeq ==
  ASSUME NEW c \in Nat, NEW s \in Nat
  PROVE  /\ [k \in 1 .. c |-> s + k] \in Seq(Nat)
         /\ Len([k \in 1 .. c |-> s + k]) = c
         /\ \A k \in 1 .. c : [j \in 1 .. c |-> s + j][k] = s + k
<1> DEFINE f == [k \in 1 .. c |-> s + k]
<1>1. f \in [1 .. c -> Nat]
  OBVIOUS
<1>2. f \in Seq(Nat) /\ Len(f) = c
  <2> HIDE DEF f
  <2> QED BY <1>1
<1> QED BY <1>2

LEMMA NextIInv == IInv /\ [ScriptNext]_scriptVars => IInv'
<1> SUFFICES ASSUME IInv, [ScriptNext]_scriptVars PROVE IInv'
  OBVIOUS
<1> USE DEF IInv
<1>1. CASE UNCHANGED scriptVars
  <2>1. UNCHANGED <<items, size, start, batch, corpus, origin, kept, phase>>
    BY <1>1 DEF scriptVars
  <2>2. TypeOK'
    BY <2>1 DEF TypeOK
  <2>3. ScriptInv'
    BY <2>1 DEF ScriptInv, CoversFirst
  <2>4. WellFormed' <=> WellFormed
    BY <2>1 DEF WellFormed, Sources
  <2>5. ParseInv'
    BY <2>1, <2>4 DEF ParseInv, Sources
  <2> QED BY <2>2, <2>3, <2>5
<1>2. CASE SendBatch
  <2>1. /\ phase = "looping" /\ start < Len(items)
        /\ UNCHANGED <<items, size, start, corpus, origin, kept>>
        /\ \/ phase' = "thrown" /\ batch' = batch
           \/ phase' = "awaiting" /\ batch' = Slice
    BY <1>2 DEF SendBatch, LoopDone, TypeOK
  <2>2. UpTo(size, Len(items) - start) \in Nat
    BY <2>1 DEF UpTo, TypeOK
  <2>3. Slice \in Seq(Nat) /\ Len(Slice) = UpTo(size, Len(items) - start)
        /\ \A k \in 1 .. Len(Slice) : Slice[k] = start + k
    <3>1. start \in Nat
      BY DEF TypeOK
    <3> QED BY ONLY <2>2, <3>1, CountingSeq DEF Slice
  <2>4. TypeOK'
    BY <2>1, <2>3 DEF TypeOK, Phases
  <2>5. ScriptInv'
    BY <2>1, <2>3 DEF ScriptInv, CoversFirst, UpTo, TypeOK
  <2>6. ParseInv'
    BY <2>1 DEF ParseInv, Sources
  <2> QED BY <2>4, <2>5, <2>6
<1>3. ASSUME NEW n \in 0 .. Len(batch) + 1, NEW flaws \in [1 .. n -> Flaws], Respond(flaws)
      PROVE  IInv'
  BY <1>3, RespondPreserves
<1>4. ASSUME NEW n \in 0 .. Len(batch) + 1, NEW flaws \in [1 .. n -> Flaws], Throw(flaws)
      PROVE  IInv'
  <2>1. /\ phase = "awaiting" /\ phase' = "thrown"
        /\ UNCHANGED <<items, size, start, batch, corpus, origin, kept>>
    BY <1>4 DEF Throw
  <2>2. TypeOK'
    BY <2>1 DEF TypeOK, Phases
  <2>3. ScriptInv' /\ ParseInv'
    BY <2>1 DEF ScriptInv, ParseInv, Sources
  <2> QED BY <2>2, <2>3
<1>5. CASE ReturnOutput
  <2>1. /\ phase = "looping" /\ phase' = "returned" /\ UpTo(start, Len(items)) = Len(items)
        /\ UNCHANGED <<items, size, start, batch, corpus, origin, kept>>
    BY <1>5 DEF ReturnOutput, LoopDone, UpTo, TypeOK
  <2>2. TypeOK'
    BY <2>1 DEF TypeOK, Phases
  <2>3. ScriptInv'
    BY <2>1 DEF ScriptInv, CoversFirst
  <2>4. ParseInv'
    BY <2>1 DEF ParseInv, Sources
  <2> QED BY <2>2, <2>3, <2>4
<1>6. CASE BeginParse
  <2>1. /\ phase = "returned" /\ phase' \in {"parsing", "refused"}
        /\ phase' = "parsing" <=> origin # "other" /\ Len(corpus) <= MaxCorpusItems
        /\ UNCHANGED <<items, size, start, batch, corpus, origin, kept>>
    BY <1>6 DEF BeginParse, FitsCap
  <2>2. phase' = "refused" => ~WellFormed'
    BY <2>1 DEF WellFormed
  <2>3. TypeOK'
    BY <2>1 DEF TypeOK, Phases
  <2>4. ScriptInv'
    BY <2>1 DEF ScriptInv, CoversFirst
  <2>5. ParseInv'
    BY <2>1, <2>2 DEF ParseInv, Sources
  <2> QED BY <2>3, <2>4, <2>5
<1>7. CASE ParseItem
  BY <1>7, ParseItemPreserves
<1>8. CASE FinishParse
  <2>1. /\ phase = "parsing" /\ phase' = "accepted" /\ Len(kept) = Len(corpus)
        /\ UNCHANGED <<items, size, start, batch, corpus, origin, kept>>
    BY <1>8 DEF FinishParse, TypeOK, ParseInv
  <2>2. TypeOK'
    BY <2>1 DEF TypeOK, Phases
  <2>3. ScriptInv'
    BY <2>1 DEF ScriptInv, CoversFirst
  <2>4. ParseInv'
    BY <2>1 DEF ParseInv, Sources
  <2> QED BY <2>2, <2>3, <2>4
<1>9. ASSUME NEW n \in 0 .. MaxItems, NEW out \in [1 .. n -> Misreports], Misreport(out)
      PROVE  IInv'
  <2>1. out \in Seq(AnyItem)
    <3>1. Misreports \subseteq AnyItem
      BY EmbedScriptAssumption DEF Misreports, CorpusItems, AnyItem
    <3>2. out \in [1 .. n -> AnyItem] /\ n \in Nat
      BY <3>1, EmbedScriptAssumption
    <3> QED BY <3>2
  <2>2. /\ phase = "looping" /\ phase' = "returned" /\ corpus' = out /\ origin' = "worker"
        /\ UNCHANGED <<items, size, start, batch, kept>>
    BY <1>9 DEF Misreport
  <2>3. kept = << >> /\ Len(out) \in Nat
    BY <2>1, <2>2 DEF ParseInv
  <2>4. TypeOK' /\ ScriptInv'
    BY <2>1, <2>2 DEF TypeOK, Phases, ScriptInv
  <2>5. ParseInv'
    BY <2>1, <2>2, <2>3 DEF ParseInv
  <2> QED BY <2>4, <2>5
<1>10. CASE MisreportOther
  BY <1>10 DEF MisreportOther, TypeOK, Phases, ScriptInv, ParseInv
<1> QED
  BY <1>1, <1>2, <1>3, <1>4, <1>5, <1>6, <1>7, <1>8, <1>9, <1>10 DEF ScriptNext, RunStep

(* Every reachable state satisfies it. *)
THEOREM Invariant == ScriptSpec => []IInv
<1>1. ScriptInit => IInv
  BY InitIInv
<1>2. IInv /\ [ScriptNext]_scriptVars => IInv'
  BY NextIInv
<1> QED BY <1>1, <1>2, PTL DEF ScriptSpec

----------------------------------------------------------------------------
(* The requests of embed_script.js cover the items without gap or overlap, none is *)
(* empty and none exceeds the endpoint's batch size.                               *)
THEOREM Tiling == ScriptSpec => []BatchesTile
<1>1. IInv => BatchesTile
  <2> SUFFICES ASSUME IInv, phase = "awaiting"
               PROVE  /\ Len(batch) \in 1 .. size
                      /\ Len(corpus) = start
                      /\ batch[1] = Len(corpus) + 1
    BY DEF BatchesTile
  <2>1. /\ start < Len(items) /\ Len(corpus) = start
        /\ Len(batch) = UpTo(size, Len(items) - start)
        /\ \A k \in 1 .. Len(batch) : batch[k] = start + k
    BY DEF IInv, ScriptInv, CoversFirst
  <2>2. Len(batch) \in 1 .. size
    BY <2>1 DEF IInv, TypeOK, UpTo
  <2> QED BY <2>1, <2>2 DEF IInv, TypeOK
<1> QED BY <1>1, Invariant, PTL

(* What parse_corpus_output keeps of an honest run is the whole dataset, each item with *)
(* the vector of its own text.                                                          *)
THEOREM Completeness == ScriptSpec => []StoredCorpusIsComplete
<1>1. IInv => StoredCorpusIsComplete
  <2> SUFFICES ASSUME IInv, phase = "accepted", origin = "script"
               PROVE  /\ Len(kept) = Len(items)
                      /\ \A k \in 1 .. Len(items) : kept[k].id = items[k] /\ kept[k].of = k
    BY DEF StoredCorpusIsComplete
  <2>1. CoversFirst(Len(items))
    BY DEF IInv, ScriptInv
  <2>2. Len(kept) = Len(corpus) /\ \A k \in 1 .. Len(kept) : kept[k] = corpus[k]
    BY DEF IInv, ParseInv
  <2> QED BY <2>1, <2>2 DEF CoversFirst
<1> QED BY <1>1, Invariant, PTL

(* parse_corpus_output accepts exactly the well-formed outputs, whoever reports them, and *)
(* keeps all of an output that it accepts.                                                *)
THEOREM ParserIsReference == ScriptSpec => []ParseMatchesReference
<1>1. IInv => ParseMatchesReference
  <2> SUFFICES ASSUME IInv PROVE ParseMatchesReference
    OBVIOUS
  <2>1. ASSUME phase = "accepted" PROVE WellFormed /\ kept = corpus
    <3>1. Len(kept) = Len(corpus) /\ kept \in Seq(AnyItem) /\ corpus \in Seq(AnyItem)
          /\ \A k \in 1 .. Len(kept) : kept[k] = corpus[k]
      BY <2>1 DEF IInv, TypeOK, ParseInv
    <3>2. kept = corpus
      BY <3>1, SeqEqual
    <3>3. WellFormed
      BY <2>1, <3>2 DEF IInv, ParseInv, WellFormed
    <3> QED BY <3>2, <3>3
  <2> QED BY <2>1 DEF IInv, ParseInv, ParseMatchesReference
<1> QED BY <1>1, Invariant, PTL
=============================================================================
