----------------------------- MODULE EmbedScript -----------------------------
(***************************************************************************)
(* One run of the built-in embed script (embed_script.js) in a mechanics   *)
(* worker, and what parse_corpus_output (embed_job.rs) then makes of its   *)
(* result.  The script sends the source texts to the embed endpoint batch  *)
(* by batch and pairs each vector it gets with a source id by position     *)
(* only; the parser is the last check before the corpus is stored.  A      *)
(* vector is known by the position of the text it embeds and by what the   *)
(* two programs can object to in it.                                       *)
(***************************************************************************)
EXTENDS Naturals, Sequences

CONSTANTS Ids,             \* ids a source item can have
          EmptyId,         \* the empty string, which the script refuses as an id
          Alien,           \* an id no source item has; also that of an item without one
          MaxItems,        \* bound: source items of the dataset
          MaxBatch,        \* bound: the endpoint's max_batch_size
          MaxCorpusItems   \* caps.max_corpus_items

ASSUME EmbedScriptAssumption ==
    /\ Alien \notin Ids
    /\ EmptyId \in Ids
    /\ {MaxItems, MaxCorpusItems} \subseteq Nat
    /\ MaxBatch \in Nat \ {0}

VARIABLES items,   \* ids of the source items, in order; nothing forbids repeats
          size,    \* max_batch_size
          start,   \* the loop variable of `main`
          batch,   \* positions whose texts the pending request carries
          corpus,  \* what `main` has pushed, then what the job received
          origin,  \* of the result: the script, the worker, or "other" where it is no array
          kept,    \* what parse_corpus_output has accepted so far
          phase

scriptVars == <<items, size, start, batch, corpus, origin, kept, phase>>

\* "text" is not a finite number, "wide" no finite f32, "long" over the
\* dimension cap.
Flaws == {"none", "text", "wide", "long"}

CorpusItems == [id : Ids \cup {Alien}, of : 1 .. MaxItems, flaw : Flaws \ {"text"}]

UpTo(m, n) == IF m < n THEN m ELSE n

----------------------------------------------------------------------------
(* embed_script.js *)

LoopDone == start >= Len(items)

\* Mutant: the slice is one item too long.
SliceTooLong == [k \in 1 .. UpTo(size + 1, Len(items) - start) |-> start + k]

\* items.slice(start, start + maxBatchSize), as positions.
Slice == [k \in 1 .. UpTo(size, Len(items) - start) |-> start + k]

\* An item without a usable id throws before its batch is sent.
SendBatch ==
    /\ phase = "looping"
    /\ ~LoopDone
    /\ IF \E k \in DOMAIN Slice : items[Slice[k]] = EmptyId
         THEN phase' = "thrown" /\ UNCHANGED batch
         ELSE phase' = "awaiting" /\ batch' = Slice
    /\ UNCHANGED <<items, size, start, corpus, origin, kept>>

CountMatches(n) == n = Len(batch)

\* Mutant: a response's vectors are taken in the opposite order.
PairedReversed(flaws) ==
    [k \in 1 .. Len(batch) |->
        [id |-> items[start + 1 + Len(batch) - k], of |-> batch[k], flaw |-> flaws[k]]]

\* Each source of the batch with the vector at its position in the response.
Paired(flaws) ==
    [k \in 1 .. Len(batch) |->
        [id |-> items[start + k], of |-> batch[k], flaw |-> flaws[k]]]

\* The endpoint answers with one entry per vector, in any of the three shapes.
Respond(flaws) ==
    /\ phase = "awaiting"
    /\ CountMatches(Len(flaws))
    /\ \A k \in 1 .. Len(batch) : flaws[k] # "text"
    /\ corpus' = corpus \o Paired(flaws)
    /\ start' = start + size
    /\ batch' = << >>
    /\ phase' = "looping"
    /\ UNCHANGED <<items, size, origin, kept>>

\* A failed call, a body without vectors, a wrong count or a bad entry throws.
Throw(flaws) ==
    /\ phase = "awaiting"
    /\ \/ ~CountMatches(Len(flaws))
       \/ \E k \in 1 .. Len(flaws) : flaws[k] = "text"
    /\ phase' = "thrown"
    /\ UNCHANGED <<items, size, start, batch, corpus, origin, kept>>

ReturnOutput ==
    /\ phase = "looping"
    /\ LoopDone
    /\ phase' = "returned"
    /\ UNCHANGED <<items, size, start, batch, corpus, origin, kept>>

\* The job cannot rely on the worker: it may return some other array than the
\* script's.  The parser cannot see what a vector embeds, which is left at 1, and
\* one flaw stands for both it can see.
Misreports == {item \in CorpusItems : item.of = 1 /\ item.flaw # "wide"}

Misreport(out) ==
    /\ phase = "looping"
    /\ start = 0
    /\ corpus' = out
    /\ origin' = "worker"
    /\ phase' = "returned"
    /\ UNCHANGED <<items, size, start, batch, kept>>

\* A result without an output, or one that is not an array.
MisreportOther ==
    /\ phase = "looping"
    /\ start = 0
    /\ origin' = "other"
    /\ phase' = "returned"
    /\ UNCHANGED <<items, size, start, batch, corpus, kept>>

----------------------------------------------------------------------------
(* parse_corpus_output *)

\* Mutant: the item cap is off by one.
FitsCapLoosely == Len(corpus) <= MaxCorpusItems + 1

FitsCap == Len(corpus) <= MaxCorpusItems

BeginParse ==
    /\ phase = "returned"
    /\ phase' = IF origin # "other" /\ FitsCap THEN "parsing" ELSE "refused"
    /\ UNCHANGED <<items, size, start, batch, corpus, origin, kept>>

Sources == {items[i] : i \in 1 .. Len(items)}

SeenIds == {kept[i].id : i \in 1 .. Len(kept)}

Acceptable(item) ==
    /\ item.id \in Sources
    /\ item.id \notin SeenIds
    /\ item.flaw = "none"

ParseItem ==
    /\ phase = "parsing"
    /\ Len(kept) < Len(corpus)
    /\ LET item == corpus[Len(kept) + 1]
       IN  IF Acceptable(item)
             THEN kept' = Append(kept, item) /\ UNCHANGED phase
             ELSE phase' = "refused" /\ UNCHANGED kept
    /\ UNCHANGED <<items, size, start, batch, corpus, origin>>

FinishParse ==
    /\ phase = "parsing"
    /\ Len(kept) = Len(corpus)
    /\ phase' = "accepted"
    /\ UNCHANGED <<items, size, start, batch, corpus, origin, kept>>

----------------------------------------------------------------------------
\* Mutant: a batch size of zero is not refused.
InitAnySize ==
    /\ items \in UNION {[1 .. n -> Ids] : n \in 0 .. MaxItems}
    /\ size \in 0 .. MaxBatch
    /\ start = 0
    /\ batch = << >>
    /\ corpus = << >>
    /\ origin = "script"
    /\ kept = << >>
    /\ phase = "looping"

ScriptInit ==
    /\ items \in UNION {[1 .. n -> Ids] : n \in 0 .. MaxItems}
    /\ size \in 1 .. MaxBatch
    /\ start = 0
    /\ batch = << >>
    /\ corpus = << >>
    /\ origin = "script"
    /\ kept = << >>
    /\ phase = "looping"

RunStep ==
    \/ SendBatch
    \/ \E n \in 0 .. Len(batch) + 1 : \E flaws \in [1 .. n -> Flaws] :
          Respond(flaws) \/ Throw(flaws)
    \/ ReturnOutput
    \/ BeginParse
    \/ ParseItem
    \/ FinishParse

ScriptNext ==
    \/ RunStep
    \/ \E n \in 0 .. MaxItems : \E out \in [1 .. n -> Misreports] : Misreport(out)
    \/ MisreportOther

\* The worker's run timeout bounds every await, so the next step is owed.
ScriptSpec == ScriptInit /\ [][ScriptNext]_scriptVars /\ WF_scriptVars(RunStep)

----------------------------------------------------------------------------
\* No request exceeds the endpoint's batch size, none is empty, and the requests
\* cover the items without gap or overlap.
BatchesTile ==
    phase = "awaiting" =>
        /\ Len(batch) \in 1 .. size
        /\ Len(corpus) = start
        /\ batch[1] = Len(corpus) + 1

\* The sequential checks of parse_corpus_output accept exactly the outputs a
\* declarative reading accepts: arrays within the cap, of distinct source ids, every
\* vector storable; and they keep all of it.
WellFormed ==
    /\ origin # "other"
    /\ Len(corpus) <= MaxCorpusItems
    /\ \A k \in 1 .. Len(corpus) : corpus[k].id \in Sources /\ corpus[k].flaw = "none"
    /\ \A j, k \in 1 .. Len(corpus) : corpus[j].id = corpus[k].id => j = k

ParseMatchesReference ==
    /\ phase = "accepted" => WellFormed /\ kept = corpus
    /\ phase = "refused" => ~WellFormed

\* What is stored after an honest run is the whole dataset: parse_corpus_output
\* does not check that, it rests on the script's loop.
StoredCorpusIsComplete ==
    phase = "accepted" /\ origin = "script" =>
        /\ Len(kept) = Len(items)
        /\ \A k \in 1 .. Len(items) : kept[k].id = items[k] /\ kept[k].of = k
=============================================================================
