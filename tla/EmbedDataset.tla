---------------------------- MODULE EmbedDataset ----------------------------
(***************************************************************************)
(* What an embedding dataset promises to the workflows and administrators  *)
(* that read its latest revision (docs/design/16-embedding-datasets.md):   *)
(* the corpus a workflow is served is replaced only by a corpus embedded   *)
(* from the items the dataset holds at that moment, is never taken away    *)
(* again, and retirement is final.  Jobs, revisions and their races do not *)
(* appear here: EmbedJob implements this module.                           *)
(***************************************************************************)
CONSTANTS Items,     \* the possible contents of the source_items slot
          NoItems,   \* there is no dataset yet
          NoCorpus   \* the revision has no corpus slot

VARIABLES status,    \* lifecycle status of the latest revision
          items,     \* its source items
          corpus,    \* the items its corpus was embedded from, or NoCorpus
          retired    \* its is_retired flag

vars == <<status, items, corpus, retired>>

Init ==
    /\ status = "Absent"
    /\ items = NoItems
    /\ corpus = NoCorpus
    /\ retired = FALSE

Create(s) ==
    /\ status = "Absent"
    /\ status' = "Created"
    /\ items' = s
    /\ UNCHANGED <<corpus, retired>>

\* New items replace the old ones; the old corpus keeps being served.
Resubmit(s) ==
    /\ status \in {"Created", "Ready", "Failed"}
    /\ status' = "Embedding"
    /\ items' = s
    /\ UNCHANGED <<corpus, retired>>

Begin ==
    /\ status = "Created"
    /\ status' = "Embedding"
    /\ UNCHANGED <<items, corpus, retired>>

\* Only a corpus embedded from the current items is ever published.
Publish ==
    /\ status \in {"Embedding", "Ready", "Failed"}
    /\ status' = "Ready"
    /\ corpus' = items
    /\ UNCHANGED <<items, retired>>

GiveUp ==
    /\ status \in {"Embedding", "Ready", "Failed"}
    /\ status' = "Failed"
    /\ UNCHANGED <<items, corpus, retired>>

Retire ==
    /\ status # "Absent"
    /\ ~retired
    /\ retired' = TRUE
    /\ UNCHANGED <<status, items, corpus>>

Next ==
    \/ \E s \in Items : Create(s) \/ Resubmit(s)
    \/ Begin
    \/ Publish
    \/ GiveUp
    \/ Retire

Spec == Init /\ [][Next]_vars
=============================================================================
