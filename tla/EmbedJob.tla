------------------------------ MODULE EmbedJob ------------------------------
(***************************************************************************)
(* The embed jobs of one embedding dataset                                 *)
(* (bins/philharmonic-api-server/src/embed_job.rs).  The dataset is an     *)
(* append-only log of revisions; an append names the sequence number it    *)
(* wants and loses when that number is taken.  Each job is a task spawned  *)
(* by an API route; it reads the latest revision, embeds its items through *)
(* the dataset's embed endpoint and appends the outcome, while routes,     *)
(* other jobs, endpoint administrators and restarts of the API server      *)
(* interleave with it between any two of its awaits.                       *)
(***************************************************************************)
EXTENDS Naturals, Sequences

CONSTANTS Jobs,                 \* tasks, each dispatched at most once
          Items,                \* possible contents of the source_items slot
          NoItems,              \* a job has not loaded any items yet
          NoCorpus,             \* a revision without a corpus slot
          Routes,               \* author of the revisions that API routes append
          Tenants,
          DatasetTenant,        \* the tenant the dataset's revisions name
          EndpointTenant,       \* the tenant its embed endpoint's revisions name
          MaxRevision,          \* bound: log length up to which routes append
          MaxEndpointRevision,  \* bound: revisions of the endpoint
          MaxRestart            \* bound: restarts of the API server

ASSUME EmbedJobAssumption ==
    /\ NoItems \notin Items
    /\ NoCorpus \notin Items \cup [items : Items, endpoint : Nat]
    /\ Routes \notin Jobs
    /\ DatasetTenant \in Tenants
    /\ EndpointTenant \in Tenants
    /\ {MaxRevision, MaxEndpointRevision, MaxRestart} \subseteq Nat

VARIABLES log,        \* the dataset's revisions; log[i] has revision_seq i - 1
          endpoint,   \* the embed endpoint's revisions
          pc,         \* the await each job is suspended in
          tenant,     \* the tenant_id each job was dispatched with
          base,       \* the revision each job holds as `latest`
          loaded,     \* the source items each job loaded
          validated,  \* the endpoint revision each job validated
          lowered,    \* the endpoint revision the lowerer encrypted for it
          result,     \* what the mechanics executor returned
          verdict,    \* the Result of `run`: Ok, or the kind of its Err
          restarts

vars == <<log, endpoint, pc, tenant, base, loaded, validated, lowered,
          result, verdict, restarts>>
jobVars == <<tenant, base, loaded, validated, lowered, result, verdict>>

Statuses == {"Created", "Embedding", "Ready", "Failed"}

Corpora == [items : Items, endpoint : Nat]

Revisions == [status : Statuses, items : Items,
              corpus : Corpora \cup {NoCorpus},
              retired : BOOLEAN, author : Jobs \cup {Routes}]

EndpointRevisions == [implementation : {"embed", "other"}, retired : BOOLEAN,
                      max_batch_size : {0, 1}]

Running == {"spawned", "marking", "rereading", "loading", "validating",
            "lowering", "executing", "recording"}

\* "corpus" parses and fits, "oversized" parses but its encoding exceeds
\* max_corpus_blob_bytes, "malformed" is refused by parse_corpus_output and
\* "error" is an executor error or its timeout.
Outcomes == {"corpus", "oversized", "malformed", "error"}

\* "ok" and "failed" recorded an outcome, "conflict" lost its append to another
\* revision, "refused" is a check of the job's own that said no and "error" a
\* store, decryption or lowering call that failed.
Verdicts == {"none", "ok", "failed", "conflict", "refused", "error"}

Latest == log[Len(log)]

----------------------------------------------------------------------------
\* One step of a job that ends it with verdict v.
End(j, v) ==
    /\ pc' = [pc EXCEPT ![j] = "ended"]
    /\ verdict' = [verdict EXCEPT ![j] = v]

\* The store's primary key: sequence number n + 1 is granted to one append.
SeqFree(n) == Len(log) = n

\* The revision append_status_revision builds from the row the job holds: all
\* slots copied from it but the status and, when given, the corpus.
StatusRevision(j, status, corpus) ==
    [log[base[j]] EXCEPT !.status = status, !.corpus = corpus, !.author = j]

\* Mutant: the branch without a new corpus forgets the old one.
CarriedCorpusForgotten(j) == NoCorpus

CarriedCorpus(j) == log[base[j]].corpus

\* An endpoint revision that validate_endpoint and read_max_batch_size accept
\* for a job dispatched for tenant t.
Usable(rev, t) ==
    /\ t = EndpointTenant
    /\ ~rev.retired
    /\ rev.implementation = "embed"
    /\ rev.max_batch_size > 0

----------------------------------------------------------------------------
\* API routes.  A route that loses the race for its sequence number returns an
\* error and changes nothing, so only the winning requests appear, each as one
\* step.  dispatch_embed_dataset is entered with whatever tenant it is given.
Dispatch(j, t) ==
    /\ pc[j] = "idle"
    /\ pc' = [pc EXCEPT ![j] = "spawned"]
    /\ tenant' = [tenant EXCEPT ![j] = t]
    /\ UNCHANGED <<endpoint, base, loaded, validated, lowered, result,
                   verdict, restarts>>

CreateDataset(j, t, s) ==
    /\ log = << >>
    /\ log' = << [status |-> "Created", items |-> s, corpus |-> NoCorpus,
                  retired |-> FALSE, author |-> Routes] >>
    /\ Dispatch(j, t)

\* The update route answers 409 Conflict otherwise.
AcceptsUpdate == Latest.status # "Embedding"

UpdateDataset(j, t, s) ==
    /\ log # << >>
    /\ Len(log) < MaxRevision
    /\ AcceptsUpdate
    /\ log' = Append(log, [Latest EXCEPT !.status = "Embedding", !.items = s,
                                         !.author = Routes])
    /\ Dispatch(j, t)

RetireDataset ==
    /\ log # << >>
    /\ Len(log) < MaxRevision
    /\ ~Latest.retired
    /\ log' = Append(log, [Latest EXCEPT !.retired = TRUE, !.author = Routes])
    /\ UNCHANGED <<endpoint, pc, jobVars, restarts>>

ChangeEndpoint(rev) ==
    /\ Len(endpoint) < MaxEndpointRevision
    /\ endpoint' = Append(endpoint, rev)
    /\ UNCHANGED <<log, pc, jobVars, restarts>>

----------------------------------------------------------------------------
\* The job.  Each action is the code between two awaits of `run`.

\* Mutant: the caller's tenant is taken at its word.
StartTrusting(j) ==
    /\ pc[j] = "spawned"
    /\ base' = [base EXCEPT ![j] = Len(log)]
    /\ pc' = [pc EXCEPT ![j] = IF Latest.status = "Created"
                                 THEN "marking" ELSE "loading"]
    /\ UNCHANGED <<log, endpoint, tenant, loaded, validated, lowered, result,
                   verdict, restarts>>

\* latest_revision and the tenant and status checks on the row it returns.
Start(j) ==
    /\ pc[j] = "spawned"
    /\ base' = [base EXCEPT ![j] = Len(log)]
    /\ \/ /\ tenant[j] # DatasetTenant
          /\ End(j, "refused")
       \/ /\ tenant[j] = DatasetTenant
          /\ pc' = [pc EXCEPT ![j] = IF Latest.status = "Created"
                                       THEN "marking" ELSE "loading"]
          /\ UNCHANGED verdict
    /\ UNCHANGED <<log, endpoint, tenant, loaded, validated, lowered, result,
                   restarts>>

\* Mutant: a conflict is retried on a free number with the revision already built
\* (docs/design/05-storage-substrate.md's retry loop without its re-read).
AppendWithRetry(j, rev) == log' = Append(log, rev)

\* append_status_revision: a lost race ends the job with the store's conflict.
AppendOrConflict(j, rev) ==
    \/ /\ SeqFree(base[j])
       /\ log' = Append(log, rev)
    \/ /\ ~SeqFree(base[j])
       /\ UNCHANGED log

WriteEmbedding(j) ==
    /\ pc[j] = "marking"
    /\ AppendOrConflict(j, StatusRevision(j, "Embedding", CarriedCorpus(j)))

\* Mutant: the job goes on with the row it read before its own append.
MarkEmbeddingNoReread(j) ==
    /\ pc[j] = "marking"
    /\ AppendOrConflict(j, StatusRevision(j, "Embedding", CarriedCorpus(j)))
    /\ IF SeqFree(base[j])
         THEN pc' = [pc EXCEPT ![j] = "loading"] /\ UNCHANGED verdict
         ELSE End(j, "conflict")
    /\ UNCHANGED <<endpoint, tenant, base, loaded, validated, lowered, result,
                   restarts>>

MarkEmbedding(j) ==
    /\ WriteEmbedding(j)
    /\ IF SeqFree(base[j])
         THEN pc' = [pc EXCEPT ![j] = "rereading"] /\ UNCHANGED verdict
         ELSE End(j, "conflict")
    /\ UNCHANGED <<endpoint, tenant, base, loaded, validated, lowered, result,
                   restarts>>

\* The row read here may be newer than the one just appended.
Reread(j) ==
    /\ pc[j] = "rereading"
    /\ base' = [base EXCEPT ![j] = Len(log)]
    /\ pc' = [pc EXCEPT ![j] = "loading"]
    /\ UNCHANGED <<log, endpoint, tenant, loaded, validated, lowered, result,
                   verdict, restarts>>

LoadSourceItems(j) ==
    /\ pc[j] = "loading"
    /\ loaded' = [loaded EXCEPT ![j] = log[base[j]].items]
    /\ pc' = [pc EXCEPT ![j] = "validating"]
    /\ UNCHANGED <<log, endpoint, tenant, base, validated, lowered, result,
                   verdict, restarts>>

\* Mutant: the revalidation forgets that the endpoint may have been retired.
ValidateEndpointRetired(j) ==
    /\ pc[j] = "validating"
    /\ IF Usable([endpoint[Len(endpoint)] EXCEPT !.retired = FALSE], tenant[j])
         THEN /\ validated' = [validated EXCEPT ![j] = Len(endpoint)]
              /\ pc' = [pc EXCEPT ![j] = "lowering"]
              /\ UNCHANGED verdict
         ELSE /\ End(j, "refused")
              /\ UNCHANGED validated
    /\ UNCHANGED <<log, endpoint, tenant, base, loaded, lowered, result,
                   restarts>>

\* validate_endpoint and read_max_batch_size look at one endpoint revision.
ValidateEndpoint(j) ==
    /\ pc[j] = "validating"
    /\ IF Usable(endpoint[Len(endpoint)], tenant[j])
         THEN /\ validated' = [validated EXCEPT ![j] = Len(endpoint)]
              /\ pc' = [pc EXCEPT ![j] = "lowering"]
              /\ UNCHANGED verdict
         ELSE /\ End(j, "refused")
              /\ UNCHANGED validated
    /\ UNCHANGED <<log, endpoint, tenant, base, loaded, lowered, result,
                   restarts>>

\* The lowerer reads the endpoint's latest revision again and does not look
\* at its implementation or its is_retired flag.
Lower(j) ==
    /\ pc[j] = "lowering"
    /\ lowered' = [lowered EXCEPT ![j] = Len(endpoint)]
    /\ pc' = [pc EXCEPT ![j] = "executing"]
    /\ UNCHANGED <<log, endpoint, tenant, base, loaded, validated, result,
                   verdict, restarts>>

\* execute_with_run_timeout: always returns, at the latest on its timeout.
ExecutorReturns(j, r) ==
    /\ pc[j] = "executing"
    /\ result' = [result EXCEPT ![j] = r]
    /\ pc' = [pc EXCEPT ![j] = "recording"]
    /\ UNCHANGED <<log, endpoint, tenant, base, loaded, validated, lowered,
                   verdict, restarts>>

\* Mutant: the Ready revision is appended with the previous corpus.
RecordReadyOldCorpus(j) ==
    /\ pc[j] = "recording"
    /\ result[j] = "corpus"
    /\ AppendOrConflict(j, StatusRevision(j, "Ready", CarriedCorpus(j)))
    /\ End(j, IF SeqFree(base[j]) THEN "ok" ELSE "conflict")
    /\ UNCHANGED <<endpoint, tenant, base, loaded, validated, lowered, result,
                   restarts>>

WriteReady(j) ==
    /\ pc[j] = "recording"
    /\ result[j] = "corpus"
    /\ AppendOrConflict(j, StatusRevision(j, "Ready",
                 [items |-> loaded[j], endpoint |-> lowered[j]]))

RecordReady(j) ==
    /\ WriteReady(j)
    /\ End(j, IF SeqFree(base[j]) THEN "ok" ELSE "conflict")
    /\ UNCHANGED <<endpoint, tenant, base, loaded, validated, lowered, result,
                   restarts>>

WriteFailed(j) ==
    /\ pc[j] = "recording"
    /\ result[j] \in {"malformed", "error"}
    /\ AppendOrConflict(j, StatusRevision(j, "Failed", CarriedCorpus(j)))

RecordFailed(j) ==
    /\ WriteFailed(j)
    /\ End(j, IF SeqFree(base[j]) THEN "failed" ELSE "conflict")
    /\ UNCHANGED <<endpoint, tenant, base, loaded, validated, lowered, result,
                   restarts>>

\* The blob cap is enforced before the write: nothing at all is appended.
RefuseOversized(j) ==
    /\ pc[j] = "recording"
    /\ result[j] = "oversized"
    /\ End(j, "refused")
    /\ UNCHANGED <<log, endpoint, tenant, base, loaded, validated, lowered,
                   result, restarts>>

\* A store, decode, decryption or lowering error is returned by `?`.
CallFails(j) ==
    /\ pc[j] \in Running \ {"executing"}
    /\ End(j, "error")
    /\ UNCHANGED <<log, endpoint, tenant, base, loaded, validated, lowered,
                   result, restarts>>

\* The store does what an append asks and its answer is lost: the revision stays, and
\* the job ends as if it had not been written.
AnswerLost(j) ==
    /\ WriteEmbedding(j) \/ WriteReady(j) \/ WriteFailed(j)
    /\ End(j, "error")
    /\ UNCHANGED <<endpoint, tenant, base, loaded, validated, lowered, result,
                   restarts>>

\* Jobs live in the API process only; a restart forgets them all.
Restart ==
    /\ restarts < MaxRestart
    /\ restarts' = restarts + 1
    /\ pc' = [j \in Jobs |-> IF pc[j] \in Running THEN "lost" ELSE pc[j]]
    /\ UNCHANGED <<log, endpoint, jobVars>>

----------------------------------------------------------------------------
Init ==
    /\ log = << >>
    /\ endpoint = << [implementation |-> "embed", retired |-> FALSE,
                      max_batch_size |-> 1] >>
    /\ pc = [j \in Jobs |-> "idle"]
    /\ tenant = [j \in Jobs |-> DatasetTenant]
    /\ base = [j \in Jobs |-> 0]
    /\ loaded = [j \in Jobs |-> NoItems]
    /\ validated = [j \in Jobs |-> 0]
    /\ lowered = [j \in Jobs |-> 0]
    /\ result = [j \in Jobs |-> "none"]
    /\ verdict = [j \in Jobs |-> "none"]
    /\ restarts = 0

Route ==
    \/ \E j \in Jobs, t \in Tenants, s \in Items :
          CreateDataset(j, t, s) \/ UpdateDataset(j, t, s)
    \/ RetireDataset
    \/ \E rev \in EndpointRevisions : ChangeEndpoint(rev)

\* The steps the scheduler owes a job.
JobStep(j) ==
    \/ Start(j)
    \/ MarkEmbedding(j)
    \/ Reread(j)
    \/ LoadSourceItems(j)
    \/ ValidateEndpoint(j)
    \/ Lower(j)
    \/ \E r \in Outcomes : ExecutorReturns(j, r)
    \/ RecordReady(j)
    \/ RecordFailed(j)
    \/ RefuseOversized(j)

Next ==
    \/ Route
    \/ \E j \in Jobs : JobStep(j) \/ CallFails(j) \/ AnswerLost(j)
    \/ Restart

Spec == Init /\ [][Next]_vars

\* tokio polls every task that can run, and the executor's run timeout bounds
\* the only await that depends on a peer.
FairSpec == Spec /\ \A j \in Jobs : WF_vars(JobStep(j))

----------------------------------------------------------------------------
(* Safety *)

\* Types of the variables; a job that holds a row holds one that exists.
TypeOK ==
    /\ log \in Seq(Revisions)
    /\ endpoint \in Seq(EndpointRevisions)
    /\ Len(endpoint) > 0
    /\ pc \in [Jobs -> Running \cup {"idle", "ended", "lost"}]
    /\ tenant \in [Jobs -> Tenants]
    /\ base \in [Jobs -> Nat]
    /\ loaded \in [Jobs -> Items \cup {NoItems}]
    /\ validated \in [Jobs -> Nat]
    /\ lowered \in [Jobs -> Nat]
    /\ result \in [Jobs -> Outcomes \cup {"none"}]
    /\ verdict \in [Jobs -> Verdicts]
    /\ restarts \in Nat

\* A Ready revision is served with a corpus embedded from its own source items,
\* whatever updates, other jobs and retirements ran while the job was embedding
\* (append_status_revision copies source_items from the row the job loaded and
\* must not be retried on a newer one).
ReadyCorpusIsOfItsItems ==
    \A i \in DOMAIN log : log[i].status = "Ready" =>
        /\ log[i].corpus # NoCorpus
        /\ log[i].corpus.items = log[i].items

\* Carry-forward: from one revision to the next the corpus is kept unless the
\* new revision publishes one; it never disappears.
CorpusCarriedForward ==
    \A i \in 1 .. Len(log) - 1 :
        log[i + 1].corpus = log[i].corpus \/ log[i + 1].status = "Ready"

\* No revision written by a job that read the dataset before it was retired
\* brings it back.
RetirementIsFinal ==
    \A i \in 1 .. Len(log) - 1 : log[i].retired => log[i + 1].retired

\* A job never rewrites what the administrator submitted: only a route's update
\* changes the source items, and an update always restarts the embedding.
ItemsChangeOnlyByUpdate ==
    \A i \in 1 .. Len(log) - 1 :
        log[i + 1].items # log[i].items =>
            log[i + 1].author = Routes /\ log[i + 1].status = "Embedding"

\* A job dispatched for another tenant than the dataset's reaches neither the
\* lowerer nor the log.
TenantIsolation ==
    \A j \in Jobs : tenant[j] # DatasetTenant =>
        /\ lowered[j] = 0
        /\ \A i \in DOMAIN log : log[i].author # j

\* The work sent to the executor went through an endpoint that was, at some
\* moment after the dispatch and no later than the lowering, unretired, of the
\* job's tenant and an `embed` implementation with a usable batch size.
ExecutedEndpointWasChecked ==
    \A j \in Jobs : pc[j] \in {"executing", "recording"} =>
        /\ validated[j] \in 1 .. lowered[j]
        /\ Usable(endpoint[validated[j]], tenant[j])

\* A live dataset is left in Embedding only by a job that will still move it, or
\* by one that a restart killed or that returned an error before it could
\* record an outcome: conflicts alone never strand it.
InEmbedding == log # << >> /\ Latest.status = "Embedding" /\ ~Latest.retired

EmbeddingHasOwner ==
    InEmbedding =>
        \E j \in Jobs :
            \/ pc[j] \in {"spawned", "rereading"}
            \/ pc[j] \in Running /\ base[j] = Len(log)
            \/ pc[j] = "lost"
            \/ verdict[j] \in {"refused", "error"}

(* Action property *)

\* The revision log is append-only: no step rewrites or drops a revision, and no
\* step appends two.
LogAppendOnly ==
    [][ /\ Len(log') \in {Len(log), Len(log) + 1}
        /\ \A i \in DOMAIN log : log'[i] = log[i] ]_vars

(* Liveness *)

\* A live dataset does not stay in Embedding, unless one of its jobs was lost or
\* returned an error without recording an outcome.
EmbeddingResolves ==
    InEmbedding ~>
        \/ ~InEmbedding
        \/ \E j \in Jobs : pc[j] = "lost" \/ verdict[j] \in {"refused", "error"}

(* Refinement *)

\* Read through its latest revision, the dataset behaves as EmbedDataset says.
Dataset == INSTANCE EmbedDataset WITH
    status  <- IF log = << >> THEN "Absent" ELSE Latest.status,
    items   <- IF log = << >> THEN NoItems ELSE Latest.items,
    corpus  <- IF log = << >> THEN NoCorpus
               ELSE IF Latest.corpus = NoCorpus THEN NoCorpus
               ELSE Latest.corpus.items,
    retired <- IF log = << >> THEN FALSE ELSE Latest.retired

\* The dataset as its readers see it implements the abstract lifecycle: a corpus
\* is published only for the items current at that moment, and never lost.
ImplementsDataset == Dataset!Spec

(* Statements of the documentation that the code does not keep *)

\* Design 16, embed-job flow 3.f: "On failure: appends a new revision with
\* status=Failed".  A job that refuses its own work, every call having worked,
\* should be covered; it returns with `?` and appends nothing.
FailureIsRecorded ==
    \A j \in Jobs : verdict[j] \in {"failed", "refused"} =>
        \E i \in DOMAIN log : log[i].author = j /\ log[i].status = "Failed"

\* dispatch_embed_dataset: after a restart "recovery is an admin resubmission",
\* so an idle, live dataset accepts one.
ResubmissionRecovers ==
    (log # << >> /\ ~Latest.retired /\ \A j \in Jobs : pc[j] \notin Running) =>
        AcceptsUpdate
=============================================================================
