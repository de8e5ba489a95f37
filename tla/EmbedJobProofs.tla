--------------------------- MODULE EmbedJobProofs ---------------------------
(***************************************************************************)
(* Theorems about EmbedJob, for any number of jobs, revisions, endpoint    *)
(* revisions and restarts.                                                 *)
(***************************************************************************)
EXTENDS EmbedJob, TLAPS

\* A job past its first await holds a revision of the log.
Holding == Running \ {"spawned"}

\* A job that has gone past the Created-to-Embedding transition.
Embedding == Holding \ {"marking", "rereading"}

\* What every job knows about the rows it read: they are still in the log, the
\* items it loaded are theirs, and no job embeds a Created dataset.
JobInv ==
    \A j \in Jobs :
        /\ pc[j] = "spawned" => log # << >>
        /\ pc[j] \in Holding => base[j] \in 1 .. Len(log) /\ tenant[j] = DatasetTenant
        /\ pc[j] = "rereading" => Latest.status # "Created"
        /\ pc[j] = "marking" => log[base[j]].status = "Created"
        /\ pc[j] \in Embedding => log[base[j]].status # "Created"
        /\ pc[j] \in Embedding \ {"loading"} => loaded[j] = log[base[j]].items

IInv == TypeOK /\ JobInv /\ ReadyCorpusIsOfItsItems

\* What a revision appended to the log may be.
Successor(rev) ==
    /\ rev \in Revisions
    /\ rev.author = Routes \/ (rev.author \in Jobs /\ pc[rev.author] \in Holding)
    /\ rev.status = "Ready" => rev.corpus # NoCorpus /\ rev.corpus.items = rev.items
    /\ log # << >> =>
          /\ rev.corpus = Latest.corpus \/ rev.status = "Ready"
          /\ Latest.retired => rev.retired
          /\ rev.items # Latest.items => rev.author = Routes /\ rev.status = "Embedding"
          /\ rev.status = "Created" => Latest.status = "Created"

LogStep == \/ log' = log
           \/ \E rev : Successor(rev) /\ log' = Append(log, rev)

----------------------------------------------------------------------------
\* The row a job holds is a revision of the log.
LEMMA HeldRow ==
    ASSUME IInv, NEW j \in Jobs, pc[j] \in Holding
    PROVE  /\ base[j] \in 1 .. Len(log)
           /\ log[base[j]] \in Revisions
           /\ log[base[j]].items \in Items
           /\ CarriedCorpus(j) \in Corpora \cup {NoCorpus}
<1>1. base[j] \in 1 .. Len(log) /\ log \in Seq(Revisions)
  BY DEF IInv, TypeOK, JobInv
<1>2. log[base[j]] \in Revisions
  BY <1>1
<1> QED
  BY <1>1, <1>2 DEF Revisions, CarriedCorpus

\* The revision a job appends on the row it holds, when that row is the latest.
LEMMA StatusRevisionIsSuccessor ==
    ASSUME IInv, NEW j \in Jobs, pc[j] \in Holding, SeqFree(base[j]),
           NEW st \in Statuses \ {"Created"}, NEW c \in Corpora \cup {NoCorpus},
           \/ st # "Ready" /\ c = CarriedCorpus(j)
           \/ st = "Ready" /\ c # NoCorpus /\ c.items = log[base[j]].items
    PROVE  Successor(StatusRevision(j, st, c))
<1>1. base[j] = Len(log) /\ base[j] \in 1 .. Len(log) /\ log \in Seq(Revisions)
  BY DEF IInv, TypeOK, JobInv, SeqFree
<1>2. log[base[j]] = Latest /\ Latest \in Revisions
  BY <1>1 DEF Latest
<1>3. StatusRevision(j, st, c) = [Latest EXCEPT !.status = st, !.corpus = c, !.author = j]
  BY <1>2 DEF StatusRevision
<1> QED
  BY <1>1, <1>2, <1>3 DEF Successor, Revisions, CarriedCorpus

\* Every step leaves the log alone or appends one revision that succeeds the
\* latest one properly.
LEMMA StepOfLog == IInv /\ [Next]_vars => LogStep
<1> SUFFICES ASSUME IInv, [Next]_vars PROVE LogStep
  OBVIOUS
<1> USE EmbedJobAssumption
<1>0. log \in Seq(Revisions) /\ (log # << >> => Latest \in Revisions)
  BY DEF IInv, TypeOK, Latest
<1>1. ASSUME NEW j \in Jobs, NEW t \in Tenants, NEW s \in Items, CreateDataset(j, t, s)
      PROVE  LogStep
  <2> DEFINE r == [status |-> "Created", items |-> s, corpus |-> NoCorpus,
                   retired |-> FALSE, author |-> Routes]
  <2>1. Successor(r)
    BY <1>1 DEF CreateDataset, Successor, Revisions, Statuses
  <2>2. log' = Append(log, r)
    BY <1>1 DEF CreateDataset
  <2> QED
    BY <2>1, <2>2 DEF LogStep
<1>2. ASSUME NEW j \in Jobs, NEW t \in Tenants, NEW s \in Items, UpdateDataset(j, t, s)
      PROVE  LogStep
  <2> DEFINE r == [Latest EXCEPT !.status = "Embedding", !.items = s, !.author = Routes]
  <2>1. Successor(r)
    BY <1>0, <1>2 DEF UpdateDataset, Successor, Revisions, Statuses
  <2> QED
    BY <1>2, <2>1 DEF UpdateDataset, LogStep
<1>3. CASE RetireDataset
  <2> DEFINE r == [Latest EXCEPT !.retired = TRUE, !.author = Routes]
  <2>1. Len(log) \in DOMAIN log
    BY <1>0, <1>3 DEF RetireDataset
  <2>2. Latest.status = "Ready" => Latest.corpus # NoCorpus /\ Latest.corpus.items = Latest.items
    BY <2>1 DEF IInv, ReadyCorpusIsOfItsItems, Latest
  <2>3. Successor(r)
    BY <1>0, <1>3, <2>2 DEF RetireDataset, Successor, Revisions
  <2> QED
    BY <1>3, <2>3 DEF RetireDataset, LogStep
<1>4. ASSUME NEW j \in Jobs, WriteEmbedding(j)
      PROVE  LogStep
  <2>1. CASE SeqFree(base[j])
    <3>1. pc[j] \in Holding /\ base[j] \in 1 .. Len(log)
      BY <1>4 DEF WriteEmbedding, Holding, Running, IInv, JobInv
    <3>2. CarriedCorpus(j) \in Corpora \cup {NoCorpus}
      BY <3>1, HeldRow
    <3>3. Successor(StatusRevision(j, "Embedding", CarriedCorpus(j)))
      BY <2>1, <3>1, <3>2, StatusRevisionIsSuccessor DEF Statuses
    <3> QED
      BY <1>4, <2>1, <3>3 DEF WriteEmbedding, AppendOrConflict, LogStep
  <2>2. CASE ~SeqFree(base[j])
    BY <1>4, <2>2 DEF WriteEmbedding, AppendOrConflict, LogStep
  <2> QED
    BY <2>1, <2>2
<1>5. ASSUME NEW j \in Jobs, WriteReady(j)
      PROVE  LogStep
  <2> DEFINE c == [items |-> loaded[j], endpoint |-> lowered[j]]
  <2>1. CASE SeqFree(base[j])
    <3>1. /\ pc[j] \in Holding /\ base[j] \in 1 .. Len(log)
          /\ loaded[j] = log[base[j]].items
      BY <1>5 DEF WriteReady, Holding, Embedding, Running, IInv, JobInv
    <3>2. c \in Corpora /\ c # NoCorpus
      BY <3>1, HeldRow DEF Corpora, IInv, TypeOK
    <3>3. Successor(StatusRevision(j, "Ready", c))
      BY <2>1, <3>1, <3>2, StatusRevisionIsSuccessor DEF Statuses
    <3> QED
      BY <1>5, <2>1, <3>3 DEF WriteReady, AppendOrConflict, LogStep
  <2>2. CASE ~SeqFree(base[j])
    BY <1>5, <2>2 DEF WriteReady, AppendOrConflict, LogStep
  <2> QED
    BY <2>1, <2>2
<1>6. ASSUME NEW j \in Jobs, WriteFailed(j)
      PROVE  LogStep
  <2>1. CASE SeqFree(base[j])
    <3>1. pc[j] \in Holding /\ base[j] \in 1 .. Len(log)
      BY <1>6 DEF WriteFailed, Holding, Running, IInv, JobInv
    <3>2. CarriedCorpus(j) \in Corpora \cup {NoCorpus}
      BY <3>1, HeldRow
    <3>3. Successor(StatusRevision(j, "Failed", CarriedCorpus(j)))
      BY <2>1, <3>1, <3>2, StatusRevisionIsSuccessor DEF Statuses
    <3> QED
      BY <1>6, <2>1, <3>3 DEF WriteFailed, AppendOrConflict, LogStep
  <2>2. CASE ~SeqFree(base[j])
    BY <1>6, <2>2 DEF WriteFailed, AppendOrConflict, LogStep
  <2> QED
    BY <2>1, <2>2
<1>7. ASSUME NEW j \in Jobs,
             \/ Start(j) \/ Reread(j) \/ LoadSourceItems(j) \/ ValidateEndpoint(j)
             \/ Lower(j) \/ (\E r \in Outcomes : ExecutorReturns(j, r))
             \/ RefuseOversized(j) \/ CallFails(j)
      PROVE  LogStep
  BY <1>7 DEF Start, Reread, LoadSourceItems, ValidateEndpoint, Lower,
              ExecutorReturns, RefuseOversized, CallFails, LogStep
<1>8. CASE (\E rev \in EndpointRevisions : ChangeEndpoint(rev)) \/ Restart \/ UNCHANGED vars
  BY <1>8 DEF ChangeEndpoint, Restart, vars, LogStep
<1> QED
  BY <1>1, <1>2, <1>3, <1>4, <1>5, <1>6, <1>7, <1>8
  DEF Next, Route, JobStep, MarkEmbedding, RecordReady, RecordFailed, AnswerLost

----------------------------------------------------------------------------
\* What a step of LogStep's kind keeps: earlier rows stand, the latest row is
\* the one appended.
LEMMA AppendFacts ==
    ASSUME log \in Seq(Revisions), NEW rev \in Revisions, log' = Append(log, rev)
    PROVE  /\ Len(log') = Len(log) + 1 /\ log' # << >>
           /\ \A i \in 1 .. Len(log) : log'[i] = log[i]
           /\ log'[Len(log')] = rev
           /\ log' \in Seq(Revisions)
  OBVIOUS

\* Type correctness is preserved.
LEMMA TypeStep == IInv /\ [Next]_vars => TypeOK'
<1> SUFFICES ASSUME IInv, [Next]_vars PROVE TypeOK'
  OBVIOUS
<1> USE EmbedJobAssumption
<1>0. TypeOK /\ log' \in Seq(Revisions)
  <2>1. CASE log' = log
    BY <2>1 DEF IInv, TypeOK
  <2>2. CASE \E rev : Successor(rev) /\ log' = Append(log, rev)
    BY <2>2, AppendFacts DEF IInv, TypeOK, Successor
  <2> QED
    BY <2>1, <2>2, StepOfLog DEF LogStep, IInv
<1>1. ASSUME NEW j \in Jobs, NEW t \in Tenants, NEW s \in Items,
             CreateDataset(j, t, s) \/ UpdateDataset(j, t, s)
      PROVE  TypeOK'
  <2>1. Dispatch(j, t)
    BY <1>1 DEF CreateDataset, UpdateDataset
  <2> QED
    BY <1>0, <2>1 DEF Dispatch, TypeOK, Running
<1>2. CASE RetireDataset \/ UNCHANGED vars
  BY <1>0, <1>2 DEF RetireDataset, TypeOK, vars, jobVars
<1>3. ASSUME NEW rev \in EndpointRevisions, ChangeEndpoint(rev)
      PROVE  TypeOK'
  BY <1>0, <1>3 DEF ChangeEndpoint, TypeOK, jobVars
<1>4. ASSUME NEW j \in Jobs, Start(j) PROVE TypeOK'
  <2>1. base' \in [Jobs -> Nat]
    BY <1>0, <1>4 DEF Start, TypeOK
  <2>2. /\ pc' \in [Jobs -> Running \cup {"idle", "ended", "lost"}]
        /\ verdict' \in [Jobs -> Verdicts]
    <3>1. CASE End(j, "refused")
      BY <1>0, <3>1 DEF End, TypeOK, Verdicts
    <3>2. CASE ~End(j, "refused")
      BY <1>0, <1>4, <3>2 DEF Start, TypeOK, Running
    <3> QED
      BY <3>1, <3>2
  <2> QED
    BY <1>0, <1>4, <2>1, <2>2 DEF Start, TypeOK
<1>5. ASSUME NEW j \in Jobs, MarkEmbedding(j) PROVE TypeOK'
  <2>1. /\ pc' \in [Jobs -> Running \cup {"idle", "ended", "lost"}]
        /\ verdict' \in [Jobs -> Verdicts]
    BY <1>0, <1>5 DEF MarkEmbedding, End, TypeOK, Running, Verdicts
  <2> QED
    BY <1>0, <1>5, <2>1 DEF MarkEmbedding, TypeOK
<1>6. ASSUME NEW j \in Jobs, Reread(j) PROVE TypeOK'
  BY <1>0, <1>6 DEF Reread, TypeOK, Running
<1>7. ASSUME NEW j \in Jobs, LoadSourceItems(j) PROVE TypeOK'
  <2>1. log[base[j]].items \in Items
    BY <1>7, HeldRow DEF LoadSourceItems, Holding, Running
  <2> QED
    BY <1>0, <1>7, <2>1 DEF LoadSourceItems, TypeOK, Running
<1>8. ASSUME NEW j \in Jobs, ValidateEndpoint(j) PROVE TypeOK'
  <2>1. /\ pc' \in [Jobs -> Running \cup {"idle", "ended", "lost"}]
        /\ verdict' \in [Jobs -> Verdicts]
        /\ validated' \in [Jobs -> Nat]
    <3>1. CASE Usable(endpoint[Len(endpoint)], tenant[j])
      <4>1. /\ pc' = [pc EXCEPT ![j] = "lowering"] /\ verdict' = verdict
            /\ validated' = [validated EXCEPT ![j] = Len(endpoint)]
        BY <1>8, <3>1 DEF ValidateEndpoint
      <4>2. Len(endpoint) \in Nat
        BY <1>0 DEF TypeOK
      <4> QED
        BY <1>0, <4>1, <4>2 DEF TypeOK, Running
    <3>2. CASE ~Usable(endpoint[Len(endpoint)], tenant[j])
      BY <1>0, <1>8, <3>2 DEF ValidateEndpoint, End, TypeOK, Verdicts
    <3> QED
      BY <3>1, <3>2
  <2> QED
    BY <1>0, <1>8, <2>1 DEF ValidateEndpoint, TypeOK
<1>9. ASSUME NEW j \in Jobs, Lower(j) PROVE TypeOK'
  BY <1>0, <1>9 DEF Lower, TypeOK, Running
<1>10. ASSUME NEW j \in Jobs, NEW r \in Outcomes, ExecutorReturns(j, r) PROVE TypeOK'
  BY <1>0, <1>10 DEF ExecutorReturns, TypeOK, Running
<1>11. ASSUME NEW j \in Jobs,
              \/ RecordReady(j) \/ RecordFailed(j) \/ RefuseOversized(j) \/ CallFails(j)
              \/ AnswerLost(j)
       PROVE  TypeOK'
  BY <1>0, <1>11 DEF RecordReady, RecordFailed, RefuseOversized, CallFails, AnswerLost, End,
                     TypeOK, Running, Verdicts
<1>12. CASE Restart
  BY <1>0, <1>12 DEF Restart, TypeOK, jobVars
<1> QED
  BY <1>1, <1>2, <1>3, <1>4, <1>5, <1>6, <1>7, <1>8, <1>9, <1>10, <1>11, <1>12
     DEF Next, Route, JobStep

----------------------------------------------------------------------------
\* What JobInv says of one job.
JobOK(j) ==
    /\ pc[j] = "spawned" => log # << >>
    /\ pc[j] \in Holding => base[j] \in 1 .. Len(log) /\ tenant[j] = DatasetTenant
    /\ pc[j] = "rereading" => Latest.status # "Created"
    /\ pc[j] = "marking" => log[base[j]].status = "Created"
    /\ pc[j] \in Embedding => log[base[j]].status # "Created"
    /\ pc[j] \in Embedding \ {"loading"} => loaded[j] = log[base[j]].items

\* Appending a revision does not disturb a job that does not move.
LEMMA UnmovedJob ==
    ASSUME IInv, LogStep, NEW j \in Jobs,
           pc'[j] = pc[j], base'[j] = base[j], loaded'[j] = loaded[j],
           tenant'[j] = tenant[j]
    PROVE  JobOK(j)'
<1>0. JobOK(j) /\ log \in Seq(Revisions)
  BY DEF IInv, TypeOK, JobInv, JobOK
<1>1. CASE log' = log
  BY <1>0, <1>1 DEF JobOK, Latest
<1>2. ASSUME NEW rev, Successor(rev), log' = Append(log, rev)
      PROVE  JobOK(j)'
  <2>1. /\ Len(log') = Len(log) + 1 /\ log' # << >>
        /\ \A i \in 1 .. Len(log) : log'[i] = log[i]
        /\ Latest' = rev
    BY <1>0, <1>2, AppendFacts DEF Successor, Latest
  <2>2. pc[j] = "rereading" => rev.status # "Created"
    <3>1. pc[j] = "rereading" => log # << >> /\ Latest.status # "Created"
      BY <1>0 DEF JobOK, Holding, Running
    <3> QED
      BY <1>2, <3>1 DEF Successor
  <2> QED
    BY <1>0, <2>1, <2>2 DEF JobOK, Embedding, Holding, Running
<1> QED
  BY <1>1, <1>2 DEF LogStep

\* A job that has just read the latest revision.
LEMMA FreshlyRead ==
    ASSUME IInv, NEW j \in Jobs, log' = log, log # << >>,
           base'[j] = Len(log), tenant'[j] = DatasetTenant,
           \/ pc'[j] = "marking" /\ Latest.status = "Created"
           \/ pc'[j] = "loading" /\ Latest.status # "Created"
    PROVE  JobOK(j)'
  BY DEF JobOK, IInv, TypeOK, Latest, Holding, Embedding, Running

LEMMA JobStepKeepsJobInv == IInv /\ [Next]_vars => JobInv'
<1> SUFFICES ASSUME IInv, [Next]_vars, NEW k \in Jobs PROVE JobOK(k)'
  BY DEF JobInv, JobOK
<1>0. TypeOK /\ LogStep /\ JobOK(k)
  BY StepOfLog DEF IInv, JobInv, JobOK
<1> DEFINE Unmoved == /\ pc'[k] = pc[k] /\ base'[k] = base[k]
                      /\ loaded'[k] = loaded[k] /\ tenant'[k] = tenant[k]
           Over == pc'[k] \in {"ended", "lost"}
<1>a. Unmoved => JobOK(k)'
  BY <1>0, UnmovedJob
<1>b. Over => JobOK(k)'
  BY DEF JobOK, Holding, Embedding, Running
<1>1. ASSUME NEW j \in Jobs, NEW t \in Tenants, NEW s \in Items,
             CreateDataset(j, t, s) \/ UpdateDataset(j, t, s)
      PROVE  JobOK(k)'
  <2>1. Dispatch(j, t)
    BY <1>1 DEF CreateDataset, UpdateDataset
  <2>2. CASE j = k
    <3>1. pc'[k] = "spawned"
      BY <1>0, <2>1, <2>2 DEF Dispatch, TypeOK
    <3>2. log' # << >>
      <4>1. CASE CreateDataset(j, t, s)
        BY <4>1 DEF CreateDataset
      <4>2. CASE UpdateDataset(j, t, s)
        BY <1>0, <4>2 DEF UpdateDataset, TypeOK
      <4> QED
        BY <1>1, <4>1, <4>2
    <3> QED
      BY <3>1, <3>2 DEF JobOK, Holding, Embedding, Running
  <2>3. CASE j # k
    <3>1. Unmoved
      BY <1>0, <2>1, <2>3 DEF Dispatch, TypeOK
    <3> QED
      BY <1>a, <3>1
  <2> QED
    BY <2>2, <2>3
<1>2. CASE RetireDataset \/ (\E rev \in EndpointRevisions : ChangeEndpoint(rev))
           \/ UNCHANGED vars
  BY <1>a, <1>2 DEF RetireDataset, ChangeEndpoint, vars, jobVars
<1>3. ASSUME NEW j \in Jobs, j # k, JobStep(j) \/ CallFails(j) \/ AnswerLost(j)
      PROVE  JobOK(k)'
  <2>1. Unmoved
    BY <1>0, <1>3 DEF JobStep, Start, MarkEmbedding, Reread, LoadSourceItems,
          ValidateEndpoint, Lower, ExecutorReturns, RecordReady, RecordFailed,
          RefuseOversized, CallFails, AnswerLost, End, TypeOK
  <2> QED
    BY <1>a, <2>1
<1>4. CASE Start(k)
  <2>1. CASE tenant[k] # DatasetTenant
    BY <1>0, <1>4, <1>b, <2>1 DEF Start, End, TypeOK
  <2>2. CASE tenant[k] = DatasetTenant
    <3>1. /\ log' = log /\ log # << >> /\ base'[k] = Len(log)
          /\ tenant'[k] = DatasetTenant
      BY <1>0, <1>4, <2>2 DEF Start, TypeOK, JobOK
    <3>2. pc' = [pc EXCEPT ![k] = IF Latest.status = "Created" THEN "marking" ELSE "loading"]
      BY <1>4, <2>2 DEF Start
    <3>3. pc'[k] = IF Latest.status = "Created" THEN "marking" ELSE "loading"
      BY <1>0, <3>2 DEF TypeOK
    <3> QED
      BY <3>1, <3>3, FreshlyRead
  <2> QED
    BY <2>1, <2>2
<1>5. CASE MarkEmbedding(k)
  <2>1. CASE ~SeqFree(base[k])
    BY <1>0, <1>5, <1>b, <2>1 DEF MarkEmbedding, End, TypeOK
  <2>2. CASE SeqFree(base[k])
    <3>0. pc[k] \in Holding /\ pc'[k] = "rereading" /\ base' = base /\ tenant' = tenant
      BY <1>0, <1>5, <2>2 DEF MarkEmbedding, WriteEmbedding, TypeOK, Holding, Running
    <3>1. log' = Append(log, StatusRevision(k, "Embedding", CarriedCorpus(k)))
      BY <1>5, <2>2 DEF MarkEmbedding, WriteEmbedding, AppendOrConflict
    <3>2. Successor(StatusRevision(k, "Embedding", CarriedCorpus(k)))
      BY <2>2, <3>0, HeldRow, StatusRevisionIsSuccessor DEF Statuses
    <3>3. StatusRevision(k, "Embedding", CarriedCorpus(k)).status = "Embedding"
      BY <3>0, HeldRow DEF StatusRevision, Revisions
    <3>4. Latest'.status = "Embedding" /\ Len(log') = Len(log) + 1
      <4> DEFINE rev == StatusRevision(k, "Embedding", CarriedCorpus(k))
      <4>1. log \in Seq(Revisions) /\ rev \in Revisions /\ rev.status = "Embedding"
        BY <1>0, <3>2, <3>3 DEF Successor, TypeOK
      <4>2. log' = Append(log, rev)
        BY <3>1
      <4> HIDE DEF rev
      <4> QED
        BY <4>1, <4>2, AppendFacts DEF Latest
    <3> QED
      BY <1>0, <3>0, <3>4, HeldRow DEF JobOK, Holding, Embedding, Running, TypeOK
  <2> QED
    BY <2>1, <2>2
<1>6. CASE Reread(k)
  <2>1. /\ log' = log /\ log # << >> /\ base'[k] = Len(log) /\ pc'[k] = "loading"
        /\ tenant'[k] = DatasetTenant /\ Latest.status # "Created"
    BY <1>0, <1>6 DEF Reread, TypeOK, JobOK, Holding, Running
  <2> QED
    BY <2>1, FreshlyRead
<1>7. CASE LoadSourceItems(k)
  BY <1>0, <1>7 DEF LoadSourceItems, TypeOK, JobOK, Holding, Embedding, Running
<1>8. CASE ValidateEndpoint(k) \/ Lower(k) \/ \E r \in Outcomes : ExecutorReturns(k, r)
  <2>1. /\ pc[k] \in Embedding \ {"loading"}
        /\ log' = log /\ base' = base /\ loaded' = loaded /\ tenant' = tenant
    BY <1>8 DEF ValidateEndpoint, Lower, ExecutorReturns, Embedding, Holding, Running
  <2>2. pc'[k] \in {"lowering", "executing", "recording", "ended"}
    BY <1>0, <1>8 DEF ValidateEndpoint, Lower, ExecutorReturns, End, TypeOK
  <2> QED
    BY <1>0, <2>1, <2>2 DEF JobOK, Holding, Embedding, Running
<1>9. CASE RecordReady(k) \/ RecordFailed(k) \/ RefuseOversized(k) \/ CallFails(k)
           \/ AnswerLost(k)
  BY <1>0, <1>b, <1>9 DEF RecordReady, RecordFailed, RefuseOversized, CallFails, AnswerLost, End, TypeOK
<1>10. CASE Restart
  BY <1>a, <1>b, <1>10 DEF Restart, jobVars
<1> QED
  BY <1>1, <1>2, <1>3, <1>4, <1>5, <1>6, <1>7, <1>8, <1>9, <1>10
     DEF Next, Route, JobStep

----------------------------------------------------------------------------
\* Ready revisions keep the corpus of their own items.
LEMMA ReadyStep == IInv /\ [Next]_vars => ReadyCorpusIsOfItsItems'
<1> SUFFICES ASSUME IInv, LogStep PROVE ReadyCorpusIsOfItsItems'
  BY StepOfLog
<1>1. log \in Seq(Revisions) /\ ReadyCorpusIsOfItsItems
  BY DEF IInv, TypeOK
<1>2. CASE log' = log
  BY <1>1, <1>2 DEF ReadyCorpusIsOfItsItems
<1>3. ASSUME NEW rev, Successor(rev), log' = Append(log, rev)
      PROVE  ReadyCorpusIsOfItsItems'
  <2>1. /\ rev \in Revisions
        /\ rev.status = "Ready" => rev.corpus # NoCorpus /\ rev.corpus.items = rev.items
    BY <1>3 DEF Successor
  <2>2. \A i \in DOMAIN log' : (i \in DOMAIN log /\ log'[i] = log[i]) \/ log'[i] = rev
    BY <1>1, <1>3, <2>1
  <2> QED
    BY <1>1, <2>1, <2>2 DEF ReadyCorpusIsOfItsItems
<1> QED
  BY <1>2, <1>3 DEF LogStep

LEMMA InitIInv == Init => IInv
<1> SUFFICES ASSUME Init PROVE IInv
  OBVIOUS
<1> USE EmbedJobAssumption
<1>1. TypeOK
  BY DEF Init, TypeOK, EndpointRevisions, Verdicts
<1>2. JobInv
  BY DEF Init, JobInv, Holding, Embedding, Running
<1>3. ReadyCorpusIsOfItsItems
  BY DEF Init, ReadyCorpusIsOfItsItems
<1> QED
  BY <1>1, <1>2, <1>3 DEF IInv

\* The inductive invariant: types, what each job knows about the rows it read,
\* and the corpora of the Ready revisions.
THEOREM Inductive == Spec => []IInv
<1>1. IInv /\ [Next]_vars => IInv'
  BY TypeStep, JobStepKeepsJobInv, ReadyStep DEF IInv
<1> QED
  BY InitIInv, <1>1, PTL DEF Spec

\* The variables keep their types (embed_job.rs, the locals of `run`).
THEOREM TypeCorrect == Spec => []TypeOK
<1>1. IInv => TypeOK
  BY DEF IInv
<1> QED
  BY Inductive, <1>1, PTL

\* A Ready revision's corpus was embedded from the items it shows
\* (append_status_revision), whatever else ran meanwhile.
THEOREM ReadyMatches == Spec => []ReadyCorpusIsOfItsItems
<1>1. IInv => ReadyCorpusIsOfItsItems
  BY DEF IInv
<1> QED
  BY Inductive, <1>1, PTL

----------------------------------------------------------------------------
\* Three relations between neighbouring revisions.
HistoryInv == CorpusCarriedForward /\ RetirementIsFinal /\ ItemsChangeOnlyByUpdate

LEMMA HistoryStep == IInv /\ HistoryInv /\ [Next]_vars => HistoryInv'
<1> SUFFICES ASSUME IInv, HistoryInv, LogStep PROVE HistoryInv'
  BY StepOfLog
<1>1. log \in Seq(Revisions)
  BY DEF IInv, TypeOK
<1>2. CASE log' = log
  BY <1>2 DEF HistoryInv, CorpusCarriedForward, RetirementIsFinal, ItemsChangeOnlyByUpdate
<1>3. ASSUME NEW rev, Successor(rev), log' = Append(log, rev)
      PROVE  HistoryInv'
  <2>1. /\ Len(log') = Len(log) + 1
        /\ \A i \in 1 .. Len(log) : log'[i] = log[i]
        /\ log'[Len(log) + 1] = rev
    BY <1>1, <1>3, AppendFacts DEF Successor
  <2>2. ASSUME NEW i \in 1 .. Len(log') - 1
        PROVE  /\ log'[i + 1].corpus = log'[i].corpus \/ log'[i + 1].status = "Ready"
               /\ log'[i].retired => log'[i + 1].retired
               /\ log'[i + 1].items # log'[i].items =>
                     log'[i + 1].author = Routes /\ log'[i + 1].status = "Embedding"
    <3>1. CASE i < Len(log)
      <4>1. i \in 1 .. Len(log) - 1 /\ log'[i] = log[i] /\ log'[i + 1] = log[i + 1]
        BY <1>1, <2>1, <3>1
      <4> QED
        BY <4>1 DEF HistoryInv, CorpusCarriedForward, RetirementIsFinal, ItemsChangeOnlyByUpdate
    <3>2. CASE i = Len(log)
      <4>1. log # << >> /\ log'[i] = Latest /\ log'[i + 1] = rev
        BY <1>1, <2>1, <3>2 DEF Latest
      <4> QED
        BY <1>3, <4>1 DEF Successor
    <3> QED
      BY <1>1, <2>1, <3>1, <3>2
  <2> QED
    BY <2>2 DEF HistoryInv, CorpusCarriedForward, RetirementIsFinal, ItemsChangeOnlyByUpdate
<1> QED
  BY <1>2, <1>3 DEF LogStep

LEMMA HistoryHolds == Spec => []HistoryInv
<1>1. Init => HistoryInv
  BY DEF Init, HistoryInv, CorpusCarriedForward, RetirementIsFinal, ItemsChangeOnlyByUpdate
<1> QED
  BY <1>1, HistoryStep, Inductive, PTL DEF Spec

\* No status transition ever erases or replaces a corpus but the publication of
\* a new one (append_status_revision's carry-forward branch).
THEOREM CarryForward == Spec => []CorpusCarriedForward
<1>1. HistoryInv => CorpusCarriedForward
  BY DEF HistoryInv
<1> QED
  BY HistoryHolds, <1>1, PTL

\* A job that raced a retirement cannot bring the dataset back.
THEOREM RetirementFinal == Spec => []RetirementIsFinal
<1>1. HistoryInv => RetirementIsFinal
  BY DEF HistoryInv
<1> QED
  BY HistoryHolds, <1>1, PTL

\* No job rewrites the items an administrator submitted.
THEOREM ItemsByUpdate == Spec => []ItemsChangeOnlyByUpdate
<1>1. HistoryInv => ItemsChangeOnlyByUpdate
  BY DEF HistoryInv
<1> QED
  BY HistoryHolds, <1>1, PTL

\* The revision log only grows, by at most one revision per step.
THEOREM AppendOnly == Spec => LogAppendOnly
<1>1. IInv /\ [Next]_vars =>
        [ /\ Len(log') \in {Len(log), Len(log) + 1}
          /\ \A i \in DOMAIN log : log'[i] = log[i] ]_vars
  <2> SUFFICES ASSUME IInv, LogStep
               PROVE  /\ Len(log') \in {Len(log), Len(log) + 1}
                      /\ \A i \in DOMAIN log : log'[i] = log[i]
    BY StepOfLog
  <2>1. log \in Seq(Revisions)
    BY DEF IInv, TypeOK
  <2> QED
    BY <2>1 DEF LogStep, Successor
<1> QED
  BY <1>1, Inductive, PTL DEF Spec, LogAppendOnly

----------------------------------------------------------------------------
\* A job dispatched for another tenant never gets past `run`'s first check.
ForeignInv ==
    \A j \in Jobs :
        /\ pc[j] \in {"idle", "spawned"} \/ tenant[j] # DatasetTenant =>
              lowered[j] = 0 /\ \A i \in DOMAIN log : log[i].author # j

LEMMA ForeignStep == IInv /\ ForeignInv /\ [Next]_vars => ForeignInv'
<1> SUFFICES ASSUME IInv, ForeignInv, [Next]_vars, NEW k \in Jobs,
                    pc'[k] \in {"idle", "spawned"} \/ tenant'[k] # DatasetTenant
             PROVE  lowered'[k] = 0 /\ \A i \in DOMAIN log' : log'[i].author # k
  BY DEF ForeignInv
<1> DEFINE Outsider == pc[k] \in {"idle", "spawned"} \/ tenant[k] # DatasetTenant
<1>0. /\ TypeOK /\ LogStep /\ log \in Seq(Revisions)
      /\ pc[k] \in Holding => tenant[k] = DatasetTenant
  BY StepOfLog DEF IInv, JobInv, TypeOK
<1>1. Outsider => lowered[k] = 0 /\ \A i \in DOMAIN log : log[i].author # k
  BY DEF ForeignInv
<1>2. Outsider => lowered'[k] = 0
  <2> SUFFICES ASSUME Outsider PROVE lowered'[k] = lowered[k]
    BY <1>1
  <2>1. ASSUME NEW j \in Jobs, Lower(j) PROVE lowered'[k] = lowered[k]
    <3>1. j # k
      BY <1>0, <2>1 DEF Lower, Holding, Running
    <3> QED
      BY <1>0, <2>1, <3>1 DEF Lower, TypeOK
  <2> QED
    BY <2>1 DEF Next, Route, CreateDataset, UpdateDataset, Dispatch, RetireDataset,
         ChangeEndpoint, JobStep, Start, MarkEmbedding, Reread, LoadSourceItems,
         ValidateEndpoint, ExecutorReturns, RecordReady, RecordFailed,
         RefuseOversized, CallFails, AnswerLost, Restart, jobVars, vars
<1>3. Outsider
  <2>1. ASSUME NEW j \in Jobs, Start(j) PROVE Outsider
    BY <1>0, <2>1 DEF Start, End, TypeOK
  <2>2. ASSUME NEW j \in Jobs, NEW t \in Tenants, Dispatch(j, t) PROVE Outsider
    BY <1>0, <2>2 DEF Dispatch, TypeOK
  <2>3. ASSUME NEW j \in Jobs,
               \/ MarkEmbedding(j) \/ Reread(j) \/ LoadSourceItems(j)
               \/ ValidateEndpoint(j) \/ Lower(j)
               \/ (\E r \in Outcomes : ExecutorReturns(j, r))
               \/ RecordReady(j) \/ RecordFailed(j) \/ RefuseOversized(j) \/ CallFails(j)
               \/ AnswerLost(j)
        PROVE  Outsider
    BY <1>0, <2>3 DEF MarkEmbedding, Reread, LoadSourceItems, ValidateEndpoint,
         Lower, ExecutorReturns, RecordReady, RecordFailed, RefuseOversized,
         CallFails, AnswerLost, WriteEmbedding, WriteReady, WriteFailed, End, TypeOK
  <2>4. CASE RetireDataset \/ (\E rev \in EndpointRevisions : ChangeEndpoint(rev))
             \/ Restart \/ UNCHANGED vars
    BY <2>4 DEF RetireDataset, ChangeEndpoint, Restart, jobVars, vars
  <2> QED
    BY <2>1, <2>2, <2>3, <2>4 DEF Next, Route, JobStep, CreateDataset, UpdateDataset
<1>4. ASSUME log' = log
      PROVE  lowered'[k] = 0 /\ \A i \in DOMAIN log' : log'[i].author # k
  <2>1. lowered'[k] = 0
    BY <1>2, <1>3
  <2>2. \A i \in DOMAIN log : log[i].author # k
    BY <1>1, <1>3
  <2> HIDE DEF Outsider
  <2> QED
    BY <1>4, <2>1, <2>2
<1>5. ASSUME NEW rev, Successor(rev), log' = Append(log, rev)
      PROVE  lowered'[k] = 0 /\ \A i \in DOMAIN log' : log'[i].author # k
  <2>1. rev.author # k /\ rev \in Revisions
    BY <1>0, <1>3, <1>5, EmbedJobAssumption DEF Successor, Holding, Running
  <2>2. \A i \in DOMAIN log' : (i \in DOMAIN log /\ log'[i] = log[i]) \/ log'[i] = rev
    BY <1>0, <1>5, <2>1
  <2> QED
    BY <1>1, <1>2, <1>3, <2>1, <2>2
<1> QED
  BY <1>0, <1>4, <1>5 DEF LogStep

\* A dispatch for another tenant than the dataset's never lowers an endpoint
\* and never writes a revision (the tenant check at the head of `run`).
THEOREM Isolation == Spec => []TenantIsolation
<1>1. Init => ForeignInv
  <2> SUFFICES ASSUME Init PROVE ForeignInv
    OBVIOUS
  <2>1. DOMAIN log = {} /\ \A j \in Jobs : lowered[j] = 0
    BY DEF Init
  <2> QED
    BY <2>1 DEF ForeignInv
<1>2. ForeignInv => TenantIsolation
  BY DEF ForeignInv, TenantIsolation
<1> QED
  BY <1>1, <1>2, ForeignStep, Inductive, PTL DEF Spec

----------------------------------------------------------------------------
(* EmbedJob implements EmbedDataset. *)

\* The latest revision after an append on a log that was not empty.
LEMMA View ==
    ASSUME log \in Seq(Revisions), log # << >>,
           NEW rev \in Revisions, log' = Append(log, rev)
    PROVE  log' # << >> /\ Latest' = rev /\ Latest \in Revisions
  BY DEF Latest

\* Every step of EmbedJob is a step of EmbedDataset or leaves it alone.
LEMMA RefinementStep == IInv /\ [Next]_vars => [Dataset!Next]_(Dataset!vars)
<1> SUFFICES ASSUME IInv, [Next]_vars PROVE [Dataset!Next]_(Dataset!vars)
  OBVIOUS
<1> USE EmbedJobAssumption
<1>0. log \in Seq(Revisions)
  BY DEF IInv, TypeOK
<1>a. log' = log => UNCHANGED Dataset!vars
  BY DEF Dataset!vars, Latest
<1>1. ASSUME NEW j \in Jobs, NEW t \in Tenants, NEW s \in Items, CreateDataset(j, t, s)
      PROVE  Dataset!Next
  <2> DEFINE r == [status |-> "Created", items |-> s, corpus |-> NoCorpus,
                   retired |-> FALSE, author |-> Routes]
  <2>1. log = << >> /\ log' # << >> /\ Latest' = r
    BY <1>1 DEF CreateDataset, Latest
  <2>2. Dataset!Create(s)
    BY <2>1 DEF Dataset!Create
  <2> QED
    BY <2>2 DEF Dataset!Next
<1>2. ASSUME NEW j \in Jobs, NEW t \in Tenants, NEW s \in Items, UpdateDataset(j, t, s)
      PROVE  Dataset!Next
  <2> DEFINE r == [Latest EXCEPT !.status = "Embedding", !.items = s, !.author = Routes]
  <2>0. log # << >> /\ Latest \in Revisions
    BY <1>0, <1>2 DEF UpdateDataset, Latest
  <2>1. log # << >> /\ Latest \in Revisions /\ r \in Revisions
    BY <2>0 DEF Revisions, Statuses
  <2>2. log' # << >> /\ Latest' = r
    BY <1>0, <1>2, <2>1, View DEF UpdateDataset
  <2>3. Dataset!Resubmit(s)
    BY <1>2, <2>1, <2>2 DEF Dataset!Resubmit, UpdateDataset, AcceptsUpdate, Revisions, Statuses
  <2> QED
    BY <2>3 DEF Dataset!Next
<1>3. CASE RetireDataset
  <2> DEFINE r == [Latest EXCEPT !.retired = TRUE, !.author = Routes]
  <2>0. log # << >> /\ Latest \in Revisions
    BY <1>0, <1>3 DEF RetireDataset, Latest
  <2>1. log # << >> /\ Latest \in Revisions /\ r \in Revisions
    BY <2>0 DEF Revisions
  <2>2. log' # << >> /\ Latest' = r
    BY <1>0, <1>3, <2>1, View DEF RetireDataset
  <2>3. Dataset!Retire
    BY <1>3, <2>1, <2>2 DEF Dataset!Retire, RetireDataset, Revisions, Statuses
  <2> QED
    BY <2>3 DEF Dataset!Next
<1>4. ASSUME NEW j \in Jobs, pc[j] \in Holding, SeqFree(base[j]),
             NEW st \in {"Embedding", "Ready", "Failed"}, NEW c \in Corpora \cup {NoCorpus},
             log' = Append(log, StatusRevision(j, st, c))
      PROVE  /\ log # << >> /\ Latest = log[base[j]] /\ Latest \in Revisions
             /\ log' # << >>
             /\ Latest'.status = st /\ Latest'.corpus = c
             /\ Latest'.items = Latest.items /\ Latest'.retired = Latest.retired
             /\ Latest.status \in Statuses
  <2>1. log # << >> /\ Latest = log[base[j]] /\ Latest \in Revisions
    BY <1>0, <1>4, HeldRow DEF SeqFree, Latest
  <2>2. /\ StatusRevision(j, st, c) = [Latest EXCEPT !.status = st, !.corpus = c, !.author = j]
        /\ StatusRevision(j, st, c) \in Revisions
    BY <2>1 DEF StatusRevision, Revisions, Statuses
  <2>3. log' # << >> /\ Latest' = StatusRevision(j, st, c)
    BY <1>0, <1>4, <2>1, <2>2, View
  <2> QED
    BY <2>1, <2>2, <2>3 DEF Revisions
<1>5. ASSUME NEW j \in Jobs, WriteEmbedding(j)
      PROVE  [Dataset!Next]_(Dataset!vars)
  <2>1. CASE ~SeqFree(base[j])
    BY <1>5, <1>a, <2>1 DEF WriteEmbedding, AppendOrConflict
  <2>2. CASE SeqFree(base[j])
    <3>1. /\ pc[j] \in Holding /\ log[base[j]].status = "Created"
          /\ CarriedCorpus(j) = log[base[j]].corpus
          /\ CarriedCorpus(j) \in Corpora \cup {NoCorpus}
      BY <1>5, HeldRow DEF WriteEmbedding, Holding, Running, IInv, JobInv, CarriedCorpus
    <3>2. log' = Append(log, StatusRevision(j, "Embedding", CarriedCorpus(j)))
      BY <1>5, <2>2 DEF WriteEmbedding, AppendOrConflict
    <3>3. /\ log # << >> /\ Latest = log[base[j]] /\ log' # << >>
          /\ Latest'.status = "Embedding" /\ Latest'.corpus = Latest.corpus
          /\ Latest'.items = Latest.items /\ Latest'.retired = Latest.retired
      BY <1>4, <2>2, <3>1, <3>2
    <3>4. Dataset!Begin
      BY <3>1, <3>3 DEF Dataset!Begin
    <3> QED
      BY <3>4 DEF Dataset!Next
  <2> QED
    BY <2>1, <2>2
<1>6. ASSUME NEW j \in Jobs, WriteReady(j)
      PROVE  [Dataset!Next]_(Dataset!vars)
  <2> DEFINE c == [items |-> loaded[j], endpoint |-> lowered[j]]
  <2>1. CASE ~SeqFree(base[j])
    BY <1>6, <1>a, <2>1 DEF WriteReady, AppendOrConflict
  <2>2. CASE SeqFree(base[j])
    <3>1. /\ pc[j] \in Holding /\ log[base[j]].status # "Created"
          /\ loaded[j] = log[base[j]].items
      BY <1>6 DEF WriteReady, Holding, Embedding, Running, IInv, JobInv
    <3>2. c \in Corpora /\ c # NoCorpus /\ c.items = log[base[j]].items
      BY <3>1, HeldRow DEF Corpora, IInv, TypeOK
    <3>3. log' = Append(log, StatusRevision(j, "Ready", c))
      BY <1>6, <2>2 DEF WriteReady, AppendOrConflict
    <3> HIDE DEF c
    <3>4. /\ log # << >> /\ Latest = log[base[j]] /\ log' # << >>
          /\ Latest'.status = "Ready" /\ Latest'.corpus = c
          /\ Latest'.items = Latest.items /\ Latest'.retired = Latest.retired
          /\ Latest.status \in Statuses
      BY <1>4, <2>2, <3>1, <3>2, <3>3
    <3>5. Dataset!Publish
      BY <3>1, <3>2, <3>4 DEF Dataset!Publish, Statuses
    <3> QED
      BY <3>5 DEF Dataset!Next
  <2> QED
    BY <2>1, <2>2
<1>7. ASSUME NEW j \in Jobs, WriteFailed(j)
      PROVE  [Dataset!Next]_(Dataset!vars)
  <2>1. CASE ~SeqFree(base[j])
    BY <1>7, <1>a, <2>1 DEF WriteFailed, AppendOrConflict
  <2>2. CASE SeqFree(base[j])
    <3>1. /\ pc[j] \in Holding /\ log[base[j]].status # "Created"
          /\ CarriedCorpus(j) = log[base[j]].corpus
          /\ CarriedCorpus(j) \in Corpora \cup {NoCorpus}
      BY <1>7, HeldRow DEF WriteFailed, Holding, Embedding, Running, IInv, JobInv, CarriedCorpus
    <3>2. log' = Append(log, StatusRevision(j, "Failed", CarriedCorpus(j)))
      BY <1>7, <2>2 DEF WriteFailed, AppendOrConflict
    <3>3. /\ log # << >> /\ Latest = log[base[j]] /\ log' # << >>
          /\ Latest'.status = "Failed" /\ Latest'.corpus = Latest.corpus
          /\ Latest'.items = Latest.items /\ Latest'.retired = Latest.retired
          /\ Latest.status \in Statuses
      BY <1>4, <2>2, <3>1, <3>2
    <3>4. Dataset!GiveUp
      BY <3>1, <3>3 DEF Dataset!GiveUp, Statuses
    <3> QED
      BY <3>4 DEF Dataset!Next
  <2> QED
    BY <2>1, <2>2
<1>8. ASSUME NEW j \in Jobs,
             \/ Start(j) \/ Reread(j) \/ LoadSourceItems(j) \/ ValidateEndpoint(j)
             \/ Lower(j) \/ (\E r \in Outcomes : ExecutorReturns(j, r))
             \/ RefuseOversized(j) \/ CallFails(j)
      PROVE  log' = log
  BY <1>8 DEF Start, Reread, LoadSourceItems, ValidateEndpoint, Lower,
              ExecutorReturns, RefuseOversized, CallFails
<1>9. CASE (\E rev \in EndpointRevisions : ChangeEndpoint(rev)) \/ Restart \/ UNCHANGED vars
  BY <1>9, <1>a DEF ChangeEndpoint, Restart, vars
<1> QED
  BY <1>1, <1>2, <1>3, <1>5, <1>6, <1>7, <1>8, <1>9, <1>a
  DEF Next, Route, JobStep, MarkEmbedding, RecordReady, RecordFailed, AnswerLost

\* Read through its latest revision, a dataset worked on by any number of racing
\* jobs behaves as the abstract lifecycle allows.
THEOREM Refinement == Spec => ImplementsDataset
<1>1. Init => Dataset!Init
  BY DEF Init, Dataset!Init
<1> QED
  BY <1>1, RefinementStep, Inductive, PTL DEF Spec, ImplementsDataset, Dataset!Spec

----------------------------------------------------------------------------
\* What a job knows of the endpoint once it validated it: the revision is still there,
\* and usable, and the lowerer read the same one or a later one.
EndpointInv ==
    \A j \in Jobs :
        /\ pc[j] = "lowering" =>
              validated[j] \in 1 .. Len(endpoint) /\ Usable(endpoint[validated[j]], tenant[j])
        /\ pc[j] \in {"executing", "recording"} =>
              /\ validated[j] \in 1 .. lowered[j]
              /\ lowered[j] <= Len(endpoint)
              /\ Usable(endpoint[validated[j]], tenant[j])

LEMMA EndpointStep == TypeOK /\ EndpointInv /\ [Next]_vars => EndpointInv'
<1> SUFFICES ASSUME TypeOK, EndpointInv, [Next]_vars PROVE EndpointInv'
  OBVIOUS
<1> USE DEF TypeOK, EndpointInv
<1>1. ASSUME NEW rev \in EndpointRevisions, ChangeEndpoint(rev) PROVE EndpointInv'
  <2>1. /\ Len(endpoint') = Len(endpoint) + 1
        /\ \A i \in 1 .. Len(endpoint) : endpoint'[i] = endpoint[i]
    BY <1>1 DEF ChangeEndpoint
  <2>2. UNCHANGED <<pc, validated, lowered, tenant>>
    BY <1>1 DEF ChangeEndpoint, jobVars
  <2>3. ASSUME NEW j \in Jobs, pc[j] \in {"lowering", "executing", "recording"}
        PROVE  /\ validated[j] \in 1 .. Len(endpoint)
               /\ endpoint'[validated[j]] = endpoint[validated[j]]
    <3>1. validated[j] \in 1 .. Len(endpoint)
      BY <2>3
    <3> QED BY <2>1, <3>1
  <2>4. ASSUME NEW j \in Jobs, pc[j] = "lowering"
        PROVE  /\ validated[j] \in 1 .. Len(endpoint')
               /\ Usable(endpoint'[validated[j]], tenant[j])
    BY <2>1, <2>3, <2>4
  <2>5. ASSUME NEW j \in Jobs, pc[j] \in {"executing", "recording"}
        PROVE  /\ validated[j] \in 1 .. lowered[j] /\ lowered[j] <= Len(endpoint')
               /\ Usable(endpoint'[validated[j]], tenant[j])
    BY <2>1, <2>3, <2>5
  <2> QED BY <2>2, <2>4, <2>5 DEF Usable
<1>2. ASSUME NEW j \in Jobs, ValidateEndpoint(j) PROVE EndpointInv'
  BY <1>2 DEF ValidateEndpoint, End, Usable
<1>3. ASSUME NEW j \in Jobs, Lower(j) PROVE EndpointInv'
  BY <1>3 DEF Lower, Usable
<1>4. ASSUME NEW j \in Jobs, NEW r \in Outcomes, ExecutorReturns(j, r) PROVE EndpointInv'
  BY <1>4 DEF ExecutorReturns, Usable
<1>5. ASSUME NEW j \in Jobs, NEW t \in Tenants, Dispatch(j, t) PROVE EndpointInv'
  BY <1>5 DEF Dispatch, Usable
<1>6. ASSUME NEW j \in Jobs,
             \/ Start(j) \/ MarkEmbedding(j) \/ Reread(j) \/ LoadSourceItems(j)
             \/ RecordReady(j) \/ RecordFailed(j) \/ RefuseOversized(j) \/ CallFails(j)
             \/ AnswerLost(j)
      PROVE  EndpointInv'
  <2>1. /\ UNCHANGED <<endpoint, validated, lowered, tenant>>
        /\ \A k \in Jobs : pc'[k] \in {"lowering", "executing", "recording"} => pc'[k] = pc[k]
    BY <1>6 DEF Start, MarkEmbedding, Reread, LoadSourceItems, RecordReady, RecordFailed,
         RefuseOversized, CallFails, AnswerLost, End
  <2> QED BY <2>1 DEF Usable
<1>7. CASE RetireDataset \/ Restart \/ UNCHANGED vars
  <2>1. /\ UNCHANGED <<endpoint, validated, lowered, tenant>>
        /\ \A k \in Jobs : pc'[k] \in {"lowering", "executing", "recording"} => pc'[k] = pc[k]
    BY <1>7 DEF RetireDataset, Restart, jobVars, vars
  <2> QED BY <2>1 DEF Usable
<1> QED
  BY <1>1, <1>2, <1>3, <1>4, <1>5, <1>6, <1>7
  DEF Next, Route, JobStep, CreateDataset, UpdateDataset

\* What is executed went through an endpoint that was usable for the job's tenant at some
\* time between its dispatch and its lowering (validate_endpoint, then the lowerer).
THEOREM EndpointChecked == Spec => []ExecutedEndpointWasChecked
<1>1. Init => EndpointInv
  BY DEF Init, EndpointInv
<1>2. EndpointInv => ExecutedEndpointWasChecked
  BY DEF EndpointInv, ExecutedEndpointWasChecked
<1> QED
  BY <1>1, <1>2, EndpointStep, TypeCorrect, PTL DEF Spec

----------------------------------------------------------------------------
\* Who may answer for a dataset that is Embedding.
Owns(j) ==
    \/ pc[j] \in {"spawned", "rereading"}
    \/ pc[j] \in Running /\ base[j] = Len(log)
    \/ pc[j] = "lost"
    \/ verdict[j] \in {"refused", "error"}

\* A verdict is a job's last word.
VerdictInv == \A j \in Jobs : verdict[j] # "none" => pc[j] = "ended"

OwnerInv == VerdictInv /\ EmbeddingHasOwner

LEMMA VerdictStep == TypeOK /\ VerdictInv /\ [Next]_vars => VerdictInv'
<1> SUFFICES ASSUME TypeOK, VerdictInv, [Next]_vars PROVE VerdictInv'
  OBVIOUS
<1> USE DEF TypeOK, VerdictInv
<1>1. ASSUME NEW j \in Jobs, NEW t \in Tenants, Dispatch(j, t) PROVE VerdictInv'
  BY <1>1 DEF Dispatch
<1>2. ASSUME NEW j \in Jobs,
             \/ Start(j) \/ MarkEmbedding(j) \/ ValidateEndpoint(j) \/ RecordReady(j)
             \/ RecordFailed(j) \/ RefuseOversized(j) \/ CallFails(j) \/ AnswerLost(j)
      PROVE  VerdictInv'
  BY <1>2 DEF Start, MarkEmbedding, ValidateEndpoint, RecordReady, RecordFailed,
       RefuseOversized, CallFails, AnswerLost, WriteEmbedding, WriteReady, WriteFailed, End, Running
<1>3. ASSUME NEW j \in Jobs,
             \/ Reread(j) \/ LoadSourceItems(j) \/ Lower(j)
             \/ \E r \in Outcomes : ExecutorReturns(j, r)
      PROVE  VerdictInv'
  BY <1>3 DEF Reread, LoadSourceItems, Lower, ExecutorReturns
<1>4. CASE RetireDataset \/ (\E rev \in EndpointRevisions : ChangeEndpoint(rev))
           \/ Restart \/ UNCHANGED vars
  BY <1>4 DEF RetireDataset, ChangeEndpoint, Restart, Running, jobVars, vars
<1> QED
  BY <1>1, <1>2, <1>3, <1>4 DEF Next, Route, JobStep, CreateDataset, UpdateDataset

\* A job that steps without appending goes on owning the dataset, or ended with a verdict
\* that says why it no longer does.
LEMMA StepperOwns ==
    ASSUME IInv, VerdictInv, log' = log, NEW j \in Jobs, Owns(j),
           JobStep(j) \/ CallFails(j) \/ AnswerLost(j), log # << >>, Latest.status = "Embedding"
    PROVE  Owns(j)'
<1> USE DEF Owns, IInv, TypeOK, Running
<1>1. CASE Start(j)
  BY <1>1 DEF Start, End
<1>2. CASE MarkEmbedding(j)
  BY <1>2 DEF MarkEmbedding, WriteEmbedding, AppendOrConflict, End, SeqFree, VerdictInv
<1>3. CASE Reread(j) \/ LoadSourceItems(j) \/ Lower(j) \/ \E r \in Outcomes : ExecutorReturns(j, r)
  BY <1>3 DEF Reread, LoadSourceItems, Lower, ExecutorReturns
<1>4. CASE ValidateEndpoint(j) \/ RefuseOversized(j) \/ CallFails(j) \/ AnswerLost(j)
  BY <1>4 DEF ValidateEndpoint, RefuseOversized, CallFails, AnswerLost, End
<1>5. CASE RecordReady(j) \/ RecordFailed(j)
  <2>1. ~SeqFree(base[j])
    BY <1>5 DEF RecordReady, RecordFailed, WriteReady, WriteFailed, AppendOrConflict
  <2> QED BY <1>5, <2>1 DEF RecordReady, RecordFailed, WriteReady, WriteFailed, SeqFree, VerdictInv
<1> QED
  BY <1>1, <1>2, <1>3, <1>4, <1>5 DEF JobStep

LEMMA OwnerStep == IInv /\ OwnerInv /\ [Next]_vars => OwnerInv'
<1> SUFFICES ASSUME IInv, OwnerInv, [Next]_vars, InEmbedding' PROVE \E j \in Jobs : Owns(j)'
  BY VerdictStep DEF OwnerInv, EmbeddingHasOwner, Owns, IInv
<1>1. log \in Seq(Revisions) /\ TypeOK /\ VerdictInv
  BY DEF IInv, TypeOK, OwnerInv
<1>2. ASSUME log' = log PROVE \E k \in Jobs : Owns(k)
  BY <1>2 DEF InEmbedding, Latest, OwnerInv, EmbeddingHasOwner, Owns
<1>3. ASSUME NEW j \in Jobs, NEW t \in Tenants, Dispatch(j, t) PROVE Owns(j)'
  BY <1>1, <1>3 DEF Dispatch, Owns, TypeOK
<1>4. CASE RetireDataset
  <2>1. Latest'.retired
    BY <1>1, <1>4 DEF RetireDataset, Latest, Revisions
  <2> QED BY <2>1 DEF InEmbedding
<1>5. CASE (\E rev \in EndpointRevisions : ChangeEndpoint(rev)) \/ Restart \/ UNCHANGED vars
  <2>1. UNCHANGED <<log, base, verdict>>
    BY <1>5 DEF ChangeEndpoint, Restart, jobVars, vars
  <2>2. \A k \in Jobs : pc'[k] = pc[k] \/ pc'[k] = "lost"
    BY <1>5 DEF ChangeEndpoint, Restart, vars
  <2> QED BY <1>2, <2>1, <2>2 DEF Owns
<1>6. ASSUME NEW j \in Jobs, JobStep(j) \/ CallFails(j) \/ AnswerLost(j) PROVE \E k \in Jobs : Owns(k)'
  <2>1. CASE log' = log
    <3>1. PICK k \in Jobs : Owns(k)
      BY <1>2, <2>1
    <3>2. CASE k = j
      <4>1. log # << >> /\ Latest.status = "Embedding"
        BY <2>1 DEF InEmbedding, Latest
      <4> QED BY <1>1, <1>6, <2>1, <3>1, <3>2, <4>1, StepperOwns
    <3>3. CASE k # j
      <4>1. pc'[k] = pc[k] /\ base'[k] = base[k] /\ verdict'[k] = verdict[k]
        BY <1>1, <1>6, <3>3 DEF JobStep, Start, MarkEmbedding, Reread, LoadSourceItems,
             ValidateEndpoint, Lower, ExecutorReturns, RecordReady, RecordFailed,
             RefuseOversized, CallFails, AnswerLost, End, TypeOK
      <4> QED BY <2>1, <3>1, <4>1 DEF Owns
    <3> QED BY <3>2, <3>3
  <2>2. CASE log' # log
    <3>1. MarkEmbedding(j) \/ RecordReady(j) \/ RecordFailed(j) \/ AnswerLost(j)
      BY <1>6, <2>2 DEF JobStep, Start, Reread, LoadSourceItems, ValidateEndpoint, Lower,
           ExecutorReturns, RefuseOversized, CallFails
    <3>2. CASE MarkEmbedding(j)
      <4>1. pc'[j] = "rereading"
        BY <1>1, <2>2, <3>2 DEF MarkEmbedding, WriteEmbedding, AppendOrConflict, TypeOK
      <4> QED BY <4>1 DEF Owns
    <3>3. ASSUME NEW st \in {"Ready", "Failed"}, NEW c, pc[j] = "recording",
                 AppendOrConflict(j, StatusRevision(j, st, c))
          PROVE  FALSE
      <4>1. log[base[j]] \in Revisions
        BY <3>3, HeldRow DEF Holding, Running
      <4>2. StatusRevision(j, st, c).status = st
        BY <4>1 DEF StatusRevision, Revisions
      <4>3. log' = Append(log, StatusRevision(j, st, c))
        BY <2>2, <3>3 DEF AppendOrConflict
      <4>4. Latest' = StatusRevision(j, st, c)
        BY <1>1, <4>3 DEF Latest
      <4> QED BY <4>2, <4>4 DEF InEmbedding
    <3>4. ~RecordReady(j) /\ ~RecordFailed(j)
      BY <3>3 DEF RecordReady, RecordFailed, WriteReady, WriteFailed
    <3>5. CASE AnswerLost(j)
      <4>1. verdict'[j] = "error"
        BY <1>1, <3>5 DEF AnswerLost, End, TypeOK
      <4> QED BY <4>1 DEF Owns
    <3> QED BY <3>1, <3>2, <3>4, <3>5
  <2> QED BY <2>1, <2>2
<1> QED
  BY <1>3, <1>4, <1>5, <1>6 DEF Next, Route, CreateDataset, UpdateDataset

\* Conflicts alone never strand a dataset in Embedding: whoever left it there will still
\* move it, was killed, or gave up with an error (every early return of `run`).
THEOREM EmbeddingOwned == Spec => []EmbeddingHasOwner
<1>1. Init => OwnerInv
  BY DEF Init, OwnerInv, VerdictInv, EmbeddingHasOwner, InEmbedding
<1>2. OwnerInv => EmbeddingHasOwner
  BY DEF OwnerInv
<1> QED
  BY <1>1, <1>2, OwnerStep, Inductive, PTL DEF Spec
=============================================================================
