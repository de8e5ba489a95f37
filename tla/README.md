# Formal model of philharmonic-workspace

TLA+ models of the programs this repository itself implements, model-checked with TLC on small
instances and, where the result matters for every instance, proved with TLAPS. The workspace is the
integration repository of Philharmonic: its binaries wire `philharmonic-*` library crates (git
submodules, not part of this tree) into running services, and the logic that is its own is mostly
about *time*: jobs that hold a row across a thirty-minute await, configurations that are swapped
under running requests, keys that are rotated while tokens are in flight.

Paths below are relative to `src/`. `API` stands for `bins/philharmonic-api-server/src`, `CONN`
for `bins/philharmonic-connector/src`.

## 1. Inventory

### Components, their state and operations

| Component | State | Operations | What is hard | What makes it correct |
|---|---|---|---|---|
| **Embed job** `API/embed_job.rs` | the dataset's append-only revision log (in the store); per job: row held, items loaded, endpoint validated, result | dispatch, mark Embedding, reread, load, validate, lower, execute, append Ready/Failed | a row read before an await of up to 30 min is copied into a new revision; two jobs at once; update, retirement, endpoint rotation and restart in between; appends whose answer is lost; failures that record nothing | a Ready revision has the corpus of its own items; a corpus is never lost; retirement is final; tenants stay apart; the dataset does not hang in Embedding |
| **Embed script, result parser** `API/embed_script.js`, `parse_corpus_output` | loop index, batch, corpus so far; identifiers seen | send batch, pair response, throw, return; accept or refuse each item | pairing only by position; the last partial batch; a worker that reports anything | item *k* gets the vector of text *k*; batches tile the input; the parser accepts exactly the well-formed outputs |
| **Config lowerer** `API/lowerer.rs` | none of its own: realm keys, SCK, signing key; per run: what was lowered so far | for each binding: resolve, read latest revision, open, seal, mint | the endpoint changes during the loop; the binding may name any tenant's endpoint; one binding fails half-way | one fresh revision per binding; only the subject's own configs; all or nothing |
| **Connector service** `CONN/main.rs` | `RuntimeState` (realm, decryption and verifying keys, implementations) behind an `RwLock` | verify, decrypt, check the payload's realm, dispatch to an implementation; reload | state cloned under a lock and used after it; a token is presented for the whole run | an unexpired token of a known key is accepted; a verified call is not turned away by a reload |
| **API server reload** `API/main.rs` (`serve`, `build_runtime`) | live router, live dispatch table (two locks), `LongLivedState` read at startup, SIGHUP notification | load `api.toml`, read key files, build, write router, write table | SIGHUP during a reload; files edited while they are read; only part of the state is reloaded | the last signalled edit goes live; router and table agree; no silent fall-back to defaults |
| **API server dispatch** `API/main.rs` (`dispatch_dynamic`, `rewrite_connector_uri`) | - | choose router or upstream for a request | reads two locks one after the other | a path of a known realm reaches a connector of that realm |
| **Bootstrap** `API/main.rs:151` | the substrate's rows | count principals, then eleven dependent writes | check-then-act, no transaction, ends half-way, repeated | one administrator per deployment; a printed token is one's |
| **Mechanics worker** `bins/mechanics-worker` | configuration, access tokens | reload; otherwise a shell around the `mechanics` crate | tokens replaced under jobs that carry the old one | a rotation refuses no job; a removed token stops working |
| **Chat server** `bins/philharmonic-chat/src` | none | sign-in, mint an instance and its ephemeral token | instance created before its token, client goes away | a token only for an agent, and for the instance just made |
| **Chat frontend** `bins/philharmonic-chat/frontend` | transcript, greeting flag, requests in flight | poll, send, greet, switch language | polls and sends answer out of order | the tab ends up with the instance's transcript; one greeting, whatever overlaps and fails |
| **DNS resolver** `mechanics-dns` | the resolver; hickory's cache | build, four lookups, classification of empty answers | the zone changes under a cached answer | an answer is of the time of its question; `query` tells a missing name from one without records, which the typed lookups answer alike, with an empty list |
| **HTTP/3 transport** `mechanics-h3-quinn` | per stream: bytes being written, a read in progress | open, accept, send, finish, reset, read, stop, datagrams | polls that are given up, partial writes, calls in an order h3 does not promise | the bytes arrive once and in order |
| **Virtualization detection** `philharmonic-virt-detect` | none | a fixed order of probes | several probes hold at once | the innermost environment, by its most specific name |
| **Developer commands** `xtask` | files of the workspace, kept from run to run | `new-submodule`, `vendor-upstream`, `hf-fetch-embed-model`; others keep nothing | interrupted between two writes and run again | a run that reports success left everything right |
| **Repository scripts** `scripts/*.sh` | git state of the parent and its submodules | commit, push, pull, publish in order | interruption between submodule and parent | the parent never names an unpushed submodule commit |
| **philharmonic-\* crates** | submodules, not in this tree | store, policy, workflow, crypto | - | taken from how the code here uses them |

### How they interact

```
 browser ── chat server ──┐                       api.toml, keys   connector.toml, keys
                          v                          │ SIGHUP          │ SIGHUP
 API routes ─────> API server (router, dispatch table)│                 v
      │ spawn             │                           └─ reload    connector service
      v                   │ dispatch_dynamic: /connector/<realm>/… ──> verify, decrypt, execute
 embed job ── lowerer ────┤                                              ^
   │  ^   (seal for realm, mint token)                                   │ same token, every call
   │  └── append revision ──> store (primary key: entity, seq)           │
   └── executor (run timeout) ──> mechanics worker: embed script ────────┘
```

Rows in the store are shared by routes and jobs, with no lock: the only synchronisation is that an
append names its sequence number and the primary key grants a number once. Within a process the
shared state is an `Arc` behind an `RwLock`, cloned by each request. Between processes there are
only calls, tokens with an expiry, and an operator who edits files and signals.

## 2. Modules

In order of dependency. A module `MC`*X* is the TLC instance of *X*.

| Module | Models | Lines of code it stands for |
|---|---|---|
| `EmbedDataset` | the abstract promise of a dataset to its readers: status, items, corpus and retirement, with neither jobs nor revisions | life cycle of design 16 as `embed_job.rs` carries it out |
| `EmbedJob` | jobs, routes, endpoint administrators and restarts over one dataset; implements `EmbedDataset` | `API/embed_job.rs` `run`, `append_status_revision`, `validate_endpoint`, ... |
| `EmbedScript` | one run of the script and the parse of its result | `API/embed_script.js`, `parse_corpus_output` |
| `RealmRotation` | keys and expiry: operator, both reloads, tasks and their tokens, a discrete clock | `API/lowerer.rs`, `serve`, `CONN/main.rs` |
| `Lowering` | the binding loop, dispatch of the script's calls, verification and payload check | `API/lowerer.rs`, `dispatch_dynamic`, `CONN/main.rs` |
| `ApiReload` | startup, reload loop, two locks, edits in progress, rows stored meanwhile | `API/main.rs`, `load_api_config` |
| `ConnectorReload` | the same of the connector, down to the single key files of a realm key pair | `CONN/main.rs` `serve`, `build_runtime`, `read_*_key_file` |
| `WorkerTokens` | the same of the worker, with the operator who rotates its token and the jobs that carry it | `bins/mechanics-worker/src/main.rs` |
| `ChatServer`, `ChatPanel` | the server's two-call mint; one transcript in a browser | `bins/philharmonic-chat/src`, `ChatPanel.tsx`, `usePoll.ts`, `client.ts` |
| `Chat` | both, composed by the tab that signs in, mints and opens panels | `App.tsx`, `SignIn.tsx`, `Awaiting.tsx` |
| `Bootstrap` | invocations of `philharmonic-api bootstrap` over one store | `API/main.rs` |
| `NewSubmodule`, `VendorUpstream`, `HfFetch` | runs and repeated runs of a command over the files it keeps | `xtask/src/bin/*.rs` |
| `Execution` | `RealmRotation` and `EmbedScript`: two views of what a dispatched step or job runs | |
| `H3Stream`, `VirtDetect`, `DnsLookup` | the library, called by anybody, over external quinn, host files and hickory | `mechanics-h3-quinn`, `philharmonic-virt-detect`, `mechanics-dns` |
| `Reloads`, `Standalone` | the three reload modules; and `Lowering` with the seven modules that run by themselves. They share nothing, and a behaviour is one of a single part | |
| `EmbedJobProofs`, `EmbedScriptProofs`, `RealmRotationProofs`, `LoweringProofs`, `ReloadsProofs`, `LibrariesProofs`, `CommandsProofs`, `ChatProofs` | theorems (section 5) | |

`EmbedJob` contains the lowerer as one step that reads the endpoint's latest revision; `Lowering`
opens that step up. Keys and expiry, which `Lowering` leaves out, are all there is in
`RealmRotation`; how a process comes by its keys and tokens is in the three reload modules.
`EmbedScript` opens up `EmbedJob`'s `ExecutorReturns`: its "accepted" is the
outcome `corpus` (or `oversized`), its "refused" `malformed`, its "thrown" `error`. The views are
kept apart because their product is far beyond TLC and no property needs it.

### EmbedJob

`log[i]` is the revision with `revision_seq` *i* - 1. `base[j]` is the row job *j* holds as `latest`;
every append of the job asks for sequence number `base[j] + 1` and copies every slot from that row
(`StatusRevision`). One action is the code between two awaits of `run`, named by `pc`: `Start`
(92-102), `MarkEmbedding` and `Reread` (103-111), `LoadSourceItems`, `ValidateEndpoint` (122-126),
`Lower` (147), `ExecutorReturns` (171), `RecordReady`, `RecordFailed`, and `RefuseOversized`, the
cap of `append_status_revision` that returns from the Ready branch. `CallFails` is an error of any
awaited call; `Restart` loses every task that has started. The API routes live in an external crate
and are modelled by the rows they leave and the status the update route refuses.

`AnswerLost` is an append that the store has done and whose answer is an error to the
job: the revision stays and the job ends as if there were none, which the store's connection can do to any of
the three appends.

Abstracted: a dataset's items are one value, a corpus is the items and the endpoint revision it was made
with, an endpoint revision is what the job looks at.

### EmbedScript

A vector is the position of the text it embeds and the objection, if any, that script or parser would
raise (`Flaws`). `Respond` and `Throw` cover every length of response and every flaw in it. `Misreport`
is a worker that returns some other array and `MisreportOther` one that returns none: the parser is the last check
before the store, and `origin` tells which properties may rely on the script.

### RealmRotation

Keys are numbered by introduction. `held[t]` is the key of the lowerer that the task's router was
built with, fixed at dispatch; `exp[t]` is set when it lowers; every `CallConnector` shows the same
token. The operator's stages are the procedure of `docs/design/11-security-and-cryptography.md`
plus one stage of ours, `draining`, which `DrainFirst` switches on. With `DrainFirst = FALSE`
the module is the documented procedure, and a finding (section 6).

### ApiReload

Versions of `api.toml` and of the key files are numbered, and version *n* of the first names keys that
version *n* of the second first has, so that "a key is not installed yet" is `loaded > keyFiles` (not `Found`). A start or
reload is the file, at a start what `LongLivedState` holds (`BootState`), the verifying keys (`BuildRegistry`) and the keys of
the lowerers (`BuildLowerers`), each a step with the disk free to change before the next: a runtime may well pair an older `api.toml`
with newer keys, or verifying keys of one version with a lowerer's of another, and a failure at any ends the start, or the reload. `explicit` is
`-c` given or not: without it, a missing file loads as the defaults (version 0), also at a start; a start with the defaults
then fails, because `load_signing_key` needs a key file that they do not name (`API/main.rs:732-735`), so defaults go live by a reload only.

### Lowering

A payload is (endpoint, revision index, realm, implementation). `latest[t]` is what the loop body read; the
body finishes in a later step, so tenants can append revisions in between. `Verify` runs under the
connector's read lock and clones its realm into `call`; `Execute` is after the unlock. The realm that
a lowerer picks is a nondeterministic choice at every reload: the code takes the first key of a `HashMap`.

### ConnectorReload and WorkerTokens

`ConnectorReload` reads the key files one step at a time: `unread` is what is left of the configuration's
entries, `partial` the first half of a pair. A file is its generation, 0 while it is missing. The
worker reads no further files; `WorkerTokens` therefore has the load in one step and adds what depends on it:
`apiToken`, the token of the API server's live router, and `job[j]`, the token a job was dispatched with.

### ChatServer, ChatPanel and Chat

`steps` is the workflow instance: who executed each of its steps, and whether the step has an output; one that failed has none
and shows an empty transcript (`Transcript`). An output is the whole transcript, so `shown` and an answer's `latest` are
lengths. A request is `sent`, then `answered` or `failed`; `Lose` is an answer that got lost before or after the step was executed.
`greetingAttempted` is the ref of the same name, and `Afresh` is the effects that depend on `refresh`: the reset of the panel and
the timer, each of which asks at once. They run on a mount and whenever `refresh` is made anew: it depends on a
translated message, so a switch of the language is one (`SwitchLanguage`). Requests of a mount that are in flight when the panel is
left (`Unmount`) can change nothing of the next mount, and what they execute counts as `Other`.

`Chat` is the tab: signing in, which comes back to the view it left, signing out, opening an agent's chat, also while a mock test is being minted,
a mock test's answer that arrives in any view, and going back. The chat server has one request of the tab at a time
to handle, so a mock test never replaces another without the list in between.

### Bootstrap

Each `create_entity_minting`, `put` and first revision is an action, and `Fail` is an error or a kill before
any of them. `Administrator(r)` is what the policy layer needs to accept the token of run *r*. Contents are addressed by their
digest and so shared between runs; only the credential hash is a run's own.

### The developer commands

`NewSubmodule` keeps the root `Cargo.toml` as its lines, because the two edits search for lines and sections.
`VendorUpstream` keeps files as (path, origin) and plans per entry, as the code does; the entries a run has still
before it are the set `queue` of their places, of which `Current` is the first. `HfFetch` has
the manifest written last, and a branch that moves between two downloads. In all three a run that failed or was
killed is followed by another, with or without the operator's cleaning up.

### H3Stream, VirtDetect and DnsLookup

`H3Stream` numbers the bytes h3 hands over; quinn is a bounded buffer between `writing` and the reader. A poll that is
given up changes nothing, so it is just a poll that was not made; what an earlier poll left behind is in
`writing` and `reading`. `SendData` while a write is pending is refused with an error and changes nothing, `poll_send` then panics and drops the
stream (`PollSendTooEarly`). The adapter keeps nothing when a call returns an error, so an action says what a call does when it
succeeds, and kinds of errors and their conversions (`lib.rs:121-139`, `datagram.rs:88-105`) are left out: a model
of them would be a table equal to the code's. So are the datagrams, which are passed on. `VirtDetect` has the probes as a sequence; `files` is any combination of up to three
readable files and what they hold. `DnsLookup` has hickory's cache as `cached`, used only when `cacheSize` is not 0, and `seen`, the
zones there were while a call was pending.

## 3. Runs

| Run | Instance | States | Shows |
|---|---|---|---|
| `embed_job` | 2 jobs, 2 items, 2 tenants, log up to 4 by routes, 2 endpoint revisions, 1 restart | 1.5 M | all safety properties of `EmbedJob`, the refinement of `EmbedDataset`, and, under `FairSpec`, that a dataset leaves Embedding unless a job was lost or gave up |
| `embed_job_failure`, `embed_job_resubmit` | as `embed_job`, 1 tenant | violations | findings 1, 2 |
| `execution` | keys: 2 tasks, lifetime 2, timeout 2, clock to 4, two rotations; script: 3 ids (one empty), up to 3 items, batches of 1 and 2, cap 2 | 836 k | no live token refused, retired keys dead, rotations proceed; tiling, completeness, parser against its declarative reading, termination |
| `key_rotation_overlap` | one rotation without the drain | violation | finding 3 |
| `reloads` | API server: 1 request slot, 3 versions; connector: 2 configurations, 3 key files, 2 generations; worker: 2 jobs, 3 tokens; each with 1 crash, with and without `-c` | 909 k | for each of the three loops that no SIGHUP is lost and no reload half-applied, that a token rotation refuses no job, and that a reload takes effect |
| `api_reload_sck` | 2 versions | violation | finding 4 |
| `lowering_retired` | 1 task, 2 bindings, 2 endpoints of 2 tenants, 2 realms | violation | finding 5 |
| `standalone` | lowering: 1 task of either of 2 tenants, 2 bindings, 1 endpoint, 2 realms, 1 connector, 2 revisions; 4 bytes over a window of 2; 3 readable files; 2 changes of a zone; 3 bootstraps; 3 runs of `hf-fetch-embed-model`, 2 of the other commands | 1.1 M | one fresh revision per binding and no half-lowered script, verified calls stand; one or two properties for each of the other seven parts (section 4) |
| `submodule_section` | 1 run | violation | finding 7 |
| `chat` | 2 requests in flight, 1 mint, 1 send, 1 step of somebody else, 2 failures, 1 language switch, 1 chat left | 521 k | a mount greets once per `refresh`, and catches up |
| `chat_greeting` | 2 requests in flight, no failure, 1 language switch | violation | finding 6 |

**Why the bounds are enough.** The interesting races of `EmbedJob` need two jobs (the second is
spawned by an update while the first is between two awaits) and a log of four: create, mark, update or
retire, outcome; jobs append beyond `MaxRevision`, which only bounds the routes. Two endpoint revisions let an
endpoint be swapped between validation and lowering. In `EmbedScript`, three items and batches of two
have a full batch followed by a partial one, and cap 2 is below, at and above the number of items. In
`RealmRotation` three keys allow a second rotation that meets tokens of the first. In `ApiReload` a
third version lets an edit follow an edit that is being loaded. In `ConnectorReload` one configuration
has a pair of files behind another entry, so that a reload can fail at each, and the other the same `kid` twice; two generations tear
a pair. In `WorkerTokens` three tokens are two rotations, and two jobs can carry different tokens. In `Lowering` the
two bindings are needed for "one fails half-way", two realms for a reload that changes the realm. The bindings are lowered one by one, so that both may name one endpoint, of
the step's tenant or of another, or none. A second task adds nothing there:
tasks share only what nobody but the environment writes, and the theorems hold for any number.
In `Chat` two requests are two refreshes that overlap, or one beside a send or a greeting; two failures are a greeting that fails and a
poll or step that fails after it; one switch makes a second `refresh` with the requests of the first in flight, and one leaving is
enough to mount again. The slots bound how much is in flight, not the code: `Afresh` asks as often as there are slots free. In `Bootstrap` three runs are two that overlap and one
that follows; in the commands, one that is cut off and one that repairs, and for `hf-fetch-embed-model` one that
finds the result. `CommandsProofs` has the theorems for any number of runs. Four bytes over a window of two are two partial writes. Three readable files are one per kind of
evidence (container, DMI, hypervisor).

**Deadlock** is checked for `reloads`, `api_reload_sck` and `lowering_retired`, where something can
always happen. The others may stop and say `CHECK_DEADLOCK FALSE`: in `EmbedJob` all jobs end and
all bounds are spent, a script terminates, the clock of `RealmRotation` is bounded, commands
end, a stream is read to its end, and a chat whose bounds are spent while its tab is closed has nothing left to do.

**Fairness.** Weak fairness throughout, and only on steps somebody owes. `EmbedJob`: each job's steps
(tokio polls a runnable task; the one await that depends on a peer, the executor, is cut off by
`execute_with_run_timeout`), and none for routes, administrators, `CallFails`, `AnswerLost` or `Restart`. `EmbedScript`:
the run, for the same timeout; misreports are never owed. `RealmRotation`: both reloads, because a
SIGHUP is stored as a permit until the loop waits for it; a task's lowering, start and end, because of
its timeouts; the operator and the clock. Dispatches and calls are owed by nobody. `Reloads`: each
server's loop, with its supervisor's restart, not the operator, requests, jobs or crashes. `Chat`: the panel's timer, that
each request is answered or fails, and that the browser resumes what awaits it; users, other
participants and the loss of an answer are owed by nobody, and failures are bounded, since a network that always fails never
catches up.

## 4. Properties

Every passing property has a mutant: a variant of one mapped definition, written above it in its module and
commented "Mutant:", which makes TLC find the property violated. The deepest ones:

- `ReadyCorpusIsOfItsItems` - a Ready revision copies its items from the row the job held, and the
  corpus from items loaded off that row. It holds *because* an append that loses its number is not
  retried: after the re-read that the retry loop of `docs/design/05-storage-substrate.md` recommends it would not be
  that row any more. Its mutant here is a Ready that keeps the old corpus.
- `RetirementIsFinal`, `ItemsChangeOnlyByUpdate` - the same without the re-read (`AppendWithRetry`): the stale row, appended on
  a free number, would undo a retirement or an update.
- `EmbeddingHasOwner` - whoever left a live dataset in Embedding is a job that will still move it, or
  one that was killed or returned early; append conflicts alone never strand a dataset.
- `ImplementsDataset` - all of it together, as the abstract dataset of `EmbedDataset`.
- `StoredCorpusIsComplete` - `parse_corpus_output` does not check that every item is there: completeness rests on
  the script's loop alone.
- `NoLiveTokenRefused`, `RetiredKeyIsDead` - whatever the order of the two reloads, and however slowly a
  dispatched task lowers.
- `SettledMeansCurrent` - a SIGHUP sent after the last edit is not lost, although several merge into one
  and an earlier reload may have torn `api.toml` from its keys.
- `LoweredFromOneFreshRevision` - a running script has each of its bindings, and configuration and implementation of
  each come from the same revision, and from none that was replaced before the lowering began.
- `SettledKeysAreLive`, `WholeConfigurations` - a realm key pair torn by a renewal under the reader lasts only until the
  SIGHUP of the operator who finished it, and a reload that fails at any file leaves nothing of itself.
- `RotationRefusesNoJob` - it needs all of: add before switching, switch after the worker has the token, remove when no job has
  the old one; and it holds only with `-c`, because without it a missing file empties the list.
- `FaithfulStream` - the cut of a partial write is in the adapter's field, not in the caller's, so a given-up poll
  must leave it consistent (`PollReadyWithoutAdvance` sends bytes twice).
- `OneAdministrator` - bootstrap refuses once *any* principal exists, before its revision does: a run that failed early is repeated
  freely, a run that failed late locks the command, and neither gives two administrators.
- `InnermostReported`, `ProductNamed` - which of several pieces of evidence wins: a container's over a machine's, DMI's name over
  CPUID's, Xen's and the device tree's. Of several names that DMI has itself the code's order is a mixed one, and the property says it as it is:
  the emulator's last, Xen's after a product's, KVM's, where there is its mark, before any product's.
- `NoStaleAnswer` - no answer is older than its question; and `query` does not take a missing name for one without records. The typed lookups
  do, by design of their return type.
- `SuccessIsComplete`, `VendoredFaithfully` - exit code 0, after any history of runs that were cut off, means what it says: everything
  asked for is there once, no other line was touched; the selected crates are their releases. Where the patch line is, it says only
  of manifests whose headers carry no comment; for the others finding 7 says it is in the wrong section.
- `BundleMatchesManifest` - a manifest that can be read describes the files beside it, until the overwriting of an existing bundle is cut off.
- `GreetedOncePerRefresh`, `CatchesUp` - although refreshes overlap and each decides from its own answer, the flag is set before the
  first await, and only a new `refresh` clears it (finding 6); and whatever is shown in between, a later poll repairs it.

## 5. Theorems

TLAPS proves these for every value of the constants, given the named `ASSUME` of each module, which
every run of that module evaluates. Of the compositions, `Reloads` assumes only the shape of a configuration
(`ConfigsAssumption`), `Standalone` only that the number of bytes is a natural (`BoundsAssumption`) and what `Lowering` assumes, and `Chat` nothing.
None but the two marked ones has a further hypothesis.

**EmbedJobProofs.** Neither `TypeOK` nor `ReadyCorpusIsOfItsItems` is inductive: a job appends what it read many steps ago.
The inductive `IInv` is both of them and `JobInv`: a job that holds a row holds one that is in the log, its tenant was
compared with the dataset's, it embeds no `Created` row, and once loaded its items are those of the row it holds.
`Inductive` gives `TypeCorrect` and `ReadyMatches`. Properties that relate neighbouring revisions
(`CarryForward`, `RetirementFinal`, `ItemsByUpdate`, and `AppendOnly`, that no step rewrites the log or appends twice) rest on one lemma, `StepOfLog`: every step
leaves the log alone or appends one revision that is a legal successor of the last one. That lemma is
where sequence numbers matter: a job's append succeeds only when the row it holds *is* the last
one (`StatusRevisionIsSuccessor`). `Isolation` uses one more invariant, `ForeignInv`: a job
dispatched for another tenant, or not yet past its first check, has lowered nothing and appended nothing.
`EndpointChecked` has `EndpointInv`, what a job knows of the endpoint revision it validated. `EmbeddingOwned` is about
who answers for a dataset in Embedding (`Owns`): a job that steps without appending keeps owning it or ends with a verdict that
says why not (`StepperOwns`), a lost race is no owner's, and a job that appends `Embedding` owns what it
appended. `Refinement` maps each `LogStep` to a step of `EmbedDataset` or to a stutter.

**EmbedScriptProofs.** `ScriptInv` says what the loop holds: between batches the corpus covers exactly the items before
`start`, while a batch is out it is the slice after it. `ParseInv` says what the parser has kept: a prefix of the result
it has looked at. Together with `TypeOK` they are inductive and give `Tiling`, `Completeness`
and `ParserIsReference`, for every list of items, batch size, cap, answer and misreport.

**RealmRotationProofs.** `StageInv` says for each stage of the procedure what the two files and the
two processes may hold, which with `TypeOK` is inductive and gives `TypeCorrect` and `KeyKnown`. `TokenInv` bounds,
per stage, the keys a task may still mint with (`Mintable`) and those an unexpired token may carry
(`Presentable`), with `exp <= switched + Lifetime` for tokens of the old key: this is where the drain is
needed. `AnswerInv` is about the history variables of the last call. `LiveTokensAccepted` and
`RetiredKeysDead` assume `DrainFirst`; without it they are false (finding 3).

**LoweringProofs.** `Inv` has what the loop holds between its two steps (`ReadInv`: the revision read is of the binding's
endpoint and was newest since the lowering began), the same for what was sealed (`LoweredInv`), that a running
script has every binding, and that a checked call carries
the realm its payload was sealed for (`CallInv`). It gives `OneFreshRevision` and `VerifiedStands`.
The one lemma under it is `AppendKeeps`: a revision, once appended, stays where it is.

**ReloadsProofs.** One theorem per safety property of `reloads`, for the three servers.
*API server*: `ApiSettled` says, for each place the loop can be at, what it carries when nothing was edited since
the last signal and that signal was taken: the loaded version, the built runtime, or the two live halves are those on disk;
`ApiAgree` and `ApiExplicit` are the same for the agreement of the two halves and for the defaults. They give
`SettledCurrent`, `MixedOnlyBetweenWrites` and `NoFallBack`.
*Connector*: the registries are read entry by entry and file by file, and the configurations are a constant
(`ConfigsAssumption`: each a sequence of entries, each entry with files and a `kid`). After *n* entries, `Whole` says
that the registry has exactly the keys of these entries, and under each the parts of the last entry of that key, each of a
generation that its file has had; `Fresh` that they are the generations on disk. `Read` and `ReadFresh` carry them
through a reload, `LiveWhole` and `LiveFresh` past the swap; `ConnectorRead` is the step that makes an entry one of those read.
They give `SettledKeys` and `OneConfiguration` for any configurations, any number of key files and of renewals.
*Worker*: `TokensInUse` names, per stage of the rotation, the tokens a job may carry; the invariant is that a job
carries one of them, the file lists them, and a serving worker started with `-c` accepts them. It gives `NoJobRefused` and,
with `WorkerSettled`, `SettledTokens`.

**LibrariesProofs.** *H3Stream*: the properties compare sequences of numbered bytes. `Numbers` says that each of the places a byte can be
at (what was read, the window, what is being written, what h3 handed over) begins where the one before it ends (`Follows`), and
`Amounts` that their lengths add up, however writes are cut into pieces. `StreamFaithful` follows for any number of bytes and any window (`BoundsAssumption`: `MaxByte` is a natural).
*VirtDetect*: while `detect` is at a probe no earlier one has answered (`HitAt`); that no container evidence is left when a virtual
machine is named, and no DMI product when a hypervisor is, is then a fact about the order of the probes, and which of DMI's names is given one about the order of its rules (`DmiAnswers`).
`Innermost` and `Product` hold for any number of files.
*DnsLookup*: that no answer was kept (`DnsInv`) and that what is returned was in a zone seen during the call: `AnswersCurrent`, an action property.

**CommandsProofs.** *Bootstrap*: `RowsInv` says which rows a run has written at each of its steps, and rows stay;
`AloneInv` that, while runs never overlapped, the first to mint a principal is the last. `AdministratorOnce` follows for
any number of invocations. *NewSubmodule*: `Manifest` is what every manifest keeps (each line of the crate at most once, the workspace's section
the first), and two lemmas say where `InsertMember` and `InsertPatch` put their line; `Editing` relates the manifest of a run
to the one it started from, `Making` what it has made so far. They give `SubmoduleOnce` and `SubmoduleComplete`; the place of the
patch line is in the second for manifests without commented headers only. *VendorUpstream*: `PlanMade` is
what the plan of the entry at hand stands for, and `Processed` that the entries before it are in sync *and stay so*, which needs
the entries to be in different crates; `OwnKept` that what is the crate's own is synced by no entry. They give `Vendored`. *HfFetch*: the files before the next one to
write are on disk (`WrittenSoFar`), which gives `Bundle`. These hold for any number of runs, kills and edits; the manifests,
releases and patterns are those the modules name.

**ChatProofs.** A budget: greetings executed, greetings on their way, and one more while the panel has not used its chance, are
together at most one more than the switches of the language since the mount (`Budget`), for any number of requests in flight. A poll that answers with no steps
spends the chance in the same step that sends the request. A panel that is not mounted has nothing in flight and its instance no greeting, so that
a mount starts with the budget full. A chat that waits for an agent has steps from the start, so
no poll ever answers with none (`NotFresh`). `GreetedOnce` follows.

`Execution`, `Reloads` and `Standalone` are compositions in which a behaviour stays with its part; a theorem about one is the theorem of the part, by
a lemma (`LibraryStep`, `CommandStep`) that turns a step of the whole into a step of the part or a stutter of it.

**Only model-checked.** All liveness (`EmbeddingResolves`, `RotationProceeds`, `ReloadTakesEffect`, `Terminates`,
`CatchesUp`): temporal reasoning with `ENABLED` is beyond the prover. Every invariant, action property and refinement that a passing run
checks is also a theorem; `NoLiveTokenRefused` and `RetiredKeyIsDead` under `DrainFirst`.

## 6. Findings

Places where a document or comment says one thing and the code does another. Each is a run that ends in a
counterexample.

1. `FailureIsRecorded` - design 16 says a failing job appends `Failed`; several checks return early and leave `Embedding`.
2. `ResubmissionRecovers` - after a restart "recovery is an admin resubmission", which the update route refuses in `Embedding`.
3. `OverlapSuffices` - design 11 keeps the old key for one token lifetime after the switch; work dispatched before it still mints with the old key after it.
4. `KeyVersionNotAhead` - `sck_key_version` is reloaded and the SCK it labels is not.
5. `RetiredFailsAtLowerer` - design 10 says a retired endpoint fails at the lowerer, which does not look at `is_retired`.
6. `GreetedOncePerMount` - the chat's README calls the greeting "single-shot per ChatPanel mount"; a switch of the language
   makes a new `refresh`, whose effect clears the guard, and an instance whose first greeting is in flight is greeted again.
7. `PatchEndsItsSection` - `new-submodule` says it appends at the end of the `[patch.crates-io]` block, which the next header ends; a header
   with a comment behind it does not, and the patch is put into a later section with exit code 0.

Also seen in the models, and not kept as runs of their own:

- Design 16 says "One embed job per dataset at a time" (`docs/design/16-embedding-datasets.md:506`); an update is accepted while the dataset is still
  `Created`, and starts a second job beside the first. `ReadyCorpusIsOfItsItems` and `ImplementsDataset` hold all the same.
- `hf-fetch-embed-model` promises exit code 0 for a bundle that is "present and up-to-date" (`xtask/src/bin/hf-fetch-embed-model.rs:54`) and
  compares only the manifest with what it downloaded (line 208), not the files on disk: after an overwriting that was cut off, a run
  for the old revision reports success over a mixed bundle. A torn manifest asks for `--force`, which does not get past it.
- `xen_capabilities` answers nothing for a dom0 (`philharmonic-virt-detect/src/lib.rs:399`), but the next probe,
  `/sys/hypervisor/type`, says xen there as well.
- `stop_sending` unwraps a stream that is absent while a read is pending (`mechanics-h3-quinn/src/lib.rs:403-407`), which `H3Stream` has as the outcome `panicked`.
- An embed token lives as long as the run timeout but is minted before the run starts, so the last batches of a run near
  its timeout can be answered "expired".
- Two entries of `vendor.toml` that share a target overwrite each other's stamp.
- Without `-c` a missing `api.toml` is read as built-in defaults (`API/main.rs:399-410`), with which no server starts: they name no
  signing key (`API/main.rs:732-735`) unless a drop-in file, which the model leaves out, adds one. A running server does fall back to them.

## 7. Not modelled, and why

- The `philharmonic-*` and `mechanics*` crates are submodules without contents here. What the code relies on is an external definition of the
  map: an append that fails when its number is taken, latest revision, a sealed blob that opens only with its associated data, expiry. For the same
  reason the signing key beside the verifying keys (`API/main.rs:425`) is not: which of them verifies a token is decided there.
- What ties a stored blob to its tenant is the associated data of its encryption, in the `philharmonic-policy` crate; `Lowering` has
  it as the guard `Opens`, of which a property could only repeat it.
- The datagrams of `mechanics-h3-quinn` and the kinds of its errors (section 2).
- Cryptography is a key number and a tenant; wire formats, HTTP statuses, logging, rate limits and header values are left out: this code fills
  records for them and keeps no state.
- The mechanics worker's executor is an environment that answers anything, late or not at all.
- `rewrite_connector_uri` is a function of a string to a string, without state.
- `codex-fmt`, `openai-chat`, `web-fetch`, `tokei-stats` and the like read, format or fetch once and keep nothing.
- The list of waiting chats (`Awaiting.tsx`) with its notifications, and what the frontend keeps in `localStorage`: nothing says
  how often a chat is to be announced, so there is no property to check.
- The scripts work on the state git keeps in repositories that are not in this tree.
- The realm an endpoint is sealed for is left open in `Lowering`, as the code leaves it to the order of a map.

## 8. Plan

Done, in order of importance: the embed job with its abstract specification; the script and parser; key rotation;
the reloads of all three servers; lowering and dispatch; bootstrap; the chat; the libraries; the commands that keep
files; theorems about all of their safety properties.

What would add most next:

1. The list of waiting chats beside `ChatPanel`, once it is said what its notifications promise.
2. The scripts, as an order of submodule and parent commits and pushes that may stop anywhere.
3. An abstract specification of a reloading server that `ApiReload`, `ConnectorReload` and `WorkerTokens` each implement.
4. `NewSubmodule` over any manifest of the shape `Manifest` describes, instead of the ones the module names.
