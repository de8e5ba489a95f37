----------------------------- MODULE Standalone ------------------------------
(* The parts that run by themselves: the lowering of connector calls (Lowering), *)
(* three libraries of the servers (H3Stream, VirtDetect, DnsLookup) and four     *)
(* commands an operator runs, and runs again when they failed (Bootstrap,        *)
(* NewSubmodule, VendorUpstream, HfFetch).  A behaviour is about one of them;    *)
(* what the modules name alike is one variable, and the variables of the others  *)
(* stay put.                                                                     *)
EXTENDS Lowering

CONSTANTS MaxByte, Window, MaxFiles, MaxChange,
          Runs, SubmoduleRuns, VendorRuns, VendorEdits, FetchRuns

VARIABLES part,
          lost, credit, stream, queued, writing, buffer, closing, stopped, reading, got, outcome,
          probe, answer,
          resolvConf, resolver, cacheSize, cached, zone, changes, call, seen, result,
          pc, args, exit, runs, files,
          entities, contents, revisions, printed, overlapped,
          toml, was, registered, tree, keys, remote, step,
          entries, stamp, own, queue, plan, stale, digest, outOfDate, edits,
          hub, disk, manifest, fetched, next, cutShort

ASSUME BoundsAssumption == MaxByte \in Nat

H3 == INSTANCE H3Stream
Virt == INSTANCE VirtDetect
Dns == INSTANCE DnsLookup
Boot == INSTANCE Bootstrap
Submodule == INSTANCE NewSubmodule WITH MaxRuns <- SubmoduleRuns
Vendor == INSTANCE VendorUpstream WITH MaxRuns <- VendorRuns, MaxEdits <- VendorEdits
Model == INSTANCE HfFetch WITH MaxRuns <- FetchRuns

h3 == <<lost, credit, stream, queued, writing, buffer, closing, stopped, reading, got, outcome>>
virt == <<probe, answer>>
dns == <<resolvConf, resolver, cacheSize, cached, zone, changes, call, seen, result>>
run == <<args, exit, runs>>
boot == <<entities, contents, revisions, printed, overlapped>>
submodule == <<toml, was, registered, tree, keys, remote, step>>
vendor == <<entries, stamp, own, queue, plan, stale, digest, outOfDate, edits>>
model == <<hub, disk, manifest, fetched, next, cutShort>>
libraries == <<h3, virt, dns>>
vars == <<part, loweringVars, libraries, pc, run, files, boot, submodule, vendor, model>>

NoLowering ==
    /\ endpointLog = [e \in Endpoints |-> <<>>]
    /\ doing = [t \in Tasks |-> "idle"]
    /\ endpoints = [t \in Tasks |-> Nothing]
    /\ replied = [t \in Tasks |-> "none"]
    /\ lowerer = 0 /\ dispatch = 0 /\ realmOf = 0 /\ tenant = 0 /\ bindings = 0
    /\ realm = 0 /\ latest = 0 /\ since = 0 /\ request = 0

NoH3 ==
    /\ lost = 0 /\ credit = 0 /\ stream = 0 /\ queued = 0 /\ writing = 0 /\ buffer = 0
    /\ closing = 0 /\ stopped = 0 /\ reading = 0 /\ got = 0 /\ outcome = 0

NoVirt == probe = 0 /\ answer = 0

NoDns ==
    /\ resolvConf = 0 /\ resolver = 0 /\ cacheSize = 0 /\ cached = 0 /\ zone = 0
    /\ changes = 0 /\ call = 0 /\ seen = 0 /\ result = 0

NoLibrary == NoH3 /\ NoVirt /\ NoDns

NoRun == args = 0 /\ exit = 0 /\ runs = 0

NoBoot == entities = 0 /\ contents = 0 /\ revisions = 0 /\ printed = 0 /\ overlapped = 0

NoSubmodule ==
    /\ toml = 0 /\ was = 0 /\ registered = 0 /\ tree = 0 /\ keys = 0 /\ remote = 0 /\ step = 0

NoVendor ==
    /\ entries = 0 /\ stamp = 0 /\ own = 0 /\ queue = 0 /\ plan = 0
    /\ stale = 0 /\ digest = 0 /\ outOfDate = 0 /\ edits = 0

NoModel == hub = 0 /\ disk = 0 /\ manifest = 0 /\ fetched = 0 /\ next = 0 /\ cutShort = 0

NoCommand == pc = 0 /\ NoRun /\ NoBoot /\ NoSubmodule /\ NoVendor /\ NoModel

PartInit ==
    \/ part = "h3" /\ H3!Init /\ NoVirt /\ NoDns /\ files = 0 /\ NoCommand
    \/ part = "virt" /\ Virt!Init /\ NoH3 /\ NoDns /\ NoCommand
    \/ part = "dns" /\ Dns!Init /\ NoH3 /\ NoVirt /\ files = 0 /\ NoCommand
    \/ /\ part = "bootstrap" /\ Boot!Init
       /\ files = 0 /\ NoRun /\ NoSubmodule /\ NoVendor /\ NoModel /\ NoLibrary
    \/ /\ part = "new-submodule" /\ Submodule!Init
       /\ files = 0 /\ NoBoot /\ NoVendor /\ NoModel /\ NoLibrary
    \/ /\ part = "vendor-upstream" /\ Vendor!Init
       /\ NoBoot /\ NoSubmodule /\ NoModel /\ NoLibrary
    \/ /\ part = "hf-fetch" /\ Model!Init
       /\ files = 0 /\ NoBoot /\ NoSubmodule /\ NoVendor /\ NoLibrary

Init ==
    \/ NoLowering /\ PartInit
    \/ part = "lowering" /\ LoweringInit /\ NoLibrary /\ files = 0 /\ NoCommand

Of(name) == part = name /\ UNCHANGED part
UnchangedCommands == UNCHANGED <<pc, run, boot, submodule, vendor, model>>

PartNext ==
    \/ Of("h3") /\ H3!Next /\ UNCHANGED <<virt, dns, files>> /\ UnchangedCommands
    \/ Of("virt") /\ Virt!Next /\ UNCHANGED <<h3, dns>> /\ UnchangedCommands
    \/ Of("dns") /\ Dns!Next /\ UNCHANGED <<h3, virt, files>> /\ UnchangedCommands
    \/ /\ Of("bootstrap") /\ Boot!Next
       /\ UNCHANGED <<libraries, run, files, submodule, vendor, model>>
    \/ /\ Of("new-submodule") /\ Submodule!Next
       /\ UNCHANGED <<libraries, files, boot, vendor, model>>
    \/ /\ Of("vendor-upstream") /\ Vendor!Next
       /\ UNCHANGED <<libraries, boot, submodule, model>>
    \/ /\ Of("hf-fetch") /\ Model!Next
       /\ UNCHANGED <<libraries, files, boot, submodule, vendor>>

Next ==
    \/ PartNext /\ UNCHANGED loweringVars
    \/ Of("lowering") /\ LoweringNext /\ UNCHANGED <<libraries, files>> /\ UnchangedCommands

Spec == Init /\ [][Next]_vars

\* HTTP/3 transport: see H3Stream.
FaithfulStream == part = "h3" => H3!FaithfulStream

\* Virtualization detection: see VirtDetect.
InnermostReported == part = "virt" => Virt!InnermostReported
ProductNamed == part = "virt" => Virt!ProductNamed

\* DNS resolver.  No answer is older than its question, hickory would keep answers for as
\* long as their records live and the crate forbids it; and `query', the one lookup that
\* tells a missing name from a name without records, does not take the first for the second
\* (AnswerIsCurrent of DnsLookup).
NoStaleAnswer == [][part = "dns" => Dns!AnswerIsCurrent]_vars

\* Bootstrap: see Bootstrap.
OneAdministrator == part = "bootstrap" => Boot!OneAdministrator

\* new-submodule: see NewSubmodule.
RegisteredOnce == part = "new-submodule" => Submodule!RegisteredOnce
SuccessIsComplete == part = "new-submodule" => Submodule!SuccessIsComplete

\* vendor-upstream: see VendorUpstream.
VendoredFaithfully == part = "vendor-upstream" => Vendor!VendoredFaithfully

\* hf-fetch-embed-model: see HfFetch.
BundleMatchesManifest == part = "hf-fetch" => Model!BundleMatchesManifest
=============================================================================
