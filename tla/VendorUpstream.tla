---------------------------- MODULE VendorUpstream ---------------------------
(***************************************************************************)
(* xtask vendor-upstream: brings chosen files of crates.io releases into   *)
(* in-tree crates, entry by entry of vendor/vendor.toml, or checks that    *)
(* they are there.  A run stops at the first error or is killed between    *)
(* two writes; between runs the operator moves an entry to another release *)
(* or edits a crate.  crates.io and the file system are external.          *)
(***************************************************************************)
EXTENDS Naturals, Sequences, SequencesExt

CONSTANTS MaxRuns, MaxEdits   \* bounds: runs of the command, edits between them

VARIABLES entries,  \* the manifest: the entries, in order
          files,    \* by target: the files of the crate
          stamp,    \* by target: .vendor-stamp.toml
          own,      \* history, by target: files nobody but the operator may change
          args, pc, queue, plan, stale, digest, outOfDate, exit, runs, edits

crate == <<entries, own, edits>>
vars == <<crate, files, stamp, args, pc, queue, plan, stale, digest, outOfDate, exit, runs>>

Targets == {"h3", "quic"}

\* Bytes are told apart by who they are from, and by the release where it changed them.
File(path, bytes) == [path |-> path, bytes |-> bytes]
Manifest == <<"Cargo.toml">>

\* The files of a release: the second replaces a file, drops one and has a file where the
\* first has a directory.
Release(name, version) ==
    {File(Manifest, <<"upstream", 0>>), File(<<"src", "lib.rs">>, <<name, version>>)} \cup
    (IF version = 1 THEN {File(<<"src", "imp", "mod.rs">>, <<name, 0>>), File(<<"data", "a">>, <<name, 0>>)}
                    ELSE {File(<<"data">>, <<name, 0>>), File(<<"LICENSE">>, <<name, 0>>)})

\* A component pattern is the set of the names it matches.
AnySegments == {"**"}
AnyName == {"Cargo.toml", "lib.rs", "mod.rs", "data", "a", "LICENSE", "src", "imp", "own.rs"}
Globs == {{<<AnySegments>>},
          {<<{"src"}, AnySegments, {"lib.rs", "mod.rs", "own.rs"}>>},
          {<<{"src"}, AnyName>>, <<{"LICENSE"}>>}}

Entry(name, target, version, sync) ==
    [name |-> name, target |-> target, version |-> version, sync |-> sync]

NoStamp == [name |-> "none", version |-> 0, sha |-> "none"]
TornStamp == [name |-> "torn", version |-> 0, sha |-> "none"]

----------------------------------------------------------------------------
(* What is synced *)

\* match_segments: m[i, j] says the patterns from i on match the segments from j on.
MatchSegments(patterns, texts) ==
    LET m[i \in 1..(Len(patterns) + 1), j \in 1..(Len(texts) + 1)] ==
            IF i > Len(patterns) THEN j > Len(texts)
            ELSE IF patterns[i] = AnySegments THEN \E k \in j..(Len(texts) + 1) : m[i + 1, k]
            ELSE j <= Len(texts) /\ texts[j] \in patterns[i] /\ m[i + 1, j + 1]
    IN  m[1, 1]

IsProtectedPath(path) == path = Manifest

Synced(entry, path) ==
    ~IsProtectedPath(path) /\ \E pattern \in entry.sync : MatchSegments(pattern, path)

SyncedOf(entry, some) == {f \in some : Synced(entry, f.path)}
Paths(some) == {f.path : f \in some}

----------------------------------------------------------------------------
(* crates.io *)

\* Days since publication; NoPubtime when the index does not say.
NoPubtime == 9
NotListed == [yanked |-> FALSE, age |-> 0]
Index == {NotListed} \cup [yanked : BOOLEAN, age : {2, 3, NoPubtime}]

Cooldown == 3
FetchIndexEntry(index) == index # NotListed /\ ~index.yanked
EnforceCooldown(index) == index.age # NoPubtime /\ index.age >= Cooldown

\* Mutant: what was downloaded is not compared with the index.
AnyTarball(sha) == TRUE

\* "good" is the digest the index lists.
VerifyChecksum(sha) == sha = "good"

Unpack(entry, sha) ==
    {File(f.path, IF sha = "good" THEN f.bytes ELSE <<"damaged", 0>>) : f \in Release(entry.name, entry.version)}

----------------------------------------------------------------------------
(* A run *)

Idle == pc = "idle"
Exit(code) == pc' = "idle" /\ exit' = code
NoExit == 4   \* killed, or changed since

\* select_entries, and reading the manifest; entries are known by their place in it.
Selected == {i \in DOMAIN entries : args.entry \in {"all", entries[i].name, entries[i].target}}

\* The entry at hand: they are taken in the order of the manifest.
Current == entries[Min(queue)]

Start(a) ==
    /\ Idle /\ runs < MaxRuns
    /\ args' = a /\ runs' = runs + 1
    /\ pc' = "select" /\ exit' = NoExit
    /\ outOfDate' = FALSE
    /\ UNCHANGED <<crate, files, stamp, queue, plan, stale, digest>>

Select ==
    /\ pc = "select"
    /\ queue' = Selected
    /\ IF Selected = {} THEN Exit(1) ELSE pc' = "fetch" /\ UNCHANGED exit
    /\ UNCHANGED <<crate, files, stamp, args, plan, stale, digest, outOfDate, runs>>

\* Everything that can refuse an entry comes before its plan, and the plan before any write.
Fetch(index, sha, network, disk) ==
    LET entry == Current IN
    /\ pc = "fetch"
    /\ CASE ~network -> Exit(2) /\ UNCHANGED <<plan, stale, digest>>
         [] ~(FetchIndexEntry(index) /\ EnforceCooldown(index) /\ VerifyChecksum(sha)) ->
                Exit(1) /\ UNCHANGED <<plan, stale, digest>>
         [] ~disk -> Exit(3) /\ UNCHANGED <<plan, stale, digest>>
         [] OTHER ->
                /\ plan' = SyncedOf(entry, Unpack(entry, sha))
                /\ stale' = {f \in SyncedOf(entry, files[entry.target]) : f.path \notin Paths(plan')}
                /\ digest' = sha
                /\ pc' = (IF args.check THEN "check" ELSE "write")
                /\ UNCHANGED exit
    /\ UNCHANGED <<crate, files, stamp, args, queue, outOfDate, runs>>

Finish ==
    /\ queue' = queue \ {Min(queue)}
    /\ IF queue' # {} THEN pc' = "fetch" /\ UNCHANGED exit
       ELSE Exit(IF outOfDate' THEN 1 ELSE 0)

StampOf(entry) == [name |-> entry.name, version |-> entry.version, sha |-> digest]

\* check_plan; a stamp that does not parse ends the run.
CheckPlan ==
    LET entry == Current IN
    /\ pc = "check"
    /\ IF stamp[entry.target] = TornStamp
         THEN Exit(1) /\ UNCHANGED <<queue, outOfDate>>
         ELSE /\ outOfDate' = (\/ outOfDate
                               \/ plan \ files[entry.target] # {} \/ stale # {}
                               \/ stamp[entry.target] # StampOf(entry))
              /\ Finish
    /\ UNCHANGED <<crate, files, stamp, args, plan, stale, digest, runs>>

\* A file where the other has a directory is an error of the read that comes first.
InTheWay(f, target) ==
    \E g \in files[target] :
        IsStrictPrefix(f.path, g.path) \/ IsStrictPrefix(g.path, f.path)

Put(target, f) ==
    [files EXCEPT ![target] = {g \in @ : g.path # f.path} \cup {f}]

\* Files that differ are written in place, in the order of their paths, here in any order.
WriteFile(f, ok) ==
    LET target == Current.target IN
    /\ pc = "write"
    /\ f \in plan \ files[target]
    /\ IF ok /\ ~InTheWay(f, target)
         THEN files' = Put(target, f) /\ UNCHANGED <<pc, exit>>
         ELSE /\ files' \in {files} \cup
                  (IF InTheWay(f, target) THEN {} ELSE {Put(target, File(f.path, <<"cut", 0>>))})
              /\ Exit(3)
    /\ UNCHANGED <<crate, stamp, args, queue, plan, stale, digest, outOfDate, runs>>

\* Stale files, and the directories they leave empty.
RemoveStale(f, ok) ==
    LET target == Current.target IN
    /\ pc = "write"
    /\ plan \subseteq files[target]
    /\ f \in stale \cap files[target]
    /\ IF ok THEN files' = [files EXCEPT ![target] = @ \ {f}] /\ UNCHANGED <<pc, exit>>
             ELSE Exit(3) /\ UNCHANGED files
    /\ UNCHANGED <<crate, stamp, args, queue, plan, stale, digest, outOfDate, runs>>

\* The stamp carries the time, so it is always rewritten.
WriteStamp(ok) ==
    LET entry == Current IN
    /\ pc = "write"
    /\ plan \subseteq files[entry.target] /\ stale \cap files[entry.target] = {}
    /\ IF ok THEN stamp' = [stamp EXCEPT ![entry.target] = StampOf(entry)] /\ UNCHANGED outOfDate /\ Finish
             ELSE /\ \E s \in {stamp[entry.target], TornStamp} : stamp' = [stamp EXCEPT ![entry.target] = s]
                  /\ Exit(3) /\ UNCHANGED <<queue, outOfDate>>
    /\ UNCHANGED <<crate, files, args, plan, stale, digest, runs>>

Kill ==
    /\ ~Idle
    /\ Exit(NoExit)
    /\ UNCHANGED <<crate, files, stamp, args, queue, plan, stale, digest, outOfDate, runs>>

----------------------------------------------------------------------------
(* The operator, between runs *)

Edited ==
    /\ Idle /\ edits < MaxEdits
    /\ edits' = edits + 1 /\ exit' = NoExit
    /\ UNCHANGED <<stamp, args, pc, queue, plan, stale, digest, outOfDate, runs>>

Bump(i) ==
    /\ Edited
    /\ entries' = [entries EXCEPT ![i].version = 3 - @]
    /\ UNCHANGED <<files, own>>

\* An edit of the manifest of the crate, of a vendored file, or a new file of one's own.
EditFile(target, path) ==
    LET f == File(path, <<"edited", 0>>)
        synced == \E i \in DOMAIN entries : entries[i].target = target /\ Synced(entries[i], path)
    IN  /\ Edited
        /\ files' = Put(target, f)
        /\ own' = IF synced THEN own ELSE [own EXCEPT ![target] = {g \in @ : g.path # path} \cup {f}]
        /\ UNCHANGED entries

----------------------------------------------------------------------------
Args == [check : BOOLEAN, entry : {"all", "h3", "other"}]

Init ==
    /\ \E sync \in Globs, target \in Targets :
           entries = <<Entry("h3", "h3", 1, sync), Entry("quinn", target, 2, {<<{"src"}, {"lib.rs"}>>})>>
    /\ own = [t \in Targets |-> {File(Manifest, <<"own", 0>>)}]
    /\ files = own
    /\ stamp = [t \in Targets |-> NoStamp]
    /\ args = [check |-> TRUE, entry |-> "all"]
    /\ pc = "idle" /\ queue = {} /\ plan = {} /\ stale = {} /\ digest = "none"
    /\ outOfDate = FALSE /\ exit = NoExit /\ runs = 0 /\ edits = 0

Next ==
    \/ \E a \in Args : Start(a)
    \/ Select
    \/ \E index \in Index, sha \in {"good", "bad"}, network, disk \in BOOLEAN :
           Fetch(index, sha, network, disk)
    \/ CheckPlan
    \/ \E ok \in BOOLEAN :
           \/ \E f \in plan : WriteFile(f, ok)
           \/ \E f \in stale : RemoveStale(f, ok)
           \/ WriteStamp(ok)
    \/ Kill
    \/ \E i \in DOMAIN entries : Bump(i)
    \/ \E target \in Targets, path \in {Manifest, <<"src", "lib.rs">>, <<"src", "own.rs">>} :
           EditFile(target, path)

Spec == Init /\ [][Next]_vars

----------------------------------------------------------------------------
InSync(entry) ==
    /\ SyncedOf(entry, files[entry.target]) = SyncedOf(entry, Release(entry.name, entry.version))
    /\ stamp[entry.target] = [name |-> entry.name, version |-> entry.version, sha |-> "good"]

\* "0 all selected entries are up to date / written" (vendor-upstream.rs:23), after any
\* history of failed and killed runs, damaged downloads and edits, when no two entries
\* share a crate; and what a crate has of its own is never written or removed.
VendoredFaithfully ==
    /\ exit = 0 /\ entries[1].target # entries[2].target =>
           \A i \in Selected : InSync(entries[i])
    /\ \A t \in Targets : own[t] \subseteq files[t]
=============================================================================
