----------------------------- MODULE NewSubmodule ----------------------------
(***************************************************************************)
(* xtask new-submodule: adds a submodule crate to the workspace in a fixed *)
(* order of git commands, file writes and two edits of the root            *)
(* Cargo.toml, with no way back.  A run may fail or be killed at every     *)
(* step, and the operator cleans up some of what it left and tries again.  *)
(* git and the file system are external.                                   *)
(***************************************************************************)
EXTENDS Naturals, Sequences, FiniteSets, SequencesExt

CONSTANTS MaxRuns   \* bound: runs of the command

VARIABLES toml,        \* the lines of the root Cargo.toml
          was,         \* those lines when the run started
          registered,  \* .gitmodules has an entry for the crate
          tree,        \* the submodule's files as <<name, origin>>, or Absent
          keys,        \* how many of ConfigKeys are set in the submodule
          remote,      \* what the remote repository holds
          args, pc, step, exit, runs

vars == <<toml, was, registered, tree, keys, remote, args, pc, step, exit, runs>>

Line(is, name) == [is |-> is, name |-> name]
Member == Line("member", "new")
Patch == Line("patch", "new")
Anchor == Line("anchor", "in-tree")
PatchHeader == Line("header", "patch")

\* The manifests operators keep: "dep" is only the path of a patch, the anchor or the
\* patch section may be missing, the patch section may be last, and the header that
\* follows it may carry a comment.
Members == <<Line("header", "workspace"), Line("member", "old")>>
Patches == <<PatchHeader, Line("patch", "dep"), Line("blank", "")>>
Manifests ==
    {Members \o <<Anchor>> \o Patches \o <<Line("header", "profile"), Line("other", "lto")>>,
     Members \o <<Anchor>> \o Patches,
     Members \o Patches,
     Members \o <<Anchor, Line("header", "profile")>>,
     Members \o <<Anchor>> \o Patches \o <<Line("commented header", "profile"), Line("other", "lto")>>}

ConfigKeys == <<"core.hooksPath", "commit.gpgsign", "tag.gpgsign", "rebase.gpgsign">>
Scaffold == <<"Cargo.toml", "src/lib.rs", "README.md", "LICENSE-APACHE", "LICENSE-MPL",
              "CHANGELOG.md", ".gitignore">>
Remotes == {{"README.md"}, {"README.md", "Cargo.toml", "src/lib.rs"}}
Absent == {<<"absent", "absent">>}
NoExit == 4   \* killed, or cleaned up since

Args == [validName : BOOLEAN, described : BOOLEAN, before : {"none", "old", "dep"},
         skip : BOOLEAN, adopt : BOOLEAN, dryRun : BOOLEAN]

----------------------------------------------------------------------------
(* The edits of the root Cargo.toml *)

Mentions(name) == \E i \in DOMAIN toml : toml[i].name = name /\ toml[i].is \in {"member", "patch"}

\* The line a member goes before: that member's own line, or the anchor.
IsTarget(line) ==
    line = IF args.before = "none" THEN Anchor ELSE Line("member", args.before)

\* insert_member_into_toml, <<>> for its error.
InsertMember ==
    LET at == SelectInSeq(toml, IsTarget)
    IN  IF at = 0 THEN <<>> ELSE InsertAt(toml, at, Member)

\* Mutant: the end of the section is not looked for.
InsertPatchLast ==
    IF SelectInSeq(toml, LAMBDA line : line = PatchHeader) = 0 THEN <<>> ELSE Append(toml, Patch)

\* insert_patch_into_toml: after the last line of the section that is not blank.  A header
\* with a comment does not end in "]" and is taken for a line of the section.
InsertPatch ==
    LET start == SelectInSeq(toml, LAMBDA line : line = PatchHeader)
        inSection == {i \in start..Len(toml) :
                        \A j \in (start + 1)..i : toml[j].is # "header"}
        last == CHOOSE i \in inSection :
                    /\ toml[i].is # "blank"
                    /\ \A j \in inSection : j > i => toml[j].is = "blank"
    IN  IF start = 0 THEN <<>> ELSE InsertAt(toml, last + 1, Patch)

----------------------------------------------------------------------------
(* A run *)

Exit(code) == pc' = "idle" /\ exit' = code
To(next) == pc' = next /\ step' = 1 /\ UNCHANGED exit

RequireAbsent == tree = Absent /\ ~registered

\* Mutant: a manifest that already mentions the crate is not refused.
RequireMembersLenient == args.before # "none" => Mentions(args.before)

\* require_absent_workspace_member, require_existing_workspace_member: a mention is enough.
RequireMembers == ~Mentions("new") /\ (args.before # "none" => Mentions(args.before))

\* The preflight only reads, and its plan is printed before anything is done.
Preflight(reachable) ==
    /\ pc = "preflight"
    /\ IF /\ args.validName
          /\ args.adopt \/ args.described
          /\ RequireAbsent
          /\ args.skip \/ RequireMembers
          /\ reachable
         THEN IF args.dryRun THEN Exit(0) /\ UNCHANGED step ELSE To("add")
         ELSE Exit(1) /\ UNCHANGED step
    /\ UNCHANGED <<toml, was, registered, tree, keys, remote, args, runs>>

Start(a) ==
    /\ pc = "idle" /\ runs < MaxRuns
    /\ args' = a /\ was' = toml /\ runs' = runs + 1
    /\ pc' = "preflight" /\ step' = 1 /\ exit' = NoExit
    /\ UNCHANGED <<toml, registered, tree, keys, remote>>

\* git submodule add: a failure may leave a part of what it does.
Add(ok, entry, clone) ==
    /\ pc = "add"
    /\ registered' = entry
    /\ tree' = IF clone THEN remote \X {"remote"} ELSE Absent
    /\ keys' = 0
    /\ IF ok THEN entry /\ clone /\ To("configure") ELSE Exit(2) /\ UNCHANGED step
    /\ UNCHANGED <<toml, was, remote, args, runs>>

\* configure_submodule_git; without .githooks the first key has no value.
Configure(hooks, ok) ==
    /\ pc = "configure"
    /\ CASE step = 1 /\ ~hooks -> Exit(3) /\ UNCHANGED <<keys, step>>
         [] ~ok -> Exit(2) /\ UNCHANGED <<keys, step>>
         [] OTHER -> /\ keys' = step
                     /\ IF step = Len(ConfigKeys) THEN To("files")
                        ELSE step' = step + 1 /\ UNCHANGED <<pc, exit>>
    /\ UNCHANGED <<toml, was, registered, tree, remote, args, runs>>

AfterFiles ==
    IF args.skip THEN Exit(0) /\ UNCHANGED step ELSE To("member")

\* require_existing_cargo_toml, the one check that is made after the clone.
Adopt ==
    /\ pc = "files" /\ args.adopt
    /\ IF <<"Cargo.toml", "remote">> \in tree THEN AfterFiles ELSE Exit(1) /\ UNCHANGED step
    /\ UNCHANGED <<toml, was, registered, tree, keys, remote, args, runs>>

Replace(file, origin) == {f \in tree : f[1] # file} \cup {<<file, origin>>}

\* scaffold_files: a write that fails may leave the file cut.
WriteFile(ok) ==
    /\ pc = "files" /\ ~args.adopt
    /\ IF ok
         THEN /\ tree' = Replace(Scaffold[step], "placeholder")
              /\ IF step = Len(Scaffold) THEN AfterFiles
                 ELSE step' = step + 1 /\ UNCHANGED <<pc, exit>>
         ELSE /\ tree' \in {tree, Replace(Scaffold[step], "cut")}
              /\ Exit(3) /\ UNCHANGED step
    /\ UNCHANGED <<toml, was, registered, keys, remote, args, runs>>

\* Reads, inserts and writes in place: a write that fails may leave an empty file.
Edit(at, edited, ok) ==
    /\ pc = at
    /\ IF edited # <<>> /\ ok
         THEN toml' = edited /\ (IF at = "member" THEN To("patch") ELSE Exit(0) /\ UNCHANGED step)
         ELSE toml' \in (IF edited = <<>> THEN {toml} ELSE {toml, <<>>}) /\ Exit(3) /\ UNCHANGED step
    /\ UNCHANGED <<was, registered, tree, keys, remote, args, runs>>

InsertWorkspaceMember(ok) == Edit("member", InsertMember, ok)
InsertPatchEntry(ok) == Edit("patch", InsertPatch, ok)

Kill ==
    /\ pc # "idle"
    /\ pc' = "idle" /\ exit' = NoExit
    /\ UNCHANGED <<toml, was, registered, tree, keys, remote, args, step, runs>>

\* The operator undoes what a failed run left, all of it or some.
CleanUp ==
    /\ pc = "idle" /\ exit # 0
    /\ tree' \in {tree, Absent}
    /\ registered' \in {registered, FALSE}
    /\ toml' \in {toml, was}
    /\ exit' = NoExit
    /\ UNCHANGED <<was, keys, remote, args, pc, step, runs>>

----------------------------------------------------------------------------
Init ==
    /\ toml \in Manifests
    /\ was = toml
    /\ registered = FALSE
    /\ tree = Absent
    /\ keys = 0
    /\ remote \in Remotes
    /\ args = [validName |-> FALSE, described |-> FALSE, before |-> "none",
               skip |-> FALSE, adopt |-> FALSE, dryRun |-> FALSE]
    /\ pc = "idle" /\ step = 1 /\ exit = NoExit /\ runs = 0

Next ==
    \/ \E a \in Args : Start(a)
    \/ \E reachable \in BOOLEAN : Preflight(reachable)
    \/ \E ok, entry, clone \in BOOLEAN : Add(ok, entry, clone)
    \/ \E hooks, ok \in BOOLEAN : Configure(hooks, ok)
    \/ Adopt
    \/ \E ok \in BOOLEAN : WriteFile(ok) \/ InsertWorkspaceMember(ok) \/ InsertPatchEntry(ok)
    \/ Kill
    \/ CleanUp

Spec == Init /\ [][Next]_vars

----------------------------------------------------------------------------
Count(line) == Cardinality({i \in DOMAIN toml : toml[i] = line})

\* However runs failed and were cleaned up and repeated, the crate is never a member or a
\* patch of the workspace twice, which cargo refuses for the whole workspace.
RegisteredOnce == Count(Member) <= 1 /\ Count(Patch) <= 1

\* The section a line is in.
Section(i) ==
    LET headers == {j \in 1..i : toml[j].is \in {"header", "commented header"}}
    IN  toml[CHOOSE j \in headers : \A k \in headers : k <= j].name

PatchInSection == \A i \in DOMAIN toml : toml[i] = Patch => Section(i) = "patch"

\* Exit code 0 outside a dry run: the submodule is there, configured, with every
\* placeholder or with the files of the remote untouched; the manifest got the crate's
\* member and patch lines and no other line was touched.  The member is always in its
\* section, the patch only when no header of the manifest carries a comment: for the
\* others see PatchEndsItsSection.
SuccessIsComplete ==
    exit = 0 /\ ~args.dryRun =>
        /\ registered /\ keys = Len(ConfigKeys)
        /\ IF args.adopt
             THEN <<"Cargo.toml", "remote">> \in tree /\ tree = remote \X {"remote"}
             ELSE \A i \in DOMAIN Scaffold : <<Scaffold[i], "placeholder">> \in tree
        /\ args.skip => toml = was
        /\ ~args.skip =>
               /\ \E at \in 1..(Len(was) + 1), after \in DOMAIN toml :
                      toml = InsertAt(InsertAt(was, at, Member), after, Patch)
               /\ Count(Member) = 1 /\ Count(Patch) = 1
               /\ \A i \in DOMAIN toml :
                      toml[i] = Member => Section(i) = "workspace"
               /\ (\A j \in DOMAIN toml : toml[j].is # "commented header") => PatchInSection

(* A statement of the documentation that the code does not keep *)

\* insert_patch_into_toml: "Append a ... line at the end of the `[patch.crates-io]` block",
\* which the next `[...]` header ends.  A header with a comment after it is no end.
PatchEndsItsSection == exit = 0 => PatchInSection
=============================================================================
