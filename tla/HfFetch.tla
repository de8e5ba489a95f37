------------------------------- MODULE HfFetch -------------------------------
(***************************************************************************)
(* xtask hf-fetch-embed-model: downloads the files of an embedding model   *)
(* at a revision and keeps them in a directory with a manifest of their    *)
(* digests, written last.  A branch moves while it is downloaded from; a   *)
(* write fails or the run is killed between two files.                     *)
(* HuggingFace and the file system are external.                           *)
(***************************************************************************)
EXTENDS Naturals, Sequences, FiniteSets

CONSTANTS MaxRuns   \* bound: runs of the command

VARIABLES hub,       \* the version each revision stands for
          disk,      \* the files of the bundle, by name; "none" when absent
          manifest,  \* manifest.json: a record, NoManifest or Torn
          args, pc, fetched, next, exit, runs,
          cutShort   \* history: the bundle was overwritten, and its manifest was not

vars == <<hub, disk, manifest, args, pc, fetched, next, exit, runs, cutShort>>

Revisions == {"pinned", "main"}
OnnxPaths == {"onnx/model.onnx", "quantized.onnx"}
Basename(path) == IF path = "onnx/model.onnx" THEN "model.onnx" ELSE path
TokenizerFiles == <<"tokenizer.json", "config.json">>
FileNames == {"model.onnx", "quantized.onnx", "tokenizer.json", "config.json"}

\* What is downloaded, in order: the model first, then the tokenizer's files.
Plan == <<Basename(args.onnxPath)>> \o TokenizerFiles

\* A file's bytes are told apart by the version they are of, and so is their digest.
Cut == "cut"
NoManifest == [revision |-> "none", onnxPath |-> "none", files |-> {}]
Torn == [revision |-> "torn", onnxPath |-> "none", files |-> {}]

Exit(code) == pc' = "idle" /\ exit' = code
NoExit == 4   \* running, or killed

----------------------------------------------------------------------------
Start(a) ==
    /\ pc = "idle" /\ runs < MaxRuns
    /\ args' = a /\ runs' = runs + 1 /\ fetched' = <<>> /\ next' = 1
    /\ IF a.valid THEN pc' = "fetch" /\ exit' = NoExit ELSE Exit(1)
    /\ UNCHANGED <<hub, disk, manifest, cutShort>>

\* Everything is downloaded before anything is looked at or written.
Fetch(ok) ==
    /\ pc = "fetch"
    /\ IF ok THEN /\ fetched' = Append(fetched, hub[args.revision])
                  /\ pc' = (IF Len(fetched') = Len(Plan) THEN "decide" ELSE "fetch")
                  /\ UNCHANGED exit
             ELSE Exit(2) /\ UNCHANGED fetched
    /\ UNCHANGED <<hub, disk, manifest, args, next, runs, cutShort>>

\* The manifest's files, by name.
Digests == {<<Plan[i], fetched[i]>> : i \in DOMAIN Plan}

\* The manifest of this run's downloads.
Wanted == [revision |-> args.revision, onnxPath |-> args.onnxPath, files |-> Digests]

\* The downloads are compared with the manifest, and the files on disk with nothing.
UpToDate == manifest = Wanted

Decide(mkdir) ==
    /\ pc = "decide"
    /\ CASE manifest = Torn -> Exit(1)
         [] UpToDate -> Exit(0)
         [] ~UpToDate /\ manifest \notin {NoManifest, Torn} /\ ~args.force -> Exit(1)
         [] OTHER -> IF mkdir THEN pc' = "write" /\ UNCHANGED exit ELSE Exit(3)
    /\ UNCHANGED <<hub, disk, manifest, args, fetched, next, runs, cutShort>>

\* A write that fails may leave the file cut.
WriteFile(ok) ==
    LET name == Plan[next] IN
    /\ pc = "write" /\ next <= Len(Plan)
    /\ \E left \in (IF ok THEN {fetched[next]} ELSE {disk[name], Cut}) :
           disk' = [disk EXCEPT ![name] = left]
    /\ cutShort' = (cutShort \/ (manifest # NoManifest /\ disk' # disk))
    /\ IF ok THEN next' = next + 1 /\ UNCHANGED <<pc, exit>> ELSE Exit(3) /\ UNCHANGED next
    /\ UNCHANGED <<hub, manifest, args, fetched, runs>>

Encode(ok) ==
    /\ IF ok THEN manifest' = Wanted /\ cutShort' = FALSE
             ELSE manifest' \in {manifest, Torn} /\ UNCHANGED cutShort
    /\ IF ok THEN Exit(0) ELSE Exit(3)
    /\ UNCHANGED <<hub, disk, args, fetched, next, runs>>

\* Mutant: the manifest is the first file that is written.
WriteManifestFirst(ok) == pc = "write" /\ Encode(ok)

WriteManifest(ok) == pc = "write" /\ next > Len(Plan) /\ Encode(ok)

Kill ==
    /\ pc # "idle"
    /\ Exit(NoExit)
    /\ UNCHANGED <<hub, disk, manifest, args, fetched, next, runs, cutShort>>

MoveBranch ==
    /\ hub["main"] = "v1"
    /\ hub' = [hub EXCEPT !["main"] = "v2"]
    /\ UNCHANGED <<disk, manifest, args, pc, fetched, next, exit, runs, cutShort>>

----------------------------------------------------------------------------
Args == [valid : BOOLEAN, revision : Revisions, onnxPath : OnnxPaths, force : BOOLEAN]

Init ==
    /\ hub = [r \in Revisions |-> "v1"]
    /\ disk = [n \in FileNames |-> "none"]
    /\ manifest = NoManifest
    /\ args = [valid |-> FALSE, revision |-> "main", onnxPath |-> "quantized.onnx", force |-> FALSE]
    /\ pc = "idle" /\ fetched = <<>> /\ next = 1 /\ exit = NoExit /\ runs = 0
    /\ cutShort = FALSE

Next ==
    \/ \E a \in Args : Start(a)
    \/ \E ok \in BOOLEAN : Fetch(ok) \/ Decide(ok) \/ WriteFile(ok) \/ WriteManifest(ok)
    \/ Kill
    \/ MoveBranch

Spec == Init /\ [][Next]_vars

----------------------------------------------------------------------------
Matches == \A f \in manifest.files : disk[f[1]] = f[2]

\* A manifest that can be read describes the files beside it, however downloads and writes
\* failed, until an existing bundle is overwritten and the overwriting does not end.
BundleMatchesManifest ==
    manifest \notin {NoManifest, Torn} /\ ~cutShort => Matches
=============================================================================
