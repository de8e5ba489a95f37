--------------------------- MODULE CommandsProofs ----------------------------
(***************************************************************************)
(* What Standalone promises of the four commands, for every bound of the   *)
(* runs and the edits: bootstrap (Bootstrap), xtask new-submodule          *)
(* (NewSubmodule), xtask vendor-upstream (VendorUpstream) and xtask        *)
(* hf-fetch-embed-model (HfFetch).  A command may fail or be killed        *)
(* between any two of its writes and be run again.  Each has its           *)
(* invariant; CommandsInv is their conjunction, by part.                   *)
(***************************************************************************)
EXTENDS Standalone, FiniteSetTheorems, SequenceTheorems, WellFoundedInduction, TLAPS

----------------------------------------------------------------------------
(* hf-fetch-embed-model *)

\* The files before the next one to write are on disk.
WrittenSoFar == \A i \in 1 .. 3 : i < next => disk[Model!Plan[i]] = fetched[i]

ModelTypes ==
    /\ args \in Model!Args
    /\ pc \in {"idle", "fetch", "decide", "write"}
    /\ fetched \in Seq({"v1", "v2"}) /\ hub \in [Model!Revisions -> {"v1", "v2"}]
    /\ disk \in [Model!FileNames -> {"none", "v1", "v2", Model!Cut}] /\ cutShort \in BOOLEAN

ModelInv ==
    /\ ModelTypes
    /\ pc = "fetch" => Len(fetched) < 3 /\ next = 1
    /\ pc = "decide" => Len(fetched) = 3 /\ next = 1
    /\ pc = "write" => Len(fetched) = 3 /\ next \in 1 .. 4 /\ WrittenSoFar
    /\ Model!BundleMatchesManifest

(* The files of a bundle are three, of different names. *)
LEMMA Plans ==
    ASSUME args \in Model!Args
    PROVE  /\ Len(Model!Plan) = 3 /\ DOMAIN Model!Plan = 1 .. 3
           /\ \A i \in 1 .. 3 : Model!Plan[i] \in Model!FileNames
           /\ \A i, j \in 1 .. 3 : i # j => Model!Plan[i] # Model!Plan[j]
<1>1. /\ Len(Model!Plan) = 3 /\ DOMAIN Model!Plan = 1 .. 3
      /\ Model!Plan[1] = Model!Basename(args.onnxPath)
      /\ Model!Plan[2] = "tokenizer.json" /\ Model!Plan[3] = "config.json"
  BY DEF Model!Plan, Model!TokenizerFiles
<1>2. Model!Basename(args.onnxPath) \in {"model.onnx", "quantized.onnx"}
  BY DEF Model!Basename, Model!OnnxPaths, Model!Args
<1> QED BY <1>1, <1>2 DEF Model!FileNames

LEMMA ModelInit == Model!Init => ModelInv
<1> SUFFICES ASSUME Model!Init PROVE ModelInv
  OBVIOUS
<1>1. args \in Model!Args
  BY DEF Model!Init, Model!Args, Model!Revisions, Model!OnnxPaths
<1>2. disk \in [Model!FileNames -> {"none", "v1", "v2", Model!Cut}]
  BY DEF Model!Init
<1>3. hub \in [Model!Revisions -> {"v1", "v2"}]
  BY DEF Model!Init
<1>4. pc = "idle" /\ fetched = <<>> /\ cutShort = FALSE /\ manifest = Model!NoManifest
  BY DEF Model!Init
<1>5. ModelTypes
  <2>1. fetched \in Seq({"v1", "v2"})
    BY <1>4
  <2>2. pc \in {"idle", "fetch", "decide", "write"} /\ cutShort \in BOOLEAN
    BY <1>4
  <2> QED BY <1>1, <1>2, <1>3, <2>1, <2>2, Zenon DEF ModelTypes
<1> QED BY <1>4, <1>5 DEF ModelInv, Model!BundleMatchesManifest

(* A file that is written keeps those before it, and cuts the bundle short of its manifest. *)
LEMMA WriteFilePreserves == ASSUME ModelInv, NEW ok \in BOOLEAN, Model!WriteFile(ok) PROVE ModelInv'
<1> DEFINE name == Model!Plan[next]
<1>1. /\ pc = "write" /\ next \in 1 .. 3 /\ args' = args /\ fetched' = fetched /\ manifest' = manifest
      /\ hub' = hub
  <2>1. args \in Model!Args
    BY DEF ModelInv, ModelTypes
  <2>2. Len(Model!Plan) = 3
    BY <2>1, Plans
  <2> QED BY <2>2 DEF Model!WriteFile, ModelInv
<1>2. PICK left \in IF ok THEN {fetched[next]} ELSE {disk[name], Model!Cut} :
         disk' = [disk EXCEPT ![name] = left]
  BY DEF Model!WriteFile
<1>3. /\ cutShort' = (cutShort \/ (manifest # Model!NoManifest /\ disk' # disk))
      /\ IF ok THEN next' = next + 1 /\ pc' = pc ELSE pc' = "idle" /\ next' = next
  BY DEF Model!WriteFile, Model!Exit
<1>4. args \in Model!Args /\ Len(fetched) = 3 /\ fetched \in Seq({"v1", "v2"}) /\ WrittenSoFar
      /\ disk \in [Model!FileNames -> {"none", "v1", "v2", Model!Cut}]
  BY <1>1 DEF ModelInv, ModelTypes
<1>5. name \in Model!FileNames /\ \A i \in 1 .. 3 : i # next => Model!Plan[i] # name
  BY <1>1, <1>4, Plans
<1>6. left \in {"none", "v1", "v2", Model!Cut}
  <2>1. fetched[next] \in {"v1", "v2"}
    BY <1>1, <1>4
  <2>2. disk[name] \in {"none", "v1", "v2", Model!Cut}
    BY <1>4, <1>5
  <2> HIDE DEF name
  <2> QED BY <1>2, <2>1, <2>2
<1>7. Model!Plan' = Model!Plan
  BY <1>1 DEF Model!Plan
<1>8. ModelTypes'
  BY <1>1, <1>2, <1>3, <1>6 DEF ModelInv, ModelTypes
<1>9. ok => WrittenSoFar'
  BY <1>1, <1>2, <1>3, <1>4, <1>5, <1>7, Plans DEF WrittenSoFar
<1>10. Model!BundleMatchesManifest'
  <2>1. manifest = Model!NoManifest \/ cutShort' \/ (disk' = disk /\ cutShort' = cutShort)
    BY <1>3 DEF ModelInv, ModelTypes
  <2> QED BY <1>1, <2>1 DEF ModelInv, Model!BundleMatchesManifest, Model!Matches
<1> QED BY <1>1, <1>3, <1>4, <1>8, <1>9, <1>10 DEF ModelInv

(* The manifest is written when all it names is on disk. *)
LEMMA WriteManifestPreserves ==
    ASSUME ModelInv, NEW ok \in BOOLEAN, Model!WriteManifest(ok) PROVE ModelInv'
<1>1. /\ pc = "write" /\ next > Len(Model!Plan) /\ pc' = "idle"
      /\ UNCHANGED <<hub, disk, args, fetched, next>>
      /\ IF ok THEN manifest' = Model!Wanted /\ cutShort' = FALSE
               ELSE manifest' \in {manifest, Model!Torn} /\ cutShort' = cutShort
  BY DEF Model!WriteManifest, Model!Encode, Model!Exit
<1>2. args \in Model!Args /\ next = 4 /\ WrittenSoFar
  <2>1. args \in Model!Args
    BY DEF ModelInv, ModelTypes
  <2>2. Len(Model!Plan) = 3
    BY <2>1, Plans
  <2> QED BY <1>1, <2>1, <2>2 DEF ModelInv
<1>3. \A i \in DOMAIN Model!Plan : disk[Model!Plan[i]] = fetched[i]
  BY <1>2, Plans DEF WrittenSoFar
<1>4. \A f \in Model!Digests : disk[f[1]] = f[2]
  BY <1>3 DEF Model!Digests
<1>5. Model!BundleMatchesManifest'
  BY <1>1, <1>4 DEF ModelInv, Model!BundleMatchesManifest, Model!Matches, Model!Wanted
<1> QED BY <1>1, <1>5 DEF ModelInv, ModelTypes

LEMMA ModelStep == ASSUME ModelInv, [Model!Next]_Model!vars PROVE ModelInv'
<1>1. ASSUME NEW a \in Model!Args, Model!Start(a) PROVE ModelInv'
  BY <1>1 DEF Model!Start, Model!Exit, ModelInv, ModelTypes, Model!BundleMatchesManifest, Model!Matches
<1>2. ASSUME NEW ok \in BOOLEAN, Model!Fetch(ok) PROVE ModelInv'
  <2>1. /\ pc = "fetch" /\ UNCHANGED <<hub, disk, manifest, args, next, cutShort>>
        /\ \/ /\ fetched' = Append(fetched, hub[args.revision])
              /\ pc' = IF Len(fetched') = 3 THEN "decide" ELSE "fetch"
           \/ fetched' = fetched /\ pc' = "idle"
    BY <1>2, Plans DEF Model!Fetch, Model!Exit, ModelInv, ModelTypes
  <2>2. hub[args.revision] \in {"v1", "v2"} /\ fetched \in Seq({"v1", "v2"}) /\ Len(fetched) < 3 /\ next = 1
    BY <2>1 DEF ModelInv, ModelTypes, Model!Args
  <2>3. fetched' \in Seq({"v1", "v2"}) /\ (pc' # "idle" => Len(fetched') = Len(fetched) + 1)
    BY <2>1, <2>2
  <2>4. Model!BundleMatchesManifest'
    BY <2>1 DEF ModelInv, Model!BundleMatchesManifest, Model!Matches
  <2>5. pc' \in {"idle", "fetch", "decide"} /\ (pc' = "fetch" => Len(fetched') < 3)
        /\ (pc' = "decide" => Len(fetched') = 3) /\ next' = 1
    <3>1. Len(fetched) \in Nat
      BY <2>2
    <3>2. Len(fetched) \in {0, 1, 2}
      <4>1. \A n \in Nat : n < 3 => n \in {0, 1, 2}
        OBVIOUS
      <4> QED BY <2>2, <3>1, <4>1, Zenon
    <3>3. CASE fetched' = fetched /\ pc' = "idle"
      BY <2>1, <2>2, <3>3
    <3>4. CASE pc' = IF Len(fetched') = 3 THEN "decide" ELSE "fetch"
      <4>1. Len(fetched') = Len(fetched) + 1
        BY <2>3, <3>4
      <4> QED BY <2>1, <2>2, <3>2, <3>4, <4>1
    <3> QED BY <2>1, <3>3, <3>4
  <2>6. ModelTypes'
    BY <2>1, <2>3, <2>5 DEF ModelInv, ModelTypes
  <2> QED BY <2>4, <2>5, <2>6 DEF ModelInv
<1>3. ASSUME NEW ok \in BOOLEAN, Model!Decide(ok) PROVE ModelInv'
  <2>1. /\ pc = "decide" /\ pc' \in {"idle", "write"}
        /\ UNCHANGED <<hub, disk, manifest, args, fetched, next, cutShort>>
    BY <1>3 DEF Model!Decide, Model!Exit
  <2> QED BY <2>1 DEF ModelInv, ModelTypes, WrittenSoFar, Model!BundleMatchesManifest, Model!Matches
<1>4. CASE Model!Kill \/ Model!MoveBranch
  <2>1. /\ UNCHANGED <<disk, manifest, args, fetched, next, cutShort>> /\ pc' \in {"idle", pc}
        /\ hub' \in {hub, [hub EXCEPT !["main"] = "v2"]}
    BY <1>4 DEF Model!Kill, Model!MoveBranch, Model!Exit
  <2>2. ModelTypes'
    BY <2>1 DEF ModelInv, ModelTypes
  <2>3. Model!Plan' = Model!Plan
    BY <2>1 DEF Model!Plan
  <2> QED BY <2>1, <2>2, <2>3 DEF ModelInv, WrittenSoFar, Model!BundleMatchesManifest, Model!Matches
<1>5. CASE UNCHANGED Model!vars
  <2>1. Model!Plan' = Model!Plan
    BY <1>5 DEF Model!Plan, Model!vars
  <2> QED BY <1>5, <2>1 DEF Model!vars, ModelInv, ModelTypes, WrittenSoFar, Model!BundleMatchesManifest, Model!Matches
<1> QED BY <1>1, <1>2, <1>3, <1>4, <1>5, WriteFilePreserves, WriteManifestPreserves DEF Model!Next

----------------------------------------------------------------------------
(* new-submodule: the lines of the manifest *)

LineKinds == {"header", "commented header", "member", "anchor", "patch", "blank", "other"}
LineNames == {"workspace", "old", "new", "in-tree", "patch", "dep", "", "profile", "lto"}
Lines == [is : LineKinds, name : LineNames]

Headers == {"header", "commented header"}
Targets == {"member", "anchor"}

\* The crate has at most one member line and one patch line, or none of either.
Once(s) ==
    \A i, j \in DOMAIN s : s[i] = s[j] /\ s[i] \in {Submodule!Member, Submodule!Patch} => i = j
Without(s, line) == \A i \in DOMAIN s : s[i] # line

\* The members and the anchor are in the section of the workspace, which is the first.
Shaped(s) ==
    s # <<>> =>
        /\ s[1] = Submodule!Line("header", "workspace")
        /\ \A i, j \in DOMAIN s : s[i].is \in Targets /\ s[j].is \in Headers /\ j # 1 => i < j

LEMMA KnownLines ==
    /\ {Submodule!Member, Submodule!Patch, Submodule!Anchor, Submodule!PatchHeader} \subseteq Lines
    /\ Submodule!Member.is = "member" /\ Submodule!Patch.is = "patch"
    /\ Submodule!Anchor.is = "anchor" /\ Submodule!PatchHeader.is = "header"
    /\ Submodule!Member # Submodule!Patch /\ Submodule!PatchHeader.name = "patch"
    /\ Submodule!Line("header", "workspace").is = "header"
    /\ Submodule!Line("header", "workspace").name = "workspace"
BY DEF Lines, LineKinds, LineNames, Submodule!Member, Submodule!Patch, Submodule!Anchor,
       Submodule!PatchHeader, Submodule!Line

(* A line more: those before it stay, those after it move by one. *)
LEMMA Inserted ==
    ASSUME NEW S, NEW s \in Seq(S), NEW i \in 1 .. Len(s) + 1, NEW e \in S
    PROVE  LET t == Submodule!InsertAt(s, i, e) IN
           /\ t \in Seq(S) /\ Len(t) = Len(s) + 1 /\ t # <<>>
           /\ t[i] = e
           /\ \A j \in 1 .. i - 1 : t[j] = s[j]
           /\ \A j \in i + 1 .. Len(s) + 1 : t[j] = s[j - 1]
<1> DEFINE a == SubSeq(s, 1, i - 1)
           b == SubSeq(s, i, Len(s))
           m == a \o <<e>>
           t == m \o b
<1>1. Len(s) \in Nat /\ i \in Nat /\ 1 <= i /\ i <= Len(s) + 1 /\ \A k \in 1 .. Len(s) : s[k] \in S
  OBVIOUS
<1>2. a \in Seq(S) /\ Len(a) = i - 1 /\ \A j \in 1 .. i - 1 : a[j] = s[j]
  <2>1. \A k \in 1 .. i - 1 : s[k] \in S
    BY <1>1
  <2> QED BY <1>1, <2>1, SubSeqProperties
<1>3. b \in Seq(S) /\ Len(b) = Len(s) - i + 1 /\ \A j \in 1 .. Len(s) - i + 1 : b[j] = s[i + j - 1]
  <2>1. \A k \in i .. Len(s) : s[k] \in S
    BY <1>1
  <2> QED BY <1>1, <2>1, SubSeqProperties
<1> HIDE DEF a, b
<1>4. <<e>> \in Seq(S) /\ Len(<<e>>) = 1 /\ <<e>>[1] = e
  OBVIOUS
<1>5. m \in Seq(S) /\ Len(m) = i /\ m[i] = e /\ \A j \in 1 .. i - 1 : m[j] = s[j]
  BY <1>1, <1>2, <1>4, ConcatProperties
<1> HIDE DEF m
<1>6. /\ t \in Seq(S) /\ Len(t) = Len(m) + Len(b)
      /\ \A j \in 1 .. Len(m) + Len(b) : t[j] = IF j <= Len(m) THEN m[j] ELSE b[j - Len(m)]
  BY <1>3, <1>5, ConcatProperties
<1> HIDE DEF t
<1>7. Len(t) = Len(s) + 1 /\ t # <<>>
  BY <1>1, <1>3, <1>5, <1>6
<1>8. t[i] = e /\ \A j \in 1 .. i - 1 : t[j] = s[j]
  BY <1>1, <1>3, <1>5, <1>6
<1>9. \A j \in i + 1 .. Len(s) + 1 : t[j] = s[j - 1]
  <2> SUFFICES ASSUME NEW j \in i + 1 .. Len(s) + 1 PROVE t[j] = s[j - 1]
    OBVIOUS
  <2>1. t[j] = b[j - i] /\ j - i \in 1 .. Len(s) - i + 1
    BY <1>1, <1>3, <1>5, <1>6
  <2> QED BY <1>1, <1>3, <2>1
<1>10. Submodule!InsertAt(s, i, e) = t
  BY DEF Submodule!InsertAt, t, m, a, b
<1> QED BY <1>6, <1>7, <1>8, <1>9, <1>10

(* The crate's line that was not there is there once, and no other line comes with it. *)
LEMMA InsertOnce ==
    ASSUME NEW s \in Seq(Lines), NEW i \in 1 .. Len(s) + 1,
           NEW e \in {Submodule!Member, Submodule!Patch}, Once(s), Without(s, e)
    PROVE  LET t == Submodule!InsertAt(s, i, e)
           IN  Once(t) /\ \A line : line # e /\ Without(s, line) => Without(t, line)
<1> DEFINE t == Submodule!InsertAt(s, i, e)
           Old(j) == IF j < i THEN j ELSE j - 1
<1>1. e \in Lines
  BY KnownLines
<1>2. /\ Len(t) = Len(s) + 1 /\ DOMAIN t = 1 .. Len(s) + 1 /\ t[i] = e
      /\ \A j \in 1 .. i - 1 : t[j] = s[j]
      /\ \A j \in i + 1 .. Len(s) + 1 : t[j] = s[j - 1]
  BY <1>1, Inserted
<1> HIDE DEF t
<1>3. \A j \in DOMAIN t : j # i => Old(j) \in DOMAIN s /\ t[j] = s[Old(j)]
  BY <1>2
<1>4. \A j, k \in DOMAIN t : j # i /\ k # i /\ Old(j) = Old(k) => j = k
  BY <1>2
<1>5. \A j \in DOMAIN t : t[j] = e => j = i
  BY <1>3 DEF Without
<1> HIDE DEF Old
<1>6. Once(t)
  BY <1>2, <1>3, <1>4, <1>5 DEF Once
<1>7. \A line : line # e /\ Without(s, line) => Without(t, line)
  BY <1>2, <1>3 DEF Without
<1> QED BY <1>6, <1>7 DEF t

(* The first section stays the workspace's. *)
LEMMA InsertShaped ==
    ASSUME NEW s \in Seq(Lines), s # <<>>, Shaped(s), NEW i \in 2 .. Len(s) + 1, NEW e \in Lines,
           e.is \notin Headers, e.is \in Targets => i <= Len(s) /\ s[i].is \in Targets
    PROVE  Shaped(Submodule!InsertAt(s, i, e))
<1> DEFINE t == Submodule!InsertAt(s, i, e)
           Old(j) == IF j < i THEN j ELSE j - 1
<1>1. /\ Len(t) = Len(s) + 1 /\ DOMAIN t = 1 .. Len(s) + 1 /\ t[i] = e
      /\ \A j \in 1 .. i - 1 : t[j] = s[j]
      /\ \A j \in i + 1 .. Len(s) + 1 : t[j] = s[j - 1]
  BY Inserted
<1> HIDE DEF t
<1>2. \A j \in DOMAIN t : j # i => Old(j) \in DOMAIN s /\ t[j] = s[Old(j)] /\ (Old(j) = 1 => j = 1)
  BY <1>1
<1>3. t[1] = s[1]
  BY <1>1
<1>4. ASSUME NEW j \in DOMAIN t, NEW k \in DOMAIN t, t[j].is \in Targets, t[k].is \in Headers, k # 1
      PROVE  j < k
  <2>1. k # i /\ s[Old(k)].is \in Headers /\ Old(k) # 1 /\ Old(k) \in DOMAIN s
    BY <1>1, <1>2, <1>4
  <2>2. CASE j = i
    <3>1. i \in DOMAIN s /\ s[i].is \in Targets
      BY <1>1, <1>4, <2>2
    <3>2. i < Old(k)
      BY <2>1, <3>1 DEF Shaped
    <3> QED BY <2>1, <2>2, <3>2
  <2>3. CASE j # i
    <3>1. Old(j) \in DOMAIN s /\ s[Old(j)].is \in Targets
      BY <1>2, <1>4, <2>3
    <3>2. Old(j) < Old(k)
      BY <2>1, <3>1 DEF Shaped
    <3> QED BY <1>1, <2>1, <2>3, <3>2
  <2> QED BY <2>2, <2>3
<1>5. Shaped(t)
  BY <1>3, <1>4 DEF Shaped
<1> QED BY <1>5 DEF t

\* Section of NewSubmodule, of any lines.
SectionOf(s, i) ==
    LET headers == {j \in 1 .. i : s[j].is \in {"header", "commented header"}}
    IN  s[CHOOSE j \in headers : \A k \in headers : k <= j].name

LEMMA LastHeader ==
    ASSUME NEW s \in Seq(Lines), NEW i \in DOMAIN s, NEW h \in 1 .. i, s[h].is \in Headers,
           \A k \in h + 1 .. i : s[k].is \notin Headers
    PROVE  SectionOf(s, i) = s[h].name
<1> DEFINE headers == {j \in 1 .. i : s[j].is \in {"header", "commented header"}}
<1>1. i \in Nat
  <2>1. i \in 1 .. Len(s) /\ Len(s) \in Nat
    OBVIOUS
  <2> QED BY <2>1
<1>2. h \in headers /\ h \in Nat /\ \A k \in headers : k \in Nat /\ k <= i /\ s[k].is \in Headers
  <2>1. \A k \in 1 .. i : k \in Nat /\ k <= i
    BY <1>1
  <2>2. h \in headers
    BY DEF Headers
  <2>3. \A k \in headers : k \in 1 .. i /\ s[k].is \in Headers
    BY DEF Headers
  <2> QED BY <2>1, <2>2, <2>3
<1> HIDE DEF headers
<1>3. \A j \in headers : j <= h /\ (h <= j => j = h)
  <2> TAKE j \in headers
  <2>1. j \in h + 1 .. i => s[j].is \notin Headers
    OBVIOUS
  <2> QED BY <1>1, <1>2, <2>1
<1> USE DEF headers
<1>4. (CHOOSE j \in headers : \A k \in headers : k <= j) = h
  BY <1>2, <1>3
<1> QED BY <1>4 DEF SectionOf

LEMMA MemberSection ==
    ASSUME NEW s \in Seq(Lines), Shaped(s), NEW i \in DOMAIN s, s[i] = Submodule!Member
    PROVE  SectionOf(s, i) = "workspace"
<1>1. s # <<>> /\ i \in 1 .. Len(s)
  OBVIOUS
<1>2. s[1].is \in Headers /\ s[1].name = "workspace"
  BY <1>1, KnownLines DEF Shaped, Headers
<1>3. s[i].is \in Targets
  BY KnownLines DEF Targets
<1>4. \A k \in 2 .. i : s[k].is \notin Headers
  <2> SUFFICES ASSUME NEW k \in 2 .. i, s[k].is \in Headers PROVE FALSE
    OBVIOUS
  <2>1. i < k
    BY <1>1, <1>3 DEF Shaped
  <2> QED BY <1>1, <2>1
<1> QED BY <1>1, <1>2, <1>4, LastHeader

(* A nonempty set of naturals has a least one; a set of them below a bound has a greatest. *)
LEMMA LeastLine == ASSUME NEW S \in SUBSET Nat, S # {} PROVE \E m \in S : \A k \in S : m <= k
<1>1. PICK m \in S : \A k \in S : ~(<<k, m>> \in OpToRel(<, Nat))
  BY NatLessThanWellFounded, WFMin
<1>2. \A k \in S : ~(k < m)
  BY <1>1 DEF OpToRel
<1> QED BY <1>2

LEMMA GreatestLine ==
    ASSUME NEW n \in Nat, NEW S \in SUBSET (1 .. n), S # {} PROVE \E m \in S : \A k \in S : k <= m
<1> DEFINE T == {n - k : k \in S}
<1>1. T \in SUBSET Nat /\ T # {}
  <2>1. \A k \in 1 .. n : n - k \in Nat
    OBVIOUS
  <2> QED BY <2>1
<1>2. PICK d \in T : \A t \in T : d <= t
  BY <1>1, LeastLine
<1>3. PICK m \in S : d = n - m
  BY <1>2
<1>4. \A k \in S : n - m <= n - k
  BY <1>2, <1>3
<1>5. \A k \in S : k <= m
  BY <1>4
<1> QED BY <1>5

(* insert_member_into_toml puts the member before a line of the first section. *)
LEMMA MemberPlace ==
    ASSUME toml \in Seq(Lines), Submodule!InsertMember # <<>>
    PROVE  \E at \in 1 .. Len(toml) :
               /\ Submodule!InsertMember = Submodule!InsertAt(toml, at, Submodule!Member)
               /\ toml[at].is \in Targets
<1> DEFINE I == {i \in 1 .. Len(toml) : Submodule!IsTarget(toml[i])}
           at == Submodule!SelectInSeq(toml, Submodule!IsTarget)
<1>1. at = IF I # {} THEN Submodule!Min(I) ELSE 0
  BY DEF Submodule!SelectInSeq
<1>2. I # {} => Submodule!Min(I) \in I
  <2>1. I \in SUBSET Nat
    OBVIOUS
  <2> QED BY <2>1, LeastLine DEF Submodule!Min
<1>3. at # 0
  BY DEF Submodule!InsertMember
<1>4. at \in I
  BY <1>1, <1>2, <1>3
<1>5. at \in 1 .. Len(toml) /\ Submodule!IsTarget(toml[at])
  BY <1>4
<1>6. toml[at].is \in Targets
  BY <1>5 DEF Submodule!IsTarget, Submodule!Anchor, Submodule!Line, Targets
<1>7. Submodule!InsertMember = Submodule!InsertAt(toml, at, Submodule!Member)
  BY <1>3 DEF Submodule!InsertMember
<1> QED BY <1>5, <1>6, <1>7

(* insert_patch_into_toml puts the patch into the section, after a line of it. *)
LEMMA PatchPlace ==
    ASSUME toml \in Seq(Lines), Submodule!InsertPatch # <<>>
    PROVE  \E start \in 1 .. Len(toml), last \in 1 .. Len(toml) :
               /\ start <= last /\ toml[start] = Submodule!PatchHeader
               /\ \A j \in start + 1 .. last : toml[j].is # "header"
               /\ Submodule!InsertPatch = Submodule!InsertAt(toml, last + 1, Submodule!Patch)
<1> DEFINE I == {i \in 1 .. Len(toml) : toml[i] = Submodule!PatchHeader}
           start == Submodule!SelectInSeq(toml, LAMBDA line : line = Submodule!PatchHeader)
           inSection == {i \in start .. Len(toml) : \A j \in start + 1 .. i : toml[j].is # "header"}
           Good(i) == toml[i].is # "blank" /\ \A j \in inSection : j > i => toml[j].is = "blank"
           last == CHOOSE i \in inSection : Good(i)
<1>1. start = IF I # {} THEN Submodule!Min(I) ELSE 0
  BY DEF Submodule!SelectInSeq
<1>2. I # {} => Submodule!Min(I) \in I
  <2>1. I \in SUBSET Nat
    OBVIOUS
  <2> QED BY <2>1, LeastLine DEF Submodule!Min
<1>3. Submodule!InsertPatch = IF start = 0 THEN <<>> ELSE Submodule!InsertAt(toml, last + 1, Submodule!Patch)
  BY DEF Submodule!InsertPatch
<1> HIDE DEF start
<1>4. start \in I /\ start # 0
  BY <1>1, <1>2, <1>3
<1>5. start \in 1 .. Len(toml) /\ toml[start] = Submodule!PatchHeader /\ Len(toml) \in Nat
  BY <1>4
<1>6. \E i \in inSection : Good(i)
  <2> DEFINE S == {i \in inSection : toml[i].is # "blank"}
  <2>1. start \in S
    BY <1>5, KnownLines
  <2>2. S \in SUBSET (1 .. Len(toml))
    BY <1>5
  <2>3. PICK m \in S : \A k \in S : k <= m
    BY <1>5, <2>1, <2>2, GreatestLine
  <2>4. \A j \in inSection : j > m => toml[j].is = "blank"
    <3> SUFFICES ASSUME NEW j \in inSection, j > m, toml[j].is # "blank" PROVE FALSE
      OBVIOUS
    <3>1. j \in S
      OBVIOUS
    <3>2. j <= m /\ m \in Nat /\ j \in Nat
      BY <1>5, <2>2, <2>3, <3>1
    <3> QED BY <3>2
  <2> QED BY <2>3, <2>4
<1> HIDE DEF Good
<1>7. last \in inSection
  BY <1>6
<1> HIDE DEF last
<1>8. last \in start .. Len(toml) /\ \A j \in start + 1 .. last : toml[j].is # "header"
  BY <1>7
<1> QED BY <1>3, <1>4, <1>5, <1>8

(* The manifests the operators keep: the crate is in none. *)
LEMMA ManifestLines ==
    ASSUME NEW m \in Submodule!Manifests
    PROVE  m \in Seq(Lines) /\ Once(m) /\ Shaped(m)
<1> DEFINE header == Submodule!Line("header", "workspace")
           old == Submodule!Line("member", "old")
           dep == Submodule!Line("patch", "dep")
           blank == Submodule!Line("blank", "")
           profile == Submodule!Line("header", "profile")
           commented == Submodule!Line("commented header", "profile")
           lto == Submodule!Line("other", "lto")
           a == Submodule!Anchor
           p == Submodule!PatchHeader
           all == {header, old, a, p, dep, blank, profile, commented, lto}
<1>1. /\ all \subseteq Lines
      /\ header.is \notin Targets /\ old.is \notin Headers /\ a.is \notin Headers /\ p.is \notin Targets
      /\ dep.is \notin Targets \cup Headers /\ blank.is \notin Targets \cup Headers
      /\ profile.is \notin Targets /\ commented.is \notin Targets /\ lto.is \notin Targets \cup Headers
  BY DEF Submodule!Line, Submodule!Anchor, Submodule!PatchHeader, Lines, LineKinds, LineNames, Targets, Headers
<1>2. /\ header.name # "new" /\ old.name # "new" /\ a.name # "new" /\ p.name # "new" /\ dep.name # "new"
      /\ blank.name # "new" /\ profile.name # "new" /\ commented.name # "new" /\ lto.name # "new"
      /\ Submodule!Member.name = "new" /\ Submodule!Patch.name = "new"
  BY DEF Submodule!Line, Submodule!Anchor, Submodule!PatchHeader, Submodule!Member, Submodule!Patch
<1>3. /\ Submodule!Members = <<header, old>> /\ Submodule!Patches = <<p, dep, blank>>
  BY DEF Submodule!Members, Submodule!Patches
<1>4. \/ m = <<header, old>> \o <<a>> \o <<p, dep, blank>> \o <<profile, lto>>
      \/ m = <<header, old>> \o <<a>> \o <<p, dep, blank>>
      \/ m = <<header, old>> \o <<p, dep, blank>>
      \/ m = <<header, old>> \o <<a, profile>>
      \/ m = <<header, old>> \o <<a>> \o <<p, dep, blank>> \o <<commented, lto>>
  BY <1>3 DEF Submodule!Manifests
<1> HIDE DEF header, old, dep, blank, profile, commented, lto, a, p
<1>5. m \in Seq(Lines)
  <2>1. /\ header \in Lines /\ old \in Lines /\ a \in Lines /\ p \in Lines /\ dep \in Lines
        /\ blank \in Lines /\ profile \in Lines /\ commented \in Lines /\ lto \in Lines
    BY <1>1
  <2>2. /\ <<header, old>> \in Seq(Lines) /\ <<a>> \in Seq(Lines) /\ <<p, dep, blank>> \in Seq(Lines)
        /\ <<profile, lto>> \in Seq(Lines) /\ <<a, profile>> \in Seq(Lines)
        /\ <<commented, lto>> \in Seq(Lines)
    BY <2>1
  <2>3. \A s, t \in Seq(Lines) : s \o t \in Seq(Lines)
    OBVIOUS
  <2>4. CASE m = <<header, old>> \o <<a>> \o <<p, dep, blank>> \o <<profile, lto>>
    BY <2>2, <2>3, <2>4, Zenon
  <2>5. CASE m = <<header, old>> \o <<a>> \o <<p, dep, blank>>
    BY <2>2, <2>3, <2>5, Zenon
  <2>6. CASE m = <<header, old>> \o <<p, dep, blank>>
    BY <2>2, <2>3, <2>6, Zenon
  <2>7. CASE m = <<header, old>> \o <<a, profile>>
    BY <2>2, <2>3, <2>7, Zenon
  <2>8. CASE m = <<header, old>> \o <<a>> \o <<p, dep, blank>> \o <<commented, lto>>
    BY <2>2, <2>3, <2>8, Zenon
  <2> QED BY <1>4, <2>4, <2>5, <2>6, <2>7, <2>8, Zenon
<1>6. \/ /\ Len(m) = 8 /\ m[1] = header /\ m[2] = old /\ m[3] = a /\ m[4] = p
         /\ m[5] = dep /\ m[6] = blank /\ m[7] = profile /\ m[8] = lto
      \/ /\ Len(m) = 6 /\ m[1] = header /\ m[2] = old /\ m[3] = a /\ m[4] = p
         /\ m[5] = dep /\ m[6] = blank
      \/ /\ Len(m) = 5 /\ m[1] = header /\ m[2] = old /\ m[3] = p /\ m[4] = dep
         /\ m[5] = blank
      \/ /\ Len(m) = 4 /\ m[1] = header /\ m[2] = old /\ m[3] = a /\ m[4] = profile
      \/ /\ Len(m) = 8 /\ m[1] = header /\ m[2] = old /\ m[3] = a /\ m[4] = p
         /\ m[5] = dep /\ m[6] = blank /\ m[7] = commented /\ m[8] = lto
  BY <1>4
<1>7. \A i \in DOMAIN m : m[i].name # "new"
  BY <1>2, <1>5, <1>6
<1>8. Once(m)
  BY <1>2, <1>7 DEF Once
<1>9. Shaped(m)
  <2>1. DOMAIN m = 1 .. Len(m) /\ m[1] = Submodule!Line("header", "workspace")
    BY <1>5, <1>6 DEF header
  <2>2. ASSUME NEW i \in DOMAIN m, NEW j \in DOMAIN m, m[i].is \in Targets, m[j].is \in Headers, j # 1
        PROVE  i < j
    <3>1. i \in {2, 3} /\ (i = 3 => m[3] = a)
      BY <1>1, <1>6, <2>1, <2>2
    <3>2. j > 2 /\ (m[3] = a => j > 3)
      BY <1>1, <1>6, <2>1, <2>2
    <3> QED BY <3>1, <3>2
  <2> QED BY <2>1, <2>2 DEF Shaped
<1> QED BY <1>5, <1>8, <1>9

----------------------------------------------------------------------------
(* new-submodule: the runs *)

Steps == {"idle", "preflight", "add", "configure", "files", "member", "patch"}
Remote == remote \X {"remote"}
Scaffolded(n) == \A i \in 1 .. 7 : i < n => <<Submodule!Scaffold[i], "placeholder">> \in tree

SubmoduleTypes == args \in Submodule!Args /\ pc \in Steps

\* Neither the manifest nor what the operator puts back has a line of the crate twice.
Manifest(s) == s \in Seq(Lines) /\ Once(s) /\ Shaped(s)

\* How far the edits of a run are.
Editing ==
    /\ pc \in {"preflight", "add", "configure", "files", "member"} => toml = was
    /\ pc \in {"add", "configure", "files", "member"} /\ ~args.skip =>
           Without(toml, Submodule!Member) /\ Without(toml, Submodule!Patch)
    /\ pc \in {"member", "patch"} => ~args.skip
    /\ pc = "patch" =>
           /\ toml # <<>> /\ Without(toml, Submodule!Patch)
           /\ \E at \in 1 .. Len(was) + 1 :
                  /\ toml = Submodule!InsertAt(was, at, Submodule!Member)
                  /\ toml[at] = Submodule!Member /\ at \in DOMAIN toml

\* How far the submodule is.
Making ==
    /\ pc # "idle" => exit = Submodule!NoExit
    /\ pc \notin {"idle", "preflight"} => ~args.dryRun
    /\ pc = "configure" => registered /\ tree = Remote /\ keys = step - 1 /\ step \in 1 .. 4
    /\ pc \in {"files", "member", "patch"} => registered /\ keys = 4
    /\ pc = "files" => IF args.adopt THEN tree = Remote ELSE step \in 1 .. 7 /\ Scaffolded(step)
    /\ pc \in {"member", "patch"} =>
           IF args.adopt THEN <<"Cargo.toml", "remote">> \in tree /\ tree = Remote ELSE Scaffolded(8)

SubmoduleInv ==
    /\ SubmoduleTypes /\ Manifest(toml) /\ Manifest(was) /\ Editing /\ Making
    /\ Submodule!SuccessIsComplete

LEMMA Sizes ==
    /\ Len(Submodule!ConfigKeys) = 4 /\ Len(Submodule!Scaffold) = 7 /\ DOMAIN Submodule!Scaffold = 1 .. 7
    /\ Submodule!NoExit # 0
    /\ \A i, j \in 1 .. 7 : Submodule!Scaffold[i] = Submodule!Scaffold[j] => i = j
BY DEF Submodule!ConfigKeys, Submodule!Scaffold, Submodule!NoExit

LEMMA NoManifestLeft == Manifest(<<>>)
BY DEF Manifest, Once, Shaped

LEMMA SubmoduleInit == Submodule!Init => SubmoduleInv
<1> SUFFICES ASSUME Submodule!Init PROVE SubmoduleInv
  OBVIOUS
<1>1. args \in Submodule!Args
  BY DEF Submodule!Init, Submodule!Args
<1>2. toml \in Submodule!Manifests /\ was = toml /\ pc = "idle" /\ exit = Submodule!NoExit
  BY DEF Submodule!Init
<1>3. Manifest(toml)
  BY <1>2, ManifestLines DEF Manifest
<1> QED BY <1>1, <1>2, <1>3, Sizes DEF SubmoduleInv, SubmoduleTypes, Steps, Editing, Making,
                                       Submodule!SuccessIsComplete

(* Where nothing succeeds there is nothing to be complete. *)
LEMMA NoSuccess == exit' # 0 \/ args'.dryRun => Submodule!SuccessIsComplete'
BY DEF Submodule!SuccessIsComplete

(* The steps up to the edits. *)
LEMMA StartPreserves == ASSUME SubmoduleInv, NEW a \in Submodule!Args, Submodule!Start(a) PROVE SubmoduleInv'
<1>1. /\ args' = a /\ was' = toml /\ toml' = toml /\ pc' = "preflight" /\ exit' = Submodule!NoExit
  BY DEF Submodule!Start
<1> QED BY <1>1, Sizes, NoSuccess DEF SubmoduleInv, SubmoduleTypes, Steps, Editing, Making

LEMMA PreflightPreserves ==
    ASSUME SubmoduleInv, NEW reachable \in BOOLEAN, Submodule!Preflight(reachable) PROVE SubmoduleInv'
<1>1. /\ pc = "preflight" /\ UNCHANGED <<toml, was, registered, tree, keys, remote, args>>
      /\ \/ pc' = "idle" /\ exit' = 0 /\ args.dryRun
         \/ pc' = "idle" /\ exit' = 1
         \/ pc' = "add" /\ exit' = exit /\ ~args.dryRun /\ (args.skip \/ Submodule!RequireMembers)
  BY DEF Submodule!Preflight, Submodule!Exit, Submodule!To
<1>2. toml = was /\ exit = Submodule!NoExit
  BY <1>1 DEF SubmoduleInv, Editing, Making
<1>3. Submodule!RequireMembers => Without(toml, Submodule!Member) /\ Without(toml, Submodule!Patch)
  BY DEF Submodule!RequireMembers, Submodule!Mentions, Without, Submodule!Member, Submodule!Patch,
         Submodule!Line
<1>4. Submodule!SuccessIsComplete'
  BY <1>1, <1>2, Sizes, NoSuccess
<1> QED BY <1>1, <1>2, <1>3, <1>4 DEF SubmoduleInv, SubmoduleTypes, Steps, Editing, Making

LEMMA AddPreserves ==
    ASSUME SubmoduleInv, NEW ok \in BOOLEAN, NEW entry \in BOOLEAN, NEW clone \in BOOLEAN,
           Submodule!Add(ok, entry, clone)
    PROVE  SubmoduleInv'
<1>1. /\ pc = "add" /\ UNCHANGED <<toml, was, remote, args>>
      /\ \/ pc' = "idle" /\ exit' = 2
         \/ /\ pc' = "configure" /\ exit' = exit
            /\ step' = 1 /\ keys' = 0 /\ registered' /\ tree' = Remote
  BY DEF Submodule!Add, Submodule!Exit, Submodule!To, Remote
<1>2. toml = was /\ exit = Submodule!NoExit /\ ~args.dryRun
  BY <1>1 DEF SubmoduleInv, Editing, Making
<1>3. Submodule!SuccessIsComplete'
  BY <1>1, <1>2, Sizes, NoSuccess
<1> QED BY <1>1, <1>2, <1>3 DEF SubmoduleInv, SubmoduleTypes, Steps, Editing, Making, Remote

LEMMA ConfigurePreserves ==
    ASSUME SubmoduleInv, NEW hooks \in BOOLEAN, NEW ok \in BOOLEAN, Submodule!Configure(hooks, ok)
    PROVE  SubmoduleInv'
<1>1. /\ pc = "configure" /\ UNCHANGED <<toml, was, registered, tree, remote, args>>
      /\ \/ pc' = "idle" /\ exit' \in {2, 3}
         \/ /\ exit' = exit /\ keys' = step
            /\ \/ step = 4 /\ pc' = "files" /\ step' = 1
               \/ step # 4 /\ pc' = "configure" /\ step' = step + 1
  BY Sizes DEF Submodule!Configure, Submodule!Exit, Submodule!To
<1>2. /\ toml = was /\ exit = Submodule!NoExit /\ ~args.dryRun
      /\ registered /\ tree = Remote /\ keys = step - 1 /\ step \in 1 .. 4
  BY <1>1 DEF SubmoduleInv, Editing, Making
<1>3. Submodule!SuccessIsComplete'
  BY <1>1, <1>2, Sizes, NoSuccess
<1>4. Making'
  BY <1>1, <1>2 DEF Making, Remote, Scaffolded
<1>5. SubmoduleTypes' /\ Editing'
  BY <1>1, <1>2 DEF SubmoduleInv, SubmoduleTypes, Steps, Editing
<1> QED BY <1>1, <1>3, <1>4, <1>5 DEF SubmoduleInv

(* After the files the run is complete, or goes on to the manifest. *)
LEMMA FilesDone ==
    ASSUME SubmoduleInv, pc = "files", Submodule!AfterFiles,
           UNCHANGED <<toml, was, registered, keys, remote, args>>,
           IF args.adopt THEN <<"Cargo.toml", "remote">> \in tree' /\ tree' = Remote ELSE Scaffolded(8)'
    PROVE  SubmoduleInv'
<1>1. /\ toml = was /\ exit = Submodule!NoExit /\ ~args.dryRun /\ registered /\ keys = 4
  BY DEF SubmoduleInv, Editing, Making
<1>2. \/ args.skip /\ pc' = "idle" /\ exit' = 0
      \/ ~args.skip /\ pc' = "member" /\ exit' = exit
  BY DEF Submodule!AfterFiles, Submodule!Exit, Submodule!To
<1>3. Remote' = Remote
  BY DEF Remote
<1>4. Submodule!SuccessIsComplete'
  <2>1. CASE exit' = 0
    <3>1. args.skip
      BY <1>1, <1>2, <2>1, Sizes
    <3>2. ~args.adopt => \A i \in DOMAIN Submodule!Scaffold : <<Submodule!Scaffold[i], "placeholder">> \in tree'
      BY Sizes DEF Scaffolded
    <3> QED BY <1>1, <1>3, <3>1, <3>2, Sizes DEF Submodule!SuccessIsComplete, Remote
  <2> QED BY <2>1, NoSuccess
<1>5. Making'
  BY <1>1, <1>2, <1>3 DEF Making
<1> QED BY <1>1, <1>2, <1>4, <1>5 DEF SubmoduleInv, SubmoduleTypes, Steps, Editing

LEMMA AdoptPreserves == ASSUME SubmoduleInv, Submodule!Adopt PROVE SubmoduleInv'
<1>1. /\ pc = "files" /\ args.adopt /\ UNCHANGED <<toml, was, registered, tree, keys, remote, args>>
      /\ \/ <<"Cargo.toml", "remote">> \in tree /\ Submodule!AfterFiles
         \/ pc' = "idle" /\ exit' = 1
  BY DEF Submodule!Adopt, Submodule!Exit
<1>2. tree = Remote
  BY <1>1 DEF SubmoduleInv, Making
<1>3. CASE Submodule!AfterFiles /\ <<"Cargo.toml", "remote">> \in tree
  BY <1>1, <1>2, <1>3, FilesDone
<1>4. CASE pc' = "idle" /\ exit' = 1
  BY <1>1, <1>4, NoSuccess DEF SubmoduleInv, SubmoduleTypes, Steps, Editing, Making
<1> QED BY <1>1, <1>3, <1>4

LEMMA WriteScaffoldPreserves ==
    ASSUME SubmoduleInv, NEW ok \in BOOLEAN, Submodule!WriteFile(ok) PROVE SubmoduleInv'
<1>1. /\ pc = "files" /\ ~args.adopt /\ UNCHANGED <<toml, was, registered, keys, remote, args>>
      /\ \/ /\ tree' = Submodule!Replace(Submodule!Scaffold[step], "placeholder")
            /\ \/ step = 7 /\ Submodule!AfterFiles
               \/ step # 7 /\ step' = step + 1 /\ pc' = pc /\ exit' = exit
         \/ pc' = "idle" /\ exit' = 3
  BY Sizes DEF Submodule!WriteFile, Submodule!Exit
<1>2. step \in 1 .. 7 /\ Scaffolded(step) /\ toml = was
  BY <1>1 DEF SubmoduleInv, Making, Editing
<1>3. ASSUME tree' = Submodule!Replace(Submodule!Scaffold[step], "placeholder")
      PROVE  \A i \in 1 .. 7 : i < step + 1 => <<Submodule!Scaffold[i], "placeholder">> \in tree'
  <2> SUFFICES ASSUME NEW i \in 1 .. 7, i < step + 1
               PROVE  <<Submodule!Scaffold[i], "placeholder">> \in tree'
    OBVIOUS
  <2>1. CASE i = step
    BY <1>3, <2>1 DEF Submodule!Replace
  <2>2. CASE i < step
    BY <1>2, <1>3, <2>2, Sizes DEF Submodule!Replace, Scaffolded
  <2> QED BY <1>2, <2>1, <2>2
<1>4. CASE step = 7 /\ Submodule!AfterFiles /\ tree' = Submodule!Replace(Submodule!Scaffold[step], "placeholder")
  <2>1. Scaffolded(8)'
    BY <1>3, <1>4 DEF Scaffolded
  <2> QED BY <1>1, <1>4, <2>1, FilesDone
<1>5. CASE /\ step # 7 /\ step' = step + 1 /\ pc' = pc /\ exit' = exit
           /\ tree' = Submodule!Replace(Submodule!Scaffold[step], "placeholder")
  <2>1. Scaffolded(step)' /\ step' \in 1 .. 7
    BY <1>2, <1>3, <1>5 DEF Scaffolded
  <2>2. exit' # 0
    BY <1>1, <1>5, Sizes DEF SubmoduleInv, Making
  <2> QED BY <1>1, <1>2, <1>5, <2>1, <2>2, NoSuccess DEF SubmoduleInv, SubmoduleTypes, Editing, Making
<1>6. CASE pc' = "idle" /\ exit' = 3
  BY <1>1, <1>6, NoSuccess DEF SubmoduleInv, SubmoduleTypes, Steps, Editing, Making
<1> QED BY <1>1, <1>4, <1>5, <1>6

(* The member is inserted where the first section goes on. *)
LEMMA MemberPreserves ==
    ASSUME SubmoduleInv, NEW ok \in BOOLEAN, Submodule!InsertWorkspaceMember(ok) PROVE SubmoduleInv'
<1>1. /\ pc = "member" /\ UNCHANGED <<was, registered, tree, keys, remote, args>>
      /\ \/ pc' = "idle" /\ exit' = 3 /\ toml' \in {toml, <<>>}
         \/ /\ pc' = "patch" /\ exit' = exit
            /\ Submodule!InsertMember # <<>> /\ toml' = Submodule!InsertMember
  BY DEF Submodule!InsertWorkspaceMember, Submodule!Edit, Submodule!Exit, Submodule!To
<1>2. /\ toml = was /\ exit = Submodule!NoExit /\ Manifest(toml) /\ ~args.skip
      /\ Without(toml, Submodule!Member) /\ Without(toml, Submodule!Patch)
  BY <1>1 DEF SubmoduleInv, Editing, Making
<1>3. CASE pc' = "idle" /\ exit' = 3 /\ toml' \in {toml, <<>>}
  <2>1. Manifest(toml)' /\ Manifest(was)'
    BY <1>1, <1>2, <1>3, NoManifestLeft
  <2> QED BY <1>1, <1>3, <2>1, NoSuccess DEF SubmoduleInv, SubmoduleTypes, Steps, Editing, Making
<1>4. CASE pc' = "patch" /\ exit' = exit /\ Submodule!InsertMember # <<>> /\ toml' = Submodule!InsertMember
  <2>1. toml \in Seq(Lines) /\ Once(toml) /\ Shaped(toml)
    BY <1>2 DEF Manifest
  <2>2. PICK at \in 1 .. Len(toml) :
           /\ Submodule!InsertMember = Submodule!InsertAt(toml, at, Submodule!Member)
           /\ toml[at].is \in Targets
    BY <1>4, <2>1, MemberPlace
  <2>3. /\ Submodule!Member \in Lines /\ Submodule!Member.is \notin Headers
        /\ Submodule!Member # Submodule!Patch
    BY KnownLines DEF Headers
  <2>4. toml # <<>> /\ at # 1 /\ Len(toml) \in Nat /\ at \in 1 .. Len(toml) + 1
    <3>1. toml # <<>> /\ Len(toml) \in Nat /\ at \in 1 .. Len(toml) + 1
      BY <2>1
    <3>2. toml[1].is = "header"
      BY <2>1, <3>1, KnownLines DEF Shaped
    <3> QED BY <2>2, <3>1, <3>2 DEF Targets
  <2>5. /\ toml' \in Seq(Lines) /\ Len(toml') = Len(toml) + 1 /\ toml' # <<>> /\ toml'[at] = Submodule!Member
    BY <1>4, <2>1, <2>2, <2>3, <2>4, Inserted
  <2>6. Once(toml') /\ Without(toml', Submodule!Patch)
    BY <1>2, <1>4, <2>1, <2>2, <2>3, <2>4, InsertOnce
  <2>7. Shaped(toml')
    BY <1>4, <2>1, <2>2, <2>3, <2>4, InsertShaped
  <2>8. Manifest(toml)' /\ Manifest(was)'
    BY <1>1, <1>2, <2>5, <2>6, <2>7 DEF Manifest
  <2>9. at \in 1 .. Len(was') + 1 /\ at \in DOMAIN toml'
        /\ toml' = Submodule!InsertAt(was', at, Submodule!Member)
    BY <1>1, <1>2, <1>4, <2>2, <2>4, <2>5
  <2>10. Editing'
    BY <1>1, <1>2, <1>4, <2>5, <2>6, <2>9 DEF Editing
  <2>11. Making'
    BY <1>1, <1>4 DEF SubmoduleInv, Making, Remote, Scaffolded
  <2> QED BY <1>1, <1>2, <1>4, <2>8, <2>10, <2>11, NoSuccess, Sizes
          DEF SubmoduleInv, SubmoduleTypes, Steps
<1> QED BY <1>1, <1>3, <1>4

(* A line that is there, and once, is counted once; and no line of the crate is counted twice. *)
LEMMA Counted ==
    ASSUME NEW s, Once(s), NEW line \in {Submodule!Member, Submodule!Patch}
    PROVE  LET n == Submodule!Cardinality({i \in DOMAIN s : s[i] = line})
           IN  n <= 1 /\ ((\E i \in DOMAIN s : s[i] = line) => n = 1)
<1> DEFINE C == {i \in DOMAIN s : s[i] = line}
<1>1. \A i, j \in C : i = j
  BY DEF Once
<1>2. C = {} \/ \E i \in C : C = {i}
  BY <1>1
<1>3. Submodule!Cardinality(C) = Cardinality(C)
  BY DEF Submodule!Cardinality, Cardinality
<1>4. C = {} => Cardinality(C) = 0
  BY FS_EmptySet
<1>5. (\E i \in C : C = {i}) => Cardinality(C) = 1
  BY FS_Singleton
<1> QED BY <1>2, <1>3, <1>4, <1>5

(* The patch is inserted into its section, and with it the crate is there. *)
LEMMA PatchPreserves ==
    ASSUME SubmoduleInv, NEW ok \in BOOLEAN, Submodule!InsertPatchEntry(ok) PROVE SubmoduleInv'
<1>1. /\ pc = "patch" /\ pc' = "idle" /\ UNCHANGED <<was, registered, tree, keys, remote, args>>
      /\ \/ exit' = 3 /\ toml' \in {toml, <<>>}
         \/ /\ exit' = 0
            /\ Submodule!InsertPatch # <<>> /\ toml' = Submodule!InsertPatch
  BY DEF Submodule!InsertPatchEntry, Submodule!Edit, Submodule!Exit, Submodule!To
<1>2. /\ Manifest(toml) /\ Manifest(was) /\ toml # <<>> /\ Without(toml, Submodule!Patch)
      /\ registered /\ keys = 4 /\ ~args.skip
      /\ IF args.adopt THEN <<"Cargo.toml", "remote">> \in tree /\ tree = Remote ELSE Scaffolded(8)
  BY <1>1 DEF SubmoduleInv, Editing, Making
<1>3. CASE exit' = 3 /\ toml' \in {toml, <<>>}
  <2>1. Manifest(toml)' /\ Manifest(was)'
    BY <1>1, <1>2, <1>3, NoManifestLeft
  <2> QED BY <1>1, <1>3, <2>1, NoSuccess DEF SubmoduleInv, SubmoduleTypes, Steps, Editing, Making
<1>4. CASE exit' = 0 /\ Submodule!InsertPatch # <<>> /\ toml' = Submodule!InsertPatch
  <2>1. toml \in Seq(Lines) /\ Once(toml) /\ Shaped(toml) /\ Len(toml) \in Nat
    BY <1>2 DEF Manifest
  <2>2. PICK start \in 1 .. Len(toml), last \in 1 .. Len(toml) :
           /\ start <= last /\ toml[start] = Submodule!PatchHeader
           /\ \A j \in start + 1 .. last : toml[j].is # "header"
           /\ Submodule!InsertPatch = Submodule!InsertAt(toml, last + 1, Submodule!Patch)
    BY <1>4, <2>1, PatchPlace
  <2> DEFINE p == last + 1
  <2>3. p \in 1 .. Len(toml) + 1 /\ p \in 2 .. Len(toml) + 1 /\ toml' = Submodule!InsertAt(toml, p, Submodule!Patch)
    BY <1>4, <2>1, <2>2
  <2>4. /\ Submodule!Patch \in Lines /\ Submodule!Patch.is \notin Headers \cup Targets
        /\ Submodule!Member # Submodule!Patch /\ Submodule!PatchHeader.is = "header"
        /\ Submodule!PatchHeader.name = "patch"
    BY KnownLines DEF Headers, Targets
  <2>5. /\ toml' \in Seq(Lines) /\ Len(toml') = Len(toml) + 1 /\ toml' # <<>> /\ toml'[p] = Submodule!Patch
        /\ \A j \in 1 .. p - 1 : toml'[j] = toml[j]
        /\ \A j \in p + 1 .. Len(toml) + 1 : toml'[j] = toml[j - 1]
    <3>1. LET t == Submodule!InsertAt(toml, p, Submodule!Patch) IN
          /\ t \in Seq(Lines) /\ Len(t) = Len(toml) + 1 /\ t # <<>> /\ t[p] = Submodule!Patch
          /\ \A j \in 1 .. p - 1 : t[j] = toml[j]
          /\ \A j \in p + 1 .. Len(toml) + 1 : t[j] = toml[j - 1]
      <4> HIDE DEF p
      <4>1. toml \in Seq(Lines) /\ p \in 1 .. Len(toml) + 1 /\ Submodule!Patch \in Lines
        BY <2>1, <2>3, <2>4
      <4> DEFINE t == Submodule!InsertAt(toml, p, Submodule!Patch)
      <4>2. t \in Seq(Lines) /\ Len(t) = Len(toml) + 1 /\ t # <<>> /\ t[p] = Submodule!Patch
        BY <4>1, Inserted
      <4>3. \A j \in 1 .. p - 1 : t[j] = toml[j]
        BY <4>1, Inserted
      <4>4. \A j \in p + 1 .. Len(toml) + 1 : t[j] = toml[j - 1]
        BY <4>1, Inserted
      <4> QED BY <4>2, <4>3, <4>4
    <3> QED BY <2>3, <3>1
  <2>6. Once(toml')
    BY <1>2, <2>1, <2>3, <2>4, InsertOnce
  <2>7. Shaped(toml')
    BY <1>2, <2>1, <2>3, <2>4, InsertShaped
  <2>8. Manifest(toml)' /\ Manifest(was)'
    BY <1>1, <1>2, <2>5, <2>6, <2>7 DEF Manifest
  <2>9. DOMAIN toml' = 1 .. Len(toml) + 1 /\ p \in DOMAIN toml' /\ start \in 1 .. p /\ start \in Nat
    BY <2>1, <2>2, <2>3, <2>5
  <2>10. PICK at \in 1 .. Len(was) + 1 :
            /\ toml = Submodule!InsertAt(was, at, Submodule!Member)
            /\ toml[at] = Submodule!Member /\ at \in DOMAIN toml
    BY <1>1 DEF SubmoduleInv, Editing
  <2>11. \E i \in DOMAIN toml' : toml'[i] = Submodule!Member
    <3>1. at \in 1 .. Len(toml) /\ (at < p => at \in 1 .. p - 1)
          /\ (~(at < p) => at + 1 \in p + 1 .. Len(toml) + 1 /\ at + 1 - 1 = at)
      BY <2>1, <2>3, <2>10
    <3>2. CASE at < p
      BY <2>5, <2>9, <2>10, <3>1, <3>2
    <3>3. CASE ~(at < p)
      <4>1. at + 1 \in p + 1 .. Len(toml) + 1 /\ at + 1 - 1 = at /\ at + 1 \in 1 .. Len(toml) + 1
        BY <2>1, <2>3, <3>1, <3>3
      <4>2. toml'[at + 1] = toml[at + 1 - 1]
        BY <2>5, <4>1
      <4> QED BY <2>9, <2>10, <4>1, <4>2
    <3> QED BY <3>2, <3>3
  <2>12. Submodule!Count(Submodule!Member)' = 1 /\ Submodule!Count(Submodule!Patch)' = 1
    BY <2>5, <2>6, <2>9, <2>11, Counted DEF Submodule!Count
  <2>13. \A i \in DOMAIN toml' : SectionOf(toml', i) = Submodule!Section(i)'
    BY DEF SectionOf, Submodule!Section
  <2>14. \A i \in DOMAIN toml' : toml'[i] = Submodule!Member => SectionOf(toml', i) = "workspace"
    BY <2>5, <2>7, MemberSection
  <2>15. ASSUME NEW i \in DOMAIN toml', toml'[i] = Submodule!Patch,
                \A j \in DOMAIN toml' : toml'[j].is # "commented header"
         PROVE  SectionOf(toml', i) = "patch"
    <3>1. i = p
      BY <2>5, <2>6, <2>9, <2>15 DEF Once
    <3>2. start \in 1 .. p - 1 /\ toml'[start] = Submodule!PatchHeader
      BY <2>1, <2>2, <2>3, <2>5
    <3>3. \A k \in start + 1 .. p : toml'[k].is \notin Headers
      <4> SUFFICES ASSUME NEW k \in start + 1 .. p PROVE toml'[k].is \notin Headers
        OBVIOUS
      <4>1. CASE k = p
        BY <2>4, <2>5, <4>1
      <4>2. CASE k # p
        <5>1. k \in start + 1 .. last /\ k \in 1 .. p - 1 /\ k \in DOMAIN toml'
          BY <2>1, <2>2, <2>9, <4>2
        <5> QED BY <2>2, <2>5, <2>15, <5>1 DEF Headers
      <4> QED BY <4>1, <4>2
    <3> QED BY <2>4, <2>5, <2>9, <3>1, <3>2, <3>3, LastHeader DEF Headers
  <2>16. /\ at \in 1 .. Len(was') + 1 /\ p \in DOMAIN toml'
         /\ toml' = Submodule!InsertAt(Submodule!InsertAt(was', at, Submodule!Member), p, Submodule!Patch)
    BY <1>1, <2>3, <2>9, <2>10
  <2>17. ~args.adopt => \A i \in DOMAIN Submodule!Scaffold : <<Submodule!Scaffold[i], "placeholder">> \in tree
    <3>1. Scaffolded(8) => \A i \in 1 .. 7 : <<Submodule!Scaffold[i], "placeholder">> \in tree
      <4>1. \A i \in 1 .. 7 : i < 8
        OBVIOUS
      <4> QED BY <4>1, Zenon DEF Scaffolded
    <3>2. ~args.adopt => Scaffolded(8)
      BY <1>2
    <3> QED BY <3>1, <3>2, Sizes
  <2>18. Submodule!SuccessIsComplete'
    <3>1. /\ registered' /\ keys' = Len(Submodule!ConfigKeys) /\ ~args'.skip
          /\ IF args'.adopt THEN <<"Cargo.toml", "remote">> \in tree' /\ tree' = remote' \X {"remote"}
             ELSE \A i \in DOMAIN Submodule!Scaffold : <<Submodule!Scaffold[i], "placeholder">> \in tree'
      BY <1>1, <1>2, <2>17, Sizes DEF Remote
    <3>2. \E a \in 1 .. Len(was') + 1, b \in DOMAIN toml' :
             toml' = Submodule!InsertAt(Submodule!InsertAt(was', a, Submodule!Member), b, Submodule!Patch)
      BY <2>16
    <3>3. \A i \in DOMAIN toml' :
             toml'[i] = Submodule!Member => Submodule!Section(i)' = "workspace"
      BY <2>13, <2>14
    <3>4. (\A j \in DOMAIN toml' : toml'[j].is # "commented header") => Submodule!PatchInSection'
      BY <2>13, <2>15 DEF Submodule!PatchInSection
    <3> QED BY <2>12, <3>1, <3>2, <3>3, <3>4 DEF Submodule!SuccessIsComplete
  <2> QED BY <1>1, <2>8, <2>18 DEF SubmoduleInv, SubmoduleTypes, Steps, Editing, Making
<1> QED BY <1>1, <1>3, <1>4

(* What the operator undoes was whole before. *)
LEMMA CleanUpPreserves == ASSUME SubmoduleInv, Submodule!CleanUp \/ Submodule!Kill PROVE SubmoduleInv'
<1>1. /\ pc' = "idle" /\ exit' = Submodule!NoExit /\ toml' \in {toml, was} /\ UNCHANGED <<was, args>>
  BY DEF Submodule!CleanUp, Submodule!Kill
<1>2. Manifest(toml)' /\ Manifest(was)'
  BY <1>1 DEF SubmoduleInv
<1> QED BY <1>1, <1>2, NoSuccess, Sizes DEF SubmoduleInv, SubmoduleTypes, Steps, Editing, Making

LEMMA SubmoduleStep == ASSUME SubmoduleInv, [Submodule!Next]_Submodule!vars PROVE SubmoduleInv'
<1>1. CASE UNCHANGED Submodule!vars
  <2>1. UNCHANGED <<toml, was, registered, tree, keys, remote, args, pc, step, exit>>
    BY <1>1 DEF Submodule!vars
  <2>2. Submodule!SuccessIsComplete' = Submodule!SuccessIsComplete
    BY <2>1 DEF Submodule!SuccessIsComplete, Submodule!Count, Submodule!Section, Submodule!PatchInSection
  <2>3. SubmoduleTypes' /\ Manifest(toml)' /\ Manifest(was)'
    BY <2>1 DEF SubmoduleInv, SubmoduleTypes
  <2>4. Editing' /\ Making'
    BY <2>1 DEF SubmoduleInv, Editing, Making, Remote, Scaffolded
  <2> QED BY <2>2, <2>3, <2>4 DEF SubmoduleInv
<1> QED BY <1>1, StartPreserves, PreflightPreserves, AddPreserves, ConfigurePreserves, AdoptPreserves,
           WriteScaffoldPreserves, MemberPreserves, PatchPreserves, CleanUpPreserves
        DEF Submodule!Next

LEMMA SubmoduleMeans == SubmoduleInv => Submodule!RegisteredOnce
BY Counted DEF SubmoduleInv, Manifest, Submodule!RegisteredOnce, Submodule!Count

----------------------------------------------------------------------------
(* vendor-upstream *)

VendorEntries ==
    [name : {"h3", "quinn"}, target : Vendor!Targets, version : {1, 2},
     sync : Vendor!Globs \cup {{<<{"src"}, {"lib.rs"}>>}}]

VendorTypes ==
    /\ entries \in [1 .. 2 -> VendorEntries]
    /\ DOMAIN files = Vendor!Targets /\ DOMAIN own = Vendor!Targets /\ DOMAIN stamp = Vendor!Targets
    /\ args \in Vendor!Args /\ pc \in {"idle", "select", "fetch", "check", "write"}
    /\ queue \in SUBSET (1 .. 2) /\ outOfDate \in BOOLEAN

\* What is the operator's own is there, and no entry of the crate syncs its path.
OwnKept ==
    \A t \in Vendor!Targets :
        /\ own[t] \subseteq files[t]
        /\ \A f \in own[t], i \in 1 .. 2 : entries[i].target = t => ~Vendor!Synced(entries[i], f.path)

OnePerPath == \A t \in Vendor!Targets : \A f, g \in files[t] : f.path = g.path => f = g

\* The plan is what the release has, and what else the entry syncs is to be removed.
PlanMade ==
    LET entry == Vendor!Current IN
    /\ digest = "good"
    /\ plan = Vendor!SyncedOf(entry, Vendor!Release(entry.name, entry.version))
    /\ \A f \in stale : Vendor!Synced(entry, f.path)
    /\ \A f \in Vendor!SyncedOf(entry, files[entry.target]) : f.path \in Vendor!Paths(plan) \/ f \in stale

InSyncAt(i) == Vendor!InSync(entries[i])
Apart == entries[1].target # entries[2].target

\* The entries a run is through with are in sync, unless it found one that was not.
Processed == ~outOfDate /\ Apart => \A i \in Vendor!Selected \ queue : InSyncAt(i)

Running ==
    /\ pc # "idle" => exit = Vendor!NoExit
    /\ pc \in {"fetch", "check", "write"} => queue # {} /\ queue \subseteq Vendor!Selected /\ Processed
    /\ pc \in {"check", "write"} => PlanMade

Succeeded == exit = 0 /\ Apart => \A i \in Vendor!Selected : InSyncAt(i)

VendorInv == VendorTypes /\ OwnKept /\ OnePerPath /\ Running /\ Succeeded

(* The entry at hand is one of the manifest. *)
LEMMA CurrentIs ==
    ASSUME VendorTypes, queue # {}
    PROVE  /\ Vendor!Min(queue) \in queue /\ Vendor!Min(queue) \in 1 .. 2
           /\ Vendor!Current = entries[Vendor!Min(queue)]
           /\ Vendor!Current \in VendorEntries /\ Vendor!Current.target \in Vendor!Targets
<1>1. queue \in SUBSET (1 .. 2)
  BY DEF VendorTypes
<1>2. \E x \in queue : \A y \in queue : x <= y
  <2>1. \A y \in queue : y = 1 \/ y = 2
    BY <1>1
  <2>2. CASE 1 \in queue
    BY <2>1, <2>2
  <2>3. CASE 1 \notin queue
    BY <2>1, <2>3
  <2> QED BY <2>2, <2>3
<1>3. Vendor!Min(queue) \in queue
  BY <1>2 DEF Vendor!Min
<1>4. Vendor!Current = entries[Vendor!Min(queue)] /\ Vendor!Min(queue) \in 1 .. 2
  BY <1>1, <1>3 DEF Vendor!Current
<1>5. Vendor!Current \in VendorEntries
  BY <1>4 DEF VendorTypes
<1> QED BY <1>3, <1>4, <1>5 DEF VendorEntries

LEMMA VendorInit == Vendor!Init => VendorInv
<1> SUFFICES ASSUME Vendor!Init PROVE VendorInv
  OBVIOUS
<1>1. PICK sync \in Vendor!Globs, target \in Vendor!Targets :
         entries = <<Vendor!Entry("h3", "h3", 1, sync),
                     Vendor!Entry("quinn", target, 2, {<<{"src"}, {"lib.rs"}>>})>>
  BY DEF Vendor!Init
<1>2. entries[1] \in VendorEntries /\ entries[2] \in VendorEntries
  BY <1>1 DEF VendorEntries, Vendor!Entry, Vendor!Targets
<1>3. entries \in [1 .. 2 -> VendorEntries]
  BY <1>1, <1>2
<1>4. own = [t \in Vendor!Targets |-> {Vendor!File(Vendor!Manifest, <<"own", 0>>)}] /\ files = own
  BY DEF Vendor!Init
<1>5. OwnKept
  BY <1>4 DEF OwnKept, Vendor!Synced, Vendor!IsProtectedPath, Vendor!File
<1>6. OnePerPath
  BY <1>4 DEF OnePerPath
<1>7. /\ args \in Vendor!Args /\ DOMAIN stamp = Vendor!Targets /\ pc = "idle" /\ queue = {}
      /\ outOfDate = FALSE /\ exit = Vendor!NoExit
  BY DEF Vendor!Init, Vendor!Args
<1>8. Vendor!NoExit # 0
  BY DEF Vendor!NoExit
<1>9. VendorTypes
  BY <1>3, <1>4, <1>7 DEF VendorTypes
<1> QED BY <1>5, <1>6, <1>7, <1>8, <1>9 DEF VendorInv, Running, Succeeded

(* Nothing an entry is judged by changes. *)
LEMMA SameEntries ==
    ASSUME UNCHANGED <<entries, args>>
    PROVE  /\ Vendor!Selected' = Vendor!Selected /\ Apart' = Apart
           /\ queue' = queue => Vendor!Current' = Vendor!Current
BY DEF Vendor!Selected, Apart, Vendor!Current

LEMMA SameFiles ==
    ASSUME UNCHANGED <<entries, files, stamp>>
    PROVE  \A i : InSyncAt(i)' = InSyncAt(i)
BY DEF InSyncAt, Vendor!InSync, Vendor!SyncedOf

(* The steps that end a run, or touch no crate. *)
LEMMA StopPreserves ==
    ASSUME VendorInv, UNCHANGED <<entries, files, own, stamp, args>>, queue' \in SUBSET (1 .. 2),
           outOfDate' \in BOOLEAN, pc' = "idle", exit' # 0
    PROVE  VendorInv'
BY DEF VendorInv, VendorTypes, OwnKept, OnePerPath, Running, Succeeded

LEMMA StartVendorPreserves ==
    ASSUME VendorInv, NEW a \in Vendor!Args, Vendor!Start(a) PROVE VendorInv'
<1>1. /\ UNCHANGED <<entries, files, own, stamp, queue>> /\ args' = a
      /\ outOfDate' = FALSE /\ pc' = "select" /\ exit' = Vendor!NoExit
  BY DEF Vendor!Start, Vendor!crate
<1>2. Vendor!NoExit # 0
  BY DEF Vendor!NoExit
<1> QED BY <1>1, <1>2 DEF VendorInv, VendorTypes, OwnKept, OnePerPath, Running, Succeeded

LEMMA SelectPreserves == ASSUME VendorInv, Vendor!Select PROVE VendorInv'
<1>1. /\ UNCHANGED <<entries, files, own, stamp, args, outOfDate>> /\ queue' = Vendor!Selected
      /\ pc = "select" /\ Vendor!Selected' = Vendor!Selected
      /\ \/ pc' = "idle" /\ exit' = 1
         \/ pc' = "fetch" /\ exit' = exit /\ Vendor!Selected # {}
  BY SameEntries DEF Vendor!Select, Vendor!Exit, Vendor!crate
<1>2. exit = Vendor!NoExit /\ Vendor!NoExit # 0
  BY <1>1 DEF VendorInv, Running, Vendor!NoExit
<1>3. queue' \in SUBSET (1 .. 2)
  BY <1>1 DEF Vendor!Selected, VendorInv, VendorTypes
<1>4. VendorTypes' /\ OwnKept' /\ OnePerPath'
  BY <1>1, <1>3 DEF VendorInv, VendorTypes, OwnKept, OnePerPath
<1> QED BY <1>1, <1>2, <1>4 DEF VendorInv, Running, Processed, Succeeded

(* The plan is made of a release whose digest is the one the index lists. *)
LEMMA FetchPreserves ==
    ASSUME VendorInv, NEW index \in Vendor!Index, NEW sha \in {"good", "bad"},
           NEW network \in BOOLEAN, NEW disk_ok \in BOOLEAN, Vendor!Fetch(index, sha, network, disk_ok)
    PROVE  VendorInv'
<1> DEFINE entry == Vendor!Current
           synced == Vendor!SyncedOf(entry, files[entry.target])
<1>1. /\ UNCHANGED <<entries, files, own, stamp, args, queue, outOfDate>> /\ pc = "fetch"
      /\ \/ pc' = "idle" /\ exit' \in {1, 2, 3}
         \/ /\ pc' \in {"check", "write"} /\ exit' = exit /\ digest' = sha /\ sha = "good"
            /\ plan' = Vendor!SyncedOf(entry, Vendor!Unpack(entry, sha))
            /\ stale' = {f \in synced : f.path \notin Vendor!Paths(plan')}
  BY DEF Vendor!Fetch, Vendor!Exit, Vendor!crate, Vendor!VerifyChecksum
<1>2. CASE pc' = "idle" /\ exit' \in {1, 2, 3}
  BY <1>1, <1>2, StopPreserves DEF VendorInv, VendorTypes
<1>3. CASE /\ pc' \in {"check", "write"} /\ exit' = exit /\ digest' = sha /\ sha = "good"
           /\ plan' = Vendor!SyncedOf(entry, Vendor!Unpack(entry, sha))
           /\ stale' = {f \in synced : f.path \notin Vendor!Paths(plan')}
  <2>1. Vendor!Unpack(entry, sha) = Vendor!Release(entry.name, entry.version)
    <3>1. \A name, version : \A f \in Vendor!Release(name, version) : f = Vendor!File(f.path, f.bytes)
      BY DEF Vendor!Release, Vendor!File
    <3> QED BY <1>3, <3>1 DEF Vendor!Unpack
  <2>2. Vendor!Current' = entry /\ Vendor!Selected' = Vendor!Selected /\ \A i : InSyncAt(i)' = InSyncAt(i)
    BY <1>1, SameEntries, SameFiles
  <2>3. PlanMade'
    <3>1. \A f \in synced : Vendor!Synced(entry, f.path)
      BY DEF Vendor!SyncedOf
    <3> QED BY <1>1, <1>3, <2>1, <2>2, <3>1 DEF PlanMade
  <2>4. Processed' /\ queue' # {} /\ queue' \subseteq Vendor!Selected'
    BY <1>1, <2>2 DEF VendorInv, Running, Processed, Apart
  <2>5. exit = Vendor!NoExit /\ Vendor!NoExit # 0
    BY <1>1 DEF VendorInv, Running, Vendor!NoExit
  <2>6. VendorTypes' /\ OwnKept' /\ OnePerPath'
    BY <1>1, <1>3 DEF VendorInv, VendorTypes, OwnKept, OnePerPath
  <2> QED BY <1>3, <2>3, <2>4, <2>5, <2>6 DEF VendorInv, Running, Succeeded
<1> QED BY <1>1, <1>2, <1>3

(* The entry at hand is done: the run goes on to the next, or ends. *)
LEMMA FinishPreserves ==
    ASSUME VendorInv, pc \in {"check", "write"}, Vendor!Finish,
           UNCHANGED <<entries, files, own, args>>, DOMAIN stamp' = Vendor!Targets, outOfDate' \in BOOLEAN,
           NEW now, now = Vendor!Min(queue), ~outOfDate' => ~outOfDate /\ InSyncAt(now)',
           \A i \in 1 .. 2 : i # now /\ Apart /\ InSyncAt(i) => InSyncAt(i)'
    PROVE  VendorInv'
<1>1. /\ queue' = queue \ {Vendor!Min(queue)}
      /\ \/ queue' # {} /\ pc' = "fetch" /\ exit' = exit
         \/ queue' = {} /\ pc' = "idle" /\ exit' = IF outOfDate' THEN 1 ELSE 0
  BY DEF Vendor!Finish, Vendor!Exit
<1>2. queue # {} /\ queue \subseteq Vendor!Selected /\ Processed /\ exit = Vendor!NoExit
  BY DEF VendorInv, Running
<1>3. Vendor!Min(queue) \in queue /\ queue \in SUBSET (1 .. 2)
  BY <1>2, CurrentIs DEF VendorInv, VendorTypes
<1>4. Vendor!Selected' = Vendor!Selected /\ Apart' = Apart
  BY SameEntries
<1>5. Vendor!Selected \subseteq 1 .. 2
  BY DEF Vendor!Selected, VendorInv, VendorTypes
<1>6. Processed'
  <2> SUFFICES ASSUME ~outOfDate', Apart, NEW i \in Vendor!Selected \ queue' PROVE InSyncAt(i)'
    BY <1>4 DEF Processed
  <2>1. CASE i = now
    BY <2>1
  <2>2. CASE i # now
    BY <1>1, <1>2, <1>5, <2>2 DEF Processed
  <2> QED BY <2>1, <2>2
<1>7. Succeeded'
  <2> SUFFICES ASSUME exit' = 0, Apart' PROVE \A i \in Vendor!Selected' : InSyncAt(i)'
    BY DEF Succeeded
  <2>1. queue' = {} /\ ~outOfDate'
    BY <1>1, <1>2 DEF Vendor!NoExit
  <2> QED BY <1>6, <2>1 DEF Processed
<1>8. VendorTypes'
  BY <1>1, <1>3 DEF VendorInv, VendorTypes
<1>9. OwnKept' /\ OnePerPath'
  BY DEF VendorInv, OwnKept, OnePerPath
<1>10. Running'
  BY <1>1, <1>2, <1>4, <1>6 DEF Running
<1> QED BY <1>7, <1>8, <1>9, <1>10 DEF VendorInv

(* Where the plan is there and nothing else is synced, the entry is what its release is. *)
LEMMA PlanDone ==
    ASSUME VendorInv, pc \in {"check", "write"}, plan \subseteq files[Vendor!Current.target],
           stale \cap files[Vendor!Current.target] = {}
    PROVE  Vendor!SyncedOf(Vendor!Current, files[Vendor!Current.target]) = plan
<1> DEFINE entry == Vendor!Current
           synced == Vendor!SyncedOf(entry, files[entry.target])
<1>1. PlanMade /\ VendorTypes /\ queue # {} /\ OnePerPath
  BY DEF VendorInv, Running
<1>2. entry.target \in Vendor!Targets
  BY <1>1, CurrentIs
<1>3. \A f \in plan : Vendor!Synced(entry, f.path)
  BY <1>1 DEF PlanMade, Vendor!SyncedOf
<1>4. plan \subseteq synced
  BY <1>3 DEF Vendor!SyncedOf
<1>5. ASSUME NEW f \in synced PROVE f \in plan
  <2>1. f \in files[entry.target]
    BY DEF Vendor!SyncedOf
  <2>2. f.path \in Vendor!Paths(plan)
    BY <1>1, <2>1 DEF PlanMade
  <2>3. PICK g \in plan : g.path = f.path
    BY <2>2 DEF Vendor!Paths
  <2> QED BY <1>1, <1>2, <2>1, <2>3 DEF OnePerPath
<1> QED BY <1>4, <1>5

LEMMA CheckPlanPreserves == ASSUME VendorInv, Vendor!CheckPlan PROVE VendorInv'
<1> DEFINE entry == Vendor!Current
<1>1. pc = "check" /\ UNCHANGED <<entries, files, own, stamp, args>>
  BY DEF Vendor!CheckPlan, Vendor!crate
<1>2. VendorTypes /\ queue # {} /\ PlanMade
  BY <1>1 DEF VendorInv, Running
<1>3. \/ pc' = "idle" /\ exit' = 1 /\ queue' = queue /\ outOfDate' = outOfDate
      \/ /\ outOfDate' = (\/ outOfDate
                          \/ plan \ files[entry.target] # {} \/ stale # {}
                          \/ stamp[entry.target] # Vendor!StampOf(entry))
         /\ Vendor!Finish
  BY DEF Vendor!CheckPlan, Vendor!Exit
<1>4. CASE pc' = "idle" /\ exit' = 1 /\ queue' = queue /\ outOfDate' = outOfDate
  BY <1>1, <1>2, <1>4, StopPreserves DEF VendorTypes
<1>5. CASE /\ outOfDate' = (\/ outOfDate
                            \/ plan \ files[entry.target] # {} \/ stale # {}
                            \/ stamp[entry.target] # Vendor!StampOf(entry))
           /\ Vendor!Finish
  <2> PICK i : i = Vendor!Min(queue)
    OBVIOUS
  <2>1. \A k : InSyncAt(k)' = InSyncAt(k)
    BY <1>1, SameFiles
  <2>2. ASSUME ~outOfDate' PROVE ~outOfDate /\ InSyncAt(i)
    <3>1. ~outOfDate /\ plan \subseteq files[entry.target] /\ stale = {}
          /\ stamp[entry.target] = Vendor!StampOf(entry)
      BY <1>2, <1>5, <2>2 DEF VendorTypes
    <3>2. Vendor!SyncedOf(entry, files[entry.target]) = plan
      BY <1>1, <3>1, PlanDone
    <3>3. Vendor!InSync(entry)
      BY <1>2, <3>1, <3>2 DEF PlanMade, Vendor!InSync, Vendor!StampOf
    <3>4. entry = entries[i]
      BY <1>2, CurrentIs
    <3> QED BY <3>1, <3>3, <3>4 DEF InSyncAt
  <2>3. outOfDate' \in BOOLEAN /\ DOMAIN stamp' = Vendor!Targets
    BY <1>1, <1>2, <1>5 DEF VendorTypes
  <2> QED BY <1>1, <1>5, <2>1, <2>2, <2>3, FinishPreserves
<1> QED BY <1>3, <1>4, <1>5

\* Where the files of the crate at hand alone were touched.
OnlyCurrent ==
    \A t \in Vendor!Targets :
        t # Vendor!Current.target => files'[t] = files[t] /\ stamp'[t] = stamp[t]

(* The other entries are in another crate. *)
LEMMA OthersStay ==
    ASSUME VendorTypes, queue # {}, OnlyCurrent, entries' = entries,
           NEW i \in 1 .. 2, i # Vendor!Min(queue), Apart
    PROVE  InSyncAt(i)' = InSyncAt(i)
<1>1. Vendor!Min(queue) \in 1 .. 2 /\ Vendor!Current = entries[Vendor!Min(queue)]
  BY CurrentIs
<1>2. entries[i].target # Vendor!Current.target
  BY <1>1 DEF Apart
<1>3. entries[i].target \in Vendor!Targets
  BY DEF VendorTypes, VendorEntries
<1>4. files'[entries[i].target] = files[entries[i].target] /\ stamp'[entries[i].target] = stamp[entries[i].target]
  BY <1>2, <1>3 DEF OnlyCurrent
<1> QED BY <1>4 DEF InSyncAt, Vendor!InSync, Vendor!SyncedOf

(* A synced file of the crate at hand is put in the place of what was under its path, or      *)
(* removed: nothing of the operator's own is lost, and no path is there twice.                *)
LEMMA FilesWritten ==
    ASSUME VendorInv, queue # {}, NEW path, Vendor!Synced(Vendor!Current, path), UNCHANGED <<entries, own>>,
           DOMAIN files' = Vendor!Targets,
           \A t \in Vendor!Targets : t # Vendor!Current.target => files'[t] = files[t],
           \A g : g.path # path =>
               (g \in files'[Vendor!Current.target] <=> g \in files[Vendor!Current.target]),
           \A g, h \in files'[Vendor!Current.target] : g.path = path /\ h.path = path => g = h
    PROVE  OwnKept' /\ OnePerPath'
<1> DEFINE target == Vendor!Current.target
<1>1. /\ target \in Vendor!Targets /\ Vendor!Min(queue) \in 1 .. 2
      /\ Vendor!Current = entries[Vendor!Min(queue)]
  BY CurrentIs DEF VendorInv
<1>2. \A g \in own[target] : g.path # path
  BY <1>1 DEF VendorInv, OwnKept
<1>3. \A t \in Vendor!Targets : own[t] \subseteq files'[t]
  BY <1>1, <1>2 DEF VendorInv, OwnKept
<1>4. OwnKept'
  BY <1>3 DEF VendorInv, OwnKept
<1>5. \A g, h \in files'[target] : g.path = h.path => g = h
  BY <1>1 DEF VendorInv, OnePerPath
<1>6. OnePerPath'
  BY <1>5 DEF VendorInv, OnePerPath
<1> QED BY <1>4, <1>6

(* While it writes, a run stays with its entry and plan. *)
LEMMA WritingPreserves ==
    ASSUME VendorInv, pc = "write", OnlyCurrent, OwnKept', OnePerPath', DOMAIN files' = Vendor!Targets,
           UNCHANGED <<entries, own, stamp, args, queue, plan, stale, digest, outOfDate>>,
           \A g \in files'[Vendor!Current.target] :
               g \in files[Vendor!Current.target] \/ g.path \in Vendor!Paths(plan),
           \/ pc' = pc /\ exit' = exit
           \/ pc' = "idle" /\ exit' # 0
    PROVE  VendorInv'
<1>1. /\ VendorTypes /\ queue # {} /\ queue \subseteq Vendor!Selected /\ Processed /\ PlanMade
      /\ exit = Vendor!NoExit
  BY DEF VendorInv, Running
<1>2. Vendor!Selected' = Vendor!Selected /\ Apart' = Apart /\ Vendor!Current' = Vendor!Current
  BY SameEntries
<1>3. Processed'
  <2> SUFFICES ASSUME ~outOfDate, Apart, NEW i \in Vendor!Selected \ queue PROVE InSyncAt(i)'
    BY <1>2 DEF Processed
  <2>1. i # Vendor!Min(queue) /\ i \in 1 .. 2
    BY <1>1, CurrentIs DEF Vendor!Selected, VendorTypes
  <2> QED BY <1>1, <2>1, OthersStay DEF Processed
<1>4. PlanMade'
  <2>1. \A f \in Vendor!SyncedOf(Vendor!Current, files'[Vendor!Current.target]) :
            f.path \in Vendor!Paths(plan) \/ f \in stale
    BY <1>1 DEF PlanMade, Vendor!SyncedOf
  <2>2. Vendor!Paths(plan)' = Vendor!Paths(plan)
    BY DEF Vendor!Paths
  <2> QED BY <1>1, <1>2, <2>1, <2>2 DEF PlanMade
<1>5. VendorTypes'
  BY <1>1 DEF VendorTypes
<1>6. exit' # 0
  BY <1>1 DEF Vendor!NoExit
<1>7. Running'
  BY <1>1, <1>2, <1>3, <1>4 DEF Running
<1> QED BY <1>5, <1>6, <1>7 DEF VendorInv, Succeeded

LEMMA WriteVendoredPreserves ==
    ASSUME VendorInv, NEW f \in plan, NEW ok \in BOOLEAN, Vendor!WriteFile(f, ok) PROVE VendorInv'
<1> DEFINE target == Vendor!Current.target
<1>1. /\ pc = "write"
      /\ UNCHANGED <<entries, own, stamp, args, queue, plan, stale, digest, outOfDate>>
      /\ \/ files' = Vendor!Put(target, f) /\ pc' = pc /\ exit' = exit
         \/ files' \in {files, Vendor!Put(target, Vendor!File(f.path, <<"cut", 0>>))} /\ pc' = "idle" /\ exit' = 3
  BY DEF Vendor!WriteFile, Vendor!Exit, Vendor!crate
<1>2. VendorTypes /\ queue # {} /\ PlanMade /\ target \in Vendor!Targets
  BY <1>1, CurrentIs DEF VendorInv, Running
<1>3. Vendor!Synced(Vendor!Current, f.path) /\ f.path \in Vendor!Paths(plan)
  BY <1>2 DEF PlanMade, Vendor!SyncedOf, Vendor!Paths
<1>4. CASE files' = files
  <2>1. OwnKept' /\ OnePerPath'
    BY <1>1, <1>4 DEF VendorInv, OwnKept, OnePerPath
  <2> QED BY <1>1, <1>2, <1>4, <2>1, WritingPreserves DEF OnlyCurrent, VendorTypes
<1>5. ASSUME NEW g \in {f, Vendor!File(f.path, <<"cut", 0>>)}, files' = Vendor!Put(target, g) PROVE VendorInv'
  <2>1. g.path = f.path
    BY DEF Vendor!File
  <2>2. files' = [files EXCEPT ![target] = {h \in files[target] : h.path # f.path} \cup {g}]
    BY <1>5, <2>1 DEF Vendor!Put
  <2>3. /\ DOMAIN files' = Vendor!Targets
        /\ \A t \in Vendor!Targets : t # target => files'[t] = files[t]
        /\ files'[target] = {h \in files[target] : h.path # f.path} \cup {g}
    BY <1>2, <2>2 DEF VendorTypes
  <2>4. \A h : h.path # f.path => (h \in files'[target] <=> h \in files[target])
    BY <2>1, <2>3
  <2>5. \A h, k \in files'[target] : h.path = f.path /\ k.path = f.path => h = k
    BY <2>3
  <2>6. OwnKept' /\ OnePerPath'
    <3> PICK path : path = f.path
      OBVIOUS
    <3> QED BY <1>1, <1>2, <1>3, <2>3, <2>4, <2>5, FilesWritten
  <2>7. OnlyCurrent
    BY <1>1, <2>3 DEF OnlyCurrent
  <2>8. \A h \in files'[target] : h \in files[target] \/ h.path \in Vendor!Paths(plan)
    BY <1>3, <2>1, <2>3
  <2> QED BY <1>1, <2>3, <2>6, <2>7, <2>8, WritingPreserves
<1> QED BY <1>1, <1>4, <1>5

LEMMA RemoveStalePreserves ==
    ASSUME VendorInv, NEW f \in stale, NEW ok \in BOOLEAN, Vendor!RemoveStale(f, ok) PROVE VendorInv'
<1> DEFINE target == Vendor!Current.target
<1>1. /\ pc = "write" /\ f \in files[target]
      /\ UNCHANGED <<entries, own, stamp, args, queue, plan, stale, digest, outOfDate>>
      /\ \/ files' = [files EXCEPT ![target] = @ \ {f}] /\ pc' = pc /\ exit' = exit
         \/ files' = files /\ pc' = "idle" /\ exit' = 3
  BY DEF Vendor!RemoveStale, Vendor!Exit, Vendor!crate
<1>2. VendorTypes /\ queue # {} /\ PlanMade /\ target \in Vendor!Targets
  BY <1>1, CurrentIs DEF VendorInv, Running
<1>3. Vendor!Synced(Vendor!Current, f.path)
  BY <1>2 DEF PlanMade
<1>4. CASE files' = files
  <2>1. OwnKept' /\ OnePerPath'
    BY <1>1, <1>4 DEF VendorInv, OwnKept, OnePerPath
  <2> QED BY <1>1, <1>2, <1>4, <2>1, WritingPreserves DEF OnlyCurrent, VendorTypes
<1>5. CASE files' = [files EXCEPT ![target] = @ \ {f}] /\ pc' = pc /\ exit' = exit
  <2>1. /\ DOMAIN files' = Vendor!Targets
        /\ \A t \in Vendor!Targets : t # target => files'[t] = files[t]
        /\ files'[target] = files[target] \ {f}
    BY <1>2, <1>5 DEF VendorTypes
  <2>2. \A h \in files[target] : h.path = f.path => h = f
    BY <1>1, <1>2 DEF VendorInv, OnePerPath
  <2>3. OwnKept' /\ OnePerPath'
    <3> PICK path : path = f.path
      OBVIOUS
    <3>1. \A h : h.path # path => (h \in files'[target] <=> h \in files[target])
      BY <2>1
    <3>2. \A h, k \in files'[target] : h.path = path /\ k.path = path => h = k
      BY <2>1, <2>2
    <3> QED BY <1>1, <1>2, <1>3, <2>1, <3>1, <3>2, FilesWritten
  <2>4. OnlyCurrent
    BY <1>1, <2>1 DEF OnlyCurrent
  <2> QED BY <1>1, <1>5, <2>1, <2>3, <2>4, WritingPreserves
<1> QED BY <1>1, <1>4, <1>5

LEMMA WriteStampPreserves ==
    ASSUME VendorInv, NEW ok \in BOOLEAN, Vendor!WriteStamp(ok) PROVE VendorInv'
<1> DEFINE entry == Vendor!Current
<1>1. /\ pc = "write" /\ UNCHANGED <<entries, files, own, args>>
      /\ plan \subseteq files[entry.target] /\ stale \cap files[entry.target] = {}
      /\ \/ /\ stamp' = [stamp EXCEPT ![entry.target] = Vendor!StampOf(entry)]
            /\ outOfDate' = outOfDate /\ Vendor!Finish
         \/ /\ \E s : stamp' = [stamp EXCEPT ![entry.target] = s]
            /\ pc' = "idle" /\ exit' = 3 /\ queue' = queue /\ outOfDate' = outOfDate
  BY DEF Vendor!WriteStamp, Vendor!Exit, Vendor!crate
<1>2. VendorTypes /\ queue # {} /\ PlanMade /\ entry.target \in Vendor!Targets
  BY <1>1, CurrentIs DEF VendorInv, Running
<1>3. CASE /\ \E s : stamp' = [stamp EXCEPT ![entry.target] = s]
           /\ pc' = "idle" /\ exit' = 3 /\ queue' = queue /\ outOfDate' = outOfDate
  <2>1. DOMAIN stamp' = Vendor!Targets
    BY <1>2, <1>3 DEF VendorTypes
  <2> QED BY <1>1, <1>3, <2>1 DEF VendorInv, VendorTypes, OwnKept, OnePerPath, Running, Succeeded
<1>4. CASE /\ stamp' = [stamp EXCEPT ![entry.target] = Vendor!StampOf(entry)]
           /\ outOfDate' = outOfDate /\ Vendor!Finish
  <2> PICK i : i = Vendor!Min(queue)
    OBVIOUS
  <2>1. /\ DOMAIN stamp' = Vendor!Targets /\ outOfDate' \in BOOLEAN
        /\ stamp'[entry.target] = Vendor!StampOf(entry)
        /\ \A t \in Vendor!Targets : t # entry.target => stamp'[t] = stamp[t]
    BY <1>2, <1>4 DEF VendorTypes
  <2>2. Vendor!SyncedOf(entry, files[entry.target]) = plan
    BY <1>1, PlanDone
  <2>3. entry = entries[i]
    BY <1>2, CurrentIs
  <2>4. Vendor!SyncedOf(entries[i], files[entries[i].target])
            = Vendor!Release(entries[i].name, entries[i].version) \cap plan
    BY <1>2, <2>2, <2>3 DEF PlanMade, Vendor!SyncedOf
  <2>5. InSyncAt(i)'
    <3>1. /\ plan = Vendor!SyncedOf(entry, Vendor!Release(entry.name, entry.version)) /\ digest = "good"
      BY <1>2 DEF PlanMade
    <3>2. stamp'[entry.target] = [name |-> entry.name, version |-> entry.version, sha |-> "good"]
      BY <2>1, <3>1 DEF Vendor!StampOf
    <3> QED BY <1>1, <2>2, <2>3, <3>1, <3>2 DEF InSyncAt, Vendor!InSync, Vendor!SyncedOf
  <2>6. OnlyCurrent
    BY <1>1, <2>1 DEF OnlyCurrent
  <2>7. \A k \in 1 .. 2 : k # i /\ Apart /\ InSyncAt(k) => InSyncAt(k)'
    BY <1>1, <1>2, <2>6, OthersStay
  <2> QED BY <1>1, <1>4, <2>1, <2>5, <2>7, FinishPreserves
<1> QED BY <1>1, <1>3, <1>4

(* The operator moves an entry to the other release: what is synced stays the same. *)
LEMMA BumpPreserves == ASSUME VendorInv, NEW i \in 1 .. 2, Vendor!Bump(i) PROVE VendorInv'
<1>1. /\ entries' = [entries EXCEPT ![i].version = 3 - @] /\ pc = "idle" /\ exit' = Vendor!NoExit
      /\ UNCHANGED <<files, own, stamp, args, pc, queue, outOfDate>>
  BY DEF Vendor!Bump, Vendor!Edited, Vendor!Idle
<1>2. entries \in [1 .. 2 -> VendorEntries]
  BY DEF VendorInv, VendorTypes
<1>3. entries'[i] = [entries[i] EXCEPT !.version = 3 - entries[i].version]
  BY <1>1, <1>2
<1>4. entries[i] \in VendorEntries
  BY <1>2
<1>5. entries[i].version \in {1, 2}
  BY <1>4 DEF VendorEntries
<1>6. 3 - entries[i].version \in {1, 2}
  BY <1>5
<1>7. /\ entries'[i] \in VendorEntries
      /\ entries'[i].sync = entries[i].sync /\ entries'[i].target = entries[i].target
  BY <1>3, <1>4, <1>6 DEF VendorEntries
<1>8. entries' \in [1 .. 2 -> VendorEntries] /\ \A k \in 1 .. 2 : k # i => entries'[k] = entries[k]
  BY <1>1, <1>2, <1>3, <1>7
<1>9. OwnKept'
  BY <1>1, <1>7, <1>8 DEF VendorInv, OwnKept, Vendor!Synced
<1>10. VendorTypes' /\ OnePerPath'
  BY <1>1, <1>8 DEF VendorInv, VendorTypes, OnePerPath
<1> QED BY <1>1, <1>9, <1>10 DEF VendorInv, Running, Succeeded, Vendor!NoExit

(* What the operator edits is their own where no entry syncs it. *)
LEMMA EditPreserves ==
    ASSUME VendorInv, NEW target \in Vendor!Targets, NEW path, Vendor!EditFile(target, path) PROVE VendorInv'
<1> DEFINE f == Vendor!File(path, <<"edited", 0>>)
           synced == \E i \in DOMAIN entries : entries[i].target = target /\ Vendor!Synced(entries[i], path)
<1>1. /\ files' = Vendor!Put(target, f) /\ pc = "idle" /\ exit' = Vendor!NoExit
      /\ own' = IF synced THEN own ELSE [own EXCEPT ![target] = {g \in @ : g.path # path} \cup {f}]
      /\ UNCHANGED <<entries, stamp, args, pc, queue, outOfDate>>
  BY DEF Vendor!EditFile, Vendor!Edited, Vendor!Idle
<1>2. f.path = path
  BY DEF Vendor!File
<1> HIDE DEF f
<1>3. DOMAIN entries = 1 .. 2 /\ DOMAIN files = Vendor!Targets /\ DOMAIN own = Vendor!Targets
  BY DEF VendorInv, VendorTypes
<1>4. /\ DOMAIN files' = Vendor!Targets /\ files'[target] = {g \in files[target] : g.path # path} \cup {f}
      /\ \A t \in Vendor!Targets : t # target => files'[t] = files[t]
  BY <1>1, <1>2, <1>3 DEF Vendor!Put
<1>5. OnePerPath'
  BY <1>2, <1>4 DEF VendorInv, OnePerPath
<1>6. OwnKept' /\ DOMAIN own' = Vendor!Targets
  <2>1. CASE synced
    <3>1. \A g \in own[target] : g.path # path
      BY <1>3, <2>1 DEF VendorInv, OwnKept
    <3>2. \A t \in Vendor!Targets : own'[t] \subseteq files'[t]
      BY <1>1, <1>4, <2>1, <3>1 DEF VendorInv, OwnKept
    <3> QED BY <1>1, <1>3, <2>1, <3>2 DEF VendorInv, OwnKept
  <2>2. CASE ~synced
    <3>1. /\ DOMAIN own' = Vendor!Targets /\ own'[target] = {g \in own[target] : g.path # path} \cup {f}
          /\ \A t \in Vendor!Targets : t # target => own'[t] = own[t]
      BY <1>1, <1>3, <2>2
    <3>2. \A t \in Vendor!Targets : own'[t] \subseteq files'[t]
      BY <1>4, <3>1 DEF VendorInv, OwnKept
    <3>3. \A t \in Vendor!Targets : \A g \in own'[t], i \in 1 .. 2 :
              entries[i].target = t => ~Vendor!Synced(entries[i], g.path)
      BY <1>2, <1>3, <2>2, <3>1 DEF VendorInv, OwnKept
    <3> QED BY <1>1, <3>1, <3>2, <3>3 DEF OwnKept
  <2> QED BY <2>1, <2>2
<1>7. VendorTypes'
  BY <1>1, <1>4, <1>6 DEF VendorInv, VendorTypes
<1> QED BY <1>1, <1>5, <1>6, <1>7 DEF VendorInv, Running, Succeeded, Vendor!NoExit

LEMMA VendorStep == ASSUME VendorInv, [Vendor!Next]_Vendor!vars PROVE VendorInv'
<1>1. CASE Vendor!Kill
  <2>1. UNCHANGED <<entries, files, own, stamp, args, queue, outOfDate>> /\ pc' = "idle" /\ exit' # 0
    BY <1>1 DEF Vendor!Kill, Vendor!Exit, Vendor!NoExit, Vendor!crate
  <2> QED BY <2>1, StopPreserves DEF VendorInv, VendorTypes
<1>2. CASE UNCHANGED Vendor!vars
  <2>1. /\ UNCHANGED <<entries, files, own, stamp, args, pc, queue, plan, stale, digest, outOfDate, exit>>
    BY <1>2 DEF Vendor!vars, Vendor!crate
  <2>2. /\ Vendor!Selected' = Vendor!Selected /\ Apart' = Apart /\ Vendor!Current' = Vendor!Current
        /\ \A i : InSyncAt(i)' = InSyncAt(i)
    BY <2>1, SameEntries, SameFiles
  <2>3. PlanMade => PlanMade'
    BY <2>1, <2>2 DEF PlanMade, Vendor!SyncedOf, Vendor!Paths
  <2>4. VendorTypes' /\ OwnKept' /\ OnePerPath'
    BY <2>1 DEF VendorInv, VendorTypes, OwnKept, OnePerPath
  <2>5. Running' /\ Succeeded'
    BY <2>1, <2>2, <2>3 DEF VendorInv, Running, Processed, Succeeded
  <2> QED BY <2>4, <2>5 DEF VendorInv
<1>3. ASSUME NEW i \in DOMAIN entries, Vendor!Bump(i) PROVE VendorInv'
  BY <1>3, BumpPreserves DEF VendorInv, VendorTypes
<1> QED BY <1>1, <1>2, <1>3, StartVendorPreserves, SelectPreserves, FetchPreserves, CheckPlanPreserves,
           WriteVendoredPreserves, RemoveStalePreserves, WriteStampPreserves, EditPreserves
        DEF Vendor!Next

LEMMA VendorMeans == VendorInv => Vendor!VendoredFaithfully
BY DEF VendorInv, Succeeded, OwnKept, InSyncAt, Apart, Vendor!VendoredFaithfully

----------------------------------------------------------------------------
(* bootstrap *)

\* Where a run is once an entity or a revision is written, by kind.
AfterMembership == {"print", "done"}
MintedMembership == AfterMembership \cup {"append membership"}
AfterRole == MintedMembership \cup {"create membership"}
PutRoles == AfterRole \cup {"append role"}
MintedRole == PutRoles \cup {"put role"}
AfterPrincipal == MintedRole \cup {"create role"}
PutPrincipals == AfterPrincipal \cup {"append principal"}
MintedPrincipal == PutPrincipals \cup {"put principal"}
AfterTenant == MintedPrincipal \cup {"create principal"}
PutTenants == AfterTenant \cup {"append tenant"}
MintedTenant == PutTenants \cup {"put tenant"}
BeforePrincipal == {"create tenant", "put tenant", "append tenant", "create principal"}

Places == MintedTenant \cup {"create tenant", "count", "not started", "refused", "failed"}

\* The first revision of a run's entity is there, with what it names.
Written(kind, r) ==
    \E rev \in revisions :
        /\ rev.kind = kind /\ rev.by = r
        /\ rev.names \subseteq contents
        /\ rev.refs \subseteq entities

RowsOf(r) ==
    /\ pc[r] \in MintedTenant => <<"tenant", r>> \in entities
    /\ pc[r] \in PutTenants => Boot!ContentsOf("tenant", r) \subseteq contents
    /\ pc[r] \in AfterTenant => Written("tenant", r)
    /\ pc[r] \in MintedPrincipal => <<"principal", r>> \in entities
    /\ pc[r] \in PutPrincipals => Boot!ContentsOf("principal", r) \subseteq contents
    /\ pc[r] \in AfterPrincipal => Written("principal", r)
    /\ pc[r] \in MintedRole => <<"role", r>> \in entities
    /\ pc[r] \in PutRoles => Boot!ContentsOf("role", r) \subseteq contents
    /\ pc[r] \in AfterRole => Written("role", r)
    /\ pc[r] \in MintedMembership => <<"membership", r>> \in entities
    /\ pc[r] \in AfterMembership => Written("membership", r)
    /\ r \in printed => pc[r] = "done"

RowsInv == \A r \in Runs : RowsOf(r)

\* Who minted a principal, and that a revision of one has its entity.
Principals == {r \in Runs : <<"principal", r>> \in entities}

AloneInv ==
    ~overlapped =>
        /\ \A r, s \in Boot!UnderWay : r = s
        /\ \A r \in Boot!UnderWay : pc[r] \in BeforePrincipal => Principals = {}
        /\ \A r, s \in Principals : r = s

BootTypes ==
    /\ pc \in [Runs -> Places]
    /\ IsFiniteSet(entities)
    /\ printed \subseteq Runs
    /\ \A rev \in revisions : rev.kind = "principal" => <<"principal", rev.by>> \in entities

BootInv == BootTypes /\ RowsInv /\ AloneInv

USE DEF AfterMembership, MintedMembership, AfterRole, PutRoles, MintedRole, AfterPrincipal,
        PutPrincipals, MintedPrincipal, AfterTenant, PutTenants, MintedTenant, BeforePrincipal,
        Places, Boot!Ended, Boot!Kinds

(* Bootstrap counts as the library does. *)
LEMMA BootCounts == \A S : Boot!Cardinality(S) = Cardinality(S)
BY DEF Boot!Cardinality, Cardinality

LEMMA BootInit == Boot!Init => BootInv
BY FS_EmptySet DEF Boot!Init, BootInv, BootTypes, RowsInv, RowsOf, AloneInv, Boot!UnderWay, Principals

Grows == entities \subseteq entities' /\ contents \subseteq contents' /\ revisions \subseteq revisions'

(* What is written stays written. *)
LEMMA WrittenStays ==
    ASSUME Grows, NEW kind, NEW r, Written(kind, r) PROVE Written(kind, r)'
BY DEF Grows, Written

(* A step of one run takes nothing from another. *)
LEMMA OthersKeep ==
    ASSUME BootInv, Grows, NEW r \in Runs, NEW to, pc' = [pc EXCEPT ![r] = to], printed' \subseteq printed \cup {r},
           NEW s \in Runs, s # r
    PROVE  RowsOf(s)'
<1>1. pc'[s] = pc[s] /\ RowsOf(s) /\ (s \in printed' => s \in printed)
  BY DEF BootInv, BootTypes, RowsInv
<1>2. \A kind \in Boot!Kinds : Written(kind, s) => Written(kind, s)'
  BY WrittenStays
<1> QED BY <1>1, <1>2 DEF RowsOf, Grows

(* Steps that mint no principal keep the first one the last. *)
LEMMA AloneKept ==
    ASSUME BootInv, NEW r \in Boot!UnderWay, NEW to, pc' = [pc EXCEPT ![r] = to],
           UNCHANGED overlapped, Principals' = Principals,
           to \in BeforePrincipal => pc[r] \in BeforePrincipal \/ Principals = {}
    PROVE  AloneInv'
<1>1. \A s \in Runs : s # r => pc'[s] = pc[s]
  BY DEF BootInv, BootTypes, Boot!UnderWay
<1>2. pc'[r] = to /\ r \in Runs
  BY DEF BootInv, BootTypes, Boot!UnderWay
<1>3. Boot!UnderWay' \subseteq Boot!UnderWay
  BY <1>1 DEF Boot!UnderWay
<1> QED BY <1>1, <1>2, <1>3 DEF BootInv, AloneInv, Boot!UnderWay

(* create_entity_minting of any kind but the principal. *)
LEMMA CreatePreserves ==
    ASSUME BootInv, NEW r \in Runs, NEW kind \in {"tenant", "role", "membership"}, NEW from, NEW to,
           Boot!Create(r, kind, from, to),
           \/ kind = "tenant" /\ from = "create tenant" /\ to = "put tenant"
           \/ kind = "role" /\ from = "create role" /\ to = "put role"
           \/ kind = "membership" /\ from = "create membership" /\ to = "append membership"
    PROVE  BootInv'
<1>1. /\ pc[r] = from /\ pc' = [pc EXCEPT ![r] = to] /\ entities' = entities \cup {<<kind, r>>}
      /\ UNCHANGED <<contents, revisions, printed, overlapped>>
  BY DEF Boot!Create, Boot!Go
<1>2. Grows
  BY <1>1 DEF Grows
<1>3. RowsOf(r)'
  <2>1. \A k \in Boot!Kinds : Written(k, r) => Written(k, r)'
    BY <1>2, WrittenStays
  <2> QED BY <1>1, <2>1 DEF BootInv, BootTypes, RowsInv, RowsOf
<1>4. RowsInv'
  BY <1>1, <1>2, <1>3, OthersKeep DEF RowsInv
<1>5. Principals' = Principals /\ r \in Boot!UnderWay
  BY <1>1 DEF Principals, Boot!UnderWay
<1>6. AloneInv'
  BY <1>1, <1>5, AloneKept
<1>7. BootTypes'
  <2>1. IsFiniteSet(entities')
    BY <1>1, FS_AddElement DEF BootInv, BootTypes
  <2>2. pc' \in [Runs -> Places] /\ printed' \subseteq Runs
    BY <1>1 DEF BootInv, BootTypes
  <2>3. \A rev \in revisions' : rev.kind = "principal" => <<"principal", rev.by>> \in entities'
    BY <1>1 DEF BootInv, BootTypes
  <2> QED BY <2>1, <2>2, <2>3 DEF BootTypes
<1> QED BY <1>4, <1>6, <1>7 DEF BootInv

(* The principal is minted by a run that, being alone, found none. *)
LEMMA CreatePrincipalPreserves == ASSUME BootInv, NEW r \in Runs, Boot!CreatePrincipal(r) PROVE BootInv'
<1>1. /\ pc[r] = "create principal" /\ pc' = [pc EXCEPT ![r] = "put principal"]
      /\ entities' = entities \cup {<<"principal", r>>}
      /\ UNCHANGED <<contents, revisions, printed, overlapped>>
  BY DEF Boot!CreatePrincipal, Boot!Create, Boot!Go
<1>2. Grows
  BY <1>1 DEF Grows
<1>3. RowsOf(r)'
  <2>1. \A k \in Boot!Kinds : Written(k, r) => Written(k, r)'
    BY <1>2, WrittenStays
  <2> QED BY <1>1, <2>1 DEF BootInv, BootTypes, RowsInv, RowsOf
<1>4. RowsInv'
  BY <1>1, <1>2, <1>3, OthersKeep DEF RowsInv
<1>5. Principals' = Principals \cup {r} /\ r \in Boot!UnderWay
  BY <1>1 DEF Principals, Boot!UnderWay
<1>6. ~overlapped => Principals = {}
  BY <1>1, <1>5 DEF BootInv, AloneInv
<1>7. Boot!UnderWay' \subseteq Boot!UnderWay /\ pc'[r] = "put principal"
  BY <1>1 DEF Boot!UnderWay, BootInv, BootTypes
<1>8. AloneInv'
  BY <1>1, <1>5, <1>6, <1>7 DEF BootInv, AloneInv
<1>9. BootTypes'
  <2>1. IsFiniteSet(entities')
    BY <1>1, FS_AddElement DEF BootInv, BootTypes
  <2>2. pc' \in [Runs -> Places] /\ printed' \subseteq Runs
    BY <1>1 DEF BootInv, BootTypes
  <2>3. \A rev \in revisions' : rev.kind = "principal" => <<"principal", rev.by>> \in entities'
    BY <1>1 DEF BootInv, BootTypes
  <2> QED BY <2>1, <2>2, <2>3 DEF BootTypes
<1> QED BY <1>4, <1>8, <1>9 DEF BootInv

(* Contents are shared: storing one that is there already changes nothing. *)
LEMMA PutPreserves ==
    ASSUME BootInv, NEW r \in Runs, NEW kind \in Boot!Kinds, NEW from, NEW to, Boot!Put(r, kind, from, to),
           \/ kind = "tenant" /\ from = "put tenant" /\ to = "append tenant"
           \/ kind = "principal" /\ from = "put principal" /\ to = "append principal"
           \/ kind = "role" /\ from = "put role" /\ to = "append role"
    PROVE  BootInv'
<1>1. /\ pc[r] = from /\ pc' = [pc EXCEPT ![r] = to]
      /\ contents' = contents \cup Boot!ContentsOf(kind, r)
      /\ UNCHANGED <<entities, revisions, printed, overlapped>>
  BY DEF Boot!Put, Boot!Go
<1>2. Grows
  BY <1>1 DEF Grows
<1>3. RowsOf(r)'
  <2>1. \A k \in Boot!Kinds : Written(k, r) => Written(k, r)'
    BY <1>2, WrittenStays
  <2>2. Boot!ContentsOf(kind, r) \subseteq contents'
    BY <1>1
  <2>3. \A k \in Boot!Kinds : Boot!ContentsOf(k, r) \subseteq contents => Boot!ContentsOf(k, r) \subseteq contents'
    BY <1>1
  <2> QED BY <1>1, <2>1, <2>2, <2>3 DEF BootInv, BootTypes, RowsInv, RowsOf
<1>4. RowsInv'
  BY <1>1, <1>2, <1>3, OthersKeep DEF RowsInv
<1>5. Principals' = Principals /\ r \in Boot!UnderWay
  BY <1>1 DEF Principals, Boot!UnderWay
<1>6. AloneInv'
  BY <1>1, <1>5, AloneKept
<1>7. BootTypes'
  BY <1>1 DEF BootInv, BootTypes
<1> QED BY <1>4, <1>6, <1>7 DEF BootInv

(* A first revision is appended when what it names and refers to is there. *)
LEMMA AppendPreserves ==
    ASSUME BootInv, NEW r \in Runs, NEW kind \in Boot!Kinds, NEW from, NEW to,
           Boot!AppendRevision(r, kind, from, to),
           \/ kind = "tenant" /\ from = "append tenant" /\ to = "create principal"
           \/ kind = "principal" /\ from = "append principal" /\ to = "create role"
           \/ kind = "role" /\ from = "append role" /\ to = "create membership"
           \/ kind = "membership" /\ from = "append membership" /\ to = "print"
    PROVE  BootInv'
<1> DEFINE new == [kind |-> kind, by |-> r, names |-> Boot!ContentsOf(kind, r),
                   refs |-> {<<k, r>> : k \in Boot!RefersTo(kind)}]
<1>1. /\ pc[r] = from /\ pc' = [pc EXCEPT ![r] = to]
      /\ revisions' = revisions \cup {new}
      /\ UNCHANGED <<entities, contents, printed, overlapped>>
  BY DEF Boot!AppendRevision, Boot!Go
<1>2. Grows
  BY <1>1 DEF Grows
<1>3. RowsOf(r)'
  <2>1. \A k \in Boot!Kinds : Written(k, r) => Written(k, r)'
    BY <1>2, WrittenStays
  <2>2. Written(kind, r)'
    <3>1. new.kind = kind /\ new.by = r /\ new \in revisions'
      BY <1>1
    <3>2. new.names \subseteq contents'
      BY <1>1 DEF BootInv, RowsInv, RowsOf, Boot!ContentsOf
    <3>3. new.refs \subseteq entities'
      BY <1>1 DEF BootInv, RowsInv, RowsOf, Boot!RefersTo
    <3> QED BY <3>1, <3>2, <3>3 DEF Written
  <2> QED BY <1>1, <2>1, <2>2 DEF BootInv, BootTypes, RowsInv, RowsOf
<1>4. RowsInv'
  BY <1>1, <1>2, <1>3, OthersKeep DEF RowsInv
<1>5. Principals' = Principals /\ r \in Boot!UnderWay
  BY <1>1 DEF Principals, Boot!UnderWay
<1>6. AloneInv'
  BY <1>1, <1>5, AloneKept
<1>7. BootTypes'
  <2>1. kind = "principal" => <<"principal", r>> \in entities
    BY <1>1 DEF BootInv, RowsInv, RowsOf
  <2>2. \A rev \in revisions' : rev.kind = "principal" => <<"principal", rev.by>> \in entities'
    <3> SUFFICES ASSUME NEW rev \in revisions', rev.kind = "principal"
                 PROVE  <<"principal", rev.by>> \in entities'
      OBVIOUS
    <3>1. CASE rev \in revisions
      BY <1>1, <3>1 DEF BootInv, BootTypes
    <3>2. CASE rev = new
      BY <1>1, <2>1, <3>2
    <3> QED BY <1>1, <3>1, <3>2
  <2>3. pc' \in [Runs -> Places] /\ printed' \subseteq Runs
    BY <1>1 DEF BootInv, BootTypes
  <2> QED BY <1>1, <2>2, <2>3 DEF BootInv, BootTypes
<1> QED BY <1>4, <1>6, <1>7 DEF BootInv

(* Steps that write no row. *)
LEMMA ControlPreserves ==
    ASSUME BootInv, NEW r \in Runs, Boot!Start(r) \/ Boot!Count(r) \/ Boot!PrintToken(r) \/ Boot!Fail(r)
    PROVE  BootInv'
<1>1. UNCHANGED Boot!store
  BY DEF Boot!Start, Boot!Count, Boot!PrintToken, Boot!Fail, Boot!Go
<1>2. Grows /\ Principals' = Principals
  BY <1>1 DEF Grows, Boot!store, Principals
<1>3. \A k \in Boot!Kinds : Written(k, r) => Written(k, r)'
  BY <1>2, WrittenStays
<1>4. CASE Boot!Start(r)
  <2>1. /\ pc[r] = "not started" /\ pc' = [pc EXCEPT ![r] = "count"]
        /\ overlapped' = (overlapped \/ Boot!UnderWay # {}) /\ printed' = printed
    BY <1>4 DEF Boot!Start
  <2>2. RowsInv'
    <3>1. RowsOf(r)'
      BY <1>1, <1>3, <2>1 DEF BootInv, BootTypes, RowsInv, RowsOf, Boot!store
    <3> QED BY <1>2, <2>1, <3>1, OthersKeep DEF RowsInv
  <2>3. Boot!UnderWay' \subseteq Boot!UnderWay \cup {r} /\ pc'[r] = "count"
    BY <2>1 DEF Boot!UnderWay, BootInv, BootTypes
  <2>4. AloneInv'
    BY <1>2, <2>1, <2>3 DEF BootInv, AloneInv
  <2> QED BY <1>1, <2>1, <2>2, <2>4 DEF BootInv, BootTypes, Boot!store
<1>5. CASE Boot!Count(r)
  <2>1. Boot!CountPrincipals \in Nat /\ (Boot!CountPrincipals = 0 => Principals = {})
    <3> DEFINE minted == {e \in entities : e[1] = "principal"}
    <3>1. IsFiniteSet(minted)
      BY FS_Subset DEF BootInv, BootTypes
    <3>2. Cardinality(minted) \in Nat /\ (Cardinality(minted) = 0 => minted = {})
      BY <3>1, FS_CardinalityType, FS_EmptySet
    <3>3. \A s \in Principals : <<"principal", s>> \in minted
      BY DEF Principals
    <3> QED BY <3>2, <3>3, BootCounts DEF Boot!CountPrincipals
  <2>2. PICK to \in {"refused", "create tenant"} :
           /\ pc[r] = "count" /\ pc' = [pc EXCEPT ![r] = to]
           /\ UNCHANGED <<printed, overlapped>>
           /\ to = "create tenant" => Boot!CountPrincipals = 0
    <3>1. /\ pc[r] = "count" /\ UNCHANGED <<printed, overlapped>>
          /\ pc' = [pc EXCEPT ![r] = IF Boot!CountPrincipals > 0 THEN "refused" ELSE "create tenant"]
      BY <1>5 DEF Boot!Count, Boot!Go
    <3>2. CASE Boot!CountPrincipals = 0
      BY <3>1, <3>2
    <3>3. CASE Boot!CountPrincipals > 0
      BY <3>1, <3>3
    <3>4. Boot!CountPrincipals = 0 \/ Boot!CountPrincipals > 0
      <4>1. \A n \in Nat : n = 0 \/ n > 0
        OBVIOUS
      <4> QED BY <2>1, <4>1, Zenon
    <3> QED BY <3>2, <3>3, <3>4, Zenon
  <2>3. to = "create tenant" => Principals = {}
    BY <2>1, <2>2
  <2>4. RowsInv'
    <3>1. RowsOf(r)'
      BY <1>1, <1>3, <2>2 DEF BootInv, BootTypes, RowsInv, RowsOf, Boot!store
    <3> QED BY <1>2, <2>2, <3>1, OthersKeep DEF RowsInv
  <2>5. r \in Boot!UnderWay
    BY <2>2 DEF Boot!UnderWay
  <2>6. AloneInv'
    BY <1>2, <2>2, <2>3, <2>5, AloneKept
  <2> QED BY <1>1, <2>2, <2>4, <2>6 DEF BootInv, BootTypes, Boot!store
<1>6. CASE Boot!PrintToken(r)
  <2>1. /\ pc[r] = "print" /\ pc' = [pc EXCEPT ![r] = "done"]
        /\ printed' = printed \cup {r} /\ overlapped' = overlapped
    BY <1>6 DEF Boot!PrintToken
  <2>2. RowsInv'
    <3>1. RowsOf(r)'
      BY <1>1, <1>3, <2>1 DEF BootInv, BootTypes, RowsInv, RowsOf, Boot!store
    <3> QED BY <1>2, <2>1, <3>1, OthersKeep DEF RowsInv
  <2>3. r \in Boot!UnderWay
    BY <2>1 DEF Boot!UnderWay
  <2>4. AloneInv'
    BY <1>2, <2>1, <2>3, AloneKept
  <2> QED BY <1>1, <2>1, <2>2, <2>4 DEF BootInv, BootTypes, Boot!store
<1>7. CASE Boot!Fail(r)
  <2>1. /\ pc[r] \notin Boot!Ended /\ pc' = [pc EXCEPT ![r] = "failed"]
        /\ UNCHANGED <<printed, overlapped>>
    BY <1>7 DEF Boot!Fail
  <2>2. RowsInv'
    <3>1. RowsOf(r)'
      BY <1>1, <1>3, <2>1 DEF BootInv, BootTypes, RowsInv, RowsOf, Boot!store
    <3> QED BY <1>2, <2>1, <3>1, OthersKeep DEF RowsInv
  <2>3. r \in Boot!UnderWay
    BY <2>1 DEF Boot!UnderWay
  <2>4. AloneInv'
    BY <1>2, <2>1, <2>3, AloneKept
  <2> QED BY <1>1, <2>1, <2>2, <2>4 DEF BootInv, BootTypes, Boot!store
<1> QED BY <1>4, <1>5, <1>6, <1>7

LEMMA BootStep == ASSUME BootInv, [Boot!Next]_Boot!vars PROVE BootInv'
<1>1. CASE UNCHANGED Boot!vars
  <2>1. UNCHANGED <<pc, entities, contents, revisions, printed, overlapped>>
    BY <1>1 DEF Boot!vars, Boot!store
  <2>2. BootTypes'
    BY <2>1 DEF BootInv, BootTypes
  <2>3. RowsInv'
    <3> SUFFICES ASSUME NEW r \in Runs PROVE RowsOf(r)'
      BY DEF RowsInv
    <3>1. \A k \in Boot!Kinds : Written(k, r) => Written(k, r)'
      BY <2>1, WrittenStays DEF Grows
    <3> QED BY <2>1, <3>1 DEF BootInv, RowsInv, RowsOf
  <2>4. AloneInv'
    BY <2>1 DEF BootInv, AloneInv, Boot!UnderWay, Principals
  <2> QED BY <2>2, <2>3, <2>4 DEF BootInv
<1>2. ASSUME NEW r \in Runs, Boot!CreateTenant(r) \/ Boot!CreateRole(r) \/ Boot!CreateMembership(r) PROVE BootInv'
  BY <1>2, CreatePreserves DEF Boot!CreateTenant, Boot!CreateRole, Boot!CreateMembership
<1>3. ASSUME NEW r \in Runs, Boot!PutTenant(r) \/ Boot!PutPrincipal(r) \/ Boot!PutRole(r) PROVE BootInv'
  BY <1>3, PutPreserves DEF Boot!PutTenant, Boot!PutPrincipal, Boot!PutRole
<1>4. ASSUME NEW r \in Runs,
             Boot!AppendTenant(r) \/ Boot!AppendPrincipal(r) \/ Boot!AppendRole(r) \/ Boot!AppendMembership(r)
      PROVE  BootInv'
  BY <1>4, AppendPreserves DEF Boot!AppendTenant, Boot!AppendPrincipal, Boot!AppendRole, Boot!AppendMembership
<1> QED BY <1>1, <1>2, <1>3, <1>4, CreatePrincipalPreserves, ControlPreserves DEF Boot!Next

(* While invocations do not overlap there is one administrator at most, and a printed token *)
(* is one's.                                                                                *)
LEMMA BootMeans == BootInv => Boot!OneAdministrator
<1>1. ASSUME BootInv PROVE Boot!OneAdministrator
  <2> DEFINE admins == {r \in Runs : Boot!Administrator(r)}
  <2>1. admins \subseteq Principals
    BY <1>1 DEF Boot!Administrator, Principals, BootInv, BootTypes
  <2>2. ASSUME ~overlapped PROVE Cardinality(admins) <= 1
    <3>1. \A r, s \in admins : r = s
      BY <1>1, <2>1, <2>2 DEF BootInv, AloneInv
    <3>2. admins = {} \/ \E r : admins = {r}
      BY <3>1
    <3>3. Cardinality(admins) = 0 \/ Cardinality(admins) = 1
      BY <3>2, FS_EmptySet, FS_Singleton
    <3> QED BY <3>3
  <2>3. \A r \in printed : Boot!Administrator(r)
    <3> SUFFICES ASSUME NEW r \in printed PROVE Boot!Administrator(r)
      OBVIOUS
    <3>1. /\ Written("tenant", r) /\ Written("principal", r)
          /\ Written("role", r) /\ Written("membership", r)
      BY <1>1 DEF BootInv, BootTypes, RowsInv, RowsOf
    <3> QED BY <3>1 DEF Boot!Administrator, Written
  <2> QED BY <2>2, <2>3, BootCounts DEF Boot!OneAdministrator
<1> QED BY <1>1

HIDE DEF AfterMembership, MintedMembership, AfterRole, PutRoles, MintedRole, AfterPrincipal,
         PutPrincipals, MintedPrincipal, AfterTenant, PutTenants, MintedTenant, BeforePrincipal,
         Places, Boot!Ended, Boot!Kinds

----------------------------------------------------------------------------
(* The commands together: a behaviour is about one part, and stays with it. *)

CommandsInv ==
    /\ part = "bootstrap" => BootInv
    /\ part = "new-submodule" => SubmoduleInv
    /\ part = "vendor-upstream" => VendorInv
    /\ part = "hf-fetch" => ModelInv

LEMMA CommandsInit == Init => CommandsInv
<1>1. Init => \/ part = "bootstrap" /\ Boot!Init
              \/ part = "new-submodule" /\ Submodule!Init
              \/ part = "vendor-upstream" /\ Vendor!Init
              \/ part = "hf-fetch" /\ Model!Init
              \/ part \in {"lowering", "h3", "virt", "dns"}
  BY DEF Init, PartInit
<1> QED BY <1>1, BootInit, SubmoduleInit, VendorInit, ModelInit DEF CommandsInv

(* A step of the whole is a step of the part the behaviour is about, or a stutter of it. *)
LEMMA CommandStep ==
    ASSUME [Next]_vars
    PROVE  /\ part' = part
           /\ part = "bootstrap" => [Boot!Next]_Boot!vars
           /\ part = "new-submodule" => [Submodule!Next]_Submodule!vars
           /\ part = "vendor-upstream" => [Vendor!Next]_Vendor!vars
           /\ part = "hf-fetch" => [Model!Next]_Model!vars
<1>1. CASE UNCHANGED vars
  <2>1. UNCHANGED <<part, pc, run, files, boot, submodule, vendor, model>>
    BY <1>1 DEF vars
  <2>2. UNCHANGED Boot!vars /\ UNCHANGED Submodule!vars
    BY <2>1 DEF run, boot, submodule, Boot!vars, Boot!store, Submodule!vars
  <2>3. UNCHANGED Vendor!vars /\ UNCHANGED Model!vars
    BY <2>1 DEF run, vendor, model, Vendor!vars, Vendor!crate, Model!vars
  <2> QED BY <2>1, <2>2, <2>3
<1>2. CASE Next
  <2>1. CASE PartNext
    BY <2>1 DEF PartNext, Of
  <2>2. CASE part = "lowering" /\ part' = part
    BY <2>2
  <2> QED BY <1>2, <2>1, <2>2 DEF Next, Of
<1> QED BY <1>1, <1>2

LEMMA CommandsStep == CommandsInv /\ [Next]_vars => CommandsInv'
BY CommandStep, BootStep, SubmoduleStep, VendorStep, ModelStep DEF CommandsInv

THEOREM CommandsInvariant == Spec => []CommandsInv
BY CommandsInit, CommandsStep, PTL DEF Spec

(* However runs fail and are repeated: a run that printed its token left an administrator    *)
(* with all that its token needs, and when no two runs were under way together there is no   *)
(* second one.                                                                               *)
THEOREM AdministratorOnce == Spec => []OneAdministrator
<1>1. CommandsInv => OneAdministrator
  BY BootMeans DEF CommandsInv, OneAdministrator
<1> QED BY <1>1, CommandsInvariant, PTL

(* No history of killed, failed and repeated runs registers the crate twice in the manifest. *)
THEOREM SubmoduleOnce == Spec => []RegisteredOnce
<1>1. CommandsInv => RegisteredOnce
  BY SubmoduleMeans DEF CommandsInv, RegisteredOnce
<1> QED BY <1>1, CommandsInvariant, PTL

(* A run of new-submodule that says it succeeded did everything it was asked for, changed    *)
(* nothing else of the manifest and put the member in its section; the patch too, unless a   *)
(* header of the manifest carries a comment.                                                 *)
THEOREM SubmoduleComplete == Spec => []SuccessIsComplete
<1>1. CommandsInv => SuccessIsComplete
  BY DEF CommandsInv, SubmoduleInv, SuccessIsComplete
<1> QED BY <1>1, CommandsInvariant, PTL

(* A run of vendor-upstream that ends well leaves the crates it was asked for as their       *)
(* releases have them, and no run ever touches a file of the crate's own.                    *)
THEOREM Vendored == Spec => []VendoredFaithfully
<1>1. CommandsInv => VendoredFaithfully
  BY VendorMeans DEF CommandsInv, VendoredFaithfully
<1> QED BY <1>1, CommandsInvariant, PTL

(* The files of the bundle are those the manifest beside them names, unless a write was cut  *)
(* short.                                                                                    *)
THEOREM Bundle == Spec => []BundleMatchesManifest
<1>1. CommandsInv => BundleMatchesManifest
  BY DEF CommandsInv, ModelInv, BundleMatchesManifest
<1> QED BY <1>1, CommandsInvariant, PTL
=============================================================================
