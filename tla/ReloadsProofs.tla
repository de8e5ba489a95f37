---------------------------- MODULE ReloadsProofs ----------------------------
(***************************************************************************)
(* Theorems about Reloads, for any number of requests, versions, key files *)
(* and their generations, jobs, tokens, edits and ends of the process.     *)
(* Each server has an invariant that says what it holds at each place of   *)
(* its loop and, for an operator who has told it of everything, that this  *)
(* is what is on disk; a step of one server leaves the others' variables.  *)
(***************************************************************************)
EXTENDS Reloads, SequenceTheorems, WellFoundedInduction, TLAPS

----------------------------------------------------------------------------
(* The API server.  ApiSettled is what the loop still has to put live, ApiAgree that *)
(* router and dispatch table are of one configuration, ApiExplicit that it is not    *)
(* the built-in one.                                                                 *)

ApiPlaces == {"down", "booting", "building", "registered", "built", "starting", "waiting",
              "loading", "writing"}

ApiTypes ==
    /\ loop \in ApiPlaces /\ up \in BOOLEAN
    /\ loop \in {"down", "booting"} => ~up
    /\ loop \in {"starting", "waiting", "loading", "writing"} => up
    /\ toml \in Nat /\ toml > 0 /\ loaded \in Nat /\ keyFiles \in Nat /\ sck \in Nat
    /\ built \in [config : Nat, registry : Nat, lowerer : Nat]

ApiFresh ==
    [config |-> toml, registry |-> keyFiles, lowerer |-> keyFiles]

\* With nothing edited since the last signal, and that signal taken, what the loop
\* carries is what is on disk.
ApiSettled ==
    settled /\ Api!Loadable =>
        /\ loop = "starting" => Api!Current
        /\ ~up \/ ~pending =>
               /\ loop = "waiting" => Api!Current
               /\ loop \in {"booting", "building"} => loaded = toml
               /\ loop = "registered" =>
                      loaded = toml /\ built.config = toml /\ built.registry = keyFiles
               /\ loop \in {"built", "writing"} => built = ApiFresh

ApiAgree ==
    /\ up /\ loop # "writing" => dispatch = api.config
    /\ loop = "writing" => api = built

ApiExplicit ==
    explicit =>
        /\ loop \in {"booting", "building"} => loaded > 0
        /\ loop \in {"registered", "built", "writing"} => built.config > 0
        /\ up => api.config > 0 /\ dispatch > 0

ApiInv == ApiTypes /\ ApiSettled /\ ApiAgree /\ ApiExplicit

LEMMA ApiInit == Api!Init => ApiInv
<1> SUFFICES ASSUME Api!Init PROVE ApiInv
  OBVIOUS
<1>1. ApiTypes
  <2>1. /\ loop = "down" /\ up = FALSE
        /\ toml = 1 /\ loaded = 0 /\ keyFiles = 1 /\ sck = 0
    BY DEF Api!Init
  <2>2. built \in [config : Nat, registry : Nat, lowerer : Nat]
    BY DEF Api!Init, Api!Empty
  <2>3. toml \in Nat /\ toml > 0 /\ loaded \in Nat /\ keyFiles \in Nat /\ sck \in Nat
    BY ONLY <2>1
  <2> QED BY ONLY <2>1, <2>2, <2>3, Zenon DEF ApiTypes, ApiPlaces
<1>2. loop = "down" /\ up = FALSE
  BY DEF Api!Init
<1> QED BY <1>1, <1>2 DEF ApiInv, ApiSettled, ApiAgree, ApiExplicit

(* What an operator does unsettles the server or leaves it a signal. *)
LEMMA ApiOperator == ASSUME ApiInv, Api!Operator PROVE ApiInv'
<1> USE DEF ApiInv, ApiTypes, ApiPlaces, ApiSettled, ApiAgree, ApiExplicit, ApiFresh,
            Api!Loadable, Api!Current, Api!live, Api!disk, Api!Exit
<1>1. ASSUME NEW how \in {"missing", "malformed"}, Api!BeginEdit(how) PROVE ApiInv'
  BY <1>1 DEF Api!BeginEdit
<1>2. CASE Api!FinishEdit
  <2>1. toml' \in Nat /\ toml' > 0
    BY <1>2 DEF Api!FinishEdit
  <2> QED BY <1>2, <2>1 DEF Api!FinishEdit
<1>3. CASE Api!InstallKeys
  BY <1>3 DEF Api!InstallKeys
<1>4. CASE Api!Hangup
  BY <1>4 DEF Api!Hangup
<1> QED BY <1>1, <1>2, <1>3, <1>4 DEF Api!Operator

(* The loop puts live what it loaded, and only what could be built. *)
LEMMA ApiServes == ASSUME ApiInv, Api!Server PROVE ApiInv'
<1> USE DEF ApiInv, ApiTypes, ApiPlaces, ApiSettled, ApiAgree, ApiExplicit, ApiFresh,
            Api!Loadable, Api!Current, Api!live, Api!disk, Api!Exit
<1>1. CASE Api!Boot
  BY <1>1 DEF Api!Boot, Api!Loads, Api!LoadsDefaults
<1>2. CASE Api!BootState
  BY <1>2 DEF Api!BootState, Api!Found, Api!Read
<1>3. CASE Api!BootStart
  BY <1>3 DEF Api!BootStart
<1>4. CASE Api!InstallHandler
  BY <1>4 DEF Api!InstallHandler
<1>5. CASE Api!BuildRegistry
  <2>1. CASE Api!Found
    <3>1. built' = [config |-> loaded, registry |-> Api!Read, lowerer |-> 0] /\ loop' = "registered"
          /\ loop = "building" /\ up' = up
      BY <1>5, <2>1 DEF Api!BuildRegistry
    <3>2. built'.config = loaded /\ built'.registry = Api!Read /\ ApiTypes'
      BY <1>5, <3>1 DEF Api!BuildRegistry, Api!Read
    <3> QED BY <1>5, <3>1, <3>2 DEF Api!BuildRegistry, Api!Read
  <2>2. CASE ~Api!Found
    BY <1>5, <2>2 DEF Api!BuildRegistry, Api!BuildFails, Api!Found
  <2> QED BY <2>1, <2>2
<1>6. CASE Api!BuildLowerers
  <2>1. CASE Api!Found
    <3>1. built' = [built EXCEPT !.lowerer = Api!Read] /\ loop' = "built"
          /\ loop = "registered" /\ up' = up
      BY <1>6, <2>1 DEF Api!BuildLowerers
    <3>2. /\ built' = [config |-> built.config, registry |-> built.registry,
                       lowerer |-> Api!Read]
          /\ ApiTypes'
      BY <1>6, <3>1 DEF Api!BuildLowerers, Api!Read
    <3>3. built'.config = built.config
      BY <3>2
    <3> QED BY <1>6, <3>1, <3>2, <3>3 DEF Api!BuildLowerers, Api!Read
  <2>2. CASE ~Api!Found
    BY <1>6, <2>2 DEF Api!BuildLowerers, Api!BuildFails, Api!Found
  <2> QED BY <2>1, <2>2
<1>7. CASE Api!Notified
  BY <1>7 DEF Api!Notified
<1>8. CASE Api!Load
  BY <1>8 DEF Api!Load, Api!Loads, Api!LoadFails, Api!LoadsDefaults
<1>9. CASE Api!WriteApi
  BY <1>9 DEF Api!WriteApi
<1>10. CASE Api!WriteDispatch
  BY <1>10 DEF Api!WriteDispatch
<1> QED BY <1>1, <1>2, <1>3, <1>4, <1>5, <1>6, <1>7, <1>8, <1>9, <1>10 DEF Api!Server

LEMMA ApiStep == ASSUME ApiInv, [Api!Next]_Api!vars PROVE ApiInv'
<1> USE DEF ApiInv, ApiTypes, ApiPlaces, ApiSettled, ApiAgree, ApiExplicit, ApiFresh,
            Api!Loadable, Api!Current, Api!live, Api!disk, Api!Exit
<1>1. CASE Api!Crash
  BY <1>1 DEF Api!Crash
<1>2. ASSUME NEW r \in Requests, Api!Accept(r) PROVE ApiInv'
  BY <1>2 DEF Api!Accept
<1>3. ASSUME NEW r \in Requests, Api!StoreEndpoint(r) PROVE ApiInv'
  BY <1>3 DEF Api!StoreEndpoint
<1>4. CASE UNCHANGED Api!vars
  BY <1>4 DEF Api!vars
<1> QED BY <1>1, <1>2, <1>3, <1>4, ApiOperator, ApiServes DEF Api!Next

----------------------------------------------------------------------------
(* The connector.  The registries read so far are those of a prefix of the entries, *)
(* each part of a generation its file has or had.                                   *)

Entries == [registry : STRING, kid : STRING, files : Seq(Files) \ {<<>>}]

\* What a connector started with -c or without may serve.
Choices(withC) == Configs \cup (IF withC THEN {} ELSE {Connector!Default})

KeyAt(c, i) == Connector!RegistryKey(c.entries[i])

\* Of c's first n entries, entry i is the last with its kid.
Stands(c, n, i) == \A j \in (i + 1) .. n : KeyAt(c, j) # KeyAt(c, i)

\* The parts of a key are all there, each of a generation its file has or had.
Fits(parts, names, files) ==
    /\ DOMAIN parts = DOMAIN names
    /\ \A p \in DOMAIN parts : parts[p] \in 1 .. files[names[p]]

\* The parts of a key as they are on disk.
OnDisk(names, files) == [p \in DOMAIN names |-> files[names[p]]]

IsFunction(f) == f = [x \in DOMAIN f |-> f[x]]

\* k is a registry of c's first n entries.
Whole(k, c, n, files) ==
    /\ IsFunction(k)
    /\ DOMAIN k = {KeyAt(c, i) : i \in 1 .. n}
    /\ \A i \in 1 .. n : Stands(c, n, i) => Fits(k[KeyAt(c, i)], c.entries[i].files, files)

\* It holds the generations on disk.
Fresh(k, c, n, files) ==
    \A i \in 1 .. n : Stands(c, n, i) => k[KeyAt(c, i)] = OnDisk(c.entries[i].files, files)

ConnectorTypes ==
    /\ toml \in Configs /\ explicit \in BOOLEAN
    /\ generation \in [Files -> Nat]
    /\ loop \in {"down", "loading", "reading", "starting", "waiting"}
    /\ loop = "starting" => ~hooked
    /\ loop = "waiting" => hooked

\* How many entries are in `keys'.
Done == Len(loading.entries) - Len(unread)

Read ==
    /\ loading \in Choices(explicit)
    /\ unread \in Seq(Entries) /\ Len(unread) <= Len(loading.entries)
    /\ \A i \in 1 .. Len(unread) : unread[i] = loading.entries[Done + i]
    /\ partial \in Seq(Nat)
    /\ unread # <<>> =>
           /\ Len(partial) < Len(Head(unread).files)
           /\ \A p \in 1 .. Len(partial) : partial[p] \in 1 .. generation[Head(unread).files[p]]
    /\ Whole(keys, loading, Done, generation)

ReadFresh ==
    /\ loading = toml
    /\ Fresh(keys, toml, Done, generation)
    /\ unread # <<>> =>
           \A p \in 1 .. Len(partial) : partial[p] = generation[Head(unread).files[p]]

LiveWhole ==
    Connector!Serving =>
        \E c \in Choices(explicit) :
            live.realm_id = c.realm_id /\ Whole(live.keys, c, Len(c.entries), generation)

LiveFresh ==
    /\ live = [realm_id |-> toml.realm_id, keys |-> live.keys]
    /\ Whole(live.keys, toml, Len(toml.entries), generation)
    /\ Fresh(live.keys, toml, Len(toml.entries), generation)

\* With nothing edited since the last signal, and that signal taken, what is read or live
\* is what is on disk; a reload that fails says that not all of it can be read.
ConnectorSettled ==
    settled /\ ~pending /\ editing = "no" =>
        /\ loop = "reading" => ReadFresh
        /\ loop = "starting" => LiveFresh
        /\ loop = "waiting" /\ Connector!Readable => LiveFresh

ConnectorInv ==
    /\ ConnectorTypes
    /\ loop = "reading" => Read
    /\ LiveWhole
    /\ ConnectorSettled

(* A nonempty set of positions has a greatest one. *)
LEMMA Greatest ==
    ASSUME NEW n \in Nat, NEW S \in SUBSET (1 .. n), S # {}
    PROVE  \E m \in S : \A k \in S : k <= m
<1> DEFINE T == {n - k : k \in S}
<1>1. \A k \in S : k \in Nat /\ n - k \in Nat
  OBVIOUS
<1>2. T \in SUBSET Nat /\ T # {}
  BY <1>1
<1>3. PICK t \in T : \A u \in T : ~(<<u, t>> \in OpToRel(<, Nat))
  BY <1>2, NatLessThanWellFounded, WFMin
<1>4. \A u \in T : ~(u < t)
  BY <1>2, <1>3 DEF OpToRel
<1>5. PICK m \in S : t = n - m
  OBVIOUS
<1>6. \A k \in S : ~(n - k < n - m)
  BY <1>4, <1>5
<1> QED BY <1>1, <1>6

LEMMA EntriesOf == ASSUME NEW withC, NEW c \in Choices(withC) PROVE c.entries \in Seq(Entries)
<1>1. CASE c \in Configs
  BY <1>1, ConfigsAssumption DEF Entries
<1>2. CASE c = Connector!Default
  BY <1>2 DEF Connector!Default
<1> QED BY <1>1, <1>2 DEF Choices

(* Every key of a configuration has an entry that stands. *)
LEMMA SomeStands ==
    ASSUME NEW c, NEW n \in Nat, NEW i \in 1 .. n
    PROVE  \E j \in 1 .. n : KeyAt(c, j) = KeyAt(c, i) /\ Stands(c, n, j)
<1> DEFINE S == {j \in 1 .. n : KeyAt(c, j) = KeyAt(c, i)}
<1>1. PICK m \in S : \A k \in S : k <= m
  BY Greatest
<1>2. Stands(c, n, m)
  BY <1>1 DEF Stands
<1> QED BY <1>1, <1>2

(* KeysOf takes the parts of the entry that stands. *)
LEMMA KeysOfStands ==
    ASSUME NEW c, c.entries \in Seq(Entries), NEW files,
           NEW i \in 1 .. Len(c.entries), Stands(c, Len(c.entries), i)
    PROVE  Connector!KeysOf(c, files)[KeyAt(c, i)] = OnDisk(c.entries[i].files, files)
<1> DEFINE key == KeyAt(c, i)
           I == {j \in 1 .. Len(c.entries) : Connector!RegistryKey(c.entries[j]) = key}
<1>1. i \in I /\ \A j \in I : i >= j
  BY DEF Stands, KeyAt
<1>2. Connector!Max(I) = i
  BY <1>1 DEF Connector!Max
<1>3. Connector!SelectLastInSeq(c.entries, LAMBDA e : Connector!RegistryKey(e) = key) = i
  BY <1>1, <1>2 DEF Connector!SelectLastInSeq
<1>4. key \in {Connector!RegistryKey(c.entries[j]) : j \in DOMAIN c.entries}
  BY DEF KeyAt
<1> QED BY <1>3, <1>4 DEF Connector!KeysOf, OnDisk

LEMMA KeysOfDomain ==
    ASSUME NEW c, c.entries \in Seq(Entries), NEW files
    PROVE  DOMAIN Connector!KeysOf(c, files) = {KeyAt(c, i) : i \in 1 .. Len(c.entries)}
BY DEF Connector!KeysOf, KeyAt

(* Generations only grow, and what fits the older ones fits the newer. *)
LEMMA FitsGrows ==
    ASSUME NEW parts, NEW names \in Seq(Files), NEW older \in [Files -> Nat], NEW newer \in [Files -> Nat],
           \A f \in Files : older[f] <= newer[f],
           Fits(parts, names, older)
    PROVE  Fits(parts, names, newer)
<1> SUFFICES ASSUME NEW p \in DOMAIN parts PROVE parts[p] \in 1 .. newer[names[p]]
  BY DEF Fits
<1>1. names[p] \in Files /\ parts[p] \in 1 .. older[names[p]]
  BY DEF Fits
<1> QED BY <1>1

LEMMA WholeGrows ==
    ASSUME NEW k, NEW c, c.entries \in Seq(Entries), NEW n \in 0 .. Len(c.entries),
           NEW older \in [Files -> Nat], NEW newer \in [Files -> Nat],
           \A f \in Files : older[f] <= newer[f],
           Whole(k, c, n, older)
    PROVE  Whole(k, c, n, newer)
<1> SUFFICES ASSUME NEW i \in 1 .. n, Stands(c, n, i)
             PROVE  Fits(k[KeyAt(c, i)], c.entries[i].files, newer)
  BY DEF Whole
<1>1. c.entries[i] \in Entries
  OBVIOUS
<1>2. Fits(k[KeyAt(c, i)], c.entries[i].files, older)
  BY DEF Whole
<1> QED BY <1>1, <1>2, FitsGrows DEF Entries

(* Insert takes the registries of n entries to those of n + 1. *)
LEMMA InsertWhole ==
    ASSUME NEW c, c.entries \in Seq(Entries), NEW n \in Nat, n < Len(c.entries), NEW parts, NEW files,
           Whole(keys, c, n, files), Fits(parts, c.entries[n + 1].files, files)
    PROVE  Whole(Connector!Insert(c.entries[n + 1], parts), c, n + 1, files)
<1> DEFINE K == Connector!Insert(c.entries[n + 1], parts)
<1>1. IsFunction(K) /\ DOMAIN K = {KeyAt(c, i) : i \in 1 .. n} \cup {KeyAt(c, n + 1)}
  BY DEF IsFunction, Whole, Connector!Insert, KeyAt
<1>2. {KeyAt(c, i) : i \in 1 .. n} \cup {KeyAt(c, n + 1)} = {KeyAt(c, i) : i \in 1 .. (n + 1)}
  OBVIOUS
<1>3. ASSUME NEW i \in 1 .. (n + 1), Stands(c, n + 1, i)
      PROVE  Fits(K[KeyAt(c, i)], c.entries[i].files, files)
  <2>1. CASE i = n + 1
    BY <2>1 DEF Connector!Insert, KeyAt
  <2>2. CASE i \in 1 .. n
    <3>1. Stands(c, n, i) /\ KeyAt(c, i) # KeyAt(c, n + 1)
      BY <1>3, <2>2 DEF Stands
    <3>2. K[KeyAt(c, i)] = keys[KeyAt(c, i)]
      BY <2>2, <3>1 DEF Connector!Insert, Whole, KeyAt
    <3> QED BY <2>2, <3>1, <3>2 DEF Whole
  <2> QED BY <2>1, <2>2
<1> HIDE DEF K
<1>4. Whole(K, c, n + 1, files)
  BY <1>1, <1>2, <1>3 DEF Whole
<1> QED BY <1>4 DEF K

LEMMA InsertFresh ==
    ASSUME NEW c, c.entries \in Seq(Entries), NEW n \in Nat, n < Len(c.entries), NEW parts, NEW files,
           DOMAIN keys = {KeyAt(c, i) : i \in 1 .. n},
           Fresh(keys, c, n, files), parts = OnDisk(c.entries[n + 1].files, files)
    PROVE  Fresh(Connector!Insert(c.entries[n + 1], parts), c, n + 1, files)
<1> DEFINE K == Connector!Insert(c.entries[n + 1], parts)
<1> SUFFICES ASSUME NEW i \in 1 .. (n + 1), Stands(c, n + 1, i)
             PROVE  K[KeyAt(c, i)] = OnDisk(c.entries[i].files, files)
  BY DEF Fresh
<1>1. CASE i = n + 1
  BY <1>1 DEF Connector!Insert, KeyAt
<1>2. CASE i \in 1 .. n
  <2>1. Stands(c, n, i) /\ KeyAt(c, i) # KeyAt(c, n + 1)
    BY <1>2 DEF Stands
  <2>2. K[KeyAt(c, i)] = keys[KeyAt(c, i)]
    BY <1>2, <2>1 DEF Connector!Insert, KeyAt
  <2> QED BY <1>2, <2>1, <2>2 DEF Fresh
<1> QED BY <1>1, <1>2

(* A registry of no entries. *)
LEMMA NoKeysWhole == \A c, files : Whole(Connector!NoKeys, c, 0, files) /\ Fresh(Connector!NoKeys, c, 0, files)
<1>1. \A c : {KeyAt(c, i) : i \in 1 .. 0} = {}
  OBVIOUS
<1> QED BY <1>1 DEF Whole, Fresh, IsFunction, Connector!NoKeys

LEMMA ReadGrows ==
    ASSUME generation \in [Files -> Nat], generation' \in [Files -> Nat],
           \A f \in Files : generation[f] <= generation'[f],
           UNCHANGED <<explicit, Connector!reader>>, Read
    PROVE  Read'
<1>1. /\ explicit' = explicit /\ loading' = loading /\ unread' = unread
      /\ partial' = partial /\ keys' = keys /\ Done' = Done
  BY DEF Connector!reader, Done
<1>2. loading.entries \in Seq(Entries)
  BY EntriesOf DEF Read
<1>3. Done \in 0 .. Len(loading.entries)
  BY <1>2 DEF Read, Done
<1>4. Whole(keys, loading, Done, generation')
  BY <1>2, <1>3, WholeGrows DEF Read
<1>5. ASSUME unread # <<>>, NEW p \in 1 .. Len(partial)
      PROVE  partial[p] \in 1 .. generation'[Head(unread).files[p]]
  <2>1. Head(unread) \in Entries
    BY <1>5 DEF Read
  <2>2. Head(unread).files \in Seq(Files)
    BY <2>1 DEF Entries
  <2>3. partial[p] \in 1 .. generation[Head(unread).files[p]] /\ Len(partial) < Len(Head(unread).files)
    BY <1>5 DEF Read
  <2>4. Len(partial) \in Nat
    BY DEF Read
  <2>5. Head(unread).files[p] \in Files
    BY <2>2, <2>3, <2>4
  <2> QED BY <2>3, <2>5
<1> QED BY <1>1, <1>4, <1>5 DEF Read

LEMMA LiveGrows ==
    ASSUME generation \in [Files -> Nat], generation' \in [Files -> Nat],
           \A f \in Files : generation[f] <= generation'[f],
           UNCHANGED <<explicit, live>>, Connector!Serving' => Connector!Serving, LiveWhole
    PROVE  LiveWhole'
<1> SUFFICES ASSUME Connector!Serving'
             PROVE  \E c \in Choices(explicit) :
                        live.realm_id = c.realm_id /\ Whole(live.keys, c, Len(c.entries), generation')
  BY DEF LiveWhole
<1>1. PICK c \in Choices(explicit) :
          live.realm_id = c.realm_id /\ Whole(live.keys, c, Len(c.entries), generation)
  BY DEF LiveWhole
<1>2. c.entries \in Seq(Entries)
  BY EntriesOf
<1>3. Whole(live.keys, c, Len(c.entries), generation')
  BY <1>1, <1>2, WholeGrows
<1> QED BY <1>1, <1>3

LEMMA ConnectorInit == Connector!Init => ConnectorInv
BY DEF Connector!Init, ConnectorInv, ConnectorTypes, LiveWhole, Connector!Serving, ConnectorSettled

(* What an operator does unsettles the connector or leaves it a signal. *)
LEMMA ConnectorOperator == ASSUME ConnectorInv, Connector!Operator PROVE ConnectorInv'
<1> USE DEF ConnectorInv, ConnectorTypes, ConnectorSettled
<1>1. ASSUME NEW how \in {"missing", "malformed"}, Connector!BeginEdit(how) PROVE ConnectorInv'
  BY <1>1, ReadGrows, LiveGrows DEF Connector!BeginEdit, Connector!Serving
<1>2. CASE Connector!FinishEdit
  BY <1>2, ReadGrows, LiveGrows DEF Connector!FinishEdit, Connector!Serving
<1>3. ASSUME NEW f \in Files, Connector!RenewFile(f) PROVE ConnectorInv'
  <2>1. /\ generation' \in [Files -> Nat]
        /\ \A g \in Files : generation[g] <= generation'[g]
    BY <1>3 DEF Connector!RenewFile
  <2> QED BY <1>3, <2>1, ReadGrows, LiveGrows DEF Connector!RenewFile, Connector!Serving
<1>4. CASE Connector!Hangup
  <2>1. UNCHANGED <<explicit, toml, editing, generation, Connector!reader, live, hooked>>
    BY <1>4 DEF Connector!Hangup, Connector!disk
  <2> QED BY <1>4, <2>1, ReadGrows, LiveGrows DEF Connector!Hangup, Connector!Serving
<1> QED BY <1>1, <1>2, <1>3, <1>4 DEF Connector!Operator

LEMMA ConnectorLoad == ASSUME ConnectorInv, Connector!Load PROVE ConnectorInv'
<1> USE DEF ConnectorInv, ConnectorTypes, ConnectorSettled
<1>1. UNCHANGED <<explicit, toml, editing, generation, settled, pending, hooked, live>> /\ loop = "loading"
  BY DEF Connector!Load, Connector!disk
<1>2. CASE loop' = "reading"
  <2>1. /\ editing = "no" \/ ~explicit
        /\ loading' = IF editing = "no" THEN toml ELSE Connector!Default
        /\ unread' = loading'.entries /\ partial' = <<>> /\ keys' = Connector!NoKeys
    BY <1>2 DEF Connector!Load, Connector!LoadsDefaults, Connector!Failed
  <2>2. loading' \in Choices(explicit)
    BY <2>1 DEF Choices
  <2>3. loading'.entries \in Seq(Entries)
    BY <2>2, EntriesOf
  <2>4. Done' = 0
    BY <2>1, <2>3 DEF Done
  <2>5. unread' # <<>> => Head(unread') \in Entries
    BY <2>1, <2>3
  <2>6. Read'
    BY <1>1, <2>1, <2>2, <2>3, <2>4, <2>5, NoKeysWhole DEF Read, Entries
  <2>7. (settled /\ ~pending /\ editing = "no" => ReadFresh)'
    BY <1>1, <2>1, <2>4, NoKeysWhole DEF ReadFresh
  <2> QED BY <1>1, <1>2, <2>6, <2>7, LiveGrows DEF Connector!Serving
<1>3. CASE loop' # "reading"
  <2>1. editing # "no" /\ loop' = Connector!Failed
    BY <1>3 DEF Connector!Load
  <2> QED BY <1>1, <2>1, LiveGrows DEF Connector!Serving, Connector!Failed
<1> QED BY <1>2, <1>3

(* A file that is read adds to the entry it belongs to, or completes it. *)
LEMMA ConnectorRead == ASSUME ConnectorInv, Connector!ReadFile PROVE ConnectorInv'
<1> USE DEF ConnectorInv, ConnectorTypes, ConnectorSettled
<1> DEFINE entry == Head(unread)
           file == entry.files[Len(partial) + 1]
           parts == Append(partial, generation[file])
<1>1. /\ UNCHANGED <<explicit, toml, editing, generation, settled, pending, hooked, live, loading>>
      /\ loop = "reading" /\ unread # <<>> /\ Read
  BY DEF Connector!ReadFile, Connector!disk
<1>2. loading.entries \in Seq(Entries)
  BY <1>1, EntriesOf DEF Read
<1>3. /\ entry = loading.entries[Done + 1] /\ entry \in Entries /\ Tail(unread) \in Seq(Entries)
      /\ Done \in Nat /\ Done < Len(loading.entries)
  <2>1. /\ unread \in Seq(Entries) /\ Len(unread) <= Len(loading.entries)
        /\ \A i \in 1 .. Len(unread) : unread[i] = loading.entries[Done + i]
    BY <1>1 DEF Read
  <2>2. Len(unread) \in Nat \ {0} /\ entry = unread[1] /\ entry \in Entries /\ Tail(unread) \in Seq(Entries)
    BY <1>1, <2>1
  <2> QED BY <1>2, <2>1, <2>2 DEF Done
<1>4. entry.files \in Seq(Files) /\ partial \in Seq(Nat) /\ Len(partial) < Len(entry.files)
  BY <1>1, <1>3 DEF Read, Entries
<1>5. file \in Files /\ generation[file] \in Nat
  BY <1>4
<1>6. parts \in Seq(Nat) /\ Len(parts) = Len(partial) + 1 /\ Connector!Last(parts) = generation[file]
  BY <1>4, <1>5 DEF Connector!Last
<1>7. ASSUME generation[file] # 0, NEW p \in 1 .. Len(parts) PROVE parts[p] \in 1 .. generation[entry.files[p]]
  BY <1>1, <1>4, <1>5, <1>6, <1>7 DEF Read
<1>8. ASSUME ReadFresh, NEW p \in 1 .. Len(parts) PROVE parts[p] = generation[entry.files[p]]
  BY <1>1, <1>4, <1>5, <1>6, <1>8 DEF ReadFresh
<1> HIDE DEF entry, file, parts
<1>9. CASE generation[file] = 0
  <2>1. loop' = Connector!Failed
    BY <1>6, <1>9 DEF Connector!ReadFile, entry, file, parts
  <2>2. loading = toml => ~Connector!Readable
    <3>1. entry = loading.entries[Done + 1] /\ Done + 1 \in DOMAIN loading.entries
      BY <1>2, <1>3
    <3>2. file \in Connector!ToSet(entry.files)
      BY <1>4 DEF Connector!ToSet, file
    <3> QED BY <1>9, <3>1, <3>2 DEF Connector!Readable
  <2>3. ReadFresh => ~Connector!Readable'
    BY <1>1, <2>2 DEF ReadFresh, Connector!Readable
  <2> QED BY <1>1, <2>1, <2>3, LiveGrows DEF Connector!Serving, Connector!Failed
<1>10. CASE generation[file] # 0 /\ Len(parts) < Len(entry.files)
  <2>1. partial' = parts /\ UNCHANGED <<loop, keys, unread>>
    BY <1>6, <1>10 DEF Connector!ReadFile, entry, file, parts
  <2>2. Done' = Done
    BY <1>1, <2>1 DEF Done
  <2>3. Read'
    BY <1>1, <1>6, <1>7, <1>10, <2>1, <2>2 DEF Read, entry
  <2>4. ReadFresh => ReadFresh'
    BY <1>1, <1>8, <2>1, <2>2 DEF ReadFresh, entry
  <2> QED BY <1>1, <2>1, <2>3, <2>4, LiveGrows DEF Connector!Serving
<1>11. CASE generation[file] # 0 /\ Len(parts) = Len(entry.files)
  <2>1. /\ partial' = <<>> /\ unread' = Tail(unread) /\ loop' = loop
        /\ keys' = Connector!Insert(entry, parts)
    BY <1>6, <1>11 DEF Connector!ReadFile, entry, file, parts
  <2>2. Done' = Done + 1
    BY <1>1, <1>2, <2>1 DEF Done, Read
  <2>3. Fits(parts, entry.files, generation)
    BY <1>4, <1>6, <1>7, <1>11 DEF Fits
  <2>4. Whole(keys', loading, Done + 1, generation)
    BY <1>1, <1>2, <1>3, <2>1, <2>3, InsertWhole DEF Read
  <2>5. unread' # <<>> => Head(unread') \in Entries
    BY <1>3, <2>1
  <2>6. Read'
    <3>1. /\ unread \in Seq(Entries) /\ unread # <<>> /\ Len(unread) <= Len(loading.entries)
          /\ \A i \in 1 .. Len(unread) : unread[i] = loading.entries[Done + i]
      BY <1>1 DEF Read
    <3>2. /\ Tail(unread) \in Seq(Entries) /\ Len(Tail(unread)) = Len(unread) - 1
          /\ \A i \in 1 .. Len(Tail(unread)) : Tail(unread)[i] = unread[i + 1]
      BY <3>1
    <3>3. \A i \in 1 .. Len(Tail(unread)) : Tail(unread)[i] = loading.entries[Done + 1 + i]
      BY <1>3, <3>1, <3>2
    <3>4. unread' # <<>> => Len(partial') < Len(Head(unread').files) /\ \A p \in 1 .. Len(partial') : FALSE
      BY <2>1, <2>5 DEF Entries
    <3>5. partial' \in Seq(Nat) /\ loading' \in Choices(explicit')
      BY <1>1, <2>1 DEF Read
    <3>6. Len(Tail(unread)) <= Len(loading.entries)
      BY <1>2, <3>1, <3>2
    <3> QED BY <1>1, <2>1, <2>2, <2>4, <3>2, <3>3, <3>4, <3>5, <3>6 DEF Read
  <2>7. ASSUME ReadFresh PROVE ReadFresh'
    <3>1. parts = OnDisk(entry.files, generation)
      <4>1. parts \in [1 .. Len(entry.files) -> Nat] /\ DOMAIN entry.files = 1 .. Len(entry.files)
        BY <1>4, <1>6, <1>11, LenProperties
      <4>2. \A p \in 1 .. Len(entry.files) : parts[p] = generation[entry.files[p]]
        BY <1>8, <1>11, <2>7
      <4> QED BY <4>1, <4>2 DEF OnDisk
    <3>2. Fresh(keys, loading, Done, generation) /\ DOMAIN keys = {KeyAt(loading, i) : i \in 1 .. Done}
      BY <1>1, <2>7 DEF Read, ReadFresh, Whole
    <3>3. Fresh(Connector!Insert(loading.entries[Done + 1], parts), loading, Done + 1, generation)
      BY <1>2, <1>3, <3>1, <3>2, InsertFresh
    <3>4. Fresh(keys', loading, Done + 1, generation)
      BY <1>3, <2>1, <3>3
    <3> QED BY <1>1, <2>1, <2>2, <2>7, <3>4 DEF ReadFresh
  <2> QED BY <1>1, <2>1, <2>6, <2>7, LiveGrows DEF Connector!Serving
<1>12. Len(parts) <= Len(entry.files)
  BY <1>4, <1>6
<1> QED BY <1>4, <1>6, <1>9, <1>10, <1>11, <1>12

(* What is swapped in is what was read, all of it. *)
LEMMA ConnectorSwaps ==
    ASSUME ConnectorInv, loop = "reading", unread = <<>>, live' = Connector!Runtime,
           UNCHANGED <<explicit, toml, generation>>
    PROVE  /\ LiveWhole'
           /\ ReadFresh => LiveFresh'
<1>1. Read /\ loading.entries \in Seq(Entries)
  BY EntriesOf DEF ConnectorInv, Read
<1>2. Done = Len(loading.entries)
  BY <1>1 DEF Done
<1>3. live'.realm_id = loading.realm_id /\ live'.keys = keys
  BY DEF Connector!Runtime
<1>4. Whole(live'.keys, loading, Len(loading.entries), generation)
  BY <1>1, <1>2, <1>3 DEF Read
<1>5. LiveWhole'
  BY <1>1, <1>3, <1>4 DEF LiveWhole, Read
<1>6. ReadFresh => LiveFresh'
  BY <1>2, <1>3, <1>4 DEF ReadFresh, LiveFresh, Connector!Runtime
<1> QED BY <1>5, <1>6

LEMMA ConnectorServes == ASSUME ConnectorInv, Connector!Serve PROVE ConnectorInv'
<1> USE DEF ConnectorInv, ConnectorTypes, ConnectorSettled
<1>1. CASE Connector!Boot
  BY <1>1 DEF Connector!Boot, Connector!disk, LiveWhole, Connector!Serving
<1>2. CASE Connector!Notified
  BY <1>2, LiveGrows DEF Connector!Notified, Connector!disk, Connector!Serving
<1>3. CASE Connector!Start
  <2>1. LiveWhole' /\ (ReadFresh => LiveFresh')
    BY <1>3, ConnectorSwaps DEF Connector!Start, Connector!disk
  <2> QED BY <1>3, <2>1 DEF Connector!Start, Connector!disk, Connector!reader
<1>4. CASE Connector!InstallHandler
  BY <1>4, LiveGrows DEF Connector!InstallHandler, Connector!disk, Connector!Serving, LiveFresh
<1>5. CASE Connector!Swap
  <2>1. LiveWhole' /\ (ReadFresh => LiveFresh')
    BY <1>5, ConnectorSwaps DEF Connector!Swap, Connector!disk
  <2> QED BY <1>5, <2>1 DEF Connector!Swap, Connector!disk, Connector!reader
<1> QED BY <1>1, <1>2, <1>3, <1>4, <1>5, ConnectorLoad, ConnectorRead DEF Connector!Serve

LEMMA ConnectorStep == ASSUME ConnectorInv, [Connector!Next]_Connector!vars PROVE ConnectorInv'
<1>1. CASE Connector!Crash
  BY <1>1 DEF Connector!Crash, Connector!disk, ConnectorInv, ConnectorTypes, ConnectorSettled,
              LiveWhole, Connector!Serving
<1>2. CASE UNCHANGED Connector!vars
  <2>1. UNCHANGED <<explicit, toml, editing, generation, settled, pending, loop, hooked,
                    loading, unread, partial, keys, live>>
    BY <1>2 DEF Connector!vars, Connector!disk, Connector!reader
  <2> QED BY <2>1 DEF ConnectorInv, ConnectorTypes, ConnectorSettled, LiveWhole, LiveFresh, ReadFresh, Read,
              Done, Connector!Serving, Connector!Readable
<1> QED BY <1>1, <1>2, ConnectorOperator, ConnectorServes DEF Connector!Next

(* Fresh registries of every entry are KeysOf. *)
LEMMA FreshIsKeysOf ==
    ASSUME NEW k, NEW c, c.entries \in Seq(Entries), NEW files,
           Whole(k, c, Len(c.entries), files), Fresh(k, c, Len(c.entries), files)
    PROVE  k = Connector!KeysOf(c, files)
<1>1. DOMAIN k = DOMAIN Connector!KeysOf(c, files)
  BY KeysOfDomain DEF Whole
<1>2. ASSUME NEW key \in DOMAIN k PROVE k[key] = Connector!KeysOf(c, files)[key]
  <2>0. Len(c.entries) \in Nat
    OBVIOUS
  <2>1. PICK i \in 1 .. Len(c.entries) : key = KeyAt(c, i)
    BY DEF Whole
  <2>2. PICK j \in 1 .. Len(c.entries) : KeyAt(c, j) = key /\ Stands(c, Len(c.entries), j)
    BY <2>0, <2>1, SomeStands
  <2> QED BY <2>2, KeysOfStands DEF Fresh
<1>3. IsFunction(k) /\ IsFunction(Connector!KeysOf(c, files))
  BY DEF Whole, IsFunction, Connector!KeysOf
<1> QED BY <1>1, <1>2, <1>3 DEF IsFunction

LEMMA ConnectorMeans == ConnectorInv => Connector!SettledKeysAreLive /\ Connector!WholeConfigurations
<1> SUFFICES ASSUME ConnectorInv PROVE Connector!SettledKeysAreLive /\ Connector!WholeConfigurations
  OBVIOUS
<1>1. Connector!SettledKeysAreLive
  <2> SUFFICES ASSUME loop = "waiting", ~pending, settled, Connector!Readable
               PROVE  live = [realm_id |-> toml.realm_id, keys |-> Connector!KeysOf(toml, generation)]
    BY DEF Connector!SettledKeysAreLive
  <2>1. LiveFresh
    BY DEF ConnectorInv, ConnectorSettled, Connector!Readable
  <2>2. toml.entries \in Seq(Entries)
    BY EntriesOf DEF ConnectorInv, ConnectorTypes, Choices
  <2> QED BY <2>1, <2>2, FreshIsKeysOf DEF LiveFresh
<1>2. Connector!WholeConfigurations
  <2> SUFFICES ASSUME Connector!Serving
               PROVE  \E c \in Choices(explicit) :
                          /\ live.realm_id = c.realm_id
                          /\ DOMAIN live.keys = DOMAIN Connector!KeysOf(c, generation)
                          /\ \A key \in DOMAIN live.keys : \A part \in DOMAIN live.keys[key] :
                                 live.keys[key][part] \in 1 .. Connector!KeysOf(c, generation)[key][part]
    BY DEF Connector!WholeConfigurations, Choices
  <2>1. PICK c \in Choices(explicit) :
            live.realm_id = c.realm_id /\ Whole(live.keys, c, Len(c.entries), generation)
    BY DEF ConnectorInv, LiveWhole
  <2>2. c.entries \in Seq(Entries)
    BY EntriesOf
  <2>3. DOMAIN live.keys = DOMAIN Connector!KeysOf(c, generation)
    BY <2>1, <2>2, KeysOfDomain DEF Whole
  <2>4. ASSUME NEW key \in DOMAIN live.keys, NEW part \in DOMAIN live.keys[key]
        PROVE  live.keys[key][part] \in 1 .. Connector!KeysOf(c, generation)[key][part]
    <3>0. Len(c.entries) \in Nat
      BY <2>2
    <3>1. PICK i \in 1 .. Len(c.entries) : key = KeyAt(c, i)
      BY <2>1 DEF Whole
    <3>2. PICK j \in 1 .. Len(c.entries) : KeyAt(c, j) = key /\ Stands(c, Len(c.entries), j)
      BY <3>0, <3>1, SomeStands
    <3>3. Connector!KeysOf(c, generation)[key] = OnDisk(c.entries[j].files, generation)
      BY <2>2, <3>2, KeysOfStands
    <3>4. Fits(live.keys[key], c.entries[j].files, generation)
      BY <2>1, <3>2 DEF Whole
    <3> QED BY <3>3, <3>4 DEF OnDisk, Fits
  <2> QED BY <2>1, <2>3, <2>4
<1> QED BY <1>1, <1>2

----------------------------------------------------------------------------
(* The worker.  File, worker, API server and jobs stay in step through a rotation. *)

\* The tokens that jobs of a stage of the rotation may have been dispatched with.
TokensInUse == IF rotation = "switched" THEN {apiToken - 1, apiToken} ELSE {apiToken}

WorkerTypes ==
    /\ loop \in {"down", "loading", "starting", "waiting"}
    /\ loop = "starting" => ~hooked
    /\ apiToken \in Nat
    /\ job \in [Jobs -> Nat \cup {NoToken}]

TokenFile ==
    \/ rotation = "steady" /\ tokens = {apiToken}
    \/ rotation = "added" /\ tokens = {apiToken, apiToken + 1}
    \/ rotation = "switched" /\ tokens = {apiToken - 1, apiToken}

TokensAccepted == explicit /\ Worker!Serving => TokensInUse \subseteq accepted

JobTokens == \A j \in Jobs : job[j] \in TokensInUse \cup {NoToken}

WorkerSettled ==
    settled /\ editing = "no" =>
        /\ loop = "starting" => accepted = tokens
        /\ loop = "waiting" /\ ~pending => accepted = tokens

WorkerInv ==
    /\ WorkerTypes /\ TokenFile /\ TokensAccepted /\ JobTokens /\ WorkerSettled
    /\ Worker!RotationRefusesNoJob

LEMMA WorkerInit == Worker!Init => WorkerInv
BY DEF Worker!Init, WorkerInv, WorkerTypes, TokenFile, TokensAccepted, JobTokens, WorkerSettled,
       Worker!RotationRefusesNoJob, TokensInUse, Worker!Serving

(* The rotation names a token only when the worker has it, and drops one no job has. *)
LEMMA WorkerOperator ==
    ASSUME WorkerInv,
           \/ Worker!FinishEdit \/ Worker!Hangup
           \/ Worker!AddToken \/ Worker!SwitchApi \/ Worker!RemoveToken
           \/ \E how \in {"missing", "malformed"} : Worker!BeginEdit(how)
    PROVE  WorkerInv'
<1> USE DEF WorkerInv, WorkerTypes, TokenFile, TokensAccepted, JobTokens, WorkerSettled,
            Worker!RotationRefusesNoJob, TokensInUse, Worker!Serving, Worker!disk, Worker!calls
<1>1. ASSUME NEW how \in {"missing", "malformed"}, Worker!BeginEdit(how) PROVE WorkerInv'
  BY <1>1 DEF Worker!BeginEdit
<1>2. CASE Worker!FinishEdit
  BY <1>2 DEF Worker!FinishEdit
<1>3. CASE Worker!Hangup
  BY <1>3 DEF Worker!Hangup
<1>4. CASE Worker!AddToken
  BY <1>4 DEF Worker!AddToken, Worker!Rewrite
<1>5. CASE Worker!SwitchApi
  <2>1. /\ rotation = "added" /\ rotation' = "switched" /\ apiToken' = apiToken + 1
        /\ Worker!Serving /\ accepted = {apiToken, apiToken + 1}
        /\ UNCHANGED <<Worker!disk, settled, pending, loop, hooked, accepted, job, answer, crashes>>
    BY <1>5 DEF Worker!SwitchApi
  <2>2. apiToken' - 1 = apiToken
    BY <2>1
  <2> QED BY <2>1, <2>2
<1>6. CASE Worker!RemoveToken
  BY <1>6 DEF Worker!RemoveToken, Worker!Rewrite
<1> QED BY <1>1, <1>2, <1>3, <1>4, <1>5, <1>6

(* With -c every load that succeeds is of the list on disk. *)
LEMMA WorkerServes == ASSUME WorkerInv, Worker!Serve PROVE WorkerInv'
<1> USE DEF WorkerInv, WorkerTypes, TokenFile, TokensAccepted, JobTokens, WorkerSettled,
            Worker!RotationRefusesNoJob, TokensInUse, Worker!Serving, Worker!disk, Worker!calls
<1>1. CASE Worker!Boot
  BY <1>1 DEF Worker!Boot
<1>2. CASE Worker!Notified
  BY <1>2 DEF Worker!Notified
<1>3. CASE Worker!LoadFails
  BY <1>3 DEF Worker!LoadFails, Worker!Loads
<1>4. CASE Worker!Start
  BY <1>4 DEF Worker!Start, Worker!Loads, Worker!LoadsDefaults, Worker!Added, Worker!Loaded
<1>5. CASE Worker!InstallHandler
  BY <1>5 DEF Worker!InstallHandler
<1>6. CASE Worker!ReplaceTokens
  BY <1>6 DEF Worker!ReplaceTokens, Worker!Loads, Worker!LoadsDefaults, Worker!Loaded
<1> QED BY <1>1, <1>2, <1>3, <1>4, <1>5, <1>6 DEF Worker!Serve

LEMMA WorkerStep == ASSUME WorkerInv, [Worker!Next]_Worker!vars PROVE WorkerInv'
<1> USE DEF WorkerInv, WorkerTypes, TokenFile, TokensAccepted, JobTokens, WorkerSettled,
            Worker!RotationRefusesNoJob, TokensInUse, Worker!Serving, Worker!disk, Worker!calls
<1>1. CASE Worker!Crash
  BY <1>1 DEF Worker!Crash
<1>2. ASSUME NEW j \in Jobs, Worker!Dispatch(j) PROVE WorkerInv'
  BY <1>2 DEF Worker!Dispatch
<1>3. ASSUME NEW j \in Jobs, Worker!CallWorker(j) PROVE WorkerInv'
  <2>1. explicit => job[j] \in accepted
    BY <1>3 DEF Worker!CallWorker
  <2> QED BY <1>3, <2>1 DEF Worker!CallWorker
<1>4. CASE UNCHANGED Worker!vars
  BY <1>4 DEF Worker!vars
<1> QED BY <1>1, <1>2, <1>3, <1>4, WorkerOperator, WorkerServes DEF Worker!Next

----------------------------------------------------------------------------
(* The three together *)

ReloadsInv ==
    /\ server \in {"api", "connector", "worker"}
    /\ server = "api" => ApiInv
    /\ server = "connector" => ConnectorInv
    /\ server = "worker" => WorkerInv

LEMMA ReloadsStep == ASSUME ReloadsInv, [Next]_vars PROVE ReloadsInv'
<1>1. CASE Of("api") /\ Api!Next
  BY <1>1, ApiStep DEF ReloadsInv, Of
<1>2. CASE Of("connector") /\ Connector!Next
  BY <1>2, ConnectorStep DEF ReloadsInv, Of
<1>3. CASE Of("worker") /\ Worker!Next
  BY <1>3, WorkerStep DEF ReloadsInv, Of
<1>4. CASE UNCHANGED vars
  <2>1. UNCHANGED <<server, Api!vars, Connector!vars, Worker!vars>>
    BY <1>4 DEF vars
  <2> QED BY <2>1, ApiStep, ConnectorStep, WorkerStep DEF ReloadsInv
<1> QED BY <1>1, <1>2, <1>3, <1>4 DEF Next

(* Whichever server runs keeps to its invariant. *)
THEOREM Invariant == FairSpec => []ReloadsInv
<1>1. Init => ReloadsInv
  BY ApiInit, ConnectorInit, WorkerInit DEF Init, ReloadsInv
<1> QED BY <1>1, ReloadsStep, PTL DEF FairSpec

(* A SIGHUP sent after the last edit is not lost, however many merge into one and whatever *)
(* an earlier reload tore apart.                                                           *)
THEOREM SettledCurrent == FairSpec => []SettledMeansCurrent
<1>1. ReloadsInv => SettledMeansCurrent
  BY DEF ReloadsInv, ApiInv, ApiTypes, ApiSettled, Api!SettledMeansCurrent, SettledMeansCurrent
<1> QED BY <1>1, Invariant, PTL

(* Router and dispatch table differ only between their two writes. *)
THEOREM MixedOnlyBetweenWrites == FairSpec => []MixedOnlyWhileWriting
<1>1. ReloadsInv => MixedOnlyWhileWriting
  BY DEF ReloadsInv, ApiInv, ApiTypes, ApiAgree, Api!Serving, Api!MixedOnlyWhileWriting, MixedOnlyWhileWriting
<1> QED BY <1>1, Invariant, PTL

(* With -c no reload, and no restart, makes the built-in defaults live. *)
THEOREM NoFallBack == FairSpec => []NeverBackToDefaults
<1>1. ReloadsInv => NeverBackToDefaults
  BY DEF ReloadsInv, ApiInv, ApiTypes, ApiExplicit, Api!Serving, Api!NeverBackToDefaults, NeverBackToDefaults
<1> QED BY <1>1, Invariant, PTL

(* A connector that took the last SIGHUP has the keys on disk: two halves of a pair that an *)
(* earlier reload read of different generations do not outlive it.                          *)
THEOREM SettledKeys == FairSpec => []SettledKeysAreLive
<1>1. ReloadsInv => SettledKeysAreLive
  BY ConnectorMeans DEF ReloadsInv, SettledKeysAreLive
<1> QED BY <1>1, Invariant, PTL

(* The realm and registries of a connector are all of one configuration, whatever file a *)
(* reload failed at.                                                                     *)
THEOREM OneConfiguration == FairSpec => []WholeConfigurations
<1>1. ReloadsInv => WholeConfigurations
  BY ConnectorMeans DEF ReloadsInv, WholeConfigurations
<1> QED BY <1>1, Invariant, PTL

(* The order of the rotation refuses no job of a worker started with -c. *)
THEOREM NoJobRefused == FairSpec => []RotationRefusesNoJob
<1>1. ReloadsInv => RotationRefusesNoJob
  BY DEF ReloadsInv, WorkerInv, RotationRefusesNoJob
<1> QED BY <1>1, Invariant, PTL

(* No SIGHUP is lost: an idle worker that was told of the last edit accepts the list on disk. *)
THEOREM SettledTokens == FairSpec => []SettledTokensAreLive
<1>1. ReloadsInv => SettledTokensAreLive
  BY DEF ReloadsInv, WorkerInv, WorkerSettled, Worker!SettledTokensAreLive, SettledTokensAreLive
<1> QED BY <1>1, Invariant, PTL
=============================================================================
