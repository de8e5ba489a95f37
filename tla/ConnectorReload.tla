--------------------------- MODULE ConnectorReload ---------------------------
(***************************************************************************)
(* Configuration of a running connector (serve and build_runtime of        *)
(* bins/philharmonic-connector/src/main.rs).  On start and on SIGHUP it    *)
(* loads connector.toml, reads the key files that names one after the      *)
(* other, and swaps realm and registries at once, while an operator edits  *)
(* the file and renews key files in place.  A realm key is one combined    *)
(* file or a pair of files, an ML-KEM and an X25519 one.                   *)
(* A key file is its generation, 0 while it is missing or unreadable.      *)
(***************************************************************************)
EXTENDS Naturals, Sequences, SequencesExt

CONSTANTS Configs,         \* [realm_id, entries : Seq([registry, kid, files])]
          Files,           \* the key files they name
          MaxGeneration,   \* bound: generations of a key file
          MaxEdit,         \* bound: edits of connector.toml
          MaxCrash         \* bound: ends of the process

VARIABLES explicit,   \* the connector is started with -c
          toml,       \* what connector.toml says
          editing,    \* "no", or how a reader finds it: "missing" or "malformed"
          generation, \* of each key file
          settled,    \* nothing was edited since the last SIGHUP or start
          edits,
          pending,    \* a SIGHUP that `notified` has not returned for
          loop,       \* where `serve` is
          hooked,     \* the SIGHUP handler is installed
          loading,    \* the configuration whose key files are being read
          unread,     \* its entries that are still to be read
          partial,    \* what was read of the first of them
          keys,       \* the registries read so far, by registry and kid
          live,       \* RuntimeState
          crashes

disk == <<explicit, toml, editing, generation, edits>>
reader == <<loading, unread, partial, keys>>
vars == <<disk, settled, pending, loop, hooked, reader, live, crashes>>

Default == [realm_id |-> "default", entries |-> <<>>]

NoKeys == [key \in {} |-> <<>>]

----------------------------------------------------------------------------
(* The operator *)

BeginEdit(how) ==
    /\ editing = "no"
    /\ edits < MaxEdit
    /\ edits' = edits + 1
    /\ editing' = how
    /\ settled' = FALSE
    /\ UNCHANGED <<explicit, toml, generation, pending, loop, hooked, reader, live, crashes>>

FinishEdit ==
    /\ editing # "no"
    /\ editing' = "no"
    /\ toml' \in Configs
    /\ settled' = FALSE
    /\ UNCHANGED <<explicit, generation, edits, pending, loop, hooked, reader, live, crashes>>

\* A file is renewed, or, the first time, installed.
RenewFile(file) ==
    /\ generation[file] < MaxGeneration
    /\ generation' = [generation EXCEPT ![file] = @ + 1]
    /\ settled' = FALSE
    /\ UNCHANGED <<explicit, toml, editing, edits, pending, loop, hooked, reader, live, crashes>>

\* Before ReloadHandle::new a SIGHUP ends the process; afterwards several are one.
Hangup ==
    /\ loop # "down"
    /\ settled' = TRUE
    /\ IF hooked
         THEN pending' = TRUE /\ UNCHANGED loop
         ELSE loop' = "down" /\ UNCHANGED pending
    /\ UNCHANGED <<disk, hooked, reader, live, crashes>>

----------------------------------------------------------------------------
(* serve *)

Boot ==
    /\ loop = "down"
    /\ editing = "no"
    /\ loop' = "loading"
    /\ settled' = TRUE
    /\ pending' = FALSE
    /\ hooked' = FALSE
    /\ UNCHANGED <<disk, reader, live, crashes>>

Crash ==
    /\ loop # "down"
    /\ crashes < MaxCrash
    /\ crashes' = crashes + 1
    /\ loop' = "down"
    /\ UNCHANGED <<disk, settled, pending, hooked, reader, live>>

Notified ==
    /\ loop = "waiting"
    /\ pending
    /\ pending' = FALSE
    /\ loop' = "loading"
    /\ UNCHANGED <<disk, settled, hooked, reader, live, crashes>>

\* Where an error leads: a reload is given up, a start is the end of the process.
Failed == IF hooked THEN "waiting" ELSE "down"

\* Without -c a missing file is read as the defaults.
LoadsDefaults == editing = "missing" /\ ~explicit

Load ==
    /\ loop = "loading"
    /\ \/ /\ editing = "no" \/ LoadsDefaults
          /\ loading' = IF editing = "no" THEN toml ELSE Default
          /\ unread' = loading'.entries
          /\ partial' = <<>>
          /\ keys' = NoKeys
          /\ loop' = "reading"
       \/ /\ editing # "no" /\ ~LoadsDefaults
          /\ loop' = Failed
          /\ UNCHANGED reader
    /\ UNCHANGED <<disk, settled, pending, hooked, live, crashes>>

RegistryKey(entry) == <<entry.registry, entry.kid>>

\* Of two entries with one kid the later stands.
Insert(entry, parts) ==
    [key \in DOMAIN keys \cup {RegistryKey(entry)} |->
        IF key = RegistryKey(entry) THEN parts ELSE keys[key]]

\* Mutant: an entry whose file cannot be read is left out.
ReadFileLeniently ==
    /\ loop = "reading"
    /\ unread # <<>>
    /\ LET entry == Head(unread)
           parts == Append(partial, generation[entry.files[Len(partial) + 1]])
       IN  \/ /\ Len(parts) < Len(entry.files) /\ Last(parts) # 0
              /\ partial' = parts
              /\ UNCHANGED <<keys, unread>>
           \/ /\ Len(parts) = Len(entry.files) \/ Last(parts) = 0
              /\ keys' = IF Last(parts) = 0 THEN keys ELSE Insert(entry, parts)
              /\ unread' = Tail(unread)
              /\ partial' = <<>>
    /\ UNCHANGED <<disk, settled, pending, loop, hooked, loading, live, crashes>>

ReadFile ==
    /\ loop = "reading"
    /\ unread # <<>>
    /\ LET entry == Head(unread)
           parts == Append(partial, generation[entry.files[Len(partial) + 1]])
       IN  \/ /\ Last(parts) = 0
              /\ loop' = Failed
              /\ UNCHANGED <<keys, unread, partial>>
           \/ /\ Last(parts) # 0 /\ Len(parts) < Len(entry.files)
              /\ partial' = parts
              /\ UNCHANGED <<loop, keys, unread>>
           \/ /\ Last(parts) # 0 /\ Len(parts) = Len(entry.files)
              /\ keys' = Insert(entry, parts)
              /\ unread' = Tail(unread)
              /\ partial' = <<>>
              /\ UNCHANGED loop
    /\ UNCHANGED <<disk, settled, pending, hooked, loading, live, crashes>>

Runtime == [realm_id |-> loading.realm_id, keys |-> keys]

\* A listener or the TLS files may fail; HTTP/3 without TLS always does.
Start ==
    /\ loop = "reading"
    /\ unread = <<>>
    /\ ~hooked
    /\ live' = Runtime
    /\ loop' \in {"starting", "down"}
    /\ UNCHANGED <<disk, settled, pending, hooked, reader, crashes>>

InstallHandler ==
    /\ loop = "starting"
    /\ loop' = "waiting"
    /\ hooked' = TRUE
    /\ UNCHANGED <<disk, settled, pending, reader, live, crashes>>

\* Mutant: a SIGHUP that came while the keys were read is taken for served.
SwapServed ==
    /\ loop = "reading"
    /\ unread = <<>>
    /\ hooked
    /\ live' = Runtime
    /\ loop' = "waiting"
    /\ pending' = FALSE
    /\ UNCHANGED <<disk, settled, hooked, reader, crashes>>

Swap ==
    /\ loop = "reading"
    /\ unread = <<>>
    /\ hooked
    /\ live' = Runtime
    /\ loop' = "waiting"
    /\ UNCHANGED <<disk, settled, pending, hooked, reader, crashes>>

----------------------------------------------------------------------------
Init ==
    /\ explicit \in BOOLEAN
    /\ toml \in Configs
    /\ editing = "no"
    /\ generation \in [Files -> {0, 1}]
    /\ settled = TRUE
    /\ edits = 0
    /\ pending = FALSE
    /\ loop = "down"
    /\ hooked = FALSE
    /\ loading = Default
    /\ unread = <<>>
    /\ partial = <<>>
    /\ keys = NoKeys
    /\ live = [realm_id |-> Default.realm_id, keys |-> NoKeys]
    /\ crashes = 0

Operator ==
    \/ \E how \in {"missing", "malformed"} : BeginEdit(how)
    \/ FinishEdit
    \/ \E file \in Files : RenewFile(file)
    \/ Hangup

Serve == Boot \/ Notified \/ Load \/ ReadFile \/ Start \/ InstallHandler \/ Swap

Next == Operator \/ Serve \/ Crash

Spec == Init /\ [][Next]_vars

----------------------------------------------------------------------------
\* The registries a configuration stands for, read from given files.
KeysOf(c, files) ==
    [key \in {RegistryKey(c.entries[i]) : i \in DOMAIN c.entries} |->
        LET last == SelectLastInSeq(c.entries, LAMBDA e : RegistryKey(e) = key)
        IN  [part \in DOMAIN c.entries[last].files |-> files[c.entries[last].files[part]]]]

Serving == loop # "down" /\ (hooked \/ loop = "starting")

Readable == editing = "no"
         /\ \A i \in DOMAIN toml.entries : \A f \in ToSet(toml.entries[i].files) : generation[f] > 0

\* A realm key pair that a reload read in two halves of different generations is
\* repaired by the SIGHUP of the operator who finished it, and no SIGHUP is lost:
\* once the loop is idle again the connector runs what is on disk.
SettledKeysAreLive ==
    loop = "waiting" /\ ~pending /\ settled /\ Readable =>
        live = [realm_id |-> toml.realm_id, keys |-> KeysOf(toml, generation)]

\* A connector serves the realm and every key of one configuration or, without -c,
\* the keyless default: a reload that fails at any file leaves nothing of itself.
WholeConfigurations ==
    Serving =>
        \E c \in Configs \cup (IF explicit THEN {} ELSE {Default}) :
            /\ live.realm_id = c.realm_id
            /\ DOMAIN live.keys = DOMAIN KeysOf(c, generation)
            /\ \A key \in DOMAIN live.keys :
                   \A part \in DOMAIN live.keys[key] :
                       live.keys[key][part] \in 1 .. KeysOf(c, generation)[key][part]
=============================================================================
