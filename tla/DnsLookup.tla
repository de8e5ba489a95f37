----------------------------- MODULE DnsLookup ------------------------------
(***************************************************************************)
(* The resolver the runtime crates share (mechanics-dns/src/lib.rs): how   *)
(* it is built from the host's configuration and what each lookup makes of *)
(* what the name servers say, while the zone changes under it.             *)
(* The hickory resolver is external: it asks a name server, or its cache,  *)
(* and answers with records, with "no records" and a response code, or     *)
(* with a failure.                                                         *)
(***************************************************************************)
EXTENDS Naturals, Sequences

CONSTANTS MaxChange   \* bound: changes of the zone

VARIABLES resolvConf,  \* what reading /etc/resolv.conf gives
          resolver,    \* the servers a built resolver asks, or "none"; "error" when refused
          cacheSize,   \* ResolverOpts::cache_size
          cached,      \* the answers hickory holds, by record type
          zone,        \* what the name servers know of the host
          changes,
          call,        \* the pending call, or Idle
          seen,        \* the zones there were while the call was pending
          result       \* of the last call

config == <<resolvConf, resolver, cacheSize>>
vars == <<config, cached, zone, changes, call, seen, result>>

Types == {"A", "AAAA", "HTTPS"}

\* A record with its data as a set: an address, an alias, or the parameters of a service.
Record(type, data) == [type |-> type, data |-> data]

Zones ==
    {[exists |-> FALSE, records |-> {}],
     [exists |-> TRUE, records |-> {}],
     [exists |-> TRUE, records |-> {Record("A", {"v4"}), Record("AAAA", {"v6"})}],
     [exists |-> TRUE, records |-> {Record("CNAME", {"alias"}), Record("A", {"moved"}),
                                    Record("HTTPS", {"alpn h3", "port 8443", "ech"})}]}

NoRecords(code) == [kind |-> "no records", code |-> code, records |-> {}]
Failure(code) == [kind |-> "failure", code |-> code, records |-> {}]

\* One answer of the servers: an alias is followed, and alone it is no record.
Answer(z, type) ==
    IF ~z.exists THEN NoRecords("NXDomain")
    ELSE IF {r \in z.records : r.type = type} = {} THEN NoRecords("NoError")
    ELSE [kind |-> "records", code |-> "NoError",
          records |-> {r \in z.records : r.type \in {type, "CNAME"}}]

\* "Refused" comes with a response code, "timeout" with none.
Failures == {Failure("Refused"), Failure("none")}

Idle == [op |-> "idle", host |-> "name", type |-> "none"]
Nothing == [kind |-> "none", code |-> "none", records |-> {}]

----------------------------------------------------------------------------
(* Building the resolver *)

\* Mutant: hickory's default of 32 answers is left alone.
NormaliseOptionsKeepCache == cacheSize' = 32

\* normalise_options; servers are asked in the order they are given.
NormaliseOptions == cacheSize' = 0

MissingSystemResolverConfig == resolvConf = "NotFound"

\* hickory may fail to build a resolver of options that were normalised, for want of sockets
\* or certificates.
BuildResolver(servers) == NormaliseOptions /\ resolver' \in {servers, "error"}

New ==
    /\ resolver = "none"
    /\ CASE resolvConf = "servers" -> BuildResolver("system")
         [] MissingSystemResolverConfig -> BuildResolver("cloudflare")
         [] OTHER -> resolver' = "error" /\ UNCHANGED cacheSize
    /\ UNCHANGED <<resolvConf, cached, zone, changes, call, seen, result>>

\* A client that was refused a resolver tries again, perhaps after a repair, with a builder
\* that has hickory's own options.
Repair(conf) ==
    /\ resolver = "error"
    /\ resolvConf' = conf
    /\ resolver' = "none"
    /\ cacheSize' = 32
    /\ UNCHANGED <<cached, zone, changes, call, seen, result>>

----------------------------------------------------------------------------
(* What a lookup makes of an answer *)

LookupError(ans) == [kind |-> "Lookup", code |-> ans.code, records |-> {}]
Found(records) == [kind |-> "ok", code |-> "none", records |-> records]

\* no_data_response
NoDataResponse(ans) == ans.kind = "no records" /\ ans.code = "NoError"

\* lookup_a and lookup_aaaa keep the records of their own type.
Addresses(ans, type) ==
    CASE ans.kind = "records" -> Found({r \in ans.records : r.type = type})
      [] ans.kind = "no records" -> Found({})
      [] OTHER -> LookupError(ans)

\* https_record_from_svcb keeps four of the parameters and drops the others.
HttpsRecord(record) ==
    Record("HTTPS", record.data \cap {"alpn h3", "port 8443", "ipv4hint", "ipv6hint"})

Https(ans) ==
    CASE ans.kind = "records" -> Found({HttpsRecord(r) : r \in {x \in ans.records : x.type = "HTTPS"}})
      [] ans.kind = "no records" -> Found({})
      [] OTHER -> LookupError(ans)

\* query keeps every record of the answer, aliases included.
Query(ans) ==
    CASE ans.kind = "records" -> Found(ans.records)
      [] NoDataResponse(ans) -> Found({})
      [] OTHER -> LookupError(ans)

\* lookup_ip and lookup_socket_addrs.
Ip(a, aaaa) ==
    LET addresses(ans) == {r \in ans.records : r.type # "CNAME"}
    IN  CASE "records" \in {a.kind, aaaa.kind} -> Found(addresses(a) \cup addresses(aaaa))
          [] {a.kind, aaaa.kind} = {"no records"} -> Found({})
          [] OTHER -> LookupError(IF a.kind = "failure" THEN a ELSE aaaa)

----------------------------------------------------------------------------
(* Calls *)

Ops == [op : {"lookup"}, host : {"name", "literal"}, type : Types]
       \cup [op : {"query"}, host : {"name"}, type : Types]
       \cup [op : {"ip"}, host : {"name", "literal"}, type : {"A"}]

\* An address literal of the right family is its own answer, and no server is asked.
IsLiteral(c) == c.host = "literal" /\ c.type # "HTTPS"

Call(c) ==
    /\ resolver \in {"system", "cloudflare"}
    /\ call = Idle
    /\ IF IsLiteral(c)
         THEN result' = Found({Record(c.type, {"literal"})}) /\ UNCHANGED <<call, seen>>
         ELSE call' = c /\ seen' = {zone} /\ result' = Nothing
    /\ UNCHANGED <<config, cached, zone, changes>>

\* What hickory may give for one record type: its cache, or what a server says now.
Given(type) ==
    IF cached[type] # Nothing THEN {cached[type]} ELSE {Answer(zone, type)} \cup Failures

Cache(type, ans) ==
    IF cacheSize > 0 /\ ans \notin Failures THEN [cached EXCEPT ![type] = ans] ELSE cached

Return(op, to) ==
    /\ call.op = op
    /\ result' = to
    /\ call' = Idle
    /\ UNCHANGED <<config, zone, changes, seen>>

ReturnTyped(ans) ==
    /\ Return("lookup", IF call.type = "HTTPS" THEN Https(ans) ELSE Addresses(ans, call.type))
    /\ cached' = Cache(call.type, ans)

ReturnQuery(ans) == Return("query", Query(ans)) /\ cached' = Cache(call.type, ans)

ReturnIp(a, aaaa) == Return("ip", Ip(a, aaaa)) /\ cached' = Cache("A", a)

ChangeZone(z) ==
    /\ changes < MaxChange
    /\ z # zone
    /\ zone' = z
    /\ changes' = changes + 1
    /\ seen' = IF call = Idle THEN seen ELSE seen \cup {z}
    /\ UNCHANGED <<config, cached, call, result>>

----------------------------------------------------------------------------
Init ==
    /\ resolvConf \in {"servers", "NotFound", "PermissionDenied"}
    /\ resolver = "none"
    /\ cacheSize = 32
    /\ cached = [type \in Types |-> Nothing]
    /\ zone \in Zones
    /\ changes = 0
    /\ call = Idle
    /\ seen = {}
    /\ result = Nothing

Next ==
    \/ New
    \/ \E conf \in {"servers", "NotFound"} : Repair(conf)
    \/ \E c \in Ops : Call(c)
    \/ call # Idle /\ \E ans \in Given(call.type) : ReturnTyped(ans) \/ ReturnQuery(ans)
    \/ call # Idle /\ \E a \in Given("A"), aaaa \in Given("AAAA") : ReturnIp(a, aaaa)
    \/ \E z \in Zones : ChangeZone(z)

Spec == Init /\ [][Next]_vars

----------------------------------------------------------------------------
Returns == call # Idle /\ call' = Idle

\* A call that returns gives what was in the zone at some moment of it, and gives nothing
\* only when nothing of the type was there at some moment, under a name that existed then
\* when the call was a query.
AnswerIsCurrent ==
    Returns /\ result'.kind = "ok" =>
        /\ \A r \in result'.records : \E z \in seen : \E known \in z.records :
               r.type = known.type /\ r.data \subseteq known.data
        /\ result'.records = {} =>
               \E z \in seen : /\ Answer(z, call.type).kind = "no records"
                             /\ call.op = "query" => z.exists
=============================================================================
