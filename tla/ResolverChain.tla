--------------------------- MODULE ResolverChain ----------------------------
(***************************************************************************)
(* The way of a DNS message through Landns: Handler.ServeDNS               *)
(* (lib-landns/handler.go) with its MessageBuilder and counters            *)
(* (message_types.go, metrics.go), and the resolvers that makeServer       *)
(* (main.go) chains: the static zones and the dynamic zone in a            *)
(* ResolverSet, then, in an AlternateResolver, a cache and the             *)
(* ForwardResolver.  Every message has a goroutine of its own; nothing but *)
(* the dynamic zone, the cache and the counters is shared.                 *)
(*                                                                         *)
(* The dynamic zone changes at any moment; a cache forgets at any moment:  *)
(* how they do is the business of SqliteResolver, EtcdResolver, LocalCache *)
(* and RedisCache.                                                         *)
(***************************************************************************)
EXTENDS StaticZone, Integers, FiniteSets

CONSTANTS
    Handlers,         \* the goroutines that serve messages
    Messages,         \* the messages clients send: [opcode, name, type, rd]
    Configs,          \* the configuration files, a sequence
    DynamicZones,     \* the dynamic zones there may be: sets of RRs
    UpstreamCount,    \* how many upstream servers are configured
    Answers(_),       \* the answers upstream servers give: sequences of RRs
    CacheKinds,       \* "local", "redis" or, with --disable-cache, "none"
    MaxMessages       \* bound of the number of messages

ASSUME ConfigAssumption == \A i \in DOMAIN Configs : Accepted(Configs[i])
ASSUME CountAssumption  ==
    /\ UpstreamCount \in Nat /\ MaxMessages \in Nat /\ IsFiniteSet(Handlers)
    /\ DOMAIN Configs = 1..Len(Configs) /\ Len(Configs) \in Nat
ASSUME MessageAssumption == Messages # {}
ASSUME AnswerAssumption ==
    \A m \in Messages : \A answer \in Answers(<<m.name, m.type>>) :
        DOMAIN answer = 1..Len(answer) /\ Len(answer) \in Nat
\* The dynamic zone holds records that came through a Go record type.
ASSUME RecordAssumption ==
    /\ \A z \in DynamicZones : \A r \in z : Supported(r) /\ r.ttl \in Nat
    /\ \A i \in DOMAIN Configs : ZoneTTL(Configs[i]) \in Nat
    /\ \A m \in Messages : \A answer \in Answers(<<m.name, m.type>>) :
          \A i \in DOMAIN answer : answer[i].ttl \in Nat

VARIABLES
    zone,       \* the dynamic zone, as a set of RRs
    cacheKind,  \* which cache is used
    cache,      \* question -> the RRs cached under it
    pc,         \* where the goroutine of a handler is
    msg,        \* the message it serves
    next,       \* the static zone or the upstream server it asks next
    got,        \* the RRs added to its MessageBuilder, or sent in its last reply
    aa,         \* the builder's authoritative flag
    errored,    \* the query failed
    count       \* the counters

chainVars == <<zone, cacheKind, cache, pc, msg, next, got, aa, errored, count>>
handlerVars == <<pc, msg, next, got, aa, errored>>

Questions == {<<m.name, m.type>> : m \in Messages}
QuestionOf(m) == [name |-> m.name, type |-> m.type]
Key(m) == <<m.name, m.type>>

\* NewMetrics has counters for these types only.
Counted == {"A", "AAAA", "PTR", "SRV", "TXT"}
Counters == {"query", "another", "local", "upstream", "not-found", "error",
             "cache hit", "cache miss"}

Zones == [i \in DOMAIN Configs |-> NewSimpleResolverFromConfig(Configs[i])]

-----------------------------------------------------------------------------
Init ==
    /\ zone \in DynamicZones
    /\ cacheKind \in CacheKinds
    /\ cache = [k \in Questions |-> {}]
    /\ pc = [h \in Handlers |-> "idle"]
    /\ msg \in [Handlers -> {CHOOSE m \in Messages : TRUE}]
    /\ next = [h \in Handlers |-> 1]
    /\ got = [h \in Handlers |-> {}]
    /\ aa = [h \in Handlers |-> TRUE]
    /\ errored = [h \in Handlers |-> FALSE]
    /\ count = [c \in Counters |-> 0]

\* Which of the static zones or upstream servers is next.
NeverReset(h, where) == next[h] + 1
StaysPut(h, where)   == IF where = pc[h] THEN next[h] ELSE 1
NextOf(h, where)     == IF where = pc[h] THEN next[h] + 1 ELSE 1

\* A handler goes on to where with these records, as after Add.
Goes(h, where, records, authoritative) ==
    /\ pc' = [pc EXCEPT ![h] = where]
    /\ got' = [got EXCEPT ![h] = records]
    /\ aa' = [aa EXCEPT ![h] = authoritative]
    /\ next' = [next EXCEPT ![h] = NextOf(h, where)]
    /\ UNCHANGED msg

Inc(counters, type) ==
    count' = [c \in Counters |->
                 IF c \in counters /\ type \in Counted THEN count[c] + 1 ELSE count[c]]

\* A resolver returns an error: it ends the query, and what was added stays.
FailsCounting(h, records, authoritative, counters) ==
    /\ Goes(h, "build", records, authoritative)
    /\ errored' = [errored EXCEPT ![h] = TRUE]
    /\ Inc(counters \cup {"error"}, msg[h].type)

Fails(h, records, authoritative) == FailsCounting(h, records, authoritative, {})

-----------------------------------------------------------------------------
\* ServeDNS: Metrics.Start and the new MessageBuilder.  A message that is not a
\* query is answered at once.
Receive(h, m) ==
    /\ pc[h] = "idle" /\ count["query"] + count["another"] < MaxMessages
    /\ msg' = [msg EXCEPT ![h] = m]
    /\ pc' = [pc EXCEPT ![h] = IF m.opcode = "query" THEN "static" ELSE "build"]
    /\ next' = [next EXCEPT ![h] = 1]
    /\ got' = [got EXCEPT ![h] = {}]
    /\ aa' = [aa EXCEPT ![h] = TRUE]
    /\ errored' = [errored EXCEPT ![h] = FALSE]
    /\ LET c == IF m.opcode = "query" THEN "query" ELSE "another"
       IN  count' = [count EXCEPT ![c] = @ + 1]
    /\ UNCHANGED <<zone, cacheKind, cache>>

\* ResolverSet: one static zone after the other.  A record that cannot be
\* printed ends the query; the order of the records is not fixed.
AskStatic(h) ==
    /\ pc[h] = "static" /\ next[h] \in DOMAIN Zones
    /\ LET found   == Matches(Zones[next[h]], QuestionOf(msg[h]))
           records == {r.rr : r \in found} \ {NoRR}
       IN  IF \E r \in found : r.rr = NoRR
           THEN \E part \in SUBSET records : Fails(h, got[h] \cup part, aa[h])
           ELSE /\ Goes(h, "static", got[h] \cup records, aa[h])
                /\ UNCHANGED <<errored, count>>
    /\ UNCHANGED <<zone, cacheKind, cache>>

ZoneRecords(m, z) ==
    {Relayed(r) : r \in {x \in z : x.name = m.name /\ x.type = m.type}}

\* AlternateResolver: the second resolver is asked if the first added nothing.
Always(h, records) == UpstreamCount > 0
AsksElsewhere(h, records) == UpstreamCount > 0 /\ records = {}

\* ResolverSet: the dynamic zone, read at one moment.  It may fail at any of
\* its records.
AskDynamic(h) ==
    /\ pc[h] = "static" /\ next[h] \notin DOMAIN Zones
    /\ \/ LET records == got[h] \cup ZoneRecords(msg[h], zone)
          IN  /\ Goes(h, IF ~ AsksElsewhere(h, records) THEN "build"
                         ELSE IF cacheKind = "none" THEN "upstream" ELSE "cache",
                      records, aa[h])
              /\ UNCHANGED <<errored, count>>
       \/ \E part \in SUBSET ZoneRecords(msg[h], zone) :
              Fails(h, got[h] \cup part, aa[h])
    /\ UNCHANGED <<zone, cacheKind, cache>>

-----------------------------------------------------------------------------
\* The counters of the Redis cache are the wrong way round.
HitCounter  == IF cacheKind = "redis" THEN "cache miss" ELSE "cache hit"
MissCounter == IF cacheKind = "redis" THEN "cache hit" ELSE "cache miss"

\* The local cache takes the authority away before the first record of an answer,
\* Redis after each one.
CachedAuthority(records) == cacheKind = "redis" /\ records = {}

\* A cached answer is no longer authoritative; whether the client wants
\* recursion is not asked.  Redis leaves out a record that expires while it is
\* read.
CacheHit(h) ==
    /\ pc[h] = "cache" /\ cache[Key(msg[h])] # {}
    /\ Inc({HitCounter}, msg[h].type)
    /\ \E records \in SUBSET cache[Key(msg[h])] :
          /\ cacheKind = "local" => records = cache[Key(msg[h])]
          /\ Goes(h, "build", records, CachedAuthority(records))
    /\ UNCHANGED <<errored, zone, cacheKind, cache>>

CacheMiss(h) ==
    /\ pc[h] = "cache" /\ cache[Key(msg[h])] = {}
    /\ Inc({MissCounter}, msg[h].type)
    /\ Goes(h, "upstream", {}, aa[h])
    /\ UNCHANGED <<errored, zone, cacheKind, cache>>

\* Redis does not answer, or either cache holds a record whose time is over when
\* its turn comes.
CacheFails(h) ==
    /\ pc[h] = "cache"
    /\ \/ cacheKind = "redis" /\ Fails(h, {}, aa[h])
       \/ /\ cache[Key(msg[h])] # {}
          /\ \E part \in SUBSET cache[Key(msg[h])] :
                FailsCounting(h, part, CachedAuthority(part), {HitCounter})
    /\ UNCHANGED <<zone, cacheKind, cache>>

\* What the cache holds after an answer to m; that the local cache is told of it
\* through a mutex and a goroutine, and that TTLs shrink, is left out here.  The local cache files each
\* record under its own name and type, Redis the whole answer under the
\* question, and only if it was not cut short; neither keeps a TTL of 0.
Lasting(records) == {r \in records : r.type # "NS" /\ r.ttl > 0}
Filled(m, records, failed) ==
    IF cacheKind = "local"
    THEN [k \in Questions |->
            cache[k] \cup {r \in Lasting(records) : <<r.name, r.type>> = k}]
    ELSE IF cacheKind = "redis" /\ ~ failed /\ Lasting(records) = records
    THEN [cache EXCEPT ![Key(m)] = @ \cup records]
    ELSE cache

\* ForwardResolver.  Without RecursionDesired it adds nothing.
NotForwarded(h) ==
    /\ pc[h] = "upstream" /\ ~ msg[h].rd
    /\ Goes(h, "build", {}, aa[h])
    /\ UNCHANGED <<errored, count, zone, cacheKind, cache>>

\* An upstream server gives no reply in time: the next one, if there is one.
UpstreamSilent(h) ==
    /\ pc[h] = "upstream" /\ msg[h].rd
    /\ Goes(h, IF next[h] < UpstreamCount THEN "upstream" ELSE "build", {}, aa[h])
    /\ UNCHANGED <<errored, count, zone, cacheKind, cache>>

\* The first reply is taken, whatever its rcode, record by record up to the
\* first one Landns has no type for; each takes the authority away first.
SupportedPrefix(answer) ==
    {i \in DOMAIN answer : \A j \in 1..i : Supported(answer[j])}

StaysAuthoritative(records) == TRUE
Authoritative(records) == records = {}

UpstreamAnswers(h) ==
    /\ pc[h] = "upstream" /\ msg[h].rd
    /\ \E answer \in Answers(Key(msg[h])) :
         LET known   == SupportedPrefix(answer)
             records == {Relayed(answer[i]) : i \in known}
             failed  == known # DOMAIN answer
         IN  /\ IF failed THEN Fails(h, records, Authoritative(records))
                ELSE /\ Goes(h, "build", records, Authoritative(records))
                     /\ UNCHANGED <<errored, count>>
             /\ cache' = Filled(msg[h], records, failed)
    /\ UNCHANGED <<zone, cacheKind>>

\* With Redis, the transaction may break before the question is forwarded, at
\* any record, and at its end.
UpstreamFails(h) ==
    /\ pc[h] = "upstream" /\ cacheKind = "redis"
    /\ \/ Fails(h, {}, aa[h])
       \/ /\ msg[h].rd
          /\ \E answer \in Answers(Key(msg[h])), flag \in BOOLEAN :
               \E n \in {0} \cup SupportedPrefix(answer) :
                  /\ n > 0 => ~ flag
                  /\ Fails(h, {Relayed(answer[i]) : i \in 1..n}, flag)
    /\ UNCHANGED <<zone, cacheKind, cache>>

-----------------------------------------------------------------------------
\* MessageBuilder.Build: of the records that differ in their TTL only, dns.Dedup
\* keeps one with the shortest TTL.
Once(records) ==
    {r \in records : \A s \in records : KeyOf(s) = KeyOf(r) => r.ttl <= s.ttl}

\* makeTimer, which counts a message that is no query like one.
EmptyIsError(records, authoritative) ==
    IF records = {} THEN "error" ELSE IF authoritative THEN "local" ELSE "upstream"
Outcome(records, authoritative) ==
    IF records = {} THEN "not-found" ELSE IF authoritative THEN "local" ELSE "upstream"

Build(h) ==
    /\ pc[h] = "build"
    /\ Goes(h, "idle", Once(got[h]), aa[h])
    /\ Inc({Outcome(got[h], aa[h])}, msg[h].type)
    /\ UNCHANGED <<errored, zone, cacheKind, cache>>

Serve(h) ==
    \/ AskStatic(h) \/ AskDynamic(h)
    \/ CacheHit(h) \/ CacheMiss(h) \/ CacheFails(h)
    \/ NotForwarded(h) \/ UpstreamSilent(h) \/ UpstreamAnswers(h)
    \/ UpstreamFails(h) \/ Build(h)

-----------------------------------------------------------------------------
\* The surroundings.

ZoneChanges ==
    /\ zone' \in DynamicZones
    /\ UNCHANGED <<cacheKind, cache, handlerVars, count>>

\* An entry of the cache expires.
Forget(k) ==
    /\ cache[k] # {}
    /\ cache' = [cache EXCEPT ![k] = {}]
    /\ UNCHANGED <<zone, cacheKind, handlerVars, count>>

ChainNext ==
    \/ \E h \in Handlers : Serve(h) \/ \E m \in Messages : Receive(h, m)
    \/ \E k \in Questions : Forget(k)

Next == ChainNext \/ ZoneChanges

Spec == Init /\ [][Next]_chainVars

\* A handler is in the local cache or waits for its mutex, which is held through
\* the upstream's answer.  It may wait for ever: the cache's holder may block on a
\* channel that only fills up (LocalCache!NeverStuck).
InLocalCache(h) == cacheKind = "local" /\ pc[h] \in {"cache", "upstream"}

\* Everywhere else the goroutine of a message goes on: the silence of an upstream
\* server or of etcd is bounded by time-outs, the mutex of the SQLite zone is held
\* for one transaction only, and Redis is taken to answer or to break the
\* connection.
FairSpec ==
    Spec /\ \A h \in Handlers : WF_chainVars(~ InLocalCache(h) /\ Serve(h))

-----------------------------------------------------------------------------
\* Properties.

TypeOK ==
    /\ zone \in DynamicZones /\ cacheKind \in CacheKinds
    /\ DOMAIN cache = Questions
    /\ pc \in [Handlers -> {"idle", "static", "cache", "upstream", "build"}]
    /\ msg \in [Handlers -> Messages]
    /\ next \in [Handlers -> 1..(Len(Configs) + UpstreamCount + 1)]
    /\ DOMAIN got = Handlers
    /\ aa \in [Handlers -> BOOLEAN] /\ errored \in [Handlers -> BOOLEAN]
    /\ count \in [Counters -> Nat]

\* The records of this site, and those other servers may send.
HomeRecords ==
    {r.rr : r \in UNION {Zones[i] : i \in DOMAIN Zones}}
    \cup {Relayed(r) : r \in UNION DynamicZones}
Heard(k) ==
    UNION {{Relayed(answer[i]) : i \in SupportedPrefix(answer)} : answer \in Answers(k)}
ForeignRecords == UNION {Heard(k) : k \in Questions}

\* The authoritative flag is honest, at every moment and in every reply: with it
\* a message holds records of this site only, without it records of others only;
\* also when a query failed half way, found its answer in a cache, or shares the
\* cache with queries under way.
AuthorityIsHonest ==
    \A h \in Handlers : got[h] \subseteq (IF aa[h] THEN HomeRecords ELSE ForeignRecords)

\* The chain implements the name service: a reply is what the local zones had at
\* one moment of the call, or comes from elsewhere and they had nothing at that
\* moment, although static zones, dynamic zone, cache and upstream servers are
\* asked one after the other while the zone changes.
StaticRecords(q) ==
    {r.rr : r \in UNION {Matches(Zones[i], q) : i \in DOMAIN Zones}} \ {NoRR}
RemoteRecords(q) ==
    Heard(<<q.name, q.type>>)
    \cup {r \in ForeignRecords : r.name = q.name /\ r.type = q.type}
StateOf(h) ==
    CASE pc[h] = "static" -> "asked" [] pc[h] = "build" -> "answered"
      [] pc[h] \in {"cache", "upstream"} -> "elsewhere" [] OTHER -> "idle"

Service == INSTANCE NameService WITH
    Questions    <- {QuestionOf(m) : m \in Messages},
    StaticAnswer <- StaticRecords,
    ZoneAnswer   <- ZoneRecords,
    RemoteAnswer <- RemoteRecords,
    call <- [h \in Handlers |->
               [state |-> StateOf(h), question |-> QuestionOf(msg[h]),
                answers |-> IF pc[h] = "static" THEN {} ELSE got[h],
                aa |-> aa[h], failed |-> errored[h]]]
ServiceSpec == Service!Spec

\* Every message that was received is counted as one reply, or still under way;
\* of the types Landns counts.
RepliesCounted ==
    {m.type : m \in Messages} \subseteq Counted =>
        count["query"] + count["another"]
            = count["local"] + count["upstream"] + count["not-found"]
              + Cardinality({h \in Handlers : pc[h] # "idle"})

\* Every message gets its reply, whichever zones, servers and connections are
\* silent or fail on its way; or it gets as far as the local cache, which may keep
\* it (what holds there is LocalCache!ResolveReturns).
EveryMessageAnswered ==
    \A h \in Handlers : pc[h] # "idle" ~> (pc[h] = "idle" \/ InLocalCache(h))
=============================================================================
