---------------------------- MODULE LandnsProofs ----------------------------
(***************************************************************************)
(* Proofs about the whole server: it contains the REST API and the         *)
(* resolver chain as they are, so it implements the name service, and a    *)
(* client reads its own writes (PromisesKept), for all numbers of clients  *)
(* and handlers, all requests, zones, caches and upstream servers.         *)
(*                                                                         *)
(* PromisesKept needs three invariants.  Brought: the records in the table *)
(* are what NewRecordFromRR makes of their own text, so that the text says *)
(* what the key and the TTL are.  Known: what the history variables say of *)
(* the table is true; a removal is only known to have worked if the TTL of *)
(* the line is that of the record.  Settled: what is due to a handler is   *)
(* in the table until the handler has asked the dynamic zone, then in its  *)
(* answer.  Reflects is what a batch leaves under one key, along its       *)
(* commands.                                                               *)
(***************************************************************************)
EXTENDS Landns, DynamicAPIProofs

\* The chain, with the theorems about it.
Path == INSTANCE ResolverChainProofs WITH
            zone <- ZoneOf(rows), DynamicZones <- SUBSET ZoneRRs

-----------------------------------------------------------------------------
\* The chain of Landns is the chain of ResolverChainProofs.  Two instances of one
\* module share no definition, so each action is compared once.

\* The assumptions of the chain hold.
LEMMA SameAssumptions ==
    /\ \A i \in DOMAIN Configs : Path!Accepted(Configs[i]) /\ Path!ZoneTTL(Configs[i]) \in Nat
    /\ \A z \in SUBSET ZoneRRs : \A r \in z : Path!Supported(r) /\ r.ttl \in Nat
<1>1. \A i \in DOMAIN Configs :
         /\ Path!Accepted(Configs[i]) = Chain!Accepted(Configs[i])
         /\ Path!ZoneTTL(Configs[i]) = Chain!ZoneTTL(Configs[i])
  BY DEF Path!Accepted, Chain!Accepted, Path!Services, Chain!Services,
         Path!ToRecord, Chain!ToRecord, Path!DefaultTTL, Chain!DefaultTTL,
         Path!ZoneTTL, Chain!ZoneTTL, Path!Normalized, Chain!Normalized,
         Path!SrvRecord, Chain!SrvRecord, Path!RR, Chain!RR, Path!KeyOf, Chain!KeyOf
<1>2. \A r : Path!Supported(r) = Supported(r)
  BY DEF Path!Supported, Supported
<1> QED BY <1>1, <1>2, ChainAssumption, ZoneAssumption

\* A step of a handler is the same in both.
LEMMA SameServe ==
    ASSUME NEW h \in Handlers
    PROVE  Chain!Serve(h) <=> Path!Serve(h)
<1>1. Chain!AskStatic(h) <=> Path!AskStatic(h)
  BY DEF Path!AskStatic, Chain!AskStatic, Path!Services, Chain!Services,
         Path!ToRecord, Chain!ToRecord, Path!DefaultTTL, Chain!DefaultTTL,
         Path!ZoneTTL, Chain!ZoneTTL, Path!Normalized, Chain!Normalized,
         Path!ReverseMap, Chain!ReverseMap,
         Path!NewSimpleResolverFromConfig, Chain!NewSimpleResolverFromConfig,
         Path!Zones, Chain!Zones, Path!Matches, Chain!Matches,
         Path!QuestionOf, Chain!QuestionOf, Path!RR, Chain!RR,
         Path!NoRR, Chain!NoRR, Path!KeyOf, Chain!KeyOf,
         Path!ParserTTL, Chain!ParserTTL, Path!AddressRecord, Chain!AddressRecord,
         Path!NsRecord, Chain!NsRecord, Path!CnameRecord, Chain!CnameRecord,
         Path!PtrRecord, Chain!PtrRecord, Path!MxRecord, Chain!MxRecord,
         Path!TxtRecord, Chain!TxtRecord, Path!SrvRecord, Chain!SrvRecord,
         Path!Fails, Chain!Fails, Path!FailsCounting, Chain!FailsCounting,
         Path!Inc, Chain!Inc, Path!Counted, Chain!Counted,
         Path!Counters, Chain!Counters, Path!Goes, Chain!Goes,
         Path!NextOf, Chain!NextOf
<1>2. Chain!AskDynamic(h) <=> Path!AskDynamic(h)
  BY DEF Path!AskDynamic, Chain!AskDynamic, Path!RR, Chain!RR,
         Path!NoRR, Chain!NoRR, Path!KeyOf, Chain!KeyOf,
         Path!ParserTTL, Chain!ParserTTL, Path!AddressRecord, Chain!AddressRecord,
         Path!NsRecord, Chain!NsRecord, Path!CnameRecord, Chain!CnameRecord,
         Path!PtrRecord, Chain!PtrRecord, Path!MxRecord, Chain!MxRecord,
         Path!TxtRecord, Chain!TxtRecord, Path!SrvRecord, Chain!SrvRecord,
         Path!NewRecordFromRR, Chain!NewRecordFromRR, Path!Relayed, Chain!Relayed,
         Path!ZoneRecords, Chain!ZoneRecords, Path!QuestionOf, Chain!QuestionOf,
         Path!Zones, Chain!Zones, Path!Services, Chain!Services,
         Path!ToRecord, Chain!ToRecord, Path!DefaultTTL, Chain!DefaultTTL,
         Path!ZoneTTL, Chain!ZoneTTL, Path!Normalized, Chain!Normalized,
         Path!ReverseMap, Chain!ReverseMap,
         Path!NewSimpleResolverFromConfig, Chain!NewSimpleResolverFromConfig,
         Path!AsksElsewhere, Chain!AsksElsewhere, Path!Fails, Chain!Fails,
         Path!FailsCounting, Chain!FailsCounting, Path!Inc, Chain!Inc,
         Path!Counted, Chain!Counted, Path!Counters, Chain!Counters,
         Path!Goes, Chain!Goes, Path!NextOf, Chain!NextOf
<1>3. Chain!CacheHit(h) <=> Path!CacheHit(h)
  BY DEF Path!CacheHit, Chain!CacheHit, Path!CachedAuthority, Chain!CachedAuthority,
         Path!HitCounter, Chain!HitCounter,
         Path!Key, Chain!Key, Path!Inc, Chain!Inc, Path!Counted, Chain!Counted,
         Path!Counters, Chain!Counters, Path!Goes, Chain!Goes,
         Path!NextOf, Chain!NextOf
<1>4. Chain!CacheMiss(h) <=> Path!CacheMiss(h)
  BY DEF Path!CacheMiss, Chain!CacheMiss, Path!MissCounter, Chain!MissCounter,
         Path!Key, Chain!Key, Path!Inc, Chain!Inc, Path!Counted, Chain!Counted,
         Path!Counters, Chain!Counters, Path!Goes, Chain!Goes,
         Path!NextOf, Chain!NextOf
<1>5. Chain!CacheFails(h) <=> Path!CacheFails(h)
  BY DEF Path!CacheFails, Chain!CacheFails, Path!CachedAuthority, Chain!CachedAuthority,
         Path!HitCounter, Chain!HitCounter,
         Path!Key, Chain!Key, Path!Fails, Chain!Fails,
         Path!FailsCounting, Chain!FailsCounting, Path!Inc, Chain!Inc,
         Path!Counted, Chain!Counted, Path!Counters, Chain!Counters,
         Path!Goes, Chain!Goes, Path!NextOf, Chain!NextOf
<1>6. Chain!NotForwarded(h) <=> Path!NotForwarded(h)
  BY DEF Path!NotForwarded, Chain!NotForwarded, Path!Goes, Chain!Goes,
         Path!NextOf, Chain!NextOf
<1>7. Chain!UpstreamSilent(h) <=> Path!UpstreamSilent(h)
  BY DEF Path!UpstreamSilent, Chain!UpstreamSilent, Path!Goes, Chain!Goes,
         Path!NextOf, Chain!NextOf
<1>8. Chain!UpstreamAnswers(h) <=> Path!UpstreamAnswers(h)
  BY DEF Path!UpstreamAnswers, Chain!UpstreamAnswers, Path!RR, Chain!RR,
         Path!NoRR, Chain!NoRR, Path!KeyOf, Chain!KeyOf,
         Path!ParserTTL, Chain!ParserTTL, Path!AddressRecord, Chain!AddressRecord,
         Path!NsRecord, Chain!NsRecord, Path!CnameRecord, Chain!CnameRecord,
         Path!PtrRecord, Chain!PtrRecord, Path!MxRecord, Chain!MxRecord,
         Path!TxtRecord, Chain!TxtRecord, Path!SrvRecord, Chain!SrvRecord,
         Path!NewRecordFromRR, Chain!NewRecordFromRR, Path!Relayed, Chain!Relayed,
         Path!Supported, Chain!Supported,
         Path!SupportedPrefix, Chain!SupportedPrefix,
         Path!Authoritative, Chain!Authoritative, Path!Filled, Chain!Filled,
         Path!Lasting, Chain!Lasting, Path!Questions, Chain!Questions,
         Path!Key, Chain!Key, Path!Fails, Chain!Fails,
         Path!FailsCounting, Chain!FailsCounting, Path!Inc, Chain!Inc,
         Path!Counted, Chain!Counted, Path!Counters, Chain!Counters,
         Path!Goes, Chain!Goes, Path!NextOf, Chain!NextOf
<1>9. Chain!UpstreamFails(h) <=> Path!UpstreamFails(h)
  BY DEF Path!UpstreamFails, Chain!UpstreamFails, Path!RR, Chain!RR,
         Path!NoRR, Chain!NoRR, Path!KeyOf, Chain!KeyOf,
         Path!ParserTTL, Chain!ParserTTL, Path!AddressRecord, Chain!AddressRecord,
         Path!NsRecord, Chain!NsRecord, Path!CnameRecord, Chain!CnameRecord,
         Path!PtrRecord, Chain!PtrRecord, Path!MxRecord, Chain!MxRecord,
         Path!TxtRecord, Chain!TxtRecord, Path!SrvRecord, Chain!SrvRecord,
         Path!NewRecordFromRR, Chain!NewRecordFromRR, Path!Relayed, Chain!Relayed,
         Path!Supported, Chain!Supported,
         Path!SupportedPrefix, Chain!SupportedPrefix, Path!Key, Chain!Key,
         Path!Fails, Chain!Fails, Path!FailsCounting, Chain!FailsCounting,
         Path!Inc, Chain!Inc, Path!Counted, Chain!Counted,
         Path!Counters, Chain!Counters, Path!Goes, Chain!Goes,
         Path!NextOf, Chain!NextOf
<1>10. Chain!Build(h) <=> Path!Build(h)
  BY DEF Path!Build, Chain!Build, Path!Once, Chain!Once, Path!KeyOf, Chain!KeyOf,
         Path!Outcome, Chain!Outcome, Path!Inc, Chain!Inc,
         Path!Counted, Chain!Counted, Path!Counters, Chain!Counters,
         Path!Goes, Chain!Goes, Path!NextOf, Chain!NextOf
<1> QED BY <1>1, <1>2, <1>3, <1>4, <1>5, <1>6, <1>7, <1>8, <1>9, <1>10
        DEF Path!Serve, Chain!Serve

\* So is the arrival of a message, ...
LEMMA SameReceive ==
    ASSUME NEW h \in Handlers, NEW m
    PROVE  Chain!Receive(h, m) <=> Path!Receive(h, m)
BY DEF Path!Receive, Chain!Receive

\* ... the start, ...
LEMMA SameInit == Chain!Init <=> Path!Init
BY DEF Path!Init, Chain!Init, Path!Questions, Chain!Questions,
       Path!Counters, Chain!Counters

\* ... and a cache that forgets.
LEMMA SameForget ==
    /\ Chain!Questions = Path!Questions
    /\ \A k : Chain!Forget(k) <=> Path!Forget(k)
BY DEF Path!Forget, Chain!Forget, Path!Questions, Chain!Questions,
       Path!handlerVars, Chain!handlerVars

\* Both know the same records of the static zones and of other servers.
LEMMA SameRecords ==
    ASSUME NEW q
    PROVE  /\ Chain!StaticRecords(q) = Path!StaticRecords(q)
           /\ Chain!RemoteRecords(q) = Path!RemoteRecords(q)
<1>1. Chain!StaticRecords(q) = Path!StaticRecords(q)
  BY DEF Path!StaticRecords, Chain!StaticRecords, Path!Services, Chain!Services,
         Path!ToRecord, Chain!ToRecord, Path!DefaultTTL, Chain!DefaultTTL,
         Path!ZoneTTL, Chain!ZoneTTL, Path!Normalized, Chain!Normalized,
         Path!ReverseMap, Chain!ReverseMap,
         Path!NewSimpleResolverFromConfig, Chain!NewSimpleResolverFromConfig,
         Path!Zones, Chain!Zones, Path!Matches, Chain!Matches,
         Path!QuestionOf, Chain!QuestionOf, Path!RR, Chain!RR,
         Path!NoRR, Chain!NoRR, Path!KeyOf, Chain!KeyOf,
         Path!ParserTTL, Chain!ParserTTL, Path!AddressRecord, Chain!AddressRecord,
         Path!NsRecord, Chain!NsRecord, Path!CnameRecord, Chain!CnameRecord,
         Path!PtrRecord, Chain!PtrRecord, Path!MxRecord, Chain!MxRecord,
         Path!TxtRecord, Chain!TxtRecord, Path!SrvRecord, Chain!SrvRecord
<1>2. Chain!RemoteRecords(q) = Path!RemoteRecords(q)
  BY DEF Path!RemoteRecords, Chain!RemoteRecords,
         Path!ForeignRecords, Chain!ForeignRecords, Path!Heard, Chain!Heard,
         Path!Questions, Chain!Questions, Path!Supported, Chain!Supported,
         Path!SupportedPrefix, Chain!SupportedPrefix, Path!RR, Chain!RR,
         Path!NoRR, Chain!NoRR, Path!KeyOf, Chain!KeyOf,
         Path!ParserTTL, Chain!ParserTTL, Path!AddressRecord, Chain!AddressRecord,
         Path!NsRecord, Chain!NsRecord, Path!CnameRecord, Chain!CnameRecord,
         Path!PtrRecord, Chain!PtrRecord, Path!MxRecord, Chain!MxRecord,
         Path!TxtRecord, Chain!TxtRecord, Path!SrvRecord, Chain!SrvRecord,
         Path!NewRecordFromRR, Chain!NewRecordFromRR, Path!Relayed, Chain!Relayed
<1> QED BY <1>1, <1>2

\* Both read the same question in a message.
LEMMA SameQuestion ==
    ASSUME NEW m
    PROVE  Chain!QuestionOf(m) = Path!QuestionOf(m)
BY DEF Chain!QuestionOf, Path!QuestionOf

\* Both read a record from its text the same way.
LEMMA SameRelayed == ASSUME NEW x PROVE Path!Relayed(x) = Relayed(x)
BY DEF Path!Relayed, Relayed, Path!NewRecordFromRR, NewRecordFromRR, Path!RR, RR,
       Path!NoRR, NoRR, Path!KeyOf, KeyOf, Path!ParserTTL, ParserTTL,
       Path!AddressRecord, AddressRecord, Path!NsRecord, NsRecord,
       Path!CnameRecord, CnameRecord, Path!PtrRecord, PtrRecord,
       Path!MxRecord, MxRecord, Path!TxtRecord, TxtRecord, Path!SrvRecord, SrvRecord

\* What the theorems of ResolverChainProofs assume holds of Landns.
LEMMA Assumed ==
    /\ \A i \in DOMAIN Configs : Path!Accepted(Configs[i])
    /\ UpstreamCount \in Nat /\ MaxMessages \in Nat /\ Path!IsFiniteSet(Handlers)
    /\ DOMAIN Configs = 1..Len(Configs) /\ Len(Configs) \in Nat
    /\ Messages # {}
    /\ \A m \in Messages : \A answer \in Answers(<<m.name, m.type>>) :
          DOMAIN answer = 1..Len(answer) /\ Len(answer) \in Nat
    /\ \A z \in SUBSET ZoneRRs : \A r \in z : Path!Supported(r) /\ r.ttl \in Nat
    /\ \A i \in DOMAIN Configs : Path!ZoneTTL(Configs[i]) \in Nat
    /\ \A m \in Messages : \A answer \in Answers(<<m.name, m.type>>) :
           \A i \in DOMAIN answer : answer[i].ttl \in Nat
<1>1. IsFiniteSet(Handlers) = Path!IsFiniteSet(Handlers)
  BY DEF IsFiniteSet, Path!IsFiniteSet
<1> QED BY <1>1, SameAssumptions, ChainAssumption

\* The invariant of ResolverChainProofs is kept, ...
LEMMA PathNext == Path!RInv /\ [Path!Next]_(Path!chainVars) => Path!RInv'
BY Assumed, Path!RNextKeeps

\* ... and holds at the start.
LEMMA PathInit == Path!Init => Path!RInv
BY Assumed, Path!RInitHolds

\* A handler that goes on does one of the steps of the name service, ...
LEMMA PathServe ==
    ASSUME Path!RInv, NEW h \in Handlers, Chain!Serve(h)
    PROVE  Path!ServiceStep(h)
BY Assumed, SameServe, Path!ServeServes

\* ... which change that handler only.
LEMMA PathArrives ==
    ASSUME Path!RInv, NEW h \in Handlers, NEW where, NEW records, NEW authoritative,
           NEW failed, Path!Arrives(h, where, records, authoritative, failed)
    PROVE  /\ pc'[h] = where /\ got'[h] = records /\ errored'[h] = failed /\ msg' = msg
           /\ \A g \in Handlers \ {h} :
                 /\ pc'[g] = pc[g] /\ got'[g] = got[g] /\ errored'[g] = errored[g]
<1>1. Path!IInv
  BY DEF Path!RInv
<1> QED BY <1>1, Assumed, Path!OthersStay

\* A message changes the handler that takes it only.
LEMMA PathReceive ==
    ASSUME Path!RInv, NEW h \in Handlers, NEW m \in Messages, Chain!Receive(h, m)
    PROVE  /\ pc[h] = "idle" /\ pc'[h] \in {"static", "build"} /\ msg'[h] = m
           /\ \A g \in Handlers \ {h} :
                 /\ pc'[g] = pc[g] /\ got'[g] = got[g] /\ msg'[g] = msg[g]
                 /\ errored'[g] = errored[g]
<1>1. Path!IInv /\ Path!Receive(h, m)
  BY SameReceive DEF Path!RInv
<1> QED BY <1>1, Assumed, Path!ReceiveChanges

-----------------------------------------------------------------------------
\* The API inside the server.

\* What a step does to the API is a step of the API.
LEMMA StepOfApi == LandnsNext => [ApiNext]_apiVars
<1> SUFFICES ASSUME LandnsNext PROVE [ApiNext]_apiVars
  OBVIOUS
<1>1. ASSUME NEW c \in Clients, SendRequest(c) PROVE ApiNext
  BY <1>1 DEF SendRequest, ApiNext
<1>2. ASSUME NEW c \in Clients, HandleRequest(c) PROVE ApiNext
  BY <1>2 DEF HandleRequest, Handle, ApiNext
<1>3. CASE ExpireRow
  BY <1>3 DEF ExpireRow, ApiNext
<1>4. ASSUME NEW h \in Handlers, ReceiveMessage(h) PROVE UNCHANGED apiVars
  BY <1>4 DEF ReceiveMessage
<1>5. ASSUME NEW h \in Handlers, ServeMessage(h) PROVE UNCHANGED apiVars
  BY <1>5 DEF ServeMessage
<1>6. CASE CacheForgets
  BY <1>6 DEF CacheForgets
<1> HIDE DEF ApiNext
<1> QED BY <1>1, <1>2, <1>3, <1>4, <1>5, <1>6 DEF LandnsNext

\* The server contains the REST API as it is: a query that is answered, a cache that
\* forgets and what a client remembers change nothing of it, so that what
\* DynamicAPIProofs shows of the API holds next to the DNS side (makeServer gives
\* both the same resolver, main.go).
THEOREM IncludesApi == LandnsSpec => ApiSpec
<1>1. LandnsInit => Init
  BY DEF LandnsInit
<1>2. [LandnsNext]_vars => [ApiNext]_apiVars
  BY StepOfApi DEF vars
<1> QED BY <1>1, <1>2, PTL DEF LandnsSpec, ApiSpec

-----------------------------------------------------------------------------
\* Records that came through a Go record type.

\* The record is the one NewRecordFromRR makes of its own text, a text of ZoneRRs.
GoodRec(rec) == rec = NewRecordFromRR(rec.rr) /\ rec.rr \in ZoneRRs

\* A record that can be printed is the record of its text.
LEMMA SameAgain ==
    ASSUME NEW rr, Supported(rr), NewRecordFromRR(rr).rr # NoRR
    PROVE  NewRecordFromRR(NewRecordFromRR(rr).rr) = NewRecordFromRR(rr)
<1> USE DEF RR, KeyOf, NoRR, Supported
<1>1. CASE rr.type \in {"A", "AAAA"}
  BY <1>1 DEF NewRecordFromRR, AddressRecord
<1>2. CASE rr.type = "NS"
  BY <1>2 DEF NewRecordFromRR, NsRecord
<1>3. CASE rr.type = "CNAME"
  BY <1>3 DEF NewRecordFromRR, CnameRecord
<1>4. CASE rr.type = "PTR"
  BY <1>4 DEF NewRecordFromRR, PtrRecord
<1>5. CASE rr.type = "MX"
  BY <1>5 DEF NewRecordFromRR, MxRecord
<1>6. CASE rr.type = "TXT"
  BY <1>6 DEF NewRecordFromRR, TxtRecord
<1>7. CASE rr.type = "SRV"
  BY <1>7 DEF NewRecordFromRR, SrvRecord
<1> QED BY <1>1, <1>2, <1>3, <1>4, <1>5, <1>6, <1>7

\* The PTR record that RecordSet.SetRecords adds is the record of its text, too.
LEMMA PtrAgain ==
    ASSUME NEW name, NEW ttl, NEW domain
    PROVE  NewRecordFromRR(PtrRecord(name, ttl, domain).rr) = PtrRecord(name, ttl, domain)
BY DEF NewRecordFromRR, PtrRecord, RR, KeyOf

\* What cannot be printed has no type Landns knows.
LEMMA NoTextOfNoRR == ~ Supported(NoRR)
<1>1. NoRR.type = ""
  BY DEF NoRR, RR
<1>2. "" \notin {"A", "AAAA", "NS", "CNAME", "PTR", "MX", "TXT", "SRV"}
  OBVIOUS
<1> QED BY <1>1, <1>2 DEF Supported

\* What is known of a record from its text.
LEMMA RecForm ==
    ASSUME NEW rec, GoodRec(rec)
    PROVE  /\ rec.key = KeyOf(rec.rr) /\ Relayed(rec.rr) = rec.rr
           /\ IF rec.rr.type = "NS" THEN rec.ttl = 0 /\ rec.rr.ttl = 3600
                                    ELSE rec.ttl = rec.rr.ttl
<1>1. Supported(rec.rr) /\ rec = NewRecordFromRR(rec.rr)
  BY ZoneAssumption DEF GoodRec
<1>2. rec.rr # NoRR
  BY <1>1, NoTextOfNoRR
<1>3. Relayed(rec.rr) = rec.rr
  BY <1>1 DEF Relayed
<1> SUFFICES ASSUME NEW x, Supported(x), x # NoRR, NewRecordFromRR(x).rr = x
             PROVE  /\ NewRecordFromRR(x).key = KeyOf(x)
                    /\ IF x.type = "NS" THEN NewRecordFromRR(x).ttl = 0 /\ x.ttl = 3600
                                        ELSE NewRecordFromRR(x).ttl = x.ttl
  <2>1. NewRecordFromRR(rec.rr).rr = rec.rr
    BY <1>1
  <2> QED BY <1>1, <1>2, <1>3, <2>1
<1>11. CASE x.type \in {"A", "AAAA"}
  <2>1. NewRecordFromRR(x) = AddressRecord(x.name, x.ttl, x.data[1])
    BY <1>11 DEF NewRecordFromRR
  <2> QED BY <1>11, <2>1 DEF AddressRecord
<1>12. CASE x.type = "NS"
  <2>1. NewRecordFromRR(x) = NsRecord(x.name, x.data[1])
    BY <1>12 DEF NewRecordFromRR
  <2>2. x = RR(x.name, "NS", ParserTTL, <<x.data[1]>>)
    BY <2>1 DEF NsRecord
  <2>3. x.ttl = 3600
    BY <2>2 DEF RR, ParserTTL
  <2> QED BY <1>12, <2>1, <2>3 DEF NsRecord
<1>13. CASE x.type = "CNAME"
  BY <1>13 DEF NewRecordFromRR, CnameRecord
<1>14. CASE x.type = "PTR"
  BY <1>14 DEF NewRecordFromRR, PtrRecord
<1>15. CASE x.type = "MX"
  BY <1>15 DEF NewRecordFromRR, MxRecord
<1>16. CASE x.type = "TXT"
  <2>1. NewRecordFromRR(x) = TxtRecord(x.name, x.ttl, x.data[1])
    BY <1>16 DEF NewRecordFromRR
  <2>2. x = RR(x.name, "TXT", x.ttl, <<x.data[1]>>)
    BY <2>1 DEF TxtRecord
  <2>3. NewRecordFromRR(x).key = KeyOf(RR(x.name, "TXT", x.ttl, <<x.data[1]>>))
        /\ NewRecordFromRR(x).ttl = x.ttl
    BY <2>1 DEF TxtRecord
  <2> QED BY <1>16, <2>2, <2>3
<1>17. CASE x.type = "SRV"
  BY <1>17 DEF NewRecordFromRR, SrvRecord
<1> QED BY <1>11, <1>12, <1>13, <1>14, <1>15, <1>16, <1>17 DEF Supported

-----------------------------------------------------------------------------
\* What a request leaves in the table is an old row or one of its own lines.

\* The rows that a command writes.
RowsOf(c) == IF HasPtr(c) THEN {RowOf(c), RowOf(PtrOf(c))} ELSE {RowOf(c)}

\* A row that is there after a command was there before, with its key, or has a new
\* ID; and what is not as it was the command has written.
Grown(t, u, written) ==
    /\ u.last >= t.last
    /\ \A i \in DOMAIN u.rows :
          /\ IF i \in DOMAIN t.rows THEN u.rows[i].rec.key = t.rows[i].rec.key ELSE i > t.last
          /\ (i \in DOMAIN t.rows /\ u.rows[i] = t.rows[i]) \/ u.rows[i] \in written

\* One command writes its own row.
LEMMA RunGrows ==
    ASSUME NEW t, IsTable(t), NEW c, IsCommand(c)
    PROVE  Grown(t, Run(t, c), {RowOf(c)})
<1> DEFINE found == SameRecord(t.rows, c.rec)
           u == Run(t, c)
<1>0. t.last \in Nat /\ t.last + 1 \notin DOMAIN t.rows
  BY DEF IsTable
<1>1. CASE /\ DOMAIN u.rows = DOMAIN t.rows \ Dropped(t.rows, c) /\ u.last = t.last
           /\ \A i \in DOMAIN u.rows : u.rows[i] = t.rows[i]
  <2> HIDE DEF u
  <2>1. Grown(t, u, {RowOf(c)})
    BY <1>0, <1>1 DEF Grown
  <2> QED BY <2>1 DEF u
<1>2. CASE /\ DOMAIN u.rows = DOMAIN t.rows /\ u.last = t.last
           /\ \A i \in DOMAIN u.rows :
                 u.rows[i] = IF i \in found THEN RowOf(c) ELSE t.rows[i]
  <2>1. \A i \in found : t.rows[i].rec.key = RowOf(c).rec.key
    BY DEF SameRecord, RowOf
  <2> HIDE DEF u, found
  <2>2. Grown(t, u, {RowOf(c)})
    BY <1>0, <1>2, <2>1 DEF Grown
  <2> QED BY <2>2 DEF u
<1>3. CASE /\ DOMAIN u.rows = DOMAIN t.rows \cup {t.last + 1} /\ u.last = t.last + 1
           /\ \A i \in DOMAIN u.rows :
                 u.rows[i] = IF i = t.last + 1 THEN RowOf(c) ELSE t.rows[i]
  <2> HIDE DEF u
  <2>2. Grown(t, u, {RowOf(c)})
    BY <1>0, <1>3 DEF Grown
  <2> QED BY <2>2 DEF u
<1> QED BY <1>1, <1>2, <1>3, RunForms

\* What grew twice has grown.
LEMMA GrowsOn ==
    ASSUME NEW t, IsTable(t), NEW u, IsTable(u), NEW v, IsTable(v), NEW A, NEW B,
           Grown(t, u, A), Grown(u, v, B)
    PROVE  Grown(t, v, A \cup B)
<1>1. /\ t.last \in Nat /\ u.last \in Nat /\ v.last \in Nat
      /\ u.last >= t.last /\ v.last >= u.last
  BY DEF Grown, IsTable
<1>2. /\ \A i \in DOMAIN t.rows : i \in Nat /\ i <= t.last
      /\ \A i \in DOMAIN u.rows : i \in Nat /\ i <= u.last
      /\ \A i \in DOMAIN v.rows : i \in Nat
  BY DEF IsTable
<1>3. ASSUME NEW i \in DOMAIN v.rows
      PROVE  /\ IF i \in DOMAIN t.rows THEN v.rows[i].rec.key = t.rows[i].rec.key
                                       ELSE i > t.last
             /\ (i \in DOMAIN t.rows /\ v.rows[i] = t.rows[i]) \/ v.rows[i] \in A \cup B
  <2>1. CASE i \in DOMAIN u.rows
    BY <1>1, <1>2, <2>1 DEF Grown
  <2>2. CASE i \notin DOMAIN u.rows
    <3>1. i > u.last /\ v.rows[i] \in B
      BY <2>2 DEF Grown
    <3>2. i > t.last /\ i \notin DOMAIN t.rows
      BY <1>1, <1>2, <3>1
    <3> QED BY <3>1, <3>2
  <2> QED BY <2>1, <2>2
<1>4. v.last >= t.last
  BY <1>1
<1> QED BY <1>3, <1>4 DEF Grown

\* A command and its PTR record write their own rows.
LEMMA CascadeGrows ==
    ASSUME NEW t, IsTable(t), NEW c, IsCommand(c)
    PROVE  Grown(t, RunCascade(t, c), RowsOf(c))
<1> DEFINE u == Run(t, c)
           v == Run(u, PtrOf(c))
<1>1. IsTable(u) /\ Grown(t, u, {RowOf(c)}) /\ IsCommand(PtrOf(c))
  BY RunIsTable, RunGrows, PtrIsCommand
<1>2. IsTable(v) /\ Grown(u, v, {RowOf(PtrOf(c))})
  <2> HIDE DEF u
  <2> QED BY <1>1, RunIsTable, RunGrows
<1>3. RunCascade(t, c) = IF HasPtr(c) THEN v ELSE u
  BY CascadeForm
<1> HIDE DEF u, v
<1>4. Grown(t, v, {RowOf(c)} \cup {RowOf(PtrOf(c))})
  BY <1>1, <1>2, GrowsOn
<1>5. {RowOf(c)} \cup {RowOf(PtrOf(c))} = {RowOf(c), RowOf(PtrOf(c))}
  OBVIOUS
<1> QED BY <1>1, <1>3, <1>4, <1>5 DEF RowsOf

\* The rows after a batch.
LEMMA BatchGrows ==
    ASSUME NEW t, IsTable(t), NEW b, IsBatch(b)
    PROVE  Grown(t, Effect(t, b), UNION {RowsOf(b[m]) : m \in DOMAIN b})
<1> DEFINE L == Len(b)
           st(n) == Stages(t, b)[n]
           W == UNION {RowsOf(b[m]) : m \in DOMAIN b}
           S == {n \in 0..L : Grown(t, st(n), W)}
<1>0. L \in Nat /\ DOMAIN b = 1..L
  BY DEF IsBatch
<1>1. 0 \in S
  <2>1. st(0) = t
    BY <1>0, StagesStep
  <2>2. Grown(t, t, W)
    BY DEF Grown, IsTable
  <2> HIDE DEF W, st
  <2> QED BY <1>0, <2>1, <2>2
<1>2. ASSUME NEW n \in 1..L, n - 1 \in S PROVE n \in S
  <2>1. st(n) = RunCascade(st(n - 1), b[n])
    BY <1>0, StagesStep
  <2>2. n - 1 \in 0..L /\ n \in 0..L /\ n \in DOMAIN b
    BY <1>0
  <2>3. IsTable(st(n - 1)) /\ IsTable(st(n)) /\ IsCommand(b[n])
    BY <2>2, StagesAreTables DEF IsBatch
  <2>4. Grown(t, st(n - 1), W)
    BY <1>2
  <2>5. RowsOf(b[n]) \subseteq W
    BY <2>2
  <2> HIDE DEF W, st
  <2>6. Grown(st(n - 1), st(n), RowsOf(b[n]))
    BY <2>1, <2>3, CascadeGrows
  <2>7. Grown(t, st(n), W \cup RowsOf(b[n]))
    BY <2>3, <2>4, <2>6, GrowsOn
  <2>8. W \cup RowsOf(b[n]) = W
    BY <2>5
  <2> QED BY <2>2, <2>7, <2>8
<1>3. L \in S
  <2>1. \A n \in 0..L : n \in S
    <3> HIDE DEF S
    <3> QED BY <1>0, <1>1, <1>2, Climb
  <2>2. L \in 0..L
    BY <1>0
  <2> HIDE DEF L, st, W, S
  <2> QED BY <2>1, <2>2
<1>4. st(L) = Effect(t, b)
  BY DEF Effect
<1> HIDE DEF W, st
<1> QED BY <1>3, <1>4 DEF W

-----------------------------------------------------------------------------
\* What lines bring in.

\* What a command brings in.
GoodCommand(d) == GoodRec(d.rec) /\ (HasPtr(d) => GoodRec(PtrOf(d).rec))

\* A line brings its record, and the PTR record of an address.
LEMMA BringsForm ==
    ASSUME NEW line, IsLine(line), NEW c
    PROVE  LET l == Substituted(line, Remote[c])
               d == CommandOf(l)
           IN  Brings(line, c) = IF ~ Parses(l) THEN {}
                                 ELSE IF HasPtr(d) THEN {d.rec.rr, PtrOf(d).rec.rr}
                                 ELSE {d.rec.rr}
<1> DEFINE l == Substituted(line, Remote[c])
           d == CommandOf(l)
           cs == Cascade(d)
<1>1. Brings(line, c) = IF Parses(l) THEN {cs[j].rec.rr : j \in DOMAIN cs} ELSE {}
  BY DEF Brings
<1>2. IsCommand(d)
  BY SubstitutedLine, LineIsCommand
<1> HIDE DEF l, d
<1>3. cs = IF HasPtr(d) THEN <<d, PtrOf(d)>> ELSE <<d>>
  BY <1>2, CascadeForm
<1> HIDE DEF cs
<1>4. CASE HasPtr(d)
  <2>1. DOMAIN cs = {1, 2} /\ cs[1] = d /\ cs[2] = PtrOf(d)
    BY <1>3, <1>4
  <2>2. {cs[j].rec.rr : j \in DOMAIN cs} = {d.rec.rr, PtrOf(d).rec.rr}
    BY <2>1
  <2> QED BY <1>1, <1>4, <2>2 DEF l, d
<1>5. CASE ~ HasPtr(d)
  <2>1. DOMAIN cs = {1} /\ cs[1] = d
    BY <1>3, <1>5
  <2>2. {cs[j].rec.rr : j \in DOMAIN cs} = {d.rec.rr}
    BY <2>1
  <2> QED BY <1>1, <1>5, <2>2 DEF l, d
<1> QED BY <1>4, <1>5

\* It depends on the text of the line only.
LEMMA SameBrings ==
    ASSUME NEW k, IsLine(k), NEW l, IsLine(l), k.form = l.form, k.rr = l.rr, NEW c
    PROVE  Brings(k, c) = Brings(l, c)
<1> DEFINE m == Substituted(k, Remote[c])
           n == Substituted(l, Remote[c])
           d == CommandOf(m)
           e == CommandOf(n)
<1>1. m.form = n.form /\ m.rr = n.rr /\ IsLine(m) /\ IsLine(n)
  <2> DEFINE new(rr) == [rr EXCEPT !.data = [i \in DOMAIN @ |-> IF @[i] = "$ADDR"
                                                                THEN Remote[c] ELSE @[i]]]
  <2>1. /\ m.form = k.form /\ m.rr = new(k.rr) /\ IsLine(m)
        /\ n.form = l.form /\ n.rr = new(l.rr) /\ IsLine(n)
    BY SubstitutedLine
  <2> HIDE DEF m, n, new
  <2> QED BY <2>1
<1> HIDE DEF m, n
<1>2. Parses(m) = Parses(n)
  BY <1>1 DEF Parses
<1>3. d.rec = e.rec
  BY <1>1, LineIsCommand
<1> HIDE DEF d, e
<1>4. HasPtr(d) = HasPtr(e) /\ PtrOf(d).rec = PtrOf(e).rec
  BY <1>3 DEF HasPtr, PtrOf
<1>5. /\ Brings(k, c) = IF ~ Parses(m) THEN {}
                        ELSE IF HasPtr(d) THEN {d.rec.rr, PtrOf(d).rec.rr} ELSE {d.rec.rr}
      /\ Brings(l, c) = IF ~ Parses(n) THEN {}
                        ELSE IF HasPtr(e) THEN {e.rec.rr, PtrOf(e).rec.rr} ELSE {e.rec.rr}
  BY BringsForm DEF m, n, d, e
<1> QED BY <1>2, <1>3, <1>4, <1>5

\* The command of a line that brings texts of ZoneRRs is a good one.
LEMMA LineIsGood ==
    ASSUME NEW line, IsLine(line), NEW c, Brings(line, c) \subseteq ZoneRRs,
           Parses(Substituted(line, Remote[c]))
    PROVE  GoodCommand(CommandOf(Substituted(line, Remote[c])))
<1> DEFINE l == Substituted(line, Remote[c])
           d == CommandOf(l)
<1>1. /\ d.rec = NewRecordFromRR(l.rr) /\ Supported(l.rr)
  BY SubstitutedLine, LineIsCommand DEF Parses
<1>2. Brings(line, c) = IF HasPtr(d) THEN {d.rec.rr, PtrOf(d).rec.rr} ELSE {d.rec.rr}
  BY BringsForm
<1> HIDE DEF l, d
<1>3. d.rec.rr \in ZoneRRs /\ (HasPtr(d) => PtrOf(d).rec.rr \in ZoneRRs)
  BY <1>2
<1>4. d.rec.rr # NoRR
  BY <1>3, NoTextOfNoRR, ZoneAssumption
<1>5. GoodRec(d.rec)
  <2>1. d.rec = NewRecordFromRR(d.rec.rr)
    BY <1>1, <1>4, SameAgain
  <2> QED BY <1>3, <2>1 DEF GoodRec
<1>6. HasPtr(d) => GoodRec(PtrOf(d).rec)
  <2>1. PtrOf(d).rec = PtrRecord(ReverseName[d.rec.rr.data[1]], d.rec.ttl, d.rec.name)
    BY DEF PtrOf
  <2>2. PtrOf(d).rec = NewRecordFromRR(PtrOf(d).rec.rr)
    BY <2>1, PtrAgain
  <2> QED BY <1>3, <2>2 DEF GoodRec
<1> QED BY <1>5, <1>6 DEF GoodCommand, d, l

-----------------------------------------------------------------------------
\* Every record in the table, and every one a client was shown or asks for, came
\* through a Go record type.

Brought ==
    /\ \A i \in DOMAIN rows : GoodRec(rows[i].rec)
    /\ \A c \in Clients : \A l \in reply[c].lines : GoodRec(l.rec)
    /\ \A c \in Clients : \A i \in DOMAIN request[c].body :
          Brings(request[c].body[i], c) \subseteq ZoneRRs

\* So are the commands of a request.
LEMMA CommandsAreGood ==
    ASSUME ApiInv, Brought, NEW c \in Clients, NEW m \in DOMAIN CommandsOf(c)
    PROVE  GoodCommand(CommandsOf(c)[m])
<1> DEFINE body == request[c].body
           lines == Lines(request[c], Remote[c])
           b == NewDynamicRecordSet(lines)
           R == {CommandOf(lines[i]) : i \in {j \in DOMAIN lines : Parses(lines[j])}}
<1>1. IsBody(body) /\ IsBody(lines)
  BY LinesAreBody DEF ApiInv
<1>2. \A i \in DOMAIN lines :
         /\ i \in DOMAIN body /\ lines[i] = Substituted(body[i], Remote[c])
         /\ IsLine(body[i]) /\ Brings(body[i], c) \subseteq ZoneRRs
  BY <1>1 DEF Lines, Brought, IsBody
<1>3. \A d \in R : GoodCommand(d)
  <2> HIDE DEF lines, body
  <2> QED BY <1>2, LineIsGood
<1>4. b \in Seq(R)
  BY <1>1, ReadFrom
<1> HIDE DEF R, lines, body
<1>5. \A i \in DOMAIN b : GoodCommand(b[i])
  BY <1>3, <1>4
<1>6. IsBatch(b)
  BY <1>1, ParsedIsBatch
<1> HIDE DEF b
<1>7. \A i \in DOMAIN Flipped(b) : GoodCommand(Flipped(b)[i])
  <2>1. DOMAIN Flipped(b) = DOMAIN b
    BY DEF Flipped
  <2>2. \A i \in DOMAIN b : Flipped(b)[i].rec = b[i].rec
    BY <1>6, FlippedForm
  <2> QED BY <1>5, <2>1, <2>2 DEF GoodCommand, HasPtr, PtrOf
<1>8. CommandsOf(c) = b \/ CommandsOf(c) = Flipped(b)
  BY DEF CommandsOf, b, lines
<1> QED BY <1>5, <1>7, <1>8

-----------------------------------------------------------------------------
\* No step brings in what no request asked for.

\* A client sends back the texts it was shown.
LEMMA ListedLines ==
    ASSUME NEW lines, IsListing(lines), NEW i \in DOMAIN Listing(lines)
    PROVE  \E l \in lines : /\ Listing(lines)[i].form = "record"
                            /\ Listing(lines)[i].rr = l.rec.rr
<1> DEFINE N == Cardinality(lines)
           nth(n) == CHOOSE l \in lines : Cardinality({k \in lines : k.id <= l.id}) = n
<1>1. Listing(lines) = [n \in 1..N |-> [form |-> "record", disabled |-> FALSE,
                                        rr |-> nth(n).rec.rr, id |-> nth(n).id,
                                        volatile |-> nth(n).volatile]]
  BY DEF Listing
<1>2. i \in 1..N
  BY <1>1
<1>3. nth(i) \in lines
  <2>1. \E l \in lines : Cardinality({k \in lines : k.id <= l.id}) = i
    BY <1>2, Ranked DEF IsListing
  <2> QED BY <2>1
<1> HIDE DEF nth, N
<1> QED BY <1>1, <1>2, <1>3

\* A request that is sent brings texts of ZoneRRs.
LEMMA SendBrings ==
    ASSUME ApiInv, Brought, NEW c \in Clients, NEW r, Send(c, r),
           \A i \in DOMAIN r.body : Brings(r.body[i], c) \subseteq ZoneRRs
    PROVE  Brought'
<1>1. request' = [request EXCEPT ![c] = r] /\ reply' = [reply EXCEPT ![c].status = 0]
      /\ rows' = rows
  BY DEF Send, tableVars
<1>2. \A d \in Clients : request'[d] = IF d = c THEN r ELSE request[d]
  BY <1>1 DEF ApiInv
<1>3. \A d \in Clients : reply'[d].lines = reply[d].lines
  <2>1. \A d \in Clients : d # c => reply'[d] = reply[d]
    BY <1>1 DEF ApiInv
  <2>2. reply'[c] = [reply[c] EXCEPT !.status = 0]
    BY <1>1 DEF ApiInv
  <2>3. reply[c] = [status |-> reply[c].status, add |-> reply[c].add, del |-> reply[c].del,
                    lines |-> reply[c].lines]
    BY DEF ApiInv, IsReply
  <2>4. reply'[c].lines = reply[c].lines
    BY <2>2, <2>3
  <2> QED BY <2>1, <2>4
<1>4. \A d \in Clients : \A i \in DOMAIN request'[d].body :
         Brings(request'[d].body[i], d) \subseteq ZoneRRs
  BY <1>2 DEF Brought
<1> QED BY <1>1, <1>3, <1>4 DEF Brought

\* A reply shows rows of the table.
LEMMA RepliesBring ==
    ASSUME ApiInv, Brought, NEW c \in Clients, NEW status, NEW add, NEW del, NEW lines,
           Replies(c, status, add, del, lines), \A l \in lines : GoodRec(l.rec),
           \A i \in DOMAIN rows' : GoodRec(rows'[i].rec)
    PROVE  Brought'
<1> DEFINE r == [status |-> status, add |-> add, del |-> del, lines |-> lines]
<1>1. reply' = [reply EXCEPT ![c] = r] /\ request' = request /\ r.lines = lines
  BY DEF Replies
<1> HIDE DEF r
<1>2. \A d \in Clients : reply'[d] = IF d = c THEN r ELSE reply[d]
  BY <1>1 DEF ApiInv
<1>3. \A d \in Clients : \A l \in reply'[d].lines : GoodRec(l.rec)
  BY <1>1, <1>2 DEF Brought
<1> QED BY <1>1, <1>3 DEF Brought

\* The rows after a request.
LEMMA EffectIsGood ==
    ASSUME ApiInv, Brought, NEW c \in Clients,
           NEW i \in DOMAIN Effect(Table, CommandsOf(c)).rows
    PROVE  GoodRec(Effect(Table, CommandsOf(c)).rows[i].rec)
<1> DEFINE b == CommandsOf(c)
           u == Effect(Table, b)
<1>1. IsTable(Table) /\ IsBatch(b)
  BY CommandsAreBatch DEF ApiInv
<1>2. \A m \in DOMAIN b : GoodCommand(b[m])
  BY CommandsAreGood
<1> HIDE DEF b
<1>3. Grown(Table, u, UNION {RowsOf(b[m]) : m \in DOMAIN b})
  BY <1>1, BatchGrows
<1>4. i \in DOMAIN u.rows
  BY DEF b
<1> HIDE DEF u
<1>5. CASE i \in DOMAIN Table.rows /\ u.rows[i] = Table.rows[i]
  BY <1>5 DEF Brought, Table, u, b
<1>6. ASSUME NEW m \in DOMAIN b, u.rows[i] \in RowsOf(b[m]) PROVE GoodRec(u.rows[i].rec)
  <2>1. \/ u.rows[i] = RowOf(b[m])
        \/ HasPtr(b[m]) /\ u.rows[i] = RowOf(PtrOf(b[m]))
    BY <1>6 DEF RowsOf
  <2>2. \/ u.rows[i].rec = b[m].rec
        \/ HasPtr(b[m]) /\ u.rows[i].rec = PtrOf(b[m]).rec
    BY <2>1 DEF RowOf
  <2> QED BY <1>2, <2>2 DEF GoodCommand
<1>7. (i \in DOMAIN Table.rows /\ u.rows[i] = Table.rows[i])
      \/ u.rows[i] \in UNION {RowsOf(b[m]) : m \in DOMAIN b}
  BY <1>3, <1>4 DEF Grown
<1> QED BY <1>5, <1>6, <1>7 DEF u, b

\* A request that is handled, ...
LEMMA HandleBrings ==
    ASSUME ApiInv, Brought, NEW c \in Clients, Handle(c)
    PROVE  Brought'
<1>1. ASSUME NEW status, Refuses(c, status) PROVE Brought'
  BY <1>1, RepliesBring DEF Refuses, tableVars, Brought
<1>2. CASE Reject(c) \/ BadRequest(c) \/ Abort(c)
  BY <1>1, <1>2 DEF Reject, BadRequest, Abort
<1>3. CASE SetRecords(c)
  <2> DEFINE b == CommandsOf(c)
             adds == CountOf(b, FALSE)
             dels == CountOf(b, TRUE)
  <2>1. Replies(c, 200, adds, dels, {}) /\ rows' = Effect(Table, CommandsOf(c)).rows
    BY <1>3 DEF SetRecords, SetsTable
  <2>2. \A i \in DOMAIN rows' : GoodRec(rows'[i].rec)
    BY <2>1, EffectIsGood
  <2> HIDE DEF adds, dels
  <2> QED BY <2>1, <2>2, RepliesBring
<1>4. CASE DeleteRecordByID(c)
  <2> DEFINE id == request[c].id
  <2>1. CASE id \in DOMAIN rows
    <3>1. rows' = Without(rows, {id}) /\ Replies(c, 200, 0, 0, {})
      BY <1>4, <2>1 DEF DeleteRecordByID
    <3>2. \A i \in DOMAIN rows' : GoodRec(rows'[i].rec)
      BY <3>1 DEF Without, Brought
    <3> QED BY <3>1, <3>2, RepliesBring
  <2>2. CASE id \notin DOMAIN rows
    BY <1>1, <1>4, <2>2 DEF DeleteRecordByID
  <2> QED BY <2>1, <2>2
<1>5. CASE Get(c)
  <2> DEFINE W == Wanted(request[c])
             L == {[id |-> i, rec |-> rows[i].rec, volatile |-> rows[i].volatile] : i \in W}
  <2>1. CASE request[c].path = "/v1/id/" /\ W = {}
    BY <1>1, <1>5, <2>1 DEF Get
  <2>2. CASE ~ (request[c].path = "/v1/id/" /\ W = {})
    <3>1. Replies(c, 200, 0, 0, L) /\ UNCHANGED tableVars
      BY <1>5, <2>2 DEF Get
    <3>2. request[c].path \in {"/v1", "/v1/id/", "/v1/suffix/", "/v1/glob/"}
      <4>1. Methods(request[c].path) # {}
        BY <1>5 DEF Get, Accepted, Served
      <4> QED BY <4>1 DEF Methods
    <3>3. W \subseteq DOMAIN rows
      BY <3>2 DEF Wanted, SuffixIds
    <3> HIDE DEF W
    <3>4. \A l \in L : GoodRec(l.rec)
      BY <3>3 DEF Brought
    <3>5. \A i \in DOMAIN rows' : GoodRec(rows'[i].rec)
      BY <3>1 DEF tableVars, Brought
    <3> HIDE DEF L
    <3> QED BY <3>1, <3>4, <3>5, RepliesBring
  <2> QED BY <2>1, <2>2
<1>6. CASE ResolverFails(c)
  <2>1. rows' = rows /\ Replies(c, 500, 0, 0, {})
    BY <1>6 DEF ResolverFails, RolledBack, SetsTable, Table
  <2> QED BY <2>1, RepliesBring DEF Brought
<1> QED BY <1>2, <1>3, <1>4, <1>5, <1>6 DEF Handle

\* ... and any step of the API, brings in good records only.
LEMMA BroughtNext ==
    ASSUME ApiInv, Brought, [ApiNext]_apiVars
    PROVE  Brought'
<1>1. ASSUME NEW c \in Clients, NEW r \in Requests, Send(c, r) PROVE Brought'
  BY <1>1, ZoneAssumption, SendBrings
<1>2. ASSUME NEW c \in Clients, NEW method, SendBack(c, method) PROVE Brought'
  <2> DEFINE lines == reply[c].lines
             r == [method |-> method, path |-> "/v1", id |-> NotANumber, items |-> <<>>,
                   body |-> Listing(lines)]
  <2>1. Send(c, r)
    BY <1>2 DEF SendBack
  <2>2. IsListing(lines) /\ \A l \in lines : GoodRec(l.rec)
    BY DEF ApiInv, IsReply, Brought
  <2>3. r.body = Listing(lines)
    OBVIOUS
  <2> HIDE DEF r, lines
  <2>4. ASSUME NEW i \in DOMAIN Listing(lines)
        PROVE  Brings(Listing(lines)[i], c) \subseteq ZoneRRs
    <3> DEFINE x == Listing(lines)[i]
    <3>1. IsLine(x)
      BY <2>2, ListingIsBody DEF IsBody
    <3>2. PICK l \in lines : x.form = "record" /\ x.rr = l.rec.rr
      BY <2>2, ListedLines
    <3> HIDE DEF x
    <3> DEFINE rr == l.rec.rr
    <3>3. rr \in ZoneRRs
      BY <2>2, <3>2 DEF GoodRec
    <3>4. IsLine(LineOf(rr)) /\ LineOf(rr).form = x.form /\ LineOf(rr).rr = x.rr
      BY <3>2 DEF IsLine, LineOf
    <3> HIDE DEF rr
    <3>5. Brings(x, c) = Brings(LineOf(rr), c)
      BY <3>1, <3>4, SameBrings
    <3>6. Brings(LineOf(rr), c) \subseteq ZoneRRs
      BY <3>3, ZoneAssumption
    <3>7. Brings(x, c) \subseteq ZoneRRs
      BY <3>5, <3>6
    <3> QED BY <3>7 DEF x
  <2>5. \A i \in DOMAIN r.body : Brings(r.body[i], c) \subseteq ZoneRRs
    BY <2>3, <2>4
  <2> QED BY <2>1, <2>5, SendBrings
<1>3. ASSUME NEW c \in Clients, Handle(c) PROVE Brought'
  BY <1>3, HandleBrings
<1>4. ASSUME NEW i \in DOMAIN rows, Expire(i) PROVE Brought'
  <2>1. rows' = Without(rows, {i}) /\ request' = request /\ reply' = reply
    BY <1>4 DEF Expire
  <2>2. \A j \in DOMAIN rows' : GoodRec(rows'[j].rec)
    BY <2>1 DEF Without, Brought
  <2> QED BY <2>1, <2>2 DEF Brought
<1>5. CASE UNCHANGED apiVars
  BY <1>5 DEF apiVars, Brought
<1> QED BY <1>1, <1>2, <1>3, <1>4, <1>5 DEF ApiNext

\* At the start there is nothing.
LEMMA BroughtInit == Init => Brought
<1> SUFFICES ASSUME Init PROVE Brought
  OBVIOUS
<1> DEFINE first == CHOOSE r \in Requests : TRUE
<1>1. first \in Requests
  BY BodyAssumption
<1>2. request \in [Clients -> {first}]
  BY DEF Init
<1> HIDE DEF first
<1>3. \A c \in Clients : request[c] = first
  BY <1>2
<1>4. \A c \in Clients : reply[c].lines = {}
  BY DEF Init
<1>5. DOMAIN rows = {}
  BY DEF Init
<1> QED BY <1>1, <1>3, <1>4, <1>5, ZoneAssumption DEF Brought

-----------------------------------------------------------------------------
\* The chain inside the server.

\* What the API keeps holds in every state of the server.
LEMMA BroughtHolds == LandnsSpec => [](ApiInv /\ Brought)
<1>1. Init => ApiInv /\ Brought
  BY InvInit, BroughtInit
<1>2. ApiInv /\ Brought /\ [ApiNext]_apiVars => (ApiInv /\ Brought)'
  <2>1. ASSUME ApiInv, Brought, [ApiNext]_apiVars PROVE Brought'
    BY <2>1, BroughtNext
  <2>2. ApiInv /\ [ApiNext]_apiVars => ApiInv'
    BY InvNext
  <2> QED BY <2>1, <2>2
<1>3. ApiSpec => [](ApiInv /\ Brought)
  BY <1>1, <1>2, PTL DEF ApiSpec
<1> QED BY <1>3, IncludesApi

\* A step is a step of the chain: of a handler, of a cache, or a change of the zone.
LEMMA StepOfChain ==
    ASSUME Brought', LandnsNext
    PROVE  [Chain!Next]_(Chain!chainVars)
<1>0. ZoneOf(rows)' \in SUBSET ZoneRRs
  BY DEF ZoneOf, Brought, GoodRec
<1>1. ASSUME chainState' = chainState PROVE Chain!ZoneChanges
  BY <1>0, <1>1 DEF Chain!ZoneChanges, Chain!handlerVars, chainState
<1>2. ASSUME NEW c \in Clients, SendRequest(c) \/ HandleRequest(c) PROVE Chain!ZoneChanges
  BY <1>1, <1>2 DEF SendRequest, HandleRequest
<1>3. ASSUME ExpireRow PROVE Chain!ZoneChanges
  BY <1>1, <1>3 DEF ExpireRow
<1>4. ASSUME NEW h \in Handlers, ReceiveMessage(h) \/ ServeMessage(h) PROVE Chain!ChainNext
  BY <1>4 DEF ReceiveMessage, ServeMessage, Chain!ChainNext
<1>5. ASSUME CacheForgets PROVE Chain!ChainNext
  BY <1>5 DEF CacheForgets, Chain!ChainNext
<1> QED BY <1>2, <1>3, <1>4, <1>5 DEF LandnsNext, Chain!Next

\* What leaves the server alone leaves the chain alone.
LEMMA ChainStays ==
    ASSUME UNCHANGED vars
    PROVE  UNCHANGED Chain!chainVars
BY DEF vars, apiVars, chainState, Chain!chainVars, ZoneOf

\* The server contains the resolver chain as it is: whatever clients of the REST API
\* do, the dynamic zone the resolvers see is one of the zones ResolverChain lets
\* appear at any moment (Resolver.Resolve of the dynamic zone reads the table).
THEOREM IncludesChain == LandnsSpec => Chain!Spec
<1>1. LandnsInit => Chain!Init
  BY DEF LandnsInit
<1>2. (ApiInv /\ Brought)' /\ [LandnsNext]_vars => [Chain!Next]_(Chain!chainVars)
  BY StepOfChain, ChainStays
<1> QED BY <1>1, <1>2, BroughtHolds, PTL DEF LandnsSpec, Chain!Spec

\* A step of the one chain is a step of the other.
LEMMA SameNext == [Chain!Next]_(Chain!chainVars) => [Path!Next]_(Path!chainVars)
<1>1. Chain!ChainNext => Path!ChainNext
  <2>1. ASSUME NEW h \in Handlers, Chain!Serve(h) PROVE Path!Serve(h)
    BY <2>1, SameServe
  <2>2. ASSUME NEW h \in Handlers, NEW m \in Messages, Chain!Receive(h, m)
        PROVE  Path!Receive(h, m)
    BY <2>2, SameReceive
  <2>3. ASSUME NEW k \in Chain!Questions, Chain!Forget(k)
        PROVE  k \in Path!Questions /\ Path!Forget(k)
    BY <2>3, SameForget
  <2> QED BY <2>1, <2>2, <2>3 DEF Chain!ChainNext, Path!ChainNext
<1>2. Chain!ZoneChanges => Path!ZoneChanges
  BY DEF Chain!ZoneChanges, Path!ZoneChanges, Chain!handlerVars, Path!handlerVars
<1>3. Chain!chainVars = Path!chainVars /\ (Chain!chainVars)' = (Path!chainVars)'
  BY DEF Chain!chainVars, Path!chainVars
<1> QED BY <1>1, <1>2, <1>3 DEF Chain!Next, Path!Next

\* The invariant of ResolverChainProofs holds of the server.
LEMMA PathHolds == LandnsSpec => []Path!RInv
<1>1. Chain!Init => Path!RInv
  BY SameInit, PathInit
<1>2. Path!RInv /\ [Chain!Next]_(Chain!chainVars) => Path!RInv'
  BY SameNext, PathNext
<1>3. Chain!Spec => []Path!RInv
  BY <1>1, <1>2, PTL DEF Chain!Spec
<1> QED BY <1>3, IncludesChain

\* The two chains behave the same.
LEMMA SameSpec == Chain!Spec => Path!Spec
BY SameInit, SameNext, PTL DEF Chain!Spec, Path!Spec

\* The server with its REST API implements the name service: each reply is what the
\* local zones had at one moment of the call, or comes from elsewhere and they had
\* nothing then, while clients change the dynamic zone in the middle of it
\* (Handler.ServeDNS, handler.go).
THEOREM ServesNames == LandnsSpec => Path!ServiceSpec
<1>1. Path!Spec => Path!ServiceSpec
  BY Assumed, Path!ImplementsService
<1> QED BY <1>1, SameSpec, IncludesChain

-----------------------------------------------------------------------------
\* A batch, unfolded, and what it leaves under one key.

\* A batch is unfolded command by command.
LEMMA UnfoldStep ==
    ASSUME NEW b, Len(b) \in Nat
    PROVE  /\ UnfoldUpTo(b)[0] = <<>>
           /\ \A n \in 1..Len(b) : UnfoldUpTo(b)[n] = UnfoldUpTo(b)[n - 1] \o Cascade(b[n])
<1> DEFINE L == Len(b)
           Def(g, m) == g = [n \in 0..m |-> IF n = 0 THEN <<>>
                                            ELSE g[n - 1] \o Cascade(b[n])]
           S == {m \in 0..L : \E g : Def(g, m)}
<1>1. 0 \in S
  <2>1. Def([n \in 0..0 |-> <<>>], 0)
    OBVIOUS
  <2>2. \E g : Def(g, 0)
    <3> HIDE DEF Def
    <3> QED BY <2>1
  <2> HIDE DEF Def
  <2> QED BY <2>2
<1>2. ASSUME NEW m \in 1..L, m - 1 \in S PROVE m \in S
  <2>1. PICK g : Def(g, m - 1)
    BY <1>2
  <2> DEFINE On(s, n) == s \o Cascade(b[n])
             h == [n \in 0..m |-> IF n = m THEN On(g[m - 1], m) ELSE g[n]]
  <2>2. ASSUME NEW n \in 0..m
        PROVE  h[n] = IF n = 0 THEN <<>> ELSE On(h[n - 1], n)
    <3>1. CASE n = m
      <4>1. h[n] = On(g[m - 1], m) /\ h[n - 1] = g[n - 1] /\ n # 0
        BY <3>1
      <4> HIDE DEF On, h
      <4> QED BY <3>1, <4>1
    <3>2. CASE n # m /\ n # 0
      <4>1. n \in 0..m-1 /\ n - 1 \in 0..m /\ n - 1 # m
        BY <3>2
      <4>2. h[n] = g[n] /\ h[n - 1] = g[n - 1]
        BY <3>2, <4>1
      <4>3. g[n] = On(g[n - 1], n)
        BY <2>1, <3>2, <4>1
      <4> HIDE DEF On, h
      <4> QED BY <3>2, <4>2, <4>3
    <3>3. CASE n # m /\ n = 0
      <4>1. 0 \in 0..m-1
        OBVIOUS
      <4>2. g[0] = <<>>
        BY <2>1, <4>1
      <4> QED BY <3>3, <4>2
    <3> QED BY <3>1, <3>2, <3>3
  <2>3. Def(h, m)
    <3>1. h = [n \in 0..m |-> h[n]]
      OBVIOUS
    <3> HIDE DEF h
    <3> QED BY <2>2, <3>1
  <2> HIDE DEF Def, h
  <2> QED BY <2>3
<1>3. L \in S
  <2>1. \A n \in 0..L : n \in S
    <3> HIDE DEF S
    <3> QED BY <1>1, <1>2, Climb
  <2>2. L \in 0..L
    OBVIOUS
  <2> HIDE DEF S
  <2> QED BY <2>1, <2>2
<1>4. \E g : Def(g, L)
  BY <1>3
<1>5. UnfoldUpTo(b) = CHOOSE g : Def(g, L)
  BY DEF UnfoldUpTo
<1>6. Def(UnfoldUpTo(b), L)
  BY <1>4, <1>5
<1> QED BY <1>6

\* What the last command on a key has left under it.
Reflects(cs, t, u, k) ==
    /\ (\A i \in DOMAIN cs : cs[i].rec.key # k) => Held(u, k) = Held(t, k)
    /\ \A i \in LastOn(cs, k) :
          /\ ~ cs[i].disabled => Held(u, k) = {RowOf(cs[i])}
          /\ (/\ cs[i].disabled /\ cs[i].id = NoId
              /\ \A j \in DOMAIN cs : cs[j].rec.key = k => j = i) =>
                Held(u, k) = {x \in Held(t, k) : x.rec.ttl # cs[i].rec.ttl}

\* One command more.
LEMMA ReflectsOn ==
    ASSUME NEW t, NEW u, IsTable(u), NEW R, NEW cs \in Seq(R), NEW c, IsCommand(c), NEW k,
           Reflects(cs, t, u, k)
    PROVE  Reflects(Append(cs, c), t, Run(u, c), k)
<1> DEFINE ds == Append(cs, c)
           n == Len(cs)
           v == Run(u, c)
<1>1. /\ n \in Nat /\ DOMAIN cs = 1..n /\ DOMAIN ds = 1..n+1 /\ ds[n + 1] = c
      /\ \A i \in 1..n : ds[i] = cs[i]
  OBVIOUS
<1>2. /\ c.rec.key # k => Held(v, k) = Held(u, k)
      /\ c.rec.key = k /\ ~ c.disabled => Held(v, k) = {RowOf(c)}
      /\ c.rec.key = k /\ c.disabled /\ c.id = NoId =>
            Held(v, k) = {x \in Held(u, k) : x.rec.ttl # c.rec.ttl}
  BY RunHolds
<1> HIDE DEF ds, n, v
<1>3. CASE c.rec.key = k
  <2>1. \A i \in LastOn(ds, k) : i = n + 1
    BY <1>1, <1>3 DEF LastOn
  <2>2. ~ (\A i \in DOMAIN ds : ds[i].rec.key # k)
    BY <1>1, <1>3
  <2>3. ASSUME \A j \in DOMAIN ds : ds[j].rec.key = k => j = n + 1
        PROVE  Held(u, k) = Held(t, k)
    <3>1. \A j \in DOMAIN cs : cs[j].rec.key # k
      BY <1>1, <2>3
    <3> QED BY <3>1 DEF Reflects
  <2>4. Reflects(ds, t, v, k)
    BY <1>1, <1>2, <1>3, <2>1, <2>2, <2>3 DEF Reflects
  <2> QED BY <2>4 DEF ds, v
<1>4. CASE c.rec.key # k
  <2>1. (\A i \in DOMAIN ds : ds[i].rec.key # k) => \A i \in DOMAIN cs : cs[i].rec.key # k
    BY <1>1
  <2>2. ASSUME NEW i \in LastOn(ds, k)
        PROVE  /\ i \in LastOn(cs, k) /\ ds[i] = cs[i]
               /\ (\A j \in DOMAIN ds : ds[j].rec.key = k => j = i) =>
                     \A j \in DOMAIN cs : cs[j].rec.key = k => j = i
    <3>1. i \in 1..n
      BY <1>1, <1>4 DEF LastOn
    <3> QED BY <1>1, <3>1 DEF LastOn
  <2>3. Held(v, k) = Held(u, k)
    BY <1>2, <1>4
  <2>4. Reflects(ds, t, v, k)
    BY <2>1, <2>2, <2>3 DEF Reflects
  <2> QED BY <2>4 DEF ds, v
<1> QED BY <1>3, <1>4

\* A command and its PTR record are two commands.
LEMMA TwoMore ==
    ASSUME NEW R, NEW s \in Seq(R), NEW x, NEW y
    PROVE  /\ s \o <<x>> = Append(s, x)
           /\ s \o <<x, y>> = Append(Append(s, x), y)
OBVIOUS

\* What a command is carried out as.
Carried(c) == IF HasPtr(c) THEN {c, PtrOf(c)} ELSE {c}

KeysOf(cs) == {cs[i].rec.key : i \in DOMAIN cs}

\* The keys of a batch with one command more.
LEMMA KeysOn ==
    ASSUME NEW R, NEW cs \in Seq(R), NEW c
    PROVE  KeysOf(Append(cs, c)) = KeysOf(cs) \cup {c.rec.key}
<1> DEFINE ds == Append(cs, c)
           n == Len(cs)
<1>1. /\ n \in Nat /\ DOMAIN cs = 1..n /\ DOMAIN ds = 1..n+1 /\ ds[n + 1] = c
      /\ \A i \in 1..n : ds[i] = cs[i]
  OBVIOUS
<1> HIDE DEF ds, n
<1>2. KeysOf(ds) = KeysOf(cs) \cup {c.rec.key}
  BY <1>1 DEF KeysOf
<1> QED BY <1>2 DEF ds

\* The first n commands of a batch, unfolded: what each stands for, the keys they
\* are about, and what they leave.
LEMMA UnfoldsUpTo ==
    ASSUME NEW t, IsTable(t), NEW b, IsBatch(b), NEW k
    PROVE  \A n \in 0..Len(b) :
              /\ UnfoldUpTo(b)[n] \in Seq(UNION {Carried(b[m]) : m \in DOMAIN b})
              /\ KeysOf(UnfoldUpTo(b)[n]) = UNION {Keys(b[m]) : m \in 1..n}
              /\ Reflects(UnfoldUpTo(b)[n], t, Stages(t, b)[n], k)
<1> DEFINE L == Len(b)
           R == UNION {Carried(b[m]) : m \in DOMAIN b}
           U(n) == UnfoldUpTo(b)[n]
           T(n) == Stages(t, b)[n]
           P(n) == /\ U(n) \in Seq(R) /\ KeysOf(U(n)) = UNION {Keys(b[m]) : m \in 1..n}
                   /\ Reflects(U(n), t, T(n), k)
           S == {n \in 0..L : P(n)}
<1>0. L \in Nat /\ DOMAIN b = 1..L
  BY DEF IsBatch
<1>1. 0 \in S
  <2>1. U(0) = <<>> /\ T(0) = t
    BY <1>0, StagesStep, UnfoldStep
  <2>2. U(0) \in Seq(R)
    <3>1. <<>> \in Seq(R)
      OBVIOUS
    <3> HIDE DEF R, U
    <3> QED BY <2>1, <3>1
  <2> HIDE DEF R, U, T
  <2>3. KeysOf(U(0)) = {} /\ UNION {Keys(b[m]) : m \in 1..0} = {}
    BY <2>1 DEF KeysOf
  <2>4. Reflects(U(0), t, T(0), k)
    BY <2>1 DEF Reflects, LastOn
  <2>5. P(0) /\ 0 \in 0..L
    BY <1>0, <2>2, <2>3, <2>4
  <2> HIDE DEF P, L
  <2> QED BY <2>5
<1>2. ASSUME NEW n \in 1..L, n - 1 \in S PROVE n \in S
  <2> DEFINE c == b[n]
             p == PtrOf(c)
             u == T(n - 1)
             s == U(n - 1)
  <2>0. n - 1 \in 0..L /\ n \in 0..L /\ n \in DOMAIN b
    BY <1>0
  <2>1. T(n) = RunCascade(u, c) /\ U(n) = s \o Cascade(c)
    <3>1. Stages(t, b)[n] = RunCascade(Stages(t, b)[n - 1], b[n])
      BY <1>0, StagesStep
    <3>2. UnfoldUpTo(b)[n] = UnfoldUpTo(b)[n - 1] \o Cascade(b[n])
      BY <1>0, UnfoldStep
    <3> QED BY <3>1, <3>2
  <2>2. IsTable(u) /\ IsCommand(c) /\ IsCommand(p)
    BY <2>0, StagesAreTables, PtrIsCommand DEF IsBatch
  <2>3. Carried(c) \subseteq R
    BY <2>0
  <2>4. /\ s \in Seq(R) /\ KeysOf(s) = UNION {Keys(b[m]) : m \in 1..n-1}
        /\ Reflects(s, t, u, k)
    BY <1>2
  <2>5. UNION {Keys(b[m]) : m \in 1..n} = (UNION {Keys(b[m]) : m \in 1..n-1}) \cup Keys(c)
    <3>1. 1..n = (1..n-1) \cup {n}
      BY <1>0
    <3> QED BY <3>1
  <2> HIDE DEF R, U, T, L, c, p, u, s
  <2>6. /\ Append(s, c) \in Seq(R)
        /\ KeysOf(Append(s, c)) = KeysOf(s) \cup {c.rec.key}
        /\ Reflects(Append(s, c), t, Run(u, c), k)
    <3>1. c \in R
      BY <2>3 DEF Carried
    <3>2. Append(s, c) \in Seq(R)
      BY <2>4, <3>1
    <3> QED BY <2>2, <2>4, <3>2, KeysOn, ReflectsOn
  <2>7. CASE ~ HasPtr(c)
    <3>1. U(n) = Append(s, c) /\ T(n) = Run(u, c)
      BY <2>1, <2>2, <2>4, <2>7, CascadeForm, TwoMore
    <3>2. Keys(c) = {c.rec.key}
      BY <2>7 DEF Keys
    <3>3. P(n)
      BY <2>4, <2>5, <2>6, <3>1, <3>2
    <3> HIDE DEF P
    <3> QED BY <2>0, <3>3
  <2>8. CASE HasPtr(c)
    <3> DEFINE s1 == Append(s, c)
               u1 == Run(u, c)
    <3>1. U(n) = Append(s1, p) /\ T(n) = Run(u1, p)
      <4>1. Cascade(c) = <<c, p>> /\ RunCascade(u, c) = Run(Run(u, c), p)
        BY <2>2, <2>8, CascadeForm DEF p
      <4>2. s \o <<c, p>> = Append(Append(s, c), p)
        BY <2>4, TwoMore
      <4> QED BY <2>1, <4>1, <4>2
    <3>2. Keys(c) = {c.rec.key, p.rec.key}
      BY <2>8 DEF Keys, p
    <3>3. IsTable(u1)
      BY <2>2, RunIsTable
    <3>4. s1 \in Seq(R) /\ KeysOf(s1) = KeysOf(s) \cup {c.rec.key} /\ Reflects(s1, t, u1, k)
      BY <2>6
    <3>5. p \in R
      BY <2>3, <2>8 DEF Carried, p
    <3> HIDE DEF s1, u1
    <3>6. Append(s1, p) \in Seq(R)
      BY <3>4, <3>5
    <3>7. /\ KeysOf(Append(s1, p)) = KeysOf(s1) \cup {p.rec.key}
          /\ Reflects(Append(s1, p), t, Run(u1, p), k)
      BY <2>2, <3>3, <3>4, KeysOn, ReflectsOn
    <3>8. P(n)
      BY <2>4, <2>5, <3>1, <3>2, <3>4, <3>6, <3>7
    <3> HIDE DEF P
    <3> QED BY <2>0, <3>8
  <2> QED BY <2>7, <2>8
<1>3. \A n \in 0..L : n \in S
  <2> HIDE DEF S, L
  <2> QED BY <1>0, <1>1, <1>2, Climb
<1>4. \A n \in 0..L : P(n)
  <2> HIDE DEF P
  <2> QED BY <1>3
<1> QED BY <1>4

\* A whole batch: what SetRecords leaves follows from its commands, unfolded.
LEMMA Unfolds ==
    ASSUME NEW t, IsTable(t), NEW b, IsBatch(b)
    PROVE  /\ Unfolded(b) \in Seq(UNION {Carried(b[m]) : m \in DOMAIN b})
           /\ KeysOf(Unfolded(b)) = UNION {Keys(b[m]) : m \in DOMAIN b}
           /\ \A k : Reflects(Unfolded(b), t, Effect(t, b), k)
<1>1. Len(b) \in 0..Len(b) /\ DOMAIN b = 1..Len(b)
  BY DEF IsBatch
<1> QED BY <1>1, UnfoldsUpTo DEF Unfolded, Effect

-----------------------------------------------------------------------------
\* What is known, and what is due.

\* A key and the TTL of a text tell the TTL of the record.
LEMMA SameTTL ==
    ASSUME NEW a, GoodRec(a), NEW b, GoodRec(b), a.key = b.key, a.rr.ttl = b.ttl
    PROVE  a.ttl = b.ttl
<1> DEFINE r == a.rr
           s == b.rr
<1>1. /\ a.key = KeyOf(r) /\ b.key = KeyOf(s)
      /\ IF r.type = "NS" THEN a.ttl = 0 /\ r.ttl = 3600 ELSE a.ttl = r.ttl
      /\ IF s.type = "NS" THEN b.ttl = 0 /\ s.ttl = 3600 ELSE b.ttl = s.ttl
  BY RecForm
<1>2. ASSUME NEW x \in ZoneRRs, Relayed(x) = x PROVE Path!IsRR(x)
  <2>1. Path!Supported(x) /\ x.ttl \in Nat
    BY SameAssumptions
  <2>2. Path!IsRR(Path!Relayed(x))
    BY <2>1, Assumed, Path!RelayedRR
  <2>3. Path!Relayed(x) = Relayed(x)
    BY SameRelayed
  <2> QED BY <1>2, <2>2, <2>3
<1>3. Path!IsRR(r) /\ Path!IsRR(s)
  BY <1>2, RecForm DEF GoodRec
<1> HIDE DEF r, s
<1>4. CASE r.type = "NS"
  <2>1. r.ttl = 3600 /\ b.ttl = 3600
    BY <1>1, <1>4 DEF r
  <2>2. s.type # "NS" /\ s.ttl = 3600
    BY <1>1, <2>1
  <2>3. Path!KeyOf(r) = Path!KeyOf(s)
    BY <1>1 DEF KeyOf, Path!KeyOf
  <2>4. r = s
    BY <1>3, <2>1, <2>2, <2>3, Assumed, Path!KeyDetermines
  <2> QED BY <1>4, <2>2, <2>4
<1>5. CASE r.type # "NS"
  BY <1>1, <1>5 DEF r
<1> QED BY <1>4, <1>5

-----------------------------------------------------------------------------
\* What the history variables say is true.

\* The record is in the table, for good.
Kept(r) == \E row \in Held(Table, KeyOf(r)) : ~ row.volatile /\ row.rec.rr = r

Known ==
    /\ \A r \in promised : Kept(r)
    /\ \A k \in erased : Held(Table, k) = {}

Asks(h, r) == r.name = msg[h].name /\ r.type = msg[h].type

\* What is due to a handler nobody is about to change; while it asks the zones it
\* is in the table, and what must not be there is not.
Settled(h) ==
    /\ pc[h] # "idle" =>
          /\ \A k \in due[h].hasNot : k \notin UnderWay
          /\ \A r \in due[h].has : KeyOf(r) \notin UnderWay
    /\ pc[h] = "static" =>
          /\ \A r \in due[h].has : Kept(r)
          /\ \A k \in due[h].hasNot : Held(Table, k) = {}
    /\ pc[h] \in {"cache", "upstream"} => \A r \in due[h].has : ~ Asks(h, r)
    /\ (pc[h] = "build" /\ msg[h].opcode = "query" /\ ~ errored[h]) =>
          /\ \A r \in due[h].has : Asks(h, r) => r \in got[h]
          /\ \A r \in got[h] :
                KeyOf(r) \in due[h].hasNot =>
                    \/ r \in Chain!StaticRecords(Chain!QuestionOf(msg[h]))
                    \/ r \in Chain!RemoteRecords(Chain!QuestionOf(msg[h]))

HInv == /\ due = [h \in Handlers |-> due[h]]
        /\ Known /\ \A h \in Handlers : Settled(h)

\* The rows that a step may not take away outside of the keys K, and the keys that
\* stay free.
Firm(t, u, K) ==
    \A k : k \notin K =>
        /\ Held(t, k) = {} => Held(u, k) = {}
        /\ \A row \in Held(t, k) : ~ row.volatile => row \in Held(u, k)

\* A record of another key stays.
LEMMA FirmKeeps ==
    ASSUME NEW K, Firm(Table, Table', K)
    PROVE  /\ \A r : Kept(r) /\ KeyOf(r) \notin K => Kept(r)'
           /\ \A k : Held(Table, k) = {} /\ k \notin K => Held(Table', k) = {}
BY DEF Firm, Kept, Table, Held

\* A step that leaves the handlers alone, and changes the table only where a request
\* is under way.
LEMMA SettledStays ==
    ASSUME NEW h \in Handlers, Settled(h), NEW K, K \subseteq UnderWay,
           Firm(Table, Table', K), UNCHANGED <<pc, msg, got, errored>>,
           due'[h].has \subseteq due[h].has, due'[h].hasNot \subseteq due[h].hasNot,
           \A k \in UnderWay' : \/ k \in UnderWay
                                \/ /\ k \notin due'[h].hasNot
                                   /\ \A r \in due'[h].has : KeyOf(r) # k
    PROVE  Settled(h)'
<1>1. pc'[h] # "idle" => /\ \A k \in due'[h].hasNot : k \notin UnderWay'
                         /\ \A r \in due'[h].has : KeyOf(r) \notin UnderWay'
  BY DEF Settled
<1>2. pc'[h] = "static" => /\ \A r \in due'[h].has : Kept(r)'
                           /\ \A k \in due'[h].hasNot : Held(Table', k) = {}
  <2> SUFFICES ASSUME pc[h] = "static"
               PROVE  /\ \A r \in due'[h].has : Kept(r)'
                      /\ \A k \in due'[h].hasNot : Held(Table', k) = {}
    OBVIOUS
  <2>1. /\ \A r \in due'[h].has : Kept(r) /\ KeyOf(r) \notin K
        /\ \A k \in due'[h].hasNot : Held(Table, k) = {} /\ k \notin K
    BY DEF Settled
  <2> QED BY <2>1, FirmKeeps
<1>3. pc'[h] \in {"cache", "upstream"} => \A r \in due'[h].has : ~ Asks(h, r)'
  BY DEF Settled, Asks
<1>4. (pc'[h] = "build" /\ msg'[h].opcode = "query" /\ ~ errored'[h]) =>
          /\ \A r \in due'[h].has : Asks(h, r)' => r \in got'[h]
          /\ \A r \in got'[h] :
                KeyOf(r) \in due'[h].hasNot =>
                    \/ r \in Chain!StaticRecords(Chain!QuestionOf(msg[h]))
                    \/ r \in Chain!RemoteRecords(Chain!QuestionOf(msg[h]))
  BY DEF Settled, Asks
<1>5. Chain!QuestionOf(msg[h]) = Chain!QuestionOf(msg'[h])
  OBVIOUS
<1> QED BY <1>1, <1>2, <1>3, <1>4, <1>5 DEF Settled

-----------------------------------------------------------------------------
\* What a request does to the keys it may change, and to the others.

\* The keys a request may change, of a table with the rows w.
TouchedIn(w, r, remote) ==
    IF HasBody(r) THEN KeysOf(Unfolded(NewDynamicRecordSet(Lines(r, remote))))
    ELSE {w[i].rec.key : i \in {j \in DOMAIN w : r.method = "DELETE" /\ j = r.id}}

\* The keys under way, by the client that may change them, in this state ...
LEMMA TouchedNow ==
    /\ \A r, remote : Touched(r, remote) = TouchedIn(rows, r, remote)
    /\ \A k : k \in UnderWay <=>
          \E c \in Clients : Waiting(c) /\ k \in TouchedIn(rows, request[c], Remote[c])
BY DEF Touched, TouchedIn, KeysOf, UnderWay

\* ... and in the next one.
LEMMA TouchedThen ==
    \A k : k \in UnderWay' <=>
       \E c \in Clients : /\ reply'[c].status = 0
                          /\ k \in TouchedIn(rows', request'[c], Remote[c])
BY DEF Touched, TouchedIn, KeysOf, UnderWay, Waiting

\* A request with a body touches the keys of its commands, whether they are flipped
\* or not.
LEMMA TouchedKeys ==
    ASSUME ApiInv, NEW c \in Clients, HasBody(request[c])
    PROVE  TouchedIn(rows, request[c], Remote[c]) = UNION {Keys(CommandsOf(c)[m]) :
                                                           m \in DOMAIN CommandsOf(c)}
<1> DEFINE b == NewDynamicRecordSet(Lines(request[c], Remote[c]))
<1>1. IsBatch(b) /\ IsTable(Table)
  BY LinesAreBody, ParsedIsBatch DEF ApiInv
<1>2. TouchedIn(rows, request[c], Remote[c]) = KeysOf(Unfolded(b))
  BY DEF TouchedIn
<1>3. CommandsOf(c) = b \/ CommandsOf(c) = Flipped(b)
  BY DEF CommandsOf
<1> HIDE DEF b
<1>4. KeysOf(Unfolded(b)) = UNION {Keys(b[m]) : m \in DOMAIN b}
  BY <1>1, Unfolds
<1>5. /\ DOMAIN Flipped(b) = DOMAIN b
      /\ \A m \in DOMAIN b : Keys(Flipped(b)[m]) = Keys(b[m])
  <2>1. DOMAIN Flipped(b) = DOMAIN b
    BY DEF Flipped
  <2>2. \A m \in DOMAIN b : Flipped(b)[m].rec = b[m].rec
    BY <1>1, FlippedForm
  <2> QED BY <2>1, <2>2 DEF Keys, HasPtr, PtrOf
<1> QED BY <1>2, <1>3, <1>4, <1>5

\* A request changes what it touches: rows elsewhere stay, and IDs keep their keys.
Moves(c) ==
    /\ Waiting(c) /\ request' = request
    /\ \A d \in Clients : d # c => reply'[d] = reply[d]
    /\ \A k : k \notin TouchedIn(rows, request[c], Remote[c]) =>
                  Held(Table', k) = Held(Table, k)
    /\ \A i \in DOMAIN rows' :
          \/ i \in DOMAIN rows /\ rows'[i].rec.key = rows[i].rec.key
          \/ rows'[i].rec.key \in TouchedIn(rows, request[c], Remote[c])

\* A request that leaves the table alone.
LEMMA StillMoves ==
    ASSUME ApiInv, NEW c \in Clients, Waiting(c), rows' = rows, NEW status, NEW add, NEW del,
           NEW lines, Replies(c, status, add, del, lines)
    PROVE  Moves(c)
BY DEF Moves, Replies, ApiInv, Table, Held

\* A body that is accepted moves the table by its commands.
LEMMA SetRecordsMoves ==
    ASSUME ApiInv, NEW c \in Clients, SetRecords(c)
    PROVE  /\ Moves(c) /\ Table' = Effect(Table, CommandsOf(c))
           /\ IsTable(Table) /\ IsBatch(CommandsOf(c))
<1> DEFINE b == CommandsOf(c)
           adds == CountOf(b, FALSE)
           dels == CountOf(b, TRUE)
           K == TouchedIn(rows, request[c], Remote[c])
<1>1. /\ Replies(c, 200, adds, dels, {}) /\ SetsTable(Effect(Table, b))
      /\ Waiting(c) /\ HasBody(request[c])
  BY DEF SetRecords, Accepted, Served
<1>2. IsTable(Table) /\ IsBatch(b)
  BY CommandsAreBatch DEF ApiInv
<1>3. Table' = Effect(Table, b)
  BY <1>1, <1>2, EffectIsTable, TableIsSet
<1>4. K = UNION {Keys(b[m]) : m \in DOMAIN b}
  BY <1>1, TouchedKeys
<1> HIDE DEF b, adds, dels, K
<1>5. request' = request /\ \A d \in Clients : d # c => reply'[d] = reply[d]
  BY <1>1 DEF Replies, ApiInv
<1>6. ASSUME NEW k, k \notin K PROVE Held(Table', k) = Held(Table, k)
  <2>1. Reflects(Unfolded(b), Table, Table', k) /\ KeysOf(Unfolded(b)) = K
    BY <1>2, <1>3, <1>4, Unfolds
  <2>2. \A i \in DOMAIN Unfolded(b) : Unfolded(b)[i].rec.key # k
    BY <1>6, <2>1 DEF KeysOf
  <2> QED BY <2>1, <2>2 DEF Reflects
<1>7. ASSUME NEW i \in DOMAIN rows'
      PROVE  \/ i \in DOMAIN rows /\ rows'[i].rec.key = rows[i].rec.key
             \/ rows'[i].rec.key \in K
  <2> DEFINE u == Table'
  <2>1. Grown(Table, u, UNION {RowsOf(b[m]) : m \in DOMAIN b})
    BY <1>2, <1>3, BatchGrows
  <2>2. u.rows = rows' /\ Table.rows = rows
    BY DEF Table
  <2> HIDE DEF u
  <2>3. CASE i \in DOMAIN rows
    BY <2>1, <2>2, <2>3 DEF Grown
  <2>4. CASE i \notin DOMAIN rows
    <3>1. PICK m \in DOMAIN b : rows'[i] \in RowsOf(b[m])
      BY <2>1, <2>2, <2>4 DEF Grown
    <3>2. rows'[i].rec.key \in Keys(b[m])
      BY <3>1 DEF RowsOf, RowOf, Keys
    <3> QED BY <1>4, <3>2
  <2> QED BY <2>3, <2>4
<1>8. Moves(c)
  BY <1>1, <1>5, <1>6, <1>7 DEF Moves, K
<1> QED BY <1>2, <1>3, <1>8 DEF b

\* A removal by ID frees the key of its record.
LEMMA DeleteMoves ==
    ASSUME ApiInv, NEW c \in Clients, DeleteRecordByID(c), request[c].id \in DOMAIN rows
    PROVE  /\ Moves(c)
           /\ Held(Table', rows[request[c].id].rec.key) = {}
           /\ \A k : k # rows[request[c].id].rec.key => Held(Table', k) = Held(Table, k)
<1> DEFINE id == request[c].id
           key == rows[id].rec.key
<1>1. /\ rows' = Without(rows, {id}) /\ Replies(c, 200, 0, 0, {}) /\ Waiting(c)
      /\ request[c].path = "/v1/id/" /\ request[c].method = "DELETE"
  BY DEF DeleteRecordByID, Accepted, Served
<1>2. TouchedIn(rows, request[c], Remote[c]) = {key}
  BY <1>1 DEF TouchedIn, HasBody
<1>3. /\ DOMAIN rows' = DOMAIN rows \ {id}
      /\ \A i \in DOMAIN rows' : rows'[i] = rows[i]
  BY <1>1 DEF Without
<1>4. Table.rows = rows /\ (Table').rows = rows'
  BY DEF Table
<1>5. \A i, j \in DOMAIN rows : rows[i].rec.key = rows[j].rec.key => i = j
  BY DEF ApiInv, IsTable, Table
<1>6. Held(Table', key) = {}
  BY <1>3, <1>4, <1>5 DEF Held
<1>7. ASSUME NEW k, k # key PROVE Held(Table', k) = Held(Table, k)
  BY <1>3, <1>4, <1>7 DEF Held
<1>8. request' = request /\ \A d \in Clients : d # c => reply'[d] = reply[d]
  BY <1>1 DEF Replies, ApiInv
<1> HIDE DEF id, key
<1>9. Moves(c)
  BY <1>1, <1>2, <1>3, <1>7, <1>8 DEF Moves
<1> QED BY <1>6, <1>7, <1>9 DEF key, id

\* The other requests leave the table as it is.
LEMMA OthersMove ==
    ASSUME ApiInv, NEW c \in Clients,
           \/ Reject(c) \/ BadRequest(c) \/ Abort(c) \/ Get(c) \/ ResolverFails(c)
           \/ DeleteRecordByID(c) /\ request[c].id \notin DOMAIN rows
    PROVE  Moves(c) /\ rows' = rows
<1>1. ASSUME NEW status, Waiting(c), Refuses(c, status) PROVE Moves(c) /\ rows' = rows
  BY <1>1, StillMoves DEF Refuses, tableVars
<1>2. CASE Reject(c)
  BY <1>1, <1>2 DEF Reject
<1>3. CASE BadRequest(c) \/ Abort(c)
  BY <1>1, <1>3 DEF BadRequest, Abort, Served
<1>4. CASE Get(c)
  <2> DEFINE L == {[id |-> i, rec |-> rows[i].rec, volatile |-> rows[i].volatile] :
                      i \in Wanted(request[c])}
  <2>1. Waiting(c) /\ (Refuses(c, 404) \/ (Replies(c, 200, 0, 0, L) /\ UNCHANGED tableVars))
    BY <1>4 DEF Get, Accepted, Served
  <2> HIDE DEF L
  <2> QED BY <1>1, <2>1, StillMoves DEF tableVars
<1>5. CASE ResolverFails(c)
  BY <1>5, StillMoves DEF ResolverFails, RolledBack, SetsTable, Table, Accepted, Served
<1>6. CASE DeleteRecordByID(c) /\ request[c].id \notin DOMAIN rows
  BY <1>1, <1>6 DEF DeleteRecordByID, Accepted, Served
<1> QED BY <1>2, <1>3, <1>4, <1>5, <1>6

\* A request changes what was under way only, and is then under way no longer.
LEMMA MovesStay ==
    ASSUME NEW c \in Clients, Moves(c)
    PROVE  /\ TouchedIn(rows, request[c], Remote[c]) \subseteq UnderWay
           /\ UnderWay' \subseteq UnderWay
           /\ Firm(Table, Table', TouchedIn(rows, request[c], Remote[c]))
<1> DEFINE K == TouchedIn(rows, request[c], Remote[c])
<1>1. K \subseteq UnderWay
  BY TouchedNow DEF Moves
<1>2. ASSUME NEW k \in UnderWay' PROVE k \in UnderWay
  <2>1. PICK d \in Clients :
           reply'[d].status = 0 /\ k \in TouchedIn(rows', request'[d], Remote[d])
    BY TouchedThen
  <2>2. Waiting(d) /\ request'[d] = request[d]
    BY <2>1 DEF Moves, Waiting
  <2>3. CASE HasBody(request[d])
    <3>1. k \in TouchedIn(rows, request[d], Remote[d])
      BY <2>1, <2>2, <2>3 DEF TouchedIn
    <3> QED BY <2>2, <3>1, TouchedNow
  <2>4. CASE ~ HasBody(request[d])
    <3>1. PICK i \in DOMAIN rows' : /\ request[d].method = "DELETE" /\ i = request[d].id
                                    /\ k = rows'[i].rec.key
      BY <2>1, <2>2, <2>4 DEF TouchedIn
    <3>2. CASE i \in DOMAIN rows /\ rows'[i].rec.key = rows[i].rec.key
      <4>1. k \in TouchedIn(rows, request[d], Remote[d])
        BY <2>4, <3>1, <3>2 DEF TouchedIn
      <4> QED BY <2>2, <4>1, TouchedNow
    <3>3. CASE rows'[i].rec.key \in K
      BY <1>1, <3>1, <3>3
    <3> QED BY <3>2, <3>3 DEF Moves
  <2> QED BY <2>3, <2>4
<1>3. Firm(Table, Table', K)
  BY DEF Firm, Moves
<1> QED BY <1>1, <1>2, <1>3

-----------------------------------------------------------------------------
\* Requests are carried out and sent.

\* After an accepted body its last word on each record is known to hold.
LEMMA LearnIsTrue ==
    ASSUME ApiInv, Brought, Known, NEW c \in Clients, SetRecords(c), Learn(c)
    PROVE  Known'
<1> DEFINE b == CommandsOf(c)
           cs == Unfolded(b)
           keys == KeysOf(cs)
           last == UNION {LastOn(cs, k) : k \in keys}
           sure(i) == /\ cs[i].id = NoId
                      /\ \A j \in DOMAIN cs : cs[j].rec.key = cs[i].rec.key => j = i
                      /\ \E r \in promised : KeyOf(r) = cs[i].rec.key /\ r.ttl = cs[i].rec.ttl
<1>1. /\ promised' = {r \in promised : KeyOf(r) \notin keys}
                     \cup {cs[i].rec.rr : i \in {j \in last : ~ cs[j].disabled
                                                            /\ ~ cs[j].volatile}}
      /\ erased' = (erased \ keys)
                   \cup {cs[i].rec.key : i \in {j \in last : cs[j].disabled /\ sure(j)}}
  BY DEF Learn, KeysOf
<1>2. IsTable(Table) /\ IsBatch(b) /\ Table' = Effect(Table, b)
  BY SetRecordsMoves
<1>3. \A m \in DOMAIN b : GoodCommand(b[m])
  BY CommandsAreGood
<1> HIDE DEF b
<1>4. cs \in Seq(UNION {Carried(b[m]) : m \in DOMAIN b})
  BY <1>2, Unfolds
<1>5. \A k : Reflects(cs, Table, Table', k)
  BY <1>2, Unfolds
<1> HIDE DEF cs
<1>6. ASSUME NEW i \in DOMAIN cs PROVE GoodRec(cs[i].rec)
  <2>1. PICK m \in DOMAIN b : cs[i] \in Carried(b[m])
    BY <1>4
  <2> QED BY <1>3, <2>1 DEF Carried, GoodCommand
<1>7. \A i \in last : i \in DOMAIN cs /\ i \in LastOn(cs, cs[i].rec.key)
  BY DEF LastOn
<1>8. ASSUME NEW k, k \notin keys PROVE Held(Table', k) = Held(Table, k)
  <2>1. \A i \in DOMAIN cs : cs[i].rec.key # k
    BY <1>8 DEF KeysOf
  <2> QED BY <1>5, <2>1 DEF Reflects
<1> HIDE DEF last, keys, sure
<1>9. ASSUME NEW r \in promised' PROVE Kept(r)'
  <2>1. CASE r \in promised /\ KeyOf(r) \notin keys
    <3>1. Kept(r) /\ Held(Table', KeyOf(r)) = Held(Table, KeyOf(r))
      BY <1>8, <2>1 DEF Known
    <3>2. \E row \in Held(Table', KeyOf(r)) : ~ row.volatile /\ row.rec.rr = r
      BY <3>1 DEF Kept
    <3> QED BY <3>2 DEF Kept, Held, Table
  <2>2. ASSUME NEW i \in last, ~ cs[i].disabled, ~ cs[i].volatile, r = cs[i].rec.rr
        PROVE  Kept(r)'
    <3>1. i \in LastOn(cs, cs[i].rec.key) /\ i \in DOMAIN cs
      BY <1>7
    <3>2. Held(Table', cs[i].rec.key) = {RowOf(cs[i])}
      BY <1>5, <2>2, <3>1 DEF Reflects
    <3>3. KeyOf(r) = cs[i].rec.key
      BY <1>6, <2>2, <3>1, RecForm
    <3>4. RowOf(cs[i]).rec.rr = r /\ ~ RowOf(cs[i]).volatile
      BY <2>2 DEF RowOf
    <3>5. \E row \in Held(Table', KeyOf(r)) : ~ row.volatile /\ row.rec.rr = r
      BY <3>2, <3>3, <3>4
    <3> QED BY <3>5 DEF Kept, Held, Table
  <2> QED BY <1>1, <2>1, <2>2
<1>10. ASSUME NEW k \in erased' PROVE Held(Table', k) = {}
  <2>1. CASE k \in erased \ keys
    BY <1>8, <2>1 DEF Known
  <2>2. ASSUME NEW i \in last, cs[i].disabled, sure(i), k = cs[i].rec.key
        PROVE  Held(Table', k) = {}
    <3>1. i \in LastOn(cs, k) /\ i \in DOMAIN cs
      BY <1>7, <2>2
    <3>2. Held(Table', k) = {x \in Held(Table, k) : x.rec.ttl # cs[i].rec.ttl}
      BY <1>5, <2>2, <3>1 DEF Reflects, sure
    <3>3. PICK r \in promised : KeyOf(r) = k /\ r.ttl = cs[i].rec.ttl
      BY <2>2 DEF sure
    <3>4. PICK row \in Held(Table, k) : row.rec.rr = r
      BY <3>3 DEF Known, Kept
    <3>5. GoodRec(row.rec) /\ row.rec.key = k
      BY <3>4 DEF Held, Table, Brought
    <3>6. row.rec.ttl = cs[i].rec.ttl
      BY <1>6, <2>2, <3>1, <3>3, <3>4, <3>5, SameTTL
    <3>7. \A x \in Held(Table, k) : x = row
      BY <1>2, <3>4, HeldOnce
    <3> QED BY <3>2, <3>6, <3>7
  <2> QED BY <1>1, <2>1, <2>2
<1> QED BY <1>9, <1>10 DEF Known, Held, Table

\* What is known stays known while the table stays.
LEMMA StaysKnown ==
    ASSUME Known, rows' = rows, UNCHANGED <<promised, erased>>
    PROVE  Known'
BY DEF Known, Kept, Held, Table

\* Whatever becomes of a request, what is known is true.
LEMMA HandleKnows ==
    ASSUME ApiInv, Brought, Known, NEW c \in Clients, HandleRequest(c)
    PROVE  Known' /\ Moves(c)
<1>1. CASE SetRecords(c) /\ Learn(c)
  BY <1>1, LearnIsTrue, SetRecordsMoves
<1>2. CASE DeleteRecordByID(c) /\ request[c].id \in DOMAIN rows
           /\ LearnRemoved(rows[request[c].id].rec.key)
  <2> DEFINE key == rows[request[c].id].rec.key
  <2>1. /\ Moves(c) /\ Held(Table', key) = {}
        /\ \A k : k # key => Held(Table', k) = Held(Table, k)
    BY <1>2, DeleteMoves
  <2>2. /\ promised' = {r \in promised : KeyOf(r) # key}
        /\ erased' = erased \cup {key}
    BY <1>2 DEF LearnRemoved
  <2> HIDE DEF key
  <2>3. ASSUME NEW r \in promised' PROVE Kept(r)'
    <3>1. Kept(r) /\ Held(Table', KeyOf(r)) = Held(Table, KeyOf(r))
      BY <2>1, <2>2 DEF Known
    <3>2. \E row \in Held(Table', KeyOf(r)) : ~ row.volatile /\ row.rec.rr = r
      BY <3>1 DEF Kept
    <3> QED BY <3>2 DEF Kept, Held, Table
  <2>4. ASSUME NEW k \in erased' PROVE Held(Table', k) = {}
    BY <2>1, <2>2 DEF Known
  <2> QED BY <2>1, <2>3, <2>4 DEF Known, Held, Table
<1>3. CASE /\ UNCHANGED <<promised, erased>>
           /\ \/ Reject(c) \/ BadRequest(c) \/ Abort(c) \/ Get(c) \/ ResolverFails(c)
              \/ DeleteRecordByID(c) /\ request[c].id \notin DOMAIN rows
  BY <1>3, OthersMove, StaysKnown
<1> QED BY <1>1, <1>2, <1>3 DEF HandleRequest

\* A request is handled.
LEMMA HandleSettles ==
    ASSUME ApiInv, Brought, HInv, NEW c \in Clients, HandleRequest(c)
    PROVE  HInv'
<1>1. Known' /\ Moves(c)
  BY HandleKnows DEF HInv
<1>2. due' = due /\ UNCHANGED <<pc, msg, got, errored>>
  BY DEF HandleRequest, chainState
<1>3. ASSUME NEW h \in Handlers PROVE Settled(h)'
  <2>1. Settled(h)
    BY DEF HInv
  <2>2. \A k \in UnderWay' : k \in UnderWay
    BY <1>1, MovesStay
  <2> DEFINE K == TouchedIn(rows, request[c], Remote[c])
  <2>3. K \subseteq UnderWay /\ Firm(Table, Table', K)
    BY <1>1, MovesStay
  <2> HIDE DEF K
  <2> QED BY <1>2, <2>1, <2>2, <2>3, SettledStays
<1> QED BY <1>1, <1>2, <1>3 DEF HInv

\* A table that stays.
LEMMA FirmSame == ASSUME Table' = Table PROVE Firm(Table, Table', {})
BY DEF Firm

\* A request is sent: what it may change is due to nobody any more.
LEMMA SendSettles ==
    ASSUME ApiInv, HInv, NEW c \in Clients, SendRequest(c)
    PROVE  HInv'
<1>1. PICK r : Send(c, r)
  BY DEF SendRequest, SendBack
<1>2. /\ request' = [request EXCEPT ![c] = r] /\ reply' = [reply EXCEPT ![c].status = 0]
      /\ rows' = rows /\ lastId' = lastId
  BY <1>1 DEF Send, tableVars
<1>3. /\ UNCHANGED <<pc, msg, got, errored, promised, erased>>
      /\ due' = [h \in Handlers |-> Untouched(due[h], Touched(request'[c], Remote[c]))]
  BY DEF SendRequest, chainState
<1>4. \A d \in Clients : d # c => request'[d] = request[d] /\ reply'[d] = reply[d]
  BY <1>2 DEF ApiInv
<1> DEFINE K == TouchedIn(rows, request'[c], Remote[c])
<1>5. K = Touched(request'[c], Remote[c])
  BY TouchedNow
<1>6. \A k \in UnderWay' : k \in UnderWay \/ k \in K
  <2> SUFFICES ASSUME NEW k \in UnderWay' PROVE k \in UnderWay \/ k \in K
    OBVIOUS
  <2>1. PICK d \in Clients :
           reply'[d].status = 0 /\ k \in TouchedIn(rows', request'[d], Remote[d])
    BY TouchedThen
  <2>2. CASE d = c
    BY <1>2, <2>1, <2>2
  <2>3. CASE d # c
    <3>1. Waiting(d) /\ k \in TouchedIn(rows, request[d], Remote[d])
      BY <1>2, <1>4, <2>1, <2>3 DEF Waiting
    <3> QED BY <3>1, TouchedNow
  <2> QED BY <2>2, <2>3
<1>7. \A h \in Handlers : due'[h] = Untouched(due[h], K)
  BY <1>3, <1>5
<1> HIDE DEF K
<1>8. ASSUME NEW h \in Handlers PROVE Settled(h)'
  <2>1. /\ due'[h].has = {x \in due[h].has : KeyOf(x) \notin K}
        /\ due'[h].hasNot = due[h].hasNot \ K
    <3> DEFINE has == {x \in due[h].has : KeyOf(x) \notin K}
               hasNot == due[h].hasNot \ K
    <3>1. due'[h] = [has |-> has, hasNot |-> hasNot]
      BY <1>7 DEF Untouched
    <3> HIDE DEF has, hasNot
    <3>2. due'[h].has = has /\ due'[h].hasNot = hasNot
      BY <3>1
    <3> QED BY <3>2 DEF has, hasNot
  <2>2. \A k \in UnderWay' : \/ k \in UnderWay
                             \/ /\ k \notin due'[h].hasNot
                                /\ \A x \in due'[h].has : KeyOf(x) # k
    BY <1>6, <2>1
  <2>3. Firm(Table, Table', {}) /\ {} \subseteq UnderWay
    BY <1>2, FirmSame DEF Table
  <2>4. due'[h].has \subseteq due[h].has /\ due'[h].hasNot \subseteq due[h].hasNot
    BY <2>1
  <2>5. Settled(h)
    BY DEF HInv
  <2> QED BY <1>3, <2>2, <2>3, <2>4, <2>5, SettledStays
<1>9. due' = [h \in Handlers |-> due'[h]]
  BY <1>3
<1>10. Known'
  BY <1>2, <1>3, StaysKnown DEF HInv
<1> QED BY <1>8, <1>9, <1>10 DEF HInv

-----------------------------------------------------------------------------
\* Rows expire, and messages arrive.

\* A row expires: it was volatile, and nothing was promised of it.
LEMMA ExpireSettles ==
    ASSUME ApiInv, HInv, ExpireRow
    PROVE  HInv'
<1>1. PICK id \in DOMAIN rows : Expire(id)
  BY DEF ExpireRow
<1>2. /\ rows[id].volatile /\ rows' = Without(rows, {id})
      /\ request' = request /\ reply' = reply
      /\ UNCHANGED <<pc, msg, got, errored, promised, erased, due>>
  BY <1>1 DEF Expire, ExpireRow, chainState, historyVars
<1>3. /\ DOMAIN rows' \subseteq DOMAIN rows
      /\ \A i \in DOMAIN rows' : rows'[i] = rows[i]
      /\ \A i \in DOMAIN rows : ~ rows[i].volatile => i \in DOMAIN rows'
  BY <1>2 DEF Without
<1>4. Firm(Table, Table', {})
  BY <1>3 DEF Firm, Held, Table
<1>5. \A k \in UnderWay' : k \in UnderWay
  <2> SUFFICES ASSUME NEW k \in UnderWay' PROVE k \in UnderWay
    OBVIOUS
  <2>1. PICK d \in Clients :
           reply'[d].status = 0 /\ k \in TouchedIn(rows', request'[d], Remote[d])
    BY TouchedThen
  <2>2. Waiting(d) /\ k \in TouchedIn(rows, request[d], Remote[d])
    <3>1. CASE HasBody(request[d])
      BY <1>2, <2>1, <3>1 DEF TouchedIn, Waiting
    <3>2. CASE ~ HasBody(request[d])
      BY <1>2, <1>3, <2>1, <3>2 DEF TouchedIn, Waiting
    <3> QED BY <3>1, <3>2
  <2> QED BY <2>2, TouchedNow
<1>6. ASSUME NEW h \in Handlers PROVE Settled(h)'
  <2>1. Settled(h) /\ {} \subseteq UnderWay
    BY DEF HInv
  <2>2. due'[h].has \subseteq due[h].has /\ due'[h].hasNot \subseteq due[h].hasNot
    BY <1>2
  <2> QED BY <1>2, <1>4, <1>5, <2>1, <2>2, SettledStays
<1>7. Known'
  <2>1. /\ \A r \in promised' : Kept(r)
        /\ \A k \in erased' : Held(Table, k) = {}
    BY <1>2 DEF HInv, Known
  <2>2. /\ \A r \in promised' : Kept(r)'
        /\ \A k \in erased' : Held(Table', k) = {}
    BY <1>4, <2>1, FirmKeeps
  <2> QED BY <2>2 DEF Known
<1> QED BY <1>2, <1>6, <1>7 DEF HInv

\* The chain goes on: the API stands still.
LEMMA StillUnderWay ==
    ASSUME UNCHANGED apiVars
    PROVE  UnderWay' = UnderWay /\ Table' = Table
<1>1. rows' = rows /\ request' = request /\ reply' = reply /\ lastId' = lastId
  BY DEF apiVars
<1>2. \A k : k \in UnderWay' <=> k \in UnderWay
  BY <1>1, TouchedNow, TouchedThen DEF Waiting
<1>3. Table' = Table
  BY <1>1 DEF Table
<1> QED BY <1>2, <1>3 DEF UnderWay

\* A handler that is not at work stays settled.
LEMMA OthersSettled ==
    ASSUME UNCHANGED apiVars, NEW g \in Handlers, Settled(g), due'[g] = due[g],
           pc'[g] = pc[g], msg'[g] = msg[g], got'[g] = got[g], errored'[g] = errored[g]
    PROVE  Settled(g)'
<1>1. UnderWay' = UnderWay /\ Table' = Table
  BY StillUnderWay
<1>2. pc'[g] # "idle" => /\ \A k \in due'[g].hasNot : k \notin UnderWay'
                         /\ \A r \in due'[g].has : KeyOf(r) \notin UnderWay'
  BY <1>1 DEF Settled
<1>3. pc'[g] = "static" => /\ \A r \in due'[g].has : Kept(r)'
                           /\ \A k \in due'[g].hasNot : Held(Table', k) = {}
  <2>1. \A r : Kept(r) => Kept(r)'
    BY <1>1 DEF Kept, Held, Table
  <2> QED BY <1>1, <2>1 DEF Settled
<1>4. pc'[g] \in {"cache", "upstream"} => \A r \in due'[g].has : ~ Asks(g, r)'
  BY DEF Settled, Asks
<1>5. (pc'[g] = "build" /\ msg'[g].opcode = "query" /\ ~ errored'[g]) =>
          /\ \A r \in due'[g].has : Asks(g, r)' => r \in got'[g]
          /\ \A r \in got'[g] :
                KeyOf(r) \in due'[g].hasNot =>
                    \/ r \in Chain!StaticRecords(Chain!QuestionOf(msg[g]))
                    \/ r \in Chain!RemoteRecords(Chain!QuestionOf(msg[g]))
  BY DEF Settled, Asks
<1>6. Chain!QuestionOf(msg[g]) = Chain!QuestionOf(msg'[g])
  OBVIOUS
<1> QED BY <1>2, <1>3, <1>4, <1>5, <1>6 DEF Settled

\* A message arrives: what was promised then is due to it, unless somebody is about
\* to change it.
LEMMA ReceiveSettles ==
    ASSUME Path!RInv, HInv, NEW h \in Handlers, ReceiveMessage(h)
    PROVE  HInv'
<1>1. PICK m \in Messages : Chain!Receive(h, m)
  BY DEF ReceiveMessage
<1>2. /\ UNCHANGED apiVars /\ promised' = promised /\ erased' = erased
      /\ due' = [due EXCEPT ![h] = Untouched([has |-> promised, hasNot |-> erased], UnderWay)]
  BY DEF ReceiveMessage
<1>3. /\ pc'[h] \in {"static", "build"} /\ msg'[h] = m
      /\ \A g \in Handlers \ {h} :
            /\ pc'[g] = pc[g] /\ got'[g] = got[g] /\ msg'[g] = msg[g]
            /\ errored'[g] = errored[g]
  BY <1>1, PathReceive
<1>4. m.opcode = "query" => pc'[h] = "static"
  <2>1. pc' = [pc EXCEPT ![h] = IF m.opcode = "query" THEN "static" ELSE "build"]
    BY <1>1 DEF Chain!Receive
  <2>2. h \in DOMAIN pc
    BY DEF Path!RInv, Path!IInv, Path!TypeOK
  <2> QED BY <2>1, <2>2
<1>5. /\ due' = [g \in Handlers |-> due'[g]]
      /\ \A g \in Handlers \ {h} : due'[g] = due[g]
      /\ due'[h] = Untouched([has |-> promised, hasNot |-> erased], UnderWay)
  BY <1>2 DEF HInv
<1>6. /\ due'[h].has = {r \in promised : KeyOf(r) \notin UnderWay}
      /\ due'[h].hasNot = erased \ UnderWay
  BY <1>5 DEF Untouched
<1>7. UnderWay' = UnderWay /\ Table' = Table
  BY <1>2, StillUnderWay
<1>8. Settled(h)'
  <2>1. /\ \A k \in due'[h].hasNot : k \notin UnderWay'
        /\ \A r \in due'[h].has : KeyOf(r) \notin UnderWay'
    BY <1>6, <1>7
  <2>2. /\ \A r \in due'[h].has : Kept(r)'
        /\ \A k \in due'[h].hasNot : Held(Table', k) = {}
    <3>1. /\ \A r \in due'[h].has : Kept(r)
          /\ \A k \in due'[h].hasNot : Held(Table, k) = {}
      BY <1>6 DEF HInv, Known
    <3>2. \A r : Kept(r) => Kept(r)'
      BY <1>7 DEF Kept, Held, Table
    <3> QED BY <1>7, <3>1, <3>2
  <2>3. pc'[h] \notin {"cache", "upstream"}
    BY <1>3
  <2>4. ~ (pc'[h] = "build" /\ msg'[h].opcode = "query")
    BY <1>3, <1>4
  <2> QED BY <2>1, <2>2, <2>3, <2>4 DEF Settled
<1>9. ASSUME NEW g \in Handlers \ {h} PROVE Settled(g)'
  BY <1>2, <1>3, <1>5, OthersSettled DEF HInv
<1>10. Known'
  BY <1>2, StaysKnown DEF HInv, apiVars
<1> QED BY <1>5, <1>8, <1>9, <1>10 DEF HInv

-----------------------------------------------------------------------------
\* Messages are served.

\* What the dynamic zone answers is what the table holds.
LEMMA ZoneSays ==
    ASSUME Brought, NEW h \in Handlers
    PROVE  Path!ZoneRecords(Path!QuestionOf(msg[h]), ZoneOf(rows))
               = {x \in ZoneOf(rows) : Asks(h, x)}
<1>1. ASSUME NEW x \in ZoneOf(rows) PROVE Path!Relayed(x) = x
  <2>1. PICK i \in DOMAIN rows : x = rows[i].rec.rr
    BY DEF ZoneOf
  <2>2. Relayed(x) = x
    BY <2>1, RecForm DEF Brought
  <2> QED BY <2>2, SameRelayed
<1>2. /\ Path!QuestionOf(msg[h]).name = msg[h].name
      /\ Path!QuestionOf(msg[h]).type = msg[h].type
  BY DEF Path!QuestionOf
<1> DEFINE q == Path!QuestionOf(msg[h])
           z == ZoneOf(rows)
<1> HIDE DEF q, z
<1>3. Path!ZoneRecords(q, z)
         = {Path!Relayed(r) : r \in {x \in z : x.name = q.name /\ x.type = q.type}}
  BY DEF Path!ZoneRecords
<1> QED BY <1>1, <1>2, <1>3 DEF Asks, q, z

\* A record that is kept is an answer of the zone; an answer of the zone is held.
LEMMA ZoneKeeps ==
    ASSUME Brought, NEW r
    PROVE  /\ Kept(r) => r \in ZoneOf(rows)
           /\ r \in ZoneOf(rows) => Held(Table, KeyOf(r)) # {}
<1>1. ASSUME Kept(r) PROVE r \in ZoneOf(rows)
  BY <1>1 DEF Kept, Held, Table, ZoneOf
<1>2. ASSUME r \in ZoneOf(rows) PROVE Held(Table, KeyOf(r)) # {}
  <2>1. PICK i \in DOMAIN rows : r = rows[i].rec.rr
    BY <1>2 DEF ZoneOf
  <2>2. rows[i].rec.key = KeyOf(r)
    BY <2>1, RecForm DEF Brought
  <2> QED BY <2>2 DEF Held, Table
<1> QED BY <1>1, <1>2

\* Where a step takes a handler, and with what.
OnTheWay(h, where, records, failed) ==
    /\ pc[h] # "idle"
    /\ where = "static" => pc[h] = "static"
    /\ where \in {"cache", "upstream"} =>
          \/ pc[h] \in {"cache", "upstream"}
          \/ pc[h] = "static" /\ Path!LocalRecords(h) = {}
    /\ where = "build" =>
          \/ pc[h] = "static" /\ (~ failed => records = Path!LocalRecords(h))
          \/ /\ pc[h] \in {"cache", "upstream"}
             /\ records \subseteq Path!RemoteRecords(Path!QuestionOf(msg[h]))

\* Every step of the name service is one of those.
LEMMA StepOnTheWay ==
    ASSUME NEW h \in Handlers, Path!ServiceStep(h)
    PROVE  \E where, records, authoritative, failed :
              /\ Path!Arrives(h, where, records, authoritative, failed)
              /\ OnTheWay(h, where, records, failed)
<1>1. ASSUME Path!AsksNext(h)
      PROVE  \E w, r, a, f : Path!Arrives(h, w, r, a, f) /\ OnTheWay(h, w, r, f)
  BY <1>1 DEF Path!AsksNext, OnTheWay
<1>2. ASSUME Path!EndsLocally(h)
      PROVE  \E w, r, a, f : Path!Arrives(h, w, r, a, f) /\ OnTheWay(h, w, r, f)
  BY <1>2 DEF Path!EndsLocally, OnTheWay
<1>3. ASSUME Path!LeavesHome(h)
      PROVE  \E w, r, a, f : Path!Arrives(h, w, r, a, f) /\ OnTheWay(h, w, r, f)
  BY <1>3 DEF Path!LeavesHome, OnTheWay
<1>4. ASSUME Path!EndsElsewhere(h)
      PROVE  \E w, r, a, f : Path!Arrives(h, w, r, a, f) /\ OnTheWay(h, w, r, f)
  BY <1>4 DEF Path!EndsElsewhere, OnTheWay
<1>5. ASSUME Path!KeepsLooking(h)
      PROVE  \E w, r, a, f : Path!Arrives(h, w, r, a, f) /\ OnTheWay(h, w, r, f)
  <2>1. /\ Path!Arrives(h, "upstream", {}, aa[h], errored[h])
        /\ pc[h] \in {"cache", "upstream"}
    BY <1>5 DEF Path!KeepsLooking
  <2>2. OnTheWay(h, "upstream", {}, errored[h])
    BY <2>1 DEF OnTheWay
  <2> QED BY <2>1, <2>2
<1>6. ASSUME Path!SendsReply(h)
      PROVE  \E w, r, a, f : Path!Arrives(h, w, r, a, f) /\ OnTheWay(h, w, r, f)
  BY <1>6 DEF Path!SendsReply, OnTheWay
<1> QED BY <1>1, <1>2, <1>3, <1>4, <1>5, <1>6 DEF Path!ServiceStep

\* What the handler that serves its message says of itself.
LEMMA ServedSettles ==
    ASSUME Brought, Path!RInv, NEW h \in Handlers, Settled(h), UNCHANGED <<apiVars, due>>,
           Path!ServiceStep(h)
    PROVE  Settled(h)' /\ msg' = msg
<1> DEFINE q == Chain!QuestionOf(msg[h])
<1>1. UnderWay' = UnderWay /\ Table' = Table
  BY StillUnderWay
<1>2. /\ q = Path!QuestionOf(msg[h]) /\ q.name = msg[h].name /\ q.type = msg[h].type
      /\ Chain!StaticRecords(q) = Path!StaticRecords(q)
      /\ Chain!RemoteRecords(q) = Path!RemoteRecords(q)
  BY SameQuestion, SameRecords DEF Chain!QuestionOf
<1>3. pc[h] # "idle" => /\ \A k \in due'[h].hasNot : k \notin UnderWay'
                        /\ \A r \in due'[h].has : KeyOf(r) \notin UnderWay'
  BY <1>1 DEF Settled
<1>4. Path!LocalRecords(h) = Chain!StaticRecords(q) \cup {x \in ZoneOf(rows) : Asks(h, x)}
  BY <1>2, ZoneSays DEF Path!LocalRecords
<1>5. pc[h] = "static" =>
         /\ \A r \in due[h].has : Asks(h, r) => r \in Path!LocalRecords(h)
         /\ \A r \in Path!LocalRecords(h) :
                KeyOf(r) \in due[h].hasNot => r \in Chain!StaticRecords(q)
  <2> SUFFICES ASSUME pc[h] = "static"
               PROVE  /\ \A r \in due[h].has : Asks(h, r) => r \in ZoneOf(rows)
                      /\ \A r \in ZoneOf(rows) : KeyOf(r) \notin due[h].hasNot
    BY <1>4
  <2>1. /\ \A r \in due[h].has : Kept(r)
        /\ \A k \in due[h].hasNot : Held(Table, k) = {}
    BY DEF Settled
  <2> QED BY <2>1, ZoneKeeps
<1> HIDE DEF q
<1>6. PICK where, records, authoritative, failed :
         /\ Path!Arrives(h, where, records, authoritative, failed)
         /\ OnTheWay(h, where, records, failed)
  BY StepOnTheWay
<1>7. pc'[h] = where /\ got'[h] = records /\ errored'[h] = failed /\ msg' = msg
  BY <1>6, PathArrives
<1>8. pc'[h] = "static" => /\ \A r \in due'[h].has : Kept(r)'
                           /\ \A k \in due'[h].hasNot : Held(Table', k) = {}
  <2> SUFFICES ASSUME pc[h] = "static"
               PROVE  /\ \A r \in due'[h].has : Kept(r)'
                      /\ \A k \in due'[h].hasNot : Held(Table', k) = {}
    BY <1>7, <1>6 DEF OnTheWay
  <2>1. /\ \A r \in due'[h].has : Kept(r)
        /\ \A k \in due'[h].hasNot : Held(Table, k) = {}
    BY DEF Settled
  <2>2. \A r : Kept(r) => Kept(r)'
    BY <1>1 DEF Kept, Held, Table
  <2> QED BY <1>1, <2>1, <2>2
<1>9. pc'[h] \in {"cache", "upstream"} => \A r \in due'[h].has : ~ Asks(h, r)'
  <2> SUFFICES ASSUME where \in {"cache", "upstream"} PROVE \A r \in due[h].has : ~ Asks(h, r)
    BY <1>7 DEF Asks
  <2>1. CASE pc[h] \in {"cache", "upstream"}
    BY <2>1 DEF Settled
  <2>2. CASE Path!LocalRecords(h) = {} /\ pc[h] = "static"
    BY <1>5, <2>2
  <2> QED BY <1>6, <2>1, <2>2 DEF OnTheWay
<1>10. (pc'[h] = "build" /\ msg'[h].opcode = "query" /\ ~ errored'[h]) =>
          /\ \A r \in due'[h].has : Asks(h, r)' => r \in got'[h]
          /\ \A r \in got'[h] :
                KeyOf(r) \in due'[h].hasNot =>
                    r \in Chain!StaticRecords(q) \/ r \in Chain!RemoteRecords(q)
  <2> SUFFICES ASSUME where = "build", ~ failed
               PROVE  /\ \A r \in due[h].has : Asks(h, r) => r \in records
                      /\ \A r \in records :
                            KeyOf(r) \in due[h].hasNot =>
                                r \in Chain!StaticRecords(q) \/ r \in Chain!RemoteRecords(q)
    BY <1>7 DEF Asks
  <2>1. CASE pc[h] = "static" /\ records = Path!LocalRecords(h)
    BY <1>5, <2>1
  <2>2. CASE pc[h] \in {"cache", "upstream"} /\ records \subseteq Chain!RemoteRecords(q)
    BY <2>2 DEF Settled
  <2> QED BY <1>6, <1>2, <2>1, <2>2 DEF OnTheWay
<1>11. /\ \A k \in due'[h].hasNot : k \notin UnderWay'
      /\ \A r \in due'[h].has : KeyOf(r) \notin UnderWay'
  BY <1>6, <1>3 DEF OnTheWay
<1>12. Chain!QuestionOf(msg'[h]) = q
  BY <1>7 DEF q
<1> QED BY <1>7, <1>8, <1>9, <1>10, <1>11, <1>12 DEF Settled

\* A step of one handler leaves the others alone.
LEMMA PathSteps ==
    ASSUME Path!RInv, NEW h \in Handlers, Path!ServiceStep(h)
    PROVE  \A g \in Handlers \ {h} :
              pc'[g] = pc[g] /\ got'[g] = got[g] /\ errored'[g] = errored[g]
<1>1. PICK where, records, authoritative, failed :
         Path!Arrives(h, where, records, authoritative, failed)
  BY DEF Path!ServiceStep, Path!AsksNext, Path!EndsLocally, Path!LeavesHome,
         Path!EndsElsewhere, Path!KeepsLooking, Path!SendsReply
<1> QED BY <1>1, PathArrives

\* A handler goes on.
LEMMA ServeSettles ==
    ASSUME Brought, Path!RInv, HInv, NEW h \in Handlers, ServeMessage(h)
    PROVE  HInv'
<1>1. /\ UNCHANGED apiVars /\ UNCHANGED <<promised, erased, due>> /\ Chain!Serve(h)
  BY DEF ServeMessage, historyVars
<1>2. Path!ServiceStep(h)
  BY <1>1, PathServe
<1>3. Settled(h)' /\ msg' = msg
  BY <1>1, <1>2, ServedSettles DEF HInv
<1>4. \A g \in Handlers \ {h} : pc'[g] = pc[g] /\ got'[g] = got[g] /\ errored'[g] = errored[g]
  BY <1>2, PathSteps
<1>5. ASSUME NEW g \in Handlers \ {h} PROVE Settled(g)'
  BY <1>1, <1>3, <1>4, OthersSettled DEF HInv
<1>6. Known'
  BY <1>1, StaysKnown DEF HInv, apiVars
<1> QED BY <1>1, <1>3, <1>5, <1>6 DEF HInv

-----------------------------------------------------------------------------
\* The promises.

\* A cache forgets, or nothing happens.
LEMMA RestSettles ==
    ASSUME HInv, CacheForgets \/ UNCHANGED vars
    PROVE  HInv'
<1>1. UNCHANGED <<apiVars, promised, erased, due, pc, msg, got, errored>>
  BY DEF CacheForgets, Chain!Forget, Chain!handlerVars, historyVars, vars, chainState
<1>2. ASSUME NEW h \in Handlers PROVE Settled(h)'
  BY <1>1, OthersSettled DEF HInv
<1>3. Known'
  BY <1>1, StaysKnown DEF HInv, apiVars
<1> QED BY <1>1, <1>2, <1>3 DEF HInv

\* At the start nothing is due.
LEMMA HInit == LandnsInit => HInv
<1> SUFFICES ASSUME LandnsInit PROVE HInv
  OBVIOUS
<1>1. /\ promised = {} /\ erased = {}
      /\ due = [h \in Handlers |-> [has |-> {}, hasNot |-> {}]]
  BY DEF LandnsInit
<1>2. pc = [h \in Handlers |-> "idle"]
  BY DEF LandnsInit, Chain!Init
<1>3. ASSUME NEW h \in Handlers PROVE Settled(h)
  <2>1. pc[h] = "idle"
    BY <1>2
  <2> QED BY <2>1 DEF Settled
<1> QED BY <1>1, <1>3 DEF HInv, Known

\* Every step keeps what is due.
LEMMA HNext ==
    ASSUME ApiInv, Brought, Path!RInv, HInv, [LandnsNext]_vars
    PROVE  HInv'
<1>1. ASSUME NEW c \in Clients, SendRequest(c) PROVE HInv'
  BY <1>1, SendSettles
<1>2. ASSUME NEW c \in Clients, HandleRequest(c) PROVE HInv'
  BY <1>2, HandleSettles
<1>3. ASSUME ExpireRow PROVE HInv'
  BY <1>3, ExpireSettles
<1>4. ASSUME NEW h \in Handlers, ReceiveMessage(h) PROVE HInv'
  BY <1>4, ReceiveSettles
<1>5. ASSUME NEW h \in Handlers, ServeMessage(h) PROVE HInv'
  BY <1>5, ServeSettles
<1>6. ASSUME CacheForgets \/ UNCHANGED vars PROVE HInv'
  BY <1>6, RestSettles
<1> QED BY <1>1, <1>2, <1>3, <1>4, <1>5, <1>6 DEF LandnsNext

\* A client of the REST API reads its own writes, and those of others, in the answers
\* of the DNS side: what was added and acknowledged before the query came in, and is
\* not asked to change, is in the answer, and of what was removed there is no trace,
\* whatever the other clients, the cache and the upstream servers do meanwhile
\* (DynamicAPI.handlers, dynamic_api.go; Handler.ServeDNS, handler.go).
THEOREM PromisesHold == LandnsSpec => []PromisesKept
<1>1. LandnsInit => HInv
  BY HInit
<1>2. (ApiInv /\ Brought) /\ Path!RInv /\ HInv /\ [LandnsNext]_vars => HInv'
  BY HNext
<1>3. HInv => PromisesKept
  BY DEF HInv, Settled, PromisesKept, Asks
<1> QED BY <1>1, <1>2, <1>3, BroughtHolds, PathHolds, PTL DEF LandnsSpec
=============================================================================
