------------------------------- MODULE Landns -------------------------------
(***************************************************************************)
(* The server as its clients see it: the REST API (DynamicAPI) changes the *)
(* dynamic zone while the DNS side (ResolverChain) answers from it.        *)
(* makeServer (main.go) hands both the same resolver.                      *)
(*                                                                         *)
(* Three history variables keep what a client may conclude from the        *)
(* replies of the API alone: no action of the server reads them.           *)
(***************************************************************************)
EXTENDS DynamicAPI

CONSTANTS            \* as in StaticZone and ResolverChain
    ServiceName, NoTTL,
    Handlers, Messages, Configs, UpstreamCount, Answers(_), CacheKinds, MaxMessages,
    ZoneRRs          \* the RRs the requests may bring into the dynamic zone

VARIABLES
    cacheKind, cache, pc, msg, next, got, aa, errored, count,  \* as in ResolverChain
    promised,  \* the records that were added, and not touched since
    erased,    \* the keys of records that were deleted, and not touched since
    due        \* what the reply of each handler has to contain, and what not

chainState  == <<cacheKind, cache, pc, msg, next, got, aa, errored, count>>
historyVars == <<promised, erased, due>>
vars == <<apiVars, chainState, historyVars>>

\* What the resolvers make of the table.
ZoneOf(table) == {table[i].rec.rr : i \in DOMAIN table}

Chain == INSTANCE ResolverChain WITH
             zone <- ZoneOf(rows), DynamicZones <- SUBSET ZoneRRs

\* What ResolverChain assumes of its constants.
ASSUME ChainAssumption ==
    /\ UpstreamCount \in Nat /\ MaxMessages \in Nat /\ IsFiniteSet(Handlers)
    /\ Messages # {}
    /\ DOMAIN Configs = 1..Len(Configs) /\ Len(Configs) \in Nat
    /\ \A i \in DOMAIN Configs :
          Chain!Accepted(Configs[i]) /\ Chain!ZoneTTL(Configs[i]) \in Nat
    /\ \A m \in Messages : \A answer \in Answers(<<m.name, m.type>>) :
          /\ DOMAIN answer = 1..Len(answer) /\ Len(answer) \in Nat
          /\ \A i \in DOMAIN answer : answer[i].ttl \in Nat

\* The RRs that a line, sent by c, brings into the zone.  A text that came in as a
\* line can be printed as one.
Brings(line, c) ==
    LET l  == Substituted(line, Remote[c])
        cs == Cascade(CommandOf(l))
    IN  IF Parses(l) THEN {cs[j].rec.rr : j \in DOMAIN cs} ELSE {}
LineOf(rr) == [form |-> "record", disabled |-> FALSE, rr |-> rr, id |-> NoId, volatile |-> FALSE]
ASSUME ZoneAssumption ==
    /\ \A rr \in ZoneRRs : Supported(rr) /\ rr.ttl \in Nat
    /\ \A c \in Clients : /\ \A r \in Requests : \A i \in DOMAIN r.body :
                                Brings(r.body[i], c) \subseteq ZoneRRs
                          /\ \A rr \in ZoneRRs : Brings(LineOf(rr), c) \subseteq ZoneRRs

-----------------------------------------------------------------------------
\* What a client knows.

\* The commands of a body as they are carried out, PTR records included.
UnfoldUpTo(commands) ==
    LET after[n \in 0..Len(commands)] ==
            IF n = 0 THEN <<>> ELSE after[n - 1] \o Cascade(commands[n])
    IN  after
Unfolded(commands) == UnfoldUpTo(commands)[Len(commands)]

\* The keys a request may change.
Touched(r, remote) ==
    IF HasBody(r)
    THEN LET cs == Unfolded(NewDynamicRecordSet(Lines(r, remote)))
         IN  {cs[i].rec.key : i \in DOMAIN cs}
    ELSE {rows[i].rec.key : i \in {j \in DOMAIN rows : r.method = "DELETE" /\ j = r.id}}
UnderWay == UNION {Touched(request[c], Remote[c]) : c \in {d \in Clients : Waiting(d)}}

Untouched(d, keys) ==
    [has |-> {r \in d.has : KeyOf(r) \notin keys}, hasNot |-> d.hasNot \ keys]

\* The body was accepted: its last word on a record counts.  A record is known
\* to be gone if it was known to be there with the TTL of the line.
LastOn(cs, key) == {i \in DOMAIN cs : cs[i].rec.key = key
                        /\ \A j \in DOMAIN cs : cs[j].rec.key = key => j <= i}
Learn(c) ==
    LET cs   == Unfolded(CommandsOf(c))
        keys == {cs[i].rec.key : i \in DOMAIN cs}
        last == UNION {LastOn(cs, k) : k \in keys}
        sure(i) == /\ cs[i].id = NoId
                   /\ \A j \in DOMAIN cs : cs[j].rec.key = cs[i].rec.key => j = i
                   /\ \E r \in promised : KeyOf(r) = cs[i].rec.key /\ r.ttl = cs[i].rec.ttl
    IN  /\ promised' = {r \in promised : KeyOf(r) \notin keys}
                       \cup {cs[i].rec.rr : i \in {j \in last : ~ cs[j].disabled
                                                              /\ ~ cs[j].volatile}}
        /\ erased' = (erased \ keys)
                     \cup {cs[i].rec.key : i \in {j \in last : cs[j].disabled /\ sure(j)}}

LearnRemoved(key) ==
    /\ promised' = {r \in promised : KeyOf(r) # key}
    /\ erased' = erased \cup {key}

-----------------------------------------------------------------------------
LandnsInit ==
    /\ Init /\ Chain!Init
    /\ promised = {} /\ erased = {}
    /\ due = [h \in Handlers |-> [has |-> {}, hasNot |-> {}]]

\* A request that is on its way may take effect at any moment.
SendRequest(c) ==
    /\ \/ \E r \in Requests : Send(c, r)
       \/ \E method \in {"POST", "DELETE"} : SendBack(c, method)
    /\ due' = [h \in Handlers |-> Untouched(due[h], Touched(request'[c], Remote[c]))]
    /\ UNCHANGED <<chainState, promised, erased>>

HandleRequest(c) ==
    /\ \/ SetRecords(c) /\ Learn(c)
       \/ /\ DeleteRecordByID(c)
          /\ IF request[c].id \in DOMAIN rows
             THEN LearnRemoved(rows[request[c].id].rec.key)
             ELSE UNCHANGED <<promised, erased>>
       \/ (Reject(c) \/ BadRequest(c) \/ Abort(c) \/ Get(c) \/ ResolverFails(c))
          /\ UNCHANGED <<promised, erased>>
    /\ UNCHANGED <<chainState, due>>

ExpireRow ==
    /\ \E i \in DOMAIN rows : Expire(i)
    /\ UNCHANGED <<chainState, historyVars>>

ReceiveMessage(h) ==
    /\ UNCHANGED <<apiVars, promised, erased>>
    /\ \E m \in Messages : Chain!Receive(h, m)
    /\ due' = [due EXCEPT ![h] = Untouched([has |-> promised, hasNot |-> erased], UnderWay)]

ServeMessage(h) == UNCHANGED <<apiVars, historyVars>> /\ Chain!Serve(h)

CacheForgets ==
    /\ UNCHANGED <<apiVars, historyVars>>
    /\ \E k \in Chain!Questions : Chain!Forget(k)

LandnsNext ==
    \/ \E c \in Clients : SendRequest(c) \/ HandleRequest(c)
    \/ ExpireRow
    \/ \E h \in Handlers : ReceiveMessage(h) \/ ServeMessage(h)
    \/ CacheForgets

LandnsSpec == LandnsInit /\ [][LandnsNext]_vars

-----------------------------------------------------------------------------
\* Properties.

\* A client reads its own writes, and those of others: a query that reaches the
\* server after a record was added and acknowledged, and that is answered before
\* anybody asks to change the record, gets it, with its TTL or a shorter one; and
\* of a record that was deleted no trace is left, in no cache either.  If the
\* query does not fail.
PromisesKept ==
    \A h \in Handlers :
        (pc[h] = "build" /\ msg[h].opcode = "query" /\ ~ errored[h]) =>
            /\ \A r \in due[h].has :
                  (r.name = msg[h].name /\ r.type = msg[h].type) => r \in got[h]
            /\ \A r \in got[h] :
                  KeyOf(r) \in due[h].hasNot =>
                      \/ r \in Chain!StaticRecords(Chain!QuestionOf(msg[h]))
                      \/ r \in Chain!RemoteRecords(Chain!QuestionOf(msg[h]))
=============================================================================
