----------------------------- MODULE RedisCache -----------------------------
(***************************************************************************)
(* The answer cache in Redis (lib-landns/redis_cache.go).  There is no     *)
(* mutex: the handlers of one server, or of several servers on the same    *)
(* database, look up, ask the upstream and push what it answers.  The      *)
(* commands a miss sends between MULTI and EXEC wait in the connection     *)
(* until it is closed on the way out of Resolve, and take effect together. *)
(*                                                                         *)
(* A cached record lives by two clocks: the key has a life in Redis, and   *)
(* the text of each record ends with the second in which it expires.  The  *)
(* clock counts half seconds.                                              *)
(***************************************************************************)
EXTENDS Integers, Sequences, FiniteSets

CONSTANTS
    Threads,     \* the handler goroutines of all servers on the database
    Keys,        \* the "type:name" keys
    Data,        \* the record payloads
    Upstream,    \* Upstream[k]: the answers the upstream may give for k
    MaxTTL,      \* the largest TTL the upstream uses
    MaxUint32,   \* the TTL no record has: 2^32 - 1 in the code
    MaxTime,     \* bound of the clock
    MaxAsk       \* bound of the number of queries

Records == [data : Data, ttl : 0..MaxTTL]
Results == {"ok", "error"}

ASSUME NumberAssumption ==
    /\ MaxTTL \in Nat /\ MaxUint32 \in Nat /\ MaxTTL < MaxUint32
    /\ MaxTime \in Nat /\ MaxAsk \in Nat
ASSUME UpstreamAssumption ==
    \A k \in Keys : \A a \in Upstream[k] :
        a.recs \in Seq(Records) /\ a.res \in Results

VARIABLES
    lists,   \* the list of texts under each key; <<>> when there is no key
    dies,    \* when Redis drops the key
    req,     \* the Resolve call of each handler
    reply,   \* what the handler's ResponseWriter has received
    skipped, \* the texts a hit has left out of its reply (a history variable)
    now,     \* the clock, in half seconds
    asked    \* how many queries were made (bounded by MaxAsk)

vars == <<lists, dies, req, reply, skipped, now, asked>>

\* A text holds the second in which it expires.  `real' is not stored: it is
\* the moment, in half seconds, at which the upstream's TTL runs out.
Texts == [data : Data, expire : Nat, real : Nat]

\* `until' is the moment up to which the reply allows a client to keep the
\* record: when it was sent plus its TTL.
Replies == [data : Data, ttl : 0..MaxTTL, until : Nat, real : Nat]

\* todo: the texts a hit still has to read, or the upstream's records;
\* block: the texts of the open transaction; min: its shortest TTL so far.
\* At `parsed' the first text has been parsed and is not yet a record.
Requests == [pc : {"idle", "look", "hit", "parsed", "miss", "add"}, key : Keys,
             todo : Seq(Texts) \cup Seq(Records), block : Seq(Texts),
             min : 0..MaxUint32, res : Results]

TodoOK ==
    \A t \in Threads : /\ req[t].pc \in {"hit", "parsed"}
                              => req[t].todo \in Seq(Texts)
                       /\ req[t].pc = "add" => req[t].todo \in Seq(Records)

TypeOK ==
    /\ lists \in [Keys -> Seq(Texts)]
    /\ dies \in [Keys -> Nat]
    /\ req \in [Threads -> Requests]
    /\ TodoOK
    /\ reply \in [Threads -> Seq(Replies)]
    /\ skipped \in [Threads -> Seq(Texts)]
    /\ now \in 0..MaxTime
    /\ asked \in 0..MaxAsk

-----------------------------------------------------------------------------
\* Operators, and the slips the mutants use.

\* math.Round of a number of half seconds: halves are rounded away from zero.
Round(d) == IF d >= 0 THEN (d + 1) \div 2 ELSE - ((1 - d) \div 2)

\* Time.Unix() drops the fraction of the second.
RoundedUp(time) == (time + 1) \div 2
Unix(time) == time \div 2

\* What NewVolatileRecord accepts: not Expire.Before(time.Now()).
Parses(text) == 2 * text.expire >= now

\* The TTL Record() computes from the text, and its guard `ttl < 0'.
TTLOf(text) == Round(2 * text.expire - now)
RunningOut(text) == TTLOf(text) <= 0
AlreadyExpired(text) == TTLOf(text) < 0

\* if ttl > record.GetTTL() { ttl = record.GetTTL() }
Unchanged(min, ttl) == min
ZeroIgnored(min, ttl) == IF ttl # 0 /\ min > ttl THEN ttl ELSE min
Least(min, ttl) == IF min > ttl THEN ttl ELSE min

\* Is the transaction executed, and not discarded?
AlsoOnError(r) == r.min # 0
Executes(r) == r.res = "ok" /\ r.min # 0

NewRequest(pc, k) == [pc |-> pc, key |-> k, todo |-> <<>>, block |-> <<>>,
                      min |-> MaxUint32, res |-> "ok"]

\* The call of t ends with this result.
Return(t, res) ==
    req' = [req EXCEPT ![t] = [pc |-> "idle", key |-> req[t].key, todo |-> <<>>,
                               block |-> <<>>, min |-> MaxUint32, res |-> res]]

\* The call of t goes on at pc with this to do; its transaction is as it was.
Goto(t, pc, todo, res) ==
    req' = [req EXCEPT ![t] = [pc |-> pc, key |-> req[t].key, todo |-> todo,
                               block |-> req[t].block, min |-> req[t].min,
                               res |-> res]]

Add(t, data, ttl, real) ==
    reply' = [reply EXCEPT ![t] = Append(@, [data |-> data, ttl |-> ttl,
                                             until |-> now + 2 * ttl,
                                             real |-> real])]

-----------------------------------------------------------------------------
Init ==
    /\ lists = [k \in Keys |-> <<>>]
    /\ dies = [k \in Keys |-> 0]
    /\ \E k \in Keys : req = [t \in Threads |-> NewRequest("idle", k)]
    /\ reply = [t \in Threads |-> <<>>]
    /\ skipped = [t \in Threads |-> <<>>]
    /\ now = 0
    /\ asked = 0

Ask(t, k) ==
    /\ asked < MaxAsk /\ req[t].pc = "idle"
    /\ asked' = asked + 1
    /\ req' = [req EXCEPT ![t] = NewRequest("look", k)]
    /\ reply' = [reply EXCEPT ![t] = <<>>]
    /\ skipped' = [skipped EXCEPT ![t] = <<>>]
    /\ UNCHANGED <<lists, dies, now>>

\* LRANGE: a list that is there is answered from, as it is now; otherwise the
\* transaction is opened and the upstream asked.
Lookup(t) ==
    /\ req[t].pc = "look"
    /\ LET texts == lists[req[t].key]
       IN  Goto(t, IF texts = <<>> THEN "miss" ELSE "hit", texts, "ok")
    /\ UNCHANGED <<lists, dies, reply, skipped, now, asked>>

\* No connection: LRANGE, or MULTI on the second connection, is an error.
Unreachable(t) ==
    /\ req[t].pc \in {"look", "miss"}
    /\ Return(t, "error")
    /\ UNCHANGED <<lists, dies, reply, skipped, now, asked>>

-----------------------------------------------------------------------------
\* resolveFromCache, text by text.  NewVolatileRecord and Record each read the
\* clock, and time may pass between them.

\* A text that no longer parses ends the query with an error ...
ReplyFails(t) ==
    /\ req[t].pc = "hit" /\ req[t].todo # <<>>
    /\ ~ Parses(Head(req[t].todo))
    /\ Return(t, "error")
    /\ UNCHANGED <<lists, dies, reply, skipped, now, asked>>

\* ... any other is still to become a record;
Parse(t) ==
    /\ req[t].pc = "hit" /\ req[t].todo # <<>>
    /\ Parses(Head(req[t].todo))
    /\ Goto(t, "parsed", req[t].todo, "ok")
    /\ UNCHANGED <<lists, dies, reply, skipped, now, asked>>

\* one that has expired since then is left out without an error ...
Skip(t) ==
    /\ req[t].pc = "parsed" /\ AlreadyExpired(Head(req[t].todo))
    /\ Goto(t, "hit", Tail(req[t].todo), "ok")
    /\ skipped' = [skipped EXCEPT ![t] = Append(@, Head(req[t].todo))]
    /\ UNCHANGED <<lists, dies, reply, now, asked>>

\* ... and any other is handed to the writer.
ReplyCached(t) ==
    /\ req[t].pc = "parsed" /\ ~ AlreadyExpired(Head(req[t].todo))
    /\ LET text == Head(req[t].todo)
       IN  Add(t, text.data, TTLOf(text), text.real)
    /\ Goto(t, "hit", Tail(req[t].todo), "ok")
    /\ UNCHANGED <<lists, dies, skipped, now, asked>>

Replied(t) ==
    /\ req[t].pc = "hit" /\ req[t].todo = <<>>
    /\ Return(t, "ok")
    /\ UNCHANGED <<lists, dies, reply, skipped, now, asked>>

-----------------------------------------------------------------------------
\* resolveFromUpstream.

\* The upstream starts to answer: it will add these records, then return with
\* or without an error.
AnswerArrives(t) ==
    /\ req[t].pc = "miss"
    /\ \E a \in Upstream[req[t].key] : Goto(t, "add", a.recs, a.res)
    /\ UNCHANGED <<lists, dies, reply, skipped, now, asked>>

\* The hook notes the TTL, queues an RPUSH and passes the record on.
AddRecord(t) ==
    /\ req[t].pc = "add" /\ req[t].todo # <<>>
    /\ LET r    == Head(req[t].todo)
           end  == now + 2 * r.ttl
           text == [data |-> r.data, expire |-> Unix(end), real |-> end]
       IN  /\ req' = [req EXCEPT ![t] =
                  [pc |-> "add", key |-> req[t].key, todo |-> Tail(req[t].todo),
                   block |-> Append(req[t].block, text),
                   min |-> Least(req[t].min, r.ttl), res |-> req[t].res]]
           /\ Add(t, r.data, r.ttl, end)
    /\ UNCHANGED <<lists, dies, skipped, now, asked>>

\* EXPIRE and EXEC: the texts go to the end of whatever list is there by now,
\* and the key's life is set anew.  Without a record there is nothing to push,
\* and EXPIRE takes the initial value of `ttl'.
Commit(t) ==
    /\ req[t].pc = "add" /\ req[t].todo = <<>> /\ Executes(req[t])
    /\ lists' = [lists EXCEPT ![req[t].key] = @ \o req[t].block]
    /\ dies' = [dies EXCEPT ![req[t].key] = now + 2 * req[t].min]
    /\ Return(t, req[t].res)
    /\ UNCHANGED <<reply, skipped, now, asked>>

\* The connection breaks before the block is sent: nobody reads that error.
CommitLost(t) ==
    /\ req[t].pc = "add" /\ req[t].todo = <<>> /\ Executes(req[t])
    /\ Return(t, req[t].res)
    /\ UNCHANGED <<lists, dies, reply, skipped, now, asked>>

\* DISCARD, after an error of the upstream or a TTL of 0.
Discard(t) ==
    /\ req[t].pc = "add" /\ req[t].todo = <<>> /\ ~ Executes(req[t])
    /\ Return(t, req[t].res)
    /\ UNCHANGED <<lists, dies, reply, skipped, now, asked>>

-----------------------------------------------------------------------------
\* Time passes; Redis drops the keys whose life is over.
Tick ==
    /\ now < MaxTime
    /\ now' = now + 1
    /\ lists' = [k \in Keys |-> IF dies[k] <= now + 1 THEN <<>> ELSE lists[k]]
    /\ UNCHANGED <<dies, req, reply, skipped, asked>>

Handler(t) ==
    \/ Lookup(t) \/ Unreachable(t) \/ ReplyFails(t) \/ Parse(t) \/ Skip(t)
    \/ ReplyCached(t) \/ Replied(t) \/ AnswerArrives(t) \/ AddRecord(t)
    \/ Commit(t) \/ CommitLost(t) \/ Discard(t)

Next ==
    \/ \E t \in Threads : Handler(t) \/ \E k \in Keys : Ask(t, k)
    \/ Tick

Spec == Init /\ [][Next]_vars

-----------------------------------------------------------------------------
\* Properties.

\* The records of a sequence, as a set of payloads.
DataOf(s) == {s[i].data : i \in DOMAIN s}

\* The payloads of some of these answers together.
Together(answers) == {UNION {DataOf(a.recs) : a \in S} : S \in SUBSET answers}

Complete(k)  == {a \in Upstream[k] : a.res = "ok"}
Cacheable(k) == {a \in Complete(k) : \A i \in DOMAIN a.recs : a.recs[i].ttl # 0}

\* What Redis holds under a key is made of whole answers: a transaction that
\* the upstream's error or a TTL of 0 interrupts leaves nothing behind, and
\* concurrent misses do not mix their halves.
ListsAreWholeAnswers ==
    \A k \in Keys : DataOf(lists[k]) \in Together(Cacheable(k))

\* What the call of t has given its writer, or left out.
Handled(t) == DataOf(reply[t]) \cup DataOf(skipped[t])

\* A query that ends without an error has been given whole answers, from the
\* cache or not, although the list was read while others write and expire it.
\* All that can be missing are cached records that expired while they were
\* read, and by then the upstream's own TTL had run out as well.
AnswersComplete ==
    \A t \in Threads :
        /\ (req[t].pc = "idle" /\ req[t].res = "ok") =>
               Handled(t) \in Together(Complete(req[t].key))
        /\ \A i \in DOMAIN skipped[t] : skipped[t][i].real <= now

\* A client may keep a record no longer than the upstream allowed, up to the
\* half second that rounding can add; the fraction that Unix() drops makes
\* room for it, whichever server wrote the text and whichever reads it.
LifeNotProlonged ==
    \A t \in Threads : \A i \in DOMAIN reply[t] :
        reply[t][i].until <= reply[t][i].real + 1

\* No answer without an error is empty (the forwarder's may be).
AnswersHaveRecords ==
    \A k \in Keys : \A a \in Complete(k) : a.recs # <<>>

\* Redis forgets a name within the longest TTL of its last answer, so that the
\* upstream is asked again, however many misses have set the key's life.
ForgottenInTime ==
    \A k \in Keys : lists[k] # <<>> => dies[k] <= now + 2 * MaxTTL
=============================================================================
