-------------------------- MODULE RedisCacheProofs --------------------------
(***************************************************************************)
(* Theorems about RedisCache, for any number of handlers and servers, any  *)
(* keys, records and bounds, and every upstream.                           *)
(***************************************************************************)
EXTENDS RedisCache, TLAPS

\* At moment n: a text ends no later than its record, and less than a second
\* earlier, and its record ends no later than the longest TTL from now.
SoundTexts(n) ==
    {x \in Texts : /\ 2 * x.expire <= x.real /\ x.real <= 2 * x.expire + 1
                   /\ x.real <= n + 2 * MaxTTL}

\* The texts whose records have ended.
OverTexts(n) == {x \in Texts : x.real <= n}

SoundReplies == {x \in Replies : x.until <= x.real + 1}

SoundRequest(r, n) ==
    /\ r \in Requests
    /\ r.block \in Seq(SoundTexts(n))
    /\ r.pc \in {"hit", "parsed"} => r.todo \in Seq(SoundTexts(n))
    /\ r.pc = "parsed" => r.todo # <<>>
    /\ r.pc = "add" => r.todo \in Seq(Records)

\* The inductive invariant: TypeOK with sound texts wherever there are texts.
IInv ==
    /\ lists \in [Keys -> Seq(SoundTexts(now))]
    /\ dies \in [Keys -> Nat]
    /\ req \in [Threads -> Requests]
    /\ \A t \in Threads : SoundRequest(req[t], now)
    /\ reply \in [Threads -> Seq(SoundReplies)]
    /\ skipped \in [Threads -> Seq(OverTexts(now))]
    /\ now \in 0..MaxTime
    /\ asked \in 0..MaxAsk

-----------------------------------------------------------------------------
\* Rounding to the nearest second adds at most half a second, and keeps within
\* m seconds what lasts at most m seconds.
LEMMA RoundBounds ==
    ASSUME NEW d \in Nat, NEW m \in Nat, d <= 2 * m
    PROVE  Round(d) \in 0..m /\ 2 * Round(d) <= d + 1
BY DEF Round

\* Dropping the fraction of a second never adds to a life.
LEMMA UnixBounds ==
    ASSUME NEW n \in Nat
    PROVE  Unix(n) \in Nat /\ 2 * Unix(n) <= n /\ n <= 2 * Unix(n) + 1
BY DEF Unix

\* A sequence over a set is one over every larger set.
LEMMA SeqSubset ==
    ASSUME NEW A, NEW B, \A x \in A : x \in B, NEW s \in Seq(A)
    PROVE  s \in Seq(B)
OBVIOUS

\* The first element of a sequence that has some, and what remains after it.
LEMMA TodoType ==
    ASSUME NEW S, NEW s \in Seq(S), s # <<>>
    PROVE  Head(s) \in S /\ Tail(s) \in Seq(S)
OBVIOUS

LEMMA EmptyType == ASSUME NEW S PROVE <<>> \in Seq(S)
OBVIOUS

LEMMA AppendType ==
    ASSUME NEW S, NEW s \in Seq(S), NEW x \in S
    PROVE  Append(s, x) \in Seq(S)
OBVIOUS

LEMMA ConcatType ==
    ASSUME NEW S, NEW s \in Seq(S), NEW u \in Seq(S)
    PROVE  s \o u \in Seq(S)
OBVIOUS

\* What is sound stays so as time passes.
LEMMA SoundLater ==
    ASSUME NEW n \in Nat, NEW m \in Nat, n <= m
    PROVE  \A x \in SoundTexts(n) : x \in SoundTexts(m)
BY NumberAssumption DEF SoundTexts, Texts

LEMMA OverLater ==
    ASSUME NEW n \in Nat, NEW m \in Nat, n <= m
    PROVE  \A x \in OverTexts(n) : x \in OverTexts(m)
BY DEF OverTexts, Texts

\* A negative number of half seconds is what rounds to a negative number.
LEMMA RoundSign ==
    ASSUME NEW d \in Int
    PROVE  Round(d) \in Int /\ (Round(d) < 0 <=> d < 0)
BY DEF Round

LEMMA NowType == ASSUME IInv PROVE now \in Nat
BY NumberAssumption DEF IInv

\* One call changes to a sound request while the clock stands still.
LEMMA RequestStep ==
    ASSUME IInv, NEW t \in Threads, NEW r, SoundRequest(r, now),
           req' = [req EXCEPT ![t] = r], now' = now
    PROVE  /\ req' \in [Threads -> Requests]
           /\ \A u \in Threads : SoundRequest(req'[u], now')
<1>1. r \in Requests
  BY DEF SoundRequest
<1>2. req' \in [Threads -> Requests]
  BY <1>1 DEF IInv
<1>3. ASSUME NEW u \in Threads PROVE SoundRequest(req'[u], now')
  BY DEF IInv
<1> QED BY <1>2, <1>3

\* Return and Goto change one call to a sound one.
LEMMA ReturnStep ==
    ASSUME IInv, NEW t \in Threads, NEW res \in Results,
           Return(t, res), now' = now
    PROVE  /\ req' \in [Threads -> Requests]
           /\ \A u \in Threads : SoundRequest(req'[u], now')
<1> DEFINE r == [pc |-> "idle", key |-> req[t].key, todo |-> <<>>,
                 block |-> <<>>, min |-> MaxUint32, res |-> res]
<1>1. req[t].key \in Keys /\ MaxUint32 \in 0..MaxUint32
  BY NumberAssumption DEF IInv, Requests
<1>2. <<>> \in Seq(Texts) /\ <<>> \in Seq(SoundTexts(now))
  BY EmptyType
<1>3. SoundRequest(r, now)
  BY <1>1, <1>2 DEF SoundRequest, Requests
<1>4. req' = [req EXCEPT ![t] = r]
  BY DEF Return
<1> QED BY <1>3, <1>4, RequestStep

LEMMA GotoStep ==
    ASSUME IInv, NEW t \in Threads, NEW pc \in {"hit", "parsed", "miss", "add"},
           NEW todo \in Seq(Texts) \cup Seq(Records), NEW res \in Results,
           pc \in {"hit", "parsed"} => todo \in Seq(SoundTexts(now)),
           pc = "parsed" => todo # <<>>,
           pc = "add" => todo \in Seq(Records),
           Goto(t, pc, todo, res), now' = now
    PROVE  /\ req' \in [Threads -> Requests]
           /\ \A u \in Threads : SoundRequest(req'[u], now')
<1> DEFINE r == [pc |-> pc, key |-> req[t].key, todo |-> todo,
                 block |-> req[t].block, min |-> req[t].min, res |-> res]
<1>1. /\ req[t].key \in Keys /\ req[t].min \in 0..MaxUint32
      /\ req[t].block \in Seq(Texts)
  BY DEF IInv, Requests
<1>2. req[t].block \in Seq(SoundTexts(now))
  BY DEF IInv, SoundRequest
<1>3. SoundRequest(r, now)
  BY <1>1, <1>2 DEF SoundRequest, Requests
<1>4. req' = [req EXCEPT ![t] = r]
  BY DEF Goto
<1> QED BY <1>3, <1>4, RequestStep

\* Add gives the writer a sound reply.
LEMMA AddStep ==
    ASSUME IInv, NEW t \in Threads, NEW data \in Data, NEW ttl \in 0..MaxTTL,
           NEW real \in Nat, now + 2 * ttl <= real + 1,
           Add(t, data, ttl, real)
    PROVE  reply' \in [Threads -> Seq(SoundReplies)]
<1> DEFINE x == [data |-> data, ttl |-> ttl, until |-> now + 2 * ttl,
                 real |-> real]
<1>1. now + 2 * ttl \in Nat
  BY NumberAssumption DEF IInv
<1>2. x \in SoundReplies
  BY <1>1 DEF SoundReplies, Replies
<1>3. reply' = [reply EXCEPT ![t] = Append(reply[t], x)]
  BY DEF Add
<1> HIDE DEF x
<1>4. Append(reply[t], x) \in Seq(SoundReplies)
  BY <1>2, AppendType DEF IInv
<1> QED BY <1>3, <1>4 DEF IInv

-----------------------------------------------------------------------------
\* The invariant is inductive.
LEMMA InvInit == Init => IInv
<1> SUFFICES ASSUME Init PROVE IInv
  OBVIOUS
<1>1. PICK k \in Keys : req = [t \in Threads |-> NewRequest("idle", k)]
  BY DEF Init
<1>2. <<>> \in Seq(Texts) /\ <<>> \in Seq(SoundTexts(now))
      /\ <<>> \in Seq(SoundReplies) /\ <<>> \in Seq(OverTexts(now))
  BY EmptyType
<1>3. SoundRequest(NewRequest("idle", k), now)
  BY <1>2, NumberAssumption DEF SoundRequest, NewRequest, Requests, Results
<1>4. req \in [Threads -> Requests] /\ \A t \in Threads : SoundRequest(req[t], now)
  BY <1>1, <1>3 DEF SoundRequest
<1> QED BY <1>2, <1>4, NumberAssumption DEF Init, IInv

LEMMA InvNext == IInv /\ [Next]_vars => IInv'
<1> SUFFICES ASSUME IInv, [Next]_vars PROVE IInv'
  OBVIOUS
<1>1. ASSUME NEW t \in Threads, NEW k \in Keys, Ask(t, k) PROVE IInv'
  <2> DEFINE r == NewRequest("look", k)
  <2>1. <<>> \in Seq(Texts) /\ <<>> \in Seq(SoundTexts(now))
        /\ <<>> \in Seq(SoundReplies) /\ <<>> \in Seq(OverTexts(now))
    BY EmptyType
  <2>2. SoundRequest(r, now)
    BY <2>1, NumberAssumption DEF SoundRequest, NewRequest, Requests, Results
  <2>3. req' = [req EXCEPT ![t] = r] /\ now' = now
    BY <1>1 DEF Ask
  <2> HIDE DEF r
  <2>4. req' \in [Threads -> Requests]
        /\ \A u \in Threads : SoundRequest(req'[u], now')
    BY <2>2, <2>3, RequestStep
  <2>5. reply' \in [Threads -> Seq(SoundReplies)] /\ asked' \in 0..MaxAsk
        /\ skipped' \in [Threads -> Seq(OverTexts(now'))]
    BY <1>1, <2>1, NumberAssumption DEF Ask, IInv
  <2> QED BY <1>1, <2>4, <2>5 DEF Ask, IInv
<1>2. ASSUME NEW t \in Threads, Lookup(t) PROVE IInv'
  <2> DEFINE texts == lists[req[t].key]
             pc    == IF texts = <<>> THEN "miss" ELSE "hit"
  <2>1. texts \in Seq(SoundTexts(now))
    BY DEF IInv, Requests
  <2>2. texts \in Seq(Texts)
    BY <2>1, SeqSubset DEF SoundTexts
  <2>3. Goto(t, pc, texts, "ok") /\ now' = now
    BY <1>2 DEF Lookup
  <2>4. pc \in {"hit", "miss"}
    OBVIOUS
  <2> HIDE DEF texts, pc
  <2>5. req' \in [Threads -> Requests]
        /\ \A u \in Threads : SoundRequest(req'[u], now')
    BY <2>1, <2>2, <2>3, <2>4, GotoStep DEF Results
  <2> QED BY <1>2, <2>5 DEF Lookup, IInv
<1>3. ASSUME NEW t \in Threads, NEW res \in Results, Return(t, res),
             UNCHANGED <<lists, dies, reply, skipped, now, asked>>
      PROVE  IInv'
  BY <1>3, ReturnStep DEF IInv
<1>4. ASSUME NEW t \in Threads, req[t].pc = "parsed"
      PROVE  LET text == Head(req[t].todo)
             IN  /\ text \in SoundTexts(now)
                 /\ Tail(req[t].todo) \in Seq(SoundTexts(now))
                 /\ Tail(req[t].todo) \in Seq(Texts)
                 /\ text.data \in Data /\ text.expire \in Nat
                 /\ text.real \in Nat /\ 2 * text.expire <= text.real
                 /\ text.real <= 2 * text.expire + 1
                 /\ text.real <= now + 2 * MaxTTL
  <2> DEFINE text == Head(req[t].todo)
  <2>1. req[t].todo \in Seq(SoundTexts(now)) /\ req[t].todo # <<>>
    BY <1>4 DEF IInv, SoundRequest
  <2>2. text \in SoundTexts(now) /\ Tail(req[t].todo) \in Seq(SoundTexts(now))
    BY <2>1, TodoType
  <2>3. Tail(req[t].todo) \in Seq(Texts)
    BY <2>2, SeqSubset DEF SoundTexts
  <2> HIDE DEF text
  <2>4. /\ text.data \in Data /\ text.expire \in Nat /\ text.real \in Nat
        /\ 2 * text.expire <= text.real /\ text.real <= 2 * text.expire + 1
        /\ text.real <= now + 2 * MaxTTL
    BY <2>2 DEF SoundTexts, Texts
  <2> USE DEF text
  <2> QED BY <2>2, <2>3, <2>4
<1>11. ASSUME NEW t \in Threads, ReplyCached(t) PROVE IInv'
  <2> DEFINE text == Head(req[t].todo)
             d    == 2 * text.expire - now
  <2>2. Tail(req[t].todo) \in Seq(SoundTexts(now))
        /\ Tail(req[t].todo) \in Seq(Texts)
    BY <1>4, <1>11 DEF ReplyCached
  <2>3. /\ text.data \in Data /\ text.expire \in Nat /\ text.real \in Nat
        /\ 2 * text.expire <= text.real /\ text.real <= now + 2 * MaxTTL
    BY <1>4, <1>11 DEF ReplyCached
  <2>4. ~ (Round(d) < 0) /\ Add(t, text.data, Round(d), text.real)
    BY <1>11 DEF ReplyCached, AlreadyExpired, TTLOf
  <2>5. d \in Nat /\ d <= 2 * MaxTTL
    <3>1. d \in Int /\ d <= 2 * MaxTTL
      <4> HIDE DEF text
      <4> QED BY <2>3, NowType, NumberAssumption
    <3> HIDE DEF d
    <3> QED BY <2>4, <3>1, RoundSign
  <2>6. Round(d) \in 0..MaxTTL /\ 2 * Round(d) <= d + 1
    <3> HIDE DEF d
    <3> QED BY <2>5, NumberAssumption, RoundBounds
  <2>8. Goto(t, "hit", Tail(req[t].todo), "ok") /\ now' = now
    BY <1>11 DEF ReplyCached
  <2>9. req' \in [Threads -> Requests]
        /\ \A u \in Threads : SoundRequest(req'[u], now')
    BY <2>2, <2>8, GotoStep DEF Results
  <2>10. now + 2 * Round(d) <= text.real + 1
    <3> DEFINE m == Round(d)
    <3>1. m \in Nat /\ 2 * m <= d + 1
      BY <2>6, NumberAssumption
    <3> HIDE DEF m, text
    <3>2. now + 2 * m <= text.real + 1
      BY <2>3, <3>1, NowType
    <3> QED BY <3>2 DEF m
  <2> HIDE DEF text, d
  <2>11. reply' \in [Threads -> Seq(SoundReplies)]
    BY <2>3, <2>4, <2>6, <2>10, AddStep
  <2> QED BY <1>11, <2>9, <2>11 DEF ReplyCached, IInv
<1>12. ASSUME NEW t \in Threads, Skip(t) PROVE IInv'
  <2> DEFINE text == Head(req[t].todo)
             d    == 2 * text.expire - now
  <2>1. Tail(req[t].todo) \in Seq(SoundTexts(now))
        /\ Tail(req[t].todo) \in Seq(Texts)
    BY <1>4, <1>12 DEF Skip
  <2>2. /\ text \in Texts /\ text.expire \in Nat /\ text.real \in Nat
        /\ text.real <= 2 * text.expire + 1
    BY <1>4, <1>12 DEF Skip, SoundTexts
  <2>3. Round(d) < 0
    BY <1>12 DEF Skip, AlreadyExpired, TTLOf
  <2>4. d \in Int
    <3> HIDE DEF text
    <3> QED BY <2>2, NowType
  <2>5. d < 0
    <3> HIDE DEF d
    <3> QED BY <2>3, <2>4, RoundSign
  <2>6. Goto(t, "hit", Tail(req[t].todo), "ok") /\ now' = now
        /\ skipped' = [skipped EXCEPT ![t] = Append(skipped[t], text)]
    BY <1>12 DEF Skip
  <2>7. req' \in [Threads -> Requests]
        /\ \A u \in Threads : SoundRequest(req'[u], now')
    BY <2>1, <2>6, GotoStep DEF Results
  <2> HIDE DEF text
  <2>8. text.real <= now
    BY <2>2, <2>5, NowType
  <2>9. text \in OverTexts(now)
    BY <2>2, <2>8 DEF OverTexts
  <2>10. Append(skipped[t], text) \in Seq(OverTexts(now))
    BY <2>9, AppendType DEF IInv
  <2>11. skipped' \in [Threads -> Seq(OverTexts(now'))]
    BY <2>6, <2>10 DEF IInv
  <2> QED BY <1>12, <2>7, <2>11 DEF Skip, IInv
<1>13. ASSUME NEW t \in Threads, Parse(t) PROVE IInv'
  <2>1. req[t].todo \in Seq(SoundTexts(now)) /\ req[t].todo # <<>>
    BY <1>13 DEF Parse, IInv, SoundRequest
  <2>2. req[t].todo \in Seq(Texts)
    BY <2>1, SeqSubset DEF SoundTexts
  <2>3. Goto(t, "parsed", req[t].todo, "ok") /\ now' = now
    BY <1>13 DEF Parse
  <2>4. req' \in [Threads -> Requests]
        /\ \A u \in Threads : SoundRequest(req'[u], now')
    BY <2>1, <2>2, <2>3, GotoStep DEF Results
  <2> QED BY <1>13, <2>4 DEF Parse, IInv
<1>5. ASSUME NEW t \in Threads, AnswerArrives(t) PROVE IInv'
  <2>1. PICK a \in Upstream[req[t].key] : Goto(t, "add", a.recs, a.res)
    BY <1>5 DEF AnswerArrives
  <2>2. a.recs \in Seq(Records) /\ a.res \in Results
    BY UpstreamAssumption DEF IInv, Requests
  <2>3. req' \in [Threads -> Requests]
        /\ \A u \in Threads : SoundRequest(req'[u], now')
    BY <1>5, <2>1, <2>2, GotoStep DEF AnswerArrives
  <2> QED BY <1>5, <2>3 DEF AnswerArrives, IInv
<1>6. ASSUME NEW t \in Threads, AddRecord(t) PROVE IInv'
  <2> DEFINE r    == Head(req[t].todo)
             end  == now + 2 * r.ttl
             text == [data |-> r.data, expire |-> Unix(end), real |-> end]
             q    == [pc |-> "add", key |-> req[t].key,
                      todo |-> Tail(req[t].todo),
                      block |-> Append(req[t].block, text),
                      min |-> Least(req[t].min, r.ttl), res |-> req[t].res]
  <2>1. req[t].todo \in Seq(Records) /\ req[t].todo # <<>>
    BY <1>6 DEF AddRecord, IInv, SoundRequest
  <2>2. r \in Records /\ Tail(req[t].todo) \in Seq(Records)
    BY <2>1, TodoType
  <2>3. r.data \in Data /\ r.ttl \in 0..MaxTTL /\ end \in Nat
    BY <2>2, NumberAssumption, SMTT(30) DEF Records, IInv
  <2>4. text \in SoundTexts(now)
    <3>1. end <= now + 2 * MaxTTL
      BY <2>3, NowType, NumberAssumption
    <3>2. Unix(end) \in Nat /\ 2 * Unix(end) <= end /\ end <= 2 * Unix(end) + 1
      <4> HIDE DEF end
      <4> QED BY <2>3, UnixBounds
    <3> HIDE DEF end
    <3> QED BY <2>3, <3>1, <3>2 DEF SoundTexts, Texts
  <2>5. req' = [req EXCEPT ![t] = q] /\ Add(t, r.data, r.ttl, end) /\ now' = now
    BY <1>6 DEF AddRecord
  <2>6. req[t].block \in Seq(SoundTexts(now)) /\ req[t].key \in Keys
        /\ req[t].res \in Results /\ req[t].min \in 0..MaxUint32
    BY DEF IInv, SoundRequest, Requests
  <2>7. Least(req[t].min, r.ttl) \in 0..MaxUint32
    BY <2>3, <2>6, NumberAssumption DEF Least
  <2>8. now + 2 * r.ttl <= end + 1
    BY <2>3
  <2> HIDE DEF text
  <2>9. Append(req[t].block, text) \in Seq(SoundTexts(now))
    BY <2>4, <2>6, AppendType
  <2>10. Append(req[t].block, text) \in Seq(Texts)
    BY <2>9, SeqSubset DEF SoundTexts
  <2> HIDE DEF r, end
  <2>11. SoundRequest(q, now)
    BY <2>2, <2>6, <2>7, <2>9, <2>10 DEF SoundRequest, Requests
  <2> HIDE DEF q
  <2>12. req' \in [Threads -> Requests]
         /\ \A u \in Threads : SoundRequest(req'[u], now')
    BY <2>5, <2>11, RequestStep
  <2>13. reply' \in [Threads -> Seq(SoundReplies)]
    BY <2>3, <2>5, <2>8, AddStep
  <2> QED BY <1>6, <2>12, <2>13 DEF AddRecord, IInv
<1>7. ASSUME NEW t \in Threads, Commit(t) PROVE IInv'
  <2> DEFINE k == req[t].key
  <2>1. /\ k \in Keys /\ req[t].res \in Results /\ req[t].min \in 0..MaxUint32
        /\ req[t].block \in Seq(SoundTexts(now))
    BY DEF IInv, SoundRequest, Requests
  <2>2. /\ lists' = [lists EXCEPT ![k] = lists[k] \o req[t].block]
        /\ dies' = [dies EXCEPT ![k] = now + 2 * req[t].min]
        /\ Return(t, req[t].res) /\ UNCHANGED <<reply, skipped, now, asked>>
    BY <1>7 DEF Commit
  <2> HIDE DEF k
  <2>3. lists[k] \o req[t].block \in Seq(SoundTexts(now))
    BY <2>1, ConcatType DEF IInv
  <2>4. lists' \in [Keys -> Seq(SoundTexts(now'))]
    BY <2>1, <2>2, <2>3 DEF IInv
  <2>5. now + 2 * req[t].min \in Nat
    BY <2>1, NumberAssumption DEF IInv
  <2>6. dies' \in [Keys -> Nat]
    BY <2>1, <2>2, <2>5 DEF IInv
  <2>7. req' \in [Threads -> Requests]
        /\ \A u \in Threads : SoundRequest(req'[u], now')
    BY <2>1, <2>2, ReturnStep
  <2> QED BY <2>2, <2>4, <2>6, <2>7 DEF IInv
<1>8. CASE Tick
  <2>1. now' = now + 1 /\ now' \in 0..MaxTime /\ now \in Nat /\ now' \in Nat
    BY <1>8, NumberAssumption DEF Tick, IInv
  <2>2. \A x \in SoundTexts(now) : x \in SoundTexts(now')
    BY <2>1, SoundLater
  <2>3. ASSUME NEW k \in Keys PROVE lists'[k] \in Seq(SoundTexts(now'))
    <3>1. lists[k] \in Seq(SoundTexts(now'))
      BY <2>2, SeqSubset DEF IInv
    <3> QED BY <1>8, <3>1, EmptyType DEF Tick
  <2>4. lists' \in [Keys -> Seq(SoundTexts(now'))]
    BY <1>8, <2>3 DEF Tick
  <2>5. ASSUME NEW t \in Threads PROVE SoundRequest(req[t], now')
    <3>1. SoundRequest(req[t], now)
      BY DEF IInv
    <3>2. req[t].block \in Seq(SoundTexts(now'))
      BY <2>2, <3>1, SeqSubset DEF SoundRequest
    <3>3. CASE req[t].pc \in {"hit", "parsed"}
      <4>1. req[t].todo \in Seq(SoundTexts(now'))
        BY <2>2, <3>1, <3>3, SeqSubset DEF SoundRequest
      <4> QED BY <3>1, <3>2, <3>3, <4>1 DEF SoundRequest
    <3>4. CASE req[t].pc \notin {"hit", "parsed"}
      BY <3>1, <3>2, <3>4 DEF SoundRequest
    <3> QED BY <3>3, <3>4
  <2>6. skipped' \in [Threads -> Seq(OverTexts(now'))]
    <3>1. \A x \in OverTexts(now) : x \in OverTexts(now')
      BY <2>1, OverLater
    <3>2. \A t \in Threads : skipped[t] \in Seq(OverTexts(now'))
      BY <3>1, SeqSubset DEF IInv
    <3> QED BY <1>8, <3>2 DEF Tick, IInv
  <2> QED BY <1>8, <2>1, <2>4, <2>5, <2>6 DEF Tick, IInv
<1>9. CASE UNCHANGED vars
  BY <1>9 DEF vars, IInv
<1>10. ASSUME NEW t \in Threads, Handler(t) PROVE IInv'
  <2>1. req[t].res \in Results
    BY DEF IInv, Requests
  <2>2. CASE Unreachable(t) \/ ReplyFails(t)
    BY <2>2, <1>3 DEF Unreachable, ReplyFails, Results
  <2>3. CASE Replied(t)
    BY <2>3, <1>3 DEF Replied, Results
  <2>4. CASE CommitLost(t) \/ Discard(t)
    BY <2>1, <2>4, <1>3 DEF CommitLost, Discard
  <2> QED
    BY <1>2, <1>5, <1>6, <1>7, <1>10, <1>11, <1>12, <1>13, <2>2, <2>3, <2>4
       DEF Handler
<1> QED BY <1>1, <1>8, <1>9, <1>10 DEF Next

LEMMA Invariance == Spec => []IInv
BY InvInit, InvNext, PTL DEF Spec

-----------------------------------------------------------------------------
\* Type correctness: in particular no cached answer has a negative TTL or one
\* the upstream never gave.
THEOREM TypeCorrect == Spec => []TypeOK
<1>1. IInv => TypeOK
  <2> SUFFICES ASSUME IInv PROVE TypeOK
    OBVIOUS
  <2>1. lists \in [Keys -> Seq(Texts)]
    BY SeqSubset DEF IInv, SoundTexts
  <2>2. reply \in [Threads -> Seq(Replies)]
    BY SeqSubset DEF IInv, SoundReplies
  <2>3. ASSUME NEW t \in Threads, req[t].pc \in {"hit", "parsed"}
        PROVE  req[t].todo \in Seq(Texts)
    BY <2>3, SeqSubset DEF IInv, SoundRequest, SoundTexts
  <2>4. TodoOK
    BY <2>3 DEF TodoOK, IInv, SoundRequest
  <2>5. skipped \in [Threads -> Seq(Texts)]
    BY SeqSubset DEF IInv, OverTexts
  <2> QED BY <2>1, <2>2, <2>4, <2>5 DEF IInv, TypeOK
<1> QED BY <1>1, Invariance, PTL

\* The remaining TTL of a cached record keeps no client beyond what the upstream
\* allowed, plus half a second, whoever wrote the text and whoever reads it.
THEOREM LifeKept == Spec => []LifeNotProlonged
<1>1. IInv => LifeNotProlonged
  <2> SUFFICES ASSUME IInv, NEW t \in Threads, NEW i \in DOMAIN reply[t]
               PROVE  reply[t][i].until <= reply[t][i].real + 1
    BY DEF LifeNotProlonged
  <2>1. reply[t] \in Seq(SoundReplies)
    BY DEF IInv
  <2>2. reply[t][i] \in SoundReplies
    BY <2>1
  <2> QED BY <2>2 DEF SoundReplies
<1> QED BY <1>1, Invariance, PTL

-----------------------------------------------------------------------------
\* A transaction that is about to be executed has seen a TTL of a record.
MinKnown ==
    \A t \in Threads :
        (req[t].pc = "add" /\ req[t].res = "ok" /\ req[t].todo = <<>>)
            => req[t].min <= MaxTTL

\* What Goto and Return say of each call.
LEMMA GotoFacts ==
    ASSUME IInv, NEW t \in Threads, NEW pc, NEW todo, NEW res,
           Goto(t, pc, todo, res)
    PROVE  /\ req'[t].pc = pc /\ req'[t].todo = todo /\ req'[t].res = res
           /\ \A u \in Threads \ {t} : req'[u] = req[u]
BY DEF Goto, IInv

LEMMA ReturnFacts ==
    ASSUME IInv, NEW t \in Threads, NEW res, Return(t, res)
    PROVE  req'[t].pc = "idle" /\ \A u \in Threads \ {t} : req'[u] = req[u]
BY DEF Return, IInv

\* A call that leaves `add', or never was there, cannot break MinKnown.
LEMMA ReturnKeepsMin ==
    ASSUME IInv, MinKnown, NEW t \in Threads, NEW res, Return(t, res)
    PROVE  MinKnown'
BY ReturnFacts DEF MinKnown

LEMMA MinKnownNext ==
    ASSUME AnswersHaveRecords, IInv, MinKnown, [Next]_vars
    PROVE  MinKnown'
<1>1. ASSUME NEW t \in Threads, NEW k \in Keys, Ask(t, k) PROVE MinKnown'
  <2>1. req'[t].pc = "look" /\ \A u \in Threads \ {t} : req'[u] = req[u]
    BY <1>1 DEF Ask, NewRequest, IInv
  <2> QED BY <2>1 DEF MinKnown
<1>2. ASSUME NEW t \in Threads, NEW pc, NEW todo, NEW res, pc # "add",
             Goto(t, pc, todo, res)
      PROVE  MinKnown'
  BY <1>2, GotoFacts DEF MinKnown
<1>3. ASSUME NEW t \in Threads, Lookup(t) PROVE MinKnown'
  <2>1. PICK pc, todo : pc # "add" /\ Goto(t, pc, todo, "ok")
    BY <1>3 DEF Lookup
  <2> QED BY <2>1, <1>2
<1>4. ASSUME NEW t \in Threads, ReplyCached(t) \/ Skip(t) \/ Parse(t)
      PROVE  MinKnown'
  BY <1>2, <1>4 DEF ReplyCached, Skip, Parse
<1>5. ASSUME NEW t \in Threads, AnswerArrives(t) PROVE MinKnown'
  <2>1. PICK a \in Upstream[req[t].key] : Goto(t, "add", a.recs, a.res)
    BY <1>5 DEF AnswerArrives
  <2>2. req[t].key \in Keys
    BY DEF IInv, Requests
  <2>3. a.res = "ok" => a.recs # <<>>
    BY <2>1, <2>2 DEF AnswersHaveRecords, Complete
  <2> QED BY <2>1, <2>3, GotoFacts DEF MinKnown
<1>6. ASSUME NEW t \in Threads, AddRecord(t) PROVE MinKnown'
  <2> DEFINE ttl == Head(req[t].todo).ttl
  <2>1. req[t].todo \in Seq(Records) /\ req[t].todo # <<>>
    BY <1>6 DEF AddRecord, IInv, SoundRequest
  <2>2. Head(req[t].todo) \in Records /\ req[t].min \in 0..MaxUint32
    BY <2>1, TodoType DEF IInv, Requests
  <2>3. ttl \in 0..MaxTTL
    BY <2>2 DEF Records
  <2>4. req'[t].min = Least(req[t].min, ttl)
        /\ \A u \in Threads \ {t} : req'[u] = req[u]
    BY <1>6 DEF AddRecord, IInv
  <2> HIDE DEF ttl
  <2>5. req'[t].min <= MaxTTL
    BY <2>2, <2>3, <2>4, NumberAssumption DEF Least
  <2> QED BY <2>4, <2>5 DEF MinKnown
<1>7. ASSUME NEW t \in Threads, Handler(t) PROVE MinKnown'
  BY <1>3, <1>4, <1>5, <1>6, <1>7, ReturnKeepsMin
     DEF Handler, Unreachable, ReplyFails, Replied, Commit, CommitLost, Discard
<1>8. CASE Tick \/ UNCHANGED vars
  BY <1>8 DEF Tick, vars, MinKnown
<1> QED BY <1>1, <1>7, <1>8 DEF Next

LEMMA ForgottenNext ==
    ASSUME IInv, MinKnown, ForgottenInTime, [Next]_vars
    PROVE  ForgottenInTime'
<1>1. CASE UNCHANGED <<lists, dies, now>>
  BY <1>1 DEF ForgottenInTime
<1>2. ASSUME NEW t \in Threads, Commit(t) PROVE ForgottenInTime'
  <2> DEFINE k == req[t].key
             m == req[t].min
  <2>1. k \in Keys /\ m \in 0..MaxUint32
    BY DEF IInv, Requests
  <2>2. m <= MaxTTL
    BY <1>2 DEF Commit, Executes, MinKnown
  <2>3. /\ dies' = [dies EXCEPT ![k] = now + 2 * m] /\ now' = now
        /\ \A j \in Keys \ {k} : lists'[j] = lists[j]
    BY <1>2 DEF Commit, IInv
  <2> HIDE DEF k, m
  <2>4. dies'[k] = now + 2 * m /\ \A j \in Keys \ {k} : dies'[j] = dies[j]
    BY <2>1, <2>3 DEF IInv
  <2>5. dies'[k] <= now' + 2 * MaxTTL
    BY <2>1, <2>2, <2>3, <2>4, NowType, NumberAssumption
  <2> QED BY <2>3, <2>4, <2>5 DEF ForgottenInTime
<1>3. CASE Tick
  <2> SUFFICES ASSUME NEW k \in Keys, lists'[k] # <<>>
               PROVE  dies'[k] <= now' + 2 * MaxTTL
    BY DEF ForgottenInTime
  <2>1. lists[k] # <<>> /\ dies'[k] = dies[k] /\ now' = now + 1
    BY <1>3 DEF Tick
  <2>2. dies[k] <= now + 2 * MaxTTL /\ dies[k] \in Nat
    BY <2>1 DEF ForgottenInTime, IInv
  <2> QED BY <2>1, <2>2, NowType, NumberAssumption
<1>4. ASSUME NEW t \in Threads, Handler(t), ~ Commit(t)
      PROVE  UNCHANGED <<lists, dies, now>>
  BY <1>4 DEF Handler, Lookup, Unreachable, ReplyFails, Parse, Skip, ReplyCached,
              Replied, AnswerArrives, AddRecord, CommitLost, Discard
<1>5. ASSUME NEW t \in Threads, NEW k \in Keys, Ask(t, k)
      PROVE  UNCHANGED <<lists, dies, now>>
  BY <1>5 DEF Ask
<1> QED BY <1>1, <1>2, <1>3, <1>4, <1>5 DEF Next, vars

\* If no successful answer of the upstream is empty, Redis drops a name within
\* the longest TTL, however misses overlap, connections break and transactions
\* are discarded.  Without the assumption it does not (EXPIRE then takes the
\* initial value of `ttl').
THEOREM Forgotten ==
    ASSUME AnswersHaveRecords
    PROVE  Spec => []ForgottenInTime
<1>1. Init => MinKnown /\ ForgottenInTime
  BY DEF Init, NewRequest, MinKnown, ForgottenInTime
<1>2. IInv /\ MinKnown /\ ForgottenInTime /\ [Next]_vars
         => (MinKnown /\ ForgottenInTime)'
  BY MinKnownNext, ForgottenNext
<1> QED BY <1>1, <1>2, Invariance, PTL DEF Spec

-----------------------------------------------------------------------------
\* The miss r relays one of the upstream's answers: its records are those
\* already pushed and those to come, and while the shortest TTL so far is not
\* 0, every record that must not be cached is still to come.
Relays(r) ==
    \E a \in Upstream[r.key] :
        /\ a.res = r.res
        /\ DataOf(a.recs) = DataOf(r.block) \cup DataOf(r.todo)
        /\ r.min # 0 => \A i \in DOMAIN a.recs : a.recs[i].ttl = 0 =>
                           \E j \in DOMAIN r.todo : r.todo[j] = a.recs[i]

\* What the call r has given its writer or left out, and has still to give,
\* makes up whole answers.
Serves(r, given) ==
    /\ r.pc \in {"look", "miss"} => given = {} /\ r.block = <<>>
    /\ r.pc \in {"hit", "parsed"} =>
           given \cup DataOf(r.todo) \in Together(Complete(r.key))
    /\ r.pc = "add" => Relays(r) /\ given = DataOf(r.block)
    /\ r.pc = "idle" /\ r.res = "ok" => given \in Together(Complete(r.key))

\* The inductive invariant of the answers.
WholeInv ==
    /\ ListsAreWholeAnswers
    /\ \A t \in Threads : Serves(req[t], Handled(t))

\* The payloads of the empty sequence, of one more record, of the first record
\* and the rest, and of two sequences in a row.
LEMMA DataOfEmpty == DataOf(<<>>) = {}
BY DEF DataOf

LEMMA DataOfAppend ==
    ASSUME NEW S, NEW s \in Seq(S), NEW x \in S
    PROVE  DataOf(Append(s, x)) = DataOf(s) \cup {x.data}
<1>1. DOMAIN Append(s, x) = DOMAIN s \cup {Len(s) + 1}
  <2>1. Len(s) \in Nat
    OBVIOUS
  <2>2. 1..(Len(s) + 1) = 1..Len(s) \cup {Len(s) + 1}
    BY <2>1
  <2> QED BY <2>2
<1>2. Append(s, x)[Len(s) + 1] = x /\ \A i \in DOMAIN s : Append(s, x)[i] = s[i]
  OBVIOUS
<1> QED BY <1>1, <1>2, Zenon DEF DataOf

LEMMA DataOfTail ==
    ASSUME NEW S, NEW s \in Seq(S), s # <<>>
    PROVE  DataOf(s) = {Head(s).data} \cup DataOf(Tail(s))
<1>1. DataOf(s) \subseteq {Head(s).data} \cup DataOf(Tail(s))
  <2> SUFFICES ASSUME NEW i \in DOMAIN s
               PROVE  s[i].data \in {Head(s).data} \cup DataOf(Tail(s))
    BY DEF DataOf
  <2>1. CASE i = 1
    BY <2>1
  <2>2. CASE i # 1
    <3>1. i - 1 \in DOMAIN Tail(s) /\ Tail(s)[i - 1] = s[i]
      BY <2>2
    <3> QED BY <3>1 DEF DataOf
  <2> QED BY <2>1, <2>2
<1>2. Head(s).data \in DataOf(s)
  <2>1. 1 \in DOMAIN s /\ Head(s) = s[1]
    OBVIOUS
  <2> QED BY <2>1 DEF DataOf
<1>3. DataOf(Tail(s)) \subseteq DataOf(s)
  <2> SUFFICES ASSUME NEW i \in DOMAIN Tail(s) PROVE Tail(s)[i].data \in DataOf(s)
    BY DEF DataOf
  <2>1. i + 1 \in DOMAIN s /\ Tail(s)[i] = s[i + 1]
    OBVIOUS
  <2> QED BY <2>1 DEF DataOf
<1> QED BY <1>1, <1>2, <1>3

LEMMA DataOfConcat ==
    ASSUME NEW S, NEW s \in Seq(S), NEW u \in Seq(S)
    PROVE  DataOf(s \o u) = DataOf(s) \cup DataOf(u)
<1>1. ASSUME NEW i \in DOMAIN (s \o u)
      PROVE  (s \o u)[i].data \in DataOf(s) \cup DataOf(u)
  <2>1. CASE i \in DOMAIN s
    <3>1. (s \o u)[i] = s[i]
      BY <2>1
    <3> QED BY <2>1, <3>1 DEF DataOf
  <2>2. CASE i \notin DOMAIN s
    <3>1. i - Len(s) \in DOMAIN u /\ (s \o u)[i] = u[i - Len(s)]
      BY <2>2
    <3> QED BY <3>1 DEF DataOf
  <2> QED BY <2>1, <2>2
<1>2. ASSUME NEW i \in DOMAIN s PROVE s[i].data \in DataOf(s \o u)
  <2>1. i \in DOMAIN (s \o u) /\ (s \o u)[i] = s[i]
    OBVIOUS
  <2> QED BY <2>1 DEF DataOf
<1>3. ASSUME NEW i \in DOMAIN u PROVE u[i].data \in DataOf(s \o u)
  <2>1. i + Len(s) \in DOMAIN (s \o u) /\ (s \o u)[i + Len(s)] = u[i]
    OBVIOUS
  <2> QED BY <2>1 DEF DataOf
<1>4. DataOf(s \o u) \subseteq DataOf(s) \cup DataOf(u)
  BY <1>1 DEF DataOf
<1>5. DataOf(s) \subseteq DataOf(s \o u) /\ DataOf(u) \subseteq DataOf(s \o u)
  BY <1>2, <1>3 DEF DataOf
<1> QED BY <1>4, <1>5

\* No answer, one answer, and whole answers put together are whole answers; so
\* are those of fewer kinds of answers.
LEMMA NoneTogether == ASSUME NEW A PROVE {} \in Together(A)
<1>1. UNION {DataOf(a.recs) : a \in {}} = {}
  OBVIOUS
<1> QED BY <1>1 DEF Together

LEMMA OneTogether ==
    ASSUME NEW A, NEW a \in A
    PROVE  DataOf(a.recs) \in Together(A)
<1>1. UNION {DataOf(b.recs) : b \in {a}} = DataOf(a.recs)
  OBVIOUS
<1> QED BY <1>1, Zenon DEF Together

LEMMA UnionTogether ==
    ASSUME NEW A, NEW X \in Together(A), NEW Y \in Together(A)
    PROVE  X \cup Y \in Together(A)
<1>1. PICK S \in SUBSET A : X = UNION {DataOf(a.recs) : a \in S}
  BY DEF Together
<1>2. PICK T \in SUBSET A : Y = UNION {DataOf(a.recs) : a \in T}
  BY DEF Together
<1>3. X \cup Y = UNION {DataOf(a.recs) : a \in S \cup T}
  BY <1>1, <1>2
<1>4. S \cup T \in SUBSET A
  OBVIOUS
<1> QED BY <1>3, <1>4 DEF Together

LEMMA MoreTogether ==
    ASSUME NEW A, NEW B, A \subseteq B, NEW X \in Together(A)
    PROVE  X \in Together(B)
<1>1. PICK S \in SUBSET A : X = UNION {DataOf(a.recs) : a \in S}
  BY DEF Together
<1>2. S \in SUBSET B
  OBVIOUS
<1> QED BY <1>1, <1>2 DEF Together

\* A step that changes one call and its reply is judged by that call alone.
LEMMA ServesStep ==
    ASSUME WholeInv, NEW t \in Threads, ListsAreWholeAnswers',
           \A u \in Threads \ {t} : req'[u] = req[u] /\ reply'[u] = reply[u]
                                     /\ skipped'[u] = skipped[u],
           Serves(req'[t], Handled(t)')
    PROVE  WholeInv'
<1>1. ASSUME NEW u \in Threads PROVE Serves(req'[u], Handled(u)')
  <2>1. CASE u = t
    BY <2>1
  <2>2. CASE u # t
    BY <2>2 DEF WholeInv, Handled
  <2> QED BY <2>1, <2>2
<1> QED BY <1>1 DEF WholeInv

\* A call that returns with an error owes nothing, one that returns without
\* must have given whole answers.
LEMMA ReturnServes ==
    ASSUME IInv, WholeInv, NEW t \in Threads, NEW res, Return(t, res),
           res = "ok" => Handled(t) \in Together(Complete(req[t].key)),
           ListsAreWholeAnswers', reply' = reply, skipped' = skipped
    PROVE  WholeInv'
<1>1. /\ req'[t].pc = "idle" /\ req'[t].res = res /\ req'[t].key = req[t].key
      /\ \A u \in Threads \ {t} : req'[u] = req[u]
  BY DEF Return, IInv
<1>2. Serves(req'[t], Handled(t)')
  BY <1>1 DEF Serves, Handled
<1> QED BY <1>1, <1>2, ServesStep

\* A transaction is executed after all of a complete answer without a TTL of 0.
LEMMA ExecutedWhole ==
    ASSUME NEW r, Relays(r), r.todo = <<>>, Executes(r)
    PROVE  DataOf(r.block) \in Together(Cacheable(r.key))
<1>1. PICK a \in Upstream[r.key] :
         /\ a.res = r.res
         /\ DataOf(a.recs) = DataOf(r.block) \cup DataOf(r.todo)
         /\ r.min # 0 => \A i \in DOMAIN a.recs : a.recs[i].ttl = 0 =>
                            \E j \in DOMAIN r.todo : r.todo[j] = a.recs[i]
  BY DEF Relays
<1>2. a \in Cacheable(r.key)
  BY <1>1 DEF Executes, Cacheable, Complete
<1>3. DataOf(a.recs) = DataOf(r.block)
  BY <1>1, DataOfEmpty
<1> QED BY <1>2, <1>3, OneTogether

\* A relayed answer that has ended, without an error, was given whole.
LEMMA RelayedWhole ==
    ASSUME NEW r, Relays(r), r.todo = <<>>, r.res = "ok"
    PROVE  DataOf(r.block) \in Together(Complete(r.key))
<1>1. PICK a \in Upstream[r.key] :
         a.res = r.res /\ DataOf(a.recs) = DataOf(r.block) \cup DataOf(r.todo)
  BY DEF Relays
<1>2. a \in Complete(r.key) /\ DataOf(a.recs) = DataOf(r.block)
  BY <1>1, DataOfEmpty DEF Complete
<1> QED BY <1>2, OneTogether

\* One more record pushed is one less to come.
LEMMA RelaysOn ==
    ASSUME NEW r, Relays(r), r.block \in Seq(Texts), r.todo \in Seq(Records),
           r.todo # <<>>, r.min \in Nat,
           NEW text \in Texts, text.data = Head(r.todo).data,
           NEW q, q.key = r.key, q.res = r.res, q.todo = Tail(r.todo),
           q.block = Append(r.block, text),
           q.min = Least(r.min, Head(r.todo).ttl)
    PROVE  Relays(q)
<1>1. PICK a \in Upstream[r.key] :
         /\ a.res = r.res
         /\ DataOf(a.recs) = DataOf(r.block) \cup DataOf(r.todo)
         /\ r.min # 0 => \A i \in DOMAIN a.recs : a.recs[i].ttl = 0 =>
                            \E j \in DOMAIN r.todo : r.todo[j] = a.recs[i]
  BY DEF Relays
<1>2. DataOf(q.block) = DataOf(r.block) \cup {Head(r.todo).data}
  BY DataOfAppend
<1>3. DataOf(r.todo) = {Head(r.todo).data} \cup DataOf(q.todo)
  BY DataOfTail
<1>4. DataOf(a.recs) = DataOf(q.block) \cup DataOf(q.todo)
  BY <1>1, <1>2, <1>3
<1>5. ASSUME q.min # 0, NEW i \in DOMAIN a.recs, a.recs[i].ttl = 0
      PROVE  \E j \in DOMAIN q.todo : q.todo[j] = a.recs[i]
  <2>1. Head(r.todo).ttl \in Nat
    <3>1. Head(r.todo) \in Records
      BY TodoType
    <3> QED BY <3>1, NumberAssumption DEF Records
  <2>2. r.min # 0 /\ Head(r.todo).ttl # 0
    BY <1>5, <2>1 DEF Least
  <2>3. PICK j \in DOMAIN r.todo : r.todo[j] = a.recs[i]
    BY <1>1, <1>5, <2>2
  <2>4. j # 1
    BY <1>5, <2>2, <2>3
  <2>5. j - 1 \in DOMAIN Tail(r.todo) /\ Tail(r.todo)[j - 1] = r.todo[j]
    BY <2>4
  <2> QED BY <2>3, <2>5
<1> QED BY <1>1, <1>4, <1>5 DEF Relays

\* Every step keeps the answers whole.
LEMMA WholeNext == IInv /\ WholeInv /\ [Next]_vars => WholeInv'
<1> SUFFICES ASSUME IInv, WholeInv, [Next]_vars PROVE WholeInv'
  OBVIOUS
<1>1. ASSUME lists' = lists PROVE ListsAreWholeAnswers'
  BY <1>1 DEF WholeInv, ListsAreWholeAnswers
<1>2. ASSUME NEW t \in Threads, NEW k \in Keys, Ask(t, k) PROVE WholeInv'
  <2>1. /\ req'[t].pc = "look" /\ req'[t].block = <<>> /\ reply'[t] = <<>>
        /\ skipped'[t] = <<>>
        /\ \A u \in Threads \ {t} : /\ req'[u] = req[u] /\ reply'[u] = reply[u]
                                     /\ skipped'[u] = skipped[u]
    BY <1>2 DEF Ask, NewRequest, IInv
  <2>2. Serves(req'[t], Handled(t)')
    BY <2>1, DataOfEmpty DEF Serves, Handled
  <2> QED BY <1>1, <1>2, <2>1, <2>2, ServesStep DEF Ask
<1>3. ASSUME NEW t \in Threads, Lookup(t) PROVE WholeInv'
  <2> DEFINE k == req[t].key
             texts == lists[k]
             pc == IF texts = <<>> THEN "miss" ELSE "hit"
  <2>1. Goto(t, pc, texts, "ok") /\ lists' = lists /\ reply' = reply
        /\ skipped' = skipped /\ req[t].pc = "look" /\ k \in Keys
    BY <1>3 DEF Lookup, IInv, Requests
  <2>2. req'[t].key = k /\ req'[t].block = req[t].block
    BY <2>1 DEF Goto, IInv
  <2>3. Handled(t) = {} /\ req[t].block = <<>>
    BY <2>1 DEF WholeInv, Serves
  <2>4. DataOf(texts) \in Together(Complete(k))
    <3>1. DataOf(texts) \in Together(Cacheable(k))
      BY <2>1 DEF WholeInv, ListsAreWholeAnswers
    <3> QED BY <3>1, MoreTogether DEF Cacheable
  <2>5. pc \in {"miss", "hit"}
    OBVIOUS
  <2> HIDE DEF texts, pc
  <2>6. /\ req'[t].pc = pc /\ req'[t].todo = texts
        /\ \A u \in Threads \ {t} : req'[u] = req[u]
    BY <2>1, GotoFacts
  <2>7. Handled(t)' = {}
    BY <2>1, <2>3 DEF Handled
  <2>8. Serves(req'[t], Handled(t)')
    BY <2>1, <2>2, <2>3, <2>4, <2>5, <2>6, <2>7 DEF Serves
  <2> QED BY <1>1, <2>1, <2>6, <2>8, ServesStep
<1>4. ASSUME NEW t \in Threads, Unreachable(t) \/ ReplyFails(t) PROVE WholeInv'
  BY <1>1, <1>4, ReturnServes DEF Unreachable, ReplyFails
<1>5. ASSUME NEW t \in Threads, req[t].pc = "parsed", lists' = lists,
             Goto(t, "hit", Tail(req[t].todo), "ok"),
             \A u \in Threads \ {t} : /\ reply'[u] = reply[u]
                                      /\ skipped'[u] = skipped[u],
             Handled(t)' = Handled(t) \cup {Head(req[t].todo).data}
      PROVE  WholeInv'
  <2> DEFINE todo == Tail(req[t].todo)
  <2>1. req[t].todo \in Seq(SoundTexts(now)) /\ req[t].todo # <<>>
    BY <1>5 DEF IInv, SoundRequest
  <2>2. DataOf(req[t].todo) = {Head(req[t].todo).data} \cup DataOf(todo)
    BY <2>1, DataOfTail
  <2>3. Goto(t, "hit", todo, "ok")
    BY <1>5
  <2> HIDE DEF todo
  <2>4. req'[t].pc = "hit" /\ req'[t].todo = todo
        /\ \A u \in Threads \ {t} : req'[u] = req[u]
    BY <2>3, GotoFacts
  <2>5. req'[t].key = req[t].key
    BY <2>3 DEF Goto, IInv
  <2>6. Handled(t)' \cup DataOf(todo) = Handled(t) \cup DataOf(req[t].todo)
    BY <1>5, <2>2
  <2>7. Handled(t) \cup DataOf(req[t].todo) \in Together(Complete(req[t].key))
    BY <1>5 DEF WholeInv, Serves
  <2>8. Serves(req'[t], Handled(t)')
    BY <2>4, <2>5, <2>6, <2>7 DEF Serves
  <2> QED BY <1>1, <1>5, <2>4, <2>8, ServesStep
<1>14. ASSUME NEW t \in Threads, ReplyCached(t) PROVE WholeInv'
  <2> DEFINE text == Head(req[t].todo)
             x == [data |-> text.data, ttl |-> TTLOf(text),
                   until |-> now + 2 * TTLOf(text), real |-> text.real]
  <2>1. /\ req[t].pc = "parsed" /\ lists' = lists /\ skipped' = skipped
        /\ Goto(t, "hit", Tail(req[t].todo), "ok")
        /\ reply' = [reply EXCEPT ![t] = Append(reply[t], x)]
    BY <1>14 DEF ReplyCached, Add
  <2>2. x.data = text.data
    OBVIOUS
  <2>3. reply[t] \in Seq(SoundReplies \cup {x})
    BY SeqSubset DEF IInv
  <2> HIDE DEF x, text
  <2>4. DataOf(Append(reply[t], x)) = DataOf(reply[t]) \cup {text.data}
    BY <2>2, <2>3, DataOfAppend
  <2>5. reply'[t] = Append(reply[t], x)
        /\ \A u \in Threads \ {t} : reply'[u] = reply[u]
    BY <2>1 DEF IInv
  <2>6. Handled(t)' = Handled(t) \cup {text.data}
    BY <2>1, <2>4, <2>5 DEF Handled
  <2> USE DEF text
  <2> QED BY <1>5, <2>1, <2>5, <2>6
<1>15. ASSUME NEW t \in Threads, Skip(t) PROVE WholeInv'
  <2> DEFINE text == Head(req[t].todo)
  <2>1. /\ req[t].pc = "parsed" /\ lists' = lists /\ reply' = reply
        /\ Goto(t, "hit", Tail(req[t].todo), "ok")
        /\ skipped' = [skipped EXCEPT ![t] = Append(skipped[t], text)]
    BY <1>15 DEF Skip
  <2>2. skipped[t] \in Seq(OverTexts(now) \cup {text})
    BY SeqSubset DEF IInv
  <2> HIDE DEF text
  <2>3. DataOf(Append(skipped[t], text)) = DataOf(skipped[t]) \cup {text.data}
    BY <2>2, DataOfAppend
  <2>4. skipped'[t] = Append(skipped[t], text)
        /\ \A u \in Threads \ {t} : skipped'[u] = skipped[u]
    BY <2>1 DEF IInv
  <2>5. Handled(t)' = Handled(t) \cup {text.data}
    BY <2>1, <2>3, <2>4 DEF Handled
  <2> USE DEF text
  <2> QED BY <1>5, <2>1, <2>4, <2>5
<1>16. ASSUME NEW t \in Threads, Parse(t) PROVE WholeInv'
  <2>1. /\ req[t].pc = "hit" /\ lists' = lists /\ reply' = reply
        /\ skipped' = skipped /\ Goto(t, "parsed", req[t].todo, "ok")
    BY <1>16 DEF Parse
  <2>2. req'[t].pc = "parsed" /\ req'[t].todo = req[t].todo
        /\ \A u \in Threads \ {t} : req'[u] = req[u]
    BY <2>1, GotoFacts
  <2>3. req'[t].key = req[t].key
    BY <2>1 DEF Goto, IInv
  <2>4. Handled(t)' = Handled(t)
    BY <2>1 DEF Handled
  <2>5. Serves(req'[t], Handled(t)')
    BY <2>1, <2>2, <2>3, <2>4 DEF WholeInv, Serves
  <2> QED BY <1>1, <2>1, <2>2, <2>5, ServesStep
<1>6. ASSUME NEW t \in Threads, Replied(t) PROVE WholeInv'
  <2>1. Handled(t) \cup DataOf(req[t].todo)
            \in Together(Complete(req[t].key))
    BY <1>6 DEF Replied, WholeInv, Serves
  <2>2. Handled(t) \in Together(Complete(req[t].key))
    BY <1>6, <2>1, DataOfEmpty DEF Replied
  <2> QED BY <1>1, <1>6, <2>2, ReturnServes DEF Replied
<1>7. ASSUME NEW t \in Threads, AnswerArrives(t) PROVE WholeInv'
  <2>1. PICK a \in Upstream[req[t].key] : Goto(t, "add", a.recs, a.res)
    BY <1>7 DEF AnswerArrives
  <2>2. /\ req'[t].pc = "add" /\ req'[t].todo = a.recs /\ req'[t].res = a.res
        /\ \A u \in Threads \ {t} : req'[u] = req[u]
    BY <2>1, GotoFacts
  <2>3. req'[t].key = req[t].key /\ req'[t].block = req[t].block
    BY <2>1 DEF Goto, IInv
  <2>4. Handled(t) = {} /\ req[t].block = <<>> /\ DataOf(<<>>) = {}
    BY <1>7, DataOfEmpty DEF AnswerArrives, WholeInv, Serves
  <2>5. Relays(req'[t])
    BY <2>1, <2>2, <2>3, <2>4 DEF Relays
  <2>6. Serves(req'[t], Handled(t)')
    BY <1>7, <2>2, <2>3, <2>4, <2>5 DEF AnswerArrives, Serves, Handled
  <2> QED BY <1>1, <1>7, <2>2, <2>6, ServesStep DEF AnswerArrives
<1>8. ASSUME NEW t \in Threads, AddRecord(t) PROVE WholeInv'
  <2> DEFINE r    == Head(req[t].todo)
             end  == now + 2 * r.ttl
             text == [data |-> r.data, expire |-> Unix(end), real |-> end]
             x    == [data |-> r.data, ttl |-> r.ttl, until |-> end, real |-> end]
  <2>1. /\ req[t].pc = "add" /\ req[t].todo # <<>> /\ lists' = lists
        /\ skipped' = skipped
        /\ reply' = [reply EXCEPT ![t] = Append(reply[t], x)]
        /\ req' = [req EXCEPT ![t] =
                [pc |-> "add", key |-> req[t].key, todo |-> Tail(req[t].todo),
                 block |-> Append(req[t].block, text),
                 min |-> Least(req[t].min, r.ttl), res |-> req[t].res]]
    BY <1>8 DEF AddRecord, Add
  <2>2. req[t].todo \in Seq(Records) /\ req[t].block \in Seq(Texts)
        /\ req[t].min \in Nat
    BY <2>1, NumberAssumption DEF IInv, SoundRequest, Requests
  <2>3. r.data \in Data /\ end \in Nat
    <3>1. r \in Records
      BY <2>1, <2>2, TodoType
    <3>2. r.data \in Data /\ r.ttl \in Nat
      BY <3>1, NumberAssumption DEF Records
    <3> QED BY <3>2, NowType
  <2>4. text \in Texts /\ text.data = r.data
    <3> HIDE DEF end
    <3> QED BY <2>3, UnixBounds DEF Texts
  <2>5. x.data = r.data
    OBVIOUS
  <2> HIDE DEF text, x
  <2>6. /\ req'[t].pc = "add" /\ req'[t].key = req[t].key
        /\ req'[t].res = req[t].res /\ req'[t].todo = Tail(req[t].todo)
        /\ req'[t].block = Append(req[t].block, text)
        /\ req'[t].min = Least(req[t].min, r.ttl)
        /\ \A u \in Threads \ {t} : req'[u] = req[u]
    BY <2>1 DEF IInv
  <2>7. Relays(req[t]) /\ Handled(t) = DataOf(req[t].block)
    BY <2>1 DEF WholeInv, Serves
  <2>8. Relays(req'[t])
    BY <2>1, <2>2, <2>4, <2>6, <2>7, RelaysOn
  <2>9. reply'[t] = Append(reply[t], x)
        /\ \A u \in Threads \ {t} : reply'[u] = reply[u]
    BY <2>1 DEF IInv
  <2>10. Handled(t)' = Handled(t) \cup {r.data}
    <3>1. reply[t] \in Seq(SoundReplies \cup {x})
      BY SeqSubset DEF IInv
    <3>2. DataOf(reply'[t]) = DataOf(reply[t]) \cup {r.data}
      BY <2>5, <2>9, <3>1, DataOfAppend
    <3> QED BY <2>1, <3>2 DEF Handled
  <2>11. DataOf(req'[t].block) = DataOf(req[t].block) \cup {r.data}
    BY <2>2, <2>4, <2>6, DataOfAppend
  <2>12. Serves(req'[t], Handled(t)')
    BY <2>6, <2>7, <2>8, <2>10, <2>11 DEF Serves
  <2> QED BY <1>1, <2>1, <2>6, <2>9, <2>12, ServesStep
<1>9. ASSUME NEW t \in Threads, req[t].pc = "add", req[t].todo = <<>>,
             Return(t, req[t].res), reply' = reply, skipped' = skipped,
             ListsAreWholeAnswers'
      PROVE  WholeInv'
  <2>1. Relays(req[t]) /\ Handled(t) = DataOf(req[t].block)
    BY <1>9 DEF WholeInv, Serves
  <2>2. req[t].res = "ok" =>
            Handled(t) \in Together(Complete(req[t].key))
    BY <1>9, <2>1, RelayedWhole
  <2> QED BY <1>9, <2>2, ReturnServes
<1>10. ASSUME NEW t \in Threads, CommitLost(t) \/ Discard(t) PROVE WholeInv'
  BY <1>1, <1>9, <1>10 DEF CommitLost, Discard
<1>11. ASSUME NEW t \in Threads, Commit(t) PROVE WholeInv'
  <2> DEFINE k == req[t].key
             s == req[t].block
  <2>1. /\ req[t].pc = "add" /\ req[t].todo = <<>> /\ Executes(req[t])
        /\ lists' = [lists EXCEPT ![k] = lists[k] \o s]
        /\ Return(t, req[t].res) /\ reply' = reply /\ skipped' = skipped
    BY <1>11 DEF Commit
  <2>2. k \in Keys /\ lists[k] \in Seq(SoundTexts(now))
        /\ s \in Seq(SoundTexts(now))
    BY DEF IInv, SoundRequest, Requests
  <2>3. DataOf(s) \in Together(Cacheable(k))
    BY <2>1, ExecutedWhole DEF WholeInv, Serves
  <2>4. DataOf(lists[k]) \in Together(Cacheable(k))
    BY <2>2 DEF WholeInv, ListsAreWholeAnswers
  <2> HIDE DEF k, s
  <2>5. DataOf(lists[k] \o s) \in Together(Cacheable(k))
    BY <2>2, <2>3, <2>4, DataOfConcat, UnionTogether
  <2>6. lists'[k] = lists[k] \o s /\ \A j \in Keys \ {k} : lists'[j] = lists[j]
    BY <2>1, <2>2 DEF IInv
  <2>7. ListsAreWholeAnswers'
    BY <2>5, <2>6 DEF WholeInv, ListsAreWholeAnswers
  <2> QED BY <1>9, <2>1, <2>7
<1>12. CASE Tick
  <2>1. ASSUME NEW k \in Keys PROVE DataOf(lists'[k]) \in Together(Cacheable(k))
    <3>1. lists'[k] = lists[k] \/ lists'[k] = <<>>
      BY <1>12 DEF Tick
    <3>2. DataOf(lists[k]) \in Together(Cacheable(k))
      BY DEF WholeInv, ListsAreWholeAnswers
    <3> QED BY <3>1, <3>2, DataOfEmpty, NoneTogether
  <2> QED BY <1>12, <2>1 DEF Tick, WholeInv, ListsAreWholeAnswers, Handled
<1>13. CASE UNCHANGED vars
  BY <1>13 DEF vars, WholeInv, ListsAreWholeAnswers, Handled
<1> QED
  BY <1>2, <1>3, <1>4, <1>6, <1>7, <1>8, <1>10, <1>11, <1>12, <1>13, <1>14,
     <1>15, <1>16 DEF Next, Handler

LEMMA Wholeness == Spec => []WholeInv
<1>1. Init => WholeInv
  <2> SUFFICES ASSUME Init PROVE WholeInv
    OBVIOUS
  <2>1. ListsAreWholeAnswers
    BY DataOfEmpty, NoneTogether DEF Init, ListsAreWholeAnswers
  <2>2. ASSUME NEW t \in Threads PROVE Serves(req[t], Handled(t))
    <3>1. req[t].pc = "idle" /\ Handled(t) = {}
      BY DataOfEmpty DEF Init, NewRequest, Handled
    <3> QED BY <3>1, NoneTogether DEF Serves
  <2> QED BY <2>1, <2>2 DEF WholeInv
<1> QED BY <1>1, WholeNext, Invariance, PTL DEF Spec

\* The lists in Redis hold whole, complete answers without a TTL of 0 and
\* nothing else, however the misses of any number of servers overlap, whichever
\* transactions fail and whichever answers the upstream breaks off.
THEOREM ListsWhole == Spec => []ListsAreWholeAnswers
<1>1. WholeInv => ListsAreWholeAnswers
  BY DEF WholeInv
<1> QED BY <1>1, Wholeness, PTL

\* A query that ends without an error has been given whole, complete answers,
\* although its list may be extended and dropped while it is read: what it left
\* out had expired while it was read, also by the upstream's own TTL.
THEOREM AnswersWhole == Spec => []AnswersComplete
<1>1. IInv /\ WholeInv => AnswersComplete
  <2> SUFFICES ASSUME IInv, WholeInv, NEW t \in Threads
               PROVE  /\ (req[t].pc = "idle" /\ req[t].res = "ok") =>
                             Handled(t) \in Together(Complete(req[t].key))
                      /\ \A i \in DOMAIN skipped[t] : skipped[t][i].real <= now
    BY DEF AnswersComplete
  <2>1. (req[t].pc = "idle" /\ req[t].res = "ok") =>
            Handled(t) \in Together(Complete(req[t].key))
    BY DEF WholeInv, Serves
  <2>2. ASSUME NEW i \in DOMAIN skipped[t] PROVE skipped[t][i].real <= now
    <3>1. skipped[t] \in Seq(OverTexts(now))
      BY DEF IInv
    <3>2. skipped[t][i] \in OverTexts(now)
      BY <3>1
    <3> QED BY <3>2 DEF OverTexts
  <2> QED BY <2>1, <2>2
<1> QED BY <1>1, Invariance, Wholeness, PTL
=============================================================================
