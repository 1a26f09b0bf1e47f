----------------------------- MODULE LocalCache -----------------------------
(***************************************************************************)
(* The in-memory answer cache (lib-landns/local_cache.go).  Any number of  *)
(* DNS handler goroutines call Resolve; one manager goroutine sweeps       *)
(* expired names.  The two sides share the entries, a mutex that Resolve   *)
(* holds from the lookup to the end of the upstream's answer, and the      *)
(* bounded channel `invoke' through which an added record wakes the        *)
(* manager.                                                                *)
(*                                                                         *)
(* The clock counts half seconds, so that the rounding of the remaining    *)
(* lifetime to whole seconds (VolatileRecord.Record) is a real step.  A    *)
(* key stands for a pair of query type and name.                           *)
(***************************************************************************)
EXTENDS Integers, Sequences, FiniteSets

CONSTANTS
    Threads,        \* the handler goroutines
    Free,           \* "nobody holds the mutex"
    Keys,           \* the (query type, name) pairs
    Data,           \* the record payloads
    Upstream,       \* Upstream[k]: the answers the upstream may give for k
    MaxTTL,         \* the largest TTL the upstream uses
    TTLModulus,     \* the range of a TTL field: 2^32 in the code
    Cap,            \* the capacity of the channel `invoke': 100 in the code
    MaxWait,        \* the longest sleep of the manager: 10 seconds in the code
    CloseInFlight,  \* may Close be called while a Resolve is running?
    MaxTime,        \* bound of the clock, up to the sleep that is then under way
    MaxAsk          \* bound of the number of queries

Records == [key : Keys, data : Data, ttl : 0..MaxTTL]
Results == {"ok", "error"}     \* what a Resolve returns

ASSUME FreeAssumption == Free \notin Threads
ASSUME NumberAssumption ==
    /\ MaxTTL \in Nat /\ TTLModulus \in Nat /\ MaxTTL < TTLModulus
    /\ Cap \in Nat \ {0} /\ MaxWait \in Nat \ {0}
    /\ MaxTime \in Nat /\ MaxAsk \in Nat
ASSUME ClosingAssumption == CloseInFlight \in BOOLEAN
ASSUME UpstreamAssumption ==
    \A k \in Keys : \A a \in Upstream[k] :
        a.recs \in Seq(Records) /\ a.res \in Results

VARIABLES
    entries,  \* the cached records of each key; <<>> when the key is absent
    mutex,    \* the goroutine that holds lc.mutex, or Free
    tokens,   \* how many wake-ups wait in the channel `invoke'
    mgr,      \* the manager goroutine: where it is, and its timer
    req,      \* the Resolve call of each handler
    reply,    \* what the handler's ResponseWriter has received
    now,      \* the clock, in half seconds
    asked,    \* how many queries were made (bounded by MaxAsk)
    life      \* "open"; "closed" when Close has closed both channels;
              \* "crashed" when a send on the closed channel has panicked

vars == <<entries, mutex, tokens, mgr, req, reply, now, asked, life>>

HoldsLock == {"hit", "miss", "add"}
Cached    == [data : Data, expire : Nat]
Requests  == [pc : {"idle", "lock"} \cup HoldsLock, key : Keys,
              todo : Seq(Cached) \cup Seq(Records), res : Results]

\* A hit has cached records to do, an answer has the upstream's.
TodoOK ==
    \A t \in Threads : /\ req[t].pc = "hit" => req[t].todo \in Seq(Cached)
                       /\ req[t].pc = "add" => req[t].todo \in Seq(Records)

\* sleep: the duration manageTask returned; read: when it read the clock for
\* it; wake: when the timer fires; late: how long after `read' it was armed.
Managers == [pc : {"task1", "task2", "arm", "select", "done"},
             sleep : Nat, read : Nat, wake : Nat, late : Nat]

TypeOK ==
    /\ entries \in [Keys -> Seq(Cached)]
    /\ mutex \in Threads \cup {Free}
    /\ tokens \in 0..Cap
    /\ mgr \in Managers /\ mgr.read <= now
    /\ req \in [Threads -> Requests]
    /\ TodoOK
    /\ reply \in [Threads -> Seq([data : Data, ttl : Nat])]
    /\ now \in Nat
    /\ asked \in 0..MaxAsk
    /\ life \in {"open", "closed", "crashed"}

-----------------------------------------------------------------------------
\* Time.

\* time.Until(e.Expire) < 1 (a nanosecond): nothing is left of e's life.
Due(e) == e.expire <= now

HasDue(k) == \E i \in DOMAIN entries[k] : Due(entries[k][i])

\* math.Round of a number of half seconds: halves are rounded away from zero.
Round(d) == IF d >= 0 THEN (d + 1) \div 2 ELSE - ((1 - d) \div 2)

\* The guard `ttl < 0' of VolatileRecord.Record, and the conversion after it.
\* (NeverExpired is a slip: it lets a negative TTL reach the conversion.)
NeverExpired(ttl) == FALSE
AlreadyExpired(ttl) == ttl < 0
Uint32(n) == n % TTLModulus

\* time.Now().Add(ttl seconds)
ExpireOf(ttl) == now + 2 * ttl

-----------------------------------------------------------------------------
\* Small steps shared by the actions, and the slips the mutants use.

Lost(n) == n
Sent(n) == n + 1                          \* lc.invoke <- struct{}{}

KeptLocked(t) == t
Unlocked(t) == Free                       \* the deferred lc.mutex.Unlock()

Unguarded == TRUE
Unlockable == mutex = Free                \* lc.mutex.Lock() can return

SweptByRecord(k) == SelectSeq(entries[k], LAMBDA e : ~ Due(e))
Swept(k) == IF HasDue(k) THEN <<>> ELSE entries[k]

OffByOne(n) == n >= 0
TokenReady(n) == n > 0                    \* case <-lc.invoke

Deaf == FALSE
StopRequested == life = "closed"                   \* case <-lc.closer

Cacheable(ttl) == ttl # 0                 \* the early return of add

Running == life # "crashed"

Manager(pc) == [pc |-> pc, sleep |-> 0, read |-> 0, wake |-> 0, late |-> 0]

NewRequest(pc, k) == [pc |-> pc, key |-> k, todo |-> <<>>, res |-> "ok"]

\* The call of t goes on at pc, with these records to do and this result.
Goto(t, pc, todo, res) ==
    req' = [req EXCEPT ![t] = [pc |-> pc, key |-> req[t].key, todo |-> todo,
                               res |-> res]]

-----------------------------------------------------------------------------
Init ==
    /\ entries = [k \in Keys |-> <<>>]
    /\ mutex = Free
    /\ tokens = 0
    /\ mgr = Manager("task1")
    /\ \E k \in Keys : req = [t \in Threads |-> NewRequest("idle", k)]
    /\ reply = [t \in Threads |-> <<>>]
    /\ now = 0
    /\ asked = 0
    /\ life = "open"

-----------------------------------------------------------------------------
\* A handler goroutine.

\* A query arrives and calls Resolve.
Ask(t, k) ==
    /\ Running /\ asked < MaxAsk /\ req[t].pc = "idle"
    /\ life = "open" \/ CloseInFlight
    /\ asked' = asked + 1
    /\ req' = [req EXCEPT ![t] = NewRequest("lock", k)]
    /\ reply' = [reply EXCEPT ![t] = <<>>]
    /\ UNCHANGED <<entries, mutex, tokens, mgr, now, life>>

\* The key is cached and none of its records is due.
Hit(t) ==
    /\ Running /\ req[t].pc = "lock" /\ mutex = Free
    /\ entries[req[t].key] # <<>> /\ ~ HasDue(req[t].key)
    /\ mutex' = t
    /\ Goto(t, "hit", entries[req[t].key], "ok")
    /\ UNCHANGED <<entries, tokens, mgr, reply, now, asked, life>>

\* The key is absent, or is dropped because one of its records is due.
Miss(t) ==
    /\ Running /\ req[t].pc = "lock" /\ mutex = Free
    /\ entries[req[t].key] = <<>> \/ HasDue(req[t].key)
    /\ mutex' = t
    /\ entries' = [entries EXCEPT ![req[t].key] = <<>>]
    /\ Goto(t, "miss", <<>>, "ok")
    /\ UNCHANGED <<tokens, mgr, reply, now, asked, life>>

\* One round of the loop of resolveFromCache.
ReplyCached(t) ==
    /\ Running /\ req[t].pc = "hit" /\ req[t].todo # <<>>
    /\ LET e   == Head(req[t].todo)
           ttl == Round(e.expire - now)
       IN  IF AlreadyExpired(ttl)
           THEN /\ Goto(t, "hit", <<>>, "error")
                /\ UNCHANGED reply
           ELSE /\ Goto(t, "hit", Tail(req[t].todo), "ok")
                /\ reply' = [reply EXCEPT ![t] =
                       Append(@, [data |-> e.data, ttl |-> Uint32(ttl)])]
    /\ UNCHANGED <<entries, mutex, tokens, mgr, now, asked, life>>

\* The upstream resolver starts to answer: it will add these records, then
\* return with or without an error.
AnswerArrives(t) ==
    /\ Running /\ req[t].pc = "miss"
    /\ \E a \in Upstream[req[t].key] :
          Goto(t, "add", a.recs, a.res)
    /\ UNCHANGED <<entries, mutex, tokens, mgr, reply, now, asked, life>>

\* ResponseWriterHook.Add hands a record to the writer after `add' returned.
Deliver(t, r) ==
    /\ Goto(t, "add", Tail(req[t].todo), req[t].res)
    /\ reply' = [reply EXCEPT ![t] =
                    Append(@, [data |-> r.data, ttl |-> r.ttl])]

\* LocalCache.add returns early on a record that must not be cached ...
PassOn(t) ==
    /\ Running /\ req[t].pc = "add" /\ req[t].todo # <<>>
    /\ ~ Cacheable(Head(req[t].todo).ttl)
    /\ Deliver(t, Head(req[t].todo))
    /\ UNCHANGED <<entries, mutex, tokens, mgr, now, asked, life>>

\* ... and otherwise stores it under the record's own key, whatever key was
\* asked for, and sends on `invoke': the send blocks while the channel is full
\* and panics when it is closed.
AddRecord(t) ==
    /\ Running /\ req[t].pc = "add" /\ req[t].todo # <<>>
    /\ Cacheable(Head(req[t].todo).ttl)
    /\ \/ /\ life = "open" /\ tokens < Cap
          /\ tokens' = Sent(tokens)
          /\ LET r == Head(req[t].todo)
                 c == [data |-> r.data, expire |-> ExpireOf(r.ttl)]
             IN  /\ entries' = [entries EXCEPT ![r.key] = Append(@, c)]
                 /\ Deliver(t, r)
          /\ UNCHANGED life
       \/ /\ life = "closed"
          /\ life' = "crashed"
          /\ UNCHANGED <<entries, tokens, req, reply>>
    /\ UNCHANGED <<mutex, mgr, now, asked>>

\* Resolve returns and its deferred unlock runs.
Finish(t) ==
    /\ Running /\ req[t].pc \in {"hit", "add"} /\ req[t].todo = <<>>
    /\ mutex' = Unlocked(t)
    /\ Goto(t, "idle", <<>>, req[t].res)
    /\ UNCHANGED <<entries, tokens, mgr, reply, now, asked, life>>

-----------------------------------------------------------------------------
\* The manager goroutine and the owner of the cache.

\* What manageTask looks at: it leaves a key at its first due record.
SeenIn(k) == {i \in DOMAIN entries[k] : \A j \in 1..i : ~ Due(entries[k][j])}
Left == UNION {{entries[k][i].expire - now : i \in SeenIn(k)} : k \in Keys}

\* How long until the first thing happens to the cache, and at most MaxWait.
IsNext(d) ==
    /\ d \in Left \cup {MaxWait}
    /\ \A x \in Left \cup {MaxWait} : d <= x

\* manageTask sweeps the keys and returns a duration.  Each round of manage
\* calls it twice; the result of the first call is dropped.  The readings of
\* the clock in one call are one here: that of the moment it has the mutex.
ManageTask ==
    /\ Running /\ Unlockable
    /\ entries' = [k \in Keys |-> Swept(k)]
    /\ \/ mgr.pc = "task1" /\ mgr' = [mgr EXCEPT !.pc = "task2"]
       \/ /\ mgr.pc = "task2"
          /\ \E d \in Left \cup {MaxWait} :
                /\ IsNext(d)
                /\ mgr' = [pc |-> "arm", sleep |-> d, read |-> now,
                           wake |-> 0, late |-> 0]
    /\ UNCHANGED <<mutex, tokens, req, reply, now, asked, life>>

\* Without the mutex by now, the manager hands the duration to time.After and
\* enters the select: what has passed since the reading is added to its sleep.
ArmTimer ==
    /\ Running /\ mgr.pc = "arm"
    /\ mgr' = [pc |-> "select", sleep |-> 0, read |-> 0,
               wake |-> now + mgr.sleep, late |-> now - mgr.read]
    /\ UNCHANGED <<entries, mutex, tokens, req, reply, now, asked, life>>

\* The timer fires.
TimerFires == mgr.pc = "select" /\ now >= mgr.wake
WakeTimer ==
    /\ Running /\ TimerFires
    /\ mgr' = Manager("task1")
    /\ UNCHANGED <<entries, mutex, tokens, req, reply, now, asked, life>>

\* A receive from `invoke': a waiting token, or nothing from the closed channel.
WakeToken ==
    /\ Running /\ mgr.pc = "select"
    /\ \/ TokenReady(tokens) /\ tokens' = tokens - 1
       \/ life = "closed" /\ tokens = 0 /\ UNCHANGED tokens
    /\ mgr' = Manager("task1")
    /\ UNCHANGED <<entries, mutex, req, reply, now, asked, life>>

\* The select takes the case of the closed `closer'.
Stop ==
    /\ Running /\ mgr.pc = "select" /\ StopRequested
    /\ mgr' = Manager("done")
    /\ UNCHANGED <<entries, mutex, tokens, req, reply, now, asked, life>>

Close ==
    /\ life = "open"
    /\ CloseInFlight \/ \A t \in Threads : req[t].pc = "idle"
    /\ life' = "closed"
    /\ UNCHANGED <<entries, mutex, tokens, mgr, req, reply, now, asked>>

\* Time passes; from MaxTime on only while the manager sleeps over a due entry,
\* which a late timer makes possible.
Tick ==
    /\ Running
    /\ \/ now < MaxTime
       \/ mgr.pc = "select" /\ now < mgr.wake /\ \E k \in Keys : HasDue(k)
    /\ now' = now + 1
    /\ UNCHANGED <<entries, mutex, tokens, mgr, req, reply, asked, life>>

-----------------------------------------------------------------------------
Handler(t) == \/ Hit(t) \/ Miss(t) \/ ReplyCached(t) \/ AnswerArrives(t)
              \/ PassOn(t) \/ AddRecord(t) \/ Finish(t)

Next ==
    \/ \E t \in Threads : Handler(t) \/ \E k \in Keys : Ask(t, k)
    \/ ManageTask \/ ArmTimer \/ WakeTimer \/ WakeToken \/ Stop
    \/ Close \/ Tick

Spec == Init /\ [][Next]_vars

(***************************************************************************)
(* Fairness.  A sync.Mutex hands itself to a goroutine that has waited for *)
(* a millisecond, so whoever waits for it gets it although others keep     *)
(* taking it: strong fairness of Hit, Miss and ManageTask.  select chooses *)
(* at random among its ready cases, so none is neglected for ever: strong  *)
(* fairness of Stop.  Every other step of a goroutine happens when it is   *)
(* ready and stays ready, and the clock goes on.  The upstream is taken to *)
(* return: the forwarder has a network timeout.  Nothing is assumed of Ask *)
(* and Close.                                                              *)
(***************************************************************************)
Fairness ==
    /\ \A t \in Threads :
          /\ SF_vars(Hit(t) \/ Miss(t))
          /\ WF_vars(ReplyCached(t) \/ AnswerArrives(t) \/ PassOn(t)
                        \/ AddRecord(t) \/ Finish(t))
    /\ SF_vars(ManageTask) /\ SF_vars(Stop)
    /\ WF_vars(ArmTimer \/ WakeTimer \/ WakeToken) /\ WF_vars(Tick)

FairSpec == Spec /\ Fairness

-----------------------------------------------------------------------------
\* Properties.

\* Whoever is between the lookup and the return of Resolve holds the mutex,
\* and nobody else does (the deferred unlock of Resolve on every path).
LockHeldWhileServing ==
    \A t \in Threads : req[t].pc \in HoldsLock <=> mutex = t

\* What a hit is serving is still what the cache holds: neither the manager
\* nor another handler sweeps, drops or extends the entry under it.
HitStillCached ==
    \A t \in Threads : req[t].pc = "hit" =>
        \A i \in DOMAIN req[t].todo :
            \E j \in DOMAIN entries[req[t].key] :
                req[t].todo[i] = entries[req[t].key][j]

\* No wake-up is lost: when the manager sleeps and no token waits for it, its
\* timer fires after the first expiry of anything in the cache by no more than
\* the manager itself took from reading the clock to arming the timer.  That
\* includes what was added after it read the clock, before or after it armed.
ManagerWakesInTime ==
    (mgr.pc = "select" /\ tokens = 0) =>
        \A k \in Keys : \A i \in DOMAIN entries[k] :
            mgr.wake <= entries[k][i].expire + mgr.late

\* No answer gives a record a longer life than the upstream ever did: the
\* remaining seconds, rounded and converted, neither grow nor wrap.
TTLNeverGrows ==
    \A t \in Threads : \A i \in DOMAIN reply[t] :
        reply[t][i].ttl <= MaxTTL

\* The records of a sequence, as a set of payloads.
DataOf(s) == {s[i].data : i \in DOMAIN s}

\* A query that finished without an error received exactly the records of one
\* of the upstream's answers, from the cache or not: a name whose records have
\* different lifetimes is never served with some of them missing.
AnswersComplete ==
    \A t \in Threads :
        (req[t].pc = "idle" /\ req[t].res = "ok" /\ reply[t] # <<>>) =>
            \E a \in Upstream[req[t].key] : DataOf(a.recs) = DataOf(reply[t])

\* Nobody waits for ever: a handler does not block on the full channel with the
\* mutex in its hand while the channel's only reader waits for that mutex.
NeverStuck ==
    ~ \E t \in Threads :
        /\ life = "open" /\ mutex = t /\ req[t].pc = "add"
        /\ req[t].todo # <<>> /\ Cacheable(Head(req[t].todo).ttl)
        /\ tokens = Cap
        /\ mgr.pc \in {"task1", "task2"}

\* Every Resolve returns (unless the process dies of a send after Close).
ResolveReturns ==
    \A t \in Threads :
        req[t].pc # "idle" ~> (req[t].pc = "idle" \/ life = "crashed")

\* A due entry does not stay in memory: somebody removes it, although the
\* manager may have gone to sleep before the entry existed.
DueIsSwept ==
    \A k \in Keys : HasDue(k) ~> (~ HasDue(k) \/ life # "open")

\* After Close the manager goroutine ends (unless the process dies).
ManagerStops == life = "closed" ~> (mgr.pc = "done" \/ life = "crashed")
=============================================================================
