# Landns: a verification project

Landns is a DNS server with static zones, a dynamic zone that is changed through
a REST API, and a caching forwarder.  This directory models its concurrent and
stateful core in TLA+, checks it with TLC and proves part of it with TLAPS.  All
paths below are relative to the repository's root, `src/`.

## 1. The system

`main.go` builds one chain and one server:

```
 DNS query                                                 REST request
     |                                                          |
  Handler (handler.go)                              DynamicAPI (rest_api.go)
     |                                                          |
  AlternateResolver                                             |
     |- ResolverSet                                             |
     |    |- SimpleResolver, one per config file                |
     |    `- the dynamic zone: SqliteResolver or EtcdResolver <-+
     `- LocalCache or RedisCache
          `- ForwardResolver -> upstream DNS servers
```

| Part | State | Operations | What makes it hard |
|---|---|---|---|
| local cache, `local_cache.go` | entries per type and name, a mutex, a channel of 100 wake-ups, a manager goroutine | Resolve, add, manageTask, manage, Close | the mutex is held during the upstream's answer; the channel and the mutex can wait for each other; expiry is checked and used at different times |
| SQLite zone, `sqlite_resolver.go` | one table, a mutex, a sweeping goroutine | SetRecords, five reads, RemoveRecord, manageExpire, Close | transactions that fail half way, expiry judged twice, ID stability, PTR records that follow addresses |
| etcd zone, `etcd_resolver.go` | keys `/records/<path>/<id>`, the counter `/lastID`, leases | SetRecords, reads, RemoveRecord | no mutex, no transaction, time-outs, several servers on one prefix |
| Redis cache, `redis_cache.go` | a list per name, key expiry | Resolve | concurrent misses, two clocks for one life |
| chain, `resolver.go`, `simple_resolver.go`, `forward_resolver.go` | none but the answer under construction | Resolve, Close | partial answers before an error, the authoritative flag, parts that change while others are asked |
| handler, `handler.go`, `message_types.go`, `metrics.go` | the answer of one query, counters | ServeDNS, Build | errors after records, duplicates with different TTLs |
| server, `server.go`, `main.go` | three listeners, two channels | ListenAndServe, Start, Stop | late sends on closed channels, which listener is shut down by which error |
| REST API, `rest_api.go`, `dynamic_resolver.go` | none | GET, POST, DELETE on four paths | what the reply says and what happened, retries, lines that are left out, refused, or break the handler |
| record types, `records.go`, `config.go` | none | parse, format, expiry | rounding, `uint32` |
| logging, Prometheus export, clients | output | | nothing that the program reads back |

What makes each part correct:

* cache: a hit gives what the upstream gave, with a remaining life that never
  exceeds the given one; every query returns; due entries go away;
* dynamic zone: a batch happens as a whole or not at all; a record is stored once;
  an ID means one record for good; removing by ID removes; time removes what is
  over and nothing else;
* chain and handler: the first zone that answers decides; an error does not hide
  an answer that was already there;
* server: it stops when it is told to, once, and without a panic;
* REST API: what a reply says has happened, has happened, and DNS queries see it.

## 2. Modules

| Module | Models | Abstract or composed with |
|---|---|---|
| `LocalCache` | `local_cache.go`, `VolatileRecord.Record`, `ResponseWriterHook.Add` | |
| `LocalCacheProofs` | theorems on `LocalCache` | extends it |
| `DynamicZone` | what a `DynamicResolver` promises | abstract |
| `SqliteResolver` | `sqlite_resolver.go` | implements `DynamicZone` |
| `SqliteResolverProofs` | theorems on `SqliteResolver`, and that it implements `DynamicZone` | extends it |
| `EtcdResolver` | `etcd_resolver.go` | |
| `EtcdResolverProofs` | theorems on `EtcdResolver` | extends it |
| `RedisCache` | `redis_cache.go`, the text form of `VolatileRecord` | |
| `RedisCacheProofs` | theorems on `RedisCache` | extends it |
| `Records` | the record types of `records.go` | |
| `StaticZone` | `config.go`, `simple_resolver.go` | extends `Records` |
| `NameService` | what Landns promises a DNS client | abstract |
| `ResolverChain` | `handler.go`, `message_types.go`, `metrics.go`, `resolver.go`, `forward_resolver.go`, `makeServer` | extends `StaticZone`; implements `NameService` |
| `ResolverChainProofs` | theorems on `ResolverChain`, and that it implements `NameService` | extends it |
| `ServerLifecycle` | `server.go`, `main`, `Close` and the sweeper of `sqlite_resolver.go` | |
| `ServerLifecycleProofs` | theorems on `ServerLifecycle` | extends it |
| `DynamicAPI` | `rest_api.go`, `dynamic_resolver.go`, the table of `sqlite_resolver.go` | extends `Records` |
| `DynamicAPIProofs` | theorems on `DynamicAPI` | extends it |
| `Landns` | the server as `makeServer` puts it together | composes `DynamicAPI` and `ResolverChain` |
| `LandnsProofs` | theorems on `Landns`, with those on its two parts | extends `Landns` and `DynamicAPIProofs`, instantiates `ResolverChainProofs` |
| `MC*` | small instances for TLC | extend their module |

**Time.**  All clocks count half seconds: it is the coarsest unit in which
`math.Round(d.Seconds())`, `Time.Unix()` and the three expiry tests of the code
(`< 1ns`, `expire > strftime('%s')`, `expire.Before(now)`) come apart.

**LocalCache.**  `entries`, `mutex` and `tokens` (the number of items in `invoke`)
are the fields of the Go struct; `mgr` is the manager's program counter, the duration
it has computed and its timer; `req[t]` is the call of handler goroutine `t`, with the
records it still has to work through; `reply[t]` is what the handler's writer has
received.  A key stands for a pair (type, name).  One Resolve is `Ask` (the call),
`Hit` or `Miss` (the mutex is taken and the entry looked up in the same step, since
nobody else can look until it is released), `ReplyCached` per cached record, or
`AnswerArrives` and then `PassOn`/`AddRecord` per record of the upstream, and
`Finish` (the deferred unlock).  Other goroutines and the clock move between any
two of them.  `manage` is `ManageTask` twice, `ArmTimer`, then `WakeTimer`, `WakeToken`
or `Stop`.  `ManageTask` computes a duration with the mutex; `ArmTimer` gives it to
`time.After` without, so that handlers and the clock may move between the two, and
`mgr.late` says by how much the timer is late for it.  A send on the closed channel is the end of the process
(`life = "crashed"`).

**SqliteResolver.**  `rows` and `lastId` are the committed table and its
AUTOINCREMENT counter, `op` the operation that holds the mutex, with the
transaction's own view of the table.  `Begin`, then one of `Update`, `Insert`,
`Delete` per statement, then `Commit`; `Fail` is an error of any statement and the
rollback, `Crash` the end of the process.  A read is `Query` (SQL filters by time)
and `Scan` (Go judges every row again, later).  The reads differ only in which
rows they ask for.  Records are texts; `Reverse` gives the PTR that goes with an
address.  `Query` asks for all rows or for one, which stand for every set the
`WHERE` clauses of the five reads can select.

**DynamicZone.**  The same table without operations in progress.  The outcome of a
batch is stated per record from the last command that sets it and the drops after
that, not by running the commands, so that the refinement says something about the
order of statements and about PTR records.

**EtcdResolver.**  Every request to etcd is a step, and any other caller's requests
come between two of them.  `Found`, `FoundPast`, `NotFound` are the three ways out
of findKey; `GetLast` and `Write` at `putLast` are makeKey; `Write` at `put`,
`delete` and `remove` are the three writes.  `TimeOut` returns an error at any
request; etcd then has carried it out, never will, or (`CarryOutLate`) will later.
`stored` is a history variable.

**RedisCache.**  `lists` and `dies` are the lists in Redis and the ends of their keys'
lives.  There is no mutex, and the handlers may belong to several servers.  A call is
`Ask`, `Lookup` (LRANGE, whose answer is worked through although the list may change
or go), then `ReplyFails`, or `Parse` and `ReplyCached` or `Skip`, per text (parsing it and
making it a record read the clock one after the other; one that ends in between is left
out silently, and `skipped` keeps it for the properties); or `AnswerArrives`, `AddRecord` per
record and `Commit`, `CommitLost` or `Discard`.  The client library keeps the commands
after MULTI until `conn.Close()` on the way out of Resolve, so RPUSH, EXPIRE and EXEC
are one step, and their errors reach nobody.  `Unreachable` is a connection that cannot
be had.  A text carries the moment `real` at which the upstream's TTL runs out; the code
does not store it, the properties compare with it.

**Records, StaticZone.**  A Go record is what its methods return; a `dns.RR` is name,
type, TTL and data.  What a conversion loses is in the model: the TTL of a NS record
(clients get 3600), all but the first string of a TXT record, a text that ends its own
quotes and cannot be printed, an IPv4 address written as AAAA.  `StaticZone` is the way
from a configuration file to the records of a `SimpleResolver`.

**ResolverChain.**  `pc[h]` says which resolver the goroutine of a message asks next;
`got[h]` and `aa[h]` are its MessageBuilder.  A message is `Receive`, then `AskStatic` per
file, `AskDynamic`, then `CacheHit`, `CacheMiss` or `CacheFails`, then one of the ways out
of the forwarder, then `Build`.  Errors may come at every point where the code returns
one, with the records added so far.  The dynamic zone (`ZoneChanges`) and the cache
(`Forget`, and what other handlers put there) change between any two steps.  The two
caches differ here in what they keep of an answer (`Filled`), in what they may leave out
of it, and in when they take the authority away (`CachedAuthority`); their inner life is
in `LocalCache` and `RedisCache`.  RedisCache counts a hit where it misses and a miss
where it hits (`redis_cache.go:61` and `:119`); so does the model.

**NameService.**  A call is asked, looks at the local zones at one moment, and is answered
from them, or goes elsewhere if they had nothing.

**ServerLifecycle.**  `pc`, `todo` and `result` are ListenAndServe: the select, the
servers it has yet to shut down, and the closing of the two channels.  `st[l]` is the
goroutine of a listener with the library server in it, modelled from how `server.go` uses
it and marked external; `flight[l]` counts requests.  `main` passes a context that is
never done and never stops the zone after an error (`logger.Fatal` exits); a program that
embeds the server, like the tests, may cancel and close at any moment.

**DynamicAPI.**  A line of a body is what the parser makes of it: a record (set, or
commented out), a blank line, a line without a record, or no record.  A request is
`Send`, then one of `Reject`, `BadRequest`, `Abort`, `ResolverFails`, `SetRecords`,
`DeleteRecordByID` and `Get`.  `SetRecords` applies the whole batch at once, which is what
`SqliteResolver` implementing `DynamicZone` justifies.  A client may send a listing back.

**Landns.**  Both modules on one table: `ResolverChain` is instantiated with the RRs of
`DynamicAPI`'s rows as its dynamic zone.  `promised`, `erased` and `due` are history
variables: what a client may conclude from replies, and what a query that has reached the
server therefore has to contain.

## 3. Runs

| Run | Question | Result |
|---|---|---|
| `cache_safety` | no wake-up lost between the computing of the sleep and its end, no entry pulled from under a hit, TTLs never grow, answers are whole record sets, with mixed lifetimes, CNAME chains and an upstream that changes, fails and sends TTL 0 | holds |
| `cache_liveness` | do queries return, due entries go, and Close end the manager? | holds while the channel cannot fill |
| `cache_full_channel` | can a handler and the manager wait for each other? | **violated** (they can) |
| `sqlite_zone` | does the resolver implement `DynamicZone`, do IDs keep their record, is the UNIQUE constraint never hit, is a shown TTL in range, does the sweeper get its turn? | holds |
| `etcd_single` | one caller, requests get lost, one record is also set with IDs, right or wrong ones: one key per record but for that one, IDs never reused, removed IDs are gone | holds |
| `etcd_late` | two callers, late requests too: does a value always stand under its own name? | holds |
| `etcd_race` | is a record gone after RemoveRecord, with two callers? | **violated** |
| `redis_shared` | overlapping misses and hits, an upstream that changes, fails and sends TTL 0: whole answers in Redis and in replies, but for cached records that end while they are read, no life gained, names forgotten in time | holds |
| `redis_silent` | are names forgotten in time when an upstream gives no record? | **violated** |
| `server` | listeners that fail or are shut down at any moment, requests in flight, cancelled contexts, a zone closed under its sweeper: no panic after one failure, drained on return, who is left serving, does everything end? | holds |
| `chain` | does the chain implement `NameService`, is the authoritative flag honest, do the counters add up, is every message answered unless the local cache keeps it? | holds |
| `service` | the REST API and queries together: are acknowledged changes seen, are retries harmless, does DELETE undo POST, do the counts bound the change? | holds |

**Bounds.**  Two handlers are enough for every interleaving of a query with another
query and the manager, because the mutex admits one at a time and the third would
only wait.  Three keys form the CNAME chain in which one query adds to entries of
another.  Lifetimes of one and two seconds on a clock of three (liveness) or five half
seconds let an entry be fetched, served, rounded up, become due, be swept and be fetched
again; past that bound the clock goes on only while the manager sleeps over a due
entry, so that a timer that was armed late still fires.  The capacity of the channel
is chosen above the number of sends where the deadlock is not the question, and 1 where
it is.  The zone has an address, its PTR and an unrelated record: one of each kind
`Reverse` distinguishes; three calls are a set, a change and a removal (or a set
again); seven IDs are as many as three calls can use.  Two handlers on one Redis key are the two misses that overlap, and three
queries let a hit read what they left, over three and a half seconds with lifetimes of
one and two; names do not touch each other there.  `MaxUint32` only has to be larger
than any TTL.  `MaxId` is below 10 in `EtcdResolver` because the code compares IDs in keys as
strings.  Each bound is a constant named in its module.

`server` has both protocols and both callers and one request per listener: a shutdown
waits for one as it waits for several, and the proofs do not bound the number.  `chain` has
two handlers, so that one fills the cache while the other decides to look there; two
messages, because a third would repeat what the second can do to the first; two static
zones that share an address with different TTLs, a dynamic zone that overrides or adds a
name; two upstream servers, the first of which may be silent; six messages (with and
without recursion, an alias, a text that cannot be printed, a NOTIFY).  `service` has one
client of the API with three requests (set, change, remove, or a retry) out of eleven and
those that send a listing back, and two messages on one handler: a query reads what a
deleted record left in the cache.  One client is enough for the promises, which are about
one request and later queries; what two clients may do to each other is atomic and only
reorders requests.

Deadlock checking is off in every run: the clock and the number of calls are
bounded, so each model stops.  The deadlock of the cache is a property
(`NeverStuck`).

**Inputs left out.**  `etcd_single` gives an ID with one of the records it sets.
With a wrong ID, which the REST API passes on (`dynamic_resolver.go:71`), findKey looks
under another key and a second copy is stored, so `TextsUnique` excepts the records that some
command sets under a given ID (`GivenTexts`).
The upstream of `cache_safety` never puts a TTL-0 record into a set with others (see
`local_cache.go:109` in section 4), and never fails between two records of one set,
which leaves the same kind of partial entry behind.
The upstream of `redis_shared` never gives an empty answer without an error: that is
`redis_silent`.  The commands of one transaction fit the connection's write buffer, so
that Send fails only when there is no connection at all.  A message has one question and
is a query or a notify: the DNS library's default `MsgAcceptFunc` lets nothing else reach
the handler.  `service` runs with the local cache only; `chain` has all three kinds.  In
`chain` and `service` TTLs do not shrink with time.

**Fairness.**  `LocalCache`: a `sync.Mutex` goes to a goroutine that has waited for
a millisecond (starvation mode), hence strong fairness of the steps that take it;
`select` picks at random among ready cases, hence strong fairness of `Stop`; every
other step of a goroutine is weakly fair.  The upstream is taken to answer or fail,
since the forwarder has a time-out.  `SqliteResolver`: a goroutine inside an
operation goes on (weak), and the ticker's goroutine gets the mutex (strong, as
above).  `ResolverChain`: a handler's steps are weakly fair, except in the local cache
(`InLocalCache`): its mutex is held through the upstream's answer, and its holder may block
on the channel for ever (`cache_full_channel`), so nothing is assumed of a handler that
has got there.  What else a handler waits for is an upstream server or etcd, both with a
time-out, a transaction of the SQLite zone, or Redis, which is taken to answer or to break
the connection, since `redis.Dial` is given no time-out.
`ServerLifecycle`: ListenAndServe and the goroutines go on (weak), a request in flight ends
(weak, as above), and the sweeper's select is fair to its closer although the ticker may be
ready too (strong, random choice); nothing makes a listener bind or fail, a request
arrive or a caller act.  `service` has no liveness property.  Nothing is assumed of new calls, of
crashes, of faults or of the clock, but for the clock of `LocalCache`, which goes on.

## 4. Findings

1. `cache_full_channel`: a full `invoke` channel stops all queries for ever
   (`local_cache.go:129`).  The code's capacity of 100 makes it rare, not impossible:
   the manager must be kept from the mutex while 100 records are added, or one
   answer must hold more than 100 records.
2. `etcd_race`: two callers get one ID; removing by it leaves one record
   (`etcd_resolver.go:66`).
3. `redis_silent`: a miss without an answer gives the list another miss has stored a
   life of 136 years; when its first text is over, every query of the name fails
   (`redis_cache.go:112`).

**Known divergences.**  Seen while modelling, most of them present in the models, without a
run of their own:

* `local_cache.go:109`: a record set with one TTL-0 record is answered from the cache
  without it.  `cache_safety` has no such set.
* `sqlite_resolver.go:177`: `DELETE` with the line of a volatile record as `GET` shows it
  deletes nothing (the line has the remaining TTL, the column the original one), and the
  reply says `delete:1`.  `README.md:141` offers that use for records in general.
* `etcd_resolver.go:89`: a line with an ID that is not the record's stores a second copy
  (`GivenTexts` in `EtcdResolver`).
* `etcd_resolver.go:95`: a record past its time whose lease has not ended makes
  SetRecords of the same name fail (`FoundPast`).
* `sqlite_resolver.go:237`: a record that ends between query and scan fails the whole
  read; `redis_cache.go:122`: in the last part of a second of a name in Redis every query
  of it fails, because the text has whole seconds and the key's life has not;
  `redis_cache.go:128`: a record that ends between the two readings of the clock is left
  out of a reply without an error.
* `redis_cache.go:61`, `:119`: hits are counted as misses and misses as hits.
* `metrics.go:145`: `makeTimer` ignores `skipped`, so a message that is no query is
  counted among the names not found.
* `forward_resolver.go:49`: when every upstream server is silent the client gets an empty
  answer with the authoritative flag and without an error; an upstream's SERVFAIL ends the
  search like an answer.
* `records.go:198`: a NS record of an upstream server reaches the client with a TTL of 3600.
* a query without RecursionDesired is answered from the cache, and not forwarded.
* `server.go:124`: after the failure of one DNS listener the other goes on serving;
  `server.go:131`: a context that ends before a DNS listener has started leaves it serving
  (`WhoIsLeft` says exactly who may be left).  A second failure while ListenAndServe
  returns, or a failure after it was cancelled, panics (`OneFailureIsSurvived`).
* `dynamic_resolver.go:106`: a line of semicolons only, or with a `$ORIGIN` directive only,
  makes `NewRecord` dereference a nil RR, and the connection is cut (`Abort`).
* `dynamic_resolver.go:150`: a line that is commented out is a command if it parses: in a POST
  it deletes the record, in a DELETE it adds it.
* POSTing a listing back may change the TTL of a PTR record, when it is listed before its
  address: the address brings its own TTL along.
* `sqlite_resolver.go:285`: the suffix is compared with `=` after it was escaped for LIKE,
  so a name with `_` is not found by itself; `etcd_resolver.go:296`: the prefix has no
  slash at its end, so a search for `a.example.` also shows `ab.example.`.

## 5. Proofs

`LocalCacheProofs` proves for every number of handlers, keys and records, every
capacity, clock and behaviour of the upstream:

* `TypeCorrect`: `[]TypeOK`.  `TypeOK` is inductive.  It carries `TodoOK` (a hit works
  through cached records, an answer through the upstream's), without which the
  type of `reply` is not preserved.
* `MutualExclusion`: `[]LockHeldWhileServing`, inductive relative to `TypeOK`; no run
  repeats it.
* `NoLostWakeup`: `[]ManagerWakesInTime`, inductive: the only steps that add an entry
  also add a token, and the only step that takes a token leaves `select`, so that without a
  token there is nothing that the manager has not seen.  What it has seen lasts at least
  as long as the duration it computed, counted from the reading of the clock
  (`WakeInv`), because it has just swept every key with a due record.  The timer is armed after the mutex was released:
  it fires at most `mgr.late`, the time that passed in between, after the first expiry.
  That it fires at the expiry is not claimed, and is not so.
* `ServedIsCached`: `[]HitStillCached`, from the mutex: only the holder and the manager
  change entries, and neither does so under a hit.
* `TTLBounded`: `[]TTLNeverGrows`, from the bound `expire <= now + 2 * MaxTTL` on every
  entry (`LifeBounded`, its inductive strengthening) and the lemmas on rounding
  (`RoundBounds`) and on the conversion (`Uint32Exact`).  It needs
  `MaxTTL < TTLModulus`, the assumption that a TTL fits its field.
* `AnswersWhole`: `[]AnswersComplete`, if the upstream is `Steady`: all answers that leave
  anything in an entry leave the same records there, and some answer for that entry
  consists of them.  The entry of a key is filled by every answer that mentions the
  key, a failed one too, so without the hypothesis the property is false; the instance of
  `cache_safety` satisfies it.  `EntriesWhole` says what an entry holds while an answer
  is being added to it: what is there and what is to come make up a whole.

`SqliteResolverProofs` proves for any records, batches and bounds:

* `TypeCorrect`: `[](TypeOK /\ LifeBounded)`.  `TypeOK` says that the TTL of a shown
  line is between 0 and `MaxTTL`; it is inductive only with `LifeBounded`, the bound
  `expire <= Second(now) + MaxTTL` on every row, stored or in a transaction.
* `ShownInRange`: `[]ShownLifeBounded`, from that invariant; the run checks it as part
  of `TypeOK`.
* `NoDuplicates`: `[]TextsUnique`, over the stored table and the transaction's: an
  `Insert` is guarded by an `Update` that matched nothing, in the same transaction.
* `IdsStable`: `IdsKeepTheirRecord`, from `IdsBounded`: the IDs of a table are at most
  its counter, and a transaction shares with the stored table exactly the IDs up to
  the stored counter, under which it has the same records.  It rests on the mutex:
  nobody changes `rows` while a transaction is open.
* `IdsBelowCounter`: `[]IdsBounded` by itself, for the refinement;
* `ImplementsZone`: `Spec => ZoneSpec`, for any batches and any `Reverse` that satisfies the
  assumptions of the module.

The last one is a long way.  `DynamicZone` states the outcome
of a batch from the last command that sets a record and the drops after it, and the code
runs one statement after another, with a PTR record pushed in between.  The invariant
`ZoneInv` ties them (`TransactionsOnTrack`): at each moment of a transaction there are p and q
such that the first p commands were run, but for the PTR record of the last one if q = 1,
and for every record the transaction's table is what `DynamicZone` says the commands run
so far leave.  A statement then moves p or q on, a commit is the abstract batch, a failed
or crashed transaction is a stutter, and reads and removals map to their namesakes.

`EtcdResolverProofs` proves for any callers, batches, faults, late requests and bounds:

* `Typing`, `NamesKept`: `[]TypeOK` and `[]KeysNameTheirRecord`, from `NamedInv`, which adds to
  them that whatever a caller is about to write, and whatever is still on its way to etcd,
  carries the name of its record.

and for a single caller (`Alone`: one caller at a time, no late requests; `etcd_race` and
`etcd_late` are instances where that is not so, and `etcd_race` shows that it is needed):

* `IdsStable`: `[]IdsKeepTheirRecord`, whatever IDs the commands give, from `AloneInv`: what the
  caller has found out still holds when it acts on it (`Ready`); the counter has not moved
  since it was read, and no record ever stood under an ID above the counter (`IdsUsed`);
* `StoredOnce`: `[]TextsUnique`, from the same invariant: every record that no command sets under
  a given ID is stored once.  For the others a search that finds nothing does not say that the
  text to be created is absent, and the code does store them twice (section 3);
* `RemovalIsComplete`: `RemovedIdIsGone`, from the same invariant, whatever IDs are given.

`RedisCacheProofs` proves for any number of handlers and servers and any records and
bounds, from the inductive invariant `IInv` (every text, in Redis, in an open
transaction or in the hands of a hit, ends no later than its record, and its record no
later than the longest TTL from now):

* `TypeCorrect`: `[]TypeOK`, in particular `0 <= ttl <= MaxTTL` in every reply;
* `LifeKept`: `[]LifeNotProlonged`, since `Unix()` drops at least what `Round` can add
  beyond half a second (`UnixBounds`, `RoundBounds`);
* `Forgotten`: `[]ForgottenInTime`, if no successful answer is empty.  It adds
  `MinKnown`: a transaction that will be executed has seen the TTL of a record.  The run
  `redis_silent` shows that the assumption is needed.

* `ListsWhole`, `AnswersWhole`: `[]ListsAreWholeAnswers` and `[]AnswersComplete` (what a reply
  holds and what it left out are whole answers together, and what it left out is over), without
  further assumptions, from `WholeInv`: a call holds in its block and its to-do list exactly one
  answer (`Relays`), a list in Redis is a union of whole answers, and what a hit has given
  or left out and still has to give is such a union too, read in one step by LRANGE.

`ServerLifecycleProofs` proves for any number of requests in flight, from one inductive
invariant on `pc`, `todo`, `result`, `shut` and `st`:

* `TypeCorrect`: `[]TypeOK`, in particular that no request ends twice;
* `PanicNeedsTwo`: `[]OneFailureIsSurvived`.  While the context is not done, a closed
  channel means that ListenAndServe has taken one listener's error, and the listener that
  panics is another one: what was shut down because of the first ends without an error;
* `ErrorReturnIsDrained`: `[]DrainedOnFailure`: a server leaves `todo` only when it is
  down, and what is down accepts nothing any more;
* `LeftServing`: `[]WhoIsLeft`: at every moment each server in use was shut down, is still to
  be, has refused, or is the sibling of a failed DNS listener.

`ResolverChainProofs` proves for any handlers, messages, configurations, dynamic zones,
upstream servers and answers:

* `TypeCorrect`: `[]TypeOK`, in particular that `next` stays within the static zones or the
  upstream servers;
* `AuthorityHolds`: `[]AuthorityIsHonest`.  It is inductive with two further parts: the
  cache holds foreign records only, and whoever asks a cache or an upstream server has no
  record yet.  `Records` is used through `Relayed`, never opened;
* `CountersBalance`: `[]RepliesCounted`: every step but `Receive` and `Build` leaves both the
  counters of messages and replies and the set of busy handlers alone; those two change
  both by one (the cardinality lemmas of the library).

* `ImplementsService`: `Spec => ServiceSpec`.  The service answers from all local zones at one
  moment and the chain asks them one after the other while the dynamic zone changes.  The
  moment is `AskDynamic`, the last of them: the static zones are constant, and
  `AsksInOrder` says that the builder then holds the union of their answers, and no error.
  `CacheKnows` says that what a cache holds under a question is something the upstream may
  say to it.  What the client gets has each record once, with the shortest TTL it came with
  (`OnceIsOnce`: there is a shortest one, and a key and a TTL leave nothing else to differ
  in, `KeyDetermines`).

The assumptions of `ResolverChain` that the proofs use say that the configurations and the
answers are sequences, that there are finitely many handlers, that there is a message, and
that TTLs are numbers and the dynamic zones hold records of the eight types.

`DynamicAPIProofs` proves for any clients, requests, patterns and tables, bodies of any length
included:

* `TypeCorrect`: `[]TypeOK`, from `ApiInv` (every request has a body that the parser can read,
  every reply shows rows with different IDs, the table is a table), which the run
  `service` satisfies too;
* `RetryHarmless`: `[]RetryIsHarmless`; `DeleteUndone`: `[]DeleteUndoes`; `CountsBound`:
  `CountsBoundChange`.

These are about whole batches, so each follows one key through the stages of a batch.
`Held(t, k)` is the row under the key k.  A command without an ID either sets it to a row
that does not depend on the table, or takes a part of it away, or leaves it
(`CascadeSettles`).  After two runs of one batch from different tables the two are
therefore equal, or both have only lost something; and in the second case the
second run finds nothing more to take (`RetryHolds`).  After a POST the row under a
key of the body has the TTL of one of its lines (`SetLeaves`), and the DELETE has that
line (`DropLeaves`).  A command moves two IDs at most (`BatchBounds`).

`LandnsProofs` proves of the whole server, for any number of clients and handlers, any
requests, zones, caches and upstream servers:

* `IncludesApi`: `LandnsSpec => ApiSpec`, and `IncludesChain`: `LandnsSpec => Chain!Spec`.
  The server restricted to the variables of the API is the API, and restricted to those of
  the chain is the chain, so that what is proved of each holds of the whole.
* `ServesNames`: the server implements `NameService`, with the requests of its clients as the
  changes of the zone.
* `PromisesHold`: `[]PromisesKept`, a client reads its own writes.

`IncludesApi` holds action by action.  `IncludesChain` needs an invariant, since the chain
expects a zone of RRs that came through a Go record type: `Brought` says that every record in
the table, and every one that was listed or is asked for, is what `NewRecordFromRR`
makes of its own text, and that the text is one of `ZoneRRs`.

For `PromisesKept` two more are needed.  `Known`: what the history variables say of the table is
true.  A record counts as added after its line was accepted, as gone after its line was
accepted as a removal, with the right TTL and as the only line on it; `Reflects` is what a
batch leaves under one key for the last of the lines on it, and is carried along the commands,
PTR records included (`UnfoldsUpTo`).  That the TTL of a line decides is where
`SameTTL` comes in: an NS record has a TTL in its text that is not its own.
`Settled`: what is due to a handler is in the table until the handler has read the dynamic
zone, and not asked for after it went on to the cache, and in the answer when there is one;
and what must not be there is not in the table and then in the answer only if the static zones or
others say so.  It is inductive because a request under way takes the keys it may change out of
what is due the moment it is sent (`MovesStay`: what a request changes was under way), and
because the steps of a handler are those of the name service (`StepOnTheWay`), of
which one reads the table.

It assumes of the constants what `ResolverChain` does (`ChainAssumption`) and that `ZoneRRs`
names what the requests bring (`ZoneAssumption`): it contains what a line of a request puts
into the zone, and a line made of a text of `ZoneRRs` brings nothing new.  Two instances of a
module share no definitions in the prover, so the first part of `LandnsProofs` shows that the chain of
`Landns` and the instance that the theorems of `ResolverChainProofs` are about do the same.

Induction.  The library's induction rules cannot be used, but the statement that every
set of naturals with a member has a least one can (`WFMin`).  `Climb` derives from it that a
set which holds 0 and goes from n - 1 to n holds all of 0..L; each induction of the
proofs is one about the set of stages for which the claim holds.

Only model-checked: liveness (`EveryMessageAnswered` and its like), since fairness is out of the
prover's reach.  Every safety property of the runs that pass has a theorem.

## 6. Not modelled

* The text of records, YAML, HTTP and DNS messages: a text is modelled by what its parser
  returns.  The wildcards of LIKE and GLOB are a constant (`Globs`).
* The reads of the etcd zone other than Resolve: they change nothing, and read-your-writes is
  only claimed for the SQLite zone, whose operations are serialised by a mutex.
* The summaries of durations and the export to Prometheus; logging; error values.
* The clients: stateless wrappers of the REST API, which sends what `Send` sends.
* The libraries: SQLite, etcd, Redis, net/http and miekg/dns appear as far as the code uses
  them.  Where a vendored library decides what happens (`dns.Dedup`, the TTL of a text
  without one, the error that redigo's Close drops) the model follows its source; the rest
  is marked external.
* In `ResolverChain`: the mutex and the clock of the caches (see `LocalCache`,
  `RedisCache`), `Close` of the resolvers, the size limit of UDP replies.

## 7. Plan

1. The searches of the etcd zone, as operators on paths, against the labels of
   `DynamicAPI`.
2. `EtcdResolver` against `DynamicZone`, for a single caller without faults.
