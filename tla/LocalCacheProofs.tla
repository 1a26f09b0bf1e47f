-------------------------- MODULE LocalCacheProofs --------------------------
(***************************************************************************)
(* Theorems about LocalCache, for any number of handlers, keys and queries *)
(* and every upstream.                                                     *)
(***************************************************************************)
EXTENDS LocalCache, TLAPS

-----------------------------------------------------------------------------
\* Rounding half seconds to seconds keeps the sign, and the rounded remaining
\* life of a record that lives at most m seconds is at most m.
LEMMA RoundBounds ==
    ASSUME NEW d \in Int, NEW m \in Nat, d <= 2 * m
    PROVE  /\ Round(d) \in Int
           /\ Round(d) <= m
           /\ d >= 0 => Round(d) >= 0
BY DEF Round

\* The conversion to an unsigned TTL does not change a TTL of the upstream.
LEMMA Uint32Exact ==
    ASSUME NEW n \in 0..MaxTTL
    PROVE  Uint32(n) = n
BY NumberAssumption DEF Uint32

\* Every rounding of an integer is an integer.
LEMMA RoundType == ASSUME NEW d \in Int PROVE Round(d) \in Int
BY DEF Round

\* A TTL field is a natural number.
LEMMA Uint32Type == ASSUME NEW n \in Int PROVE Uint32(n) \in Nat
BY NumberAssumption DEF Uint32

\* Goto changes one call and leaves it well typed.
LEMMA GotoType ==
    ASSUME req \in [Threads -> Requests], TodoOK,
           NEW t \in Threads, NEW pc \in {"idle", "lock"} \cup HoldsLock,
           NEW todo \in Seq(Cached) \cup Seq(Records), NEW res \in Results,
           pc = "hit" => todo \in Seq(Cached),
           pc = "add" => todo \in Seq(Records),
           Goto(t, pc, todo, res)
    PROVE  req' \in [Threads -> Requests] /\ TodoOK'
<1>1. req[t].key \in Keys
  BY DEF Requests
<1> DEFINE r == [pc |-> pc, key |-> req[t].key, todo |-> todo, res |-> res]
<1>2. r \in Requests
  BY <1>1 DEF Requests
<1>3. req' = [req EXCEPT ![t] = r]
  BY DEF Goto
<1>4. r.pc = pc /\ r.todo = todo
  OBVIOUS
<1> HIDE DEF r
<1>5. req' \in [Threads -> Requests]
  BY <1>2, <1>3
<1>6. TodoOK'
  BY <1>3, <1>4 DEF TodoOK
<1> QED BY <1>5, <1>6

\* The first record of a call that has some, and what remains after it.
LEMMA TodoType ==
    ASSUME NEW S, NEW s \in Seq(S), s # <<>>
    PROVE  Head(s) \in S /\ Tail(s) \in Seq(S)
OBVIOUS

\* The empty sequence, and a sequence grown by one, in a field of a function.
LEMMA EmptyType == ASSUME NEW S PROVE <<>> \in Seq(S)
OBVIOUS

LEMMA AppendType ==
    ASSUME NEW S, NEW D, NEW f \in [D -> Seq(S)], NEW i \in D, NEW x \in S
    PROVE  [f EXCEPT ![i] = Append(f[i], x)] \in [D -> Seq(S)]
<1>1. Append(f[i], x) \in Seq(S)
  OBVIOUS
<1> QED BY <1>1

\* A cached record has an expiry.
LEMMA ExpireType ==
    ASSUME TypeOK, NEW k \in Keys, NEW i \in DOMAIN entries[k]
    PROVE  entries[k][i].expire \in Nat
<1>1. entries[k][i] \in Cached
  BY DEF TypeOK
<1> QED BY <1>1 DEF Cached

\* The manager between two rounds.
LEMMA ManagerType ==
    ASSUME TypeOK, NEW pc \in {"task1", "task2", "done"}
    PROVE  Manager(pc) \in Managers /\ Manager(pc).read <= now
BY DEF Manager, Managers, TypeOK

\* What is left of a record that manageTask sees is more than nothing.
LEMMA LeftType ==
    ASSUME TypeOK
    PROVE  \A d \in Left \cup {MaxWait} : d \in Nat
<1>1. ASSUME NEW k \in Keys, NEW i \in SeenIn(k)
      PROVE  entries[k][i].expire - now \in Nat
  <2>1. entries[k][i] \in Cached /\ i \in 1..i
    BY <1>1 DEF SeenIn, TypeOK
  <2>2. entries[k][i].expire \in Nat /\ ~ (entries[k][i].expire <= now)
    BY <1>1, <2>1 DEF SeenIn, Due, Cached
  <2> QED BY <2>2 DEF TypeOK
<1> QED BY <1>1, NumberAssumption DEF Left

-----------------------------------------------------------------------------
\* Type correctness: in particular the channel never holds more than Cap
\* tokens and a TTL is never negative.
THEOREM TypeCorrect == Spec => []TypeOK
<1>1. Init => TypeOK
  <2> SUFFICES ASSUME Init PROVE TypeOK
    OBVIOUS
  <2>1. PICK k \in Keys : req = [t \in Threads |-> NewRequest("idle", k)]
    BY DEF Init
  <2>2. NewRequest("idle", k) \in Requests /\ NewRequest("idle", k).pc = "idle"
    BY DEF NewRequest, Requests, Results
  <2>3. req \in [Threads -> Requests] /\ TodoOK
    BY <2>1, <2>2 DEF TodoOK
  <2> QED
    BY <2>3, NumberAssumption DEF Init, TypeOK, Manager, Managers
<1>2. TypeOK /\ [Next]_vars => TypeOK'
  <2> SUFFICES ASSUME TypeOK, [Next]_vars PROVE TypeOK'
    OBVIOUS
  <2>1. ASSUME NEW t \in Threads, Hit(t) PROVE TypeOK'
    <3>1. entries[req[t].key] \in Seq(Cached)
      BY DEF TypeOK, Requests
    <3>2. req' \in [Threads -> Requests] /\ TodoOK'
      BY <2>1, <3>1, GotoType DEF TypeOK, Hit, HoldsLock, Results
    <3> QED
      BY <2>1, <3>2 DEF TypeOK, Hit
  <2>2. ASSUME NEW t \in Threads, Miss(t) PROVE TypeOK'
    <3>1. req' \in [Threads -> Requests] /\ TodoOK'
      BY <2>2, EmptyType, GotoType DEF TypeOK, Miss, HoldsLock, Results
    <3>2. entries' \in [Keys -> Seq(Cached)]
      BY <2>2, EmptyType DEF TypeOK, Miss
    <3> QED
      BY <2>2, <3>1, <3>2 DEF TypeOK, Miss
  <2>3. ASSUME NEW t \in Threads, ReplyCached(t) PROVE TypeOK'
    <3> DEFINE e   == Head(req[t].todo)
               ttl == Round(e.expire - now)
    <3>1. e \in Cached /\ Tail(req[t].todo) \in Seq(Cached)
      BY <2>3, TodoType DEF ReplyCached, TypeOK, TodoOK
    <3>2. e.data \in Data /\ e.expire - now \in Int
      BY <3>1 DEF Cached, TypeOK
    <3>3. Uint32(ttl) \in Nat
      BY <3>2, RoundType, Uint32Type
    <3>4. <<>> \in Seq(Cached)
      OBVIOUS
    <3>5. CASE AlreadyExpired(ttl)
      <4>1. Goto(t, "hit", <<>>, "error") /\ UNCHANGED reply
        BY <2>3, <3>5 DEF ReplyCached
      <4>2. req' \in [Threads -> Requests] /\ TodoOK'
        BY <4>1, <3>4, GotoType DEF TypeOK, HoldsLock, Results
      <4> QED
        BY <2>3, <4>1, <4>2 DEF TypeOK, ReplyCached
    <3>6. CASE ~ AlreadyExpired(ttl)
      <4> DEFINE a == [data |-> e.data, ttl |-> Uint32(ttl)]
      <4>1. Goto(t, "hit", Tail(req[t].todo), "ok")
            /\ reply' = [reply EXCEPT ![t] = Append(reply[t], a)]
        BY <2>3, <3>6 DEF ReplyCached
      <4>2. a \in [data : Data, ttl : Nat]
        BY <3>2, <3>3
      <4> HIDE DEF a, e, ttl
      <4>3. reply' \in [Threads -> Seq([data : Data, ttl : Nat])]
        BY <4>1, <4>2, AppendType DEF TypeOK
      <4>4. req' \in [Threads -> Requests] /\ TodoOK'
        BY <4>1, <3>1, GotoType DEF TypeOK, HoldsLock, Results
      <4> QED
        BY <2>3, <4>3, <4>4 DEF TypeOK, ReplyCached
    <3> QED BY <3>5, <3>6
  <2>4. ASSUME NEW t \in Threads, AnswerArrives(t) PROVE TypeOK'
    <3>1. PICK a \in Upstream[req[t].key] : Goto(t, "add", a.recs, a.res)
      BY <2>4 DEF AnswerArrives
    <3>2. a.recs \in Seq(Records) /\ a.res \in Results
      BY UpstreamAssumption DEF TypeOK, Requests
    <3>3. req' \in [Threads -> Requests] /\ TodoOK'
      BY <3>1, <3>2, GotoType DEF TypeOK, HoldsLock
    <3> QED
      BY <2>4, <3>3 DEF TypeOK, AnswerArrives
  <2>5. ASSUME NEW t \in Threads, NEW r \in Records,
               r = Head(req[t].todo), Deliver(t, r),
               req[t].pc = "add", req[t].todo # <<>>
        PROVE  /\ req' \in [Threads -> Requests] /\ TodoOK'
               /\ reply' \in [Threads -> Seq([data : Data, ttl : Nat])]
    <3>1. Tail(req[t].todo) \in Seq(Records) /\ req[t].res \in Results
      BY <2>5, TodoType DEF TypeOK, TodoOK, Requests
    <3>2. req' \in [Threads -> Requests] /\ TodoOK'
      BY <2>5, <3>1, GotoType DEF TypeOK, HoldsLock, Deliver
    <3> DEFINE a == [data |-> r.data, ttl |-> r.ttl]
    <3>3. a \in [data : Data, ttl : Nat]
      BY NumberAssumption DEF Records
    <3>4. reply' = [reply EXCEPT ![t] = Append(reply[t], a)]
      BY <2>5 DEF Deliver
    <3> HIDE DEF a
    <3>5. reply' \in [Threads -> Seq([data : Data, ttl : Nat])]
      BY <3>3, <3>4, AppendType DEF TypeOK
    <3> QED BY <3>2, <3>5
  <2>6. ASSUME NEW t \in Threads, req[t].pc = "add", req[t].todo # <<>>
        PROVE  Head(req[t].todo) \in Records
    BY <2>6, TodoType DEF TypeOK, TodoOK
  <2>7. ASSUME NEW t \in Threads, PassOn(t) PROVE TypeOK'
    <3>1. /\ req' \in [Threads -> Requests] /\ TodoOK'
          /\ reply' \in [Threads -> Seq([data : Data, ttl : Nat])]
      BY <2>5, <2>6, <2>7 DEF PassOn
    <3> QED
      BY <2>7, <3>1 DEF TypeOK, PassOn
  <2>8. ASSUME NEW t \in Threads, AddRecord(t) PROVE TypeOK'
    <3> DEFINE r == Head(req[t].todo)
               c == [data |-> r.data, expire |-> ExpireOf(r.ttl)]
    <3>1. r \in Records
      BY <2>6, <2>8 DEF AddRecord
    <3>2. c \in Cached
      BY <3>1, NumberAssumption, SMTT(30) DEF Records, Cached, ExpireOf, TypeOK
    <3>3. CASE life = "open"
      <4>1. /\ Deliver(t, r) /\ tokens' = tokens + 1 /\ tokens < Cap
            /\ entries' = [entries EXCEPT ![r.key] = Append(entries[r.key], c)]
            /\ UNCHANGED <<mutex, mgr, now, asked, life>>
        BY <2>8, <3>3 DEF AddRecord, Sent
      <4>2. /\ req' \in [Threads -> Requests] /\ TodoOK'
            /\ reply' \in [Threads -> Seq([data : Data, ttl : Nat])]
        BY <2>5, <2>8, <3>1, <4>1 DEF AddRecord
      <4>3. r.key \in Keys
        BY <3>1 DEF Records
      <4> HIDE DEF r, c
      <4>4. entries' \in [Keys -> Seq(Cached)]
        BY <3>2, <4>1, <4>3, AppendType DEF TypeOK
      <4>5. tokens' \in 0..Cap
        BY <4>1, NumberAssumption DEF TypeOK
      <4> QED
        BY <4>1, <4>2, <4>4, <4>5 DEF TypeOK
    <3>4. CASE life # "open"
      BY <2>8, <3>4 DEF AddRecord, TypeOK, TodoOK
    <3> QED BY <3>3, <3>4
  <2>9. ASSUME NEW t \in Threads, Finish(t) PROVE TypeOK'
    <3> DEFINE res == req[t].res
    <3>1. res \in Results /\ <<>> \in Seq(Cached)
      BY EmptyType DEF TypeOK, Requests
    <3>2. Goto(t, "idle", <<>>, res)
      BY <2>9 DEF Finish
    <3> HIDE DEF res
    <3>3. req' \in [Threads -> Requests] /\ TodoOK'
      BY <3>1, <3>2, GotoType DEF TypeOK, HoldsLock
    <3> QED
      BY <2>9, <3>3 DEF TypeOK, Finish, Unlocked
  <2>10. ASSUME NEW t \in Threads, NEW k \in Keys, Ask(t, k) PROVE TypeOK'
    <3> DEFINE r == NewRequest("lock", k)
    <3>1. r \in Requests /\ r.pc = "lock"
      BY DEF NewRequest, Requests, Results
    <3>2. req' = [req EXCEPT ![t] = r]
      BY <2>10 DEF Ask
    <3> HIDE DEF r
    <3>3. req' \in [Threads -> Requests] /\ TodoOK'
      BY <3>1, <3>2 DEF TypeOK, TodoOK
    <3>4. reply' \in [Threads -> Seq([data : Data, ttl : Nat])]
      BY <2>10, EmptyType DEF Ask, TypeOK
    <3>5. asked' \in 0..MaxAsk
      BY <2>10, NumberAssumption DEF Ask, TypeOK
    <3> QED
      BY <2>10, <3>3, <3>4, <3>5 DEF TypeOK, Ask
  <2>11. CASE ManageTask
    <3>1. entries' \in [Keys -> Seq(Cached)]
      BY <2>11 DEF ManageTask, Swept, TypeOK
    <3>2. CASE mgr.pc = "task1"
      BY <2>11, <3>1, <3>2 DEF ManageTask, TypeOK, TodoOK, Managers
    <3>3. CASE mgr.pc # "task1"
      <4>1. PICK d \in Left \cup {MaxWait} :
               mgr' = [pc |-> "arm", sleep |-> d, read |-> now, wake |-> 0,
                       late |-> 0]
        BY <2>11, <3>3 DEF ManageTask
      <4>2. mgr' \in Managers /\ mgr'.read <= now
        <5>1. d \in Nat /\ now \in Nat
          BY LeftType DEF TypeOK
        <5>2. mgr'.read = now /\ now' = now
          BY <2>11, <4>1 DEF ManageTask
        <5> QED BY <4>1, <5>1, <5>2 DEF Managers
      <4> QED BY <2>11, <3>1, <4>2 DEF ManageTask, TypeOK, TodoOK
    <3> QED BY <3>2, <3>3
  <2>12. CASE WakeTimer
    <3>1. mgr' \in Managers /\ mgr'.read <= now
      BY <2>12, ManagerType DEF WakeTimer
    <3> QED BY <2>12, <3>1 DEF WakeTimer, TypeOK, TodoOK
  <2>18. CASE ArmTimer
    <3>1. now + mgr.sleep \in Nat /\ now - mgr.read \in Nat
      BY DEF TypeOK, Managers
    <3>2. mgr' \in Managers /\ mgr'.read <= now'
      BY <2>18, <3>1 DEF ArmTimer, Managers, TypeOK
    <3> QED BY <2>18, <3>2 DEF ArmTimer, TypeOK, TodoOK
  <2>13. CASE WakeToken
    <3>1. tokens' \in 0..Cap
      BY <2>13, NumberAssumption DEF WakeToken, TokenReady, TypeOK
    <3>2. mgr' \in Managers /\ mgr'.read <= now
      BY <2>13, ManagerType DEF WakeToken
    <3> QED BY <2>13, <3>1, <3>2 DEF WakeToken, TypeOK, TodoOK
  <2>14. CASE Stop
    <3>1. mgr' \in Managers /\ mgr'.read <= now
      BY <2>14, ManagerType DEF Stop
    <3> QED BY <2>14, <3>1 DEF Stop, TypeOK, TodoOK
  <2>15. CASE Close
    BY <2>15 DEF Close, TypeOK, TodoOK
  <2>16. CASE Tick
    <3>1. now' \in Nat /\ mgr' = mgr /\ mgr.read <= now'
      BY <2>16 DEF Tick, TypeOK, Managers
    <3> QED BY <2>16, <3>1 DEF Tick, TypeOK, TodoOK
  <2>17. CASE UNCHANGED vars
    BY <2>17 DEF vars, TypeOK, TodoOK
  <2> QED
    BY <2>1, <2>2, <2>3, <2>4, <2>7, <2>8, <2>9, <2>10, <2>11, <2>12, <2>13,
       <2>14, <2>15, <2>16, <2>17, <2>18 DEF Next, Handler
<1> QED
  BY <1>1, <1>2, PTL DEF Spec

-----------------------------------------------------------------------------
\* What Goto says of each call.
LEMMA GotoFacts ==
    ASSUME TypeOK, NEW t \in Threads, NEW pc, NEW todo, NEW res,
           Goto(t, pc, todo, res)
    PROVE  /\ req'[t] = [pc |-> pc, key |-> req[t].key, todo |-> todo,
                         res |-> res]
           /\ req'[t].pc = pc /\ req'[t].key = req[t].key /\ req'[t].todo = todo
           /\ \A u \in Threads \ {t} : req'[u] = req[u]
BY DEF Goto, TypeOK

\* A call that goes on with the mutex in its hand disturbs nobody.
LEMMA StillHolds ==
    ASSUME TypeOK, LockHeldWhileServing, NEW t \in Threads,
           NEW pc \in HoldsLock, NEW todo, NEW res,
           req[t].pc \in HoldsLock, Goto(t, pc, todo, res), mutex' = mutex
    PROVE  LockHeldWhileServing'
<1>1. /\ req'[t].pc = pc /\ \A u \in Threads \ {t} : req'[u] = req[u]
      /\ mutex = t
  BY GotoFacts DEF LockHeldWhileServing
<1> QED BY <1>1 DEF LockHeldWhileServing

\* At any moment at most the holder of the mutex is between the lookup and the
\* return of Resolve: the whole upstream query runs under the lock.
THEOREM MutualExclusion == Spec => []LockHeldWhileServing
<1>1. Init => LockHeldWhileServing
  BY FreeAssumption DEF Init, NewRequest, LockHeldWhileServing, HoldsLock
<1>2. TypeOK /\ LockHeldWhileServing /\ [Next]_vars => LockHeldWhileServing'
  <2> SUFFICES ASSUME TypeOK, LockHeldWhileServing, [Next]_vars
               PROVE  LockHeldWhileServing'
    OBVIOUS
  <2> USE FreeAssumption DEF LockHeldWhileServing, HoldsLock
  <2>1. ASSUME NEW t \in Threads, Hit(t) PROVE LockHeldWhileServing'
    <3>1. Goto(t, "hit", entries[req[t].key], "ok")
          /\ mutex' = t /\ mutex = Free
      BY <2>1 DEF Hit
    <3>2. req'[t].pc = "hit" /\ \A u \in Threads \ {t} : req'[u] = req[u]
      BY <3>1, GotoFacts
    <3> QED
      BY <3>1, <3>2
  <2>2. ASSUME NEW t \in Threads, Miss(t) PROVE LockHeldWhileServing'
    <3>1. Goto(t, "miss", <<>>, "ok") /\ mutex' = t /\ mutex = Free
      BY <2>2 DEF Miss
    <3>2. req'[t].pc = "miss" /\ \A u \in Threads \ {t} : req'[u] = req[u]
      BY <3>1, GotoFacts
    <3> QED
      BY <3>1, <3>2
  <2>3. ASSUME NEW t \in Threads, ReplyCached(t) PROVE LockHeldWhileServing'
    <3>1. PICK todo, res : Goto(t, "hit", todo, res)
      BY <2>3 DEF ReplyCached
    <3> QED
      BY <2>3, <3>1, StillHolds DEF ReplyCached
  <2>4. ASSUME NEW t \in Threads, AnswerArrives(t) PROVE LockHeldWhileServing'
    BY <2>4, GotoFacts, ZenonT(30) DEF AnswerArrives
  <2>5. ASSUME NEW t \in Threads, PassOn(t) PROVE LockHeldWhileServing'
    BY <2>5, StillHolds DEF PassOn, Deliver
  <2>6. ASSUME NEW t \in Threads, AddRecord(t) PROVE LockHeldWhileServing'
    <3>1. CASE life = "open"
      BY <2>6, <3>1, StillHolds DEF AddRecord, Deliver
    <3>2. CASE life # "open"
      BY <2>6, <3>2 DEF AddRecord
    <3> QED BY <3>1, <3>2
  <2>7. ASSUME NEW t \in Threads, Finish(t) PROVE LockHeldWhileServing'
    <3>1. /\ Goto(t, "idle", <<>>, req[t].res) /\ mutex' = Free
          /\ mutex = t
      BY <2>7 DEF Finish, Unlocked
    <3>2. req'[t].pc = "idle" /\ \A u \in Threads \ {t} : req'[u] = req[u]
      BY <3>1, GotoFacts
    <3> QED
      BY <3>1, <3>2
  <2>8. ASSUME NEW t \in Threads, NEW k \in Keys, Ask(t, k)
        PROVE  LockHeldWhileServing'
    BY <2>8 DEF Ask, NewRequest, TypeOK
  <2>9. CASE ManageTask
    BY <2>9 DEF ManageTask
  <2>10. CASE \/ ArmTimer \/ WakeTimer \/ WakeToken \/ Stop \/ Close \/ Tick
              \/ UNCHANGED vars
    BY <2>10 DEF ArmTimer, WakeTimer, WakeToken, Stop, Close, Tick, vars
  <2> QED
    BY <2>1, <2>2, <2>3, <2>4, <2>5, <2>6, <2>7, <2>8, <2>9, <2>10
       DEF Next, Handler
<1> QED
  BY <1>1, <1>2, TypeCorrect, PTL DEF Spec

-----------------------------------------------------------------------------
\* Once the manager has read the clock, what it is going to sleep, or sleeps,
\* ends no later than the first expiry in the cache, its delay in arming the
\* timer apart, unless a token is waiting.
WakeInv ==
    /\ (mgr.pc = "arm" /\ tokens = 0) =>
           \A k \in Keys : \A i \in DOMAIN entries[k] :
               mgr.read + mgr.sleep <= entries[k][i].expire
    /\ ManagerWakesInTime

\* The clock may stand anywhere, and the entries be fewer, than in a state where
\* WakeInv holds.
LEMMA FewerEntries ==
    ASSUME WakeInv, mgr' = mgr, tokens' = tokens,
           \A k \in Keys : entries'[k] = entries[k] \/ entries'[k] = <<>>
    PROVE  WakeInv'
BY DEF WakeInv, ManagerWakesInTime

\* manageTask returns at most what is left of any record after its sweep.
LEMMA SleepBounds ==
    ASSUME TypeOK, NEW d, IsNext(d), NEW k \in Keys, ~ HasDue(k),
           NEW i \in DOMAIN entries[k]
    PROVE  now + d <= entries[k][i].expire
<1>1. i \in SeenIn(k)
  BY DEF SeenIn, HasDue, TypeOK
<1>2. d <= entries[k][i].expire - now
  BY <1>1 DEF Left, IsNext
<1>3. d \in Nat
  BY LeftType DEF IsNext
<1>4. entries[k][i].expire \in Nat
  BY ExpireType
<1> QED BY <1>2, <1>3, <1>4 DEF TypeOK

\* The timer of the sleeping manager covers everything in the cache unless a
\* token is waiting, up to the time the manager takes to arm it: whoever adds a
\* record leaves a token behind, also while the timer is not armed yet, and the
\* duration is what is left of the first record the sweep has kept.
THEOREM NoLostWakeup == Spec => []ManagerWakesInTime
<1>1. Init => WakeInv
  BY DEF Init, Manager, WakeInv, ManagerWakesInTime
<1>2. TypeOK /\ WakeInv /\ [Next]_vars => WakeInv'
  <2> SUFFICES ASSUME TypeOK, WakeInv, [Next]_vars PROVE WakeInv'
    OBVIOUS
  <2>1. CASE UNCHANGED <<entries, tokens, mgr>>
    BY <2>1, FewerEntries
  <2>2. ASSUME NEW t \in Threads, Miss(t) PROVE WakeInv'
    <3>1. \A k \in Keys : entries'[k] = entries[k] \/ entries'[k] = <<>>
      BY <2>2 DEF Miss, TypeOK, Requests
    <3> QED
      BY <2>2, <3>1, FewerEntries DEF Miss
  <2>3. ASSUME NEW t \in Threads, AddRecord(t), life = "open" PROVE WakeInv'
    <3>1. tokens' # 0
      BY <2>3 DEF AddRecord, Sent, TypeOK
    <3> QED
      BY <3>1 DEF WakeInv, ManagerWakesInTime
  <2>4. CASE ManageTask
    <3>1. CASE mgr.pc = "task1"
      <4>1. mgr'.pc = "task2"
        BY <2>4, <3>1 DEF ManageTask, TypeOK, Managers
      <4> QED
        BY <4>1 DEF WakeInv, ManagerWakesInTime
    <3>2. CASE mgr.pc # "task1"
      <4>1. PICK d : IsNext(d) /\ mgr' = [pc |-> "arm", sleep |-> d,
                                          read |-> now, wake |-> 0, late |-> 0]
        BY <2>4, <3>2 DEF ManageTask
      <4>2. mgr'.pc = "arm" /\ mgr'.sleep = d /\ mgr'.read = now
        BY <4>1
      <4>3. ASSUME NEW k \in Keys, NEW i \in DOMAIN entries'[k]
            PROVE  now + d <= entries'[k][i].expire
        <5>1. ~ HasDue(k) /\ entries'[k] = entries[k]
          BY <2>4, <4>3 DEF ManageTask, Swept
        <5> QED
          BY <4>1, <4>3, <5>1, SleepBounds
      <4> QED
        BY <4>2, <4>3 DEF WakeInv, ManagerWakesInTime
    <3> QED BY <3>1, <3>2
  <2>5. CASE ArmTimer
    <3>1. /\ mgr.pc = "arm" /\ mgr'.pc = "select"
          /\ mgr'.wake = now + mgr.sleep /\ mgr'.late = now - mgr.read
          /\ entries' = entries /\ tokens' = tokens
      BY <2>5 DEF ArmTimer
    <3>2. ASSUME NEW k \in Keys, NEW i \in DOMAIN entries[k], tokens = 0
          PROVE  mgr'.wake <= entries[k][i].expire + mgr'.late
      <4>1. entries[k][i].expire \in Nat
        BY ExpireType
      <4>2. mgr.read + mgr.sleep <= entries[k][i].expire
        BY <3>1, <3>2 DEF WakeInv
      <4> QED BY <3>1, <4>1, <4>2 DEF TypeOK, Managers
    <3> QED BY <3>1, <3>2 DEF WakeInv, ManagerWakesInTime
  <2>6. CASE WakeTimer \/ WakeToken \/ Stop
    <3>1. mgr'.pc \notin {"arm", "select"}
      BY <2>6 DEF WakeTimer, WakeToken, Stop, Manager
    <3> QED
      BY <3>1 DEF WakeInv, ManagerWakesInTime
  <2>7. ASSUME NEW t \in Threads, Handler(t),
               ~ Miss(t), ~ (AddRecord(t) /\ life = "open")
        PROVE  UNCHANGED <<entries, tokens, mgr>>
    BY <2>7 DEF Handler, Hit, ReplyCached, AnswerArrives, PassOn, AddRecord,
                Finish
  <2>8. ASSUME NEW t \in Threads, NEW k \in Keys, Ask(t, k)
        PROVE  UNCHANGED <<entries, tokens, mgr>>
    BY <2>8 DEF Ask
  <2>9. CASE Close \/ Tick \/ UNCHANGED vars
    BY <2>1, <2>9 DEF Close, Tick, vars
  <2> QED
    BY <2>1, <2>2, <2>3, <2>4, <2>5, <2>6, <2>7, <2>8, <2>9 DEF Next
<1>3. WakeInv => ManagerWakesInTime
  BY DEF WakeInv
<1> QED
  BY <1>1, <1>2, <1>3, TypeCorrect, PTL DEF Spec

-----------------------------------------------------------------------------
\* Nobody touches the entry a hit is serving: whoever changes the cache holds
\* the mutex or finds it free.
THEOREM ServedIsCached == Spec => []HitStillCached
<1>1. Init => HitStillCached
  BY DEF Init, NewRequest, HitStillCached
<1>2. TypeOK /\ LockHeldWhileServing /\ HitStillCached /\ [Next]_vars
      => HitStillCached'
  <2> SUFFICES ASSUME TypeOK, LockHeldWhileServing, HitStillCached, [Next]_vars
               PROVE  HitStillCached'
    OBVIOUS
  <2>1. ASSUME NEW t \in Threads, \A u \in Threads \ {t} : req[u].pc # "hit",
               \A u \in Threads \ {t} : req'[u] = req[u], req'[t].pc # "hit"
        PROVE  HitStillCached'
    BY <2>1 DEF HitStillCached
  <2>2. ASSUME NEW t \in Threads, mutex = Free \/ mutex = t
        PROVE  \A u \in Threads \ {t} : req[u].pc # "hit"
    BY <2>2, FreeAssumption DEF LockHeldWhileServing, HoldsLock
  <2>3. ASSUME NEW t \in Threads, Hit(t) PROVE HitStillCached'
    <3> DEFINE s == entries[req[t].key]
    <3>1. Goto(t, "hit", s, "ok") /\ mutex = Free /\ entries' = entries
      BY <2>3 DEF Hit
    <3> HIDE DEF s
    <3>2. /\ req'[t].todo = s /\ req'[t].key = req[t].key
          /\ \A u \in Threads \ {t} : req'[u] = req[u]
      <4>1. req'[t].todo = s
        BY <3>1 DEF Goto, TypeOK
      <4>2. req'[t].key = req[t].key
        BY <3>1, GotoFacts
      <4>3. \A u \in Threads \ {t} : req'[u] = req[u]
        BY <3>1, GotoFacts
      <4> QED BY <4>1, <4>2, <4>3
    <3> USE DEF s
    <3> QED
      BY <2>2, <3>1, <3>2 DEF HitStillCached
  <2>4. ASSUME NEW t \in Threads, Miss(t) PROVE HitStillCached'
    <3>1. Goto(t, "miss", <<>>, "ok") /\ mutex = Free
      BY <2>4 DEF Miss
    <3>2. req'[t].pc = "miss" /\ \A u \in Threads \ {t} : req'[u] = req[u]
      BY <3>1, GotoFacts
    <3> QED
      BY <2>1, <2>2, <3>1, <3>2
  <2>5. ASSUME NEW t \in Threads, ReplyCached(t) PROVE HitStillCached'
    <3>1. /\ req[t].pc = "hit" /\ req[t].todo # <<>> /\ entries' = entries
          /\ req[t].todo \in Seq(Cached)
      BY <2>5 DEF ReplyCached, TypeOK, TodoOK
    <3>2. PICK todo \in {<<>>, Tail(req[t].todo)}, res \in {"ok", "error"} :
             Goto(t, "hit", todo, res)
      BY <2>5 DEF ReplyCached
    <3>3. /\ req'[t].todo = todo /\ req'[t].key = req[t].key
          /\ \A u \in Threads \ {t} : req'[u] = req[u]
      <4>1. req'[t].todo = todo
        BY <3>2 DEF Goto, TypeOK
      <4>2. req'[t].key = req[t].key
        BY <3>2, GotoFacts
      <4>3. \A u \in Threads \ {t} : req'[u] = req[u]
        BY <3>2, GotoFacts
      <4> QED BY <4>1, <4>2, <4>3
    <3>4. \A i \in DOMAIN todo : \E j \in DOMAIN req[t].todo :
              todo[i] = req[t].todo[j]
      <4>1. CASE todo = <<>>
        BY <4>1
      <4>2. ASSUME todo = Tail(req[t].todo), NEW i \in DOMAIN todo
            PROVE  i + 1 \in DOMAIN req[t].todo /\ todo[i] = req[t].todo[i + 1]
        BY <3>1, <4>2
      <4> QED BY <3>2, <4>1, <4>2
    <3>5. ASSUME NEW i \in DOMAIN req'[t].todo
          PROVE  \E j \in DOMAIN entries'[req'[t].key] :
                     req'[t].todo[i] = entries'[req'[t].key][j]
      <4>1. PICK h \in DOMAIN req[t].todo : todo[i] = req[t].todo[h]
        BY <3>3, <3>4, <3>5
      <4>2. PICK j \in DOMAIN entries[req[t].key] :
                req[t].todo[h] = entries[req[t].key][j]
        BY <3>1 DEF HitStillCached
      <4> QED
        BY <3>1, <3>3, <4>1, <4>2
    <3> QED
      BY <3>1, <3>3, <3>5, SMTT(30) DEF HitStillCached
  <2>6. ASSUME NEW t \in Threads, NEW pc \in {"add", "idle"}, NEW todo, NEW res,
               mutex = t, Goto(t, pc, todo, res)
        PROVE  HitStillCached'
    <3>1. req'[t].pc = pc /\ \A u \in Threads \ {t} : req'[u] = req[u]
      BY <2>6, GotoFacts
    <3>2. \A u \in Threads \ {t} : req[u].pc # "hit"
      BY <2>2, <2>6
    <3>3. req'[t].pc # "hit"
      BY <2>6, <3>1
    <3> QED
      BY <2>1, <3>1, <3>2, <3>3
  <2>7. ASSUME NEW t \in Threads, req[t].pc \in HoldsLock PROVE mutex = t
    BY <2>7 DEF LockHeldWhileServing
  <2>8. ASSUME NEW t \in Threads, AnswerArrives(t) PROVE HitStillCached'
    BY <2>6, <2>7, <2>8 DEF AnswerArrives, HoldsLock
  <2>9. ASSUME NEW t \in Threads, PassOn(t) PROVE HitStillCached'
    BY <2>6, <2>7, <2>9 DEF PassOn, Deliver, HoldsLock
  <2>10. ASSUME NEW t \in Threads, AddRecord(t) PROVE HitStillCached'
    <3>1. CASE life = "open"
      BY <2>6, <2>7, <2>10, <3>1 DEF AddRecord, Deliver, HoldsLock
    <3>2. CASE life # "open"
      <4>1. UNCHANGED <<entries, req>>
        BY <2>10, <3>2 DEF AddRecord
      <4> QED BY <4>1 DEF HitStillCached
    <3> QED BY <3>1, <3>2
  <2>11. ASSUME NEW t \in Threads, Finish(t) PROVE HitStillCached'
    BY <2>6, <2>7, <2>11 DEF Finish, HoldsLock
  <2>12. ASSUME NEW t \in Threads, NEW k \in Keys, Ask(t, k)
         PROVE  HitStillCached'
    <3>1. /\ req'[t].pc = "lock" /\ \A u \in Threads \ {t} : req'[u] = req[u]
          /\ entries' = entries
      BY <2>12 DEF Ask, NewRequest, TypeOK
    <3> QED BY <3>1 DEF HitStillCached
  <2>13. CASE ManageTask
    <3>1. \A u \in Threads : req[u].pc # "hit"
      BY <2>13, FreeAssumption
         DEF ManageTask, Unlockable, LockHeldWhileServing, HoldsLock
    <3> QED
      BY <2>13, <3>1 DEF ManageTask, HitStillCached
  <2>14. CASE \/ ArmTimer \/ WakeTimer \/ WakeToken \/ Stop \/ Close \/ Tick
              \/ UNCHANGED vars
    <3>1. UNCHANGED <<entries, req>>
      BY <2>14 DEF ArmTimer, WakeTimer, WakeToken, Stop, Close, Tick, vars
    <3> QED BY <3>1 DEF HitStillCached
  <2> QED
    BY <2>3, <2>4, <2>5, <2>8, <2>9, <2>10, <2>11, <2>12, <2>13, <2>14
       DEF Next, Handler
<1> QED
  BY <1>1, <1>2, TypeCorrect, MutualExclusion, PTL DEF Spec

-----------------------------------------------------------------------------
\* A cached record lives at most as long as the longest TTL from now on.
LifeBounded ==
    \A k \in Keys : \A i \in DOMAIN entries[k] :
        entries[k][i].expire <= now + 2 * MaxTTL

LEMMA LifeIsBounded == Spec => []LifeBounded
<1>1. Init => LifeBounded
  BY DEF Init, LifeBounded
<1>2. TypeOK /\ LifeBounded /\ [Next]_vars => LifeBounded'
  <2> SUFFICES ASSUME TypeOK, LifeBounded, [Next]_vars PROVE LifeBounded'
    OBVIOUS
  <2>1. CASE UNCHANGED <<entries, now>>
    BY <2>1 DEF LifeBounded
  <2>2. ASSUME now' = now,
               \A k \in Keys : entries'[k] = entries[k] \/ entries'[k] = <<>>
        PROVE  LifeBounded'
    BY <2>2 DEF LifeBounded
  <2>3. ASSUME NEW t \in Threads, Miss(t) PROVE LifeBounded'
    BY <2>2, <2>3 DEF Miss, TypeOK, Requests
  <2>4. ASSUME NEW t \in Threads, AddRecord(t), life = "open" PROVE LifeBounded'
    <3> DEFINE r == Head(req[t].todo)
               c == [data |-> r.data, expire |-> ExpireOf(r.ttl)]
    <3>1. r \in Records
      BY <2>4, TodoType DEF AddRecord, TypeOK, TodoOK
    <3>2. c.expire <= now + 2 * MaxTTL /\ r.key \in Keys
      BY <3>1, NumberAssumption DEF Records, ExpireOf, TypeOK
    <3>3. entries' = [entries EXCEPT ![r.key] = Append(entries[r.key], c)]
          /\ now' = now
      BY <2>4 DEF AddRecord
    <3> HIDE DEF r, c
    <3>4. ASSUME NEW k \in Keys, NEW i \in DOMAIN entries'[k]
          PROVE  entries'[k][i].expire <= now + 2 * MaxTTL
      <4>1. CASE k # r.key
        BY <3>3, <3>4, <4>1 DEF LifeBounded, TypeOK
      <4>2. CASE k = r.key
        <5>1. entries'[k] = Append(entries[k], c) /\ entries[k] \in Seq(Cached)
          BY <3>3, <4>2 DEF TypeOK
        <5>2. i \in 1..(Len(entries[k]) + 1)
          BY <3>4, <5>1
        <5>3. CASE i = Len(entries[k]) + 1
          BY <3>2, <5>1, <5>3
        <5>4. CASE i # Len(entries[k]) + 1
          BY <5>1, <5>2, <5>4 DEF LifeBounded
        <5> QED BY <5>3, <5>4
      <4> QED BY <4>1, <4>2
    <3> QED
      BY <3>3, <3>4 DEF LifeBounded
  <2>5. CASE ManageTask
    BY <2>2, <2>5 DEF ManageTask, Swept
  <2>6. CASE Tick
    <3>1. ASSUME NEW k \in Keys, NEW i \in DOMAIN entries[k]
          PROVE  entries[k][i].expire \in Nat
      <4>1. entries[k][i] \in Cached
        BY <3>1 DEF TypeOK
      <4> QED BY <4>1 DEF Cached
    <3> QED
      BY <2>6, <3>1, NumberAssumption DEF Tick, LifeBounded, TypeOK
  <2>7. ASSUME NEW t \in Threads, Handler(t),
               ~ Miss(t), ~ (AddRecord(t) /\ life = "open")
        PROVE  UNCHANGED <<entries, now>>
    BY <2>7 DEF Handler, Hit, ReplyCached, AnswerArrives, PassOn, AddRecord,
                Finish
  <2>8. ASSUME NEW t \in Threads, NEW k \in Keys, Ask(t, k)
        PROVE  UNCHANGED <<entries, now>>
    BY <2>8 DEF Ask
  <2>9. CASE \/ ArmTimer \/ WakeTimer \/ WakeToken \/ Stop \/ Close
             \/ UNCHANGED vars
    BY <2>1, <2>9 DEF ArmTimer, WakeTimer, WakeToken, Stop, Close, vars
  <2> QED
    BY <2>1, <2>3, <2>4, <2>5, <2>6, <2>7, <2>8, <2>9 DEF Next
<1> QED
  BY <1>1, <1>2, TypeCorrect, PTL DEF Spec

\* No answer carries a TTL above the upstream's largest, however the reading of
\* the clock, the rounding and the unsigned conversion fall: the guard against
\* an expired record stands between the last check and the conversion.
THEOREM TTLBounded == Spec => []TTLNeverGrows
<1>1. Init => TTLNeverGrows
  BY DEF Init, TTLNeverGrows
<1>2. /\ TypeOK /\ HitStillCached /\ LifeBounded /\ TTLNeverGrows /\ [Next]_vars
      => TTLNeverGrows'
  <2> SUFFICES ASSUME TypeOK, HitStillCached, LifeBounded, TTLNeverGrows,
                      [Next]_vars
               PROVE  TTLNeverGrows'
    OBVIOUS
  <2>1. CASE UNCHANGED reply
    BY <2>1 DEF TTLNeverGrows
  <2>2. ASSUME NEW t \in Threads, NEW a, a.ttl <= MaxTTL,
               reply' = [reply EXCEPT ![t] = Append(reply[t], a)]
        PROVE  TTLNeverGrows'
    <3>1. reply[t] \in Seq([data : Data, ttl : Nat])
      BY DEF TypeOK
    <3>2. reply'[t] = Append(reply[t], a)
          /\ \A u \in Threads \ {t} : reply'[u] = reply[u]
      BY <2>2 DEF TypeOK
    <3>3. \A i \in DOMAIN reply'[t] : reply'[t][i].ttl <= MaxTTL
      BY <2>2, <3>1, <3>2 DEF TTLNeverGrows
    <3> QED
      BY <3>2, <3>3 DEF TTLNeverGrows
  <2>3. ASSUME NEW t \in Threads, ReplyCached(t) PROVE TTLNeverGrows'
    <3> DEFINE e   == Head(req[t].todo)
               ttl == Round(e.expire - now)
               a   == [data |-> e.data, ttl |-> Uint32(ttl)]
    <3>1. CASE AlreadyExpired(ttl)
      BY <2>1, <2>3, <3>1 DEF ReplyCached
    <3>2. CASE ~ AlreadyExpired(ttl)
      <4>1. /\ req[t].pc = "hit" /\ req[t].todo # <<>>
            /\ req[t].todo \in Seq(Cached)
            /\ reply' = [reply EXCEPT ![t] = Append(reply[t], a)]
        BY <2>3, <3>2 DEF ReplyCached, TypeOK, TodoOK
      <4>2. 1 \in DOMAIN req[t].todo /\ e = req[t].todo[1] /\ e \in Cached
        BY <4>1
      <4>3. PICK j \in DOMAIN entries[req[t].key] : e = entries[req[t].key][j]
        BY <4>1, <4>2 DEF HitStillCached
      <4>4. e.expire <= now + 2 * MaxTTL /\ req[t].key \in Keys
        BY <4>3 DEF LifeBounded, TypeOK, Requests
      <4>5. e.expire - now \in Int /\ e.expire - now <= 2 * MaxTTL
        BY <4>2, <4>4, NumberAssumption, SMTT(30) DEF Cached, TypeOK
      <4>6. ttl \in Int /\ ttl <= MaxTTL
        BY <4>5, RoundBounds, NumberAssumption
      <4> HIDE DEF ttl
      <4>7. ttl \in 0..MaxTTL
        BY <3>2, <4>6, NumberAssumption DEF AlreadyExpired
      <4>8. a.ttl <= MaxTTL
        BY <4>7, Uint32Exact, NumberAssumption
      <4> HIDE DEF a
      <4> QED
        BY <2>2, <4>1, <4>8
    <3> QED BY <3>1, <3>2
  <2>4. ASSUME NEW t \in Threads, req[t].pc = "add", req[t].todo # <<>>,
               Deliver(t, Head(req[t].todo))
        PROVE  TTLNeverGrows'
    <3> DEFINE r == Head(req[t].todo)
               a == [data |-> r.data, ttl |-> r.ttl]
    <3>1. r \in Records
      BY <2>4, TodoType DEF TypeOK, TodoOK
    <3>2. a.ttl <= MaxTTL
      BY <3>1 DEF Records
    <3>3. reply' = [reply EXCEPT ![t] = Append(reply[t], a)]
      BY <2>4 DEF Deliver
    <3> HIDE DEF a
    <3> QED
      BY <2>2, <3>2, <3>3
  <2>5. ASSUME NEW t \in Threads, PassOn(t) PROVE TTLNeverGrows'
    BY <2>4, <2>5 DEF PassOn
  <2>6. ASSUME NEW t \in Threads, AddRecord(t) PROVE TTLNeverGrows'
    <3>1. CASE life = "open"
      BY <2>4, <2>6, <3>1 DEF AddRecord
    <3>2. CASE life # "open"
      BY <2>1, <2>6, <3>2 DEF AddRecord
    <3> QED BY <3>1, <3>2
  <2>7. ASSUME NEW t \in Threads, NEW k \in Keys, Ask(t, k)
        PROVE  TTLNeverGrows'
    BY <2>7 DEF Ask, TypeOK, TTLNeverGrows
  <2>8. ASSUME NEW t \in Threads,
               Hit(t) \/ Miss(t) \/ AnswerArrives(t) \/ Finish(t)
        PROVE  UNCHANGED reply
    BY <2>8 DEF Hit, Miss, AnswerArrives, Finish
  <2>9. ManageTask \/ ArmTimer \/ WakeTimer \/ WakeToken \/ Stop \/ Close \/ Tick
        \/ UNCHANGED vars => UNCHANGED reply
    BY DEF ManageTask, ArmTimer, WakeTimer, WakeToken, Stop, Close, Tick, vars
  <2> QED
    BY <2>1, <2>3, <2>5, <2>6, <2>7, <2>8, <2>9 DEF Next, Handler
<1> QED
  BY <1>1, <1>2, TypeCorrect, ServedIsCached, LifeIsBounded, PTL DEF Spec

-----------------------------------------------------------------------------
\* The payloads that the records of s leave in the entry of k.
Cacheables(s, k) ==
    {s[i].data : i \in {j \in DOMAIN s : s[j].key = k /\ Cacheable(s[j].ttl)}}

\* What an answer to any query may leave in the entry of k.
AllAnswers == UNION {Upstream[k] : k \in Keys}
Sets(k) == {Cacheables(a.recs, k) : a \in AllAnswers} \cup {{}}

\* The upstream is steady when all answers that leave something in an entry,
\* asked for or not, leave the same records in it, and these are an answer for
\* it.  The cache cannot do better: it keeps what a failed answer has added, and
\* it adds to an entry the records of every answer that mentions its key.
Steady ==
    \A k \in Keys : \A D \in Sets(k) \ {{}} :
        /\ \A E \in Sets(k) \ {{}} : E = D
        /\ \E a \in Upstream[k] : DataOf(a.recs) = D

\* The entries are whole, or will be when the answer that is being added has
\* been added to its end.
EntriesWhole ==
    \A k \in Keys :
        /\ (\A t \in Threads : req[t].pc # "add") => DataOf(entries[k]) \in Sets(k)
        /\ \A t \in Threads : req[t].pc = "add" =>
              DataOf(entries[k]) \cup Cacheables(req[t].todo, k) \in Sets(k)

IsAnswer(k, given) == \E a \in Upstream[k] : DataOf(a.recs) = given

\* What the call r has given its writer, and has still to give, is an answer.
Serves(r, given) ==
    /\ r.pc \in {"lock", "miss"} => given = {}
    /\ r.pc = "hit" /\ (r.res = "ok" \/ r.todo # <<>>) =>
          IsAnswer(r.key, given \cup DataOf(r.todo))
    /\ r.pc = "add" => IsAnswer(r.key, given \cup DataOf(r.todo))
    /\ r.pc = "idle" /\ r.res = "ok" /\ given # {} => IsAnswer(r.key, given)

\* The inductive invariant of the answers.
WholeInv ==
    /\ EntriesWhole
    /\ \A t \in Threads : Serves(req[t], DataOf(reply[t]))

\* The payloads of the empty sequence, of one more record, and of the first
\* record and the rest; the same for those that go into one entry.
LEMMA DataOfEmpty == DataOf(<<>>) = {} /\ \A k \in Keys : Cacheables(<<>>, k) = {}
BY DEF DataOf, Cacheables

LEMMA DataOfSome ==
    ASSUME NEW S, NEW s \in Seq(S), s # <<>>
    PROVE  DataOf(s) # {}
<1>1. 1 \in DOMAIN s
  OBVIOUS
<1> QED BY <1>1 DEF DataOf

LEMMA DataOfAppend ==
    ASSUME NEW S, NEW s \in Seq(S), NEW x \in S
    PROVE  DataOf(Append(s, x)) = DataOf(s) \cup {x.data}
<1>1. DOMAIN Append(s, x) = DOMAIN s \cup {Len(s) + 1}
  <2>1. Len(s) \in Nat
    OBVIOUS
  <2>2. 1..(Len(s) + 1) = 1..Len(s) \cup {Len(s) + 1}
    BY <2>1
  <2> QED BY <2>2
<1>2. Append(s, x)[Len(s) + 1] = x /\ \A i \in DOMAIN s : Append(s, x)[i] = s[i]
  OBVIOUS
<1> QED BY <1>1, <1>2, Zenon DEF DataOf

\* A sequence is its first element and, shifted by one, its tail.
LEMMA TailShift ==
    ASSUME NEW S, NEW s \in Seq(S), s # <<>>
    PROVE  /\ 1 \in DOMAIN s /\ Head(s) = s[1]
           /\ \A i \in DOMAIN s \ {1} :
                 i - 1 \in DOMAIN Tail(s) /\ Tail(s)[i - 1] = s[i]
           /\ \A i \in DOMAIN Tail(s) :
                 i + 1 \in DOMAIN s /\ Tail(s)[i] = s[i + 1]
OBVIOUS

LEMMA DataOfTail ==
    ASSUME NEW S, NEW s \in Seq(S), s # <<>>
    PROVE  DataOf(s) = {Head(s).data} \cup DataOf(Tail(s))
<1> DEFINE rest == Tail(s)
<1>1. /\ 1 \in DOMAIN s /\ Head(s) = s[1]
      /\ \A i \in DOMAIN s \ {1} : i - 1 \in DOMAIN rest /\ rest[i - 1] = s[i]
      /\ \A i \in DOMAIN rest : i + 1 \in DOMAIN s /\ rest[i] = s[i + 1]
  BY TailShift
<1> HIDE DEF rest
<1>2. DataOf(s) \subseteq {Head(s).data} \cup DataOf(rest)
  BY <1>1 DEF DataOf
<1>3. {Head(s).data} \cup DataOf(rest) \subseteq DataOf(s)
  BY <1>1 DEF DataOf
<1> QED BY <1>2, <1>3 DEF rest

LEMMA CacheablesTail ==
    ASSUME NEW S, NEW s \in Seq(S), s # <<>>, NEW k
    PROVE  Cacheables(s, k) =
               Cacheables(Tail(s), k) \cup
               (IF Head(s).key = k /\ Cacheable(Head(s).ttl)
                THEN {Head(s).data} ELSE {})
<1> DEFINE rest  == Tail(s)
           first == IF Head(s).key = k /\ Cacheable(Head(s).ttl)
                    THEN {Head(s).data} ELSE {}
<1>1. /\ 1 \in DOMAIN s /\ Head(s) = s[1]
      /\ \A i \in DOMAIN s \ {1} : i - 1 \in DOMAIN rest /\ rest[i - 1] = s[i]
      /\ \A i \in DOMAIN rest : i + 1 \in DOMAIN s /\ rest[i] = s[i + 1]
  BY TailShift
<1> HIDE DEF rest
<1>2. Cacheables(s, k) \subseteq Cacheables(rest, k) \cup first
  BY <1>1 DEF Cacheables
<1>3. Cacheables(rest, k) \subseteq Cacheables(s, k)
  BY <1>1 DEF Cacheables
<1>4. first \subseteq Cacheables(s, k)
  BY <1>1 DEF Cacheables
<1> QED BY <1>2, <1>3, <1>4 DEF rest

\* Two things a steady upstream may leave in an entry leave no third together.
LEMMA SetsUnion ==
    ASSUME Steady, NEW k \in Keys, NEW X \in Sets(k), NEW Y \in Sets(k)
    PROVE  X \cup Y \in Sets(k)
<1>1. CASE X = {} \/ Y = {}
  <2>1. X \cup Y = X \/ X \cup Y = Y
    BY <1>1
  <2> QED BY <2>1
<1>2. CASE X # {} /\ Y # {}
  <2>1. X = Y
    BY <1>2 DEF Steady
  <2> QED BY <2>1
<1> QED BY <1>1, <1>2

LEMMA EmptySet == ASSUME NEW k PROVE {} \in Sets(k)
BY DEF Sets

\* Entries that only lose everything, while nobody adds to them, stay whole.
LEMMA EntriesKept ==
    ASSUME EntriesWhole,
           \A k \in Keys :
               \/ entries'[k] = entries[k]
               \/ entries'[k] = <<>> /\ \A t \in Threads : req[t].pc # "add",
           \A t \in Threads : /\ req'[t].pc = "add" <=> req[t].pc = "add"
                              /\ req[t].pc = "add" => req'[t].todo = req[t].todo
    PROVE  EntriesWhole'
<1> SUFFICES ASSUME NEW k \in Keys
             PROVE  /\ (\A t \in Threads : req'[t].pc # "add")
                          => DataOf(entries'[k]) \in Sets(k)
                    /\ \A t \in Threads : req'[t].pc = "add" =>
                          DataOf(entries'[k]) \cup Cacheables(req'[t].todo, k)
                              \in Sets(k)
  BY DEF EntriesWhole
<1>1. CASE entries'[k] = entries[k]
  BY <1>1 DEF EntriesWhole
<1>2. CASE entries'[k] = <<>> /\ \A t \in Threads : req[t].pc # "add"
  BY <1>2, DataOfEmpty, EmptySet
<1> QED BY <1>1, <1>2

\* A step that changes one call and its reply is judged by that call alone.
LEMMA ServesStep ==
    ASSUME WholeInv, NEW t \in Threads, EntriesWhole',
           \A u \in Threads \ {t} : req'[u] = req[u] /\ reply'[u] = reply[u],
           Serves(req'[t], DataOf(reply'[t]))
    PROVE  WholeInv'
<1>1. ASSUME NEW u \in Threads PROVE Serves(req'[u], DataOf(reply'[u]))
  <2>1. CASE u = t
    BY <2>1
  <2>2. CASE u # t
    BY <2>2 DEF WholeInv
  <2> QED BY <2>1, <2>2
<1> QED BY <1>1 DEF WholeInv

\* While the mutex is free, or held for anything but an addition, nobody adds.
LEMMA NobodyAdds ==
    ASSUME LockHeldWhileServing, mutex = Free
    PROVE  \A t \in Threads : req[t].pc # "add"
BY FreeAssumption DEF LockHeldWhileServing, HoldsLock

LEMMA NobodyElseAdds ==
    ASSUME LockHeldWhileServing, NEW t \in Threads, req[t].pc \in HoldsLock
    PROVE  \A u \in Threads \ {t} : req[u].pc # "add"
BY DEF LockHeldWhileServing, HoldsLock

\* Deliver moves the first record to come into the reply.
LEMMA DeliverServes ==
    ASSUME TypeOK, NEW t \in Threads, req[t].pc = "add", req[t].todo # <<>>,
           Serves(req[t], DataOf(reply[t])), Deliver(t, Head(req[t].todo))
    PROVE  /\ Serves(req'[t], DataOf(reply'[t]))
           /\ req'[t].pc = "add" /\ req'[t].todo = Tail(req[t].todo)
           /\ \A u \in Threads \ {t} : req'[u] = req[u] /\ reply'[u] = reply[u]
<1> DEFINE r == Head(req[t].todo)
           x == [data |-> r.data, ttl |-> r.ttl]
<1>1. req[t].todo \in Seq(Records)
  BY DEF TypeOK, TodoOK
<1>2. r \in Records /\ DataOf(req[t].todo) = {r.data} \cup DataOf(Tail(req[t].todo))
  BY <1>1, TodoType, DataOfTail
<1>3. x \in [data : Data, ttl : Nat]
  BY <1>2, NumberAssumption DEF Records
<1>4. DataOf(Append(reply[t], x)) = DataOf(reply[t]) \cup {r.data}
  <2> DEFINE S == [data : Data, ttl : Nat]
  <2>1. x.data = r.data /\ reply[t] \in Seq(S) /\ x \in S
    BY <1>3 DEF TypeOK
  <2> HIDE DEF x, r, S
  <2> QED BY <2>1, DataOfAppend
<1>5. reply' = [reply EXCEPT ![t] = Append(reply[t], x)]
      /\ Goto(t, "add", Tail(req[t].todo), req[t].res)
  BY DEF Deliver
<1> HIDE DEF x, r
<1>6. reply'[t] = Append(reply[t], x)
      /\ \A u \in Threads \ {t} : reply'[u] = reply[u]
  BY <1>5 DEF TypeOK
<1>7. /\ req'[t].pc = "add" /\ req'[t].todo = Tail(req[t].todo)
      /\ req'[t].key = req[t].key
      /\ \A u \in Threads \ {t} : req'[u] = req[u]
  <2> DEFINE todo == Tail(req[t].todo)
             res  == req[t].res
  <2>1. Goto(t, "add", todo, res)
    BY <1>5
  <2> HIDE DEF todo, res
  <2>2. /\ req'[t].pc = "add" /\ req'[t].todo = todo /\ req'[t].key = req[t].key
        /\ \A u \in Threads \ {t} : req'[u] = req[u]
    BY <2>1 DEF Goto, TypeOK
  <2> QED BY <2>2 DEF todo
<1>8. DataOf(reply'[t]) \cup DataOf(req'[t].todo)
          = DataOf(reply[t]) \cup DataOf(req[t].todo)
  BY <1>2, <1>4, <1>6, <1>7
<1>9. Serves(req'[t], DataOf(reply'[t]))
  BY <1>7, <1>8 DEF Serves
<1> QED BY <1>6, <1>7, <1>9

\* Every step keeps the entries and the answers whole.
LEMMA WholeNext ==
    ASSUME Steady, TypeOK, LockHeldWhileServing, WholeInv, [Next]_vars
    PROVE  WholeInv'
<1>1. ASSUME NEW t \in Threads, NEW k \in Keys, Ask(t, k) PROVE WholeInv'
  <2>1. /\ req[t].pc = "idle" /\ req'[t].pc = "lock" /\ reply'[t] = <<>>
        /\ \A u \in Threads \ {t} : req'[u] = req[u] /\ reply'[u] = reply[u]
        /\ entries' = entries
    BY <1>1 DEF Ask, NewRequest, TypeOK
  <2>2. EntriesWhole'
    BY <2>1, EntriesKept DEF WholeInv
  <2>3. Serves(req'[t], DataOf(reply'[t]))
    BY <2>1, DataOfEmpty DEF Serves
  <2> QED BY <2>1, <2>2, <2>3, ServesStep
<1>2. ASSUME NEW t \in Threads, Hit(t) PROVE WholeInv'
  <2> DEFINE k    == req[t].key
             todo == entries[k]
  <2>1. /\ req[t].pc = "lock" /\ mutex = Free /\ Goto(t, "hit", todo, "ok")
        /\ todo # <<>> /\ entries' = entries /\ reply' = reply
    BY <1>2 DEF Hit
  <2>2. k \in Keys /\ todo \in Seq(Cached)
    BY DEF TypeOK, Requests
  <2>3. DataOf(todo) # {} /\ DataOf(reply[t]) = {}
    BY <2>1, <2>2, DataOfSome DEF WholeInv, Serves
  <2>4. DataOf(todo) \in Sets(k)
    BY <2>1, <2>2, NobodyAdds DEF WholeInv, EntriesWhole
  <2>5. IsAnswer(k, DataOf(todo))
    BY <2>2, <2>3, <2>4 DEF Steady, IsAnswer
  <2> HIDE DEF todo
  <2>6. /\ req'[t].pc = "hit" /\ req'[t].key = k /\ req'[t].todo = todo
        /\ \A u \in Threads \ {t} : req'[u] = req[u]
    BY <2>1 DEF Goto, TypeOK
  <2>7. EntriesWhole'
    BY <2>1, <2>6, EntriesKept DEF WholeInv
  <2>8. DataOf(reply'[t]) \cup DataOf(req'[t].todo) = DataOf(todo)
    BY <2>1, <2>3, <2>6
  <2>9. Serves(req'[t], DataOf(reply'[t]))
    BY <2>5, <2>6, <2>8 DEF Serves
  <2> QED BY <2>1, <2>6, <2>7, <2>9, ServesStep
<1>3. ASSUME NEW t \in Threads, Miss(t) PROVE WholeInv'
  <2>1. /\ req[t].pc = "lock" /\ mutex = Free /\ Goto(t, "miss", <<>>, "ok")
        /\ entries' = [entries EXCEPT ![req[t].key] = <<>>] /\ reply' = reply
    BY <1>3 DEF Miss
  <2>2. /\ req'[t].pc = "miss"
        /\ \A u \in Threads \ {t} : req'[u] = req[u]
    BY <2>1, GotoFacts
  <2>3. \A k \in Keys : entries'[k] = entries[k] \/ entries'[k] = <<>>
    BY <2>1 DEF TypeOK
  <2>4. \A u \in Threads : req[u].pc # "add"
    BY <2>1, NobodyAdds
  <2>5. EntriesWhole'
    BY <2>1, <2>2, <2>3, <2>4, EntriesKept DEF WholeInv
  <2>6. Serves(req'[t], DataOf(reply'[t]))
    BY <2>1, <2>2 DEF WholeInv, Serves
  <2> QED BY <2>1, <2>2, <2>5, <2>6, ServesStep
<1>4. ASSUME NEW t \in Threads, ReplyCached(t) PROVE WholeInv'
  <2> DEFINE e    == Head(req[t].todo)
             ttl  == Round(e.expire - now)
             x    == [data |-> e.data, ttl |-> Uint32(ttl)]
             rest == Tail(req[t].todo)
  <2>1. /\ req[t].pc = "hit" /\ req[t].todo # <<>> /\ entries' = entries
        /\ req[t].todo \in Seq(Cached) /\ req[t].key \in Keys
    BY <1>4 DEF ReplyCached, TypeOK, TodoOK, Requests
  <2>2. CASE AlreadyExpired(ttl)
    <3>1. Goto(t, "hit", <<>>, "error") /\ reply' = reply
      BY <1>4, <2>2 DEF ReplyCached
    <3>2. /\ req'[t].pc = "hit" /\ req'[t].todo = <<>> /\ req'[t].res = "error"
          /\ \A u \in Threads \ {t} : req'[u] = req[u]
      BY <3>1 DEF Goto, TypeOK
    <3>3. EntriesWhole'
      BY <2>1, <3>2, EntriesKept DEF WholeInv
    <3>4. Serves(req'[t], DataOf(reply'[t]))
      BY <3>2 DEF Serves
    <3> QED BY <3>1, <3>2, <3>3, <3>4, ServesStep
  <2>3. CASE ~ AlreadyExpired(ttl)
    <3>1. Goto(t, "hit", rest, "ok")
          /\ reply' = [reply EXCEPT ![t] = Append(reply[t], x)]
      BY <1>4, <2>3 DEF ReplyCached
    <3>2. e \in Cached /\ DataOf(req[t].todo) = {e.data} \cup DataOf(rest)
      BY <2>1, TodoType, DataOfTail
    <3>3. ttl \in Int
      <4>1. e.expire - now \in Int
        BY <3>2, NumberAssumption DEF Cached, TypeOK
      <4> QED BY <4>1, RoundType
    <3>4. DataOf(Append(reply[t], x)) = DataOf(reply[t]) \cup {e.data}
      <4> DEFINE S == [data : Data, ttl : Nat]
      <4> HIDE DEF ttl
      <4>1. x.data = e.data /\ reply[t] \in Seq(S) /\ x \in S
        BY <3>2, <3>3, Uint32Type DEF TypeOK, Cached
      <4> HIDE DEF x, e, S
      <4> QED BY <4>1, DataOfAppend
    <3> HIDE DEF x, e, rest
    <3>5. reply'[t] = Append(reply[t], x)
          /\ \A u \in Threads \ {t} : reply'[u] = reply[u]
      BY <3>1 DEF TypeOK
    <3>6. /\ req'[t].pc = "hit" /\ req'[t].todo = rest
          /\ req'[t].key = req[t].key
          /\ \A u \in Threads \ {t} : req'[u] = req[u]
      BY <3>1 DEF Goto, TypeOK
    <3>7. DataOf(reply'[t]) \cup DataOf(req'[t].todo)
              = DataOf(reply[t]) \cup DataOf(req[t].todo)
      BY <3>2, <3>4, <3>5, <3>6
    <3>8. IsAnswer(req[t].key, DataOf(reply[t]) \cup DataOf(req[t].todo))
      BY <2>1 DEF WholeInv, Serves
    <3>9. Serves(req'[t], DataOf(reply'[t]))
      BY <3>6, <3>7, <3>8 DEF Serves
    <3>10. EntriesWhole'
      BY <2>1, <3>6, EntriesKept DEF WholeInv
    <3> QED BY <3>5, <3>6, <3>9, <3>10, ServesStep
  <2> QED BY <2>2, <2>3
<1>5. ASSUME NEW t \in Threads, AnswerArrives(t) PROVE WholeInv'
  <2>1. req[t].pc = "miss" /\ entries' = entries /\ reply' = reply
        /\ req[t].key \in Keys
    BY <1>5 DEF AnswerArrives, TypeOK, Requests
  <2>2. PICK a \in Upstream[req[t].key] : Goto(t, "add", a.recs, a.res)
    BY <1>5 DEF AnswerArrives
  <2>3. /\ req'[t].pc = "add" /\ req'[t].key = req[t].key
        /\ req'[t].todo = a.recs
        /\ \A u \in Threads \ {t} : req'[u] = req[u]
    BY <2>2 DEF Goto, TypeOK
  <2>4. \A u \in Threads : req[u].pc # "add"
    BY <2>1, NobodyElseAdds DEF HoldsLock
  <2>5. ASSUME NEW k \in Keys
        PROVE  DataOf(entries[k]) \cup Cacheables(a.recs, k) \in Sets(k)
    <3>1. DataOf(entries[k]) \in Sets(k)
      BY <2>4 DEF WholeInv, EntriesWhole
    <3>2. Cacheables(a.recs, k) \in Sets(k)
      BY <2>1 DEF Sets, AllAnswers
    <3> QED BY <3>1, <3>2, SetsUnion
  <2>6. EntriesWhole'
    BY <2>1, <2>3, <2>4, <2>5 DEF EntriesWhole
  <2>7. DataOf(reply'[t]) \cup DataOf(req'[t].todo) = DataOf(a.recs)
    BY <2>1, <2>3 DEF WholeInv, Serves
  <2>8. Serves(req'[t], DataOf(reply'[t]))
    BY <2>3, <2>7 DEF Serves, IsAnswer
  <2> QED BY <2>1, <2>3, <2>6, <2>8, ServesStep
<1>6. ASSUME NEW t \in Threads, PassOn(t) PROVE WholeInv'
  <2>1. /\ req[t].pc = "add" /\ req[t].todo # <<>> /\ entries' = entries
        /\ ~ Cacheable(Head(req[t].todo).ttl) /\ Deliver(t, Head(req[t].todo))
    BY <1>6 DEF PassOn
  <2>2. /\ Serves(req'[t], DataOf(reply'[t]))
        /\ req'[t].pc = "add" /\ req'[t].todo = Tail(req[t].todo)
        /\ \A u \in Threads \ {t} : req'[u] = req[u] /\ reply'[u] = reply[u]
    BY <2>1, DeliverServes DEF WholeInv
  <2>3. \A u \in Threads \ {t} : req[u].pc # "add"
    BY <2>1, NobodyElseAdds DEF HoldsLock
  <2>4. ASSUME NEW k \in Keys
        PROVE  DataOf(entries[k]) \cup Cacheables(Tail(req[t].todo), k) \in Sets(k)
    <3>1. req[t].todo \in Seq(Records)
      BY <2>1 DEF TypeOK, TodoOK
    <3>2. Cacheables(req[t].todo, k) = Cacheables(Tail(req[t].todo), k)
      BY <2>1, <3>1, CacheablesTail, ZenonT(30)
    <3>3. DataOf(entries[k]) \cup Cacheables(req[t].todo, k) \in Sets(k)
      BY <2>1 DEF WholeInv, EntriesWhole
    <3> QED BY <3>2, <3>3
  <2>5. EntriesWhole'
    BY <2>1, <2>2, <2>3, <2>4 DEF EntriesWhole
  <2> QED BY <2>2, <2>5, ServesStep
<1>7. ASSUME NEW t \in Threads, AddRecord(t), life = "open" PROVE WholeInv'
  <2> DEFINE r == Head(req[t].todo)
             c == [data |-> r.data, expire |-> ExpireOf(r.ttl)]
  <2>1. /\ req[t].pc = "add" /\ req[t].todo # <<>> /\ Cacheable(r.ttl)
        /\ entries' = [entries EXCEPT ![r.key] = Append(entries[r.key], c)]
        /\ Deliver(t, r)
    BY <1>7 DEF AddRecord
  <2>2. /\ Serves(req'[t], DataOf(reply'[t]))
        /\ req'[t].pc = "add" /\ req'[t].todo = Tail(req[t].todo)
        /\ \A u \in Threads \ {t} : req'[u] = req[u] /\ reply'[u] = reply[u]
    BY <2>1, DeliverServes DEF WholeInv
  <2>3. \A u \in Threads \ {t} : req[u].pc # "add"
    BY <2>1, NobodyElseAdds DEF HoldsLock
  <2>4. req[t].todo \in Seq(Records)
    BY <2>1 DEF TypeOK, TodoOK
  <2>5. r \in Records
    BY <2>1, <2>4, TodoType
  <2>6. c \in Cached /\ c.data = r.data /\ r.key \in Keys
    <3>1. r.data \in Data /\ r.key \in Keys /\ r.ttl \in Nat
      BY <2>5, NumberAssumption DEF Records
    <3>2. ExpireOf(r.ttl) \in Nat
      BY <3>1, NumberAssumption, SMTT(30) DEF ExpireOf, TypeOK
    <3> QED BY <3>1, <3>2 DEF Cached
  <2>7. ASSUME NEW k \in Keys
        PROVE  DataOf(entries'[k]) \cup Cacheables(Tail(req[t].todo), k) \in Sets(k)
    <3>1. DataOf(entries[k]) \cup Cacheables(req[t].todo, k) \in Sets(k)
      BY <2>1 DEF WholeInv, EntriesWhole
    <3>2. CASE k = r.key
      <4>1. Cacheables(req[t].todo, k)
                = Cacheables(Tail(req[t].todo), k) \cup {r.data}
        BY <2>1, <2>4, <3>2, CacheablesTail
      <4>2. entries'[k] = Append(entries[k], c) /\ entries[k] \in Seq(Cached)
        BY <2>1, <2>6, <3>2 DEF TypeOK
      <4> HIDE DEF c, r
      <4>3. DataOf(entries'[k]) = DataOf(entries[k]) \cup {r.data}
        BY <2>6, <4>2, DataOfAppend
      <4>4. DataOf(entries'[k]) \cup Cacheables(Tail(req[t].todo), k)
                = DataOf(entries[k]) \cup Cacheables(req[t].todo, k)
        BY <4>1, <4>3
      <4> QED BY <3>1, <4>4
    <3>3. CASE k # r.key
      <4>1. Cacheables(req[t].todo, k) = Cacheables(Tail(req[t].todo), k)
        <5>1. Cacheables(req[t].todo, k) = Cacheables(Tail(req[t].todo), k) \cup
                  (IF r.key = k /\ Cacheable(r.ttl) THEN {r.data} ELSE {})
          BY <2>1, <2>4, CacheablesTail
        <5> HIDE DEF r
        <5> QED BY <3>3, <5>1
      <4>2. entries'[k] = entries[k]
        BY <2>1, <3>3 DEF TypeOK
      <4> QED BY <3>1, <4>1, <4>2
    <3> QED BY <3>2, <3>3
  <2>8. EntriesWhole'
    BY <2>2, <2>3, <2>7 DEF EntriesWhole
  <2> QED BY <2>2, <2>8, ServesStep
<1>8. ASSUME NEW t \in Threads, Finish(t) PROVE WholeInv'
  <2> DEFINE res == req[t].res
  <2>1. /\ req[t].pc \in {"hit", "add"} /\ req[t].todo = <<>>
        /\ entries' = entries /\ reply' = reply /\ Goto(t, "idle", <<>>, res)
    BY <1>8 DEF Finish
  <2> HIDE DEF res
  <2>2. /\ req'[t].pc = "idle" /\ req'[t].key = req[t].key /\ req'[t].res = res
        /\ \A u \in Threads \ {t} : req'[u] = req[u]
    BY <2>1 DEF Goto, TypeOK
  <2>3. \A u \in Threads \ {t} : req[u].pc # "add"
    BY <2>1, NobodyElseAdds DEF HoldsLock
  <2>4. ASSUME NEW k \in Keys PROVE DataOf(entries[k]) \in Sets(k)
    <3>1. CASE req[t].pc = "hit"
      BY <2>3, <3>1 DEF WholeInv, EntriesWhole
    <3>2. CASE req[t].pc = "add"
      <4>1. DataOf(entries[k]) \cup Cacheables(<<>>, k) \in Sets(k)
        BY <2>1, <3>2 DEF WholeInv, EntriesWhole
      <4> QED BY <4>1, DataOfEmpty
    <3> QED BY <2>1, <3>1, <3>2
  <2>5. EntriesWhole'
    BY <2>1, <2>2, <2>3, <2>4 DEF EntriesWhole
  <2>6. res = "ok" => IsAnswer(req[t].key, DataOf(reply[t]))
    <3>1. res = "ok" =>
              IsAnswer(req[t].key, DataOf(reply[t]) \cup DataOf(req[t].todo))
      BY <2>1 DEF res, WholeInv, Serves
    <3>2. DataOf(reply[t]) \cup DataOf(req[t].todo) = DataOf(reply[t])
      BY <2>1, DataOfEmpty
    <3> QED BY <3>1, <3>2
  <2>7. Serves(req'[t], DataOf(reply'[t]))
    BY <2>1, <2>2, <2>6 DEF Serves
  <2> QED BY <2>1, <2>2, <2>5, <2>7, ServesStep
<1>9. CASE ManageTask
  <2>1. req' = req /\ reply' = reply /\ \A t \in Threads : req[t].pc # "add"
    BY <1>9, NobodyAdds DEF ManageTask, Unlockable
  <2>2. \A k \in Keys : entries'[k] = entries[k] \/ entries'[k] = <<>>
    BY <1>9 DEF ManageTask, Swept
  <2>3. EntriesWhole'
    BY <2>1, <2>2, EntriesKept DEF WholeInv
  <2> QED BY <2>1, <2>3 DEF WholeInv
<1>10. CASE UNCHANGED <<entries, req, reply>>
  BY <1>10 DEF WholeInv, EntriesWhole
<1>11. ASSUME NEW t \in Threads, AddRecord(t), life # "open" PROVE WholeInv'
  BY <1>10, <1>11 DEF AddRecord
<1>12. ArmTimer \/ WakeTimer \/ WakeToken \/ Stop \/ Close \/ Tick \/ UNCHANGED vars
          => UNCHANGED <<entries, req, reply>>
  BY DEF ArmTimer, WakeTimer, WakeToken, Stop, Close, Tick, vars
<1> QED
  BY <1>1, <1>2, <1>3, <1>4, <1>5, <1>6, <1>7, <1>8, <1>9, <1>10, <1>11, <1>12
     DEF Next, Handler

\* With a steady upstream a query that ends without an error has received one
\* of the upstream's answers to it, whole: no sweep, no miss of another query
\* and no partial addition is ever seen by a hit.
THEOREM AnswersWhole ==
    ASSUME Steady
    PROVE  Spec => []AnswersComplete
<1>1. Init => WholeInv
  <2> SUFFICES ASSUME Init PROVE WholeInv
    OBVIOUS
  <2>1. EntriesWhole
    <3>1. \A t \in Threads : req[t].pc # "add"
      BY DEF Init, NewRequest
    <3>2. \A k \in Keys : DataOf(entries[k]) \in Sets(k)
      BY DataOfEmpty, EmptySet DEF Init
    <3> QED BY <3>1, <3>2 DEF EntriesWhole
  <2>2. ASSUME NEW t \in Threads PROVE Serves(req[t], DataOf(reply[t]))
    <3>1. req[t].pc = "idle" /\ DataOf(reply[t]) = {}
      BY DataOfEmpty DEF Init, NewRequest
    <3> QED BY <3>1 DEF Serves
  <2> QED BY <2>1, <2>2 DEF WholeInv
<1>2. TypeOK /\ LockHeldWhileServing /\ WholeInv /\ [Next]_vars => WholeInv'
  BY WholeNext
<1>3. TypeOK /\ WholeInv => AnswersComplete
  <2> SUFFICES ASSUME TypeOK, WholeInv, NEW t \in Threads,
                      req[t].pc = "idle", req[t].res = "ok", reply[t] # <<>>
               PROVE  \E a \in Upstream[req[t].key] :
                          DataOf(a.recs) = DataOf(reply[t])
    BY DEF AnswersComplete
  <2>1. reply[t] \in Seq([data : Data, ttl : Nat])
    BY DEF TypeOK
  <2>2. DataOf(reply[t]) # {}
    BY <2>1, DataOfSome
  <2> QED BY <2>2 DEF WholeInv, Serves, IsAnswer
<1> QED BY <1>1, <1>2, <1>3, TypeCorrect, MutualExclusion, PTL DEF Spec
=============================================================================
