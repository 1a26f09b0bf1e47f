------------------------ MODULE ResolverChainProofs -------------------------
(***************************************************************************)
(* Theorems about ResolverChain, for any number of handlers, static zones, *)
(* upstream servers and messages: its types, the honesty of the            *)
(* authoritative flag, that every message is counted as one reply, and     *)
(* that the chain implements NameService.                                  *)
(*                                                                         *)
(* The flag is honest because the records are: the static zones are asked  *)
(* with an empty builder that is authoritative, the others with a builder  *)
(* that is still empty, and what comes from elsewhere takes the authority  *)
(* away, also when it comes out of a cache, where only records from        *)
(* elsewhere may be.                                                       *)
(*                                                                         *)
(* The name service answers from all local zones at one moment; the chain  *)
(* asks them one after the other.  That moment is the step that reads the  *)
(* dynamic zone: the static zones do not change, and AsksInOrder says that *)
(* the builder then holds all they had to say.                             *)
(***************************************************************************)
EXTENDS ResolverChain, FiniteSetTheorems, SequenceTheorems, WellFoundedInduction,
        TLAPS

Places == {"idle", "static", "cache", "upstream", "build"}
Turns  == 1..(Len(Configs) + UpstreamCount + 1)
Side(authoritative) == IF authoritative THEN HomeRecords ELSE ForeignRecords

\* The cache only knows records from elsewhere, and a handler has nothing while
\* it asks the cache or the upstream servers.
CacheIsForeign == \A k \in Questions : cache[k] \subseteq ForeignRecords
NothingYet ==
    \A h \in Handlers :
        /\ pc[h] = "static" => aa[h]
        /\ pc[h] \in {"cache", "upstream"} => got[h] = {}

IInv == TypeOK /\ AuthorityIsHonest /\ CacheIsForeign /\ NothingYet

\* What all steps of a handler have in common.
Move(h, where, records, authoritative) ==
    /\ Goes(h, where, records, authoritative)
    /\ NextOf(h, where) \in Turns
    /\ zone' = zone /\ cacheKind' = cacheKind
    /\ DOMAIN cache' = Questions
    /\ \A k \in Questions : cache'[k] \subseteq ForeignRecords
    /\ errored' \in [Handlers -> BOOLEAN]
    /\ count' \in [Counters -> Nat]
    /\ records \subseteq Side(authoritative)
    /\ where = "static" => authoritative
    /\ where \in {"cache", "upstream"} => records = {}

LEMMA MovesKeep ==
    ASSUME IInv, NEW h \in Handlers, NEW where \in Places, NEW records,
           NEW authoritative \in BOOLEAN, Move(h, where, records, authoritative)
    PROVE  IInv'
<1> USE DEF IInv, Move, Goes
<1>1. TypeOK'
  <2>1. zone' \in DynamicZones /\ cacheKind' \in CacheKinds
    BY DEF TypeOK
  <2>2. pc' \in [Handlers -> Places]
    BY DEF TypeOK, Places
  <2>3. msg' \in [Handlers -> Messages] /\ DOMAIN got' = Handlers
    BY DEF TypeOK
  <2>4. next' \in [Handlers -> Turns]
    BY DEF TypeOK, Turns
  <2>5. aa' \in [Handlers -> BOOLEAN]
    <3>1. aa \in [Handlers -> BOOLEAN] /\ aa' = [aa EXCEPT ![h] = authoritative]
      BY DEF TypeOK
    <3> QED BY <3>1, Zenon
  <2> QED BY <2>1, <2>2, <2>3, <2>4, <2>5 DEF TypeOK, Places, Turns
<1>2. AuthorityIsHonest'
  <2> SUFFICES ASSUME NEW g \in Handlers PROVE got'[g] \subseteq Side(aa'[g])
    BY DEF AuthorityIsHonest, Side, HomeRecords, ForeignRecords, Heard, Zones, SupportedPrefix
  <2>1. got[g] \subseteq Side(aa[g])
    BY DEF AuthorityIsHonest, Side
  <2>2. CASE g = h
    <3>1. got'[h] = records /\ aa'[h] = authoritative
      BY DEF TypeOK
    <3> QED BY <2>2, <3>1
  <2>3. CASE g # h
    <3>1. got'[g] = got[g] /\ aa'[g] = aa[g]
      BY <2>3 DEF TypeOK
    <3> QED BY <2>1, <3>1
  <2> QED BY <2>2, <2>3
<1>3. CacheIsForeign'
  BY DEF CacheIsForeign, ForeignRecords, Heard, SupportedPrefix, Questions
<1>4. NothingYet'
  <2> SUFFICES ASSUME NEW g \in Handlers
               PROVE  /\ pc'[g] = "static" => aa'[g]
                      /\ pc'[g] \in {"cache", "upstream"} => got'[g] = {}
    BY DEF NothingYet
  <2>1. CASE g = h
    BY <2>1 DEF TypeOK
  <2>2. CASE g # h
    BY <2>2 DEF TypeOK, NothingYet
  <2> QED BY <2>1, <2>2
<1> QED BY <1>1, <1>2, <1>3, <1>4

-----------------------------------------------------------------------------
\* Where records come from.

LEMMA StaticIsHome ==
    ASSUME NEW i \in DOMAIN Zones, NEW q
    PROVE  {r.rr : r \in Matches(Zones[i], q)} \subseteq HomeRecords
BY DEF HomeRecords, Matches

LEMMA ZoneIsHome ==
    ASSUME NEW m, NEW z \in DynamicZones
    PROVE  ZoneRecords(m, z) \subseteq HomeRecords
BY DEF HomeRecords, ZoneRecords

LEMMA HeardIsForeign ==
    ASSUME NEW m \in Messages, NEW answer \in Answers(Key(m)),
           NEW S \in SUBSET SupportedPrefix(answer)
    PROVE  {Relayed(answer[i]) : i \in S} \subseteq ForeignRecords
<1>1. Key(m) \in Questions
  BY DEF Key, Questions
<1>2. {Relayed(answer[i]) : i \in S} \subseteq Heard(Key(m))
  BY DEF Heard
<1> QED BY <1>1, <1>2 DEF ForeignRecords

LEMMA PrefixIsClosed ==
    ASSUME NEW m \in Messages, NEW answer \in Answers(Key(m)),
           NEW n \in SupportedPrefix(answer)
    PROVE  1..n \in SUBSET SupportedPrefix(answer)
BY AnswerAssumption DEF SupportedPrefix, Key

-----------------------------------------------------------------------------
\* Every step of a handler is a move.

LEMMA IncKeepsType ==
    ASSUME count \in [Counters -> Nat], NEW S, NEW type, Inc(S, type)
    PROVE  count' \in [Counters -> Nat]
BY DEF Inc

LEMMA FailsMoves ==
    ASSUME IInv, NEW h \in Handlers, pc[h] # "build", NEW records, NEW S,
           NEW authoritative \in BOOLEAN, records \subseteq Side(authoritative),
           FailsCounting(h, records, authoritative, S),
           UNCHANGED <<zone, cacheKind>>, DOMAIN cache' = Questions,
           \A k \in Questions : cache'[k] \subseteq ForeignRecords
    PROVE  Move(h, "build", records, authoritative)
<1>1. errored' \in [Handlers -> BOOLEAN]
  <2>1. errored \in [Handlers -> BOOLEAN] /\ errored' = [errored EXCEPT ![h] = TRUE]
    BY DEF IInv, TypeOK, FailsCounting
  <2> QED BY <2>1, Zenon
<1>2. count' \in [Counters -> Nat]
  BY IncKeepsType DEF IInv, TypeOK, FailsCounting
<1>3. NextOf(h, "build") \in Turns
  BY CountAssumption DEF NextOf, Turns
<1> QED BY <1>1, <1>2, <1>3 DEF Move, FailsCounting

\* A step that leaves cache, errored and type of the counters as they are.
LEMMA GoesMoves ==
    ASSUME IInv, NEW h \in Handlers, NEW where \in Places, NEW records,
           NEW authoritative \in BOOLEAN, records \subseteq Side(authoritative),
           Goes(h, where, records, authoritative), NextOf(h, where) \in Turns,
           where = "static" => authoritative,
           where \in {"cache", "upstream"} => records = {},
           UNCHANGED <<zone, cacheKind, cache, errored>>, count' \in [Counters -> Nat]
    PROVE  Move(h, where, records, authoritative)
BY DEF Move, IInv, TypeOK, CacheIsForeign

LEMMA OtherTurn ==
    ASSUME NEW h \in Handlers, NEW where, pc[h] # where
    PROVE  NextOf(h, where) \in Turns
BY CountAssumption DEF NextOf, Turns

Moves(h) ==
    \E where \in Places, authoritative \in BOOLEAN :
        \E records \in SUBSET Side(authoritative) : Move(h, where, records, authoritative)

LEMMA AskStaticMoves ==
    ASSUME IInv, NEW h \in Handlers, AskStatic(h)
    PROVE  Moves(h)
<1> DEFINE found   == Matches(Zones[next[h]], QuestionOf(msg[h]))
           records == {r.rr : r \in found} \ {NoRR}
<1>1. /\ aa[h] = TRUE /\ pc[h] = "static" /\ next[h] \in DOMAIN Zones
      /\ got[h] \subseteq HomeRecords /\ DOMAIN cache = Questions
      /\ \A k \in Questions : cache[k] \subseteq ForeignRecords
  <2>1. pc[h] = "static" /\ next[h] \in DOMAIN Zones
    BY DEF AskStatic
  <2>2. aa[h] = TRUE
    <3>1. aa[h] /\ aa \in [Handlers -> BOOLEAN]
      BY <2>1 DEF IInv, TypeOK, NothingYet
    <3> QED BY <3>1, Zenon
  <2>3. got[h] \subseteq HomeRecords
    BY <2>2 DEF IInv, AuthorityIsHonest
  <2> QED BY <2>1, <2>2, <2>3 DEF IInv, CacheIsForeign, TypeOK
<1>2. records \subseteq HomeRecords
  BY <1>1, StaticIsHome
<1>3. CASE \E r \in found : r.rr = NoRR
  <2>1. PICK part \in SUBSET records : Fails(h, got[h] \cup part, aa[h])
    BY <1>3 DEF AskStatic
  <2>2. got[h] \cup part \in SUBSET Side(TRUE)
    BY <1>1, <1>2 DEF Side
  <2>3. UNCHANGED <<zone, cacheKind, cache>>
    BY DEF AskStatic
  <2>4. FailsCounting(h, got[h] \cup part, TRUE, {})
    BY <1>1, <2>1 DEF Fails
  <2>5. Move(h, "build", got[h] \cup part, TRUE)
    BY <1>1, <2>2, <2>3, <2>4, FailsMoves
  <2> QED BY <2>2, <2>5 DEF Moves, Places
<1>4. CASE ~ \E r \in found : r.rr = NoRR
  <2>1. Goes(h, "static", got[h] \cup records, TRUE) /\ UNCHANGED <<errored, count>>
    BY <1>1, <1>4 DEF AskStatic
  <2>2. got[h] \cup records \in SUBSET Side(TRUE)
    BY <1>1, <1>2 DEF Side
  <2>3. NextOf(h, "static") \in Turns
    <3>1. DOMAIN Zones = 1..Len(Configs)
      BY CountAssumption DEF Zones
    <3> QED BY <1>1, <3>1, CountAssumption DEF NextOf, Turns
  <2>4. UNCHANGED <<zone, cacheKind, cache>>
    BY DEF AskStatic
  <2>5. count' \in [Counters -> Nat]
    BY <2>1 DEF IInv, TypeOK
  <2>6. Move(h, "static", got[h] \cup records, TRUE)
    <3> HIDE DEF records
    <3> QED BY <2>1, <2>2, <2>3, <2>4, <2>5, GoesMoves DEF Places
  <2> QED BY <2>2, <2>6 DEF Moves, Places
<1> QED BY <1>3, <1>4

LEMMA AskDynamicMoves ==
    ASSUME IInv, NEW h \in Handlers, AskDynamic(h)
    PROVE  Moves(h)
<1> DEFINE heard == ZoneRecords(msg[h], zone)
<1>1. /\ aa[h] = TRUE /\ pc[h] = "static"
      /\ got[h] \subseteq HomeRecords /\ DOMAIN cache = Questions
      /\ \A k \in Questions : cache[k] \subseteq ForeignRecords
  <2>1. pc[h] = "static"
    BY DEF AskDynamic
  <2>2. aa[h] = TRUE
    <3>1. aa[h] /\ aa \in [Handlers -> BOOLEAN]
      BY <2>1 DEF IInv, TypeOK, NothingYet
    <3> QED BY <3>1, Zenon
  <2>3. got[h] \subseteq HomeRecords
    BY <2>2 DEF IInv, AuthorityIsHonest
  <2> QED BY <2>1, <2>2, <2>3 DEF IInv, CacheIsForeign, TypeOK
<1>2. heard \subseteq HomeRecords
  BY ZoneIsHome DEF IInv, TypeOK
<1>3. UNCHANGED <<zone, cacheKind, cache>>
  BY DEF AskDynamic
<1>4. ASSUME NEW part \in SUBSET heard, Fails(h, got[h] \cup part, aa[h])
      PROVE  Moves(h)
  <2>1. got[h] \cup part \in SUBSET Side(TRUE)
    BY <1>1, <1>2 DEF Side
  <2>2. FailsCounting(h, got[h] \cup part, TRUE, {})
    BY <1>1, <1>4 DEF Fails
  <2>3. Move(h, "build", got[h] \cup part, TRUE)
    BY <1>1, <1>3, <2>1, <2>2, FailsMoves
  <2> QED BY <2>1, <2>3 DEF Moves, Places
<1>5. CASE ~ \E part \in SUBSET heard : Fails(h, got[h] \cup part, aa[h])
  <2> DEFINE records == got[h] \cup heard
             where == IF ~ AsksElsewhere(h, records) THEN "build"
                      ELSE IF cacheKind = "none" THEN "upstream" ELSE "cache"
  <2>1. Goes(h, where, records, TRUE) /\ UNCHANGED <<errored, count>>
    BY <1>1, <1>5 DEF AskDynamic
  <2>2. records \in SUBSET Side(TRUE)
    BY <1>1, <1>2 DEF Side
  <2>3. where \in Places /\ where # "static" /\ (where \in {"cache", "upstream"} => records = {})
    BY DEF Places, AsksElsewhere
  <2>4. count' \in [Counters -> Nat]
    BY <2>1 DEF IInv, TypeOK
  <2> HIDE DEF where, records
  <2>5. NextOf(h, where) \in Turns
    BY <1>1, <2>3, OtherTurn
  <2>6. Move(h, where, records, TRUE)
    BY <1>3, <2>1, <2>2, <2>3, <2>4, <2>5, GoesMoves
  <2> QED BY <2>2, <2>3, <2>6 DEF Moves
<1> QED BY <1>4, <1>5

LEMMA NothingIsHonest ==
    ASSUME NEW authoritative
    PROVE  {} \subseteq Side(authoritative)
OBVIOUS

\* What is taken from a cache is foreign, and marked so unless it is nothing.
LEMMA CachedIsForeign ==
    ASSUME NEW part \in SUBSET ForeignRecords
    PROVE  CachedAuthority(part) \in BOOLEAN /\ part \in SUBSET Side(CachedAuthority(part))
BY DEF CachedAuthority, Side

LEMMA CacheHitMoves ==
    ASSUME IInv, NEW h \in Handlers, CacheHit(h)
    PROVE  Moves(h)
<1>1. PICK records \in SUBSET cache[Key(msg[h])] :
          /\ pc[h] = "cache" /\ Goes(h, "build", records, CachedAuthority(records))
          /\ UNCHANGED <<zone, cacheKind, cache, errored>>
  BY DEF CacheHit
<1>2. cache[Key(msg[h])] \subseteq ForeignRecords
  BY DEF IInv, TypeOK, CacheIsForeign, Questions, Key
<1>3. /\ CachedAuthority(records) \in BOOLEAN
      /\ records \in SUBSET Side(CachedAuthority(records))
  BY <1>2, CachedIsForeign
<1>4. count' \in [Counters -> Nat]
  BY IncKeepsType DEF CacheHit, IInv, TypeOK
<1>5. NextOf(h, "build") \in Turns
  BY <1>1, OtherTurn
<1>6. Move(h, "build", records, CachedAuthority(records))
  BY <1>1, <1>3, <1>4, <1>5, GoesMoves DEF Places
<1> QED BY <1>3, <1>6 DEF Moves, Places

LEMMA CacheMissMoves ==
    ASSUME IInv, NEW h \in Handlers, CacheMiss(h)
    PROVE  Moves(h)
<1>1. pc[h] = "cache" /\ Goes(h, "upstream", {}, aa[h])
      /\ UNCHANGED <<zone, cacheKind, cache, errored>>
  BY DEF CacheMiss
<1>2. count' \in [Counters -> Nat]
  BY IncKeepsType DEF CacheMiss, IInv, TypeOK
<1>3. NextOf(h, "upstream") \in Turns
  BY <1>1, OtherTurn
<1>4. aa[h] \in BOOLEAN
  BY DEF IInv, TypeOK
<1>5. Move(h, "upstream", {}, aa[h])
  BY <1>1, <1>2, <1>3, <1>4, NothingIsHonest, GoesMoves DEF Places
<1> QED BY <1>4, <1>5, NothingIsHonest DEF Moves, Places

LEMMA CacheFailsMoves ==
    ASSUME IInv, NEW h \in Handlers, CacheFails(h)
    PROVE  Moves(h)
<1>1. pc[h] = "cache" /\ UNCHANGED <<zone, cacheKind, cache>> /\ aa[h] \in BOOLEAN
      /\ DOMAIN cache = Questions /\ \A k \in Questions : cache[k] \subseteq ForeignRecords
  BY DEF CacheFails, IInv, TypeOK, CacheIsForeign
<1>2. CASE Fails(h, {}, aa[h])
  <2>1. Move(h, "build", {}, aa[h])
    BY <1>1, <1>2, NothingIsHonest, FailsMoves DEF Fails
  <2> QED BY <1>1, <2>1, NothingIsHonest DEF Moves, Places
<1>3. ASSUME NEW part \in SUBSET cache[Key(msg[h])],
             FailsCounting(h, part, CachedAuthority(part), {HitCounter})
      PROVE  Moves(h)
  <2>1. part \subseteq ForeignRecords
    BY <1>1 DEF IInv, TypeOK, Questions, Key
  <2>2. part \in SUBSET Side(CachedAuthority(part))
    BY <2>1, CachedIsForeign
  <2>3. CachedAuthority(part) \in BOOLEAN
    BY <2>1, CachedIsForeign
  <2>4. Move(h, "build", part, CachedAuthority(part))
    BY <1>1, <1>3, <2>2, <2>3, FailsMoves
  <2> QED BY <2>2, <2>3, <2>4 DEF Moves, Places
<1> QED BY <1>2, <1>3 DEF CacheFails

LEMMA NotForwardedMoves ==
    ASSUME IInv, NEW h \in Handlers, NotForwarded(h) \/ UpstreamSilent(h)
    PROVE  Moves(h)
<1> DEFINE where == IF UpstreamSilent(h) /\ next[h] < UpstreamCount THEN "upstream"
                    ELSE "build"
<1>1. /\ pc[h] = "upstream" /\ aa[h] \in BOOLEAN
      /\ UNCHANGED <<zone, cacheKind, cache, errored, count>>
  BY DEF NotForwarded, UpstreamSilent, IInv, TypeOK
<1>2. Goes(h, where, {}, aa[h])
  BY DEF NotForwarded, UpstreamSilent
<1>3. NextOf(h, where) \in Turns
  <2>1. next[h] \in Nat /\ UpstreamCount \in Nat /\ Len(Configs) \in Nat
    BY CountAssumption DEF IInv, TypeOK
  <2> QED BY <1>1, <2>1 DEF NextOf, Turns
<1>4. where \in Places /\ where # "static"
  BY DEF Places
<1>5. count' \in [Counters -> Nat]
  BY <1>1 DEF IInv, TypeOK
<1> HIDE DEF where
<1>6. Move(h, where, {}, aa[h])
  BY <1>1, <1>2, <1>3, <1>4, <1>5, NothingIsHonest, GoesMoves
<1> QED BY <1>1, <1>4, <1>6, NothingIsHonest DEF Moves

\* Only what was heard from elsewhere enters a cache.
LEMMA FilledIsForeign ==
    ASSUME IInv, NEW m \in Messages, NEW records \in SUBSET ForeignRecords,
           NEW failed \in BOOLEAN
    PROVE  /\ DOMAIN Filled(m, records, failed) = Questions
           /\ \A k \in Questions : Filled(m, records, failed)[k] \subseteq ForeignRecords
<1>1. DOMAIN cache = Questions /\ \A k \in Questions : cache[k] \subseteq ForeignRecords
  BY DEF IInv, TypeOK, CacheIsForeign
<1>2. CASE cacheKind = "local"
  BY <1>1, <1>2 DEF Filled, Lasting
<1>3. CASE cacheKind # "local"
  BY <1>1, <1>3 DEF Filled, Lasting
<1> QED BY <1>2, <1>3

LEMMA UpstreamAnswersMoves ==
    ASSUME IInv, NEW h \in Handlers, UpstreamAnswers(h)
    PROVE  Moves(h)
<1>1. msg[h] \in Messages /\ pc[h] = "upstream" /\ UNCHANGED <<zone, cacheKind>>
  BY DEF UpstreamAnswers, IInv, TypeOK
<1>2. PICK answer \in Answers(Key(msg[h])) :
         LET known   == SupportedPrefix(answer)
             records == {Relayed(answer[i]) : i \in known}
             failed  == known # DOMAIN answer
         IN  /\ IF failed THEN Fails(h, records, Authoritative(records))
                ELSE /\ Goes(h, "build", records, Authoritative(records))
                     /\ UNCHANGED <<errored, count>>
             /\ cache' = Filled(msg[h], records, failed)
  BY DEF UpstreamAnswers
<1> DEFINE records == {Relayed(answer[i]) : i \in SupportedPrefix(answer)}
           failed  == SupportedPrefix(answer) # DOMAIN answer
           flag    == Authoritative(records)
<1>3. records \in SUBSET ForeignRecords
  BY <1>1, HeardIsForeign
<1>4. failed \in BOOLEAN /\ flag \in BOOLEAN
  BY DEF Authoritative
<1>5. records \in SUBSET Side(flag)
  <2>1. flag = (records = {})
    BY DEF Authoritative
  <2> HIDE DEF records, flag
  <2> QED BY <1>3, <1>4, <2>1 DEF Side
<1>6. /\ IF failed THEN Fails(h, records, flag)
         ELSE Goes(h, "build", records, flag) /\ UNCHANGED <<errored, count>>
      /\ cache' = Filled(msg[h], records, failed)
  BY <1>2
<1> HIDE DEF records, failed, flag
<1>7. DOMAIN cache' = Questions /\ \A k \in Questions : cache'[k] \subseteq ForeignRecords
  BY <1>1, <1>3, <1>4, <1>6, FilledIsForeign
<1>8. Move(h, "build", records, flag)
  <2>1. CASE failed
    BY <1>1, <1>4, <1>5, <1>6, <1>7, <2>1, FailsMoves DEF Fails
  <2>2. CASE ~ failed
    <3>1. errored' \in [Handlers -> BOOLEAN] /\ count' \in [Counters -> Nat]
      <4>1. errored' = errored /\ count' = count
        BY <1>6, <2>2
      <4> QED BY <4>1 DEF IInv, TypeOK
    <3>2. NextOf(h, "build") \in Turns
      BY <1>1, OtherTurn
    <3> QED BY <1>1, <1>5, <1>6, <1>7, <2>2, <3>1, <3>2 DEF Move
  <2> QED BY <2>1, <2>2
<1> QED BY <1>4, <1>5, <1>8 DEF Moves, Places

LEMMA UpstreamFailsMoves ==
    ASSUME IInv, NEW h \in Handlers, UpstreamFails(h)
    PROVE  Moves(h)
<1>1. /\ msg[h] \in Messages /\ pc[h] = "upstream" /\ UNCHANGED <<zone, cacheKind, cache>>
      /\ aa[h] \in BOOLEAN
      /\ DOMAIN cache = Questions /\ \A k \in Questions : cache[k] \subseteq ForeignRecords
  BY DEF UpstreamFails, IInv, TypeOK, CacheIsForeign
<1>2. CASE Fails(h, {}, aa[h])
  <2>1. Move(h, "build", {}, aa[h])
    BY <1>1, <1>2, NothingIsHonest, FailsMoves DEF Fails
  <2> QED BY <1>1, <2>1, NothingIsHonest DEF Moves, Places
<1>3. ASSUME NEW answer \in Answers(Key(msg[h])), NEW flag \in BOOLEAN,
             NEW n \in {0} \cup SupportedPrefix(answer), n > 0 => ~ flag,
             Fails(h, {Relayed(answer[i]) : i \in 1..n}, flag)
      PROVE  Moves(h)
  <2> DEFINE records == {Relayed(answer[i]) : i \in 1..n}
  <2>1. 1..n \in SUBSET SupportedPrefix(answer)
    <3>1. CASE n \in SupportedPrefix(answer)
      BY <1>1, <3>1, PrefixIsClosed
    <3>2. CASE n = 0
      BY <3>2
    <3> QED BY <3>1, <3>2
  <2>2. records \subseteq ForeignRecords
    BY <1>1, <2>1, HeardIsForeign
  <2>3. n = 0 => records = {}
    OBVIOUS
  <2>4. n = 0 \/ n > 0
    <3>1. SupportedPrefix(answer) \subseteq Nat \ {0}
      BY <1>1, AnswerAssumption DEF SupportedPrefix, Key
    <3> QED BY <3>1
  <2> HIDE DEF records
  <2>5. records \in SUBSET Side(flag)
    BY <1>3, <2>2, <2>3, <2>4 DEF Side
  <2>6. FailsCounting(h, records, flag, {})
    BY <1>3 DEF records, Fails
  <2>7. Move(h, "build", records, flag)
    BY <1>1, <2>5, <2>6, FailsMoves
  <2> QED BY <2>5, <2>7 DEF Moves, Places
<1> QED BY <1>2, <1>3 DEF UpstreamFails

LEMMA BuildMoves ==
    ASSUME IInv, NEW h \in Handlers, Build(h)
    PROVE  Moves(h)
<1> DEFINE records == Once(got[h])
<1>1. /\ pc[h] = "build" /\ Goes(h, "idle", records, aa[h]) /\ aa[h] \in BOOLEAN
      /\ UNCHANGED <<zone, cacheKind, cache, errored>>
  BY DEF Build, IInv, TypeOK
<1>2. records \in SUBSET Side(aa[h])
  BY DEF Once, Side, IInv, AuthorityIsHonest
<1>3. count' \in [Counters -> Nat]
  BY IncKeepsType DEF Build, IInv, TypeOK
<1>4. NextOf(h, "idle") \in Turns
  BY <1>1, OtherTurn
<1> HIDE DEF records
<1>5. Move(h, "idle", records, aa[h])
  BY <1>1, <1>2, <1>3, <1>4, GoesMoves DEF Places
<1> QED BY <1>1, <1>2, <1>5 DEF Moves, Places

LEMMA ServeKeeps ==
    ASSUME IInv, NEW h \in Handlers, Serve(h)
    PROVE  IInv'
<1>1. Moves(h)
  BY AskStaticMoves, AskDynamicMoves, CacheHitMoves, CacheMissMoves, CacheFailsMoves,
     NotForwardedMoves, UpstreamAnswersMoves, UpstreamFailsMoves, BuildMoves DEF Serve
<1> QED BY <1>1, MovesKeep DEF Moves

-----------------------------------------------------------------------------
\* The other steps, and the first theorems.

LEMMA InitHolds == Init => IInv
<1> SUFFICES ASSUME Init PROVE IInv
  OBVIOUS
<1>1. TypeOK
  <2>1. aa \in [Handlers -> BOOLEAN] /\ errored \in [Handlers -> BOOLEAN]
    BY DEF Init
  <2>2. next \in [Handlers -> 1..(Len(Configs) + UpstreamCount + 1)]
    BY CountAssumption DEF Init
  <2>3. msg \in [Handlers -> Messages]
    <3>1. PICK d \in [Handlers -> {CHOOSE m \in Messages : TRUE}] : msg = d
      BY DEF Init
    <3> QED BY <3>1, MessageAssumption
  <2>4. pc \in [Handlers -> Places]
    BY DEF Init, Places
  <2> QED BY <2>1, <2>2, <2>3, <2>4 DEF Init, TypeOK, Places
<1>2. AuthorityIsHonest /\ CacheIsForeign
  BY DEF Init, AuthorityIsHonest, CacheIsForeign
<1>3. NothingYet
  BY DEF Init, NothingYet
<1> QED BY <1>1, <1>2, <1>3 DEF IInv

LEMMA ReceiveKeeps ==
    ASSUME IInv, NEW h \in Handlers, NEW m \in Messages, Receive(h, m)
    PROVE  IInv'
<1> USE DEF IInv, Receive
<1>1. TypeOK'
  <2>1. aa' \in [Handlers -> BOOLEAN]
    <3>1. aa \in [Handlers -> BOOLEAN] /\ aa' = [aa EXCEPT ![h] = TRUE]
      BY DEF TypeOK
    <3> QED BY <3>1, Zenon
  <2>2. errored' \in [Handlers -> BOOLEAN]
    <3>1. errored \in [Handlers -> BOOLEAN] /\ errored' = [errored EXCEPT ![h] = FALSE]
      BY DEF TypeOK
    <3> QED BY <3>1, Zenon
  <2>3. next' \in [Handlers -> 1..(Len(Configs) + UpstreamCount + 1)]
    BY CountAssumption DEF TypeOK
  <2>4. pc' \in [Handlers -> Places] /\ msg' \in [Handlers -> Messages]
    BY DEF TypeOK, Places
  <2>5. count' \in [Counters -> Nat]
    <3>1. PICK c \in {"query", "another"} : count' = [count EXCEPT ![c] = count[c] + 1]
      BY DEF Counters
    <3>2. count \in [Counters -> Nat] /\ c \in Counters
      BY DEF TypeOK, Counters
    <3> QED BY <3>1, <3>2
  <2> QED BY <2>1, <2>2, <2>3, <2>4, <2>5 DEF TypeOK, Places
<1>2. AuthorityIsHonest'
  <2> SUFFICES ASSUME NEW g \in Handlers PROVE got'[g] \subseteq Side(aa'[g])
    BY DEF AuthorityIsHonest, Side, HomeRecords, ForeignRecords, Heard, Zones, SupportedPrefix
  <2>1. CASE g = h
    BY <2>1 DEF TypeOK
  <2>2. CASE g # h
    <3>1. got'[g] = got[g] /\ aa'[g] = aa[g]
      BY <2>2 DEF TypeOK
    <3> QED BY <3>1 DEF AuthorityIsHonest, Side
  <2> QED BY <2>1, <2>2
<1>3. CacheIsForeign'
  BY DEF CacheIsForeign, ForeignRecords, Heard, SupportedPrefix, Questions
<1>4. NothingYet'
  BY DEF NothingYet, TypeOK
<1> QED BY <1>1, <1>2, <1>3, <1>4

LEMMA SurroundingsKeep ==
    ASSUME IInv, ZoneChanges \/ (\E k \in Questions : Forget(k)) \/ UNCHANGED chainVars
    PROVE  IInv'
<1> USE DEF IInv
<1>1. /\ zone' \in DynamicZones /\ DOMAIN cache' = Questions
      /\ \A k \in Questions : cache'[k] \subseteq ForeignRecords
  BY DEF ZoneChanges, Forget, chainVars, TypeOK, CacheIsForeign
<1>2. cacheKind' = cacheKind /\ count' = count
  BY DEF ZoneChanges, Forget, chainVars
<1>3. UNCHANGED <<pc, msg, next>>
  BY DEF ZoneChanges, Forget, chainVars, handlerVars
<1>4. UNCHANGED <<got, aa, errored>>
  BY DEF ZoneChanges, Forget, chainVars, handlerVars
<1>5. TypeOK'
  BY <1>1, <1>2, <1>3, <1>4 DEF TypeOK
<1>6. AuthorityIsHonest'
  BY <1>4 DEF AuthorityIsHonest, HomeRecords, ForeignRecords, Heard, Zones, SupportedPrefix
<1>7. CacheIsForeign'
  BY <1>1 DEF CacheIsForeign, ForeignRecords, Heard, SupportedPrefix, Questions
<1>8. NothingYet'
  BY <1>3, <1>4 DEF NothingYet
<1> QED BY <1>5, <1>6, <1>7, <1>8

LEMMA NextKeeps == IInv /\ [Next]_chainVars => IInv'
<1> SUFFICES ASSUME IInv, [Next]_chainVars PROVE IInv'
  OBVIOUS
<1>1. ASSUME NEW h \in Handlers, Serve(h) PROVE IInv'
  BY <1>1, ServeKeeps
<1>2. ASSUME NEW h \in Handlers, NEW m \in Messages, Receive(h, m) PROVE IInv'
  BY <1>2, ReceiveKeeps
<1>3. CASE ZoneChanges \/ (\E k \in Questions : Forget(k)) \/ UNCHANGED chainVars
  BY <1>3, SurroundingsKeep
<1> QED BY <1>1, <1>2, <1>3 DEF Next, ChainNext

LEMMA InvariantHolds == Spec => []IInv
<1>1. Init => IInv
  BY InitHolds
<1>2. IInv /\ [Next]_chainVars => IInv'
  BY NextKeeps
<1> QED BY <1>1, <1>2, PTL DEF Spec

\* The variables keep their types, and a handler never asks a static zone or an
\* upstream server beyond the last one, however many there are.
THEOREM TypeCorrect == Spec => []TypeOK
<1>1. IInv => TypeOK
  BY DEF IInv
<1> QED BY <1>1, InvariantHolds, PTL

\* A message with the authoritative flag holds records of this site only, one
\* without it records of others only: in every reply, for every configuration,
\* every dynamic zone, every cache and whatever upstream servers answer.
THEOREM AuthorityHolds == Spec => []AuthorityIsHonest
<1>1. IInv => AuthorityIsHonest
  BY DEF IInv
<1> QED BY <1>1, InvariantHolds, PTL

-----------------------------------------------------------------------------
\* The balance of the counters.

Busy  == {h \in Handlers : pc[h] # "idle"}
Tally == {"query", "another", "local", "upstream", "not-found"}
AllCounted == {m.type : m \in Messages} \subseteq Counted
Received   == count["query"] + count["another"]
Replied    == count["local"] + count["upstream"] + count["not-found"]
Balance    == Received = Replied + Cardinality(Busy)

LEMMA BusyFinite == IsFiniteSet(Busy) /\ Cardinality(Busy) \in Nat
<1>1. IsFiniteSet(Busy)
  BY CountAssumption, FS_Subset DEF Busy
<1> QED BY <1>1, FS_CardinalityType

\* Until its reply is built, a handler stays busy and touches no counter of the
\* balance.
GoesOn(h) ==
    /\ pc[h] # "idle"
    /\ \E where \in Places \ {"idle"} : pc' = [pc EXCEPT ![h] = where]
    /\ \A c \in Tally : count'[c] = count[c]

LEMMA IncLeavesTally ==
    ASSUME NEW S \in SUBSET {"error", "cache hit", "cache miss"}, NEW type, Inc(S, type)
    PROVE  \A c \in Tally : count'[c] = count[c]
BY DEF Inc, Tally, Counters

LEMMA FailsGoesOn ==
    ASSUME NEW h \in Handlers, pc[h] # "idle", NEW records, NEW authoritative,
           NEW S \in SUBSET {"cache hit", "cache miss"},
           FailsCounting(h, records, authoritative, S)
    PROVE  GoesOn(h)
<1>1. Inc(S \cup {"error"}, msg[h].type) /\ pc' = [pc EXCEPT ![h] = "build"]
  BY DEF FailsCounting, Goes
<1>2. \A c \in Tally : count'[c] = count[c]
  BY <1>1, IncLeavesTally
<1> QED BY <1>1, <1>2 DEF GoesOn, Places

LEMMA ServeGoesOn ==
    ASSUME IInv, NEW h \in Handlers, Serve(h), ~ Build(h)
    PROVE  GoesOn(h)
<1>1. CASE AskStatic(h)
  <2> DEFINE found   == Matches(Zones[next[h]], QuestionOf(msg[h]))
             records == {r.rr : r \in found} \ {NoRR}
  <2>1. pc[h] # "idle"
    BY <1>1 DEF AskStatic
  <2>2. ASSUME NEW part \in SUBSET records, Fails(h, got[h] \cup part, aa[h])
        PROVE  GoesOn(h)
    BY <2>1, <2>2, FailsGoesOn DEF Fails
  <2>3. CASE Goes(h, "static", got[h] \cup records, aa[h]) /\ UNCHANGED <<errored, count>>
    BY <2>1, <2>3 DEF GoesOn, Goes, Places
  <2> QED BY <1>1, <2>2, <2>3 DEF AskStatic
<1>2. CASE AskDynamic(h)
  <2>1. pc[h] # "idle"
    BY <1>2 DEF AskDynamic
  <2>2. ASSUME NEW records, Fails(h, records, aa[h])
        PROVE  GoesOn(h)
    <3>1. FailsCounting(h, records, aa[h], {})
      BY <2>2 DEF Fails
    <3> QED BY <2>1, <3>1, FailsGoesOn
  <2>3. ASSUME NEW records, NEW where \in {"build", "upstream", "cache"},
               Goes(h, where, records, aa[h]), UNCHANGED <<errored, count>>
        PROVE  GoesOn(h)
    BY <2>1, <2>3 DEF GoesOn, Goes, Places
  <2>4. CASE \E part \in SUBSET ZoneRecords(msg[h], zone) :
                 Fails(h, got[h] \cup part, aa[h])
    BY <2>2, <2>4
  <2>5. CASE ~ \E part \in SUBSET ZoneRecords(msg[h], zone) :
                 Fails(h, got[h] \cup part, aa[h])
    <3> DEFINE records == got[h] \cup ZoneRecords(msg[h], zone)
               where == IF ~ AsksElsewhere(h, records) THEN "build"
                        ELSE IF cacheKind = "none" THEN "upstream" ELSE "cache"
    <3>1. Goes(h, where, records, aa[h]) /\ UNCHANGED <<errored, count>>
      BY <1>2, <2>5 DEF AskDynamic
    <3>2. where \in {"build", "upstream", "cache"}
      OBVIOUS
    <3> HIDE DEF where, records
    <3> QED BY <2>3, <3>1, <3>2
  <2> QED BY <2>4, <2>5
<1>3. CASE CacheHit(h) \/ CacheMiss(h)
  <2>1. PICK S \in SUBSET {"cache hit", "cache miss"} : Inc(S, msg[h].type)
    BY <1>3 DEF CacheHit, CacheMiss, HitCounter, MissCounter
  <2>2. \A c \in Tally : count'[c] = count[c]
    BY <2>1, IncLeavesTally
  <2>3. pc[h] # "idle" /\ \E where \in {"build", "upstream"} : pc' = [pc EXCEPT ![h] = where]
    BY <1>3 DEF CacheHit, CacheMiss, Goes
  <2> QED BY <2>2, <2>3 DEF GoesOn, Places
<1>4. CASE CacheFails(h)
  <2>1. pc[h] # "idle" /\ {HitCounter} \in SUBSET {"cache hit", "cache miss"}
    BY <1>4 DEF CacheFails, HitCounter
  <2>2. ASSUME NEW part, FailsCounting(h, part, CachedAuthority(part), {HitCounter})
        PROVE  GoesOn(h)
    BY <2>1, <2>2, FailsGoesOn
  <2>3. CASE Fails(h, {}, aa[h])
    BY <2>1, <2>3, FailsGoesOn DEF Fails
  <2> QED BY <1>4, <2>2, <2>3 DEF CacheFails
<1>5. CASE NotForwarded(h) \/ UpstreamSilent(h)
  BY <1>5 DEF NotForwarded, UpstreamSilent, Goes, GoesOn, Places
<1>6. CASE UpstreamAnswers(h)
  <2>1. pc[h] # "idle"
    BY <1>6 DEF UpstreamAnswers
  <2>2. PICK records : \/ Fails(h, records, Authoritative(records))
                       \/ /\ Goes(h, "build", records, Authoritative(records))
                          /\ UNCHANGED <<errored, count>>
    BY <1>6 DEF UpstreamAnswers
  <2>3. CASE Fails(h, records, Authoritative(records))
    BY <2>1, <2>3, FailsGoesOn DEF Fails
  <2>4. CASE Goes(h, "build", records, Authoritative(records)) /\ UNCHANGED <<errored, count>>
    BY <2>1, <2>4 DEF GoesOn, Goes, Places
  <2> QED BY <2>2, <2>3, <2>4
<1>7. CASE UpstreamFails(h)
  <2>1. pc[h] # "idle"
    BY <1>7 DEF UpstreamFails
  <2>2. ASSUME NEW records, NEW flag, Fails(h, records, flag)
        PROVE  GoesOn(h)
    BY <2>1, <2>2, FailsGoesOn DEF Fails
  <2>3. CASE Fails(h, {}, aa[h])
    BY <2>2, <2>3
  <2>4. ASSUME NEW answer \in Answers(Key(msg[h])), NEW flag \in BOOLEAN,
               NEW n \in {0} \cup SupportedPrefix(answer),
               Fails(h, {Relayed(answer[i]) : i \in 1..n}, flag)
        PROVE  GoesOn(h)
    BY <2>2, <2>4
  <2> QED BY <1>7, <2>3, <2>4 DEF UpstreamFails
<1> QED BY <1>1, <1>2, <1>3, <1>4, <1>5, <1>6, <1>7 DEF Serve

LEMMA CountsAreNat ==
    ASSUME IInv
    PROVE  Received \in Nat /\ Replied \in Nat
<1>1. \A c \in Tally : count[c] \in Nat
  BY DEF IInv, TypeOK, Tally, Counters
<1> QED BY <1>1 DEF Received, Replied, Tally

LEMMA GoesOnBalances ==
    ASSUME IInv, Balance, NEW h \in Handlers, GoesOn(h)
    PROVE  Balance'
<1>1. Busy' = Busy
  BY DEF IInv, TypeOK, GoesOn, Busy
<1>2. Received' = Received /\ Replied' = Replied
  BY DEF GoesOn, Tally, Received, Replied
<1> QED BY <1>1, <1>2 DEF Balance

LEMMA BuildBalances ==
    ASSUME IInv, Balance, AllCounted, NEW h \in Handlers, Build(h)
    PROVE  Balance'
<1>1. pc[h] = "build" /\ pc' = [pc EXCEPT ![h] = "idle"]
  BY DEF Build, Goes
<1>2. h \in Busy /\ Busy' = Busy \ {h}
  BY <1>1 DEF IInv, TypeOK, Busy
<1>3. Cardinality(Busy') = Cardinality(Busy) - 1
  BY <1>2, BusyFinite, FS_RemoveElement
<1>4. msg[h].type \in Counted
  BY DEF AllCounted, IInv, TypeOK
<1>5. PICK o \in {"not-found", "local", "upstream"} : Inc({o}, msg[h].type)
  BY DEF Build, Outcome
<1>6. \A c \in Tally : count'[c] = IF c = o THEN count[c] + 1 ELSE count[c]
  BY <1>4, <1>5 DEF Inc, Tally, Counters
<1>7. \A c \in Tally : count[c] \in Nat
  BY DEF IInv, TypeOK, Tally, Counters
<1>8. Received' = Received /\ Replied' = Replied + 1
  BY <1>6, <1>7 DEF Received, Replied, Tally
<1> QED BY <1>3, <1>8, BusyFinite, CountsAreNat DEF Balance

LEMMA ReceiveBalances ==
    ASSUME IInv, Balance, NEW h \in Handlers, NEW m \in Messages, Receive(h, m)
    PROVE  Balance'
<1>1. pc[h] = "idle" /\ \E where \in {"static", "build"} : pc' = [pc EXCEPT ![h] = where]
  BY DEF Receive
<1>2. h \notin Busy /\ Busy' = Busy \cup {h}
  BY <1>1 DEF IInv, TypeOK, Busy
<1>3. Cardinality(Busy') = Cardinality(Busy) + 1
  BY <1>2, BusyFinite, FS_AddElement
<1>4. PICK c \in {"query", "another"} : count' = [count EXCEPT ![c] = count[c] + 1]
  BY DEF Receive
<1>5. count \in [Counters -> Nat] /\ {"query", "another", "local", "upstream", "not-found"} \subseteq Counters
  BY DEF IInv, TypeOK, Counters
<1>6. Received' = Received + 1 /\ Replied' = Replied
  BY <1>4, <1>5 DEF Received, Replied
<1> QED BY <1>3, <1>6, BusyFinite, CountsAreNat DEF Balance

\* Whatever the number of handlers, and however queries fail: the numbers of
\* messages and of replies that Landns reports differ by the messages it is
\* working on.
THEOREM CountersBalance == Spec => []RepliesCounted
<1> DEFINE BInv == IInv /\ (AllCounted => Balance)
<1>1. Init => BInv
  <2> SUFFICES ASSUME Init PROVE Balance
    BY InitHolds
  <2>1. Busy = {}
    BY DEF Init, Busy
  <2>2. \A c \in Counters : count[c] = 0
    BY DEF Init
  <2>3. /\ count["query"] = 0 /\ count["another"] = 0 /\ count["local"] = 0
        /\ count["upstream"] = 0 /\ count["not-found"] = 0
    BY <2>2 DEF Counters
  <2>4. Received = 0 /\ Replied = 0
    BY <2>3 DEF Received, Replied
  <2> QED BY <2>1, <2>4, FS_EmptySet DEF Balance
<1>2. BInv /\ [Next]_chainVars => BInv'
  <2> SUFFICES ASSUME BInv, [Next]_chainVars, AllCounted PROVE Balance'
    BY NextKeeps DEF AllCounted
  <2>1. ASSUME NEW h \in Handlers, Serve(h), ~ Build(h) PROVE Balance'
    BY <2>1, ServeGoesOn, GoesOnBalances
  <2>2. ASSUME NEW h \in Handlers, Build(h) PROVE Balance'
    BY <2>2, BuildBalances
  <2>3. ASSUME NEW h \in Handlers, NEW m \in Messages, Receive(h, m) PROVE Balance'
    BY <2>3, ReceiveBalances
  <2>4. CASE ZoneChanges \/ (\E k \in Questions : Forget(k)) \/ UNCHANGED chainVars
    <3>1. UNCHANGED <<pc, count>>
      BY <2>4 DEF ZoneChanges, Forget, chainVars, handlerVars
    <3> QED BY <3>1 DEF Balance, Busy, Received, Replied
  <2> QED BY <2>1, <2>2, <2>3, <2>4 DEF Next, ChainNext
<1>3. BInv => RepliesCounted
  BY DEF RepliesCounted, AllCounted, Balance, Busy, Received, Replied
<1> QED BY <1>1, <1>2, <1>3, PTL DEF Spec

-----------------------------------------------------------------------------
\* The name service: the records first, and that Build keeps each of them once.

\* An RR with a natural TTL and a sequence of data.
IsRR(r) ==
    /\ r = RR(r.name, r.type, r.ttl, r.data)
    /\ r.ttl \in Nat
    /\ \E S : r.data \in Seq(S)

LEMMA MadeRR ==
    ASSUME NEW name, NEW type, NEW ttl \in Nat, NEW S, NEW data \in Seq(S)
    PROVE  IsRR(RR(name, type, ttl, data))
BY DEF IsRR, RR

\* The RRs that Go records print: with one, two, four strings, or none.
LEMMA PrintedRR ==
    ASSUME NEW name, NEW type, NEW ttl \in Nat, NEW a, NEW b, NEW c, NEW d
    PROVE  /\ IsRR(NoRR) /\ IsRR(RR(name, type, ttl, <<a>>))
           /\ IsRR(RR(name, type, ttl, <<a, b>>))
           /\ IsRR(RR(name, type, ttl, <<a, b, c, d>>))
<1>1. \A S : <<>> \in Seq(S)
  OBVIOUS
<1>2. <<a>> \in Seq({a})
  OBVIOUS
<1>3. <<a, b>> \in Seq({a, b})
  OBVIOUS
<1>4. <<a, b, c, d>> \in Seq({a, b, c, d})
  OBVIOUS
<1> QED BY <1>1, <1>2, <1>3, <1>4, MadeRR DEF NoRR

\* A sequence behind two elements.
LEMMA BehindTwo ==
    ASSUME NEW U, NEW p \in Seq(U), Len(p) = 2, NEW s \in Seq(U)
    PROVE  /\ Len(p \o s) = 2 + Len(s)
           /\ (p \o s)[1] = p[1] /\ (p \o s)[2] = p[2]
           /\ \A i \in 1..Len(s) : (p \o s)[i + 2] = s[i]
<1>1. /\ Len(p \o s) = 2 + Len(s)
      /\ \A i \in 1..2 + Len(s) : (p \o s)[i] = IF i <= 2 THEN p[i] ELSE s[i - 2]
  <2>1. /\ Len(p \o s) = Len(p) + Len(s)
        /\ \A i \in 1..Len(p) + Len(s) :
              (p \o s)[i] = IF i <= Len(p) THEN p[i] ELSE s[i - Len(p)]
    BY ConcatProperties, Zenon
  <2> QED BY <2>1
<1>2. Len(s) \in Nat
  OBVIOUS
<1>3. ASSUME NEW i \in 1..Len(s) PROVE (p \o s)[i + 2] = s[i]
  <2>1. i + 2 \in 1..2 + Len(s) /\ ~ (i + 2 <= 2) /\ (i + 2) - 2 = i
    BY <1>2
  <2> QED BY <1>1, <2>1
<1> QED BY <1>1, <1>2, <1>3

\* Two RRs with one key and one TTL are one RR.
LEMMA KeyDetermines ==
    ASSUME NEW r, NEW s, IsRR(r), IsRR(s), KeyOf(r) = KeyOf(s), r.ttl = s.ttl
    PROVE  r = s
<1>1. PICK S : r.data \in Seq(S)
  BY DEF IsRR
<1>2. PICK T : s.data \in Seq(T)
  BY DEF IsRR
<1> DEFINE U == S \cup T \cup {r.name, r.type, s.name, s.type}
           p == <<r.name, r.type>>
           q == <<s.name, s.type>>
<1>3. r.data \in Seq(U) /\ s.data \in Seq(U) /\ p \in Seq(U) /\ q \in Seq(U)
  BY <1>1, <1>2
<1>4. p \o r.data = q \o s.data
  BY DEF KeyOf
<1>5. /\ Len(p) = 2 /\ Len(q) = 2 /\ p[1] = r.name /\ p[2] = r.type
      /\ q[1] = s.name /\ q[2] = s.type
  OBVIOUS
<1> HIDE DEF U, p, q
<1>6. /\ Len(p \o r.data) = 2 + Len(r.data) /\ Len(q \o s.data) = 2 + Len(s.data)
      /\ Len(r.data) \in Nat /\ Len(s.data) \in Nat
  BY <1>3, <1>5, BehindTwo
<1>7. (p \o r.data)[1] = p[1] /\ (p \o r.data)[2] = p[2]
  BY <1>3, <1>5, BehindTwo
<1>8. (q \o s.data)[1] = q[1] /\ (q \o s.data)[2] = q[2]
  BY <1>3, <1>5, BehindTwo
<1>9. Len(r.data) = Len(s.data)
  BY <1>4, <1>6
<1>10. r.data = s.data
  <2>1. \A i \in 1..Len(r.data) : (p \o r.data)[i + 2] = r.data[i]
    BY <1>3, <1>5, BehindTwo
  <2>2. \A i \in 1..Len(s.data) : (q \o s.data)[i + 2] = s.data[i]
    BY <1>3, <1>5, BehindTwo
  <2>3. \A i \in 1..Len(r.data) : r.data[i] = s.data[i]
    BY <1>4, <1>9, <2>1, <2>2
  <2> QED BY <1>3, <1>9, <2>3, SeqEqual
<1>11. r.name = s.name /\ r.type = s.type
  BY <1>4, <1>5, <1>7, <1>8
<1> QED BY <1>10, <1>11 DEF IsRR

\* What a Go record prints is an RR.
LEMMA RelayedRR ==
    ASSUME NEW rr, Supported(rr), rr.ttl \in Nat
    PROVE  IsRR(Relayed(rr))
<1> DEFINE d == rr.data
<1>1. CASE rr.type \in {"A", "AAAA"}
  <2>1. Relayed(rr) = AddressRecord(rr.name, rr.ttl, d[1]).rr
    BY <1>1 DEF Relayed, NewRecordFromRR
  <2>2. PICK type : Relayed(rr) = RR(rr.name, type, rr.ttl, <<d[1]>>)
    BY <2>1 DEF AddressRecord
  <2> QED BY <2>2, PrintedRR
<1>2. CASE rr.type = "NS"
  <2>1. Relayed(rr) = RR(rr.name, "NS", ParserTTL, <<d[1]>>)
    BY <1>2 DEF Relayed, NewRecordFromRR, NsRecord
  <2>2. ParserTTL \in Nat
    BY DEF ParserTTL
  <2> QED BY <2>1, <2>2, PrintedRR
<1>3. CASE rr.type = "CNAME"
  <2>1. Relayed(rr) = RR(rr.name, "CNAME", rr.ttl, <<d[1]>>)
    BY <1>3 DEF Relayed, NewRecordFromRR, CnameRecord
  <2> QED BY <2>1, PrintedRR
<1>4. CASE rr.type = "PTR"
  <2>1. Relayed(rr) = RR(rr.name, "PTR", rr.ttl, <<d[1]>>)
    BY <1>4 DEF Relayed, NewRecordFromRR, PtrRecord
  <2> QED BY <2>1, PrintedRR
<1>5. CASE rr.type = "MX"
  <2>1. Relayed(rr) = RR(rr.name, "MX", rr.ttl, <<d[1], d[2]>>)
    BY <1>5 DEF Relayed, NewRecordFromRR, MxRecord
  <2> QED BY <2>1, PrintedRR
<1>6. CASE rr.type = "TXT"
  <2>1. Relayed(rr) = RR(rr.name, "TXT", rr.ttl, <<d[1]>>) \/ Relayed(rr) = NoRR
    BY <1>6 DEF Relayed, NewRecordFromRR, TxtRecord
  <2> QED BY <2>1, PrintedRR
<1>7. CASE rr.type = "SRV"
  <2>1. Relayed(rr) = RR(rr.name, "SRV", rr.ttl, <<d[1], d[2], d[3], d[4]>>)
    BY <1>7 DEF Relayed, NewRecordFromRR, SrvRecord
  <2> QED BY <2>1, PrintedRR
<1> QED BY <1>1, <1>2, <1>3, <1>4, <1>5, <1>6, <1>7 DEF Supported

\* Every record a message may hold is an RR.
LEMMA HomeRR == \A r \in HomeRecords : IsRR(r)
<1>1. ASSUME NEW i \in DOMAIN Configs, NEW r \in Zones[i] PROVE IsRR(r.rr)
  <2> DEFINE config == Configs[i]
             ttl == ZoneTTL(config)
  <2>1. ttl \in Nat
    BY RecordAssumption
  <2>2. r \in NewSimpleResolverFromConfig(config)
    BY <1>1 DEF Zones
  <2> HIDE DEF ttl
  <2>3. ASSUME NEW e \in config.addresses, r = AddressRecord(e[1], ttl, e[2])
        PROVE  IsRR(r.rr)
    <3>1. PICK type : r.rr = RR(e[1], type, ttl, <<e[2]>>)
      BY <2>3 DEF AddressRecord
    <3> QED BY <2>1, <3>1, PrintedRR
  <2>4. CASE r \in ReverseMap(config)
    <3>1. PICK e \in config.addresses : r = PtrRecord(ReverseName[e[2]], ttl, e[1])
      BY <2>4 DEF ReverseMap, ttl
    <3>2. r.rr = RR(ReverseName[e[2]], "PTR", ttl, <<e[1]>>)
      BY <3>1 DEF PtrRecord
    <3> QED BY <2>1, <3>2, PrintedRR
  <2>5. ASSUME NEW e \in config.cnames, r = CnameRecord(e[1], ttl, e[2])
        PROVE  IsRR(r.rr)
    <3>1. r.rr = RR(e[1], "CNAME", ttl, <<e[2]>>)
      BY <2>5 DEF CnameRecord
    <3> QED BY <2>1, <3>1, PrintedRR
  <2>6. ASSUME NEW e \in config.texts, r = TxtRecord(e[1], ttl, e[2])
        PROVE  IsRR(r.rr)
    <3>1. r.rr = RR(e[1], "TXT", ttl, <<e[2]>>) \/ r.rr = NoRR
      BY <2>6 DEF TxtRecord
    <3> QED BY <2>1, <3>1, PrintedRR
  <2>7. CASE r \in Services(config)
    <3>1. PICK e \in config.services : r = ToRecord(e[1], e[2], ttl)
      BY <2>7 DEF Services, ttl
    <3>2. PICK name, a, b, c, d : r.rr = RR(name, "SRV", ttl, <<a, b, c, d>>)
      BY <3>1 DEF ToRecord, SrvRecord
    <3> QED BY <2>1, <3>2, PrintedRR
  <2> QED BY <2>2, <2>3, <2>4, <2>5, <2>6, <2>7
          DEF NewSimpleResolverFromConfig, ttl
<1>2. ASSUME NEW z \in DynamicZones, NEW r \in z PROVE IsRR(Relayed(r))
  BY <1>2, RecordAssumption, RelayedRR
<1>3. DOMAIN Zones = DOMAIN Configs
  BY DEF Zones
<1> QED BY <1>1, <1>2, <1>3 DEF HomeRecords

LEMMA ForeignRR == \A r \in ForeignRecords : IsRR(r)
<1>1. ASSUME NEW m \in Messages, NEW r \in Heard(Key(m)) PROVE IsRR(r)
  <2>1. PICK answer \in Answers(Key(m)) :
           \E j \in SupportedPrefix(answer) : r = Relayed(answer[j])
    BY <1>1 DEF Heard
  <2>i. PICK i \in SupportedPrefix(answer) : r = Relayed(answer[i])
    BY <2>1
  <2>2. i \in 1..Len(answer) /\ i \in DOMAIN answer /\ Len(answer) \in Nat
    BY <2>i, AnswerAssumption DEF SupportedPrefix, Key
  <2>3. i \in 1..i
    BY <2>2
  <2>4. Supported(answer[i])
    BY <2>i, <2>3 DEF SupportedPrefix
  <2>5. answer[i].ttl \in Nat
    BY <2>2, RecordAssumption DEF Key
  <2> QED BY <2>i, <2>4, <2>5, RelayedRR
<1> QED BY <1>1 DEF ForeignRecords, Questions, Key

\* Of the records with one key, Build keeps one and a shortest one.
LEMMA OnceIsOnce ==
    ASSUME NEW R, \A r \in R : IsRR(r)
    PROVE  /\ \A r, s \in Once(R) : KeyOf(r) = KeyOf(s) => r = s
           /\ \A a \in R : \E r \in Once(R) : KeyOf(r) = KeyOf(a) /\ r.ttl <= a.ttl
<1>1. ASSUME NEW r \in Once(R), NEW s \in Once(R), KeyOf(r) = KeyOf(s)
      PROVE  r = s
  <2>1. IsRR(r) /\ IsRR(s) /\ r.ttl <= s.ttl /\ s.ttl <= r.ttl
    BY <1>1 DEF Once
  <2>2. r.ttl = s.ttl
    BY <2>1 DEF IsRR
  <2> QED BY <1>1, <2>1, <2>2, KeyDetermines
<1>2. ASSUME NEW a \in R
      PROVE  \E r \in Once(R) : KeyOf(r) = KeyOf(a) /\ r.ttl <= a.ttl
  <2> DEFINE T == {r.ttl : r \in {s \in R : KeyOf(s) = KeyOf(a)}}
  <2>1. a.ttl \in T /\ T \subseteq Nat
    BY DEF IsRR
  <2>2. PICK x \in T : \A y \in T : ~ (<<y, x>> \in OpToRel(<, Nat))
    <3> HIDE DEF T
    <3> QED BY <2>1, NatLessThanWellFounded, WFMin
  <2>3. \A y \in T : x <= y
    <3>1. \A y \in T : ~ (y < x)
      BY <2>1, <2>2 DEF OpToRel
    <3> HIDE DEF T
    <3> QED BY <2>1, <3>1
  <2>4. PICK r \in R : KeyOf(r) = KeyOf(a) /\ r.ttl = x
    BY <2>2
  <2>5. r \in Once(R)
    BY <2>3, <2>4 DEF Once
  <2> QED BY <2>1, <2>3, <2>4, <2>5
<1> QED BY <1>1, <1>2

-----------------------------------------------------------------------------
\* What a step of a handler does, seen from the name service.

\* What the first n - 1 static zones answer to q.
Asked(q, n) ==
    {r.rr : r \in UNION {Matches(Zones[i], q) : i \in {j \in DOMAIN Zones : j < n}}}
    \ {NoRR}

\* A handler asks the zones in order and has all their answers; a cache holds
\* under a question what elsewhere is heard of it.
AsksInOrder ==
    \A h \in Handlers :
        pc[h] = "static" =>
            ~ errored[h] /\ got[h] = Asked(QuestionOf(msg[h]), next[h])
CacheKnows ==
    \A m \in Messages : cache[Key(m)] \subseteq RemoteRecords(QuestionOf(m))

RInv == IInv /\ AsksInOrder /\ CacheKnows

\* What the local zones answer to the question of h at this moment.
LocalRecords(h) ==
    StaticRecords(QuestionOf(msg[h])) \cup ZoneRecords(QuestionOf(msg[h]), zone)

\* Goes, with errored; then the six steps a handler may take.

Arrives(h, where, records, authoritative, failed) ==
    /\ Goes(h, where, records, authoritative)
    /\ errored' = [errored EXCEPT ![h] = failed]
    /\ zone' = zone

AsksNext(h) ==
    /\ pc[h] = "static"
    /\ Arrives(h, "static", Asked(QuestionOf(msg[h]), next[h] + 1), aa[h], errored[h])
    /\ NextOf(h, "static") = next[h] + 1
EndsLocally(h) ==
    /\ pc[h] = "static"
    /\ \E part \in SUBSET LocalRecords(h), failed \in BOOLEAN :
          /\ ~ failed => part = LocalRecords(h)
          /\ Arrives(h, "build", part, aa[h], failed)
LeavesHome(h) ==
    /\ pc[h] = "static" /\ LocalRecords(h) = {}
    /\ \E where \in {"cache", "upstream"} : Arrives(h, where, {}, aa[h], errored[h])
EndsElsewhere(h) ==
    /\ pc[h] \in {"cache", "upstream"}
    /\ \E part \in SUBSET RemoteRecords(QuestionOf(msg[h])),
          authoritative \in BOOLEAN, failed \in BOOLEAN :
          /\ part # {} => ~ authoritative
          /\ Arrives(h, "build", part, authoritative, failed)
KeepsLooking(h) ==
    /\ pc[h] \in {"cache", "upstream"}
    /\ Arrives(h, "upstream", {}, aa[h], errored[h])
SendsReply(h) ==
    /\ pc[h] = "build"
    /\ Arrives(h, "idle", Once(got[h]), aa[h], errored[h])

ServiceStep(h) ==
    \/ AsksNext(h) \/ EndsLocally(h) \/ LeavesHome(h)
    \/ EndsElsewhere(h) \/ KeepsLooking(h) \/ SendsReply(h)

LEMMA ErroredTyped ==
    ASSUME RInv, NEW h \in Handlers
    PROVE  /\ errored = [errored EXCEPT ![h] = errored[h]]
           /\ errored[h] \in BOOLEAN /\ aa[h] \in BOOLEAN
<1>1. errored \in [Handlers -> BOOLEAN] /\ aa \in [Handlers -> BOOLEAN]
  BY DEF RInv, IInv, TypeOK
<1> QED BY <1>1, Zenon

\* In a handler that asks the zones nothing failed, and its builder is still
\* authoritative.
LEMMA AtHome ==
    ASSUME RInv, NEW h \in Handlers, pc[h] = "static"
    PROVE  /\ errored[h] = FALSE /\ aa[h] = TRUE
           /\ got[h] = Asked(QuestionOf(msg[h]), next[h])
           /\ next[h] \in Nat /\ next[h] >= 1
<1>1. /\ errored[h] \in BOOLEAN /\ aa[h] \in BOOLEAN
  BY ErroredTyped
<1>2. ~ errored[h] /\ got[h] = Asked(QuestionOf(msg[h]), next[h]) /\ aa[h]
  BY DEF RInv, IInv, NothingYet, AsksInOrder
<1>3. next[h] \in 1..(Len(Configs) + UpstreamCount + 1)
  BY DEF RInv, IInv, TypeOK
<1> QED BY <1>1, <1>2, <1>3

LEMMA ZonesInOrder == DOMAIN Zones = 1..Len(Configs) /\ Len(Configs) \in Nat
BY CountAssumption DEF Zones

\* One more zone adds its answers; after the last one nothing is missing.
LEMMA AskedNext ==
    ASSUME NEW q, NEW n \in DOMAIN Zones
    PROVE  Asked(q, n + 1) = Asked(q, n) \cup ({r.rr : r \in Matches(Zones[n], q)} \ {NoRR})
<1>1. \A j \in DOMAIN Zones : j < n + 1 <=> (j < n \/ j = n)
  BY ZonesInOrder
<1> QED BY <1>1 DEF Asked

LEMMA AskedSome ==
    ASSUME NEW q, NEW n
    PROVE  Asked(q, n) \subseteq StaticRecords(q)
BY DEF Asked, StaticRecords

LEMMA AskedAll ==
    ASSUME NEW q, NEW n \in Nat, n >= 1, n \notin DOMAIN Zones
    PROVE  Asked(q, n) = StaticRecords(q)
<1>1. \A j \in DOMAIN Zones : j < n
  BY ZonesInOrder
<1> QED BY <1>1 DEF Asked, StaticRecords

LEMMA SameZoneRecords ==
    ASSUME NEW m, NEW z
    PROVE  ZoneRecords(QuestionOf(m), z) = ZoneRecords(m, z)
BY DEF ZoneRecords, QuestionOf

LEMMA AskStaticServes ==
    ASSUME RInv, NEW h \in Handlers, AskStatic(h)
    PROVE  AsksNext(h) \/ EndsLocally(h)
<1> DEFINE q       == QuestionOf(msg[h])
           found   == Matches(Zones[next[h]], q)
           records == {r.rr : r \in found} \ {NoRR}
<1>1. /\ pc[h] = "static" /\ next[h] \in DOMAIN Zones
      /\ UNCHANGED <<zone, cacheKind, cache>>
  BY DEF AskStatic
<1>2. /\ errored[h] = FALSE /\ aa[h] = TRUE /\ got[h] = Asked(q, next[h])
  BY <1>1, AtHome
<1>3. got[h] \cup records = Asked(q, next[h] + 1)
  BY <1>1, <1>2, AskedNext
<1>4. CASE \E r \in found : r.rr = NoRR
  <2>1. PICK part \in SUBSET records : Fails(h, got[h] \cup part, aa[h])
    BY <1>4 DEF AskStatic
  <2>2. got[h] \cup part \in SUBSET LocalRecords(h)
    <3>1. Asked(q, next[h] + 1) \subseteq StaticRecords(q)
      BY AskedSome
    <3> QED BY <1>3, <2>1, <3>1 DEF LocalRecords
  <2>3. Arrives(h, "build", got[h] \cup part, aa[h], TRUE)
    BY <1>1, <1>2, <2>1 DEF Arrives, Fails, FailsCounting
  <2> QED BY <1>1, <2>2, <2>3 DEF EndsLocally
<1>5. CASE ~ \E r \in found : r.rr = NoRR
  <2>1. Goes(h, "static", got[h] \cup records, aa[h]) /\ errored' = errored
    BY <1>5 DEF AskStatic
  <2>2. errored' = [errored EXCEPT ![h] = errored[h]]
    BY <2>1, ErroredTyped
  <2>3. Arrives(h, "static", Asked(q, next[h] + 1), aa[h], errored[h])
    <3> HIDE DEF q, records
    <3> QED BY <1>1, <1>3, <2>1, <2>2 DEF Arrives
  <2> QED BY <1>1, <2>3 DEF AsksNext, NextOf
<1> QED BY <1>4, <1>5

LEMMA AskDynamicServes ==
    ASSUME RInv, NEW h \in Handlers, AskDynamic(h)
    PROVE  EndsLocally(h) \/ LeavesHome(h)
<1> DEFINE heard   == ZoneRecords(msg[h], zone)
           records == got[h] \cup heard
           where   == IF ~ AsksElsewhere(h, records) THEN "build"
                      ELSE IF cacheKind = "none" THEN "upstream" ELSE "cache"
<1>1. /\ pc[h] = "static" /\ next[h] \notin DOMAIN Zones
      /\ UNCHANGED <<zone, cacheKind, cache>>
  BY DEF AskDynamic
<1>2. /\ errored[h] = FALSE /\ aa[h] = TRUE
      /\ got[h] = Asked(QuestionOf(msg[h]), next[h])
      /\ next[h] \in Nat /\ next[h] >= 1
  BY <1>1, AtHome
<1>3. records = LocalRecords(h)
  BY <1>1, <1>2, AskedAll, SameZoneRecords DEF LocalRecords
<1>4. ASSUME NEW part \in SUBSET heard, Fails(h, got[h] \cup part, aa[h])
      PROVE  EndsLocally(h)
  <2>1. Arrives(h, "build", got[h] \cup part, aa[h], TRUE)
    BY <1>1, <1>2, <1>4 DEF Arrives, Fails, FailsCounting
  <2>2. got[h] \cup part \in SUBSET LocalRecords(h)
    BY <1>3
  <2> QED BY <1>1, <2>1, <2>2 DEF EndsLocally
<1>5. CASE Goes(h, where, records, aa[h]) /\ UNCHANGED <<errored, count>>
  <2> HIDE DEF records
  <2>1. Arrives(h, where, records, aa[h], errored[h])
    <3>1. errored' = [errored EXCEPT ![h] = errored[h]]
      BY <1>5, ErroredTyped
    <3> QED BY <1>1, <1>2, <1>5, <3>1 DEF Arrives
  <2>2. CASE AsksElsewhere(h, records)
    <3>1. records = {} /\ where \in {"cache", "upstream"}
      BY <2>2 DEF AsksElsewhere
    <3> HIDE DEF where
    <3> QED BY <1>1, <1>3, <2>1, <3>1 DEF LeavesHome
  <2>3. CASE ~ AsksElsewhere(h, records)
    <3>1. where = "build"
      BY <2>3
    <3> HIDE DEF where
    <3> QED BY <1>1, <1>3, <2>1, <3>1, ErroredTyped DEF EndsLocally
  <2> QED BY <2>2, <2>3
<1> QED BY <1>4, <1>5 DEF AskDynamic

\* What an upstream server sends is heard from elsewhere.
LEMMA HeardIsRemote ==
    ASSUME NEW m, NEW answer \in Answers(Key(m)), NEW S \in SUBSET SupportedPrefix(answer)
    PROVE  {Relayed(answer[i]) : i \in S} \subseteq RemoteRecords(QuestionOf(m))
<1>1. {Relayed(answer[i]) : i \in S} \subseteq Heard(Key(m))
  BY DEF Heard
<1> QED BY <1>1 DEF RemoteRecords, QuestionOf, Key

LEMMA CacheServes ==
    ASSUME RInv, NEW h \in Handlers, CacheHit(h) \/ CacheMiss(h) \/ CacheFails(h)
    PROVE  EndsElsewhere(h) \/ KeepsLooking(h)
<1> DEFINE remote == RemoteRecords(QuestionOf(msg[h]))
<1>1. /\ pc[h] \in {"cache", "upstream"} /\ zone' = zone
      /\ cache[Key(msg[h])] \subseteq remote
  BY DEF CacheHit, CacheMiss, CacheFails, RInv, CacheKnows, IInv, TypeOK
<1>2. /\ errored = [errored EXCEPT ![h] = errored[h]]
      /\ errored[h] \in BOOLEAN /\ aa[h] \in BOOLEAN
  BY ErroredTyped
<1> HIDE DEF remote
<1>3. CASE CacheHit(h)
  <2>1. PICK records \in SUBSET cache[Key(msg[h])] :
            Arrives(h, "build", records, CachedAuthority(records), errored[h])
    BY <1>1, <1>2, <1>3 DEF CacheHit, Arrives
  <2>2. /\ records \in SUBSET remote /\ CachedAuthority(records) \in BOOLEAN
        /\ records # {} => ~ CachedAuthority(records)
    BY <1>1 DEF CachedAuthority
  <2> QED BY <1>1, <1>2, <2>1, <2>2 DEF EndsElsewhere, remote
<1>4. CASE CacheMiss(h)
  BY <1>1, <1>2, <1>4 DEF CacheMiss, KeepsLooking, Arrives
<1>5. CASE Fails(h, {}, aa[h])
  <2>1. Arrives(h, "build", {}, aa[h], TRUE)
    BY <1>1, <1>5 DEF Arrives, Fails, FailsCounting
  <2> QED BY <1>1, <1>2, <2>1 DEF EndsElsewhere, remote
<1>6. ASSUME NEW part \in SUBSET cache[Key(msg[h])],
             FailsCounting(h, part, CachedAuthority(part), {HitCounter})
      PROVE  EndsElsewhere(h)
  <2>1. Arrives(h, "build", part, CachedAuthority(part), TRUE)
    BY <1>1, <1>6 DEF Arrives, FailsCounting
  <2>2. /\ part \in SUBSET remote /\ CachedAuthority(part) \in BOOLEAN
        /\ part # {} => ~ CachedAuthority(part)
    BY <1>1 DEF CachedAuthority
  <2> QED BY <1>1, <2>1, <2>2 DEF EndsElsewhere, remote
<1> QED BY <1>3, <1>4, <1>5, <1>6 DEF CacheFails

LEMMA UpstreamServes ==
    ASSUME RInv, NEW h \in Handlers,
           NotForwarded(h) \/ UpstreamSilent(h) \/ UpstreamAnswers(h) \/ UpstreamFails(h)
    PROVE  EndsElsewhere(h) \/ KeepsLooking(h)
<1> DEFINE remote == RemoteRecords(QuestionOf(msg[h]))
<1>1. pc[h] \in {"cache", "upstream"} /\ zone' = zone /\ msg[h] \in Messages
  BY DEF NotForwarded, UpstreamSilent, UpstreamAnswers, UpstreamFails, RInv, IInv, TypeOK
<1>2. /\ errored = [errored EXCEPT ![h] = errored[h]]
      /\ errored[h] \in BOOLEAN /\ aa[h] \in BOOLEAN
  BY ErroredTyped
<1> HIDE DEF remote
<1>3. ASSUME NEW part \in SUBSET remote, NEW flag \in BOOLEAN, part # {} => ~ flag,
             \/ Fails(h, part, flag)
             \/ Goes(h, "build", part, flag) /\ errored' = errored
      PROVE  EndsElsewhere(h)
  <2>1. \E failed \in BOOLEAN : Arrives(h, "build", part, flag, failed)
    BY <1>1, <1>2, <1>3 DEF Arrives, Fails, FailsCounting
  <2> QED BY <1>1, <1>3, <2>1 DEF EndsElsewhere, remote
<1>4. CASE NotForwarded(h)
  BY <1>2, <1>3, <1>4 DEF NotForwarded
<1>5. CASE UpstreamSilent(h)
  <2>1. CASE Goes(h, "upstream", {}, aa[h])
    BY <1>1, <1>2, <1>5, <2>1 DEF UpstreamSilent, KeepsLooking, Arrives
  <2>2. CASE Goes(h, "build", {}, aa[h])
    BY <1>2, <1>3, <1>5, <2>2 DEF UpstreamSilent
  <2> QED BY <1>5, <2>1, <2>2 DEF UpstreamSilent
<1>6. CASE UpstreamAnswers(h)
  <2>1. PICK answer \in Answers(Key(msg[h])) :
           LET known   == SupportedPrefix(answer)
               records == {Relayed(answer[i]) : i \in known}
               failed  == known # DOMAIN answer
           IN  /\ IF failed THEN Fails(h, records, Authoritative(records))
                  ELSE /\ Goes(h, "build", records, Authoritative(records))
                       /\ UNCHANGED <<errored, count>>
               /\ cache' = Filled(msg[h], records, failed)
    BY <1>6 DEF UpstreamAnswers
  <2> DEFINE records == {Relayed(answer[i]) : i \in SupportedPrefix(answer)}
  <2>2. records \in SUBSET remote
    BY HeardIsRemote DEF remote
  <2>3. \/ Fails(h, records, Authoritative(records))
        \/ Goes(h, "build", records, Authoritative(records)) /\ errored' = errored
    BY <2>1
  <2>4. Authoritative(records) \in BOOLEAN /\ (records # {} => ~ Authoritative(records))
    BY DEF Authoritative
  <2> HIDE DEF records
  <2> QED BY <1>3, <2>2, <2>3, <2>4
<1>7. CASE Fails(h, {}, aa[h])
  BY <1>2, <1>3, <1>7
<1>8. ASSUME NEW answer \in Answers(Key(msg[h])), NEW flag \in BOOLEAN,
             NEW n \in {0} \cup SupportedPrefix(answer), n > 0 => ~ flag,
             Fails(h, {Relayed(answer[i]) : i \in 1..n}, flag)
      PROVE  EndsElsewhere(h)
  <2> DEFINE records == {Relayed(answer[i]) : i \in 1..n}
  <2>1. 1..n \in SUBSET SupportedPrefix(answer)
    <3>1. CASE n \in SupportedPrefix(answer)
      BY <1>1, <3>1, PrefixIsClosed
    <3>2. CASE n = 0
      BY <3>2
    <3> QED BY <3>1, <3>2
  <2>2. records \in SUBSET remote
    BY <2>1, HeardIsRemote DEF remote
  <2>3. n = 0 => records = {}
    OBVIOUS
  <2>4. n = 0 \/ n > 0
    <3>1. SupportedPrefix(answer) \subseteq Nat \ {0}
      BY <1>1, AnswerAssumption DEF SupportedPrefix, Key
    <3> QED BY <3>1
  <2>5. Fails(h, records, flag)
    BY <1>8
  <2> HIDE DEF records
  <2> QED BY <1>3, <1>8, <2>2, <2>3, <2>4, <2>5
<1> QED BY <1>4, <1>5, <1>6, <1>7, <1>8 DEF UpstreamFails

\* Every step of a handler is one of six the name service knows.
LEMMA ServeServes ==
    ASSUME RInv, NEW h \in Handlers, Serve(h)
    PROVE  ServiceStep(h)
<1>1. CASE Build(h)
  BY <1>1, ErroredTyped DEF Build, SendsReply, Arrives, ServiceStep
<1>2. CASE ~ Build(h)
  BY <1>2, AskStaticServes, AskDynamicServes, CacheServes, UpstreamServes
     DEF Serve, ServiceStep
<1> QED BY <1>1, <1>2

-----------------------------------------------------------------------------
\* The invariant of the refinement.

\* A step of one handler leaves the others alone.
LEMMA OthersStay ==
    ASSUME IInv, NEW h \in Handlers, NEW where, NEW records, NEW authoritative,
           NEW failed, Arrives(h, where, records, authoritative, failed)
    PROVE  /\ pc'[h] = where /\ got'[h] = records /\ aa'[h] = authoritative
           /\ errored'[h] = failed /\ next'[h] = NextOf(h, where) /\ msg' = msg
           /\ \A g \in Handlers \ {h} :
                 /\ pc'[g] = pc[g] /\ got'[g] = got[g] /\ aa'[g] = aa[g]
                 /\ errored'[g] = errored[g] /\ next'[g] = next[g]
<1> USE DEF Arrives, Goes
<1>1. \A g \in Handlers : pc'[g] = IF g = h THEN where ELSE pc[g]
  BY DEF IInv, TypeOK
<1>2. \A g \in Handlers : got'[g] = IF g = h THEN records ELSE got[g]
  BY DEF IInv, TypeOK
<1>3. \A g \in Handlers : aa'[g] = IF g = h THEN authoritative ELSE aa[g]
  <2>1. DOMAIN aa = Handlers /\ aa' = [aa EXCEPT ![h] = authoritative]
    BY DEF IInv, TypeOK
  <2> QED BY <2>1, Zenon
<1>4. \A g \in Handlers : errored'[g] = IF g = h THEN failed ELSE errored[g]
  <2>1. DOMAIN errored = Handlers /\ errored' = [errored EXCEPT ![h] = failed]
    BY DEF IInv, TypeOK
  <2> QED BY <2>1, Zenon
<1>5. \A g \in Handlers : next'[g] = IF g = h THEN NextOf(h, where) ELSE next[g]
  BY DEF IInv, TypeOK
<1> QED BY <1>1, <1>2, <1>3, <1>4, <1>5, Zenon

LEMMA ServeInOrder ==
    ASSUME RInv, NEW h \in Handlers, ServiceStep(h)
    PROVE  AsksInOrder'
<1> SUFFICES ASSUME NEW g \in Handlers, pc'[g] = "static"
             PROVE  ~ errored'[g] /\ got'[g] = Asked(QuestionOf(msg'[g]), next'[g])
  BY DEF AsksInOrder, Asked, Zones
<1>1. CASE AsksNext(h) /\ g = h
  <2>1. /\ Arrives(h, "static", Asked(QuestionOf(msg[h]), next[h] + 1), aa[h], errored[h])
        /\ NextOf(h, "static") = next[h] + 1
    BY <1>1 DEF AsksNext
  <2>2. /\ got'[h] = Asked(QuestionOf(msg[h]), next[h] + 1) /\ errored'[h] = errored[h]
        /\ next'[h] = NextOf(h, "static") /\ msg' = msg
    BY <2>1, OthersStay DEF RInv
  <2>3. errored[h] = FALSE
    BY <1>1, AtHome DEF AsksNext
  <2> QED BY <1>1, <2>1, <2>2, <2>3
<1>2. ASSUME NEW where, NEW records, NEW authoritative, NEW failed,
             Arrives(h, where, records, authoritative, failed), where # "static" \/ g # h
      PROVE  ~ errored'[g] /\ got'[g] = Asked(QuestionOf(msg'[g]), next'[g])
  <2>1. g # h
    BY <1>2, OthersStay DEF RInv
  <2>2. /\ pc'[g] = pc[g] /\ got'[g] = got[g] /\ errored'[g] = errored[g]
        /\ next'[g] = next[g] /\ msg' = msg
    BY <1>2, <2>1, OthersStay DEF RInv
  <2> QED BY <2>2 DEF RInv, AsksInOrder
<1>3. CASE AsksNext(h) /\ g # h
  BY <1>2, <1>3 DEF AsksNext
<1>4. CASE EndsLocally(h)
  BY <1>2, <1>4 DEF EndsLocally
<1>5. CASE LeavesHome(h)
  BY <1>2, <1>5 DEF LeavesHome
<1>6. CASE EndsElsewhere(h)
  BY <1>2, <1>6 DEF EndsElsewhere
<1>7. CASE KeepsLooking(h)
  BY <1>2, <1>7 DEF KeepsLooking
<1>8. CASE SendsReply(h)
  BY <1>2, <1>8 DEF SendsReply
<1> QED BY <1>1, <1>3, <1>4, <1>5, <1>6, <1>7, <1>8 DEF ServiceStep

\* The local cache files every record under its own name and type, Redis the
\* answer under its question: what is found under a question is an answer to it.
LEMMA FilledKnows ==
    ASSUME RInv, NEW m \in Messages, NEW records \in SUBSET ForeignRecords,
           records \subseteq RemoteRecords(QuestionOf(m)), NEW failed \in BOOLEAN,
           NEW n \in Messages
    PROVE  Filled(m, records, failed)[Key(n)] \subseteq RemoteRecords(QuestionOf(n))
<1>1. DOMAIN cache = Questions /\ Key(n) \in Questions /\ Key(m) \in Questions
      /\ cache[Key(n)] \subseteq RemoteRecords(QuestionOf(n))
  BY DEF RInv, IInv, TypeOK, CacheKnows, Questions, Key
<1>2. CASE cacheKind = "local"
  <2>1. Filled(m, records, failed)[Key(n)]
          = cache[Key(n)] \cup {r \in Lasting(records) : <<r.name, r.type>> = Key(n)}
    BY <1>1, <1>2 DEF Filled
  <2>2. \A r \in Lasting(records) :
           <<r.name, r.type>> = Key(n) => r \in RemoteRecords(QuestionOf(n))
    BY DEF Lasting, RemoteRecords, QuestionOf, Key
  <2> QED BY <1>1, <2>1, <2>2
<1>3. CASE cacheKind # "local"
  <2>1. Filled(m, records, failed) = [cache EXCEPT ![Key(m)] = cache[Key(m)] \cup records]
        \/ Filled(m, records, failed) = cache
    BY <1>3 DEF Filled
  <2>2. CASE Key(n) = Key(m)
    <3>1. RemoteRecords(QuestionOf(n)) = RemoteRecords(QuestionOf(m))
      BY <2>2 DEF RemoteRecords, QuestionOf, Key
    <3> QED BY <1>1, <2>1, <2>2, <3>1
  <2>3. CASE Key(n) # Key(m)
    BY <1>1, <2>1, <2>3
  <2> QED BY <2>2, <2>3
<1> QED BY <1>2, <1>3

LEMMA CacheStaysKnowing ==
    ASSUME RInv, NEW h \in Handlers, Serve(h)
    PROVE  CacheKnows'
<1> SUFFICES ASSUME NEW n \in Messages
             PROVE  cache'[Key(n)] \subseteq RemoteRecords(QuestionOf(n))
  BY DEF CacheKnows, RemoteRecords, ForeignRecords, Heard, SupportedPrefix, Questions,
         Key, QuestionOf
<1>1. CASE cache' = cache
  BY <1>1 DEF RInv, CacheKnows
<1>2. CASE UpstreamAnswers(h)
  <2>1. PICK answer \in Answers(Key(msg[h])) :
           LET known   == SupportedPrefix(answer)
               records == {Relayed(answer[i]) : i \in known}
               failed  == known # DOMAIN answer
           IN  cache' = Filled(msg[h], records, failed)
    BY <1>2 DEF UpstreamAnswers
  <2> DEFINE records == {Relayed(answer[i]) : i \in SupportedPrefix(answer)}
             failed  == SupportedPrefix(answer) # DOMAIN answer
  <2>2. msg[h] \in Messages
    BY DEF RInv, IInv, TypeOK
  <2>3. records \in SUBSET ForeignRecords
    BY <2>2, HeardIsForeign
  <2>4. records \subseteq RemoteRecords(QuestionOf(msg[h]))
    BY HeardIsRemote
  <2>5. cache' = Filled(msg[h], records, failed) /\ failed \in BOOLEAN
    BY <2>1
  <2> HIDE DEF records, failed
  <2> QED BY <2>2, <2>3, <2>4, <2>5, FilledKnows
<1>3. CASE ~ UpstreamAnswers(h)
  <2>1. cache' = cache
    BY <1>3 DEF Serve, AskStatic, AskDynamic, CacheHit, CacheMiss, CacheFails,
                NotForwarded, UpstreamSilent, UpstreamFails, Build
  <2> QED BY <1>1, <2>1
<1> QED BY <1>2, <1>3

LEMMA NothingAsked == ASSUME NEW q PROVE Asked(q, 1) = {}
<1>1. \A j \in DOMAIN Zones : ~ (j < 1)
  BY ZonesInOrder
<1> QED BY <1>1 DEF Asked

\* A new message starts with an empty builder.
LEMMA ReceiveChanges ==
    ASSUME IInv, NEW h \in Handlers, NEW m \in Messages, Receive(h, m)
    PROVE  /\ pc[h] = "idle" /\ pc'[h] \in {"static", "build"} /\ got'[h] = {}
           /\ aa'[h] = TRUE /\ errored'[h] = FALSE /\ next'[h] = 1 /\ msg'[h] = m
           /\ cache' = cache /\ zone' = zone
           /\ \A g \in Handlers \ {h} :
                 /\ pc'[g] = pc[g] /\ got'[g] = got[g] /\ aa'[g] = aa[g] /\ msg'[g] = msg[g]
                 /\ errored'[g] = errored[g] /\ next'[g] = next[g]
<1> USE DEF Receive
<1>1. PICK where \in {"static", "build"} : pc' = [pc EXCEPT ![h] = where]
  OBVIOUS
<1>2. \A g \in Handlers : pc'[g] = IF g = h THEN where ELSE pc[g]
  BY <1>1 DEF IInv, TypeOK
<1>3. \A g \in Handlers : got'[g] = IF g = h THEN {} ELSE got[g]
  BY DEF IInv, TypeOK
<1>4. \A g \in Handlers : aa'[g] = IF g = h THEN TRUE ELSE aa[g]
  <2>1. DOMAIN aa = Handlers /\ aa' = [aa EXCEPT ![h] = TRUE]
    BY DEF IInv, TypeOK
  <2> QED BY <2>1, Zenon
<1>5. \A g \in Handlers : errored'[g] = IF g = h THEN FALSE ELSE errored[g]
  <2>1. DOMAIN errored = Handlers /\ errored' = [errored EXCEPT ![h] = FALSE]
    BY DEF IInv, TypeOK
  <2> QED BY <2>1, Zenon
<1>6. \A g \in Handlers : next'[g] = IF g = h THEN 1 ELSE next[g]
  BY DEF IInv, TypeOK
<1>7. \A g \in Handlers : msg'[g] = IF g = h THEN m ELSE msg[g]
  BY DEF IInv, TypeOK
<1>8. pc[h] = "idle" /\ cache' = cache /\ zone' = zone
  OBVIOUS
<1> HIDE DEF Receive
<1>9. /\ pc'[h] = where /\ got'[h] = {} /\ aa'[h] = TRUE /\ errored'[h] = FALSE
      /\ next'[h] = 1 /\ msg'[h] = m
  BY <1>2, <1>3, <1>4, <1>5, <1>6, <1>7, Zenon
<1>10. \A g \in Handlers \ {h} :
          /\ pc'[g] = pc[g] /\ got'[g] = got[g] /\ aa'[g] = aa[g] /\ msg'[g] = msg[g]
          /\ errored'[g] = errored[g] /\ next'[g] = next[g]
  BY <1>2, <1>3, <1>4, <1>5, <1>6, <1>7, Zenon
<1> QED BY <1>1, <1>8, <1>9, <1>10

LEMMA RNextKeeps == RInv /\ [Next]_chainVars => RInv'
<1> SUFFICES ASSUME RInv, [Next]_chainVars PROVE RInv'
  OBVIOUS
<1>1. IInv'
  BY NextKeeps DEF RInv
<1>2. ASSUME NEW h \in Handlers, Serve(h) PROVE AsksInOrder' /\ CacheKnows'
  BY <1>2, ServeServes, ServeInOrder, CacheStaysKnowing
<1>3. ASSUME NEW h \in Handlers, NEW m \in Messages, Receive(h, m)
      PROVE  AsksInOrder' /\ CacheKnows'
  <2>1. AsksInOrder'
    <3> SUFFICES ASSUME NEW g \in Handlers, pc'[g] = "static"
                 PROVE  ~ errored'[g] /\ got'[g] = Asked(QuestionOf(msg'[g]), next'[g])
      BY DEF AsksInOrder, Asked, Zones
    <3>1. CASE g = h
      BY <1>3, <3>1, ReceiveChanges, NothingAsked DEF RInv
    <3>2. CASE g # h
      BY <1>3, <3>2, ReceiveChanges, ZenonT(30) DEF RInv, AsksInOrder
    <3> QED BY <3>1, <3>2
  <2>2. CacheKnows'
    BY <1>3, ReceiveChanges
       DEF RInv, CacheKnows, RemoteRecords, ForeignRecords, Heard, SupportedPrefix,
           Questions, Key, QuestionOf
  <2> QED BY <2>1, <2>2
<1>4. CASE ZoneChanges \/ (\E k \in Questions : Forget(k)) \/ UNCHANGED chainVars
  <2>1. UNCHANGED <<pc, msg, next, got, errored>>
    BY <1>4 DEF ZoneChanges, Forget, chainVars, handlerVars
  <2>2. AsksInOrder'
    BY <2>1 DEF RInv, AsksInOrder, Asked, Zones
  <2>3. \A m \in Messages : cache'[Key(m)] \subseteq cache[Key(m)]
    BY <1>4 DEF ZoneChanges, Forget, chainVars, RInv, IInv, TypeOK, Questions, Key
  <2>4. CacheKnows'
    BY <2>3 DEF RInv, CacheKnows, RemoteRecords, ForeignRecords, Heard, SupportedPrefix,
                Questions, Key, QuestionOf
  <2> QED BY <1>1, <2>2, <2>4 DEF RInv
<1> QED BY <1>1, <1>2, <1>3, <1>4 DEF RInv, Next, ChainNext

LEMMA RInitHolds == Init => RInv
<1> SUFFICES ASSUME Init PROVE AsksInOrder /\ CacheKnows
  BY InitHolds DEF RInv
<1> QED BY DEF Init, AsksInOrder, CacheKnows, Questions, Key

-----------------------------------------------------------------------------
\* Every step is a step of the name service, or none.

StateAt(place) ==
    IF place = "static" THEN "asked" ELSE IF place = "build" THEN "answered"
    ELSE IF place \in {"cache", "upstream"} THEN "elsewhere" ELSE "idle"

Entry(h) ==
    [state |-> StateOf(h), question |-> QuestionOf(msg[h]),
     answers |-> IF pc[h] = "static" THEN {} ELSE got[h],
     aa |-> aa[h], failed |-> errored[h]]
callBar == [h \in Handlers |-> Entry(h)]

LEMMA StateNow == ASSUME NEW h \in Handlers PROVE StateOf(h) = StateAt(pc[h])
BY DEF StateOf, StateAt

LEMMA StateThen == ASSUME NEW h \in Handlers PROVE StateOf(h)' = StateAt(pc'[h])
BY DEF StateOf, StateAt

\* The fields of the call of a handler, before and after a step.
LEMMA EntryNow ==
    ASSUME NEW h \in Handlers
    PROVE  /\ callBar[h].state = StateAt(pc[h])
           /\ callBar[h].question = QuestionOf(msg[h])
           /\ callBar[h].answers = IF pc[h] = "static" THEN {} ELSE got[h]
           /\ callBar[h].aa = aa[h] /\ callBar[h].failed = errored[h]
BY StateNow DEF callBar, Entry

LEMMA EntryThen ==
    ASSUME NEW h \in Handlers
    PROVE  Entry(h)' = [state |-> StateAt(pc'[h]), question |-> QuestionOf(msg'[h]),
                        answers |-> IF pc'[h] = "static" THEN {} ELSE got'[h],
                        aa |-> aa'[h], failed |-> errored'[h]]
BY StateThen DEF Entry, QuestionOf

\* A step of one handler changes its call only.
LEMMA OneCallChanges ==
    ASSUME NEW h \in Handlers, NEW entry, Entry(h)' = entry,
           \A g \in Handlers \ {h} :
              /\ pc'[g] = pc[g] /\ got'[g] = got[g] /\ aa'[g] = aa[g]
              /\ msg'[g] = msg[g] /\ errored'[g] = errored[g]
    PROVE  callBar' = [callBar EXCEPT ![h] = entry]
<1>1. ASSUME NEW g \in Handlers, g # h PROVE Entry(g)' = Entry(g)
  BY <1>1, EntryThen, StateNow DEF Entry
<1>2. callBar' = [g \in Handlers |-> Entry(g)']
  BY DEF callBar
<1>3. [callBar EXCEPT ![h] = entry] = [g \in Handlers |-> IF g = h THEN entry ELSE Entry(g)]
  BY DEF callBar
<1>4. ASSUME NEW g \in Handlers
      PROVE  Entry(g)' = IF g = h THEN entry ELSE Entry(g)
  BY <1>1
<1> QED BY <1>2, <1>3, <1>4

LEMMA ArrivesBecomes ==
    ASSUME IInv, NEW h \in Handlers, NEW where, NEW records, NEW authoritative,
           NEW failed, Arrives(h, where, records, authoritative, failed)
    PROVE  /\ callBar' = [callBar EXCEPT ![h] =
                 [state |-> StateAt(where), question |-> callBar[h].question,
                  answers |-> IF where = "static" THEN {} ELSE records,
                  aa |-> authoritative, failed |-> failed]]
           /\ zone' = zone
<1> DEFINE entry == [state |-> StateAt(where), question |-> callBar[h].question,
                     answers |-> IF where = "static" THEN {} ELSE records,
                     aa |-> authoritative, failed |-> failed]
<1>1. /\ pc'[h] = where /\ got'[h] = records /\ aa'[h] = authoritative
      /\ errored'[h] = failed /\ msg' = msg
      /\ \A g \in Handlers \ {h} :
            /\ pc'[g] = pc[g] /\ got'[g] = got[g] /\ aa'[g] = aa[g]
            /\ errored'[g] = errored[g]
  BY OthersStay
<1>2. Entry(h)' = entry
  BY <1>1, EntryThen, EntryNow
<1> HIDE DEF entry
<1>3. callBar' = [callBar EXCEPT ![h] = entry]
  BY <1>1, <1>2, OneCallChanges
<1> QED BY <1>3 DEF entry, Arrives

LEMMA StepsServe ==
    ASSUME RInv, NEW h \in Handlers, ServiceStep(h)
    PROVE  [Service!Next]_<<zone, callBar>>
<1>0. IInv /\ aa[h] \in BOOLEAN /\ errored[h] \in BOOLEAN
  BY ErroredTyped DEF RInv
<1>1. CASE AsksNext(h)
  <2> DEFINE records == Asked(QuestionOf(msg[h]), next[h] + 1)
  <2>1. pc[h] = "static" /\ Arrives(h, "static", records, aa[h], errored[h])
    BY <1>1 DEF AsksNext
  <2> HIDE DEF records
  <2>2. /\ callBar' = [callBar EXCEPT ![h] =
              [state |-> StateAt("static"), question |-> callBar[h].question,
               answers |-> {}, aa |-> aa[h], failed |-> errored[h]]]
        /\ zone' = zone
    BY <1>0, <2>1, ArrivesBecomes
  <2>3. callBar[h] = [state |-> StateAt("static"), question |-> callBar[h].question,
                      answers |-> {}, aa |-> aa[h], failed |-> errored[h]]
    BY <2>1, StateNow DEF callBar, Entry
  <2>4. callBar' = callBar
    BY <2>2, <2>3 DEF callBar
  <2> QED BY <2>2, <2>4
<1>2. CASE EndsLocally(h)
  <2>1. PICK part \in SUBSET LocalRecords(h), failed \in BOOLEAN :
           /\ ~ failed => part = LocalRecords(h)
           /\ Arrives(h, "build", part, aa[h], failed)
    BY <1>2 DEF EndsLocally
  <2>2. pc[h] = "static" /\ aa[h] = TRUE
    BY <1>2, AtHome DEF EndsLocally
  <2>3. /\ callBar[h].state = "asked"
        /\ callBar[h].question = QuestionOf(msg[h])
    BY <2>2, EntryNow DEF StateAt
  <2>4. Service!Local(callBar[h].question) = LocalRecords(h)
    BY <2>3 DEF Service!Local, LocalRecords
  <2>5. /\ callBar' = [callBar EXCEPT ![h] =
              [state |-> StateAt("build"), question |-> callBar[h].question,
               answers |-> part, aa |-> aa[h], failed |-> failed]]
        /\ zone' = zone
    BY <1>0, <2>1, ArrivesBecomes
  <2>6. Service!Becomes(h, "answered", part, TRUE, failed)
    BY <2>2, <2>5 DEF Service!Becomes, StateAt, callBar, Entry
  <2>7. Service!AnswerLocally(h)
    BY <2>1, <2>3, <2>4, <2>6 DEF Service!AnswerLocally, callBar, Entry
  <2> QED BY <2>7 DEF Service!Next
<1>3. CASE LeavesHome(h)
  <2>1. PICK where \in {"cache", "upstream"} : Arrives(h, where, {}, aa[h], errored[h])
    BY <1>3 DEF LeavesHome
  <2>2. pc[h] = "static" /\ aa[h] = TRUE /\ errored[h] = FALSE /\ LocalRecords(h) = {}
    BY <1>3, AtHome DEF LeavesHome
  <2>3. callBar[h].state = "asked" /\ callBar[h].question = QuestionOf(msg[h])
    BY <2>2, EntryNow DEF StateAt
  <2>4. Service!Local(callBar[h].question) = {}
    BY <2>2, <2>3 DEF Service!Local, LocalRecords
  <2>5. /\ callBar' = [callBar EXCEPT ![h] =
              [state |-> StateAt(where), question |-> callBar[h].question,
               answers |-> {}, aa |-> aa[h], failed |-> errored[h]]]
        /\ zone' = zone
    BY <1>0, <2>1, ArrivesBecomes
  <2>6. Service!Becomes(h, "elsewhere", {}, TRUE, FALSE)
    BY <2>2, <2>5 DEF Service!Becomes, StateAt, callBar, Entry
  <2>7. Service!LookElsewhere(h)
    BY <2>3, <2>4, <2>6 DEF Service!LookElsewhere, callBar, Entry
  <2> QED BY <2>7 DEF Service!Next
<1>4. CASE EndsElsewhere(h)
  <2>1. PICK part \in SUBSET RemoteRecords(QuestionOf(msg[h])),
             authoritative \in BOOLEAN, failed \in BOOLEAN :
           /\ part # {} => ~ authoritative
           /\ Arrives(h, "build", part, authoritative, failed)
    BY <1>4 DEF EndsElsewhere
  <2>2. /\ callBar[h].state = "elsewhere"
        /\ callBar[h].question = QuestionOf(msg[h])
    BY <1>4, EntryNow DEF StateAt, EndsElsewhere
  <2>3. /\ callBar' = [callBar EXCEPT ![h] =
              [state |-> StateAt("build"), question |-> callBar[h].question,
               answers |-> part, aa |-> authoritative, failed |-> failed]]
        /\ zone' = zone
    BY <1>0, <2>1, ArrivesBecomes
  <2>4. Service!Becomes(h, "answered", part, authoritative, failed)
    BY <2>3 DEF Service!Becomes, StateAt, callBar, Entry
  <2>5. Service!AnswerRemotely(h)
    BY <2>1, <2>2, <2>4 DEF Service!AnswerRemotely, callBar, Entry
  <2> QED BY <2>5 DEF Service!Next
<1>5. CASE KeepsLooking(h)
  <2>1. /\ pc[h] \in {"cache", "upstream"} /\ got[h] = {}
        /\ Arrives(h, "upstream", {}, aa[h], errored[h])
    BY <1>5 DEF KeepsLooking, RInv, IInv, NothingYet
  <2>2. /\ callBar' = [callBar EXCEPT ![h] =
              [state |-> StateAt("upstream"), question |-> callBar[h].question,
               answers |-> {}, aa |-> aa[h], failed |-> errored[h]]]
        /\ zone' = zone
    BY <1>0, <2>1, ArrivesBecomes
  <2>3. callBar[h] = [state |-> StateAt("upstream"), question |-> callBar[h].question,
                      answers |-> {}, aa |-> aa[h], failed |-> errored[h]]
    BY <2>1, StateNow DEF callBar, Entry, StateAt
  <2>4. callBar' = callBar
    BY <2>2, <2>3 DEF callBar
  <2> QED BY <2>2, <2>4
<1>6. CASE SendsReply(h)
  <2> DEFINE reply == Once(got[h])
  <2>1. pc[h] = "build" /\ Arrives(h, "idle", reply, aa[h], errored[h])
    BY <1>6 DEF SendsReply
  <2>2. \A r \in got[h] : IsRR(r)
    BY <1>0, HomeRR, ForeignRR DEF IInv, AuthorityIsHonest
  <2>3. /\ \A r, s \in reply : KeyOf(r) = KeyOf(s) => r = s
        /\ \A a \in got[h] : \E r \in reply : KeyOf(r) = KeyOf(a) /\ r.ttl <= a.ttl
    BY <2>2, OnceIsOnce
  <2>4. reply \in SUBSET got[h]
    BY DEF Once
  <2>5. /\ callBar[h].state = "answered" /\ callBar[h].answers = got[h]
        /\ callBar[h].aa = aa[h] /\ callBar[h].failed = errored[h]
    BY <2>1, EntryNow DEF StateAt
  <2> HIDE DEF reply
  <2>6. /\ callBar' = [callBar EXCEPT ![h] =
              [state |-> StateAt("idle"), question |-> callBar[h].question,
               answers |-> reply, aa |-> aa[h], failed |-> errored[h]]]
        /\ zone' = zone
    BY <1>0, <2>1, ArrivesBecomes
  <2>7. Service!Becomes(h, "idle", reply, callBar[h].aa, callBar[h].failed)
    BY <2>5, <2>6 DEF Service!Becomes, StateAt, callBar, Entry
  <2>8. Service!Reply(h)
    BY <2>3, <2>4, <2>5, <2>7 DEF Service!Reply, callBar, Entry
  <2> QED BY <2>8 DEF Service!Next
<1> QED BY <1>1, <1>2, <1>3, <1>4, <1>5, <1>6 DEF ServiceStep

LEMMA ReceiveServes ==
    ASSUME IInv, NEW h \in Handlers, NEW m \in Messages, Receive(h, m)
    PROVE  Service!Next
<1>1. /\ pc[h] = "idle" /\ pc'[h] \in {"static", "build"} /\ got'[h] = {}
      /\ aa'[h] = TRUE /\ errored'[h] = FALSE /\ msg'[h] = m /\ zone' = zone
      /\ \A g \in Handlers \ {h} :
            /\ pc'[g] = pc[g] /\ got'[g] = got[g] /\ aa'[g] = aa[g]
            /\ msg'[g] = msg[g] /\ errored'[g] = errored[g]
  BY ReceiveChanges
<1>2. Service!Idle(h)
  BY <1>1, EntryNow DEF StateAt, Service!Idle, callBar, Entry
<1> DEFINE entry == [state |-> StateAt(pc'[h]), question |-> QuestionOf(m),
                     answers |-> {}, aa |-> TRUE, failed |-> FALSE]
<1>3. Entry(h)' = entry
  BY <1>1, EntryThen
<1> HIDE DEF entry
<1>4. callBar' = [callBar EXCEPT ![h] = entry]
  BY <1>1, <1>3, OneCallChanges
<1>5. CASE pc'[h] = "static"
  <2>1. Service!Ask(h, QuestionOf(m))
    BY <1>1, <1>2, <1>4, <1>5 DEF entry, StateAt, Service!Ask, callBar, Entry
  <2> QED BY <2>1 DEF Service!Next
<1>6. CASE pc'[h] = "build"
  <2>1. Service!Skip(h, QuestionOf(m))
    BY <1>1, <1>2, <1>4, <1>6 DEF entry, StateAt, Service!Skip, callBar, Entry
  <2> QED BY <2>1 DEF Service!Next
<1> QED BY <1>1, <1>5, <1>6

LEMMA NextServes ==
    RInv /\ [Next]_chainVars => [Service!Next]_<<zone, callBar>>
<1> SUFFICES ASSUME RInv, [Next]_chainVars
             PROVE  [Service!Next]_<<zone, callBar>>
  OBVIOUS
<1>1. ASSUME NEW h \in Handlers, Serve(h)
      PROVE  [Service!Next]_<<zone, callBar>>
  BY <1>1, ServeServes, StepsServe
<1>2. ASSUME NEW h \in Handlers, NEW m \in Messages, Receive(h, m)
      PROVE  Service!Next
  BY <1>2, ReceiveServes DEF RInv
<1>3. CASE ZoneChanges \/ (\E k \in Questions : Forget(k)) \/ UNCHANGED chainVars
  <2>1. UNCHANGED <<pc, msg, got, aa, errored>>
    BY <1>3 DEF ZoneChanges, Forget, chainVars, handlerVars
  <2>2. \A h \in Handlers : Entry(h)' = Entry(h)
    BY <2>1, EntryThen, StateNow DEF Entry
  <2>3. callBar' = callBar
    BY <2>2 DEF callBar
  <2>4. Service!ZoneChanges
    BY <2>3 DEF Service!ZoneChanges, callBar, Entry
  <2> QED BY <2>4 DEF Service!Next
<1> QED BY <1>1, <1>2, <1>3 DEF Next, ChainNext

\* The chain implements the name service: whatever the configuration, the
\* upstream servers, the cache and the number of handlers, a reply is what the
\* local zones had at one moment of the call, or comes from elsewhere and they
\* had nothing at that moment; it holds every record once, with the shortest TTL.
THEOREM ImplementsService == Spec => ServiceSpec
<1>1. Init => RInv
  BY RInitHolds
<1>2. RInv /\ [Next]_chainVars => RInv'
  BY RNextKeeps
<1>3. Init => Service!Init
  <2> SUFFICES ASSUME Init, NEW h \in Handlers PROVE callBar[h].state = "idle"
    BY DEF Service!Init, Service!Idle, callBar, Entry
  <2> QED BY EntryNow DEF Init, StateAt
<1>4. RInv /\ [Next]_chainVars => [Service!Next]_<<zone, callBar>>
  BY NextServes
<1>5. <<zone, callBar>> = Service!serviceVars
  BY DEF Service!serviceVars, callBar, Entry
<1>6. RInv /\ [Next]_chainVars => [Service!Next]_(Service!serviceVars)
  BY <1>4 DEF Service!serviceVars, callBar, Entry
<1> QED BY <1>1, <1>2, <1>3, <1>6, PTL DEF Spec, ServiceSpec, Service!Spec
=============================================================================
