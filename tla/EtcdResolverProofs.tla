------------------------- MODULE EtcdResolverProofs -------------------------
(***************************************************************************)
(* Theorems about EtcdResolver: for any callers, records, batches, faults  *)
(* and bounds first, then for a single caller.                             *)
(***************************************************************************)
EXTENDS EtcdResolver, SequenceTheorems, WellFoundedInduction, TLAPS

\* The parts of TypeOK that a step of a caller changes.
CallTypeOK ==
    call \in [Callers -> [pc : {"idle", "find", "getLast"} \cup Sites,
                          todo : Seq(Commands), key : Keys \cup {NoKey}]]
ResultTypeOK == result \in [Callers -> {"none", "ok", "error", "noSuchRecord"}]

\* A caller about to write has a key and, unless it is in RemoveRecord, a command;
\* the key it puts a record under is the record's own.
CallsOK ==
    \A c \in Callers :
        /\ call[c].pc \in Sites => call[c].key \in Keys
        /\ call[c].pc \in {"getLast", "putLast", "put", "delete"} =>
              call[c].todo # <<>>
        /\ call[c].pc \in {"putLast", "put"} =>
              call[c].key.name = NameOf[Command(c).text]

\* So does a request that is still on its way.
RequestOK(r) ==
    r.pc = "put" => \A v \in r.value : v \in Value /\ NameOf[v.text] = r.key.name
LateOK == \A r \in late : RequestOK(r)

NamedInv == TypeOK /\ CallsOK /\ LateOK /\ KeysNameTheirRecord

-----------------------------------------------------------------------------
\* Lemmas on commands and requests.

\* What a command leaves to do is a sequence of commands.
LEMMA CascadeType ==
    ASSUME NEW m \in Commands
    PROVE  Cascade(m) \in Seq(Commands)
<1> DEFINE p == [m EXCEPT !.text = Reverse[m.text], !.id = NoId, !.kind = "fixed"]
<1>1. CASE m.text \in DOMAIN Reverse
  <2>1. p \in Commands
    BY <1>1, ReverseAssumption DEF Commands, Kinds
  <2> HIDE DEF p
  <2>2. <<p>> \in Seq(Commands)
    BY <2>1
  <2> QED BY <1>1, <2>2 DEF Cascade, p
<1>2. CASE m.text \notin DOMAIN Reverse
  BY <1>2 DEF Cascade
<1> QED BY <1>1, <1>2

LEMMA CommandType ==
    ASSUME TypeOK, NEW c \in Callers, call[c].todo # <<>>
    PROVE  /\ call[c].todo \in Seq(Commands) /\ Command(c) \in Commands
           /\ Remaining(c) \in Seq(Commands)
<1>1. call[c].todo \in Seq(Commands)
  BY DEF TypeOK
<1>2. Command(c) \in Commands /\ Tail(call[c].todo) \in Seq(Commands)
  BY <1>1, HeadTailProperties DEF Command
<1>3. Cascade(Command(c)) \in Seq(Commands)
  BY <1>2, CascadeType
<1> QED BY <1>1, <1>2, <1>3, ConcatProperties DEF Remaining

\* A value that is put is well formed, and holds the record of its command.
LEMMA ValueType ==
    ASSUME now \in Nat, NEW m \in Commands
    PROVE  ValueOf(m) \in Value /\ ValueOf(m).text = m.text
BY DEF ValueOf, Value, Commands, Second

\* The request of a caller about to write.
LEMMA RequestType ==
    ASSUME TypeOK, CallsOK, NEW c \in Callers, call[c].pc \in Sites
    PROVE  /\ RequestOf(c).pc \in Sites /\ RequestOf(c).key \in Keys
           /\ RequestOK(RequestOf(c))
<1>1. RequestOf(c).pc \in Sites /\ RequestOf(c).key \in Keys
  BY DEF RequestOf, CallsOK
<1>2. ASSUME call[c].pc = "put" PROVE RequestOK(RequestOf(c))
  <2>1. Command(c) \in Commands
    BY <1>2, CommandType DEF CallsOK
  <2>2. ValueOf(Command(c)) \in Value /\ ValueOf(Command(c)).text = Command(c).text
    BY <2>1, ValueType DEF TypeOK
  <2>3. call[c].key.name = NameOf[Command(c).text]
    BY <1>2 DEF CallsOK
  <2> QED BY <1>2, <2>2, <2>3 DEF RequestOf, RequestOK
<1> QED BY <1>1, <1>2 DEF RequestOf, RequestOK

\* What etcd does with any request leaves every value under its own name.
LEMMA CarryOutOK ==
    ASSUME TypeOK, KeysNameTheirRecord,
           NEW r, r.pc \in Sites, r.key \in Keys, RequestOK(r), CarryOut(r)
    PROVE  /\ DOMAIN kv' \subseteq Keys /\ \A k \in DOMAIN kv' : kv'[k] \in Value
           /\ lastID' \in 0..MaxId /\ stored' \in [1..MaxId -> SUBSET Texts]
           /\ KeysNameTheirRecord'
<1>1. CASE r.pc = "putLast" /\ lastID' = SavedID(r) /\ UNCHANGED <<kv, stored>>
  BY <1>1, BoundAssumption DEF TypeOK, Keys, SavedID, KeysNameTheirRecord
<1>2. CASE r.pc = "put" /\ UNCHANGED lastID
  <2>1. PICK v \in r.value :
            /\ kv' = [x \in DOMAIN kv \cup {r.key} |-> IF x = r.key THEN v ELSE kv[x]]
            /\ stored' = [stored EXCEPT ![r.key.id] = @ \cup {v.text}]
    BY <1>2 DEF CarryOut
  <2>2. v \in Value /\ NameOf[v.text] = r.key.name
    BY <1>2 DEF RequestOK
  <2>3. stored' \in [1..MaxId -> SUBSET Texts]
    BY <2>1, <2>2 DEF TypeOK, Keys, Value
  <2> QED BY <1>2, <2>1, <2>2, <2>3 DEF TypeOK, KeysNameTheirRecord
<1>3. CASE kv' = Without(r.key) /\ UNCHANGED <<lastID, stored>>
  BY <1>3 DEF Without, TypeOK, KeysNameTheirRecord
<1> QED BY <1>1, <1>2, <1>3 DEF CarryOut

\* A caller that has gone on, with what is left to do, or has returned.
LEMMA CallStep ==
    ASSUME TypeOK, CallsOK, NEW c \in Callers, NEW p, NEW t, NEW k, Goto(c, p, t, k),
           p \in {"idle", "find", "getLast"} \cup Sites, t \in Seq(Commands),
           k \in Keys \cup {NoKey}, p \in Sites => k \in Keys,
           p \in {"getLast", "putLast", "put", "delete"} => t # <<>>,
           p \in {"putLast", "put"} => k.name = NameOf[Head(t).text]
    PROVE  /\ CallsOK' /\ CallTypeOK'
BY DEF Goto, TypeOK, CallTypeOK, CallsOK, Command

LEMMA ReturnStep ==
    ASSUME TypeOK, CallsOK, NEW c \in Callers, NEW r, Return(c, r),
           r \in {"none", "ok", "error", "noSuchRecord"}
    PROVE  /\ CallsOK' /\ CallTypeOK'
           /\ ResultTypeOK'
<1>1. <<>> \in Seq(Commands) /\ "idle" \notin Sites
  BY DEF Sites
<1>2. Goto(c, "idle", <<>>, NoKey) /\ result' = [result EXCEPT ![c] = r]
  BY DEF Return
<1> QED BY <1>1, <1>2, CallStep DEF TypeOK, CallTypeOK, ResultTypeOK

LEMMA ProceedStep ==
    ASSUME TypeOK, CallsOK, NEW c \in Callers, Proceed(c), call[c].todo # <<>>
    PROVE  /\ CallsOK' /\ CallTypeOK'
           /\ UNCHANGED result
<1>1. Goto(c, "find", Remaining(c), NoKey) /\ UNCHANGED result
  BY DEF Proceed
<1>2. Remaining(c) \in Seq(Commands) /\ "find" \notin Sites
  BY CommandType DEF Sites
<1> QED BY <1>1, <1>2, CallStep

-----------------------------------------------------------------------------
\* Whoever calls, whatever times out, gets lost or arrives late: every value is
\* well typed and stored under its own name.
THEOREM TypeCorrect == Spec => []NamedInv
<1>1. Init => NamedInv
  BY BoundAssumption
  DEF Init, NamedInv, TypeOK, CallTypeOK, ResultTypeOK, CallsOK, LateOK, KeysNameTheirRecord, Sites
<1>2. NamedInv /\ [Next]_vars => NamedInv'
  <2> SUFFICES ASSUME NamedInv, [Next]_vars
               PROVE  NamedInv'
    OBVIOUS
  <2>0. TypeOK /\ CallsOK /\ LateOK /\ KeysNameTheirRecord
    BY DEF NamedInv
  <2>1. ASSUME NEW c \in Callers, NEW b \in Batches, SetRecords(c, b)
        PROVE  NamedInv'
    <3>1. Goto(c, "find", b, NoKey) /\ UNCHANGED <<kv, lastID, stored, late, now>>
          /\ b \in Seq(Commands) /\ "find" \notin Sites
      BY <2>1, CommandAssumption DEF SetRecords, Sites
    <3>2. CallsOK' /\ CallTypeOK'
      BY <2>0, <3>1, CallStep
    <3>3. calls' \in 0..MaxCalls /\ ResultTypeOK'
      BY <2>0, <2>1, BoundAssumption DEF SetRecords, Enter, TypeOK, CallTypeOK, ResultTypeOK
    <3> QED BY <2>0, <3>1, <3>2, <3>3
            DEF NamedInv, TypeOK, CallTypeOK, ResultTypeOK, LateOK, RequestOK, KeysNameTheirRecord
  <2>2. ASSUME NEW c \in Callers, NEW id \in 1..MaxId, RemoveRecord(c, id)
        PROVE  NamedInv'
    <3>1. calls' \in 0..MaxCalls /\ UNCHANGED <<kv, lastID, stored, late, now>>
      BY <2>0, <2>2, BoundAssumption DEF RemoveRecord, TypeOK, CallTypeOK, ResultTypeOK
    <3>2. CallsOK' /\ CallTypeOK'
          /\ ResultTypeOK'
      <4>1. ASSUME NEW k \in Listed, Goto(c, "remove", <<>>, k),
                   result' = [result EXCEPT ![c] = "none"]
            PROVE  CallsOK' /\ CallTypeOK'
                   /\ ResultTypeOK'
        <5>1. k \in Keys /\ "remove" \in Sites /\ <<>> \in Seq(Commands)
          BY <2>0 DEF Listed, TypeOK, CallTypeOK, ResultTypeOK, Sites
        <5> QED BY <2>0, <4>1, <5>1, CallStep DEF TypeOK, CallTypeOK, ResultTypeOK
      <4>2. ASSUME NEW r \in {"noSuchRecord", "error"}, Return(c, r)
            PROVE  CallsOK' /\ CallTypeOK'
                   /\ ResultTypeOK'
        BY <2>0, <4>2, ReturnStep
      <4> QED BY <2>2, <4>1, <4>2 DEF RemoveRecord
    <3> QED BY <2>0, <3>1, <3>2 DEF NamedInv, TypeOK, CallTypeOK, ResultTypeOK, LateOK, RequestOK, KeysNameTheirRecord
  <2>3. ASSUME NEW c \in Callers, Done(c) \/ FoundPast(c)
        PROVE  NamedInv'
    <3>1. UNCHANGED <<kv, lastID, stored, late, now, calls>>
          /\ \E r \in {"ok", "error"} : Return(c, r)
      BY <2>3 DEF Done, FoundPast
    <3> QED BY <2>0, <3>1, ReturnStep
            DEF NamedInv, TypeOK, CallTypeOK, ResultTypeOK, LateOK, RequestOK, KeysNameTheirRecord
  <2>4. ASSUME NEW c \in Callers, Found(c)
        PROVE  NamedInv'
    <3> DEFINE m == Command(c)
               p == IF m.op = "set" THEN "put" ELSE "delete"
    <3>1. PICK k \in DOMAIN kv : StopsAt(m, k) /\ ~ IsPast(kv[k])
                                 /\ Goto(c, p, call[c].todo, k)
      BY <2>4 DEF Found
    <3>2. call[c].todo # <<>> /\ call[c].todo \in Seq(Commands) /\ k \in Keys
      BY <2>0, <2>4 DEF Found, Finding, TypeOK, CallTypeOK, ResultTypeOK
    <3>3. k.name = NameOf[m.text]
      BY <2>0, <3>1 DEF StopsAt, Fits, KeysNameTheirRecord
    <3>4. CallsOK' /\ CallTypeOK'
      <4>1. p \in Sites /\ Head(call[c].todo) = m
        BY DEF Sites, Command
      <4> HIDE DEF p, m
      <4> QED BY <2>0, <3>1, <3>2, <3>3, <4>1, CallStep
    <3> QED BY <2>0, <2>4, <3>4
            DEF Found, NamedInv, TypeOK, CallTypeOK, ResultTypeOK, LateOK, RequestOK, KeysNameTheirRecord
  <2>5. ASSUME NEW c \in Callers, NotFound(c)
        PROVE  NamedInv'
    <3>1. call[c].todo # <<>> /\ call[c].todo \in Seq(Commands)
          /\ UNCHANGED <<kv, lastID, stored, late, now, calls>>
      BY <2>0, <2>5 DEF NotFound, Finding, TypeOK, CallTypeOK, ResultTypeOK
    <3>2. "getLast" \notin Sites
      BY DEF Sites
    <3>3. CallsOK' /\ CallTypeOK'
          /\ UNCHANGED result
      <4>1. CASE Goto(c, "getLast", call[c].todo, NoKey) /\ UNCHANGED result
        BY <2>0, <3>1, <3>2, <4>1, CallStep
      <4>2. CASE Proceed(c)
        BY <2>0, <3>1, <4>2, ProceedStep
      <4> QED BY <2>5, <4>1, <4>2 DEF NotFound
    <3> QED BY <2>0, <3>1, <3>3
            DEF NamedInv, TypeOK, CallTypeOK, ResultTypeOK, LateOK, RequestOK, KeysNameTheirRecord
  <2>6. ASSUME NEW c \in Callers, GetLast(c)
        PROVE  NamedInv'
    <3> DEFINE k == [name |-> NameOf[Command(c).text], id |-> Successor(lastID)]
    <3>1. call[c].todo # <<>> /\ call[c].todo \in Seq(Commands)
      BY <2>0, <2>6 DEF GetLast, CallsOK, TypeOK, CallTypeOK, ResultTypeOK
    <3>2. Command(c) \in Commands
      BY <2>0, <3>1, CommandType
    <3>3. k \in Keys /\ k.name = NameOf[Head(call[c].todo).text]
      BY <2>0, <2>6, <3>2, BoundAssumption
      DEF GetLast, TypeOK, CallTypeOK, ResultTypeOK, Keys, Names, Successor, Command, Commands
    <3>4. Goto(c, "putLast", call[c].todo, k) /\ "putLast" \in Sites
          /\ UNCHANGED <<kv, lastID, stored, late, result, now, calls>>
      BY <2>6 DEF GetLast, Sites
    <3> HIDE DEF k
    <3>5. CallsOK' /\ CallTypeOK'
      BY <2>0, <3>1, <3>3, <3>4, CallStep
    <3> QED BY <2>0, <3>4, <3>5
            DEF NamedInv, TypeOK, CallTypeOK, ResultTypeOK, LateOK, RequestOK, KeysNameTheirRecord
  <2>7. ASSUME NEW c \in Callers, Write(c)
        PROVE  NamedInv'
    <3>1. call[c].pc \in Sites /\ CarryOut(RequestOf(c)) /\ UNCHANGED <<late, now, calls>>
      BY <2>7 DEF Write
    <3>2. /\ DOMAIN kv' \subseteq Keys /\ \A k \in DOMAIN kv' : kv'[k] \in Value
          /\ lastID' \in 0..MaxId /\ stored' \in [1..MaxId -> SUBSET Texts]
          /\ KeysNameTheirRecord'
      BY <2>0, <3>1, RequestType, CarryOutOK
    <3>3. CallsOK' /\ CallTypeOK'
          /\ ResultTypeOK'
      <4>1. CASE call[c].pc = "putLast" /\ Goto(c, "put", call[c].todo, call[c].key)
                 /\ UNCHANGED result
        <5>1. /\ call[c].todo # <<>> /\ call[c].todo \in Seq(Commands)
              /\ call[c].key \in Keys /\ "put" \in Sites
              /\ call[c].key.name = NameOf[Head(call[c].todo).text]
          BY <2>0, <3>1, <4>1 DEF CallsOK, TypeOK, CallTypeOK, ResultTypeOK, Command, Sites
        <5> QED BY <2>0, <4>1, <5>1, CallStep DEF TypeOK, CallTypeOK, ResultTypeOK
      <4>2. CASE Return(c, "ok")
        BY <2>0, <4>2, ReturnStep
      <4>3. CASE call[c].pc \in {"put", "delete"} /\ Proceed(c)
        <5>1. call[c].todo # <<>>
          BY <2>0, <4>3 DEF CallsOK
        <5> QED BY <2>0, <4>3, <5>1, ProceedStep DEF TypeOK, CallTypeOK, ResultTypeOK
      <4> QED BY <2>7, <4>1, <4>2, <4>3 DEF Write
    <3> QED BY <2>0, <3>1, <3>2, <3>3 DEF NamedInv, TypeOK, CallTypeOK, ResultTypeOK, LateOK, RequestOK
  <2>8. ASSUME NEW c \in Callers, TimeOut(c)
        PROVE  NamedInv'
    <3>1. CallsOK' /\ CallTypeOK'
          /\ ResultTypeOK'
      BY <2>0, <2>8, ReturnStep DEF TimeOut
    <3>2. CASE UNCHANGED <<kv, lastID, stored, late>>
      BY <2>0, <2>8, <3>1, <3>2
      DEF TimeOut, NamedInv, TypeOK, CallTypeOK, ResultTypeOK, LateOK, RequestOK, KeysNameTheirRecord
    <3>3. CASE call[c].pc \in Sites /\ CarryOut(RequestOf(c)) /\ UNCHANGED late
      <4>1. /\ DOMAIN kv' \subseteq Keys /\ \A k \in DOMAIN kv' : kv'[k] \in Value
            /\ lastID' \in 0..MaxId /\ stored' \in [1..MaxId -> SUBSET Texts]
            /\ KeysNameTheirRecord'
        BY <2>0, <3>3, RequestType, CarryOutOK
      <4> QED BY <2>0, <2>8, <3>1, <3>3, <4>1
              DEF TimeOut, NamedInv, TypeOK, CallTypeOK, ResultTypeOK, LateOK, RequestOK
    <3>4. CASE call[c].pc \in Sites /\ late' = {RequestOf(c)}
               /\ UNCHANGED <<kv, lastID, stored>>
      <4>1. RequestOf(c).pc \in Sites /\ RequestOf(c).key \in Keys /\ RequestOK(RequestOf(c))
        BY <2>0, <3>4, RequestType
      <4> QED BY <2>0, <2>8, <3>1, <3>4, <4>1
              DEF TimeOut, NamedInv, TypeOK, CallTypeOK, ResultTypeOK, LateOK, RequestOK, KeysNameTheirRecord
    <3> QED BY <2>8, <3>2, <3>3, <3>4 DEF TimeOut
  <2>9. ASSUME CarryOutLate PROVE NamedInv'
    <3>1. PICK r \in late : CarryOut(r) /\ late' = late \ {r}
      BY <2>9 DEF CarryOutLate
    <3>2. r.pc \in Sites /\ r.key \in Keys /\ RequestOK(r)
      BY <2>0 DEF TypeOK, CallTypeOK, ResultTypeOK, LateOK
    <3>3. /\ DOMAIN kv' \subseteq Keys /\ \A k \in DOMAIN kv' : kv'[k] \in Value
          /\ lastID' \in 0..MaxId /\ stored' \in [1..MaxId -> SUBSET Texts]
          /\ KeysNameTheirRecord'
      BY <2>0, <3>1, <3>2, CarryOutOK
    <3>4. UNCHANGED <<call, result, now, calls>>
      BY <2>9 DEF CarryOutLate
    <3> QED BY <2>0, <3>1, <3>3, <3>4
            DEF NamedInv, TypeOK, CallTypeOK, ResultTypeOK, CallsOK, Command, LateOK, RequestOK
  <2>10. ASSUME Revoke PROVE NamedInv'
    BY <2>0, <2>10 DEF Revoke, Without, NamedInv, TypeOK, CallTypeOK, ResultTypeOK, CallsOK, Command, LateOK,
                       RequestOK, KeysNameTheirRecord
  <2>11. ASSUME Tick \/ UNCHANGED vars PROVE NamedInv'
    <3>1. UNCHANGED <<kv, lastID, stored, call, late, result, calls>> /\ now' \in Nat
      BY <2>0, <2>11 DEF Tick, vars, TypeOK, CallTypeOK, ResultTypeOK
    <3> QED BY <2>0, <3>1 DEF NamedInv, TypeOK, CallTypeOK, ResultTypeOK, CallsOK, Command, LateOK,
                       RequestOK, KeysNameTheirRecord
  <2> QED BY <2>1, <2>2, <2>3, <2>4, <2>5, <2>6, <2>7, <2>8, <2>9, <2>10, <2>11
          DEF Next, Step
<1> QED BY <1>1, <1>2, PTL DEF Spec

\* The type invariant, whoever calls and whatever fails: calls, results and what is
\* on its way to etcd keep their shape.
THEOREM Typing == Spec => []TypeOK
<1>1. NamedInv => TypeOK
  BY DEF NamedInv
<1> QED BY <1>1, TypeCorrect, PTL

\* A key of etcd is made from the name, the ID and the text of the record stored under
\* it, so that listing a name shows exactly its records.
THEOREM NamesKept == Spec => []KeysNameTheirRecord
<1>1. NamedInv => KeysNameTheirRecord
  BY DEF NamedInv
<1> QED BY <1>1, TypeCorrect, PTL

-----------------------------------------------------------------------------
(***************************************************************************)
(* A single caller: one server, one call at a time, and requests that may  *)
(* be lost but are not carried out late.  Its commands may give IDs.       *)
(***************************************************************************)
Alone ==
    /\ \A c, d \in Callers : c = d
    /\ "late" \notin Faults

\* The commands it may come to work on.
GivenCommands ==
    {m \in Commands : (m.op = "set" /\ m.text \notin GivenTexts) => m.id = NoId}

Absent(x) == \A l \in DOMAIN kv : kv[l].text # x

\* What the caller may rely on when it sends its next request.
Ready(c) ==
    /\ (call[c].pc \in {"getLast", "putLast"} /\ Command(c).text \notin GivenTexts) =>
          Absent(Command(c).text)
    /\ call[c].pc = "putLast" => call[c].key.id = lastID + 1
    /\ call[c].pc = "put" =>
          /\ call[c].key.id <= lastID
          /\ stored[call[c].key.id] \subseteq {Command(c).text}
          /\ Command(c).text \notin GivenTexts =>
                \A l \in DOMAIN kv : kv[l].text = Command(c).text => l = call[c].key
    /\ call[c].pc = "remove" =>
          \E x \in Texts : /\ stored[call[c].key.id] = {x}
                           /\ call[c].key.name = NameOf[x]
CallerOK(c) ==
    /\ call[c].todo \in Seq(GivenCommands)
    /\ call[c].pc # "idle" => result[c] = "none"
    /\ Ready(c)

\* IDs above the counter are unused; the key with an ID holds the record that the
\* ID was given to.
IdsUsed ==
    /\ \A i \in 1..MaxId : i > lastID => stored[i] = {}
    /\ \A k \in DOMAIN kv : k.id <= lastID /\ stored[k.id] = {kv[k].text}

AloneInv ==
    /\ late = {} /\ TextsUnique /\ IdsKeepTheirRecord /\ IdsUsed
    /\ \A c \in Callers : CallerOK(c)

-----------------------------------------------------------------------------
\* A set of numbers has a least one.
LEMMA Least ==
    ASSUME NEW T, T \subseteq Nat, T # {}
    PROVE  \E i \in T : \A j \in T : i <= j
<1>1. PICK i \in T : \A j \in T : ~ (<<j, i>> \in OpToRel(<, Nat))
  BY NatLessThanWellFounded, WFMin
<1>2. ASSUME NEW j \in T PROVE ~ (j < i)
  BY <1>1 DEF OpToRel
<1> QED BY <1>2

\* When the search for a record finds nothing to stop at, there is no such record:
\* the first value of its own name that fits or is past would stop it.
LEMMA NothingFound ==
    ASSUME TypeOK, KeysNameTheirRecord, NEW m \in GivenCommands, m.op = "set", m.text \notin GivenTexts,
           ~ \E k \in DOMAIN kv : StopsAt(m, k)
    PROVE  Absent(m.text)
<1> SUFFICES ASSUME NEW l \in DOMAIN kv, kv[l].text = m.text
             PROVE  FALSE
  BY DEF Absent
<1> DEFINE n == NameOf[m.text]
           T == {i \in 1..MaxId : /\ [name |-> n, id |-> i] \in DOMAIN kv
                                  /\ \/ IsPast(kv[[name |-> n, id |-> i]])
                                     \/ Fits(m, kv[[name |-> n, id |-> i]])}
<1>1. m \in Commands /\ m.id = NoId
  BY DEF GivenCommands
<1>2. n \in Names /\ n \in Scope[n]
  BY <1>1, NameAssumption DEF Names, Commands
<1>3. l.name = n /\ l.id \in 1..MaxId /\ l = [name |-> n, id |-> l.id]
  BY DEF KeysNameTheirRecord, TypeOK, Keys
<1>4. Fits(m, kv[l])
  BY DEF Fits
<1>5. T \subseteq Nat /\ T # {}
  BY <1>3, <1>4, BoundAssumption
<1>6. PICK i \in T : \A j \in T : i <= j
  BY <1>5, Least
<1> DEFINE k == [name |-> n, id |-> i]
<1>7. k \in Scanned(m) /\ (IsPast(kv[k]) \/ Fits(m, kv[k]))
  BY <1>1, <1>2 DEF Scanned
<1>8. ASSUME NEW j \in Scanned(m), Precedes(j, k, n)
      PROVE  ~ IsPast(kv[j]) /\ ~ Fits(m, kv[j])
  <2>1. j.name = n /\ j.id < i /\ j \in DOMAIN kv
    BY <1>8 DEF Precedes, Scanned
  <2>2. j.id \in 1..MaxId /\ j = [name |-> n, id |-> j.id]
    BY <2>1 DEF TypeOK, Keys
  <2>3. j.id \notin T
    BY <1>5, <1>6, <2>1, <2>2, BoundAssumption
  <2> QED BY <2>1, <2>2, <2>3
<1>9. k \in DOMAIN kv /\ StopsAt(m, k)
  BY <1>7, <1>8 DEF StopsAt
<1> QED BY <1>9

\* The caller's own request, carried out, keeps records and IDs apart.
LEMMA OwnRequest ==
    ASSUME TypeOK, CallsOK, KeysNameTheirRecord, AloneInv,
           NEW c \in Callers, call[c].pc \in Sites, CarryOut(RequestOf(c))
    PROVE  TextsUnique' /\ IdsKeepTheirRecord' /\ IdsUsed'
<1> DEFINE key == call[c].key
           x == Command(c).text
<1>1. /\ key \in Keys /\ key.id \in 1..MaxId /\ lastID \in 0..MaxId
      /\ TextsUnique /\ IdsKeepTheirRecord /\ IdsUsed /\ Ready(c)
  BY DEF CallsOK, Keys, AloneInv, CallerOK, TypeOK
<1>2. CASE call[c].pc = "putLast"
  <2>1. lastID' = key.id /\ key.id = lastID + 1 /\ UNCHANGED <<kv, stored>>
    BY <1>1, <1>2 DEF CarryOut, RequestOf, SavedID, Ready
  <2>2. \A k \in DOMAIN kv : k.id \in 1..MaxId
    BY DEF TypeOK, Keys
  <2> QED BY <1>1, <2>1, <2>2, BoundAssumption
          DEF TextsUnique, IdsKeepTheirRecord, IdsUsed
<1>3. CASE call[c].pc = "put"
  <2>1. Command(c) \in Commands
    BY <1>3, CommandType DEF CallsOK
  <2>2. PICK v \in Value : v.text = x /\ RequestOf(c).value = {v}
    BY <1>3, <2>1, ValueType DEF RequestOf, TypeOK
  <2>3. /\ kv' = [y \in DOMAIN kv \cup {key} |-> IF y = key THEN v ELSE kv[y]]
        /\ stored' = [stored EXCEPT ![key.id] = @ \cup {x}]
        /\ UNCHANGED lastID
    BY <1>3, <2>2 DEF CarryOut, RequestOf
  <2>4. /\ key.id <= lastID /\ stored[key.id] \subseteq {x}
        /\ x \notin GivenTexts => \A l \in DOMAIN kv : kv[l].text = x => l = key
    BY <1>1, <1>3 DEF Ready
  <2>9. key.name = NameOf[x]
    BY <1>3 DEF CallsOK
  <2> HIDE DEF key, x
  <2>5. stored'[key.id] = {x} /\ \A i \in 1..MaxId : i # key.id => stored'[i] = stored[i]
    BY <1>1, <2>3, <2>4 DEF TypeOK
  <2>6. TextsUnique'
    BY <1>1, <2>2, <2>3, <2>4 DEF TextsUnique
  <2>7. IdsKeepTheirRecord'
    BY <1>1, <2>5 DEF IdsKeepTheirRecord
  <2>8. IdsUsed'
    <3>1. ASSUME NEW i \in 1..MaxId, i > lastID' PROVE stored'[i] = {}
      BY <1>1, <2>3, <2>4, <2>5, <3>1, BoundAssumption DEF IdsUsed
    <3>2. ASSUME NEW k \in DOMAIN kv' PROVE k.id <= lastID' /\ stored'[k.id] = {kv'[k].text}
      <4>1. CASE k = key
        BY <2>2, <2>3, <2>4, <2>5, <4>1
      <4>2. CASE k # key
        <5>1. k \in DOMAIN kv /\ kv'[k] = kv[k] /\ k.id \in 1..MaxId
          BY <2>3, <3>2, <4>2 DEF TypeOK, Keys
        <5>2. k.id <= lastID /\ stored[k.id] = {kv[k].text}
          BY <1>1, <5>1 DEF IdsUsed
        <5>3. k.id # key.id
          <6>1. ASSUME k.id = key.id PROVE FALSE
            <7>1. kv[k].text = x
              BY <2>4, <5>2, <6>1
            <7>2. k.name = key.name /\ k \in Keys
              BY <2>9, <5>1, <7>1 DEF KeysNameTheirRecord, TypeOK
            <7> QED BY <1>1, <4>2, <6>1, <7>2 DEF Keys
          <6> QED BY <6>1
        <5> QED BY <2>3, <2>5, <5>1, <5>2, <5>3
      <4> QED BY <4>1, <4>2
    <3> QED BY <3>1, <3>2 DEF IdsUsed
  <2> QED BY <2>6, <2>7, <2>8
<1>4. CASE call[c].pc \in {"delete", "remove"}
  <2>1. kv' = Without(key) /\ UNCHANGED <<lastID, stored>>
    BY <1>4 DEF CarryOut, RequestOf
  <2> QED BY <1>1, <2>1 DEF Without, TextsUnique, IdsKeepTheirRecord, IdsUsed
<1> QED BY <1>2, <1>3, <1>4 DEF Sites

\* Where no request is carried out, only the caller that moves has to be looked at.
LEMMA NothingStored ==
    ASSUME Alone, AloneInv, late' = {}, UNCHANGED <<kv, lastID, stored>>,
           NEW c \in Callers, CallerOK(c)'
    PROVE  AloneInv'
BY DEF Alone, AloneInv, TextsUnique, IdsKeepTheirRecord, IdsUsed

\* The caller returns.
LEMMA AloneReturns ==
    ASSUME TypeOK, Alone, AloneInv, NEW c \in Callers, NEW r, Return(c, r)
    PROVE  CallerOK(c)'
<1>1. call'[c] = [pc |-> "idle", todo |-> <<>>, key |-> NoKey]
  BY DEF Return, Goto, TypeOK
<1>2. <<>> \in Seq(GivenCommands)
  OBVIOUS
<1> QED BY <1>1, <1>2 DEF CallerOK, Ready

\* The command it works on, and what is left after it.
LEMMA GivenType ==
    ASSUME TypeOK, AloneInv, NEW c \in Callers, call[c].todo # <<>>
    PROVE  /\ Command(c) \in GivenCommands /\ Remaining(c) \in Seq(GivenCommands)
<1>1. call[c].todo \in Seq(GivenCommands)
  BY DEF AloneInv, CallerOK
<1>2. Command(c) \in GivenCommands /\ Tail(call[c].todo) \in Seq(GivenCommands)
  BY <1>1, HeadTailProperties DEF Command
<1>3. Cascade(Command(c)) \in Seq(GivenCommands)
  <2> DEFINE m == Command(c)
             p == [m EXCEPT !.text = Reverse[m.text], !.id = NoId, !.kind = "fixed"]
  <2>1. CASE m.text \in DOMAIN Reverse
    <3>1. p \in GivenCommands
      BY <1>2, <2>1, ReverseAssumption DEF GivenCommands, Commands, Kinds
    <3> HIDE DEF p
    <3>2. <<p>> \in Seq(GivenCommands)
      BY <3>1
    <3> QED BY <2>1, <3>2 DEF Cascade, p
  <2>2. CASE m.text \notin DOMAIN Reverse
    BY <2>2 DEF Cascade
  <2> QED BY <2>1, <2>2
<1> QED BY <1>2, <1>3, ConcatProperties DEF Remaining

LEMMA AloneProceeds ==
    ASSUME TypeOK, AloneInv, NEW c \in Callers, Proceed(c), call[c].todo # <<>>,
           call[c].pc # "idle"
    PROVE  CallerOK(c)'
<1>1. call'[c] = [pc |-> "find", todo |-> Remaining(c), key |-> NoKey]
      /\ UNCHANGED result
  BY DEF Proceed, Goto, TypeOK
<1>2. Remaining(c) \in Seq(GivenCommands) /\ result[c] = "none"
  BY GivenType DEF AloneInv, CallerOK
<1> QED BY <1>1, <1>2 DEF CallerOK, Ready

-----------------------------------------------------------------------------
\* The caller's steps.

LEMMA AloneSearches ==
    ASSUME NamedInv, Alone, AloneInv, NEW c \in Callers, Found(c) \/ NotFound(c)
    PROVE  AloneInv'
<1> DEFINE m == Command(c)
<1>1. /\ call[c].pc = "find" /\ call[c].todo # <<>> /\ UNCHANGED <<kv, lastID, stored, late>>
  BY DEF Found, NotFound, Finding
<1>2. /\ TypeOK /\ KeysNameTheirRecord /\ late = {} /\ TextsUnique
      /\ IdsUsed /\ m \in GivenCommands /\ call[c].todo \in Seq(GivenCommands)
      /\ result[c] = "none"
  BY <1>1, GivenType DEF NamedInv, AloneInv, CallerOK
<1>3. CASE Found(c)
  <2>1. PICK k \in DOMAIN kv :
            /\ StopsAt(m, k) /\ ~ IsPast(kv[k])
            /\ Goto(c, IF m.op = "set" THEN "put" ELSE "delete", call[c].todo, k)
    BY <1>3 DEF Found
  <2>2. call'[c] = [pc |-> IF m.op = "set" THEN "put" ELSE "delete",
                    todo |-> call[c].todo, key |-> k] /\ UNCHANGED result
    BY <1>2, <1>3, <2>1 DEF Found, Goto, TypeOK
  <2>3. kv[k].text = m.text
    BY <2>1 DEF StopsAt, Fits
  <2>4. k.id <= lastID /\ stored[k.id] = {m.text}
    BY <1>2, <2>3 DEF IdsUsed
  <2>5. m.text \notin GivenTexts => \A l \in DOMAIN kv : kv[l].text = m.text => l = k
    BY <1>2, <2>3 DEF TextsUnique
  <2>6. CallerOK(c)'
    BY <1>1, <1>2, <2>2, <2>4, <2>5 DEF CallerOK, Ready, Command
  <2> QED BY <1>1, <1>2, <2>6, NothingStored
<1>4. CASE NotFound(c) /\ m.op = "set"
  <2>1. call'[c] = [pc |-> "getLast", todo |-> call[c].todo, key |-> NoKey]
        /\ UNCHANGED result
    BY <1>2, <1>4 DEF NotFound, Goto, TypeOK
  <2>2. m.text \notin GivenTexts => Absent(m.text)
    BY <1>2, <1>4, NothingFound DEF NotFound
  <2>3. CallerOK(c)'
    BY <1>1, <1>2, <2>1, <2>2 DEF CallerOK, Ready, Command, Absent
  <2> QED BY <1>1, <1>2, <2>3, NothingStored
<1>5. CASE NotFound(c) /\ m.op # "set"
  <2>1. CallerOK(c)'
    BY <1>1, <1>2, <1>5, AloneProceeds DEF NotFound
  <2> QED BY <1>1, <1>2, <2>1, NothingStored
<1> QED BY <1>3, <1>4, <1>5

LEMMA AloneNumbers ==
    ASSUME NamedInv, Alone, AloneInv, NEW c \in Callers, GetLast(c)
    PROVE  AloneInv'
<1> DEFINE k == [name |-> NameOf[Command(c).text], id |-> Successor(lastID)]
<1>1. /\ call[c].pc = "getLast" /\ UNCHANGED <<kv, lastID, stored, late, result>>
      /\ Goto(c, "putLast", call[c].todo, k)
  BY DEF GetLast
<1>2. call'[c] = [pc |-> "putLast", todo |-> call[c].todo, key |-> k]
      /\ k.id = lastID + 1
  BY <1>1 DEF Goto, NamedInv, TypeOK, Successor
<1> HIDE DEF k
<1>3. CallerOK(c)'
  BY <1>1, <1>2 DEF AloneInv, CallerOK, Ready, Absent, Command
<1> QED BY <1>1, <1>3, NothingStored DEF AloneInv

LEMMA AloneWrites ==
    ASSUME NamedInv, Alone, AloneInv, NEW c \in Callers, Write(c)
    PROVE  AloneInv'
<1>1. /\ TypeOK /\ CallsOK /\ KeysNameTheirRecord /\ CallerOK(c) /\ IdsUsed /\ late = {}
      /\ call[c].pc \in Sites /\ CarryOut(RequestOf(c)) /\ UNCHANGED late
  BY DEF NamedInv, AloneInv, Write
<1>2. TextsUnique' /\ IdsKeepTheirRecord' /\ IdsUsed'
  BY <1>1, OwnRequest
<1>3. CallerOK(c)'
  <2>1. CASE call[c].pc = "putLast" /\ Goto(c, "put", call[c].todo, call[c].key)
             /\ UNCHANGED result
    <3>1. call'[c] = [pc |-> "put", todo |-> call[c].todo, key |-> call[c].key]
      BY <1>1, <2>1 DEF Goto, TypeOK
    <3>2. lastID' = call[c].key.id /\ UNCHANGED <<kv, stored>>
      BY <1>1, <2>1 DEF CarryOut, RequestOf, SavedID
    <3>3. /\ call[c].key.id = lastID + 1 
          /\ Command(c).text \notin GivenTexts => Absent(Command(c).text)
          /\ call[c].key.id \in 1..MaxId /\ lastID \in 0..MaxId
      BY <1>1, <2>1 DEF CallerOK, Ready, CallsOK, Keys, TypeOK
    <3>4. stored[call[c].key.id] = {}
      BY <1>1, <3>3, BoundAssumption DEF IdsUsed
    <3>5. call[c].key.id <= call[c].key.id
      BY <3>3, BoundAssumption
    <3> QED BY <1>1, <2>1, <3>1, <3>2, <3>3, <3>4, <3>5
            DEF CallerOK, Ready, Command, Absent
  <2>2. CASE Return(c, "ok")
    BY <1>1, <2>2, AloneReturns
  <2>3. CASE call[c].pc \in {"put", "delete"} /\ Proceed(c)
    BY <1>1, <2>3, AloneProceeds DEF CallsOK
  <2> QED BY <2>1, <2>2, <2>3 DEF Write
<1> QED BY <1>1, <1>2, <1>3 DEF Alone, AloneInv

LEMMA AloneTimesOut ==
    ASSUME NamedInv, Alone, AloneInv, NEW c \in Callers, TimeOut(c)
    PROVE  AloneInv'
<1>1. TypeOK /\ CallsOK /\ KeysNameTheirRecord /\ late = {} /\ UNCHANGED late
  BY DEF NamedInv, AloneInv, TimeOut, Alone
<1>2. CallerOK(c)'
  BY <1>1, AloneReturns DEF TimeOut
<1>3. CASE UNCHANGED <<kv, lastID, stored>>
  BY <1>1, <1>2, <1>3, NothingStored
<1>4. CASE call[c].pc \in Sites /\ CarryOut(RequestOf(c))
  BY <1>1, <1>2, <1>4, OwnRequest DEF Alone, AloneInv
<1> QED BY <1>3, <1>4 DEF TimeOut, Alone

LEMMA AloneRemoves ==
    ASSUME NamedInv, Alone, AloneInv, NEW c \in Callers, NEW id, RemoveRecord(c, id)
    PROVE  AloneInv'
<1>1. TypeOK /\ KeysNameTheirRecord /\ IdsUsed /\ late = {}
      /\ UNCHANGED <<kv, lastID, stored, late>>
  BY DEF NamedInv, AloneInv, RemoveRecord
<1>2. ASSUME NEW k \in Listed, Goto(c, "remove", <<>>, k),
             result' = [result EXCEPT ![c] = "none"]
      PROVE  CallerOK(c)'
  <2>1. /\ call'[c] = [pc |-> "remove", todo |-> <<>>, key |-> k]
        /\ result'[c] = "none" /\ <<>> \in Seq(GivenCommands)
    BY <1>1, <1>2 DEF Goto, TypeOK
  <2>2. kv[k].text \in Texts /\ stored[k.id] = {kv[k].text}
        /\ k.name = NameOf[kv[k].text]
    BY <1>1, <1>2 DEF Listed, TypeOK, Value, IdsUsed, KeysNameTheirRecord
  <2> QED BY <1>1, <2>1, <2>2 DEF CallerOK, Ready
<1>3. CallerOK(c)'
  BY <1>1, <1>2, AloneReturns DEF RemoveRecord
<1> QED BY <1>1, <1>3, NothingStored

-----------------------------------------------------------------------------
LEMMA AloneStep ==
    ASSUME Alone, NamedInv, AloneInv, [Next]_vars
    PROVE  AloneInv'
<1>1. TypeOK /\ late = {}
  BY DEF NamedInv, AloneInv
<1>2. ASSUME NEW c \in Callers, NEW b \in Batches, SetRecords(c, b) PROVE AloneInv'
  <2>1. /\ call'[c] = [pc |-> "find", todo |-> b, key |-> NoKey] /\ result'[c] = "none"
        /\ UNCHANGED <<kv, lastID, stored, late>>
    BY <1>1, <1>2 DEF SetRecords, Enter, Goto, TypeOK
  <2>2. CallerOK(c)'
    <3>1. b \in Seq(GivenCommands)
      <4>1. b \in Seq(Commands)
        BY CommandAssumption
      <4>2. Len(b) \in Nat /\ DOMAIN b = 1..Len(b) /\ b \in [1..Len(b) -> Commands]
        BY <4>1, LenProperties
      <4>3. ASSUME NEW i \in DOMAIN b PROVE b[i] \in GivenCommands
        <5>1. b[i] \in Commands /\ b[i].text \in Texts
          BY <4>1, <4>2, ElementOfSeq DEF Commands
        <5>2. (b[i].op = "set" /\ b[i].id # NoId) => b[i].text \in GivenTexts
          BY <5>1 DEF GivenTexts
        <5> QED BY <5>1, <5>2 DEF GivenCommands
      <4>4. b \in [1..Len(b) -> GivenCommands]
        BY <4>2, <4>3
      <4> QED BY <4>2, <4>4, SeqDef
    <3> QED BY <2>1, <3>1 DEF CallerOK, Ready
  <2> QED BY <1>1, <2>1, <2>2, NothingStored
<1>3. ASSUME NEW c \in Callers, Done(c) \/ FoundPast(c) PROVE AloneInv'
  <2>1. CallerOK(c)' /\ UNCHANGED <<kv, lastID, stored, late>>
    BY <1>1, <1>3, AloneReturns DEF Done, FoundPast
  <2> QED BY <1>1, <2>1, NothingStored
<1>4. CASE Revoke
  <2>1. PICK k \in DOMAIN kv : kv' = Without(k)
    BY <1>4 DEF Revoke
  <2>2. UNCHANGED <<lastID, stored, call, late, result>>
    BY <1>4 DEF Revoke
  <2>3. \A l \in DOMAIN kv' : l \in DOMAIN kv /\ kv'[l] = kv[l]
    BY <2>1 DEF Without
  <2>4. TextsUnique' /\ IdsKeepTheirRecord' /\ IdsUsed'
    BY <2>2, <2>3 DEF AloneInv, TextsUnique, IdsKeepTheirRecord, IdsUsed
  <2>5. ASSUME NEW c \in Callers PROVE CallerOK(c)'
    <3>1. CallerOK(c) /\ call'[c] = call[c] /\ result'[c] = result[c]
          /\ Command(c)' = Command(c)
      BY <2>2 DEF AloneInv, Command
    <3>2. Absent(Command(c).text) => Absent(Command(c).text)'
      BY <2>3, <3>1 DEF Absent
    <3>3. Ready(c)'
      BY <2>2, <2>3, <3>1, <3>2 DEF CallerOK, Ready
    <3> QED BY <3>1, <3>3 DEF CallerOK
  <2> QED BY <1>1, <2>2, <2>4, <2>5 DEF AloneInv
<1>5. CASE Tick \/ UNCHANGED vars
  <2>1. UNCHANGED <<kv, lastID, stored, call, late, result>>
    BY <1>5 DEF Tick, vars
  <2> QED BY <2>1 DEF AloneInv, TextsUnique, IdsKeepTheirRecord, IdsUsed, CallerOK,
                      Ready, Absent, Command
<1>6. ~ CarryOutLate
  BY <1>1 DEF CarryOutLate
<1> QED BY <1>2, <1>3, <1>4, <1>5, <1>6, AloneSearches, AloneNumbers, AloneWrites,
           AloneTimesOut, AloneRemoves DEF Next, Step

\* With a single caller, requests lost at any point never give an ID to another record
\* and leave no second copy of a record that is never set under a given ID.
THEOREM AloneKeepsApart == ASSUME Alone PROVE Spec => []AloneInv
<1>1. Init => AloneInv
  <2> SUFFICES ASSUME Init PROVE AloneInv
    OBVIOUS
  <2>1. TextsUnique /\ IdsKeepTheirRecord /\ IdsUsed /\ late = {}
    BY DEF Init, TextsUnique, IdsKeepTheirRecord, IdsUsed
  <2>2. ASSUME NEW c \in Callers PROVE CallerOK(c)
    <3>1. call[c] = [pc |-> "idle", todo |-> <<>>, key |-> NoKey]
      BY DEF Init
    <3>2. <<>> \in Seq(GivenCommands)
      OBVIOUS
    <3> QED BY <3>1, <3>2 DEF CallerOK, Ready
  <2> QED BY <2>1, <2>2 DEF AloneInv
<1>2. NamedInv /\ AloneInv /\ [Next]_vars => AloneInv'
  BY AloneStep
<1> QED BY <1>1, <1>2, TypeCorrect, PTL DEF Spec

\* A single caller never stores the text of a record under two keys, whichever of its
\* requests time out or are lost, unless it is a record that some command sets under a
\* given ID: whatever is given for other records.
THEOREM StoredOnce == ASSUME Alone PROVE Spec => []TextsUnique
<1>1. AloneInv => TextsUnique
  BY DEF AloneInv
<1> QED BY <1>1, AloneKeepsApart, PTL

\* A single caller never sees an ID move to another record, although the counter of
\* the IDs and the record are written one after the other; whatever IDs its commands
\* give.
THEOREM IdsStable == ASSUME Alone PROVE Spec => []IdsKeepTheirRecord
<1>1. AloneInv => IdsKeepTheirRecord
  BY DEF AloneInv
<1> QED BY <1>1, AloneKeepsApart, PTL

\* What the removal found under the ID is the only thing there, so that nothing is
\* left under it: also when the record's lease has ended in between, or a given ID has
\* led to a second copy under another ID.
THEOREM RemovalIsComplete == ASSUME Alone PROVE Spec => RemovedIdIsGone
<1> DEFINE Gone(c) == (call[c].pc = "remove" /\ result'[c] = "ok") =>
                          \A k \in DOMAIN kv' : k.id # call[c].key.id
<1>1. ASSUME NamedInv, AloneInv, [Next]_vars, NEW c \in Callers,
             call[c].pc = "remove", result'[c] = "ok", NEW k \in DOMAIN kv'
      PROVE  k.id # call[c].key.id
  <2>1. /\ TypeOK /\ KeysNameTheirRecord /\ IdsUsed /\ CallerOK(c)
        /\ result[c] = "none" /\ late = {} /\ \A d \in Callers : d = c
    BY <1>1 DEF NamedInv, AloneInv, CallerOK, Alone
  <2>2. Write(c)
    <3>1. ASSUME TimeOut(c) PROVE FALSE
      BY <1>1, <2>1, <3>1 DEF TimeOut, Return, TypeOK
    <3>2. ASSUME Revoke \/ Tick \/ UNCHANGED vars \/ CarryOutLate PROVE FALSE
      BY <1>1, <2>1, <3>2 DEF Revoke, Tick, vars, CarryOutLate
    <3>3. ~ Found(c) /\ ~ FoundPast(c) /\ ~ NotFound(c) /\ ~ GetLast(c) /\ ~ Done(c)
          /\ ~ (\E b \in Batches : SetRecords(c, b))
          /\ ~ (\E id \in 1..MaxId : RemoveRecord(c, id))
      BY <1>1 DEF Found, FoundPast, NotFound, Finding, GetLast, Done, SetRecords, Enter,
                  RemoveRecord
    <3> QED BY <1>1, <2>1, <3>1, <3>2, <3>3 DEF Next, Step
  <2>3. kv' = Without(call[c].key)
    BY <1>1, <2>2 DEF Write, CarryOut, RequestOf
  <2>4. k \in DOMAIN kv /\ k # call[c].key /\ k \in Keys /\ call[c].key \in Keys
    BY <1>1, <2>1, <2>3 DEF Without, TypeOK, NamedInv, CallsOK, Sites
  <2>5. PICK x \in Texts : stored[call[c].key.id] = {x} /\ call[c].key.name = NameOf[x]
    BY <1>1, <2>1 DEF CallerOK, Ready
  <2>6. stored[k.id] = {kv[k].text} /\ k.name = NameOf[kv[k].text]
    BY <2>1, <2>4 DEF IdsUsed, KeysNameTheirRecord
  <2> QED BY <2>4, <2>5, <2>6 DEF Keys
<1>2. NamedInv /\ AloneInv /\ [Next]_vars => [\A c \in Callers : Gone(c)]_vars
  BY <1>1
<1> QED BY <1>2, TypeCorrect, AloneKeepsApart, PTL DEF Spec, RemovedIdIsGone
=============================================================================
