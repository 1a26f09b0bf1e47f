---------------------------- MODULE EtcdResolver ----------------------------
(***************************************************************************)
(* The dynamic zone kept in etcd (lib-landns/etcd_resolver.go).  There is  *)
(* no mutex and no transaction: every request to etcd is a step of its     *)
(* own, and the calls of all handlers, of all servers on the same prefix,  *)
(* interleave between any two of them.  A request may time out: the call   *)
(* then returns an error and leaves behind what it has done, and etcd      *)
(* carried the request out, or lost it, or will carry it out later.        *)
(*                                                                         *)
(* etcd itself (the key space and its leases) is modelled from its use.    *)
(* The strings of a key are not: an ID in a key is compared as a number    *)
(* ("/1" is a prefix of "/10" too, hence MaxId < 10).                      *)
(***************************************************************************)
EXTENDS Integers, Sequences, FiniteSets

CONSTANTS
    Callers,   \* the goroutines that call the resolver
    Texts,     \* the records, as texts without TTL
    NameOf,    \* the name of a record
    Scope,     \* Scope[n]: the names whose path begins with the path of n
    Reverse,   \* the PTR record that goes with an address record
    NoId,      \* "the command names no ID"
    Batches,   \* the batches SetRecords may be called with
    Faults,    \* how requests may time out: "lost", "late"
    MaxTime, MaxId, MaxCalls   \* bounds

Kinds    == {"volatile", "fixed"}
Names    == {NameOf[x] : x \in Texts}
Commands == [op : {"set", "drop"}, text : Texts, ttl : Nat,
             id : Nat \cup {NoId}, kind : Kinds]
Keys     == [name : Names, id : 1..MaxId]

ASSUME NameAssumption == \A n \in Names : n \in Scope[n] /\ Scope[n] \subseteq Names
ASSUME ReverseAssumption ==
    \A a \in DOMAIN Reverse : Reverse[a] \in Texts \ DOMAIN Reverse
ASSUME FaultAssumption == Faults \subseteq {"lost", "late"}
ASSUME BoundAssumption == MaxTime \in Nat /\ MaxId \in 1..9 /\ MaxCalls \in Nat
ASSUME CommandAssumption == NoId \notin Nat /\ \A b \in Batches : b \in Seq(Commands)

VARIABLES
    kv,       \* the keys <prefix>/records/<name>/<id> and their values
    lastID,   \* the value of <prefix>/lastID
    call,     \* the call each caller is in
    stored,   \* history: the records that were ever stored under each ID
    late,     \* requests that timed out and that etcd may still carry out
    result,   \* what its last call returned
    now,      \* the clock, in half seconds
    calls     \* how many calls were made (bounded by MaxCalls)

vars == <<kv, lastID, stored, call, late, result, now, calls>>

Value == [text : Texts, ttl : Nat, expire : Nat, lease : Nat]

NoKey == [name |-> CHOOSE n \in Names : TRUE, id |-> 0]
Sites == {"putLast", "put", "delete", "remove"}      \* the writing requests

TypeOK ==
    /\ DOMAIN kv \subseteq Keys /\ \A k \in DOMAIN kv : kv[k] \in Value
    /\ lastID \in 0..MaxId /\ stored \in [1..MaxId -> SUBSET Texts]
    /\ call \in [Callers -> [pc : {"idle", "find", "getLast"} \cup Sites,
                             todo : Seq(Commands), key : Keys \cup {NoKey}]]
    /\ \A r \in late : r.pc \in Sites /\ r.key \in Keys
    /\ result \in [Callers -> {"none", "ok", "error", "noSuchRecord"}]
    /\ now \in Nat /\ calls \in 0..MaxCalls

-----------------------------------------------------------------------------
Second(t) == t \div 2
IsPast(v) == v.expire # 0 /\ 2 * v.expire < now
TTLOf(v)  == IF v.expire = 0 THEN v.ttl ELSE (2 * v.expire - now + 1) \div 2

\* insertRecord and dropRecord repeat themselves for the PTR of an address,
\* without its ID; insertRecord also forgets that the address is volatile.
Cascade(c) ==
    IF c.text \in DOMAIN Reverse
    THEN <<[c EXCEPT !.text = Reverse[c.text], !.id = NoId, !.kind = "fixed"]>>
    ELSE <<>>

Command(c) == Head(call[c].todo)

\* etcd returns keys in order: a name's own before those of the names below it.
Precedes(k, l, n) ==
    IF k.name = l.name THEN k.id < l.id ELSE k.name = n

-----------------------------------------------------------------------------
Init ==
    /\ kv = <<>> /\ lastID = 0 /\ stored = [i \in 1..MaxId |-> {}]
    /\ call = [c \in Callers |-> [pc |-> "idle", todo |-> <<>>, key |-> NoKey]]
    /\ late = {} /\ result = [c \in Callers |-> "none"]
    /\ now = 2 /\ calls = 0

Goto(c, pc, todo, key) ==
    call' = [call EXCEPT ![c] = [pc |-> pc, todo |-> todo, key |-> key]]
Return(c, r) ==
    /\ Goto(c, "idle", <<>>, NoKey)
    /\ result' = [result EXCEPT ![c] = r]
Enter(c) ==
    /\ call[c].pc = "idle" /\ calls < MaxCalls
    /\ calls' = calls + 1
    /\ result' = [result EXCEPT ![c] = "none"]

\* The command is done: its PTR is next, then the rest of the batch.
Remaining(c) == Cascade(Command(c)) \o Tail(call[c].todo)
Proceed(c) == Goto(c, "find", Remaining(c), NoKey) /\ UNCHANGED result

SetRecords(c, b) ==
    /\ Enter(c) /\ Goto(c, "find", b, NoKey)
    /\ UNCHANGED <<kv, lastID, stored, late, now>>

Done(c) ==
    /\ call[c].pc = "find" /\ call[c].todo = <<>>
    /\ Return(c, "ok")
    /\ UNCHANGED <<kv, lastID, stored, late, now, calls>>

-----------------------------------------------------------------------------
\* findKey: one prefix read, then a look at the values in key order.  The first
\* one whose text fits is the answer; one that is past before it is an error.

Scanned(cmd) == {k \in DOMAIN kv :
    /\ k.name \in Scope[NameOf[cmd.text]]
    /\ cmd.id # NoId => k = [name |-> NameOf[cmd.text], id |-> cmd.id]}

AnyName(cmd, v) == TRUE
WithTTL(cmd, v) == v.text = cmd.text /\ TTLOf(v) = cmd.ttl
Fits(cmd, v) ==
    v.text = cmd.text /\ (cmd.op = "drop" => TTLOf(v) = cmd.ttl)

\* The scan stops at k: nothing before it is past or fits.
StopsAt(cmd, k) ==
    /\ k \in Scanned(cmd) /\ (IsPast(kv[k]) \/ Fits(cmd, kv[k]))
    /\ \A l \in Scanned(cmd) : Precedes(l, k, NameOf[cmd.text]) =>
           ~ IsPast(kv[l]) /\ ~ Fits(cmd, kv[l])

Finding(c) == call[c].pc = "find" /\ call[c].todo # <<>>

Found(c) ==
    /\ Finding(c)
    /\ \E k \in DOMAIN kv :
          /\ StopsAt(Command(c), k) /\ ~ IsPast(kv[k])
          /\ Goto(c, IF Command(c).op = "set" THEN "put" ELSE "delete",
                  call[c].todo, k)
    /\ UNCHANGED <<kv, lastID, stored, late, result, now, calls>>

FoundPast(c) ==
    /\ Finding(c)
    /\ \E k \in DOMAIN kv : StopsAt(Command(c), k) /\ IsPast(kv[k])
    /\ Return(c, "error")
    /\ UNCHANGED <<kv, lastID, stored, late, now, calls>>

NotFound(c) ==
    /\ Finding(c)
    /\ ~ \E k \in DOMAIN kv : StopsAt(Command(c), k)
    /\ IF Command(c).op = "set"
       THEN Goto(c, "getLast", call[c].todo, NoKey) /\ UNCHANGED result
       ELSE Proceed(c)
    /\ UNCHANGED <<kv, lastID, stored, late, now, calls>>

-----------------------------------------------------------------------------
\* makeKey: the ID comes from a read and a write that nothing holds together.

Same(n) == n
Successor(n) == n + 1

GetLast(c) ==
    /\ call[c].pc = "getLast" /\ lastID < MaxId
    /\ Goto(c, "putLast", call[c].todo,
            [name |-> NameOf[Command(c).text], id |-> Successor(lastID)])
    /\ UNCHANGED <<kv, lastID, stored, late, result, now, calls>>

ValueOf(m) ==
    [text |-> m.text, ttl |-> m.ttl,
     expire |-> IF m.kind = "volatile" THEN Second(now) + m.ttl ELSE 0,
     lease |-> IF m.kind = "volatile" THEN now + 2 * m.ttl ELSE 0]

\* The writing request a caller is about to send, and its effect on etcd.
RequestOf(c) ==
    [pc |-> call[c].pc, key |-> call[c].key,
     value |-> IF call[c].pc = "put" THEN {ValueOf(Command(c))} ELSE {}]

Without(k) == [x \in DOMAIN kv \ {k} |-> kv[x]]

Unsaved(r) == lastID
SavedID(r) == r.key.id

CarryOut(r) ==
    \/ /\ r.pc = "putLast" /\ lastID' = SavedID(r)
       /\ UNCHANGED <<kv, stored>>
    \/ /\ r.pc = "put"
       /\ \E v \in r.value :
             /\ kv' = [x \in DOMAIN kv \cup {r.key} |->
                          IF x = r.key THEN v ELSE kv[x]]
             /\ stored' = [stored EXCEPT ![r.key.id] = @ \cup {v.text}]
       /\ UNCHANGED lastID
    \/ /\ r.pc \in {"delete", "remove"} /\ kv' = Without(r.key)
       /\ UNCHANGED <<lastID, stored>>

\* The write succeeds: makeKey goes on to the put, RemoveRecord returns, and
\* the other two go on to the next command.
Write(c) ==
    /\ call[c].pc \in Sites /\ CarryOut(RequestOf(c))
    /\ \/ /\ call[c].pc = "putLast"
          /\ Goto(c, "put", call[c].todo, call[c].key) /\ UNCHANGED result
       \/ call[c].pc = "remove" /\ Return(c, "ok")
       \/ call[c].pc \in {"put", "delete"} /\ Proceed(c)
    /\ UNCHANGED <<late, now, calls>>

\* A request of SetRecords or RemoveRecord times out.
TimeOut(c) ==
    /\ call[c].pc # "idle" /\ Return(c, "error")
    /\ \/ "lost" \in Faults /\ UNCHANGED <<kv, lastID, stored, late>>
       \/ /\ "lost" \in Faults /\ call[c].pc \in Sites
          /\ CarryOut(RequestOf(c)) /\ UNCHANGED late
       \/ /\ "late" \in Faults /\ call[c].pc \in Sites /\ late = {}
          /\ late' = {RequestOf(c)} /\ UNCHANGED <<kv, lastID, stored>>
    /\ UNCHANGED <<now, calls>>

\* etcd carries out a request whose caller has given up.
CarryOutLate ==
    /\ \E r \in late : CarryOut(r) /\ late' = late \ {r}
    /\ UNCHANGED <<call, result, now, calls>>

-----------------------------------------------------------------------------
\* RemoveRecord: a read of everything, then a delete of the first with the ID.

Listed == {k \in DOMAIN kv : ~ IsPast(kv[k])}

RemoveRecord(c, id) ==
    /\ call[c].pc = "idle" /\ calls < MaxCalls
    /\ calls' = calls + 1
    /\ \/ \E k \in Listed : k.id = id /\ Goto(c, "remove", <<>>, k)
          /\ result' = [result EXCEPT ![c] = "none"]
       \/ (\A k \in Listed : k.id # id) /\ Return(c, "noSuchRecord")
       \/ "lost" \in Faults /\ Return(c, "error")
    /\ UNCHANGED <<kv, lastID, stored, late, now>>

\* etcd drops a key some time after its lease has ended.
Revoke ==
    /\ \E k \in DOMAIN kv : /\ kv[k].lease # 0 /\ now >= kv[k].lease
                            /\ kv' = Without(k)
    /\ UNCHANGED <<lastID, stored, call, late, result, now, calls>>

Tick ==
    /\ now < MaxTime /\ now' = now + 1
    /\ UNCHANGED <<kv, lastID, stored, call, late, result, calls>>

Step(c) == Found(c) \/ FoundPast(c) \/ NotFound(c) \/ GetLast(c) \/ Write(c)
           \/ Done(c)

Next ==
    \/ \E c \in Callers :
          \/ \E b \in Batches : SetRecords(c, b)
          \/ \E id \in 1..MaxId : RemoveRecord(c, id)
          \/ Step(c) \/ TimeOut(c)
    \/ CarryOutLate \/ Revoke \/ Tick

Spec == Init /\ [][Next]_vars

-----------------------------------------------------------------------------
\* Properties.

\* A value is stored under its own name, whoever else writes and whatever times
\* out: the key that RemoveRecord builds from a record it has read is the key
\* that record is stored under.
KeysNameTheirRecord ==
    \A k \in DOMAIN kv : k.name = NameOf[kv[k].text]

\* With a single caller, and requests that are lost but not late:

\* A record is stored once: its TTL is updated where it is.  Except the records that
\* a command sets under a given ID: findKey then looks under that ID only, and a
\* second copy is stored when the record has another one.
GivenTexts ==
    {x \in Texts : \E b \in Batches : \E i \in DOMAIN b :
                      b[i].op = "set" /\ b[i].id # NoId /\ b[i].text = x}
TextsUnique ==
    \A k, l \in DOMAIN kv :
        kv[k].text = kv[l].text => k = l \/ kv[k].text \in GivenTexts

\* An ID belongs to one record for good: it is never given to another one, also
\* after the first was removed or its lease has ended, although the counter and the
\* record are written by two requests and either may fail.
IdsKeepTheirRecord == \A i \in 1..MaxId : \A x, y \in stored[i] : x = y

\* When RemoveRecord returns, no record has the ID any more.
RemovedIdIsGone ==
    [][\A c \in Callers :
          (call[c].pc = "remove" /\ result'[c] = "ok") =>
              \A k \in DOMAIN kv' : k.id # call[c].key.id]_vars
=============================================================================
