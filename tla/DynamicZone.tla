---------------------------- MODULE DynamicZone -----------------------------
(***************************************************************************)
(* What a DynamicResolver promises its callers (the interface at the end   *)
(* of lib-landns/dynamic_resolver.go and the README's description of the   *)
(* REST API): a table of records with stable IDs that changes by whole     *)
(* batches, by removal of one record, and by the passing of time.          *)
(*                                                                         *)
(* The effect of a batch is stated per record text, from the last command  *)
(* that mentions it, and not by running the commands one after another.    *)
(***************************************************************************)
EXTENDS Integers, Sequences, FiniteSets

CONSTANTS
    Texts,    \* the records, as texts without TTL
    Reverse,  \* the PTR record that goes with an address record
    NoId,     \* "the command names no ID"
    Batches   \* the batches SetRecords may be called with

VARIABLES
    rows,     \* the table: ID -> [text, ttl, expire]; expire 0 means never
    lastId,   \* the largest ID that was ever given out
    now       \* the clock, in half seconds

zoneVars == <<rows, lastId, now>>

Second(t) == t \div 2
IdsOf(x)  == {i \in DOMAIN rows : rows[i].text = x}

-----------------------------------------------------------------------------
\* Command i of batch b is about x: it names x, or an address whose PTR is x.
Names(b, i, x) == b[i].text = x
Mentions(b, i, x) ==
    \/ Names(b, i, x)
    \/ b[i].text \in DOMAIN Reverse /\ Reverse[b[i].text] = x

LastSet(b, x) ==
    {i \in DOMAIN b : /\ b[i].op = "set" /\ Mentions(b, i, x)
                      /\ \A j \in DOMAIN b : (b[j].op = "set" /\ Mentions(b, j, x))
                                                => j <= i}

\* Command j drops the row of x if its ID is id and its TTL is ttl; only the
\* record the command names is bound to the command's ID, its PTR is not.
Drops(b, j, x, id, ttl) ==
    /\ b[j].op = "drop" /\ b[j].ttl = ttl
    /\ Mentions(b, j, x)
    /\ Names(b, j, x) => b[j].id \in {NoId, id}

\* The life a row may have that was set by c at some moment up to now.
LifeOf(c, e) ==
    IF c.kind = "volatile" THEN \E t \in 0..now : e = Second(t) + c.ttl ELSE e = 0

\* The table after the batch, seen from x.
Outcome(b, x, after) ==
    LET left == {i \in DOMAIN after : after[i].text = x}
    IN  IF LastSet(b, x) = {}
        THEN left = {i \in IdsOf(x) :
                        ~ \E j \in DOMAIN b : Drops(b, j, x, i, rows[i].ttl)}
             /\ \A i \in left : after[i] = rows[i]
        ELSE \A s \in LastSet(b, x) :
               LET dropped(i) == \E j \in DOMAIN b :
                                    j > s /\ Drops(b, j, x, i, b[s].ttl)
                   mayBe == IdsOf(x) \cup (lastId + 1 .. lastId')
               IN  \/ /\ left = {} /\ \E i \in mayBe : dropped(i)
                   \/ \E i \in mayBe :
                        /\ left = {i} /\ ~ dropped(i)
                        /\ after[i].ttl = b[s].ttl
                        /\ LifeOf(b[s], after[i].expire)

\* A batch takes effect as a whole.
Set(b) ==
    /\ lastId' >= lastId
    /\ \A i \in DOMAIN rows' : rows'[i].text \in Texts /\ i <= lastId'
    /\ \A x \in Texts : Outcome(b, x, rows')
    /\ UNCHANGED now

\* One record is removed, whatever its TTL; its PTR stays.
Remove(id) ==
    /\ id \in DOMAIN rows
    /\ rows' = [i \in DOMAIN rows \ {id} |-> rows[i]]
    /\ UNCHANGED <<lastId, now>>

\* Records whose time is over go away, and no others.
Expire(ids) ==
    /\ \A i \in ids : rows[i].expire > 0 /\ 2 * rows[i].expire < now
    /\ rows' = [i \in DOMAIN rows \ ids |-> rows[i]]
    /\ UNCHANGED <<lastId, now>>

Tick == now' = now + 1 /\ UNCHANGED <<rows, lastId>>

Init == rows = <<>> /\ lastId = 0 /\ now = 2

Next ==
    \/ \E b \in Batches : Set(b)
    \/ \E id \in DOMAIN rows : Remove(id)
    \/ \E ids \in SUBSET DOMAIN rows : Expire(ids)
    \/ Tick

Spec == Init /\ [][Next]_zoneVars
=============================================================================
