--------------------------- MODULE SqliteResolver ---------------------------
(***************************************************************************)
(* The dynamic zone kept in SQLite (lib-landns/sqlite_resolver.go).  Every *)
(* operation holds sr.mutex from its first to its last statement, so at    *)
(* most one is under way: `op'.  SetRecords works statement by statement   *)
(* on the transaction's copy of the table, and may fail at each of them;   *)
(* a read queries first and judges the expiry of each row afterwards,      *)
(* against a later reading of the clock.  The process may die at any       *)
(* moment; SQLite then keeps the last committed table.                     *)
(***************************************************************************)
EXTENDS Integers, Sequences, FiniteSets

CONSTANTS
    Texts,     \* the records, as texts without TTL
    Reverse,   \* the PTR record that goes with an address record
    NoId,      \* "the command names no ID"
    Batches,   \* the batches SetRecords may be called with
    MaxTTL,    \* the largest TTL a client uses
    MaxTime,   \* bound of the clock
    MaxId,     \* bound of the AUTOINCREMENT counter
    MaxCalls   \* bound of the number of calls

Kinds == {"volatile", "fixed"}
Commands == [op : {"set", "drop"}, text : Texts, ttl : 0..MaxTTL,
             id : Nat \cup {NoId}, kind : Kinds]

ASSUME TextAssumption ==
    DOMAIN Reverse \subseteq Texts
    /\ \A a \in DOMAIN Reverse : Reverse[a] \in Texts \ DOMAIN Reverse
ASSUME BatchAssumption ==
    \A b \in Batches : b \in Seq(Commands)
ASSUME IdAssumption == NoId \notin Nat
ASSUME BoundAssumption ==
    MaxTTL \in Nat /\ MaxTime \in Nat /\ MaxId \in Nat /\ MaxCalls \in Nat

VARIABLES
    rows,     \* the committed table: ID -> [text, ttl, expire]
    lastId,   \* SQLite's AUTOINCREMENT counter
    op,       \* the operation that holds the mutex
    reply,    \* what the last operation returned
    now,      \* the clock, in half seconds
    calls     \* how many operations were called (bounded by MaxCalls)

vars == <<rows, lastId, op, reply, now, calls>>

Row    == [text : Texts, ttl : 0..MaxTTL, expire : Nat]
Lines  == [id : 1..MaxId, text : Texts, ttl : 0..MaxTTL, kind : Kinds]
IsTable(t) == DOMAIN t \subseteq 1..MaxId /\ \A i \in DOMAIN t : t[i] \in Row

TypeOK ==
    /\ IsTable(rows) /\ lastId \in 0..MaxId
    /\ op.kind \in {"none", "set", "read"} /\ op.batch \in Seq(Commands)
    /\ op.todo \in Seq(Commands) /\ IsTable(op.table) /\ op.last \in 0..MaxId
    /\ reply.res \in {"none", "ok", "error"} /\ reply.lines \subseteq Lines
    /\ now \in Nat /\ calls \in 0..MaxCalls

-----------------------------------------------------------------------------
\* Time and texts.

Second(t) == t \div 2                     \* strftime('%s') and Time.Unix()

\* math.Round(time.Until(expire).Seconds()), of a time that is not over
ShownTTL(e) == (2 * e - now + 1) \div 2

\* The SQL condition of every SELECT
Alive(r) == r.expire = 0 \/ r.expire > Second(now)

\* The WHERE of manageExpire's DELETE
SweepsLiving(r) == r.expire > 0 /\ r.expire > Second(now)
Overdue(r) == r.expire > 0 /\ r.expire < Second(now)

\* expire.Before(time.Now()) in NewRecordWithExpire
NeverPast(r) == FALSE
IsPast(r) == r.expire # 0 /\ 2 * r.expire < now

ExpireOf(c) == IF c.kind = "volatile" THEN Second(now) + c.ttl ELSE 0

Without(t, ids) == [i \in DOMAIN t \ ids |-> t[i]]

\* insertRecord and dropRecord call themselves for the PTR of an address,
\* without an ID.
NoCascade(c) == <<>>
Cascade(c) ==
    IF c.text \in DOMAIN Reverse
    THEN <<[op |-> c.op, text |-> Reverse[c.text], ttl |-> c.ttl, id |-> NoId,
            kind |-> c.kind]>>
    ELSE <<>>

-----------------------------------------------------------------------------
Idle == [kind |-> "none", batch |-> <<>>, todo |-> <<>>, table |-> <<>>,
         last |-> 0]
Nothing == [res |-> "none", lines |-> {}]
Returned(res) == [res |-> res, lines |-> {}]

Init ==
    /\ rows = <<>> /\ lastId = 0
    /\ op = Idle /\ reply = Nothing
    /\ now = 2 /\ calls = 0

\* The mutex is free; taking it for a new call.
Enter ==
    /\ op.kind = "none" /\ calls < MaxCalls
    /\ calls' = calls + 1

-----------------------------------------------------------------------------
\* SetRecords.

\* A client may send back a line it was shown, to delete it.
DeleteLine(l) == <<[op |-> "drop", text |-> l.text, ttl |-> l.ttl, id |-> l.id,
                    kind |-> l.kind]>>

Begin(b) ==
    /\ Enter
    /\ op' = [kind |-> "set", batch |-> b, todo |-> b, table |-> rows,
              last |-> lastId]
    /\ UNCHANGED <<rows, lastId, reply, now>>

Command == Head(op.todo)
InTransaction(o) == op.kind = "set" /\ op.todo # <<>> /\ Command.op = o

\* The rows an UPDATE or DELETE of a command matches.
SameText(c) == {i \in DOMAIN op.table : op.table[i].text = c.text}
SameTextAndTTL(c) == {i \in SameText(c) : op.table[i].ttl = c.ttl}
Matched(c) == {i \in SameTextAndTTL(c) : c.id \in {NoId, i}}

\* One statement is done: go on with the PTR of the command, then the rest.
Proceed(table, last) ==
    /\ op' = [kind |-> "set", batch |-> op.batch,
              todo |-> Cascade(Command) \o Tail(op.todo), table |-> table,
              last |-> last]
    /\ UNCHANGED <<rows, lastId, reply, now, calls>>

Existing(c) == SameText(c)

\* insertRecord: UPDATE ... WHERE record = ?
Update ==
    /\ InTransaction("set") /\ Existing(Command) # {}
    /\ Proceed([i \in DOMAIN op.table |->
                    IF i \in Existing(Command)
                    THEN [op.table[i] EXCEPT !.ttl = Command.ttl,
                                             !.expire = ExpireOf(Command)]
                    ELSE op.table[i]], op.last)

\* The ID SQLite gives to a new row.
FirstFree(c) == CHOOSE n \in 1..MaxId : n \notin DOMAIN op.table
                                    /\ \A i \in DOMAIN op.table : i < n
NewId(c) == op.last + 1

\* insertRecord: INSERT, when the UPDATE found no row
Insert ==
    /\ InTransaction("set") /\ Existing(Command) = {} /\ op.last < MaxId
    /\ LET n == NewId(Command)
           r == [text |-> Command.text, ttl |-> Command.ttl,
                 expire |-> ExpireOf(Command)]
       IN  Proceed([i \in DOMAIN op.table \cup {n} |->
                       IF i = n THEN r ELSE op.table[i]], n)

\* dropRecord: DELETE ... WHERE [id = ? AND] ttl = ? AND record = ?
Delete ==
    /\ InTransaction("drop")
    /\ Proceed(Without(op.table, Matched(Command)), op.last)

Commit ==
    /\ op.kind = "set" /\ op.todo = <<>>
    /\ rows' = op.table /\ lastId' = op.last
    /\ op' = Idle /\ reply' = Returned("ok")
    /\ UNCHANGED <<now, calls>>

\* A statement of a transaction or of a read returns an error: the
\* transaction is rolled back.
Fail ==
    /\ op.kind # "none"
    /\ op' = Idle /\ reply' = Returned("error")
    /\ UNCHANGED <<rows, lastId, now, calls>>

-----------------------------------------------------------------------------
\* Reads: Records, SearchRecords, GlobRecords, Resolve and GetRecord differ in
\* the rows they ask for.

Query(ids) ==
    /\ Enter
    /\ op' = [kind |-> "read", batch |-> <<>>, todo |-> <<>>,
              table |-> Without(rows, {i \in DOMAIN rows :
                                          i \notin ids \/ ~ Alive(rows[i])}),
              last |-> 0]
    /\ UNCHANGED <<rows, lastId, reply, now>>

LineOf(i) ==
    LET r == op.table[i]
    IN  [id |-> i, text |-> r.text,
         kind |-> IF r.expire = 0 THEN "fixed" ELSE "volatile",
         ttl |-> IF r.expire = 0 THEN r.ttl ELSE ShownTTL(r.expire)]

\* scanRecords: one row whose time is over fails the whole read.
Scan ==
    /\ op.kind = "read"
    /\ op' = Idle
    /\ IF \E i \in DOMAIN op.table : IsPast(op.table[i])
       THEN reply' = Returned("error")
       ELSE reply' = [res |-> "ok", lines |-> {LineOf(i) : i \in DOMAIN op.table}]
    /\ UNCHANGED <<rows, lastId, now, calls>>

-----------------------------------------------------------------------------
\* RemoveRecord: one statement, under the mutex.
RemoveRecord(id) ==
    /\ Enter
    /\ IF id \in DOMAIN rows
       THEN rows' = Without(rows, {id}) /\ reply' = Returned("ok")
       ELSE UNCHANGED rows /\ reply' = Returned("error")
    /\ UNCHANGED <<lastId, op, now>>

\* One round of manageExpire, every five seconds, under the mutex.
Sweep ==
    /\ op.kind = "none"
    /\ rows' = Without(rows, {i \in DOMAIN rows : Overdue(rows[i])})
    /\ UNCHANGED <<lastId, op, reply, now, calls>>

\* The process dies and is started again on the same file.
Crash ==
    /\ op.kind # "none"
    /\ op' = Idle /\ reply' = Nothing
    /\ UNCHANGED <<rows, lastId, now, calls>>

Tick ==
    /\ now < MaxTime
    /\ now' = now + 1
    /\ UNCHANGED <<rows, lastId, op, reply, calls>>

-----------------------------------------------------------------------------
Step == Update \/ Insert \/ Delete \/ Commit \/ Scan

Next ==
    \/ \E b \in Batches \cup {DeleteLine(l) : l \in reply.lines} : Begin(b)
    \/ \E ids \in {DOMAIN rows} \cup {{i} : i \in DOMAIN rows} : Query(ids)
    \/ \E id \in 1..(lastId + 1) : RemoveRecord(id)
    \/ Step \/ Fail \/ Sweep \/ Crash \/ Tick

Spec == Init /\ [][Next]_vars

\* The goroutine inside an operation goes on; the ticker keeps ticking.
Fairness == WF_vars(Step) /\ SF_vars(Sweep)
FairSpec == Spec /\ Fairness

-----------------------------------------------------------------------------
\* Properties.

\* The resolver implements the abstract zone: a batch takes effect as a whole
\* and as its last word on each record says, also when the process dies or a
\* statement fails half way; time removes only what is over.
Zone == INSTANCE DynamicZone WITH
            Batches <- Batches \cup {DeleteLine(l) : l \in Lines}
ZoneSpec == Zone!Spec

\* An ID that was given out keeps its record until that record is gone, and
\* never comes back for another one, so a client that deletes by ID never hits
\* a record it did not see.  (An ID taken by a transaction that was rolled back
\* was never shown to anybody.)
IdsKeepTheirRecord ==
    [][/\ lastId' >= lastId
       /\ \A i \in DOMAIN rows' :
              \/ i \in DOMAIN rows /\ rows'[i].text = rows[i].text
              \/ i > lastId]_vars

\* No two rows hold the same record, so the UNIQUE constraint of the schema
\* never fails an INSERT; in the middle of a transaction too.
TextsUnique ==
    \A t \in {rows, op.table} : \A i, j \in DOMAIN t :
        t[i].text = t[j].text => i = j

\* A record is never shown with more seconds left than it was given.
ShownLifeBounded ==
    \A l \in reply.lines : l.ttl <= MaxTTL /\ l.ttl >= 0

\* What is over does not stay in the file for ever.
OverdueIsSwept ==
    \A i \in 1..MaxId :
        (i \in DOMAIN rows /\ rows[i].expire \in 1..(Second(now) - 1))
            ~> (i \in DOMAIN rows => rows[i].expire \notin 1..(Second(now) - 1))
=============================================================================
