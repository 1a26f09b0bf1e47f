------------------------ MODULE SqliteResolverProofs ------------------------
(***************************************************************************)
(* Theorems about SqliteResolver, for any records, batches and bounds.     *)
(***************************************************************************)
EXTENDS SqliteResolver, SequenceTheorems, TLAPS

\* No row, stored or in a transaction, outlives the largest TTL from now.
LifeBounded ==
    \A t \in {rows, op.table} : \A i \in DOMAIN t :
        t[i].expire <= Second(now) + MaxTTL

\* IDs up to the counter; a transaction adds IDs above the stored counter and
\* leaves the records of the others alone.
IdsBounded ==
    /\ \A i \in DOMAIN rows : i <= lastId
    /\ op.kind = "set" =>
          /\ op.last >= lastId
          /\ \A i \in DOMAIN op.table :
                /\ i <= op.last
                /\ \/ i > lastId
                   \/ i \in DOMAIN rows /\ op.table[i].text = rows[i].text

-----------------------------------------------------------------------------
\* Lemmas on time, commands and tables.

\* The TTL shown of a row that is not past and bounded is between 0 and MaxTTL.
LEMMA ShownBounds ==
    ASSUME now \in Nat, NEW e \in Nat,
           e <= Second(now) + MaxTTL, ~ (2 * e < now)
    PROVE  ShownTTL(e) \in 0..MaxTTL
BY BoundAssumption DEF ShownTTL, Second

\* A command gives its row an expiry at most MaxTTL from now.
LEMMA ExpireBounds ==
    ASSUME now \in Nat, NEW c \in Commands
    PROVE  ExpireOf(c) \in Nat /\ ExpireOf(c) <= Second(now) + MaxTTL
BY BoundAssumption DEF ExpireOf, Second, Commands

\* The clock's second never goes back.
LEMMA SecondGrows ==
    ASSUME NEW t \in Nat
    PROVE  Second(t) \in Nat /\ Second(t) <= Second(t + 1)
BY DEF Second

\* What a command leaves to do is a sequence of commands.
LEMMA CascadeType ==
    ASSUME NEW c \in Commands
    PROVE  Cascade(c) \in Seq(Commands)
<1> DEFINE p == [op |-> c.op, text |-> Reverse[c.text], ttl |-> c.ttl,
                 id |-> NoId, kind |-> c.kind]
<1>1. CASE c.text \in DOMAIN Reverse
  <2>1. p \in Commands
    BY <1>1, TextAssumption DEF Commands
  <2> HIDE DEF p
  <2>2. <<p>> \in Seq(Commands)
    BY <2>1
  <2> QED BY <1>1, <2>2 DEF Cascade, p
<1>2. CASE c.text \notin DOMAIN Reverse
  BY <1>2 DEF Cascade
<1> QED BY <1>1, <1>2

LEMMA CommandType ==
    ASSUME TypeOK, NEW o, InTransaction(o)
    PROVE  /\ Command \in Commands
           /\ Cascade(Command) \o Tail(op.todo) \in Seq(Commands)
<1>1. op.todo \in Seq(Commands) /\ op.todo # <<>>
  BY DEF TypeOK, InTransaction
<1>2. Command \in Commands /\ Tail(op.todo) \in Seq(Commands)
  BY <1>1, HeadTailProperties DEF Command
<1>3. Cascade(Command) \in Seq(Commands)
  BY <1>2, CascadeType
<1> QED
  BY <1>2, <1>3, ConcatProperties

\* A table without some of its rows.
LEMMA FewerRows ==
    ASSUME NEW t, IsTable(t), NEW ids, NEW m,
           \A i \in DOMAIN t : t[i].expire <= m
    PROVE  /\ IsTable(Without(t, ids))
           /\ \A i \in DOMAIN Without(t, ids) : Without(t, ids)[i].expire <= m
BY DEF Without, IsTable

\* The tables of a state, and the life of their rows.
LEMMA Tables ==
    ASSUME TypeOK, LifeBounded, NEW t \in {rows, op.table}
    PROVE  IsTable(t) /\ \A i \in DOMAIN t : t[i].expire <= Second(now) + MaxTTL
BY DEF TypeOK, LifeBounded

\* The three statements of a transaction: what they do to its table.
LEMMA Statements ==
    ASSUME TypeOK, LifeBounded, Update \/ Insert \/ Delete
    PROVE  /\ op.kind = "set" /\ op'.kind = "set" /\ op'.batch = op.batch
           /\ op'.todo \in Seq(Commands) /\ op'.last \in 0..MaxId
           /\ IsTable(op'.table)
           /\ \A i \in DOMAIN op'.table : op'.table[i].expire <= Second(now) + MaxTTL
           /\ UNCHANGED <<rows, lastId, reply, now, calls>>
<1>1. CASE Update
  <2>1. Command \in Commands /\ Cascade(Command) \o Tail(op.todo) \in Seq(Commands)
    BY <1>1, CommandType DEF Update
  <2>2. ExpireOf(Command) \in Nat /\ ExpireOf(Command) <= Second(now) + MaxTTL
    BY <2>1, ExpireBounds DEF TypeOK
  <2> DEFINE r(i) == IF i \in Existing(Command)
                     THEN [op.table[i] EXCEPT !.ttl = Command.ttl,
                                              !.expire = ExpireOf(Command)]
                     ELSE op.table[i]
             t == [i \in DOMAIN op.table |-> r(i)]
  <2>3. ASSUME NEW i \in DOMAIN op.table
        PROVE  r(i) \in Row /\ r(i).expire <= Second(now) + MaxTTL
    <3>1. op.table[i] \in Row /\ op.table[i].expire <= Second(now) + MaxTTL
      BY <2>3 DEF TypeOK, IsTable, LifeBounded
    <3>2. Command.ttl \in 0..MaxTTL
      BY <2>1 DEF Commands
    <3> QED BY <2>2, <3>1, <3>2 DEF Row
  <2> HIDE DEF r
  <2>4. IsTable(t) /\ \A i \in DOMAIN t : t[i].expire <= Second(now) + MaxTTL
    BY <2>3 DEF TypeOK, IsTable
  <2>5. Proceed(t, op.last)
    BY <1>1 DEF Update, r
  <2> HIDE DEF t
  <2> QED
    <3>1. op.kind = "set" /\ op.last \in 0..MaxId
      BY <1>1 DEF Update, InTransaction, TypeOK
    <3> QED BY <2>1, <2>4, <2>5, <3>1 DEF Proceed
<1>2. CASE Insert
  <2>1. Command \in Commands /\ Cascade(Command) \o Tail(op.todo) \in Seq(Commands)
    BY <1>2, CommandType DEF Insert
  <2>2. ExpireOf(Command) \in Nat /\ ExpireOf(Command) <= Second(now) + MaxTTL
    BY <2>1, ExpireBounds DEF TypeOK
  <2> DEFINE n == NewId(Command)
             r == [text |-> Command.text, ttl |-> Command.ttl,
                   expire |-> ExpireOf(Command)]
             t == [i \in DOMAIN op.table \cup {n} |->
                      IF i = n THEN r ELSE op.table[i]]
  <2>3. n \in 1..MaxId
    BY <1>2, BoundAssumption DEF Insert, NewId, TypeOK
  <2>4. r \in Row /\ r.expire <= Second(now) + MaxTTL
    BY <2>1, <2>2 DEF Row, Commands
  <2>5. Proceed(t, n)
    BY <1>2 DEF Insert
  <2> HIDE DEF n, r
  <2>6. IsTable(t) /\ \A i \in DOMAIN t : t[i].expire <= Second(now) + MaxTTL
    BY <2>3, <2>4 DEF TypeOK, IsTable, LifeBounded
  <2> HIDE DEF t
  <2> QED
    <3>1. op.kind = "set" /\ n \in 0..MaxId
      BY <1>2, <2>3, BoundAssumption DEF Insert, InTransaction
    <3> QED BY <2>1, <2>5, <2>6, <3>1 DEF Proceed
<1>3. CASE Delete
  <2>1. Command \in Commands /\ Cascade(Command) \o Tail(op.todo) \in Seq(Commands)
    BY <1>3, CommandType DEF Delete
  <2> DEFINE t == Without(op.table, Matched(Command))
  <2>2. IsTable(t) /\ \A i \in DOMAIN t : t[i].expire <= Second(now) + MaxTTL
    <3> DEFINE m == Second(now) + MaxTTL
    <3>1. IsTable(op.table) /\ \A i \in DOMAIN op.table : op.table[i].expire <= m
      BY Tables
    <3> HIDE DEF m
    <3>2. IsTable(t) /\ \A i \in DOMAIN t : t[i].expire <= m
      BY <3>1, FewerRows
    <3> QED BY <3>2 DEF m
  <2>3. Proceed(t, op.last)
    BY <1>3 DEF Delete
  <2> HIDE DEF t
  <2> QED
    <3>1. op.kind = "set" /\ op.last \in 0..MaxId
      BY <1>3 DEF Delete, InTransaction, TypeOK
    <3> QED BY <2>1, <2>2, <2>3, <3>1 DEF Proceed
<1> QED BY <1>1, <1>2, <1>3

\* The operation nobody is in.
LEMMA IdleType ==
    /\ Idle.kind = "none" /\ Idle.batch \in Seq(Commands)
    /\ Idle.todo \in Seq(Commands) /\ IsTable(Idle.table)
    /\ Idle.last \in 0..MaxId /\ DOMAIN Idle.table = {}
BY BoundAssumption DEF Idle, IsTable

-----------------------------------------------------------------------------
\* A step keeps the tables well typed and the lives of rows bounded.
LEMMA TypeStep ==
    ASSUME TypeOK, LifeBounded, [Next]_vars
    PROVE  TypeOK' /\ LifeBounded'
<1>1. ASSUME Update \/ Insert \/ Delete PROVE TypeOK' /\ LifeBounded'
  BY <1>1, Statements DEF TypeOK, LifeBounded
<1>2. ASSUME NEW b \in Batches \cup {DeleteLine(l) : l \in reply.lines}, Begin(b)
      PROVE  TypeOK' /\ LifeBounded'
  <2>1. b \in Seq(Commands)
    <3>1. ASSUME NEW l \in Lines PROVE DeleteLine(l) \in Seq(Commands)
      <4> DEFINE c == [op |-> "drop", text |-> l.text, ttl |-> l.ttl,
                       id |-> l.id, kind |-> l.kind]
      <4>1. c \in Commands
        BY BoundAssumption DEF Commands, Lines, Kinds
      <4> HIDE DEF c
      <4>2. <<c>> \in Seq(Commands)
        BY <4>1
      <4> QED BY <4>2 DEF DeleteLine, c
    <3> QED BY <1>2, <3>1, BatchAssumption DEF TypeOK
  <2> QED
    BY <1>2, <2>1, BoundAssumption DEF Begin, Enter, TypeOK, LifeBounded
<1>3. ASSUME Commit PROVE TypeOK' /\ LifeBounded'
  BY <1>3, BoundAssumption DEF Commit, Idle, Returned, TypeOK, LifeBounded, IsTable
<1>4. ASSUME Fail \/ Crash PROVE TypeOK' /\ LifeBounded'
  <2>1. op' = Idle /\ UNCHANGED <<rows, lastId, now, calls>>
        /\ reply'.res \in {"none", "ok", "error"} /\ reply'.lines \subseteq Lines
    BY <1>4 DEF Fail, Crash, Nothing, Returned
  <2> QED BY <2>1, IdleType DEF TypeOK, LifeBounded
<1>5. ASSUME NEW ids, Query(ids) PROVE TypeOK' /\ LifeBounded'
  <2> DEFINE t == Without(rows, {i \in DOMAIN rows :
                                    i \notin ids \/ ~ Alive(rows[i])})
  <2>1. IsTable(t) /\ \A i \in DOMAIN t : t[i].expire <= Second(now) + MaxTTL
    <3> DEFINE m == Second(now) + MaxTTL
    <3>1. IsTable(rows) /\ \A i \in DOMAIN rows : rows[i].expire <= m
      BY Tables
    <3> HIDE DEF m
    <3>2. IsTable(t) /\ \A i \in DOMAIN t : t[i].expire <= m
      BY <3>1, FewerRows
    <3> QED BY <3>2 DEF m
  <2>2. /\ op' = [kind |-> "read", batch |-> <<>>, todo |-> <<>>, table |-> t,
                  last |-> 0]
        /\ UNCHANGED <<rows, lastId, reply, now>> /\ calls' = calls + 1
        /\ calls < MaxCalls
    BY <1>5 DEF Query, Enter
  <2> HIDE DEF t
  <2> QED BY <2>1, <2>2, BoundAssumption DEF TypeOK, LifeBounded
<1>6. ASSUME Scan PROVE TypeOK' /\ LifeBounded'
  <2>1. ASSUME ~ (\E i \in DOMAIN op.table : IsPast(op.table[i])),
               NEW i \in DOMAIN op.table
        PROVE  LineOf(i) \in Lines
    <3>1. op.table[i] \in Row /\ i \in 1..MaxId
          /\ op.table[i].expire <= Second(now) + MaxTTL
      BY <2>1 DEF TypeOK, IsTable, LifeBounded
    <3>2. CASE op.table[i].expire = 0
      BY <3>1, <3>2 DEF LineOf, Lines, Row, Kinds
    <3>3. CASE op.table[i].expire # 0
      <4>1. ShownTTL(op.table[i].expire) \in 0..MaxTTL
        BY <2>1, <3>1, <3>3, ShownBounds DEF IsPast, Row, TypeOK
      <4> QED BY <3>1, <3>3, <4>1 DEF LineOf, Lines, Row, Kinds
    <3> QED BY <3>2, <3>3
  <2>2. /\ op' = Idle /\ UNCHANGED <<rows, lastId, now, calls>>
        /\ reply'.res \in {"none", "ok", "error"} /\ reply'.lines \subseteq Lines
    BY <1>6, <2>1 DEF Scan, Returned
  <2> QED
    BY <2>2, IdleType DEF TypeOK, LifeBounded
<1>7. ASSUME NEW id, RemoveRecord(id) PROVE TypeOK' /\ LifeBounded'
  <2>1. PICK ids : rows' = rows \/ rows' = Without(rows, ids)
    BY <1>7 DEF RemoveRecord
  <2>2. /\ UNCHANGED <<lastId, op, now>> /\ calls' = calls + 1 /\ calls < MaxCalls
        /\ reply'.res \in {"ok", "error"} /\ reply'.lines = {}
    BY <1>7 DEF RemoveRecord, Enter, Returned
  <2>3. IsTable(rows') /\ \A i \in DOMAIN rows' :
                             rows'[i].expire <= Second(now) + MaxTTL
    <3> DEFINE m == Second(now) + MaxTTL
    <3>1. IsTable(rows) /\ \A i \in DOMAIN rows : rows[i].expire <= m
      BY Tables
    <3> HIDE DEF m
    <3>2. IsTable(rows') /\ \A i \in DOMAIN rows' : rows'[i].expire <= m
      BY <2>1, <3>1, FewerRows
    <3> QED BY <3>2 DEF m
  <2> QED BY <2>2, <2>3, BoundAssumption DEF TypeOK, LifeBounded
<1>8. ASSUME Sweep PROVE TypeOK' /\ LifeBounded'
  <2>1. PICK ids : rows' = Without(rows, ids)
    BY <1>8 DEF Sweep
  <2> QED BY <1>8, <2>1, FewerRows DEF Sweep, TypeOK, LifeBounded
<1>9. ASSUME Tick PROVE TypeOK' /\ LifeBounded'
  <2>1. UNCHANGED <<rows, op>> /\ Second(now) <= Second(now') /\ Second(now) \in Nat
        /\ Second(now') \in Nat
    BY <1>9, SecondGrows DEF Tick, TypeOK
  <2>2. LifeBounded'
    BY <2>1, BoundAssumption DEF LifeBounded, TypeOK, IsTable, Row
  <2> QED BY <1>9, <2>2 DEF Tick, TypeOK
<1>10. UNCHANGED vars => TypeOK' /\ LifeBounded'
  BY DEF vars, TypeOK, LifeBounded
<1> QED
  BY <1>1, <1>2, <1>3, <1>4, <1>5, <1>6, <1>7, <1>8, <1>9, <1>10
  DEF Next, Step

\* Every reachable state is well typed, and no row lives longer than MaxTTL.
THEOREM TypeCorrect == Spec => [](TypeOK /\ LifeBounded)
<1>1. Init => TypeOK /\ LifeBounded
  BY BoundAssumption DEF Init, TypeOK, LifeBounded, IsTable, Idle, Nothing
<1>2. TypeOK /\ LifeBounded /\ [Next]_vars => TypeOK' /\ LifeBounded'
  BY TypeStep
<1> QED BY <1>1, <1>2, PTL DEF Spec

\* A record is never shown with more seconds left than any client may give it:
\* the rounding in NewRecordWithExpire does not lengthen a life, and the test
\* before it keeps it from becoming negative.
THEOREM ShownInRange == Spec => []ShownLifeBounded
<1>1. TypeOK /\ LifeBounded => ShownLifeBounded
  BY BoundAssumption DEF TypeOK, ShownLifeBounded, Lines
<1> QED BY <1>1, TypeCorrect, PTL

-----------------------------------------------------------------------------
\* No two rows hold the same record, in the file or in a transaction: an INSERT
\* only follows an UPDATE that found nothing, under one mutex.
THEOREM NoDuplicates == Spec => []TextsUnique
<1>1. Init => TextsUnique
  BY DEF Init, TextsUnique, Idle
<1>2. TypeOK /\ LifeBounded /\ TextsUnique /\ [Next]_vars => TextsUnique'
  <2> SUFFICES ASSUME TypeOK, LifeBounded, TextsUnique, [Next]_vars
               PROVE  TextsUnique'
    OBVIOUS
  <2> DEFINE Distinct(t) == \A i, j \in DOMAIN t : t[i].text = t[j].text => i = j
  <2>1. Distinct(rows) /\ Distinct(op.table)
    BY DEF TextsUnique
  <2>2. ASSUME NEW t, IsTable(t), Distinct(t), NEW ids PROVE Distinct(Without(t, ids))
    BY <2>2 DEF Without
  <2>3. Distinct(Idle.table)
    BY IdleType
  <2>4. Distinct(rows') /\ Distinct((op').table) => TextsUnique'
    BY DEF TextsUnique
  <2>5. IsTable(rows) /\ IsTable(op.table)
    BY DEF TypeOK
  <2>6. CASE Update
    <3> DEFINE r(i) == IF i \in Existing(Command)
                       THEN [op.table[i] EXCEPT !.ttl = Command.ttl,
                                                !.expire = ExpireOf(Command)]
                       ELSE op.table[i]
               t == [i \in DOMAIN op.table |-> r(i)]
    <3>1. ASSUME NEW i \in DOMAIN op.table PROVE r(i).text = op.table[i].text
      <4>1. op.table[i] \in Row
        BY <2>5, <3>1 DEF IsTable
      <4> QED BY <4>1 DEF Row
    <3>2. Proceed(t, op.last)
      BY <2>6 DEF Update
    <3> HIDE DEF r
    <3>3. Distinct(t)
      BY <2>1, <3>1
    <3> HIDE DEF t
    <3> QED BY <2>1, <2>4, <3>2, <3>3 DEF Proceed
  <2>7. CASE Insert
    <3> DEFINE n == NewId(Command)
               r == [text |-> Command.text, ttl |-> Command.ttl,
                     expire |-> ExpireOf(Command)]
               t == [i \in DOMAIN op.table \cup {n} |->
                        IF i = n THEN r ELSE op.table[i]]
    <3>1. Proceed(t, n) /\ r.text = Command.text
      BY <2>7 DEF Insert
    <3>2. \A i \in DOMAIN op.table : op.table[i].text # Command.text
      BY <2>7 DEF Insert, Existing, SameText
    <3> HIDE DEF n, r
    <3>3. Distinct(t)
      BY <2>1, <3>1, <3>2
    <3> HIDE DEF t
    <3> QED BY <2>1, <2>4, <3>1, <3>3 DEF Proceed
  <2>8. CASE Delete
    <3>1. Proceed(Without(op.table, Matched(Command)), op.last)
      BY <2>8 DEF Delete
    <3> QED BY <2>1, <2>2, <2>4, <2>5, <3>1 DEF Proceed
  <2>9. CASE Commit
    BY <2>1, <2>3, <2>4, <2>9 DEF Commit
  <2>10. CASE Scan \/ Fail \/ Crash
    BY <2>1, <2>3, <2>4, <2>10 DEF Scan, Fail, Crash
  <2>11. ASSUME NEW b, Begin(b) PROVE TextsUnique'
    BY <2>1, <2>4, <2>11 DEF Begin
  <2>12. ASSUME NEW ids, Query(ids) PROVE TextsUnique'
    <3>1. PICK s : (op').table = Without(rows, s)
      BY <2>12 DEF Query
    <3>2. UNCHANGED rows
      BY <2>12 DEF Query
    <3> QED BY <2>1, <2>2, <2>4, <2>5, <3>1, <3>2
  <2>13. ASSUME NEW id, RemoveRecord(id) PROVE TextsUnique'
    <3>1. PICK s : rows' = rows \/ rows' = Without(rows, s)
      BY <2>13 DEF RemoveRecord
    <3>2. UNCHANGED op
      BY <2>13 DEF RemoveRecord
    <3> QED BY <2>1, <2>2, <2>4, <2>5, <3>1, <3>2
  <2>14. CASE Sweep
    <3>1. PICK s : rows' = Without(rows, s)
      BY <2>14 DEF Sweep
    <3>2. UNCHANGED op
      BY <2>14 DEF Sweep
    <3> QED BY <2>1, <2>2, <2>4, <2>5, <3>1, <3>2
  <2>15. CASE Tick \/ UNCHANGED vars
    BY <2>1, <2>4, <2>15 DEF Tick, vars
  <2> QED
    BY <2>6, <2>7, <2>8, <2>9, <2>10, <2>11, <2>12, <2>13, <2>14, <2>15
    DEF Next, Step
<1> QED BY <1>1, <1>2, TypeCorrect, PTL DEF Spec

-----------------------------------------------------------------------------
\* An ID keeps its record in a step: the table a transaction commits has new
\* records only under IDs above every ID that was ever committed.
IdsKept ==
    /\ lastId' >= lastId
    /\ \A i \in DOMAIN rows' :
           \/ i \in DOMAIN rows /\ rows'[i].text = rows[i].text
           \/ i > lastId

LEMMA IdsStep ==
    ASSUME TypeOK, LifeBounded, IdsBounded, [Next]_vars
    PROVE  IdsBounded' /\ IdsKept
<1>0. /\ lastId \in Nat /\ op.last \in Nat
      /\ \A i \in DOMAIN rows : i \in Nat
      /\ \A i \in DOMAIN op.table : i \in Nat
  BY BoundAssumption DEF TypeOK, IsTable
<1>1. CASE Update \/ Insert \/ Delete
  <2>1. /\ op.kind = "set" /\ UNCHANGED <<rows, lastId>>
        /\ op'.kind = "set"
    BY <1>1, Statements
  <2>2. /\ op'.last >= op.last
        /\ \A i \in DOMAIN op'.table :
              \/ i \in DOMAIN op.table /\ op'.table[i].text = op.table[i].text
              \/ i > op.last /\ i <= op'.last
    <3>1. CASE Update
      <4> DEFINE r(i) == IF i \in Existing(Command)
                         THEN [op.table[i] EXCEPT !.ttl = Command.ttl,
                                                  !.expire = ExpireOf(Command)]
                         ELSE op.table[i]
                 t == [i \in DOMAIN op.table |-> r(i)]
      <4>1. ASSUME NEW i \in DOMAIN op.table PROVE r(i).text = op.table[i].text
        <5>1. op.table[i] \in Row
          BY <4>1 DEF TypeOK, IsTable
        <5> QED BY <5>1 DEF Row
      <4>2. Proceed(t, op.last)
        BY <3>1 DEF Update
      <4> HIDE DEF r
      <4>3. \A i \in DOMAIN t : i \in DOMAIN op.table
                                /\ t[i].text = op.table[i].text
        BY <4>1
      <4> HIDE DEF t
      <4> QED BY <1>0, <4>2, <4>3 DEF Proceed
    <3>2. CASE Insert
      <4> DEFINE n == NewId(Command)
                 r == [text |-> Command.text, ttl |-> Command.ttl,
                       expire |-> ExpireOf(Command)]
                 t == [i \in DOMAIN op.table \cup {n} |->
                          IF i = n THEN r ELSE op.table[i]]
      <4>1. Proceed(t, n)
        BY <3>2 DEF Insert
      <4>2. n = op.last + 1
        BY DEF NewId
      <4> HIDE DEF n, r
      <4>3. \A i \in DOMAIN t : \/ i = n
                                \/ i \in DOMAIN op.table /\ t[i] = op.table[i]
        OBVIOUS
      <4> HIDE DEF t
      <4>4. op'.last = n /\ op'.table = t
        BY <4>1 DEF Proceed
      <4>5. n > op.last /\ n <= op'.last
        BY <1>0, <4>2, <4>4
      <4> QED BY <1>0, <4>2, <4>3, <4>4, <4>5
    <3>3. CASE Delete
      <4> DEFINE t == Without(op.table, Matched(Command))
      <4>1. Proceed(t, op.last)
        BY <3>3 DEF Delete
      <4>2. \A i \in DOMAIN t : i \in DOMAIN op.table /\ t[i] = op.table[i]
        BY DEF Without
      <4> HIDE DEF t
      <4> QED BY <1>0, <4>1, <4>2 DEF Proceed
    <3> QED BY <1>1, <3>1, <3>2, <3>3
  <2>3. op'.last \in Nat /\ \A i \in DOMAIN op'.table : i \in Nat
    BY <1>1, Statements, BoundAssumption DEF IsTable
  <2> QED
    BY <1>0, <2>1, <2>2, <2>3 DEF IdsBounded, IdsKept
<1>2. CASE Commit
  <2>1. op.kind = "set" /\ rows' = op.table /\ lastId' = op.last
        /\ (op').kind # "set"
    BY <1>2 DEF Commit, Idle
  <2> QED BY <1>0, <2>1 DEF IdsBounded, IdsKept
<1>3. CASE Scan \/ Fail \/ Crash
  BY <1>0, <1>3 DEF Scan, Fail, Crash, Idle, IdsBounded, IdsKept
<1>4. ASSUME NEW b, Begin(b) PROVE IdsBounded' /\ IdsKept
  BY <1>0, <1>4 DEF Begin, IdsBounded, IdsKept
<1>5. ASSUME NEW ids, Query(ids)
      PROVE  IdsBounded' /\ IdsKept
  BY <1>0, <1>5 DEF Query, IdsBounded, IdsKept
<1>6. ASSUME NEW s, rows' = rows \/ rows' = Without(rows, s), op.kind = "none",
             UNCHANGED <<lastId, op>>
      PROVE  IdsBounded' /\ IdsKept
  <2>1. \A i \in DOMAIN rows' : i \in DOMAIN rows /\ rows'[i] = rows[i]
    BY <1>6 DEF Without
  <2> QED BY <1>0, <1>6, <2>1 DEF IdsBounded, IdsKept
<1>7. ASSUME NEW id, RemoveRecord(id)
      PROVE  IdsBounded' /\ IdsKept
  BY <1>6, <1>7 DEF RemoveRecord, Enter
<1>8. CASE Sweep
  BY <1>6, <1>8 DEF Sweep
<1>9. CASE Tick \/ UNCHANGED vars
  BY <1>0, <1>9 DEF Tick, vars, IdsBounded, IdsKept
<1> QED
  BY <1>1, <1>2, <1>3, <1>4, <1>5, <1>7, <1>8, <1>9 DEF Next, Step

\* IDs are given out from the counter, also inside a transaction.
THEOREM IdsBelowCounter == Spec => []IdsBounded
<1>1. Init => IdsBounded
  BY DEF Init, IdsBounded, Idle
<1>2. TypeOK /\ LifeBounded /\ IdsBounded /\ [Next]_vars => IdsBounded'
  BY IdsStep
<1> QED BY <1>1, <1>2, TypeCorrect, PTL DEF Spec

\* An ID keeps its record for ever.
THEOREM IdsStable == Spec => IdsKeepTheirRecord
<1>1. TypeOK /\ LifeBounded /\ IdsBounded /\ [Next]_vars => [IdsKept]_vars
  BY IdsStep
<1> QED
  BY <1>1, IdsBelowCounter, TypeCorrect, PTL DEF Spec, IdsKeepTheirRecord, IdsKept

-----------------------------------------------------------------------------
(***************************************************************************)
(* SqliteResolver implements DynamicZone.  The abstract zone states the    *)
(* outcome of a batch from the last command that mentions a record; the    *)
(* resolver runs the commands one statement after another.  The invariant  *)
(* that ties them together says that, at each moment of a transaction, its *)
(* table is the outcome of the commands that were run so far.              *)
(***************************************************************************)
Batch == op.batch

\* Of the commands b the first p were run, but for the PTR record of the last of
\* them when q = 1, and todo is left.
AtOf(b, todo, p, q) ==
    /\ p \in 0..Len(b) /\ q \in {0, 1}
    /\ Len(todo) = Len(b) - p + q
    /\ q = 1 => p > 0 /\ b[p].text \in DOMAIN Reverse /\ todo[1] = Cascade(b[p])[1]
    /\ \A i \in 1..Len(b) : i > p => todo[i - p + q] = b[i]

At(p, q) == AtOf(op.batch, op.todo, p, q)

\* The commands that were run on record x by then.
RunAt(p, q, x) ==
    {k \in DOMAIN Batch : /\ Zone!Mentions(Batch, k, x)
                          /\ k < p \/ (k = p /\ (q = 1 => Batch[k].text = x))}

\* The IDs that a record may have when a transaction has given out IDs up to n.
MayBe(x, n) == Zone!IdsOf(x) \cup (lastId + 1 .. n)

LeftOf(t, x) == {i \in DOMAIN t : t[i].text = x}

\* The outcome of the commands D on the record x, in table t: none of them sets it,
NeverSet(D, x, t) ==
    /\ \A k \in D : Batch[k].op # "set"
    /\ LeftOf(t, x) = {i \in Zone!IdsOf(x) :
                          ~ \E k \in D : Zone!Drops(Batch, k, x, i, rows[i].ttl)}
    /\ \A i \in LeftOf(t, x) : t[i] = rows[i]

\* ... or s is the last one that does.
Dropped(D, s, x, i) == \E k \in D : k > s /\ Zone!Drops(Batch, k, x, i, Batch[s].ttl)
SetLastBy(s, D, x, t, n) ==
    /\ s \in D /\ Batch[s].op = "set" /\ \A k \in D : Batch[k].op = "set" => k <= s
    /\ \/ LeftOf(t, x) = {} /\ \E i \in MayBe(x, n) : Dropped(D, s, x, i)
       \/ \E i \in MayBe(x, n) :
             /\ LeftOf(t, x) = {i} /\ ~ Dropped(D, s, x, i)
             /\ t[i].ttl = Batch[s].ttl /\ Zone!LifeOf(Batch[s], t[i].expire)

OutcomeOf(D, x, t, n) == NeverSet(D, x, t) \/ \E s \in D : SetLastBy(s, D, x, t, n)

\* The invariant of a transaction.
Running ==
    op.kind = "set" =>
        /\ Batch \in Seq(Commands)
        /\ Batch \in Batches \cup {DeleteLine(l) : l \in Lines}
        /\ \E p \in 0..Len(Batch), q \in {0, 1} :
              At(p, q) /\ \A x \in Texts : OutcomeOf(RunAt(p, q, x), x, op.table, op.last)

\* Everything the proof relies on.
ZoneInv == TypeOK /\ LifeBounded /\ TextsUnique /\ IdsBounded /\ Running

-----------------------------------------------------------------------------
\* Statement m is command j of the batch, as far as its record is concerned.
RunsCommand(j, m) ==
    /\ j \in DOMAIN Batch /\ m \in Commands
    /\ m.op = Batch[j].op /\ m.ttl = Batch[j].ttl /\ m.kind = Batch[j].kind
    /\ Zone!Mentions(Batch, j, m.text)
    /\ m.id = IF Batch[j].text = m.text THEN Batch[j].id ELSE NoId

\* Each statement of a transaction is the next command, or its PTR record.
LEMMA NextStatement ==
    ASSUME TypeOK, NEW o, InTransaction(o), NEW p \in Nat, NEW q \in Nat, At(p, q),
           NEW t, NEW n, Proceed(t, n)
    PROVE  \E j \in DOMAIN Batch, p2 \in Nat, q2 \in Nat :
              /\ RunsCommand(j, Command) /\ At(p2, q2)'
              /\ \A x \in Texts :
                    /\ \A k \in RunAt(p, q, x) :
                          k \in DOMAIN Batch /\ (x = Command.text => k < j)
                    /\ RunAt(p2, q2, x)' = IF x = Command.text
                                           THEN RunAt(p, q, x) \cup {j}
                                           ELSE RunAt(p, q, x)
<1>1. /\ Batch \in Seq(Commands) /\ op.todo \in Seq(Commands) /\ op.todo # <<>>
      /\ DOMAIN Batch = 1..Len(Batch) /\ Len(Batch) \in Nat
  BY DEF TypeOK, InTransaction, Batch
<1>2. /\ Command \in Commands /\ Command = op.todo[1]
      /\ Tail(op.todo) \in Seq(Commands) /\ Len(Tail(op.todo)) = Len(op.todo) - 1
      /\ \A i \in 1..Len(Tail(op.todo)) : Tail(op.todo)[i] = op.todo[i + 1]
      /\ Len(op.todo) \in Nat \ {0}
  BY <1>1, HeadTailProperties, LenProperties, EmptySeq DEF Command
<1>3. /\ op'.batch = Batch /\ op'.todo = Cascade(Command) \o Tail(op.todo)
  BY DEF Proceed, Batch
<1>4. \A k \in DOMAIN Batch : Batch[k] \in Commands
  BY <1>1
<1>7. /\ Len(Batch) \in Nat /\ Len(op.todo) \in Nat /\ Len(op.todo) > 0
      /\ Len(Tail(op.todo)) = Len(op.todo) - 1
  BY <1>1, <1>2
<1>5. CASE q = 1
  <2>1. /\ p \in 1..Len(Batch) /\ Batch[p].text \in DOMAIN Reverse
        /\ Command = [op |-> Batch[p].op, text |-> Reverse[Batch[p].text],
                      ttl |-> Batch[p].ttl, id |-> NoId, kind |-> Batch[p].kind]
    BY <1>1, <1>2, <1>5 DEF At, AtOf, Batch, Cascade
  <2>2. Command.text \notin DOMAIN Reverse /\ Command.text # Batch[p].text
    BY <2>1, TextAssumption
  <2>3. op'.todo = Tail(op.todo)
    BY <1>2, <1>3, <2>2, ConcatEmptySeq DEF Cascade
  <2>4. RunsCommand(p, Command)
    BY <1>1, <1>2, <2>1, <2>2 DEF RunsCommand, Zone!Mentions, Zone!Names
  <2>5. At(p, 0)'
    <3>1. Len(op'.todo) = Len(Batch) - p
      <4>1. Len(op.todo) = Len(Batch) - p + 1
        BY <1>5 DEF At, AtOf, Batch
      <4>2. Len(op'.todo) = Len(op.todo) - 1
        BY <1>7, <2>3
      <4> QED BY <1>7, <4>1, <4>2
    <3>2. ASSUME NEW i \in 1..Len(Batch), i > p PROVE op'.todo[i - p + 0] = Batch[i]
      <4>1. op.todo[i - p + 1] = Batch[i] /\ Len(op.todo) = Len(Batch) - p + 1
        BY <1>5, <3>2 DEF At, AtOf, Batch
      <4>2. i - p + 0 = i - p /\ i - p \in 1..Len(Tail(op.todo))
        BY <1>1, <1>2, <2>1, <3>2, <4>1
      <4> QED BY <1>2, <2>3, <4>1, <4>2
    <3>3. p \in 0..Len(Batch) /\ Len(op'.todo) = Len(Batch) - p + 0
      BY <1>7, <2>1, <3>1
    <3> DEFINE left == op'.todo
    <3> HIDE DEF left
    <3>4. AtOf(Batch, left, p, 0)
      BY <3>2, <3>3 DEF AtOf, left
    <3> QED BY <1>3, <3>4 DEF At, Batch, left
  <2>6. ASSUME NEW x \in Texts
        PROVE  /\ \A k \in RunAt(p, q, x) :
                     k \in DOMAIN Batch /\ (x = Command.text => k < p)
               /\ RunAt(p, 0, x)' = IF x = Command.text
                                    THEN RunAt(p, q, x) \cup {p} ELSE RunAt(p, q, x)
    <3>1. RunAt(p, 0, x)' = {k \in DOMAIN Batch : Zone!Mentions(Batch, k, x) /\ k <= p}
      BY <1>1, <1>3, <2>1 DEF RunAt, Batch, Zone!Mentions, Zone!Names
    <3>2. Zone!Mentions(Batch, p, x) <=> x = Batch[p].text \/ x = Command.text
      BY <2>1 DEF Zone!Mentions, Zone!Names
    <3> QED BY <1>1, <1>5, <2>1, <2>2, <3>1, <3>2 DEF RunAt
  <2> QED BY <1>1, <2>1, <2>4, <2>5, <2>6
<1>6. CASE q = 0
  <2>1. /\ p + 1 \in 1..Len(Batch) /\ Command = Batch[p + 1]
        /\ Len(Tail(op.todo)) = Len(Batch) - (p + 1)
        /\ \A i \in 1..Len(Batch) : i > p + 1 => Tail(op.todo)[i - (p + 1)] = Batch[i]
    <3>1. p \in 0..Len(Batch) /\ Len(op.todo) = Len(Batch) - p
      BY <1>6, <1>7 DEF At, AtOf, Batch
    <3>a. ASSUME NEW i \in 1..Len(Batch), i > p PROVE op.todo[i - p] = Batch[i]
      <4>1. i - p + 0 = i - p
        BY <1>7
      <4> QED BY <1>6, <3>a, <4>1 DEF At, AtOf, Batch
    <3>2. p + 1 \in 1..Len(Batch) /\ (p + 1) - p = 1 /\ p + 1 > p
      BY <1>7, <3>1
    <3>3. Command = Batch[p + 1]
      BY <1>2, <3>2, <3>a
    <3>b. Len(Tail(op.todo)) = Len(Batch) - (p + 1)
      BY <1>7, <3>1
    <3>4. ASSUME NEW i \in 1..Len(Batch), i > p + 1
          PROVE  Tail(op.todo)[i - (p + 1)] = Batch[i]
      <4>1. i - (p + 1) \in 1..Len(Tail(op.todo)) /\ (i - (p + 1)) + 1 = i - p
        BY <1>7, <3>b, <3>4
      <4>2. i > p /\ Tail(op.todo)[i - (p + 1)] = op.todo[i - p]
        BY <1>2, <1>7, <3>4, <4>1
      <4> QED BY <3>a, <4>2
    <3> QED BY <3>2, <3>3, <3>b, <3>4
  <2>2. RunsCommand(p + 1, Command)
    BY <1>1, <1>2, <2>1 DEF RunsCommand, Zone!Mentions, Zone!Names
  <2> PICK q2 \in {0, 1} : q2 = 1 <=> Command.text \in DOMAIN Reverse
    OBVIOUS
  <2>3. At(p + 1, q2)'
    <3>1. CASE Command.text \in DOMAIN Reverse
      <4> DEFINE c == Cascade(Command)
      <4>1. c \in Seq(Commands) /\ Len(c) = 1
        BY <1>2, <3>1, CascadeType DEF Cascade
      <4> HIDE DEF c
      <4>2. /\ Len(c \o Tail(op.todo)) = 1 + Len(Tail(op.todo))
            /\ \A i \in 1..(1 + Len(Tail(op.todo))) : (c \o Tail(op.todo))[i] =
                   IF i <= 1 THEN c[i] ELSE Tail(op.todo)[i - 1]
        <5>1. /\ Len(c \o Tail(op.todo)) = Len(c) + Len(Tail(op.todo))
              /\ \A i \in 1..(Len(c) + Len(Tail(op.todo))) : (c \o Tail(op.todo))[i] =
                    IF i <= Len(c) THEN c[i] ELSE Tail(op.todo)[i - Len(c)]
          BY <1>2, <4>1, ConcatProperties
        <5> QED BY <4>1, <5>1
      <4>3. /\ Len(c \o Tail(op.todo)) = Len(Batch) - (p + 1) + 1
            /\ (c \o Tail(op.todo))[1] = c[1]
        <5>1. 1 \in 1..(1 + Len(Tail(op.todo))) /\ 1 <= 1
          BY <1>7
        <5>2. 1 + Len(Tail(op.todo)) = Len(Batch) - (p + 1) + 1
          BY <1>7, <2>1
        <5> QED BY <4>2, <5>1, <5>2
      <4>4. ASSUME NEW i \in 1..Len(Batch), i > p + 1
            PROVE  (c \o Tail(op.todo))[i - (p + 1) + 1] = Batch[i]
        <5>1. /\ i - (p + 1) + 1 \in 1..(1 + Len(Tail(op.todo)))
              /\ i - (p + 1) + 1 > 1 /\ (i - (p + 1) + 1) - 1 = i - (p + 1)
          BY <1>7, <2>1, <4>4
        <5>2. (c \o Tail(op.todo))[i - (p + 1) + 1] = Tail(op.todo)[i - (p + 1)]
          BY <4>2, <5>1, SMTT(30)
        <5> QED BY <2>1, <4>4, <5>2
      <4>5. p + 1 \in 0..Len(Batch) /\ p + 1 > 0 /\ q2 = 1
        BY <1>7, <2>1, <3>1
      <4> QED BY <1>3, <2>1, <3>1, <4>3, <4>4, <4>5 DEF At, AtOf, Batch, c
    <3>2. CASE Command.text \notin DOMAIN Reverse
      <4>1. op'.todo = Tail(op.todo)
        BY <1>2, <1>3, <3>2, ConcatEmptySeq DEF Cascade
      <4>2. ASSUME NEW i \in 1..Len(Batch), i > p + 1
            PROVE  op'.todo[i - (p + 1) + 0] = Batch[i]
        <5>1. i - (p + 1) + 0 = i - (p + 1)
          BY <1>7
        <5> QED BY <2>1, <4>1, <4>2, <5>1
      <4>3. /\ p + 1 \in 0..Len(Batch) /\ q2 = 0
            /\ Len(op'.todo) = Len(Batch) - (p + 1) + 0
        BY <1>7, <2>1, <3>2, <4>1
      <4> DEFINE left == op'.todo
      <4> HIDE DEF left
      <4>4. AtOf(Batch, left, p + 1, q2)
        BY <4>2, <4>3 DEF AtOf, left
      <4> QED BY <1>3, <4>4 DEF At, Batch, left
    <3> QED BY <3>1, <3>2
  <2>4. ASSUME NEW x \in Texts
        PROVE  /\ \A k \in RunAt(p, q, x) :
                     k \in DOMAIN Batch /\ (x = Command.text => k < p + 1)
               /\ RunAt(p + 1, q2, x)' = IF x = Command.text
                                         THEN RunAt(p, q, x) \cup {p + 1}
                                         ELSE RunAt(p, q, x)
    <3>1. RunAt(p + 1, q2, x)' =
             {k \in DOMAIN Batch : /\ Zone!Mentions(Batch, k, x)
                                   /\ k < p + 1 \/ (k = p + 1 /\ (q2 = 1 => Batch[k].text = x))}
      BY <1>1, <1>3, <2>1 DEF RunAt, Batch, Zone!Mentions, Zone!Names
    <3>2. Zone!Mentions(Batch, p + 1, x) /\ q2 = 0 => x = Command.text
      BY <2>1 DEF Zone!Mentions, Zone!Names
    <3>3. x = Command.text => Zone!Mentions(Batch, p + 1, x)
      BY <2>1 DEF Zone!Mentions, Zone!Names
    <3>4. RunAt(p, q, x) =
             {k \in DOMAIN Batch : Zone!Mentions(Batch, k, x) /\ k < p + 1}
      BY <1>1, <1>6 DEF RunAt
    <3>5. \A k \in DOMAIN Batch : k < p + 1 => k # p + 1
      BY <1>1
    <3>6. CASE x = Command.text
      <4>1. ASSUME NEW k
            PROVE  k \in RunAt(p + 1, q2, x)' <=>
                      /\ k \in DOMAIN Batch /\ Zone!Mentions(Batch, k, x)
                      /\ k < p + 1 \/ k = p + 1
        <5>1. Batch[p + 1].text = x
          BY <2>1, <3>6
        <5>2. (k = p + 1 /\ (q2 = 1 => Batch[k].text = x)) <=> k = p + 1
          BY <5>1
        <5> QED BY <3>1, <5>2
      <4>2. p + 1 \in DOMAIN Batch
        BY <1>1, <2>1
      <4> QED BY <3>3, <3>4, <3>6, <4>1, <4>2
    <3>7. CASE x # Command.text
      <4>1. RunAt(p + 1, q2, x)' =
               {k \in DOMAIN Batch : Zone!Mentions(Batch, k, x) /\ k < p + 1}
        BY <2>1, <3>1, <3>2, <3>7
      <4> QED BY <3>4, <3>7, <4>1
    <3> QED BY <3>6, <3>7
  <2>5. p + 1 \in DOMAIN Batch /\ p + 1 \in Nat /\ q2 \in Nat
    BY <1>1, <2>1
  <2> QED BY <2>2, <2>3, <2>4, <2>5, Zenon
<1> QED BY <1>5, <1>6 DEF At, AtOf, Batch

-----------------------------------------------------------------------------
\* What a statement does to the rows of its record x, and to those of another one.

\* A statement that drops x: the abstract zone drops the same rows.
LEMMA DropMatches ==
    ASSUME NEW j, NEW m, RunsCommand(j, m), m.op = "drop", NEW i, NEW ttl
    PROVE  Zone!Drops(Batch, j, m.text, i, ttl) <=> m.ttl = ttl /\ m.id \in {NoId, i}
BY DEF RunsCommand, Zone!Drops, Zone!Names

LEMMA SetOutcome ==
    ASSUME NEW x, NEW D, NEW t, NEW n, NEW j \in Nat, NEW m, RunsCommand(j, m), now \in Nat,
           m.op = "set", \A k \in D : k \in Nat /\ k < j,
           NEW i \in MayBe(x, n), LeftOf(t, x) = {i},
           t[i].ttl = m.ttl, t[i].expire = ExpireOf(m)
    PROVE  SetLastBy(j, D \cup {j}, x, t, n)
<1>1. ~ Dropped(D \cup {j}, j, x, i)
  BY DEF Dropped
<1>2. Zone!LifeOf(Batch[j], t[i].expire)
  BY DEF RunsCommand, Zone!LifeOf, Zone!Second, ExpireOf, Second
<1>3. Batch[j].op = "set" /\ \A k \in D \cup {j} : k <= j
  BY DEF RunsCommand
<1>4. t[i].ttl = Batch[j].ttl
  BY DEF RunsCommand
<1> QED BY <1>1, <1>2, <1>3, <1>4 DEF SetLastBy

LEMMA DropOutcome ==
    ASSUME NEW x, NEW D, NEW t, NEW t2, NEW n, NEW j \in Nat, NEW m, RunsCommand(j, m),
           m.op = "drop", m.text = x, \A k \in D : k \in Nat /\ k < j,
           OutcomeOf(D, x, t, n),
           LeftOf(t2, x) = {i \in LeftOf(t, x) : ~ (t[i].ttl = m.ttl /\ m.id \in {NoId, i})},
           \A i \in LeftOf(t2, x) : t2[i] = t[i]
    PROVE  OutcomeOf(D \cup {j}, x, t2, n)
<1>1. Batch[j].op = "drop"
  BY DEF RunsCommand
<1>2. ASSUME NEW i, NEW ttl
      PROVE  Zone!Drops(Batch, j, x, i, ttl) <=> m.ttl = ttl /\ m.id \in {NoId, i}
  BY DropMatches
<1>3. CASE NeverSet(D, x, t)
  <2>1. \A k \in D \cup {j} : Batch[k].op # "set"
    BY <1>1, <1>3 DEF NeverSet
  <2>2. ASSUME NEW i
        PROVE  i \in LeftOf(t2, x) <=>
                  i \in Zone!IdsOf(x)
                  /\ ~ \E k \in D \cup {j} : Zone!Drops(Batch, k, x, i, rows[i].ttl)
    <3>1. i \in LeftOf(t, x) <=>
             i \in Zone!IdsOf(x) /\ ~ \E k \in D : Zone!Drops(Batch, k, x, i, rows[i].ttl)
      BY <1>3 DEF NeverSet
    <3>2. i \in LeftOf(t, x) => t[i] = rows[i]
      BY <1>3 DEF NeverSet
    <3> QED BY <1>2, <3>1, <3>2
  <2>3. \A i \in LeftOf(t2, x) : t2[i] = rows[i]
    BY <1>3 DEF NeverSet
  <2>4. LeftOf(t2, x) =
           {i \in Zone!IdsOf(x) :
               ~ \E k \in D \cup {j} : Zone!Drops(Batch, k, x, i, rows[i].ttl)}
    BY <2>2
  <2>5. NeverSet(D \cup {j}, x, t2)
    BY <2>1, <2>3, <2>4 DEF NeverSet
  <2> QED BY <2>5 DEF OutcomeOf
<1>4. ASSUME NEW s \in D, SetLastBy(s, D, x, t, n)
      PROVE  SetLastBy(s, D \cup {j}, x, t2, n)
  <2>1. /\ Batch[s].op = "set" /\ s < j
        /\ \A k \in D \cup {j} : Batch[k].op = "set" => k <= s
    BY <1>1, <1>4 DEF SetLastBy
  <2>2. ASSUME NEW i
        PROVE  Dropped(D \cup {j}, s, x, i) <=>
                  \/ Dropped(D, s, x, i)
                  \/ m.ttl = Batch[s].ttl /\ m.id \in {NoId, i}
    BY <1>2, <2>1 DEF Dropped
  <2>3. CASE LeftOf(t, x) = {} /\ \E i \in MayBe(x, n) : Dropped(D, s, x, i)
    BY <2>1, <2>2, <2>3 DEF SetLastBy
  <2>4. ASSUME NEW i \in MayBe(x, n), LeftOf(t, x) = {i}, ~ Dropped(D, s, x, i),
               t[i].ttl = Batch[s].ttl, Zone!LifeOf(Batch[s], t[i].expire)
        PROVE  SetLastBy(s, D \cup {j}, x, t2, n)
    <3>1. CASE t[i].ttl = m.ttl /\ m.id \in {NoId, i}
      <4>1. LeftOf(t2, x) = {} /\ Dropped(D \cup {j}, s, x, i)
        BY <2>2, <2>4, <3>1
      <4> QED BY <2>1, <2>4, <4>1 DEF SetLastBy
    <3>2. CASE ~ (t[i].ttl = m.ttl /\ m.id \in {NoId, i})
      <4>1. LeftOf(t2, x) = {i} /\ t2[i] = t[i] /\ ~ Dropped(D \cup {j}, s, x, i)
        BY <2>2, <2>4, <3>2
      <4> QED BY <2>1, <2>4, <4>1 DEF SetLastBy
    <3> QED BY <3>1, <3>2
  <2> QED BY <1>4, <2>3, <2>4 DEF SetLastBy
<1> QED BY <1>3, <1>4 DEF OutcomeOf

\* Nothing happened to x, though other records may have got IDs.
LEMMA SameOutcome ==
    ASSUME NEW x, NEW D, NEW t, NEW t2, NEW n \in Nat, NEW n2 \in Nat, n <= n2, lastId \in Nat,
           OutcomeOf(D, x, t, n), LeftOf(t2, x) = LeftOf(t, x),
           \A i \in LeftOf(t, x) : t2[i] = t[i]
    PROVE  OutcomeOf(D, x, t2, n2)
<1>1. MayBe(x, n) \subseteq MayBe(x, n2)
  BY DEF MayBe
<1>2. NeverSet(D, x, t) => NeverSet(D, x, t2)
  BY DEF NeverSet
<1>3. ASSUME NEW s \in D, SetLastBy(s, D, x, t, n) PROVE SetLastBy(s, D, x, t2, n2)
  BY <1>1, <1>3 DEF SetLastBy
<1> QED BY <1>2, <1>3 DEF OutcomeOf

\* At most one row holds a record, and it has one of the IDs it may have.
LEMMA OneLeft ==
    ASSUME NEW x, NEW D, NEW t, NEW n, OutcomeOf(D, x, t, n), NEW i \in LeftOf(t, x)
    PROVE  i \in MayBe(x, n)
BY DEF OutcomeOf, NeverSet, SetLastBy, MayBe

-----------------------------------------------------------------------------
\* The transaction goes on with the same batch, on the same stored table, while time
\* passes: its outcome so far stays one.
LEMMA OutcomeKept ==
    ASSUME NEW x, NEW D, NEW t, NEW n, OutcomeOf(D, x, t, n),
           Batch' = Batch, UNCHANGED <<rows, lastId>>,
           now \in Nat, now' \in Nat, now <= now'
    PROVE  OutcomeOf(D, x, t, n)'
<1>1. ASSUME NEW i, NEW k, NEW ttl
      PROVE  Zone!Drops(Batch, k, x, i, ttl)' <=> Zone!Drops(Batch, k, x, i, ttl)
  BY DEF Zone!Drops, Zone!Mentions, Zone!Names
<1>2. ASSUME NEW s, NEW e, Zone!LifeOf(Batch[s], e) PROVE Zone!LifeOf(Batch[s], e)'
  BY <1>2 DEF Zone!LifeOf, Zone!Second
<1>3. Zone!IdsOf(x)' = Zone!IdsOf(x) /\ MayBe(x, n)' = MayBe(x, n)
      /\ LeftOf(t, x)' = LeftOf(t, x)
  BY DEF Zone!IdsOf, MayBe, LeftOf
<1>4. ASSUME NeverSet(D, x, t) PROVE NeverSet(D, x, t)'
  BY <1>1, <1>3, <1>4 DEF NeverSet
<1>5. ASSUME NEW s, NEW i PROVE Dropped(D, s, x, i)' <=> Dropped(D, s, x, i)
  BY <1>1 DEF Dropped
<1>6. ASSUME NEW s \in D, SetLastBy(s, D, x, t, n) PROVE SetLastBy(s, D, x, t, n)'
  BY <1>2, <1>3, <1>5, <1>6 DEF SetLastBy
<1> QED BY <1>4, <1>6 DEF OutcomeOf

\* A statement that leaves the rows of its record x as the outcome of one command more,
\* and the other rows alone, keeps the invariant of the transaction.
LEMMA StatementRuns ==
    ASSUME ZoneInv, NEW o, InTransaction(o), NEW t, NEW n \in Nat, Proceed(t, n), op.last <= n,
           NEW x, x = Command.text,
           \A i : i \in DOMAIN t /\ t[i].text # x =>
                     i \in DOMAIN op.table /\ t[i] = op.table[i],
           \A i \in DOMAIN op.table : op.table[i].text # x =>
                     i \in DOMAIN t /\ t[i] = op.table[i],
           \A j \in Nat : \A D :
              /\ RunsCommand(j, Command) /\ \A k \in D : k \in Nat /\ k < j
              /\ OutcomeOf(D, x, op.table, op.last)
              => OutcomeOf(D \cup {j}, x, t, n)
    PROVE  Running'
<1>1. /\ TypeOK /\ Running /\ op.kind = "set" /\ Batch' = Batch /\ op'.table = t /\ op'.last = n
      /\ UNCHANGED <<rows, lastId, now>> /\ now \in Nat /\ lastId \in Nat /\ op.last \in Nat
  BY BoundAssumption DEF ZoneInv, InTransaction, Proceed, Batch, TypeOK
<1>2. /\ Batch \in Seq(Commands) /\ DOMAIN Batch = 1..Len(Batch) /\ Len(Batch) \in Nat
      /\ Batch \in Batches \cup {DeleteLine(l) : l \in Lines}
  BY <1>1 DEF Running
<1>3. PICK p \in 0..Len(Batch), q \in {0, 1} :
          At(p, q) /\ \A y \in Texts : OutcomeOf(RunAt(p, q, y), y, op.table, op.last)
  BY <1>1 DEF Running
<1>4. PICK j \in DOMAIN Batch, p2 \in Nat, q2 \in Nat :
          /\ RunsCommand(j, Command) /\ At(p2, q2)'
          /\ \A y \in Texts :
                /\ \A k \in RunAt(p, q, y) :
                      k \in DOMAIN Batch /\ (y = Command.text => k < j)
                /\ RunAt(p2, q2, y)' = IF y = Command.text
                                       THEN RunAt(p, q, y) \cup {j}
                                       ELSE RunAt(p, q, y)
  <2>1. p \in Nat /\ q \in Nat
    BY <1>2
  <2> QED BY <1>1, <1>3, <2>1, NextStatement
<1>5. p2 \in 0..Len(Batch) /\ q2 \in {0, 1}
  BY <1>1, <1>4 DEF At, AtOf, Batch
<1>6. ASSUME NEW y \in Texts
      PROVE  OutcomeOf(RunAt(p2, q2, y), y, op.table, op.last)'
  <2>1. PICK D : D = RunAt(p, q, y)
    OBVIOUS
  <2>2. PICK E : E = RunAt(p2, q2, y)'
    OBVIOUS
  <2>3. OutcomeOf(E, y, t, n)
    <3>1. CASE y = x
      <4>1. j \in Nat /\ \A k \in D : k \in Nat /\ k < j
        BY <1>2, <1>4, <2>1, <3>1
      <4>2. E = D \cup {j}
        BY <1>4, <2>1, <2>2, <3>1
      <4> QED BY <1>3, <1>4, <2>1, <3>1, <4>1, <4>2
    <3>2. CASE y # x
      <4>1. E = D /\ OutcomeOf(D, y, op.table, op.last)
        BY <1>3, <1>4, <2>1, <2>2, <3>2
      <4>2. LeftOf(t, y) = LeftOf(op.table, y)
            /\ \A i \in LeftOf(op.table, y) : t[i] = op.table[i]
        BY <3>2 DEF LeftOf
      <4> QED BY <1>1, <4>1, <4>2, SameOutcome
    <3> QED BY <3>1, <3>2
  <2>4. OutcomeOf(E, y, t, n)'
    BY <1>1, <2>3, OutcomeKept
  <2> QED BY <1>1, <2>2, <2>4
<1> QED BY <1>1, <1>2, <1>4, <1>5, <1>6 DEF Running

\* An UPDATE or an INSERT makes the command the last one that sets its record.
LEMMA SetRuns ==
    ASSUME ZoneInv, Update \/ Insert
    PROVE  Running'
<1> DEFINE x == Command.text
<1>1. /\ TypeOK /\ TextsUnique /\ InTransaction("set") /\ Command \in Commands
      /\ op.last \in Nat /\ now \in Nat /\ lastId \in Nat /\ lastId <= op.last
  <2>1. InTransaction("set")
    BY DEF Update, Insert
  <2> QED BY <2>1, CommandType, BoundAssumption
          DEF ZoneInv, TypeOK, IdsBounded, InTransaction
<1>2. CASE Update
  <2> DEFINE r(i) == IF i \in Existing(Command)
                     THEN [op.table[i] EXCEPT !.ttl = Command.ttl,
                                              !.expire = ExpireOf(Command)]
                     ELSE op.table[i]
             t == [i \in DOMAIN op.table |-> r(i)]
  <2>1. Proceed(t, op.last)
    BY <1>2 DEF Update
  <2>2. ASSUME NEW i \in DOMAIN op.table
        PROVE  /\ op.table[i].text # x => r(i) = op.table[i]
               /\ op.table[i].text = x =>
                     r(i).text = x /\ r(i).ttl = Command.ttl
                     /\ r(i).expire = ExpireOf(Command)
    <3>1. op.table[i] \in Row
      BY <1>1, <2>2 DEF TypeOK, IsTable
    <3> QED BY <3>1 DEF Row, Existing, SameText
  <2> HIDE DEF r
  <2>3. LeftOf(t, x) = LeftOf(op.table, x)
    BY <2>2 DEF LeftOf
  <2>4. PICK i \in DOMAIN op.table : op.table[i].text = x
    BY <1>2 DEF Update, Existing, SameText
  <2>5. LeftOf(op.table, x) = {i}
    BY <1>1, <2>4 DEF TextsUnique, LeftOf
  <2>6. t[i].ttl = Command.ttl /\ t[i].expire = ExpireOf(Command)
    BY <2>2, <2>4
  <2>7. ASSUME NEW j \in Nat, NEW D, RunsCommand(j, Command),
               \A k \in D : k \in Nat /\ k < j, OutcomeOf(D, x, op.table, op.last)
        PROVE  OutcomeOf(D \cup {j}, x, t, op.last)
    <3>1. i \in MayBe(x, op.last)
      BY <2>5, <2>7, OneLeft
    <3> HIDE DEF t
    <3>2. SetLastBy(j, D \cup {j}, x, t, op.last)
      BY <1>1, <2>3, <2>5, <2>6, <2>7, <3>1, SetOutcome DEF InTransaction
    <3> QED BY <3>2 DEF OutcomeOf
  <2>8. /\ \A k : k \in DOMAIN t /\ t[k].text # x =>
                     k \in DOMAIN op.table /\ t[k] = op.table[k]
        /\ \A k \in DOMAIN op.table : op.table[k].text # x =>
                     k \in DOMAIN t /\ t[k] = op.table[k]
    BY <2>2
  <2> HIDE DEF t
  <2>9. op.last <= op.last
    BY <1>1
  <2> QED BY <1>1, <2>1, <2>7, <2>8, <2>9, StatementRuns
<1>3. CASE Insert
  <2> DEFINE n == NewId(Command)
             r == [text |-> Command.text, ttl |-> Command.ttl,
                   expire |-> ExpireOf(Command)]
             t == [i \in DOMAIN op.table \cup {n} |-> IF i = n THEN r ELSE op.table[i]]
  <2>1. Proceed(t, n)
    BY <1>3 DEF Insert
  <2>2. /\ n = op.last + 1 /\ n \in Nat /\ op.last <= n
        /\ n \in (lastId + 1) .. n
    BY <1>1 DEF NewId
  <2>3. n \notin DOMAIN op.table
    BY <1>1, <2>2, BoundAssumption DEF ZoneInv, IdsBounded, InTransaction, TypeOK, IsTable
  <2>4. \A i \in DOMAIN op.table : op.table[i].text # x
    BY <1>3 DEF Insert, Existing, SameText
  <2>5. r.text = x /\ r.ttl = Command.ttl /\ r.expire = ExpireOf(Command)
    OBVIOUS
  <2> HIDE DEF n, r
  <2>6. LeftOf(t, x) = {n} /\ t[n] = r
    BY <2>4, <2>5 DEF LeftOf
  <2>7. /\ \A k : k \in DOMAIN t /\ t[k].text # x =>
                     k \in DOMAIN op.table /\ t[k] = op.table[k]
        /\ \A k \in DOMAIN op.table : op.table[k].text # x =>
                     k \in DOMAIN t /\ t[k] = op.table[k]
    BY <2>3, <2>5
  <2> HIDE DEF t
  <2>8. ASSUME NEW j \in Nat, NEW D, RunsCommand(j, Command),
               \A k \in D : k \in Nat /\ k < j, OutcomeOf(D, x, op.table, op.last)
        PROVE  OutcomeOf(D \cup {j}, x, t, n)
    <3>1. n \in MayBe(x, n)
      BY <2>2 DEF MayBe
    <3>2. SetLastBy(j, D \cup {j}, x, t, n)
      BY <1>1, <2>5, <2>6, <2>8, <3>1, SetOutcome DEF InTransaction
    <3> QED BY <3>2 DEF OutcomeOf
  <2> QED BY <1>1, <2>1, <2>2, <2>7, <2>8, StatementRuns
<1> QED BY <1>2, <1>3

\* A DELETE takes away the row of the record if the TTL and the ID are the command's.
LEMMA DropRuns ==
    ASSUME ZoneInv, Delete
    PROVE  Running'
<1> DEFINE x == Command.text
           t == Without(op.table, Matched(Command))
<1>1. /\ InTransaction("drop") /\ Proceed(t, op.last) /\ op.last \in Nat
  BY BoundAssumption DEF Delete, ZoneInv, TypeOK
<1>2. LeftOf(t, x) = {i \in LeftOf(op.table, x) :
                         ~ (op.table[i].ttl = Command.ttl /\ Command.id \in {NoId, i})}
      /\ \A i \in LeftOf(t, x) : t[i] = op.table[i]
  BY DEF LeftOf, Without, Matched, SameTextAndTTL, SameText
<1>3. /\ \A k : k \in DOMAIN t /\ t[k].text # x =>
                   k \in DOMAIN op.table /\ t[k] = op.table[k]
      /\ \A k \in DOMAIN op.table : op.table[k].text # x =>
                   k \in DOMAIN t /\ t[k] = op.table[k]
  BY DEF Without, Matched, SameTextAndTTL, SameText
<1> HIDE DEF t
<1>4. ASSUME NEW j \in Nat, NEW D, RunsCommand(j, Command),
             \A k \in D : k \in Nat /\ k < j, OutcomeOf(D, x, op.table, op.last)
      PROVE  OutcomeOf(D \cup {j}, x, t, op.last)
  <2>1. Command.op = "drop"
    BY <1>1 DEF InTransaction
  <2> QED BY <1>2, <1>4, <2>1, DropOutcome
<1>5. op.last <= op.last
  BY <1>1
<1> QED BY <1>1, <1>3, <1>4, <1>5, StatementRuns

\* The transaction begins with the stored table and nothing run.
LEMMA Begins ==
    ASSUME TypeOK, NEW b, b \in Seq(Commands), Begin(b),
           b \in Batches \cup {DeleteLine(l) : l \in Lines}
    PROVE  Running'
<1>1. /\ op'.kind = "set" /\ Batch' = b /\ op'.todo = b /\ op'.table = rows /\ op'.last = lastId
      /\ UNCHANGED <<rows, lastId, now>> /\ DOMAIN b = 1..Len(b) /\ Len(b) \in Nat
  BY DEF Begin, Batch
<1>2. At(0, 0)'
  <2>1. ASSUME NEW i \in 1..Len(b) PROVE b[i - 0 + 0] = b[i]
    <3>1. i - 0 + 0 = i
      BY <1>1
    <3> QED BY <3>1
  <2>2. 0 \in 0..Len(b) /\ Len(b) = Len(b) - 0 + 0
    BY <1>1
  <2> QED BY <1>1, <2>1, <2>2 DEF At, AtOf, Batch
<1>3. ASSUME NEW x \in Texts
      PROVE  OutcomeOf(RunAt(0, 0, x), x, op.table, op.last)'
  <2>1. RunAt(0, 0, x)' = {}
    <3>1. \A k \in DOMAIN b : ~ (k < 0) /\ k # 0
      BY <1>1
    <3> QED BY <1>1, <3>1 DEF RunAt
  <2>2. NeverSet({}, x, rows)'
    BY <1>1 DEF NeverSet, LeftOf, Zone!IdsOf
  <2> QED BY <1>1, <2>1, <2>2 DEF OutcomeOf
<1>4. 0 \in 0..Len(b)
  BY <1>1
<1> QED BY <1>1, <1>2, <1>3, <1>4 DEF Running

\* The table of a transaction is, at each moment, the outcome of what it has run.
LEMMA RunningStep ==
    ASSUME ZoneInv, [Next]_vars
    PROVE  Running'
<1>1. TypeOK /\ Running
  BY DEF ZoneInv
<1>2. ASSUME NEW b \in Batches \cup {DeleteLine(l) : l \in reply.lines}, Begin(b)
      PROVE  Running'
  <2>1. b \in Batches \cup {DeleteLine(l) : l \in Lines}
    BY <1>1, <1>2 DEF TypeOK
  <2>2. op'.batch = b /\ (TypeOK' => op'.batch \in Seq(Commands))
    BY <1>2 DEF Begin, TypeOK
  <2>3. TypeOK'
    BY TypeStep DEF ZoneInv
  <2> QED BY <1>1, <1>2, <2>1, <2>2, <2>3, Begins
<1>3. CASE Update \/ Insert
  BY <1>3, SetRuns
<1>4. CASE Delete
  BY <1>4, DropRuns
<1>5. ASSUME NEW ids, Query(ids) PROVE Running'
  BY <1>5 DEF Query, Running
<1>6. CASE Commit \/ Scan \/ Fail \/ Crash
  BY <1>6 DEF Commit, Scan, Fail, Crash, Idle, Running
<1>7. ASSUME op.kind = "none", UNCHANGED op PROVE Running'
  BY <1>7 DEF Running
<1>8. ASSUME NEW id, RemoveRecord(id) PROVE Running'
  BY <1>7, <1>8 DEF RemoveRecord, Enter
<1>9. CASE Sweep
  BY <1>7, <1>9 DEF Sweep
<1>10. CASE Tick \/ UNCHANGED vars
  <2>1. /\ UNCHANGED <<rows, lastId, op>> /\ Batch' = Batch
        /\ now \in Nat /\ now' \in Nat /\ now <= now'
    BY <1>1, <1>10 DEF Tick, vars, TypeOK, Batch
  <2> SUFFICES ASSUME op.kind = "set" PROVE Running'
    BY <2>1 DEF Running
  <2>2. PICK p \in 0..Len(Batch), q \in {0, 1} :
            At(p, q) /\ \A x \in Texts : OutcomeOf(RunAt(p, q, x), x, op.table, op.last)
    BY <1>1 DEF Running
  <2>3. At(p, q)'
    BY <2>1, <2>2 DEF At, AtOf, Batch
  <2>4. ASSUME NEW x \in Texts PROVE OutcomeOf(RunAt(p, q, x), x, op.table, op.last)'
    <3>1. PICK D, t, n : D = RunAt(p, q, x) /\ t = op.table /\ n = op.last
      OBVIOUS
    <3>2. RunAt(p, q, x)' = D /\ op'.table = t /\ op'.last = n
      BY <2>1, <3>1 DEF RunAt, Zone!Mentions, Zone!Names
    <3>3. OutcomeOf(D, x, t, n)'
      BY <2>1, <2>2, <3>1, OutcomeKept
    <3> QED BY <3>2, <3>3
  <2> QED BY <1>1, <2>1, <2>2, <2>3, <2>4 DEF Running
<1> QED BY <1>2, <1>3, <1>4, <1>5, <1>6, <1>8, <1>9, <1>10 DEF Next, Step

\* Every transaction, at each of its statements, has the table that the abstract zone
\* allows for the part of the batch it has run.
THEOREM TransactionsOnTrack == Spec => []ZoneInv
<1>1. Init => Running
  BY DEF Init, Running, Idle
<1>2. ZoneInv /\ [Next]_vars => Running'
  BY RunningStep
<1> QED BY <1>1, <1>2, TypeCorrect, NoDuplicates, IdsBelowCounter, PTL DEF Spec, ZoneInv

-----------------------------------------------------------------------------
\* A commit is the whole batch, as the abstract zone sees it.
LEMMA CommitRefines ==
    ASSUME ZoneInv, Commit
    PROVE  Zone!Set(Batch) /\ Batch \in Batches \cup {DeleteLine(l) : l \in Lines}
<1>1. /\ TypeOK /\ Running /\ IdsBounded /\ op.kind = "set" /\ op.todo = <<>>
      /\ rows' = op.table /\ lastId' = op.last /\ UNCHANGED now
      /\ lastId \in Nat /\ op.last \in Nat
  BY BoundAssumption DEF ZoneInv, Commit, TypeOK
<1>2. PICK p \in 0..Len(Batch), q \in {0, 1} :
          At(p, q) /\ \A x \in Texts : OutcomeOf(RunAt(p, q, x), x, op.table, op.last)
  BY <1>1 DEF Running
<1>3. /\ DOMAIN Batch = 1..Len(Batch) /\ Len(Batch) \in Nat
      /\ Batch \in Batches \cup {DeleteLine(l) : l \in Lines}
  BY <1>1 DEF Running
<1>4. p = Len(Batch) /\ q = 0
  <2>1. Len(op.todo) = 0 /\ Len(op.todo) = Len(Batch) - p + q
    BY <1>1, <1>2 DEF At, AtOf, Batch
  <2>2. Len(Batch) \in Nat
    BY <1>3
  <2>3. 0 = Len(Batch) - p + q
    BY <2>1
  <2> QED BY <2>2, <2>3
<1>5. ASSUME NEW x \in Texts PROVE Zone!Outcome(Batch, x, rows')
  <2> DEFINE D == {k \in DOMAIN Batch : Zone!Mentions(Batch, k, x)}
  <2>1. RunAt(p, q, x) = D
    BY <1>3, <1>4 DEF RunAt
  <2>2. CASE NeverSet(D, x, op.table)
    <3>1. Zone!LastSet(Batch, x) = {}
      BY <2>2 DEF NeverSet, Zone!LastSet
    <3>2. \A i, ttl : (\E k \in D : Zone!Drops(Batch, k, x, i, ttl))
                      <=> \E k \in DOMAIN Batch : Zone!Drops(Batch, k, x, i, ttl)
      BY DEF Zone!Drops
    <3> QED BY <1>1, <2>2, <3>1, <3>2 DEF NeverSet, LeftOf, Zone!Outcome
  <2>3. ASSUME NEW s \in D, SetLastBy(s, D, x, op.table, op.last)
        PROVE  Zone!Outcome(Batch, x, rows')
    <3>1. Zone!LastSet(Batch, x) = {s}
      BY <1>3, <2>3 DEF SetLastBy, Zone!LastSet
    <3>2. \A i : Dropped(D, s, x, i)
                 <=> \E k \in DOMAIN Batch : k > s /\ Zone!Drops(Batch, k, x, i, Batch[s].ttl)
      BY DEF Dropped, Zone!Drops
    <3>3. MayBe(x, op.last) = Zone!IdsOf(x) \cup (lastId + 1 .. lastId')
      BY <1>1 DEF MayBe
    <3> QED BY <1>1, <2>3, <3>1, <3>2, <3>3 DEF SetLastBy, LeftOf, Zone!Outcome
  <2> QED BY <1>2, <2>1, <2>2, <2>3 DEF OutcomeOf
<1>6. lastId' >= lastId /\ \A i \in DOMAIN rows' : rows'[i].text \in Texts /\ i <= lastId'
  BY <1>1 DEF IdsBounded, TypeOK, IsTable, Row
<1> QED BY <1>1, <1>3, <1>5, <1>6 DEF Zone!Set

\* Every step of the resolver is a step of the abstract zone, or none for it.
LEMMA StepRefines ==
    ASSUME ZoneInv, [Next]_vars
    PROVE  [Zone!Next]_(Zone!zoneVars)
<1>1. TypeOK
  BY DEF ZoneInv
<1>2. CASE Commit
  BY <1>2, CommitRefines DEF Zone!Next
<1>3. ASSUME NEW id, RemoveRecord(id) PROVE [Zone!Next]_(Zone!zoneVars)
  BY <1>3 DEF RemoveRecord, Without, Zone!Next, Zone!Remove, Zone!zoneVars
<1>4. CASE Sweep
  <2> DEFINE ids == {i \in DOMAIN rows : Overdue(rows[i])}
  <2>1. ASSUME NEW i \in ids PROVE rows[i].expire > 0 /\ 2 * rows[i].expire < now
    <3>1. rows[i].expire \in Nat /\ now \in Nat
      BY <1>1 DEF TypeOK, IsTable, Row
    <3> QED BY <3>1 DEF Overdue, Second
  <2>2. rows' = [i \in DOMAIN rows \ ids |-> rows[i]] /\ UNCHANGED <<lastId, now>>
    BY <1>4 DEF Sweep, Without
  <2> HIDE DEF ids
  <2>3. ids \in SUBSET DOMAIN rows
    BY DEF ids
  <2> QED BY <2>1, <2>2, <2>3 DEF Zone!Next, Zone!Expire
<1>5. CASE Tick
  BY <1>5 DEF Tick, Zone!Next, Zone!Tick
<1>6. ASSUME UNCHANGED <<rows, lastId, now>> PROVE [Zone!Next]_(Zone!zoneVars)
  BY <1>6 DEF Zone!zoneVars
<1>7. ASSUME NEW b, Begin(b) PROVE UNCHANGED <<rows, lastId, now>>
  BY <1>7 DEF Begin
<1>8. ASSUME NEW ids, Query(ids) PROVE UNCHANGED <<rows, lastId, now>>
  BY <1>8 DEF Query
<1>9. CASE Update \/ Insert \/ Delete
  BY <1>6, <1>9, Statements DEF ZoneInv
<1>10. CASE Scan \/ Fail \/ Crash \/ UNCHANGED vars
  BY <1>6, <1>10 DEF Scan, Fail, Crash, vars
<1> QED BY <1>2, <1>3, <1>4, <1>5, <1>6, <1>7, <1>8, <1>9, <1>10 DEF Next, Step

\* The resolver keeps what a dynamic zone promises: a batch takes effect as a whole or
\* not at all, and as its last word on each record says, also when a statement fails or
\* the process dies half way; time removes only what is over.
THEOREM ImplementsZone == Spec => ZoneSpec
<1>1. Init => Zone!Init
  BY DEF Init, Zone!Init
<1>2. ZoneInv /\ [Next]_vars => [Zone!Next]_(Zone!zoneVars)
  BY StepRefines
<1> QED BY <1>1, <1>2, TransactionsOnTrack, PTL DEF Spec, ZoneSpec, Zone!Spec
=============================================================================
