-------------------------- MODULE DynamicAPIProofs --------------------------
(***************************************************************************)
(* Proofs about the REST API: the type invariant, that a request carried   *)
(* out twice leaves what it leaves when carried out once, that a DELETE    *)
(* undoes the POST of the same body, and that the counts of a reply bound  *)
(* the change, for all tables, bodies and numbers of clients.              *)
(*                                                                         *)
(* The properties are about whole batches, so the proofs follow one key    *)
(* through the stages of a batch.  Held(t, k) is what a table holds under  *)
(* the key k; a command either sets it to a row that does not depend on    *)
(* the table, or leaves a part of it (SetOrTrimmed).  Climb is the         *)
(* induction along the stages.                                             *)
(***************************************************************************)
EXTENDS DynamicAPI, FiniteSetTheorems, WellFoundedInduction, TLAPS

\* Induction up to a bound, for a set of numbers.
LEMMA Climb ==
    ASSUME NEW L \in Nat, NEW S, 0 \in S, \A n \in 1..L : n - 1 \in S => n \in S
    PROVE  \A n \in 0..L : n \in S
<1> DEFINE T == {n \in 0..L : n \notin S}
<1> SUFFICES ASSUME T # {} PROVE FALSE
  OBVIOUS
<1>1. T \subseteq Nat
  OBVIOUS
<1>2. PICK x \in T : \A y \in T : ~ (<<y, x>> \in OpToRel(<, Nat))
  <2> HIDE DEF T
  <2> QED BY <1>1, NatLessThanWellFounded, WFMin
<1>3. \A y \in T : ~ (y < x)
  BY <1>1, <1>2 DEF OpToRel
<1>4. x \in 1..L /\ x - 1 \in 0..L /\ x - 1 < x
  <2>1. x # 0 /\ x \in 0..L
    OBVIOUS
  <2> QED BY <2>1
<1> QED BY <1>3, <1>4

\* The stages of a batch: it starts with the table, and each command goes on
\* from what the one before it left.
LEMMA StagesStep ==
    ASSUME NEW t, NEW commands, Len(commands) \in Nat
    PROVE  /\ Stages(t, commands)[0] = t
           /\ \A n \in 1..Len(commands) :
                 Stages(t, commands)[n]
                   = RunCascade(Stages(t, commands)[n - 1], commands[n])
<1> DEFINE L == Len(commands)
           Def(g, m) == g = [n \in 0..m |-> IF n = 0 THEN t
                                            ELSE RunCascade(g[n - 1], commands[n])]
           S == {m \in 0..L : \E g : Def(g, m)}
<1>1. 0 \in S
  <2>1. Def([n \in 0..0 |-> t], 0)
    OBVIOUS
  <2>2. \E g : Def(g, 0)
    <3> HIDE DEF Def
    <3> QED BY <2>1
  <2> HIDE DEF Def
  <2> QED BY <2>2
<1>2. ASSUME NEW m \in 1..L, m - 1 \in S PROVE m \in S
  <2>1. PICK g : Def(g, m - 1)
    BY <1>2
  <2> DEFINE h == [n \in 0..m |-> IF n = m THEN RunCascade(g[m - 1], commands[m])
                                  ELSE g[n]]
  <2>2. ASSUME NEW n \in 0..m
        PROVE  h[n] = IF n = 0 THEN t ELSE RunCascade(h[n - 1], commands[n])
    <3>1. CASE n = m
      <4>1. h[n] = RunCascade(g[m - 1], commands[m]) /\ h[n - 1] = g[n - 1] /\ n # 0
        BY <3>1
      <4> QED BY <3>1, <4>1
    <3>2. CASE n # m /\ n # 0
      <4>1. n \in 0..m-1 /\ n - 1 \in 0..m /\ n - 1 # m
        BY <3>2
      <4>2. h[n] = g[n] /\ h[n - 1] = g[n - 1]
        BY <3>2, <4>1
      <4>3. g[n] = RunCascade(g[n - 1], commands[n])
        BY <2>1, <3>2, <4>1
      <4> QED BY <3>2, <4>2, <4>3
    <3>3. CASE n # m /\ n = 0
      <4>1. 0 \in 0..m-1
        OBVIOUS
      <4>2. g[0] = t
        BY <2>1, <4>1
      <4> QED BY <3>3, <4>2
    <3> QED BY <3>1, <3>2, <3>3
  <2>3. Def(h, m)
    <3>1. h = [n \in 0..m |-> h[n]]
      OBVIOUS
    <3> HIDE DEF h
    <3> QED BY <2>2, <3>1
  <2> HIDE DEF Def, h
  <2> QED BY <2>3
<1>3. L \in S
  <2>1. \A n \in 0..L : n \in S
    <3> HIDE DEF S
    <3> QED BY <1>1, <1>2, Climb
  <2> QED BY <2>1
<1>4. \E g : Def(g, L)
  BY <1>3
<1>5. Stages(t, commands) = CHOOSE g : Def(g, L)
  BY DEF Stages
<1>6. Def(Stages(t, commands), L)
  BY <1>4, <1>5
<1> QED BY <1>6

-----------------------------------------------------------------------------
\* Tables and commands.

IsTable(t) ==
    /\ t = [rows |-> t.rows, last |-> t.last]
    /\ t.last \in Nat /\ DOMAIN t.rows \subseteq 1..t.last
    /\ \A i \in DOMAIN t.rows : t.rows[i].volatile \in BOOLEAN
    /\ \A i, j \in DOMAIN t.rows : t.rows[i].rec.key = t.rows[j].rec.key => i = j

IsCommand(c) ==
    /\ c = [rec |-> c.rec, id |-> c.id, volatile |-> c.volatile, disabled |-> c.disabled]
    /\ c.volatile \in BOOLEAN /\ c.disabled \in BOOLEAN

RowOf(c) == [rec |-> c.rec, volatile |-> c.volatile]

\* What a command does to the rows of a table.
LEMMA RunForms ==
    ASSUME NEW t, IsTable(t), NEW c, IsCommand(c)
    PROVE  LET u == Run(t, c)  found == SameRecord(t.rows, c.rec) IN
           \/ /\ c.disabled /\ u.last = t.last
              /\ DOMAIN u.rows = DOMAIN t.rows \ Dropped(t.rows, c)
              /\ \A i \in DOMAIN u.rows : u.rows[i] = t.rows[i]
              /\ u = [rows |-> u.rows, last |-> u.last]
           \/ /\ ~ c.disabled /\ found # {} /\ u.last = t.last
              /\ DOMAIN u.rows = DOMAIN t.rows
              /\ \A i \in DOMAIN u.rows :
                    u.rows[i] = IF i \in found THEN RowOf(c) ELSE t.rows[i]
              /\ u = [rows |-> u.rows, last |-> u.last]
           \/ /\ ~ c.disabled /\ found = {} /\ u.last = t.last + 1
              /\ DOMAIN u.rows = DOMAIN t.rows \cup {t.last + 1}
              /\ \A i \in DOMAIN u.rows :
                    u.rows[i] = IF i = t.last + 1 THEN RowOf(c) ELSE t.rows[i]
              /\ u = [rows |-> u.rows, last |-> u.last]
<1> DEFINE found == SameRecord(t.rows, c.rec)
           u == Run(t, c)
<1>1. CASE c.disabled
  <2>1. u = [rows |-> Without(t.rows, Dropped(t.rows, c)), last |-> t.last]
    BY <1>1 DEF Run, IsTable
  <2>2. DOMAIN u.rows = DOMAIN t.rows \ Dropped(t.rows, c)
        /\ \A i \in DOMAIN u.rows : u.rows[i] = t.rows[i]
    BY <2>1 DEF Without
  <2>3. u.last = t.last /\ u = [rows |-> u.rows, last |-> u.last]
    BY <2>1
  <2> QED BY <1>1, <2>2, <2>3
<1>2. CASE ~ c.disabled /\ found # {}
  <2>1. u = [rows |-> [i \in DOMAIN t.rows \cup found |->
                          IF i \in found THEN RowOf(c) ELSE t.rows[i]],
             last |-> t.last]
    BY <1>2 DEF Run, IsTable, RowOf
  <2>2. DOMAIN t.rows \cup found = DOMAIN t.rows
    BY DEF SameRecord
  <2> HIDE DEF found, u
  <2>3. /\ DOMAIN u.rows = DOMAIN t.rows
        /\ \A i \in DOMAIN u.rows :
              u.rows[i] = IF i \in found THEN RowOf(c) ELSE t.rows[i]
    BY <2>1, <2>2
  <2>4. u.last = t.last /\ u = [rows |-> u.rows, last |-> u.last]
    BY <2>1
  <2> QED BY <1>2, <2>3, <2>4 DEF u, found
<1>3. CASE ~ c.disabled /\ found = {}
  <2>1. u = [rows |-> [i \in DOMAIN t.rows \cup {t.last + 1} |->
                          IF i \in {t.last + 1} THEN RowOf(c) ELSE t.rows[i]],
             last |-> t.last + 1]
    BY <1>3 DEF Run, IsTable, RowOf
  <2> HIDE DEF found, u
  <2>2. /\ DOMAIN u.rows = DOMAIN t.rows \cup {t.last + 1}
        /\ \A i \in DOMAIN u.rows :
              u.rows[i] = IF i = t.last + 1 THEN RowOf(c) ELSE t.rows[i]
    BY <2>1
  <2>3. u.last = t.last + 1 /\ u = [rows |-> u.rows, last |-> u.last]
    BY <2>1
  <2> QED BY <1>3, <2>2, <2>3 DEF u, found
<1> QED BY <1>1, <1>2, <1>3

LEMMA RunIsTable ==
    ASSUME NEW t, IsTable(t), NEW c, IsCommand(c)
    PROVE  IsTable(Run(t, c))
<1> DEFINE found == SameRecord(t.rows, c.rec)
           u == Run(t, c)
<1>0. t.last \in Nat /\ DOMAIN t.rows \subseteq 1..t.last /\ c.volatile \in BOOLEAN
  BY DEF IsTable, IsCommand
<1>1. CASE /\ c.disabled /\ u.last = t.last
           /\ DOMAIN u.rows = DOMAIN t.rows \ Dropped(t.rows, c)
           /\ \A i \in DOMAIN u.rows : u.rows[i] = t.rows[i]
           /\ u = [rows |-> u.rows, last |-> u.last]
  <2> HIDE DEF u
  <2>1. DOMAIN u.rows \subseteq DOMAIN t.rows
    BY <1>1
  <2>2. IsTable(u)
    BY <1>0, <1>1, <2>1 DEF IsTable
  <2> QED BY <2>2 DEF u
<1>2. CASE /\ ~ c.disabled /\ found # {} /\ u.last = t.last
           /\ DOMAIN u.rows = DOMAIN t.rows
           /\ \A i \in DOMAIN u.rows :
                 u.rows[i] = IF i \in found THEN RowOf(c) ELSE t.rows[i]
           /\ u = [rows |-> u.rows, last |-> u.last]
  <2> HIDE DEF u
  <2>1. \A i \in DOMAIN t.rows : u.rows[i].rec.key = t.rows[i].rec.key
    BY <1>2 DEF RowOf, SameRecord
  <2>2. \A i \in DOMAIN u.rows : u.rows[i].volatile \in BOOLEAN
    BY <1>0, <1>2 DEF RowOf, IsTable
  <2>3. \A i, j \in DOMAIN u.rows : u.rows[i].rec.key = u.rows[j].rec.key => i = j
    BY <1>2, <2>1 DEF IsTable
  <2> HIDE DEF found
  <2>4. IsTable(u)
    BY <1>0, <1>2, <2>2, <2>3 DEF IsTable
  <2> QED BY <2>4 DEF u
<1>3. CASE /\ ~ c.disabled /\ found = {} /\ u.last = t.last + 1
           /\ DOMAIN u.rows = DOMAIN t.rows \cup {t.last + 1}
           /\ \A i \in DOMAIN u.rows :
                 u.rows[i] = IF i = t.last + 1 THEN RowOf(c) ELSE t.rows[i]
           /\ u = [rows |-> u.rows, last |-> u.last]
  <2> HIDE DEF u
  <2>1. u.last \in Nat /\ DOMAIN u.rows \subseteq 1..u.last
    BY <1>0, <1>3
  <2>2. \A i \in DOMAIN u.rows : u.rows[i].volatile \in BOOLEAN
    BY <1>0, <1>3 DEF RowOf, IsTable
  <2>3. \A i \in DOMAIN t.rows : t.rows[i].rec.key # c.rec.key
    BY <1>3 DEF SameRecord
  <2>4. \A i \in DOMAIN u.rows :
           \/ i = t.last + 1 /\ u.rows[i].rec.key = c.rec.key
           \/ i # t.last + 1 /\ i \in DOMAIN t.rows /\ u.rows[i] = t.rows[i]
    BY <1>3 DEF RowOf
  <2>5. \A i, j \in DOMAIN u.rows : u.rows[i].rec.key = u.rows[j].rec.key => i = j
    BY <2>3, <2>4 DEF IsTable
  <2>6. IsTable(u)
    BY <1>3, <2>1, <2>2, <2>5 DEF IsTable
  <2> QED BY <2>6 DEF u
<1> QED BY <1>1, <1>2, <1>3, RunForms

-----------------------------------------------------------------------------
\* What a table holds under a key: at most one row.

Held(t, k) == {t.rows[i] : i \in {j \in DOMAIN t.rows : t.rows[j].rec.key = k}}

LEMMA HeldOnce ==
    ASSUME NEW t, IsTable(t), NEW k, NEW x \in Held(t, k), NEW y \in Held(t, k)
    PROVE  x = y
BY DEF Held, IsTable

LEMMA RunHolds ==
    ASSUME NEW t, IsTable(t), NEW c, IsCommand(c), NEW k
    PROVE  /\ c.rec.key # k => Held(Run(t, c), k) = Held(t, k)
           /\ c.rec.key = k /\ ~ c.disabled => Held(Run(t, c), k) = {RowOf(c)}
           /\ c.rec.key = k /\ c.disabled /\ c.id = NoId =>
                 Held(Run(t, c), k) = {x \in Held(t, k) : x.rec.ttl # c.rec.ttl}
<1> DEFINE found == SameRecord(t.rows, c.rec)
           u == Run(t, c)
<1>0. t.last \in Nat /\ DOMAIN t.rows \subseteq 1..t.last /\ t.last + 1 \notin DOMAIN t.rows
  BY DEF IsTable
<1>1. CASE /\ c.disabled
           /\ DOMAIN u.rows = DOMAIN t.rows \ Dropped(t.rows, c)
           /\ \A i \in DOMAIN u.rows : u.rows[i] = t.rows[i]
  <2> HIDE DEF u
  <2>1. CASE c.rec.key # k
    <3>1. \A i \in Dropped(t.rows, c) : t.rows[i].rec.key # k
      BY <2>1 DEF Dropped, SameRecord
    <3>2. Held(u, k) = Held(t, k)
      BY <1>1, <3>1 DEF Held
    <3> QED BY <1>1, <2>1, <3>2 DEF u
  <2>2. CASE c.rec.key = k /\ c.id = NoId
    <3>1. \A i \in DOMAIN t.rows :
             t.rows[i].rec.key = k =>
                 (i \in Dropped(t.rows, c) <=> t.rows[i].rec.ttl = c.rec.ttl)
      BY <2>2 DEF Dropped, SameRecord
    <3>2. Held(u, k) = {x \in Held(t, k) : x.rec.ttl # c.rec.ttl}
      BY <1>1, <3>1 DEF Held
    <3> QED BY <1>1, <2>2, <3>2 DEF u
  <2> QED BY <1>1, <2>1, <2>2
<1>2. CASE /\ ~ c.disabled /\ found # {}
           /\ DOMAIN u.rows = DOMAIN t.rows
           /\ \A i \in DOMAIN u.rows :
                 u.rows[i] = IF i \in found THEN RowOf(c) ELSE t.rows[i]
  <2> HIDE DEF u
  <2>1. \A i \in DOMAIN t.rows : i \in found <=> t.rows[i].rec.key = c.rec.key
    BY DEF SameRecord
  <2>2. RowOf(c).rec.key = c.rec.key
    BY DEF RowOf
  <2>3. \A i \in found : i \in DOMAIN t.rows
    BY DEF SameRecord
  <2> HIDE DEF found
  <2>4. CASE c.rec.key # k
    <3>1. Held(u, k) = Held(t, k)
      BY <1>2, <2>1, <2>2, <2>4 DEF Held
    <3> QED BY <2>4, <3>1 DEF u
  <2>5. CASE c.rec.key = k
    <3>1. Held(u, k) = {RowOf(c)}
      BY <1>2, <2>1, <2>2, <2>3, <2>5 DEF Held
    <3> QED BY <1>2, <2>5, <3>1 DEF u
  <2> QED BY <2>4, <2>5
<1>3. CASE /\ ~ c.disabled /\ found = {}
           /\ DOMAIN u.rows = DOMAIN t.rows \cup {t.last + 1}
           /\ \A i \in DOMAIN u.rows :
                 u.rows[i] = IF i = t.last + 1 THEN RowOf(c) ELSE t.rows[i]
  <2> HIDE DEF u
  <2>1. \A i \in DOMAIN t.rows : t.rows[i].rec.key # c.rec.key
    BY <1>3 DEF SameRecord
  <2>2. RowOf(c).rec.key = c.rec.key
    BY DEF RowOf
  <2>3. /\ u.rows[t.last + 1] = RowOf(c) /\ t.last + 1 \in DOMAIN u.rows
        /\ \A i \in DOMAIN t.rows : i \in DOMAIN u.rows /\ u.rows[i] = t.rows[i]
        /\ \A i \in DOMAIN u.rows : i # t.last + 1 => i \in DOMAIN t.rows
    BY <1>0, <1>3
  <2>4. CASE c.rec.key # k
    <3>1. Held(u, k) = Held(t, k)
      BY <2>2, <2>3, <2>4 DEF Held
    <3> QED BY <2>4, <3>1 DEF u
  <2>5. CASE c.rec.key = k
    <3>1. Held(u, k) = {RowOf(c)}
      BY <2>1, <2>2, <2>3, <2>5 DEF Held
    <3> QED BY <1>3, <2>5, <3>1 DEF u
  <2> QED BY <2>4, <2>5
<1> QED BY <1>1, <1>2, <1>3, RunForms

-----------------------------------------------------------------------------
\* A command and its PTR record.

PtrOf(c) ==
    [rec |-> PtrRecord(ReverseName[c.rec.rr.data[1]], c.rec.ttl, c.rec.name),
     id |-> NoId, volatile |-> c.volatile, disabled |-> c.disabled]

HasPtr(c) == c.rec.type \in {"A", "AAAA"}

Keys(c) == IF HasPtr(c) THEN {c.rec.key, PtrOf(c).rec.key} ELSE {c.rec.key}

LEMMA PtrIsCommand ==
    ASSUME NEW c, IsCommand(c)
    PROVE  /\ IsCommand(PtrOf(c)) /\ PtrOf(c).id = NoId
           /\ PtrOf(c).rec.ttl = c.rec.ttl /\ PtrOf(c).disabled = c.disabled
BY DEF IsCommand, PtrOf, PtrRecord

LEMMA CascadeForm ==
    ASSUME NEW c, IsCommand(c)
    PROVE  /\ Cascade(c) = IF HasPtr(c) THEN <<c, PtrOf(c)>> ELSE <<c>>
           /\ \A k : (\E j \in DOMAIN Cascade(c) : Cascade(c)[j].rec.key = k)
                        <=> k \in Keys(c)
           /\ \A t : RunCascade(t, c) = IF HasPtr(c) THEN Run(Run(t, c), PtrOf(c))
                                        ELSE Run(t, c)
<1>1. Cascade(c) = IF HasPtr(c) THEN <<c, PtrOf(c)>> ELSE <<c>>
  <2>1. [c EXCEPT !.id = NoId,
             !.rec = PtrRecord(ReverseName[c.rec.rr.data[1]], c.rec.ttl, c.rec.name)]
        = PtrOf(c)
    <3>1. ASSUME NEW p
          PROVE  [c EXCEPT !.id = NoId, !.rec = p]
                   = [rec |-> p, id |-> NoId, volatile |-> c.volatile,
                      disabled |-> c.disabled]
      <4> DEFINE d == [rec |-> c.rec, id |-> c.id, volatile |-> c.volatile,
                       disabled |-> c.disabled]
      <4>1. c = d
        BY DEF IsCommand
      <4>2. [c EXCEPT !.id = NoId, !.rec = p] = [[c EXCEPT !.id = NoId] EXCEPT !.rec = p]
        OBVIOUS
      <4> DEFINE e == [rec |-> c.rec, id |-> NoId, volatile |-> c.volatile,
                       disabled |-> c.disabled]
      <4>3. [d EXCEPT !.id = NoId] = e
        OBVIOUS
      <4>4. [e EXCEPT !.rec = p]
              = [rec |-> p, id |-> NoId, volatile |-> c.volatile, disabled |-> c.disabled]
        OBVIOUS
      <4> HIDE DEF d, e
      <4> QED BY <4>1, <4>2, <4>3, <4>4
    <3> QED BY <3>1 DEF PtrOf
  <2> QED BY <2>1 DEF Cascade, HasPtr
<1>2. ASSUME NEW k
      PROVE  (\E j \in DOMAIN Cascade(c) : Cascade(c)[j].rec.key = k) <=> k \in Keys(c)
  <2>1. CASE HasPtr(c)
    <3>1. Cascade(c) = <<c, PtrOf(c)>>
      BY <1>1, <2>1
    <3>2. /\ DOMAIN Cascade(c) = {1, 2}
          /\ Cascade(c)[1] = c /\ Cascade(c)[2] = PtrOf(c)
      BY <3>1
    <3> QED BY <2>1, <3>2 DEF Keys
  <2>2. CASE ~ HasPtr(c)
    <3>1. Cascade(c) = <<c>>
      BY <1>1, <2>2
    <3>2. DOMAIN Cascade(c) = {1} /\ Cascade(c)[1] = c
      BY <3>1
    <3> QED BY <2>2, <3>2 DEF Keys
  <2> QED BY <2>1, <2>2
<1>3. ASSUME NEW t
      PROVE  RunCascade(t, c) = IF HasPtr(c) THEN Run(Run(t, c), PtrOf(c)) ELSE Run(t, c)
  <2>1. CASE HasPtr(c)
    <3>1. Cascade(c) = <<c, PtrOf(c)>>
      BY <1>1, <2>1
    <3>2. Len(Cascade(c)) = 2 /\ Cascade(c)[1] = c /\ Cascade(c)[2] = PtrOf(c)
      BY <3>1
    <3> QED BY <2>1, <3>2 DEF RunCascade
  <2>2. CASE ~ HasPtr(c)
    <3>1. Cascade(c) = <<c>>
      BY <1>1, <2>2
    <3>2. Len(Cascade(c)) = 1 /\ Cascade(c)[1] = c
      BY <3>1
    <3> QED BY <2>2, <3>2 DEF RunCascade
  <2> QED BY <2>1, <2>2
<1> QED BY <1>1, <1>2, <1>3

LEMMA CascadeIsTable ==
    ASSUME NEW t, IsTable(t), NEW c, IsCommand(c)
    PROVE  IsTable(RunCascade(t, c))
<1>1. IsTable(Run(t, c))
  BY RunIsTable
<1>2. IsTable(Run(Run(t, c), PtrOf(c)))
  BY <1>1, PtrIsCommand, RunIsTable
<1> QED BY <1>1, <1>2, CascadeForm

\* What a command without an ID leaves under a key is settled by what was there;
\* it is the same for all tables, or a part of what was there.
SetOrTrimmed(v, w, a, b) == v = w \/ (v \subseteq a /\ w \subseteq b)

LEMMA RunSettles ==
    ASSUME NEW t, IsTable(t), NEW u, IsTable(u), NEW c, IsCommand(c), c.id = NoId, NEW k
    PROVE  /\ Held(t, k) = Held(u, k) => Held(Run(t, c), k) = Held(Run(u, c), k)
           /\ SetOrTrimmed(Held(Run(t, c), k), Held(Run(u, c), k), Held(t, k), Held(u, k))
<1>1. CASE c.rec.key # k
  <2>1. Held(Run(t, c), k) = Held(t, k) /\ Held(Run(u, c), k) = Held(u, k)
    BY <1>1, RunHolds
  <2> QED BY <2>1 DEF SetOrTrimmed
<1>2. CASE c.rec.key = k /\ ~ c.disabled
  <2>1. Held(Run(t, c), k) = {RowOf(c)} /\ Held(Run(u, c), k) = {RowOf(c)}
    BY <1>2, RunHolds
  <2> QED BY <2>1 DEF SetOrTrimmed
<1>3. CASE c.rec.key = k /\ c.disabled
  <2>1. /\ Held(Run(t, c), k) = {x \in Held(t, k) : x.rec.ttl # c.rec.ttl}
        /\ Held(Run(u, c), k) = {x \in Held(u, k) : x.rec.ttl # c.rec.ttl}
    BY <1>3, RunHolds
  <2> QED BY <2>1 DEF SetOrTrimmed
<1> QED BY <1>1, <1>2, <1>3

LEMMA CascadeSettles ==
    ASSUME NEW t, IsTable(t), NEW u, IsTable(u), NEW c, IsCommand(c), c.id = NoId, NEW k
    PROVE  /\ Held(t, k) = Held(u, k) => Held(RunCascade(t, c), k) = Held(RunCascade(u, c), k)
           /\ SetOrTrimmed(Held(RunCascade(t, c), k), Held(RunCascade(u, c), k),
                           Held(t, k), Held(u, k))
<1> DEFINE t1 == Run(t, c)  u1 == Run(u, c)
           t2 == Run(t1, PtrOf(c))  u2 == Run(u1, PtrOf(c))
<1>1. /\ Held(t, k) = Held(u, k) => Held(t1, k) = Held(u1, k)
      /\ SetOrTrimmed(Held(t1, k), Held(u1, k), Held(t, k), Held(u, k))
  BY RunSettles
<1>2. IsTable(t1) /\ IsTable(u1) /\ IsCommand(PtrOf(c)) /\ PtrOf(c).id = NoId
  BY RunIsTable, PtrIsCommand
<1>3. /\ Held(t1, k) = Held(u1, k) => Held(t2, k) = Held(u2, k)
      /\ SetOrTrimmed(Held(t2, k), Held(u2, k), Held(t1, k), Held(u1, k))
  <2> HIDE DEF t1, u1
  <2> QED BY <1>2, RunSettles
<1>4. SetOrTrimmed(Held(t2, k), Held(u2, k), Held(t, k), Held(u, k))
  <2> HIDE DEF t1, t2, u1, u2
  <2> QED BY <1>1, <1>3 DEF SetOrTrimmed
<1>5. /\ RunCascade(t, c) = IF HasPtr(c) THEN t2 ELSE t1
      /\ RunCascade(u, c) = IF HasPtr(c) THEN u2 ELSE u1
  BY CascadeForm
<1> HIDE DEF t1, t2, u1, u2
<1> QED BY <1>1, <1>3, <1>4, <1>5

-----------------------------------------------------------------------------
\* Batches.

IsBatch(b) ==
    /\ Len(b) \in Nat /\ DOMAIN b = 1..Len(b)
    /\ \A i \in DOMAIN b : IsCommand(b[i])
Nameless(b) == \A i \in DOMAIN b : b[i].id = NoId

LEMMA StagesAreTables ==
    ASSUME NEW t, IsTable(t), NEW b, IsBatch(b)
    PROVE  \A n \in 0..Len(b) : IsTable(Stages(t, b)[n])
<1> DEFINE L == Len(b)
           S == {n \in 0..L : IsTable(Stages(t, b)[n])}
<1>0. L \in Nat
  BY DEF IsBatch
<1>1. 0 \in S
  BY <1>0, StagesStep
<1>2. ASSUME NEW n \in 1..L, n - 1 \in S PROVE n \in S
  <2>1. Stages(t, b)[n] = RunCascade(Stages(t, b)[n - 1], b[n])
    BY <1>0, StagesStep
  <2>2. IsCommand(b[n]) /\ IsTable(Stages(t, b)[n - 1])
    BY <1>2 DEF IsBatch
  <2> QED BY <2>1, <2>2, CascadeIsTable
<1>3. \A n \in 0..L : n \in S
  <2> HIDE DEF S, L
  <2> QED BY <1>0, <1>1, <1>2, Climb
<1> QED BY <1>3

LEMMA EffectIsTable ==
    ASSUME NEW t, IsTable(t), NEW b, IsBatch(b)
    PROVE  IsTable(Effect(t, b))
<1>1. Len(b) \in 0..Len(b)
  BY DEF IsBatch
<1> QED BY <1>1, StagesAreTables DEF Effect

\* A batch without IDs, carried out once more, changes nothing under any key.
LEMMA RetryHolds ==
    ASSUME NEW t, IsTable(t), NEW b, IsBatch(b), Nameless(b), NEW k
    PROVE  Held(Effect(Effect(t, b), b), k) = Held(Effect(t, b), k)
<1> DEFINE L == Len(b)
           u == Effect(t, b)
           v(n) == Held(Stages(t, b)[n], k)
           w(n) == Held(Stages(u, b)[n], k)
           S == {n \in 0..L : /\ v(0) = w(0) => v(n) = w(n)
                              /\ SetOrTrimmed(v(n), w(n), v(0), w(0))}
<1>0. L \in Nat /\ IsTable(u)
  BY EffectIsTable DEF IsBatch
<1>1. 0 \in S
  BY <1>0 DEF SetOrTrimmed
<1>2. ASSUME NEW n \in 1..L, n - 1 \in S PROVE n \in S
  <2> DEFINE tn == Stages(t, b)[n - 1]  un == Stages(u, b)[n - 1]
  <2>1. /\ Stages(t, b)[n] = RunCascade(tn, b[n])
        /\ Stages(u, b)[n] = RunCascade(un, b[n])
    BY <1>0, StagesStep
  <2>2. IsCommand(b[n]) /\ b[n].id = NoId
    BY DEF IsBatch, Nameless
  <2>3. n - 1 \in 0..L /\ n \in 0..L
    BY <1>0
  <2>4. IsTable(tn) /\ IsTable(un)
    BY <1>0, <2>3, StagesAreTables
  <2> HIDE DEF L, u
  <2>5. /\ v(n - 1) = w(n - 1) => v(n) = w(n)
        /\ SetOrTrimmed(v(n), w(n), v(n - 1), w(n - 1))
    <3> HIDE DEF tn, un
    <3>1. /\ Held(tn, k) = Held(un, k) =>
                Held(RunCascade(tn, b[n]), k) = Held(RunCascade(un, b[n]), k)
          /\ SetOrTrimmed(Held(RunCascade(tn, b[n]), k), Held(RunCascade(un, b[n]), k),
                          Held(tn, k), Held(un, k))
      BY <2>2, <2>4, CascadeSettles
    <3> QED BY <2>1, <3>1 DEF tn, un
  <2>6. /\ v(0) = w(0) => v(n - 1) = w(n - 1)
        /\ SetOrTrimmed(v(n - 1), w(n - 1), v(0), w(0))
    BY <1>2
  <2> HIDE DEF v, w
  <2> QED BY <2>3, <2>5, <2>6 DEF SetOrTrimmed
<1>3. L \in S
  <2>1. \A n \in 0..L : n \in S
    <3> HIDE DEF S, L
    <3> QED BY <1>0, <1>1, <1>2, Climb
  <2> QED BY <1>0, <2>1
<1>4. v(0) = Held(t, k) /\ w(0) = Held(u, k) /\ v(L) = Held(u, k)
  BY <1>0, StagesStep DEF Effect
<1>5. w(L) = Held(Effect(u, b), k)
  BY DEF Effect
<1>6. /\ v(0) = w(0) => v(L) = w(L)
      /\ v(L) = w(L) \/ (v(L) \subseteq v(0) /\ w(L) \subseteq w(0))
  BY <1>3 DEF SetOrTrimmed
<1>7. \A x, y \in v(0) : x = y
  BY <1>4, HeldOnce
<1> HIDE DEF v, w, u, L
<1>8. v(L) = w(L)
  <2>1. CASE v(L) \subseteq v(0) /\ w(L) \subseteq w(0)
    <3>1. CASE v(L) = {}
      BY <1>4, <2>1, <3>1
    <3>2. CASE v(L) # {}
      <4>1. v(L) = v(0)
        BY <1>7, <2>1, <3>2
      <4> QED BY <1>4, <1>6, <4>1
    <3> QED BY <3>1, <3>2
  <2> QED BY <1>6, <2>1
<1> QED BY <1>4, <1>5, <1>8 DEF u

-----------------------------------------------------------------------------
\* A batch and its opposite.

LEMMA FlippedForm ==
    ASSUME NEW b, IsBatch(b)
    PROVE  /\ IsBatch(Flipped(b)) /\ Len(Flipped(b)) = Len(b)
           /\ \A i \in DOMAIN b :
                 /\ Flipped(b)[i].rec = b[i].rec /\ Flipped(b)[i].id = b[i].id
                 /\ Flipped(b)[i].disabled = ~ b[i].disabled
<1> DEFINE f == Flipped(b)
<1>1. ASSUME NEW c, IsCommand(c)
      PROVE  [c EXCEPT !.disabled = ~ c.disabled]
               = [rec |-> c.rec, id |-> c.id, volatile |-> c.volatile,
                  disabled |-> ~ c.disabled]
  <2> DEFINE d == [rec |-> c.rec, id |-> c.id, volatile |-> c.volatile,
                   disabled |-> c.disabled]
  <2>1. c = d
    BY <1>1 DEF IsCommand
  <2>2. [d EXCEPT !.disabled = ~ c.disabled]
          = [rec |-> c.rec, id |-> c.id, volatile |-> c.volatile,
             disabled |-> ~ c.disabled]
    OBVIOUS
  <2> HIDE DEF d
  <2> QED BY <2>1, <2>2
<1>2. ASSUME NEW i \in DOMAIN b
      PROVE  f[i] = [rec |-> b[i].rec, id |-> b[i].id, volatile |-> b[i].volatile,
                     disabled |-> ~ b[i].disabled]
  <2>1. IsCommand(b[i])
    BY DEF IsBatch
  <2>2. f[i] = [b[i] EXCEPT !.disabled = ~ b[i].disabled]
    BY DEF Flipped
  <2> HIDE DEF f
  <2> QED BY <1>1, <2>1, <2>2
<1>3. ASSUME NEW i \in DOMAIN b
      PROVE  /\ IsCommand(f[i]) /\ f[i].rec = b[i].rec /\ f[i].id = b[i].id
             /\ f[i].disabled = ~ b[i].disabled
  <2> DEFINE no == ~ b[i].disabled
  <2>1. b[i].volatile \in BOOLEAN /\ no \in BOOLEAN
    BY DEF IsBatch, IsCommand
  <2>2. f[i] = [rec |-> b[i].rec, id |-> b[i].id, volatile |-> b[i].volatile,
                disabled |-> no]
    BY <1>2
  <2> HIDE DEF f, no
  <2>3. /\ f[i].rec = b[i].rec /\ f[i].id = b[i].id /\ f[i].volatile = b[i].volatile
        /\ f[i].disabled = no
    BY <2>2
  <2>4. IsCommand(f[i])
    BY <2>1, <2>2, <2>3 DEF IsCommand
  <2> QED BY <2>3, <2>4 DEF no
<1>4. DOMAIN f = 1..Len(b) /\ Len(b) \in Nat
  BY DEF Flipped, IsBatch
<1>5. Len(f) = Len(b)
  <2>1. f \in Seq({f[i] : i \in 1..Len(b)})
    <3>1. f = [i \in 1..Len(b) |-> f[i]]
      BY <1>4 DEF Flipped
    <3> HIDE DEF f
    <3> QED BY <1>4, <3>1
  <2> HIDE DEF f
  <2> QED BY <1>4, <2>1
<1> HIDE DEF f
<1>6. IsBatch(f)
  BY <1>3, <1>4, <1>5 DEF IsBatch
<1> QED BY <1>3, <1>5, <1>6 DEF f

\* What a command without an ID leaves under its keys, set or dropped, and under
\* all others.
LEMMA CascadeSets ==
    ASSUME NEW t, IsTable(t), NEW c, IsCommand(c), ~ c.disabled, NEW k
    PROVE  IF k \in Keys(c) THEN \A x \in Held(RunCascade(t, c), k) : x.rec.ttl = c.rec.ttl
                            ELSE Held(RunCascade(t, c), k) = Held(t, k)
<1> DEFINE t1 == Run(t, c)
           t2 == Run(t1, PtrOf(c))
<1>1. /\ c.rec.key # k => Held(t1, k) = Held(t, k)
      /\ c.rec.key = k => Held(t1, k) = {RowOf(c)}
  BY RunHolds
<1>2. /\ IsTable(t1) /\ IsCommand(PtrOf(c)) /\ ~ PtrOf(c).disabled
      /\ PtrOf(c).rec.ttl = c.rec.ttl
  BY RunIsTable, PtrIsCommand
<1>3. /\ PtrOf(c).rec.key # k => Held(t2, k) = Held(t1, k)
      /\ PtrOf(c).rec.key = k => Held(t2, k) = {RowOf(PtrOf(c))}
  <2> HIDE DEF t1
  <2> QED BY <1>2, RunHolds
<1>4. RunCascade(t, c) = IF HasPtr(c) THEN t2 ELSE t1
  BY CascadeForm
<1>5. RowOf(c).rec.ttl = c.rec.ttl /\ RowOf(PtrOf(c)).rec.ttl = c.rec.ttl
  BY <1>2 DEF RowOf
<1> HIDE DEF t1, t2
<1> QED BY <1>1, <1>3, <1>4, <1>5 DEF Keys

LEMMA CascadeDrops ==
    ASSUME NEW t, IsTable(t), NEW c, IsCommand(c), c.disabled, c.id = NoId, NEW k
    PROVE  /\ Held(RunCascade(t, c), k) \subseteq Held(t, k)
           /\ k \in Keys(c) => \A x \in Held(RunCascade(t, c), k) : x.rec.ttl # c.rec.ttl
<1> DEFINE t1 == Run(t, c)
           t2 == Run(t1, PtrOf(c))
<1>1. /\ c.rec.key # k => Held(t1, k) = Held(t, k)
      /\ c.rec.key = k => Held(t1, k) = {x \in Held(t, k) : x.rec.ttl # c.rec.ttl}
  BY RunHolds
<1>2. /\ IsTable(t1) /\ IsCommand(PtrOf(c)) /\ PtrOf(c).disabled /\ PtrOf(c).id = NoId
      /\ PtrOf(c).rec.ttl = c.rec.ttl
  BY RunIsTable, PtrIsCommand
<1>3. /\ PtrOf(c).rec.key # k => Held(t2, k) = Held(t1, k)
      /\ PtrOf(c).rec.key = k =>
            Held(t2, k) = {x \in Held(t1, k) : x.rec.ttl # PtrOf(c).rec.ttl}
  <2> HIDE DEF t1
  <2> QED BY <1>2, RunHolds
<1>4. RunCascade(t, c) = IF HasPtr(c) THEN t2 ELSE t1
  BY CascadeForm
<1> HIDE DEF t1, t2
<1> QED BY <1>1, <1>2, <1>3, <1>4 DEF Keys

\* After a batch that sets a key, the TTL under it is that of a command for it.
LEMMA SetLeaves ==
    ASSUME NEW t, IsTable(t), NEW b, IsBatch(b), \A i \in DOMAIN b : ~ b[i].disabled,
           NEW k, NEW d \in DOMAIN b, k \in Keys(b[d])
    PROVE  \E i \in DOMAIN b :
              /\ k \in Keys(b[i])
              /\ \A x \in Held(Effect(t, b), k) : x.rec.ttl = b[i].rec.ttl
<1> DEFINE L == Len(b)
           v(n) == Held(Stages(t, b)[n], k)
           P(n) == \/ \A i \in 1..n : k \notin Keys(b[i])
                   \/ \E i \in 1..n : k \in Keys(b[i])
                                      /\ \A x \in v(n) : x.rec.ttl = b[i].rec.ttl
           S == {n \in 0..L : P(n)}
<1>0. L \in Nat /\ DOMAIN b = 1..L
  BY DEF IsBatch
<1>1. 0 \in S
  <2>1. 1..0 = {}
    OBVIOUS
  <2> QED BY <1>0, <2>1
<1>2. ASSUME NEW n \in 1..L, n - 1 \in S PROVE n \in S
  <2> DEFINE tn == Stages(t, b)[n - 1]
  <2>1. Stages(t, b)[n] = RunCascade(tn, b[n])
    BY <1>0, StagesStep
  <2>2. n - 1 \in 0..L /\ n \in 0..L /\ 1..n = (1..n-1) \cup {n}
    BY <1>0
  <2>3. IsTable(tn) /\ IsCommand(b[n]) /\ ~ b[n].disabled
    BY <1>0, <2>2, StagesAreTables DEF IsBatch
  <2>4. IF k \in Keys(b[n]) THEN \A x \in v(n) : x.rec.ttl = b[n].rec.ttl
                            ELSE v(n) = v(n - 1)
    <3> HIDE DEF tn
    <3>1. IF k \in Keys(b[n])
          THEN \A x \in Held(RunCascade(tn, b[n]), k) : x.rec.ttl = b[n].rec.ttl
          ELSE Held(RunCascade(tn, b[n]), k) = Held(tn, k)
      BY <2>3, CascadeSets
    <3> QED BY <2>1, <3>1 DEF tn
  <2>5. P(n - 1)
    BY <1>2
  <2> HIDE DEF v, L
  <2>6. P(n)
    <3>1. CASE k \in Keys(b[n])
      BY <2>2, <2>4, <3>1
    <3>2. CASE k \notin Keys(b[n])
      BY <2>2, <2>4, <2>5, <3>2
    <3> QED BY <3>1, <3>2
  <2> HIDE DEF P
  <2> QED BY <2>2, <2>6
<1>3. L \in S
  <2>1. \A n \in 0..L : n \in S
    <3> HIDE DEF S, L
    <3> QED BY <1>0, <1>1, <1>2, Climb
  <2> QED BY <1>0, <2>1
<1>4. v(L) = Held(Effect(t, b), k)
  BY DEF Effect
<1> HIDE DEF v
<1> QED BY <1>0, <1>3, <1>4

\* A batch that drops a key with the TTL it has leaves nothing under it.
LEMMA DropLeaves ==
    ASSUME NEW t, IsTable(t), NEW b, IsBatch(b), Nameless(b),
           \A i \in DOMAIN b : b[i].disabled,
           NEW k, NEW d \in DOMAIN b, k \in Keys(b[d]),
           \A x \in Held(t, k) : x.rec.ttl = b[d].rec.ttl
    PROVE  Held(Effect(t, b), k) = {}
<1> DEFINE L == Len(b)
           v(n) == Held(Stages(t, b)[n], k)
           P(n) == v(n) \subseteq v(0) /\ (n >= d => v(n) = {})
           S == {n \in 0..L : P(n)}
<1>0. L \in Nat /\ DOMAIN b = 1..L /\ d \in 1..L
  BY DEF IsBatch
<1>1. v(0) = Held(t, k)
  BY <1>0, StagesStep
<1>2. 0 \in S
  BY <1>0
<1>3. ASSUME NEW n \in 1..L, n - 1 \in S PROVE n \in S
  <2> DEFINE tn == Stages(t, b)[n - 1]
  <2>1. Stages(t, b)[n] = RunCascade(tn, b[n])
    BY <1>0, StagesStep
  <2>2. n - 1 \in 0..L /\ n \in 0..L
    BY <1>0
  <2>3. IsTable(tn) /\ IsCommand(b[n]) /\ b[n].disabled /\ b[n].id = NoId
    BY <1>0, <2>2, StagesAreTables DEF IsBatch, Nameless
  <2>4. /\ v(n) \subseteq v(n - 1)
        /\ k \in Keys(b[n]) => \A x \in v(n) : x.rec.ttl # b[n].rec.ttl
    <3> HIDE DEF tn
    <3>1. /\ Held(RunCascade(tn, b[n]), k) \subseteq Held(tn, k)
          /\ k \in Keys(b[n]) =>
                \A x \in Held(RunCascade(tn, b[n]), k) : x.rec.ttl # b[n].rec.ttl
      BY <2>3, CascadeDrops
    <3> QED BY <2>1, <3>1 DEF tn
  <2>5. P(n - 1)
    BY <1>3
  <2> HIDE DEF v
  <2>6. P(n)
    <3>1. CASE n = d
      BY <1>1, <2>4, <2>5, <3>1
    <3>2. CASE n # d
      <4>1. n >= d => n - 1 >= d
        BY <1>0, <3>2
      <4> QED BY <2>4, <2>5, <4>1
    <3> QED BY <3>1, <3>2
  <2> HIDE DEF P
  <2> QED BY <2>2, <2>6
<1>4. L \in S
  <2>1. \A n \in 0..L : n \in S
    <3> HIDE DEF S, L
    <3> QED BY <1>0, <1>2, <1>3, Climb
  <2> QED BY <1>0, <2>1
<1>5. v(L) = Held(Effect(t, b), k)
  BY DEF Effect
<1>6. L >= d
  BY <1>0
<1> HIDE DEF v, L
<1> QED BY <1>4, <1>5, <1>6

-----------------------------------------------------------------------------
\* How many rows come and go.

LEMMA AtMostTwoMore ==
    ASSUME NEW A, IsFiniteSet(A), NEW x, NEW y, NEW B, B \subseteq A \cup {x, y}
    PROVE  IsFiniteSet(B) /\ Cardinality(B) \in Nat /\ Cardinality(B) <= Cardinality(A) + 2
<1>0. Cardinality(A) \in Nat
  BY FS_CardinalityType
<1> DEFINE B1 == A \cup {x}
           C == B1 \cup {y}
<1>1. IsFiniteSet(B1) /\ Cardinality(B1) <= Cardinality(A) + 1
  <2>1. /\ IsFiniteSet(B1)
        /\ Cardinality(B1) = IF x \in A THEN Cardinality(A) ELSE Cardinality(A) + 1
    BY FS_AddElement
  <2> HIDE DEF B1
  <2> QED BY <1>0, <2>1
<1>2. IsFiniteSet(C) /\ Cardinality(C) <= Cardinality(B1) + 1
  <2>1. /\ IsFiniteSet(C)
        /\ Cardinality(C) = IF y \in B1 THEN Cardinality(B1) ELSE Cardinality(B1) + 1
    <3> HIDE DEF B1
    <3> QED BY <1>1, FS_AddElement
  <2>2. Cardinality(B1) \in Nat
    BY <1>1, FS_CardinalityType
  <2> HIDE DEF B1, C
  <2> QED BY <2>1, <2>2
<1>3. B \subseteq C
  OBVIOUS
<1> HIDE DEF B1, C
<1>4. IsFiniteSet(B) /\ Cardinality(B) <= Cardinality(C)
  BY <1>2, <1>3, FS_Subset
<1>5. /\ Cardinality(A) \in Nat /\ Cardinality(B) \in Nat /\ Cardinality(C) \in Nat
      /\ Cardinality(B1) \in Nat
  BY <1>1, <1>2, <1>4, FS_CardinalityType
<1> QED BY <1>1, <1>2, <1>4, <1>5

LEMMA TwoForEach ==
    ASSUME NEW a \in Nat, NEW b \in Nat, NEW c \in Nat, NEW d \in Nat,
           a <= b + 2, b <= 2 * c, d = c + 1
    PROVE  a <= 2 * d
OBVIOUS

\* A command adds or takes away two rows at most.
LEMMA CascadeIds ==
    ASSUME NEW t, IsTable(t), NEW c, IsCommand(c)
    PROVE  LET u == RunCascade(t, c) IN
           /\ c.disabled => /\ DOMAIN u.rows \subseteq DOMAIN t.rows
                            /\ \E x, y : DOMAIN t.rows \subseteq DOMAIN u.rows \cup {x, y}
           /\ ~ c.disabled => /\ DOMAIN t.rows \subseteq DOMAIN u.rows
                              /\ \E x, y : DOMAIN u.rows \subseteq DOMAIN t.rows \cup {x, y}
<1>1. ASSUME NEW s, IsTable(s), NEW d, IsCommand(d)
      PROVE  /\ d.disabled =>
                    /\ DOMAIN Run(s, d).rows \subseteq DOMAIN s.rows
                    /\ \E x : DOMAIN s.rows \subseteq DOMAIN Run(s, d).rows \cup {x}
             /\ ~ d.disabled =>
                    /\ DOMAIN s.rows \subseteq DOMAIN Run(s, d).rows
                    /\ \E x : DOMAIN Run(s, d).rows \subseteq DOMAIN s.rows \cup {x}
  <2> DEFINE u == Run(s, d)
  <2>1. CASE d.disabled
    <3>1. DOMAIN u.rows = DOMAIN s.rows \ Dropped(s.rows, d)
      BY <1>1, <2>1, RunForms
    <3>2. \A i, j \in Dropped(s.rows, d) : i = j
      BY <1>1 DEF Dropped, SameRecord, IsTable
    <3>3. \E x : Dropped(s.rows, d) \subseteq {x}
      BY <3>2
    <3> HIDE DEF u
    <3>4. \E x : DOMAIN s.rows \subseteq DOMAIN u.rows \cup {x}
      BY <3>1, <3>3
    <3> QED BY <2>1, <3>1, <3>4 DEF u
  <2>2. CASE ~ d.disabled
    <3>1. DOMAIN u.rows = DOMAIN s.rows \/ DOMAIN u.rows = DOMAIN s.rows \cup {s.last + 1}
      BY <1>1, <2>2, RunForms
    <3> HIDE DEF u
    <3> QED BY <2>2, <3>1 DEF u
  <2> QED BY <2>1, <2>2
<1> DEFINE t1 == Run(t, c)
           t2 == Run(t1, PtrOf(c))
<1>2. /\ c.disabled => /\ DOMAIN t1.rows \subseteq DOMAIN t.rows
                       /\ \E x : DOMAIN t.rows \subseteq DOMAIN t1.rows \cup {x}
      /\ ~ c.disabled => /\ DOMAIN t.rows \subseteq DOMAIN t1.rows
                         /\ \E x : DOMAIN t1.rows \subseteq DOMAIN t.rows \cup {x}
  BY <1>1
<1>3. IsTable(t1) /\ IsCommand(PtrOf(c)) /\ PtrOf(c).disabled = c.disabled
  BY RunIsTable, PtrIsCommand
<1>4. /\ c.disabled => /\ DOMAIN t2.rows \subseteq DOMAIN t1.rows
                       /\ \E x : DOMAIN t1.rows \subseteq DOMAIN t2.rows \cup {x}
      /\ ~ c.disabled => /\ DOMAIN t1.rows \subseteq DOMAIN t2.rows
                         /\ \E x : DOMAIN t2.rows \subseteq DOMAIN t1.rows \cup {x}
  <2> HIDE DEF t1
  <2> QED BY <1>1, <1>3
<1>5. RunCascade(t, c) = IF HasPtr(c) THEN t2 ELSE t1
  BY CascadeForm
<1> HIDE DEF t1, t2
<1>6. CASE c.disabled
  <2>1. PICK x : DOMAIN t.rows \subseteq DOMAIN t1.rows \cup {x}
    BY <1>2, <1>6
  <2>2. PICK y : DOMAIN t1.rows \subseteq DOMAIN t2.rows \cup {y}
    BY <1>4, <1>6
  <2>3. /\ DOMAIN t.rows \subseteq DOMAIN t2.rows \cup {x, y}
        /\ DOMAIN t.rows \subseteq DOMAIN t1.rows \cup {x, y}
        /\ DOMAIN t2.rows \subseteq DOMAIN t.rows /\ DOMAIN t1.rows \subseteq DOMAIN t.rows
    BY <1>2, <1>4, <1>6, <2>1, <2>2
  <2> QED BY <1>5, <1>6, <2>3
<1>7. CASE ~ c.disabled
  <2>1. PICK x : DOMAIN t1.rows \subseteq DOMAIN t.rows \cup {x}
    BY <1>2, <1>7
  <2>2. PICK y : DOMAIN t2.rows \subseteq DOMAIN t1.rows \cup {y}
    BY <1>4, <1>7
  <2>3. /\ DOMAIN t2.rows \subseteq DOMAIN t.rows \cup {x, y}
        /\ DOMAIN t1.rows \subseteq DOMAIN t.rows \cup {x, y}
        /\ DOMAIN t.rows \subseteq DOMAIN t2.rows /\ DOMAIN t.rows \subseteq DOMAIN t1.rows
    BY <1>2, <1>4, <1>7, <2>1, <2>2
  <2> QED BY <1>5, <1>7, <2>3
<1> QED BY <1>6, <1>7

LEMMA BatchBounds ==
    ASSUME NEW t, IsTable(t), NEW b, IsBatch(b)
    PROVE  LET u == Effect(t, b) IN
           /\ Cardinality(DOMAIN u.rows \ DOMAIN t.rows) <= 2 * CountOf(b, FALSE)
           /\ Cardinality(DOMAIN t.rows \ DOMAIN u.rows) <= 2 * CountOf(b, TRUE)
<1> DEFINE L == Len(b)
           D(n) == DOMAIN Stages(t, b)[n].rows
           Came(n) == D(n) \ D(0)
           Went(n) == D(0) \ D(n)
           On(n)  == {i \in 1..n : ~ b[i].disabled}
           Off(n) == {i \in 1..n : b[i].disabled}
           P(n) == /\ IsFiniteSet(Came(n)) /\ Cardinality(Came(n)) <= 2 * Cardinality(On(n))
                   /\ IsFiniteSet(Went(n)) /\ Cardinality(Went(n)) <= 2 * Cardinality(Off(n))
           S == {n \in 0..L : P(n)}
<1>0. L \in Nat /\ DOMAIN b = 1..L
  BY DEF IsBatch
<1>1. \A n \in 0..L : /\ IsFiniteSet(On(n)) /\ Cardinality(On(n)) \in Nat
                      /\ IsFiniteSet(Off(n)) /\ Cardinality(Off(n)) \in Nat
  <2> SUFFICES ASSUME NEW n \in 0..L
               PROVE  /\ IsFiniteSet(On(n)) /\ Cardinality(On(n)) \in Nat
                      /\ IsFiniteSet(Off(n)) /\ Cardinality(Off(n)) \in Nat
    OBVIOUS
  <2>1. IsFiniteSet(1..n)
    BY <1>0, FS_Interval
  <2>2. On(n) \in SUBSET (1..n) /\ Off(n) \in SUBSET (1..n)
    OBVIOUS
  <2> HIDE DEF On, Off
  <2> QED BY <2>1, <2>2, FS_Subset, FS_CardinalityType
<1>2. 0 \in S
  <2>1. Came(0) = {} /\ Went(0) = {}
    OBVIOUS
  <2>2. Cardinality({}) = 0 /\ IsFiniteSet({})
    BY FS_EmptySet
  <2>3. 0 \in 0..L /\ Cardinality(On(0)) \in Nat /\ Cardinality(Off(0)) \in Nat
    BY <1>0, <1>1
  <2> HIDE DEF Came, Went, On, Off
  <2>4. P(0)
    <3>1. \A m \in Nat : 0 <= 2 * m
      OBVIOUS
    <3>2. 0 <= 2 * Cardinality(On(0)) /\ 0 <= 2 * Cardinality(Off(0))
      BY <2>3, <3>1
    <3>3. /\ IsFiniteSet(Came(0)) /\ Cardinality(Came(0)) = 0
          /\ IsFiniteSet(Went(0)) /\ Cardinality(Went(0)) = 0
      BY <2>1, <2>2
    <3> QED BY <3>2, <3>3
  <2> HIDE DEF P
  <2> QED BY <2>3, <2>4
<1>3. ASSUME NEW n \in 1..L, n - 1 \in S PROVE n \in S
  <2> DEFINE tn == Stages(t, b)[n - 1]
  <2>1. Stages(t, b)[n] = RunCascade(tn, b[n])
    BY <1>0, StagesStep
  <2>2. n - 1 \in 0..L /\ n \in 0..L /\ 1..n = (1..n-1) \cup {n} /\ n \notin 1..n-1
    BY <1>0
  <2>3. IsTable(tn) /\ IsCommand(b[n])
    BY <1>0, <2>2, StagesAreTables DEF IsBatch
  <2>4. /\ b[n].disabled => /\ D(n) \subseteq D(n - 1)
                            /\ \E x, y : D(n - 1) \subseteq D(n) \cup {x, y}
        /\ ~ b[n].disabled => /\ D(n - 1) \subseteq D(n)
                              /\ \E x, y : D(n) \subseteq D(n - 1) \cup {x, y}
    <3> DEFINE u == RunCascade(tn, b[n])
    <3> HIDE DEF tn
    <3>1. /\ b[n].disabled =>
                /\ DOMAIN u.rows \subseteq DOMAIN tn.rows
                /\ \E x, y : DOMAIN tn.rows \subseteq DOMAIN u.rows \cup {x, y}
          /\ ~ b[n].disabled =>
                /\ DOMAIN tn.rows \subseteq DOMAIN u.rows
                /\ \E x, y : DOMAIN u.rows \subseteq DOMAIN tn.rows \cup {x, y}
      BY <2>3, CascadeIds
    <3> QED BY <2>1, <3>1 DEF tn
  <2>5. P(n - 1)
    BY <1>3
  <2>6. CASE b[n].disabled
    <3>1. PICK x, y : D(n - 1) \subseteq D(n) \cup {x, y}
      BY <2>4, <2>6
    <3>2. Came(n) \subseteq Came(n - 1) \cup {} /\ Went(n) \subseteq Went(n - 1) \cup {x, y}
      BY <2>4, <2>6, <3>1
    <3>3. /\ Off(n) = Off(n - 1) \cup {n} /\ n \notin Off(n - 1) /\ On(n) = On(n - 1)
      BY <2>2, <2>6
    <3> HIDE DEF D, Came, Went, On, Off
    <3>4. Cardinality(Off(n)) = Cardinality(Off(n - 1)) + 1
      BY <1>1, <2>2, <3>3, FS_AddElement
    <3>5. /\ IsFiniteSet(Went(n)) /\ Cardinality(Went(n)) <= Cardinality(Went(n - 1)) + 2
          /\ Cardinality(Went(n - 1)) \in Nat /\ Cardinality(Went(n)) \in Nat
      <4>1. Cardinality(Went(n - 1)) \in Nat
        BY <2>5, FS_CardinalityType
      <4>2. IsFiniteSet(Went(n - 1))
        BY <2>5
      <4>3. /\ IsFiniteSet(Went(n)) /\ Cardinality(Went(n)) \in Nat
            /\ Cardinality(Went(n)) <= Cardinality(Went(n - 1)) + 2
        BY <3>2, <4>2, AtMostTwoMore
      <4> QED BY <4>1, <4>3
    <3>6. /\ IsFiniteSet(Came(n)) /\ Cardinality(Came(n)) <= Cardinality(Came(n - 1))
          /\ Cardinality(Came(n - 1)) \in Nat /\ Cardinality(Came(n)) \in Nat
      BY <2>5, <3>2, FS_Subset, FS_CardinalityType
    <3>7. /\ Cardinality(Came(n)) <= 2 * Cardinality(On(n))
      BY <1>1, <2>2, <2>5, <3>3, <3>6
    <3>8. Cardinality(Went(n)) <= 2 * Cardinality(Off(n))
      <4>1. Cardinality(Off(n)) \in Nat /\ Cardinality(Off(n - 1)) \in Nat
        BY <1>1, <2>2
      <4>2. Cardinality(Went(n - 1)) <= 2 * Cardinality(Off(n - 1))
        BY <2>5
      <4> QED BY <3>4, <3>5, <4>1, <4>2, TwoForEach
    <3> QED BY <2>2, <3>5, <3>6, <3>7, <3>8
  <2>7. CASE ~ b[n].disabled
    <3>1. PICK x, y : D(n) \subseteq D(n - 1) \cup {x, y}
      BY <2>4, <2>7
    <3>2. Went(n) \subseteq Went(n - 1) \cup {} /\ Came(n) \subseteq Came(n - 1) \cup {x, y}
      BY <2>4, <2>7, <3>1
    <3>3. /\ On(n) = On(n - 1) \cup {n} /\ n \notin On(n - 1) /\ Off(n) = Off(n - 1)
      BY <2>2, <2>7
    <3> HIDE DEF D, Came, Went, On, Off
    <3>4. Cardinality(On(n)) = Cardinality(On(n - 1)) + 1
      BY <1>1, <2>2, <3>3, FS_AddElement
    <3>5. /\ IsFiniteSet(Came(n)) /\ Cardinality(Came(n)) <= Cardinality(Came(n - 1)) + 2
          /\ Cardinality(Came(n - 1)) \in Nat /\ Cardinality(Came(n)) \in Nat
      <4>1. Cardinality(Came(n - 1)) \in Nat
        BY <2>5, FS_CardinalityType
      <4>2. IsFiniteSet(Came(n - 1))
        BY <2>5
      <4>3. /\ IsFiniteSet(Came(n)) /\ Cardinality(Came(n)) \in Nat
            /\ Cardinality(Came(n)) <= Cardinality(Came(n - 1)) + 2
        BY <3>2, <4>2, AtMostTwoMore
      <4> QED BY <4>1, <4>3
    <3>6. /\ IsFiniteSet(Went(n)) /\ Cardinality(Went(n)) <= Cardinality(Went(n - 1))
          /\ Cardinality(Went(n - 1)) \in Nat /\ Cardinality(Went(n)) \in Nat
      BY <2>5, <3>2, FS_Subset, FS_CardinalityType
    <3>7. Cardinality(Went(n)) <= 2 * Cardinality(Off(n))
      BY <1>1, <2>2, <2>5, <3>3, <3>6
    <3>8. Cardinality(Came(n)) <= 2 * Cardinality(On(n))
      <4>1. Cardinality(On(n)) \in Nat /\ Cardinality(On(n - 1)) \in Nat
        BY <1>1, <2>2
      <4>2. Cardinality(Came(n - 1)) <= 2 * Cardinality(On(n - 1))
        BY <2>5
      <4> QED BY <3>4, <3>5, <4>1, <4>2, TwoForEach
    <3> QED BY <2>2, <3>5, <3>6, <3>7, <3>8
  <2> QED BY <2>6, <2>7
<1>4. L \in S
  <2>1. \A n \in 0..L : n \in S
    <3> HIDE DEF S, L
    <3> QED BY <1>0, <1>2, <1>3, Climb
  <2> HIDE DEF S
  <2> QED BY <1>0, <2>1
<1>5. /\ D(0) = DOMAIN t.rows /\ D(L) = DOMAIN Effect(t, b).rows
  BY <1>0, StagesStep DEF Effect
<1>6. CountOf(b, FALSE) = Cardinality(On(L)) /\ CountOf(b, TRUE) = Cardinality(Off(L))
  <2>1. \A i \in 1..L : b[i].disabled \in BOOLEAN
    BY <1>0 DEF IsBatch, IsCommand
  <2>2. /\ On(L) = {i \in DOMAIN b : b[i].disabled = FALSE}
        /\ Off(L) = {i \in DOMAIN b : b[i].disabled = TRUE}
    BY <1>0, <2>1
  <2> HIDE DEF On, Off
  <2> QED BY <2>2 DEF CountOf
<1>7. P(L)
  BY <1>4
<1> HIDE DEF D, On, Off, L
<1> QED BY <1>5, <1>6, <1>7

-----------------------------------------------------------------------------
\* Bodies, and the batches they are parsed into.

\* Of lines with different IDs there is a first one, a second one, and so on.
LEMMA Ranked ==
    ASSUME NEW U, IsFiniteSet(U), \A l \in U : l.id \in Nat,
           \A l, k \in U : l.id = k.id => l = k
    PROVE  \A n \in 1..Cardinality(U) :
              \E l \in U : Cardinality({k \in U : k.id <= l.id}) = n
<1> DEFINE N == Cardinality(U)
           Upto(l) == {k \in U : k.id <= l.id}
           rank == [l \in U |-> Cardinality(Upto(l))]
<1>1. N \in Nat
  BY FS_CardinalityType
<1>2. ASSUME NEW l \in U
      PROVE  /\ IsFiniteSet(Upto(l)) /\ Cardinality(Upto(l)) \in 1..N
  <2>1. IsFiniteSet(Upto(l)) /\ Cardinality(Upto(l)) <= N /\ Cardinality(Upto(l)) \in Nat
    <3>1. Upto(l) \in SUBSET U
      OBVIOUS
    <3> HIDE DEF Upto
    <3> QED BY <3>1, FS_Subset, FS_CardinalityType
  <2>2. l \in Upto(l)
    OBVIOUS
  <2> HIDE DEF Upto, N
  <2>3. Cardinality(Upto(l)) # 0
    BY <2>1, <2>2, FS_EmptySet
  <2> QED BY <1>1, <2>1, <2>3
<1>3. ASSUME NEW l \in U, NEW k \in U, l.id < k.id PROVE rank[l] # rank[k]
  <2>1. Upto(l) \in SUBSET Upto(k) /\ k \in Upto(k) /\ k \notin Upto(l)
    <3>1. l.id \in Nat /\ k.id \in Nat /\ \A j \in U : j.id \in Nat
      OBVIOUS
    <3> QED BY <1>3, <3>1
  <2>2. IsFiniteSet(Upto(k))
    BY <1>2
  <2>3. rank[l] = Cardinality(Upto(l)) /\ rank[k] = Cardinality(Upto(k))
    OBVIOUS
  <2> HIDE DEF Upto, rank
  <2>4. Cardinality(Upto(k)) = Cardinality(Upto(l)) => Upto(k) = Upto(l)
    BY <2>1, <2>2, FS_Subset
  <2> QED BY <2>1, <2>3, <2>4
<1>4. rank \in [U -> 1..N]
  BY <1>2
<1>5. \A l, k \in U : rank[l] = rank[k] => l = k
  <2> SUFFICES ASSUME NEW l \in U, NEW k \in U, rank[l] = rank[k] PROVE l = k
    OBVIOUS
  <2>1. l.id < k.id \/ k.id < l.id \/ l.id = k.id
    <3>1. l.id \in Nat /\ k.id \in Nat
      OBVIOUS
    <3> QED BY <3>1
  <2>2. ~ (l.id < k.id) /\ ~ (k.id < l.id)
    <3> HIDE DEF rank
    <3> QED BY <1>3
  <2> HIDE DEF rank
  <2> QED BY <2>1, <2>2
<1> HIDE DEF rank
<1>6. rank \in Injection(U, 1..N)
  BY <1>4, <1>5 DEF Injection, IsInjective
<1>7. IsFiniteSet(1..N) /\ Cardinality(1..N) = N
  BY <1>1, FS_Interval
<1>8. rank \in Surjection(U, 1..N)
  BY <1>6, <1>7, FS_Injection DEF N
<1>9. ASSUME NEW n \in 1..N PROVE \E l \in U : rank[l] = n
  BY <1>8 DEF Surjection
<1> QED BY <1>9 DEF rank

\* What a client was shown: a finite set of rows with their IDs.
IsListing(lines) ==
    /\ IsFiniteSet(lines)
    /\ \A l \in lines : l.id \in Nat /\ l.volatile \in BOOLEAN
    /\ \A l, k \in lines : l.id = k.id => l = k

LEMMA ListingIsBody ==
    ASSUME NEW lines, IsListing(lines)
    PROVE  IsBody(Listing(lines))
<1> DEFINE N == Cardinality(lines)
           nth(n) == CHOOSE l \in lines : Cardinality({k \in lines : k.id <= l.id}) = n
           f == Listing(lines)
<1>1. N \in Nat
  BY FS_CardinalityType DEF IsListing
<1>2. ASSUME NEW n \in 1..N PROVE nth(n) \in lines
  <2>1. \E l \in lines : Cardinality({k \in lines : k.id <= l.id}) = n
    BY Ranked DEF IsListing
  <2> QED BY <2>1
<1>3. f = [n \in 1..N |-> [form |-> "record", disabled |-> FALSE, rr |-> nth(n).rec.rr,
                           id |-> nth(n).id, volatile |-> nth(n).volatile]]
  BY DEF Listing
<1>4. ASSUME NEW n \in 1..N PROVE IsLine(f[n])
  <2> DEFINE l == nth(n)
  <2>1. l \in lines
    BY <1>2
  <2>2. f[n] = [form |-> "record", disabled |-> FALSE, rr |-> l.rec.rr,
                id |-> l.id, volatile |-> l.volatile]
    BY <1>3
  <2> HIDE DEF l, f
  <2>3. l.volatile \in BOOLEAN
    BY <2>1 DEF IsListing
  <2> QED BY <2>2, <2>3 DEF IsLine
<1> HIDE DEF N, nth
<1>5. DOMAIN f = 1..N
  BY <1>3
<1>6. Len(f) = N
  <2>1. f = [n \in 1..N |-> f[n]]
    BY <1>3
  <2> HIDE DEF f
  <2>2. f \in Seq({f[n] : n \in 1..N})
    BY <1>1, <2>1
  <2> QED BY <1>1, <1>5, <2>2
<1> HIDE DEF f
<1>7. IsBody(f)
  BY <1>1, <1>4, <1>5, <1>6 DEF IsBody
<1> QED BY <1>7 DEF f

\* parseRecordSet changes the text of a line, and nothing else about it.
LEMMA SubstitutedLine ==
    ASSUME NEW l, IsLine(l), NEW remote
    PROVE  /\ IsLine(Substituted(l, remote))
           /\ Substituted(l, remote).form = l.form
           /\ Substituted(l, remote).rr
                = [l.rr EXCEPT !.data = [i \in DOMAIN @ |-> IF @[i] = "$ADDR" THEN remote
                                                            ELSE @[i]]]
<1> DEFINE s == Substituted(l, remote)
           rr == [l.rr EXCEPT !.data = [i \in DOMAIN @ |-> IF @[i] = "$ADDR" THEN remote
                                                           ELSE @[i]]]
           e == [form |-> l.form, disabled |-> l.disabled, rr |-> l.rr, id |-> l.id,
                 volatile |-> l.volatile]
<1>1. s = [l EXCEPT !.rr = rr]
  BY DEF Substituted
<1>2. l = e /\ l.disabled \in BOOLEAN /\ l.volatile \in BOOLEAN
  BY DEF IsLine
<1> HIDE DEF s, rr
<1>3. [e EXCEPT !.rr = rr]
        = [form |-> l.form, disabled |-> l.disabled, rr |-> rr, id |-> l.id,
           volatile |-> l.volatile]
  OBVIOUS
<1> HIDE DEF e
<1>4. s = [form |-> l.form, disabled |-> l.disabled, rr |-> rr, id |-> l.id,
           volatile |-> l.volatile]
  BY <1>1, <1>2, <1>3
<1>5. IsLine(s) /\ s.form = l.form /\ s.rr = rr
  BY <1>2, <1>4 DEF IsLine
<1> QED BY <1>5 DEF s, rr

LEMMA LineIsCommand ==
    ASSUME NEW l, IsLine(l)
    PROVE  /\ IsCommand(CommandOf(l))
           /\ CommandOf(l).rec = NewRecordFromRR(l.rr)
BY DEF IsLine, CommandOf, IsCommand

LEMMA LinesAreBody ==
    ASSUME NEW r, IsBody(r.body), NEW remote
    PROVE  IsBody(Lines(r, remote))
<1> DEFINE f == Lines(r, remote)
           L == Len(r.body)
<1>0. L \in Nat /\ DOMAIN r.body = 1..L
  BY DEF IsBody
<1>1. ASSUME NEW i \in 1..L PROVE IsLine(f[i])
  <2>1. f[i] = Substituted(r.body[i], remote)
    BY <1>0 DEF Lines
  <2>2. IsLine(r.body[i])
    BY <1>0 DEF IsBody
  <2> HIDE DEF f
  <2>3. IsLine(Substituted(r.body[i], remote))
    BY <2>2, SubstitutedLine
  <2> QED BY <2>1, <2>3
<1>2. DOMAIN f = 1..L
  BY <1>0 DEF Lines
<1>3. Len(f) = L
  <2>1. f = [n \in 1..L |-> f[n]]
    BY <1>0 DEF Lines
  <2> HIDE DEF f, L
  <2>2. f \in Seq({f[n] : n \in 1..L})
    BY <1>0, <2>1
  <2> QED BY <1>0, <1>2, <2>2
<1> HIDE DEF f, L
<1>4. IsBody(f)
  BY <1>0, <1>1, <1>2, <1>3 DEF IsBody
<1> QED BY <1>4 DEF f

\* The parser goes from line to line.
LEMMA ReadStep ==
    ASSUME NEW lines, Len(lines) \in Nat
    PROVE  /\ ReadUpTo(lines)[0] = <<>>
           /\ \A n \in 1..Len(lines) :
                 ReadUpTo(lines)[n] =
                    IF Parses(lines[n])
                    THEN Append(ReadUpTo(lines)[n - 1], CommandOf(lines[n]))
                    ELSE ReadUpTo(lines)[n - 1]
<1> DEFINE L == Len(lines)
           On(seq, n) == IF Parses(lines[n]) THEN Append(seq, CommandOf(lines[n])) ELSE seq
           Def(g, m) == g = [n \in 0..m |-> IF n = 0 THEN <<>>
                                ELSE IF Parses(lines[n])
                                     THEN Append(g[n - 1], CommandOf(lines[n]))
                                ELSE g[n - 1]]
           S == {m \in 0..L : \E g : Def(g, m)}
<1>1. 0 \in S
  <2>1. Def([n \in 0..0 |-> <<>>], 0)
    OBVIOUS
  <2>2. \E g : Def(g, 0)
    <3> HIDE DEF Def
    <3> QED BY <2>1
  <2> HIDE DEF Def
  <2> QED BY <2>2
<1>2. ASSUME NEW m \in 1..L, m - 1 \in S PROVE m \in S
  <2>1. PICK g : Def(g, m - 1)
    BY <1>2
  <2> DEFINE h == [n \in 0..m |-> IF n = m THEN On(g[m - 1], m) ELSE g[n]]
  <2>2. ASSUME NEW n \in 0..m
        PROVE  h[n] = IF n = 0 THEN <<>> ELSE On(h[n - 1], n)
    <3>1. CASE n = m
      <4>1. h[n] = On(g[m - 1], m) /\ h[n - 1] = g[n - 1] /\ n # 0
        BY <3>1
      <4> HIDE DEF On, h
      <4> QED BY <3>1, <4>1
    <3>2. CASE n # m /\ n # 0
      <4>1. n \in 0..m-1 /\ n - 1 \in 0..m /\ n - 1 # m
        BY <3>2
      <4>2. h[n] = g[n] /\ h[n - 1] = g[n - 1]
        BY <3>2, <4>1
      <4>3. g[n] = On(g[n - 1], n)
        BY <2>1, <3>2, <4>1
      <4> HIDE DEF On, h
      <4> QED BY <3>2, <4>2, <4>3
    <3>3. CASE n # m /\ n = 0
      <4>1. 0 \in 0..m-1
        OBVIOUS
      <4>2. g[0] = <<>>
        BY <2>1, <4>1
      <4> QED BY <3>3, <4>2
    <3> QED BY <3>1, <3>2, <3>3
  <2>3. Def(h, m)
    <3>1. h = [n \in 0..m |-> h[n]]
      OBVIOUS
    <3> HIDE DEF h
    <3> QED BY <2>2, <3>1
  <2> HIDE DEF Def, h
  <2> QED BY <2>3
<1>3. L \in S
  <2>1. \A n \in 0..L : n \in S
    <3> HIDE DEF S
    <3> QED BY <1>1, <1>2, Climb
  <2> QED BY <2>1
<1>4. \E g : Def(g, L)
  BY <1>3
<1>5. ReadUpTo(lines) = CHOOSE g : Def(g, L)
  BY DEF ReadUpTo
<1> DEFINE f == ReadUpTo(lines)
<1>6. Def(f, L)
  BY <1>4, <1>5
<1>7. f = [n \in 0..L |-> IF n = 0 THEN <<>> ELSE On(f[n - 1], n)]
  BY <1>6
<1> HIDE DEF f, On, Def, S
<1>8. f[0] = <<>>
  BY <1>7
<1>9. ASSUME NEW n \in 1..L PROVE f[n] = On(f[n - 1], n)
  <2>1. n \in 0..L /\ n # 0
    OBVIOUS
  <2> QED BY <1>7, <2>1
<1> QED BY <1>8, <1>9 DEF f, On

\* The commands of a body are those of its lines that parse.
LEMMA ReadFrom ==
    ASSUME NEW lines, IsBody(lines)
    PROVE  NewDynamicRecordSet(lines)
              \in Seq({CommandOf(lines[i]) : i \in {j \in DOMAIN lines : Parses(lines[j])}})
<1> DEFINE L == Len(lines)
           read == ReadUpTo(lines)
           R == {CommandOf(lines[i]) : i \in {j \in DOMAIN lines : Parses(lines[j])}}
           S == {n \in 0..L : read[n] \in Seq(R)}
<1>0. L \in Nat /\ DOMAIN lines = 1..L
  BY DEF IsBody
<1>1. /\ read[0] = <<>>
      /\ \A n \in 1..L : read[n] = IF Parses(lines[n])
                                   THEN Append(read[n - 1], CommandOf(lines[n]))
                                   ELSE read[n - 1]
  BY <1>0, ReadStep
<1>2. \A n \in 1..L : Parses(lines[n]) => CommandOf(lines[n]) \in R
  BY <1>0
<1> HIDE DEF L, read, R
<1>3. 0 \in S
  <2>1. <<>> \in Seq(R)
    OBVIOUS
  <2>2. read[0] \in Seq(R)
    BY <1>1, <2>1, Zenon
  <2> QED BY <1>0, <2>2
<1>4. ASSUME NEW n \in 1..L, n - 1 \in S PROVE n \in S
  <2>1. read[n - 1] \in Seq(R)
    BY <1>4
  <2>2. read[n] \in Seq(R)
    <3>1. CASE Parses(lines[n])
      <4> DEFINE c == CommandOf(lines[n])
      <4>1. c \in R /\ read[n] = Append(read[n - 1], c)
        BY <1>1, <1>2, <3>1
      <4> HIDE DEF c
      <4> QED BY <2>1, <4>1
    <3>2. CASE ~ Parses(lines[n])
      BY <1>1, <2>1, <3>2
    <3> QED BY <3>1, <3>2
  <2> QED BY <1>0, <2>2
<1>5. L \in S
  <2>1. \A n \in 0..L : n \in S
    <3> HIDE DEF S
    <3> QED BY <1>0, <1>3, <1>4, Climb
  <2> QED BY <1>0, <2>1
<1>6. NewDynamicRecordSet(lines) = read[L]
  BY DEF NewDynamicRecordSet, read, L
<1> QED BY <1>5, <1>6 DEF R

LEMMA ParsedIsBatch ==
    ASSUME NEW lines, IsBody(lines)
    PROVE  IsBatch(NewDynamicRecordSet(lines))
<1> DEFINE R == {CommandOf(lines[i]) : i \in {j \in DOMAIN lines : Parses(lines[j])}}
           b == NewDynamicRecordSet(lines)
<1>1. \A c \in R : IsCommand(c)
  BY DEF IsBody, IsLine, CommandOf, IsCommand
<1>2. b \in Seq(R)
  BY ReadFrom
<1> HIDE DEF R, b
<1>3. IsBatch(b)
  BY <1>1, <1>2 DEF IsBatch
<1> QED BY <1>3 DEF b

-----------------------------------------------------------------------------
\* The invariant of the API.

IsReply(r) ==
    /\ r = [status |-> r.status, add |-> r.add, del |-> r.del, lines |-> r.lines]
    /\ r.status \in Statuses /\ IsListing(r.lines)

ApiInv ==
    /\ IsTable(Table)
    /\ request = [c \in Clients |-> request[c]] /\ reply = [c \in Clients |-> reply[c]]
    /\ \A c \in Clients : IsBody(request[c].body)
    /\ \A c \in Clients : IsReply(reply[c])
    /\ requests \in 0..MaxRequests

LEMMA InvGivesType == ApiInv => TypeOK
BY DEF ApiInv, TypeOK, IsTable, Table, IsReply

LEMMA NothingListed == IsListing({})
BY FS_EmptySet DEF IsListing

LEMMA InvInit == Init => ApiInv
<1> SUFFICES ASSUME Init PROVE ApiInv
  OBVIOUS
<1>1. IsTable(Table)
  BY DEF Init, IsTable, Table
<1> DEFINE first == CHOOSE r \in Requests : TRUE
<1>2. first \in Requests
  BY BodyAssumption
<1> HIDE DEF first
<1>3. IsBody(first.body)
  BY <1>2, BodyAssumption
<1>4. request \in [Clients -> {first}]
  BY DEF Init, first
<1>5. \A c \in Clients : IsBody(request[c].body)
  BY <1>3, <1>4
<1>6. \A c \in Clients : reply[c] = [status |-> 200, add |-> 0, del |-> 0, lines |-> {}]
  BY DEF Init
<1>7. \A c \in Clients : IsReply(reply[c])
  BY <1>6, NothingListed DEF IsReply, Statuses
<1>8. request = [c \in Clients |-> request[c]] /\ reply = [c \in Clients |-> reply[c]]
  BY <1>4 DEF Init
<1>9. requests \in 0..MaxRequests
  BY RequestAssumption DEF Init
<1> QED BY <1>1, <1>5, <1>7, <1>8, <1>9 DEF ApiInv

\* The commands of a request are a batch.
LEMMA CommandsAreBatch ==
    ASSUME ApiInv, NEW c \in Clients
    PROVE  IsBatch(CommandsOf(c))
<1>1. IsBody(request[c].body)
  BY DEF ApiInv
<1>2. IsBody(Lines(request[c], Remote[c]))
  BY <1>1, LinesAreBody
<1>3. IsBatch(NewDynamicRecordSet(Lines(request[c], Remote[c])))
  BY <1>2, ParsedIsBatch
<1>4. IsBatch(Flipped(NewDynamicRecordSet(Lines(request[c], Remote[c]))))
  BY <1>3, FlippedForm
<1> QED BY <1>3, <1>4 DEF CommandsOf

\* A table without some of its rows is a table.
LEMMA WithoutIsTable ==
    ASSUME NEW t, IsTable(t), NEW ids
    PROVE  IsTable([t EXCEPT !.rows = Without(t.rows, ids)])
<1> DEFINE u == [t EXCEPT !.rows = Without(t.rows, ids)]
<1>1. u = [rows |-> Without(t.rows, ids), last |-> t.last]
  BY DEF IsTable
<1>2. /\ DOMAIN u.rows \subseteq DOMAIN t.rows
      /\ \A i \in DOMAIN u.rows : u.rows[i] = t.rows[i]
  BY <1>1 DEF Without
<1>3. u = [rows |-> u.rows, last |-> u.last] /\ u.last = t.last
  BY <1>1
<1> HIDE DEF u
<1>4. IsTable(u)
  BY <1>2, <1>3 DEF IsTable
<1> QED BY <1>4 DEF u

\* A GET shows a finite set of rows, each with its own ID.
LEMMA ShownIsListing ==
    ASSUME IsTable(Table), NEW W, W \subseteq DOMAIN rows
    PROVE  IsListing({[id |-> i, rec |-> rows[i].rec, volatile |-> rows[i].volatile] : i \in W})
<1> DEFINE f == [i \in W |-> [id |-> i, rec |-> rows[i].rec, volatile |-> rows[i].volatile]]
           S == {f[i] : i \in W}
<1>1. lastId \in Nat /\ W \subseteq 1..lastId
  BY DEF IsTable, Table
<1>2. IsFiniteSet(W)
  <2>1. IsFiniteSet(1..lastId)
    BY <1>1, FS_Interval
  <2> QED BY <1>1, <2>1, FS_Subset
<1>3. f \in Surjection(W, S)
  <2>1. f \in [W -> S]
    OBVIOUS
  <2> HIDE DEF f
  <2> QED BY <2>1 DEF Surjection
<1>4. \A l \in S : l.id \in W /\ l = f[l.id] /\ l.volatile = rows[l.id].volatile
  OBVIOUS
<1>5. S = {[id |-> i, rec |-> rows[i].rec, volatile |-> rows[i].volatile] : i \in W}
  OBVIOUS
<1>6. \A i \in W : rows[i].volatile \in BOOLEAN /\ i \in Nat
  BY <1>1 DEF IsTable, Table
<1> HIDE DEF f, S
<1>7. IsFiniteSet(S)
  BY <1>2, <1>3, FS_Surjection
<1>8. IsListing(S)
  BY <1>4, <1>6, <1>7 DEF IsListing
<1> QED BY <1>5, <1>8

\* A reply that is made keeps its shape, and touches no request.
LEMMA RepliesKeep ==
    ASSUME ApiInv, NEW c \in Clients, NEW status \in Statuses, NEW add, NEW del, NEW lines,
           Replies(c, status, add, del, lines), IsListing(lines), IsTable(Table')
    PROVE  ApiInv'
<1> DEFINE r == [status |-> status, add |-> add, del |-> del, lines |-> lines]
<1>1. IsReply(r)
  BY DEF IsReply
<1>2. reply' = [reply EXCEPT ![c] = r] /\ UNCHANGED <<request, requests>>
  BY DEF Replies
<1> HIDE DEF r
<1>3. \A d \in Clients : reply'[d] = IF d = c THEN r ELSE reply[d]
  BY <1>2 DEF ApiInv
<1>4. \A d \in Clients : IsReply(reply'[d])
  BY <1>1, <1>3 DEF ApiInv
<1>5. reply' = [d \in Clients |-> reply'[d]]
  BY <1>2 DEF ApiInv
<1>6. (\A d \in Clients : IsReply(reply[d]))'
  BY <1>4 DEF IsReply
<1>7. (\A d \in Clients : IsBody(request[d].body))'
  BY <1>2 DEF ApiInv, IsBody, IsLine
<1>8. IsTable(Table)'
  BY DEF IsTable, Table
<1>9. (request = [d \in Clients |-> request[d]] /\ requests \in 0..MaxRequests)'
  BY <1>2 DEF ApiInv
<1> HIDE DEF ApiInv
<1> QED BY <1>5, <1>6, <1>7, <1>8, <1>9 DEF ApiInv

\* A request is sent: the client waits.
LEMMA SendKeeps ==
    ASSUME ApiInv, NEW c \in Clients, NEW r, IsBody(r.body), Send(c, r)
    PROVE  ApiInv'
<1>1. request' = [request EXCEPT ![c] = r] /\ reply' = [reply EXCEPT ![c].status = 0]
  BY DEF Send
<1>2. \A d \in Clients : request'[d] = IF d = c THEN r ELSE request[d]
  BY <1>1 DEF ApiInv
<1>3. \A d \in Clients : d # c => reply'[d] = reply[d]
  BY <1>1 DEF ApiInv
<1>4. reply'[c] = [status |-> 0, add |-> reply[c].add, del |-> reply[c].del,
                   lines |-> reply[c].lines]
  <2>1. reply[c] = [status |-> reply[c].status, add |-> reply[c].add, del |-> reply[c].del,
                    lines |-> reply[c].lines]
    BY DEF ApiInv, IsReply
  <2>2. reply'[c] = [reply[c] EXCEPT !.status = 0]
    BY <1>1 DEF ApiInv
  <2> QED BY <2>1, <2>2
<1>5. \A d \in Clients : IsReply(reply'[d])
  <2>1. IsReply(reply'[c])
    <3>1. IsListing(reply[c].lines)
      BY DEF ApiInv, IsReply
    <3> QED BY <1>4, <3>1 DEF IsReply, Statuses
  <2> QED BY <1>3, <2>1 DEF ApiInv
<1>6. request' = [d \in Clients |-> request'[d]] /\ reply' = [d \in Clients |-> reply'[d]]
  BY <1>1 DEF ApiInv
<1>7. \A d \in Clients : IsBody(request'[d].body)
  BY <1>2 DEF ApiInv
<1>8. requests' \in 0..MaxRequests
  BY RequestAssumption DEF Send, ApiInv
<1>9. Table' = Table
  BY DEF Send, tableVars, Table
<1>10. IsTable(Table')
  BY <1>9 DEF ApiInv
<1>11. (\A d \in Clients : IsReply(reply[d]))'
  BY <1>5 DEF IsReply
<1>12. (\A d \in Clients : IsBody(request[d].body))'
  BY <1>7 DEF IsBody, IsLine
<1>13. IsTable(Table)'
  BY <1>10 DEF IsTable, Table
<1> HIDE DEF ApiInv
<1> QED BY <1>6, <1>8, <1>11, <1>12, <1>13 DEF ApiInv

\* SetsTable gives the table its new rows and its new counter.
LEMMA TableIsSet ==
    ASSUME NEW t, IsTable(t), SetsTable(t)
    PROVE  Table' = t
BY DEF IsTable, SetsTable, Table

LEMMA HandleKeeps ==
    ASSUME ApiInv, NEW c \in Clients, Handle(c)
    PROVE  ApiInv'
<1>0. IsTable(Table)
  BY DEF ApiInv
<1>1. ASSUME NEW status \in Statuses, Refuses(c, status) PROVE ApiInv'
  <2>1. Table' = Table
    BY <1>1 DEF Refuses, tableVars, Table
  <2>2. Replies(c, status, 0, 0, {})
    BY <1>1 DEF Refuses
  <2>3. IsTable(Table')
    BY <1>0, <2>1
  <2> QED BY <2>2, <2>3, NothingListed, RepliesKeep
<1>2. CASE Reject(c)
  <2>1. Refuses(c, 405) \/ Refuses(c, 404)
    BY <1>2 DEF Reject
  <2>2. 405 \in Statuses /\ 404 \in Statuses
    BY DEF Statuses
  <2> QED BY <1>1, <2>1, <2>2
<1>3. CASE BadRequest(c)
  BY <1>1, <1>3 DEF BadRequest, Statuses
<1>4. CASE Abort(c)
  BY <1>1, <1>4 DEF Abort, Statuses
<1>5. CASE SetRecords(c)
  <2> DEFINE b == CommandsOf(c)
  <2>1. IsTable(Effect(Table, b))
    BY <1>0, CommandsAreBatch, EffectIsTable
  <2>2. /\ SetsTable(Effect(Table, b))
        /\ Replies(c, 200, CountOf(b, FALSE), CountOf(b, TRUE), {})
    BY <1>5 DEF SetRecords
  <2>3. IsTable(Table')
    BY <2>1, <2>2, TableIsSet
  <2>4. 200 \in Statuses
    BY DEF Statuses
  <2> QED BY <2>2, <2>3, <2>4, NothingListed, RepliesKeep
<1>6. CASE DeleteRecordByID(c)
  <2> DEFINE id == request[c].id
  <2>1. CASE id \in DOMAIN rows
    <3>1. /\ rows' = Without(rows, {id}) /\ lastId' = lastId
          /\ Replies(c, 200, 0, 0, {})
      BY <1>6, <2>1 DEF DeleteRecordByID
    <3>2. Table' = [Table EXCEPT !.rows = Without(Table.rows, {id})]
      BY <3>1 DEF Table
    <3>3. IsTable(Table')
      BY <1>0, <3>2, WithoutIsTable
    <3>4. 200 \in Statuses
      BY DEF Statuses
    <3> QED BY <3>1, <3>3, <3>4, NothingListed, RepliesKeep
  <2>2. CASE id \notin DOMAIN rows
    BY <1>1, <1>6, <2>2 DEF DeleteRecordByID, Statuses
  <2> QED BY <2>1, <2>2
<1>7. CASE Get(c)
  <2> DEFINE W == Wanted(request[c])
             L == {[id |-> i, rec |-> rows[i].rec, volatile |-> rows[i].volatile] : i \in W}
  <2>1. CASE request[c].path = "/v1/id/" /\ W = {}
    BY <1>1, <1>7, <2>1 DEF Get, Statuses
  <2>2. CASE ~ (request[c].path = "/v1/id/" /\ W = {})
    <3>1. Replies(c, 200, 0, 0, L) /\ UNCHANGED tableVars
      BY <1>7, <2>2 DEF Get
    <3>2. request[c].path \in {"/v1", "/v1/id/", "/v1/suffix/", "/v1/glob/"}
      <4>1. Methods(request[c].path) # {}
        BY <1>7 DEF Get, Accepted, Served
      <4> QED BY <4>1 DEF Methods
    <3>3. W \subseteq DOMAIN rows
      BY <3>2 DEF Wanted, SuffixIds
    <3> HIDE DEF W
    <3>4. IsListing(L)
      BY <1>0, <3>3, ShownIsListing
    <3>5. Table' = Table
      BY <3>1 DEF tableVars, Table
    <3>6. IsTable(Table') /\ 200 \in Statuses
      BY <1>0, <3>5 DEF Statuses
    <3> HIDE DEF L
    <3> QED BY <3>1, <3>4, <3>6, RepliesKeep
  <2> QED BY <2>1, <2>2
<1>8. CASE ResolverFails(c)
  <2>1. SetsTable(Table) /\ Replies(c, 500, 0, 0, {})
    BY <1>8 DEF ResolverFails, RolledBack
  <2>2. IsTable(Table')
    BY <1>0, <2>1, TableIsSet
  <2>3. 500 \in Statuses
    BY DEF Statuses
  <2> QED BY <2>1, <2>2, <2>3, NothingListed, RepliesKeep
<1> QED BY <1>2, <1>3, <1>4, <1>5, <1>6, <1>7, <1>8 DEF Handle

LEMMA InvNext == ApiInv /\ [ApiNext]_apiVars => ApiInv'
<1> SUFFICES ASSUME ApiInv, [ApiNext]_apiVars PROVE ApiInv'
  OBVIOUS
<1>1. ASSUME NEW c \in Clients, NEW r \in Requests, Send(c, r) PROVE ApiInv'
  BY <1>1, BodyAssumption, SendKeeps
<1>2. ASSUME NEW c \in Clients, NEW method, SendBack(c, method) PROVE ApiInv'
  <2> DEFINE r == [method |-> method, path |-> "/v1", id |-> NotANumber, items |-> <<>>,
                   body |-> Listing(reply[c].lines)]
  <2>1. Send(c, r)
    BY <1>2 DEF SendBack
  <2>2. IsListing(reply[c].lines)
    BY DEF ApiInv, IsReply
  <2>3. IsBody(r.body)
    BY <2>2, ListingIsBody
  <2> HIDE DEF r
  <2> QED BY <2>1, <2>3, SendKeeps
<1>3. ASSUME NEW c \in Clients, Handle(c) PROVE ApiInv'
  BY <1>3, HandleKeeps
<1>4. ASSUME NEW i \in DOMAIN rows, Expire(i) PROVE ApiInv'
  <2>1. /\ rows' = Without(rows, {i}) /\ UNCHANGED <<lastId, request, reply, requests>>
    BY <1>4 DEF Expire
  <2>2. Table' = [Table EXCEPT !.rows = Without(Table.rows, {i})]
    BY <2>1 DEF Table
  <2>3. IsTable(Table')
    BY <2>2, WithoutIsTable DEF ApiInv
  <2>4. IsTable(Table)'
    BY <2>3 DEF IsTable, Table
  <2> QED BY <2>1, <2>4 DEF ApiInv, IsBody, IsLine, IsReply, IsListing
<1>5. CASE UNCHANGED apiVars
  <2>1. IsTable(Table)'
    BY <1>5 DEF ApiInv, apiVars, IsTable, Table
  <2> QED BY <1>5, <2>1 DEF ApiInv, apiVars, IsBody, IsLine, IsReply, IsListing
<1> QED BY <1>1, <1>2, <1>3, <1>4, <1>5 DEF ApiNext

LEMMA InvHolds == ApiSpec => []ApiInv
BY InvInit, InvNext, PTL DEF ApiSpec

\* Whatever is asked of the API, no record is in two rows, no ID is ahead of the
\* counter, and every reply has a status the handler knows.
THEOREM TypeCorrect == ApiSpec => []TypeOK
BY InvHolds, InvGivesType, PTL

-----------------------------------------------------------------------------
\* What is held under the keys is all there is.
LEMMA ContentsByKey ==
    ASSUME NEW t, NEW u, \A k : Held(t, k) = Held(u, k)
    PROVE  Contents(t) = Contents(u)
<1>1. ASSUME NEW v PROVE \A x : x \in Contents(v) <=> x \in Held(v, x.rec.key)
  BY DEF Contents, Held
<1>2. \A x : x \in Contents(t) <=> x \in Contents(u)
  BY <1>1
<1> QED BY <1>2

\* A request carried out twice leaves what it leaves when carried out once, for
\* every table, every body without IDs and every client.
THEOREM RetryHarmless == ApiSpec => []RetryIsHarmless
<1>1. ApiInv => RetryIsHarmless
  <2> SUFFICES ASSUME ApiInv, NEW c \in Pending,
                      \A i \in DOMAIN CommandsOf(c) : CommandsOf(c)[i].id = NoId
               PROVE  Contents(Effect(Effect(Table, CommandsOf(c)), CommandsOf(c)))
                        = Contents(Effect(Table, CommandsOf(c)))
    BY DEF RetryIsHarmless
  <2> DEFINE b == CommandsOf(c)
  <2>1. IsTable(Table) /\ IsBatch(b)
    BY CommandsAreBatch DEF ApiInv, Pending
  <2>2. Nameless(b)
    BY DEF Nameless
  <2> HIDE DEF b
  <2>3. \A k : Held(Effect(Effect(Table, b), b), k) = Held(Effect(Table, b), k)
    BY <2>1, <2>2, RetryHolds
  <2>4. Contents(Effect(Effect(Table, b), b)) = Contents(Effect(Table, b))
    BY <2>3, ContentsByKey
  <2> QED BY <2>4 DEF b
<1> QED BY <1>1, InvHolds, PTL

\* The records of a POST, with their PTR records, are gone after a DELETE of the
\* same body.
THEOREM DeleteUndone == ApiSpec => []DeleteUndoes
<1>1. ApiInv => DeleteUndoes
  <2> SUFFICES ASSUME ApiInv, NEW c \in Pending,
                      \A i \in DOMAIN CommandsOf(c) :
                         ~ CommandsOf(c)[i].disabled /\ CommandsOf(c)[i].id = NoId,
                      NEW i \in DOMAIN CommandsOf(c), NEW j \in DOMAIN Cascade(CommandsOf(c)[i])
               PROVE  SameRecord(Effect(Effect(Table, CommandsOf(c)),
                                        Flipped(CommandsOf(c))).rows,
                                 Cascade(CommandsOf(c)[i])[j].rec) = {}
    BY DEF DeleteUndoes
  <2> DEFINE b == CommandsOf(c)
             f == Flipped(b)
             k == Cascade(b[i])[j].rec.key
  <2>1. IsTable(Table) /\ IsBatch(b)
    BY CommandsAreBatch DEF ApiInv, Pending
  <2>2. \A m \in DOMAIN b : ~ b[m].disabled /\ b[m].id = NoId
    OBVIOUS
  <2>3. i \in DOMAIN b /\ j \in DOMAIN Cascade(b[i])
    OBVIOUS
  <2> HIDE DEF b
  <2>4. \A m \in DOMAIN b : IsCommand(b[m])
    BY <2>1 DEF IsBatch
  <2>5. k \in Keys(b[i])
    BY <2>3, <2>4, CascadeForm
  <2> HIDE DEF k
  <2>6. PICK d \in DOMAIN b :
           k \in Keys(b[d]) /\ \A x \in Held(Effect(Table, b), k) : x.rec.ttl = b[d].rec.ttl
    BY <2>1, <2>2, <2>3, <2>5, SetLeaves
  <2>7. /\ IsBatch(f) /\ DOMAIN f = DOMAIN b
        /\ \A m \in DOMAIN b : /\ f[m].rec = b[m].rec /\ f[m].id = b[m].id
                               /\ f[m].disabled = ~ b[m].disabled
    <3>1. DOMAIN f = DOMAIN b
      BY DEF Flipped
    <3> QED BY <2>1, <3>1, FlippedForm
  <2> HIDE DEF f
  <2>8. Nameless(f) /\ \A m \in DOMAIN f : f[m].disabled
    BY <2>2, <2>7 DEF Nameless
  <2>9. k \in Keys(f[d]) /\ f[d].rec.ttl = b[d].rec.ttl
    BY <2>6, <2>7 DEF Keys, HasPtr, PtrOf
  <2>10. IsTable(Effect(Table, b))
    BY <2>1, EffectIsTable
  <2>11. Held(Effect(Effect(Table, b), f), k) = {}
    BY <2>6, <2>7, <2>8, <2>9, <2>10, DropLeaves
  <2>12. SameRecord(Effect(Effect(Table, b), f).rows, Cascade(b[i])[j].rec) = {}
    BY <2>11 DEF Held, SameRecord, k
  <2> QED BY <2>12 DEF b, f
<1> QED BY <1>1, InvHolds, PTL

\* The counts of a reply bound what the request has changed.
THEOREM CountsBound == ApiSpec => CountsBoundChange
<1> DEFINE Bound(c) ==
      (Waiting(c) /\ reply'[c].status = 200 /\ HasBody(request[c])) =>
         /\ Cardinality(DOMAIN rows' \ DOMAIN rows) <= 2 * reply'[c].add
         /\ Cardinality(DOMAIN rows \ DOMAIN rows') <= 2 * reply'[c].del
<1>1. ASSUME ApiInv, ApiNext, NEW c \in Clients, Waiting(c), reply'[c].status = 200,
             HasBody(request[c])
      PROVE  /\ Cardinality(DOMAIN rows' \ DOMAIN rows) <= 2 * reply'[c].add
             /\ Cardinality(DOMAIN rows \ DOMAIN rows') <= 2 * reply'[c].del
  <2>0. IsTable(Table) /\ reply = [d \in Clients |-> reply[d]] /\ IsBatch(CommandsOf(c))
    <3>1. IsBatch(CommandsOf(c))
      BY <1>1, CommandsAreBatch
    <3> QED BY <1>1, <3>1 DEF ApiInv
  <2>1. ASSUME NEW d \in Clients, NEW s, NEW a, NEW e, NEW l, Replies(d, s, a, e, l)
        PROVE  d = c /\ s = 200 /\ reply'[c].add = a /\ reply'[c].del = e
    <3> DEFINE r == [status |-> s, add |-> a, del |-> e, lines |-> l]
    <3>1. reply' = [reply EXCEPT ![d] = r]
      BY <2>1 DEF Replies
    <3>2. r.status = s /\ r.add = a /\ r.del = e
      OBVIOUS
    <3> HIDE DEF r
    <3>3. reply'[c] = IF d = c THEN r ELSE reply[c]
      BY <2>0, <3>1
    <3>4. reply[c].status = 0
      BY <1>1 DEF Waiting
    <3>5. d = c
      BY <1>1, <3>3, <3>4
    <3> QED BY <1>1, <3>2, <3>3, <3>5
  <2>2. reply'[c] # reply[c]
    BY <1>1 DEF Waiting
  <2>3. ASSUME NEW d \in Clients, NEW r, Send(d, r) PROVE FALSE
    BY <1>1, <2>0, <2>2, <2>3 DEF Send, Waiting
  <2>4. ASSUME NEW d \in Clients, NEW s, s # 200, Refuses(d, s) PROVE FALSE
    BY <2>1, <2>4 DEF Refuses
  <2>5. PICK d \in Clients : Handle(d)
    <3>1. ASSUME NEW d \in Clients, NEW m, SendBack(d, m) PROVE FALSE
      BY <2>3, <3>1 DEF SendBack
    <3>2. ASSUME NEW i \in DOMAIN rows, Expire(i) PROVE FALSE
      BY <2>2, <3>2 DEF Expire
    <3> QED BY <1>1, <2>3, <3>1, <3>2 DEF ApiNext
  <2>6. ~ (Reject(d) \/ BadRequest(d) \/ Abort(d))
    BY <2>4 DEF Reject, BadRequest, Abort, Aborted
  <2>7. CASE ResolverFails(d)
    <3>1. Replies(d, 500, 0, 0, {})
      BY <2>7 DEF ResolverFails
    <3>2. 500 = 200
      BY <2>1, <3>1
    <3> QED BY <3>2
  <2>8. CASE DeleteRecordByID(d)
    <3>1. d # c
      BY <1>1, <2>8 DEF DeleteRecordByID, HasBody
    <3> QED BY <2>1, <2>2, <2>8, <3>1 DEF DeleteRecordByID, Refuses
  <2>9. CASE Get(d)
    <3>1. d # c
      BY <1>1, <2>9 DEF Get, HasBody
    <3> QED BY <2>1, <2>2, <2>9, <3>1 DEF Get, Refuses
  <2>10. CASE SetRecords(d)
    <3>1. d = c
      BY <2>1, <2>2, <2>10 DEF SetRecords
    <3> DEFINE b == CommandsOf(c)
    <3>2. /\ SetsTable(Effect(Table, b))
          /\ Replies(c, 200, CountOf(b, FALSE), CountOf(b, TRUE), {})
      BY <2>10, <3>1 DEF SetRecords
    <3> DEFINE adds == CountOf(b, FALSE)
               dels == CountOf(b, TRUE)
    <3>3. Replies(c, 200, adds, dels, {})
      BY <3>2
    <3> HIDE DEF adds, dels
    <3>4. reply'[c].add = adds /\ reply'[c].del = dels
      BY <2>1, <3>3
    <3>5. reply'[c].add = CountOf(b, FALSE) /\ reply'[c].del = CountOf(b, TRUE)
      BY <3>4 DEF adds, dels
    <3>6. rows' = Effect(Table, b).rows
      BY <3>2 DEF SetsTable
    <3>7. /\ Cardinality(DOMAIN Effect(Table, b).rows \ DOMAIN Table.rows)
               <= 2 * CountOf(b, FALSE)
          /\ Cardinality(DOMAIN Table.rows \ DOMAIN Effect(Table, b).rows)
               <= 2 * CountOf(b, TRUE)
      BY <2>0, BatchBounds
    <3>8. Table.rows = rows
      BY DEF Table
    <3> QED BY <3>5, <3>6, <3>7, <3>8
  <2> QED BY <2>5, <2>6, <2>7, <2>8, <2>9, <2>10 DEF Handle
<1>2. ApiInv /\ [ApiNext]_apiVars => [\A c \in Clients : Bound(c)]_apiVars
  BY <1>1
<1>3. [](ApiInv) /\ [][ApiNext]_apiVars => [][\A c \in Clients : Bound(c)]_apiVars
  <2> HIDE DEF Bound
  <2> QED BY <1>2, PTL
<1> QED BY <1>3, InvHolds DEF ApiSpec, CountsBoundChange
=============================================================================
