-------------------------- MODULE MCSqliteResolver --------------------------
(***************************************************************************)
(* Small instances of SqliteResolver: an address with its PTR record, and  *)
(* one other record.                                                       *)
(***************************************************************************)
EXTENDS SqliteResolver, TLC

CONSTANTS addr, ptr, txt

MCTexts   == {addr, ptr, txt}
MCReverse == (addr :> ptr)

Put(x, ttl)      == [op |-> "set", text |-> x, ttl |-> ttl, id |-> NoId,
                     kind |-> "fixed"]
PutFor(x, ttl)   == [Put(x, ttl) EXCEPT !.kind = "volatile"]
Del(x, ttl)      == [Put(x, ttl) EXCEPT !.op = "drop"]
DelId(x, ttl, i) == [Del(x, ttl) EXCEPT !.id = i]

\* Updates of the TTL, a drop that misses because of its TTL or its ID, a PTR
\* set or dropped on its own, a record that is dropped and set again, a command
\* that undoes an earlier one of the same batch.
MCBatches ==
    {<<Put(addr, 2)>>,
     <<PutFor(addr, 1), Put(txt, 2)>>,
     <<PutFor(txt, 1), Del(addr, 2)>>,
     <<DelId(addr, 2, 1), Put(ptr, 1)>>,
     <<Del(txt, 2), Put(addr, 1), Put(txt, 1)>>,
     <<Put(addr, 1), Del(ptr, 1), DelId(addr, 1, 3)>>}
=============================================================================
