--------------------------- MODULE MCEtcdResolver ---------------------------
(***************************************************************************)
(* Small instances of EtcdResolver: an address with its PTR record, and a  *)
(* text record of a name below the address's.                              *)
(***************************************************************************)
EXTENDS EtcdResolver, TLC

CONSTANTS addr, ptr, txt, host, below, arpa

MCTexts   == {addr, ptr, txt}
MCNameOf  == (addr :> host) @@ (ptr :> arpa) @@ (txt :> below)
MCScope   == (host :> {host, below}) @@ (below :> {below}) @@ (arpa :> {arpa})
MCReverse == (addr :> ptr)

Put(x, ttl)      == [op |-> "set", text |-> x, ttl |-> ttl, id |-> NoId,
                     kind |-> "fixed"]
PutFor(x, ttl)   == [Put(x, ttl) EXCEPT !.kind = "volatile"]
Del(x, ttl)      == [Put(x, ttl) EXCEPT !.op = "drop"]
DelId(x, ttl, i) == [Del(x, ttl) EXCEPT !.id = i]

PutId(x, ttl, i) == [Put(x, ttl) EXCEPT !.id = i]

\* One record is set with an ID, a right or a wrong one.
MCBatches ==
    {<<Put(addr, 2)>>,
     <<PutFor(txt, 1), Put(addr, 1)>>,
     <<Del(addr, 2), PutId(txt, 2, 2)>>,
     <<DelId(addr, 1, 1), Put(ptr, 1)>>}

TwoBatches == {<<Put(addr, 1)>>, <<Put(txt, 1)>>}
=============================================================================
