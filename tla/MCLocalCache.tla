---------------------------- MODULE MCLocalCache ----------------------------
(***************************************************************************)
(* Small instances of LocalCache.  `alias' is a name whose answer is the   *)
(* chain CNAME, address: its records are cached under two other keys, so   *)
(* that a query for it adds to entries another query may have filled.      *)
(***************************************************************************)
EXTENDS LocalCache, TLC

CONSTANTS alias, cname, host, d1, d2, d3

MCKeys == {alias, cname, host}
MCData == {d1, d2, d3}

Rec(k, d, t) == [key |-> k, data |-> d, ttl |-> t]
Answer(s)    == [recs |-> s, res |-> "ok"]

\* Two addresses with different lifetimes (as cache_test.go's shortTTL).
HostRecords == <<Rec(host, d1, 2), Rec(host, d2, 1)>>
CnameRecord == <<Rec(cname, d3, 2)>>

\* Two names without a chain, for the liveness run.
LiveKeys == {cname, host}
LiveUpstream ==
    (cname :> {Answer(CnameRecord)}) @@ (host :> {Answer(<<Rec(host, d1, 1)>>)})

\* An upstream whose answers change: it fails before or after the record of the
\* CNAME, and the addresses must be cached or must not.  It never fails between
\* two records of one set, nor mixes the two kinds of records in one.
MovingUpstream ==
    (alias :> {Answer(CnameRecord \o HostRecords)}) @@
    (cname :> {Answer(CnameRecord), [recs |-> CnameRecord, res |-> "error"],
               [recs |-> <<>>, res |-> "error"]}) @@
    (host :> {Answer(HostRecords), Answer(<<Rec(host, d2, 0)>>)})

\* The handlers run the same code (used by the runs without liveness).
Symmetric == Permutations(Threads)
=============================================================================
