---------------------------- MODULE MCRedisCache ----------------------------
(***************************************************************************)
(* Small instances of RedisCache: one name with two addresses.  Names are  *)
(* independent of each other, since every record goes under the key that   *)
(* was asked for.                                                          *)
(***************************************************************************)
EXTENDS RedisCache, TLC

CONSTANTS host, d1, d2, d3

MCData == {d1, d2, d3}

Rec(d, t) == [data |-> d, ttl |-> t]
Answer(s) == [recs |-> s, res |-> "ok"]

Addresses == <<Rec(d1, 2), Rec(d2, 1)>>

\* The answer changes, fails between two records, or has a record that must
\* not be cached; it is never empty.
MovingUpstream ==
    host :> {Answer(Addresses), Answer(<<Rec(d3, 1)>>),
             Answer(<<Rec(d1, 2), Rec(d3, 0)>>),
             [recs |-> <<Rec(d1, 2)>>, res |-> "error"]}

\* The forwarder returns without a record and without an error when none of
\* its servers answered.
SilentUpstream == host :> {Answer(Addresses), Answer(<<>>)}

\* The handlers run the same code.
Symmetric == Permutations(Threads)
=============================================================================
