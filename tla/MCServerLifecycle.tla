------------------------- MODULE MCServerLifecycle -------------------------
(***************************************************************************)
(* ServerLifecycle with both protocols and both callers, and one request   *)
(* at a time on each listener: a shutdown waits for one request as it      *)
(* waits for several.                                                      *)
(***************************************************************************)
EXTENDS ServerLifecycle

MCProtocols == {"tcp", "udp"}
MCCallers   == {"main", "embedder"}
=============================================================================
