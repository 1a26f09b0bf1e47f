-------------------------- MODULE MCResolverChain ---------------------------
(***************************************************************************)
(* A small instance of ResolverChain: two static zones that share an       *)
(* address, one with a text that cannot be printed; a dynamic zone that    *)
(* may override one name and add another; upstream servers that change     *)
(* their TTLs, answer with an alias, with nothing, or with a record of a   *)
(* type that Landns does not know.                                         *)
(***************************************************************************)
EXTENDS ResolverChain, TLC

MCIpv4         == {"127.0.0.1", "127.0.0.2", "8.8.8.8"}
MCDomains      == {"home", "alias", "far", "1.arpa", "_http._tcp.home"}
MCUnprintable  == {"a\"b"}
MCReverseName  == ("127.0.0.1" :> "1.arpa")
MCServiceName  == (<<"http", "tcp", "home">> :> "_http._tcp.home")
MCNoTTL        == 0

Http == [service |-> "http", proto |-> "", priority |-> "0", weight |-> "0",
         port |-> "80", target |-> "home"]
MCConfigs ==
  <<[ttl |-> 0, addresses |-> {<<"home", "127.0.0.1">>}, cnames |-> {},
     texts |-> {<<"home", "a\"b">>, <<"home", "x">>}, services |-> {<<"home", Http>>}],
    [ttl |-> 60, addresses |-> {<<"home", "127.0.0.1">>}, cnames |-> {}, texts |-> {},
     services |-> {}]>>

MCDynamicZones ==
    SUBSET {RR("home", "A", 30, <<"127.0.0.2">>), RR("far", "A", 30, <<"127.0.0.1">>)}

Q(name, type, rd) == [opcode |-> "query", name |-> name, type |-> type, rd |-> rd]
Notify == [opcode |-> "notify", name |-> "home", type |-> "A", rd |-> FALSE]
MCMessages ==
    {Q("home", "A", TRUE), Q("far", "A", TRUE), Q("far", "A", FALSE),
     Q("alias", "A", TRUE), Q("home", "TXT", TRUE), Notify}

Far(ttl) == RR("far", "A", ttl, <<"8.8.8.8">>)
MCAnswers(k) ==
  CASE k = <<"far", "A">> ->
         {<<Far(60)>>, <<Far(30)>>, <<Far(20), RR("far", "SOA", 1, <<>>), Far(1)>>, <<>>}
    [] k = <<"alias", "A">> -> {<<RR("alias", "CNAME", 60, <<"far">>), Far(60)>>}
    [] OTHER -> {<<>>}
=============================================================================
