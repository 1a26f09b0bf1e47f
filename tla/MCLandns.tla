------------------------------ MODULE MCLandns ------------------------------
(***************************************************************************)
(* A small instance of Landns: one client of the API, two names with an    *)
(* address and its PTR record, one of them volatile and at the client's    *)
(* own address, one static zone, and an upstream server that knows one of  *)
(* the reverse names too.                                                  *)
(***************************************************************************)
EXTENDS Landns, TLC

CONSTANTS c1

MCRemote == (c1 :> "10.0.0.9")
MCIpv4 == {"10.0.0.1", "10.0.0.9", "127.0.0.1"}
MCReverseName == ("10.0.0.1" :> "1.arpa") @@ ("10.0.0.9" :> "9.arpa") @@ ("127.0.0.1" :> "0.arpa")
MCDomains == {"nas", "web.nas", "1.arpa", "9.arpa", "0.arpa"}
MCLabels == ("nas" :> <<"nas">>) @@ ("web.nas" :> <<"nas", "web">>)
            @@ ("1.arpa" :> <<"arpa", "1">>) @@ ("9.arpa" :> <<"arpa", "9">>)
MCGlobs(glob, name) == glob = "*nas" /\ name \in {"nas", "web.nas"}

Line(rr) == [form |-> "record", disabled |-> FALSE, rr |-> rr, id |-> NoId, volatile |-> FALSE]
Off(line) == [line EXCEPT !.disabled = TRUE]
Bad(form) == [Line(NoRR) EXCEPT !.form = form]
Body(method, lines) ==
    [method |-> method, path |-> "/v1", id |-> NotANumber, items |-> <<>>, body |-> lines]
Page(method, path, id, items) ==
    [method |-> method, path |-> path, id |-> id, items |-> items, body |-> <<>>]

Nas(ttl) == Line(RR("nas", "A", ttl, <<"10.0.0.1">>))
Web == [Line(RR("web.nas", "A", 60, <<"$ADDR">>)) EXCEPT !.volatile = TRUE]
Ptr(ttl) == Line(RR("1.arpa", "PTR", ttl, <<"nas">>))

MCRequests ==
    {Body("POST", <<Nas(60)>>), Body("POST", <<Nas(30), Ptr(60), Nas(60)>>),
     Body("POST", <<Web, Off(Nas(60)), Bad("blank"), Off(Bad("bad"))>>),
     Body("POST", <<Nas(60), Bad("bad")>>), Body("POST", <<Nas(60), Bad("bare")>>),
     Body("DELETE", <<Off(Web), Nas(60)>>),
     Page("GET", "/v1", NotANumber, <<>>), Page("GET", "/v1/suffix/", NotANumber, <<"nas">>),
     Page("DELETE", "/v1/id/", 1, <<>>), Page("POST", "/v1/id/", 1, <<>>),
     Page("GET", "/v1/glob/", NotANumber, <<"x", "y">>)}

MCZoneRRs ==
    UNION {{RR("nas", "A", t, <<"10.0.0.1">>), RR("1.arpa", "PTR", t, <<"nas">>),
            RR("web.nas", "A", t, <<"10.0.0.9">>), RR("9.arpa", "PTR", t, <<"web.nas">>)}
           : t \in {30, 60}}

Q(name, type) == [opcode |-> "query", name |-> name, type |-> type, rd |-> TRUE]
MCMessages == {Q("nas", "A"), Q("1.arpa", "PTR")}
MCServiceName == <<>>
MCNoTTL == 0
MCConfigs == <<[ttl |-> 0, addresses |-> {<<"nas", "127.0.0.1">>}, cnames |-> {}, texts |-> {}, services |-> {}]>>
MCAnswers(k) ==
    IF k = <<"1.arpa", "PTR">> THEN {<<>>, <<RR("1.arpa", "PTR", 60, <<"isp">>)>>} ELSE {<<>>}
=============================================================================
