------------------------------ MODULE Records -------------------------------
(***************************************************************************)
(* The record types of lib-landns/records.go.  A value of a Go record type *)
(* is modelled by what its methods return: GetQtype, GetName, GetTTL,      *)
(* WithoutTTL, Validate, and ToRR, which prints the record and parses the  *)
(* text.  A dns.RR is its name, type, TTL and data, the data a sequence of *)
(* strings.                                                                *)
(***************************************************************************)
EXTENDS Naturals, Sequences

CONSTANTS
    Ipv4,        \* the addresses that have a four-byte form
    ReverseName, \* dns.ReverseAddr: address -> name of its PTR record
    Domains,     \* the names that are valid domain names
    Unprintable  \* the texts that end the quotes a TXT record is printed in

RR(name, type, ttl, data) ==
    [name |-> name, type |-> type, ttl |-> ttl, data |-> data]

NoRR == RR("", "", 0, <<>>)   \* ToRR returned an error

\* What is left of an RR without its TTL
KeyOf(rr) == <<rr.name, rr.type>> \o rr.data

\* dns.NewRR's TTL for a text that names none
ParserTTL == 3600

-----------------------------------------------------------------------------
\* The type of an address is judged by its bytes.
AddressRecord(name, ttl, address) ==
    LET rr == RR(name, IF address \in Ipv4 THEN "A" ELSE "AAAA", ttl, <<address>>)
    IN  [type |-> rr.type, name |-> name, ttl |-> ttl, rr |-> rr,
         key |-> KeyOf(rr), valid |-> name \in Domains]

\* A NS record has no TTL, and is printed without one.
NsRecord(name, target) ==
    LET rr == RR(name, "NS", ParserTTL, <<target>>)
    IN  [type |-> "NS", name |-> name, ttl |-> 0, rr |-> rr,
         key |-> KeyOf(rr), valid |-> {name, target} \subseteq Domains]

CnameRecord(name, ttl, target) ==
    LET rr == RR(name, "CNAME", ttl, <<target>>)
    IN  [type |-> "CNAME", name |-> name, ttl |-> ttl, rr |-> rr,
         key |-> KeyOf(rr), valid |-> {name, target} \subseteq Domains]

PtrRecord(name, ttl, domain) ==
    LET rr == RR(name, "PTR", ttl, <<domain>>)
    IN  [type |-> "PTR", name |-> name, ttl |-> ttl, rr |-> rr,
         key |-> KeyOf(rr), valid |-> {name, domain} \subseteq Domains]

MxRecord(name, ttl, preference, target) ==
    LET rr == RR(name, "MX", ttl, <<preference, target>>)
    IN  [type |-> "MX", name |-> name, ttl |-> ttl, rr |-> rr,
         key |-> KeyOf(rr), valid |-> {name, target} \subseteq Domains]

TxtRecord(name, ttl, text) ==
    LET rr == RR(name, "TXT", ttl, <<text>>)
    IN  [type |-> "TXT", name |-> name, ttl |-> ttl, key |-> KeyOf(rr),
         rr |-> IF text \in Unprintable THEN NoRR ELSE rr,
         valid |-> name \in Domains]

SrvRecord(name, ttl, priority, weight, port, target) ==
    LET rr == RR(name, "SRV", ttl, <<priority, weight, port, target>>)
    IN  [type |-> "SRV", name |-> name, ttl |-> ttl, rr |-> rr,
         key |-> KeyOf(rr),
         valid |-> {name, target} \subseteq Domains /\ port # "0"]

-----------------------------------------------------------------------------
Supported(rr) ==
    rr.type \in {"A", "AAAA", "NS", "CNAME", "PTR", "MX", "TXT", "SRV"}

\* NewRecordFromRR, of a supported type.  A TXT record keeps its first string
\* only, a NS record loses its TTL.
NewRecordFromRR(rr) ==
    CASE rr.type \in {"A", "AAAA"} -> AddressRecord(rr.name, rr.ttl, rr.data[1])
      [] rr.type = "NS"    -> NsRecord(rr.name, rr.data[1])
      [] rr.type = "CNAME" -> CnameRecord(rr.name, rr.ttl, rr.data[1])
      [] rr.type = "PTR"   -> PtrRecord(rr.name, rr.ttl, rr.data[1])
      [] rr.type = "MX"    -> MxRecord(rr.name, rr.ttl, rr.data[1], rr.data[2])
      [] rr.type = "TXT"   -> TxtRecord(rr.name, rr.ttl, rr.data[1])
      [] rr.type = "SRV"   -> SrvRecord(rr.name, rr.ttl, rr.data[1], rr.data[2],
                                        rr.data[3], rr.data[4])

\* What a client gets of an RR that went through a Go record.
Relayed(rr) == NewRecordFromRR(rr).rr
=============================================================================
