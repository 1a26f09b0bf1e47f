----------------------------- MODULE StaticZone -----------------------------
(***************************************************************************)
(* A static zone: the records NewSimpleResolverFromConfig                  *)
(* (lib-landns/simple_resolver.go) makes of one configuration file         *)
(* (lib-landns/config.go), and how SimpleResolver looks them up.  A        *)
(* configuration is a record with the sections of the YAML file, each a    *)
(* set of entries <<name, value>>; services are records.                   *)
(***************************************************************************)
EXTENDS Records

CONSTANTS
    ServiceName,  \* <<service, protocol, name>> -> "_service._protocol.name"
    NoTTL         \* the file has no "ttl"

DefaultTTL == 3600
ZoneTTL(config) == IF config.ttl = NoTTL THEN DefaultTTL ELSE config.ttl

\* Proto.Normalized
Normalized(proto) == IF proto = "" THEN "tcp" ELSE proto

\* SrvRecordConfig.ToRecord
ToRecord(name, service, ttl) ==
    SrvRecord(ServiceName[<<service.service, Normalized(service.proto), name>>],
              ttl, service.priority, service.weight, service.port, service.target)

\* makeReverseMap: each address brings its PTR record.
ReverseMap(config) ==
    {PtrRecord(ReverseName[e[2]], ZoneTTL(config), e[1]) : e \in config.addresses}

Services(config) ==
    {ToRecord(e[1], e[2], ZoneTTL(config)) : e \in config.services}

\* A service that is not valid keeps the server from starting.
Accepted(config) == \A s \in Services(config) : s.valid

NewSimpleResolverFromConfig(config) ==
    LET ttl == ZoneTTL(config)
    IN  {AddressRecord(e[1], ttl, e[2]) : e \in config.addresses}
        \cup ReverseMap(config)
        \cup {CnameRecord(e[1], ttl, e[2]) : e \in config.cnames}
        \cup {TxtRecord(e[1], ttl, e[2]) : e \in config.texts}
        \cup Services(config)

\* SimpleResolver.Resolve: the records of one type and name.
Matches(records, question) ==
    {r \in records : r.type = question.type /\ r.name = question.name}
=============================================================================
