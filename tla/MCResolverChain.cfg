SPECIFICATION FairSpec
CONSTANTS
    Ipv4 <- MCIpv4
    Domains <- MCDomains
    Unprintable <- MCUnprintable
    ReverseName <- MCReverseName
    ServiceName <- MCServiceName
    NoTTL <- MCNoTTL
    Handlers = {h1, h2}
    Messages <- MCMessages
    Configs <- MCConfigs
    DynamicZones <- MCDynamicZones
    UpstreamCount = 2
    Answers <- MCAnswers
    CacheKinds = {"local", "redis", "none"}
    MaxMessages = 2
INVARIANTS
    TypeOK
    AuthorityIsHonest
    RepliesCounted
PROPERTIES
    ServiceSpec
    EveryMessageAnswered
\* The number of messages is bounded.
CHECK_DEADLOCK FALSE

