SPECIFICATION LandnsSpec
CONSTANTS
    c1 = c1
    Clients = {c1}
    Remote <- MCRemote
    Requests <- MCRequests
    NoId = NoId
    NotANumber = NotANumber
    Labels <- MCLabels
    Globs <- MCGlobs
    MaxRequests = 3
    Ipv4 <- MCIpv4
    Domains <- MCDomains
    Unprintable = {}
    ReverseName <- MCReverseName
    ServiceName <- MCServiceName
    NoTTL <- MCNoTTL
    Handlers = {h1}
    Messages <- MCMessages
    Configs <- MCConfigs
    ZoneRRs <- MCZoneRRs
    UpstreamCount = 1
    Answers <- MCAnswers
    CacheKinds = {"local"}
    MaxMessages = 2
INVARIANTS
    TypeOK
    RetryIsHarmless
    DeleteUndoes
    PromisesKept
PROPERTIES
    CountsBoundChange
\* The numbers of requests and messages are bounded.
CHECK_DEADLOCK FALSE
