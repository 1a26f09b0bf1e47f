SPECIFICATION FairSpec
CONSTANTS
    Threads = {t1, t2}
    Free = Free
    alias = alias  cname = cname  host = host
    d1 = d1  d2 = d2  d3 = d3
    Keys <- LiveKeys
    Data <- MCData
    Upstream <- LiveUpstream
    MaxTTL = 2
    TTLModulus = 16
    Cap = 2
    MaxAsk = 2
    MaxTime = 3
    MaxWait = 3
    CloseInFlight = TRUE
PROPERTIES
    ResolveReturns
    DueIsSwept
    ManagerStops
\* The clock and the number of queries are bounded: the model stops there.
CHECK_DEADLOCK FALSE
