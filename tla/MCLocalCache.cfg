SPECIFICATION Spec
CONSTANTS
    Threads = {t1, t2}
    Free = Free
    alias = alias  cname = cname  host = host
    d1 = d1  d2 = d2  d3 = d3
    Keys <- MCKeys
    Data <- MCData
    Upstream <- MovingUpstream
    MaxTTL = 2
    TTLModulus = 16
    Cap = 6
    MaxAsk = 2
    MaxTime = 5
    MaxWait = 3
    CloseInFlight = FALSE
SYMMETRY Symmetric
INVARIANTS
    TypeOK
    HitStillCached
    ManagerWakesInTime
    TTLNeverGrows
    AnswersComplete
\* The clock and the number of queries are bounded: the model stops there.
CHECK_DEADLOCK FALSE
