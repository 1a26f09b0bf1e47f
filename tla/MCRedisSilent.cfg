SPECIFICATION Spec
CONSTANTS
    Threads = {t1, t2}
    host = host
    d1 = d1  d2 = d2  d3 = d3
    Keys = {host}
    Data <- MCData
    Upstream <- SilentUpstream
    MaxTTL = 2
    MaxUint32 = 20
    MaxAsk = 3
    MaxTime = 7
SYMMETRY Symmetric
INVARIANTS
    ForgottenInTime
\* The clock and the number of queries are bounded: the model stops there.
CHECK_DEADLOCK FALSE
