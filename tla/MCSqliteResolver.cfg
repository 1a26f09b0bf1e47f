SPECIFICATION FairSpec
CONSTANTS
    addr = addr  ptr = ptr  txt = txt
    NoId = NoId
    Texts <- MCTexts
    Reverse <- MCReverse
    Batches <- MCBatches
    MaxTTL = 2
    MaxTime = 7
    MaxId = 7
    MaxCalls = 3
INVARIANTS
    TypeOK
    TextsUnique
PROPERTIES
    ZoneSpec
    IdsKeepTheirRecord
    OverdueIsSwept
\* The clock, the IDs and the number of calls are bounded.
CHECK_DEADLOCK FALSE
