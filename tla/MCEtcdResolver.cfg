SPECIFICATION Spec
CONSTANTS
    Callers = {c1}
    addr = addr  ptr = ptr  txt = txt
    host = host  below = below  arpa = arpa
    NoId = NoId
    Texts <- MCTexts
    NameOf <- MCNameOf
    Scope <- MCScope
    Reverse <- MCReverse
    Batches <- MCBatches
    Faults = {"lost"}
    MaxTime = 6
    MaxId = 7
    MaxCalls = 3
INVARIANTS
    TypeOK
    TextsUnique
    IdsKeepTheirRecord
PROPERTIES
    RemovedIdIsGone
\* The clock, the calls and the IDs are bounded: the model stops there.
CHECK_DEADLOCK FALSE
