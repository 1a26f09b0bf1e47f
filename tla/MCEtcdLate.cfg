SPECIFICATION Spec
CONSTANTS
    Callers = {c1, c2}
    addr = addr  ptr = ptr  txt = txt
    host = host  below = below  arpa = arpa
    NoId = NoId
    Texts <- MCTexts
    NameOf <- MCNameOf
    Scope <- MCScope
    Reverse <- MCReverse
    Batches <- TwoBatches
    Faults = {"lost", "late"}
    MaxTime = 2
    MaxId = 6
    MaxCalls = 2
INVARIANTS
    KeysNameTheirRecord
\* The clock, the calls and the IDs are bounded: the model stops there.
CHECK_DEADLOCK FALSE
