SPECIFICATION FairSpec
CONSTANTS
    Protocols <- MCProtocols
    Callers <- MCCallers
    MaxFlight = 1
INVARIANTS
    TypeOK
    OneFailureIsSurvived
    DrainedOnFailure
    WhoIsLeft
PROPERTIES
    
    
    SweeperEnds
\* The process ends.
CHECK_DEADLOCK FALSE
