CONSTANTS
    c1 = c1
    c2 = c2
    Clients = {c1, c2}
    Length = 2
    MaxRequested = 1
SPECIFICATION ASpec
INVARIANTS
    ATypeOK
    
PROPERTIES
    FiledNotRecalculated
    OneAverage
    EveryRequestEnds
CHECK_DEADLOCK FALSE
