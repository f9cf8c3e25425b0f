CONSTANTS
    b1 = b1
    Blocks = {b1}
    SplitAt = {2}
    MaxAttempts = 2
    MaxVersion = 2
    MaxFaults = 1
SPECIFICATION SyncSpec
INVARIANTS
    STypeOK
    NothingForgotten
    CreatedOnce

    
CHECK_DEADLOCK FALSE
