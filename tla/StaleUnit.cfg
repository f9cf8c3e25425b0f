CONSTANTS
    b1 = b1
    Blocks = {b1}
    SplitAt = {}
    MaxAttempts = 2
    MaxVersion = 3
    MaxFaults = 0
SPECIFICATION SyncSpec
INVARIANTS
    UnitShowsBlock
CHECK_DEADLOCK FALSE
