SPECIFICATION Spec
CONSTANTS
    w1 = w1
    Writers = {w1}
    WriteSets <- Operations
    FaultySections = {"project"}
    RetryLimit = 2
    MaxWrites = 2
    MaxCrashes = 1
CHECK_DEADLOCK FALSE
INVARIANTS
    TypeOK
    ReplicaFollowsLog
    RowsRepeatedOnlyByRestart
    EndsOnlyInOutage
PROPERTIES
    EveryEventArrives
