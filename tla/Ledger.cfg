SPECIFICATION Spec
CONSTANTS
    dev1 = dev1
    dev2 = dev2
    NoCompany = NoCompany
    ProjectOwner = dev1
    HasCounterparty = TRUE
    Developers = {dev1, dev2}
    CreditEst = 3
    VintageTotals <- MCVintageTotals
    MaxRequests = 2
    UseTypes = {"FirstTransferTowardsNDC", "FirstTransferForOIMP", "UseTowardsNDC"}
    Purposes = {"NDC", "OIMP"}
CHECK_DEADLOCK FALSE
INVARIANTS
    TypeOK
    SerialsPartitionIssued
    ReservedIsPending
    PendingCanBeSettled
    RetiredForItsPurpose
    RetirementTraceable
    ItmoSerialMatches
    BalanceConserved
PROPERTIES
