SPECIFICATION TSpec
CONSTANTS
    dev1 = dev1
    dev2 = dev2
    c1 = c1
    c2 = c2
    NoCompany = NoCompany
    ProjectOwner = dev1
    HasCounterparty = TRUE
    Developers = {dev1, dev2}
    Clients = {c1, c2}
    CreditEst = 3
    VintageTotals <- WholeEstimate
    MaxRequests = 0
    UseTypes = {}
    Purposes = {}
    MaxOperations = 4
CHECK_DEADLOCK FALSE
INVARIANTS
    DistinctSerials
