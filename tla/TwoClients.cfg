SPECIFICATION TSpec
CONSTANTS
    dev1 = dev1
    dev2 = dev2
    c1 = c1
    c2 = c2
    NoCompany = NoCompany
    ProjectOwner = dev1
    HasCounterparty = TRUE
    Developers = {dev1, dev2}
    Clients = {c1, c2}
    CreditEst = 6
    VintageTotals <- SameReport
    MaxRequests = 1
    UseTypes = {"VoluntaryCancellation"}
    Purposes = {}
    MaxOperations = 6
SYMMETRY Symmetry
CHECK_DEADLOCK FALSE
INVARIANTS
    AmountIsWidth
    SerialsKept
