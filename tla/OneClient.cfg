SPECIFICATION TSpec
CONSTANTS
    dev1 = dev1
    dev2 = dev2
    c1 = c1
    NoCompany = NoCompany
    ProjectOwner = dev1
    HasCounterparty = TRUE
    Developers = {dev1, dev2}
    Clients = {c1}
    CreditEst = 3
    VintageTotals <- AllTotals
    MaxRequests = 2
    UseTypes = {"FirstTransferTowardsNDC", "VoluntaryCancellation"}
    Purposes = {"NDC"}
    MaxOperations = 6
CHECK_DEADLOCK FALSE
PROPERTIES
    Spec
