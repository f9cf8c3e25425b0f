CONSTANTS
    c1 = c1
    c2 = c2
    o1 = o1
    o2 = o2
    dna = dna
    Clients = {c1, c2}
    Owners = {o1, o2}
    Buyers = {}
    Government = dna
    CompanyId <- MCCompanyId
    AlsoNamed <- MCAlsoNamed
    Weight <- MCWeight
    Authorised = 1
    Estimate = 2
    OmgePercentage = 50
    Amounts = {2}
    MaxTransfers = 2
    MaxBegun = 3
    MaxFailures = 1
SPECIFICATION PSpec
SYMMETRY TransferSymmetry
INVARIANTS
    PTypeOK
    ProgrammeAddsUp
    AccountsAddUp
    

    
CHECK_DEADLOCK FALSE
