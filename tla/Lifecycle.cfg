CONSTANTS
    c1 = c1
    c2 = c2
    Clients = {c1, c2}
    Starts = {0, 5, 7}
    MaxUploads = 3
SPECIFICATION LSpec
SYMMETRY RequestSymmetry
INVARIANTS
    LTypeOK
    CertifiedBeforeApproved
    OneIssuancePerActivity
    ProposalsMatchLedger
PROPERTIES
    StagesFollowProcedure
CHECK_DEADLOCK FALSE
