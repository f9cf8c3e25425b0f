CONSTANTS
    c1 = c1
    a1 = a1
    a2 = a2
    g1 = g1
    g2 = g2
    t1 = t1
    t2 = t2
    Clients = {c1}
    Approaches = {a1, a2}
    Generals = {g1, g2}
    Trajectories = {t1, t2}
    Asked = {"Active"}
    MaxReports = 2
    MaxVersions = 3
SPECIFICATION IRSpec
SYMMETRY ReportSymmetry
INVARIANTS
    IRTypeOK
    VersionsAreInOrder
    FiledStays
CHECK_DEADLOCK FALSE
