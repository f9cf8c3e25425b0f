CONSTANTS
    c1 = c1
    c2 = c2
    a1 = a1
    g1 = g1
    g2 = g2
    t1 = t1
    t2 = t2
    Clients = {c1, c2}
    Approaches = {a1}
    Generals = {g1, g2}
    Trajectories = {t1, t2}
    Asked = {"Active"}
    MaxReports = 1
    MaxVersions = 2
SPECIFICATION IRSpec
SYMMETRY ReportSymmetry
INVARIANTS
    
    FiledLinkIsInAVersion
CHECK_DEADLOCK FALSE
