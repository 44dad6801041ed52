SPECIFICATION FairSpec
CONSTANTS
    c1 = c1
    c2 = c2
    i1 = i1
    i2 = i2
    v1 = v1
    v2 = v2
    Cycles = {c1, c2}
    Images = {i1, i2}
    Vulns = {v1, v2}
    Reports <- MCReports
    MaxScans = 2
    MaxAttempts = 2
INVARIANTS
    StoredScansAreAccounted
    TallyAddsUp
PROPERTIES
    GaugesFollowDatabase
    CyclesEnd
CHECK_DEADLOCK FALSE
