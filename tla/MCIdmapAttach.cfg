CONSTANTS
    c1 = c1
    c2 = c2
    m1 = m1
    m2 = m2
    NoMap = NoMap
    Containers <- MCContainers
    Idmaps <- MCIdmaps
    UsedBy <- MCContainers
    FaultSites <- CleanFaults
    MaxFaults = 2
    Sequential = TRUE
    IdmapsChange = TRUE

SPECIFICATION Spec

INVARIANT
    IdmapRecordMatchesFiles
