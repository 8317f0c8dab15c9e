CONSTANTS
    c1 = c1
    c2 = c2
    c3 = c3
    d1 = d1
    NoThread = NoThread
    Creators <- MCCreators
    Deleters <- MCDeleters
    FaultSites <- NoFaults
    MaxFaults = 1
    MaxDeletes = 2
    DeleteRacesCreate = TRUE

SPECIFICATION Spec

INVARIANT
    ContainersHoldImageContent
