CONSTANTS
    c1 = c1
    c2 = c2
    c3 = c3
    d1 = d1
    NoThread = NoThread
    Creators <- MCCreators
    Deleters <- MCDeleters
    FaultSites <- CreateFaults
    MaxFaults = 1
    MaxDeletes = 2
    DeleteRacesCreate = FALSE

SPECIFICATION Spec

INVARIANTS
    TypeOK
    ImageCacheConsistent
    CreateFailsOnlyOnHelperFailure

PROPERTIES
    CallsReturn
    ImageCacheRefinesAbstract
