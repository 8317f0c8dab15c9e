CONSTANTS
    h1 = h1
    h2 = h2
    P = P
    X = X
    v1 = v1
    Hosts <- MCHost
    PoolNames <- MCPoolNames
    OSDNames <- MCOSDNames
    External <- MCExternal
    Vols <- MCVols
    FaultSites <- NoFaults
    MaxFaults = 0

SPECIFICATION Spec

INVARIANT
    OnlyOwnerDestroysOSDPool
