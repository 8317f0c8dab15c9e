CONSTANTS
    h1 = h1
    h2 = h2
    P = P
    X = X
    v1 = v1
    Hosts <- MCHosts
    PoolNames <- MCPoolNames
    OSDNames <- MCOSDNames
    External <- MCExternal
    Vols <- MCVols
    FaultSites <- HandlerFaults
    MaxFaults = 2

SPECIFICATION Spec

INVARIANTS
    TypeOK
    NoLeakedOSDPool
    NoLeakedVolume
    HostLayoutMatchesDB
