CONSTANTS
    A = A
    B = B
    C = C
    s1 = s1
    s2 = s2
    s3 = s3
    Names <- MCNames
    Snaps <- MCSnaps
    FaultSites <- NoFaults
    MaxFaults = 0
    SourceSnaps <- MCSourceSnaps
    SnapSizes <- MCSnapSizes

SPECIFICATION Spec

INVARIANTS
    SnapshotSymlinkPresent
