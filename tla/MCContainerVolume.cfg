CONSTANTS
    A = A
    B = B
    C = C
    s1 = s1
    s2 = s2
    s3 = s3
    Names <- MCNames3
    Snaps <- MCSnaps3
    FaultSites <- RevertedFaults
    MaxFaults = 1
    SourceSnaps <- MCSourceSnaps
    SnapSizes <- MCSnapSizesAll

SPECIFICATION Spec

INVARIANTS
    TypeOK
    LayoutMatchesRecord
    NoStartCloneLeft
