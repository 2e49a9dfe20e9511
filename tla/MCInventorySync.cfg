CONSTANTS
    r1 = r1
    r2 = r2
    k1 = k1
    k2 = k2
    k3 = k3
    None = None
    NoRow = NoRow
    Unset <- None
    Ids <- ThreeKeys
    Columns <- ThreeColumns
    Compared <- TwoCompared
    Rows <- ThreeRows
    Grids <- StartingGrids
    Runs <- TwoRuns
    MaxEvents = 2

SPECIFICATION FairSpec

INVARIANTS
    TypeOK
    MixturesAreServed

PROPERTIES
    MixingTakesAnOverlap
    DegradedKeepsEveryKey
    BoundedErasure
    OkMeansMirrored
    RefusedStillRefreshes
    ImplementsCache
    Converges
