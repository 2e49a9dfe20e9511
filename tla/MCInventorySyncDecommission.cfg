CONSTANTS
    r1 = r1
    r2 = r2
    k1 = k1
    k2 = k2
    k3 = k3
    None = None
    NoRow = NoRow
    Unset <- None
    Ids <- TwoKeys
    Columns <- ThreeColumns
    Compared <- TwoCompared
    Rows <- ThreeRows
    Grids <- TwoItems
    Runs <- TwoRuns
    MaxEvents = 2

SPECIFICATION FairSpec

PROPERTIES
    DecommissionedRowsGo
