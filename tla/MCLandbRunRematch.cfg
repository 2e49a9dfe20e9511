CONSTANTS
    i1 = i1
    i2 = i2
    s1 = s1
    s2 = s2
    n1 = n1
    n2 = n2
    a1 = a1
    a2 = a2
    None = None
    NoRow = NoRow
    Ids <- TwoIds
    Serials <- TwoSerials
    Names <- TwoNames
    Addresses <- TwoAddresses
    Inventories <- Snapshots
    Directories <- TwentyFiveDirectories
    ChunkSize = 1
    MaxFaults = 1
    MaxChanges = 0

SPECIFICATION Spec

INVARIANTS
    DegradedIsNotNotFound
