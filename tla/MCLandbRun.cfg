CONSTANTS
    i1 = i1
    i2 = i2
    s1 = s1
    s2 = s2
    n1 = n1
    n2 = n2
    a1 = a1
    a2 = a2
    None = None
    NoRow = NoRow
    Ids <- TwoIds
    Serials <- TwoSerials
    Names <- TwoNames
    Addresses <- TwoAddresses
    Inventories <- Snapshots
    Directories <- SixteenDirectories
    ChunkSize = 1
    MaxFaults = 2
    MaxChanges = 1

SPECIFICATION FairSpec

INVARIANTS
    TypeOK
    CompleteViewIsExact

PROPERTIES
    OnlyAbsentDevicesAreDeleted
    HeartbeatMeansMirrored
    Heals
