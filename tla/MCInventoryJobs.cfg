CONSTANTS
    d1 = d1
    d2 = d2
    f1 = f1
    p1 = p1
    p2 = p2
    room = room
    NO_ROOM_NO_POSITION = NO_ROOM_NO_POSITION
    NoRow = NoRow
    Devices <- ThreeDevices
    Foreign <- OneForeign
    Positions <- TwoPositions
    ForeignPlaces <- OneForeignPlace
    Rooms <- OneRoom
    Grids <- StartingGrids
    MaxChanges = 1
    MaxFaults = 1

SPECIFICATION FairSpec

INVARIANTS
    TypeOK

PROPERTIES
    OkMeansBothSynced
    RoomsFollowTheCache
    PipelineConverges
