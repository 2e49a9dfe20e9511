CONSTANTS
    d1 = d1
    d2 = d2
    p1 = p1
    p2 = p2
    p3 = p3
    p4 = p4
    None = None
    NoNode = NoNode
    Devices <- TwoDevices
    Positions <- FourPositions
    Nodes <- RoomsAndOthers
    MaxClimbDepth = 2

SPECIFICATION Spec

SYMMETRY Interchangeable

INVARIANTS
    TypeOK
    RoomIsTopmost
    NeverRevisits

CHECK_DEADLOCK FALSE
