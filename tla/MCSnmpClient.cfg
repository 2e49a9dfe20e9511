CONSTANTS
    p = p
    w = w
    v = v
    m = m
    q = q
    ipProjector = ipProjector
    ipSentry3 = ipSentry3
    ipSentry4 = ipSentry4
    ipMatrix = ipMatrix
    None = None
    Devices <- FiveDevices
    Addresses <- FourAddresses
    Address <- Places
    Route <- Routes
    AgentAt <- TheAgents
    Fleets <- TwoFleets
    MaxIndex = 2
    Threads = 2
    PingTimeout = 1
    PingRetries = 2
    PingBackoff = 1
    PingBackoffMax = 1
    PingJitter = 1
    PingConcurrency = 1
    ProbeConcurrency = 1
    QueryConcurrency = 1
    ProcessMargin = 1
    MaxFaults = 1

SPECIFICATION FairSpec

INVARIANTS
    TypeOK
    LimitsHold
    PingBudget
    DownMeansTried
    ReadingsAreGenuine
    RoutedReadings
    OneSamplePerSeries

PROPERTIES
    PermitsAreUsed
    CollectionEnds
    ImplementsCycle

CHECK_DEADLOCK FALSE
