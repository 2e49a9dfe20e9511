CONSTANTS
    d1 = d1
    d2 = d2
    d3 = d3
    NoData = NoData
    Devices <- ThreeDevices
    Hash <- Parities
    Projectors <- OneProjector
    Deployments <- ThreeDeployments
    MaxWorkers = 2
    FlushAttempts = 2
    MaxChanges = 1
    MaxFaults = 1

SPECIFICATION FairSpec

INVARIANTS
    TypeOK
    EachDeviceOnce
    OneWriterPerSeries

PROPERTIES
    OkMeansRecorded
    GaugesSumToFleet
