CONSTANTS
    j1 = j1
    j2 = j2
    j3 = j3
    landb_ipaddresses = landb_ipaddresses
    landb_location = landb_location
    eam_devices = eam_devices
    k1 = k1
    Checks <- ThreeTables
    Retired <- OneRetired
    Jobs <- ThreeJobs
    Owner <- TwoOnOne
    Keys <- OneKey
    MaxFaults = 1

SPECIFICATION FairSpec

INVARIANTS
    TypeOK
    NoLegacyBehind

PROPERTIES
    FailuresAreRaces
    CacheComesBack
