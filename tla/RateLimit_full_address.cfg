SPECIFICATION ServicesSpec
CONSTANTS
    k1 = k1
    k2 = k2
    k3 = k3
    k4 = k4
    empty = empty
    small = small
    medium = medium
    large = large
    Keys <- MCKeys4
    Buckets <- MCBuckets
    Hash <- MCHash
    Bodies <- MCBodies
    SizeOf <- MCSizeOf
    MaxSize = 5
    Ttls <- MCTtls
    Times <- MCTimes
    NULL = NULL
    p1 = p1
    p2 = p2
    a1 = a1
    a2 = a2
    i1 = i1
    i2 = i2
    NumBackends = 3
    Weight <- MCWeight
    Algorithms <- MCAlgorithms
    Callers <- MCTwoCallers
    Clients <- MCTwoClients
    HashOf <- MCHashOf
    Fickle = {1, 3}
    FailLimit = 1
    CheckInterval = 1
    IntMax = 20
    MaxIndex = 5
    NoBackend = NoBackend
    Ips <- MCTwoIps
    FullLength = {i2}
    Requests = 2
    Limit = 2
    Window = 3
    Idle = 3
    Chunks = {1, 2}
    MaxTime = 4
    MaxBytes = 5
    MaxLimiters = 2
    MaxTrackers = 2
INVARIANTS EveryIpLimited
