SPECIFICATION Spec
CONSTANTS
    front = front
    wrist = wrist
    c1 = c1
    c2 = c2
    Shards <- MCShards
    Consumers <- MCConsumers
    FrameQueries <- TwoQueries
    ProducerThreads = 2
    TargetBufferSize = 3
    MaxPendingTargets = 3
    EarlyStop = FALSE
SYMMETRY ConsumerSymmetry
INVARIANTS
    PendingTargetsExact
    OneConsumerPerShard
    CapacityCanBeCreated
    NoSilentTruncation
    NoTargetTwice
