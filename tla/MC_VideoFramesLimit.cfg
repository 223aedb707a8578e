SPECIFICATION Spec
CONSTANTS
    front = front
    wrist = wrist
    c1 = c1
    c2 = c2
    Shards <- MCShards
    Consumers <- MCConsumers
    FrameQueries <- LongQuery
    ProducerThreads = 1
    TargetBufferSize = 1
    MaxPendingTargets = 1
    EarlyStop = TRUE
INVARIANT CapacityCanBeCreated
