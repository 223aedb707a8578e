SPECIFICATION FairSpec
CONSTANTS
    front = front
    wrist = wrist
    c1 = c1
    c2 = c2
    Shards <- MCShards
    Consumers <- OneConsumer
    FrameQueries <- ManyQueries
    ProducerThreads = 2
    TargetBufferSize = 2
    MaxPendingTargets = 1
    EarlyStop = TRUE
PROPERTIES
    ConsumersEnd
    ProducersEnd
