SPECIFICATION FairSpec
CONSTANTS
    u1 = u1
    u2 = u2
    s1 = s1
    s2 = s2
    Users <- TwoUsers
    Shards <- MCShards
    MaxCachedDecoders = 1
    Dropping = TRUE
    Chunks <- MCChunks
    MaxChunks = 1
    OutputBatchSize = 3
    TargetBufferSize = 2
    MaxPendingTargets = 3
    MaxOutputBytes = 3
    Width = 4
    Scale = 4
    Binds <- MCBinds
INVARIANTS
    SlotsAccounted
    WaitsForOthers
    RowsAnsweredOnce
    RowsKeepTheirRoute
    FramesInEpisode
    DecoderFollowsBuffer
PROPERTY ThreadsEnd
