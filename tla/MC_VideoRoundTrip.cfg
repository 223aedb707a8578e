SPECIFICATION Spec
CONSTANTS
    FrameCounts <- MCFrameCounts
    StartTimes <- MCStartTimes
    Lag = 1
    Svt = {1, 2}
    Gop = 2
    Videos <- MCVideos
    Requests <- MCRequests
    MaxBuffers = 3
    Tick = 4
    FrameDuration = 8
    Tolerance = 4
    ClusterGap = 10
    MaxClusterFrameSpan = 3
    SafetyMargin = 3
    Faults = TRUE
    ReadFaults = TRUE
INVARIANTS
    FilesComplete FirstErrorThrown EndedJobsHoldNothing
    RowsShowTheirFrames
PROPERTY AnswersNearestFrame
