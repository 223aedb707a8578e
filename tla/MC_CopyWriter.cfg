SPECIFICATION Spec
CONSTANTS
    front = front
    wrist = wrist
    pick = pick
    place = place
    VideoFeatures <- OneVideo
    Tasks <- TwoTasks
    ChunksSize = 2
    MetadataBufferSize = 2
    VideoFileSize = 3
    FragmentSizes <- SmallOrLarge
    MaxEpisodes = 4
    MaxFrames = 4
    MaxFiles = 5
INVARIANTS
    RowsWhereNamed
    RouteShowsEpisode
    NothingLeftBehind
PROPERTIES
    PublishesAtOnce
