SPECIFICATION ChunksSpec
CONSTANTS
    Files = {0, 1, 2, 3, 4}
    NoFile = NoFile
    Runtime = 0
    FarAway = 1000
    Graphs <- SmallGraphs
INVARIANTS
    LiveIsExact
    EveryLiveFileIsReached
    EntryBitsAreReachability
    ChunksCanBeLoaded
    PartsArePrintedInOrder
    NamesFollowContents
CHECK_DEADLOCK FALSE
