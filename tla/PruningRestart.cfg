SPECIFICATION FairSpec
CONSTANTS
    MaxBlocks = 10
    Gaps = {1}
    FinalityInterval = 3
    PruningDepth = 7
    MergeDepth = 2
    Window = 1
    Chunk = 2
    MaxReorg = 0
    MaxSide = 0
    MaxDrop = 1
    CrashPoints = {"deleted"}
    MaxCrashes = 1
    VirtualGenesis = VirtualGenesis
    Failure = Failure
CHECK_DEADLOCK FALSE
PROPERTIES StartupCatchesUp
