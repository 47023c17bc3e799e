SPECIFICATION FairStorage
CONSTANTS
    MaxBlocks = 10
    Gaps = {1}
    FinalityInterval = 2
    PruningDepth = 5
    MergeDepth = 1
    Window = 1
    Chunk = 1
    MaxReorg = 2
    MaxSide = 2
    MaxDrop = 1
    CrashPoints = {"idle", "moved", "saved", "written"}
    MaxCrashes = 1
    VirtualGenesis = VirtualGenesis
    Failure = Failure
    Step = 1
    Capacity = 3
    Absent = Absent
    MaxVirtual = 4
    Shared = {2, 3}
    MaxIBD = 2
    MaxStops = 2
    Envs = {"quiet", "lateInserts", "lateEvents", "peerMovesOn"}
CHECK_DEADLOCK FALSE
INVARIANTS StorageTypeOK DerivedPointsAgreed PruningComplete ExchangeSafe IndexConsistent
PROPERTIES PruningPointAdvances StorageProgresses
