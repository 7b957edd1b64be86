SPECIFICATION Spec
CONSTANTS
    MaxRuns = 2
    MaxCrashes = 2
    SlowNetwork = TRUE
    UnreadableChapter = TRUE
    StorageFaults = TRUE
    LowMemory = TRUE
    LightPanel = FALSE
INVARIANTS
    DrawsIntoTheBuffer
    RepaintsWhileParked
    CommittedRanToItsEnd
    SuccessIsCommitted
