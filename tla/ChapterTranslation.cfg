SPECIFICATION FairSpec
CONSTANTS
    MaxRuns = 3
    MaxCrashes = 0
    SlowNetwork = FALSE
    UnreadableChapter = TRUE
    StorageFaults = FALSE
    LowMemory = FALSE
    LightPanel = TRUE
INVARIANTS
    UnfinishedKeepsPrior
    CachesOfTheTranslation
PROPERTIES
    RunEnds
    ExitEnds
