SPECIFICATION Spec
CONSTANTS
    MaxRuns = 2
    MaxCrashes = 1
    SlowNetwork = FALSE
    UnreadableChapter = FALSE
    StorageFaults = FALSE
    LowMemory = FALSE
    LightPanel = FALSE
INVARIANTS
    PagesOfTheTranslation
