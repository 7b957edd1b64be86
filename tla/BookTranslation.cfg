SPECIFICATION FairSpec
CONSTANTS
    Engines <- SmallEngines
    Sizes = {0, 2, 3}
    MaxText = 6
    SeparatorBytes = 1
    MaxFailures = 2
    MaxHeapTimeouts = 2
    MaxBlocks = 2
    LooseReplies = FALSE
    NumChapters = 2
    MaxRuns = 2
    MaxCrashes = 1
    SlowNetwork = FALSE
    StorageFaults = TRUE
    BufferStuck = FALSE
INVARIANTS
    TranslationsLineUp
    NothingBogus
    NetworkHasTheHeap
    FinishedChaptersKept
    ReportsWhatIsThere
PROPERTIES
    BookEnds
