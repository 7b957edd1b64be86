SPECIFICATION Spec
CONSTANTS
    Engines <- SmallEngines
    Sizes = {1}
    MaxText = 6
    SeparatorBytes = 1
    MaxFailures = 2
    MaxHeapTimeouts = 2
    MaxBlocks = 4
    LooseReplies = FALSE
    NumChapters = 1
    MaxRuns = 1
    MaxCrashes = 0
    SlowNetwork = FALSE
    StorageFaults = FALSE
    BufferStuck = FALSE
INVARIANTS
    StaysNative
