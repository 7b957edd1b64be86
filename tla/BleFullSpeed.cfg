SPECIFICATION Spec
CONSTANTS
    RetryLimit = 1
    RefusalsBeforeRestart = 2
    SlowRadio = FALSE
    HeapMoods = {"fits"}
    MayBuild = TRUE
INVARIANT FullSpeedWhileUp
