SPECIFICATION FairSpec
CONSTANTS
    RetryLimit = 0
    RefusalsBeforeRestart = 1
    SlowRadio = FALSE
    HeapMoods = {"fits"}
    MayBuild = TRUE
PROPERTIES ScreenComes LockComesBack
