SPECIFICATION Spec
CONSTANTS
    RetryLimit = 1
    RefusalsBeforeRestart = 2
    SlowRadio = FALSE
    HeapMoods = {"fits", "pieces", "low"}
    MayBuild = TRUE
INVARIANTS BuildsAlone NoStopDuringStart DeliversWithoutBluetooth OneRestart
