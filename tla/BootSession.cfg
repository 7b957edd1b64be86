SPECIFICATION Spec
CONSTANTS
    Books = {b1, b2}
    None = None
    Unreadable = Unreadable
    SavesFail = FALSE
    SleepPassRuns = TRUE
INVARIANTS
    BootLoopEnds
    BookComesBack
