SPECIFICATION FairSpec
CONSTANTS
    Plugins = 2
    Events = 4
    Subscribed <- MCSubscribed
    Downloads = {2, 3}
    MaxOutbox = 2
    MaxEvents = 2
    NoFile = NoFile
INVARIANTS
    AtLeastOnce
    FreshBookIsDue
PROPERTIES
    ImplementsEventQueue
    OutboxEmpties
