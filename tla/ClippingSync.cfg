SPECIFICATION Spec
CONSTANTS
    c1 = c1
    c2 = c2
    c3 = c3
    i1 = i1
    i2 = i2
    i3 = i3
    i4 = i4
    Clips <- MCClips
    Ids <- MCIds
    NoId = NoId
    NotThere = NotThere
    None = None
    Unknown = Unknown
    Deleted = Deleted
INVARIANTS
    KeptOnCard
    NoneComesBack
    NoTwins
    SyncAgrees
SYMMETRY ClippingSymmetry
