SPECIFICATION Spec
CONSTANTS
    p1 = p1
    p2 = p2
    p3 = p3
    None = None
    Torn = Torn
    Paths <- MCPaths
    NoBook = NoBook
    Sizes = {1, 2}
    Formats = {1, 2, 3}
    Structure <- MCStructure
    MaxArrivals = 2
INVARIANTS ArrivalsDistinct
PROPERTIES ImplementsShelf
SYMMETRY BookSymmetry
