CONSTANTS
    Threads = {t1}
    Keys = {1, 2, 3, 4, 5}
    Values = {v1}
    LeafCapacity = 2
    InnerCapacity = 4
    MaxNodes = 14
    None = None
SPECIFICATION Spec
SYMMETRY Symmetry
INVARIANT TreeWellFormed
PROPERTY ImplementsMap
