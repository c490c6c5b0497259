CONSTANTS
    Threads = {t1, t2}
    Keys = {1, 2}
    Values = {v1}
    LeafCapacity = 2
    InnerCapacity = 3
    MaxNodes = 4
    None = None
SPECIFICATION Spec
SYMMETRY Symmetry
INVARIANT RootPublishedLast
