CONSTANTS
    Threads = {t1, t2}
    Keys = {1, 2, 3}
    Values = {v1}
    LeafCapacity = 2
    InnerCapacity = 3
    MaxNodes = 10
    None = None
SPECIFICATION SpecWithThrow
SYMMETRY Symmetry
CHECK_DEADLOCK FALSE
INVARIANT TreeWellFormed
