CONSTANTS
    Threads = {t1}
    Keys = {1, 2, 3, 4, 5}
    Values = {v1, v2}
    LeafCapacity = 3
    InnerCapacity = 3
    MaxNodes = 11
    None = None
    MaxLen = 7
    MaxKey = 4
SPECIFICATION PartsSpec
SYMMETRY Symmetry
INVARIANT PartsTypeOK
INVARIANT TreeWellFormed
INVARIANT AnswerInWindow
INVARIANT ResultIsLowerBound
INVARIANT ProbesAreLogarithmic
PROPERTY ImplementsMap
