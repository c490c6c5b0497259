CONSTANTS
    Threads = {t1, t2}
    Keys = {1, 2, 3}
    Values = {v1}
    LeafCapacity = 2
    InnerCapacity = 3
    MaxNodes = 7
    None = None
    Operations <- ProgressOperations
SPECIFICATION FairSpec
PROPERTY SomeOperationCompletes
