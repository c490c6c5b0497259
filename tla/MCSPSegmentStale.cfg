CONSTANTS
    PageSize = 1024
    PowTable <- Pow1024
    MaxPages = 3
    invalidPid = invalidPid
    HeaderSize = 12
    SlotSize = 8
    DataSizes = {200, 600}
    MaxSlots = 2
    MaxRecords = 2
    NoTid = NoTid
    Evicted = {0}
SPECIFICATION SpecCareful
CHECK_DEADLOCK FALSE
INVARIANT InventoryMatchesPages
