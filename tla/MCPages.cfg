CONSTANTS
    PageSize = 1024
    MaxPages = 4
    invalidPid = invalidPid
    HeaderSize = 12
    SlotSize = 8
    DataSizes = {0, 100, 300, 500}
    MaxSlots = 3
    NoTid = NoTid
SPECIFICATION Spec
INVARIANT TypeOK
INVARIANT CacheIsEarliest
INVARIANT EncodingBracketsSpace
INVARIANT FindIsComplete
INVARIANT PageFreeSpaceAccounted
INVARIANT PageDataDisjoint
INVARIANT PageFirstFreeSlotIsFree
