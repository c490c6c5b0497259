CONSTANTS
    Threads = {t1, t2}
    NumPages = 3
    PageCount = 2
    MaxFixed = 2
    None = None
    FileThreads = {f1, f2, f3}
    FilePages = 3
SPECIFICATION PartsSpec
SYMMETRY Symmetry
INVARIANT PartsTypeOK
INVARIANT QueuesConsistent
INVARIANT ResidentWithinCapacity
INVARIANT FixedPagesResident
INVARIANT NoLostUpdate
INVARIANT LatchesAccounted
INVARIANT NoInvalidLoadingState
INVARIANT BlocksInsideFile
PROPERTY DirtyUntilFlushed
