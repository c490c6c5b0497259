CONSTANTS
    Threads = {t1, t2}
    NumPages = 3
    PageCount = 2
    MaxFixed = 2
    None = None
SPECIFICATION Spec
SYMMETRY Symmetry
INVARIANT DataNullUnlessLoaded
