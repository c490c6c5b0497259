CONSTANTS
    Threads = {t1, t2}
    NumPages = 2
    PageCount = 1
    MaxFixed = 2
    None = None
SPECIFICATION FairSpec
PROPERTY SomeCallCompletes
