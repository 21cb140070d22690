\* Open's removing test races Remove's count test.
CONSTANTS
    t1 = t1  t2 = t2  t3 = t3  f1 = f1  f2 = f2  f3 = f3  d1 = d1
    NoThread = NoThread  NoSector = NoSector  Null = Null
    Threads = {t1, t2}
    Names = {f1}
    DirNames = {}
    DirSectors = 1
    FdTableSize = 3
    NumSectors = 4
    MaxOps = 1
    NUM_DIR_ENTRIES = 3
    Registered <- EveryThread
    NUM_DIRECT = 2
    WriteSizes = {1}
    InitFiles <- OneFileAtBoot
    Ops <- OneOpenerOneRemover
SPECIFICATION Spec
INVARIANT OpenFilesAllocated
