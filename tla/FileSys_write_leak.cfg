\* One thread extends the boot files, one sector per header, until the disk
\* is full.
CONSTANTS
    t1 = t1  t2 = t2  t3 = t3  f1 = f1  f2 = f2  f3 = f3  d1 = d1
    NoThread = NoThread  NoSector = NoSector  Null = Null
    Threads = {t1}
    Names = {f1, f2}
    DirNames = {}
    DirSectors = 1
    FdTableSize = 3
    NumSectors = 6
    MaxOps = 4
    NUM_DIR_ENTRIES = 3
    Registered <- EveryThread
    NUM_DIRECT = 1
    WriteSizes = {1, 2}
    InitFiles <- TwoFilesAtBoot
    Ops <- OneWriter
SPECIFICATION Spec
INVARIANT DiskConsistent
