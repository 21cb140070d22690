\* One thread creates a file while another creates a directory and changes
\* into it.  Create holds filesysCreateLock, SC_CD takes no lock: the
\* directory copy Create fetched from the root can be written back into
\* the new directory.
CONSTANTS
    t1 = t1  t2 = t2  t3 = t3  f1 = f1  f2 = f2  f3 = f3  d1 = d1
    NoThread = NoThread  NoSector = NoSector  Null = Null
    Threads = {t1, t2}
    Names = {f1, f2}
    DirNames = {d1}
    DirSectors = 1
    FdTableSize = 3
    NumSectors = 10
    MaxOps = 2
    NUM_DIR_ENTRIES = 2
    Registered <- EveryThread
    NUM_DIRECT = 2
    WriteSizes = {1}
    InitFiles <- OneFileAtBoot
    Ops <- CreatorChanger
SPECIFICATION Spec
INVARIANT DiskConsistent
CHECK_DEADLOCK FALSE
