\* One thread opens the boot file twice and writes through both handles:
\* headers fill, chains grow, and a handle behind the end walks the chain.
\* The disk is large enough that no Write runs out of sectors.  The thread
\* also removes the file, following its chain; removing a file it still
\* holds makes it wait for its own Close, so the system may stop.
CONSTANTS
    t1 = t1  t2 = t2  t3 = t3  f1 = f1  f2 = f2  f3 = f3  d1 = d1
    NoThread = NoThread  NoSector = NoSector  Null = Null
    Threads = {t1}
    Names = {f1, f2}
    DirNames = {d1}
    DirSectors = 1
    FdTableSize = 2
    NumSectors = 20
    MaxOps = 5
    NUM_DIR_ENTRIES = 3
    Registered <- EveryThread
    NUM_DIRECT = 2
    WriteSizes = {1, 3}
    InitFiles <- OneFileAtBoot
    Ops <- OneWriterRemover
SPECIFICATION Spec
INVARIANT TypeOK
INVARIANT NoFault
INVARIANT DiskConsistent
INVARIANT OpenFilesAllocated
INVARIANT CurrentDirValid
INVARIANT CountMatchesHolders
INVARIANT CreateLockFreeBetweenCalls
CHECK_DEADLOCK FALSE
