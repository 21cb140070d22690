\* One thread opens the boot file twice, writes past the first header
\* through one handle and reads the file through the other, then writes
\* again: Read walks hdr along the chain but leaves currentSector behind.
CONSTANTS
    t1 = t1  t2 = t2  t3 = t3  f1 = f1  f2 = f2  f3 = f3  d1 = d1
    NoThread = NoThread  NoSector = NoSector  Null = Null
    Threads = {t1}
    Names = {f1}
    DirNames = {}
    DirSectors = 1
    FdTableSize = 3
    NumSectors = 12
    MaxOps = 6
    NUM_DIR_ENTRIES = 3
    Registered <- EveryThread
    NUM_DIRECT = 2
    WriteSizes = {1, 3}
    InitFiles <- OneFileAtBoot
    Ops <- OneWriterReader
SPECIFICATION Spec
INVARIANT PositionsAgree
CHECK_DEADLOCK FALSE
