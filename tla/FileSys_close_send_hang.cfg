\* One thread opens and closes the boot file while another removes it.  A
\* closer stuck in Send stops the system, so deadlock is not checked.
CONSTANTS
    t1 = t1  t2 = t2  t3 = t3  f1 = f1  f2 = f2  f3 = f3  d1 = d1
    NoThread = NoThread  NoSector = NoSector  Null = Null
    Threads = {t1, t2}
    Names = {f1}
    DirNames = {}
    DirSectors = 1
    FdTableSize = 3
    NumSectors = 4
    MaxOps = 1
    NUM_DIR_ENTRIES = 3
    Registered <- EveryThread
    NUM_DIRECT = 2
    WriteSizes = {1}
    InitFiles <- OneFileAtBoot
    Ops <- OneOpenerOneRemover
SPECIFICATION Spec
PROPERTY CloseCompletes
CHECK_DEADLOCK FALSE
