\* One thread opens and closes the boot file while two others remove it, one
\* by its absolute path; the closer may hang in Send, so the system may stop.
CONSTANTS
    t1 = t1  t2 = t2  t3 = t3  f1 = f1  f2 = f2  f3 = f3  d1 = d1
    NoThread = NoThread  NoSector = NoSector  Null = Null
    Threads = {t1, t2, t3}
    Names = {f1}
    DirNames = {}
    DirSectors = 1
    FdTableSize = 3
    NumSectors = 4
    MaxOps = 2
    NUM_DIR_ENTRIES = 3
    Registered <- EveryThread
    NUM_DIRECT = 2
    WriteSizes = {1}
    InitFiles <- OneFileAtBoot
    Ops <- OneOpenerTwoRemovers
SPECIFICATION Spec
INVARIANT NoFault
INVARIANT CheckPasses
INVARIANT CountMatchesHolders
INVARIANT CurrentDirValid
PROPERTY RemoveCompletes
CHECK_DEADLOCK FALSE
