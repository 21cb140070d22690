\* Two programs of two pages each share two frames: a fault of one evicts
\* the other's page (FIFO), the case EscribirFrameenSwap gets wrong.
CONSTANTS
    p1 = p1
    p2 = p2
    NoSpace = NoSpace
    Spaces = {p1, p2}
    NumPages = 2
    ExePages = {0}
    NUM_PHYS_PAGES = 2
    TLB_SIZE = 2
    MaxWrites = 1
    MaxAccess = 3
    Policies = {"FIFO"}
SPECIFICATION Spec
INVARIANT ReadsLatest
