\* Two programs of two pages each, and four frames: no eviction, but the
\* programs preempt each other, sleep on their loads and exit, so context
\* switches flush the TLB and exits free frames while the other runs.
CONSTANTS
    p1 = p1
    p2 = p2
    NoSpace = NoSpace
    Spaces = {p1, p2}
    NumPages = 2
    ExePages = {0}
    NUM_PHYS_PAGES = 4
    TLB_SIZE = 2
    MaxWrites = 1
    MaxAccess = 3
    Policies = {"FIFO"}
SPECIFICATION Spec
INVARIANT ReadsLatest CoremapConsistent
