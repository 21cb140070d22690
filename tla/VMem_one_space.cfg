\* One program with three pages (two of code/data, one of stack) in two
\* frames, in each victim-policy build: every fault after the second evicts,
\* and pages go to swap and back.
CONSTANTS
    p1 = p1
    p2 = p2
    NoSpace = NoSpace
    Spaces = {p1}
    NumPages = 3
    ExePages = {0, 1}
    NUM_PHYS_PAGES = 2
    TLB_SIZE = 2
    MaxWrites = 2
    MaxAccess = 5
    Policies = {"FIFO", "CLOCK", "RANDOM"}
SPECIFICATION Spec
INVARIANT TypeOK ReadsLatest CoremapConsistent
