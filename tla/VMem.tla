-------------------------------- MODULE VMem --------------------------------
(***************************************************************************)
(* Demand paging with swap (vmem/coremap.cc, userprog/address_space.cc,    *)
(* PageFaultExeption in userprog/exception.cc), built with USE_TLB,        *)
(* DEMAND_LOADING, SWAP and PRPOLICY_FIFO, PRPOLICY_CLOCK or neither (the  *)
(* random policy); the build is chosen in Init and never changes.          *)
(*                                                                         *)
(* Each address space runs one user thread.  A thread leaves the CPU on a  *)
(* timer interrupt while in user mode (Yield), when it sleeps on the disk  *)
(* (the swap WriteAt of a victim, the swap or executable ReadAt of a       *)
(* page), and when it exits.  Every switch runs SaveState of the old space *)
(* and RestoreState of the new one, so the TLB only ever holds entries of  *)
(* the running thread.  SynchDisk serves requests in order and the ready   *)
(* list is FIFO.  WriteAt copies the frame when it is called; ReadAt       *)
(* copies into the frame after the disk returns.                           *)
(*                                                                         *)
(* Memory contents are abstracted to <<space, vpn, version>>: the version  *)
(* counts the writes the owner made to that page, and Zero is a zero-filled *)
(* frame.  The `use` bit of an entry is set by the MMU on every access and *)
(* read only by PRPOLICY_CLOCK.                                            *)
(***************************************************************************)
EXTENDS Naturals, Sequences, FiniteSets, SequencesExt

CONSTANTS
    Spaces,          \* address spaces, one user thread each
    NumPages,        \* pages per address space (equal for all)
    ExePages,        \* vpns that hold code or initialized data
    NUM_PHYS_PAGES,  \* frames of main memory
    TLB_SIZE,        \* TLB entries
    MaxWrites,       \* bound on the writes to one page
    MaxAccess,       \* bound on the memory accesses of one thread
    NoSpace,         \* nullptr
    Policies         \* the builds checked: "FIFO", "CLOCK", "RANDOM"

Pages == 0 .. NumPages - 1
Frames == 0 .. NUM_PHYS_PAGES - 1
Slots == 0 .. TLB_SIZE - 1

ASSUME /\ NoSpace \notin Spaces /\ ExePages \subseteq Pages
       /\ NUM_PHYS_PAGES > 0 /\ TLB_SIZE > 0
       /\ Policies \subseteq {"FIFO", "CLOCK", "RANDOM"} /\ Policies # {}

Zero == <<NoSpace, 0, 0>>
Content == ({Zero} \cup (Spaces \X Pages \X (0 .. MaxWrites)))

\* A TranslationEntry: a page-table or a TLB entry.
PTE == [vpn : Pages, frame : Frames \cup {-1}, valid : BOOLEAN, dirty : BOOLEAN,
        use : BOOLEAN]

VARIABLES
    pageTable,  \* pageTable[s][v]: the TranslationEntry of page v of s
    tlb,        \* machine->GetMMU()->tlb
    tlbIndex,   \* PageFaultExeption's static index
    coremap,    \* paginaMapa: framesMap bit, addrSpaces[], vpns[]
    mem,        \* the contents of each frame
    swap,       \* swap[s][v]: page v of the file SWAP.<pid of s>
    swapMap,    \* swapMap[s][v]: the swap file holds page v
    victima,    \* the global FIFO cursor
    ver,        \* ver[s][v]: writes made to page v of s (history)
    pc,         \* where each thread is
    loc,        \* fault locals: vpn, frame, victim space/vpn, read buffer
    done,       \* accesses each thread has completed
    cur,        \* currentThread, or NoSpace while the CPU idles
    readyQ,     \* the scheduler's ready list
    diskQ,      \* threads asleep on a disk request, oldest first
    policy      \* the PRPOLICY_ the kernel was built with

vars == <<pageTable, tlb, tlbIndex, coremap, mem, swap, swapMap, victima,
          ver, pc, loc, done, cur, readyQ, diskQ, policy>>

PCs == {"User", "EvWrite", "EvFinish", "Load", "LdRead", "Exited"}

\* The latest contents of page v of s: a stack page never written reads as
\* zeros, every other page as its last write (version 0: the executable).
Expected(s, v) ==
    IF ver[s][v] = 0 /\ v \notin ExePages THEN Zero ELSE <<s, v, ver[s][v]>>

InvalidEntry == [vpn |-> 0, frame |-> -1, valid |-> FALSE, dirty |-> FALSE,
                 use |-> FALSE]
NoLoc == [vpn |-> 0, frame |-> 0, vspace |-> NoSpace, vvpn |-> 0, buf |-> Zero]

\* AddressSpace::AddressSpace under DEMAND_LOADING: every page invalid,
\* a fresh swap bitmap; the machine starts with an empty TLB and coremap.
Init ==
    /\ pageTable = [s \in Spaces |-> [v \in Pages |->
                        [InvalidEntry EXCEPT !.vpn = v]]]
    /\ tlb = [i \in Slots |-> InvalidEntry]
    /\ tlbIndex = 0
    /\ coremap = [f \in Frames |-> [marked |-> FALSE, space |-> NoSpace,
                                     vpn |-> 0]]
    /\ mem = [f \in Frames |-> Zero]
    /\ swap = [s \in Spaces |-> [v \in Pages |-> Zero]]
    /\ swapMap = [s \in Spaces |-> [v \in Pages |-> FALSE]]
    /\ victima = 0
    /\ ver = [s \in Spaces |-> [v \in Pages |-> 0]]
    /\ pc = [s \in Spaces |-> "User"]
    /\ loc = [s \in Spaces |-> NoLoc]
    /\ done = [s \in Spaces |-> 0]
    /\ cur = NoSpace
    /\ readyQ \in SetToSeqs(Spaces)
    /\ diskQ = <<>>
    /\ policy \in Policies
-----------------------------------------------------------------------------
\* The TLB slots holding a valid entry for page v (Translate searches them
\* in order and uses the first).
Hits(t, v) == {i \in Slots : t[i].valid /\ t[i].vpn = v}

\* The TLB with every entry invalidated (SaveState, RestoreState).
Flushed(t) == [i \in Slots |-> [t[i] EXCEPT !.valid = FALSE]]

\* Fault-injected variant: SaveState that only invalidates the TLB.
SaveStateNoCopy(pt, t) == pt

\* AddressSpace::SaveState: the dirty and use bits of every valid TLB entry
\* are copied into the page table (a later slot overwrites an earlier one).
SaveState(pt, t) ==
    [v \in Pages |-> IF Hits(t, v) = {} THEN pt[v]
                     ELSE LET e == t[Max(Hits(t, v))]
                          IN [pt[v] EXCEPT !.dirty = e.dirty, !.use = e.use]]

\* Fault-injected variant: the switch leaves the TLB as it was.
SwitchOutNoFlush(s, pt, t, q) ==
    /\ pageTable' = [pageTable EXCEPT ![s] = SaveState(pt, t)]
    /\ tlb' = t
    /\ cur' = IF q = <<>> THEN NoSpace ELSE Head(q)
    /\ readyQ' = IF q = <<>> THEN q ELSE Tail(q)

\* Thread s gives up the CPU with page table pt and TLB t: SaveState, then
\* the head of the ready list q runs (RestoreState), or the CPU idles.
SwitchOut(s, pt, t, q) ==
    /\ pageTable' = [pageTable EXCEPT ![s] = SaveState(pt, t)]
    /\ tlb' = Flushed(t)
    /\ cur' = IF q = <<>> THEN NoSpace ELSE Head(q)
    /\ readyQ' = IF q = <<>> THEN q ELSE Tail(q)

\* s sleeps on a disk request.
Block(s, pt, t) ==
    /\ diskQ' = Append(diskQ, s)
    /\ SwitchOut(s, pt, t, readyQ)

\* Fault-injected variant: the static index is not wrapped at TLB_SIZE.
RefillNoWrap(s, v, pt) ==
    LET e   == tlb[tlbIndex]
        pt2 == IF e.valid THEN [pt EXCEPT ![e.vpn] = e] ELSE pt
    IN
    /\ pageTable' = [pageTable EXCEPT ![s] = pt2]
    /\ tlb' = [tlb EXCEPT ![tlbIndex] = pt2[v]]
    /\ tlbIndex' = tlbIndex + 1

\* The end of PageFaultExeption, with s's page table pt: the entry at the
\* static index is written back if valid, replaced by page v's entry, and
\* the index advances.
Refill(s, v, pt) ==
    LET e   == tlb[tlbIndex]
        pt2 == IF e.valid THEN [pt EXCEPT ![e.vpn] = e] ELSE pt
    IN
    /\ pageTable' = [pageTable EXCEPT ![s] = pt2]
    /\ tlb' = [tlb EXCEPT ![tlbIndex] = pt2[v]]
    /\ tlbIndex' = (tlbIndex + 1) % TLB_SIZE

Running(s) == cur = s /\ pc[s] = "User" /\ done[s] < MaxAccess

\* A user load from page v that hits in the TLB: the entry is marked used.
ReadMem(s, v) ==
    /\ Running(s) /\ Hits(tlb, v) # {}
    /\ tlb' = [tlb EXCEPT ![Min(Hits(tlb, v))].use = TRUE]
    /\ done' = [done EXCEPT ![s] = @ + 1]
    /\ UNCHANGED <<pageTable, tlbIndex, coremap, mem, swap, swapMap,
                   victima, ver, pc, loc, cur, readyQ, diskQ>>

\* A user store to page v that hits in the TLB: the frame changes and the
\* entry turns used and dirty.
WriteMem(s, v) ==
    LET i == Min(Hits(tlb, v)) IN
    /\ Running(s) /\ Hits(tlb, v) # {} /\ ver[s][v] < MaxWrites
    /\ ver' = [ver EXCEPT ![s][v] = @ + 1]
    /\ mem' = [mem EXCEPT ![tlb[i].frame] = <<s, v, ver[s][v] + 1>>]
    /\ tlb' = [tlb EXCEPT ![i].dirty = TRUE, ![i].use = TRUE]
    /\ done' = [done EXCEPT ![s] = @ + 1]
    /\ UNCHANGED <<pageTable, tlbIndex, coremap, swap, swapMap, victima, pc,
                   loc, cur, readyQ, diskQ>>

\* Coremap::Find: the first clear frame of framesMap, or none.
FreeFrames == {f \in Frames : ~coremap[f].marked}

\* PickVictim under PRPOLICY_FIFO: the cursor's frame ...
PickVictim == victima

\* Fault-injected variant: the cursor is not taken modulo NUM_PHYS_PAGES.
NextVictimNoWrap == victima + 1

\* ... and the cursor advances.
NextVictim == (victima + 1) % NUM_PHYS_PAGES

\* AddressSpace::TLBSearch: the valid TLB slots on frame `victima` (the
\* first one is used), ...
TLBSearchSlots == {j \in Slots : tlb[j].valid /\ tlb[j].frame = victima}

\* ... else, if the coremap gives victima an owner, the entry of the page it
\* holds in the page table of s, the space running PickVictim; else nullptr.
TLBSearchFound == TLBSearchSlots # {} \/ coremap[victima].space # NoSpace

TLBSearch(s) ==
    IF TLBSearchSlots # {} THEN tlb[Min(TLBSearchSlots)]
    ELSE IF coremap[victima].space # NoSpace
    THEN pageTable[s][coremap[victima].vpn]
    ELSE InvalidEntry

\* The loops of PickVictim under PRPOLICY_CLOCK, at round `round` and frame
\* counter p, with `use` the entry's use bit as the loop has left it.  Every
\* iteration calls TLBSearch, which looks at frame victima whatever p is,
\* so only the rounds and the counter vary.  Rounds 1 and 3 take a clean
\* unused entry, rounds 2 and 4 a dirty unused one, and round 2 clears the
\* use bit of an entry it passes; after round 4 the cursor advances.
RECURSIVE ClockScan(_, _, _, _)
ClockScan(s, round, p, use) ==
    LET dirty == TLBSearch(s).dirty IN
    IF round = 5
    THEN [victim |-> (victima + 1) % NUM_PHYS_PAGES,
          next |-> (victima + 1) % NUM_PHYS_PAGES, use |-> use]
    ELSE IF p = NUM_PHYS_PAGES + victima
    THEN ClockScan(s, round + 1, victima, use)
    ELSE IF TLBSearchFound /\ ~use /\ dirty = (round \in {2, 4})
    THEN [victim |-> p % NUM_PHYS_PAGES, next |-> (p + 1) % NUM_PHYS_PAGES,
          use |-> use]
    ELSE ClockScan(s, round, p + 1,
                   IF TLBSearchFound /\ round = 2 THEN FALSE ELSE use)

\* PickVictim under PRPOLICY_CLOCK, called by s: the victim, the cursor
\* after it, and the TLB and s's page table once the entry TLBSearch
\* returned holds the use bit the loops left.
PickVictimClock(s) ==
    LET c == ClockScan(s, 1, victima, TLBSearch(s).use)
        J == TLBSearchSlots
    IN [victim |-> c.victim, next |-> c.next,
        tlb |-> IF J # {} THEN [tlb EXCEPT ![Min(J)].use = c.use] ELSE tlb,
        pt |-> IF J = {} /\ coremap[victima].space # NoSpace
               THEN [pageTable[s] EXCEPT ![coremap[victima].vpn].use = c.use]
               ELSE pageTable[s]]

\* The outcomes PickVictim of the build may have.  Under PRPOLICY_FIFO and
\* the random policy (no PRPOLICY_ defined: random() % NUM_PHYS_PAGES, any
\* frame, the cursor untouched) nothing else changes.
Picks(s) ==
    CASE policy = "CLOCK" -> {PickVictimClock(s)}
      [] policy = "FIFO"  -> {[victim |-> PickVictim, next |-> NextVictim,
                               tlb |-> tlb, pt |-> pageTable[s]]}
      [] policy = "RANDOM" -> {[victim |-> f, next |-> victima, tlb |-> tlb,
                                pt |-> pageTable[s]] : f \in Frames}

\* Fault-injected variant: the owner is recorded but framesMap is not marked.
MarkNoBit(f, s, v) ==
    [coremap EXCEPT ![f] = [marked |-> FALSE, space |-> s, vpn |-> v]]

\* Coremap::Mark (and the owner recording of Coremap::Find): frame f is
\* marked in framesMap and owned by page v of s.
Mark(f, s, v) == [coremap EXCEPT ![f] = [marked |-> TRUE, space |-> s, vpn |-> v]]

\* A user access to page v misses in the TLB: PageFaultExeption.  A valid
\* page only refills the TLB.  Otherwise LoadPage takes a free frame
\* (Coremap::Find records the owner at once), or SustitucionEnSwapDeMarco-
\* Victima picks a victim and EscribirFrameenSwap starts: the victim's TLB
\* entry is copied into pageTable[vpn] and invalidated, and a dirty page is
\* written to its owner's swap file, which puts the thread to sleep.
PageFault(s, v) ==
    /\ Running(s) /\ Hits(tlb, v) = {}
    /\ IF pageTable[s][v].valid
       THEN /\ Refill(s, v, pageTable[s])
            /\ UNCHANGED <<coremap, mem, swap, victima, pc, loc, cur, readyQ,
                           diskQ>>
       ELSE IF FreeFrames # {}
       THEN LET f == Min(FreeFrames) IN
            /\ coremap' = Mark(f, s, v)
            /\ pc' = [pc EXCEPT ![s] = "Load"]
            /\ loc' = [loc EXCEPT ![s] = [NoLoc EXCEPT !.vpn = v, !.frame = f]]
            /\ UNCHANGED <<pageTable, tlb, tlbIndex, mem, swap, victima, cur,
                           readyQ, diskQ>>
       ELSE \E pv \in Picks(s) :
            LET f   == pv.victim
                vs  == coremap[f].space   \* GetAddressSpace(frame)
                vv  == coremap[f].vpn     \* GetVpn(frame)
                I   == {i \in Slots : pv.tlb[i].frame = f /\ pv.tlb[i].valid}
                pt1 == IF I = {} THEN pv.pt
                       ELSE [pv.pt EXCEPT ![vv] = pv.tlb[Min(I)]]
                t1  == IF I = {} THEN pv.tlb
                       ELSE [pv.tlb EXCEPT ![Min(I)].valid = FALSE]
            IN
            /\ victima' = pv.next
            /\ loc' = [loc EXCEPT ![s] = [vpn |-> v, frame |-> f, vspace |-> vs,
                                          vvpn |-> vv, buf |-> Zero]]
            /\ IF pt1[vv].dirty
               THEN /\ swap' = [swap EXCEPT ![vs][vv] = mem[f]]
                    /\ pc' = [pc EXCEPT ![s] = "EvWrite"]
                    /\ Block(s, pt1, t1)
               ELSE /\ pageTable' = [pageTable EXCEPT ![s] = pt1]
                    /\ tlb' = t1
                    /\ pc' = [pc EXCEPT ![s] = "EvFinish"]
                    /\ UNCHANGED <<swap, cur, readyQ, diskQ>>
            /\ UNCHANGED <<tlbIndex, coremap, mem>>
    /\ UNCHANGED <<swapMap, ver, done>>

\* Fault-injected variant: the victim's entry is cleaned but left valid.
EvFinishKeepValid(s) ==
    LET l == loc[s] IN
    /\ cur = s /\ pc[s] \in {"EvWrite", "EvFinish"}
    /\ swapMap' = IF pc[s] = "EvWrite"
                  THEN [swapMap EXCEPT ![l.vspace][l.vvpn] = TRUE]
                  ELSE swapMap
    /\ pageTable' = [pageTable EXCEPT ![s][l.vvpn].dirty = FALSE]
    /\ coremap' = Mark(l.frame, s, l.vpn)
    /\ pc' = [pc EXCEPT ![s] = "Load"]
    /\ UNCHANGED <<tlb, tlbIndex, mem, swap, victima, ver, loc, done, cur,
                   readyQ, diskQ>>

\* The rest of EscribirFrameenSwap, after the swap write returned or when
\* the victim was clean: the owner's swapMap records the page, the entry
\* pageTable[vpn] is cleaned and invalidated, and Coremap::Mark gives the
\* frame to the faulting page.
EvFinish(s) ==
    LET l == loc[s] IN
    /\ cur = s /\ pc[s] \in {"EvWrite", "EvFinish"}
    /\ swapMap' = IF pc[s] = "EvWrite"
                  THEN [swapMap EXCEPT ![l.vspace][l.vvpn] = TRUE]
                  ELSE swapMap
    /\ pageTable' = [pageTable EXCEPT ![s][l.vvpn].dirty = FALSE,
                                      ![s][l.vvpn].valid = FALSE]
    /\ coremap' = Mark(l.frame, s, l.vpn)
    /\ pc' = [pc EXCEPT ![s] = "Load"]
    /\ UNCHANGED <<tlb, tlbIndex, mem, swap, victima, ver, loc, done, cur,
                   readyQ, diskQ>>

\* LoadPage once it has a frame: the entry points at the frame and turns
\* valid, the frame is zero-filled, and the page is read from the swap file
\* if swapMap has it, else from the executable if it holds code or data
\* (both put the thread to sleep); a stack page stays zero and the handler
\* refills the TLB at once.
LoadIssue(s) ==
    LET v   == loc[s].vpn
        f   == loc[s].frame
        pt1 == [pageTable[s] EXCEPT ![v].frame = f, ![v].valid = TRUE]
    IN
    /\ cur = s /\ pc[s] = "Load"
    /\ mem' = [mem EXCEPT ![f] = Zero]
    /\ IF swapMap[s][v] \/ v \in ExePages
       THEN /\ loc' = [loc EXCEPT ![s].buf = IF swapMap[s][v] THEN swap[s][v]
                                             ELSE <<s, v, 0>>]
            /\ pc' = [pc EXCEPT ![s] = "LdRead"]
            /\ Block(s, pt1, tlb)
            /\ UNCHANGED tlbIndex
       ELSE /\ Refill(s, v, pt1)
            /\ pc' = [pc EXCEPT ![s] = "User"]
            /\ UNCHANGED <<loc, cur, readyQ, diskQ>>
    /\ UNCHANGED <<coremap, swap, swapMap, victima, ver, done>>

\* The read returned: ReadAt copies the page into the frame, and the
\* handler refills the TLB from the page's entry as it is now.
LoadDone(s) ==
    /\ cur = s /\ pc[s] = "LdRead"
    /\ mem' = [mem EXCEPT ![loc[s].frame] = loc[s].buf]
    /\ Refill(s, loc[s].vpn, pageTable[s])
    /\ pc' = [pc EXCEPT ![s] = "User"]
    /\ UNCHANGED <<coremap, swap, swapMap, victima, ver, loc, done, cur,
                   readyQ, diskQ>>

\* The timer interrupts s in user mode and another thread is ready: Yield.
Preempt(s) ==
    /\ cur = s /\ pc[s] = "User" /\ readyQ # <<>>
    /\ SwitchOut(s, pageTable[s], tlb, Append(readyQ, s))
    /\ UNCHANGED <<tlbIndex, coremap, mem, swap, swapMap, victima, ver, pc,
                   loc, done, diskQ>>

\* The oldest disk request completes and its thread becomes ready.
DiskDone ==
    /\ diskQ # <<>>
    /\ readyQ' = Append(readyQ, Head(diskQ))
    /\ diskQ' = Tail(diskQ)
    /\ UNCHANGED <<pageTable, tlb, tlbIndex, coremap, mem, swap, swapMap,
                   victima, ver, pc, loc, done, cur>>

\* The idle CPU runs the head of the ready list (RestoreState).
Dispatch ==
    /\ cur = NoSpace /\ readyQ # <<>>
    /\ cur' = Head(readyQ)
    /\ readyQ' = Tail(readyQ)
    /\ tlb' = Flushed(tlb)
    /\ UNCHANGED <<pageTable, tlbIndex, coremap, mem, swap, swapMap, victima,
                   ver, pc, loc, done, diskQ>>

\* SC_EXIT: the thread finishes (SaveState on the switch) and
\* AddressSpace::~AddressSpace clears the frame of every valid page.
Exit(s) ==
    LET owned == {pageTable[s][v].frame : v \in {w \in Pages :
                                             pageTable[s][w].valid}}
    IN
    /\ cur = s /\ pc[s] = "User" /\ done[s] = MaxAccess
    /\ coremap' = [f \in Frames |-> IF f \in owned
                                    THEN [coremap[f] EXCEPT !.marked = FALSE,
                                                            !.space = NoSpace]
                                    ELSE coremap[f]]
    /\ pc' = [pc EXCEPT ![s] = "Exited"]
    /\ SwitchOut(s, pageTable[s], tlb, readyQ)
    /\ UNCHANGED <<tlbIndex, mem, swap, swapMap, victima, ver, loc, done,
                   diskQ>>

\* Every program has exited.
Finished == \A s \in Spaces : pc[s] = "Exited"

Next ==
    /\ UNCHANGED policy
    /\ \/ \E s \in Spaces, v \in Pages : ReadMem(s, v) \/ WriteMem(s, v)
                                         \/ PageFault(s, v)
       \/ \E s \in Spaces : EvFinish(s) \/ LoadIssue(s) \/ LoadDone(s)
                            \/ Preempt(s) \/ Exit(s)
       \/ DiskDone \/ Dispatch
       \/ Finished /\ UNCHANGED vars

Spec == Init /\ [][Next]_vars

-----------------------------------------------------------------------------
TypeOK ==
    /\ pageTable \in [Spaces -> [Pages -> PTE]]
    /\ tlb \in [Slots -> PTE]
    /\ tlbIndex \in Slots
    /\ policy \in Policies
    /\ coremap \in [Frames -> [marked : BOOLEAN, space : Spaces \cup {NoSpace},
                               vpn : Pages]]
    /\ mem \in [Frames -> Content]
    /\ swap \in [Spaces -> [Pages -> Content]]
    /\ swapMap \in [Spaces -> [Pages -> BOOLEAN]]
    /\ victima \in Frames
    /\ pc \in [Spaces -> PCs]
    /\ cur \in Spaces \cup {NoSpace}
    /\ readyQ \in Seq(Spaces) /\ diskQ \in Seq(Spaces)

\* Every translation the running thread's TLB offers leads to the latest
\* contents of that page: a page written, evicted to swap and loaded again
\* (through LoadPage, EscribirFrameenSwap, SaveState and the TLB refill)
\* reads back what was last written to it.
ReadsLatest ==
    \A i \in Slots : tlb[i].valid =>
        /\ tlb[i].frame \in Frames
        /\ mem[tlb[i].frame] = Expected(cur, tlb[i].vpn)

\* The coremap is the reverse of the page tables: the frame of every valid
\* page of a live address space is marked and recorded as owned by that
\* very page, so no frame is mapped by two pages and eviction through
\* GetAddressSpace/GetVpn finds the page that really uses the frame.
CoremapConsistent ==
    \A s \in Spaces, v \in Pages :
        pc[s] # "Exited" /\ pageTable[s][v].valid =>
            LET f == pageTable[s][v].frame IN
            /\ f \in Frames /\ coremap[f].marked
            /\ coremap[f].space = s /\ coremap[f].vpn = v
=============================================================================
