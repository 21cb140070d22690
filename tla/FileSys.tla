------------------------------ MODULE FileSys ------------------------------
(***************************************************************************)
(* The file system manager's open-file lifecycle (filesys/file_system.cc,  *)
(* filesys/open_file.cc): Create, Open, Close (OpenFile destructor),       *)
(* Remove with its deferred-deletion protocol, Write and Read with their  *)
(* chains of file headers, CreateDir and ChangeDir (SC_CD), run by        *)
(* concurrent kernel threads that share one current directory.            *)
(*                                                                         *)
(* Nachos runs one thread at a time; a thread loses the CPU only where it  *)
(* blocks (disk I/O through SynchDisk, a contended lock, a condition wait) *)
(* or where a semaphore re-enables interrupts and the timer preempts it    *)
(* (-rs).  Each action below is one such atomic segment of one thread.     *)
(* A disk read copies the sector when it is issued, a disk write stores it *)
(* when issued; the thread then sleeps until the disk interrupt.  So every *)
(* FetchFrom/WriteBack takes effect at the start of its segment and ends   *)
(* it.  The bitmap, the directory and the file headers are modelled as     *)
(* their on-disk contents plus the in-memory copy each thread fetched.     *)
(***************************************************************************)
EXTENDS Naturals, Sequences, FiniteSets
LOCAL INSTANCE SequencesExt

CONSTANTS
    Threads,      \* kernel threads issuing file-system calls
    Names,        \* names the file calls (Create, Open, Remove) use
    DirNames,     \* names the directory calls (CreateDir, ChangeDir) use
    NumSectors,   \* NUM_SECTORS: sectors 0..NumSectors-1 on the disk
    MaxOps,       \* bound on the calls each thread makes
    InitFiles,    \* sequence of names created, one after another, at boot
    Ops,          \* the calls each thread's routine issues (subsets of OpNames)
    NUM_DIR_ENTRIES, \* entries of a freshly formatted directory table
    Registered,   \* threads whose tId is a key of threadUPS
    NUM_DIRECT,   \* data sectors per file header (raw_file_header.hh:11)
    WriteSizes,   \* sizes, in sectors, that a Write or Read call may ask for
    DirSectors,   \* data sectors of a new directory table (DIRECTORY_FILE_SIZE)
    FdTableSize,  \* OpenFiles a thread's opFD table can hold
    NoThread, NoSector, Null

\* "RemoveAbs" and "CreateAbs" are Remove and Create of "/" followed by a
\* name: the file in the root.  "RemoveDirArg" is SC_REMOVE with its
\* isDirectory argument set.
OpNames == {"Create", "Open", "Read", "Remove", "RemoveAbs", "RemoveDirArg", "Write",
            "CreateAbs", "CreateDir", "ChangeDir", "Ls"}

ASSUME /\ NumSectors \in Nat /\ NumSectors > 2
       /\ MaxOps \in Nat
       /\ InitFiles \in Seq(Names) /\ Len(InitFiles) <= NumSectors - 2
       /\ NUM_DIR_ENTRIES \in Nat /\ Len(InitFiles) <= NUM_DIR_ENTRIES
       /\ Ops \in [Threads -> SUBSET OpNames]
       /\ Registered \subseteq Threads
       /\ NUM_DIRECT \in Nat \ {0} /\ WriteSizes \subseteq Nat \ {0}
       /\ DirSectors \in Nat /\ FdTableSize \in Nat

\* FREE_MAP_SECTOR and DIRECTORY_SECTOR (file_system.cc:59-60).  The data
\* sectors of the bitmap and directory files are folded into these two.
FREE_MAP_SECTOR == 0
DIRECTORY_SECTOR == 1
Sectors == 0..NumSectors-1

VARIABLES
    freeMap,   \* on-disk free-sector bitmap: the set of marked sectors
    dirs,      \* on-disk directory table held by each directory header sector
    dfiles,    \* OpenFile objects of directories: sector, and whether not deleted
    cwd,       \* FileSystem::directoryFile: index into dfiles, 0 for nullptr
    directorySize, \* FileSystem::directorySize: entries of the current table
    hdr,       \* on-disk file header at a sector: data sectors, nextFileHeader
    reg,       \* tableDeArchivosAbierta: per-sector registration record
    locks,     \* Lock objects ever created: holder and whether not deleted
    fsLock,    \* holder of filesysCreateLock
    mbox,      \* removeChannel of each thread: number of queued messages
    sendQ,     \* senders sleeping on the channel's BloqueanteSend
    recvWait,  \* the channel owner sleeps on BloqueanteReceive
    pc,        \* program counter of each thread
    loc,       \* locals of each thread's current call
    handles,   \* OpenFile objects each thread holds, in the order opened
    ops,       \* calls issued so far by each thread
    fault      \* "none", or the failed ASSERT / invalid access that aborted

\* The current directory and the tables: what ChangeDir, CreateDir and the
\* directory write-backs change.
dirVars == <<dirs, dfiles, cwd>>

vars == <<freeMap, dirVars, directorySize, hdr, reg, locks, fsLock, mbox, sendQ, recvWait,
          pc, loc, handles, ops, fault>>

D == INSTANCE Directory WITH Names <- Names \cup DirNames

DirEntry == D!Entry(Sectors)

Faults == {"assert", "null_deref", "use_after_free", "double_free"}

LockObj == [holder : Threads \cup {NoThread}, alive : BOOLEAN]

RegRec == [removed : BOOLEAN, removing : BOOLEAN, count : Nat,
           remover : Threads \cup {NoThread},
           removeLock : Nat \cup {Null}, writeLock : Nat \cup {Null},
           closeLock : Nat \cup {Null}]

(* Sizes are in whole sectors: a header's numBytes is its number of data  *)
(* sectors, and seekPosition counts sectors from the start of the header   *)
(* currentSector names.  nextFileHeader 0 ends a chain.                    *)
HeaderRec == [data : SUBSET Sectors, next : Sectors]
NoHeader == [data |-> {}, next |-> 0]

\* An OpenFile object: its file's first header (`sector`), currentSector,
\* seekPosition and the in-memory header `hdr` (open_file.cc:27-31).
\* `offset` is the spec's current seek offset (spec 4.4: Read and Write
\* start there and advance it by what they transfer); the code keeps no
\* such field, so it is a history variable the properties read.
Handle == [sec : Sectors, cur : Sectors, seek : 0..NUM_DIRECT, mem : HeaderRec,
           offset : Nat]

\* The labels of the segments a thread runs.
Labels == {"Idle", "OpCheck", "OpCtor", "ClDec", "ClCheck", "ClSend",
           "ClDelete", "RmFind", "RmLock", "RmCheck", "RmMap", "RmMark",
           "RmRecv", "RmDealloc", "RmChain", "RmDir", "RmFin", "RmDone", "CrFind",
           "CrAlloc", "CrMap", "CrDir", "CrReg", "WrLock", "WrMap", "WrAlloc",
           "WrHdr", "WrData", "WrNext", "WrNextHdr", "WrFind", "WrFirstHdr",
           "WrLink", "WrChainData", "WrMoreHdr", "WrMoreLink", "RdNext",
           "CdFind", "CdOpen", "CdCtor", "CdSize", "CdSet", "CdRootCtor", "CdRootSet",
           "MdFind", "MdAlloc", "MdMap", "MdNew", "MdDir",
           "RaCtor", "RaSet", "BkSize", "BkDirSize"}

Loc == [name : Names \cup DirNames, sec : Sectors \cup {NoSector},
        dsnap : Seq(DirEntry),
        msnap : SUBSET Sectors, hsnap : HeaderRec,
        obj : Nat \cup {Null}, dest : Threads \cup {NoThread},
        h : Nat, n : Nat, cur : Sectors, seek : Nat, btw : Nat,
        iter : Sectors, secs : Seq(Sectors), fhs : Nat, k : Nat,
        prev : HeaderRec, res : Nat, df : Nat, bak : Nat, ret : Labels,
        abs : BOOLEAN, rel : Sectors \cup {NoSector}]

-----------------------------------------------------------------------------
(* Helpers *)

\* Thread t runs the segment at label l; nothing runs once Nachos aborted.
At(t, l) == fault = "none" /\ pc[t] = l

Goto(t, l) == pc' = [pc EXCEPT ![t] = l]
Return(t) == Goto(t, "Idle")

\* Bitmap::Find on an in-memory copy: the lowest clear bit, or NoSector.
FindClear(map) == IF Sectors \ map = {} THEN NoSector ELSE Min(Sectors \ map)

\* A fresh Lock object (lock.cc:24-29) is appended; its id is its index.
NewLockId(k) == Len(locks) + k
NewLocks(n) == [i \in 1..n |-> [holder |-> NoThread, alive |-> TRUE]]

\* Lock::Release (lock.cc:53-60) through the pointer `o`: the caller must be
\* its holder (ASSERT), the object must still exist.
ReleaseOutcome(o, t) ==
    CASE o = Null                -> "null_deref"
      [] ~locks[o].alive         -> "use_after_free"
      [] locks[o].holder # t     -> "assert"
      [] OTHER                   -> "none"

Release(o, t) ==
    IF ReleaseOutcome(o, t) = "none"
    THEN /\ locks' = [locks EXCEPT ![o].holder = NoThread]
         /\ fault' = fault
    ELSE /\ fault' = ReleaseOutcome(o, t)
         /\ locks' = locks

\* The registration record Create writes for a fresh file
\* (file_system.cc:272-277); `rl` is the new remove lock.
FreshReg(old, rl) ==
    [old EXCEPT !.removed = FALSE, !.removing = FALSE, !.count = 0,
                !.removeLock = rl, !.writeLock = Null, !.closeLock = Null]

InitReg ==
    [removed |-> FALSE, removing |-> FALSE, count |-> 0, remover |-> NoThread,
     removeLock |-> Null, writeLock |-> Null, closeLock |-> Null]

\* The record of the root directory: the constructor of the boot-time
\* directoryFile (file_system.cc:104, open_file.cc:25-46) created its three
\* locks and counted it open.
RootReg == [InitReg EXCEPT !.count = 1, !.writeLock = 1, !.removeLock = 2,
                           !.closeLock = 3]

\* Sector of the i-th boot-time file: Create takes the lowest clear sector.
BootSector(i) == DIRECTORY_SECTOR + i
BootFiles == {BootSector(i) : i \in 1..Len(InitFiles)}
\* The formatted table of NUM_DIR_ENTRIES free entries (file_system.cc:76,
\* 117-122) after the boot Creates took its first slots.
BootDir == [i \in 1..NUM_DIR_ENTRIES |->
              IF i <= Len(InitFiles)
              THEN [inUse |-> TRUE, name |-> InitFiles[i], sector |-> BootSector(i),
                    isDir |-> FALSE]
              ELSE D!FreeEntry]

\* Directory::Add calls fileSystem->SetDirectorySize when it grew the
\* table (directory.cc:182).
SetDirectorySize(old, new) ==
    IF Len(new) > Len(old) THEN directorySize' = Len(new)
    ELSE UNCHANGED directorySize

\* The table in the file directoryFile names.
CwdTable == IF cwd = 0 THEN <<>> ELSE dirs[dfiles[cwd].sec]

\* new Directory(directorySize) ASSERTs a positive size, and FetchFrom
\* ASSERTs directoryFile != nullptr (directory.cc:40, 61).
DirFetchOK == cwd # 0 /\ directorySize > 0

\* What `new Directory(directorySize)` and FetchFrom(directoryFile) read.
CurrentTable == D!FetchFrom(CwdTable, directorySize)

\* dir->WriteBack(directoryFile) of table tb (directory.cc:77-86, which
\* ASSERTs a non-null file), into whatever directory directoryFile names
\* when it runs.
WriteCurrent(tb) == dirs' = [dirs EXCEPT ![dfiles[cwd].sec] = D!WriteBack(@, tb)]

\* Nachos aborts (a failed ASSERT, an invalid access): nothing else happens.
Abort(f) ==
    /\ fault' = f
    /\ UNCHANGED <<freeMap, dirVars, directorySize, hdr, reg, locks, fsLock, mbox, sendQ,
                   recvWait, pc, loc, handles, ops>>

-----------------------------------------------------------------------------
Init ==
    /\ freeMap = {FREE_MAP_SECTOR, DIRECTORY_SECTOR} \cup BootFiles
    /\ dirs = [s \in Sectors |-> IF s = DIRECTORY_SECTOR THEN BootDir ELSE <<>>]
    /\ dfiles = <<[sec |-> DIRECTORY_SECTOR, alive |-> TRUE]>>
    /\ cwd = 1
    /\ directorySize = NUM_DIR_ENTRIES
    /\ hdr = [s \in Sectors |-> NoHeader]
    /\ reg = [s \in Sectors |->
                IF s \in BootFiles
                THEN FreshReg(InitReg, 3 + CHOOSE i \in 1..Len(InitFiles) : BootSector(i) = s)
                ELSE IF s = DIRECTORY_SECTOR THEN RootReg
                ELSE InitReg]
    /\ locks = NewLocks(3 + Len(InitFiles))
    /\ fsLock = NoThread
    /\ mbox = [t \in Threads |-> 0]
    /\ sendQ = [t \in Threads |-> <<>>]
    /\ recvWait = [t \in Threads |-> FALSE]
    /\ pc = [t \in Threads |-> "Idle"]
    /\ loc = [t \in Threads |->
                [name |-> CHOOSE n \in Names : TRUE, sec |-> NoSector,
                 dsnap |-> BootDir, msnap |-> {}, hsnap |-> NoHeader,
                 obj |-> Null, dest |-> NoThread,
                 h |-> 0, n |-> 0, cur |-> 0, seek |-> 0, btw |-> 0,
                 iter |-> 0, secs |-> <<>>, fhs |-> 0, k |-> 0,
                 prev |-> NoHeader, res |-> 0, df |-> 0, bak |-> 0, ret |-> "Idle",
                 abs |-> FALSE, rel |-> NoSector]]
    /\ handles = [t \in Threads |-> <<>>]
    /\ ops = [t \in Threads |-> 0]
    /\ fault = "none"

-----------------------------------------------------------------------------
(***************************************************************************)
(* FileSystem::Open (file_system.cc:564-581) and the OpenFile constructor  *)
(* (open_file.cc:25-46).                                                   *)
(***************************************************************************)

\* new Directory(directorySize), FetchFrom and Find: the entry for n is
\* read, then the thread sleeps.
OpenFetchDir(t, n) ==
    /\ At(t, "Idle") /\ "Open" \in Ops[t] /\ ops[t] < MaxOps
    /\ IF ~DirFetchOK THEN Abort("assert")
       ELSE /\ loc' = [loc EXCEPT ![t].name = n, ![t].sec = D!Find(CurrentTable, n)]
            /\ ops' = [ops EXCEPT ![t] = @ + 1]
            /\ Goto(t, "OpCheck")
            /\ UNCHANGED <<freeMap, dirVars, directorySize, hdr, reg, locks, fsLock,
                           mbox, sendQ, recvWait, handles, fault>>

\* Find, the `removing` test, and the constructor's header fetch.
OpCheck(t) ==
    LET s == loc[t].sec IN
    /\ At(t, "OpCheck")
    /\ IF s = NoSector \/ reg[s].removing
       THEN Return(t)
       ELSE Goto(t, "OpCtor")
    /\ UNCHANGED <<freeMap, dirVars, directorySize, hdr, reg, locks, fsLock, mbox, sendQ,
                   recvWait, loc, handles, ops, fault>>

\* Fault-injected variant: count is incremented only by the first opener,
\* as if `count++` sat inside the `count == 0` branch.
OpenFileCtorCountOnce(s) ==
    LET r     == reg[s]
        first == r.count = 0
        needRl == first /\ r.removeLock = Null
        needCl == first /\ r.closeLock = Null
        rl    == IF needRl THEN NewLockId(2) ELSE r.removeLock
        cl    == IF needCl THEN NewLockId(IF needRl THEN 3 ELSE 2) ELSE r.closeLock
        n     == IF first THEN 1 + (IF needRl THEN 1 ELSE 0) + (IF needCl THEN 1 ELSE 0)
                 ELSE 0
    IN
    /\ locks' = locks \o NewLocks(n)
    /\ reg' = [reg EXCEPT ![s].count = IF first THEN @ + 1 ELSE @,
                          ![s].writeLock = IF first THEN NewLockId(1) ELSE @,
                          ![s].removeLock = rl, ![s].closeLock = cl]

\* The OpenFile constructor's registration (open_file.cc:33-45) for
\* sector s: the first opener creates the write lock, and the remove and
\* close locks if absent; every opener increments count.
OpenFileCtor(s) ==
    LET r     == reg[s]
        first == r.count = 0
        needRl == first /\ r.removeLock = Null
        needCl == first /\ r.closeLock = Null
        rl    == IF needRl THEN NewLockId(2) ELSE r.removeLock
        cl    == IF needCl THEN NewLockId(IF needRl THEN 3 ELSE 2) ELSE r.closeLock
        n     == IF first THEN 1 + (IF needRl THEN 1 ELSE 0) + (IF needCl THEN 1 ELSE 0)
                 ELSE 0
    IN
    /\ locks' = locks \o NewLocks(n)
    /\ reg' = [reg EXCEPT ![s].count = @ + 1,
                          ![s].writeLock = IF first THEN NewLockId(1) ELSE @,
                          ![s].removeLock = rl, ![s].closeLock = cl]

\* SC_OPEN puts the new OpenFile in the caller's opFD table
\* (exception.cc:439-447); a full table (Table::Add returns -1) makes it
\* `delete file`, which runs the destructor (label ClDec) and returns -1.
FdAdd(t, h) ==
    IF Len(handles[t]) < FdTableSize
    THEN /\ handles' = [handles EXCEPT ![t] = Append(@, h)]
         /\ Return(t) /\ UNCHANGED loc
    ELSE /\ loc' = [loc EXCEPT ![t].ret = "Idle"]
         /\ Goto(t, "ClDec") /\ UNCHANGED handles

\* The constructor registers the file; the handle goes to the fd table.
OpCtor(t) ==
    LET s == loc[t].sec IN
    /\ At(t, "OpCtor")
    /\ OpenFileCtor(s)
    /\ FdAdd(t, [sec |-> s, cur |-> s, seek |-> 0, mem |-> hdr[s], offset |-> 0])
    /\ UNCHANGED <<freeMap, dirVars, directorySize, hdr, fsLock, mbox, sendQ, recvWait,
                   ops, fault>>

-----------------------------------------------------------------------------
(***************************************************************************)
(* OpenFile::~OpenFile (open_file.cc:49-78): Close.                        *)
(***************************************************************************)

\* The destructor returns to its caller: SC_CLOSE, or the ChangeDir that
\* deleted a directory's OpenFile (label `ret`).
CloseReturn(t) == Goto(t, loc[t].ret)

\* SC_CLOSE (exception.cc:387-411) deletes handle i.
CloseStart(t, i) ==
    /\ At(t, "Idle") /\ i \in DOMAIN handles[t]
    /\ handles' = [handles EXCEPT ![t] = RemoveAt(@, i)]
    /\ loc' = [loc EXCEPT ![t].sec = handles[t][i].sec, ![t].ret = "Idle"]
    /\ Goto(t, "ClDec")
    /\ UNCHANGED <<freeMap, dirVars, directorySize, hdr, reg, locks, fsLock, mbox, sendQ,
                   recvWait, ops, fault>>

\* Fault-injected variant: the destructor tests `count > 1` (off by one),
\* so the last closer never brings count back to 0.
ClDecOffByOne(t) ==
    LET s == loc[t].sec
        o == reg[s].closeLock
    IN
    /\ At(t, "ClDec")
    /\ IF o = Null
       THEN /\ fault' = "null_deref" /\ UNCHANGED <<reg, pc>>
       ELSE IF ~locks[o].alive
       THEN /\ fault' = "use_after_free" /\ UNCHANGED <<reg, pc>>
       ELSE /\ locks[o].holder = NoThread
            /\ fault' = fault
            /\ IF reg[s].count > 1
               THEN /\ reg' = [reg EXCEPT ![s].count = @ - 1]
                    /\ Goto(t, "ClCheck")
               ELSE /\ reg' = reg
                    /\ CloseReturn(t)
    /\ UNCHANGED <<freeMap, dirVars, directorySize, hdr, locks, fsLock, mbox, sendQ, recvWait,
                   loc, handles, ops>>

\* closeLock->Acquire(); decrement count if positive; closeLock->Release().
ClDec(t) ==
    LET s == loc[t].sec
        o == reg[s].closeLock
    IN
    /\ At(t, "ClDec")
    /\ IF o = Null
       THEN /\ fault' = "null_deref" /\ UNCHANGED <<reg, pc>>
       ELSE IF ~locks[o].alive
       THEN /\ fault' = "use_after_free" /\ UNCHANGED <<reg, pc>>
       ELSE /\ locks[o].holder = NoThread
            /\ fault' = fault
            /\ IF reg[s].count > 0
               THEN /\ reg' = [reg EXCEPT ![s].count = @ - 1]
                    /\ Goto(t, "ClCheck")
               ELSE /\ reg' = reg
                    /\ CloseReturn(t)
    /\ UNCHANGED <<freeMap, dirVars, directorySize, hdr, locks, fsLock, mbox, sendQ, recvWait,
                   loc, handles, ops>>

\* Deleting the write lock through the record's current pointer.
DeleteWriteLock(s) ==
    LET o == reg[s].writeLock IN
    IF o = Null THEN UNCHANGED <<locks, fault>>
    ELSE IF ~locks[o].alive
    THEN /\ fault' = "double_free" /\ locks' = locks
    ELSE /\ locks' = [locks EXCEPT ![o].alive = FALSE] /\ fault' = fault

\* Fault-injected variant: the writeLock is deleted by every closer, as if
\* the `count == 0` test at open_file.cc:64 were missing.
ClCheckAlwaysDelete(t) ==
    /\ At(t, "ClCheck")
    /\ DeleteWriteLock(loc[t].sec)
    /\ CloseReturn(t)
    /\ UNCHANGED <<freeMap, dirVars, directorySize, hdr, reg, fsLock, mbox, sendQ, recvWait,
                   loc, handles, ops>>

\* count re-read after the release; the last closer of a file under removal
\* sends 0 on the remover's channel if threadUPS has the remover's id
\* (Channel::Send, channel.cc:37-59: append, signal a sleeping receiver,
\* then wait while the mailbox is non-empty and its head equals the head
\* seen; every message here is 0).  Otherwise a last closer deletes the
\* write lock at once.
ClCheck(t) ==
    LET s == loc[t].sec
        c == reg[s].remover
    IN
    /\ At(t, "ClCheck")
    /\ IF reg[s].count = 0 /\ reg[s].removing /\ c \in Registered
       THEN /\ mbox' = [mbox EXCEPT ![c] = @ + 1]
            /\ recvWait' = [recvWait EXCEPT ![c] = FALSE]
            /\ sendQ' = [sendQ EXCEPT ![c] = Append(@, t)]
            /\ loc' = [loc EXCEPT ![t].dest = c]
            /\ Goto(t, "ClSend")
            /\ UNCHANGED <<locks, fault>>
       ELSE /\ IF reg[s].count = 0 THEN DeleteWriteLock(s)
                                   ELSE UNCHANGED <<locks, fault>>
            /\ CloseReturn(t)
            /\ UNCHANGED <<mbox, recvWait, sendQ, loc>>
    /\ UNCHANGED <<freeMap, dirVars, directorySize, hdr, reg, fsLock, handles, ops>>

\* A sender woken by a Receive's Signal (it has left sendQ) re-tests the
\* loop condition: it waits again while a message is still queued.
ClSend(t) ==
    LET c == loc[t].dest IN
    /\ At(t, "ClSend")
    /\ ~\E i \in 1..Len(sendQ[c]) : sendQ[c][i] = t
    /\ IF mbox[c] > 0
       THEN /\ sendQ' = [sendQ EXCEPT ![c] = Append(@, t)]
            /\ UNCHANGED pc
       ELSE /\ sendQ' = sendQ
            /\ Goto(t, "ClDelete")
    /\ UNCHANGED <<freeMap, dirVars, directorySize, hdr, reg, locks, fsLock, mbox, recvWait,
                   loc, handles, ops, fault>>

\* After Send returns: delete tableDeArchivosAbierta[sector]->writeLock.
ClDelete(t) ==
    /\ At(t, "ClDelete")
    /\ DeleteWriteLock(loc[t].sec)
    /\ CloseReturn(t)
    /\ UNCHANGED <<freeMap, dirVars, directorySize, hdr, reg, fsLock, mbox, sendQ, recvWait,
                   loc, handles, ops>>

-----------------------------------------------------------------------------
(***************************************************************************)
(* FileSystem::Remove (file_system.cc:620-764).  With an absolute name    *)
(* ("/" and a name) it first keeps directoryFile in directoryFileBackup    *)
(* and switches to the root with ChangeDir("/", false); every return path *)
(* switches back.  No lock is taken for either switch.                     *)
(***************************************************************************)

\* `delete o` of a directory's OpenFile: nothing for nullptr; a second
\* delete of the same object is a double free; otherwise the destructor
\* runs (label ClDec) and returns to label ret.  `df` is dfiles as the
\* caller left it, `l` the caller's locals.
DeleteDirFile(t, o, df, l, ret) ==
    CASE o = 0 ->
            /\ dfiles' = df /\ loc' = [loc EXCEPT ![t] = l]
            /\ Goto(t, ret) /\ UNCHANGED fault
      [] ~df[o].alive ->
            fault' = "double_free" /\ UNCHANGED <<dfiles, loc, pc>>
      [] OTHER ->
            /\ dfiles' = [df EXCEPT ![o].alive = FALSE]
            /\ loc' = [loc EXCEPT ![t] = [l EXCEPT !.sec = df[o].sec, !.ret = ret]]
            /\ Goto(t, "ClDec") /\ UNCHANGED fault

\* Fault-injected variant: the switch back deletes directoryFileBackup
\* instead of the OpenFile switched to.
RmReturnDeleteBackup(t, l) ==
    IF l.abs
    THEN /\ cwd' = l.bak
         /\ DeleteDirFile(t, l.bak, dfiles, l, "BkSize")
    ELSE /\ loc' = [loc EXCEPT ![t] = l] /\ Return(t)
         /\ UNCHANGED <<dfiles, cwd, fault>>

\* The switch back of an absolute Remove or Create with locals l:
\* directoryFile = directoryFileBackup, and the OpenFile switched to is
\* deleted (label ClDec); then the table size is re-read (label BkSize).
SwitchBack(t, l) ==
    /\ cwd' = l.bak
    /\ DeleteDirFile(t, cwd, dfiles, l, "BkSize")

\* A return path of Remove with locals l: an absolute Remove switches back.
RmReturn(t, l) ==
    IF l.abs
    THEN SwitchBack(t, l)
    ELSE /\ loc' = [loc EXCEPT ![t] = l] /\ Return(t)
         /\ UNCHANGED <<dfiles, cwd, fault>>

\* Directory FetchFrom into a private copy that is written back at the end.
RmFetchDir(t, n) ==
    /\ At(t, "Idle") /\ "Remove" \in Ops[t] /\ ops[t] < MaxOps
    /\ IF ~DirFetchOK THEN Abort("assert")
       ELSE /\ loc' = [loc EXCEPT ![t].name = n, ![t].dsnap = CurrentTable,
                                  ![t].abs = FALSE]
            /\ ops' = [ops EXCEPT ![t] = @ + 1]
            /\ Goto(t, "RmFind")
            /\ UNCHANGED <<freeMap, dirVars, directorySize, hdr, reg, locks, fsLock,
                           mbox, sendQ, recvWait, handles, fault>>

\* Remove("/" and n): directoryFileBackup = directoryFile; ChangeDir("/",
\* false) creates an OpenFile of the root, whose constructor fetches the
\* header.
RmAbsStart(t, n) ==
    /\ At(t, "Idle") /\ "RemoveAbs" \in Ops[t] /\ ops[t] < MaxOps
    /\ loc' = [loc EXCEPT ![t].name = n, ![t].bak = cwd, ![t].abs = TRUE,
                          ![t].rel = NoSector, ![t].ret = "RmFind"]
    /\ ops' = [ops EXCEPT ![t] = @ + 1]
    /\ Goto(t, "RaCtor")
    /\ UNCHANGED <<freeMap, dirVars, directorySize, hdr, reg, locks, fsLock, mbox, sendQ,
                   recvWait, handles, fault>>

\* The constructor registers the root; FetchFrom(rootDirFile, 1) reads its
\* size (ChangeDirRootPath, file_system.cc:447-452).  The currDir fetch
\* that follows reads a table no component is looked up in.
RaCtor(t) ==
    /\ At(t, "RaCtor")
    /\ OpenFileCtor(DIRECTORY_SECTOR)
    /\ dfiles' = Append(dfiles, [sec |-> DIRECTORY_SECTOR, alive |-> TRUE])
    /\ loc' = [loc EXCEPT ![t].df = Len(dfiles) + 1, ![t].n = Len(dirs[DIRECTORY_SECTOR])]
    /\ Goto(t, "RaSet")
    /\ UNCHANGED <<freeMap, dirs, cwd, directorySize, hdr, fsLock, mbox, sendQ, recvWait,
                   handles, ops, fault>>

\* directoryFile = rootDirFile and directorySize = tableSize, with no path
\* component to walk; back in Remove or Create (label ret), new
\* Directory(directorySize) and FetchFrom(directoryFile) read the root's
\* table into the copy.
RaSet(t) ==
    LET l == loc[t] IN
    /\ At(t, "RaSet")
    /\ cwd' = l.df
    /\ directorySize' = l.n
    /\ loc' = [loc EXCEPT ![t].dsnap = D!FetchFrom(dirs[DIRECTORY_SECTOR], l.n),
                          ![t].n = 0]
    /\ Goto(t, l.ret)
    /\ UNCHANGED <<freeMap, dirs, dfiles, hdr, reg, locks, fsLock, mbox, sendQ, recvWait,
                   handles, ops, fault>>

\* Fault-injected variant: the removeLock Acquire of file_system.cc:679-681
\* left out.
RmFindNoAcquire(t) ==
    LET s == D!Find(loc[t].dsnap, loc[t].name) IN
    /\ At(t, "RmFind")
    /\ IF s = NoSector
       THEN RmReturn(t, loc[t])
       ELSE /\ loc' = [loc EXCEPT ![t].sec = s, ![t].obj = reg[s].removeLock]
            /\ Goto(t, "RmCheck")
            /\ UNCHANGED <<dfiles, cwd, fault>>
    /\ UNCHANGED <<freeMap, dirs, directorySize, hdr, reg, locks, fsLock, mbox, sendQ,
                   recvWait, handles, ops>>

\* Find in the copy; not found returns false; otherwise call Acquire on the
\* remove lock the record points to now, if it has one.
RmFind(t) ==
    LET s == D!Find(loc[t].dsnap, loc[t].name) IN
    /\ At(t, "RmFind")
    /\ IF s = NoSector
       THEN RmReturn(t, loc[t])
       ELSE /\ loc' = [loc EXCEPT ![t].sec = s, ![t].obj = reg[s].removeLock]
            /\ Goto(t, IF reg[s].removeLock = Null THEN "RmCheck" ELSE "RmLock")
            /\ UNCHANGED <<dfiles, cwd, fault>>
    /\ UNCHANGED <<freeMap, dirs, directorySize, hdr, reg, locks, fsLock, mbox, sendQ,
                   recvWait, handles, ops>>

\* The Acquire returns once the lock object it was called on is free.
RmLock(t) ==
    LET o == loc[t].obj IN
    /\ At(t, "RmLock")
    /\ IF ~locks[o].alive
       THEN fault' = "use_after_free" /\ UNCHANGED <<locks, pc>>
       ELSE /\ locks[o].holder = NoThread
            /\ locks' = [locks EXCEPT ![o].holder = t]
            /\ fault' = fault
            /\ Goto(t, "RmCheck")
    /\ UNCHANGED <<freeMap, dirVars, directorySize, hdr, reg, fsLock, mbox, sendQ, recvWait,
                   loc, handles, ops>>

\* Already removed: release and return false (an absolute Remove switches
\* back before it releases).  Otherwise fetch the header.
RmCheck(t) ==
    LET s == loc[t].sec IN
    /\ At(t, "RmCheck")
    /\ IF reg[s].removed
       THEN IF loc[t].abs
            THEN RmReturn(t, [loc[t] EXCEPT !.rel = s]) /\ UNCHANGED locks
            ELSE /\ Release(reg[s].removeLock, t)
                 /\ Return(t)
                 /\ UNCHANGED <<loc, dfiles, cwd>>
       ELSE /\ loc' = [loc EXCEPT ![t].hsnap = hdr[s]]
            /\ Goto(t, "RmMap")
            /\ UNCHANGED <<locks, fault, dfiles, cwd>>
    /\ UNCHANGED <<freeMap, dirs, directorySize, hdr, reg, fsLock, mbox, sendQ, recvWait,
                   handles, ops>>

\* freeMap->FetchFrom into a private copy.
RmMap(t) ==
    /\ At(t, "RmMap")
    /\ loc' = [loc EXCEPT ![t].msnap = freeMap]
    /\ Goto(t, "RmMark")
    /\ UNCHANGED <<freeMap, dirVars, directorySize, hdr, reg, locks, fsLock, mbox, sendQ,
                   recvWait, handles, ops, fault>>

\* Channel::Receive's body once the mailbox is non-empty: pop, and signal
\* the first sleeping sender (channel.cc:74-76).
TakeMessage(t) ==
    /\ mbox' = [mbox EXCEPT ![t] = @ - 1]
    /\ sendQ' = [sendQ EXCEPT ![t] = IF @ = <<>> THEN @ ELSE Tail(@)]

\* Fault-injected variant: Receive called whether or not the file is open.
RmMarkAlwaysReceive(t) ==
    LET s == loc[t].sec IN
    /\ At(t, "RmMark")
    /\ reg' = [reg EXCEPT ![s].removing = TRUE, ![s].remover = t]
    /\ IF mbox[t] > 0
       THEN TakeMessage(t) /\ Goto(t, "RmDealloc") /\ UNCHANGED recvWait
       ELSE /\ recvWait' = [recvWait EXCEPT ![t] = TRUE]
            /\ Goto(t, "RmRecv")
            /\ UNCHANGED <<mbox, sendQ>>
    /\ UNCHANGED <<freeMap, dirVars, directorySize, hdr, locks, fsLock, loc, handles, ops, fault>>

\* Fault-injected variant: the count > 0 test (file_system.cc:713) left
\* out; Remove never waits for the open handles.
RmMarkNoWait(t) ==
    LET s == loc[t].sec IN
    /\ At(t, "RmMark")
    /\ reg' = [reg EXCEPT ![s].removing = TRUE, ![s].remover = t]
    /\ Goto(t, "RmDealloc")
    /\ UNCHANGED <<freeMap, dirVars, directorySize, hdr, locks, fsLock, mbox, sendQ, recvWait,
                   loc, handles, ops, fault>>

\* Mark removing; if the file is open, Receive on the own channel.
RmMark(t) ==
    LET s == loc[t].sec IN
    /\ At(t, "RmMark")
    /\ reg' = [reg EXCEPT ![s].removing = TRUE, ![s].remover = t]
    /\ IF reg[s].count > 0
       THEN IF mbox[t] > 0
            THEN TakeMessage(t) /\ Goto(t, "RmDealloc") /\ UNCHANGED recvWait
            ELSE /\ recvWait' = [recvWait EXCEPT ![t] = TRUE]
                 /\ Goto(t, "RmRecv")
                 /\ UNCHANGED <<mbox, sendQ>>
       ELSE Goto(t, "RmDealloc") /\ UNCHANGED <<mbox, sendQ, recvWait>>
    /\ UNCHANGED <<freeMap, dirVars, directorySize, hdr, locks, fsLock, loc, handles, ops, fault>>

\* Woken by a Send's Signal, the receiver re-tests the empty mailbox.
RmRecv(t) ==
    /\ At(t, "RmRecv") /\ ~recvWait[t]
    /\ IF mbox[t] > 0
       THEN TakeMessage(t) /\ Goto(t, "RmDealloc") /\ UNCHANGED recvWait
       ELSE /\ recvWait' = [recvWait EXCEPT ![t] = TRUE]
            /\ UNCHANGED <<mbox, sendQ, pc>>
    /\ UNCHANGED <<freeMap, dirVars, directorySize, hdr, reg, locks, fsLock, loc, handles, ops,
                   fault>>

\* Fault-injected variant: freeMap->Clear of the header sectors
\* (file_system.cc:722, 727) left out.
RmFreeChainKeepHeader(t, l, s) ==
    LET m == l.msnap \ l.hsnap.data IN
    IF l.hsnap.next # 0
    THEN /\ loc' = [loc EXCEPT ![t].msnap = m, ![t].iter = l.hsnap.next,
                               ![t].hsnap = hdr[l.hsnap.next]]
         /\ Goto(t, "RmChain") /\ UNCHANGED freeMap
    ELSE /\ freeMap' = m /\ Goto(t, "RmDir") /\ UNCHANGED loc

\* fileH->Deallocate and freeMap->Clear of header sector `s` in the bitmap
\* copy; then the next header of the chain is fetched, or at its end the
\* copy is written back (file_system.cc:721-733).  The first header's
\* nextFileHeader is the one read before the wait for the last Close.
RmFreeChain(t, l, s) ==
    LET m == (l.msnap \ l.hsnap.data) \ {s} IN
    IF l.hsnap.next # 0
    THEN /\ loc' = [loc EXCEPT ![t].msnap = m, ![t].iter = l.hsnap.next,
                               ![t].hsnap = hdr[l.hsnap.next]]
         /\ Goto(t, "RmChain") /\ UNCHANGED freeMap
    ELSE /\ freeMap' = m /\ Goto(t, "RmDir") /\ UNCHANGED loc

RmDealloc(t) ==
    /\ At(t, "RmDealloc")
    /\ RmFreeChain(t, loc[t], loc[t].sec)
    /\ UNCHANGED <<dirVars, directorySize, hdr, reg, locks, fsLock, mbox, sendQ, recvWait,
                   handles, ops, fault>>

\* The header fetched from nextSector is freed in turn.
RmChain(t) ==
    /\ At(t, "RmChain")
    /\ RmFreeChain(t, loc[t], loc[t].iter)
    /\ UNCHANGED <<dirVars, directorySize, hdr, reg, locks, fsLock, mbox, sendQ, recvWait,
                   handles, ops, fault>>

\* dir->Remove(name) on the copy, then write the copy back.
RmDir(t) ==
    /\ At(t, "RmDir")
    /\ IF cwd = 0 THEN Abort("assert")
       ELSE /\ WriteCurrent(D!Remove(loc[t].dsnap, loc[t].name))
            /\ Goto(t, "RmFin")
            /\ UNCHANGED <<freeMap, dfiles, cwd, directorySize, hdr, reg, locks, fsLock,
                           mbox, sendQ, recvWait, loc, handles, ops, fault>>

\* removed = true; release the remove lock the record points to now.
RmFin(t) ==
    LET s == loc[t].sec IN
    /\ At(t, "RmFin")
    /\ reg' = [reg EXCEPT ![s].removed = TRUE]
    /\ IF reg[s].removeLock = Null THEN UNCHANGED <<locks, fault>>
                                   ELSE Release(reg[s].removeLock, t)
    /\ Goto(t, "RmDone")
    /\ UNCHANGED <<freeMap, dirVars, directorySize, hdr, fsLock, mbox, sendQ, recvWait, loc,
                   handles, ops>>

\* removing = false; return true.
RmDone(t) ==
    /\ At(t, "RmDone")
    /\ reg' = [reg EXCEPT ![loc[t].sec].removing = FALSE]
    /\ RmReturn(t, loc[t])
    /\ UNCHANGED <<freeMap, dirs, directorySize, hdr, locks, fsLock, mbox, sendQ, recvWait,
                   handles, ops>>

\* After the deletion of the OpenFile switched to: FetchFrom(directoryFile,
\* 1) of a dummy table reads the size of the table switched back to.
BkSize(t) ==
    /\ At(t, "BkSize")
    /\ IF cwd = 0 THEN Abort("assert")
       ELSE /\ loc' = [loc EXCEPT ![t].n = Len(CwdTable)]
            /\ Goto(t, "BkDirSize")
            /\ UNCHANGED <<freeMap, dirVars, directorySize, hdr, reg, locks, fsLock, mbox,
                           sendQ, recvWait, handles, ops, fault>>

\* Fault-injected variant: filesysCreateLock is not released after the
\* switch back.
BkDirSizeKeepLock(t) ==
    LET l == loc[t] IN
    /\ At(t, "BkDirSize")
    /\ directorySize' = l.n
    /\ IF l.rel # NoSector THEN Release(reg[l.rel].removeLock, t)
                           ELSE UNCHANGED <<locks, fault>>
    /\ fsLock' = fsLock
    /\ loc' = [loc EXCEPT ![t].n = 0, ![t].abs = FALSE, ![t].rel = NoSector]
    /\ Return(t)
    /\ UNCHANGED <<freeMap, dirVars, hdr, reg, mbox, sendQ, recvWait, handles, ops>>

\* directorySize = tableSize2.  On Remove's already-removed path (rel names
\* the file's sector) the remove lock is released only now, through the
\* record's current pointer; Create (the only caller holding it) releases
\* filesysCreateLock.
BkDirSize(t) ==
    LET l == loc[t] IN
    /\ At(t, "BkDirSize")
    /\ directorySize' = l.n
    /\ IF l.rel # NoSector THEN Release(reg[l.rel].removeLock, t)
                           ELSE UNCHANGED <<locks, fault>>
    /\ fsLock' = IF fsLock = t THEN NoThread ELSE fsLock
    /\ loc' = [loc EXCEPT ![t].n = 0, ![t].abs = FALSE, ![t].rel = NoSector]
    /\ Return(t)
    /\ UNCHANGED <<freeMap, dirVars, hdr, reg, mbox, sendQ, recvWait, handles, ops>>

-----------------------------------------------------------------------------
(***************************************************************************)
(* FileSystem::Create (file_system.cc:203-302), relative name.            *)
(***************************************************************************)

\* A return path of Create with locals l: a relative Create releases
\* filesysCreateLock and returns; an absolute one first switches back
\* (the release follows in label BkDirSize).
CrReturn(t, l) ==
    IF l.abs
    THEN SwitchBack(t, l) /\ UNCHANGED fsLock
    ELSE /\ fsLock' = NoThread /\ loc' = [loc EXCEPT ![t] = l] /\ Return(t)
         /\ UNCHANGED <<dfiles, cwd, fault>>

\* filesysCreateLock->Acquire(), then directory FetchFrom into a copy.
CrFetchDir(t, n) ==
    /\ At(t, "Idle") /\ "Create" \in Ops[t] /\ ops[t] < MaxOps
    /\ fsLock = NoThread
    /\ IF ~DirFetchOK THEN Abort("assert")
       ELSE /\ fsLock' = t
            /\ loc' = [loc EXCEPT ![t].name = n, ![t].dsnap = CurrentTable]
            /\ ops' = [ops EXCEPT ![t] = @ + 1]
            /\ Goto(t, "CrFind")
            /\ UNCHANGED <<freeMap, dirVars, directorySize, hdr, reg, locks, mbox, sendQ,
                           recvWait, handles, fault>>

\* Create("/" and n): filesysCreateLock->Acquire(); directoryFileBackup =
\* directoryFile; ChangeDir("/", false) as in Remove (label RaCtor), then
\* back to label CrFind.
CrAbsStart(t, n) ==
    /\ At(t, "Idle") /\ "CreateAbs" \in Ops[t] /\ ops[t] < MaxOps
    /\ fsLock = NoThread
    /\ fsLock' = t
    /\ loc' = [loc EXCEPT ![t].name = n, ![t].bak = cwd, ![t].abs = TRUE,
                          ![t].rel = NoSector, ![t].ret = "CrFind"]
    /\ ops' = [ops EXCEPT ![t] = @ + 1]
    /\ Goto(t, "RaCtor")
    /\ UNCHANGED <<freeMap, dirVars, directorySize, hdr, reg, locks, mbox, sendQ,
                   recvWait, handles, fault>>

\* Name present: fail.  Otherwise freeMap->FetchFrom.
CrFind(t) ==
    /\ At(t, "CrFind")
    /\ IF D!Find(loc[t].dsnap, loc[t].name) # NoSector
       THEN CrReturn(t, loc[t])
       ELSE /\ loc' = [loc EXCEPT ![t].msnap = freeMap]
            /\ Goto(t, "CrAlloc")
            /\ UNCHANGED <<fsLock, dfiles, cwd, fault>>
    /\ UNCHANGED <<freeMap, dirs, directorySize, hdr, reg, locks, mbox, sendQ, recvWait,
                   handles, ops>>

\* Find a clear sector in the copy (none: fail); Add to the directory copy
\* (it grows by one slot when full, so it cannot fail here; a grown slot's
\* isDirectory is whatever the heap held); write the empty header.
CrAlloc(t) ==
    LET s == FindClear(loc[t].msnap)
        new(junk) == D!Add(loc[t].dsnap, loc[t].name, s, FALSE, junk)
    IN
    /\ At(t, "CrAlloc")
    /\ IF s = NoSector
       THEN CrReturn(t, loc[t]) /\ UNCHANGED <<hdr, directorySize>>
       ELSE \E junk \in BOOLEAN :
            /\ hdr' = [hdr EXCEPT ![s] = NoHeader]
            /\ loc' = [loc EXCEPT ![t].sec = s, ![t].msnap = @ \cup {s},
                                  ![t].dsnap = new(junk)]
            /\ SetDirectorySize(loc[t].dsnap, new(junk))
            /\ Goto(t, "CrMap")
            /\ UNCHANGED <<fsLock, dfiles, cwd, fault>>
    /\ UNCHANGED <<freeMap, dirs, reg, locks, mbox, sendQ, recvWait, handles, ops>>

\* freeMap->WriteBack of the copy.
CrMap(t) ==
    /\ At(t, "CrMap")
    /\ freeMap' = loc[t].msnap
    /\ Goto(t, "CrDir")
    /\ UNCHANGED <<dirVars, directorySize, hdr, reg, locks, fsLock, mbox, sendQ, recvWait, loc,
                   handles, ops, fault>>

\* dir->WriteBack of the copy.
CrDir(t) ==
    /\ At(t, "CrDir")
    /\ IF cwd = 0 THEN Abort("assert")
       ELSE /\ WriteCurrent(loc[t].dsnap)
            /\ Goto(t, "CrReg")
            /\ UNCHANGED <<freeMap, dfiles, cwd, directorySize, hdr, reg, locks, fsLock,
                           mbox, sendQ, recvWait, loc, handles, ops, fault>>

\* Reset the sector's registration record with a new remove lock; return.
CrReg(t) ==
    LET s == loc[t].sec IN
    /\ At(t, "CrReg")
    /\ locks' = locks \o NewLocks(1)
    /\ reg' = [reg EXCEPT ![s] = FreshReg(@, NewLockId(1))]
    /\ CrReturn(t, loc[t])
    /\ UNCHANGED <<freeMap, dirs, directorySize, hdr, mbox, sendQ, recvWait, handles, ops>>

-----------------------------------------------------------------------------
(***************************************************************************)
(* OpenFile::Write (open_file.cc:156-385) of a regular file, in sectors.   *)
(* It fills the current header from seekPosition, then walks the rest of   *)
(* the chain, then links new headers.  The locals live in loc[t] and are  *)
(* stored into the OpenFile object when the call returns; nobody else     *)
(* reads them.  A WriteAt changes no modelled state: its sleep is merged  *)
(* with the disk operation before it.                                      *)
(***************************************************************************)

\* FileHeader::Allocate (spec 4.3; file_header.cc is not under src/) of n
\* sectors on a bitmap copy: the n lowest clear sectors, as n Finds take
\* them, or failure with nothing changed if fewer are clear.
CountClear(map) == Cardinality(Sectors \ map)
Claim(map, n) ==
    {s \in Sectors \ map : Cardinality({x \in Sectors \ map : x < s}) < n}
DivRoundUp(a, b) == (a + b - 1) \div b
MinOf(a, b) == IF a < b THEN a ELSE b

\* The return paths: release through the record's current pointer and
\* leave currentSector, seekPosition and hdr in the OpenFile object; the
\* result is what the WriteAt calls wrote.
WrFinish(t, l) ==
    /\ Release(reg[l.sec].writeLock, t)
    /\ handles' = [handles EXCEPT ![t][l.h] = [@ EXCEPT !.cur = l.cur, !.seek = l.seek,
                                                !.mem = l.hsnap, !.offset = @ + l.res]]
    /\ loc' = [loc EXCEPT ![t] = [l EXCEPT !.n = 0, !.btw = 0, !.iter = 0, !.res = 0,
                                  !.secs = <<>>, !.fhs = 0, !.k = 0, !.prev = NoHeader]]
    /\ Return(t)

\* With numBytes left and no next header: too few clear sectors for the
\* new headers returns; otherwise the first header sector is found and the
\* bitmap copy written back (open_file.cc:256-271).
WrNewChain(t, l) ==
    LET fhs == DivRoundUp(l.n, NUM_DIRECT)
        s   == FindClear(l.msnap)
    IN
    IF CountClear(l.msnap) < fhs
    THEN WrFinish(t, l) /\ UNCHANGED freeMap
    ELSE /\ freeMap' = l.msnap \cup {s}
         /\ loc' = [loc EXCEPT ![t] = [l EXCEPT !.msnap = @ \cup {s},
                                       !.secs = <<s>>, !.fhs = fhs]]
         /\ Goto(t, "WrFind")
         /\ UNCHANGED <<locks, fault, handles>>

\* The loop test of open_file.cc:218-219 and what follows it: fetch the
\* next header, or start new headers, or return.
WrContinue(t, l) ==
    IF l.n > 0 /\ l.hsnap.next # 0
    THEN /\ loc' = [loc EXCEPT ![t] = [l EXCEPT !.iter = l.hsnap.next,
                                       !.hsnap = hdr[l.hsnap.next]]]
         /\ Goto(t, "WrNext")
         /\ UNCHANGED <<freeMap, locks, fault, handles>>
    ELSE IF l.n > 0 THEN WrNewChain(t, l)
    ELSE WrFinish(t, l) /\ UNCHANGED freeMap

\* Handle i: writeLock->Acquire() is called on the object the record
\* points to now.
WrStart(t, i, n) ==
    LET hd == handles[t][i] IN
    /\ At(t, "Idle") /\ "Write" \in Ops[t] /\ ops[t] < MaxOps
    /\ i \in DOMAIN handles[t]
    /\ ops' = [ops EXCEPT ![t] = @ + 1]
    /\ IF reg[hd.sec].writeLock = Null
       THEN fault' = "null_deref" /\ UNCHANGED <<loc, pc>>
       ELSE /\ loc' = [loc EXCEPT ![t].sec = hd.sec, ![t].obj = reg[hd.sec].writeLock,
                                  ![t].h = i, ![t].n = n, ![t].cur = hd.cur,
                                  ![t].seek = hd.seek]
            /\ Goto(t, "WrLock")
            /\ UNCHANGED fault
    /\ UNCHANGED <<freeMap, dirVars, directorySize, hdr, reg, locks, fsLock, mbox, sendQ,
                   recvWait, handles>>

\* Acquire returns; hdr->FetchFrom(currentSector).
WrLock(t) ==
    LET o == loc[t].obj IN
    /\ At(t, "WrLock")
    /\ IF ~locks[o].alive
       THEN fault' = "use_after_free" /\ UNCHANGED <<locks, loc, pc>>
       ELSE /\ locks[o].holder = NoThread
            /\ locks' = [locks EXCEPT ![o].holder = t]
            /\ loc' = [loc EXCEPT ![t].hsnap = hdr[loc[t].cur]]
            /\ fault' = fault
            /\ Goto(t, "WrMap")
    /\ UNCHANGED <<freeMap, dirVars, directorySize, hdr, reg, fsLock, mbox, sendQ, recvWait,
                   handles, ops>>

\* freeMap->FetchFrom into a private copy.
WrMap(t) ==
    /\ At(t, "WrMap")
    /\ loc' = [loc EXCEPT ![t].msnap = freeMap]
    /\ Goto(t, "WrAlloc")
    /\ UNCHANGED <<freeMap, dirVars, directorySize, hdr, reg, locks, fsLock, mbox, sendQ,
                   recvWait, handles, ops, fault>>

WrFrame == UNCHANGED <<dirVars, directorySize, reg, fsLock, mbox, sendQ, recvWait, ops>>

\* Fault-injected variant: the grown bitmap copy is not written back.
WrGrowNoWriteBack(t, l, btw, need, next) ==
    LET new == Claim(l.msnap, need) IN
    IF CountClear(l.msnap) < need
    THEN WrFinish(t, l) /\ UNCHANGED freeMap
    ELSE /\ UNCHANGED freeMap
         /\ loc' = [loc EXCEPT ![t] = [l EXCEPT !.msnap = @ \cup new,
                                       !.hsnap.data = @ \cup new, !.btw = btw]]
         /\ Goto(t, next)
         /\ UNCHANGED <<locks, fault, handles>>

\* hdr->Allocate(freeMap, need) on the bitmap copy: failure releases the
\* write lock and returns; success writes the copy back and goes on to
\* write the header back (label `next`).
WrGrow(t, l, btw, need, next) ==
    LET new == Claim(l.msnap, need) IN
    IF CountClear(l.msnap) < need
    THEN WrFinish(t, l) /\ UNCHANGED freeMap
    ELSE /\ freeMap' = l.msnap \cup new
         /\ loc' = [loc EXCEPT ![t] = [l EXCEPT !.msnap = @ \cup new,
                                       !.hsnap.data = @ \cup new, !.btw = btw]]
         /\ Goto(t, next)
         /\ UNCHANGED <<locks, fault, handles>>

\* Fault-injected variant: bytesToWrite not capped by maxBytesToWrite.
BytesToWriteNoCap(l) == l.n

\* bytesToWrite: what fits in the current header after seekPosition
\* (open_file.cc:178-183).
BytesToWrite(l) == MinOf(l.n, NUM_DIRECT - l.seek)

\* The bitmap copy was fetched.  A write ending past the header's
\* allocation grows it by the difference; one within it goes straight to
\* WriteAt; a full header goes on to the chain (open_file.cc:185-213).
WrAlloc(t) ==
    LET l    == loc[t]
        btw  == BytesToWrite(l)
        need == l.seek + btw - Cardinality(l.hsnap.data)
    IN
    /\ At(t, "WrAlloc")
    /\ \/ btw > 0 /\ need > 0 /\ WrGrow(t, l, btw, need, "WrHdr")
       \/ /\ btw > 0 /\ need <= 0
          /\ loc' = [loc EXCEPT ![t].btw = btw]
          /\ Goto(t, "WrData")
          /\ UNCHANGED <<freeMap, locks, fault, handles>>
       \/ btw = 0 /\ WrContinue(t, l)
    /\ UNCHANGED hdr /\ WrFrame

\* hdr->WriteBack(currentSector), then WriteAt.
WrHdr(t) ==
    /\ At(t, "WrHdr")
    /\ hdr' = [hdr EXCEPT ![loc[t].cur] = loc[t].hsnap]
    /\ Goto(t, "WrData")
    /\ UNCHANGED <<freeMap, locks, loc, handles, fault>> /\ WrFrame

\* WriteAt returned: seekPosition and numBytes advance
\* (open_file.cc:205-214, 245-252); the chain loop goes on.
WrData(t) ==
    /\ At(t, "WrData")
    /\ WrContinue(t, [loc[t] EXCEPT !.seek = @ + loc[t].btw, !.n = @ - loc[t].btw,
                                    !.res = @ + loc[t].btw])
    /\ UNCHANGED hdr /\ WrFrame

\* Header iterFh was fetched.  bytesToWrite is capped by a whole header;
\* a header with fewer sectors is grown by the difference; otherwise
\* currentSector becomes iterFh and WriteAt starts at 0
\* (open_file.cc:218-244).
WrNext(t) ==
    LET l    == loc[t]
        btw  == MinOf(l.n, NUM_DIRECT)
        need == btw - Cardinality(l.hsnap.data)
    IN
    /\ At(t, "WrNext")
    /\ \/ need > 0 /\ WrGrow(t, l, btw, need, "WrNextHdr")
       \/ /\ need <= 0
          /\ loc' = [loc EXCEPT ![t].btw = btw, ![t].cur = l.iter, ![t].seek = 0]
          /\ Goto(t, "WrData")
          /\ UNCHANGED <<freeMap, locks, fault, handles>>
    /\ UNCHANGED hdr /\ WrFrame

\* hdr->WriteBack(iterFh); currentSector = iterFh; WriteAt from 0.
WrNextHdr(t) ==
    /\ At(t, "WrNextHdr")
    /\ hdr' = [hdr EXCEPT ![loc[t].iter] = loc[t].hsnap]
    /\ loc' = [loc EXCEPT ![t].cur = loc[t].iter, ![t].seek = 0]
    /\ Goto(t, "WrData")
    /\ UNCHANGED <<freeMap, locks, handles, fault>> /\ WrFrame

\* The loop over the new header sectors: Find one more and write the copy
\* back.  After it, the first new header gets min(numBytes, NUM_DIRECT)
\* sectors: failure returns, leaving the header sectors marked on disk;
\* success writes the copy back (open_file.cc:267-296).
WrFind(t) ==
    LET l   == loc[t]
        s   == FindClear(l.msnap)
        bta == MinOf(l.n, NUM_DIRECT)
        new == Claim(l.msnap, bta)
    IN
    /\ At(t, "WrFind")
    /\ \/ /\ Len(l.secs) < l.fhs
          /\ freeMap' = l.msnap \cup {s}
          /\ loc' = [loc EXCEPT ![t].msnap = @ \cup {s}, ![t].secs = Append(@, s)]
          /\ UNCHANGED <<pc, locks, fault, handles>>
       \/ /\ Len(l.secs) = l.fhs /\ CountClear(l.msnap) < bta
          /\ WrFinish(t, l) /\ UNCHANGED freeMap
       \/ /\ Len(l.secs) = l.fhs /\ CountClear(l.msnap) >= bta
          /\ freeMap' = l.msnap \cup new
          /\ loc' = [loc EXCEPT ![t].msnap = @ \cup new, ![t].btw = bta,
                                ![t].prev = [data |-> new, next |-> 0]]
          /\ Goto(t, "WrFirstHdr")
          /\ UNCHANGED <<locks, fault, handles>>
    /\ UNCHANGED hdr /\ WrFrame

\* firstHeader->WriteBack(sectors[0]).
WrFirstHdr(t) ==
    /\ At(t, "WrFirstHdr")
    /\ hdr' = [hdr EXCEPT ![loc[t].secs[1]] = loc[t].prev]
    /\ Goto(t, "WrLink")
    /\ UNCHANGED <<freeMap, locks, loc, handles, fault>> /\ WrFrame

\* hdr->nextFileHeader = sectors[0]; hdr->WriteBack(currentSector); the
\* first new header becomes hdr and WriteAt starts at 0
\* (open_file.cc:298-317).
WrLink(t) ==
    LET l == loc[t] IN
    /\ At(t, "WrLink")
    /\ hdr' = [hdr EXCEPT ![l.cur] = [l.hsnap EXCEPT !.next = l.secs[1]]]
    /\ loc' = [loc EXCEPT ![t].hsnap = l.prev, ![t].seek = 0, ![t].k = 1]
    /\ Goto(t, "WrChainData")
    /\ UNCHANGED <<freeMap, locks, handles, fault>> /\ WrFrame

\* WriteAt returned.  While headers remain, the next one is allocated what
\* is left, at most NUM_DIRECT and at most the clear sectors, and the copy
\* written back; none clear ends the loop.  Header sectors left unused are
\* cleared only in the copy, which is deleted, not written back.
\* currentSector becomes the last header linked (open_file.cc:319-380).
WrChainData(t) ==
    LET l   == [loc[t] EXCEPT !.seek = loc[t].btw, !.n = loc[t].n - loc[t].btw,
                              !.res = loc[t].res + loc[t].btw]
        bta == MinOf(MinOf(l.n, NUM_DIRECT), CountClear(l.msnap))
        new == Claim(l.msnap, bta)
    IN
    /\ At(t, "WrChainData")
    /\ \/ /\ l.k < l.fhs /\ bta > 0
          /\ freeMap' = l.msnap \cup new
          /\ loc' = [loc EXCEPT ![t] = [l EXCEPT !.msnap = @ \cup new, !.btw = bta,
                                        !.hsnap = [data |-> new, next |-> 0]]]
          /\ Goto(t, "WrMoreHdr")
          /\ UNCHANGED <<locks, fault, handles>>
       \/ /\ l.k = l.fhs \/ bta = 0
          /\ WrFinish(t, [l EXCEPT !.cur = l.secs[l.k]])
          /\ UNCHANGED freeMap
    /\ UNCHANGED hdr /\ WrFrame

\* newFileHeader->WriteBack(sectors[allocatedFileHeaders]).
WrMoreHdr(t) ==
    /\ At(t, "WrMoreHdr")
    /\ hdr' = [hdr EXCEPT ![loc[t].secs[loc[t].k + 1]] = loc[t].hsnap]
    /\ Goto(t, "WrMoreLink")
    /\ UNCHANGED <<freeMap, locks, loc, handles, fault>> /\ WrFrame

\* The previous header is linked to the new one and written back; the new
\* one becomes previousFileHeader and WriteAt starts at 0.
WrMoreLink(t) ==
    LET l == loc[t] IN
    /\ At(t, "WrMoreLink")
    /\ hdr' = [hdr EXCEPT ![l.secs[l.k]] = [l.prev EXCEPT !.next = l.secs[l.k + 1]]]
    /\ loc' = [loc EXCEPT ![t].prev = l.hsnap, ![t].k = l.k + 1, ![t].seek = 0]
    /\ Goto(t, "WrChainData")
    /\ UNCHANGED <<freeMap, locks, handles, fault>> /\ WrFrame

-----------------------------------------------------------------------------
(***************************************************************************)
(* SC_READ (exception.cc:297-345) on an open file: OpenFile::Read          *)
(* (open_file.cc:109-153) of a regular file, in sectors.  Read takes no    *)
(* lock and starts from the header already in memory (hdr), not from      *)
(* currentSector; it fetches each further header of the chain from disk.  *)
(* A ReadAt changes no modelled state: its sleep is merged with the        *)
(* header fetch before it.                                                 *)
(***************************************************************************)

\* OpenFile::ReadAt (open_file.cc:414-445) on a header of len sectors:
\* nothing at or past the end, otherwise clamped to the end.
ReadAt(len, n, position) ==
    IF position >= len THEN 0 ELSE MinOf(n, len - position)

\* Read returns: seekPosition and hdr stay in the OpenFile object;
\* currentSector is left as it was.
RdFinish(t, l) ==
    /\ handles' = [handles EXCEPT ![t][l.h] = [@ EXCEPT !.seek = l.seek, !.mem = l.hsnap,
                                                !.offset = @ + l.res]]
    /\ loc' = [loc EXCEPT ![t] = [l EXCEPT !.n = 0, !.iter = 0, !.res = 0]]
    /\ Return(t)

\* After a ReadAt: fetch the next header of the chain while bytes remain,
\* or return.
RdContinue(t, l) ==
    IF l.hsnap.next # 0 /\ l.n > 0
    THEN /\ loc' = [loc EXCEPT ![t] = [l EXCEPT !.iter = l.hsnap.next]]
         /\ Goto(t, "RdNext")
         /\ UNCHANGED handles
    ELSE RdFinish(t, l)

\* OpenFile::Read of n sectors through handle i of a regular file: a
\* request reaching past the end of the header in memory reads what it
\* holds from seekPosition and goes on along the chain; one within it is
\* a single ReadAt.
RdRead(t, i, n) ==
    LET hd == handles[t][i]
        r  == ReadAt(Cardinality(hd.mem.data), n, hd.seek)
        l  == [loc[t] EXCEPT !.h = i, !.n = n - r, !.seek = hd.seek + r, !.res = r,
                             !.hsnap = hd.mem]
    IN
    \/ hd.seek + n > Cardinality(hd.mem.data) /\ RdContinue(t, l)
    \/ hd.seek + n <= Cardinality(hd.mem.data) /\ RdFinish(t, l)

\* SC_READ on the fd of handle i.
RdStart(t, i, n) ==
    /\ At(t, "Idle") /\ "Read" \in Ops[t] /\ ops[t] < MaxOps
    /\ i \in DOMAIN handles[t]
    /\ ops' = [ops EXCEPT ![t] = @ + 1]
    /\ RdRead(t, i, n)
    /\ UNCHANGED <<freeMap, dirVars, directorySize, hdr, reg, locks, fsLock, mbox, sendQ,
                   recvWait, fault>>

\* hdr->FetchFrom(nextSector); ReadAt from position 0; seekPosition is
\* what was read from this header.
RdNext(t) ==
    LET l == loc[t]
        m == hdr[l.iter]
        r == ReadAt(Cardinality(m.data), l.n, 0)
    IN
    /\ At(t, "RdNext")
    /\ RdContinue(t, [l EXCEPT !.hsnap = m, !.seek = r, !.n = @ - r, !.res = @ + r])
    /\ UNCHANGED <<freeMap, dirVars, directorySize, hdr, reg, locks, fsLock, mbox, sendQ,
                   recvWait, ops, fault>>

-----------------------------------------------------------------------------
(***************************************************************************)
(* SC_CD (exception.cc:555-590): FileSystem::ChangeDir (file_system.cc:   *)
(* 526-535) with a relative name, ChangeDirRelativePath (499-524), or     *)
(* with "/", ChangeDirRootPath (440-497) with no component to walk.  No   *)
(* lock is taken: directoryFile and directorySize are switched while      *)
(* other threads' Create, Remove and Open use them.                        *)
(***************************************************************************)

CdFrame == UNCHANGED <<freeMap, dirs, hdr, fsLock, mbox, sendQ, recvWait, handles>>

\* new Directory(directorySize) and FetchFrom(directoryFile) of the
\* current table.
CdFetch(t, n) ==
    /\ At(t, "Idle") /\ "ChangeDir" \in Ops[t] /\ ops[t] < MaxOps
    /\ IF ~DirFetchOK THEN Abort("assert")
       ELSE /\ loc' = [loc EXCEPT ![t].name = n, ![t].dsnap = CurrentTable]
            /\ ops' = [ops EXCEPT ![t] = @ + 1]
            /\ Goto(t, "CdFind")
            /\ UNCHANGED <<dfiles, cwd, directorySize, reg, locks, fault>>
    /\ CdFrame

\* FindDir on the copy: no such subdirectory returns false.  Otherwise
\* Open(name) fetches the current table again and Finds the name.
CdFind(t) ==
    /\ At(t, "CdFind")
    /\ IF ~D!FindDir(loc[t].dsnap, loc[t].name) THEN Return(t) /\ UNCHANGED <<loc, fault>>
       ELSE IF ~DirFetchOK THEN Abort("assert")
       ELSE /\ loc' = [loc EXCEPT ![t].sec = D!Find(CurrentTable, loc[t].name)]
            /\ Goto(t, "CdOpen")
            /\ UNCHANGED fault
    /\ UNCHANGED <<dfiles, cwd, directorySize, reg, locks, ops>> /\ CdFrame

\* Open returns nullptr for a name not found or under removal; the code
\* does not test it: directoryFile becomes nullptr and the old one is
\* deleted.  Otherwise the constructor fetches the header.
CdOpen(t) ==
    LET s == loc[t].sec IN
    /\ At(t, "CdOpen")
    /\ IF s = NoSector \/ reg[s].removing
       THEN cwd' = 0 /\ DeleteDirFile(t, cwd, dfiles, loc[t], "CdSize")
       ELSE Goto(t, "CdCtor") /\ UNCHANGED <<dfiles, cwd, loc, fault>>
    /\ UNCHANGED <<directorySize, reg, locks, ops>> /\ CdFrame

\* The constructor registers the directory; directoryFile becomes the new
\* object and the one directoryFile names now is deleted.
CdCtor(t) ==
    LET df == Append(dfiles, [sec |-> loc[t].sec, alive |-> TRUE]) IN
    /\ At(t, "CdCtor")
    /\ OpenFileCtor(loc[t].sec)
    /\ cwd' = Len(df)
    /\ DeleteDirFile(t, cwd, df, loc[t], "CdSize")
    /\ UNCHANGED <<directorySize, ops>> /\ CdFrame

\* FetchFrom(directoryFile, 1) of a dummy table reads the new table's size.
CdSize(t) ==
    /\ At(t, "CdSize")
    /\ IF cwd = 0 THEN Abort("assert")
       ELSE /\ loc' = [loc EXCEPT ![t].n = Len(CwdTable)]
            /\ Goto(t, "CdSet")
            /\ UNCHANGED fault
    /\ UNCHANGED <<dfiles, cwd, directorySize, reg, locks, ops>> /\ CdFrame

\* directorySize = tableSize; return true.
CdSet(t) ==
    /\ At(t, "CdSet")
    /\ directorySize' = loc[t].n
    /\ loc' = [loc EXCEPT ![t].n = 0]
    /\ Return(t)
    /\ UNCHANGED <<dfiles, cwd, reg, locks, ops, fault>> /\ CdFrame

\* ChangeDir("/"): backupDirFile = directoryFile; new OpenFile of the root
\* fetches its header.
CdRoot(t) ==
    /\ At(t, "Idle") /\ "ChangeDir" \in Ops[t] /\ ops[t] < MaxOps
    /\ loc' = [loc EXCEPT ![t].bak = cwd]
    /\ ops' = [ops EXCEPT ![t] = @ + 1]
    /\ Goto(t, "CdRootCtor")
    /\ UNCHANGED <<dfiles, cwd, directorySize, reg, locks, fault>> /\ CdFrame

\* The constructor registers the root; FetchFrom(rootDirFile, 1) reads its
\* size.  The currDir fetch that follows reads a table no component of
\* "/" is looked up in; its sleep is merged with this one.
CdRootCtor(t) ==
    /\ At(t, "CdRootCtor")
    /\ OpenFileCtor(DIRECTORY_SECTOR)
    /\ dfiles' = Append(dfiles, [sec |-> DIRECTORY_SECTOR, alive |-> TRUE])
    /\ loc' = [loc EXCEPT ![t].df = Len(dfiles) + 1, ![t].n = Len(dirs[DIRECTORY_SECTOR])]
    /\ Goto(t, "CdRootSet")
    /\ UNCHANGED <<cwd, directorySize, ops, fault>> /\ CdFrame

\* Fault-injected variant: the root's new OpenFile is deleted instead of
\* backupDirFile.
CdRootSetDeleteNew(t) ==
    /\ At(t, "CdRootSet")
    /\ cwd' = loc[t].df
    /\ directorySize' = loc[t].n
    /\ DeleteDirFile(t, loc[t].df, dfiles, [loc[t] EXCEPT !.n = 0, !.df = 0, !.bak = 0],
                     "Idle")
    /\ UNCHANGED <<reg, locks, ops>> /\ CdFrame

\* directoryFile = rootDirFile, directorySize = tableSize; the loop has
\* nothing to walk; onlyChange deletes backupDirFile, the object read
\* before the sleeps.
CdRootSet(t) ==
    /\ At(t, "CdRootSet")
    /\ cwd' = loc[t].df
    /\ directorySize' = loc[t].n
    /\ DeleteDirFile(t, loc[t].bak, dfiles, [loc[t] EXCEPT !.n = 0, !.df = 0, !.bak = 0],
                     "Idle")
    /\ UNCHANGED <<reg, locks, ops>> /\ CdFrame

-----------------------------------------------------------------------------
(***************************************************************************)
(* SC_CREATE of a directory (exception.cc:140-144): FileSystem::CreateDir  *)
(* (file_system.cc:305-418) with a relative name.                          *)
(***************************************************************************)

\* filesysCreateLock->Acquire(), then directory FetchFrom into a copy.
MdFetchDir(t, n) ==
    /\ At(t, "Idle") /\ "CreateDir" \in Ops[t] /\ ops[t] < MaxOps
    /\ fsLock = NoThread
    /\ IF ~DirFetchOK THEN Abort("assert")
       ELSE /\ fsLock' = t
            /\ loc' = [loc EXCEPT ![t].name = n, ![t].dsnap = CurrentTable]
            /\ ops' = [ops EXCEPT ![t] = @ + 1]
            /\ Goto(t, "MdFind")
            /\ UNCHANGED <<freeMap, dirVars, directorySize, hdr, reg, locks, mbox, sendQ,
                           recvWait, handles, fault>>

\* Name present: release and fail.  Otherwise freeMap->FetchFrom.
MdFind(t) ==
    /\ At(t, "MdFind")
    /\ IF D!Find(loc[t].dsnap, loc[t].name) # NoSector
       THEN fsLock' = NoThread /\ Return(t) /\ UNCHANGED loc
       ELSE /\ loc' = [loc EXCEPT ![t].msnap = freeMap]
            /\ Goto(t, "MdAlloc")
            /\ UNCHANGED fsLock
    /\ UNCHANGED <<freeMap, dirVars, directorySize, hdr, reg, locks, mbox, sendQ, recvWait,
                   handles, ops, fault>>

\* Find a clear sector in the copy; Add the name flagged as a directory
\* (with sector -1 when none was clear: Add still succeeds, and a grown
\* copy still updates directorySize); no sector, or too few for the
\* header's DIRECTORY_FILE_SIZE data, releases and fails.  Otherwise the
\* new header is written back.
MdAlloc(t) ==
    LET l   == loc[t]
        s   == FindClear(l.msnap)
        tb  == D!Add(l.dsnap, l.name, s, TRUE, FALSE)
        m   == l.msnap \cup {s}
        new == Claim(m, DirSectors)
    IN
    /\ At(t, "MdAlloc")
    /\ SetDirectorySize(l.dsnap, tb)
    /\ IF s = NoSector \/ CountClear(m) < DirSectors
       THEN fsLock' = NoThread /\ Return(t) /\ UNCHANGED <<hdr, loc>>
       ELSE /\ hdr' = [hdr EXCEPT ![s] = [data |-> new, next |-> 0]]
            /\ loc' = [loc EXCEPT ![t].sec = s, ![t].msnap = m \cup new, ![t].dsnap = tb]
            /\ Goto(t, "MdMap")
            /\ UNCHANGED fsLock
    /\ UNCHANGED <<freeMap, dirVars, reg, locks, mbox, sendQ, recvWait, handles,
                   ops, fault>>

\* freeMap->WriteBack of the copy.  The header fetch of the new OpenFile
\* that follows changes nothing; its sleep is merged with this one.
MdMap(t) ==
    /\ At(t, "MdMap")
    /\ freeMap' = loc[t].msnap
    /\ Goto(t, "MdNew")
    /\ UNCHANGED <<dirVars, directorySize, hdr, reg, locks, fsLock, mbox, sendQ, recvWait,
                   loc, handles, ops, fault>>

\* The new OpenFile registers the sector; the fresh table of
\* NUM_DIR_ENTRIES free entries is written into it with WriteAt.  The
\* object is never deleted.
MdNew(t) ==
    /\ At(t, "MdNew")
    /\ OpenFileCtor(loc[t].sec)
    /\ dirs' = [dirs EXCEPT ![loc[t].sec] = [i \in 1..NUM_DIR_ENTRIES |-> D!FreeEntry]]
    /\ Goto(t, "MdDir")
    /\ UNCHANGED <<freeMap, dfiles, cwd, directorySize, hdr, fsLock, mbox, sendQ, recvWait,
                   loc, handles, ops, fault>>

\* dir->WriteBack(directoryFile) of the copy; then the registration
\* record is reset as Create resets it (label CrReg).
MdDir(t) ==
    /\ At(t, "MdDir")
    /\ IF cwd = 0 THEN Abort("assert")
       ELSE /\ WriteCurrent(loc[t].dsnap)
            /\ Goto(t, "CrReg")
            /\ UNCHANGED <<freeMap, dfiles, cwd, directorySize, hdr, reg, locks, fsLock,
                           mbox, sendQ, recvWait, loc, handles, ops, fault>>

-----------------------------------------------------------------------------
\* SC_CREATE (exception.cc:117-156): the isDirectory argument chooses
\* CreateDir or Create(name, 0); both results go back in r2 only.
SysCreate(t, n, isDirectory) ==
    IF isDirectory THEN MdFetchDir(t, n) ELSE CrFetchDir(t, n)

\* SC_REMOVE (exception.cc:167-205) with isDirectory set (FILESYS build)
\* returns -2 without calling Remove; only the caller's r2 changes.  Its
\* returns for a null or too long name leave the same state.
RmRefuse(t) ==
    /\ At(t, "Idle") /\ "RemoveDirArg" \in Ops[t] /\ ops[t] < MaxOps
    /\ ops' = [ops EXCEPT ![t] = @ + 1]
    /\ UNCHANGED <<freeMap, dirVars, directorySize, hdr, reg, locks, fsLock, mbox, sendQ,
                   recvWait, pc, loc, handles, fault>>

\* SC_REMOVE: the isDirectory argument is refused; otherwise
\* FileSystem::Remove, whose result goes back in r2 only.
SysRemove(t, n, isDirectory) ==
    IF isDirectory THEN RmRefuse(t) ELSE RmFetchDir(t, n)

\* SC_LS (exception.cc:540-553): FileSystem::Ls (file_system.cc:545-550)
\* fetches the current table, with no lock, and PrintNames copies the
\* names out; nothing the file system keeps changes.
SysLs(t) ==
    /\ At(t, "Idle") /\ "Ls" \in Ops[t] /\ ops[t] < MaxOps
    /\ IF ~DirFetchOK THEN Abort("assert")
       ELSE /\ ops' = [ops EXCEPT ![t] = @ + 1]
            /\ UNCHANGED <<freeMap, dirVars, directorySize, hdr, reg, locks, fsLock, mbox,
                           sendQ, recvWait, pc, loc, handles, fault>>

-----------------------------------------------------------------------------
\* Every thread has made its calls and closed its files; or an ASSERT (or an
\* invalid access) aborted Nachos.
Halted ==
    \/ fault # "none"
    \/ \A t \in Threads : pc[t] = "Idle" /\ ops[t] = MaxOps
                          /\ handles[t] = <<>>

Terminated == Halted /\ UNCHANGED vars

Step(t) ==
    \/ \E n \in Names : OpenFetchDir(t, n) \/ RmAbsStart(t, n)
                        \/ \E isDirectory \in BOOLEAN : SysRemove(t, n, isDirectory)
                        \/ SysCreate(t, n, FALSE) \/ CrAbsStart(t, n)
    \/ \E i \in DOMAIN handles[t] :
           \/ CloseStart(t, i)
           \/ \E n \in WriteSizes : WrStart(t, i, n) \/ RdStart(t, i, n)
    \/ SysLs(t) \/ OpCheck(t) \/ OpCtor(t)
    \/ ClDec(t) \/ ClCheck(t) \/ ClSend(t) \/ ClDelete(t)
    \/ RmFind(t) \/ RmLock(t) \/ RmCheck(t) \/ RmMap(t) \/ RmMark(t)
    \/ RmRecv(t) \/ RmDealloc(t) \/ RmChain(t) \/ RmDir(t) \/ RmFin(t) \/ RmDone(t)
    \/ RaCtor(t) \/ RaSet(t) \/ BkSize(t) \/ BkDirSize(t)
    \/ CrFind(t) \/ CrAlloc(t) \/ CrMap(t) \/ CrDir(t) \/ CrReg(t)
    \/ WrLock(t) \/ WrMap(t) \/ WrAlloc(t) \/ WrHdr(t) \/ WrData(t)
    \/ WrNext(t) \/ WrNextHdr(t) \/ WrFind(t) \/ WrFirstHdr(t) \/ WrLink(t)
    \/ WrChainData(t) \/ WrMoreHdr(t) \/ WrMoreLink(t)
    \/ RdNext(t)
    \/ \E n \in DirNames : CdFetch(t, n) \/ SysCreate(t, n, TRUE)
    \/ CdRoot(t) \/ CdFind(t) \/ CdOpen(t) \/ CdCtor(t) \/ CdSize(t) \/ CdSet(t)
    \/ CdRootCtor(t) \/ CdRootSet(t)
    \/ MdFind(t) \/ MdAlloc(t) \/ MdMap(t) \/ MdNew(t) \/ MdDir(t)

Next ==
    \/ \E t \in Threads : Step(t)
    \/ Terminated

\* The scheduler keeps running every ready thread (WF on a thread's steps
\* once it is inside a call).  A thread waiting for a lock is woken when the
\* lock is released but may lose it again to a newcomer, so taking a lock
\* needs strong fairness.  Every opener eventually closes its file, as the
\* test programs (fs_test_sync.cc) and user programs do.
InCall(t) == pc[t] # "Idle"

Fairness ==
    \A t \in Threads :
        /\ WF_vars(InCall(t) /\ Step(t) /\ pc[t] \notin {"RmLock", "WrLock", "ClDec"})
        /\ SF_vars(RmLock(t)) /\ SF_vars(WrLock(t)) /\ SF_vars(ClDec(t))
        /\ WF_vars(\E i \in DOMAIN handles[t] : CloseStart(t, i))

Spec == Init /\ [][Next]_vars /\ Fairness

-----------------------------------------------------------------------------
(***************************************************************************)
(* Properties                                                              *)
(***************************************************************************)

TypeOK ==
    /\ freeMap \subseteq Sectors
    /\ dirs \in [Sectors -> Seq(DirEntry)] /\ directorySize \in Nat
    /\ dfiles \in Seq([sec : Sectors, alive : BOOLEAN]) /\ cwd \in 0..Len(dfiles)
    /\ hdr \in [Sectors -> HeaderRec]
    /\ reg \in [Sectors -> RegRec]
    /\ locks \in Seq(LockObj)
    /\ fsLock \in Threads \cup {NoThread}
    /\ mbox \in [Threads -> Nat]
    /\ sendQ \in [Threads -> Seq(Threads)]
    /\ recvWait \in [Threads -> BOOLEAN]
    /\ pc \in [Threads -> Labels]
    /\ loc \in [Threads -> Loc]
    /\ handles \in [Threads -> Seq(Handle)]
    /\ ops \in [Threads -> 0..MaxOps]
    /\ fault \in Faults \cup {"none"}

\* No ASSERT fails and no lock is used after it was deleted or through a
\* null pointer: the registration record's lock pointers (removeLock
\* re-created by Create, writeLock deleted by the last Close) always name
\* the object the caller acquired.
NoFault == fault = "none"

\* The sectors the header at h owns: itself and its data sectors.
Owned(h) == {h} \cup hdr[h].data

RECURSIVE ChainOf(_, _)
\* The header sectors of the chain from s, following nextFileHeader until
\* 0, as Remove walks it (file_system.cc:723-729), at most k of them.
ChainOf(s, k) ==
    IF s = 0 \/ k = 0 THEN <<>> ELSE <<s>> \o ChainOf(hdr[s].next, k - 1)

Chain(s) == ChainOf(s, NumSectors + 1)

FileSectors(s) == UNION {Owned(Chain(s)[j]) : j \in DOMAIN Chain(s)}

\* Remove's promise (file_system.cc:713-719): a file is not deallocated
\* while an OpenFile for it exists; every header and data sector of every
\* open file's chain stays marked in the on-disk bitmap.
OpenFilesAllocated ==
    \A t \in Threads : \A i \in DOMAIN handles[t] :
        FileSectors(handles[t][i].sec) \subseteq freeMap

\* The file offset the pair (currentSector, seekPosition) of a handle
\* denotes: the sectors of the headers before currentSector in the chain,
\* plus seekPosition; -1 if currentSector is not in the chain.
ChainOffset(hd) ==
    LET c == Chain(hd.sec)
        before(j) == SubSeq(c, 1, j - 1)
    IN  IF \E j \in DOMAIN c : c[j] = hd.cur
        THEN LET j == CHOOSE j \in DOMAIN c : c[j] = hd.cur IN
             FoldLeft(LAMBDA acc, x : acc + Cardinality(hdr[x].data), 0, before(j))
             + hd.seek
        ELSE -1

\* Write continues where the handle's previous Read or Write stopped
\* (spec 4.4: both start at seekPosition and advance it): between calls,
\* the (currentSector, seekPosition) a Write starts from is the offset
\* reached by everything the handle transferred.  Write's chain walk and
\* the currentSector it leaves after linking new headers
\* (open_file.cc:242-244, 378) must keep it; Read's walk, which moves hdr
\* and seekPosition to a later header but not currentSector
\* (open_file.cc:129-141), is the way it breaks.
PositionsAgree ==
    \A t \in Threads : pc[t] = "Idle" =>
        \A i \in DOMAIN handles[t] : ChainOffset(handles[t][i]) = handles[t][i].offset

\* The entries of table tb that name a subdirectory.
SubDirs(tb) == {tb[i].sector : i \in {j \in DOMAIN tb : tb[j].inUse /\ tb[j].isDir}}

RECURSIVE ReachDirs(_, _)
\* The directory header sectors reachable from those in S, in at most k
\* hops from a table to the subdirectories it names.
ReachDirs(S, k) ==
    LET next == S \cup (UNION {SubDirs(dirs[x]) : x \in S} \cap Sectors) IN
    IF k = 0 \/ next = S THEN S ELSE ReachDirs(next, k - 1)

\* The directories of the hierarchy: the root and what its tables name.
Directories == ReachDirs({DIRECTORY_SECTOR}, NumSectors)

\* The disk is consistent (spec 3, 4.3): every chain named by an in-use
\* entry of a directory of the hierarchy ends; no sector belongs to two
\* headers (or to a header and the system files); names are unique within
\* a directory; and the bitmap marks exactly the system sectors and the
\* sectors of the chains (a directory's table sectors are the data of its
\* header).  It must hold whenever no call is in progress.  Two calls
\* working on stale bitmap copies, a Write leaking header sectors when the
\* disk fills up, a Remove freeing a chain it read before a Write extended
\* it, and a table written back into another directory than the one it
\* was read from all break it.
DiskConsistentNow ==
    LET used == {u \in UNION {{d} \X DOMAIN dirs[d] : d \in Directories} :
                    dirs[u[1]][u[2]].inUse}
        ent(u) == dirs[u[1]][u[2]]
        occ  == {<<u, j>> \in used \X (1..NumSectors + 1) :
                    j \in DOMAIN Chain(ent(u).sector)}
        at(o) == Chain(ent(o[1]).sector)[o[2]]
    IN
    /\ \A u \in used : Len(Chain(ent(u).sector)) <= NumSectors
    /\ \A u, v \in used : u # v /\ u[1] = v[1] => ent(u).name # ent(v).name
    /\ \A o \in occ : at(o) \notin hdr[at(o)].data
                    /\ Owned(at(o)) \cap {FREE_MAP_SECTOR, DIRECTORY_SECTOR} = {}
    /\ \A o1, o2 \in occ : o1 # o2 => Owned(at(o1)) \cap Owned(at(o2)) = {}
    /\ freeMap = {FREE_MAP_SECTOR, DIRECTORY_SECTOR} \cup UNION {Owned(at(o)) : o \in occ}

\* No call is in progress.
Quiescent == \A t \in Threads : pc[t] = "Idle"

DiskConsistent == Quiescent => DiskConsistentNow

\* Between calls, directoryFile is a live OpenFile, and directorySize, the
\* kernel-wide size every FetchFrom of it uses, covers the whole table in
\* that file (spec 3: it is kept in sync with the active directory).  A
\* smaller size hides entries from Find, so a name could be added twice.
\* Add's growth, ChangeDir's switch and the root path's backup delete,
\* and the switch back of an absolute Remove or Create, must all keep it.
CurrentDirValid ==
    Quiescent => /\ cwd # 0 /\ dfiles[cwd].alive
                 /\ directorySize >= Len(CwdTable)

\* The OpenFile objects on sector s that are still to be deleted: the
\* handles in the threads' fd tables and the live directory objects.
Holders(s) ==
    Cardinality(UNION {{<<t, i>> : i \in {j \in DOMAIN handles[t] : handles[t][j].sec = s}} :
                       t \in Threads})
    + Cardinality({j \in DOMAIN dfiles : dfiles[j].alive /\ dfiles[j].sec = s})

\* Between calls, tableDeArchivosAbierta[s]->count is the number of
\* OpenFile objects of s that will still be deleted (spec 3: the active
\* handle count).  Remove waits for it to reach 0 and the last closer
\* deletes the write lock, so a count above the holders makes a Remove
\* wait forever and one below frees the file or the lock under a holder.
\* Every constructor (Open, the fd-table-full delete of SC_OPEN, the
\* OpenFiles cd creates and deletes) and the resets of Create and
\* CreateDir must keep it.
CountMatchesHolders ==
    Quiescent => \A s \in Sectors : reg[s].count = Holders(s)

(***************************************************************************)
(* FileSystem::Check (file_system.cc:776-949) on the on-disk state.  The   *)
(* bitmap's and directory's own headers have their data folded into        *)
(* sectors 0 and 1, so Check comes down to CheckDirectory and              *)
(* CheckBitmaps.  The shadow map and the names seen are an accumulator.    *)
(***************************************************************************)

\* CheckSector (file_system.cc:800-809) with AddToShadowBitmap: a sector
\* out of range is skipped, one already marked is an error.
CheckSector(acc, sec) ==
    IF sec \notin Sectors THEN acc
    ELSE IF sec \in acc.shadow THEN [acc EXCEPT !.error = TRUE]
    ELSE [acc EXCEPT !.shadow = @ \cup {sec}]

\* CheckFileHeader (file_system.cc:812-829): numSectors must be below
\* NUM_DIRECT, and each data sector is checked.  numSectors always covers
\* numBytes when sizes are whole sectors.  nextFileHeader is not read.
\* The order of the data sectors does not change the outcome.
CheckFileHeader(acc, h) ==
    FoldSet(LAMBDA sec, a : CheckSector(a, sec),
            [acc EXCEPT !.error = @ \/ Cardinality(h.data) >= NUM_DIRECT], h.data)

\* One in-use entry of CheckDirectory (file_system.cc:856-891): a repeated
\* name is an error; the header sector, then the header, are checked.
CheckEntry(acc, e) ==
    IF ~e.inUse THEN acc
    ELSE LET a1 == CheckSector([acc EXCEPT !.error = @ \/ e.name \in acc.known,
                                            !.known = @ \cup {e.name}], e.sector)
         IN  IF e.sector \notin Sectors THEN a1
             ELSE CheckFileHeader(a1, hdr[e.sector])

\* CheckDirectory walks entries 0 .. NUM_DIR_ENTRIES-1 of the table it
\* fetched (file_system.cc:854), whatever the table's size.
CheckDirectory(table, acc) ==
    FoldLeft(CheckEntry, acc, SubSeq(table, 1, NUM_DIR_ENTRIES))

\* Check: shadow map starts with sectors 0 and 1; the directory is fetched
\* with directorySize; CheckBitmaps compares the shadow with the bitmap.
Check ==
    LET acc == CheckDirectory(CurrentTable,
                              [shadow |-> {FREE_MAP_SECTOR, DIRECTORY_SECTOR},
                               known |-> {}, error |-> FALSE])
    IN  ~acc.error /\ acc.shadow = freeMap

\* FileSystem::Check succeeds whenever no call is in progress
\* (fs_test_sync.cc checks after its threads finish): no sector is used
\* twice, no name is repeated in the directory, and the bitmap marks
\* exactly the system sectors and the sectors of the files the directory
\* names.  Stale directory or bitmap copies written back by concurrent
\* calls, leaks and double allocations all break it.
CheckPasses == Quiescent => Check

\* A thread between calls never holds filesysCreateLock: every return
\* path of Create and CreateDir (name present, disk full, success) gives
\* it back, the switch back of an absolute Create included, which
\* releases it only after deleting the root's OpenFile and re-reading the
\* size.  A path that kept it would block every later Create forever.
CreateLockFreeBetweenCalls ==
    \A t \in Threads : pc[t] = "Idle" => fsLock # t

RemoveLabels == {"RmFind", "RmLock", "RmCheck", "RmMap", "RmMark", "RmRecv",
                 "RmDealloc", "RmChain", "RmDir", "RmFin", "RmDone",
                 "RaCtor", "RaSet", "BkSize", "BkDirSize"}
CloseLabels == {"ClDec", "ClCheck", "ClSend", "ClDelete"}

\* Every Remove returns: a remover waiting on its channel for the last
\* Close is always sent its message (unless Nachos aborted).
RemoveCompletes ==
    \A t \in Threads :
        pc[t] \in RemoveLabels ~> (pc[t] = "Idle" \/ fault # "none")

\* Every Close returns: the last closer's Send to the remover is consumed.
CloseCompletes ==
    \A t \in Threads :
        pc[t] \in CloseLabels ~> (pc[t] = "Idle" \/ fault # "none")

=============================================================================
