# TLA+ models of the Nachos file system, channels and virtual memory

This directory holds TLA+ models of the kernel in `src/code`, the TLC configurations that check them, and `PROJECT.json`. `PROJECT.json` lists:
- the components, and how far each is modelled;
- the runs, and the mutants that show each property can fail;
- the map from every definition to the source lines it translates;
- the findings and the hazards.

## The system

| Part | Source | What it does |
|---|---|---|
| File system manager | `filesys/file_system.cc` | Create, CreateDir, Open, Remove, ChangeDir and Check. It keeps a bitmap file, the global current directory (`directoryFile`, `directorySize`) and `tableDeArchivosAbierta`, a registration record per header sector (`removed`, `removing`, `count`, `removeLock`, `writeLock`, `closeLock`). |
| Open file handle | `filesys/open_file.cc` | The constructor registers the opener (`count++`). The destructor (Close) unregisters it and may wake a waiting remover. Read and Write walk a chain of file headers; Write grows it. |
| Directory | `filesys/directory.cc` | A table of entries (name, header sector, `isDirectory`) fetched from and written back to a directory file. Add grows a full table by one slot. |
| Channel, Lock, Condition | `threads/channel.cc`, `lock.cc`, `condition.cc` | Locks are built on semaphores. Condition is Mesa-style. Channel is a rendezvous built on two Conditions. |
| Coremap, AddressSpace | `vmem/coremap.cc`, `userprog/address_space.cc` | Demand paging with swap. The victim policy is a build option: FIFO, CLOCK, or random. |
| Exception handler | `userprog/exception.cc` | System calls and the TLB-miss handler. |

How the parts interact:
- `SC_OPEN`, `SC_CLOSE`, `SC_REMOVE`, `SC_CREATE`, `SC_READ`, `SC_WRITE`, `SC_CD` and `SC_LS` call the file system manager.
- A Remove of a file that is still open sleeps in `Receive` on the remover's `removeChannel`. The last Close wakes it with `Send(0)`.
- Every change to the bitmap or to a directory follows one pattern: fetch the on-disk copy, change it in memory, write it back.
- Create and Remove use `directoryFile`, a single kernel-wide pointer that `SC_CD` replaces.

## Scheduling model

Nachos runs one thread at a time. A thread loses the CPU only in these places:
- when it sleeps on disk I/O through SynchDisk;
- when it blocks on a contended lock or a condition;
- when a semaphore re-enables interrupts and the timer preempts it (`-rs`).

Each action of a model is one such atomic segment of one thread. A disk read copies its sector when it is issued, and a disk write stores it when it is issued. So every `FetchFrom` or `WriteBack` takes effect at the start of its segment and ends it. A segment that reads and writes no modelled state is merged with the sleep next to it.

## Modules

### `Directory.tla`: the directory table

Directory.tla holds pure operators on a table (a sequence of entries):
- `FetchFrom` and `WriteBack`;
- `FindIndex`, `Find` and `FindDir`;
- `Add`, which grows a full table by one slot;
- `Remove`.

The `isDirectory` flag of a slot added by growth is never initialised (`directory.cc:164`). `Add` therefore takes the value it happens to hold as a parameter, and callers choose it nondeterministically.

### `FileSys.tla`: the file system manager and open files

| Variable | What it models |
|---|---|
| `freeMap`, `hdr` | The on-disk bitmap, and each header's data sectors and `nextFileHeader`. |
| `dirs` | The table stored in each directory header sector. The root is sector 1. |
| `dfiles`, `cwd` | Every `OpenFile` object a directory was opened through, with whether it has been deleted. `cwd` is `directoryFile`: an index into `dfiles`, or 0 for nullptr. |
| `directorySize` | The kernel-wide size used by every directory fetch. |
| `reg`, `locks` | The registration table, and every Lock object ever created. The table stores indices into `locks`, so a use after delete is visible. |
| `fsLock` | `filesysCreateLock`. |
| `mbox`, `sendQ`, `recvWait` | Each thread's `removeChannel`, in the 0-message use the kernel makes of it. |
| `pc`, `loc`, `handles`, `ops` | Each thread's label, locals and private copies, the files it holds open, and its call count. |
| `fault` | The first failed ASSERT, null dereference, use after delete or double delete. |

**Actions.** Each handler is split at its yield points, and the labels follow the code in order:
- Open: `OpenFetchDir`, `OpCheck`, `OpCtor`. `OpCtor` includes `SC_OPEN`'s insertion into the caller's fd table (`FdAdd`). When the table already holds `FdTableSize` files, the handler deletes the new `OpenFile`, which runs the destructor chain from `ClDec`.
- Close: `CloseStart`, `ClDec`, `ClCheck`, `ClSend`, `ClDelete`.
- Remove: `RmFetchDir` … `RmDone`, including the walk of the header chain (`RmChain`).
- Create: `CrFetchDir`, `CrFind`, `CrAlloc`, `CrMap`, `CrDir`, `CrReg`. Its return paths (`CrReturn`) release `filesysCreateLock`.
- Remove or Create of `"/"` followed by a name: `RmAbsStart` or `CrAbsStart` saves `directoryFile` in `directoryFileBackup` (`loc.bak`). `RaCtor` and `RaSet` are `ChangeDir("/", false)`, which switches to a new `OpenFile` of the root. The call then continues at `RmFind` or `CrFind` (`loc.ret`).
- Every return path of those calls switches back (`SwitchBack`, via `RmReturn` or `CrReturn`): it restores the backup, deletes the object it had switched to (the destructor chain from `ClDec`), and re-reads the size (`BkSize`, `BkDirSize`). `BkDirSize` then releases what the code releases only after the switch: the remove lock on Remove's already-removed path, or `filesysCreateLock` for Create.
- Write: `WrStart` … `WrMoreLink`, covering growth of the current header, the chain walk and the linking of new headers.
- Read: `RdStart` (`SC_READ`), which runs `OpenFile::Read` (`RdRead`), then `RdNext`.
- ChangeDir to a subdirectory: `CdFetch`, `CdFind`, `CdOpen`, `CdCtor`, `CdSize`, `CdSet`.
- ChangeDir to `"/"`: `CdRoot`, `CdRootCtor`, `CdRootSet`.
- CreateDir: `MdFetchDir`, `MdFind`, `MdAlloc`, `MdMap`, `MdNew`, `MdDir`.
- `SC_CREATE` chooses between Create and CreateDir by its `isDirectory` argument (`SysCreate`).
- `SC_REMOVE` refuses its `isDirectory` argument without calling Remove (`SysRemove`, `RmRefuse`; the op `"RemoveDirArg"`). `rm` always passes 0, so the refusal never protects a directory.
- `SC_LS` fetches the current table with no lock (`SysLs`). It can fail only on the fetch's ASSERT. The unbounded copy into its 200-byte buffer is a hazard in `PROJECT.json`: names have no length in the model.

The deletion of a directory's `OpenFile` (`DeleteDirFile`) runs the same destructor chain as Close.

**Bounds.** `MaxOps` bounds the calls per thread. `WriteSizes` gives the sizes a Read or Write may ask for. `NumSectors`, `NUM_DIR_ENTRIES` and `NUM_DIRECT` shrink the disk geometry. `DirSectors` stands for `DIRECTORY_FILE_SIZE`. `FdTableSize` is the capacity of a thread's `opFD` table.

**Properties**

| Property | Kind | What it says |
|---|---|---|
| `TypeOK` | type invariant | Every variable has its type. |
| `NoFault` | invariant | No ASSERT fails, and no lock or `OpenFile` is used after delete, through null, or deleted twice. |
| `DiskConsistent` | invariant | Between calls, every directory reachable from the root has unique names and chains that end, no sector has two owners, and the bitmap marks exactly the system sectors and the chains. |
| `OpenFilesAllocated` | invariant | Every sector of every open file's chain stays marked. This is the spec's promise for Remove. |
| `CurrentDirValid` | invariant | Between calls, `directoryFile` is a live object and `directorySize` covers its whole table. |
| `CreateLockFreeBetweenCalls` | invariant | A thread between calls does not hold `filesysCreateLock`. Every return path of Create and CreateDir releases it, and so does the switch back of an absolute Create. |
| `CheckPasses` | invariant | Between calls, `FileSystem::Check` (translated as a fold) succeeds. |
| `PositionsAgree` | invariant | A handle's (`currentSector`, `seekPosition`) denotes the offset it has transferred. |
| `CountMatchesHolders` | invariant | Between calls, a sector's registration `count` equals the number of `OpenFile` objects on it that are still to be deleted: the handles threads hold and the live directory files. A wrong count makes a Remove wait forever or free a file that is still open. |
| `RemoveCompletes`, `CloseCompletes` | liveness | Every Remove returns, and every Close returns. |

**Fairness.**
- Every thread inside a call keeps being scheduled, so its steps get weak fairness.
- Taking a lock (`RmLock`, `WrLock`, `ClDec`) gets strong fairness. A woken waiter can lose the lock to a newcomer and retries, so it is only enabled intermittently.
- A thread that holds a file eventually closes it, as the test routines in `fs_test_sync.cc` do.

### `Channel.tla` and `SyncChannel.tla`

`Channel.tla` models `Channel::Send` and `Receive` over the `BloqueanteSend` and `BloqueanteReceive` Conditions. Each waiter has its own semaphore in the condition's FIFO, and the model keeps the Mesa re-tests.

`SyncChannel.tla` is the promise: a FIFO of tagged messages, where a Send returns only once its own message was taken. `Channel` instantiates it with `queue <- buzon` and `busy <- (pc # "Idle")`, and `ImplementsSyncChannel` is that refinement.

Weak fairness on wake-ups, re-tests and calls is justified: a V'ed semaphore makes its thread ready, and the ready list is FIFO.

### `VMem.tla`: demand paging with swap

The build modelled has `USE_TLB`, `DEMAND_LOADING` and `SWAP`. The victim policy is a variable `policy`, chosen in Init from the constant `Policies` and never changed:
- `"FIFO"` is `PRPOLICY_FIFO`: `PickVictim` and `NextVictim`.
- `"CLOCK"` is `PRPOLICY_CLOCK`. `ClockScan` is a recursive translation of the four rounds of `PickVictim`. `TLBSearch` is the entry each iteration inspects. `PickVictimClock` also writes round 2's `entry->use = false`.
- `"RANDOM"` is the build with neither option: any frame, and the cursor is unchanged.

`TLBSearch` always looks at frame `victima`, never at the candidate `p`. So CLOCK gives no second chance:
- A cursor frame whose entry is unused, or used and clean, is evicted.
- A used and dirty one makes the victim `victima+1`, whatever that frame's bits are.

`vmem_one_space` reaches both outcomes.

The MMU (not under `src/`) sets an entry's `use` bit on every access and its `dirty` bit on a store. `SaveState` copies both bits back.

| Element | What it models |
|---|---|
| State | Page tables, TLB, coremap, memory, swap, `victima`, the ready and disk queues. Memory contents are abstracted to `<<space, vpn, version>>`. |
| Actions | `PageFault` (TLB refill, `LoadPage`, victim selection under the build's policy), `EvFinish` (`EscribirFrameenSwap`), `LoadIssue`/`LoadDone`, `Preempt`, `DiskDone`, `Dispatch` and `Exit`. |
| `ReadsLatest` | Every TLB translation leads to the latest contents of its page. |
| `CoremapConsistent` | The coremap is the reverse of the valid page-table entries. |

`MCFileSys.tla`, `MCChannel.tla` and `MCVMem.tla` hold the model values and the thread roles. Those roles mirror the threads that `fs_test_sync.cc` forks.

## Runs

### Passing runs

| Run | Scenario and bounds | Properties |
|---|---|---|
| `open_write` | 1 thread, 20 sectors, up to 5 calls; `NUM_DIRECT` 2; sizes 1 and 3; one directory name; an fd table of 2 | TypeOK, NoFault, DiskConsistent, OpenFilesAllocated, CurrentDirValid, CountMatchesHolders, CreateLockFreeBetweenCalls |
| `open_remove` | 1 opener and 2 removers of the boot file, one by relative and one by absolute path | NoFault, CheckPasses, CountMatchesHolders, CurrentDirValid, RemoveCompletes |
| `one_sender` | 1 sender and the owner, 4 sends | TypeOK, ImplementsSyncChannel, SendCompletes, ReceiveCompletes |
| `vmem_one_space` | 3 pages in 2 frames; FIFO, CLOCK and random builds | TypeOK, ReadsLatest, CoremapConsistent |
| `vmem_no_evict` | 2 spaces of 2 pages in 4 frames; FIFO build (nothing is evicted) | ReadsLatest, CoremapConsistent |

What each bound exercises:
- In `open_write`, a file is opened through two handles. Writes fill a header, chains grow, a Read crosses a header, and a file and a directory are created. The thread cds into the directory and back to `"/"`, and files are removed.
- `open_write` creates and removes by absolute path after a cd into the directory, so the switch back restores a directory other than the root.
- `open_write` gives every Cd and Md action, and every Write branch, a state in which it fires.
- `open_write`'s fd table of 2 fills after two Opens. The third Open takes `SC_OPEN`'s delete-on-full path.
- The sector counts leave room for two allocations to collide, and, in the violation runs, for the disk to fill.

Deadlock checking:
- `open_write` and `open_remove` are checked without deadlock detection (`CHECK_DEADLOCK FALSE`). A Remove of a file its own thread holds waits forever, and a closer can hang in Send (`close_send_hang`), so the real system may stop there.
- The other passing runs end in an explicit terminal state.

Two interleavings of the absolute-path switch break properties that the runs check, but only in configurations no run keeps:
- Two absolute Removes can save the same `directoryFile`. The later restore then deletes it, which violates `CurrentDirValid`; the configuration is `Ops` t2 and t3 both `{"RemoveAbs"}` in `open_remove`.
- A `cd /` beside an absolute Create deletes Create's temporary root a second time, which violates `NoFault`; the configuration is `AbsCreatorChanger` in `create_cd`.

Both are hazards in `PROJECT.json`.

### Violation runs

Each violation run checks one property. `PROJECT.json` has the finding for each.

| Run | Property | What TLC finds in the code |
|---|---|---|
| `open_remove_race` | OpenFilesAllocated | Open's `removing` test and the constructor's `count++` are separated by a disk read. Remove frees the file in between. |
| `close_send_hang` | CloseCompletes | The last closer Sends to a remover that decided not to Receive, and waits forever. |
| `write_create` | DiskConsistent | Write allocates from the bitmap without `filesysCreateLock`, so a concurrent Create takes the same sector. |
| `write_leak` | DiskConsistent | A Write that runs out of space after marking new header sectors leaks them. |
| `read_write` | PositionsAgree | Read moves `hdr` and `seekPosition` to a later header but not `currentSector`. The next Write lands at the wrong offset. |
| `create_cd` | DiskConsistent | `SC_CD` takes no lock, so a Create writes the root's table into the directory another thread just changed into. |
| `vmem_two_spaces` | ReadsLatest | Evicting another program's page updates the faulting program's page table, and the other program's write is lost. |

### Mutants

Every property of every passing run has a mutant in `PROJECT.json`. A mutant is a fault-injected variant of one mapped action, such as a dropped guard or a missing reset. TLC finds the property violated under the run's own configuration.

## Not modelled

- Paths of more than one component: Create or Remove of `"/a/b"`, CreateDir by absolute path, and multi-component ChangeDir. Each would walk directories as ChangeDir's loop does. The single-component cases already give the switch and restore of `directoryFile`. `List`, `Print`, and the Remove of a directory (the hazards in `PROJECT.json` note what that would reach).
- `LastSlash` and `SeparateDir`, the string helpers of path handling. They are sequential string code, and each of their edge cases is one call a unit test reaches:
  - `"/a/"` yields an empty file name;
  - `SeparateDir` stops at `MAX_DIR_LEVEL` tokens, so a path of ten or more components is walked only to its ninth.
- The data sectors of the bitmap and directory files. They are folded into their header sectors, so a directory WriteBack is one atomic step.
- `FileHeader::Allocate` and `DIRECTORY_FILE_SIZE`. These are not under `src/`, so they are modelled from the spec (`Claim` and `DirSectors`).
- Byte offsets inside the executable. VMem models pages as whole units.
- A property for the second-chance preference that spec section 4.7 describes for CLOCK. The code does not implement it (see above). `PROJECT.json` records the divergence as a hazard at `address_space.cc:308`.
- Byte copying, the console, ELF loading, the thread library's declarations, and the user and test programs. They hold no shared state or control that the models above do not already cover.
