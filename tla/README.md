# TLA+ verification of GIET-VM

GIET-VM is a static operating system for many-core MIPS32 machines: a 2D mesh
of clusters, each with a few processors, an interrupt controller (XCU), a
physical memory bank and optional peripherals. Tasks are mapped to processors
by a file that is compiled before the boot (`giet_xml`, `giet_python`); they
never migrate. The processors share one memory, and synchronise with LL/SC,
memory accesses in order, and inter-processor interrupts (WTI mailboxes).

This directory holds TLA+ models of the parts of the kernel, of the drivers and
of the user libraries whose correctness depends on the order of events, the
TLC configurations that check them on small instances, and proofs for every
value of the constants. `PROJECT.json` relates every definition to the lines of
the source it models, every property to a mutation of the model that breaks it
(the operators called "faulty variant"), and every hazard of the code to the
properties that watch it.

## 1. Inventory

| Component | State it keeps | Operations | Interacts with | Hard part | Module |
|---|---|---|---|---|---|
| Ticket lock, `kernel_locks.c`, `user_lock.c` | `current`, `free` | init, acquire, release | everything | unsynchronised release, wrap around | `TicketLock` |
| SQT lock, `kernel_locks.c`, `user_sqt_lock.c` | a ticket lock in each node of a quad tree spread over the mesh | build, acquire, release | TTY0, HBA allocator | release order, incomplete trees | `SqtTree`, `SqtLock` |
| Simple barrier, `kernel_barriers.c`, `user_barrier.c` | `count`, `sense` | init, wait | boot, kernel_init, applications | reuse by fast tasks | `SimpleBarrier` |
| SQT barrier, same files | `count`, `sense` of each node | build, wait (recursive) | same | reset order, reuse | `SqtBarrier` |
| Scheduler, `ctx_handler.c`, `switch.s` | `current`, context of each task, NORUN and SIG words | `_ctx_switch`, kill, exec, eret | ISRs and system calls of all processors | NORUN and SIG are written by other processors during the scan | `Scheduler` |
| Interrupts, `irq_handler.c` | routing tables, mailboxes | `_irq_demux`, `_isr_tick`, `_isr_wakup`, `_ext_irq_alloc`, `_ext_irq_release` | scheduler, drivers | lost wake-up, leaked mailboxes | `Scheduler` (tick, wakup), `Terminals` (mailboxes) |
| Exceptions, `exc_handler.c` | - | stop the faulty task | scheduler | - | `Scheduler` |
| Terminals, `tty_driver.c`, `_sys_tty_*` of `sys_handler.c` | owner of each channel, one character buffer and full flag | alloc, release, read, ISR | mailboxes, scheduler, kill | test-and-set without lock, a buffer that outlives its reader | `Terminals` |
| BDV driver, `bdv_driver.c` | lock, `_bdv_gtid`, `_bdv_status` | access, ISR | scheduler, FAT | one identity and one status for all tasks | `BdvDriver` |
| HBA driver, `hba_driver.c` | slot tables, `_hba_gtid`, `_hba_status` | access, slot allocator, ISR | scheduler, FAT | ISR concurrent with the start of a transfer | `HbaDriver` |
| SDC driver, `sdc_driver.c` | ring of commands, `_ahci_gtid` | access, ISR | scheduler, FAT | the ISR follows the ring with an old snapshot | `SdcDriver` |
| Coprocessors, `_sys_coproc_*`, `mwr_driver.c` | `_coproc_lock`, mode, gtid, error; channels | alloc, channel_init, run, completed, release, ISR | scheduler, user library | three modes, start before the task is declared | `Coprocessor` |
| Network and frame buffer DMA, `_sys_nic_*`, `_sys_fbf_cma_*`, `mmc_driver.c` | status words and containers, L2 copies | move, display | CMA, L2 cache | the DMA does not see the cache | `ContainerDma` |
| FAT32, `fat32.c` | FAT cache, inode tree with file caches, descriptors, FS_INFO | open, close, read, write, lseek, remove, rename, mkdir, opendir, readdir | block device drivers | chains, write-back order, error paths | `Fat32` |
| Kernel heap, `kernel_malloc.c` | `free[]` lists, `alloc[]` | init, malloc, free | SQT build, drivers, FAT | long sequences of calls | `BuddyHeap` |
| User heap, `malloc.c` | same | same | applications | same | `BuddyHeap` |
| MWMR channel, `mwmr_channel.c` | circular buffer, `sts`, `ptr`, `ptw` | init, read, write, nb_read, nb_write | user lock | partial transfers | `MwmrChannel` |
| Boot loader, `boot.c`, `pmem.c` | page tables, physical memory allocators, scheduler tables | map the vsegs, build the tables, load the ELF files | simple barrier, spin lock | clusters write in the same tables in parallel | `BootMapping` (memory), `Startup` (schedulers, ELF files) |
| kernel_init, `kernel_init.c` | tables of the drivers, `_schedulers` | steps separated by barriers | all | order of the initialisations, what each processor relies on | `Startup` |
| Mapping toolchain, `mapping.py`, `genmap`, `xml_parser.c`, `xml_driver.c` | the objects of a mapping, tables of the binary | `addX`, `cbin`, parse, kernel lookups | boot loader, kernel | indices given before the tables are laid out | `MapTables` |
| Mapping scripts, `applications/*/*.py` | - | `extend` | `mapping.py` | segments of many tasks side by side | `Layout` |
| Parallel applications: sort, gameoflife, transpose, convol, ocean | arrays in all clusters | loops between barriers and flags | barriers, flags, heaps | which barrier protects which cell | `SpmdSteps`, `Spmd`, one module each |
| Pipelined applications: router, classif | channels, containers | producer, consumer; load, analyse, store | MWMR channels, NIC | ownership of containers, start and stop of the controller | `Router`, `Classif` |
| Virtual memory lookups, register accessors, `memo`, other applications, math | - | - | - | none that a model reaches | not modelled |

What makes each component correct, in short: a lock excludes, serves in order
and starves nobody; a barrier lets nobody through before everybody has arrived,
and everybody afterwards; the scheduler runs what is runnable and nothing else,
and a task that waits for a transfer runs again after the completion of that
transfer and not before; a driver returns to each caller the outcome of its own
transfer; a terminal has one owner, its interrupts reach it, and each key is
read once; a container or an image is moved whole, once and in order; the file
system is a dictionary of files, its chains partition the volume, and the device
has what was closed; a heap never gives the same memory twice, nor refuses what
it has; a channel is a FIFO of whole items; no page of memory has two owners and
every page table translates what it must; the tables that the kernel reads
describe the mapping that was written; a parallel program has no race, reads what
it has written, and computes what it is for, whatever the number of threads.

## 2. Modules

Abstract specifications, which several detailed ones implement:

* `FifoLock`: a queue of tasks, the first of which may be in the critical
  section. `TicketLock` implements it; `BdvDriver` and `MwmrChannel` use it as
  their lock.
* `Mutex`: a lock without order (`SqtLock`).
* `Barrier`: the number of rounds that each task has crossed; nobody is a round
  ahead of a task that has not arrived.
* `BlockingIo`: each call posts one transfer and returns its outcome after its
  completion (the three disk drivers and the coprocessor).
* `Channel`: a bounded FIFO of items (`MwmrChannel`).
* `FileStore`: a dictionary of files and directories, and descriptors with an
  offset (`Fat32`).

Detailed models. One action is one access to shared memory, or one handler that
runs to its end, unless stated otherwise.

* `TicketLock` (`_spin_lock_*`): the atomic increment of `free`, the polling
  loop, and the two accesses of the release. The counters are 32 bits wide in
  the code; `Modulus` is the number of their values.
* `SqtTree`: which nodes `_sqt_lock_init` allocates for a footprint, which ones
  the recursion of `_sqt_lock_build` visits, and the way from a cluster to the root.
* `SqtLock` (`_sqt_lock_take`, `_sqt_lock_give`): a task takes the tickets of
  its leaf, of the parent, ... of the root, and gives them back in the same order.
* `SimpleBarrier`, `SqtBarrier`: read `sense`, decrement `count`, then either
  poll or reset. The simple barrier restores the count before it flips the
  sense; the distributed one flips first. The recursion of
  `_sqt_barrier_decrement` is a level `lvl` that goes up with the calls and
  down with the returns.
* `Scheduler`: see section 3.
* `BdvDriver`, `HbaDriver`, `SdcDriver`: the descheduling mode of the drivers. A
  task is a program counter; the critical section between the NORUN bit and the
  context switch is explicit; the ISR is a program of its own that runs on the
  processor its IRQ is routed to (`IrqSide` names the tasks of that processor:
  ISR and critical sections exclude each other there, and only there). The
  locks are `FifoLock` (BDV) or one atomic scan (HBA), which `TicketLock` and
  `SqtLock` justify. The write pointer of the SD card is an atomic increment,
  the ISR a loop that reads it again in each turn. `Overlap` says whether two
  accesses to the card may overlap: the FAT lock prevents it. With more tasks than
  slots one may wait for a slot as long as it takes; the error that `_sdc_access` returns
  after SDC_POLLING_TIMEOUT attempts (`sdc_driver.c:298-311`) is left out. The devices, and
  the polling mode of the boot, where nothing is concurrent, are left out.
* `Coprocessor`: the system calls of the tasks of one cluster in MODE_MWMR,
  MODE_DMA_IRQ and MODE_DMA_NO_IRQ, each access that the ISR may meet a step,
  and `_mwr_isr`. The user library exits when a call fails, and the dead task
  keeps the coprocessor. A channel that is stopped keeps its error status.
* `Terminals`: `_sys_tty_alloc` scans the channels, then takes a mailbox of the
  processor, sets the route and the vector, empties the buffer, and gives the
  channel to the tasks of the application that share it. `Kill` is what
  `_ctx_kill_task` does with it, `Exec` and the reads go on around it, and
  `_tty_rx_isr` runs between any two steps of another processor.
* `ContainerDma`: `_sys_nic_move` (receive and send) and
  `_sys_fbf_cma_display`, with the L2 cache between the processors and the DMA:
  any modified line may be written back at any time (`Evict`), the copies are
  forgotten by `_mmc_inval` and written back by `_mmc_sync` only.
* `Fat32`: the allocation of clusters as operators on a volume (the FAT,
  the smallest free cluster, the number of free clusters), then the calls. Each call holds
  `fat_lock` from its first to its last access, so that its effect on the memory is one
  step, but for `_fat_readdir`, which takes the lock for each entry it reads and once more
  to go back from the end (`ReaddirEntry`, `ReaddirBack`). The blocks that a call writes to
  the device follow one at a time, in the order of the code (`writes`), with
  crashes in between in mind: `CrashLeavesFilesWhole` speaks of the device only.
  - A full volume: `_fat_write` raises the size before it asks for clusters, and gives
    back none of those it got when there are not enough (`ExtendFails`); `lacks` is what
    the size asks for and the file does not have. `FileStore` calls the file broken:
    nothing is promised of it until it is emptied or removed.
  - `_fat_remove` refuses a file that has descriptors, but not a directory, and
    `_fat_rename` tests the descriptors of neither what it moves nor what is below:
    it makes new inodes, and the old descriptors keep a pointer on a freed one
    (`node` of a descriptor). A call through such a descriptor is undefined behaviour of
    the C program, and no action of the module. What the move leaves of the data of a file that
    was open is weaker too (`loose`): its dirty clusters go to a File-Cache that has no
    descriptor and that no close will flush.
  - `_fat_mkdir` writes two entries in a block of the heap that nobody clears: the others
    are those of a previous use (`RecycledTables`).
* `BuddyHeap`: one step per operation, since each one holds the spin lock of
  the heap from its first to its last access. The recursive functions are
  written in closed form: `_get_block` takes from the first non empty list,
  `_split_block` pushes one upper half in each list below, `_update_free_array`
  removes the companions up to the first level that has none.
* `MwmrChannel`: the lock, one step per word copied, one for the update of the state.
* `BootMapping`: the processor 0 of each cluster maps its vsegs
  (`boot_vseg_map`, one step: its allocator belongs to the cluster) and writes
  their entries, each PTE1 a step, each PTE2 three steps under the lock of the
  table. The barriers are `Barrier`. A boot error is a state without successor,
  which the run would report as a deadlock.
* `Startup`: what follows the page tables, up to the jump of each processor to
  its first task. The processors 0 of the clusters build the schedulers and the
  contexts, and copy the segments that P[0,0,0] reads in one buffer; everybody
  then executes `_kernel_init`. The phase of a processor is the number of
  barriers behind it. `BootsIntoScheduler` maps its last state to `Init` of
  `Scheduler`, by a refinement mapping.

* `MapTables`: the methods of `Mapping` in the order of the calls of a script,
  each a step that creates an object and gives it an index, or exits; then
  `cbin` writes the tables. The same mapping is written to XML and read by
  `xml_parser.c` node by node (`events`, `xbin`). `LookupsFind` are the
  searches of the boot loader and of the kernel in those tables. `Periph.xml` writes an end tag
  for the peripherals PIC and XCU only, and `periphNode` of `xml_parser.c` takes whatever tag of
  a peripheral comes next for the end of the others: `Left` are the peripherals of a cluster that it
  does not lose so, and `ParsedSound` says that `xbin` is the mapping without the lost ones, with
  all else in its place. A string is a
  model value, a table a sequence of records with the fields of
  `mapping_info.h`; the offsets are positions in the sequences.
  `MCKernel` has the six scripts of the instance (`Scripts`), two clusters, two groups
  of kernel vsegs and two applications, in which some calls may be forgotten (`optional`):
  the mapping is then refused, or describes less.
* `Layout`: the segments and tasks that `extend` of each application asks for,
  as sets of records that depend on the mesh. `LayoutSound` says that they
  are disjoint, share no big page that they cannot share, that `heap_init` accepts the
  heaps, and that each task has its processor, its stack and its heap.
* `SpmdSteps`, `Spmd`: a parallel program is, for each thread, a sequence of steps: a
  barrier, a flag raised or awaited, or a *block*, the set of cells that the thread
  reads and the set that it writes between two of those. `Begin` and `End` of
  `Spmd` make every pair of blocks that nothing orders overlap:
  `NoConflict` is then the absence of races, `ReadsAreReady` says that what is
  read has been written, `NobodyIsLeft` that no thread waits for ever. The barriers
  work as `Barrier` says.
* `Sort`, `GameOfLife`, `Transpose`, `Convol`, `Ocean`: the programs, which
  build these sequences from the loops of the source and its parameters, and
  what the loops compute, in operators that are compared with a definition of the result
  (sorted permutation, the rule of Conway, the transposed matrix, the convolution with a
  window, points swept once per colour).
* `Router`, `Classif`: state machines, since the order of their tokens is not
  given in advance. Their channels are FIFOs, as `Channel` says.
* `Applications` puts them side by side. In `"values"` and `"layout"` a behaviour is one
  state, one of the inputs of an operator.

The proofs are in `SharedProofs`, `ChannelProofs`, `StartupProofs`, `KernelProofs`,
`TerminalsProofs`, `DmaProofs`, `DeviceProofs` and `FatProofs`, see section 6.

`MC*` modules choose instances; what a theorem should hold for any value of is a
constant of them. `MCShared`, `MCDevices` and `MCKernel` hold
several components that do not interact: a variable that never changes says
which one a behaviour uses, the others stay in one state, so that every property
is a conjunction. `x1`, `x2`... in `MCKernel` and `Applications` are variables that
several components share in this way. `Fat32` has no `MC` module: the paths of its
runs, `MCDirs` and `MCFiles`, are definitions of it that their cfg chooses.

## 3. The scheduler

A task is `<<p, ltid>>`. What the code keeps in a context is abstracted to the
place where the task resumes (`ctx`) and what the registers of the processor
hold to the place where it executes (`live`): at its entry point, in its own
code, behind the `_ctx_switch` of a driver, of an exit.

* `CallSwitch` is the call of `_ctx_switch`; `ScanKill`, `ScanKillAck`,
  `ScanExec`, `ScanExecAck`, `ScanTest` are the accesses of one turn of its
  loop; `SwitchTo` is its end with `_task_switch`. Interrupts are disabled on
  that processor, but the other processors go on in between.
* `Tick`, `Wakeup`, `DeviceIsr`, `SendWti` are the interrupts. `DeviceIsr`
  clears the NORUN bit and `SendWti` writes the mailbox of the processor of the
  task, in two steps. Any processor may get the interrupt of the device.
* `Start`, `Yield`, `BlockOnIo`, `ResumeFromIo`, `ExitMark`, `ExitSwitch`,
  `Exception`, `ResumeFromExit` are the steps of a task; `KillApplication`,
  `ExecApplication` and `SetSignal` those of a shell, one task at a time.

`Restartable` are the applications that the shell starts even while they run,
which the code does not forbid. Any other application is started when each of its
tasks is stopped (NORUN_MASK_TASK, not current) and has no signal on its way, neither
in its SIG word nor in the `todo` of another shell. `BlockOnIo` is one step although the drivers
do it in three, with interrupts disabled: `BdvDriver` and `HbaDriver` take it apart.

## 4. Runs

| Run | Instance | What it shows |
|---|---|---|
| `SharedMemory` (`MCShared`) | ticket lock: 3 tasks, 4 values; SQT lock: 3 tasks, 3 clusters in a row, 3 levels, counters that wrap; the tree for all meshes up to 16 x 16; barriers: 4 tasks, 3 rounds, 2 clusters for the tree; heaps of 1 to 8 minimal blocks; channel of 2 items of 2 words, 2 writers, 2 readers | locks: exclusion at every node, FIFO service or `Mutex`, no starvation, several times around the counters; barriers: `Barrier`, arrivals counted (simple barrier), rounds complete (all of them for the simple barrier, the first one for the SQT barrier); heap: exact partition, maximal free blocks, no free block is registered in `alloc[]`; channel: `Channel`, everything is transferred |
| `KernelSafety` (`MCKernel`) | scheduler: 2 tasks and a shell on 2 processors; the application that makes transfers is killed and started again when it is stopped, the other one also while it runs (`Restartable`); terminals: 3 tasks of 2 applications on 2 processors, 2 channels, 2 keys; buffers: 2 of 2 lines, 6 contents; boot: 2 clusters, 2 vspaces, 17 vsegs, BPPs of 8 pages; start: 2 clusters of 2 processors, 3 vspaces, 5 tasks, 6 segments; mapping: 2 clusters, 6 scripts | scheduler: no early return of a driver, no lost wake-up, no execution of a stopped task, an idle processor with a runnable task has its wake-up pending; terminals: one owner each, routed to it, no mailbox leaked, keys read once and in order; buffers whole, once, in order; page tables sound; nobody starts before what it relies on is there, each interrupt has one processor, the kernel ends in `Init` of `Scheduler`; the tables of the binary and those read from XML describe the mapping, or there are none; no deadlock in any of them |
| `TasksAndPrograms` (`MCKernel`) | the scheduler, without transfers; the applications, see the bounds | runnable tasks run, KILL is served, EXEC starts the task; programs without races, that compute what they are for and come to their end; containers and tokens neither lost nor shared; segments of applications disjoint |
| `Devices` (`MCDevices`) | 3 tasks; BDV with kills; HBA with 2 slots and tasks on both sides of the IRQ (a task returns once it has a slot); SDC with 2 slots, calls from the processor of the IRQ; a coprocessor with 2 channels in 3 modes | ISRs find the right task, `BlockingIo`, slots have one owner, accesses return |
| `Fat` (`Fat32`) | 3 clusters besides the root, of 4 bytes, files of up to 6 bytes, paths `/a`, `/d`, `/d/b`, 2 descriptors, transfers of 3 bytes, seeks to 3; writes are refused when the volume is full, `/d` is listed entry by entry, and removed while it is listed, files are moved while they are open | `FileStore`; the chains partition the volume and the two words of the descriptor are exact; an inode counts its descriptors, and only renames and the removal of directories take one from its descriptors; caches coherent; closed files durable; a crash between two device writes leaves closed files whole |
| `SqtBarrierLost` | 4 tasks, 2 rounds | **violation**: a fast task decrements the old count and the restore erases it |
| `SchedulerExecWait` | 1 task and a shell | **violation**: EXEC of an application that waits for a transfer |
| `HbaLostWakeup` | 2 tasks, one of them not on the processor of the IRQ | **violation**: a completed transfer whose task is never woken up |
| `HbaErrors` | 3 tasks, device errors | **violation**: one error is reported for all later transfers |
| `SdcEarlyWakeup` | 2 tasks, one of them not on the processor of the IRQ, calls serialised | **violation**: `_sdc_access` returns before its transfer has completed |
| `UserHeap` | the same heaps as `SharedMemory` | **violation**: malloc, free, malloc of the same block exits the task |
| `FatTruncate` | the same volume as `Fat`, empty files truncated again | **violation**: the free clusters are counted twice |

### Bounds

* Tasks: three tasks are the smallest number for which one can be overtaken
  while another holds the lock; four tasks in two clusters give every node of
  the tree two children. A ticket counter needs as many values as there are
  tasks (`TicketAssumption`): the SQT lock has exactly that many, so that every
  turn wraps, and the ticket lock one more, so that a full lock and an empty one
  are met at every position of the counters; the proofs cover all the others.
* Levels: with three levels a task is seen at the leaf, in an inner node and at
  the root. Meshes up to 16 x 16 are what `_get_sqt_footprint` supports.
* Rounds of a barrier: a task is at most one round ahead, so the second round
  already meets the leftovers of the first, and the third those of a sense
  that came back to its first value.
* Scheduler: two tasks on a processor make the scan pass one task while the
  other changes; one more processor suffices for the shell and the ISR, which
  are independent of each other. `todo` is bounded by the size of an application.
* Drivers: two slots for three tasks make the allocator wait, and the ring of
  the SD card wrap around; the code has 32.
* Coprocessor: with two channels one can complete, or fail, before the other.
* Terminals: two channels for two applications, one of which has two tasks,
  released and allocated again any number of times; two keys show a lost order.
  Three mailboxes per processor, as in the code.
* Buffers: two of them wrap around; two lines show a torn one; numbers modulo 6
  tell the contents that can coexist apart.
* Boot: a BPP of 8 pages instead of 512, which the model takes as a parameter;
  a PTAB then holds two PT2s. The 17 vsegs have one of each kind that the
  generators make: shared and private, local and not, big and small, a BPP that
  several vsegs share, a long global vseg that shares its last BPP, a cluster
  without processors.
* Start: one processor has two tasks, the second of which is the active one,
  one has none; three interrupts for two processors wrap around; two files have
  segments in both clusters, so that the shared buffer is read while the other
  cluster may go on.
* Mapping: two clusters, of which one may have no processor; the scripts one after the
  other, or the two clusters, the two applications, or the kernel and an application
  interleaved call by call (`Mixes`); psegs, processors, vsegs, tasks and peripherals
  of both clusters or spaces, so that an index differs from a place in the cluster. With
  the optional TTY and DMA, a cluster has peripherals without end tag in even and odd number,
  before one that has an end tag and at the end of the cluster, where the parser fails.
* Programs: sort of 8 items by 4 threads (two stages, three merges); a world of 4
  lines on 2 clusters for 2 generations, after which the two worlds have been used
  in both directions; transpose and convol of 4 lines in 2 clusters of 2 tasks; an ocean for 4
  threads of one cluster and one step, and for 2 clusters and 2 steps, with two levels
  and one visit to the coarse one. Neighbours of lines, and of lines of neighbours, are on
  both sides of a cluster. Values: all arrays of 4 digits and of 8 bits, all worlds in a
  3 x 3 square of a torus of 4 x 4, windows of the size in the source.
* Pipelines: 4 tokens through channels of 2, for 2 routers; 2 clusters with one
  analysis task and 1 cluster with two, 3 containers, one of 2 packets.
* Layouts: 7 meshes of 1 to 16 clusters, with and without holes, with up to 4 processors
  (`ocean` up to 4 clusters).
* FAT: `Entries` leaves the last cluster unused, as the code does, so that the
  volume has room for a directory and a file of two clusters; `MaxSize` above
  one cluster and `Offsets` inside it make writes that cross a boundary and holes.
  Three slots hold two entries and the end mark; the code never takes the place
  of a removed entry, so that each directory sees two creations or renames: a file
  is removed, or replaced, and another one found behind its entry. One value is
  enough: junk is another one. `Listed` are the directories that are opened (the list of `/d`
  changes while it is read, `/d` itself is removed); `Refused` is the number of files that
  lack clusters at once; `Recycled` has one name, which a new directory may show, in one
  entry. The run has one directory besides the root, so that no directory moves in it; the
  actions and the proof have no such bound. Names have at most 13 characters (one LFN entry),
  and the File-Cache of a file has one level (`OneLevelAssumption`, 256 KBytes): above that,
  `fat32.c:2972-2975` sets the number of levels to 1 before it frees the tree, of which a
  part is lost.
* Heap: `MIN_BLOCK_SIZE` is 4 instead of 64 or 128, with heaps of 4 to 32
  bytes: both cases of the size of `alloc[]` and splits over two levels occur. All three
  sizes are constants (`HeapMinIndex`, `HeapIndexes`, `HeapRequests`); `HeapAssumption` keeps
  them where `_get_block` shifts by less than 32, which a heap of 2 GBytes, or a request of more
  than that, does not.
* Channel: calls of two items on a channel that may have one place left are
  divided; four words wrap around. `Quota` bounds the number of items.

### What the passing runs assume of their environment

Each of these is a habit of the callers, and a constant of the module or a line
of the instance; what happens without it is in section 5.

* `Devices`: the calls to the HBA and to the SD card whose return is required
  come from the processor of the IRQ; a channel of a coprocessor does not fail
  before the coprocessor is started, nor in MODE_MWMR, and the coprocessor is
  released after a failure (`Faults = {}`).
* `KernelSafety`: no two allocations of terminals overlap (`Overlap`), no key is
  typed while the IRQ of the terminal is masked (`TypeAhead`), one task of an
  application reads, applications that share a terminal run on one processor, and
  the write of a mailbox is served at once. `_mmc_sync` and `_mmc_inval` have
  completed when they return; an image is not written over one that is still to
  be displayed (`Ahead`). The vsegs of the mapping: RAM only in clusters with
  processors, no big and small vseg in one BPP, the same flags in one BPP, no
  vseg that starts in a BPP that is mapped already and ends in another, no small
  vseg longer than a BPP (`_get_small_ppn` does not look), and a PTAB vseg in each
  cluster (`boot_ptab_init` exits otherwise): `BootAssumption`. A
  processor has at most one active task (`OneActiveTask`, which the instance has), and fewer
  than `IDLE_TASK_INDEX` tasks (`StartupAssumption`).
* `TasksAndPrograms`: barriers work (the SQT barrier does not, see section 5), the prints
  are left out; the display of gameoflife is done when the call returns, and the
  uninitialised `cy` of its heap loops is 0 on a mesh of one row; the heaps of the
  other clusters are initialised before the main thread of ocean allocates in them, a new
  heap holds zeroes, and its solver takes given decisions, the same for all the threads.
  Kernel and global vsegs are not compared with those of the applications.
* `Fat`: an empty file with a stale cluster is not truncated, removed or
  replaced ("empty" in `Habits`), and a file that was refused clusters is truncated, removed,
  replaced or closed, but neither read, written nor moved again ("refused"): it has a size
  without clusters, and the code follows an index that may be stale. A descriptor that has lost its
  inode is not used again, and a descriptor is used by one task at a time. No I/O error, no full
  directory, no transfer of 0 bytes; a directory is opened to be read. What is left in
  the block of a new directory has no name that an application uses. FS_INFO is
  written and never read back. A cluster that is freed and extended again
  has junk in it until it is written.

### Fairness

* Locks and barriers: weak fairness of each task that has started an
  operation. A polling task has its own processor, or gets it back from the
  scheduler (`RunnableRuns`).
* Scheduler (`MCFairSpec`): a processor does not stop in the kernel, and the timer
  interrupt, which is periodic and has the highest priority in `_irq_demux`, is
  served again and again (strong fairness, because critical sections disable it
  in between). Nothing is asked of the devices, of the WAKUP mailboxes, nor of
  the tasks: exits, yields and exceptions need not happen.
* Drivers: runnable tasks run, the device completes each transfer, a pending
  interrupt is served. Strong fairness where a critical section of the same
  processor can disable the step for a while. The slot allocator of the HBA gives the SQT
  lock back after a scan that found nothing and takes it again (`hba_driver.c:109-127`): the
  lock lets each task scan again and again (`Progress` in `MCShared`), but a scan may
  fall each time on a moment where all the slots are taken. So the scan is weakly fair
  only: a slot that stays free is found, and a task may starve while others come and
  go, which the code does not exclude. `AccessesReturn` asks for the return of an access to the
  HBA once it has its slot.
* Channel: every task goes on until it has transferred its quota.

## 5. What the runs found

1. `_sqt_barrier_decrement` flips `sense` before it restores `count`
   (`kernel_barriers.c:323-324`, same in `user_barrier.c`). A task that leaves
   early and comes back decrements the old count; the restore erases it and the
   barrier stays closed for ever. `_simple_barrier_wait` has the right order.
2. `_hba_access` starts the transfer (`hba_driver.c:316`) before it declares the
   command active (319). An ISR on another processor in between does not know
   the command, and the task is never woken up. From the processor of the IRQ
   the critical section hides the problem.
3. `_hba_isr` keeps an error in `_hba_status` for ever, for all the slots.
4. `_sdc_isr` compares its cursor with `_ahci_cmd_ptw`, which it reads again in
   each turn (`sdc_driver.c:484`), but looks at one old snapshot of PXCI: the next
   command of a task that the first turn woke up on another processor is taken
   for a completed one.
5. `_ctx_exec_task` clears the IOC bit of a task whose transfer is in flight; the
   completion of that transfer then wakes up the next blocking call.
6. `free()` of the applications does not reset `alloc[]`, contrary to the kernel.
7. `_fat_open` with O_TRUNC releases the clusters of a file and leaves the first
   one in the inode and in the directory entry (`fat32.c:2978`): the next
   truncation or removal of the empty file releases them again.

Seen while modelling, and not run (instances of the same modules show them):

* EXEC of the running task is acknowledged but the live registers win
  (`ctx_handler.c:172-199`); a KILL behind the first runnable task is served at
  a later tick than `ctx_handler.h:90` says.
* `_ext_irq_release` finds a mailbox of its own processor only
  (`irq_handler.c:239`): when a shared terminal is released by a kill on another
  processor the mailbox is lost.
* `_ext_irq_alloc` unmasks the IRQ (`irq_handler.c:191`) before it sets the vector
  of the mailbox (195): a key that waits is served for the previous owner.
* Two overlapping calls of `_sys_tty_alloc` may get the same channel (757).
* The channels of a coprocessor run before its task is declared
  (`sys_handler.c:593-619`): the task whose channel fails in between is never
  woken up. A task that exits after an error keeps the coprocessor.
* `applications/display/main.c:79` writes an image into a buffer before it is
  free again: the eviction of a line mixes two images. The kill of the owner of a
  NIC channel leaves its CMA channel running.
* A vseg of several big pages asks for its first one only (`boot.c:441`): if
  another vseg has it, the following pages are not allocated, and are given away
  again. The stacks of `applications/classif` with 3 processors per cluster do
  so from cluster 86 on.
* `boot.c:1279-1280` writes the address of the word that contains the entry point
  in CTX_EPC and in CTX_ENTRY, and `kernel_init.c:294-296` replaces CTX_ENTRY only:
  a second active task of a processor is resumed, by the first context switch,
  at a word of data. No mapping of the repository has two.
* `boot_scheduler_init` does not compare the number of tasks of a processor with
  `IDLE_TASK_INDEX`: a 14th one has its context overwritten by the idle task. A
  task whose `proclocid` is too large is left out without a word (1262-1264).

Mapping toolchain:

* `Periph.xml` (`mapping.py:2383-2388`) writes empty elements for all peripherals but PIC and
  XCU, and `xml_parser.c:1137-1149` takes the next `<periph` for their end: `xml2bin` loses
  every peripheral that follows one of them, with its interrupts, and fails on a cluster where
  nothing follows. `genmap` writes `map.bin` by itself, so that the builds of the repository
  do not meet it. `ParsedSound` describes exactly what is lost. `xml_parser.c` tests
  "SIM" twice (1041-1042), so that TIM is refused, and has no SPI interrupt; the subtype of an IOC is overwritten by 0xFFFFFFFF
  (1085-1109); the attribute is `use_ram_disk` in one, `use_ramdisk` in the other.
* `PSEGTYPES` of `mapping.py` has 'PERI' = 1, `PSEG_TYPE_PERI` is 2, and `pseg_type[]` of
  `xml_driver.c` has two entries. `xml_driver.c` does not close its vsegs (301, 341).
* `cbin` stores 0 as the heap of a task that has none; `sys_handler.c:2302` tests
  0xFFFFFFFF: malloc of such a task gets the first vseg of the space.
* `hard_config` and `giet_vsegs` leave by `sys.exit()`, without a status, after
  `map.bin` was written.
* `boot.c:1113-1125` takes arg1 of the XCU for its number of WTIs and arg2 for that of
  PTIs; `mapping.py:1059-1060` writes arg1 as XCU_NB_PTI. Too many IRQs give a message
  without an exit (808-811), and MAX_VSPACES is never tested.

Applications:

* The macro `printf` of convol (372-375) and transpose (210, 287, 403) is three
  statements and follows an `if` without braces: tasks that have not taken `tty_lock`
  release it, `current` overtakes `free`, and the next acquire spins for ever.
* `init_ok` of router is not volatile, and the applications are compiled with -O2.
* `gameoflife/main.c:189-193` reuses `cx` and leaves `cy` uninitialised; its images may
  be torn by the next generation, and the uint overflow of a column is only right
  when WIDTH and HEIGHT divide 2^32. `sort` with one thread reads the null `dst_array`
  (172). The arrays of transpose have 8 x 8 clusters, its assertion accepts 16 x 16, and
  `check_line_after` is never used.
* The stacks of sort and router are not aligned on pages with 3 processors; the
  heaps of convol reach its stacks above 16 clusters, those of ocean 0x80000000 above
  4. `coproc.py` asserts `.procs != 0`, a list. The tasks of display need two processors.
* ocean: main allocates in heaps of other clusters before their threads have
  initialised them, and `remote_malloc` exits then; a thread with `lpid` other than 0
  outside of cluster (0,0) reads `lev_res` and `numlev` in `slave` before the first
  thread of its cluster has copied them; the first line and column of a coarse
  `q_multi` are never written (`putz` starts at 1) and rely on a zeroed heap; main
  reads the 64-bit `sync_time` of the others while they add their last wait to it;
  `lev_tol` is written by all the threads of a cluster, with equal values.

## 6. Proofs

Each proof module states an inductive invariant, proves that each action keeps it,
and derives the properties of the runs from it. The constants are arbitrary under
the assumptions named here; TLC evaluates the same assumptions on the instances.

### The ticket lock (`SharedProofs`)

For every finite set of tasks and every number of ticket values at least as large
(`TicketAssumption`): `TypeCorrect`, `DisciplineCorrect`, `MutualExclusionHolds`, and
`LockIsFifo`, the refinement of `FifoLock`, of the specification of `TicketLock`;
`LockOfShared` carries them over to `MCSpec`, under which the run checks them.

Mutual exclusion is not inductive: two tasks with the same ticket could both
leave the polling loop. The inductive invariant `IInv` is `TypeOK` and
`TicketDiscipline`: outstanding tickets are pairwise at different distances
from `current`, these distances are smaller than the number of outstanding
tickets, `free` is that number away from `current`, the holder has the ticket
`current`, and nobody but the holder is going to write `current`. The proof
has one lemma per action that the discipline depends on (`TakeTicketDiscipline`,
`PollDiscipline`, `ReleaseDiscipline`) and one on the number of outstanding
tickets (`OutstandingFinite`); the wrap around is confined to the lemmas that
move a counter. For the refinement, the discipline says that each place of the queue
has exactly one task: taking a ticket appends to the queue, the write of
`current` drops its head, the other accesses leave it alone.

### The distributed lock and the barriers (`SharedProofs`)

For any paths that make a tree (`SharedAssumption`), any finite sets of tasks, node
counters with at least as many values as there are tasks, and any number of rounds:
`NodesExclusiveHolds`, `LockIsMutex`, `ArrivalsCountedHolds`, `BarriersAreBarriers`,
and `SqtBarrierIsBarrier` on the specification of the distributed barrier itself.

* Lock: the discipline of the ticket lock holds on every node at once, among the
  tasks that have a ticket of the node or hold it. A task has one variable for its
  tickets, and forgets the one of a node when it climbs to the parent; the invariant
  says that the ticket it forgets is the one `current` shows, until the task itself
  gives the node back.
* Simple barrier: the flag alternates, so that a task that polls with the value the
  flag has now is *late*: its round is over, it has not left yet. All tasks are in the
  same round when the late ones count as gone, the task that resets the barrier is
  alone, and `CountNotArrived`.
* Distributed barrier: `CountNotArrived` is false for it (section 5), and yet the
  barrier never opens early. The flag of a node is the parity of the number of its flips,
  which each task can tell from its own round (`Flips`); this number never decreases
  from a leaf to the root (`FlipsInv`); a task that completed a node, and has not flipped it,
  has all the others of the node waiting below it, in its round (`AloneInv`). What
  remains of the count is one direction: it is never smaller than the number of children
  that are not waiting (`CountInv`), since a restore only adds to it. So the decrement to
  zero means that all the children wait (`LastArrival`, by the injection of the waiting
  tasks in the children of the node, and by the same invariant one level below).

### The channel (`ChannelProofs`, `SharedProofs`)

For any writers and readers, any width of the items, any capacity and any quota
(`MwmrAssumption`: the two sizes are not zero, a task writes or reads; a task that does
both is two clients): `ChannelIsFifo`, the refinement of `Channel` together with
`TypeOK`, and `ChannelHolds`, the same for `ChannelSpec` in `MCShared`.

That the items stay whole is not inductive: nothing in `Content` says what a transaction
that is half done has put behind `ptw`, or taken in front of `ptr`. The invariant
`ChannelInv` has four parts. `Types`. `QueueInv`: the queue of the lock has no task twice,
and the task inside is its head, so that at most one transaction is under way.
`RingInv`: `ptw` is `sts` words after `ptr`, `sts` is a multiple of the width, and the
words between the pointers are words of writers. `TasksInv`: a transaction fits in what
the channel had to offer when its length was computed, and no other task has changed it
since; the first `n` words of a writer lie behind `ptw`, those of a reader are copies of
the words from `ptr` on, and the words of the previous transactions are a multiple of
the width too. `Update` alone moves the items: the
sequence in the channel grows by the items of the writer (`PutItems`) or loses its first
ones to the reader (`GetItems`, `ReceiveItems`), and these lemmas rest on the
arithmetic of the positions modulo `depth` (`Positions`) and of the words of an item
(`WholeSums`, `WordOfItem`).

### The heap (`SharedProofs`)

For any size of the heap, of the smallest block and of the requests (`HeapAssumption`), and
whatever pointers are given to `_free`: `HeapSoundHolds`, which is `HeapIsPartitioned`,
`FreeBlocksAreMaximal` and `NeverAlreadyAllocated`.

None of the three is inductive. `HeapIsPartitioned` counts the blocks that contain an
address, and does not say that they are aligned: the companion of a block that is not
aligned is no block. The invariant, `HeapInv`, says that the blocks in use, the free ones and
that of `alloc[]` tile the heap (`Tiles`: each is aligned on its size, no two have an
address in common, each address is in one), that `alloc[]` registers the blocks in use, and that
no list holds a block and its companion. The argument:

* `Pieces(b, i, j)` are the parts of the aligned block of index `j` around `b` that are
  left when the block of index `i` is cut out of it: the companions of `b` at each
  index between the two. They tile it (`PiecesTile`), so that a tiling stays one when a
  block is replaced by its pieces (`SplitTiles`) or replaces them (`MergeTiles`).
  `_heap_init`, `_get_block` with `_split_block`, and `_update_free_array` are three uses of it
  (`HeapStarts`, `HeapMalloc`, `HeapFree`);
* a request takes the block from the first list that is not empty, so that the lists into
  which it pushes have one block afterwards; a release pushes where the companion is not
  free. So the companions are never both in a list;
* hence `FreeBlocksAreMaximal` (`HeapMaximal`): the smallest aligned range that is free and in
  no free block would have its two halves in the same list;
* the block at the head of a free list is not registered in `alloc[]`, since a registered block
  with the same base would overlap it.

The provers know nothing of `2 ^ i`. What is needed of it (`Powers`: a block of the next size
is two of this one) follows from the number of subsets of `1 .. i`, which the library
has; inductions over the index are written as minimal counterexamples (`LeastIndex`).

The invariants of the structures together are one of `MCSpec` (`SharedInvariant`);
`SharedTypes` is the type invariant of all of them.

### The scheduler (`KernelProofs`)

For any number of processors, of tasks on each of them (up to `IDLE_TASK_INDEX`), of
applications and of shells (`SchedulerAssumption`): `TypeCorrect`, `NoLostWakeupHolds`,
`StoppedDoesNotRunHolds`, `WakeupPendingHolds`, `WaitHonouredHolds`.

The first three are inductive. `WakeupPending`
is not: when a scan ends on the idle task, a task that it passed may have been
made runnable by an ISR of another processor. `PassedNotRunnable` adds that such
a task has its wake-up announced. The argument has three parts:

* what a step of a processor does to the others (`OthersKept`): it may clear
  NORUN bits of their tasks, and then the WTI is on its way; it never undoes one;
* what a scan does on its own processor (`ScanPending`), where two facts on
  `next_task_id = tid % tasks` are needed: the scan meets every index
  (`ScanCovers`, so that giving up means that nothing was runnable) and none
  twice (`ScanDistinct`, so that an EXEC does not make a passed task runnable);
* `_isr_wakup` consumes the mailbox only to start a scan from scratch
  (`CallSwitchPending`), or when the processor is not idle.

`WaitHonouredUnlessRestarted` needs an invariant of its own, `WaitInv`, because an EXEC
overwrites the context of a task behind its driver, and is served long after the shell
looked at the task. It follows each EXEC from the shell to the scan that serves it, and
says of the tasks that are not restarted while they run: the EXEC meets a task that is
stopped, at every moment in between (`MeetsStopped`); there is at most one for a task,
among the SIG words and the lists of all the shells (`OnlyOnce`); a task behind the call
of a driver has its NORUN_MASK_IOC, or its transfer is over (`WaitMarked`).

A behaviour of `MCSpec` has several components side by side. `OneComponentMoves` says that a
step is one of the scheduler or leaves all its variables alone, and the same for
the terminals and the buffers (`SameTerminals`, `SameBuffers`). The start is one more (`SameStartup`). So the invariants of the
components together are one of `MCSpec` (`ComponentsInvariant`): the scheduler's properties
hold there too (`SchedulersInKernel`).

`KernelTypes`: the variables of all the components of `MCSpec` keep their types. For
the boot loader that says that the allocators of a cluster never leave its segment or
the BPP they share out (`BootInv`, `BootMaps`): it is where the length of a small vseg matters.
`MCSpec` states the fairness of the scheduler besides its steps (`KernelSchedules`). What the
page tables map, `SpacesSound`, is only model-checked.

### The start of the kernel (`StartupProofs`, `KernelProofs`)

For any clusters, processors, vspaces, tasks, interrupts and segments of ELF files
(`StartupAssumption`): `StartsInOrderHolds`, `IrqsRoutedHolds` and, when a processor has at
most one task of the vspaces that start (`OneActiveTask`), `BootsIntoSchedulerHolds`; in
`MCSpec`, `StartupSoundHolds`.

Nothing protects the tables of the boot but its barriers. The invariant, `IInv`, says
that what is written is a function of the barriers that each processor has passed, and of
the step it has reached since:

* `Places`: the processors that do not run the boot loader sleep until their leader has
  entered the kernel, and a processor waits only at a barrier;
* `InStep`: who is past a barrier knows that all the others have done their work in
  front of it;
* `Tables`, `KernelTables`: the contexts, the interrupt vectors, the masks and `_schedulers`
  are those that the mapping asks for, as far as their cluster has come; a task has the place
  in the table of its processor that is its rank among the tasks of that processor
  (`Ranks`), hence no two contexts overlap;
* `FilesLoaded`: a segment is where its vseg is once the processors 0 of the cluster have
  copied it, and the one buffer through which all segments go holds the segment of the
  turn until all of them have.

`BootsIntoScheduler` is a refinement of the initial states: the last state of the start,
seen as contexts, NORUN bits and signals, is one of `Init` of `Scheduler`, for which its
`SchedulerAssumption` has to hold too. Without `OneActiveTask` it does not:
`SecondTaskIsLost` proves that a second active task of a processor never gets the entry
point of its code, in any behaviour (`kernel_init.c:294-296`, section 5).

### The terminals (`TerminalsProofs`)

For any tasks, processors, applications, channels, mailboxes and keys
(`TerminalsAssumption`): `TerminalsAreSound`, and in `MCSpec` `TerminalsSoundHolds`. The code leaves
to the applications what it should do itself, and the theorem names it in its hypotheses. TLC
finds a counterexample without each of them.

* `~Overlap`: no allocation overlaps another one, nor a kill in its own application.
  `_sys_tty_alloc` and `_sys_tty_release` take no lock (`sys_handler.c:757`).
* `OneProcessor`: the tasks that share a terminal run on one processor, which is a property
  of the mapping. `_ext_irq_release` looks for the mailbox in the tables of the
  processor that executes it (`irq_handler.c:239`), so that without this `BoxesAreUsed` is
  false.
* `~TypeAhead`: no key is typed while the IRQ of its terminal is masked
  (`irq_handler.c:191`). Only `KeysInOrder` needs it: who owns a terminal, to whom
  its interrupt goes and that no mailbox is lost is proved for keys that come at any time.

So these are theorems about the allocations, kills, starts, reads and interrupts that
the hypotheses leave free to interleave, and say nothing of the three races, which are
among the observations of section 5.

No property is inductive: between two steps of an allocation or a release the
tables disagree. The invariant, `TtyInv`, tells for each place of a task what it has done so far:

* who has a channel: a task of the application that owns it, or the one task that
  allocates or releases it (`AllocInv`, `OwnInv`, `ReleaseInv`);
* each mailbox in use has one channel routed to it, and its entry in the vector is that
  channel, except between the step that takes it and the step that writes the
  entry (`BoxInv`, `EntryInv`, `RouteInv`, `OwnRouteInv`);
* the keys: those that were read are not after the one in the buffer (`KeysInv`), and
  before it (`Fresh`) whenever the ISR is between its read of the device and its write of
  `rxFull` (`IsrInv`), or `rxFull` is set and no task is about to clear it (`FullInv`): in
  no other place may a task read the buffer. A key waits in the device only while
  somebody owns the terminal (`UnreadInv`).

### The buffers (`DmaProofs`)

For any number of buffers and of lines, and any number of contents that is a multiple of
the number of buffers (`DmaAssumption`), with an application that does not run ahead of the
CMA (`~Ahead`): `BuffersMoveInOrder`, and in `MCSpec` `ContainersInOrderHolds`.

`MovedInOrder` speaks of the last step of a task or of the CMA. The invariant,
`DmaInv`, follows a content through the RAM, the cache and the copy of the task:

* the status word, in the RAM, in the cache or modified in the cache: the CMA has a
  buffer as soon as the cache writes its status back, which may be before the
  task goes on (`Given`, `StatusInv`);
* the number of the content that a buffer holds, or waits for. The counters wrap;
  `TurnInv` compares the task's own counter with the number of moves the CMA makes before it
  comes to the buffer;
* each line: a received one is in the RAM, and no stale or modified copy hides it once
  the task has invalidated it (`RxInv`); a sent one is in the cache, modified, or in the
  RAM, and in the RAM when the CMA has the buffer (`TxInv`).

### The devices (`DeviceProofs`)

For any set of tasks, any choice of those that run on the processor of the IRQ and any
number of slots (`NoneAssumption`: a task is not the value `None`; `SdcAssumption`): `DevicesTypeCorrect`,
`TransfersIdentified`, and, when the devices report no error, `AccessesAreBlocking`. The
last hypothesis is `~Errors`, a constant of the module, as in the run `Devices`: with
errors `HbaErrors` refutes the property.

`BlockedIsIdentified`, `SlotOwner` and `ActiveIsWaiting` are not inductive: that the ISR
finds the right task depends on where the transfer is. The invariants follow it from
the start to the task: in the device, in the ISR, in the tables. BDV: the
registers and `_bdv_gtid` belong to the head of the lock, and a task is blocked from the
NORUN bit to its wake-up (`BdvOwner`, `BdvBlocked`, `BdvOutcome`). HBA: a transfer in
progress has a blocked task in its slot, and the ISR of a step wakes up only slots that
are active and over (`HbaTables`, `HbaTransfers`). SDC: one access at a time, hence
the two pointers of the ring are equal or one apart, and the ISR is between them
(`SdcAlone`, `SdcWaits`). Coprocessor: what each channel and its ISR may still do in
each mode.

### The descriptors of the files (`FatProofs`)

For any paths that are sequences of names (`Fat32Assumption`), any sizes of the clusters and
of the FAT, any number of descriptors, any transfers and whatever the directories hold:
`DescriptorsAreCounted`, which is `DescriptorsCounted`. `_fat_close` flushes and releases the
cache of a file when its count comes to zero, and the removal of a file is refused when it is
not zero, on its own or as the target of a rename: a count that is wrong loses data, or frees
an inode that is in use. The removal of a directory (`fat32.c:3702` tests files only) and
`_fat_rename` (3872-3903) do not look at the count of what they remove or move. The
theorem says that this is the only way in which a descriptor loses its inode, and that the
descriptors that have lost theirs are counted by no other one, the new inode at the same path
or at the new one included.

The invariant, `FatInv`, is the shape of the inode tree and of the descriptors, and the
counts. Most of the proof is what does *not* change: `SameCounts` relates two trees that
have the same counts, it is transitive, and each operation on the caches and directories
keeps it (`LoadAllCounts`, `FlushCounts`, `ReleaseCacheCounts`, `RemoveDirEntryCounts`,
`AddDirEntryCounts`, `UpdateDirEntryCounts`, `StoredCounts`). What is left is:

* the search of a path (`Resolve`) loads inodes on its way, one name after another, and
  a loaded inode takes the place of none, so that it has no descriptor (`DescendCounts`). The
  induction along the path is on the first name where this would fail (`FirstNumber`), since
  `Resolve` is a recursive function;
* an open takes a descriptor that was free (`FreeDescriptor`) and adds one to the count
  (`CountsOpen`), a close takes away one that was there (`CountsClose`);
* an inode that is made has no descriptor, since nothing had its path (`NewNodeCounts`);
* the descriptors of what is removed or moved are left without inode at the same step
  as the inode leaves the tree (`Left`, `LeftLeaves`, `CountsLeft`); for the removal of a
  file there are none, because the code has tested the count.

`CachesCoherent`, `ClosedIsDurable` and `VolumeSound` need the contents of the directories
and the chains of the FAT as well.

### Only model-checked

* Liveness under fairness, and `ENABLED`, which TLAPS does not handle.
* What the recursive functions compute for every input (`SqtTree`: `TreeIsBuilt`),
  since the induction theorems take an operator as a parameter.
* `SpacesSound`: the entries of the page tables depend on the layout of the vsegs in each
  BPP, most of the assumptions of which (section 4) speak of all the vsegs at once.
  `MappingSound`: the scripts of the mapping are those of the instance.
* `ProgramsSound`, `PipelinesSound`: the programs and their sizes are those of the instance.
* `Fat32`: `FileStore`, `TypeOK`, `VolumeSound`, `CachesCoherent`, `ClosedIsDurable` and
  `CrashLeavesFilesWhole`. The chains of clusters are recursive functions over the FAT.

## 7. Not modelled

* `spi_driver.c`, `rdk_driver.c`, the polling mode and the initialisation of the
  disk drivers; `tim_driver.c`, `iob_driver.c`, `sim_driver.c`, `xcu_driver.c`,
  `pic_driver.c`: register accesses without state of their own.
* The TIM and NIC channel allocators, counters that one application uses.
* `vmem.c`, `iommu.c`: lookups.
* `_simple_lock_*` and the LL/SC loops in assembly, which are the atomic steps of
  the models.
* `stdio.c`, formatting, `tty0.c`: output.
* `memo`, a host tool that the Makefile does not use; the C headers, and the device trees
  of other systems, that `mapping.py` prints; the parsing of XML attributes; the
  way back from binary to XML.
* raycast, dhrystone, hello, pgcd, shell, display and coproc, besides their mappings: a
  command interpreter around system calls that other modules model, and sequential
  programs. The floating point of ocean. `math`: vendored numerical code.
* FAT: I/O errors, a full directory, calls through a descriptor whose inode was freed, files
  above 256 KBytes, the boot after a crash.

## 8. Plan

Done: the locks and barriers, the scheduler, the disk drivers, the coprocessors,
the terminals and mailboxes, the chained buffers, the FAT32 file system, the
heaps, the channels, the page tables, the start of the kernel, the mapping toolchain, the
applications; the theorems on the locks, the barriers, the heap, the channel, the scheduler, the
start of the kernel, the devices, the terminals, the buffers and the descriptors. Next, in this order:

1. `Fat32`: what allocation and release of clusters preserve (`VolumeSound`), as lemmas.
2. I/O errors and directories that move in the run of `Fat32`.
3. The TIM and NIC allocators; display and raycast as parallel programs.
