------------------------------- MODULE MCKernel -------------------------------
(***************************************************************************)
(* The scheduler, the page tables that the boot loader builds before it    *)
(* runs, the start of the tasks that follows, the tables of the mapping    *)
(* that both read, the terminals that _ctx_kill_task gives back, the       *)
(* buffers of the chained buffer DMA, and the applications, side by side:  *)
(* a behaviour uses one of them.                                           *)
(*                                                                         *)
(* Tasks 1 and 2 of the first processor share a terminal, task 3 of the    *)
(* second one has its own. There are two buffers of two cache lines. Two   *)
(* clusters map their vsegs for two vspaces, with big pages of eight small *)
(* ones, so that a PTAB has two PT2s. Two clusters of two processors start *)
(* five tasks of three vspaces, one of which waits for an EXEC: a          *)
(* processor has two tasks, the second of them active, and one has none.   *)
(***************************************************************************)
EXTENDS Scheduler, Integers

CONSTANTS TtyTasks, TtyProc, TtyApp,        \* the tasks that use terminals
          TtyShared, TtyChannels, TtyBoxes, TtyKeys,
          NbBuffers, BufferLines, NbContents  \* the chained buffers

\* The task of the second processor is the shell, or simply a task that can be
\* interrupted by the device while the first one scans its own tasks.
Tasks21 == [p \in {0, 1} |-> IF p = 0 THEN 2 ELSE 1]
Tasks11 == [p \in {0, 1} |-> 1]

Apps11 == [a \in {"app", "shell"} |-> IF a = "app" THEN <<<<0, 0>>>> ELSE <<<<1, 0>>>>]

\* The first processor runs a task of an application that can be killed, and
\* one of another application, which is always active.
Apps21 == [a \in {"app", "other", "shell"} |->
             IF a = "app" THEN <<<<0, 0>>>> ELSE
             IF a = "other" THEN <<<<0, 1>>>> ELSE <<<<1, 0>>>>]

TtyProc001 == <<0, 0, 1>>
TtyApp112 == <<"app", "app", "other">>

First == {<<0, 0>>}
Shell == {<<1, 0>>}

VARIABLES kind,     \* the component that a behaviour uses
          x1, x2, x3, x4, x5, x6, x7, x8, x9, x10,
          x11, x12, x13, x14, x15, x16, x17, x18, x19, x20

\* The places that a component leaves: those from a number on.
from14 == <<x14, x15, x16, x17, x18, x19, x20>>
from13 == <<x13, from14>>
from12 == <<x12, from13>>
component == <<x1, x2, x3, x4, x5, x6, x7, x8, x9, x10, x11, from12>>

Tty == INSTANCE Terminals
  WITH Tasks <- TtyTasks, Proc <- TtyProc, App <- TtyApp, Shared <- TtyShared,
       NbChannels <- TtyChannels, Boxes <- TtyBoxes, Keys <- TtyKeys,
       Overlap <- FALSE, TypeAhead <- FALSE,
       ttyChannel <- x1, owned <- x2, wtiAlloc <- x3, wtiVector <- x4,
       route <- x5, rxBuf <- x6, rxFull <- x7, typed <- x8, unread <- x9,
       got <- x10, pc <- x11, chan <- x12, isr <- x13

Dma == INSTANCE ContainerDma
  WITH N <- NbBuffers, NbLines <- BufferLines, Numbers <- NbContents, Ahead <- FALSE,
       use <- x1, ram <- x2, l2 <- x3, dirty <- x4, pc <- x5, n <- x6,
       line <- x7, user <- x8, moved <- x9, cma <- x10, device <- x11

ASSUME KernelAssumption ==
  Tty!TerminalsAssumption /\ Tty!OneProcessor /\ Dma!DmaAssumption

Seg(space, cluster, vpn, length, usage, big, local) ==
  [space |-> space, cluster |-> cluster, vpn |-> vpn, length |-> length,
   kind |-> usage, big |-> big, local |-> local]

\* The boot vsegs; the PTABs; kernel vsegs, of which the fourth one shares the
\* last big page of the sixth one; two peripherals, in a cluster without
\* processors; in each vspace, heaps of both clusters with entries in one PT2,
\* and stacks that share a big page.
Mapping ==
  << Seg(-1, 0,  0,  2, "ident", TRUE,  FALSE),
     Seg(-1, 0,  8,  8, "ptab",  TRUE,  TRUE),
     Seg(-1, 1,  8,  8, "ptab",  TRUE,  TRUE),
     Seg(-1, 1, 37,  2, "ram",   TRUE,  FALSE),
     Seg(-1, 0, 16,  3, "ram",   TRUE,  FALSE),
     Seg(-1, 1, 24, 10, "ram",   TRUE,  FALSE),
     Seg(-1, 2, 80,  1, "ident", FALSE, FALSE),
     Seg(-1, 2, 81,  1, "io",    FALSE, FALSE),
     Seg(0,  0, 88,  1, "ram",   FALSE, FALSE),
     Seg(0,  1, 89,  2, "ram",   FALSE, FALSE),
     Seg(0,  0, 40,  4, "ram",   TRUE,  TRUE),
     Seg(0,  0, 44,  4, "ram",   TRUE,  TRUE),
     Seg(0,  1, 40,  4, "ram",   TRUE,  TRUE),
     Seg(0,  1, 44,  4, "ram",   TRUE,  TRUE),
     Seg(1,  1, 88,  1, "ram",   FALSE, FALSE),
     Seg(1,  0, 95,  1, "ram",   FALSE, FALSE),
     Seg(1,  1, 40,  3, "ram",   TRUE,  TRUE) >>

Boot == INSTANCE BootMapping
  WITH Clusters <- 2, Spaces <- 2, Pages <- 8, Bpps <- 9, Vsegs <- Mapping,
       phase <- x1, cur <- x2, written <- x3, at <- x4, id <- x5, mapped <- x6,
       pbase <- x7, pmem <- x8, pt1 <- x9, pt2 <- x10, nextPt2 <- x11,
       lock <- x12

\* The instance satisfies what BootMapping assumes.
ASSUME BootInstance == Boot!BootAssumption

StartSeg(f, c) == [file |-> f, cluster |-> c]
StartTask(v, x, p) == [space |-> v, proc |-> <<x, p>>]

Boots == INSTANCE Startup
  WITH Clusters <- 2, NbProcs <- 2, Spaces <- 3, ActiveSpaces <- {1, 2},
       Tasks <- << StartTask(0, 0, 0), StartTask(0, 1, 0), StartTask(1, 0, 0),
                   StartTask(1, 0, 1), StartTask(2, 1, 0) >>,
       Irqs <- [c \in {0, 1} |-> IF c = 0 THEN <<"BDV", "MMC", "DMA">> ELSE <<"MMC">>],
       Segments <- << StartSeg(0, 0), StartSeg(0, 1), StartSeg(1, 0), StartSeg(2, 0),
                      StartSeg(2, 1), StartSeg(3, 1) >>,
       phase <- x1, done <- x2, psched <- x3, ltid <- x4, mask <- x5,
       buffer <- x6, loaded <- x7, globals <- x8, released <- x9,
       schedulers <- x10, timers <- x11, epc <- x12

\* The instance satisfies what Startup assumes.
ASSUME StartupInstance == Boots!StartupAssumption /\ Boots!OneActiveTask

\* The scripts that describe the mapping, for 2 * 1 clusters: the calls that build each
\* cluster, the vsegs of the kernel and of its start, and two applications. An optional
\* call is one that a script may forget: the controller whose IRQ is declared, the stack
\* of the boot, the segments that a task or a vspace names.
AddRam(x) ==
  [op |-> "addRam", optional |-> FALSE, xy |-> <<x, 0>>, base |-> 0, name |-> "RAM"]
AddPeriph(x, type, subtype, optional) ==
  [op |-> "addPeriph", optional |-> optional, xy |-> <<x, 0>>, name |-> type,
   type |-> type, subtype |-> subtype]
AddIrq(xcu, src, isr) ==
  [op |-> "addIrq", optional |-> FALSE, periph |-> xcu, src |-> src, srcid |-> 1,
   isr |-> isr]
AddProc(x, optional) ==
  [op |-> "addProc", optional |-> optional, xy |-> <<x, 0>>, lpid |-> 0]
AddGlobal(stem, name, vbase, x, ident, optional) ==
  [op |-> "addGlobal", optional |-> optional, stem |-> stem, name |-> name,
   vbase |-> vbase, length |-> 2, type |-> "ELF", xy |-> <<x, 0>>, pseg |-> "RAM",
   ident |-> ident]
AddVspace(name, start) ==
  [op |-> "addVspace", optional |-> FALSE, name |-> name, start |-> start]
AddVseg(vspace, name, vbase, length, x, type, optional) ==
  [op |-> "addVseg", optional |-> optional, vspace |-> vspace, name |-> name,
   vbase |-> vbase, length |-> length, type |-> type, xy |-> <<x, 0>>, pseg |-> "RAM",
   ident |-> FALSE]
AddTask(vspace, name, x, stack, heap, optional) ==
  [op |-> "addTask", optional |-> optional, vspace |-> vspace, name |-> name,
   xy |-> <<x, 0>>, lpid |-> 0, stack |-> stack, heap |-> heap]

\* The first two peripherals of the clusters.
FirstPeriph(x) == <<<<x, 0>>, 1>>
SecondPeriph(x) == <<<<x, 0>>, 2>>

Cluster0 ==
  << AddRam(0), AddPeriph(0, "XCU", "NONE", FALSE), AddPeriph(0, "IOC", "BDV", TRUE),
     AddIrq(FirstPeriph(0), SecondPeriph(0), "ISR_BDV"),
     AddIrq(FirstPeriph(0), FirstPeriph(0), "ISR_MMC"),
     AddPeriph(0, "TTY", "NONE", TRUE), AddProc(0, FALSE) >>
Cluster1 ==
  << AddRam(1), AddPeriph(1, "XCU", "NONE", FALSE),
     AddIrq(FirstPeriph(1), FirstPeriph(1), "ISR_MWR"),
     AddPeriph(1, "DMA", "NONE", TRUE), AddPeriph(1, "MWR", "DCT", TRUE),
     AddPeriph(1, "PIC", "NONE", FALSE), AddProc(1, TRUE) >>
KernelVsegs ==
  << AddGlobal("seg_boot_mapping", "seg_boot_mapping", 0, 0, TRUE, FALSE),
     AddGlobal("seg_boot_code", "seg_boot_code", 2, 0, TRUE, FALSE),
     AddGlobal("seg_boot_data", "seg_boot_data", 4, 0, TRUE, FALSE),
     AddGlobal("seg_boot_stack", "seg_boot_stack", 6, 0, TRUE, TRUE),
     AddGlobal("seg_kernel_data", "seg_kernel_data", 8, 0, FALSE, FALSE),
     AddGlobal("seg_kernel_code", "seg_kernel_code_0", 10, 0, FALSE, FALSE),
     AddGlobal("seg_kernel_code", "seg_kernel_code_1", 10, 1, FALSE, FALSE) >>
KernelInitVseg ==
  << AddGlobal("seg_kernel_init", "seg_kernel_init_0", 12, 0, FALSE, FALSE) >>
AppA ==
  << AddVspace("a", "data"), AddVseg("a", "data", 100, 2, 0, "ELF", FALSE),
     AddVseg("a", "stack", 102, 1, 1, "BUFFER", TRUE),
     AddVseg("a", "heap", 104, 4, 1, "HEAP", FALSE),
     AddTask("a", "t", 1, "stack", "heap", FALSE) >>
AppB ==
  << AddVspace("b", "data"), AddVseg("b", "stack", 102, 1, 0, "BUFFER", FALSE),
     AddVseg("b", "data", 100, 2, 0, "ELF", TRUE), AddTask("b", "u", 0, "stack", "", TRUE),
     AddTask("b", "v", 0, "data", "stack", FALSE) >>

Scripts == << Cluster0, Cluster1, KernelVsegs, KernelInitVseg, AppA, AppB >>

\* None; the two clusters; the start of the kernel with an application; the two
\* applications.
Mixes == {{}, {1, 2}, {4, 5}, {5, 6}}

Map == INSTANCE MapTables
  WITH XSize <- 2, YSize <- 1, NbProcs <- 1, RamBase <- 0, RamDisk <- FALSE,
       Scripts <- Scripts, Mixes <- Mixes,
       mixed <- x1, pos <- x2, clusters <- x3, globs <- x4, vspaces <- x5,
       total <- x6, exit <- x7, bin <- x8, events <- x9, at <- x10, xbin <- x11

\* The instance satisfies what MapTables assumes.
ASSUME Map!MapAssumption

Appli == INSTANCE Applications WITH app <- kind

OfApplications == kind \in {"spmd", "router", "classif", "values", "layout"}

Alone == kind = "scheduler" /\ x1 = <<>> /\ Appli!Unused2

MCInit ==
  /\ Init
  /\ \/ Alone
     \/ kind = "terminals" /\ Tty!Init /\ Appli!Unused14
     \/ kind = "buffers" /\ Dma!Init /\ Appli!Unused12
     \/ kind = "boot" /\ Boot!Init /\ Appli!Unused13
     \/ kind = "startup" /\ Boots!Init /\ Appli!Unused13
     \/ kind = "mapping" /\ Map!Init /\ Appli!Unused12

SchedulerStep(Step) == kind = "scheduler" /\ Step /\ UNCHANGED <<component, kind>>

MCNext ==
  \/ SchedulerStep(Next)
  \/ kind = "terminals" /\ Tty!Next /\ UNCHANGED <<vars, from14, kind>>
  \/ kind = "buffers" /\ Dma!Next /\ UNCHANGED <<vars, from12, kind>>
  \/ kind = "boot" /\ Boot!Next /\ UNCHANGED <<vars, from13, kind>>
  \/ kind = "startup" /\ Boots!Next /\ UNCHANGED <<vars, from13, kind>>
  \/ kind = "mapping" /\ Map!Next /\ UNCHANGED <<vars, from12, kind>>
  \/ OfApplications /\ Appli!Next /\ UNCHANGED vars

mcVars == <<vars, component, kind>>

MCSpec == MCInit /\ [][MCNext]_mcVars

AloneInit == Init /\ Alone
AloneSpec == AloneInit /\ [][MCNext]_mcVars

\* FairSpec in the behaviours that use the scheduler, or an application.
TasksInit == Init /\ (Alone \/ Appli!Init)

MCFairSpec ==
  /\ TasksInit /\ [][MCNext]_mcVars
  /\ \A p \in Procs :
       WF_mcVars(SchedulerStep(Kernel(p))) /\ SF_mcVars(SchedulerStep(Tick(p)))

\* The scheduler, the channels, mailboxes, vectors, buffers and places of the terminals, the RAM
\* and the copies of the chained buffers, the allocators and the places of the
\* boot loader, and the tables that it leaves to the kernel.
MCTypeOK ==
  /\ TypeOK
  /\ kind = "terminals" => Tty!TypeOK
  /\ kind = "buffers" => Dma!TypeOK
  /\ kind = "boot" => Boot!TypeOK
  /\ kind = "startup" => Boots!TypeOK

\* The terminal of an application is routed to it and belongs to no other, no mailbox
\* is lost, and a key is read at most once, the keys in order, whatever is released,
\* killed and allocated again meanwhile (_sys_tty_alloc, _ext_irq_alloc, _ctx_kill_task,
\* _tty_rx_isr, _sys_tty_read).
TerminalsSound ==
  kind = "terminals" => Tty!OwnedIsRouted /\ Tty!BoxesAreUsed /\ Tty!KeysInOrder

\* The containers of the network and the images are moved whole, once and in
\* order, although the tasks and the DMA do not see the same copy of the memory
\* (_sys_nic_move, _sys_fbf_cma_display).
ContainersInOrder == kind = "buffers" => Dma!MovedInOrder

\* No page of memory belongs to two vsegs, and every PTAB translates the vsegs that
\* it has to, whatever the other clusters write in it (boot_vseg_map,
\* boot_vseg_pte).
SpacesSound == kind = "boot" => Boot!SpacesSound

\* The processors start in order, each internal interrupt has one of them to serve
\* it, and the kernel starts the tasks of the active vspaces where they begin
\* (boot_scheduler_init, boot_elf_load, kernel_init).
StartupSound ==
  kind = "startup" => Boots!StartsInOrder /\ Boots!IrqsRouted /\ Boots!BootsIntoScheduler

\* The tables that the kernel reads are those of the mapping that was described, when
\* genmap writes them, although it gives the indices before it knows the order of the
\* tables, and when xml_parser.c reads them from XML (Mapping.cbin, headerNode).
MappingSound == kind = "mapping" => Map!GeneratedSound /\ Map!ParsedSound

\* No two threads of an application race for a cell, nothing is read before it is
\* written, nobody waits for ever, and what they compute is what the program is for
\* (the functions main of sort, gameoflife, transpose, convol, ocean), in segments that
\* can be mapped side by side (extend).
ProgramsSound == OfApplications => Appli!TypeOK /\ Appli!ProgramsSound /\ Appli!LayoutsSound

\* No token or container is lost, passed on twice or before the work on it is done
\* (router; load, analyse and store of classif).
PipelinesSound == OfApplications => Appli!PipelinesSound

\* Round robin: a runnable task runs, or is stopped, whatever the others do
\* (_ctx_switch).
TasksRun == kind = "scheduler" => RunnableRuns

\* A KILL signal reaches its task, even when the task never calls the kernel
\* (_ctx_kill_task).
KillsServed == kind = "scheduler" => KillServed

\* A task that gets an EXEC signal starts at its entry point, unless it is killed
\* meanwhile (_ctx_exec_task).
ExecsStart == kind = "scheduler" => ExecStarts

=============================================================================
