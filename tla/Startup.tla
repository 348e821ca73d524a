------------------------------- MODULE Startup -------------------------------
(***************************************************************************)
(* From the end of the page tables (BootMapping) to the first tasks        *)
(* (Scheduler): boot_init, boot_scheduler_init and boot_elf_load in        *)
(* boot.c, and kernel_init in kernel_init.c.                               *)
(*                                                                         *)
(* Only the processor 0 of every cluster runs the boot loader. It builds   *)
(* the schedulers of its cluster and the contexts of its tasks, and copies *)
(* into its cluster the segments of the files that P[0,0,0] loads in a     *)
(* single buffer. It then wakes the other processors up, and all of them   *)
(* execute kernel_init.                                                    *)
(*                                                                         *)
(* Both parts are divided by barriers (see Barrier): the phase of a        *)
(* processor is the number of those that are behind it. A boot error is    *)
(* out of the model, see StartupAssumption.                                *)
(***************************************************************************)
EXTENDS Integers, SequencesExt

CONSTANTS Clusters,     \* number of clusters
          NbProcs,      \* processors in each of them, NB_PROCS_MAX
          Spaces,       \* number of vspaces
          ActiveSpaces, \* those whose tasks are started with the kernel
          Tasks,        \* the tasks: [space, proc], vspace after vspace
          Irqs,         \* internal interrupts of each cluster, in a sequence
          Segments      \* loadable segments: [file, cluster]

IDLE_TASK_INDEX == 13

Proc == (0 .. Clusters - 1) \X (0 .. NbProcs - 1)
First == <<0, 0>>
Leader(p) == p[2] = 0
Leaders == {p \in Proc : Leader(p)}
ProcsOf(c) == {p \in Proc : p[1] = c}

\* The kernel is file 0, vspace v is file v + 1.
Files == 0 .. Spaces

\* The elements of a set of indices in order, and how many come before one of them.
Rank(S, i) == Cardinality({j \in S : j < i})
InOrder(S) == [l \in 1 .. Cardinality(S) |-> CHOOSE i \in S : Rank(S, i) = l - 1]

\* The tasks of processor p and of vspace v, in the order of the mapping.
OnProc(p) == {i \in DOMAIN Tasks : Tasks[i].proc = p}
OfSpace(v) == {i \in DOMAIN Tasks : Tasks[i].space = v}
TasksOf(p) == InOrder(OnProc(p))
LtidOf(i) == Rank(OnProc(Tasks[i].proc), i)

\* Interrupts that are not internal: the timer, the mailboxes.
Boxes == {"box1", "box2", "box3"}
Others == {"TICK", "WAKUP"} \cup Boxes

StartupAssumption ==
  /\ {Clusters, NbProcs, Spaces} \subseteq Nat \ {0}
  /\ ActiveSpaces \subseteq 0 .. Spaces - 1
  /\ DOMAIN Tasks = 1 .. Len(Tasks) /\ Len(Tasks) \in Nat
  /\ \A i \in DOMAIN Tasks : Tasks[i].space \in 0 .. Spaces - 1 /\ Tasks[i].proc \in Proc
  /\ \A i, j \in DOMAIN Tasks : i < j => Tasks[i].space <= Tasks[j].space
  /\ \A p \in Proc : Len(TasksOf(p)) < IDLE_TASK_INDEX
  /\ \A c \in 0 .. Clusters - 1 :
       /\ DOMAIN Irqs[c] = 1 .. Len(Irqs[c]) /\ Len(Irqs[c]) \in Nat
       /\ IsInjective(Irqs[c])
       /\ \A i \in DOMAIN Irqs[c] : Irqs[c][i] \notin Others
  /\ \A s \in DOMAIN Segments :
       Segments[s] \in [file : Files, cluster : 0 .. Clusters - 1]

\* The vspaces that start with the kernel have a task on each processor at most.
OneActiveTask ==
  \A p \in Proc : \A i, j \in OnProc(p) :
    {Tasks[i].space, Tasks[j].space} \subseteq ActiveSpaces => i = j

VARIABLES phase,        \* barriers that each processor has crossed
          done,         \* processors that wait for the next one
          psched,       \* scheduler of each processor
          ltid,         \* task[].ltid, in the mapping
          mask,         \* interrupts that the XCU sends to each processor
          buffer,       \* file in _boot_elf_buffer
          loaded,       \* file that each segment comes from, -1 if none
          globals,      \* structures of the kernel that P[0,0,0] initialised
          released,     \* _kernel_init_done
          schedulers,   \* entries of _schedulers[] that are set
          timers,       \* processors whose TICK timer runs
          epc           \* where each processor jumps to in the end

boot == <<ltid, mask, buffer, loaded>>
kernel == <<globals, released, schedulers, timers, epc>>
vars == <<phase, done, psched, boot, kernel>>

\* The phases that follow those of boot_elf_load, and those of kernel_init.
BootEnd == 2 * Cardinality(Files) + 2
WakePhase == BootEnd + 1
KernelPhase == WakePhase + 1
User == KernelPhase + 4

NoContext == <<>>
NoScheduler == [current |-> -1, context |-> NoContext, idle |-> FALSE, vector |-> {}]

Init ==
  /\ phase = [p \in Proc |-> IF Leader(p) THEN 0 ELSE WakePhase]
  /\ done = {}
  /\ psched = [p \in Proc |-> NoScheduler]
  /\ ltid = [i \in DOMAIN Tasks |-> -1]
  /\ mask = [p \in Proc |-> {}]
  /\ buffer = -1
  /\ loaded = [s \in DOMAIN Segments |-> -1]
  /\ globals = {}
  /\ released = FALSE
  /\ schedulers = {}
  /\ timers = {}
  /\ epc = [p \in Proc |-> "none"]

Working(p, k) == phase[p] = k /\ p \notin done
Finish(p) == done' = done \cup {p} /\ UNCHANGED phase

-----------------------------------------------------------------------------
(* The boot loader                                                         *)

\* Faulty variant: each processor gets one interrupt, and the others are left out.
HwiOfOnce(p) == {Irqs[p[1]][i] : i \in {j \in DOMAIN Irqs[p[1]] : j - 1 = p[2]}}

\* The internal interrupts are dealt to the processors of the cluster in turn;
\* each processor has its timer, a mailbox to be woken up and three Boxes that
\* the kernel allocates, which have no vector yet.
HwiOf(p) == {Irqs[p[1]][i] : i \in {j \in DOMAIN Irqs[p[1]] : (j - 1) % NbProcs = p[2]}}

\* boot_scheduler_init, first part.
InitSchedulers(p) ==
  /\ Leader(p) /\ Working(p, 0)
  /\ psched' = [q \in Proc |->
       IF q[1] # p[1] THEN psched[q]
       ELSE [NoScheduler EXCEPT !.current = IDLE_TASK_INDEX,
                                !.vector = HwiOf(q) \cup {"TICK", "WAKUP"}]]
  /\ mask' = [q \in Proc |->
       IF q[1] # p[1] THEN mask[q] ELSE HwiOf(q) \cup {"TICK", "WAKUP"} \cup Boxes]
  /\ Finish(p)
  /\ UNCHANGED <<ltid, buffer, loaded, kernel>>

\* CTX_EPC and CTX_ENTRY are the address of the word of the data segment that
\* contains the entry point.
Context(i) ==
  [task |-> i, epc |-> "word", entry |-> "word", ra |-> FALSE,
   norun |-> Tasks[i].space \notin ActiveSpaces]

\* boot_scheduler_init, second part: the contexts of the tasks of the cluster,
\* and the registration of their ltid in the mapping.
InitContexts(p) ==
  /\ Leader(p) /\ Working(p, 1)
  /\ psched' = [q \in Proc |->
       IF q[1] # p[1] THEN psched[q]
       ELSE [psched[q] EXCEPT !.context =
               [l \in DOMAIN TasksOf(q) |-> Context(TasksOf(q)[l])]]]
  /\ ltid' = [i \in DOMAIN Tasks |->
       IF Tasks[i].proc[1] # p[1] THEN ltid[i]
       ELSE LtidOf(i)]
  /\ Finish(p)
  /\ UNCHANGED <<mask, buffer, loaded, kernel>>

\* load_one_elf_file has two phases for each file.
File(p) == (phase[p] - 2) \div 2
LoadPhase(p) == p \notin done /\ phase[p] \in 2 .. BootEnd - 1 /\ phase[p] % 2 = 0
CopyPhase(p) == p \notin done /\ phase[p] \in 2 .. BootEnd - 1 /\ phase[p] % 2 = 1

LoadFile(p) ==
  /\ LoadPhase(p)
  /\ buffer' = IF p = First THEN File(p) ELSE buffer
  /\ Finish(p)
  /\ UNCHANGED <<psched, ltid, mask, loaded, kernel>>

\* The program header and the segments are read in the buffer.
CopySegments(p) ==
  /\ CopyPhase(p)
  /\ loaded' = [s \in DOMAIN Segments |->
       IF Segments[s] = [file |-> File(p), cluster |-> p[1]] THEN buffer ELSE loaded[s]]
  /\ Finish(p)
  /\ UNCHANGED <<psched, ltid, mask, buffer, kernel>>

Loaded(p) ==
  /\ Working(p, BootEnd)
  /\ Finish(p)
  /\ UNCHANGED <<psched, boot, kernel>>

\* The processor 0 of a cluster sends a WTI to the others, which only read the
\* tables and their scheduler, and jumps to kernel_init.
WakeUp(p) ==
  /\ Leader(p) /\ phase[p] = WakePhase
  /\ phase' = [q \in Proc |-> IF q[1] = p[1] THEN KernelPhase ELSE phase[q]]
  /\ UNCHANGED <<done, psched, boot, kernel>>

-----------------------------------------------------------------------------
(* kernel_init                                                             *)

Structures == {"heap", "tty0 lock", "barrier", "ext_irq", "disk"}

\* P[0,0,0]: the disk gets the first mailbox of this processor.
InitGlobals(p) ==
  /\ p = First /\ Working(p, KernelPhase) /\ globals = {}
  /\ globals' = Structures
  /\ psched' = [psched EXCEPT ![p].vector = @ \cup {"box1"}]
  /\ UNCHANGED <<phase, done, boot, released, schedulers, timers, epc>>

Release(p) ==
  /\ p = First /\ Working(p, KernelPhase) /\ globals = Structures /\ ~released
  /\ released' = TRUE
  /\ UNCHANGED <<phase, done, psched, boot, globals, schedulers, timers, epc>>

\* Faulty variant: _kernel_init_done is not tested.
SetSchedulerAtOnce(p) ==
  /\ Working(p, KernelPhase)
  /\ schedulers' = schedulers \cup {p}
  /\ Finish(p)
  /\ UNCHANGED <<psched, boot, globals, released, timers, epc>>

SetScheduler(p) ==
  /\ Working(p, KernelPhase) /\ released
  /\ schedulers' = schedulers \cup {p}
  /\ Finish(p)
  /\ UNCHANGED <<psched, boot, globals, released, timers, epc>>

\* CTX_ENTRY is replaced by the word it points to, CTX_EPC is not.
CompleteContexts(p) ==
  /\ Working(p, KernelPhase + 1)
  /\ psched' = [psched EXCEPT ![p].context =
       [l \in DOMAIN @ |-> [@[l] EXCEPT !.entry = "code", !.ra = TRUE]]]
  /\ Finish(p)
  /\ UNCHANGED <<boot, kernel>>

\* The idle task, the timer when there are tasks, and _fat_init on P[0,0,0].
StartTimer(p) ==
  /\ Working(p, KernelPhase + 2)
  /\ psched' = [psched EXCEPT ![p].idle = TRUE]
  /\ timers' = IF psched[p].context = NoContext THEN timers ELSE timers \cup {p}
  /\ globals' = IF p = First THEN globals \cup {"fat"} ELSE globals
  /\ Finish(p)
  /\ UNCHANGED <<boot, released, schedulers, epc>>

Runnable(p) == {l \in DOMAIN psched[p].context : ~psched[p].context[l].norun}

\* Faulty variant: the first task is elected, runnable or not.
ElectFirst(p) ==
  /\ phase[p] = KernelPhase + 3
  /\ psched' = [psched EXCEPT ![p].current =
       IF psched[p].context = NoContext THEN IDLE_TASK_INDEX ELSE 0]
  /\ epc' = [epc EXCEPT ![p] = "code"]
  /\ phase' = [phase EXCEPT ![p] = User]
  /\ UNCHANGED <<done, boot, globals, released, schedulers, timers>>

\* The first runnable task, or the idle task. The interrupts are enabled by the
\* jump (eret).
Elect(p) ==
  /\ phase[p] = KernelPhase + 3
  /\ LET ready == Runnable(p)
     IN /\ psched' = [psched EXCEPT ![p].current =
             IF ready = {} THEN IDLE_TASK_INDEX ELSE Min(ready) - 1]
        /\ epc' = [epc EXCEPT ![p] =
             IF ready = {} THEN "idle" ELSE psched[p].context[Min(ready)].entry]
  /\ phase' = [phase EXCEPT ![p] = User]
  /\ UNCHANGED <<done, boot, globals, released, schedulers, timers>>

-----------------------------------------------------------------------------
(* Barriers: _barrier_all_clusters for the processors 0 in boot_init,      *)
(* _all_procs_barrier for everybody in kernel_init.                        *)

Party(p) == IF phase[p] < KernelPhase THEN Leaders ELSE Proc

\* Processor q has done its work of phase k.
Passed(q, k) == phase[q] > k \/ (phase[q] = k /\ q \in done)

Cross(p) ==
  /\ p \in done
  /\ \A q \in Party(p) : Passed(q, phase[p])
  /\ phase' = [phase EXCEPT ![p] = @ + 1]
  /\ done' = done \ {p}
  /\ UNCHANGED <<psched, boot, kernel>>

Done == \A p \in Proc : phase[p] = User

Next ==
  \/ \E p \in Proc :
       \/ InitSchedulers(p) \/ InitContexts(p) \/ LoadFile(p) \/ CopySegments(p)
       \/ Loaded(p) \/ WakeUp(p)
       \/ InitGlobals(p) \/ Release(p) \/ SetScheduler(p) \/ CompleteContexts(p)
       \/ StartTimer(p) \/ Elect(p) \/ Cross(p)
  \/ Done /\ UNCHANGED vars

Spec == Init /\ [][Next]_vars

-----------------------------------------------------------------------------
(* Properties                                                              *)

TypeOK ==
  /\ phase \in [Proc -> 0 .. User]
  /\ done \subseteq Proc
  /\ \A p \in Proc :
       /\ psched[p].current \in -1 .. IDLE_TASK_INDEX
       /\ psched[p].vector \subseteq mask[p]
       /\ Len(psched[p].context) \in {0, Len(TasksOf(p))}
  /\ ltid \in [DOMAIN Tasks -> -1 .. IDLE_TASK_INDEX - 1]
  /\ buffer \in {-1} \cup Files
  /\ loaded \in [DOMAIN Segments -> {-1} \cup Files]
  /\ globals \subseteq Structures \cup {"fat"}
  /\ schedulers \subseteq Proc /\ timers \subseteq Proc
  /\ epc \in [Proc -> {"none", "code", "word", "idle"}]

InKernel(p) == phase[p] >= KernelPhase

\* What a processor finds when it enters kernel_init, when it uses the structures
\* of P[0,0,0], and when its tasks start (boot_init, boot_elf_load, kernel_init):
\* the work of all the others that it relies on is complete.
StartsInOrder ==
  \A p \in Proc :
    /\ InKernel(p) =>
         /\ \A s \in DOMAIN Segments : loaded[s] = Segments[s].file
         /\ \A q \in Proc : psched[q].current # -1 /\ Len(psched[q].context) = Len(TasksOf(q))
         /\ \A i \in DOMAIN Tasks :
              psched[Tasks[i].proc].context[ltid[i] + 1].task = i
    /\ Passed(p, KernelPhase) => Structures \subseteq globals
    /\ phase[p] = User =>
         /\ schedulers = Proc
         /\ "fat" \in globals
         /\ \A q \in Proc : psched[q].idle /\ (psched[q].context # NoContext => q \in timers)
         /\ epc[p] \in {"code", "idle"}

\* Every internal interrupt of a cluster goes to exactly one processor, which has a
\* vector for it (boot_scheduler_init).
IrqsRouted ==
  \A p \in Proc : InKernel(p) =>
    \A i \in DOMAIN Irqs[p[1]] :
      Cardinality({q \in ProcsOf(p[1]) :
        Irqs[p[1]][i] \in mask[q] /\ Irqs[p[1]][i] \in psched[q].vector}) = 1

\* The tasks and the saved contexts as Scheduler sees them: those that are not
\* active wait for an EXEC, which resets them, and the elected one is on its processor.
ContextOf(t) == psched[t[1]].context[t[2] + 1]
Slots == UNION {{p} \X (0 .. Len(TasksOf(p)) - 1) : p \in Proc}

Slot(i) == <<Tasks[i].proc, LtidOf(i)>>

TasksOfSpace(v) ==
  LET ofSpace == InOrder(OfSpace(v))
  IN [k \in DOMAIN ofSpace |-> Slot(ofSpace[k])]

Sched == INSTANCE Scheduler
  WITH Procs <- Proc, tasks <- [p \in Proc |-> Len(TasksOf(p))],
       Apps <- [v \in 0 .. Spaces - 1 |-> TasksOfSpace(v)], Active <- ActiveSpaces,
       Blockers <- {}, Shells <- {}, Restartable <- {},
       current <- [p \in Proc |-> psched[p].current],
       live <- [p \in Proc |-> IF epc[p] = "code" THEN "entry" ELSE epc[p]],
       ctx <- [t \in Slots |->
         IF ContextOf(t).norun \/ psched[t[1]].current = t[2] THEN "entry"
                                                              ELSE ContextOf(t).epc],
       norun <- [t \in Slots |-> IF ContextOf(t).norun THEN {"TASK"} ELSE {}],
       mode <- [p \in Proc |-> "run"], tid <- [p \in Proc |-> 0],
       sig <- [t \in Slots |-> {}], todo <- [t \in Slots |-> <<>>],
       io <- [t \in Slots |-> FALSE], notify <- [p \in Proc |-> {}],
       wti <- [p \in Proc |-> FALSE]

\* All the processors leave kernel_init in an initial state of Scheduler: each task
\* is in the slot that its application is known by, the first active one executes
\* from its entry point, and so will the others, also after a context switch
\* (boot_scheduler_init, kernel_init, _task_switch).
BootsIntoScheduler == Done => Sched!Init

=============================================================================
