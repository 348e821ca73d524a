------------------------------- MODULE Scheduler -------------------------------
(***************************************************************************)
(* The per-processor schedulers of the kernel (ctx_handler.c), the         *)
(* interrupts that call them (irq_handler.c), the system calls that stop,  *)
(* kill and start tasks (sys_handler.c), and the two halves of a blocking  *)
(* driver call: the task that blocks, and the interrupt service routine    *)
(* that wakes it up, on another processor perhaps.                         *)
(*                                                                         *)
(* A task is a pair <<p, ltid>>: tasks never migrate. The registers of a   *)
(* processor (live) and the saved context of a task (ctx) are abstracted   *)
(* to the place in the code where they resume. _ctx_switch scans the tasks *)
(* of its processor one after the other with interrupts disabled there;    *)
(* the other processors go on, clear NORUN bits and set signals meanwhile. *)
(***************************************************************************)
EXTENDS Naturals, Sequences, FiniteSets

CONSTANTS Procs,        \* the processors
          tasks,        \* number of tasks of each processor
          Apps,         \* sequence of the tasks of each application (vspace)
          Active,       \* the applications that cannot be killed
          Blockers,     \* tasks that call a blocking driver
          Shells,       \* tasks that kill and start applications
          Restartable   \* applications that may be started while they run

IDLE_TASK_INDEX == 13

Task == UNION {{p} \X (0 .. tasks[p] - 1) : p \in Procs}
App == DOMAIN Apps

ASSUME SchedulerAssumption ==
  /\ tasks \in [Procs -> 0 .. IDLE_TASK_INDEX]
  /\ \A a \in App : Apps[a] \in Seq(Task)
  /\ \A a \in App : \A i, j \in DOMAIN Apps[a] : Apps[a][i] = Apps[a][j] => i = j
  /\ Active \subseteq App
  /\ Blockers \subseteq Task /\ Shells \subseteq Task
  /\ Restartable \subseteq App

VARIABLES current,      \* psched->current, for each processor
          mode,         \* "run", or where the processor is in _ctx_switch
          tid,          \* how many tasks the scan of _ctx_switch is past current
          live,         \* where the task on the processor executes
          ctx,          \* where the saved context of a task resumes
          norun,        \* CTX_NORUN slot of each task
          sig,          \* CTX_SIG slot of each task
          todo,         \* signals that a kill or exec call has still to set
          io,           \* transfer of a task that the device has not completed
          notify,       \* processors to which a running ISR must send a WTI
          wti           \* WAKUP mailbox of each processor is full

vars == <<current, mode, tid, live, ctx, norun, sig, todo, io, notify, wti>>

Scanning == {"kill", "killAck", "exec", "execAck", "test"}

Cur(p) == <<p, current[p]>>
OnTask(p) == mode[p] = "run" /\ current[p] # IDLE_TASK_INDEX

\* Faulty variant: the scan starts with the first task of the processor.
CandFromZero(p) == <<p, tid[p] - 1>>

\* Candidate of the scan: next_task_id = tid % tasks.
Cand(p) == <<p, (current[p] + tid[p]) % tasks[p]>>

\* Interrupts are taken outside of the critical sections and of the ISRs.
IntEnabled(p) ==
  mode[p] = "run" /\ notify[p] = {} /\ live[p] \in {"entry", "user", "exiting", "idle"}

\* The tasks of an application, and whether they are all stopped: none of them
\* on a processor, no signal on its way.
Members(a) == {Apps[a][i] : i \in DOMAIN Apps[a]}

Ordered(t) == \E u \in Task : \E i \in DOMAIN todo[u] : todo[u][i][2] = t

Stopped(a) ==
  \A t \in Members(a) :
    "TASK" \in norun[t] /\ sig[t] = {} /\ ~Ordered(t) /\ current[t[1]] # t[2]

InUser(p) == OnTask(p) /\ notify[p] = {} /\ live[p] = "user"
Free(p) == InUser(p) /\ todo[Cur(p)] = <<>>

-----------------------------------------------------------------------------
(* _ctx_switch                                                             *)

\* Faulty variant: the scan starts with the current task.
CallSwitchSelf(p, at) ==
  /\ mode' = [mode EXCEPT ![p] = IF tasks[p] = 0 THEN "run" ELSE "kill"]
  /\ tid' = [tid EXCEPT ![p] = 0]
  /\ live' = [live EXCEPT ![p] = at]

\* Call of _ctx_switch, with what the caller leaves in the registers.
CallSwitch(p, at) ==
  /\ mode' = [mode EXCEPT ![p] = IF tasks[p] = 0 THEN "run" ELSE "kill"]
  /\ tid' = [tid EXCEPT ![p] = IF tasks[p] = 0 THEN 0 ELSE 1]
  /\ live' = [live EXCEPT ![p] = at]

\* End of the scan: _task_switch saves the registers and loads those of task
\* n, unless n is the current task. The context of the idle task is constant.
SwitchTo(p, n) ==
  /\ mode' = [mode EXCEPT ![p] = "run"]
  /\ tid' = [tid EXCEPT ![p] = 0]
  /\ current' = [current EXCEPT ![p] = n]
  /\ \/ n = current[p] /\ UNCHANGED <<live, ctx>>
     \/ /\ n # current[p]
        /\ ctx' = IF current[p] = IDLE_TASK_INDEX THEN ctx
                                                  ELSE [ctx EXCEPT ![Cur(p)] = live[p]]
        /\ live' = [live EXCEPT ![p] = IF n = IDLE_TASK_INDEX THEN "idle"
                                                              ELSE ctx[<<p, n>>]]

\* The candidate has a KILL signal: _ctx_kill_task.
ScanKill(p) ==
  /\ mode[p] = "kill"
  /\ \/ /\ "KILL" \in sig[Cand(p)]
        /\ norun' = [norun EXCEPT ![Cand(p)] = @ \cup {"TASK"}]
        /\ mode' = [mode EXCEPT ![p] = "killAck"]
     \/ /\ "KILL" \notin sig[Cand(p)]
        /\ mode' = [mode EXCEPT ![p] = "exec"]
        /\ UNCHANGED norun
  /\ UNCHANGED <<current, tid, live, ctx, sig, todo, io, notify, wti>>

\* Faulty variant: the mask of the other signal is used.
ScanKillAckWrongMask(p) ==
  /\ mode[p] = "killAck"
  /\ sig' = [sig EXCEPT ![Cand(p)] = @ \ {"EXEC"}]
  /\ mode' = [mode EXCEPT ![p] = "exec"]
  /\ UNCHANGED <<current, tid, live, ctx, norun, todo, io, notify, wti>>

ScanKillAck(p) ==
  /\ mode[p] = "killAck"
  /\ sig' = [sig EXCEPT ![Cand(p)] = @ \ {"KILL"}]
  /\ mode' = [mode EXCEPT ![p] = "exec"]
  /\ UNCHANGED <<current, tid, live, ctx, norun, todo, io, notify, wti>>

\* Faulty variant: the registers in the context are not reset.
ScanExecKeepsContext(p) ==
  /\ mode[p] = "exec"
  /\ \/ /\ "EXEC" \in sig[Cand(p)]
        /\ norun' = [norun EXCEPT ![Cand(p)] = {}]
        /\ mode' = [mode EXCEPT ![p] = "execAck"]
     \/ /\ "EXEC" \notin sig[Cand(p)]
        /\ mode' = [mode EXCEPT ![p] = "test"]
        /\ UNCHANGED norun
  /\ UNCHANGED <<current, tid, live, ctx, sig, todo, io, notify, wti>>

\* The candidate has an EXEC signal: _ctx_exec_task.
ScanExec(p) ==
  /\ mode[p] = "exec"
  /\ \/ /\ "EXEC" \in sig[Cand(p)]
        /\ ctx' = [ctx EXCEPT ![Cand(p)] = "entry"]
        /\ norun' = [norun EXCEPT ![Cand(p)] = {}]
        /\ mode' = [mode EXCEPT ![p] = "execAck"]
     \/ /\ "EXEC" \notin sig[Cand(p)]
        /\ mode' = [mode EXCEPT ![p] = "test"]
        /\ UNCHANGED <<ctx, norun>>
  /\ UNCHANGED <<current, tid, live, sig, todo, io, notify, wti>>

ScanExecAck(p) ==
  /\ mode[p] = "execAck"
  /\ sig' = [sig EXCEPT ![Cand(p)] = @ \ {"EXEC"}]
  /\ mode' = [mode EXCEPT ![p] = "test"]
  /\ UNCHANGED <<current, tid, live, ctx, norun, todo, io, notify, wti>>

\* Faulty variant: only the NORUN_MASK_TASK bit is tested.
ScanTestTaskBit(p) ==
  /\ mode[p] = "test"
  /\ \/ "TASK" \notin norun[Cand(p)] /\ SwitchTo(p, Cand(p)[2])
     \/ "TASK" \in norun[Cand(p)] /\ tid[p] = tasks[p] /\ SwitchTo(p, IDLE_TASK_INDEX)
     \/ /\ "TASK" \in norun[Cand(p)]
        /\ tid[p] < tasks[p]
        /\ tid' = [tid EXCEPT ![p] = @ + 1]
        /\ mode' = [mode EXCEPT ![p] = "kill"]
        /\ UNCHANGED <<current, live, ctx>>
  /\ UNCHANGED <<norun, sig, todo, io, notify, wti>>

\* Faulty variant: without a runnable task, the last candidate is taken.
ScanTestNoIdle(p) ==
  /\ mode[p] = "test"
  /\ \/ (norun[Cand(p)] = {} \/ tid[p] = tasks[p]) /\ SwitchTo(p, Cand(p)[2])
     \/ /\ norun[Cand(p)] # {}
        /\ tid[p] < tasks[p]
        /\ tid' = [tid EXCEPT ![p] = @ + 1]
        /\ mode' = [mode EXCEPT ![p] = "kill"]
        /\ UNCHANGED <<current, live, ctx>>
  /\ UNCHANGED <<norun, sig, todo, io, notify, wti>>

\* The first runnable candidate is taken; the idle task if there is none.
ScanTest(p) ==
  /\ mode[p] = "test"
  /\ \/ norun[Cand(p)] = {} /\ SwitchTo(p, Cand(p)[2])
     \/ norun[Cand(p)] # {} /\ tid[p] = tasks[p] /\ SwitchTo(p, IDLE_TASK_INDEX)
     \/ /\ norun[Cand(p)] # {}
        /\ tid[p] < tasks[p]
        /\ tid' = [tid EXCEPT ![p] = @ + 1]
        /\ mode' = [mode EXCEPT ![p] = "kill"]
        /\ UNCHANGED <<current, live, ctx>>
  /\ UNCHANGED <<norun, sig, todo, io, notify, wti>>

-----------------------------------------------------------------------------
(* Interrupts                                                              *)

\* _isr_tick. The timer runs on the processors that have tasks.
Tick(p) ==
  /\ IntEnabled(p)
  /\ tasks[p] > 0
  /\ CallSwitch(p, live[p])
  /\ UNCHANGED <<current, ctx, norun, sig, todo, io, notify, wti>>

\* Faulty variant: the idle task waits for its tick.
WakeupNever(p) ==
  /\ IntEnabled(p)
  /\ wti[p]
  /\ wti' = [wti EXCEPT ![p] = FALSE]
  /\ UNCHANGED <<current, mode, tid, live, ctx, norun, sig, todo, io, notify>>

\* _isr_wakup. The drivers only send the value 0, which switches from the
\* idle task and from no other.
Wakeup(p) ==
  /\ IntEnabled(p)
  /\ wti[p]
  /\ wti' = [wti EXCEPT ![p] = FALSE]
  /\ \/ current[p] = IDLE_TASK_INDEX /\ CallSwitch(p, live[p])
     \/ current[p] # IDLE_TASK_INDEX /\ UNCHANGED <<mode, tid, live>>
  /\ UNCHANGED <<current, ctx, norun, sig, todo, io, notify>>

\* Faulty variant: the wrong NORUN bit is cleared.
DeviceIsrWrongMask(q, t) ==
  /\ IntEnabled(q)
  /\ io[t]
  /\ io' = [io EXCEPT ![t] = FALSE]
  /\ norun' = [norun EXCEPT ![t] = @ \ {"TASK"}]
  /\ notify' = [notify EXCEPT ![q] = {t[1]}]
  /\ UNCHANGED <<current, mode, tid, live, ctx, sig, todo, wti>>

\* ISR of a device, on processor q, when the transfer of task t completes:
\* _bdv_isr, _hba_isr, _sdc_isr. The WTI is sent in a second step.
DeviceIsr(q, t) ==
  /\ IntEnabled(q)
  /\ io[t]
  /\ io' = [io EXCEPT ![t] = FALSE]
  /\ norun' = [norun EXCEPT ![t] = @ \ {"IOC"}]
  /\ notify' = [notify EXCEPT ![q] = {t[1]}]
  /\ UNCHANGED <<current, mode, tid, live, ctx, sig, todo, wti>>

SendWti(q) ==
  /\ notify[q] # {}
  /\ wti' = [p \in Procs |-> wti[p] \/ p \in notify[q]]
  /\ notify' = [notify EXCEPT ![q] = {}]
  /\ UNCHANGED <<current, mode, tid, live, ctx, norun, sig, todo, io>>

-----------------------------------------------------------------------------
(* What the tasks do                                                       *)

\* _ctx_eret: a fresh context starts at the entry point of the task.
Start(p) ==
  /\ OnTask(p) /\ notify[p] = {} /\ live[p] = "entry"
  /\ live' = [live EXCEPT ![p] = "user"]
  /\ todo' = [todo EXCEPT ![Cur(p)] = <<>>]
  /\ UNCHANGED <<current, mode, tid, ctx, norun, sig, io, notify, wti>>

\* _sys_context_switch.
Yield(p) ==
  /\ Free(p)
  /\ CallSwitch(p, "user")
  /\ UNCHANGED <<current, ctx, norun, sig, todo, io, notify, wti>>

\* Descheduling mode of the block device drivers: in one critical section,
\* set NORUN_MASK_IOC, launch the transfer, and switch.
BlockOnIo(p) ==
  /\ Free(p)
  /\ Cur(p) \in Blockers
  /\ ~io[Cur(p)]
  /\ norun' = [norun EXCEPT ![Cur(p)] = @ \cup {"IOC"}]
  /\ io' = [io EXCEPT ![Cur(p)] = TRUE]
  /\ CallSwitch(p, "wait")
  /\ UNCHANGED <<current, ctx, sig, todo, notify, wti>>

\* The driver returns from _ctx_switch and restores the interrupts.
ResumeFromIo(p) ==
  /\ OnTask(p) /\ live[p] = "wait"
  /\ live' = [live EXCEPT ![p] = "user"]
  /\ UNCHANGED <<current, mode, tid, ctx, norun, sig, todo, io, notify, wti>>

\* _sys_task_exit sets NORUN_MASK_TASK, and calls _sys_context_switch.
ExitMark(p) ==
  /\ Free(p)
  /\ norun' = [norun EXCEPT ![Cur(p)] = @ \cup {"TASK"}]
  /\ live' = [live EXCEPT ![p] = "exiting"]
  /\ UNCHANGED <<current, mode, tid, ctx, sig, todo, io, notify, wti>>

ExitSwitch(p) ==
  /\ OnTask(p) /\ notify[p] = {} /\ live[p] = "exiting"
  /\ CallSwitch(p, "exited")
  /\ UNCHANGED <<current, ctx, norun, sig, todo, io, notify, wti>>

\* _display_cause: an exception of the task.
Exception(p) ==
  /\ InUser(p)
  /\ norun' = [norun EXCEPT ![Cur(p)] = {"TASK"}]
  /\ CallSwitch(p, "exited")
  /\ UNCHANGED <<current, ctx, sig, todo, io, notify, wti>>

\* A task that is scheduled again after its exit just goes on.
ResumeFromExit(p) ==
  /\ OnTask(p) /\ live[p] = "exited"
  /\ live' = [live EXCEPT ![p] = "user"]
  /\ UNCHANGED <<current, mode, tid, ctx, norun, sig, todo, io, notify, wti>>

\* _sys_kill_application and _sys_exec_application scan the tasks of the
\* application and set the signal of each.
Signals(s, a) == [i \in DOMAIN Apps[a] |-> <<s, Apps[a][i]>>]

KillApplication(p, a) ==
  /\ Free(p)
  /\ Cur(p) \in Shells
  /\ a \notin Active
  /\ todo' = [todo EXCEPT ![Cur(p)] = Signals("KILL", a)]
  /\ UNCHANGED <<current, mode, tid, live, ctx, norun, sig, io, notify, wti>>

ExecApplication(p, a) ==
  /\ Free(p)
  /\ Cur(p) \in Shells
  /\ a \in Restartable \/ Stopped(a)
  /\ todo' = [todo EXCEPT ![Cur(p)] = Signals("EXEC", a)]
  /\ UNCHANGED <<current, mode, tid, live, ctx, norun, sig, io, notify, wti>>

SetSignal(p) ==
  /\ InUser(p)
  /\ todo[Cur(p)] # <<>>
  /\ LET s == Head(todo[Cur(p)])
     IN  sig' = [sig EXCEPT ![s[2]] = @ \cup {s[1]}]
  /\ todo' = [todo EXCEPT ![Cur(p)] = Tail(@)]
  /\ UNCHANGED <<current, mode, tid, live, ctx, norun, io, notify, wti>>

-----------------------------------------------------------------------------

\* The tasks of the active applications are runnable when the kernel starts;
\* kernel_init elects the first of them on each processor.
Init ==
  /\ norun = [t \in Task |->
       IF \E a \in Active : t \in Members(a) THEN {} ELSE {"TASK"}]
  /\ current = [p \in Procs |->
       LET ready == {i \in 0 .. tasks[p] - 1 : norun[<<p, i>>] = {}}
       IN  IF ready = {} THEN IDLE_TASK_INDEX
                         ELSE CHOOSE i \in ready : \A j \in ready : i <= j]
  /\ live = [p \in Procs |-> IF current[p] = IDLE_TASK_INDEX THEN "idle" ELSE "entry"]
  /\ ctx = [t \in Task |-> "entry"]
  /\ mode = [p \in Procs |-> "run"]
  /\ tid = [p \in Procs |-> 0]
  /\ sig = [t \in Task |-> {}]
  /\ todo = [t \in Task |-> <<>>]
  /\ io = [t \in Task |-> FALSE]
  /\ notify = [p \in Procs |-> {}]
  /\ wti = [p \in Procs |-> FALSE]

Scan(p) == ScanKill(p) \/ ScanKillAck(p) \/ ScanExec(p) \/ ScanExecAck(p) \/ ScanTest(p)

\* Steps that a processor takes on its own once it is where they are enabled.
Kernel(p) ==
  \/ Scan(p) \/ SendWti(p)
  \/ Start(p) \/ ResumeFromIo(p) \/ ExitSwitch(p) \/ ResumeFromExit(p) \/ SetSignal(p)

\* System calls and exceptions: nothing obliges a task to make them.
SysCall(p) ==
  \/ Yield(p) \/ BlockOnIo(p) \/ ExitMark(p) \/ Exception(p)
  \/ \E a \in App : KillApplication(p, a) \/ ExecApplication(p, a)

Completion(t) == \E q \in Procs : DeviceIsr(q, t)

Next ==
  \/ \E p \in Procs : Kernel(p) \/ SysCall(p) \/ Tick(p) \/ Wakeup(p)
  \/ \E t \in Task : Completion(t)

Spec == Init /\ [][Next]_vars

(* A processor does not stop in the middle of the kernel. The timer        *)
(* interrupt comes back, stays pending until it is served, and has         *)
(* priority over the others (_irq_demux). Nothing is asked of the devices  *)
(* nor of the tasks.                                                       *)
FairSpec == Spec /\ \A p \in Procs : WF_vars(Kernel(p)) /\ SF_vars(Tick(p))

-----------------------------------------------------------------------------
(* Properties                                                              *)

At == {"entry", "user", "wait", "exiting", "exited"}

\* A processor is idle or runs one of its tasks; a scan passes each task once.
ProcTypeOK ==
  /\ current \in [Procs -> 0 .. IDLE_TASK_INDEX]
  /\ mode \in [Procs -> {"run"} \cup Scanning]
  /\ tid \in [Procs -> 0 .. IDLE_TASK_INDEX]
  /\ live \in [Procs -> At \cup {"idle"}]
  /\ \A p \in Procs : current[p] # IDLE_TASK_INDEX => current[p] < tasks[p]
  /\ \A p \in Procs : live[p] = "idle" <=> current[p] = IDLE_TASK_INDEX
  /\ \A p \in Procs : tid[p] \in (IF mode[p] = "run" THEN {0} ELSE 1 .. tasks[p])

TypeOK ==
  /\ ProcTypeOK
  /\ ctx \in [Task -> At]
  /\ norun \in [Task -> SUBSET {"TASK", "IOC"}]
  /\ sig \in [Task -> SUBSET {"KILL", "EXEC"}]
  /\ todo \in [Task -> Seq({"KILL", "EXEC"} \X Task)]
  /\ io \in [Task -> BOOLEAN]
  /\ notify \in [Procs -> SUBSET Procs]
  /\ wti \in [Procs -> BOOLEAN]

\* A driver call never returns before its transfer is completed: bdv_driver.h,
\* "The ISR executed when transfer completes should restart the calling task".
WaitHonoured == \A p \in Procs : OnTask(p) /\ live[p] = "wait" => ~io[Cur(p)]

\* The same of the tasks that EXEC signals only reach when they are stopped.
WaitHonouredUnlessRestarted ==
  \A p \in Procs :
    OnTask(p) /\ live[p] = "wait" /\ io[Cur(p)] =>
      \E a \in Restartable : Cur(p) \in Members(a)

\* A task that waits, saved or being descheduled, can still be woken up: its
\* transfer is in flight or its NORUN bit is cleared, unless it was killed.
NoLostWakeup ==
  \A t \in Task : "IOC" \in norun[t] => io[t]

\* A task that exited, was killed or took an exception does not execute.
StoppedDoesNotRun ==
  \A p \in Procs : OnTask(p) /\ live[p] # "exiting" => "TASK" \notin norun[Cur(p)]

\* When the idle task runs although a task of the processor is runnable, the
\* interrupt that ends the idle task is pending or about to be sent: neither
\* end of the WTI handshake misses the other.
WakeupPending ==
  \A p \in Procs :
    mode[p] = "run" /\ current[p] = IDLE_TASK_INDEX =>
      \A i \in 0 .. tasks[p] - 1 :
        norun[<<p, i>>] = {} => wti[p] \/ \E q \in Procs : p \in notify[q]

\* Round robin: a runnable task runs, or is stopped, whatever the others do.
RunnableRuns ==
  \A t \in Task : norun[t] = {} ~> (current[t[1]] = t[2] \/ norun[t] # {})

\* A KILL signal reaches its task, even when the task never calls the kernel.
KillServed == \A t \in Task : "KILL" \in sig[t] ~> "KILL" \notin sig[t]

\* A task that gets an EXEC signal starts at its entry point, unless it is
\* killed meanwhile.
ExecStarts ==
  \A t \in Task : "EXEC" \in sig[t] ~>
    \/ OnTask(t[1]) /\ current[t[1]] = t[2] /\ live[t[1]] = "entry"
    \/ "KILL" \in sig[t]

=============================================================================
