------------------------------ MODULE Coprocessor ------------------------------
(***************************************************************************)
(* The coprocessor of a cluster: its system calls (sys_handler.c,          *)
(* _sys_coproc_alloc to _sys_coproc_completed) by the tasks of the         *)
(* cluster, and the ISR of its MWMR_DMA controller (mwr_driver.c). The     *)
(* controller is external: it raises the IRQ when all the channels have    *)
(* completed in MODE_DMA_IRQ, and when a channel fails, in any mode. A     *)
(* channel that is stopped keeps its error.                                *)
(*                                                                         *)
(* The user library exits when a system call returns an error (stdio.c,    *)
(* giet_coproc_run): the task is deleted, and its coprocessor is never     *)
(* released.                                                               *)
(***************************************************************************)
EXTENDS FiniteSets

CONSTANTS Tasks,        \* the tasks of the cluster
          IrqSide,      \* those that run on the processor of the IRQ
          Channels,     \* communication channels of the coprocessor
          Faults        \* failures of a channel before the coprocessor is
                        \* started ("early"), or in MODE_MWMR ("mwmr"), and
                        \* runs without release in between ("again")

Mode == {"mwmr", "dma_irq", "dma_no_irq"}
None == "none"
Completed == {"ok", "error"}

VARIABLES lock,         \* holder of _coproc_lock, and its CTX_COPROC_ID
          mode,         \* _coproc_mode
          gtid,         \* _coproc_gtid
          error,        \* _coproc_error
          channelMode,  \* MWR_CHANNEL_MODE
          running,      \* channels with MWR_CHANNEL_RUNNING
          status,       \* MWR_CHANNEL_STATUS
          started,      \* is the start register of the coprocessor set?
          norun,        \* tasks with the NORUN_MASK_COPROC bit
          pc,           \* where each task is
          outcome,      \* outcome of the last transfer of each task
          ret,          \* what the last transfer of each task returned
          isr           \* where the ISR is

driverVars == <<lock, mode, gtid, error>>
deviceVars == <<channelMode, running, status, started>>
vars == <<driverVars, deviceVars, norun, pc, outcome, ret, isr>>

Runs(t) == t \in IrqSide => isr = "idle" /\ \A u \in IrqSide \ {t} : pc[u] # "critical"

\* RUNNING is written with 0.
Stop == /\ running' = {}
        /\ status' = [c \in Channels |-> IF status[c] = "busy" THEN "ok" ELSE status[c]]

-----------------------------------------------------------------------------
(* The system calls                                                        *)

Init ==
  /\ lock = None /\ mode = "mwmr" /\ gtid = None /\ error = "ok"
  /\ channelMode = [c \in Channels |-> "mwmr"]
  /\ running = {} /\ status = [c \in Channels |-> "ok"] /\ started = FALSE
  /\ norun = {}
  /\ pc = [t \in Tasks |-> "idle"]
  /\ outcome = [t \in Tasks |-> None]
  /\ ret = [t \in Tasks |-> None]
  /\ isr = "idle"

Alloc(t) ==
  /\ pc[t] = "idle"
  /\ lock = None
  /\ lock' = t
  /\ pc' = [pc EXCEPT ![t] = "own"]
  /\ UNCHANGED <<mode, gtid, error, deviceVars, norun, outcome, ret, isr>>

ChannelInit(t, c, m) ==
  /\ pc[t] = "own"
  /\ running = {}
  /\ channelMode' = [channelMode EXCEPT ![c] = m]
  /\ UNCHANGED <<driverVars, running, status, started, norun, pc, outcome, ret, isr>>

SameMode == \A c, d \in Channels : channelMode[c] = channelMode[d]

\* _coproc_mode and the channels.
Run(t) ==
  /\ pc[t] = "own"
  /\ running = {} /\ (started => "again" \in Faults)
  /\ SameMode
  /\ \E c \in Channels : mode' = channelMode[c]
  /\ running' = Channels
  /\ status' = [c \in Channels |-> "busy"]
  /\ outcome' = IF mode' = "mwmr" THEN outcome ELSE [outcome EXCEPT ![t] = None]
  /\ pc' = [pc EXCEPT ![t] = "run"]
  /\ UNCHANGED <<lock, gtid, error, channelMode, started, norun, ret, isr>>

\* "all channels don't have the same mode"
RunRefused(t) ==
  /\ pc[t] = "own"
  /\ ~SameMode
  /\ pc' = [pc EXCEPT ![t] = "dead"]
  /\ UNCHANGED <<driverVars, deviceVars, norun, outcome, ret, isr>>

\* The coprocessor is started, and _sys_coproc_run returns.
StartNoIrq(t) ==
  /\ pc[t] = "run"
  /\ mode # "dma_irq"
  /\ started' = TRUE
  /\ pc' = [pc EXCEPT ![t] = IF mode = "mwmr" THEN "own" ELSE "poll"]
  /\ UNCHANGED <<driverVars, channelMode, running, status, norun, outcome, ret, isr>>

SetGtid(t) ==
  /\ pc[t] = "run"
  /\ mode = "dma_irq"
  /\ gtid' = t
  /\ pc' = [pc EXCEPT ![t] = "block"]
  /\ UNCHANGED <<lock, mode, error, deviceVars, norun, outcome, ret, isr>>

\* _it_disable, and the NORUN bit.
Block(t) ==
  /\ pc[t] = "block"
  /\ norun' = norun \cup {t}
  /\ pc' = [pc EXCEPT ![t] = "critical"]
  /\ UNCHANGED <<driverVars, deviceVars, outcome, ret, isr>>

\* The coprocessor is started, and the task descheduled.
Start(t) ==
  /\ pc[t] = "critical"
  /\ started' = TRUE
  /\ pc' = [pc EXCEPT ![t] = "wait"]
  /\ UNCHANGED <<driverVars, channelMode, running, status, norun, outcome, ret, isr>>

\* The system call returns e.
Returns(t, e) ==
  /\ ret' = [ret EXCEPT ![t] = e]
  /\ pc' = [pc EXCEPT ![t] = IF e = "ok" THEN "own" ELSE "dead"]

Woken(t) ==
  /\ pc[t] = "wait"
  /\ t \notin norun
  /\ Returns(t, error)
  /\ UNCHANGED <<driverVars, deviceVars, norun, outcome, isr>>

\* _sys_coproc_completed polls all the channels, and stops them.
PollCompleted(t) ==
  /\ pc[t] = "poll"
  /\ \A c \in Channels : status[c] # "busy"
  /\ Stop
  /\ Returns(t, IF \E c \in Channels : status[c] = "error" THEN "error" ELSE "ok")
  /\ UNCHANGED <<driverVars, channelMode, started, norun, outcome, isr>>

Release(t) ==
  /\ pc[t] = "own"
  /\ started' = FALSE
  /\ Stop
  /\ lock' = None
  /\ pc' = [pc EXCEPT ![t] = "idle"]
  /\ UNCHANGED <<mode, gtid, error, channelMode, norun, outcome, ret, isr>>

-----------------------------------------------------------------------------
(* The controller and _mwr_isr                                             *)

ChannelEnds(c) ==
  /\ c \in running /\ status[c] = "busy"
  /\ \E e \in Completed :
       /\ IF e = "ok"
          THEN started /\ mode # "mwmr"
          ELSE (started \/ "early" \in Faults) /\ (mode # "mwmr" \/ "mwmr" \in Faults)
       /\ status' = [status EXCEPT ![c] = e]
       /\ outcome' =
            IF mode = "mwmr" \/ outcome[lock] # None
               \/ (e = "ok" /\ \E d \in Channels \ {c} : status[d] = "busy")
            THEN outcome
            ELSE [outcome EXCEPT ![lock] = e]
  /\ UNCHANGED <<driverVars, channelMode, running, started, norun, pc, ret, isr>>

Irq ==
  \/ \E c \in running : status[c] = "error"
  \/ running = Channels /\ mode = "dma_irq" /\ \A c \in Channels : status[c] = "ok"

\* All the channels are stopped.
IsrStop ==
  /\ isr = "idle"
  /\ Irq
  /\ \A t \in IrqSide : pc[t] # "critical"
  /\ error' = IF \A c \in Channels : status[c] = "ok" THEN "ok" ELSE "error"
  /\ Stop
  /\ isr' = "wake"
  /\ UNCHANGED <<lock, mode, gtid, channelMode, started, norun, pc, outcome, ret>>

\* The NORUN bit of the task is cleared, and the WTI sent.
IsrWake ==
  /\ isr = "wake"
  /\ norun' = norun \ {gtid}
  /\ isr' = "idle"
  /\ UNCHANGED <<driverVars, deviceVars, pc, outcome, ret>>

-----------------------------------------------------------------------------

Advance(t) ==
  /\ Runs(t)
  /\ \/ StartNoIrq(t) \/ SetGtid(t) \/ Block(t) \/ Start(t)
     \/ Woken(t) \/ PollCompleted(t)

\* The user code calls the library.
Call(t) ==
  /\ Runs(t)
  /\ \/ Alloc(t) \/ Run(t) \/ RunRefused(t) \/ Release(t)
     \/ \E c \in Channels, m \in Mode : ChannelInit(t, c, m)

Isr == IsrStop \/ IsrWake

Next ==
  \/ \E t \in Tasks : Call(t) \/ Advance(t)
  \/ \E c \in Channels : ChannelEnds(c)
  \/ Isr

Spec == Init /\ [][Next]_vars

-----------------------------------------------------------------------------
(* Properties                                                              *)

TypeOK ==
  /\ {lock, gtid} \subseteq Tasks \cup {None} /\ mode \in Mode /\ error \in Completed
  /\ channelMode \in [Channels -> Mode] /\ running \subseteq Channels
  /\ status \in [Channels -> Completed \cup {"busy"}] /\ started \in BOOLEAN
  /\ norun \subseteq Tasks
  /\ pc \in [Tasks -> {"idle", "own", "run", "block", "critical", "wait", "poll", "dead"}]
  /\ {outcome, ret} \subseteq [Tasks -> Completed \cup {None}]
  /\ isr \in {"idle", "wake"}

\* A descheduled task owns the coprocessor, the ISR will wake it up and no other,
\* and what must call the ISR is still to come: the wakeup is not lost.
BlockedIsIdentified ==
  \A t \in norun : lock = t /\ gtid = t /\ (running = Channels \/ isr = "wake")

Transferring(t) == pc[t] \in {"run", "block", "critical", "wait", "poll"}

Io == INSTANCE BlockingIo
  WITH phase <- [t \in Tasks |->
         IF ~Transferring(t) \/ mode = "mwmr" THEN "idle"
         ELSE IF outcome[t] = None THEN "posted" ELSE "done"]

\* In the DMA modes, _sys_coproc_run (followed by _sys_coproc_completed without
\* IRQ) returns after the completion of the transfer, with its outcome.
IoSpec == Io!Spec

=============================================================================
