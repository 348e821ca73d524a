------------------------------- MODULE BdvDriver -------------------------------
(***************************************************************************)
(* The driver of the single channel block device in descheduling mode      *)
(* (bdv_driver.c): _bdv_access for each task, _bdv_isr on the processor    *)
(* the IRQ is routed to. The device is external.                           *)
(*                                                                         *)
(* The lock is the abstract queue that TicketLock implements; it is held   *)
(* while the task is descheduled. A descheduled task comes back when its   *)
(* NORUN bit is cleared (Scheduler). A KILL signal takes a task away       *)
(* wherever it is in the driver, with what it holds.                       *)
(***************************************************************************)
EXTENDS Naturals, Sequences

CONSTANTS Tasks,        \* the tasks that access the device
          MayKill       \* may the tasks be killed?

VARIABLES queue, entered,   \* _bdv_lock
          pc,               \* where each task is in _bdv_access
          regs,             \* whose transfer the device registers describe
          status,           \* BLOCK_DEVICE_STATUS register
          gtid,             \* _bdv_gtid
          norun,            \* tasks with the NORUN_MASK_IOC bit
          saved,            \* _bdv_status
          isr,              \* where the ISR is
          read,             \* status that the ISR has read
          outcome,          \* outcome of the last transfer of each task
          ret,              \* value returned by the last call of each task
          killed            \* tasks that were killed in the driver

lock == <<queue, entered>>
vars == <<lock, pc, regs, status, gtid, norun, saved, isr, read, outcome, ret, killed>>

Lock == INSTANCE FifoLock

None == "none"
Completed == {"ok", "error"}

-----------------------------------------------------------------------------
(* Faulty variants                                                         *)

\* The lock is released before the task is descheduled.
LaunchUnlocked(t) ==
  /\ pc[t] = "launch"
  /\ status' = "busy"
  /\ pc' = [pc EXCEPT ![t] = "wait"]
  /\ Lock!Exit
  /\ UNCHANGED <<regs, gtid, norun, saved, isr, read, outcome, ret, killed>>

\* The task leaves without releasing the lock when the transfer failed.
ReturnLeaksLock(t) ==
  /\ pc[t] = "unlock"
  /\ \/ ret[t] = "ok" /\ Lock!Exit
     \/ ret[t] = "error" /\ UNCHANGED lock
  /\ pc' = [pc EXCEPT ![t] = "idle"]
  /\ UNCHANGED <<regs, status, gtid, norun, saved, isr, read, outcome, ret, killed>>

-----------------------------------------------------------------------------
(* _bdv_access                                                             *)

Init ==
  /\ Lock!Init
  /\ pc = [t \in Tasks |-> "idle"]
  /\ regs = None
  /\ status = "idle"
  /\ gtid = None
  /\ norun = {}
  /\ saved = None
  /\ isr = "idle"
  /\ read = None
  /\ outcome = [t \in Tasks |-> None]
  /\ ret = [t \in Tasks |-> None]
  /\ killed = {}

\* _spin_lock_acquire( &_bdv_lock ): in the queue, then in the lock.
Call(t) ==
  /\ pc[t] = "idle"
  /\ Lock!Request(t)
  /\ pc' = [pc EXCEPT ![t] = "lock"]
  /\ outcome' = [outcome EXCEPT ![t] = None]
  /\ UNCHANGED <<regs, status, gtid, norun, saved, isr, read, ret, killed>>

GetLock(t) ==
  /\ pc[t] = "lock"
  /\ Lock!Enter /\ Head(queue) = t
  /\ pc' = [pc EXCEPT ![t] = "regs"]
  /\ UNCHANGED <<regs, status, gtid, norun, saved, isr, read, outcome, ret, killed>>

\* The BUFFER, COUNT, LBA and IRQ_ENABLE registers.
SetRegisters(t) ==
  /\ pc[t] = "regs"
  /\ regs' = t
  /\ pc' = [pc EXCEPT ![t] = "gtid"]
  /\ UNCHANGED <<lock, status, gtid, norun, saved, isr, read, outcome, ret, killed>>

SetGtid(t) ==
  /\ pc[t] = "gtid"
  /\ gtid' = t
  /\ pc' = [pc EXCEPT ![t] = "block"]
  /\ UNCHANGED <<lock, regs, status, norun, saved, isr, read, outcome, ret, killed>>

\* Critical section: set the NORUN bit, launch the transfer, _ctx_switch.
Block(t) ==
  /\ pc[t] = "block"
  /\ norun' = norun \cup {t}
  /\ pc' = [pc EXCEPT ![t] = "launch"]
  /\ UNCHANGED <<lock, regs, status, gtid, saved, isr, read, outcome, ret, killed>>

Launch(t) ==
  /\ pc[t] = "launch"
  /\ status' = "busy"
  /\ pc' = [pc EXCEPT ![t] = "wait"]
  /\ UNCHANGED <<lock, regs, gtid, norun, saved, isr, read, outcome, ret, killed>>

\* The task is scheduled again, and analyses _bdv_status.
Result(t) ==
  /\ pc[t] = "wait"
  /\ t \notin norun
  /\ ret' = [ret EXCEPT ![t] = saved]
  /\ pc' = [pc EXCEPT ![t] = "unlock"]
  /\ UNCHANGED <<lock, regs, status, gtid, norun, saved, isr, read, outcome, killed>>

Return(t) ==
  /\ pc[t] = "unlock"
  /\ Lock!Exit
  /\ pc' = [pc EXCEPT ![t] = "idle"]
  /\ UNCHANGED <<regs, status, gtid, norun, saved, isr, read, outcome, ret, killed>>

\* _ctx_kill_task, outside of the critical section: what the task holds in
\* the driver is not released.
Kill(t) ==
  /\ MayKill
  /\ pc[t] \notin {"idle", "launch"}
  /\ killed' = killed \cup {t}
  /\ UNCHANGED <<lock, pc, regs, status, gtid, norun, saved, isr, read, outcome, ret>>

-----------------------------------------------------------------------------
(* The device and _bdv_isr                                                 *)

DeviceCompletes ==
  /\ status = "busy"
  /\ \E o \in Completed :
       status' = o /\ outcome' = [outcome EXCEPT ![regs] = o]
  /\ UNCHANGED <<lock, pc, regs, gtid, norun, saved, isr, read, ret, killed>>

\* Reading the status register acknowledges the interrupt.
IsrStatus ==
  /\ isr = "idle"
  /\ status \in Completed
  /\ read' = status
  /\ status' = "idle"
  /\ isr' = "save"
  /\ UNCHANGED <<lock, pc, regs, gtid, norun, saved, outcome, ret, killed>>

IsrSave ==
  /\ isr = "save"
  /\ saved' = read
  /\ isr' = "wake"
  /\ UNCHANGED <<lock, pc, regs, status, gtid, norun, read, outcome, ret, killed>>

IsrWake ==
  /\ isr = "wake"
  /\ norun' = norun \ {gtid}
  /\ isr' = "idle"
  /\ UNCHANGED <<lock, pc, regs, status, gtid, saved, read, outcome, ret, killed>>

-----------------------------------------------------------------------------

Advance(t) ==
  \/ GetLock(t) \/ SetRegisters(t) \/ SetGtid(t) \/ Block(t)
  \/ Launch(t) \/ Result(t) \/ Return(t)

Isr == IsrStatus \/ IsrSave \/ IsrWake

Next ==
  \/ \E t \in Tasks \ killed : Call(t) \/ Advance(t) \/ Kill(t)
  \/ DeviceCompletes \/ Isr

Spec == Init /\ [][Next]_vars

-----------------------------------------------------------------------------
(* Properties                                                              *)

TypeOK ==
  /\ queue \in Seq(Tasks) /\ entered \in BOOLEAN
  /\ pc \in [Tasks -> {"idle", "lock", "regs", "gtid", "block", "launch",
                       "wait", "unlock"}]
  /\ regs \in Tasks \cup {None} /\ gtid \in Tasks \cup {None}
  /\ status \in {"idle", "busy"} \cup Completed
  /\ norun \subseteq Tasks
  /\ saved \in Completed \cup {None} /\ read \in Completed \cup {None}
  /\ isr \in {"idle", "save", "wake"}
  /\ outcome \in [Tasks -> Completed \cup {None}]
  /\ killed \subseteq Tasks
  /\ ret \in [Tasks -> Completed \cup {None}]

\* Every blocked task will be woken up by the transfer in progress: it is the
\* one that the ISR will identify.
BlockedIsIdentified ==
  \A t \in norun :
    /\ gtid = t
    /\ pc[t] = "launch" \/ status # "idle" \/ isr # "idle"

Io == INSTANCE BlockingIo
  WITH phase <- [t \in Tasks |->
         IF pc[t] \in {"idle", "unlock"} THEN "idle"
         ELSE IF outcome[t] = None THEN "posted" ELSE "done"]

\* The driver returns after the completion of the transfer of the caller,
\* with its outcome, although gtid and _bdv_status are shared by all tasks.
IoSpec == Io!Spec

=============================================================================
