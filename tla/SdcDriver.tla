------------------------------- MODULE SdcDriver -------------------------------
(***************************************************************************)
(* The driver of the SD card controller in descheduling mode               *)
(* (sdc_driver.c): _sdc_access for each task, _sdc_isr on the processor    *)
(* that the IRQ is routed to. The device is external.                      *)
(*                                                                         *)
(* The command list is a circular buffer. A task takes the next slot with  *)
(* an atomic increment of the write pointer. The ISR follows with the read *)
(* pointer, and takes every slot between the two whose PXCI bit is not set *)
(* for a completed command. The FAT, the only caller, holds its lock       *)
(* during an access: with Overlap, the calls are not serialised.           *)
(***************************************************************************)
EXTENDS Naturals, FiniteSets

CONSTANTS Tasks,        \* the tasks that access the card
          IrqSide,      \* those that run on the processor of the IRQ
          Slots,        \* bound: size of the command list (32)
          Wrap,         \* bound: number of values of the pointers (2^32)
          Overlap       \* may two accesses overlap?

SdcAssumption ==
  /\ IsFiniteSet(Tasks) /\ IrqSide \subseteq Tasks
  /\ Slots \in Nat \ {0} /\ Wrap \in Nat \ {0} /\ Wrap % Slots = 0
  /\ Cardinality(Tasks) < Wrap /\ Overlap \in BOOLEAN

Slot == 0 .. Slots - 1
Pointer == 0 .. Wrap - 1
None == "none"
Completed == {"ok", "error"}

VARIABLES ptw, ptr,     \* _ahci_cmd_ptw, _ahci_cmd_ptr
          gtid,         \* _ahci_gtid
          status,       \* _ahci_status
          pxci,         \* AHCI_PXCI: slots with a transfer in progress
          pxis,         \* AHCI_PXIS: what happened since it was reset
          norun,        \* tasks with the NORUN_MASK_IOC bit
          pc,           \* where each task is in _sdc_access
          slot,         \* index of the command of each task
          outcome,      \* outcome of the last transfer of each task
          ret,          \* value returned by the last call of each task
          isr,          \* where the ISR is
          snapshot,     \* pxci in the ISR
          cur           \* current in the ISR

taskVars == <<pc, slot, ret>>
isrVars == <<isr, snapshot, cur>>
listVars == <<ptw, ptr, gtid, status>>
vars == <<listVars, pxci, pxis, norun, outcome, taskVars, isrVars>>

Next1(pointer) == (pointer + 1) % Wrap

\* The interrupts of the processor of a task are disabled.
Critical(t) == pc[t] = "start"

\* The tasks on the processor of the IRQ do not run during the ISR, nor during
\* the critical section of one of them.
Runs(t) ==
  t \in IrqSide => isr = "idle" /\ \A u \in IrqSide \ {t} : ~Critical(u)

-----------------------------------------------------------------------------
(* _sdc_access                                                             *)

Init ==
  /\ ptw = 0 /\ ptr = 0
  /\ gtid = [s \in Slot |-> None]
  /\ status = [s \in Slot |-> {}]
  /\ pxci = {} /\ pxis = {} /\ norun = {}
  /\ pc = [t \in Tasks |-> "idle"]
  /\ slot = [t \in Tasks |-> 0]
  /\ outcome = [t \in Tasks |-> None]
  /\ ret = [t \in Tasks |-> None]
  /\ isr = "idle" /\ snapshot = {} /\ cur = 0

Call(t) ==
  /\ pc[t] = "idle"
  /\ Overlap \/ \A u \in Tasks : pc[u] = "idle"
  /\ pc' = [pc EXCEPT ![t] = "slot"]
  /\ outcome' = [outcome EXCEPT ![t] = None]
  /\ UNCHANGED <<listVars, pxci, pxis, norun, slot, ret, isrVars>>

\* _atomic_increment( &_ahci_cmd_ptw )
TakeSlot(t) ==
  /\ pc[t] = "slot"
  /\ slot' = [slot EXCEPT ![t] = ptw % Slots]
  /\ ptw' = Next1(ptw)
  /\ pc' = [pc EXCEPT ![t] = "poll"]
  /\ UNCHANGED <<ptr, gtid, status, pxci, pxis, norun, outcome, ret, isrVars>>

\* The previous command of the slot is over. The descriptor and table. The bound on
\* the number of polls (SDC_POLLING_TIMEOUT), after which the call fails and leaves
\* its slot behind without a command, is not modelled: a caller that runs alone, as
\* the FAT does under its lock, finds its slot free.
SlotIsFree(t) ==
  /\ pc[t] = "poll"
  /\ slot[t] \notin pxci
  /\ pc' = [pc EXCEPT ![t] = "gtid"]
  /\ UNCHANGED <<listVars, pxci, pxis, norun, outcome, slot, ret, isrVars>>

\* The PXIE register, and _ahci_gtid[ptw].
SetGtid(t) ==
  /\ pc[t] = "gtid"
  /\ gtid' = [gtid EXCEPT ![slot[t]] = t]
  /\ pc' = [pc EXCEPT ![t] = "block"]
  /\ UNCHANGED <<ptw, ptr, status, pxci, pxis, norun, outcome, slot, ret, isrVars>>

\* _it_disable, and the NORUN bit.
Block(t) ==
  /\ pc[t] = "block"
  /\ norun' = norun \cup {t}
  /\ pc' = [pc EXCEPT ![t] = "start"]
  /\ UNCHANGED <<listVars, pxci, pxis, outcome, slot, ret, isrVars>>

\* The transfer is started, and the task descheduled.
StartTransfer(t) ==
  /\ pc[t] = "start"
  /\ pxci' = pxci \cup {slot[t]}
  /\ pc' = [pc EXCEPT ![t] = "wait"]
  /\ UNCHANGED <<listVars, pxis, norun, outcome, slot, ret, isrVars>>

\* The task is scheduled again: error bit of _ahci_status[ptw].
Result(t) ==
  /\ pc[t] = "wait"
  /\ t \notin norun
  /\ ret' = [ret EXCEPT ![t] = IF "error" \in status[slot[t]] THEN "error" ELSE "ok"]
  /\ pc' = [pc EXCEPT ![t] = "idle"]
  /\ UNCHANGED <<listVars, pxci, pxis, norun, outcome, slot, isrVars>>

-----------------------------------------------------------------------------
(* The device and _sdc_isr                                                 *)

DeviceCompletes(s) ==
  /\ s \in pxci
  /\ pxci' = pxci \ {s}
  /\ \E o \in Completed :
       /\ pxis' = pxis \cup {o}
       /\ outcome' = [outcome EXCEPT ![gtid[s]] = o]
  /\ UNCHANGED <<listVars, norun, taskVars, isrVars>>

IsrEnter ==
  /\ isr = "idle"
  /\ pxis # {}
  /\ \A t \in IrqSide : ~Critical(t)
  /\ snapshot' = pxci
  /\ cur' = ptr
  /\ isr' = "scan"
  /\ UNCHANGED <<listVars, pxci, pxis, norun, outcome, taskVars>>

\* The current command is completed: the read pointer and the status.
IsrNextCompleted ==
  /\ isr = "scan"
  /\ cur # ptw
  /\ cur % Slots \notin snapshot
  /\ ptr' = Next1(ptr)
  /\ status' = [status EXCEPT ![cur % Slots] = pxis]
  /\ isr' = "reset"
  /\ UNCHANGED <<ptw, gtid, pxci, pxis, norun, outcome, taskVars, snapshot, cur>>

\* PXIS is reset.
IsrReset ==
  /\ isr = "reset"
  /\ pxis' = {}
  /\ isr' = "wake"
  /\ UNCHANGED <<listVars, pxci, norun, outcome, taskVars, snapshot, cur>>

\* The NORUN bit of the task is cleared, and the WTI sent.
IsrWake ==
  /\ isr = "wake"
  /\ norun' = norun \ {gtid[cur % Slots]}
  /\ cur' = Next1(cur)
  /\ isr' = "scan"
  /\ UNCHANGED <<listVars, pxci, pxis, outcome, taskVars, snapshot>>

\* No other slot, or one with a transfer in progress.
IsrReturn ==
  /\ isr = "scan"
  /\ cur = ptw \/ cur % Slots \in snapshot
  /\ isr' = "idle"
  /\ UNCHANGED <<listVars, pxci, pxis, norun, outcome, taskVars, snapshot, cur>>

-----------------------------------------------------------------------------

Advance(t) ==
  /\ Runs(t)
  /\ \/ TakeSlot(t) \/ SlotIsFree(t) \/ SetGtid(t) \/ Block(t) \/ StartTransfer(t)
     \/ Result(t)

Isr == IsrEnter \/ IsrNextCompleted \/ IsrReset \/ IsrWake \/ IsrReturn

Next ==
  \/ \E t \in Tasks : (Runs(t) /\ Call(t)) \/ Advance(t)
  \/ \E s \in Slot : DeviceCompletes(s)
  \/ Isr

Spec == Init /\ [][Next]_vars

-----------------------------------------------------------------------------
(* Properties                                                              *)

TypeOK ==
  /\ ptw \in Pointer /\ ptr \in Pointer /\ cur \in Pointer
  /\ gtid \in [Slot -> Tasks \cup {None}]
  /\ status \in [Slot -> SUBSET Completed]
  /\ pxci \subseteq Slot /\ snapshot \subseteq Slot /\ pxis \subseteq Completed
  /\ norun \subseteq Tasks
  /\ pc \in [Tasks -> {"idle", "slot", "poll", "gtid", "block", "start", "wait"}]
  /\ slot \in [Tasks -> Slot]
  /\ outcome \in [Tasks -> Completed \cup {None}]
  /\ ret \in [Tasks -> Completed \cup {None}]
  /\ isr \in {"idle", "scan", "reset", "wake"}

\* A transfer that is in progress is between the two pointers, and its gtid is a
\* task that waits for it in its own slot.
TransferIsIdentified ==
  \A s \in pxci :
    /\ gtid[s] \in norun /\ pc[gtid[s]] = "wait" /\ slot[gtid[s]] = s
    /\ \E k \in 0 .. Slots - 1 :
         /\ ((ptr + k) % Wrap) % Slots = s
         /\ k < (ptw + Wrap - ptr) % Wrap

Io == INSTANCE BlockingIo
  WITH phase <- [t \in Tasks |->
         IF pc[t] = "idle" THEN "idle"
         ELSE IF outcome[t] = None THEN "posted" ELSE "done"]

\* _sdc_access returns after the completion of the transfer of the caller, with
\* its outcome: sdc_driver.h, the ISR wakes up the "tasks that have a completed
\* command".
IoSpec == Io!Spec

=============================================================================
