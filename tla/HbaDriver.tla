------------------------------- MODULE HbaDriver -------------------------------
(***************************************************************************)
(* The driver of the AHCI disk controller in descheduling mode             *)
(* (hba_driver.c): _hba_access for each task, _hba_isr on the processor    *)
(* that the IRQ is statically routed to. The device is external.           *)
(*                                                                         *)
(* Several transfers are in flight, one per slot of the command list. The  *)
(* ISR relates them to tasks with two tables: _hba_active_cmd, which says  *)
(* the slots somebody waits for, and _hba_gtid. A task cannot be           *)
(* descheduled nor interrupted between Block and the switch; the ISR runs  *)
(* on another processor meanwhile, unless the task is on the processor of  *)
(* the IRQ (IrqSide).                                                      *)
(***************************************************************************)
EXTENDS Naturals, FiniteSets

CONSTANTS Tasks,        \* the tasks that access the disk
          IrqSide,      \* those that run on the processor of the IRQ
          Slots,        \* bound: size of the command list (32)
          Errors        \* may the device report an error?

ASSUME HbaAssumption ==
  /\ IsFiniteSet(Tasks) /\ IrqSide \subseteq Tasks
  /\ Slots \in Nat \ {0} /\ Errors \in BOOLEAN

Slot == 0 .. Slots - 1
None == "none"
Completed == IF Errors THEN {"ok", "error"} ELSE {"ok"}

VARIABLES allocated,    \* slots with _hba_allocated_cmd set
          active,       \* slots with _hba_active_cmd set
          gtid,         \* _hba_gtid
          pxci,         \* HBA_PXCI: slots with a transfer in progress
          pxis,         \* HBA_PXIS: what happened since it was reset
          status,       \* _hba_status
          norun,        \* tasks with the NORUN_MASK_IOC bit
          pc,           \* where each task is in _hba_access
          slot,         \* cmd_id of each task
          outcome,      \* outcome of the last transfer of each task
          ret,          \* value returned by the last call of each task
          isr,          \* where the ISR is
          wake          \* current_active_cmd, then the commands to wake up

taskVars == <<pc, slot, ret>>
isrVars == <<isr, wake, status>>
vars == <<allocated, active, gtid, pxci, pxis, norun, outcome, taskVars, isrVars>>

\* The interrupts of the processor of a task are disabled.
Critical(t) == pc[t] \in {"start", "active"}

\* The tasks on the processor of the IRQ do not run during the ISR, nor during
\* the critical section of one of them.
Runs(t) ==
  t \in IrqSide => isr = "idle" /\ \A u \in IrqSide \ {t} : ~Critical(u)

-----------------------------------------------------------------------------
(* Faulty variants                                                         *)

\* The slot is not marked as allocated.
AllocUnmarked(t) ==
  /\ pc[t] = "alloc"
  /\ \E s \in Slot \ allocated :
       /\ \A r \in Slot \ allocated : s <= r
       /\ slot' = [slot EXCEPT ![t] = s]
  /\ pc' = [pc EXCEPT ![t] = "gtid"]
  /\ UNCHANGED <<allocated, active, gtid, pxci, pxis, norun, outcome, ret, isrVars>>

\* The scan of the allocator goes one entry too far.
AllocTooFar(t) ==
  /\ pc[t] = "alloc"
  /\ \E s \in (0 .. Slots) \ allocated :
       /\ \A r \in (0 .. Slots) \ allocated : s <= r
       /\ slot' = [slot EXCEPT ![t] = s]
       /\ allocated' = allocated \cup {s}
  /\ pc' = [pc EXCEPT ![t] = "gtid"]
  /\ UNCHANGED <<active, gtid, pxci, pxis, norun, outcome, ret, isrVars>>

\* The ISR wakes up the active commands that are not completed.
IsrPxciInverted ==
  /\ isr = "pxci"
  /\ wake' = wake \cap pxci
  /\ isr' = "wake"
  /\ UNCHANGED <<allocated, active, gtid, pxci, pxis, norun, outcome, taskVars, status>>

-----------------------------------------------------------------------------
(* _hba_access                                                             *)

Init ==
  /\ allocated = {} /\ active = {} /\ pxci = {} /\ pxis = {} /\ norun = {}
  /\ gtid = [s \in Slot |-> None]
  /\ status = None
  /\ pc = [t \in Tasks |-> "idle"]
  /\ slot = [t \in Tasks |-> 0]
  /\ outcome = [t \in Tasks |-> None]
  /\ ret = [t \in Tasks |-> None]
  /\ isr = "idle" /\ wake = {}

Call(t) ==
  /\ pc[t] = "idle"
  /\ pc' = [pc EXCEPT ![t] = "alloc"]
  /\ outcome' = [outcome EXCEPT ![t] = None]
  /\ UNCHANGED <<allocated, active, gtid, pxci, pxis, norun, slot, ret, isrVars>>

\* _hba_cmd_alloc: the scan that finds a slot, under the SQT lock.
Alloc(t) ==
  /\ pc[t] = "alloc"
  /\ \E s \in Slot \ allocated :
       /\ \A r \in Slot \ allocated : s <= r
       /\ slot' = [slot EXCEPT ![t] = s]
       /\ allocated' = allocated \cup {s}
  /\ pc' = [pc EXCEPT ![t] = "gtid"]
  /\ UNCHANGED <<active, gtid, pxci, pxis, norun, outcome, ret, isrVars>>

\* The command descriptor and table, the PXIE register, _hba_gtid[cmd_id].
SetGtid(t) ==
  /\ pc[t] = "gtid"
  /\ gtid' = [gtid EXCEPT ![slot[t]] = t]
  /\ pc' = [pc EXCEPT ![t] = "block"]
  /\ UNCHANGED <<allocated, active, pxci, pxis, norun, outcome, slot, ret, isrVars>>

\* _it_disable, and the NORUN bit.
Block(t) ==
  /\ pc[t] = "block"
  /\ norun' = norun \cup {t}
  /\ pc' = [pc EXCEPT ![t] = "start"]
  /\ UNCHANGED <<allocated, active, gtid, pxci, pxis, outcome, slot, ret, isrVars>>

\* The transfer is started with a write into HBA_PXCI.
StartTransfer(t) ==
  /\ pc[t] = "start"
  /\ pxci' = pxci \cup {slot[t]}
  /\ pc' = [pc EXCEPT ![t] = "active"]
  /\ UNCHANGED <<allocated, active, gtid, pxis, norun, outcome, slot, ret, isrVars>>

\* Then the command is declared active, and the task is descheduled.
SetActive(t) ==
  /\ pc[t] = "active"
  /\ active' = active \cup {slot[t]}
  /\ pc' = [pc EXCEPT ![t] = "wait"]
  /\ UNCHANGED <<allocated, gtid, pxci, pxis, norun, outcome, slot, ret, isrVars>>

\* The task is scheduled again, and reads _hba_status.
Result(t) ==
  /\ pc[t] = "wait"
  /\ t \notin norun
  /\ ret' = [ret EXCEPT ![t] = IF status = "error" THEN "error" ELSE "ok"]
  /\ pc' = [pc EXCEPT ![t] = "release"]
  /\ UNCHANGED <<allocated, active, gtid, pxci, pxis, norun, outcome, slot, isrVars>>

\* _hba_cmd_release, without the lock.
Release(t) ==
  /\ pc[t] = "release"
  /\ allocated' = allocated \ {slot[t]}
  /\ pc' = [pc EXCEPT ![t] = "idle"]
  /\ UNCHANGED <<active, gtid, pxci, pxis, norun, outcome, slot, ret, isrVars>>

-----------------------------------------------------------------------------
(* The device and _hba_isr                                                 *)

DeviceCompletes(s) ==
  /\ s \in pxci
  /\ pxci' = pxci \ {s}
  /\ \E o \in Completed :
       /\ pxis' = pxis \cup {o}
       /\ outcome' = [outcome EXCEPT ![gtid[s]] = o]
  /\ UNCHANGED <<allocated, active, gtid, norun, taskVars, isrVars>>

\* PXIS is saved, unless an error was saved before.
IsrStatus ==
  /\ isr = "idle"
  /\ pxis # {}
  /\ \A t \in IrqSide : ~Critical(t)
  /\ status' = IF status = "error" \/ "error" \in pxis THEN "error" ELSE "ok"
  /\ isr' = "reset"
  /\ UNCHANGED <<allocated, active, gtid, pxci, pxis, norun, outcome, taskVars, wake>>

\* PXIS is reset.
IsrReset ==
  /\ isr = "reset"
  /\ pxis' = {}
  /\ isr' = "snapshot"
  /\ UNCHANGED <<allocated, active, gtid, pxci, norun, outcome, taskVars, wake, status>>

\* current_active_cmd. The 32 entries are read one by one; each of them only
\* matters against its own bit of PXCI, which is read later in any case.
IsrSnapshot ==
  /\ isr = "snapshot"
  /\ wake' = active
  /\ isr' = "pxci"
  /\ UNCHANGED <<allocated, active, gtid, pxci, pxis, norun, outcome, taskVars, status>>

\* PXCI is read: the active commands that are not in it are completed.
IsrPxci ==
  /\ isr = "pxci"
  /\ wake' = wake \ pxci
  /\ isr' = "wake"
  /\ UNCHANGED <<allocated, active, gtid, pxci, pxis, norun, outcome, taskVars, status>>

\* For each completed command: _hba_active_cmd and the NORUN bit are cleared.
IsrWake ==
  /\ isr = "wake" /\ wake # {}
  /\ \E s \in wake :
       /\ \A r \in wake : s <= r
       /\ active' = active \ {s}
       /\ norun' = norun \ {gtid[s]}
       /\ wake' = wake \ {s}
  /\ UNCHANGED <<allocated, gtid, pxci, pxis, outcome, taskVars, isr, status>>

IsrReturn ==
  /\ isr = "wake" /\ wake = {}
  /\ isr' = "idle"
  /\ UNCHANGED <<allocated, active, gtid, pxci, pxis, norun, outcome, taskVars, wake, status>>

-----------------------------------------------------------------------------

\* The scans of a caller that has no slot, and the steps of one that has its slot.
Scan(t) == Runs(t) /\ Alloc(t)
Serve(t) ==
  /\ Runs(t)
  /\ \/ SetGtid(t) \/ Block(t) \/ StartTransfer(t) \/ SetActive(t)
     \/ Result(t) \/ Release(t)
Advance(t) == Scan(t) \/ Serve(t)

Isr == IsrStatus \/ IsrReset \/ IsrSnapshot \/ IsrPxci \/ IsrWake \/ IsrReturn

Next ==
  \/ \E t \in Tasks : (Runs(t) /\ Call(t)) \/ Advance(t)
  \/ \E s \in Slot : DeviceCompletes(s)
  \/ Isr

Spec == Init /\ [][Next]_vars

(* Tasks and ISR run; the device completes the transfers; the pending      *)
(* interrupt is taken in spite of the critical sections of its processor.  *)
(* The allocator gives its lock back and takes it again at each scan. The  *)
(* lock serves its queue (SqtLock), so a task scans again and again, and a *)
(* slot that is free when a scan starts stays free until it is read: only  *)
(* the holder of the lock allocates. But nothing makes a scan fall on the  *)
(* moments where a slot is free: a task finds one for certain only if some *)
(* slot stays free (WF), and may starve when the others take them all.     *)
FairSpec ==
  /\ Spec
  /\ \A t \in Tasks : SF_vars(Serve(t)) /\ WF_vars(Alloc(t))
  /\ \A s \in Slot : WF_vars(DeviceCompletes(s))
  /\ SF_vars(Isr)

-----------------------------------------------------------------------------
(* Properties                                                              *)

TypeOK ==
  /\ allocated \subseteq Slot /\ active \subseteq Slot /\ pxci \subseteq Slot
  /\ gtid \in [Slot -> Tasks \cup {None}]
  /\ pxis \subseteq Completed /\ status \in Completed \cup {None}
  /\ norun \subseteq Tasks
  /\ pc \in [Tasks -> {"idle", "alloc", "gtid", "block", "start", "active",
                       "wait", "release"}]
  /\ slot \in [Tasks -> Slot]
  /\ outcome \in [Tasks -> Completed \cup {None}]
  /\ ret \in [Tasks -> Completed \cup {None}]
  /\ isr \in {"idle", "reset", "snapshot", "pxci", "wake"}
  /\ wake \subseteq Slot

InSlot(t) == pc[t] \notin {"idle", "alloc"}

\* _hba_cmd_alloc: a slot has at most one task, and it is allocated as long as
\* it has one, although the release does not take the lock of the allocator.
SlotOwner ==
  /\ \A t, u \in Tasks : InSlot(t) /\ InSlot(u) /\ slot[t] = slot[u] => t = u
  /\ \A t \in Tasks : InSlot(t) => slot[t] \in allocated

\* The ISR never finds a command of the previous owner of a slot: an active
\* slot belongs to a task that waits, and its gtid is that task.
ActiveIsWaiting ==
  \A s \in active : \E t \in Tasks : pc[t] = "wait" /\ slot[t] = s /\ gtid[s] = t

Io == INSTANCE BlockingIo
  WITH phase <- [t \in Tasks |->
         IF pc[t] \in {"idle", "release"} THEN "idle"
         ELSE IF outcome[t] = None THEN "posted" ELSE "done"]

\* _hba_access returns after the completion of the transfer of the caller,
\* with its outcome: "return 0 if success, -1 if error".
IoSpec == Io!Spec

\* "In descheduling mode, the calling task is descheduled, and must be
\* restart when the command is completed."
EveryAccessReturns == \A t \in Tasks : pc[t] = "alloc" ~> pc[t] = "idle"

=============================================================================
