----------------------------- MODULE DeviceProofs -----------------------------
(***************************************************************************)
(* Theorems on the devices that deschedule their caller, for any set of    *)
(* tasks, any choice of those that run on the processor of the IRQ and any *)
(* size of the command lists.                                              *)
(*                                                                         *)
(* For each driver, the invariant says at each point of the code what the  *)
(* transfer of the task has become, in the device, in the ISR and in the   *)
(* tables that the ISR reads. A driver moves only when it is the one that  *)
(* the kernel uses, so that the four invariants hold side by side.         *)
(***************************************************************************)
EXTENDS MCDevices, SequenceTheorems, TLAPS

-----------------------------------------------------------------------------
(* The block device                                                        *)

\* Task t is in the lock of the driver.
BInLock(t) == bPc[t] \in {"regs", "gtid", "block", "launch", "wait", "unlock"}

\* The transfer is in the device or in the ISR.
BInFlight == bStatus # "idle" \/ bIsr # "idle"

\* The lock has its head inside; the registers and _bdv_gtid are the ones of the
\* task in the lock from the moment it writes them.
BdvOwner ==
  \A t \in Tasks :
    /\ BInLock(t) => bEntered /\ bQueue # <<>> /\ t = Head(bQueue)
    /\ bPc[t] \in {"gtid", "block", "launch", "wait"} => bRegs = t
    /\ bPc[t] \in {"block", "launch", "wait"} => bGtid = t

\* A task is blocked from the NORUN bit to the wakeup, and from the launch on its
\* transfer is in the device or in the ISR, which has nothing else to do.
BdvBlocked ==
  /\ \A t \in Tasks : t \in bNorun => bPc[t] \in {"launch", "wait"}
  /\ \A t \in Tasks : bPc[t] = "launch" => t \in bNorun
  /\ \A t \in Tasks : bPc[t] = "wait" /\ t \in bNorun => BInFlight
  /\ BInFlight => \E t \in Tasks : bPc[t] = "wait" /\ t \in bNorun
  /\ bStatus # "idle" => bIsr = "idle"

\* Where the outcome of the transfer is, until the task reads it.
BdvOutcome ==
  \A t \in Tasks :
    /\ bPc[t] \in {"lock", "regs", "gtid", "block", "launch"} => bOutcome[t] = None
    /\ bPc[t] = "wait" =>
         /\ bStatus = "busy" <=> bOutcome[t] = None
         /\ bStatus \in Bdv!Completed => bOutcome[t] = bStatus
         /\ bIsr = "save" => bOutcome[t] = bRead
         /\ bIsr = "wake" => bOutcome[t] = bSaved
         /\ t \notin bNorun => bOutcome[t] = bSaved

BdvInv == Bdv!TypeOK /\ BdvOwner /\ BdvBlocked /\ BdvOutcome

-----------------------------------------------------------------------------
(* The AHCI controller                                                     *)

\* From _hba_gtid to the end of the wait, the entry of the slot names its task,
\* which is blocked from the NORUN bit on.
HbaTables ==
  /\ \A t \in Tasks : pc[t] \in {"block", "start", "active", "wait"} => gtid[slot[t]] = t
  /\ \A t \in norun : pc[t] \in {"start", "active", "wait"}
  /\ \A t \in Tasks : pc[t] \in {"start", "active"} => t \in norun
  /\ \A t \in Tasks : pc[t] = "wait" /\ slot[t] \in active => t \in norun

\* A transfer in progress has its task, blocked; the ISR looks at active commands
\* only, and wakes up those whose transfer is over.
HbaTransfers ==
  /\ \A s \in pxci : \E t \in norun : pc[t] \in {"active", "wait"} /\ slot[t] = s
  /\ wake \subseteq active
  /\ isr = "wake" => wake \cap pxci = {}

\* The outcome of a transfer is known when the device has completed it.
HbaOutcome ==
  \A t \in Tasks :
    /\ pc[t] \in {"alloc", "gtid", "block", "start"} => outcome[t] = None
    /\ pc[t] \in {"active", "wait"} => (outcome[t] = None <=> slot[t] \in pxci)

HbaInv == TypeOK /\ SlotOwner /\ ActiveIsWaiting /\ HbaTables /\ HbaTransfers /\ HbaOutcome

-----------------------------------------------------------------------------
(* The SD card                                                             *)

\* The FAT makes one access at a time, and its task runs between two runs of the
\* ISR: the ISR is active while the task waits only.
SdcAlone ==
  /\ \A t, u \in IrqSide : sPc[t] # "idle" /\ sPc[u] # "idle" => t = u
  /\ \A t \in sNorun : sPc[t] \in {"start", "wait"}
  /\ sIsr # "idle" => \E t \in IrqSide : sPc[t] = "wait"
  /\ (\E t \in IrqSide : sPc[t] = "wait") \/ (sPxci = {} /\ sPxis = {})
  /\ (\A t \in IrqSide : sPc[t] \in {"idle", "slot"}) => sPtr = sPtw

\* The command of the access, until its transfer starts.
SdcCommand ==
  \A t \in IrqSide :
    /\ sPc[t] \in {"slot", "poll", "gtid", "block", "start"} => sOutcome[t] = None
    /\ sPc[t] \in {"poll", "gtid", "block", "start"} =>
         sPtw = Sdc!Next1(sPtr) /\ sSlot[t] = sPtr % Slots
    /\ sPc[t] \in {"block", "start", "wait"} => sGtid[sSlot[t]] = t
    /\ sPc[t] = "start" => t \in sNorun

\* What the card, then the ISR, then the woken task have of the transfer of t.
SdcInCard(t) ==
  /\ sIsr = "idle" /\ sPtw = Sdc!Next1(sPtr) /\ sSlot[t] = sPtr % Slots
  /\ \/ sPxci = {sSlot[t]} /\ sPxis = {} /\ sOutcome[t] = None
     \/ sPxci = {} /\ sOutcome[t] # None /\ sPxis = {sOutcome[t]}
SdcInScan(t) ==
  /\ sIsr = "scan" /\ sPtw = Sdc!Next1(sPtr) /\ sSlot[t] = sPtr % Slots
  /\ sCur = sPtr /\ sSnapshot = {}
  /\ sPxci = {} /\ sOutcome[t] # None /\ sPxis = {sOutcome[t]}
SdcInWakeup(t) ==
  /\ sIsr \in {"reset", "wake"} /\ sPtw = sPtr /\ sPtw = Sdc!Next1(sCur)
  /\ sSlot[t] = sCur % Slots
  /\ sPxci = {} /\ sOutcome[t] # None /\ sStatus[sSlot[t]] = {sOutcome[t]}
  /\ sIsr = "wake" => sPxis = {}
SdcOver(t) ==
  /\ sIsr \in {"scan", "idle"} /\ sPtw = sPtr /\ (sIsr = "scan" => sCur = sPtr)
  /\ sPxci = {} /\ sPxis = {} /\ sOutcome[t] # None /\ sStatus[sSlot[t]] = {sOutcome[t]}

SdcWaits ==
  \A t \in IrqSide : sPc[t] = "wait" =>
    \/ t \in sNorun /\ (SdcInCard(t) \/ SdcInScan(t) \/ SdcInWakeup(t))
    \/ t \notin sNorun /\ SdcOver(t)

SdcInv == Sdc!TypeOK /\ SdcAlone /\ SdcCommand /\ SdcWaits

-----------------------------------------------------------------------------
(* The coprocessors                                                        *)

\* The outcome of the transfer of t, from what its channels have become.
CoprocKnown(t) ==
  /\ (\E c \in Slot : cStatus[c] = "error") => cOutcome[t] = "error"
  /\ (\A c \in Slot : cStatus[c] = "ok") => cOutcome[t] = "ok"
  /\ (\A c \in Slot : cStatus[c] # "error") /\ (\E c \in Slot : cStatus[c] = "busy") =>
       cOutcome[t] = None

\* Who is not idle has the lock of the coprocessor; the channels and the ISR work
\* for nobody else. The channels that run have the same mode.
CoprocOwner ==
  /\ \A t \in Tasks : cPc[t] # "idle" => cLock = t
  /\ cRunning # {} => \E t \in Tasks : cPc[t] \notin {"idle", "dead"}
  /\ cIsr = "wake" => \E t \in Tasks : cPc[t] \in {"wait", "poll", "dead"}
  /\ \A t \in cNorun : cPc[t] \in {"critical", "wait"}
  /\ \A t \in Tasks : cPc[t] = "critical" => t \in cNorun
  /\ cRunning # {} => Coproc!SameMode

\* Nothing completes before the coprocessor is started, nor in MODE_MWMR. The ISR stops all the
\* channels at once, and what it saves is the outcome.
CoprocPhases ==
  \A t \in Tasks :
    /\ cPc[t] = "own" =>
         /\ cIsr = "idle"
         /\ \/ cRunning = {}
            \/ cRunning = Slot /\ cMode = "mwmr" /\ \A c \in Slot : cStatus[c] = "busy"
    /\ cPc[t] \in {"run", "block", "critical"} =>
         /\ cIsr = "idle" /\ cRunning = Slot /\ ~cStarted
         /\ \A c \in Slot : cStatus[c] = "busy"
         /\ cMode # "mwmr" => cOutcome[t] = None
    /\ cPc[t] \in {"block", "critical", "wait"} => cMode = "dma_irq" /\ cGtid = t
    /\ cPc[t] = "wait" =>
         \/ t \in cNorun /\ cIsr = "idle" /\ cRunning = Slot /\ CoprocKnown(t)
         \/ cRunning = {} /\ cOutcome[t] = cError /\ (t \in cNorun <=> cIsr = "wake")
    /\ cPc[t] = "poll" =>
         /\ cMode = "dma_no_irq" /\ CoprocKnown(t)
         /\ \/ cRunning = Slot /\ cIsr = "idle"
            \/ cRunning = {} /\ \E c \in Slot : cStatus[c] = "error"

\* The type invariant of the system calls, one variable at a time.
CoprocType ==
  /\ cLock \in Tasks \cup {None} /\ cGtid \in Tasks \cup {None}
  /\ cMode \in Coproc!Mode /\ cError \in {"ok", "error"}
  /\ cChannelMode \in [Slot -> Coproc!Mode] /\ cRunning \subseteq Slot
  /\ cStatus \in [Slot -> {"ok", "error", "busy"}] /\ cStarted \in BOOLEAN
  /\ cNorun \subseteq Tasks
  /\ cPc \in [Tasks -> {"idle", "own", "run", "block", "critical", "wait", "poll", "dead"}]
  /\ cOutcome \in [Tasks -> {"ok", "error", None}]
  /\ cRet \in [Tasks -> {"ok", "error", None}]
  /\ cIsr \in {"idle", "wake"}

CoprocInv == CoprocType /\ CoprocOwner /\ CoprocPhases

-----------------------------------------------------------------------------
(* The steps of the block device driver                                    *)

\* The lock is held by the task that is in it, and by no other.
LEMMA BdvAlone ==
  ASSUME BdvInv, NEW t \in Tasks, NEW u \in Tasks, BInLock(t), BInLock(u)
  PROVE  t = u
BY DEF BdvInv, BdvOwner

\* A new request goes behind the head of the queue.
LEMMA BdvRequest ==
  ASSUME BdvInv, NEW t \in Tasks, Bdv!Call(t)
  PROVE  BdvInv'
<1>1. /\ bQueue \in Seq(Tasks) /\ bQueue' = Append(bQueue, t) /\ bEntered' = bEntered
      /\ bPc[t] = "idle" /\ bPc' = [bPc EXCEPT ![t] = "lock"]
      /\ bOutcome' = [bOutcome EXCEPT ![t] = None]
      /\ UNCHANGED <<bRegs, bStatus, bGtid, bNorun, bSaved, bIsr, bRead, bRet, bKilled>>
      /\ bPc \in [Tasks -> {"idle", "lock", "regs", "gtid", "block", "launch",
                            "wait", "unlock"}]
  BY DEF Bdv!Call, Bdv!Lock!Request, BdvInv, Bdv!TypeOK, None, Bdv!None
<1>2. bQueue' \in Seq(Tasks) /\ (bQueue # <<>> => bQueue' # <<>> /\ Head(bQueue') = Head(bQueue))
  BY <1>1
<1>3. Bdv!TypeOK'
  BY <1>1, <1>2 DEF BdvInv, Bdv!TypeOK, Bdv!None, None
<1>4. BdvOwner'
  BY <1>1, <1>2 DEF BdvInv, BdvOwner, BInLock
<1>5. BdvBlocked'
  BY <1>1 DEF BdvInv, BdvBlocked, BInFlight
<1>6. BdvOutcome'
  BY <1>1 DEF BdvInv, Bdv!TypeOK, BdvOutcome
<1> QED
  BY <1>3, <1>4, <1>5, <1>6 DEF BdvInv

\* The head of the queue enters: nobody else is in the lock.
LEMMA BdvEnters ==
  ASSUME BdvInv, NEW t \in Tasks, Bdv!GetLock(t)
  PROVE  BdvInv'
<1>1. /\ bQueue # <<>> /\ ~bEntered /\ bEntered' = TRUE /\ t = Head(bQueue)
      /\ bPc[t] = "lock" /\ bPc' = [bPc EXCEPT ![t] = "regs"]
      /\ UNCHANGED <<bQueue, bRegs, bStatus, bGtid, bNorun, bSaved, bIsr, bRead, bOutcome,
                     bRet, bKilled>>
  BY DEF Bdv!GetLock, Bdv!Lock!Enter
<1>2. Bdv!TypeOK'
  BY <1>1 DEF BdvInv, Bdv!TypeOK
<1>3. BdvOwner' /\ BdvBlocked' /\ BdvOutcome'
  BY <1>1 DEF BdvInv, Bdv!TypeOK, BdvOwner, BInLock, BdvBlocked, BInFlight, BdvOutcome
<1> QED
  BY <1>2, <1>3 DEF BdvInv

\* The registers, _bdv_gtid, the NORUN bit and the launch: the task is alone in the
\* lock, and nothing is in flight.
LEMMA BdvPosts ==
  ASSUME BdvInv, NEW t \in Tasks,
         Bdv!SetRegisters(t) \/ Bdv!SetGtid(t) \/ Bdv!Block(t) \/ Bdv!Launch(t)
  PROVE  BdvInv'
<1>1. /\ UNCHANGED <<bQueue, bEntered, bSaved, bIsr, bRead, bOutcome, bRet, bKilled>>
      /\ bPc[t] \in {"regs", "gtid", "block", "launch"}
      /\ \A u \in Tasks : u # t => bPc'[u] = bPc[u] /\ ~BInLock(u)
  BY BdvAlone DEF Bdv!SetRegisters, Bdv!SetGtid, Bdv!Block, Bdv!Launch, Bdv!lock, BdvInv,
                  Bdv!TypeOK, BInLock
<1>2. Bdv!TypeOK'
  BY DEF Bdv!SetRegisters, Bdv!SetGtid, Bdv!Block, Bdv!Launch, Bdv!lock, BdvInv, Bdv!TypeOK
<1>3. ~BInFlight
  BY <1>1, BdvAlone DEF BdvInv, BdvBlocked, BInLock
<1>4. BdvOwner'
  BY <1>1 DEF Bdv!SetRegisters, Bdv!SetGtid, Bdv!Block, Bdv!Launch, BdvInv, Bdv!TypeOK,
              BdvOwner, BInLock
<1>5. BdvBlocked'
  BY <1>1, <1>3 DEF Bdv!SetRegisters, Bdv!SetGtid, Bdv!Block, Bdv!Launch, BdvInv, Bdv!TypeOK,
                    BdvBlocked, BInFlight, BInLock
<1>6. BdvOutcome'
  BY <1>1, <1>3 DEF Bdv!SetRegisters, Bdv!SetGtid, Bdv!Block, Bdv!Launch, BdvInv, Bdv!TypeOK,
                    BdvOutcome, BdvBlocked, BInFlight, BInLock, Bdv!Completed
<1> QED
  BY <1>2, <1>4, <1>5, <1>6 DEF BdvInv

\* The result is read when the transfer is over; then the lock is free.
LEMMA BdvReturns ==
  ASSUME BdvInv, NEW t \in Tasks, Bdv!Result(t) \/ Bdv!Return(t)
  PROVE  BdvInv'
<1>1. /\ UNCHANGED <<bRegs, bStatus, bGtid, bNorun, bSaved, bIsr, bRead, bOutcome, bKilled>>
      /\ bPc[t] \in {"wait", "unlock"} /\ t \notin bNorun
      /\ \A u \in Tasks : u # t => bPc'[u] = bPc[u] /\ ~BInLock(u)
      /\ bQueue \in Seq(Tasks) /\ bQueue # <<>>
  BY BdvAlone DEF Bdv!Result, Bdv!Return, Bdv!lock, BdvInv, Bdv!TypeOK, BInLock, BdvBlocked,
                  BdvOwner
<1>2. Bdv!TypeOK'
  <2>1. Tail(bQueue) \in Seq(Tasks)
    BY <1>1
  <2> QED
    BY <2>1 DEF Bdv!Result, Bdv!Return, Bdv!lock, Bdv!Lock!Exit, BdvInv, Bdv!TypeOK
<1>3. BdvOwner'
  BY <1>1 DEF Bdv!Result, Bdv!Return, Bdv!lock, BdvInv, Bdv!TypeOK, BdvOwner, BInLock
<1>4. BdvBlocked'
  BY <1>1 DEF Bdv!Result, Bdv!Return, BdvInv, Bdv!TypeOK, BdvBlocked, BInFlight
<1>5. BdvOutcome'
  BY <1>1 DEF Bdv!Result, Bdv!Return, BdvInv, Bdv!TypeOK, BdvOutcome
<1> QED
  BY <1>2, <1>3, <1>4, <1>5 DEF BdvInv

\* The device and the ISR hand the outcome over, up to the task that waits for it.
LEMMA BdvCompletes ==
  ASSUME BdvInv, Bdv!DeviceCompletes \/ Bdv!Isr
  PROVE  BdvInv'
<1>1. PICK t \in Tasks : bPc[t] = "wait" /\ t \in bNorun
  BY DEF BdvInv, BdvBlocked, BInFlight, Bdv!DeviceCompletes, Bdv!Isr, Bdv!IsrStatus,
         Bdv!IsrSave, Bdv!IsrWake, Bdv!Completed
<1>2. /\ bRegs = t /\ bGtid = t
      /\ \A u \in Tasks : u # t => ~BInLock(u)
      /\ UNCHANGED <<bQueue, bEntered, bPc, bRegs, bGtid, bRet, bKilled>>
  BY <1>1, BdvAlone DEF BdvInv, BdvOwner, BInLock, Bdv!DeviceCompletes, Bdv!Isr, Bdv!IsrStatus,
         Bdv!IsrSave, Bdv!IsrWake, Bdv!lock
<1>3. Bdv!TypeOK'
  BY <1>2 DEF BdvInv, Bdv!TypeOK, Bdv!DeviceCompletes, Bdv!Isr, Bdv!IsrStatus, Bdv!IsrSave,
         Bdv!IsrWake, Bdv!Completed, Bdv!None
<1>4. BdvOwner'
  BY <1>2 DEF BdvInv, BdvOwner, BInLock
<1>5. BdvBlocked'
  BY <1>1, <1>2 DEF BdvInv, BdvBlocked, BInFlight, BInLock, Bdv!DeviceCompletes, Bdv!Isr,
         Bdv!IsrStatus, Bdv!IsrSave, Bdv!IsrWake, Bdv!Completed
<1>6. BdvOutcome'
  BY <1>1, <1>2 DEF BdvInv, BdvOutcome, BdvBlocked, BInFlight, BInLock, Bdv!DeviceCompletes,
         Bdv!Isr, Bdv!IsrStatus, Bdv!IsrSave, Bdv!IsrWake, Bdv!Completed, Bdv!TypeOK, None,
         Bdv!None
<1> QED
  BY <1>3, <1>4, <1>5, <1>6 DEF BdvInv

\* A task is killed where it is, and what it holds stays.
LEMMA BdvPreserved ==
  ASSUME BdvInv, Bdv!Next \/ UNCHANGED bdvVars
  PROVE  BdvInv'
<1>1. CASE UNCHANGED bdvVars
  BY <1>1 DEF bdvVars, BdvInv, Bdv!TypeOK, BdvOwner, BInLock, BdvBlocked, BInFlight, BdvOutcome
<1>2. ASSUME NEW t \in Tasks, Bdv!Kill(t)
      PROVE  BdvInv'
  BY <1>2 DEF Bdv!Kill, Bdv!lock, BdvInv, Bdv!TypeOK, BdvOwner, BInLock, BdvBlocked, BInFlight,
              BdvOutcome
<1> QED
  BY <1>1, <1>2, BdvRequest, BdvEnters, BdvPosts, BdvReturns, BdvCompletes
     DEF Bdv!Next, Bdv!Advance

\* Each step of the driver is a step of the abstract access, or none.
LEMMA BdvBlocking ==
  ASSUME BdvInv, Bdv!Next \/ UNCHANGED bdvVars
  PROVE  [Bdv!Io!Next]_(Bdv!Io!vars)
<1>0. /\ bPc \in [Tasks -> {"idle", "lock", "regs", "gtid", "block", "launch",
                            "wait", "unlock"}]
      /\ bOutcome \in [Tasks -> {"ok", "error", None}]
  BY DEF BdvInv, Bdv!TypeOK, Bdv!Completed, None, Bdv!None
<1>1. ASSUME NEW t \in Tasks, Bdv!Call(t)
      PROVE  Bdv!Io!Post(t)
  BY <1>0, <1>1 DEF Bdv!Call, Bdv!Io!Post, None, Bdv!None
<1>2. ASSUME NEW t \in Tasks, Bdv!Advance(t), ~Bdv!Result(t)
      PROVE  UNCHANGED Bdv!Io!vars
  BY <1>0, <1>2 DEF Bdv!Advance, Bdv!GetLock, Bdv!SetRegisters, Bdv!SetGtid, Bdv!Block,
                    Bdv!Launch, Bdv!Return, Bdv!Io!vars
<1>3. ASSUME NEW t \in Tasks, Bdv!Result(t)
      PROVE  Bdv!Io!Return(t)
  <2>1. bPc[t] = "wait" /\ t \notin bNorun /\ ~BInFlight
    BY <1>3, BdvAlone DEF Bdv!Result, BdvInv, BdvBlocked, BInLock
  <2> QED
    BY <1>0, <1>3, <2>1 DEF Bdv!Result, Bdv!Io!Return, BdvInv, BdvOutcome, BInFlight, None,
                            Bdv!None
<1>4. ASSUME Bdv!DeviceCompletes
      PROVE  \E t \in Tasks : Bdv!Io!Complete(t)
  <2>1. PICK t \in Tasks : bPc[t] = "wait" /\ t \in bNorun /\ bRegs = t
    BY <1>4 DEF BdvInv, BdvBlocked, BdvOwner, BInFlight, Bdv!DeviceCompletes
  <2>2. Bdv!Io!Complete(t)
    BY <1>0, <1>4, <2>1 DEF BdvInv, BdvOutcome, Bdv!DeviceCompletes, Bdv!Completed,
                            Bdv!Io!Complete, None, Bdv!None
  <2> QED
    BY <2>2
<1>5. CASE Bdv!Isr
  BY <1>5 DEF Bdv!Isr, Bdv!IsrStatus, Bdv!IsrSave, Bdv!IsrWake, Bdv!Io!vars
<1>6. ASSUME NEW t \in Tasks, Bdv!Kill(t)
      PROVE  UNCHANGED Bdv!Io!vars
  BY <1>6 DEF Bdv!Kill, Bdv!Io!vars
<1>7. CASE UNCHANGED bdvVars
  BY <1>7 DEF bdvVars, Bdv!Io!vars
<1> QED
  BY <1>1, <1>2, <1>3, <1>4, <1>5, <1>6, <1>7 DEF Bdv!Next, Bdv!Io!Next

-----------------------------------------------------------------------------
(* The steps of the AHCI driver                                            *)

\* The point of _hba_access at which a task is.
HbaPoint == {"idle", "alloc", "gtid", "block", "start", "active", "wait", "release"}

\* A call, before it has a slot.
LEMMA HbaCalls ==
  ASSUME HbaInv, NEW t \in Tasks, Call(t)
  PROVE  HbaInv'
<1>1. /\ pc \in [Tasks -> HbaPoint] /\ pc[t] = "idle" /\ pc' = [pc EXCEPT ![t] = "alloc"]
      /\ outcome' = [outcome EXCEPT ![t] = None]
      /\ UNCHANGED <<allocated, active, gtid, pxci, pxis, norun, slot, ret, isr, wake, status>>
  BY DEF Call, HbaInv, TypeOK, HbaPoint, isrVars
<1>2. TypeOK'
  BY <1>1 DEF HbaInv, TypeOK, HbaPoint
<1>3. SlotOwner' /\ ActiveIsWaiting'
  BY <1>1 DEF HbaInv, SlotOwner, InSlot, ActiveIsWaiting, HbaPoint
<1>4. HbaTables' /\ HbaTransfers'
  BY <1>1 DEF HbaInv, HbaTables, HbaTransfers, HbaPoint
<1>5. HbaOutcome'
  BY <1>1 DEF HbaInv, TypeOK, HbaOutcome, HbaPoint
<1> QED
  BY <1>2, <1>3, <1>4, <1>5 DEF HbaInv

\* The slot that the scan finds belongs to nobody: neither the device nor the ISR
\* has anything of it.
LEMMA HbaAllocates ==
  ASSUME HbaInv, NEW t \in Tasks, Alloc(t)
  PROVE  HbaInv'
<1>1. PICK s \in Slot : s \notin allocated /\ slot' = [slot EXCEPT ![t] = s]
                        /\ allocated' = allocated \cup {s}
  BY DEF Alloc
<1>2. /\ pc \in [Tasks -> HbaPoint] /\ pc[t] = "alloc" /\ pc' = [pc EXCEPT ![t] = "gtid"]
      /\ slot \in [Tasks -> Slot]
      /\ UNCHANGED <<active, gtid, pxci, pxis, norun, outcome, ret, isr, wake, status>>
  BY DEF Alloc, HbaInv, TypeOK, HbaPoint, isrVars
<1>3. \A u \in Tasks : InSlot(u) => slot[u] # s
  BY <1>1 DEF HbaInv, SlotOwner
<1>4. TypeOK'
  BY <1>1, <1>2 DEF HbaInv, TypeOK, HbaPoint
<1>5. SlotOwner'
  BY <1>1, <1>2, <1>3 DEF HbaInv, SlotOwner, InSlot, HbaPoint
<1>6. ActiveIsWaiting'
  BY <1>1, <1>2 DEF HbaInv, ActiveIsWaiting, HbaPoint
<1>7. HbaTables' /\ HbaTransfers'
  BY <1>1, <1>2 DEF HbaInv, TypeOK, HbaTables, HbaTransfers, HbaPoint
<1>8. HbaOutcome'
  BY <1>1, <1>2 DEF HbaInv, HbaOutcome, HbaPoint
<1> QED
  BY <1>4, <1>5, <1>6, <1>7, <1>8 DEF HbaInv

\* From _hba_gtid to the switch, the task works on its own slot; the ISR may find
\* the transfer over before the command is active, or the command active.
LEMMA HbaPosts ==
  ASSUME HbaInv, NEW t \in Tasks, SetGtid(t) \/ Block(t) \/ StartTransfer(t) \/ SetActive(t)
  PROVE  HbaInv'
<1>1. /\ pc \in [Tasks -> HbaPoint] /\ pc[t] \in {"gtid", "block", "start", "active"}
      /\ slot \in [Tasks -> Slot] /\ gtid \in [Slot -> Tasks \cup {None}]
      /\ UNCHANGED <<allocated, pxis, outcome, slot, ret, isr, wake, status>>
      /\ pc'[t] \in {"block", "start", "active", "wait"} /\ pc' = [pc EXCEPT ![t] = pc'[t]]
  BY DEF SetGtid, Block, StartTransfer, SetActive, HbaInv, TypeOK, HbaPoint, isrVars
<1>2. \A u \in Tasks : u # t /\ InSlot(u) => slot[u] # slot[t]
  BY <1>1 DEF HbaInv, SlotOwner, InSlot
<1>3. slot[t] \notin active /\ slot[t] \notin wake
  BY <1>1, <1>2 DEF HbaInv, ActiveIsWaiting, HbaTransfers, InSlot
<1>4. TypeOK'
  BY <1>1 DEF SetGtid, Block, StartTransfer, SetActive, HbaInv, TypeOK
<1>5. SlotOwner'
  BY <1>1 DEF HbaInv, SlotOwner, InSlot, HbaPoint
<1>6. ActiveIsWaiting'
  BY <1>1, <1>2, <1>3 DEF SetGtid, Block, StartTransfer, SetActive, HbaInv, ActiveIsWaiting,
                    HbaTables, InSlot, HbaPoint
<1>7. HbaTables'
  BY <1>1, <1>2, <1>3 DEF SetGtid, Block, StartTransfer, SetActive, HbaInv, TypeOK, HbaTables,
                          InSlot, HbaPoint
<1>8. HbaTransfers'
  BY <1>1, <1>2, <1>3 DEF SetGtid, Block, StartTransfer, SetActive, HbaInv, TypeOK, HbaTables,
                          HbaTransfers, HbaPoint
<1>9. HbaOutcome'
  BY <1>1, <1>2 DEF SetGtid, Block, StartTransfer, SetActive, HbaInv, HbaTransfers, HbaOutcome, InSlot,
                    HbaPoint
<1> QED
  BY <1>4, <1>5, <1>6, <1>7, <1>8, <1>9 DEF HbaInv

\* A task that runs again has nothing left in the device or the ISR, and gives the
\* slot back.
LEMMA HbaReturns ==
  ASSUME HbaInv, NEW t \in Tasks, Result(t) \/ Release(t)
  PROVE  HbaInv'
<1>1. /\ pc \in [Tasks -> HbaPoint] /\ pc[t] \in {"wait", "release"} /\ t \notin norun
      /\ slot \in [Tasks -> Slot]
      /\ UNCHANGED <<active, gtid, pxci, pxis, norun, outcome, slot, isr, wake, status>>
      /\ pc'[t] \in {"release", "idle"} /\ pc' = [pc EXCEPT ![t] = pc'[t]]
  BY DEF Result, Release, HbaInv, TypeOK, HbaTables, HbaPoint, isrVars
<1>2. \A u \in Tasks : u # t /\ InSlot(u) => slot[u] # slot[t]
  BY <1>1 DEF HbaInv, SlotOwner, InSlot
<1>3. slot[t] \notin active /\ slot[t] \notin pxci
  BY <1>1, <1>2 DEF HbaInv, TypeOK, ActiveIsWaiting, HbaTables, HbaTransfers, InSlot
<1>4. TypeOK'
  BY <1>1 DEF Result, Release, HbaInv, TypeOK, None, Completed
<1>5. SlotOwner'
  BY <1>1, <1>2 DEF Result, Release, HbaInv, SlotOwner, InSlot, HbaPoint
<1>6. ActiveIsWaiting'
  BY <1>1, <1>3 DEF HbaInv, ActiveIsWaiting, HbaPoint
<1>7. HbaTables' /\ HbaTransfers'
  BY <1>1, <1>3 DEF HbaInv, TypeOK, HbaTables, HbaTransfers, HbaPoint
<1>8. HbaOutcome'
  BY <1>1 DEF HbaInv, HbaOutcome, HbaPoint
<1> QED
  BY <1>4, <1>5, <1>6, <1>7, <1>8 DEF HbaInv

\* The device completes a transfer: its task is the one that _hba_gtid names.
LEMMA HbaCompletes ==
  ASSUME HbaInv, NEW s \in Slot, DeviceCompletes(s)
  PROVE  HbaInv'
<1>1. PICK t \in Tasks : pc[t] \in {"active", "wait"} /\ slot[t] = s /\ gtid[s] = t
  BY DEF DeviceCompletes, HbaInv, TypeOK, HbaTransfers, HbaTables
<1>2. PICK o \in Completed : /\ pxis' = pxis \cup {o}
                             /\ outcome' = [outcome EXCEPT ![t] = o]
  BY <1>1 DEF DeviceCompletes
<1>3. /\ pxci' = pxci \ {s}
      /\ UNCHANGED <<allocated, active, gtid, norun, pc, slot, ret, isr, wake, status>>
      /\ o # None
  BY DEF DeviceCompletes, taskVars, isrVars, Completed, None
<1>4. \A u \in Tasks : u # t /\ InSlot(u) => slot[u] # s
  BY <1>1 DEF HbaInv, SlotOwner, InSlot
<1>5. TypeOK'
  BY <1>2, <1>3 DEF HbaInv, TypeOK
<1>6. SlotOwner' /\ ActiveIsWaiting' /\ HbaTables'
  BY <1>3 DEF HbaInv, SlotOwner, InSlot, ActiveIsWaiting, HbaTables
<1>7. HbaTransfers'
  BY <1>3 DEF HbaInv, HbaTransfers
<1>8. HbaOutcome'
  BY <1>1, <1>2, <1>3, <1>4 DEF HbaInv, TypeOK, HbaOutcome, InSlot
<1> QED
  BY <1>5, <1>6, <1>7, <1>8 DEF HbaInv

\* The ISR narrows the active commands down to the completed ones.
LEMMA HbaIsrLooks ==
  ASSUME HbaInv, IsrStatus \/ IsrReset \/ IsrSnapshot \/ IsrPxci \/ IsrReturn
  PROVE  HbaInv'
<1>1. /\ UNCHANGED <<allocated, active, gtid, pxci, norun, outcome, pc, slot, ret>>
      /\ wake' \subseteq active /\ (isr' = "wake" => wake' \cap pxci = {})
  BY DEF IsrStatus, IsrReset, IsrSnapshot, IsrPxci, IsrReturn, taskVars, HbaInv, HbaTransfers
<1>2. TypeOK'
  BY <1>1 DEF IsrStatus, IsrReset, IsrSnapshot, IsrPxci, IsrReturn, HbaInv, TypeOK, None,
              Completed
<1>3. SlotOwner' /\ ActiveIsWaiting' /\ HbaTables' /\ HbaTransfers' /\ HbaOutcome'
  BY <1>1 DEF HbaInv, SlotOwner, InSlot, ActiveIsWaiting, HbaTables, HbaTransfers, HbaOutcome
<1> QED
  BY <1>2, <1>3 DEF HbaInv

\* The wakeup of a command: its task is the only one that is blocked for the slot.
LEMMA HbaWakes ==
  ASSUME HbaInv, IsrWake
  PROVE  HbaInv'
<1>1. PICK s \in wake : /\ active' = active \ {s} /\ norun' = norun \ {gtid[s]}
                        /\ wake' = wake \ {s}
  BY DEF IsrWake
<1>2. PICK t \in Tasks : pc[t] = "wait" /\ slot[t] = s /\ gtid[s] = t
  BY DEF HbaInv, HbaTransfers, ActiveIsWaiting
<1>3. /\ isr = "wake" /\ s \notin pxci
      /\ UNCHANGED <<allocated, gtid, pxci, pxis, outcome, pc, slot, ret, isr, status>>
  BY DEF IsrWake, taskVars, HbaInv, HbaTransfers
<1>4. \A u \in Tasks : u # t /\ InSlot(u) => slot[u] # s
  BY <1>2 DEF HbaInv, SlotOwner, InSlot
<1>5. TypeOK'
  BY <1>1, <1>3 DEF HbaInv, TypeOK
<1>6. SlotOwner' /\ ActiveIsWaiting' /\ HbaOutcome'
  BY <1>1, <1>3 DEF HbaInv, SlotOwner, InSlot, ActiveIsWaiting, HbaOutcome
<1>7. HbaTables'
  BY <1>1, <1>2, <1>3, <1>4 DEF HbaInv, TypeOK, HbaTables, InSlot
<1>8. HbaTransfers'
  BY <1>1, <1>2, <1>3 DEF HbaInv, HbaTransfers
<1> QED
  BY <1>5, <1>6, <1>7, <1>8 DEF HbaInv

\* All the steps of the driver.
LEMMA HbaPreserved ==
  ASSUME HbaInv, [Next]_vars
  PROVE  HbaInv'
<1>1. CASE UNCHANGED vars
  BY <1>1 DEF vars, taskVars, isrVars, HbaInv, TypeOK, SlotOwner, InSlot, ActiveIsWaiting,
              HbaTables, HbaTransfers, HbaOutcome
<1> QED
  BY <1>1, HbaCalls, HbaAllocates, HbaPosts, HbaReturns, HbaCompletes, HbaIsrLooks, HbaWakes
     DEF Next, Advance, Scan, Serve, Isr

\* Each step of the driver is a step of the abstract access, or none, when the
\* device reports no error: _hba_status is shared by all the transfers.
LEMMA HbaBlocking ==
  ASSUME HbaInv, ~Errors, [Next]_vars
  PROVE  [Io!Next]_(Io!vars)
<1>0. /\ pc \in [Tasks -> HbaPoint] /\ slot \in [Tasks -> Slot]
      /\ outcome \in [Tasks -> {"ok", None}] /\ Completed = {"ok"}
  BY DEF HbaInv, TypeOK, Completed, None, HbaPoint
<1>1. ASSUME NEW t \in Tasks, Call(t)
      PROVE  Io!Post(t)
  BY <1>0, <1>1 DEF Call, Io!Post, None
<1>2. ASSUME NEW t \in Tasks, Advance(t), ~Result(t)
      PROVE  UNCHANGED Io!vars
  BY <1>0, <1>2 DEF Advance, Scan, Serve, Alloc, SetGtid, Block, StartTransfer, SetActive, Release, Io!vars
<1>3. ASSUME NEW t \in Tasks, Result(t)
      PROVE  Io!Return(t)
  <2>1. pc[t] = "wait" /\ slot[t] \notin pxci
    BY <1>3 DEF Result, HbaInv, TypeOK, HbaTransfers, SlotOwner, InSlot
  <2>2. outcome[t] = "ok" /\ status # "error"
    BY <1>0, <2>1 DEF HbaInv, HbaOutcome, TypeOK, None
  <2> QED
    BY <1>0, <1>3, <2>1, <2>2 DEF Result, Io!Return, None
<1>4. ASSUME NEW s \in Slot, DeviceCompletes(s)
      PROVE  \E t \in Tasks : Io!Complete(t)
  <2>1. PICK t \in Tasks : pc[t] \in {"active", "wait"} /\ slot[t] = s /\ gtid[s] = t
    BY <1>4 DEF DeviceCompletes, HbaInv, TypeOK, HbaTransfers, HbaTables
  <2>2. Io!Complete(t)
    BY <1>0, <1>4, <2>1 DEF DeviceCompletes, taskVars, HbaInv, HbaOutcome, Io!Complete, None
  <2> QED
    BY <2>2
<1>5. CASE Isr
  BY <1>5 DEF Isr, IsrStatus, IsrReset, IsrSnapshot, IsrPxci, IsrWake, IsrReturn, taskVars,
              Io!vars
<1>6. CASE UNCHANGED vars
  BY <1>6 DEF vars, taskVars, Io!vars
<1> QED
  BY <1>1, <1>2, <1>3, <1>4, <1>5, <1>6 DEF Next, Io!Next

-----------------------------------------------------------------------------
(* The steps of the SD card driver                                         *)

SdcPoint == {"idle", "slot", "poll", "gtid", "block", "start", "wait"}

\* The pointers are counters modulo Wrap, which the size of the list divides.
LEMMA SdcPointers ==
  ASSUME NEW p \in Sdc!Pointer
  PROVE  /\ Sdc!Next1(p) \in Sdc!Pointer /\ Sdc!Next1(p) # p
         /\ p % Slots \in Slot /\ ((p + 0) % (2 * Slots)) % Slots = p % Slots
         /\ (Sdc!Next1(p) + 2 * Slots - p) % (2 * Slots) = 1
<1>1. Slots \in Nat \ {0} /\ p \in 0 .. 2 * Slots - 1
  BY HbaAssumption DEF Sdc!Pointer
<1>2. PICK w \in Nat : w = 2 * Slots /\ w > 1
  BY <1>1
<1>3. /\ (p + 1) % w \in 0 .. w - 1 /\ (p + 1) % w # p /\ (p + 0) % w = p
      /\ (((p + 1) % w) + w - p) % w = 1
  BY <1>1, <1>2
<1> QED
  BY <1>1, <1>2, <1>3 DEF Sdc!Pointer, Sdc!Next1, Slot

\* The tasks that access the card: one at a time, and not during the ISR.
LEMMA SdcOne ==
  ASSUME SdcInv, NEW t \in IrqSide, sPc[t] # "idle"
  PROVE  \A u \in IrqSide : u # t => sPc[u] = "idle"
BY DEF SdcInv, SdcAlone

\* A call takes the next slot, when the previous command is over.
LEMMA SdcCalls ==
  ASSUME SdcInv, NEW t \in IrqSide, Sdc!Runs(t), Sdc!Call(t) \/ Sdc!TakeSlot(t)
  PROVE  SdcInv'
<1>1. /\ sPc \in [IrqSide -> SdcPoint] /\ sPc[t] \in {"idle", "slot"}
      /\ sPc' = [sPc EXCEPT ![t] = sPc'[t]] /\ sPc'[t] \in {"slot", "poll"}
      /\ \A u \in IrqSide : u # t => sPc[u] = "idle"
      /\ sIsr = "idle" /\ sPtr = sPtw /\ sPxci = {} /\ sPxis = {} /\ sNorun = {}
      /\ UNCHANGED <<sPtr, sGtid, sStatus, sPxci, sPxis, sNorun, sRet, sIsr, sSnapshot, sCur>>
  BY DEF Sdc!Runs, Sdc!Call, Sdc!TakeSlot, Sdc!listVars, Sdc!isrVars, SdcInv, SdcAlone,
         Sdc!TypeOK, SdcPoint
<1>2. sPtw \in Sdc!Pointer /\ Sdc!Next1(sPtw) \in Sdc!Pointer /\ sPtw % Slots \in Slot
  BY SdcPointers DEF SdcInv, Sdc!TypeOK
<1>3. Sdc!TypeOK'
  BY <1>1, <1>2 DEF Sdc!Call, Sdc!TakeSlot, Sdc!listVars, SdcInv, Sdc!TypeOK, SdcPoint,
                    Sdc!None, Sdc!Slot, Slot
<1>4. SdcAlone'
  BY <1>1 DEF Sdc!Call, Sdc!TakeSlot, Sdc!listVars, SdcInv, SdcAlone, SdcPoint
<1>5. SdcCommand'
  BY <1>1 DEF Sdc!Call, Sdc!TakeSlot, Sdc!listVars, SdcInv, SdcCommand, Sdc!TypeOK, SdcPoint,
              None, Sdc!None
<1>6. SdcWaits'
  BY <1>1 DEF SdcWaits, SdcPoint
<1> QED
  BY <1>3, <1>4, <1>5, <1>6 DEF SdcInv

\* The command, up to the start of its transfer.
LEMMA SdcPosts ==
  ASSUME SdcInv, NEW t \in IrqSide, Sdc!Runs(t),
         Sdc!SlotIsFree(t) \/ Sdc!SetGtid(t) \/ Sdc!Block(t) \/ Sdc!StartTransfer(t)
  PROVE  SdcInv'
<1>1. /\ sPc \in [IrqSide -> SdcPoint] /\ sPc[t] \in {"poll", "gtid", "block", "start"}
      /\ sPc' = [sPc EXCEPT ![t] = sPc'[t]] /\ sPc'[t] \in {"gtid", "block", "start", "wait"}
      /\ \A u \in IrqSide : u # t => sPc[u] = "idle"
      /\ sIsr = "idle" /\ sPxci = {} /\ sPxis = {} /\ sNorun \subseteq {t}
      /\ sOutcome[t] = None /\ sPtw = Sdc!Next1(sPtr) /\ sSlot[t] = sPtr % Slots
      /\ UNCHANGED <<sPtw, sPtr, sStatus, sPxis, sOutcome, sSlot, sRet, sIsr, sSnapshot, sCur>>
  BY DEF Sdc!Runs, Sdc!SlotIsFree, Sdc!SetGtid, Sdc!Block, Sdc!StartTransfer, Sdc!listVars,
         Sdc!isrVars, SdcInv, SdcAlone, SdcCommand, Sdc!TypeOK, SdcPoint
<1>2. Sdc!TypeOK'
  BY <1>1 DEF Sdc!SlotIsFree, Sdc!SetGtid, Sdc!Block, Sdc!StartTransfer, Sdc!listVars, SdcInv,
              Sdc!TypeOK, SdcPoint
<1>3. SdcAlone'
  BY <1>1 DEF Sdc!SlotIsFree, Sdc!SetGtid, Sdc!Block, Sdc!StartTransfer, SdcInv, SdcAlone,
              SdcCommand, SdcPoint
<1>4. SdcCommand'
  BY <1>1 DEF Sdc!SlotIsFree, Sdc!SetGtid, Sdc!Block, Sdc!StartTransfer, Sdc!listVars, SdcInv,
              SdcCommand, Sdc!TypeOK, SdcPoint
<1>5. SdcWaits'
  BY <1>1 DEF Sdc!SlotIsFree, Sdc!SetGtid, Sdc!Block, Sdc!StartTransfer, SdcInv, SdcWaits,
              SdcCommand, SdcInCard, SdcPoint
<1> QED
  BY <1>2, <1>3, <1>4, <1>5 DEF SdcInv

\* The task runs again when the command is over.
LEMMA SdcReturns ==
  ASSUME SdcInv, NEW t \in IrqSide, Sdc!Runs(t), Sdc!Result(t)
  PROVE  SdcInv'
<1>1. /\ sPc \in [IrqSide -> SdcPoint] /\ sPc[t] = "wait" /\ sPc' = [sPc EXCEPT ![t] = "idle"]
      /\ \A u \in IrqSide : u # t => sPc[u] = "idle"
      /\ sIsr = "idle" /\ t \notin sNorun /\ SdcOver(t)
      /\ UNCHANGED <<sPtw, sPtr, sGtid, sStatus, sPxci, sPxis, sNorun, sOutcome, sSlot, sIsr,
                     sSnapshot, sCur>>
  BY SdcOne DEF Sdc!Runs, Sdc!Result, Sdc!listVars, Sdc!isrVars, SdcInv, SdcWaits, Sdc!TypeOK,
                SdcPoint
<1>2. Sdc!TypeOK'
  BY <1>1 DEF Sdc!Result, SdcInv, Sdc!TypeOK, SdcPoint, Sdc!Completed
<1>3. SdcAlone' /\ SdcCommand' /\ SdcWaits'
  BY <1>1 DEF SdcInv, SdcAlone, SdcCommand, SdcWaits, SdcOver, SdcPoint
<1> QED
  BY <1>2, <1>3 DEF SdcInv

\* The card completes the transfer of the task that waits.
LEMMA SdcCompletes ==
  ASSUME SdcInv, NEW s \in Slot, Sdc!DeviceCompletes(s)
  PROVE  SdcInv'
<1>1. PICK t \in IrqSide : sPc[t] = "wait"
  BY DEF Sdc!DeviceCompletes, SdcInv, SdcAlone
<1>2. /\ t \in sNorun /\ SdcInCard(t) /\ sGtid[s] = t /\ s = sSlot[t] /\ sPxci = {s}
      /\ \A u \in IrqSide : u # t => sPc[u] = "idle"
  BY <1>1, SdcOne DEF Sdc!DeviceCompletes, SdcInv, SdcWaits, SdcCommand, SdcInCard, SdcInScan,
                      SdcInWakeup, SdcOver
<1>3. PICK o \in {"ok", "error"} : /\ sPxis' = sPxis \cup {o}
                                   /\ sOutcome' = [sOutcome EXCEPT ![t] = o]
  BY <1>2 DEF Sdc!DeviceCompletes, Sdc!Completed
<1>4. /\ sPxci' = {} /\ sPxis' = {o} /\ o # None
      /\ UNCHANGED <<sPtw, sPtr, sGtid, sStatus, sNorun, sPc, sSlot, sRet, sIsr, sSnapshot,
                     sCur>>
  BY <1>1, <1>2, <1>3 DEF Sdc!DeviceCompletes, Sdc!listVars, Sdc!taskVars, Sdc!isrVars, SdcInCard, None
<1>5. Sdc!TypeOK'
  BY <1>3, <1>4 DEF SdcInv, Sdc!TypeOK, Sdc!Completed
<1>6. SdcAlone' /\ SdcCommand'
  BY <1>1, <1>2, <1>3, <1>4 DEF SdcInv, SdcAlone, SdcCommand
<1>7. SdcWaits'
  <2>1. sOutcome'[t] = o
    BY <1>3 DEF SdcInv, Sdc!TypeOK
  <2>2. SdcInCard(t)'
    BY <1>2, <1>4, <2>1 DEF SdcInCard
  <2> QED
    BY <1>2, <1>4, <2>2 DEF SdcWaits
<1> QED
  BY <1>5, <1>6, <1>7 DEF SdcInv

\* What the ISR sees of the access: the transfer over, and one command to take.
LEMMA SdcIsrLooks ==
  ASSUME SdcInv, Sdc!IsrEnter \/ Sdc!IsrNextCompleted \/ Sdc!IsrReset \/ Sdc!IsrReturn
  PROVE  SdcInv'
<1>1. PICK t \in IrqSide : sPc[t] = "wait"
  BY DEF Sdc!IsrEnter, Sdc!IsrNextCompleted, Sdc!IsrReset, Sdc!IsrReturn, SdcInv, SdcAlone
<1>2. /\ \A u \in IrqSide : u # t => sPc[u] = "idle"
      /\ UNCHANGED <<sPtw, sGtid, sPxci, sNorun, sOutcome, sPc, sSlot, sRet>>
      /\ sPtr \in Sdc!Pointer /\ sCur \in Sdc!Pointer
      /\ Sdc!Next1(sPtr) \in Sdc!Pointer /\ Sdc!Next1(sPtr) # sPtr
      /\ sPtr % Slots \in Slot /\ sCur % Slots \in Slot
  BY <1>1, SdcOne, SdcPointers DEF Sdc!IsrEnter, Sdc!IsrNextCompleted, Sdc!IsrReset,
         Sdc!IsrReturn, Sdc!listVars, Sdc!taskVars, SdcInv, Sdc!TypeOK
<1>3. Sdc!TypeOK'
  BY <1>2 DEF Sdc!IsrEnter, Sdc!IsrNextCompleted, Sdc!IsrReset, Sdc!IsrReturn, Sdc!listVars,
              SdcInv, Sdc!TypeOK, Slot, Sdc!Slot
<1>4. SdcAlone' /\ SdcCommand'
  BY <1>1, <1>2 DEF SdcInv, SdcAlone, SdcCommand
<1>5. CASE Sdc!IsrEnter
  <2>1. t \in sNorun /\ SdcInScan(t)'
    BY <1>1, <1>2, <1>5 DEF Sdc!IsrEnter, Sdc!listVars, SdcInv, SdcWaits, SdcInCard, SdcInScan,
                            SdcInWakeup, SdcOver
  <2> QED
    BY <1>2, <1>3, <1>4, <2>1 DEF SdcInv, SdcWaits
<1>6. CASE Sdc!IsrNextCompleted
  <2>1. t \in sNorun /\ SdcInScan(t)
    BY <1>1, <1>2, <1>6 DEF Sdc!IsrNextCompleted, SdcInv, SdcWaits, SdcInCard, SdcInScan,
                            SdcInWakeup, SdcOver
  <2>2. SdcInWakeup(t)'
    BY <1>2, <1>6, <2>1 DEF Sdc!IsrNextCompleted, SdcInv, Sdc!TypeOK, SdcInScan, SdcInWakeup,
                            Slot, Sdc!Slot
  <2> QED
    BY <1>2, <1>3, <1>4, <2>1, <2>2 DEF SdcInv, SdcWaits
<1>7. CASE Sdc!IsrReset
  <2>1. t \in sNorun /\ SdcInWakeup(t)'
    BY <1>1, <1>2, <1>7 DEF Sdc!IsrReset, Sdc!listVars, SdcInv, SdcWaits, SdcInCard, SdcInScan,
                            SdcInWakeup, SdcOver
  <2> QED
    BY <1>2, <1>3, <1>4, <2>1 DEF SdcInv, SdcWaits
<1>8. CASE Sdc!IsrReturn
  <2>1. t \notin sNorun /\ SdcOver(t)'
    BY <1>1, <1>2, <1>8 DEF Sdc!IsrReturn, Sdc!listVars, SdcInv, SdcWaits, SdcInCard, SdcInScan,
                            SdcInWakeup, SdcOver
  <2> QED
    BY <1>2, <1>3, <1>4, <2>1 DEF SdcInv, SdcWaits
<1> QED
  BY <1>5, <1>6, <1>7, <1>8

\* The wakeup of the task, whose outcome is in the status of its slot.
LEMMA SdcWakes ==
  ASSUME SdcInv, Sdc!IsrWake
  PROVE  SdcInv'
<1>1. PICK t \in IrqSide : sPc[t] = "wait"
  BY DEF Sdc!IsrWake, SdcInv, SdcAlone
<1>2. /\ \A u \in IrqSide : u # t => sPc[u] = "idle"
      /\ UNCHANGED <<sPtw, sPtr, sGtid, sStatus, sPxci, sPxis, sOutcome, sPc, sSlot, sRet,
                     sSnapshot>>
      /\ t \in sNorun /\ SdcInWakeup(t)
  BY <1>1, SdcOne DEF Sdc!IsrWake, Sdc!listVars, Sdc!taskVars, SdcInv, SdcWaits, SdcInCard,
                      SdcInScan, SdcInWakeup, SdcOver
<1>3. sGtid[sCur % Slots] = t /\ sCur' = sPtr /\ sIsr' = "scan" /\ sNorun' = sNorun \ {t}
  BY <1>1, <1>2 DEF Sdc!IsrWake, SdcInv, SdcCommand, SdcInWakeup
<1>4. Sdc!TypeOK'
  BY <1>2, <1>3 DEF SdcInv, Sdc!TypeOK
<1>5. SdcAlone' /\ SdcCommand'
  BY <1>1, <1>2, <1>3 DEF SdcInv, SdcAlone, SdcCommand, Sdc!IsrWake
<1>6. SdcOver(t)'
  BY <1>2, <1>3 DEF SdcInWakeup, SdcOver, Sdc!IsrWake
<1> QED
  BY <1>2, <1>3, <1>4, <1>5, <1>6 DEF SdcInv, SdcWaits

\* All the steps of the driver.
LEMMA SdcPreserved ==
  ASSUME SdcInv, Sdc!Next \/ UNCHANGED sdcVars
  PROVE  SdcInv'
<1>1. CASE UNCHANGED sdcVars
  BY <1>1 DEF sdcVars, SdcInv, Sdc!TypeOK, SdcAlone, SdcCommand, SdcWaits, SdcInCard,
              SdcInScan, SdcInWakeup, SdcOver
<1> QED
  BY <1>1, SdcCalls, SdcPosts, SdcReturns, SdcCompletes, SdcIsrLooks, SdcWakes
     DEF Sdc!Next, Sdc!Advance, Sdc!Isr, Sdc!Slot, Slot

\* The transfer in progress is the first command after the read pointer, and its
\* gtid is the task that waits.
LEMMA SdcIdentified ==
  ASSUME SdcInv
  PROVE  Sdc!TransferIsIdentified
<1> SUFFICES ASSUME NEW s \in sPxci
             PROVE  /\ sGtid[s] \in sNorun /\ sPc[sGtid[s]] = "wait" /\ sSlot[sGtid[s]] = s
                    /\ \E k \in 0 .. Slots - 1 :
                         /\ ((sPtr + k) % (2 * Slots)) % Slots = s
                         /\ k < (sPtw + 2 * Slots - sPtr) % (2 * Slots)
  BY DEF Sdc!TransferIsIdentified
<1>1. PICK t \in IrqSide : sPc[t] = "wait"
  BY DEF SdcInv, SdcAlone
<1>2. t \in sNorun /\ SdcInCard(t) /\ sGtid[s] = t /\ s = sSlot[t]
  BY <1>1 DEF SdcInv, SdcWaits, SdcCommand, SdcInCard, SdcInScan, SdcInWakeup, SdcOver
<1>3. /\ ((sPtr + 0) % (2 * Slots)) % Slots = s
      /\ 0 < (sPtw + 2 * Slots - sPtr) % (2 * Slots)
      /\ 0 \in 0 .. Slots - 1
  BY <1>2, SdcPointers, HbaAssumption DEF SdcInv, Sdc!TypeOK, SdcInCard
<1> QED
  BY <1>1, <1>2, <1>3

\* Each step of the driver is a step of the abstract access, or none.
LEMMA SdcBlocking ==
  ASSUME SdcInv, Sdc!Next \/ UNCHANGED sdcVars
  PROVE  [Sdc!Io!Next]_(Sdc!Io!vars)
<1>0. /\ sPc \in [IrqSide -> SdcPoint] /\ sOutcome \in [IrqSide -> {"ok", "error", None}]
  BY DEF SdcInv, Sdc!TypeOK, Sdc!Completed, None, Sdc!None, SdcPoint
<1>1. ASSUME NEW t \in IrqSide, Sdc!Call(t)
      PROVE  Sdc!Io!Post(t)
  BY <1>0, <1>1 DEF Sdc!Call, Sdc!Io!Post, None, Sdc!None
<1>2. ASSUME NEW t \in IrqSide, Sdc!Advance(t), ~Sdc!Result(t)
      PROVE  UNCHANGED Sdc!Io!vars
  BY <1>0, <1>2 DEF Sdc!Advance, Sdc!TakeSlot, Sdc!SlotIsFree, Sdc!SetGtid, Sdc!Block,
                    Sdc!StartTransfer, Sdc!Io!vars
<1>3. ASSUME NEW t \in IrqSide, Sdc!Result(t)
      PROVE  Sdc!Io!Return(t)
  <2>1. /\ sPc[t] = "wait" /\ sOutcome[t] # None /\ sStatus[sSlot[t]] = {sOutcome[t]}
    BY <1>3 DEF Sdc!Result, SdcInv, SdcWaits, SdcOver
  <2> QED
    BY <1>0, <1>3, <2>1 DEF Sdc!Result, Sdc!Io!Return, None, Sdc!None
<1>4. ASSUME NEW s \in Slot, Sdc!DeviceCompletes(s)
      PROVE  \E t \in IrqSide : Sdc!Io!Complete(t)
  <2>1. PICK t \in IrqSide : sPc[t] = "wait"
    BY <1>4 DEF Sdc!DeviceCompletes, SdcInv, SdcAlone
  <2>2. sOutcome[t] = None /\ sGtid[s] = t
    BY <1>4, <2>1 DEF Sdc!DeviceCompletes, SdcInv, SdcWaits, SdcCommand, SdcInCard, SdcInScan,
                      SdcInWakeup, SdcOver
  <2>3. Sdc!Io!Complete(t)
    BY <1>0, <1>4, <2>1, <2>2 DEF Sdc!DeviceCompletes, Sdc!taskVars, Sdc!Completed,
                                  Sdc!Io!Complete, None, Sdc!None
  <2> QED
    BY <2>3
<1>5. CASE Sdc!Isr
  BY <1>5 DEF Sdc!Isr, Sdc!IsrEnter, Sdc!IsrNextCompleted, Sdc!IsrReset, Sdc!IsrWake,
              Sdc!IsrReturn, Sdc!taskVars, Sdc!Io!vars
<1>6. CASE UNCHANGED sdcVars
  BY <1>6 DEF sdcVars, Sdc!Io!vars
<1> QED
  BY <1>1, <1>2, <1>3, <1>4, <1>5, <1>6 DEF Sdc!Next, Sdc!Io!Next, Sdc!Slot, Slot

-----------------------------------------------------------------------------
(* The steps of the coprocessors                                           *)

CoprocPoint == {"idle", "own", "run", "block", "critical", "wait", "poll", "dead"}

\* The lock has one holder.
LEMMA CoprocOne ==
  ASSUME CoprocInv, NEW t \in Tasks, cPc[t] # "idle"
  PROVE  /\ cLock = t /\ \A u \in Tasks : u # t => cPc[u] = "idle"
         /\ \A u \in cNorun : u = t
BY DEF CoprocInv, CoprocOwner, CoprocType

\* There is a channel.
LEMMA CoprocChannels == 0 \in Slot /\ Slot # {} /\ {} # Slot
<1>1. 0 \in Slot
  BY HbaAssumption DEF Slot
<1> QED
  BY <1>1

\* A free coprocessor is at rest: no channel runs, and the ISR is over.
LEMMA CoprocAllocates ==
  ASSUME CoprocInv, NEW t \in Tasks, Coproc!Alloc(t)
  PROVE  CoprocInv'
<1>1. /\ cPc \in [Tasks -> CoprocPoint] /\ cPc[t] = "idle" /\ cPc' = [cPc EXCEPT ![t] = "own"]
      /\ cLock' = t /\ cLock = None
      /\ UNCHANGED <<cMode, cGtid, cError, cChannelMode, cRunning, cStatus, cStarted, cNorun,
                     cOutcome, cRet, cIsr>>
  BY DEF Coproc!Alloc, Coproc!deviceVars, CoprocInv, CoprocType, CoprocPoint, None, Coproc!None
<1>2. \A u \in Tasks : cPc[u] = "idle"
  BY <1>1, NoneAssumption DEF CoprocInv, CoprocOwner
<1>3. cRunning = {} /\ cIsr = "idle" /\ cNorun = {}
  BY <1>2 DEF CoprocInv, CoprocOwner, CoprocType
<1>4. CoprocType'
  BY <1>1 DEF CoprocInv, CoprocType, CoprocPoint
<1>5. CoprocOwner' /\ CoprocPhases'
  BY <1>1, <1>2, <1>3 DEF CoprocOwner, CoprocPhases, CoprocPoint
<1> QED
  BY <1>4, <1>5 DEF CoprocInv

\* The channels are configured while none runs, and released when no transfer is
\* in progress.
LEMMA CoprocConfigures ==
  ASSUME CoprocInv, NEW t \in Tasks,
         \/ \E c \in Slot, m \in Coproc!Mode : Coproc!ChannelInit(t, c, m)
         \/ Coproc!RunRefused(t) \/ Coproc!Release(t)
  PROVE  CoprocInv'
<1>1. /\ cPc \in [Tasks -> CoprocPoint] /\ cPc[t] = "own" /\ cIsr = "idle" /\ cNorun = {}
      /\ cPc' = [cPc EXCEPT ![t] = cPc'[t]] /\ cPc'[t] \in {"own", "dead", "idle"}
      /\ cLock = t /\ \A u \in Tasks : u # t => cPc[u] = "idle"
      /\ UNCHANGED <<cMode, cGtid, cError, cNorun, cOutcome, cRet, cIsr>>
      /\ cPc'[t] = "idle" \/ cLock' = t
      /\ cRunning' = {} \/ (cPc'[t] = "own" /\ cRunning' = cRunning)
      /\ cRunning' = {} \/ (cChannelMode' = cChannelMode /\ cStatus' = cStatus)
  BY CoprocOne DEF Coproc!ChannelInit, Coproc!RunRefused, Coproc!Release, Coproc!Stop,
         Coproc!driverVars, Coproc!deviceVars, CoprocInv, CoprocOwner, CoprocPhases,
         CoprocType, CoprocPoint
<1>2. CoprocType'
  <2>1. cPc' \in [Tasks -> CoprocPoint] /\ cLock' \in Tasks \cup {None}
        /\ cRunning' \subseteq Slot
    BY <1>1 DEF Coproc!Release, Coproc!ChannelInit, Coproc!RunRefused, CoprocInv,
                CoprocType, CoprocPoint, None, Coproc!None
  <2>2. /\ cChannelMode \in [Slot -> Coproc!Mode] /\ cStarted \in BOOLEAN
        /\ cStatus \in [Slot -> {"ok", "error", "busy"}]
    BY DEF CoprocInv, CoprocType, Coproc!Completed
  <2>3. cChannelMode' \in [Slot -> Coproc!Mode]
    BY <2>2 DEF Coproc!ChannelInit, Coproc!RunRefused, Coproc!Release, Coproc!deviceVars
  <2>4. cStarted' \in BOOLEAN
    BY <2>2 DEF Coproc!ChannelInit, Coproc!RunRefused, Coproc!Release, Coproc!deviceVars
  <2>5. cStatus' \in [Slot -> {"ok", "error", "busy"}]
    <3>1. CASE Coproc!Release(t)
      BY <2>2, <3>1 DEF Coproc!Release, Coproc!Stop
    <3>2. CASE ~Coproc!Release(t)
      BY <2>2, <3>2 DEF Coproc!ChannelInit, Coproc!RunRefused, Coproc!deviceVars
    <3> QED
      BY <3>1, <3>2
  <2> QED
    BY <1>1, <2>1, <2>3, <2>4, <2>5 DEF CoprocInv, CoprocType, CoprocPoint, Coproc!Completed,
                            None, Coproc!None
<1>3. CoprocOwner'
  BY <1>1 DEF CoprocInv, CoprocOwner, Coproc!SameMode, CoprocPoint
<1>4. CoprocPhases'
  BY <1>1 DEF CoprocInv, CoprocPhases, CoprocPoint
<1> QED
  BY <1>2, <1>3, <1>4 DEF CoprocInv

\* All the channels start together; in the DMA modes, the outcome is to come.
LEMMA CoprocRuns ==
  ASSUME CoprocInv, NEW t \in Tasks, Coproc!Run(t)
  PROVE  CoprocInv'
<1>1. /\ cPc \in [Tasks -> CoprocPoint] /\ cPc[t] = "own" /\ cIsr = "idle" /\ cNorun = {}
      /\ cPc' = [cPc EXCEPT ![t] = "run"]
      /\ cLock = t /\ \A u \in Tasks : u # t => cPc[u] = "idle"
      /\ UNCHANGED <<cLock, cGtid, cError, cChannelMode, cStarted, cNorun, cRet, cIsr>>
      /\ ~cStarted /\ cRunning' = Slot /\ cStatus' = [c \in Slot |-> "busy"]
      /\ cOutcome \in [Tasks -> {"ok", "error", None}]
      /\ \/ cMode' = "mwmr" /\ cOutcome' = cOutcome
         \/ cMode' # "mwmr" /\ cOutcome' = [cOutcome EXCEPT ![t] = None]
      /\ cMode' \in Coproc!Mode
  BY CoprocOne DEF Coproc!Run, CoprocInv, CoprocOwner, CoprocPhases, CoprocType, CoprocPoint,
         Coproc!Completed, None, Coproc!None
<1>2. CoprocType'
  BY <1>1 DEF CoprocInv, CoprocType, CoprocPoint, Coproc!Completed, None, Coproc!None
<1>3. CoprocOwner'
  BY <1>1 DEF CoprocInv, CoprocOwner, CoprocPoint, Coproc!Run, Coproc!SameMode
<1>4. CoprocPhases'
  BY <1>1 DEF CoprocPhases, CoprocPoint
<1> QED
  BY <1>2, <1>3, <1>4 DEF CoprocInv

\* The coprocessor is started: until then, no channel has completed.
LEMMA CoprocStarts ==
  ASSUME CoprocInv, NEW t \in Tasks,
         Coproc!StartNoIrq(t) \/ Coproc!SetGtid(t) \/ Coproc!Block(t) \/ Coproc!Start(t)
  PROVE  CoprocInv'
<1>1. /\ cPc \in [Tasks -> CoprocPoint] /\ cPc[t] \in {"run", "block", "critical"}
      /\ cPc' = [cPc EXCEPT ![t] = cPc'[t]] /\ cPc'[t] \in CoprocPoint \ {"idle", "dead"}
      /\ cLock = t /\ \A u \in Tasks : u # t => cPc[u] = "idle"
      /\ cIsr = "idle" /\ cRunning = Slot /\ ~cStarted
      /\ \A c \in Slot : cStatus[c] = "busy"
      /\ cMode # "mwmr" => cOutcome[t] = None
      /\ UNCHANGED <<cLock, cMode, cError, cChannelMode, cRunning, cStatus, cOutcome, cRet, cIsr>>
      /\ cNorun \subseteq {t} /\ cMode \in Coproc!Mode
  BY CoprocOne DEF Coproc!StartNoIrq, Coproc!SetGtid, Coproc!Block, Coproc!Start,
         Coproc!driverVars, Coproc!deviceVars, CoprocInv, CoprocPhases, CoprocType,
         CoprocPoint
<1>2. CoprocType'
  BY <1>1 DEF Coproc!StartNoIrq, Coproc!SetGtid, Coproc!Block, Coproc!Start,
         Coproc!driverVars, Coproc!deviceVars, CoprocInv, CoprocType, CoprocPoint
<1>3. CoprocOwner'
  BY <1>1 DEF Coproc!StartNoIrq, Coproc!SetGtid, Coproc!Block, Coproc!Start, CoprocInv,
              CoprocOwner, CoprocPhases, Coproc!SameMode, CoprocPoint
<1>4. cMode # "mwmr" => CoprocKnown(t)'
  BY <1>1, CoprocChannels DEF CoprocKnown
<1>5. CoprocPhases'
  BY <1>1, <1>4 DEF Coproc!StartNoIrq, Coproc!SetGtid, Coproc!Block, Coproc!Start,
                    Coproc!driverVars, Coproc!deviceVars, CoprocInv, CoprocOwner,
                    CoprocPhases, CoprocPoint, Coproc!Mode
<1> QED
  BY <1>2, <1>3, <1>5 DEF CoprocInv

\* The task takes the outcome: it is what the ISR saved, or what the status of the
\* channels still say.
LEMMA CoprocReturns ==
  ASSUME CoprocInv, NEW t \in Tasks, Coproc!Woken(t) \/ Coproc!PollCompleted(t)
  PROVE  CoprocInv'
<1>1. /\ cPc \in [Tasks -> CoprocPoint] /\ cPc[t] \in {"wait", "poll"}
      /\ cPc' = [cPc EXCEPT ![t] = cPc'[t]] /\ cPc'[t] \in {"own", "dead"}
      /\ cLock = t /\ \A u \in Tasks : u # t => cPc[u] = "idle"
      /\ UNCHANGED <<cLock, cMode, cGtid, cError, cChannelMode, cStarted, cNorun, cOutcome, cIsr>>
      /\ cNorun = {} /\ cRunning' = {}
  BY CoprocOne DEF Coproc!Woken, Coproc!PollCompleted, Coproc!Returns, Coproc!Stop,
         Coproc!driverVars, Coproc!deviceVars, CoprocInv, CoprocOwner, CoprocPhases,
         CoprocType, CoprocPoint
<1>2. cIsr = "wake" => cPc'[t] = "dead"
  <2>1. CASE Coproc!Woken(t)
    BY <2>1 DEF Coproc!Woken, CoprocInv, CoprocPhases
  <2>2. CASE Coproc!PollCompleted(t)
    BY <1>1, <2>2 DEF Coproc!PollCompleted, Coproc!Returns, CoprocInv, CoprocPhases
  <2> QED
    BY <2>1, <2>2
<1>3. CoprocType'
  <2>1. cStatus' \in [Slot -> {"ok", "error", "busy"}]
    BY DEF Coproc!Woken, Coproc!PollCompleted, Coproc!Stop, Coproc!deviceVars, CoprocInv,
           CoprocType, Coproc!Completed
  <2>2. cRet' \in [Tasks -> {"ok", "error", None}]
    BY DEF Coproc!Woken, Coproc!PollCompleted, Coproc!Returns, CoprocInv, CoprocType,
           Coproc!Completed
  <2>3. cPc' \in [Tasks -> CoprocPoint]
    BY <1>1 DEF CoprocPoint
  <2> QED
    BY <1>1, <2>1, <2>2, <2>3 DEF CoprocInv, CoprocType, CoprocPoint
<1>4. cIsr \in {"idle", "wake"}
  BY DEF CoprocInv, CoprocType
<1>5. CoprocOwner'
  BY <1>1, <1>2, <1>4 DEF CoprocOwner, CoprocPoint
<1>6. CoprocPhases'
  BY <1>1, <1>2, <1>4 DEF CoprocPhases, CoprocPoint
<1> QED
  BY <1>3, <1>5, <1>6 DEF CoprocInv

\* Who a completion or the ISR concerns: a task that waits for it, or polls.
LEMMA CoprocTarget ==
  ASSUME CoprocInv, \/ \E c \in Slot : Coproc!ChannelEnds(c)
                    \/ Coproc!IsrStop
  PROVE  \E t \in Tasks : /\ cPc[t] \in {"wait", "poll"} /\ cLock = t /\ CoprocKnown(t)
                          /\ cRunning = Slot /\ cIsr = "idle" /\ cMode # "mwmr"
                          /\ (cPc[t] = "wait" => t \in cNorun)
<1>1. cRunning # {}
  BY CoprocChannels DEF Coproc!ChannelEnds, Coproc!IsrStop, Coproc!Irq
<1>2. PICK t \in Tasks : cPc[t] \notin {"idle", "dead"}
  BY <1>1 DEF CoprocInv, CoprocOwner
<1>3. cLock = t
  BY <1>2, CoprocOne
<1>4. cPc[t] \notin {"own", "run", "block", "critical"}
  <2>1. CASE \E c \in Slot : Coproc!ChannelEnds(c)
    BY <1>1, <2>1 DEF Coproc!ChannelEnds, CoprocInv, CoprocPhases
  <2>2. CASE Coproc!IsrStop
    <3>1. cPc[t] \in {"own", "run", "block", "critical"} => \A c \in Slot : cStatus[c] = "busy"
      BY <1>1 DEF CoprocInv, CoprocPhases
    <3>2. \E c \in Slot : cStatus[c] # "busy"
      BY <2>2, CoprocChannels DEF Coproc!IsrStop, Coproc!Irq, CoprocInv, CoprocType
    <3> QED
      BY <3>1, <3>2
  <2> QED
    BY <2>1, <2>2
<1> QED
  BY <1>1, <1>2, <1>3, <1>4 DEF CoprocInv, CoprocType, CoprocPhases

\* The end of a channel: the last one, or the first that fails, gives the outcome.
LEMMA CoprocEnds ==
  ASSUME CoprocInv, NEW c \in Slot, Coproc!ChannelEnds(c)
  PROVE  CoprocInv'
<1>1. PICK t \in Tasks : /\ cPc[t] \in {"wait", "poll"} /\ cLock = t /\ CoprocKnown(t)
                         /\ cRunning = Slot /\ cIsr = "idle" /\ cMode # "mwmr"
                         /\ (cPc[t] = "wait" => t \in cNorun)
  BY CoprocTarget
<1>2. PICK e \in {"ok", "error"} :
        /\ cStatus' = [cStatus EXCEPT ![c] = e]
        /\ cOutcome' = IF cOutcome[t] # None
                          \/ (e = "ok" /\ \E d \in Slot \ {c} : cStatus[d] = "busy")
                       THEN cOutcome
                       ELSE [cOutcome EXCEPT ![t] = e]
  BY <1>1 DEF Coproc!ChannelEnds, Coproc!Completed, None, Coproc!None
<1>3. /\ cStatus[c] = "busy" /\ \A u \in Tasks : u # t => cPc[u] = "idle"
      /\ UNCHANGED <<cLock, cMode, cGtid, cError, cChannelMode, cRunning, cStarted, cNorun,
                     cPc, cRet, cIsr>>
  BY <1>1, CoprocOne DEF Coproc!ChannelEnds, Coproc!driverVars
<1>4. cStatus \in [Slot -> {"ok", "error", "busy"}] /\ cOutcome \in [Tasks -> {"ok", "error", None}]
  BY DEF CoprocInv, CoprocType
<1>5. CoprocType'
  BY <1>2, <1>3, <1>4 DEF CoprocInv, CoprocType
<1>6. CoprocOwner'
  BY <1>3 DEF CoprocInv, CoprocOwner, Coproc!SameMode
<1>7. CoprocKnown(t)'
  <2>1. cOutcome[t] # "ok"
    BY <1>1, <1>3, <1>4 DEF CoprocKnown, None
  <2>2. CASE cOutcome[t] = "error"
    <3>1. cOutcome' = cOutcome /\ \E d \in Slot \ {c} : cStatus[d] = "error"
      BY <1>1, <1>2, <1>3, <1>4, <2>2 DEF CoprocKnown, None
    <3> QED
      BY <1>2, <1>3, <1>4, <2>2, <3>1 DEF CoprocKnown
  <2>3. CASE cOutcome[t] = None
    <3>1. \A d \in Slot : cStatus[d] # "error"
      BY <1>1, <2>3 DEF CoprocKnown, None
    <3>2. CASE e = "ok" /\ \E d \in Slot \ {c} : cStatus[d] = "busy"
      <4>1. cOutcome' = cOutcome /\ \E d \in Slot : cStatus'[d] = "busy"
        BY <1>2, <1>4, <3>2
      <4>2. \A d \in Slot : cStatus'[d] # "error"
        BY <1>2, <1>4, <3>1, <3>2
      <4> QED
        BY <2>3, <4>1, <4>2 DEF CoprocKnown
    <3>3. CASE e = "error" \/ \A d \in Slot \ {c} : cStatus[d] # "busy"
      <4>1. cOutcome'[t] = e
        BY <1>2, <1>4, <2>3, <3>3
      <4>2. /\ e = "error" => \E d \in Slot : cStatus'[d] = "error"
            /\ e = "ok" => \A d \in Slot : cStatus'[d] = "ok"
        BY <1>2, <1>4, <3>1, <3>3
      <4> QED
        BY <4>1, <4>2, CoprocChannels DEF CoprocKnown
    <3> QED
      BY <1>2, <3>2, <3>3
  <2> QED
    BY <1>4, <2>1, <2>2, <2>3
<1>8. CoprocPhases'
  BY <1>1, <1>3, <1>7 DEF CoprocInv, CoprocPhases
<1> QED
  BY <1>5, <1>6, <1>8 DEF CoprocInv

\* The ISR stops the channels, and saves the outcome that is known at this point.
LEMMA CoprocStops ==
  ASSUME CoprocInv, Coproc!IsrStop
  PROVE  CoprocInv'
<1>1. PICK t \in Tasks : /\ cPc[t] \in {"wait", "poll"} /\ cLock = t /\ CoprocKnown(t)
                         /\ cRunning = Slot /\ cIsr = "idle" /\ cMode # "mwmr"
                         /\ (cPc[t] = "wait" => t \in cNorun)
  BY CoprocTarget
<1>2. /\ cError' = IF \A c \in Slot : cStatus[c] = "ok" THEN "ok" ELSE "error"
      /\ cRunning' = {} /\ cIsr' = "wake"
      /\ cStatus' = [c \in Slot |-> IF cStatus[c] = "busy" THEN "ok" ELSE cStatus[c]]
      /\ UNCHANGED <<cLock, cMode, cGtid, cChannelMode, cStarted, cNorun, cPc, cOutcome, cRet>>
      /\ \A u \in Tasks : u # t => cPc[u] = "idle"
  BY <1>1, CoprocOne DEF Coproc!IsrStop, Coproc!Stop
<1>3. /\ cStatus \in [Slot -> {"ok", "error", "busy"}]
      /\ \/ \E c \in Slot : cStatus[c] = "error"
         \/ cMode = "dma_irq" /\ \A c \in Slot : cStatus[c] = "ok"
  BY <1>1 DEF Coproc!IsrStop, Coproc!Irq, CoprocInv, CoprocType
<1>4. CoprocType'
  BY <1>2, <1>3 DEF CoprocInv, CoprocType
<1>5. CoprocOwner'
  BY <1>1, <1>2 DEF CoprocInv, CoprocOwner
<1>6. cOutcome[t] = cError'
  BY <1>1, <1>2, <1>3 DEF CoprocKnown
<1>7. cPc[t] = "poll" => CoprocKnown(t)' /\ \E c \in Slot : cStatus'[c] = "error"
  <2>1. cPc[t] = "poll" => \E c \in Slot : cStatus[c] = "error"
    BY <1>1, <1>3 DEF CoprocInv, CoprocPhases
  <2>2. (\E c \in Slot : cStatus[c] = "error") =>
          (\E c \in Slot : cStatus'[c] = "error") /\ cOutcome[t] = "error"
    BY <1>1, <1>2 DEF CoprocKnown
  <2> QED
    BY <1>2, <2>1, <2>2 DEF CoprocKnown
<1>8. CoprocPhases'
  BY <1>1, <1>2, <1>6, <1>7 DEF CoprocInv, CoprocPhases
<1> QED
  BY <1>4, <1>5, <1>8 DEF CoprocInv

\* The wakeup: the task that _coproc_gtid names is the one that waits, if any does.
LEMMA CoprocWakes ==
  ASSUME CoprocInv, Coproc!IsrWake
  PROVE  CoprocInv'
<1>1. PICK t \in Tasks : cPc[t] \in {"wait", "poll", "dead"}
  BY DEF Coproc!IsrWake, CoprocInv, CoprocOwner
<1>2. /\ cNorun' = cNorun \ {cGtid} /\ cIsr = "wake" /\ cIsr' = "idle" /\ cNorun \subseteq {t}
      /\ UNCHANGED <<cLock, cMode, cGtid, cError, cChannelMode, cRunning, cStatus, cStarted,
                     cPc, cOutcome, cRet>>
      /\ \A u \in Tasks : u # t => cPc[u] = "idle"
  BY <1>1, CoprocOne DEF Coproc!IsrWake, Coproc!driverVars, Coproc!deviceVars
<1>3. cPc[t] = "wait" => cGtid = t
  BY DEF CoprocInv, CoprocPhases
<1>4. CoprocType'
  BY <1>2 DEF CoprocInv, CoprocType
<1>5. CoprocOwner'
  BY <1>1, <1>2 DEF CoprocInv, CoprocOwner, Coproc!SameMode
<1>6. CoprocPhases'
  BY <1>1, <1>2, <1>3 DEF CoprocInv, CoprocPhases, CoprocKnown
<1> QED
  BY <1>4, <1>5, <1>6 DEF CoprocInv

\* All the steps of the system calls and of their ISR.
LEMMA CoprocPreserved ==
  ASSUME CoprocInv, Coproc!Next \/ UNCHANGED coprocVars
  PROVE  CoprocInv'
<1>1. CASE UNCHANGED coprocVars
  BY <1>1 DEF coprocVars, CoprocInv, CoprocType, CoprocOwner, CoprocPhases, CoprocKnown,
              Coproc!SameMode
<1>2. ASSUME NEW t \in Tasks, Coproc!Call(t)
      PROVE  CoprocInv'
  BY <1>2, CoprocAllocates, CoprocConfigures, CoprocRuns DEF Coproc!Call
<1>3. ASSUME NEW t \in Tasks, Coproc!Advance(t)
      PROVE  CoprocInv'
  BY <1>3, CoprocStarts, CoprocReturns DEF Coproc!Advance
<1>4. CASE Coproc!Isr
  BY <1>4, CoprocStops, CoprocWakes DEF Coproc!Isr
<1> QED
  BY <1>1, <1>2, <1>3, <1>4, CoprocEnds DEF Coproc!Next

\* What the invariant says of the tables that the ISR reads.
LEMMA CoprocIdentified ==
  ASSUME CoprocInv
  PROVE  Coproc!TypeOK /\ Coproc!BlockedIsIdentified
<1>1. Coproc!TypeOK
  BY DEF CoprocInv, CoprocType, Coproc!TypeOK, Coproc!Completed, None, Coproc!None
<1>2. ASSUME NEW t \in cNorun
      PROVE  cLock = t /\ cGtid = t /\ (cRunning = Slot \/ cIsr = "wake")
  <2>1. t \in Tasks /\ cPc[t] \in {"critical", "wait"} /\ cLock = t
    BY DEF CoprocInv, CoprocType, CoprocOwner
  <2> QED
    BY <2>1 DEF CoprocInv, CoprocPhases
<1> QED
  BY <1>1, <1>2 DEF Coproc!BlockedIsIdentified

\* Each step of the system calls is a step of the abstract access, or none.
LEMMA CoprocBlocking ==
  ASSUME CoprocInv, CoprocInv', Coproc!Next \/ UNCHANGED coprocVars
  PROVE  [Coproc!Io!Next]_(Coproc!Io!vars)
<1>0. /\ cPc \in [Tasks -> CoprocPoint] /\ cOutcome \in [Tasks -> {"ok", "error", None}]
      /\ None # "ok" /\ None # "error" /\ None = Coproc!None /\ None = "none"
  BY DEF CoprocInv, CoprocType, CoprocPoint, None, Coproc!None
<1>1. ASSUME NEW t \in Tasks, Coproc!Run(t)
      PROVE  Coproc!Io!Post(t) \/ UNCHANGED Coproc!Io!vars
  <2>1. /\ cPc[t] = "own" /\ cPc' = [cPc EXCEPT ![t] = "run"] /\ cRet' = cRet
        /\ \A u \in Tasks : u # t => cPc[u] = "idle"
        /\ cOutcome' = IF cMode' = "mwmr" THEN cOutcome ELSE [cOutcome EXCEPT ![t] = None]
    BY <1>0, <1>1, CoprocOne DEF Coproc!Run
  <2>2. CASE cMode' = "mwmr"
    BY <1>0, <2>1, <2>2 DEF Coproc!Io!vars, Coproc!Transferring, CoprocPoint
  <2>3. CASE cMode' # "mwmr"
    BY <1>0, <2>1, <2>3 DEF Coproc!Io!Post, Coproc!Transferring, CoprocPoint
  <2> QED
    BY <2>2, <2>3
<1>2. ASSUME NEW t \in Tasks,
             \/ Coproc!Alloc(t) \/ Coproc!RunRefused(t) \/ Coproc!Release(t)
             \/ \E c \in Slot, m \in Coproc!Mode : Coproc!ChannelInit(t, c, m)
      PROVE  UNCHANGED Coproc!Io!vars
  BY <1>0, <1>2 DEF Coproc!Alloc, Coproc!RunRefused, Coproc!Release, Coproc!ChannelInit,
         Coproc!driverVars, Coproc!deviceVars, Coproc!Io!vars, Coproc!Transferring, CoprocPoint
<1>3. ASSUME NEW t \in Tasks,
             Coproc!StartNoIrq(t) \/ Coproc!SetGtid(t) \/ Coproc!Block(t) \/ Coproc!Start(t)
      PROVE  UNCHANGED Coproc!Io!vars
  BY <1>0, <1>3 DEF Coproc!StartNoIrq, Coproc!SetGtid, Coproc!Block, Coproc!Start,
         Coproc!driverVars, Coproc!deviceVars, Coproc!Io!vars, Coproc!Transferring, CoprocPoint
<1>4. ASSUME NEW t \in Tasks, Coproc!Woken(t) \/ Coproc!PollCompleted(t)
      PROVE  Coproc!Io!Return(t)
  <2>1. /\ cPc[t] \in {"wait", "poll"} /\ cMode # "mwmr" /\ cMode' = cMode
        /\ cOutcome' = cOutcome /\ cOutcome[t] # None
        /\ cRet' = [cRet EXCEPT ![t] = cOutcome[t]]
        /\ cPc'[t] \in {"own", "dead"} /\ cPc' = [cPc EXCEPT ![t] = cPc'[t]]
    <3>1. CASE Coproc!Woken(t)
      <4>1. cOutcome[t] = cError /\ cError # None /\ cMode = "dma_irq"
        BY <1>0, <3>1 DEF Coproc!Woken, CoprocInv, CoprocType, CoprocPhases
      <4> QED
        BY <1>0, <3>1, <4>1 DEF Coproc!Woken, Coproc!Returns, Coproc!driverVars
    <3>2. CASE Coproc!PollCompleted(t)
      <4>1. /\ cMode = "dma_no_irq" /\ CoprocKnown(t)
            /\ \A c \in Slot : cStatus[c] \in {"ok", "error"}
        BY <3>2 DEF Coproc!PollCompleted, CoprocInv, CoprocType, CoprocPhases
      <4>2. cOutcome[t] = IF \E c \in Slot : cStatus[c] = "error" THEN "error" ELSE "ok"
        BY <4>1 DEF CoprocKnown
      <4> QED
        BY <1>0, <3>2, <4>1, <4>2 DEF Coproc!PollCompleted, Coproc!Returns, Coproc!driverVars
    <3> QED
      BY <1>4, <3>1, <3>2
  <2> QED
    BY <1>0, <2>1 DEF Coproc!Io!Return, Coproc!Transferring, CoprocPoint
<1>5. ASSUME NEW c \in Slot, Coproc!ChannelEnds(c)
      PROVE  (\E t \in Tasks : Coproc!Io!Complete(t)) \/ UNCHANGED Coproc!Io!vars
  <2>1. PICK t \in Tasks : cPc[t] \in {"wait", "poll"} /\ cLock = t /\ cMode # "mwmr"
    BY <1>5, CoprocTarget
  <2>2. /\ cPc' = cPc /\ cMode' = cMode /\ cRet' = cRet
        /\ \/ cOutcome' = cOutcome
           \/ /\ cOutcome[t] = None
              /\ \E e \in {"ok", "error"} : cOutcome' = [cOutcome EXCEPT ![t] = e]
    BY <1>0, <1>5, <2>1 DEF Coproc!ChannelEnds, Coproc!driverVars, Coproc!Completed
  <2>3. CASE cOutcome' = cOutcome
    BY <2>2, <2>3 DEF Coproc!Io!vars, Coproc!Transferring
  <2>4. ASSUME cOutcome[t] = None,
               \E e \in {"ok", "error"} : cOutcome' = [cOutcome EXCEPT ![t] = e]
        PROVE  Coproc!Io!Complete(t)
    BY <1>0, <2>1, <2>2, <2>4 DEF Coproc!Io!Complete, Coproc!Transferring
  <2> QED
    BY <2>2, <2>3, <2>4
<1>6. CASE Coproc!Isr
  BY <1>6 DEF Coproc!Isr, Coproc!IsrStop, Coproc!IsrWake, Coproc!driverVars, Coproc!Io!vars,
              Coproc!Transferring
<1>7. CASE UNCHANGED coprocVars
  BY <1>7 DEF coprocVars, Coproc!Io!vars, Coproc!Transferring
<1> QED
  BY <1>1, <1>2, <1>3, <1>4, <1>5, <1>6, <1>7
     DEF Coproc!Next, Coproc!Call, Coproc!Advance, Coproc!Io!Next

-----------------------------------------------------------------------------
(* The theorems                                                            *)

DevicesInv == HbaInv /\ BdvInv /\ SdcInv /\ CoprocInv

\* A step of the kernel is a step of the driver that it uses, and of no other.
LEMMA OneDriverMoves ==
  ASSUME [MCNext]_mcVars
  PROVE  /\ [Next]_vars
         /\ Bdv!Next \/ UNCHANGED bdvVars
         /\ Sdc!Next \/ UNCHANGED sdcVars
         /\ Coproc!Next \/ UNCHANGED coprocVars
<1>1. CASE UNCHANGED mcVars
  BY <1>1 DEF mcVars, diskVars
<1>2. ASSUME NEW t \in Tasks, TaskCalls(t)
      PROVE  /\ [Next]_vars
             /\ Bdv!Next \/ UNCHANGED bdvVars
             /\ Sdc!Next \/ UNCHANGED sdcVars
             /\ Coproc!Next \/ UNCHANGED coprocVars
  BY <1>2 DEF TaskCalls, DiskStep, HbaStep, BdvStep, SdcStep, CoprocStep, diskVars, Next,
              Bdv!Next, Sdc!Next, Coproc!Next
<1>3. ASSUME NEW t \in Tasks, TaskAdvances(t)
      PROVE  /\ [Next]_vars
             /\ Bdv!Next \/ UNCHANGED bdvVars
             /\ Sdc!Next \/ UNCHANGED sdcVars
             /\ Coproc!Next \/ UNCHANGED coprocVars
  BY <1>3 DEF TaskAdvances, TaskScans, TaskIsServed, Advance, DiskStep, HbaStep, BdvStep,
              SdcStep, CoprocStep, diskVars, Next, Bdv!Next, Sdc!Next, Coproc!Next
<1>4. ASSUME NEW t \in Tasks, TaskIsKilled(t)
      PROVE  /\ [Next]_vars
             /\ Bdv!Next \/ UNCHANGED bdvVars
             /\ Sdc!Next \/ UNCHANGED sdcVars
             /\ Coproc!Next \/ UNCHANGED coprocVars
  BY <1>4 DEF TaskIsKilled, DiskStep, BdvStep, Bdv!Next
<1>5. ASSUME NEW s \in Slot, Completes(s)
      PROVE  /\ [Next]_vars
             /\ Bdv!Next \/ UNCHANGED bdvVars
             /\ Sdc!Next \/ UNCHANGED sdcVars
             /\ Coproc!Next \/ UNCHANGED coprocVars
  BY <1>5 DEF Completes, DiskStep, HbaStep, BdvStep, SdcStep, CoprocStep, diskVars, Next,
              Bdv!Next, Sdc!Next, Coproc!Next, Sdc!Slot, Slot
<1>6. ASSUME IsrRuns
      PROVE  /\ [Next]_vars
             /\ Bdv!Next \/ UNCHANGED bdvVars
             /\ Sdc!Next \/ UNCHANGED sdcVars
             /\ Coproc!Next \/ UNCHANGED coprocVars
  BY <1>6 DEF IsrRuns, DiskStep, HbaStep, BdvStep, SdcStep, CoprocStep, diskVars, Next,
              Bdv!Next, Sdc!Next, Coproc!Next
<1> QED
  BY <1>1, <1>2, <1>3, <1>4, <1>5, <1>6 DEF MCNext

LEMMA DevicesStart ==
  ASSUME MCInit
  PROVE  DevicesInv
<1>1. Slots \in Nat \ {0} /\ 0 \in Slot
  BY HbaAssumption DEF Slot
<1>2. HbaInv
  BY <1>1 DEF MCInit, Init, HbaInv, TypeOK, SlotOwner, InSlot, ActiveIsWaiting, HbaTables,
              HbaTransfers, HbaOutcome
<1>3. BdvInv
  <2>1. bQueue \in Seq(Tasks) /\ bEntered \in BOOLEAN
    BY EmptySeq DEF MCInit, Bdv!Init, Bdv!Lock!Init
  <2>2. Bdv!TypeOK
    BY <2>1 DEF MCInit, Bdv!Init, Bdv!TypeOK, Bdv!None
  <2> QED
    BY <2>2 DEF MCInit, Bdv!Init, BdvInv, BdvOwner, BInLock, BdvBlocked, BInFlight, BdvOutcome
<1>4. SdcInv
  <2>1. 0 \in Sdc!Pointer
    BY <1>1 DEF Sdc!Pointer
  <2> QED
    BY <1>1, <2>1 DEF MCInit, Sdc!Init, SdcInv, Sdc!TypeOK, SdcAlone, SdcCommand, SdcWaits,
                      Sdc!Slot, Slot
<1>5. CoprocInv
  BY DEF MCInit, Coproc!Init, CoprocInv, CoprocType, CoprocOwner, CoprocPhases, Coproc!Mode,
         None, Coproc!None
<1> QED
  BY <1>2, <1>3, <1>4, <1>5 DEF DevicesInv

\* The four drivers keep their invariants, for any number of tasks, any size of
\* the command lists, and whatever the device answers.
THEOREM DevicesInvariant == MCSpec => []DevicesInv
<1>1. MCInit => DevicesInv
  BY DevicesStart
<1>2. DevicesInv /\ [MCNext]_mcVars => DevicesInv'
  BY OneDriverMoves, HbaPreserved, BdvPreserved, SdcPreserved, CoprocPreserved DEF DevicesInv
<1> QED
  BY <1>1, <1>2, PTL DEF MCSpec

\* The lock, the registers, the tables and the places of the drivers have their type.
THEOREM DevicesTypeCorrect == MCSpec => []MCTypeOK
<1>1. DevicesInv => MCTypeOK
  BY CoprocIdentified DEF DevicesInv, HbaInv, BdvInv, SdcInv, MCTypeOK
<1> QED
  BY <1>1, DevicesInvariant, PTL

\* What the ISRs find in gtid is the task that waits for the transfer they complete,
\* never a previous one (_bdv_isr, _hba_isr, _sdc_isr, _mwr_isr), and the slot of a
\* transfer belongs to its caller alone (_hba_cmd_slot_alloc).
THEOREM TransfersIdentified == MCSpec => []TransfersAreIdentified
<1>1. BdvInv => Bdv!BlockedIsIdentified
  <2> SUFFICES ASSUME BdvInv, NEW t \in bNorun
               PROVE  bGtid = t /\ (bPc[t] = "launch" \/ bStatus # "idle" \/ bIsr # "idle")
    BY DEF Bdv!BlockedIsIdentified
  <2>1. t \in Tasks /\ bPc[t] \in {"launch", "wait"}
    BY DEF BdvInv, Bdv!TypeOK, BdvBlocked
  <2> QED
    BY <2>1 DEF BdvInv, BdvOwner, BdvBlocked, BInFlight
<1>2. DevicesInv => TransfersAreIdentified
  BY <1>1, SdcIdentified, CoprocIdentified DEF DevicesInv, HbaInv, TransfersAreIdentified
<1> QED
  BY <1>2, DevicesInvariant, PTL

\* The drivers are a blocking access: the caller gets the outcome of its own
\* transfer, after its completion (_bdv_access, _hba_access, _sdc_access,
\* _sys_coproc_run). For the AHCI controller this needs a device that reports no
\* error, because _hba_status is shared by the transfers in flight.
THEOREM AccessesAreBlocking ==
  ASSUME ~Errors
  PROVE  MCSpec => BlockingAccess
<1>1. MCInit => Io!Init /\ Bdv!Io!Init /\ Sdc!Io!Init /\ Coproc!Io!Init
  BY DEF MCInit, Init, Bdv!Init, Sdc!Init, Coproc!Init, Io!Init, Bdv!Io!Init, Sdc!Io!Init,
         Coproc!Io!Init, Coproc!Transferring, None, Bdv!None, Sdc!None, Coproc!None
<1>2. DevicesInv /\ DevicesInv' /\ [MCNext]_mcVars =>
        /\ [Io!Next]_(Io!vars) /\ [Bdv!Io!Next]_(Bdv!Io!vars)
        /\ [Sdc!Io!Next]_(Sdc!Io!vars) /\ [Coproc!Io!Next]_(Coproc!Io!vars)
  BY OneDriverMoves, HbaBlocking, BdvBlocking, SdcBlocking, CoprocBlocking DEF DevicesInv
<1> QED
  BY <1>1, <1>2, DevicesInvariant, PTL
     DEF MCSpec, BlockingAccess, IoSpec, Io!Spec, Bdv!IoSpec, Bdv!Io!Spec, Sdc!IoSpec,
         Sdc!Io!Spec, Coproc!IoSpec, Coproc!Io!Spec

===============================================================================
