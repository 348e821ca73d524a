------------------------------- MODULE MCDevices -------------------------------
(***************************************************************************)
(* The devices that deschedule their caller: the block device, the AHCI    *)
(* controller and the SD card (the kernel is compiled for one of them,     *)
(* USE_IOC_BDV, USE_IOC_HBA, USE_IOC_SDC), and the coprocessors. They are  *)
(* checked side by side, against the same abstract blocking access.        *)
(***************************************************************************)
EXTENDS HbaDriver, Sequences

VARIABLES driver,       \* the driver that the kernel uses
          bQueue, bEntered, bPc, bRegs, bStatus, bGtid, bNorun, bSaved, bIsr,
          bRead, bOutcome, bRet, bKilled,
          sPtw, sPtr, sGtid, sStatus, sPxci, sPxis, sNorun, sPc, sSlot,
          sOutcome, sRet, sIsr, sSnapshot, sCur,
          cLock, cMode, cGtid, cError, cChannelMode, cRunning, cStatus, cStarted,
          cNorun, cPc, cOutcome, cRet, cIsr

Bdv == INSTANCE BdvDriver
  WITH MayKill <- TRUE, queue <- bQueue, entered <- bEntered, pc <- bPc,
       regs <- bRegs, status <- bStatus, gtid <- bGtid, norun <- bNorun,
       saved <- bSaved, isr <- bIsr, read <- bRead, outcome <- bOutcome,
       ret <- bRet, killed <- bKilled

\* The card has the tasks on the processor of its IRQ only (SdcEarlyWakeup).
Sdc == INSTANCE SdcDriver
  WITH Tasks <- IrqSide, Wrap <- 2 * Slots, Overlap <- FALSE,
       ptw <- sPtw, ptr <- sPtr, gtid <- sGtid, status <- sStatus, pxci <- sPxci,
       pxis <- sPxis, norun <- sNorun, pc <- sPc, slot <- sSlot,
       outcome <- sOutcome, ret <- sRet, isr <- sIsr, snapshot <- sSnapshot,
       cur <- sCur

ASSUME SdcAssumption == Sdc!SdcAssumption

\* None stands for the absence of a task in the tables of the drivers.
ASSUME NoneAssumption == None \notin Tasks

Coproc == INSTANCE Coprocessor
  WITH Channels <- Slot, Faults <- {}, lock <- cLock, mode <- cMode,
       gtid <- cGtid, error <- cError, channelMode <- cChannelMode,
       running <- cRunning, status <- cStatus, started <- cStarted,
       norun <- cNorun, pc <- cPc, outcome <- cOutcome, ret <- cRet, isr <- cIsr

bdvVars == <<bQueue, bEntered, bPc, bRegs, bStatus, bGtid, bNorun, bSaved, bIsr,
             bRead, bOutcome, bRet, bKilled>>
sdcVars == <<sPtw, sPtr, sGtid, sStatus, sPxci, sPxis, sNorun, sPc, sSlot,
             sOutcome, sRet, sIsr, sSnapshot, sCur>>
coprocVars == <<cLock, cMode, cGtid, cError, cChannelMode, cRunning, cStatus,
                cStarted, cNorun, cPc, cOutcome, cRet, cIsr>>
diskVars == <<vars, bdvVars, sdcVars>>
mcVars == <<diskVars, coprocVars, driver>>

HbaStep(Step) == driver = "HBA" /\ Step /\ UNCHANGED <<bdvVars, sdcVars>>
BdvStep(Step) == driver = "BDV" /\ Step /\ UNCHANGED <<vars, sdcVars>>
SdcStep(Step) == driver = "SDC" /\ Step /\ UNCHANGED <<vars, bdvVars>>
DiskStep(Step) == Step /\ UNCHANGED <<coprocVars, driver>>
CoprocStep(Step) == driver = "MWR" /\ Step /\ UNCHANGED <<diskVars, driver>>

MCInit ==
  /\ Init /\ Bdv!Init /\ Sdc!Init /\ Coproc!Init
  /\ driver \in {"BDV", "HBA", "SDC", "MWR"}

TaskCalls(t) ==
  \/ DiskStep(\/ HbaStep(Runs(t) /\ Call(t))
              \/ BdvStep(t \notin bKilled /\ Bdv!Call(t))
              \/ SdcStep(t \in IrqSide /\ Sdc!Runs(t) /\ Sdc!Call(t)))
  \/ CoprocStep(Coproc!Call(t))

\* A caller of _hba_access without a slot scans the command list.
TaskScans(t) == DiskStep(HbaStep(Scan(t)))

TaskIsServed(t) ==
  \/ DiskStep(\/ HbaStep(Serve(t))
              \/ BdvStep(t \notin bKilled /\ Bdv!Advance(t))
              \/ SdcStep(t \in IrqSide /\ Sdc!Advance(t)))
  \/ CoprocStep(Coproc!Advance(t))

TaskAdvances(t) == TaskScans(t) \/ TaskIsServed(t)

TaskIsKilled(t) == DiskStep(BdvStep(t \notin bKilled /\ Bdv!Kill(t)))

Completes(s) ==
  \/ DiskStep(\/ HbaStep(DeviceCompletes(s))
              \/ BdvStep(s = 0 /\ Bdv!DeviceCompletes)
              \/ SdcStep(Sdc!DeviceCompletes(s)))
  \/ CoprocStep(Coproc!ChannelEnds(s))

IsrRuns ==
  \/ DiskStep(HbaStep(Isr) \/ BdvStep(Bdv!Isr) \/ SdcStep(Sdc!Isr))
  \/ CoprocStep(Coproc!Isr)

MCNext ==
  \/ \E t \in Tasks : TaskCalls(t) \/ TaskAdvances(t) \/ TaskIsKilled(t)
  \/ \E s \in Slot : Completes(s)
  \/ IsrRuns

(* Runnable tasks run (Scheduler), the device completes every transfer,    *)
(* and a pending interrupt is served; a scan of the command list finds a   *)
(* slot that stays free, and may miss one that does not (see HbaDriver).   *)
MCSpec ==
  /\ MCInit /\ [][MCNext]_mcVars
  /\ \A t \in Tasks :
       SF_mcVars(TaskIsServed(t)) /\ WF_mcVars(DiskStep(HbaStep(Alloc(t))))
  /\ \A s \in Slot : WF_mcVars(Completes(s))
  /\ SF_mcVars(IsrRuns)

\* The lock, the registers, the tables and the places of the drivers.
MCTypeOK == TypeOK /\ Bdv!TypeOK /\ Sdc!TypeOK /\ Coproc!TypeOK

\* What the ISRs find in gtid is a task that waits for the transfer they complete,
\* never a previous one (_bdv_isr, _hba_isr), the slot of a transfer belongs to its
\* caller alone (_hba_cmd_slot_alloc), the transfer is between the two pointers that
\* _sdc_isr follows, and _mwr_isr does not come too early for the task that it wakes up.
TransfersAreIdentified ==
  /\ SlotOwner /\ ActiveIsWaiting /\ Bdv!BlockedIsIdentified
  /\ Sdc!TransferIsIdentified /\ Coproc!BlockedIsIdentified

\* The drivers are a blocking access (_bdv_access, _hba_access, _sdc_access,
\* _sys_coproc_run): the caller gets the outcome of its own transfer, after its
\* completion.
BlockingAccess == IoSpec /\ Bdv!IoSpec /\ Sdc!IoSpec /\ Coproc!IoSpec

Accessing(t) ==
  \/ t \in IrqSide /\ (InSlot(t) \/ sPc[t] # "idle")
  \/ bKilled = {} /\ bPc[t] # "idle"
  \/ Coproc!Transferring(t)

\* Every access to the block device returns as long as nobody is killed in it,
\* and every access to the card or, once it has a slot, to the AHCI controller from
\* the processor of its IRQ, and every run of a coprocessor (_bdv_access,
\* _hba_access, _sdc_access, _sys_coproc_run).
AccessesReturn == \A t \in Tasks : Accessing(t) ~> ~Accessing(t)

=============================================================================
