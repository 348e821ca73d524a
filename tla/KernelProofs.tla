----------------------------- MODULE KernelProofs -----------------------------
(***************************************************************************)
(* Theorems on the schedulers, for every number of processors, of tasks    *)
(* and of applications, then on the kernel of MCKernel, whose behaviours   *)
(* use the schedulers, the terminals (TerminalsProofs) or the chained      *)
(* buffers (DmaProofs), for all the values of their constants, or start    *)
(* the kernel (StartupProofs, then the page tables of the boot loader).    *)
(***************************************************************************)
EXTENDS MCKernel, SequenceTheorems, WellFoundedInduction, TLAPS

\* The interrupt that ends the idle task of p is on its way.
WtiPending(p) == wti[p] \/ \E q \in Procs : p \in notify[q]

\* The tasks that a scan has passed are still not runnable, or became so by an
\* interrupt that announces it.
PassedNotRunnable ==
  \A p \in Procs : \A k \in 1 .. tid[p] - 1 :
    norun[<<p, (current[p] + k) % tasks[p]>>] = {} => WtiPending(p)

\* Where task t is, or will be when it is elected again.
Executes(t) == current[t[1]] = t[2]
Place(t) == IF Executes(t) THEN live[t[1]] ELSE ctx[t]

\* The tasks that are restarted only after they stopped, and how such a restart
\* is on its way: still to be sent by entry i of the list of task u, or sent.
Protected == {t \in Task : \A a \in Restartable : t \notin Members(a)}
ToSend(u, i, t) == i \in DOMAIN todo[u] /\ todo[u][i] = <<"EXEC", t>>
Restarting(t) == "EXEC" \in sig[t] \/ \E u \in Task : \E i \in DOMAIN todo[u] : ToSend(u, i, t)

\* A restart on its way finds its task stopped, until the scan executes it.
MeetsStopped(t) ==
  Restarting(t) =>
    /\ ~Executes(t)
    /\ "TASK" \in norun[t] \/ (mode[t[1]] = "execAck" /\ Cand(t[1]) = t)

\* There is one restart of a task on its way at most.
OnlyOnce(t) ==
  \A u, v \in Task : \A i \in DOMAIN todo[u], j \in DOMAIN todo[v] :
    /\ ToSend(u, i, t) => "EXEC" \notin sig[t]
    /\ ToSend(u, i, t) /\ ToSend(v, j, t) => u = v /\ i = j

\* A task whose driver call waits for a transfer in flight is marked not
\* runnable, and off its processor or about to leave it.
WaitMarked(t) ==
  Place(t) = "wait" /\ io[t] =>
    "IOC" \in norun[t] /\ (Executes(t) => mode[t[1]] # "run")

\* WaitHonouredUnlessRestarted is not inductive: that the task stays off its
\* processor rests on every EXEC signal finding it stopped, sent or not.
WaitInv ==
  /\ \A p \in Procs : mode[p] = "execAck" => "EXEC" \in sig[Cand(p)]
  /\ \A t \in Protected : MeetsStopped(t) /\ OnlyOnce(t) /\ WaitMarked(t)

\* WakeupPending alone is not inductive: when a scan gives up, it must be known
\* that none of the tasks it looked at became runnable behind its back.
IInv == TypeOK /\ NoLostWakeup /\ StoppedDoesNotRun /\ WakeupPending /\ PassedNotRunnable

-----------------------------------------------------------------------------
(* Arithmetic of the scan                                                  *)

\* Euclidean division, in the form the lemmas below need.
LEMMA DivMod ==
  ASSUME NEW n \in Nat \ {0}, NEW d \in Nat
  PROVE  /\ d = n * (d \div n) + (d % n)
         /\ d % n \in 0 .. n - 1
         /\ d \div n \in Int
BY SMT

\* Two multiples of n that are less than n apart are the same.
LEMMA SameMultiple ==
  ASSUME NEW n \in Nat \ {0}, NEW x \in Int, NEW y \in Int,
         n * x - n * y < n, n * y - n * x < n
  PROVE  x = y
<1>1. n * x - n * y = n * (x - y) /\ n * y - n * x = n * (y - x)
  BY SMT
<1>2. CASE x >= y + 1
  <2>1. n * (x - y) >= n
    BY <1>2, SMT
  <2> QED
    BY <1>1, <2>1, SMT
<1>3. CASE x <= y - 1
  <2>1. n * (y - x) >= n
    BY <1>3, SMT
  <2> QED
    BY <1>1, <2>1, SMT
<1> QED
  BY <1>2, <1>3, SMT

\* n steps from anywhere pass every index: the reason why the scan of
\* _ctx_switch, which tries tid = 1 to tasks, misses no task.
LEMMA ScanCovers ==
  ASSUME NEW n \in Nat \ {0}, NEW c \in Nat, NEW i \in 0 .. n - 1
  PROVE  \E k \in 1 .. n : (c + k) % n = i
<1> DEFINE r == c % n
           q == c \div n
           k == IF i > r THEN i - r ELSE i - r + n
           s == IF i > r THEN q ELSE q + 1
           d == c + k
<1>1. c = n * q + r /\ r \in 0 .. n - 1 /\ q \in Int
  BY DivMod
<1>2. k \in 1 .. n /\ d \in Nat /\ s \in Int
  BY <1>1, SMT
<1>3. d = n * s + i
  <2>1. n * (q + 1) = n * q + n
    BY <1>1, SMT
  <2> QED
    BY <1>1, <2>1, SMT
<1>4. d = n * (d \div n) + (d % n) /\ d % n \in 0 .. n - 1 /\ d \div n \in Int
  BY <1>2, DivMod
<1> HIDE DEF d, s, k, r, q
<1>5. d \div n = s
  <2> DEFINE a == n * (d \div n)
             b == n * s
  <2>1. a \in Int /\ b \in Int
    BY <1>2, <1>4, SMT
  <2> HIDE DEF a, b
  <2>2. a - b < n /\ b - a < n
    <3>1. a + (d % n) = b + i
      BY <1>3, <1>4, Zenon DEF a, b
    <3> QED
      BY <1>4, <2>1, <3>1, SMT
  <2> USE DEF a, b
  <2> QED
    BY <1>2, <1>4, <2>2, SameMultiple
<1>6. d % n = i
  BY <1>2, <1>3, <1>4, <1>5, SMT
<1> QED
  BY <1>2, <1>6 DEF d

\* Before it comes back to its start, the scan meets no index twice.
LEMMA ScanDistinct ==
  ASSUME NEW n \in Nat \ {0}, NEW c \in Nat, NEW k \in 1 .. n, NEW l \in 1 .. n,
         (c + k) % n = (c + l) % n
  PROVE  k = l
<1> DEFINE d == c + k
           e == c + l
           a == n * (d \div n)
           b == n * (e \div n)
<1>1. d \in Nat /\ e \in Nat /\ d - e < n /\ e - d < n
  BY SMT
<1>2. /\ d = a + (d % n) /\ d % n \in 0 .. n - 1 /\ d \div n \in Int
      /\ e = b + (e % n) /\ e % n \in 0 .. n - 1 /\ e \div n \in Int
  BY <1>1, DivMod
<1>3. d % n = e % n
  OBVIOUS
<1>4. a \in Int /\ b \in Int
  BY <1>2, SMT
<1> HIDE DEF d, e
<1>5. a - b < n /\ b - a < n
  <2> HIDE DEF a, b
  <2> QED
    BY <1>1, <1>2, <1>3, <1>4, SMT
<1>6. d \div n = e \div n
  BY <1>2, <1>5, SameMultiple
<1> QED
  BY <1>1, <1>2, <1>3, <1>6, SMT DEF d, e

\* A non-empty set of indices has a first one (kernel_init elects it).
LEMMA FirstIndex ==
  ASSUME NEW S \in SUBSET Nat, S # {}
  PROVE  \E i \in S : \A j \in S : i <= j
<1>1. PICK i \in S : \A j \in S : <<j, i>> \notin OpToRel(<, Nat)
  BY NatLessThanWellFounded, WFMin
<1>2. \A j \in S : ~ (j < i)
  BY <1>1 DEF OpToRel
<1> QED
  BY <1>2, SMT

-----------------------------------------------------------------------------
(* The tasks                                                               *)

\* Task identifiers, with the definition of Task out of the way.
LEMMA TaskPairs ==
  /\ \A p \in Procs : \A i \in 0 .. tasks[p] - 1 : <<p, i>> \in Task
  /\ \A t \in Task : /\ t[1] \in Procs
                     /\ t[2] \in 0 .. tasks[t[1]] - 1
                     /\ t = <<t[1], t[2]>>
BY DEF Task

\* What TypeOK says of one processor.
LEMMA ProcTypes ==
  ASSUME TypeOK, NEW p \in Procs
  PROVE  /\ tasks[p] \in 0 .. IDLE_TASK_INDEX
         /\ current[p] \in 0 .. IDLE_TASK_INDEX
         /\ current[p] # IDLE_TASK_INDEX => current[p] < tasks[p]
         /\ mode[p] = "run" => tid[p] = 0
         /\ mode[p] # "run" => tid[p] \in 1 .. tasks[p]
         /\ live[p] \in At \cup {"idle"}
         /\ live[p] = "idle" <=> current[p] = IDLE_TASK_INDEX
<1>1. /\ current \in [Procs -> 0 .. IDLE_TASK_INDEX]
      /\ live \in [Procs -> At \cup {"idle"}]
      /\ tasks \in [Procs -> 0 .. IDLE_TASK_INDEX]
  BY SchedulerAssumption DEF TypeOK, ProcTypeOK
<1>2. tid[p] \in (IF mode[p] = "run" THEN {0} ELSE 1 .. tasks[p])
  BY DEF TypeOK, ProcTypeOK
<1> QED
  BY <1>1, <1>2 DEF TypeOK, ProcTypeOK

\* The scan looks at tasks of its own processor.
LEMMA CandTask ==
  ASSUME TypeOK, NEW p \in Procs, mode[p] # "run"
  PROVE  /\ Cand(p) \in Task
         /\ Cand(p)[1] = p
         /\ Cand(p)[2] \in 0 .. tasks[p] - 1
<1>1. tasks[p] \in Nat \ {0} /\ current[p] + tid[p] \in Nat
  BY ProcTypes, SMT DEF IDLE_TASK_INDEX
<1>2. (current[p] + tid[p]) % tasks[p] \in 0 .. tasks[p] - 1
  BY <1>1, DivMod
<1> QED
  BY <1>2, TaskPairs DEF Cand

\* A task that executes is a task of its processor.
LEMMA CurTask ==
  ASSUME TypeOK, NEW p \in Procs, current[p] # IDLE_TASK_INDEX
  PROVE  /\ Cur(p) \in Task
         /\ tasks[p] \in 1 .. IDLE_TASK_INDEX
         /\ live[p] \in At
<1>1. current[p] \in 0 .. tasks[p] - 1 /\ tasks[p] \in 1 .. IDLE_TASK_INDEX
  BY ProcTypes, SMT DEF IDLE_TASK_INDEX
<1> QED
  BY <1>1, ProcTypes, TaskPairs DEF Cur
-----------------------------------------------------------------------------
(* Type correctness                                                        *)

\* A call of _ctx_switch starts a scan of the tasks of the processor.
LEMMA CallSwitchTypes ==
  ASSUME TypeOK, NEW p \in Procs, NEW at \in At \cup {"idle"},
         at = "idle" <=> current[p] = IDLE_TASK_INDEX,
         CallSwitch(p, at), UNCHANGED current
  PROVE  ProcTypeOK'
<1>1. tasks[p] \in 0 .. IDLE_TASK_INDEX
  BY ProcTypes
<1>2. mode' \in [Procs -> {"run"} \cup Scanning]
  BY DEF TypeOK, ProcTypeOK, CallSwitch, Scanning
<1>3. tid' \in [Procs -> 0 .. IDLE_TASK_INDEX]
  BY DEF TypeOK, ProcTypeOK, CallSwitch, IDLE_TASK_INDEX
<1>4. live' \in [Procs -> At \cup {"idle"}]
  BY DEF TypeOK, ProcTypeOK, CallSwitch
<1>5. ASSUME NEW q \in Procs
      PROVE  /\ live'[q] = "idle" <=> current[q] = IDLE_TASK_INDEX
             /\ tid'[q] \in (IF mode'[q] = "run" THEN {0} ELSE 1 .. tasks[q])
  <2>1. CASE q = p
    BY <1>1, <2>1 DEF TypeOK, ProcTypeOK, CallSwitch, IDLE_TASK_INDEX
  <2>2. CASE q # p
    BY <2>2 DEF TypeOK, ProcTypeOK, CallSwitch
  <2> QED
    BY <2>1, <2>2
<1> QED
  BY <1>2, <1>3, <1>4, <1>5 DEF TypeOK, ProcTypeOK

\* The end of a scan leaves the processor on a task of its own, or idle.
LEMMA SwitchToTypes ==
  ASSUME TypeOK, NEW p \in Procs, NEW n \in 0 .. IDLE_TASK_INDEX,
         n # IDLE_TASK_INDEX => n < tasks[p],
         SwitchTo(p, n)
  PROVE  ProcTypeOK' /\ ctx' \in [Task -> At]
<1>1. n # IDLE_TASK_INDEX => <<p, n>> \in Task
  BY TaskPairs, ProcTypes DEF IDLE_TASK_INDEX
<1>2. current[p] # IDLE_TASK_INDEX => live[p] \in At
  BY CurTask
<1>3. mode' \in [Procs -> {"run"} \cup Scanning] /\ mode'[p] = "run"
  BY DEF TypeOK, ProcTypeOK, SwitchTo
<1>4. tid' \in [Procs -> 0 .. IDLE_TASK_INDEX] /\ tid'[p] = 0
  BY DEF TypeOK, ProcTypeOK, SwitchTo, IDLE_TASK_INDEX
<1>5. current' \in [Procs -> 0 .. IDLE_TASK_INDEX] /\ current'[p] = n
  BY DEF TypeOK, ProcTypeOK, SwitchTo
<1>6. ctx' \in [Task -> At]
  <2>1. CASE ctx' = ctx
    BY <2>1 DEF TypeOK
  <2>2. CASE ctx' = [ctx EXCEPT ![Cur(p)] = live[p]] /\ current[p] # IDLE_TASK_INDEX
    BY <1>2, <2>2 DEF TypeOK
  <2> QED
    BY <2>1, <2>2 DEF SwitchTo
<1>7. live' \in [Procs -> At \cup {"idle"}] /\ (live'[p] = "idle" <=> n = IDLE_TASK_INDEX)
  <2>1. CASE n = current[p] /\ live' = live
    BY <2>1 DEF TypeOK, ProcTypeOK
  <2>2. CASE live' = [live EXCEPT ![p] = IF n = IDLE_TASK_INDEX THEN "idle" ELSE ctx[<<p, n>>]]
    BY <1>1, <2>2 DEF TypeOK, ProcTypeOK, At
  <2> QED
    BY <2>1, <2>2 DEF SwitchTo
<1>8. \A q \in Procs \ {p} : /\ mode'[q] = mode[q] /\ tid'[q] = tid[q]
                             /\ current'[q] = current[q] /\ live'[q] = live[q]
  BY DEF TypeOK, ProcTypeOK, SwitchTo
<1> QED
  BY <1>3, <1>4, <1>5, <1>6, <1>7, <1>8 DEF TypeOK, ProcTypeOK

\* The scan of _ctx_switch keeps the types.
LEMMA ScanTypes ==
  ASSUME TypeOK, NEW p \in Procs, Scan(p)
  PROVE  TypeOK'
<1>1. mode[p] # "run"
  BY DEF Scan, ScanKill, ScanKillAck, ScanExec, ScanExecAck, ScanTest
<1>2. /\ Cand(p) \in Task
      /\ Cand(p)[1] = p
      /\ Cand(p)[2] \in 0 .. tasks[p] - 1
      /\ tasks[p] \in 0 .. IDLE_TASK_INDEX
      /\ tid[p] \in 1 .. tasks[p]
  BY <1>1, CandTask, ProcTypes
<1>3. ASSUME NEW m \in Scanning, mode' = [mode EXCEPT ![p] = m],
             UNCHANGED <<current, tid, live>>
      PROVE  ProcTypeOK'
  BY <1>1, <1>3 DEF TypeOK, ProcTypeOK, Scanning
<1>4. CASE ScanKill(p)
  <2>1. ProcTypeOK'
    BY <1>3, <1>4 DEF ScanKill, Scanning
  <2>2. norun' \in [Task -> SUBSET {"TASK", "IOC"}]
    <3>1. norun \in [Task -> SUBSET {"TASK", "IOC"}]
      BY DEF TypeOK
    <3>2. norun' = norun \/ norun' = [norun EXCEPT ![Cand(p)] = @ \cup {"TASK"}]
      BY <1>4 DEF ScanKill
    <3> QED
      BY <3>1, <3>2
  <2> QED
    BY <1>4, <2>1, <2>2 DEF TypeOK, ScanKill
<1>5. CASE ScanKillAck(p)
  <2>1. ProcTypeOK'
    BY <1>3, <1>5 DEF ScanKillAck, Scanning
  <2> QED
    BY <1>2, <1>5, <2>1 DEF TypeOK, ScanKillAck
<1>6. CASE ScanExec(p)
  <2>1. ProcTypeOK'
    BY <1>3, <1>6 DEF ScanExec, Scanning
  <2> QED
    BY <1>2, <1>6, <2>1 DEF TypeOK, ScanExec, At
<1>7. CASE ScanExecAck(p)
  <2>1. ProcTypeOK'
    BY <1>3, <1>7 DEF ScanExecAck, Scanning
  <2> QED
    BY <1>2, <1>7, <2>1 DEF TypeOK, ScanExecAck
<1>8. CASE ScanTest(p)
  <2>1. ASSUME NEW n \in {Cand(p)[2], IDLE_TASK_INDEX}, SwitchTo(p, n)
        PROVE  TypeOK'
    <3>1. n \in 0 .. IDLE_TASK_INDEX /\ (n # IDLE_TASK_INDEX => n < tasks[p])
      <4>1. CASE n = IDLE_TASK_INDEX
        BY <4>1 DEF IDLE_TASK_INDEX
      <4>2. CASE n = Cand(p)[2]
        <5>1. n \in 0 .. tasks[p] - 1
          BY <1>2, <4>2
        <5> QED
          BY <1>2, <5>1 DEF IDLE_TASK_INDEX
      <4> QED
        BY <4>1, <4>2
    <3>2. ProcTypeOK' /\ ctx' \in [Task -> At]
      BY <2>1, <3>1, SwitchToTypes
    <3> QED
      BY <1>8, <3>2 DEF TypeOK, ScanTest
  <2>2. CASE /\ tid[p] < tasks[p]
             /\ tid' = [tid EXCEPT ![p] = @ + 1]
             /\ mode' = [mode EXCEPT ![p] = "kill"]
             /\ UNCHANGED <<current, live, ctx>>
    <3>1. tid[p] + 1 \in 1 .. tasks[p] /\ tid[p] + 1 \in 0 .. IDLE_TASK_INDEX
      BY <1>2, <2>2 DEF IDLE_TASK_INDEX
    <3>2. ProcTypeOK'
      BY <1>1, <2>2, <3>1 DEF TypeOK, ProcTypeOK, Scanning
    <3> QED
      BY <1>8, <2>2, <3>2 DEF TypeOK, ScanTest
  <2> QED
    BY <1>8, <2>1, <2>2 DEF ScanTest
<1> QED
  BY <1>4, <1>5, <1>6, <1>7, <1>8 DEF Scan

\* The interrupts keep the types.
LEMMA InterruptTypes ==
  ASSUME TypeOK, NEW p \in Procs,
         Tick(p) \/ Wakeup(p) \/ SendWti(p) \/ \E t \in Task : DeviceIsr(p, t)
  PROVE  TypeOK'
<1>1. ASSUME CallSwitch(p, live[p]), UNCHANGED current
      PROVE  ProcTypeOK'
  BY <1>1, ProcTypes, CallSwitchTypes
<1>2. ASSUME UNCHANGED <<current, mode, tid, live>>
      PROVE  ProcTypeOK'
  BY <1>2 DEF TypeOK, ProcTypeOK
<1>3. CASE Tick(p)
  BY <1>1, <1>3 DEF Tick, TypeOK
<1>4. CASE Wakeup(p)
  <2>1. ProcTypeOK'
    BY <1>1, <1>2, <1>4 DEF Wakeup
  <2> QED
    BY <1>4, <2>1 DEF Wakeup, TypeOK
<1>5. CASE SendWti(p)
  BY <1>2, <1>5 DEF SendWti, TypeOK
<1>6. ASSUME NEW t \in Task, DeviceIsr(p, t)
      PROVE  TypeOK'
  <2>1. {t[1]} \in SUBSET Procs
    BY TaskPairs
  <2> QED
    BY <1>2, <1>6, <2>1 DEF DeviceIsr, TypeOK
<1> QED
  BY <1>3, <1>4, <1>5, <1>6

\* The signals of an application are a sequence of signals of tasks.
LEMMA SignalsTypes ==
  ASSUME NEW s \in {"KILL", "EXEC"}, NEW a \in App
  PROVE  Signals(s, a) \in Seq({"KILL", "EXEC"} \X Task)
BY SchedulerAssumption DEF Signals

\* The system calls, and what a task does between them, keep the types.
LEMMA TaskTypes ==
  ASSUME TypeOK, NEW p \in Procs, current[p] # IDLE_TASK_INDEX,
         \/ Start(p) \/ ResumeFromIo(p) \/ ExitSwitch(p) \/ ResumeFromExit(p)
         \/ SetSignal(p) \/ SysCall(p)
  PROVE  TypeOK'
<1>1. Cur(p) \in Task /\ live[p] \in At
  BY CurTask
<1>2. ASSUME NEW at \in At, CallSwitch(p, at), UNCHANGED current
      PROVE  ProcTypeOK'
  BY <1>2, CallSwitchTypes DEF At
<1>3. ASSUME NEW at \in At, live' = [live EXCEPT ![p] = at],
             UNCHANGED <<current, mode, tid>>
      PROVE  ProcTypeOK'
  BY <1>3 DEF TypeOK, ProcTypeOK, At
<1>4. ASSUME UNCHANGED <<current, mode, tid, live>>
      PROVE  ProcTypeOK'
  BY <1>4 DEF TypeOK, ProcTypeOK
<1>5. CASE Start(p)
  <2>1. ProcTypeOK'
    BY <1>3, <1>5 DEF Start, At
  <2> QED
    BY <1>1, <1>5, <2>1 DEF Start, TypeOK
<1>6. CASE ResumeFromIo(p) \/ ResumeFromExit(p)
  <2>1. ProcTypeOK'
    BY <1>3, <1>6 DEF ResumeFromIo, ResumeFromExit, At
  <2> QED
    BY <1>6, <2>1 DEF ResumeFromIo, ResumeFromExit, TypeOK
<1>7. CASE ExitSwitch(p) \/ Yield(p)
  <2>1. ProcTypeOK'
    BY <1>2, <1>7 DEF ExitSwitch, Yield, At
  <2> QED
    BY <1>7, <2>1 DEF ExitSwitch, Yield, TypeOK
<1>8. CASE BlockOnIo(p)
  <2>1. ProcTypeOK'
    BY <1>2, <1>8 DEF BlockOnIo, At
  <2> QED
    BY <1>1, <1>8, <2>1 DEF BlockOnIo, TypeOK
<1>9. CASE ExitMark(p)
  <2>1. ProcTypeOK'
    BY <1>3, <1>9 DEF ExitMark, At
  <2> QED
    BY <1>1, <1>9, <2>1 DEF ExitMark, TypeOK
<1>10. CASE Exception(p)
  <2>1. ProcTypeOK'
    BY <1>2, <1>10 DEF Exception, At
  <2> QED
    BY <1>1, <1>10, <2>1 DEF Exception, TypeOK
<1>11. ASSUME NEW a \in App, KillApplication(p, a) \/ ExecApplication(p, a)
       PROVE  TypeOK'
  <2>1. ProcTypeOK'
    BY <1>4, <1>11 DEF KillApplication, ExecApplication
  <2>2. todo' \in [Task -> Seq({"KILL", "EXEC"} \X Task)]
    BY <1>1, <1>11, SignalsTypes DEF KillApplication, ExecApplication, TypeOK
  <2> QED
    BY <1>11, <2>1, <2>2 DEF KillApplication, ExecApplication, TypeOK
<1>12. CASE SetSignal(p)
  <2> DEFINE s == Head(todo[Cur(p)])
  <2>1. ProcTypeOK'
    BY <1>4, <1>12 DEF SetSignal
  <2>2. /\ s \in {"KILL", "EXEC"} \X Task
        /\ Tail(todo[Cur(p)]) \in Seq({"KILL", "EXEC"} \X Task)
    BY <1>1, <1>12 DEF SetSignal, TypeOK
  <2>3. sig' \in [Task -> SUBSET {"KILL", "EXEC"}]
    BY <1>12, <2>2 DEF SetSignal, TypeOK
  <2>4. todo' \in [Task -> Seq({"KILL", "EXEC"} \X Task)]
    BY <1>1, <1>12, <2>2 DEF SetSignal, TypeOK
  <2> QED
    BY <1>12, <2>1, <2>3, <2>4 DEF SetSignal, TypeOK
<1> QED
  BY <1>5, <1>6, <1>7, <1>8, <1>9, <1>10, <1>11, <1>12 DEF SysCall

\* The interrupts and the tasks act on one processor at a time.
Step(q) ==
  \/ Kernel(q) \/ SysCall(q) \/ Tick(q) \/ Wakeup(q)
  \/ \E t \in Task : DeviceIsr(q, t)

LEMMA NextStep == Next => \E q \in Procs : Step(q)
BY DEF Next, Step, Completion

\* The steps of the task on the processor.
TaskStep(q) ==
  \/ Start(q) \/ ResumeFromIo(q) \/ ExitSwitch(q) \/ ResumeFromExit(q)
  \/ SetSignal(q) \/ SysCall(q)

LEMMA TaskStepOnTask ==
  ASSUME NEW q \in Procs, TaskStep(q)
  PROVE  OnTask(q) /\ current[q] # IDLE_TASK_INDEX
BY DEF TaskStep, SysCall, Start, ResumeFromIo, ExitSwitch, ResumeFromExit, SetSignal,
       Yield, BlockOnIo, ExitMark, Exception, KillApplication, ExecApplication,
       Free, InUser, OnTask

\* Every step keeps the types.
LEMMA TypeStep ==
  ASSUME TypeOK, [Next]_vars
  PROVE  TypeOK'
<1>1. ASSUME NEW q \in Procs, Step(q)
      PROVE  TypeOK'
  <2>1. CASE Scan(q)
    BY <2>1, ScanTypes
  <2>2. CASE Tick(q) \/ Wakeup(q) \/ SendWti(q) \/ \E t \in Task : DeviceIsr(q, t)
    BY <2>2, InterruptTypes
  <2>3. CASE TaskStep(q)
    BY <2>3, TaskStepOnTask, TaskTypes DEF TaskStep
  <2> QED
    BY <1>1, <2>1, <2>2, <2>3 DEF Step, Kernel, TaskStep
<1>2. CASE UNCHANGED vars
  BY <1>2 DEF vars, TypeOK, ProcTypeOK
<1> QED
  BY <1>1, <1>2, NextStep

-----------------------------------------------------------------------------
(* The safety properties                                                   *)

\* NORUN_MASK_IOC is set with the transfer and cleared with it.
LEMMA NoLostWakeupStep ==
  ASSUME TypeOK, NoLostWakeup, NEW q \in Procs, Step(q)
  PROVE  NoLostWakeup'
<1> USE DEF NoLostWakeup, TypeOK
<1>1. CASE Scan(q)
  <2>1. CASE ScanKill(q)
    <3>1. norun' = norun \/ norun' = [norun EXCEPT ![Cand(q)] = @ \cup {"TASK"}]
      BY <2>1 DEF ScanKill
    <3>2. ASSUME NEW t \in Task, "IOC" \in norun'[t]
          PROVE  "IOC" \in norun[t]
      <4>1. norun \in [Task -> SUBSET {"TASK", "IOC"}]
        OBVIOUS
      <4> HIDE DEF TypeOK, NoLostWakeup
      <4> QED
        BY <3>1, <3>2, <4>1
    <3> QED
      BY <2>1, <3>2 DEF ScanKill
  <2>2. CASE ScanExec(q)
    BY <2>2 DEF ScanExec
  <2>3. CASE ScanKillAck(q) \/ ScanExecAck(q) \/ ScanTest(q)
    BY <2>3 DEF ScanKillAck, ScanExecAck, ScanTest
  <2> QED
    BY <1>1, <2>1, <2>2, <2>3 DEF Scan
<1>2. CASE Tick(q) \/ Wakeup(q) \/ SendWti(q)
  BY <1>2 DEF Tick, Wakeup, SendWti
<1>3. ASSUME NEW t \in Task, DeviceIsr(q, t)
      PROVE  NoLostWakeup'
  BY <1>3 DEF DeviceIsr
<1>4. CASE TaskStep(q)
  <2>1. Cur(q) \in Task
    BY <1>4, TaskStepOnTask, CurTask
  <2>2. CASE BlockOnIo(q)
    BY <2>1, <2>2 DEF BlockOnIo
  <2>3. CASE ExitMark(q)
    BY <2>1, <2>3 DEF ExitMark
  <2>4. CASE Exception(q)
    BY <2>1, <2>4 DEF Exception
  <2>5. CASE UNCHANGED <<norun, io>>
    BY <2>5
  <2> QED
    BY <1>4, <2>2, <2>3, <2>4, <2>5
    DEF TaskStep, SysCall, Start, ResumeFromIo, ExitSwitch, ResumeFromExit,
        SetSignal, Yield, KillApplication, ExecApplication
<1> QED
  BY <1>1, <1>2, <1>3, <1>4 DEF Step, Kernel, TaskStep

\* What a step on processor q does to another processor p: it clears NORUN
\* bits of its tasks, and then announces it.
LEMMA OthersKept ==
  ASSUME TypeOK, NEW q \in Procs, Step(q), NEW p \in Procs \ {q}
  PROVE  /\ UNCHANGED <<current[p], mode[p], tid[p], live[p]>>
         /\ WtiPending(p) => WtiPending(p)'
         /\ \A i \in 0 .. tasks[p] - 1 :
              \/ norun'[<<p, i>>] = norun[<<p, i>>]
              \/ norun'[<<p, i>>] = norun[<<p, i>>] \ {"IOC"} /\ WtiPending(p)'
<1>1. CASE Scan(q)
  <2>1. mode[q] # "run"
    BY <1>1 DEF Scan, ScanKill, ScanKillAck, ScanExec, ScanExecAck, ScanTest
  <2>2. Cand(q)[1] = q
    BY <2>1, CandTask
  <2>3. UNCHANGED <<current[p], mode[p], tid[p], live[p]>>
    BY <1>1 DEF TypeOK, ProcTypeOK, Scan, ScanKill, ScanKillAck, ScanExec, ScanExecAck,
                ScanTest, SwitchTo
  <2>4. UNCHANGED <<notify, wti>>
    BY <1>1 DEF Scan, ScanKill, ScanKillAck, ScanExec, ScanExecAck, ScanTest
  <2>5. \/ norun' = norun
        \/ norun' = [norun EXCEPT ![Cand(q)] = @ \cup {"TASK"}]
        \/ norun' = [norun EXCEPT ![Cand(q)] = {}]
    BY <1>1 DEF Scan, ScanKill, ScanKillAck, ScanExec, ScanExecAck, ScanTest
  <2>6. ASSUME NEW i \in 0 .. tasks[p] - 1
        PROVE  norun'[<<p, i>>] = norun[<<p, i>>]
    <3>1. <<p, i>> # Cand(q) /\ <<p, i>> \in Task
      BY <2>2, TaskPairs
    <3> QED
      BY <2>5, <3>1 DEF TypeOK
  <2> QED
    BY <2>3, <2>4, <2>6 DEF WtiPending
<1>2. CASE Tick(q) \/ Wakeup(q)
  <2>1. UNCHANGED <<current[p], mode[p], tid[p], live[p], wti[p]>>
    BY <1>2 DEF TypeOK, ProcTypeOK, Tick, Wakeup, CallSwitch
  <2>2. UNCHANGED <<norun, notify>>
    BY <1>2 DEF Tick, Wakeup
  <2> QED
    BY <2>1, <2>2 DEF WtiPending
<1>3. CASE SendWti(q)
  BY <1>3 DEF SendWti, WtiPending, TypeOK
<1>4. ASSUME NEW t \in Task, DeviceIsr(q, t)
      PROVE  /\ UNCHANGED <<current[p], mode[p], tid[p], live[p]>>
             /\ WtiPending(p) => WtiPending(p)'
             /\ \A i \in 0 .. tasks[p] - 1 :
                  \/ norun'[<<p, i>>] = norun[<<p, i>>]
                  \/ norun'[<<p, i>>] = norun[<<p, i>>] \ {"IOC"} /\ WtiPending(p)'
  <2>1. notify[q] = {}
    BY <1>4 DEF DeviceIsr, IntEnabled
  <2>2. WtiPending(p) => WtiPending(p)'
    BY <1>4, <2>1 DEF DeviceIsr, WtiPending, TypeOK
  <2>3. t[1] = p => WtiPending(p)'
    BY <1>4 DEF DeviceIsr, WtiPending, TypeOK
  <2>4. ASSUME NEW i \in 0 .. tasks[p] - 1
        PROVE  \/ norun'[<<p, i>>] = norun[<<p, i>>]
               \/ norun'[<<p, i>>] = norun[<<p, i>>] \ {"IOC"} /\ WtiPending(p)'
    <3>1. <<p, i>> \in Task
      BY TaskPairs
    <3>2. norun' = [norun EXCEPT ![t] = @ \ {"IOC"}]
      BY <1>4 DEF DeviceIsr
    <3>3. norun \in [Task -> SUBSET {"TASK", "IOC"}]
      BY DEF TypeOK
    <3>4. CASE t = <<p, i>>
      <4>1. t[1] = p
        BY <3>4
      <4> QED
        BY <2>3, <3>1, <3>2, <3>3, <3>4, <4>1
    <3>5. CASE t # <<p, i>>
      BY <3>1, <3>2, <3>3, <3>5
    <3> QED
      BY <3>4, <3>5
  <2> QED
    BY <1>4, <2>2, <2>4 DEF DeviceIsr
<1>5. CASE TaskStep(q)
  <2>1. UNCHANGED <<current[p], mode[p], tid[p], live[p]>>
    BY <1>5 DEF TypeOK, ProcTypeOK, CallSwitch, TaskStep, SysCall, Start, ResumeFromIo,
       ExitSwitch, ResumeFromExit, SetSignal, Yield, BlockOnIo, ExitMark, Exception,
       KillApplication, ExecApplication
  <2>2. UNCHANGED <<notify, wti>>
    BY <1>5 DEF TaskStep, SysCall, Start, ResumeFromIo, ExitSwitch, ResumeFromExit,
       SetSignal, Yield, BlockOnIo, ExitMark, Exception, KillApplication, ExecApplication
  <2>3. \/ norun' = norun
        \/ norun' = [norun EXCEPT ![Cur(q)] = @ \cup {"IOC"}]
        \/ norun' = [norun EXCEPT ![Cur(q)] = @ \cup {"TASK"}]
        \/ norun' = [norun EXCEPT ![Cur(q)] = {"TASK"}]
    BY <1>5 DEF TaskStep, SysCall, Start, ResumeFromIo, ExitSwitch,
       ResumeFromExit, SetSignal, Yield, BlockOnIo, ExitMark, Exception,
       KillApplication, ExecApplication
  <2>4. ASSUME NEW i \in 0 .. tasks[p] - 1
        PROVE  norun'[<<p, i>>] = norun[<<p, i>>]
    <3>1. <<p, i>> # Cur(q) /\ <<p, i>> \in Task
      BY TaskPairs DEF Cur
    <3> QED
      BY <2>3, <3>1 DEF TypeOK
  <2> QED
    BY <2>1, <2>2, <2>4 DEF WtiPending
<1> QED
  BY <1>1, <1>2, <1>3, <1>4, <1>5 DEF Step, Kernel, TaskStep

\* Where there are tasks, a call of _ctx_switch starts the scan.
LEMMA CallSwitchScans ==
  ASSUME TypeOK, NEW q \in Procs, NEW at, CallSwitch(q, at), tasks[q] # 0
  PROVE  mode'[q] = "kill" /\ tid'[q] = 1
BY DEF CallSwitch, TypeOK, ProcTypeOK

\* StoppedDoesNotRun, for one processor.
Obeys(p) == OnTask(p) /\ live[p] # "exiting" => "TASK" \notin norun[Cur(p)]

\* A task that has NORUN_MASK_TASK does not execute: the scan takes tasks
\* without NORUN bits only, and who sets the bit leaves the processor.
LEMMA StoppedStep ==
  ASSUME TypeOK, StoppedDoesNotRun, NEW q \in Procs, Step(q)
  PROVE  StoppedDoesNotRun'
<1>0. \A p \in Procs : Obeys(p)
  BY DEF StoppedDoesNotRun, Obeys
<1>1. ASSUME NEW p \in Procs, UNCHANGED <<current[p], mode[p], live[p]>>,
             OnTask(p) => \/ norun'[Cur(p)] = norun[Cur(p)]
                          \/ norun'[Cur(p)] = norun[Cur(p)] \ {"IOC"}
      PROVE  Obeys(p)'
  BY <1>0, <1>1 DEF OnTask, Cur, Obeys
<1>2. ASSUME NEW p \in Procs \ {q}
      PROVE  Obeys(p)'
  <2>1. /\ UNCHANGED <<current[p], mode[p], live[p]>>
        /\ \A i \in 0 .. tasks[p] - 1 :
              \/ norun'[<<p, i>>] = norun[<<p, i>>]
              \/ norun'[<<p, i>>] = norun[<<p, i>>] \ {"IOC"}
    BY OthersKept
  <2>2. current[p] # IDLE_TASK_INDEX => current[p] \in 0 .. tasks[p] - 1
    BY ProcTypes DEF IDLE_TASK_INDEX
  <2> QED
    BY <1>1, <2>1, <2>2 DEF OnTask, Cur
<1>3. mode'[q] # "run" \/ current'[q] = IDLE_TASK_INDEX => Obeys(q)'
  BY DEF OnTask, Obeys
<1> SUFFICES Obeys(q)'
  BY <1>2 DEF StoppedDoesNotRun, Obeys
<1>4. CASE Scan(q)
  <2>1. CASE ScanTest(q)
    <3>1. mode[q] # "run"
      BY <2>1 DEF ScanTest
    <3>2. CASE norun[Cand(q)] = {} /\ SwitchTo(q, Cand(q)[2])
      <4>1. current'[q] = Cand(q)[2]
        BY <3>2 DEF SwitchTo, TypeOK, ProcTypeOK
      <4>2. Cur(q)' = Cand(q)
        BY <4>1 DEF Cur, Cand
      <4>3. norun' = norun
        BY <2>1 DEF ScanTest
      <4> QED
        BY <3>2, <4>2, <4>3 DEF Obeys
    <3>3. CASE SwitchTo(q, IDLE_TASK_INDEX)
      BY <1>3, <3>3 DEF SwitchTo, TypeOK, ProcTypeOK
    <3>4. CASE mode' = [mode EXCEPT ![q] = "kill"]
      BY <1>3, <3>4 DEF TypeOK, ProcTypeOK
    <3> QED
      BY <2>1, <3>2, <3>3, <3>4 DEF ScanTest
  <2>2. CASE ScanKill(q) \/ ScanKillAck(q) \/ ScanExec(q) \/ ScanExecAck(q)
    <3>1. mode'[q] # "run"
      BY <2>2 DEF ScanKill, ScanKillAck, ScanExec, ScanExecAck, TypeOK, ProcTypeOK
    <3> QED
      BY <1>3, <3>1
  <2> QED
    BY <1>4, <2>1, <2>2 DEF Scan
<1>5. ASSUME NEW at, CallSwitch(q, at), UNCHANGED current
      PROVE  Obeys(q)'
  <2>1. CASE current[q] = IDLE_TASK_INDEX
    BY <1>3, <1>5, <2>1
  <2>2. CASE current[q] # IDLE_TASK_INDEX
    <3>1. tasks[q] # 0
      BY <2>2, CurTask DEF IDLE_TASK_INDEX
    <3>2. mode'[q] = "kill"
      BY <1>5, <3>1, CallSwitchScans
    <3> QED
      BY <1>3, <3>2
  <2> QED
    BY <2>1, <2>2
<1>6. CASE Tick(q)
  BY <1>5, <1>6 DEF Tick
<1>7. CASE Wakeup(q)
  <2>1. CASE CallSwitch(q, live[q])
    BY <1>5, <1>7, <2>1 DEF Wakeup
  <2>2. CASE UNCHANGED <<mode, tid, live>>
    BY <1>1, <1>7, <2>2 DEF Wakeup
  <2> QED
    BY <1>7, <2>1, <2>2 DEF Wakeup
<1>8. CASE SendWti(q)
  BY <1>1, <1>8 DEF SendWti
<1>9. ASSUME NEW t \in Task, DeviceIsr(q, t)
      PROVE  Obeys(q)'
  <2>1. norun' = [norun EXCEPT ![t] = @ \ {"IOC"}]
    BY <1>9 DEF DeviceIsr
  <2>2. \A u \in Task : norun'[u] = norun[u] \/ norun'[u] = norun[u] \ {"IOC"}
    BY <2>1 DEF TypeOK
  <2>3. OnTask(q) => Cur(q) \in Task
    BY CurTask DEF OnTask
  <2> QED
    BY <1>1, <1>9, <2>2, <2>3 DEF DeviceIsr
<1>10. CASE TaskStep(q)
  <2>1. CASE Yield(q) \/ BlockOnIo(q) \/ ExitSwitch(q) \/ Exception(q)
    BY <1>5, <2>1 DEF Yield, BlockOnIo, ExitSwitch, Exception
  <2>2. CASE ExitMark(q)
    BY <2>2 DEF ExitMark, TypeOK, ProcTypeOK, Obeys
  <2>3. CASE \/ Start(q) \/ ResumeFromIo(q) \/ ResumeFromExit(q) \/ SetSignal(q)
             \/ \E a \in App : KillApplication(q, a) \/ ExecApplication(q, a)
    <3>1. OnTask(q) /\ live[q] # "exiting"
      BY <2>3 DEF Start, ResumeFromIo, ResumeFromExit, SetSignal, KillApplication,
                  ExecApplication, Free, InUser
    <3>2. UNCHANGED <<current, norun>>
      BY <2>3 DEF Start, ResumeFromIo, ResumeFromExit, SetSignal, KillApplication,
                  ExecApplication
    <3> QED
      BY <1>0, <3>1, <3>2 DEF Cur, Obeys
  <2> QED
    BY <1>10, <2>1, <2>2, <2>3 DEF TaskStep, SysCall
<1> QED
  BY <1>4, <1>6, <1>7, <1>8, <1>9, <1>10 DEF Step, Kernel, TaskStep

\* WakeupPending and PassedNotRunnable, for one processor.
ProcPending(p) ==
  /\ mode[p] = "run" /\ current[p] = IDLE_TASK_INDEX =>
       \A i \in 0 .. tasks[p] - 1 : norun[<<p, i>>] = {} => WtiPending(p)
  /\ \A k \in 1 .. tid[p] - 1 :
       norun[<<p, (current[p] + k) % tasks[p]>>] = {} => WtiPending(p)

LEMMA AllPending ==
  WakeupPending /\ PassedNotRunnable <=> \A p \in Procs : ProcPending(p)
BY DEF WakeupPending, PassedNotRunnable, ProcPending, WtiPending

\* The indices that a scan has passed are those of tasks of the processor.
LEMMA PassedIndex ==
  ASSUME TypeOK, NEW p \in Procs, NEW k \in 1 .. tid[p]
  PROVE  (current[p] + k) % tasks[p] \in 0 .. tasks[p] - 1
<1>1. tasks[p] \in Nat \ {0} /\ current[p] + k \in Nat
  BY ProcTypes, SMT DEF IDLE_TASK_INDEX
<1> QED
  BY <1>1, DivMod

\* A processor that does not move keeps ProcPending, whatever becomes runnable
\* with an announcement.
LEMMA FramePending ==
  ASSUME TypeOK, NEW p \in Procs, ProcPending(p),
         UNCHANGED <<current[p], tid[p]>>,
         mode'[p] = "run" => mode[p] = "run",
         WtiPending(p) => WtiPending(p)',
         \A i \in 0 .. tasks[p] - 1 :
           norun'[<<p, i>>] = {} => norun[<<p, i>>] = {} \/ WtiPending(p)'
  PROVE  ProcPending(p)'
<1>1. ASSUME mode'[p] = "run", current'[p] = IDLE_TASK_INDEX,
             NEW i \in 0 .. tasks[p] - 1, norun'[<<p, i>>] = {}
      PROVE  WtiPending(p)'
  BY <1>1 DEF ProcPending
<1>2. ASSUME NEW k \in 1 .. tid[p] - 1,
             norun'[<<p, (current[p] + k) % tasks[p]>>] = {}
      PROVE  WtiPending(p)'
  <2>1. k \in 1 .. tid[p]
    BY ProcTypes DEF IDLE_TASK_INDEX
  <2>2. (current[p] + k) % tasks[p] \in 0 .. tasks[p] - 1
    BY <2>1, PassedIndex
  <2> QED
    BY <1>2, <2>2 DEF ProcPending
<1> QED
  BY <1>1, <1>2 DEF ProcPending

\* A processor that enters _ctx_switch starts with nothing passed.
LEMMA CallSwitchPending ==
  ASSUME TypeOK, NEW q \in Procs, NEW at, CallSwitch(q, at), UNCHANGED current
  PROVE  ProcPending(q)'
<1>1. CASE tasks[q] = 0
  <2>1. tid'[q] = 0
    BY <1>1 DEF CallSwitch, TypeOK, ProcTypeOK
  <2> QED
    BY <1>1, <2>1 DEF ProcPending
<1>2. CASE tasks[q] # 0
  BY <1>2, CallSwitchScans DEF ProcPending
<1> QED
  BY <1>1, <1>2

\* A scan that gives up has passed every task of the processor.
LEMMA GiveUpPending ==
  ASSUME TypeOK, NEW q \in Procs, ProcPending(q), ScanTest(q),
         norun[Cand(q)] # {}, tid[q] = tasks[q],
         NEW i \in 0 .. tasks[q] - 1, norun[<<q, i>>] = {}
  PROVE  WtiPending(q)
<1>1. /\ tasks[q] \in Nat \ {0}
      /\ current[q] \in Nat
      /\ tid[q] \in 1 .. tasks[q]
  BY ProcTypes DEF ScanTest, IDLE_TASK_INDEX
<1>2. PICK k \in 1 .. tasks[q] : (current[q] + k) % tasks[q] = i
  BY <1>1, ScanCovers
<1>3. k # tid[q]
  BY <1>2 DEF Cand
<1>4. k \in 1 .. tid[q] - 1
  BY <1>1, <1>3
<1> QED
  BY <1>2, <1>4 DEF ProcPending

\* The scan remembers only what it has looked at.
LEMMA ScanPending ==
  ASSUME TypeOK, NEW q \in Procs, ProcPending(q), Scan(q)
  PROVE  ProcPending(q)'
<1>1. /\ mode[q] # "run"
      /\ UNCHANGED <<notify, wti>>
  BY DEF Scan, ScanKill, ScanKillAck, ScanExec, ScanExecAck, ScanTest
<1>2. /\ tasks[q] \in Nat \ {0} /\ tasks[q] <= IDLE_TASK_INDEX
      /\ current[q] \in Nat
      /\ tid[q] \in 1 .. tasks[q]
      /\ Cand(q) \in Task
      /\ Cand(q)[2] \in 0 .. tasks[q] - 1
  BY <1>1, ProcTypes, CandTask DEF IDLE_TASK_INDEX
<1>3. WtiPending(q)' = WtiPending(q)
  BY <1>1 DEF WtiPending
<1>4. CASE ScanKill(q)
  <2>1. UNCHANGED <<current, tid>> /\ mode'[q] # "run"
    BY <1>4 DEF ScanKill, TypeOK, ProcTypeOK
  <2>2. norun' = norun \/ norun' = [norun EXCEPT ![Cand(q)] = @ \cup {"TASK"}]
    BY <1>4 DEF ScanKill
  <2>3. ASSUME NEW i \in 0 .. tasks[q] - 1, norun'[<<q, i>>] = {}
        PROVE  norun[<<q, i>>] = {}
    <3>1. <<q, i>> \in Task /\ norun \in [Task -> SUBSET {"TASK", "IOC"}]
      BY TaskPairs DEF TypeOK
    <3> QED
      BY <2>2, <2>3, <3>1
  <2> QED
    BY <1>3, <2>1, <2>3, FramePending
<1>5. CASE ScanKillAck(q) \/ ScanExecAck(q)
  <2>1. UNCHANGED <<current, tid, norun>> /\ mode'[q] # "run"
    BY <1>5 DEF ScanKillAck, ScanExecAck, TypeOK, ProcTypeOK
  <2> QED
    BY <1>3, <2>1, FramePending
<1>6. CASE ScanExec(q)
  <2>1. UNCHANGED <<current, tid>> /\ mode'[q] # "run"
    BY <1>6 DEF ScanExec, TypeOK, ProcTypeOK
  <2>2. norun' = norun \/ norun' = [norun EXCEPT ![Cand(q)] = {}]
    BY <1>6 DEF ScanExec
  <2>3. ASSUME NEW k \in 1 .. tid[q] - 1
        PROVE  norun'[<<q, (current[q] + k) % tasks[q]>>]
                 = norun[<<q, (current[q] + k) % tasks[q]>>]
    <3>1. k \in 1 .. tasks[q] /\ k # tid[q] /\ tid[q] \in 1 .. tasks[q]
      BY <1>2
    <3>2. (current[q] + k) % tasks[q] # (current[q] + tid[q]) % tasks[q]
      BY <1>2, <3>1, ScanDistinct
    <3>3. <<q, (current[q] + k) % tasks[q]>> # Cand(q)
      BY <3>2 DEF Cand
    <3>4. k \in 1 .. tid[q]
      BY <1>2
    <3>5. <<q, (current[q] + k) % tasks[q]>> \in Task
      BY <3>4, PassedIndex, TaskPairs
    <3> QED
      BY <2>2, <3>3, <3>5 DEF TypeOK
  <2> QED
    BY <1>3, <2>1, <2>3 DEF ProcPending
<1>7. CASE ScanTest(q)
  <2>1. norun' = norun
    BY <1>7 DEF ScanTest
  <2>2. ASSUME NEW n, SwitchTo(q, n)
        PROVE  tid'[q] = 0 /\ current'[q] = n
    BY <2>2 DEF SwitchTo, TypeOK, ProcTypeOK
  <2>3. CASE SwitchTo(q, Cand(q)[2])
    <3>1. tid'[q] = 0 /\ current'[q] # IDLE_TASK_INDEX
      BY <1>2, <2>2, <2>3
    <3> QED
      BY <3>1 DEF ProcPending
  <2>4. CASE norun[Cand(q)] # {} /\ tid[q] = tasks[q] /\ SwitchTo(q, IDLE_TASK_INDEX)
    <3>1. tid'[q] = 0
      BY <2>2, <2>4
    <3>2. \A i \in 0 .. tasks[q] - 1 : norun[<<q, i>>] = {} => WtiPending(q)
      BY <1>7, <2>4, GiveUpPending
    <3> QED
      BY <1>3, <2>1, <3>1, <3>2 DEF ProcPending
  <2>5. CASE /\ norun[Cand(q)] # {}
             /\ tid' = [tid EXCEPT ![q] = @ + 1]
             /\ mode' = [mode EXCEPT ![q] = "kill"]
             /\ UNCHANGED current
    <3>1. tid'[q] = tid[q] + 1 /\ mode'[q] # "run"
      BY <2>5 DEF TypeOK, ProcTypeOK
    <3>2. ASSUME NEW k \in 1 .. tid'[q] - 1,
                 norun[<<q, (current[q] + k) % tasks[q]>>] = {}
          PROVE  WtiPending(q)
      <4>1. k # tid[q]
        BY <2>5, <3>2 DEF Cand
      <4>2. k \in 1 .. tid[q] - 1
        BY <1>2, <3>1, <4>1
      <4> QED
        BY <3>2, <4>2 DEF ProcPending
    <3> QED
      BY <1>3, <2>1, <2>5, <3>1, <3>2 DEF ProcPending
  <2> QED
    BY <1>7, <2>3, <2>4, <2>5 DEF ScanTest
<1> QED
  BY <1>4, <1>5, <1>6, <1>7 DEF Scan

\* The handshake between a scan that ends on the idle task and the interrupts
\* that clear NORUN bits meanwhile.
LEMMA PendingStep ==
  ASSUME TypeOK, WakeupPending, PassedNotRunnable, NEW q \in Procs, Step(q)
  PROVE  WakeupPending' /\ PassedNotRunnable'
<1>1. \A p \in Procs : ProcPending(p)
  BY AllPending
<1>2. ASSUME NEW p \in Procs \ {q}
      PROVE  ProcPending(p)'
  <2>1. /\ UNCHANGED <<current[p], mode[p], tid[p]>>
        /\ WtiPending(p) => WtiPending(p)'
        /\ \A i \in 0 .. tasks[p] - 1 :
              \/ norun'[<<p, i>>] = norun[<<p, i>>]
              \/ norun'[<<p, i>>] = norun[<<p, i>>] \ {"IOC"} /\ WtiPending(p)'
    BY OthersKept
  <2> QED
    BY <1>1, <2>1, FramePending
<1> SUFFICES ProcPending(q)'
  <2>1. (\A p \in Procs : ProcPending(p)') => WakeupPending' /\ PassedNotRunnable'
    BY DEF WakeupPending, PassedNotRunnable, ProcPending, WtiPending
  <2> QED
    BY <1>2, <2>1
<1>3. CASE Scan(q)
  BY <1>1, <1>3, ScanPending
<1>4. CASE Tick(q)
  BY <1>4, CallSwitchPending DEF Tick
<1>5. CASE Wakeup(q)
  <2>1. CASE CallSwitch(q, live[q])
    BY <1>5, <2>1, CallSwitchPending DEF Wakeup
  <2>2. CASE current[q] # IDLE_TASK_INDEX /\ UNCHANGED <<mode, tid, live>>
    <3>1. tid'[q] = 0 /\ current'[q] # IDLE_TASK_INDEX
      BY <1>5, <2>2, ProcTypes DEF Wakeup, IntEnabled
    <3> QED
      BY <3>1 DEF ProcPending
  <2> QED
    BY <1>5, <2>1, <2>2 DEF Wakeup
<1>6. CASE SendWti(q)
  <2>1. WtiPending(q) => WtiPending(q)'
    BY <1>6 DEF SendWti, WtiPending, TypeOK
  <2> QED
    BY <1>1, <1>6, <2>1, FramePending DEF SendWti
<1>7. ASSUME NEW t \in Task, DeviceIsr(q, t)
      PROVE  ProcPending(q)'
  <2>1. notify[q] = {}
    BY <1>7 DEF DeviceIsr, IntEnabled
  <2>2. WtiPending(q) => WtiPending(q)'
    BY <1>7, <2>1 DEF DeviceIsr, WtiPending, TypeOK
  <2>3. t[1] = q => WtiPending(q)'
    BY <1>7 DEF DeviceIsr, WtiPending, TypeOK
  <2>4. ASSUME NEW i \in 0 .. tasks[q] - 1
        PROVE  norun'[<<q, i>>] = norun[<<q, i>>] \/ WtiPending(q)'
    <3>1. <<q, i>> \in Task /\ norun' = [norun EXCEPT ![t] = @ \ {"IOC"}]
      BY <1>7, TaskPairs DEF DeviceIsr
    <3>2. CASE t = <<q, i>>
      BY <2>3, <3>2
    <3>3. CASE t # <<q, i>>
      BY <3>1, <3>3 DEF TypeOK
    <3> QED
      BY <3>2, <3>3
  <2> QED
    BY <1>1, <1>7, <2>2, <2>4, FramePending DEF DeviceIsr
<1>8. CASE TaskStep(q)
  <2>1. OnTask(q) /\ current[q] # IDLE_TASK_INDEX /\ tid[q] = 0
    BY <1>8, TaskStepOnTask, ProcTypes DEF OnTask
  <2>2. CASE \E at : CallSwitch(q, at) /\ UNCHANGED current
    BY <2>2, CallSwitchPending
  <2>3. CASE UNCHANGED <<current, tid>>
    BY <2>1, <2>3 DEF ProcPending
  <2> QED
    BY <1>8, <2>2, <2>3
    DEF TaskStep, SysCall, Start, ResumeFromIo, ExitSwitch, ResumeFromExit, SetSignal,
        Yield, BlockOnIo, ExitMark, Exception, KillApplication, ExecApplication
<1> QED
  BY <1>3, <1>4, <1>5, <1>6, <1>7, <1>8 DEF Step, Kernel, TaskStep

-----------------------------------------------------------------------------
(* Drivers that wait                                                       *)

\* Restarts on their way that only get fewer keep OnlyOnce.
LEMMA FewerRestarts ==
  ASSUME NEW t \in Task, OnlyOnce(t), "EXEC" \in sig'[t] => "EXEC" \in sig[t],
         \A u \in Task : \A i \in DOMAIN todo'[u] : ToSend(u, i, t)' => ToSend(u, i, t)
  PROVE  OnlyOnce(t)' /\ (Restarting(t)' => Restarting(t))
<1>1. \A u \in Task : \A i \in DOMAIN todo'[u] :
        ToSend(u, i, t)' => i \in DOMAIN todo[u] /\ ToSend(u, i, t)
  BY DEF ToSend
<1>2. OnlyOnce(t)'
  BY <1>1 DEF OnlyOnce
<1>3. Restarting(t)' => Restarting(t)
  BY <1>1 DEF Restarting
<1> QED
  BY <1>2, <1>3

\* The elements of the tail of a list are elements of the list.
LEMMA TailElements ==
  ASSUME NEW S, NEW s \in Seq(S), s # <<>>, NEW i \in DOMAIN Tail(s)
  PROVE  i + 1 \in DOMAIN s /\ Tail(s)[i] = s[i + 1] /\ i \in Nat
BY HeadTailProperties, LenProperties

\* A restart of a protected task is sent once, and only when the task is
\* stopped: what _sys_exec_application and the lists of signals do to OnlyOnce.
LEMMA RestartsStep ==
  ASSUME TypeOK, NEW q \in Procs, Step(q), NEW t \in Protected, OnlyOnce(t)
  PROVE  /\ OnlyOnce(t)'
         /\ Restarting(t)' =>
              \/ Restarting(t)
              \/ /\ "TASK" \in norun[t] /\ ~Executes(t)
                 /\ UNCHANGED <<current, norun>>
<1>0. t \in Task
  BY DEF Protected
<1>1. CASE UNCHANGED <<sig, todo>>
  BY <1>0, <1>1, FewerRestarts DEF ToSend
<1>2. CASE ScanKillAck(q) \/ ScanExecAck(q)
  <2>1. Cand(q) \in Task /\ UNCHANGED todo
    BY <1>2, CandTask DEF ScanKillAck, ScanExecAck
  <2>2. \E s : sig' = [sig EXCEPT ![Cand(q)] = @ \ {s}]
    BY <1>2 DEF ScanKillAck, ScanExecAck
  <2>3. "EXEC" \in sig'[t] => "EXEC" \in sig[t]
    BY <1>0, <2>1, <2>2 DEF TypeOK
  <2> QED
    BY <1>0, <2>1, <2>3, FewerRestarts DEF ToSend
<1>3. CASE \/ Start(q) \/ SetSignal(q)
           \/ \E a \in App : KillApplication(q, a) \/ ExecApplication(q, a)
  <2> DEFINE c == Cur(q)
  <2>1. c \in Task
    BY <1>3, TaskStepOnTask, CurTask DEF TaskStep, SysCall
  <2>2. todo \in [Task -> Seq({"KILL", "EXEC"} \X Task)] /\ sig \in [Task -> SUBSET {"KILL", "EXEC"}]
    BY DEF TypeOK
  <2> HIDE DEF c
  <2>3. ASSUME NEW new, todo' = [todo EXCEPT ![c] = new], NEW u \in Task, NEW i,
               ToSend(u, i, t)'
        PROVE  \/ u # c /\ ToSend(u, i, t)
               \/ u = c /\ i \in DOMAIN new /\ new[i] = <<"EXEC", t>>
    BY <2>1, <2>2, <2>3 DEF ToSend
  <2>4. CASE Start(q)
    <3>1. sig' = sig /\ todo' = [todo EXCEPT ![c] = <<>>]
      BY <2>4 DEF Start, c
    <3>2. ASSUME NEW u \in Task, NEW i, ToSend(u, i, t)'
          PROVE  ToSend(u, i, t)
      <4>1. DOMAIN <<>> = {}
        OBVIOUS
      <4> QED
        BY <2>3, <3>1, <3>2, <4>1
    <3> QED
      BY <1>0, <3>1, <3>2, FewerRestarts
  <2>5. ASSUME NEW a \in App, KillApplication(q, a)
        PROVE  OnlyOnce(t)' /\ (Restarting(t)' => Restarting(t))
    <3>1. sig' = sig /\ todo' = [todo EXCEPT ![c] = Signals("KILL", a)]
      BY <2>5 DEF KillApplication, c
    <3>2. \A i \in DOMAIN Signals("KILL", a) : Signals("KILL", a)[i] # <<"EXEC", t>>
      BY DEF Signals
    <3>3. \A u \in Task : \A i \in DOMAIN todo'[u] : ToSend(u, i, t)' => ToSend(u, i, t)
      BY <2>3, <3>1, <3>2
    <3> QED
      BY <1>0, <3>1, <3>3, FewerRestarts
  <2>6. CASE SetSignal(q)
    <3> DEFINE s == Head(todo[c])
    <3>1. /\ todo[c] # <<>> /\ todo[c] \in Seq({"KILL", "EXEC"} \X Task)
          /\ todo' = [todo EXCEPT ![c] = Tail(todo[c])]
          /\ sig' = [sig EXCEPT ![s[2]] = @ \cup {s[1]}]
          /\ s \in {"KILL", "EXEC"} \X Task
          /\ s = todo[c][1] /\ 1 \in DOMAIN todo[c]
      BY <2>1, <2>2, <2>6 DEF SetSignal, c
    <3> HIDE DEF s
    <3>2. "EXEC" \in sig'[t] => "EXEC" \in sig[t] \/ ToSend(c, 1, t)
      <4>1. CASE s[2] = t /\ s[1] = "EXEC"
        <5>1. s = <<"EXEC", t>>
          BY <3>1, <4>1
        <5> QED
          BY <3>1, <5>1 DEF ToSend
      <4>2. CASE s[2] # t \/ s[1] # "EXEC"
        BY <1>0, <2>2, <3>1, <4>2
      <4> QED
        BY <4>1, <4>2
    <3>3. ASSUME NEW u \in Task, NEW i, ToSend(u, i, t)'
          PROVE  \/ u # c /\ ToSend(u, i, t)
                 \/ u = c /\ i \in Nat /\ i # 0 /\ ToSend(c, i + 1, t)
      <4>1. CASE u # c
        BY <2>3, <3>1, <3>3, <4>1
      <4>2. CASE u = c
        <5>1. i \in DOMAIN Tail(todo[c]) /\ Tail(todo[c])[i] = <<"EXEC", t>>
          BY <2>3, <3>1, <3>3, <4>2
        <5>2. i \in 1 .. Len(Tail(todo[c]))
          BY <3>1, <5>1, HeadTailProperties, LenProperties
        <5> QED
          BY <3>1, <4>2, <5>1, <5>2, TailElements DEF ToSend
      <4> QED
        BY <4>1, <4>2
    <3>4. \A u, v \in Task : \A i, j :
            ToSend(u, i, t) /\ ToSend(v, j, t) => u = v /\ i = j /\ "EXEC" \notin sig[t]
      BY DEF OnlyOnce, ToSend
    <3>5. ASSUME NEW u \in Task, NEW v \in Task, NEW i, NEW j,
                 ToSend(u, i, t)', ToSend(v, j, t)'
          PROVE  u = v /\ i = j
      <4>1. CASE u = c /\ v = c
        <5>1. i \in Nat /\ j \in Nat /\ ToSend(c, i + 1, t) /\ ToSend(c, j + 1, t)
          BY <3>3, <3>5, <4>1
        <5>2. i + 1 = j + 1
          BY <2>1, <3>4, <5>1
        <5> QED
          BY <4>1, <5>1, <5>2
      <4>2. CASE u # c /\ v # c
        BY <3>3, <3>4, <3>5, <4>2
      <4>3. CASE u = c /\ v # c
        <5>1. ToSend(c, i + 1, t) /\ ToSend(v, j, t)
          BY <3>3, <3>5, <4>3
        <5> QED
          BY <2>1, <3>4, <4>3, <5>1
      <4>4. CASE u # c /\ v = c
        <5>1. ToSend(c, j + 1, t) /\ ToSend(u, i, t)
          BY <3>3, <3>5, <4>4
        <5> QED
          BY <2>1, <3>4, <4>4, <5>1
      <4> QED
        BY <4>1, <4>2, <4>3, <4>4
    <3>6. ASSUME NEW u \in Task, NEW i, ToSend(u, i, t)'
          PROVE  "EXEC" \notin sig'[t]
      <4>1. PICK k : ToSend(u, k, t) /\ (u = c => k # 1)
        BY <3>3, <3>6
      <4>2. "EXEC" \notin sig[t]
        BY <3>4, <4>1
      <4>3. ~ToSend(c, 1, t)
        BY <2>1, <3>4, <4>1
      <4> QED
        BY <3>2, <4>2, <4>3
    <3>7. OnlyOnce(t)'
      BY <3>5, <3>6 DEF OnlyOnce
    <3>8. Restarting(t)' => Restarting(t)
      <4>1. ASSUME NEW u \in Task, NEW i, ToSend(u, i, t)'
            PROVE  Restarting(t)
        BY <3>3, <4>1 DEF Restarting, ToSend
      <4>2. "EXEC" \in sig'[t] => Restarting(t)
        BY <2>1, <3>2 DEF Restarting, ToSend
      <4> QED
        BY <4>1, <4>2 DEF Restarting
    <3> QED
      BY <3>7, <3>8
  <2>7. ASSUME NEW a \in App, ExecApplication(q, a)
        PROVE  /\ OnlyOnce(t)'
               /\ Restarting(t)' =>
                    \/ Restarting(t)
                    \/ /\ "TASK" \in norun[t] /\ ~Executes(t)
                       /\ UNCHANGED <<current, norun>>
    <3>1. /\ sig' = sig /\ todo' = [todo EXCEPT ![c] = Signals("EXEC", a)]
          /\ UNCHANGED <<current, norun>>
      BY <2>7 DEF ExecApplication, c
    <3>2. \A i : i \in DOMAIN Signals("EXEC", a) /\ Signals("EXEC", a)[i] = <<"EXEC", t>>
                   => i \in DOMAIN Apps[a] /\ Apps[a][i] = t
      BY DEF Signals
    <3>3. CASE t \notin Members(a)
      <4>1. \A u \in Task : \A i \in DOMAIN todo'[u] : ToSend(u, i, t)' => ToSend(u, i, t)
        BY <2>3, <3>1, <3>2, <3>3 DEF Members
      <4> QED
        BY <1>0, <3>1, <4>1, FewerRestarts
    <3>4. CASE t \in Members(a)
      <4>1. Stopped(a)
        BY <2>7, <3>4 DEF ExecApplication, Protected
      <4>2. "TASK" \in norun[t] /\ sig[t] = {} /\ ~Executes(t) /\ ~Ordered(t)
        BY <3>4, <4>1 DEF Stopped, Executes
      <4>3. \A u \in Task : \A i : ~ToSend(u, i, t)
        BY <4>2 DEF Ordered, ToSend
      <4>4. \A u \in Task : \A i : ToSend(u, i, t)' =>
              u = c /\ i \in DOMAIN Apps[a] /\ Apps[a][i] = t
        BY <2>3, <3>1, <3>2, <4>3
      <4>5. \A i, j \in DOMAIN Apps[a] : Apps[a][i] = Apps[a][j] => i = j
        BY SchedulerAssumption
      <4>6. OnlyOnce(t)'
        BY <3>1, <4>2, <4>4, <4>5 DEF OnlyOnce
      <4> QED
        BY <3>1, <4>2, <4>6
    <3> QED
      BY <3>3, <3>4
  <2> QED
    BY <1>3, <2>4, <2>5, <2>6, <2>7
<1> QED
  BY <1>1, <1>2, <1>3
  DEF Step, Kernel, SysCall, Scan, ScanKill, ScanExec, ScanTest, Tick, Wakeup, DeviceIsr,
      SendWti, ResumeFromIo, ExitSwitch, ResumeFromExit, Yield, BlockOnIo, ExitMark,
      Exception

\* A restart on its way keeps finding its task stopped: only the scan that
\* executes the signal makes the task runnable, and no scan elects it before.
LEMMA MeetsStoppedStep ==
  ASSUME TypeOK, NEW q \in Procs, Step(q), NEW t \in Protected, OnlyOnce(t), MeetsStopped(t),
         mode[q] = "execAck" => "EXEC" \in sig[Cand(q)]
  PROVE  MeetsStopped(t)'
<1>1. t \in Task /\ t[1] \in Procs /\ t[2] \in 0 .. tasks[t[1]] - 1 /\ t = <<t[1], t[2]>>
  BY TaskPairs DEF Protected
<1>2. /\ norun \in [Task -> SUBSET {"TASK", "IOC"}]
      /\ current \in [Procs -> 0 .. IDLE_TASK_INDEX] /\ tasks[t[1]] \in 0 .. IDLE_TASK_INDEX
      /\ mode \in [Procs -> {"run"} \cup Scanning] /\ tid \in [Procs -> 0 .. IDLE_TASK_INDEX]
  BY <1>1, SchedulerAssumption DEF TypeOK, ProcTypeOK
<1> SUFFICES ASSUME Restarting(t)', Restarting(t)
             PROVE  /\ ~Executes(t)'
                    /\ "TASK" \in norun'[t] \/ (mode'[t[1]] = "execAck" /\ Cand(t[1])' = t)
  BY <1>1, RestartsStep DEF MeetsStopped, Executes
<1>3. /\ current[t[1]] # t[2]
      /\ "TASK" \in norun[t] \/ (mode[t[1]] = "execAck" /\ Cand(t[1]) = t)
  BY DEF MeetsStopped, Executes
<1>4. CASE t[1] # q
  <2>1. /\ UNCHANGED <<current[t[1]], mode[t[1]], tid[t[1]]>>
        /\ norun'[t] = norun[t] \/ norun'[t] = norun[t] \ {"IOC"}
    BY <1>1, <1>4, OthersKept
  <2> QED
    BY <1>3, <2>1 DEF Executes, Cand
<1>5. CASE t[1] = q
  <2>1. CASE ScanKill(q)
    <3>1. UNCHANGED current /\ mode[q] = "kill"
      BY <2>1 DEF ScanKill
    <3>2. norun' = norun \/ norun' = [norun EXCEPT ![Cand(q)] = @ \cup {"TASK"}]
      BY <2>1 DEF ScanKill
    <3>3. "TASK" \in norun'[t]
      BY <1>1, <1>2, <1>3, <1>5, <3>1, <3>2
    <3> QED
      BY <1>3, <3>1, <3>3 DEF Executes
  <2>2. CASE ScanExec(q)
    <3>1. UNCHANGED <<current, tid>> /\ mode[q] = "exec" /\ "TASK" \in norun[t]
      BY <1>3, <1>5, <2>2 DEF ScanExec
    <3>2. CASE norun' = norun
      BY <1>3, <3>1, <3>2 DEF Executes
    <3>3. CASE norun' = [norun EXCEPT ![Cand(q)] = {}] /\ mode' = [mode EXCEPT ![q] = "execAck"]
      <4>1. CASE Cand(q) = t
        BY <1>2, <1>3, <1>5, <3>1, <3>3, <4>1 DEF Executes, Cand
      <4>2. CASE Cand(q) # t
        BY <1>1, <1>2, <1>3, <3>1, <3>3, <4>2 DEF Executes
      <4> QED
        BY <4>1, <4>2
    <3> QED
      BY <2>2, <3>2, <3>3 DEF ScanExec
  <2>3. CASE ScanExecAck(q)
    <3>1. UNCHANGED <<current, norun, todo>> /\ mode[q] = "execAck"
          /\ sig' = [sig EXCEPT ![Cand(q)] = @ \ {"EXEC"}]
      BY <2>3 DEF ScanExecAck
    <3>2. CASE Cand(q) = t
      <4>1. "EXEC" \in sig[t] /\ "EXEC" \notin sig'[t]
        BY <1>1, <3>1, <3>2 DEF TypeOK
      <4>2. PICK u \in Task : \E i \in DOMAIN todo[u] : ToSend(u, i, t)
        BY <3>1, <4>1 DEF Restarting, ToSend
      <4> QED
        BY <4>1, <4>2 DEF OnlyOnce
    <3>3. CASE Cand(q) # t
      BY <1>3, <1>5, <3>1, <3>3 DEF Executes
    <3> QED
      BY <3>2, <3>3
  <2>4. CASE ScanTest(q)
    <3>1. norun' = norun /\ mode[q] = "test" /\ "TASK" \in norun[t]
      BY <1>3, <1>5, <2>4 DEF ScanTest
    <3>2. ASSUME NEW n, SwitchTo(q, n) PROVE current'[q] = n
      BY <1>2, <3>2 DEF SwitchTo
    <3>3. CASE norun[Cand(q)] = {} /\ SwitchTo(q, Cand(q)[2])
      <4>1. Cand(q) = <<q, Cand(q)[2]>>
        BY DEF Cand
      <4>2. Cand(q)[2] # t[2]
        BY <1>1, <1>5, <3>1, <3>3, <4>1
      <4> QED
        BY <1>5, <3>1, <3>2, <3>3, <4>2 DEF Executes
    <3>4. CASE SwitchTo(q, IDLE_TASK_INDEX)
      <4>1. t[2] # IDLE_TASK_INDEX
        BY <1>1, <1>2 DEF IDLE_TASK_INDEX
      <4> QED
        BY <1>5, <3>1, <3>2, <3>4, <4>1 DEF Executes
    <3>5. CASE UNCHANGED current
      BY <1>3, <3>1, <3>5 DEF Executes
    <3> QED
      BY <2>4, <3>3, <3>4, <3>5 DEF ScanTest
  <2>5. CASE TaskStep(q)
    <3>1. /\ OnTask(q) /\ UNCHANGED current
          /\ \/ norun' = norun
             \/ norun' = [norun EXCEPT ![Cur(q)] = @ \cup {"IOC"}]
             \/ norun' = [norun EXCEPT ![Cur(q)] = @ \cup {"TASK"}]
             \/ norun' = [norun EXCEPT ![Cur(q)] = {"TASK"}]
      BY <2>5, TaskStepOnTask
      DEF TaskStep, SysCall, Start, ResumeFromIo, ExitSwitch, ResumeFromExit, SetSignal,
          Yield, BlockOnIo, ExitMark, Exception, KillApplication, ExecApplication
    <3>2. Cur(q) # t
      BY <1>3, <1>5 DEF Cur
    <3>3. norun'[t] = norun[t]
      BY <1>1, <1>2, <3>1, <3>2
    <3> QED
      BY <1>3, <1>5, <3>1, <3>3 DEF Executes, OnTask
  <2>6. CASE Tick(q) \/ Wakeup(q)
    BY <1>3, <1>5, <2>6 DEF Tick, Wakeup, IntEnabled, Executes
  <2>7. CASE SendWti(q) \/ ScanKillAck(q)
    <3>1. UNCHANGED <<current, norun, tid>>
      BY <2>7 DEF SendWti, ScanKillAck
    <3>2. mode[q] = "execAck" => mode'[q] = "execAck"
      BY <2>7 DEF SendWti, ScanKillAck
    <3> QED
      BY <1>3, <1>5, <3>1, <3>2 DEF Executes, Cand
  <2>8. ASSUME NEW u \in Task, DeviceIsr(q, u)
        PROVE  current'[q] = current[q] /\ "TASK" \in norun'[t]
    <3>1. mode[q] = "run" /\ norun' = [norun EXCEPT ![u] = @ \ {"IOC"}] /\ UNCHANGED current
      BY <2>8 DEF DeviceIsr, IntEnabled
    <3>2. norun'[t] = norun[t] \/ norun'[t] = norun[t] \ {"IOC"}
      BY <1>1, <1>2, <3>1
    <3> QED
      BY <1>3, <1>5, <3>1, <3>2
  <2>9. CASE \E u \in Task : DeviceIsr(q, u)
    BY <1>3, <1>5, <2>8, <2>9 DEF Executes
  <2> QED
    BY <2>1, <2>2, <2>3, <2>4, <2>5, <2>6, <2>7, <2>9 DEF Step, Kernel, Scan, TaskStep
<1> QED
  BY <1>4, <1>5

\* While the transfer of a task is in flight, nothing but the scan that restarts
\* it removes its NORUN_MASK_IOC, hence nothing makes the driver return.
LEMMA WaitMarkedStep ==
  ASSUME TypeOK, NEW q \in Procs, Step(q), NEW t \in Protected, MeetsStopped(t), WaitMarked(t)
  PROVE  WaitMarked(t)'
<1>1. t \in Task /\ t[1] \in Procs /\ t[2] \in 0 .. tasks[t[1]] - 1 /\ t = <<t[1], t[2]>>
  BY TaskPairs DEF Protected
<1>2. /\ norun \in [Task -> SUBSET {"TASK", "IOC"}] /\ io \in [Task -> BOOLEAN]
      /\ ctx \in [Task -> At] /\ live \in [Procs -> At \cup {"idle"}]
      /\ current \in [Procs -> 0 .. IDLE_TASK_INDEX] /\ tasks[t[1]] \in 0 .. IDLE_TASK_INDEX
      /\ mode \in [Procs -> {"run"} \cup Scanning] /\ tid \in [Procs -> 0 .. IDLE_TASK_INDEX]
  BY <1>1, SchedulerAssumption DEF TypeOK, ProcTypeOK
<1>3. t[2] # IDLE_TASK_INDEX
  BY <1>1, <1>2 DEF IDLE_TASK_INDEX
<1> SUFFICES ASSUME Place(t)' = "wait", io'[t]
             PROVE  "IOC" \in norun'[t] /\ (Executes(t)' => mode'[t[1]] # "run")
  BY DEF WaitMarked
<1>4. ASSUME Place(t) = "wait", io[t]
      PROVE  "IOC" \in norun[t] /\ (Executes(t) => mode[t[1]] # "run")
  BY <1>4 DEF WaitMarked
<1>5. CASE Scan(q)
  <2>1. mode[q] # "run" /\ UNCHANGED io
    BY <1>5 DEF Scan, ScanKill, ScanKillAck, ScanExec, ScanExecAck, ScanTest
  <2>2. Cand(q) \in Task /\ Cand(q)[1] = q /\ Cand(q) = <<q, Cand(q)[2]>>
    BY <2>1, CandTask DEF Cand
  <2>3. CASE ScanKill(q) \/ ScanKillAck(q) \/ ScanExecAck(q)
    <3>1. UNCHANGED <<current, live, ctx>> /\ \E m \in Scanning : mode' = [mode EXCEPT ![q] = m]
      BY <2>3 DEF ScanKill, ScanKillAck, ScanExecAck, Scanning
    <3>2. norun' = norun \/ norun' = [norun EXCEPT ![Cand(q)] = @ \cup {"TASK"}]
      BY <2>3 DEF ScanKill, ScanKillAck, ScanExecAck
    <3>3. Place(t) = "wait" /\ Executes(t)' = Executes(t)
      BY <3>1 DEF Place, Executes
    <3>4. "IOC" \in norun[t] /\ (Executes(t) => mode[t[1]] # "run")
      BY <1>4, <2>1, <3>3
    <3>5. "IOC" \in norun'[t]
      BY <1>1, <1>2, <3>2, <3>4
    <3>6. mode[t[1]] # "run" => mode'[t[1]] # "run"
      BY <1>1, <1>2, <3>1 DEF Scanning
    <3> QED
      BY <3>3, <3>4, <3>5, <3>6
  <2>4. CASE ScanExec(q)
    <3>1. UNCHANGED <<current, live>> /\ mode'[q] # "run" /\ mode[q] = "exec"
          /\ \A p \in Procs \ {q} : mode'[p] = mode[p]
      BY <1>2, <2>4 DEF ScanExec
    <3>2. CASE Cand(q) = t /\ "EXEC" \in sig[t]
      <4>1. ~Executes(t) /\ ctx' = [ctx EXCEPT ![t] = "entry"]
        BY <2>4, <3>2 DEF MeetsStopped, Restarting, ScanExec
      <4>2. Place(t)' = "entry"
        BY <1>1, <1>2, <3>1, <4>1 DEF Place, Executes
      <4> QED
        BY <4>2
    <3>3. CASE Cand(q) # t \/ "EXEC" \notin sig[Cand(q)]
      <4>1. norun'[t] = norun[t] /\ ctx'[t] = ctx[t]
        BY <1>1, <1>2, <2>4, <3>3 DEF ScanExec
      <4>2. Place(t) = "wait" /\ Executes(t)' = Executes(t)
        BY <3>1, <4>1 DEF Place, Executes
      <4> QED
        BY <1>1, <1>4, <2>1, <3>1, <4>1, <4>2
    <3> QED
      BY <3>2, <3>3
  <2>5. CASE ScanTest(q)
    <3>1. norun' = norun
      BY <2>5 DEF ScanTest
    <3>2. ASSUME NEW n \in 0 .. IDLE_TASK_INDEX, SwitchTo(q, n),
                 n # IDLE_TASK_INDEX => norun[<<q, n>>] = {}
          PROVE  "IOC" \in norun[t] /\ (Executes(t)' => mode'[t[1]] # "run")
      <4>1. /\ mode' = [mode EXCEPT ![q] = "run"] /\ current' = [current EXCEPT ![q] = n]
            /\ n = current[q] => UNCHANGED <<live, ctx>>
            /\ n # current[q] =>
                 /\ live' = [live EXCEPT ![q] = IF n = IDLE_TASK_INDEX THEN "idle" ELSE ctx[<<q, n>>]]
                 /\ ctx' = IF current[q] = IDLE_TASK_INDEX THEN ctx
                                                           ELSE [ctx EXCEPT ![Cur(q)] = live[q]]
        BY <3>2 DEF SwitchTo
      <4>2. CASE t[1] # q
        <5>1. current'[t[1]] = current[t[1]] /\ live'[t[1]] = live[t[1]] /\ mode'[t[1]] = mode[t[1]]
          BY <1>1, <1>2, <4>1, <4>2
        <5>2. Cur(q) # t
          BY <4>2 DEF Cur
        <5>3. ctx'[t] = ctx[t]
          BY <1>1, <1>2, <4>1, <5>2
        <5>4. Place(t) = "wait" /\ Executes(t)' = Executes(t)
          BY <5>1, <5>3 DEF Place, Executes
        <5> QED
          BY <1>4, <2>1, <5>1, <5>4
      <4>3. CASE t[1] = q /\ t[2] = n
        <5>1. norun[t] = {}
          BY <1>1, <1>3, <3>2, <4>3
        <5>2. Place(t)' = Place(t)
          BY <1>1, <1>2, <1>3, <4>1, <4>3 DEF Place, Executes
        <5> QED
          BY <1>4, <2>1, <5>1, <5>2
      <4>4. CASE t[1] = q /\ t[2] # n
        <5>1. ~Executes(t)'
          BY <1>2, <4>1, <4>4 DEF Executes
        <5>2. Place(t)' = Place(t)
          <6>1. CASE current[q] = t[2]
            BY <1>1, <1>2, <1>3, <4>1, <4>4, <5>1, <6>1 DEF Place, Executes, Cur
          <6>2. CASE current[q] # t[2]
            BY <1>1, <1>2, <4>1, <4>4, <5>1, <6>2 DEF Place, Executes, Cur
          <6> QED
            BY <6>1, <6>2
        <5> QED
          BY <1>4, <2>1, <5>1, <5>2
      <4> QED
        BY <4>2, <4>3, <4>4
    <3>3. CASE norun[Cand(q)] = {} /\ SwitchTo(q, Cand(q)[2])
      <4>1. Cand(q)[2] \in 0 .. IDLE_TASK_INDEX
        <5>1. Cand(q)[2] \in 0 .. tasks[q] - 1 /\ tasks[q] \in 0 .. IDLE_TASK_INDEX
          BY <2>1, CandTask, SchedulerAssumption
        <5> QED
          BY <5>1 DEF IDLE_TASK_INDEX
      <4> QED
        BY <2>2, <3>1, <3>2, <3>3, <4>1
    <3>4. CASE SwitchTo(q, IDLE_TASK_INDEX)
      <4>1. IDLE_TASK_INDEX \in 0 .. IDLE_TASK_INDEX
        BY DEF IDLE_TASK_INDEX
      <4> QED
        BY <3>1, <3>2, <3>4, <4>1
    <3>5. CASE mode' = [mode EXCEPT ![q] = "kill"] /\ UNCHANGED <<current, live, ctx>>
      <4>1. Place(t) = "wait" /\ Executes(t)' = Executes(t)
        BY <3>5 DEF Place, Executes
      <4>2. mode[t[1]] # "run" => mode'[t[1]] # "run"
        BY <1>1, <1>2, <3>5
      <4> QED
        BY <1>4, <2>1, <3>1, <4>1, <4>2
    <3> QED
      BY <2>5, <3>3, <3>4, <3>5 DEF ScanTest
  <2> QED
    BY <1>5, <2>3, <2>4, <2>5 DEF Scan
<1>6. CASE Tick(q) \/ Wakeup(q)
  <2>1. /\ UNCHANGED <<current, ctx, norun, io, live>>
        /\ live[q] # "wait" /\ \A p \in Procs \ {q} : mode'[p] = mode[p]
    BY <1>2, <1>6 DEF Tick, Wakeup, IntEnabled, CallSwitch
  <2>2. Place(t) = "wait" /\ Executes(t)' = Executes(t) /\ (Executes(t) => t[1] # q)
    BY <2>1 DEF Place, Executes
  <2> QED
    BY <1>1, <1>4, <2>1, <2>2
<1>7. CASE SendWti(q)
  BY <1>4, <1>7 DEF SendWti, Place, Executes
<1>8. ASSUME NEW u \in Task, DeviceIsr(q, u)
      PROVE  "IOC" \in norun'[t] /\ (Executes(t)' => mode'[t[1]] # "run")
  <2>1. u # t
    BY <1>1, <1>2, <1>8 DEF DeviceIsr
  <2>2. norun'[t] = norun[t] /\ io'[t] = io[t]
    BY <1>1, <1>2, <1>8, <2>1 DEF DeviceIsr
  <2>3. UNCHANGED <<current, mode, live, ctx>>
    BY <1>8 DEF DeviceIsr
  <2> QED
    BY <1>4, <2>2, <2>3 DEF Place, Executes
<1>9. CASE TaskStep(q)
  <2>1. /\ OnTask(q) /\ Cur(q) \in Task /\ UNCHANGED <<current, ctx>>
        /\ tasks[q] # 0
    BY <1>9, TaskStepOnTask, CurTask
    DEF TaskStep, SysCall, Start, ResumeFromIo, ExitSwitch, ResumeFromExit, SetSignal,
        Yield, BlockOnIo, ExitMark, Exception, KillApplication, ExecApplication, IDLE_TASK_INDEX
  <2>2. CASE Cur(q) # t
    <3>1. t[1] = q => ~Executes(t)
      BY <1>1, <2>2 DEF Cur, Executes
    <3>2. /\ norun'[t] = norun[t] /\ io'[t] = io[t]
          /\ \A p \in Procs \ {q} : mode'[p] = mode[p] /\ live'[p] = live[p]
      BY <1>1, <1>2, <1>9, <2>1, <2>2
      DEF TaskStep, SysCall, Start, ResumeFromIo, ExitSwitch, ResumeFromExit, SetSignal,
          Yield, BlockOnIo, ExitMark, Exception, KillApplication, ExecApplication, CallSwitch
    <3>3. Place(t) = "wait" /\ Executes(t)' = Executes(t)
      BY <1>1, <2>1, <3>1, <3>2 DEF Place, Executes
    <3> QED
      BY <1>1, <1>4, <3>1, <3>2, <3>3
  <2>3. CASE Cur(q) = t
    <3>1. t[1] = q /\ Executes(t) /\ Executes(t)' /\ Place(t) = live[q] /\ Place(t)' = live'[q]
      BY <2>1, <2>3 DEF Cur, Executes, Place
    <3>2. CASE BlockOnIo(q)
      <4>1. norun' = [norun EXCEPT ![t] = @ \cup {"IOC"}] /\ mode'[q] = "kill"
        BY <2>1, <2>3, <3>2, CallSwitchScans DEF BlockOnIo
      <4> QED
        BY <1>1, <1>2, <3>1, <4>1
    <3>3. CASE Yield(q) \/ ExitSwitch(q) \/ Exception(q)
      <4>1. live'[q] # "wait"
        BY <1>2, <3>3 DEF Yield, ExitSwitch, Exception, CallSwitch
      <4> QED
        BY <3>1, <4>1
    <3>4. CASE Start(q) \/ ResumeFromIo(q) \/ ExitMark(q) \/ ResumeFromExit(q)
      <4>1. live'[q] # "wait"
        BY <1>2, <3>4 DEF Start, ResumeFromIo, ExitMark, ResumeFromExit
      <4> QED
        BY <3>1, <4>1
    <3>5. CASE SetSignal(q) \/ \E a \in App : KillApplication(q, a) \/ ExecApplication(q, a)
      <4>1. live' = live /\ live[q] = "user"
        BY <3>5 DEF SetSignal, KillApplication, ExecApplication, Free, InUser
      <4> QED
        BY <3>1, <4>1
    <3> QED
      BY <1>9, <3>2, <3>3, <3>4, <3>5 DEF TaskStep, SysCall
  <2> QED
    BY <2>2, <2>3
<1> QED
  BY <1>5, <1>6, <1>7, <1>8, <1>9 DEF Step, Kernel, TaskStep

\* The acknowledgement of an EXEC signal follows the signal.
LEMMA AckHasSignalStep ==
  ASSUME TypeOK, NEW q \in Procs, Step(q), NEW p \in Procs,
         mode[p] = "execAck" => "EXEC" \in sig[Cand(p)]
  PROVE  mode'[p] = "execAck" => "EXEC" \in sig'[Cand(p)']
<1> SUFFICES ASSUME mode'[p] = "execAck" PROVE "EXEC" \in sig'[Cand(p)']
  OBVIOUS
<1>1. CASE p = q /\ ScanExec(q)
  BY <1>1 DEF ScanExec, Cand, TypeOK, ProcTypeOK
<1>2. CASE ~(p = q /\ ScanExec(q))
  <2>1. mode[p] = "execAck" /\ Cand(p)' = Cand(p) /\ (p = q => SendWti(q))
    <3>1. CASE p # q
      BY <3>1, OthersKept DEF Cand
    <3>2. CASE p = q /\ Scan(q)
      BY <1>2, <3>2 DEF Scan, ScanKill, ScanKillAck, ScanExecAck, ScanTest, SwitchTo,
                        TypeOK, ProcTypeOK
    <3>3. CASE p = q /\ ~Scan(q)
      <4>1. CASE SendWti(q)
        BY <3>3, <4>1 DEF SendWti, Cand
      <4>2. CASE ~SendWti(q)
        BY <3>3, <4>2 DEF Step, Kernel, SysCall, Tick, Wakeup, DeviceIsr, Start, ResumeFromIo,
             ExitSwitch, ResumeFromExit, SetSignal, Yield, BlockOnIo, ExitMark, Exception,
             KillApplication, ExecApplication, Free, InUser, OnTask, IntEnabled, CallSwitch,
             TypeOK, ProcTypeOK
      <4> QED
        BY <4>1, <4>2
    <3> QED
      BY <3>1, <3>2, <3>3
  <2>2. Cand(p) \in Task /\ Cand(p)[1] = p /\ "EXEC" \in sig[Cand(p)]
    BY <2>1, CandTask
  <2>3. CASE ScanKillAck(q) \/ ScanExecAck(q)
    <3>1. p # q /\ mode[q] # "run"
      BY <2>1, <2>3 DEF ScanKillAck, ScanExecAck, TypeOK, ProcTypeOK
    <3>2. Cand(q) # Cand(p)
      BY <2>2, <3>1, CandTask
    <3> QED
      BY <2>1, <2>2, <2>3, <3>2 DEF ScanKillAck, ScanExecAck, TypeOK
  <2>4. CASE SetSignal(q)
    BY <2>1, <2>2, <2>4 DEF SetSignal, TypeOK
  <2>5. CASE UNCHANGED sig
    BY <2>1, <2>2, <2>5
  <2> QED
    BY <2>3, <2>4, <2>5
    DEF Step, Kernel, SysCall, Scan, ScanKill, ScanExec, ScanTest, Tick, Wakeup, DeviceIsr,
        SendWti, Start, ResumeFromIo, ExitSwitch, ResumeFromExit, Yield, BlockOnIo, ExitMark,
        Exception, KillApplication, ExecApplication
<1> QED
  BY <1>1, <1>2

\* The rule of the restarts and the marks of the drivers that wait, together.
LEMMA WaitStep ==
  ASSUME TypeOK, WaitInv, [Next]_vars
  PROVE  WaitInv'
<1>1. ASSUME NEW q \in Procs, Step(q)
      PROVE  WaitInv'
  <2>1. ASSUME NEW p \in Procs, mode'[p] = "execAck"
        PROVE  "EXEC" \in sig'[Cand(p)']
    BY <1>1, <2>1, AckHasSignalStep DEF WaitInv
  <2>2. ASSUME NEW t \in Protected
        PROVE  MeetsStopped(t)' /\ OnlyOnce(t)' /\ WaitMarked(t)'
    BY <1>1, RestartsStep, MeetsStoppedStep, WaitMarkedStep DEF WaitInv
  <2>3. Protected' = Protected
    BY DEF Protected, Members
  <2> QED
    BY <2>1, <2>2, <2>3 DEF WaitInv
<1>2. CASE UNCHANGED vars
  BY <1>2 DEF vars, WaitInv, Protected, Members, MeetsStopped, OnlyOnce, WaitMarked, Restarting,
              ToSend, Executes, Place, Cand
<1> QED
  BY <1>1, <1>2, NextStep

-----------------------------------------------------------------------------
(* The initial states                                                      *)

LEMMA InitInvariant ==
  ASSUME Init
  PROVE  IInv
<1> DEFINE Ready(p) == {i \in 0 .. tasks[p] - 1 : norun[<<p, i>>] = {}}
<1>1. norun \in [Task -> SUBSET {"TASK", "IOC"}] /\ \A t \in Task : "IOC" \notin norun[t]
  BY DEF Init
<1>2. ASSUME NEW p \in Procs
      PROVE  \/ Ready(p) = {} /\ current[p] = IDLE_TASK_INDEX
             \/ current[p] \in Ready(p)
  <2>1. CASE Ready(p) = {}
    BY <2>1 DEF Init
  <2>2. CASE Ready(p) # {}
    <3>1. Ready(p) \in SUBSET Nat
      BY SchedulerAssumption, SMT
    <3>2. \E i \in Ready(p) : \A j \in Ready(p) : i <= j
      BY <2>2, <3>1, FirstIndex
    <3>3. current[p] = CHOOSE i \in Ready(p) : \A j \in Ready(p) : i <= j
      BY <2>2 DEF Init
    <3> QED
      BY <3>2, <3>3
  <2> QED
    BY <2>1, <2>2
<1>3. ASSUME NEW p \in Procs
      PROVE  /\ tasks[p] \in 0 .. IDLE_TASK_INDEX
             /\ current[p] \in 0 .. IDLE_TASK_INDEX
             /\ current[p] # IDLE_TASK_INDEX => current[p] < tasks[p]
  <2>1. tasks[p] \in 0 .. IDLE_TASK_INDEX
    BY SchedulerAssumption
  <2>2. CASE current[p] = IDLE_TASK_INDEX
    BY <2>1, <2>2 DEF IDLE_TASK_INDEX
  <2>3. CASE current[p] \in 0 .. tasks[p] - 1
    BY <2>1, <2>3 DEF IDLE_TASK_INDEX
  <2> QED
    BY <1>2, <2>1, <2>2, <2>3
<1>4. /\ \A p \in Procs : mode[p] = "run" /\ tid[p] = 0
      /\ live = [p \in Procs |-> IF current[p] = IDLE_TASK_INDEX THEN "idle" ELSE "entry"]
  BY DEF Init
<1>5. ProcTypeOK
  <2>1. current \in [Procs -> 0 .. IDLE_TASK_INDEX]
    BY <1>3 DEF Init
  <2>2. mode \in [Procs -> {"run"} \cup Scanning] /\ tid \in [Procs -> 0 .. IDLE_TASK_INDEX]
    BY DEF Init, IDLE_TASK_INDEX
  <2> QED
    BY <1>3, <1>4, <2>1, <2>2 DEF ProcTypeOK, At
<1>6. TypeOK
  BY <1>1, <1>5 DEF TypeOK, Init, At
<1>7. NoLostWakeup
  BY <1>1 DEF NoLostWakeup
<1>8. StoppedDoesNotRun
  <2>1. ASSUME NEW p \in Procs, OnTask(p)
        PROVE  norun[Cur(p)] = {}
    BY <1>2, <2>1 DEF OnTask, Cur
  <2> QED
    BY <2>1 DEF StoppedDoesNotRun
<1>9. WakeupPending
  <2>1. ASSUME NEW p \in Procs, current[p] = IDLE_TASK_INDEX
        PROVE  Ready(p) = {}
    <3>1. IDLE_TASK_INDEX \notin 0 .. tasks[p] - 1
      BY <1>3 DEF IDLE_TASK_INDEX
    <3> QED
      BY <1>2, <2>1, <3>1
  <2> QED
    BY <2>1 DEF WakeupPending
<1>10. PassedNotRunnable
  BY <1>4 DEF PassedNotRunnable
<1> QED
  BY <1>6, <1>7, <1>8, <1>9, <1>10 DEF IInv

-----------------------------------------------------------------------------
(* The theorems                                                            *)

\* The invariant of the schedulers: every interleaving of scans, interrupts,
\* transfers, kills and restarts, on any number of processors, keeps it.
THEOREM SchedulerInvariant == Spec => []IInv
<1>1. Init => IInv
  BY InitInvariant
<1>2. IInv /\ [Next]_vars => IInv'
  <2> SUFFICES ASSUME IInv, [Next]_vars
               PROVE  IInv'
    OBVIOUS
  <2>1. TypeOK'
    BY TypeStep DEF IInv
  <2>2. ASSUME NEW q \in Procs, Step(q)
        PROVE  NoLostWakeup' /\ StoppedDoesNotRun' /\ WakeupPending' /\ PassedNotRunnable'
    BY <2>2, NoLostWakeupStep, StoppedStep, PendingStep DEF IInv
  <2>3. CASE UNCHANGED vars
    BY <2>1, <2>3 DEF vars, IInv, NoLostWakeup, StoppedDoesNotRun, WakeupPending,
                      PassedNotRunnable, WtiPending, OnTask, Cur
  <2> QED
    BY <2>1, <2>2, <2>3, NextStep DEF IInv
<1> QED
  BY <1>1, <1>2, PTL DEF Spec

\* The scheduler slots have their types: current is a task of the processor or
\* the idle task, and next_task_id never leaves the context array.
THEOREM TypeCorrect == Spec => []TypeOK
<1>1. IInv => TypeOK
  BY DEF IInv
<1> QED
  BY <1>1, SchedulerInvariant, PTL

\* A task marked NORUN_MASK_IOC has a transfer in flight, whose ISR will clear
\* the mark.
THEOREM NoLostWakeupHolds == Spec => []NoLostWakeup
<1>1. IInv => NoLostWakeup
  BY DEF IInv
<1> QED
  BY <1>1, SchedulerInvariant, PTL

\* A task that exited, was killed or took an exception is off the processors.
THEOREM StoppedDoesNotRunHolds == Spec => []StoppedDoesNotRun
<1>1. IInv => StoppedDoesNotRun
  BY DEF IInv
<1> QED
  BY <1>1, SchedulerInvariant, PTL

\* The idle task never runs with a runnable task beside it and nothing to end it.
THEOREM WakeupPendingHolds == Spec => []WakeupPending
<1>1. IInv => WakeupPending
  BY DEF IInv
<1> QED
  BY <1>1, SchedulerInvariant, PTL

\* WaitInv in every reachable state.
THEOREM WaitInvariant == Spec => []WaitInv
<1>1. Init => WaitInv
  <2> SUFFICES ASSUME Init PROVE WaitInv
    OBVIOUS
  <2>1. /\ \A t \in Task : sig[t] = {} /\ todo[t] = <<>> /\ ~io[t]
        /\ \A p \in Procs : mode[p] = "run"
    BY DEF Init
  <2>2. ASSUME NEW t \in Task, NEW u \in Task, NEW i \in DOMAIN todo[u]
        PROVE  FALSE
    <3>1. DOMAIN <<>> = {}
      OBVIOUS
    <3> QED
      BY <2>1, <2>2, <3>1
  <2> QED
    BY <2>1, <2>2 DEF WaitInv, Protected, MeetsStopped, OnlyOnce, WaitMarked, Restarting
<1>2. TypeOK /\ WaitInv /\ [Next]_vars => WaitInv'
  BY WaitStep
<1> QED
  BY <1>1, <1>2, TypeCorrect, PTL DEF Spec

\* A driver call returns after the completion of its transfer: on no processor
\* does a task leave _bdv_access, _hba_access or _sdc_access while the device
\* still works for it, unless its application is restarted while it runs.
THEOREM WaitHonouredHolds == Spec => []WaitHonouredUnlessRestarted
<1>1. TypeOK /\ WaitInv => WaitHonouredUnlessRestarted
  <2> SUFFICES ASSUME TypeOK, WaitInv, NEW p \in Procs, OnTask(p), live[p] = "wait", io[Cur(p)],
                      Cur(p) \in Protected
               PROVE  FALSE
    BY CurTask DEF WaitHonouredUnlessRestarted, Protected, OnTask
  <2>1. Executes(Cur(p)) /\ Place(Cur(p)) = "wait" /\ Cur(p)[1] = p
    BY DEF Executes, Place, Cur
  <2> QED
    BY <2>1 DEF WaitInv, WaitMarked, OnTask
<1> QED
  BY <1>1, TypeCorrect, WaitInvariant, PTL

-----------------------------------------------------------------------------
(* The terminals, the buffers and the start of the kernel                  *)

\* The modules that prove about them, with the constants of MCKernel.
TtyP == INSTANCE TerminalsProofs
  WITH Tasks <- TtyTasks, Proc <- TtyProc, App <- TtyApp, Shared <- TtyShared,
       NbChannels <- TtyChannels, Boxes <- TtyBoxes, Keys <- TtyKeys,
       Overlap <- FALSE, TypeAhead <- FALSE,
       ttyChannel <- x1, owned <- x2, wtiAlloc <- x3, wtiVector <- x4,
       route <- x5, rxBuf <- x6, rxFull <- x7, typed <- x8, unread <- x9,
       got <- x10, pc <- x11, chan <- x12, isr <- x13

DmaP == INSTANCE DmaProofs
  WITH N <- NbBuffers, NbLines <- BufferLines, Numbers <- NbContents, Ahead <- FALSE,
       use <- x1, ram <- x2, l2 <- x3, dirty <- x4, pc <- x5, n <- x6,
       line <- x7, user <- x8, moved <- x9, cma <- x10, device <- x11

BootsP == INSTANCE StartupProofs
  WITH Clusters <- 2, NbProcs <- 2, Spaces <- 3, ActiveSpaces <- {1, 2},
       Tasks <- << StartTask(0, 0, 0), StartTask(0, 1, 0), StartTask(1, 0, 0),
                   StartTask(1, 0, 1), StartTask(2, 1, 0) >>,
       Irqs <- [c \in {0, 1} |-> IF c = 0 THEN <<"BDV", "MMC", "DMA">> ELSE <<"MMC">>],
       Segments <- << StartSeg(0, 0), StartSeg(0, 1), StartSeg(1, 0), StartSeg(2, 0),
                      StartSeg(2, 1), StartSeg(3, 1) >>,
       phase <- x1, done <- x2, psched <- x3, ltid <- x4, mask <- x5,
       buffer <- x6, loaded <- x7, globals <- x8, released <- x9,
       schedulers <- x10, timers <- x11, epc <- x12

\* The modules of the proofs have the terminals and the buffers of the kernel.
LEMMA SameTerminals ==
  /\ TtyP!TerminalsAssumption /\ TtyP!OneProcessor
  /\ Tty!Init => TtyP!Init
  /\ Tty!Next => TtyP!Next
  /\ TtyP!TypeOK => Tty!TypeOK
  /\ TtyP!OwnedIsRouted => Tty!OwnedIsRouted
  /\ TtyP!BoxesAreUsed => Tty!BoxesAreUsed
  /\ TtyP!KeysInOrder => Tty!KeysInOrder
<1>1. /\ Tty!Channels = TtyP!Channels /\ Tty!None = TtyP!None /\ Tty!Masked = TtyP!Masked
      /\ Tty!Processors = TtyP!Processors
      /\ \A t : Tty!Members(t) = TtyP!Members(t)
      /\ \A t : Tty!Allocating(t) <=> TtyP!Allocating(t)
      /\ \A t : Tty!Releasing(t) <=> TtyP!Releasing(t)
      /\ \A t, place : Tty!Goto(t, place) <=> TtyP!Goto(t, place)
  BY DEF Tty!Channels, TtyP!Channels, Tty!None, TtyP!None, Tty!Masked, TtyP!Masked,
         Tty!Processors, TtyP!Processors, Tty!Members, TtyP!Members, Tty!Allocating,
         TtyP!Allocating, Tty!Releasing, TtyP!Releasing, Tty!Goto, TtyP!Goto
<1>2. \A t : Tty!Runs(t) <=> TtyP!Runs(t)
  BY <1>1 DEF Tty!Runs, TtyP!Runs
<1>3. TtyP!TerminalsAssumption /\ TtyP!OneProcessor
  BY KernelAssumption
     DEF Tty!TerminalsAssumption, TtyP!TerminalsAssumption, Tty!OneProcessor, TtyP!OneProcessor
<1>4. Tty!Init => TtyP!Init
  BY <1>1 DEF Tty!Init, TtyP!Init
<1>5. ASSUME NEW t \in TtyTasks, Tty!Step(t)
      PROVE  TtyP!Step(t)
  <2>1. Tty!Alloc(t) => TtyP!Alloc(t)
    BY <1>1 DEF Tty!Alloc, TtyP!Alloc, Tty!routing, TtyP!routing, Tty!input, TtyP!input
  <2>2. Tty!ScanBusy(t) => TtyP!ScanBusy(t)
    BY <1>1 DEF Tty!ScanBusy, TtyP!ScanBusy, Tty!routing, TtyP!routing, Tty!input, TtyP!input
  <2>3. Tty!ScanFree(t) => TtyP!ScanFree(t)
    BY <1>1 DEF Tty!ScanFree, TtyP!ScanFree, Tty!routing, TtyP!routing, Tty!input, TtyP!input
  <2>4. Tty!SetChannel(t) => TtyP!SetChannel(t)
    BY <1>1 DEF Tty!SetChannel, TtyP!SetChannel, Tty!routing, TtyP!routing
  <2>5. Tty!TakeBox(t) => TtyP!TakeBox(t)
    BY <1>1 DEF Tty!TakeBox, TtyP!TakeBox, Tty!input, TtyP!input
  <2>6. Tty!SetVector(t) => TtyP!SetVector(t)
    BY <1>1 DEF Tty!SetVector, TtyP!SetVector, Tty!input, TtyP!input
  <2>7. Tty!Share(t) => TtyP!Share(t)
    BY <1>1 DEF Tty!Share, TtyP!Share, Tty!routing, TtyP!routing, Tty!input, TtyP!input
  <2>8. Tty!Kill(t) => TtyP!Kill(t)
    BY <1>1 DEF Tty!Kill, TtyP!Kill, Tty!routing, TtyP!routing, Tty!input, TtyP!input
  <2>9. Tty!ReleaseIrq(t) => TtyP!ReleaseIrq(t)
    BY <1>1 DEF Tty!ReleaseIrq, TtyP!ReleaseIrq, Tty!input, TtyP!input
  <2>10. Tty!Forget(t) => TtyP!Forget(t)
    BY <1>1 DEF Tty!Forget, TtyP!Forget, Tty!routing, TtyP!routing, Tty!input, TtyP!input
  <2>11. Tty!FreeChannel(t) => TtyP!FreeChannel(t)
    BY <1>1 DEF Tty!FreeChannel, TtyP!FreeChannel, Tty!routing, TtyP!routing, Tty!input, TtyP!input
  <2>12. Tty!Exec(t) => TtyP!Exec(t)
    BY <1>1 DEF Tty!Exec, TtyP!Exec, Tty!routing, TtyP!routing, Tty!input, TtyP!input
  <2>13. Tty!Read(t) => TtyP!Read(t)
    BY <1>1 DEF Tty!Read, TtyP!Read, Tty!routing, TtyP!routing
  <2>14. Tty!ReadDone(t) => TtyP!ReadDone(t)
    BY <1>1 DEF Tty!ReadDone, TtyP!ReadDone, Tty!routing, TtyP!routing
  <2> QED
    BY <1>2, <1>5, <2>1, <2>2, <2>3, <2>4, <2>5, <2>6, <2>7, <2>8, <2>9, <2>10, <2>11, <2>12,
       <2>13, <2>14 DEF Tty!Step, TtyP!Step
<1>6. \A c \in Tty!Channels : Tty!Type(c) => TtyP!Type(c)
  BY <1>1 DEF Tty!Type, TtyP!Type, Tty!routing, TtyP!routing
<1>7. \A p : (Tty!IsrRead(p) => TtyP!IsrRead(p)) /\ (Tty!IsrFull(p) => TtyP!IsrFull(p))
  BY <1>1 DEF Tty!IsrRead, TtyP!IsrRead, Tty!IsrFull, TtyP!IsrFull, Tty!routing, TtyP!routing
<1>8. Tty!Next => TtyP!Next
  BY <1>1, <1>5, <1>6, <1>7 DEF Tty!Next, TtyP!Next
<1>9. TtyP!TypeOK => Tty!TypeOK
  BY <1>1 DEF Tty!TypeOK, TtyP!TypeOK
<1>10. TtyP!OwnedIsRouted => Tty!OwnedIsRouted
  BY <1>1 DEF Tty!OwnedIsRouted, TtyP!OwnedIsRouted, Tty!Routed, TtyP!Routed
<1>11. (TtyP!BoxesAreUsed => Tty!BoxesAreUsed) /\ (TtyP!KeysInOrder => Tty!KeysInOrder)
  BY <1>1 DEF Tty!BoxesAreUsed, TtyP!BoxesAreUsed, Tty!KeysInOrder, TtyP!KeysInOrder
<1> QED
  BY <1>3, <1>4, <1>8, <1>9, <1>10, <1>11

LEMMA SameBuffers ==
  /\ DmaP!DmaAssumption
  /\ Dma!Init => DmaP!Init
  /\ Dma!Next => DmaP!Next
  /\ DmaP!TypeOK => Dma!TypeOK
  /\ DmaP!MovedInOrder => Dma!MovedInOrder
<1>1. /\ Dma!Buffer = DmaP!Buffer /\ Dma!Lines = DmaP!Lines /\ Dma!Number = DmaP!Number
      /\ Dma!Absent = DmaP!Absent
      /\ \A b : Dma!Status(b) = DmaP!Status(b) /\ Dma!Full(b) = DmaP!Full(b)
      /\ \A b, place : Dma!Goto(b, place) <=> DmaP!Goto(b, place)
  BY DEF Dma!Buffer, DmaP!Buffer, Dma!Lines, DmaP!Lines, Dma!Number, DmaP!Number,
         Dma!Absent, DmaP!Absent, Dma!Status, DmaP!Status, Dma!Full, DmaP!Full,
         Dma!Goto, DmaP!Goto
<1>2. /\ Dma!FbfStatus = DmaP!FbfStatus
      /\ \A b : Dma!Content(b) = DmaP!Content(b) /\ Dma!Ready(b) = DmaP!Ready(b)
      /\ \A c : Dma!Read(c) = DmaP!Read(c)
      /\ \A c, v : Dma!Write(c, v) <=> DmaP!Write(c, v)
  BY <1>1 DEF Dma!FbfStatus, DmaP!FbfStatus, Dma!Content, DmaP!Content, Dma!Ready,
              DmaP!Ready, Dma!Read, DmaP!Read, Dma!Write, DmaP!Write
<1>3. Dma!Cells = DmaP!Cells
  BY <1>1, <1>2 DEF Dma!Cells, DmaP!Cells
<1>4. \A C : Dma!Synced(C) = DmaP!Synced(C) /\ Dma!Forgotten(C) = DmaP!Forgotten(C)
  BY <1>1, <1>3 DEF Dma!Synced, DmaP!Synced, Dma!Forgotten, DmaP!Forgotten
<1>5. \A C : (Dma!Sync(C) <=> DmaP!Sync(C)) /\ (Dma!Inval(C) <=> DmaP!Inval(C))
  BY <1>4 DEF Dma!Sync, DmaP!Sync, Dma!Inval, DmaP!Inval
<1>6. DmaP!DmaAssumption
  BY KernelAssumption DEF Dma!DmaAssumption, DmaP!DmaAssumption
<1>7. Dma!Init => DmaP!Init
  BY <1>1, <1>3 DEF Dma!Init, DmaP!Init
<1>8. ASSUME NEW b \in Dma!Buffer, Dma!Step(b)
      PROVE  DmaP!Step(b)
  <2>1. Dma!Call(b) => DmaP!Call(b)
    BY <1>1, <1>2, <1>5 DEF Dma!Call, DmaP!Call, Dma!memory, DmaP!memory,
                            Dma!dma, DmaP!dma
  <2>2. Dma!Poll(b) => DmaP!Poll(b)
    BY <1>1, <1>2, <1>5 DEF Dma!Poll, DmaP!Poll, Dma!memory, DmaP!memory,
                            Dma!dma, DmaP!dma
  <2>3. Dma!InvalBuffer(b) => DmaP!InvalBuffer(b)
    BY <1>1, <1>2, <1>5 DEF Dma!InvalBuffer, DmaP!InvalBuffer, Dma!memory, DmaP!memory,
                            Dma!dma, DmaP!dma
  <2>4. Dma!Copy(b) => DmaP!Copy(b)
    BY <1>1, <1>2, <1>5 DEF Dma!Copy, DmaP!Copy, Dma!memory, DmaP!memory,
                            Dma!dma, DmaP!dma
  <2>5. Dma!SyncBuffer(b) => DmaP!SyncBuffer(b)
    BY <1>1, <1>2, <1>5 DEF Dma!SyncBuffer, DmaP!SyncBuffer, Dma!memory, DmaP!memory,
                            Dma!dma, DmaP!dma
  <2>6. Dma!WriteStatus(b) => DmaP!WriteStatus(b)
    BY <1>1, <1>2, <1>5 DEF Dma!WriteStatus, DmaP!WriteStatus, Dma!memory, DmaP!memory,
                            Dma!dma, DmaP!dma
  <2>7. Dma!WriteFbfStatus(b) => DmaP!WriteFbfStatus(b)
    BY <1>1, <1>2, <1>5 DEF Dma!WriteFbfStatus, DmaP!WriteFbfStatus, Dma!memory, DmaP!memory,
                            Dma!dma, DmaP!dma
  <2>8. Dma!Return(b) => DmaP!Return(b)
    BY <1>1, <1>2, <1>5 DEF Dma!Return, DmaP!Return, Dma!memory, DmaP!memory,
                            Dma!dma, DmaP!dma
  <2> QED
    BY <1>8, <2>1, <2>2, <2>3, <2>4, <2>5, <2>6, <2>7, <2>8 DEF Dma!Step, DmaP!Step
<1>9. \A c : Dma!Evict(c) => DmaP!Evict(c)
  BY <1>1, <1>4 DEF Dma!Evict, DmaP!Evict, Dma!task, DmaP!task, Dma!dma, DmaP!dma
<1>10. Dma!Cma => DmaP!Cma
  <2>1. Dma!CmaPoll => DmaP!CmaPoll
    BY <1>1, <1>2 DEF Dma!CmaPoll, DmaP!CmaPoll, Dma!memory, DmaP!memory, Dma!task, DmaP!task
  <2>2. Dma!CmaMove => DmaP!CmaMove
    BY <1>1, <1>2 DEF Dma!CmaMove, DmaP!CmaMove, Dma!task, DmaP!task
  <2>3. Dma!CmaDone => DmaP!CmaDone
    BY <1>1, <1>2 DEF Dma!CmaDone, DmaP!CmaDone, Dma!task, DmaP!task
  <2> QED
    BY <2>1, <2>2, <2>3 DEF Dma!Cma, DmaP!Cma
<1>11. Dma!Next => DmaP!Next
  BY <1>1, <1>3, <1>8, <1>9, <1>10 DEF Dma!Next, DmaP!Next
<1>12. DmaP!TypeOK => Dma!TypeOK
  BY <1>1, <1>3 DEF Dma!TypeOK, DmaP!TypeOK
<1>13. DmaP!MovedInOrder => Dma!MovedInOrder
  BY <1>1 DEF Dma!MovedInOrder, DmaP!MovedInOrder
<1> QED
  BY <1>6, <1>7, <1>11, <1>12, <1>13

\* The module that proves about the start has that of the kernel.
LEMMA SameStartup ==
  /\ BootsP!StartupAssumption /\ BootsP!OneActiveTask
  /\ Boots!Init => BootsP!Init
  /\ Boots!Next => BootsP!Next
  /\ BootsP!TypeOK => Boots!TypeOK
  /\ BootsP!StartsInOrder => Boots!StartsInOrder
  /\ BootsP!IrqsRouted => Boots!IrqsRouted
  /\ BootsP!BootsIntoScheduler => Boots!BootsIntoScheduler
<1>1. /\ \A S : Boots!Cardinality(S) = BootsP!Cardinality(S)
      /\ \A S : Boots!Min(S) = BootsP!Min(S)
      /\ \A s : Boots!IsInjective(s) <=> BootsP!IsInjective(s)
  BY DEF Boots!Cardinality, BootsP!Cardinality, Boots!Min, BootsP!Min,
      Boots!IsInjective, BootsP!IsInjective
<1>2. \A S, i : Boots!Rank(S, i) = BootsP!Rank(S, i)
  BY <1>1 DEF Boots!Rank, BootsP!Rank
<1>3. \A S : Boots!InOrder(S) = BootsP!InOrder(S)
  BY <1>1, <1>2 DEF Boots!InOrder, BootsP!InOrder
<1>4. /\ Boots!Proc = BootsP!Proc
      /\ Boots!First = BootsP!First
      /\ Boots!Files = BootsP!Files
      /\ Boots!IDLE_TASK_INDEX = BootsP!IDLE_TASK_INDEX
      /\ Boots!Boxes = BootsP!Boxes
      /\ Boots!NoContext = BootsP!NoContext
      /\ Boots!Structures = BootsP!Structures
      /\ \A p : Boots!Leader(p) <=> BootsP!Leader(p)
      /\ \A p : Boots!OnProc(p) = BootsP!OnProc(p)
      /\ \A v : Boots!OfSpace(v) = BootsP!OfSpace(v)
      /\ \A p : Boots!HwiOf(p) = BootsP!HwiOf(p)
  BY DEF Boots!Proc, BootsP!Proc, Boots!First, BootsP!First, Boots!Files, BootsP!Files,
      Boots!IDLE_TASK_INDEX, BootsP!IDLE_TASK_INDEX, Boots!Boxes, BootsP!Boxes,
      Boots!NoContext, BootsP!NoContext, Boots!Structures, BootsP!Structures,
      Boots!Leader, BootsP!Leader, Boots!OnProc, BootsP!OnProc,
      Boots!OfSpace, BootsP!OfSpace, Boots!HwiOf, BootsP!HwiOf
<1>5. /\ Boots!Leaders = BootsP!Leaders
      /\ \A c : Boots!ProcsOf(c) = BootsP!ProcsOf(c)
      /\ Boots!Others = BootsP!Others
      /\ \A p : Boots!TasksOf(p) = BootsP!TasksOf(p)
      /\ \A i : Boots!LtidOf(i) = BootsP!LtidOf(i)
      /\ Boots!NoScheduler = BootsP!NoScheduler
      /\ Boots!BootEnd = BootsP!BootEnd
      /\ \A i : Boots!Context(i) = BootsP!Context(i)
  BY <1>1, <1>2, <1>3, <1>4 DEF Boots!Leaders, BootsP!Leaders,
      Boots!ProcsOf, BootsP!ProcsOf, Boots!Others, BootsP!Others,
      Boots!TasksOf, BootsP!TasksOf, Boots!LtidOf, BootsP!LtidOf,
      Boots!NoScheduler, BootsP!NoScheduler, Boots!BootEnd, BootsP!BootEnd,
      Boots!Context, BootsP!Context
<1>6. /\ Boots!WakePhase = BootsP!WakePhase
      /\ Boots!KernelPhase = BootsP!KernelPhase
  BY <1>5 DEF Boots!WakePhase, BootsP!WakePhase, Boots!KernelPhase, BootsP!KernelPhase
<1>7. /\ Boots!User = BootsP!User
      /\ \A p : Boots!InKernel(p) <=> BootsP!InKernel(p)
      /\ \A p, k : Boots!Passed(p, k) <=> BootsP!Passed(p, k)
      /\ \A p, k : Boots!Working(p, k) <=> BootsP!Working(p, k)
      /\ \A p : Boots!Finish(p) <=> BootsP!Finish(p)
      /\ \A p : Boots!LoadPhase(p) <=> BootsP!LoadPhase(p)
      /\ \A p : Boots!CopyPhase(p) <=> BootsP!CopyPhase(p)
      /\ \A p : Boots!File(p) = BootsP!File(p)
      /\ \A p : Boots!Runnable(p) = BootsP!Runnable(p)
  BY <1>4, <1>5, <1>6 DEF Boots!User, BootsP!User, Boots!InKernel, BootsP!InKernel,
      Boots!Passed, BootsP!Passed, Boots!Working, BootsP!Working,
      Boots!Finish, BootsP!Finish, Boots!LoadPhase, BootsP!LoadPhase,
      Boots!CopyPhase, BootsP!CopyPhase, Boots!File, BootsP!File,
      Boots!Runnable, BootsP!Runnable
<1>8. \A p : Boots!Party(p) = BootsP!Party(p)
  BY <1>4, <1>5, <1>6 DEF Boots!Party, BootsP!Party
<1>9. BootsP!StartupAssumption /\ BootsP!OneActiveTask
  BY StartupInstance, <1>1, <1>4, <1>5
  DEF Boots!StartupAssumption, BootsP!StartupAssumption, Boots!OneActiveTask, BootsP!OneActiveTask
<1>10. Boots!Init => BootsP!Init
  BY <1>4, <1>5, <1>6 DEF Boots!Init, BootsP!Init
<1>11. ASSUME NEW p \in Boots!Proc
       PROVE  /\ Boots!InitSchedulers(p) => BootsP!InitSchedulers(p)
              /\ Boots!InitContexts(p) => BootsP!InitContexts(p)
              /\ Boots!LoadFile(p) => BootsP!LoadFile(p)
              /\ Boots!CopySegments(p) => BootsP!CopySegments(p)
              /\ Boots!Loaded(p) => BootsP!Loaded(p)
              /\ Boots!WakeUp(p) => BootsP!WakeUp(p)
              /\ Boots!InitGlobals(p) => BootsP!InitGlobals(p)
              /\ Boots!Release(p) => BootsP!Release(p)
              /\ Boots!SetScheduler(p) => BootsP!SetScheduler(p)
              /\ Boots!CompleteContexts(p) => BootsP!CompleteContexts(p)
              /\ Boots!StartTimer(p) => BootsP!StartTimer(p)
              /\ Boots!Elect(p) => BootsP!Elect(p)
              /\ Boots!Cross(p) => BootsP!Cross(p)
  <2>1. Boots!InitSchedulers(p) => BootsP!InitSchedulers(p)
    BY <1>1, <1>4, <1>5, <1>6, <1>7, <1>8 DEF Boots!InitSchedulers, BootsP!InitSchedulers,
       Boots!boot, BootsP!boot, Boots!kernel, BootsP!kernel
  <2>2. Boots!InitContexts(p) => BootsP!InitContexts(p)
    BY <1>1, <1>4, <1>5, <1>6, <1>7, <1>8 DEF Boots!InitContexts, BootsP!InitContexts,
       Boots!boot, BootsP!boot, Boots!kernel, BootsP!kernel
  <2>3. Boots!LoadFile(p) => BootsP!LoadFile(p)
    BY <1>1, <1>4, <1>5, <1>6, <1>7, <1>8 DEF Boots!LoadFile, BootsP!LoadFile, Boots!boot,
       BootsP!boot, Boots!kernel, BootsP!kernel
  <2>4. Boots!CopySegments(p) => BootsP!CopySegments(p)
    BY <1>1, <1>4, <1>5, <1>6, <1>7, <1>8 DEF Boots!CopySegments, BootsP!CopySegments,
       Boots!boot, BootsP!boot, Boots!kernel, BootsP!kernel
  <2>5. Boots!Loaded(p) => BootsP!Loaded(p)
    BY <1>1, <1>4, <1>5, <1>6, <1>7, <1>8 DEF Boots!Loaded, BootsP!Loaded, Boots!boot,
       BootsP!boot, Boots!kernel, BootsP!kernel
  <2>6. Boots!WakeUp(p) => BootsP!WakeUp(p)
    BY <1>1, <1>4, <1>5, <1>6, <1>7, <1>8 DEF Boots!WakeUp, BootsP!WakeUp, Boots!boot,
       BootsP!boot, Boots!kernel, BootsP!kernel
  <2>7. Boots!InitGlobals(p) => BootsP!InitGlobals(p)
    BY <1>1, <1>4, <1>5, <1>6, <1>7, <1>8 DEF Boots!InitGlobals, BootsP!InitGlobals,
       Boots!boot, BootsP!boot, Boots!kernel, BootsP!kernel
  <2>8. Boots!Release(p) => BootsP!Release(p)
    BY <1>1, <1>4, <1>5, <1>6, <1>7, <1>8 DEF Boots!Release, BootsP!Release, Boots!boot,
       BootsP!boot, Boots!kernel, BootsP!kernel
  <2>9. Boots!SetScheduler(p) => BootsP!SetScheduler(p)
    BY <1>1, <1>4, <1>5, <1>6, <1>7, <1>8 DEF Boots!SetScheduler, BootsP!SetScheduler,
       Boots!boot, BootsP!boot, Boots!kernel, BootsP!kernel
  <2>10. Boots!CompleteContexts(p) => BootsP!CompleteContexts(p)
    BY <1>1, <1>4, <1>5, <1>6, <1>7, <1>8 DEF Boots!CompleteContexts,
       BootsP!CompleteContexts, Boots!boot, BootsP!boot, Boots!kernel, BootsP!kernel
  <2>11. Boots!StartTimer(p) => BootsP!StartTimer(p)
    BY <1>1, <1>4, <1>5, <1>6, <1>7, <1>8 DEF Boots!StartTimer, BootsP!StartTimer,
       Boots!boot, BootsP!boot, Boots!kernel, BootsP!kernel
  <2>12. Boots!Elect(p) => BootsP!Elect(p)
    BY <1>1, <1>4, <1>5, <1>6, <1>7, <1>8 DEF Boots!Elect, BootsP!Elect, Boots!boot,
       BootsP!boot, Boots!kernel, BootsP!kernel
  <2>13. Boots!Cross(p) => BootsP!Cross(p)
    BY <1>1, <1>4, <1>5, <1>6, <1>7, <1>8 DEF Boots!Cross, BootsP!Cross, Boots!boot,
       BootsP!boot, Boots!kernel, BootsP!kernel
  <2> QED
    BY <2>1, <2>2, <2>3, <2>4, <2>5, <2>6, <2>7, <2>8, <2>9, <2>10, <2>11, <2>12, <2>13
<1>12. Boots!Done <=> BootsP!Done
  BY <1>4, <1>7 DEF Boots!Done, BootsP!Done
<1>13. Boots!Next => BootsP!Next
  BY <1>4, <1>11, <1>12 DEF Boots!Next, BootsP!Next, Boots!vars, BootsP!vars, Boots!boot,
     BootsP!boot,
    Boots!kernel, BootsP!kernel
<1>14. BootsP!TypeOK => Boots!TypeOK
  BY <1>4, <1>5, <1>7 DEF Boots!TypeOK, BootsP!TypeOK
<1>15. BootsP!StartsInOrder => Boots!StartsInOrder
  BY <1>4, <1>5, <1>6, <1>7 DEF Boots!StartsInOrder, BootsP!StartsInOrder
<1>16. BootsP!IrqsRouted => Boots!IrqsRouted
  BY <1>1, <1>4, <1>5, <1>7 DEF Boots!IrqsRouted, BootsP!IrqsRouted
<1>17. BootsP!BootsIntoScheduler => Boots!BootsIntoScheduler
  <2>1. /\ Boots!Slots = BootsP!Slots /\ \A t : Boots!ContextOf(t) = BootsP!ContextOf(t)
        /\ \A i : Boots!Slot(i) = BootsP!Slot(i)
    BY <1>4, <1>5 DEF Boots!Slots, BootsP!Slots, Boots!ContextOf, BootsP!ContextOf,
                      Boots!Slot, BootsP!Slot
  <2>2. \A v : Boots!TasksOfSpace(v) = BootsP!TasksOfSpace(v)
    BY <1>3, <1>4, <2>1 DEF Boots!TasksOfSpace, BootsP!TasksOfSpace
  <2>3. /\ Boots!Sched!Task = BootsP!Sched!Task
        /\ Boots!Sched!IDLE_TASK_INDEX = BootsP!Sched!IDLE_TASK_INDEX
        /\ \A v : Boots!Sched!Members(v) = BootsP!Sched!Members(v)
    BY <1>4, <1>5, <2>2 DEF Boots!Sched!Task, BootsP!Sched!Task, Boots!Sched!Members,
      BootsP!Sched!Members, Boots!Sched!IDLE_TASK_INDEX, BootsP!Sched!IDLE_TASK_INDEX
  <2>4. BootsP!Sched!Init => Boots!Sched!Init
    <3> SUFFICES ASSUME BootsP!Sched!Init PROVE Boots!Sched!Init
      OBVIOUS
    <3> DEFINE
             norun1 == [t \in Boots!Slots |-> IF Boots!ContextOf(t).norun THEN {"TASK"} ELSE {}]
             count1 == [p \in Boots!Proc |-> Len(Boots!TasksOf(p))]
             cur1 == [p \in Boots!Proc |-> x3[p].current]
             live1 == [p \in Boots!Proc |-> IF x12[p] = "code" THEN "entry" ELSE x12[p]]
             ctx1 == [t \in Boots!Slots |->
                        IF Boots!ContextOf(t).norun \/ x3[t[1]].current = t[2] THEN "entry"
                        ELSE Boots!ContextOf(t).epc]
             ready1(p) == {i \in 0 .. count1[p] - 1 : norun1[<<p, i>>] = {}}
             first1(R) == IF R = {} THEN Boots!Sched!IDLE_TASK_INDEX
                           ELSE CHOOSE i \in R : \A j \in R : i <= j
             norun2 == [t \in BootsP!Slots |-> IF BootsP!ContextOf(t).norun THEN {"TASK"} ELSE {}]
             count2 == [p \in BootsP!Proc |-> Len(BootsP!TasksOf(p))]
             cur2 == [p \in BootsP!Proc |-> x3[p].current]
             live2 == [p \in BootsP!Proc |-> IF x12[p] = "code" THEN "entry" ELSE x12[p]]
             ctx2 == [t \in BootsP!Slots |->
                        IF BootsP!ContextOf(t).norun \/ x3[t[1]].current = t[2] THEN "entry"
                        ELSE BootsP!ContextOf(t).epc]
             ready2(p) == {i \in 0 .. count2[p] - 1 : norun2[<<p, i>>] = {}}
             first2(R) == IF R = {} THEN BootsP!Sched!IDLE_TASK_INDEX
                           ELSE CHOOSE i \in R : \A j \in R : i <= j
    <3>1. /\ norun2 = [t \in BootsP!Sched!Task |->
                    IF \E a \in {1, 2} : t \in BootsP!Sched!Members(a) THEN {} ELSE {"TASK"}]
          /\ cur2 = [p \in BootsP!Proc |-> first2(ready2(p))]
          /\ live2 = [p \in BootsP!Proc |->
                     IF cur2[p] = BootsP!Sched!IDLE_TASK_INDEX THEN "idle" ELSE "entry"]
          /\ ctx2 = [t \in BootsP!Sched!Task |-> "entry"]
      BY Zenon DEF BootsP!Sched!Init
    <3>2. /\ norun1 = norun2 /\ count1 = count2 /\ cur1 = cur2 /\ live1 = live2 /\ ctx1 = ctx2
      BY <1>4, <1>5, <2>1
    <3>3. \A R : first1(R) = first2(R)
      BY <2>3
    <3> HIDE DEF norun1, norun2, count1, count2, cur1, cur2, live1, live2, ctx1, ctx2, first1, first2
    <3>4. \A p : ready1(p) = ready2(p)
      BY <3>2
    <3> HIDE DEF ready1, ready2
    <3>5. /\ norun1 = [t \in Boots!Sched!Task |->
                    IF \E a \in {1, 2} : t \in Boots!Sched!Members(a) THEN {} ELSE {"TASK"}]
          /\ cur1 = [p \in Boots!Proc |-> first1(ready1(p))]
          /\ live1 = [p \in Boots!Proc |->
                     IF cur1[p] = Boots!Sched!IDLE_TASK_INDEX THEN "idle" ELSE "entry"]
          /\ ctx1 = [t \in Boots!Sched!Task |-> "entry"]
      BY <1>4, <2>3, <3>1, <3>2, <3>3, <3>4
    <3>6. /\ [t \in Boots!Slots |-> {}] = [t \in Boots!Sched!Task |-> {}]
          /\ [t \in Boots!Slots |-> <<>>] = [t \in Boots!Sched!Task |-> <<>>]
          /\ [t \in Boots!Slots |-> FALSE] = [t \in Boots!Sched!Task |-> FALSE]
      BY DEF Boots!Slots, Boots!Sched!Task
    <3> QED
      BY <3>5, <3>6, Zenon DEF norun1, count1, cur1, live1, ctx1, ready1, first1, Boots!Sched!Init
  <2> QED
    BY <1>12, <2>4 DEF Boots!BootsIntoScheduler, BootsP!BootsIntoScheduler
<1> QED
  BY <1>9, <1>10, <1>13, <1>14, <1>15, <1>16, <1>17

-----------------------------------------------------------------------------
(* The page tables of the boot loader                                      *)

\* BootMapping!TypeOK with the fields of the allocators.
BootInv ==
  /\ Boot!TypeOK
  /\ x8 \in [Boot!Cluster -> [bpp : 0 .. 9, sbpp : Int, spp : Nat, maxSpp : Nat]]

\* The vseg that a cluster handles next is one of the mapping, and takes pages.
LEMMA BootFirst ==
  ASSUME NEW c \in Boot!Cluster, Boot!Left(c) # {}
  PROVE  LET i == Boot!First(c)
         IN  /\ i \in Boot!Vseg /\ Boot!NbPages(i) \in Nat
             /\ Mapping[i].kind = "ram" /\ ~Mapping[i].big => Boot!NbPages(i) <= 8
<1>1. /\ Boot!Vseg = 1 .. Len(Mapping) /\ Len(Mapping) \in Nat
      /\ \A i \in Boot!Vseg :
           /\ Mapping[i].vpn \in Nat /\ Mapping[i].length \in Nat \ {0}
           /\ Mapping[i].kind = "ram" /\ ~Mapping[i].big => Mapping[i].length <= 8
      /\ \E i \in Boot!Own(c) : Mapping[i].kind = "ptab"
  BY BootInstance DEF Boot!BootAssumption
<1>2. Boot!Left(c) \subseteq Boot!Vseg
  <2>1. Boot!PtabOf(c) \in Boot!Vseg
    BY <1>1 DEF Boot!PtabOf, Boot!Own
  <2>2. Boot!Own(c) \subseteq Boot!Vseg /\ Boot!Globals \subseteq Boot!Vseg
    BY DEF Boot!Own, Boot!Globals
  <2> QED
    BY <2>1, <2>2 DEF Boot!Left
<1>3. ASSUME NEW S \in SUBSET Boot!Vseg, S # {} PROVE Boot!Min(S) \in S
  <2>1. S \subseteq Nat
    BY <1>1, <1>3
  <2> QED
    BY <1>3, <2>1, FirstIndex DEF Boot!Min
<1>4. Boot!First(c) \in Boot!Vseg
  <2> DEFINE globals == Boot!Left(c) \cap Boot!Globals
             large == {i \in globals : x1[c] = 2 /\ Mapping[i].length > 8}
             S == IF large # {} THEN large ELSE IF globals # {} THEN globals ELSE Boot!Left(c)
  <2>1. S \subseteq Boot!Vseg /\ S # {}
    BY <1>2
  <2>2. Boot!First(c) = Boot!Min(S)
    BY Zenon DEF Boot!First
  <2> HIDE DEF S
  <2> QED
    BY <1>3, <2>1, <2>2
<1> DEFINE i == Boot!First(c)
<1>5. /\ i \in Boot!Vseg /\ Mapping[i].vpn \in Nat /\ Mapping[i].length \in Nat \ {0}
      /\ Mapping[i].kind = "ram" /\ ~Mapping[i].big => Mapping[i].length <= 8
  BY <1>1, <1>4
<1> HIDE DEF i
<1>6. Boot!NbPages(i) = IF Mapping[i].big
        THEN (Mapping[i].vpn + Mapping[i].length - 1) \div 8 - Mapping[i].vpn \div 8 + 1
        ELSE Mapping[i].length
  BY DEF Boot!NbPages, Boot!Region
<1>7. Boot!NbPages(i) \in Nat
  BY <1>5, <1>6
<1> QED
  BY <1>5, <1>6, <1>7 DEF i

LEMMA BootStarts ==
  ASSUME Boot!Init
  PROVE  BootInv
<1>1. /\ x1 = [c \in Boot!Cluster |-> 0] /\ x2 = [c \in Boot!Cluster |-> Boot!None]
      /\ x4 = [c \in Boot!Cluster |-> "next"] /\ x6 = {}
      /\ x11 = [t \in Boot!Ptab |-> 0] /\ x12 = [t \in Boot!Ptab |-> Boot!Unlocked]
      /\ x8 = [c \in Boot!Cluster |->
                 [bpp |-> IF c = 0 THEN 1 ELSE 0, sbpp |-> 0, spp |-> 0, maxSpp |-> 0]]
  BY DEF Boot!Init
<1>2. x8 \in [Boot!Cluster -> [bpp : 0 .. 9, sbpp : Int, spp : Nat, maxSpp : Nat]]
  BY <1>1
<1>3. \A c \in Boot!Cluster : x8[c].bpp \in 0 .. 9 /\ x8[c].spp \in 0 .. x8[c].maxSpp
  BY <1>1
<1>4. 0 \in 0 .. Boot!MaxPt2
  BY DEF Boot!MaxPt2
<1> QED
  BY <1>1, <1>2, <1>3, <1>4 DEF BootInv, Boot!TypeOK, Boot!None, Boot!Unlocked

\* The allocator of a cluster takes what is left, or stops the boot.
LEMMA BootMaps ==
  ASSUME BootInv, NEW c \in Boot!Cluster, Boot!Map(c)
  PROVE  BootInv'
<1> DEFINE i == Boot!First(c)
           n == Boot!NbPages(i)
           m == x8[c]
<1>1. /\ i \in Boot!Vseg /\ n \in Nat
      /\ Mapping[i].kind = "ram" /\ ~Mapping[i].big => n <= 8
  BY BootFirst DEF Boot!Map
<1>2. /\ x2' = [x2 EXCEPT ![c] = i] /\ x6' = x6 \cup {i}
      /\ x1' = x1 /\ x4' = x4 /\ x11' = x11 /\ x12' = x12
      /\ \/ Boot!MapIdentity(i) \/ Boot!MapPeripheral(i) \/ Boot!GetBig(c, i)
         \/ Boot!ShareBig(c, i) \/ Boot!GetSmall(c, i)
  BY Zenon DEF Boot!Map
<1>3. /\ x8 \in [Boot!Cluster -> [bpp : 0 .. 9, sbpp : Int, spp : Nat, maxSpp : Nat]]
      /\ \A d \in Boot!Cluster : x8[d].bpp \in 0 .. 9 /\ x8[d].spp \in 0 .. x8[d].maxSpp
      /\ m \in [bpp : 0 .. 9, sbpp : Int, spp : Nat, maxSpp : Nat]
  BY DEF BootInv, Boot!TypeOK
<1>4. \/ x8' = x8
      \/ \E r \in [bpp : 0 .. 9, sbpp : Int, spp : Nat, maxSpp : Nat] :
           r.spp \in 0 .. r.maxSpp /\ x8' = [x8 EXCEPT ![c] = r]
  <2>1. CASE Boot!MapIdentity(i) \/ Boot!MapPeripheral(i) \/ Boot!ShareBig(c, i)
    BY <2>1 DEF Boot!MapIdentity, Boot!MapPeripheral, Boot!ShareBig
  <2>2. CASE Boot!GetBig(c, i)
    <3>1. m.bpp + n <= 9
      BY <2>2, Zenon DEF Boot!GetBig
    <3>2. x8' = [x8 EXCEPT ![c].bpp = @ + n]
      BY <2>2, Zenon DEF Boot!GetBig
    <3> HIDE DEF n, i
    <3> DEFINE r == [m EXCEPT !.bpp = m.bpp + n]
    <3>3. x8' = [x8 EXCEPT ![c] = r]
      BY <3>2, Zenon
    <3> HIDE DEF m
    <3>4. r \in [bpp : 0 .. 9, sbpp : Int, spp : Nat, maxSpp : Nat]
      BY <1>1, <1>3, <3>1
    <3>5. r.spp \in 0 .. r.maxSpp
      <4>1. r.spp = m.spp /\ r.maxSpp = m.maxSpp
        BY <1>3
      <4>2. m.spp \in 0 .. m.maxSpp
        BY <1>3 DEF m
      <4> QED
        BY <4>1, <4>2
    <3> HIDE DEF r
    <3> QED
      BY <3>3, <3>4, <3>5
  <2>3. CASE Boot!GetSmall(c, i)
    <3>1. /\ Mapping[i].kind = "ram" /\ ~Mapping[i].big
          /\ \/ m.spp + n <= m.maxSpp /\ x8' = [x8 EXCEPT ![c].spp = @ + n]
             \/ /\ m.bpp < 9
                /\ x8' = [x8 EXCEPT ![c] =
                     [bpp |-> m.bpp + 1, sbpp |-> m.bpp, spp |-> n, maxSpp |-> 8]]
      BY <2>3, Zenon DEF Boot!GetSmall
    <3>2. n <= 8
      BY <1>1, <3>1
    <3> HIDE DEF n, i
    <3>3. CASE m.spp + n <= m.maxSpp /\ x8' = [x8 EXCEPT ![c].spp = @ + n]
      <4> DEFINE r == [m EXCEPT !.spp = m.spp + n]
      <4>1. x8' = [x8 EXCEPT ![c] = r]
        BY <3>3, Zenon
      <4> HIDE DEF m
      <4>2. r \in [bpp : 0 .. 9, sbpp : Int, spp : Nat, maxSpp : Nat]
        BY <1>1, <1>3
      <4>3. r.spp \in 0 .. r.maxSpp
        <5>1. r.spp = m.spp + n /\ r.maxSpp = m.maxSpp /\ m.spp \in Nat /\ m.maxSpp \in Nat
          BY <1>3
        <5> HIDE DEF r
        <5> QED
          BY <1>1, <3>3, <5>1
      <4> HIDE DEF r
      <4> QED
        BY <4>1, <4>2, <4>3
    <3>4. CASE /\ m.bpp < 9
               /\ x8' = [x8 EXCEPT ![c] =
                    [bpp |-> m.bpp + 1, sbpp |-> m.bpp, spp |-> n, maxSpp |-> 8]]
      <4> HIDE DEF m
      <4> DEFINE r == [bpp |-> m.bpp + 1, sbpp |-> m.bpp, spp |-> n, maxSpp |-> 8]
      <4>1. r \in [bpp : 0 .. 9, sbpp : Int, spp : Nat, maxSpp : Nat] /\ r.spp \in 0 .. r.maxSpp
        BY <1>1, <1>3, <3>2, <3>4
      <4>2. x8' = [x8 EXCEPT ![c] = r]
        BY <3>4
      <4> HIDE DEF r
      <4> QED
        BY <4>1, <4>2
    <3> QED
      BY <3>1, <3>3, <3>4
  <2> QED
    BY <1>2, <2>1, <2>2, <2>3
<1> HIDE DEF i, n, m
<1>5. /\ x8' \in [Boot!Cluster -> [bpp : 0 .. 9, sbpp : Int, spp : Nat, maxSpp : Nat]]
      /\ \A d \in Boot!Cluster : x8'[d].bpp \in 0 .. 9 /\ x8'[d].spp \in 0 .. x8'[d].maxSpp
  BY <1>3, <1>4
<1> QED
  BY <1>1, <1>2, <1>5 DEF BootInv, Boot!TypeOK

LEMMA BootSteps ==
  ASSUME BootInv, [Boot!Next]_(Boot!vars)
  PROVE  BootInv'
<1>1. ASSUME NEW c \in Boot!Cluster, Boot!AddPte1(c) PROVE BootInv'
  BY <1>1 DEF BootInv, Boot!TypeOK, Boot!AddPte1, Boot!memory
<1>2. ASSUME NEW c \in Boot!Cluster, Boot!LockPtab(c) PROVE BootInv'
  <2>1. /\ x1' = x1 /\ x2' = x2 /\ x6' = x6 /\ x8' = x8 /\ x11' = x11
        /\ x12' = [x12 EXCEPT ![Boot!Target(c)] = c]
    BY <1>2, Zenon DEF Boot!LockPtab, Boot!ReadPtd, Boot!memory
  <2>2. x4' = [x4 EXCEPT ![c] = "new"] \/ x4' = [x4 EXCEPT ![c] = "entry"]
    BY <1>2, Zenon DEF Boot!LockPtab, Boot!ReadPtd
  <2>3. x4' \in [Boot!Cluster -> {"next", "new", "entry"}]
    BY <2>2 DEF BootInv, Boot!TypeOK
  <2>4. x12' \in [Boot!Ptab -> {Boot!Unlocked} \cup Boot!Cluster]
    BY <2>1 DEF BootInv, Boot!TypeOK
  <2> QED
    BY <2>1, <2>3, <2>4 DEF BootInv, Boot!TypeOK
<1>3. ASSUME NEW c \in Boot!Cluster, Boot!NewPt2(c) PROVE BootInv'
  <2> DEFINE t == Boot!Target(c)
  <2>1. /\ x1' = x1 /\ x2' = x2 /\ x6' = x6 /\ x8' = x8 /\ x12' = x12
        /\ x11[t] < Boot!MaxPt2 /\ x11' = [x11 EXCEPT ![t] = @ + 1]
        /\ x4' = [x4 EXCEPT ![c] = "entry"]
    BY <1>3, Zenon DEF Boot!NewPt2, Boot!memory
  <2>2. x11' \in [Boot!Ptab -> 0 .. Boot!MaxPt2]
    <3> HIDE DEF t
    <3>1. x11 \in [Boot!Ptab -> 0 .. Boot!MaxPt2] /\ Boot!MaxPt2 \in Int
      BY DEF BootInv, Boot!TypeOK, Boot!MaxPt2
    <3>2. CASE t \in Boot!Ptab
      BY <2>1, <3>1, <3>2
    <3>3. CASE t \notin Boot!Ptab
      BY <2>1, <3>1, <3>3
    <3> QED
      BY <3>2, <3>3
  <2> QED
    BY <2>1, <2>2 DEF BootInv, Boot!TypeOK
<1>4. ASSUME NEW c \in Boot!Cluster, Boot!AddPte2(c) PROVE BootInv'
  <2>1. /\ x1' = x1 /\ x2' = x2 /\ x6' = x6 /\ x8' = x8 /\ x11' = x11
        /\ x12' = [x12 EXCEPT ![Boot!Target(c)] = Boot!Unlocked]
        /\ x4' = [x4 EXCEPT ![c] = "next"]
    BY <1>4, Zenon DEF Boot!AddPte2, Boot!memory
  <2> QED
    BY <2>1 DEF BootInv, Boot!TypeOK
<1>5. ASSUME NEW c \in Boot!Cluster, Boot!Mapped(c) PROVE BootInv'
  BY <1>5 DEF BootInv, Boot!TypeOK, Boot!Mapped, Boot!memory, Boot!tables
<1>6. ASSUME NEW c \in Boot!Cluster, Boot!Cross(c) PROVE BootInv'
  BY <1>6 DEF BootInv, Boot!TypeOK, Boot!Cross, Boot!Finished, Boot!memory, Boot!tables
<1>7. CASE UNCHANGED Boot!vars
  BY <1>7 DEF BootInv, Boot!TypeOK, Boot!vars, Boot!place, Boot!memory, Boot!tables
<1> QED
  BY <1>1, <1>2, <1>3, <1>4, <1>5, <1>6, <1>7, BootMaps DEF Boot!Next

-----------------------------------------------------------------------------
(* The kernel                                                              *)

\* A behaviour uses one of the components.
ComponentInv ==
  /\ kind = "terminals" => TtyP!TtyInv
  /\ kind = "buffers" => DmaP!DmaInv
  /\ kind = "startup" => BootsP!IInv
  /\ kind = "boot" => BootInv

LEMMA ComponentsStart ==
  ASSUME MCInit
  PROVE  ComponentInv
<1>1. /\ kind = "terminals" => Tty!Init
      /\ kind = "buffers" => Dma!Init
      /\ kind = "startup" => Boots!Init
      /\ kind = "boot" => Boot!Init
  BY DEF MCInit, Alone
<1> QED
  BY <1>1, SameTerminals, SameBuffers, SameStartup, TtyP!TtyStarts, DmaP!DmaStarts,
     BootsP!InitHolds, BootStarts DEF ComponentInv

LEMMA OneComponentMoves ==
  ASSUME [MCNext]_mcVars
  PROVE  /\ kind = "terminals" => kind' = kind /\ [TtyP!Next]_(TtyP!vars)
         /\ kind = "buffers" => kind' = kind /\ [DmaP!Next]_(DmaP!vars)
         /\ kind = "startup" => kind' = kind /\ [BootsP!Next]_(BootsP!vars)
         /\ kind = "boot" => kind' = kind /\ [Boot!Next]_(Boot!vars)
         /\ kind \notin {"terminals", "buffers", "startup", "boot"}
              => kind' \notin {"terminals", "buffers", "startup", "boot"}
<1>1. kind = "terminals" => kind' = kind /\ [TtyP!Next]_(TtyP!vars)
  BY SameTerminals DEF MCNext, SchedulerStep, mcVars, component, from12, from13, from14,
                       OfApplications, TtyP!vars, TtyP!routing, TtyP!input
<1>2. kind = "buffers" => kind' = kind /\ [DmaP!Next]_(DmaP!vars)
  BY SameBuffers DEF MCNext, SchedulerStep, mcVars, component, OfApplications, DmaP!vars,
                     DmaP!memory, DmaP!task, DmaP!dma
<1>3. kind = "startup" => kind' = kind /\ [BootsP!Next]_(BootsP!vars)
  BY SameStartup DEF MCNext, SchedulerStep, mcVars, component, from12, OfApplications,
                     BootsP!vars, BootsP!boot, BootsP!kernel
<1>4. kind = "boot" => kind' = kind /\ [Boot!Next]_(Boot!vars)
  BY DEF MCNext, SchedulerStep, mcVars, component, from12, from13, OfApplications,
         Boot!vars, Boot!place, Boot!memory, Boot!tables
<1>5. kind \notin {"terminals", "buffers", "startup", "boot"}
        => kind' \notin {"terminals", "buffers", "startup", "boot"}
  <2>1. Appli!Next => kind' = kind
    BY DEF Appli!Next, Appli!vars
  <2> QED
    BY <2>1 DEF MCNext, SchedulerStep, mcVars, OfApplications
<1> QED
  BY <1>1, <1>2, <1>3, <1>4, <1>5

LEMMA ComponentsInvariant == MCSpec => []ComponentInv
<1>1. MCInit => ComponentInv
  BY ComponentsStart
<1>2. ComponentInv /\ [MCNext]_mcVars => ComponentInv'
  <2> SUFFICES ASSUME ComponentInv, [MCNext]_mcVars PROVE ComponentInv'
    OBVIOUS
  <2>1. kind' = "terminals" => TtyP!TtyInv'
    BY OneComponentMoves, SameTerminals, TtyP!TtyPreserved DEF ComponentInv
  <2>2. kind' = "buffers" => DmaP!DmaInv'
    BY OneComponentMoves, SameBuffers, DmaP!DmaPreserved DEF ComponentInv
  <2>3. kind' = "startup" => BootsP!IInv'
    BY OneComponentMoves, SameStartup, BootsP!StepHolds DEF ComponentInv
  <2>4. kind' = "boot" => BootInv'
    BY OneComponentMoves, BootSteps DEF ComponentInv
  <2> QED
    BY <2>1, <2>2, <2>3, <2>4 DEF ComponentInv
<1> QED
  BY <1>1, <1>2, PTL DEF MCSpec

\* The steps of the other components leave the schedulers alone.
LEMMA KernelSchedules == MCSpec => Spec
<1>1. MCInit => Init
  BY DEF MCInit
<1>2. [MCNext]_mcVars => [Next]_vars
  BY DEF MCNext, SchedulerStep, mcVars
<1> QED
  BY <1>1, <1>2, PTL DEF MCSpec, Spec

\* In the kernel the schedulers keep what is proved of them above.
THEOREM SchedulersInKernel ==
  MCSpec => [](NoLostWakeup /\ StoppedDoesNotRun /\ WakeupPending
               /\ WaitHonouredUnlessRestarted)
BY KernelSchedules, NoLostWakeupHolds, StoppedDoesNotRunHolds, WakeupPendingHolds,
   WaitHonouredHolds, PTL

\* Scheduler, terminals, buffers, start of the tasks and page tables of the boot keep
\* their types: no table is indexed out of its range, and no allocator of pages of the
\* boot gives more than it has (boot_vseg_map, _get_big_ppn, _get_small_ppn,
\* boot_add_pte2, _get_sched_value).
THEOREM KernelTypes == MCSpec => []MCTypeOK
<1>1. ComponentInv /\ TypeOK => MCTypeOK
  <2> SUFFICES ASSUME ComponentInv, TypeOK PROVE MCTypeOK
    OBVIOUS
  <2>1. kind = "terminals" => Tty!TypeOK
    BY SameTerminals, TtyP!TtySound DEF ComponentInv
  <2>2. kind = "buffers" => Dma!TypeOK
    BY SameBuffers, DmaP!DmaSound DEF ComponentInv
  <2>3. kind = "boot" => Boot!TypeOK
    BY DEF ComponentInv, BootInv
  <2>4. kind = "startup" => Boots!TypeOK
    BY SameStartup, BootsP!TypeHolds DEF ComponentInv
  <2> QED
    BY <2>1, <2>2, <2>3, <2>4 DEF MCTypeOK
<1> QED
  BY <1>1, KernelSchedules, ComponentsInvariant, TypeCorrect, PTL

\* For any processors, tasks, applications, channels, mailboxes and keys: the terminal
\* of an application is routed to it and to no other, no mailbox of the ones that wait
\* for terminals is lost, and keys are read in order and once (_sys_tty_alloc,
\* _ext_irq_alloc, _ctx_kill_task, _tty_rx_isr, _sys_tty_read).
THEOREM TerminalsSoundHolds == MCSpec => []TerminalsSound
<1>1. ComponentInv => TerminalsSound
  BY SameTerminals, TtyP!TtySound DEF ComponentInv, TerminalsSound
<1> QED
  BY <1>1, ComponentsInvariant, PTL

\* For any numbers of buffers, lines and contents: what the DMA moves is whole and in
\* order, although the tasks and the DMA do not see the same copy of the memory
\* (_sys_nic_move, _sys_fbf_cma_display).
THEOREM ContainersInOrderHolds == MCSpec => []ContainersInOrder
<1>1. ComponentInv => ContainersInOrder
  BY SameBuffers, DmaP!DmaSound DEF ComponentInv, ContainersInOrder
<1> QED
  BY <1>1, ComponentsInvariant, PTL

\* The kernel starts in order, with every internal interrupt served by one processor,
\* and the processors leave kernel_init as Scheduler assumes: the mapping of MCKernel
\* satisfies the hypotheses of StartupProofs (boot_scheduler_init, boot_elf_load,
\* kernel_init).
THEOREM StartupSoundHolds == MCSpec => []StartupSound
<1>1. ComponentInv => StartupSound
  <2>1. kind = "startup" /\ ComponentInv
          => BootsP!StartsInOrder /\ BootsP!IrqsRouted /\ BootsP!BootsIntoScheduler
    BY SameStartup, BootsP!OrderHolds, BootsP!IrqsHold, BootsP!HandsOver
       DEF ComponentInv, BootsP!BootsIntoScheduler
  <2> QED
    BY <2>1, SameStartup DEF StartupSound
<1> QED
  BY <1>1, ComponentsInvariant, PTL

=============================================================================
