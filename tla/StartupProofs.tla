----------------------------- MODULE StartupProofs -----------------------------
(***************************************************************************)
(* The start of the kernel, for any number of clusters, of processors, of  *)
(* vspaces, of tasks, of interrupts and of segments. The state of every    *)
(* table is a function of what the processors have done (Passed), which    *)
(* the barriers relate to each other.                                      *)
(***************************************************************************)
EXTENDS Startup, FiniteSetTheorems, SequenceTheorems, TLAPS


Lead(p) == <<p[1], 0>>

\* Where the processors can be: those that do not run the boot loader sleep until
\* their leader enters the kernel, and nobody waits but at a barrier.
Places ==
  /\ phase \in [Proc -> 0 .. User]
  /\ done \subseteq Proc
  /\ \A p \in done : phase[p] <= BootEnd \/ phase[p] \in KernelPhase .. KernelPhase + 2
  /\ \A p \in Proc : ~Leader(p) => phase[p] >= WakePhase
  /\ \A p \in Proc : InKernel(p) <=> InKernel(Lead(p))

\* What a barrier is for: who is past a phase knows that all the others did its work.
InStep ==
  /\ \A p, q \in Leaders : \A k \in 0 .. BootEnd : phase[p] > k => Passed(q, k)
  /\ \A p, q \in Proc : \A k \in KernelPhase .. KernelPhase + 2 :
       phase[p] > k => Passed(q, k)

\* The tables, as functions of the work that has been done.
Handed(p) == HwiOf(p) \cup {"TICK", "WAKUP"}
ActiveOf(p) == {l \in DOMAIN TasksOf(p) : Tasks[TasksOf(p)[l]].space \in ActiveSpaces}
Elected(p) == IF ActiveOf(p) = {} THEN IDLE_TASK_INDEX ELSE Min(ActiveOf(p)) - 1

ContextAt(i, complete) ==
  [task |-> i, epc |-> "word", entry |-> IF complete THEN "code" ELSE "word",
   ra |-> complete, norun |-> Tasks[i].space \notin ActiveSpaces]

ContextsOf(p) ==
  IF ~Passed(Lead(p), 1) THEN NoContext
  ELSE [l \in DOMAIN TasksOf(p) |-> ContextAt(TasksOf(p)[l], Passed(p, KernelPhase + 1))]

CurrentOf(p) ==
  IF ~Passed(Lead(p), 0) THEN -1 ELSE IF phase[p] = User THEN Elected(p) ELSE IDLE_TASK_INDEX

VectorOf(p) ==
  IF ~Passed(Lead(p), 0) THEN {}
  ELSE Handed(p) \cup (IF p = First /\ globals # {} THEN {"box1"} ELSE {})

SchedulerOf(p) ==
  [current |-> CurrentOf(p), context |-> ContextsOf(p),
   idle |-> Passed(p, KernelPhase + 2), vector |-> VectorOf(p)]

Tables ==
  /\ psched = [p \in Proc |-> SchedulerOf(p)]
  /\ mask = [p \in Proc |-> IF Passed(Lead(p), 0) THEN Handed(p) \cup Boxes ELSE {}]
  /\ ltid = [i \in DOMAIN Tasks |-> IF Passed(Lead(Tasks[i].proc), 1) THEN LtidOf(i) ELSE -1]

\* The buffer holds file f while it is copied, and a segment keeps its file.
FilesLoaded ==
  /\ buffer \in {-1} \cup Files
  /\ loaded \in [DOMAIN Segments -> {-1} \cup Files]
  /\ \A f \in Files :
       Passed(First, 2 * f + 2) /\ ~Passed(First, 2 * f + 4) => buffer = f
  /\ \A s \in DOMAIN Segments :
       Passed(<<Segments[s].cluster, 0>>, 2 * Segments[s].file + 3)
         => loaded[s] = Segments[s].file

\* The structures that P[0,0,0] initialises, and what the others do with them.
KernelTables ==
  /\ globals \subseteq Structures \cup {"fat"}
  /\ globals # {} => InKernel(First) /\ Structures \subseteq globals
  /\ released => globals # {}
  /\ \A p \in Proc : Passed(p, KernelPhase) => released
  /\ "fat" \in globals <=> Passed(First, KernelPhase + 2)
  /\ schedulers = {p \in Proc : Passed(p, KernelPhase)}
  /\ timers = {p \in Proc : Passed(p, KernelPhase + 2) /\ OnProc(p) # {}}
  /\ epc = [p \in Proc |-> IF phase[p] # User THEN "none"
                            ELSE IF ActiveOf(p) = {} THEN "idle" ELSE "code"]

\* StartsInOrder says what the processors find when they enter a phase: it is
\* preserved only because every table follows from the work done in the phases
\* before, and because no processor is a barrier ahead of another.
IInv == Places /\ InStep /\ Tables /\ FilesLoaded /\ KernelTables

-----------------------------------------------------------------------------
(* Sets of indices in order                                                *)

\* The rank of an element is the number of those before it: it grows with the
\* element, so that every rank is taken.
LEMMA Ranks ==
  ASSUME NEW S, IsFiniteSet(S), S \subseteq Int
  PROVE  /\ Cardinality(S) \in Nat
         /\ \A i \in S : Rank(S, i) \in 0 .. Cardinality(S) - 1
         /\ \A i, j \in S : Rank(S, i) = Rank(S, j) => i = j
         /\ \A i, j \in S : i < j => Rank(S, i) < Rank(S, j)
         /\ \A l \in 1 .. Cardinality(S) : \E i \in S : Rank(S, i) = l - 1
<1> DEFINE n == Cardinality(S)
           before(i) == {j \in S : j < i}
           place == [i \in S |-> Rank(S, i)]
<1>1. n \in Nat
  BY FS_CardinalityType
<1>2. ASSUME NEW i \in S PROVE IsFiniteSet(before(i)) /\ Rank(S, i) \in Nat
  <2>1. IsFiniteSet(before(i))
    BY FS_Subset
  <2> QED
    BY <2>1, FS_CardinalityType DEF Rank
<1>3. ASSUME NEW i \in S, NEW j \in S, i < j PROVE Rank(S, i) < Rank(S, j)
  <2>1. IsFiniteSet(before(i)) /\ IsFiniteSet(before(j)) /\ Rank(S, i) \in Nat
    BY <1>2
  <2>2. i \notin before(i)
    OBVIOUS
  <2>3. before(i) \cup {i} \subseteq before(j)
    <3>1. ASSUME NEW k \in before(i) PROVE k \in before(j)
      <4>1. k \in Int /\ i \in Int /\ j \in Int /\ k < i
        OBVIOUS
      <4> QED
        BY <1>3, <4>1
    <3>2. i \in before(j)
      BY <1>3
    <3> QED
      BY <3>1, <3>2
  <2>4. IsFiniteSet(before(i) \cup {i}) /\ Cardinality(before(i) \cup {i}) = Rank(S, i) + 1
    BY <2>1, <2>2, FS_AddElement DEF Rank
  <2>5. Cardinality(before(i) \cup {i}) <= Cardinality(before(j))
    BY <2>1, <2>3, FS_Subset
  <2> QED
    BY <1>2, <2>1, <2>4, <2>5 DEF Rank
<1>4. ASSUME NEW i \in S PROVE Rank(S, i) \in 0 .. n - 1
  <2>1. before(i) \cup {i} \subseteq S /\ i \notin before(i)
    OBVIOUS
  <2>2. Cardinality(before(i) \cup {i}) = Rank(S, i) + 1
    BY <1>2, <2>1, FS_AddElement DEF Rank
  <2>3. Cardinality(before(i) \cup {i}) <= n
    BY <2>1, FS_Subset
  <2> HIDE DEF before, n
  <2> QED
    BY <1>1, <1>2, <2>2, <2>3
<1>5. ASSUME NEW i \in S, NEW j \in S, Rank(S, i) = Rank(S, j) PROVE i = j
  <2>1. i \in Int /\ j \in Int /\ Rank(S, i) \in Nat /\ Rank(S, j) \in Nat
    BY <1>2
  <2>2. ~(i < j) /\ ~(j < i)
    BY <1>3, <1>5, <2>1
  <2> QED
    BY <2>1, <2>2
<1>6. place \in Injection(S, 0 .. n - 1)
  BY <1>4, <1>5 DEF Injection, IsInjective
<1>7. IsFiniteSet(0 .. n - 1) /\ Cardinality(0 .. n - 1) = n
  BY <1>1, FS_Interval
<1>8. place \in Surjection(S, 0 .. n - 1)
  <2> HIDE DEF place
  <2> QED
    BY <1>6, <1>7, FS_Injection
<1>9. ASSUME NEW l \in 1 .. n PROVE \E i \in S : Rank(S, i) = l - 1
  <2>1. l - 1 \in 0 .. n - 1
    BY <1>1
  <2> QED
    BY <2>1, <1>8 DEF Surjection
<1> QED
  BY <1>1, <1>3, <1>4, <1>5, <1>9

\* The l-th element of a set has rank l - 1.
LEMMA Ordered ==
  ASSUME NEW S, IsFiniteSet(S), S \subseteq Int
  PROVE  /\ Cardinality(S) \in Nat
         /\ DOMAIN InOrder(S) = 1 .. Cardinality(S)
         /\ Len(InOrder(S)) = Cardinality(S)
         /\ InOrder(S) \in Seq(S)
         /\ \A l \in 1 .. Cardinality(S) :
              InOrder(S)[l] \in S /\ Rank(S, InOrder(S)[l]) = l - 1
         /\ \A i \in S : /\ Rank(S, i) + 1 \in 1 .. Cardinality(S)
                         /\ InOrder(S)[Rank(S, i) + 1] = i
<1> DEFINE n == Cardinality(S)
<1>1. /\ n \in Nat
      /\ \A i \in S : Rank(S, i) \in 0 .. n - 1
      /\ \A i, j \in S : Rank(S, i) = Rank(S, j) => i = j
      /\ \A l \in 1 .. n : \E i \in S : Rank(S, i) = l - 1
  BY Ranks
<1>2. InOrder(S) = [l \in 1 .. n |-> CHOOSE i \in S : Rank(S, i) = l - 1]
  BY DEF InOrder
<1>3. ASSUME NEW l \in 1 .. n
      PROVE  InOrder(S)[l] \in S /\ Rank(S, InOrder(S)[l]) = l - 1
  <2>1. InOrder(S)[l] = CHOOSE i \in S : Rank(S, i) = l - 1
    BY <1>2
  <2>2. \E i \in S : Rank(S, i) = l - 1
    BY <1>1
  <2> QED
    BY <2>1, <2>2
<1>4. InOrder(S) \in [1 .. n -> S]
  BY <1>2, <1>3
<1>5. InOrder(S) \in Seq(S) /\ Len(InOrder(S)) = n /\ DOMAIN InOrder(S) = 1 .. n
  <2> HIDE DEF n
  <2>1. InOrder(S) \in Seq(S)
    BY <1>1, <1>4
  <2>2. DOMAIN InOrder(S) = 1 .. n
    BY <1>4
  <2> QED
    BY <1>1, <2>1, <2>2, LenProperties
<1>6. ASSUME NEW i \in S
      PROVE  Rank(S, i) + 1 \in 1 .. n /\ InOrder(S)[Rank(S, i) + 1] = i
  <2> DEFINE l == Rank(S, i) + 1
  <2>1. l \in 1 .. n /\ l - 1 = Rank(S, i)
    BY <1>1
  <2> HIDE DEF l
  <2>2. InOrder(S)[l] \in S /\ Rank(S, InOrder(S)[l]) = Rank(S, i)
    BY <1>3, <2>1
  <2>3. InOrder(S)[l] = i
    BY <1>1, <2>2
  <2> QED
    BY <2>1, <2>3 DEF l
<1> QED
  BY <1>1, <1>3, <1>5, <1>6

\* A set of indices that is not empty has a first element, of rank 0.
LEMMA FirstOf ==
  ASSUME NEW S, IsFiniteSet(S), S \subseteq Int, S # {}
  PROVE  Min(S) \in S /\ \A j \in S : Min(S) <= j
<1>1. Cardinality(S) \in Nat /\ Cardinality(S) # 0
  BY FS_CardinalityType, FS_EmptySet
<1>2. /\ \A i \in S : Rank(S, i) \in 0 .. Cardinality(S) - 1
      /\ \A i, j \in S : i < j => Rank(S, i) < Rank(S, j)
      /\ \A l \in 1 .. Cardinality(S) : \E i \in S : Rank(S, i) = l - 1
  BY Ranks
<1>3. PICK i \in S : Rank(S, i) = 0
  <2>1. 1 \in 1 .. Cardinality(S)
    BY <1>1
  <2> QED
    BY <1>2, <2>1
<1>4. ASSUME NEW j \in S PROVE i <= j
  <2>1. Rank(S, j) \in Nat /\ i \in Int /\ j \in Int
    BY <1>1, <1>2
  <2> QED
    BY <1>2, <1>3, <2>1
<1> QED
  BY <1>4 DEF Min

-----------------------------------------------------------------------------
(* The constants                                                           *)

LEMMA Phases ==
  ASSUME StartupAssumption
  PROVE  /\ BootEnd = 2 * Spaces + 4 /\ BootEnd \in Nat /\ Spaces \in Nat \ {0}
         /\ WakePhase = BootEnd + 1 /\ KernelPhase = BootEnd + 2 /\ User = BootEnd + 6
         /\ Files = 0 .. Spaces
<1>1. Spaces \in Nat \ {0}
  BY DEF StartupAssumption
<1>2. Cardinality(Files) = Spaces + 1
  BY <1>1, FS_Interval DEF Files
<1> QED
  BY <1>1, <1>2 DEF BootEnd, WakePhase, KernelPhase, User, Files

LEMMA Processors ==
  ASSUME StartupAssumption
  PROVE  /\ First \in Leaders
         /\ \A p \in Proc : Lead(p) \in Leaders /\ Lead(p)[1] = p[1]
                          /\ (Leader(p) <=> p = Lead(p))
         /\ \A c \in 0 .. Clusters - 1 : <<c, 0>> \in Leaders
         /\ Leaders \subseteq Proc
         /\ \A p \in Leaders : Lead(p) = p /\ Leader(p) /\ p[1] \in 0 .. Clusters - 1
<1>1. Clusters \in Nat \ {0} /\ NbProcs \in Nat \ {0}
  BY DEF StartupAssumption
<1>2. 0 \in 0 .. Clusters - 1 /\ 0 \in 0 .. NbProcs - 1
  BY <1>1
<1> QED
  BY <1>2 DEF First, Leaders, Lead, Leader, Proc

LEMMA TasksInOrder ==
  ASSUME StartupAssumption, NEW p \in Proc
  PROVE  /\ Cardinality(OnProc(p)) \in 0 .. IDLE_TASK_INDEX - 1
         /\ Len(TasksOf(p)) = Cardinality(OnProc(p))
         /\ DOMAIN TasksOf(p) = 1 .. Cardinality(OnProc(p))
         /\ \A l \in DOMAIN TasksOf(p) :
              /\ TasksOf(p)[l] \in DOMAIN Tasks /\ Tasks[TasksOf(p)[l]].proc = p
              /\ LtidOf(TasksOf(p)[l]) = l - 1
         /\ \A i \in OnProc(p) :
              LtidOf(i) + 1 \in DOMAIN TasksOf(p) /\ TasksOf(p)[LtidOf(i) + 1] = i
         /\ TasksOf(p) = NoContext <=> OnProc(p) = {}
<1>1. IsFiniteSet(OnProc(p)) /\ OnProc(p) \subseteq Int
  <2>1. IsFiniteSet(1 .. Len(Tasks)) /\ 1 .. Len(Tasks) \subseteq Int
    BY FS_Interval DEF StartupAssumption
  <2>2. OnProc(p) \subseteq 1 .. Len(Tasks)
    BY DEF OnProc, StartupAssumption
  <2> QED
    BY <2>1, <2>2, FS_Subset
<1>2. /\ Cardinality(OnProc(p)) \in Nat
      /\ DOMAIN TasksOf(p) = 1 .. Cardinality(OnProc(p))
      /\ Len(TasksOf(p)) = Cardinality(OnProc(p)) /\ TasksOf(p) \in Seq(OnProc(p))
      /\ \A l \in 1 .. Cardinality(OnProc(p)) :
           TasksOf(p)[l] \in OnProc(p) /\ Rank(OnProc(p), TasksOf(p)[l]) = l - 1
      /\ \A i \in OnProc(p) : /\ Rank(OnProc(p), i) + 1 \in 1 .. Cardinality(OnProc(p))
                             /\ TasksOf(p)[Rank(OnProc(p), i) + 1] = i
  BY <1>1, Ordered DEF TasksOf
<1>3. Len(TasksOf(p)) < IDLE_TASK_INDEX
  BY DEF StartupAssumption
<1>4. Cardinality(OnProc(p)) \in 0 .. IDLE_TASK_INDEX - 1
  <2>1. Cardinality(OnProc(p)) \in Nat /\ Cardinality(OnProc(p)) < IDLE_TASK_INDEX
    BY <1>2, <1>3
  <2> QED
    BY ONLY <2>1 DEF IDLE_TASK_INDEX
<1>5. \A i \in OnProc(p) : i \in DOMAIN Tasks /\ Tasks[i].proc = p /\ LtidOf(i) = Rank(OnProc(p), i)
  BY DEF OnProc, LtidOf
<1>6. TasksOf(p) = NoContext <=> OnProc(p) = {}
  <2>1. TasksOf(p) = <<>> <=> Len(TasksOf(p)) = 0
    BY <1>2, EmptySeq
  <2>2. Cardinality(OnProc(p)) = 0 <=> OnProc(p) = {}
    BY <1>1, FS_EmptySet
  <2> QED
    BY <1>2, <2>1, <2>2 DEF NoContext
<1> QED
  BY <1>2, <1>4, <1>5, <1>6

\* The rank of a task on its processor is a number.
LEMMA TypeOfLtid ==
  ASSUME StartupAssumption, NEW i \in DOMAIN Tasks
  PROVE  LtidOf(i) \in 0 .. IDLE_TASK_INDEX - 1
<1> DEFINE p == Tasks[i].proc
<1>1. p \in Proc /\ i \in OnProc(p)
  BY DEF StartupAssumption, OnProc
<1>2. /\ LtidOf(i) + 1 \in 1 .. Cardinality(OnProc(p))
      /\ Cardinality(OnProc(p)) \in 0 .. IDLE_TASK_INDEX - 1
  BY <1>1, TasksInOrder
<1>3. LtidOf(i) \in Nat
  <2>1. IsFiniteSet(OnProc(p)) /\ OnProc(p) \subseteq Int
    <3>1. IsFiniteSet(1 .. Len(Tasks)) /\ 1 .. Len(Tasks) \subseteq Int
      BY FS_Interval DEF StartupAssumption
    <3>2. OnProc(p) \subseteq 1 .. Len(Tasks)
      BY DEF OnProc, StartupAssumption
    <3> QED
      BY <3>1, <3>2, FS_Subset
  <2> QED
    BY <1>1, <2>1, Ranks DEF LtidOf
<1> QED
  BY <1>2, <1>3 DEF IDLE_TASK_INDEX

\* The active tasks of a processor, by their places among its tasks.
LEMMA ActiveFacts ==
  ASSUME StartupAssumption, NEW p \in Proc
  PROVE  /\ IsFiniteSet(ActiveOf(p)) /\ ActiveOf(p) \subseteq Int
         /\ ActiveOf(p) \subseteq 1 .. IDLE_TASK_INDEX - 1
<1>1. /\ DOMAIN TasksOf(p) = 1 .. Cardinality(OnProc(p))
      /\ Cardinality(OnProc(p)) \in 0 .. IDLE_TASK_INDEX - 1
  BY TasksInOrder
<1>2. DOMAIN TasksOf(p) \subseteq 1 .. IDLE_TASK_INDEX - 1
  BY ONLY <1>1 DEF IDLE_TASK_INDEX
<1>3. ActiveOf(p) \subseteq 1 .. IDLE_TASK_INDEX - 1
  BY <1>2 DEF ActiveOf
<1>4. IsFiniteSet(1 .. IDLE_TASK_INDEX - 1) /\ 1 .. IDLE_TASK_INDEX - 1 \subseteq Int
  <2>1. 1 \in Int /\ IDLE_TASK_INDEX - 1 \in Int
    BY DEF IDLE_TASK_INDEX
  <2> QED
    BY <2>1, FS_Interval
<1> QED
  BY <1>3, <1>4, FS_Subset

-----------------------------------------------------------------------------
(* How the steps change what has been done                                 *)

LEMMA FinishPasses ==
  ASSUME StartupAssumption, Places, NEW p \in Proc, p \notin done, Finish(p)
  PROVE  /\ Passed(p, phase[p])'
         /\ \A q \in Proc : \A k \in Int :
              (q # p \/ k # phase[p]) => (Passed(q, k)' <=> Passed(q, k))
BY Phases DEF Places, Finish, Passed

LEMMA CrossPasses ==
  ASSUME StartupAssumption, Places, NEW p \in Proc, Cross(p)
  PROVE  \A q \in Proc : \A k \in Int : Passed(q, k)' <=> Passed(q, k)
<1>1. /\ phase' = [phase EXCEPT ![p] = phase[p] + 1] /\ done' = done \ {p}
      /\ p \in done /\ phase \in [Proc -> 0 .. User]
  BY DEF Cross, Places
<1>2. \A q \in Proc : phase[q] \in Int
  BY <1>1, Phases
<1>3. ASSUME NEW q \in Proc, NEW k \in Int PROVE Passed(q, k)' <=> Passed(q, k)
  <2>1. CASE q = p
    <3>1. phase'[p] = phase[p] + 1 /\ p \notin done' /\ phase[p] \in Int
      BY <1>1, <1>2
    <3> QED
      BY <1>1, <2>1, <3>1 DEF Passed
  <2>2. CASE q # p
    <3>1. phase'[q] = phase[q] /\ (q \in done' <=> q \in done)
      BY <1>1, <2>2
    <3> QED
      BY <3>1 DEF Passed
  <2> QED
    BY <2>1, <2>2
<1> QED
  BY <1>3

\* A wake-up moves a cluster from WakePhase, where nobody waits, to the kernel.
LEMMA WakePasses ==
  ASSUME StartupAssumption, Places, NEW p \in Proc, WakeUp(p)
  PROVE  /\ \A q \in ProcsOf(p[1]) : phase[q] = WakePhase /\ q \notin done
         /\ \A q \in Proc : \A k \in Int \ {WakePhase} : Passed(q, k)' <=> Passed(q, k)
<1>1. /\ p \in Leaders /\ p = Lead(p) /\ phase[p] = WakePhase
      /\ phase' = [q \in Proc |-> IF q[1] = p[1] THEN KernelPhase ELSE phase[q]]
      /\ done' = done /\ phase \in [Proc -> 0 .. User]
      /\ BootEnd \in Nat /\ WakePhase = BootEnd + 1 /\ KernelPhase = BootEnd + 2 /\ User = BootEnd + 6
  BY Phases, Processors DEF WakeUp, Places, Leaders
<1>2. ASSUME NEW q \in ProcsOf(p[1]) PROVE phase[q] = WakePhase /\ q \notin done
  <2>1. q \in Proc /\ q[1] = p[1] /\ Lead(q) = p
    BY <1>1 DEF ProcsOf, Lead
  <2>2. ~InKernel(q)
    BY <1>1, <2>1 DEF Places, InKernel
  <2>3. phase[q] >= WakePhase
    <3>1. CASE Leader(q)
      BY <1>1, <2>1, <3>1, Processors
    <3>2. CASE ~Leader(q)
      BY <2>1, <3>2 DEF Places
    <3> QED
      BY <3>1, <3>2
  <2>4. phase[q] = WakePhase
    BY <1>1, <2>1, <2>2, <2>3 DEF InKernel
  <2> QED
    BY <1>1, <2>4 DEF Places
<1>3. ASSUME NEW q \in Proc, NEW k \in Int \ {WakePhase} PROVE Passed(q, k)' <=> Passed(q, k)
  <2>1. CASE q[1] = p[1]
    <3>1. phase'[q] = KernelPhase /\ phase[q] = WakePhase /\ q \notin done /\ q \notin done'
      BY <1>1, <1>2, <2>1 DEF ProcsOf
    <3> QED
      BY <1>1, <3>1 DEF Passed
  <2>2. CASE q[1] # p[1]
    BY <1>1, <2>2 DEF Passed
  <2> QED
    BY <2>1, <2>2
<1> QED
  BY <1>2, <1>3

LEMMA ElectPasses ==
  ASSUME StartupAssumption, Places, NEW p \in Proc, Elect(p)
  PROVE  \A q \in Proc : \A k \in Int \ {KernelPhase + 3} : Passed(q, k)' <=> Passed(q, k)
<1>1. /\ phase' = [phase EXCEPT ![p] = User] /\ done' = done /\ phase[p] = KernelPhase + 3
      /\ phase \in [Proc -> 0 .. User] /\ p \notin done
      /\ BootEnd \in Nat /\ KernelPhase = BootEnd + 2 /\ User = BootEnd + 6
  BY Phases DEF Elect, Places
<1>2. ASSUME NEW q \in Proc, NEW k \in Int \ {KernelPhase + 3}
      PROVE  Passed(q, k)' <=> Passed(q, k)
  <2>1. CASE q = p
    BY <1>1, <2>1 DEF Passed
  <2>2. CASE q # p
    BY <1>1, <2>2 DEF Passed
  <2> QED
    BY <2>1, <2>2
<1> QED
  BY <1>2

\* A processor finishes its work at a barrier only.
AtBarrier(p) == p \notin done /\ (phase[p] <= BootEnd \/ phase[p] \in KernelPhase .. KernelPhase + 2)

LEMMA FinishKeepsStep ==
  ASSUME StartupAssumption, Places, InStep, NEW p \in Proc, AtBarrier(p), Finish(p)
  PROVE  Places' /\ InStep'
<1>1. /\ done' = done \cup {p} /\ phase' = phase
      /\ \A q \in Proc : \A k \in Int : Passed(q, k) => Passed(q, k)'
  BY DEF Finish, Passed
<1>2. Places'
  BY <1>1 DEF Places, AtBarrier, InKernel
<1>3. BootEnd \in Nat /\ KernelPhase \in Nat /\ Leaders \subseteq Proc
  BY Phases, Processors
<1>4. InStep'
  <2>1. ASSUME NEW q \in Leaders, NEW r \in Leaders, NEW k \in 0 .. BootEnd, phase'[q] > k
        PROVE  Passed(r, k)'
    BY <1>1, <1>3, <2>1 DEF InStep
  <2>2. ASSUME NEW q \in Proc, NEW r \in Proc, NEW k \in KernelPhase .. KernelPhase + 2,
               phase'[q] > k
        PROVE  Passed(r, k)'
    BY <1>1, <1>3, <2>2 DEF InStep
  <2> QED
    BY <2>1, <2>2 DEF InStep
<1> QED
  BY <1>2, <1>4

LEMMA CrossKeepsStep ==
  ASSUME StartupAssumption, Places, InStep, NEW p \in Proc, Cross(p)
  PROVE  Places' /\ InStep'
<1>1. /\ phase' = [phase EXCEPT ![p] = phase[p] + 1] /\ done' = done \ {p}
      /\ p \in done /\ phase \in [Proc -> 0 .. User] /\ done \subseteq Proc
      /\ \A q \in Party(p) : Passed(q, phase[p])
      /\ phase[p] <= BootEnd \/ phase[p] \in KernelPhase .. KernelPhase + 2
  BY DEF Cross, Places
<1>2. /\ BootEnd \in Nat /\ WakePhase = BootEnd + 1 /\ KernelPhase = BootEnd + 2
      /\ User = BootEnd + 6 /\ Leaders \subseteq Proc
      /\ \A q \in Proc : Lead(q) \in Proc /\ phase[q] \in Int
  BY <1>1, Phases, Processors
<1>3. /\ phase'[p] = phase[p] + 1 /\ phase'[p] \in 0 .. User
      /\ \A q \in Proc : q # p => phase'[q] = phase[q]
      /\ phase[p] >= WakePhase => phase'[p] >= WakePhase
      /\ phase'[p] >= KernelPhase <=> phase[p] >= KernelPhase
  BY <1>1, <1>2
<1>4. Places'
  <2>1. phase' \in [Proc -> 0 .. User] /\ done' \subseteq Proc
    BY <1>1, <1>3
  <2>2. ASSUME NEW q \in done'
        PROVE  phase'[q] <= BootEnd \/ phase'[q] \in KernelPhase .. KernelPhase + 2
    BY <1>1, <1>3 DEF Places
  <2>3. ASSUME NEW q \in Proc, ~Leader(q) PROVE phase'[q] >= WakePhase
    BY <1>1, <1>3, <2>3 DEF Places
  <2>4. \A q \in Proc : InKernel(q)' <=> InKernel(q)
    BY <1>3 DEF InKernel
  <2>5. \A q \in Proc : InKernel(q)' <=> InKernel(Lead(q))'
    BY <1>2, <2>4 DEF Places
  <2> QED
    BY <2>1, <2>2, <2>3, <2>5 DEF Places
<1>5. \A q \in Proc : \A k \in Int : Passed(q, k)' <=> Passed(q, k)
  BY CrossPasses
<1>6. InStep'
  <2>1. ASSUME NEW q \in Leaders, NEW r \in Leaders, NEW k \in 0 .. BootEnd, phase'[q] > k
        PROVE  Passed(r, k)'
    <3>1. CASE phase[q] > k
      BY <1>2, <1>5, <3>1 DEF InStep
    <3>2. CASE ~(phase[q] > k)
      <4>1. q = p /\ phase[p] = k
        BY <1>2, <1>3, <2>1, <3>2
      <4>2. Party(p) = Leaders
        BY <1>2, <4>1 DEF Party
      <4> QED
        BY <1>1, <1>2, <1>5, <4>1, <4>2
    <3> QED
      BY <3>1, <3>2
  <2>2. ASSUME NEW q \in Proc, NEW r \in Proc, NEW k \in KernelPhase .. KernelPhase + 2,
               phase'[q] > k
        PROVE  Passed(r, k)'
    <3>1. CASE phase[q] > k
      BY <1>2, <1>5, <3>1 DEF InStep
    <3>2. CASE ~(phase[q] > k)
      <4>1. q = p /\ phase[p] = k
        BY <1>2, <1>3, <2>2, <3>2
      <4>2. Party(p) = Proc
        BY <1>2, <4>1 DEF Party
      <4> QED
        BY <1>1, <1>2, <1>5, <4>1, <4>2
    <3> QED
      BY <3>1, <3>2
  <2> QED
    BY <2>1, <2>2 DEF InStep
<1> QED
  BY <1>4, <1>6

\* P[x,y,0] wakes its cluster up when all the leaders have loaded the files.
LEMMA WakeKeepsStep ==
  ASSUME StartupAssumption, Places, InStep, NEW p \in Proc, WakeUp(p)
  PROVE  Places' /\ InStep'
<1>1. /\ p \in Leaders /\ phase[p] = WakePhase /\ done' = done
      /\ phase' = [q \in Proc |-> IF q[1] = p[1] THEN KernelPhase ELSE phase[q]]
      /\ phase \in [Proc -> 0 .. User]
  BY DEF WakeUp, Places, Leaders
<1>2. /\ BootEnd \in Nat /\ WakePhase = BootEnd + 1 /\ KernelPhase = BootEnd + 2
      /\ User = BootEnd + 6 /\ Leaders \subseteq Proc
      /\ \A q \in Proc : Lead(q) \in Proc /\ Lead(q)[1] = q[1] /\ phase[q] \in Int
  BY <1>1, Phases, Processors
<1>3. /\ \A q \in Proc : q[1] = p[1] => phase[q] = WakePhase /\ q \notin done
      /\ \A q \in Proc : \A k \in Int \ {WakePhase} : Passed(q, k)' <=> Passed(q, k)
  BY WakePasses DEF ProcsOf
<1>4. \A q \in Proc : phase'[q] = IF q[1] = p[1] THEN KernelPhase ELSE phase[q]
  BY <1>1
<1>5. Places'
  <2>1. phase' \in [Proc -> 0 .. User] /\ done' \subseteq Proc
    BY <1>1, <1>2 DEF Places
  <2>2. ASSUME NEW q \in done'
        PROVE  phase'[q] <= BootEnd \/ phase'[q] \in KernelPhase .. KernelPhase + 2
    BY <1>1, <1>3, <1>4 DEF Places
  <2>3. ASSUME NEW q \in Proc, ~Leader(q) PROVE phase'[q] >= WakePhase
    BY <1>2, <1>4, <2>3 DEF Places
  <2>4. ASSUME NEW q \in Proc PROVE InKernel(q)' <=> InKernel(Lead(q))'
    <3>1. InKernel(q) <=> InKernel(Lead(q))
      BY DEF Places
    <3> QED
      BY <1>2, <1>4, <3>1 DEF InKernel
  <2> QED
    BY <2>1, <2>2, <2>3, <2>4 DEF Places
<1>6. InStep'
  <2>1. ASSUME NEW q \in Leaders, NEW r \in Leaders, NEW k \in 0 .. BootEnd, phase'[q] > k
        PROVE  Passed(r, k)'
    <3>1. phase[q] > k
      BY <1>2, <1>3, <1>4, <2>1
    <3> QED
      BY <1>2, <1>3, <3>1 DEF InStep
  <2>2. ASSUME NEW q \in Proc, NEW r \in Proc, NEW k \in KernelPhase .. KernelPhase + 2,
               phase'[q] > k
        PROVE  Passed(r, k)'
    <3>1. phase[q] > k
      BY <1>2, <1>3, <1>4, <2>2
    <3> QED
      BY <1>2, <1>3, <3>1 DEF InStep
  <2> QED
    BY <2>1, <2>2 DEF InStep
<1> QED
  BY <1>5, <1>6

LEMMA ElectKeepsStep ==
  ASSUME StartupAssumption, Places, InStep, NEW p \in Proc, Elect(p)
  PROVE  Places' /\ InStep'
<1>1. /\ phase' = [phase EXCEPT ![p] = User] /\ done' = done /\ phase[p] = KernelPhase + 3
      /\ phase \in [Proc -> 0 .. User] /\ p \notin done
  BY Phases DEF Elect, Places
<1>2. /\ BootEnd \in Nat /\ WakePhase = BootEnd + 1 /\ KernelPhase = BootEnd + 2
      /\ User = BootEnd + 6 /\ Leaders \subseteq Proc
      /\ \A q \in Proc : Lead(q) \in Proc /\ phase[q] \in Int
  <2>1. /\ BootEnd \in Nat /\ WakePhase = BootEnd + 1 /\ KernelPhase = BootEnd + 2
        /\ User = BootEnd + 6
    BY Phases
  <2>2. Leaders \subseteq Proc /\ \A q \in Proc : Lead(q) \in Proc
    BY Processors
  <2>3. \A q \in Proc : phase[q] \in Int
    BY <1>1, <2>1
  <2> QED
    BY <2>1, <2>2, <2>3
<1>3. phase'[p] = User /\ \A q \in Proc : q # p => phase'[q] = phase[q]
  BY <1>1
<1>4. Places'
  <2>1. phase' \in [Proc -> 0 .. User] /\ done' \subseteq Proc
    BY <1>1, <1>2 DEF Places
  <2>2. ASSUME NEW q \in done'
        PROVE  phase'[q] <= BootEnd \/ phase'[q] \in KernelPhase .. KernelPhase + 2
    BY <1>1, <1>3 DEF Places
  <2>3. ASSUME NEW q \in Proc, ~Leader(q) PROVE phase'[q] >= WakePhase
    BY <1>2, <1>3, <2>3 DEF Places
  <2>4. \A q \in Proc : InKernel(q)' <=> InKernel(q)
    BY <1>1, <1>2, <1>3 DEF InKernel
  <2>5. \A q \in Proc : InKernel(q)' <=> InKernel(Lead(q))'
    BY <1>2, <2>4 DEF Places
  <2> QED
    BY <2>1, <2>2, <2>3, <2>5 DEF Places
<1>5. \A q \in Proc : \A k \in Int \ {KernelPhase + 3} : Passed(q, k)' <=> Passed(q, k)
  BY ElectPasses
<1>6. InStep'
  <2>1. ASSUME NEW q \in Leaders, NEW r \in Leaders, NEW k \in 0 .. BootEnd, phase'[q] > k
        PROVE  Passed(r, k)'
    <3>1. phase[q] > k
      BY <1>1, <1>2, <1>3, <2>1
    <3> QED
      BY <1>2, <1>5, <3>1 DEF InStep
  <2>2. ASSUME NEW q \in Proc, NEW r \in Proc, NEW k \in KernelPhase .. KernelPhase + 2,
               phase'[q] > k
        PROVE  Passed(r, k)'
    <3>1. phase[q] > k
      BY <1>1, <1>2, <1>3, <2>2
    <3> QED
      BY <1>2, <1>5, <3>1 DEF InStep
  <2> QED
    BY <2>1, <2>2 DEF InStep
<1> QED
  BY <1>4, <1>6

-----------------------------------------------------------------------------
(* Steps that leave the tables as they are                                 *)

\* What the tables of processor q depend on.
SameWork(q) ==
  /\ Passed(Lead(q), 0)' <=> Passed(Lead(q), 0)
  /\ Passed(Lead(q), 1)' <=> Passed(Lead(q), 1)
  /\ Passed(q, KernelPhase + 1)' <=> Passed(q, KernelPhase + 1)
  /\ Passed(q, KernelPhase + 2)' <=> Passed(q, KernelPhase + 2)
  /\ (phase'[q] = User) <=> (phase[q] = User)

LEMMA SameScheduler ==
  ASSUME NEW q \in Proc, SameWork(q), globals' = {} <=> globals = {}
  PROVE  SchedulerOf(q)' = SchedulerOf(q)
<1>1. CurrentOf(q)' = CurrentOf(q)
  BY DEF CurrentOf, SameWork, Elected, ActiveOf, User, KernelPhase, WakePhase, BootEnd
<1>2. ContextsOf(q)' = ContextsOf(q)
  <2>1. Passed(q, KernelPhase + 1)' = Passed(q, KernelPhase + 1)
    BY DEF SameWork, Passed
  <2> QED
    BY <2>1 DEF ContextsOf, SameWork
<1>3. Passed(q, KernelPhase + 2)' = Passed(q, KernelPhase + 2)
  BY DEF SameWork, Passed
<1>4. VectorOf(q)' = VectorOf(q)
  BY DEF VectorOf, SameWork, Handed, HwiOf
<1> QED
  BY <1>1, <1>2, <1>3, <1>4 DEF SchedulerOf

LEMMA TablesStay ==
  ASSUME StartupAssumption, Tables, UNCHANGED <<psched, mask, ltid>>,
         \A q \in Proc : SameWork(q), globals' = {} <=> globals = {}
  PROVE  Tables'
<1>1. \A q \in Proc : SchedulerOf(q)' = SchedulerOf(q)
  BY SameScheduler
<1>2. \A q \in Proc : /\ Passed(Lead(q), 0)' <=> Passed(Lead(q), 0)
                      /\ Passed(Lead(q), 1)' <=> Passed(Lead(q), 1)
  BY DEF SameWork
<1>3. \A i \in DOMAIN Tasks : Tasks[i].proc \in Proc
  BY DEF StartupAssumption
<1>4. (psched = [p \in Proc |-> SchedulerOf(p)])'
  BY <1>1 DEF Tables
<1>5. (mask = [p \in Proc |-> IF Passed(Lead(p), 0) THEN Handed(p) \cup Boxes ELSE {}])'
  BY <1>2 DEF Tables, Handed, HwiOf
<1>6. (ltid = [i \in DOMAIN Tasks |-> IF Passed(Lead(Tasks[i].proc), 1) THEN LtidOf(i) ELSE -1])'
  BY <1>2, <1>3 DEF Tables, LtidOf
<1> QED
  BY <1>4, <1>5, <1>6 DEF Tables

LEMMA FilesStay ==
  ASSUME StartupAssumption, FilesLoaded, UNCHANGED <<buffer, loaded>>,
         \A q \in Leaders : \A k \in 2 .. BootEnd - 1 : Passed(q, k)' <=> Passed(q, k),
         Passed(First, BootEnd) => Passed(First, BootEnd)'
  PROVE  FilesLoaded'
<1>1. /\ BootEnd = 2 * Spaces + 4 /\ Spaces \in Nat /\ Files = 0 .. Spaces /\ First \in Leaders
      /\ \A c \in 0 .. Clusters - 1 : <<c, 0>> \in Leaders
  BY Phases, Processors
<1>2. ASSUME NEW f \in Files, Passed(First, 2 * f + 2)', ~Passed(First, 2 * f + 4)'
      PROVE  buffer' = f
  <2>1. 2 * f + 2 \in 2 .. BootEnd - 1 /\ (2 * f + 4 \in 2 .. BootEnd - 1 \/ 2 * f + 4 = BootEnd)
    BY <1>1
  <2>2. Passed(First, 2 * f + 2) /\ ~Passed(First, 2 * f + 4)
    BY <1>1, <1>2, <2>1
  <2> QED
    BY <2>2 DEF FilesLoaded
<1>3. ASSUME NEW s \in DOMAIN Segments,
             Passed(<<Segments[s].cluster, 0>>, 2 * Segments[s].file + 3)'
      PROVE  loaded'[s] = Segments[s].file
  <2>1. Segments[s].file \in Files /\ Segments[s].cluster \in 0 .. Clusters - 1
    BY DEF StartupAssumption
  <2>2. <<Segments[s].cluster, 0>> \in Leaders /\ 2 * Segments[s].file + 3 \in 2 .. BootEnd - 1
    BY <1>1, <2>1
  <2>3. Passed(<<Segments[s].cluster, 0>>, 2 * Segments[s].file + 3)
    BY <1>3, <2>2
  <2> QED
    BY <2>3 DEF FilesLoaded
<1> QED
  BY <1>2, <1>3 DEF FilesLoaded

LEMMA KernelStays ==
  ASSUME StartupAssumption, KernelTables,
         UNCHANGED <<globals, released, schedulers, timers, epc>>,
         \A q \in Proc :
           /\ Passed(q, KernelPhase)' <=> Passed(q, KernelPhase)
           /\ Passed(q, KernelPhase + 2)' <=> Passed(q, KernelPhase + 2)
           /\ (phase'[q] = User) <=> (phase[q] = User),
         InKernel(First) => InKernel(First)'
  PROVE  KernelTables'
<1>1. First \in Proc
  BY Processors
<1>2. /\ User' = User /\ KernelPhase' = KernelPhase /\ First' = First
      /\ Structures' = Structures /\ Proc' = Proc
      /\ \A p \in Proc : OnProc(p)' = OnProc(p) /\ ActiveOf(p)' = ActiveOf(p)
  BY DEF User, KernelPhase, WakePhase, BootEnd, Files, First, Structures, Proc, OnProc,
         ActiveOf, TasksOf, InOrder, Rank
<1>3. /\ globals' \subseteq Structures \cup {"fat"}
      /\ globals' # {} => InKernel(First)' /\ Structures \subseteq globals'
      /\ released' => globals' # {}
      /\ \A p \in Proc : Passed(p, KernelPhase)' => released'
      /\ "fat" \in globals' <=> Passed(First, KernelPhase + 2)'
  BY <1>1 DEF KernelTables
<1>4. schedulers' = {p \in Proc : Passed(p, KernelPhase)'}
  BY DEF KernelTables
<1>5. timers' = {p \in Proc : Passed(p, KernelPhase + 2)' /\ OnProc(p) # {}}
  BY DEF KernelTables
<1>6. epc' = [p \in Proc |-> IF phase'[p] # User THEN "none"
                            ELSE IF ActiveOf(p) = {} THEN "idle" ELSE "code"]
  BY DEF KernelTables
<1> QED
  BY <1>2, <1>3, <1>4, <1>5, <1>6 DEF KernelTables

-----------------------------------------------------------------------------
(* The steps of the boot loader                                            *)

\* What the end of a phase changes for the tables.
LEMMA FinishSame ==
  ASSUME StartupAssumption, Places, NEW p \in Proc, AtBarrier(p), Finish(p)
  PROVE  /\ phase[p] \notin {0, 1, KernelPhase + 1, KernelPhase + 2} =>
              \A q \in Proc : SameWork(q)
         /\ phase[p] \notin 2 .. BootEnd - 1 =>
              \A q \in Leaders : \A k \in 2 .. BootEnd - 1 : Passed(q, k)' <=> Passed(q, k)
         /\ Passed(First, BootEnd) => Passed(First, BootEnd)'
         /\ phase[p] \notin {KernelPhase, KernelPhase + 2} =>
              \A q \in Proc :
                /\ Passed(q, KernelPhase)' <=> Passed(q, KernelPhase)
                /\ Passed(q, KernelPhase + 2)' <=> Passed(q, KernelPhase + 2)
                /\ (phase'[q] = User) <=> (phase[q] = User)
         /\ InKernel(First) => InKernel(First)'
<1>1. /\ \A q \in Proc : \A k \in Int :
           (q # p \/ k # phase[p]) => (Passed(q, k)' <=> Passed(q, k))
      /\ phase' = phase
  BY FinishPasses DEF Finish, AtBarrier
<1>2. /\ BootEnd \in Nat /\ WakePhase = BootEnd + 1 /\ KernelPhase = BootEnd + 2
      /\ User = BootEnd + 6 /\ Leaders \subseteq Proc /\ First \in Leaders
      /\ \A q \in Proc : Lead(q) \in Proc
  BY Phases, Processors
<1>3. ASSUME phase[p] \notin {0, 1, KernelPhase + 1, KernelPhase + 2}, NEW q \in Proc
      PROVE  SameWork(q)
  BY <1>1, <1>2, <1>3 DEF SameWork
<1>4. ASSUME phase[p] \notin 2 .. BootEnd - 1, NEW q \in Leaders, NEW k \in 2 .. BootEnd - 1
      PROVE  Passed(q, k)' <=> Passed(q, k)
  BY <1>1, <1>2, <1>4
<1>5. Passed(First, BootEnd) => Passed(First, BootEnd)'
  BY DEF Finish, Passed
<1>6. ASSUME phase[p] \notin {KernelPhase, KernelPhase + 2}, NEW q \in Proc
      PROVE  /\ Passed(q, KernelPhase)' <=> Passed(q, KernelPhase)
             /\ Passed(q, KernelPhase + 2)' <=> Passed(q, KernelPhase + 2)
             /\ (phase'[q] = User) <=> (phase[q] = User)
  BY <1>1, <1>2, <1>6
<1>7. InKernel(First) => InKernel(First)'
  BY <1>1 DEF InKernel
<1> QED
  BY <1>3, <1>4, <1>5, <1>6, <1>7

\* The processors of a cluster are those of its leader.
LEMMA Clustered ==
  ASSUME StartupAssumption, NEW p \in Leaders, NEW q \in Proc
  PROVE  Lead(q) = p <=> q[1] = p[1]
BY Processors DEF Lead

LEMMA InitSchedulersStep ==
  ASSUME StartupAssumption, IInv, NEW p \in Proc, InitSchedulers(p)
  PROVE  IInv'
<1>1. /\ p \in Leaders /\ phase[p] = 0 /\ p \notin done /\ Finish(p)
      /\ UNCHANGED <<ltid, buffer, loaded, globals, released, schedulers, timers, epc>>
      /\ phase' = phase
  BY DEF InitSchedulers, Working, Leaders, kernel, Finish
<1>2. /\ BootEnd \in Nat /\ BootEnd >= 4 /\ KernelPhase = BootEnd + 2 /\ User = BootEnd + 6
  BY Phases
<1>3. AtBarrier(p) /\ Places /\ InStep /\ Tables /\ FilesLoaded /\ KernelTables
  BY <1>1, <1>2 DEF AtBarrier, IInv
<1>4. Places' /\ InStep'
  BY <1>1, <1>3, FinishKeepsStep
<1>5. FilesLoaded'
  BY <1>1, <1>2, <1>3, FinishSame, FilesStay
<1>6. KernelTables'
  BY <1>1, <1>2, <1>3, FinishSame, KernelStays
<1>7. /\ \A q \in Proc : \A k \in Int :
           (q # p \/ k # 0) => (Passed(q, k)' <=> Passed(q, k))
      /\ Passed(p, 0)'
  BY <1>1, <1>3, FinishPasses
<1>8. \A q \in Proc : Lead(q) \in Proc /\ (Lead(q) = p <=> q[1] = p[1])
  BY <1>1, Clustered, Processors
<1>9. ASSUME NEW q \in Proc, q[1] # p[1]
      PROVE  SameWork(q)
  BY <1>1, <1>2, <1>7, <1>8, <1>9 DEF SameWork
<1>10. ASSUME NEW q \in Proc, q[1] = p[1]
       PROVE  /\ Passed(Lead(q), 0)' /\ ~Passed(Lead(q), 1)' /\ ~Passed(q, KernelPhase + 2)'
              /\ phase'[q] # User /\ (q = First => globals' = {})
  <2>1. Lead(q) = p /\ ~InKernel(q)
    <3>1. ~InKernel(p)
      BY <1>1, <1>2 DEF InKernel
    <3> QED
      BY <1>3, <1>8, <1>10, <3>1 DEF Places
  <2>2. ~Passed(p, 1)'
    BY <1>1 DEF Passed
  <2>3. phase[q] \in Int /\ phase[q] < KernelPhase
    BY <1>2, <1>3, <2>1 DEF Places, InKernel
  <2>4. ~Passed(q, KernelPhase + 2)' /\ phase'[q] # User
    BY <1>1, <1>2, <2>3 DEF Passed
  <2>5. q = First => globals' = {}
    BY <1>1, <1>3, <2>1 DEF KernelTables
  <2> QED
    BY <1>7, <2>1, <2>2, <2>4, <2>5
<1>11. Tables'
  <2>1. ASSUME NEW q \in Proc PROVE psched'[q] = SchedulerOf(q)'
    <3>1. CASE q[1] # p[1]
      <4>1. psched'[q] = psched[q]
        BY <3>1 DEF InitSchedulers
      <4> QED
        BY <1>1, <1>3, <1>9, <3>1, <4>1, SameScheduler DEF Tables
    <3>2. CASE q[1] = p[1]
      <4>1. psched'[q] = [current |-> IDLE_TASK_INDEX, context |-> NoContext, idle |-> FALSE,
                          vector |-> Handed(q)]
        BY <3>2 DEF InitSchedulers, NoScheduler, Handed
      <4>2. CurrentOf(q)' = IDLE_TASK_INDEX /\ ContextsOf(q)' = NoContext
        BY <1>10, <3>2 DEF CurrentOf, ContextsOf
      <4>3. VectorOf(q)' = Handed(q)
        BY <1>10, <3>2 DEF VectorOf, Handed, HwiOf
      <4>4. Passed(q, KernelPhase + 2)' = FALSE
        BY <1>10, <3>2
      <4> QED
        BY <4>1, <4>2, <4>3, <4>4 DEF SchedulerOf
    <3> QED
      BY <3>1, <3>2
  <2>2. psched' = [q \in Proc |-> psched'[q]]
    BY DEF InitSchedulers
  <2>3. ASSUME NEW q \in Proc
        PROVE  mask'[q] = IF Passed(Lead(q), 0)' THEN Handed(q) \cup Boxes ELSE {}
    <3>1. CASE q[1] # p[1]
      BY <1>3, <1>9, <3>1 DEF InitSchedulers, Tables, SameWork
    <3>2. CASE q[1] = p[1]
      BY <1>10, <3>2 DEF InitSchedulers, Handed
    <3> QED
      BY <3>1, <3>2
  <2>4. mask' = [q \in Proc |-> mask'[q]]
    BY DEF InitSchedulers
  <2>5. \A i \in DOMAIN Tasks : Lead(Tasks[i].proc) \in Proc
    BY <1>8 DEF StartupAssumption
  <2>6. ltid' = [i \in DOMAIN Tasks |->
                  IF Passed(Lead(Tasks[i].proc), 1)' THEN LtidOf(i) ELSE -1]
    BY <1>1, <1>3, <1>7, <2>5 DEF Tables
  <2> QED
    BY <2>1, <2>2, <2>3, <2>4, <2>6 DEF Tables, Handed, HwiOf, LtidOf
<1> QED
  BY <1>4, <1>5, <1>6, <1>11 DEF IInv

LEMMA InitContextsStep ==
  ASSUME StartupAssumption, IInv, NEW p \in Proc, InitContexts(p)
  PROVE  IInv'
<1>1. /\ p \in Leaders /\ phase[p] = 1 /\ p \notin done /\ Finish(p)
      /\ UNCHANGED <<mask, buffer, loaded, globals, released, schedulers, timers, epc>>
      /\ phase' = phase
  BY DEF InitContexts, Working, Leaders, kernel, Finish
<1>2. /\ BootEnd \in Nat /\ BootEnd >= 4 /\ KernelPhase = BootEnd + 2 /\ User = BootEnd + 6
  BY Phases
<1>3. AtBarrier(p) /\ Places /\ InStep /\ Tables /\ FilesLoaded /\ KernelTables
  BY <1>1, <1>2 DEF AtBarrier, IInv
<1>4. Places' /\ InStep'
  BY <1>1, <1>3, FinishKeepsStep
<1>5. FilesLoaded'
  BY <1>1, <1>2, <1>3, FinishSame, FilesStay
<1>6. KernelTables'
  BY <1>1, <1>2, <1>3, FinishSame, KernelStays
<1>7. /\ \A q \in Proc : \A k \in Int :
           (q # p \/ k # 1) => (Passed(q, k)' <=> Passed(q, k))
      /\ Passed(p, 1)'
  BY <1>1, <1>3, FinishPasses
<1>8. \A q \in Proc : Lead(q) \in Proc /\ (Lead(q) = p <=> q[1] = p[1])
  BY <1>1, Clustered, Processors
<1>9. ASSUME NEW q \in Proc, q[1] # p[1]
      PROVE  SameWork(q)
  BY <1>1, <1>2, <1>7, <1>8, <1>9 DEF SameWork
<1>10. ASSUME NEW q \in Proc, q[1] = p[1]
       PROVE  /\ Passed(Lead(q), 1)' /\ (Passed(Lead(q), 0)' <=> Passed(Lead(q), 0))
              /\ ~Passed(q, KernelPhase + 1)'
              /\ (Passed(q, KernelPhase + 2)' <=> Passed(q, KernelPhase + 2))
  <2>1. Lead(q) = p /\ ~InKernel(q)
    <3>1. ~InKernel(p)
      BY <1>1, <1>2 DEF InKernel
    <3> QED
      BY <1>3, <1>8, <1>10, <3>1 DEF Places
  <2>2. phase[q] \in Int /\ phase[q] < KernelPhase
    BY <1>2, <1>3, <2>1 DEF Places, InKernel
  <2>3. ~Passed(q, KernelPhase + 1)'
    BY <1>1, <1>2, <2>2 DEF Passed
  <2> QED
    BY <1>2, <1>7, <2>1, <2>3
<1>11. Tables'
  <2>1. ASSUME NEW q \in Proc PROVE psched'[q] = SchedulerOf(q)'
    <3>1. CASE q[1] # p[1]
      <4>1. psched'[q] = psched[q]
        BY <3>1 DEF InitContexts
      <4> QED
        BY <1>1, <1>3, <1>9, <3>1, <4>1, SameScheduler DEF Tables
    <3>2. CASE q[1] = p[1]
      <4>1. psched'[q] = [psched[q] EXCEPT !.context =
                            [l \in DOMAIN TasksOf(q) |-> Context(TasksOf(q)[l])]]
        BY <3>2 DEF InitContexts
      <4>2. psched[q] = [current |-> CurrentOf(q), context |-> ContextsOf(q),
                         idle |-> Passed(q, KernelPhase + 2), vector |-> VectorOf(q)]
        BY <1>3 DEF Tables, SchedulerOf
      <4>3. psched'[q] = [current |-> CurrentOf(q),
                          context |-> [l \in DOMAIN TasksOf(q) |-> Context(TasksOf(q)[l])],
                          idle |-> Passed(q, KernelPhase + 2), vector |-> VectorOf(q)]
        BY <4>1, <4>2
      <4>4. ContextsOf(q)' = [l \in DOMAIN TasksOf(q) |-> Context(TasksOf(q)[l])]
        <5>1. ContextsOf(q)' = [l \in DOMAIN TasksOf(q) |-> ContextAt(TasksOf(q)[l], FALSE)]
          <6>1. Passed(q, KernelPhase + 1)' = FALSE
            BY <1>10, <3>2
          <6> QED
            BY <1>10, <3>2, <6>1 DEF ContextsOf
        <5>2. \A i : ContextAt(i, FALSE) = Context(i)
          BY DEF ContextAt, Context
        <5> QED
          BY <5>1, <5>2
      <4>5. CurrentOf(q)' = CurrentOf(q)
        BY <1>1, <1>10, <3>2 DEF CurrentOf, Elected, ActiveOf, User, KernelPhase, WakePhase, BootEnd
      <4>6. VectorOf(q)' = VectorOf(q)
        BY <1>1, <1>10, <3>2 DEF VectorOf, Handed, HwiOf
      <4>7. Passed(q, KernelPhase + 2)' = Passed(q, KernelPhase + 2)
        BY <1>10, <3>2 DEF Passed
      <4> QED
        BY <4>3, <4>4, <4>5, <4>6, <4>7 DEF SchedulerOf
    <3> QED
      BY <3>1, <3>2
  <2>2. psched' = [q \in Proc |-> psched'[q]]
    BY DEF InitContexts
  <2>3. \A q \in Proc : Passed(Lead(q), 0)' <=> Passed(Lead(q), 0)
    BY <1>7, <1>8
  <2>4. mask' = [q \in Proc |-> IF Passed(Lead(q), 0)' THEN Handed(q) \cup Boxes ELSE {}]
    BY <1>1, <1>3, <2>3 DEF Tables
  <2>5. ASSUME NEW i \in DOMAIN Tasks
        PROVE  ltid'[i] = IF Passed(Lead(Tasks[i].proc), 1)' THEN LtidOf(i) ELSE -1
    <3>1. Tasks[i].proc \in Proc
      BY DEF StartupAssumption
    <3>2. CASE Tasks[i].proc[1] # p[1]
      BY <1>3, <1>9, <3>1, <3>2 DEF InitContexts, Tables, SameWork
    <3>3. CASE Tasks[i].proc[1] = p[1]
      BY <1>10, <3>1, <3>3 DEF InitContexts
    <3> QED
      BY <3>2, <3>3
  <2>6. ltid' = [i \in DOMAIN Tasks |-> ltid'[i]]
    BY DEF InitContexts
  <2> QED
    BY <2>1, <2>2, <2>4, <2>5, <2>6 DEF Tables, Handed, HwiOf, LtidOf
<1> QED
  BY <1>4, <1>5, <1>6, <1>11 DEF IInv

\* The phases in which file f is read, and copied.
LEMMA FilePhases ==
  ASSUME StartupAssumption, Places, NEW p \in Proc,
         LoadPhase(p) \/ CopyPhase(p)
  PROVE  /\ File(p) \in Files
         /\ LoadPhase(p) => phase[p] = 2 * File(p) + 2
         /\ CopyPhase(p) => phase[p] = 2 * File(p) + 3
         /\ phase[p] \in 2 .. BootEnd - 1 /\ p \notin done /\ p \in Leaders
<1>1. /\ BootEnd = 2 * Spaces + 4 /\ Spaces \in Nat /\ Files = 0 .. Spaces
      /\ WakePhase = BootEnd + 1 /\ phase[p] \in Int
  BY Phases DEF Places
<1>2. phase[p] \in 2 .. BootEnd - 1 /\ p \notin done /\ p \in Leaders
  BY <1>1 DEF LoadPhase, CopyPhase, Places, Leaders
<1>3. File(p) \in Files
  BY <1>1, <1>2 DEF File
<1>4. ASSUME LoadPhase(p) PROVE phase[p] = 2 * File(p) + 2
  BY <1>1, <1>2, <1>4 DEF LoadPhase, File
<1>5. ASSUME CopyPhase(p) PROVE phase[p] = 2 * File(p) + 3
  BY <1>1, <1>2, <1>5 DEF CopyPhase, File
<1> QED
  BY <1>2, <1>3, <1>4, <1>5

LEMMA LoadFileStep ==
  ASSUME StartupAssumption, IInv, NEW p \in Proc, LoadFile(p)
  PROVE  IInv'
<1>1. /\ LoadPhase(p) /\ Finish(p) /\ phase' = phase
      /\ UNCHANGED <<psched, ltid, mask, loaded, globals, released, schedulers, timers, epc>>
      /\ buffer' = IF p = First THEN File(p) ELSE buffer
  BY DEF LoadFile, kernel, Finish
<1>2. /\ BootEnd = 2 * Spaces + 4 /\ Spaces \in Nat /\ KernelPhase = BootEnd + 2
      /\ User = BootEnd + 6 /\ Files = 0 .. Spaces
      /\ First \in Leaders /\ Leaders \subseteq Proc
      /\ \A c \in 0 .. Clusters - 1 : <<c, 0>> \in Leaders
  BY Phases, Processors
<1>3. Places /\ InStep /\ Tables /\ FilesLoaded /\ KernelTables
  BY DEF IInv
<1>4. /\ File(p) \in Files /\ phase[p] = 2 * File(p) + 2 /\ phase[p] \in 2 .. BootEnd - 1
      /\ p \notin done
  BY <1>1, <1>3, FilePhases
<1>5. AtBarrier(p)
  BY <1>2, <1>4 DEF AtBarrier
<1>6. Places' /\ InStep'
  BY <1>1, <1>3, <1>5, FinishKeepsStep
<1>7. KernelTables'
  <2>1. phase[p] \notin {KernelPhase, KernelPhase + 2}
    BY <1>2, <1>4
  <2>2. /\ \A q \in Proc :
             /\ Passed(q, KernelPhase)' <=> Passed(q, KernelPhase)
             /\ Passed(q, KernelPhase + 2)' <=> Passed(q, KernelPhase + 2)
             /\ (phase'[q] = User) <=> (phase[q] = User)
        /\ InKernel(First) => InKernel(First)'
    BY <1>1, <1>3, <1>5, <2>1, FinishSame
  <2> QED
    BY <1>1, <1>3, <2>2, KernelStays
<1>8. Tables'
  BY <1>1, <1>2, <1>3, <1>4, <1>5, FinishSame, TablesStay
<1>9. /\ \A q \in Proc : \A k \in Int :
           (q # p \/ k # phase[p]) => (Passed(q, k)' <=> Passed(q, k))
      /\ Passed(p, phase[p])'
  BY <1>1, <1>3, <1>4, FinishPasses
<1>10. ASSUME NEW f \in Files, Passed(First, 2 * f + 2)', ~Passed(First, 2 * f + 4)'
       PROVE  buffer' = f
  <2>1. f \in Int /\ 2 * f + 2 \in Int /\ 2 * f + 4 \in Int
    BY <1>2
  <2>2. CASE p # First
    <3>1. Passed(First, 2 * f + 2) /\ ~Passed(First, 2 * f + 4)
      BY <1>2, <1>9, <1>10, <2>1, <2>2
    <3> QED
      BY <1>1, <1>3, <2>2, <3>1 DEF FilesLoaded
  <2>3. CASE p = First
    <3>1. phase'[First] >= 2 * f + 2 /\ ~(phase'[First] > 2 * f + 4)
          /\ ~(phase'[First] = 2 * f + 4)
      <4>1. First \in done'
        BY <1>1, <2>3 DEF Finish
      <4> QED
        BY <1>2, <1>4, <1>1, <1>10, <2>1, <2>3, <4>1 DEF Passed
    <3>2. File(p) = f
      BY <1>1, <1>2, <1>4, <2>3, <3>1
    <3> QED
      BY <1>1, <2>3, <3>2
  <2> QED
    BY <2>2, <2>3
<1>11. ASSUME NEW s \in DOMAIN Segments,
              Passed(<<Segments[s].cluster, 0>>, 2 * Segments[s].file + 3)'
       PROVE  loaded'[s] = Segments[s].file
  <2>1. Segments[s].file \in Files /\ Segments[s].cluster \in 0 .. Clusters - 1
    BY DEF StartupAssumption
  <2>2. 2 * Segments[s].file + 3 \in Int /\ 2 * Segments[s].file + 3 # phase[p]
    BY <1>2, <1>4, <2>1
  <2>3. Passed(<<Segments[s].cluster, 0>>, 2 * Segments[s].file + 3)
    BY <1>2, <1>9, <1>11, <2>1, <2>2
  <2> QED
    BY <1>1, <1>3, <2>3 DEF FilesLoaded
<1>12. FilesLoaded'
  <2>1. buffer' \in {-1} \cup Files
    BY <1>1, <1>3, <1>4 DEF FilesLoaded
  <2>2. loaded' \in [DOMAIN Segments -> {-1} \cup Files]
    BY <1>1, <1>3 DEF FilesLoaded
  <2> QED
    BY <1>10, <1>11, <2>1, <2>2 DEF FilesLoaded
<1> QED
  BY <1>6, <1>7, <1>8, <1>12 DEF IInv

\* The buffer still holds the file that a leader copies: P[0,0,0] cannot read the
\* next one before all have copied this one.
LEMMA CopySegmentsStep ==
  ASSUME StartupAssumption, IInv, NEW p \in Proc, CopySegments(p)
  PROVE  IInv'
<1>1. /\ CopyPhase(p) /\ Finish(p) /\ phase' = phase
      /\ UNCHANGED <<psched, ltid, mask, buffer, globals, released, schedulers, timers, epc>>
      /\ loaded' = [s \in DOMAIN Segments |->
           IF Segments[s] = [file |-> File(p), cluster |-> p[1]] THEN buffer ELSE loaded[s]]
  BY DEF CopySegments, kernel, Finish
<1>2. /\ BootEnd = 2 * Spaces + 4 /\ Spaces \in Nat /\ KernelPhase = BootEnd + 2
      /\ User = BootEnd + 6 /\ Files = 0 .. Spaces
      /\ First \in Leaders /\ Leaders \subseteq Proc
      /\ \A c \in 0 .. Clusters - 1 : <<c, 0>> \in Leaders
  BY Phases, Processors
<1>3. Places /\ InStep /\ Tables /\ FilesLoaded /\ KernelTables
  BY DEF IInv
<1>4. /\ File(p) \in Files /\ phase[p] = 2 * File(p) + 3 /\ phase[p] \in 2 .. BootEnd - 1
      /\ p \notin done /\ p \in Leaders
  BY <1>1, <1>3, FilePhases
<1>5. AtBarrier(p)
  BY <1>2, <1>4 DEF AtBarrier
<1>6. Places' /\ InStep'
  BY <1>1, <1>3, <1>5, FinishKeepsStep
<1>7. KernelTables'
  <2>1. phase[p] \notin {KernelPhase, KernelPhase + 2}
    BY <1>2, <1>4
  <2>2. /\ InKernel(First) => InKernel(First)'
        /\ \A q \in Proc :
             /\ Passed(q, KernelPhase)' <=> Passed(q, KernelPhase)
             /\ Passed(q, KernelPhase + 2)' <=> Passed(q, KernelPhase + 2)
             /\ (phase'[q] = User) <=> (phase[q] = User)
    BY ONLY <1>1, <1>3, <1>5, <2>1, FinishSame, StartupAssumption, p \in Proc
  <2> QED
    BY <1>1, <1>3, <2>2, KernelStays
<1>8. Tables'
  BY <1>1, <1>2, <1>3, <1>4, <1>5, FinishSame, TablesStay
<1>9. /\ \A q \in Proc : \A k \in Int :
           (q # p \/ k # phase[p]) => (Passed(q, k)' <=> Passed(q, k))
      /\ Passed(p, phase[p])'
  BY <1>1, <1>3, <1>4, FinishPasses
<1>10. buffer = File(p)
  <2> DEFINE f == File(p)
  <2>1. f \in Files /\ f \in Int /\ phase[p] = 2 * f + 3 /\ phase[First] \in Int
    BY <1>2, <1>3, <1>4 DEF Places
  <2> HIDE DEF f
  <2>2. 2 * f + 2 \in 0 .. BootEnd /\ 2 * f + 3 \in 0 .. BootEnd
    BY <1>2, <2>1
  <2>3. Passed(First, 2 * f + 2)
    BY <1>2, <1>3, <1>4, <2>1, <2>2 DEF InStep
  <2>4. ~Passed(p, 2 * f + 3)
    BY <1>4, <2>1 DEF Passed
  <2>5. ~(phase[First] > 2 * f + 3)
    BY <1>2, <1>3, <1>4, <2>2, <2>4 DEF InStep
  <2>6. ~Passed(First, 2 * f + 4)
    BY <2>1, <2>5 DEF Passed
  <2> QED
    BY <1>3, <2>1, <2>3, <2>6 DEF FilesLoaded, f
<1>11. ASSUME NEW f \in Files, Passed(First, 2 * f + 2)', ~Passed(First, 2 * f + 4)'
       PROVE  buffer' = f
  <2>1. /\ 2 * f + 2 \in Int /\ 2 * f + 4 \in Int
        /\ 2 * f + 2 # phase[p] /\ 2 * f + 4 # phase[p]
    <3>1. f \in Int /\ File(p) \in Int /\ phase[p] = 2 * File(p) + 3
      BY <1>2, <1>4
    <3> QED
      BY ONLY <3>1
  <2>2. Passed(First, 2 * f + 2) /\ ~Passed(First, 2 * f + 4)
    BY <1>2, <1>9, <1>11, <2>1
  <2> QED
    BY <1>1, <1>3, <2>2 DEF FilesLoaded
<1>12. ASSUME NEW s \in DOMAIN Segments,
              Passed(<<Segments[s].cluster, 0>>, 2 * Segments[s].file + 3)'
       PROVE  loaded'[s] = Segments[s].file
  <2> DEFINE f == Segments[s].file
             q == <<Segments[s].cluster, 0>>
  <2>1. f \in Files /\ Segments[s].cluster \in 0 .. Clusters - 1
        /\ Segments[s] = [file |-> f, cluster |-> Segments[s].cluster]
    BY DEF StartupAssumption
  <2>2. q \in Leaders /\ 2 * f + 3 \in Int
    BY <1>2, <2>1
  <2>3. CASE q = p /\ 2 * f + 3 = phase[p]
    <3>1. f = File(p) /\ Segments[s].cluster = p[1]
      BY <1>2, <1>4, <2>1, <2>3
    <3> QED
      BY <1>1, <1>10, <2>1, <3>1
  <2>4. CASE ~(q = p /\ 2 * f + 3 = phase[p])
    <3>1. Passed(q, 2 * f + 3)
      BY <1>2, <1>9, <1>12, <2>2, <2>4
    <3>2. loaded[s] = f
      BY <1>3, <3>1 DEF FilesLoaded
    <3>3. loaded'[s] = loaded[s]
      <4>1. p = <<p[1], 0>>
        BY <1>4, Processors DEF Lead
      <4>2. Segments[s] # [file |-> File(p), cluster |-> p[1]]
        BY <1>2, <1>4, <2>4, <4>1
      <4> QED
        BY <1>1, <4>2
    <3> QED
      BY <3>2, <3>3
  <2> QED
    BY <2>3, <2>4
<1>13. FilesLoaded'
  <2>1. buffer' \in {-1} \cup Files
    BY <1>1, <1>3 DEF FilesLoaded
  <2>2. loaded' \in [DOMAIN Segments -> {-1} \cup Files]
    BY <1>1, <1>3 DEF FilesLoaded
  <2> QED
    BY <1>11, <1>12, <2>1, <2>2 DEF FilesLoaded
<1> QED
  BY <1>6, <1>7, <1>8, <1>13 DEF IInv

LEMMA LoadedStep ==
  ASSUME StartupAssumption, IInv, NEW p \in Proc, Loaded(p)
  PROVE  IInv'
<1>1. /\ phase[p] = BootEnd /\ p \notin done /\ Finish(p) /\ phase' = phase
      /\ UNCHANGED <<psched, ltid, mask, buffer, loaded>>
      /\ UNCHANGED <<globals, released, schedulers, timers, epc>>
  BY DEF Loaded, Working, boot, kernel, Finish
<1>2. /\ BootEnd \in Nat /\ BootEnd >= 4 /\ KernelPhase = BootEnd + 2 /\ User = BootEnd + 6
  BY Phases
<1>3. AtBarrier(p) /\ Places /\ InStep /\ Tables /\ FilesLoaded /\ KernelTables
  BY <1>1, <1>2 DEF AtBarrier, IInv
<1>4. Places' /\ InStep'
  BY <1>1, <1>3, FinishKeepsStep
<1>5. FilesLoaded'
  BY <1>1, <1>2, <1>3, FinishSame, FilesStay
<1>6. KernelTables'
  BY <1>1, <1>2, <1>3, FinishSame, KernelStays
<1>7. Tables'
  BY <1>1, <1>2, <1>3, FinishSame, TablesStay
<1> QED
  BY <1>4, <1>5, <1>6, <1>7 DEF IInv

LEMMA WakeUpStep ==
  ASSUME StartupAssumption, IInv, NEW p \in Proc, WakeUp(p)
  PROVE  IInv'
<1>1. /\ UNCHANGED <<psched, ltid, mask, buffer, loaded>>
      /\ UNCHANGED <<globals, released, schedulers, timers, epc>>
      /\ phase' = [q \in Proc |-> IF q[1] = p[1] THEN KernelPhase ELSE phase[q]]
  BY DEF WakeUp, boot, kernel
<1>2. /\ BootEnd \in Nat /\ BootEnd >= 4 /\ WakePhase = BootEnd + 1
      /\ KernelPhase = BootEnd + 2 /\ User = BootEnd + 6
      /\ First \in Proc /\ Leaders \subseteq Proc /\ First \in Leaders
      /\ \A q \in Proc : Lead(q) \in Proc
  BY Phases, Processors
<1>3. Places /\ InStep /\ Tables /\ FilesLoaded /\ KernelTables
  BY DEF IInv
<1>4. Places' /\ InStep'
  BY <1>3, WakeKeepsStep
<1>5. /\ \A q \in Proc : q[1] = p[1] => phase[q] = WakePhase
      /\ \A q \in Proc : \A k \in Int \ {WakePhase} : Passed(q, k)' <=> Passed(q, k)
  BY <1>3, WakePasses DEF ProcsOf
<1>6. ASSUME NEW q \in Proc PROVE (phase'[q] = User) <=> (phase[q] = User)
  BY <1>1, <1>2, <1>5
<1>7. \A q \in Proc : SameWork(q)
  BY <1>2, <1>5, <1>6 DEF SameWork
<1>8. InKernel(First) => InKernel(First)'
  BY <1>1, <1>2 DEF InKernel
<1>9. /\ \A q \in Leaders : \A k \in 2 .. BootEnd - 1 : Passed(q, k)' <=> Passed(q, k)
      /\ Passed(First, BootEnd) => Passed(First, BootEnd)'
  BY <1>2, <1>5
<1>10. FilesLoaded'
  BY <1>1, <1>3, <1>9, FilesStay
<1>11. KernelTables'
  BY <1>1, <1>2, <1>3, <1>5, <1>6, <1>8, KernelStays
<1>12. Tables'
  BY <1>1, <1>3, <1>7, TablesStay
<1> QED
  BY <1>4, <1>10, <1>11, <1>12 DEF IInv

-----------------------------------------------------------------------------
(* The steps of kernel_init                                                *)

\* What is known of a processor in kernel_init.
LEMMA InKernelFacts ==
  ASSUME StartupAssumption, IInv, NEW p \in Proc, InKernel(p)
  PROVE  /\ \A q \in Leaders : \A k \in 0 .. BootEnd : Passed(q, k)
         /\ \A q \in Proc : Passed(Lead(q), 0) /\ Passed(Lead(q), 1)
         /\ phase[p] \in KernelPhase .. User
<1>1. /\ BootEnd \in Nat /\ BootEnd >= 4 /\ WakePhase = BootEnd + 1
      /\ KernelPhase = BootEnd + 2 /\ User = BootEnd + 6
      /\ \A q \in Proc : Lead(q) \in Leaders
      /\ phase[p] \in 0 .. User /\ phase[Lead(p)] \in Int
  BY Phases, Processors DEF IInv, Places
<1>2. InKernel(Lead(p))
  BY DEF IInv, Places
<1>3. ASSUME NEW q \in Leaders, NEW k \in 0 .. BootEnd PROVE Passed(q, k)
  <2>1. phase[Lead(p)] > k
    BY <1>1, <1>2 DEF InKernel
  <2> QED
    BY <1>1, <2>1 DEF IInv, InStep
<1> QED
  BY <1>1, <1>3 DEF InKernel

\* The contexts of a processor, seen from kernel_init.
LEMMA ContextFacts ==
  ASSUME StartupAssumption, IInv, NEW p \in Proc, Passed(Lead(p), 1)
  PROVE  /\ psched[p].context = ContextsOf(p)
         /\ psched[p].context = [l \in DOMAIN TasksOf(p) |->
                                   ContextAt(TasksOf(p)[l], Passed(p, KernelPhase + 1))]
         /\ DOMAIN psched[p].context = DOMAIN TasksOf(p)
         /\ Len(psched[p].context) = Len(TasksOf(p))
         /\ psched[p].context = NoContext <=> OnProc(p) = {}
         /\ Runnable(p) = ActiveOf(p)
<1>1. psched[p].context = ContextsOf(p)
  BY DEF IInv, Tables, SchedulerOf
<1>2. psched[p].context = [l \in DOMAIN TasksOf(p) |->
                            ContextAt(TasksOf(p)[l], Passed(p, KernelPhase + 1))]
  BY <1>1 DEF ContextsOf
<1>3. DOMAIN psched[p].context = DOMAIN TasksOf(p)
  BY <1>2
<1>4. /\ Len(TasksOf(p)) \in Nat /\ DOMAIN TasksOf(p) = 1 .. Len(TasksOf(p))
      /\ TasksOf(p) = <<>> <=> OnProc(p) = {}
      /\ Len(TasksOf(p)) = 0 <=> OnProc(p) = {}
  <2>1. IsFiniteSet(1 .. Len(Tasks)) /\ OnProc(p) \subseteq 1 .. Len(Tasks)
    BY FS_Interval DEF OnProc, StartupAssumption
  <2>2. IsFiniteSet(OnProc(p))
    BY <2>1, FS_Subset
  <2>3. Cardinality(OnProc(p)) = 0 <=> OnProc(p) = {}
    BY <2>2, FS_EmptySet
  <2>4. Cardinality(OnProc(p)) \in 0 .. IDLE_TASK_INDEX - 1
    BY TasksInOrder
  <2> QED
    BY <2>3, <2>4, TasksInOrder DEF NoContext, IDLE_TASK_INDEX
<1>5. /\ Len(psched[p].context) = Len(TasksOf(p))
      /\ psched[p].context \in Seq({psched[p].context[l] : l \in DOMAIN TasksOf(p)})
  <2> DEFINE n == Len(TasksOf(p))
             c == psched[p].context
             T == {c[l] : l \in 1 .. n}
  <2>1. c \in [1 .. n -> T]
    BY <1>2, <1>4
  <2>2. c \in Seq(T) /\ DOMAIN c = 1 .. n
    BY <1>4, <2>1
  <2> QED
    BY <1>4, <2>2, LenProperties
<1>6. psched[p].context = NoContext <=> OnProc(p) = {}
  BY <1>4, <1>5, EmptySeq DEF NoContext
<1>7. Runnable(p) = ActiveOf(p)
  <2>1. ASSUME NEW l \in DOMAIN TasksOf(p)
        PROVE  psched[p].context[l].norun = (Tasks[TasksOf(p)[l]].space \notin ActiveSpaces)
    <3>1. psched[p].context[l] = ContextAt(TasksOf(p)[l], Passed(p, KernelPhase + 1))
      BY <1>2
    <3>2. \A i, c : ContextAt(i, c).norun = (Tasks[i].space \notin ActiveSpaces)
      BY DEF ContextAt
    <3> QED
      BY <3>1, <3>2
  <2> QED
    BY <1>3, <2>1 DEF Runnable, ActiveOf
<1> QED
  BY <1>1, <1>2, <1>3, <1>5, <1>6, <1>7

LEMMA InitGlobalsStep ==
  ASSUME StartupAssumption, IInv, NEW p \in Proc, InitGlobals(p)
  PROVE  IInv'
<1>1. /\ p = First /\ phase[p] = KernelPhase /\ p \notin done /\ globals = {}
      /\ globals' = Structures /\ phase' = phase /\ done' = done
      /\ UNCHANGED <<ltid, mask, buffer, loaded, released, schedulers, timers, epc>>
      /\ psched' = [psched EXCEPT ![p].vector = psched[p].vector \cup {"box1"}]
  BY DEF InitGlobals, Working, boot
<1>2. /\ BootEnd \in Nat /\ KernelPhase = BootEnd + 2 /\ User = BootEnd + 6
  BY Phases
<1>3. Places /\ InStep /\ Tables /\ FilesLoaded /\ KernelTables
  BY DEF IInv
<1>4. \A q, k : Passed(q, k)' = Passed(q, k)
  BY <1>1 DEF Passed
<1>5. Places'
  BY <1>1, <1>3 DEF Places, InKernel
<1>6. InStep'
  BY <1>1, <1>3, <1>4 DEF InStep
<1>7. FilesLoaded'
  BY <1>1, <1>3, <1>4 DEF FilesLoaded
<1>8. InKernel(p) /\ Passed(Lead(p), 0)
  <2>1. InKernel(p)
    BY <1>1, <1>2 DEF InKernel
  <2> QED
    BY <2>1, InKernelFacts
<1>9. KernelTables'
  <2>1. ~Passed(First, KernelPhase + 2)
    BY <1>1, <1>2 DEF Passed
  <2>2. "fat" \notin Structures /\ Structures # {}
    BY DEF Structures
  <2>3. \A q \in Proc : ActiveOf(q)' = ActiveOf(q) /\ OnProc(q)' = OnProc(q)
    BY DEF ActiveOf, OnProc, TasksOf, InOrder, Rank
  <2>4. User' = User /\ KernelPhase' = KernelPhase
    BY DEF User, KernelPhase, WakePhase, BootEnd, Files
  <2>5. InKernel(First)'
    BY <1>1, <1>8, <2>4 DEF InKernel
  <2>6. /\ schedulers' = {q \in Proc : Passed(q, KernelPhase)}
        /\ timers' = {q \in Proc : Passed(q, KernelPhase + 2) /\ OnProc(q) # {}}
        /\ epc' = [q \in Proc |-> IF phase[q] # User THEN "none"
                                  ELSE IF ActiveOf(q) = {} THEN "idle" ELSE "code"]
        /\ \A q \in Proc : Passed(q, KernelPhase) => released
        /\ released' = released
    BY <1>1, <1>3 DEF KernelTables
  <2>7. /\ globals' \subseteq Structures \cup {"fat"}
        /\ Structures \subseteq globals' /\ globals' # {}
        /\ "fat" \in globals' <=> Passed(First, KernelPhase + 2)
    BY <1>1, <2>1, <2>2
  <2> QED
    <3>1. /\ (globals \subseteq Structures \cup {"fat"})'
          /\ (globals # {} => InKernel(First) /\ Structures \subseteq globals)'
          /\ (released => globals # {})'
      BY <2>5, <2>7 DEF Structures
    <3>2. /\ (\A q \in Proc : Passed(q, KernelPhase) => released)'
          /\ ("fat" \in globals <=> Passed(First, KernelPhase + 2))'
      BY <1>4, <2>4, <2>6, <2>7
    <3> QED
      BY <1>1, <1>4, <2>3, <2>4, <2>6, <3>1, <3>2 DEF KernelTables
<1>10. Tables'
  <2>1. \A q \in Proc : SameWork(q)
    BY <1>1, <1>4 DEF SameWork
  <2>2. ASSUME NEW q \in Proc
        PROVE  CurrentOf(q)' = CurrentOf(q) /\ ContextsOf(q)' = ContextsOf(q)
    BY <1>1, <1>4 DEF CurrentOf, ContextsOf, Elected, ActiveOf, User, KernelPhase, WakePhase, BootEnd
  <2>3. ASSUME NEW q \in Proc
        PROVE  VectorOf(q)' = IF q = p THEN VectorOf(q) \cup {"box1"} ELSE VectorOf(q)
    <3>1. Structures # {}
      BY DEF Structures
    <3> QED
      BY <1>1, <1>4, <1>8, <3>1 DEF VectorOf, Handed, HwiOf
  <2>4. ASSUME NEW q \in Proc PROVE psched'[q] = SchedulerOf(q)'
    <3>1. psched[q] = [current |-> CurrentOf(q), context |-> ContextsOf(q),
                       idle |-> Passed(q, KernelPhase + 2), vector |-> VectorOf(q)]
      BY <1>3 DEF Tables, SchedulerOf
    <3>2. psched'[q] = [current |-> CurrentOf(q), context |-> ContextsOf(q),
                        idle |-> Passed(q, KernelPhase + 2), vector |-> VectorOf(q)']
      <4>1. psched'[q] = IF q = p THEN [psched[q] EXCEPT !.vector = psched[q].vector \cup {"box1"}]
                                  ELSE psched[q]
        BY <1>1, <1>3 DEF Tables
      <4> QED
        BY <2>3, <3>1, <4>1
    <3> QED
      BY <1>4, <2>2, <3>2 DEF SchedulerOf
  <2>5. psched' = [q \in Proc |-> psched'[q]]
    BY <1>1, <1>3 DEF Tables
  <2>6. mask' = [q \in Proc |-> IF Passed(Lead(q), 0) THEN Handed(q) \cup Boxes ELSE {}]
    BY <1>1, <1>3 DEF Tables
  <2>7. ltid' = [i \in DOMAIN Tasks |-> IF Passed(Lead(Tasks[i].proc), 1) THEN LtidOf(i) ELSE -1]
    BY <1>1, <1>3 DEF Tables
  <2> QED
    BY <1>4, <2>4, <2>5, <2>6, <2>7 DEF Tables, Handed, HwiOf, LtidOf
<1> QED
  BY <1>5, <1>6, <1>7, <1>9, <1>10 DEF IInv

LEMMA ReleaseStep ==
  ASSUME StartupAssumption, IInv, NEW p \in Proc, Release(p)
  PROVE  IInv'
<1>1. /\ phase' = phase /\ done' = done /\ globals = Structures /\ released' = TRUE
      /\ UNCHANGED <<psched, ltid, mask, buffer, loaded>>
      /\ UNCHANGED <<globals, schedulers, timers, epc>>
  BY DEF Release, boot
<1>2. Places /\ InStep /\ Tables /\ FilesLoaded /\ KernelTables
  BY DEF IInv
<1>3. \A q, k : Passed(q, k)' = Passed(q, k)
  BY <1>1 DEF Passed
<1>4. Places'
  BY <1>1, <1>2 DEF Places, InKernel
<1>5. InStep'
  BY <1>1, <1>2, <1>3 DEF InStep
<1>6. FilesLoaded'
  BY <1>1, <1>2, <1>3 DEF FilesLoaded
<1>7. Tables'
  <2>1. \A q \in Proc : SameWork(q)
    BY <1>1, <1>3 DEF SameWork
  <2> QED
    BY <1>1, <1>2, <2>1, TablesStay
<1>8. KernelTables'
  <2>1. "fat" \notin Structures /\ Structures # {}
    BY DEF Structures
  <2>2. \A q \in Proc : ActiveOf(q)' = ActiveOf(q) /\ OnProc(q)' = OnProc(q)
    BY DEF ActiveOf, OnProc, TasksOf, InOrder, Rank
  <2>3. InKernel(First)' <=> InKernel(First)
    BY <1>1 DEF InKernel
  <2>4. /\ schedulers' = {q \in Proc : Passed(q, KernelPhase)}
        /\ timers' = {q \in Proc : Passed(q, KernelPhase + 2) /\ OnProc(q) # {}}
        /\ epc' = [q \in Proc |-> IF phase[q] # User THEN "none"
                                  ELSE IF ActiveOf(q) = {} THEN "idle" ELSE "code"]
    BY <1>1, <1>2 DEF KernelTables
  <2> QED
    BY <1>1, <1>2, <1>3, <2>1, <2>2, <2>3, <2>4 DEF KernelTables, Structures
<1> QED
  BY <1>4, <1>5, <1>6, <1>7, <1>8 DEF IInv

\* The parts of KernelTables that talk of the constants do so also in the next state.
LEMMA KernelTablesPrimed ==
  ASSUME /\ globals' \subseteq Structures \cup {"fat"}
         /\ globals' # {} => InKernel(First)' /\ Structures \subseteq globals'
         /\ released' => globals' # {}
         /\ \A q \in Proc : Passed(q, KernelPhase)' => released'
         /\ "fat" \in globals' <=> Passed(First, KernelPhase + 2)',
         schedulers' = {q \in Proc : Passed(q, KernelPhase)'},
         timers' = {q \in Proc : Passed(q, KernelPhase + 2)' /\ OnProc(q) # {}},
         epc' = [q \in Proc |-> IF phase'[q] # User THEN "none"
                               ELSE IF ActiveOf(q) = {} THEN "idle" ELSE "code"]
  PROVE  KernelTables'
<1>1. /\ User' = User /\ KernelPhase' = KernelPhase /\ First' = First
      /\ Structures' = Structures /\ Proc' = Proc
      /\ \A q \in Proc : OnProc(q)' = OnProc(q) /\ ActiveOf(q)' = ActiveOf(q)
  BY DEF User, KernelPhase, WakePhase, BootEnd, Files, First, Structures, Proc, OnProc,
         ActiveOf, TasksOf, InOrder, Rank
<1> QED
  BY <1>1 DEF KernelTables

LEMMA SetSchedulerStep ==
  ASSUME StartupAssumption, IInv, NEW p \in Proc, SetScheduler(p)
  PROVE  IInv'
<1>1. /\ phase[p] = KernelPhase /\ p \notin done /\ Finish(p) /\ phase' = phase
      /\ UNCHANGED <<psched, ltid, mask, buffer, loaded>>
      /\ UNCHANGED <<globals, released, timers, epc>>
      /\ schedulers' = schedulers \cup {p} /\ released
  BY DEF SetScheduler, Working, boot, Finish
<1>2. /\ BootEnd \in Nat /\ BootEnd >= 4 /\ KernelPhase = BootEnd + 2 /\ User = BootEnd + 6
      /\ First \in Proc
  BY Phases, Processors
<1>3. AtBarrier(p) /\ Places /\ InStep /\ Tables /\ FilesLoaded /\ KernelTables
  BY <1>1, <1>2 DEF AtBarrier, IInv
<1>4. Places' /\ InStep'
  BY <1>1, <1>3, FinishKeepsStep
<1>5. FilesLoaded'
  BY <1>1, <1>2, <1>3, FinishSame, FilesStay
<1>6. Tables'
  BY <1>1, <1>2, <1>3, FinishSame, TablesStay
<1>7. /\ \A q \in Proc : \A k \in Int :
           (q # p \/ k # KernelPhase) => (Passed(q, k)' <=> Passed(q, k))
      /\ Passed(p, KernelPhase)'
  BY <1>1, <1>3, FinishPasses
<1>8. KernelTables'
  <2>1. \A q \in Proc : Passed(q, KernelPhase + 2)' <=> Passed(q, KernelPhase + 2)
    BY <1>2, <1>7
  <2>2. schedulers' = {q \in Proc : Passed(q, KernelPhase)'}
    <3>1. schedulers = {q \in Proc : Passed(q, KernelPhase)}
      BY <1>3 DEF KernelTables
    <3>2. \A q \in Proc : Passed(q, KernelPhase)' <=> (Passed(q, KernelPhase) \/ q = p)
      BY <1>2, <1>7
    <3> QED
      BY <1>1, <3>1, <3>2
  <2>3. timers' = {q \in Proc : Passed(q, KernelPhase + 2)' /\ OnProc(q) # {}}
    BY <1>1, <1>3, <2>1 DEF KernelTables
  <2>4. epc' = [q \in Proc |-> IF phase'[q] # User THEN "none"
                              ELSE IF ActiveOf(q) = {} THEN "idle" ELSE "code"]
    BY <1>1, <1>3 DEF KernelTables
  <2>5. InKernel(First)' <=> InKernel(First)
    BY <1>1 DEF InKernel
  <2>6. /\ globals' \subseteq Structures \cup {"fat"}
        /\ globals' # {} => InKernel(First)' /\ Structures \subseteq globals'
        /\ released' => globals' # {}
        /\ \A q \in Proc : Passed(q, KernelPhase)' => released'
        /\ "fat" \in globals' <=> Passed(First, KernelPhase + 2)'
    BY <1>1, <1>2, <1>3, <2>1, <2>5 DEF KernelTables
  <2> QED
    BY <2>2, <2>3, <2>4, <2>6, KernelTablesPrimed
<1> QED
  BY <1>4, <1>5, <1>6, <1>8 DEF IInv

\* The functions of the constants that the tables consist of are those of the next state.
LEMMA TablesPrimed ==
  ASSUME psched' = [q \in Proc |-> SchedulerOf(q)'],
         mask' = [q \in Proc |-> IF Passed(Lead(q), 0)' THEN Handed(q) \cup Boxes ELSE {}],
         ltid' = [i \in DOMAIN Tasks |->
                   IF Passed(Lead(Tasks[i].proc), 1)' THEN LtidOf(i) ELSE -1]
  PROVE  Tables'
<1>1. /\ Boxes' = Boxes /\ \A q \in Proc : Handed(q)' = Handed(q)
      /\ \A i \in DOMAIN Tasks : LtidOf(i)' = LtidOf(i)
  BY DEF Boxes, Handed, HwiOf, LtidOf, Rank, OnProc
<1> QED
  BY <1>1 DEF Tables

LEMMA CompleteContextsStep ==
  ASSUME StartupAssumption, IInv, NEW p \in Proc, CompleteContexts(p)
  PROVE  IInv'
<1>1. /\ phase[p] = KernelPhase + 1 /\ p \notin done /\ Finish(p) /\ phase' = phase
      /\ UNCHANGED <<ltid, mask, buffer, loaded>>
      /\ UNCHANGED <<globals, released, schedulers, timers, epc>>
  BY DEF CompleteContexts, Working, boot, kernel, Finish
<1>2. /\ BootEnd \in Nat /\ BootEnd >= 4 /\ KernelPhase = BootEnd + 2 /\ User = BootEnd + 6
      /\ First \in Proc /\ \A q \in Proc : Lead(q) \in Proc
  BY Phases, Processors
<1>3. AtBarrier(p) /\ Places /\ InStep /\ Tables /\ FilesLoaded /\ KernelTables
  BY <1>1, <1>2 DEF AtBarrier, IInv
<1>4. Places' /\ InStep'
  BY <1>1, <1>3, FinishKeepsStep
<1>5. FilesLoaded'
  BY <1>1, <1>2, <1>3, FinishSame, FilesStay
<1>6. KernelTables'
  BY <1>1, <1>2, <1>3, FinishSame, KernelStays
<1>7. /\ \A q \in Proc : \A k \in Int :
           (q # p \/ k # KernelPhase + 1) => (Passed(q, k)' <=> Passed(q, k))
      /\ Passed(p, KernelPhase + 1)'
  BY <1>1, <1>3, FinishPasses
<1>8. /\ InKernel(p) /\ Passed(Lead(p), 1) /\ ~Passed(p, KernelPhase + 1)
      /\ \A q \in Proc : (Passed(Lead(q), 0)' <=> Passed(Lead(q), 0))
                       /\ (Passed(Lead(q), 1)' <=> Passed(Lead(q), 1))
  <2>1. InKernel(p)
    BY <1>1, <1>2 DEF InKernel
  <2>2. ~Passed(p, KernelPhase + 1)
    BY <1>1, <1>2 DEF Passed
  <2>3. Passed(Lead(p), 1)
    BY <2>1, InKernelFacts
  <2> QED
    BY <1>2, <1>7, <2>1, <2>2, <2>3
<1>9. ASSUME NEW q \in Proc PROVE psched'[q] = SchedulerOf(q)'
  <2>1. CASE q # p
    <3>1. SameWork(q)
      BY <1>1, <1>2, <1>7, <1>8, <2>1 DEF SameWork
    <3>2. psched'[q] = psched[q]
      <4>1. psched = [r \in Proc |-> SchedulerOf(r)]
        BY <1>3 DEF Tables
      <4> QED
        BY <2>1, <4>1 DEF CompleteContexts
    <3> QED
      BY <1>1, <1>3, <3>1, <3>2, SameScheduler DEF Tables
  <2>2. CASE q = p
    <3>1. psched[p] = [current |-> CurrentOf(p), context |-> ContextsOf(p),
                       idle |-> Passed(p, KernelPhase + 2), vector |-> VectorOf(p)]
      BY <1>3 DEF Tables, SchedulerOf
    <3>2. /\ psched[p].context = [l \in DOMAIN TasksOf(p) |-> ContextAt(TasksOf(p)[l], FALSE)]
          /\ DOMAIN psched[p].context = DOMAIN TasksOf(p)
      <4>1. Passed(p, KernelPhase + 1) = FALSE
        BY <1>8
      <4> QED
        BY <1>8, <4>1, ContextFacts
    <3>3. [l \in DOMAIN psched[p].context |->
             [psched[p].context[l] EXCEPT !.entry = "code", !.ra = TRUE]]
            = [l \in DOMAIN TasksOf(p) |-> ContextAt(TasksOf(p)[l], TRUE)]
      <4>1. ASSUME NEW i
            PROVE  [ContextAt(i, FALSE) EXCEPT !.entry = "code", !.ra = TRUE] = ContextAt(i, TRUE)
        <5> DEFINE n == Tasks[i].space \notin ActiveSpaces
        <5>1. /\ ContextAt(i, FALSE) = [task |-> i, epc |-> "word", entry |-> "word",
                                       ra |-> FALSE, norun |-> n]
              /\ ContextAt(i, TRUE) = [task |-> i, epc |-> "word", entry |-> "code",
                                      ra |-> TRUE, norun |-> n]
          BY DEF ContextAt
        <5> HIDE DEF n
        <5> DEFINE before == ContextAt(i, FALSE)
                   after == [before EXCEPT !.entry = "code", !.ra = TRUE]
        <5>2. before = [task |-> i, epc |-> "word", entry |-> "word", ra |-> FALSE, norun |-> n]
          BY <5>1
        <5> HIDE DEF before
        <5>3. after = [task |-> i, epc |-> "word", entry |-> "code", ra |-> TRUE, norun |-> n]
          <6>1. after = [before EXCEPT !.entry = "code", !.ra = TRUE]
            OBVIOUS
          <6> HIDE DEF after
          <6> QED
            BY <5>2, <6>1
        <5> QED
          BY <5>1, <5>3 DEF before
      <4> QED
        BY <3>2, <4>1
    <3>4. ContextsOf(p)' = [l \in DOMAIN TasksOf(p) |-> ContextAt(TasksOf(p)[l], TRUE)]
      <4>1. Passed(p, KernelPhase + 1)' = TRUE
        BY <1>7 DEF Passed
      <4> QED
        BY <1>8, <4>1 DEF ContextsOf
    <3>5. psched'[p] = [psched[p] EXCEPT !.context = ContextsOf(p)']
      <4>1. psched = [r \in Proc |-> SchedulerOf(r)]
        BY <1>3 DEF Tables
      <4>2. psched'[p] = [psched[p] EXCEPT !.context =
                           [l \in DOMAIN psched[p].context |->
                             [psched[p].context[l] EXCEPT !.entry = "code", !.ra = TRUE]]]
        BY <4>1 DEF CompleteContexts
      <4> QED
        BY <3>3, <3>4, <4>2
    <3>6. CurrentOf(p)' = CurrentOf(p)
      BY <1>1, <1>8 DEF CurrentOf, Elected, ActiveOf, User, KernelPhase, WakePhase, BootEnd
    <3>7. VectorOf(p)' = VectorOf(p)
      BY <1>1, <1>8 DEF VectorOf, Handed, HwiOf
    <3>8. Passed(p, KernelPhase + 2)' = Passed(p, KernelPhase + 2)
      BY <1>2, <1>7 DEF Passed
    <3>9. psched'[p] = [current |-> CurrentOf(p), context |-> ContextsOf(p)',
                        idle |-> Passed(p, KernelPhase + 2), vector |-> VectorOf(p)]
      <4> DEFINE c == ContextsOf(p)'
      <4> HIDE DEF c
      <4>1. psched'[p] = [psched[p] EXCEPT !.context = c]
        BY <3>5 DEF c
      <4>2. psched'[p] = [current |-> CurrentOf(p), context |-> c,
                          idle |-> Passed(p, KernelPhase + 2), vector |-> VectorOf(p)]
        BY <3>1, <4>1
      <4> QED
        BY <4>2 DEF c
    <3> QED
      BY <2>2, <3>6, <3>7, <3>8, <3>9 DEF SchedulerOf
  <2> QED
    BY <2>1, <2>2
<1>10. Tables'
  <2>1. psched' = [q \in Proc |-> psched'[q]]
    <3>1. psched = [q \in Proc |-> SchedulerOf(q)]
      BY <1>3 DEF Tables
    <3> QED
      BY <3>1 DEF CompleteContexts
  <2>2. mask' = [q \in Proc |-> IF Passed(Lead(q), 0)' THEN Handed(q) \cup Boxes ELSE {}]
    BY <1>1, <1>3, <1>8 DEF Tables
  <2>3. ltid' = [i \in DOMAIN Tasks |->
                  IF Passed(Lead(Tasks[i].proc), 1)' THEN LtidOf(i) ELSE -1]
    <3>1. \A i \in DOMAIN Tasks : Tasks[i].proc \in Proc
      BY DEF StartupAssumption
    <3> QED
      BY <1>1, <1>3, <1>8, <3>1 DEF Tables
  <2> QED
    BY <1>9, <2>1, <2>2, <2>3, TablesPrimed
<1> QED
  BY <1>4, <1>5, <1>6, <1>10 DEF IInv

LEMMA StartTimerStep ==
  ASSUME StartupAssumption, IInv, NEW p \in Proc, StartTimer(p)
  PROVE  IInv'
<1>1. /\ phase[p] = KernelPhase + 2 /\ p \notin done /\ Finish(p) /\ phase' = phase
      /\ UNCHANGED <<ltid, mask, buffer, loaded>>
      /\ UNCHANGED <<released, schedulers, epc>>
      /\ psched' = [psched EXCEPT ![p].idle = TRUE]
      /\ timers' = IF psched[p].context = NoContext THEN timers ELSE timers \cup {p}
      /\ globals' = IF p = First THEN globals \cup {"fat"} ELSE globals
  BY DEF StartTimer, Working, boot, Finish
<1>2. /\ BootEnd \in Nat /\ BootEnd >= 4 /\ KernelPhase = BootEnd + 2 /\ User = BootEnd + 6
      /\ First \in Proc /\ \A q \in Proc : Lead(q) \in Proc
  BY Phases, Processors
<1>3. AtBarrier(p) /\ Places /\ InStep /\ Tables /\ FilesLoaded /\ KernelTables
  BY <1>1, <1>2 DEF AtBarrier, IInv
<1>4. Places' /\ InStep'
  BY <1>1, <1>3, FinishKeepsStep
<1>5. FilesLoaded'
  BY <1>1, <1>2, <1>3, FinishSame, FilesStay
<1>6. /\ \A q \in Proc : \A k \in Int :
           (q # p \/ k # KernelPhase + 2) => (Passed(q, k)' <=> Passed(q, k))
      /\ Passed(p, KernelPhase + 2)'
  BY <1>1, <1>3, FinishPasses
<1>7. /\ InKernel(p) /\ Passed(Lead(p), 1) /\ ~Passed(p, KernelPhase + 2)
      /\ Passed(p, KernelPhase)
      /\ \A q \in Proc : (Passed(Lead(q), 0)' <=> Passed(Lead(q), 0))
                       /\ (Passed(Lead(q), 1)' <=> Passed(Lead(q), 1))
  <2>1. InKernel(p) /\ Passed(p, KernelPhase) /\ ~Passed(p, KernelPhase + 2)
    BY <1>1, <1>2 DEF InKernel, Passed
  <2>2. Passed(Lead(p), 1)
    BY <2>1, InKernelFacts
  <2> QED
    BY <1>2, <1>6, <2>1, <2>2
<1>8. /\ globals # {} /\ Structures \subseteq globals /\ released
      /\ globals \subseteq Structures \cup {"fat"}
      /\ globals' # {} /\ Structures \subseteq globals' /\ globals' \subseteq Structures \cup {"fat"}
  BY <1>1, <1>3, <1>7 DEF KernelTables
<1>9. \A q \in Proc :
        /\ Passed(q, KernelPhase)' <=> Passed(q, KernelPhase)
        /\ Passed(q, KernelPhase + 2)' <=> (Passed(q, KernelPhase + 2) \/ q = p)
  BY <1>2, <1>6
<1>10. KernelTables'
  <2>1. schedulers' = {q \in Proc : Passed(q, KernelPhase)'}
    BY <1>1, <1>3, <1>9 DEF KernelTables
  <2>2. timers' = {q \in Proc : Passed(q, KernelPhase + 2)' /\ OnProc(q) # {}}
    <3>1. timers = {q \in Proc : Passed(q, KernelPhase + 2) /\ OnProc(q) # {}}
      BY <1>3 DEF KernelTables
    <3>2. psched[p].context = NoContext <=> OnProc(p) = {}
      BY <1>7, ContextFacts
    <3> QED
      BY <1>1, <1>9, <3>1, <3>2
  <2>3. epc' = [q \in Proc |-> IF phase'[q] # User THEN "none"
                              ELSE IF ActiveOf(q) = {} THEN "idle" ELSE "code"]
    BY <1>1, <1>3 DEF KernelTables
  <2>4. "fat" \in globals' <=> Passed(First, KernelPhase + 2)'
    <3>1. "fat" \in globals <=> Passed(First, KernelPhase + 2)
      BY <1>3 DEF KernelTables
    <3> QED
      BY <1>1, <1>2, <1>9, <3>1
  <2>5. InKernel(First)'
    <3>1. InKernel(First)
      BY <1>3, <1>8 DEF KernelTables
    <3> QED
      BY <1>1, <3>1 DEF InKernel
  <2> QED
    BY <1>1, <1>8, <2>1, <2>2, <2>3, <2>4, <2>5, KernelTablesPrimed
<1>11. ASSUME NEW q \in Proc PROVE psched'[q] = SchedulerOf(q)'
  <2>1. CASE q # p
    <3>1. SameWork(q)
      BY <1>1, <1>2, <1>6, <1>7, <2>1 DEF SameWork
    <3>2. psched'[q] = psched[q]
      BY <1>1, <1>3, <2>1 DEF Tables
    <3> QED
      BY <1>3, <1>8, <3>1, <3>2, SameScheduler DEF Tables
  <2>2. CASE q = p
    <3>1. psched[p] = [current |-> CurrentOf(p), context |-> ContextsOf(p),
                       idle |-> Passed(p, KernelPhase + 2), vector |-> VectorOf(p)]
      BY <1>3 DEF Tables, SchedulerOf
    <3>2. psched'[p] = [psched[p] EXCEPT !.idle = TRUE]
      BY <1>1, <1>3 DEF Tables
    <3>3. psched'[p] = [current |-> CurrentOf(p), context |-> ContextsOf(p),
                        idle |-> TRUE, vector |-> VectorOf(p)]
      <4> DEFINE before == psched[p]  after == psched'[p]  set == TRUE
                 i == Passed(p, KernelPhase + 2)
      <4>1. before = [current |-> CurrentOf(p), context |-> ContextsOf(p),
                      idle |-> i, vector |-> VectorOf(p)]
        BY <3>1
      <4>2. after = [before EXCEPT !.idle = set]
        BY <3>2
      <4> HIDE DEF before, after, set, i
      <4>3. after = [current |-> CurrentOf(p), context |-> ContextsOf(p),
                     idle |-> set, vector |-> VectorOf(p)]
        BY <4>1, <4>2
      <4> QED
        BY <4>3 DEF after, set
    <3>4. ContextsOf(p)' = ContextsOf(p)
      <4>1. Passed(p, KernelPhase + 1)' = Passed(p, KernelPhase + 1)
        BY <1>2, <1>6 DEF Passed
      <4> QED
        BY <1>7, <4>1 DEF ContextsOf
    <3>5. CurrentOf(p)' = CurrentOf(p)
      BY <1>1, <1>7 DEF CurrentOf, Elected, ActiveOf, User, KernelPhase, WakePhase, BootEnd
    <3>6. VectorOf(p)' = VectorOf(p)
      BY <1>7, <1>8 DEF VectorOf, Handed, HwiOf
    <3>7. Passed(p, KernelPhase + 2)' = TRUE
      BY <1>6 DEF Passed
    <3> QED
      BY <2>2, <3>3, <3>4, <3>5, <3>6, <3>7 DEF SchedulerOf
  <2> QED
    BY <2>1, <2>2
<1>12. Tables'
  <2>1. psched' = [q \in Proc |-> psched'[q]]
    BY <1>1, <1>3 DEF Tables
  <2>2. mask' = [q \in Proc |-> IF Passed(Lead(q), 0)' THEN Handed(q) \cup Boxes ELSE {}]
    BY <1>1, <1>3, <1>7 DEF Tables
  <2>3. ltid' = [i \in DOMAIN Tasks |->
                  IF Passed(Lead(Tasks[i].proc), 1)' THEN LtidOf(i) ELSE -1]
    <3>1. \A i \in DOMAIN Tasks : Tasks[i].proc \in Proc
      BY DEF StartupAssumption
    <3> QED
      BY <1>1, <1>3, <1>7, <3>1 DEF Tables
  <2> QED
    BY <1>11, <2>1, <2>2, <2>3, TablesPrimed
<1> QED
  BY <1>4, <1>5, <1>10, <1>12 DEF IInv

LEMMA ElectStep ==
  ASSUME StartupAssumption, IInv, NEW p \in Proc, Elect(p)
  PROVE  IInv'
<1>1. /\ phase[p] = KernelPhase + 3
      /\ UNCHANGED <<ltid, mask, buffer, loaded>>
      /\ UNCHANGED <<done, globals, released, schedulers, timers>>
      /\ phase' = [phase EXCEPT ![p] = User]
  BY DEF Elect, boot
<1>2. /\ BootEnd \in Nat /\ BootEnd >= 4 /\ KernelPhase = BootEnd + 2 /\ User = BootEnd + 6
      /\ First \in Leaders /\ First \in Proc /\ Leaders \subseteq Proc
      /\ \A q \in Proc : Lead(q) \in Proc
  BY Phases, Processors
<1>3. Places /\ InStep /\ Tables /\ FilesLoaded /\ KernelTables
  BY DEF IInv
<1>4. Places' /\ InStep'
  BY <1>3, ElectKeepsStep
<1>5. /\ \A q \in Proc : \A k \in Int \ {KernelPhase + 3} : Passed(q, k)' <=> Passed(q, k)
      /\ phase \in [Proc -> 0 .. User]
  BY <1>3, ElectPasses DEF Places
<1>6. FilesLoaded'
  <2>1. /\ \A q \in Leaders : \A k \in 2 .. BootEnd - 1 : Passed(q, k)' <=> Passed(q, k)
        /\ Passed(First, BootEnd) => Passed(First, BootEnd)'
    BY <1>2, <1>5
  <2> QED
    BY <1>1, <1>3, <2>1, FilesStay
<1>7. /\ InKernel(p) /\ Passed(Lead(p), 1) /\ Passed(p, KernelPhase + 1)
      /\ \A q \in Proc : (Passed(Lead(q), 0)' <=> Passed(Lead(q), 0))
                       /\ (Passed(Lead(q), 1)' <=> Passed(Lead(q), 1))
      /\ Passed(Lead(p), 0)
  <2>1. InKernel(p) /\ Passed(p, KernelPhase + 1)
    BY <1>1, <1>2 DEF InKernel, Passed
  <2>2. Passed(Lead(p), 1) /\ Passed(Lead(p), 0)
    BY <2>1, InKernelFacts
  <2> QED
    BY <1>2, <1>5, <2>1, <2>2
<1>8. /\ phase'[p] = User /\ phase[p] # User
      /\ \A q \in Proc : q # p => phase'[q] = phase[q]
  BY <1>1, <1>2, <1>5
<1>9. Runnable(p) = ActiveOf(p)
      /\ \A l \in ActiveOf(p) : psched[p].context[l].entry = "code"
  <2>1. Runnable(p) = ActiveOf(p)
        /\ psched[p].context = [l \in DOMAIN TasksOf(p) |->
                                  ContextAt(TasksOf(p)[l], Passed(p, KernelPhase + 1))]
    BY <1>7, ContextFacts
  <2>2. \A i : ContextAt(i, TRUE).entry = "code"
    BY DEF ContextAt
  <2>3. ASSUME NEW l \in ActiveOf(p) PROVE psched[p].context[l].entry = "code"
    <3>1. l \in DOMAIN TasksOf(p)
      BY DEF ActiveOf
    <3>2. psched[p].context[l] = ContextAt(TasksOf(p)[l], Passed(p, KernelPhase + 1))
      BY <2>1, <3>1
    <3>3. Passed(p, KernelPhase + 1) = TRUE
      BY <1>7 DEF Passed
    <3> QED
      BY <2>2, <3>2, <3>3
  <2> QED
    BY <2>1, <2>3
<1>10. ActiveOf(p) # {} => Min(ActiveOf(p)) \in ActiveOf(p)
  <2> SUFFICES ASSUME ActiveOf(p) # {} PROVE Min(ActiveOf(p)) \in ActiveOf(p)
    OBVIOUS
  <2> QED
    BY ActiveFacts, FirstOf
<1>11. /\ psched' = [psched EXCEPT ![p].current = Elected(p)]
       /\ epc' = [epc EXCEPT ![p] = IF ActiveOf(p) = {} THEN "idle" ELSE "code"]
  BY <1>9, <1>10 DEF Elect, Elected
<1>12. KernelTables'
  <2>1. \A q \in Proc :
          /\ Passed(q, KernelPhase)' <=> Passed(q, KernelPhase)
          /\ Passed(q, KernelPhase + 2)' <=> Passed(q, KernelPhase + 2)
    BY <1>2, <1>5
  <2>2. schedulers' = {q \in Proc : Passed(q, KernelPhase)'}
    BY <1>1, <1>3, <2>1 DEF KernelTables
  <2>3. timers' = {q \in Proc : Passed(q, KernelPhase + 2)' /\ OnProc(q) # {}}
    BY <1>1, <1>3, <2>1 DEF KernelTables
  <2>4. epc' = [q \in Proc |-> IF phase'[q] # User THEN "none"
                              ELSE IF ActiveOf(q) = {} THEN "idle" ELSE "code"]
    BY <1>3, <1>8, <1>11 DEF KernelTables
  <2>5. InKernel(First) => InKernel(First)'
    BY <1>2, <1>8 DEF InKernel
  <2>6. /\ globals' \subseteq Structures \cup {"fat"}
        /\ globals' # {} => InKernel(First)' /\ Structures \subseteq globals'
        /\ released' => globals' # {}
        /\ \A q \in Proc : Passed(q, KernelPhase)' => released'
        /\ "fat" \in globals' <=> Passed(First, KernelPhase + 2)'
    BY <1>1, <1>2, <1>3, <2>1, <2>5 DEF KernelTables
  <2> QED
    BY <2>2, <2>3, <2>4, <2>6, KernelTablesPrimed
<1>13. ASSUME NEW q \in Proc PROVE psched'[q] = SchedulerOf(q)'
  <2>1. CASE q # p
    <3>1. SameWork(q)
      BY <1>2, <1>5, <1>7, <1>8, <2>1 DEF SameWork
    <3>2. psched'[q] = psched[q]
      BY <1>3, <1>11, <2>1 DEF Tables
    <3> QED
      BY <1>1, <1>3, <3>1, <3>2, SameScheduler DEF Tables
  <2>2. CASE q = p
    <3>1. psched[p] = [current |-> CurrentOf(p), context |-> ContextsOf(p),
                       idle |-> Passed(p, KernelPhase + 2), vector |-> VectorOf(p)]
      BY <1>3 DEF Tables, SchedulerOf
    <3>2. psched'[p] = [psched[p] EXCEPT !.current = Elected(p)]
      BY <1>3, <1>11 DEF Tables
    <3>3. psched'[p] = [current |-> Elected(p), context |-> ContextsOf(p),
                        idle |-> Passed(p, KernelPhase + 2), vector |-> VectorOf(p)]
      BY <3>1, <3>2
    <3>4. ContextsOf(p)' = ContextsOf(p)
      <4>1. Passed(p, KernelPhase + 1)' = Passed(p, KernelPhase + 1)
        BY <1>2, <1>5 DEF Passed
      <4> QED
        BY <1>7, <4>1 DEF ContextsOf
    <3>5. CurrentOf(p)' = Elected(p)
      BY <1>7, <1>8 DEF CurrentOf, Elected, ActiveOf, User, KernelPhase, WakePhase, BootEnd
    <3>6. VectorOf(p)' = VectorOf(p)
      BY <1>1, <1>7 DEF VectorOf, Handed, HwiOf
    <3>7. Passed(p, KernelPhase + 2)' = Passed(p, KernelPhase + 2)
      BY <1>2, <1>5 DEF Passed
    <3> QED
      BY <2>2, <3>3, <3>4, <3>5, <3>6, <3>7 DEF SchedulerOf
  <2> QED
    BY <2>1, <2>2
<1>14. Tables'
  <2>1. psched' = [q \in Proc |-> psched'[q]]
    BY <1>3, <1>11 DEF Tables
  <2>2. mask' = [q \in Proc |-> IF Passed(Lead(q), 0)' THEN Handed(q) \cup Boxes ELSE {}]
    BY <1>1, <1>3, <1>7 DEF Tables
  <2>3. ltid' = [i \in DOMAIN Tasks |->
                  IF Passed(Lead(Tasks[i].proc), 1)' THEN LtidOf(i) ELSE -1]
    <3>1. \A i \in DOMAIN Tasks : Tasks[i].proc \in Proc
      BY DEF StartupAssumption
    <3> QED
      BY <1>1, <1>3, <1>7, <3>1 DEF Tables
  <2> QED
    BY <1>13, <2>1, <2>2, <2>3, TablesPrimed
<1> QED
  BY <1>4, <1>6, <1>12, <1>14 DEF IInv

LEMMA CrossStep ==
  ASSUME StartupAssumption, IInv, NEW p \in Proc, Cross(p)
  PROVE  IInv'
<1>1. /\ p \in done /\ phase' = [phase EXCEPT ![p] = phase[p] + 1]
      /\ UNCHANGED <<psched, ltid, mask, buffer, loaded>>
      /\ UNCHANGED <<globals, released, schedulers, timers, epc>>
  BY DEF Cross, boot, kernel
<1>2. /\ BootEnd \in Nat /\ BootEnd >= 4 /\ WakePhase = BootEnd + 1
      /\ KernelPhase = BootEnd + 2 /\ User = BootEnd + 6
      /\ First \in Leaders /\ First \in Proc /\ Leaders \subseteq Proc
      /\ \A q \in Proc : Lead(q) \in Proc
  BY Phases, Processors
<1>3. Places /\ InStep /\ Tables /\ FilesLoaded /\ KernelTables
  BY DEF IInv
<1>4. Places' /\ InStep'
  BY <1>3, CrossKeepsStep
<1>5. /\ \A q \in Proc : \A k \in Int : Passed(q, k)' <=> Passed(q, k)
      /\ phase \in [Proc -> 0 .. User]
      /\ phase[p] <= BootEnd \/ phase[p] \in KernelPhase .. KernelPhase + 2
  BY <1>1, <1>3, CrossPasses DEF Places
<1>6. ASSUME NEW q \in Proc
      PROVE  /\ (phase'[q] = User) <=> (phase[q] = User)
             /\ phase[q] >= KernelPhase => phase'[q] >= KernelPhase
  BY <1>1, <1>2, <1>5
<1>7. \A q \in Proc : SameWork(q)
  BY <1>2, <1>5, <1>6 DEF SameWork
<1>8. Tables'
  BY <1>1, <1>3, <1>7, TablesStay
<1>9. FilesLoaded'
  <2>1. /\ \A q \in Leaders : \A k \in 2 .. BootEnd - 1 : Passed(q, k)' <=> Passed(q, k)
        /\ Passed(First, BootEnd) => Passed(First, BootEnd)'
    BY <1>2, <1>5
  <2> QED
    BY <1>1, <1>3, <2>1, FilesStay
<1>10. KernelTables'
  <2>1. InKernel(First) => InKernel(First)'
    BY <1>2, <1>6 DEF InKernel
  <2>2. \A q \in Proc :
          /\ Passed(q, KernelPhase)' <=> Passed(q, KernelPhase)
          /\ Passed(q, KernelPhase + 2)' <=> Passed(q, KernelPhase + 2)
          /\ (phase'[q] = User) <=> (phase[q] = User)
    BY <1>2, <1>5, <1>6
  <2> QED
    BY <1>1, <1>3, <2>1, <2>2, KernelStays
<1> QED
  BY <1>4, <1>8, <1>9, <1>10 DEF IInv

-----------------------------------------------------------------------------
(* The invariant                                                           *)

\* Nobody has done anything: every table is empty.
LEMMA InitHolds ==
  ASSUME StartupAssumption, Init
  PROVE  IInv
<1>1. /\ BootEnd \in Nat /\ BootEnd >= 4 /\ WakePhase = BootEnd + 1
      /\ KernelPhase = BootEnd + 2 /\ User = BootEnd + 6
      /\ Files = 0 .. Spaces /\ Spaces \in Nat
      /\ First \in Leaders /\ First \in Proc /\ Leaders \subseteq Proc
      /\ \A p \in Proc : Lead(p) \in Leaders
      /\ \A p \in Leaders : Leader(p)
      /\ \A c \in 0 .. Clusters - 1 : <<c, 0>> \in Leaders
  BY Phases, Processors
<1>2. /\ phase = [p \in Proc |-> IF Leader(p) THEN 0 ELSE WakePhase]
      /\ done = {} /\ buffer = -1 /\ globals = {} /\ released = FALSE
      /\ schedulers = {} /\ timers = {}
      /\ psched = [p \in Proc |-> NoScheduler]
      /\ ltid = [i \in DOMAIN Tasks |-> -1]
      /\ mask = [p \in Proc |-> {}]
      /\ loaded = [s \in DOMAIN Segments |-> -1]
      /\ epc = [p \in Proc |-> "none"]
  BY DEF Init
<1>3. /\ \A p \in Proc : phase[p] \in 0 .. WakePhase
      /\ \A p \in Leaders : phase[p] = 0
      /\ \A p \in Proc : ~Leader(p) => phase[p] = WakePhase
  BY <1>1, <1>2
<1>4. /\ \A p \in Leaders : \A k \in Nat : ~Passed(p, k)
      /\ \A p \in Proc : \A k \in Nat : k >= WakePhase => ~Passed(p, k)
      /\ \A p \in Proc : ~InKernel(p)
  BY <1>1, <1>2, <1>3 DEF Passed, InKernel
<1>5. Places
  <2>1. phase \in [Proc -> 0 .. User]
    BY <1>1, <1>2
  <2> QED
    BY <1>1, <1>2, <1>3, <1>4, <2>1 DEF Places
<1>6. InStep
  <2>1. ASSUME NEW p \in Leaders, NEW q \in Leaders, NEW k \in 0 .. BootEnd, phase[p] > k
        PROVE  Passed(q, k)
    BY <1>1, <1>3, <2>1
  <2>2. ASSUME NEW p \in Proc, NEW q \in Proc, NEW k \in KernelPhase .. KernelPhase + 2,
               phase[p] > k
        PROVE  Passed(q, k)
    BY <1>1, <1>3, <2>2
  <2> QED
    BY <2>1, <2>2 DEF InStep
<1>7. Tables
  <2>1. ASSUME NEW p \in Proc
        PROVE  SchedulerOf(p) = NoScheduler /\ ~Passed(Lead(p), 0) /\ ~Passed(Lead(p), 1)
    <3>1. ~Passed(Lead(p), 0) /\ ~Passed(Lead(p), 1)
      BY <1>1, <1>4
    <3>2. CurrentOf(p) = -1 /\ ContextsOf(p) = NoContext /\ VectorOf(p) = {}
      BY <3>1 DEF CurrentOf, ContextsOf, VectorOf
    <3>3. Passed(p, KernelPhase + 2) = FALSE
      BY <1>1, <1>4 DEF Passed
    <3>4. SchedulerOf(p) = [current |-> -1, context |-> NoContext, idle |-> FALSE, vector |-> {}]
      BY <3>2, <3>3 DEF SchedulerOf
    <3> QED
      BY <3>1, <3>4 DEF NoScheduler
  <2>2. psched = [p \in Proc |-> SchedulerOf(p)]
    BY <1>2, <2>1
  <2>3. mask = [p \in Proc |-> IF Passed(Lead(p), 0) THEN Handed(p) \cup Boxes ELSE {}]
    BY <1>2, <2>1
  <2>4. ltid = [i \in DOMAIN Tasks |->
                 IF Passed(Lead(Tasks[i].proc), 1) THEN LtidOf(i) ELSE -1]
    <3>1. \A i \in DOMAIN Tasks : Tasks[i].proc \in Proc
      BY DEF StartupAssumption
    <3> QED
      BY <1>2, <2>1, <3>1
  <2> QED
    BY <2>2, <2>3, <2>4 DEF Tables
<1>8. FilesLoaded
  <2>1. \A f \in Files : ~Passed(First, 2 * f + 2)
    <3>1. \A f \in Files : 2 * f + 2 \in Nat
      BY <1>1
    <3> QED
      BY <1>1, <1>4, <3>1
  <2>2. ASSUME NEW s \in DOMAIN Segments
        PROVE  ~Passed(<<Segments[s].cluster, 0>>, 2 * Segments[s].file + 3)
    <3>1. Segments[s] \in [file : Files, cluster : 0 .. Clusters - 1]
      BY DEF StartupAssumption
    <3>2. Segments[s].file \in Nat /\ Segments[s].cluster \in 0 .. Clusters - 1
      BY <1>1, <3>1
    <3>3. 2 * Segments[s].file + 3 \in Nat
      BY <3>2
    <3> QED
      BY <1>1, <1>4, <3>2, <3>3
  <2>3. loaded \in [DOMAIN Segments -> {-1} \cup Files] /\ buffer \in {-1} \cup Files
    BY <1>2
  <2> QED
    BY <2>1, <2>2, <2>3 DEF FilesLoaded
<1>9. KernelTables
  <2>1. \A p \in Proc : ~Passed(p, KernelPhase) /\ ~Passed(p, KernelPhase + 2) /\ phase[p] # User
    BY <1>1, <1>3, <1>4
  <2>2. /\ schedulers = {p \in Proc : Passed(p, KernelPhase)}
        /\ timers = {p \in Proc : Passed(p, KernelPhase + 2) /\ OnProc(p) # {}}
        /\ epc = [p \in Proc |-> IF phase[p] # User THEN "none"
                                  ELSE IF ActiveOf(p) = {} THEN "idle" ELSE "code"]
    BY <1>2, <2>1
  <2> QED
    BY <1>1, <1>2, <2>1, <2>2 DEF KernelTables
<1> QED
  BY <1>5, <1>6, <1>7, <1>8, <1>9 DEF IInv

LEMMA StepHolds ==
  ASSUME StartupAssumption, IInv, [Next]_vars
  PROVE  IInv'
<1>1. ASSUME NEW p \in Proc,
             \/ InitSchedulers(p) \/ InitContexts(p) \/ LoadFile(p) \/ CopySegments(p)
             \/ Loaded(p) \/ WakeUp(p)
             \/ InitGlobals(p) \/ Release(p) \/ SetScheduler(p) \/ CompleteContexts(p)
             \/ StartTimer(p) \/ Elect(p) \/ Cross(p)
      PROVE  IInv'
  BY <1>1, InitSchedulersStep, InitContextsStep, LoadFileStep, CopySegmentsStep, LoadedStep,
     WakeUpStep, InitGlobalsStep, ReleaseStep, SetSchedulerStep, CompleteContextsStep,
     StartTimerStep, ElectStep, CrossStep
<1>2. CASE UNCHANGED vars
  <2>1. /\ phase' = phase /\ done' = done /\ psched' = psched /\ ltid' = ltid /\ mask' = mask
        /\ buffer' = buffer /\ loaded' = loaded /\ globals' = globals /\ released' = released
        /\ schedulers' = schedulers /\ timers' = timers /\ epc' = epc
    BY <1>2 DEF vars, boot, kernel
  <2>2. \A q, k : Passed(q, k)' <=> Passed(q, k)
    BY <2>1 DEF Passed
  <2>3. Places'
    BY <2>1 DEF IInv, Places, InKernel, User, KernelPhase, WakePhase, BootEnd
  <2>4. InStep'
    BY <2>1, <2>2 DEF IInv, InStep, KernelPhase, WakePhase, BootEnd
  <2>5. \A q \in Proc : SameWork(q)
    BY <2>1, <2>2 DEF SameWork
  <2>6. Tables'
    BY <2>1, <2>5, TablesStay DEF IInv
  <2>7. FilesLoaded'
    BY <2>1, <2>2, FilesStay DEF IInv
  <2>8. KernelTables'
    BY <2>1, <2>2, KernelStays DEF IInv, InKernel, KernelPhase, WakePhase, BootEnd
  <2> QED
    BY <2>3, <2>4, <2>6, <2>7, <2>8 DEF IInv
<1> QED
  BY <1>1, <1>2 DEF Next

\* The state of every table is what the processors have done, at every step of the
\* boot loader (boot_init, boot_scheduler_init, boot_elf_load) and of kernel_init.
THEOREM StartupInvariant ==
  ASSUME StartupAssumption
  PROVE  Spec => []IInv
<1>1. Init => IInv
  BY InitHolds
<1>2. IInv /\ [Next]_vars => IInv'
  BY StepHolds
<1> QED
  BY <1>1, <1>2, PTL DEF Spec

-----------------------------------------------------------------------------
(* What the invariant says at each place                                   *)

LEMMA ElectedFacts ==
  ASSUME StartupAssumption, NEW p \in Proc
  PROVE  /\ Elected(p) \in 0 .. IDLE_TASK_INDEX
         /\ Elected(p) = IDLE_TASK_INDEX <=> ActiveOf(p) = {}
         /\ ActiveOf(p) # {} => /\ Elected(p) + 1 \in ActiveOf(p)
                               /\ \A l \in ActiveOf(p) : Elected(p) + 1 <= l
<1>1. CASE ActiveOf(p) = {}
  BY <1>1 DEF Elected, IDLE_TASK_INDEX
<1>2. CASE ActiveOf(p) # {}
  <2>1. /\ Min(ActiveOf(p)) \in ActiveOf(p) /\ \A l \in ActiveOf(p) : Min(ActiveOf(p)) <= l
        /\ ActiveOf(p) \subseteq 1 .. 12
    BY <1>2, ActiveFacts, FirstOf DEF IDLE_TASK_INDEX
  <2>2. Elected(p) = Min(ActiveOf(p)) - 1 /\ Min(ActiveOf(p)) \in 1 .. 12
    BY <1>2, <2>1 DEF Elected
  <2>3. Elected(p) + 1 = Min(ActiveOf(p)) /\ Elected(p) \in 0 .. 11
    BY <2>2
  <2> QED
    BY <1>2, <2>1, <2>3 DEF IDLE_TASK_INDEX
<1> QED
  BY <1>1, <1>2

LEMMA TypeHolds ==
  ASSUME StartupAssumption, IInv
  PROVE  TypeOK
<1>1. /\ \A p \in Proc : psched[p] = SchedulerOf(p)
      /\ \A p \in Proc : mask[p] = IF Passed(Lead(p), 0) THEN Handed(p) \cup Boxes ELSE {}
      /\ ltid = [i \in DOMAIN Tasks |-> IF Passed(Lead(Tasks[i].proc), 1) THEN LtidOf(i) ELSE -1]
  BY DEF IInv, Tables
<1>2. ASSUME NEW p \in Proc
      PROVE  /\ psched[p].current \in -1 .. IDLE_TASK_INDEX
             /\ psched[p].vector \subseteq mask[p]
             /\ Len(psched[p].context) \in {0, Len(TasksOf(p))}
  <2>1. psched[p].current = CurrentOf(p) /\ psched[p].vector = VectorOf(p)
        /\ psched[p].context = ContextsOf(p)
    <3>1. psched[p] = [current |-> CurrentOf(p), context |-> ContextsOf(p),
                       idle |-> Passed(p, KernelPhase + 2), vector |-> VectorOf(p)]
      BY <1>1 DEF SchedulerOf
    <3> QED
      BY <3>1
  <2>2. CurrentOf(p) \in -1 .. IDLE_TASK_INDEX
    BY ElectedFacts DEF CurrentOf, IDLE_TASK_INDEX
  <2>3. VectorOf(p) \subseteq mask[p]
    BY <1>1 DEF VectorOf, Boxes
  <2>4. Len(psched[p].context) \in {0, Len(TasksOf(p))}
    <3>1. CASE Passed(Lead(p), 1)
      BY <3>1, ContextFacts
    <3>2. CASE ~Passed(Lead(p), 1)
      BY <2>1, <3>2 DEF ContextsOf, NoContext
    <3> QED
      BY <3>1, <3>2
  <2> QED
    BY <2>1, <2>2, <2>3, <2>4
<1>3. ltid \in [DOMAIN Tasks -> -1 .. IDLE_TASK_INDEX - 1]
  <2>1. \A i \in DOMAIN Tasks : LtidOf(i) \in -1 .. IDLE_TASK_INDEX - 1
    BY TypeOfLtid DEF IDLE_TASK_INDEX
  <2>2. -1 \in -1 .. IDLE_TASK_INDEX - 1
    BY DEF IDLE_TASK_INDEX
  <2> QED
    BY <1>1, <2>1, <2>2
<1>4. /\ globals \subseteq Structures \cup {"fat"}
      /\ schedulers \subseteq Proc /\ timers \subseteq Proc
      /\ epc \in [Proc -> {"none", "code", "word", "idle"}]
  BY DEF IInv, KernelTables
<1> QED
  BY <1>2, <1>3, <1>4 DEF IInv, Places, FilesLoaded, TypeOK

\* The context of a task, once the contexts are there.
LEMMA ContextOfTask ==
  ASSUME StartupAssumption, IInv, NEW p \in Proc, Passed(Lead(p), 1), NEW i \in OnProc(p)
  PROVE  /\ LtidOf(i) + 1 \in DOMAIN TasksOf(p) /\ TasksOf(p)[LtidOf(i) + 1] = i
         /\ psched[p].context[LtidOf(i) + 1] = ContextAt(i, Passed(p, KernelPhase + 1))
<1>1. LtidOf(i) + 1 \in DOMAIN TasksOf(p) /\ TasksOf(p)[LtidOf(i) + 1] = i
  BY TasksInOrder
<1> DEFINE l == LtidOf(i) + 1
<1>2. l \in DOMAIN TasksOf(p) /\ TasksOf(p)[l] = i
  BY <1>1
<1> HIDE DEF l
<1>3. psched[p].context = [k \in DOMAIN TasksOf(p) |->
                            ContextAt(TasksOf(p)[k], Passed(p, KernelPhase + 1))]
  BY ContextFacts
<1>4. psched[p].context[l] = ContextAt(i, Passed(p, KernelPhase + 1))
  BY <1>2, <1>3
<1> QED
  BY <1>1, <1>4 DEF l

LEMMA OrderHolds ==
  ASSUME StartupAssumption, IInv
  PROVE  StartsInOrder
<1>1. /\ BootEnd \in Nat /\ BootEnd = 2 * Spaces + 4 /\ KernelPhase = BootEnd + 2
      /\ User = BootEnd + 6 /\ Files = 0 .. Spaces /\ Spaces \in Nat
      /\ First \in Proc /\ \A c \in 0 .. Clusters - 1 : <<c, 0>> \in Leaders
  BY Phases, Processors
<1>2. \A i \in DOMAIN Tasks : Tasks[i].proc \in Proc /\ i \in OnProc(Tasks[i].proc)
  BY DEF StartupAssumption, OnProc
<1>3. ASSUME NEW p \in Proc, InKernel(p), NEW s \in DOMAIN Segments
      PROVE  loaded[s] = Segments[s].file
  <2>1. Segments[s] \in [file : Files, cluster : 0 .. Clusters - 1]
    BY DEF StartupAssumption
  <2>2. /\ <<Segments[s].cluster, 0>> \in Leaders
        /\ 2 * Segments[s].file + 3 \in 0 .. BootEnd
    BY <1>1, <2>1
  <2>3. Passed(<<Segments[s].cluster, 0>>, 2 * Segments[s].file + 3)
    BY <1>3, <2>2, InKernelFacts
  <2> QED
    BY <2>3 DEF IInv, FilesLoaded
<1>4. ASSUME NEW p \in Proc, InKernel(p), NEW q \in Proc
      PROVE  psched[q].current # -1 /\ Len(psched[q].context) = Len(TasksOf(q))
  <2>1. Passed(Lead(q), 0) /\ Passed(Lead(q), 1)
    BY <1>4, InKernelFacts
  <2>2. psched[q].current = CurrentOf(q)
    BY DEF IInv, Tables, SchedulerOf
  <2>3. CurrentOf(q) \in 0 .. IDLE_TASK_INDEX
    BY <2>1, ElectedFacts DEF CurrentOf, IDLE_TASK_INDEX
  <2>4. -1 \notin 0 .. IDLE_TASK_INDEX
    BY DEF IDLE_TASK_INDEX
  <2>5. Len(psched[q].context) = Len(TasksOf(q))
    BY <2>1, ContextFacts
  <2> QED
    BY <2>2, <2>3, <2>4, <2>5
<1>5. ASSUME NEW p \in Proc, InKernel(p), NEW i \in DOMAIN Tasks
      PROVE  psched[Tasks[i].proc].context[ltid[i] + 1].task = i
  <2>1. Passed(Lead(Tasks[i].proc), 1)
    BY <1>2, <1>5, InKernelFacts
  <2>2. ltid[i] = LtidOf(i)
    BY <2>1 DEF IInv, Tables
  <2>3. psched[Tasks[i].proc].context[LtidOf(i) + 1]
          = ContextAt(i, Passed(Tasks[i].proc, KernelPhase + 1))
    BY <1>2, <2>1, ContextOfTask
  <2>4. \A c : ContextAt(i, c).task = i
    BY DEF ContextAt
  <2> QED
    BY <2>2, <2>3, <2>4
<1>6. ASSUME NEW p \in Proc, Passed(p, KernelPhase) PROVE Structures \subseteq globals
  BY <1>6 DEF IInv, KernelTables
<1>7. ASSUME NEW p \in Proc, phase[p] = User
      PROVE  /\ schedulers = Proc /\ "fat" \in globals /\ epc[p] \in {"code", "idle"}
             /\ \A q \in Proc :
                  psched[q].idle /\ (psched[q].context # NoContext => q \in timers)
  <2>1. \A q \in Proc : Passed(q, KernelPhase) /\ Passed(q, KernelPhase + 2)
    <3>1. /\ KernelPhase \in KernelPhase .. KernelPhase + 2 /\ phase[p] > KernelPhase
          /\ KernelPhase + 2 \in KernelPhase .. KernelPhase + 2 /\ phase[p] > KernelPhase + 2
      BY <1>1, <1>7
    <3> QED
      BY <3>1 DEF IInv, InStep
  <2>2. schedulers = Proc /\ "fat" \in globals /\ epc[p] \in {"code", "idle"}
    BY <1>1, <1>7, <2>1 DEF IInv, KernelTables
  <2>3. ASSUME NEW q \in Proc
        PROVE  psched[q].idle /\ (psched[q].context # NoContext => q \in timers)
    <3>1. InKernel(p)
      BY <1>1, <1>7 DEF InKernel
    <3>2. Passed(Lead(q), 1)
      BY <3>1, InKernelFacts
    <3>3. psched[q].idle = Passed(q, KernelPhase + 2)
      BY DEF IInv, Tables, SchedulerOf
    <3>4. psched[q].context = NoContext <=> OnProc(q) = {}
      BY <3>2, ContextFacts
    <3>5. timers = {r \in Proc : Passed(r, KernelPhase + 2) /\ OnProc(r) # {}}
      BY DEF IInv, KernelTables
    <3> QED
      BY <2>1, <3>3, <3>4, <3>5
  <2> QED
    BY <2>2, <2>3
<1> QED
  BY <1>3, <1>4, <1>5, <1>6, <1>7 DEF StartsInOrder

LEMMA IrqsHold ==
  ASSUME StartupAssumption, IInv
  PROVE  IrqsRouted
<1> SUFFICES ASSUME NEW p \in Proc, InKernel(p), NEW i \in DOMAIN Irqs[p[1]]
             PROVE  Cardinality({q \in ProcsOf(p[1]) :
                      Irqs[p[1]][i] \in mask[q] /\ Irqs[p[1]][i] \in psched[q].vector}) = 1
  BY DEF IrqsRouted
<1> DEFINE c == p[1]
           k == (i - 1) % NbProcs
           to == <<c, k>>
<1>1. /\ c \in 0 .. Clusters - 1 /\ NbProcs \in Nat \ {0}
      /\ i \in 1 .. Len(Irqs[c]) /\ Len(Irqs[c]) \in Nat
      /\ IsInjective(Irqs[c]) /\ Irqs[c][i] \notin Others
  BY DEF Proc, StartupAssumption
<1>2. k \in 0 .. NbProcs - 1
  BY <1>1
<1>3. to \in ProcsOf(c) /\ to[2] = k
  BY <1>1, <1>2 DEF ProcsOf, Proc
<1>4. ASSUME NEW q \in ProcsOf(c)
      PROVE  /\ Irqs[c][i] \in mask[q] <=> Irqs[c][i] \in HwiOf(q)
             /\ Irqs[c][i] \in psched[q].vector <=> Irqs[c][i] \in HwiOf(q)
  <2>1. q \in Proc
    BY DEF ProcsOf
  <2>2. Passed(Lead(q), 0)
    BY <2>1, InKernelFacts
  <2>3. mask[q] = Handed(q) \cup Boxes /\ psched[q].vector = VectorOf(q)
    BY <2>1, <2>2 DEF IInv, Tables, SchedulerOf
  <2>4. VectorOf(q) = Handed(q) \cup (IF q = First /\ globals # {} THEN {"box1"} ELSE {})
    BY <2>2 DEF VectorOf
  <2> QED
    BY <1>1, <2>3, <2>4 DEF Handed, Others, Boxes
<1>5. ASSUME NEW q \in ProcsOf(c) PROVE Irqs[c][i] \in HwiOf(q) <=> q = to
  <2>1. q = <<c, q[2]>>
    BY DEF ProcsOf, Proc
  <2>2. HwiOf(q) = {Irqs[c][j] : j \in {n \in DOMAIN Irqs[c] : (n - 1) % NbProcs = q[2]}}
    BY DEF HwiOf, ProcsOf
  <2>3. Irqs[c][i] \in HwiOf(q) <=> k = q[2]
    <3>1. \A j \in DOMAIN Irqs[c] : Irqs[c][j] = Irqs[c][i] => j = i
      BY <1>1 DEF IsInjective
    <3> QED
      BY <2>2, <3>1
  <2> QED
    BY <1>3, <2>1, <2>3
<1>6. {q \in ProcsOf(c) : Irqs[c][i] \in mask[q] /\ Irqs[c][i] \in psched[q].vector} = {to}
  <2> HIDE DEF to
  <2> QED
    BY <1>3, <1>4, <1>5
<1> QED
  BY <1>6, FS_Singleton

-----------------------------------------------------------------------------
(* The state that is handed over to Scheduler                              *)

\* A task has a slot of its own, and every slot is that of a task.
LEMMA SlotFacts ==
  ASSUME StartupAssumption
  PROVE  /\ \A i \in DOMAIN Tasks :
              /\ Slot(i) \in Slots /\ Slot(i)[1] = Tasks[i].proc /\ Slot(i)[2] = LtidOf(i)
              /\ Tasks[i].proc \in Proc /\ i \in OnProc(Tasks[i].proc)
              /\ Tasks[i].space \in 0 .. Spaces - 1
         /\ \A i, j \in DOMAIN Tasks : Slot(i) = Slot(j) => i = j
         /\ \A t \in Slots :
              /\ t = <<t[1], t[2]>> /\ t[1] \in Proc /\ t[2] \in Nat
              /\ t[2] + 1 \in DOMAIN TasksOf(t[1])
              /\ \E i \in OnProc(t[1]) :
                   i = TasksOf(t[1])[t[2] + 1] /\ LtidOf(i) = t[2] /\ Slot(i) = t
         /\ \A p \in Proc : OnProc(p) \subseteq DOMAIN Tasks
<1>1. ASSUME NEW i \in DOMAIN Tasks
      PROVE  /\ Slot(i) \in Slots /\ Slot(i)[1] = Tasks[i].proc /\ Slot(i)[2] = LtidOf(i)
             /\ Tasks[i].proc \in Proc /\ i \in OnProc(Tasks[i].proc)
             /\ Tasks[i].space \in 0 .. Spaces - 1
             /\ TasksOf(Tasks[i].proc)[LtidOf(i) + 1] = i
  <2> DEFINE p == Tasks[i].proc
             l == LtidOf(i) + 1
             n == Len(TasksOf(p))
  <2>1. p \in Proc /\ i \in OnProc(p) /\ Tasks[i].space \in 0 .. Spaces - 1
    BY DEF StartupAssumption, OnProc
  <2>2. l \in 1 .. n /\ TasksOf(p)[l] = i /\ n \in Nat
    BY <2>1, TasksInOrder DEF IDLE_TASK_INDEX
  <2>3. LtidOf(i) \in Int
    BY TypeOfLtid DEF IDLE_TASK_INDEX
  <2>4. LtidOf(i) \in 0 .. n - 1
    <3> HIDE DEF n
    <3> QED
      BY <2>2, <2>3
  <2>5. Slot(i) \in Slots
    BY <2>1, <2>4 DEF Slot, Slots
  <2> QED
    BY <2>1, <2>2, <2>5 DEF Slot
<1>2. ASSUME NEW i \in DOMAIN Tasks, NEW j \in DOMAIN Tasks, Slot(i) = Slot(j) PROVE i = j
  <2>1. Tasks[i].proc = Tasks[j].proc /\ LtidOf(i) = LtidOf(j)
    BY <1>2 DEF Slot
  <2> QED
    BY <1>1, <2>1
<1>3. ASSUME NEW t \in Slots
      PROVE  /\ t = <<t[1], t[2]>> /\ t[1] \in Proc /\ t[2] \in Nat
             /\ t[2] + 1 \in DOMAIN TasksOf(t[1])
             /\ \E i \in OnProc(t[1]) :
                  i = TasksOf(t[1])[t[2] + 1] /\ LtidOf(i) = t[2] /\ Slot(i) = t
  <2>1. PICK p \in Proc : t \in {p} \X (0 .. Len(TasksOf(p)) - 1)
    BY DEF Slots
  <2>2. t = <<t[1], t[2]>> /\ t[1] = p /\ t[2] \in 0 .. Len(TasksOf(p)) - 1
    BY <2>1
  <2>3. /\ DOMAIN TasksOf(p) = 1 .. Len(TasksOf(p)) /\ Len(TasksOf(p)) \in Nat
        /\ \A l \in DOMAIN TasksOf(p) :
             /\ TasksOf(p)[l] \in DOMAIN Tasks /\ Tasks[TasksOf(p)[l]].proc = p
             /\ LtidOf(TasksOf(p)[l]) = l - 1
    BY TasksInOrder DEF IDLE_TASK_INDEX
  <2> DEFINE l == t[2] + 1
  <2>4. l \in DOMAIN TasksOf(p) /\ l - 1 = t[2] /\ t[2] \in Nat
    BY <2>2, <2>3
  <2> HIDE DEF l
  <2> DEFINE i == TasksOf(p)[l]
  <2>5. i \in DOMAIN Tasks /\ Tasks[i].proc = p /\ LtidOf(i) = t[2]
    BY <2>3, <2>4
  <2>6. i \in OnProc(p) /\ Slot(i) = t
    BY <2>2, <2>5 DEF OnProc, Slot
  <2> QED
    BY <2>2, <2>4, <2>5, <2>6 DEF l
<1> QED
  BY <1>1, <1>2, <1>3 DEF OnProc

\* The tasks of a vspace, for Scheduler.
LEMMA SpaceFacts ==
  ASSUME StartupAssumption, NEW v \in 0 .. Spaces - 1
  PROVE  /\ TasksOfSpace(v) \in Seq(Slots)
         /\ \A k, m \in DOMAIN TasksOfSpace(v) : TasksOfSpace(v)[k] = TasksOfSpace(v)[m] => k = m
         /\ \A t : (\E k \in DOMAIN TasksOfSpace(v) : TasksOfSpace(v)[k] = t)
                  <=> (\E i \in OfSpace(v) : t = Slot(i))
<1> DEFINE S == OfSpace(v)
           n == Cardinality(S)
           o == InOrder(S)
<1>1. IsFiniteSet(S) /\ S \subseteq Int /\ S \subseteq DOMAIN Tasks
  <2>1. IsFiniteSet(1 .. Len(Tasks)) /\ 1 .. Len(Tasks) \subseteq Int
    <3>1. 1 \in Int /\ Len(Tasks) \in Int
      BY DEF StartupAssumption
    <3> QED
      BY <3>1, FS_Interval
  <2>2. S \subseteq 1 .. Len(Tasks) /\ S \subseteq DOMAIN Tasks
    BY DEF OfSpace, StartupAssumption
  <2> QED
    BY <2>1, <2>2, FS_Subset
<1> HIDE DEF S
<1>2. /\ n \in Nat /\ DOMAIN o = 1 .. n
      /\ \A l \in 1 .. n : o[l] \in S /\ Rank(S, o[l]) = l - 1
      /\ \A i \in S : Rank(S, i) + 1 \in 1 .. n /\ o[Rank(S, i) + 1] = i
  BY <1>1, Ordered
<1>3. TasksOfSpace(v) = [k \in 1 .. n |-> Slot(o[k])]
  BY <1>2 DEF TasksOfSpace, S
<1> HIDE DEF n, o
<1>4. /\ \A i \in S : Slot(i) \in Slots
      /\ \A i, j \in S : Slot(i) = Slot(j) => i = j
  BY <1>1, SlotFacts
<1>5. TasksOfSpace(v) \in Seq(Slots)
  <2>1. TasksOfSpace(v) \in [1 .. n -> Slots]
    BY <1>2, <1>3, <1>4
  <2> QED
    BY <1>2, <2>1
<1>6. ASSUME NEW k \in 1 .. n, NEW m \in 1 .. n, TasksOfSpace(v)[k] = TasksOfSpace(v)[m]
      PROVE  k = m
  <2>1. o[k] = o[m]
    BY <1>2, <1>3, <1>4, <1>6
  <2>2. k - 1 = m - 1
    BY <1>2, <2>1
  <2> QED
    BY <1>2, <2>2
<1>7. ASSUME NEW i \in S PROVE \E k \in 1 .. n : o[k] = i
  BY <1>2
<1>8. DOMAIN TasksOfSpace(v) = 1 .. n
  BY <1>3
<1>9. ASSUME NEW t
      PROVE  (\E k \in 1 .. n : TasksOfSpace(v)[k] = t) <=> (\E i \in S : t = Slot(i))
  <2>1. ASSUME NEW k \in 1 .. n, TasksOfSpace(v)[k] = t PROVE \E i \in S : t = Slot(i)
    BY <1>2, <1>3, <2>1
  <2>2. ASSUME NEW i \in S, t = Slot(i) PROVE \E k \in 1 .. n : TasksOfSpace(v)[k] = t
    BY <1>3, <1>7, <2>2
  <2> QED
    BY <2>1, <2>2
<1> QED
  BY <1>5, <1>6, <1>8, <1>9 DEF S

\* What Scheduler assumes of the tasks of each processor and of each application.
LEMMA TasksForScheduler ==
  ASSUME StartupAssumption
  PROVE  Sched!SchedulerAssumption
<1> DEFINE count == [p \in Proc |-> Len(TasksOf(p))]
           apps == [v \in 0 .. Spaces - 1 |-> TasksOfSpace(v)]
<1>1. count \in [Proc -> 0 .. Sched!IDLE_TASK_INDEX]
  <2>1. ASSUME NEW p \in Proc PROVE Len(TasksOf(p)) \in 0 .. 13
    <3>1. Len(TasksOf(p)) \in 0 .. IDLE_TASK_INDEX - 1
      BY TasksInOrder
    <3> QED
      BY ONLY <3>1 DEF IDLE_TASK_INDEX
  <2> QED
    BY <2>1 DEF Sched!IDLE_TASK_INDEX
<1>2. Sched!Task = Slots /\ Sched!App = 0 .. Spaces - 1
  BY DEF Sched!Task, Slots, Sched!App
<1>3. \A v \in 0 .. Spaces - 1 :
        /\ apps[v] \in Seq(Sched!Task)
        /\ \A k, m \in DOMAIN apps[v] : apps[v][k] = apps[v][m] => k = m
  BY <1>2, SpaceFacts
<1>4. ActiveSpaces \subseteq 0 .. Spaces - 1
  BY DEF StartupAssumption
<1> QED
  BY <1>1, <1>2, <1>3, <1>4 DEF Sched!SchedulerAssumption

\* The fields of a context that do not depend on what has been done.
LEMMA ContextAtFacts ==
  ASSUME NEW i
  PROVE  /\ ContextAt(i, TRUE).norun <=> Tasks[i].space \notin ActiveSpaces
         /\ ContextAt(i, TRUE).epc = "word"
<1> DEFINE n == Tasks[i].space \notin ActiveSpaces
           complete == TRUE
           context == ContextAt(i, TRUE)
<1>1. context = [task |-> i, epc |-> "word", entry |-> "code", ra |-> complete, norun |-> n]
  BY DEF ContextAt
<1> HIDE DEF n, complete, context
<1>2. context.norun = n /\ context.epc = "word"
  BY <1>1
<1> QED
  BY <1>2 DEF n, context

\* The state of each processor and of each task when all have left kernel_init.
LEMMA DoneFacts ==
  ASSUME StartupAssumption, IInv, Done
  PROVE  /\ \A p \in Proc :
              /\ psched[p].current = Elected(p)
              /\ epc[p] = IF ActiveOf(p) = {} THEN "idle" ELSE "code"
         /\ \A t \in Slots : \A i \in OnProc(t[1]) : Slot(i) = t =>
              /\ ContextOf(t) = ContextAt(i, TRUE)
              /\ t[2] + 1 \in ActiveOf(t[1]) <=> Tasks[i].space \in ActiveSpaces
<1>1. ASSUME NEW p \in Proc
      PROVE  /\ phase[p] = User /\ Passed(Lead(p), 0) /\ Passed(Lead(p), 1)
             /\ Passed(p, KernelPhase + 1) = TRUE
  <2>1. BootEnd \in Nat /\ KernelPhase = BootEnd + 2 /\ User = BootEnd + 6
    BY Phases
  <2>2. phase[p] = User
    BY DEF Done
  <2>3. InKernel(p) /\ Passed(p, KernelPhase + 1) = TRUE
    BY <2>1, <2>2 DEF InKernel, Passed
  <2> QED
    BY <2>2, <2>3, InKernelFacts
<1>2. ASSUME NEW p \in Proc
      PROVE  /\ psched[p].current = Elected(p)
             /\ epc[p] = IF ActiveOf(p) = {} THEN "idle" ELSE "code"
  <2>1. psched[p].current = CurrentOf(p)
    BY DEF IInv, Tables, SchedulerOf
  <2> QED
    BY <1>1, <2>1 DEF CurrentOf, IInv, KernelTables
<1>3. ASSUME NEW t \in Slots, NEW i \in OnProc(t[1]), Slot(i) = t
      PROVE  /\ ContextOf(t) = ContextAt(i, TRUE)
             /\ t[2] + 1 \in ActiveOf(t[1]) <=> Tasks[i].space \in ActiveSpaces
  <2>1. t[1] \in Proc /\ t[2] = LtidOf(i)
    BY <1>3, SlotFacts DEF Slot
  <2>2. /\ t[2] + 1 \in DOMAIN TasksOf(t[1]) /\ TasksOf(t[1])[t[2] + 1] = i
        /\ ContextOf(t) = ContextAt(i, TRUE)
    BY <1>1, <2>1, ContextOfTask DEF ContextOf
  <2> QED
    BY <2>2 DEF ActiveOf
<1> QED
  BY <1>2, <1>3

LEMMA HandsOver ==
  ASSUME StartupAssumption, OneActiveTask, IInv, Done
  PROVE  Sched!Init
<1>1. Sched!Task = Slots /\ Sched!IDLE_TASK_INDEX = IDLE_TASK_INDEX
  BY DEF Sched!Task, Slots, Sched!IDLE_TASK_INDEX, IDLE_TASK_INDEX
<1>2. ASSUME NEW t \in Slots
      PROVE  ContextOf(t).norun <=> ~\E v \in ActiveSpaces : t \in Sched!Members(v)
  <2>1. PICK i \in OnProc(t[1]) : Slot(i) = t
    BY SlotFacts
  <2>2. i \in DOMAIN Tasks
    BY DEF OnProc
  <2>3. ContextOf(t).norun <=> Tasks[i].space \notin ActiveSpaces
    <3>1. ContextOf(t) = ContextAt(i, TRUE)
      BY <2>1, DoneFacts
    <3> QED
      BY <3>1, ContextAtFacts
  <2>4. ASSUME NEW v \in ActiveSpaces PROVE t \in Sched!Members(v) <=> Tasks[i].space = v
    <3>1. v \in 0 .. Spaces - 1
      BY DEF StartupAssumption
    <3>2. t \in Sched!Members(v) <=> \E k \in DOMAIN TasksOfSpace(v) : TasksOfSpace(v)[k] = t
      BY <3>1 DEF Sched!Members
    <3>3. t \in Sched!Members(v) <=> \E j \in OfSpace(v) : t = Slot(j)
      BY <3>1, <3>2, SpaceFacts
    <3> QED
      BY <2>1, <2>2, <3>3, SlotFacts DEF OfSpace
  <2> QED
    BY <2>3, <2>4
<1>3. ASSUME NEW p \in Proc, NEW l \in 0 .. Len(TasksOf(p)) - 1
      PROVE  /\ <<p, l>> \in Slots
             /\ l + 1 \in ActiveOf(p) <=> ~ContextOf(<<p, l>>).norun
  <2> DEFINE t == <<p, l>>
  <2>1. t \in Slots /\ t[1] = p /\ t[2] = l
    BY DEF Slots
  <2>2. PICK i \in OnProc(p) : Slot(i) = t
    BY <2>1, SlotFacts
  <2> HIDE DEF t
  <2>3. /\ ContextOf(t) = ContextAt(i, TRUE)
        /\ l + 1 \in ActiveOf(p) <=> Tasks[i].space \in ActiveSpaces
    BY <2>1, <2>2, DoneFacts
  <2>4. l + 1 \in ActiveOf(p) <=> ~ContextOf(t).norun
    BY <2>3, ContextAtFacts
  <2> QED
    BY <2>1, <2>4 DEF t
<1> DEFINE stopped == [t \in Slots |-> IF ContextOf(t).norun THEN {"TASK"} ELSE {}]
           saved == [t \in Slots |->
                      IF ContextOf(t).norun \/ psched[t[1]].current = t[2] THEN "entry"
                                                                          ELSE ContextOf(t).epc]
           cur == [p \in Proc |-> psched[p].current]
           count == [p \in Proc |-> Len(TasksOf(p))]
           at == [p \in Proc |-> IF epc[p] = "code" THEN "entry" ELSE epc[p]]
           ready(p) == {l \in 0 .. count[p] - 1 : stopped[<<p, l>>] = {}}
           first(R) == IF R = {} THEN Sched!IDLE_TASK_INDEX
                       ELSE CHOOSE l \in R : \A j \in R : l <= j
<1>4. stopped = [t \in Slots |->
                  IF \E v \in ActiveSpaces : t \in Sched!Members(v) THEN {} ELSE {"TASK"}]
  BY <1>2
<1>5. ASSUME NEW p \in Proc PROVE cur[p] = first(ready(p))
  <2> DEFINE R == ready(p)
  <2>1. \A l \in 0 .. Len(TasksOf(p)) - 1 : l \in R <=> l + 1 \in ActiveOf(p)
    BY <1>3
  <2>2. /\ Len(TasksOf(p)) \in Nat /\ DOMAIN TasksOf(p) = 1 .. Len(TasksOf(p))
        /\ ActiveOf(p) \subseteq 1 .. Len(TasksOf(p))
    BY TasksInOrder DEF ActiveOf, IDLE_TASK_INDEX
  <2>3. cur[p] = Elected(p)
    BY DoneFacts
  <2>4. R \subseteq 0 .. Len(TasksOf(p)) - 1
    OBVIOUS
  <2> HIDE DEF R
  <2>5. \A l \in ActiveOf(p) : l - 1 \in R
    BY <2>1, <2>2
  <2> HIDE DEF cur
  <2>6. CASE ActiveOf(p) = {}
    <3>1. R = {}
      BY <2>1, <2>4, <2>6
    <3>2. cur[p] = IDLE_TASK_INDEX
      BY <2>3, <2>6, ElectedFacts
    <3>3. cur[p] = first(R)
      BY <1>1, <3>1, <3>2
    <3> QED
      BY <3>3 DEF R
  <2>7. CASE ActiveOf(p) # {}
    <3>1. /\ Elected(p) + 1 \in ActiveOf(p) /\ \A l \in ActiveOf(p) : Elected(p) + 1 <= l
          /\ Elected(p) \in Int
      BY <2>7, ElectedFacts DEF IDLE_TASK_INDEX
    <3>2. Elected(p) \in R
      BY <2>5, <3>1
    <3>3. \A j \in R : Elected(p) <= j
      BY <2>1, <2>2, <2>4, <3>1
    <3>4. Elected(p) = CHOOSE l \in R : \A j \in R : l <= j
      <4>1. \A l \in R : (\A j \in R : l <= j) => l = Elected(p)
        BY <2>2, <2>4, <3>1, <3>2, <3>3
      <4> QED
        BY <3>2, <3>3, <4>1
    <3>5. cur[p] = first(R)
      BY <2>3, <3>2, <3>4
    <3> QED
      BY <3>5 DEF R
  <2> QED
    BY <2>6, <2>7
<1>6. ASSUME NEW p \in Proc
      PROVE  (IF epc[p] = "code" THEN "entry" ELSE epc[p])
               = IF cur[p] = IDLE_TASK_INDEX THEN "idle" ELSE "entry"
  BY DoneFacts, ElectedFacts
<1>7. ASSUME NEW t \in Slots PROVE saved[t] = "entry"
  <2>1. PICK i \in OnProc(t[1]) : Slot(i) = t
    BY SlotFacts
  <2>2. CASE ContextOf(t).norun
    BY <2>2
  <2>3. CASE ~ContextOf(t).norun
    <3> DEFINE p == t[1]
               m == Elected(p) + 1
    <3>1. p \in Proc /\ t[2] \in Nat
      BY SlotFacts
    <3>2. Tasks[i].space \in ActiveSpaces
      <4>1. ContextOf(t) = ContextAt(i, TRUE)
        BY <2>1, DoneFacts
      <4> QED
        BY <2>3, <4>1, ContextAtFacts
    <3>3. t[2] + 1 \in ActiveOf(p)
      BY <2>1, <3>2, DoneFacts
    <3>4. m \in ActiveOf(p) /\ Elected(p) \in Int
      BY <3>1, <3>3, ElectedFacts DEF IDLE_TASK_INDEX
    <3> HIDE DEF m
    <3>5. /\ TasksOf(p)[m] \in OnProc(p) /\ Tasks[TasksOf(p)[m]].space \in ActiveSpaces
          /\ LtidOf(TasksOf(p)[m]) = m - 1
      <4>1. m \in DOMAIN TasksOf(p) /\ Tasks[TasksOf(p)[m]].space \in ActiveSpaces
        BY <3>4 DEF ActiveOf
      <4>2. /\ TasksOf(p)[m] \in DOMAIN Tasks /\ Tasks[TasksOf(p)[m]].proc = p
            /\ LtidOf(TasksOf(p)[m]) = m - 1
        BY <3>1, <4>1, TasksInOrder
      <4> QED
        BY <4>1, <4>2 DEF OnProc
    <3>6. TasksOf(p)[m] = i
      BY <2>1, <3>1, <3>2, <3>5 DEF OneActiveTask
    <3>7. t[2] = m - 1
      BY <2>1, <3>5, <3>6 DEF Slot
    <3>8. psched[p].current = t[2]
      BY <3>1, <3>4, <3>7, DoneFacts DEF m
    <3> QED
      BY <3>8
  <2> QED
    BY <2>2, <2>3
<1>8. saved = [t \in Slots |-> "entry"]
  BY <1>7
<1>9. stopped = [t \in Sched!Task |->
                  IF \E v \in ActiveSpaces : t \in Sched!Members(v) THEN {} ELSE {"TASK"}]
  BY <1>1, <1>4
<1>10. cur = [p \in Proc |-> first(ready(p))]
  <2>1. cur = [p \in Proc |-> cur[p]]
    OBVIOUS
  <2> HIDE DEF cur, stopped, count, ready, first
  <2> QED
    BY <1>5, <2>1
<1>11. at = [p \in Proc |-> IF cur[p] = Sched!IDLE_TASK_INDEX THEN "idle" ELSE "entry"]
  BY <1>1, <1>6
<1>12. saved = [t \in Sched!Task |-> "entry"]
  BY <1>1, <1>8
<1>13. /\ [t \in Slots |-> {}] = [t \in Sched!Task |-> {}]
       /\ [t \in Slots |-> <<>>] = [t \in Sched!Task |-> <<>>]
       /\ [t \in Slots |-> FALSE] = [t \in Sched!Task |-> FALSE]
  BY <1>1
<1> QED
  BY <1>9, <1>10, <1>11, <1>12, <1>13, Zenon DEF Sched!Init

\* With two active tasks on a processor, the one that is not elected has a context
\* whose CTX_EPC is still the address of the word that contains its entry point.
LEMMA SecondTaskFails ==
  ASSUME StartupAssumption, ~OneActiveTask, IInv, Done
  PROVE  ~Sched!Init
<1> SUFFICES ASSUME Sched!Init PROVE FALSE
  OBVIOUS
<1> DEFINE saved == [t \in Slots |->
                      IF ContextOf(t).norun \/ psched[t[1]].current = t[2] THEN "entry"
                                                                          ELSE ContextOf(t).epc]
<1>1. Sched!Task = Slots
  BY DEF Sched!Task, Slots
<1>2. saved = [t \in Slots |-> "entry"]
  <2>1. saved = [t \in Sched!Task |-> "entry"]
    BY Zenon DEF Sched!Init
  <2> QED
    BY <1>1, <2>1
<1>3. PICK p \in Proc : \E i, j \in OnProc(p) :
        {Tasks[i].space, Tasks[j].space} \subseteq ActiveSpaces /\ i # j
  BY DEF OneActiveTask
<1>4. PICK i \in OnProc(p), j \in OnProc(p) :
        /\ Tasks[i].space \in ActiveSpaces /\ Tasks[j].space \in ActiveSpaces /\ i # j
  BY <1>3
<1>5. /\ i \in DOMAIN Tasks /\ j \in DOMAIN Tasks /\ Tasks[i].proc = p /\ Tasks[j].proc = p
      /\ Slot(i) # Slot(j)
  BY <1>4, SlotFacts DEF OnProc
<1>6. ASSUME NEW k \in {i, j} PROVE psched[p].current = LtidOf(k)
  <2> DEFINE t == Slot(k)
  <2>1. /\ k \in OnProc(p) /\ k \in DOMAIN Tasks /\ Tasks[k].proc = p
        /\ Tasks[k].space \in ActiveSpaces
    BY <1>4, <1>5
  <2>2. t \in Slots /\ t[1] = p /\ t[2] = LtidOf(k) /\ t = Slot(k)
    BY <2>1, SlotFacts
  <2> HIDE DEF t
  <2>3. ContextOf(t) = ContextAt(k, TRUE)
    BY <2>1, <2>2, DoneFacts
  <2>4. ~ContextOf(t).norun /\ ContextOf(t).epc = "word"
    BY <2>1, <2>3, ContextAtFacts
  <2>5. saved[t] = "entry"
    BY <1>2, <2>2
  <2>6. saved[t] = IF ContextOf(t).norun \/ psched[t[1]].current = t[2] THEN "entry"
                                                                        ELSE ContextOf(t).epc
    BY <2>2
  <2> HIDE DEF saved
  <2> QED
    BY <2>2, <2>4, <2>5, <2>6
<1> QED
  BY <1>5, <1>6 DEF Slot

-----------------------------------------------------------------------------
(* The theorems                                                            *)

\* Type correctness: a context and an ltid for each task at most, and no vector
\* for an interrupt that the XCU does not send (boot_scheduler_init, kernel_init).
THEOREM StartupTypes ==
  ASSUME StartupAssumption
  PROVE  Spec => []TypeOK
<1>1. IInv => TypeOK
  BY TypeHolds
<1> QED
  BY <1>1, StartupInvariant, PTL

\* The barriers of boot_elf_load and of kernel_init, and the flag of P[0,0,0], are
\* enough: a processor finds the files, the contexts and the kernel structures
\* complete, whatever the order of the other processors (boot_init, kernel_init).
THEOREM StartsInOrderHolds ==
  ASSUME StartupAssumption
  PROVE  Spec => []StartsInOrder
<1>1. IInv => StartsInOrder
  BY OrderHolds
<1> QED
  BY <1>1, StartupInvariant, PTL

\* However many interrupts and processors a cluster has, the round robin of
\* boot_scheduler_init gives each interrupt to one processor, with a vector.
THEOREM IrqsRoutedHolds ==
  ASSUME StartupAssumption
  PROVE  Spec => []IrqsRouted
<1>1. IInv => IrqsRouted
  BY IrqsHold
<1> QED
  BY <1>1, StartupInvariant, PTL

\* The refinement of the initial states of Scheduler: the state in which all the
\* processors leave kernel_init is one of them, and its tasks are such as
\* Scheduler assumes (boot_scheduler_init, kernel_init, _ctx_switch).
THEOREM BootsIntoSchedulerHolds ==
  ASSUME StartupAssumption, OneActiveTask
  PROVE  Sched!SchedulerAssumption /\ (Spec => []BootsIntoScheduler)
<1>1. IInv => BootsIntoScheduler
  BY HandsOver DEF BootsIntoScheduler
<1>2. Spec => []BootsIntoScheduler
  BY <1>1, StartupInvariant, PTL
<1> QED
  BY <1>2, TasksForScheduler

\* OneActiveTask is necessary: kernel_init completes CTX_ENTRY but not CTX_EPC, so
\* that a second active task of a processor never starts from its entry point.
THEOREM SecondTaskIsLost ==
  ASSUME StartupAssumption, ~OneActiveTask
  PROVE  Spec => [](Done => ~Sched!Init)
<1>1. IInv => (Done => ~Sched!Init)
  BY SecondTaskFails
<1> QED
  BY <1>1, StartupInvariant, PTL

=============================================================================
