------------------------------ MODULE MCShared ------------------------------
(***************************************************************************)
(* The structures in shared memory that tasks use without the help of a    *)
(* device: the locks and barriers, and two structures that live under a    *)
(* spin lock of their own, the heap of a cluster and an MWMR channel. They *)
(* do not interact: a behaviour uses one of them (kind), or builds the     *)
(* tree of the distributed lock and barrier for some mesh of clusters.     *)
(*                                                                         *)
(* Three tasks share the ticket lock, or the distributed lock of a mesh of *)
(* 3 * 1 clusters, hence three levels: two tasks compete on the leaf of    *)
(* cluster (0,0), all of them on the upper levels. Four tasks share the    *)
(* simple barrier, the distributed barrier of 2 * 1 clusters, or a channel *)
(* with two writers and two readers, one of each with two transactions.    *)
(***************************************************************************)
EXTENDS TicketLock

CONSTANTS LockLevels, LockPath,         \* the tree of the distributed lock
          NodeModulus,                  \* number of values of a ticket of a node
          BarrierTasks, NbRounds,       \* who uses the barriers, bound on how often
          BarrierLevels, BarrierPath,   \* the tree of the distributed barrier
          HeapMinIndex, HeapIndexes,    \* the sizes of the blocks and of the heap,
          HeapRequests                  \* and those that are asked for

Tree == INSTANCE SqtTree

\* The nodes of a task, when task t runs in cluster of[t].
PathsIn(of, levels) ==
  [t \in DOMAIN of |-> [l \in 0 .. levels - 1 |-> Tree!PathNode(of[t][1], of[t][2], l)]]

LockCluster == <<<<0, 0>>, <<0, 0>>, <<1, 0>>>>
BarrierCluster == <<<<0, 0>>, <<0, 0>>, <<1, 0>>, <<1, 0>>>>
ThreeTasks == DOMAIN LockCluster
FourTasks == DOMAIN BarrierCluster
Levels31 == Tree!SqtLevels(3, 1)
Levels21 == Tree!SqtLevels(2, 1)
LockPaths == PathsIn(LockCluster, Levels31)
BarrierPaths == PathsIn(BarrierCluster, Levels21)

Writers == {1, 2}
Readers == {3, 4}

VARIABLES
  kind,                                           \* what the behaviour uses
  mesh,                                           \* where the tree is built
  nodeCurrent, nodeFree, nodeTicket, nodeSeen,    \* the distributed lock
  count, sense, expected, round,                  \* one of the barriers
  at, level,                                      \* pc and lvl of these three
  heapIndex, hFree, hAlloc, hGiven, hOutcome,     \* the heap
  queue, entered, sts, ptr, ptw, data,            \* the channel
  items, blocking, nwords, n, pos, buffer, words

Sqt == INSTANCE SqtLock
  WITH Levels <- LockLevels, Path <- LockPath, Modulus <- NodeModulus,
       current <- nodeCurrent, free <- nodeFree, ticket <- nodeTicket, seen <- nodeSeen,
       pc <- at, lvl <- level

Simple == INSTANCE SimpleBarrier
  WITH Tasks <- BarrierTasks, Rounds <- NbRounds, pc <- at

SqtB == INSTANCE SqtBarrier
  WITH Tasks <- BarrierTasks, Levels <- BarrierLevels, Rounds <- NbRounds,
       Path <- BarrierPath, pc <- at, lvl <- level

Heap == INSTANCE BuddyHeap
  WITH MinIndex <- HeapMinIndex, Requests <- HeapRequests, User <- FALSE,
       free <- hFree, alloc <- hAlloc, given <- hGiven, outcome <- hOutcome

Mwmr == INSTANCE MwmrChannel
  WITH width <- 2, nitems <- 2, pc <- at,
       Quota <- [t \in Writers \cup Readers |-> IF t \in {1, 3} THEN 2 ELSE 1]

ASSUME SharedAssumption ==
  /\ Sqt!SqtLockAssumption /\ Simple!SimpleBarrierAssumption
  /\ SqtB!SqtBarrierAssumption /\ Heap!HeapAssumption /\ Mwmr!MwmrAssumption

nodeVars == <<nodeCurrent, nodeFree, nodeTicket, nodeSeen>>
barrierVars == <<count, sense, expected, round>>
heapVars == <<heapIndex, hFree, hAlloc, hGiven, hOutcome>>
channelVars == <<queue, entered, sts, ptr, ptw, data, items, blocking, nwords, n, pos,
                 buffer, words>>
lockVars == <<vars, nodeVars, barrierVars, level>>
mcVars == <<kind, mesh, lockVars, at, heapVars, channelVars>>

\* What a behaviour does not use.
NotStarted == [t \in BarrierTasks |-> 0]
NoTask == at = [t \in BarrierTasks |-> "out"] /\ level = NotStarted
NoNodes == nodeCurrent = <<>> /\ nodeFree = <<>> /\ nodeTicket = <<>> /\ nodeSeen = <<>>
NoBarrier == count = <<>> /\ sense = <<>> /\ expected = <<>> /\ round = NotStarted
NoLock == NoNodes /\ NoBarrier /\ level = NotStarted
NoHeap ==
  heapIndex = 0 /\ hFree = <<>> /\ hAlloc = <<>> /\ hGiven = {} /\ hOutcome = "none"
NoChannel ==
  /\ queue = <<>> /\ entered = FALSE /\ sts = 0 /\ ptr = 0 /\ ptw = 0 /\ data = <<>>
  /\ items = <<>> /\ blocking = <<>> /\ nwords = <<>> /\ n = <<>> /\ pos = <<>>
  /\ buffer = <<>> /\ words = <<>>

LockInit ==
  /\ Init
  /\ \/ /\ kind = "tree" /\ mesh \in (1 .. 16) \X (1 .. 16)
        /\ NoNodes /\ NoBarrier /\ NoTask
     \/ /\ kind = "ticket lock" /\ mesh = <<1, 1>>
        /\ NoNodes /\ NoBarrier /\ NoTask
     \/ /\ kind = "sqt lock" /\ mesh = <<3, 1>> /\ Sqt!Init /\ NoBarrier
     \/ /\ kind = "simple barrier" /\ mesh = <<1, 1>> /\ Simple!Init
        /\ NoNodes /\ level = NotStarted
     \/ /\ kind = "sqt barrier" /\ mesh = <<2, 1>> /\ SqtB!Init /\ NoNodes

\* The ticket lock is initialised in every behaviour.
MCInit ==
  \/ LockInit /\ NoHeap /\ NoChannel
  \/ /\ kind = "heap" /\ mesh = <<1, 1>> /\ Init /\ NoTask
     /\ Heap!Init /\ NoLock /\ NoChannel
  \/ /\ kind = "channel" /\ mesh = <<1, 1>> /\ Init
     /\ Mwmr!Init /\ NoLock /\ NoHeap

TicketStep(t) ==
  kind = "ticket lock" /\ Step(t) /\ UNCHANGED <<nodeVars, barrierVars, at, level>>
SqtStep(t) ==
  kind = "sqt lock" /\ Sqt!Step(t) /\ UNCHANGED <<vars, barrierVars>>
SimpleStep(t) ==
  kind = "simple barrier" /\ Simple!Step(t) /\ UNCHANGED <<vars, nodeVars, level>>
SqtBarrierStep(t) ==
  kind = "sqt barrier" /\ SqtB!Step(t) /\ UNCHANGED <<vars, nodeVars>>

ChannelStep(t) ==
  kind = "channel" /\ Mwmr!Step(t) /\ UNCHANGED <<lockVars, heapVars>>
HeapStep ==
  kind = "heap" /\ Heap!Next /\ UNCHANGED <<kind, mesh, lockVars, at, channelVars>>

LockStep(t) ==
  \/ t \in Tasks /\ (TicketStep(t) \/ SqtStep(t))
  \/ t \in BarrierTasks /\ (SimpleStep(t) \/ SqtBarrierStep(t))

MCStep(t) ==
  /\ UNCHANGED <<kind, mesh>>
  /\ \/ LockStep(t) /\ UNCHANGED <<heapVars, channelVars>>
     \/ t \in Writers \cup Readers /\ ChannelStep(t)

AnyTask == Tasks \cup BarrierTasks \cup Writers \cup Readers

MCNext == HeapStep \/ \E t \in AnyTask : MCStep(t)

(* As in the modules of the locks and barriers: a task that waits for a    *)
(* lock or holds it, or that goes through its barriers or its calls on the *)
(* channel, keeps running.                                                 *)
Busy(t) ==
  CASE kind = "ticket lock" -> t \in Tasks /\ pc[t] # "idle"
    [] kind = "sqt lock" -> t \in Tasks /\ at[t] # "idle"
    [] OTHER -> kind \notin {"tree", "heap"}

MCSpec ==
  /\ MCInit /\ [][MCNext]_mcVars
  /\ \A t \in AnyTask : WF_mcVars(Busy(t) /\ MCStep(t))

-----------------------------------------------------------------------------
(* Properties                                                              *)

\* The counters, flags and levels of the distributed lock and of the barriers,
\* the lists and alloc[] array of the heap, the words and pointers of the channel.
MCTypeOK ==
  /\ kind = "sqt lock" => Sqt!TypeOK
  /\ kind = "simple barrier" => Simple!TypeOK
  /\ kind = "sqt barrier" => SqtB!TypeOK
  /\ kind = "heap" => Heap!TypeOK
  /\ kind = "channel" => Mwmr!TypeOK

\* The recursion of _sqt_lock_build initialises exactly the nodes that
\* _sqt_lock_init allocated, and makes one tree of them, in which the leaf of
\* each cluster leads to the root. _sqt_barrier_build is the same recursion.
TreeIsBuilt ==
  kind = "tree" =>
    Tree!BuildVisitsAllocated(mesh[1], mesh[2]) /\ Tree!OneTree(mesh[1], mesh[2])

\* Each node of the distributed lock is held by at most one task (_sqt_lock_give
\* reads and writes node->current without any other protection).
NodesExclusive == kind = "sqt lock" => Sqt!NodeExclusion

\* No arrival at the simple barrier is lost or counted twice, from one round to
\* the next (_simple_barrier_wait).
ArrivalsCounted == kind = "simple barrier" => Simple!CountNotArrived

\* What the arrivals at the distributed barrier should be too (_sqt_barrier_decrement).
SqtArrivalsCounted == kind = "sqt barrier" => SqtB!CountNotArrived

LockPlaces == IF kind = "sqt lock" THEN Sqt!Where ELSE [t \in Tasks |-> "out"]
AbstractLock == INSTANCE Mutex WITH where <- LockPlaces

\* The tree of locks is one lock (_sqt_lock_acquire, _sqt_lock_release).
MutexSpec == AbstractLock!Spec

AbstractBarrier == INSTANCE Barrier WITH Tasks <- BarrierTasks,
  arrived <- CASE kind = "simple barrier" -> Simple!Arrived
               [] kind = "sqt barrier" -> SqtB!Arrived
               [] OTHER -> NotStarted,
  left <- IF kind \in {"simple barrier", "sqt barrier"} THEN round ELSE NotStarted

\* Round after round, nobody leaves one of the barriers before everybody has
\* arrived, although the fast tasks are already in the next round
\* (_simple_barrier_wait, _sqt_barrier_decrement).
BarriersSpec == AbstractBarrier!Spec

\* A task asks for a lock, or has barriers to go through: as many as there are
\* for the simple one, the first for the distributed one.
Waits(t) ==
  \/ kind = "ticket lock" /\ t \in Tasks /\ pc[t] = "poll"
  \/ kind = "sqt lock" /\ t \in Tasks /\ at[t] \in {"take", "poll"}
  \/ kind = "simple barrier" /\ t \in BarrierTasks /\ round[t] < NbRounds
  \/ kind = "sqt barrier" /\ t \in BarrierTasks /\ round[t] < 1

\* Who asks for a lock gets it, at every level of the tree and when the
\* counters wrap; the simple barrier opens in every round, the distributed one
\* in the first.
Progress == \A t \in AnyTask : Waits(t) ~> ~Waits(t)

\* The kernel heap is divided, without gap nor overlap, into the blocks in use,
\* the free blocks and the alloc[] array (_get_block, _split_block,
\* _update_free_array), whatever pointers are given to _free, and free space is
\* never split without need: _remote_malloc fails only when there is no room, and
\* never because of what it finds in alloc[].
HeapSound ==
  kind = "heap" =>
    Heap!HeapIsPartitioned /\ Heap!FreeBlocksAreMaximal /\ Heap!NeverAlreadyAllocated

AbstractChannel == INSTANCE Channel WITH Capacity <- 2,
  content <- IF kind = "channel" THEN Mwmr!Content ELSE <<>>,
  sent <- IF kind = "channel" THEN Mwmr!Sent ELSE [w \in Writers |-> 0],
  got <- IF kind = "channel" THEN Mwmr!Got ELSE [r \in Readers |-> <<>>]

\* The channel is a FIFO of whole items: none is lost, duplicated, divided or
\* overtaken, whatever the sizes of the calls (mwmr_write, mwmr_read).
ChannelSpec == AbstractChannel!Spec

\* The calls on the channel return, and transfer everything (mwmr_write,
\* mwmr_read, nb_mwmr_write, nb_mwmr_read).
ChannelDrains == <>[](kind = "channel" => Mwmr!AllDone)

=============================================================================
