------------------------------ MODULE SqtBarrier ------------------------------
(***************************************************************************)
(* The distributed barrier of the kernel (_sqt_barrier_*,                  *)
(* kernel_barriers.c); the user barrier of the same name (user_barrier.c)  *)
(* is the same algorithm.                                                  *)
(*                                                                         *)
(* A sense-reversing barrier per node of the SQT. The last task to arrive  *)
(* at a node goes on to the parent node; when it comes back, it flips the  *)
(* sense of the node, which releases the tasks that poll it, and THEN      *)
(* restores its count. A released task that is back in the next wait       *)
(* before the count is restored decrements the old count, and the restore  *)
(* wipes its arrival out.                                                  *)
(*                                                                         *)
(* Path[t][l] is the node that task t uses at level l (SqtTree, PathNode). *)
(* The counters are integers here: count can be decremented below zero,    *)
(* which in the code is 2^32 - 1, and is never compared but with 1.        *)
(***************************************************************************)
EXTENDS Integers, FiniteSets

CONSTANTS Tasks,        \* the tasks that use the barrier
          Levels,       \* number of levels of the tree
          Path,         \* the nodes of each task, by level
          Rounds        \* bound: how many times each task calls the barrier

Level == 0 .. Levels - 1
Root == Levels - 1

\* The paths make a tree of Levels levels, with one root: two of them that meet
\* stay together.
PathsMakeATree ==
  /\ \A t, u \in Tasks : \A l, m \in Level : Path[t][l] = Path[u][m] => l = m
  /\ \A t, u \in Tasks : Path[t][Root] = Path[u][Root]
  /\ \A t, u \in Tasks : \A l, m \in Level :
       l <= m /\ Path[t][l] = Path[u][l] => Path[t][m] = Path[u][m]

SqtBarrierAssumption ==
  /\ IsFiniteSet(Tasks)
  /\ Levels \in Nat \ {0}
  /\ Rounds \in Nat
  /\ PathsMakeATree

Nodes == {Path[t][l] : t \in Tasks, l \in Level}

\* _sqt_barrier_build: a leaf waits for the processors of its cluster
\* (NB_PROCS_MAX in each), an upper node for its children.
arity == [n \in Nodes |->
  Cardinality({t \in Tasks : Path[t][0] = n}
    \cup {m \in Nodes : \E t \in Tasks, l \in Level \ {0} :
                          Path[t][l] = n /\ Path[t][l - 1] = m})]

VARIABLES count,        \* node->count, for each node
          sense,        \* node->sense, for each node
          pc,           \* where each task is in _sqt_barrier_decrement
          lvl,          \* level of the call the task is in
          expected,     \* local variable of each of the nested calls
          round         \* number of waits each task has completed

vars == <<count, sense, pc, lvl, expected, round>>

Node(t) == Path[t][lvl[t]]

\* Return from the call for level lvl[t]: to _sqt_barrier_wait, which returns
\* to the caller, or to the call for the level below, which resets its node.
Return(t) ==
  \/ /\ lvl[t] = 0
     /\ pc' = [pc EXCEPT ![t] = "out"]
     /\ round' = [round EXCEPT ![t] = @ + 1]
     /\ UNCHANGED lvl
  \/ /\ lvl[t] > 0
     /\ pc' = [pc EXCEPT ![t] = "flip"]
     /\ lvl' = [lvl EXCEPT ![t] = @ - 1]
     /\ UNCHANGED round

-----------------------------------------------------------------------------
(* Faulty variants, see the mutants of the properties.                     *)

\* The last task of a node does not climb to the parent.
DecrementLocal(t) ==
  /\ pc[t] = "decrement"
  /\ count' = [count EXCEPT ![Node(t)] = @ - 1]
  /\ pc' = [pc EXCEPT ![t] = IF count[Node(t)] = 1 THEN "flip" ELSE "poll"]
  /\ UNCHANGED <<sense, lvl, expected, round>>

\* The sense of a node is counted up instead of toggled.
FlipCountsUp(t) ==
  /\ pc[t] = "flip"
  /\ sense' = [sense EXCEPT ![Node(t)] = @ + 1]
  /\ pc' = [pc EXCEPT ![t] = "restore"]
  /\ UNCHANGED <<count, lvl, expected, round>>

-----------------------------------------------------------------------------
(* The barrier                                                             *)

\* _sqt_barrier_init, once the tree is built.
Init ==
  /\ count = arity
  /\ sense = [n \in Nodes |-> 0]
  /\ pc = [t \in Tasks |-> "out"]
  /\ lvl = [t \in Tasks |-> 0]
  /\ expected = [t \in Tasks |-> [l \in Level |-> 0]]
  /\ round = [t \in Tasks |-> 0]

\* _sqt_barrier_decrement is called, on the leaf by _sqt_barrier_wait, on the
\* parent by itself: it reads node->sense first.
ReadSense(t) ==
  /\ \/ pc[t] = "out" /\ round[t] < Rounds
     \/ pc[t] = "climb"
  /\ expected' = [expected EXCEPT ![t][lvl[t]] = IF sense[Node(t)] = 0 THEN 1 ELSE 0]
  /\ pc' = [pc EXCEPT ![t] = "decrement"]
  /\ UNCHANGED <<count, sense, lvl, round>>

\* The atomic decrement of node->count, and the tests that follow.
Decrement(t) ==
  /\ pc[t] = "decrement"
  /\ count' = [count EXCEPT ![Node(t)] = @ - 1]
  /\ \/ /\ count[Node(t)] = 1
        /\ lvl[t] < Root
        /\ lvl' = [lvl EXCEPT ![t] = @ + 1]
        /\ pc' = [pc EXCEPT ![t] = "climb"]
     \/ /\ count[Node(t)] = 1
        /\ lvl[t] = Root
        /\ pc' = [pc EXCEPT ![t] = "flip"]
        /\ UNCHANGED lvl
     \/ /\ count[Node(t)] # 1
        /\ pc' = [pc EXCEPT ![t] = "poll"]
        /\ UNCHANGED lvl
  /\ UNCHANGED <<sense, expected, round>>

\* The last task of a node: node->sense = expected.
FlipSense(t) ==
  /\ pc[t] = "flip"
  /\ sense' = [sense EXCEPT ![Node(t)] = expected[t][lvl[t]]]
  /\ pc' = [pc EXCEPT ![t] = "restore"]
  /\ UNCHANGED <<count, lvl, expected, round>>

\* The last task of a node: node->count = node->arity, and return.
RestoreCount(t) ==
  /\ pc[t] = "restore"
  /\ count' = [count EXCEPT ![Node(t)] = arity[Node(t)]]
  /\ Return(t)
  /\ UNCHANGED <<sense, expected>>

\* The other tasks: last turn of the polling loop, and return.
Poll(t) ==
  /\ pc[t] = "poll"
  /\ sense[Node(t)] = expected[t][lvl[t]]
  /\ Return(t)
  /\ UNCHANGED <<count, sense, expected>>

Step(t) ==
  ReadSense(t) \/ Decrement(t) \/ FlipSense(t) \/ RestoreCount(t) \/ Poll(t)

Next == \E t \in Tasks : Step(t)

Spec == Init /\ [][Next]_vars

(* Each processor runs its sequence of waits (kernel_init) on its own.     *)
FairSpec == Spec /\ \A t \in Tasks : WF_vars(Step(t))

-----------------------------------------------------------------------------
(* Properties                                                              *)

TypeOK ==
  /\ count \in [Nodes -> Int]
  /\ \A n \in Nodes : count[n] \in -Cardinality(Tasks) .. arity[n]
  /\ sense \in [Nodes -> {0, 1}]
  /\ pc \in [Tasks -> {"out", "climb", "decrement", "flip", "restore", "poll"}]
  /\ lvl \in [Tasks -> Level]
  /\ expected \in [Tasks -> [Level -> {0, 1}]]
  /\ round \in [Tasks -> 0 .. Rounds]

Arrived == [t \in Tasks |-> IF pc[t] = "out" THEN round[t] ELSE round[t] + 1]

Abstract == INSTANCE Barrier WITH arrived <- Arrived, left <- round

\* Nobody leaves the k-th wait before every task of the mesh entered its k-th
\* wait. This part of the promise survives the lost arrivals: they make the
\* barrier wait for ever, never open too early.
BarrierSpec == Abstract!Spec

\* The children of node n, tasks or nodes, that have arrived at n and whose
\* representative polls it.
Waiting(n) == {t \in Tasks :
  pc[t] = "poll" /\ Node(t) = n /\ expected[t][lvl[t]] # sense[n]}

\* Some task is past the decrement that completed node n and has not restored
\* its count yet.
ResetPending(n) ==
  \E t \in Tasks, l \in Level :
    /\ Path[t][l] = n
    /\ lvl[t] > l \/ (lvl[t] = l /\ pc[t] \in {"flip", "restore"})

\* kernel_barriers.h: count is the "number of not arrived children" of the
\* node, whenever no task is about to reset the node.
CountNotArrived ==
  \A n \in Nodes :
    ~ResetPending(n) => count[n] = arity[n] - Cardinality(Waiting(n))

=============================================================================
