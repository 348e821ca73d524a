------------------------------- MODULE SqtLock -------------------------------
(***************************************************************************)
(* The distributed lock of the kernel (_sqt_lock_*, kernel_locks.c), which *)
(* protects the TTY0 and the command list of the HBA; the user lock of the *)
(* same name (user_sqt_lock.c) is the same algorithm.                      *)
(*                                                                         *)
(* One ticket lock per node of the SQT. A task takes the locks of its path *)
(* from its leaf (level 0) to the root, and releases them in the SAME      *)
(* order, from the leaf to the root: the next task of the cluster gets the *)
(* leaf, and may queue on the parent, while the parent is still held.      *)
(*                                                                         *)
(* Path[t][l] is the node that task t uses at level l (SqtTree, PathNode). *)
(***************************************************************************)
EXTENDS Naturals, FiniteSets

CONSTANTS Tasks,        \* the tasks that compete for the lock
          Levels,       \* number of levels of the tree
          Path,         \* the nodes of each task, by level
          Modulus       \* number of values of a ticket (2^32 in the code)

Level == 0 .. Levels - 1
Root == Levels - 1

SqtLockAssumption ==
  /\ IsFiniteSet(Tasks)
  /\ Levels \in Nat \ {0}
  /\ Modulus \in Nat \ {0}
  /\ Cardinality(Tasks) <= Modulus
  /\ \A t, u \in Tasks : \A l, m \in Level : Path[t][l] = Path[u][m] => l = m
  /\ \A t, u \in Tasks : Path[t][Root] = Path[u][Root]

Nodes == {Path[t][l] : t \in Tasks, l \in Level}

VARIABLES current,      \* node->current, for each node
          free,         \* node->free, for each node
          pc,           \* where each task is in take / give
          lvl,          \* level of the node the task works on
          ticket,       \* local variable of _sqt_lock_take
          seen          \* value of current read by _sqt_lock_give

vars == <<current, free, pc, lvl, ticket, seen>>

Node(t) == Path[t][lvl[t]]

-----------------------------------------------------------------------------
(* Faulty variants, see the mutants of the properties.                     *)

\* The counters do not wrap.
IncNoWrap(k) == k + 1

\* The recursion of _sqt_lock_take stops one level below the root.
PollShort(t) ==
  /\ pc[t] = "poll"
  /\ current[Node(t)] = ticket[t]
  /\ IF lvl[t] + 1 < Root
     THEN lvl' = [lvl EXCEPT ![t] = @ + 1] /\ pc' = [pc EXCEPT ![t] = "take"]
     ELSE lvl' = [lvl EXCEPT ![t] = 0] /\ pc' = [pc EXCEPT ![t] = "held"]
  /\ UNCHANGED <<current, free, ticket, seen>>

\* The ticket is read without being taken.
TakeTicketLost(t) ==
  /\ pc[t] \in {"idle", "take"}
  /\ ticket' = [ticket EXCEPT ![t] = free[Node(t)]]
  /\ pc' = [pc EXCEPT ![t] = "poll"]
  /\ UNCHANGED <<current, free, lvl, seen>>

\* The release does not climb to the parent.
GiveStoreLeafOnly(t) ==
  /\ pc[t] = "store"
  /\ current' = [current EXCEPT ![Node(t)] = (seen[t] + 1) % Modulus]
  /\ lvl' = [lvl EXCEPT ![t] = 0]
  /\ pc' = [pc EXCEPT ![t] = "idle"]
  /\ UNCHANGED <<free, ticket, seen>>

-----------------------------------------------------------------------------
(* The lock                                                                *)

\* Unsigned increment of a counter, with its wrap around.
Inc(k) == IF k = Modulus - 1 THEN 0 ELSE k + 1

\* _sqt_lock_init, once the tree is built.
Init ==
  /\ current = [n \in Nodes |-> 0]
  /\ free = [n \in Nodes |-> 0]
  /\ pc = [t \in Tasks |-> "idle"]
  /\ lvl = [t \in Tasks |-> 0]
  /\ ticket = [t \in Tasks |-> 0]
  /\ seen = [t \in Tasks |-> 0]

\* _sqt_lock_acquire enters _sqt_lock_take on the leaf; _sqt_lock_take calls
\* itself on the parent. Both start with the atomic increment of node->free.
TakeTicket(t) ==
  /\ pc[t] \in {"idle", "take"}
  /\ ticket' = [ticket EXCEPT ![t] = free[Node(t)]]
  /\ free' = [free EXCEPT ![Node(t)] = Inc(@)]
  /\ pc' = [pc EXCEPT ![t] = "poll"]
  /\ UNCHANGED <<current, lvl, seen>>

\* The last turn of the polling loop: the node is taken, go on with the
\* parent, or return from _sqt_lock_acquire when the root is taken.
Poll(t) ==
  /\ pc[t] = "poll"
  /\ current[Node(t)] = ticket[t]
  /\ \/ /\ lvl[t] < Root
        /\ lvl' = [lvl EXCEPT ![t] = @ + 1]
        /\ pc' = [pc EXCEPT ![t] = "take"]
     \/ /\ lvl[t] = Root
        /\ lvl' = [lvl EXCEPT ![t] = 0]
        /\ pc' = [pc EXCEPT ![t] = "held"]
  /\ UNCHANGED <<current, free, ticket, seen>>

\* _sqt_lock_release enters _sqt_lock_give on the leaf: load of current.
GiveLoad(t) ==
  /\ pc[t] \in {"held", "load"}
  /\ seen' = [seen EXCEPT ![t] = current[Node(t)]]
  /\ pc' = [pc EXCEPT ![t] = "store"]
  /\ UNCHANGED <<current, free, lvl, ticket>>

\* _sqt_lock_give: store of current + 1, then the parent, up to the root.
GiveStore(t) ==
  /\ pc[t] = "store"
  /\ current' = [current EXCEPT ![Node(t)] = Inc(seen[t])]
  /\ \/ /\ lvl[t] < Root
        /\ lvl' = [lvl EXCEPT ![t] = @ + 1]
        /\ pc' = [pc EXCEPT ![t] = "load"]
     \/ /\ lvl[t] = Root
        /\ lvl' = [lvl EXCEPT ![t] = 0]
        /\ pc' = [pc EXCEPT ![t] = "idle"]
  /\ UNCHANGED <<free, ticket, seen>>

Step(t) == TakeTicket(t) \/ Poll(t) \/ GiveLoad(t) \/ GiveStore(t)

Next == \E t \in Tasks : Step(t)

Spec == Init /\ [][Next]_vars

(* A task inside _sqt_lock_acquire or _sqt_lock_release, or between them,  *)
(* keeps running; nothing obliges an idle task to ask for the lock.        *)
Fairness == \A t \in Tasks : WF_vars(pc[t] # "idle" /\ Step(t))

FairSpec == Spec /\ Fairness

-----------------------------------------------------------------------------
(* Properties                                                              *)

TypeOK ==
  /\ current \in [Nodes -> 0 .. Modulus - 1]
  /\ free \in [Nodes -> 0 .. Modulus - 1]
  /\ pc \in [Tasks -> {"idle", "take", "poll", "held", "load", "store"}]
  /\ lvl \in [Tasks -> Level]
  /\ ticket \in [Tasks -> 0 .. Modulus - 1]
  /\ seen \in [Tasks -> 0 .. Modulus - 1]

\* Task t holds the ticket lock of its level-l node: taken on the way up, not
\* yet given back.
HoldsLevel(t, l) ==
  \/ pc[t] \in {"take", "poll"} /\ l < lvl[t]
  \/ pc[t] = "held"
  \/ pc[t] \in {"load", "store"} /\ l >= lvl[t]

\* Each node is held by at most one task, although nodes are released from
\* the leaf to the root while new tasks climb behind: the plain read and write
\* of node->current in _sqt_lock_give never collide.
NodeExclusion ==
  \A t, u \in Tasks : \A l \in Level :
    HoldsLevel(t, l) /\ HoldsLevel(u, l) /\ Path[t][l] = Path[u][l] => t = u

\* What the tasks see of the lock.
Where == [t \in Tasks |->
  CASE pc[t] = "idle" -> "out"
    [] pc[t] \in {"take", "poll"} -> "waiting"
    [] OTHER -> "in"]

Lock == INSTANCE Mutex WITH where <- Where

\* The tree of locks is one lock: at most one task of the whole mesh is
\* between the end of _sqt_lock_acquire and the end of _sqt_lock_release.
MutexSpec == Lock!Spec

=============================================================================
