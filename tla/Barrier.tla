------------------------------- MODULE Barrier -------------------------------
(***************************************************************************)
(* What a reusable barrier of GIET-VM promises: a task that waits at the   *)
(* barrier for the k-th time leaves it only when every task has arrived    *)
(* for the k-th time ("waits until all processors reach the barrier",      *)
(* kernel_barriers.c).                                                     *)
(***************************************************************************)
EXTENDS Naturals

CONSTANT Tasks          \* the tasks the barrier was initialised for

VARIABLES arrived,      \* number of times each task called the wait function
          left          \* number of times each task returned from it

vars == <<arrived, left>>

Init ==
  /\ arrived = [t \in Tasks |-> 0]
  /\ left = [t \in Tasks |-> 0]

Arrive(t) ==
  /\ left[t] = arrived[t]
  /\ arrived' = [arrived EXCEPT ![t] = @ + 1]
  /\ UNCHANGED left

Leave(t) ==
  /\ left[t] < arrived[t]
  /\ \A u \in Tasks : arrived[u] >= arrived[t]
  /\ left' = [left EXCEPT ![t] = @ + 1]
  /\ UNCHANGED arrived

Next == \E t \in Tasks : Arrive(t) \/ Leave(t)

Spec == Init /\ [][Next]_vars

=============================================================================
