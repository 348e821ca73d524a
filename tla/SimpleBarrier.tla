---------------------------- MODULE SimpleBarrier ----------------------------
(***************************************************************************)
(* The sense-reversing barrier of the kernel (_simple_barrier_*,           *)
(* kernel_barriers.c), used by the boot loader and by the user library     *)
(* (barrier_wait, user_barrier.c, is the same algorithm).                  *)
(*                                                                         *)
(* A task reads the sense flag, decrements count atomically, and polls the *)
(* flag until it has flipped; the task that brings count to zero restores  *)
(* count and THEN flips the flag. Every access is a step of its own, so a  *)
(* task released by the flip may be back in the next wait while the others *)
(* have not seen the flip yet.                                             *)
(***************************************************************************)
EXTENDS Naturals, FiniteSets

CONSTANTS Tasks,        \* the tasks that use the barrier
          Rounds        \* bound: how many times each task calls the barrier

SimpleBarrierAssumption ==
  /\ IsFiniteSet(Tasks)
  /\ Tasks # {}
  /\ Rounds \in Nat

VARIABLES count,        \* barrier->count: number of tasks not arrived
          sense,        \* barrier->sense: the flag that the tasks poll
          pc,           \* where each task is in _simple_barrier_wait
          expected,     \* local variable of _simple_barrier_wait
          round         \* number of waits each task has completed

vars == <<count, sense, pc, expected, round>>

ntasks == Cardinality(Tasks)

-----------------------------------------------------------------------------
(* Faulty variants, see the mutants of the properties.                     *)

\* The flag is read after the decrement (here: by the polling loop itself).
PollNotZero(t) ==
  /\ pc[t] = "poll"
  /\ sense # 0
  /\ pc' = [pc EXCEPT ![t] = "out"]
  /\ round' = [round EXCEPT ![t] = @ + 1]
  /\ UNCHANGED <<count, sense, expected>>

\* count is not restored.
RestoreCountForgotten(t) ==
  /\ pc[t] = "restore"
  /\ pc' = [pc EXCEPT ![t] = "flip"]
  /\ UNCHANGED <<count, sense, expected, round>>

-----------------------------------------------------------------------------
(* The barrier                                                             *)

\* _simple_barrier_init
Init ==
  /\ count = ntasks
  /\ sense = 0
  /\ pc = [t \in Tasks |-> "out"]
  /\ expected = [t \in Tasks |-> 0]
  /\ round = [t \in Tasks |-> 0]

\* A task calls _simple_barrier_wait and reads the flag.
ReadSense(t) ==
  /\ pc[t] = "out"
  /\ round[t] < Rounds
  /\ expected' = [expected EXCEPT ![t] = IF sense = 0 THEN 1 ELSE 0]
  /\ pc' = [pc EXCEPT ![t] = "decrement"]
  /\ UNCHANGED <<count, sense, round>>

\* count = _atomic_increment( &barrier->count, -1 ), and the test on it.
Decrement(t) ==
  /\ pc[t] = "decrement"
  /\ count' = count - 1
  /\ pc' = [pc EXCEPT ![t] = IF count = 1 THEN "restore" ELSE "poll"]
  /\ UNCHANGED <<sense, expected, round>>

\* The last task: barrier->count = barrier->ntasks.
RestoreCount(t) ==
  /\ pc[t] = "restore"
  /\ count' = ntasks
  /\ pc' = [pc EXCEPT ![t] = "flip"]
  /\ UNCHANGED <<sense, expected, round>>

\* The last task: barrier->sense = expected, and return.
FlipSense(t) ==
  /\ pc[t] = "flip"
  /\ sense' = expected[t]
  /\ pc' = [pc EXCEPT ![t] = "out"]
  /\ round' = [round EXCEPT ![t] = @ + 1]
  /\ UNCHANGED <<count, expected>>

\* The other tasks: last turn of the polling loop, and return.
Poll(t) ==
  /\ pc[t] = "poll"
  /\ sense = expected[t]
  /\ pc' = [pc EXCEPT ![t] = "out"]
  /\ round' = [round EXCEPT ![t] = @ + 1]
  /\ UNCHANGED <<count, sense, expected>>

Step(t) ==
  ReadSense(t) \/ Decrement(t) \/ RestoreCount(t) \/ FlipSense(t) \/ Poll(t)

Next == \E t \in Tasks : Step(t)

Spec == Init /\ [][Next]_vars

(* Every task runs its loop of Rounds waits: each has its own processor, or *)
(* is scheduled again by its processor.                                    *)
FairSpec == Spec /\ \A t \in Tasks : WF_vars(Step(t))

-----------------------------------------------------------------------------
(* Properties                                                              *)

TypeOK ==
  /\ count \in 0 .. ntasks
  /\ sense \in {0, 1}
  /\ pc \in [Tasks -> {"out", "decrement", "restore", "flip", "poll"}]
  /\ expected \in [Tasks -> {0, 1}]
  /\ round \in [Tasks -> 0 .. Rounds]

\* A task has arrived once it called the wait function; the barrier opens for
\* everybody at once when the flag flips.
Arrived == [t \in Tasks |-> IF pc[t] = "out" THEN round[t] ELSE round[t] + 1]

Abstract == INSTANCE Barrier WITH arrived <- Arrived, left <- round

\* The barrier implements the abstract one, round after round: no task leaves
\* the k-th wait before every task has entered its k-th wait, although fast
\* tasks start round k+1 while slow ones still poll the flag of round k.
BarrierSpec == Abstract!Spec

\* count is "number of not arrived tasks" (kernel_barriers.h) whenever no task
\* is restoring it: arrivals are neither lost nor counted twice across rounds.
ArrivedNow(t) == pc[t] = "poll" /\ expected[t] # sense
CountNotArrived ==
  (\A t \in Tasks : pc[t] \notin {"restore", "flip"}) =>
     count = ntasks - Cardinality({t \in Tasks : ArrivedNow(t)})

=============================================================================
