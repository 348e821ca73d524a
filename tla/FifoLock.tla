------------------------------ MODULE FifoLock ------------------------------
(***************************************************************************)
(* What a queuing lock of GIET-VM promises its users: the tasks that asked *)
(* for the lock are served one at a time, in the order in which they asked *)
(* (kernel_locks.h, "spin_lock" section; user_lock.h).                     *)
(*                                                                         *)
(* The abstract state is the queue of the tasks between the moment they    *)
(* asked and the moment they released; the head of the queue may be inside *)
(* the critical section (entered), all the others are still waiting.       *)
(***************************************************************************)
EXTENDS Sequences, Naturals

CONSTANT Tasks          \* the tasks that use the lock

VARIABLES queue,        \* the tasks that asked and have not released yet
          entered       \* TRUE when the head of the queue holds the lock

vars == <<queue, entered>>

Queued == {queue[i] : i \in DOMAIN queue}

Init ==
  /\ queue = <<>>
  /\ entered = FALSE

\* A task that is not queued asks for the lock.
Request(t) ==
  /\ t \notin Queued
  /\ queue' = Append(queue, t)
  /\ UNCHANGED entered

\* The task that asked first gets the lock, when nobody holds it.
Enter ==
  /\ queue # <<>>
  /\ ~entered
  /\ entered' = TRUE
  /\ UNCHANGED queue

\* The holder releases the lock.
Exit ==
  /\ entered
  /\ queue' = Tail(queue)
  /\ entered' = FALSE

Next == Enter \/ Exit \/ \E t \in Tasks : Request(t)

Spec == Init /\ [][Next]_vars

=============================================================================
