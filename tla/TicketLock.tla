----------------------------- MODULE TicketLock -----------------------------
(***************************************************************************)
(* The queuing spin lock of the kernel (_spin_lock_*, kernel_locks.c), used *)
(* by the block device drivers, the heaps, the FAT and the TTYs. The user  *)
(* lock (lock_acquire / lock_release, user_lock.c) is the same algorithm.  *)
(*                                                                         *)
(* A task takes a ticket with an atomic increment of free, then polls      *)
(* current until it shows the ticket. The release is a plain read of       *)
(* current followed by a plain write of current + 1: two memory accesses   *)
(* that are not atomic together, and that are correct only because nobody  *)
(* but the holder writes current.                                          *)
(*                                                                         *)
(* Both counters are unsigned 32-bit words that wrap: Modulus stands for   *)
(* 2^32. Nothing in the code ever resets them, so a lock that lives long   *)
(* enough does wrap.                                                       *)
(***************************************************************************)
EXTENDS Naturals, FiniteSets, Sequences

CONSTANTS Tasks,        \* the tasks that compete for the lock
          Modulus       \* number of values of a ticket (2^32 in the code)

ASSUME TicketAssumption ==
  /\ IsFiniteSet(Tasks)
  /\ Modulus \in Nat \ {0}
  /\ Cardinality(Tasks) <= Modulus

VARIABLES current,      \* lock->current: the ticket being served
          free,         \* lock->free: the next ticket to hand out
          pc,           \* where each task is in acquire / release
          ticket,       \* local variable of acquire
          seen          \* value of current read by the release

vars == <<current, free, pc, ticket, seen>>

Ticket == 0 .. Modulus - 1

-----------------------------------------------------------------------------
(* Faulty variants of the definitions below, one per property: each is a   *)
(* mistake that the property it is named for must reveal.                  *)

\* The counters do not wrap.
IncNoWrap(t) == t + 1

\* The first ticket handed out is not the one being served.
InitFreeOne ==
  /\ current = 0
  /\ free = 1 % Modulus
  /\ pc = [t \in Tasks |-> "idle"]
  /\ ticket = [t \in Tasks |-> 0]
  /\ seen = [t \in Tasks |-> 0]

\* The increment of free is lost.
TakeTicketLost(t) ==
  /\ pc[t] = "idle"
  /\ ticket' = [ticket EXCEPT ![t] = free]
  /\ pc' = [pc EXCEPT ![t] = "poll"]
  /\ UNCHANGED <<current, free, seen>>

\* The polling loop waits while current < ticket instead of current # ticket.
PollReached(t) ==
  /\ pc[t] = "poll"
  /\ current >= ticket[t]
  /\ pc' = [pc EXCEPT ![t] = "held"]
  /\ UNCHANGED <<current, free, ticket, seen>>

\* The release saturates at the last ticket.
ReleaseStoreSaturates(t) ==
  /\ pc[t] = "store"
  /\ current' = IF seen[t] = Modulus - 1 THEN seen[t] ELSE seen[t] + 1
  /\ pc' = [pc EXCEPT ![t] = "idle"]
  /\ UNCHANGED <<free, ticket, seen>>

-----------------------------------------------------------------------------
(* The lock                                                                *)

\* Unsigned increment of a counter, with its wrap around.
Inc(t) == IF t = Modulus - 1 THEN 0 ELSE t + 1

\* _spin_lock_init
Init ==
  /\ current = 0
  /\ free = 0
  /\ pc = [t \in Tasks |-> "idle"]
  /\ ticket = [t \in Tasks |-> 0]
  /\ seen = [t \in Tasks |-> 0]

\* _spin_lock_acquire: ticket = _atomic_increment( &lock->free, 1 ).
TakeTicket(t) ==
  /\ pc[t] = "idle"
  /\ ticket' = [ticket EXCEPT ![t] = free]
  /\ free' = Inc(free)
  /\ pc' = [pc EXCEPT ![t] = "poll"]
  /\ UNCHANGED <<current, seen>>

\* The last turn of the polling loop of _spin_lock_acquire.
Poll(t) ==
  /\ pc[t] = "poll"
  /\ current = ticket[t]
  /\ pc' = [pc EXCEPT ![t] = "held"]
  /\ UNCHANGED <<current, free, ticket, seen>>

\* _spin_lock_release: the load of current.
ReleaseLoad(t) ==
  /\ pc[t] = "held"
  /\ seen' = [seen EXCEPT ![t] = current]
  /\ pc' = [pc EXCEPT ![t] = "store"]
  /\ UNCHANGED <<current, free, ticket>>

\* _spin_lock_release: the store of current + 1.
ReleaseStore(t) ==
  /\ pc[t] = "store"
  /\ current' = Inc(seen[t])
  /\ pc' = [pc EXCEPT ![t] = "idle"]
  /\ UNCHANGED <<free, ticket, seen>>

Step(t) == TakeTicket(t) \/ Poll(t) \/ ReleaseLoad(t) \/ ReleaseStore(t)

Next == \E t \in Tasks : Step(t)

Spec == Init /\ [][Next]_vars

(* Every task that polls or holds the lock keeps running: it runs on its   *)
(* own processor, or its processor schedules it again (round robin).       *)
(* Nothing obliges a task to ask for the lock.                             *)
Fairness ==
  \A t \in Tasks : WF_vars(Poll(t) \/ ReleaseLoad(t) \/ ReleaseStore(t))

FairSpec == Spec /\ Fairness

-----------------------------------------------------------------------------
(* Properties                                                              *)

TypeOK ==
  /\ current \in Ticket
  /\ free \in Ticket
  /\ pc \in [Tasks -> {"idle", "poll", "held", "store"}]
  /\ ticket \in [Tasks -> Ticket]
  /\ seen \in [Tasks -> Ticket]

Holds(t) == pc[t] \in {"held", "store"}

\* Two tasks are never between the end of _spin_lock_acquire and the store
\* of _spin_lock_release at the same time, whatever the counters wrapped to.
MutualExclusion ==
  \A t, u \in Tasks : Holds(t) /\ Holds(u) => t = u

\* The tasks between acquire and release, and how far ahead of current a
\* ticket is, along the direction in which the counters grow.
Outstanding == {t \in Tasks : pc[t] # "idle"}
Dist(k) == IF k >= current THEN k - current ELSE k + Modulus - current

\* The ticket discipline that makes the lock correct: the tickets in use are
\* the ones from current to free, each of them in the hands of one task.
TicketDiscipline ==
  /\ \A t, u \in Outstanding : t # u => ticket[t] # ticket[u]
  /\ \A t \in Outstanding : Dist(ticket[t]) < Cardinality(Outstanding)
  /\ \/ current + Cardinality(Outstanding) = free
     \/ current + Cardinality(Outstanding) = free + Modulus
  /\ \A t \in Tasks : Holds(t) => ticket[t] = current
  /\ \A t \in Tasks : pc[t] = "store" => seen[t] = current

\* The lock implements the abstract queue: the tasks that hold a ticket, in
\* the order of their distance to current (any of them at a distance that no
\* ticket has: TicketDiscipline excludes it).
TicketOrder ==
  [i \in 1 .. Cardinality(Outstanding) |->
     CHOOSE t \in Outstanding :
       \A u \in Outstanding : Dist(ticket[u]) = i - 1 => Dist(ticket[t]) = i - 1]

Fifo == INSTANCE FifoLock
          WITH queue <- TicketOrder, entered <- \E t \in Tasks : Holds(t)

\* Requests are served one at a time and in the order of the atomic
\* increments of _spin_lock_acquire: no task overtakes another.
FifoSpec == Fifo!Spec

=============================================================================
