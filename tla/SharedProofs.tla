----------------------------- MODULE SharedProofs -----------------------------
(***************************************************************************)
(* Theorems on the locks, the barriers, the heap and the channel, for any  *)
(* finite sets of tasks, any trees of nodes, any width of the ticket       *)
(* counters that is at least as large as the number of tasks, any number   *)
(* of rounds, any sizes of the heap, of its smallest block and of the      *)
(* requests. The channel has its proofs in ChannelProofs; here they are    *)
(* carried over to the behaviours of MCShared.                             *)
(*                                                                         *)
(* Ticket lock: the tickets in the hands of the tasks are distinct and     *)
(* lie, in the circular order of the counters, between current and free. A *)
(* new ticket is therefore new even after the counters wrapped, as long as *)
(* there are no more tasks than tickets.                                   *)
(*                                                                         *)
(* Distributed lock: the same discipline on every node at once. A task     *)
(* forgets its ticket when it climbs to the parent; what it holds on the   *)
(* way is then the ticket that current shows.                              *)
(*                                                                         *)
(* The flag of the barrier alternates, so a task that polls with the value *)
(* the flag has now is late: it has still to leave a round that is over.   *)
(* The invariant says that all the tasks are in the same round, once the   *)
(* late ones are counted as having left, and that the last task of a round *)
(* is alone.                                                               *)
(*                                                                         *)
(* Distributed barrier: it never opens early, although arrivals can be     *)
(* wiped out by a restore. The flag of a node is the parity of the number  *)
(* of times the node was flipped, and a task is never more than one flip   *)
(* behind, so that its own round tells how many times each node on its     *)
(* path was flipped. On the way from a leaf to the root this number never  *)
(* decreases: the root is flipped first, by a task that all the others     *)
(* wait for. Why all of them: the count of a node is at least the number   *)
(* of its children that are not waiting, and a child that is a node waits  *)
(* through a task that completed it, hence found all the others on it      *)
(* waiting too.                                                            *)
(*                                                                         *)
(* Heap: the blocks tile the heap, each aligned on its size, and no list   *)
(* of free blocks holds a block and its companion. A block that is split,  *)
(* or merged step after step, is replaced by Pieces of it or replaces      *)
(* them: the parts of one aligned block.                                   *)
(***************************************************************************)
EXTENDS MCShared, FiniteSetTheorems, SequenceTheorems, TLAPS

ChanP == INSTANCE ChannelProofs
  WITH width <- 2, nitems <- 2, pc <- at,
       Quota <- [t \in Writers \cup Readers |-> IF t \in {1, 3} THEN 2 ELSE 1]

\* The modules of the structures count sets in the same way.
LEMMA SameSets ==
  /\ \A S : Sqt!IsFiniteSet(S) <=> IsFiniteSet(S)
  /\ \A S : Sqt!Cardinality(S) = Cardinality(S)
  /\ \A S : Simple!IsFiniteSet(S) <=> IsFiniteSet(S)
  /\ \A S : Simple!Cardinality(S) = Cardinality(S)
  /\ \A S : Heap!Cardinality(S) = Cardinality(S)
  /\ \A S : SqtB!IsFiniteSet(S) <=> IsFiniteSet(S)
  /\ \A S : SqtB!Cardinality(S) = Cardinality(S)
<1>1. \A S : Sqt!IsFiniteSet(S) <=> IsFiniteSet(S)
  BY DEF Sqt!IsFiniteSet, IsFiniteSet
<1>2. \A S : Sqt!Cardinality(S) = Cardinality(S)
  BY DEF Sqt!Cardinality, Cardinality
<1>3. \A S : Simple!IsFiniteSet(S) <=> IsFiniteSet(S)
  BY DEF Simple!IsFiniteSet, IsFiniteSet
<1>4. \A S : Simple!Cardinality(S) = Cardinality(S)
  BY DEF Simple!Cardinality, Cardinality
<1>5. \A S : Heap!Cardinality(S) = Cardinality(S)
  BY DEF Heap!Cardinality, Cardinality
<1>6. \A S : SqtB!IsFiniteSet(S) <=> IsFiniteSet(S)
  BY DEF SqtB!IsFiniteSet, IsFiniteSet
<1>7. \A S : SqtB!Cardinality(S) = Cardinality(S)
  BY DEF SqtB!Cardinality, Cardinality
<1> QED
  BY <1>1, <1>2, <1>3, <1>4, <1>5, <1>6, <1>7

-----------------------------------------------------------------------------
(* The ticket lock                                                         *)

IInv == TypeOK /\ TicketDiscipline

\* The number of tasks between acquire and release is a natural number that
\* the number of tasks, hence the number of tickets, bounds.
LEMMA OutstandingFinite ==
  ASSUME TypeOK
  PROVE  /\ IsFiniteSet(Outstanding)
         /\ Cardinality(Outstanding) \in Nat
         /\ Cardinality(Outstanding) <= Cardinality(Tasks)
         /\ Cardinality(Tasks) \in Nat
         /\ Modulus \in Nat
         /\ Cardinality(Tasks) <= Modulus
<1>1. Outstanding \subseteq Tasks
  BY DEF Outstanding
<1>2. /\ IsFiniteSet(Outstanding)
      /\ Cardinality(Outstanding) <= Cardinality(Tasks)
  BY <1>1, TicketAssumption, FS_Subset
<1>3. Cardinality(Outstanding) \in Nat /\ Cardinality(Tasks) \in Nat
  BY <1>2, TicketAssumption, FS_CardinalityType
<1> QED
  BY <1>2, <1>3, TicketAssumption

\* The counters never leave the range of a ticket.
LEMMA TypeInvariant ==
  ASSUME TypeOK, [Next]_vars
  PROVE  TypeOK'
<1> USE TicketAssumption DEF TypeOK, Ticket
<1>1. ASSUME NEW t \in Tasks, TakeTicket(t)
      PROVE  TypeOK'
  BY <1>1 DEF TakeTicket, Inc
<1>2. ASSUME NEW t \in Tasks, Poll(t)
      PROVE  TypeOK'
  BY <1>2 DEF Poll
<1>3. ASSUME NEW t \in Tasks, ReleaseLoad(t)
      PROVE  TypeOK'
  BY <1>3 DEF ReleaseLoad
<1>4. ASSUME NEW t \in Tasks, ReleaseStore(t)
      PROVE  TypeOK'
  BY <1>4 DEF ReleaseStore, Inc
<1>5. CASE UNCHANGED vars
  BY <1>5 DEF vars
<1> QED
  BY <1>1, <1>2, <1>3, <1>4, <1>5 DEF Next, Step

\* Only tasks in the list of states of TypeOK are outstanding or idle: a step
\* that changes the state of one task changes Outstanding by at most that task.
LEMMA TakeTicketDiscipline ==
  ASSUME IInv, NEW t \in Tasks, TakeTicket(t)
  PROVE  TicketDiscipline'
<1> DEFINE m == Cardinality(Outstanding)
<1>1. /\ IsFiniteSet(Outstanding)
      /\ m \in Nat
      /\ t \notin Outstanding
      /\ Outstanding' = Outstanding \cup {t}
  BY OutstandingFinite DEF IInv, TakeTicket, Outstanding, TypeOK
<1>2. Cardinality(Outstanding') = m + 1
  BY <1>1, FS_AddElement
<1>3. TypeOK'
  BY TypeInvariant DEF IInv, Next, Step
<1>4. m + 1 <= Modulus /\ Modulus \in Nat
  BY <1>2, <1>3, OutstandingFinite, TicketAssumption, FS_Subset, FS_CardinalityType
     DEF Outstanding
<1>5. /\ current \in Ticket /\ free \in Ticket /\ current' = current
      /\ ticket \in [Tasks -> Ticket] /\ ticket' = [ticket EXCEPT ![t] = free]
      /\ free' = Inc(free) /\ pc' = [pc EXCEPT ![t] = "poll"] /\ seen' = seen
      /\ pc[t] = "idle" /\ pc \in [Tasks -> {"idle", "poll", "held", "store"}]
  BY DEF IInv, TypeOK, TakeTicket
<1>6. current + m = free \/ current + m = free + Modulus
  BY DEF IInv, TicketDiscipline
<1>7. Dist(free) = m
  BY <1>1, <1>4, <1>5, <1>6 DEF Dist, Ticket
<1>8. \A u \in Outstanding : ticket[u] # free
  BY <1>1, <1>7 DEF IInv, TicketDiscipline, Dist
<1>9. \A u, v \in Outstanding' : u # v => ticket'[u] # ticket'[v]
  BY <1>1, <1>5, <1>8 DEF IInv, TicketDiscipline, Outstanding
<1>10. \A k \in Ticket : Dist(k)' = Dist(k) /\ Dist(k) \in Int
  BY <1>4, <1>5 DEF Dist, Ticket
<1>11. \A u \in Outstanding' : Dist(ticket[u])' < Cardinality(Outstanding')
  <2> SUFFICES ASSUME NEW u \in Outstanding'
               PROVE  Dist(ticket[u])' < m + 1
    BY <1>2
  <2>1. CASE u = t
    BY <2>1, <1>1, <1>5, <1>7 DEF Dist
  <2>2. CASE u # t
    <3>1. u \in Outstanding /\ u \in Tasks /\ ticket'[u] = ticket[u]
      BY <2>2, <1>1, <1>5 DEF Outstanding
    <3>2. Dist(ticket[u]) < m /\ ticket[u] \in Ticket
      BY <3>1, <1>5 DEF IInv, TicketDiscipline
    <3> QED
      BY <3>1, <3>2, <1>1, <1>10, <1>5 DEF Dist
  <2> QED
    BY <2>1, <2>2
<1>12. \/ current' + Cardinality(Outstanding') = free'
       \/ current' + Cardinality(Outstanding') = free' + Modulus
  BY <1>1, <1>2, <1>4, <1>5, <1>6 DEF Inc, Ticket
<1>13. \A u \in Tasks : Holds(u)' => ticket'[u] = current'
  BY <1>5 DEF Holds, IInv, TicketDiscipline
<1>14. \A u \in Tasks : pc'[u] = "store" => seen'[u] = current'
  BY <1>5 DEF IInv, TicketDiscipline
<1> QED
  BY <1>9, <1>11, <1>12, <1>13, <1>14 DEF TicketDiscipline

\* Polling and reading current change neither the counters nor the tickets.
LEMMA PollDiscipline ==
  ASSUME IInv, NEW t \in Tasks, Poll(t) \/ ReleaseLoad(t)
  PROVE  TicketDiscipline'
<1>1. Outstanding' = Outstanding
  BY DEF IInv, TypeOK, Poll, ReleaseLoad, Outstanding
<1>2. /\ current' = current /\ free' = free /\ ticket' = ticket
      /\ \A k : Dist(k)' = Dist(k)
  BY DEF Poll, ReleaseLoad, Dist
<1>3. \A u \in Tasks : Holds(u)' => ticket'[u] = current'
  BY DEF Poll, ReleaseLoad, Holds, IInv, TypeOK, TicketDiscipline
<1>4. \A u \in Tasks : pc'[u] = "store" => seen'[u] = current'
  BY DEF Poll, ReleaseLoad, IInv, TypeOK, TicketDiscipline
<1>5. \A u \in Outstanding' : Dist(ticket[u])' < Cardinality(Outstanding')
  BY <1>1, <1>2 DEF IInv, TicketDiscipline, Dist
<1> QED
  BY <1>1, <1>2, <1>3, <1>4, <1>5 DEF IInv, TicketDiscipline

\* The release brings every other ticket one step nearer to current.
LEMMA ReleaseDiscipline ==
  ASSUME IInv, NEW t \in Tasks, ReleaseStore(t)
  PROVE  TicketDiscipline'
<1> DEFINE m == Cardinality(Outstanding)
<1>1. /\ IsFiniteSet(Outstanding)
      /\ m \in Nat /\ m <= Modulus /\ Modulus \in Nat
  BY OutstandingFinite DEF IInv
<1>2. /\ current \in Ticket /\ free \in Ticket /\ free' = free /\ seen' = seen
      /\ ticket \in [Tasks -> Ticket] /\ ticket' = ticket
      /\ pc' = [pc EXCEPT ![t] = "idle"]
      /\ pc[t] = "store" /\ pc \in [Tasks -> {"idle", "poll", "held", "store"}]
      /\ seen[t] = current /\ ticket[t] = current
      /\ current' = Inc(current)
  BY DEF IInv, TypeOK, TicketDiscipline, ReleaseStore, Holds
<1>3. t \in Outstanding /\ Outstanding' = Outstanding \ {t}
  BY <1>2 DEF Outstanding
<1>4. Cardinality(Outstanding') = m - 1
  BY <1>1, <1>3, FS_RemoveElement
<1>5. \A u \in Outstanding' : ticket[u] # current /\ ticket[u] \in Ticket
  BY <1>2, <1>3 DEF IInv, TicketDiscipline, Outstanding
<1>6. \A k \in Ticket \ {current} : Dist(k)' = Dist(k) - 1
  BY <1>1, <1>2 DEF Dist, Inc, Ticket
<1>7. \A u \in Outstanding' : Dist(ticket[u])' < Cardinality(Outstanding')
  <2> SUFFICES ASSUME NEW u \in Outstanding'
               PROVE  Dist(ticket[u])' < m - 1
    BY <1>4
  <2>1. Dist(ticket[u]) < m /\ Dist(ticket[u]) \in Int
    BY <1>1, <1>2, <1>3, <1>5 DEF IInv, TicketDiscipline, Dist, Ticket
  <2>2. Dist(ticket[u])' = Dist(ticket[u]) - 1
    BY <1>2, <1>5, <1>6 DEF Dist
  <2> QED
    BY <2>1, <2>2, <1>1
<1>8. \/ current' + Cardinality(Outstanding') = free'
      \/ current' + Cardinality(Outstanding') = free' + Modulus
  <2>1. m >= 1
    BY <1>1, <1>3, FS_EmptySet
  <2>2. current + m = free \/ current + m = free + Modulus
    BY DEF IInv, TicketDiscipline
  <2> QED
    BY <2>1, <2>2, <1>1, <1>2, <1>4 DEF Inc, Ticket
<1>9. \A u \in Tasks : ~Holds(u)'
  <2> SUFFICES ASSUME NEW u \in Tasks, Holds(u)'
               PROVE  FALSE
    OBVIOUS
  <2>1. u # t /\ Holds(u) /\ u \in Outstanding /\ ticket[u] = current
    BY <1>2 DEF Holds, Outstanding, IInv, TicketDiscipline
  <2> QED
    BY <2>1, <1>3, <1>5
<1>10. \A u, v \in Outstanding' : u # v => ticket'[u] # ticket'[v]
  BY <1>2, <1>3 DEF IInv, TicketDiscipline
<1> QED
  BY <1>7, <1>8, <1>9, <1>10 DEF TicketDiscipline, Holds

\* The inductive invariant holds in every reachable state of the spin lock.
THEOREM TicketInvariant == Spec => []IInv
<1>1. Init => IInv
  <2> SUFFICES ASSUME Init PROVE IInv
    OBVIOUS
  <2>1. TypeOK
    BY TicketAssumption DEF Init, TypeOK, Ticket
  <2>2. Outstanding = {}
    BY DEF Init, Outstanding
  <2>3. TicketDiscipline
    BY <2>2, FS_EmptySet DEF Init, TicketDiscipline, Holds
  <2> QED
    BY <2>1, <2>3 DEF IInv
<1>2. IInv /\ [Next]_vars => IInv'
  <2> SUFFICES ASSUME IInv, [Next]_vars PROVE IInv'
    OBVIOUS
  <2>1. TypeOK'
    BY TypeInvariant DEF IInv
  <2>2. CASE UNCHANGED vars
    BY <2>1, <2>2 DEF IInv, TicketDiscipline, Outstanding, Dist, Holds, vars
  <2>3. ASSUME NEW t \in Tasks, Step(t)
        PROVE  TicketDiscipline'
    BY <2>3, TakeTicketDiscipline, PollDiscipline, ReleaseDiscipline DEF Step
  <2> QED
    BY <2>1, <2>2, <2>3 DEF IInv, Next
<1> QED
  BY <1>1, <1>2, PTL DEF Spec

\* TypeOK in every reachable state.
THEOREM TypeCorrect == Spec => []TypeOK
<1>1. IInv => TypeOK
  BY DEF IInv
<1> QED
  BY <1>1, TicketInvariant, PTL

\* The ticket discipline in every reachable state.
THEOREM DisciplineCorrect == Spec => []TicketDiscipline
<1>1. IInv => TicketDiscipline
  BY DEF IInv
<1> QED
  BY <1>1, TicketInvariant, PTL

\* No two tasks hold the spin lock at the same time, for any number of tasks
\* up to the number of tickets and across any number of wrap arounds.
THEOREM MutualExclusionHolds == Spec => []MutualExclusion
<1>1. IInv => MutualExclusion
  BY DEF IInv, TicketDiscipline, MutualExclusion, Outstanding, Holds
<1> QED
  BY <1>1, TicketInvariant, PTL

\* Two tickets at the same distance from current are the same ticket.
LEMMA DistInjective ==
  ASSUME current \in Ticket, NEW k \in Ticket, NEW l \in Ticket, Dist(k) = Dist(l)
  PROVE  k = l
BY TicketAssumption DEF Dist, Ticket

\* Which task is at which place of the queue that TicketOrder reconstructs.
QueueOrder ==
  /\ TicketOrder \in [1 .. Cardinality(Outstanding) -> Outstanding]
  /\ \A i \in 1 .. Cardinality(Outstanding) : Dist(ticket[TicketOrder[i]]) = i - 1
  /\ \A t \in Outstanding :
       /\ Dist(ticket[t]) \in 0 .. Cardinality(Outstanding) - 1
       /\ TicketOrder[Dist(ticket[t]) + 1] = t

\* Between current and free no distance is missing: the tickets in use are
\* distinct, so there are as many of them as places in the queue (pigeonhole),
\* and the CHOOSE of TicketOrder always finds its task.
LEMMA QueueIsOrdered == IInv => QueueOrder
<1> SUFFICES ASSUME IInv PROVE QueueOrder
  OBVIOUS
<1> DEFINE m == Cardinality(Outstanding)
           place == [t \in Outstanding |-> Dist(ticket[t])]
<1>1. /\ IsFiniteSet(Outstanding) /\ m \in Nat /\ Modulus \in Nat
      /\ current \in Ticket /\ ticket \in [Tasks -> Ticket]
  BY OutstandingFinite DEF IInv, TypeOK
<1>2. \A t \in Outstanding : ticket[t] \in Ticket /\ t \in Tasks
  BY <1>1 DEF Outstanding
<1>3. \A t \in Outstanding : Dist(ticket[t]) \in 0 .. m - 1
  <2> SUFFICES ASSUME NEW t \in Outstanding PROVE Dist(ticket[t]) \in 0 .. m - 1
    OBVIOUS
  <2>1. Dist(ticket[t]) < m
    BY DEF IInv, TicketDiscipline
  <2>2. Dist(ticket[t]) \in Nat
    BY <1>1, <1>2 DEF Dist, Ticket
  <2> QED
    BY <2>1, <2>2, <1>1
<1>4. \A t, u \in Outstanding : Dist(ticket[t]) = Dist(ticket[u]) => t = u
  BY <1>1, <1>2, DistInjective DEF IInv, TicketDiscipline
<1>5. place \in Injection(Outstanding, 0 .. m - 1)
  BY <1>3, <1>4 DEF Injection, IsInjective
<1>6. IsFiniteSet(0 .. m - 1) /\ Cardinality(0 .. m - 1) = m
  BY <1>1, FS_Interval
<1>7. place \in Surjection(Outstanding, 0 .. m - 1)
  <2> HIDE DEF place
  <2> QED
    BY <1>5, <1>6, FS_Injection
<1>8. ASSUME NEW i \in 1 .. m
      PROVE  \E t \in Outstanding : Dist(ticket[t]) = i - 1
  <2>1. i - 1 \in 0 .. m - 1
    BY <1>1
  <2> QED
    BY <2>1, <1>7 DEF Surjection
<1>9. ASSUME NEW i \in 1 .. m
      PROVE  TicketOrder[i] \in Outstanding /\ Dist(ticket[TicketOrder[i]]) = i - 1
  <2> DEFINE P(t) == \A u \in Outstanding : Dist(ticket[u]) = i - 1 => Dist(ticket[t]) = i - 1
  <2>1. \E t \in Outstanding : P(t)
    BY <1>8
  <2>2. TicketOrder[i] = CHOOSE t \in Outstanding : P(t)
    BY DEF TicketOrder
  <2>3. TicketOrder[i] \in Outstanding /\ P(TicketOrder[i])
    <3> HIDE DEF P
    <3> QED
      BY <2>1, <2>2
  <2> QED
    BY <2>3, <1>8
<1>10. TicketOrder = [i \in 1 .. m |-> TicketOrder[i]]
  BY DEF TicketOrder
<1>11. TicketOrder \in [1 .. m -> Outstanding]
  BY <1>9, <1>10
<1>12. ASSUME NEW t \in Outstanding
       PROVE  TicketOrder[Dist(ticket[t]) + 1] = t
  <2> DEFINE i == Dist(ticket[t]) + 1
  <2>1. i \in 1 .. m /\ Dist(ticket[t]) = i - 1
    BY <1>1, <1>3
  <2> HIDE DEF i
  <2>2. TicketOrder[i] \in Outstanding /\ Dist(ticket[TicketOrder[i]]) = Dist(ticket[t])
    BY <2>1, <1>9
  <2> QED
    BY <2>2, <1>4 DEF i
<1> QED
  BY <1>3, <1>9, <1>11, <1>12 DEF QueueOrder

\* Appending to a sequence leaves the places of its elements alone.
LEMMA AppendIsLast ==
  ASSUME NEW S, NEW q \in Seq(S), NEW e
  PROVE  Append(q, e) = [i \in 1 .. Len(q) + 1 |-> IF i = Len(q) + 1 THEN e ELSE q[i]]
<1> DEFINE T == S \cup {e}
<1>1. q \in Seq(T) /\ e \in T /\ Len(q) \in Nat
  BY LenProperties
<1>2. /\ Append(q, e) \in Seq(T) /\ Len(Append(q, e)) = Len(q) + 1
      /\ \A i \in 1 .. Len(q) : Append(q, e)[i] = q[i]
      /\ Append(q, e)[Len(q) + 1] = e
  BY <1>1, AppendProperties
<1>3. Append(q, e) = [i \in 1 .. Len(q) + 1 |-> Append(q, e)[i]]
  BY <1>2, LenProperties
<1>4. \A i \in 1 .. Len(q) + 1 : i # Len(q) + 1 => i \in 1 .. Len(q)
  BY <1>1
<1>5. \A i \in 1 .. Len(q) + 1 :
        Append(q, e)[i] = IF i = Len(q) + 1 THEN e ELSE q[i]
  BY <1>2, <1>4
<1> QED
  BY <1>3, <1>5

\* Removing the head of a sequence moves every other element one place down.
LEMMA TailIsShift ==
  ASSUME NEW S, NEW q \in Seq(S), q # <<>>
  PROVE  Tail(q) = [i \in 1 .. Len(q) - 1 |-> q[i + 1]]
<1>1. Tail(q) \in Seq(S) /\ Len(Tail(q)) = Len(q) - 1
  BY HeadTailProperties
<1>2. \A i \in 1 .. Len(q) - 1 : Tail(q)[i] = q[i + 1]
  BY HeadTailProperties
<1>3. Tail(q) = [i \in 1 .. Len(Tail(q)) |-> Tail(q)[i]]
  BY <1>1, LenProperties
<1> QED
  BY <1>1, <1>2, <1>3

\* Each access of the lock is a step of the abstract queue: the atomic increment
\* of _spin_lock_acquire is Request, the last poll is Enter, the store of the
\* release is Exit, and the load of current before it changes nothing.
LEMMA QueueStep ==
  ASSUME IInv, IInv', QueueOrder, QueueOrder', [Next]_vars
  PROVE  [Fifo!Next]_(Fifo!vars)
<1> DEFINE m == Cardinality(Outstanding)
           inside == \E t \in Tasks : Holds(t)
<1>1. /\ IsFiniteSet(Outstanding) /\ m \in Nat /\ Modulus \in Nat /\ m <= Modulus
      /\ TicketOrder \in [1 .. m -> Outstanding]
      /\ TicketOrder' \in [1 .. Cardinality(Outstanding') -> Outstanding']
  BY OutstandingFinite DEF IInv, QueueOrder
<1>2. /\ current \in Ticket /\ free \in Ticket /\ ticket \in [Tasks -> Ticket]
      /\ pc \in [Tasks -> {"idle", "poll", "held", "store"}]
  BY DEF IInv, TypeOK
<1>3. {TicketOrder[i] : i \in 1 .. m} = Outstanding
  BY <1>1 DEF QueueOrder
<1>4. Outstanding' = Outstanding /\ current' = current /\ ticket' = ticket
        => TicketOrder' = TicketOrder
  BY DEF TicketOrder, Dist
<1>5. ASSUME NEW t \in Tasks, TakeTicket(t)
      PROVE  Fifo!Request(t)
  <2>1. /\ t \notin Outstanding /\ Outstanding' = Outstanding \cup {t}
        /\ current' = current /\ ticket' = [ticket EXCEPT ![t] = free]
        /\ \A u \in Tasks : Holds(u)' = Holds(u)
    BY <1>2, <1>5 DEF TakeTicket, Outstanding, Holds
  <2>2. Cardinality(Outstanding') = m + 1
    BY <1>1, <2>1, FS_AddElement
  <2>3. ASSUME NEW i \in 1 .. m
        PROVE  TicketOrder'[i] = TicketOrder[i]
    <3>1. PICK u \in Outstanding : u = TicketOrder[i] /\ Dist(ticket[u]) = i - 1
      BY <1>1 DEF QueueOrder
    <3>2. ticket'[u] = ticket[u]
      BY <1>2, <2>1 DEF Outstanding
    <3>3. Dist(ticket[u])' = i - 1
      BY <2>1, <3>1, <3>2 DEF Dist
    <3>4. u \in Outstanding' /\ TicketOrder'[(i - 1) + 1] = u
      BY <2>1, <3>3 DEF QueueOrder
    <3> QED
      BY <3>1, <3>4, <1>1
  <2>4. TicketOrder'[m + 1] = t
    <3>1. m + 1 \in 1 .. m + 1 /\ TicketOrder'[m + 1] \in Outstanding'
      BY <1>1, <2>2
    <3>2. ASSUME TicketOrder'[m + 1] # t PROVE FALSE
      <4>1. PICK u \in Outstanding : u = TicketOrder'[m + 1]
        BY <2>1, <3>1, <3>2
      <4>2. ticket'[u] = ticket[u]
        BY <1>2, <2>1 DEF Outstanding
      <4>3. Dist(ticket[u])' = m
        BY <1>1, <2>2, <3>1, <4>1 DEF QueueOrder
      <4>4. Dist(ticket[u]) = m
        BY <2>1, <4>2, <4>3 DEF Dist
      <4>5. Dist(ticket[u]) \in 0 .. m - 1
        BY DEF QueueOrder
      <4> QED
        BY <4>4, <4>5, <1>1
    <3> QED
      BY <3>2
  <2>5. TicketOrder' = Append(TicketOrder, t)
    <3>1. TicketOrder \in Seq(Outstanding) /\ Len(TicketOrder) = m
      BY <1>1
    <3>2. Append(TicketOrder, t) =
            [i \in 1 .. m + 1 |-> IF i = m + 1 THEN t ELSE TicketOrder[i]]
      BY <3>1, AppendIsLast
    <3>3. TicketOrder' \in [1 .. m + 1 -> Outstanding \cup {t}]
      BY <1>1, <2>1, <2>2
    <3>4. \A i \in 1 .. m + 1 :
            TicketOrder'[i] = IF i = m + 1 THEN t ELSE TicketOrder[i]
      BY <1>1, <2>3, <2>4
    <3> QED
      BY <3>2, <3>3, <3>4
  <2>6. t \notin Fifo!Queued
    BY <1>1, <1>3, <2>1 DEF Fifo!Queued
  <2>7. inside' = inside
    BY <2>1
  <2> QED
    BY <2>5, <2>6, <2>7 DEF Fifo!Request
<1>6. ASSUME NEW t \in Tasks, Poll(t)
      PROVE  Fifo!Enter
  <2>1. /\ Outstanding' = Outstanding /\ current' = current /\ ticket' = ticket
        /\ t \in Outstanding /\ Holds(t)' /\ ~Holds(t) /\ ticket[t] = current
    BY <1>2, <1>6 DEF Poll, Outstanding, Holds
  <2>2. ~inside
    BY <2>1 DEF IInv, TicketDiscipline, Holds, Outstanding
  <2>3. m # 0
    BY <1>1, <2>1, FS_EmptySet
  <2>4. TicketOrder # <<>>
    BY <1>1, <2>3
  <2> QED
    BY <1>4, <2>1, <2>2, <2>4 DEF Fifo!Enter
<1>7. ASSUME NEW t \in Tasks, ReleaseLoad(t)
      PROVE  UNCHANGED Fifo!vars
  <2>1. /\ Outstanding' = Outstanding /\ current' = current /\ ticket' = ticket
        /\ \A u \in Tasks : Holds(u)' = Holds(u)
    BY <1>2, <1>7 DEF ReleaseLoad, Outstanding, Holds
  <2> QED
    BY <1>4, <2>1 DEF Fifo!vars
<1>8. ASSUME NEW t \in Tasks, ReleaseStore(t)
      PROVE  Fifo!Exit
  <2>1. /\ t \in Outstanding /\ Outstanding' = Outstanding \ {t} /\ Holds(t)
        /\ current' = Inc(current) /\ ticket' = ticket /\ ticket[t] = current
    BY <1>2, <1>8 DEF ReleaseStore, Outstanding, Holds, IInv, TicketDiscipline
  <2>2. Cardinality(Outstanding') = m - 1 /\ m >= 1
    BY <1>1, <2>1, FS_RemoveElement, FS_EmptySet
  <2>3. \A k \in Ticket \ {current} : Dist(k)' = Dist(k) - 1
    BY <1>1, <1>2, <2>1, TicketAssumption DEF Dist, Inc, Ticket
  <2>4. ASSUME NEW i \in 1 .. m - 1
        PROVE  TicketOrder'[i] = TicketOrder[i + 1]
    <3>1. i + 1 \in 1 .. m /\ (i + 1) - 1 = i
      BY <1>1
    <3>0. PICK u \in Outstanding : u = TicketOrder[i + 1] /\ Dist(ticket[u]) = i
      BY <1>1, <3>1 DEF QueueOrder
    <3>2. Dist(current) = 0
      BY <1>2 DEF Dist, Ticket
    <3>3. ticket[u] \in Ticket \ {current} /\ u # t
      BY <1>2, <2>1, <3>0, <3>2 DEF Outstanding
    <3>4. Dist(ticket[u])' = Dist(ticket[u]) - 1
      BY <2>1, <2>3, <3>3 DEF Dist
    <3>5. u \in Outstanding' /\ TicketOrder'[(i - 1) + 1] = u
      BY <2>1, <3>0, <3>3, <3>4 DEF QueueOrder
    <3> QED
      BY <3>0, <3>5, <1>1
  <2>5. TicketOrder' = Tail(TicketOrder)
    <3>1. TicketOrder \in Seq(Outstanding) /\ Len(TicketOrder) = m
      BY <1>1
    <3>2. Tail(TicketOrder) = [i \in 1 .. m - 1 |-> TicketOrder[i + 1]]
      BY <2>2, <3>1, <1>1, TailIsShift
    <3>3. TicketOrder' \in [1 .. m - 1 -> Outstanding']
      BY <1>1, <2>2
    <3> QED
      BY <2>4, <3>2, <3>3
  <2>6. inside /\ ~inside'
    <3>1. ASSUME NEW u \in Tasks PROVE ~Holds(u)'
      <4>1. u # t /\ Holds(u)' => Holds(u) /\ u \in Outstanding
        BY <1>2, <1>8 DEF ReleaseStore, Holds, Outstanding
      <4>2. Holds(u) /\ u \in Outstanding => u = t
        BY <2>1 DEF IInv, TicketDiscipline
      <4>3. ~Holds(t)'
        BY <1>2, <1>8 DEF ReleaseStore, Holds
      <4> QED
        BY <4>1, <4>2, <4>3
    <3> QED
      BY <2>1, <3>1
  <2> QED
    BY <2>5, <2>6 DEF Fifo!Exit
<1>9. CASE UNCHANGED vars
  <2>1. /\ Outstanding' = Outstanding /\ current' = current /\ ticket' = ticket
        /\ \A u \in Tasks : Holds(u)' = Holds(u)
    BY <1>9 DEF vars, Outstanding, Holds
  <2> QED
    BY <1>4, <2>1 DEF Fifo!vars
<1> QED
  BY <1>5, <1>6, <1>7, <1>8, <1>9 DEF Next, Step, Fifo!Next

\* The spin lock implements the abstract queuing lock: its requests are served
\* one at a time and in the order of the atomic increments of
\* _spin_lock_acquire, for any number of tasks up to the number of tickets and
\* across any number of wrap arounds.
THEOREM LockIsFifo == Spec => FifoSpec
<1>1. Init => Fifo!Init
  <2> SUFFICES ASSUME Init PROVE Fifo!Init
    OBVIOUS
  <2>1. Outstanding = {} /\ \A t \in Tasks : ~Holds(t)
    BY DEF Init, Outstanding, Holds
  <2>2. Cardinality(Outstanding) = 0
    BY <2>1, FS_EmptySet
  <2>3. TicketOrder = <<>>
    BY <2>2 DEF TicketOrder
  <2> QED
    BY <2>1, <2>3 DEF Fifo!Init
<1>2. IInv => QueueOrder
  BY QueueIsOrdered
<1>3. IInv /\ IInv' /\ QueueOrder /\ QueueOrder' /\ [Next]_vars
        => [Fifo!Next]_(Fifo!vars)
  BY QueueStep
<1> QED
  BY <1>1, <1>2, <1>3, TicketInvariant, PTL DEF Spec, FifoSpec, Fifo!Spec

-----------------------------------------------------------------------------
(* The distributed lock                                                    *)

\* Task t has a ticket of its level-l node: it polls for it, or holds the node.
Uses(t, l) == Sqt!HoldsLevel(t, l) \/ (at[t] = "poll" /\ level[t] = l)

\* The tasks with a ticket of node n, the ticket each has, and how far current
\* is from a ticket.
Users(x) == {t \in Tasks : \E l \in Sqt!Level : LockPath[t][l] = x /\ Uses(t, l)}
TicketOn(t, x) == IF at[t] = "poll" /\ Sqt!Node(t) = x THEN nodeTicket[t] ELSE nodeCurrent[x]
NodeDist(x, k) == IF k >= nodeCurrent[x] THEN k - nodeCurrent[x] ELSE k + NodeModulus - nodeCurrent[x]

Discipline(x) ==
  /\ \A t, u \in Users(x) : t # u => TicketOn(t, x) # TicketOn(u, x)
  /\ \A t \in Users(x) : NodeDist(x, TicketOn(t, x)) < Cardinality(Users(x))
  /\ \/ nodeCurrent[x] + Cardinality(Users(x)) = nodeFree[x]
     \/ nodeCurrent[x] + Cardinality(Users(x)) = nodeFree[x] + NodeModulus

\* NodeExclusion is not inductive: that a ticket of a node is in the hands of one
\* task only needs the discipline of all the tickets of the node.
SqtInv ==
  /\ Sqt!TypeOK
  /\ \A x \in Sqt!Nodes : Discipline(x)
  /\ \A t \in Tasks : at[t] = "store" => nodeSeen[t] = nodeCurrent[Sqt!Node(t)]
  /\ \A t \in Tasks : at[t] \in {"idle", "held"} => level[t] = 0

-----------------------------------------------------------------------------
(* The tasks on a node                                                     *)

\* A node is at one level of the tree, whoever uses it.
LEMMA OneLevel ==
  ASSUME Sqt!SqtLockAssumption, NEW t \in Tasks, NEW u \in Tasks, NEW l \in Sqt!Level, NEW m \in Sqt!Level,
         LockPath[t][l] = LockPath[u][m]
  PROVE  l = m
BY DEF Sqt!SqtLockAssumption

\* The type of what the steps of task t read and write.
LEMMA SqtTypes ==
  ASSUME Sqt!SqtLockAssumption, Sqt!TypeOK
  PROVE  /\ LockLevels \in Nat \ {0} /\ Sqt!Root \in Sqt!Level /\ 0 \in Sqt!Level /\ NodeModulus \in Nat \ {0}
         /\ \A t \in Tasks : level[t] \in Sqt!Level /\ Sqt!Node(t) \in Sqt!Nodes
         /\ \A t \in Tasks : \A l \in Sqt!Level : LockPath[t][l] \in Sqt!Nodes
         /\ \A x \in Sqt!Nodes : /\ IsFiniteSet(Users(x)) /\ Users(x) \subseteq Tasks
                             /\ Cardinality(Users(x)) \in Nat
                             /\ Cardinality(Users(x)) <= NodeModulus
<1>1. LockLevels \in Nat \ {0} /\ NodeModulus \in Nat \ {0} /\ IsFiniteSet(Tasks)
      /\ Cardinality(Tasks) <= NodeModulus
  BY SameSets DEF Sqt!SqtLockAssumption
<1>2. Sqt!Root \in Sqt!Level /\ 0 \in Sqt!Level
  BY <1>1 DEF Sqt!Root, Sqt!Level
<1>3. \A t \in Tasks : \A l \in Sqt!Level : LockPath[t][l] \in Sqt!Nodes
  BY DEF Sqt!Nodes
<1>4. \A t \in Tasks : level[t] \in Sqt!Level /\ Sqt!Node(t) \in Sqt!Nodes
  BY <1>3 DEF Sqt!TypeOK, Sqt!Node
<1>5. ASSUME NEW x \in Sqt!Nodes
      PROVE  /\ IsFiniteSet(Users(x)) /\ Users(x) \subseteq Tasks
             /\ Cardinality(Users(x)) \in Nat
             /\ Cardinality(Users(x)) <= NodeModulus
  <2>1. Users(x) \subseteq Tasks
    BY DEF Users
  <2>2. /\ IsFiniteSet(Users(x)) /\ Cardinality(Users(x)) <= Cardinality(Tasks)
    BY <1>1, <2>1, FS_Subset
  <2>3. Cardinality(Users(x)) \in Nat /\ Cardinality(Tasks) \in Nat
    BY <1>1, <2>2, FS_CardinalityType
  <2> QED
    BY <1>1, <2>1, <2>2, <2>3
<1> QED
  BY <1>1, <1>2, <1>3, <1>4, <1>5

\* A node that a step does not touch keeps its discipline.
LEMMA FrameDiscipline ==
  ASSUME NEW x, Discipline(x), Users(x)' = Users(x),
         nodeCurrent'[x] = nodeCurrent[x], nodeFree'[x] = nodeFree[x],
         \A u \in Users(x) : TicketOn(u, x)' = TicketOn(u, x)
  PROVE  Discipline(x)'
BY DEF Discipline, NodeDist

\* A task that gets a ticket of one node is a new user of this node only.
LEMMA NewUser ==
  ASSUME Sqt!SqtLockAssumption, NEW t \in Tasks, NEW m \in Sqt!Level, ~Uses(t, m),
         \A u \in Tasks : \A l \in Sqt!Level : Uses(u, l)' <=> Uses(u, l) \/ (u = t /\ l = m)
  PROVE  /\ t \notin Users(LockPath[t][m])
         /\ Users(LockPath[t][m])' = Users(LockPath[t][m]) \cup {t}
         /\ \A x : x # LockPath[t][m] => Users(x)' = Users(x)
<1>1. t \notin Users(LockPath[t][m])
  BY OneLevel DEF Users
<1>2. Users(LockPath[t][m])' = Users(LockPath[t][m]) \cup {t}
  BY OneLevel DEF Users
<1>3. ASSUME NEW x, x # LockPath[t][m]
      PROVE  Users(x)' = Users(x)
  BY <1>3 DEF Users
<1> QED
  BY <1>1, <1>2, <1>3

\* A task that gives one node back is not a user of this node any more.
LEMMA LessUser ==
  ASSUME Sqt!SqtLockAssumption, NEW t \in Tasks, NEW m \in Sqt!Level, Uses(t, m),
         \A u \in Tasks : \A l \in Sqt!Level : Uses(u, l)' <=> Uses(u, l) /\ ~(u = t /\ l = m)
  PROVE  /\ t \in Users(LockPath[t][m])
         /\ Users(LockPath[t][m])' = Users(LockPath[t][m]) \ {t}
         /\ \A x : x # LockPath[t][m] => Users(x)' = Users(x)
<1>1. t \in Users(LockPath[t][m])
  BY DEF Users
<1>2. Users(LockPath[t][m])' = Users(LockPath[t][m]) \ {t}
  BY OneLevel DEF Users
<1>3. ASSUME NEW x, x # LockPath[t][m]
      PROVE  Users(x)' = Users(x)
  BY <1>3 DEF Users
<1> QED
  BY <1>1, <1>2, <1>3

\* Who holds a node is a user of it, with the ticket that current shows.
LEMMA HolderTicket ==
  ASSUME Sqt!SqtLockAssumption, Sqt!TypeOK, NEW t \in Tasks, NEW l \in Sqt!Level, Sqt!HoldsLevel(t, l)
  PROVE  t \in Users(LockPath[t][l]) /\ TicketOn(t, LockPath[t][l]) = nodeCurrent[LockPath[t][l]]
<1>1. t \in Users(LockPath[t][l])
  BY DEF Users, Uses
<1>2. at[t] = "poll" => Sqt!Node(t) # LockPath[t][l]
  <2>1. level[t] \in Sqt!Level
    BY DEF Sqt!TypeOK
  <2>2. at[t] = "poll" => l < level[t]
    BY DEF Sqt!HoldsLevel
  <2> QED
    BY <2>1, <2>2, OneLevel DEF Sqt!Node, Sqt!Level
<1> QED
  BY <1>1, <1>2 DEF TicketOn

\* Hence nodes are exclusive.
LEMMA ExclusionFromDiscipline ==
  ASSUME Sqt!SqtLockAssumption, SqtInv
  PROVE  Sqt!NodeExclusion
<1> SUFFICES ASSUME NEW t \in Tasks, NEW u \in Tasks, NEW l \in Sqt!Level,
                    Sqt!HoldsLevel(t, l), Sqt!HoldsLevel(u, l), LockPath[t][l] = LockPath[u][l]
             PROVE  t = u
  BY DEF Sqt!NodeExclusion
<1>1. LockPath[t][l] \in Sqt!Nodes /\ Sqt!TypeOK
  BY SqtTypes DEF SqtInv
<1>2. /\ t \in Users(LockPath[t][l]) /\ u \in Users(LockPath[t][l])
      /\ TicketOn(t, LockPath[t][l]) = TicketOn(u, LockPath[t][l])
  BY <1>1, HolderTicket
<1> QED
  BY <1>1, <1>2 DEF SqtInv, Discipline

-----------------------------------------------------------------------------
(* The steps                                                               *)

\* A node that a step does not use keeps its discipline.
LEMMA OtherNodes ==
  ASSUME Sqt!SqtLockAssumption, SqtInv, NEW o, NEW x \in Sqt!Nodes, x # o,
         Users(x)' = Users(x), nodeCurrent'[x] = nodeCurrent[x], nodeFree'[x] = nodeFree[x],
         \A u \in Tasks : at[u] = "poll" /\ Sqt!Node(u) = x <=> at'[u] = "poll" /\ Sqt!Node(u)' = x,
         \A u \in Tasks : at[u] = "poll" /\ Sqt!Node(u) = x => nodeTicket'[u] = nodeTicket[u]
  PROVE  Discipline(x)'
<1>1. \A u \in Users(x) : u \in Tasks
  BY DEF Users
<1>2. \A u \in Users(x) : TicketOn(u, x)' = TicketOn(u, x)
  BY <1>1 DEF TicketOn
<1> QED
  BY <1>2, FrameDiscipline DEF SqtInv

\* _sqt_lock_take: a new ticket of a node is new, even after a wrap around.
LEMMA SqtTakeTicket ==
  ASSUME Sqt!SqtLockAssumption, SqtInv, NEW t \in Tasks, Sqt!TakeTicket(t)
  PROVE  SqtInv'
<1>0. PICK m \in Sqt!Level : m = level[t]
  BY SqtTypes DEF SqtInv
<1> DEFINE o == LockPath[t][m]
           c == Cardinality(Users(o))
<1>1. /\ nodeCurrent \in [Sqt!Nodes -> 0 .. NodeModulus - 1] /\ nodeFree \in [Sqt!Nodes -> 0 .. NodeModulus - 1]
      /\ at \in [Tasks -> {"idle", "take", "poll", "held", "load", "store"}]
      /\ level \in [Tasks -> Sqt!Level] /\ nodeTicket \in [Tasks -> 0 .. NodeModulus - 1]
      /\ at[t] \in {"idle", "take"} /\ at' = [at EXCEPT ![t] = "poll"]
      /\ nodeTicket' = [nodeTicket EXCEPT ![t] = nodeFree[o]]
      /\ nodeFree' = [nodeFree EXCEPT ![o] = Sqt!Inc(nodeFree[o])]
      /\ UNCHANGED <<nodeCurrent, level, nodeSeen>> /\ Sqt!TypeOK
  BY <1>0 DEF SqtInv, Sqt!TypeOK, Sqt!TakeTicket, Sqt!Node
<1>2. /\ o = Sqt!Node(t) /\ o \in Sqt!Nodes /\ NodeModulus \in Nat \ {0}
      /\ IsFiniteSet(Users(o)) /\ c \in Nat /\ \A u \in Tasks : Sqt!Node(u)' = Sqt!Node(u)
  BY <1>0, <1>1, SqtTypes DEF Sqt!Node
<1>3. Sqt!TypeOK'
  BY <1>1, <1>2 DEF Sqt!TypeOK, Sqt!Inc
<1>4. ~Uses(t, m)
  BY <1>0, <1>1 DEF Uses, Sqt!HoldsLevel, Sqt!Level
<1>5. \A u \in Tasks : \A l \in Sqt!Level : Uses(u, l)' <=> Uses(u, l) \/ (u = t /\ l = m)
  BY <1>0, <1>1 DEF Uses, Sqt!HoldsLevel, SqtInv, Sqt!Level
<1>6. /\ t \notin Users(o) /\ Users(o)' = Users(o) \cup {t}
      /\ \A x : x # o => Users(x)' = Users(x)
  BY <1>4, <1>5, NewUser
<1>7. Cardinality(Users(o)') = c + 1 /\ c + 1 <= NodeModulus
  <2>1. Cardinality(Users(o)') = c + 1
    <3>1. IsFiniteSet(Users(o)) /\ t \notin Users(o)
      BY <1>2, <1>6
    <3>2. Cardinality(Users(o) \cup {t}) = c + 1
      BY ONLY <3>1, FS_AddElement
    <3> QED
      BY <1>6, <3>2
  <2>2. Users(o)' \subseteq Tasks /\ IsFiniteSet(Tasks) /\ Cardinality(Tasks) <= NodeModulus
    BY SameSets DEF Users, Sqt!SqtLockAssumption
  <2>3. Cardinality(Users(o)') <= Cardinality(Tasks) /\ Cardinality(Tasks) \in Nat
    BY <2>2, FS_Subset, FS_CardinalityType
  <2> QED
    BY <1>2, <2>1, <2>2, <2>3
<1>8. nodeCurrent[o] + c = nodeFree[o] \/ nodeCurrent[o] + c = nodeFree[o] + NodeModulus
  BY <1>2 DEF SqtInv, Discipline
<1>9. NodeDist(o, nodeFree[o]) = c
  BY <1>1, <1>2, <1>7, <1>8 DEF NodeDist
<1>10. \A u \in Users(o) : TicketOn(u, o)' = TicketOn(u, o) /\ TicketOn(u, o) \in 0 .. NodeModulus - 1
                           /\ u \in Tasks /\ u # t
  BY <1>1, <1>2, <1>6 DEF TicketOn, Users
<1>11. TicketOn(t, o)' = nodeFree[o]
  BY <1>1, <1>2 DEF TicketOn
<1>12. \A u \in Users(o) : TicketOn(u, o) # nodeFree[o]
  BY <1>2, <1>9 DEF SqtInv, Discipline
<1>13. Discipline(o)'
  <2>1. \A u, v \in Users(o)' : u # v => TicketOn(u, o)' # TicketOn(v, o)'
    BY <1>2, <1>6, <1>10, <1>11, <1>12 DEF SqtInv, Discipline
  <2>2. ASSUME NEW u \in Users(o)'
        PROVE  NodeDist(o, TicketOn(u, o))' < c + 1
    <3>1. CASE u = t
      BY <1>1, <1>2, <1>9, <1>11, <3>1 DEF NodeDist
    <3>2. CASE u # t
      <4>1. u \in Users(o) /\ NodeDist(o, TicketOn(u, o)) < c
        BY <1>2, <1>6, <3>2 DEF SqtInv, Discipline
      <4>2. NodeDist(o, TicketOn(u, o))' = NodeDist(o, TicketOn(u, o))
        BY <1>1, <1>10, <4>1 DEF NodeDist
      <4>3. NodeDist(o, TicketOn(u, o)) \in Int
        BY <1>1, <1>2, <1>10, <4>1 DEF NodeDist
      <4> QED
        BY <1>2, <4>1, <4>2, <4>3
    <3> QED
      BY <3>1, <3>2
  <2>3. \/ nodeCurrent'[o] + (c + 1) = nodeFree'[o]
        \/ nodeCurrent'[o] + (c + 1) = nodeFree'[o] + NodeModulus
    BY <1>1, <1>2, <1>7, <1>8 DEF Sqt!Inc
  <2> QED
    BY <1>7, <2>1, <2>2, <2>3 DEF Discipline
<1>14. ASSUME NEW x \in Sqt!Nodes, x # o
       PROVE  Discipline(x)'
  <2>1. \A u \in Tasks : at[u] = "poll" /\ Sqt!Node(u) = x <=> at'[u] = "poll" /\ Sqt!Node(u)' = x
    BY <1>1, <1>2, <1>14
  <2>2. \A u \in Tasks : at[u] = "poll" /\ Sqt!Node(u) = x => nodeTicket'[u] = nodeTicket[u]
    BY <1>1
  <2> QED
    BY <1>1, <1>2, <1>6, <1>14, <2>1, <2>2, OtherNodes
<1>15. \A x \in Sqt!Nodes : Discipline(x)'
  BY <1>13, <1>14
<1>16. /\ \A u \in Tasks : at'[u] = "store" => nodeSeen'[u] = nodeCurrent'[Sqt!Node(u)']
       /\ \A u \in Tasks : at'[u] \in {"idle", "held"} => level'[u] = 0
  BY <1>1, <1>2 DEF SqtInv
<1> QED
  BY <1>3, <1>15, <1>16 DEF SqtInv

\* The polls and the loads of the release change no counter, and the task keeps
\* the nodes it uses: the ticket of the node that it polled is the one that
\* current shows.
LEMMA SqtPoll ==
  ASSUME Sqt!SqtLockAssumption, SqtInv, NEW t \in Tasks, Sqt!Poll(t) \/ Sqt!GiveLoad(t)
  PROVE  SqtInv'
<1>0. PICK m \in Sqt!Level : m = level[t]
  BY SqtTypes DEF SqtInv
<1>1. /\ nodeCurrent \in [Sqt!Nodes -> 0 .. NodeModulus - 1] /\ nodeFree \in [Sqt!Nodes -> 0 .. NodeModulus - 1]
      /\ at \in [Tasks -> {"idle", "take", "poll", "held", "load", "store"}]
      /\ level \in [Tasks -> Sqt!Level] /\ nodeSeen \in [Tasks -> 0 .. NodeModulus - 1]
      /\ UNCHANGED <<nodeCurrent, nodeFree, nodeTicket>> /\ Sqt!TypeOK
      /\ \A u \in Tasks : u # t => at'[u] = at[u] /\ level'[u] = level[u] /\ nodeSeen'[u] = nodeSeen[u]
  BY DEF SqtInv, Sqt!TypeOK, Sqt!Poll, Sqt!GiveLoad
<1>2. /\ LockPath[t][m] = Sqt!Node(t) /\ LockPath[t][m] \in Sqt!Nodes /\ LockLevels \in Nat \ {0}
      /\ 0 \in Sqt!Level /\ Sqt!Root = LockLevels - 1
  BY <1>0, <1>1, SqtTypes DEF Sqt!Node, Sqt!Root
<1>3. Sqt!TypeOK'
  BY <1>0, <1>1, <1>2 DEF Sqt!TypeOK, Sqt!Poll, Sqt!GiveLoad, Sqt!Level
<1>4. \A l \in Sqt!Level : Uses(t, l)' <=> Uses(t, l)
  <2>1. CASE Sqt!Poll(t)
    <3>1. CASE m < Sqt!Root
      <4>1. at[t] = "poll" /\ at'[t] = "take" /\ level'[t] = m + 1
        BY <1>0, <1>1, <1>2, <2>1, <3>1 DEF Sqt!Poll
      <4> QED
        BY <1>0, <4>1 DEF Uses, Sqt!HoldsLevel, Sqt!Level
    <3>2. CASE m = Sqt!Root
      <4>1. at[t] = "poll" /\ at'[t] = "held"
        BY <1>0, <1>1, <1>2, <2>1, <3>2 DEF Sqt!Poll
      <4> QED
        BY <1>0, <1>2, <3>2, <4>1 DEF Uses, Sqt!HoldsLevel, Sqt!Level
    <3> QED
      BY <1>0, <2>1, <3>1, <3>2 DEF Sqt!Poll
  <2>2. CASE Sqt!GiveLoad(t)
    <3>1. at[t] \in {"held", "load"} /\ at'[t] = "store" /\ level'[t] = level[t]
          /\ (at[t] = "held" => level[t] = 0)
      BY <1>1, <2>2 DEF Sqt!GiveLoad, SqtInv
    <3> QED
      BY <1>0, <3>1 DEF Uses, Sqt!HoldsLevel, Sqt!Level
  <2> QED
    BY <2>1, <2>2
<1>5. \A u \in Tasks : \A l \in Sqt!Level : Uses(u, l)' <=> Uses(u, l)
  BY <1>1, <1>4 DEF Uses, Sqt!HoldsLevel
<1>6. \A x : Users(x)' = Users(x)
  BY <1>5 DEF Users
<1>7. ASSUME NEW x \in Sqt!Nodes, NEW u \in Users(x)
      PROVE  TicketOn(u, x)' = TicketOn(u, x)
  <2>1. u \in Tasks
    BY DEF Users
  <2>2. CASE u # t
    BY <1>1, <2>1, <2>2 DEF TicketOn, Sqt!Node
  <2>3. CASE u = t /\ Sqt!Poll(t)
    <3>1. at'[t] # "poll" /\ (Sqt!Node(t) = x => nodeCurrent[x] = nodeTicket[t])
      BY <1>1, <2>3 DEF Sqt!Poll
    <3> QED
      BY <1>1, <2>3, <3>1 DEF TicketOn
  <2>4. CASE u = t /\ Sqt!GiveLoad(t)
    BY <1>1, <2>4 DEF TicketOn, Sqt!GiveLoad
  <2> QED
    BY <2>2, <2>3, <2>4
<1>8. \A x \in Sqt!Nodes : Discipline(x)'
  BY <1>1, <1>6, <1>7, FrameDiscipline DEF SqtInv
<1>9. \A u \in Tasks : at'[u] = "store" => nodeSeen'[u] = nodeCurrent'[Sqt!Node(u)']
  <2>1. ASSUME NEW u \in Tasks, u # t, at'[u] = "store"
        PROVE  nodeSeen'[u] = nodeCurrent'[Sqt!Node(u)']
    BY <1>1, <2>1 DEF SqtInv, Sqt!Node
  <2>2. at'[t] = "store" => nodeSeen'[t] = nodeCurrent'[Sqt!Node(t)']
    BY <1>1 DEF Sqt!Poll, Sqt!GiveLoad, Sqt!Node
  <2> QED
    BY <2>1, <2>2
<1>10. \A u \in Tasks : at'[u] \in {"idle", "held"} => level'[u] = 0
  BY <1>1 DEF SqtInv, Sqt!Poll, Sqt!GiveLoad
<1> QED
  BY <1>3, <1>8, <1>9, <1>10 DEF SqtInv

\* _sqt_lock_give: the store of current + 1 serves the next ticket of the node,
\* because nobody else wrote current since the load.
LEMMA SqtGiveStore ==
  ASSUME Sqt!SqtLockAssumption, SqtInv, NEW t \in Tasks, Sqt!GiveStore(t)
  PROVE  SqtInv'
<1>0. PICK m \in Sqt!Level : m = level[t]
  BY SqtTypes DEF SqtInv
<1> DEFINE o == LockPath[t][m]
           c == Cardinality(Users(o))
<1>1. /\ nodeCurrent \in [Sqt!Nodes -> 0 .. NodeModulus - 1] /\ nodeFree \in [Sqt!Nodes -> 0 .. NodeModulus - 1]
      /\ at \in [Tasks -> {"idle", "take", "poll", "held", "load", "store"}]
      /\ level \in [Tasks -> Sqt!Level] /\ nodeTicket \in [Tasks -> 0 .. NodeModulus - 1]
      /\ at[t] = "store" /\ at'[t] \in {"load", "idle"} /\ at' = [at EXCEPT ![t] = at'[t]]
      /\ \A u \in Tasks : u # t => at'[u] = at[u] /\ level'[u] = level[u]
      /\ UNCHANGED <<nodeFree, nodeTicket, nodeSeen>> /\ Sqt!TypeOK
  BY <1>0 DEF SqtInv, Sqt!TypeOK, Sqt!GiveStore
<1>2. /\ o = Sqt!Node(t) /\ o \in Sqt!Nodes /\ NodeModulus \in Nat \ {0} /\ LockLevels \in Nat \ {0}
      /\ IsFiniteSet(Users(o)) /\ c \in Nat /\ c <= NodeModulus
      /\ 0 \in Sqt!Level /\ Sqt!Root = LockLevels - 1
      /\ \A u \in Tasks : u # t => Sqt!Node(u)' = Sqt!Node(u)
  BY <1>0, <1>1, SqtTypes DEF Sqt!Node, Sqt!Root
<1>3. /\ nodeSeen[t] = nodeCurrent[o]
      /\ nodeCurrent' = [nodeCurrent EXCEPT ![o] = Sqt!Inc(nodeCurrent[o])]
  BY <1>1, <1>2 DEF SqtInv, Sqt!GiveStore
<1>4. Sqt!TypeOK'
  <2>1. level' \in [Tasks -> Sqt!Level]
    BY <1>0, <1>1, <1>2 DEF Sqt!GiveStore, Sqt!Level
  <2>2. nodeCurrent' \in [Sqt!Nodes -> 0 .. NodeModulus - 1]
    BY <1>1, <1>2, <1>3 DEF Sqt!Inc
  <2> QED
    BY <1>1, <2>1, <2>2 DEF Sqt!TypeOK
<1>5. Uses(t, m) /\ Sqt!HoldsLevel(t, m)
  BY <1>0, <1>1 DEF Uses, Sqt!HoldsLevel, Sqt!Level
<1>6. \A u \in Tasks : \A l \in Sqt!Level : Uses(u, l)' <=> Uses(u, l) /\ ~(u = t /\ l = m)
  <2>1. ASSUME NEW l \in Sqt!Level
        PROVE  Uses(t, l)' <=> Uses(t, l) /\ l # m
    <3>1. CASE m < Sqt!Root
      <4>1. at'[t] = "load" /\ level'[t] = m + 1
        BY <1>0, <1>1, <1>2, <3>1 DEF Sqt!GiveStore
      <4> QED
        BY <1>0, <1>1, <4>1 DEF Uses, Sqt!HoldsLevel, Sqt!Level
    <3>2. CASE m = Sqt!Root
      <4>1. at'[t] = "idle"
        BY <1>0, <1>1, <1>2, <3>2 DEF Sqt!GiveStore
      <4> QED
        BY <1>0, <1>1, <1>2, <3>2, <4>1 DEF Uses, Sqt!HoldsLevel, Sqt!Level
    <3> QED
      BY <1>0, <3>1, <3>2 DEF Sqt!GiveStore
  <2>2. ASSUME NEW u \in Tasks, u # t, NEW l \in Sqt!Level
        PROVE  Uses(u, l)' <=> Uses(u, l)
    BY <1>1, <2>2 DEF Uses, Sqt!HoldsLevel
  <2> QED
    BY <2>1, <2>2
<1>7. /\ t \in Users(o) /\ Users(o)' = Users(o) \ {t}
      /\ \A x : x # o => Users(x)' = Users(x)
  BY <1>5, <1>6, LessUser
<1>8. Cardinality(Users(o)') = c - 1 /\ c >= 1
  BY <1>2, <1>7, FS_RemoveElement, FS_EmptySet
<1>9. TicketOn(t, o) = nodeCurrent[o]
  BY <1>1, <1>5, HolderTicket
<1>10. \A u \in Users(o)' : /\ u \in Tasks /\ u \in Users(o) /\ u # t
                            /\ TicketOn(u, o) # nodeCurrent[o]
  BY <1>2, <1>7, <1>9 DEF SqtInv, Discipline, Users
<1>11. \A u \in Users(o)' : /\ TicketOn(u, o)' = TicketOn(u, o)
                            /\ TicketOn(u, o) \in 0 .. NodeModulus - 1 /\ TicketOn(u, o) # nodeCurrent[o]
  BY <1>1, <1>2, <1>10 DEF TicketOn
<1>12. \A k \in (0 .. NodeModulus - 1) \ {nodeCurrent[o]} : NodeDist(o, k)' = NodeDist(o, k) - 1
  BY <1>1, <1>2, <1>3 DEF NodeDist, Sqt!Inc
<1>13. Discipline(o)'
  <2>1. \A u, v \in Users(o)' : u # v => TicketOn(u, o)' # TicketOn(v, o)'
    BY <1>2, <1>10, <1>11 DEF SqtInv, Discipline
  <2>2. ASSUME NEW u \in Users(o)'
        PROVE  NodeDist(o, TicketOn(u, o))' < c - 1
    <3>1. NodeDist(o, TicketOn(u, o)) < c /\ NodeDist(o, TicketOn(u, o)) \in Int
      BY <1>1, <1>2, <1>10, <1>11 DEF SqtInv, Discipline, NodeDist
    <3>2. NodeDist(o, TicketOn(u, o))' = NodeDist(o, TicketOn(u, o)) - 1
      BY <1>11, <1>12 DEF NodeDist
    <3> QED
      BY <1>2, <3>1, <3>2
  <2>3. nodeCurrent[o] + c = nodeFree[o] \/ nodeCurrent[o] + c = nodeFree[o] + NodeModulus
    BY <1>2 DEF SqtInv, Discipline
  <2>4. \/ nodeCurrent'[o] + (c - 1) = nodeFree'[o]
        \/ nodeCurrent'[o] + (c - 1) = nodeFree'[o] + NodeModulus
    BY <1>1, <1>2, <1>3, <1>8, <2>3 DEF Sqt!Inc
  <2> QED
    BY <1>8, <2>1, <2>2, <2>4 DEF Discipline
<1>14. ASSUME NEW x \in Sqt!Nodes, x # o
       PROVE  Discipline(x)'
  <2>1. \A u \in Tasks : at[u] = "poll" /\ Sqt!Node(u) = x <=> at'[u] = "poll" /\ Sqt!Node(u)' = x
    BY <1>1, <1>2
  <2>2. Users(x)' = Users(x) /\ nodeCurrent'[x] = nodeCurrent[x] /\ nodeFree'[x] = nodeFree[x]
    BY <1>1, <1>2, <1>3, <1>7, <1>14
  <2>3. \A u \in Tasks : at[u] = "poll" /\ Sqt!Node(u) = x => nodeTicket'[u] = nodeTicket[u]
    BY <1>1
  <2> QED
    BY <1>14, <2>1, <2>2, <2>3, OtherNodes
<1>15. \A x \in Sqt!Nodes : Discipline(x)'
  BY <1>13, <1>14
<1>16. ASSUME NEW u \in Tasks, at'[u] = "store"
       PROVE  nodeSeen'[u] = nodeCurrent'[Sqt!Node(u)']
  <2>1. u # t /\ at[u] = "store" /\ Sqt!Node(u)' = Sqt!Node(u)
    BY <1>1, <1>2, <1>16
  <2>2. nodeSeen[u] = nodeCurrent[Sqt!Node(u)] /\ level[u] \in Sqt!Level /\ Sqt!Node(u) \in Sqt!Nodes
    BY <1>1, <2>1, SqtTypes DEF SqtInv
  <2>3. Sqt!HoldsLevel(u, level[u])
    BY <2>1, <2>2 DEF Sqt!HoldsLevel, Sqt!Level
  <2>4. Sqt!Node(u) # o
    <3>1. ASSUME Sqt!Node(u) = o PROVE FALSE
      <4>1. LockPath[u][level[u]] = LockPath[t][m]
        BY <3>1 DEF Sqt!Node
      <4>2. level[u] = m
        BY <2>2, <4>1, OneLevel
      <4> QED
        BY <1>5, <2>1, <2>3, <4>1, <4>2, ExclusionFromDiscipline DEF Sqt!NodeExclusion
    <3> QED
      BY <3>1
  <2> QED
    BY <1>1, <1>3, <2>1, <2>2, <2>4
<1>17. \A u \in Tasks : at'[u] \in {"idle", "held"} => level'[u] = 0
  BY <1>1 DEF SqtInv, Sqt!GiveStore
<1> QED
  BY <1>4, <1>15, <1>16, <1>17 DEF SqtInv

LEMMA SqtPreserved ==
  ASSUME Sqt!SqtLockAssumption, SqtInv, [Sqt!Next]_(Sqt!vars)
  PROVE  SqtInv'
<1>1. ASSUME NEW t \in Tasks, Sqt!Step(t)
      PROVE  SqtInv'
  BY <1>1, SqtTakeTicket, SqtPoll, SqtGiveStore DEF Sqt!Step
<1>2. CASE UNCHANGED Sqt!vars
  <2>1. UNCHANGED <<nodeCurrent, nodeFree, at, level, nodeTicket, nodeSeen>>
    BY <1>2 DEF Sqt!vars
  <2>2. Sqt!TypeOK'
    BY <2>1 DEF SqtInv, Sqt!TypeOK
  <2>3. \A x : Users(x)' = Users(x)
    BY <2>1 DEF Users, Uses, Sqt!HoldsLevel
  <2>4. \A x, u : TicketOn(u, x)' = TicketOn(u, x)
    BY <2>1 DEF TicketOn, Sqt!Node
  <2>5. \A x \in Sqt!Nodes : Discipline(x)'
    BY <2>1, <2>3, <2>4, FrameDiscipline DEF SqtInv
  <2> QED
    BY <2>1, <2>2, <2>5 DEF SqtInv, Sqt!Node
<1> QED
  BY <1>1, <1>2 DEF Sqt!Next

\* Inside the lock is holding the root, which all the paths share.
LEMMA MutexStep ==
  ASSUME Sqt!SqtLockAssumption, SqtInv, SqtInv', [Sqt!Next]_Sqt!vars
  PROVE  [Sqt!Lock!Next]_Sqt!Where
<1>1. /\ at \in [Tasks -> {"idle", "take", "poll", "held", "load", "store"}]
      /\ level \in [Tasks -> Sqt!Level] /\ Sqt!Root \in Sqt!Level /\ LockLevels \in Nat \ {0}
  BY SqtTypes DEF SqtInv, Sqt!TypeOK
<1>2. \A t \in Tasks : Sqt!Where[t] = "in" => Sqt!HoldsLevel(t, Sqt!Root)
  BY <1>1 DEF Sqt!Where, Sqt!HoldsLevel, Sqt!Level, Sqt!Root
<1>3. ASSUME NEW t \in Tasks, Sqt!TakeTicket(t)
      PROVE  Sqt!Lock!Request(t) \/ UNCHANGED Sqt!Where
  BY <1>1, <1>3 DEF Sqt!TakeTicket, Sqt!Lock!Request, Sqt!Where
<1>4. ASSUME NEW t \in Tasks, Sqt!Poll(t)
      PROVE  Sqt!Lock!Enter(t) \/ UNCHANGED Sqt!Where
  <2>1. CASE level[t] < Sqt!Root
    BY <1>1, <1>4, <2>1 DEF Sqt!Poll, Sqt!Where, Sqt!Level, Sqt!Root
  <2>2. CASE level[t] = Sqt!Root
    <3>1. /\ at[t] = "poll" /\ nodeCurrent[LockPath[t][Sqt!Root]] = nodeTicket[t] /\ at' = [at EXCEPT ![t] = "held"]
      BY <1>1, <1>4, <2>2 DEF Sqt!Poll, Sqt!Node, Sqt!Level, Sqt!Root
    <3>2. ASSUME NEW u \in Tasks, Sqt!Where[u] = "in"
          PROVE  FALSE
      <4>1. Sqt!HoldsLevel(u, Sqt!Root) /\ u # t
        BY <1>2, <3>1, <3>2 DEF Sqt!Where
      <4>2. LockPath[u][Sqt!Root] = LockPath[t][Sqt!Root] /\ LockPath[t][Sqt!Root] \in Sqt!Nodes
        BY <1>1, SqtTypes DEF Sqt!SqtLockAssumption, SqtInv
      <4>3. u \in Users(LockPath[t][Sqt!Root]) /\ TicketOn(u, LockPath[t][Sqt!Root]) = nodeCurrent[LockPath[t][Sqt!Root]]
        BY <1>1, <4>1, <4>2, HolderTicket DEF SqtInv
      <4>4. t \in Users(LockPath[t][Sqt!Root])
        BY <1>1, <2>2, <3>1 DEF Users, Uses
      <4>5. TicketOn(t, LockPath[t][Sqt!Root]) = nodeCurrent[LockPath[t][Sqt!Root]]
        BY <2>2, <3>1 DEF TicketOn, Sqt!Node
      <4> QED
        BY <4>1, <4>2, <4>3, <4>4, <4>5 DEF SqtInv, Discipline
    <3> QED
      BY <1>1, <3>1, <3>2 DEF Sqt!Lock!Enter, Sqt!Where
  <2> QED
    BY <1>4, <2>1, <2>2 DEF Sqt!Poll
<1>5. ASSUME NEW t \in Tasks, Sqt!GiveLoad(t)
      PROVE  UNCHANGED Sqt!Where
  BY <1>1, <1>5 DEF Sqt!GiveLoad, Sqt!Where
<1>6. ASSUME NEW t \in Tasks, Sqt!GiveStore(t)
      PROVE  Sqt!Lock!Exit(t) \/ UNCHANGED Sqt!Where
  <2>1. /\ at[t] = "store"
        /\ at' = [at EXCEPT ![t] = "load"] \/ at' = [at EXCEPT ![t] = "idle"]
    BY <1>6 DEF Sqt!GiveStore
  <2> QED
    BY <1>1, <2>1 DEF Sqt!Lock!Exit, Sqt!Where
<1>7. CASE UNCHANGED Sqt!vars
  BY <1>7 DEF Sqt!vars, Sqt!Where
<1> QED
  BY <1>3, <1>4, <1>5, <1>6, <1>7 DEF Sqt!Next, Sqt!Step, Sqt!Lock!Next

-----------------------------------------------------------------------------
(* The simple barrier                                                      *)

Late(t) == at[t] = "poll" /\ expected[t] = sense
Last(t) == at[t] \in {"restore", "flip"}
ArrivedTasks == {t \in BarrierTasks : Simple!ArrivedNow(t)}

\* The round a task is in, for the flag.
Current(t) == IF Late(t) THEN round[t] + 1 ELSE round[t]

\* CountNotArrived is not inductive: the flip opens the next round for all, so
\* that it must find everybody in this one.
RoundInv ==
  /\ \A t, u \in BarrierTasks : Current(t) = Current(u)
  /\ \A t \in BarrierTasks : at[t] \in {"decrement", "restore", "flip"} => expected[t] # sense
  /\ \A t \in BarrierTasks : at[t] # "out" => round[t] < NbRounds
  /\ \A t, u \in BarrierTasks : Last(t) /\ u # t => Simple!ArrivedNow(u)
  /\ \A t \in BarrierTasks : at[t] = "flip" => count = Simple!ntasks

SimpleInv == Simple!TypeOK /\ RoundInv /\ Simple!CountNotArrived

-----------------------------------------------------------------------------

\* The tasks that arrived are some of the tasks: how many are missing.
LEMMA ArrivedCardinality ==
  ASSUME Simple!SimpleBarrierAssumption
  PROVE  /\ IsFiniteSet(ArrivedTasks) /\ ArrivedTasks \subseteq BarrierTasks
         /\ Simple!ntasks \in Nat \ {0} /\ NbRounds \in Nat
         /\ Cardinality(ArrivedTasks) \in 0 .. Simple!ntasks
         /\ Cardinality(ArrivedTasks) = Simple!ntasks => ArrivedTasks = BarrierTasks
<1>1. ArrivedTasks \subseteq BarrierTasks /\ IsFiniteSet(BarrierTasks) /\ BarrierTasks # {}
  BY SameSets DEF ArrivedTasks, Simple!SimpleBarrierAssumption
<1>2. Simple!ntasks \in Nat /\ Simple!ntasks # 0
  BY <1>1, SameSets, FS_CardinalityType, FS_EmptySet DEF Simple!ntasks
<1>3. /\ IsFiniteSet(ArrivedTasks) /\ Cardinality(ArrivedTasks) <= Simple!ntasks
      /\ Cardinality(ArrivedTasks) = Simple!ntasks => ArrivedTasks = BarrierTasks
  BY <1>1, SameSets, FS_Subset DEF Simple!ntasks
<1>4. Cardinality(ArrivedTasks) \in Nat
  BY <1>3, FS_CardinalityType
<1> QED
  BY <1>1, <1>2, <1>3, <1>4 DEF Simple!SimpleBarrierAssumption

\* A task that enters a wait finds the round open.
LEMMA SimpleReadSense ==
  ASSUME Simple!SimpleBarrierAssumption, SimpleInv, NEW t \in BarrierTasks, Simple!ReadSense(t)
  PROVE  SimpleInv'
<1>1. /\ at \in [BarrierTasks -> {"out", "decrement", "restore", "flip", "poll"}]
      /\ expected \in [BarrierTasks -> {0, 1}] /\ round \in [BarrierTasks -> 0 .. NbRounds]
      /\ sense \in {0, 1} /\ at[t] = "out" /\ UNCHANGED <<count, sense, round>>
      /\ at' = [at EXCEPT ![t] = "decrement"] /\ round[t] < NbRounds
      /\ expected' = [expected EXCEPT ![t] = IF sense = 0 THEN 1 ELSE 0]
  BY DEF SimpleInv, Simple!TypeOK, Simple!ReadSense
<1>2. Simple!TypeOK'
  BY <1>1 DEF SimpleInv, Simple!TypeOK, Simple!ntasks
<1>3. \A u \in BarrierTasks : /\ Simple!ArrivedNow(u)' = Simple!ArrivedNow(u) /\ Current(u)' = Current(u)
                       /\ Last(u)' = Last(u)
  BY <1>1 DEF Simple!ArrivedNow, Current, Late, Last
<1>4. RoundInv'
  BY <1>1, <1>3 DEF SimpleInv, RoundInv, Last
<1>5. Simple!CountNotArrived'
  <2>1. {u \in BarrierTasks : Simple!ArrivedNow(u)}' = {u \in BarrierTasks : Simple!ArrivedNow(u)}
    BY <1>3
  <2> QED
    BY <1>1, <2>1 DEF SimpleInv, Simple!CountNotArrived
<1> QED
  BY <1>2, <1>4, <1>5 DEF SimpleInv

\* The decrement counts the task, and finds out whether it is the last one.
LEMMA SimpleDecrement ==
  ASSUME Simple!SimpleBarrierAssumption, SimpleInv, NEW t \in BarrierTasks, Simple!Decrement(t)
  PROVE  SimpleInv'
<1> DEFINE A == Cardinality(ArrivedTasks)
<1>1. /\ at \in [BarrierTasks -> {"out", "decrement", "restore", "flip", "poll"}]
      /\ expected \in [BarrierTasks -> {0, 1}] /\ round \in [BarrierTasks -> 0 .. NbRounds]
      /\ sense \in {0, 1} /\ at[t] = "decrement" /\ UNCHANGED <<sense, expected, round>>
      /\ at' = [at EXCEPT ![t] = IF count = 1 THEN "restore" ELSE "poll"]
      /\ count' = count - 1 /\ expected[t] # sense /\ round[t] < NbRounds
  BY DEF SimpleInv, Simple!TypeOK, Simple!Decrement, RoundInv
<1>2. \A u \in BarrierTasks : ~Last(u)
  BY <1>1 DEF SimpleInv, RoundInv, Last, Simple!ArrivedNow
<1>3. count = Simple!ntasks - A /\ t \notin ArrivedTasks
  BY <1>1, <1>2, SameSets DEF SimpleInv, Simple!CountNotArrived, Last, ArrivedTasks, Simple!ArrivedNow
<1>4. Simple!ntasks \in Nat /\ A \in 0 .. Simple!ntasks - 1
  BY <1>3, ArrivedCardinality
<1>5. Simple!TypeOK'
  BY <1>1, <1>3, <1>4 DEF SimpleInv, Simple!TypeOK, Simple!ntasks
<1>6. \A u \in BarrierTasks : Current(u)' = Current(u)
  BY <1>1 DEF Current, Late
<1>7. CASE count = 1
  <2>1. ArrivedTasks = BarrierTasks \ {t}
    <3>1. IsFiniteSet(BarrierTasks) /\ Cardinality(BarrierTasks \ {t}) = Simple!ntasks - 1 /\ IsFiniteSet(BarrierTasks \ {t})
      BY SameSets, FS_RemoveElement DEF Simple!SimpleBarrierAssumption, Simple!ntasks
    <3>2. ArrivedTasks \subseteq BarrierTasks \ {t} /\ A = Simple!ntasks - 1
      BY <1>3, <1>4, <1>7, ArrivedCardinality
    <3> QED
      BY <3>1, <3>2, FS_Subset
  <2>2. \A u \in BarrierTasks : u # t => Simple!ArrivedNow(u) /\ Simple!ArrivedNow(u)' /\ ~Last(u)'
    BY <1>1, <2>1 DEF ArrivedTasks, Simple!ArrivedNow, Last
  <2>3. at'[t] = "restore" /\ Last(t)'
    BY <1>1, <1>7 DEF Last
  <2>4. RoundInv'
    BY <1>1, <1>6, <2>2, <2>3 DEF SimpleInv, RoundInv, Last, Simple!ArrivedNow
  <2>5. Simple!CountNotArrived'
    BY <2>3 DEF Simple!CountNotArrived, Last
  <2> QED
    BY <1>5, <2>4, <2>5 DEF SimpleInv
<1>8. CASE count # 1
  <2>1. ArrivedTasks' = ArrivedTasks \cup {t}
    BY <1>1, <1>8 DEF ArrivedTasks, Simple!ArrivedNow
  <2>2. Cardinality(ArrivedTasks') = A + 1
    BY <1>3, <2>1, ArrivedCardinality, FS_AddElement
  <2>3. \A u \in BarrierTasks : ~Last(u)'
    BY <1>1, <1>2, <1>8 DEF Last
  <2>4. RoundInv'
    BY <1>1, <1>6, <2>3 DEF SimpleInv, RoundInv, Last
  <2>5. Simple!CountNotArrived'
    BY <1>1, <1>3, <1>4, <2>2, SameSets DEF Simple!CountNotArrived, ArrivedTasks, Simple!ntasks
  <2> QED
    BY <1>5, <2>4, <2>5 DEF SimpleInv
<1> QED
  BY <1>7, <1>8

\* The last task restores the count while all the others poll.
LEMMA SimpleRestoreCount ==
  ASSUME Simple!SimpleBarrierAssumption, SimpleInv, NEW t \in BarrierTasks, Simple!RestoreCount(t)
  PROVE  SimpleInv'
<1>1. /\ at \in [BarrierTasks -> {"out", "decrement", "restore", "flip", "poll"}]
      /\ at[t] = "restore" /\ UNCHANGED <<sense, expected, round>>
      /\ at' = [at EXCEPT ![t] = "flip"] /\ count' = Simple!ntasks
  BY DEF SimpleInv, Simple!TypeOK, Simple!RestoreCount
<1>2. Simple!TypeOK'
  BY <1>1, ArrivedCardinality DEF SimpleInv, Simple!TypeOK, Simple!ntasks
<1>3. \A u \in BarrierTasks : /\ Simple!ArrivedNow(u)' = Simple!ArrivedNow(u) /\ Current(u)' = Current(u)
                       /\ Last(u)' = Last(u)
  BY <1>1 DEF Simple!ArrivedNow, Current, Late, Last
<1>4. RoundInv'
  BY <1>1, <1>3 DEF SimpleInv, RoundInv, Last, Simple!ntasks
<1>5. Simple!CountNotArrived'
  BY <1>1 DEF Simple!CountNotArrived
<1> QED
  BY <1>2, <1>4, <1>5 DEF SimpleInv

\* The flip moves everybody to the next round at once.
LEMMA SimpleFlipSense ==
  ASSUME Simple!SimpleBarrierAssumption, SimpleInv, NEW t \in BarrierTasks, Simple!FlipSense(t)
  PROVE  SimpleInv'
<1>1. /\ at \in [BarrierTasks -> {"out", "decrement", "restore", "flip", "poll"}]
      /\ expected \in [BarrierTasks -> {0, 1}] /\ round \in [BarrierTasks -> 0 .. NbRounds]
      /\ sense \in {0, 1} /\ sense' = expected[t] /\ at[t] = "flip"
      /\ at' = [at EXCEPT ![t] = "out"] /\ round' = [round EXCEPT ![t] = @ + 1]
      /\ UNCHANGED <<count, expected>> /\ NbRounds \in Nat
  BY ArrivedCardinality DEF SimpleInv, Simple!TypeOK, Simple!FlipSense
<1>2. /\ expected[t] # sense /\ round[t] < NbRounds /\ count = Simple!ntasks
      /\ \A u \in BarrierTasks : u # t => Simple!ArrivedNow(u)
  BY <1>1 DEF SimpleInv, RoundInv, Last
<1>3. Simple!TypeOK'
  BY <1>1, <1>2 DEF SimpleInv, Simple!TypeOK, Simple!ntasks
<1>4. \A u \in BarrierTasks : u # t => /\ at'[u] = "poll" /\ Late(u)' /\ round'[u] = round[u]
                                /\ Current(u)' = Current(u) + 1
  BY <1>1, <1>2 DEF Simple!ArrivedNow, Late, Current
<1>5. Current(t)' = Current(t) + 1 /\ at'[t] = "out"
  BY <1>1 DEF Late, Current
<1>6. \A u \in BarrierTasks : ~Simple!ArrivedNow(u)' /\ ~Last(u)'
  BY <1>1, <1>4, <1>5 DEF Simple!ArrivedNow, Late, Last
<1>7. RoundInv'
  <2>1. \A u, v \in BarrierTasks : Current(u)' = Current(v)'
    BY <1>4, <1>5 DEF SimpleInv, RoundInv
  <2>2. \A u \in BarrierTasks : at'[u] # "out" => round'[u] < NbRounds
    BY <1>1, <1>2, <1>4, <1>5 DEF SimpleInv, RoundInv, Simple!ArrivedNow
  <2>3. \A u \in BarrierTasks : at'[u] \notin {"decrement", "restore", "flip"}
    BY <1>4, <1>5
  <2> QED
    BY <1>6, <2>1, <2>2, <2>3 DEF RoundInv
<1>8. Simple!CountNotArrived'
  <2>1. {u \in BarrierTasks : Simple!ArrivedNow(u)}' = {}
    BY <1>6
  <2>2. Cardinality({u \in BarrierTasks : Simple!ArrivedNow(u)}') = 0
    BY <2>1, FS_EmptySet
  <2> QED
    BY <1>1, <1>2, <2>2, ArrivedCardinality, SameSets DEF Simple!CountNotArrived, Simple!ntasks
<1> QED
  BY <1>3, <1>7, <1>8 DEF SimpleInv

\* A late task leaves; nobody counts it.
LEMMA SimplePoll ==
  ASSUME Simple!SimpleBarrierAssumption, SimpleInv, NEW t \in BarrierTasks, Simple!Poll(t)
  PROVE  SimpleInv'
<1>1. /\ at \in [BarrierTasks -> {"out", "decrement", "restore", "flip", "poll"}]
      /\ round \in [BarrierTasks -> 0 .. NbRounds] /\ NbRounds \in Nat
      /\ sense = expected[t] /\ at[t] = "poll" /\ UNCHANGED <<count, sense, expected>>
      /\ at' = [at EXCEPT ![t] = "out"] /\ round' = [round EXCEPT ![t] = @ + 1]
      /\ round[t] < NbRounds
  BY ArrivedCardinality DEF SimpleInv, Simple!TypeOK, Simple!Poll, RoundInv
<1>2. Simple!TypeOK'
  BY <1>1 DEF SimpleInv, Simple!TypeOK, Simple!ntasks
<1>3. \A u \in BarrierTasks : /\ Simple!ArrivedNow(u)' = Simple!ArrivedNow(u) /\ Current(u)' = Current(u)
                       /\ Last(u)' = Last(u)
  BY <1>1 DEF Simple!ArrivedNow, Current, Late, Last
<1>4. RoundInv'
  BY <1>1, <1>3 DEF SimpleInv, RoundInv, Last
<1>5. Simple!CountNotArrived'
  <2>1. {u \in BarrierTasks : Simple!ArrivedNow(u)}' = {u \in BarrierTasks : Simple!ArrivedNow(u)}
    BY <1>3
  <2>2. \A u \in BarrierTasks : at'[u] \notin {"restore", "flip"} => at[u] \notin {"restore", "flip"}
    BY <1>1
  <2> QED
    BY <1>1, <2>1, <2>2 DEF SimpleInv, Simple!CountNotArrived, Simple!ntasks
<1> QED
  BY <1>2, <1>4, <1>5 DEF SimpleInv

LEMMA SimplePreserved ==
  ASSUME Simple!SimpleBarrierAssumption, SimpleInv, [Simple!Next]_(Simple!vars)
  PROVE  SimpleInv'
<1>1. ASSUME NEW t \in BarrierTasks, Simple!Step(t)
      PROVE  SimpleInv'
  BY <1>1, SimpleReadSense, SimpleDecrement, SimpleRestoreCount, SimpleFlipSense, SimplePoll
     DEF Simple!Step
<1>2. CASE UNCHANGED Simple!vars
  BY <1>2 DEF Simple!vars, SimpleInv, Simple!TypeOK, RoundInv, Simple!CountNotArrived,
              Simple!ArrivedNow, Current, Late, Last, Simple!ntasks
<1> QED
  BY <1>1, <1>2 DEF Simple!Next

\* Each access of _simple_barrier_wait is a step of the abstract barrier or none.
LEMMA SimpleIsBarrier ==
  ASSUME Simple!SimpleBarrierAssumption, SimpleInv, [Simple!Next]_Simple!vars
  PROVE  [Simple!Abstract!Next]_(Simple!Abstract!vars)
<1>1. /\ at \in [BarrierTasks -> {"out", "decrement", "restore", "flip", "poll"}]
      /\ expected \in [BarrierTasks -> {0, 1}] /\ round \in [BarrierTasks -> 0 .. NbRounds]
      /\ sense \in {0, 1} /\ NbRounds \in Nat
  BY ArrivedCardinality DEF SimpleInv, Simple!TypeOK
<1>2. ASSUME NEW t \in BarrierTasks, Simple!ReadSense(t)
      PROVE  Simple!Abstract!Arrive(t)
  BY <1>1, <1>2 DEF Simple!ReadSense, Simple!Abstract!Arrive, Simple!Arrived
<1>3. ASSUME NEW t \in BarrierTasks, Simple!Decrement(t) \/ Simple!RestoreCount(t)
      PROVE  UNCHANGED Simple!Abstract!vars
  BY <1>1, <1>3 DEF Simple!Decrement, Simple!RestoreCount, Simple!Abstract!vars, Simple!Arrived
<1>4. ASSUME NEW t \in BarrierTasks, Simple!FlipSense(t) \/ Simple!Poll(t)
      PROVE  Simple!Abstract!Leave(t)
  <2>1. /\ at[t] # "out" /\ at' = [at EXCEPT ![t] = "out"]
        /\ round' = [round EXCEPT ![t] = @ + 1]
    BY <1>4 DEF Simple!FlipSense, Simple!Poll
  <2>2. Simple!Arrived' = Simple!Arrived
    BY <1>1, <2>1 DEF Simple!Arrived
  <2>3. ASSUME NEW u \in BarrierTasks
        PROVE  Simple!Arrived[u] >= Simple!Arrived[t]
    <3>1. CASE Simple!FlipSense(t)
      <4>1. u # t => Simple!ArrivedNow(u) /\ Current(u) = Current(t)
        BY <3>1 DEF Simple!FlipSense, SimpleInv, RoundInv, Last
      <4>2. u # t => round[u] = round[t] /\ at[u] = "poll"
        BY <1>1, <3>1, <4>1 DEF Simple!FlipSense, Simple!ArrivedNow, Current, Late
      <4> QED
        BY <1>1, <4>2 DEF Simple!Arrived
    <3>2. CASE Simple!Poll(t)
      <4>1. Late(t) /\ Current(t) = round[t] + 1 /\ Current(u) = Current(t)
        BY <3>2 DEF Simple!Poll, Late, Current, SimpleInv, RoundInv
      <4> QED
        BY <1>1, <3>2, <4>1 DEF Simple!Arrived, Current, Late
    <3> QED
      BY <1>4, <3>1, <3>2
  <2> QED
    BY <1>1, <2>1, <2>2, <2>3 DEF Simple!Abstract!Leave, Simple!Arrived
<1>5. CASE UNCHANGED Simple!vars
  BY <1>5 DEF Simple!vars, Simple!Abstract!vars, Simple!Arrived
<1> QED
  BY <1>2, <1>3, <1>4, <1>5 DEF Simple!Next, Simple!Step, Simple!Abstract!Next

-----------------------------------------------------------------------------
(* The distributed barrier                                                 *)

\* The number of times the level-l node of task t was flipped, told from its flag
\* and the round of the task: the flag is the parity of the number of flips.
Parity(k) == k % 2
Flips(t, l) == IF sense[BarrierPath[t][l]] = Parity(round[t]) THEN round[t] ELSE round[t] + 1

\* Task t completed its level-l node, and has not flipped it yet; it flipped it,
\* and has not restored its count yet.
Completing(t, l) == level[t] > l \/ (level[t] = l /\ at[t] = "flip")
Restoring(t, l) == level[t] = l /\ at[t] = "restore"

\* The flips of a node are the same for all, and the root is flipped first.
FlipsInv ==
  /\ \A t, u \in BarrierTasks : \A l \in SqtB!Level : BarrierPath[t][l] = BarrierPath[u][l] => Flips(t, l) = Flips(u, l)
  /\ \A t \in BarrierTasks : \A l, m \in SqtB!Level : l <= m => Flips(t, l) <= Flips(t, m)
  /\ \A t \in BarrierTasks : at[t] \in {"out", "climb", "decrement"} => Flips(t, SqtB!Root) = round[t]
  /\ \A t \in BarrierTasks : \A m \in SqtB!Level :
       \/ at[t] \in {"flip", "restore"} /\ m > level[t]
       \/ at[t] = "restore" /\ m = level[t]
       => Flips(t, m) = round[t] + 1

\* The task that completed a node finds all the others on it, or below it, waiting
\* for the same round.
AloneInv ==
  /\ \A t \in BarrierTasks : \A l \in SqtB!Level : Completing(t, l) =>
       /\ Flips(t, l) = round[t]
       /\ \A u \in BarrierTasks \ {t} : BarrierPath[u][l] = BarrierPath[t][l] =>
            at[u] = "poll" /\ level[u] <= l /\ round[u] = round[t]
  /\ \A t, u \in BarrierTasks : \A l \in SqtB!Level :
       t # u /\ BarrierPath[t][l] = BarrierPath[u][l] /\ Restoring(t, l) =>
         ~Completing(u, l) /\ ~Restoring(u, l)

\* Where a task is, and what its calls on the way expect.
PlaceInv ==
  /\ \A t \in BarrierTasks : at[t] = "out" => level[t] = 0
  /\ \A t \in BarrierTasks : at[t] # "out" => round[t] < NbRounds
  /\ \A t \in BarrierTasks : \A l \in SqtB!Level :
       l < level[t] \/ (l = level[t] /\ at[t] \notin {"out", "climb"}) =>
         expected[t][l] = Parity(round[t] + 1)

\* What is left of "number of not arrived children" when arrivals can be wiped out:
\* the count of a node never says that more children arrived than are waiting.
CountInv ==
  \A t \in BarrierTasks : \A l \in SqtB!Level :
    LET x == BarrierPath[t][l]
        W == Cardinality(SqtB!Waiting(x))
    IN  /\ Completing(t, l) => count[x] = 0
        /\ Restoring(t, l) => count[x] \in -W .. 0
        /\ ~SqtB!ResetPending(x) => count[x] \in SqtB!arity[x] - W .. SqtB!arity[x]

\* The type of the variables.
BarrierTypes ==
  /\ count \in [SqtB!Nodes -> Int]
  /\ sense \in [SqtB!Nodes -> {0, 1}]
  /\ at \in [BarrierTasks -> {"out", "climb", "decrement", "flip", "restore", "poll"}]
  /\ level \in [BarrierTasks -> SqtB!Level]
  /\ expected \in [BarrierTasks -> [SqtB!Level -> {0, 1}]]
  /\ round \in [BarrierTasks -> 0 .. NbRounds]

\* That nobody leaves early is not inductive, nor is any one of these parts.
SqtBInv == BarrierTypes /\ FlipsInv /\ AloneInv /\ PlaceInv /\ CountInv

-----------------------------------------------------------------------------

\* One more flip is the other value of the flag.
LEMMA ParityAlternates ==
  \A k \in Nat : Parity(k) \in {0, 1} /\ Parity(k + 1) = 1 - Parity(k)
BY DEF Parity

\* The levels and the nodes.
LEMMA TreeFacts ==
  ASSUME SqtB!SqtBarrierAssumption
  PROVE  /\ BarrierLevels \in Nat \ {0} /\ NbRounds \in Nat /\ SqtB!Level = 0 .. BarrierLevels - 1
         /\ SqtB!Root = BarrierLevels - 1 /\ SqtB!Root \in SqtB!Level /\ 0 \in SqtB!Level
         /\ \A t \in BarrierTasks : \A l \in SqtB!Level : BarrierPath[t][l] \in SqtB!Nodes
         /\ \A t, u \in BarrierTasks : \A l, m \in SqtB!Level : BarrierPath[t][l] = BarrierPath[u][m] => l = m
         /\ \A t, u \in BarrierTasks : BarrierPath[t][SqtB!Root] = BarrierPath[u][SqtB!Root]
         /\ \A t, u \in BarrierTasks : \A l, m \in SqtB!Level :
              l <= m /\ BarrierPath[t][l] = BarrierPath[u][l] => BarrierPath[t][m] = BarrierPath[u][m]
<1>1. BarrierLevels \in Nat \ {0} /\ NbRounds \in Nat /\ SqtB!PathsMakeATree
  BY DEF SqtB!SqtBarrierAssumption
<1>2. SqtB!Root \in SqtB!Level /\ 0 \in SqtB!Level
  BY <1>1 DEF SqtB!Root, SqtB!Level
<1>3. \A t \in BarrierTasks : \A l \in SqtB!Level : BarrierPath[t][l] \in SqtB!Nodes
  BY DEF SqtB!Nodes
<1> QED
  BY <1>1, <1>2, <1>3 DEF SqtB!PathsMakeATree, SqtB!Level, SqtB!Root

\* What the flips say of the flag.
LEMMA FlipsFacts ==
  ASSUME SqtB!SqtBarrierAssumption, BarrierTypes, NEW t \in BarrierTasks, NEW l \in SqtB!Level
  PROVE  /\ round[t] \in Nat /\ Flips(t, l) \in {round[t], round[t] + 1}
         /\ Flips(t, l) = round[t] <=> sense[BarrierPath[t][l]] = Parity(round[t])
         /\ Flips(t, l) = round[t] + 1 <=> sense[BarrierPath[t][l]] = Parity(round[t] + 1)
<1>1. round[t] \in Nat /\ sense[BarrierPath[t][l]] \in {0, 1}
  BY TreeFacts DEF BarrierTypes
<1> QED
  BY <1>1, ParityAlternates DEF Flips

\* The children of a node that wait, with the task that comes.
LEMMA WaitingFacts ==
  ASSUME SqtB!SqtBarrierAssumption, BarrierTypes, NEW x
  PROVE  /\ SqtB!Waiting(x) \subseteq BarrierTasks /\ IsFiniteSet(SqtB!Waiting(x)) /\ IsFiniteSet(BarrierTasks)
         /\ Cardinality(SqtB!Waiting(x)) \in Nat /\ Cardinality(BarrierTasks) \in Nat
         /\ Cardinality(SqtB!Waiting(x)) <= Cardinality(BarrierTasks)
<1>1. SqtB!Waiting(x) \subseteq BarrierTasks /\ IsFiniteSet(BarrierTasks)
  BY SameSets DEF SqtB!Waiting, SqtB!SqtBarrierAssumption
<1> QED
  BY <1>1, FS_Subset, FS_CardinalityType

\* The children of a level-l node: the tasks of the cluster of a leaf, or the nodes
\* below an upper node.
Children(t, l) ==
  IF l = 0 THEN {u \in BarrierTasks : BarrierPath[u][0] = BarrierPath[t][0]}
           ELSE {BarrierPath[u][l - 1] : u \in {v \in BarrierTasks : BarrierPath[v][l] = BarrierPath[t][l]}}

\* The arity of a node is the number of its children (_sqt_barrier_build).
LEMMA ArityFacts ==
  ASSUME SqtB!SqtBarrierAssumption, NEW t \in BarrierTasks, NEW l \in SqtB!Level
  PROVE  /\ IsFiniteSet(Children(t, l)) /\ Cardinality(Children(t, l)) \in Nat
         /\ SqtB!arity[BarrierPath[t][l]] = Cardinality(Children(t, l))
<1> DEFINE x == BarrierPath[t][l]
           On == {v \in BarrierTasks : BarrierPath[v][l] = BarrierPath[t][l]}
           A == {u \in BarrierTasks : BarrierPath[u][0] = x}
           B == {m \in SqtB!Nodes : \E u \in BarrierTasks, k \in SqtB!Level \ {0} : BarrierPath[u][k] = x /\ BarrierPath[u][k - 1] = m}
<1>1. SqtB!arity[x] = Cardinality(A \cup B)
  BY TreeFacts, SameSets DEF SqtB!arity
<1>2. IsFiniteSet(BarrierTasks) /\ IsFiniteSet(On)
  BY FS_Subset, SameSets DEF SqtB!SqtBarrierAssumption
<1>3. CASE l = 0
  <2>1. B = {} /\ A = Children(t, l)
    BY <1>3, TreeFacts DEF Children
  <2>2. IsFiniteSet(Children(t, l))
    BY <1>2, <1>3, FS_Subset DEF Children
  <2> QED
    BY <1>1, <2>1, <2>2, FS_CardinalityType
<1>4. CASE l # 0
  <2> DEFINE C == {BarrierPath[u][l - 1] : u \in On}
             f == [u \in On |-> BarrierPath[u][l - 1]]
  <2>1. l - 1 \in SqtB!Level /\ l \in SqtB!Level \ {0}
    BY <1>4, TreeFacts
  <2>2. A = {}
    BY <1>4, TreeFacts
  <2>3. B = C
    <3>1. ASSUME NEW m \in B
          PROVE  m \in C
      <4>1. PICK u \in BarrierTasks, k \in SqtB!Level \ {0} : BarrierPath[u][k] = x /\ BarrierPath[u][k - 1] = m
        BY <3>1
      <4>2. k = l
        BY <4>1, TreeFacts
      <4> QED
        BY <4>1, <4>2
    <3>2. ASSUME NEW u \in On
          PROVE  BarrierPath[u][l - 1] \in B
      BY <2>1, <3>2, TreeFacts
    <3> QED
      BY <3>1, <3>2
  <2>4. f \in Surjection(On, C)
    BY DEF Surjection
  <2>5. IsFiniteSet(C)
    BY <1>2, <2>4, FS_Surjection
  <2>6. C = Children(t, l)
    BY <1>4 DEF Children
  <2>7. A \cup B = Children(t, l)
    BY <2>2, <2>3, <2>6
  <2> QED
    BY <1>1, <2>5, <2>6, <2>7, FS_CardinalityType
<1> QED
  BY <1>3, <1>4

\* Two tasks on a node are at the same level; one that waits there waits for the round
\* that its flips say.
LEMMA WaitingOn ==
  ASSUME SqtB!SqtBarrierAssumption, SqtBInv, NEW t \in BarrierTasks, NEW l \in SqtB!Level,
         NEW u \in SqtB!Waiting(BarrierPath[t][l])
  PROVE  /\ u \in BarrierTasks /\ at[u] = "poll" /\ level[u] = l /\ BarrierPath[u][l] = BarrierPath[t][l]
         /\ round[u] = Flips(t, l)
<1>1. /\ u \in BarrierTasks /\ at[u] = "poll" /\ BarrierPath[u][level[u]] = BarrierPath[t][l]
      /\ expected[u][level[u]] # sense[BarrierPath[t][l]] /\ level[u] \in SqtB!Level
  BY DEF SqtB!Waiting, SqtB!Node, SqtBInv, BarrierTypes
<1>2. level[u] = l
  BY <1>1, TreeFacts
<1>3. expected[u][l] = Parity(round[u] + 1)
  BY <1>1, <1>2 DEF SqtBInv, PlaceInv
<1>4. Flips(u, l) # round[u] + 1
  BY <1>1, <1>2, <1>3, FlipsFacts DEF SqtBInv
<1>5. Flips(u, l) = round[u]
  BY <1>1, <1>4, FlipsFacts DEF SqtBInv
<1> QED
  BY <1>1, <1>2, <1>5 DEF SqtBInv, FlipsInv

\* A task on its way up finds no node above flipped, and none it comes to in the hands
\* of another task that completed it.
LEMMA OnTheWay ==
  ASSUME SqtB!SqtBarrierAssumption, SqtBInv, NEW t \in BarrierTasks,
         at[t] \in {"out", "climb", "decrement"}
  PROVE  /\ \A l \in SqtB!Level : Flips(t, l) = round[t]
         /\ \A u \in BarrierTasks : \A l \in SqtB!Level :
              BarrierPath[u][l] = BarrierPath[t][l] /\ u # t => ~Completing(u, l)
<1>1. \A l \in SqtB!Level : Flips(t, l) = round[t]
  <2> SUFFICES ASSUME NEW l \in SqtB!Level PROVE Flips(t, l) = round[t]
    OBVIOUS
  <2>1. Flips(t, l) <= Flips(t, SqtB!Root) /\ Flips(t, SqtB!Root) = round[t]
    BY TreeFacts DEF SqtBInv, FlipsInv
  <2> QED
    BY <2>1, FlipsFacts DEF SqtBInv
<1>2. ASSUME NEW u \in BarrierTasks, NEW l \in SqtB!Level, BarrierPath[u][l] = BarrierPath[t][l], u # t
      PROVE  ~Completing(u, l)
  BY <1>2 DEF SqtBInv, AloneInv
<1> QED
  BY <1>1, <1>2

\* The last arrival: when a decrement takes the count to zero, all the other tasks on
\* the node poll it or a node below it, for the same round.
LEMMA LastArrival ==
  ASSUME SqtB!SqtBarrierAssumption, SqtBInv, NEW t \in BarrierTasks, at[t] = "decrement",
         count[SqtB!Node(t)] = 1
  PROVE  /\ ~SqtB!ResetPending(SqtB!Node(t))
         /\ \A u \in BarrierTasks \ {t} : BarrierPath[u][level[t]] = SqtB!Node(t) =>
              at[u] = "poll" /\ level[u] <= level[t] /\ round[u] = round[t]
<1> DEFINE l == level[t]
           x == BarrierPath[t][l]
           W == SqtB!Waiting(x)
           S == W \cup {t}
           C == Children(t, l)
           f == [u \in S |-> IF l = 0 THEN u ELSE BarrierPath[u][l - 1]]
<1>0. l \in SqtB!Level /\ SqtB!Node(t) = x /\ l \in Nat
  BY TreeFacts DEF SqtBInv, BarrierTypes, SqtB!Node
<1>1. ~SqtB!ResetPending(x)
  <2> SUFFICES ASSUME NEW u \in BarrierTasks, NEW m \in SqtB!Level, BarrierPath[u][m] = x,
                      Completing(u, m) \/ Restoring(u, m)
               PROVE  FALSE
    BY DEF SqtB!ResetPending, Completing, Restoring
  <2>1. m = l /\ count[x] = 1
    BY <1>0, TreeFacts
  <2>2. Completing(u, l) => count[x] = 0
    BY <1>0, <2>1 DEF SqtBInv, CountInv
  <2>3. Restoring(u, l) => count[x] \in -Cardinality(W) .. 0
    BY <1>0, <2>1 DEF SqtBInv, CountInv
  <2>4. Cardinality(W) \in Nat
    BY WaitingFacts DEF SqtBInv
  <2> QED
    BY <2>1, <2>2, <2>3, <2>4
<1>2. Cardinality(C) <= Cardinality(W) + 1
  <2>1. count[x] \in SqtB!arity[x] - Cardinality(W) .. SqtB!arity[x] /\ count[x] = 1
    BY <1>0, <1>1 DEF SqtBInv, CountInv
  <2>2. Cardinality(W) \in Nat
    BY WaitingFacts DEF SqtBInv
  <2>3. Cardinality(C) \in Nat /\ SqtB!arity[x] = Cardinality(C)
    BY <1>0, ArityFacts
  <2> QED
    BY <2>1, <2>2, <2>3
<1>3. \A u \in S : /\ u \in BarrierTasks /\ level[u] = l /\ BarrierPath[u][l] = x /\ round[u] = round[t]
                   /\ u # t => at[u] = "poll"
  <2>1. Flips(t, l) = round[t]
    BY <1>0, OnTheWay
  <2> QED
    BY <1>0, <2>1, WaitingOn
<1>4. t \notin W
  BY DEF SqtB!Waiting
<1>5. IsFiniteSet(S) /\ Cardinality(S) = Cardinality(W) + 1
  BY <1>4, WaitingFacts, FS_AddElement DEF SqtBInv
<1>6. f \in Injection(S, C)
  <2>1. ASSUME NEW u \in S
        PROVE  f[u] \in C
    BY <1>3 DEF Children
  <2>2. ASSUME NEW u \in S, NEW v \in S, f[u] = f[v]
        PROVE  u = v
    <3>1. CASE l = 0
      BY <2>2, <3>1
    <3>2. CASE l # 0 /\ u # v
      <4>1. l - 1 \in SqtB!Level /\ level[u] > l - 1 /\ level[v] = l /\ u \in BarrierTasks /\ v \in BarrierTasks
        BY <1>0, <1>3, <3>2, TreeFacts
      <4>2. BarrierPath[u][l - 1] = BarrierPath[v][l - 1] /\ Completing(u, l - 1)
        BY <2>2, <3>2, <4>1 DEF Completing
      <4>3. level[v] <= l - 1
        BY <3>2, <4>1, <4>2 DEF SqtBInv, AloneInv
      <4> QED
        BY <1>0, <4>1, <4>3
    <3> QED
      BY <3>1, <3>2
  <2> QED
    BY <2>1, <2>2 DEF Injection, IsInjective
<1>7. f \in Surjection(S, C)
  <2>1. IsFiniteSet(C) /\ Cardinality(C) \in Nat
    BY <1>0, ArityFacts
  <2>2. Cardinality(S) <= Cardinality(C) /\ (Cardinality(S) = Cardinality(C) => f \in Surjection(S, C))
    BY <1>6, <2>1, FS_Injection
  <2>3. Cardinality(S) \in Nat
    BY <1>5, FS_CardinalityType
  <2> QED
    BY <1>2, <1>5, <2>1, <2>2, <2>3
<1>8. ASSUME NEW u \in BarrierTasks \ {t}, BarrierPath[u][l] = x
      PROVE  at[u] = "poll" /\ level[u] <= l /\ round[u] = round[t]
  <2> DEFINE c == IF l = 0 THEN u ELSE BarrierPath[u][l - 1]
  <2>1. c \in C
    BY <1>8 DEF Children
  <2>2. PICK v \in S : f[v] = c
    BY <1>7, <2>1 DEF Surjection
  <2>3. CASE u = v
    BY <1>0, <1>3, <1>8, <2>3
  <2>4. CASE u # v
    <3>1. l # 0 /\ BarrierPath[u][l - 1] = BarrierPath[v][l - 1]
      BY <2>2, <2>4
    <3>2. l - 1 \in SqtB!Level /\ level[v] > l - 1 /\ v \in BarrierTasks /\ round[v] = round[t]
      BY <1>0, <1>3, <3>1, TreeFacts
    <3>3. at[u] = "poll" /\ level[u] <= l - 1 /\ round[u] = round[v]
      BY <2>4, <3>1, <3>2, <1>8 DEF SqtBInv, AloneInv, Completing
    <3>4. level[u] \in Nat
      BY <1>8, TreeFacts DEF SqtBInv, BarrierTypes
    <3> QED
      BY <1>0, <3>2, <3>3, <3>4
  <2> QED
    BY <2>3, <2>4
<1> QED
  BY <1>0, <1>1, <1>8

-----------------------------------------------------------------------------

\* A task that enters a call expects the next flip of the node.
LEMMA ReadSenseStep ==
  ASSUME SqtB!SqtBarrierAssumption, SqtBInv, NEW t \in BarrierTasks, SqtB!ReadSense(t)
  PROVE  SqtBInv'
<1>1. /\ at[t] \in {"out", "climb"} /\ at' = [at EXCEPT ![t] = "decrement"]
      /\ at \in [BarrierTasks -> {"out", "climb", "decrement", "flip", "restore", "poll"}]
      /\ expected' = [expected EXCEPT ![t][level[t]] = IF sense[SqtB!Node(t)] = 0 THEN 1 ELSE 0]
      /\ expected \in [BarrierTasks -> [SqtB!Level -> {0, 1}]] /\ level[t] \in SqtB!Level
      /\ UNCHANGED <<count, sense, level, round>>
  BY DEF SqtB!ReadSense, SqtBInv, BarrierTypes
<1>2. BarrierTypes'
  BY <1>1 DEF SqtBInv, BarrierTypes
<1>3. \A u \in BarrierTasks : \A l \in SqtB!Level :
        /\ Flips(u, l)' = Flips(u, l) /\ Completing(u, l)' = Completing(u, l)
        /\ Restoring(u, l)' = Restoring(u, l)
  BY <1>1 DEF Flips, Completing, Restoring
<1>4. FlipsInv'
  BY <1>1, <1>3, TreeFacts DEF SqtBInv, FlipsInv
<1>5. \A u \in BarrierTasks : at'[u] = "poll" <=> at[u] = "poll"
  BY <1>1
<1>6. AloneInv'
  BY <1>1, <1>3, <1>5 DEF SqtBInv, AloneInv
<1>7. PlaceInv'
  <2>1. expected'[t][level[t]] = Parity(round[t] + 1)
    <3>1. Flips(t, level[t]) = round[t] /\ SqtB!Node(t) = BarrierPath[t][level[t]]
      BY <1>1, OnTheWay DEF SqtB!Node
    <3>2. sense[SqtB!Node(t)] = Parity(round[t]) /\ round[t] \in Nat
      BY <1>1, <3>1, FlipsFacts DEF SqtBInv
    <3> QED
      BY <1>1, <3>2, ParityAlternates
  <2>2. round[t] < NbRounds
    BY <1>1 DEF SqtB!ReadSense, SqtBInv, PlaceInv
  <2>3. ASSUME NEW u \in BarrierTasks, NEW l \in SqtB!Level,
               l < level[u] \/ (l = level[u] /\ at'[u] \notin {"out", "climb"})
        PROVE  expected'[u][l] = Parity(round[u] + 1)
    <3>1. CASE u = t /\ l = level[t]
      BY <2>1, <3>1
    <3>2. CASE ~(u = t /\ l = level[t])
      <4>1. expected'[u][l] = expected[u][l]
        BY <1>1, <3>2
      <4>2. l < level[u] \/ (l = level[u] /\ at[u] \notin {"out", "climb"})
        BY <1>1, <2>3, <3>2
      <4> QED
        BY <4>1, <4>2 DEF SqtBInv, PlaceInv
    <3> QED
      BY <3>1, <3>2
  <2> QED
    BY <1>1, <2>2, <2>3 DEF SqtBInv, PlaceInv
<1>8. CountInv'
  <2>1. \A x : SqtB!Waiting(x)' = SqtB!Waiting(x)
    BY <1>1, <1>5 DEF SqtB!Waiting, SqtB!Node
  <2>2. \A x : SqtB!ResetPending(x)' <=> SqtB!ResetPending(x)
    BY <1>3 DEF SqtB!ResetPending, Completing, Restoring
  <2> QED
    BY <1>1, <1>3, <2>1, <2>2 DEF SqtBInv, CountInv
<1> QED
  BY <1>2, <1>4, <1>6, <1>7, <1>8 DEF SqtBInv

\* A child that is not the last one: it waits, and is counted.
LEMMA DecrementPolls ==
  ASSUME SqtB!SqtBarrierAssumption, SqtBInv, NEW t \in BarrierTasks, SqtB!Decrement(t), count[SqtB!Node(t)] # 1
  PROVE  SqtBInv'
<1>0. PICK m \in SqtB!Level, x \in SqtB!Nodes : m = level[t] /\ x = BarrierPath[t][m]
  BY TreeFacts DEF SqtBInv, BarrierTypes
<1>1. /\ at[t] = "decrement" /\ at' = [at EXCEPT ![t] = "poll"]
      /\ at \in [BarrierTasks -> {"out", "climb", "decrement", "flip", "restore", "poll"}]
      /\ count' = [count EXCEPT ![x] = @ - 1] /\ count \in [SqtB!Nodes -> Int]
      /\ m \in SqtB!Level /\ x \in SqtB!Nodes
      /\ UNCHANGED <<sense, level, expected, round>>
  BY <1>0, TreeFacts DEF SqtB!Decrement, SqtBInv, BarrierTypes, SqtB!Node
<1>2. BarrierTypes'
  BY <1>0, <1>1 DEF SqtBInv, BarrierTypes
<1>3. \A u \in BarrierTasks : \A l \in SqtB!Level :
        /\ Flips(u, l)' = Flips(u, l) /\ Completing(u, l)' = Completing(u, l)
        /\ Restoring(u, l)' = Restoring(u, l)
  BY <1>0, <1>1 DEF Flips, Completing, Restoring
<1>4. FlipsInv'
  BY <1>0, <1>1, <1>3, TreeFacts DEF SqtBInv, FlipsInv
<1>5. \A u \in BarrierTasks : at[u] = "poll" => at'[u] = "poll"
  BY <1>0, <1>1
<1>6. AloneInv'
  BY <1>0, <1>1, <1>3, <1>5 DEF SqtBInv, AloneInv
<1>7. PlaceInv'
  BY <1>0, <1>1 DEF SqtBInv, PlaceInv
<1>8. CountInv'
  <2>1. \A y : y # x => SqtB!Waiting(y)' = SqtB!Waiting(y)
    BY <1>0, <1>1 DEF SqtB!Waiting, SqtB!Node
  <2>2. \A y : SqtB!ResetPending(y)' <=> SqtB!ResetPending(y)
    BY <1>3 DEF SqtB!ResetPending, Completing, Restoring
  <2>3. SqtB!Waiting(x)' = SqtB!Waiting(x) \cup {t} /\ t \notin SqtB!Waiting(x)
    <3>1. Flips(t, m) = round[t] /\ round[t] \in Nat
      BY <1>0, <1>1, OnTheWay, FlipsFacts DEF SqtBInv
    <3>2. sense[x] = Parity(round[t]) /\ expected[t][m] = Parity(round[t] + 1)
      BY <1>0, <1>1, <3>1, FlipsFacts DEF SqtBInv, PlaceInv
    <3>3. expected[t][m] # sense[x]
      BY <3>1, <3>2, ParityAlternates
    <3> QED
      BY <1>0, <1>1, <3>3 DEF SqtB!Waiting, SqtB!Node
  <2>4. Cardinality(SqtB!Waiting(x)') = Cardinality(SqtB!Waiting(x)) + 1 /\ Cardinality(SqtB!Waiting(x)) \in Nat
    BY <2>3, WaitingFacts, FS_AddElement DEF SqtBInv
  <2> SUFFICES ASSUME NEW u \in BarrierTasks, NEW l \in SqtB!Level
               PROVE  LET y == BarrierPath[u][l]
                          W == Cardinality(SqtB!Waiting(y)')
                      IN  /\ Completing(u, l) => count'[y] = 0
                          /\ Restoring(u, l) => count'[y] \in -W .. 0
                          /\ ~SqtB!ResetPending(y) => count'[y] \in SqtB!arity[y] - W .. SqtB!arity[y]
    BY <1>3, <2>2 DEF CountInv
  <2>5. CASE BarrierPath[u][l] # x
    BY <1>0, <1>1, <2>1, <2>5 DEF SqtBInv, CountInv
  <2>6. CASE BarrierPath[u][l] = x
    <3>1. l = m /\ ~Completing(u, l)
      <4>1. l = m
        BY <1>0, <1>1, <2>6, TreeFacts
      <4>2. u # t => ~Completing(u, l)
        BY <1>0, <1>1, <2>6, <4>1, OnTheWay
      <4>3. ~Completing(t, m)
        BY <1>0, <1>1, TreeFacts DEF Completing
      <4> QED
        BY <4>1, <4>2, <4>3
    <3>2. count'[x] = count[x] - 1 /\ count[x] \in Int
      BY <1>0, <1>1
    <3>3. SqtB!arity[x] \in Nat
      BY <1>0, <1>1, ArityFacts
    <3>4. Restoring(u, l) => count[x] \in -Cardinality(SqtB!Waiting(x)) .. 0
      BY <2>6 DEF SqtBInv, CountInv
    <3>5. ~SqtB!ResetPending(x) => count[x] \in SqtB!arity[x] - Cardinality(SqtB!Waiting(x)) .. SqtB!arity[x]
      BY <1>0, <1>1 DEF SqtBInv, CountInv
    <3> QED
      BY <2>4, <2>6, <3>1, <3>2, <3>3, <3>4, <3>5
  <2> QED
    BY <2>5, <2>6
<1> QED
  BY <1>2, <1>4, <1>6, <1>7, <1>8 DEF SqtBInv

\* The last child: it goes on to the parent, or opens the barrier at the root. All the
\* others wait for it.
LEMMA DecrementCompletes ==
  ASSUME SqtB!SqtBarrierAssumption, SqtBInv, NEW t \in BarrierTasks, SqtB!Decrement(t), count[SqtB!Node(t)] = 1
  PROVE  SqtBInv'
<1>0. PICK m \in SqtB!Level, x \in SqtB!Nodes : m = level[t] /\ x = BarrierPath[t][m]
  BY TreeFacts DEF SqtBInv, BarrierTypes
<1>1. /\ at[t] = "decrement" /\ count' = [count EXCEPT ![x] = @ - 1] /\ count \in [SqtB!Nodes -> Int]
      /\ at \in [BarrierTasks -> {"out", "climb", "decrement", "flip", "restore", "poll"}]
      /\ m \in SqtB!Level /\ x \in SqtB!Nodes /\ level \in [BarrierTasks -> SqtB!Level] /\ SqtB!Node(t) = x /\ count'[x] = 0
      /\ UNCHANGED <<sense, expected, round>>
      /\ \/ /\ m < SqtB!Root /\ at' = [at EXCEPT ![t] = "climb"]
            /\ level' = [level EXCEPT ![t] = m + 1] /\ m + 1 \in SqtB!Level
         \/ m = SqtB!Root /\ at' = [at EXCEPT ![t] = "flip"] /\ level' = level
  <2>1. /\ count \in [SqtB!Nodes -> Int] /\ level \in [BarrierTasks -> SqtB!Level] /\ SqtB!Node(t) = x
        /\ at \in [BarrierTasks -> {"out", "climb", "decrement", "flip", "restore", "poll"}]
    BY <1>0 DEF SqtBInv, BarrierTypes, SqtB!Node
  <2>2. m < SqtB!Root => m + 1 \in SqtB!Level
    BY TreeFacts
  <2>3. count' = [count EXCEPT ![x] = @ - 1] /\ count[x] = 1
    BY <2>1 DEF SqtB!Decrement
  <2>4. count'[x] = 0
    BY <2>1, <2>3
  <2> QED
    BY <1>0, <2>1, <2>2, <2>3, <2>4 DEF SqtB!Decrement
<1>2. BarrierTypes'
  <2>1. count' \in [SqtB!Nodes -> Int]
    BY <1>1
  <2>2. level' \in [BarrierTasks -> SqtB!Level]
    BY <1>1
  <2> QED
    BY <1>1, <2>1, <2>2 DEF SqtBInv, BarrierTypes
<1>3. /\ ~SqtB!ResetPending(x)
      /\ \A u \in BarrierTasks \ {t} : BarrierPath[u][m] = x =>
            at[u] = "poll" /\ level[u] <= m /\ round[u] = round[t]
  BY <1>0, <1>1, LastArrival
<1>4. \A u \in BarrierTasks : u # t => at'[u] = at[u] /\ level'[u] = level[u]
  BY <1>0, <1>1
<1>5. \A u \in BarrierTasks : \A l \in SqtB!Level :
        /\ Flips(u, l)' = Flips(u, l)
        /\ Completing(u, l)' <=> Completing(u, l) \/ (u = t /\ l = m)
        /\ Restoring(u, l)' <=> Restoring(u, l)
  <2>1. \A u \in BarrierTasks : \A l \in SqtB!Level : Flips(u, l)' = Flips(u, l)
    BY <1>0, <1>1 DEF Flips
  <2>2. \A l \in SqtB!Level : /\ Completing(t, l)' <=> Completing(t, l) \/ l = m
                         /\ ~Restoring(t, l) /\ ~Restoring(t, l)'
    BY <1>0, <1>1, TreeFacts DEF Completing, Restoring
  <2> QED
    BY <1>4, <2>1, <2>2 DEF Completing, Restoring
<1>6. /\ \A l \in SqtB!Level : Flips(t, l) = round[t]
      /\ \A u \in BarrierTasks : \A l \in SqtB!Level : BarrierPath[u][l] = BarrierPath[t][l] /\ u # t => ~Completing(u, l)
  BY <1>0, <1>1, OnTheWay
<1>7. FlipsInv'
  <2>1. ASSUME NEW u \in BarrierTasks, NEW l \in SqtB!Level,
               \/ at'[u] \in {"flip", "restore"} /\ l > level'[u]
               \/ at'[u] = "restore" /\ l = level'[u]
        PROVE  Flips(u, l) = round[u] + 1
    <3>1. u # t
      BY <1>0, <1>1, <2>1, TreeFacts
    <3> QED
      BY <1>4, <2>1, <3>1 DEF SqtBInv, FlipsInv
  <2>2. \A u \in BarrierTasks : at'[u] \in {"out", "climb", "decrement"} => at[u] \in {"out", "climb", "decrement"}
    BY <1>0, <1>1
  <2> QED
    BY <1>1, <1>5, <2>1, <2>2, TreeFacts DEF SqtBInv, FlipsInv
<1>8. AloneInv'
  <2>1. ASSUME NEW u \in BarrierTasks, NEW l \in SqtB!Level, Completing(u, l)'
        PROVE  /\ Flips(u, l) = round[u]
               /\ \A v \in BarrierTasks \ {u} : BarrierPath[v][l] = BarrierPath[u][l] =>
                    at'[v] = "poll" /\ level'[v] <= l /\ round[v] = round[u]
    <3>1. CASE Completing(u, l)
      <4>1. /\ Flips(u, l) = round[u]
            /\ \A v \in BarrierTasks \ {u} : BarrierPath[v][l] = BarrierPath[u][l] =>
                 at[v] = "poll" /\ level[v] <= l /\ round[v] = round[u]
        BY <3>1 DEF SqtBInv, AloneInv
      <4> QED
        BY <1>0, <1>1, <1>4, <4>1
    <3>2. CASE u = t /\ l = m
      BY <1>0, <1>1, <1>3, <1>4, <1>6, <3>2
    <3> QED
      BY <1>5, <2>1, <3>1, <3>2
  <2>2. ASSUME NEW u \in BarrierTasks, NEW v \in BarrierTasks, NEW l \in SqtB!Level, u # v,
               BarrierPath[u][l] = BarrierPath[v][l], Restoring(u, l)
        PROVE  ~Completing(v, l)' /\ ~Restoring(v, l)
    <3>1. ~Completing(v, l) /\ ~Restoring(v, l)
      BY <2>2 DEF SqtBInv, AloneInv
    <3>2. ~(v = t /\ l = m)
      BY <1>0, <1>3, <2>2 DEF SqtB!ResetPending, Restoring
    <3> QED
      BY <1>5, <3>1, <3>2
  <2> QED
    BY <1>0, <1>1, <1>5, <2>1, <2>2 DEF AloneInv
<1>9. PlaceInv'
  <2>1. ASSUME NEW u \in BarrierTasks, NEW l \in SqtB!Level,
               l < level'[u] \/ (l = level'[u] /\ at'[u] \notin {"out", "climb"})
        PROVE  expected[u][l] = Parity(round[u] + 1)
    <3>1. l < level[u] \/ (l = level[u] /\ at[u] \notin {"out", "climb"})
      <4>1. CASE u = t
        BY <1>0, <1>1, <2>1, <4>1, TreeFacts
      <4>2. CASE u # t
        BY <1>4, <2>1, <4>2
      <4> QED
        BY <4>1, <4>2
    <3> QED
      BY <3>1 DEF SqtBInv, PlaceInv
  <2>2. \A u \in BarrierTasks : at'[u] = "out" => at[u] = "out" /\ level'[u] = level[u]
    BY <1>0, <1>1
  <2>3. \A u \in BarrierTasks : at'[u] # "out" => at[u] # "out"
    BY <1>0, <1>1
  <2> QED
    BY <1>0, <1>1, <2>1, <2>2, <2>3 DEF SqtBInv, PlaceInv
<1>10. CountInv'
  <2>1. \A y : SqtB!Waiting(y)' = SqtB!Waiting(y)
    BY <1>0, <1>1 DEF SqtB!Waiting, SqtB!Node
  <2>2. SqtB!ResetPending(x)'
    <3>1. Completing(t, m)'
      BY <1>0, <1>1, <1>5
    <3> QED
      BY <1>0, <1>1, <3>1 DEF SqtB!ResetPending, Completing
  <2>3. \A y : SqtB!ResetPending(y) => SqtB!ResetPending(y)'
    BY <1>5 DEF SqtB!ResetPending, Completing, Restoring
  <2> SUFFICES ASSUME NEW u \in BarrierTasks, NEW l \in SqtB!Level
               PROVE  LET y == BarrierPath[u][l]
                          W == Cardinality(SqtB!Waiting(y))
                      IN  /\ Completing(u, l)' => count'[y] = 0
                          /\ Restoring(u, l) => count'[y] \in -W .. 0
                          /\ ~SqtB!ResetPending(y)' => count'[y] \in SqtB!arity[y] - W .. SqtB!arity[y]
    BY <1>5, <2>1 DEF CountInv
  <2>5. CASE BarrierPath[u][l] # x
    <3>1. Completing(u, l)' => Completing(u, l)
      BY <1>0, <1>5, <2>5
    <3>2. ~SqtB!ResetPending(BarrierPath[u][l])' => ~SqtB!ResetPending(BarrierPath[u][l])
      BY <2>3
    <3> QED
      BY <1>0, <1>1, <2>5, <3>1, <3>2 DEF SqtBInv, CountInv
  <2>6. CASE BarrierPath[u][l] = x
    <3>1. ~Restoring(u, l)
      BY <1>3, <2>6 DEF SqtB!ResetPending, Restoring
    <3> QED
      BY <1>0, <1>1, <2>2, <2>6, <3>1
  <2> QED
    BY <2>5, <2>6
<1> QED
  BY <1>2, <1>7, <1>8, <1>9, <1>10 DEF SqtBInv

\* The flip releases all the others on the node, which are in the same round, and
\* nobody else.
LEMMA FlipSenseStep ==
  ASSUME SqtB!SqtBarrierAssumption, SqtBInv, NEW t \in BarrierTasks, SqtB!FlipSense(t)
  PROVE  SqtBInv'
<1>0. PICK m \in SqtB!Level, x \in SqtB!Nodes : m = level[t] /\ x = BarrierPath[t][m]
  BY TreeFacts DEF SqtBInv, BarrierTypes
<1>1. /\ at[t] = "flip" /\ at' = [at EXCEPT ![t] = "restore"]
      /\ at \in [BarrierTasks -> {"out", "climb", "decrement", "flip", "restore", "poll"}]
      /\ sense' = [sense EXCEPT ![x] = Parity(round[t] + 1)]
      /\ sense \in [SqtB!Nodes -> {0, 1}] /\ round[t] \in Nat
      /\ UNCHANGED <<count, level, expected, round>>
  <2>1. expected[t][m] = Parity(round[t] + 1)
    BY <1>0 DEF SqtB!FlipSense, SqtBInv, PlaceInv
  <2> QED
    BY <1>0, <2>1, FlipsFacts DEF SqtB!FlipSense, SqtBInv, BarrierTypes, SqtB!Node
<1>2. Completing(t, m) /\ ~Restoring(t, m)
  BY <1>0, <1>1 DEF Completing, Restoring
<1>3. /\ Flips(t, m) = round[t] /\ count[x] = 0
      /\ \A u \in BarrierTasks \ {t} : BarrierPath[u][m] = x =>
            at[u] = "poll" /\ level[u] <= m /\ round[u] = round[t] /\ ~Restoring(u, m)
  BY <1>0, <1>1, <1>2 DEF SqtBInv, AloneInv, CountInv, Restoring
<1>4. BarrierTypes'
  <2>1. sense' \in [SqtB!Nodes -> {0, 1}]
    BY <1>1, ParityAlternates
  <2> QED
    BY <1>1, <2>1 DEF SqtBInv, BarrierTypes
<1>5. ASSUME NEW u \in BarrierTasks, NEW l \in SqtB!Level
      PROVE  Flips(u, l)' = IF BarrierPath[u][l] = x THEN Flips(u, l) + 1 ELSE Flips(u, l)
  <2>1. CASE BarrierPath[u][l] = x
    <3>1. l = m /\ round[u] = round[t]
      BY <1>0, <1>3, <2>1, TreeFacts
    <3>2. Flips(u, l) = round[t]
      BY <1>0, <1>3, <2>1, <3>1 DEF SqtBInv, FlipsInv
    <3>3. sense'[x] = Parity(round[u] + 1) /\ Parity(round[u] + 1) # Parity(round[u])
      BY <1>1, <3>1, ParityAlternates
    <3> QED
      BY <1>1, <2>1, <3>1, <3>2, <3>3 DEF Flips
  <2>2. CASE BarrierPath[u][l] # x
    BY <1>1, <2>2 DEF Flips
  <2> QED
    BY <2>1, <2>2
<1>6. \A l \in SqtB!Level : l > m => Flips(t, l) = round[t] + 1
  BY <1>0, <1>1 DEF SqtBInv, FlipsInv
<1>7. \A u \in BarrierTasks : \A l \in SqtB!Level : Flips(u, l) \in Nat
  BY FlipsFacts DEF SqtBInv
<1>8. FlipsInv'
  <2>1. ASSUME NEW u \in BarrierTasks, NEW v \in BarrierTasks, NEW l \in SqtB!Level, BarrierPath[u][l] = BarrierPath[v][l]
        PROVE  Flips(u, l)' = Flips(v, l)'
    BY <1>5, <2>1 DEF SqtBInv, FlipsInv
  <2>2. ASSUME NEW u \in BarrierTasks, NEW l \in SqtB!Level, NEW k \in SqtB!Level, l <= k
        PROVE  Flips(u, l)' <= Flips(u, k)'
    <3>1. CASE BarrierPath[u][l] = x /\ k # l
      <4>1. l = m /\ BarrierPath[u][k] = BarrierPath[t][k] /\ k > m
        BY <1>0, <2>2, <3>1, TreeFacts
      <4>2. Flips(u, k) = round[t] + 1 /\ BarrierPath[u][k] # x
        BY <1>0, <1>6, <4>1, TreeFacts DEF SqtBInv, FlipsInv
      <4>3. Flips(u, l) = round[t]
        BY <1>0, <1>3, <3>1, <4>1 DEF SqtBInv, FlipsInv
      <4> QED
        BY <1>1, <1>5, <3>1, <4>2, <4>3
    <3>2. CASE BarrierPath[u][l] = x /\ k = l
      BY <1>5, <1>7, <3>2
    <3>3. CASE BarrierPath[u][l] # x
      <4>1. Flips(u, l) <= Flips(u, k)
        BY <2>2 DEF SqtBInv, FlipsInv
      <4> QED
        BY <1>5, <1>7, <3>3, <4>1
    <3> QED
      BY <3>1, <3>2, <3>3
  <2>3. ASSUME NEW u \in BarrierTasks, at'[u] \in {"out", "climb", "decrement"}
        PROVE  Flips(u, SqtB!Root)' = round[u]
    <3>1. u # t /\ at[u] \in {"out", "climb", "decrement"}
      BY <1>1, <2>3
    <3>2. BarrierPath[u][SqtB!Root] # x
      BY <1>0, <1>3, <3>1, TreeFacts
    <3> QED
      BY <1>5, <3>1, <3>2, TreeFacts DEF SqtBInv, FlipsInv
  <2>4. ASSUME NEW u \in BarrierTasks, NEW l \in SqtB!Level,
               \/ at'[u] \in {"flip", "restore"} /\ l > level[u]
               \/ at'[u] = "restore" /\ l = level[u]
        PROVE  Flips(u, l)' = round[u] + 1
    <3>1. CASE u = t /\ l = m
      BY <1>0, <1>1, <1>3, <1>5, <3>1
    <3>2. CASE u = t /\ l # m
      <4>1. l > m /\ BarrierPath[t][l] # x
        BY <1>0, <2>4, <3>2, TreeFacts
      <4> QED
        BY <1>5, <1>6, <3>2, <4>1
    <3>3. CASE u # t
      <4>1. BarrierPath[u][l] # x
        BY <1>0, <1>1, <1>3, <2>4, <3>3, TreeFacts
      <4>2. Flips(u, l) = round[u] + 1
        BY <1>1, <2>4, <3>3 DEF SqtBInv, FlipsInv
      <4> QED
        BY <1>5, <4>1, <4>2
    <3> QED
      BY <3>1, <3>2, <3>3
  <2> QED
    BY <1>1, <2>1, <2>2, <2>3, <2>4 DEF FlipsInv
<1>9. \A u \in BarrierTasks : \A l \in SqtB!Level :
        /\ Completing(u, l)' <=> Completing(u, l) /\ ~(u = t /\ l = m)
        /\ Restoring(u, l)' <=> Restoring(u, l) \/ (u = t /\ l = m)
  <2>1. ASSUME NEW u \in BarrierTasks, NEW l \in SqtB!Level
        PROVE  /\ Completing(u, l)' <=> Completing(u, l) /\ ~(u = t /\ l = m)
               /\ Restoring(u, l)' <=> Restoring(u, l) \/ (u = t /\ l = m)
    <3>1. CASE u = t
      BY <1>0, <1>1, <3>1, TreeFacts DEF Completing, Restoring
    <3>2. CASE u # t
      BY <1>1, <3>2 DEF Completing, Restoring
    <3> QED
      BY <3>1, <3>2
  <2> QED
    BY <2>1
<1>10. AloneInv'
  <2>1. ASSUME NEW u \in BarrierTasks, NEW l \in SqtB!Level, Completing(u, l)'
        PROVE  /\ Flips(u, l)' = round[u]
               /\ \A v \in BarrierTasks \ {u} : BarrierPath[v][l] = BarrierPath[u][l] =>
                    at'[v] = "poll" /\ level[v] <= l /\ round[v] = round[u]
    <3>1. /\ Flips(u, l) = round[u]
          /\ \A v \in BarrierTasks \ {u} : BarrierPath[v][l] = BarrierPath[u][l] =>
               at[v] = "poll" /\ level[v] <= l /\ round[v] = round[u]
      BY <1>9, <2>1 DEF SqtBInv, AloneInv
    <3>2. \A v \in BarrierTasks \ {u} : BarrierPath[v][l] = BarrierPath[u][l] => v # t
      BY <1>1, <3>1
    <3>3. BarrierPath[u][l] # x
      BY <1>0, <1>9, <2>1, <3>2, TreeFacts
    <3> QED
      BY <1>1, <1>5, <3>1, <3>2, <3>3
  <2>2. ASSUME NEW u \in BarrierTasks, NEW v \in BarrierTasks, NEW l \in SqtB!Level, u # v,
               BarrierPath[u][l] = BarrierPath[v][l], Restoring(u, l)'
        PROVE  ~Completing(v, l)' /\ ~Restoring(v, l)'
    <3>1. CASE u = t /\ l = m
      <4>1. at[v] = "poll" /\ level[v] <= m /\ level[v] \in SqtB!Level
        BY <1>0, <1>3, <2>2, <3>1 DEF SqtBInv, BarrierTypes
      <4> QED
        BY <1>9, <2>2, <3>1, <4>1, TreeFacts DEF Completing, Restoring
    <3>2. CASE ~(u = t /\ l = m)
      <4>1. ~Completing(v, l) /\ ~Restoring(v, l)
        BY <1>9, <2>2, <3>2 DEF SqtBInv, AloneInv
      <4> QED
        BY <1>2, <1>9, <4>1
    <3> QED
      BY <3>1, <3>2
  <2> QED
    BY <1>1, <2>1, <2>2 DEF AloneInv
<1>11. PlaceInv'
  BY <1>1 DEF SqtBInv, PlaceInv
<1>12. CountInv'
  <2>1. \A y \in SqtB!Nodes : y # x => SqtB!Waiting(y)' = SqtB!Waiting(y)
    BY <1>1 DEF SqtB!Waiting, SqtB!Node
  <2>2. \A y : SqtB!ResetPending(y)' <=> SqtB!ResetPending(y)
    <3>1. \A u \in BarrierTasks : \A l \in SqtB!Level :
            Completing(u, l)' \/ Restoring(u, l)' <=> Completing(u, l) \/ Restoring(u, l)
      BY <1>2, <1>9
    <3>2. \A u \in BarrierTasks : \A l \in SqtB!Level :
            (level[u] > l \/ (level[u] = l /\ at[u] \in {"flip", "restore"}))
              <=> Completing(u, l) \/ Restoring(u, l)
      BY DEF Completing, Restoring
    <3>3. \A u \in BarrierTasks : \A l \in SqtB!Level :
            (level'[u] > l \/ (level'[u] = l /\ at'[u] \in {"flip", "restore"}))
              <=> Completing(u, l)' \/ Restoring(u, l)'
      BY DEF Completing, Restoring
    <3> QED
      BY <3>1, <3>2, <3>3 DEF SqtB!ResetPending
  <2>3. SqtB!ResetPending(x)
    BY <1>0, <1>2 DEF SqtB!ResetPending, Completing
  <2>4. Cardinality(SqtB!Waiting(x)') = 0
    <3>1. ASSUME NEW u \in SqtB!Waiting(x)'
          PROVE  FALSE
      <4>1. /\ u \in BarrierTasks /\ at'[u] = "poll" /\ BarrierPath[u][level[u]] = x /\ level[u] \in SqtB!Level
            /\ expected[u][level[u]] # sense'[x]
        BY <1>1, <3>1 DEF SqtB!Waiting, SqtB!Node, SqtBInv, BarrierTypes
      <4>2. u # t /\ level[u] = m /\ round[u] = round[t] /\ at[u] = "poll"
        BY <1>0, <1>1, <1>3, <4>1, TreeFacts
      <4>3. expected[u][m] = Parity(round[t] + 1)
        BY <4>1, <4>2 DEF SqtBInv, PlaceInv
      <4> QED
        BY <1>1, <4>1, <4>2, <4>3
    <3> QED
      BY <3>1, FS_EmptySet
  <2> SUFFICES ASSUME NEW u \in BarrierTasks, NEW l \in SqtB!Level
               PROVE  LET y == BarrierPath[u][l]
                          W == Cardinality(SqtB!Waiting(y)')
                      IN  /\ Completing(u, l)' => count[y] = 0
                          /\ Restoring(u, l)' => count[y] \in -W .. 0
                          /\ ~SqtB!ResetPending(y) => count[y] \in SqtB!arity[y] - W .. SqtB!arity[y]
    BY <1>1, <2>2 DEF CountInv
  <2>5. CASE BarrierPath[u][l] # x
    <3>1. BarrierPath[u][l] \in SqtB!Nodes /\ (Completing(u, l)' => Completing(u, l))
          /\ (Restoring(u, l)' => Restoring(u, l))
      BY <1>0, <1>9, <2>5, TreeFacts
    <3> QED
      BY <2>1, <2>5, <3>1 DEF SqtBInv, CountInv
  <2>6. CASE BarrierPath[u][l] = x
    BY <1>3, <2>3, <2>4, <2>6
  <2> QED
    BY <2>5, <2>6
<1> QED
  BY <1>4, <1>8, <1>10, <1>11, <1>12 DEF SqtBInv

\* A task that returns from the call of its level, released by the flip of its node.
\* All the nodes above are flipped, and none that is not flipped is on its way.
LEMMA ReturnFacts ==
  ASSUME SqtB!SqtBarrierAssumption, SqtBInv, NEW t \in BarrierTasks, SqtB!Return(t),
         at[t] \in {"poll", "restore"}, Flips(t, level[t]) = round[t] + 1,
         UNCHANGED <<sense, expected>>
  PROVE  /\ at' \in [BarrierTasks -> {"out", "climb", "decrement", "flip", "restore", "poll"}]
         /\ level' \in [BarrierTasks -> SqtB!Level] /\ round' \in [BarrierTasks -> 0 .. NbRounds]
         /\ FlipsInv' /\ AloneInv' /\ PlaceInv'
         /\ \A u \in BarrierTasks : \A l \in SqtB!Level :
              /\ Completing(u, l)' <=> Completing(u, l)
              /\ Restoring(u, l)' <=> Restoring(u, l) /\ u # t
         /\ \A y : SqtB!Waiting(y)' = SqtB!Waiting(y)
<1>0. PICK m \in SqtB!Level, r \in 0 .. NbRounds : m = level[t] /\ r = round[t]
  BY DEF SqtBInv, BarrierTypes
<1>1. /\ at \in [BarrierTasks -> {"out", "climb", "decrement", "flip", "restore", "poll"}]
      /\ level \in [BarrierTasks -> SqtB!Level] /\ round \in [BarrierTasks -> 0 .. NbRounds]
      /\ SqtB!Level = 0 .. BarrierLevels - 1 /\ BarrierLevels \in Nat \ {0} /\ NbRounds \in Nat
      /\ UNCHANGED <<sense, expected>> /\ m \in Int /\ r \in Nat
  BY <1>0, TreeFacts DEF SqtBInv, BarrierTypes
<1>2. r < NbRounds
  BY <1>0, <1>1 DEF SqtBInv, PlaceInv
<1>3. \/ /\ m = 0 /\ at' = [at EXCEPT ![t] = "out"] /\ level' = level
         /\ round' = [round EXCEPT ![t] = r + 1]
      \/ /\ m > 0 /\ at' = [at EXCEPT ![t] = "flip"] /\ level' = [level EXCEPT ![t] = m - 1]
         /\ round' = round
  BY <1>0 DEF SqtB!Return
<1>4. /\ at' \in [BarrierTasks -> {"out", "climb", "decrement", "flip", "restore", "poll"}]
      /\ level' \in [BarrierTasks -> SqtB!Level] /\ round' \in [BarrierTasks -> 0 .. NbRounds]
  <2>1. at' \in [BarrierTasks -> {"out", "climb", "decrement", "flip", "restore", "poll"}]
    BY <1>1, <1>3
  <2>2. m > 0 => m - 1 \in SqtB!Level
    BY <1>0, <1>1
  <2>3. level' \in [BarrierTasks -> SqtB!Level]
    BY <1>1, <1>3, <2>2
  <2>4. r + 1 \in 0 .. NbRounds
    BY <1>1, <1>2
  <2>5. round' \in [BarrierTasks -> 0 .. NbRounds]
    BY <1>1, <1>3, <2>4
  <2> QED
    BY <2>1, <2>3, <2>5
<1>5. \A u \in BarrierTasks : u # t => at'[u] = at[u] /\ level'[u] = level[u] /\ round'[u] = round[u]
  BY <1>1, <1>3
<1>6. \A l \in SqtB!Level : l >= m => Flips(t, l) = r + 1
  <2> SUFFICES ASSUME NEW l \in SqtB!Level, l >= m PROVE Flips(t, l) = r + 1
    OBVIOUS
  <2>1. Flips(t, m) <= Flips(t, l) /\ Flips(t, m) = r + 1
    BY <1>0, <1>1 DEF SqtBInv, FlipsInv
  <2> QED
    BY <1>0, <2>1, FlipsFacts DEF SqtBInv
<1>7. ASSUME NEW u \in BarrierTasks, NEW l \in SqtB!Level
      PROVE  Flips(u, l)' = Flips(u, l)
  <2>1. CASE u = t /\ m = 0
    <3>1. Flips(t, l) = r + 1 /\ round'[t] = r + 1
      BY <1>0, <1>1, <1>3, <1>6, <2>1
    <3>2. sense[BarrierPath[t][l]] = Parity(r + 1)
      BY <1>0, <3>1, FlipsFacts DEF SqtBInv
    <3> QED
      BY <1>1, <2>1, <3>1, <3>2 DEF Flips
  <2>2. CASE ~(u = t /\ m = 0)
    BY <1>1, <1>3, <2>2 DEF Flips
  <2> QED
    BY <2>1, <2>2
<1>8. \A u \in BarrierTasks : \A l \in SqtB!Level :
        /\ Completing(u, l)' <=> Completing(u, l)
        /\ Restoring(u, l)' <=> Restoring(u, l) /\ u # t
  <2>1. \A l \in SqtB!Level : (Completing(t, l)' <=> Completing(t, l)) /\ ~Restoring(t, l)'
    BY <1>0, <1>1, <1>3 DEF Completing, Restoring
  <2> QED
    BY <1>5, <2>1 DEF Completing, Restoring
<1>9. FlipsInv'
  <2>1. ASSUME NEW u \in BarrierTasks, at'[u] \in {"out", "climb", "decrement"}
        PROVE  Flips(u, SqtB!Root) = round'[u]
    <3>1. CASE u = t
      BY <1>0, <1>1, <1>3, <1>6, <2>1, <3>1, TreeFacts
    <3>2. CASE u # t
      BY <1>5, <2>1, <3>2 DEF SqtBInv, FlipsInv
    <3> QED
      BY <3>1, <3>2
  <2>2. ASSUME NEW u \in BarrierTasks, NEW l \in SqtB!Level,
               \/ at'[u] \in {"flip", "restore"} /\ l > level'[u]
               \/ at'[u] = "restore" /\ l = level'[u]
        PROVE  Flips(u, l) = round'[u] + 1
    <3>1. CASE u = t
      <4>1. m > 0 /\ l > m - 1 /\ round'[t] = r
        BY <1>0, <1>1, <1>3, <2>2, <3>1
      <4> QED
        BY <1>1, <1>6, <3>1, <4>1
    <3>2. CASE u # t
      BY <1>5, <2>2, <3>2 DEF SqtBInv, FlipsInv
    <3> QED
      BY <3>1, <3>2
  <2>3. SqtB!Root \in SqtB!Level
    BY TreeFacts
  <2> QED
    BY <1>7, <2>1, <2>2, <2>3 DEF SqtBInv, FlipsInv
<1>10. AloneInv'
  <2>1. ASSUME NEW u \in BarrierTasks, NEW l \in SqtB!Level, Completing(u, l)
        PROVE  /\ Flips(u, l) = round'[u]
               /\ \A v \in BarrierTasks \ {u} : BarrierPath[v][l] = BarrierPath[u][l] =>
                    at'[v] = "poll" /\ level'[v] <= l /\ round'[v] = round'[u]
    <3>1. /\ Flips(u, l) = round[u]
          /\ \A v \in BarrierTasks \ {u} : BarrierPath[v][l] = BarrierPath[u][l] =>
               at[v] = "poll" /\ level[v] <= l /\ round[v] = round[u]
      BY <2>1 DEF SqtBInv, AloneInv
    <3>2. round'[u] = round[u]
      <4>1. CASE u = t
        <5>1. m # 0
          BY <1>0, <1>1, <2>1, <4>1 DEF Completing
        <5> QED
          BY <1>3, <4>1, <5>1
      <4> QED
        BY <1>5, <4>1
    <3>3. ASSUME NEW v \in BarrierTasks \ {u}, BarrierPath[v][l] = BarrierPath[u][l]
          PROVE  v # t
      <4> SUFFICES ASSUME v = t PROVE FALSE
        OBVIOUS
      <4>1. m <= l /\ r = round[u]
        BY <1>0, <3>1, <3>3
      <4>2. Flips(t, l) = r + 1 /\ Flips(t, l) = Flips(u, l)
        BY <1>6, <3>3, <4>1, <1>0, <1>1 DEF SqtBInv, FlipsInv
      <4> QED
        BY <1>1, <3>1, <4>1, <4>2
    <3> QED
      BY <1>5, <3>1, <3>2, <3>3
  <2> QED
    BY <1>7, <1>8, <2>1 DEF SqtBInv, AloneInv
<1>11. PlaceInv'
  <2>1. ASSUME NEW u \in BarrierTasks, NEW l \in SqtB!Level,
               l < level'[u] \/ (l = level'[u] /\ at'[u] \notin {"out", "climb"})
        PROVE  expected[u][l] = Parity(round'[u] + 1)
    <3>1. CASE u = t
      <4>1. m > 0 /\ l < m /\ round'[u] = round[u]
        BY <1>0, <1>1, <1>3, <2>1, <3>1
      <4> QED
        BY <1>0, <3>1, <4>1 DEF SqtBInv, PlaceInv
    <3>2. CASE u # t
      BY <1>5, <2>1, <3>2 DEF SqtBInv, PlaceInv
    <3> QED
      BY <3>1, <3>2
  <2>2. ASSUME NEW u \in BarrierTasks
        PROVE  /\ at'[u] = "out" => level'[u] = 0
               /\ at'[u] # "out" => round'[u] < NbRounds
    <3>1. CASE u = t
      BY <1>0, <1>1, <1>2, <1>3, <3>1
    <3>2. CASE u # t
      BY <1>5, <3>2 DEF SqtBInv, PlaceInv
    <3> QED
      BY <3>1, <3>2
  <2> QED
    BY <1>1, <2>1, <2>2 DEF PlaceInv
<1>12. ASSUME NEW y
       PROVE  SqtB!Waiting(y)' = SqtB!Waiting(y)
  <2>1. t \notin SqtB!Waiting(y)
    <3>1. CASE at[t] = "poll"
      <4>1. expected[t][m] = Parity(r + 1)
        BY <1>0, <3>1 DEF SqtBInv, PlaceInv
      <4>2. sense[BarrierPath[t][m]] = Parity(r + 1)
        BY <1>0, FlipsFacts DEF SqtBInv
      <4> QED
        BY <1>0, <4>1, <4>2 DEF SqtB!Waiting, SqtB!Node
    <3>2. CASE at[t] # "poll"
      BY <3>2 DEF SqtB!Waiting
    <3> QED
      BY <3>1, <3>2
  <2>2. t \notin SqtB!Waiting(y)'
    BY <1>1, <1>3 DEF SqtB!Waiting
  <2>3. \A u \in BarrierTasks : u # t => (u \in SqtB!Waiting(y)' <=> u \in SqtB!Waiting(y))
    BY <1>1, <1>5 DEF SqtB!Waiting, SqtB!Node
  <2>4. SqtB!Waiting(y) \subseteq BarrierTasks /\ SqtB!Waiting(y)' \subseteq BarrierTasks
    BY DEF SqtB!Waiting
  <2>5. \A u : u \in SqtB!Waiting(y)' <=> u \in SqtB!Waiting(y)
    BY <2>1, <2>2, <2>3, <2>4, Zenon
  <2> QED
    BY <2>5, Zenon
<1> QED
  BY <1>4, <1>8, <1>9, <1>10, <1>11, <1>12

\* What ResetPending is made of.
LEMMA PendingFacts ==
  ASSUME NEW y
  PROVE  /\ SqtB!ResetPending(y) <=> \E u \in BarrierTasks, l \in SqtB!Level :
                                  BarrierPath[u][l] = y /\ (Completing(u, l) \/ Restoring(u, l))
         /\ SqtB!ResetPending(y)' <=> \E u \in BarrierTasks, l \in SqtB!Level :
                                   BarrierPath[u][l] = y /\ (Completing(u, l)' \/ Restoring(u, l)')
BY DEF SqtB!ResetPending, Completing, Restoring

\* A task that sees the flip of its node leaves the call; it was not waiting any more.
LEMMA PollStep ==
  ASSUME SqtB!SqtBarrierAssumption, SqtBInv, NEW t \in BarrierTasks, SqtB!Poll(t)
  PROVE  SqtBInv'
<1>1. /\ at[t] = "poll" /\ sense[SqtB!Node(t)] = expected[t][level[t]] /\ SqtB!Return(t)
      /\ UNCHANGED <<count, sense, expected>> /\ level[t] \in SqtB!Level
  BY DEF SqtB!Poll, SqtBInv, BarrierTypes
<1>2. Flips(t, level[t]) = round[t] + 1
  <2>1. expected[t][level[t]] = Parity(round[t] + 1)
    BY <1>1 DEF SqtBInv, PlaceInv
  <2> QED
    BY <1>1, <2>1, FlipsFacts DEF SqtBInv, SqtB!Node
<1>3. BarrierTypes' /\ FlipsInv' /\ AloneInv' /\ PlaceInv'
  BY <1>1, <1>2, ReturnFacts DEF SqtBInv, BarrierTypes
<1>4. CountInv'
  <2>1. \A u \in BarrierTasks : \A l \in SqtB!Level :
          /\ Completing(u, l)' <=> Completing(u, l)
          /\ Restoring(u, l)' <=> Restoring(u, l)
    BY <1>1, <1>2, ReturnFacts DEF Restoring
  <2>2. \A y : SqtB!Waiting(y)' = SqtB!Waiting(y)
    BY <1>1, <1>2, ReturnFacts
  <2>3. \A y : SqtB!ResetPending(y)' <=> SqtB!ResetPending(y)
    BY <2>1, PendingFacts
  <2> QED
    BY <1>1, <2>1, <2>2, <2>3 DEF SqtBInv, CountInv
<1> QED
  BY <1>3, <1>4 DEF SqtBInv

\* The restore wipes out what was counted since the flip; nobody else is about to
\* restore the node.
LEMMA RestoreCountStep ==
  ASSUME SqtB!SqtBarrierAssumption, SqtBInv, NEW t \in BarrierTasks, SqtB!RestoreCount(t)
  PROVE  SqtBInv'
<1>0. PICK m \in SqtB!Level, x \in SqtB!Nodes : m = level[t] /\ x = BarrierPath[t][m]
  BY TreeFacts DEF SqtBInv, BarrierTypes
<1>1. /\ at[t] = "restore" /\ count' = [count EXCEPT ![x] = SqtB!arity[x]] /\ SqtB!Return(t)
      /\ UNCHANGED <<sense, expected>> /\ count \in [SqtB!Nodes -> Int]
  BY <1>0 DEF SqtB!RestoreCount, SqtB!Node, SqtBInv, BarrierTypes
<1>2. Flips(t, level[t]) = round[t] + 1
  BY <1>0, <1>1 DEF SqtBInv, FlipsInv
<1>3. SqtB!arity[x] \in Nat
  BY <1>0, ArityFacts
<1>4. BarrierTypes' /\ FlipsInv' /\ AloneInv' /\ PlaceInv'
  <2>1. count' \in [SqtB!Nodes -> Int]
    BY <1>1, <1>3
  <2> QED
    BY <1>1, <1>2, <2>1, ReturnFacts DEF SqtBInv, BarrierTypes
<1>5. CountInv'
  <2>1. \A u \in BarrierTasks : \A l \in SqtB!Level :
          /\ Completing(u, l)' <=> Completing(u, l)
          /\ Restoring(u, l)' <=> Restoring(u, l) /\ u # t
    BY <1>1, <1>2, ReturnFacts
  <2>2. \A y : SqtB!Waiting(y)' = SqtB!Waiting(y) /\ Cardinality(SqtB!Waiting(y)) \in Nat
    BY <1>1, <1>2, ReturnFacts, WaitingFacts DEF SqtBInv
  <2>3. Restoring(t, m)
    BY <1>0, <1>1 DEF Restoring
  <2>4. ASSUME NEW u \in BarrierTasks, NEW l \in SqtB!Level, BarrierPath[u][l] = x
        PROVE  ~Completing(u, l)' /\ ~Restoring(u, l)'
    <3>1. l = m
      BY <1>0, <2>4, TreeFacts
    <3>2. ~Completing(t, m)
      BY <1>0, <1>1, TreeFacts DEF Completing
    <3>3. u # t => ~Completing(u, l) /\ ~Restoring(u, l)
      BY <1>0, <2>3, <2>4, <3>1 DEF SqtBInv, AloneInv
    <3> QED
      BY <2>1, <3>1, <3>2, <3>3
  <2>5. ASSUME NEW y, y # x, ~SqtB!ResetPending(y)'
        PROVE  ~SqtB!ResetPending(y)
    <3> SUFFICES ASSUME NEW u \in BarrierTasks, NEW l \in SqtB!Level, BarrierPath[u][l] = y,
                        Completing(u, l) \/ Restoring(u, l)
                 PROVE  SqtB!ResetPending(y)'
      BY <2>5, PendingFacts
    <3>1. u = t => l # m
      BY <1>0, <2>5
    <3>2. ~(Restoring(u, l) /\ u = t)
      BY <1>0, <3>1 DEF Restoring
    <3> QED
      BY <2>1, <3>2, PendingFacts
  <2> SUFFICES ASSUME NEW u \in BarrierTasks, NEW l \in SqtB!Level
               PROVE  LET y == BarrierPath[u][l]
                          W == Cardinality(SqtB!Waiting(y))
                      IN  /\ Completing(u, l)' => count'[y] = 0
                          /\ Restoring(u, l)' => count'[y] \in -W .. 0
                          /\ ~SqtB!ResetPending(y)' => count'[y] \in SqtB!arity[y] - W .. SqtB!arity[y]
    BY <2>2 DEF CountInv
  <2>6. CASE BarrierPath[u][l] # x
    BY <1>1, <2>1, <2>5, <2>6 DEF SqtBInv, CountInv
  <2>7. CASE BarrierPath[u][l] = x
    BY <1>1, <1>3, <2>2, <2>4, <2>7
  <2> QED
    BY <2>6, <2>7
<1> QED
  BY <1>4, <1>5 DEF SqtBInv

\* The invariant is inductive.
LEMMA SqtBarrierPreserved ==
  ASSUME SqtB!SqtBarrierAssumption, SqtBInv, [SqtB!Next]_(SqtB!vars)
  PROVE  SqtBInv'
<1>1. ASSUME NEW t \in BarrierTasks, SqtB!Step(t)
      PROVE  SqtBInv'
  <2>1. CASE SqtB!Decrement(t)
    BY <2>1, DecrementPolls, DecrementCompletes
  <2> QED
    BY <1>1, <2>1, ReadSenseStep, FlipSenseStep, RestoreCountStep, PollStep DEF SqtB!Step
<1>2. CASE UNCHANGED SqtB!vars
  <2>1. UNCHANGED <<count, sense, at, level, expected, round>>
    BY <1>2 DEF SqtB!vars
  <2>2. BarrierTypes' /\ PlaceInv'
    BY <2>1 DEF SqtBInv, BarrierTypes, PlaceInv
  <2>3. FlipsInv' /\ AloneInv'
    BY <2>1 DEF SqtBInv, FlipsInv, AloneInv, Flips, Completing, Restoring
  <2>4. CountInv'
    BY <2>1 DEF SqtBInv, CountInv, Completing, Restoring, SqtB!Waiting, SqtB!Node, SqtB!ResetPending
  <2> QED
    BY <2>2, <2>3, <2>4 DEF SqtBInv
<1> QED
  BY <1>1, <1>2 DEF SqtB!Next

\* A barrier just built.
LEMMA SqtBarrierStarts ==
  ASSUME SqtB!SqtBarrierAssumption, SqtB!Init
  PROVE  SqtBInv
<1>1. /\ count = SqtB!arity /\ sense = [x \in SqtB!Nodes |-> 0] /\ at = [t \in BarrierTasks |-> "out"]
      /\ level = [t \in BarrierTasks |-> 0] /\ round = [t \in BarrierTasks |-> 0]
      /\ expected = [t \in BarrierTasks |-> [l \in SqtB!Level |-> 0]]
  BY DEF SqtB!Init
<1>2. \A x \in SqtB!Nodes : SqtB!arity[x] \in Nat
  <2> SUFFICES ASSUME NEW x \in SqtB!Nodes PROVE SqtB!arity[x] \in Nat
    OBVIOUS
  <2>1. PICK t \in BarrierTasks, l \in SqtB!Level : x = BarrierPath[t][l]
    BY DEF SqtB!Nodes
  <2> QED
    BY <2>1, ArityFacts
<1>3. BarrierTypes
  <2>1. count \in [SqtB!Nodes -> Int]
    BY <1>1, <1>2 DEF SqtB!arity
  <2> QED
    BY <1>1, <2>1, TreeFacts DEF BarrierTypes
<1>4. \A t \in BarrierTasks : \A l \in SqtB!Level : Flips(t, l) = 0 /\ ~Completing(t, l) /\ ~Restoring(t, l)
  BY <1>1, TreeFacts DEF Flips, Completing, Restoring, Parity
<1>5. FlipsInv
  BY <1>1, <1>4, TreeFacts DEF FlipsInv
<1>6. AloneInv
  BY <1>4 DEF AloneInv
<1>7. PlaceInv
  BY <1>1, TreeFacts DEF PlaceInv
<1>8. CountInv
  <2>1. ASSUME NEW t \in BarrierTasks, NEW l \in SqtB!Level
        PROVE  Cardinality(SqtB!Waiting(BarrierPath[t][l])) = 0
    <3>1. SqtB!Waiting(BarrierPath[t][l]) = {}
      BY <1>1 DEF SqtB!Waiting
    <3> QED
      BY <3>1, FS_EmptySet
  <2> QED
    BY <1>1, <1>2, <1>4, <2>1, TreeFacts DEF CountInv
<1> QED
  BY <1>3, <1>5, <1>6, <1>7, <1>8 DEF SqtBInv

\* The bounds of the counts, between two restores.
LEMMA SqtBarrierTypes ==
  ASSUME SqtB!SqtBarrierAssumption, SqtBInv
  PROVE  SqtB!TypeOK
<1>1. ASSUME NEW x \in SqtB!Nodes
      PROVE  count[x] \in -Cardinality(BarrierTasks) .. SqtB!arity[x]
  <2>1. PICK t \in BarrierTasks, l \in SqtB!Level : x = BarrierPath[t][l]
    BY DEF SqtB!Nodes
  <2>2. SqtB!arity[x] \in Nat /\ count[x] \in Int
    BY <2>1, ArityFacts DEF SqtBInv, BarrierTypes
  <2>3. /\ Cardinality(SqtB!Waiting(x)) \in Nat /\ Cardinality(BarrierTasks) \in Nat
        /\ Cardinality(SqtB!Waiting(x)) <= Cardinality(BarrierTasks)
    BY WaitingFacts DEF SqtBInv
  <2>4. CASE ~SqtB!ResetPending(x)
    <3>1. count[x] \in SqtB!arity[x] - Cardinality(SqtB!Waiting(x)) .. SqtB!arity[x]
      BY <2>1, <2>4 DEF SqtBInv, CountInv
    <3> QED
      BY <2>2, <2>3, <3>1
  <2>5. CASE SqtB!ResetPending(x)
    <3>1. PICK u \in BarrierTasks, k \in SqtB!Level : BarrierPath[u][k] = x /\ (Completing(u, k) \/ Restoring(u, k))
      BY <2>5 DEF SqtB!ResetPending, Completing, Restoring
    <3>2. count[x] = 0 \/ count[x] \in -Cardinality(SqtB!Waiting(x)) .. 0
      BY <3>1 DEF SqtBInv, CountInv
    <3> QED
      BY <2>2, <2>3, <3>2
  <2> QED
    BY <2>4, <2>5
<1> QED
  BY <1>1, SameSets DEF SqtBInv, BarrierTypes, SqtB!TypeOK

\* Each access of _sqt_barrier_decrement is a step of the abstract barrier or none:
\* the task that leaves found its leaf flipped, hence the root, and all the tasks
\* that have not left are in the round of this flip.
LEMMA SqtIsBarrier ==
  ASSUME SqtB!SqtBarrierAssumption, SqtBInv, [SqtB!Next]_(SqtB!vars)
  PROVE  [SqtB!Abstract!Next]_(SqtB!Abstract!vars)
<1>1. /\ at \in [BarrierTasks -> {"out", "climb", "decrement", "flip", "restore", "poll"}]
      /\ round \in [BarrierTasks -> 0 .. NbRounds] /\ level \in [BarrierTasks -> SqtB!Level] /\ NbRounds \in Nat
  BY TreeFacts DEF SqtBInv, BarrierTypes
<1>2. ASSUME NEW t \in BarrierTasks, SqtB!ReadSense(t), at[t] = "out"
      PROVE  SqtB!Abstract!Arrive(t)
  BY <1>1, <1>2 DEF SqtB!ReadSense, SqtB!Abstract!Arrive, SqtB!Arrived
<1>3. ASSUME NEW t \in BarrierTasks, at[t] # "out", at'[t] # "out", round' = round,
             \A u \in BarrierTasks : u # t => at'[u] = at[u]
      PROVE  UNCHANGED SqtB!Abstract!vars
  <2>1. SqtB!Arrived' = SqtB!Arrived
    BY <1>3 DEF SqtB!Arrived
  <2> QED
    BY <1>3, <2>1 DEF SqtB!Abstract!vars
<1>4. ASSUME NEW t \in BarrierTasks, SqtB!Poll(t) \/ SqtB!RestoreCount(t), level[t] = 0
      PROVE  SqtB!Abstract!Leave(t)
  <2>1. /\ at[t] # "out" /\ at' = [at EXCEPT ![t] = "out"]
        /\ round' = [round EXCEPT ![t] = @ + 1]
    BY <1>4 DEF SqtB!Poll, SqtB!RestoreCount, SqtB!Return
  <2>2. SqtB!Arrived' = SqtB!Arrived
    BY <1>1, <2>1 DEF SqtB!Arrived
  <2>3. Flips(t, 0) = round[t] + 1
    <3>1. CASE SqtB!Poll(t)
      <4>1. sense[BarrierPath[t][0]] = expected[t][0] /\ at[t] = "poll"
        BY <1>4, <3>1 DEF SqtB!Poll, SqtB!Node
      <4>2. expected[t][0] = Parity(round[t] + 1)
        BY <1>4, <4>1, TreeFacts DEF SqtBInv, PlaceInv
      <4> QED
        BY <4>1, <4>2, FlipsFacts, TreeFacts DEF SqtBInv
    <3>2. CASE SqtB!RestoreCount(t)
      BY <1>4, <3>2, TreeFacts DEF SqtB!RestoreCount, SqtBInv, FlipsInv
    <3> QED
      BY <1>4, <3>1, <3>2
  <2>4. Flips(t, SqtB!Root) = round[t] + 1
    <3>1. Flips(t, 0) <= Flips(t, SqtB!Root) /\ Flips(t, SqtB!Root) \in {round[t], round[t] + 1}
      BY TreeFacts, FlipsFacts DEF SqtBInv, FlipsInv
    <3> QED
      BY <1>1, <2>3, <3>1
  <2>5. ASSUME NEW u \in BarrierTasks
        PROVE  SqtB!Arrived[u] >= SqtB!Arrived[t]
    <3>1. Flips(u, SqtB!Root) = round[t] + 1
      BY <2>4, TreeFacts DEF SqtBInv, FlipsInv
    <3>2. Flips(u, SqtB!Root) \in {round[u], round[u] + 1}
      BY TreeFacts, FlipsFacts DEF SqtBInv
    <3>3. at[u] = "out" => Flips(u, SqtB!Root) = round[u]
      BY DEF SqtBInv, FlipsInv
    <3> QED
      BY <1>1, <2>1, <3>1, <3>2, <3>3 DEF SqtB!Arrived
  <2> QED
    BY <1>1, <2>1, <2>2, <2>5 DEF SqtB!Abstract!Leave, SqtB!Arrived
<1>5. CASE UNCHANGED SqtB!vars
  BY <1>5 DEF SqtB!vars, SqtB!Abstract!vars, SqtB!Arrived
<1>6. ASSUME NEW t \in BarrierTasks, SqtB!Step(t)
      PROVE  [SqtB!Abstract!Next]_(SqtB!Abstract!vars)
  <2>1. CASE SqtB!ReadSense(t) /\ at[t] = "out"
    BY <1>2, <2>1 DEF SqtB!Abstract!Next
  <2>2. CASE SqtB!ReadSense(t) /\ at[t] # "out"
    BY <1>1, <1>3, <2>2 DEF SqtB!ReadSense
  <2>3. CASE SqtB!Decrement(t)
    BY <1>1, <1>3, <2>3 DEF SqtB!Decrement
  <2>4. CASE SqtB!FlipSense(t)
    BY <1>1, <1>3, <2>4 DEF SqtB!FlipSense
  <2>5. CASE (SqtB!Poll(t) \/ SqtB!RestoreCount(t)) /\ level[t] = 0
    BY <1>4, <2>5 DEF SqtB!Abstract!Next
  <2>6. CASE (SqtB!Poll(t) \/ SqtB!RestoreCount(t)) /\ level[t] # 0
    BY <1>1, <1>3, <2>6 DEF SqtB!Poll, SqtB!RestoreCount, SqtB!Return
  <2> QED
    BY <1>6, <2>1, <2>2, <2>3, <2>4, <2>5, <2>6 DEF SqtB!Step
<1> QED
  BY <1>5, <1>6 DEF SqtB!Next

-----------------------------------------------------------------------------
(* The channel                                                             *)

\* The channel of this module is the one of the proofs.
LEMMA MwmrAssumed == ChanP!MwmrAssumption
BY SharedAssumption
   DEF Mwmr!MwmrAssumption, ChanP!MwmrAssumption, Mwmr!Users, ChanP!Users

LEMMA SameChannel ==
  /\ Mwmr!Init => ChanP!Init
  /\ [Mwmr!Next]_(Mwmr!vars) => [ChanP!Next]_(ChanP!vars)
  /\ ChanP!Content = Mwmr!Content /\ ChanP!Content' = Mwmr!Content'
  /\ ChanP!Sent = Mwmr!Sent /\ ChanP!Sent' = Mwmr!Sent'
  /\ ChanP!Got = Mwmr!Got /\ ChanP!Got' = Mwmr!Got'
  /\ ChanP!TypeOK => Mwmr!TypeOK
<1>1. Mwmr!Users = ChanP!Users /\ Mwmr!depth = ChanP!depth
  BY DEF Mwmr!Users, ChanP!Users, Mwmr!depth, ChanP!depth
<1>2. Mwmr!Init => ChanP!Init
  BY <1>1 DEF Mwmr!Init, ChanP!Init, Mwmr!Lock!Init, ChanP!Lock!Init, Mwmr!EmptyWord,
              ChanP!EmptyWord
<1>3. /\ \A t : Mwmr!Lock!Request(t) <=> ChanP!Lock!Request(t)
      /\ Mwmr!Lock!Enter <=> ChanP!Lock!Enter
      /\ Mwmr!Lock!Exit <=> ChanP!Lock!Exit
  BY <1>1 DEF Mwmr!Lock!Request, ChanP!Lock!Request, Mwmr!Lock!Enter, ChanP!Lock!Enter,
              Mwmr!Lock!Exit, ChanP!Lock!Exit, Mwmr!Lock!Queued, ChanP!Lock!Queued
<1>4. ASSUME NEW t \in Writers \cup Readers, Mwmr!Step(t)
      PROVE  ChanP!Step(t)
  <2> USE DEF Mwmr!lock, ChanP!lock, Mwmr!channel, ChanP!channel
  <2>1. Mwmr!Call(t) => ChanP!Call(t)
    BY <1>3 DEF Mwmr!Call, ChanP!Call, Mwmr!Left, ChanP!Left
  <2>2. Mwmr!GetLock(t) => ChanP!GetLock(t)
    BY <1>3 DEF Mwmr!GetLock, ChanP!GetLock
  <2>3. Mwmr!Access(t) => ChanP!Access(t)
    BY <1>1 DEF Mwmr!Access, ChanP!Access, Mwmr!TransferLength, ChanP!TransferLength
  <2>4. Mwmr!Copy(t) => ChanP!Copy(t)
    BY <1>1 DEF Mwmr!Copy, ChanP!Copy, Mwmr!WordOf, ChanP!WordOf
  <2>5. Mwmr!Update(t) => ChanP!Update(t)
    BY DEF Mwmr!Update, ChanP!Update
  <2>6. Mwmr!Unlock(t) => ChanP!Unlock(t)
    BY <1>3 DEF Mwmr!Unlock, ChanP!Unlock
  <2>7. Mwmr!Retry(t) => ChanP!Retry(t)
    BY <1>3 DEF Mwmr!Retry, ChanP!Retry
  <2> QED
    BY <1>4, <2>1, <2>2, <2>3, <2>4, <2>5, <2>6, <2>7 DEF Mwmr!Step, ChanP!Step
<1>5. Mwmr!Next => ChanP!Next
  BY <1>4 DEF Mwmr!Next, ChanP!Next, Mwmr!Users, ChanP!Users
<1>6. [Mwmr!Next]_(Mwmr!vars) => [ChanP!Next]_(ChanP!vars)
  BY <1>5 DEF Mwmr!vars, ChanP!vars, Mwmr!lock, ChanP!lock, Mwmr!channel, ChanP!channel
<1>7. ChanP!Sent = Mwmr!Sent /\ ChanP!Sent' = Mwmr!Sent'
  BY DEF ChanP!Sent, Mwmr!Sent
<1>8. ChanP!Content = Mwmr!Content /\ ChanP!Content' = Mwmr!Content'
  BY <1>1 DEF ChanP!Content, Mwmr!Content, ChanP!ItemOf, Mwmr!ItemOf
<1>9. ChanP!Got = Mwmr!Got /\ ChanP!Got' = Mwmr!Got'
  BY DEF ChanP!Got, Mwmr!Got, ChanP!ItemOf, Mwmr!ItemOf
<1>10. ChanP!Word = Mwmr!Word /\ ChanP!EmptyWord = Mwmr!EmptyWord
  BY DEF ChanP!Word, Mwmr!Word, ChanP!WordOf, Mwmr!WordOf, ChanP!EmptyWord,
         Mwmr!EmptyWord
<1>11. ChanP!TypeOK => Mwmr!TypeOK
  BY <1>1, <1>10 DEF ChanP!TypeOK, Mwmr!TypeOK
<1> QED
  BY <1>2, <1>6, <1>7, <1>8, <1>9, <1>11

-----------------------------------------------------------------------------
(* Powers of two                                                           *)

\* A set has two subsets with and without a new element for each one it had before.
LEMMA Powers ==
  /\ 2 ^ 0 = 1
  /\ \A k \in Nat : 2 ^ k \in Nat \ {0} /\ 2 ^ (k + 1) = 2 * 2 ^ k
<1> DEFINE S(k) == SUBSET (1 .. k)
<1>1. ASSUME NEW k \in Nat PROVE IsFiniteSet(S(k)) /\ Cardinality(S(k)) = 2 ^ k
  <2>1. IsFiniteSet(1 .. k) /\ Cardinality(1 .. k) = k
    BY FS_Interval
  <2> QED
    BY <2>1, FS_SUBSET
<1>2. 2 ^ 0 = 1
  <2>1. S(0) = {{}}
    BY SMT
  <2> QED
    BY <1>1, <2>1, FS_Singleton
<1>3. ASSUME NEW k \in Nat PROVE 2 ^ k \in Nat \ {0} /\ 2 ^ (k + 1) = 2 * 2 ^ k
  <2> DEFINE T == {A \cup {k + 1} : A \in S(k)}
  <2>1. S(k + 1) = S(k) \cup T
    <3>1. ASSUME NEW A \in S(k + 1) PROVE A \in S(k) \cup T
      <4>1. CASE k + 1 \in A
        <5>1. A = (A \ {k + 1}) \cup {k + 1}
          BY <4>1
        <5>2. A \ {k + 1} \subseteq 1 .. k
          <6>1. \A x \in 1 .. k + 1 : x # k + 1 => x \in 1 .. k
            BY SMT
          <6> QED
            BY <6>1
        <5> QED
          BY <5>1, <5>2
      <4>2. CASE k + 1 \notin A
        BY <4>2
      <4> QED
        BY <4>1, <4>2
    <3>2. S(k) \subseteq S(k + 1) /\ T \subseteq S(k + 1)
      <4>1. 1 .. k \subseteq 1 .. k + 1 /\ k + 1 \in 1 .. k + 1
        OBVIOUS
      <4> QED
        BY <4>1
    <3> QED
      BY <3>1, <3>2
  <2>2. S(k) \cap T = {}
    <3>1. \A A \in S(k) : k + 1 \notin A
      OBVIOUS
    <3> QED
      BY <3>1
  <2>3. IsFiniteSet(T) /\ Cardinality(T) = Cardinality(S(k))
    <3> DEFINE f == [A \in S(k) |-> A \cup {k + 1}]
    <3>1. f \in Bijection(S(k), T)
      <4>1. \A A, B \in S(k) : f[A] = f[B] => A = B
        <5>1. \A A \in S(k) : A = f[A] \ {k + 1}
          OBVIOUS
        <5> QED
          BY <5>1
      <4>2. f \in [S(k) -> T] /\ \A B \in T : \E A \in S(k) : f[A] = B
        OBVIOUS
      <4> HIDE DEF f
      <4> QED
        BY <4>1, <4>2 DEF Bijection, Injection, Surjection, IsInjective
    <3>2. ExistsBijection(S(k), T)
      BY <3>1 DEF ExistsBijection
    <3> HIDE DEF T
    <3> QED
      BY <1>1, <3>2, FS_Bijection
  <2>4. Cardinality(S(k + 1)) = Cardinality(S(k)) + Cardinality(T)
    <3> HIDE DEF S, T
    <3>1. IsFiniteSet(S(k))
      BY <1>1
    <3>2. /\ Cardinality(S(k) \cup T)
               = Cardinality(S(k)) + Cardinality(T) - Cardinality(S(k) \cap T)
      BY <2>3, <3>1, FS_Union
    <3>3. Cardinality(S(k) \cap T) = 0
      BY <2>2, FS_EmptySet
    <3>4. Cardinality(S(k)) \in Nat /\ Cardinality(T) \in Nat
      BY <2>3, <3>1, FS_CardinalityType
    <3>5. Cardinality(S(k + 1)) = Cardinality(S(k) \cup T)
      BY <2>1
    <3> QED
      BY <3>2, <3>3, <3>4, <3>5
  <2>5. {} \in S(k)
    OBVIOUS
  <2> HIDE DEF S, T
  <2>6. Cardinality(S(k)) \in Nat /\ Cardinality(S(k)) # 0
    BY <1>1, <2>5, FS_CardinalityType, FS_EmptySet
  <2>7. Cardinality(S(k + 1)) = 2 ^ (k + 1) /\ Cardinality(S(k)) = 2 ^ k
    BY <1>1
  <2> QED
    BY <2>3, <2>4, <2>6, <2>7
<1> QED
  BY <1>2, <1>3

\* An index that is too large, or too small, has a first one of its kind.
LEMMA LeastIndex ==
  ASSUME NEW S \in SUBSET Nat, S # {}
  PROVE  \E i \in S : \A j \in S : i <= j
<1>1. PICK i \in S : \A j \in S : <<j, i>> \notin OpToRel(<, Nat)
  BY NatLessThanWellFounded, WFMin
<1>2. \A j \in S : ~ (j < i)
  BY <1>1 DEF OpToRel
<1> QED
  BY <1>2, SMT

LEMMA PowersGrow ==
  ASSUME NEW i \in Nat, NEW j \in Nat, i < j
  PROVE  2 * 2 ^ i <= 2 ^ j
<1> DEFINE small == {k \in Nat : i < k /\ 2 ^ k < 2 * 2 ^ i}
<1>0. 2 ^ i \in Nat /\ 2 ^ j \in Nat
  BY Powers
<1> SUFFICES ASSUME small # {} PROVE FALSE
  <2>1. j \in small \/ 2 * 2 ^ i <= 2 ^ j
    BY <1>0
  <2> QED
    BY <2>1
<1>1. PICK k \in small : \A l \in small : k <= l
  BY LeastIndex
<1>2. k - 1 \in Nat /\ k - 1 >= i /\ k = (k - 1) + 1
  BY <1>1
<1>3. 2 ^ k = 2 * 2 ^ (k - 1) /\ 2 ^ (k - 1) \in Nat /\ 2 ^ i \in Nat \ {0} /\ 2 ^ k \in Nat
  BY <1>2, Powers
<1>4. CASE k - 1 = i
  BY <1>1, <1>3, <1>4
<1>5. CASE k - 1 > i
  <2>1. k - 1 \notin small
    BY <1>1, <1>2
  <2>2. 2 * 2 ^ i <= 2 ^ (k - 1)
    BY <1>2, <1>3, <1>5, <2>1
  <2> QED
    BY <1>1, <1>3, <2>2
<1> QED
  BY <1>2, <1>4, <1>5

\* The number of the smallest blocks in a heap.
LEMMA PowersDivide ==
  ASSUME NEW i \in Nat, NEW j \in Nat, i <= j
  PROVE  2 ^ (j - i) * 2 ^ i = 2 ^ j
<1> DEFINE wrong == {k \in Nat : i <= k /\ 2 ^ (k - i) * 2 ^ i # 2 ^ k}
<1> SUFFICES ASSUME wrong # {} PROVE FALSE
  OBVIOUS
<1>1. PICK k \in wrong : \A l \in wrong : k <= l
  BY LeastIndex
<1>2. CASE k = i
  <2>1. k - i = 0 /\ 2 ^ i \in Nat
    BY <1>2, Powers
  <2> QED
    BY <1>1, <1>2, <2>1, Powers
<1>3. CASE k > i
  <2>1. /\ k - 1 \in Nat /\ i <= k - 1 /\ k - 1 \notin wrong
        /\ k - 1 - i \in Nat /\ k - i = (k - 1 - i) + 1 /\ k = (k - 1) + 1
    BY <1>1, <1>3
  <2>2. 2 ^ (k - 1 - i) * 2 ^ i = 2 ^ (k - 1)
    BY <2>1
  <2>3. /\ 2 ^ (k - i) = 2 * 2 ^ (k - 1 - i) /\ 2 ^ k = 2 * 2 ^ (k - 1)
        /\ 2 ^ (k - 1 - i) \in Nat /\ 2 ^ i \in Nat
    BY <2>1, Powers
  <2>4. \A x, y \in Nat : (2 * x) * y = 2 * (x * y)
    OBVIOUS
  <2> QED
    BY <1>1, <2>2, <2>3, <2>4
<1> QED
  BY <1>1, <1>2, <1>3

-----------------------------------------------------------------------------
(* Division                                                                *)

LEMMA Remainder ==
  ASSUME NEW p \in Nat \ {0}, NEW q \in Nat, NEW r \in 0 .. p - 1
  PROVE  (p * q + r) % p = r /\ (p * q + r) \div p = q
OBVIOUS

LEMMA Quotient ==
  ASSUME NEW p \in Nat \ {0}, NEW b \in Nat
  PROVE  b \div p \in Nat /\ b % p \in 0 .. p - 1 /\ b = p * (b \div p) + (b % p)
<1> DEFINE above == {k \in Nat : b < p * (k + 1)}
<1>1. b \in above
  <2>1. p * (b + 1) = p * b + p /\ p * b >= b
    OBVIOUS
  <2> QED
    BY <2>1
<1>2. PICK k \in above : \A l \in above : k <= l
  BY <1>1, LeastIndex
<1>3. k \in Nat /\ p * k \in Nat /\ p * (k + 1) = p * k + p /\ b < p * k + p
  BY <1>2
<1>4. p * k <= b
  <2>1. CASE k = 0
    BY <2>1
  <2>2. CASE k # 0
    <3>1. k - 1 \in Nat /\ k - 1 \notin above /\ (k - 1) + 1 = k
      BY <1>2, <1>3, <2>2
    <3> QED
      BY <1>3, <3>1
  <2> QED
    BY <2>1, <2>2
<1> DEFINE r == b - p * k
<1>5. r \in 0 .. p - 1 /\ b = p * k + r
  BY <1>3, <1>4
<1> HIDE DEF r, above
<1>6. b % p = r /\ b \div p = k
  BY <1>3, <1>5, Remainder
<1> QED
  BY <1>3, <1>5, <1>6

\* A block of size p is the half of one of size 2p.
LEMMA Halves ==
  ASSUME NEW p \in Nat \ {0}, NEW b \in Nat
  PROVE  LET low == b - (b % p)
             pair == b - (b % (2 * p))
         IN  /\ low \in Nat /\ low % p = 0 /\ low <= b /\ b < low + p
             /\ pair \in Nat /\ pair % (2 * p) = 0 /\ pair % p = 0 /\ (pair + p) % p = 0
             /\ low = IF (low \div p) % 2 = 0 THEN pair ELSE pair + p
<1> DEFINE q == b \div p
           r == b % p
           s == q \div 2
           t == q % 2
<1>1. q \in Nat /\ r \in 0 .. p - 1 /\ b = p * q + r
  BY Quotient
<1> HIDE DEF q, r
<1>2. s \in Nat /\ t \in 0 .. 1 /\ q = 2 * s + t
  BY <1>1
<1> HIDE DEF s, t
<1>3. /\ p * q \in Nat /\ p * s \in Nat /\ p * q = 2 * (p * s) + p * t
      /\ (2 * p) * s = 2 * (p * s) /\ p * (2 * s) = 2 * (p * s)
      /\ p * t = IF t = 0 THEN 0 ELSE p
      /\ 2 * p \in Nat \ {0}
  BY <1>1, <1>2
<1>4. b - r = p * q
  BY <1>1, <1>3
<1>5. (p * q) % p = 0 /\ (p * q) \div p = q
  <2>1. (p * q + 0) % p = 0 /\ (p * q + 0) \div p = q
    BY <1>1, Remainder
  <2> QED
    BY <1>3, <2>1
<1>6. /\ p * t + r \in 0 .. 2 * p - 1 /\ b = (2 * p) * s + (p * t + r)
  BY <1>1, <1>2, <1>3
<1>7. b % (2 * p) = p * t + r
  <2> DEFINE u == p * t + r
             w == 2 * p
  <2>1. (w * s + u) % w = u
    BY <1>2, <1>3, <1>6, Remainder
  <2> QED
    BY <1>6, <2>1
<1>8. b - (b % (2 * p)) = 2 * (p * s)
  <2> DEFINE u == p * t
             v == p * s
             m == b % (2 * p)
  <2>1. u \in Nat /\ v \in Nat /\ m = u + r /\ b = 2 * v + (u + r) /\ r \in Nat
    BY <1>1, <1>3, <1>6, <1>7
  <2> HIDE DEF u, v, m
  <2>2. b - m = 2 * v
    BY <2>1
  <2> QED
    BY <2>2, Zenon DEF m, v
<1>9. /\ (2 * (p * s)) % (2 * p) = 0
      /\ (2 * (p * s)) % p = 0 /\ (2 * (p * s) + p) % p = 0
  <2>1. ((2 * p) * s + 0) % (2 * p) = 0 /\ (p * (2 * s) + 0) % p = 0
    <3>1. \A d \in Nat \ {0} : \A x \in Nat : (d * x + 0) % d = 0
      BY Remainder
    <3>2. 2 * s \in Nat
      BY <1>2
    <3> QED
      BY <1>2, <1>3, <3>1, <3>2
  <2>2. (p * (2 * s + 1) + 0) % p = 0
    BY <1>2, Remainder
  <2>3. p * (2 * s + 1) = 2 * (p * s) + p
    BY <1>2, <1>3
  <2> QED
    BY <1>3, <2>1, <2>2, <2>3
<1>10. p * q = IF t = 0 THEN 2 * (p * s) ELSE 2 * (p * s) + p
  BY <1>2, <1>3
<1>11. p * q \in Nat /\ p * q <= b /\ b < p * q + p
  BY <1>1, <1>3
<1> DEFINE low == b - (b % p)
           pair == b - (b % (2 * p))
<1>12. /\ low = p * q /\ pair = 2 * (p * s)
       /\ (low \div p) % 2 = t
  BY <1>4, <1>5, <1>8, Zenon DEF r, t
<1>13. pair \in Nat
  BY <1>3, <1>12
<1> HIDE DEF low, pair
<1>14. low = IF t = 0 THEN pair ELSE pair + p
  BY <1>10, <1>12
<1>15. low \in Nat /\ low % p = 0 /\ low <= b /\ b < low + p
  BY <1>5, <1>11, <1>12
<1>16. pair % (2 * p) = 0 /\ pair % p = 0 /\ (pair + p) % p = 0
  BY <1>9, <1>12
<1> QED
  BY <1>12, <1>13, <1>14, <1>15, <1>16 DEF low, pair

-----------------------------------------------------------------------------
(* Aligned blocks                                                          *)

\* The block of index i that contains an address, and its companion, are the two
\* halves of the block of index i + 1 that contains it.
LEMMA Buddies ==
  ASSUME NEW b \in Nat, NEW i \in Nat
  PROVE  LET low == Heap!Aligned(b, i)
             pair == Heap!Aligned(b, i + 1)
             other == Heap!Companion(b, i)
         IN  /\ low \in Nat /\ low % 2 ^ i = 0 /\ low <= b /\ b < low + 2 ^ i
             /\ other \in Nat /\ other % 2 ^ i = 0
             /\ pair \in Nat /\ pair % 2 ^ i = 0
             /\ \/ low = pair /\ other = low + 2 ^ i
                \/ low = pair + 2 ^ i /\ other = pair
<1> DEFINE p == 2 ^ i
<1>1. p \in Nat \ {0} /\ 2 ^ (i + 1) = 2 * p
  BY Powers
<1> HIDE DEF p
<1> DEFINE low == b - (b % p)
           pair == b - (b % (2 * p))
<1>2. /\ low \in Nat /\ low % p = 0 /\ low <= b /\ b < low + p
      /\ pair \in Nat /\ pair % p = 0 /\ (pair + p) % p = 0
      /\ low = IF (low \div p) % 2 = 0 THEN pair ELSE pair + p
  BY <1>1, Halves
<1>3. Heap!Aligned(b, i) = low /\ Heap!Aligned(b, i + 1) = pair
  BY <1>1 DEF Heap!Aligned, p
<1>4. Heap!Companion(b, i) = IF (low \div p) % 2 = 0 THEN low + p ELSE low - p
  BY <1>3 DEF Heap!Companion, p
<1> HIDE DEF low, pair
<1>5. \/ low = pair /\ Heap!Companion(b, i) = low + p
      \/ low = pair + p /\ Heap!Companion(b, i) = pair
  BY <1>1, <1>2, <1>4
<1>6. Heap!Companion(b, i) \in Nat /\ Heap!Companion(b, i) % p = 0
  BY <1>1, <1>2, <1>5
<1> QED
  BY <1>2, <1>3, <1>5, <1>6 DEF p

LEMMA AlignedIs ==
  ASSUME NEW b \in Nat, NEW i \in Nat, NEW x \in Nat, x % 2 ^ i = 0, x <= b, b < x + 2 ^ i
  PROVE  Heap!Aligned(b, i) = x
<1> DEFINE p == 2 ^ i
           q == x \div p
           r == b - x
<1>1. p \in Nat \ {0} /\ x % p = 0 /\ x <= b /\ b < x + p
  BY Powers
<1> HIDE DEF p
<1>2. q \in Nat /\ x = p * q + (x % p)
  BY <1>1, Quotient
<1>3. r \in 0 .. p - 1 /\ p * q \in Nat /\ x = p * q
  BY <1>1, <1>2
<1>4. b = p * q + r
  BY <1>3
<1> HIDE DEF q
<1>5. (p * q + r) % p = r
  BY <1>1, <1>2, <1>3, Remainder
<1>6. b % p = b - x
  BY <1>4, <1>5
<1>7. b - (b % p) = x
  BY <1>6
<1> QED
  BY <1>7 DEF Heap!Aligned, p

\* An aligned block is inside the larger aligned block that contains one of its addresses.
LEMMA Nested ==
  ASSUME NEW b \in Nat, NEW i \in Nat, NEW j \in Nat, i <= j
  PROVE  /\ Heap!Aligned(b, j) <= Heap!Aligned(b, i)
         /\ Heap!Aligned(b, i) + 2 ^ i <= Heap!Aligned(b, j) + 2 ^ j
<1> DEFINE Inside(k) == /\ Heap!Aligned(b, k) <= Heap!Aligned(b, i)
                        /\ Heap!Aligned(b, i) + 2 ^ i <= Heap!Aligned(b, k) + 2 ^ k
           wrong == {k \in Nat : i <= k /\ ~Inside(k)}
<1> SUFFICES ASSUME wrong # {} PROVE FALSE
  OBVIOUS
<1>1. PICK k \in wrong : \A l \in wrong : k <= l
  <2>1. wrong \in SUBSET Nat
    OBVIOUS
  <2> HIDE DEF wrong
  <2> QED
    BY <2>1, LeastIndex
<1>2. Heap!Aligned(b, i) \in Nat /\ 2 ^ i \in Nat
  BY Buddies, Powers
<1>3. CASE k = i
  BY <1>1, <1>2, <1>3
<1>4. CASE k > i
  <2> DEFINE l == k - 1
  <2>1. l \in Nat /\ i <= l /\ l \notin wrong /\ l + 1 = k
    BY <1>1, <1>4
  <2> HIDE DEF l
  <2>2. Inside(l)
    BY <2>1
  <2>3. /\ 2 ^ k = 2 * 2 ^ l /\ 2 ^ l \in Nat
    BY <2>1, Powers
  <2>4. /\ Heap!Aligned(b, l) \in Nat /\ Heap!Aligned(b, k) \in Nat
        /\ \/ Heap!Aligned(b, l) = Heap!Aligned(b, k)
           \/ Heap!Aligned(b, l) = Heap!Aligned(b, k) + 2 ^ l
    BY <2>1, Buddies
  <2>5. Inside(k)
    BY <1>2, <2>2, <2>3, <2>4
  <2> QED
    BY <1>1, <2>5
<1> QED
  BY <1>1, <1>3, <1>4

\* What is aligned for a block is aligned for its parts.
LEMMA AlignedDown ==
  ASSUME NEW x \in Nat, NEW i \in Nat, NEW j \in Nat, i <= j, x % 2 ^ j = 0
  PROVE  /\ Heap!Aligned(x, i) = x /\ x % 2 ^ i = 0 /\ Heap!Aligned(x, j) = x
         /\ \A b \in Nat : x <= b /\ b < x + 2 ^ j =>
              x <= Heap!Aligned(b, i) /\ Heap!Aligned(b, i) + 2 ^ i <= x + 2 ^ j
<1>1. 2 ^ j \in Nat \ {0}
  BY Powers
<1>2. Heap!Aligned(x, j) = x
  BY <1>1, AlignedIs
<1>3. /\ Heap!Aligned(x, i) \in Nat /\ Heap!Aligned(x, i) <= x
      /\ Heap!Aligned(x, i) % 2 ^ i = 0
  BY Buddies
<1>4. Heap!Aligned(x, j) <= Heap!Aligned(x, i)
  BY Nested
<1>5. Heap!Aligned(x, i) = x
  BY <1>2, <1>3, <1>4
<1>6. ASSUME NEW b \in Nat, x <= b, b < x + 2 ^ j
      PROVE  x <= Heap!Aligned(b, i) /\ Heap!Aligned(b, i) + 2 ^ i <= x + 2 ^ j
  <2>1. Heap!Aligned(b, j) = x
    BY <1>6, AlignedIs
  <2> QED
    BY <2>1, Nested
<1> QED
  BY <1>2, <1>3, <1>5, <1>6

\* An address is in the block that starts where it does.
LEMMA SameAligned ==
  ASSUME NEW b \in Nat, NEW c \in Nat, NEW i \in Nat, NEW j \in Nat, i <= j,
         Heap!Aligned(b, i) = Heap!Aligned(c, i)
  PROVE  Heap!Aligned(b, j) = Heap!Aligned(c, j)
<1>1. /\ Heap!Aligned(b, j) \in Nat /\ Heap!Aligned(b, j) % 2 ^ j = 0
      /\ Heap!Aligned(c, i) \in Nat /\ Heap!Aligned(c, i) <= c /\ c < Heap!Aligned(c, i) + 2 ^ i
      /\ 2 ^ i \in Nat /\ 2 ^ j \in Nat
  BY Buddies, Powers
<1>2. /\ Heap!Aligned(b, j) <= Heap!Aligned(c, i)
      /\ Heap!Aligned(c, i) + 2 ^ i <= Heap!Aligned(b, j) + 2 ^ j
  BY Nested
<1>3. Heap!Aligned(b, j) <= c /\ c < Heap!Aligned(b, j) + 2 ^ j
  BY <1>1, <1>2
<1> QED
  BY <1>1, <1>3, AlignedIs

-----------------------------------------------------------------------------
(* Tilings                                                                 *)

BlockAt(b, i) == <<Heap!Aligned(b, i), i>>

\* The parts into which _split_block divides a block of index j, and from which
\* _update_free_array makes it again.
Pieces(b, i, j) == {BlockAt(b, i)} \cup {<<Heap!Companion(b, k), k>> : k \in i .. j - 1}

LEMMA PiecesTile ==
  ASSUME NEW b \in Nat, NEW i \in Nat, NEW j \in Nat, i <= j
  PROVE  /\ \A x \in Pieces(b, i, j) :
              /\ x[1] \in Nat /\ x[2] \in i .. j /\ x = <<x[1], x[2]>> /\ x[1] % 2 ^ x[2] = 0
              /\ \A a \in Nat : Heap!Contains(x, a) => Heap!Contains(BlockAt(b, j), a)
              /\ x[1] + 2 ^ x[2] <= Heap!Aligned(b, j) + 2 ^ j
         /\ \A x, y \in Pieces(b, i, j) : \A a \in Nat :
              Heap!Contains(x, a) /\ Heap!Contains(y, a) => x = y
         /\ \A a \in Nat : Heap!Contains(BlockAt(b, j), a)
                             => \E x \in Pieces(b, i, j) : Heap!Contains(x, a)
<1> DEFINE A(k) == Heap!Aligned(b, k)
           C(k) == Heap!Companion(b, k)
           In(k, a) == A(k) <= a /\ a < A(k) + 2 ^ k
           InC(k, a) == C(k) <= a /\ a < C(k) + 2 ^ k
<1>1. \A k \in Nat : /\ A(k) \in Nat /\ C(k) \in Nat /\ 2 ^ k \in Nat \ {0}
                     /\ A(k) % 2 ^ k = 0 /\ C(k) % 2 ^ k = 0
  BY Buddies, Powers
<1>2. ASSUME NEW k \in Nat, NEW a \in Nat
      PROVE  (In(k + 1, a) <=> In(k, a) \/ InC(k, a)) /\ ~(In(k, a) /\ InC(k, a))
  <2>1. /\ \/ A(k) = A(k + 1) /\ C(k) = A(k) + 2 ^ k
           \/ A(k) = A(k + 1) + 2 ^ k /\ C(k) = A(k + 1)
        /\ 2 ^ (k + 1) = 2 * 2 ^ k
    BY Buddies, Powers
  <2>2. A(k) \in Nat /\ A(k + 1) \in Nat /\ C(k) \in Nat /\ 2 ^ k \in Nat \ {0}
    BY <1>1
  <2> HIDE DEF A, C
  <2> QED
    BY <2>1, <2>2
<1>3. ASSUME NEW k \in Nat, NEW l \in Nat, k <= l, NEW a \in Nat, In(k, a)
      PROVE  In(l, a)
  <2>1. A(l) <= A(k) /\ A(k) + 2 ^ k <= A(l) + 2 ^ l
    BY <1>3, Nested
  <2>2. A(k) \in Nat /\ A(l) \in Nat /\ 2 ^ k \in Nat /\ 2 ^ l \in Nat
    BY <1>1
  <2> HIDE DEF A
  <2> QED
    BY <1>3, <2>1, <2>2
<1>4. ASSUME NEW k \in i .. j - 1
      PROVE  /\ C(k) + 2 ^ k <= A(j) + 2 ^ j
             /\ \A a \in Nat : InC(k, a) => In(j, a)
  <2>1. k \in Nat /\ k + 1 \in Nat /\ k + 1 <= j
    OBVIOUS
  <2>2. A(k + 1) + 2 ^ (k + 1) <= A(j) + 2 ^ j
    BY <2>1, Nested
  <2>3. /\ C(k) <= A(k + 1) + 2 ^ k /\ 2 ^ (k + 1) = 2 * 2 ^ k
    <3>1. \/ A(k) = A(k + 1) /\ C(k) = A(k) + 2 ^ k
          \/ A(k) = A(k + 1) + 2 ^ k /\ C(k) = A(k + 1)
      BY <2>1, Buddies
    <3>2. A(k) \in Nat /\ A(k + 1) \in Nat /\ C(k) \in Nat /\ 2 ^ k \in Nat
      BY <1>1, <2>1
    <3> HIDE DEF A, C
    <3> QED
      BY <2>1, <3>1, <3>2, Powers
  <2>4. C(k) + 2 ^ k <= A(j) + 2 ^ j
    <3>1. /\ A(k + 1) \in Nat /\ C(k) \in Nat /\ 2 ^ k \in Nat /\ 2 ^ (k + 1) \in Nat
          /\ A(j) \in Nat /\ 2 ^ j \in Nat
      BY <1>1, <2>1
    <3> HIDE DEF A, C
    <3> QED
      BY <2>2, <2>3, <3>1
  <2>5. ASSUME NEW a \in Nat, InC(k, a) PROVE In(j, a)
    <3>1. In(k + 1, a)
      BY <1>2, <2>1, <2>5
    <3> HIDE DEF In
    <3> QED
      BY <1>3, <2>1, <3>1
  <2> QED
    BY <2>4, <2>5
<1>5. /\ \A a \in Nat : Heap!Contains(BlockAt(b, i), a) <=> In(i, a)
      /\ \A a \in Nat : Heap!Contains(BlockAt(b, j), a) <=> In(j, a)
      /\ \A k : \A a \in Nat : Heap!Contains(<<C(k), k>>, a) <=> InC(k, a)
  BY DEF Heap!Contains, BlockAt
<1>6. ASSUME NEW x \in Pieces(b, i, j)
      PROVE  /\ x[1] \in Nat /\ x[2] \in i .. j /\ x = <<x[1], x[2]>> /\ x[1] % 2 ^ x[2] = 0
             /\ \A a \in Nat : Heap!Contains(x, a) => Heap!Contains(BlockAt(b, j), a)
             /\ x[1] + 2 ^ x[2] <= A(j) + 2 ^ j
  <2>1. CASE x = BlockAt(b, i)
    <3>1. x = <<A(i), i>> /\ x[1] = A(i) /\ x[2] = i
      BY <2>1 DEF BlockAt
    <3>2. \A a \in Nat : In(i, a) => In(j, a)
      BY <1>3
    <3>3. A(i) + 2 ^ i <= A(j) + 2 ^ j
      BY Nested
    <3>4. A(i) \in Nat /\ A(i) % 2 ^ i = 0
      BY <1>1
    <3> HIDE DEF A, In
    <3> QED
      BY <1>5, <2>1, <3>1, <3>2, <3>3, <3>4
  <2>2. ASSUME NEW k \in i .. j - 1, x = <<C(k), k>>
        PROVE  /\ x[1] \in Nat /\ x[2] \in i .. j /\ x = <<x[1], x[2]>> /\ x[1] % 2 ^ x[2] = 0
               /\ \A a \in Nat : Heap!Contains(x, a) => Heap!Contains(BlockAt(b, j), a)
               /\ x[1] + 2 ^ x[2] <= A(j) + 2 ^ j
    <3>1. x[1] = C(k) /\ x[2] = k /\ k \in Nat /\ k \in i .. j
      BY <2>2
    <3> HIDE DEF C, A, In, InC
    <3> QED
      BY <1>1, <1>4, <1>5, <2>2, <3>1
  <2> QED
    BY <2>1, <2>2 DEF Pieces
<1>7. ASSUME NEW x \in Pieces(b, i, j), NEW y \in Pieces(b, i, j), NEW a \in Nat,
             Heap!Contains(x, a), Heap!Contains(y, a)
      PROVE  x = y
  <2>1. ASSUME NEW k \in i .. j - 1, In(i, a), InC(k, a) PROVE FALSE
    <3>1. k \in Nat /\ i <= k
      OBVIOUS
    <3> HIDE DEF In, InC
    <3> QED
      BY <1>2, <1>3, <2>1, <3>1
  <2>2. ASSUME NEW k \in i .. j - 1, NEW l \in i .. j - 1, k < l, InC(k, a), InC(l, a)
        PROVE  FALSE
    <3>1. k \in Nat /\ l \in Nat /\ k + 1 \in Nat /\ k + 1 <= l
      BY <2>2
    <3> HIDE DEF In, InC
    <3>2. In(l, a)
      BY <1>2, <1>3, <2>2, <3>1
    <3> QED
      BY <1>2, <2>2, <3>1, <3>2
  <2>3. \A k, l \in i .. j - 1 : InC(k, a) /\ InC(l, a) => k = l
    <3> SUFFICES ASSUME NEW k \in i .. j - 1, NEW l \in i .. j - 1, InC(k, a), InC(l, a)
                 PROVE  k = l
      OBVIOUS
    <3>1. ~(k < l) /\ ~(l < k)
      BY <2>2
    <3> QED
      BY <3>1
  <2> HIDE DEF In, InC, C
  <2>4. x = BlockAt(b, i) \/ \E k \in i .. j - 1 : x = <<C(k), k>>
    BY DEF Pieces, C
  <2>5. y = BlockAt(b, i) \/ \E k \in i .. j - 1 : y = <<C(k), k>>
    BY DEF Pieces, C
  <2> QED
    BY <1>5, <1>7, <2>1, <2>3, <2>4, <2>5
<1>8. ASSUME NEW a \in Nat, Heap!Contains(BlockAt(b, j), a)
      PROVE  \E x \in Pieces(b, i, j) : Heap!Contains(x, a)
  <2> DEFINE around == {k \in Nat : i <= k /\ In(k, a)}
  <2>1. j \in around
    BY <1>5, <1>8
  <2>2. PICK k \in around : \A l \in around : k <= l
    <3>1. around \in SUBSET Nat
      OBVIOUS
    <3> HIDE DEF around
    <3> QED
      BY <2>1, <3>1, LeastIndex
  <2>3. k \in Nat /\ i <= k /\ k <= j /\ In(k, a)
    BY <2>1, <2>2
  <2>4. CASE k = i
    BY <1>5, <2>3, <2>4 DEF Pieces
  <2>5. CASE k > i
    <3> DEFINE l == k - 1
    <3>1. l \in i .. j - 1 /\ l \in Nat /\ l + 1 = k /\ i <= l /\ l \notin around
      BY <2>2, <2>3, <2>5
    <3> HIDE DEF l
    <3>2. ~In(l, a)
      BY <3>1
    <3> HIDE DEF In, InC, around
    <3>3. InC(l, a)
      BY <1>2, <2>3, <3>1, <3>2
    <3>4. <<C(l), l>> \in Pieces(b, i, j)
      BY <3>1 DEF Pieces
    <3> QED
      BY <1>5, <3>3, <3>4
  <2> QED
    BY <2>3, <2>4, <2>5
<1> QED
  BY <1>6, <1>7, <1>8

\* A set of aligned blocks divides the addresses below a limit, without gap nor overlap.
Tiles(B, limit) ==
  /\ \A x \in B : /\ x[1] \in Nat /\ x[2] \in Nat /\ x = <<x[1], x[2]>>
                  /\ x[1] % 2 ^ x[2] = 0 /\ x[1] + 2 ^ x[2] <= limit
  /\ \A x, y \in B : \A a \in Nat : Heap!Contains(x, a) /\ Heap!Contains(y, a) => x = y
  /\ \A a \in Nat : a < limit => \E x \in B : Heap!Contains(x, a)

\* No block is empty.
LEMMA OwnBase ==
  ASSUME NEW x, x[1] \in Nat, x[2] \in Nat
  PROVE  Heap!Contains(x, x[1])
BY Powers DEF Heap!Contains

LEMMA SplitTiles ==
  ASSUME NEW B, NEW limit \in Nat, Tiles(B, limit),
         NEW b \in Nat, NEW i \in Nat, NEW j \in Nat, i <= j, BlockAt(b, j) \in B
  PROVE  /\ Tiles((B \ {BlockAt(b, j)}) \cup Pieces(b, i, j), limit)
         /\ (B \ {BlockAt(b, j)}) \cap Pieces(b, i, j) = {}
<1> DEFINE whole == BlockAt(b, j)
           others == B \ {whole}
           parts == Pieces(b, i, j)
<1>1. /\ \A x \in parts :
              /\ x[1] \in Nat /\ x[2] \in i .. j /\ x = <<x[1], x[2]>> /\ x[1] % 2 ^ x[2] = 0
              /\ \A a \in Nat : Heap!Contains(x, a) => Heap!Contains(whole, a)
              /\ x[1] + 2 ^ x[2] <= whole[1] + 2 ^ j
      /\ \A x, y \in parts : \A a \in Nat : Heap!Contains(x, a) /\ Heap!Contains(y, a) => x = y
      /\ \A a \in Nat : Heap!Contains(whole, a) => \E x \in parts : Heap!Contains(x, a)
  BY PiecesTile DEF BlockAt
<1>2. whole[1] + 2 ^ j <= limit /\ whole[1] \in Nat /\ 2 ^ j \in Nat
  BY Powers DEF Tiles, BlockAt
<1> HIDE DEF whole, parts
<1>3. \A x \in others : \A a \in Nat : ~(Heap!Contains(x, a) /\ Heap!Contains(whole, a))
  BY DEF Tiles, whole
<1>4. ASSUME NEW x \in parts
      PROVE  /\ x[1] \in Nat /\ x[2] \in Nat /\ x = <<x[1], x[2]>>
             /\ x[1] % 2 ^ x[2] = 0 /\ x[1] + 2 ^ x[2] <= limit
  <2>1. x[1] \in Nat /\ x[2] \in Nat /\ 2 ^ x[2] \in Nat
    BY <1>1, Powers
  <2> QED
    BY <1>1, <1>2, <2>1
<1>5. \A x, y \in others \cup parts : \A a \in Nat :
        Heap!Contains(x, a) /\ Heap!Contains(y, a) => x = y
  BY <1>1, <1>3 DEF Tiles
<1>6. \A a \in Nat : a < limit => \E x \in others \cup parts : Heap!Contains(x, a)
  BY <1>1 DEF Tiles
<1>7. others \cap parts = {}
  <2> SUFFICES ASSUME NEW x \in others, x \in parts PROVE FALSE
    OBVIOUS
  <2>1. Heap!Contains(x, x[1]) /\ x[1] \in Nat
    BY <1>4, OwnBase
  <2> QED
    BY <1>1, <1>3, <2>1
<1>8. Tiles(others \cup parts, limit)
  <2>1. \A x \in others : /\ x[1] \in Nat /\ x[2] \in Nat /\ x = <<x[1], x[2]>>
                          /\ x[1] % 2 ^ x[2] = 0 /\ x[1] + 2 ^ x[2] <= limit
    BY DEF Tiles
  <2> QED
    BY <1>4, <1>5, <1>6, <2>1 DEF Tiles
<1> QED
  BY <1>7, <1>8 DEF whole, parts

LEMMA MergeTiles ==
  ASSUME NEW B, NEW limit \in Nat, Tiles(B, limit),
         NEW b \in Nat, NEW i \in Nat, NEW j \in Nat, i <= j, Pieces(b, i, j) \subseteq B,
         Heap!Aligned(b, j) + 2 ^ j <= limit
  PROVE  /\ Tiles((B \ Pieces(b, i, j)) \cup {BlockAt(b, j)}, limit)
         /\ BlockAt(b, j) \notin B \ Pieces(b, i, j)
<1> DEFINE whole == BlockAt(b, j)
           parts == Pieces(b, i, j)
           others == B \ parts
<1>1. /\ \A x \in parts : \A a \in Nat : Heap!Contains(x, a) => Heap!Contains(whole, a)
      /\ \A a \in Nat : Heap!Contains(whole, a) => \E x \in parts : Heap!Contains(x, a)
  BY PiecesTile
<1>2. /\ whole[1] \in Nat /\ whole[2] \in Nat /\ whole = <<whole[1], whole[2]>>
      /\ whole[1] % 2 ^ whole[2] = 0 /\ whole[1] + 2 ^ whole[2] <= limit
  BY Buddies DEF BlockAt
<1> HIDE DEF whole, parts
<1>3. \A x \in others : \A a \in Nat : ~(Heap!Contains(x, a) /\ Heap!Contains(whole, a))
  BY <1>1 DEF Tiles, parts
<1>4. \A x, y \in others \cup {whole} : \A a \in Nat :
        Heap!Contains(x, a) /\ Heap!Contains(y, a) => x = y
  BY <1>3 DEF Tiles
<1>5. \A a \in Nat : a < limit => \E x \in others \cup {whole} : Heap!Contains(x, a)
  BY <1>1 DEF Tiles
<1>6. whole \notin others
  BY <1>2, <1>3, OwnBase
<1>7. Tiles(others \cup {whole}, limit)
  <2>1. \A x \in others : /\ x[1] \in Nat /\ x[2] \in Nat /\ x = <<x[1], x[2]>>
                          /\ x[1] % 2 ^ x[2] = 0 /\ x[1] + 2 ^ x[2] <= limit
    BY DEF Tiles
  <2> QED
    BY <1>2, <1>4, <1>5, <2>1 DEF Tiles
<1> QED
  BY <1>6, <1>7 DEF whole, parts

-----------------------------------------------------------------------------
(* The lists of free blocks                                                *)

Distinct(s) == \A x, y \in DOMAIN s : s[x] = s[y] => x = y

LEMMA ListPush ==
  ASSUME NEW S, NEW s \in Seq(S), Distinct(s), NEW b \in S, b \notin Heap!Range(s)
  PROVE  /\ <<b>> \o s \in Seq(S) /\ Distinct(<<b>> \o s)
         /\ Heap!Range(<<b>> \o s) = Heap!Range(s) \cup {b}
<1> DEFINE t == <<b>> \o s
<1>1. <<b>> \in Seq(S) /\ Len(<<b>>) = 1 /\ <<b>>[1] = b
  OBVIOUS
<1>2. /\ t \in Seq(S) /\ Len(t) = 1 + Len(s)
      /\ \A x \in 1 .. 1 + Len(s) : t[x] = IF x <= 1 THEN <<b>>[x] ELSE s[x - 1]
  BY <1>1, ConcatProperties
<1>3. /\ Len(s) \in Nat /\ DOMAIN s = 1 .. Len(s) /\ DOMAIN t = 1 .. 1 + Len(s)
  BY <1>2, LenProperties
<1>4. /\ t[1] = b /\ \A x \in 2 .. 1 + Len(s) : t[x] = s[x - 1] /\ x - 1 \in DOMAIN s
  BY <1>1, <1>2, <1>3
<1> HIDE DEF t
<1>5. \A x \in DOMAIN s : s[x] # b
  BY DEF Heap!Range
<1>6. Distinct(t)
  <2> SUFFICES ASSUME NEW x \in DOMAIN t, NEW y \in DOMAIN t, t[x] = t[y]
               PROVE  x = y
    BY DEF Distinct
  <2>1. CASE x = 1 \/ y = 1
    BY <1>3, <1>4, <1>5, <2>1
  <2>2. CASE x # 1 /\ y # 1
    <3>1. x \in 2 .. 1 + Len(s) /\ y \in 2 .. 1 + Len(s)
      BY <1>3, <2>2
    <3>2. x - 1 = y - 1
      BY <1>4, <3>1 DEF Distinct
    <3> QED
      BY <3>1, <3>2
  <2> QED
    BY <2>1, <2>2
<1>7. Heap!Range(t) = Heap!Range(s) \cup {b}
  <2>1. ASSUME NEW x \in DOMAIN t PROVE t[x] \in Heap!Range(s) \cup {b}
    <3>1. x = 1 \/ x \in 2 .. 1 + Len(s)
      BY <1>3
    <3> QED
      BY <1>4, <3>1 DEF Heap!Range
  <2>2. ASSUME NEW x \in DOMAIN s PROVE s[x] \in Heap!Range(t)
    <3>1. x + 1 \in 2 .. 1 + Len(s) /\ (x + 1) - 1 = x /\ x + 1 \in DOMAIN t
      BY <1>3
    <3> QED
      BY <1>4, <3>1 DEF Heap!Range
  <2>3. b \in Heap!Range(t)
    BY <1>3, <1>4 DEF Heap!Range
  <2> QED
    BY <2>1, <2>2, <2>3 DEF Heap!Range
<1> QED
  BY <1>2, <1>6, <1>7 DEF t

\* The list without its element number k.
LEMMA ListCut ==
  ASSUME NEW S, NEW s \in Seq(S), Distinct(s), NEW k \in DOMAIN s
  PROVE  LET t == SubSeq(s, 1, k - 1) \o SubSeq(s, k + 1, Len(s))
         IN  t \in Seq(S) /\ Distinct(t) /\ Heap!Range(t) = Heap!Range(s) \ {s[k]}
<1> DEFINE u == SubSeq(s, 1, k - 1)
           v == SubSeq(s, k + 1, Len(s))
           t == u \o v
<1>1. Len(s) \in Nat /\ DOMAIN s = 1 .. Len(s) /\ k \in 1 .. Len(s)
  BY LenProperties
<1>2. /\ u \in Seq(S) /\ Len(u) = k - 1
      /\ \A x \in 1 .. k - 1 : u[x] = s[x]
  <2>1. \A x \in 1 .. k - 1 : s[x] \in S
    BY <1>1, ElementOfSeq
  <2>2. /\ u \in Seq(S) /\ Len(u) = IF 1 <= k - 1 THEN (k - 1) - 1 + 1 ELSE 0
        /\ \A x \in 1 .. (k - 1) - 1 + 1 : u[x] = s[1 + x - 1]
    BY <1>1, <2>1, SubSeqProperties
  <2> HIDE DEF u
  <2>3. Len(u) = k - 1
    BY <1>1, <2>2
  <2>4. ASSUME NEW x \in 1 .. k - 1 PROVE u[x] = s[x]
    <3>1. x \in 1 .. (k - 1) - 1 + 1 /\ 1 + x - 1 = x
      BY <1>1
    <3>2. u[x] = s[1 + x - 1]
      BY <2>2, <3>1
    <3> QED
      BY <3>1, <3>2
  <2> QED
    BY <2>2, <2>3, <2>4
<1>3. /\ v \in Seq(S) /\ Len(v) = Len(s) - k
      /\ \A x \in 1 .. Len(s) - k : v[x] = s[x + k]
  <2>1. \A x \in k + 1 .. Len(s) : s[x] \in S
    BY <1>1, ElementOfSeq
  <2>2. /\ v \in Seq(S)
        /\ Len(v) = IF k + 1 <= Len(s) THEN Len(s) - (k + 1) + 1 ELSE 0
        /\ \A x \in 1 .. Len(s) - (k + 1) + 1 : v[x] = s[k + 1 + x - 1]
    BY <1>1, <2>1, SubSeqProperties
  <2> HIDE DEF v
  <2>3. Len(v) = Len(s) - k
    BY <1>1, <2>2
  <2>4. ASSUME NEW x \in 1 .. Len(s) - k PROVE v[x] = s[x + k]
    <3>1. x \in 1 .. Len(s) - (k + 1) + 1 /\ k + 1 + x - 1 = x + k
      BY <1>1
    <3>2. v[x] = s[k + 1 + x - 1]
      BY <2>2, <3>1
    <3> QED
      BY <3>1, <3>2
  <2> QED
    BY <2>2, <2>3, <2>4
<1> HIDE DEF u, v
<1>4. /\ t \in Seq(S) /\ Len(t) = Len(u) + Len(v)
      /\ \A x \in 1 .. Len(u) + Len(v) :
           t[x] = IF x <= Len(u) THEN u[x] ELSE v[x - Len(u)]
  BY <1>2, <1>3, ConcatProperties
<1>5. /\ DOMAIN t = 1 .. Len(s) - 1
      /\ \A x \in 1 .. Len(s) - 1 : t[x] = IF x < k THEN s[x] ELSE s[x + 1]
  <2>1. Len(t) = Len(s) - 1 /\ DOMAIN t = 1 .. Len(t)
    BY <1>1, <1>2, <1>3, <1>4, LenProperties
  <2>2. ASSUME NEW x \in 1 .. Len(s) - 1 PROVE t[x] = IF x < k THEN s[x] ELSE s[x + 1]
    <3>1. t[x] = IF x <= k - 1 THEN u[x] ELSE v[x - (k - 1)]
      BY <1>1, <1>2, <1>3, <1>4
    <3>2. CASE x < k
      BY <1>1, <1>2, <3>1, <3>2
    <3>3. CASE x >= k
      <4>1. x - (k - 1) \in 1 .. Len(s) - k /\ (x - (k - 1)) + k = x + 1
        BY <1>1, <3>3
      <4>2. v[x - (k - 1)] = s[x + 1]
        BY <1>3, <4>1
      <4> QED
        BY <1>1, <3>1, <3>3, <4>2
    <3>4. x < k \/ x >= k
      BY <1>1
    <3> QED
      BY <3>2, <3>3, <3>4
  <2> QED
    BY <2>1, <2>2
<1> HIDE DEF t
<1> DEFINE old(x) == IF x < k THEN x ELSE x + 1
<1>6. /\ \A x \in DOMAIN t : old(x) \in DOMAIN s /\ old(x) # k /\ t[x] = s[old(x)]
      /\ \A x, y \in DOMAIN t : old(x) = old(y) => x = y
      /\ \A y \in DOMAIN s : y # k => \E x \in DOMAIN t : old(x) = y
  <2>1. \A x \in DOMAIN t : old(x) \in DOMAIN s /\ old(x) # k /\ t[x] = s[old(x)]
    BY <1>1, <1>5
  <2>2. \A x, y \in DOMAIN t : old(x) = old(y) => x = y
    BY <1>1, <1>5
  <2>3. ASSUME NEW y \in DOMAIN s, y # k PROVE \E x \in DOMAIN t : old(x) = y
    <3>1. CASE y < k
      BY <1>1, <1>5, <3>1
    <3>2. CASE y > k
      <4>1. y - 1 \in DOMAIN t /\ old(y - 1) = y
        BY <1>1, <1>5, <3>2
      <4> QED
        BY <4>1
    <3> QED
      BY <1>1, <2>3, <3>1, <3>2
  <2> QED
    BY <2>1, <2>2, <2>3
<1> HIDE DEF old
<1>7. Distinct(t)
  BY <1>6 DEF Distinct
<1>8. Heap!Range(t) = Heap!Range(s) \ {s[k]}
  <2>1. \A x \in DOMAIN t : t[x] \in Heap!Range(s) /\ t[x] # s[k]
    BY <1>6 DEF Heap!Range, Distinct
  <2>2. ASSUME NEW y \in DOMAIN s, s[y] # s[k] PROVE s[y] \in Heap!Range(t)
    BY <1>6, <2>2 DEF Heap!Range
  <2> QED
    BY <2>1, <2>2 DEF Heap!Range
<1> QED
  BY <1>4, <1>7, <1>8 DEF t, u, v

LEMMA ListPop ==
  ASSUME NEW S, NEW s \in Seq(S), Distinct(s), s # <<>>
  PROVE  /\ Head(s) \in Heap!Range(s) /\ Head(s) \in S
         /\ Tail(s) \in Seq(S) /\ Distinct(Tail(s))
         /\ Heap!Range(Tail(s)) = Heap!Range(s) \ {Head(s)}
<1> DEFINE t == Tail(s)
<1>1. /\ Len(s) \in Nat \ {0} /\ DOMAIN s = 1 .. Len(s) /\ Head(s) = s[1] /\ Head(s) \in S
      /\ t \in Seq(S) /\ DOMAIN t = 1 .. Len(s) - 1
      /\ \A x \in 1 .. Len(s) - 1 : t[x] = s[x + 1]
  <2>1. Len(s) \in Nat \ {0} /\ DOMAIN s = 1 .. Len(s)
    BY EmptySeq, LenProperties
  <2>2. /\ Head(s) \in S /\ t \in Seq(S) /\ Len(t) = Len(s) - 1
        /\ \A x \in 1 .. Len(t) : t[x] = s[x + 1]
    BY HeadTailProperties
  <2>3. Head(s) = s[1]
    <3>1. SubSeq(s, 1, Len(s)) = s /\ 1 \in 1 .. Len(s) /\ Len(s) \in 1 .. Len(s)
      BY <2>1, SubSeqFull
    <3> QED
      BY <3>1, HeadTailOfSubSeq
  <2>4. DOMAIN t = 1 .. Len(t)
    BY <2>2, LenProperties
  <2> HIDE DEF t
  <2> QED
    BY <2>1, <2>2, <2>3, <2>4
<1> HIDE DEF t
<1>2. \A x \in DOMAIN t : x + 1 \in DOMAIN s /\ x + 1 # 1 /\ t[x] = s[x + 1]
  BY <1>1
<1>3. \A y \in DOMAIN s : y # 1 => y - 1 \in DOMAIN t /\ s[y] = t[y - 1]
  <2> SUFFICES ASSUME NEW y \in DOMAIN s, y # 1
               PROVE  y - 1 \in DOMAIN t /\ s[y] = t[y - 1]
    OBVIOUS
  <2>1. y - 1 \in 1 .. Len(s) - 1 /\ (y - 1) + 1 = y
    BY <1>1
  <2>2. t[y - 1] = s[(y - 1) + 1]
    BY <1>1, <2>1
  <2> QED
    BY <1>1, <2>1, <2>2
<1>4. Distinct(t)
  <2> SUFFICES ASSUME NEW x \in DOMAIN t, NEW y \in DOMAIN t, t[x] = t[y]
               PROVE  x = y
    BY DEF Distinct
  <2>1. x + 1 = y + 1
    BY <1>2 DEF Distinct
  <2> QED
    BY <1>1, <2>1
<1>5. 1 \in DOMAIN s
  BY <1>1
<1>6. Heap!Range(t) = Heap!Range(s) \ {Head(s)}
  <2>1. \A x \in DOMAIN t : t[x] \in Heap!Range(s) /\ t[x] # Head(s)
    BY <1>1, <1>2, <1>5 DEF Heap!Range, Distinct
  <2>2. ASSUME NEW y \in DOMAIN s, s[y] # Head(s) PROVE s[y] \in Heap!Range(t)
    BY <1>1, <1>3, <2>2 DEF Heap!Range
  <2> QED
    BY <2>1, <2>2 DEF Heap!Range
<1> QED
  BY <1>1, <1>4, <1>5, <1>6 DEF t, Heap!Range

LEMMA ListRemove ==
  ASSUME NEW S, NEW s \in Seq(S), Distinct(s), NEW b \in Heap!Range(s)
  PROVE  /\ Heap!Without(s, b) \in Seq(S) /\ Distinct(Heap!Without(s, b))
         /\ Heap!Range(Heap!Without(s, b)) = Heap!Range(s) \ {b}
<1> DEFINE k == CHOOSE k \in DOMAIN s : s[k] = b
<1>1. k \in DOMAIN s /\ s[k] = b
  BY DEF Heap!Range
<1> HIDE DEF k
<1>2. Heap!Without(s, b) = SubSeq(s, 1, k - 1) \o SubSeq(s, k + 1, Len(s))
  BY DEF Heap!Without, k
<1> QED
  BY <1>1, <1>2, ListCut

-----------------------------------------------------------------------------
(* The heap                                                                *)

HeapBlocks == Heap!FreeBlocks \cup hGiven \cup {Heap!AllocBlock}

\* HeapIsPartitioned says which blocks there are, and not that they are aligned: their
\* companions would not be blocks. FreeBlocksAreMaximal follows from what is true of each
\* list, that it never holds a block and its companion.
HeapInv ==
  /\ Heap!TypeOK
  /\ Tiles(HeapBlocks, 2 ^ heapIndex)
  /\ Heap!FreeBlocks \cap hGiven = {}
  /\ Heap!AllocBlock \notin Heap!FreeBlocks \cup hGiven
  /\ \A i \in Heap!Index : Distinct(hFree[i])
  /\ hGiven = {<<e * Heap!MIN_BLOCK_SIZE, hAlloc[e]>> : e \in {x \in Heap!Entry : hAlloc[x] # 0}}
  /\ \A i \in Heap!Index : \A b \in Heap!Range(hFree[i]) :
       Heap!Companion(b, i) \notin Heap!Range(hFree[i])
  /\ Heap!NeverAlreadyAllocated

LEMMA HeapParameters ==
  /\ HeapMinIndex \in Nat \ {0} /\ HeapIndexes \subseteq Nat
  /\ \A h \in HeapIndexes : HeapMinIndex <= h /\ h \in Heap!Index
  /\ Heap!Index \subseteq Nat /\ \A i \in Heap!Index : HeapMinIndex <= i
  /\ \A i \in Nat : \A h \in HeapIndexes : HeapMinIndex <= i /\ i <= h => i \in Heap!Index
  /\ \A h \in HeapIndexes : h \in HeapMinIndex .. Heap!Max(HeapIndexes)
  /\ Heap!MIN_BLOCK_SIZE = 2 ^ HeapMinIndex /\ Heap!Max(HeapIndexes) \in Nat
<1>1. HeapMinIndex \in Nat \ {0} /\ HeapIndexes \subseteq HeapMinIndex .. 30 /\ HeapIndexes # {}
  BY SharedAssumption DEF Heap!HeapAssumption
<1>0. \A h \in HeapIndexes : h \in Nat /\ HeapMinIndex <= h /\ 30 - h \in Nat
  <2> SUFFICES ASSUME NEW h \in HeapIndexes
               PROVE  h \in Nat /\ HeapMinIndex <= h /\ 30 - h \in Nat
    OBVIOUS
  <2>1. h \in HeapMinIndex .. 30
    BY <1>1
  <2> QED
    BY <1>1, <2>1
<1>2. \E m \in HeapIndexes : \A h \in HeapIndexes : m >= h
  <2> DEFINE S == {30 - h : h \in HeapIndexes}
  <2>1. S \in SUBSET Nat /\ S # {}
    BY <1>0, <1>1
  <2>2. PICK k \in S : \A j \in S : k <= j
    BY <2>1, LeastIndex
  <2>3. PICK m \in HeapIndexes : k = 30 - m
    BY <2>2
  <2>4. \A h \in HeapIndexes : 30 - m <= 30 - h
    BY <2>2, <2>3
  <2> QED
    BY <1>0, <2>4
<1>3. /\ Heap!Max(HeapIndexes) \in HeapIndexes
      /\ \A h \in HeapIndexes : Heap!Max(HeapIndexes) >= h
  BY <1>2 DEF Heap!Max
<1>4. Heap!Index = HeapMinIndex .. Heap!Max(HeapIndexes)
  BY DEF Heap!Index
<1>5. Heap!MIN_BLOCK_SIZE = 2 ^ HeapMinIndex
  BY DEF Heap!MIN_BLOCK_SIZE
<1> DEFINE m == Heap!Max(HeapIndexes)
<1>6. m \in Nat /\ HeapMinIndex <= m /\ \A h \in HeapIndexes : m >= h
  BY <1>0, <1>3
<1> HIDE DEF m
<1>7. Heap!Index = HeapMinIndex .. m
  BY <1>4 DEF m
<1>8. \A h \in HeapIndexes : h \in HeapMinIndex .. m
  BY <1>0, <1>1, <1>6
<1>9. \A i \in Nat : \A h \in HeapIndexes : HeapMinIndex <= i /\ i <= h => i \in HeapMinIndex .. m
  BY <1>0, <1>1, <1>6
<1>10. HeapMinIndex .. m \subseteq Nat /\ \A i \in HeapMinIndex .. m : HeapMinIndex <= i
  BY <1>1, <1>6
<1> QED
  BY <1>0, <1>1, <1>5, <1>6, <1>7, <1>8, <1>9, <1>10 DEF m

LEMMA SizeIndexIs ==
  ASSUME NEW size \in HeapRequests
  PROVE  Heap!SizeIndex(size) \in Nat /\ HeapMinIndex <= Heap!SizeIndex(size)
<1> DEFINE fits == {i \in 0 .. 32 : Heap!Fits(size, i)}
           good(i) == Heap!Fits(size, i) /\ \A j \in 0 .. i - 1 : ~Heap!Fits(size, j)
<1>1. PICK k \in 0 .. 31 : size <= 2 ^ k
  BY SharedAssumption DEF Heap!HeapAssumption
<1>2. size \in Nat /\ HeapMinIndex \in 0 .. 31
  <2>1. /\ size \in Nat /\ HeapMinIndex \in Nat
        /\ HeapIndexes \subseteq HeapMinIndex .. 30 /\ HeapIndexes # {}
    BY SharedAssumption DEF Heap!HeapAssumption
  <2>2. PICK h \in HeapIndexes : h \in HeapMinIndex .. 30
    BY <2>1
  <2> QED
    BY <2>1, <2>2
<1>3. fits # {}
  <2>1. CASE k <= HeapMinIndex
    <3>1. 2 ^ k <= 2 ^ HeapMinIndex
      <4>1. CASE k = HeapMinIndex
        BY <1>2, <4>1, Powers
      <4>2. CASE k < HeapMinIndex
        BY <1>1, <1>2, <4>2, PowersGrow, Powers
      <4> QED
        BY <1>1, <1>2, <2>1, <4>1, <4>2
    <3>2. 2 ^ k \in Nat /\ 2 ^ HeapMinIndex \in Nat
      BY <1>1, <1>2, Powers
    <3>3. Heap!Fits(size, HeapMinIndex)
      BY <1>1, <1>2, <3>1, <3>2 DEF Heap!Fits, Heap!MIN_BLOCK_SIZE
    <3> QED
      BY <1>2, <3>3
  <2>2. CASE k > HeapMinIndex
    <3>1. 2 ^ HeapMinIndex <= 2 ^ k
      <4>1. 2 * 2 ^ HeapMinIndex <= 2 ^ k /\ 2 ^ HeapMinIndex \in Nat /\ 2 ^ k \in Nat
        BY <1>1, <1>2, <2>2, PowersGrow, Powers
      <4> QED
        BY <4>1
    <3>2. Heap!Fits(size, k)
      BY <1>1, <3>1 DEF Heap!Fits, Heap!MIN_BLOCK_SIZE
    <3> QED
      BY <3>2
  <2> QED
    BY <1>1, <1>2, <2>1, <2>2
<1>4. PICK i \in fits : \A j \in fits : i <= j
  <2>1. fits \in SUBSET Nat
    OBVIOUS
  <2> HIDE DEF fits
  <2> QED
    BY <1>3, <2>1, LeastIndex
<1>5. i \in 0 .. 32 /\ good(i)
  <2>1. ASSUME NEW j \in 0 .. i - 1, Heap!Fits(size, j) PROVE FALSE
    <3>1. j \in fits /\ j < i
      BY <1>4, <2>1
    <3> QED
      BY <1>4, <3>1
  <2> QED
    BY <1>4, <2>1
<1> DEFINE s == Heap!SizeIndex(size)
<1>6. s = CHOOSE x \in 0 .. 32 : good(x)
  BY DEF Heap!SizeIndex
<1> HIDE DEF good
<1>7. s \in 0 .. 32 /\ good(s)
  BY <1>5, <1>6
<1> HIDE DEF s
<1>8. 2 ^ HeapMinIndex <= 2 ^ s
  BY <1>7 DEF good, Heap!Fits, Heap!MIN_BLOCK_SIZE
<1>9. ~(s < HeapMinIndex)
  <2> SUFFICES ASSUME s < HeapMinIndex PROVE FALSE
    OBVIOUS
  <2>1. 2 * 2 ^ s <= 2 ^ HeapMinIndex /\ 2 ^ s \in Nat \ {0} /\ 2 ^ HeapMinIndex \in Nat
    BY <1>2, <1>7, PowersGrow, Powers
  <2> QED
    BY <1>8, <2>1
<1> QED
  BY <1>2, <1>7, <1>9 DEF s

\* The addresses of blocks, and their places in alloc[].
LEMMA BaseIs ==
  ASSUME heapIndex \in HeapIndexes
  PROVE  /\ \A a \in Nat : a < 2 ^ heapIndex /\ a % 2 ^ HeapMinIndex = 0 => a \in Heap!Base
         /\ \A a \in Heap!Base :
              /\ a \in Nat /\ a < 2 ^ heapIndex /\ a % 2 ^ HeapMinIndex = 0
              /\ a \div Heap!MIN_BLOCK_SIZE \in Heap!Entry
              /\ (a \div Heap!MIN_BLOCK_SIZE) * Heap!MIN_BLOCK_SIZE = a
         /\ \A e \in Heap!Entry : (e * Heap!MIN_BLOCK_SIZE) \div Heap!MIN_BLOCK_SIZE = e
<1> DEFINE p == 2 ^ HeapMinIndex
           k == 2 ^ (heapIndex - HeapMinIndex)
           limit == 2 ^ heapIndex
<1>1. heapIndex - HeapMinIndex \in Nat /\ HeapMinIndex \in Nat /\ heapIndex \in Nat
  BY HeapParameters
<1>2. p \in Nat \ {0} /\ k \in Nat \ {0} /\ limit \in Nat /\ k * p = limit
  BY <1>1, HeapParameters, Powers, PowersDivide
<1>3. Heap!MIN_BLOCK_SIZE = p /\ Heap!Entry = 0 .. k - 1 /\ Heap!Base = {e * p : e \in 0 .. k - 1}
  BY DEF Heap!MIN_BLOCK_SIZE, Heap!Entry, Heap!Base
<1> HIDE DEF p, k, limit
<1>4. ASSUME NEW e \in 0 .. k - 1
      PROVE  /\ e * p \in Nat /\ e * p < limit /\ (e * p) % p = 0 /\ (e * p) \div p = e
  <2>1. e * p \in Nat /\ e * p = p * e /\ k - 1 - e \in Nat /\ (k - 1 - e) * p \in Nat
    BY <1>2
  <2>2. k * p = e * p + p + (k - 1 - e) * p
    BY <1>2
  <2>3. (p * e + 0) % p = 0 /\ (p * e + 0) \div p = e
    BY <1>2, Remainder
  <2>4. p * e + 0 = e * p
    BY <2>1
  <2> QED
    BY <1>2, <2>1, <2>2, <2>3, <2>4
<1>5. ASSUME NEW a \in Nat, a < limit, a % p = 0
      PROVE  \E e \in 0 .. k - 1 : a = e * p
  <2> DEFINE q == a \div p
  <2>1. q \in Nat /\ a = p * q + (a % p)
    BY <1>2, Quotient
  <2> HIDE DEF q
  <2>2. p * q \in Nat /\ p * q = q * p /\ a = p * q
    BY <1>2, <1>5, <2>1
  <2>3. q < k
    <3> SUFFICES ASSUME q >= k PROVE FALSE
      BY <1>2, <2>1
    <3>1. q - k \in Nat /\ (q - k) * p \in Nat
      BY <1>2, <2>1
    <3>2. q * p = k * p + (q - k) * p
      BY <1>2, <2>1
    <3> QED
      BY <1>2, <1>5, <2>2, <3>1, <3>2
  <2> QED
    BY <1>2, <2>1, <2>2, <2>3
<1>6. \A a \in Nat : a < limit /\ a % p = 0 => a \in Heap!Base
  BY <1>3, <1>5
<1>7. \A a \in Heap!Base : /\ a \in Nat /\ a < limit /\ a % p = 0
                           /\ a \div p \in 0 .. k - 1 /\ (a \div p) * p = a
  BY <1>3, <1>4
<1> QED
  BY <1>3, <1>4, <1>6, <1>7 DEF p, limit

LEMMA FreeIs ==
  /\ \A i \in Heap!Index : \A x : <<x, i>> \in Heap!FreeBlocks <=> x \in Heap!Range(hFree[i])
  /\ \A z \in Heap!FreeBlocks : z = <<z[1], z[2]>> /\ z[2] \in Heap!Index
  /\ \A i \in Heap!Index : \A x : <<x, i>> \in Heap!FreeBlocks' <=> x \in Heap!Range(hFree'[i])
  /\ \A z \in Heap!FreeBlocks' : z = <<z[1], z[2]>> /\ z[2] \in Heap!Index
BY DEF Heap!FreeBlocks

LEMMA HeapFrame ==
  ASSUME heapIndex' = heapIndex
  PROVE  /\ Heap!Base' = Heap!Base /\ Heap!Entry' = Heap!Entry
         /\ Heap!AllocBlock' = Heap!AllocBlock
BY DEF Heap!Base, Heap!Entry, Heap!AllocBlock

\* What the invariant says of one block.
LEMMA BlockIs ==
  ASSUME heapIndex \in HeapIndexes, NEW B, Tiles(B, 2 ^ heapIndex), NEW x \in B,
         HeapMinIndex <= x[2]
  PROVE  /\ x[1] \in Heap!Base /\ x[2] \in Heap!Index /\ x[2] <= heapIndex
         /\ x[1] \in Nat /\ x[2] \in Nat /\ x = <<x[1], x[2]>> /\ x[1] % 2 ^ x[2] = 0
         /\ x[1] + 2 ^ x[2] <= 2 ^ heapIndex
<1> DEFINE b == x[1]
           i == x[2]
<1>1. /\ b \in Nat /\ i \in Nat /\ x = <<b, i>> /\ b % 2 ^ i = 0 /\ b + 2 ^ i <= 2 ^ heapIndex
      /\ HeapMinIndex <= i
  BY DEF Tiles
<1> HIDE DEF b, i
<1>2. /\ heapIndex \in Nat /\ HeapMinIndex \in Nat
      /\ 2 ^ heapIndex \in Nat /\ 2 ^ i \in Nat \ {0}
  BY <1>1, HeapParameters, Powers
<1>3. b % 2 ^ HeapMinIndex = 0
  BY <1>1, <1>2, AlignedDown
<1>4. b \in Heap!Base
  BY <1>1, <1>2, <1>3, BaseIs
<1>5. i <= heapIndex
  <2> SUFFICES ASSUME heapIndex < i PROVE FALSE
    BY <1>1, <1>2
  <2>1. 2 * 2 ^ heapIndex <= 2 ^ i
    BY <1>1, <1>2, PowersGrow
  <2> QED
    BY <1>1, <1>2, <2>1
<1>6. i \in Heap!Index
  BY <1>1, <1>5, HeapParameters
<1> QED
  BY <1>1, <1>4, <1>5, <1>6 DEF b, i

LEMMA CompanionOther ==
  ASSUME NEW b \in Nat, NEW i \in Nat
  PROVE  Heap!Companion(b, i) # b
<1> DEFINE low == Heap!Aligned(b, i)
           other == Heap!Companion(b, i)
           pair == Heap!Aligned(b, i + 1)
<1>1. 2 ^ i \in Nat \ {0}
  BY Powers
<1>2. /\ low \in Nat /\ low <= b /\ b < low + 2 ^ i /\ other \in Nat /\ pair \in Nat
      /\ \/ low = pair /\ other = low + 2 ^ i
         \/ low = pair + 2 ^ i /\ other = pair
  BY Buddies
<1> HIDE DEF low, other, pair
<1>3. other # b
  BY <1>1, <1>2
<1> QED
  BY <1>3 DEF other

LEMMA CompanionBack ==
  ASSUME NEW b \in Nat, NEW i \in Nat, b % 2 ^ i = 0
  PROVE  Heap!Companion(Heap!Companion(b, i), i) = b
<1> DEFINE c == Heap!Companion(b, i)
           pair == Heap!Aligned(b, i + 1)
           d == Heap!Companion(c, i)
<1>1. 2 ^ i \in Nat \ {0} /\ 2 ^ (i + 1) = 2 * 2 ^ i
  BY Powers
<1>2. Heap!Aligned(b, i) = b
  BY <1>1, AlignedIs
<1>3. /\ c \in Nat /\ c % 2 ^ i = 0 /\ pair \in Nat /\ pair % 2 ^ (i + 1) = 0
      /\ (b = pair /\ c = b + 2 ^ i) \/ (b = pair + 2 ^ i /\ c = pair)
  <2>1. pair \in Nat /\ pair % 2 ^ (i + 1) = 0
    <3>1. \A k \in Nat : Heap!Aligned(b, k) \in Nat /\ Heap!Aligned(b, k) % 2 ^ k = 0
      BY Buddies
    <3>2. i + 1 \in Nat
      OBVIOUS
    <3> QED
      BY <3>1, <3>2, Zenon
  <2>2. /\ c \in Nat /\ c % 2 ^ i = 0
        /\ \/ Heap!Aligned(b, i) = pair /\ c = Heap!Aligned(b, i) + 2 ^ i
           \/ Heap!Aligned(b, i) = pair + 2 ^ i /\ c = pair
    BY Buddies
  <2> HIDE DEF c, pair
  <2> QED
    BY <1>2, <2>1, <2>2
<1> HIDE DEF c, pair
<1>4. Heap!Aligned(c, i) = c
  BY <1>1, <1>3, AlignedIs
<1>5. Heap!Aligned(c, i + 1) = pair
  <2>1. pair <= c /\ c < pair + 2 ^ (i + 1)
    BY <1>1, <1>3
  <2> QED
    BY <1>3, <2>1, AlignedIs
<1>6. (c = pair /\ d = c + 2 ^ i) \/ (c = pair + 2 ^ i /\ d = pair)
  <2>1. \/ Heap!Aligned(c, i) = Heap!Aligned(c, i + 1) /\ d = Heap!Aligned(c, i) + 2 ^ i
        \/ Heap!Aligned(c, i) = Heap!Aligned(c, i + 1) + 2 ^ i /\ d = Heap!Aligned(c, i + 1)
    BY <1>3, Buddies
  <2> HIDE DEF d
  <2> QED
    BY <1>4, <1>5, <2>1
<1> HIDE DEF d
<1>7. d = b
  BY <1>1, <1>3, <1>6
<1> QED
  BY <1>7 DEF c, d

\* The companion of a block is that of each of its addresses.
LEMMA CompanionOfBase ==
  ASSUME NEW b \in Nat, NEW i \in Nat
  PROVE  Heap!Companion(Heap!Aligned(b, i), i) = Heap!Companion(b, i)
<1>1. Heap!Aligned(Heap!Aligned(b, i), i) = Heap!Aligned(b, i)
  <2> DEFINE low == Heap!Aligned(b, i)
  <2>1. low \in Nat /\ low % 2 ^ i = 0
    BY Buddies
  <2> HIDE DEF low
  <2>2. Heap!Aligned(low, i) = low
    BY <2>1, AlignedDown
  <2> QED
    BY <2>2 DEF low
<1> QED
  BY <1>1 DEF Heap!Companion

\* The blocks of decreasing sizes of _heap_init, and alloc[] behind them, are the parts
\* of one block, the heap.
LEMMA FirstBlocks ==
  ASSUME NEW h \in Nat, NEW i \in Nat, i <= h
  PROVE  LET base == 2 ^ h - 2 ^ i
         IN  /\ base \in Nat /\ BlockAt(base, i) = <<base, i>> /\ BlockAt(base, h) = <<0, h>>
             /\ \A k \in i .. h - 1 : Heap!Companion(base, k) = 2 ^ h - 2 ^ (k + 1)
<1> DEFINE limit == 2 ^ h
           base == limit - 2 ^ i
<1>1. limit \in Nat \ {0} /\ \A k \in Nat : 2 ^ k \in Nat \ {0} /\ 2 ^ (k + 1) = 2 * 2 ^ k
  BY Powers
<1>2. ASSUME NEW k \in Nat, NEW l \in Nat, k <= l PROVE 2 ^ k <= 2 ^ l
  <2>1. CASE k = l
    BY <1>1, <2>1
  <2>2. CASE k < l
    <3>1. 2 * 2 ^ k <= 2 ^ l
      BY <2>2, PowersGrow
    <3> QED
      BY <1>1, <3>1
  <2> QED
    BY <1>2, <2>1, <2>2
<1>3. limit % 2 ^ h = 0
  <2>1. (limit * 1 + 0) % limit = 0
    BY <1>1, Remainder
  <2> QED
    BY <1>1, <2>1
<1>4. 2 ^ i <= limit
  BY <1>2
<1> HIDE DEF limit
<1>5. base \in Nat /\ base < limit
  BY <1>1, <1>4
<1>6. ASSUME NEW k \in i .. h
      PROVE  limit - 2 ^ k \in Nat /\ Heap!Aligned(base, k) = limit - 2 ^ k
  <2>1. k \in Nat /\ 2 ^ k \in Nat \ {0} /\ 2 ^ i <= 2 ^ k /\ 2 ^ k <= limit /\ 2 ^ i \in Nat
    BY <1>1, <1>2 DEF limit
  <2>2. limit % 2 ^ k = 0
    <3>1. limit \in Nat /\ k \in Nat /\ h \in Nat /\ k <= h /\ limit % 2 ^ h = 0
      BY <1>1, <1>3, <2>1
    <3> QED
      BY <3>1, AlignedDown
  <2>3. (limit - 2 ^ k) % 2 ^ k = 0
    <3> DEFINE p == 2 ^ k
               q == limit \div p
    <3>1. q \in Nat /\ limit = p * q + (limit % p)
      BY <1>1, <2>1, Quotient
    <3>2. limit % p = 0 /\ p \in Nat \ {0} /\ p <= limit
      BY <2>1, <2>2
    <3> HIDE DEF p, q
    <3>3. limit = p * q /\ q # 0
      BY <1>1, <3>1, <3>2
    <3>4. q - 1 \in Nat /\ limit - p = p * (q - 1) + 0
      BY <3>1, <3>2, <3>3
    <3>5. (p * (q - 1) + 0) % p = 0
      BY <3>2, <3>4, Remainder
    <3>6. (limit - p) % p = 0
      BY <3>4, <3>5
    <3> QED
      BY <3>6 DEF p
  <2>4. limit - 2 ^ k \in Nat /\ limit - 2 ^ k <= base /\ base < (limit - 2 ^ k) + 2 ^ k
    BY <1>1, <2>1
  <2> HIDE DEF base
  <2> QED
    BY <1>5, <2>1, <2>3, <2>4, AlignedIs
<1>7. BlockAt(base, i) = <<base, i>> /\ BlockAt(base, h) = <<0, h>>
  <2>1. limit - 2 ^ h = 0
    BY <1>1 DEF limit
  <2> QED
    BY <1>6, <2>1 DEF BlockAt
<1>8. ASSUME NEW k \in i .. h - 1
      PROVE  Heap!Companion(base, k) = limit - 2 ^ (k + 1)
  <2>1. k \in Nat /\ k \in i .. h /\ k + 1 \in i .. h
    OBVIOUS
  <2>2. /\ Heap!Aligned(base, k) = limit - 2 ^ k
        /\ Heap!Aligned(base, k + 1) = limit - 2 ^ (k + 1)
        /\ 2 ^ k \in Nat \ {0} /\ 2 ^ (k + 1) = 2 * 2 ^ k
    BY <1>1, <1>6, <2>1
  <2>3. \/ Heap!Aligned(base, k) = Heap!Aligned(base, k + 1)
        \/ Heap!Companion(base, k) = Heap!Aligned(base, k + 1)
    BY <1>5, <2>1, Buddies
  <2> QED
    BY <1>1, <2>2, <2>3
<1> QED
  BY <1>5, <1>7, <1>8 DEF limit

\* The companion of the base of a larger block is its upper half.
LEMMA UpperHalf ==
  ASSUME NEW x \in Nat, NEW k \in Nat, NEW j \in Nat, k < j, x % 2 ^ j = 0
  PROVE  Heap!Companion(x, k) = x + 2 ^ k
<1> DEFINE next == k + 1
<1>1. next \in Nat /\ next <= j /\ k <= j
  OBVIOUS
<1>2. 2 ^ k \in Nat \ {0}
  BY Powers
<1>3. \/ Heap!Aligned(x, k) = Heap!Aligned(x, next)
         /\ Heap!Companion(x, k) = Heap!Aligned(x, k) + 2 ^ k
      \/ Heap!Aligned(x, k) = Heap!Aligned(x, next) + 2 ^ k
  BY Buddies
<1> HIDE DEF next
<1>4. Heap!Aligned(x, k) = x /\ Heap!Aligned(x, next) = x
  BY <1>1, AlignedDown
<1> QED
  BY <1>2, <1>3, <1>4

LEMMA AllocIs ==
  ASSUME NEW h \in HeapIndexes
  PROVE  Heap!AllocIndex(h) \in HeapMinIndex .. h
BY HeapParameters DEF Heap!AllocIndex

\* What the invariant says of each block.
LEMMA BlocksAre ==
  ASSUME HeapInv
  PROVE  /\ heapIndex \in HeapIndexes /\ heapIndex \in Nat /\ HeapMinIndex <= heapIndex
         /\ \A x \in HeapBlocks :
              /\ x[1] \in Heap!Base /\ x[2] \in Heap!Index /\ x[2] <= heapIndex
              /\ x[1] \in Nat /\ x[2] \in Nat /\ x = <<x[1], x[2]>> /\ x[1] % 2 ^ x[2] = 0
              /\ x[1] + 2 ^ x[2] <= 2 ^ heapIndex
<1>1. heapIndex \in HeapIndexes /\ hGiven \subseteq Heap!Base \X Heap!Index
  BY DEF HeapInv, Heap!TypeOK
<1>2. heapIndex \in Nat /\ HeapMinIndex <= heapIndex
  BY <1>1, HeapParameters
<1>3. ASSUME NEW x \in HeapBlocks PROVE HeapMinIndex <= x[2]
  <2>1. CASE x \in Heap!FreeBlocks
    BY <2>1, FreeIs, HeapParameters
  <2>2. CASE x \in hGiven
    BY <1>1, <2>2, HeapParameters
  <2>3. CASE x = Heap!AllocBlock
    <3>1. x[2] = Heap!AllocIndex(heapIndex)
      BY <2>3 DEF Heap!AllocBlock
    <3> QED
      BY <1>1, <1>2, <3>1, AllocIs, HeapParameters
  <2> QED
    BY <2>1, <2>2, <2>3 DEF HeapBlocks
<1>4. Tiles(HeapBlocks, 2 ^ heapIndex)
  BY DEF HeapInv
<1> QED
  BY <1>1, <1>2, <1>3, <1>4, BlockIs

LEMMA HeapKept ==
  ASSUME HeapInv, UNCHANGED <<heapIndex, hFree, hAlloc, hGiven>>,
         hOutcome' # "already allocated"
  PROVE  HeapInv'
<1>1. /\ Heap!FreeBlocks' = Heap!FreeBlocks /\ Heap!AllocBlock' = Heap!AllocBlock
      /\ Heap!Base' = Heap!Base /\ Heap!Entry' = Heap!Entry /\ HeapBlocks' = HeapBlocks
  BY DEF Heap!FreeBlocks, Heap!AllocBlock, Heap!Base, Heap!Entry, HeapBlocks
<1>2. Heap!TypeOK'
  BY <1>1 DEF HeapInv, Heap!TypeOK
<1>3. Heap!NeverAlreadyAllocated'
  BY DEF Heap!NeverAlreadyAllocated
<1>4. Tiles(HeapBlocks, 2 ^ heapIndex)'
  BY <1>1 DEF HeapInv
<1>5. (hGiven = {<<e * Heap!MIN_BLOCK_SIZE, hAlloc[e]>> :
                   e \in {x \in Heap!Entry : hAlloc[x] # 0}})'
  BY <1>1 DEF HeapInv
<1> QED
  BY <1>1, <1>2, <1>3, <1>4, <1>5 DEF HeapInv

\* The lists of one block, and the empty ones.
LEMMA Single ==
  /\ \A y : Distinct(<<y>>) /\ \A x : x \in Heap!Range(<<y>>) <=> x = y
  /\ Distinct(<<>>) /\ \A x : x \notin Heap!Range(<<>>)
<1>1. \A y : DOMAIN <<y>> = {1} /\ <<y>>[1] = y
  OBVIOUS
<1>2. DOMAIN <<>> = {}
  OBVIOUS
<1>3. \A y : \A x : x \in Heap!Range(<<y>>) <=> x = y
  BY <1>1, Zenon DEF Heap!Range
<1>4. \A x : x \notin Heap!Range(<<>>)
  BY <1>2, Zenon DEF Heap!Range
<1>5. Distinct(<<>>) /\ \A y : Distinct(<<y>>)
  BY <1>1, <1>2, SMT DEF Distinct
<1> QED
  BY <1>3, <1>4, <1>5

LEMMA HeapStarts ==
  ASSUME Heap!Init
  PROVE  HeapInv
<1> DEFINE h == heapIndex
           i == Heap!AllocIndex(h)
           limit == 2 ^ h
           base == limit - 2 ^ i
<1>1. /\ h \in HeapIndexes /\ hAlloc = [e \in Heap!Entry |-> 0] /\ hGiven = {}
      /\ hOutcome = "init"
      /\ hFree = [k \in Heap!Index |->
                    IF k \in i .. h - 1 THEN <<limit - 2 ^ (k + 1)>> ELSE <<>>]
  BY DEF Heap!Init
<1>2. h \in Nat /\ i \in Nat /\ HeapMinIndex <= i /\ i <= h
  BY <1>1, HeapParameters, AllocIs
<1>3. limit \in Nat \ {0}
  BY <1>2, Powers
<1>4. /\ base \in Nat /\ BlockAt(base, i) = <<base, i>> /\ BlockAt(base, h) = <<0, h>>
      /\ \A k \in i .. h - 1 : Heap!Companion(base, k) = limit - 2 ^ (k + 1)
  BY <1>2, FirstBlocks
<1>5. Heap!AllocBlock = <<base, i>>
  BY DEF Heap!AllocBlock
<1>6. \A k \in i .. h - 1 : k \in Nat /\ k \in Heap!Index
  BY <1>1, <1>2, HeapParameters
<1> HIDE DEF h, i, limit, base
<1> DEFINE c(k) == Heap!Companion(base, k)
           B == Pieces(base, i, h)
<1>7. /\ \A k \in Heap!Index :
           hFree[k] = IF k \in i .. h - 1 THEN <<c(k)>> ELSE <<>>
  BY <1>1, <1>4
<1> HIDE DEF c
<1>8. /\ \A k \in Heap!Index : \A x :
           x \in Heap!Range(hFree[k]) <=> k \in i .. h - 1 /\ x = c(k)
      /\ \A k \in Heap!Index : Distinct(hFree[k])
  <2> SUFFICES ASSUME NEW k \in Heap!Index
               PROVE  /\ Distinct(hFree[k])
                      /\ \A x : x \in Heap!Range(hFree[k]) <=> k \in i .. h - 1 /\ x = c(k)
    OBVIOUS
  <2>1. CASE k \in i .. h - 1
    <3>1. hFree[k] = <<c(k)>>
      BY <1>7, <2>1
    <3> QED
      BY <2>1, <3>1, Single, Zenon
  <2>2. CASE k \notin i .. h - 1
    <3>1. hFree[k] = <<>>
      BY <1>7, <2>2
    <3> QED
      BY <2>2, <3>1, Single, Zenon
  <2> QED
    BY <2>1, <2>2
<1>9. Heap!FreeBlocks = {<<c(k), k>> : k \in i .. h - 1}
  BY <1>6, <1>8, FreeIs
<1>10. HeapBlocks = B
  BY <1>1, <1>4, <1>5, <1>9 DEF HeapBlocks, Pieces, c
<1>11. Tiles(B, 2 ^ heapIndex)
  <2>1. /\ \A x \in B :
             /\ x[1] \in Nat /\ x[2] \in i .. h /\ x = <<x[1], x[2]>> /\ x[1] % 2 ^ x[2] = 0
             /\ \A a \in Nat : Heap!Contains(x, a) => Heap!Contains(BlockAt(base, h), a)
             /\ x[1] + 2 ^ x[2] <= Heap!Aligned(base, h) + 2 ^ h
        /\ \A x, y \in B : \A a \in Nat : Heap!Contains(x, a) /\ Heap!Contains(y, a) => x = y
        /\ \A a \in Nat : Heap!Contains(BlockAt(base, h), a) => \E x \in B : Heap!Contains(x, a)
    <3>1. base \in Nat /\ i \in Nat /\ h \in Nat /\ i <= h
      BY <1>2, <1>4
    <3> QED
      BY <3>1, PiecesTile
  <2>2. Heap!Aligned(base, h) + 2 ^ h = 2 ^ heapIndex
    <3>1. Heap!Aligned(base, h) = 0
      BY <1>4 DEF BlockAt
    <3> QED
      BY <1>3, <3>1 DEF limit, h
  <2>3. \A a \in Nat : a < 2 ^ heapIndex => Heap!Contains(BlockAt(base, h), a)
    <3> SUFFICES ASSUME NEW a \in Nat, a < limit
                 PROVE  Heap!Contains(<<0, h>>, a)
      BY <1>4 DEF limit, h
    <3> QED
      BY <1>3 DEF Heap!Contains, limit
  <2>4. \A x \in B : x[2] \in Nat
    BY <1>2, <2>1
  <2> HIDE DEF B
  <2> QED
    BY <2>1, <2>2, <2>3, <2>4 DEF Tiles
<1>12. \A k \in i .. h - 1 : c(k) \in Heap!Base /\ c(k) \in Nat
  <2> SUFFICES ASSUME NEW k \in i .. h - 1
               PROVE  c(k) \in Heap!Base /\ c(k) \in Nat
    OBVIOUS
  <2> DEFINE x == <<c(k), k>>
  <2>1. x \in B
    BY DEF Pieces, c
  <2>2. x[1] = c(k) /\ x[2] = k /\ HeapMinIndex <= x[2]
    BY <1>2, HeapParameters
  <2> HIDE DEF x, B
  <2>3. heapIndex \in HeapIndexes
    BY <1>1 DEF h
  <2> QED
    BY <1>11, <2>1, <2>2, <2>3, BlockIs
<1>13. Heap!TypeOK
  <2>1. ASSUME NEW k \in Heap!Index PROVE hFree[k] \in Seq(Heap!Base)
    <3>1. CASE k \in i .. h - 1
      <4>1. hFree[k] = <<c(k)>> /\ c(k) \in Heap!Base
        BY <1>7, <1>12, <3>1
      <4> HIDE DEF c
      <4> QED
        BY <4>1
    <3>2. CASE k \notin i .. h - 1
      <4>1. hFree[k] = <<>>
        BY <1>7, <3>2
      <4> QED
        BY <4>1
    <3> QED
      BY <3>1, <3>2
  <2>2. hFree \in [Heap!Index -> Seq(Heap!Base)]
    BY <1>1, <2>1
  <2> QED
    BY <1>1, <2>2 DEF Heap!TypeOK, h
<1>14. \A k \in i .. h - 1 : Heap!Companion(c(k), k) # c(k)
  BY <1>6, <1>12, CompanionOther
<1>15. Heap!AllocBlock \notin Heap!FreeBlocks
  <2> SUFFICES ASSUME NEW k \in i .. h - 1, <<base, i>> = <<c(k), k>> PROVE FALSE
    BY <1>5, <1>9
  <2>1. c(k) # base
    BY <1>4, <1>6, CompanionOther DEF c
  <2> QED
    BY <2>1
<1>16. \A e \in Heap!Entry : hAlloc[e] = 0
  BY <1>1
<1>17. hGiven = {<<e * Heap!MIN_BLOCK_SIZE, hAlloc[e]>> : e \in {x \in Heap!Entry : hAlloc[x] # 0}}
  BY <1>1, <1>16
<1>18. \A k \in Heap!Index : \A b \in Heap!Range(hFree[k]) :
         Heap!Companion(b, k) \notin Heap!Range(hFree[k])
  BY <1>8, <1>14
<1>19. Heap!NeverAlreadyAllocated
  BY <1>1 DEF Heap!NeverAlreadyAllocated
<1> HIDE DEF B
<1> QED
  BY <1>1, <1>8, <1>10, <1>11, <1>13, <1>15, <1>17, <1>18, <1>19 DEF HeapInv

\* A larger block is split: its halves above the block that is given become free.
LEMMA HeapMalloc ==
  ASSUME HeapInv, NEW size \in HeapRequests, Heap!Malloc(size)
  PROVE  HeapInv'
<1> DEFINE i == Heap!SizeIndex(size)
           fit == {k \in i .. heapIndex : hFree[k] # <<>>}
           j == Heap!Min(fit)
           base == Head(hFree[j])
           e == base \div Heap!MIN_BLOCK_SIZE
           w == <<base, j>>
           u == <<base, i>>
           uppers == {<<base + 2 ^ k, k>> : k \in i .. j - 1}
           P == Pieces(base, i, j)
           B == (HeapBlocks \ {w}) \cup P
<1>1. /\ fit # {} /\ hFree' = Heap!TakeBlock(base, j, i) /\ heapIndex' = heapIndex
      /\ hOutcome' = (IF hAlloc[e] = 0 THEN "block" ELSE "already allocated")
      /\ hAlloc' = (IF hAlloc[e] = 0 THEN [hAlloc EXCEPT ![e] = i] ELSE hAlloc)
      /\ hGiven' = (IF hAlloc[e] = 0 THEN hGiven \cup {u} ELSE hGiven)
  BY DEF Heap!Malloc
<1>2. i \in Nat /\ HeapMinIndex <= i
  BY SizeIndexIs
<1>3. /\ heapIndex \in HeapIndexes /\ heapIndex \in Nat /\ HeapMinIndex <= heapIndex
      /\ HeapMinIndex \in Nat \ {0}
  BY BlocksAre, HeapParameters
<1>4. /\ hFree \in [Heap!Index -> Seq(Heap!Base)] /\ hAlloc \in [Heap!Entry -> {0} \cup Heap!Index]
      /\ hGiven \subseteq Heap!Base \X Heap!Index
      /\ Tiles(HeapBlocks, 2 ^ heapIndex) /\ Heap!FreeBlocks \cap hGiven = {}
      /\ Heap!AllocBlock \notin Heap!FreeBlocks \cup hGiven
      /\ \A k \in Heap!Index : Distinct(hFree[k])
      /\ hGiven = {<<x * Heap!MIN_BLOCK_SIZE, hAlloc[x]>> : x \in {y \in Heap!Entry : hAlloc[y] # 0}}
      /\ \A k \in Heap!Index : \A b \in Heap!Range(hFree[k]) :
           Heap!Companion(b, k) \notin Heap!Range(hFree[k])
  BY DEF HeapInv, Heap!TypeOK
<1> HIDE DEF i
<1>5. /\ j \in fit /\ \A k \in fit : j <= k
  <2>1. fit \in SUBSET Nat
    BY <1>2, <1>3
  <2>2. \E k \in fit : \A l \in fit : k <= l
    BY <1>1, <2>1, LeastIndex
  <2> HIDE DEF fit
  <2> QED
    BY <2>2 DEF Heap!Min
<1> HIDE DEF j
<1>6. /\ j \in Nat /\ i <= j /\ j <= heapIndex /\ hFree[j] # <<>>
      /\ \A k \in i .. j - 1 : hFree[k] = <<>>
  <2>1. j \in i .. heapIndex /\ hFree[j] # <<>>
    BY <1>5
  <2>2. ASSUME NEW k \in i .. j - 1 PROVE hFree[k] = <<>>
    <3>1. k \in i .. heapIndex /\ ~(j <= k)
      BY <1>2, <1>3, <2>1
    <3> QED
      BY <1>5, <3>1
  <2> QED
    BY <1>2, <1>3, <2>1, <2>2
<1> HIDE DEF fit
<1>7. /\ \A k \in i .. j - 1 : k \in Nat /\ k < j /\ HeapMinIndex <= k /\ k \in Heap!Index
      /\ i \in Heap!Index /\ i # 0 /\ j \in Heap!Index
  <2>1. \A k \in i .. j - 1 : k \in Nat /\ k < j /\ HeapMinIndex <= k /\ k <= heapIndex
    BY <1>2, <1>3, <1>6
  <2>2. HeapMinIndex <= j /\ i <= heapIndex /\ i # 0
    BY <1>2, <1>3, <1>6
  <2> QED
    BY <1>2, <1>3, <1>6, <2>1, <2>2, HeapParameters
<1>8. /\ base \in Heap!Range(hFree[j]) /\ base \in Heap!Base
      /\ Tail(hFree[j]) \in Seq(Heap!Base) /\ Distinct(Tail(hFree[j]))
      /\ Heap!Range(Tail(hFree[j])) = Heap!Range(hFree[j]) \ {base}
  <2>1. hFree[j] \in Seq(Heap!Base) /\ Distinct(hFree[j])
    BY <1>4, <1>7
  <2> QED
    BY <1>6, <2>1, ListPop
<1> HIDE DEF base
<1>9. w \in Heap!FreeBlocks /\ w \in HeapBlocks
  BY <1>7, <1>8, FreeIs DEF HeapBlocks
<1>10. base \in Nat /\ base % 2 ^ j = 0
  <2>1. w[1] = base /\ w[2] = j
    OBVIOUS
  <2> HIDE DEF w
  <2> QED
    BY <1>9, <2>1, BlocksAre
<1>11. /\ BlockAt(base, j) = w /\ BlockAt(base, i) = u
       /\ \A k \in i .. j - 1 : Heap!Companion(base, k) = base + 2 ^ k
  <2>1. Heap!Aligned(base, j) = base /\ Heap!Aligned(base, i) = base
    BY <1>2, <1>6, <1>10, AlignedDown
  <2>2. \A k \in i .. j - 1 : Heap!Companion(base, k) = base + 2 ^ k
    BY <1>6, <1>7, <1>10, UpperHalf
  <2> QED
    BY <2>1, <2>2 DEF BlockAt
<1>12. P = {u} \cup uppers
  BY <1>11 DEF Pieces
<1>13. Tiles(B, 2 ^ heapIndex) /\ (HeapBlocks \ {w}) \cap P = {}
  <2>1. 2 ^ heapIndex \in Nat
    BY <1>3, Powers
  <2>2. BlockAt(base, j) \in HeapBlocks
    BY <1>9, <1>11
  <2> QED
    BY <1>2, <1>4, <1>6, <1>10, <1>11, <2>1, <2>2, SplitTiles
<1> HIDE DEF P, u, w
<1>14. e \in Heap!Entry /\ e * Heap!MIN_BLOCK_SIZE = base
  BY <1>3, <1>8, BaseIs
<1> HIDE DEF e
<1>15. hAlloc[e] = 0
  <2> SUFFICES ASSUME hAlloc[e] # 0 PROVE FALSE
    OBVIOUS
  <2> DEFINE g == <<base, hAlloc[e]>>
  <2>1. g \in hGiven
    BY <1>4, <1>14
  <2>2. g \in HeapBlocks /\ g[1] = base /\ w[1] = base
    BY <2>1 DEF HeapBlocks, w
  <2> HIDE DEF g
  <2>3. g[2] \in Nat /\ w[2] \in Nat
    BY <1>9, <2>2, BlocksAre
  <2>4. Heap!Contains(g, base) /\ Heap!Contains(w, base)
    BY <1>10, <2>2, <2>3, OwnBase
  <2>5. g = w
    BY <1>4, <1>9, <1>10, <2>2, <2>4 DEF Tiles
  <2> QED
    BY <1>4, <1>9, <2>1, <2>5
<1>16. /\ hOutcome' = "block" /\ hAlloc' = [hAlloc EXCEPT ![e] = i]
       /\ hGiven' = hGiven \cup {u}
  BY <1>1, <1>15
<1>17. \A k \in i .. j - 1 :
         base + 2 ^ k \in Heap!Base /\ Heap!Companion(base + 2 ^ k, k) # base + 2 ^ k
  <2> SUFFICES ASSUME NEW k \in i .. j - 1
               PROVE  base + 2 ^ k \in Heap!Base
                      /\ Heap!Companion(base + 2 ^ k, k) # base + 2 ^ k
    OBVIOUS
  <2> DEFINE c == base + 2 ^ k
             x == <<c, k>>
  <2>1. x \in B
    BY <1>12
  <2>2. x[1] = c /\ x[2] = k
    OBVIOUS
  <2> HIDE DEF x, c, B
  <2>3. c \in Heap!Base /\ c \in Nat /\ k \in Nat
    BY <1>3, <1>7, <1>13, <2>1, <2>2, BlockIs
  <2>4. Heap!Companion(c, k) # c
    BY <2>3, CompanionOther
  <2> QED
    BY <2>3, <2>4 DEF c
<1>18. \A k \in Heap!Index :
         hFree'[k] = IF k = j THEN Tail(hFree[j])
                     ELSE IF k \in i .. j - 1 THEN <<base + 2 ^ k>> ELSE hFree[k]
  <2> SUFFICES ASSUME NEW k \in Heap!Index
               PROVE  hFree'[k] = IF k = j THEN Tail(hFree[j])
                                  ELSE IF k \in i .. j - 1 THEN <<base + 2 ^ k>> ELSE hFree[k]
    OBVIOUS
  <2>1. hFree'[k] = IF k = j THEN Tail(hFree[k])
                    ELSE IF k \in i .. j - 1 THEN <<base + 2 ^ k>> \o hFree[k] ELSE hFree[k]
    BY <1>1 DEF Heap!TakeBlock
  <2>2. \A c : <<c>> \o <<>> = <<c>>
    OBVIOUS
  <2> QED
    BY <1>6, <2>1, <2>2
<1>19. ASSUME NEW k \in Heap!Index
       PROVE  /\ hFree'[k] \in Seq(Heap!Base) /\ Distinct(hFree'[k])
              /\ k = j => Heap!Range(hFree'[k]) = Heap!Range(hFree[k]) \ {base}
              /\ k \in i .. j - 1 => /\ Heap!Range(hFree[k]) = {}
                                     /\ Heap!Range(hFree'[k]) = {base + 2 ^ k}
              /\ k # j /\ k \notin i .. j - 1 => hFree'[k] = hFree[k]
  <2>1. CASE k = j
    <3>1. hFree'[k] = Tail(hFree[j]) /\ k \notin i .. j - 1
      BY <1>2, <1>6, <1>18, <2>1
    <3> QED
      BY <1>8, <2>1, <3>1
  <2>2. CASE k \in i .. j - 1
    <3> DEFINE c == base + 2 ^ k
    <3>1. k # j /\ hFree'[k] = <<c>> /\ c \in Heap!Base /\ hFree[k] = <<>>
      BY <1>2, <1>6, <1>17, <1>18, <2>2
    <3> HIDE DEF c
    <3>2. <<c>> \in Seq(Heap!Base)
      BY <3>1
    <3>3. Distinct(<<c>>) /\ Heap!Range(<<c>>) = {c} /\ Heap!Range(<<>>) = {}
      BY Single
    <3> QED
      BY <2>2, <3>1, <3>2, <3>3 DEF c
  <2>3. CASE k # j /\ k \notin i .. j - 1
    BY <1>4, <1>18, <2>3
  <2> QED
    BY <2>1, <2>2, <2>3
<1>20. Heap!FreeBlocks' = (Heap!FreeBlocks \ {w}) \cup uppers
  <2> DEFINE new == (Heap!FreeBlocks \ {w}) \cup uppers
  <2>1. ASSUME NEW k \in Heap!Index, NEW x
        PROVE  <<x, k>> \in Heap!FreeBlocks' <=> <<x, k>> \in new
    <3>1. <<x, k>> \in Heap!FreeBlocks' <=> x \in Heap!Range(hFree'[k])
      BY FreeIs
    <3>2. <<x, k>> \in Heap!FreeBlocks <=> x \in Heap!Range(hFree[k])
      BY FreeIs
    <3>3. <<x, k>> = w <=> x = base /\ k = j
      BY DEF w
    <3>4. <<x, k>> \in uppers <=> k \in i .. j - 1 /\ x = base + 2 ^ k
      OBVIOUS
    <3> HIDE DEF uppers
    <3>5. k = j => k \notin i .. j - 1
      BY <1>2, <1>6
    <3> QED
      BY <1>19, <3>1, <3>2, <3>3, <3>4, <3>5
  <2>2. \A z \in Heap!FreeBlocks' : z = <<z[1], z[2]>> /\ z[2] \in Heap!Index
    BY FreeIs
  <2>3. \A z \in new : z = <<z[1], z[2]>> /\ z[2] \in Heap!Index
    BY <1>7, FreeIs
  <2> HIDE DEF new
  <2>4. \A z : z \in Heap!FreeBlocks' <=> z \in new
    BY <2>1, <2>2, <2>3
  <2> QED
    BY <2>4 DEF new
<1>21. /\ Heap!AllocBlock' = Heap!AllocBlock /\ Heap!Base' = Heap!Base
       /\ Heap!Entry' = Heap!Entry
  BY <1>1, HeapFrame
<1>22. u \notin uppers
  <2> SUFFICES ASSUME NEW k \in i .. j - 1, <<base, i>> = <<base + 2 ^ k, k>> PROVE FALSE
    BY DEF u
  <2>1. 2 ^ k \in Nat \ {0} /\ base = base + 2 ^ k
    BY <1>7, Powers
  <2> QED
    BY <1>10, <2>1
<1> HIDE DEF uppers
<1>23. HeapBlocks' = B
  <2>1. w \in Heap!FreeBlocks /\ w \notin hGiven /\ w # Heap!AllocBlock
    BY <1>4, <1>9
  <2> QED
    BY <1>12, <1>16, <1>20, <1>21, <2>1 DEF HeapBlocks
<1>24. Tiles(HeapBlocks, 2 ^ heapIndex)'
  BY <1>1, <1>13, <1>23
<1>25. /\ (Heap!FreeBlocks \cap hGiven = {})'
       /\ (Heap!AllocBlock \notin Heap!FreeBlocks \cup hGiven)'
  <2>1. /\ hGiven \subseteq HeapBlocks \ {w} /\ Heap!FreeBlocks \ {w} \subseteq HeapBlocks \ {w}
        /\ Heap!AllocBlock \in HeapBlocks \ {w}
    BY <1>4, <1>9 DEF HeapBlocks
  <2>2. u \in P /\ uppers \subseteq P
    BY <1>12
  <2> QED
    BY <1>4, <1>13, <1>16, <1>20, <1>21, <1>22, <2>1, <2>2
<1>26. Heap!TypeOK'
  <2>1. hFree' \in [Heap!Index -> Seq(Heap!Base)]
    <3>1. hFree' = [k \in Heap!Index |-> hFree'[k]]
      BY <1>1 DEF Heap!TakeBlock
    <3> QED
      BY <1>19, <3>1
  <2>2. hAlloc' \in [Heap!Entry -> {0} \cup Heap!Index]
    BY <1>4, <1>7, <1>16
  <2>3. hGiven' \subseteq Heap!Base \X Heap!Index
    BY <1>4, <1>7, <1>8, <1>16 DEF u
  <2> QED
    BY <1>1, <1>3, <1>21, <2>1, <2>2, <2>3 DEF Heap!TypeOK
<1>27. \A k \in Heap!Index : Distinct(hFree'[k])
  BY <1>19
<1>28. ASSUME NEW k \in Heap!Index, NEW b \in Heap!Range(hFree'[k])
       PROVE  Heap!Companion(b, k) \notin Heap!Range(hFree'[k])
  BY <1>4, <1>17, <1>19, <1>28
<1>29. (hGiven = {<<x * Heap!MIN_BLOCK_SIZE, hAlloc[x]>> :
                    x \in {y \in Heap!Entry : hAlloc[y] # 0}})'
  <2> DEFINE block(x) == <<x * Heap!MIN_BLOCK_SIZE, hAlloc[x]>>
  <2>1. /\ \A x \in Heap!Entry : x # e => hAlloc'[x] = hAlloc[x]
        /\ hAlloc'[e] = i
    BY <1>4, <1>14, <1>16
  <2>2. \A x \in Heap!Entry : hAlloc'[x] # 0 <=> (hAlloc[x] # 0 \/ x = e)
    BY <1>7, <2>1
  <2>3. <<e * Heap!MIN_BLOCK_SIZE, hAlloc'[e]>> = u
    BY <1>14, <2>1 DEF u
  <2>4. \A x \in Heap!Entry : x # e => <<x * Heap!MIN_BLOCK_SIZE, hAlloc'[x]>> = block(x)
    BY <2>1
  <2>5. Heap!MIN_BLOCK_SIZE' = Heap!MIN_BLOCK_SIZE
    BY DEF Heap!MIN_BLOCK_SIZE
  <2>6. hGiven' = {<<x * Heap!MIN_BLOCK_SIZE, hAlloc'[x]>> :
                     x \in {y \in Heap!Entry : hAlloc'[y] # 0}}
    <3>1. ASSUME NEW z \in hGiven'
          PROVE  \E x \in Heap!Entry : hAlloc'[x] # 0 /\ z = <<x * Heap!MIN_BLOCK_SIZE, hAlloc'[x]>>
      <4>1. CASE z = u
        BY <1>14, <2>2, <2>3, <4>1
      <4>2. CASE z \in hGiven
        BY <1>4, <1>15, <2>2, <2>4, <4>2
      <4> QED
        BY <1>16, <4>1, <4>2
    <3>2. ASSUME NEW x \in Heap!Entry, hAlloc'[x] # 0
          PROVE  <<x * Heap!MIN_BLOCK_SIZE, hAlloc'[x]>> \in hGiven'
      <4>1. CASE x = e
        BY <1>16, <2>3, <4>1
      <4>2. CASE x # e
        BY <1>4, <1>16, <2>2, <2>4, <3>2, <4>2
      <4> QED
        BY <4>1, <4>2
    <3> QED
      BY <3>1, <3>2
  <2> QED
    BY <1>21, <2>5, <2>6
<1>30. Heap!NeverAlreadyAllocated'
  BY <1>16 DEF Heap!NeverAlreadyAllocated
<1>31. (\A k \in Heap!Index : \A b \in Heap!Range(hFree[k]) :
          Heap!Companion(b, k) \notin Heap!Range(hFree[k]))'
  BY <1>28
<1> QED
  BY <1>24, <1>25, <1>26, <1>27, <1>29, <1>30, <1>31 DEF HeapInv

\* A block is released: it is merged with the companions that are free.
LEMMA HeapFree ==
  ASSUME HeapInv, NEW ptr0 \in Heap!Pointers, Heap!Free(ptr0)
  PROVE  HeapInv'
<1> DEFINE p == Heap!MIN_BLOCK_SIZE
           e == ptr0 \div p
           i == hAlloc[e]
           cand == {k \in i .. Heap!Max(HeapIndexes) :
                      Heap!Companion(ptr0, k) \notin Heap!Range(hFree[k])}
           m == Heap!Min(cand)
           low == Heap!Aligned(ptr0, m)
           c(k) == Heap!Companion(ptr0, k)
           u == <<ptr0, i>>
           w == <<low, m>>
           buddies == {<<c(k), k>> : k \in i .. m - 1}
           P == Pieces(ptr0, i, m)
           B == (HeapBlocks \ P) \cup {w}
<1>1. /\ i # 0 /\ ptr0 % 2 ^ i = 0 /\ hFree' = Heap!GiveBack(ptr0, i) /\ heapIndex' = heapIndex
      /\ hOutcome' = "released" /\ hAlloc' = [hAlloc EXCEPT ![e] = 0]
      /\ hGiven' = hGiven \ {u}
  BY DEF Heap!Free
<1>2. hFree' = [k \in Heap!Index |->
                  IF k = m THEN <<Heap!Aligned(ptr0, k)>> \o hFree[k]
                  ELSE IF k \in i .. m - 1 THEN Heap!Without(hFree[k], c(k)) ELSE hFree[k]]
  BY <1>1 DEF Heap!GiveBack
<1>3. /\ heapIndex \in HeapIndexes /\ heapIndex \in Nat /\ HeapMinIndex <= heapIndex
      /\ HeapMinIndex \in Nat \ {0} /\ p = 2 ^ HeapMinIndex
  BY BlocksAre, HeapParameters
<1>4. /\ hFree \in [Heap!Index -> Seq(Heap!Base)] /\ hAlloc \in [Heap!Entry -> {0} \cup Heap!Index]
      /\ hGiven \subseteq Heap!Base \X Heap!Index
      /\ Tiles(HeapBlocks, 2 ^ heapIndex) /\ Heap!FreeBlocks \cap hGiven = {}
      /\ Heap!AllocBlock \notin Heap!FreeBlocks \cup hGiven
      /\ \A k \in Heap!Index : Distinct(hFree[k])
      /\ hGiven = {<<x * p, hAlloc[x]>> : x \in {y \in Heap!Entry : hAlloc[y] # 0}}
      /\ \A k \in Heap!Index : \A b \in Heap!Range(hFree[k]) :
           Heap!Companion(b, k) \notin Heap!Range(hFree[k])
  BY DEF HeapInv, Heap!TypeOK
<1> HIDE DEF m, cand, i
<1>5. p \in Nat /\ p >= 2
  <2>1. 2 * 2 ^ 0 <= 2 ^ HeapMinIndex /\ 2 ^ 0 = 1 /\ 2 ^ HeapMinIndex \in Nat
    <3>1. \A k \in Nat : 0 < k => 2 * 2 ^ 0 <= 2 ^ k
      BY PowersGrow
    <3>2. HeapMinIndex \in Nat /\ 0 < HeapMinIndex
      BY <1>3
    <3> QED
      BY <3>1, <3>2, Powers
  <2> QED
    BY <1>3, <2>1
<1> HIDE DEF p
<1>6. \E x \in Heap!Entry : \E d \in {0, 1} : ptr0 = x * p + d
  BY DEF Heap!Pointers, p
<1>7. PICK x0 \in Heap!Entry, d \in {0, 1} : ptr0 = x0 * p + d
  BY <1>6
<1>8. x0 \in Nat /\ ptr0 \in Nat /\ ptr0 % p = d /\ ptr0 \div p = x0
  <2>1. x0 \in Nat
    BY DEF Heap!Entry
  <2>2. d \in 0 .. p - 1 /\ p \in Nat \ {0}
    BY <1>5
  <2>3. (p * x0 + d) % p = d /\ (p * x0 + d) \div p = x0
    BY <2>1, <2>2, Remainder
  <2>4. p * x0 = x0 * p /\ x0 * p \in Nat
    BY <1>5, <2>1
  <2> QED
    BY <1>7, <2>1, <2>3, <2>4
<1>9. e = x0 /\ e \in Heap!Entry
  BY <1>7, <1>8
<1>10. i \in Heap!Index /\ i \in Nat /\ HeapMinIndex <= i
  BY <1>1, <1>4, <1>9, HeapParameters DEF i
<1>11. e * p = ptr0
  <2>1. ptr0 % 2 ^ HeapMinIndex = 0
    BY <1>1, <1>3, <1>8, <1>10, AlignedDown
  <2>2. d = 0 /\ x0 * p \in Nat
    BY <1>3, <1>5, <1>8, <2>1
  <2> QED
    BY <1>7, <1>9, <2>2
<1>12. u \in hGiven /\ u \in HeapBlocks
  <2>1. <<e * p, hAlloc[e]>> \in hGiven
    BY <1>1, <1>4, <1>9 DEF i
  <2> QED
    BY <1>11, <2>1 DEF i, HeapBlocks
<1>13. ptr0 + 2 ^ i <= 2 ^ heapIndex /\ i <= heapIndex
  <2>1. u[1] = ptr0 /\ u[2] = i
    OBVIOUS
  <2> HIDE DEF u
  <2> QED
    BY <1>12, <2>1, BlocksAre
<1>14. Heap!Aligned(ptr0, heapIndex) = 0 /\ c(heapIndex) = 2 ^ heapIndex
  <2> DEFINE next == heapIndex + 1
  <2>1. /\ 2 ^ i \in Nat \ {0} /\ 2 ^ heapIndex \in Nat \ {0} /\ 2 ^ next = 2 * 2 ^ heapIndex
        /\ next \in Nat
    BY <1>3, <1>10, Powers
  <2>2. c(heapIndex) \in Nat
        /\ \/ Heap!Aligned(ptr0, heapIndex) = Heap!Aligned(ptr0, next)
              /\ c(heapIndex) = Heap!Aligned(ptr0, heapIndex) + 2 ^ heapIndex
           \/ Heap!Aligned(ptr0, heapIndex) = Heap!Aligned(ptr0, next) + 2 ^ heapIndex
    BY <1>3, <1>8, Buddies
  <2> HIDE DEF next, c
  <2>3. 0 % 2 ^ heapIndex = 0 /\ 0 % 2 ^ next = 0 /\ ptr0 < 2 ^ heapIndex /\ ptr0 < 2 ^ next
    BY <1>8, <1>13, <2>1
  <2>4. Heap!Aligned(ptr0, heapIndex) = 0
    BY <1>3, <1>8, <2>1, <2>3, AlignedIs
  <2>5. Heap!Aligned(ptr0, next) = 0
    BY <1>8, <2>1, <2>3, AlignedIs
  <2> QED
    BY <2>1, <2>2, <2>4, <2>5
<1>15. heapIndex \in cand
  <2>1. 2 ^ heapIndex \notin Heap!Base
    <3>1. 2 ^ heapIndex \in Nat /\ \A a \in Heap!Base : a < 2 ^ heapIndex
      BY <1>3, BaseIs, Powers
    <3> QED
      BY <3>1
  <2>2. Heap!Range(hFree[heapIndex]) \subseteq Heap!Base
    <3>1. hFree[heapIndex] \in Seq(Heap!Base)
      BY <1>3, <1>4, HeapParameters
    <3> QED
      BY <3>1 DEF Heap!Range
  <2>3. heapIndex \in HeapMinIndex .. Heap!Max(HeapIndexes)
    BY <1>3, HeapParameters
  <2>4. heapIndex \in i .. Heap!Max(HeapIndexes)
    BY <1>3, <1>10, <1>13, <2>3
  <2> QED
    BY <1>14, <2>1, <2>2, <2>4 DEF cand
<1>16. m \in cand /\ \A k \in cand : m <= k
  <2>1. cand \in SUBSET Nat
    BY <1>10 DEF cand
  <2>2. \E k \in cand : \A l \in cand : k <= l
    BY <1>15, <2>1, LeastIndex
  <2> QED
    BY <2>2 DEF m, Heap!Min
<1>17. /\ m \in Nat /\ i <= m /\ m <= heapIndex /\ c(m) \notin Heap!Range(hFree[m])
       /\ \A k \in i .. m - 1 : c(k) \in Heap!Range(hFree[k])
  <2>1. m \in i .. Heap!Max(HeapIndexes) /\ c(m) \notin Heap!Range(hFree[m]) /\ m <= heapIndex
    BY <1>15, <1>16 DEF cand
  <2>2. ASSUME NEW k \in i .. m - 1 PROVE c(k) \in Heap!Range(hFree[k])
    <3>1. k \in i .. Heap!Max(HeapIndexes) /\ ~(m <= k)
      BY <1>3, <1>10, <2>1, HeapParameters
    <3>2. k \notin cand
      BY <1>16, <3>1
    <3> QED
      BY <3>1, <3>2 DEF cand
  <2> QED
    BY <1>10, <2>1, <2>2
<1>18. /\ \A k \in i .. m - 1 : k \in Nat /\ k < m /\ k # m /\ k \in Heap!Index
       /\ m \in Heap!Index
  <2>1. \A k \in i .. m - 1 : k \in Nat /\ k < m /\ k # m /\ HeapMinIndex <= k /\ k <= heapIndex
    BY <1>3, <1>10, <1>17
  <2>2. HeapMinIndex <= m
    BY <1>3, <1>10, <1>17
  <2> QED
    BY <1>3, <1>17, <2>1, <2>2, HeapParameters
<1>19. P = {u} \cup buddies
  <2>1. BlockAt(ptr0, i) = u
    BY <1>1, <1>8, <1>10, AlignedDown DEF BlockAt
  <2> QED
    BY <2>1 DEF Pieces
<1>20. buddies \subseteq Heap!FreeBlocks /\ P \subseteq HeapBlocks
  <2>1. buddies \subseteq Heap!FreeBlocks
    BY <1>17, <1>18, FreeIs
  <2> QED
    BY <1>12, <1>19, <2>1 DEF HeapBlocks
<1>21. Tiles(B, 2 ^ heapIndex) /\ w \notin HeapBlocks \ P
  <2>1. 2 ^ heapIndex \in Nat /\ 2 ^ heapIndex = Heap!Aligned(ptr0, heapIndex) + 2 ^ heapIndex
    BY <1>3, <1>14, Powers
  <2>2. low + 2 ^ m <= 2 ^ heapIndex
    BY <1>3, <1>8, <1>17, <2>1, Nested
  <2>3. w = BlockAt(ptr0, m)
    BY DEF BlockAt
  <2>4. /\ Tiles((HeapBlocks \ P) \cup {BlockAt(ptr0, m)}, 2 ^ heapIndex)
        /\ BlockAt(ptr0, m) \notin HeapBlocks \ P
    <3>1. Tiles(HeapBlocks, 2 ^ heapIndex) /\ 2 ^ heapIndex \in Nat
      BY <1>4, <2>1
    <3>2. ptr0 \in Nat /\ i \in Nat /\ m \in Nat /\ i <= m
      BY <1>8, <1>10, <1>17
    <3>3. Pieces(ptr0, i, m) \subseteq HeapBlocks
      BY <1>20
    <3>4. Heap!Aligned(ptr0, m) + 2 ^ m <= 2 ^ heapIndex
      BY <2>2
    <3> HIDE DEF w, buddies, low, c
    <3> QED
      BY <3>1, <3>2, <3>3, <3>4, MergeTiles
  <2> QED
    BY <2>3, <2>4
<1>22. w \notin Heap!FreeBlocks /\ (w = u \/ w \notin HeapBlocks)
  <2>1. CASE w = u
    BY <1>4, <1>12, <2>1
  <2>2. CASE w # u
    <3>1. w \notin buddies
      BY <1>18
    <3> QED
      BY <1>19, <1>21, <2>2, <3>1 DEF HeapBlocks
  <2> QED
    BY <2>1, <2>2
<1> HIDE DEF P, B
<1>23. low \in Heap!Base /\ low \in Nat /\ low % 2 ^ m = 0
  <2>1. w[1] = low /\ w[2] = m /\ w \in B /\ HeapMinIndex <= m
    BY <1>3, <1>10, <1>17 DEF B
  <2> HIDE DEF w, low
  <2> QED
    BY <1>3, <1>21, <2>1, BlockIs
<1>24. \A k \in i .. m - 1 : c(k) \in Heap!Base
  BY <1>4, <1>17, <1>18 DEF Heap!Range
<1>25. low \notin Heap!Range(hFree[m])
  BY <1>18, <1>22, FreeIs
<1>26. /\ Heap!Companion(low, m) = c(m) /\ c(m) # low
  <2>1. Heap!Companion(low, m) = c(m)
    BY <1>8, <1>17, CompanionOfBase
  <2>2. Heap!Companion(low, m) # low
    BY <1>17, <1>23, CompanionOther
  <2> QED
    BY <2>1, <2>2
<1> HIDE DEF low, c
<1>27. ASSUME NEW k \in Heap!Index
       PROVE  /\ hFree'[k] \in Seq(Heap!Base) /\ Distinct(hFree'[k])
              /\ k = m => Heap!Range(hFree'[k]) = Heap!Range(hFree[k]) \cup {low}
              /\ k \in i .. m - 1 => Heap!Range(hFree'[k]) = Heap!Range(hFree[k]) \ {c(k)}
              /\ k # m /\ k \notin i .. m - 1 => hFree'[k] = hFree[k]
  <2>0. hFree[k] \in Seq(Heap!Base) /\ Distinct(hFree[k])
    BY <1>4
  <2>1. CASE k = m
    <3>1. hFree'[k] = <<low>> \o hFree[k] /\ k \notin i .. m - 1
      BY <1>2, <1>18, <2>1 DEF low
    <3>2. low \notin Heap!Range(hFree[k])
      BY <1>25, <2>1
    <3>3. /\ <<low>> \o hFree[k] \in Seq(Heap!Base) /\ Distinct(<<low>> \o hFree[k])
          /\ Heap!Range(<<low>> \o hFree[k]) = Heap!Range(hFree[k]) \cup {low}
      BY <1>23, <2>0, <3>2, ListPush
    <3> QED
      BY <2>1, <3>1, <3>3
  <2>2. CASE k \in i .. m - 1
    <3>1. hFree'[k] = Heap!Without(hFree[k], c(k)) /\ k # m
      BY <1>2, <1>18, <2>2
    <3>2. c(k) \in Heap!Range(hFree[k])
      BY <1>17, <2>2 DEF c
    <3>3. /\ Heap!Without(hFree[k], c(k)) \in Seq(Heap!Base)
          /\ Distinct(Heap!Without(hFree[k], c(k)))
          /\ Heap!Range(Heap!Without(hFree[k], c(k))) = Heap!Range(hFree[k]) \ {c(k)}
      BY <2>0, <3>2, ListRemove
    <3> QED
      BY <2>2, <3>1, <3>3
  <2>3. CASE k # m /\ k \notin i .. m - 1
    <3>1. hFree'[k] = hFree[k]
      BY <1>2, <2>3
    <3> QED
      BY <2>0, <2>3, <3>1
  <2> QED
    BY <2>1, <2>2, <2>3
<1>28. Heap!FreeBlocks' = (Heap!FreeBlocks \ buddies) \cup {w}
  <2> DEFINE new == (Heap!FreeBlocks \ buddies) \cup {w}
  <2>1. ASSUME NEW k \in Heap!Index, NEW x
        PROVE  <<x, k>> \in Heap!FreeBlocks' <=> <<x, k>> \in new
    <3>1. <<x, k>> \in Heap!FreeBlocks' <=> x \in Heap!Range(hFree'[k])
      BY FreeIs
    <3>2. <<x, k>> \in Heap!FreeBlocks <=> x \in Heap!Range(hFree[k])
      BY FreeIs
    <3>3. <<x, k>> = w <=> x = low /\ k = m
      OBVIOUS
    <3>4. <<x, k>> \in buddies <=> k \in i .. m - 1 /\ x = c(k)
      OBVIOUS
    <3> HIDE DEF buddies, w
    <3>5. k = m => k \notin i .. m - 1
      BY <1>18
    <3> QED
      BY <1>27, <3>1, <3>2, <3>3, <3>4, <3>5
  <2>2. \A z \in Heap!FreeBlocks' : z = <<z[1], z[2]>> /\ z[2] \in Heap!Index
    BY FreeIs
  <2>3. \A z \in new : z = <<z[1], z[2]>> /\ z[2] \in Heap!Index
    BY <1>18, FreeIs
  <2> HIDE DEF new
  <2>4. \A z : z \in Heap!FreeBlocks' <=> z \in new
    BY <2>1, <2>2, <2>3
  <2> QED
    BY <2>4 DEF new
<1>29. /\ Heap!AllocBlock' = Heap!AllocBlock /\ Heap!Base' = Heap!Base
       /\ Heap!Entry' = Heap!Entry
  BY <1>1, HeapFrame
<1> HIDE DEF buddies, w, u
<1>30. HeapBlocks' = B
  <2>1. /\ u \notin Heap!FreeBlocks /\ u # Heap!AllocBlock
        /\ Heap!AllocBlock \notin buddies /\ buddies \cap hGiven = {}
    BY <1>4, <1>12, <1>20
  <2> QED
    BY <1>1, <1>19, <1>28, <1>29, <2>1 DEF HeapBlocks, B
<1>31. Tiles(HeapBlocks, 2 ^ heapIndex)'
  BY <1>1, <1>21, <1>30
<1>32. /\ (Heap!FreeBlocks \cap hGiven = {})'
       /\ (Heap!AllocBlock \notin Heap!FreeBlocks \cup hGiven)'
  <2>1. w \notin hGiven \ {u} /\ w # Heap!AllocBlock
    BY <1>4, <1>12, <1>22 DEF HeapBlocks
  <2> QED
    BY <1>1, <1>4, <1>28, <1>29, <2>1
<1>33. Heap!TypeOK'
  <2>1. hFree' \in [Heap!Index -> Seq(Heap!Base)]
    <3>1. hFree' = [k \in Heap!Index |-> hFree'[k]]
      BY <1>2
    <3> QED
      BY <1>27, <3>1
  <2>2. hAlloc' \in [Heap!Entry -> {0} \cup Heap!Index]
    BY <1>1, <1>4
  <2>3. hGiven' \subseteq Heap!Base \X Heap!Index
    BY <1>1, <1>4
  <2> QED
    BY <1>1, <1>3, <1>29, <2>1, <2>2, <2>3 DEF Heap!TypeOK
<1>34. ASSUME NEW k \in Heap!Index, NEW b \in Heap!Range(hFree'[k])
       PROVE  Heap!Companion(b, k) \notin Heap!Range(hFree'[k])
  <2>1. CASE k # m
    BY <1>4, <1>27, <1>34, <2>1
  <2>2. CASE k = m
    <3>1. Heap!Range(hFree'[k]) = Heap!Range(hFree[m]) \cup {low}
      BY <1>27, <2>2
    <3>2. c(m) \notin Heap!Range(hFree[m]) /\ c(m) # low /\ Heap!Companion(low, m) = c(m)
      BY <1>17, <1>26 DEF c
    <3>3. CASE b = low
      BY <2>2, <3>1, <3>2, <3>3
    <3>4. CASE b \in Heap!Range(hFree[m])
      <4>1. Heap!Companion(b, m) \notin Heap!Range(hFree[m])
        BY <1>4, <1>18, <3>4
      <4>2. ASSUME Heap!Companion(b, m) = low PROVE FALSE
        <5> DEFINE z == <<b, m>>
        <5>1. z \in Heap!FreeBlocks /\ z \in HeapBlocks
          BY <1>18, <3>4, FreeIs DEF HeapBlocks
        <5>2. z[1] = b /\ z[2] = m
          OBVIOUS
        <5> HIDE DEF z
        <5>3. b \in Nat /\ b % 2 ^ m = 0
          BY <5>1, <5>2, BlocksAre
        <5>4. Heap!Companion(low, m) = b
          BY <1>17, <4>2, <5>3, CompanionBack
        <5> QED
          BY <3>2, <3>4, <5>4
      <4> QED
        BY <2>2, <3>1, <4>1, <4>2
    <3> QED
      BY <1>34, <3>1, <3>3, <3>4
  <2> QED
    BY <2>1, <2>2
<1>35. (hGiven = {<<x * Heap!MIN_BLOCK_SIZE, hAlloc[x]>> :
                    x \in {y \in Heap!Entry : hAlloc[y] # 0}})'
  <2>1. /\ \A x \in Heap!Entry : x # e => hAlloc'[x] = hAlloc[x]
        /\ hAlloc'[e] = 0
    BY <1>1, <1>4, <1>9
  <2>2. u = <<e * p, hAlloc[e]>>
    BY <1>11 DEF u, i
  <2>3. \A x \in Heap!Entry : x # e => <<x * p, hAlloc[x]>> # u
    <3> SUFFICES ASSUME NEW x \in Heap!Entry, x * p = e * p PROVE x = e
      BY <2>2
    <3>1. (x * p) \div p = x /\ (e * p) \div p = e
      BY <1>3, <1>9, BaseIs DEF p
    <3> QED
      BY <3>1
  <2>4. hGiven' = {<<x * p, hAlloc'[x]>> : x \in {y \in Heap!Entry : hAlloc'[y] # 0}}
    <3>1. ASSUME NEW z \in hGiven'
          PROVE  \E x \in Heap!Entry : hAlloc'[x] # 0 /\ z = <<x * p, hAlloc'[x]>>
      BY <1>1, <1>4, <2>1, <2>2
    <3>2. ASSUME NEW x \in Heap!Entry, hAlloc'[x] # 0
          PROVE  <<x * p, hAlloc'[x]>> \in hGiven'
      BY <1>1, <1>4, <2>1, <2>3, <3>2
    <3> QED
      BY <3>1, <3>2
  <2>5. Heap!MIN_BLOCK_SIZE' = p
    BY DEF Heap!MIN_BLOCK_SIZE, p
  <2> QED
    BY <1>29, <2>4, <2>5
<1>36. Heap!NeverAlreadyAllocated'
  BY <1>1 DEF Heap!NeverAlreadyAllocated
<1>37. (\A k \in Heap!Index : \A b \in Heap!Range(hFree[k]) :
          Heap!Companion(b, k) \notin Heap!Range(hFree[k]))'
  BY <1>34
<1> QED
  BY <1>27, <1>31, <1>32, <1>33, <1>35, <1>36, <1>37 DEF HeapInv

LEMMA HeapPreserved ==
  ASSUME HeapInv, [Heap!Next]_(Heap!vars)
  PROVE  HeapInv'
<1>1. ASSUME NEW size \in HeapRequests, Heap!Malloc(size) PROVE HeapInv'
  BY <1>1, HeapMalloc
<1>2. ASSUME NEW size \in HeapRequests, Heap!MallocFails(size) PROVE HeapInv'
  BY <1>2, HeapKept DEF Heap!MallocFails
<1>3. ASSUME NEW p \in Heap!Pointers, Heap!Free(p) PROVE HeapInv'
  BY <1>3, HeapFree
<1>4. ASSUME NEW p \in Heap!Pointers, Heap!FreeFails(p) PROVE HeapInv'
  BY <1>4, HeapKept DEF Heap!FreeFails
<1>5. CASE UNCHANGED Heap!vars
  <2>1. hOutcome # "already allocated"
    BY DEF HeapInv, Heap!NeverAlreadyAllocated
  <2> QED
    BY <1>5, <2>1, HeapKept DEF Heap!vars
<1> QED
  BY <1>1, <1>2, <1>3, <1>4, <1>5 DEF Heap!Next

\* An address has one block.
LEMMA HeapPartition ==
  ASSUME HeapInv
  PROVE  Heap!HeapIsPartitioned
<1>1. /\ heapIndex \in HeapIndexes
      /\ hFree \in [Heap!Index -> Seq(Heap!Base)]
      /\ Tiles(HeapBlocks, 2 ^ heapIndex) /\ Heap!FreeBlocks \cap hGiven = {}
      /\ Heap!AllocBlock \notin Heap!FreeBlocks \cup hGiven
      /\ \A k \in Heap!Index : Distinct(hFree[k])
      /\ hGiven = {<<e * Heap!MIN_BLOCK_SIZE, hAlloc[e]>> :
                     e \in {x \in Heap!Entry : hAlloc[x] # 0}}
  BY DEF HeapInv, Heap!TypeOK
<1>2. ASSUME NEW k \in Heap!Index
      PROVE  Len(hFree[k]) = Heap!Cardinality(Heap!Range(hFree[k]))
  <2> DEFINE s == hFree[k]
             R == Heap!Range(s)
             D == 1 .. Len(s)
  <2>1. s \in Seq(Heap!Base) /\ Distinct(s)
    BY <1>1
  <2>2. Len(s) \in Nat /\ DOMAIN s = D /\ s \in [D -> Heap!Base]
    BY <2>1, LenProperties
  <2> HIDE DEF s
  <2>3. s \in Bijection(D, R)
    <3>1. s \in [D -> R] /\ \A b \in R : \E x \in D : s[x] = b
      BY <2>2 DEF Heap!Range
    <3>2. \A x, y \in D : s[x] = s[y] => x = y
      BY <2>1, <2>2 DEF Distinct
    <3> HIDE DEF R, D
    <3> QED
      BY <3>1, <3>2 DEF Bijection, Injection, Surjection, IsInjective
  <2>4. ExistsBijection(D, R)
    BY <2>3 DEF ExistsBijection
  <2>5. IsFiniteSet(D) /\ Cardinality(D) = Len(s)
    BY <2>2, FS_Interval
  <2> HIDE DEF R, D
  <2>6. Cardinality(R) = Len(s)
    BY <2>4, <2>5, FS_Bijection
  <2> QED
    BY <2>6, SameSets DEF R, s
<1>3. ASSUME NEW a \in Heap!Base
      PROVE  Heap!Cardinality({b \in HeapBlocks : Heap!Contains(b, a)}) = 1
  <2>1. a \in Nat /\ a < 2 ^ heapIndex
    BY <1>1, BaseIs
  <2>2. PICK x \in HeapBlocks : Heap!Contains(x, a)
    BY <1>1, <2>1 DEF Tiles
  <2>3. {b \in HeapBlocks : Heap!Contains(b, a)} = {x}
    BY <1>1, <2>1, <2>2 DEF Tiles
  <2>4. Cardinality({x}) = 1
    BY FS_Singleton
  <2> QED
    BY <2>3, <2>4, SameSets
<1> QED
  BY <1>1, <1>2, <1>3 DEF Heap!HeapIsPartitioned, HeapBlocks

\* The smallest range without a free block around it would have two free halves.
LEMMA HeapMaximal ==
  ASSUME HeapInv
  PROVE  Heap!FreeBlocksAreMaximal
<1>1. /\ heapIndex \in HeapIndexes /\ heapIndex \in Nat /\ HeapMinIndex <= heapIndex
      /\ HeapMinIndex \in Nat
  BY BlocksAre, HeapParameters
<1>2. /\ Tiles(HeapBlocks, 2 ^ heapIndex)
      /\ Heap!AllocBlock \notin Heap!FreeBlocks \cup hGiven
      /\ \A k \in Heap!Index : \A b \in Heap!Range(hFree[k]) :
           Heap!Companion(b, k) \notin Heap!Range(hFree[k])
  BY DEF HeapInv
<1>3. \A f \in Heap!FreeBlocks : f \in HeapBlocks
  BY DEF HeapBlocks
<1> DEFINE limit == 2 ^ heapIndex
           IsFree(b, k) == \A a \in Heap!Base :
                             b <= a /\ a < b + 2 ^ k => \E f \in Heap!FreeBlocks : Heap!Contains(f, a)
           InOne(b, k) == \E f \in Heap!FreeBlocks : f[2] >= k /\ Heap!Contains(f, b)
           split == {k \in Heap!Index : \E b \in Heap!Base :
                       b % 2 ^ k = 0 /\ IsFree(b, k) /\ ~InOne(b, k)}
<1>4. limit \in Nat \ {0}
  BY <1>1, Powers
<1>5. SUFFICES ASSUME split # {} PROVE FALSE
  <2> SUFFICES ASSUME NEW k \in Heap!Index, NEW b \in Heap!Base, b % 2 ^ k = 0,
                      \A a \in {x \in Heap!Base : Heap!Contains(<<b, k>>, x)} :
                        \E f \in Heap!FreeBlocks : Heap!Contains(f, a)
               PROVE  InOne(b, k)
    BY DEF Heap!FreeBlocksAreMaximal
  <2>1. \A a : Heap!Contains(<<b, k>>, a) <=> b <= a /\ a < b + 2 ^ k
    BY DEF Heap!Contains
  <2>2. IsFree(b, k)
    BY <2>1
  <2>3. k \notin split
    BY <1>5
  <2> HIDE DEF IsFree, InOne
  <2> QED
    BY <2>2, <2>3
<1>6. split \in SUBSET Nat
  BY HeapParameters
<1>7. PICK k \in split : \A l \in split : k <= l
  <2> HIDE DEF split
  <2> QED
    BY <1>5, <1>6, LeastIndex
<1>8. k \in Nat /\ k \in Heap!Index /\ HeapMinIndex <= k
  BY <1>7, HeapParameters
<1>9. PICK b \in Heap!Base : b % 2 ^ k = 0 /\ IsFree(b, k) /\ ~InOne(b, k)
  BY <1>7
<1>10. b \in Nat /\ b < limit /\ 2 ^ k \in Nat \ {0}
  BY <1>1, <1>8, BaseIs, Powers
<1> HIDE DEF limit
<1>11. \E f \in Heap!FreeBlocks : Heap!Contains(f, b)
  BY <1>9, <1>10
<1>12. k > HeapMinIndex
  <2> SUFFICES ASSUME k = HeapMinIndex PROVE FALSE
    BY <1>1, <1>8
  <2>1. PICK f \in Heap!FreeBlocks : Heap!Contains(f, b)
    BY <1>11
  <2>2. f[2] >= k
    BY FreeIs, HeapParameters
  <2> QED
    BY <1>9, <2>1, <2>2
<1>13. k <= heapIndex
  <2> SUFFICES ASSUME heapIndex < k PROVE FALSE
    BY <1>1, <1>8
  <2>1. 2 * limit <= 2 ^ k
    BY <1>1, <1>8, PowersGrow DEF limit
  <2>2. b = 0
    <3>1. 0 % 2 ^ k = 0 /\ b < 0 + 2 ^ k /\ b < b + 2 ^ k
      BY <1>4, <1>10, <2>1
    <3>2. Heap!Aligned(b, k) = 0
      BY <1>8, <1>10, <3>1, AlignedIs
    <3>3. Heap!Aligned(b, k) = b
      BY <1>8, <1>9, <1>10, <3>1, AlignedIs
    <3> QED
      BY <3>2, <3>3
  <2> DEFINE z == Heap!AllocBlock
             a == z[1]
  <2>3. z \in HeapBlocks
    BY DEF HeapBlocks
  <2>4. a \in Heap!Base /\ a \in Nat /\ z[2] \in Nat
    BY <2>3, BlocksAre
  <2>5. Heap!Contains(z, a)
    BY <2>4, OwnBase
  <2>6. a < limit
    BY <1>1, <2>4, BaseIs DEF limit
  <2> HIDE DEF z, a
  <2>7. 0 <= a /\ a < b + 2 ^ k /\ b <= a
    BY <1>4, <1>10, <2>1, <2>2, <2>4, <2>6
  <2>8. PICK f \in Heap!FreeBlocks : Heap!Contains(f, a)
    BY <1>9, <2>4, <2>7
  <2>9. f = z
    BY <1>2, <1>3, <2>3, <2>4, <2>5, <2>8 DEF Tiles
  <2> QED
    BY <1>2, <2>9 DEF z
<1> DEFINE l == k - 1
           c == b + 2 ^ l
<1>14. /\ l \in Nat /\ l < k /\ l <= k /\ HeapMinIndex <= l /\ l <= heapIndex /\ k = l + 1
       /\ l \notin split
  <2>1. l \in Nat /\ l < k /\ l <= k /\ HeapMinIndex <= l /\ l <= heapIndex /\ k = l + 1
    BY <1>1, <1>8, <1>12, <1>13
  <2> HIDE DEF split
  <2>2. ~(k <= l)
    BY <1>8, <2>1
  <2> QED
    BY <1>7, <2>1, <2>2
<1>15. l \in Heap!Index
  BY <1>1, <1>14, HeapParameters
<1> HIDE DEF l
<1>16. 2 ^ k = 2 * 2 ^ l /\ 2 ^ l \in Nat \ {0}
  BY <1>14, Powers
<1>17. /\ Heap!Aligned(b, l) = b /\ b % 2 ^ l = 0 /\ Heap!Aligned(b, k) = b
  BY <1>8, <1>9, <1>10, <1>14, AlignedDown
<1>18. Heap!Companion(b, l) = c /\ c \in Nat /\ c % 2 ^ l = 0
  <2>1. Heap!Companion(b, l) = c
    BY <1>8, <1>9, <1>10, <1>14, UpperHalf
  <2>2. Heap!Companion(b, l) \in Nat /\ Heap!Companion(b, l) % 2 ^ l = 0
    BY <1>10, <1>14, Buddies
  <2> QED
    BY <2>1, <2>2
<1>19. b < c /\ c < b + 2 ^ k /\ c + 2 ^ l = b + 2 ^ k
  BY <1>10, <1>16
<1>20. b + 2 ^ k <= limit
  <2>1. 0 % 2 ^ heapIndex = 0 /\ 0 <= b /\ b < 0 + 2 ^ heapIndex
    BY <1>4, <1>10 DEF limit
  <2>2. Heap!Aligned(b, heapIndex) = 0
    BY <1>1, <1>10, <2>1, AlignedIs
  <2>3. Heap!Aligned(b, k) + 2 ^ k <= Heap!Aligned(b, heapIndex) + 2 ^ heapIndex
    BY <1>1, <1>8, <1>10, <1>13, Nested
  <2> QED
    BY <1>4, <1>17, <2>2, <2>3 DEF limit
<1> HIDE DEF c
<1>21. c \in Heap!Base
  <2>1. c < 2 ^ heapIndex
    BY <1>4, <1>10, <1>18, <1>19, <1>20 DEF limit
  <2>2. c % 2 ^ HeapMinIndex = 0
    BY <1>1, <1>14, <1>18, AlignedDown
  <2> QED
    BY <1>1, <1>18, <2>1, <2>2, BaseIs
<1>22. InOne(b, l) /\ InOne(c, l)
  <2>1. IsFree(b, l) /\ IsFree(c, l)
    <3>1. ASSUME NEW a \in Heap!Base,
                 (b <= a /\ a < b + 2 ^ l) \/ (c <= a /\ a < c + 2 ^ l)
          PROVE  \E f \in Heap!FreeBlocks : Heap!Contains(f, a)
      <4>1. a \in Nat
        BY <1>1, BaseIs
      <4>2. b <= a /\ a < b + 2 ^ k
        BY <1>10, <1>16, <1>18, <1>19, <3>1, <4>1
      <4> QED
        BY <1>9, <4>2
    <3> QED
      BY <3>1
  <2> HIDE DEF IsFree, InOne
  <2> QED
    BY <1>14, <1>15, <1>17, <1>18, <1>21, <2>1
<1>23. PICK f \in Heap!FreeBlocks : f[2] >= l /\ Heap!Contains(f, b)
  BY <1>22
<1>24. PICK g \in Heap!FreeBlocks : g[2] >= l /\ Heap!Contains(g, c)
  BY <1>22
<1>25. /\ f[1] \in Nat /\ f[2] \in Nat /\ f = <<f[1], f[2]>> /\ f[1] % 2 ^ f[2] = 0
       /\ g[1] \in Nat /\ g[2] \in Nat /\ g = <<g[1], g[2]>> /\ g[1] % 2 ^ g[2] = 0
  BY <1>3, BlocksAre
<1>26. /\ f[1] <= b /\ b < f[1] + 2 ^ f[2]
       /\ g[1] <= c /\ c < g[1] + 2 ^ g[2]
  BY <1>23, <1>24 DEF Heap!Contains
<1>27. f[2] = l /\ f[1] = b
  <2>1. ~(f[2] >= k)
    BY <1>9, <1>23
  <2>2. f[2] = l
    BY <1>8, <1>14, <1>23, <1>25, <2>1
  <2>3. Heap!Aligned(b, l) = f[1]
    BY <1>10, <1>14, <1>25, <1>26, <2>2, AlignedIs
  <2> QED
    BY <1>17, <2>2, <2>3
<1>28. g[2] = l /\ g[1] = c
  <2>1. ASSUME g[2] >= k PROVE FALSE
    <3> DEFINE j == g[2]
               x == g[1]
    <3>1. j \in Nat /\ x \in Nat /\ k <= j /\ x % 2 ^ j = 0 /\ x <= c /\ c < x + 2 ^ j /\ 2 ^ j \in Nat
      BY <1>8, <1>25, <1>26, <2>1, Powers
    <3> HIDE DEF j, x
    <3>2. Heap!Aligned(c, j) = x
      BY <1>18, <3>1, AlignedIs
    <3>3. Heap!Aligned(c, k) = b
      <4>1. b <= c
        BY <1>10, <1>18, <1>19
      <4> QED
        BY <1>8, <1>9, <1>10, <1>18, <1>19, <4>1, AlignedIs
    <3>4. Heap!Aligned(c, j) <= Heap!Aligned(c, k)
      BY <1>8, <1>18, <3>1, Nested
    <3>5. x <= b /\ b < x + 2 ^ j
      BY <1>10, <1>18, <1>19, <3>1, <3>2, <3>3, <3>4
    <3>6. Heap!Contains(g, b)
      BY <3>5 DEF Heap!Contains, j, x
    <3> QED
      BY <1>9, <2>1, <3>6
  <2>2. g[2] = l
    BY <1>8, <1>14, <1>24, <1>25, <2>1
  <2>3. Heap!Aligned(c, l) = g[1]
    BY <1>14, <1>18, <1>25, <1>26, <2>2, AlignedIs
  <2>4. Heap!Aligned(c, l) = c
    <3>1. c <= c /\ c < c + 2 ^ l
      BY <1>16, <1>18
    <3> QED
      BY <1>14, <1>18, <3>1, AlignedIs
  <2> QED
    BY <2>2, <2>3, <2>4
<1>29. b \in Heap!Range(hFree[l]) /\ c \in Heap!Range(hFree[l])
  <2>1. <<b, l>> \in Heap!FreeBlocks /\ <<c, l>> \in Heap!FreeBlocks
    BY <1>25, <1>27, <1>28
  <2> QED
    BY <1>15, <2>1, FreeIs
<1> QED
  BY <1>2, <1>15, <1>18, <1>29

LEMMA HeapIsSound ==
  ASSUME HeapInv
  PROVE  /\ Heap!TypeOK /\ Heap!HeapIsPartitioned /\ Heap!FreeBlocksAreMaximal
         /\ Heap!NeverAlreadyAllocated
BY HeapPartition, HeapMaximal DEF HeapInv

-----------------------------------------------------------------------------
(* The theorems                                                            *)

\* A behaviour uses one of the structures; the others do not move.
SharedInv ==
  /\ kind = "sqt lock" => SqtInv
  /\ kind = "simple barrier" => SimpleInv
  /\ kind = "sqt barrier" => SqtBInv
  /\ kind = "heap" => HeapInv
  /\ kind = "channel" => ChanP!ChannelInv

LEMMA OneStructureMoves ==
  ASSUME [MCNext]_mcVars
  PROVE  /\ kind' = kind
         /\ kind = "sqt lock" => [Sqt!Next]_(Sqt!vars)
         /\ kind = "simple barrier" => [Simple!Next]_(Simple!vars)
         /\ kind = "sqt barrier" => [SqtB!Next]_(SqtB!vars)
         /\ kind = "heap" => [Heap!Next]_(Heap!vars)
         /\ kind = "channel" => [Mwmr!Next]_(Mwmr!vars)
         /\ [Next]_vars
<1>1. CASE UNCHANGED mcVars
  BY <1>1 DEF mcVars, lockVars, nodeVars, barrierVars, Sqt!vars, Simple!vars, SqtB!vars,
              heapVars, Heap!vars, channelVars, Mwmr!vars, Mwmr!lock, Mwmr!channel
<1>2. CASE HeapStep
  BY <1>2 DEF HeapStep, lockVars
<1>3. ASSUME NEW t \in AnyTask, MCStep(t)
      PROVE  /\ kind' = kind
             /\ kind = "sqt lock" => [Sqt!Next]_(Sqt!vars)
             /\ kind = "simple barrier" => [Simple!Next]_(Simple!vars)
             /\ kind = "sqt barrier" => [SqtB!Next]_(SqtB!vars)
             /\ kind = "heap" => [Heap!Next]_(Heap!vars)
             /\ kind = "channel" => [Mwmr!Next]_(Mwmr!vars)
             /\ [Next]_vars
  BY <1>3 DEF MCStep, LockStep, TicketStep, SqtStep, SimpleStep, SqtBarrierStep, ChannelStep,
              lockVars, heapVars, Heap!vars, Next, Sqt!Next, Simple!Next, SqtB!Next, Mwmr!Next, Mwmr!Users
<1> QED
  BY <1>1, <1>2, <1>3 DEF MCNext

LEMMA SharedStart ==
  ASSUME MCInit
  PROVE  SharedInv
<1>1. CASE kind = "sqt lock"
  <2>0. Sqt!Init
    BY <1>1 DEF MCInit, LockInit
  <2>1. Sqt!TypeOK
    BY <2>0, SharedAssumption DEF Sqt!Init, Sqt!TypeOK, Sqt!SqtLockAssumption, Sqt!Level
  <2>2. ASSUME NEW x \in Sqt!Nodes
        PROVE  Discipline(x)
    <3>1. Users(x) = {}
      BY <2>0 DEF Sqt!Init, Users, Uses, Sqt!HoldsLevel
    <3>2. Cardinality(Users(x)) = 0
      BY <3>1, FS_EmptySet
    <3> QED
      BY <2>0, <3>1, <3>2 DEF Discipline, Sqt!Init
  <2> QED
    BY <1>1, <2>0, <2>1, <2>2 DEF SharedInv, SqtInv, Sqt!Init
<1>2. CASE kind = "simple barrier"
  <2>0. Simple!Init
    BY <1>2 DEF MCInit, LockInit
  <2>1. Simple!TypeOK
    BY <2>0, SharedAssumption, ArrivedCardinality DEF Simple!Init, Simple!TypeOK
  <2>2. RoundInv
    BY <2>0 DEF Simple!Init, RoundInv, Current, Late, Last
  <2>3. \A t \in BarrierTasks : ~Simple!ArrivedNow(t)
    BY <2>0 DEF Simple!Init, Simple!ArrivedNow
  <2>4. Cardinality({t \in BarrierTasks : Simple!ArrivedNow(t)}) = 0
    BY <2>3, FS_EmptySet
  <2>5. Simple!CountNotArrived
    <3>1. Simple!Cardinality({t \in BarrierTasks : Simple!ArrivedNow(t)}) = 0
      BY <2>4, SameSets
    <3>2. count = Simple!ntasks /\ Simple!ntasks \in Nat
      BY <2>0, SharedAssumption, ArrivedCardinality DEF Simple!Init
    <3> QED
      BY <3>1, <3>2 DEF Simple!CountNotArrived
  <2> QED
    BY <1>2, <2>1, <2>2, <2>5 DEF SharedInv, SimpleInv
<1>3. CASE kind = "sqt barrier"
  <2>1. SqtB!Init
    BY <1>3 DEF MCInit, LockInit
  <2>2. SqtBInv
    BY <2>1, SharedAssumption, SqtBarrierStarts
  <2> QED
    BY <1>3, <2>2 DEF SharedInv
<1>4. CASE kind = "channel"
  <2>1. Mwmr!Init
    BY <1>4 DEF MCInit, LockInit
  <2>2. ChanP!ChannelInv
    BY <2>1, SameChannel, MwmrAssumed, ChanP!ChannelStarts
  <2> QED
    BY <1>4, <2>2 DEF SharedInv
<1>5. CASE kind = "heap"
  <2>1. Heap!Init
    BY <1>5 DEF MCInit, LockInit
  <2> QED
    BY <1>5, <2>1, HeapStarts DEF SharedInv
<1> QED
  BY <1>1, <1>2, <1>3, <1>4, <1>5 DEF SharedInv

\* The discipline of the tickets holds on every node of the tree, for any tree and
\* any number of tasks up to the number of tickets; the rounds of the barriers do not
\* mix, for any number of tasks, each as slow as it likes between two accesses; the words
\* of the channel are those of whole items, in the order of the transactions; the blocks
\* of the heap tile it, and no two halves of a larger one are free.
THEOREM SharedInvariant == MCSpec => []SharedInv
<1>1. MCInit => SharedInv
  BY SharedStart
<1>2. SharedInv /\ [MCNext]_mcVars => SharedInv'
  <2> SUFFICES ASSUME SharedInv, [MCNext]_mcVars PROVE SharedInv'
    OBVIOUS
  <2>1. CASE kind = "sqt lock"
    <3>1. SqtInv /\ [Sqt!Next]_(Sqt!vars) /\ kind' = kind
      BY <2>1, OneStructureMoves DEF SharedInv
    <3>2. SqtInv'
      BY <3>1, SqtPreserved, SharedAssumption
    <3> QED
      BY <2>1, <3>1, <3>2 DEF SharedInv
  <2>2. CASE kind = "simple barrier"
    <3>1. SimpleInv /\ [Simple!Next]_(Simple!vars) /\ kind' = kind
      BY <2>2, OneStructureMoves DEF SharedInv
    <3>2. SimpleInv'
      BY <3>1, SimplePreserved, SharedAssumption
    <3> QED
      BY <2>2, <3>1, <3>2 DEF SharedInv
  <2>3. CASE kind = "sqt barrier"
    <3>1. SqtBInv /\ [SqtB!Next]_(SqtB!vars) /\ kind' = kind
      BY <2>3, OneStructureMoves DEF SharedInv
    <3>2. SqtBInv'
      BY <3>1, SharedAssumption, SqtBarrierPreserved
    <3> QED
      BY <2>3, <3>1, <3>2 DEF SharedInv
  <2>4. CASE kind = "channel"
    <3>1. ChanP!ChannelInv /\ [ChanP!Next]_(ChanP!vars) /\ kind' = kind
      BY <2>4, OneStructureMoves, SameChannel DEF SharedInv
    <3>2. ChanP!ChannelInv'
      BY <3>1, MwmrAssumed, ChanP!ChannelPreserved
    <3> QED
      BY <2>4, <3>1, <3>2 DEF SharedInv
  <2>5. CASE kind = "heap"
    <3>1. HeapInv /\ [Heap!Next]_(Heap!vars) /\ kind' = kind
      BY <2>5, OneStructureMoves DEF SharedInv
    <3>2. HeapInv'
      BY <3>1, HeapPreserved
    <3> QED
      BY <2>5, <3>1, <3>2 DEF SharedInv
  <2> QED
    BY <2>1, <2>2, <2>3, <2>4, <2>5, OneStructureMoves DEF SharedInv
<1> QED
  BY <1>1, <1>2, PTL DEF MCSpec

\* Each node of the distributed lock is held by at most one task, although the
\* nodes are released from the leaf to the root while new tasks climb behind:
\* the plain read and write of node->current in _sqt_lock_give never collide.
THEOREM NodesExclusiveHolds == MCSpec => []NodesExclusive
<1>1. SharedInv => NodesExclusive
  BY ExclusionFromDiscipline, SharedAssumption DEF SharedInv, NodesExclusive
<1> QED
  BY <1>1, SharedInvariant, PTL

\* No arrival at the simple barrier is lost or counted twice, from one round to the
\* next, and its count does not wrap below zero when a fast task is back in it before
\* the slow ones left it (_simple_barrier_wait).
THEOREM ArrivalsCountedHolds == MCSpec => []ArrivalsCounted
<1>1. SharedInv => ArrivalsCounted
  BY DEF SharedInv, ArrivalsCounted, SimpleInv
<1> QED
  BY <1>1, SharedInvariant, PTL

\* The tree of locks is one lock: at most one task of the whole mesh is between
\* the end of _sqt_lock_acquire and the end of _sqt_lock_release.
THEOREM LockIsMutex == MCSpec => MutexSpec
<1>1. MCInit => AbstractLock!Init
  BY DEF MCInit, LockInit, Sqt!Init, AbstractLock!Init, LockPlaces, Sqt!Where
<1>2. SharedInv /\ SharedInv' /\ [MCNext]_mcVars => [AbstractLock!Next]_LockPlaces
  <2> SUFFICES ASSUME SharedInv, SharedInv', [MCNext]_mcVars
               PROVE  [AbstractLock!Next]_LockPlaces
    OBVIOUS
  <2>1. CASE kind = "sqt lock"
    <3>1. SqtInv /\ SqtInv' /\ [Sqt!Next]_(Sqt!vars) /\ kind' = kind
      BY <2>1, OneStructureMoves DEF SharedInv
    <3>2. [Sqt!Lock!Next]_(Sqt!Where)
      BY <3>1, MutexStep, SharedAssumption
    <3> QED
      BY <2>1, <3>1, <3>2 DEF LockPlaces, Sqt!Lock!Next, AbstractLock!Next, Sqt!Lock!Request,
         Sqt!Lock!Enter, Sqt!Lock!Exit, AbstractLock!Request, AbstractLock!Enter, AbstractLock!Exit
  <2>2. CASE kind # "sqt lock"
    BY <2>2, OneStructureMoves DEF LockPlaces
  <2> QED
    BY <2>1, <2>2
<1> QED
  BY <1>1, <1>2, SharedInvariant, PTL DEF MCSpec, MutexSpec, AbstractLock!Spec

\* Round after round, nobody leaves the k-th wait before everybody has entered it: the
\* accesses of _simple_barrier_wait and of _sqt_barrier_decrement are steps of the
\* abstract barrier, or none.
THEOREM BarriersAreBarriers == MCSpec => BarriersSpec
<1>1. MCInit => AbstractBarrier!Init
  <2> SUFFICES ASSUME MCInit PROVE AbstractBarrier!Init
    OBVIOUS
  <2>1. CASE kind = "simple barrier"
    <3>1. Simple!Init
      BY <2>1 DEF MCInit, LockInit
    <3> QED
      BY <2>1, <3>1 DEF Simple!Init, Simple!Arrived, AbstractBarrier!Init
  <2>2. CASE kind = "sqt barrier"
    <3>1. SqtB!Init
      BY <2>2 DEF MCInit, LockInit
    <3> QED
      BY <2>2, <3>1 DEF SqtB!Init, SqtB!Arrived, AbstractBarrier!Init
  <2>3. CASE kind \notin {"simple barrier", "sqt barrier"}
    BY <2>3 DEF NotStarted, AbstractBarrier!Init
  <2> QED
    BY <2>1, <2>2, <2>3
<1>2. SharedInv /\ [MCNext]_mcVars => [AbstractBarrier!Next]_(AbstractBarrier!vars)
  <2> SUFFICES ASSUME SharedInv, [MCNext]_mcVars
               PROVE  [AbstractBarrier!Next]_(AbstractBarrier!vars)
    OBVIOUS
  <2>1. CASE kind = "simple barrier"
    <3>1. SimpleInv /\ [Simple!Next]_(Simple!vars) /\ kind' = "simple barrier"
      BY <2>1, OneStructureMoves DEF SharedInv
    <3>2. [Simple!Abstract!Next]_(Simple!Abstract!vars)
      BY <3>1, SimpleIsBarrier, SharedAssumption
    <3> QED
      BY <2>1, <3>1, <3>2
         DEF Simple!Abstract!Next, Simple!Abstract!vars, Simple!Abstract!Arrive,
             Simple!Abstract!Leave, AbstractBarrier!Next, AbstractBarrier!vars,
             AbstractBarrier!Arrive, AbstractBarrier!Leave
  <2>2. CASE kind = "sqt barrier"
    <3>1. SqtBInv /\ [SqtB!Next]_(SqtB!vars) /\ kind' = "sqt barrier"
      BY <2>2, OneStructureMoves DEF SharedInv
    <3>2. [SqtB!Abstract!Next]_(SqtB!Abstract!vars)
      BY <3>1, SharedAssumption, SqtIsBarrier
    <3> QED
      BY <2>2, <3>1, <3>2
         DEF SqtB!Abstract!Next, SqtB!Abstract!vars, SqtB!Abstract!Arrive,
             SqtB!Abstract!Leave, AbstractBarrier!Next, AbstractBarrier!vars,
             AbstractBarrier!Arrive, AbstractBarrier!Leave
  <2>3. CASE kind \notin {"simple barrier", "sqt barrier"}
    <3>1. kind' = kind
      BY OneStructureMoves
    <3> QED
      BY <2>3, <3>1 DEF NotStarted, AbstractBarrier!vars
  <2> QED
    BY <2>1, <2>2, <2>3
<1> QED
  BY <1>1, <1>2, SharedInvariant, PTL DEF MCSpec, BarriersSpec, AbstractBarrier!Spec

\* For any tree of nodes: the counters of the distributed barrier stay in their bounds, and
\* nobody leaves its k-th wait before every task has entered its k-th wait
\* (_sqt_barrier_wait).
THEOREM SqtBarrierIsBarrier == SqtB!Spec => []SqtB!TypeOK /\ SqtB!BarrierSpec
<1>1. SqtB!Init => SqtBInv
  BY SharedAssumption, SqtBarrierStarts
<1>2. SqtBInv /\ [SqtB!Next]_(SqtB!vars) => SqtBInv'
  BY SharedAssumption, SqtBarrierPreserved
<1>3. SqtBInv => SqtB!TypeOK
  BY SharedAssumption, SqtBarrierTypes
<1>4. SqtB!Init => SqtB!Abstract!Init
  BY DEF SqtB!Init, SqtB!Abstract!Init, SqtB!Arrived
<1>5. SqtBInv /\ [SqtB!Next]_(SqtB!vars) => [SqtB!Abstract!Next]_(SqtB!Abstract!vars)
  BY SharedAssumption, SqtIsBarrier
<1> QED
  BY <1>1, <1>2, <1>3, <1>4, <1>5, PTL DEF SqtB!Spec, SqtB!BarrierSpec, SqtB!Abstract!Spec

\* A behaviour of MCShared is one of the ticket lock: its accesses, or no step of it. What
\* is proved of the lock on its own holds there too.
THEOREM LockOfShared ==
  MCSpec => /\ []TypeOK /\ []TicketDiscipline /\ []MutualExclusion /\ FifoSpec
<1>1. MCInit => Init
  BY DEF MCInit, LockInit
<1>2. [MCNext]_mcVars => [Next]_vars
  BY OneStructureMoves
<1>3. MCSpec => Spec
  BY <1>1, <1>2, PTL DEF MCSpec, Spec
<1> QED
  BY <1>3, TypeCorrect, DisciplineCorrect, MutualExclusionHolds, LockIsFifo, PTL

\* The channel is a bounded FIFO of whole items: each access of mwmr_write, mwmr_read and
\* their non blocking forms, to the words of the ring or to its pointers, is a transaction
\* of the abstract channel or none.
THEOREM ChannelHolds == MCSpec => ChannelSpec
<1>1. MCInit => AbstractChannel!Init
  <2> SUFFICES ASSUME MCInit PROVE AbstractChannel!Init
    OBVIOUS
  <2>1. CASE kind = "channel"
    <3>1. Mwmr!Init
      BY <2>1 DEF MCInit, LockInit
    <3>2. ChanP!Fifo!Init
      BY <3>1, SameChannel, MwmrAssumed, ChanP!ChannelInit
    <3> QED
      BY <2>1, <3>2, SameChannel DEF ChanP!Fifo!Init, AbstractChannel!Init
  <2>2. CASE kind # "channel"
    BY <2>2 DEF AbstractChannel!Init
  <2> QED
    BY <2>1, <2>2
<1>2. SharedInv /\ SharedInv' /\ [MCNext]_mcVars => [AbstractChannel!Next]_(AbstractChannel!vars)
  <2> SUFFICES ASSUME SharedInv, SharedInv', [MCNext]_mcVars
               PROVE  [AbstractChannel!Next]_(AbstractChannel!vars)
    OBVIOUS
  <2>1. CASE kind = "channel"
    <3>1. /\ ChanP!ChannelInv /\ ChanP!ChannelInv' /\ [ChanP!Next]_(ChanP!vars)
          /\ kind' = "channel"
      BY <2>1, OneStructureMoves, SameChannel DEF SharedInv
    <3>2. [ChanP!Fifo!Next]_(ChanP!Fifo!vars)
      BY <3>1, MwmrAssumed, ChanP!ChannelSteps
    <3>3. /\ ChanP!Content = Mwmr!Content /\ ChanP!Content' = Mwmr!Content'
          /\ ChanP!Sent = Mwmr!Sent /\ ChanP!Sent' = Mwmr!Sent'
          /\ ChanP!Got = Mwmr!Got /\ ChanP!Got' = Mwmr!Got'
      BY SameChannel
    <3>4. ASSUME NEW k \in 1 .. 2, NEW w \in Writers, ChanP!Fifo!Put(w, k)
          PROVE  AbstractChannel!Put(w, k)
      BY <2>1, <3>1, <3>3, <3>4 DEF ChanP!Fifo!Put, AbstractChannel!Put
    <3>5. ASSUME NEW k \in 1 .. 2, NEW r \in Readers, ChanP!Fifo!Get(r, k)
          PROVE  AbstractChannel!Get(r, k)
      BY <2>1, <3>1, <3>3, <3>5 DEF ChanP!Fifo!Get, AbstractChannel!Get
    <3>6. UNCHANGED ChanP!Fifo!vars => UNCHANGED AbstractChannel!vars
      BY <2>1, <3>1, <3>3 DEF ChanP!Fifo!vars, AbstractChannel!vars
    <3> QED
      BY <3>2, <3>4, <3>5, <3>6 DEF ChanP!Fifo!Next, AbstractChannel!Next
  <2>2. CASE kind # "channel"
    BY <2>2, OneStructureMoves DEF AbstractChannel!vars
  <2> QED
    BY <2>1, <2>2
<1> QED
  BY <1>1, <1>2, SharedInvariant, PTL DEF MCSpec, ChannelSpec, AbstractChannel!Spec

\* The counters, flags, levels, lists and pointers stay in their ranges. The counts of the
\* barriers do not wrap, alloc[] holds indexes of blocks, and the lists addresses of blocks.
THEOREM SharedTypes == MCSpec => []MCTypeOK
<1>1. SharedInv => MCTypeOK
  <2> SUFFICES ASSUME SharedInv PROVE MCTypeOK
    OBVIOUS
  <2>1. kind = "sqt lock" => Sqt!TypeOK
    BY DEF SharedInv, SqtInv
  <2>2. kind = "simple barrier" => Simple!TypeOK
    BY DEF SharedInv, SimpleInv
  <2>3. kind = "sqt barrier" => SqtB!TypeOK
    BY SharedAssumption, SqtBarrierTypes DEF SharedInv
  <2>4. kind = "heap" => Heap!TypeOK
    BY DEF SharedInv, HeapInv
  <2>5. kind = "channel" => Mwmr!TypeOK
    BY MwmrAssumed, ChanP!ChannelTypes, SameChannel DEF SharedInv
  <2> QED
    BY <2>1, <2>2, <2>3, <2>4, <2>5 DEF MCTypeOK
<1> QED
  BY <1>1, SharedInvariant, PTL

\* The heap is divided into the blocks in use, the free ones and alloc[], whatever its size
\* and the requests, and whatever pointers are given to _free; two halves of a block are
\* never both free (_update_free_array), and the block that _remote_malloc selects is never
\* one that alloc[] registers.
THEOREM HeapSoundHolds == MCSpec => []HeapSound
<1>1. SharedInv => HeapSound
  BY HeapIsSound DEF SharedInv, HeapSound
<1> QED
  BY <1>1, SharedInvariant, PTL

=============================================================================
