--------------------------------- MODULE Spmd ---------------------------------
(***************************************************************************)
(* The execution of a parallel application, one thread per processor. A    *)
(* block takes time: it begins and ends in different steps, and any block  *)
(* of another thread may overlap with it. That no two overlapping blocks   *)
(* touch the same cell (NoConflict), and that what a block reads has been  *)
(* written (ReadsAreReady), makes the result of the application the one of *)
(* its blocks taken one after the other.                                   *)
(***************************************************************************)
EXTENDS SpmdSteps

CONSTANT Programs       \* the programs: the sequence of steps of each thread

VARIABLES program,      \* the one that is executed
          at,           \* the step that each thread has reached
          inside,       \* is it in the middle of the block?
          written,      \* the cells that have been written
          raised        \* the flags that have been set

vars == <<program, at, inside, written, raised>>

Threads == DOMAIN program
Steps(t) == program[t]
Ended(t) == at[t] > Len(Steps(t))
Step(t) == Steps(t)[at[t]]
Reaches(t, op) == ~Ended(t) /\ Step(t).op = op

\* How many times a thread has called the wait function of a barrier.
Calls(t, b) ==
  Cardinality({i \in DOMAIN Steps(t) : i <= at[t] /\ Steps(t)[i].op = "wait"
                                       /\ Steps(t)[i].barrier = b})
Arrivals(b) ==
  LET upto[t \in -1 .. Cardinality(Threads) - 1] ==
        IF t < 0 THEN 0 ELSE upto[t - 1] + Calls(t, b)
  IN upto[Cardinality(Threads) - 1]

-----------------------------------------------------------------------------

Init ==
  /\ program \in Programs
  /\ at = [t \in Threads |-> 1]
  /\ inside = [t \in Threads |-> FALSE]
  /\ written = {}
  /\ raised = {}

Advance(t) == at' = [at EXCEPT ![t] = @ + 1]

Begin(t) ==
  /\ Reaches(t, "run") /\ ~inside[t]
  /\ inside' = [inside EXCEPT ![t] = TRUE]
  /\ UNCHANGED <<program, at, written, raised>>

End(t) ==
  /\ inside[t]
  /\ inside' = [inside EXCEPT ![t] = FALSE]
  /\ written' = written \cup Step(t).writes
  /\ Advance(t)
  /\ UNCHANGED <<program, raised>>

SetFlag(t) ==
  /\ Reaches(t, "raise")
  /\ raised' = raised \cup {Step(t).flag}
  /\ Advance(t)
  /\ UNCHANGED <<program, inside, written>>

SeeFlag(t) ==
  /\ Reaches(t, "await") /\ Step(t).flag \in raised
  /\ Advance(t)
  /\ UNCHANGED <<program, inside, written, raised>>

\* barrier_wait, sqt_barrier_wait: the k-th round opens with the last of its
\* count arrivals.
IsOpen(t) == Arrivals(Step(t).barrier) >= Step(t).count * Calls(t, Step(t).barrier)
Cross(t) ==
  /\ Reaches(t, "wait") /\ IsOpen(t)
  /\ Advance(t)
  /\ UNCHANGED <<program, inside, written, raised>>

\* The application has completed.
Complete == (\A t \in Threads : Ended(t)) /\ UNCHANGED vars

Next == Complete \/ \E t \in Threads :
                      Begin(t) \/ End(t) \/ SetFlag(t) \/ SeeFlag(t) \/ Cross(t)

Spec == Init /\ [][Next]_vars

-----------------------------------------------------------------------------
(* Properties                                                              *)

TypeOK ==
  /\ at \in [Threads -> Nat \ {0}] /\ inside \in [Threads -> BOOLEAN]
  /\ \A t \in Threads : at[t] <= Len(Steps(t)) + 1 /\ (inside[t] => Reaches(t, "run"))
  /\ IsFiniteSet(written) /\ IsFiniteSet(raised)

\* No thread writes a cell that another one reads or writes at the same time: the
\* barriers, the flags and the division of the work among the threads are enough.
NoConflict ==
  \A t, u \in Threads :
    t # u /\ inside[t] /\ inside[u] =>
      Step(t).writes \cap (Step(u).reads \cup Step(u).writes) = {}

\* A block reads what has been written, and nothing less: in particular no heap,
\* pointer or barrier is used before its initialisation.
ReadsAreReady ==
  \A t \in Threads :
    /\ inside[t] => Step(t).reads \subseteq written
    /\ Reaches(t, "wait") => Step(t).barrier \in written

\* Some thread can go on until all of them have completed: nobody waits for a flag
\* that nobody sets, or at a barrier that others have left for good.
NobodyIsLeft ==
  \/ \A t \in Threads : Ended(t)
  \/ \E t \in Threads :
       ~Ended(t) /\ CASE Step(t).op = "await" -> Step(t).flag \in raised
                      [] Step(t).op = "wait" -> IsOpen(t)
                      [] OTHER -> TRUE

=============================================================================
