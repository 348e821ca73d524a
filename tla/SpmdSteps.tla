------------------------------ MODULE SpmdSteps ------------------------------
(***************************************************************************)
(* What the threads of a parallel application do, as far as the others can *)
(* see it: blocks that read and write cells of the shared memory, between  *)
(* operations that synchronise them. A program is a function from threads  *)
(* to sequences of such steps.                                             *)
(***************************************************************************)
EXTENDS Integers, Sequences, FiniteSets

\* A block. Its reads and writes may come in any order.
Run(reads, writes) == <<[op |-> "run", reads |-> reads, writes |-> writes]>>

\* A flag is set, or polled until it is.
Raise(flag) == <<[op |-> "raise", flag |-> flag]>>
Await(flag) == <<[op |-> "await", flag |-> flag]>>

\* The call of a wait function, on a barrier that was initialised for count tasks.
Barrier(name) == <<"barrier", name>>
Wait(name, count) == <<[op |-> "wait", barrier |-> Barrier(name), count |-> count]>>

Only(condition, steps) == IF condition THEN steps ELSE <<>>

\* Steps(first) \o ... \o Steps(last)
Sequence(Steps(_), first, last) ==
  LET upto[i \in first - 1 .. last] == IF i < first THEN <<>> ELSE upto[i - 1] \o Steps(i)
  IN upto[last]

\* The interval of length n that starts at base.
Interval(base, n) == {i \in base .. base + n : i < base + n}

=============================================================================
