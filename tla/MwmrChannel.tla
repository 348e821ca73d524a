------------------------------ MODULE MwmrChannel ------------------------------
(***************************************************************************)
(* The user level Multi-Writers / Multi-Readers channel (mwmr_channel.c):  *)
(* a circular buffer of words with two pointers and a number of words, all *)
(* three under a queuing lock. The lock is the abstract one (FifoLock),    *)
(* that TicketLock implements.                                             *)
(*                                                                         *)
(* Each task has a quota of items, that it transfers in calls of a size of *)
(* its choice, blocking (mwmr_write, mwmr_read) or not (nb_mwmr_write,     *)
(* nb_mwmr_read). The words of the items of a writer are numbered.         *)
(***************************************************************************)
EXTENDS Naturals, Sequences

CONSTANTS Writers, Readers,
          width,        \* number of words per item
          nitems,       \* max number of items
          Quota         \* bound: items that each task transfers

Users == Writers \cup Readers
depth == width * nitems

\* What the channel needs of its parameters; a task writes or reads.
MwmrAssumption ==
  /\ width \in Nat \ {0} /\ nitems \in Nat \ {0}
  /\ Writers \cap Readers = {}
  /\ Quota \in [Users -> Nat]

VARIABLES queue, entered,       \* mwmr->lock
          sts, ptr, ptw, data,  \* the channel
          pc,           \* where each task is in its call
          items,        \* argument: items that the call has still to transfer
          blocking,     \* is it a blocking call?
          nwords,       \* length of the transaction
          n,            \* words that the transaction has transferred
          pos,          \* local copy of ptw or ptr
          buffer,       \* words transferred by the previous transactions
          words         \* words received by each reader

lock == <<queue, entered>>
channel == <<sts, ptr, ptw, data>>
vars == <<lock, channel, pc, items, blocking, nwords, n, pos, buffer, words>>

Lock == INSTANCE FifoLock WITH Tasks <- Users

\* The k-th word of the buffers of a writer.
WordOf(w, k) == <<w, k \div width + 1, k % width>>
EmptyWord == <<>>

-----------------------------------------------------------------------------

\* mwmr_init
Init ==
  /\ Lock!Init
  /\ sts = 0 /\ ptr = 0 /\ ptw = 0
  /\ data = [i \in 0 .. depth - 1 |-> EmptyWord]
  /\ pc = [t \in Users |-> "idle"]
  /\ items = [t \in Users |-> 0]
  /\ blocking = [t \in Users |-> FALSE]
  /\ nwords = [t \in Users |-> 0]
  /\ n = [t \in Users |-> 0]
  /\ pos = [t \in Users |-> 0]
  /\ buffer = [t \in Users |-> 0]
  /\ words = [t \in Readers |-> <<>>]

Left(t) == Quota[t] - buffer[t] \div width

\* The beginning of a call, until the lock is asked for.
Call(t) ==
  /\ pc[t] = "idle"
  /\ \E k \in 1 .. Left(t) : items' = [items EXCEPT ![t] = k]
  /\ \E b \in BOOLEAN : blocking' = [blocking EXCEPT ![t] = b]
  /\ Lock!Request(t)
  /\ pc' = [pc EXCEPT ![t] = "lock"]
  /\ UNCHANGED <<channel, nwords, n, pos, buffer, words>>

\* Faulty variant: the lock is not waited for.
GetLockTaken(t) ==
  /\ pc[t] = "lock"
  /\ entered' = TRUE
  /\ pc' = [pc EXCEPT ![t] = "access"]
  /\ UNCHANGED <<queue, channel, items, blocking, nwords, n, pos, buffer, words>>

GetLock(t) ==
  /\ pc[t] = "lock"
  /\ Lock!Enter /\ Head(queue) = t
  /\ pc' = [pc EXCEPT ![t] = "access"]
  /\ UNCHANGED <<channel, items, blocking, nwords, n, pos, buffer, words>>

\* As many items as possible: (available / width) * width words.
TransferLength(available, wanted) ==
  IF available >= wanted THEN wanted ELSE (available \div width) * width

\* Access to the state of the channel; length of the transaction.
Access(t) ==
  /\ pc[t] = "access"
  /\ LET available == IF t \in Writers THEN depth - sts ELSE sts
     IN  nwords' = [nwords EXCEPT ![t] = TransferLength(available, width * items[t])]
  /\ pos' = [pos EXCEPT ![t] = IF t \in Writers THEN ptw ELSE ptr]
  /\ n' = [n EXCEPT ![t] = 0]
  /\ pc' = [pc EXCEPT ![t] = IF nwords'[t] = 0 THEN "unlock" ELSE "copy"]
  /\ UNCHANGED <<lock, channel, items, blocking, buffer, words>>

\* Faulty variant: the position goes one word too far before it wraps.
CopyTooFar(t) ==
  /\ pc[t] = "copy"
  /\ n[t] < nwords[t]
  /\ \/ /\ t \in Writers
        /\ data' = [data EXCEPT ![pos[t]] = WordOf(t, buffer[t] + n[t])]
        /\ UNCHANGED words
     \/ /\ t \in Readers
        /\ words' = [words EXCEPT ![t] = Append(@, data[pos[t]])]
        /\ UNCHANGED data
  /\ pos' = [pos EXCEPT ![t] = IF @ = depth THEN 0 ELSE @ + 1]
  /\ n' = [n EXCEPT ![t] = @ + 1]
  /\ UNCHANGED <<lock, sts, ptr, ptw, pc, items, blocking, nwords, buffer>>

\* One word, and the next position in the circular buffer.
Copy(t) ==
  /\ pc[t] = "copy"
  /\ n[t] < nwords[t]
  /\ \/ /\ t \in Writers
        /\ data' = [data EXCEPT ![pos[t]] = WordOf(t, buffer[t] + n[t])]
        /\ UNCHANGED words
     \/ /\ t \in Readers
        /\ words' = [words EXCEPT ![t] = Append(@, data[pos[t]])]
        /\ UNCHANGED data
  /\ pos' = [pos EXCEPT ![t] = IF @ + 1 = depth THEN 0 ELSE @ + 1]
  /\ n' = [n EXCEPT ![t] = @ + 1]
  /\ UNCHANGED <<lock, sts, ptr, ptw, pc, items, blocking, nwords, buffer>>

\* The state of the channel is written back, still under the lock.
Update(t) ==
  /\ pc[t] = "copy"
  /\ n[t] = nwords[t]
  /\ \/ t \in Writers /\ sts' = sts + nwords[t] /\ ptw' = pos[t] /\ UNCHANGED ptr
     \/ t \in Readers /\ sts' = sts - nwords[t] /\ ptr' = pos[t] /\ UNCHANGED ptw
  /\ items' = [items EXCEPT ![t] = @ - nwords[t] \div width]
  /\ buffer' = [buffer EXCEPT ![t] = @ + nwords[t]]
  /\ pc' = [pc EXCEPT ![t] = "unlock"]
  /\ UNCHANGED <<lock, data, blocking, nwords, n, pos, words>>

\* Faulty variant: the lock is kept for the retry.
UnlockAtReturn(t) ==
  /\ pc[t] = "unlock"
  /\ \/ items[t] > 0 /\ blocking[t] /\ pc' = [pc EXCEPT ![t] = "access"] /\ UNCHANGED lock
     \/ (items[t] = 0 \/ ~blocking[t]) /\ pc' = [pc EXCEPT ![t] = "idle"] /\ Lock!Exit
  /\ UNCHANGED <<channel, items, blocking, nwords, n, pos, buffer, words>>

\* A blocking call that has items left retries; the others return.
Unlock(t) ==
  /\ pc[t] = "unlock"
  /\ Lock!Exit
  /\ pc' = [pc EXCEPT ![t] = IF items[t] > 0 /\ blocking[t] THEN "retry" ELSE "idle"]
  /\ UNCHANGED <<channel, items, blocking, nwords, n, pos, buffer, words>>

Retry(t) ==
  /\ pc[t] = "retry"
  /\ Lock!Request(t)
  /\ pc' = [pc EXCEPT ![t] = "lock"]
  /\ UNCHANGED <<channel, items, blocking, nwords, n, pos, buffer, words>>

Step(t) ==
  \/ Call(t) \/ GetLock(t) \/ Access(t) \/ Copy(t) \/ Update(t) \/ Unlock(t) \/ Retry(t)

Next == \E t \in Users : Step(t)

Spec == Init /\ [][Next]_vars

\* The tasks run, and transfer their quota.
FairSpec == Spec /\ \A t \in Users : WF_vars(Step(t))

-----------------------------------------------------------------------------
(* Properties                                                              *)

Word == UNION {{WordOf(w, k) : k \in 0 .. width * Quota[w] - 1} : w \in Writers}

TypeOK ==
  /\ sts \in 0 .. depth /\ ptr \in 0 .. depth - 1 /\ ptw \in 0 .. depth - 1
  /\ data \in [0 .. depth - 1 -> Word \cup {EmptyWord}]
  /\ pc \in [Users -> {"idle", "lock", "access", "copy", "unlock", "retry"}]
  /\ \A t \in Users :
       /\ items[t] \in 0 .. Quota[t] /\ blocking[t] \in BOOLEAN
       /\ nwords[t] \in 0 .. depth /\ n[t] \in 0 .. depth
       /\ pos[t] \in 0 .. depth - 1 /\ buffer[t] \in 0 .. width * Quota[t]
  /\ \A t \in Readers : words[t] \in Seq(Word)

\* The item made of some consecutive words, empty when they are not those of one.
ItemOf(ws) ==
  IF \A i \in 1 .. width : ws[i] = <<ws[1][1], ws[1][2], i - 1>>
  THEN <<ws[1][1], ws[1][2]>> ELSE <<>>

\* The items in the channel, the number of those sent by each writer, and those
\* received by each reader.
Content ==
  [i \in 1 .. sts \div width |->
     ItemOf([j \in 1 .. width |-> data[(ptr + (i - 1) * width + j - 1) % depth]])]
Sent == [w \in Writers |-> buffer[w] \div width]
Got ==
  [r \in Readers |->
     [i \in 1 .. buffer[r] \div width |->
        ItemOf(SubSeq(words[r], (i - 1) * width + 1, i * width))]]

\* The blocking calls return, and everything is transferred, when the readers
\* ask for as many items as the writers send.
AllDone == \A t \in Users : pc[t] = "idle" /\ Left(t) = 0

=============================================================================
