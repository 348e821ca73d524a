---------------------------- MODULE ChannelProofs ----------------------------
(***************************************************************************)
(* The MWMR channel is a FIFO of whole items, for any finite or infinite   *)
(* sets of writers and readers, any width of the items and any capacity.   *)
(*                                                                         *)
(* Under the lock, the words between ptr and ptw are those of whole items, *)
(* and the numbers of words in the channel, in a transaction and behind a  *)
(* reader are multiples of the width. A transaction copies one word at a   *)
(* time while the pointers still show the state before it: the invariant   *)
(* says what has been copied so far, and where. The items appear in the    *)
(* abstract channel, or leave it, when Update writes the pointers back.    *)
(***************************************************************************)
EXTENDS MwmrChannel, SequenceTheorems, TLAPS

\* The channel that MwmrChannel implements.
Fifo == INSTANCE Channel WITH Capacity <- nitems, content <- Content, sent <- Sent, got <- Got

-----------------------------------------------------------------------------
(* Arithmetic of the circular buffer                                       *)

\* The position k words after x.
At(x, k) == IF x + k < depth THEN x + k ELSE x + k - depth

Whole == {width * q : q \in Nat}

LEMMA Parameters ==
  ASSUME MwmrAssumption
  PROVE  /\ width \in Nat \ {0} /\ nitems \in Nat \ {0} /\ depth \in Nat \ {0}
         /\ depth = width * nitems
         /\ \A t \in Users : Quota[t] \in Nat
<1>1. width \in Nat /\ nitems \in Nat /\ width > 0 /\ nitems > 0 /\ Quota \in [Users -> Nat]
  BY DEF MwmrAssumption
<1>2. width * nitems \in Nat /\ width * nitems > 0
  BY <1>1
<1> QED
  BY <1>1, <1>2 DEF depth

\* Word r of item q.
LEMMA Division ==
  ASSUME NEW d \in Nat \ {0}, NEW q \in Nat, NEW r \in 0 .. d - 1
  PROVE  (d * q + r) % d = r /\ (d * q + r) \div d = q
OBVIOUS

LEMMA WholeItems ==
  ASSUME MwmrAssumption, NEW k \in Whole
  PROVE  k \in Nat /\ k \div width \in Nat /\ k = width * (k \div width)
<1>1. PICK q \in Nat : k = width * q
  BY DEF Whole
<1>2. width \in Nat \ {0} /\ 0 \in 0 .. width - 1
  BY Parameters
<1>3. (width * q + 0) \div width = q
  BY <1>2, Division
<1>4. width * q \in Nat /\ width * q + 0 = width * q
  BY <1>2
<1> QED
  BY <1>1, <1>3, <1>4

LEMMA ItemsAreWhole ==
  ASSUME MwmrAssumption, NEW q \in Nat
  PROVE  width * q \in Whole /\ (width * q) \div width = q
<1>1. width \in Nat \ {0} /\ 0 \in 0 .. width - 1
  BY Parameters
<1>2. (width * q + 0) \div width = q
  BY <1>1, Division
<1>3. width * q \in Nat /\ width * q + 0 = width * q
  BY <1>1
<1> QED
  BY <1>2, <1>3 DEF Whole

LEMMA WholeSums ==
  ASSUME MwmrAssumption, NEW a \in Whole, NEW b \in Whole
  PROVE  /\ a + b \in Whole /\ (a + b) \div width = (a \div width) + (b \div width)
         /\ b <= a => /\ a - b \in Whole /\ (a - b) \div width = (a \div width) - (b \div width)
                      /\ b \div width <= a \div width
         /\ 0 < a => 0 < a \div width
<1>0. width \in Nat \ {0}
  BY Parameters
<1> DEFINE p == a \div width
           q == b \div width
<1>1. p \in Nat /\ q \in Nat /\ a = width * p /\ b = width * q
  BY WholeItems
<1> HIDE DEF p, q
<1>2. a + b = width * (p + q) /\ p + q \in Nat
  BY <1>0, <1>1
<1>3. (a + b) \in Whole /\ (a + b) \div width = p + q
  BY <1>2, ItemsAreWhole
<1>4. ASSUME b <= a
      PROVE  q <= p
  <2> SUFFICES ASSUME p < q
               PROVE  FALSE
    BY <1>1
  <2>1. q - p \in Nat /\ q - p >= 1 /\ width * (q - p) >= width
    BY <1>0, <1>1
  <2>2. width * q = width * p + width * (q - p)
    BY <1>0, <1>1
  <2> QED
    BY <1>0, <1>1, <1>4, <2>1, <2>2
<1>5. ASSUME b <= a
      PROVE  a - b \in Whole /\ (a - b) \div width = p - q
  <2>1. p - q \in Nat /\ a - b = width * (p - q)
    BY <1>0, <1>1, <1>4, <1>5
  <2> QED
    BY <2>1, ItemsAreWhole
<1>6. 0 < a => 0 < p
  BY <1>0, <1>1
<1> QED
  BY <1>3, <1>4, <1>5, <1>6 DEF p, q

LEMMA WordOfItem ==
  ASSUME MwmrAssumption, NEW c \in Nat, NEW i \in 1 .. c, NEW j \in 1 .. width
  PROVE  /\ (i - 1) * width \in Nat /\ (i - 1) * width + width <= width * c
         /\ (i - 1) * width = width * (i - 1) /\ i * width = (i - 1) * width + width
         /\ (i - 1) * width + j - 1 \in 0 .. width * c - 1
<1>1. width \in Nat \ {0} /\ i - 1 \in Nat /\ c - i \in Nat
  BY Parameters
<1>2. (i - 1) * width \in Nat /\ (c - i) * width \in Nat
  BY <1>1
<1>3. width * c = (i - 1) * width + width + (c - i) * width
  BY <1>1
<1>4. (i - 1) * width = width * (i - 1) /\ i * width = (i - 1) * width + width
  BY <1>1
<1> QED
  BY <1>1, <1>2, <1>3, <1>4

LEMMA Positions ==
  ASSUME MwmrAssumption, NEW x \in 0 .. depth - 1, NEW k \in 0 .. depth
  PROVE  /\ At(x, k) \in 0 .. depth - 1 /\ (x + k) % depth = At(x, k)
         /\ At(x, 0) = x
         /\ \A m \in 0 .. depth - k : At(At(x, k), m) = At(x, k + m)
         /\ \A m \in 0 .. depth - 1 : k < depth /\ At(x, m) = At(x, k) => m = k
         /\ k < depth => At(x, k + 1) = IF At(x, k) + 1 = depth THEN 0 ELSE At(x, k) + 1
<1> DEFINE d == depth
<1>1. d \in Nat \ {0}
  BY Parameters
<1> HIDE DEF d
<1>2. x \in 0 .. d - 1 /\ k \in 0 .. d
  BY DEF d
<1>3. \A y, m : At(y, m) = IF y + m < d THEN y + m ELSE y + m - d
  BY DEF At, d
<1>4. At(x, k) \in 0 .. d - 1 /\ At(x, 0) = x
  BY <1>1, <1>2, <1>3
<1>5. (x + k) % d = At(x, k)
  <2>1. CASE x + k < d
    BY <1>1, <1>2, <1>3, <2>1
  <2>2. CASE x + k >= d
    <3>1. x + k - d \in 0 .. d - 1 /\ x + k = d * 1 + (x + k - d)
      BY <1>1, <1>2, <2>2
    <3>2. (d * 1 + (x + k - d)) % d = x + k - d
      BY <1>1, <3>1, Division
    <3> QED
      BY <1>1, <1>2, <1>3, <2>2, <3>1, <3>2
  <2> QED
    BY <1>1, <1>2, <2>1, <2>2
<1>6. \A m \in 0 .. d - k : At(At(x, k), m) = At(x, k + m)
  BY <1>1, <1>2, <1>3
<1>7. \A m \in 0 .. d - 1 : k < d /\ At(x, m) = At(x, k) => m = k
  BY <1>1, <1>2, <1>3
<1>8. k < d => At(x, k + 1) = IF At(x, k) + 1 = d THEN 0 ELSE At(x, k) + 1
  BY <1>1, <1>2, <1>3
<1> QED
  BY <1>4, <1>5, <1>6, <1>7, <1>8 DEF d

-----------------------------------------------------------------------------
(* Sequences that are given by their elements                              *)

IsList(f, k) == f = [i \in 1 .. k |-> f[i]]

LEMMA ListIsSeq ==
  ASSUME NEW f, NEW k \in Nat, IsList(f, k), NEW S, \A i \in 1 .. k : f[i] \in S
  PROVE  f \in Seq(S) /\ Len(f) = k
<1>1. [i \in 1 .. k |-> f[i]] \in Seq(S) /\ Len([i \in 1 .. k |-> f[i]]) = k
  OBVIOUS
<1> QED
  BY <1>1 DEF IsList

LEMMA Glue ==
  ASSUME NEW f, NEW g, NEW h, NEW a \in Nat, NEW b \in Nat, IsList(f, a), IsList(g, b),
         IsList(h, a + b), \A i \in 1 .. a + b : h[i] = IF i <= a THEN f[i] ELSE g[i - a]
  PROVE  h = f \o g
<1> DEFINE S == {f[i] : i \in 1 .. a} \cup {g[i] : i \in 1 .. b}
<1>1. f \in Seq(S) /\ Len(f) = a /\ g \in Seq(S) /\ Len(g) = b
  <2>1. \A i \in 1 .. a : f[i] \in S
    OBVIOUS
  <2>2. \A i \in 1 .. b : g[i] \in S
    OBVIOUS
  <2> HIDE DEF S
  <2> QED
    BY <2>1, <2>2, ListIsSeq
<1>2. h \in Seq(S) /\ Len(h) = a + b
  <2>1. \A i \in 1 .. a + b : h[i] \in S
    <3> TAKE i \in 1 .. a + b
    <3>1. CASE i <= a
      BY <3>1
    <3>2. CASE i > a
      <4>1. i - a \in 1 .. b /\ h[i] = g[i - a]
        BY <3>2
      <4> QED
        BY <4>1
    <3> QED
      BY <3>1, <3>2
  <2> HIDE DEF S
  <2> QED
    BY <2>1, ListIsSeq
<1> HIDE DEF S
<1>3. f \o g \in Seq(S) /\ Len(f \o g) = a + b
      /\ \A i \in 1 .. a + b : (f \o g)[i] = IF i <= a THEN f[i] ELSE g[i - a]
  BY <1>1, ConcatProperties
<1> QED
  BY <1>2, <1>3, SeqEqual

LEMMA Cut ==
  ASSUME NEW f, NEW a \in Nat, NEW k \in 0 .. a, IsList(f, a)
  PROVE  /\ SubSeq(f, 1, k) = [i \in 1 .. k |-> f[i]]
         /\ SubSeq(f, k + 1, a) = [i \in 1 .. a - k |-> f[i + k]]
<1> DEFINE S == {f[i] : i \in 1 .. a}
<1>1. \A i \in 1 .. a : f[i] \in S
  OBVIOUS
<1>2. IsList([i \in 1 .. k |-> f[i]], k) /\ IsList([i \in 1 .. a - k |-> f[i + k]], a - k)
  BY DEF IsList
<1>3. \A i \in 1 .. k : [j \in 1 .. k |-> f[j]][i] = f[i] /\ f[i] \in S
  OBVIOUS
<1>4. \A i \in 1 .. a - k : [j \in 1 .. a - k |-> f[j + k]][i] = f[i + k] /\ f[i + k] \in S
  OBVIOUS
<1> HIDE DEF S
<1>5. SubSeq(f, 1, k) = [i \in 1 .. k |-> f[i]]
  <2> DEFINE g == [i \in 1 .. k |-> f[i]]
  <2>1. g \in Seq(S) /\ Len(g) = k
    <3>1. k \in Nat /\ IsList(g, k) /\ \A i \in 1 .. k : g[i] \in S
      BY <1>2, <1>3
    <3> HIDE DEF g
    <3> QED
      BY <3>1, ListIsSeq
  <2>2. SubSeq(f, 1, k) \in Seq(S) /\ Len(SubSeq(f, 1, k)) = k
        /\ \A i \in 1 .. k : SubSeq(f, 1, k)[i] = f[i]
    <3>1. 1 \in Int /\ k \in Int /\ \A i \in 1 .. k : f[i] \in S
      BY <1>3
    <3>2. /\ SubSeq(f, 1, k) \in Seq(S)
          /\ Len(SubSeq(f, 1, k)) = IF 1 <= k THEN k - 1 + 1 ELSE 0
          /\ \A i \in 1 .. k - 1 + 1 : SubSeq(f, 1, k)[i] = f[1 + i - 1]
      BY <3>1, SubSeqProperties
    <3> QED
      BY <3>2
  <2>3. \A i \in 1 .. k : g[i] = f[i]
    BY <1>3
  <2> HIDE DEF g
  <2>4. SubSeq(f, 1, k) = g
    BY <2>1, <2>2, <2>3, SeqEqual
  <2> QED
    BY <2>4 DEF g
<1>6. SubSeq(f, k + 1, a) = [i \in 1 .. a - k |-> f[i + k]]
  <2> DEFINE g == [i \in 1 .. a - k |-> f[i + k]]
  <2>1. g \in Seq(S) /\ Len(g) = a - k
    <3>1. a - k \in Nat /\ IsList(g, a - k) /\ \A i \in 1 .. a - k : g[i] \in S
      BY <1>2, <1>4
    <3> HIDE DEF g
    <3> QED
      BY <3>1, ListIsSeq
  <2>2. SubSeq(f, k + 1, a) \in Seq(S) /\ Len(SubSeq(f, k + 1, a)) = a - k
        /\ \A i \in 1 .. a - k : SubSeq(f, k + 1, a)[i] = f[i + k]
    <3>1. k + 1 \in Int /\ a \in Int /\ \A i \in k + 1 .. a : f[i] \in S
      BY <1>1
    <3>2. /\ SubSeq(f, k + 1, a) \in Seq(S)
          /\ Len(SubSeq(f, k + 1, a)) = IF k + 1 <= a THEN a - (k + 1) + 1 ELSE 0
          /\ \A i \in 1 .. a - (k + 1) + 1 : SubSeq(f, k + 1, a)[i] = f[k + 1 + i - 1]
      BY <3>1, SubSeqProperties
    <3> QED
      BY <3>2
  <2>3. \A i \in 1 .. a - k : g[i] = f[i + k]
    BY <1>4
  <2> HIDE DEF g
  <2>4. SubSeq(f, k + 1, a) = g
    BY <2>1, <2>2, <2>3, SeqEqual
  <2> QED
    BY <2>4 DEF g
<1> QED
  BY <1>5, <1>6

-----------------------------------------------------------------------------
(* The invariant                                                           *)

Types ==
  /\ sts \in 0 .. depth /\ ptr \in 0 .. depth - 1 /\ ptw \in 0 .. depth - 1
  /\ data \in [0 .. depth - 1 -> Word \cup {EmptyWord}]
  /\ pc \in [Users -> {"idle", "lock", "access", "copy", "unlock", "retry"}]
  /\ items \in [Users -> Nat] /\ blocking \in [Users -> BOOLEAN]
  /\ nwords \in [Users -> 0 .. depth] /\ n \in [Users -> 0 .. depth]
  /\ pos \in [Users -> 0 .. depth - 1] /\ buffer \in [Users -> Nat]
  /\ words \in [Readers -> Seq(Word)]

\* The queue of the lock, and who is in it.
Inside(t) == pc[t] \in {"access", "copy", "unlock"}
QueueInv ==
  /\ queue \in Seq(Users) /\ entered \in BOOLEAN
  /\ \A i, j \in 1 .. Len(queue) : queue[i] = queue[j] => i = j
  /\ \A t \in Users : Inside(t) \/ pc[t] = "lock" <=> \E i \in 1 .. Len(queue) : queue[i] = t
  /\ \A t \in Users : Inside(t) => entered /\ queue[1] = t

\* The words in the channel are those of whole items, between the two pointers.
RingInv ==
  /\ sts \in Whole /\ ptw = At(ptr, sts)
  /\ \A m \in 0 .. sts - 1 : data[At(ptr, m)] \in Word

\* The arguments of a call and the progress of its transaction.
CallInv(t) ==
  /\ buffer[t] \in Whole /\ nwords[t] \in Whole
  /\ width * items[t] + buffer[t] <= width * Quota[t]
  /\ pc[t] = "copy" => 0 < nwords[t] /\ nwords[t] <= width * items[t] /\ n[t] <= nwords[t]

WriteInv(t) ==
  pc[t] = "copy" =>
    /\ sts + nwords[t] <= depth /\ pos[t] = At(ptw, n[t])
    /\ \A m \in 0 .. n[t] - 1 : data[At(ptw, m)] = WordOf(t, buffer[t] + m)

ReadInv(t) ==
  /\ Len(words[t]) = IF pc[t] = "copy" THEN buffer[t] + n[t] ELSE buffer[t]
  /\ pc[t] = "copy" =>
       /\ nwords[t] <= sts /\ pos[t] = At(ptr, n[t])
       /\ \A m \in 0 .. n[t] - 1 : words[t][buffer[t] + m + 1] = data[At(ptr, m)]

TasksInv ==
  /\ \A t \in Users : CallInv(t)
  /\ \A t \in Writers : WriteInv(t)
  /\ \A t \in Readers : ReadInv(t)

ChannelInv == Types /\ QueueInv /\ RingInv /\ TasksInv

-----------------------------------------------------------------------------

LEMMA Sides ==
  ASSUME MwmrAssumption
  PROVE  /\ \A t \in Writers : t \in Users /\ t \notin Readers
         /\ \A t \in Readers : t \in Users /\ t \notin Writers
         /\ \A t \in Users : t \in Writers \/ t \in Readers
BY DEF MwmrAssumption, Users

LEMMA ChannelStarts == MwmrAssumption /\ Init => ChannelInv
<1> SUFFICES ASSUME MwmrAssumption, Init
             PROVE  ChannelInv
  OBVIOUS
<1>0. width \in Nat \ {0} /\ depth \in Nat \ {0} /\ \A t \in Users : Quota[t] \in Nat
  BY Parameters
<1>1. Types
  BY <1>0, Sides DEF Types, Init
<1>2. QueueInv
  <2>1. queue = <<>> /\ queue \in Seq(Users) /\ Len(queue) = 0 /\ entered = FALSE
    BY DEF Init, Lock!Init
  <2>2. \A i : i \notin 1 .. Len(queue)
    BY <2>1
  <2> QED
    BY <2>1, <2>2 DEF QueueInv, Init, Inside
<1>3. 0 \in Whole
  <2>1. width * 0 = 0
    BY <1>0
  <2> QED
    BY <2>1 DEF Whole
<1>4. RingInv
  BY <1>0, <1>3, Positions DEF RingInv, Init, At
<1>5. TasksInv
  <2>1. \A t \in Users : width * 0 + 0 <= width * Quota[t]
    BY <1>0
  <2> QED
    BY <1>3, <2>1, Sides DEF TasksInv, CallInv, WriteInv, ReadInv, Init
<1> QED
  BY <1>1, <1>2, <1>4, <1>5 DEF ChannelInv

\* Only the head of the queue is inside.
LEMMA InsideAlone ==
  ASSUME QueueInv, NEW t \in Users, NEW u \in Users, Inside(t), Inside(u)
  PROVE  t = u
BY DEF QueueInv

\* The three steps that change the queue.
LEMMA Requests ==
  ASSUME Types, QueueInv, NEW t \in Users, pc[t] \in {"idle", "retry"}, Lock!Request(t),
         pc' = [pc EXCEPT ![t] = "lock"]
  PROVE  QueueInv'
<1>1. queue \in Seq(Users) /\ queue' = Append(queue, t) /\ entered' = entered
  BY DEF QueueInv, Lock!Request
<1>2. /\ queue' \in Seq(Users) /\ Len(queue') = Len(queue) + 1 /\ Len(queue) \in Nat
      /\ \A i \in 1 .. Len(queue) : queue'[i] = queue[i]
      /\ queue'[Len(queue) + 1] = t
  BY <1>1, AppendProperties
<1>3. \A i \in 1 .. Len(queue) : queue[i] # t
  BY DEF QueueInv, Inside
<1>4. \A i, j \in 1 .. Len(queue') : queue'[i] = queue'[j] => i = j
  BY <1>2, <1>3 DEF QueueInv
<1>5. \A u \in Users : (\E i \in 1 .. Len(queue') : queue'[i] = u)
                       <=> (u = t \/ \E i \in 1 .. Len(queue) : queue[i] = u)
  BY <1>2
<1>6. \A u \in Users : pc'[u] = IF u = t THEN "lock" ELSE pc[u]
  BY DEF Types
<1>7. \A u \in Users : Inside(u)' \/ pc'[u] = "lock" <=> \E i \in 1 .. Len(queue') : queue'[i] = u
  BY <1>5, <1>6 DEF QueueInv, Inside
<1>8. \A u \in Users : Inside(u)' => entered' /\ queue'[1] = u
  <2> SUFFICES ASSUME NEW u \in Users, Inside(u)'
               PROVE  entered' /\ queue'[1] = u
    OBVIOUS
  <2>1. Inside(u)
    BY <1>6 DEF Inside
  <2>2. PICK i \in 1 .. Len(queue) : queue[i] = u
    BY <2>1 DEF QueueInv
  <2>3. 1 \in 1 .. Len(queue)
    BY <1>2
  <2> QED
    BY <1>1, <1>2, <2>1, <2>3 DEF QueueInv
<1> QED
  BY <1>1, <1>2, <1>4, <1>7, <1>8 DEF QueueInv

LEMMA Enters ==
  ASSUME Types, QueueInv, NEW t \in Users, pc[t] = "lock", Lock!Enter, Head(queue) = t,
         pc' = [pc EXCEPT ![t] = "access"]
  PROVE  QueueInv'
<1>1. queue' = queue /\ ~entered /\ entered' = TRUE /\ queue # <<>>
  BY DEF Lock!Enter
<1>2. queue[1] = t
  BY <1>1 DEF QueueInv
<1>3. \A u \in Users : ~Inside(u)
  BY <1>1 DEF QueueInv
<1>4. \A u \in Users : pc'[u] = IF u = t THEN "access" ELSE pc[u]
  BY DEF Types
<1>5. \A u \in Users : Inside(u)' <=> u = t
  BY <1>3, <1>4 DEF Inside
<1>6. \A u \in Users : Inside(u)' \/ pc'[u] = "lock" <=> Inside(u) \/ pc[u] = "lock"
  BY <1>3, <1>4, <1>5
<1> QED
  BY <1>1, <1>2, <1>5, <1>6 DEF QueueInv

LEMMA Exits ==
  ASSUME Types, QueueInv, NEW t \in Users, Inside(t), Lock!Exit, NEW place \in {"retry", "idle"},
         pc' = [pc EXCEPT ![t] = place]
  PROVE  QueueInv'
<1>1. queue' = Tail(queue) /\ entered' = FALSE
  BY DEF Lock!Exit
<1>2. queue \in Seq(Users) /\ \E i \in 1 .. Len(queue) : queue[i] = t
  BY DEF QueueInv
<1>3. queue # <<>> /\ Len(queue) \in Nat /\ Len(queue) >= 1
  BY <1>2
<1>4. /\ queue' \in Seq(Users) /\ Len(queue') = Len(queue) - 1
      /\ \A i \in 1 .. Len(queue') : queue'[i] = queue[i + 1]
  BY <1>1, <1>2, <1>3, HeadTailProperties
<1>5. \A i, j \in 1 .. Len(queue') : queue'[i] = queue'[j] => i = j
  BY <1>3, <1>4 DEF QueueInv
<1>6. queue[1] = t
  BY DEF QueueInv
<1>7. \A u \in Users : (\E i \in 1 .. Len(queue') : queue'[i] = u)
                       <=> (u # t /\ \E i \in 1 .. Len(queue) : queue[i] = u)
  <2> SUFFICES ASSUME NEW u \in Users
               PROVE  (\E i \in 1 .. Len(queue') : queue'[i] = u)
                       <=> (u # t /\ \E i \in 1 .. Len(queue) : queue[i] = u)
    OBVIOUS
  <2>1. ASSUME NEW i \in 1 .. Len(queue'), queue'[i] = u
        PROVE  u # t /\ \E j \in 1 .. Len(queue) : queue[j] = u
    <3>1. i + 1 \in 1 .. Len(queue) /\ 1 \in 1 .. Len(queue) /\ queue[i + 1] = u
      BY <1>3, <1>4, <2>1
    <3>2. i + 1 # 1
      BY <1>4
    <3> QED
      BY <1>6, <3>1, <3>2 DEF QueueInv
  <2>2. ASSUME u # t, NEW j \in 1 .. Len(queue), queue[j] = u
        PROVE  \E i \in 1 .. Len(queue') : queue'[i] = u
    <3>1. j # 1
      BY <1>6, <2>2
    <3>2. j - 1 \in 1 .. Len(queue') /\ j - 1 + 1 = j
      BY <1>3, <1>4, <3>1
    <3> QED
      BY <1>4, <2>2, <3>2
  <2> QED
    BY <2>1, <2>2
<1>8. \A u \in Users : pc'[u] = IF u = t THEN place ELSE pc[u]
  BY DEF Types
<1>9. \A u \in Users : ~Inside(u)'
  BY <1>8, InsideAlone DEF Inside
<1>10. \A u \in Users : pc'[u] = "lock" <=> u # t /\ (Inside(u) \/ pc[u] = "lock")
  BY <1>8, <1>9, InsideAlone
<1>11. \A u \in Users : Inside(u)' \/ pc'[u] = "lock" <=> \E i \in 1 .. Len(queue') : queue'[i] = u
  BY <1>7, <1>9, <1>10 DEF QueueInv
<1> QED
  BY <1>1, <1>4, <1>5, <1>9, <1>11 DEF QueueInv

LEMMA QueueKept ==
  ASSUME QueueInv, queue' = queue, entered' = entered,
         \A u \in Users : (Inside(u)' <=> Inside(u)) /\ (pc'[u] = "lock" <=> pc[u] = "lock")
  PROVE  QueueInv'
BY DEF QueueInv

\* A step outside of the channel.
LEMMA TasksKept ==
  ASSUME MwmrAssumption, Types, RingInv, TasksInv, NEW t \in Users, UNCHANGED channel,
         UNCHANGED <<nwords, n, pos, buffer, words>>,
         NEW place, place # "copy", pc[t] # "copy", pc' = [pc EXCEPT ![t] = place],
         \A u \in Users \ {t} : items'[u] = items[u],
         width * items'[t] + buffer[t] <= width * Quota[t]
  PROVE  RingInv' /\ TasksInv'
<1>1. \A u \in Users : pc'[u] = IF u = t THEN place ELSE pc[u]
  BY DEF Types
<1>2. RingInv'
  BY DEF RingInv, channel, At
<1>3. \A u \in Users : CallInv(u)'
  BY <1>1 DEF TasksInv, CallInv
<1>4. \A u \in Writers : WriteInv(u)'
  BY <1>1, Sides DEF TasksInv, WriteInv, channel, At
<1>5. \A u \in Readers : ReadInv(u)'
  BY <1>1, Sides DEF TasksInv, ReadInv, channel, At
<1> QED
  BY <1>2, <1>3, <1>4, <1>5 DEF TasksInv

LEMMA CallPreserves ==
  ASSUME MwmrAssumption, ChannelInv, NEW t \in Users, Call(t)
  PROVE  ChannelInv'
<1>0. width \in Nat \ {0} /\ Quota[t] \in Nat
  BY Parameters
<1>1. PICK k \in 1 .. Left(t) : items' = [items EXCEPT ![t] = k]
  BY DEF Call
<1>2. buffer[t] \div width \in Nat /\ buffer[t] = width * (buffer[t] \div width)
  BY WholeItems DEF ChannelInv, TasksInv, CallInv
<1> DEFINE b == buffer[t] \div width
<1>3. b \in Nat /\ buffer[t] = width * b /\ k \in 1 .. Quota[t] - b
  BY <1>1, <1>2 DEF Left
<1> HIDE DEF b
<1>4. k \in Nat /\ width * k + buffer[t] <= width * Quota[t]
  <2> DEFINE z == Quota[t] - b - k
  <2>1. k \in Nat /\ z \in Nat /\ Quota[t] = k + b + z
    BY <1>0, <1>3
  <2> HIDE DEF z
  <2>2. width * k \in Nat /\ width * b \in Nat /\ width * z \in Nat
    BY <1>0, <1>3, <2>1
  <2>3. width * (k + b + z) = width * k + width * b + width * z
    BY <1>0, <1>3, <2>1
  <2>4. width * Quota[t] = width * k + buffer[t] + width * z
    BY <1>3, <2>1, <2>3
  <2> QED
    BY <1>3, <2>1, <2>2, <2>4
<1>5. Types'
  BY <1>1, <1>4 DEF ChannelInv, Types, Call, channel
<1>6. QueueInv'
  BY Requests DEF ChannelInv, Call
<1>7. RingInv' /\ TasksInv'
  <2>1. items'[t] = k /\ \A u \in Users \ {t} : items'[u] = items[u]
    BY <1>1 DEF ChannelInv, Types
  <2> QED
    BY <1>4, <2>1, TasksKept DEF ChannelInv, Call
<1> QED
  BY <1>5, <1>6, <1>7 DEF ChannelInv

LEMMA GetLockPreserves ==
  ASSUME MwmrAssumption, ChannelInv, NEW t \in Users, GetLock(t)
  PROVE  ChannelInv'
<1>1. Types'
  BY DEF ChannelInv, Types, GetLock, channel
<1>2. QueueInv'
  BY Enters DEF ChannelInv, GetLock
<1>3. width * items'[t] + buffer[t] <= width * Quota[t]
  BY DEF ChannelInv, TasksInv, CallInv, GetLock
<1>4. RingInv' /\ TasksInv'
  BY <1>3, TasksKept DEF ChannelInv, GetLock
<1> QED
  BY <1>1, <1>2, <1>4 DEF ChannelInv

LEMMA UnlockPreserves ==
  ASSUME MwmrAssumption, ChannelInv, NEW t \in Users, Unlock(t)
  PROVE  ChannelInv'
<1> DEFINE place == IF items[t] > 0 /\ blocking[t] THEN "retry" ELSE "idle"
<1>1. place \in {"retry", "idle"} /\ pc' = [pc EXCEPT ![t] = place]
  BY DEF Unlock
<1> HIDE DEF place
<1>2. Types'
  BY <1>1 DEF ChannelInv, Types, Unlock, channel
<1>3. QueueInv'
  BY <1>1, Exits DEF ChannelInv, Unlock, Inside
<1>4. width * items'[t] + buffer[t] <= width * Quota[t]
  BY DEF ChannelInv, TasksInv, CallInv, Unlock
<1>5. RingInv' /\ TasksInv'
  BY <1>1, <1>4, TasksKept DEF ChannelInv, Unlock
<1> QED
  BY <1>2, <1>3, <1>5 DEF ChannelInv

LEMMA RetryPreserves ==
  ASSUME MwmrAssumption, ChannelInv, NEW t \in Users, Retry(t)
  PROVE  ChannelInv'
<1>1. Types'
  BY DEF ChannelInv, Types, Retry, channel
<1>2. QueueInv'
  BY Requests DEF ChannelInv, Retry
<1>3. width * items'[t] + buffer[t] <= width * Quota[t]
  BY DEF ChannelInv, TasksInv, CallInv, Retry
<1>4. RingInv' /\ TasksInv'
  BY <1>3, TasksKept DEF ChannelInv, Retry
<1> QED
  BY <1>1, <1>2, <1>4 DEF ChannelInv

\* The length of a transaction: whole items, not more than there are, nor than wanted.
LEMMA LengthIsWhole ==
  ASSUME MwmrAssumption, NEW a \in Whole, NEW k \in Nat
  PROVE  /\ TransferLength(a, width * k) \in Whole
         /\ TransferLength(a, width * k) <= a /\ TransferLength(a, width * k) <= width * k
<1>1. a \in Nat /\ a \div width \in Nat /\ a = width * (a \div width)
  BY WholeItems
<1>2. width \in Nat /\ width * k \in Whole /\ width * k \in Nat
  BY Parameters, ItemsAreWhole, WholeItems
<1>3. (a \div width) * width = a
  BY <1>1, <1>2
<1> QED
  BY <1>1, <1>2, <1>3 DEF TransferLength

LEMMA AccessPreserves ==
  ASSUME MwmrAssumption, ChannelInv, NEW t \in Users, Access(t)
  PROVE  ChannelInv'
<1>0. width \in Nat \ {0} /\ depth \in Nat \ {0} /\ depth \in Whole
  BY Parameters, ItemsAreWhole
<1> DEFINE a == IF t \in Writers THEN depth - sts ELSE sts
           k == TransferLength(a, width * items[t])
<1>1. a \in Whole /\ a <= depth /\ items[t] \in Nat /\ sts \in Nat
  BY <1>0, WholeSums DEF ChannelInv, Types, RingInv
<1>2. k \in Whole /\ k \in Nat /\ k <= a /\ k <= width * items[t]
  BY <1>1, LengthIsWhole, WholeItems
<1>3. /\ nwords' = [nwords EXCEPT ![t] = k]
      /\ pos' = [pos EXCEPT ![t] = IF t \in Writers THEN ptw ELSE ptr]
      /\ n' = [n EXCEPT ![t] = 0]
      /\ pc' = [pc EXCEPT ![t] = IF nwords'[t] = 0 THEN "unlock" ELSE "copy"]
      /\ UNCHANGED <<lock, channel, items, blocking, buffer, words>>
  BY DEF Access
<1>5a. pc[t] = "access" /\ (t \in Writers => sts + a = depth) /\ (t \notin Writers => a = sts)
  BY <1>0, <1>1 DEF Access
<1> HIDE DEF a, k
<1>4. /\ \A u \in Users : nwords'[u] = IF u = t THEN k ELSE nwords[u]
      /\ \A u \in Users : pos'[u] = IF u = t THEN IF t \in Writers THEN ptw ELSE ptr ELSE pos[u]
      /\ \A u \in Users : n'[u] = IF u = t THEN 0 ELSE n[u]
      /\ \A u \in Users : pc'[u] = IF u = t THEN IF k = 0 THEN "unlock" ELSE "copy" ELSE pc[u]
  BY <1>3 DEF ChannelInv, Types
<1>5. Types'
  BY <1>0, <1>1, <1>2, <1>3 DEF ChannelInv, Types, channel
<1>6. QueueInv'
  BY <1>3, <1>4, <1>5a, QueueKept DEF ChannelInv, Inside, lock
<1>7. RingInv'
  BY <1>3 DEF ChannelInv, RingInv, channel, At
<1>8. ASSUME NEW u \in Users
      PROVE  CallInv(u)'
  BY <1>2, <1>3, <1>4 DEF ChannelInv, TasksInv, CallInv
<1>9. ASSUME NEW u \in Writers
      PROVE  WriteInv(u)'
  <2>1. CASE u = t
    <3>1. At(ptw, 0) = ptw
      BY <1>0, Positions DEF ChannelInv, Types
    <3>2. sts + k <= depth
      BY <1>0, <1>1, <1>2, <1>5a, <2>1
    <3>3. sts' = sts /\ ptw' = ptw
      BY <1>3 DEF channel
    <3> QED
      BY <1>4, <2>1, <3>1, <3>2, <3>3, Sides DEF WriteInv, At
  <2>2. CASE u # t
    BY <1>3, <1>4, <2>2, Sides DEF ChannelInv, TasksInv, WriteInv, channel, At
  <2> QED
    BY <2>1, <2>2
<1>10. ASSUME NEW u \in Readers
       PROVE  ReadInv(u)'
  <2>1. CASE u = t
    <3>1. At(ptr, 0) = ptr
      BY <1>0, Positions DEF ChannelInv, Types
    <3>2. sts' = sts /\ ptr' = ptr /\ words' = words /\ buffer' = buffer
      BY <1>3 DEF channel
    <3>3. Len(words[u]) = buffer[u] /\ buffer[u] + 0 = buffer[u]
      BY <1>5a, <2>1, Sides DEF ChannelInv, TasksInv, ReadInv, Types
    <3> QED
      BY <1>2, <1>4, <1>5a, <2>1, <3>1, <3>2, <3>3, Sides DEF ReadInv, At
  <2>2. CASE u # t
    BY <1>3, <1>4, <2>2, Sides DEF ChannelInv, TasksInv, ReadInv, channel, At
  <2> QED
    BY <2>1, <2>2
<1> QED
  BY <1>5, <1>6, <1>7, <1>8, <1>9, <1>10 DEF ChannelInv, TasksInv

\* What is in the buffer is what its owner sends.
LEMMA SentWords ==
  ASSUME MwmrAssumption, ChannelInv, NEW t \in Writers, pc[t] = "copy", NEW m \in 0 .. nwords[t] - 1
  PROVE  WordOf(t, buffer[t] + m) \in Word
<1>1. t \in Users /\ width \in Nat /\ Quota[t] \in Nat
  BY Parameters, Sides
<1>2. CallInv(t) /\ buffer[t] \in Nat /\ items[t] \in Nat /\ nwords[t] \in Nat
  BY <1>1 DEF ChannelInv, TasksInv, Types
<1>3. width * Quota[t] \in Nat /\ width * items[t] \in Nat
  BY <1>1, <1>2
<1>4. buffer[t] + m \in 0 .. width * Quota[t] - 1
  BY <1>2, <1>3 DEF CallInv
<1> QED
  BY <1>4 DEF Word

\* A word that is written is not one of the channel.
LEMMA CopyOutside ==
  ASSUME MwmrAssumption, ChannelInv, NEW t \in Writers, Copy(t), NEW m \in 0 .. sts - 1
  PROVE  At(ptr, m) \in 0 .. depth - 1 /\ At(ptr, m) # pos[t]
<1> DEFINE k == n[t]
<1>0. depth \in Nat \ {0} /\ t \in Users /\ pc[t] = "copy" /\ k < nwords[t]
  BY Parameters, Sides DEF Copy
<1>1. /\ sts \in Nat /\ sts <= depth /\ k \in Nat /\ nwords[t] \in Nat /\ ptr \in 0 .. depth - 1
      /\ ptw = At(ptr, sts)
  BY <1>0 DEF ChannelInv, Types, RingInv
<1>2. sts + nwords[t] <= depth /\ pos[t] = At(ptw, k)
  BY <1>0 DEF ChannelInv, TasksInv, WriteInv
<1>3. sts \in 0 .. depth /\ k \in 0 .. depth - sts /\ sts + k < depth
  BY <1>0, <1>1, <1>2
<1>4. At(At(ptr, sts), k) = At(ptr, sts + k)
  BY <1>1, <1>3, Positions
<1>5. m \in 0 .. depth - 1 /\ m \in 0 .. depth /\ m < depth /\ m # sts + k /\ sts + k \in 0 .. depth - 1
  BY <1>0, <1>1, <1>3
<1>6. At(ptr, m) \in 0 .. depth - 1 /\ (At(ptr, sts + k) = At(ptr, m) => sts + k = m)
  BY <1>1, <1>5, Positions
<1> QED
  BY <1>1, <1>2, <1>4, <1>5, <1>6

LEMMA CopyWritePreserves ==
  ASSUME MwmrAssumption, ChannelInv, NEW t \in Writers, Copy(t)
  PROVE  ChannelInv'
<1>0. width \in Nat \ {0} /\ depth \in Nat \ {0} /\ t \in Users /\ t \notin Readers
  BY Parameters, Sides
<1> DEFINE v == WordOf(t, buffer[t] + n[t])
           x == pos[t]
           k == n[t]
           y == IF pos[t] + 1 = depth THEN 0 ELSE pos[t] + 1
<1>1. /\ pc[t] = "copy" /\ k < nwords[t] /\ pc' = pc
      /\ data' = [data EXCEPT ![x] = v] /\ words' = words
      /\ pos' = [pos EXCEPT ![t] = y]
      /\ n' = [n EXCEPT ![t] = k + 1]
      /\ UNCHANGED <<lock, sts, ptr, ptw, items, blocking, nwords, buffer>>
  BY <1>0 DEF Copy, ChannelInv, Types
<1>2. /\ CallInv(t) /\ WriteInv(t) /\ sts \in Nat /\ nwords[t] \in Nat /\ k \in Nat /\ x \in 0 .. depth - 1
      /\ ptw \in 0 .. depth - 1 /\ ptr \in 0 .. depth - 1 /\ y \in 0 .. depth - 1 /\ sts <= depth
  BY <1>0 DEF ChannelInv, TasksInv, Types
<1>3. v \in Word
  BY <1>1, <1>2, SentWords
<1>4. /\ sts + nwords[t] <= depth /\ x = At(ptw, k) /\ y = At(ptw, k + 1)
      /\ \A m \in 0 .. k - 1 : data[At(ptw, m)] = WordOf(t, buffer[t] + m)
  <2>1. sts + nwords[t] <= depth /\ x = At(ptw, k)
        /\ \A m \in 0 .. k - 1 : data[At(ptw, m)] = WordOf(t, buffer[t] + m)
    BY <1>1, <1>2 DEF WriteInv
  <2>2. k \in 0 .. depth /\ k < depth
    BY <1>0, <1>1, <1>2, <2>1
  <2> QED
    BY <1>2, <2>1, <2>2, Positions
<1> HIDE DEF v, x, k, y
<1>5. /\ \A u \in Users : pos'[u] = IF u = t THEN y ELSE pos[u]
      /\ \A u \in Users : n'[u] = IF u = t THEN k + 1 ELSE n[u]
      /\ \A z \in 0 .. depth - 1 : data'[z] = IF z = x THEN v ELSE data[z]
      /\ k + 1 <= depth
  BY <1>0, <1>1, <1>2, <1>4 DEF ChannelInv, Types
<1>6. Types'
  BY <1>0, <1>1, <1>2, <1>3, <1>5 DEF ChannelInv, Types
<1>7. QueueInv'
  BY <1>1, QueueKept DEF ChannelInv, Inside, lock
<1>8. \A m \in 0 .. sts - 1 : At(ptr, m) \in 0 .. depth - 1 /\ At(ptr, m) # x
  BY CopyOutside DEF x
<1>9. RingInv'
  <2>1. \A m \in 0 .. sts - 1 : data'[At(ptr, m)] = data[At(ptr, m)]
    BY <1>5, <1>8
  <2> QED
    BY <1>1, <2>1 DEF ChannelInv, RingInv, At
<1>10. ASSUME NEW u \in Users
       PROVE  CallInv(u)'
  <2>1. CASE u = t
    BY <1>1, <1>2, <1>5, <2>1 DEF CallInv
  <2>2. CASE u # t
    BY <1>1, <1>5, <2>2 DEF ChannelInv, TasksInv, CallInv
  <2> QED
    BY <2>1, <2>2
<1>11. \A u \in Users : u # t => pc[u] # "copy"
  BY <1>0, <1>1, InsideAlone DEF ChannelInv, Inside
<1>12. WriteInv(t)'
  <2>1. \A m \in 0 .. k : data'[At(ptw, m)] = WordOf(t, buffer[t] + m)
    <3> TAKE m \in 0 .. k
    <3>1. k \in 0 .. depth /\ m \in 0 .. depth /\ k < depth /\ m < depth
      BY <1>0, <1>1, <1>2, <1>4
    <3>2. At(ptw, m) \in 0 .. depth - 1 /\ (At(ptw, m) = At(ptw, k) => m = k)
      <4>1. ptw \in 0 .. depth - 1 /\ m \in 0 .. depth - 1
        BY <1>0, <1>2, <3>1
      <4> QED
        BY <3>1, <4>1, Positions
    <3>3. CASE m = k
      BY <1>4, <1>5, <3>2, <3>3 DEF v, k
    <3>4. CASE m # k
      BY <1>2, <1>4, <1>5, <3>2, <3>4
    <3> QED
      BY <3>3, <3>4
  <2>2. n'[t] = k + 1 /\ pos'[t] = At(ptw, k + 1)
    BY <1>0, <1>4, <1>5
  <2>3. \A m \in 0 .. (k + 1) - 1 : m \in 0 .. k
    BY <1>2
  <2> QED
    BY <1>1, <1>4, <2>1, <2>2, <2>3 DEF WriteInv, At
<1>13. ASSUME NEW u \in Writers
       PROVE  WriteInv(u)'
  BY <1>1, <1>11, <1>12, Sides DEF WriteInv
<1>14. ASSUME NEW u \in Readers
       PROVE  ReadInv(u)'
  BY <1>0, <1>1, <1>11, Sides DEF ReadInv, ChannelInv, TasksInv
<1> QED
  BY <1>6, <1>7, <1>9, <1>10, <1>13, <1>14 DEF ChannelInv, TasksInv

LEMMA CopyReadPreserves ==
  ASSUME MwmrAssumption, ChannelInv, NEW t \in Readers, Copy(t)
  PROVE  ChannelInv'
<1>0. width \in Nat \ {0} /\ depth \in Nat \ {0} /\ t \in Users /\ t \notin Writers
  BY Parameters, Sides
<1> DEFINE x == pos[t]
           k == n[t]
           b == buffer[t]
           y == IF pos[t] + 1 = depth THEN 0 ELSE pos[t] + 1
<1>1. /\ pc[t] = "copy" /\ k < nwords[t] /\ pc' = pc
      /\ words' = [words EXCEPT ![t] = Append(@, data[x])] /\ data' = data
      /\ pos' = [pos EXCEPT ![t] = y]
      /\ n' = [n EXCEPT ![t] = k + 1]
      /\ UNCHANGED <<lock, sts, ptr, ptw, items, blocking, nwords, buffer>>
  BY <1>0 DEF Copy, ChannelInv, Types
<1>2. /\ CallInv(t) /\ ReadInv(t) /\ sts \in Nat /\ nwords[t] \in Nat /\ k \in Nat /\ x \in 0 .. depth - 1
      /\ b \in Nat
      /\ ptr \in 0 .. depth - 1 /\ y \in 0 .. depth - 1 /\ sts <= depth /\ words[t] \in Seq(Word)
  <2>1. CallInv(t) /\ ReadInv(t)
    BY <1>0 DEF ChannelInv, TasksInv
  <2>2. words[t] \in Seq(Word) /\ b \in Nat
    BY <1>0 DEF ChannelInv, Types
  <2>3. /\ sts \in Nat /\ nwords[t] \in Nat /\ k \in Nat /\ x \in 0 .. depth - 1
        /\ ptr \in 0 .. depth - 1 /\ y \in 0 .. depth - 1 /\ sts <= depth
    BY <1>0 DEF ChannelInv, Types
  <2> QED
    BY <2>1, <2>2, <2>3
<1>4. /\ nwords[t] <= sts /\ x = At(ptr, k) /\ y = At(ptr, k + 1) /\ Len(words[t]) = b + k
      /\ \A m \in 0 .. k - 1 : words[t][b + m + 1] = data[At(ptr, m)]
  <2>1. nwords[t] <= sts /\ x = At(ptr, k) /\ Len(words[t]) = b + k
        /\ \A m \in 0 .. k - 1 : words[t][b + m + 1] = data[At(ptr, m)]
    BY <1>1, <1>2 DEF ReadInv
  <2>2. k \in 0 .. depth /\ k < depth
    BY <1>0, <1>1, <1>2, <2>1
  <2>3. At(ptr, k + 1) = IF At(ptr, k) + 1 = depth THEN 0 ELSE At(ptr, k) + 1
    BY <1>2, <2>2, Positions
  <2> QED
    BY <2>1, <2>3
<1>3. data[x] \in Word
  BY <1>1, <1>2, <1>4 DEF ChannelInv, RingInv
<1> HIDE DEF x, k, y, b
<1>5. /\ \A u \in Users : pos'[u] = IF u = t THEN y ELSE pos[u]
      /\ \A u \in Users : n'[u] = IF u = t THEN k + 1 ELSE n[u]
      /\ \A u \in Readers : words'[u] = IF u = t THEN Append(words[t], data[x]) ELSE words[u]
      /\ k + 1 <= depth
  BY <1>0, <1>1, <1>2, <1>4 DEF ChannelInv, Types
<1>5a. /\ words'[t] \in Seq(Word) /\ Len(words'[t]) = b + k + 1
       /\ \A m \in 1 .. b + k : words'[t][m] = words[t][m]
       /\ words'[t][b + k + 1] = data[x]
  <2>1. words'[t] = Append(words[t], data[x]) /\ words[t] \in Seq(Word) /\ data[x] \in Word
    BY <1>2, <1>3, <1>5
  <2>2. Len(words[t]) = b + k
    BY <1>4
  <2> QED
    BY <2>1, <2>2, AppendProperties
<1>6. Types'
  <2>1. words' \in [Readers -> Seq(Word)]
    BY <1>1, <1>5, <1>5a DEF ChannelInv, Types
  <2>2. pos' \in [Users -> 0 .. depth - 1]
    BY <1>0, <1>1, <1>2, <1>5 DEF ChannelInv, Types
  <2>3. n' \in [Users -> 0 .. depth]
    <3>1. k + 1 \in 0 .. depth
      BY <1>0, <1>2, <1>5
    <3> QED
      BY <1>0, <1>1, <1>5, <3>1 DEF ChannelInv, Types
  <2> QED
    BY <1>1, <2>1, <2>2, <2>3 DEF ChannelInv, Types
<1>7. QueueInv'
  BY <1>1, QueueKept DEF ChannelInv, Inside, lock
<1>9. RingInv'
  BY <1>1 DEF ChannelInv, RingInv, At
<1>10. ASSUME NEW u \in Users
       PROVE  CallInv(u)'
  <2>1. CASE u = t
    BY <1>1, <1>2, <1>5, <2>1 DEF CallInv
  <2>2. CASE u # t
    BY <1>1, <1>5, <2>2 DEF ChannelInv, TasksInv, CallInv
  <2> QED
    BY <2>1, <2>2
<1>11. \A u \in Users : u # t => pc[u] # "copy"
  BY <1>0, <1>1, InsideAlone DEF ChannelInv, Inside
<1>12. ReadInv(t)'
  <2>1. \A m \in 0 .. k : words'[t][b + m + 1] = data[At(ptr, m)]
    <3> TAKE m \in 0 .. k
    <3>1. CASE m = k
      <4>1. x = At(ptr, k) /\ words'[t][b + k + 1] = data[x]
        BY <1>4, <1>5a
      <4>2. b + m + 1 = b + k + 1
        BY <3>1
      <4> QED
        BY <3>1, <4>1, <4>2
    <3>2. CASE m # k
      <4>1. m \in 0 .. k - 1 /\ b + m + 1 \in 1 .. b + k
        BY <1>2, <3>2
      <4> QED
        BY <1>4, <1>5a, <4>1
    <3> QED
      BY <3>1, <3>2
  <2>2. n'[t] = k + 1 /\ pos'[t] = At(ptr, k + 1) /\ buffer'[t] = b /\ Len(words'[t]) = b + (k + 1)
    <3>1. b + k + 1 = b + (k + 1)
      BY <1>2
    <3>2. buffer'[t] = b
      BY <1>1 DEF b
    <3> QED
      BY <1>0, <1>4, <1>5, <1>5a, <3>1, <3>2
  <2>3. \A m \in 0 .. (k + 1) - 1 : m \in 0 .. k
    BY <1>2
  <2>4. /\ \A m \in 0 .. n'[t] - 1 : words'[t][buffer'[t] + m + 1] = data'[At(ptr, m)]
        /\ pos'[t] = At(ptr, n'[t]) /\ Len(words'[t]) = buffer'[t] + n'[t]
    BY <1>1, <2>1, <2>2, <2>3
  <2>5. nwords'[t] <= sts' /\ ptr' = ptr /\ pc'[t] = "copy"
    BY <1>1, <1>4
  <2> QED
    BY <2>4, <2>5 DEF ReadInv, At
<1>13. ASSUME NEW u \in Writers
       PROVE  WriteInv(u)'
  BY <1>0, <1>1, <1>11, Sides DEF WriteInv
<1>14. ASSUME NEW u \in Readers
       PROVE  ReadInv(u)'
  <2>1. CASE u # t
    BY <1>1, <1>5, <1>11, <2>1, Sides DEF ReadInv, ChannelInv, TasksInv
  <2> QED
    BY <1>12, <2>1
<1> QED
  BY <1>6, <1>7, <1>9, <1>10, <1>13, <1>14 DEF ChannelInv, TasksInv

\* What a transaction changes on the side of its task.
LEMMA UpdateTask ==
  ASSUME MwmrAssumption, ChannelInv, NEW t \in Users, Update(t)
  PROVE  /\ items'[t] \in Nat /\ \A u \in Users : u # t => items'[u] = items[u]
         /\ buffer'[t] = buffer[t] + nwords[t] /\ buffer'[t] \in Nat
         /\ \A u \in Users : u # t => buffer'[u] = buffer[u]
         /\ \A u \in Users : CallInv(u)'
         /\ items' \in [Users -> Nat] /\ buffer' \in [Users -> Nat]
         /\ \A u \in Users : pc'[u] = IF u = t THEN "unlock" ELSE pc[u]
         /\ \A u \in Users : u # t => pc[u] # "copy"
         /\ QueueInv'
<1>0. width \in Nat \ {0} /\ Quota[t] \in Nat
  BY Parameters
<1> DEFINE q == nwords[t] \div width
           k == items[t]
           b == buffer[t]
<1>1. /\ CallInv(t) /\ pc[t] = "copy" /\ k \in Nat /\ b \in Nat /\ nwords[t] <= width * k
      /\ n[t] = nwords[t] /\ UNCHANGED <<lock, data, blocking, nwords, n, pos, words>>
      /\ pc' = [pc EXCEPT ![t] = "unlock"]
      /\ items' = [items EXCEPT ![t] = k - q] /\ buffer' = [buffer EXCEPT ![t] = b + nwords[t]]
  BY DEF ChannelInv, TasksInv, CallInv, Types, Update
<1>2. nwords[t] \in Whole /\ b \in Whole /\ q \in Nat /\ nwords[t] = width * q /\ nwords[t] \in Nat
  BY <1>1, WholeItems DEF CallInv
<1>3. q <= k
  BY <1>1, <1>2, ItemsAreWhole, WholeSums
<1>4. width * (k - q) + (b + nwords[t]) = width * k + b
  <2> HIDE DEF q, k, b
  <2>1. width * (k - q) = width * k - width * q
    BY <1>0, <1>1, <1>2
  <2>2. width * k \in Nat
    BY <1>0, <1>1
  <2> QED
    BY <1>1, <1>2, <2>1, <2>2
<1>5. b + nwords[t] \in Whole /\ b + nwords[t] \in Nat /\ k - q \in Nat
  <2>1. b + nwords[t] \in Whole
    BY <1>2, WholeSums
  <2> QED
    BY <1>1, <1>2, <1>3, <2>1
<1> HIDE DEF q
<1>6. /\ \A u \in Users : items'[u] = IF u = t THEN k - q ELSE items[u]
      /\ \A u \in Users : buffer'[u] = IF u = t THEN b + nwords[t] ELSE buffer[u]
      /\ \A u \in Users : pc'[u] = IF u = t THEN "unlock" ELSE pc[u]
  BY <1>1 DEF ChannelInv, Types
<1>7. items' \in [Users -> Nat] /\ buffer' \in [Users -> Nat]
  BY <1>1, <1>5 DEF ChannelInv, Types
<1>8. ASSUME NEW u \in Users
      PROVE  CallInv(u)'
  <2>1. CASE u = t
    <3>1. width * k + b <= width * Quota[t]
      BY <1>1 DEF CallInv
    <3>2. buffer'[t] \in Whole /\ nwords'[t] \in Whole /\ pc'[t] # "copy"
      BY <1>1, <1>2, <1>5, <1>6
    <3>3. width * items'[t] + buffer'[t] <= width * Quota[t]
      BY <1>4, <1>6, <3>1
    <3> QED
      BY <2>1, <3>2, <3>3 DEF CallInv
  <2>2. CASE u # t
    BY <1>1, <1>6, <2>2 DEF ChannelInv, TasksInv, CallInv
  <2> QED
    BY <2>1, <2>2
<1>9. \A u \in Users : u # t => pc[u] # "copy"
  BY <1>1, InsideAlone DEF ChannelInv, Inside
<1>10. QueueInv'
  BY <1>1, <1>6, QueueKept DEF ChannelInv, Inside, lock
<1> QED
  BY <1>5, <1>6, <1>7, <1>8, <1>9, <1>10

LEMMA UpdateWritePreserves ==
  ASSUME MwmrAssumption, ChannelInv, NEW t \in Writers, Update(t)
  PROVE  ChannelInv'
<1>0. width \in Nat \ {0} /\ depth \in Nat \ {0} /\ t \in Users /\ t \notin Readers
  BY Parameters, Sides
<1> DEFINE k == nwords[t]
<1>1. /\ pc[t] = "copy" /\ n[t] = k
      /\ sts' = sts + k /\ ptw' = pos[t] /\ ptr' = ptr
      /\ UNCHANGED <<lock, data, blocking, nwords, n, pos, words>>
      /\ pc' = [pc EXCEPT ![t] = "unlock"]
  BY <1>0 DEF Update
<1>2. /\ WriteInv(t) /\ CallInv(t) /\ k \in Whole /\ k \in Nat /\ sts \in Whole /\ sts \in Nat
      /\ ptr \in 0 .. depth - 1 /\ ptw = At(ptr, sts) /\ pos[t] \in 0 .. depth - 1
  BY <1>0 DEF ChannelInv, TasksInv, CallInv, Types, RingInv
<1>3. /\ sts + k <= depth /\ pos[t] = At(ptw, k)
      /\ \A m \in 0 .. k - 1 : data[At(ptw, m)] = WordOf(t, buffer[t] + m)
  BY <1>1, <1>2 DEF WriteInv
<1>4. \A m \in 0 .. k - 1 : data[At(ptw, m)] \in Word
  BY <1>1, <1>3, SentWords
<1>5. sts \in 0 .. depth /\ k \in 0 .. depth - sts
  BY <1>0, <1>2, <1>3
<1>6. \A m \in 0 .. k : At(ptw, m) = At(ptr, sts + m)
  <2> TAKE m \in 0 .. k
  <2>1. m \in 0 .. depth - sts
    BY <1>0, <1>5
  <2> QED
    BY <1>2, <1>5, <2>1, Positions
<1> HIDE DEF k
<1>7. RingInv'
  <2>1. sts + k \in Whole
    BY <1>2, WholeSums
  <2>2. ptw' = At(ptr, sts + k)
    BY <1>1, <1>2, <1>3, <1>6
  <2>3. \A m \in 0 .. sts + k - 1 : data[At(ptr, m)] \in Word
    <3> TAKE m \in 0 .. sts + k - 1
    <3>1. CASE m < sts
      BY <1>2, <3>1 DEF ChannelInv, RingInv
    <3>2. CASE m >= sts
      <4>1. m - sts \in 0 .. k - 1 /\ m - sts \in 0 .. k /\ sts + (m - sts) = m
        BY <1>2, <3>2
      <4> QED
        BY <1>4, <1>6, <4>1
    <3> QED
      BY <1>2, <3>1, <3>2
  <2>4. sts' \in Whole /\ ptw' = At(ptr', sts')
    BY <1>1, <2>1, <2>2
  <2>5. \A m \in 0 .. sts' - 1 : data'[At(ptr', m)] \in Word
    <3>1. data' = data /\ sts' = sts + k /\ ptr' = ptr /\ sts \in Nat /\ k \in Nat
      BY <1>1, <1>2
    <3> QED
      BY <2>3, <3>1 DEF At
  <2> QED
    BY <2>4, <2>5 DEF RingInv, At
<1>8. Types'
  <2>1. sts' \in 0 .. depth
    BY <1>0, <1>1, <1>2, <1>3
  <2> QED
    BY <1>0, <1>1, <1>2, <2>1, UpdateTask DEF ChannelInv, Types
<1>9. ASSUME NEW u \in Writers
      PROVE  WriteInv(u)'
  <2>1. pc'[u] # "copy"
    BY <1>0, Sides, UpdateTask
  <2> QED
    BY <2>1 DEF WriteInv
<1>10. ASSUME NEW u \in Readers
       PROVE  ReadInv(u)'
  <2>1. pc'[u] # "copy" /\ pc[u] # "copy" /\ buffer'[u] = buffer[u]
    BY <1>0, Sides, UpdateTask
  <2> QED
    BY <1>1, <2>1 DEF ReadInv, ChannelInv, TasksInv
<1> QED
  BY <1>0, <1>7, <1>8, <1>9, <1>10, UpdateTask DEF ChannelInv, TasksInv

LEMMA UpdateReadPreserves ==
  ASSUME MwmrAssumption, ChannelInv, NEW t \in Readers, Update(t)
  PROVE  ChannelInv'
<1>0. width \in Nat \ {0} /\ depth \in Nat \ {0} /\ t \in Users /\ t \notin Writers
  BY Parameters, Sides
<1> DEFINE k == nwords[t]
<1>1. /\ pc[t] = "copy" /\ n[t] = k
      /\ sts' = sts - k /\ ptr' = pos[t] /\ ptw' = ptw
      /\ UNCHANGED <<lock, data, blocking, nwords, n, pos, words>>
      /\ pc' = [pc EXCEPT ![t] = "unlock"]
  BY <1>0 DEF Update
<1>2. /\ ReadInv(t) /\ CallInv(t) /\ k \in Whole /\ k \in Nat /\ sts \in Whole /\ sts \in Nat
      /\ ptr \in 0 .. depth - 1 /\ ptw = At(ptr, sts) /\ pos[t] \in 0 .. depth - 1 /\ sts <= depth
  BY <1>0 DEF ChannelInv, TasksInv, CallInv, Types, RingInv
<1>3. k <= sts /\ pos[t] = At(ptr, k) /\ Len(words[t]) = buffer[t] + k
  BY <1>1, <1>2 DEF ReadInv
<1>5. k \in 0 .. depth /\ sts - k \in 0 .. depth - k /\ k + (sts - k) = sts
  BY <1>0, <1>2, <1>3
<1>6. \A m \in 0 .. sts - k : At(pos[t], m) = At(ptr, k + m)
  <2> TAKE m \in 0 .. sts - k
  <2>1. m \in 0 .. depth - k
    BY <1>0, <1>2, <1>5
  <2>2. ptr \in 0 .. depth - 1 /\ pos[t] = At(ptr, k)
    BY <1>2, <1>3
  <2> HIDE DEF k
  <2>3. At(At(ptr, k), m) = At(ptr, k + m)
    BY <1>5, <2>1, <2>2, Positions
  <2> QED
    BY <2>2, <2>3
<1> HIDE DEF k
<1>7. RingInv'
  <2>1. sts - k \in Whole
    BY <1>2, <1>3, WholeSums
  <2>2. ptw = At(pos[t], sts - k)
    <3>1. sts - k \in 0 .. sts - k
      BY <1>5
    <3> QED
      BY <1>2, <1>5, <1>6, <3>1
  <2>3. \A m \in 0 .. sts - k - 1 : data[At(pos[t], m)] \in Word
    <3> TAKE m \in 0 .. sts - k - 1
    <3>1. m \in 0 .. sts - k /\ k + m \in 0 .. sts - 1
      BY <1>2, <1>3
    <3> QED
      BY <1>6, <3>1 DEF ChannelInv, RingInv
  <2> QED
    BY <1>1, <2>1, <2>2, <2>3 DEF RingInv, At
<1>8. Types'
  <2>1. sts' \in 0 .. depth
    BY <1>0, <1>1, <1>2, <1>3
  <2> QED
    BY <1>0, <1>1, <1>2, <2>1, UpdateTask DEF ChannelInv, Types
<1>9. ASSUME NEW u \in Writers
      PROVE  WriteInv(u)'
  <2>1. pc'[u] # "copy"
    BY <1>0, Sides, UpdateTask
  <2> QED
    BY <2>1 DEF WriteInv
<1>10. ASSUME NEW u \in Readers
       PROVE  ReadInv(u)'
  <2>1. pc'[u] # "copy" /\ (u # t => pc[u] # "copy" /\ buffer'[u] = buffer[u])
    BY <1>0, Sides, UpdateTask
  <2>2. Len(words[u]) = buffer'[u]
    BY <1>0, <1>3, <2>1, UpdateTask DEF ReadInv, ChannelInv, TasksInv, k
  <2> QED
    BY <1>1, <2>1, <2>2 DEF ReadInv
<1> QED
  BY <1>0, <1>7, <1>8, <1>9, <1>10, UpdateTask DEF ChannelInv, TasksInv

LEMMA ChannelPreserved ==
  ASSUME MwmrAssumption, ChannelInv, [Next]_vars
  PROVE  ChannelInv'
<1>1. ASSUME NEW t \in Users, Step(t)
      PROVE  ChannelInv'
  <2>1. t \in Writers \/ t \in Readers
    BY Sides
  <2> QED
    BY <1>1, <2>1, CallPreserves, GetLockPreserves, AccessPreserves, CopyWritePreserves,
       CopyReadPreserves, UpdateWritePreserves, UpdateReadPreserves, UnlockPreserves,
       RetryPreserves
       DEF Step
<1>2. ASSUME UNCHANGED vars
      PROVE  ChannelInv'
  <2>1. UNCHANGED <<queue, entered, sts, ptr, ptw, data, pc, items, blocking, nwords, n, pos, buffer,
                    words>>
    BY <1>2 DEF vars, lock, channel
  <2>2. Types' /\ QueueInv'
    BY <2>1 DEF ChannelInv, Types, QueueInv, Inside
  <2>3. RingInv' /\ TasksInv'
    BY <2>1 DEF ChannelInv, RingInv, TasksInv, CallInv, WriteInv, ReadInv, At
  <2> QED
    BY <2>2, <2>3 DEF ChannelInv
<1> QED
  BY <1>1, <1>2 DEF Next

LEMMA ChannelTypes ==
  ASSUME MwmrAssumption, ChannelInv
  PROVE  TypeOK
<1>1. ASSUME NEW t \in Users
      PROVE  items[t] \in 0 .. Quota[t] /\ buffer[t] \in 0 .. width * Quota[t]
  <2>1. width \in Nat \ {0} /\ Quota[t] \in Nat /\ items[t] \in Nat /\ buffer[t] \in Nat
        /\ width * items[t] + buffer[t] <= width * Quota[t]
    BY Parameters DEF ChannelInv, TasksInv, CallInv, Types
  <2>2. width * items[t] \in Whole /\ width * Quota[t] \in Whole
        /\ width * items[t] \in Nat /\ width * Quota[t] \in Nat
        /\ (width * items[t]) \div width = items[t] /\ (width * Quota[t]) \div width = Quota[t]
    BY <2>1, ItemsAreWhole, WholeItems
  <2>3. width * items[t] <= width * Quota[t]
    BY <2>1, <2>2
  <2>4. items[t] <= Quota[t]
    BY <2>2, <2>3, WholeSums
  <2> QED
    BY <2>1, <2>2, <2>4
<1> QED
  BY <1>1 DEF ChannelInv, Types, TypeOK

-----------------------------------------------------------------------------
(* The items of the abstract channel                                       *)

\* The item at a place of the circular buffer d, counted from x; those in s words; those
\* that were received in the first b words of ws.
Item(d, x, i) == ItemOf([j \in 1 .. width |-> d[At(x, (i - 1) * width + j - 1)]])
ItemsIn(d, x, s) == [i \in 1 .. s \div width |-> Item(d, x, i)]
Received(ws, b) ==
  [i \in 1 .. b \div width |-> ItemOf(SubSeq(ws, (i - 1) * width + 1, i * width))]

\* k words from word b of producer w lie behind the s words of the channel; the words
\* from b of ws were copied from its first k words; the items
\* of the first k words, and of those of a producer.
PutBehind(d, x, s, k, w, b) ==
  \A m \in 0 .. k - 1 : d[At(At(x, s), m)] = WordOf(w, b + m)
CopiedFrom(ws, b, k, d, x) ==
  /\ ws \in Seq(Word) /\ Len(ws) = b + k
  /\ \A m \in 0 .. k - 1 : ws[b + m + 1] = d[At(x, m)]
FirstItems(d, x, s, k) == SubSeq(ItemsIn(d, x, s), 1, k \div width)
ItemsOf(w, b, k) == [i \in 1 .. k \div width |-> <<w, b \div width + i>>]

\* An item only depends on its words.
LEMMA ItemOfWords ==
  ASSUME MwmrAssumption, NEW f, NEW g, \A j \in 1 .. width : f[j] = g[j]
  PROVE  ItemOf(f) = ItemOf(g)
<1>1. 1 \in 1 .. width
  BY Parameters
<1>2. f[1] = g[1]
  BY <1>1
<1>3. (\A i \in 1 .. width : f[i] = <<f[1][1], f[1][2], i - 1>>)
      <=> (\A i \in 1 .. width : g[i] = <<g[1][1], g[1][2], i - 1>>)
  BY <1>2
<1> QED
  BY <1>2, <1>3 DEF ItemOf

LEMMA SentItem ==
  ASSUME MwmrAssumption, NEW w, NEW q \in Nat, NEW f,
         \A j \in 1 .. width : f[j] = WordOf(w, width * q + (j - 1))
  PROVE  ItemOf(f) = <<w, q + 1>>
<1>1. width \in Nat \ {0}
  BY Parameters
<1>2. ASSUME NEW j \in 1 .. width
      PROVE  f[j] = <<w, q + 1, j - 1>>
  <2>1. j - 1 \in 0 .. width - 1
    BY <1>1
  <2>2. (width * q + (j - 1)) % width = j - 1 /\ (width * q + (j - 1)) \div width = q
    BY <1>1, <2>1, Division
  <2> QED
    BY <2>2 DEF WordOf
<1>3. 1 \in 1 .. width
  BY <1>1
<1>4. f[1][1] = w /\ f[1][2] = q + 1
  BY <1>2, <1>3
<1> QED
  BY <1>2, <1>4 DEF ItemOf

LEMMA SameItems ==
  ASSUME MwmrAssumption, NEW s \in Whole, NEW d, NEW e, NEW x, NEW y,
         \A m \in 0 .. s - 1 : d[At(x, m)] = e[At(y, m)]
  PROVE  ItemsIn(d, x, s) = ItemsIn(e, y, s)
<1>1. s \div width \in Nat /\ s = width * (s \div width)
  BY WholeItems
<1>2. ASSUME NEW i \in 1 .. s \div width
      PROVE  Item(d, x, i) = Item(e, y, i)
  <2> DEFINE f == [j \in 1 .. width |-> d[At(x, (i - 1) * width + j - 1)]]
             g == [j \in 1 .. width |-> e[At(y, (i - 1) * width + j - 1)]]
  <2>1. ASSUME NEW j \in 1 .. width
        PROVE  f[j] = g[j]
    <3>1. (i - 1) * width + j - 1 \in 0 .. s - 1
      BY <1>1, WordOfItem
    <3> QED
      BY <3>1
  <2> HIDE DEF f, g
  <2>2. ItemOf(f) = ItemOf(g)
    BY <2>1, ItemOfWords
  <2> QED
    BY <2>2 DEF f, g, Item
<1> QED
  BY <1>2 DEF ItemsIn

LEMMA ItemsByPosition ==
  ASSUME MwmrAssumption, NEW s \in Whole, s <= depth, NEW x \in 0 .. depth - 1, NEW d
  PROVE  [i \in 1 .. s \div width |->
            ItemOf([j \in 1 .. width |-> d[(x + (i - 1) * width + j - 1) % depth]])]
         = ItemsIn(d, x, s)
<1>1. s \div width \in Nat /\ s = width * (s \div width) /\ s \in Nat /\ depth \in Nat
  BY WholeItems, Parameters
<1>2. ASSUME NEW i \in 1 .. s \div width
      PROVE  ItemOf([j \in 1 .. width |-> d[(x + (i - 1) * width + j - 1) % depth]]) = Item(d, x, i)
  <2> DEFINE f == [j \in 1 .. width |-> d[(x + (i - 1) * width + j - 1) % depth]]
             g == [j \in 1 .. width |-> d[At(x, (i - 1) * width + j - 1)]]
  <2>1. ASSUME NEW j \in 1 .. width
        PROVE  f[j] = g[j]
    <3>1. (i - 1) * width + j - 1 \in 0 .. s - 1 /\ (i - 1) * width \in Nat
      BY <1>1, WordOfItem
    <3>2. (i - 1) * width + j - 1 \in 0 .. depth
      BY <1>1, <3>1
    <3>3. (x + ((i - 1) * width + j - 1)) % depth = At(x, (i - 1) * width + j - 1)
      BY <3>2, Positions
    <3>4. x + ((i - 1) * width + j - 1) = x + (i - 1) * width + j - 1
      BY <1>1, <3>1
    <3> QED
      BY <3>3, <3>4
  <2> HIDE DEF f, g
  <2>2. ItemOf(f) = ItemOf(g)
    BY <2>1, ItemOfWords
  <2> QED
    BY <2>2 DEF f, g, Item
<1> QED
  BY <1>2 DEF ItemsIn

LEMMA ContentIs ==
  ASSUME MwmrAssumption
  PROVE  /\ ChannelInv => Content = ItemsIn(data, ptr, sts)
         /\ ChannelInv' => Content' = ItemsIn(data', ptr', sts')
<1>1. ChannelInv => sts \in Whole /\ sts <= depth /\ ptr \in 0 .. depth - 1
  BY Parameters DEF ChannelInv, Types, RingInv
<1>2. ChannelInv' => sts' \in Whole /\ sts' <= depth /\ ptr' \in 0 .. depth - 1
  BY Parameters DEF ChannelInv, Types, RingInv
<1>3. ChannelInv => Content = ItemsIn(data, ptr, sts)
  BY <1>1, ItemsByPosition DEF Content
<1>4. ChannelInv' => Content' = ItemsIn(data', ptr', sts')
  BY <1>2, ItemsByPosition DEF Content
<1> QED
  BY <1>3, <1>4

\* Items are appended behind those in the channel.
LEMMA PutItems ==
  ASSUME MwmrAssumption, NEW s \in Whole, NEW k \in Whole, NEW b \in Whole, s + k <= depth, NEW d,
         NEW x \in 0 .. depth - 1, NEW w, PutBehind(d, x, s, k, w, b)
  PROVE  ItemsIn(d, x, s + k) = ItemsIn(d, x, s) \o ItemsOf(w, b, k)
<1> DEFINE p == s \div width
           q == k \div width
           r == b \div width
           new == [i \in 1 .. q |-> <<w, r + i>>]
<1>1. /\ p \in Nat /\ s = width * p /\ s \in Nat /\ q \in Nat /\ k = width * q /\ k \in Nat
      /\ r \in Nat /\ b = width * r /\ depth \in Nat /\ width \in Nat \ {0}
  BY WholeItems, Parameters
<1>2. (s + k) \div width = p + q
  BY WholeSums
<1> HIDE DEF p, q, r
<1>3. IsList(ItemsIn(d, x, s), p) /\ IsList(new, q)
  BY DEF IsList, ItemsIn, p
<1>4. ASSUME NEW i \in 1 .. p + q
      PROVE  Item(d, x, i) = IF i <= p THEN ItemsIn(d, x, s)[i] ELSE new[i - p]
  <2>1. CASE i <= p
    BY <2>1 DEF ItemsIn, p
  <2>2. CASE i > p
    <3> DEFINE c == i - p
               f == [j \in 1 .. width |-> d[At(x, (i - 1) * width + j - 1)]]
    <3>1. c \in 1 .. q /\ i = p + c
      BY <1>1, <2>2
    <3> HIDE DEF c
    <3>2. ASSUME NEW j \in 1 .. width
          PROVE  f[j] = WordOf(w, width * (r + c - 1) + (j - 1))
      <4> DEFINE m == (c - 1) * width + j - 1
      <4>1. m \in 0 .. k - 1 /\ (c - 1) * width \in Nat
        BY <1>1, <3>1, WordOfItem
      <4>2. (i - 1) * width + j - 1 = s + m
        <5>1. (p + c - 1) * width = width * p + (c - 1) * width
          BY <1>1, <3>1
        <5> QED
          BY <1>1, <3>1, <4>1, <5>1
      <4>3. width * (r + c - 1) + (j - 1) = b + m
        <5>1. width * (r + c - 1) = width * r + (c - 1) * width
          BY <1>1, <3>1
        <5> QED
          BY <1>1, <3>1, <4>1, <5>1
      <4> HIDE DEF m
      <4>4. At(At(x, s), m) = At(x, s + m)
        <5>1. s \in 0 .. depth /\ m \in 0 .. depth - s
          BY <1>1, <4>1
        <5> QED
          BY <5>1, Positions
      <4>5. f[j] = d[At(x, s + m)]
        BY <4>2
      <4> QED
        BY <4>1, <4>3, <4>4, <4>5 DEF PutBehind
    <3> HIDE DEF f
    <3>3. r + c - 1 \in Nat /\ r + c - 1 + 1 = r + c
      BY <1>1, <3>1
    <3>4. ItemOf(f) = <<w, r + c>>
      BY <3>2, <3>3, SentItem
    <3>5. new[c] = <<w, r + c>>
      BY <3>1
    <3>6. Item(d, x, i) = ItemOf(f)
      BY DEF Item, f
    <3>7. c = i - p /\ ~(i <= p)
      BY <1>1, <2>2 DEF c
    <3> HIDE DEF new
    <3> QED
      BY <3>4, <3>5, <3>6, <3>7
  <2> QED
    BY <1>1, <2>1, <2>2
<1> HIDE DEF new
<1>5. ItemsIn(d, x, s + k) = [i \in 1 .. p + q |-> Item(d, x, i)]
  BY <1>2 DEF ItemsIn
<1>6. IsList(ItemsIn(d, x, s + k), p + q)
      /\ \A i \in 1 .. p + q : ItemsIn(d, x, s + k)[i]
                              = IF i <= p THEN ItemsIn(d, x, s)[i] ELSE new[i - p]
  BY <1>4, <1>5 DEF IsList
<1>7. ItemsIn(d, x, s + k) = ItemsIn(d, x, s) \o new
  <2> DEFINE old == ItemsIn(d, x, s)
             all == ItemsIn(d, x, s + k)
  <2>1. /\ IsList(old, p) /\ IsList(new, q) /\ IsList(all, p + q) /\ p \in Nat /\ q \in Nat
        /\ \A i \in 1 .. p + q : all[i] = IF i <= p THEN old[i] ELSE new[i - p]
    BY <1>1, <1>3, <1>6
  <2> HIDE DEF old, all
  <2>2. all = old \o new
    BY ONLY <2>1, Glue
  <2> QED
    BY <2>2 DEF old, all
<1> QED
  BY <1>7 DEF new, q, r, ItemsOf

\* The first items are taken away.
LEMMA GetItems ==
  ASSUME MwmrAssumption, NEW s \in Whole, NEW k \in Whole, k <= s, s <= depth, NEW d,
         NEW x \in 0 .. depth - 1
  PROVE  ItemsIn(d, At(x, k), s - k)
           = SubSeq(ItemsIn(d, x, s), k \div width + 1, s \div width)
<1> DEFINE p == s \div width
           q == k \div width
<1>1. /\ p \in Nat /\ s = width * p /\ s \in Nat /\ q \in Nat /\ k = width * q /\ k \in Nat
      /\ depth \in Nat /\ width \in Nat \ {0}
  BY WholeItems, Parameters
<1>2. (s - k) \div width = p - q /\ q <= p /\ s - k \in Whole
  BY WholeSums
<1>3. s - k = width * (p - q)
  BY <1>2, WholeItems
<1> HIDE DEF p, q
<1>4. IsList(ItemsIn(d, x, s), p)
  BY DEF IsList, ItemsIn, p
<1>5. SubSeq(ItemsIn(d, x, s), q + 1, p) = [i \in 1 .. p - q |-> ItemsIn(d, x, s)[i + q]]
  BY <1>1, <1>2, <1>4, Cut
<1>6. ASSUME NEW i \in 1 .. p - q
      PROVE  Item(d, At(x, k), i) = ItemsIn(d, x, s)[i + q]
  <2> DEFINE f == [j \in 1 .. width |-> d[At(At(x, k), (i - 1) * width + j - 1)]]
             g == [j \in 1 .. width |-> d[At(x, ((i + q) - 1) * width + j - 1)]]
  <2>1. ASSUME NEW j \in 1 .. width
        PROVE  f[j] = g[j]
    <3> DEFINE m == (i - 1) * width + j - 1
    <3>1. p - q \in Nat
      BY <1>1, <1>2
    <3>2. m \in 0 .. s - k - 1 /\ (i - 1) * width \in Nat
      BY <1>3, <3>1, WordOfItem
    <3>3. ((i + q) - 1) * width + j - 1 = k + m
      <4>1. ((i + q) - 1) * width = width * q + (i - 1) * width
        BY <1>1, <3>1
      <4> QED
        BY <1>1, <3>2, <4>1
    <3> HIDE DEF m
    <3>4. At(At(x, k), m) = At(x, k + m)
      <4>1. k \in 0 .. depth /\ m \in 0 .. depth - k
        BY <1>1, <3>2
      <4> QED
        BY <4>1, Positions
    <3> QED
      BY <3>3, <3>4 DEF m
  <2>2. i + q \in 1 .. p
    BY <1>1, <1>2
  <2> HIDE DEF f, g
  <2>3. ItemOf(f) = ItemOf(g)
    BY <2>1, ItemOfWords
  <2>4. ItemsIn(d, x, s)[i + q] = ItemOf(g)
    <3>1. ItemsIn(d, x, s)[i + q] = Item(d, x, i + q)
      BY <2>2 DEF ItemsIn, p
    <3>2. Item(d, x, i + q) = ItemOf(g)
      BY DEF Item, g
    <3> QED
      BY <3>1, <3>2
  <2> QED
    BY <2>3, <2>4 DEF f, Item
<1>7. ItemsIn(d, At(x, k), s - k) = [i \in 1 .. p - q |-> Item(d, At(x, k), i)]
  BY <1>2 DEF ItemsIn
<1> QED
  BY <1>5, <1>6, <1>7 DEF p, q

\* The words of a received item.
LEMMA ReceivedWord ==
  ASSUME MwmrAssumption, NEW ws \in Seq(Word), NEW c \in Nat, width * c <= Len(ws), NEW i \in 1 .. c,
         NEW j \in 1 .. width
  PROVE  SubSeq(ws, (i - 1) * width + 1, i * width)[j] = ws[(i - 1) * width + j]
<1> DEFINE a == (i - 1) * width
<1>1. a \in Nat /\ a + width <= width * c /\ i * width = a + width /\ width \in Nat
  BY WordOfItem, Parameters
<1> HIDE DEF a
<1>2. Len(ws) \in Nat /\ \A m \in 1 .. Len(ws) : ws[m] \in Word
  OBVIOUS
<1>3. a + 1 \in Int /\ a + width \in Int /\ \A m \in a + 1 .. a + width : ws[m] \in Word
  BY <1>1, <1>2
<1>4. \A m \in 1 .. (a + width) - (a + 1) + 1 : SubSeq(ws, a + 1, a + width)[m] = ws[a + 1 + m - 1]
  <2>1. /\ SubSeq(ws, a + 1, a + width) \in Seq(Word)
        /\ Len(SubSeq(ws, a + 1, a + width))
             = IF a + 1 <= a + width THEN (a + width) - (a + 1) + 1 ELSE 0
        /\ \A m \in 1 .. (a + width) - (a + 1) + 1 :
             SubSeq(ws, a + 1, a + width)[m] = ws[a + 1 + m - 1]
    BY ONLY <1>3, SubSeqProperties
  <2> QED
    BY <2>1
<1>5. j \in 1 .. (a + width) - (a + 1) + 1 /\ a + 1 + j - 1 = a + j
  BY <1>1
<1> QED
  BY <1>1, <1>4, <1>5 DEF a

LEMMA SameReceived ==
  ASSUME MwmrAssumption, NEW b \in Whole, NEW ws \in Seq(Word), NEW vs \in Seq(Word),
         b <= Len(ws), b <= Len(vs), \A m \in 1 .. b : ws[m] = vs[m]
  PROVE  Received(ws, b) = Received(vs, b)
<1>1. b \div width \in Nat /\ b = width * (b \div width)
  BY WholeItems
<1>2. ASSUME NEW i \in 1 .. b \div width
      PROVE  ItemOf(SubSeq(ws, (i - 1) * width + 1, i * width))
               = ItemOf(SubSeq(vs, (i - 1) * width + 1, i * width))
  <2> DEFINE f == SubSeq(ws, (i - 1) * width + 1, i * width)
             g == SubSeq(vs, (i - 1) * width + 1, i * width)
  <2>1. ASSUME NEW j \in 1 .. width
        PROVE  f[j] = g[j]
    <3>1. f[j] = ws[(i - 1) * width + j] /\ g[j] = vs[(i - 1) * width + j]
      BY <1>1, ReceivedWord
    <3>2. (i - 1) * width + j \in 1 .. b
      <4>1. (i - 1) * width + j - 1 \in 0 .. b - 1 /\ (i - 1) * width \in Nat
        BY <1>1, WordOfItem
      <4>2. b \in Nat
        BY WholeItems
      <4> QED
        BY <4>1, <4>2
    <3> QED
      BY <3>1, <3>2
  <2> HIDE DEF f, g
  <2>2. ItemOf(f) = ItemOf(g)
    BY <2>1, ItemOfWords
  <2> QED
    BY <2>2 DEF f, g
<1> QED
  BY <1>2 DEF Received

\* The items of a transaction are received behind the others.
LEMMA ReceiveItems ==
  ASSUME MwmrAssumption, NEW b \in Whole, NEW k \in Whole, NEW s \in Whole, k <= s,
         NEW ws, NEW d, NEW x, CopiedFrom(ws, b, k, d, x)
  PROVE  Received(ws, b + k) = Received(ws, b) \o FirstItems(d, x, s, k)
<1> DEFINE p == b \div width
           q == k \div width
           new == SubSeq(ItemsIn(d, x, s), 1, q)
<1>0. /\ ws \in Seq(Word) /\ Len(ws) = b + k
      /\ \A m \in 0 .. k - 1 : ws[b + m + 1] = d[At(x, m)]
  BY DEF CopiedFrom
<1>1. /\ p \in Nat /\ b = width * p /\ b \in Nat /\ q \in Nat /\ k = width * q /\ k \in Nat
      /\ s \div width \in Nat /\ q <= s \div width /\ width \in Nat \ {0}
  BY WholeItems, WholeSums, Parameters
<1>2. (b + k) \div width = p + q
  BY WholeSums
<1>3. b + k = width * (p + q) /\ p + q \in Nat
  BY <1>1
<1> HIDE DEF p, q
<1>4. new = [i \in 1 .. q |-> Item(d, x, i)]
  <2>1. IsList(ItemsIn(d, x, s), s \div width)
    BY DEF IsList, ItemsIn
  <2>2. new = [i \in 1 .. q |-> ItemsIn(d, x, s)[i]]
    BY <1>1, <2>1, Cut
  <2>3. \A i \in 1 .. q : ItemsIn(d, x, s)[i] = Item(d, x, i)
    BY <1>1 DEF ItemsIn
  <2> QED
    BY <2>2, <2>3
<1> HIDE DEF new
<1>5. IsList(Received(ws, b), p) /\ IsList(new, q)
  BY <1>4 DEF IsList, Received, p
<1>6. ASSUME NEW i \in 1 .. p + q
      PROVE  ItemOf(SubSeq(ws, (i - 1) * width + 1, i * width))
               = IF i <= p THEN Received(ws, b)[i] ELSE new[i - p]
  <2>1. CASE i <= p
    BY <2>1 DEF Received, p
  <2>2. CASE i > p
    <3> DEFINE c == i - p
               f == SubSeq(ws, (i - 1) * width + 1, i * width)
               g == [j \in 1 .. width |-> d[At(x, (c - 1) * width + j - 1)]]
    <3>1. c \in 1 .. q /\ i = p + c
      BY <1>1, <2>2
    <3> HIDE DEF c
    <3>2. ASSUME NEW j \in 1 .. width
          PROVE  f[j] = g[j]
      <4> DEFINE m == (c - 1) * width + j - 1
      <4>1. f[j] = ws[(i - 1) * width + j]
        <5>1. width * (p + q) <= Len(ws)
          BY <1>0, <1>1, <1>3
        <5> QED
          BY <1>0, <1>3, <5>1, ReceivedWord
      <4>2. m \in 0 .. k - 1 /\ (c - 1) * width \in Nat
        BY <1>1, <3>1, WordOfItem
      <4>3. (i - 1) * width + j = b + m + 1
        <5>1. (p + c - 1) * width = width * p + (c - 1) * width
          BY <1>1, <3>1
        <5> QED
          BY <1>1, <3>1, <4>2, <5>1
      <4>4. g[j] = d[At(x, m)]
        OBVIOUS
      <4> HIDE DEF m, f, g
      <4> QED
        BY <1>0, <4>1, <4>2, <4>3, <4>4
    <3> HIDE DEF f, g
    <3>3. ItemOf(f) = ItemOf(g)
      BY <3>2, ItemOfWords
    <3>4. new[c] = ItemOf(g)
      BY <1>4, <3>1 DEF Item, g
    <3>5. ItemOf(SubSeq(ws, (i - 1) * width + 1, i * width)) = ItemOf(g)
      BY <3>3 DEF f
    <3>6. c = i - p /\ ~(i <= p)
      BY <1>1, <2>2 DEF c
    <3> QED
      BY <3>4, <3>5, <3>6
  <2> QED
    BY <1>1, <2>1, <2>2
<1>7. Received(ws, b + k)
        = [i \in 1 .. p + q |-> ItemOf(SubSeq(ws, (i - 1) * width + 1, i * width))]
  BY <1>2 DEF Received
<1>8. IsList(Received(ws, b + k), p + q)
      /\ \A i \in 1 .. p + q : Received(ws, b + k)[i]
                              = IF i <= p THEN Received(ws, b)[i] ELSE new[i - p]
  BY <1>6, <1>7 DEF IsList
<1>9. Received(ws, b + k) = Received(ws, b) \o new
  <2> DEFINE old == Received(ws, b)
             all == Received(ws, b + k)
  <2>1. /\ IsList(old, p) /\ IsList(new, q) /\ IsList(all, p + q) /\ p \in Nat /\ q \in Nat
        /\ \A i \in 1 .. p + q : all[i] = IF i <= p THEN old[i] ELSE new[i - p]
    BY <1>1, <1>5, <1>8
  <2> HIDE DEF old, all
  <2>2. all = old \o new
    BY ONLY <2>1, Glue
  <2> QED
    BY <2>2 DEF old, all
<1> QED
  BY <1>9 DEF new, q, FirstItems

LEMMA ItemsCount ==
  ASSUME MwmrAssumption, NEW s \in Whole, NEW d, NEW x
  PROVE  Len(ItemsIn(d, x, s)) = s \div width
<1> DEFINE p == s \div width
           S == {Item(d, x, i) : i \in 1 .. p}
<1>1. p \in Nat
  BY WholeItems
<1>2. ItemsIn(d, x, s) = [i \in 1 .. p |-> Item(d, x, i)]
  BY DEF ItemsIn
<1> HIDE DEF p
<1>3. IsList(ItemsIn(d, x, s), p) /\ \A i \in 1 .. p : ItemsIn(d, x, s)[i] \in S
  BY <1>2 DEF IsList
<1> HIDE DEF S
<1>4. Len(ItemsIn(d, x, s)) = p
  BY <1>1, <1>3, ListIsSeq
<1> QED
  BY <1>4 DEF p

LEMMA GotIs ==
  /\ Got = [r \in Readers |-> Received(words[r], buffer[r])]
  /\ Got' = [r \in Readers |-> Received(words'[r], buffer'[r])]
BY DEF Got, Received

\* The steps outside of the channel, and those that copy one word, do not change the
\* items.
LEMMA OutsideStutters ==
  ASSUME UNCHANGED channel, UNCHANGED buffer, UNCHANGED words
  PROVE  UNCHANGED Fifo!vars
<1>1. sts' = sts /\ ptr' = ptr /\ data' = data /\ buffer' = buffer /\ words' = words
  BY DEF channel
<1> QED
  BY <1>1 DEF Fifo!vars, Content, Sent, Got

LEMMA CopyWriteStutters ==
  ASSUME MwmrAssumption, ChannelInv, ChannelInv', NEW t \in Writers, Copy(t)
  PROVE  UNCHANGED Fifo!vars
<1>0. t \in Users /\ t \notin Readers
  BY Sides
<1>1. /\ data' = [data EXCEPT ![pos[t]] = WordOf(t, buffer[t] + n[t])]
      /\ sts' = sts /\ ptr' = ptr /\ buffer' = buffer /\ words' = words
  BY <1>0 DEF Copy
<1>2. \A m \in 0 .. sts - 1 : data'[At(ptr, m)] = data[At(ptr, m)]
  BY <1>1, CopyOutside DEF ChannelInv, Types
<1>3. sts \in Whole
  BY DEF ChannelInv, RingInv
<1>4. ItemsIn(data', ptr, sts) = ItemsIn(data, ptr, sts)
  BY <1>2, <1>3, SameItems
<1>5. Content' = Content
  BY <1>1, <1>4, ContentIs
<1>6. Sent' = Sent /\ Got' = Got
  BY <1>1 DEF Sent, Got
<1> QED
  BY <1>5, <1>6 DEF Fifo!vars

LEMMA CopyReadStutters ==
  ASSUME MwmrAssumption, ChannelInv, ChannelInv', NEW t \in Readers, Copy(t)
  PROVE  UNCHANGED Fifo!vars
<1>0. t \in Users /\ t \notin Writers
  BY Sides
<1>1. /\ words' = [words EXCEPT ![t] = Append(@, data[pos[t]])] /\ pc[t] = "copy" /\ pc' = pc
      /\ data' = data /\ sts' = sts /\ ptr' = ptr /\ buffer' = buffer
  BY <1>0 DEF Copy
<1>2. Content' = Content /\ Sent' = Sent
  BY <1>1 DEF Content, Sent
<1>3. ASSUME NEW u \in Readers
      PROVE  Received(words'[u], buffer[u]) = Received(words[u], buffer[u])
  <2>1. CASE u = t
    <3>1. words[t] \in Seq(Word) /\ words'[t] \in Seq(Word) /\ words'[t] = Append(words[t], data[pos[t]])
      BY <1>1, <2>1 DEF ChannelInv, Types
    <3>2. buffer[t] \in Whole /\ buffer[t] \in Nat /\ n[t] \in Nat /\ Len(words[t]) = buffer[t] + n[t]
      BY <1>0, <1>1 DEF ChannelInv, TasksInv, CallInv, ReadInv, Types
    <3>3. Len(words'[t]) = Len(words[t]) + 1 /\ \A m \in 1 .. Len(words[t]) : words'[t][m] = words[t][m]
      BY <3>1
    <3>4. /\ buffer[t] <= Len(words[t]) /\ buffer[t] <= Len(words'[t])
          /\ \A m \in 1 .. buffer[t] : words'[t][m] = words[t][m]
      BY <3>2, <3>3
    <3> QED
      BY <2>1, <3>1, <3>2, <3>4, SameReceived
  <2>2. CASE u # t
    BY <1>1, <2>2 DEF ChannelInv, Types
  <2> QED
    BY <2>1, <2>2
<1>4. Got' = Got
  BY <1>1, <1>3, GotIs
<1> QED
  BY <1>2, <1>4 DEF Fifo!vars

\* A transaction is a step of the abstract channel.
LEMMA UpdateWritePuts ==
  ASSUME MwmrAssumption, ChannelInv, ChannelInv', NEW t \in Writers, Update(t)
  PROVE  Fifo!Next
<1> DEFINE k == nwords[t]
           q == k \div width
<1>0. t \in Users /\ t \notin Readers /\ depth \in Nat /\ depth = width * nitems /\ nitems \in Nat
  BY Sides, Parameters
<1>1. /\ sts' = sts + k /\ ptr' = ptr /\ data' = data /\ words' = words
      /\ buffer' = [buffer EXCEPT ![t] = @ + k] /\ n[t] = k /\ pc[t] = "copy"
  BY <1>0 DEF Update
<1>2. /\ sts \in Whole /\ k \in Whole /\ buffer[t] \in Whole /\ ptr \in 0 .. depth - 1
      /\ ptw = At(ptr, sts) /\ 0 < k /\ sts + k <= depth
      /\ \A m \in 0 .. k - 1 : data[At(At(ptr, sts), m)] = WordOf(t, buffer[t] + m)
  BY <1>0, <1>1 DEF ChannelInv, Types, RingInv, TasksInv, CallInv, WriteInv
<1>3. /\ q \in Nat /\ 0 < q /\ (sts + k) \div width = (sts \div width) + q /\ sts + k \in Whole
      /\ (buffer[t] + k) \div width = (buffer[t] \div width) + q /\ sts \div width \in Nat
  BY <1>2, WholeSums, WholeItems
<1>4. (sts \div width) + q <= nitems
  <2>1. depth \in Whole /\ depth \div width = nitems
    BY <1>0, ItemsAreWhole
  <2> QED
    BY <1>2, <1>3, <2>1, WholeSums
<1> HIDE DEF q, k
<1>5. ItemsIn(data, ptr, sts + k) = ItemsIn(data, ptr, sts) \o ItemsOf(t, buffer[t], k)
  <2>1. /\ sts \in Whole /\ k \in Whole /\ buffer[t] \in Whole /\ ptr \in 0 .. depth - 1
        /\ sts + k <= depth
    BY <1>2
  <2>2. PutBehind(data, ptr, sts, k, t, buffer[t])
    BY <1>2 DEF PutBehind
  <2> QED
    BY ONLY MwmrAssumption, <2>1, <2>2, PutItems
<1>6. Content = ItemsIn(data, ptr, sts) /\ Content' = ItemsIn(data, ptr, sts + k)
  BY <1>1, ContentIs
<1>7. Len(Content) = sts \div width
  BY <1>2, <1>6, ItemsCount
<1>8. Sent[t] = buffer[t] \div width /\ Sent' = [Sent EXCEPT ![t] = @ + q]
  BY <1>0, <1>1, <1>3, Sides DEF Sent, ChannelInv, Types
<1>9. Got' = Got
  <2>1. \A u \in Readers : buffer'[u] = buffer[u]
    BY <1>0, <1>1, Sides DEF ChannelInv, Types
  <2> QED
    BY <1>1, <2>1, GotIs
<1>10. Content' = Content \o [i \in 1 .. q |-> <<t, Sent[t] + i>>]
  BY <1>5, <1>6, <1>8 DEF q, ItemsOf
<1>11. Fifo!Put(t, q)
  BY <1>4, <1>7, <1>8, <1>9, <1>10 DEF Fifo!Put
<1>12. q \in 1 .. nitems
  BY <1>0, <1>3, <1>4
<1> QED
  BY <1>11, <1>12 DEF Fifo!Next

LEMMA UpdateReadGets ==
  ASSUME MwmrAssumption, ChannelInv, ChannelInv', NEW t \in Readers, Update(t)
  PROVE  Fifo!Next
<1> DEFINE k == nwords[t]
           q == k \div width
           b == buffer[t]
<1>0. t \in Users /\ t \notin Writers /\ depth \in Nat /\ depth = width * nitems /\ nitems \in Nat
  BY Sides, Parameters
<1>1. /\ sts' = sts - k /\ ptr' = pos[t] /\ data' = data /\ words' = words
      /\ buffer' = [buffer EXCEPT ![t] = b + k] /\ n[t] = k /\ pc[t] = "copy"
  BY <1>0 DEF Update
<1>2. /\ sts \in Whole /\ k \in Whole /\ b \in Whole /\ ptr \in 0 .. depth - 1
      /\ pos[t] = At(ptr, k) /\ 0 < k /\ k <= sts /\ sts <= depth /\ words[t] \in Seq(Word)
      /\ Len(words[t]) = b + k
      /\ \A m \in 0 .. k - 1 : words[t][b + m + 1] = data[At(ptr, m)]
  <2>1. CallInv(t) /\ ReadInv(t) /\ RingInv /\ Types
    BY <1>0 DEF ChannelInv, TasksInv
  <2>2. sts \in Whole /\ k \in Whole /\ b \in Whole /\ ptr \in 0 .. depth - 1 /\ 0 < k
        /\ sts <= depth /\ words[t] \in Seq(Word)
    BY <1>0, <1>1, <2>1 DEF Types, RingInv, CallInv
  <2>3. /\ pos[t] = At(ptr, k) /\ k <= sts /\ Len(words[t]) = b + k
        /\ \A m \in 0 .. k - 1 : words[t][b + m + 1] = data[At(ptr, m)]
    BY <1>1, <2>1 DEF ReadInv
  <2> QED
    BY <2>2, <2>3
<1>3. q \in Nat /\ 0 < q /\ q <= sts \div width /\ sts \div width \in Nat
  BY <1>2, WholeSums, WholeItems
<1>4. sts \div width <= nitems
  <2>1. depth \in Whole /\ depth \div width = nitems
    BY <1>0, ItemsAreWhole
  <2> QED
    BY <1>2, <2>1, WholeSums
<1> HIDE DEF q, k, b
<1>5. Content = ItemsIn(data, ptr, sts) /\ Content' = ItemsIn(data, At(ptr, k), sts - k)
  BY <1>1, <1>2, ContentIs
<1>6. Len(Content) = sts \div width
  BY <1>2, <1>5, ItemsCount
<1>7. Content' = SubSeq(Content, q + 1, Len(Content))
  BY <1>2, <1>5, <1>6, GetItems DEF q
<1>8. Received(words[t], b + k) = Received(words[t], b) \o SubSeq(Content, 1, q)
  <2>1. sts \in Whole /\ k \in Whole /\ b \in Whole /\ k <= sts
    BY <1>2
  <2>2. CopiedFrom(words[t], b, k, data, ptr)
    BY <1>2 DEF CopiedFrom
  <2>3. Received(words[t], b + k) = Received(words[t], b) \o FirstItems(data, ptr, sts, k)
    BY ONLY MwmrAssumption, <2>1, <2>2, ReceiveItems
  <2> QED
    BY <1>5, <2>3 DEF q, FirstItems
<1>9. Got' = [Got EXCEPT ![t] = @ \o SubSeq(Content, 1, q)]
  <2>1. \A u \in Readers : buffer'[u] = IF u = t THEN b + k ELSE buffer[u]
    BY <1>0, <1>1, Sides DEF ChannelInv, Types
  <2>2. Got[t] = Received(words[t], b)
    BY GotIs DEF b
  <2>3. Got' = [u \in Readers |-> Received(words[u], buffer'[u])]
    BY <1>1, GotIs
  <2>4. Got = [u \in Readers |-> Received(words[u], buffer[u])]
    BY GotIs
  <2>5. \A u \in Readers : Received(words[u], buffer'[u])
          = IF u = t THEN Got[t] \o SubSeq(Content, 1, q) ELSE Got[u]
    BY <1>8, <2>1, <2>2, <2>4
  <2> QED
    BY <2>3, <2>4, <2>5
<1>10. Sent' = Sent
  <2>1. \A u \in Writers : buffer'[u] = buffer[u]
    BY <1>0, <1>1, Sides DEF ChannelInv, Types
  <2> QED
    BY <2>1 DEF Sent
<1>11. Fifo!Get(t, q)
  BY <1>3, <1>6, <1>7, <1>9, <1>10 DEF Fifo!Get
<1>12. q \in 1 .. nitems
  BY <1>0, <1>3, <1>4
<1> QED
  BY <1>11, <1>12 DEF Fifo!Next

LEMMA ChannelSteps ==
  ASSUME MwmrAssumption, ChannelInv, ChannelInv', [Next]_vars
  PROVE  [Fifo!Next]_(Fifo!vars)
<1>1. ASSUME NEW t \in Users, Step(t)
      PROVE  [Fifo!Next]_(Fifo!vars)
  <2>1. t \in Writers \/ t \in Readers
    BY Sides
  <2>2. CASE Call(t) \/ GetLock(t) \/ Access(t) \/ Unlock(t) \/ Retry(t)
    <3>1. UNCHANGED channel /\ UNCHANGED buffer /\ UNCHANGED words
      BY <2>2 DEF Call, GetLock, Access, Unlock, Retry
    <3> QED
      BY <3>1, OutsideStutters
  <2>3. CASE Copy(t)
    BY <2>1, <2>3, CopyWriteStutters, CopyReadStutters
  <2>4. CASE Update(t)
    BY <2>1, <2>4, UpdateWritePuts, UpdateReadGets
  <2> QED
    BY <1>1, <2>2, <2>3, <2>4 DEF Step
<1>2. ASSUME UNCHANGED vars
      PROVE  [Fifo!Next]_(Fifo!vars)
  BY <1>2, OutsideStutters DEF vars
<1> QED
  BY <1>1, <1>2 DEF Next

LEMMA ChannelInit ==
  ASSUME MwmrAssumption, Init
  PROVE  Fifo!Init
<1>1. width \in Nat \ {0} /\ 0 \div width = 0
  <2>1. width \in Nat \ {0}
    BY Parameters
  <2>2. width * 0 = 0 /\ (width * 0) \div width = 0
    BY <2>1, ItemsAreWhole
  <2> QED
    BY <2>1, <2>2
<1>2. Content = <<>>
  <2>1. Content = [i \in 1 .. 0 |->
           ItemOf([j \in 1 .. width |-> data[(ptr + (i - 1) * width + j - 1) % depth]])]
    BY <1>1 DEF Content, Init
  <2> QED
    BY <2>1
<1>3. Sent = [w \in Writers |-> 0]
  BY <1>1, Sides DEF Sent, Init
<1>4. Got = [r \in Readers |-> <<>>]
  <2>1. ASSUME NEW r \in Readers
        PROVE  Received(words[r], buffer[r]) = <<>>
    <3>1. buffer[r] \div width = 0
      BY <1>1, Sides DEF Init
    <3>2. Received(words[r], buffer[r])
            = [i \in 1 .. 0 |-> ItemOf(SubSeq(words[r], (i - 1) * width + 1, i * width))]
      BY <3>1 DEF Received
    <3> QED
      BY <3>2
  <2> QED
    BY <2>1, GotIs
<1> QED
  BY <1>2, <1>3, <1>4 DEF Fifo!Init

-----------------------------------------------------------------------------

\* The channel is a bounded FIFO of whole items: each access of mwmr_write, mwmr_read and
\* their non blocking forms is a transaction of the abstract channel or none; and the words
\* and pointers stay in their ranges.
THEOREM ChannelIsFifo ==
  ASSUME MwmrAssumption
  PROVE  Spec => []TypeOK /\ Fifo!Spec
<1>1. Init => ChannelInv /\ Fifo!Init
  BY ChannelStarts, ChannelInit
<1>2. ChannelInv /\ [Next]_vars => ChannelInv'
  BY ChannelPreserved
<1>3. ChannelInv => TypeOK
  BY ChannelTypes
<1>4. ChannelInv /\ ChannelInv' /\ [Next]_vars => [Fifo!Next]_(Fifo!vars)
  BY ChannelSteps
<1> QED
  BY <1>1, <1>2, <1>3, <1>4, PTL DEF Spec, Fifo!Spec

=============================================================================
