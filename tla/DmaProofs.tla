------------------------------- MODULE DmaProofs -------------------------------
(***************************************************************************)
(* Theorem on the buffers of the CMA, for any number of buffers and lines, *)
(* and any multiple of the number of buffers as number of contents.        *)
(*                                                                         *)
(* MovedInOrder speaks of what the task has copied, and of what the device *)
(* has got. The invariant ties both to the number of the content: how many *)
(* moves the CMA makes before it comes to a buffer, in a system whose      *)
(* counters wrap (TurnInv), and, according to who has the buffer, in which *)
(* of the RAM and the cache each line of this content is (RxInv, TxInv).   *)
(* A modified copy of the status gives the buffer away as soon as the      *)
(* cache writes it back, before the task does (Given).                     *)
(***************************************************************************)
EXTENDS ContainerDma, Integers, TLAPS

\* The status of a buffer in the RAM, and its lines.
S(b) == ram[Status(b)]
Line(b, l) == <<b, l>>

\* Numbers are counted modulo Numbers. D(b) is how many moves the CMA makes before
\* it comes to buffer b, with content E(b) in mind.
Plus(x, k) == IF x + k < Numbers THEN x + k ELSE x + k - Numbers
Cur == moved % N
D(b) == IF b >= Cur THEN b - Cur ELSE b + N - Cur
E(b) == Plus(moved, D(b))

\* The task has given its buffer to the CMA, although it has not counted it yet;
\* the number of its next content.
Given(b) == pc[b] \in {"fbf", "return"} /\ Status(b) \notin dirty
Nx(b) == IF Given(b) THEN Plus(n[b], N) ELSE n[b]

\* Where the task works on the content of its buffer, and where the content is
\* complete.
Working(b) ==
  pc[b] \in {"inval", "copy", "sync", "status"} \/ (use = "fbf" /\ pc[b] = "poll")
Complete(b) ==
  \/ pc[b] \in {"sync", "status"} \/ (use = "fbf" /\ pc[b] = "poll")
  \/ pc[b] \in {"fbf", "return"} /\ Status(b) \in dirty

\* The places of a task depend on what the buffers are for.
PlaceInv(b) ==
  /\ use = "rx" => pc[b] \notin {"sync", "fbf"}
  /\ use = "tx" => pc[b] \notin {"inval", "fbf"}
  /\ use = "fbf" => pc[b] # "inval"
  /\ pc[b] # "copy" => line[b] = 1

\* The status words: a modified copy gives the buffer to the CMA; the CMA does not have
\* a buffer that the task works on.
StatusInv(b) ==
  /\ S(b) \in {0, 1}
  /\ Status(b) \in dirty =>
       l2[Status(b)] = Full(b) /\ pc[b] \in {"fbf", "return"} /\ S(b) = Ready(b)
  /\ Working(b) => S(b) = Ready(b)

\* The next content of the task and that of the CMA in a buffer.
TurnInv(b) ==
  /\ use = "rx" => E(b) = IF S(b) = Full(b) THEN Nx(b) ELSE Plus(Nx(b), N)
  /\ use # "rx" => Nx(b) = IF S(b) = Full(b) THEN Plus(E(b), N) ELSE E(b)

\* Received buffers: what the CMA has moved is in the RAM, and no copy hides it.
RxInv(b) ==
  use = "rx" => \A l \in Lines :
    /\ Line(b, l) \notin dirty
    /\ S(b) = Ready(b) => ram[Line(b, l)] = Nx(b)
    /\ pc[b] = "copy" => l2[Line(b, l)] \in {Absent, n[b]}
    /\ pc[b] = "copy" /\ l < line[b] => user[b][l] = n[b]
    /\ pc[b] = "status" => user[b][l] = n[b]

\* Sent buffers: what the task has written is in the cache or in the RAM, and in the
\* RAM when the CMA has the buffer.
Written(b, l) ==
  IF Line(b, l) \in dirty THEN l2[Line(b, l)] = n[b] ELSE ram[Line(b, l)] = n[b]
TxInv(b) ==
  use # "rx" => \A l \in Lines :
    /\ Line(b, l) \in dirty => Working(b) /\ pc[b] # "status"
    /\ pc[b] = "copy" /\ l < line[b] => Written(b, l)
    /\ Complete(b) => Written(b, l)
    /\ S(b) = Full(b) => ram[Line(b, l)] = E(b)

BufferInv(b) == PlaceInv(b) /\ StatusInv(b) /\ TurnInv(b) /\ RxInv(b) /\ TxInv(b)

\* The CMA has the buffer that it moves, and has moved its first lines.
CmaInv ==
  cma # 0 =>
    /\ S(Cur) = Full(Cur)
    /\ \A l \in Lines : l < cma =>
         IF use = "rx" THEN ram[Line(Cur, l)] = moved ELSE device[l] = moved

DmaInv == TypeOK /\ (\A b \in Buffer : BufferInv(b)) /\ CmaInv

-----------------------------------------------------------------------------

\* What is left when a multiple of d is taken away.
LEMMA Division ==
  ASSUME NEW d \in Nat \ {0}, NEW q \in Nat, NEW r \in 0 .. d - 1
  PROVE  (d * q + r) % d = r
OBVIOUS

LEMMA NumberFacts ==
  ASSUME DmaAssumption
  PROVE  /\ N \in Nat \ {0} /\ NbLines \in Nat \ {0} /\ Numbers \in Nat /\ Numbers >= 2
         /\ N <= Numbers /\ Number = 0 .. Numbers - 1
         /\ \A x \in Number : Plus(x, N) \in Number /\ (x + N) % Numbers = Plus(x, N)
         /\ \A x \in Number : Plus(x, 1) \in Number /\ (x + 1) % Numbers = Plus(x, 1)
         /\ \A x \in Number : x % N \in Buffer /\ Plus(x, 0) = x
<1>1. N \in Nat \ {0} /\ NbLines \in Nat \ {0} /\ Numbers \in Nat /\ Numbers >= 2
      /\ Number = 0 .. Numbers - 1
  BY DEF DmaAssumption, Number
<1>2. N <= Numbers
  <2>1. PICK k \in Nat \ {0} : Numbers = k * N
    BY DEF DmaAssumption
  <2>2. (k - 1) * N >= 0
    BY <1>1
  <2>3. k * N = (k - 1) * N + N
    BY <1>1
  <2> QED
    BY <1>1, <2>1, <2>2, <2>3
<1>3. \A x \in Number, k \in 1 .. Numbers : Plus(x, k) \in Number /\ (x + k) % Numbers = Plus(x, k)
  BY <1>1 DEF Plus
<1>4. \A x \in Number : x % N \in Buffer /\ Plus(x, 0) = x
  BY <1>1 DEF Plus, Buffer
<1>5. 1 \in 1 .. Numbers /\ N \in 1 .. Numbers
  BY <1>1, <1>2
<1> QED
  BY <1>1, <1>2, <1>3, <1>4, <1>5

LEMMA NextTurn ==
  ASSUME DmaAssumption, NEW x \in Number
  PROVE  Plus(x, 1) % N = IF (x % N) + 1 < N THEN (x % N) + 1 ELSE 0
<1>1. N \in Nat \ {0} /\ Numbers \in Nat /\ Number = 0 .. Numbers - 1
  BY NumberFacts
<1>2. PICK k \in Nat \ {0} : Numbers = k * N
  BY DEF DmaAssumption
<1> DEFINE q == x \div N
           r == x % N
<1>3. q \in Nat /\ r \in 0 .. N - 1 /\ x = N * q + r
  BY <1>1
<1>4. CASE r + 1 < N
  <2>1. x + 1 = N * q + (r + 1) /\ (x + 1) % N = r + 1
    BY <1>1, <1>3, <1>4, Division
  <2>2. x + 1 # Numbers
    <3> SUFFICES ASSUME x + 1 = Numbers
                 PROVE  FALSE
      OBVIOUS
    <3>1. x + 1 = N * k + 0
      BY <1>1, <1>2
    <3>0. 0 \in 0 .. N - 1 /\ k \in Nat
      BY <1>1, <1>2
    <3>2. (N * k + 0) % N = 0
      BY <1>1, <3>0, Division
    <3> QED
      BY <2>1, <3>1, <3>2, <1>3
  <2> QED
    BY <2>1, <2>2, <1>1, <1>4 DEF Plus
<1>5. CASE r + 1 = N
  <2>1. x + 1 = N * (q + 1) + 0
    BY <1>1, <1>3, <1>5
  <2>0. 0 \in 0 .. N - 1 /\ (N * (q + 1) + 0) % N = 0
    BY <1>1, <1>3, Division
  <2>2. (x + 1) % N = 0
    BY <2>0, <2>1
  <2>3. 0 % N = 0
    BY <1>1
  <2> QED
    BY <2>2, <2>3, <1>1, <1>5 DEF Plus
<1> QED
  BY <1>1, <1>3, <1>4, <1>5

LEMMA CellFacts ==
  /\ \A b \in Buffer : Status(b) \in Cells /\ Content(b) \subseteq Cells
  /\ \A b \in Buffer, l \in Lines : Line(b, l) \in Cells /\ Line(b, l) \in Content(b)
  /\ \A a, b \in Buffer : Status(a) = Status(b) => a = b
  /\ \A a, b \in Buffer, l, m \in Lines : Line(a, l) = Line(b, m) => a = b /\ l = m
  /\ \A a, b \in Buffer : Status(a) \notin Content(b) /\ \A l \in Lines : Status(a) # Line(b, l)
  /\ \A a, b \in Buffer, l \in Lines : Line(a, l) \in Content(b) => a = b
  /\ FbfStatus \in Cells
  /\ \A b \in Buffer : FbfStatus \notin Content(b) /\ \A l \in Lines : FbfStatus # Line(b, l)
<1>1. \A b, l, m : l \in Lines /\ m = 0 => Status(b) = <<b, m>> /\ l # m /\ Line(b, l) = <<b, l>>
  BY DEF Status, Line, Lines
<1>2. \A b, l : <<b, l>> \in Content(b) <=> l \in Lines
  BY DEF Content
<1>3. \A a, b, l : <<a, l>> \in Content(b) => a = b /\ l \in Lines
  BY DEF Content
<1>4. \A a, b, l, m : <<a, l>> = <<b, m>> => a = b /\ l = m
  OBVIOUS
<1>5. \A b \in Buffer : Status(b) \in Cells /\ Content(b) \subseteq Cells
  <2> DEFINE parts == {Content(a) \cup {Status(a)} : a \in Buffer}
  <2> SUFFICES ASSUME NEW b \in Buffer
               PROVE  Status(b) \in Cells /\ Content(b) \subseteq Cells
    OBVIOUS
  <2>1. Content(b) \cup {Status(b)} \in parts
    OBVIOUS
  <2>2. Content(b) \cup {Status(b)} \subseteq UNION parts
    BY <2>1, Zenon
  <2>3. UNION parts \subseteq Cells
    BY Zenon DEF Cells
  <2> QED
    BY <2>2, <2>3, Zenon
<1>6. FbfStatus \in Cells
  BY Zenon DEF Cells
<1>7. 0 \notin Lines
  BY DEF Lines
<1> QED
  BY <1>2, <1>3, <1>4, <1>5, <1>6, <1>7 DEF Status, Line, FbfStatus

LEMMA FbfStatusIsOther ==
  ASSUME DmaAssumption
  PROVE  \A b \in Buffer : FbfStatus # Status(b)
BY NumberFacts DEF FbfStatus, Status, Buffer

\* The cells of a buffer: the other buffers have others.
LEMMA OtherCells ==
  ASSUME DmaAssumption
  PROVE  \A a, b \in Buffer : a # b =>
           \A c \in Content(a) \cup {Status(a)} :
             c \in Cells /\ c # Status(b) /\ c \notin Content(b) /\ c # FbfStatus
<1> SUFFICES ASSUME NEW a \in Buffer, NEW b \in Buffer, a # b,
                    NEW c \in Content(a) \cup {Status(a)}
             PROVE  c \in Cells /\ c # Status(b) /\ c \notin Content(b) /\ c # FbfStatus
  OBVIOUS
<1>1. CASE c = Status(a)
  BY <1>1, CellFacts, FbfStatusIsOther
<1>2. CASE c \in Content(a)
  <2>1. PICK l \in Lines : c = Line(a, l)
    BY <1>2 DEF Content, Line
  <2> QED
    BY <2>1, CellFacts
<1> QED
  BY <1>1, <1>2

-----------------------------------------------------------------------------

\* A move: the turn of the other buffers does not change, that of the buffer is a
\* whole turn later.
LEMMA TurnStep ==
  ASSUME DmaAssumption, moved \in Number, moved' = (moved + 1) % Numbers,
         NEW c, c = Cur, NEW b \in Buffer
  PROVE  /\ c \in Buffer /\ moved' \in Number
         /\ b = c => E(b) = moved /\ E(b)' = Plus(moved, N)
         /\ b # c => E(b)' = E(b)
<1>1. /\ N \in Nat \ {0} /\ Numbers \in Nat /\ N <= Numbers /\ Number = 0 .. Numbers - 1
      /\ moved' = Plus(moved, 1) /\ moved' \in Number /\ c \in Buffer /\ Plus(moved, 0) = moved
  BY NumberFacts DEF Cur
<1>2. Cur' = IF c + 1 < N THEN c + 1 ELSE 0
  BY <1>1, NextTurn DEF Cur
<1>3. Buffer = 0 .. N - 1
  BY DEF Buffer
<1>4. CASE b = c
  <2>1. D(b) = 0 /\ D(b)' = N - 1
    BY <1>1, <1>2, <1>3, <1>4 DEF D
  <2> QED
    BY <1>1, <1>4, <2>1 DEF E, Plus
<1>5. CASE b # c
  <2>1. D(b) \in 1 .. N - 1 /\ D(b)' = D(b) - 1
    BY <1>1, <1>2, <1>3, <1>5 DEF D
  <2> QED
    BY <1>1, <1>5, <2>1 DEF E, Plus
<1> QED
  BY <1>1, <1>4, <1>5

\* A step that leaves a buffer, its task and its turn alone.
Same(a) ==
  /\ use' = use /\ E(a)' = E(a)
  /\ pc'[a] = pc[a] /\ n'[a] = n[a] /\ line'[a] = line[a] /\ user'[a] = user[a]
  /\ \A c \in Content(a) \cup {Status(a)} :
       ram'[c] = ram[c] /\ l2'[c] = l2[c] /\ (c \in dirty' <=> c \in dirty)

LEMMA Untouched ==
  ASSUME NEW a \in Buffer, BufferInv(a), Same(a)
  PROVE  BufferInv(a)'
<1>1. /\ use' = use /\ E(a)' = E(a)
      /\ pc'[a] = pc[a] /\ n'[a] = n[a] /\ line'[a] = line[a] /\ user'[a] = user[a]
      /\ S(a)' = S(a) /\ l2'[Status(a)] = l2[Status(a)]
      /\ Status(a) \in dirty' <=> Status(a) \in dirty
  BY DEF Same, S
<1>2. \A l \in Lines : /\ ram'[Line(a, l)] = ram[Line(a, l)] /\ l2'[Line(a, l)] = l2[Line(a, l)]
                       /\ Line(a, l) \in dirty' <=> Line(a, l) \in dirty
  BY CellFacts DEF Same
<1>3. Working(a)' <=> Working(a)
  BY <1>1 DEF Working
<1>4. (Complete(a)' <=> Complete(a)) /\ Nx(a)' = Nx(a) /\ Full(a)' = Full(a) /\ Ready(a)' = Ready(a)
  BY <1>1 DEF Complete, Nx, Given, Full, Ready
<1>5. PlaceInv(a)'
  BY <1>1 DEF BufferInv, PlaceInv
<1>6. StatusInv(a)'
  BY <1>1, <1>3, <1>4 DEF BufferInv, StatusInv
<1>7. TurnInv(a)'
  BY <1>1, <1>4 DEF BufferInv, TurnInv
<1>8. RxInv(a)'
  BY <1>1, <1>2, <1>4 DEF BufferInv, RxInv
<1>9. TxInv(a)'
  BY <1>1, <1>2, <1>3, <1>4 DEF BufferInv, TxInv, Written
<1> QED
  BY <1>5, <1>6, <1>7, <1>8, <1>9 DEF BufferInv

\* A step of a task or of the cache, for the CMA.
LEMMA CmaUntouched ==
  ASSUME DmaAssumption, TypeOK, CmaInv, UNCHANGED <<use, dma>>,
         \A b \in Buffer : S(b) = Full(b) => S(b)' = S(b),
         use = "rx" => \A b \in Buffer, l \in Lines : ram'[Line(b, l)] = ram[Line(b, l)]
  PROVE  CmaInv'
<1>1. Cur' = Cur /\ Cur \in Buffer /\ use' = use /\ cma' = cma /\ moved' = moved /\ device' = device
  BY NumberFacts DEF TypeOK, Cur, dma
<1>2. PICK c \in Buffer : c = Cur /\ c = Cur'
  BY <1>1
<1>3. Full(c)' = Full(c)
  BY <1>1 DEF Full
<1> QED
  BY <1>1, <1>2, <1>3 DEF CmaInv, S

-----------------------------------------------------------------------------
(* The steps of the tasks                                                  *)

\* What a step of the task of buffer b has to preserve.
LEMMA StepOfTask ==
  ASSUME DmaInv, NEW b \in Buffer, TypeOK', BufferInv(b)', CmaInv',
         \A a \in Buffer \ {b} : Same(a)
  PROVE  DmaInv'
<1>1. \A a \in Buffer \ {b} : BufferInv(a)'
  BY Untouched DEF DmaInv
<1> QED
  BY <1>1 DEF DmaInv

LEMMA CallStep ==
  ASSUME DmaAssumption, ~Ahead, DmaInv, NEW b \in Buffer, Call(b)
  PROVE  DmaInv'
<1>1. /\ pc[b] = "idle" /\ UNCHANGED <<use, memory, n, line, user, dma>>
      /\ pc' = [pc EXCEPT ![b] = IF use = "fbf" THEN "copy" ELSE "poll"]
      /\ use = "fbf" => S(b) = 0
  BY Zenon DEF Call, Goto, S
<1>2. /\ use' = use /\ ram' = ram /\ l2' = l2 /\ dirty' = dirty /\ n' = n /\ line' = line
      /\ user' = user /\ moved' = moved /\ cma' = cma /\ device' = device
  BY <1>1 DEF memory, dma
<1>3. /\ TypeOK /\ BufferInv(b)
  BY DEF DmaInv
<1>4. pc'[b] = (IF use = "fbf" THEN "copy" ELSE "poll") /\ \A a \in Buffer \ {b} : pc'[a] = pc[a]
  BY <1>1, <1>3 DEF TypeOK
<1>5. TypeOK'
  BY <1>1, <1>2, <1>3 DEF TypeOK
<1>6. E(b)' = E(b) /\ S(b)' = S(b) /\ Full(b)' = Full(b) /\ Ready(b)' = Ready(b) /\ Nx(b)' = Nx(b)
  BY <1>1, <1>2, <1>4 DEF E, D, Cur, S, Full, Ready, Nx, Given
<1>7. PlaceInv(b)' /\ StatusInv(b)'
  BY <1>1, <1>2, <1>3, <1>4, <1>6 DEF BufferInv, PlaceInv, StatusInv, Working, Ready, Full
<1>8. TurnInv(b)'
  BY <1>2, <1>3, <1>6 DEF BufferInv, TurnInv
<1>9. RxInv(b)'
  BY <1>1, <1>2, <1>3, <1>4, <1>6 DEF BufferInv, RxInv
<1>10. TxInv(b)'
  <2>1. line[b] = 1 /\ ~Working(b) /\ ~Complete(b)' /\ line'[b] = 1
    BY <1>1, <1>2, <1>3, <1>4 DEF BufferInv, PlaceInv, Working, Complete
  <2>2. \A l \in Lines : ~(l < 1)
    BY DEF Lines
  <2> QED
    BY <1>1, <1>2, <1>3, <1>4, <1>6, <2>1, <2>2 DEF BufferInv, TxInv
<1>11. CmaInv'
  BY <1>1, <1>2, <1>3, CmaUntouched DEF S, DmaInv
<1>12. \A a \in Buffer \ {b} : Same(a)
  BY <1>2, <1>4 DEF Same, E, D, Cur
<1> QED
  BY <1>5, <1>7, <1>8, <1>9, <1>10, <1>11, <1>12, StepOfTask DEF BufferInv

LEMMA PollStep ==
  ASSUME DmaAssumption, DmaInv, NEW b \in Buffer, Poll(b)
  PROVE  DmaInv'
<1>0. /\ TypeOK /\ BufferInv(b) /\ Status(b) \in Cells
  BY CellFacts DEF DmaInv
<1>1. /\ pc[b] = "poll" /\ UNCHANGED <<use, ram, n, line, user, dma>>
      /\ l2' = [l2 EXCEPT ![Status(b)] = S(b)]
      /\ dirty' = dirty \ {Status(b)}
      /\ S(b) # Ready(b) => pc' = pc
      /\ S(b) = Ready(b) =>
           /\ use = "rx" => pc' = [pc EXCEPT ![b] = "inval"]
           /\ use = "tx" => pc' = [pc EXCEPT ![b] = "copy"]
           /\ use = "fbf" => pc' = [pc EXCEPT ![b] = "sync"]
  BY DEF Poll, Goto, S
<1>2. /\ use' = use /\ ram' = ram /\ n' = n /\ line' = line
      /\ user' = user /\ moved' = moved /\ cma' = cma /\ device' = device
  BY <1>1 DEF dma
<1>3. Status(b) \notin dirty
  BY <1>0, <1>1 DEF BufferInv, StatusInv
<1>4. /\ dirty' = dirty
      /\ \A c \in Cells \ {Status(b)} : l2'[c] = l2[c]
      /\ \A l \in Lines : l2'[Line(b, l)] = l2[Line(b, l)]
  BY <1>0, <1>1, <1>3, CellFacts DEF TypeOK
<1>5. /\ pc'[b] \in {"poll", "inval", "copy", "sync"}
      /\ pc'[b] # "poll" => S(b) = Ready(b)
      /\ pc'[b] = "inval" => use = "rx"
      /\ pc'[b] = "copy" => use = "tx"
      /\ pc'[b] = "sync" => use = "fbf"
      /\ \A a \in Buffer \ {b} : pc'[a] = pc[a]
  BY <1>0, <1>1 DEF TypeOK
<1>6. TypeOK'
  <2>1. l2' \in [Cells -> Number \cup {Absent}]
    BY <1>0, <1>1 DEF TypeOK, S
  <2>2. dirty' \subseteq {c \in Cells : l2'[c] # Absent}
    BY <1>0, <1>3, <1>4 DEF TypeOK
  <2>3. pc' \in [Buffer -> {"idle", "poll", "inval", "copy", "sync", "status", "fbf", "return"}]
    BY <1>0, <1>1 DEF TypeOK
  <2> QED
    BY <1>0, <1>2, <2>1, <2>2, <2>3 DEF TypeOK
<1>7. /\ E(b)' = E(b) /\ S(b)' = S(b) /\ Full(b)' = Full(b) /\ Ready(b)' = Ready(b)
      /\ Nx(b)' = Nx(b)
  BY <1>1, <1>2, <1>5 DEF E, D, Cur, S, Full, Ready, Nx, Given
<1>8. PlaceInv(b)' /\ StatusInv(b)'
  BY <1>0, <1>1, <1>2, <1>3, <1>4, <1>5, <1>7 DEF BufferInv, PlaceInv, StatusInv, Working
<1>9. TurnInv(b)'
  BY <1>0, <1>2, <1>7 DEF BufferInv, TurnInv
<1>10. RxInv(b)'
  BY <1>0, <1>1, <1>2, <1>4, <1>5, <1>7 DEF BufferInv, RxInv
<1>11. TxInv(b)'
  <2>1. line[b] = 1 /\ line'[b] = 1 /\ (Complete(b)' => Complete(b)) /\ (Working(b) => Working(b)')
    BY <1>0, <1>1, <1>2, <1>5 DEF BufferInv, PlaceInv, Working, Complete
  <2>2. \A l \in Lines : ~(l < 1)
    BY DEF Lines
  <2> QED
    BY <1>0, <1>1, <1>2, <1>4, <1>5, <1>7, <2>1, <2>2 DEF BufferInv, TxInv, Written
<1>12. CmaInv'
  BY <1>0, <1>1, <1>2, CmaUntouched DEF S, DmaInv
<1>13. \A a \in Buffer \ {b} : Same(a)
  BY <1>2, <1>4, <1>5, OtherCells DEF Same, E, D, Cur
<1> QED
  BY <1>6, <1>8, <1>9, <1>10, <1>11, <1>12, <1>13, StepOfTask DEF BufferInv

LEMMA InvalBufferStep ==
  ASSUME DmaAssumption, DmaInv, NEW b \in Buffer, InvalBuffer(b)
  PROVE  DmaInv'
<1>0. TypeOK /\ BufferInv(b) /\ Content(b) \subseteq Cells
  BY CellFacts DEF DmaInv
<1>1. /\ pc[b] = "inval" /\ UNCHANGED <<use, ram, n, line, user, dma>>
      /\ l2' = [c \in Cells |-> IF c \in Content(b) THEN Absent ELSE l2[c]]
      /\ dirty' = dirty \ Content(b)
      /\ pc' = [pc EXCEPT ![b] = "copy"]
  BY DEF InvalBuffer, Inval, Forgotten, Goto
<1>2. /\ use' = use /\ ram' = ram /\ n' = n /\ line' = line
      /\ user' = user /\ moved' = moved /\ cma' = cma /\ device' = device
  BY <1>1 DEF dma
<1>3. /\ pc'[b] = "copy" /\ \A a \in Buffer \ {b} : pc'[a] = pc[a]
      /\ \A c \in Cells \ Content(b) : l2'[c] = l2[c] /\ (c \in dirty' <=> c \in dirty)
      /\ \A l \in Lines : l2'[Line(b, l)] = Absent /\ Line(b, l) \notin dirty'
      /\ l2'[Status(b)] = l2[Status(b)] /\ (Status(b) \in dirty' <=> Status(b) \in dirty)
  BY <1>0, <1>1, CellFacts DEF TypeOK
<1>4. use = "rx"
  BY <1>0, <1>1 DEF BufferInv, PlaceInv, TypeOK
<1>5. TypeOK'
  <2>1. l2' \in [Cells -> Number \cup {Absent}]
    BY <1>0, <1>1 DEF TypeOK
  <2>2. dirty' \subseteq {c \in Cells : l2'[c] # Absent}
    BY <1>0, <1>1, <1>3 DEF TypeOK
  <2>3. pc' \in [Buffer -> {"idle", "poll", "inval", "copy", "sync", "status", "fbf", "return"}]
    BY <1>0, <1>1 DEF TypeOK
  <2> QED
    BY <1>0, <1>2, <2>1, <2>2, <2>3 DEF TypeOK
<1>6. /\ E(b)' = E(b) /\ S(b)' = S(b) /\ Full(b)' = Full(b) /\ Ready(b)' = Ready(b)
      /\ Nx(b)' = Nx(b)
  BY <1>1, <1>2, <1>3 DEF E, D, Cur, S, Full, Ready, Nx, Given
<1>7. PlaceInv(b)' /\ StatusInv(b)'
  BY <1>0, <1>1, <1>2, <1>3, <1>4, <1>6 DEF BufferInv, PlaceInv, StatusInv, Working
<1>8. TurnInv(b)'
  BY <1>0, <1>2, <1>6 DEF BufferInv, TurnInv
<1>9. RxInv(b)'
  <2>1. line'[b] = 1
    BY <1>0, <1>1, <1>2 DEF BufferInv, PlaceInv
  <2>2. \A l \in Lines : ~(l < 1)
    BY DEF Lines
  <2> QED
    BY <1>0, <1>1, <1>2, <1>3, <1>6, <2>1, <2>2 DEF BufferInv, RxInv
<1>10. TxInv(b)'
  BY <1>2, <1>4 DEF TxInv
<1>11. CmaInv'
  BY <1>0, <1>1, <1>2, CmaUntouched DEF S, DmaInv
<1>12. \A a \in Buffer \ {b} : Same(a)
  BY <1>2, <1>3, OtherCells DEF Same, E, D, Cur
<1> QED
  BY <1>5, <1>7, <1>8, <1>9, <1>10, <1>11, <1>12, StepOfTask DEF BufferInv

LEMMA SyncBufferStep ==
  ASSUME DmaAssumption, DmaInv, NEW b \in Buffer, SyncBuffer(b)
  PROVE  DmaInv'
<1>0. TypeOK /\ BufferInv(b) /\ Content(b) \subseteq Cells
  BY CellFacts DEF DmaInv
<1>1. /\ pc[b] = "sync" /\ UNCHANGED <<use, l2, n, line, user, dma>>
      /\ ram' = [c \in Cells |-> IF c \in Content(b) \cap dirty THEN l2[c] ELSE ram[c]]
      /\ dirty' = dirty \ Content(b)
      /\ pc' = [pc EXCEPT ![b] = "status"]
  BY DEF SyncBuffer, Sync, Synced, Goto
<1>2. /\ use' = use /\ l2' = l2 /\ n' = n /\ line' = line
      /\ user' = user /\ moved' = moved /\ cma' = cma /\ device' = device
  BY <1>1 DEF dma
<1>3. /\ pc'[b] = "status" /\ \A a \in Buffer \ {b} : pc'[a] = pc[a]
      /\ \A c \in Cells \ Content(b) : ram'[c] = ram[c] /\ (c \in dirty' <=> c \in dirty)
      /\ \A l \in Lines : /\ Line(b, l) \notin dirty'
                          /\ ram'[Line(b, l)] = IF Line(b, l) \in dirty THEN l2[Line(b, l)]
                                                ELSE ram[Line(b, l)]
      /\ Status(b) \in dirty' <=> Status(b) \in dirty
      /\ \A a \in Buffer : S(a)' = S(a)
  BY <1>0, <1>1, CellFacts DEF TypeOK, S
<1>4. use # "rx"
  BY <1>0, <1>1 DEF BufferInv, PlaceInv
<1>5. TypeOK'
  <2>1. \A c \in dirty : c \in Cells /\ l2[c] \in Number
    BY <1>0 DEF TypeOK
  <2>2. ram' \in [Cells -> Number]
    BY <1>0, <1>1, <2>1 DEF TypeOK
  <2>3. pc' \in [Buffer -> {"idle", "poll", "inval", "copy", "sync", "status", "fbf", "return"}]
    BY <1>0, <1>1 DEF TypeOK
  <2>4. dirty' \subseteq {c \in Cells : l2'[c] # Absent}
    BY <1>0, <1>1, <1>2 DEF TypeOK
  <2> QED
    BY <1>0, <1>2, <2>2, <2>3, <2>4 DEF TypeOK
<1>6. /\ E(b)' = E(b) /\ S(b)' = S(b) /\ Full(b)' = Full(b) /\ Ready(b)' = Ready(b)
      /\ Nx(b)' = Nx(b) /\ Nx(b) = n[b]
  BY <1>1, <1>2, <1>3 DEF E, D, Cur, Full, Ready, Nx, Given
<1>7. PlaceInv(b)' /\ StatusInv(b)'
  BY <1>0, <1>1, <1>2, <1>3, <1>4, <1>6 DEF BufferInv, PlaceInv, StatusInv, Working, TypeOK
<1>8. TurnInv(b)'
  BY <1>0, <1>2, <1>6 DEF BufferInv, TurnInv
<1>9. RxInv(b)'
  BY <1>2, <1>4 DEF RxInv
<1>10. TxInv(b)'
  <2>1. Working(b) /\ Complete(b) /\ S(b) = Ready(b) /\ Ready(b) # Full(b)
    BY <1>0, <1>1 DEF Working, Complete, BufferInv, StatusInv, Ready, Full
  <2>2. \A l \in Lines : Written(b, l)
    BY <1>0, <1>4, <2>1 DEF BufferInv, TxInv
  <2>3. \A l \in Lines : Written(b, l)'
    BY <1>2, <1>3, <2>2 DEF Written
  <2> QED
    BY <1>3, <1>6, <2>1, <2>3 DEF TxInv
<1>11. CmaInv'
  BY <1>0, <1>1, <1>2, <1>3, <1>4, CmaUntouched DEF DmaInv
<1>12. \A a \in Buffer \ {b} : Same(a)
  BY <1>2, <1>3, OtherCells DEF Same, E, D, Cur
<1> QED
  BY <1>5, <1>7, <1>8, <1>9, <1>10, <1>11, <1>12, StepOfTask DEF BufferInv

LEMMA CopyStep ==
  ASSUME DmaAssumption, DmaInv, NEW b \in Buffer, Copy(b)
  PROVE  DmaInv'
<1> DEFINE c == Line(b, line[b])
<1>0. /\ TypeOK /\ BufferInv(b) /\ line[b] \in Lines /\ c \in Cells /\ c # Status(b)
      /\ NbLines \in Nat \ {0}
  BY CellFacts, NumberFacts DEF DmaInv, TypeOK
<1>1. /\ pc[b] = "copy" /\ UNCHANGED <<use, n, dma>>
      /\ use = "rx" =>
           /\ user' = [user EXCEPT ![b][line[b]] = Read(c)]
           /\ l2' = [l2 EXCEPT ![c] = Read(c)] /\ ram' = ram /\ dirty' = dirty
      /\ use # "rx" =>
           /\ l2' = [l2 EXCEPT ![c] = n[b]] /\ dirty' = dirty \cup {c} /\ ram' = ram
           /\ user' = user
      /\ line[b] < NbLines => line' = [line EXCEPT ![b] = line[b] + 1] /\ pc' = pc
      /\ ~(line[b] < NbLines) =>
           /\ line' = [line EXCEPT ![b] = 1]
           /\ use = "rx" => pc' = [pc EXCEPT ![b] = "status"]
           /\ use = "tx" => pc' = [pc EXCEPT ![b] = "sync"]
           /\ use = "fbf" => pc' = [pc EXCEPT ![b] = "poll"]
  BY DEF Copy, Write, Goto, Line
<1>2. /\ use' = use /\ ram' = ram /\ n' = n
      /\ moved' = moved /\ cma' = cma /\ device' = device
  BY <1>1 DEF dma
<1>3. /\ \A a \in Buffer \ {b} : pc'[a] = pc[a] /\ line'[a] = line[a] /\ user'[a] = user[a]
      /\ \A d \in Cells : d # c => l2'[d] = l2[d] /\ (d \in dirty' <=> d \in dirty)
      /\ l2'[Status(b)] = l2[Status(b)] /\ (Status(b) \in dirty' <=> Status(b) \in dirty)
  BY <1>0, <1>1, CellFacts DEF TypeOK
<1>4. \/ line[b] < NbLines /\ line'[b] = line[b] + 1 /\ pc'[b] = "copy"
      \/ /\ line[b] = NbLines /\ line'[b] = 1
         /\ use = "rx" => pc'[b] = "status"
         /\ use = "tx" => pc'[b] = "sync"
         /\ use = "fbf" => pc'[b] = "poll"
  BY <1>0, <1>1 DEF TypeOK, Lines
<1>5. /\ S(b) = Ready(b) /\ Ready(b) # Full(b) /\ Status(b) \notin dirty
      /\ use \in {"rx", "tx", "fbf"} /\ n[b] \in Number /\ Nx(b) = n[b]
      /\ \A a \in Buffer : S(a)' = S(a)
  BY <1>0, <1>1, <1>2 DEF BufferInv, StatusInv, Working, Ready, Full, TypeOK, S, Nx, Given
<1>6. use = "rx" => Read(c) = n[b] /\ c \notin dirty
  BY <1>0, <1>1, <1>5 DEF BufferInv, RxInv, Read
<1>7. /\ E(b)' = E(b) /\ S(b)' = S(b) /\ Full(b)' = Full(b) /\ Ready(b)' = Ready(b)
      /\ Nx(b)' = n[b]
  BY <1>2, <1>4, <1>5 DEF E, D, Cur, Full, Ready, Nx, Given
<1>8. TypeOK'
  <2>1. l2' \in [Cells -> Number \cup {Absent}] /\ l2'[c] = n[b]
    BY <1>0, <1>1, <1>5, <1>6 DEF TypeOK
  <2>2. n[b] # Absent
    BY <1>5, NumberFacts DEF Absent
  <2>3. dirty' \subseteq {d \in Cells : l2'[d] # Absent}
    BY <1>0, <1>1, <1>3, <2>1, <2>2 DEF TypeOK
  <2>4. pc' \in [Buffer -> {"idle", "poll", "inval", "copy", "sync", "status", "fbf", "return"}]
    BY <1>0, <1>1, <1>5 DEF TypeOK
  <2>5. line[b] + 1 \in Lines \/ ~(line[b] < NbLines)
    BY <1>0 DEF Lines
  <2>6. 1 \in Lines
    BY <1>0 DEF Lines
  <2>7. line' \in [Buffer -> Lines]
    BY <1>0, <1>1, <2>5, <2>6 DEF TypeOK
  <2>8. user' \in [Buffer -> [Lines -> Number]]
    <3>1. CASE use = "rx"
      <4>1. [user[b] EXCEPT ![line[b]] = n[b]] \in [Lines -> Number]
        BY <1>0, <1>5 DEF TypeOK
      <4>2. user' = [user EXCEPT ![b] = [user[b] EXCEPT ![line[b]] = n[b]]]
        BY <1>1, <1>6, <3>1
      <4> QED
        BY <1>0, <4>1, <4>2 DEF TypeOK
    <3> QED
      BY <1>0, <1>1, <3>1 DEF TypeOK
  <2> QED
    BY <1>0, <1>2, <2>1, <2>3, <2>4, <2>7, <2>8 DEF TypeOK
<1>9. PlaceInv(b)' /\ StatusInv(b)'
  BY <1>0, <1>1, <1>2, <1>3, <1>4, <1>5, <1>7 DEF BufferInv, PlaceInv, StatusInv, Working
<1>10. TurnInv(b)'
  BY <1>0, <1>2, <1>5, <1>7 DEF BufferInv, TurnInv
<1>11. RxInv(b)'
  <2> SUFFICES ASSUME use = "rx", NEW l \in Lines
               PROVE  /\ Line(b, l) \notin dirty'
                      /\ ram'[Line(b, l)] = n[b]
                      /\ pc'[b] = "copy" => l2'[Line(b, l)] \in {Absent, n[b]}
                      /\ pc'[b] = "copy" /\ l < line'[b] => user'[b][l] = n[b]
                      /\ pc'[b] = "status" => user'[b][l] = n[b]
    BY <1>2, <1>7 DEF RxInv, Absent
  <2>1. /\ Line(b, l) \notin dirty' /\ ram'[Line(b, l)] = n[b]
        /\ l2[Line(b, l)] \in {Absent, n[b]} /\ (l < line[b] => user[b][l] = n[b])
    BY <1>0, <1>1, <1>2, <1>5 DEF BufferInv, RxInv
  <2>2. CASE l = line[b]
    BY <1>0, <1>1, <1>4, <1>6, <2>1, <2>2 DEF TypeOK
  <2>3. CASE l # line[b]
    <3>1. Line(b, l) \in Cells /\ Line(b, l) # c
      BY <2>3, <1>0, CellFacts
    <3>2. user'[b][l] = user[b][l] /\ l2'[Line(b, l)] = l2[Line(b, l)]
      BY <1>0, <1>1, <1>3, <2>3, <3>1 DEF TypeOK
    <3>3. l \in Nat /\ line[b] \in Nat /\ l <= NbLines
      BY <1>0 DEF Lines
    <3> QED
      BY <1>0, <1>4, <2>1, <2>3, <3>2, <3>3
  <2> QED
    BY <2>2, <2>3
<1>12. TxInv(b)'
  <2> SUFFICES ASSUME use # "rx", NEW l \in Lines
               PROVE  /\ Working(b)' /\ pc'[b] # "status"
                      /\ pc'[b] = "copy" /\ l < line'[b] => Written(b, l)'
                      /\ pc'[b] # "copy" => Written(b, l)'
    BY <1>2, <1>5, <1>7 DEF TxInv, Complete, Working
  <2>1. l < line[b] => Written(b, l)
    BY <1>0, <1>1 DEF BufferInv, TxInv
  <2>2. Working(b)' /\ pc'[b] # "status"
    BY <1>2, <1>4, <1>5 DEF Working
  <2>3. CASE l = line[b]
    <3>1. c \in dirty' /\ l2'[c] = n[b]
      BY <1>0, <1>1 DEF TypeOK
    <3> QED
      BY <1>2, <2>2, <2>3, <3>1 DEF Written
  <2>4. CASE l # line[b]
    <3>1. Line(b, l) \in Cells /\ Line(b, l) # c
      BY <2>4, <1>0, CellFacts
    <3>2. l < line[b] => Written(b, l)'
      BY <1>2, <1>3, <2>1, <3>1 DEF Written
    <3>3. l \in Nat /\ line[b] \in Nat /\ l <= NbLines
      BY <1>0 DEF Lines
    <3> QED
      BY <1>0, <1>4, <2>2, <2>4, <3>2, <3>3
  <2> QED
    BY <2>3, <2>4
<1>13. CmaInv'
  BY <1>0, <1>2, <1>5, CmaUntouched DEF DmaInv, dma
<1>14. \A a \in Buffer \ {b} : Same(a)
  <2>1. c \in Content(b)
    BY <1>0, CellFacts
  <2> QED
    BY <1>2, <1>3, <2>1, OtherCells DEF Same, E, D, Cur
<1> QED
  BY <1>8, <1>9, <1>10, <1>11, <1>12, <1>13, <1>14, StepOfTask DEF BufferInv

LEMMA WriteStatusStep ==
  ASSUME DmaAssumption, DmaInv, NEW b \in Buffer, WriteStatus(b)
  PROVE  DmaInv'
<1>0. TypeOK /\ BufferInv(b) /\ Status(b) \in Cells
  BY CellFacts DEF DmaInv
<1>1. /\ pc[b] = "status" /\ UNCHANGED <<use, ram, n, line, user, dma>>
      /\ l2' = [l2 EXCEPT ![Status(b)] = Full(b)]
      /\ dirty' = dirty \cup {Status(b)}
      /\ pc' = [pc EXCEPT ![b] = IF use = "fbf" THEN "fbf" ELSE "return"]
  BY DEF WriteStatus, Write, Goto
<1>2. /\ use' = use /\ ram' = ram /\ n' = n /\ line' = line
      /\ user' = user /\ moved' = moved /\ cma' = cma /\ device' = device
  BY <1>1 DEF dma
<1>3. /\ pc'[b] = (IF use = "fbf" THEN "fbf" ELSE "return")
      /\ \A a \in Buffer \ {b} : pc'[a] = pc[a]
      /\ \A d \in Cells : d # Status(b) => l2'[d] = l2[d] /\ (d \in dirty' <=> d \in dirty)
      /\ l2'[Status(b)] = Full(b) /\ Status(b) \in dirty'
  BY <1>0, <1>1 DEF TypeOK
<1>4. \A l \in Lines : l2'[Line(b, l)] = l2[Line(b, l)]
                       /\ (Line(b, l) \in dirty' <=> Line(b, l) \in dirty)
  BY <1>3, CellFacts
<1>5. /\ S(b) = Ready(b) /\ Ready(b) # Full(b) /\ Working(b) /\ Complete(b)
      /\ Nx(b) = n[b] /\ Full(b) \in {0, 1} /\ Ready(b) \in {0, 1}
  BY <1>0, <1>1 DEF BufferInv, StatusInv, Working, Complete, Ready, Full, Nx, Given
<1>6. TypeOK'
  <2>1. Full(b) \in Number /\ Full(b) # Absent
    BY <1>5, NumberFacts DEF Absent
  <2>2. l2' \in [Cells -> Number \cup {Absent}]
    BY <1>0, <1>1, <2>1 DEF TypeOK
  <2>3. dirty' \subseteq {d \in Cells : l2'[d] # Absent}
    BY <1>0, <1>1, <1>3, <2>1 DEF TypeOK
  <2>4. pc' \in [Buffer -> {"idle", "poll", "inval", "copy", "sync", "status", "fbf", "return"}]
    BY <1>0, <1>1 DEF TypeOK
  <2> QED
    BY <1>0, <1>2, <2>2, <2>3, <2>4 DEF TypeOK
<1>7. /\ E(b)' = E(b) /\ S(b)' = S(b) /\ Full(b)' = Full(b) /\ Ready(b)' = Ready(b)
      /\ Nx(b)' = n[b] /\ ~Working(b)' /\ Complete(b)'
  BY <1>1, <1>2, <1>3 DEF E, D, Cur, S, Full, Ready, Nx, Given, Working, Complete
<1>8. PlaceInv(b)'
  BY <1>0, <1>1, <1>2, <1>3 DEF BufferInv, PlaceInv, TypeOK
<1>9. StatusInv(b)'
  BY <1>3, <1>5, <1>7 DEF StatusInv
<1>10. TurnInv(b)'
  BY <1>0, <1>2, <1>5, <1>7 DEF BufferInv, TurnInv
<1>11. RxInv(b)'
  BY <1>0, <1>1, <1>2, <1>3, <1>4, <1>5, <1>7 DEF BufferInv, RxInv
<1>12. TxInv(b)'
  <2>1. use # "rx" => \A l \in Lines : Line(b, l) \notin dirty' /\ Written(b, l)'
    BY <1>0, <1>1, <1>2, <1>4, <1>5 DEF BufferInv, TxInv, Written
  <2> QED
    BY <1>2, <1>3, <1>5, <1>7, <2>1 DEF TxInv
<1>13. CmaInv'
  BY <1>0, <1>1, <1>2, CmaUntouched DEF S, DmaInv
<1>14. \A a \in Buffer \ {b} : Same(a)
  BY <1>2, <1>3, OtherCells DEF Same, E, D, Cur
<1> QED
  BY <1>6, <1>8, <1>9, <1>10, <1>11, <1>12, <1>13, <1>14, StepOfTask DEF BufferInv

LEMMA WriteFbfStatusStep ==
  ASSUME DmaAssumption, DmaInv, NEW b \in Buffer, WriteFbfStatus(b)
  PROVE  DmaInv'
<1>0. TypeOK /\ BufferInv(b) /\ FbfStatus \in Cells
  BY CellFacts DEF DmaInv
<1>1. /\ pc[b] = "fbf" /\ UNCHANGED <<use, ram, n, line, user, dma>>
      /\ l2' = [l2 EXCEPT ![FbfStatus] = 0]
      /\ dirty' = dirty \cup {FbfStatus}
      /\ pc' = [pc EXCEPT ![b] = "return"]
  BY DEF WriteFbfStatus, Write, Goto
<1>2. /\ use' = use /\ ram' = ram /\ n' = n /\ line' = line
      /\ user' = user /\ moved' = moved /\ cma' = cma /\ device' = device
  BY <1>1 DEF dma
<1>3. /\ pc'[b] = "return" /\ \A a \in Buffer \ {b} : pc'[a] = pc[a]
      /\ \A d \in Cells : d # FbfStatus => l2'[d] = l2[d] /\ (d \in dirty' <=> d \in dirty)
      /\ l2'[FbfStatus] = 0
  BY <1>0, <1>1 DEF TypeOK
<1>4. /\ \A l \in Lines : l2'[Line(b, l)] = l2[Line(b, l)]
                          /\ (Line(b, l) \in dirty' <=> Line(b, l) \in dirty)
      /\ l2'[Status(b)] = l2[Status(b)] /\ (Status(b) \in dirty' <=> Status(b) \in dirty)
  BY <1>3, CellFacts, FbfStatusIsOther
<1>5. use = "fbf"
  BY <1>0, <1>1 DEF BufferInv, PlaceInv, TypeOK
<1>6. TypeOK'
  <2>1. 0 \in Number /\ 0 # Absent
    BY NumberFacts DEF Absent
  <2>2. l2' \in [Cells -> Number \cup {Absent}]
    BY <1>0, <1>1, <2>1 DEF TypeOK
  <2>3. dirty' \subseteq {d \in Cells : l2'[d] # Absent}
    BY <1>0, <1>1, <1>3, <2>1 DEF TypeOK
  <2>4. pc' \in [Buffer -> {"idle", "poll", "inval", "copy", "sync", "status", "fbf", "return"}]
    BY <1>0, <1>1 DEF TypeOK
  <2> QED
    BY <1>0, <1>2, <2>2, <2>3, <2>4 DEF TypeOK
<1>7. /\ E(b)' = E(b) /\ S(b)' = S(b) /\ Full(b)' = Full(b) /\ Ready(b)' = Ready(b)
      /\ Nx(b)' = Nx(b) /\ (Working(b)' <=> Working(b)) /\ (Complete(b)' <=> Complete(b))
  BY <1>1, <1>2, <1>3, <1>4 DEF E, D, Cur, S, Full, Ready, Nx, Given, Working, Complete
<1>8. PlaceInv(b)' /\ StatusInv(b)'
  BY <1>0, <1>1, <1>2, <1>3, <1>4, <1>5, <1>7 DEF BufferInv, PlaceInv, StatusInv, Working
<1>9. TurnInv(b)'
  BY <1>0, <1>2, <1>7 DEF BufferInv, TurnInv
<1>10. RxInv(b)'
  BY <1>2, <1>5 DEF RxInv
<1>11. TxInv(b)'
  BY <1>0, <1>1, <1>2, <1>3, <1>4, <1>7 DEF BufferInv, TxInv, Written
<1>12. CmaInv'
  BY <1>0, <1>1, <1>2, CmaUntouched DEF S, DmaInv
<1>13. \A a \in Buffer \ {b} : Same(a)
  BY <1>2, <1>3, OtherCells DEF Same, E, D, Cur
<1> QED
  BY <1>6, <1>8, <1>9, <1>10, <1>11, <1>12, <1>13, StepOfTask DEF BufferInv

LEMMA ReturnStep ==
  ASSUME DmaAssumption, DmaInv, NEW b \in Buffer, Return(b)
  PROVE  DmaInv'
<1> DEFINE words == {Status(b)} \cup (IF use = "fbf" THEN {FbfStatus} ELSE {})
<1>0. TypeOK /\ BufferInv(b) /\ Status(b) \in words /\ words \subseteq {Status(b), FbfStatus}
      /\ words \subseteq Cells /\ Status(b) \in Cells
  BY CellFacts DEF DmaInv
<1>1. /\ pc[b] = "return" /\ UNCHANGED <<use, l2, line, user, dma>>
      /\ ram' = [c \in Cells |-> IF c \in words \cap dirty THEN l2[c] ELSE ram[c]]
      /\ dirty' = dirty \ words
      /\ n' = [n EXCEPT ![b] = (n[b] + N) % Numbers]
      /\ pc' = [pc EXCEPT ![b] = "idle"]
  BY DEF Return, Sync, Synced, Goto
<1>2. /\ use' = use /\ l2' = l2 /\ line' = line
      /\ user' = user /\ moved' = moved /\ cma' = cma /\ device' = device
  BY <1>1 DEF dma
<1>3. n[b] \in Number /\ Plus(n[b], N) \in Number /\ (n[b] + N) % Numbers = Plus(n[b], N)
  BY <1>0, NumberFacts DEF TypeOK
<1> HIDE DEF words
<1>4. /\ pc'[b] = "idle" /\ n'[b] = Plus(n[b], N)
      /\ \A a \in Buffer \ {b} : pc'[a] = pc[a] /\ n'[a] = n[a]
      /\ \A c \in Cells : c \notin {Status(b), FbfStatus} =>
           ram'[c] = ram[c] /\ (c \in dirty' <=> c \in dirty)
      /\ Status(b) \notin dirty'
  BY <1>0, <1>1, <1>3 DEF TypeOK
<1>5. \A l \in Lines : ram'[Line(b, l)] = ram[Line(b, l)]
                       /\ (Line(b, l) \in dirty' <=> Line(b, l) \in dirty)
  BY <1>4, CellFacts
<1>6. S(b)' = IF Status(b) \in dirty THEN Full(b) ELSE S(b)
  BY <1>0, <1>1 DEF S, BufferInv, StatusInv
<1>7. /\ E(b)' = E(b) /\ Full(b)' = Full(b) /\ Ready(b)' = Ready(b)
      /\ Full(b) \in {0, 1} /\ Ready(b) \in {0, 1} /\ Full(b) # Ready(b)
      /\ Nx(b)' = Plus(n[b], N) /\ ~Working(b)' /\ ~Complete(b)' /\ ~Working(b)
      /\ Nx(b) = IF Status(b) \in dirty THEN n[b] ELSE Plus(n[b], N)
  BY <1>1, <1>2, <1>4 DEF E, D, Cur, Full, Ready, Nx, Given, Working, Complete
<1>8. TypeOK'
  <2>1. \A c \in dirty : c \in Cells /\ l2[c] \in Number
    BY <1>0 DEF TypeOK
  <2>2. ram' \in [Cells -> Number]
    BY <1>0, <1>1, <2>1 DEF TypeOK
  <2>3. pc' \in [Buffer -> {"idle", "poll", "inval", "copy", "sync", "status", "fbf", "return"}]
    BY <1>0, <1>1 DEF TypeOK
  <2>4. dirty' \subseteq {c \in Cells : l2'[c] # Absent}
    BY <1>0, <1>1, <1>2 DEF TypeOK
  <2>5. n' \in [Buffer -> Number]
    BY <1>0, <1>1, <1>3 DEF TypeOK
  <2> QED
    BY <1>0, <1>2, <2>2, <2>3, <2>4, <2>5 DEF TypeOK
<1>9. PlaceInv(b)'
  BY <1>0, <1>1, <1>2, <1>4 DEF BufferInv, PlaceInv
<1>10. StatusInv(b)'
  BY <1>0, <1>4, <1>6, <1>7 DEF BufferInv, StatusInv
<1>11. TurnInv(b)'
  BY <1>0, <1>2, <1>6, <1>7 DEF BufferInv, StatusInv, TurnInv
<1>12. RxInv(b)'
  BY <1>0, <1>2, <1>4, <1>5, <1>6, <1>7 DEF BufferInv, RxInv
<1>13. TxInv(b)'
  <2> SUFFICES ASSUME use # "rx", NEW l \in Lines
               PROVE  Line(b, l) \notin dirty' /\ (S(b)' = Full(b) => ram'[Line(b, l)] = E(b))
    BY <1>2, <1>4, <1>7 DEF TxInv
  <2>1. Line(b, l) \notin dirty /\ Line(b, l) \notin dirty'
    BY <1>0, <1>5, <1>7 DEF BufferInv, TxInv
  <2>2. CASE Status(b) \in dirty
    <3>1. S(b) = Ready(b) /\ Complete(b)
      BY <1>0, <1>1, <2>2 DEF BufferInv, StatusInv, Complete
    <3>2. ram[Line(b, l)] = n[b] /\ n[b] = E(b)
      BY <1>0, <1>7, <2>1, <2>2, <3>1 DEF BufferInv, TxInv, Written, TurnInv
    <3> QED
      BY <1>5, <2>1, <3>2
  <2>3. CASE Status(b) \notin dirty
    BY <1>0, <1>5, <1>6, <2>1, <2>3 DEF BufferInv, TxInv
  <2> QED
    BY <2>2, <2>3
<1>14. CmaInv'
  <2>1. \A a \in Buffer : S(a) = Full(a) => S(a)' = S(a)
    <3>1. \A a \in Buffer \ {b} : S(a)' = S(a)
      BY <1>4, CellFacts, FbfStatusIsOther DEF S
    <3> QED
      BY <1>6, <3>1
  <2>2. \A a \in Buffer, l \in Lines : ram'[Line(a, l)] = ram[Line(a, l)]
    BY <1>4, CellFacts
  <2> QED
    BY <1>0, <1>1, <2>1, <2>2, CmaUntouched DEF DmaInv
<1>15. \A a \in Buffer \ {b} : Same(a)
  BY <1>2, <1>4, OtherCells DEF Same, E, D, Cur
<1> QED
  BY <1>8, <1>9, <1>10, <1>11, <1>12, <1>13, <1>14, <1>15, StepOfTask DEF BufferInv

-----------------------------------------------------------------------------
(* The steps of the L2 cache and of the CMA                                *)

\* A line of a buffer is replaced.
LEMMA EvictLine ==
  ASSUME DmaAssumption, DmaInv, NEW b \in Buffer, NEW m \in Lines, Evict(Line(b, m))
  PROVE  DmaInv'
<1> DEFINE c == Line(b, m)
<1>0. TypeOK /\ BufferInv(b) /\ c \in Cells /\ c \in Content(b) /\ Status(b) \in Cells
  BY CellFacts DEF DmaInv
<1>1. /\ UNCHANGED <<use, task, dma>>
      /\ ram' = [d \in Cells |-> IF d \in {c} \cap dirty THEN l2[d] ELSE ram[d]]
      /\ l2' = [d \in Cells |-> IF d \in {c} THEN Absent ELSE l2[d]]
      /\ dirty' = dirty \ {c}
  BY DEF Evict, Synced, Forgotten
<1>2. /\ use' = use /\ pc' = pc /\ n' = n /\ line' = line
      /\ user' = user /\ moved' = moved /\ cma' = cma /\ device' = device
  BY <1>1 DEF dma, task
<1> HIDE DEF c
<1>3. /\ \A d \in Cells : d # c =>
           l2'[d] = l2[d] /\ ram'[d] = ram[d] /\ (d \in dirty' <=> d \in dirty)
      /\ l2'[c] = Absent /\ c \notin dirty'
      /\ ram'[c] = IF c \in dirty THEN l2[c] ELSE ram[c]
  BY <1>0, <1>1 DEF TypeOK
<1>4. /\ \A l \in Lines : l # m => /\ l2'[Line(b, l)] = l2[Line(b, l)]
                                   /\ ram'[Line(b, l)] = ram[Line(b, l)]
                                   /\ Line(b, l) \in dirty' <=> Line(b, l) \in dirty
      /\ l2'[Status(b)] = l2[Status(b)] /\ (Status(b) \in dirty' <=> Status(b) \in dirty)
      /\ \A a \in Buffer : S(a)' = S(a)
      /\ c = Line(b, m)
  BY <1>3, CellFacts DEF S, c
<1>5. /\ E(b)' = E(b) /\ Full(b)' = Full(b) /\ Ready(b)' = Ready(b) /\ Full(b) # Ready(b)
      /\ Nx(b)' = Nx(b) /\ (Working(b)' <=> Working(b)) /\ (Complete(b)' <=> Complete(b))
  BY <1>2, <1>4 DEF E, D, Cur, Full, Ready, Nx, Given, Working, Complete
<1>6. TypeOK'
  <2>1. \A d \in dirty : d \in Cells /\ l2[d] \in Number
    BY <1>0 DEF TypeOK
  <2>2. ram' \in [Cells -> Number] /\ l2' \in [Cells -> Number \cup {Absent}]
    BY <1>0, <1>1, <2>1 DEF TypeOK
  <2>3. dirty' \subseteq {d \in Cells : l2'[d] # Absent}
    BY <1>0, <1>1, <1>3 DEF TypeOK
  <2> QED
    BY <1>0, <1>2, <2>2, <2>3 DEF TypeOK
<1>7. PlaceInv(b)' /\ StatusInv(b)'
  BY <1>0, <1>2, <1>4, <1>5 DEF BufferInv, PlaceInv, StatusInv
<1>8. TurnInv(b)'
  BY <1>0, <1>2, <1>4, <1>5 DEF BufferInv, TurnInv
<1>9. RxInv(b)'
  <2>1. use = "rx" => c \notin dirty /\ ram'[c] = ram[c]
    BY <1>0, <1>3, <1>4 DEF BufferInv, RxInv
  <2> QED
    BY <1>0, <1>2, <1>3, <1>4, <1>5, <2>1 DEF BufferInv, RxInv
<1>10. TxInv(b)'
  <2> SUFFICES ASSUME use # "rx", NEW l \in Lines
               PROVE  /\ Line(b, l) \in dirty' => Working(b) /\ pc[b] # "status"
                      /\ pc[b] = "copy" /\ l < line[b] => Written(b, l)'
                      /\ Complete(b) => Written(b, l)'
                      /\ S(b) = Full(b) => ram'[Line(b, l)] = E(b)
    BY <1>2, <1>4, <1>5 DEF TxInv
  <2>1. /\ Line(b, l) \in dirty => Working(b) /\ pc[b] # "status"
        /\ pc[b] = "copy" /\ l < line[b] => Written(b, l)
        /\ Complete(b) => Written(b, l)
        /\ S(b) = Full(b) => ram[Line(b, l)] = E(b)
    BY <1>0 DEF BufferInv, TxInv
  <2>2. Written(b, l) => Written(b, l)'
    BY <1>2, <1>3, <1>4 DEF Written
  <2>3. S(b) = Full(b) => ~Working(b)
    BY <1>0, <1>5 DEF BufferInv, StatusInv
  <2>4. S(b) = Full(b) => ram'[Line(b, l)] = ram[Line(b, l)]
    BY <1>3, <1>4, <2>1, <2>3
  <2>5. Line(b, l) \in dirty' => Line(b, l) \in dirty
    BY <1>1
  <2> QED
    BY <2>1, <2>2, <2>4, <2>5
<1>11. CmaInv'
  <2>1. use = "rx" => \A a \in Buffer, l \in Lines : ram'[Line(a, l)] = ram[Line(a, l)]
    <3>1. use = "rx" => c \notin dirty
      BY <1>0, <1>4 DEF BufferInv, RxInv
    <3> QED
      BY <1>3, <3>1, CellFacts
  <2> QED
    BY <1>0, <1>1, <1>4, <2>1, CmaUntouched DEF DmaInv
<1>12. \A a \in Buffer \ {b} : Same(a)
  BY <1>0, <1>2, <1>3, OtherCells DEF Same, E, D, Cur
<1> QED
  BY <1>6, <1>7, <1>8, <1>9, <1>10, <1>11, <1>12, StepOfTask DEF BufferInv

\* A status word is replaced: the one of a buffer may give it to the CMA.
LEMMA EvictStatus ==
  ASSUME DmaAssumption, DmaInv, NEW b \in Buffer, Evict(Status(b))
  PROVE  DmaInv'
<1>0. TypeOK /\ BufferInv(b) /\ Status(b) \in Cells
  BY CellFacts DEF DmaInv
<1>1. /\ UNCHANGED <<use, task, dma>>
      /\ ram' = [d \in Cells |-> IF d \in {Status(b)} \cap dirty THEN l2[d] ELSE ram[d]]
      /\ l2' = [d \in Cells |-> IF d \in {Status(b)} THEN Absent ELSE l2[d]]
      /\ dirty' = dirty \ {Status(b)}
  BY DEF Evict, Synced, Forgotten
<1>2. /\ use' = use /\ pc' = pc /\ n' = n /\ line' = line
      /\ user' = user /\ moved' = moved /\ cma' = cma /\ device' = device
  BY <1>1 DEF dma, task
<1>3. /\ \A d \in Cells : d # Status(b) =>
           l2'[d] = l2[d] /\ ram'[d] = ram[d] /\ (d \in dirty' <=> d \in dirty)
      /\ Status(b) \notin dirty'
  BY <1>0, <1>1 DEF TypeOK
<1>4. \A a \in Buffer, l \in Lines :
        l2'[Line(a, l)] = l2[Line(a, l)] /\ ram'[Line(a, l)] = ram[Line(a, l)]
        /\ (Line(a, l) \in dirty' <=> Line(a, l) \in dirty)
  BY <1>3, CellFacts
<1>5. /\ E(b)' = E(b) /\ Full(b)' = Full(b) /\ Ready(b)' = Ready(b) /\ Full(b) # Ready(b)
      /\ (Working(b)' <=> Working(b)) /\ (Complete(b)' => Complete(b))
      /\ Full(b) \in {0, 1} /\ Ready(b) \in {0, 1}
  BY <1>2, <1>3 DEF E, D, Cur, Full, Ready, Working, Complete
<1>6. /\ Status(b) \in dirty => /\ S(b)' = Full(b) /\ S(b) = Ready(b) /\ ~Working(b)
                                /\ pc[b] \in {"fbf", "return"} /\ Complete(b)
                                /\ Nx(b) = n[b] /\ Nx(b)' = Plus(n[b], N)
      /\ Status(b) \notin dirty => S(b)' = S(b) /\ Nx(b)' = Nx(b)
  BY <1>0, <1>1, <1>2, <1>3 DEF S, BufferInv, StatusInv, Working, Complete, Nx, Given
<1>7. TypeOK'
  <2>1. \A d \in dirty : d \in Cells /\ l2[d] \in Number
    BY <1>0 DEF TypeOK
  <2>2. ram' \in [Cells -> Number] /\ l2' \in [Cells -> Number \cup {Absent}]
    BY <1>0, <1>1, <2>1 DEF TypeOK
  <2>3. dirty' \subseteq {d \in Cells : l2'[d] # Absent}
    BY <1>0, <1>1, <1>3 DEF TypeOK
  <2> QED
    BY <1>0, <1>2, <2>2, <2>3 DEF TypeOK
<1>8. PlaceInv(b)' /\ StatusInv(b)'
  BY <1>0, <1>2, <1>3, <1>5, <1>6 DEF BufferInv, PlaceInv, StatusInv
<1>9. TurnInv(b)'
  BY <1>0, <1>2, <1>5, <1>6 DEF BufferInv, TurnInv
<1>10. RxInv(b)'
  BY <1>0, <1>2, <1>4, <1>5, <1>6 DEF BufferInv, RxInv
<1>11. TxInv(b)'
  <2> SUFFICES ASSUME use # "rx", NEW l \in Lines
               PROVE  /\ Line(b, l) \in dirty => Working(b) /\ pc[b] # "status"
                      /\ pc[b] = "copy" /\ l < line[b] => Written(b, l)
                      /\ Complete(b) => Written(b, l)
                      /\ S(b)' = Full(b) => ram[Line(b, l)] = E(b)
    BY <1>2, <1>4, <1>5 DEF TxInv, Written
  <2>1. /\ Line(b, l) \in dirty => Working(b) /\ pc[b] # "status"
        /\ pc[b] = "copy" /\ l < line[b] => Written(b, l)
        /\ Complete(b) => Written(b, l)
        /\ S(b) = Full(b) => ram[Line(b, l)] = E(b)
    BY <1>0 DEF BufferInv, TxInv
  <2>2. CASE Status(b) \in dirty
    <3>1. n[b] = E(b)
      BY <1>0, <1>5, <1>6, <2>2 DEF BufferInv, TurnInv
    <3>2. ram[Line(b, l)] = n[b]
      BY <1>6, <2>1, <2>2 DEF Written
    <3> QED
      BY <2>1, <3>1, <3>2
  <2>3. CASE Status(b) \notin dirty
    BY <1>6, <2>1, <2>3
  <2> QED
    BY <2>2, <2>3
<1>12. CmaInv'
  <2>1. \A a \in Buffer : S(a) = Full(a) => S(a)' = S(a)
    BY <1>3, <1>5, <1>6, CellFacts DEF S
  <2> QED
    BY <1>0, <1>1, <1>4, <2>1, CmaUntouched DEF DmaInv
<1>13. \A a \in Buffer \ {b} : Same(a)
  BY <1>2, <1>3, OtherCells DEF Same, E, D, Cur
<1> QED
  BY <1>7, <1>8, <1>9, <1>10, <1>11, <1>12, <1>13, StepOfTask DEF BufferInv

LEMMA EvictFbfStatus ==
  ASSUME DmaAssumption, DmaInv, Evict(FbfStatus)
  PROVE  DmaInv'
<1>0. TypeOK /\ FbfStatus \in Cells
  BY CellFacts DEF DmaInv
<1>1. /\ UNCHANGED <<use, task, dma>>
      /\ ram' = [d \in Cells |-> IF d \in {FbfStatus} \cap dirty THEN l2[d] ELSE ram[d]]
      /\ l2' = [d \in Cells |-> IF d \in {FbfStatus} THEN Absent ELSE l2[d]]
      /\ dirty' = dirty \ {FbfStatus}
  BY DEF Evict, Synced, Forgotten
<1>2. /\ use' = use /\ pc' = pc /\ n' = n /\ line' = line
      /\ user' = user /\ moved' = moved /\ cma' = cma /\ device' = device
  BY <1>1 DEF dma, task
<1>3. \A d \in Cells : d # FbfStatus =>
        l2'[d] = l2[d] /\ ram'[d] = ram[d] /\ (d \in dirty' <=> d \in dirty)
  BY <1>0, <1>1 DEF TypeOK
<1>4. \A b \in Buffer : S(b)' = S(b) /\ \A l \in Lines : ram'[Line(b, l)] = ram[Line(b, l)]
  BY <1>3, CellFacts, FbfStatusIsOther DEF S
<1>5. TypeOK'
  <2>1. \A d \in dirty : d \in Cells /\ l2[d] \in Number
    BY <1>0 DEF TypeOK
  <2>2. ram' \in [Cells -> Number] /\ l2' \in [Cells -> Number \cup {Absent}]
    BY <1>0, <1>1, <2>1 DEF TypeOK
  <2>3. dirty' \subseteq {d \in Cells : l2'[d] # Absent}
    BY <1>0, <1>1, <1>3 DEF TypeOK
  <2> QED
    BY <1>0, <1>2, <2>2, <2>3 DEF TypeOK
<1>6. CmaInv'
  BY <1>0, <1>1, <1>4, CmaUntouched DEF DmaInv
<1>7. \A a \in Buffer : Same(a)
  <2>1. \A a \in Buffer : \A c \in Content(a) \cup {Status(a)} : c \in Cells /\ c # FbfStatus
    BY CellFacts, FbfStatusIsOther
  <2> QED
    BY <1>2, <1>3, <2>1 DEF Same, E, D, Cur
<1> QED
  BY <1>5, <1>6, <1>7, Untouched DEF DmaInv

LEMMA EvictStep ==
  ASSUME DmaAssumption, DmaInv, NEW c \in Cells, Evict(c)
  PROVE  DmaInv'
<1>1. \/ c = FbfStatus
      \/ \E b \in Buffer : c = Status(b)
      \/ \E b \in Buffer, l \in Lines : c = Line(b, l)
  <2>1. \/ c = FbfStatus
        \/ \E b \in Buffer : c \in Content(b) \cup {Status(b)}
    BY DEF Cells
  <2> QED
    BY <2>1 DEF Content, Line
<1> QED
  BY <1>1, EvictLine, EvictStatus, EvictFbfStatus

LEMMA CmaPollStep ==
  ASSUME DmaAssumption, DmaInv, CmaPoll
  PROVE  DmaInv'
<1>0. TypeOK
  BY DEF DmaInv
<1>1. /\ S(Cur) = Full(Cur) /\ cma' = 1
      /\ UNCHANGED <<use, memory, task, moved, device>>
  BY DEF CmaPoll, S, Cur
<1>2. /\ use' = use /\ ram' = ram /\ l2' = l2 /\ dirty' = dirty /\ pc' = pc /\ n' = n
      /\ line' = line /\ user' = user /\ moved' = moved /\ device' = device
  BY <1>1 DEF memory, task
<1>3. TypeOK'
  <2>1. cma' \in 0 .. NbLines + 1
    BY <1>1, NumberFacts
  <2> QED
    BY <1>0, <1>2, <2>1 DEF TypeOK
<1>4. \A a \in Buffer : Same(a)
  BY <1>2 DEF Same, E, D, Cur
<1>5. CmaInv'
  <2>1. \A l \in Lines : ~(l < 1)
    BY DEF Lines
  <2> QED
    BY <1>1, <1>2, <2>1 DEF CmaInv, S, Cur, Full
<1> QED
  BY <1>3, <1>4, <1>5, Untouched DEF DmaInv

LEMMA CmaMoveStep ==
  ASSUME DmaAssumption, DmaInv, CmaMove
  PROVE  DmaInv'
<1>0. /\ TypeOK /\ Cur \in Buffer /\ moved \in Number /\ NbLines \in Nat \ {0}
  BY NumberFacts DEF DmaInv, TypeOK, Cur
<1>1. PICK b \in Buffer : b = Cur
  BY <1>0
<1> DEFINE c == Line(b, cma)
<1>2. /\ cma \in Lines /\ cma' = cma + 1
      /\ UNCHANGED <<use, l2, dirty, task, moved>>
      /\ use = "rx" => ram' = [ram EXCEPT ![c] = moved] /\ device' = device
      /\ use # "rx" => device' = [device EXCEPT ![cma] = ram[c]] /\ ram' = ram
  BY <1>1 DEF CmaMove, Cur, Line
<1>3. /\ use' = use /\ l2' = l2 /\ dirty' = dirty /\ pc' = pc /\ n' = n
      /\ line' = line /\ user' = user /\ moved' = moved
  BY <1>2 DEF task
<1>4. /\ c \in Content(b) /\ c \in Cells /\ cma \in Nat /\ cma # 0 /\ cma <= NbLines
      /\ BufferInv(b)
  BY <1>0, <1>1, <1>2, CellFacts DEF Lines, DmaInv
<1>5. /\ \A d \in Cells : d # c => ram'[d] = ram[d]
      /\ use = "rx" => ram'[c] = moved
      /\ use # "rx" => ram' = ram
  BY <1>0, <1>2, <1>4 DEF TypeOK
<1>6. \A a \in Buffer : S(a)' = S(a)
  BY <1>2, <1>5, CellFacts DEF S
<1>7. S(b) = Full(b) /\ Full(b) # Ready(b)
  BY <1>1, <1>2, <1>4 DEF DmaInv, CmaInv, Full, Ready
<1>8. E(b)' = E(b) /\ E(b) = moved
  BY <1>0, <1>1, <1>3, NumberFacts DEF E, D, Cur, Buffer
<1>9. TypeOK'
  <2>1. cma' \in 0 .. NbLines + 1
    BY <1>0, <1>2, <1>4
  <2>2. ram' \in [Cells -> Number]
    BY <1>0, <1>2 DEF TypeOK
  <2>3. device' \in [Lines -> Number]
    BY <1>0, <1>2, <1>4 DEF TypeOK
  <2> QED
    BY <1>0, <1>3, <2>1, <2>2, <2>3 DEF TypeOK
<1>10. \A a \in Buffer : BufferInv(a)'
  <2>1. \A a \in Buffer \ {b} : Same(a)
    BY <1>3, <1>4, <1>5, OtherCells DEF Same, E, D, Cur
  <2>2. CASE use # "rx"
    <3>1. Same(b)
      BY <1>3, <1>5, <1>8, <2>2 DEF Same
    <3> QED
      BY <2>1, <3>1, Untouched DEF DmaInv
  <2>3. CASE use = "rx"
    <3>1. /\ Full(b)' = Full(b) /\ Ready(b)' = Ready(b) /\ Nx(b)' = Nx(b) /\ S(b)' = S(b)
          /\ Working(b)' <=> Working(b)
      BY <1>3, <1>6 DEF Full, Ready, Nx, Given, Working
    <3>2. PlaceInv(b)' /\ StatusInv(b)'
      BY <1>3, <1>4, <3>1 DEF BufferInv, PlaceInv, StatusInv
    <3>3. TurnInv(b)'
      BY <1>3, <1>4, <1>8, <3>1 DEF BufferInv, TurnInv
    <3>4. RxInv(b)'
      BY <1>3, <1>4, <1>7, <3>1 DEF BufferInv, RxInv
    <3>5. TxInv(b)'
      BY <1>3, <2>3 DEF TxInv
    <3> QED
      BY <2>1, <3>2, <3>3, <3>4, <3>5, Untouched DEF DmaInv, BufferInv
  <2> QED
    BY <2>2, <2>3
<1>11. CmaInv'
  <2> SUFFICES ASSUME NEW l \in Lines, l < cma'
               PROVE  /\ use = "rx" => ram'[Line(b, l)] = moved
                      /\ use # "rx" => device'[l] = moved
    <3>1. Cur' = b /\ S(b)' = S(b) /\ Full(b)' = Full(b)
      BY <1>1, <1>3, <1>6 DEF Cur, Full
    <3> QED
      BY <1>3, <1>7, <3>1 DEF CmaInv, S
  <2>1. CASE l = cma
    <3>1. use # "rx" => ram[c] = moved
      BY <1>2, <1>4, <1>7, <1>8 DEF BufferInv, TxInv
    <3> QED
      BY <1>0, <1>2, <1>5, <2>1, <3>1 DEF TypeOK
  <2>2. CASE l # cma
    <3>1. l < cma
      BY <1>2, <1>4, <2>2 DEF Lines
    <3>2. Line(b, l) \in Cells /\ Line(b, l) # c
      BY <1>2, <2>2, CellFacts
    <3>3. IF use = "rx" THEN ram[Line(b, l)] = moved ELSE device[l] = moved
      BY <1>1, <1>4, <3>1 DEF DmaInv, CmaInv
    <3> QED
      BY <1>0, <1>2, <1>5, <2>2, <3>2, <3>3 DEF TypeOK
  <2> QED
    BY <2>1, <2>2
<1> QED
  BY <1>9, <1>10, <1>11 DEF DmaInv

LEMMA CmaDoneStep ==
  ASSUME DmaAssumption, DmaInv, CmaDone
  PROVE  DmaInv'
<1>0. /\ TypeOK /\ Cur \in Buffer /\ moved \in Number /\ NbLines \in Nat \ {0}
  BY NumberFacts DEF DmaInv, TypeOK, Cur
<1>1. PICK b \in Buffer : b = Cur
  BY <1>0
<1>2. /\ cma = NbLines + 1 /\ cma' = 0 /\ moved' = (moved + 1) % Numbers
      /\ UNCHANGED <<use, l2, dirty, task, device>>
      /\ ram' = [ram EXCEPT ![Status(b)] = Ready(b),
                            ![FbfStatus] = IF use = "fbf" THEN 1 ELSE @]
  BY <1>1 DEF CmaDone, Cur
<1>3. /\ use' = use /\ l2' = l2 /\ dirty' = dirty /\ pc' = pc /\ n' = n
      /\ line' = line /\ user' = user /\ device' = device
  BY <1>2 DEF task
<1>4. /\ \A c \in Cells : c # Status(b) /\ c # FbfStatus => ram'[c] = ram[c]
      /\ ram'[Status(b)] = Ready(b)
  BY <1>0, <1>2, CellFacts, FbfStatusIsOther DEF TypeOK
<1>5. /\ \A a \in Buffer, l \in Lines : ram'[Line(a, l)] = ram[Line(a, l)]
      /\ \A a \in Buffer \ {b} : S(a)' = S(a)
  BY <1>4, CellFacts, FbfStatusIsOther DEF S
<1>6. /\ BufferInv(b) /\ S(b) = Full(b) /\ Full(b) # Ready(b)
      /\ Ready(b) \in {0, 1} /\ S(b)' = Ready(b)
  BY <1>0, <1>1, <1>2, <1>4 DEF DmaInv, CmaInv, Full, Ready, S
<1>7. moved' \in Number /\ E(b) = moved /\ E(b)' = Plus(E(b), N)
  BY <1>0, <1>1, <1>2, TurnStep
<1>8. \A a \in Buffer \ {b} : E(a)' = E(a)
  <2> TAKE a \in Buffer \ {b}
  <2> QED
    BY <1>0, <1>1, <1>2, TurnStep
<1>9. TypeOK'
  <2>1. 1 \in Number /\ Ready(b) \in Number
    BY <1>6, NumberFacts
  <2>2. ram' \in [Cells -> Number]
    BY <1>0, <1>2, <2>1 DEF TypeOK
  <2>3. cma' \in 0 .. NbLines + 1
    BY <1>0, <1>2
  <2> QED
    BY <1>0, <1>3, <1>7, <2>2, <2>3 DEF TypeOK
<1>10. \A a \in Buffer \ {b} : BufferInv(a)'
  <2>1. \A a \in Buffer \ {b} : Same(a)
    BY <1>3, <1>4, <1>8, OtherCells DEF Same
  <2> QED
    BY <2>1, Untouched DEF DmaInv
<1>11. BufferInv(b)'
  <2>1. /\ Full(b)' = Full(b) /\ Ready(b)' = Ready(b) /\ Nx(b)' = Nx(b)
        /\ ~Working(b) /\ Status(b) \notin dirty
        /\ (Working(b)' <=> Working(b)) /\ ~Complete(b)'
    BY <1>3, <1>6 DEF Full, Ready, Nx, Given, Working, Complete, BufferInv, StatusInv
  <2>2. PlaceInv(b)' /\ StatusInv(b)'
    BY <1>3, <1>6, <2>1 DEF BufferInv, PlaceInv, StatusInv
  <2>3. TurnInv(b)'
    BY <1>3, <1>6, <1>7, <2>1 DEF BufferInv, TurnInv
  <2>4. RxInv(b)'
    <3>1. use = "rx" => Nx(b) = moved
      BY <1>6, <1>7 DEF BufferInv, TurnInv
    <3>2. \A l \in Lines : l < NbLines + 1
      BY <1>0 DEF Lines
    <3>3. use = "rx" => \A l \in Lines : ram[Line(b, l)] = moved
      BY <1>0, <1>1, <1>2, <3>2 DEF DmaInv, CmaInv
    <3>4. pc[b] # "copy" /\ pc[b] # "status"
      BY <2>1 DEF Working
    <3> QED
      BY <1>3, <1>5, <1>6, <2>1, <3>1, <3>3, <3>4 DEF BufferInv, RxInv
  <2>5. TxInv(b)'
    <3>1. pc[b] # "copy"
      BY <2>1 DEF Working
    <3> QED
      BY <1>3, <1>5, <1>6, <2>1, <3>1 DEF BufferInv, TxInv
  <2> QED
    BY <2>2, <2>3, <2>4, <2>5 DEF BufferInv
<1>12. CmaInv'
  BY <1>2 DEF CmaInv
<1> QED
  BY <1>9, <1>10, <1>11, <1>12 DEF DmaInv

-----------------------------------------------------------------------------
(* The theorem                                                             *)

\* No buffer is given to the CMA at first, if they are for the frame buffer or to be
\* sent; all are if they are to be received.
LEMMA DmaStarts ==
  ASSUME DmaAssumption, Init
  PROVE  DmaInv
<1>1. /\ use \in {"rx", "tx", "fbf"} /\ ram = [c \in Cells |-> 0]
      /\ l2 = [c \in Cells |-> Absent] /\ dirty = {} /\ pc = [b \in Buffer |-> "idle"]
      /\ n = [b \in Buffer |-> b] /\ line = [b \in Buffer |-> 1]
      /\ user = [b \in Buffer |-> [l \in Lines |-> 0]] /\ moved = 0 /\ cma = 0
      /\ device = [l \in Lines |-> 0]
  BY DEF Init
<1>2. /\ N \in Nat \ {0} /\ Numbers \in Nat /\ N <= Numbers /\ Number = 0 .. Numbers - 1
      /\ Numbers >= 2 /\ NbLines \in Nat \ {0} /\ 0 \in Number /\ 1 \in Lines
      /\ Buffer = 0 .. N - 1 /\ Buffer \subseteq Number
  BY NumberFacts DEF Lines, Buffer
<1>3. TypeOK
  BY <1>1, <1>2 DEF TypeOK
<1>4. CmaInv
  BY <1>1 DEF CmaInv
<1>5. ASSUME NEW b \in Buffer
      PROVE  BufferInv(b)
  <2>1. /\ pc[b] = "idle" /\ n[b] = b /\ line[b] = 1 /\ S(b) = 0
        /\ \A l \in Lines : ram[Line(b, l)] = 0
    BY <1>1, <1>5, CellFacts DEF S
  <2>2. ~Working(b) /\ ~Complete(b) /\ Nx(b) = b
    BY <2>1 DEF Working, Complete, Nx, Given
  <2>3. Cur = 0 /\ D(b) = b /\ E(b) = b
    BY <1>1, <1>2, <1>5 DEF E, D, Cur, Plus
  <2>4. PlaceInv(b) /\ StatusInv(b)
    BY <1>1, <2>1, <2>2 DEF PlaceInv, StatusInv
  <2>5. TurnInv(b)
    BY <1>1, <2>1, <2>2, <2>3 DEF TurnInv, Full
  <2>6. RxInv(b)
    BY <1>1, <2>1, <2>2 DEF RxInv, Full, Ready
  <2>7. TxInv(b)
    BY <1>1, <2>1, <2>2, <2>3 DEF TxInv, Full
  <2> QED
    BY <2>4, <2>5, <2>6, <2>7 DEF BufferInv
<1> QED
  BY <1>3, <1>4, <1>5 DEF DmaInv

LEMMA DmaPreserved ==
  ASSUME DmaAssumption, ~Ahead, DmaInv, [Next]_vars
  PROVE  DmaInv'
<1>1. ASSUME NEW b \in Buffer, Step(b)
      PROVE  DmaInv'
  BY <1>1, CallStep, PollStep, InvalBufferStep, CopyStep, SyncBufferStep, WriteStatusStep,
     WriteFbfStatusStep, ReturnStep DEF Step
<1>2. ASSUME NEW c \in Cells, Evict(c)
      PROVE  DmaInv'
  BY <1>2, EvictStep
<1>3. CASE Cma
  BY <1>3, CmaPollStep, CmaMoveStep, CmaDoneStep DEF Cma
<1>4. CASE UNCHANGED vars
  <2>1. /\ use' = use /\ ram' = ram /\ l2' = l2 /\ dirty' = dirty /\ pc' = pc /\ n' = n
        /\ line' = line /\ user' = user /\ moved' = moved /\ cma' = cma /\ device' = device
    BY <1>4 DEF vars, memory, task, dma
  <2>2. \A a \in Buffer : Same(a)
    BY <2>1 DEF Same, E, D, Cur
  <2>3. TypeOK'
    BY <2>1 DEF DmaInv, TypeOK
  <2>4. CmaInv'
    BY <2>1 DEF DmaInv, CmaInv, S, Cur, Full
  <2> QED
    BY <2>2, <2>3, <2>4, Untouched DEF DmaInv
<1> QED
  BY <1>1, <1>2, <1>3, <1>4 DEF Next

LEMMA DmaSound ==
  ASSUME DmaAssumption, DmaInv
  PROVE  TypeOK /\ MovedInOrder
<1>1. TypeOK
  BY DEF DmaInv
<1>2. \A b \in Buffer : use = "rx" /\ pc[b] = "status" => \A l \in Lines : user[b][l] = n[b]
  BY DEF DmaInv, BufferInv, RxInv
<1>3. use # "rx" /\ cma = NbLines + 1 => \A l \in Lines : device[l] = moved
  <2>1. NbLines \in Nat /\ NbLines + 1 # 0 /\ \A l \in Lines : l < NbLines + 1
    BY NumberFacts DEF Lines
  <2> QED
    BY <2>1 DEF DmaInv, CmaInv
<1> QED
  BY <1>1, <1>2, <1>3 DEF MovedInOrder

\* For every number of buffers, of lines and of contents: what the CMA moves between
\* the buffers and the device is whole and in order, whatever lines the cache keeps or
\* writes back (_sys_nic_move, _sys_fbf_cma_display), as long as no image is written
\* over one that is still to be displayed.
THEOREM BuffersMoveInOrder ==
  ASSUME DmaAssumption, ~Ahead
  PROVE  Spec => [](TypeOK /\ MovedInOrder)
<1>1. Init => DmaInv
  BY DmaStarts
<1>2. DmaInv /\ [Next]_vars => DmaInv'
  BY DmaPreserved
<1>3. DmaInv => TypeOK /\ MovedInOrder
  BY DmaSound
<1> QED
  BY <1>1, <1>2, <1>3, PTL DEF Spec
=============================================================================
