--------------------------------- MODULE Sort ---------------------------------
(***************************************************************************)
(* The application sort (applications/sort/main.c): each thread sorts its  *)
(* part of array0, then half of the threads merge two neighbouring parts   *)
(* from one array into the other, stage after stage, behind barriers that  *)
(* are made for half as many threads each; the others have quit.           *)
(*                                                                         *)
(* Program gives what the threads do to the shared memory, Result what the *)
(* blocks compute when they are taken in the order of the stages.          *)
(***************************************************************************)
EXTENDS SpmdSteps, SequencesExt

ARRAYS == <<"array0", "array1">>
Pow2(i) == 2 ^ i
\* __builtin_ctz of a power of two
Stages(threads) == CHOOSE s \in 0 .. threads : Pow2(s) = threads

IPT(length, threads) == length \div threads
Cells(array, base, n) == {array} \X Interval(base, n)

\* The barrier of a stage is for the threads that enter the stage; those that do not
\* go on quit behind it.
Waiting(threads, i) == threads \div Pow2(i)
Enters(id, i) == id % Pow2(i) = 0
GoesOn(id, i) == id % Pow2(i + 1) = 0

\* The arguments of merge
Src(i) == ARRAYS[(i % 2) + 1]
Dst(i) == ARRAYS[((i + 1) % 2) + 1]
Length(ipt, i) == ipt * Pow2(i)
PartA(ipt, id) == ipt * id

\* Faulty variant: the second part is that of the next thread, at every stage.
PartBNext(ipt, id, i) == ipt * (id + 1)

PartB(ipt, id, i) == ipt * (id + Pow2(i))

\* What a thread does at a stage.
Stage(length, threads, id, i) ==
  LET ipt == IPT(length, threads)
      reads == Cells(Src(i), PartA(ipt, id), Length(ipt, i))
               \cup Cells(Src(i), PartB(ipt, id, i), Length(ipt, i))
  IN Only(Enters(id, i), Wait(i, Waiting(threads, i)))
     \o Only(GoesOn(id, i), Run(reads, Cells(Dst(i), PartA(ipt, id), 2 * Length(ipt, i))))

\* Initialisation by thread 0; the array, by everybody; the stages; the test of the
\* result by thread 0.
Thread(length, threads, id) ==
  LET ipt == IPT(length, threads)
      stages == Stages(threads)
      barriers == {Barrier(i) : i \in 0 .. stages - 1}
      part == Cells("array0", PartA(ipt, id), ipt)
      StageOf(i) == Stage(length, threads, id, i)
  IN (IF id = 0 THEN Run({}, barriers) \o Raise("init_ok") ELSE Await("init_ok"))
     \o Run({}, part) \o Run(part, part)
     \o Sequence(StageOf, 0, stages - 1)
     \o Only(id = 0, Run(Cells(Dst(stages - 1), 0, length), {}))

Program(length, threads) ==
  [id \in 0 .. threads - 1 |-> Thread(length, threads, id)]

-----------------------------------------------------------------------------
(* The values                                                              *)

\* bubbleSort: its comparisons, in their order.
Exchanged(array, j) ==
  IF array[j] > array[j + 1] THEN [array EXCEPT ![j] = array[j + 1], ![j + 1] = array[j]]
                             ELSE array
bubbleSort(array, length, init_pos) ==
  LET Pass(a, i) ==
        FoldLeft(Exchanged, a, [k \in 1 .. length - i - 1 |-> init_pos + k - 1])
  IN FoldLeft(Pass, array, [k \in 1 .. length |-> k - 1])

\* One turn of the loop of merge, which takes the first of two equal items from the
\* second part.
FromA(array, length, a, b, s) ==
  s.i < length /\ (s.j < length => array[a + s.i] < array[b + s.j])
Merged(array, length, a, b, s) ==
  IF FromA(array, length, a, b, s)
  THEN [s EXCEPT !.result[s.k] = array[a + s.i], !.i = @ + 1, !.k = @ + 1]
  ELSE [s EXCEPT !.result[s.k] = array[b + s.j], !.j = @ + 1, !.k = @ + 1]
merge(array, result, length, a, b, init_pos) ==
  LET Turn(s, n) == Merged(array, length, a, b, s)
  IN FoldLeft(Turn, [result |-> result, i |-> 0, j |-> 0, k |-> init_pos],
              [n \in 1 .. 2 * length |-> n]).result

\* The two arrays after the first sort, and after each stage.
Sorted(array, threads) ==
  LET ipt == IPT(Cardinality(DOMAIN array), threads)
      Part(a, id) == bubbleSort(a, ipt, PartA(ipt, id))
  IN FoldLeft(Part, array, [k \in 1 .. threads |-> k - 1])
After(arrays, threads, i) ==
  LET ipt == IPT(Cardinality(DOMAIN arrays.array0), threads)
      Part(a, id) ==
        [a EXCEPT ![Dst(i)] = merge(a[Src(i)], @, Length(ipt, i), PartA(ipt, id),
                                    PartB(ipt, id, i), PartA(ipt, id))]
  IN FoldLeft(Part, arrays,
              SelectSeq([k \in 1 .. threads |-> k - 1], LAMBDA id : GoesOn(id, i)))
Result(array, threads) ==
  LET Stg(a, i) == After(a, threads, i)
      start == [array0 |-> Sorted(array, threads), array1 |-> array]
  IN FoldLeft(Stg, start, [k \in 1 .. Stages(threads) |-> k - 1])[Dst(Stages(threads) - 1)]

\* The array that thread 0 tests has the items of the initial one in order ("!!!
\* Success !!!").
Sorts(array, threads) ==
  LET result == Result(array, threads)
      Count(a, v) == Cardinality({i \in DOMAIN a : a[i] = v})
  IN /\ \A i \in DOMAIN array : i + 1 \in DOMAIN array => result[i] <= result[i + 1]
     /\ \A i \in DOMAIN array : Count(result, array[i]) = Count(array, array[i])

=============================================================================
