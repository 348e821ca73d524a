-------------------------------- MODULE Convol --------------------------------
(***************************************************************************)
(* The application convol (applications/convol/main.c): a horizontal, then *)
(* a vertical filter on an image of NL lines of NP pixels, distributed in  *)
(* one part of each buffer per cluster. The result of the first filter is  *)
(* stored by columns, in the cluster of the column, so that both filters   *)
(* read what is near; A is the image, B and C the results of the filters,  *)
(* D what the first one takes away, Z the final image.                     *)
(*                                                                         *)
(* A buffer is cut into lines (A, D, Z) or pixels (B, C). Prints, and the  *)
(* dates of the instrumentation, are left out.                             *)
(***************************************************************************)
EXTENDS SpmdSteps, FiniteSetsExt

\* The place of an absolute line, or column, in the buffers: cluster and index.
Place(i, per_cluster) == <<i \div per_cluster, i % per_cluster>>
InLine(buf, place) == <<buf, place[1], place[2]>>
Pixel(buf, place, i) == <<buf, place[1], place[2], i>>

Heap(c) == <<"heap", c>>
Pointers(c) == <<"G", c>>               \* GA[c], GB[c], GC[c], GD[c], GZ[c]
Counters(step, c, lpid) == <<step, "counters", c, lpid>>

FirstTask(t, steps, otherwise) == IF t = 0 THEN steps ELSE otherwise

\* task[0,0,0] initialises the heaps and the barrier, the tasks lpid = 0 allocate the
\* buffers of their cluster; then everybody copies the pointers.
Prepare(nclusters, nprocs, t) ==
  LET heaps == {Heap(c) : c \in 0 .. nclusters - 1}
      c == t \div nprocs
  IN FirstTask(t, Run({}, heaps) \o Run(heaps, {Barrier("barrier")})
                    \o Raise("barrier_init_ok"), Await("barrier_init_ok"))
     \o Only(t % nprocs = 0, Run({Heap(c)}, {Pointers(c)}))
CopyPointers(nclusters) == Run({Pointers(d) : d \in 0 .. nclusters - 1}, {})

\* Faulty variant: the pointers are copied before they are known to be there.
AllocateUnsynchronised(nclusters, nprocs, t) ==
  Prepare(nclusters, nprocs, t) \o CopyPointers(nclusters)

Allocate(nclusters, nprocs, t) ==
  Prepare(nclusters, nprocs, t) \o Wait("barrier", nclusters * nprocs)
  \o CopyPointers(nclusters)

\* task[0,0,0] loads the image in all the clusters.
LoadImage(NL, nclusters, t) ==
  LET lines == {InLine("A", Place(l, NL \div nclusters)) : l \in 0 .. NL - 1}
  IN FirstTask(t, Run({}, lines) \o Raise("load_image_ok"), Await("load_image_ok"))

\* Both filters and the display, each for the lines or columns of a task.
Horizontal(NL, NP, nclusters, nprocs, t) ==
  LET lines == Interval(t * (NL \div (nclusters * nprocs)), NL \div (nclusters * nprocs))
      At(l) == Place(l, NL \div nclusters)
  IN Run({InLine("A", At(l)) : l \in lines},
         {Pixel("B", Place(p, NP \div nclusters), l) : p \in 0 .. NP - 1, l \in lines}
           \cup {InLine("D", At(l)) : l \in lines}
           \cup {Counters("H", t \div nprocs, t % nprocs)})
Vertical(NL, NP, nclusters, nprocs, t) ==
  LET columns == Interval(t * (NP \div (nclusters * nprocs)), NP \div (nclusters * nprocs))
  IN Run({Pixel("B", Place(p, NP \div nclusters), l) : p \in columns, l \in 0 .. NL - 1},
         {Pixel("C", Place(l, NL \div nclusters), p) : p \in columns, l \in 0 .. NL - 1}
           \cup {Counters("V", t \div nprocs, t % nprocs)})

\* The task computes and displays lines of its own cluster: each with its place in the
\* frame buffer.
FinalLines(NL, nclusters, nprocs, t) ==
  LET lines_per_task == NL \div (nclusters * nprocs)
  IN {[place |-> <<t \div nprocs, lines_per_task * (t % nprocs) + l>>,
       screen |-> l + t * lines_per_task] : l \in Interval(0, lines_per_task)}
Display(NL, NP, nclusters, nprocs, t) ==
  LET lines == FinalLines(NL, nclusters, nprocs, t)
  IN Run({InLine("D", f.place) : f \in lines}
           \cup {Pixel("C", f.place, p) : f \in lines, p \in 0 .. NP - 1},
         {InLine("Z", f.place) : f \in lines} \cup {<<"frame buffer", f.screen>> : f \in lines}
           \cup {Counters("D", t \div nprocs, t % nprocs)})

Instrumentation(nclusters, nprocs, t) ==
  FirstTask(t, Run({Counters(s, c, l) : s \in {"H", "V", "D"}, c \in 0 .. nclusters - 1,
                                        l \in 0 .. nprocs - 1}, {})
                 \o Raise("instrumentation_ok"), Await("instrumentation_ok"))

main(NL, NP, nclusters, nprocs, t) ==
  LET Sync == Wait("barrier", nclusters * nprocs)
  IN Allocate(nclusters, nprocs, t)
     \o LoadImage(NL, nclusters, t)
     \o Horizontal(NL, NP, nclusters, nprocs, t) \o Sync
     \o Vertical(NL, NP, nclusters, nprocs, t) \o Sync
     \o Display(NL, NP, nclusters, nprocs, t) \o Sync
     \o Instrumentation(nclusters, nprocs, t)

Program(NL, NP, nclusters, nprocs) ==
  [t \in 0 .. nclusters * nprocs - 1 |-> main(NL, NP, nclusters, nprocs, t)]

-----------------------------------------------------------------------------
(* The values. A line or a column is a function on its positions.          *)

Plus(f, S) == MapThenSumSet(LAMBDA x : f[x], S)

\* sum_p: the window moves by one pixel at a time, in three domains.
HorizontalSum(a, NP, hrange) ==
  LET start == (hrange + 2) * a[0] + Plus(a, 1 .. hrange - 1)
      sum_p[p \in -1 .. NP - 1] ==
        CASE p = -1 -> start
          [] p \in 0 .. hrange -> sum_p[p - 1] + a[p + hrange] - a[0]
          [] p \in hrange + 1 .. NP - hrange - 1 ->
               sum_p[p - 1] + a[p + hrange] - a[p - hrange - 1]
          [] OTHER -> sum_p[p - 1] + a[NP - 1] - a[p - hrange - 1]
  IN [p \in 0 .. NP - 1 |-> sum_p[p]]

\* vf, and the positions where it steps up or down.
vf == << 1, 1, 2, 2, 2, 2, 3, 3, 3, 4, 4, 4, 4, 5, 5, 5, 5, 5, 5, 5, 5, 5, 4, 4, 4,
         4, 3, 3, 3, 2, 2, 2, 2, 1, 1 >>
Entering == {4, 8, 11, 15, 17}
Leaving == {5, 9, 12, 16, 18}

\* sum_l: explicit for the first 18 lines, then from the previous one.
VerticalSum(b, NL) ==
  LET Clamped(l) == IF l < 0 THEN 0 ELSE IF l > NL - 1 THEN NL - 1 ELSE l
      sum_l[l \in 0 .. NL - 1] ==
        IF l < 18
        THEN Plus([z \in 1 .. 35 |-> vf[z] * b[Clamped(l - 18 + z)]], 1 .. 35)
        ELSE sum_l[l - 1] + Plus([d \in Entering |-> b[Clamped(l + d)]], Entering)
                          - Plus([d \in Leaving |-> b[l - d]], Leaving)
  IN sum_l

-----------------------------------------------------------------------------
(* Properties                                                              *)

\* The incremental sums are those of the filters, on a line or column that is extended
\* by its first and its last pixel (comments of the two filters in main). Sums are
\* linear: lines with one pixel that is not zero suffice.
Window(a, n, p, weights, half) ==
  LET At(i) == IF i < 0 THEN 0 ELSE IF i > n - 1 THEN n - 1 ELSE i
  IN Plus([d \in -half .. half |-> weights[d + half + 1] * a[At(p + d)]], -half .. half)
Impulse(n, k) == [i \in 0 .. n - 1 |-> IF i = k THEN 1 ELSE 0]

HorizontalIsExact(NP, hrange, k) ==
  \A p \in 0 .. NP - 1 :
    HorizontalSum(Impulse(NP, k), NP, hrange)[p]
      = Window(Impulse(NP, k), NP, p, [d \in 1 .. 2 * hrange + 1 |-> 1], hrange)
VerticalIsExact(NL, k) ==
  LET sums == VerticalSum(Impulse(NL, k), NL)
  IN \A l \in 0 .. NL - 1 : sums[l] = Window(Impulse(NL, k), NL, l, vf, 17)

\* Each line of the final image is displayed at its own place, once.
DisplaysInPlace(NL, nclusters, nprocs) ==
  LET lines == UNION {FinalLines(NL, nclusters, nprocs, t) :
                        t \in 0 .. nclusters * nprocs - 1}
  IN /\ \A f \in lines : Place(f.screen, NL \div nclusters) = f.place
     /\ {f.screen : f \in lines} = 0 .. NL - 1

=============================================================================
