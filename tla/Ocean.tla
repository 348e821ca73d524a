-------------------------------- MODULE Ocean --------------------------------
(***************************************************************************)
(* The application ocean (applications/ocean, from the SPLASH-2 suite): a  *)
(* square ocean is cut into xprocs by yprocs blocks, one per thread. Each  *)
(* array has a part for each thread, with a frame around its points: copies*)
(* of the points of the neighbours, or the border of the ocean.            *)
(*                                                                         *)
(* A cell is a part of an array, at a level of the multigrid solver, for a *)
(* thread: its inner points, the border and the angle of the ocean, or the *)
(* copies (ghost, corner). The two arrays of psi, psim, work1, work4, work5*)
(* and work7, always treated the same way, are one. What is added up under *)
(* a lock is kept as the shares of the threads. Two levels, of seven.      *)
(*                                                                         *)
(* Left out: the times that each barrier adds to sync_time, and lev_tol, in*)
(* which all the threads of a cluster write the same value.                *)
(***************************************************************************)
EXTENDS SpmdSteps

Finest == 1
MASTER == 0

\* The factors of the number of threads, and the neighbours of a thread.
xprocs(nprocs) ==
  CHOOSE j \in 1 .. nprocs : /\ j * j <= nprocs /\ nprocs % j = 0
                             /\ \A k \in j + 1 .. nprocs : k * k <= nprocs => nprocs % k # 0
Row(nprocs, t) == t \div xprocs(nprocs)
Col(nprocs, t) == t % xprocs(nprocs)
Apart(a, b) == IF a < b THEN b - a ELSE a - b
Neighbors(nprocs, t, distance) ==
  {u \in 0 .. nprocs - 1 :
     /\ Apart(Row(nprocs, u), Row(nprocs, t)) <= 1 /\ Apart(Col(nprocs, u), Col(nprocs, t)) <= 1
     /\ Apart(Row(nprocs, u), Row(nprocs, t)) + Apart(Col(nprocs, u), Col(nprocs, t)) = distance}
Sides(nprocs, t) == Neighbors(nprocs, t, 1)
Diagonals(nprocs, t) == Neighbors(nprocs, t, 2)
\* UP, LEFT and UPLEFT
Before(nprocs, t) ==
  {u \in Sides(nprocs, t) \cup Diagonals(nprocs, t) :
     Row(nprocs, u) <= Row(nprocs, t) /\ Col(nprocs, u) <= Col(nprocs, t)}

Part(arrays, k, threads, parts) == arrays \X {k} \X threads \X parts
Frame == {"ghost", "border"}
Everything == {"inner", "border", "angle", "ghost", "corner"}
Own(arrays, t) == Part(arrays, Finest, {t}, {"inner", "border", "angle"})
Inner(arrays, k, t) == Part(arrays, k, {t}, {"inner"})
Q == {"red", "black"}            \* q_multi, by colour
Other(colour) == IF colour = "red" THEN "black" ELSE "red"
Shares(sum, nprocs) == {sum} \X (0 .. nprocs - 1)
Share(sum, t) == {<<sum, t>>}

Sync(nprocs) == Wait("barrier", nprocs)

\* What lies between two barriers is one block; it reads what it has not written.
Block(steps, group) ==
  LET Earlier(i) == UNION {steps[j].writes : j \in {j \in group : j < i}}
  IN [op |-> "run", reads |-> UNION {steps[i].reads \ Earlier(i) : i \in group},
      writes |-> UNION {steps[i].writes : i \in group}]
Merged(steps) ==
  LET isRun(i) == steps[i].op = "run"
      starts == {i \in DOMAIN steps : i = 1 \/ ~isRun(i) \/ ~isRun(i - 1)}
      Start(n) == CHOOSE i \in starts : Cardinality({j \in starts : j <= i}) = n
      Group(i) == {j \in i .. Len(steps) : \A l \in i .. j : isRun(l)}
  IN [n \in 1 .. Cardinality(starts) |->
        IF isRun(Start(n)) THEN Block(steps, Group(Start(n))) ELSE steps[Start(n)]]

-----------------------------------------------------------------------------
(* The copies and the kernels.                                             *)

\* The owned points of some arrays, from those of others.
Assign(to, from, t) == Run(Own(from, t), Own(to, t))

Exchange(arrays, k, nprocs, t) ==
  Run(Part(arrays, k, Sides(nprocs, t), {"inner"}), Part(arrays, k, {t}, {"ghost"}))
\* A corner comes from the diagonal neighbour, or on the border from one at a side.
CopyCorners(arrays, k, nprocs, t) ==
  Run(Part(arrays, k, Diagonals(nprocs, t), {"inner"})
        \cup Part(arrays, k, Sides(nprocs, t), {"border"}),
      Part(arrays, k, {t}, {"corner"}))

laplacalc(x, z, nprocs, t) ==
  Exchange({x}, Finest, nprocs, t)
  \o Run(Part({x}, Finest, {t}, {"inner"} \cup Frame), Part({z}, Finest, {t}, {"inner", "border"}))

\* jacobcalc and jacobcalc2
jacobcalc(x, y, z, nprocs, t) ==
  CopyCorners({x, y}, Finest, nprocs, t) \o Exchange({x, y}, Finest, nprocs, t)
  \o Run(Part({x, y}, Finest, {t}, Everything), Own({z}, t))

-----------------------------------------------------------------------------
(* The multigrid solver.                                                   *)

relax(k, colour, t) ==
  Run(Part({Other(colour)}, k, {t}, {"inner"} \cup Frame) \cup Inner({colour, "rhs"}, k, t),
      Inner({colour}, k, t))

copy_borders(k, nprocs, t) == CopyCorners(Q, k, nprocs, t) \o Exchange(Q, k, nprocs, t)

copy_rhs_borders(k, nprocs, t) ==
  Only(Before(nprocs, t) # {},
       Run(Part({"rhs"}, k, Before(nprocs, t), {"inner"}),
           Part({"rhs"}, k, {t}, {"ghost", "corner"})))

\* The residual at the left and at the top takes the frames of these neighbours.
rescal(kf, nprocs, t) ==
  Run(Part(Q, kf, {t}, {"inner", "corner"} \cup Frame) \cup Inner({"rhs"}, kf, t)
        \cup Part(Q, kf, Before(nprocs, t) \cap Sides(nprocs, t), {"inner", "ghost"})
        \cup (IF Before(nprocs, t) = {} THEN {}
              ELSE Part({"rhs"}, kf, {t}, {"ghost", "corner"})),
      Inner({"rhs"}, kf - 1, t))

\* The last row and column of the borders, which it also clears, were zero.
putz(k, t) == Run({}, Inner(Q, k, t))

intadd(kc, t) ==
  Run(Part(Q, kc, {t}, Everything) \cup Inner(Q, kc + 1, t), Inner(Q, kc + 1, t))

\* Faulty variant: the barrier that the comment of multig asks for is missing.
CoarserAtOnce(k, nprocs, t) ==
  copy_borders(k, nprocs, t) \o copy_rhs_borders(k, nprocs, t)
  \o rescal(k, nprocs, t) \o putz(k - 1, t)

Coarser(k, nprocs, t) ==
  copy_borders(k, nprocs, t) \o copy_rhs_borders(k, nprocs, t)
  \o Sync(nprocs) \o rescal(k, nprocs, t) \o putz(k - 1, t)
Finer(k, nprocs, t) == copy_borders(k, nprocs, t) \o intadd(k, t)

\* One turn of the loop: red, then black points, then the error of all threads.
Sweep(k, nprocs, t) ==
  Only(t = MASTER, Run({}, Shares("err_multi", nprocs)))
  \o Sync(nprocs) \o Exchange({"black"}, k, nprocs, t) \o relax(k, "red", t)
  \o Sync(nprocs) \o Exchange({"red"}, k, nprocs, t) \o relax(k, "black", t)
  \o Run({}, Share("err_multi", t))
  \o Sync(nprocs) \o Run(Shares("err_multi", nprocs), {})
  \o Sync(nprocs)

\* The level after some decisions. All threads read the same error, and decide alike.
LevelAfter(path, i) ==
  Finest - Cardinality({j \in 1 .. i : path[j] = "coarser"})
         + Cardinality({j \in 1 .. i : path[j] = "finer"})
multig(path, nprocs, t) ==
  LET Turn(i) ==
        LET k == LevelAfter(path, i - 1)
        IN Sweep(k, nprocs, t) \o Only(path[i] = "coarser", Coarser(k, nprocs, t))
                               \o Only(path[i] = "finer", Finer(k, nprocs, t))
  IN Sequence(Turn, 1, Len(path))

\* Solve for an array: the right-hand side and the border come from it, the first
\* guess for the inner points from another one, the result goes to both.
Prepare(array, t) ==
  Run(Own({array}, t), Own({"rhs"}, t) \cup Part(Q, Finest, {t}, {"border", "angle"}))
Guess(array, t) == Run(Part({array}, Finest, {t}, {"inner"} \cup Frame), Inner(Q, Finest, t))
Solve(array, old, path, nprocs, t) ==
  Prepare(array, t) \o Run(Inner({old}, Finest, t), Inner(Q, Finest, t))
  \o multig(path, nprocs, t)
  \o Only(array = "ga" /\ t = MASTER, Run({}, Shares("psiai", nprocs)))
  \o Assign({array, old}, Q, t)

-----------------------------------------------------------------------------
(* The threads.                                                            *)

\* The ten phases of a step of time. The angles of a laplacian are set apart.
Angle(z, t) == Run({}, Part({z}, Finest, {t}, {"angle"}))
Clear(t) == Assign({"ga", "gb"}, {}, t)
Vorticity(nprocs, t) == Angle("work1", t) \o laplacalc("psi", "work1", nprocs, t)
Differences(t) == Assign({"work2", "work3", "temparray"}, {"psi"}, t)
\* f belongs to the cluster c.
SecondPhase(nprocs, c, t) ==
  Assign({"psi"}, {"psim"}, t) \o Angle("work7", t) \o laplacalc("psim", "work7", nprocs, t)
  \o Run({<<"f", c>>} \cup Own({"work1"}, t), Own({"work1"}, t))
ThirdPhase(nprocs, t) ==
  jacobcalc("work1", "temparray", "work5", nprocs, t) \o Assign({"psim"}, {"temparray"}, t)
  \o laplacalc("work7", "work4", nprocs, t)
FourthPhase(nprocs, t) ==
  jacobcalc("work2", "work3", "work6", nprocs, t) \o laplacalc("work4", "work7", nprocs, t)
FifthPhase(t) == Assign({"ga", "gb"}, {"work5", "work6", "work7", "tauz"}, t)
SeventhPhase(t) == Run(Own({"ga"}, t), Share("psiai", t))
\* The sums are complete; ga is corrected by them before gb is solved for.
Correct(nprocs, t) ==
  Run(Shares("psiai", nprocs) \cup Shares("psibi", nprocs), {})
  \o Assign({"ga"}, {"ga", "psib"}, t)
NinthPhase(t) == Assign({"work2", "work3"}, {"ga", "gb"}, t)
TenthPhase(t) == Assign({"psi"}, {"psi", "work2", "work3"}, t) \o Run({}, {<<"times", t>>})

slave2(paths, nprocs, c, t) ==
  LET phase(steps) == steps \o Sync(nprocs)
  IN phase(Clear(t) \o Vorticity(nprocs, t) \o Differences(t))
     \o phase(SecondPhase(nprocs, c, t)) \o phase(ThirdPhase(nprocs, t))
     \o phase(FourthPhase(nprocs, t)) \o phase(FifthPhase(t))
     \o phase(Solve("ga", "oldga", paths.ga, nprocs, t)) \o phase(SeventhPhase(t))
     \o phase(Correct(nprocs, t) \o Solve("gb", "oldgb", paths.gb, nprocs, t))
     \o phase(NinthPhase(t)) \o phase(TenthPhase(t))

\* Before the first step: the arrays that start from zero, psib and its sum, the wind.
Clean(c, lpid, t) ==
  Run({<<"lpid", t>>}, Part({"oldga", "oldgb"}, Finest, {t}, Everything))
  \o Only(lpid = MASTER, Run({}, {<<"f", c>>}))
  \o Assign({"psium", "psilm", "psib"}, {}, t)
SolvePsib(path, nprocs, t) ==
  Exchange({"psib"}, Finest, nprocs, t) \o Guess("psib", t)
  \o multig(path, nprocs, t) \o Assign({"psib"}, Q, t)
SumPsib(t) == Run(Own({"psib"}, t), Share("psibi", t))
StartPsi(t) == Assign({"psim", "psi"}, {}, t)
Wind(t) == Assign({"tauz"}, {}, t)
Accumulate(t) ==
  Assign({"psium", "psilm"}, {"psium", "psilm", "psim"}, t) \o Run({}, {<<"times", t>>})

slave(paths, nsteps, nprocs, c, lpid, t) ==
  LET Step(n) == slave2(paths, nprocs, c, t)
  IN Run({<<"ldata", c>>}, {}) \o Sync(nprocs) \o Clean(c, lpid, t)
     \o Sync(nprocs) \o Prepare("psib", t)
     \o Sync(nprocs) \o SolvePsib(paths.psib, nprocs, t)
     \o Sync(nprocs) \o SumPsib(t) \o StartPsi(t) \o Wind(t)
     \o Sync(nprocs) \o Sequence(Step, 1, nsteps) \o Accumulate(t)
     \o Sync(nprocs)

\* The heaps are handed on from cluster to cluster.
Heap(c) == <<"heap", c>>
Heaps(clusters) == {Heap(c) : c \in 0 .. clusters - 1}
Inited(n) == <<"heap_inited", n>>

\* The first task of the application allocates everything in the heaps of all clusters,
\* links the rows, and starts the others. The code does not wait for the heaps to be
\* initialised before it allocates in them, which is right for one cluster; with first, it is
\* supposed that they are. The borders of the coarse level that nobody writes (putz leaves
\* out the first row and column) hold the zeros of a heap that was never used.
AllocateAll(clusters, nprocs) ==
  LET threads == 0 .. nprocs - 1
  IN Run(Heaps(clusters),
         ({"lpid"} \X threads)
           \cup {<<"main">>, <<"gp">>, <<"ldata", 0>>}
           \cup Part(Q, Finest - 1, threads, {"border", "angle"}))
Create(clusters, procs, nprocs, first) ==
  Run({}, {Heap(0)}) \o Raise(Inited(procs))
  \o Only(first, Await(Inited(nprocs)))
  \o AllocateAll(clusters, nprocs) \o Await(Inited(nprocs))
  \o Run(Heaps(clusters) \cup {<<"main">>},
         {Barrier("barrier")} \cup Shares("err_multi", nprocs) \cup Shares("psibi", nprocs))
  \o Raise(<<"run_threads">>)

\* The other tasks, the first of each cluster copies the shared tables.
thread(c, lpid, procs, t) ==
  Only(lpid = 0, Run({}, {Heap(c)}) \o Await(Inited(t)) \o Raise(Inited(t + procs))
                   \o Run({Heap(c)}, {<<"tables", c>>}))
  \o Await(<<"run_threads">>) \o Run({<<"gp">>}, {<<"lpid", t>>})
  \o Only(lpid = 0, Run({<<"main">>, <<"tables", c>>, Heap(c)}, {<<"ldata", c>>}))

Statistics(nprocs) == Run({"times"} \X (0 .. nprocs - 1), {})

\* paths: the decisions of the solver, for each of the three arrays that it solves for.
Program(clusters, procs, paths, nsteps, first) ==
  LET nprocs == clusters * procs
      Thread(t) == LET c == t \div procs
                       lpid == t % procs
                   IN (IF t = 0 THEN Create(clusters, procs, nprocs, first)
                       ELSE thread(c, lpid, procs, t))
                      \o slave(paths, nsteps, nprocs, c, lpid, t)
                      \o Only(t = 0, Statistics(nprocs))
  IN [t \in 0 .. nprocs - 1 |-> Merged(Thread(t))]

-----------------------------------------------------------------------------
(* The points of a block of n by n at a level, and its frame.              *)

\* The points that relax computes, by the parity of their rows and columns.
Points(colour, n) ==
  {p \in (1 .. n) \X (1 .. n) :
     IF colour = "red" THEN (p[1] % 2) = (p[2] % 2) ELSE (p[1] % 2) # (p[2] % 2)}
Stencil(p) == {<<p[1] - 1, p[2]>>, <<p[1] + 1, p[2]>>, <<p[1], p[2] - 1>>, <<p[1], p[2] + 1>>}

\* What copy_red (start = 2) and copy_black (start = 1) copy: from is the point of the
\* neighbour.
Stepping(start, n) == {i \in start .. n : i % 2 = start % 2}
copy_colour(start, n) ==
  {[to |-> <<0, i>>, from |-> <<n, i>>] : i \in Stepping(start, n)}
  \cup {[to |-> <<n + 1, i>>, from |-> <<1, i>>] : i \in Stepping(3 - start, n)}
  \cup {[to |-> <<i, 0>>, from |-> <<i, n>>] : i \in Stepping(start, n)}
  \cup {[to |-> <<i, n + 1>>, from |-> <<i, 1>>] : i \in Stepping(3 - start, n)}

\* Each sweep computes every point once from points of the other colour; those that
\* belong to a neighbour are those that have just been copied, of that colour (relax,
\* copy_red, copy_black).
SweepsAlternate(n) ==
  /\ Points("red", n) \cup Points("black", n) = (1 .. n) \X (1 .. n)
  /\ \A colour \in Q :
       LET read == UNION {Stencil(p) : p \in Points(colour, n)}
           copies == copy_colour(IF colour = "red" THEN 1 ELSE 2, n)
       IN /\ read \cap ((1 .. n) \X (1 .. n)) \subseteq Points(Other(colour), n)
          /\ read \ ((1 .. n) \X (1 .. n)) = {m.to : m \in copies}
          /\ {m.from : m \in copies} \subseteq Points(Other(colour), n)

=============================================================================
