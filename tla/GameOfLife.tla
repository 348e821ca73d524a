------------------------------ MODULE GameOfLife ------------------------------
(***************************************************************************)
(* The application gameoflife (applications/gameoflife/main.c): the world  *)
(* has two copies, each step computes one from the other and copies it to  *)
(* one of two images. One barrier separates two steps; the first task then *)
(* displays the image, and the others go on with the next step.            *)
(*                                                                         *)
(* The DMA has read an image when giet_fbf_cma_display returns, although   *)
(* it only waits for the previous one (see ContainerDma). The heaps are    *)
(* initialised in line cy of the mesh, where cy has no value in the code.  *)
(***************************************************************************)
EXTENDS SpmdSteps, FiniteSetsExt

\* The shared arrays, line by line.
Line(array, phase, y) == <<array, phase, y>>
Lines(array, phase, base, n) == {Line(array, phase, y) : y \in Interval(base, n)}

\* y - 1 in 32 bits, modulo a size
UintMax(size) == (((65536 % size) * (65536 % size)) + size - 1) % size
Before(y, size) == IF y = 0 THEN UintMax(size) ELSE (y - 1) % size
Behind(y, size) == (y + 1) % size

\* The lines that are read for n lines.
ReadLines(height, base, n) ==
  UNION {{Before(y, height), y, Behind(y, height)} : y \in Interval(base, n)}

\* Faulty variant: the new generation is computed in place.
InPlace(height, phase, base, n) ==
  Run({Line("WORLD", phase, y) : y \in ReadLines(height, base, n)},
      Lines("WORLD", phase, base, n))

\* compute_new_gen and copy_world for n lines
compute_new_gen(height, phase, base, n) ==
  Run({Line("WORLD", 1 - phase, y) : y \in ReadLines(height, base, n)},
      Lines("WORLD", phase, base, n))
copy_world(phase, base, n) ==
  Run(Lines("WORLD", phase, base, n), Lines("DISPLAY", phase, base, n))

\* Everybody has written the image; P[0,0,0] displays it.
Display(proc_id, procs, height, phase) ==
  Wait("barrier", procs)
  \o Only(proc_id = 0, Run(Lines("DISPLAY", phase, 0, height), {<<"frame buffer">>}))

\* Half a turn of the main loop.
Evolve(proc_id, procs, height, phase) ==
  LET nb_line == height \div procs
      base_line == nb_line * proc_id
  IN compute_new_gen(height, phase, base_line, nb_line)
     \o copy_world(phase, base_line, nb_line)
     \o Display(proc_id, procs, height, phase)

Heap(x, y) == <<"heap", x, y>>
InitAll(x_size, y_size, cy) ==
  Run({}, {Heap(cx, cy) : cx \in 0 .. x_size - 1})
  \o Run({Heap(cx, y) : cx \in 0 .. x_size - 1, y \in 0 .. y_size - 1}, {Barrier("barrier")})
  \o Raise("init_ok")

main(proc_id, x_size, y_size, nprocs, height, iterations, cy) ==
  LET procs == x_size * y_size * nprocs
      nb_line == height \div procs
      base_line == nb_line * proc_id
      Turn(i) == Evolve(proc_id, procs, height, 1) \o Evolve(proc_id, procs, height, 0)
  IN (IF proc_id = 0 THEN InitAll(x_size, y_size, cy) ELSE Await("init_ok"))
     \o Run({}, Lines("WORLD", 0, base_line, nb_line))
     \o copy_world(0, base_line, nb_line)
     \o Display(proc_id, procs, height, 0)
     \o Sequence(Turn, 1, iterations)

Program(x_size, y_size, nprocs, height, iterations, cy) ==
  [id \in 0 .. x_size * y_size * nprocs - 1 |->
     main(id, x_size, y_size, nprocs, height, iterations, cy)]

-----------------------------------------------------------------------------
(* The values. A world is the set of its alive cells <<x, y>>.             *)

\* The eight accesses of number_of_alive_neighbour; they are distinct cells only
\* when both sizes are above 2.
number_of_alive_neighbour(world, x, y, width, height) ==
  LET xs == <<Before(x, width), x, Behind(x, width)>>
      ys == <<Before(y, height), y, Behind(y, height)>>
  IN Quantify((1 .. 3) \X (1 .. 3), LAMBDA d : d # <<2, 2>> /\ <<xs[d[1]], ys[d[2]]>> \in world)

compute_cell(world, x, y, width, height) ==
  LET nb == number_of_alive_neighbour(world, x, y, width, height)
  IN IF <<x, y>> \in world THEN nb = 2 \/ nb = 3 ELSE nb = 3

Generation(world, width, height) ==
  {c \in (0 .. width - 1) \X (0 .. height - 1) : compute_cell(world, c[1], c[2], width, height)}

-----------------------------------------------------------------------------
(* Properties                                                              *)

\* Two cells are neighbours on the torus when their distance is at most one in both
\* directions.
Near(a, b, size) == (a - b) % size \in {0, 1, size - 1}
Neighbours(c, width, height) ==
  {d \in (0 .. width - 1) \X (0 .. height - 1) :
     d # c /\ Near(c[1], d[1], width) /\ Near(c[2], d[2], height)}

\* One step is the rule of the game of life on the torus: the wrap around of x - 1 and
\* y - 1 at zero is that of the torus (number_of_alive_neighbour).
FollowsTheRule(world, width, height) ==
  Generation(world, width, height) =
    {c \in (0 .. width - 1) \X (0 .. height - 1) :
       LET n == Cardinality(Neighbours(c, width, height) \cap world)
       IN n = 3 \/ (n = 2 /\ c \in world)}

=============================================================================
