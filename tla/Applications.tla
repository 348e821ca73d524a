----------------------------- MODULE Applications -----------------------------
(***************************************************************************)
(* The instances of the applications: the parallel programs (Spmd) with    *)
(* what they compute, the two pipelines (Router, Classif), and what the    *)
(* mapping scripts ask for (Layout). A behaviour runs one of them; app is  *)
(* "values" or "layout" when it only checks a result, named by check.      *)
(***************************************************************************)
EXTENDS Integers, FiniteSets

VARIABLES app,
          x1, x2, x3, x4, x5, x6, x7, x8, x9, x10,
          x11, x12, x13, x14, x15, x16, x17, x18, x19, x20

\* A program gives a meaning to the first of these places, the others keep their
\* value: those from a number on.
from14 == <<x14, x15, x16, x17, x18, x19, x20>>
from13 == <<x13, from14>>
from12 == <<x12, from13>>
from10 == <<x10, x11, from12>>
from6 == <<x6, x7, x8, x9, from10>>
from2 == <<x2, x3, x4, x5, from6>>
vars == <<app, x1, from2>>

Unused14 ==
  /\ x14 = <<>> /\ x15 = <<>> /\ x16 = <<>> /\ x17 = <<>> /\ x18 = <<>> /\ x19 = <<>>
  /\ x20 = <<>>
Unused13 == x13 = <<>> /\ Unused14
Unused12 == x12 = <<>> /\ Unused13
Unused10 == x10 = <<>> /\ x11 = <<>> /\ Unused12
Unused6 == x6 = <<>> /\ x7 = <<>> /\ x8 = <<>> /\ x9 = <<>> /\ Unused10
Unused2 == x2 = <<>> /\ x3 = <<>> /\ x4 = <<>> /\ x5 = <<>> /\ Unused6

S == INSTANCE Sort
G == INSTANCE GameOfLife
T == INSTANCE Transpose
C == INSTANCE Convol
O == INSTANCE Ocean
L == INSTANCE Layout

\* Eight items for four threads; a world of four lines for four tasks, with two images
\* after the first one; four lines, of four pixels, for two tasks in each of two clusters;
\* an ocean for four tasks of one cluster, and for two clusters, which is solved with a
\* visit to the coarse level.
Programs ==
  LET paths == [psib |-> <<"done">>, ga |-> <<"stay", "coarser", "finer", "done">>,
                gb |-> <<"done">>]
  IN {S!Program(8, 4), G!Program(2, 1, 2, 4, 2, 0), T!Program(4, 2, 2), C!Program(4, 4, 2, 2),
      O!Program(1, 4, paths, 1, FALSE), O!Program(2, 1, paths, 2, TRUE)}

Spmd == INSTANCE Spmd
  WITH program <- x1, at <- x2, inside <- x3, written <- x4, raised <- x5

\* Four tokens for two routers, in channels of two items.
R == INSTANCE Router
  WITH Routers <- {1, 2}, NMAX <- 4, DEPTH <- 2,
       init_ok <- x1, fifo_in <- x2, fifo_out <- x3, n <- x4, started <- x5,
       spins <- x6, buf <- x7, router_tab <- x8, consumer_tab <- x9

\* Two clusters with one analysis task, one cluster with two; three containers, the
\* first of which has two packets.
K == INSTANCE Classif
  WITH Meshes <- {<<2, 1>>, <<1, 2>>}, CONTAINERS_MAX <- 3,
       Packets <- << <<1, 1>>, <<2>>, <<1>> >>,
       mesh <- x1, heaps <- x2, global_sync <- x3, load_sync <- x4, store_sync <- x5,
       local_sync <- x6, rx <- x7, tx <- x8, rx_barrier <- x9, tx_barrier <- x10,
       s2l <- x11, l2a <- x12, a2s <- x13, container <- x14, counter <- x15,
       pc <- x16, index <- x17, count <- x18, p <- x19, sentOut <- x20

-----------------------------------------------------------------------------
(* The results. Convolution is linear: see Convol.                         *)

check == x1

ValueCases ==
  \/ \E array \in [0 .. 3 -> 0 .. 3], threads \in {2, 4} : check = <<"sort", array, threads>>
  \/ \E array \in [0 .. 7 -> 0 .. 1] : check = <<"sort", array, 4>>
  \/ \E world \in SUBSET ((0 .. 2) \X (0 .. 2)) : check = <<"gameoflife", world>>
  \/ \E NN \in {4, 8}, nclusters \in {1, 2, 4}, nprocs \in {1, 2} :
       nclusters * nprocs <= NN /\ check = <<"transpose", NN, nclusters, nprocs>>
  \/ \E hrange \in {2, 3}, k \in 0 .. 7 : check = <<"horizontal", hrange, k>>
  \/ \E k \in 0 .. 39 : check = <<"vertical", k>>
  \/ check = <<"display">>
  \/ \E n \in {2, 4, 8} : check = <<"ocean", n>>
  \/ check = <<"classif">>

ValueIsRight ==
  CASE check[1] = "sort" -> S!Sorts(check[2], check[3])
    [] check[1] = "gameoflife" -> G!FollowsTheRule(check[2], 4, 4)
    [] check[1] = "transpose" -> T!Transposes(check[2], check[3], check[4])
    [] check[1] = "horizontal" -> C!HorizontalIsExact(8, check[2], check[3])
    [] check[1] = "vertical" -> C!VerticalIsExact(40, check[2])
    [] check[1] = "display" -> C!DisplaysInPlace(16, 4, 2)
    [] check[1] = "ocean" -> O!SweepsAlternate(check[2])
    [] check[1] = "classif" -> K!ExchangesAddresses

\* Meshes of 1 to 16 clusters; without processors in all of them; with a number of
\* processors that does not divide the size of a stack.
LayoutCases ==
  \E m \in {L!Mesh(1, {0}, 1), L!Mesh(1, {0}, 4), L!Mesh(4, 0 .. 3, 2), L!Mesh(4, {0, 2}, 4),
            L!Mesh(4, 0 .. 3, 3), L!Mesh(16, 0 .. 14, 2), L!Mesh(16, 0 .. 15, 4)} :
    \E script \in
         {"transpose", "dhrystone", "gameoflife", "sort", "convol", "raycast", "shell",
          "coproc"}
         \cup (IF m.nclusters <= 4 THEN {"ocean"} ELSE {})
         \cup (IF m.nprocs >= 2 THEN {"display"} ELSE {})
         \cup (IF m.nprocs >= 3 THEN {"classif"} ELSE {})
         \cup (IF m.procs = 0 .. m.nclusters - 1 THEN {"router"} ELSE {}) :
      check = <<script, m>>

Asked(script, m) ==
  CASE script = "transpose" -> L!transpose(m)
    [] script = "dhrystone" -> L!dhrystone(m)
    [] script = "gameoflife" -> L!gameoflife(m)
    [] script = "sort" -> L!sort(m)
    [] script = "convol" -> L!convol(m)
    [] script = "raycast" -> L!raycast(m)
    [] script = "ocean" -> L!ocean(m)
    [] script = "classif" -> L!classif(m)
    [] script = "router" -> L!router(m)
    [] script = "coproc" -> L!coproc(m)
    [] script = "display" -> L!display(m)
    [] script = "shell" -> L!shell(m)

-----------------------------------------------------------------------------

Init ==
  \/ app = "spmd" /\ Spmd!Init /\ Unused6
  \/ app = "router" /\ R!Init /\ Unused10
  \/ app = "classif" /\ K!Init
  \/ app = "values" /\ ValueCases /\ Unused2
  \/ app = "layout" /\ LayoutCases /\ Unused2

Next ==
  \/ app = "spmd" /\ Spmd!Next /\ UNCHANGED <<app, from6>>
  \/ app = "router" /\ R!Next /\ UNCHANGED <<app, from10>>
  \/ app = "classif" /\ K!Next /\ UNCHANGED app
  \/ app \in {"values", "layout"} /\ UNCHANGED vars

TypeOK ==
  /\ app = "spmd" => Spmd!TypeOK
  /\ app = "router" => R!TypeOK
  /\ app = "classif" => K!TypeOK

\* No two threads of an application race for a cell, nothing is read before it is
\* written, nobody waits for ever, and what the blocks compute is what the program is for
\* (the functions main of sort, gameoflife, transpose, convol; multig, slave2 of ocean).
ProgramsSound ==
  /\ app = "spmd" => Spmd!NoConflict /\ Spmd!ReadsAreReady /\ Spmd!NobodyIsLeft
  /\ app = "values" => ValueIsRight

\* No token or container is lost, passed on twice or before the work on it is done
\* (router; load, analyse and store of classif).
PipelinesSound ==
  /\ app = "router" => R!OnePlace /\ R!RouterKnown /\ R!Flows
  /\ app = "classif" => K!OneOwner /\ K!SentOnce /\ K!NicIsOn /\ K!AllCounted

\* The segments and tasks of the applications can be mapped and run (extend).
LayoutsSound == app = "layout" => L!LayoutSound(Asked(check[1], check[2]), check[2])

=============================================================================
