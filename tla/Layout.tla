-------------------------------- MODULE Layout --------------------------------
(***************************************************************************)
(* What the mapping scripts of the applications ask for                    *)
(* (applications/*/*.py, function extend): the segments of the vspace and  *)
(* the tasks, for any mesh. Nothing tests the addresses that they compute: *)
(* addVseg does not compare the segments of a vspace.                      *)
(*                                                                         *)
(* A mesh has nclusters clusters, numbered as in the scripts (cluster_id), *)
(* procs is the set of those that have nprocs processors. Addresses and    *)
(* lengths are in pages of 4 Kbytes. sort.py and router.py do not round    *)
(* the size of the stacks, which is right when nprocs is a power of two.   *)
(***************************************************************************)
EXTENDS Integers, FiniteSets

Mesh(nclusters, procs, nprocs) ==
  [nclusters |-> nclusters, procs |-> procs, nprocs |-> nprocs]

BigPage == 512

Vseg(name, base, length, cluster, local, big) ==
  [name |-> name, base |-> base, length |-> length, cluster |-> cluster,
   local |-> local, big |-> big]
Task(name, trdid, cluster, lpid, stack, heap, startid) ==
  [name |-> name, trdid |-> trdid, cluster |-> cluster, lpid |-> lpid, stack |-> stack,
   heap |-> heap, startid |-> startid]

DataName == <<"data">>
CodeName(c) == <<"code", c>>
StackName(c, p) == <<"stack", c, p>>
HeapName(c) == <<"heap", c>>
NoHeap == <<"">>

Lpids(mesh) == 0 .. mesh.nprocs - 1
ProcId(mesh, c, p) == c * mesh.nprocs + p

\* The loops of the scripts.
Data(length) == {Vseg(DataName, 131072, length, 0, FALSE, FALSE)}
Codes(clusters, length) == {Vseg(CodeName(c), 65536, length, c, TRUE, FALSE) : c \in clusters}
Stacks(mesh, clusters, base) ==
  LET size == BigPage \div mesh.nprocs
  IN {Vseg(StackName(s[1], s[2]), base + ProcId(mesh, s[1], s[2]) * size, size, s[1],
           TRUE, TRUE) : s \in clusters \X Lpids(mesh)}

\* Faulty variant: the heaps of all the clusters have one address.
HeapsAtBase(mesh, base, length, big) ==
  {Vseg(HeapName(c), base, length, c, FALSE, big) : c \in mesh.procs}

Heaps(mesh, base, length, big) ==
  {Vseg(HeapName(c), base + c * length, length, c, FALSE, big) : c \in mesh.procs}
Tasks(mesh, clusters, Name(_, _), HeapOf(_), StartId(_, _)) ==
  {Task(Name(t[1], t[2]), ProcId(mesh, t[1], t[2]), t[1], t[2], StackName(t[1], t[2]),
        HeapOf(t[1]), StartId(t[1], t[2])) : t \in clusters \X Lpids(mesh)}

\* The stacks of nearly all of them.
StackBase == 262144
SameCode(c, p) == 0
TaskName(c, p) == <<"task", c, p>>

\* One task per processor, with the same code.
Spmd(mesh, data, heaps) ==
  [vsegs |-> data \cup Codes(mesh.procs, 16) \cup Stacks(mesh, mesh.procs, StackBase) \cup heaps,
   tasks |-> Tasks(mesh, mesh.procs, TaskName, HeapName, SameCode)]

transpose(mesh) == Spmd(mesh, Data(16), Heaps(mesh, 393216, 512, TRUE))
dhrystone(mesh) == Spmd(mesh, Data(16), Heaps(mesh, 393216, 512, TRUE))
gameoflife(mesh) ==
  Spmd(mesh, {Vseg(DataName, 131072, 512, 0, FALSE, TRUE)}, Heaps(mesh, 196608, 64, FALSE))

\* The copies of the code have one name.
sort(mesh) ==
  LET app == Spmd(mesh, Data(16), Heaps(mesh, 393216, 512, TRUE))
  IN [app EXCEPT !.vsegs = {IF v.name[1] = "code" THEN [v EXCEPT !.name = <<"code">>] ELSE v :
                              v \in @}]

\* The stacks are behind the heaps.
convol(mesh) ==
  [vsegs |-> Data(32) \cup Codes(mesh.procs, 16) \cup Stacks(mesh, mesh.procs, 327680)
               \cup Heaps(mesh, 262144, 4096, TRUE),
   tasks |-> Tasks(mesh, mesh.procs, TaskName, HeapName, SameCode)]

\* One main task, the others render.
raycast(mesh) ==
  LET StartId(c, p) == IF c = 0 /\ p = 0 THEN 1 ELSE 0
      Name(c, p) == <<IF c = 0 /\ p = 0 THEN "main" ELSE "render", c, p>>
  IN [vsegs |-> Data(64) \cup Codes(mesh.procs, 16) \cup Stacks(mesh, mesh.procs, StackBase)
                  \cup Heaps(mesh, 393216, 1024, FALSE),
      tasks |-> Tasks(mesh, mesh.procs, Name, HeapName, StartId)]

\* There is a copy of the local data in each cluster.
ocean(mesh) ==
  LET StartId(c, p) == IF c = 0 /\ p = 0 THEN 0 ELSE 1
  IN [vsegs |-> Data(32) \cup Codes(mesh.procs, 256) \cup Stacks(mesh, mesh.procs, StackBase)
                  \cup Heaps(mesh, 393216, 32768, TRUE)
                  \cup {Vseg(<<"ldata", c>>, 131584, 4, c, TRUE, FALSE) : c \in mesh.procs},
      tasks |-> Tasks(mesh, mesh.procs, TaskName, HeapName, StartId)]

\* Each cluster loads, stores, and analyses with the other processors.
classif(mesh) ==
  LET StartId(c, p) == IF p = 0 THEN 2 ELSE IF p = 1 THEN 1 ELSE 0
      Name(c, p) == <<IF p = 0 THEN "load" ELSE IF p = 1 THEN "store" ELSE "analyse", c, p>>
  IN [vsegs |-> Data(16) \cup Codes(mesh.procs, 16) \cup Stacks(mesh, mesh.procs, StackBase)
                  \cup Heaps(mesh, 196608, 64, FALSE),
      tasks |-> Tasks(mesh, mesh.procs, Name, HeapName, StartId)]

\* The clusters without processors are not left aside; a data segment in the first
\* and in the last one.
router(mesh) ==
  LET all == 0 .. mesh.nclusters - 1
      last == mesh.nclusters - 1
      Producer(c, p) == c = 0 /\ p = 0
      Consumer(c, p) == ~Producer(c, p) /\ c = last /\ p = mesh.nprocs - 1
      StartId(c, p) == IF Producer(c, p) THEN 2 ELSE IF Consumer(c, p) THEN 1 ELSE 0
      Name(c, p) ==
        IF Producer(c, p) THEN <<"producer">>
        ELSE IF Consumer(c, p) THEN <<"consumer">> ELSE <<"router", c, p>>
      None(c) == NoHeap
  IN [vsegs |-> Data(16) \cup {Vseg(<<"data_1">>, 196608, 16, last, FALSE, FALSE)}
                  \cup Codes(all, 16) \cup Stacks(mesh, all, StackBase),
      tasks |-> Tasks(mesh, all, Name, None, StartId)]

\* The applications of one task, in cluster 0, where all segments are seen by the others.
Single(data, heap, lpid) ==
  [vsegs |-> Data(data)
               \cup {Vseg(<<"code">>, 65536, 16, 0, FALSE, FALSE),
                     Vseg(<<"stack">>, StackBase, 512, 0, FALSE, TRUE)}
               \cup {Vseg(<<"heap">>, 393216, 1, 0, FALSE, FALSE) : h \in heap},
   tasks |-> {Task(<<"task">>, 0, 0, lpid, <<"stack">>, IF heap = {} THEN NoHeap ELSE <<"heap">>,
                   0)}]

coproc(mesh) == Single(16, {}, 0)
display(mesh) == Single(64, {"disp_heap"}, 1)
shell(mesh) == Single(128, {"shell_heap"}, 0)

-----------------------------------------------------------------------------
(* Properties                                                              *)

\* The PTAB of a cluster maps the local vsegs of this cluster, and all others.
InPtab(app, c) == {v \in app.vsegs : v.local => v.cluster = c}

Meet(v, w) == v.base < w.base + w.length /\ w.base < v.base + v.length

\* The part of the address space that a vseg needs for itself, when it is not alone in
\* its big pages: an entry of a PT1 is a big page or the address of a PT2.
Rounded(v) ==
  LET first == v.base \div BigPage
      last == (v.base + v.length - 1) \div BigPage
  IN [v EXCEPT !.base = first * BigPage, !.length = (last - first + 1) * BigPage]

\* No two vsegs of a PTAB have a page in common, nor a big page of which one needs
\* small pages; local and shared vsegs do not share a big page.
Disjoint(app, c) ==
  \A v, w \in InPtab(app, c) :
    v # w => /\ ~Meet(v, w)
             /\ v.big # w.big \/ (v.big /\ v.local # w.local) => ~Meet(Rounded(v), Rounded(w))

\* heap_init accepts the heaps that the tasks name.
HeapUsable(app) ==
  \A v \in app.vsegs : v.name[1] = "heap" =>
    (\E k \in 0 .. 20 : v.length = 2 ^ k) /\ v.base % v.length = 0

\* A task runs on a processor of its own, under its own number, and its stack and heap
\* are segments of its cluster, which no other task has for its stack.
TasksSound(app, mesh) ==
  \A t \in app.tasks :
    /\ t.cluster \in mesh.procs /\ t.lpid \in Lpids(mesh)
    /\ \E s \in InPtab(app, t.cluster) : s.name = t.stack /\ s.cluster = t.cluster
    /\ t.heap # NoHeap => \E h \in app.vsegs : h.name = t.heap /\ h.cluster = t.cluster
    /\ \A u \in app.tasks : u # t =>
         t.trdid # u.trdid /\ t.stack # u.stack /\ t.name # u.name
           /\ <<t.cluster, t.lpid>> # <<u.cluster, u.lpid>>

\* What a script asks for can be mapped and run (extend).
LayoutSound(app, mesh) ==
  /\ \A c \in mesh.procs : Disjoint(app, c)
  /\ HeapUsable(app)
  /\ TasksSound(app, mesh)

=============================================================================
