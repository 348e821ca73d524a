------------------------------- MODULE SqtTree -------------------------------
(***************************************************************************)
(* The synchronisation quad tree (SQT) on which the distributed lock and   *)
(* the distributed barrier are built: one tree of nodes, spread over the   *)
(* clusters of the mesh, computed by _get_sqt_footprint (utils.c) and by   *)
(* the init / build functions of kernel_locks.c and kernel_barriers.c.     *)
(*                                                                         *)
(* A node is <<x, y, level>>. The footprint of the tree is the smallest    *)
(* Width x Height rectangle of clusters that contains all the processors.  *)
(***************************************************************************)
EXTENDS Naturals, FiniteSets, Sequences

-----------------------------------------------------------------------------
\* A level is missing for a side that is not a power of two.
SqtLevelsShort(w, h) ==
  LET z == IF h > w THEN h ELSE w
  IN  IF z < 2 THEN 1 ELSE IF z < 4 THEN 2 ELSE IF z < 8 THEN 3
      ELSE IF z < 16 THEN 4 ELSE 5

-----------------------------------------------------------------------------
\* _get_sqt_footprint: number of levels, from the largest coordinate z.
SqtLevels(w, h) ==
  LET z == (IF h > w THEN h ELSE w) - 1
  IN  IF z < 1 THEN 1 ELSE IF z < 2 THEN 2 ELSE IF z < 4 THEN 3
      ELSE IF z < 8 THEN 4 ELSE 5

\* _sqt_lock_init: the nodes for which memory is allocated, a level-l node in
\* the clusters whose coordinates are multiples of 2^l.
Allocated(w, h) ==
  {n \in (0 .. w - 1) \X (0 .. h - 1) \X (0 .. SqtLevels(w, h) - 1) :
     n[1] % (2 ^ n[3]) = 0 /\ n[2] % (2 ^ n[3]) = 0}

\* _sqt_lock_build: the children that a node of level > 0 gets.
Children(n, w, h) ==
  LET step == 2 ^ (n[3] - 1)
  IN  {<<n[1] + dx, n[2] + dy, n[3] - 1>> : dx, dy \in {0, step}}
        \cap ((0 .. w - 1) \X (0 .. h - 1) \X {n[3] - 1})

\* The root, on which _sqt_lock_init calls _sqt_lock_build.
RootOf(w, h) == <<0, 0, SqtLevels(w, h) - 1>>

\* The nodes that the recursion of _sqt_lock_build initialises, level by
\* level from the root.
Visited(w, h) ==
  LET top == SqtLevels(w, h) - 1
      down[d \in 0 .. top] ==
        IF d = 0 THEN {RootOf(w, h)}
        ELSE UNION {Children(n, w, h) : n \in down[d - 1]}
  IN  UNION {down[d] : d \in 0 .. top}

\* The node that the tasks of cluster (x,y) use at level l: what following l
\* parent pointers from the leaf of the cluster arrives at.
PathNode(x, y, l) == <<x - (x % (2 ^ l)), y - (y % (2 ^ l)), l>>

-----------------------------------------------------------------------------
(* Properties                                                              *)

\* The recursion initialises exactly the nodes that were allocated: it never
\* follows a pointer of the node array that was not set, and leaves no node
\* that a task can reach uninitialised.
BuildVisitsAllocated(w, h) == Visited(w, h) = Allocated(w, h)

\* Every node but the root gets one parent, so the parent pointers make one
\* tree, and the path of a cluster leads from its leaf to the root.
OneTree(w, h) ==
  LET nodes == Visited(w, h)
      top == SqtLevels(w, h) - 1
      parents == [n \in nodes |->
        {p \in nodes : p[3] = n[3] + 1 /\ n \in Children(p, w, h)}]
  IN  /\ \A n \in nodes \ {RootOf(w, h)} : Cardinality(parents[n]) = 1
      /\ \A x \in 0 .. w - 1, y \in 0 .. h - 1 :
           /\ PathNode(x, y, top) = RootOf(w, h)
           /\ \A l \in 1 .. top : parents[PathNode(x, y, l - 1)] = {PathNode(x, y, l)}

=============================================================================
