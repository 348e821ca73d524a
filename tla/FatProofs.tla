------------------------------ MODULE FatProofs ------------------------------
(***************************************************************************)
(* Proofs about Fat32: an inode of the tree counts the descriptors that    *)
(* refer to it, whatever paths are searched, and whatever is opened,       *)
(* closed, made, moved and removed; and a descriptor that a move or the    *)
(* removal of a directory leaves without its inode is not counted by the   *)
(* inode that takes its place. The argument only looks at the field count  *)
(* of the inodes: what is loaded from the device makes inodes that nobody  *)
(* has opened, and the operations on the caches and the directories leave  *)
(* the counts alone.                                                       *)
(***************************************************************************)
EXTENDS Fat32, FiniteSetTheorems, SequenceTheorems, WellFoundedInduction, TLAPS

Fields == {"cluster", "size", "count", "dentry", "is_dir", "cache", "lacks", "loose"}
FdFields == {"allocated", "inode", "seek", "read_only", "node", "list"}

\* t is an Inode-Tree.
Tree(t) ==
  /\ DOMAIN t = Path
  /\ \A p \in Path : DOMAIN t[p] = Fields /\ t[p].count \in Nat

\* u is one, and has the counts of t.
SameCounts(t, u) == Tree(u) /\ \A p \in Path : u[p].count = t[p].count

Opened(p) == {f \in Fd : Live(f) /\ fd[f].inode = p}

\* d is a descriptor whose inode was not unlinked.
Descriptor(d) ==
  /\ DOMAIN d = FdFields
  /\ d.allocated \in BOOLEAN /\ d.inode \in Path /\ d.node # "unlinked"

\* The inductive invariant: the shape of the tree and of the descriptors, and the counts.
FatInv ==
  /\ Tree(inode)
  /\ DOMAIN fd = Fd
  /\ \A f \in Fd : Descriptor(fd[f])
  /\ \A p \in Path : inode[p].count = Cardinality(Opened(p))

-----------------------------------------------------------------------------
(* What the operations on the tree do to the counts                        *)

LEMMA NoInodeCount ==
  /\ DOMAIN NoInode = Fields /\ NoInode.count = 0
  /\ \A c, s, e, d : DOMAIN Inode(c, s, e, d) = Fields /\ Inode(c, s, e, d).count = 0
<1>1. DOMAIN NoInode = Fields /\ NoInode.count = 0
  BY DEF NoInode, Fields
<1>2. ASSUME NEW c, NEW s, NEW e, NEW d
      PROVE  DOMAIN Inode(c, s, e, d) = Fields /\ Inode(c, s, e, d).count = 0
  BY <1>1 DEF Inode, Fields
<1> QED
  BY <1>1, <1>2

LEMMA LoadAllCounts ==
  ASSUME NEW t, Tree(t), NEW d, NEW ids
  PROVE  SameCounts(t, LoadAll(t, d, ids)) /\ \A p \in Path : p # d => LoadAll(t, d, ids)[p] = t[p]
<1> DEFINE u == LoadAll(t, d, ids)
<1>1. DOMAIN u = Path /\ \A p \in Path : p # d => u[p] = t[p]
  BY DEF Tree, LoadAll
<1>2. d \in Path => DOMAIN u[d] = Fields /\ u[d].count = t[d].count
  BY DEF Tree, LoadAll, Fields
<1> QED
  BY <1>1, <1>2 DEF Tree, SameCounts

LEMMA FlushCounts ==
  ASSUME NEW t, Tree(t), NEW d
  PROVE  SameCounts(t, Flush(t, d)) /\ \A p \in Path : p # d => Flush(t, d)[p] = t[p]
<1> DEFINE u == Flush(t, d)
<1>1. DOMAIN u = Path /\ \A p \in Path : p # d => u[p] = t[p]
  BY DEF Tree, Flush
<1>2. d \in Path => DOMAIN u[d] = Fields /\ u[d].count = t[d].count
  BY DEF Tree, Flush, Fields
<1> QED
  BY <1>1, <1>2 DEF Tree, SameCounts

LEMMA ReleaseCacheCounts ==
  ASSUME NEW t, Tree(t), NEW d
  PROVE  SameCounts(t, ReleaseCache(t, d))
<1> DEFINE u == ReleaseCache(t, d)
<1>1. DOMAIN u = Path /\ \A p \in Path : p # d => u[p] = t[p]
  BY DEF Tree, ReleaseCache
<1>2. d \in Path => DOMAIN u[d] = Fields /\ u[d].count = t[d].count
  BY DEF Tree, ReleaseCache, Fields
<1> QED
  BY <1>1, <1>2 DEF Tree, SameCounts

LEMMA SameCountsTransitive ==
  ASSUME NEW t, NEW u, NEW v, SameCounts(t, u), SameCounts(u, v)
  PROVE  SameCounts(t, v)
BY DEF SameCounts

\* The directories.
LEMMA RemoveDirEntryCounts ==
  ASSUME NEW t, Tree(t), NEW d, NEW s
  PROVE  LET u == RemoveDirEntry(t, d, s)
         IN SameCounts(t, u) /\ \A p \in Path : p # d => u[p] = t[p]
<1> DEFINE l == LoadAll(t, d, {0})
           u == RemoveDirEntry(t, d, s)
<1>1. /\ SameCounts(t, l) /\ Tree(l)
      /\ \A p \in Path : p # d => l[p] = t[p]
  BY LoadAllCounts DEF SameCounts
<1>2. u = [l EXCEPT ![d].cache[0].buffer[s] = Freed, ![d].cache[0].dirty = TRUE]
  BY DEF RemoveDirEntry
<1> HIDE DEF l, u
<1>3. DOMAIN u = Path /\ \A p \in Path : p # d => u[p] = l[p]
  BY <1>1, <1>2 DEF Tree
<1>4. d \in Path => DOMAIN u[d] = Fields /\ u[d].count = l[d].count
  BY <1>1, <1>2 DEF Tree, Fields
<1>5. SameCounts(l, u)
  BY <1>1, <1>3, <1>4 DEF Tree, SameCounts
<1> QED
  BY <1>1, <1>3, <1>5, SameCountsTransitive DEF u

LEMMA UpdateDirEntryCounts ==
  ASSUME NEW t, Tree(t), NEW p
  PROVE  SameCounts(t, UpdateDirEntry(t, p))
<1> DEFINE d == Front(p)
           l == LoadAll(t, d, {0})
           u == UpdateDirEntry(t, p)
<1>1. SameCounts(t, l) /\ Tree(l)
  BY LoadAllCounts DEF SameCounts
<1>2. u = [l EXCEPT ![d].cache[0].buffer[t[p].dentry].size = t[p].size,
                    ![d].cache[0].buffer[t[p].dentry].cluster = t[p].cluster,
                    ![d].cache[0].dirty = TRUE]
  BY DEF UpdateDirEntry
<1> HIDE DEF d, l, u
<1>3. DOMAIN u = Path /\ \A q \in Path : q # d => u[q] = l[q]
  BY <1>1, <1>2 DEF Tree
<1>4. d \in Path => DOMAIN u[d] = Fields /\ u[d].count = l[d].count
  BY <1>1, <1>2 DEF Tree, Fields
<1>5. SameCounts(l, u)
  BY <1>1, <1>3, <1>4 DEF Tree, SameCounts
<1> QED
  BY <1>1, <1>5, SameCountsTransitive DEF u

\* The new inode takes its place in the tree.
LEMMA AddDirEntryCounts ==
  ASSUME NEW t, Tree(t), NEW p \in Path, NEW ino, DOMAIN ino = Fields, ino.count \in Nat
  PROVE  LET u == AddDirEntry(t, p, ino)
         IN /\ Tree(u) /\ u[p].count = ino.count
            /\ \A q \in Path : q # p => u[q].count = t[q].count
            /\ \A q \in Path : q # p /\ q # Front(p) => u[q] = t[q]
<1> DEFINE d == Front(p)
           l == LoadAll(t, d, {0})
           u == AddDirEntry(t, p, ino)
<1>1. /\ SameCounts(t, l) /\ Tree(l)
      /\ \A q \in Path : q # d => l[q] = t[q]
  BY LoadAllCounts DEF SameCounts
<1>2. PICK s, e : u = [l EXCEPT ![d].cache[0].buffer[s] = e,
                                ![d].cache[0].dirty = TRUE,
                                ![p] = [ino EXCEPT !.dentry = s]]
  BY DEF AddDirEntry
<1> HIDE DEF d, l, u
<1>3. DOMAIN u = Path /\ u[p] = [ino EXCEPT !.dentry = s]
  BY <1>1, <1>2 DEF Tree
<1>4. \A q \in Path : q # p /\ q # d => u[q] = l[q]
  BY <1>1, <1>2 DEF Tree
<1>5. d \in Path /\ d # p => DOMAIN u[d] = Fields /\ u[d].count = l[d].count
  BY <1>1, <1>2 DEF Tree, Fields
<1>6. DOMAIN u[p] = Fields /\ u[p].count = ino.count
  BY <1>3 DEF Fields
<1> QED
  BY <1>1, <1>3, <1>4, <1>5, <1>6 DEF Tree, SameCounts, d, u

-----------------------------------------------------------------------------
(* The search of a path                                                    *)

\* A non-empty set of numbers has a first one.
LEMMA FirstNumber ==
  ASSUME NEW S \in SUBSET Nat, S # {}
  PROVE  \E i \in S : \A j \in S : i <= j
<1>1. PICK i \in S : \A j \in S : <<j, i>> \notin OpToRel(<, Nat)
  BY NatLessThanWellFounded, WFMin
<1>2. \A j \in S : ~ (j < i)
  BY <1>1 DEF OpToRel
<1> QED
  BY <1>2

\* What the search of a path gives, name after name.
Walk(t0, path, n, w) ==
  w = [k \in 0 .. n |-> IF k = 0 THEN [code |-> 0, tree |-> t0]
                                 ELSE Descend(w[k - 1], path, k)]

LEMMA WalkExists ==
  ASSUME NEW t0, NEW path, NEW n \in Nat
  PROVE  \E w : Walk(t0, path, n, w)
<1> DEFINE T == {m \in Nat : ~ \E w : Walk(t0, path, m, w)}
<1>1. SUFFICES ASSUME T # {} PROVE FALSE
  OBVIOUS
<1>2. PICK m \in T : \A j \in T : m <= j
  BY <1>1, FirstNumber
<1>3. m \in Nat /\ ~ \E w : Walk(t0, path, m, w)
  OBVIOUS
<1>4. CASE m = 0
  <2> DEFINE w == [k \in 0 .. 0 |-> [code |-> 0, tree |-> t0]]
  <2>1. w = [k \in 0 .. 0 |-> IF k = 0 THEN [code |-> 0, tree |-> t0]
                                       ELSE Descend(w[k - 1], path, k)]
    OBVIOUS
  <2> QED
    BY <1>3, <1>4, <2>1 DEF Walk
<1>5. CASE m # 0
  <2>1. m - 1 \in Nat /\ m - 1 \notin T
    BY <1>2, <1>3, <1>5
  <2>2. PICK v : Walk(t0, path, m - 1, v)
    BY <2>1
  <2> DEFINE w == [k \in 0 .. m |-> IF k = m THEN Descend(v[m - 1], path, m) ELSE v[k]]
  <2>3. ASSUME NEW k \in 0 .. m
        PROVE  w[k] = IF k = 0 THEN [code |-> 0, tree |-> t0] ELSE Descend(w[k - 1], path, k)
    <3>1. CASE k = m
      BY <1>3, <1>5, <3>1
    <3>2. CASE k # m
      <4>1. k \in 0 .. m - 1 /\ w[k] = v[k] /\ (k # 0 => w[k - 1] = v[k - 1])
        BY <1>3, <3>2
      <4>2. v[k] = IF k = 0 THEN [code |-> 0, tree |-> t0] ELSE Descend(v[k - 1], path, k)
        BY <2>2, <4>1 DEF Walk
      <4> QED
        BY <4>1, <4>2
    <3> QED
      BY <3>1, <3>2
  <2>4. Walk(t0, path, m, w)
    <3> DEFINE u == [k \in 0 .. m |-> IF k = 0 THEN [code |-> 0, tree |-> t0]
                                              ELSE Descend(w[k - 1], path, k)]
    <3>1. \A k \in 0 .. m : w[k] = u[k]
      BY <2>3
    <3> QED
      BY <3>1 DEF Walk
  <2> QED
    BY <1>3, <2>4
<1> QED
  BY <1>4, <1>5

\* One name: an inode that is loaded has no descriptor, and when only the parent of the
\* node is found there is no inode of this path in the tree.
LEMMA DescendCounts ==
  ASSUME NEW up, DOMAIN up = {"code", "tree"}, Tree(up.tree),
         NEW path \in Seq(STRING), NEW k \in 1 .. Len(path)
  PROVE  LET r == Descend(up, path, k)
             p == SubSeq(path, 1, k)
         IN /\ DOMAIN r = {"code", "tree"} /\ SameCounts(up.tree, r.tree)
            /\ r.code = 1 /\ p \in Path => r.tree[p] = NoInode
<1> DEFINE d == SubSeq(path, 1, k - 1)
           p == SubSeq(path, 1, k)
           t == LoadAll(up.tree, d, {0})
           found == EntriesOf(t, d, path[k])
           e == Table(t, d)[Min(found)]
           ino == Inode(e.cluster, e.size, Min(found), e.is_dir)
           r == Descend(up, path, k)
<1>1. p # d
  <2>1. Len(p) = k /\ Len(d) = k - 1
    OBVIOUS
  <2> QED
    BY <2>1
<1>2. /\ SameCounts(up.tree, t)
      /\ \A q \in Path : q # d => t[q] = up.tree[q]
  <2>1. PICK v : v = up.tree
    OBVIOUS
  <2>2. SameCounts(v, LoadAll(v, d, {0}))
    BY <2>1, LoadAllCounts
  <2>3. ASSUME NEW q \in Path, q # d PROVE LoadAll(v, d, {0})[q] = v[q]
    <3> HIDE DEF d, p
    <3> QED
      BY <2>1, <2>3, LoadAllCounts
  <2> QED
    BY <2>1, <2>2, <2>3
<1>3. DOMAIN ino = Fields /\ ino.count = 0
  BY NoInodeCount
<1>4. r = IF up.code # 0 THEN [up EXCEPT !.code = 2]
          ELSE IF up.tree[p] # NoInode THEN up
          ELSE IF found = {} THEN [code |-> 1, tree |-> t]
          ELSE [code |-> 0, tree |-> [t EXCEPT ![p] = ino]]
  BY DEF Descend
<1> HIDE DEF d, p, t, found, e, ino, r
<1> SUFFICES /\ DOMAIN r = {"code", "tree"} /\ SameCounts(up.tree, r.tree)
             /\ r.code = 1 /\ p \in Path => r.tree[p] = NoInode
  BY DEF r, p
<1>5. SameCounts(up.tree, up.tree)
  BY DEF SameCounts
<1>6. CASE up.code # 0
  BY <1>4, <1>5, <1>6
<1>7. CASE up.code = 0 /\ up.tree[p] # NoInode
  BY <1>4, <1>5, <1>7
<1>8. CASE up.code = 0 /\ up.tree[p] = NoInode /\ found = {}
  BY <1>1, <1>2, <1>4, <1>8
<1>9. CASE up.code = 0 /\ up.tree[p] = NoInode /\ found # {}
  <2> DEFINE u == [t EXCEPT ![p] = ino]
  <2>1. r = [code |-> 0, tree |-> u]
    BY <1>4, <1>9
  <2>2. p \in Path => up.tree[p].count = 0
    BY <1>9, NoInodeCount
  <2>3. SameCounts(up.tree, u)
    BY <1>2, <1>3, <2>2 DEF SameCounts, Tree
  <2> HIDE DEF u
  <2> QED
    BY <2>1, <2>3
<1> QED
  BY <1>6, <1>7, <1>8, <1>9

LEMMA ResolveCounts ==
  ASSUME NEW t0, Tree(t0), NEW path \in Path
  PROVE  LET r == Resolve(t0, path)
         IN SameCounts(t0, r.tree) /\ Tree(r.tree) /\ (r.code = 1 => r.tree[path] = NoInode)
<1>1. path \in Seq(STRING) /\ Len(path) \in Nat
  BY Fat32Assumption DEF Path
<1> DEFINE n == Len(path)
           w == CHOOSE walk : walk = [k \in 0 .. n |->
                  IF k = 0 THEN [code |-> 0, tree |-> t0] ELSE Descend(walk[k - 1], path, k)]
<1>2. Resolve(t0, path) = w[n]
  BY DEF Resolve
<1>3. Walk(t0, path, n, w)
  BY <1>1, WalkExists DEF Walk
<1> HIDE DEF w
<1> DEFINE Fine(k) == /\ DOMAIN w[k] = {"code", "tree"} /\ SameCounts(t0, w[k].tree)
                      /\ w[k].code = 1 /\ SubSeq(path, 1, k) \in Path =>
                           w[k].tree[SubSeq(path, 1, k)] = NoInode
           T == {k \in 0 .. n : ~ Fine(k)}
<1>4. T = {}
  <2>1. SUFFICES ASSUME T # {} PROVE FALSE
    OBVIOUS
  <2>2. PICK k \in T : \A j \in T : k <= j
    <3>1. T \in SUBSET Nat
      BY <1>1
    <3> HIDE DEF T
    <3> QED
      BY <2>1, <3>1, FirstNumber
  <2>3. k \in 0 .. n /\ ~ Fine(k)
    OBVIOUS
  <2>4. CASE k = 0
    <3>1. w[0] = [code |-> 0, tree |-> t0]
      BY <1>1, <1>3 DEF Walk
    <3>2. SameCounts(t0, t0)
      BY DEF SameCounts
    <3> QED
      BY <2>3, <2>4, <3>1, <3>2
  <2>5. CASE k # 0
    <3>1. k \in 1 .. n /\ k - 1 \in 0 .. n
      BY <1>1, <2>3, <2>5
    <3>2. Fine(k - 1)
      <4>1. k - 1 \notin T
        BY <2>2, <3>1
      <4> QED
        BY <3>1, <4>1
    <3>3. w[k] = Descend(w[k - 1], path, k)
      BY <1>3, <2>3, <2>5 DEF Walk
    <3>4. Tree(w[k - 1].tree) /\ DOMAIN w[k - 1] = {"code", "tree"}
      BY <3>2 DEF SameCounts
    <3>5. /\ DOMAIN w[k] = {"code", "tree"} /\ SameCounts(w[k - 1].tree, w[k].tree)
          /\ w[k].code = 1 /\ SubSeq(path, 1, k) \in Path =>
               w[k].tree[SubSeq(path, 1, k)] = NoInode
      BY <1>1, <3>1, <3>3, <3>4, DescendCounts
    <3>6. SameCounts(t0, w[k].tree)
      BY <3>2, <3>5, SameCountsTransitive
    <3> QED
      BY <2>3, <3>5, <3>6
  <2> QED
    BY <2>4, <2>5
<1>5. Fine(n)
  BY <1>1, <1>4
<1>6. SubSeq(path, 1, n) = path
  BY <1>1
<1> QED
  BY <1>2, <1>5, <1>6 DEF SameCounts

-----------------------------------------------------------------------------
(* The descriptors                                                         *)

\* The descriptor that _fat_open takes was not allocated.
LEMMA FreeDescriptor ==
  ASSUME FreeFd # FdMax
  PROVE  FreeFd \in Fd /\ ~ fd[FreeFd].allocated
<1> DEFINE S == {f \in Fd : ~fd[f].allocated} \cup {FdMax}
<1>1. S \in SUBSET Nat /\ S # {}
  BY Fat32Assumption DEF Fd
<1>2. \E i \in S : \A j \in S : i <= j
  <2> HIDE DEF S
  <2> QED
    BY <1>1, FirstNumber
<1>3. FreeFd = CHOOSE x \in S : \A y \in S : x =< y
  BY DEF FreeFd, Min
<1>4. FreeFd \in S
  <2> HIDE DEF S
  <2> QED
    BY <1>2, <1>3
<1> QED
  BY <1>4

LEMMA OpenedFinite ==
  ASSUME NEW p
  PROVE  /\ IsFiniteSet(Opened(p)) /\ Cardinality(Opened(p)) \in 0 .. FdMax
<1>1. FdMax \in Nat /\ Fd = 0 .. FdMax - 1
  BY Fat32Assumption DEF Fd
<1>2. IsFiniteSet(Fd) /\ Cardinality(Fd) = FdMax
  BY <1>1, FS_Interval
<1>3. Opened(p) \in SUBSET Fd
  BY DEF Opened
<1>4. IsFiniteSet(Opened(p)) /\ Cardinality(Opened(p)) <= FdMax
  BY <1>2, <1>3, FS_Subset
<1>5. Cardinality(Opened(p)) \in Nat
  BY <1>4, FS_CardinalityType
<1> QED
  BY <1>1, <1>4, <1>5

\* A step that changes neither the descriptors in use nor the counts.
LEMMA CountsKept ==
  ASSUME FatInv, SameCounts(inode, inode'), DOMAIN fd' = Fd,
         \A f \in Fd : /\ DOMAIN fd'[f] = DOMAIN fd[f]
                      /\ fd'[f].allocated = fd[f].allocated /\ fd'[f].inode = fd[f].inode
                      /\ fd'[f].node = fd[f].node
  PROVE  FatInv'
<1>1. \A p : Opened(p)' = Opened(p)
  BY DEF Opened, Live
<1>2. Tree(inode)' /\ \A p \in Path : inode'[p].count = Cardinality(Opened(p)')
  BY <1>1 DEF FatInv, SameCounts, Tree
<1>3. \A f \in Fd : Descriptor(fd'[f])
  BY DEF FatInv, Descriptor
<1> QED
  BY <1>2, <1>3 DEF FatInv

\* _fat_open: the inode has one descriptor more.
LEMMA CountsOpen ==
  ASSUME FatInv, NEW p \in Path, NEW ro, FreeFd # FdMax, fd' = OpenFd(p, ro),
         Tree(inode'),
         \A q \in Path : inode'[q].count = inode[q].count + (IF q = p THEN 1 ELSE 0)
  PROVE  FatInv'
<1> DEFINE g == FreeFd
<1>1. g \in Fd /\ ~ fd[g].allocated
  BY FreeDescriptor
<1>2. fd' = [fd EXCEPT ![g] = [allocated |-> TRUE, inode |-> p, seek |-> 0,
                               read_only |-> ro, node |-> "kept", list |-> "no"]]
  BY DEF OpenFd
<1> HIDE DEF g
<1>3. DOMAIN fd' = Fd /\ \A f \in Fd : Descriptor(fd'[f])
  <2>1. DOMAIN fd' = Fd
    BY <1>2 DEF FatInv
  <2>2. ASSUME NEW f \in Fd PROVE Descriptor(fd'[f])
    <3>1. CASE f = g
      BY <1>2, <3>1 DEF FatInv, Descriptor, FdFields
    <3>2. CASE f # g
      BY <1>2, <3>2 DEF FatInv
    <3> QED
      BY <3>1, <3>2
  <2> QED
    BY <2>1, <2>2
<1>4. Opened(p)' = Opened(p) \cup {g} /\ g \notin Opened(p)
  BY <1>1, <1>2 DEF Opened, Live, FatInv
<1>5. \A q \in Path : q # p => Opened(q)' = Opened(q)
  BY <1>1, <1>2 DEF Opened, Live, FatInv
<1>6. Cardinality(Opened(p)') = Cardinality(Opened(p)) + 1
  BY <1>4, OpenedFinite, FS_AddElement
<1>7. inode'[p].count = Cardinality(Opened(p)')
  BY <1>6 DEF FatInv
<1>8. \A q \in Path : q # p => inode'[q].count = Cardinality(Opened(q)')
  BY <1>5, OpenedFinite DEF FatInv
<1> QED
  BY <1>3, <1>7, <1>8 DEF FatInv, Tree

LEMMA NoFdShape == Descriptor(NoFd)
BY Fat32Assumption DEF NoFd, Descriptor, FdFields, Path

\* _fat_close: it has one less.
LEMMA CountsClose ==
  ASSUME FatInv, NEW f \in Fd, Live(f), fd' = [fd EXCEPT ![f] = NoFd],
         Tree(inode'),
         \A q \in Path : inode'[q].count = inode[q].count - (IF q = fd[f].inode THEN 1 ELSE 0)
  PROVE  FatInv'
<1>1. PICK p \in Path : p = fd[f].inode
  BY DEF FatInv, Descriptor
<1>2. DOMAIN fd' = Fd /\ \A g \in Fd : Descriptor(fd'[g])
  BY NoFdShape DEF FatInv
<1>3. Opened(p)' = Opened(p) \ {f}
  BY <1>1 DEF Opened, Live, FatInv, NoFd
<1>4. \A q \in Path : q # p => Opened(q)' = Opened(q)
  BY <1>1 DEF Opened, Live, FatInv, NoFd
<1>5. Cardinality(Opened(p)') = Cardinality(Opened(p)) - 1
  <2>1. f \in Opened(p)
    BY <1>1 DEF Opened
  <2> QED
    BY <2>1, <1>3, OpenedFinite, FS_RemoveElement
<1>6. inode'[p].count = Cardinality(Opened(p)')
  BY <1>1, <1>5 DEF FatInv
<1>7. \A q \in Path : q # p => inode'[q].count = Cardinality(Opened(q)')
  BY <1>1, <1>4, OpenedFinite DEF FatInv
<1> QED
  BY <1>2, <1>6, <1>7 DEF FatInv, Tree

\* The descriptors of the paths of S, and no others, lose their inode by a move or by
\* the removal of a directory.
Leaves(S, fds) ==
  /\ DOMAIN fds = Fd
  /\ \A f \in Fd : IF Live(f) /\ fd[f].inode \in S
                   THEN Descriptor(fds[f]) /\ fds[f].node \in {"moved", "rmdir"}
                   ELSE fds[f] = fd[f]

LEMMA LeftLeaves ==
  ASSUME FatInv, NEW S, NEW node \in {"moved", "rmdir"}
  PROVE  Leaves(S, Left(S, node))
<1>1. DOMAIN [NoFd EXCEPT !.allocated = TRUE, !.node = node] = FdFields
  BY DEF NoFd, FdFields
<1>2. Descriptor([NoFd EXCEPT !.allocated = TRUE, !.node = node])
  BY <1>1, Fat32Assumption DEF NoFd, Descriptor, Path
<1>3. [NoFd EXCEPT !.allocated = TRUE, !.node = node].node = node
  BY DEF NoFd
<1> QED
  BY <1>2, <1>3 DEF Leaves, Left

\* The removal of node i of path p; a file has no descriptor then.
LEMMA RemovedLeaves ==
  ASSUME FatInv, NEW p \in Path, NEW i, i.is_dir \/ Opened(p) = {}
  PROVE  Leaves({p}, FdsOfRemoved(p, i))
<1>1. CASE i.is_dir
  BY <1>1, LeftLeaves DEF FdsOfRemoved
<1>2. CASE ~ i.is_dir
  BY <1>2 DEF FdsOfRemoved, Left, Leaves, Opened
<1> QED
  BY <1>1, <1>2

\* The inodes of those paths leave the tree, or are replaced.
LEMMA CountsLeft ==
  ASSUME FatInv, NEW S, Leaves(S, fd'), Tree(inode'),
         \A q \in Path : inode'[q].count = IF q \in S THEN 0 ELSE inode[q].count
  PROVE  FatInv'
<1>1. DOMAIN fd' = Fd /\ \A f \in Fd : Descriptor(fd'[f])
  BY DEF FatInv, Leaves
<1>2. ASSUME NEW q \in Path, q \in S PROVE Opened(q)' = {}
  BY <1>2 DEF Opened, Live, Leaves
<1>3. ASSUME NEW q \in Path, q \notin S PROVE Opened(q)' = Opened(q)
  BY <1>3 DEF Opened, Live, Leaves
<1>4. \A q \in Path : inode'[q].count = Cardinality(Opened(q)')
  BY <1>2, <1>3, FS_EmptySet DEF FatInv
<1> QED
  BY <1>1, <1>4 DEF FatInv

\* A file without descriptors.
LEMMA NotOpened ==
  ASSUME FatInv, NEW p \in Path, inode[p].count = 0
  PROVE  Opened(p) = {}
BY OpenedFinite, FS_EmptySet DEF FatInv

-----------------------------------------------------------------------------
(* The calls                                                               *)

LEMMA FatInit ==
  ASSUME Init
  PROVE  FatInv
<1>1. Tree(inode)
  <2> DEFINE root == Inode(ROOT, 0, 0, TRUE)
  <2>1. \A p \in Path : inode[p] = NoInode \/ inode[p] = root
    BY DEF Init
  <2>2. DOMAIN inode = Path
    BY DEF Init
  <2>3. \A p \in Path : DOMAIN inode[p] = Fields /\ inode[p].count = 0
    <3>1. DOMAIN root = Fields /\ root.count = 0
      BY NoInodeCount
    <3> HIDE DEF root
    <3> QED
      BY <2>1, <3>1, NoInodeCount
  <2> QED
    BY <2>2, <2>3 DEF Tree
<1>2. DOMAIN fd = Fd /\ \A f \in Fd : Descriptor(fd[f])
  BY NoFdShape DEF Init
<1>3. \A p \in Path : inode[p].count = 0 /\ Opened(p) = {}
  BY NoInodeCount DEF Init, Opened, Live, NoFd
<1> QED
  BY <1>1, <1>2, <1>3, FS_EmptySet DEF FatInv

LEMMA StoredCounts ==
  ASSUME NEW t, Tree(t), NEW p, NEW seek, NEW n, NEW x
  PROVE  SameCounts(t, Stored(t, p, seek, n, x))
<1> DEFINE l == LoadAll(t, p, Ids(seek, n))
           u == Stored(t, p, seek, n, x)
<1>1. SameCounts(t, l) /\ Tree(l)
  BY LoadAllCounts DEF SameCounts
<1>2. PICK cache : u = [l EXCEPT ![p].cache = cache]
  BY DEF Stored
<1> HIDE DEF l, u
<1>3. DOMAIN u = Path /\ \A q \in Path : q # p => u[q] = l[q]
  BY <1>1, <1>2 DEF Tree
<1>4. p \in Path => DOMAIN u[p] = Fields /\ u[p].count = l[p].count
  BY <1>1, <1>2 DEF Tree, Fields
<1>5. SameCounts(l, u)
  BY <1>1, <1>3, <1>4 DEF Tree, SameCounts
<1> QED
  BY <1>1, <1>5, SameCountsTransitive DEF u

\* _fat_lseek, _fat_read, _fat_write: the seek of a descriptor changes.
LEMMA SeekKept ==
  ASSUME FatInv, NEW f \in Fd, NEW x, fd' = [fd EXCEPT ![f].seek = x],
         SameCounts(inode, inode')
  PROVE  FatInv'
<1>1. DOMAIN fd' = Fd
  BY DEF FatInv
<1>2. ASSUME NEW g \in Fd
      PROVE  /\ DOMAIN fd'[g] = DOMAIN fd[g]
             /\ fd'[g].allocated = fd[g].allocated /\ fd'[g].inode = fd[g].inode
             /\ fd'[g].node = fd[g].node
  BY DEF FatInv, Descriptor, FdFields
<1> QED
  BY <1>1, <1>2, CountsKept

\* _fat_readdir: its seek, and how far it has come.
LEMMA ListKept ==
  ASSUME FatInv, NEW f \in Fd, NEW x, NEW l, fd' = [fd EXCEPT ![f].seek = x, ![f].list = l],
         SameCounts(inode, inode')
  PROVE  FatInv'
<1>1. DOMAIN fd' = Fd
  BY DEF FatInv
<1>2. ASSUME NEW g \in Fd
      PROVE  /\ DOMAIN fd'[g] = DOMAIN fd[g]
             /\ fd'[g].allocated = fd[g].allocated /\ fd'[g].inode = fd[g].inode
             /\ fd'[g].node = fd[g].node
  BY DEF FatInv, Descriptor, FdFields
<1> QED
  BY <1>1, <1>2, CountsKept

LEMMA LookupKeeps ==
  ASSUME FatInv, NEW p \in Path, Lookup(p)
  PROVE  FatInv'
<1>1. SameCounts(inode, inode') /\ fd' = fd
  BY ResolveCounts DEF Lookup, FatInv
<1> QED
  BY <1>1, CountsKept DEF FatInv

LEMMA OpenExistingKeeps ==
  ASSUME FatInv, NEW p \in Path, NEW ro, OpenExisting(p, ro)
  PROVE  FatInv'
<1> DEFINE r == Resolve(inode, p)
<1>1. SameCounts(inode, r.tree) /\ Tree(r.tree)
  BY ResolveCounts DEF FatInv
<1>2. /\ FreeFd # FdMax /\ fd' = OpenFd(p, ro)
      /\ inode' = [r.tree EXCEPT ![p].count = @ + 1]
  BY DEF OpenExisting
<1> HIDE DEF r
<1>3. Tree(inode')
  BY <1>1, <1>2 DEF Tree, Fields
<1>4. \A q \in Path : inode'[q].count = inode[q].count + (IF q = p THEN 1 ELSE 0)
  BY <1>1, <1>2 DEF SameCounts, Tree, Fields, FatInv
<1> QED
  BY <1>2, <1>3, <1>4, CountsOpen

LEMMA OpenTruncateKeeps ==
  ASSUME FatInv, NEW p \in Path, OpenTruncate(p)
  PROVE  FatInv'
<1> DEFINE r == Resolve(inode, p)
           opened == [r.tree EXCEPT ![p].count = @ + 1, ![p].size = 0, ![p].lacks = 0]
           t == ReleaseCache(opened, p)
<1>1. SameCounts(inode, r.tree) /\ Tree(r.tree)
  BY ResolveCounts DEF FatInv
<1>2. FreeFd # FdMax /\ fd' = OpenFd(p, FALSE) /\ inode' = UpdateDirEntry(t, p)
  BY DEF OpenTruncate
<1> HIDE DEF r
<1>3. Tree(opened)
  BY <1>1 DEF Tree, Fields
<1>4. \A q \in Path : opened[q].count = inode[q].count + (IF q = p THEN 1 ELSE 0)
  BY <1>1 DEF SameCounts, Tree, Fields, FatInv
<1> HIDE DEF opened
<1>5. SameCounts(opened, t) /\ Tree(t)
  BY <1>3, ReleaseCacheCounts DEF SameCounts
<1> HIDE DEF t
<1>6. SameCounts(t, inode') /\ Tree(inode')
  BY <1>2, <1>5, UpdateDirEntryCounts DEF SameCounts
<1>7. \A q \in Path : inode'[q].count = inode[q].count + (IF q = p THEN 1 ELSE 0)
  BY <1>4, <1>5, <1>6 DEF SameCounts
<1> QED
  BY <1>2, <1>6, <1>7, CountsOpen

\* A node is made (_fat_open, _fat_mkdir): nothing had its path, so nobody has it open.
LEMMA NewNodeCounts ==
  ASSUME FatInv, NEW p \in Path, Resolve(inode, p).code = 1,
         NEW ino, DOMAIN ino = Fields, ino.count = 0
  PROVE  SameCounts(inode, AddDirEntry(Resolve(inode, p).tree, p, ino)) /\ inode[p].count = 0
<1> DEFINE t == Resolve(inode, p).tree
           u == AddDirEntry(t, p, ino)
<1>1. SameCounts(inode, t) /\ Tree(t) /\ t[p] = NoInode
  BY ResolveCounts DEF FatInv
<1> HIDE DEF t
<1>2. Tree(u) /\ u[p].count = 0 /\ \A q \in Path : q # p => u[q].count = t[q].count
  BY <1>1, AddDirEntryCounts
<1>3. inode[p].count = 0
  BY <1>1, NoInodeCount DEF SameCounts
<1> HIDE DEF u
<1>4. SameCounts(inode, u)
  BY <1>1, <1>2, <1>3 DEF SameCounts
<1> QED
  BY <1>3, <1>4 DEF u, t

LEMMA OpenCreateKeeps ==
  ASSUME FatInv, NEW p \in Path, NEW ro, OpenCreate(p, ro)
  PROVE  FatInv'
<1> DEFINE ino == Inode(END, 0, 0, FALSE)
           t == AddDirEntry(Resolve(inode, p).tree, p, ino)
           new == Flush(t, Front(p))
<1>1. /\ Resolve(inode, p).code = 1
      /\ IF FreeFd # FdMax
         THEN inode' = [new EXCEPT ![p].count = 1] /\ fd' = OpenFd(p, ro)
         ELSE inode' = new /\ UNCHANGED fd
  BY DEF OpenCreate
<1>2. DOMAIN ino = Fields /\ ino.count = 0
  BY NoInodeCount
<1> HIDE DEF ino
<1>3. SameCounts(inode, t) /\ Tree(t) /\ inode[p].count = 0
  BY <1>1, <1>2, NewNodeCounts DEF SameCounts
<1> HIDE DEF t
<1>4. SameCounts(inode, new) /\ Tree(new)
  BY <1>3, FlushCounts, SameCountsTransitive DEF SameCounts
<1> HIDE DEF new
<1>5. CASE FreeFd # FdMax
  <2>1. inode' = [new EXCEPT ![p].count = 1] /\ fd' = OpenFd(p, ro)
    BY <1>1, <1>5
  <2>2. Tree(inode')
    BY <1>4, <2>1 DEF Tree, Fields
  <2>3. \A q \in Path : inode'[q].count = inode[q].count + (IF q = p THEN 1 ELSE 0)
    BY <1>3, <1>4, <2>1 DEF SameCounts, Tree, Fields, FatInv
  <2> QED
    BY <1>5, <2>1, <2>2, <2>3, CountsOpen
<1>6. CASE FreeFd = FdMax
  BY <1>1, <1>4, <1>6, CountsKept DEF FatInv
<1> QED
  BY <1>5, <1>6

LEMMA MkdirKeeps ==
  ASSUME FatInv, NEW p \in Path, Mkdir(p)
  PROVE  FatInv'
<1>1. PICK c, buffer :
        inode' = Flush(Flush(AddDirEntry(Resolve(inode, p).tree, p,
                                         [Inode(c, 0, 0, TRUE) EXCEPT !.cache[0] = buffer]),
                             Front(p)), p)
  BY DEF Mkdir
<1>2. Resolve(inode, p).code = 1 /\ fd' = fd
  BY DEF Mkdir
<1> DEFINE ino == [Inode(c, 0, 0, TRUE) EXCEPT !.cache[0] = buffer]
<1>3. DOMAIN ino = Fields /\ ino.count = 0
  <2>1. PICK i : i = Inode(c, 0, 0, TRUE)
    OBVIOUS
  <2>2. DOMAIN i = Fields /\ i.count = 0
    BY <2>1, NoInodeCount
  <2>3. ino = [i EXCEPT !.cache[0] = buffer]
    BY <2>1
  <2> HIDE DEF ino
  <2> QED
    BY <2>2, <2>3 DEF Fields
<1> HIDE DEF ino
<1> DEFINE t == AddDirEntry(Resolve(inode, p).tree, p, ino)
<1>4. SameCounts(inode, t) /\ Tree(t)
  BY <1>2, <1>3, NewNodeCounts DEF SameCounts
<1>5. inode' = Flush(Flush(t, Front(p)), p)
  BY <1>1 DEF ino
<1> HIDE DEF t
<1>6. SameCounts(inode, Flush(t, Front(p))) /\ Tree(Flush(t, Front(p)))
  BY <1>4, FlushCounts, SameCountsTransitive DEF SameCounts
<1>7. SameCounts(inode, inode')
  BY <1>5, <1>6, FlushCounts, SameCountsTransitive
<1> QED
  BY <1>2, <1>7, CountsKept DEF FatInv

\* _fat_close.
LEMMA CloseKeeps ==
  ASSUME FatInv, NEW f \in Fd, Close(f)
  PROVE  FatInv'
<1> DEFINE p == fd[f].inode
           t == [inode EXCEPT ![p].count = @ - 1]
           dropped == [ReleaseCache(t, p) EXCEPT ![p].loose = @ /\ t[p].is_dir]
<1>1. /\ Live(f) /\ fd' = [fd EXCEPT ![f] = NoFd]
      /\ \/ inode' = t
         \/ inode' = dropped
         \/ inode' = Flush(dropped, Front(p))
  BY DEF Close, Ready
<1>2. p \in Path /\ inode[p].count \in Nat \ {0}
  <2>1. p \in Path /\ f \in Opened(p)
    BY <1>1 DEF FatInv, Opened, Descriptor
  <2>2. Cardinality(Opened(p)) \in Nat \ {0}
    BY <2>1, OpenedFinite, FS_EmptySet
  <2> QED
    BY <2>1, <2>2 DEF FatInv
<1>3. Tree(t)
  BY <1>2 DEF FatInv, Tree, Fields
<1>4. \A q \in Path : t[q].count = inode[q].count - (IF q = p THEN 1 ELSE 0)
  BY <1>2 DEF FatInv, Tree, Fields
<1> HIDE DEF t
<1>5. SameCounts(t, dropped) /\ Tree(dropped)
  <2>1. SameCounts(t, ReleaseCache(t, p)) /\ Tree(ReleaseCache(t, p))
    BY <1>3, ReleaseCacheCounts DEF SameCounts
  <2> QED
    BY <2>1 DEF SameCounts, Tree, Fields
<1> HIDE DEF dropped
<1>6. SameCounts(t, Flush(dropped, Front(p)))
  BY <1>5, FlushCounts, SameCountsTransitive
<1>7. SameCounts(t, inode')
  BY <1>1, <1>3, <1>5, <1>6 DEF SameCounts
<1>8. /\ Tree(inode')
      /\ \A q \in Path : inode'[q].count = inode[q].count - (IF q = p THEN 1 ELSE 0)
  BY <1>4, <1>7 DEF SameCounts
<1> QED
  BY <1>1, <1>8, CountsClose

LEMMA ReadKeeps ==
  ASSUME FatInv, NEW f \in Fd, NEW n, Read(f, n)
  PROVE  FatInv'
<1>1. SameCounts(inode, inode')
  BY LoadAllCounts DEF Read, FatInv
<1>2. fd' = [fd EXCEPT ![f].seek = fd[f].seek + n]
  BY DEF Read
<1> QED
  BY <1>1, <1>2, SeekKept

LEMMA OverwriteKeeps ==
  ASSUME FatInv, NEW f \in Fd, NEW n, NEW x, Overwrite(f, n, x)
  PROVE  FatInv'
<1>1. SameCounts(inode, inode')
  BY StoredCounts DEF Overwrite, FatInv
<1>2. fd' = [fd EXCEPT ![f].seek = fd[f].seek + n]
  BY DEF Overwrite
<1> QED
  BY <1>1, <1>2, SeekKept

LEMMA ExtendKeeps ==
  ASSUME FatInv, NEW f \in Fd, NEW n, NEW x, Extend(f, n, x)
  PROVE  FatInv'
<1> DEFINE p == fd[f].inode
           end == fd[f].seek + n
           old == Clusters(inode[p].size)
           more == Clusters(end) - old
           e == IF more = 0 THEN [vol |-> vol, ino |-> inode[p]] ELSE Extended(p, old, more)
           t == [inode EXCEPT ![p] = [e.ino EXCEPT !.size = end]]
<1>1. /\ fd' = [fd EXCEPT ![f].seek = end]
      /\ inode' = Stored(UpdateDirEntry(t, p), p, fd[f].seek, n, x)
  BY DEF Extend
<1>2. p \in Path /\ DOMAIN inode[p] = Fields
  BY DEF FatInv, Tree, Descriptor
<1>3. DOMAIN e.ino = Fields /\ e.ino.count = inode[p].count
  BY <1>2 DEF Extended, Fields
<1> HIDE DEF e, end
<1>4. SameCounts(inode, t) /\ Tree(t)
  BY <1>2, <1>3 DEF FatInv, SameCounts, Tree, Fields
<1> HIDE DEF t
<1>5. SameCounts(inode, UpdateDirEntry(t, p)) /\ Tree(UpdateDirEntry(t, p))
  BY <1>4, UpdateDirEntryCounts, SameCountsTransitive DEF SameCounts
<1>6. SameCounts(inode, inode')
  BY <1>1, <1>5, StoredCounts, SameCountsTransitive
<1> QED
  BY <1>1, <1>6, SeekKept

LEMMA ExtendFailsKeeps ==
  ASSUME FatInv, NEW f \in Fd, NEW n, ExtendFails(f, n)
  PROVE  FatInv'
<1> DEFINE p == fd[f].inode
<1>1. PICK old, got, size, lacks, e :
        /\ e = IF got = 0 THEN [vol |-> vol, ino |-> inode[p]] ELSE Extended(p, old, got)
        /\ inode' = [inode EXCEPT ![p] = [e.ino EXCEPT !.size = size, !.lacks = lacks]]
        /\ fd' = fd
  BY DEF ExtendFails
<1>2. p \in Path /\ DOMAIN inode[p] = Fields
  BY DEF FatInv, Tree, Descriptor
<1>3. DOMAIN e.ino = Fields /\ e.ino.count = inode[p].count
  BY <1>1, <1>2 DEF Extended, Fields
<1>4. SameCounts(inode, inode')
  BY <1>1, <1>2, <1>3 DEF FatInv, SameCounts, Tree, Fields
<1> QED
  BY <1>1, <1>4, CountsKept DEF FatInv

LEMMA ReaddirKeeps ==
  ASSUME FatInv, NEW f \in Fd, ReaddirEntry(f) \/ ReaddirBack(f)
  PROVE  FatInv'
<1>1. SameCounts(inode, inode')
  <2>1. CASE ReaddirEntry(f)
    BY <2>1, LoadAllCounts DEF ReaddirEntry, FatInv
  <2>2. CASE ReaddirBack(f)
    BY <2>2 DEF ReaddirBack, FatInv, SameCounts
  <2> QED
    BY <2>1, <2>2
<1>2. PICK x, l : fd' = [fd EXCEPT ![f].seek = x, ![f].list = l]
  <2>1. CASE ReaddirEntry(f)
    BY <2>1 DEF ReaddirEntry
  <2>2. CASE ReaddirBack(f)
    BY <2>2 DEF ReaddirBack
  <2> QED
    BY <2>1, <2>2
<1> QED
  BY <1>1, <1>2, ListKept

LEMMA LseekKeeps ==
  ASSUME FatInv, NEW f \in Fd, NEW x, Lseek(f, x)
  PROVE  FatInv'
<1>1. SameCounts(inode, inode') /\ fd' = [fd EXCEPT ![f].seek = x]
  BY DEF Lseek, FatInv, SameCounts
<1> QED
  BY <1>1, SeekKept

\* _fat_remove: its inode disappears; nobody has the node open, or it is a directory,
\* whose descriptors are left without it.
LEMMA RemoveNodeKeeps ==
  ASSUME FatInv, NEW p \in Path, RemoveNode(p)
  PROVE  FatInv'
<1> DEFINE r == Resolve(inode, p)
           l == RemoveDirEntry(r.tree, Front(p), r.tree[p].dentry)
           t == Flush(l, Front(p))
<1>1. /\ Removable(r.tree, p)
      /\ inode' = [t EXCEPT ![p] = NoInode] /\ fd' = FdsOfRemoved(p, r.tree[p])
  BY DEF RemoveNode, RemovedEntry
<1>2. SameCounts(inode, r.tree) /\ Tree(r.tree)
  BY ResolveCounts DEF FatInv
<1>3. r.tree[p].is_dir \/ Opened(p) = {}
  <2>1. CASE ~ r.tree[p].is_dir
    <3>1. inode[p].count = 0
      BY <1>1, <1>2, <2>1 DEF Removable, SameCounts
    <3> QED
      BY <3>1, NotOpened
  <2> QED
    BY <2>1
<1>4. Leaves({p}, fd')
  BY <1>1, <1>3, RemovedLeaves
<1>5. SameCounts(r.tree, l) /\ Tree(l)
  BY <1>2, RemoveDirEntryCounts DEF SameCounts
<1>6. SameCounts(inode, l)
  BY <1>2, <1>5, SameCountsTransitive
<1> HIDE DEF l
<1>7. SameCounts(inode, t) /\ Tree(t)
  BY <1>5, <1>6, FlushCounts, SameCountsTransitive DEF SameCounts
<1> HIDE DEF t
<1>8. Tree(inode')
  BY <1>1, <1>7, NoInodeCount DEF Tree
<1>9. \A q \in Path : inode'[q].count = IF q \in {p} THEN 0 ELSE inode[q].count
  BY <1>1, <1>7, NoInodeCount DEF SameCounts, Tree
<1> QED
  BY <1>4, <1>8, <1>9, CountsLeft

\* _fat_rename: the inodes of the old path and below it disappear, and the one of the new
\* path is replaced by an inode without descriptors; those of what moves, and of the
\* directory that it replaces, are left without their inode.
LEMMA RenameKeeps ==
  ASSUME FatInv, NEW p \in Path, NEW q \in Path, Rename(p, q)
  PROVE  FatInv'
<1> DEFINE r == Resolve(inode, p)
           s == Resolve(r.tree, q)
           old == s.tree[p]
           removed == s.tree[q]
           d == Front(q)
           source == {p} \cup Below(p)
           open == \E x \in source : s.tree[x].count > 0 \/ s.tree[x].loose
           ino == [old EXCEPT !.count = 0, !.loose = open]
           t1 == AddDirEntry(s.tree, q, ino)
           t2 == RemoveDirEntry(Flush(t1, d), Front(p), old.dentry)
           f2 == Flush(t2, Front(p))
           t3 == [x \in Path |-> IF IsPrefix(p, x) THEN NoInode ELSE f2[x]]
           l == RemoveDirEntry(t3, d, removed.dentry)
           replaced == [f \in Fd |-> IF fd[f].inode \in source THEN Left(source, "moved")[f]
                                     ELSE FdsOfRemoved(q, removed)[f]]
<1>1. \/ s.code = 1 /\ inode' = t3 /\ fd' = Left(source, "moved")
      \/ s.code = 0 /\ Removable(s.tree, q) /\ inode' = Flush(l, d) /\ fd' = replaced
  BY DEF Rename, RemovedEntry
<1> HIDE DEF open
<1>2. SameCounts(inode, r.tree) /\ Tree(r.tree)
  BY ResolveCounts DEF FatInv
<1> HIDE DEF r
<1>3. SameCounts(r.tree, s.tree) /\ Tree(s.tree) /\ (s.code = 1 => s.tree[q] = NoInode)
  BY <1>2, ResolveCounts
<1> HIDE DEF s
<1>4. SameCounts(inode, s.tree)
  BY <1>2, <1>3, SameCountsTransitive
<1>5. DOMAIN ino = Fields /\ ino.count = 0
  BY <1>3 DEF Tree, Fields
<1> HIDE DEF ino
<1>6. /\ Tree(t1) /\ t1[q].count = 0
      /\ \A x \in Path : x # q => t1[x].count = s.tree[x].count
  BY <1>3, <1>5, AddDirEntryCounts
<1> HIDE DEF t1
<1>7. SameCounts(t1, Flush(t1, d)) /\ Tree(Flush(t1, d))
  BY <1>6, FlushCounts DEF SameCounts
<1>8. SameCounts(t1, t2) /\ Tree(t2)
  <2>1. SameCounts(Flush(t1, d), t2)
    BY <1>7, RemoveDirEntryCounts
  <2> HIDE DEF t2
  <2> QED
    BY <1>7, <2>1, SameCountsTransitive DEF SameCounts
<1> HIDE DEF t2
<1>9. SameCounts(t1, f2) /\ Tree(f2)
  BY <1>8, FlushCounts, SameCountsTransitive DEF SameCounts
<1> HIDE DEF f2
<1>10. /\ Tree(t3)
       /\ \A x \in Path : t3[x].count = IF x \in source \cup {q} THEN 0 ELSE inode[x].count
  <2>1. \A x \in Path : IsPrefix(p, x) <=> x \in source
    <3>1. p \in Seq(STRING) /\ Len(p) \in Nat
      BY Fat32Assumption DEF Path
    <3>2. IsPrefix(p, p)
      BY <3>1 DEF IsPrefix
    <3> QED
      BY <3>2 DEF Below, IsStrictPrefix
  <2>2. ASSUME NEW x \in Path
        PROVE  /\ DOMAIN t3[x] = Fields
               /\ t3[x].count = IF x \in source \cup {q} THEN 0 ELSE inode[x].count
    <3>1. f2[x].count = IF x = q THEN 0 ELSE inode[x].count
      BY <1>4, <1>6, <1>9 DEF SameCounts
    <3>2. DOMAIN f2[x] = Fields
      BY <1>9 DEF Tree
    <3>3. t3[x] = IF x \in source THEN NoInode ELSE f2[x]
      BY <2>1
    <3> HIDE DEF t3, source
    <3> QED
      BY <3>1, <3>2, <3>3, NoInodeCount
  <2>3. DOMAIN t3 = Path
    OBVIOUS
  <2> HIDE DEF t3, source
  <2>4. \A x \in Path : inode[x].count \in Nat
    BY DEF FatInv, Tree
  <2>5. \A x \in Path : t3[x].count \in Nat
    BY <2>2, <2>4
  <2> QED
    BY <2>2, <2>3, <2>5 DEF Tree
<1> HIDE DEF t3, source
<1>11. Leaves(source, Left(source, "moved"))
  BY LeftLeaves
<1>12. CASE s.code = 1 /\ inode' = t3 /\ fd' = Left(source, "moved")
  <2>1. inode[q].count = 0
    BY <1>3, <1>4, <1>12, NoInodeCount DEF SameCounts
  <2>2. \A x \in Path : inode'[x].count = IF x \in source THEN 0 ELSE inode[x].count
    BY <1>10, <1>12, <2>1
  <2> QED
    BY <1>10, <1>11, <1>12, <2>2, CountsLeft
<1>13. CASE s.code = 0 /\ Removable(s.tree, q) /\ inode' = Flush(l, d) /\ fd' = replaced
  <2>1. SameCounts(t3, l) /\ Tree(l)
    BY <1>10, RemoveDirEntryCounts DEF SameCounts
  <2> HIDE DEF l
  <2>2. SameCounts(t3, inode') /\ Tree(inode')
    BY <1>13, <2>1, FlushCounts, SameCountsTransitive DEF SameCounts
  <2>3. removed.is_dir \/ Opened(q) = {}
    <3>1. CASE ~ removed.is_dir
      <4>1. inode[q].count = 0
        BY <1>4, <1>13, <3>1 DEF Removable, SameCounts
      <4> QED
        BY <4>1, NotOpened
    <3> QED
      BY <3>1
  <2>4. Leaves({q}, FdsOfRemoved(q, removed))
    BY <2>3, RemovedLeaves
  <2>5. Leaves(source \cup {q}, replaced)
    BY <1>11, <2>4 DEF Leaves
  <2>6. \A x \in Path : inode'[x].count = IF x \in source \cup {q} THEN 0 ELSE inode[x].count
    BY <1>10, <2>2 DEF SameCounts
  <2> HIDE DEF replaced
  <2> QED
    BY <1>13, <2>2, <2>5, <2>6, CountsLeft
<1> QED
  BY <1>1, <1>12, <1>13

\* A write to the device leaves the memory alone.
LEMMA DeviceWriteKeeps ==
  ASSUME FatInv, DeviceWrite \/ UNCHANGED vars
  PROVE  FatInv'
<1>1. inode' = inode /\ fd' = fd
  BY DEF DeviceWrite, vars, memory
<1> QED
  BY <1>1, CountsKept DEF FatInv, SameCounts

LEMMA FatStep ==
  ASSUME FatInv, [Next]_vars
  PROVE  FatInv'
<1>1. CASE DeviceWrite \/ UNCHANGED vars
  BY <1>1, DeviceWriteKeeps
<1>2. ASSUME NEW p \in Path, Lookup(p) \/ OpenTruncate(p) \/ RemoveNode(p) \/ Mkdir(p)
      PROVE  FatInv'
  BY <1>2, LookupKeeps, OpenTruncateKeeps, RemoveNodeKeeps, MkdirKeeps
<1>3. ASSUME NEW p \in Path, OpenExisting(p, TRUE) \/ OpenExisting(p, FALSE) \/ OpenCreate(p, FALSE)
      PROVE  FatInv'
  BY <1>3, OpenExistingKeeps, OpenCreateKeeps
<1>4. ASSUME NEW p \in Path, NEW q \in Path, Rename(p, q)
      PROVE  FatInv'
  BY <1>4, RenameKeeps
<1>5. ASSUME NEW f \in Fd, Close(f) \/ ReaddirEntry(f) \/ ReaddirBack(f)
      PROVE  FatInv'
  BY <1>5, CloseKeeps, ReaddirKeeps
<1>6. ASSUME NEW f \in Fd, NEW n \in Lengths, Read(f, n) \/ ExtendFails(f, n)
      PROVE  FatInv'
  BY <1>6, ReadKeeps, ExtendFailsKeeps
<1>7. ASSUME NEW f \in Fd, NEW n \in Lengths, NEW x \in Values,
             Overwrite(f, n, x) \/ Extend(f, n, x)
      PROVE  FatInv'
  BY <1>7, OverwriteKeeps, ExtendKeeps
<1>8. ASSUME NEW f \in Fd, NEW seek \in Offsets, Lseek(f, seek)
      PROVE  FatInv'
  BY <1>8, LseekKeeps
<1>9. FilePaths \subseteq Path /\ Listed \subseteq Path
  BY Fat32Assumption DEF Path
<1> QED
  BY <1>1, <1>2, <1>3, <1>4, <1>5, <1>6, <1>7, <1>8, <1>9 DEF Next, Call

-----------------------------------------------------------------------------
(* The theorem                                                             *)

\* An inode of the tree counts the descriptors that refer to it, so that _fat_close
\* flushes the caches when the last one is closed; and no descriptor loses its inode by
\* the removal or the replacement of a file, for which the count is tested
\* (fat32.c:3702, 3892): whatever the directories, the device and the number of
\* descriptors are. Descriptors do lose it by a rename and by the removal of a directory,
\* where the code tests nothing.
THEOREM DescriptorsAreCounted == Spec => []DescriptorsCounted
<1>1. Init => FatInv
  BY FatInit
<1>2. FatInv /\ [Next]_vars => FatInv'
  BY FatStep
<1>3. FatInv => DescriptorsCounted
  BY NoInodeCount DEF FatInv, Opened, Descriptor, DescriptorsCounted
<1> QED
  BY <1>1, <1>2, <1>3, PTL DEF Spec

=============================================================================
