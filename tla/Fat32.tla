-------------------------------- MODULE Fat32 --------------------------------
(***************************************************************************)
(* The FAT32 file system of the kernel (fat32.c). Memory holds the tree of *)
(* the inodes that a path went through, a File-Cache of clusters in each   *)
(* of them, the file descriptors, shared by all tasks, and the Fat-Cache;  *)
(* the block device holds the FAT, the FS_INFO sector, which nobody reads  *)
(* again here, and the clusters.                                           *)
(*                                                                         *)
(* Every call takes fat_lock for its whole duration, except for the tests  *)
(* of the arguments, and for _fat_readdir, which takes it for each entry   *)
(* it reads. The effect of a call on the memory is one step here; the      *)
(* blocks it writes to the device follow one at a time (writes), in the    *)
(* order of the code, and the lock is released after the last one. What a  *)
(* crash leaves on the device can so be examined between any two of them.  *)
(*                                                                         *)
(* An inode is named by its path: the code finds it by its path, and a     *)
(* rename makes a new inode. A directory entry stands for the LFN entry    *)
(* and the NORMAL entry of one name (names have at most 13 characters);    *)
(* "." and ".." are left out. A directory has one cluster.                 *)
(*                                                                         *)
(* A descriptor holds a pointer on an inode. Neither a rename nor the      *)
(* removal of a directory looks at the descriptors: they leave some whose  *)
(* inode was freed, or whose parent was (fd[f].node). What a call through  *)
(* such a descriptor does is undefined, and not modelled.                  *)
(*                                                                         *)
(* A volume is the table of the chains, held in the Fat-Cache, with the    *)
(* two words of the descriptor that accelerate the allocation, the         *)
(* smallest free cluster and the number of free clusters. Its fat has one  *)
(* entry per cluster: FREE, END, or the next cluster of the chain. Entries *)
(* 0 and 1 are reserved. END stands for the values from                    *)
(* END_OF_CHAIN_CLUSTER_MIN on.                                            *)
(*                                                                         *)
(* The allocator hands out first_free_cluster without a look at its entry, *)
(* and searches the next free one behind it. The last free cluster of the  *)
(* volume is therefore never handed out.                                   *)
(***************************************************************************)
EXTENDS Naturals, FiniteSets, FiniteSetsExt, SequencesExt

CONSTANTS
  Entries,        \* number of entries of the FAT
  DirPaths,       \* the paths at which applications make directories
  FilePaths,      \* the paths at which applications make files
  ClusterSize,    \* bytes of a cluster (4096)
  MaxSize,        \* bound: the largest file
  FdMax,          \* GIET_OPEN_FILES_MAX
  Slots,          \* entries in the cluster of a directory (128, and 2 to 4 per name)
  Values,         \* the values that applications write
  Lengths,        \* the numbers of bytes that they transfer in a call
  Offsets,        \* the offsets that they seek
  Listed,         \* bound: the directories that they list
  Refused,        \* bound: the files that lack clusters at the same time
  Recycled,       \* the names that may be left in a block of the kernel heap
  Habits          \* which of the uses that the code does not survive are made:
                  \* "empty": a file without a cluster is truncated, removed or replaced;
                  \* "refused": a file that was refused clusters by a write (it returned
                  \* NO_FREE_SPACE) is read, written or moved again

ASSUME FatAssumption == Entries \in Nat /\ Entries > 3

ASSUME Fat32Assumption ==
  /\ <<>> \in DirPaths
  /\ DirPaths \cup FilePaths \subseteq Seq(STRING)
  /\ DirPaths \cap FilePaths = {}
  /\ \A p \in DirPaths \cup FilePaths : p # <<>> => Front(p) \in DirPaths
  /\ {ClusterSize, MaxSize, FdMax, Slots} \subseteq Nat \ {0} /\ Refused \in Nat
  /\ Lengths \subseteq 1 .. MaxSize /\ Offsets \subseteq 0 .. MaxSize
  /\ Listed \subseteq DirPaths
  /\ \A p \in DirPaths \cup FilePaths : p # <<>> => Last(p) \notin Recycled
  /\ Slots # ClusterSize      \* so that a block tells whether it is a directory

\* Bound: the clusters of a file fit one node of its File-Cache. A truncation sets
\* the levels of the cache to 1 before it releases the memory of the deeper tree.
ASSUME OneLevelAssumption == MaxSize <= 64 * ClusterSize

\* The paths of the runs: a directory, a file outside it and a file inside.
MCDirs == {<<>>, <<"d">>}
MCFiles == {<<"a">>, <<"d", "b">>}
MCListed == {<<"d">>}

FREE == 0
END == Entries

Cluster == 2 .. Entries - 1

Path == DirPaths \cup FilePaths
Fd == 0 .. FdMax - 1
ROOT == 2                                   \* cluster of the root directory

Clusters(size) ==                           \* clusters of a file of this size
  size \div ClusterSize + (IF size % ClusterSize = 0 THEN 0 ELSE 1)
Id == 0 .. Clusters(MaxSize) - 1            \* cluster_id, index in a File-Cache

Junk == "junk"                              \* a byte of memory that nobody initialised
JunkBuffer == [o \in 0 .. ClusterSize - 1 |-> Junk]

NoMore == [ord |-> "no_more", name |-> "", cluster |-> 0, size |-> 0, is_dir |-> FALSE]
Freed == [NoMore EXCEPT !.ord = "free"]
EmptyTable == [s \in 0 .. Slots - 1 |-> NoMore]

\* What is behind "." and ".." in the buffer of a new directory: a block of the heap
\* that nobody clears. Bound: at most one entry, of a name that no application uses.
RecycledTables ==
  {EmptyTable} \cup
  {[EmptyTable EXCEPT ![0] = [NoMore EXCEPT !.ord = "used", !.name = x]] : x \in Recycled}

NoDesc == [lba |-> 0, buffer |-> <<>>, dirty |-> FALSE]

\* Two fields of an inode are not in the code: lacks, the number of clusters that its
\* size asks for and that the volume refused; loose, it is a file that was moved while
\* open and was not closed since, or a directory that was moved with such a file.
NoInode == [cluster |-> 0, size |-> 0, count |-> 0, dentry |-> 0, is_dir |-> FALSE,
            cache |-> [i \in Id |-> NoDesc], lacks |-> 0, loose |-> FALSE]

\* Two fields of a descriptor are not in the code: node, what became of the inode it
\* points to ("kept", "moved", "rmdir" or "unlinked"); list, where the call of
\* _fat_readdir on it is ("no", "reading", or "back": it has met the end).
NoFd == [allocated |-> FALSE, inode |-> <<>>, seek |-> 0, read_only |-> FALSE,
         node |-> "kept", list |-> "no"]

VARIABLES
  vol,            \* the Fat-Cache and the two words of the FAT descriptor
  inode,          \* the Inode-Tree: path -> inode, or NoInode
  fd,             \* _fat.fd[]
  fatDisk,        \* the FAT on the block device
  disk,           \* the clusters of the DATA region
  writes,         \* the device writes that the current call has still to make
  reply           \* what the last call returned to its caller

memory == <<vol, inode, fd>>
device == <<fatDisk, disk>>
vars == <<memory, device, writes, reply>>

-----------------------------------------------------------------------------
(* Chains of a volume                                                      *)

\* The k-th cluster of the chain that starts in c (_get_buffer_from_cache,
\* _clusters_allocate: current = _get_fat_entry( current ), k times).
Nth(fat, c, k) ==
  LET f[i \in 0 .. k] ==
        IF i = 0 THEN c ELSE IF f[i - 1] < Entries THEN fat[f[i - 1]] ELSE END
  IN f[k]

\* The clusters of the chain, as _clusters_release visits them: it stops on
\* an entry that ends a chain, and nowhere else.
Chain(fat, c) == {Nth(fat, c, k) : k \in 0 .. Entries} \ {END}

\* The cluster from which _clusters_allocate goes on; END if there is none.
LastOf(fat, c) ==
  IF c >= END THEN END
  ELSE CHOOSE d \in Chain(fat, c) : fat[d] >= END

-----------------------------------------------------------------------------
(* Allocation and release                                                  *)

FreeClusters(fat) == {c \in Cluster : fat[c] = FREE}

\* The free clusters that the search of _allocate_one_cluster can find.
Behind(v) == {c \in FreeClusters(v.fat) : c > v.first_free_cluster}

\* n calls of _allocate_one_cluster succeed.
CanAllocate(v, n) ==
  n <= v.free_clusters_number /\ n <= Cardinality(Behind(v))

\* The clusters that n calls of _allocate_one_cluster hand out, in order.
Taken(v, n) ==
  <<v.first_free_cluster>> \o SubSeq(SetToSortSeq(Behind(v), <), 1, n - 1)

\* The chain of the file is extended (or started, last = END) by the clusters
\* of the sequence cs.
Linked(fat, last, cs) ==
  [c \in DOMAIN fat |->
     IF c = cs[Len(cs)] THEN END
     ELSE IF \E i \in 1 .. Len(cs) - 1 : cs[i] = c
          THEN cs[1 + CHOOSE i \in 1 .. Len(cs) - 1 : cs[i] = c]
     ELSE IF c = last THEN cs[1] ELSE fat[c]]

\* _clusters_allocate behind cluster last, n calls of _allocate_one_cluster.
Allocate(v, last, n) ==
  [fat |-> Linked(v.fat, last, Taken(v, n)),
   free_clusters_number |-> v.free_clusters_number - n,
   first_free_cluster |-> SetToSortSeq(Behind(v), <)[n]]

\* Faulty variant: the smallest free cluster is not updated by a release.
FreedFirstForgotten(v, c) == v.first_free_cluster

\* The smallest free cluster once the chain of c is released.
FreedFirst(v, c) == Min(Chain(v.fat, c) \cup {v.first_free_cluster})

\* _clusters_release of the chain that starts in c.
Release(v, c) ==
  [fat |-> [d \in DOMAIN v.fat |-> IF d \in Chain(v.fat, c) THEN FREE ELSE v.fat[d]],
   free_clusters_number |-> v.free_clusters_number + Cardinality(Chain(v.fat, c)),
   first_free_cluster |-> FreedFirst(v, c)]

\* What _fat_init finds on a volume that holds nothing but the root directory.
Formatted ==
  [fat |-> [c \in 0 .. Entries - 1 |-> IF c < 3 THEN END ELSE FREE],
   free_clusters_number |-> Entries - 3,
   first_free_cluster |-> 3]

-----------------------------------------------------------------------------
(* What the two words of the descriptor promise                            *)

\* fat32.h: "free cluster with smallest index", "total number of free
\* clusters".
DescriptorExact(v) ==
  /\ v.free_clusters_number = Cardinality(FreeClusters(v.fat))
  /\ FreeClusters(v.fat) # {} => v.first_free_cluster = Min(FreeClusters(v.fat))

-----------------------------------------------------------------------------
(* Caches. t is an Inode-Tree.                                             *)

Inode(cluster, size, dentry, is_dir) ==
  [NoInode EXCEPT !.cluster = cluster, !.size = size, !.dentry = dentry, !.is_dir = is_dir]

\* The clusters of the device, once the current call has made all its writes;
\* a call that starts finds them on the device.
Settled ==
  [c \in Cluster |->
     LET w == {k \in DOMAIN writes : writes[k].region = "data" /\ writes[k].lba = c}
     IN IF w = {} THEN disk[c] ELSE writes[Max(w)].block]

\* _get_buffer_from_cache: the descriptor of a cluster, loaded from the
\* device in case of miss.
Loaded(ino, id) ==
  IF ino.cache[id] # NoDesc THEN ino.cache[id]
  ELSE LET c == Nth(vol.fat, ino.cluster, id)
       IN [lba |-> c, buffer |-> Settled[c], dirty |-> FALSE]

\* The same, for all the clusters that a call needs.
LoadAll(t, p, ids) ==
  [t EXCEPT ![p].cache = [i \in Id |-> IF i \in ids THEN Loaded(t[p], i) ELSE @[i]]]

\* The clusters of a file; and it has all those that its size asks for.
Held(ino) == Clusters(ino.size) - ino.lacks
Usable(ino) == ino.lacks = 0 \/ "refused" \in Habits

\* The clusters that _get_buffer_from_cache can give access to.
Accessible(ino, ids) ==
  \A i \in ids : ino.cache[i] # NoDesc \/ Nth(vol.fat, ino.cluster, i) \in Cluster

\* _update_device_from_cache on a File-Cache: the dirty clusters, in order,
\* become clean; and what is written.
Flush(t, p) == [t EXCEPT ![p].cache = [i \in Id |-> [@[i] EXCEPT !.dirty = FALSE]]]

FlushWrites(t, p) ==
  LET dirty == SetToSortSeq({i \in Id : t[p].cache[i].dirty}, <)
  IN [k \in DOMAIN dirty |->
        LET d == t[p].cache[dirty[k]]
        IN [region |-> "data", lba |-> d.lba, block |-> d.buffer]]

\* The entries of the FAT stay in memory.
FatWriteForgotten(v) == <<>>

\* _update_device_from_cache on the Fat-Cache (one buffer of it), and
\* _update_fs_info, after which v is the state of the descriptor.
FatWrite(v) ==
  IF v.fat = fatDisk THEN <<>> ELSE <<[region |-> "fat", lba |-> 0, block |-> v.fat]>>

InfoWrite(v) ==
  <<[region |-> "info", lba |-> 0,
     block |-> [free_clusters |-> v.free_clusters_number,
                free_cluster_hint |-> v.first_free_cluster]]>>

\* The clusters that a truncated file had stay in its File-Cache.
ReleaseCacheForgotten(t, p) == t

\* _release_cache_memory
ReleaseCache(t, p) == [t EXCEPT ![p].cache = NoInode.cache]

-----------------------------------------------------------------------------
(* Directories                                                             *)

Table(t, d) == t[d].cache[0].buffer

\* The first entry after the last one in use.
NoMoreSlot(t, d) == Min({s \in 0 .. Slots - 1 : Table(t, d)[s].ord = "no_more"} \cup {Slots})

\* _get_child_from_parent, when the name is not in the Inode-Tree: the first
\* entry of that name before the end of the directory.
EntriesOf(t, d, name) ==
  {s \in 0 .. NoMoreSlot(t, d) - 1 :
     Table(t, d)[s].ord = "used" /\ Table(t, d)[s].name = name}

\* _get_inode_from_path: code 0 (found), 1 (only the parent is found) or 2,
\* and the tree with the inodes and the directory clusters that were loaded,
\* one name of the path at a time: up is what the search of its parent gave.
Descend(up, path, k) ==
  LET d == SubSeq(path, 1, k - 1)
      p == SubSeq(path, 1, k)
      t == LoadAll(up.tree, d, {0})
      found == EntriesOf(t, d, path[k])
      e == Table(t, d)[Min(found)]
  IN IF up.code # 0 THEN [up EXCEPT !.code = 2]
     ELSE IF up.tree[p] # NoInode THEN up
     ELSE IF found = {} THEN [code |-> 1, tree |-> t]
     ELSE [code |-> 0, tree |-> [t EXCEPT
             ![p] = Inode(e.cluster, e.size, Min(found), e.is_dir)]]

Resolve(t0, path) ==
  LET walk[k \in 0 .. Len(path)] ==
        IF k = 0 THEN [code |-> 0, tree |-> t0] ELSE Descend(walk[k - 1], path, k)
  IN walk[Len(path)]

\* _add_dir_entry: the entry of inode ino takes the place of the NO_MORE entry
\* of its parent, and the inode remembers where it is.
AddDirEntry(t0, p, ino) ==
  LET d == Front(p)
      t == LoadAll(t0, d, {0})
      s == NoMoreSlot(t, d)
  IN [t EXCEPT ![d].cache[0].buffer[s] = [ord |-> "used", name |-> Last(p),
                 cluster |-> ino.cluster, size |-> ino.size, is_dir |-> ino.is_dir],
               ![d].cache[0].dirty = TRUE,
               ![p] = [ino EXCEPT !.dentry = s]]

\* There is a place for the entry, and for the NO_MORE entry behind it.
HasPlace(t, d) == NoMoreSlot(LoadAll(t, d, {0}), d) < Slots - 1

\* _remove_dir_entry, for the entry of index s of directory d.
RemoveDirEntry(t, d, s) ==
  [LoadAll(t, d, {0}) EXCEPT ![d].cache[0].buffer[s] = Freed, ![d].cache[0].dirty = TRUE]

\* _update_dir_entry: first cluster and size of inode p in its entry.
UpdateDirEntry(t, p) ==
  LET d == Front(p)
  IN [LoadAll(t, d, {0}) EXCEPT
        ![d].cache[0].buffer[t[p].dentry].size = t[p].size,
        ![d].cache[0].buffer[t[p].dentry].cluster = t[p].cluster,
        ![d].cache[0].dirty = TRUE]

\* _get_nb_entries, without the special entries "." and "..".
NbEntries(t, d) ==
  Cardinality({s \in 0 .. NoMoreSlot(t, d) - 1 : Table(t, d)[s].ord = "used"})

-----------------------------------------------------------------------------
(* The calls. A call starts when no other one holds fat_lock. A call that  *)
(* fails on its arguments returns an error and changes nothing, but for    *)
(* the inodes that it loaded (Lookup).                                     *)

Idle == writes = <<>>

\* _fat_init on a formatted volume
Init ==
  /\ vol = Formatted
  /\ inode = [p \in Path |-> IF p = <<>> THEN Inode(ROOT, 0, 0, TRUE) ELSE NoInode]
  /\ fd = [f \in Fd |-> NoFd]
  /\ fatDisk = Formatted.fat
  /\ disk = [c \in Cluster |-> IF c = ROOT THEN EmptyTable ELSE JunkBuffer]
  /\ writes = <<>>
  /\ reply = <<>>

\* A path is searched, and the call returns an error (file not found, exists,
\* is a directory, still referenced, not empty, no descriptor left ...). When it loads
\* nothing, and the last call had no result either, it is a stuttering step.
Lookup(p) ==
  /\ Idle
  /\ inode' = Resolve(inode, p).tree
  /\ reply' = <<>>
  /\ <<inode', reply'>> # <<inode, reply>>
  /\ UNCHANGED <<vol, fd, device, writes>>

\* The descriptor that _fat_open takes; FdMax if there is none.
FreeFd == Min({f \in Fd : ~fd[f].allocated} \cup {FdMax})

\* The descriptor is not marked as allocated.
OpenFdUnmarked(p, read_only) == [fd EXCEPT ![FreeFd].inode = p]

OpenFd(p, read_only) ==
  [fd EXCEPT ![FreeFd] = [allocated |-> TRUE, inode |-> p, seek |-> 0,
                          read_only |-> read_only, node |-> "kept", list |-> "no"]]

\* The inode of the descriptor is that of its path.
Live(f) == fd[f].allocated /\ fd[f].node = "kept"

\* A call can use the descriptor: one task at a time does.
Ready(f) == Idle /\ Live(f) /\ fd[f].list = "no"

\* The descriptors whose inode a call frees, or takes out of the tree.
Left(paths, node) ==
  [f \in Fd |-> IF Live(f) /\ fd[f].inode \in paths
                THEN [NoFd EXCEPT !.allocated = TRUE, !.node = node]
                ELSE fd[f]]

\* _fat_open on a file or directory that exists, without truncation.
OpenExisting(p, read_only) ==
  LET r == Resolve(inode, p)
  IN /\ Idle /\ r.code = 0 /\ FreeFd # FdMax
     /\ inode' = [r.tree EXCEPT ![p].count = @ + 1]
     /\ fd' = OpenFd(p, read_only)
     /\ reply' = <<>>
     /\ UNCHANGED <<vol, device, writes>>

\* The clusters of inode i may be released: a file that never got a cluster,
\* or lost it by a truncation, keeps a stale index.
HasClusters(i) == i.is_dir \/ Held(i) > 0 \/ ("empty" \in Habits /\ i.cluster \in Cluster)

\* _fat_open with O_TRUNC on a file: the clusters are released, but the inode
\* keeps the index of the first one.
OpenTruncate(p) ==
  LET r == Resolve(inode, p)
      t == ReleaseCache([r.tree EXCEPT ![p].count = @ + 1, ![p].size = 0,
                                            ![p].lacks = 0], p)
      v == Release(vol, r.tree[p].cluster)
  IN /\ Idle /\ r.code = 0 /\ FreeFd # FdMax
     /\ ~r.tree[p].is_dir
     /\ HasClusters(r.tree[p])
     /\ fd' = OpenFd(p, FALSE)
     /\ vol' = v
     /\ inode' = UpdateDirEntry(t, p)
     /\ writes' = FatWrite(v)
     /\ reply' = <<>>
     /\ UNCHANGED device

\* _fat_open with O_CREATE on a file that does not exist: it is created, even
\* when no descriptor is left for it.
OpenCreate(p, read_only) ==
  LET r == Resolve(inode, p)
      d == Front(p)
      t == AddDirEntry(r.tree, p, Inode(END, 0, 0, FALSE))
      new == Flush(t, d)
  IN /\ Idle /\ r.code = 1 /\ p \in FilePaths /\ HasPlace(r.tree, d)
     /\ writes' = FlushWrites(t, d) \o FatWrite(vol) \o InfoWrite(vol)
     /\ IF FreeFd # FdMax
        THEN inode' = [new EXCEPT ![p].count = 1] /\ fd' = OpenFd(p, read_only)
        ELSE inode' = new /\ UNCHANGED fd
     /\ reply' = <<>>
     /\ UNCHANGED <<vol, device>>

\* _fat_close: the last descriptor of an inode writes its dirty clusters and
\* its parent's, then drops its File-Cache.
Close(f) ==
  LET p == fd[f].inode
      t == [inode EXCEPT ![p].count = @ - 1]
      dropped == [ReleaseCache(t, p) EXCEPT ![p].loose = @ /\ t[p].is_dir]
      d == Front(p)
  IN /\ Ready(f)
     /\ fd' = [fd EXCEPT ![f] = NoFd]
     /\ \/ /\ t[p].count > 0
           /\ inode' = t
           /\ UNCHANGED writes
        \/ /\ t[p].count = 0
           /\ inode' = IF p = <<>> THEN dropped ELSE Flush(dropped, d)
           /\ writes' = FlushWrites(t, p) \o IF p = <<>> THEN <<>> ELSE FlushWrites(t, d)
     /\ reply' = <<>>
     /\ UNCHANGED <<vol, device>>

-----------------------------------------------------------------------------
(* Transfers between the caller and the File-Cache                         *)

\* The clusters that a transfer of n bytes at offset seek goes through, and
\* the bytes it moves in each of them (from the offset of the first one in
\* every cluster, in the faulty variant).
Ids(seek, n) == seek \div ClusterSize .. (seek + n - 1) \div ClusterSize

PieceFromSeek(seek, n, id) ==
  seek % ClusterSize ..
  (IF id = (seek + n - 1) \div ClusterSize THEN (seek + n - 1) % ClusterSize
                                           ELSE ClusterSize - 1)

Piece(seek, n, id) ==
  (IF id = seek \div ClusterSize THEN seek % ClusterSize ELSE 0) ..
  (IF id = (seek + n - 1) \div ClusterSize THEN (seek + n - 1) % ClusterSize
                                           ELSE ClusterSize - 1)

\* _fat_read on a file; beyond the end of the file it returns 0 bytes.
Read(f, n) ==
  LET p == fd[f].inode
      seek == fd[f].seek
      t == LoadAll(inode, p, Ids(seek, n))
  IN /\ Ready(f) /\ ~inode[p].is_dir
     /\ seek + n <= inode[p].size
     /\ Usable(inode[p]) /\ Accessible(inode[p], Ids(seek, n))
     /\ inode' = t
     /\ fd' = [fd EXCEPT ![f].seek = seek + n]
     /\ reply' = [k \in 1 .. n |->
                    LET o == seek + k - 1
                    IN t[p].cache[o \div ClusterSize].buffer[o % ClusterSize]]
     /\ UNCHANGED <<vol, device, writes>>

\* The loop of _fat_write: n bytes of value x at offset seek of inode p.
Stored(t0, p, seek, n, x) ==
  LET t == LoadAll(t0, p, Ids(seek, n))
  IN [t EXCEPT ![p].cache = [id \in Id |->
        IF id \notin Ids(seek, n) THEN @[id]
        ELSE [@[id] EXCEPT !.dirty = TRUE,
                !.buffer = [o \in DOMAIN @ |-> IF o \in Piece(seek, n, id) THEN x ELSE @[o]]]]]

\* _fat_write that stays within the file.
Overwrite(f, n, x) ==
  LET p == fd[f].inode
      seek == fd[f].seek
  IN /\ Ready(f) /\ ~fd[f].read_only /\ ~inode[p].is_dir
     /\ seek + n <= inode[p].size
     /\ Usable(inode[p]) /\ Accessible(inode[p], Ids(seek, n))
     /\ inode' = Stored(inode, p, seek, n, x)
     /\ fd' = [fd EXCEPT ![f].seek = seek + n]
     /\ reply' = <<>>
     /\ UNCHANGED <<vol, device, writes>>

\* _clusters_allocate for inode p, that has old clusters and gets more of
\* them: the volume, and the inode with buffers that are not initialised.
Extended(p, old, more) ==
  LET last == IF old = 0 THEN END ELSE LastOf(vol.fat, inode[p].cluster)
      cs == Taken(vol, more)
  IN [vol |-> Allocate(vol, last, more),
      ino |-> [inode[p] EXCEPT
                 !.cluster = IF old = 0 THEN cs[1] ELSE @,
                 !.cache = [i \in Id |->
                    IF i \in old .. old + more - 1
                    THEN [lba |-> cs[i - old + 1], buffer |-> JunkBuffer, dirty |-> TRUE]
                    ELSE @[i]]]]

\* _fat_write beyond the end of the file: new size, new clusters if it needs
\* some, new directory entry, then the data.
Extend(f, n, x) ==
  LET p == fd[f].inode
      end == fd[f].seek + n
      old == Clusters(inode[p].size)
      more == Clusters(end) - old
      e == IF more = 0 THEN [vol |-> vol, ino |-> inode[p]] ELSE Extended(p, old, more)
      t == [inode EXCEPT ![p] = [e.ino EXCEPT !.size = end]]
  IN /\ Ready(f) /\ ~fd[f].read_only /\ ~inode[p].is_dir
     /\ end > inode[p].size
     /\ end <= MaxSize
     /\ Usable(inode[p]) /\ CanAllocate(vol, more)
     /\ vol' = e.vol
     /\ inode' = Stored(UpdateDirEntry(t, p), p, fd[f].seek, n, x)
     /\ fd' = [fd EXCEPT ![f].seek = end]
     /\ writes' = IF more = 0 THEN <<>> ELSE FatWrite(e.vol)
     /\ reply' = <<>>
     /\ UNCHANGED device

\* _clusters_allocate does not count the last free cluster, which it cannot hand out: the
\* clusters that it has handed out when it fails.
Granted(v, n) == IF n > v.free_clusters_number THEN 0 ELSE Cardinality(Behind(v))

\* The same, when the volume is full: the size is raised and the file keeps the clusters
\* that it got, but neither the directory nor the device learns of it.
ExtendFails(f, n) ==
  LET p == fd[f].inode
      end == fd[f].seek + n
      old == Clusters(inode[p].size)
      more == Clusters(end) - old
      got == Granted(vol, more)
      e == IF got = 0 THEN [vol |-> vol, ino |-> inode[p]] ELSE Extended(p, old, got)
  IN /\ Ready(f) /\ ~fd[f].read_only /\ ~inode[p].is_dir
     /\ end > inode[p].size
     /\ end <= MaxSize
     /\ Usable(inode[p]) /\ ~CanAllocate(vol, more)
     /\ Cardinality({q \in Path : inode[q].lacks > 0}) < Refused
     /\ vol' = e.vol
     /\ inode' = [inode EXCEPT ![p] = [e.ino EXCEPT !.size = end, !.lacks = more - got]]
     /\ reply' = <<>>
     /\ UNCHANGED <<fd, device, writes>>

\* _fat_lseek
Lseek(f, seek) ==
  /\ Ready(f) /\ ~inode[fd[f].inode].is_dir
  /\ fd' = [fd EXCEPT ![f].seek = seek]
  /\ reply' = <<>>
  /\ UNCHANGED <<vol, inode, device, writes>>

\* _fat_readdir, a turn of its loop: _fat_read of the entry at the offset. A freed entry
\* is skipped, an entry in use is returned, and the end is seen.
ReaddirEntry(f) ==
  LET d == fd[f].inode
      t == LoadAll(inode, d, {0})
      e == Table(t, d)[fd[f].seek]
      next(list) == [fd EXCEPT ![f].seek = @ + 1, ![f].list = list]
  IN /\ Idle /\ Live(f) /\ inode[d].is_dir /\ fd[f].list # "back"
     /\ inode' = t
     /\ \/ e.ord = "free" /\ fd' = next("reading") /\ UNCHANGED reply
        \/ e.ord = "used" /\ fd' = next("no") /\ reply' = <<e.name>>
        \/ e.ord = "no_more" /\ fd' = next("back") /\ UNCHANGED reply
     /\ UNCHANGED <<vol, device, writes>>

\* The end of the directory: the offset goes back to it, under the lock taken again,
\* and the call returns NO_MORE_ENTRIES.
ReaddirBack(f) ==
  /\ Idle /\ Live(f) /\ fd[f].list = "back"
  /\ fd' = [fd EXCEPT ![f].seek = @ - 1, ![f].list = "no"]
  /\ reply' = <<>>
  /\ UNCHANGED <<vol, inode, device, writes>>

-----------------------------------------------------------------------------
(* Calls on the tree                                                       *)

\* A file that has descriptors is removed.
RemovableUnchecked(t, p) ==
  t[p].is_dir => NbEntries(LoadAll(t, p, {0}), p) = 0

\* What _fat_remove and _fat_rename require of the node they remove.
Removable(t, p) ==
  IF t[p].is_dir THEN NbEntries(LoadAll(t, p, {0}), p) = 0 ELSE t[p].count = 0

\* The descriptors of p once its node i is removed.
FdsOfRemoved(p, i) == Left({p}, IF i.is_dir THEN "rmdir" ELSE "unlinked")

\* The clusters are released before the entry is invalidated.
RemoveWritesSwapped(t, d, i) ==
  FatWrite(Release(vol, i.cluster)) \o FlushWrites(RemoveDirEntry(t, d, i.dentry), d)

\* _remove_node_from_fs: inode i, whose entry is in directory d of tree t; the
\* entry is invalidated on the device, then the clusters are released.
RemoveWrites(t, d, i) ==
  FlushWrites(RemoveDirEntry(t, d, i.dentry), d) \o FatWrite(Release(vol, i.cluster))

RemovedEntry(t, d, i) == Flush(RemoveDirEntry(t, d, i.dentry), d)

\* _fat_remove
RemoveNode(p) ==
  LET r == Resolve(inode, p)
      i == r.tree[p]
      d == Front(p)
  IN /\ Idle /\ p # <<>> /\ r.code = 0
     /\ Removable(r.tree, p) /\ HasClusters(i)
     /\ vol' = Release(vol, i.cluster)
     /\ inode' = [RemovedEntry(r.tree, d, i) EXCEPT ![p] = NoInode]
     /\ writes' = RemoveWrites(r.tree, d, i)
     /\ fd' = FdsOfRemoved(p, i)
     /\ reply' = <<>>
     /\ UNCHANGED device

Below(p) == {x \in Path : IsStrictPrefix(p, x)}

\* _fat_rename of p into q: the new entry is written, then the old one is
\* invalidated, then the node that had the new name is removed. The new inode
\* takes the File-Cache of the old one, but not its descriptors; the inodes
\* below p are no more in the tree.
Rename(p, q) ==
  LET r == Resolve(inode, p)
      s == Resolve(r.tree, q)
      old == s.tree[p]
      removed == s.tree[q]
      d == Front(q)
      open == \E x \in {p} \cup Below(p) : s.tree[x].count > 0 \/ s.tree[x].loose
      new == [old EXCEPT !.count = 0, !.loose = open]
      t1 == AddDirEntry(s.tree, q, new)
      t2 == RemoveDirEntry(Flush(t1, d), Front(p), old.dentry)
      t3 == [x \in Path |-> IF IsPrefix(p, x) THEN NoInode ELSE Flush(t2, Front(p))[x]]
      moved == FlushWrites(t1, d) \o FlushWrites(t2, Front(p))
      source == {p} \cup Below(p)
  IN /\ Idle /\ p # <<>> /\ q # <<>> /\ p # q
     /\ r.code = 0 /\ s.code \in {0, 1}
     /\ ~IsPrefix(p, d)
     /\ HasPlace(s.tree, d)
     /\ p \in DirPaths <=> q \in DirPaths
     /\ \A x \in source : Usable(s.tree[x])
     /\ \/ /\ s.code = 1
           /\ inode' = t3
           /\ writes' = moved
           /\ fd' = Left(source, "moved")
           /\ UNCHANGED vol
        \/ /\ s.code = 0
           /\ Removable(s.tree, q) /\ HasClusters(removed)
           /\ inode' = RemovedEntry(t3, d, removed)
           /\ writes' = moved \o RemoveWrites(t3, d, removed)
           /\ vol' = Release(vol, removed.cluster)
           /\ fd' = [f \in Fd |-> IF fd[f].inode \in source THEN Left(source, "moved")[f]
                                 ELSE FdsOfRemoved(q, removed)[f]]
     /\ reply' = <<>>
     /\ UNCHANGED device

\* _fat_mkdir. The buffer of the directory is a block of the kernel heap, in which
\* only the entries "." and ".." are written.
Mkdir(p) ==
  LET r == Resolve(inode, p)
      d == Front(p)
      c == vol.first_free_cluster
      v == Allocate(vol, END, 1)
  IN /\ Idle /\ r.code = 1 /\ p \in DirPaths /\ HasPlace(r.tree, d)
     /\ Behind(vol) # {}
     /\ vol' = v
     /\ \E table \in RecycledTables :
          LET buffer == [lba |-> c, buffer |-> table, dirty |-> TRUE]
              t == AddDirEntry(r.tree, p, [Inode(c, 0, 0, TRUE) EXCEPT !.cache[0] = buffer])
          IN /\ inode' = Flush(Flush(t, d), p)
             /\ writes' = FlushWrites(t, d) \o FatWrite(v) \o InfoWrite(v) \o FlushWrites(t, p)
     /\ reply' = <<>>
     /\ UNCHANGED <<fd, device>>

-----------------------------------------------------------------------------
(* The device                                                              *)

\* _fat_ioc_access: the next block that the current call writes. What is left
\* in a cluster that nobody has is junk for whoever gets it.
DeviceWrite ==
  LET w == Head(writes)
  IN /\ writes # <<>>
     /\ writes' = Tail(writes)
     /\ fatDisk' = IF w.region = "fat" THEN w.block ELSE fatDisk
     /\ disk' = IF w.region = "data" THEN [disk EXCEPT ![w.lba] = w.block]
                ELSE IF w.region = "fat"
                THEN [c \in Cluster |-> IF w.block[c] = FREE THEN JunkBuffer ELSE disk[c]]
                ELSE disk
     /\ UNCHANGED <<memory, reply>>

Call ==
  \/ \E p \in Path : Lookup(p) \/ OpenTruncate(p) \/ RemoveNode(p) \/ Mkdir(p)
  \/ \E p \in FilePaths : OpenExisting(p, FALSE) \/ OpenCreate(p, FALSE)
  \/ \E p \in Listed : OpenExisting(p, TRUE)
  \/ \E p, q \in Path : Rename(p, q)
  \/ \E f \in Fd : Close(f) \/ ReaddirEntry(f) \/ ReaddirBack(f)
  \/ \E f \in Fd, n \in Lengths :
       \/ Read(f, n) \/ ExtendFails(f, n)
       \/ \E x \in Values : Overwrite(f, n, x) \/ Extend(f, n, x)
  \/ \E f \in Fd, seek \in Offsets : Lseek(f, seek)

Next == Call \/ DeviceWrite

Spec == Init /\ [][Next]_vars

-----------------------------------------------------------------------------
(* Properties                                                              *)

Entry == [ord : {"no_more", "used", "free"}, name : STRING, cluster : 0 .. Entries,
          size : 0 .. MaxSize, is_dir : BOOLEAN]
Buffer == [0 .. ClusterSize - 1 -> Values \cup {Junk}] \cup [0 .. Slots - 1 -> Entry]

TypeOK ==
  /\ vol.fat \in [0 .. Entries - 1 -> 0 .. Entries]
  /\ vol.free_clusters_number \in 0 .. Entries
  /\ vol.first_free_cluster \in 0 .. Entries
  /\ \A p \in Path : inode[p].count \in 0 .. FdMax /\ inode[p].size \in 0 .. MaxSize
  /\ \A p \in Path : \A i \in Id :
       inode[p].cache[i] # NoDesc => inode[p].cache[i].lba \in Cluster
  /\ \A f \in Fd : fd[f].inode \in Path
  /\ \A c \in Cluster : disk[c] \in Buffer

\* The inode of the file or directory that a call would find now, or NoInode.
Seen(p) ==
  LET r == Resolve(inode, p)
  IN IF inode[p] # NoInode THEN inode[p] ELSE IF r.code = 0 THEN r.tree[p] ELSE NoInode

ChainOf(i) == IF i.is_dir \/ Held(i) > 0 THEN Chain(vol.fat, i.cluster) ELSE {}

\* Every file has as many clusters as its size needs, or those it got when the volume
\* was full, no cluster belongs to two files, none is lost, and the two words of the
\* descriptor say exactly what is free (_clusters_allocate, _clusters_release),
\* whatever was created, extended, truncated, renamed and removed.
VolumeSound ==
  LET nodes == {<<p, Seen(p)>> : p \in {x \in Path : Seen(x) # NoInode}}
      owned == {<<x[1], ChainOf(x[2])>> : x \in nodes}
  IN /\ DescriptorExact(vol)
     /\ \A x \in nodes : ~x[2].is_dir => Cardinality(ChainOf(x[2])) = Held(x[2])
     /\ \A x, y \in owned : x # y => x[2] \cap y[2] = {}
     /\ UNION {x[2] : x \in owned} = Cluster \ FreeClusters(vol.fat)

\* fat32.h:210 says of free_clusters_number "total number of free clusters".
FreeClustersCounted == vol.free_clusters_number = Cardinality(FreeClusters(vol.fat))

\* An inode of the tree counts the descriptors that point to it, which decides what
\* _fat_close flushes and _fat_remove refuses. A descriptor is left without its inode
\* by a rename, and by the removal of a directory, but never by the removal or the
\* replacement of a file (fat32.c:3702, 3892).
DescriptorsCounted ==
  /\ \A p \in Path :
       /\ inode[p].count = Cardinality({f \in Fd : Live(f) /\ fd[f].inode = p})
       /\ inode[p].count > 0 => inode[p] # NoInode
  /\ \A f \in Fd : fd[f].node # "unlinked"

\* The cluster descriptors of a File-Cache are those of the file, each of them
\* is the cluster of its index in the chain, and a clean one has the content
\* of the device.
CachesCoherent ==
  \A p \in Path : \A i \in Id :
    LET e == inode[p].cache[i]
    IN e # NoDesc =>
         /\ e.lba = Nth(vol.fat, inode[p].cluster, i)
         /\ ~e.dirty /\ Idle => e.buffer = disk[e.lba]

\* What _fat_init and a search of the device would find after a crash: the
\* entries in directory cluster c, and those of its sub-directories.
OnDevice(c) ==
  IF DOMAIN disk[c] # 0 .. Slots - 1 THEN {}
  ELSE {disk[c][s] : s \in {k \in 0 .. Slots - 1 : disk[c][k].ord = "used"}}

\* The file or directory of path p on the device: its entry, or NoMore.
DeviceEntry(p) ==
  LET walk[k \in 0 .. Len(p)] ==
        IF k = 0 THEN [NoMore EXCEPT !.cluster = ROOT, !.is_dir = TRUE]
        ELSE IF walk[k - 1].cluster \notin Cluster THEN NoMore
        ELSE LET e == {x \in OnDevice(walk[k - 1].cluster) : x.name = p[k]}
             IN IF e = {} THEN NoMore ELSE CHOOSE x \in e : TRUE
  IN walk[Len(p)]

\* The bytes of the file of inode i, and of the file of entry e on the device.
Content(i) ==
  [o \in 1 .. i.size |-> Loaded(i, (o - 1) \div ClusterSize).buffer[(o - 1) % ClusterSize]]

DeviceContent(e) ==
  [o \in 1 .. e.size |->
     LET c == Nth(fatDisk, e.cluster, (o - 1) \div ClusterSize)
     IN IF c \in Cluster THEN disk[c][(o - 1) % ClusterSize] ELSE Junk]

\* The file, or a directory it is in, was moved while it was open.
Loose(p) == \E k \in 0 .. Len(p) : inode[SubSeq(p, 1, k)].loose

\* Once a file is closed and no call is in progress, the device has it as the
\* applications see it, and what was removed or moved away is gone
\* (_fat_close: "it writes all dirty clusters on block device"). A file that
\* was moved while it was open, or that was refused clusters, is no such file.
ClosedIsDurable ==
  Idle => \A p \in FilePaths :
    LET i == Seen(p)
        e == DeviceEntry(p)
    IN /\ i = NoInode => e = NoMore
       /\ i # NoInode /\ i.count = 0 /\ i.lacks = 0 /\ ~Loose(p) =>
            e # NoMore /\ DeviceContent(e) = Content(i)

\* At any instant, between two device writes too, a file found on the device
\* has its clusters there: an entry is removed before its clusters are freed,
\* and clusters are chained before the entry shows them. Only a file that is
\* open and was truncated, or is in a call, one that moves it too, may be ahead
\* of its entry, one that was refused clusters, and one whose directory was moved.
CrashLeavesFilesWhole ==
  \A p \in FilePaths :
    LET e == DeviceEntry(p)
        i == inode[p]
        ahead == \/ i # NoInode /\ (i.size < e.size \/ i.cluster # e.cluster)
                 \/ i.lacks > 0 \/ (i.count > 0 /\ ~Idle)
                 \/ \E q \in Path :
                      /\ inode[q].loose
                      /\ inode[q].is_dir \/ (~Idle /\ i = NoInode)
    IN ~ahead => \A k \in 0 .. Clusters(e.size) - 1 :
                   Nth(fatDisk, e.cluster, k) \in Cluster \ FreeClusters(fatDisk)

\* The file system that applications see.
Store == INSTANCE FileStore
  WITH content <- [p \in Path |->
         LET i == Seen(p)
         IN IF i = NoInode THEN [kind |-> "none", data |-> <<>>]
            ELSE IF i.is_dir THEN [kind |-> "dir", data |-> <<>>]
            ELSE IF i.lacks > 0 THEN [kind |-> "broken", data |-> <<>>]
            ELSE [kind |-> "file", data |-> Content(i)]],
       opened <- [f \in Fd |->
         IF ~fd[f].allocated THEN [path |-> <<>>, seek |-> 0, mode |-> "closed"]
         ELSE IF ~Live(f) THEN [path |-> <<>>, seek |-> 0, mode |-> "lost"]
         ELSE [path |-> fd[f].inode,
               seek |-> IF inode[fd[f].inode].is_dir THEN 0 ELSE fd[f].seek,
               mode |-> IF fd[f].read_only THEN "read" ELSE "write"]]

\* Whatever is cached, flushed, reloaded and moved, each call has the effect
\* and the result that it has on a dictionary of files.
StoreSpec == Store!Spec

=============================================================================
