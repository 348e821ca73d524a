------------------------------- MODULE BuddyHeap -------------------------------
(***************************************************************************)
(* The buddy allocator of the kernel (kernel_malloc.c), one heap per       *)
(* cluster, and its copy for the applications (malloc.c). Every operation  *)
(* runs under the spin lock of the heap (TicketLock) and is one step here. *)
(*                                                                         *)
(* Addresses are relative to the base of the heap, which is aligned on its *)
(* size, as _heap_init requires. The NEXT pointers, which are stored in    *)
(* the free blocks themselves, make the sequences free[index].             *)
(***************************************************************************)
EXTENDS Naturals, Sequences, FiniteSetsExt, Functions

CONSTANTS MinIndex,     \* log2 of MIN_BLOCK_SIZE
          HeapIndexes,  \* log2 of the sizes that the heap may have
          Requests,     \* the sizes that are requested
          User          \* is it the heap of an application?

\* What the heap needs of its parameters: _get_block shifts 1 by up to one more than
\* the index of the heap, and by that of the request, in 32 bits; the index of an
\* allocated block is not 0.
HeapAssumption ==
  /\ MinIndex \in Nat \ {0}
  /\ HeapIndexes \subseteq MinIndex .. 30 /\ HeapIndexes # {}
  /\ \A size \in Requests : size \in Nat /\ \E i \in 0 .. 31 : size <= 2 ^ i
  /\ User \in BOOLEAN

VARIABLES heapIndex,    \* log2 of heap_size
          free,         \* the lists of free blocks, by index
          alloc,        \* the alloc[] array: index of the allocated blocks
          given,        \* blocks <<base, index>> that were returned and not released
          outcome       \* of the last operation

vars == <<heapIndex, free, alloc, given, outcome>>

MIN_BLOCK_SIZE == 2 ^ MinIndex
Index == MinIndex .. Max(HeapIndexes)
Entry == 0 .. 2 ^ (heapIndex - MinIndex) - 1

\* GET_SIZE_INDEX, once size is at least MIN_BLOCK_SIZE.
Fits(size, i) == size <= 2 ^ i /\ MIN_BLOCK_SIZE <= 2 ^ i
SizeIndex(size) ==
  CHOOSE i \in 0 .. 32 : Fits(size, i) /\ \A j \in 0 .. i - 1 : ~Fits(size, j)

\* The block of the given size that contains the address, and the block that
\* it can be merged with.
Aligned(base, i) == base - (base % 2 ^ i)

\* Faulty variant: the companion is always above.
CompanionAbove(base, i) == Aligned(base, i) + 2 ^ i

Companion(base, i) ==
  LET b == Aligned(base, i)
  IN  IF (b \div 2 ^ i) % 2 = 0 THEN b + 2 ^ i ELSE b - 2 ^ i

\* The size of the block at the end of the heap that contains alloc[].
AllocIndex(h) == IF h - MinIndex < MinIndex THEN MinIndex ELSE h - MinIndex

-----------------------------------------------------------------------------

\* _heap_init: blocks of decreasing sizes, then the alloc[] array.
Init ==
  /\ heapIndex \in HeapIndexes
  /\ free = [i \in Index |->
       IF i \in AllocIndex(heapIndex) .. heapIndex - 1
       THEN <<2 ^ heapIndex - 2 ^ (i + 1)>> ELSE <<>>]
  /\ alloc = [e \in Entry |-> 0]
  /\ given = {}
  /\ outcome = "init"

\* Faulty variant: the lower halves are pushed.
TakeBlockLower(base, found, i) ==
  [k \in Index |->
     IF k = found THEN Tail(free[k])
     ELSE IF k \in i .. found - 1 THEN <<base>> \o free[k] ELSE free[k]]

\* _get_block and _split_block: the block is popped from its list, the upper
\* halves that are left over are pushed on theirs.
TakeBlock(base, found, i) ==
  [k \in Index |->
     IF k = found THEN Tail(free[k])
     ELSE IF k \in i .. found - 1 THEN <<base + 2 ^ k>> \o free[k] ELSE free[k]]

\* The list without the block, which its predecessor links to its successor.
Without(list, base) ==
  LET n == CHOOSE n \in DOMAIN list : list[n] = base
  IN  SubSeq(list, 1, n - 1) \o SubSeq(list, n + 1, Len(list))

\* _update_free_array: the block is merged with its companion as long as the
\* latter is free, then pushed.
GiveBack(base, i) ==
  LET m == Min({k \in i .. Max(HeapIndexes) : Companion(base, k) \notin Range(free[k])})
  IN  [k \in Index |->
         IF k = m THEN <<Aligned(base, k)>> \o free[k]
         ELSE IF k \in i .. m - 1 THEN Without(free[k], Companion(base, k)) ELSE free[k]]

\* _remote_malloc: a caller that gets no block calls _exit().
MallocFails(size) ==
  /\ \A j \in SizeIndex(size) .. heapIndex : free[j] = <<>>
  /\ outcome' = "no more space"
  /\ UNCHANGED <<heapIndex, free, alloc, given>>

Malloc(size) ==
  LET i == SizeIndex(size)
      fit == {j \in i .. heapIndex : free[j] # <<>>}
      base == Head(free[Min(fit)])
      e == base \div MIN_BLOCK_SIZE
  IN  /\ fit # {}
      /\ free' = TakeBlock(base, Min(fit), i)
      /\ outcome' = IF alloc[e] = 0 THEN "block" ELSE "already allocated"
      /\ alloc' = IF alloc[e] = 0 THEN [alloc EXCEPT ![e] = i] ELSE alloc
      /\ given' = IF alloc[e] = 0 THEN given \cup {<<base, i>>} ELSE given
      /\ UNCHANGED heapIndex

\* _free calls _exit() for what cannot be the base of an allocated block.
FreeFails(ptr) ==
  LET i == alloc[ptr \div MIN_BLOCK_SIZE]
  IN  /\ i = 0 \/ ptr % 2 ^ i # 0
      /\ outcome' = IF i = 0 THEN "not allocated" ELSE "not aligned"
      /\ UNCHANGED <<heapIndex, free, alloc, given>>

\* The entry of alloc[] is reset by the kernel, and not by free() in malloc.c.
Free(ptr) ==
  LET e == ptr \div MIN_BLOCK_SIZE
      i == alloc[e]
  IN  /\ i # 0 /\ ptr % 2 ^ i = 0
      /\ alloc' = IF User THEN alloc ELSE [alloc EXCEPT ![e] = 0]
      /\ free' = GiveBack(ptr, i)
      /\ given' = given \ {<<ptr, i>>}
      /\ outcome' = "released"
      /\ UNCHANGED heapIndex

\* The pointers that are released: those of an application are right, those of
\* the kernel may be anything in the heap, aligned on a block or not.
Pointers ==
  IF User THEN {b[1] : b \in given}
  ELSE {e * MIN_BLOCK_SIZE + d : e \in Entry, d \in {0, 1}}

Next ==
  \/ \E size \in Requests : Malloc(size) \/ MallocFails(size)
  \/ \E ptr \in Pointers : Free(ptr) \/ FreeFails(ptr)

Spec == Init /\ [][Next]_vars

-----------------------------------------------------------------------------
(* Properties                                                              *)

FreeBlocks == UNION {Range(free[i]) \X {i} : i \in Index}
AllocBlock == <<2 ^ heapIndex - 2 ^ AllocIndex(heapIndex), AllocIndex(heapIndex)>>
Contains(b, a) == b[1] <= a /\ a < b[1] + 2 ^ b[2]
Base == {e * MIN_BLOCK_SIZE : e \in Entry}

TypeOK ==
  /\ heapIndex \in HeapIndexes
  /\ free \in [Index -> Seq(Base)]
  /\ alloc \in [Entry -> {0} \cup Index]
  /\ given \subseteq Base \X Index

\* The heap is divided, without gap nor overlap, into the blocks in use, the
\* free blocks and the alloc[] array, which registers the former (_get_block,
\* _split_block, _update_free_array), whatever pointers are given to _free.
HeapIsPartitioned ==
  /\ \A i \in Index : Len(free[i]) = Cardinality(Range(free[i]))
  /\ FreeBlocks \cap given = {} /\ AllocBlock \notin FreeBlocks \cup given
  /\ \A a \in Base :
       Cardinality({b \in FreeBlocks \cup given \cup {AllocBlock} : Contains(b, a)}) = 1
  /\ given = {<<e * MIN_BLOCK_SIZE, alloc[e]>> : e \in {x \in Entry : alloc[x] # 0}}

\* Free space is never split without need: an aligned range that is free is
\* inside one free block, so that _remote_malloc fails only when there is none.
FreeBlocksAreMaximal ==
  \A i \in Index : \A b \in {x \in Base : x % 2 ^ i = 0} :
    (\A a \in {x \in Base : Contains(<<b, i>>, x)} :
        \E f \in FreeBlocks : Contains(f, a))
      => \E f \in FreeBlocks : f[2] >= i /\ Contains(f, b)

\* The check of _remote_malloc and remote_malloc on the block they selected,
\* "block already allocated ???", never fails.
NeverAlreadyAllocated == outcome # "already allocated"

=============================================================================
