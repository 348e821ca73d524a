----------------------------- MODULE BootMapping -----------------------------
(***************************************************************************)
(* The boot loader builds the page tables (boot.c, pmem.c): the processor  *)
(* 0 of every cluster that has processors allocates physical pages for the *)
(* vsegs of its cluster, in parallel with the others, and writes their     *)
(* entries in the page tables (PTAB) that must translate them: there is    *)
(* one for each vspace in each cluster with processors. P[0,0,0] handles   *)
(* the vsegs of the other clusters in the end.                             *)
(*                                                                         *)
(* A big page (BPP) is Pages small ones (SPP). A big entry of a PTAB       *)
(* (PTE1) is written without lock, a small one (PTE2) under the lock of    *)
(* the PTAB, since it may need another second level table (PT2), in which  *)
(* the vsegs of several clusters may have entries. A boot error is a state *)
(* without successor: the loader stops.                                    *)
(***************************************************************************)
EXTENDS Integers, TLC, FiniteSetsExt, SequencesExt

CONSTANTS Clusters,     \* number of clusters with processors
          Spaces,       \* number of vspaces
          Pages,        \* small pages in a big one (512)
          Bpps,         \* big pages in the RAM of a cluster
          Vsegs         \* the vsegs, in the order of the mapping

Global == -1            \* vspace of the global vsegs

Cluster == 0 .. Clusters - 1
Ptab == (0 .. Spaces - 1) \X Cluster
Vseg == DOMAIN Vsegs
Region(vpn) == vpn \div Pages
Regions == UNION {Region(Vsegs[i].vpn) .. Region(Vsegs[i].vpn + Vsegs[i].length - 1) : i \in Vseg}
Invalid == [type |-> "invalid"]
Nowhere == <<0, -1>>
None == 0
Unlocked == -1

\* A PT1 is two pages, a PT2 one page: _ptabs_max_pt2, for PTABs of even length
\* that share a vseg of one BPP.
MaxPt2 == LET nsp == Pages \div Spaces IN nsp - (nsp % 2) - 2

\* The vsegs of a cluster.
Own(c) == {i \in Vseg : Vsegs[i].cluster = c}

\* boot_ptab_init stops the boot when a cluster has no PTAB vseg; _get_small_ppn does
\* not test that the pages are in a single BPP.
BootAssumption ==
  /\ {Clusters, Spaces, Pages, Bpps} \subseteq Nat \ {0} /\ MaxPt2 >= 0
  /\ Vseg = 1 .. Len(Vsegs) /\ Len(Vsegs) \in Nat
  /\ \A i \in Vseg :
       /\ Vsegs[i].space \in {Global} \cup 0 .. Spaces - 1
       /\ Vsegs[i].kind \in {"ram", "ptab", "ident", "io"}
       /\ Vsegs[i].vpn \in Nat /\ Vsegs[i].length \in Nat \ {0}
       /\ Vsegs[i].kind = "ram" /\ ~Vsegs[i].big => Vsegs[i].length <= Pages
       \* what has no processor has neither RAM nor a copy
       /\ Vsegs[i].cluster >= Clusters =>
            Vsegs[i].space = Global /\ Vsegs[i].kind \in {"ident", "io"} /\ ~Vsegs[i].local
  /\ \A c \in Cluster : \E i \in Own(c) : Vsegs[i].kind = "ptab"

VARIABLES phase,        \* number of barriers that each cluster has crossed
          cur,          \* the vseg that it handles
          written,      \* how many entries of this vseg it has written
          at,           \* where it is in boot_add_pte2
          id,           \* the PT2 that it found there, or allocated
          mapped,       \* vsegs that have a physical address
          pbase,        \* first physical page of each vseg: <<cluster, number>>
          pmem,         \* boot_pmem_alloc of each cluster
          pt1,          \* the PT1 of each PTAB, <<>> if it has no address yet
          pt2,          \* the entries in the PT2s of each PTAB
          nextPt2,      \* _ptabs_next_pt2
          lock          \* holder of _ptabs_spin_lock, or Unlocked

place == <<phase, cur, written, at, id>>
tables == <<pt1, pt2, nextPt2, lock>>
memory == <<mapped, pbase, pmem>>
vars == <<place, tables, memory>>

Init ==
  /\ phase = [c \in Cluster |-> 0]
  /\ cur = [c \in Cluster |-> None]
  /\ written = [c \in Cluster |-> 0]
  /\ at = [c \in Cluster |-> "next"]
  /\ id = [c \in Cluster |-> 0]
  /\ mapped = {}
  /\ pbase = [i \in Vseg |-> Nowhere]
  \* _pmem_alloc_init: the first BPP of cluster 0 is reserved for the boot vsegs
  /\ pmem = [c \in Cluster |->
               [bpp |-> IF c = 0 THEN 1 ELSE 0, sbpp |-> 0, spp |-> 0, maxSpp |-> 0]]
  /\ pt1 = [t \in Ptab |-> <<>>]
  /\ pt2 = [t \in Ptab |-> <<>>]
  /\ nextPt2 = [t \in Ptab |-> 0]
  /\ lock = [t \in Ptab |-> Unlocked]

-----------------------------------------------------------------------------
(* The vsegs that a cluster handles, and their order                       *)

Globals == {i \in Vseg : Vsegs[i].space = Global}
PtabOf(c) == CHOOSE i \in Own(c) : Vsegs[i].kind = "ptab"

\* The vsegs that cluster c has still to map in its phase.
Left(c) ==
  CASE phase[c] = 0 -> {PtabOf(c)} \ mapped
    [] phase[c] = 2 -> Own(c) \ mapped
    [] phase[c] = 4 -> IF c = 0 THEN Globals \ mapped ELSE {}
    [] OTHER -> {}

\* boot_ptab_init: the global vsegs of more than one BPP before the other ones,
\* and the private vsegs after them; each time in the order of the mapping.
First(c) ==
  LET globals == Left(c) \cap Globals
      large == {i \in globals : phase[c] = 2 /\ Vsegs[i].length > Pages}
  IN Min(IF large # {} THEN large ELSE IF globals # {} THEN globals ELSE Left(c))

\* The vspace whose PTAB boot_vseg_map looks into.
Vsid(i) == IF Vsegs[i].space = Global THEN 0 ELSE Vsegs[i].space

NbPages(i) ==
  LET v == Vsegs[i]
      last == v.vpn + v.length - 1
  IN IF v.big THEN Region(last) - Region(v.vpn) + 1 ELSE v.length

-----------------------------------------------------------------------------
(* Physical pages: boot_vseg_map and the allocator of the cluster          *)

\* Page p of a vseg whose first page is ppn.
Page(ppn, p) == <<ppn[1], ppn[2] + p>>

MapTo(i, ppn) == pbase' = [pbase EXCEPT ![i] = ppn]

\* The entry of the PTAB of the cluster for the BPP of a vseg, when it is valid
\* the BPP is shared.
Found(c, i) == pt1[<<Vsid(i), c>>][Region(Vsegs[i].vpn)]

\* The boot vsegs and most peripherals.
MapIdentity(i) ==
  /\ Vsegs[i].kind = "ident"
  /\ MapTo(i, <<0, Vsegs[i].vpn>>)
  /\ UNCHANGED pmem

MapPeripheral(i) ==
  /\ Vsegs[i].kind = "io"
  /\ MapTo(i, <<Vsegs[i].cluster, Bpps * Pages>>)
  /\ UNCHANGED pmem

\* _get_big_ppn: contiguous BPPs.
GetBig(c, i) ==
  /\ Vsegs[i].big
  /\ Vsegs[i].kind = "ptab" \/ (Vsegs[i].kind = "ram" /\ Found(c, i) = Invalid)
  /\ pmem[c].bpp + NbPages(i) <= Bpps
  /\ MapTo(i, <<c, pmem[c].bpp * Pages + (Vsegs[i].vpn % Pages)>>)
  /\ pmem' = [pmem EXCEPT ![c].bpp = @ + NbPages(i)]

\* The vseg goes where the BPP is. The flags that it must have in common with the
\* vsegs there, or the boot stops, are not in the model; nor is an entry that leads to
\* a PT2, whose bits are taken for flags: no BPP of the mappings has both kinds.
ShareBig(c, i) ==
  /\ Vsegs[i].big /\ Vsegs[i].kind = "ram" /\ Found(c, i).type = "big"
  /\ MapTo(i, Page(Found(c, i).ppn, Vsegs[i].vpn % Pages))
  /\ UNCHANGED pmem

\* _get_small_ppn: contiguous SPPs, in the BPP that was divided last or in another.
GetSmall(c, i) ==
  LET m == pmem[c]
      n == NbPages(i)
  IN /\ ~Vsegs[i].big /\ Vsegs[i].kind = "ram"
     /\ \/ /\ m.spp + n <= m.maxSpp
           /\ MapTo(i, <<c, m.sbpp * Pages + m.spp>>)
           /\ pmem' = [pmem EXCEPT ![c].spp = @ + n]
        \/ /\ m.spp + n > m.maxSpp /\ m.bpp < Bpps
           /\ MapTo(i, <<c, m.bpp * Pages>>)
           /\ pmem' = [pmem EXCEPT ![c] =
                [bpp |-> m.bpp + 1, sbpp |-> m.bpp, spp |-> n, maxSpp |-> Pages]]

\* boot_vseg_map: the vseg gets its physical address; the PTABs of the cluster
\* get theirs and are emptied.
Map(c) ==
  /\ cur[c] = None /\ Left(c) # {}
  /\ LET i == First(c)
     IN /\ MapIdentity(i) \/ MapPeripheral(i) \/ GetBig(c, i) \/ ShareBig(c, i) \/ GetSmall(c, i)
        /\ cur' = [cur EXCEPT ![c] = i]
        /\ mapped' = mapped \cup {i}
        /\ pt1' = IF Vsegs[i].kind # "ptab" THEN pt1
                  ELSE [t \in Ptab |-> IF t[2] = c THEN [r \in Regions |-> Invalid]
                                                   ELSE pt1[t]]
  /\ written' = [written EXCEPT ![c] = 0]
  /\ UNCHANGED <<phase, at, id, pt2, nextPt2, lock>>

-----------------------------------------------------------------------------
(* Page tables: boot_vseg_pte                                              *)

\* A global vseg is in all vspaces, a vseg that is not local in all clusters.
Targets(i) ==
  (IF Vsegs[i].space = Global THEN 0 .. Spaces - 1 ELSE {Vsegs[i].space})
    \X (IF Vsegs[i].local THEN {Vsegs[i].cluster} ELSE Cluster)

\* The entries of a vseg in the order of the loops: page, cluster, vspace.
NbEntries(i) == NbPages(i) * Cardinality(Targets(i))
Order(i) ==
  SetToSortSeq(Targets(i), LAMBDA t, u : t[2] < u[2] \/ (t[2] = u[2] /\ t[1] < u[1]))

\* The page and the PTAB of the next entry that cluster c writes.
Index(c) == written[c] \div Cardinality(Targets(cur[c]))
Target(c) == Order(cur[c])[(written[c] % Cardinality(Targets(cur[c]))) + 1]
Step(c) == IF Vsegs[cur[c]].big THEN Index(c) * Pages ELSE Index(c)
Vpn(c) == Vsegs[cur[c]].vpn + Step(c)
Ppn(c) == Page(pbase[cur[c]], Step(c))

\* The PTAB vseg is mapped in all clusters before any entry is written.
Writing(c) ==
  /\ cur[c] # None /\ phase[c] > 0 /\ written[c] < NbEntries(cur[c])
  /\ pt1[Target(c)] # <<>>

\* boot_add_pte1.
AddPte1(c) ==
  /\ Writing(c) /\ Vsegs[cur[c]].big
  /\ pt1' = [pt1 EXCEPT ![Target(c)][Region(Vpn(c))] =
       [type |-> "big", ppn |-> <<Ppn(c)[1], Region(Ppn(c)[2]) * Pages>>]]
  /\ written' = [written EXCEPT ![c] = @ + 1]
  /\ UNCHANGED <<phase, cur, at, id, pt2, nextPt2, lock, memory>>

\* boot_add_pte2: the PT1 is read under the lock of the PTAB.
ReadPtd(c) ==
  LET ptd == pt1[Target(c)][Region(Vpn(c))]
  IN /\ at' = [at EXCEPT ![c] = IF ptd = Invalid THEN "new" ELSE "entry"]
     /\ id' = [id EXCEPT ![c] = IF ptd = Invalid THEN 0 ELSE ptd.id]
     /\ UNCHANGED <<phase, cur, written, pt1, pt2, nextPt2, memory>>

\* Faulty variant: the lock is not tested.
LockPtabUntested(c) ==
  /\ Writing(c) /\ ~Vsegs[cur[c]].big /\ at[c] = "next"
  /\ lock' = [lock EXCEPT ![Target(c)] = c]
  /\ ReadPtd(c)

LockPtab(c) ==
  /\ Writing(c) /\ ~Vsegs[cur[c]].big /\ at[c] = "next"
  /\ lock[Target(c)] = Unlocked
  /\ lock' = [lock EXCEPT ![Target(c)] = c]
  /\ ReadPtd(c)

\* There is no PT2 for this BPP yet.
NewPt2(c) ==
  LET t == Target(c)
  IN /\ at[c] = "new" /\ nextPt2[t] < MaxPt2
     /\ at' = [at EXCEPT ![c] = "entry"]
     /\ id' = [id EXCEPT ![c] = nextPt2[t]]
     /\ nextPt2' = [nextPt2 EXCEPT ![t] = @ + 1]
     /\ pt1' = [pt1 EXCEPT ![t][Region(Vpn(c))] = [type |-> "pt2", id |-> nextPt2[t]]]
     /\ UNCHANGED <<phase, cur, written, pt2, lock, memory>>

AddPte2(c) ==
  LET t == Target(c)
  IN /\ at[c] = "entry"
     /\ at' = [at EXCEPT ![c] = "next"]
     /\ pt2' = [pt2 EXCEPT ![t] = (<<id[c], Vpn(c) % Pages>> :> Ppn(c)) @@ @]
     /\ lock' = [lock EXCEPT ![t] = Unlocked]
     /\ written' = [written EXCEPT ![c] = @ + 1]
     /\ UNCHANGED <<phase, cur, id, pt1, nextPt2, memory>>

\* The last entry of the vseg is written.
Mapped(c) ==
  /\ cur[c] # None /\ phase[c] > 0 /\ written[c] = NbEntries(cur[c])
  /\ cur' = [cur EXCEPT ![c] = None]
  /\ UNCHANGED <<phase, written, at, id, tables, memory>>

-----------------------------------------------------------------------------
(* The five barriers (see Barrier): the PTABs have an address; they are    *)
(* mapped; the vsegs of the clusters with processors are (twice); all are. *)

Finished(c) == phase[c] < 5 /\ Left(c) = {} /\ (cur[c] = None \/ phase[c] = 0)

Cross(c) ==
  /\ Finished(c)
  /\ \A d \in Cluster : phase[d] > phase[c] \/ (phase[d] = phase[c] /\ Finished(d))
  /\ phase' = [phase EXCEPT ![c] = @ + 1]
  /\ UNCHANGED <<cur, written, at, id, tables, memory>>

\* The MMU is activated: what follows uses the tables.
Done == \A c \in Cluster : phase[c] = 5

Next ==
  \/ \E c \in Cluster :
       Map(c) \/ AddPte1(c) \/ LockPtab(c) \/ NewPt2(c) \/ AddPte2(c) \/ Mapped(c) \/ Cross(c)
  \/ Done /\ UNCHANGED vars

Spec == Init /\ [][Next]_vars

-----------------------------------------------------------------------------
(* Properties                                                              *)

TypeOK ==
  /\ phase \in [Cluster -> 0 .. 5]
  /\ cur \in [Cluster -> {None} \cup Vseg]
  /\ at \in [Cluster -> {"next", "new", "entry"}]
  /\ mapped \subseteq Vseg
  /\ \A c \in Cluster : pmem[c].bpp \in 0 .. Bpps /\ pmem[c].spp \in 0 .. pmem[c].maxSpp
  /\ nextPt2 \in [Ptab -> 0 .. MaxPt2]
  /\ lock \in [Ptab -> {Unlocked} \cup Cluster]

\* The physical page of a virtual page in a PTAB, or Nowhere.
Translation(t, vpn) ==
  LET e == pt1[t][Region(vpn)]
      entry == <<e.id, vpn % Pages>>
  IN CASE e = Invalid -> Nowhere
       [] e.type = "big" -> Page(e.ppn, vpn % Pages)
       [] e.type = "pt2" -> IF entry \in DOMAIN pt2[t] THEN pt2[t][entry] ELSE Nowhere

Physical(i) == {Page(pbase[i], p) : p \in 0 .. Vsegs[i].length - 1}

\* Two vsegs never share a page of memory, although several of them share a big
\* page, and once the entries of a vseg are written every PTAB that has to
\* translate it does so (boot_vseg_map, boot_vseg_pte), whatever the other
\* clusters write in the same tables. In the end this is true of all the vsegs.
SpacesSound ==
  /\ \A i, j \in mapped : i # j => Physical(i) \cap Physical(j) = {}
  /\ \A i \in mapped : (\A c \in Cluster : cur[c] # i) =>
       \A t \in Targets(i) : \A p \in 0 .. Vsegs[i].length - 1 :
         Translation(t, Vsegs[i].vpn + p) = Page(pbase[i], p)
  /\ Done => mapped = Vseg

=============================================================================
