------------------------------ MODULE ContainerDma ------------------------------
(***************************************************************************)
(* The buffers that the chained buffer DMA (CMA) moves between the memory  *)
(* and a device: the containers of the network controller, one in each     *)
(* cluster, received ("rx") or sent ("tx") by the task of that cluster     *)
(* (sys_handler.c, _sys_nic_move), and the two user buffers with the       *)
(* images of the frame buffer ("fbf", _sys_fbf_cma_display).               *)
(*                                                                         *)
(* Each buffer has a status word, full or empty. The tasks access the L2   *)
(* cache, which writes a modified line back when it likes, or when         *)
(* _mmc_sync tells it to, and forgets the lines of _mmc_inval. The CMA     *)
(* accesses the RAM only, one buffer after the other. CMA, cache, network  *)
(* controller and frame buffer are external.                               *)
(***************************************************************************)
EXTENDS Naturals

CONSTANTS N,            \* number of buffers
          NbLines,      \* bound: number of cache lines of a buffer
          Numbers,      \* bound: number of different contents of the buffers
          Ahead         \* may the application write an image over one that is
                        \* still to be displayed?

\* The contents are numbered in turn, up to a multiple of the number of buffers.
DmaAssumption ==
  /\ N \in Nat \ {0} /\ NbLines \in Nat \ {0} /\ Numbers \in Nat /\ Numbers >= 2
  /\ \E k \in 1 .. Numbers : Numbers = k * N

Buffer == 0 .. N - 1
Lines == 1 .. NbLines
Number == 0 .. Numbers - 1
Absent == Numbers        \* no copy

\* The lines in memory: those of buffer b, its status, that of the frame buffer.
Status(b) == <<b, 0>>
Content(b) == {b} \X Lines
FbfStatus == Status(N)
Cells == (UNION {Content(b) \cup {Status(b)} : b \in Buffer}) \cup {FbfStatus}

VARIABLES use,          \* "rx", "tx" or "fbf"
          ram,          \* the RAM
          l2,           \* the copies in the L2 cache
          dirty,        \* the modified copies
          pc,           \* where the task of each buffer is
          n,            \* number of its next container or image
          line,         \* its next line in _physical_memcpy
          user,         \* its own buffer, for those received
          moved,        \* number of the next one that the CMA moves
          cma,          \* next line that the CMA moves, 0 when it polls
          device        \* what the device got, for those sent

memory == <<ram, l2, dirty>>
task == <<pc, n, line, user>>
dma == <<moved, cma, device>>
vars == <<use, memory, task, dma>>

Full(b) == IF use = "rx" THEN 0 ELSE 1      \* what the task writes in the status
Ready(b) == 1 - Full(b)                     \* what it waits for

Goto(b, place) == pc' = [pc EXCEPT ![b] = place]

Read(c) == IF l2[c] = Absent THEN ram[c] ELSE l2[c]
Write(c, v) == l2' = [l2 EXCEPT ![c] = v] /\ dirty' = dirty \cup {c} /\ UNCHANGED ram

\* _mmc_sync writes back the lines of C, _mmc_inval forgets them.
Synced(C) == [c \in Cells |-> IF c \in C \cap dirty THEN l2[c] ELSE ram[c]]
Sync(C) == ram' = Synced(C) /\ dirty' = dirty \ C /\ UNCHANGED l2
Forgotten(C) == [c \in Cells |-> IF c \in C THEN Absent ELSE l2[c]]
Inval(C) == l2' = Forgotten(C) /\ dirty' = dirty \ C /\ UNCHANGED ram

Init ==
  /\ use \in {"rx", "tx", "fbf"}
  /\ ram = [c \in Cells |-> 0]
  /\ l2 = [c \in Cells |-> Absent] /\ dirty = {}
  /\ pc = [b \in Buffer |-> "idle"]
  /\ n = [b \in Buffer |-> b]
  /\ line = [b \in Buffer |-> 1]
  /\ user = [b \in Buffer |-> [l \in Lines |-> 0]]
  /\ moved = 0 /\ cma = 0
  /\ device = [l \in Lines |-> 0]

-----------------------------------------------------------------------------
(* The tasks                                                               *)

\* The application calls _sys_nic_move, or starts to write an image: it uses its
\* two buffers in turn.
Call(b) ==
  /\ pc[b] = "idle"
  /\ IF use # "fbf" THEN Goto(b, "poll") ELSE
     /\ \A a \in Buffer : pc[a] = "idle"
     /\ n[(b + N - 1) % N] = (n[b] + N - 1) % Numbers
     /\ Ahead \/ ram[Status(b)] = 0
     /\ Goto(b, "copy")
  /\ UNCHANGED <<use, memory, n, line, user, dma>>

\* One turn of the loop: _mmc_inval, and a read of the status.
Poll(b) ==
  /\ pc[b] = "poll"
  /\ l2' = [l2 EXCEPT ![Status(b)] = ram[Status(b)]]
  /\ dirty' = dirty \ {Status(b)}
  /\ IF ram[Status(b)] = Ready(b)
     THEN Goto(b, [rx |-> "inval", tx |-> "copy", fbf |-> "sync"][use])
     ELSE UNCHANGED pc
  /\ UNCHANGED <<use, ram, n, line, user, dma>>

\* Faulty variant: without _mmc_inval.
InvalNothing(b) ==
  /\ pc[b] = "inval"
  /\ Goto(b, "copy")
  /\ UNCHANGED <<use, memory, n, line, user, dma>>

\* The copies of the previous container are forgotten.
InvalBuffer(b) ==
  /\ pc[b] = "inval"
  /\ Inval(Content(b))
  /\ Goto(b, "copy")
  /\ UNCHANGED <<use, n, line, user, dma>>

\* One line of _physical_memcpy, or of the image.
Copy(b) ==
  LET c == <<b, line[b]>>
  IN  /\ pc[b] = "copy"
      /\ IF use = "rx"
         THEN /\ user' = [user EXCEPT ![b][line[b]] = Read(c)]
              /\ l2' = [l2 EXCEPT ![c] = Read(c)]
              /\ UNCHANGED <<ram, dirty>>
         ELSE Write(c, n[b]) /\ UNCHANGED user
      /\ IF line[b] < NbLines
         THEN line' = [line EXCEPT ![b] = @ + 1] /\ UNCHANGED pc
         ELSE /\ line' = [line EXCEPT ![b] = 1]
              /\ Goto(b, [rx |-> "status", tx |-> "sync", fbf |-> "poll"][use])
      /\ UNCHANGED <<use, n, dma>>

SyncBuffer(b) ==
  /\ pc[b] = "sync"
  /\ Sync(Content(b))
  /\ Goto(b, "status")
  /\ UNCHANGED <<use, n, line, user, dma>>

WriteStatus(b) ==
  /\ pc[b] = "status"
  /\ Write(Status(b), Full(b))
  /\ Goto(b, IF use = "fbf" THEN "fbf" ELSE "return")
  /\ UNCHANGED <<use, n, line, user, dma>>

\* The status of the frame buffer is reset.
WriteFbfStatus(b) ==
  /\ pc[b] = "fbf"
  /\ Write(FbfStatus, 0)
  /\ Goto(b, "return")
  /\ UNCHANGED <<use, n, line, user, dma>>

\* The status words are synchronised, and the call returns.
Return(b) ==
  /\ pc[b] = "return"
  /\ Sync({Status(b)} \cup (IF use = "fbf" THEN {FbfStatus} ELSE {}))
  /\ n' = [n EXCEPT ![b] = (@ + N) % Numbers]
  /\ Goto(b, "idle")
  /\ UNCHANGED <<use, line, user, dma>>

-----------------------------------------------------------------------------
(* The L2 cache and the CMA                                                *)

\* A copy is replaced.
Evict(c) ==
  /\ l2[c] # Absent
  /\ ram' = Synced({c})
  /\ l2' = Forgotten({c})
  /\ dirty' = dirty \ {c}
  /\ UNCHANGED <<use, task, dma>>

\* The buffer whose turn it is, and the one of the device, are ready.
CmaPoll ==
  /\ cma = 0
  /\ ram[Status(moved % N)] = Full(moved % N)
  /\ use = "fbf" => ram[FbfStatus] = 0
  /\ cma' = 1
  /\ UNCHANGED <<use, memory, task, moved, device>>

CmaMove ==
  LET c == <<moved % N, cma>>
  IN  /\ cma \in Lines
      /\ IF use = "rx"
         THEN ram' = [ram EXCEPT ![c] = moved] /\ UNCHANGED device
         ELSE device' = [device EXCEPT ![cma] = ram[c]] /\ UNCHANGED ram
      /\ cma' = cma + 1
      /\ UNCHANGED <<use, l2, dirty, task, moved>>

CmaDone ==
  /\ cma = NbLines + 1
  /\ ram' = [ram EXCEPT ![Status(moved % N)] = Ready(moved % N),
                        ![FbfStatus] = IF use = "fbf" THEN 1 ELSE @]
  /\ moved' = (moved + 1) % Numbers
  /\ cma' = 0
  /\ UNCHANGED <<use, l2, dirty, task, device>>

-----------------------------------------------------------------------------

Step(b) ==
  \/ Call(b) \/ Poll(b) \/ InvalBuffer(b) \/ Copy(b) \/ SyncBuffer(b)
  \/ WriteStatus(b) \/ WriteFbfStatus(b) \/ Return(b)

Cma == CmaPoll \/ CmaMove \/ CmaDone

Next ==
  \/ \E b \in Buffer : Step(b)
  \/ \E c \in Cells : Evict(c)
  \/ Cma

Spec == Init /\ [][Next]_vars

-----------------------------------------------------------------------------
(* Properties                                                              *)

TypeOK ==
  /\ use \in {"rx", "tx", "fbf"}
  /\ ram \in [Cells -> Number] /\ l2 \in [Cells -> Number \cup {Absent}]
  /\ dirty \subseteq {c \in Cells : l2[c] # Absent}
  /\ pc \in [Buffer -> {"idle", "poll", "inval", "copy", "sync", "status", "fbf", "return"}]
  /\ n \in [Buffer -> Number] /\ line \in [Buffer -> Lines]
  /\ user \in [Buffer -> [Lines -> Number]] /\ device \in [Lines -> Number]
  /\ moved \in Number /\ cma \in 0 .. NbLines + 1

\* Containers and images are moved whole, each of them once, and in order: what
\* _sys_nic_move copied to its caller is the next container of its cluster, what
\* the device got is the next one that was sent, whatever lines the cache keeps
\* or writes back.
MovedInOrder ==
  /\ \A b \in Buffer : use = "rx" /\ pc[b] = "status" =>
       \A l \in Lines : user[b][l] = n[b]
  /\ use # "rx" /\ cma = NbLines + 1 => \A l \in Lines : device[l] = moved

=============================================================================
