------------------------------- MODULE Classif -------------------------------
(***************************************************************************)
(* The application classif (applications/classif/main.c). In each cluster, *)
(* a task load fills containers from the network, analysis tasks count the *)
(* packets of each type and exchange their two addresses, and a task store *)
(* sends the containers back and makes them empty again. They exchange the *)
(* indices of the containers by three channels: s2l, l2a, a2s. A channel   *)
(* is the FIFO that MwmrChannel is shown to implement; the barriers and    *)
(* the heaps are those of the libraries.                                   *)
(*                                                                         *)
(* A container holds the packets of one buffer of the network controller,  *)
(* each the pair of its type and the number of times that its addresses    *)
(* have been exchanged. A cluster receives containers 1 .. CONTAINERS_MAX. *)
(***************************************************************************)
EXTENDS Naturals, Sequences, FiniteSetsExt

CONSTANTS Meshes,           \* <<number of clusters, analysis tasks per cluster>>
          CONTAINERS_MAX,   \* containers per cluster
          Packets           \* the types of the packets of each container

VARIABLES mesh,
          heaps,            \* heap_init was called for the clusters
          global_sync, load_sync, store_sync,
          local_sync,       \* clusters where it is set
          rx, tx,           \* the channels of the controller: off, on, stopped
          rx_barrier, tx_barrier,   \* clusters whose task waits, when it was initialised
          s2l, l2a, a2s,    \* the items of the channels of each cluster
          container,        \* of each cluster and index
          counter,          \* packets of each type
          pc,               \* where each task is
          index,            \* its variables
          count,
          p,
          sentOut           \* the containers that were sent back, by each cluster

sync == <<global_sync, load_sync, store_sync, local_sync>>
nic == <<rx, tx, sentOut>>
barriers == <<rx_barrier, tx_barrier>>
fifos == <<s2l, l2a, a2s>>
data == <<container, counter>>
local == <<index, count, p>>
vars == <<mesh, heaps, sync, nic, barriers, fifos, data, pc, local>>

Clusters == 0 .. mesh[1] - 1
Indices == 0 .. mesh[2] - 1
Load(c) == <<c, "load", 0>>
Store(c) == <<c, "store", 0>>
Analyse(c, i) == <<c, "analyse", i>>
Tasks ==
  UNION {{Load(c), Store(c)} \cup {Analyse(c, i) : i \in Indices} : c \in Clusters}

Types == UNION {{Packets[k][j] : j \in DOMAIN Packets[k]} : k \in DOMAIN Packets}
NoContainer == [id |-> 0, packets |-> <<>>]
Received(k) ==
  [id |-> k, packets |-> [j \in DOMAIN Packets[k] |-> [type |-> Packets[k][j], turns |-> 0]]]

Init ==
  /\ mesh \in Meshes
  /\ heaps = FALSE
  /\ global_sync = 0 /\ load_sync = 0 /\ store_sync = 0 /\ local_sync = {}
  /\ rx = "off" /\ tx = "off"
  /\ rx_barrier = <<>> /\ tx_barrier = <<>>
  /\ s2l = [c \in Clusters |-> <<>>]
  /\ l2a = [c \in Clusters |-> <<>>]
  /\ a2s = [c \in Clusters |-> <<>>]
  /\ container = [c \in Clusters |-> [i \in Indices |-> NoContainer]]
  /\ counter = [t \in Types |-> 0]
  /\ pc = [t \in Tasks |-> "start"]
  /\ index = [t \in Tasks |-> 0]
  /\ count = [t \in Tasks |-> 0]
  /\ p = [t \in Tasks |-> 0]
  /\ sentOut = [c \in Clusters |-> <<>>]

Goto(t, from, to) == pc[t] = from /\ pc' = [pc EXCEPT ![t] = to]

-----------------------------------------------------------------------------
(* load                                                                    *)

InitHeaps ==
  /\ Goto(Load(0), "start", "barrier")
  /\ heaps' = TRUE
  /\ global_sync' = 1
  /\ UNCHANGED <<mesh, load_sync, store_sync, local_sync, nic, barriers, fifos, data, local>>

\* sqt_barrier_init, giet_nic_rx_alloc, giet_nic_rx_start
StartRx ==
  /\ Goto(Load(0), "barrier", "fifos")
  /\ heaps
  /\ rx_barrier' = <<{}>>
  /\ rx' = "on"
  /\ load_sync' = 1
  /\ UNCHANGED <<mesh, heaps, global_sync, store_sync, local_sync, tx, sentOut, tx_barrier,
                 fifos, data, local>>

SeeLoadSync(c) ==
  /\ c # 0 /\ load_sync = 1
  /\ Goto(Load(c), "start", "fifos")
  /\ UNCHANGED <<mesh, heaps, sync, nic, barriers, fifos, data, local>>

\* The containers and the channels are allocated and initialised, then the other
\* tasks of the cluster may use them.
InitFifos(c) ==
  /\ Goto(Load(c), "fifos", "read") /\ heaps
  /\ s2l' = [s2l EXCEPT ![c] = [k \in 1 .. mesh[2] |-> k - 1]]
  /\ local_sync' = local_sync \cup {c}
  /\ UNCHANGED <<mesh, heaps, global_sync, load_sync, store_sync, nic, barriers, l2a, a2s,
                 data, local>>

Get(t, fifo) == fifo # <<>> /\ index' = [index EXCEPT ![t] = Head(fifo)]
\* mwmr_write; the channels have one place per container.
HasPlace(fifo) == Len(fifo) < mesh[2]

LoadRead(c) ==
  /\ count[Load(c)] < CONTAINERS_MAX
  /\ Goto(Load(c), "read", "move")
  /\ Get(Load(c), s2l[c])
  /\ s2l' = [s2l EXCEPT ![c] = Tail(@)]
  /\ UNCHANGED <<mesh, heaps, sync, nic, barriers, l2a, a2s, data, count, p>>

\* giet_nic_rx_move
LoadMove(c) ==
  /\ Goto(Load(c), "move", "write")
  /\ container' = [container EXCEPT ![c][index[Load(c)]] = Received(count[Load(c)] + 1)]
  /\ UNCHANGED <<mesh, heaps, sync, nic, barriers, fifos, counter, local>>

LoadWrite(c) ==
  /\ HasPlace(l2a[c])
  /\ Goto(Load(c), "write", "read")
  /\ l2a' = [l2a EXCEPT ![c] = Append(@, index[Load(c)])]
  /\ count' = [count EXCEPT ![Load(c)] = @ + 1]
  /\ UNCHANGED <<mesh, heaps, sync, nic, barriers, s2l, a2s, data, index, p>>

LoadArrives(c) ==
  /\ count[Load(c)] = CONTAINERS_MAX
  /\ Goto(Load(c), "read", "wait")
  /\ rx_barrier' = <<rx_barrier[1] \cup {c}>>
  /\ UNCHANGED <<mesh, heaps, sync, nic, tx_barrier, fifos, data, local>>

\* Cluster 0 stops the channel of the controller.
LoadEnds(c) ==
  /\ Goto(Load(c), "wait", "end")
  /\ rx_barrier[1] = Clusters
  /\ rx' = IF c = 0 THEN "stopped" ELSE rx
  /\ UNCHANGED <<mesh, heaps, sync, tx, sentOut, barriers, fifos, data, local>>

-----------------------------------------------------------------------------
(* store                                                                   *)

SeeGlobalSync(c) ==
  /\ global_sync = 1
  /\ Goto(Store(c), "start", "barrier")
  /\ UNCHANGED <<mesh, heaps, sync, nic, barriers, fifos, data, local>>

StartTx ==
  /\ Goto(Store(0), "barrier", "local") /\ heaps
  /\ tx_barrier' = <<{}>>
  /\ tx' = "on"
  /\ store_sync' = 1
  /\ UNCHANGED <<mesh, heaps, global_sync, load_sync, local_sync, rx, sentOut, rx_barrier,
                 fifos, data, local>>

SeeStoreSync(c) ==
  /\ c # 0 /\ store_sync = 1
  /\ Goto(Store(c), "barrier", "local")
  /\ UNCHANGED <<mesh, heaps, sync, nic, barriers, fifos, data, local>>

SeeLocalSync(t, from) ==
  /\ t[1] \in local_sync
  /\ Goto(t, from, "read")
  /\ UNCHANGED <<mesh, heaps, sync, nic, barriers, fifos, data, local>>

StoreRead(c) ==
  /\ count[Store(c)] < CONTAINERS_MAX
  /\ Goto(Store(c), "read", "move")
  /\ Get(Store(c), a2s[c])
  /\ a2s' = [a2s EXCEPT ![c] = Tail(@)]
  /\ UNCHANGED <<mesh, heaps, sync, nic, barriers, s2l, l2a, data, count, p>>

\* giet_nic_tx_move
StoreMove(c) ==
  /\ Goto(Store(c), "move", "write")
  /\ sentOut' = [sentOut EXCEPT ![c] = Append(@, container[c][index[Store(c)]])]
  /\ UNCHANGED <<mesh, heaps, sync, rx, tx, barriers, fifos, data, local>>

StoreWrite(c) ==
  /\ HasPlace(s2l[c])
  /\ Goto(Store(c), "write", "read")
  /\ s2l' = [s2l EXCEPT ![c] = Append(@, index[Store(c)])]
  /\ count' = [count EXCEPT ![Store(c)] = @ + 1]
  /\ UNCHANGED <<mesh, heaps, sync, nic, barriers, l2a, a2s, data, index, p>>

StoreArrives(c) ==
  /\ count[Store(c)] = CONTAINERS_MAX
  /\ Goto(Store(c), "read", "wait")
  /\ tx_barrier' = <<tx_barrier[1] \cup {c}>>
  /\ UNCHANGED <<mesh, heaps, sync, nic, rx_barrier, fifos, data, local>>

\* Faulty variant: without the barrier.
StoreEndsAlone(c) ==
  /\ Goto(Store(c), "wait", "end")
  /\ tx' = IF c = 0 THEN "stopped" ELSE tx
  /\ UNCHANGED <<mesh, heaps, sync, rx, sentOut, barriers, fifos, data, local>>

\* Cluster 0 stops the channel and displays the counters.
StoreEnds(c) ==
  /\ Goto(Store(c), "wait", "end")
  /\ tx_barrier[1] = Clusters
  /\ tx' = IF c = 0 THEN "stopped" ELSE tx
  /\ UNCHANGED <<mesh, heaps, sync, rx, sentOut, barriers, fifos, data, local>>

-----------------------------------------------------------------------------
(* analyse, which never ends                                               *)

AnalyseRead(c, i) ==
  /\ Goto(Analyse(c, i), "read", "packets")
  /\ Get(Analyse(c, i), l2a[c])
  /\ l2a' = [l2a EXCEPT ![c] = Tail(@)]
  /\ p' = [p EXCEPT ![Analyse(c, i)] = 1]
  /\ UNCHANGED <<mesh, heaps, sync, nic, barriers, s2l, a2s, data, count>>

Held(c, i) == container[c][index[Analyse(c, i)]]

\* One turn of the loop on the packets; the counter is incremented by
\* atomic_increment.
AnalysePacket(c, i) ==
  LET t == Analyse(c, i)
  IN /\ pc[t] = "packets" /\ p[t] \in DOMAIN Held(c, i).packets
     /\ counter' = [counter EXCEPT ![Held(c, i).packets[p[t]].type] = @ + 1]
     /\ container' = [container EXCEPT ![c][index[t]].packets[p[t]].turns = @ + 1]
     /\ p' = [p EXCEPT ![t] = @ + 1]
     /\ UNCHANGED <<mesh, heaps, sync, nic, barriers, fifos, pc, index, count>>

AnalyseWrite(c, i) ==
  LET t == Analyse(c, i)
  IN /\ p[t] = Len(Held(c, i).packets) + 1 /\ HasPlace(a2s[c])
     /\ Goto(t, "packets", "read")
     /\ a2s' = [a2s EXCEPT ![c] = Append(@, index[t])]
     /\ UNCHANGED <<mesh, heaps, sync, nic, barriers, s2l, l2a, data, local>>

-----------------------------------------------------------------------------

Progress ==
  \/ InitHeaps \/ StartRx \/ StartTx
  \/ \E c \in Clusters :
       \/ SeeLoadSync(c) \/ InitFifos(c) \/ LoadRead(c) \/ LoadMove(c) \/ LoadWrite(c)
       \/ LoadArrives(c) \/ LoadEnds(c)
       \/ SeeGlobalSync(c) \/ SeeStoreSync(c) \/ SeeLocalSync(Store(c), "local")
       \/ StoreRead(c) \/ StoreMove(c) \/ StoreWrite(c) \/ StoreArrives(c) \/ StoreEnds(c)
       \/ \E i \in Indices :
            \/ SeeLocalSync(Analyse(c, i), "start")
            \/ AnalyseRead(c, i) \/ AnalysePacket(c, i) \/ AnalyseWrite(c, i)

\* All have completed but the analysis tasks, which read channels that stay empty.
Ended == \A c \in Clusters : pc[Load(c)] = "end" /\ pc[Store(c)] = "end"
Complete == Ended /\ UNCHANGED vars

Next == Progress \/ Complete

-----------------------------------------------------------------------------
(* The exchange of the addresses, on the six half words of a packet.       *)

\* word >> 16 and word & 0xFFFF
High(word) == word[1]
Low(word) == word[2]
Exchanged(w) ==
  << <<Low(w[2]), High(w[3])>>, <<Low(w[3]), High(w[1])>>, <<Low(w[1]), High(w[2])>> >>
\* The destination and the source, of three half words each.
Dst(w) == <<High(w[1]), Low(w[1]), High(w[2])>>
Src(w) == <<Low(w[2]), High(w[3]), Low(w[3])>>

-----------------------------------------------------------------------------
(* Properties                                                              *)

TypeOK ==
  /\ rx \in {"off", "on", "stopped"} /\ tx \in {"off", "on", "stopped"}
  /\ local_sync \subseteq Clusters
  /\ \A c \in Clusters : \A fifo \in {s2l[c], l2a[c], a2s[c]} :
       Len(fifo) <= mesh[2] /\ \A k \in DOMAIN fifo : fifo[k] \in Indices
  /\ \A t \in Tasks : index[t] \in Indices /\ count[t] \in 0 .. CONTAINERS_MAX

\* The tasks that have a container for themselves.
Holders(c) ==
  {t \in Tasks : t[1] = c /\ pc[t] \in {"move", "write", "packets"}}
Places(c, i) ==
  Cardinality({t \in Holders(c) : index[t] = i})
    + Quantify(DOMAIN s2l[c], LAMBDA k : s2l[c][k] = i)
    + Quantify(DOMAIN l2a[c], LAMBDA k : l2a[c][k] = i)
    + Quantify(DOMAIN a2s[c], LAMBDA k : a2s[c][k] = i)

\* A container is in one channel, or belongs to one task; it is not lost.
OneOwner == \A c \in Clusters : c \in local_sync => \A i \in Indices : Places(c, i) = 1

\* A container is sent once, and after the two addresses of each of its packets have
\* been exchanged, once.
SentOnce ==
  \A c \in Clusters : \A k \in DOMAIN sentOut[c] :
    /\ \A j \in DOMAIN sentOut[c][k].packets : sentOut[c][k].packets[j].turns = 1
    /\ \A l \in DOMAIN sentOut[c] : l # k => sentOut[c][l].id # sentOut[c][k].id

\* The controller is used between its start and its stop, and a barrier after its
\* initialisation.
NicIsOn ==
  \A c \in Clusters :
    /\ pc[Load(c)] = "move" => rx = "on"
    /\ pc[Store(c)] = "move" => tx = "on"
    /\ pc[Load(c)] \in {"read", "wait"} => rx_barrier # <<>>
    /\ pc[Store(c)] \in {"read", "wait"} => tx_barrier # <<>>

\* The counters that the store task of cluster 0 displays are those of all the packets
\* that were received (the classification results).
AllCounted ==
  pc[Store(0)] = "end" =>
    \A t \in Types :
      counter[t] = mesh[1] * MapThenSumSet(
                     LAMBDA k : Quantify(DOMAIN Packets[k], LAMBDA j : Packets[k][j] = t),
                     1 .. CONTAINERS_MAX)

\* The addresses of a packet are exchanged by the shifts on its first three words.
ExchangesAddresses ==
  LET w == << <<1, 2>>, <<3, 4>>, <<5, 6>> >>
  IN Dst(Exchanged(w)) = Src(w) /\ Src(Exchanged(w)) = Dst(w)

=============================================================================
