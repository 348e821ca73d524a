---------------------------- MODULE TerminalsProofs ----------------------------
(***************************************************************************)
(* Theorem on the terminals, for any tasks, processors and applications,   *)
(* any numbers of channels and keys, and any mailboxes, when an allocation *)
(* overlaps no other one, nor a kill of the same application, and the      *)
(* tasks that share a terminal run on one processor. The order of the keys *)
(* needs moreover that none is typed in a masked terminal.                 *)
(*                                                                         *)
(* That an owned terminal is routed is not inductive. Between ReleaseIrq   *)
(* and FreeChannel the channel is owned by nobody, or not routed; between  *)
(* TakeBox and SetVector the vector is late. The invariant says, for each  *)
(* place of each task, who has the channel, its mailbox and its entry in   *)
(* the vector; and that a key that the ISR has read, but not announced, or *)
(* that a task has read, but not taken away, is not read again.            *)
(***************************************************************************)
EXTENDS Terminals, TLAPS

\* What TypeOK says, in the form in which it is used.
Types ==
  /\ ttyChannel \in SUBSET Channels /\ rxFull \in SUBSET Channels
  /\ unread \in SUBSET Channels
  /\ owned \in [Tasks -> Channels \cup {None}]
  /\ wtiAlloc \in [Processors -> SUBSET Boxes]
  /\ wtiVector \in [Processors -> [Boxes -> Channels \cup {None}]]
  /\ route \in [Channels -> (Processors \X Boxes) \cup {Masked}]
  /\ rxBuf \in [Channels -> 0 .. Keys] /\ typed \in [Channels -> 0 .. Keys]
  /\ got \in [Channels -> Seq(0 .. Keys)]
  /\ chan \in [Tasks -> Channels]
  /\ isr \in [Processors -> Channels \cup {None}]

\* The places of the tasks.
Places ==
  pc \in [Tasks -> {"run", "scan", "set", "box", "vector", "share", "exit", "read",
                    "release", "forget", "free", "dead"}]

\* One allocation at a time, and none in an application that a kill releases the
\* terminal of; one kill at a time on a processor.
OneAtATime ==
  /\ \A t, u \in Tasks : Allocating(t) /\ Allocating(u) => t = u
  /\ \A t, u \in Tasks : Allocating(t) /\ Releasing(u) => App[t] # App[u]
  /\ \A t, u \in Tasks : Releasing(t) /\ Releasing(u) /\ Proc[t] = Proc[u] => t = u

\* The task has taken its channel, not yet its mailbox; it has taken both.
HasChannel(t) == pc[t] \in {"box", "vector", "share"}
HasBox(t) == pc[t] \in {"vector", "share"}
IsMasked(t) == pc[t] \in {"forget", "free"}

\* Who has a channel: the task that allocates it, those that own it, the one that
\* releases it.
AllocInv ==
  /\ \A t \in Tasks : Allocating(t) => owned[t] = None
  /\ \A t \in Tasks : pc[t] = "set" => chan[t] \notin ttyChannel
  /\ \A t \in Tasks : HasChannel(t) => chan[t] \in ttyChannel
  /\ \A t, u \in Tasks : HasChannel(t) => owned[u] # chan[t]
  /\ \A t, u \in Tasks : HasChannel(t) /\ Releasing(u) => chan[u] # chan[t]

OwnInv ==
  /\ \A t \in Tasks : owned[t] # None => owned[t] \in ttyChannel
  /\ \A t, u \in Tasks : owned[t] # None /\ owned[u] = owned[t] =>
       App[t] = App[u] /\ Proc[t] = Proc[u]

ReleaseInv ==
  /\ \A t \in Tasks : Releasing(t) => chan[t] \in ttyChannel
  /\ \A t \in Tasks : pc[t] \in {"release", "forget"} => owned[t] = chan[t]
  /\ \A t, u \in Tasks : pc[t] = "free" => owned[u] # chan[t]
  /\ \A t, u \in Tasks : Releasing(t) /\ Releasing(u) /\ chan[u] = chan[t] => t = u

\* The IRQ of channel c comes to a mailbox of processor p, whose entry in the vector,
\* once it is written, is c.
RoutedTo(c, p) == \E b \in Boxes : route[c] = <<p, b>>
Entered(c) == \A p \in Processors, b \in Boxes : route[c] = <<p, b>> => wtiVector[p][b] = c

\* A mailbox has one channel, which is not in an entry before its own.
FirstInv ==
  \A c \in Channels, p \in Processors, b \in Boxes : route[c] = <<p, b>> =>
    b \in wtiAlloc[p] /\ \A a \in Boxes : a < b => wtiVector[p][a] # c
SingleInv == \A c, d \in Channels : route[c] # Masked /\ route[d] = route[c] => d = c
UsedInv ==
  \A p \in Processors : \A b \in wtiAlloc[p] : \E c \in Channels : route[c] = <<p, b>>
BoxInv == FirstInv /\ SingleInv /\ UsedInv

\* The entry of a channel is written, or will be by the task that allocates it.
EntryInv ==
  \A c \in Channels : Entered(c) \/ \E t \in Tasks : pc[t] = "vector" /\ chan[t] = c

\* The channels of the tasks are routed to their processors, and no other.
RouteInv ==
  /\ \A c \in Channels : route[c] # Masked => c \in ttyChannel
  /\ \A t \in Tasks : pc[t] = "box" => route[chan[t]] = Masked
  /\ \A t \in Tasks : HasBox(t) => RoutedTo(chan[t], Proc[t])
  /\ \A t \in Tasks : IsMasked(t) => route[chan[t]] = Masked

OwnRouteInv ==
  \A t \in Tasks : owned[t] # None =>
    \/ RoutedTo(owned[t], Proc[t])
    \/ \E r \in Tasks : pc[r] = "forget" /\ chan[r] = owned[t]

\* All keys that were read from the channel came before the one in its buffer.
Fresh(c) == \A i \in DOMAIN got[c] : got[c][i] < rxBuf[c]

\* The keys of a channel, on their way to a reader.
KeysInv ==
  /\ KeysInOrder
  /\ \A c \in Channels : rxBuf[c] <= typed[c]
  /\ \A c \in Channels : \A i \in DOMAIN got[c] : got[c][i] <= rxBuf[c]
  /\ \A c \in unread : rxBuf[c] < typed[c]

\* A key waits in the terminal, or for the end of an ISR, only where nobody releases
\* the channel.
UnreadInv ==
  /\ \A c \in unread : \E t \in Tasks : owned[t] = c
  /\ \A t \in Tasks : Releasing(t) => chan[t] \notin unread

IsrInv ==
  \A p \in Processors : isr[p] # None =>
    /\ Fresh(isr[p])
    /\ \E t \in Tasks : owned[t] = isr[p] /\ Proc[t] = p
    /\ \A t \in Tasks : Proc[t] = p => ~Releasing(t)

\* A full buffer holds a key that nobody read, unless the task that read it is not
\* finished, or the channel is being released.
Busy(t) == Releasing(t) \/ (pc[t] = "read" /\ owned[t] = chan[t])
FullInv ==
  \A c \in ttyChannel \cap rxFull : Fresh(c) \/ \E t \in Tasks : chan[t] = c /\ Busy(t)

TtyInv ==
  /\ Types /\ Places /\ OneAtATime /\ AllocInv /\ OwnInv /\ ReleaseInv /\ BoxInv
  /\ EntryInv /\ RouteInv /\ OwnRouteInv
  /\ TypeAhead \/ (KeysInv /\ UnreadInv /\ IsrInv /\ FullInv)

-----------------------------------------------------------------------------

LEMMA TypesAre == TypeOK <=> Types
BY DEF TypeOK, Types

LEMMA ConstantFacts ==
  ASSUME TerminalsAssumption
  PROVE  /\ Channels \subseteq Nat \ {0} /\ None \notin Channels /\ 1 \in Channels
         /\ Boxes \subseteq Nat /\ Keys \in Nat
         /\ \A t \in Tasks : Proc[t] \in Processors
BY DEF TerminalsAssumption, Channels, None, Processors

\* A mailbox is a pair, and no mailbox is none.
LEMMA BoxFacts ==
  /\ \A p, b : <<p, b>> # Masked
  /\ \A p, b, q, a : <<p, b>> = <<q, a>> => p = q /\ b = a
  /\ \A p, b : <<p, b>>[1] = p /\ <<p, b>>[2] = b
BY DEF Masked

-----------------------------------------------------------------------------

LEMMA SequenceFacts ==
  ASSUME NEW S, NEW q \in Seq(S)
  PROVE  /\ Len(q) \in Nat /\ DOMAIN q = 1 .. Len(q)
         /\ \A i \in DOMAIN q : q[i] \in S
         /\ \A x \in S : Append(q, x) \in Seq(S)
OBVIOUS

\* The steps that do not concern the keys.
LEMMA SameKeys ==
  ASSUME KeysInv, UNCHANGED <<rxBuf, typed, unread, got>>
  PROVE  KeysInv' /\ \A c : (Fresh(c)' <=> Fresh(c))
<1>1. KeysInOrder' = KeysInOrder
  BY DEF KeysInOrder
<1> QED
  BY <1>1 DEF KeysInv, Fresh

\* The steps that do not concern the mailboxes.
LEMMA SameRoutes ==
  ASSUME BoxInv, UNCHANGED <<wtiAlloc, wtiVector, route>>
  PROVE  /\ BoxInv'
         /\ \A c, p : RoutedTo(c, p)' <=> RoutedTo(c, p)
         /\ \A c : Entered(c)' <=> Entered(c)
BY DEF BoxInv, FirstInv, SingleInv, UsedInv, RoutedTo, Entered

-----------------------------------------------------------------------------

LEMMA AllocPreserves ==
  ASSUME TerminalsAssumption, ~Overlap, OneProcessor, TtyInv, NEW t \in Tasks,
         Runs(t), Alloc(t)
  PROVE  TtyInv'
<1> USE ConstantFacts DEF Goto, routing, input, Alloc
<1>1. Types /\ Types'
  BY DEF Types, TtyInv
<1>2. Places /\ Places'
  BY DEF TtyInv, Places
<1>3. OneAtATime'
  BY <1>2 DEF TtyInv, OneAtATime, Places, Allocating, Releasing, Runs
<1>4. AllocInv'
  BY <1>1, <1>2 DEF Types, TtyInv, AllocInv, OneAtATime, Places, Allocating, Releasing, HasChannel
<1>5. OwnInv'
  BY <1>1, <1>2 DEF Types, TtyInv, OwnInv, Places, AllocInv
<1>6. ReleaseInv'
  BY <1>1, <1>2 DEF Types, TtyInv, ReleaseInv, Places, Releasing
<1>7. /\ BoxInv'
      /\ \A c, p : (RoutedTo(c, p)' <=> RoutedTo(c, p))
      /\ \A c : (Entered(c)' <=> Entered(c))
  BY SameRoutes DEF TtyInv
<1>8. EntryInv'
  BY <1>1, <1>2, <1>7 DEF Types, TtyInv, EntryInv, Places
<1>9. RouteInv'
  BY <1>1, <1>2, <1>7 DEF Types, TtyInv, RouteInv, HasBox, IsMasked, Places
<1>10. OwnRouteInv'
  BY <1>1, <1>2, <1>7 DEF Types, TtyInv, OwnRouteInv, Places
<1> SUFFICES ASSUME ~TypeAhead
             PROVE  KeysInv' /\ UnreadInv' /\ IsrInv' /\ FullInv'
  BY <1>1, <1>2, <1>3, <1>4, <1>5, <1>6, <1>7, <1>8, <1>9, <1>10 DEF TtyInv
<1>11. KeysInv' /\ \A c : (Fresh(c)' <=> Fresh(c))
  BY SameKeys DEF TtyInv
<1>12. UnreadInv'
  BY <1>1, <1>2 DEF Types, TtyInv, UnreadInv, Places, Releasing
<1>13. IsrInv'
  BY <1>1, <1>2, <1>11 DEF Types, TtyInv, IsrInv, Places, Releasing
<1>14. FullInv'
  <2>1. \A u \in Tasks : Busy(u) => u # t
    BY DEF Busy, Releasing
  <2>2. \A u \in Tasks : Busy(u) => Busy(u)' /\ chan'[u] = chan[u]
    BY <1>1, <1>2, <2>1 DEF Types, Busy, Places, Releasing
  <2> QED
    BY <2>2, <1>11 DEF TtyInv, FullInv
<1>15. KeysInv'
  BY <1>11
<1> QED
  BY ONLY <1>12, <1>13, <1>14, <1>15

LEMMA ScanBusyPreserves ==
  ASSUME TerminalsAssumption, ~Overlap, OneProcessor, TtyInv, NEW t \in Tasks,
         Runs(t), ScanBusy(t)
  PROVE  TtyInv'
<1>1. Types /\ Types'
  BY ConstantFacts DEF Types, TtyInv, Goto, routing, input, ScanBusy
<1>2. Places /\ Places'
  BY DEF TtyInv, Places, Goto, ScanBusy
<1>b. /\ pc[t] = "scan" /\ pc'[t] \in {"scan", "exit"} /\ \A u \in Tasks : u # t => pc'[u] = pc[u]
      /\ \A u \in Tasks : u # t => chan'[u] = chan[u]
      /\ UNCHANGED <<ttyChannel, owned, routing, input, isr>>
  BY <1>1, <1>2 DEF Types, Places, ScanBusy, Goto
<1>c. \A u \in Tasks : /\ (Releasing(u)' <=> Releasing(u)) /\ (HasChannel(u)' <=> HasChannel(u))
                       /\ (Busy(u)' <=> Busy(u)) /\ (Allocating(u)' => Allocating(u))
                       /\ (Releasing(u) \/ HasChannel(u) \/ Busy(u) => u # t /\ chan'[u] = chan[u])
  BY <1>b DEF Releasing, HasChannel, Busy, Allocating
<1>3. OneAtATime'
  BY <1>c DEF TtyInv, OneAtATime
<1>4. AllocInv'
  BY <1>b, <1>c DEF TtyInv, AllocInv
<1>5. OwnInv'
  BY <1>b DEF TtyInv, OwnInv
<1>6. ReleaseInv'
  BY <1>b, <1>c DEF TtyInv, ReleaseInv
<1>7. /\ BoxInv'
      /\ \A c, p : (RoutedTo(c, p)' <=> RoutedTo(c, p))
      /\ \A c : (Entered(c)' <=> Entered(c))
  BY SameRoutes DEF TtyInv, routing, ScanBusy
<1>8. EntryInv'
  BY <1>b, <1>7 DEF TtyInv, EntryInv
<1>9. RouteInv'
  BY <1>b, <1>7 DEF TtyInv, RouteInv, routing, HasBox, IsMasked
<1>10. OwnRouteInv'
  BY <1>b, <1>7 DEF TtyInv, OwnRouteInv
<1> SUFFICES ASSUME ~TypeAhead
             PROVE  KeysInv' /\ UnreadInv' /\ IsrInv' /\ FullInv'
  BY <1>1, <1>2, <1>3, <1>4, <1>5, <1>6, <1>7, <1>8, <1>9, <1>10 DEF TtyInv
<1>11. KeysInv' /\ \A c : (Fresh(c)' <=> Fresh(c))
  BY SameKeys DEF TtyInv, input, ScanBusy
<1>12. UnreadInv'
  BY <1>b, <1>c DEF TtyInv, UnreadInv, input
<1>13. IsrInv'
  BY <1>b, <1>c, <1>11 DEF TtyInv, IsrInv
<1>14. FullInv'
  BY <1>b, <1>c, <1>11 DEF TtyInv, FullInv, input
<1> QED
  BY <1>11, <1>12, <1>13, <1>14

LEMMA ScanFreePreserves ==
  ASSUME TerminalsAssumption, ~Overlap, OneProcessor, TtyInv, NEW t \in Tasks,
         Runs(t), ScanFree(t)
  PROVE  TtyInv'
<1> USE ConstantFacts DEF Goto, routing, input, ScanFree
<1>1. Types /\ Types'
  BY DEF Types, TtyInv
<1>2. Places /\ Places'
  BY DEF TtyInv, Places
<1>3. OneAtATime'
  BY <1>2 DEF TtyInv, OneAtATime, Places, Allocating, Releasing, Runs
<1>4. AllocInv'
  BY <1>1, <1>2 DEF Types, TtyInv, AllocInv, OneAtATime, Places, Allocating, Releasing, HasChannel
<1>5. OwnInv'
  BY <1>1, <1>2 DEF Types, TtyInv, OwnInv, Places, AllocInv
<1>6. ReleaseInv'
  BY <1>1, <1>2 DEF Types, TtyInv, ReleaseInv, Places, Releasing
<1>7. /\ BoxInv'
      /\ \A c, p : (RoutedTo(c, p)' <=> RoutedTo(c, p))
      /\ \A c : (Entered(c)' <=> Entered(c))
  BY SameRoutes DEF TtyInv
<1>8. EntryInv'
  BY <1>1, <1>2, <1>7 DEF Types, TtyInv, EntryInv, Places
<1>9. RouteInv'
  BY <1>1, <1>2, <1>7 DEF Types, TtyInv, RouteInv, HasBox, IsMasked, Places
<1>10. OwnRouteInv'
  BY <1>1, <1>2, <1>7 DEF Types, TtyInv, OwnRouteInv, Places
<1> SUFFICES ASSUME ~TypeAhead
             PROVE  KeysInv' /\ UnreadInv' /\ IsrInv' /\ FullInv'
  BY <1>1, <1>2, <1>3, <1>4, <1>5, <1>6, <1>7, <1>8, <1>9, <1>10 DEF TtyInv
<1>11. KeysInv' /\ \A c : (Fresh(c)' <=> Fresh(c))
  BY SameKeys DEF TtyInv
<1>12. UnreadInv'
  BY <1>1, <1>2 DEF Types, TtyInv, UnreadInv, Places, Releasing
<1>13. IsrInv'
  BY <1>1, <1>2, <1>11 DEF Types, TtyInv, IsrInv, Places, Releasing
<1>14. FullInv'
  BY <1>1, <1>2, <1>11 DEF Types, TtyInv, FullInv, Busy, Places, Releasing
<1> QED
  BY <1>11, <1>12, <1>13, <1>14

LEMMA SetChannelPreserves ==
  ASSUME TerminalsAssumption, ~Overlap, OneProcessor, TtyInv, NEW t \in Tasks,
         Runs(t), SetChannel(t)
  PROVE  TtyInv'
<1> USE ConstantFacts DEF Goto, routing, input, SetChannel
<1>1. Types /\ Types'
  BY DEF Types, TtyInv
<1>2. Places /\ Places'
  BY DEF TtyInv, Places
<1>3. OneAtATime'
  BY <1>2 DEF TtyInv, OneAtATime, Places, Allocating, Releasing, Runs
<1>4. AllocInv'
  BY <1>1, <1>2 DEF Types, TtyInv, AllocInv, OwnInv, ReleaseInv, OneAtATime, Places,
                    Allocating, Releasing, HasChannel
<1>5. OwnInv'
  BY <1>1, <1>2 DEF Types, TtyInv, OwnInv, Places, AllocInv
<1>6. ReleaseInv'
  BY <1>1, <1>2 DEF Types, TtyInv, ReleaseInv, Places, Releasing
<1>7. /\ BoxInv'
      /\ \A c, p : (RoutedTo(c, p)' <=> RoutedTo(c, p))
      /\ \A c : (Entered(c)' <=> Entered(c))
  BY SameRoutes DEF TtyInv
<1>8. EntryInv'
  BY <1>1, <1>2, <1>7 DEF Types, TtyInv, EntryInv, Places
<1>9. RouteInv'
  BY <1>1, <1>2, <1>7 DEF Types, TtyInv, RouteInv, AllocInv, HasBox, IsMasked, Places
<1>10. OwnRouteInv'
  BY <1>1, <1>2, <1>7 DEF Types, TtyInv, OwnRouteInv, Places
<1> SUFFICES ASSUME ~TypeAhead
             PROVE  KeysInv' /\ UnreadInv' /\ IsrInv' /\ FullInv'
  BY <1>1, <1>2, <1>3, <1>4, <1>5, <1>6, <1>7, <1>8, <1>9, <1>10 DEF TtyInv
<1>11. KeysInv' /\ \A c : (Fresh(c)' <=> Fresh(c))
  BY SameKeys DEF TtyInv
<1>12. UnreadInv'
  BY <1>1, <1>2 DEF Types, TtyInv, UnreadInv, Places, Releasing
<1>13. IsrInv'
  BY <1>1, <1>2, <1>11 DEF Types, TtyInv, IsrInv, Places, Releasing
<1>14. FullInv'
  BY <1>1, <1>2, <1>11 DEF Types, TtyInv, FullInv, Busy, Places, Releasing
<1> QED
  BY <1>11, <1>12, <1>13, <1>14

LEMMA TakeBoxPreserves ==
  ASSUME TerminalsAssumption, ~Overlap, OneProcessor, TtyInv, NEW t \in Tasks,
         Runs(t), TakeBox(t)
  PROVE  TtyInv'
<1>2. Places /\ Places'
  BY DEF TtyInv, Places, Goto, TakeBox
<1>a. PICK b \in Boxes : 
        /\ b \notin wtiAlloc[Proc[t]]
        /\ \A a \in Boxes : a < b => a \in wtiAlloc[Proc[t]]
        /\ wtiAlloc' = [wtiAlloc EXCEPT ![Proc[t]] = @ \cup {b}]
        /\ route' = [route EXCEPT ![chan[t]] = <<Proc[t], b>>]
  <2>1. PICK b \in Boxes \ wtiAlloc[Proc[t]] :
          /\ \A a \in Boxes \ wtiAlloc[Proc[t]] : b <= a
          /\ wtiAlloc' = [wtiAlloc EXCEPT ![Proc[t]] = @ \cup {b}]
          /\ route' = [route EXCEPT ![chan[t]] = <<Proc[t], b>>]
    BY DEF TakeBox
  <2>2. \A a \in Boxes : a < b => ~(b <= a)
    BY ConstantFacts
  <2> QED
    BY <2>1, <2>2
<1>1. Types /\ Types'
  <2>1. Types /\ Proc[t] \in Processors /\ chan[t] \in Channels
    BY ConstantFacts DEF Types, TtyInv
  <2>2. wtiAlloc' \in [Processors -> SUBSET Boxes]
    BY <1>a, <2>1 DEF Types
  <2>3. route' \in [Channels -> (Processors \X Boxes) \cup {Masked}]
    <3>1. <<Proc[t], b>> \in (Processors \X Boxes) \cup {Masked}
      BY <2>1
    <3> QED
      BY <1>a, <2>1, <3>1 DEF Types
  <2> QED
    BY <2>1, <2>2, <2>3 DEF Types, TakeBox, Goto, input
<1>b. /\ route'[chan[t]] = <<Proc[t], b>> /\ \A c \in Channels : c # chan[t] => route'[c] = route[c]
      /\ wtiAlloc'[Proc[t]] = wtiAlloc[Proc[t]] \cup {b}
      /\ \A p \in Processors : wtiAlloc[p] \subseteq wtiAlloc'[p]
      /\ \A p \in Processors : p # Proc[t] => wtiAlloc'[p] = wtiAlloc[p]
      /\ wtiVector' = wtiVector /\ chan' = chan /\ ttyChannel' = ttyChannel /\ owned' = owned
      /\ chan[t] \in Channels /\ Proc[t] \in Processors
      /\ pc[t] = "box" /\ pc'[t] = "vector" /\ \A u \in Tasks : u # t => pc'[u] = pc[u]
  BY <1>a, <1>1, <1>2, ConstantFacts DEF Types, Places, TakeBox, Goto, input
<1>3. OneAtATime'
  BY <1>b, <1>2 DEF TtyInv, OneAtATime, Allocating, Releasing
<1>4. AllocInv'
  BY <1>b DEF TtyInv, AllocInv, OneAtATime, Allocating, Releasing, HasChannel
<1>5. OwnInv'
  BY <1>b DEF TtyInv, OwnInv
<1>6. ReleaseInv'
  BY <1>b DEF TtyInv, ReleaseInv, Releasing
<1>c. route[chan[t]] = Masked /\ chan[t] \in ttyChannel
  BY <1>b DEF TtyInv, RouteInv, AllocInv, HasChannel
<1>d. \A a \in wtiAlloc[Proc[t]] : a \in Boxes => wtiVector[Proc[t]][a] # chan[t]
  <2> SUFFICES ASSUME NEW a \in wtiAlloc[Proc[t]], a \in Boxes
               PROVE  wtiVector[Proc[t]][a] # chan[t]
    OBVIOUS
  <2>1. PICK c \in Channels : route[c] = <<Proc[t], a>>
    BY <1>b DEF TtyInv, BoxInv, UsedInv
  <2>2. c # chan[t]
    BY <2>1, <1>c, BoxFacts
  <2>3. \A u \in Tasks : pc[u] # "vector"
    BY <1>b DEF TtyInv, OneAtATime, Allocating
  <2>4. Entered(c)
    BY <2>3 DEF TtyInv, EntryInv
  <2> QED
    BY <2>1, <2>2, <2>4, <1>b DEF Entered
<1>e. \A c \in Channels : route[c] # <<Proc[t], b>>
  BY <1>a, <1>b DEF TtyInv, BoxInv, FirstInv
<1>7. BoxInv'
  <2>1. ASSUME NEW c \in Channels, NEW p \in Processors, NEW q \in Boxes, route'[c] = <<p, q>>
        PROVE  q \in wtiAlloc'[p] /\ \A a \in Boxes : a < q => wtiVector'[p][a] # c
    <3>1. CASE c = chan[t]
      <4>1. p = Proc[t] /\ q = b
        BY <2>1, <3>1, <1>b, BoxFacts
      <4> QED
        BY <4>1, <1>a, <1>b, <1>d, <3>1
    <3>2. CASE c # chan[t]
      BY <2>1, <3>2, <1>b DEF TtyInv, BoxInv, FirstInv
    <3> QED
      BY <3>1, <3>2
  <2>2. ASSUME NEW c \in Channels, NEW d \in Channels, route'[c] # Masked, route'[d] = route'[c]
        PROVE  d = c
    BY <2>2, <1>b, <1>e DEF TtyInv, BoxInv, SingleInv
  <2>3. ASSUME NEW p \in Processors, NEW q \in wtiAlloc'[p]
        PROVE  \E c \in Channels : route'[c] = <<p, q>>
    <3>1. CASE p = Proc[t] /\ q = b
      BY <3>1, <1>b
    <3>2. CASE ~(p = Proc[t] /\ q = b)
      <4>1. q \in wtiAlloc[p]
        BY <2>3, <3>2, <1>b
      <4>2. PICK c \in Channels : route[c] = <<p, q>>
        BY <4>1 DEF TtyInv, BoxInv, UsedInv
      <4>3. c # chan[t]
        BY <4>2, <1>c, BoxFacts
      <4> QED
        BY <4>2, <4>3, <1>b
    <3> QED
      BY <3>1, <3>2
  <2> QED
    BY <2>1, <2>2, <2>3 DEF BoxInv, FirstInv, SingleInv, UsedInv
<1>8. EntryInv'
  <2> SUFFICES ASSUME NEW c \in Channels, c # chan[t]
               PROVE  Entered(c)'
    BY <1>b DEF EntryInv
  <2>1. Entered(c)
    BY <1>b DEF TtyInv, EntryInv, OneAtATime, Allocating
  <2> QED
    BY <2>1, <1>b DEF Entered
<1>f. /\ RoutedTo(chan[t], Proc[t])'
      /\ \A c \in Channels : \A p : c # chan[t] => (RoutedTo(c, p)' <=> RoutedTo(c, p))
  BY <1>b DEF RoutedTo
<1>9. RouteInv'
  <2>1. \A c \in Channels : route'[c] # Masked => c \in ttyChannel'
    BY <1>b, <1>c DEF TtyInv, RouteInv
  <2>2. \A u \in Tasks : u # t => ~HasBox(u)' /\ pc'[u] # "box"
    BY <1>b DEF TtyInv, OneAtATime, Allocating, HasBox
  <2>3. ASSUME NEW u \in Tasks, IsMasked(u)'
        PROVE  route'[chan'[u]] = Masked
    <3>1. IsMasked(u) /\ Releasing(u) /\ chan[u] \in Channels
      BY <2>3, <1>1, <1>b DEF IsMasked, Releasing, Types
    <3>2. route[chan[u]] = Masked /\ chan[u] # chan[t]
      BY <3>1, <1>b DEF TtyInv, RouteInv, AllocInv, HasChannel
    <3> QED
      BY <3>1, <3>2, <1>b
  <2> QED
    BY <2>1, <2>2, <2>3, <1>b, <1>f DEF RouteInv, HasBox
<1>10. OwnRouteInv'
  <2>1. \A u \in Tasks : owned[u] # None => owned[u] \in Channels /\ owned[u] # chan[t]
    BY <1>1, <1>b DEF TtyInv, Types, AllocInv, HasChannel
  <2>2. \A r \in Tasks : pc[r] = "forget" => pc'[r] = "forget"
    BY <1>b
  <2> QED
    BY <2>1, <2>2, <1>b, <1>f DEF TtyInv, OwnRouteInv
<1> SUFFICES ASSUME ~TypeAhead
             PROVE  KeysInv' /\ UnreadInv' /\ IsrInv' /\ FullInv'
  BY <1>1, <1>2, <1>3, <1>4, <1>5, <1>6, <1>7, <1>8, <1>9, <1>10 DEF TtyInv
<1>11. KeysInv' /\ \A c : (Fresh(c)' <=> Fresh(c))
  BY SameKeys DEF TtyInv, input, TakeBox
<1>12. UnreadInv'
  BY <1>b DEF TtyInv, UnreadInv, Releasing, TakeBox, input
<1>13. IsrInv'
  BY <1>b, <1>11 DEF TtyInv, IsrInv, Releasing, TakeBox
<1>14. FullInv'
  BY <1>b, <1>11 DEF TtyInv, FullInv, Busy, Releasing, TakeBox, input
<1> QED
  BY <1>11, <1>12, <1>13, <1>14

LEMMA SetVectorPreserves ==
  ASSUME TerminalsAssumption, ~Overlap, OneProcessor, TtyInv, NEW t \in Tasks,
         Runs(t), SetVector(t)
  PROVE  TtyInv'
<1>1. Types /\ Types'
  BY ConstantFacts DEF Types, TtyInv, Goto, routing, input, SetVector
<1>2. Places /\ Places'
  BY DEF TtyInv, Places, Goto, SetVector
<1>a. PICK b \in Boxes : route[chan[t]] = <<Proc[t], b>>
  BY DEF TtyInv, RouteInv, RoutedTo, HasBox, SetVector
<1>b. /\ wtiVector'[Proc[t]][b] = chan[t]
      /\ \A p \in Processors, a \in Boxes :
           p # Proc[t] \/ a # b => wtiVector'[p][a] = wtiVector[p][a]
      /\ wtiAlloc' = wtiAlloc /\ route' = route /\ chan' = chan /\ owned' = owned
      /\ ttyChannel' = ttyChannel /\ chan[t] \in Channels /\ Proc[t] \in Processors
      /\ pc[t] = "vector" /\ pc'[t] = "share" /\ \A u \in Tasks : u # t => pc'[u] = pc[u]
  BY <1>a, <1>1, <1>2, BoxFacts, ConstantFacts DEF Types, Places, SetVector, Goto, input
<1>c. \A c \in Channels : c # chan[t] => route[c] # <<Proc[t], b>>
  <2> SUFFICES ASSUME NEW c \in Channels, route[c] = <<Proc[t], b>>
               PROVE  c = chan[t]
    OBVIOUS
  <2>1. route[chan[t]] # Masked /\ route[c] = route[chan[t]]
    BY <1>a, BoxFacts
  <2> QED
    BY <2>1, <1>b DEF TtyInv, BoxInv, SingleInv
<1>d. \A c, p : (RoutedTo(c, p)' <=> RoutedTo(c, p))
  BY <1>b DEF RoutedTo
<1>3. OneAtATime'
  BY <1>b DEF TtyInv, OneAtATime, Allocating, Releasing
<1>4. AllocInv'
  BY <1>b DEF TtyInv, AllocInv, Allocating, Releasing, HasChannel
<1>5. OwnInv'
  BY <1>b DEF TtyInv, OwnInv
<1>6. ReleaseInv'
  BY <1>b DEF TtyInv, ReleaseInv, Releasing
<1>7. BoxInv'
  <2>1. ASSUME NEW c \in Channels, NEW p \in Processors, NEW q \in Boxes, route[c] = <<p, q>>,
               NEW a \in Boxes, a < q
        PROVE  wtiVector'[p][a] # c
    <3>1. wtiVector[p][a] # c
      BY <2>1 DEF TtyInv, BoxInv, FirstInv
    <3>2. CASE p # Proc[t] \/ a # b
      BY <3>1, <3>2, <1>b
    <3>3. CASE p = Proc[t] /\ a = b
      <4>1. q # b
        BY <2>1, <3>3, ConstantFacts
      <4>2. c # chan[t]
        BY <4>1, <2>1, <1>a, BoxFacts
      <4> QED
        BY <4>2, <3>3, <1>b
    <3> QED
      BY <3>2, <3>3
  <2>2. FirstInv'
    BY <2>1, <1>b DEF TtyInv, BoxInv, FirstInv
  <2>3. SingleInv' /\ UsedInv'
    BY <1>b DEF TtyInv, BoxInv, SingleInv, UsedInv
  <2> QED
    BY <2>2, <2>3 DEF BoxInv
<1>8. EntryInv'
  <2>1. Entered(chan[t])'
    BY <1>a, <1>b, BoxFacts DEF Entered
  <2>2. ASSUME NEW c \in Channels, c # chan[t]
        PROVE  Entered(c)'
    <3>1. Entered(c)
      BY <2>2, <1>b DEF TtyInv, EntryInv, OneAtATime, Allocating
    <3> QED
      BY <3>1, <2>2, <1>b, <1>c DEF Entered
  <2> QED
    BY <2>1, <2>2, <1>b DEF EntryInv
<1>9. RouteInv'
  BY <1>b, <1>d DEF TtyInv, RouteInv, HasBox, IsMasked
<1>10. OwnRouteInv'
  BY <1>b, <1>d DEF TtyInv, OwnRouteInv
<1> SUFFICES ASSUME ~TypeAhead
             PROVE  KeysInv' /\ UnreadInv' /\ IsrInv' /\ FullInv'
  BY <1>1, <1>2, <1>3, <1>4, <1>5, <1>6, <1>7, <1>8, <1>9, <1>10 DEF TtyInv
<1>11. KeysInv' /\ \A c : (Fresh(c)' <=> Fresh(c))
  BY SameKeys DEF TtyInv, input, SetVector
<1>12. UnreadInv'
  BY <1>b DEF TtyInv, UnreadInv, Releasing, SetVector, input
<1>13. IsrInv'
  BY <1>b, <1>11 DEF TtyInv, IsrInv, Releasing, SetVector
<1>14. FullInv'
  BY <1>b, <1>11 DEF TtyInv, FullInv, Busy, Releasing, SetVector, input
<1> QED
  BY <1>11, <1>12, <1>13, <1>14

LEMMA SharePreserves ==
  ASSUME TerminalsAssumption, ~Overlap, OneProcessor, TtyInv, NEW t \in Tasks,
         Runs(t), Share(t)
  PROVE  TtyInv'
<1>1. Types /\ Types'
  BY ConstantFacts DEF Types, TtyInv, Goto, routing, input, Share
<1>2. Places /\ Places'
  BY DEF TtyInv, Places, Goto, Share
<1>b. /\ chan[t] \in Channels /\ chan[t] # None
      /\ owned'[t] = chan[t]
      /\ \A u \in Tasks : owned'[u] # owned[u] =>
           owned'[u] = chan[t] /\ App[u] = App[t] /\ Proc[u] = Proc[t]
      /\ \A u \in Tasks : owned'[u] # owned[u] => owned[u] = None
      /\ pc[t] = "share" /\ pc'[t] = "run" /\ \A u \in Tasks : u # t => pc'[u] = pc[u]
      /\ UNCHANGED <<ttyChannel, routing, input, chan, isr>>
  <2>1. /\ \A u \in Tasks : owned'[u] =
             IF u = t \/ (App[t] \in Shared /\ u \in Members(t) /\ owned[u] = None)
             THEN chan[t] ELSE owned[u]
        /\ pc[t] = "share"
        /\ UNCHANGED <<ttyChannel, routing, input, chan, isr>>
    BY DEF Share
  <2>2. owned[t] = None
    BY <2>1 DEF TtyInv, AllocInv, Allocating
  <2>3. \A u \in Tasks : owned'[u] # owned[u] =>
          /\ owned'[u] = chan[t] /\ owned[u] = None
          /\ u = t \/ (App[t] \in Shared /\ u \in Members(t))
    BY <2>1, <2>2
  <2>4. \A u \in Tasks : u \in Members(t) => App[u] = App[t]
    BY DEF Members
  <2>5. \A u \in Tasks : owned'[u] # owned[u] => App[u] = App[t] /\ Proc[u] = Proc[t]
    BY <2>3, <2>4 DEF OneProcessor
  <2>6. chan[t] \in Channels /\ chan[t] # None
    BY <1>1, ConstantFacts DEF Types
  <2>7. pc'[t] = "run" /\ \A u \in Tasks : u # t => pc'[u] = pc[u]
    BY <1>2 DEF Places, Share, Goto
  <2> QED
    BY <2>1, <2>3, <2>5, <2>6, <2>7
<1>c. /\ HasChannel(t) /\ HasBox(t) /\ Allocating(t)
      /\ \A u \in Tasks : u # t => ~Allocating(u)
  BY <1>b DEF HasChannel, HasBox, Allocating, TtyInv, OneAtATime
<1>d. /\ chan[t] \in ttyChannel /\ \A u \in Tasks : owned[u] # chan[t]
      /\ \A u \in Tasks : Releasing(u) => chan[u] # chan[t] /\ App[u] # App[t]
  BY <1>c DEF TtyInv, AllocInv, OneAtATime
<1>e. \A u \in Tasks : /\ (Releasing(u)' <=> Releasing(u)) /\ ~Allocating(u)' /\ ~HasChannel(u)'
                       /\ (Releasing(u) => owned'[u] = owned[u])
  BY <1>b, <1>c, <1>d DEF Releasing, Allocating, HasChannel
<1>3. OneAtATime'
  BY <1>e DEF TtyInv, OneAtATime
<1>4. AllocInv'
  BY <1>b, <1>e DEF AllocInv, Allocating
<1>5. OwnInv'
  <2>1. \A u \in Tasks : owned'[u] # None => owned'[u] \in ttyChannel'
    BY <1>b, <1>d DEF TtyInv, OwnInv
  <2>2. ASSUME NEW u \in Tasks, NEW v \in Tasks, owned'[u] # None, owned'[v] = owned'[u]
        PROVE  App[u] = App[v] /\ Proc[u] = Proc[v]
    <3>1. CASE owned'[u] = chan[t]
      <4>1. owned'[u] # owned[u] /\ owned'[v] # owned[v]
        BY <3>1, <2>2, <1>d
      <4> QED
        BY <4>1, <1>b
    <3>2. CASE owned'[u] # chan[t]
      BY <3>2, <2>2, <1>b DEF TtyInv, OwnInv
    <3> QED
      BY <3>1, <3>2
  <2> QED
    BY <2>1, <2>2 DEF OwnInv
<1>6. ReleaseInv'
  <2>1. \A u \in Tasks : pc'[u] \in {"release", "forget", "free"} => Releasing(u) /\ pc'[u] = pc[u]
    BY <1>b, <1>e DEF Releasing
  <2>2. \A u, v \in Tasks : pc'[u] = "free" => owned'[v] # chan'[u]
    BY <2>1, <1>b, <1>d DEF TtyInv, ReleaseInv
  <2> QED
    BY <2>1, <2>2, <1>b, <1>d, <1>e DEF TtyInv, ReleaseInv
<1>7. /\ BoxInv'
      /\ \A c, p : (RoutedTo(c, p)' <=> RoutedTo(c, p))
      /\ \A c : (Entered(c)' <=> Entered(c))
  BY SameRoutes DEF TtyInv, routing, Share
<1>8. EntryInv'
  BY <1>b, <1>7 DEF TtyInv, EntryInv
<1>9. RouteInv'
  BY <1>b, <1>7 DEF TtyInv, RouteInv, routing, HasBox, IsMasked
<1>f. RoutedTo(chan[t], Proc[t])
  BY <1>c DEF TtyInv, RouteInv
<1>10. OwnRouteInv'
  <2> SUFFICES ASSUME NEW u \in Tasks, owned'[u] # None,
                      ~\E r \in Tasks : pc'[r] = "forget" /\ chan'[r] = owned'[u]
               PROVE  RoutedTo(owned'[u], Proc[u])
    BY <1>7 DEF OwnRouteInv
  <2>1. CASE owned'[u] = owned[u]
    BY <2>1, <1>b DEF TtyInv, OwnRouteInv
  <2>2. CASE owned'[u] # owned[u]
    BY <2>2, <1>b, <1>f
  <2> QED
    BY <2>1, <2>2
<1> SUFFICES ASSUME ~TypeAhead
             PROVE  KeysInv' /\ UnreadInv' /\ IsrInv' /\ FullInv'
  BY <1>1, <1>2, <1>3, <1>4, <1>5, <1>6, <1>7, <1>8, <1>9, <1>10 DEF TtyInv
<1>11. KeysInv' /\ \A c : (Fresh(c)' <=> Fresh(c))
  BY SameKeys DEF TtyInv, input, Share
<1>12. UnreadInv'
  <2>1. ASSUME NEW c \in unread
        PROVE  \E u \in Tasks : owned'[u] = c
    <3>1. PICK u \in Tasks : owned[u] = c
      BY DEF TtyInv, UnreadInv
    <3>2. c # None
      BY <1>1, ConstantFacts DEF Types
    <3> QED
      BY <3>1, <3>2, <1>b
  <2> QED
    BY <2>1, <1>b, <1>e DEF TtyInv, UnreadInv, input
<1>13. IsrInv'
  <2> SUFFICES ASSUME NEW p \in Processors, isr[p] # None
               PROVE  \E u \in Tasks : owned'[u] = isr[p] /\ Proc[u] = p
    BY <1>b, <1>e, <1>11 DEF TtyInv, IsrInv
  <2>1. PICK u \in Tasks : owned[u] = isr[p] /\ Proc[u] = p
    BY DEF TtyInv, IsrInv
  <2> QED
    BY <2>1, <1>b
<1>14. FullInv'
  <2>1. \A u \in Tasks : Busy(u) => Busy(u)'
    <3> SUFFICES ASSUME NEW u \in Tasks, pc[u] = "read", owned[u] = chan[u]
                 PROVE  pc'[u] = "read" /\ owned'[u] = chan'[u]
      BY <1>e DEF Busy
    <3>1. owned[u] # None
      BY <1>1, ConstantFacts DEF Types
    <3> QED
      BY <3>1, <1>b
  <2> QED
    BY <2>1, <1>b, <1>11 DEF TtyInv, FullInv, input
<1> QED
  BY <1>11, <1>12, <1>13, <1>14

LEMMA KillPreserves ==
  ASSUME TerminalsAssumption, ~Overlap, OneProcessor, TtyInv, NEW t \in Tasks,
         Runs(t), Kill(t)
  PROVE  TtyInv'
<1>1. Types /\ Types'
  BY ConstantFacts DEF Types, TtyInv, Goto, routing, input, Kill
<1>2. Places /\ Places'
  BY DEF TtyInv, Places, Goto, Kill
<1>b. /\ \A u \in Tasks : u # t => pc'[u] = pc[u] /\ chan'[u] = chan[u]
      /\ \/ owned[t] = None /\ pc'[t] = "dead"
         \/ owned[t] # None /\ owned[t] \in Channels /\ pc'[t] = "release" /\ chan'[t] = owned[t]
      /\ UNCHANGED <<ttyChannel, owned, routing, input, isr>>
  BY <1>1, <1>2 DEF Types, Places, Kill, Goto
<1>c. /\ ~Releasing(t) /\ ~Allocating(t) /\ (TypeAhead \/ owned[t] \notin unread)
      /\ \A u \in Tasks : App[u] = App[t] => ~Allocating(u)
      /\ isr[Proc[t]] = None
      /\ \A u \in Tasks : Proc[u] = Proc[t] => ~Releasing(u)
  BY DEF Kill, Runs, Members
<1>d. \A u \in Tasks : u # t => /\ Releasing(u)' <=> Releasing(u)
                                /\ HasChannel(u)' <=> HasChannel(u)
                                /\ (Allocating(u)' <=> Allocating(u)) /\ (Busy(u)' <=> Busy(u))
  BY <1>b DEF Releasing, HasChannel, Allocating, Busy
<1>e. ~Allocating(t)' /\ ~HasChannel(t)' /\ ~HasChannel(t)
  BY <1>b, <1>c DEF Allocating, HasChannel
<1>f. Releasing(t)' => owned[t] # None /\ chan'[t] = owned[t] /\ pc'[t] = "release"
  BY <1>b DEF Releasing
<1>g. \A u \in Tasks : Releasing(u) => chan[u] # owned[t]
  <2> SUFFICES ASSUME NEW u \in Tasks, Releasing(u), chan[u] = owned[t]
               PROVE  FALSE
    OBVIOUS
  <2>1. CASE pc[u] = "free"
    BY <2>1 DEF TtyInv, ReleaseInv
  <2>2. CASE pc[u] # "free"
    <3>1. owned[u] = chan[u] /\ chan[u] \in Channels
      BY <2>2, <1>1 DEF TtyInv, ReleaseInv, Releasing, Types
    <3>2. owned[t] # None /\ owned[u] = owned[t]
      BY <3>1, ConstantFacts
    <3> QED
      BY <3>2, <1>c DEF TtyInv, OwnInv
  <2> QED
    BY <2>1, <2>2
<1>3. OneAtATime'
  BY <1>c, <1>d, <1>e DEF TtyInv, OneAtATime
<1>4. AllocInv'
  <2>1. \A u \in Tasks : pc'[u] = "set" => pc[u] = "set" /\ u # t
    BY <1>b
  <2> QED
    BY <2>1, <1>b, <1>d, <1>e, <1>f DEF TtyInv, AllocInv
<1>5. OwnInv'
  BY <1>b DEF TtyInv, OwnInv
<1>6. ReleaseInv'
  <2>1. \A u \in Tasks : Releasing(u)' => chan'[u] \in ttyChannel
    BY <1>b, <1>d, <1>f DEF TtyInv, ReleaseInv, OwnInv
  <2>2. \A u \in Tasks : pc'[u] \in {"release", "forget"} => owned[u] = chan'[u]
    BY <1>b DEF TtyInv, ReleaseInv
  <2>3. \A u, v \in Tasks : pc'[u] = "free" => owned[v] # chan'[u]
    BY <1>b DEF TtyInv, ReleaseInv
  <2>4. \A u, v \in Tasks : Releasing(u)' /\ Releasing(v)' /\ chan'[v] = chan'[u] => u = v
    BY <1>b, <1>d, <1>f, <1>g DEF TtyInv, ReleaseInv
  <2> QED
    BY <2>1, <2>2, <2>3, <2>4, <1>b DEF ReleaseInv
<1>7. /\ BoxInv'
      /\ \A c, p : (RoutedTo(c, p)' <=> RoutedTo(c, p))
      /\ \A c : (Entered(c)' <=> Entered(c))
  BY SameRoutes DEF TtyInv, routing, Kill
<1>8. EntryInv'
  <2>1. \A u \in Tasks : pc[u] = "vector" => pc'[u] = "vector" /\ chan'[u] = chan[u]
    BY <1>b, <1>c DEF Allocating
  <2> QED
    BY <2>1, <1>7 DEF TtyInv, EntryInv
<1>9. RouteInv'
  <2>1. \A u \in Tasks : (HasBox(u)' <=> HasBox(u)) /\ (IsMasked(u)' <=> IsMasked(u))
    BY <1>b, <1>c DEF HasBox, IsMasked, Allocating, Releasing
  <2>2. \A u \in Tasks : pc'[u] = "box" \/ HasBox(u)' \/ IsMasked(u)' => u # t
    BY <1>b DEF HasBox, IsMasked
  <2> QED
    BY <2>1, <2>2, <1>b, <1>7 DEF TtyInv, RouteInv, routing
<1>10. OwnRouteInv'
  <2>1. \A u \in Tasks : pc[u] = "forget" => pc'[u] = "forget" /\ chan'[u] = chan[u]
    BY <1>b, <1>c DEF Releasing
  <2> QED
    BY <2>1, <1>b, <1>7 DEF TtyInv, OwnRouteInv
<1> SUFFICES ASSUME ~TypeAhead
             PROVE  KeysInv' /\ UnreadInv' /\ IsrInv' /\ FullInv'
  BY <1>1, <1>2, <1>3, <1>4, <1>5, <1>6, <1>7, <1>8, <1>9, <1>10 DEF TtyInv
<1>11. KeysInv' /\ \A c : (Fresh(c)' <=> Fresh(c))
  BY SameKeys DEF TtyInv, input, Kill
<1>12. UnreadInv'
  BY <1>b, <1>c, <1>d, <1>f DEF TtyInv, UnreadInv, input
<1>13. IsrInv'
  BY <1>b, <1>c, <1>d, <1>11 DEF TtyInv, IsrInv
<1>14. FullInv'
  <2>1. Busy(t) /\ chan[t] # None => Busy(t)' /\ chan'[t] = chan[t]
    BY <1>b, <1>c DEF Busy, Releasing
  <2>2. chan[t] # None
    BY <1>1, ConstantFacts DEF Types
  <2> QED
    BY <2>1, <2>2, <1>b, <1>d, <1>11 DEF TtyInv, FullInv, input
<1> QED
  BY <1>11, <1>12, <1>13, <1>14

LEMMA ReleaseIrqPreserves ==
  ASSUME TerminalsAssumption, ~Overlap, OneProcessor, TtyInv, NEW t \in Tasks,
         Runs(t), ReleaseIrq(t)
  PROVE  TtyInv'
<1>2. Places /\ Places'
  BY DEF TtyInv, Places, Goto, ReleaseIrq
<1>a. /\ Types /\ chan[t] \in Channels /\ Proc[t] \in Processors /\ chan[t] # None
      /\ pc[t] = "release" /\ pc'[t] = "forget" /\ \A u \in Tasks : u # t => pc'[u] = pc[u]
      /\ UNCHANGED <<ttyChannel, owned, wtiVector, input, chan, isr>>
      /\ owned[t] = chan[t] /\ Releasing(t) /\ chan[t] \in ttyChannel
  BY <1>2, ConstantFacts DEF TtyInv, Types, Places, Goto, ReleaseIrq, ReleaseInv, Releasing
<1>b. PICK b \in Boxes : route[chan[t]] = <<Proc[t], b>>
  <2>1. ASSUME NEW r \in Tasks, pc[r] = "forget", chan[r] = owned[t]
        PROVE  FALSE
    BY <2>1, <1>a DEF TtyInv, ReleaseInv, Releasing
  <2> QED
    BY <2>1, <1>a DEF TtyInv, OwnRouteInv, RoutedTo
<1>c. /\ wtiVector[Proc[t]][b] = chan[t]
      /\ \A a \in Boxes : a < b => wtiVector[Proc[t]][a] # chan[t]
  <2>1. \A u \in Tasks : pc[u] = "vector" => chan[u] # chan[t]
    BY <1>a DEF TtyInv, AllocInv, HasChannel
  <2>2. Entered(chan[t])
    BY <2>1, <1>a DEF TtyInv, EntryInv
  <2> QED
    BY <2>2, <1>a, <1>b DEF Entered, TtyInv, BoxInv, FirstInv
<1>d. /\ route' = [route EXCEPT ![chan[t]] = Masked]
      /\ wtiAlloc' = [wtiAlloc EXCEPT ![Proc[t]] = @ \ {b}]
  <2> DEFINE found == {a \in Boxes : wtiVector[Proc[t]][a] = chan[t]}
             first == CHOOSE a \in found : \A x \in found : a <= x
  <2>1. b \in found /\ \A x \in found : b <= x
    BY <1>c, ConstantFacts
  <2>2. first \in found /\ \A x \in found : first <= x
    BY <2>1
  <2>3. first = b
    BY <2>1, <2>2, ConstantFacts
  <2>4. found # {}
    BY <2>1
  <2>5. /\ route' = [route EXCEPT ![chan[t]] = Masked]
        /\ wtiAlloc' = [wtiAlloc EXCEPT ![Proc[t]] = @ \ {first}]
    BY <2>4 DEF ReleaseIrq
  <2> QED
    BY <2>3, <2>5
<1>e. /\ route'[chan[t]] = Masked /\ \A c \in Channels : c # chan[t] => route'[c] = route[c]
      /\ wtiAlloc'[Proc[t]] = wtiAlloc[Proc[t]] \ {b}
      /\ \A p \in Processors : p # Proc[t] => wtiAlloc'[p] = wtiAlloc[p]
      /\ \A p \in Processors : wtiAlloc'[p] \subseteq wtiAlloc[p]
  BY <1>a, <1>d DEF Types
<1>1. Types /\ Types'
  BY <1>a, <1>d DEF Types, input
<1>f. \A c \in Channels, p \in Processors, q \in Boxes : route'[c] = <<p, q>> =>
        c # chan[t] /\ route[c] = <<p, q>> /\ ~(p = Proc[t] /\ q = b)
  <2> SUFFICES ASSUME NEW c \in Channels, NEW p \in Processors, NEW q \in Boxes,
                      route'[c] = <<p, q>>
               PROVE  c # chan[t] /\ route[c] = <<p, q>> /\ ~(p = Proc[t] /\ q = b)
    OBVIOUS
  <2>1. c # chan[t] /\ route[c] = <<p, q>>
    BY <1>e, BoxFacts
  <2>2. route[c] # Masked
    BY <2>1, BoxFacts
  <2>3. route[c] # route[chan[t]]
    BY <2>1, <2>2, <1>a DEF TtyInv, BoxInv, SingleInv
  <2> QED
    BY <2>1, <2>3, <1>b
<1>g. /\ \A u \in Tasks : (Releasing(u)' <=> Releasing(u)) /\ (HasChannel(u)' <=> HasChannel(u))
      /\ \A u \in Tasks : (Allocating(u)' <=> Allocating(u)) /\ (Busy(u)' <=> Busy(u))
  BY <1>a DEF Releasing, HasChannel, Allocating, Busy
<1>3. OneAtATime'
  BY <1>g DEF TtyInv, OneAtATime
<1>4. AllocInv'
  BY <1>a, <1>g DEF TtyInv, AllocInv
<1>5. OwnInv'
  BY <1>a DEF TtyInv, OwnInv
<1>6. ReleaseInv'
  BY <1>a, <1>g DEF TtyInv, ReleaseInv
<1>7. BoxInv'
  <2>1. FirstInv'
    <3> SUFFICES ASSUME NEW c \in Channels, NEW p \in Processors, NEW q \in Boxes,
                        route'[c] = <<p, q>>
                 PROVE  q \in wtiAlloc'[p] /\ \A a \in Boxes : a < q => wtiVector[p][a] # c
      BY <1>a DEF FirstInv
    <3>1. route[c] = <<p, q>> /\ ~(p = Proc[t] /\ q = b)
      BY <1>f
    <3> QED
      BY <3>1, <1>e DEF TtyInv, BoxInv, FirstInv
  <2>2. SingleInv'
    BY <1>e DEF TtyInv, BoxInv, SingleInv
  <2>3. UsedInv'
    <3> SUFFICES ASSUME NEW p \in Processors, NEW q \in wtiAlloc'[p]
                 PROVE  \E c \in Channels : route'[c] = <<p, q>>
      BY DEF UsedInv
    <3>1. q \in wtiAlloc[p] /\ ~(p = Proc[t] /\ q = b)
      BY <1>e
    <3>2. PICK c \in Channels : route[c] = <<p, q>>
      BY <3>1 DEF TtyInv, BoxInv, UsedInv
    <3>3. c # chan[t]
      BY <3>1, <3>2, <1>b, BoxFacts
    <3> QED
      BY <3>2, <3>3, <1>e
  <2> QED
    BY <2>1, <2>2, <2>3 DEF BoxInv
<1>8. EntryInv'
  <2>1. \A c \in Channels : Entered(c) => Entered(c)'
    BY <1>a, <1>f DEF Entered
  <2>2. \A u \in Tasks : pc[u] = "vector" => pc'[u] = "vector" /\ chan'[u] = chan[u]
    BY <1>a
  <2> QED
    BY <2>1, <2>2 DEF TtyInv, EntryInv
<1>h. \A c \in Channels : \A p : c # chan[t] => (RoutedTo(c, p)' <=> RoutedTo(c, p))
  BY <1>e DEF RoutedTo
<1>9. RouteInv'
  <2>1. \A c \in Channels : route'[c] # Masked => c \in ttyChannel
    BY <1>e DEF TtyInv, RouteInv
  <2>2. \A u \in Tasks : HasChannel(u) => chan[u] # chan[t] /\ chan[u] \in Channels
    BY <1>a DEF TtyInv, AllocInv, Types
  <2>3. \A u \in Tasks : pc'[u] = "box" => route'[chan[u]] = Masked
    BY <2>2, <1>a, <1>e DEF TtyInv, RouteInv, HasChannel
  <2>4. \A u \in Tasks : HasBox(u)' => RoutedTo(chan[u], Proc[u])'
    <3> SUFFICES ASSUME NEW u \in Tasks, HasBox(u)'
                 PROVE  RoutedTo(chan[u], Proc[u])'
      BY <1>a
    <3>1. HasBox(u) /\ HasChannel(u)
      BY <1>a DEF HasBox, HasChannel
    <3>2. RoutedTo(chan[u], Proc[u])
      BY <3>1 DEF TtyInv, RouteInv
    <3>3. chan[u] # chan[t] /\ chan[u] \in Channels /\ chan'[u] = chan[u]
      BY <3>1, <2>2, <1>a
    <3>4. route'[chan[u]] = route[chan[u]]
      BY <3>3, <1>e
    <3> QED
      BY <3>2, <3>3, <3>4 DEF RoutedTo
  <2>5. \A u \in Tasks : IsMasked(u)' => route'[chan[u]] = Masked
    <3> SUFFICES ASSUME NEW u \in Tasks, IsMasked(u)', u # t, chan[u] # chan[t]
                 PROVE  route'[chan[u]] = Masked
      BY <1>e
    <3>1. IsMasked(u) /\ chan[u] \in Channels
      BY <1>a DEF IsMasked, Types
    <3> QED
      BY <3>1, <1>e DEF TtyInv, RouteInv
  <2> QED
    BY <2>1, <2>3, <2>4, <2>5, <1>a DEF RouteInv, RoutedTo
<1>10. OwnRouteInv'
  <2> SUFFICES ASSUME NEW u \in Tasks, owned[u] # None, owned[u] # chan[t]
               PROVE  \/ RoutedTo(owned[u], Proc[u])'
                      \/ \E r \in Tasks : pc'[r] = "forget" /\ chan[r] = owned[u]
    BY <1>a DEF OwnRouteInv, RoutedTo
  <2>1. owned[u] \in Channels
    BY <1>a DEF Types
  <2>2. CASE RoutedTo(owned[u], Proc[u])
    BY <2>1, <2>2, <1>e, <1>a DEF RoutedTo
  <2>3. CASE \E r \in Tasks : pc[r] = "forget" /\ chan[r] = owned[u]
    BY <2>3, <1>a
  <2> QED
    BY <2>2, <2>3 DEF TtyInv, OwnRouteInv
<1> SUFFICES ASSUME ~TypeAhead
             PROVE  KeysInv' /\ UnreadInv' /\ IsrInv' /\ FullInv'
  BY <1>1, <1>2, <1>3, <1>4, <1>5, <1>6, <1>7, <1>8, <1>9, <1>10 DEF TtyInv
<1>11. KeysInv' /\ \A c : (Fresh(c)' <=> Fresh(c))
  BY SameKeys DEF TtyInv, input, ReleaseIrq
<1>12. UnreadInv'
  BY <1>a, <1>g DEF TtyInv, UnreadInv, input
<1>13. IsrInv'
  BY <1>a, <1>g, <1>11 DEF TtyInv, IsrInv
<1>14. FullInv'
  BY <1>a, <1>g, <1>11 DEF TtyInv, FullInv, input
<1> QED
  BY <1>11, <1>12, <1>13, <1>14

LEMMA ForgetPreserves ==
  ASSUME TerminalsAssumption, ~Overlap, OneProcessor, TtyInv, NEW t \in Tasks,
         Runs(t), Forget(t)
  PROVE  TtyInv'
<1>1. Types /\ Types'
  BY ConstantFacts DEF Types, TtyInv, Goto, routing, input, Forget
<1>2. Places /\ Places'
  BY DEF TtyInv, Places, Goto, Forget
<1>b. /\ pc[t] = "forget" /\ pc'[t] = "free" /\ \A u \in Tasks : u # t => pc'[u] = pc[u]
      /\ chan[t] \in Channels /\ chan[t] # None /\ owned[t] = chan[t] /\ Releasing(t)
      /\ UNCHANGED <<ttyChannel, routing, input, chan, isr>>
  BY <1>1, <1>2, ConstantFacts DEF Types, Places, Forget, Goto, TtyInv, ReleaseInv, Releasing
<1>c. \A u \in Tasks : owned'[u] = IF owned[u] = chan[t] THEN None ELSE owned[u]
  BY <1>b DEF Forget, Members, TtyInv, OwnInv
<1>d. /\ \A u \in Tasks : (Releasing(u)' <=> Releasing(u)) /\ (HasChannel(u)' <=> HasChannel(u))
      /\ \A u \in Tasks : (Allocating(u)' <=> Allocating(u))
  BY <1>b DEF Releasing, HasChannel, Allocating
<1>e. \A u \in Tasks : u # t /\ Releasing(u) => chan[u] # chan[t]
  BY <1>b DEF TtyInv, ReleaseInv
<1>3. OneAtATime'
  BY <1>d DEF TtyInv, OneAtATime
<1>4. AllocInv'
  <2>1. \A u \in Tasks : Allocating(u)' => owned'[u] = None
    BY <1>c, <1>d DEF TtyInv, AllocInv
  <2>2. \A u \in Tasks : pc'[u] = "set" => chan'[u] \notin ttyChannel'
    BY <1>b DEF TtyInv, AllocInv
  <2>3. \A u \in Tasks : chan[u] # None
    BY <1>1, ConstantFacts DEF Types
  <2>4. \A u, v \in Tasks : HasChannel(u)' => owned'[v] # chan'[u]
    BY <2>3, <1>b, <1>c, <1>d DEF TtyInv, AllocInv
  <2> QED
    BY <2>1, <2>2, <2>4, <1>b, <1>d DEF TtyInv, AllocInv
<1>5. OwnInv'
  BY <1>b, <1>c DEF TtyInv, OwnInv
<1>6. ReleaseInv'
  <2>1. \A u \in Tasks : pc'[u] \in {"release", "forget"} => owned'[u] = chan'[u]
    <3> SUFFICES ASSUME NEW u \in Tasks, pc'[u] \in {"release", "forget"}
                 PROVE  owned'[u] = chan[u]
      BY <1>b
    <3>1. u # t /\ pc[u] = pc'[u] /\ Releasing(u)
      BY <1>b DEF Releasing
    <3>2. owned[u] = chan[u] /\ chan[u] # chan[t]
      BY <3>1, <1>e DEF TtyInv, ReleaseInv
    <3> QED
      BY <3>2, <1>c
  <2>2. \A u \in Tasks : chan[u] # None
    BY <1>1, ConstantFacts DEF Types
  <2>3. \A u, v \in Tasks : pc'[u] = "free" => owned'[v] # chan'[u]
    BY <2>2, <1>b, <1>c DEF TtyInv, ReleaseInv
  <2> QED
    BY <2>1, <2>3, <1>b, <1>d DEF TtyInv, ReleaseInv
<1>7. /\ BoxInv'
      /\ \A c, p : (RoutedTo(c, p)' <=> RoutedTo(c, p))
      /\ \A c : (Entered(c)' <=> Entered(c))
  BY SameRoutes DEF TtyInv, routing, Forget
<1>8. EntryInv'
  BY <1>b, <1>7 DEF TtyInv, EntryInv
<1>9. RouteInv'
  <2>1. \A u \in Tasks : (HasBox(u)' <=> HasBox(u)) /\ (IsMasked(u)' <=> IsMasked(u))
    BY <1>b DEF HasBox, IsMasked
  <2> QED
    BY <2>1, <1>b, <1>7 DEF TtyInv, RouteInv, routing
<1>10. OwnRouteInv'
  <2>1. \A r \in Tasks : pc[r] = "forget" /\ r # t => pc'[r] = "forget"
    BY <1>b
  <2>2. \A u \in Tasks : owned'[u] # None => owned'[u] = owned[u] /\ owned[u] # chan[t]
    BY <1>c
  <2> QED
    BY <2>1, <2>2, <1>b, <1>7 DEF TtyInv, OwnRouteInv
<1> SUFFICES ASSUME ~TypeAhead
             PROVE  KeysInv' /\ UnreadInv' /\ IsrInv' /\ FullInv'
  BY <1>1, <1>2, <1>3, <1>4, <1>5, <1>6, <1>7, <1>8, <1>9, <1>10 DEF TtyInv
<1>11. KeysInv' /\ \A c : (Fresh(c)' <=> Fresh(c))
  BY SameKeys DEF TtyInv, input, Forget
<1>12. UnreadInv'
  <2>1. chan[t] \notin unread
    BY <1>b DEF TtyInv, UnreadInv
  <2> QED
    BY <2>1, <1>b, <1>c, <1>d DEF TtyInv, UnreadInv, input
<1>13. IsrInv'
  <2> SUFFICES ASSUME NEW p \in Processors, isr[p] # None
               PROVE  \E u \in Tasks : owned'[u] = isr[p] /\ Proc[u] = p
    BY <1>b, <1>d, <1>11 DEF TtyInv, IsrInv
  <2>1. PICK u \in Tasks : owned[u] = isr[p] /\ Proc[u] = p
    BY DEF TtyInv, IsrInv
  <2>2. p # Proc[t]
    BY DEF Runs, Forget
  <2>3. owned[u] # chan[t]
    BY <2>1, <2>2, <1>b DEF TtyInv, OwnInv
  <2> QED
    BY <2>1, <2>3, <1>c
<1>14. FullInv'
  <2>1. \A u \in Tasks : Busy(u) /\ chan[u] # chan[t] => Busy(u)'
    BY <1>b, <1>c, <1>d DEF Busy
  <2>2. Busy(t) /\ Busy(t)'
    BY <1>b, <1>d DEF Busy
  <2> QED
    BY <2>1, <2>2, <1>b, <1>11 DEF TtyInv, FullInv, input
<1> QED
  BY <1>11, <1>12, <1>13, <1>14

LEMMA FreeChannelPreserves ==
  ASSUME TerminalsAssumption, ~Overlap, OneProcessor, TtyInv, NEW t \in Tasks,
         Runs(t), FreeChannel(t)
  PROVE  TtyInv'
<1> USE ConstantFacts DEF Goto, routing, input, FreeChannel
<1>1. Types /\ Types'
  BY DEF Types, TtyInv
<1>2. Places /\ Places'
  BY DEF TtyInv, Places
<1>3. OneAtATime'
  BY <1>2 DEF TtyInv, OneAtATime, Places, Allocating, Releasing, Runs
<1>4. AllocInv'
  BY <1>1, <1>2 DEF Types, TtyInv, AllocInv, OneAtATime, Places, Allocating, Releasing, HasChannel
<1>5. OwnInv'
  BY <1>1, <1>2 DEF Types, TtyInv, OwnInv, ReleaseInv, Places
<1>6. ReleaseInv'
  BY <1>1, <1>2 DEF Types, TtyInv, ReleaseInv, Places, Releasing
<1>7. /\ BoxInv'
      /\ \A c, p : (RoutedTo(c, p)' <=> RoutedTo(c, p))
      /\ \A c : (Entered(c)' <=> Entered(c))
  BY SameRoutes DEF TtyInv
<1>8. EntryInv'
  BY <1>1, <1>2, <1>7 DEF Types, TtyInv, EntryInv, Places
<1>9. RouteInv'
  BY <1>1, <1>2, <1>7 DEF Types, TtyInv, RouteInv, HasBox, IsMasked, Places
<1>10. OwnRouteInv'
  BY <1>1, <1>2, <1>7 DEF Types, TtyInv, OwnRouteInv, Places
<1> SUFFICES ASSUME ~TypeAhead
             PROVE  KeysInv' /\ UnreadInv' /\ IsrInv' /\ FullInv'
  BY <1>1, <1>2, <1>3, <1>4, <1>5, <1>6, <1>7, <1>8, <1>9, <1>10 DEF TtyInv
<1>11. KeysInv' /\ \A c : (Fresh(c)' <=> Fresh(c))
  BY SameKeys DEF TtyInv
<1>12. UnreadInv'
  BY <1>1, <1>2 DEF Types, TtyInv, UnreadInv, Places, Releasing
<1>13. IsrInv'
  BY <1>1, <1>2, <1>11 DEF Types, TtyInv, IsrInv, Places, Releasing
<1>14. FullInv'
  BY <1>1, <1>2, <1>11 DEF Types, TtyInv, FullInv, Busy, Places, Releasing
<1> QED
  BY <1>11, <1>12, <1>13, <1>14

LEMMA ExecPreserves ==
  ASSUME TerminalsAssumption, ~Overlap, OneProcessor, TtyInv, NEW t \in Tasks,
         Runs(t), Exec(t)
  PROVE  TtyInv'
<1> USE ConstantFacts DEF Goto, routing, input, Exec
<1>1. Types /\ Types'
  BY DEF Types, TtyInv
<1>2. Places /\ Places'
  BY DEF TtyInv, Places
<1>3. OneAtATime'
  BY <1>2 DEF TtyInv, OneAtATime, Places, Allocating, Releasing, Runs
<1>4. AllocInv'
  BY <1>1, <1>2 DEF Types, TtyInv, AllocInv, OneAtATime, Places, Allocating, Releasing, HasChannel
<1>5. OwnInv'
  BY <1>1, <1>2 DEF Types, TtyInv, OwnInv, Places, AllocInv
<1>6. ReleaseInv'
  BY <1>1, <1>2 DEF Types, TtyInv, ReleaseInv, Places, Releasing
<1>7. /\ BoxInv'
      /\ \A c, p : (RoutedTo(c, p)' <=> RoutedTo(c, p))
      /\ \A c : (Entered(c)' <=> Entered(c))
  BY SameRoutes DEF TtyInv
<1>8. EntryInv'
  BY <1>1, <1>2, <1>7 DEF Types, TtyInv, EntryInv, Places
<1>9. RouteInv'
  BY <1>1, <1>2, <1>7 DEF Types, TtyInv, RouteInv, HasBox, IsMasked, Places
<1>10. OwnRouteInv'
  BY <1>1, <1>2, <1>7 DEF Types, TtyInv, OwnRouteInv, Places
<1> SUFFICES ASSUME ~TypeAhead
             PROVE  KeysInv' /\ UnreadInv' /\ IsrInv' /\ FullInv'
  BY <1>1, <1>2, <1>3, <1>4, <1>5, <1>6, <1>7, <1>8, <1>9, <1>10 DEF TtyInv
<1>11. KeysInv' /\ \A c : (Fresh(c)' <=> Fresh(c))
  BY SameKeys DEF TtyInv
<1>12. UnreadInv'
  BY <1>1, <1>2 DEF Types, TtyInv, UnreadInv, Places, Releasing
<1>13. IsrInv'
  BY <1>1, <1>2, <1>11 DEF Types, TtyInv, IsrInv, Places, Releasing
<1>13a. \A u \in Tasks : Busy(u) => Busy(u)'
  BY <1>2 DEF Busy, Places, Releasing
<1>14. FullInv'
  BY <1>11, <1>13a DEF TtyInv, FullInv
<1> QED
  BY <1>11, <1>12, <1>13, <1>14

-----------------------------------------------------------------------------

LEMMA ReadPreserves ==
  ASSUME TerminalsAssumption, ~Overlap, OneProcessor, TtyInv, NEW t \in Tasks,
         Runs(t), Read(t)
  PROVE  TtyInv'
<1>1. Types /\ Types'
  <2>1. Types
    BY DEF TtyInv
  <2>2. owned[t] \in Channels
    BY <2>1 DEF Read, Types
  <2>3. Append(got[owned[t]], rxBuf[owned[t]]) \in Seq(0 .. Keys)
    BY <2>1, <2>2, SequenceFacts DEF Types
  <2>4. got' \in [Channels -> Seq(0 .. Keys)] /\ chan' \in [Tasks -> Channels]
    BY <2>1, <2>2, <2>3 DEF Types, Read
  <2> QED
    BY <2>1, <2>4 DEF Types, Read, routing
<1>2. Places /\ Places'
  BY DEF TtyInv, Places, Goto, Read
<1>b. /\ pc[t] = "run" /\ pc'[t] = "read" /\ \A u \in Tasks : u # t => pc'[u] = pc[u]
      /\ owned[t] \in rxFull /\ owned[t] \in Channels /\ owned[t] # None
      /\ chan'[t] = owned[t] /\ \A u \in Tasks : u # t => chan'[u] = chan[u]
      /\ got'[owned[t]] = Append(got[owned[t]], rxBuf[owned[t]])
      /\ \A c \in Channels : c # owned[t] => got'[c] = got[c]
      /\ UNCHANGED <<ttyChannel, owned, routing, rxBuf, rxFull, typed, unread, isr>>
  BY <1>1, <1>2, ConstantFacts DEF Types, Places, Read, Goto
<1>c. /\ \A u \in Tasks : (Releasing(u)' <=> Releasing(u)) /\ (HasChannel(u)' <=> HasChannel(u))
      /\ \A u \in Tasks : (Allocating(u)' <=> Allocating(u))
      /\ ~Releasing(t) /\ ~HasChannel(t) /\ ~Allocating(t) /\ ~Busy(t)
  BY <1>b DEF Releasing, HasChannel, Allocating, Busy
<1>3. OneAtATime'
  BY <1>c DEF TtyInv, OneAtATime
<1>4. AllocInv'
  BY <1>b, <1>c DEF TtyInv, AllocInv
<1>5. OwnInv'
  BY <1>b DEF TtyInv, OwnInv
<1>6. ReleaseInv'
  BY <1>b, <1>c DEF TtyInv, ReleaseInv
<1>7. /\ BoxInv'
      /\ \A c, p : (RoutedTo(c, p)' <=> RoutedTo(c, p))
      /\ \A c : (Entered(c)' <=> Entered(c))
  BY SameRoutes DEF TtyInv, routing, Read
<1>8. EntryInv'
  BY <1>b, <1>7 DEF TtyInv, EntryInv
<1>9. RouteInv'
  BY <1>b, <1>7 DEF TtyInv, RouteInv, routing, HasBox, IsMasked
<1>10. OwnRouteInv'
  BY <1>b, <1>7 DEF TtyInv, OwnRouteInv
<1> SUFFICES ASSUME ~TypeAhead
             PROVE  KeysInv' /\ UnreadInv' /\ IsrInv' /\ FullInv'
  BY <1>1, <1>2, <1>3, <1>4, <1>5, <1>6, <1>7, <1>8, <1>9, <1>10 DEF TtyInv
<1>d. Fresh(owned[t])
  <2> SUFFICES ASSUME NEW u \in Tasks, chan[u] = owned[t], Busy(u)
               PROVE  FALSE
    BY <1>b DEF TtyInv, FullInv, OwnInv
  <2>1. CASE pc[u] = "read"
    <3>1. owned[u] = owned[t]
      BY <2>1 DEF Busy, Releasing
    <3>2. App[u] = App[t]
      BY <3>1, <1>b DEF TtyInv, OwnInv
    <3> QED
      BY <2>1, <3>2 DEF Read, Members
  <2>2. CASE Releasing(u)
    <3>1. pc[u] # "free"
      BY DEF TtyInv, ReleaseInv
    <3>2. owned[u] = owned[t]
      BY <2>2, <3>1 DEF TtyInv, ReleaseInv, Releasing
    <3>3. Proc[u] = Proc[t]
      BY <3>2, <1>b DEF TtyInv, OwnInv
    <3> QED
      BY <2>2, <3>3, <1>c DEF Runs
  <2> QED
    BY <2>1, <2>2 DEF Busy
<1>e. \A c \in Channels : c # owned[t] => (Fresh(c)' <=> Fresh(c))
  BY <1>b DEF Fresh
<1>11. KeysInv'
  <2> DEFINE c == owned[t]
  <2>0. /\ got[c] \in Seq(0 .. Keys) /\ rxBuf[c] \in 0 .. Keys /\ Keys \in Nat
        /\ \A i \in DOMAIN got[c] : got[c][i] \in 0 .. Keys
    <3>1. got[c] \in Seq(0 .. Keys) /\ rxBuf[c] \in 0 .. Keys /\ Keys \in Nat
      BY <1>b, <1>1, ConstantFacts DEF Types
    <3> QED
      BY <3>1, SequenceFacts
  <2>1. /\ DOMAIN got'[c] = 1 .. Len(got[c]) + 1 /\ DOMAIN got[c] = 1 .. Len(got[c])
        /\ Len(got[c]) \in Nat
        /\ got'[c][Len(got[c]) + 1] = rxBuf[c]
        /\ \A i \in DOMAIN got[c] : got'[c][i] = got[c][i]
    BY <2>0, <1>b
  <2>2. \A i \in DOMAIN got[c] : got[c][i] < rxBuf[c]
    BY <1>d DEF Fresh
  <2>3. \A i \in DOMAIN got'[c] : i \in DOMAIN got[c] \/ i = Len(got[c]) + 1
    BY <2>1
  <2>4. \A i \in DOMAIN got'[c] : got'[c][i] <= rxBuf[c]
    BY <2>0, <2>1, <2>2, <2>3
  <2>5. ASSUME NEW i \in DOMAIN got'[c], NEW j \in DOMAIN got'[c], i < j
        PROVE  got'[c][i] < got'[c][j]
    <3>1. i \in DOMAIN got[c]
      BY <2>1, <2>5
    <3>2. CASE j \in DOMAIN got[c]
      <4>1. got[c][i] < got[c][j]
        BY <3>1, <3>2, <2>5, <1>b DEF TtyInv, KeysInv, KeysInOrder
      <4> QED
        BY <4>1, <3>1, <3>2, <2>1
    <3>3. CASE j = Len(got[c]) + 1
      BY <3>1, <3>3, <2>1, <2>2
    <3> QED
      BY <3>2, <3>3, <2>3
  <2>6. KeysInOrder'
    <3> SUFFICES ASSUME NEW d \in Channels, NEW i \in DOMAIN got'[d],
                        NEW j \in DOMAIN got'[d], i < j
                 PROVE  got'[d][i] < got'[d][j]
      BY DEF KeysInOrder
    <3>1. CASE d = c
      BY <3>1, <2>5
    <3>2. CASE d # c
      BY <3>2, <1>b DEF TtyInv, KeysInv, KeysInOrder
    <3> QED
      BY <3>1, <3>2
  <2>7. ASSUME NEW d \in Channels, NEW i \in DOMAIN got'[d]
        PROVE  got'[d][i] <= rxBuf[d]
    <3>1. CASE d = c
      BY <3>1, <2>4
    <3>2. CASE d # c
      BY <3>2, <1>b DEF TtyInv, KeysInv
    <3> QED
      BY <3>1, <3>2
  <2> QED
    BY <2>6, <2>7, <1>b DEF TtyInv, KeysInv
<1>12. UnreadInv'
  BY <1>b, <1>c DEF TtyInv, UnreadInv
<1>13. IsrInv'
  <2>1. ASSUME NEW p \in Processors, isr[p] # None
        PROVE  isr[p] \in Channels /\ isr[p] # owned[t]
    <3>1. PICK u \in Tasks : owned[u] = isr[p] /\ Proc[u] = p
      BY <2>1 DEF TtyInv, IsrInv
    <3>2. p # Proc[t]
      BY <2>1 DEF Runs
    <3> QED
      BY <2>1, <3>1, <3>2, <1>1, <1>b DEF TtyInv, OwnInv, Types
  <2> QED
    BY <2>1, <1>b, <1>c, <1>e DEF TtyInv, IsrInv
<1>14. FullInv'
  <2>1. Busy(t)' /\ \A u \in Tasks : u # t => (Busy(u)' <=> Busy(u))
    BY <1>b, <1>c DEF Busy
  <2>2. \A u \in Tasks : Busy(u) => u # t
    BY <1>c
  <2>3. ttyChannel \subseteq Channels
    BY <1>1 DEF Types
  <2> QED
    BY <2>1, <2>2, <2>3, <1>b, <1>e DEF TtyInv, FullInv
<1> QED
  BY <1>11, <1>12, <1>13, <1>14

LEMMA ReadDonePreserves ==
  ASSUME TerminalsAssumption, ~Overlap, OneProcessor, TtyInv, NEW t \in Tasks,
         Runs(t), ReadDone(t)
  PROVE  TtyInv'
<1>1. Types /\ Types'
  BY ConstantFacts DEF Types, TtyInv, Goto, routing, input, ReadDone
<1>2. Places /\ Places'
  BY DEF TtyInv, Places, Goto, ReadDone
<1>b. /\ pc[t] = "read" /\ pc'[t] = "run" /\ \A u \in Tasks : u # t => pc'[u] = pc[u]
      /\ rxFull' = rxFull \ {chan[t]}
      /\ UNCHANGED <<ttyChannel, owned, routing, rxBuf, typed, unread, got, chan, isr>>
  BY <1>1, <1>2 DEF Types, Places, ReadDone, Goto
<1>c. /\ \A u \in Tasks : (Releasing(u)' <=> Releasing(u)) /\ (HasChannel(u)' <=> HasChannel(u))
      /\ \A u \in Tasks : (Allocating(u)' <=> Allocating(u))
  BY <1>b DEF Releasing, HasChannel, Allocating
<1>3. OneAtATime'
  BY <1>c DEF TtyInv, OneAtATime
<1>4. AllocInv'
  BY <1>b, <1>c DEF TtyInv, AllocInv
<1>5. OwnInv'
  BY <1>b DEF TtyInv, OwnInv
<1>6. ReleaseInv'
  BY <1>b, <1>c DEF TtyInv, ReleaseInv
<1>7. /\ BoxInv'
      /\ \A c, p : (RoutedTo(c, p)' <=> RoutedTo(c, p))
      /\ \A c : (Entered(c)' <=> Entered(c))
  BY SameRoutes DEF TtyInv, routing, ReadDone
<1>8. EntryInv'
  BY <1>b, <1>7 DEF TtyInv, EntryInv
<1>9. RouteInv'
  BY <1>b, <1>7 DEF TtyInv, RouteInv, routing, HasBox, IsMasked
<1>10. OwnRouteInv'
  BY <1>b, <1>7 DEF TtyInv, OwnRouteInv
<1> SUFFICES ASSUME ~TypeAhead
             PROVE  KeysInv' /\ UnreadInv' /\ IsrInv' /\ FullInv'
  BY <1>1, <1>2, <1>3, <1>4, <1>5, <1>6, <1>7, <1>8, <1>9, <1>10 DEF TtyInv
<1>11. KeysInv' /\ \A c : (Fresh(c)' <=> Fresh(c))
  BY <1>b, SameKeys DEF TtyInv
<1>12. UnreadInv'
  BY <1>b, <1>c DEF TtyInv, UnreadInv
<1>13. IsrInv'
  BY <1>b, <1>c, <1>11 DEF TtyInv, IsrInv
<1>14. FullInv'
  <2>1. \A u \in Tasks : u # t => (Busy(u)' <=> Busy(u))
    BY <1>b, <1>c DEF Busy
  <2> QED
    BY <2>1, <1>b, <1>11 DEF TtyInv, FullInv
<1> QED
  BY <1>11, <1>12, <1>13, <1>14

LEMMA TypePreserves ==
  ASSUME TerminalsAssumption, ~Overlap, OneProcessor, TtyInv, NEW c \in Channels,
         Type(c)
  PROVE  TtyInv'
<1>1. Types /\ Types'
  <2>1. Types
    BY DEF TtyInv
  <2>2. typed[c] + 1 \in 0 .. Keys
    BY <2>1, ConstantFacts DEF Types, Type
  <2>3. typed' \in [Channels -> 0 .. Keys] /\ unread' \in SUBSET Channels
    BY <2>1, <2>2 DEF Types, Type
  <2> QED
    BY <2>1, <2>3 DEF Types, Type, routing
<1>b. /\ typed'[c] = typed[c] + 1 /\ \A d \in Channels : d # c => typed'[d] = typed[d]
      /\ unread' = unread \cup {c}
      /\ UNCHANGED <<ttyChannel, owned, routing, rxBuf, rxFull, got, pc, chan, isr>>
  BY <1>1 DEF Types, Type
<1>2. Places'
  BY <1>b DEF TtyInv, Places
<1>3. OneAtATime'
  BY <1>b DEF TtyInv, OneAtATime, Allocating, Releasing
<1>4. AllocInv'
  BY <1>b DEF TtyInv, AllocInv, Allocating, Releasing, HasChannel
<1>5. OwnInv'
  BY <1>b DEF TtyInv, OwnInv
<1>6. ReleaseInv'
  BY <1>b DEF TtyInv, ReleaseInv, Releasing
<1>7. /\ BoxInv'
      /\ \A d, q : (RoutedTo(d, q)' <=> RoutedTo(d, q))
      /\ \A d : (Entered(d)' <=> Entered(d))
  BY SameRoutes DEF TtyInv, routing, Type
<1>8. EntryInv'
  BY <1>b, <1>7 DEF TtyInv, EntryInv
<1>9. RouteInv'
  BY <1>b, <1>7 DEF TtyInv, RouteInv, routing, HasBox, IsMasked
<1>10. OwnRouteInv'
  BY <1>b, <1>7 DEF TtyInv, OwnRouteInv
<1> SUFFICES ASSUME ~TypeAhead
             PROVE  KeysInv' /\ UnreadInv' /\ IsrInv' /\ FullInv'
  BY <1>1, <1>2, <1>3, <1>4, <1>5, <1>6, <1>7, <1>8, <1>9, <1>10 DEF TtyInv
<1>c. \A d : (Fresh(d)' <=> Fresh(d))
  BY <1>b DEF Fresh
<1>11. KeysInv'
  <2>1. KeysInOrder'
    BY <1>b DEF TtyInv, KeysInv, KeysInOrder
  <2>2. \A d \in Channels : \A i \in DOMAIN got[d] : got[d][i] <= rxBuf[d]
    BY DEF TtyInv, KeysInv
  <2>3. \A d \in Channels : rxBuf[d] \in Nat /\ typed[d] \in Nat
    BY <1>1, ConstantFacts DEF Types
  <2>4. /\ \A d \in Channels : rxBuf[d] <= typed'[d]
        /\ \A d \in unread' : rxBuf[d] < typed'[d]
    <3>1. rxBuf[c] < typed'[c]
      BY <2>3, <1>b DEF TtyInv, KeysInv
    <3>2. \A d \in Channels : d # c => rxBuf[d] <= typed'[d]
      BY <1>b DEF TtyInv, KeysInv
    <3>3. \A d \in unread : d # c => d \in Channels /\ rxBuf[d] < typed'[d]
      BY <1>1, <1>b DEF TtyInv, KeysInv, Types
    <3>4. \A d \in Channels : d = c => rxBuf[d] <= typed'[d]
      BY <3>1, <2>3, <1>b
    <3> QED
      BY <3>1, <3>2, <3>3, <3>4, <1>b
  <2> QED
    BY <2>1, <2>2, <2>4, <1>b DEF KeysInv
<1>12. UnreadInv'
  <2>1. PICK t \in Tasks : owned[t] = c /\ \A u \in Members(t) : ~Releasing(u)
    BY DEF Type
  <2>2. ASSUME NEW r \in Tasks, Releasing(r), chan[r] = c
        PROVE  FALSE
    <3>1. pc[r] # "free"
      BY <2>1, <2>2 DEF TtyInv, ReleaseInv
    <3>2. owned[r] = owned[t] /\ owned[t] # None
      BY <2>1, <2>2, <3>1, ConstantFacts DEF TtyInv, ReleaseInv, Releasing
    <3> QED
      BY <3>2, <2>1, <2>2 DEF TtyInv, OwnInv, Members
  <2> QED
    BY <2>1, <2>2, <1>b DEF TtyInv, UnreadInv, Releasing
<1>13. IsrInv'
  BY <1>b, <1>c DEF TtyInv, IsrInv, Releasing
<1>14. FullInv'
  BY <1>b, <1>c DEF TtyInv, FullInv, Busy, Releasing
<1> QED
  BY <1>11, <1>12, <1>13, <1>14

LEMMA IsrReadPreserves ==
  ASSUME TerminalsAssumption, ~Overlap, OneProcessor, TtyInv, NEW p \in Processors,
         IsrRead(p)
  PROVE  TtyInv'
<1>0. PICK c \in unread, b \in Boxes, d \in Channels :
        /\ route[c] = <<p, b>> /\ wtiVector[p][b] = d
        /\ rxBuf' = [rxBuf EXCEPT ![d] = typed[d]]
        /\ unread' = unread \ {d}
        /\ isr' = [isr EXCEPT ![p] = d]
  BY DEF IsrRead
<1>1. Types /\ Types'
  BY <1>0 DEF Types, TtyInv, routing, IsrRead
<1>b. UNCHANGED <<ttyChannel, owned, routing, rxFull, typed, got, pc, chan>>
  BY DEF IsrRead
<1>2. Places'
  BY <1>b DEF TtyInv, Places
<1>3. OneAtATime'
  BY <1>b DEF TtyInv, OneAtATime, Allocating, Releasing
<1>4. AllocInv'
  BY <1>b DEF TtyInv, AllocInv, Allocating, Releasing, HasChannel
<1>5. OwnInv'
  BY <1>b DEF TtyInv, OwnInv
<1>6. ReleaseInv'
  BY <1>b DEF TtyInv, ReleaseInv, Releasing
<1>7. /\ BoxInv'
      /\ \A e, q : (RoutedTo(e, q)' <=> RoutedTo(e, q))
      /\ \A e : (Entered(e)' <=> Entered(e))
  BY SameRoutes DEF TtyInv, routing, IsrRead
<1>8. EntryInv'
  BY <1>b, <1>7 DEF TtyInv, EntryInv
<1>9. RouteInv'
  BY <1>b, <1>7 DEF TtyInv, RouteInv, routing, HasBox, IsMasked
<1>10. OwnRouteInv'
  BY <1>b, <1>7 DEF TtyInv, OwnRouteInv
<1> SUFFICES ASSUME ~TypeAhead
             PROVE  KeysInv' /\ UnreadInv' /\ IsrInv' /\ FullInv'
  BY <1>1, <1>2, <1>3, <1>4, <1>5, <1>6, <1>7, <1>8, <1>9, <1>10 DEF TtyInv
<1>a. PICK t \in Tasks : owned[t] = c
  BY DEF TtyInv, UnreadInv
<1>c. c \in Channels /\ c # None /\ c \in ttyChannel
  BY <1>1, <1>a, ConstantFacts DEF TtyInv, OwnInv, Types
<1>d. d = c
  <2>1. \A u \in Tasks : pc[u] = "vector" => chan[u] # c
    BY <1>a DEF TtyInv, AllocInv, HasChannel
  <2>2. Entered(c)
    BY <2>1, <1>c DEF TtyInv, EntryInv
  <2> QED
    BY <2>2, <1>0 DEF Entered
<1>e. Proc[t] = p
  <2>1. \A r \in Tasks : ~(pc[r] = "forget" /\ chan[r] = c)
    BY DEF TtyInv, UnreadInv, Releasing
  <2>2. RoutedTo(c, Proc[t])
    BY <2>1, <1>a, <1>c DEF TtyInv, OwnRouteInv
  <2> QED
    BY <2>2, <1>0, BoxFacts DEF RoutedTo
<1>k. /\ rxBuf'[c] = typed[c] /\ \A x \in Channels : x # c => rxBuf'[x] = rxBuf[x]
      /\ unread' = unread \ {c}
      /\ isr'[p] = c /\ \A q \in Processors : q # p => isr'[q] = isr[q]
      /\ \A u \in Tasks : Proc[u] = p => ~Releasing(u)
  BY <1>0, <1>1, <1>c, <1>d DEF Types, IsrRead
<1>f. \A x \in Channels : x # c => (Fresh(x)' <=> Fresh(x))
  BY <1>b, <1>k DEF Fresh
<1>g. /\ \A x \in Channels : rxBuf[x] \in Nat /\ typed[x] \in Nat
      /\ \A x \in Channels : \A i \in DOMAIN got[x] : got[x][i] \in Nat
  <2>1. /\ \A x \in Channels : rxBuf[x] \in 0 .. Keys /\ typed[x] \in 0 .. Keys
        /\ \A x \in Channels : got[x] \in Seq(0 .. Keys)
    BY <1>1 DEF Types
  <2>0. 0 .. Keys \subseteq Nat
    OBVIOUS
  <2>2. \A x \in Channels : \A i \in DOMAIN got[x] : got[x][i] \in 0 .. Keys
    BY <2>1, SequenceFacts
  <2> QED
    BY <2>0, <2>1, <2>2
<1>h. rxBuf[c] < typed[c] /\ \A i \in DOMAIN got[c] : got[c][i] <= rxBuf[c]
  BY <1>c DEF TtyInv, KeysInv
<1>i. \A i \in DOMAIN got[c] : got[c][i] < typed[c]
  BY <1>c, <1>g, <1>h
<1>j. Fresh(c)'
  BY <1>b, <1>k, <1>i DEF Fresh
<1>11. KeysInv'
  <2>1. KeysInOrder'
    BY <1>b, <1>k DEF TtyInv, KeysInv, KeysInOrder
  <2>2. \A x \in Channels : rxBuf'[x] <= typed[x]
    BY <1>b, <1>k, <1>c, <1>g DEF TtyInv, KeysInv
  <2>3. ASSUME NEW x \in Channels, NEW i \in DOMAIN got[x]
        PROVE  got[x][i] <= rxBuf'[x]
    <3>1. CASE x = c
      BY <3>1, <1>b, <1>k, <1>c, <1>g, <1>i
    <3>2. CASE x # c
      BY <3>2, <1>b, <1>k DEF TtyInv, KeysInv
    <3> QED
      BY <3>1, <3>2
  <2>4. \A x \in unread' : rxBuf'[x] < typed[x]
    BY <1>1, <1>b, <1>k DEF TtyInv, KeysInv, Types
  <2> QED
    BY <2>1, <2>2, <2>3, <2>4, <1>b, <1>k DEF KeysInv
<1>12. UnreadInv'
  BY <1>b, <1>k DEF TtyInv, UnreadInv, Releasing
<1>13. IsrInv'
  <2>1. \A q \in Processors : isr'[q] # None => isr'[q] \in Channels
    BY <1>1 DEF Types
  <2>2. \A u \in Tasks : Releasing(u)' <=> Releasing(u)
    BY <1>b, <1>k DEF Releasing
  <2> QED
    BY <2>1, <2>2, <1>a, <1>b, <1>k, <1>e, <1>f, <1>j DEF TtyInv, IsrInv
<1>14. FullInv'
  <2>1. \A u \in Tasks : Busy(u)' <=> Busy(u)
    BY <1>b, <1>k DEF Busy, Releasing
  <2>2. ttyChannel \subseteq Channels
    BY <1>1 DEF Types
  <2> QED
    BY <2>1, <2>2, <1>b, <1>k, <1>f, <1>j DEF TtyInv, FullInv
<1> QED
  BY <1>11, <1>12, <1>13, <1>14

LEMMA IsrFullPreserves ==
  ASSUME TerminalsAssumption, ~Overlap, OneProcessor, TtyInv, NEW p \in Processors,
         IsrFull(p)
  PROVE  TtyInv'
<1>1. Types /\ Types'
  BY ConstantFacts DEF Types, TtyInv, routing, IsrFull
<1>b. /\ rxFull' = rxFull \cup {isr[p]} /\ isr[p] # None
      /\ isr'[p] = None /\ \A q \in Processors : q # p => isr'[q] = isr[q]
      /\ UNCHANGED <<ttyChannel, owned, routing, rxBuf, typed, unread, got, pc, chan>>
  BY <1>1 DEF Types, IsrFull
<1>2. Places'
  BY <1>b DEF TtyInv, Places
<1>3. OneAtATime'
  BY <1>b DEF TtyInv, OneAtATime, Allocating, Releasing
<1>4. AllocInv'
  BY <1>b DEF TtyInv, AllocInv, Allocating, Releasing, HasChannel
<1>5. OwnInv'
  BY <1>b DEF TtyInv, OwnInv
<1>6. ReleaseInv'
  BY <1>b DEF TtyInv, ReleaseInv, Releasing
<1>7. /\ BoxInv'
      /\ \A d, q : (RoutedTo(d, q)' <=> RoutedTo(d, q))
      /\ \A c : (Entered(c)' <=> Entered(c))
  BY SameRoutes DEF TtyInv, routing, IsrFull
<1>8. EntryInv'
  BY <1>b, <1>7 DEF TtyInv, EntryInv
<1>9. RouteInv'
  BY <1>b, <1>7 DEF TtyInv, RouteInv, routing, HasBox, IsMasked
<1>10. OwnRouteInv'
  BY <1>b, <1>7 DEF TtyInv, OwnRouteInv
<1> SUFFICES ASSUME ~TypeAhead
             PROVE  KeysInv' /\ UnreadInv' /\ IsrInv' /\ FullInv'
  BY <1>1, <1>2, <1>3, <1>4, <1>5, <1>6, <1>7, <1>8, <1>9, <1>10 DEF TtyInv
<1>11. KeysInv' /\ \A c : (Fresh(c)' <=> Fresh(c))
  BY <1>b, SameKeys DEF TtyInv
<1>12. UnreadInv'
  BY <1>b DEF TtyInv, UnreadInv, Releasing
<1>13. IsrInv'
  BY <1>b, <1>11 DEF TtyInv, IsrInv, Releasing
<1>14. FullInv'
  <2>1. \A u \in Tasks : Busy(u)' <=> Busy(u)
    BY <1>b DEF Busy, Releasing
  <2>2. Fresh(isr[p])
    BY <1>b DEF TtyInv, IsrInv
  <2> QED
    BY <2>1, <2>2, <1>b, <1>11 DEF TtyInv, FullInv
<1> QED
  BY <1>11, <1>12, <1>13, <1>14

-----------------------------------------------------------------------------

LEMMA TtyStarts ==
  ASSUME TerminalsAssumption, Init
  PROVE  TtyInv
<1>1. Types
  BY ConstantFacts DEF Init, Types
<1>2. Places /\ OneAtATime /\ AllocInv /\ OwnInv /\ ReleaseInv
  BY DEF Init, Places, OneAtATime, Allocating, Releasing, AllocInv, HasChannel, OwnInv, ReleaseInv
<1>3. BoxInv /\ EntryInv
  BY BoxFacts DEF Init, BoxInv, FirstInv, SingleInv, UsedInv, EntryInv, Entered
<1>4. RouteInv /\ OwnRouteInv
  BY DEF Init, RouteInv, OwnRouteInv, HasBox, IsMasked
<1>5. \A c \in Channels : got[c] = <<>> /\ DOMAIN got[c] = {} /\ rxBuf[c] = 0 /\ typed[c] = 0
  BY DEF Init
<1>6. KeysInv
  BY <1>5 DEF KeysInv, KeysInOrder, Init
<1>7. UnreadInv /\ IsrInv /\ FullInv
  BY DEF Init, UnreadInv, IsrInv, FullInv, Releasing
<1> QED
  BY <1>1, <1>2, <1>3, <1>4, <1>6, <1>7 DEF TtyInv

LEMMA TtyPreserved ==
  ASSUME TerminalsAssumption, ~Overlap, OneProcessor, TtyInv, [Next]_vars
  PROVE  TtyInv'
<1>1. ASSUME NEW t \in Tasks, Step(t)
      PROVE  TtyInv'
  BY <1>1, AllocPreserves, ScanBusyPreserves, ScanFreePreserves, SetChannelPreserves,
     TakeBoxPreserves, SetVectorPreserves, SharePreserves, KillPreserves, ReleaseIrqPreserves,
     ForgetPreserves, FreeChannelPreserves, ExecPreserves, ReadPreserves, ReadDonePreserves
     DEF Step
<1>2. CASE UNCHANGED vars
  <2>1. UNCHANGED <<ttyChannel, owned, routing, input, pc, chan, isr>>
    BY <1>2 DEF vars
  <2>2. UNCHANGED <<wtiAlloc, wtiVector, route, rxBuf, rxFull, typed, unread, got>>
    BY <2>1 DEF routing, input
  <2>3. /\ BoxInv' /\ (\A c, p : (RoutedTo(c, p)' <=> RoutedTo(c, p)))
        /\ \A c : (Entered(c)' <=> Entered(c))
    BY <2>2, SameRoutes DEF TtyInv
  <2>4. KeysInv => KeysInv' /\ \A c : (Fresh(c)' <=> Fresh(c))
    BY <2>2, SameKeys
  <2>5. Types' /\ Places' /\ OneAtATime' /\ AllocInv' /\ OwnInv' /\ ReleaseInv'
    BY <2>1, <2>2 DEF TtyInv, Types, Places, OneAtATime, AllocInv, OwnInv, ReleaseInv,
                      Allocating, Releasing, HasChannel
  <2>6. EntryInv' /\ RouteInv' /\ OwnRouteInv'
    BY <2>1, <2>2, <2>3 DEF TtyInv, EntryInv, RouteInv, OwnRouteInv, HasBox, IsMasked
  <2>7. ~TypeAhead => UnreadInv' /\ IsrInv' /\ FullInv'
    BY <2>1, <2>2, <2>4 DEF TtyInv, UnreadInv, IsrInv, FullInv, Busy, Releasing
  <2> QED
    BY <2>3, <2>4, <2>5, <2>6, <2>7 DEF TtyInv
<1> QED
  BY <1>1, <1>2, TypePreserves, IsrReadPreserves, IsrFullPreserves DEF Next

LEMMA TtySound ==
  ASSUME TerminalsAssumption, TtyInv
  PROVE  TypeOK /\ OwnedIsRouted /\ BoxesAreUsed /\ (~TypeAhead => KeysInOrder)
<1>1. TypeOK /\ Types /\ (~TypeAhead => KeysInOrder)
  BY TypesAre DEF TtyInv, KeysInv
<1>2. ASSUME NEW t \in Tasks, owned[t] # None
      PROVE  Routed(owned[t]) \/ \E r \in Members(t) : Releasing(r) /\ chan[r] = owned[t]
  <2>1. CASE RoutedTo(owned[t], Proc[t])
    <3>1. PICK b \in Boxes : route[owned[t]] = <<Proc[t], b>>
      BY <2>1 DEF RoutedTo
    <3>2. owned[t] \in Channels /\ Proc[t] \in Processors /\ owned[t] \in ttyChannel
      BY <1>1, <1>2, ConstantFacts DEF Types, TtyInv, OwnInv
    <3>3. \A u \in Tasks : pc[u] = "vector" => chan[u] # owned[t]
      BY DEF TtyInv, AllocInv, HasChannel
    <3>4. Entered(owned[t])
      BY <3>2, <3>3 DEF TtyInv, EntryInv
    <3>5. b \in wtiAlloc[Proc[t]] /\ wtiVector[Proc[t]][b] = owned[t]
      BY <3>1, <3>2, <3>4 DEF Entered, TtyInv, BoxInv, FirstInv
    <3>6. \A d \in Channels \ {owned[t]} : route[d] # route[owned[t]]
      BY <3>1, <3>2, BoxFacts DEF TtyInv, BoxInv, SingleInv
    <3> QED
      BY <3>1, <3>2, <3>5, <3>6 DEF Routed
  <2>2. CASE \E r \in Tasks : pc[r] = "forget" /\ chan[r] = owned[t]
    <3>1. PICK r \in Tasks : pc[r] = "forget" /\ chan[r] = owned[t]
      BY <2>2
    <3>2. owned[r] = owned[t]
      BY <3>1 DEF TtyInv, ReleaseInv
    <3>3. App[r] = App[t]
      BY <3>2, <1>2 DEF TtyInv, OwnInv
    <3> QED
      BY <3>1, <3>3 DEF Members, Releasing
  <2> QED
    BY <1>2, <2>1, <2>2 DEF TtyInv, OwnRouteInv
<1>3. OwnedIsRouted
  BY <1>2 DEF OwnedIsRouted, TtyInv, OwnInv
<1>4. BoxesAreUsed
  <2> SUFFICES ASSUME NEW p \in Processors, NEW b \in wtiAlloc[p]
               PROVE  \E c \in ttyChannel : route[c] = <<p, b>>
    BY DEF BoxesAreUsed
  <2>1. PICK c \in Channels : route[c] = <<p, b>>
    BY DEF TtyInv, BoxInv, UsedInv
  <2>2. route[c] # Masked
    BY <2>1, BoxFacts
  <2> QED
    BY <2>1, <2>2 DEF TtyInv, RouteInv
<1> QED
  BY <1>1, <1>3, <1>4

\* When an allocation overlaps neither another one nor a kill in its own application
\* (_sys_tty_alloc and _sys_tty_release take no lock), and the tasks that share a
\* terminal run on one processor (_ext_irq_release looks in its own tables only): the
\* terminal of an application is routed to it and its own, and no mailbox is lost. When
\* moreover no key is typed while the IRQ is masked, the keys are read once and in order.
\* For any tasks, applications and processors, and any number of channels and keys.
THEOREM TerminalsAreSound ==
  ASSUME TerminalsAssumption, ~Overlap, OneProcessor
  PROVE  Spec => [](TypeOK /\ OwnedIsRouted /\ BoxesAreUsed /\ (~TypeAhead => KeysInOrder))
<1>1. Init => TtyInv
  BY TtyStarts
<1>2. TtyInv /\ [Next]_vars => TtyInv'
  BY TtyPreserved
<1>3. TtyInv => TypeOK /\ OwnedIsRouted /\ BoxesAreUsed /\ (~TypeAhead => KeysInOrder)
  BY TtySound
<1> QED
  BY <1>1, <1>2, <1>3, PTL DEF Spec

=============================================================================
