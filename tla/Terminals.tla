------------------------------- MODULE Terminals -------------------------------
(***************************************************************************)
(* The terminals: allocation and release of a TTY channel, with the        *)
(* routing of its IRQ to a processor (sys_handler.c, irq_handler.c,        *)
(* ctx_handler.c), _tty_rx_isr and _sys_tty_read. The terminals and the    *)
(* interrupt controllers are external.                                     *)
(*                                                                         *)
(* Each processor has mailboxes for the external IRQs. The channel of an   *)
(* application is released when a task that has it is killed, by the       *)
(* processor of that task, with interrupts disabled.                       *)
(***************************************************************************)
EXTENDS Naturals, Sequences, FiniteSets

CONSTANTS Tasks,
          Proc,         \* processor of each task
          App,          \* application of each task
          Shared,       \* applications that share their terminal
          NbChannels,   \* bound: number of terminals
          Boxes,        \* bound: indexes of the mailboxes of a processor (3)
          Keys,         \* bound: number of keys typed on each terminal
          Overlap,      \* may two allocations overlap, or one overlap a kill
                        \* of the same application?
          TypeAhead     \* may a key wait in a terminal whose IRQ is masked?

TerminalsAssumption == NbChannels \in Nat \ {0} /\ Keys \in Nat /\ Boxes \subseteq Nat

\* The tasks that share a terminal run on one processor: _ext_irq_release looks for
\* the mailbox on the processor of the task that is killed.
OneProcessor ==
  \A t, u \in Tasks : App[t] = App[u] /\ App[t] \in Shared => Proc[t] = Proc[u]

Channels == 1 .. NbChannels
None == 0               \* no channel
Masked == <<>>          \* no mailbox
Processors == {Proc[t] : t \in Tasks}
Members(t) == {u \in Tasks : App[u] = App[t]}

VARIABLES ttyChannel,   \* _tty_channel: the allocated channels
          owned,        \* CTX_TTY_ID
          wtiAlloc,     \* _wti_alloc_one, _two, _ter: the mailboxes in use
          wtiVector,    \* wti_vector of each scheduler
          route,        \* IOPIC: mailbox of each channel
          rxBuf, rxFull,        \* _tty_rx_buf, _tty_rx_full
          typed,        \* number of keys typed on each terminal
          unread,       \* terminals whose TTY_READ register holds a key
          got,          \* the keys that were read from each channel
          pc, chan,     \* where each task is, with which channel
          isr           \* channel of _tty_rx_isr on each processor

routing == <<wtiAlloc, wtiVector, route>>
input == <<rxBuf, rxFull, typed, unread, got>>
vars == <<ttyChannel, owned, routing, input, pc, chan, isr>>

Allocating(t) == pc[t] \in {"scan", "set", "box", "vector", "share"}
Releasing(t) == pc[t] \in {"release", "forget", "free"}

\* The processor of t does not execute an ISR nor kills another task.
Runs(t) ==
  /\ isr[Proc[t]] = None
  /\ \A u \in Tasks \ {t} : Proc[u] = Proc[t] => ~Releasing(u)

Goto(t, place) == pc' = [pc EXCEPT ![t] = place]

Init ==
  /\ ttyChannel = {}
  /\ owned = [t \in Tasks |-> None]
  /\ wtiAlloc = [p \in Processors |-> {}]
  /\ wtiVector = [p \in Processors |-> [b \in Boxes |-> None]]
  /\ route = [c \in Channels |-> Masked]
  /\ rxBuf = [c \in Channels |-> 0] /\ rxFull = {}
  /\ typed = [c \in Channels |-> 0] /\ unread = {}
  /\ got = [c \in Channels |-> <<>>]
  /\ pc = [t \in Tasks |-> "run"]
  /\ chan = [t \in Tasks |-> 1]
  /\ isr = [p \in Processors |-> None]

-----------------------------------------------------------------------------
(* _sys_tty_alloc                                                          *)

\* Faulty variant: the scan starts before the first channel.
AllocBelow(t) ==
  /\ pc[t] = "run" /\ owned[t] = None
  /\ Overlap \/ \A u \in Tasks : ~Allocating(u) /\ (App[u] = App[t] => ~Releasing(u))
  /\ chan' = [chan EXCEPT ![t] = 0]
  /\ Goto(t, "scan")
  /\ UNCHANGED <<ttyChannel, owned, routing, input, isr>>

Alloc(t) ==
  /\ pc[t] = "run" /\ owned[t] = None
  /\ Overlap \/ \A u \in Tasks : ~Allocating(u) /\ (App[u] = App[t] => ~Releasing(u))
  /\ chan' = [chan EXCEPT ![t] = 1]
  /\ Goto(t, "scan")
  /\ UNCHANGED <<ttyChannel, owned, routing, input, isr>>

\* Without free channel, the library exits.
ScanBusy(t) ==
  /\ pc[t] = "scan" /\ chan[t] \in ttyChannel
  /\ IF chan[t] + 1 \in Channels
     THEN chan' = [chan EXCEPT ![t] = @ + 1] /\ UNCHANGED pc
     ELSE Goto(t, "exit") /\ UNCHANGED chan
  /\ UNCHANGED <<ttyChannel, owned, routing, input, isr>>

ScanFree(t) ==
  /\ pc[t] = "scan" /\ chan[t] \notin ttyChannel
  /\ Goto(t, "set")
  /\ UNCHANGED <<ttyChannel, owned, routing, input, chan, isr>>

\* Faulty variant: the last key of the previous owner stays in the buffer.
NotEmptied(t) ==
  /\ pc[t] = "set"
  /\ ttyChannel' = ttyChannel \cup {chan[t]}
  /\ Goto(t, "box")
  /\ UNCHANGED <<owned, routing, input, chan, isr>>

\* The channel is taken, and its buffer emptied.
SetChannel(t) ==
  /\ pc[t] = "set"
  /\ ttyChannel' = ttyChannel \cup {chan[t]}
  /\ rxFull' = rxFull \ {chan[t]}
  /\ Goto(t, "box")
  /\ UNCHANGED <<owned, routing, rxBuf, typed, unread, got, chan, isr>>

\* _ext_irq_alloc takes the first free mailbox, and routes the IRQ to it.
TakeBox(t) ==
  /\ pc[t] = "box"
  /\ \E b \in Boxes \ wtiAlloc[Proc[t]] :
       /\ \A a \in Boxes \ wtiAlloc[Proc[t]] : b <= a
       /\ wtiAlloc' = [wtiAlloc EXCEPT ![Proc[t]] = @ \cup {b}]
       /\ route' = [route EXCEPT ![chan[t]] = <<Proc[t], b>>]
  /\ Goto(t, "vector")
  /\ UNCHANGED <<ttyChannel, owned, wtiVector, input, chan, isr>>

SetVector(t) ==
  /\ pc[t] = "vector"
  /\ wtiVector' = [wtiVector EXCEPT ![Proc[t]][route[chan[t]][2]] = chan[t]]
  /\ Goto(t, "share")
  /\ UNCHANGED <<ttyChannel, owned, wtiAlloc, route, input, chan, isr>>

\* CTX_TTY_ID of the task, or of all the tasks of the application without channel.
Share(t) ==
  /\ pc[t] = "share"
  /\ owned' = [u \in Tasks |->
       IF u = t \/ (App[t] \in Shared /\ u \in Members(t) /\ owned[u] = None)
       THEN chan[t] ELSE owned[u]]
  /\ Goto(t, "run")
  /\ UNCHANGED <<ttyChannel, routing, input, chan, isr>>

-----------------------------------------------------------------------------
(* _ctx_kill_task, _sys_tty_release                                        *)

\* Faulty variant: the channel can be allocated before its IRQ is released.
FreedFirst(t) ==
  /\ pc[t] # "dead" /\ ~Releasing(t)
  /\ Overlap \/ \A u \in Members(t) : ~Allocating(u)
  /\ TypeAhead \/ owned[t] \notin unread
  /\ chan' = [chan EXCEPT ![t] = IF owned[t] = None THEN @ ELSE owned[t]]
  /\ ttyChannel' = ttyChannel \ {owned[t]}
  /\ Goto(t, IF owned[t] = None THEN "dead" ELSE "release")
  /\ UNCHANGED <<owned, routing, input, isr>>

Kill(t) ==
  /\ pc[t] # "dead" /\ ~Releasing(t)
  /\ Overlap \/ \A u \in Members(t) : ~Allocating(u)
  /\ TypeAhead \/ owned[t] \notin unread
  /\ chan' = [chan EXCEPT ![t] = IF owned[t] = None THEN @ ELSE owned[t]]
  /\ Goto(t, IF owned[t] = None THEN "dead" ELSE "release")
  /\ UNCHANGED <<ttyChannel, owned, routing, input, isr>>

\* _ext_irq_release looks for the channel in the vector of its own processor.
ReleaseIrq(t) ==
  LET p == Proc[t]
      found == {b \in Boxes : wtiVector[p][b] = chan[t]}
      first == CHOOSE b \in found : \A a \in found : b <= a
  IN  /\ pc[t] = "release"
      /\ IF found = {} THEN UNCHANGED <<wtiAlloc, route>> ELSE
         /\ route' = [route EXCEPT ![chan[t]] = Masked]
         /\ wtiAlloc' = [wtiAlloc EXCEPT ![p] = @ \ {first}]
      /\ Goto(t, "forget")
      /\ UNCHANGED <<ttyChannel, owned, wtiVector, input, chan, isr>>

Forget(t) ==
  /\ pc[t] = "forget"
  /\ owned' = [u \in Tasks |->
       IF u \in Members(t) /\ owned[u] = chan[t] THEN None ELSE owned[u]]
  /\ Goto(t, "free")
  /\ UNCHANGED <<ttyChannel, routing, input, chan, isr>>

FreeChannel(t) ==
  /\ pc[t] = "free"
  /\ ttyChannel' = ttyChannel \ {chan[t]}
  /\ Goto(t, "dead")
  /\ UNCHANGED <<owned, routing, input, chan, isr>>

\* The application is started again.
Exec(t) ==
  /\ \A u \in Members(t) : pc[u] = "dead"
  /\ pc' = [u \in Tasks |-> IF u \in Members(t) THEN "run" ELSE pc[u]]
  /\ UNCHANGED <<ttyChannel, owned, routing, input, chan, isr>>

-----------------------------------------------------------------------------
(* The keys: _tty_rx_isr, _sys_tty_read                                    *)

\* A key that nobody read is lost.
Type(c) ==
  /\ typed[c] < Keys
  /\ TypeAhead \/ \E t \in Tasks : owned[t] = c /\ \A u \in Members(t) : ~Releasing(u)
  /\ typed' = [typed EXCEPT ![c] = @ + 1]
  /\ unread' = unread \cup {c}
  /\ UNCHANGED <<ttyChannel, owned, routing, rxBuf, rxFull, got, pc, chan, isr>>

\* The ISR of the channel that the vector of the processor has for the mailbox.
IsrRead(p) ==
  /\ isr[p] = None
  /\ \A t \in Tasks : Proc[t] = p => ~Releasing(t)
  /\ \E c \in unread, b \in Boxes, d \in Channels :
       /\ route[c] = <<p, b>> /\ wtiVector[p][b] = d
       /\ rxBuf' = [rxBuf EXCEPT ![d] = typed[d]]
       /\ unread' = unread \ {d}
       /\ isr' = [isr EXCEPT ![p] = d]
  /\ UNCHANGED <<ttyChannel, owned, routing, rxFull, typed, got, pc, chan>>

IsrFull(p) ==
  /\ isr[p] # None
  /\ rxFull' = rxFull \cup {isr[p]}
  /\ isr' = [isr EXCEPT ![p] = None]
  /\ UNCHANGED <<ttyChannel, owned, routing, rxBuf, typed, unread, got, pc, chan>>

\* One task of an application reads its terminal at a time.
Read(t) ==
  /\ pc[t] = "run" /\ owned[t] \in rxFull
  /\ \A u \in Members(t) : pc[u] # "read"
  /\ chan' = [chan EXCEPT ![t] = owned[t]]
  /\ got' = [got EXCEPT ![owned[t]] = Append(@, rxBuf[owned[t]])]
  /\ Goto(t, "read")
  /\ UNCHANGED <<ttyChannel, owned, routing, rxBuf, rxFull, typed, unread, isr>>

ReadDone(t) ==
  /\ pc[t] = "read"
  /\ rxFull' = rxFull \ {chan[t]}
  /\ Goto(t, "run")
  /\ UNCHANGED <<ttyChannel, owned, routing, rxBuf, typed, unread, got, chan, isr>>

-----------------------------------------------------------------------------

Step(t) ==
  /\ Runs(t)
  /\ \/ Alloc(t) \/ ScanBusy(t) \/ ScanFree(t) \/ SetChannel(t)
     \/ TakeBox(t) \/ SetVector(t) \/ Share(t)
     \/ Kill(t) \/ ReleaseIrq(t) \/ Forget(t) \/ FreeChannel(t) \/ Exec(t)
     \/ Read(t) \/ ReadDone(t)

Next ==
  \/ \E t \in Tasks : Step(t)
  \/ \E c \in Channels : Type(c)
  \/ \E p \in Processors : IsrRead(p) \/ IsrFull(p)

Spec == Init /\ [][Next]_vars

-----------------------------------------------------------------------------
(* Properties                                                              *)

TypeOK ==
  /\ {ttyChannel, rxFull, unread} \subseteq SUBSET Channels
  /\ owned \in [Tasks -> Channels \cup {None}]
  /\ wtiAlloc \in [Processors -> SUBSET Boxes]
  /\ wtiVector \in [Processors -> [Boxes -> Channels \cup {None}]]
  /\ route \in [Channels -> (Processors \X Boxes) \cup {Masked}]
  /\ {rxBuf, typed} \subseteq [Channels -> 0 .. Keys]
  /\ got \in [Channels -> Seq(0 .. Keys)]
  /\ chan \in [Tasks -> Channels]
  /\ isr \in [Processors -> Channels \cup {None}]

\* The IRQ of a channel comes to a mailbox that is its own, and whose entry in the
\* vector is the channel.
Routed(c) ==
  /\ c \in ttyChannel
  /\ \E p \in Processors, b \in Boxes :
       /\ route[c] = <<p, b>> /\ b \in wtiAlloc[p] /\ wtiVector[p][b] = c
       /\ \A d \in Channels \ {c} : route[d] # route[c]

\* The terminal of an application is routed to it, and belongs to no other
\* application, whatever terminals are released and allocated meanwhile.
OwnedIsRouted ==
  \A t, u \in Tasks :
    owned[t] # None =>
      /\ owned[u] = owned[t] => App[u] = App[t]
      /\ Routed(owned[t]) \/ \E r \in Members(t) : Releasing(r) /\ chan[r] = owned[t]

\* No mailbox is lost: the processor has three, and waits for a free one.
BoxesAreUsed ==
  \A p \in Processors : \A b \in wtiAlloc[p] : \E c \in ttyChannel : route[c] = <<p, b>>

\* A key is read at most once, and the keys are read in order.
KeysInOrder ==
  \A c \in Channels : \A i, j \in DOMAIN got[c] : i < j => got[c][i] < got[c][j]

=============================================================================
