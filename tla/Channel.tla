-------------------------------- MODULE Channel --------------------------------
(***************************************************************************)
(* What an MWMR channel promises (mwmr_channel.h): a bounded FIFO between  *)
(* several writers and several readers; a transaction transfers an integer *)
(* number of items, and an item is never divided.                          *)
(*                                                                         *)
(* The items of a writer are numbered in the order of its buffers.         *)
(***************************************************************************)
EXTENDS Naturals, Sequences

CONSTANTS Writers, Readers,
          Capacity      \* max number of items in the channel

VARIABLES content,      \* the items in the channel
          sent,         \* number of items sent by each writer
          got           \* items received by each reader

vars == <<content, sent, got>>

Init ==
  /\ content = <<>>
  /\ sent = [w \in Writers |-> 0]
  /\ got = [r \in Readers |-> <<>>]

\* A writer appends its next k items.
Put(w, k) ==
  /\ Len(content) + k <= Capacity
  /\ content' = content \o [i \in 1 .. k |-> <<w, sent[w] + i>>]
  /\ sent' = [sent EXCEPT ![w] = @ + k]
  /\ UNCHANGED got

\* A reader takes the k oldest items.
Get(r, k) ==
  /\ k <= Len(content)
  /\ got' = [got EXCEPT ![r] = @ \o SubSeq(content, 1, k)]
  /\ content' = SubSeq(content, k + 1, Len(content))
  /\ UNCHANGED sent

Next ==
  \E k \in 1 .. Capacity :
    \/ \E w \in Writers : Put(w, k)
    \/ \E r \in Readers : Get(r, k)

Spec == Init /\ [][Next]_vars

=============================================================================
