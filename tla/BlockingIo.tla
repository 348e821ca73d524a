------------------------------ MODULE BlockingIo ------------------------------
(***************************************************************************)
(* What the block device drivers promise to the FAT (fat32.c,              *)
(* _fat_ioc_access) when they are called in descheduling mode: the call    *)
(* posts one transfer, returns after the device completed it, and returns  *)
(* the outcome of that transfer and of no other.                           *)
(***************************************************************************)

CONSTANT Tasks

VARIABLES phase,        \* "idle", "posted" or "done", for each task
          outcome,      \* what the device made of the last transfer of a task
          ret           \* what the driver returned for the last transfer

vars == <<phase, outcome, ret>>

Init ==
  /\ phase = [t \in Tasks |-> "idle"]
  /\ outcome = [t \in Tasks |-> "none"]
  /\ ret = [t \in Tasks |-> "none"]

Post(t) ==
  /\ phase[t] = "idle"
  /\ phase' = [phase EXCEPT ![t] = "posted"]
  /\ outcome' = [outcome EXCEPT ![t] = "none"]
  /\ UNCHANGED ret

Complete(t) ==
  /\ phase[t] = "posted"
  /\ phase' = [phase EXCEPT ![t] = "done"]
  /\ \E o \in {"ok", "error"} : outcome' = [outcome EXCEPT ![t] = o]
  /\ UNCHANGED ret

Return(t) ==
  /\ phase[t] = "done"
  /\ phase' = [phase EXCEPT ![t] = "idle"]
  /\ ret' = [ret EXCEPT ![t] = outcome[t]]
  /\ UNCHANGED outcome

Next == \E t \in Tasks : Post(t) \/ Complete(t) \/ Return(t)

Spec == Init /\ [][Next]_vars

=============================================================================
