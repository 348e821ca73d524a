-------------------------------- MODULE Mutex --------------------------------
(***************************************************************************)
(* What a lock of GIET-VM promises when nothing is said about the order in *)
(* which the tasks are served: at most one task is inside at any time.     *)
(***************************************************************************)
CONSTANT Tasks

VARIABLE where          \* where[t]: "out", "waiting" or "in"

Init == where = [t \in Tasks |-> "out"]

Request(t) ==
  /\ where[t] = "out"
  /\ where' = [where EXCEPT ![t] = "waiting"]

Enter(t) ==
  /\ where[t] = "waiting"
  /\ \A u \in Tasks : where[u] # "in"
  /\ where' = [where EXCEPT ![t] = "in"]

Exit(t) ==
  /\ where[t] = "in"
  /\ where' = [where EXCEPT ![t] = "out"]

Next == \E t \in Tasks : Request(t) \/ Enter(t) \/ Exit(t)

Spec == Init /\ [][Next]_where

=============================================================================
