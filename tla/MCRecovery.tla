----------------------------- MODULE MCRecovery -----------------------------
(* Constant definitions for the model-checking runs of Recovery. *)
EXTENDS Recovery

CONSTANTS boot, manager, e1, nodeA, nodeB

TwoAttempts == [r \in Runs |-> 2]

\* Different owner ids: each is refused while the other has the lease.
OwnNames == [w \in Recoverers |-> IF w = boot THEN nodeA ELSE nodeB]

\* The bootstrap comes back after its process has died or it was cancelled.
OneRestart == [w \in Recoverers |-> IF w = boot THEN 2 ELSE 1]
=============================================================================
