-------------------------- MODULE MCIntentRecovery --------------------------
(* Constant definitions for the model-checking runs of IntentRecovery. *)
EXTENDS IntentRecovery

CONSTANTS x1, j1, j2, k1, nodeA, nodeB

\* Workers on two nodes, each with the node's owner id.
ByNode == [w \in Workers |-> IF w = j2 THEN nodeB ELSE nodeA]
=============================================================================
