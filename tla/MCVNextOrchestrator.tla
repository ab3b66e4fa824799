------------------------ MODULE MCVNextOrchestrator ------------------------
(* Constant definitions for the model-checking run of VNextOrchestrator. *)
EXTENDS VNextOrchestrator

CONSTANTS r1, r2, c1, c2
=============================================================================
