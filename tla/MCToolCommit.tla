----------------------------- MODULE MCToolCommit -----------------------------
(* Constant definitions for the model-checking run of ToolCommit. *)
EXTENDS ToolCommit

CONSTANTS w1, w2, e1, node

SharedOwner == [w \in Workers |-> node]
=============================================================================
