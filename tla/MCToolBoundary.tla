--------------------------- MODULE MCToolBoundary ---------------------------
(* Constant definitions for the model-checking runs of ToolBoundary. *)
EXTENDS ToolBoundary, TLC

CONSTANTS x1, x2, x3

Symmetry == Permutations(Executors)
=============================================================================
