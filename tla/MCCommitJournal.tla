-------------------------- MODULE MCCommitJournal --------------------------
(* Constant definitions for the model-checking runs of CommitJournal. *)
EXTENDS CommitJournal, TLC

CONSTANTS a, b, c

\* The ids without a line separator in their texts.
Symmetry == Permutations(Ids \ Separated)
=============================================================================
