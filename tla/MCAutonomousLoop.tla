-------------------------- MODULE MCAutonomousLoop --------------------------
(* Constant definitions for the model-checking runs of AutonomousLoop. *)
EXTENDS AutonomousLoop

CONSTANTS r1, r2, r3, e1

\* The last run has been started with a smaller budget than the others.
OneFrugal == [r \in Runs |-> IF r = r3 THEN 1 ELSE 2]
=============================================================================
