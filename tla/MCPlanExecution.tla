--------------------------- MODULE MCPlanExecution ---------------------------
(* Constant definitions for the model-checking runs of PlanExecution. *)
EXTENDS PlanExecution, TLC

CONSTANTS r1, r2, e1, a, b, c, n, g

TwoAttempts == [r \in Runs |-> 2]

WithId(x) == [call |-> x, id |-> n, key |-> NoName]
WithKey(x) == [call |-> x, id |-> NoName, key |-> g]

\* Planners number their steps afresh, so that one id stands for different calls, within a
\* plan and across plans.  The remaining call has a key of its own.
Renumbered == {<<WithId(b), WithKey(a)>>, <<WithId(c), WithId(b)>>}

Symmetry == Permutations(Runs)
=============================================================================
