------------------------- MODULE MCExecutionCommit -------------------------
(* Constant definitions for the model-checking runs of ExecutionCommit. *)
EXTENDS ExecutionCommit, TLC

CONSTANTS w1, w2, e1, e2, node

\* Two coordinators with ONE owner id: the deployment default, and the harder
\* case, since only the token tells them apart.
SharedOwner == [w \in Workers |-> node]

\* Callers that ask for what the lifecycle graph allows from their copy.
GraphRequests ==
  {r \in Statuses \X Statuses : r[2] \in Transitions[r[1]]}

\* Callers that also ask for what it forbids, from either end of the lifecycle.
CarelessRequests ==
  GraphRequests \union {<<"pending", "completed">>, <<"completed", "retrying">>}

\* Callers that complete executions, some of them too early: their intent stays in the
\* journal, and poisons reconcile().
CompletingRequests == {<<"running", "completed">>, <<"pending", "completed">>}

Symmetry == Permutations(Workers)
=============================================================================
