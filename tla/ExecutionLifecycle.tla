------------------------- MODULE ExecutionLifecycle -------------------------
(***************************************************************************)
(* What the durable execution record promises to everyone who reads it,    *)
(* whoever writes it: a record is created "pending" at version 1, and from *)
(* then on it changes one legal transition at a time, each with the next   *)
(* version number.  Locks, leases, journals and crashes do not appear.     *)
(***************************************************************************)
EXTENDS Naturals, ExecutionStateMachine

CONSTANT Executions

VARIABLES
  status,   \* durable status of each execution
  version   \* durable version; 0 while the execution does not exist

lifecycleVars == <<status, version>>

Init ==
  /\ status = [e \in Executions |-> "pending"]
  /\ version = [e \in Executions |-> 0]

Create(e) ==
  /\ version[e] = 0
  /\ version' = [version EXCEPT ![e] = 1]
  /\ UNCHANGED status

Move(e, target) ==
  /\ version[e] > 0
  /\ CanTransition(status[e], target)
  /\ status' = [status EXCEPT ![e] = target]
  /\ version' = [version EXCEPT ![e] = @ + 1]

Next == \E e \in Executions : Create(e) \/ \E target \in Statuses : Move(e, target)

Spec == Init /\ [][Next]_lifecycleVars

=============================================================================
