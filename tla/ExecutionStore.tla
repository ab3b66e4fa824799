--------------------------- MODULE ExecutionStore ---------------------------
(***************************************************************************)
(* The durable execution record of runtime/execution_store.py.  Every read *)
(* and write happens under the store's file lock, and a write replaces the *)
(* whole file, so a write is one step.  Plan, result and error are data no *)
(* property here tells apart; the attempt number is kept because commit    *)
(* identities contain it.                                                  *)
(***************************************************************************)
EXTENDS Naturals, ExecutionStateMachine

CONSTANTS
  Executions,  \* execution identities
  MaxVersion,  \* bound: the version at which direct writers stop
  MaxAttempt   \* bound: attempts per execution

ASSUME StoreAssumption == MaxVersion \in Nat /\ MaxAttempt \in Nat

VARIABLE store  \* the executions file; version 0 is a missing record

ExecutionState == [status : Statuses, attempt : Nat, version : Nat]

StoreTypeOK == store \in [Executions -> ExecutionState]

Exists(e) == store[e].version > 0

StoreInit ==
  store = [e \in Executions |-> [status |-> "pending", attempt |-> 0, version |-> 0]]

\* The write at the end of _save_unlocked: the version it stores is one more
\* than the version it read under the lock.
WriteState(e, status, attempt) ==
  store' = [store EXCEPT ![e] =
              [status |-> status, attempt |-> attempt, version |-> @.version + 1]]

\* save of a fresh ExecutionState by the loop that found no record.
Create(e) ==
  /\ ~ Exists(e)
  /\ MaxVersion > 0
  /\ WriteState(e, "pending", 0)

\* transition(): reads the record and writes it back under one lock.  The
\* compare-and-set inside it is against the version just read, so no caller
\* can lose it; only the lifecycle graph can refuse.
Transition(e, status, attempt) ==
  /\ Exists(e)
  /\ CanTransition(store[e].status, status)
  /\ store[e].version < MaxVersion
  /\ WriteState(e, status, attempt)

=============================================================================
