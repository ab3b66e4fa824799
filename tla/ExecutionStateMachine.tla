----------------------- MODULE ExecutionStateMachine -----------------------
(***************************************************************************)
(* The lifecycle graph of an execution: runtime/execution_state_machine.py *)
(* with its default transition table.  Nothing here changes state; the     *)
(* modules of the durable store and of the loops are built on it.          *)
(***************************************************************************)

\* DEFAULT_TRANSITIONS.  "completed" is the only status without a way out:
\* a failed execution may be retried.
Transitions ==
  [ pending   |-> {"running"},
    running   |-> {"retrying", "completed", "failed"},
    retrying  |-> {"running", "failed"},
    completed |-> {},
    failed    |-> {"retrying"} ]

Statuses == {"pending", "running", "retrying", "completed", "failed"}

\* ExecutionStateMachine.can_transition: staying in place is always allowed.
\* validate raises InvalidExecutionTransition exactly when this is false.
CanTransition(current, target) ==
  current = target \/ target \in Transitions[current]

=============================================================================
