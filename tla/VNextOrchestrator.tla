-------------------------- MODULE VNextOrchestrator --------------------------
(***************************************************************************)
(* Concurrent calls of VNextOrchestrator.run                               *)
(* (runtime/vnext_orchestrator.py) on one Scheduler (kernel/scheduler.py), *)
(* in one event loop.                                                      *)
(*                                                                         *)
(* A call submits one task and then drives the scheduler until it is idle; *)
(* clients of the scheduler do the same in two calls.  run_until_idle goes *)
(* through the scheduler's own list by position, while others append to it *)
(* and drive it too: a caller executes whatever task is pending at its     *)
(* turn, its own or another's, and passes over what somebody else has      *)
(* begun.  Nothing else runs between two awaits, so an action goes from    *)
(* one await to the next.                                                  *)
(***************************************************************************)
EXTENDS Integers, Sequences, FiniteSetsExt

CONSTANTS
  Runs,    \* calls of run(), and the task each of them submits
  Clients  \* callers of submit and run_until_idle, and theirs

Callers == Runs \union Clients

VARIABLES
  tasks,    \* Scheduler.tasks; finished tasks stay in it
  state,    \* the TaskState of each task, "none" before it is submitted
  pc,       \* what each caller awaits
  at,       \* the position in the list of the task it is driving
  outcome,  \* how it ended
  drives    \* history: how often each task was taken up

vars == <<tasks, state, pc, at, outcome, drives>>

TypeOK ==
  /\ tasks \in Seq(Callers)
  /\ state \in [Callers -> {"none", "pending", "running", "done", "failed"}]
  /\ pc \in [Callers -> {"idle", "plan", "submitted", "drive", "reflect", "over"}]
  /\ at \in [Callers -> Nat]
  /\ outcome \in [Callers -> {"none", "completed", "failed", "returned", "raised", "cancelled"}]
  /\ drives \in [Callers -> Nat]

Init ==
  /\ tasks = <<>>
  /\ state = [r \in Callers |-> "none"]
  /\ pc = [r \in Callers |-> "idle"]
  /\ at = [r \in Callers |-> 0]
  /\ outcome = [r \in Callers |-> "none"]
  /\ drives = [r \in Callers |-> 0]

Goto(r, stage) == pc' = [pc EXCEPT ![r] = stage]

End(r, how) ==
  /\ Goto(r, "over")
  /\ at' = [at EXCEPT ![r] = 0]
  /\ outcome' = [outcome EXCEPT ![r] = how]

----------------------------------------------------------------------------
(* Scheduler.run_until_idle and execute *)

\* Mutant: the last task goes first.
PendingFrom_Newest(list, states, i) ==
  {j \in i..Len(list) : /\ states[list[j]] = "pending"
                        /\ \A k \in (j + 1)..Len(list) : states[list[k]] # "pending"}

\* Positions from i on whose task execute() does not pass over.
PendingFrom(list, states, i) == {j \in i..Len(list) : states[list[j]] = "pending"}

\* Caller r goes on through the list from position i, where the tasks are as in
\* states: the next pending one is marked running and its executor awaited.  At
\* the end of the list run_until_idle returns; run() looks at its own task then: it
\* may have failed in another's hands, and anything else counts as success.
Drive(r, list, states, i) ==
  LET pending == PendingFrom(list, states, i)
  IN  IF pending # {}
      THEN LET j == Min(pending)
           IN  /\ state' = [states EXCEPT ![list[j]] = "running"]
               /\ drives' = [drives EXCEPT ![list[j]] = @ + 1]
               /\ at' = [at EXCEPT ![r] = j]
               /\ Goto(r, "drive")
               /\ UNCHANGED outcome
      ELSE /\ state' = states
           /\ UNCHANGED drives
           /\ IF r \in Clients THEN End(r, "returned")
              ELSE IF states[r] = "failed" THEN End(r, "failed")
              ELSE /\ Goto(r, "reflect")
                   /\ at' = [at EXCEPT ![r] = 0]
                   /\ UNCHANGED outcome

Driven(r) == tasks[at[r]]

\* A client submits its task, and goes on to something else.
Submit(c) ==
  /\ pc[c] = "idle"
  /\ tasks' = Append(tasks, c)
  /\ state' = [state EXCEPT ![c] = "pending"]
  /\ Goto(c, "submitted")
  /\ UNCHANGED <<at, outcome, drives>>

\* It drives the scheduler.
RunUntilIdle(c) ==
  /\ pc[c] = "submitted"
  /\ Drive(c, tasks, state, 1)
  /\ UNCHANGED tasks

----------------------------------------------------------------------------
(* VNextOrchestrator.run *)

\* run() is called, and asks its planner, or cognition, for a plan.
Call(r) ==
  /\ pc[r] = "idle"
  /\ Goto(r, "plan")
  /\ UNCHANGED <<tasks, state, at, outcome, drives>>

\* Mutant: the position is kept from before the task was submitted, past its end.
Planned_Late(r) ==
  /\ pc[r] = "plan"
  /\ tasks' = Append(tasks, r)
  /\ Drive(r, tasks', [state EXCEPT ![r] = "pending"], Len(tasks) + 2)

\* The plan is there: the task is built, submitted, and the scheduler driven from
\* the head of its list.
Planned(r) ==
  /\ pc[r] = "plan"
  /\ tasks' = Append(tasks, r)
  /\ Drive(r, tasks', [state EXCEPT ![r] = "pending"], 1)

\* The executor of the task in hand returns.
Executed(r) ==
  /\ pc[r] = "drive"
  /\ Drive(r, tasks, [state EXCEPT ![Driven(r)] = "done"], at[r] + 1)
  /\ UNCHANGED tasks

\* Mutant: the task is set back, for somebody else to try.
ExecutorRaises_Again(r) ==
  /\ pc[r] = "drive"
  /\ state' = [state EXCEPT ![Driven(r)] = "pending"]
  /\ End(r, "raised")
  /\ UNCHANGED <<tasks, drives>>

\* It raises: the task has failed, and this call ends with its exception, also when
\* the task is another's and its own is still to come.
ExecutorRaises(r) ==
  /\ pc[r] = "drive"
  /\ state' = [state EXCEPT ![Driven(r)] = "failed"]
  /\ End(r, "raised")
  /\ UNCHANGED <<tasks, drives>>

\* Cognition, reflection and memory are done.
Reflected(r) ==
  /\ pc[r] = "reflect"
  /\ End(r, "completed")
  /\ UNCHANGED <<tasks, state, drives>>

\* Planner, cognition or reflection raise.
Raises(r) ==
  /\ pc[r] \in {"plan", "reflect"}
  /\ End(r, "raised")
  /\ UNCHANGED <<tasks, state, drives>>

\* Whoever awaits the caller cancels it.  execute() handles Exception only, so the
\* task in hand is left running.
Cancel(r) ==
  /\ pc[r] \in {"plan", "submitted", "drive", "reflect"}
  /\ End(r, "cancelled")
  /\ UNCHANGED <<tasks, state, drives>>

----------------------------------------------------------------------------
\* Mutant: a call that comes upon a running task waits for it to be over.
Step_Waits(r) ==
  \/ Planned(r) \/ RunUntilIdle(r)
  \/ /\ \A i \in 1..Len(tasks) : i > at[r] => state[tasks[i]] # "running"
     /\ Executed(r) \/ ExecutorRaises(r)
  \/ Reflected(r) \/ Raises(r)

Step(r) ==
  \/ Planned(r) \/ RunUntilIdle(r) \/ Executed(r) \/ ExecutorRaises(r)
  \/ Reflected(r) \/ Raises(r)

Next ==
  \/ \E r \in Runs : Call(r)
  \/ \E c \in Clients : Submit(c)
  \/ \E r \in Callers : Step(r) \/ Cancel(r)

Spec == Init /\ [][Next]_vars

\* What a call awaits answers or raises in the end.
FairSpec == Spec /\ \A r \in Callers : WF_vars(Step(r))

----------------------------------------------------------------------------
(* Properties *)

\* Several calls drive one list across awaits, and one that starts over goes through
\* finished tasks again; still no task is executed twice, and none by two at once.
ExecutedOnce == \A r \in Callers : drives[r] <= 1

\* Tasks are begun in the order in which they were submitted.
StartedInOrder ==
  \A i, j \in DOMAIN tasks :
    i < j /\ state[tasks[i]] = "pending" => state[tasks[j]] = "pending"

\* The list and its drivers are one queue, although each call has a position of its own
\* in the list, and calls end in the middle of it: a task is begun after those before it
\* have been, and only what was begun ends, once, in whosever hands it is.
Queue == INSTANCE TaskQueue WITH
  Tasks <- Callers,
  queue <- tasks,
  begun <- Cardinality({i \in DOMAIN tasks : state[tasks[i]] # "pending"}),
  ended <- [t \in Callers |-> IF state[t] \in {"done", "failed"} THEN state[t] ELSE "none"]

ImplementsQueue == Queue!Spec

\* A task that nobody has begun, although its call is over, belongs to a call that ended
\* by an exception: whatever position it came to, a call that reports an outcome has
\* seen to it that its task was begun.
LeftPendingByErrorsOnly ==
  \A r \in Callers :
    pc[r] \in {"reflect", "over"} /\ state[r] = "pending"
      => outcome[r] \in {"raised", "cancelled"}

\* No call waits for another, not even for a task that a cancelled call has left
\* running for ever: every call returns or raises.
EveryCallEnds == \A r \in Callers : pc[r] # "idle" ~> pc[r] = "over"

=============================================================================
