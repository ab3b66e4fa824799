--------------------------- MODULE AutonomousLoop ---------------------------
(***************************************************************************)
(* The bounded execution loop of runtime/autonomous_loop.py on the durable *)
(* store, with the checkpoints of runtime/recovery_checkpoint.py.          *)
(*                                                                         *)
(* A run is one call of run() or resume().  run() has an execution id of   *)
(* its own, but nothing tells whoever recovers after a restart that the    *)
(* run is still alive (run() takes no lease), so several runs may work on  *)
(* one execution, in one process or in several.  Between two store calls,  *)
(* and for as long as the executor or the planner is awaited, the other    *)
(* runs go on.                                                             *)
(*                                                                         *)
(* Of its copy of the state a run uses the version only: checkpoints are   *)
(* compare-and-set against it.  _transition is not: it lets the store read *)
(* the record again and takes over the version it finds.                   *)
(***************************************************************************)
EXTENDS ExecutionStore

CONSTANTS
  Runs,        \* calls of run() and resume()
  Budget,      \* max_attempts of the ReplanningPolicy each run has
  MaxResumes   \* bound: calls of resume()

ASSUME LoopAssumption ==
  /\ Budget \in [Runs -> Nat \ {0}]
  /\ MaxResumes \in Nat

VARIABLES
  pc,       \* where each run has got to
  exec,     \* the execution it works on
  attempt,  \* its attempt counter
  seen,     \* the version its copy of the state has
  outcome,  \* history: what its last call returned, or "none"
  resumes   \* calls of resume() so far

vars == <<store, pc, exec, attempt, seen, outcome, resumes>>

Stages == {"idle", "begin", "enter", "checkpoint", "execute", "complete", "fail",
           "retry", "plan", "rerun"}

TypeOK ==
  /\ StoreTypeOK
  /\ pc \in [Runs -> Stages]
  /\ exec \in [Runs -> Executions]
  /\ attempt \in [Runs -> Nat]
  /\ seen \in [Runs -> Nat]
  /\ outcome \in [Runs -> {"none", "completed", "failed"}]
  /\ resumes \in 0..MaxResumes

Status(r) == store[exec[r]].status
Version(r) == store[exec[r]].version

----------------------------------------------------------------------------
Init ==
  /\ StoreInit
  /\ pc = [r \in Runs |-> "idle"]
  /\ exec \in [Runs -> Executions]
  /\ attempt = [r \in Runs |-> 0]
  /\ seen = [r \in Runs |-> 0]
  /\ outcome = [r \in Runs |-> "none"]
  /\ resumes = 0

Goto(r, stage) == pc' = [pc EXCEPT ![r] = stage]

\* The record is replaced, and the run's copy has the version just written.
Write(r, status, n) ==
  /\ WriteState(exec[r], status, n)
  /\ seen' = [seen EXCEPT ![r] = Version(r) + 1]

\* The call is over, and its locals are gone.
End(r) ==
  /\ Goto(r, "idle")
  /\ seen' = [seen EXCEPT ![r] = 0]
  /\ attempt' = [attempt EXCEPT ![r] = 0]

\* It ends by an exception: nothing is written.
Raise(r) == End(r) /\ UNCHANGED <<store, exec, outcome, resumes>>

\* run(): a new execution is saved as pending and goes to its first attempt
\* without the transition that a resumed one makes.
Run(r, e) ==
  /\ pc[r] = "idle"
  /\ Create(e)
  /\ exec' = [exec EXCEPT ![r] = e]
  /\ seen' = [seen EXCEPT ![r] = 1]
  /\ attempt' = [attempt EXCEPT ![r] = 1]
  /\ outcome' = [outcome EXCEPT ![r] = "none"]
  /\ Goto(r, "checkpoint")
  /\ UNCHANGED resumes

\* resume(): the first read of the record gives the attempt to start from.
Resume(r, e) ==
  /\ pc[r] = "idle"
  /\ resumes < MaxResumes
  /\ Exists(e) /\ store[e].status \in {"running", "retrying"}
  /\ resumes' = resumes + 1
  /\ exec' = [exec EXCEPT ![r] = e]
  /\ attempt' = [attempt EXCEPT ![r] = IF store[e].attempt > 1 THEN store[e].attempt ELSE 1]
  /\ outcome' = [outcome EXCEPT ![r] = "none"]
  /\ Goto(r, "begin")
  /\ UNCHANGED <<store, seen>>

\* _run_from_state reads the record again, and refuses a status that has become final.
Begin(r) ==
  /\ pc[r] = "begin"
  /\ \/ /\ Status(r) \in {"running", "retrying"}
        /\ seen' = [seen EXCEPT ![r] = Version(r)]
        /\ Goto(r, IF Status(r) = "running" THEN "checkpoint" ELSE "enter")
        /\ UNCHANGED <<store, exec, attempt, outcome, resumes>>
     \/ Status(r) \notin {"running", "retrying"} /\ Raise(r)

\* _transition(state, status, attempt=n): whatever version there is by now, the
\* graph alone decides.
LoopTransition(r, status, n, next) ==
  IF CanTransition(Status(r), status)
  THEN /\ Write(r, status, n)
       /\ attempt' = [attempt EXCEPT ![r] = n]
       /\ Goto(r, next)
       /\ UNCHANGED <<exec, outcome, resumes>>
  ELSE Raise(r)

Enter(r) == pc[r] = "enter" /\ LoopTransition(r, "running", attempt[r], "checkpoint")

\* compare_and_set(state, state.version) can go through.
Current(r, status) == Version(r) = seen[r] /\ CanTransition(Status(r), status)

\* Mutant: nothing is written when the record says running already.
Checkpoint_Lazy(r) ==
  /\ pc[r] = "checkpoint"
  /\ attempt[r] <= Budget[r]
  /\ IF Current(r, "running")
     THEN /\ IF Status(r) = "running" THEN UNCHANGED <<store, seen>>
                                      ELSE Write(r, "running", attempt[r])
          /\ Goto(r, "execute")
          /\ UNCHANGED <<exec, attempt, outcome, resumes>>
     ELSE Raise(r)

\* _checkpoint_running at the top of each attempt.
Checkpoint(r) ==
  /\ pc[r] = "checkpoint"
  /\ attempt[r] <= Budget[r]
  /\ IF Current(r, "running")
     THEN /\ Write(r, "running", attempt[r])
          /\ Goto(r, "execute")
          /\ UNCHANGED <<exec, attempt, outcome, resumes>>
     ELSE Raise(r)

\* A resumed execution that has no attempt left under this run's policy.
Exhausted(r) ==
  /\ pc[r] = "checkpoint"
  /\ attempt[r] > Budget[r]
  /\ Goto(r, "fail")
  /\ UNCHANGED <<store, seen, exec, attempt, outcome, resumes>>

\* The executor has answered: all calls went well, or one failed and the policy
\* decides by the attempt number.
Execute(r) ==
  /\ pc[r] = "execute"
  /\ \/ Goto(r, "complete")
     \/ Goto(r, IF attempt[r] >= Budget[r] THEN "fail" ELSE "retry")
  /\ UNCHANGED <<store, seen, exec, attempt, outcome, resumes>>

\* Mutant: the checkpoint writes without its version.
Finish_Unversioned(r, status) ==
  IF CanTransition(Status(r), status)
  THEN /\ WriteState(exec[r], status, attempt[r])
       /\ outcome' = [outcome EXCEPT ![r] = status]
       /\ End(r)
       /\ UNCHANGED <<exec, resumes>>
  ELSE Raise(r)

\* Mutant: a conflict is swallowed and the result returned all the same.
Finish_Swallowed(r, status) ==
  /\ IF Current(r, status) THEN WriteState(exec[r], status, attempt[r])
                           ELSE UNCHANGED store
  /\ outcome' = [outcome EXCEPT ![r] = status]
  /\ End(r)
  /\ UNCHANGED <<exec, resumes>>

\* Mutant: after a conflict the checkpoint is tried again, with the same version.
Finish_Again(r, status) ==
  /\ Current(r, status)
  /\ WriteState(exec[r], status, attempt[r])
  /\ outcome' = [outcome EXCEPT ![r] = status]
  /\ End(r)
  /\ UNCHANGED <<exec, resumes>>

\* mark_completed and mark_failed, then the loop returns its LoopResult.
Finish(r, status) ==
  IF Current(r, status)
  THEN /\ WriteState(exec[r], status, attempt[r])
       /\ outcome' = [outcome EXCEPT ![r] = status]
       /\ End(r)
       /\ UNCHANGED <<exec, resumes>>
  ELSE Raise(r)

Complete(r) == pc[r] = "complete" /\ Finish(r, "completed")
Fail(r) == pc[r] = "fail" /\ Finish(r, "failed")

Retry(r) == pc[r] = "retry" /\ LoopTransition(r, "retrying", attempt[r], "plan")

\* The planner has answered.
Replan(r) ==
  /\ pc[r] = "plan"
  /\ Goto(r, "rerun")
  /\ UNCHANGED <<store, seen, exec, attempt, outcome, resumes>>

Rerun(r) == pc[r] = "rerun" /\ LoopTransition(r, "running", attempt[r] + 1, "checkpoint")

\* The executor or the planner raises, the task is cancelled at one of these
\* awaits, or the process dies anywhere.
Interrupt(r) == pc[r] # "idle" /\ Raise(r)

Step(r) ==
  \/ Begin(r) \/ Enter(r) \/ Checkpoint(r) \/ Exhausted(r) \/ Execute(r)
  \/ Complete(r) \/ Fail(r) \/ Retry(r) \/ Replan(r) \/ Rerun(r)

Next ==
  \/ \E r \in Runs, e \in Executions : Run(r, e) \/ Resume(r, e)
  \/ \E r \in Runs : Step(r) \/ Interrupt(r)

Spec == Init /\ [][Next]_vars

\* A run goes on as long as executor and planner answer or raise.
FairSpec == Spec /\ \A r \in Runs : WF_vars(Step(r))

----------------------------------------------------------------------------
(* Properties *)

\* However many runs are at work on an execution, at most one of those past
\* their checkpoint holds the current version: the others cannot finish it.
\* (A run that is out of attempts fails the execution without a checkpoint.)
Finishing(r) ==
  /\ pc[r] \in {"execute", "complete", "fail"} /\ attempt[r] <= Budget[r]
  /\ seen[r] = Version(r)

OneCanFinish ==
  \A q, r \in Runs :
    Finishing(q) /\ Finishing(r) /\ exec[q] = exec[r] => q = r

\* The record of a completed execution, its result with it, is never replaced:
\* the graph allows completed -> completed, so it is the version check of the
\* checkpoints that a late run fails on.
CompletedStays ==
  [][\A e \in Executions :
       store[e].status = "completed" => store'[e] = store[e]]_vars

\* A run that returned "completed" has completed its execution durably, and
\* nobody takes that back.
CompletedIsDurable ==
  \A r \in Runs : outcome[r] = "completed" => store[exec[r]].status = "completed"

\* Runs, resumptions and interruptions change the record by legal transitions.
Lifecycle == INSTANCE ExecutionLifecycle WITH
  status  <- [e \in Executions |-> store[e].status],
  version <- [e \in Executions |-> store[e].version]

ImplementsLifecycle == Lifecycle!Spec

\* Every run comes to its end: the attempts run out.
EveryRunEnds == \A r \in Runs : pc[r] # "idle" ~> pc[r] = "idle"

\* README, reliability invariant 7, which the code does not keep: a loop never
\* writes over a version newer than its copy of the state.
NoStaleOverwrite ==
  [][\A r \in Runs :
       seen'[r] # seen[r] /\ store'[exec[r]] # store[exec[r]] /\ exec'[r] = exec[r]
         => seen[r] = Version(r)]_vars

=============================================================================
