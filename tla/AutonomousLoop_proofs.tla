----------------------- MODULE AutonomousLoop_proofs -----------------------
(***************************************************************************)
(* Proofs about the execution loop: for any number of runs on any number   *)
(* of executions, with any retry budgets, resumed and interrupted at any   *)
(* point.                                                                  *)
(***************************************************************************)
EXTENDS AutonomousLoop, TLAPS

----------------------------------------------------------------------------
(* The inductive invariant *)

\* A record that was never written reads as a pending one.
FreshIsPending ==
  \A e \in Executions : ~ Exists(e) => store[e].status = "pending"

\* A run works on an execution that exists.
HasExecution(r) == pc[r] # "idle" => Exists(exec[r])

\* It has a version to show from its (second) read of the record on, and that is one
\* the record has or had.
HasSeenThePast(r) ==
  /\ pc[r] \in {"idle", "begin"} => seen[r] = 0
  /\ seen[r] <= Version(r)

\* Nobody has seen the completed record: who wrote it has returned, and resume()
\* turns back at the status.
NeverSawCompletion(r) ==
  pc[r] \notin {"idle", "begin"} /\ seen[r] = Version(r) => Status(r) # "completed"

\* A result belongs to a call that is over, and what it says stays true.
ResultIsTrue(r) ==
  /\ outcome[r] # "none" => pc[r] = "idle"
  /\ outcome[r] = "completed" => Status(r) = "completed"

RunInv(r) ==
  HasExecution(r) /\ HasSeenThePast(r) /\ NeverSawCompletion(r) /\ ResultIsTrue(r)

IInv ==
  /\ TypeOK
  /\ FreshIsPending
  /\ \A r \in Runs : RunInv(r)
  /\ OneCanFinish

----------------------------------------------------------------------------
(* Writes *)

\* What a write of the record of e may do: create it as pending, or move it along the
\* lifecycle graph, but never if it is completed.
LegalWrite(e) ==
  \E s \in Statuses, a \in Nat :
    /\ WriteState(e, s, a)
    /\ \/ ~ Exists(e) /\ s = "pending"
       \/ /\ Exists(e) /\ CanTransition(store[e].status, s)
          /\ store[e].status # "completed"

StoreStep == store' = store \/ \E e \in Executions : LegalWrite(e)

\* A write replaces one record by a newer one, which is not a completed one's.
LEMMA Writes ==
  ASSUME StoreTypeOK, FreshIsPending, NEW e \in Executions, LegalWrite(e)
  PROVE  /\ StoreTypeOK'
         /\ store'[e].version = store[e].version + 1 /\ store[e].version \in Nat
         /\ store[e].status # "completed"
         /\ \A f \in Executions \ {e} : store'[f] = store[f]
<1>1. PICK s \in Statuses, a \in Nat :
         /\ WriteState(e, s, a)
         /\ \/ ~ Exists(e) /\ s = "pending"
            \/ Exists(e) /\ CanTransition(store[e].status, s) /\ store[e].status # "completed"
  BY DEF LegalWrite
<1>2. store[e] \in ExecutionState /\ store[e].version \in Nat
  BY DEF StoreTypeOK, ExecutionState
<1>3. store' = [store EXCEPT ![e] =
                  [status |-> s, attempt |-> a, version |-> store[e].version + 1]]
  BY <1>1 DEF WriteState
<1>4. [status |-> s, attempt |-> a, version |-> store[e].version + 1] \in ExecutionState
  BY <1>2 DEF ExecutionState
<1> QED
  BY <1>1, <1>2, <1>3, <1>4 DEF StoreTypeOK, FreshIsPending

\* Whatever is written: versions only grow, a record whose version stays is the same,
\* and a completed record stays.
LEMMA StoreMoves ==
  ASSUME StoreTypeOK, FreshIsPending, StoreStep
  PROVE  /\ StoreTypeOK' /\ FreshIsPending'
         /\ \A e \in Executions :
              /\ store[e].version \in Nat /\ store'[e].version \in Nat
              /\ store[e].version <= store'[e].version
              /\ store[e].version = store'[e].version => store'[e] = store[e]
              /\ store[e].status = "completed" => store'[e] = store[e]
<1>1. CASE store' = store
  BY <1>1 DEF StoreTypeOK, FreshIsPending, Exists, ExecutionState
<1>2. ASSUME NEW e \in Executions, LegalWrite(e)
      PROVE  /\ StoreTypeOK' /\ FreshIsPending'
             /\ \A f \in Executions :
                  /\ store[f].version \in Nat /\ store'[f].version \in Nat
                  /\ store[f].version <= store'[f].version
                  /\ store[f].version = store'[f].version => store'[f] = store[f]
                  /\ store[f].status = "completed" => store'[f] = store[f]
  <2>1. \A f \in Executions : store[f].version \in Nat
    BY DEF StoreTypeOK, ExecutionState
  <2> QED
    BY <1>2, <2>1, Writes DEF FreshIsPending, Exists
<1> QED
  BY <1>1, <1>2 DEF StoreStep

\* The graph has no way out of "completed".
LEMMA Graph ==
  /\ \A s \in {"running", "retrying", "failed"} : ~ CanTransition("completed", s)
  /\ "running" \in Statuses /\ "retrying" \in Statuses /\ "failed" \in Statuses
  /\ "completed" \in Statuses /\ "pending" \in Statuses
  BY DEF CanTransition, Transitions, Statuses

----------------------------------------------------------------------------
(* The steps of the others *)

Local(r) == <<pc[r], exec[r], attempt[r], seen[r], outcome[r]>>

\* A run that does not move keeps what it may rely on, and if it can finish after the
\* step then it could before, and the record has not changed.
LEMMA Bystander ==
  ASSUME IInv, StoreStep, NEW q \in Runs, UNCHANGED Local(q)
  PROVE  RunInv(q)' /\ (Finishing(q)' => Finishing(q) /\ store'[exec[q]] = store[exec[q]])
<1>1. /\ exec[q] \in Executions /\ seen[q] \in Nat
      /\ store[exec[q]].version \in Nat /\ store'[exec[q]].version \in Nat
      /\ store[exec[q]].version <= store'[exec[q]].version
      /\ store[exec[q]].version = store'[exec[q]].version => store'[exec[q]] = store[exec[q]]
      /\ store[exec[q]].status = "completed" => store'[exec[q]] = store[exec[q]]
  BY StoreMoves DEF IInv, TypeOK
<1>2. /\ pc'[q] = pc[q] /\ exec'[q] = exec[q] /\ attempt'[q] = attempt[q]
      /\ seen'[q] = seen[q] /\ outcome'[q] = outcome[q]
  BY DEF Local
<1>3. RunInv(q)
  BY DEF IInv
<1>4. HasExecution(q)' /\ HasSeenThePast(q)'
  BY <1>1, <1>2, <1>3 DEF RunInv, HasExecution, HasSeenThePast, Exists, Version
<1>5. NeverSawCompletion(q)' /\ ResultIsTrue(q)'
  BY <1>1, <1>2, <1>3
  DEF RunInv, HasSeenThePast, NeverSawCompletion, ResultIsTrue, Version, Status
<1>6. Finishing(q)' => Finishing(q) /\ store'[exec[q]] = store[exec[q]]
  BY <1>1, <1>2, <1>3 DEF RunInv, HasSeenThePast, Finishing, Version
<1> QED
  BY <1>4, <1>5, <1>6 DEF RunInv

\* What a step of run r owes to the others: it moves itself alone, writes legally, and
\* can finish after it only if it could before, or has just written the record.
StepOf(r) ==
  /\ \A q \in Runs \ {r} : UNCHANGED Local(q)
  /\ StoreStep
  /\ RunInv(r)'
  /\ Finishing(r)' => LegalWrite(exec'[r]) \/ (Finishing(r) /\ exec'[r] = exec[r])

\* With that the invariant is kept.
LEMMA Rely ==
  ASSUME IInv, TypeOK', NEW r \in Runs, StepOf(r)
  PROVE  IInv'
<1>1. FreshIsPending'
  BY StoreMoves DEF IInv, TypeOK, StepOf
<1>2. \A q \in Runs : RunInv(q)'
  BY Bystander DEF StepOf
<1>3. ASSUME NEW q \in Runs \ {r}, Finishing(q)', Finishing(r)', exec'[q] = exec'[r]
      PROVE  FALSE
  <2>1. Finishing(q) /\ store'[exec[q]] = store[exec[q]] /\ exec'[q] = exec[q]
    BY <1>3, Bystander DEF StepOf, Local
  <2>2. CASE Finishing(r) /\ exec'[r] = exec[r]
    BY <1>3, <2>1, <2>2 DEF IInv, OneCanFinish
  <2>3. CASE LegalWrite(exec'[r])
    <3>1. exec'[r] \in Executions
      BY DEF TypeOK
    <3>2. /\ store'[exec'[r]].version = store[exec'[r]].version + 1
          /\ store[exec'[r]].version \in Nat
      BY <2>3, <3>1, Writes DEF IInv, TypeOK
    <3> QED
      BY <1>3, <2>1, <3>2
  <2> QED
    BY <1>3, <2>2, <2>3 DEF StepOf
<1>4. ASSUME NEW p \in Runs, NEW q \in Runs, p # q,
             Finishing(p)', Finishing(q)', exec'[p] = exec'[q]
      PROVE  FALSE
  <2>1. CASE p = r \/ q = r
    BY <1>3, <1>4, <2>1
  <2>2. CASE p # r /\ q # r
    <3>1. /\ Finishing(p) /\ exec'[p] = exec[p]
          /\ Finishing(q) /\ exec'[q] = exec[q]
      BY <1>4, <2>2, Bystander DEF StepOf, Local
    <3> QED
      BY <1>4, <3>1 DEF IInv, OneCanFinish
  <2> QED
    BY <2>1, <2>2
<1> QED
  BY <1>1, <1>2, <1>4 DEF IInv, OneCanFinish

----------------------------------------------------------------------------
(* The steps of a run *)

\* Values the steps are about.
LEMMA Values ==
  ASSUME TypeOK, NEW r \in Runs
  PROVE  /\ exec[r] \in Executions /\ seen[r] \in Nat /\ attempt[r] \in Nat
         /\ store[exec[r]] \in ExecutionState
         /\ Status(r) \in Statuses /\ Version(r) \in Nat
         /\ Budget[r] \in Nat
  BY LoopAssumption DEF TypeOK, StoreTypeOK, ExecutionState, Status, Version

\* A call that ends by an exception.
LEMMA RaiseStep ==
  ASSUME IInv, NEW r \in Runs, Raise(r)
  PROVE  TypeOK' /\ StepOf(r)
<1>1. TypeOK'
  BY DEF IInv, TypeOK, StoreTypeOK, Raise, End, Goto, Stages
<1>2. pc'[r] = "idle" /\ seen'[r] = 0 /\ store' = store /\ exec' = exec /\ outcome' = outcome
  BY DEF IInv, TypeOK, Raise, End, Goto
<1>3. RunInv(r)'
  <2>1. Version(r)' \in Nat
    BY <1>1, Values, <1>2 DEF IInv, Version
  <2> QED
    BY <1>2, <2>1
    DEF IInv, RunInv, HasExecution, HasSeenThePast, NeverSawCompletion, ResultIsTrue,
        Status, Version
<1>4. \A q \in Runs \ {r} : UNCHANGED Local(q)
  BY <1>2 DEF IInv, TypeOK, Raise, End, Goto, Local
<1> QED
  BY <1>1, <1>2, <1>3, <1>4 DEF StepOf, StoreStep, Finishing

\* run() on a new execution.
LEMMA RunStep ==
  ASSUME IInv, NEW r \in Runs, NEW e \in Executions, Run(r, e)
  PROVE  TypeOK' /\ StepOf(r)
<1>1. LegalWrite(e)
  BY Graph DEF Run, Create, LegalWrite
<1>2. StoreTypeOK' /\ store'[e].version = store[e].version + 1 /\ store[e].version \in Nat
  BY <1>1, Writes DEF IInv, TypeOK
<1>3. TypeOK'
  BY <1>2 DEF IInv, TypeOK, Run, Goto, Stages
<1>4. /\ pc'[r] = "checkpoint" /\ exec'[r] = e /\ seen'[r] = 1 /\ outcome'[r] = "none"
      /\ \A q \in Runs \ {r} : UNCHANGED Local(q)
  BY DEF IInv, TypeOK, Run, Goto, Local
<1>5. store'[e].version = 1 /\ store'[e].status = "pending"
  BY <1>2 DEF Run, Create, Exists, WriteState, IInv, TypeOK, StoreTypeOK
<1>6. RunInv(r)'
  BY <1>4, <1>5
  DEF RunInv, HasExecution, Exists, HasSeenThePast, NeverSawCompletion, ResultIsTrue,
      Status, Version
<1> QED
  BY <1>1, <1>3, <1>4, <1>6 DEF StepOf, StoreStep, Finishing

\* resume(), up to its second read.
LEMMA ResumeStep ==
  ASSUME IInv, NEW r \in Runs, NEW e \in Executions, Resume(r, e)
  PROVE  TypeOK' /\ StepOf(r)
<1>1. store[e] \in ExecutionState /\ store[e].attempt \in Nat /\ store[e].version \in Nat
  BY DEF IInv, TypeOK, StoreTypeOK, ExecutionState
<1>2. TypeOK'
  BY <1>1, LoopAssumption DEF IInv, TypeOK, StoreTypeOK, Resume, Goto, Stages
<1>3. /\ pc'[r] = "begin" /\ exec'[r] = e /\ seen' = seen /\ outcome'[r] = "none"
      /\ store' = store /\ pc[r] = "idle" /\ Exists(e)
      /\ \A q \in Runs \ {r} : UNCHANGED Local(q)
  BY DEF IInv, TypeOK, Resume, Goto, Local
<1>4. seen[r] = 0
  BY <1>3 DEF IInv, RunInv, HasSeenThePast
<1>5. RunInv(r)'
  BY <1>1, <1>3, <1>4
  DEF RunInv, HasExecution, Exists, HasSeenThePast, NeverSawCompletion, ResultIsTrue,
      Status, Version
<1> QED
  BY <1>2, <1>3, <1>5 DEF StepOf, StoreStep, Finishing

\* A step that only goes on to another stage; beyond execute it may only come from
\* there, or with no attempts left.
LEMMA GoStep ==
  ASSUME IInv, NEW r \in Runs, NEW s \in Stages \ {"idle", "begin"}, Goto(r, s),
         pc[r] \notin {"idle", "begin"},
         s \in {"execute", "complete", "fail"} => pc[r] = "execute" \/ attempt[r] > Budget[r],
         UNCHANGED <<store, seen, exec, attempt, outcome, resumes>>
  PROVE  TypeOK' /\ StepOf(r)
<1>1. TypeOK'
  BY DEF IInv, TypeOK, StoreTypeOK, Goto
<1>2. pc'[r] = s /\ \A q \in Runs \ {r} : UNCHANGED Local(q)
  BY DEF IInv, TypeOK, Goto, Local
<1>3. RunInv(r)'
  BY <1>2
  DEF IInv, RunInv, HasExecution, Exists, HasSeenThePast, NeverSawCompletion, ResultIsTrue,
      Status, Version
<1>4. Finishing(r)' => Finishing(r)
  BY <1>2, Values DEF IInv, Finishing, Version
<1> QED
  BY <1>1, <1>2, <1>3, <1>4 DEF StepOf, StoreStep

\* The second read.
LEMMA BeginStep ==
  ASSUME IInv, NEW r \in Runs, Begin(r)
  PROVE  TypeOK' /\ StepOf(r)
<1>1. CASE Raise(r)
  BY <1>1, RaiseStep
<1>2. CASE /\ Status(r) \in {"running", "retrying"}
           /\ seen' = [seen EXCEPT ![r] = Version(r)]
           /\ Goto(r, IF Status(r) = "running" THEN "checkpoint" ELSE "enter")
           /\ UNCHANGED <<store, exec, attempt, outcome, resumes>>
  <2>1. TypeOK'
    BY <1>2, Values DEF IInv, TypeOK, StoreTypeOK, Goto, Stages
  <2>2. /\ pc'[r] \in {"checkpoint", "enter"} /\ seen'[r] = Version(r)
        /\ \A q \in Runs \ {r} : UNCHANGED Local(q)
    BY <1>2 DEF IInv, TypeOK, Goto, Local
  <2>3. RunInv(r) /\ pc[r] = "begin"
    BY DEF IInv, Begin
  <2>4. RunInv(r)'
    BY <1>2, <2>2, <2>3, Values
    DEF IInv, RunInv, HasExecution, Exists, HasSeenThePast, NeverSawCompletion, ResultIsTrue,
        Status, Version
  <2> QED
    BY <1>2, <2>1, <2>2, <2>4 DEF StepOf, StoreStep, Finishing
<1> QED
  BY <1>1, <1>2 DEF Begin

\* A write after which the run goes on.
LEMMA WriteStep ==
  ASSUME IInv, NEW r \in Runs, NEW s \in {"running", "retrying"}, NEW n \in Nat, NEW a \in Nat,
         NEW next \in Stages \ {"idle", "begin"},
         pc[r] # "idle", CanTransition(Status(r), s), Write(r, s, a), Goto(r, next),
         attempt' = [attempt EXCEPT ![r] = n], UNCHANGED <<exec, outcome, resumes>>
  PROVE  TypeOK' /\ StepOf(r)
<1>1. RunInv(r) /\ Exists(exec[r])
  BY DEF IInv, RunInv, HasExecution
<1>2. LegalWrite(exec[r])
  BY <1>1, Graph DEF Write, LegalWrite, Status
<1>3. StoreTypeOK' /\ store'[exec[r]].version = Version(r) + 1 /\ Version(r) \in Nat
  BY <1>2, Values, Writes DEF IInv, TypeOK, Version
<1>4. TypeOK'
  BY <1>3 DEF IInv, TypeOK, Write, Goto
<1>5. /\ pc'[r] = next /\ seen'[r] = Version(r) + 1 /\ exec' = exec /\ outcome' = outcome
      /\ \A q \in Runs \ {r} : UNCHANGED Local(q)
  BY DEF IInv, TypeOK, Write, Goto, Local
<1>6. store'[exec[r]].status = s
  BY Values DEF IInv, TypeOK, StoreTypeOK, Write, WriteState
<1>7. RunInv(r)'
  BY <1>1, <1>3, <1>5, <1>6
  DEF RunInv, HasExecution, Exists, HasSeenThePast, NeverSawCompletion, ResultIsTrue,
      Status, Version
<1> QED
  BY <1>2, <1>4, <1>5, <1>7, Values DEF IInv, StepOf, StoreStep

\* A transition is made, or the graph refuses it.
LEMMA TransitionStep ==
  ASSUME IInv, NEW r \in Runs, NEW s \in {"running", "retrying"}, NEW n \in Nat,
         NEW next \in Stages \ {"idle", "begin"}, pc[r] # "idle", LoopTransition(r, s, n, next)
  PROVE  TypeOK' /\ StepOf(r)
<1>1. CASE CanTransition(Status(r), s)
  BY <1>1, WriteStep DEF LoopTransition
<1>2. CASE ~ CanTransition(Status(r), s)
  BY <1>2, RaiseStep DEF LoopTransition
<1> QED
  BY <1>1, <1>2

\* The checkpoint of an attempt.
LEMMA CheckpointStep ==
  ASSUME IInv, NEW r \in Runs, Checkpoint(r)
  PROVE  TypeOK' /\ StepOf(r)
<1>1. CASE Current(r, "running")
  <2>1. attempt' = [attempt EXCEPT ![r] = attempt[r]]
    BY <1>1 DEF Checkpoint, IInv, TypeOK
  <2>2. "execute" \in Stages \ {"idle", "begin"} /\ attempt[r] \in Nat
    BY Values DEF IInv, Stages
  <2>3. /\ Write(r, "running", attempt[r]) /\ Goto(r, "execute") /\ pc[r] # "idle"
        /\ CanTransition(Status(r), "running") /\ UNCHANGED <<exec, outcome, resumes>>
    BY <1>1 DEF Checkpoint, Current
  <2> QED
    BY <2>1, <2>2, <2>3, WriteStep
<1>2. CASE ~ Current(r, "running")
  BY <1>2, RaiseStep DEF Checkpoint
<1> QED
  BY <1>1, <1>2

\* The last write of a run.
LEMMA FinishStep ==
  ASSUME IInv, NEW r \in Runs, NEW s \in {"completed", "failed"}, pc[r] \notin {"idle", "begin"},
         Finish(r, s)
  PROVE  TypeOK' /\ StepOf(r)
<1>1. CASE Current(r, s)
  <2>1. /\ CanTransition(Status(r), s) /\ seen[r] = Version(r)
        /\ WriteState(exec[r], s, attempt[r]) /\ outcome' = [outcome EXCEPT ![r] = s] /\ End(r)
        /\ UNCHANGED <<exec, resumes>>
    BY <1>1 DEF Finish, Current
  <2>2. Exists(exec[r]) /\ Status(r) # "completed"
    BY <2>1 DEF IInv, RunInv, HasExecution, NeverSawCompletion
  <2>3. LegalWrite(exec[r])
    BY <2>1, <2>2, Values, Graph DEF IInv, LegalWrite, Status
  <2>4. StoreTypeOK' /\ store'[exec[r]].version = Version(r) + 1 /\ Version(r) \in Nat
    BY <2>3, Values, Writes DEF IInv, TypeOK, Version
  <2>5. TypeOK'
    BY <2>1, <2>4 DEF IInv, TypeOK, End, Goto, Stages
  <2>6. /\ pc'[r] = "idle" /\ seen'[r] = 0 /\ outcome'[r] = s
        /\ \A q \in Runs \ {r} : UNCHANGED Local(q)
    BY <2>1 DEF IInv, TypeOK, End, Goto, Local
  <2>7. store'[exec[r]].status = s
    BY <2>1, Values DEF IInv, TypeOK, StoreTypeOK, WriteState
  <2>8. RunInv(r)'
    BY <2>1, <2>4, <2>6, <2>7
    DEF RunInv, HasExecution, HasSeenThePast, NeverSawCompletion, ResultIsTrue, Status, Version
  <2> QED
    BY <2>1, <2>3, <2>5, <2>6, <2>8, Values DEF IInv, StepOf, StoreStep, Finishing
<1>2. CASE ~ Current(r, s)
  BY <1>2, RaiseStep DEF Finish
<1> QED
  BY <1>1, <1>2

\* Every step of a run.
LEMMA RunSteps ==
  ASSUME IInv, NEW r \in Runs, Step(r) \/ Interrupt(r)
  PROVE  TypeOK' /\ StepOf(r)
<1>0. /\ attempt[r] \in Nat /\ attempt[r] + 1 \in Nat /\ Budget[r] \in Nat
      /\ {"checkpoint", "plan", "execute", "complete", "fail", "retry", "rerun"}
           \subseteq Stages \ {"idle", "begin"}
  BY Values DEF IInv, Stages
<1>1. CASE Begin(r)
  BY <1>1, BeginStep
<1>2. CASE Enter(r)
  BY <1>0, <1>2, TransitionStep DEF Enter
<1>3. CASE Checkpoint(r)
  BY <1>3, CheckpointStep
<1>4. CASE Exhausted(r)
  BY <1>0, <1>4, GoStep DEF Exhausted
<1>5. CASE Execute(r)
  BY <1>0, <1>5, GoStep DEF Execute
<1>6. CASE Complete(r)
  BY <1>6, FinishStep DEF Complete
<1>7. CASE Fail(r)
  BY <1>7, FinishStep DEF Fail
<1>8. CASE Retry(r)
  BY <1>0, <1>8, TransitionStep DEF Retry
<1>9. CASE Replan(r)
  BY <1>0, <1>9, GoStep DEF Replan
<1>10. CASE Rerun(r)
  BY <1>0, <1>10, TransitionStep DEF Rerun
<1>11. CASE Interrupt(r)
  BY <1>11, RaiseStep DEF Interrupt
<1> QED
  BY <1>1, <1>2, <1>3, <1>4, <1>5, <1>6, <1>7, <1>8, <1>9, <1>10, <1>11 DEF Step

\* Every step of the loop.
LEMMA Steps ==
  ASSUME IInv, [Next]_vars
  PROVE  UNCHANGED vars \/ (TypeOK' /\ \E r \in Runs : StepOf(r))
<1>1. ASSUME NEW r \in Runs, NEW e \in Executions, Run(r, e) \/ Resume(r, e)
      PROVE  TypeOK' /\ StepOf(r)
  BY <1>1, RunStep, ResumeStep
<1> QED
  BY <1>1, RunSteps DEF Next

LEMMA InvInit == Init => IInv
  BY LoopAssumption
  DEF Init, StoreInit, IInv, TypeOK, StoreTypeOK, ExecutionState, Statuses, Stages,
      FreshIsPending, RunInv, HasExecution, HasSeenThePast, NeverSawCompletion, ResultIsTrue,
      OneCanFinish, Finishing, Version, Status

LEMMA InvStep == IInv /\ [Next]_vars => IInv'
<1> SUFFICES ASSUME IInv, [Next]_vars PROVE IInv'
  OBVIOUS
<1>1. CASE UNCHANGED vars
  BY <1>1
  DEF vars, IInv, TypeOK, StoreTypeOK, FreshIsPending, Exists, RunInv, HasExecution,
      HasSeenThePast, NeverSawCompletion, ResultIsTrue, OneCanFinish, Finishing, Version, Status
<1>2. CASE TypeOK' /\ \E r \in Runs : StepOf(r)
  BY <1>2, Rely
<1> QED
  BY <1>1, <1>2, Steps

LEMMA Invariance == Spec => []IInv
  BY InvInit, InvStep, PTL DEF Spec

----------------------------------------------------------------------------
(* Results *)

\* The types of the module.
THEOREM TypeCorrectness == Spec => []TypeOK
<1>1. IInv => TypeOK
  BY DEF IInv
<1> QED
  BY Invariance, <1>1, PTL

\* However many runs were started or resumed on an execution, with whatever budgets,
\* one of them at most is past its checkpoint with the current version.
THEOREM SoleFinisher == Spec => []OneCanFinish
<1>1. IInv => OneCanFinish
  BY DEF IInv
<1> QED
  BY Invariance, <1>1, PTL

\* A result that says "completed" is durable.
THEOREM DurableResults == Spec => []CompletedIsDurable
<1>1. IInv => CompletedIsDurable
  BY DEF IInv, RunInv, ResultIsTrue, CompletedIsDurable, Status
<1> QED
  BY Invariance, <1>1, PTL

\* No late run, resumption or interruption replaces the record of a completed execution.
THEOREM CompletionIsFinal == Spec => CompletedStays
<1>1. IInv /\ [Next]_vars =>
        [\A e \in Executions : store[e].status = "completed" => store'[e] = store[e]]_vars
  BY Steps, StoreMoves DEF IInv, TypeOK, StepOf
<1> QED
  BY Invariance, <1>1, PTL DEF Spec, CompletedStays

\* A legal write is a step of the abstract record.
LEMMA LifecycleStep ==
  ASSUME StoreTypeOK, FreshIsPending, StoreStep
  PROVE  [Lifecycle!Next]_(Lifecycle!lifecycleVars)
<1>1. CASE store' = store
  BY <1>1 DEF Lifecycle!lifecycleVars
<1>2. ASSUME NEW e \in Executions, LegalWrite(e)
      PROVE  Lifecycle!Next
  <2>1. PICK s \in Statuses, a \in Nat :
           /\ WriteState(e, s, a)
           /\ \/ ~ Exists(e) /\ s = "pending"
              \/ Exists(e) /\ CanTransition(store[e].status, s)
    BY <1>2 DEF LegalWrite
  <2>2. /\ store[e].version \in Nat
        /\ store' = [store EXCEPT ![e] =
                       [status |-> s, attempt |-> a, version |-> store[e].version + 1]]
    BY <2>1 DEF StoreTypeOK, ExecutionState, WriteState
  <2>3. \A x \in Executions :
          /\ store'[x].status = IF x = e THEN s ELSE store[x].status
          /\ store'[x].version = IF x = e THEN store[x].version + 1 ELSE store[x].version
    BY <2>2 DEF StoreTypeOK
  <2>4. CASE ~ Exists(e) /\ s = "pending"
    <3>1. store[e].version = 0 /\ store[e].status = "pending"
      BY <2>2, <2>4 DEF FreshIsPending, Exists
    <3>2. \A x \in Executions : store'[x].status = store[x].status
      BY <2>3, <2>4, <3>1
    <3>3. \A x \in Executions : store'[x].version = IF x = e THEN 1 ELSE store[x].version
      BY <2>3, <3>1
    <3>4. Lifecycle!Create(e)
      BY <3>1, <3>2, <3>3 DEF Lifecycle!Create
    <3> QED
      BY <3>4 DEF Lifecycle!Next
  <2>5. CASE Exists(e) /\ CanTransition(store[e].status, s)
    BY <2>3, <2>5
    DEF Exists, Lifecycle!Next, Lifecycle!Move, Lifecycle!CanTransition, Lifecycle!Transitions,
        CanTransition, Transitions, Lifecycle!Statuses, Statuses
  <2> QED
    BY <2>1, <2>4, <2>5
<1> QED
  BY <1>1, <1>2 DEF StoreStep

\* What the loop does to the record is what the record promises to its readers.
THEOREM Refinement == Spec => ImplementsLifecycle
<1>1. Init => Lifecycle!Init
  BY DEF Init, StoreInit, Lifecycle!Init
<1>2. IInv /\ [Next]_vars => [Lifecycle!Next]_(Lifecycle!lifecycleVars)
  <2>1. UNCHANGED vars => UNCHANGED Lifecycle!lifecycleVars
    BY DEF vars, Lifecycle!lifecycleVars
  <2> QED
    BY <2>1, Steps, LifecycleStep DEF IInv, TypeOK, StepOf
<1> QED
  BY Invariance, <1>1, <1>2, PTL DEF Spec, Lifecycle!Spec, ImplementsLifecycle

=============================================================================
