---------------------------- MODULE PlanExecution ----------------------------
(***************************************************************************)
(* What the loop of module AutonomousLoop executes: the plan, whose calls  *)
(* AgentExecutor (runtime/agent_executor.py) makes one after the other     *)
(* through a ToolExecutor (runtime/tool_executor.py) that has no store of  *)
(* intents: it remembers results in memory and, if it was given one, in    *)
(* the registry of runtime/tool_idempotency_store.py.                      *)
(*                                                                         *)
(* A plan is carried out from its first call at every attempt and by every *)
(* run that resumes the execution: what was done before is found again     *)
(* under the call's idempotency key, or done again.  Each run has a        *)
(* process, and so an executor, of its own.                                *)
(***************************************************************************)
EXTENDS AutonomousLoop, FiniteSets, Sequences

CONSTANTS
  Calls,       \* tools with their arguments
  CallIds,     \* ids that planners give to calls
  GivenKeys,   \* idempotency keys that they give
  NoName,      \* a step without an id, or without a key
  Plans,       \* what planners answer
  Retries,     \* retries of the AgentExecutor
  Durable,     \* does the ToolExecutor have a registry of results?
  NoResult     \* nothing is remembered under a key

\* A step of a plan.  Nothing keeps planners from giving an id or a key to several calls.
PlanStep == [call : Calls, id : CallIds \union {NoName}, key : GivenKeys \union {NoName}]

ASSUME PlanAssumption ==
  /\ Runs # {} /\ IsFiniteSet(Runs)
  /\ Plans # {} /\ Plans \subseteq Seq(PlanStep) /\ <<>> \notin Plans
  /\ Retries \in Nat
  /\ Durable \in BOOLEAN

VARIABLES
  planOf,    \* the plan in the record of each execution
  plan,      \* the plan each run is at
  index,     \* the step of it that is next
  step,      \* where its call has got to
  tries,     \* retries it has had
  got,       \* what its tool has returned
  failed,    \* has a call of the plan failed at this attempt?
  cache,     \* results each run's executor keeps in memory
  stored,    \* the registry of results
  succeeded, \* history: calls made under each key that had their effect and said ok
  late       \* history: effects under each key after a result was stored for it

callVars == <<index, step, tries, got, failed>>
planVars == <<planOf, plan, callVars, cache, stored, succeeded, late>>

\* step["idempotency_key"], or else f"{execution_id}:{call_id or index}".
KeyOf(e, p, i) ==
  IF p[i].key # NoName THEN p[i].key
  ELSE <<e, IF p[i].id # NoName THEN p[i].id ELSE i>>

\* The call that is made: call_id is the step's, or tells its position.
ToolCall(p, i) ==
  [does |-> p[i].call, id |-> p[i].id, at |-> IF p[i].id # NoName THEN 0 ELSE i]

Keys == UNION {{KeyOf(e, p, i) : e \in Executions, i \in DOMAIN p} : p \in Plans}
ToolCalls == UNION {{ToolCall(p, i) : i \in DOMAIN p} : p \in Plans}

\* What planners have given this key to.
CallsUnder(k) ==
  UNION {{p[i].call : i \in {j \in DOMAIN p : \E e \in Executions : KeyOf(e, p, j) = k}} :
         p \in Plans}

Results == [call : ToolCalls, outcome : {"ok", "failed", "ambiguous", "retryable"}]

ASSUME NoResultAssumption == NoResult \notin Results

\* "perform": the tool is about to have its effect.
PlanTypeOK ==
  /\ TypeOK
  /\ planOf \in [Executions -> Plans]
  /\ plan \in [Runs -> Plans]
  /\ index \in [Runs -> Nat \ {0}]
  /\ step \in [Runs -> {"ask", "perform", "performed", "put"}]
  /\ tries \in [Runs -> 0..Retries]
  /\ got \in [Runs -> {"none", "ok", "failed"}]
  /\ failed \in [Runs -> BOOLEAN]
  /\ cache \in [Runs -> [Keys -> Results \union {NoResult}]]
  /\ stored \in [Keys -> Results \union {NoResult}]
  /\ succeeded \in [Keys -> SUBSET Calls]
  /\ late \in [Keys -> Nat]

Call(r) == ToolCall(plan[r], index[r])
Key(r) == KeyOf(exec[r], plan[r], index[r])
Cached(r) == cache[r][Key(r)]
Stored(r) == stored[Key(r)]

\* A result in memory is an answer, whatever call it is of, unless it is to be retried.
Remembered(r) == Cached(r) # NoResult /\ Cached(r).outcome # "retryable"

StoredAnother(r) == Stored(r) # NoResult /\ Stored(r).call # Call(r)

Result(r, o) == [call |-> Call(r), outcome |-> o]

----------------------------------------------------------------------------
Nothing == [k \in Keys |-> NoResult]

\* Plans are set before they are used: which they are here does not matter.
PlanInit ==
  /\ Init
  /\ planOf = [e \in Executions |-> CHOOSE p \in Plans : TRUE]
  /\ plan = [r \in Runs |-> CHOOSE p \in Plans : TRUE]
  /\ index = [r \in Runs |-> 1]
  /\ step = [r \in Runs |-> "ask"]
  /\ tries = [r \in Runs |-> 0]
  /\ got = [r \in Runs |-> "none"]
  /\ failed = [r \in Runs |-> FALSE]
  /\ cache = [r \in Runs |-> Nothing]
  /\ stored = Nothing
  /\ succeeded = [k \in Keys |-> {}]
  /\ late = [k \in Keys |-> 0]

\* The executor's locals are gone, or not there yet.
Afresh(r) ==
  /\ index' = [index EXCEPT ![r] = 1]
  /\ step' = [step EXCEPT ![r] = "ask"]
  /\ tries' = [tries EXCEPT ![r] = 0]
  /\ got' = [got EXCEPT ![r] = "none"]
  /\ failed' = [failed EXCEPT ![r] = FALSE]

----------------------------------------------------------------------------
(* AgentExecutor.execute and _execute_with_retry *)

Goes(r, s) == step' = [step EXCEPT ![r] = s]

\* The call is answered, well or not; whatever the answer, the next one follows.
Answered(r, o) ==
  /\ index' = [index EXCEPT ![r] = @ + 1]
  /\ Goes(r, "ask")
  /\ tries' = [tries EXCEPT ![r] = 0]
  /\ got' = [got EXCEPT ![r] = "none"]
  /\ failed' = [failed EXCEPT ![r] = @ \/ o # "ok"]

Remember(r, result) == cache' = [cache EXCEPT ![r][Key(r)] = result]

\* ToolExecutor.execute looks into its memory, for whatever call has this key, and
\* then into the registry, where the call must be the same.
Ask(r) ==
  /\ pc[r] = "execute" /\ index[r] <= Len(plan[r]) /\ step[r] = "ask"
  /\ IF Remembered(r)
     THEN Answered(r, Cached(r).outcome) /\ UNCHANGED cache
     ELSE IF Stored(r) # NoResult
     THEN /\ ~ StoredAnother(r)
          /\ Remember(r, Stored(r))
          /\ Answered(r, Stored(r).outcome)
     ELSE /\ Goes(r, "perform")
          /\ UNCHANGED <<index, tries, got, failed, cache>>
  /\ UNCHANGED <<vars, planOf, plan, stored, succeeded, late>>

\* The registry has another call's result: the run ends with an exception.
Conflict(r) ==
  /\ pc[r] = "execute" /\ index[r] <= Len(plan[r])
  /\ step[r] = "put" \/ (step[r] = "ask" /\ ~ Remembered(r))
  /\ StoredAnother(r)
  /\ Raise(r)
  /\ Afresh(r)
  /\ UNCHANGED <<planOf, plan, cache, stored, succeeded, late>>

\* The effect in the world.
Perform(r) ==
  /\ pc[r] = "execute" /\ step[r] = "perform"
  /\ Goes(r, "performed")
  /\ late' = [late EXCEPT ![Key(r)] = IF Stored(r) = NoResult THEN @ ELSE @ + 1]
  /\ UNCHANGED <<vars, planOf, plan, index, tries, got, failed, cache, stored, succeeded>>

\* The tool returns a value, or a result of its own that says it failed.
Conclude(r) ==
  /\ pc[r] = "execute" /\ step[r] = "performed"
  /\ \E o \in {"ok", "failed"} :
       /\ succeeded' = IF o = "ok" THEN [succeeded EXCEPT ![Key(r)] = @ \union {Call(r).does}]
                                   ELSE succeeded
       /\ IF Durable
          THEN /\ got' = [got EXCEPT ![r] = o]
               /\ Goes(r, "put")
               /\ UNCHANGED <<index, tries, failed, cache>>
          ELSE /\ Remember(r, Result(r, o))
               /\ Answered(r, o)
  /\ UNCHANGED <<vars, planOf, plan, stored, late>>

\* Mutant: the next try goes to the tool without looking.
BreakOff_Straight(r) ==
  /\ pc[r] = "execute" /\ step[r] \in {"perform", "performed"}
  /\ \E o \in {"ambiguous", "retryable"} :
       /\ Remember(r, Result(r, o))
       /\ IF o = "retryable" /\ tries[r] < Retries
          THEN /\ tries' = [tries EXCEPT ![r] = @ + 1]
               /\ Goes(r, "perform")
               /\ UNCHANGED <<index, got, failed>>
          ELSE Answered(r, o)
  /\ UNCHANGED <<vars, planOf, plan, stored, succeeded, late>>

\* It times out, which is remembered in memory only, or raises, which is retried.
BreakOff(r) ==
  /\ pc[r] = "execute" /\ step[r] \in {"perform", "performed"}
  /\ \E o \in {"ambiguous", "retryable"} :
       /\ Remember(r, Result(r, o))
       /\ IF o = "retryable" /\ tries[r] < Retries
          THEN /\ tries' = [tries EXCEPT ![r] = @ + 1]
               /\ Goes(r, "ask")
               /\ UNCHANGED <<index, got, failed>>
          ELSE Answered(r, o)
  /\ UNCHANGED <<vars, planOf, plan, stored, succeeded, late>>

\* Mutant: the run goes on with its own result, whatever is stored.
Put_Own(r) ==
  /\ pc[r] = "execute" /\ step[r] = "put"
  /\ LET first == IF Stored(r) = NoResult THEN Result(r, got[r]) ELSE Stored(r)
     IN  stored' = [stored EXCEPT ![Key(r)] = first]
  /\ Remember(r, Result(r, got[r]))
  /\ Answered(r, got[r])
  /\ UNCHANGED <<vars, planOf, plan, succeeded, late>>

\* put_if_absent: another run may have stored another outcome meanwhile, and it
\* counts.
Put(r) ==
  /\ pc[r] = "execute" /\ step[r] = "put"
  /\ LET first == IF Stored(r) = NoResult THEN Result(r, got[r]) ELSE Stored(r)
     IN  /\ first.call = Call(r)
         /\ stored' = [stored EXCEPT ![Key(r)] = first]
         /\ Remember(r, first)
         /\ Answered(r, first.outcome)
  /\ UNCHANGED <<vars, planOf, plan, succeeded, late>>

----------------------------------------------------------------------------
(* The loop, with the plans that it reads and writes *)

\* Writes of the record that carry the run's plan.
PlanWritten(r) ==
  planOf' = IF store' = store THEN planOf ELSE [planOf EXCEPT ![exec[r]] = plan[r]]

\* run(): the planner's first answer is written with the record.
Launch(r, e, p) ==
  /\ Run(r, e)
  /\ plan' = [plan EXCEPT ![r] = p]
  /\ planOf' = [planOf EXCEPT ![e] = p]
  /\ UNCHANGED <<callVars, cache, stored, succeeded, late>>

\* resume(): the plan is the record's.
Continue(r, e) ==
  /\ Resume(r, e)
  /\ plan' = [plan EXCEPT ![r] = planOf[e]]
  /\ UNCHANGED <<planOf, callVars, cache, stored, succeeded, late>>

\* Steps of the loop that write the run's plan, or may.
Submit(r) ==
  /\ Enter(r) \/ Checkpoint(r) \/ Rerun(r)
  /\ PlanWritten(r)
  /\ UNCHANGED <<plan, callVars, cache, stored, succeeded, late>>

\* Steps that leave the plan as it is.
Settle(r) ==
  /\ Begin(r) \/ Exhausted(r) \/ Complete(r) \/ Fail(r) \/ Retry(r)
  /\ UNCHANGED planVars

\* All calls are answered: one that failed decides.
Judge(r) ==
  /\ index[r] > Len(plan[r])
  /\ Execute(r)
  /\ pc'[r] = "complete" <=> ~ failed[r]
  /\ Afresh(r)
  /\ UNCHANGED <<planOf, plan, cache, stored, succeeded, late>>

\* The planner's next answer.
PlanAgain(r, p) ==
  /\ Replan(r)
  /\ plan' = [plan EXCEPT ![r] = p]
  /\ UNCHANGED <<planOf, callVars, cache, stored, succeeded, late>>

\* The run is cancelled, or something in it raises: a tool's permission is missing,
\* planner or subscriber fails.
BreakRun(r) ==
  /\ Interrupt(r)
  /\ Afresh(r)
  /\ UNCHANGED <<planOf, plan, cache, stored, succeeded, late>>

\* Its process ends, and the executor's memory with it.
CrashRun(r) ==
  /\ Interrupt(r)
  /\ Afresh(r)
  /\ cache' = [cache EXCEPT ![r] = Nothing]
  /\ UNCHANGED <<planOf, plan, stored, succeeded, late>>

PlanNext ==
  \/ \E r \in Runs, e \in Executions : Continue(r, e) \/ \E p \in Plans : Launch(r, e, p)
  \/ \E r \in Runs, p \in Plans : PlanAgain(r, p)
  \/ \E r \in Runs :
       \/ Ask(r) \/ Conflict(r) \/ Perform(r) \/ Conclude(r) \/ BreakOff(r) \/ Put(r)
       \/ Submit(r) \/ Settle(r) \/ Judge(r)
       \/ BreakRun(r) \/ CrashRun(r)

PlanSpec == PlanInit /\ [][PlanNext]_<<vars, planVars>>

----------------------------------------------------------------------------
(* Properties *)

\* The registry has a result for this key that says ok, of a call that did.
SaidOk(k) ==
  \E c \in succeeded[k] :
    Durable => stored[k] # NoResult /\ stored[k].outcome = "ok" /\ stored[k].call.does = c

\* An execution that is completed has been carried out: under the key of every step of the
\* plan in its record a call has had its effect and said ok, which is the call the registry
\* names, and which is the step's own call if planners give that key to no other;
\* although attempts, runs and processes have each done a part of it, runs have overtaken
\* one another, and the plan may have been replaced under them.
CompletedWasCarriedOut ==
  \A e \in Executions : store[e].status = "completed" =>
    \A i \in DOMAIN planOf[e] :
      LET k == KeyOf(e, planOf[e], i)
          own == planOf[e][i].call
      IN  SaidOk(k) /\ (CallsUnder(k) = {own} => own \in succeeded[k])

\* However often an execution is resumed, replanned and retried, once a result is stored
\* under a key, tools have effects under it at most once in each other run: in those that
\* had begun the call before.
LateEffectsAreBounded ==
  \A k \in Keys : late[k] <= Cardinality(Runs) - 1

=============================================================================
