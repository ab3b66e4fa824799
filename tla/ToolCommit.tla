----------------------------- MODULE ToolCommit -----------------------------
(***************************************************************************)
(* ToolExecutionCoordinator.commit (runtime/tool_execution_coordinator.py) *)
(* on the commit protocol of module ExecutionCommit: the outcome of a tool *)
(* is stored, its intent ended, and then the execution committed.          *)
(*                                                                         *)
(* A caller has claimed the intent, for a state of the execution of which  *)
(* it keeps a copy, and runs the tool; its claim may run out meanwhile and *)
(* another caller take it.  The key is of one tool call of one execution.  *)
(* All commits are made by the coordinator here; reconcile(), the loops    *)
(* that write the store, lease traffic and crashes are ExecutionCommit's.  *)
(***************************************************************************)
EXTENDS ExecutionCommit

CONSTANTS
  Subject,   \* the execution the tool is called for
  ClaimTtl,  \* see ToolIntents
  MaxClaims  \* bound: claims

ASSUME ToolCommitAssumption ==
  Subject \in Executions /\ ClaimTtl \in Nat \ {0} /\ MaxClaims \in Nat

VARIABLES
  intent, result,  \* see ToolIntents
  stage,   \* where each caller has got to with the tool
  mine,    \* its claim token
  said,    \* what the tool has told it
  copy,    \* the state it has read
  claims   \* tokens made up so far

Tool == INSTANCE ToolIntents

toolVars == <<intent, result, stage, mine, said, copy, claims>>
allVars == <<vars, toolVars>>

ToolTypeOK ==
  /\ TypeOK
  /\ Tool!IntentTypeOK
  /\ stage \in [Workers -> {"none", "run", "put", "mark"}]
  /\ mine \in [Workers -> 0..MaxClaims]
  /\ said \in [Workers -> Tool!Terminal \union {"none"}]
  /\ copy \in [Workers -> ExecutionState]
  /\ claims \in 0..MaxClaims

NoCopy == [status |-> "pending", attempt |-> 0, version |-> 0]

ToolInit ==
  /\ Init
  /\ Tool!IntentInit
  /\ stage = [w \in Workers |-> "none"]
  /\ mine = [w \in Workers |-> 0]
  /\ said = [w \in Workers |-> "none"]
  /\ copy = [w \in Workers |-> NoCopy]
  /\ claims = 0

Reach(w, s) == stage' = [stage EXCEPT ![w] = s]

\* The caller is done with the tool.
LeaveTool(w) ==
  /\ Reach(w, "none")
  /\ mine' = [mine EXCEPT ![w] = 0]
  /\ said' = [said EXCEPT ![w] = "none"]
  /\ copy' = [copy EXCEPT ![w] = NoCopy]

----------------------------------------------------------------------------
(* The caller *)

\* It reads the execution, prepares the intent and claims it.
ClaimTool(w) ==
  /\ pc[w] = "idle" /\ stage[w] = "none"
  /\ lock = NoWorker
  /\ store[Subject].status = "running"
  /\ intent.state = "absent" \/ Tool!Claimable
  /\ claims < MaxClaims
  /\ claims' = claims + 1
  /\ Tool!ClaimIntent(claims + 1)
  /\ mine' = [mine EXCEPT ![w] = claims + 1]
  /\ copy' = [copy EXCEPT ![w] = store[Subject]]
  /\ Reach(w, "run")
  /\ UNCHANGED <<vars, result, said>>

\* The tool has had its effect and tells how it ended.
ToolEnds(w) ==
  /\ stage[w] = "run"
  /\ \E outcome \in Tool!Terminal : said' = [said EXCEPT ![w] = outcome]
  /\ Reach(w, "put")
  /\ UNCHANGED <<vars, intent, result, mine, copy, claims>>

----------------------------------------------------------------------------
(* ToolExecutionCoordinator.commit *)

\* put_if_absent in ExecutionBoundary.commit.
PutOutcome(w) ==
  /\ stage[w] = "put"
  /\ result' = Tool!FirstResult(said[w])
  /\ Reach(w, "mark")
  /\ UNCHANGED <<vars, intent, mine, said, copy, claims>>

\* What executions.commit is asked for: the transition from the caller's copy to
\* what the caller, not the registry, calls the outcome.
Transitioning(w) ==
  [id |-> [exec |-> Subject, attempt |-> copy[w].attempt, to |-> said[w]],
   from |-> copy[w].status, status |-> "pending"]

\* Mutant: the execution is committed also when the tool was not.
MarkTool_Unfenced(w) ==
  /\ stage[w] = "mark"
  /\ HasRoom
  /\ Tool!MarkClaimed(mine[w], result)
  /\ call' = [call EXCEPT ![w] = Transitioning(w)]
  /\ mode' = [mode EXCEPT ![w] = "commit"]
  /\ Goto(w, "check")
  /\ LeaveTool(w)
  /\ UNCHANGED <<durable, lease, token, lock, todo, crashes, history, result, claims>>

\* mark_claimed, with the stored outcome.  Only if it goes through is the execution
\* committed, which begins here.
MarkTool(w) ==
  /\ stage[w] = "mark"
  /\ HasRoom
  /\ Tool!MarkClaimed(mine[w], result)
  /\ IF Tool!CanMark(mine[w])
     THEN /\ call' = [call EXCEPT ![w] = Transitioning(w)]
          /\ mode' = [mode EXCEPT ![w] = "commit"]
          /\ Goto(w, "check")
     ELSE UNCHANGED <<call, mode, pc>>
  /\ LeaveTool(w)
  /\ UNCHANGED <<durable, lease, token, lock, todo, crashes, history, result, claims>>

----------------------------------------------------------------------------
(* Time, crashes, and everyone else *)

ToolTick ==
  /\ intent.ttl > 0
  /\ intent' = [intent EXCEPT !.ttl = @ - 1]
  /\ UNCHANGED <<vars, result, stage, mine, said, copy, claims>>

\* The process dies before it has begun to commit the execution.
CrashTool(w) ==
  /\ stage[w] # "none"
  /\ crashes < MaxCrashes
  /\ crashes' = crashes + 1
  /\ Forget(w)
  /\ LeaveTool(w)
  /\ UNCHANGED <<durable, local, history, intent, result, claims>>

ToolStep(w) == ToolEnds(w) \/ PutOutcome(w) \/ MarkTool(w)

Committing(w) ==
  /\ CommitStep(w) \/ ReconcileStep(w) \/ LockedStep(w)
  /\ UNCHANGED toolVars

Reconciling(w) == stage[w] = "none" /\ StartReconcile(w) /\ UNCHANGED toolVars

ToolNext ==
  \/ \E w \in Workers :
       ClaimTool(w) \/ ToolStep(w) \/ Committing(w) \/ Reconciling(w) \/ CrashTool(w)
  \/ ToolTick
  \/ Environment /\ UNCHANGED toolVars

\* As in ExecutionCommit; and the tool returns.
ToolFairness ==
  \A w \in Workers :
    WF_allVars(ToolStep(w)) /\ SF_allVars(Committing(w)) /\ WF_allVars(Reconciling(w))

ToolSpec == ToolInit /\ [][ToolNext]_allVars /\ ToolFairness

----------------------------------------------------------------------------
(* Properties *)

\* The execution is committed at most once for the tool's outcome, however many callers
\* have run the tool under claims that ran out, and not before that outcome is in the
\* registry and has ended the intent.
OutcomeCommittedOnce ==
  /\ Len(journal) <= 1
  /\ journal # <<>> => intent.state \in Tool!Terminal /\ result = intent.state

\* Every call comes to its end, in the tool's part and in the execution's.
EveryToolCommitReturns ==
  \A w \in Workers :
    stage[w] # "none" \/ pc[w] # "idle" ~> stage[w] = "none" /\ pc[w] = "idle"

=============================================================================
