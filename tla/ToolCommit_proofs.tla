-------------------------- MODULE ToolCommit_proofs --------------------------
(***************************************************************************)
(* Proofs about ToolExecutionCoordinator.commit on the commit protocol:    *)
(* for any number of callers and executions, any length of the claims,     *)
(* with and without leases.  What ExecutionCommit_proofs says of the       *)
(* protocol holds here too, and a tool's outcome is committed once.        *)
(***************************************************************************)
EXTENDS ToolCommit, ExecutionCommit_proofs

----------------------------------------------------------------------------
(* The inductive invariant *)

\* A caller of the tool is in no call of the coordinator, and about an execution that
\* exists; it has an answer before it commits, and stores one before it ends the intent.
CallersAreOutside ==
  \A w \in Workers : stage[w] # "none" =>
    /\ pc[w] = "idle"
    /\ Exists(Subject)
    /\ stage[w] \in {"put", "mark"} => said[w] \in Tool!Terminal
    /\ stage[w] = "mark" => result # "none"

\* An intent that has ended says what the registry says, and no claim is left on it.
EndedAsStored ==
  intent.state \in Tool!Terminal => intent.token = 0 /\ result = intent.state

\* A call of commit() whose record is not yet in the journal.
Unjournaled(w) == pc[w] \in {"check", "append"}

\* Commits begin when the intent ends, one of them, and reach an empty journal.
CommitsFollowTheIntent ==
  /\ journal # <<>> \/ (\E w \in Workers : Unjournaled(w)) => intent.state \in Tool!Terminal
  /\ \A v, w \in Workers : Unjournaled(v) /\ Unjournaled(w) => v = w
  /\ (\E w \in Workers : Unjournaled(w)) => journal = <<>>
  /\ Len(journal) <= 1

ToolInv ==
  /\ IInv
  /\ ToolTypeOK
  /\ CallersAreOutside
  /\ EndedAsStored
  /\ CommitsFollowTheIntent

----------------------------------------------------------------------------
(* The protocol's own invariant, in this composition *)

\* The coordinator, its environment and the callers that stay outside of it take steps
\* of the protocol.
ProtocolStep ==
  \/ \E w \in Workers :
       \/ Committing(w) \/ Reconciling(w)
       \/ ClaimTool(w) \/ ToolEnds(w) \/ PutOutcome(w)
  \/ ToolTick
  \/ Environment /\ UNCHANGED toolVars
  \/ UNCHANGED allVars

LEMMA ProtocolSteps == ProtocolStep => [Next]_vars
BY DEF ProtocolStep, Committing, Reconciling, ClaimTool, ToolEnds, PutOutcome, ToolTick, Next, allVars

\* commit() begins for the outcome: the one step of a caller that Begin does not take,
\* since the state it starts from is the caller's copy.
LEMMA MarkToolTypes ==
  ASSUME IInv, ToolTypeOK, CallersAreOutside, NEW w \in Workers, MarkTool(w), Tool!CanMark(mine[w])
  PROVE  /\ Transitioning(w) \in CommitRecord
         /\ Transitioning(w).id.exec = Subject /\ Transitioning(w).status = "pending"
         /\ pc[w] = "idle" /\ Exists(Subject)
         /\ pc' = [pc EXCEPT ![w] = "check"]
         /\ call' = [call EXCEPT ![w] = Transitioning(w)]
         /\ mode' = [mode EXCEPT ![w] = "commit"]
<1>1. said[w] \in Tool!Terminal /\ pc[w] = "idle" /\ Exists(Subject)
  BY DEF MarkTool, CallersAreOutside
<1>2. copy[w] \in ExecutionState /\ Subject \in Executions
  BY ToolCommitAssumption DEF ToolTypeOK
<1>3. Transitioning(w) \in CommitRecord
  BY <1>1, <1>2 DEF Transitioning, CommitRecord, CommitId, JournalStatuses, ExecutionState,
     Tool!Terminal, Statuses
<1> QED
  BY <1>1, <1>3 DEF MarkTool, Goto, Transitioning

LEMMA MarkToolStep ==
  ASSUME IInv, ToolTypeOK, CallersAreOutside, NEW w \in Workers, MarkTool(w)
  PROVE  IInv'
<1>0. TypeOK /\ UNCHANGED <<durable, lease, token, lock, todo, crashes, history>>
  BY DEF IInv, MarkTool
<1>1. CASE Tool!CanMark(mine[w])
  <2> DEFINE r == Transitioning(w)
  <2>1. /\ r \in CommitRecord /\ r.id.exec = Subject /\ r.status = "pending"
        /\ pc[w] = "idle" /\ Exists(Subject)
        /\ pc' = [pc EXCEPT ![w] = "check"]
        /\ call' = [call EXCEPT ![w] = r]
        /\ mode' = [mode EXCEPT ![w] = "commit"]
    BY <1>1, MarkToolTypes
  <2> HIDE DEF r
  <2>2. /\ pc'[w] = "check" /\ call'[w] = r
        /\ \A v \in Workers \ {w} : pc'[v] = pc[v] /\ call'[v] = call[v] /\ token'[v] = token[v]
    BY <1>0, <2>1 DEF TypeOK
  <2>3. TypeOK'
    BY <1>0, <2>1 DEF TypeOK, StoreTypeOK, LeaseTypeOK, Stages, durable, history
  <2> QED
    BY <1>0, <2>1, <2>2, <2>3, WorkerMoves DEF Critical
<1>2. CASE ~ Tool!CanMark(mine[w])
  <2>1. UNCHANGED vars
    BY <1>0, <1>2 DEF MarkTool, vars, durable, history
  <2> QED
    BY <2>1, InvStep
<1> QED
  BY <1>1, <1>2

LEMMA CrashToolStep ==
  ASSUME IInv, CallersAreOutside, NEW w \in Workers, CrashTool(w)
  PROVE  IInv'
<1>0. /\ TypeOK /\ pc[w] = "idle"
      /\ UNCHANGED <<durable, local, history, lease>>
      /\ token' = [token EXCEPT ![w] = 0] /\ crashes' = crashes + 1
  BY DEF IInv, CrashTool, CallersAreOutside, Forget
<1>1. TypeOK'
  BY <1>0 DEF TypeOK, StoreTypeOK, LeaseTypeOK, durable, local, history
<1>2. pc' = pc /\ call' = call /\ lock' = lock
      /\ \A v \in Workers \ {w} : token'[v] = token[v]
  BY <1>0 DEF local, TypeOK, LeaseTypeOK
<1> QED
  BY <1>0, <1>1, <1>2, WorkerMoves DEF Critical

\* So the protocol keeps its invariant, whatever the callers of tools do.
LEMMA ProtocolInv ==
  ASSUME IInv, ToolTypeOK, CallersAreOutside, [ToolNext]_allVars
  PROVE  IInv'
<1>1. ProtocolStep \/ \E w \in Workers : MarkTool(w) \/ CrashTool(w)
  BY DEF ToolNext, ToolStep, ProtocolStep
<1>2. CASE ProtocolStep
  BY <1>2, ProtocolSteps, InvStep
<1> QED
  BY <1>1, <1>2, MarkToolStep, CrashToolStep

\* And no execution disappears.
LEMMA ExistingStay ==
  ASSUME IInv, ToolTypeOK, CallersAreOutside, [ToolNext]_allVars, NEW e \in Executions, Exists(e)
  PROVE  Exists(e)'
<1>1. ProtocolStep \/ \E w \in Workers : MarkTool(w) \/ CrashTool(w)
  BY DEF ToolNext, ToolStep, ProtocolStep
<1>2. CASE \E w \in Workers : MarkTool(w) \/ CrashTool(w)
  BY <1>2 DEF MarkTool, CrashTool, durable, Exists
<1>3. CASE ProtocolStep
  <2>1. store \in [Executions -> ExecutionState] /\ [Next]_vars
    BY <1>3, ProtocolSteps DEF IInv, TypeOK, StoreTypeOK
  <2>2. ASSUME NEW x \in Executions, NEW s, NEW a, WriteState(x, s, a)
        PROVE  Exists(e)'
    BY <2>1, <2>2 DEF WriteState, Exists, ExecutionState
  <2> QED
    BY <2>1, <2>2, StoreSteps DEF Exists
<1> QED
  BY <1>1, <1>2, <1>3

----------------------------------------------------------------------------
(* Who appends to the journal *)

\* Only commit() does, once and when its record was not in it; and in this composition
\* a call of commit() begins at MarkTool alone.
LEMMA JournalGrowth ==
  ASSUME IInv, ProtocolStep
  PROVE  /\ \A w \in Workers : Unjournaled(w)' => Unjournaled(w)
         /\ \/ Len(journal') = Len(journal)
            \/ \E w \in Workers :
                 Unjournaled(w) /\ ~ Unjournaled(w)' /\ Len(journal') = Len(journal) + 1
<1>0. TypeOK /\ journal \in Seq(CommitRecord) /\ Len(journal) \in Nat
  BY DEF IInv, TypeOK
<1>1. ASSUME NEW w \in Workers, AppendIntent(w)
      PROVE  /\ \A v \in Workers : Unjournaled(v)' => Unjournaled(v)
             /\ Unjournaled(w) /\ ~ Unjournaled(w)' /\ Len(journal') = Len(journal) + 1
  <2>1. pc[w] = "append" /\ pc' = [pc EXCEPT ![w] = "lock"]
    BY <1>1 DEF AppendIntent, Goto
  <2>2. call[w] \in CommitRecord
    BY <2>1 DEF IInv, CallsHaveRecords
  <2>3. Len(journal') = Len(journal) + 1
    BY <1>0, <1>1, <2>2 DEF AppendIntent
  <2> QED
    BY <1>0, <2>1, <2>3 DEF Unjournaled, TypeOK
<1>2. ASSUME NEW w \in Workers,
             \/ FindExisting(w) \/ RefuseCommit(w) \/ AdmitCommit(w)
             \/ ConfirmIntent(w) \/ RedoIntent(w) \/ PoisonedIntent(w)
             \/ ApplyTransition(w) \/ AppendAudit(w) \/ Crash(w)
      PROVE  /\ \A v \in Workers : Unjournaled(v)' => Unjournaled(v)
             /\ journal' = journal
  BY <1>0, <1>2 DEF FindExisting, RefuseCommit, AdmitCommit, ConfirmIntent, RedoIntent,
     PoisonedIntent, ApplyTransition, AppendAudit, Crash, Return, Goto, durable, Unjournaled, TypeOK
<1>3. ASSUME NEW w \in Workers, StartReconcile(w) \/ SkipIntent(w)
      PROVE  /\ \A v \in Workers : Unjournaled(v)' => Unjournaled(v)
             /\ journal' = journal
  <2>1. CASE SkipIntent(w)
    BY <1>0, <2>1, AdvanceTypes DEF SkipIntent, durable, Unjournaled
  <2>2. CASE StartReconcile(w)
    BY <1>0, <2>2 DEF StartReconcile, TakeFirst, Goto, durable, Unjournaled, TypeOK
  <2> QED
    BY <1>3, <2>1, <2>2
<1>4. ASSUME NEW w \in Workers, MarkIntent(w)
      PROVE  /\ \A v \in Workers : Unjournaled(v)' => Unjournaled(v)
             /\ Len(journal') = Len(journal)
  <2>1. \A v \in Workers : Unjournaled(v)' => Unjournaled(v)
    BY <1>0, <1>4, AdvanceTypes DEF MarkIntent, Unjournaled
  <2>2. journal' \in Seq(CommitRecord) /\ DOMAIN journal' = DOMAIN journal
    BY <1>0, <1>4, MarkedJournal DEF MarkIntent, JournalStatuses
  <2> QED
    BY <1>0, <2>1, <2>2
<1>5. ASSUME \/ \E e \in Executions : LoopCreate(e)
             \/ \E e \in Executions, status \in Statuses, attempt \in 0..MaxAttempt :
                  LoopWrite(e, status, attempt)
             \/ \E w \in Workers, e \in Executions : LeaseTraffic(w, e)
             \/ TimePasses
      PROVE  pc' = pc /\ journal' = journal
  BY <1>5 DEF LoopCreate, LoopWrite, LeaseTraffic, TimePasses, local, durable
<1>6. ASSUME UNCHANGED vars
      PROVE  pc' = pc /\ journal' = journal
  BY <1>6 DEF vars
<1>7. ASSUME pc' = pc /\ journal' = journal
      PROVE  /\ \A w \in Workers : Unjournaled(w)' => Unjournaled(w)
             /\ Len(journal') = Len(journal)
  BY <1>7 DEF Unjournaled
<1>8. CASE UNCHANGED vars
  BY <1>6, <1>7, <1>8
<1>9. CASE \E w \in Workers : Committing(w)
  BY <1>1, <1>2, <1>3, <1>4, <1>9 DEF Committing, CommitStep, ReconcileStep, LockedStep
<1>10. CASE \E w \in Workers : Reconciling(w)
  BY <1>3, <1>10 DEF Reconciling
<1>11. CASE Environment
  BY <1>2, <1>5, <1>7, <1>11 DEF Environment
<1> QED
  BY <1>8, <1>9, <1>10, <1>11 DEF ProtocolStep, ClaimTool, ToolEnds, PutOutcome, ToolTick, allVars

----------------------------------------------------------------------------
(* The callers' part of the invariant *)

\* Nobody takes a step of the protocol for a caller that is outside of it.
LEMMA OutsideStays ==
  ASSUME IInv, CallersAreOutside, ProtocolStep, NEW v \in Workers, stage[v] # "none"
  PROVE  pc'[v] = "idle"
<1>0. TypeOK /\ pc[v] = "idle"
  BY DEF IInv, CallersAreOutside
<1>1. ASSUME NEW w \in Workers, CommitStep(w) \/ ReconcileStep(w) \/ LockedStep(w)
      PROVE  /\ pc[w] # "idle"
             /\ \A u \in Workers \ {w} : pc'[u] = pc[u]
  <2>1. CASE SkipIntent(w) \/ MarkIntent(w)
    BY <1>0, <2>1, AdvanceTypes DEF SkipIntent, MarkIntent
  <2>2. CASE \/ CommitStep(w)
             \/ ConfirmIntent(w) \/ RedoIntent(w) \/ PoisonedIntent(w)
             \/ ApplyTransition(w) \/ AppendAudit(w)
    BY <1>0, <2>2 DEF CommitStep, FindExisting, AppendIntent, RefuseCommit, AdmitCommit,
       ConfirmIntent, RedoIntent, PoisonedIntent, ApplyTransition, AppendAudit, Return, Goto, TypeOK
  <2> QED
    BY <1>1, <2>1, <2>2 DEF ReconcileStep, LockedStep
<1>2. ASSUME NEW w \in Workers, Reconciling(w)
      PROVE  \A u \in Workers \ {w} : pc'[u] = pc[u]
  BY <1>0, <1>2 DEF Reconciling, StartReconcile, TakeFirst, Goto, TypeOK
<1>3. ASSUME Environment
      PROVE  pc'[v] = "idle"
  <2>1. ASSUME NEW w \in Workers, Crash(w)
        PROVE  pc'[v] = "idle"
    BY <1>0, <2>1 DEF Crash, Return, Goto, TypeOK
  <2> QED
    BY <1>0, <1>3, <2>1 DEF Environment, LoopCreate, LoopWrite, LeaseTraffic, TimePasses, local
<1>4. CASE \E w \in Workers : Committing(w)
  BY <1>0, <1>1, <1>4 DEF Committing
<1>5. CASE \E w \in Workers : Reconciling(w)
  <2>1. PICK w \in Workers : Reconciling(w)
    BY <1>5
  <2>2. w # v
    BY <2>1 DEF Reconciling
  <2> QED
    BY <1>0, <1>2, <2>1, <2>2
<1> QED
  BY <1>0, <1>3, <1>4, <1>5 DEF ProtocolStep, ClaimTool, ToolEnds, PutOutcome, ToolTick, allVars, vars

\* What each caller does to its own variables, and to the ledger and the registry.
LEMMA ToolTypes ==
  ASSUME ToolInv, TypeOK', [ToolNext]_allVars
  PROVE  ToolTypeOK'
<1> USE ToolCommitAssumption
<1> USE DEF Tool!IntentTypeOK, Tool!Intent, Tool!Open, Tool!Terminal
<1>0. ToolTypeOK
  BY DEF ToolInv
<1>1. ASSUME NEW w \in Workers, ClaimTool(w)
      PROVE  ToolTypeOK'
  <2>0. claims < MaxClaims /\ claims \in Nat /\ MaxClaims \in Nat
    BY <1>0, <1>1 DEF ToolTypeOK, ClaimTool
  <2>1. claims + 1 \in 0..MaxClaims /\ claims + 1 \in Nat
    BY <2>0
  <2>2. intent' = [state |-> "executing", token |-> claims + 1, ttl |-> ClaimTtl]
    BY <1>1 DEF ClaimTool, Tool!ClaimIntent
  <2>3. intent' \in Tool!Intent
    BY <2>1, <2>2
  <2>4. store[Subject] \in ExecutionState
    BY <1>0 DEF ToolTypeOK, TypeOK, StoreTypeOK
  <2> QED
    BY <1>0, <1>1, <2>1, <2>3, <2>4 DEF ToolTypeOK, ClaimTool, Reach
<1>2. ASSUME NEW w \in Workers, ToolEnds(w)
      PROVE  ToolTypeOK'
  BY <1>0, <1>2 DEF ToolTypeOK, ToolEnds, Reach
<1>3. ASSUME NEW w \in Workers, PutOutcome(w)
      PROVE  ToolTypeOK'
  <2>1. said[w] \in Tool!Terminal
    BY <1>3 DEF PutOutcome, ToolInv, CallersAreOutside
  <2> QED
    BY <1>0, <1>3, <2>1 DEF ToolTypeOK, PutOutcome, Reach, Tool!FirstResult
<1>4. ASSUME NEW w \in Workers, LeaveTool(w)
      PROVE  /\ stage' \in [Workers -> {"none", "run", "put", "mark"}]
             /\ mine' \in [Workers -> 0..MaxClaims]
             /\ said' \in [Workers -> Tool!Terminal \union {"none"}]
             /\ copy' \in [Workers -> ExecutionState]
  <2>1. NoCopy \in ExecutionState
    BY DEF NoCopy, ExecutionState, Statuses
  <2> QED
    BY <1>0, <1>4, <2>1 DEF ToolTypeOK, LeaveTool, Reach
<1>5. ASSUME NEW w \in Workers, MarkTool(w)
      PROVE  ToolTypeOK'
  <2>1. result \in Tool!Terminal
    BY <1>0, <1>5 DEF MarkTool, ToolInv, CallersAreOutside, ToolTypeOK
  <2>2. intent' \in Tool!Intent
    BY <1>0, <1>5, <2>1 DEF MarkTool, ToolTypeOK, Tool!MarkClaimed, Tool!Unclaimed
  <2> QED
    BY <1>0, <1>4, <1>5, <2>2 DEF MarkTool, ToolTypeOK
<1>6. ASSUME NEW w \in Workers, CrashTool(w)
      PROVE  ToolTypeOK'
  BY <1>0, <1>4, <1>6 DEF CrashTool, ToolTypeOK
<1>7. ASSUME ToolTick
      PROVE  ToolTypeOK'
  <2>1. intent.ttl - 1 \in 0..ClaimTtl
    BY <1>0, <1>7 DEF ToolTick, ToolTypeOK
  <2>2. intent' \in Tool!Intent
    BY <1>0, <1>7, <2>1 DEF ToolTick, ToolTypeOK
  <2> QED
    BY <1>0, <1>7, <2>2 DEF ToolTypeOK, ToolTick
<1>8. ASSUME UNCHANGED toolVars
      PROVE  ToolTypeOK'
  BY <1>0, <1>8 DEF ToolTypeOK, toolVars
<1> QED
  BY <1>1, <1>2, <1>3, <1>5, <1>6, <1>7, <1>8
  DEF ToolNext, ToolStep, Committing, Reconciling, allVars

\* A caller goes through its stages outside of the protocol.
LEMMA CallersStep ==
  ASSUME ToolInv, TypeOK', [ToolNext]_allVars
  PROVE  CallersAreOutside'
<1>0. IInv /\ ToolTypeOK /\ CallersAreOutside /\ EndedAsStored /\ TypeOK /\ Subject \in Executions
  BY ToolCommitAssumption DEF ToolInv, IInv
<1>1. Exists(Subject) => Exists(Subject)'
  BY <1>0, ExistingStay
<1>2. ASSUME ProtocolStep, NEW v \in Workers, stage[v] # "none"
      PROVE  pc'[v] = "idle"
  BY <1>0, <1>2, OutsideStays
<1>3. ASSUME NEW w \in Workers, ClaimTool(w)
      PROVE  CallersAreOutside'
  <2>1. Exists(Subject)
    BY <1>0, <1>3 DEF ClaimTool, IInv, FreshIsPending
  <2>2. stage' = [stage EXCEPT ![w] = "run"] /\ UNCHANGED <<vars, result, said>> /\ pc[w] = "idle"
    BY <1>3 DEF ClaimTool, Reach
  <2> QED
    BY <1>0, <1>1, <2>1, <2>2 DEF CallersAreOutside, ToolTypeOK, vars
<1>4. ASSUME NEW w \in Workers, ToolEnds(w)
      PROVE  CallersAreOutside'
  <2>1. /\ stage' = [stage EXCEPT ![w] = "put"] /\ UNCHANGED <<vars, result>> /\ stage[w] = "run"
        /\ \E outcome \in Tool!Terminal : said' = [said EXCEPT ![w] = outcome]
    BY <1>4 DEF ToolEnds, Reach
  <2> QED
    BY <1>0, <1>1, <2>1 DEF CallersAreOutside, ToolTypeOK, vars
<1>5. ASSUME NEW w \in Workers, PutOutcome(w)
      PROVE  CallersAreOutside'
  <2>1. /\ stage' = [stage EXCEPT ![w] = "mark"] /\ UNCHANGED <<vars, said>> /\ stage[w] = "put"
        /\ said[w] \in Tool!Terminal /\ result' = Tool!FirstResult(said[w])
    BY <1>0, <1>5 DEF PutOutcome, Reach, CallersAreOutside
  <2>2. result' # "none"
    BY <2>1 DEF Tool!FirstResult, Tool!Terminal
  <2> QED
    BY <1>0, <1>1, <2>1, <2>2 DEF CallersAreOutside, ToolTypeOK, vars
<1>6. ASSUME NEW w \in Workers, MarkTool(w) \/ CrashTool(w)
      PROVE  CallersAreOutside'
  <2>1. /\ stage' = [stage EXCEPT ![w] = "none"] /\ said' = [said EXCEPT ![w] = "none"]
        /\ result' = result
    BY <1>6 DEF MarkTool, CrashTool, LeaveTool, Reach
  <2>2. \A v \in Workers \ {w} : pc'[v] = pc[v]
    BY <1>0, <1>6 DEF MarkTool, CrashTool, Goto, local, TypeOK
  <2> QED
    BY <1>0, <1>1, <2>1, <2>2 DEF CallersAreOutside, ToolTypeOK
<1>7. ASSUME ProtocolStep, stage' = stage, said' = said, result' = result
      PROVE  CallersAreOutside'
  BY <1>0, <1>1, <1>2, <1>7 DEF CallersAreOutside
<1>8. ASSUME ToolTick
      PROVE  ProtocolStep /\ stage' = stage /\ said' = said /\ result' = result
  BY <1>8 DEF ProtocolStep, ToolTick
<1>9. CASE UNCHANGED toolVars /\ ProtocolStep
  BY <1>7, <1>9 DEF toolVars
<1> QED
  BY <1>3, <1>4, <1>5, <1>6, <1>7, <1>8, <1>9
  DEF ToolNext, ToolStep, ProtocolStep, Committing, Reconciling, allVars

\* What a step does to the intent and to the stored outcome: an intent that has ended
\* stays as it is, and ends with what is stored.
LEMMA EndingStep ==
  ASSUME ToolInv, [ToolNext]_allVars
  PROVE  /\ EndedAsStored'
         /\ intent.state \in Tool!Terminal => intent'.state = intent.state /\ result' = result
<1> USE DEF Tool!Terminal, Tool!Open
<1>0. ToolTypeOK /\ CallersAreOutside /\ EndedAsStored
  BY DEF ToolInv
<1>1. intent \in Tool!Intent /\ result \in Tool!Terminal \union {"none"}
  BY <1>0 DEF ToolTypeOK, Tool!IntentTypeOK
<1>2. CASE UNCHANGED <<intent, result>>
  BY <1>0, <1>2 DEF EndedAsStored
<1>3. ASSUME NEW w \in Workers, ClaimTool(w)
      PROVE  intent.state \notin Tool!Terminal /\ intent'.state = "executing"
  BY <1>3 DEF ClaimTool, Tool!Claimable, Tool!ClaimIntent
<1>4. ASSUME NEW w \in Workers, PutOutcome(w)
      PROVE  intent' = intent /\ (result # "none" => result' = result)
  BY <1>4 DEF PutOutcome, Tool!FirstResult
<1>5. ASSUME NEW w \in Workers, MarkTool(w)
      PROVE  /\ result' = result
             /\ \/ intent' = intent
                \/ intent.token # 0 /\ intent' = [state |-> result, token |-> 0, ttl |-> 0]
  BY <1>5 DEF MarkTool, Tool!MarkClaimed, Tool!CanMark, Tool!HoldsClaim, Tool!Unclaimed
<1>6. ASSUME ToolTick
      PROVE  result' = result /\ intent'.state = intent.state /\ intent'.token = intent.token
  BY <1>1, <1>6 DEF ToolTick, Tool!Intent
<1>7. CASE \E w \in Workers : ClaimTool(w)
  BY <1>3, <1>7 DEF EndedAsStored
<1>8. CASE \E w \in Workers : PutOutcome(w)
  BY <1>0, <1>1, <1>4, <1>8 DEF EndedAsStored
<1>9. CASE \E w \in Workers : MarkTool(w)
  BY <1>0, <1>1, <1>5, <1>9 DEF EndedAsStored
<1>10. CASE ToolTick
  BY <1>0, <1>6, <1>10 DEF EndedAsStored
<1> QED
  BY <1>2, <1>7, <1>8, <1>9, <1>10
  DEF ToolNext, ToolStep, ToolEnds, CrashTool, Committing, Reconciling, allVars, toolVars

\* The commit begins in the step in which the intent ends, and there is one such step.
LEMMA OneCommitStep ==
  ASSUME ToolInv, [ToolNext]_allVars
  PROVE  CommitsFollowTheIntent'
<1>0. IInv /\ ToolTypeOK /\ CallersAreOutside /\ EndedAsStored /\ CommitsFollowTheIntent
      /\ TypeOK /\ journal \in Seq(CommitRecord) /\ Len(journal) \in Nat
  BY DEF ToolInv, IInv, TypeOK
<1>1. intent.state \in Tool!Terminal => intent'.state \in Tool!Terminal
  BY EndingStep
<1>2. CASE ProtocolStep
  <2>1. \A w \in Workers : Unjournaled(w)' => Unjournaled(w)
    BY <1>0, <1>2, JournalGrowth
  <2>2. CASE Len(journal') = Len(journal)
    <3>1. journal' = <<>> <=> journal = <<>>
      <4>1. journal' \in Seq(CommitRecord)
        BY <1>0, <1>2, ProtocolSteps, InvStep DEF IInv, TypeOK
      <4> QED
        BY <1>0, <2>2, <4>1
    <3>2. Len(journal') <= 1
      BY <1>0, <2>2 DEF CommitsFollowTheIntent
    <3> QED
      BY <1>0, <1>1, <2>1, <3>1, <3>2 DEF CommitsFollowTheIntent, Unjournaled
  <2>3. CASE \E w \in Workers :
               Unjournaled(w) /\ ~ Unjournaled(w)' /\ Len(journal') = Len(journal) + 1
    <3>1. PICK w \in Workers :
            Unjournaled(w) /\ ~ Unjournaled(w)' /\ Len(journal') = Len(journal) + 1
      BY <2>3
    <3>2. journal = <<>> /\ Len(journal') <= 1 /\ intent.state \in Tool!Terminal
      BY <1>0, <3>1 DEF CommitsFollowTheIntent
    <3>3. \A v \in Workers : ~ Unjournaled(v)'
      BY <1>0, <2>1, <3>1 DEF CommitsFollowTheIntent
    <3> QED
      BY <1>1, <3>2, <3>3 DEF CommitsFollowTheIntent, Unjournaled
  <2> QED
    BY <1>0, <1>2, <2>2, <2>3, JournalGrowth
<1>3. ASSUME NEW w \in Workers, CrashTool(w)
      PROVE  CommitsFollowTheIntent'
  BY <1>0, <1>3 DEF CrashTool, local, durable, CommitsFollowTheIntent, Unjournaled
<1>4. ASSUME NEW w \in Workers, MarkTool(w)
      PROVE  CommitsFollowTheIntent'
  <2>1. CASE ~ Tool!CanMark(mine[w])
    BY <1>0, <1>4, <2>1 DEF MarkTool, Tool!MarkClaimed, durable, CommitsFollowTheIntent, Unjournaled
  <2>2. CASE Tool!CanMark(mine[w])
    <3>1. intent.state \notin Tool!Terminal
      BY <1>0, <2>2 DEF Tool!CanMark, Tool!HoldsClaim, EndedAsStored
    <3>2. journal = <<>> /\ \A v \in Workers : ~ Unjournaled(v)
      BY <1>0, <3>1 DEF CommitsFollowTheIntent
    <3>3. journal' = journal /\ \A v \in Workers \ {w} : pc'[v] = pc[v]
      BY <1>0, <1>4 DEF MarkTool, durable, Goto, TypeOK
    <3>4. intent'.state = result /\ result \in Tool!Terminal
      BY <1>0, <1>4, <2>2 DEF MarkTool, Tool!MarkClaimed, Tool!Unclaimed, CallersAreOutside,
         ToolTypeOK, Tool!IntentTypeOK
    <3> QED
      BY <1>0, <3>2, <3>3, <3>4 DEF CommitsFollowTheIntent, Unjournaled
  <2> QED
    BY <2>1, <2>2
<1> QED
  BY <1>2, <1>3, <1>4 DEF ToolNext, ToolStep, ProtocolStep

----------------------------------------------------------------------------
(* The invariant *)

\* Initially nobody has been called, and nothing was committed.
LEMMA ToolInvInit == ToolInit => ToolInv
<1> SUFFICES ASSUME ToolInit PROVE ToolInv
  OBVIOUS
<1>1. IInv /\ TypeOK /\ journal = <<>> /\ \A w \in Workers : pc[w] = "idle"
  BY InvInit, TypeInit DEF ToolInit, Init
<1>2. ToolTypeOK
  BY <1>1, ToolCommitAssumption
  DEF ToolInit, ToolTypeOK, Tool!IntentInit, Tool!Unclaimed, Tool!IntentTypeOK, Tool!Intent, NoCopy,
      ExecutionState, Statuses
<1>3. intent.state = "absent"
  BY DEF ToolInit, Tool!IntentInit, Tool!Unclaimed
<1> QED
  BY <1>1, <1>2, <1>3
  DEF ToolInit, ToolInv, CallersAreOutside, EndedAsStored, CommitsFollowTheIntent, Unjournaled, Tool!Terminal

\* Every step of the composition keeps it.
LEMMA ToolInvStep == ToolInv /\ [ToolNext]_allVars => ToolInv'
<1> SUFFICES ASSUME ToolInv, [ToolNext]_allVars PROVE ToolInv'
  OBVIOUS
<1>1. IInv' /\ TypeOK'
  BY ProtocolInv DEF ToolInv, IInv
<1> QED
  BY <1>1, ToolTypes, CallersStep, EndingStep, OneCommitStep DEF ToolInv

LEMMA ToolInvariance == ToolSpec => []ToolInv
BY ToolInvInit, ToolInvStep, PTL DEF ToolSpec

----------------------------------------------------------------------------
(* Theorems *)

\* Every variable keeps its type: the ledger, the registry and the callers, as well as
\* the journal, which receives what callers read and tools said.
THEOREM ToolTypeCorrectness == ToolSpec => []ToolTypeOK
BY ToolInvariance, PTL DEF ToolInv

\* put_if_absent before mark_claimed before executions.commit: whoever else has run the
\* tool meanwhile, the execution is committed once, for an outcome that is stored.
THEOREM CommittedOnce == ToolSpec => []OutcomeCommittedOnce
<1>1. ToolInv => OutcomeCommittedOnce
  BY DEF ToolInv, EndedAsStored, CommitsFollowTheIntent, OutcomeCommittedOnce
<1> QED
  BY ToolInvariance, <1>1, PTL

\* Callers that commit from a copy that may be out of date take nothing from what the
\* protocol guarantees: fencing, the order of its writes, and recovery from a crash.
THEOREM ProtocolGuarantees ==
  ToolSpec => [](CriticalSectionFenced /\ MarkedIsAudited /\ AppliedIsRecoverable)
BY ToolInvariance, PTL DEF ToolInv, IInv

\* And an execution still changes only along its lifecycle: a commit whose copy was out
\* of date is refused, or makes a transition that is legal from where the execution is.
THEOREM ToolRefinement == ToolSpec => ImplementsLifecycle
<1>1. ToolInit => Lifecycle!Init
  BY DEF ToolInit, Init, StoreInit, Lifecycle!Init
<1>2. ToolInv /\ [ToolNext]_allVars => [Lifecycle!Next]_(Lifecycle!lifecycleVars)
  <2> SUFFICES ASSUME ToolInv, [ToolNext]_allVars
               PROVE  [Lifecycle!Next]_(Lifecycle!lifecycleVars)
    OBVIOUS
  <2>1. CASE ProtocolStep
    BY <2>1, ProtocolSteps, LifecycleStep DEF ToolInv
  <2>2. CASE \E w \in Workers : MarkTool(w) \/ CrashTool(w)
    BY <2>2 DEF MarkTool, CrashTool, durable, Lifecycle!lifecycleVars
  <2> QED
    BY <2>1, <2>2 DEF ToolNext, ToolStep, ProtocolStep
<1> QED
  BY ToolInvariance, <1>1, <1>2, PTL DEF ToolSpec, Lifecycle!Spec, ImplementsLifecycle

\* And of the journal they need no more than what it promises.
THEOREM ToolJournalUse == ToolSpec => ImplementsLog
<1>1. ToolInit => Log!Init
  BY DEF ToolInit, Init, Log!Init
<1>2. ToolInv /\ [ToolNext]_allVars => [Log!Next]_(Entries(journal))
  <2> SUFFICES ASSUME ToolInv, [ToolNext]_allVars
               PROVE  [Log!Next]_(Entries(journal))
    OBVIOUS
  <2>1. CASE ProtocolStep
    BY <2>1, ProtocolSteps, LogStep DEF ToolInv
  <2>2. CASE \E w \in Workers : MarkTool(w) \/ CrashTool(w)
    BY <2>2 DEF MarkTool, CrashTool, durable, Entries
  <2>3. CASE UNCHANGED allVars
    BY <2>3 DEF allVars, vars, Entries
  <2> QED
    BY <2>1, <2>2, <2>3 DEF ToolNext, ToolStep, ProtocolStep
<1>3. [Log!Next]_(Entries(journal)) => [Log!Next]_([i \in DOMAIN journal |->
        [id |-> journal[i].id, status |-> journal[i].status]])
  BY DEF Entries
<1> QED
  BY ToolInvariance, <1>1, <1>2, <1>3, PTL DEF ToolSpec, Log!Spec, ImplementsLog

=============================================================================
