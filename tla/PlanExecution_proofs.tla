------------------------ MODULE PlanExecution_proofs ------------------------
(***************************************************************************)
(* Proofs about the execution of plans on the loop: for any number of runs *)
(* and executions, any plans, with call ids and keys that are given to one *)
(* call or to several, within an execution or across executions, any       *)
(* number of retries, executors with or without a registry of results.     *)
(***************************************************************************)
EXTENDS PlanExecution, AutonomousLoop_proofs, FiniteSetTheorems

----------------------------------------------------------------------------
(* The inductive invariant *)

\* What SaidOk says, of the state after a step, about a key of the state before.
DoneThen(k) ==
  \E c \in succeeded'[k] :
    Durable => stored'[k] # NoResult /\ stored'[k].outcome = "ok" /\ stored'[k].call.does = c

\* What has succeeded under a key is a call that has it; the registry says "ok" only of one
\* that said it.
StoredIsTrue ==
  \A k \in Keys :
    /\ succeeded[k] \subseteq CallsUnder(k)
    /\ stored[k] # NoResult /\ stored[k].outcome = "ok" => stored[k].call.does \in succeeded[k]

\* And so does an executor's memory, but not before the registry.
MemoryIsTrue(r) ==
  \A k \in Keys : cache[r][k] # NoResult /\ cache[r][k].outcome = "ok" => SaidOk(k)

\* The executor is at a call of the plan only while the run executes, and what it is
\* about to store is what the tool said.
AtItsCall(r) ==
  /\ pc[r] # "execute" => index[r] = 1 /\ step[r] = "ask" /\ ~ failed[r]
  /\ step[r] # "ask" => index[r] <= Len(plan[r])
  /\ step[r] = "put" =>
       got[r] # "none" /\ (got[r] = "ok" => Call(r).does \in succeeded[Key(r)])

\* As long as no call has failed, the keys of the steps before the next one have said ok.
DoneSoFar(r) ==
  /\ pc[r] = "execute" /\ ~ failed[r] =>
       \A i \in DOMAIN plan[r] : i < index[r] => SaidOk(KeyOf(exec[r], plan[r], i))
  /\ pc[r] = "complete" =>
       \A i \in DOMAIN plan[r] : SaidOk(KeyOf(exec[r], plan[r], i))

\* A run whose checkpoint still is the newest write of the record has its plan there.
WroteItsPlan(r) ==
  pc[r] \in {"execute", "complete"} /\ seen[r] = Version(r) => planOf[exec[r]] = plan[r]

PlanRunInv(r) == MemoryIsTrue(r) /\ AtItsCall(r) /\ DoneSoFar(r) /\ WroteItsPlan(r)

\* Run r has found nothing under key k, and is about to call the tool.
AboutTo(r, k) == step[r] = "perform" /\ Key(r) = k
Calling(k) == {r \in Runs : AboutTo(r, k)}

\* The run that stored a result is not among those that may still have a late effect.
LateIsPaidFor ==
  \A k \in Keys :
    IF stored[k] = NoResult
    THEN late[k] = 0
    ELSE late[k] + Cardinality(Calling(k)) <= Cardinality(Runs) - 1

\* Under each key of a completed execution's recorded plan, a call has said ok.
CompletedSaidOk ==
  \A e \in Executions : store[e].status = "completed" =>
    \A i \in DOMAIN planOf[e] : SaidOk(KeyOf(e, planOf[e], i))

PlanInv ==
  /\ PlanTypeOK
  /\ StoredIsTrue
  /\ \A r \in Runs : PlanRunInv(r)
  /\ CompletedSaidOk
  /\ LateIsPaidFor

----------------------------------------------------------------------------
(* Plans and keys *)

\* The call of a step, its key, and the calls of that key.
LEMMA StepValues ==
  ASSUME NEW e \in Executions, NEW p \in Plans, NEW i \in DOMAIN p
  PROVE  /\ KeyOf(e, p, i) \in Keys
         /\ ToolCall(p, i) \in ToolCalls
         /\ ToolCall(p, i).does = p[i].call
         /\ p[i].call \in Calls
         /\ p[i].call \in CallsUnder(KeyOf(e, p, i))
<1>1. KeyOf(e, p, i) \in Keys
  BY DEF Keys
<1>2. ToolCall(p, i) \in ToolCalls
  BY DEF ToolCalls
<1>3. ToolCall(p, i).does = p[i].call
  BY DEF ToolCall
<1>4. p[i].call \in Calls
  <2>1. p \in Seq(PlanStep)
    BY PlanAssumption
  <2>2. p[i] \in PlanStep
    BY <2>1
  <2> QED
    BY <2>2 DEF PlanStep
<1>5. p[i].call \in CallsUnder(KeyOf(e, p, i))
  BY DEF CallsUnder
<1> QED
  BY <1>1, <1>2, <1>3, <1>4, <1>5

\* The call a run is at and its key.
LEMMA CallValues ==
  ASSUME PlanTypeOK, NEW r \in Runs
  PROVE  /\ plan[r] \in Plans /\ Len(plan[r]) \in Nat
         /\ DOMAIN plan[r] = 1..Len(plan[r])
         /\ index[r] \in Nat \ {0} /\ exec[r] \in Executions
         /\ index[r] <= Len(plan[r]) =>
              /\ index[r] \in DOMAIN plan[r]
              /\ Call(r) \in ToolCalls /\ Key(r) \in Keys
              /\ Call(r).does \in Calls /\ Call(r).does \in CallsUnder(Key(r))
<1>1. plan[r] \in Plans /\ plan[r] \in Seq(PlanStep) /\ index[r] \in Nat \ {0} /\ exec[r] \in Executions
  BY PlanAssumption DEF PlanTypeOK, TypeOK
<1>2. Len(plan[r]) \in Nat /\ DOMAIN plan[r] = 1..Len(plan[r])
  BY <1>1
<1>3. ASSUME index[r] <= Len(plan[r])
      PROVE  /\ index[r] \in DOMAIN plan[r]
             /\ Call(r) \in ToolCalls /\ Key(r) \in Keys
             /\ Call(r).does \in Calls /\ Call(r).does \in CallsUnder(Key(r))
  <2>1. index[r] \in DOMAIN plan[r]
    BY <1>1, <1>2, <1>3
  <2> QED
    BY <1>1, <2>1, StepValues DEF Call, Key
<1> QED
  BY <1>1, <1>2, <1>3

\* A result for the call a run is at.
LEMMA ResultValues ==
  ASSUME NEW r \in Runs, Call(r) \in ToolCalls,
         NEW o \in {"ok", "failed", "ambiguous", "retryable"}
  PROVE  /\ Result(r, o) \in Results /\ Result(r, o) # NoResult
         /\ Result(r, o).outcome = o /\ Result(r, o).call = Call(r)
BY NoResultAssumption DEF Result, Results

----------------------------------------------------------------------------
(* What a step of one run owes to the others *)

PlanLocal(r) == <<plan[r], index[r], step[r], tries[r], got[r], failed[r], cache[r]>>

\* Effects are not undone and results not replaced, and a plan is written only with
\* the record.
Grows ==
  /\ \A k \in Keys : succeeded[k] \subseteq succeeded'[k]
  /\ \A k \in Keys : stored[k] # NoResult => stored'[k] = stored[k]
  /\ \A e \in Executions : store'[e] = store[e] => planOf'[e] = planOf[e]

\* A run goes to its tool only where nothing is stored, and an effect that is late is
\* that of a run that did so before.
LateStep(r) ==
  \A k \in Keys :
    /\ AboutTo(r, k)' => AboutTo(r, k) \/ stored'[k] = NoResult
    /\ stored[k] = NoResult /\ stored'[k] # NoResult => ~ AboutTo(r, k)'
    /\ \/ late'[k] = late[k]
       \/ /\ late'[k] = late[k] + 1
          /\ stored[k] # NoResult /\ AboutTo(r, k) /\ ~ AboutTo(r, k)'

PlanStepOf(r) ==
  /\ \A q \in Runs \ {r} : UNCHANGED Local(q) /\ UNCHANGED PlanLocal(q)
  /\ PlanTypeOK'
  /\ Grows
  /\ StoredIsTrue'
  /\ PlanRunInv(r)'
  /\ CompletedSaidOk'
  /\ LateStep(r)

\* What is done stays done.
LEMMA DoneStays ==
  ASSUME Grows, NEW k \in Keys, SaidOk(k)
  PROVE  DoneThen(k) /\ SaidOk(k)'
<1>1. PICK c \in succeeded[k] :
        Durable => stored[k] # NoResult /\ stored[k].outcome = "ok" /\ stored[k].call.does = c
  BY DEF SaidOk
<1>2. /\ c \in succeeded'[k]
      /\ Durable => stored'[k] # NoResult /\ stored'[k].outcome = "ok" /\ stored'[k].call.does = c
  BY <1>1 DEF Grows
<1>3. DoneThen(k)
  BY <1>2 DEF DoneThen
<1> QED
  BY <1>3 DEF DoneThen, SaidOk

\* A run that does not move keeps its invariant.
LEMMA PlanBystander ==
  ASSUME IInv, PlanInv, StoreStep, Grows, NEW q \in Runs,
         UNCHANGED Local(q), UNCHANGED PlanLocal(q)
  PROVE  PlanRunInv(q)'
<1>0. /\ PlanTypeOK /\ PlanRunInv(q)
      /\ pc'[q] = pc[q] /\ exec'[q] = exec[q] /\ seen'[q] = seen[q]
      /\ plan'[q] = plan[q] /\ index'[q] = index[q] /\ step'[q] = step[q]
      /\ got'[q] = got[q] /\ failed'[q] = failed[q] /\ cache'[q] = cache[q]
      /\ exec[q] \in Executions
  BY DEF PlanInv, Local, PlanLocal, IInv, TypeOK
<1>1. MemoryIsTrue(q)'
  BY <1>0, DoneStays DEF PlanRunInv, MemoryIsTrue
<1>2. AtItsCall(q)'
  BY <1>0, CallValues DEF PlanRunInv, AtItsCall, Call, Key, Grows
<1>3. DoneSoFar(q)'
  BY <1>0, CallValues, StepValues, DoneStays DEF PlanRunInv, DoneSoFar
<1>4. WroteItsPlan(q)'
  <2> SUFFICES ASSUME pc[q] \in {"execute", "complete"}, seen[q] = Version(q)'
               PROVE  planOf'[exec[q]] = plan[q]
    BY <1>0 DEF WroteItsPlan
  <2>1. seen[q] \in Nat /\ seen[q] <= store[exec[q]].version
    BY DEF IInv, TypeOK, RunInv, HasSeenThePast, Version
  <2>2. /\ store[exec[q]].version \in Nat /\ store'[exec[q]].version \in Nat
        /\ store[exec[q]].version <= store'[exec[q]].version
        /\ store[exec[q]].version = store'[exec[q]].version => store'[exec[q]] = store[exec[q]]
    BY <1>0, StoreMoves DEF IInv, TypeOK
  <2>3. store'[exec[q]] = store[exec[q]] /\ seen[q] = Version(q)
    BY <1>0, <2>1, <2>2 DEF Version
  <2> QED
    BY <1>0, <2>3 DEF PlanRunInv, WroteItsPlan, Grows
<1> QED
  BY <1>1, <1>2, <1>3, <1>4 DEF PlanRunInv

\* Late effects stay paid for.
LEMMA LateRely ==
  ASSUME PlanInv, NEW r \in Runs, PlanStepOf(r)
  PROVE  LateIsPaidFor'
<1> SUFFICES ASSUME NEW k \in Keys
             PROVE  (IF stored[k] = NoResult
                     THEN late[k] = 0
                     ELSE late[k] + Cardinality(Calling(k)) <= Cardinality(Runs) - 1)'
  BY DEF LateIsPaidFor
<1> DEFINE before == Calling(k)
           after == Calling(k)'
<1>1. /\ IsFiniteSet(Runs) /\ Cardinality(Runs) \in Nat
      /\ IsFiniteSet(Runs \ {r}) /\ Cardinality(Runs \ {r}) = Cardinality(Runs) - 1
  BY PlanAssumption, FS_CardinalityType, FS_RemoveElement
<1>2. /\ before \in SUBSET Runs /\ after \in SUBSET Runs
      /\ IsFiniteSet(before) /\ Cardinality(before) \in Nat
      /\ IsFiniteSet(after) /\ Cardinality(after) \in Nat
  <2>1. before \in SUBSET Runs /\ after \in SUBSET Runs
    BY DEF Calling
  <2> HIDE DEF before, after
  <2> QED
    BY <1>1, <2>1, FS_Subset, FS_CardinalityType
<1>3. \A q \in Runs \ {r} : AboutTo(q, k)' <=> AboutTo(q, k)
  BY DEF PlanStepOf, Local, PlanLocal, AboutTo, Key
<1>4. /\ AboutTo(r, k)' => AboutTo(r, k) \/ stored'[k] = NoResult
      /\ stored[k] = NoResult /\ stored'[k] # NoResult => ~ AboutTo(r, k)'
      /\ \/ late'[k] = late[k]
         \/ /\ late'[k] = late[k] + 1
            /\ stored[k] # NoResult /\ AboutTo(r, k) /\ ~ AboutTo(r, k)'
      /\ stored[k] # NoResult => stored'[k] = stored[k]
  BY DEF PlanStepOf, LateStep, Grows
<1>5. late[k] \in Nat
  BY DEF PlanInv, PlanTypeOK
<1>6. IF stored[k] = NoResult
      THEN late[k] = 0
      ELSE late[k] + Cardinality(before) <= Cardinality(Runs) - 1
  BY DEF PlanInv, LateIsPaidFor
<1>7. CASE stored'[k] = NoResult
  BY <1>4, <1>6, <1>7
<1>8. CASE stored'[k] # NoResult /\ stored[k] = NoResult
  <2>1. after \in SUBSET (Runs \ {r})
    BY <1>4, <1>8 DEF Calling
  <2>2. Cardinality(after) <= Cardinality(Runs) - 1
    <3> HIDE DEF after
    <3> QED
      BY <1>1, <2>1, FS_Subset
  <2>3. late'[k] = 0
    BY <1>4, <1>6, <1>8
  <2> QED
    BY <1>1, <1>2, <1>8, <2>2, <2>3
<1>9. CASE stored'[k] # NoResult /\ stored[k] # NoResult
  <2>1. CASE late'[k] = late[k]
    <3>1. after \in SUBSET before
      BY <1>3, <1>4, <1>9 DEF Calling
    <3>2. Cardinality(after) <= Cardinality(before)
      <4> HIDE DEF before, after
      <4> QED
        BY <1>2, <3>1, FS_Subset
    <3> QED
      BY <1>1, <1>2, <1>5, <1>6, <1>9, <2>1, <3>2
  <2>2. CASE late'[k] = late[k] + 1 /\ AboutTo(r, k) /\ ~ AboutTo(r, k)'
    <3>1. after \in SUBSET (before \ {r}) /\ r \in before
      BY <1>3, <2>2 DEF Calling
    <3>2. Cardinality(after) <= Cardinality(before) - 1
      <4> HIDE DEF before, after
      <4>1. IsFiniteSet(before \ {r}) /\ Cardinality(before \ {r}) = Cardinality(before) - 1
        BY <1>2, <3>1, FS_RemoveElement
      <4> QED
        BY <3>1, <4>1, FS_Subset
    <3> QED
      BY <1>1, <1>2, <1>5, <1>6, <1>9, <2>2, <3>2
  <2> QED
    BY <1>4, <1>9, <2>1, <2>2
<1> QED
  BY <1>7, <1>8, <1>9

\* With what a step owes the invariant is kept.
LEMMA PlanRely ==
  ASSUME IInv, PlanInv, StoreStep, NEW r \in Runs, PlanStepOf(r)
  PROVE  PlanInv'
<1>1. \A q \in Runs : PlanRunInv(q)'
  BY PlanBystander DEF PlanStepOf
<1> QED
  BY <1>1, LateRely DEF PlanInv, PlanStepOf

----------------------------------------------------------------------------
(* The executor's steps *)

\* A step of the executor leaves the loop alone.  It stays at its call or has it
\* answered, and an answer that is ok is that of a call that is done.
LEMMA ExecutorRely ==
  ASSUME IInv, PlanInv, NEW r \in Runs, pc[r] = "execute", index[r] <= Len(plan[r]),
         UNCHANGED <<vars, planOf, plan>>,
         PlanTypeOK', Grows, StoredIsTrue', MemoryIsTrue(r)', LateStep(r),
         \A q \in Runs \ {r} : UNCHANGED PlanLocal(q),
         \/ /\ index'[r] = index[r] /\ failed'[r] = failed[r]
            /\ step'[r] = "put" =>
                 got'[r] # "none" /\ (got'[r] = "ok" => Call(r).does \in succeeded'[Key(r)])
         \/ /\ index'[r] = index[r] + 1 /\ step'[r] = "ask"
            /\ ~ failed'[r] => ~ failed[r] /\ DoneThen(Key(r))
  PROVE  PlanStepOf(r)
<1>0. /\ PlanTypeOK /\ PlanRunInv(r)
      /\ pc' = pc /\ exec' = exec /\ seen' = seen /\ store' = store /\ plan' = plan /\ planOf' = planOf
      /\ UNCHANGED <<attempt, outcome>>
      /\ plan[r] \in Plans /\ DOMAIN plan[r] = 1..Len(plan[r]) /\ Len(plan[r]) \in Nat
      /\ index[r] \in Nat \ {0} /\ exec[r] \in Executions
  BY CallValues DEF vars, PlanInv
<1>1. \A q \in Runs \ {r} : UNCHANGED Local(q)
  BY <1>0 DEF Local
<1>2. AtItsCall(r)'
  BY <1>0 DEF PlanRunInv, AtItsCall, Call, Key
<1>3. DoneSoFar(r)'
  <2> SUFFICES ASSUME pc[r] = "execute", ~ failed'[r], NEW i \in DOMAIN plan[r], i < index'[r]
               PROVE  DoneThen(KeyOf(exec[r], plan[r], i))
    BY <1>0 DEF DoneSoFar, SaidOk, DoneThen
  <2>1. CASE i < index[r]
    <3>1. SaidOk(KeyOf(exec[r], plan[r], i))
      BY <1>0, <2>1 DEF PlanRunInv, DoneSoFar
    <3> QED
      BY <1>0, <3>1, StepValues, DoneStays
  <2>2. CASE ~ i < index[r]
    <3>1. i = index[r] /\ index'[r] = index[r] + 1
      BY <1>0, <2>2
    <3> QED
      BY <1>0, <3>1 DEF Key
  <2> QED
    BY <2>1, <2>2
<1>4. WroteItsPlan(r)'
  BY <1>0 DEF PlanRunInv, WroteItsPlan, Version
<1>5. CompletedSaidOk'
  <2> SUFFICES ASSUME NEW e \in Executions, store[e].status = "completed",
                      NEW i \in DOMAIN planOf[e]
               PROVE  SaidOk(KeyOf(e, planOf[e], i))'
    BY <1>0 DEF CompletedSaidOk
  <2>1. SaidOk(KeyOf(e, planOf[e], i)) /\ planOf[e] \in Plans
    BY <1>0 DEF PlanInv, CompletedSaidOk, PlanTypeOK
  <2>2. DoneThen(KeyOf(e, planOf[e], i))
    BY <2>1, StepValues, DoneStays
  <2> QED
    BY <1>0, <2>2 DEF DoneThen, SaidOk
<1> QED
  BY <1>1, <1>2, <1>3, <1>4, <1>5 DEF PlanStepOf, PlanRunInv

\* What an answer does to the locals.
LEMMA AnsweredMoves ==
  ASSUME PlanTypeOK, NEW r \in Runs, NEW o \in {"ok", "failed", "ambiguous", "retryable"},
         Answered(r, o)
  PROVE  /\ index' \in [Runs -> Nat \ {0}]
         /\ step' \in [Runs -> {"ask", "perform", "performed", "put"}]
         /\ tries' \in [Runs -> 0..Retries]
         /\ got' \in [Runs -> {"none", "ok", "failed"}]
         /\ failed' \in [Runs -> BOOLEAN]
         /\ index'[r] = index[r] + 1 /\ step'[r] = "ask"
         /\ ~ failed'[r] => ~ failed[r] /\ o = "ok"
         /\ \A q \in Runs \ {r} :
              /\ index'[q] = index[q] /\ step'[q] = step[q] /\ tries'[q] = tries[q]
              /\ got'[q] = got[q] /\ failed'[q] = failed[q]
<1>1. index' \in [Runs -> Nat \ {0}] /\ index'[r] = index[r] + 1
      /\ \A q \in Runs \ {r} : index'[q] = index[q]
  BY DEF Answered, PlanTypeOK
<1>2. /\ failed' \in [Runs -> BOOLEAN]
      /\ failed'[r] = (failed[r] \/ o # "ok")
      /\ \A q \in Runs \ {r} : failed'[q] = failed[q]
  <2>1. (failed[r] \/ o # "ok") \in BOOLEAN
    BY Zenon
  <2>2. failed' = [failed EXCEPT ![r] = failed[r] \/ o # "ok"]
    BY Zenon DEF Answered
  <2>3. failed \in [Runs -> BOOLEAN]
    BY DEF PlanTypeOK
  <2> QED
    BY <2>1, <2>2, <2>3, Zenon
<1>3. ~ failed'[r] => ~ failed[r] /\ o = "ok"
  BY <1>2
<1>4. Retries \in Nat
  BY PlanAssumption
<1> QED
  BY <1>1, <1>2, <1>3, <1>4 DEF Answered, Goes, PlanTypeOK

\* What remembering a result does to the memories.
LEMMA RememberMoves ==
  ASSUME PlanTypeOK, NEW r \in Runs, index[r] <= Len(plan[r]), NEW x \in Results, Remember(r, x)
  PROVE  /\ cache' \in [Runs -> [Keys -> Results \union {NoResult}]]
         /\ \A q \in Runs \ {r} : cache'[q] = cache[q]
         /\ cache'[r][Key(r)] = x
         /\ \A k \in Keys : k # Key(r) => cache'[r][k] = cache[r][k]
<1>1. Key(r) \in Keys
  BY CallValues
<1>2. cache \in [Runs -> [Keys -> Results \union {NoResult}]]
  BY DEF PlanTypeOK
<1> DEFINE k0 == Key(r)
<1> HIDE DEF k0
<1>3. cache' = [cache EXCEPT ![r][k0] = x]
  BY DEF Remember, k0
<1>4. k0 \in Keys
  BY <1>1 DEF k0
<1>5. /\ cache' \in [Runs -> [Keys -> Results \union {NoResult}]]
      /\ \A q \in Runs \ {r} : cache'[q] = cache[q]
      /\ cache'[r][k0] = x
      /\ \A k \in Keys : k # k0 => cache'[r][k] = cache[r][k]
  BY <1>2, <1>3, <1>4
<1> QED
  BY <1>5 DEF k0

\* A memory stays true when it takes in a result that is ok only for a call that is done.
LEMMA RememberTrue ==
  ASSUME PlanInv, Grows, NEW r \in Runs, index[r] <= Len(plan[r]), NEW x \in Results,
         Remember(r, x), x.outcome = "ok" => DoneThen(Key(r))
  PROVE  MemoryIsTrue(r)'
<1> SUFFICES ASSUME NEW k \in Keys, cache'[r][k] # NoResult, cache'[r][k].outcome = "ok"
             PROVE  DoneThen(k)
  BY DEF MemoryIsTrue, SaidOk, DoneThen
<1>0. PlanTypeOK /\ MemoryIsTrue(r)
  BY DEF PlanInv, PlanRunInv
<1>1. CASE k = Key(r)
  BY <1>0, <1>1, RememberMoves
<1>2. CASE k # Key(r)
  <2>1. cache'[r][k] = cache[r][k]
    BY <1>0, <1>2, RememberMoves
  <2>2. SaidOk(k)
    BY <1>0, <2>1 DEF MemoryIsTrue
  <2> QED
    BY <2>2, DoneStays
<1> QED
  BY <1>1, <1>2

\* What an answer that is remembered does to types, and to the other runs.
LEMMA RememberedAnswer ==
  ASSUME PlanTypeOK, TypeOK', NEW r \in Runs, index[r] <= Len(plan[r]),
         NEW x \in Results, Remember(r, x),
         NEW o \in {"ok", "failed", "ambiguous", "retryable"}, Answered(r, o),
         UNCHANGED <<planOf, plan, late>>,
         stored' \in [Keys -> Results \union {NoResult}],
         succeeded' \in [Keys -> SUBSET Calls]
  PROVE  PlanTypeOK' /\ \A q \in Runs \ {r} : UNCHANGED PlanLocal(q)
<1>1. /\ cache' \in [Runs -> [Keys -> Results \union {NoResult}]]
      /\ \A q \in Runs \ {r} : cache'[q] = cache[q]
  BY RememberMoves
<1>2. /\ index' \in [Runs -> Nat \ {0}]
      /\ step' \in [Runs -> {"ask", "perform", "performed", "put"}]
      /\ tries' \in [Runs -> 0..Retries]
      /\ got' \in [Runs -> {"none", "ok", "failed"}]
      /\ failed' \in [Runs -> BOOLEAN]
  BY AnsweredMoves
<1>3. \A q \in Runs \ {r} :
        /\ index'[q] = index[q] /\ step'[q] = step[q] /\ tries'[q] = tries[q]
        /\ got'[q] = got[q] /\ failed'[q] = failed[q]
  BY AnsweredMoves
<1>4. PlanTypeOK'
  BY <1>1, <1>2 DEF PlanTypeOK
<1>5. ASSUME NEW q \in Runs \ {r} PROVE UNCHANGED PlanLocal(q)
  BY <1>1, <1>3 DEF PlanLocal
<1> QED
  BY <1>4, <1>5

\* What the end of a process, if it is one, does to the memories.
LEMMA MemoryKeptOrLost ==
  ASSUME PlanTypeOK, NEW r \in Runs, UNCHANGED cache \/ cache' = [cache EXCEPT ![r] = Nothing]
  PROVE  /\ cache' \in [Runs -> [Keys -> Results \union {NoResult}]]
         /\ \A q \in Runs \ {r} : cache'[q] = cache[q]
         /\ cache'[r] = cache[r] \/ cache'[r] = Nothing
<1>1. cache \in [Runs -> [Keys -> Results \union {NoResult}]]
  BY DEF PlanTypeOK
<1>2. Nothing \in [Keys -> Results \union {NoResult}]
  BY DEF Nothing
<1> QED
  BY <1>1, <1>2

\* A step that neither stores nor has an effect, and does not go to the tool.
LEMMA NotLate ==
  ASSUME UNCHANGED <<stored, late>>, NEW r \in Runs, step'[r] # "perform"
  PROVE  LateStep(r)
BY DEF LateStep, AboutTo

\* The call is looked up.
LEMMA AskStep ==
  ASSUME IInv, PlanInv, NEW r \in Runs, Ask(r)
  PROVE  PlanStepOf(r)
<1>0. /\ PlanTypeOK /\ pc[r] = "execute" /\ index[r] <= Len(plan[r])
      /\ UNCHANGED <<vars, planOf, plan, stored, succeeded, late>>
      /\ step[r] = "ask" /\ MemoryIsTrue(r) /\ StoredIsTrue
  BY DEF PlanInv, PlanRunInv, Ask
<1>1. TypeOK' /\ Grows /\ StoredIsTrue'
  BY <1>0 DEF PlanTypeOK, TypeOK, StoreTypeOK, vars, Grows, StoredIsTrue
<1>2. /\ Call(r) \in ToolCalls /\ Key(r) \in Keys
      /\ Cached(r) \in Results \union {NoResult} /\ Stored(r) \in Results \union {NoResult}
  BY <1>0, CallValues DEF PlanTypeOK, Cached, Stored
<1>3. ASSUME Remembered(r), Answered(r, Cached(r).outcome), UNCHANGED cache
      PROVE  PlanStepOf(r)
  <2>1. Cached(r).outcome \in {"ok", "failed", "ambiguous", "retryable"}
    BY <1>2, <1>3 DEF Remembered, Results
  <2>2. Cached(r).outcome = "ok" => DoneThen(Key(r))
    BY <1>0, <1>1, <1>2, <1>3, DoneStays DEF Remembered, Cached, MemoryIsTrue
  <2>3. PlanTypeOK'
    BY <1>0, <1>1, <1>3, <2>1, AnsweredMoves DEF PlanTypeOK
  <2>4. MemoryIsTrue(r)'
    BY <1>0, <1>3 DEF MemoryIsTrue, SaidOk
  <2>5. \A q \in Runs \ {r} : UNCHANGED PlanLocal(q)
    BY <1>0, <1>3, <2>1, AnsweredMoves DEF PlanLocal
  <2>6. LateStep(r)
    BY <1>0, <1>3, <2>1, AnsweredMoves, NotLate
  <2> QED
    BY <1>0, <1>1, <1>3, <2>1, <2>2, <2>3, <2>4, <2>5, <2>6, AnsweredMoves, ExecutorRely
<1>4. ASSUME Stored(r) # NoResult, Remember(r, Stored(r)), Answered(r, Stored(r).outcome)
      PROVE  PlanStepOf(r)
  <2>1. Stored(r) \in Results /\ Stored(r).outcome \in {"ok", "failed", "ambiguous", "retryable"}
    BY <1>2, <1>4 DEF Results
  <2>2. Stored(r).outcome = "ok" => DoneThen(Key(r))
    BY <1>0, <1>2, <1>4 DEF Stored, StoredIsTrue, DoneThen
  <2>3. PlanTypeOK' /\ \A q \in Runs \ {r} : UNCHANGED PlanLocal(q)
    <3>1. /\ stored' \in [Keys -> Results \union {NoResult}]
          /\ succeeded' \in [Keys -> SUBSET Calls]
      BY <1>0 DEF PlanTypeOK
    <3> QED
      BY <1>0, <1>1, <1>4, <2>1, <3>1, RememberedAnswer
  <2>4. MemoryIsTrue(r)'
    BY <1>0, <1>1, <1>4, <2>1, <2>2, RememberTrue
  <2>5. LateStep(r)
    BY <1>0, <1>4, <2>1, AnsweredMoves, NotLate
  <2> QED
    BY <1>0, <1>1, <1>4, <2>1, <2>2, <2>3, <2>4, <2>5, AnsweredMoves, ExecutorRely
<1>5. ASSUME Stored(r) = NoResult, Goes(r, "perform"), UNCHANGED <<index, tries, got, failed, cache>>
      PROVE  PlanStepOf(r)
  <2>1. PlanTypeOK' /\ step'[r] = "perform" /\ \A q \in Runs \ {r} : step'[q] = step[q]
    BY <1>0, <1>1, <1>5 DEF PlanTypeOK, Goes
  <2>2. MemoryIsTrue(r)'
    BY <1>0, <1>5 DEF MemoryIsTrue, SaidOk
  <2>3. \A q \in Runs \ {r} : UNCHANGED PlanLocal(q)
    BY <1>0, <1>5, <2>1 DEF PlanLocal
  <2>4. LateStep(r)
    BY <1>0, <1>5, <2>1 DEF LateStep, AboutTo, Key, Stored, vars
  <2> QED
    BY <1>0, <1>1, <1>5, <2>1, <2>2, <2>3, <2>4, ExecutorRely
<1> QED
  BY <1>3, <1>4, <1>5 DEF Ask

\* The effect, late or not.
LEMMA PerformStep ==
  ASSUME IInv, PlanInv, NEW r \in Runs, Perform(r)
  PROVE  PlanStepOf(r)
<1>0. /\ PlanTypeOK /\ pc[r] = "execute" /\ step[r] = "perform" /\ index[r] <= Len(plan[r])
      /\ UNCHANGED <<vars, planOf, plan, index, tries, got, failed, cache, stored, succeeded>>
      /\ MemoryIsTrue(r) /\ StoredIsTrue
  BY DEF PlanInv, PlanRunInv, AtItsCall, Perform
<1>1. TypeOK' /\ Grows /\ StoredIsTrue'
  BY <1>0 DEF PlanTypeOK, TypeOK, StoreTypeOK, vars, Grows, StoredIsTrue
<1> DEFINE k0 == Key(r)
<1>2. k0 \in Keys
  BY <1>0, CallValues
<1>3. /\ late' = [late EXCEPT ![k0] = IF stored[k0] = NoResult THEN @ ELSE @ + 1]
      /\ AboutTo(r, k0)
      /\ \A k \in Keys : AboutTo(r, k) => k = k0
  BY <1>0 DEF Perform, Stored, AboutTo
<1>4. step' = [step EXCEPT ![r] = "performed"]
  BY DEF Perform, Goes
<1> HIDE DEF k0
<1>5. late \in [Keys -> Nat] /\ step \in [Runs -> {"ask", "perform", "performed", "put"}]
  BY <1>0 DEF PlanTypeOK
<1>6. /\ late' \in [Keys -> Nat]
      /\ \A k \in Keys :
           late'[k] = IF k = k0 /\ stored[k0] # NoResult THEN late[k] + 1 ELSE late[k]
  BY <1>2, <1>3, <1>5
<1>7. /\ step'[r] = "performed" /\ step' \in [Runs -> {"ask", "perform", "performed", "put"}]
      /\ \A q \in Runs \ {r} : step'[q] = step[q]
  BY <1>4, <1>5
<1>8. LateStep(r)
  <2> SUFFICES ASSUME NEW k \in Keys
               PROVE  /\ ~ AboutTo(r, k)'
                      /\ \/ late'[k] = late[k]
                         \/ /\ late'[k] = late[k] + 1
                            /\ stored[k] # NoResult /\ AboutTo(r, k)
    BY DEF LateStep
  <2> QED
    BY <1>3, <1>6, <1>7 DEF AboutTo
<1>9. PlanTypeOK'
  BY <1>0, <1>1, <1>6, <1>7 DEF PlanTypeOK
<1>10. MemoryIsTrue(r)' /\ \A q \in Runs \ {r} : UNCHANGED PlanLocal(q)
  BY <1>0, <1>7 DEF MemoryIsTrue, SaidOk, PlanLocal
<1> QED
  BY <1>0, <1>1, <1>7, <1>8, <1>9, <1>10, ExecutorRely

\* The tool returns.
LEMMA ConcludeStep ==
  ASSUME IInv, PlanInv, NEW r \in Runs, Conclude(r)
  PROVE  PlanStepOf(r)
<1>0. /\ PlanTypeOK /\ pc[r] = "execute" /\ step[r] = "performed" /\ index[r] <= Len(plan[r])
      /\ UNCHANGED <<vars, planOf, plan, stored, late>>
      /\ MemoryIsTrue(r) /\ StoredIsTrue
      /\ Call(r) \in ToolCalls /\ Key(r) \in Keys
      /\ Call(r).does \in Calls /\ Call(r).does \in CallsUnder(Key(r))
  BY CallValues DEF PlanInv, PlanRunInv, AtItsCall, Conclude
<1>1. PICK o \in {"ok", "failed"} :
        /\ succeeded' = IF o = "ok" THEN [succeeded EXCEPT ![Key(r)] = @ \union {Call(r).does}]
                                    ELSE succeeded
        /\ IF Durable
           THEN /\ got' = [got EXCEPT ![r] = o]
                /\ Goes(r, "put")
                /\ UNCHANGED <<index, tries, failed, cache>>
           ELSE /\ Remember(r, Result(r, o))
                /\ Answered(r, o)
  BY DEF Conclude
<1>2. /\ succeeded' \in [Keys -> SUBSET Calls]
      /\ \A k \in Keys : succeeded[k] \subseteq succeeded'[k]
      /\ \A k \in Keys : succeeded[k] \subseteq CallsUnder(k) => succeeded'[k] \subseteq CallsUnder(k)
      /\ o = "ok" => Call(r).does \in succeeded'[Key(r)]
  <2> DEFINE k0 == Key(r)
             c0 == Call(r).does
  <2>1. k0 \in Keys /\ c0 \in Calls /\ c0 \in CallsUnder(k0)
    BY <1>0
  <2>2. succeeded' = IF o = "ok" THEN [succeeded EXCEPT ![k0] = @ \union {c0}] ELSE succeeded
    BY <1>1
  <2>3. succeeded \in [Keys -> SUBSET Calls]
    BY <1>0 DEF PlanTypeOK
  <2> HIDE DEF k0, c0
  <2>4. /\ succeeded' \in [Keys -> SUBSET Calls]
        /\ \A k \in Keys : succeeded[k] \subseteq succeeded'[k]
        /\ \A k \in Keys : succeeded[k] \subseteq CallsUnder(k) => succeeded'[k] \subseteq CallsUnder(k)
        /\ o = "ok" => c0 \in succeeded'[k0]
    BY <2>1, <2>2, <2>3
  <2> QED
    BY <2>4 DEF k0, c0
<1>3. TypeOK' /\ Grows /\ StoredIsTrue'
  <2>1. TypeOK' /\ Grows
    BY <1>0, <1>2 DEF PlanTypeOK, TypeOK, StoreTypeOK, vars, Grows
  <2> QED
    BY <1>0, <1>2, <2>1 DEF StoredIsTrue
<1>4. CASE Durable
  <2>1. /\ got' = [got EXCEPT ![r] = o] /\ step' = [step EXCEPT ![r] = "put"]
        /\ UNCHANGED <<index, tries, failed, cache>>
    BY <1>1, <1>4 DEF Goes
  <2>2. /\ PlanTypeOK' /\ step'[r] = "put" /\ got'[r] = o
        /\ \A q \in Runs \ {r} : UNCHANGED PlanLocal(q)
    BY <1>0, <1>2, <1>3, <2>1 DEF PlanTypeOK, PlanLocal
  <2>3. MemoryIsTrue(r)'
    BY <1>0, <1>3, <2>1, DoneStays DEF MemoryIsTrue
  <2>4. LateStep(r)
    BY <1>0, <2>2, NotLate
  <2> QED
    BY <1>0, <1>2, <1>3, <2>1, <2>2, <2>3, <2>4, ExecutorRely
<1>5. CASE ~ Durable
  <2>1. Remember(r, Result(r, o)) /\ Answered(r, o)
    BY <1>1, <1>5
  <2>2. Result(r, o) \in Results /\ Result(r, o).outcome = o
    BY <1>0, ResultValues
  <2>3. o = "ok" => DoneThen(Key(r))
    BY <1>2, <1>5 DEF DoneThen
  <2>4. PlanTypeOK' /\ \A q \in Runs \ {r} : UNCHANGED PlanLocal(q)
    <3>1. stored' \in [Keys -> Results \union {NoResult}]
      BY <1>0 DEF PlanTypeOK
    <3> QED
      BY <1>0, <1>2, <1>3, <2>1, <2>2, <3>1, RememberedAnswer
  <2>5. MemoryIsTrue(r)'
    BY <1>0, <1>3, <2>1, <2>2, <2>3, RememberTrue
  <2>6. LateStep(r)
    BY <1>0, <2>1, AnsweredMoves, NotLate
  <2> QED
    BY <1>0, <1>3, <2>1, <2>3, <2>4, <2>5, <2>6, AnsweredMoves, ExecutorRely
<1> QED
  BY <1>4, <1>5

\* It does not: nothing is stored, and no answer is ok.
LEMMA BreakOffStep ==
  ASSUME IInv, PlanInv, NEW r \in Runs, BreakOff(r)
  PROVE  PlanStepOf(r)
<1>0. /\ PlanTypeOK /\ pc[r] = "execute" /\ index[r] <= Len(plan[r])
      /\ UNCHANGED <<vars, planOf, plan, stored, succeeded, late>>
      /\ StoredIsTrue /\ Call(r) \in ToolCalls
  BY CallValues DEF PlanInv, PlanRunInv, AtItsCall, BreakOff
<1>1. TypeOK' /\ Grows /\ StoredIsTrue'
  BY <1>0 DEF PlanTypeOK, TypeOK, StoreTypeOK, vars, Grows, StoredIsTrue
<1>2. PICK o \in {"ambiguous", "retryable"} :
        /\ Remember(r, Result(r, o))
        /\ IF o = "retryable" /\ tries[r] < Retries
           THEN /\ tries' = [tries EXCEPT ![r] = @ + 1]
                /\ Goes(r, "ask")
                /\ UNCHANGED <<index, got, failed>>
           ELSE Answered(r, o)
  BY DEF BreakOff
<1>3. Result(r, o) \in Results /\ Result(r, o).outcome = o /\ o # "ok"
  BY <1>0, ResultValues
<1>4. MemoryIsTrue(r)'
  BY <1>0, <1>1, <1>2, <1>3, RememberTrue
<1>5. CASE o = "retryable" /\ tries[r] < Retries
  <2>1. /\ tries' = [tries EXCEPT ![r] = @ + 1] /\ step' = [step EXCEPT ![r] = "ask"]
        /\ UNCHANGED <<index, got, failed>>
    BY <1>2, <1>5 DEF Goes
  <2>2. tries[r] + 1 \in 0..Retries
    BY <1>0, <1>5, PlanAssumption DEF PlanTypeOK
  <2>3. /\ step'[r] = "ask" /\ step' \in [Runs -> {"ask", "perform", "performed", "put"}]
        /\ tries' \in [Runs -> 0..Retries]
        /\ \A q \in Runs \ {r} : step'[q] = step[q] /\ tries'[q] = tries[q]
    BY <1>0, <2>1, <2>2 DEF PlanTypeOK
  <2>4. PlanTypeOK'
    BY <1>0, <1>1, <1>2, <1>3, <2>1, <2>3, RememberMoves DEF PlanTypeOK
  <2>5. \A q \in Runs \ {r} : UNCHANGED PlanLocal(q)
    BY <1>0, <1>2, <1>3, <2>1, <2>3, RememberMoves DEF PlanLocal
  <2>6. LateStep(r)
    BY <1>0, <2>3, NotLate
  <2> QED
    BY <1>0, <1>1, <1>4, <2>1, <2>3, <2>4, <2>5, <2>6, ExecutorRely
<1>6. CASE ~ (o = "retryable" /\ tries[r] < Retries)
  <2>1. Answered(r, o)
    BY <1>2, <1>6
  <2>2. PlanTypeOK' /\ \A q \in Runs \ {r} : UNCHANGED PlanLocal(q)
    <3>1. /\ stored' \in [Keys -> Results \union {NoResult}]
          /\ succeeded' \in [Keys -> SUBSET Calls]
      BY <1>0 DEF PlanTypeOK
    <3> QED
      BY <1>0, <1>1, <1>2, <1>3, <2>1, <3>1, RememberedAnswer
  <2>3. LateStep(r)
    BY <1>0, <2>1, AnsweredMoves, NotLate
  <2> QED
    BY <1>0, <1>1, <1>3, <1>4, <2>1, <2>2, <2>3, AnsweredMoves, ExecutorRely
<1> QED
  BY <1>5, <1>6

\* put_if_absent: the first result counts.
LEMMA PutStep ==
  ASSUME IInv, PlanInv, NEW r \in Runs, Put(r)
  PROVE  PlanStepOf(r)
<1>0. /\ PlanTypeOK /\ pc[r] = "execute" /\ step[r] = "put" /\ index[r] <= Len(plan[r])
      /\ UNCHANGED <<vars, planOf, plan, succeeded, late>>
      /\ StoredIsTrue /\ Call(r) \in ToolCalls /\ Key(r) \in Keys
      /\ got[r] \in {"ok", "failed"} /\ (got[r] = "ok" => Call(r).does \in succeeded[Key(r)])
  BY CallValues DEF PlanInv, PlanRunInv, AtItsCall, Put, PlanTypeOK
<1> DEFINE k0 == Key(r)
           first == IF Stored(r) = NoResult THEN Result(r, got[r]) ELSE Stored(r)
<1>1. k0 \in Keys
  BY <1>0
<1>2. /\ stored' = [stored EXCEPT ![k0] = first]
      /\ Remember(r, first) /\ Answered(r, first.outcome)
  BY DEF Put
<1>3. /\ first \in Results /\ first # NoResult
      /\ first.outcome \in {"ok", "failed", "ambiguous", "retryable"}
      /\ stored[k0] # NoResult => first = stored[k0]
      /\ first.outcome = "ok" => first.call.does \in succeeded[k0]
  <2>1. Result(r, got[r]) \in Results /\ Result(r, got[r]) # NoResult
        /\ Result(r, got[r]).outcome = got[r] /\ Result(r, got[r]).call = Call(r)
    BY <1>0, ResultValues
  <2>2. Stored(r) \in Results \union {NoResult} /\ Stored(r) = stored[k0]
    BY <1>0, <1>1 DEF PlanTypeOK, Stored
  <2>3. CASE Stored(r) = NoResult
    BY <1>0, <2>1, <2>2, <2>3 DEF Results
  <2>4. CASE Stored(r) # NoResult
    BY <1>0, <1>1, <2>2, <2>4 DEF Results, StoredIsTrue
  <2> QED
    BY <2>3, <2>4
<1> HIDE DEF k0, first
<1>4. /\ stored' \in [Keys -> Results \union {NoResult}]
      /\ stored'[k0] = first
      /\ \A k \in Keys : k # k0 => stored'[k] = stored[k]
  BY <1>0, <1>1, <1>2, <1>3 DEF PlanTypeOK
<1>5. \A k \in Keys : stored[k] # NoResult => stored'[k] = stored[k]
  BY <1>3, <1>4
<1>6. TypeOK' /\ Grows
  BY <1>0, <1>5 DEF PlanTypeOK, TypeOK, StoreTypeOK, vars, Grows
<1>7. StoredIsTrue'
  <2> SUFFICES ASSUME NEW k \in Keys
               PROVE  /\ succeeded[k] \subseteq CallsUnder(k)
                      /\ stored'[k] # NoResult /\ stored'[k].outcome = "ok" =>
                           stored'[k].call.does \in succeeded[k]
    BY <1>0 DEF StoredIsTrue
  <2>1. CASE k = k0
    BY <1>0, <1>3, <1>4, <2>1 DEF StoredIsTrue
  <2>2. CASE k # k0
    BY <1>0, <1>4, <2>2 DEF StoredIsTrue
  <2> QED
    BY <2>1, <2>2
<1>8. first.outcome = "ok" => DoneThen(Key(r))
  BY <1>0, <1>1, <1>3, <1>4 DEF DoneThen, k0
<1>9. PlanTypeOK' /\ \A q \in Runs \ {r} : UNCHANGED PlanLocal(q)
  <2>1. succeeded' \in [Keys -> SUBSET Calls]
    BY <1>0 DEF PlanTypeOK
  <2> QED
    BY <1>0, <1>2, <1>3, <1>4, <1>6, <2>1, RememberedAnswer
<1>10. MemoryIsTrue(r)'
  BY <1>0, <1>2, <1>3, <1>6, <1>8, RememberTrue
<1>11. LateStep(r)
  <2>1. step'[r] = "ask"
    BY <1>0, <1>2, <1>3, AnsweredMoves
  <2> QED
    BY <1>0, <2>1 DEF LateStep, AboutTo
<1> QED
  BY <1>0, <1>2, <1>3, <1>6, <1>7, <1>8, <1>9, <1>10, <1>11, AnsweredMoves, ExecutorRely

----------------------------------------------------------------------------
(* The loop's steps *)

\* A write is made with a status, and the record changes.
LEMMA WriteEffect ==
  ASSUME StoreTypeOK, NEW e \in Executions, NEW s, NEW a, WriteState(e, s, a)
  PROVE  /\ store'[e].status = s /\ store'[e] # store[e] /\ store' # store
         /\ \A f \in Executions \ {e} : store'[f] = store[f]
<1>1. store[e].version \in Nat
  BY DEF StoreTypeOK, ExecutionState
<1>2. /\ store'[e].status = s /\ store'[e].version = store[e].version + 1
      /\ \A f \in Executions \ {e} : store'[f] = store[f]
  BY DEF StoreTypeOK, WriteState
<1> QED
  BY <1>1, <1>2

\* Whatever the loop does outside the executor leaves the executor before its first call.
LEMMA BeforeTheCalls ==
  ASSUME PlanInv, NEW r \in Runs, Afresh(r) \/ (pc[r] # "execute" /\ UNCHANGED callVars)
  PROVE  /\ index' \in [Runs -> Nat \ {0}]
         /\ step' \in [Runs -> {"ask", "perform", "performed", "put"}]
         /\ tries' \in [Runs -> 0..Retries]
         /\ got' \in [Runs -> {"none", "ok", "failed"}]
         /\ failed' \in [Runs -> BOOLEAN]
         /\ index'[r] = 1 /\ step'[r] = "ask" /\ failed'[r] = FALSE
         /\ \A q \in Runs \ {r} :
              /\ index'[q] = index[q] /\ step'[q] = step[q] /\ tries'[q] = tries[q]
              /\ got'[q] = got[q] /\ failed'[q] = failed[q]
<1>0. PlanTypeOK /\ AtItsCall(r)
  BY DEF PlanInv, PlanRunInv
<1>1. CASE pc[r] # "execute" /\ UNCHANGED callVars
  <2>1. failed[r] \in BOOLEAN
    BY <1>0 DEF PlanTypeOK
  <2> QED
    BY <1>0, <1>1, <2>1 DEF AtItsCall, callVars, PlanTypeOK
<1>2. CASE Afresh(r)
  <2>1. 0 \in 0..Retries
    BY PlanAssumption
  <2> QED
    BY <1>0, <1>2, <2>1 DEF Afresh, PlanTypeOK
<1> QED
  BY <1>1, <1>2

\* A step of the loop stores no result and has no effect.  It goes on to execute only if
\* it leaves the run's plan in the record, and to complete only when the calls are
\* answered and none has failed; and whoever completes had written the record before.
LEMMA LoopRely ==
  ASSUME IInv, PlanInv, NEW r \in Runs, TypeOK', StepOf(r),
         Afresh(r) \/ (pc[r] # "execute" /\ UNCHANGED callVars),
         UNCHANGED <<stored, succeeded, late>>,
         UNCHANGED cache \/ cache' = [cache EXCEPT ![r] = Nothing],
         plan' \in [Runs -> Plans], \A q \in Runs \ {r} : plan'[q] = plan[q],
         planOf' \in [Executions -> Plans],
         \A e \in Executions : store'[e] = store[e] => planOf'[e] = planOf[e],
         pc'[r] = "execute" => planOf'[exec'[r]] = plan'[r],
         pc'[r] = "complete" =>
           /\ pc[r] = "execute" /\ index[r] > Len(plan[r]) /\ ~ failed[r]
           /\ UNCHANGED <<store, exec, seen, plan, planOf>>,
         \A e \in Executions : store'[e].status = "completed" =>
           \/ store'[e] = store[e]
           \/ e = exec[r] /\ pc[r] = "complete" /\ seen[r] = Version(r) /\ UNCHANGED planOf
  PROVE  PlanStepOf(r)
<1>0. /\ PlanTypeOK /\ PlanRunInv(r) /\ StoredIsTrue
      /\ stored' = stored /\ succeeded' = succeeded /\ late' = late
      /\ exec[r] \in Executions
  BY DEF PlanInv, IInv, TypeOK
<1>1. /\ cache' \in [Runs -> [Keys -> Results \union {NoResult}]]
      /\ \A q \in Runs \ {r} : cache'[q] = cache[q]
      /\ cache'[r] = cache[r] \/ cache'[r] = Nothing
  BY <1>0, MemoryKeptOrLost
<1>2. PlanTypeOK'
  <2>1. /\ index' \in [Runs -> Nat \ {0}]
        /\ step' \in [Runs -> {"ask", "perform", "performed", "put"}]
        /\ tries' \in [Runs -> 0..Retries]
        /\ got' \in [Runs -> {"none", "ok", "failed"}]
        /\ failed' \in [Runs -> BOOLEAN]
    BY BeforeTheCalls
  <2> QED
    BY <1>0, <1>1, <2>1 DEF PlanTypeOK
<1>3. index'[r] = 1 /\ step'[r] = "ask" /\ ~ failed'[r]
  BY BeforeTheCalls
<1>4. \A q \in Runs \ {r} : UNCHANGED Local(q) /\ UNCHANGED PlanLocal(q)
  <2> SUFFICES ASSUME NEW q \in Runs \ {r} PROVE UNCHANGED Local(q) /\ UNCHANGED PlanLocal(q)
    OBVIOUS
  <2>1. /\ index'[q] = index[q] /\ step'[q] = step[q] /\ tries'[q] = tries[q]
        /\ got'[q] = got[q] /\ failed'[q] = failed[q]
    BY BeforeTheCalls
  <2>2. UNCHANGED Local(q)
    BY DEF StepOf
  <2> QED
    BY <1>1, <2>1, <2>2 DEF PlanLocal
<1>5. Grows /\ StoredIsTrue'
  BY <1>0 DEF Grows, StoredIsTrue
<1>6. MemoryIsTrue(r)'
  <2> SUFFICES ASSUME NEW k \in Keys, cache'[r][k] # NoResult, cache'[r][k].outcome = "ok"
               PROVE  DoneThen(k)
    BY DEF MemoryIsTrue, SaidOk, DoneThen
  <2>1. cache'[r] = cache[r]
    BY <1>1 DEF Nothing
  <2> QED
    BY <1>0, <1>5, <2>1, DoneStays DEF PlanRunInv, MemoryIsTrue
<1>7. AtItsCall(r)'
  BY <1>3 DEF AtItsCall
<1>8. DoneSoFar(r)'
  <2>1. plan'[r] \in Seq(PlanStep) /\ DOMAIN plan'[r] \subseteq Nat \ {0}
    BY PlanAssumption
  <2>2. ASSUME pc'[r] = "complete", NEW i \in DOMAIN plan'[r]
        PROVE  DoneThen(KeyOf(exec'[r], plan'[r], i))
    <3>1. /\ plan' = plan /\ exec' = exec /\ pc[r] = "execute" /\ ~ failed[r]
          /\ index[r] > Len(plan[r])
      BY <2>2
    <3>2. i < index[r]
      BY <1>0, <2>2, <3>1, CallValues
    <3>3. SaidOk(KeyOf(exec[r], plan[r], i)) /\ plan[r] \in Plans /\ i \in DOMAIN plan[r]
      BY <1>0, <2>2, <3>1, <3>2, CallValues DEF PlanRunInv, DoneSoFar
    <3> QED
      BY <1>0, <1>5, <3>1, <3>3, StepValues, DoneStays
  <2>3. \A i \in DOMAIN plan'[r] : ~ i < index'[r]
    BY <1>3, <2>1
  <2> QED
    BY <2>2, <2>3 DEF DoneSoFar, SaidOk, DoneThen
<1>9. WroteItsPlan(r)'
  <2>1. CASE pc'[r] = "execute"
    BY <2>1 DEF WroteItsPlan
  <2>2. CASE pc'[r] = "complete"
    BY <1>0, <2>2 DEF PlanRunInv, WroteItsPlan, Version
  <2> QED
    BY <2>1, <2>2 DEF WroteItsPlan
<1>10. CompletedSaidOk'
  <2> SUFFICES ASSUME NEW e \in Executions, store'[e].status = "completed",
                      NEW i \in DOMAIN planOf'[e]
               PROVE  DoneThen(KeyOf(e, planOf'[e], i))
    BY DEF CompletedSaidOk, SaidOk, DoneThen
  <2>1. planOf'[e] = planOf[e] /\ SaidOk(KeyOf(e, planOf[e], i))
    <3>1. CASE store'[e] = store[e]
      BY <3>1 DEF PlanInv, CompletedSaidOk
    <3>2. CASE e = exec[r] /\ pc[r] = "complete" /\ seen[r] = Version(r) /\ UNCHANGED planOf
      BY <1>0, <3>2 DEF PlanRunInv, WroteItsPlan, DoneSoFar
    <3> QED
      BY <3>1, <3>2
  <2>2. planOf[e] \in Plans
    BY <1>0 DEF PlanTypeOK
  <2> QED
    BY <1>5, <2>1, <2>2, StepValues, DoneStays
<1>11. LateStep(r)
  BY <1>0, <1>3, NotLate
<1> QED
  BY <1>2, <1>4, <1>5, <1>6, <1>7, <1>8, <1>9, <1>10, <1>11 DEF PlanStepOf, PlanRunInv

\* What a call that ends by an exception leaves.
LEMMA RaiseLeaves ==
  ASSUME IInv, NEW r \in Runs, Raise(r)
  PROVE  pc'[r] = "idle" /\ store' = store
BY DEF Raise, End, Goto, IInv, TypeOK

\* A step of the loop that ends by an exception, for whatever reason.
LEMMA BreakStep ==
  ASSUME IInv, PlanInv, NEW r \in Runs, Conflict(r) \/ BreakRun(r) \/ CrashRun(r)
  PROVE  PlanStepOf(r)
<1>1. /\ pc[r] # "idle" /\ Raise(r) /\ Afresh(r)
      /\ UNCHANGED <<planOf, plan, stored, succeeded, late>>
      /\ UNCHANGED cache \/ cache' = [cache EXCEPT ![r] = Nothing]
  BY DEF Conflict, BreakRun, CrashRun, Interrupt
<1>2. TypeOK' /\ StepOf(r) /\ pc'[r] = "idle" /\ store' = store
  BY <1>1, RaiseStep, RaiseLeaves
<1>3. planOf \in [Executions -> Plans] /\ plan \in [Runs -> Plans]
  BY DEF PlanInv, PlanTypeOK
<1> QED
  BY <1>1, <1>2, <1>3, LoopRely

\* run() writes the planner's first answer, and resume() takes the plan from the record.
LEMMA LaunchStep ==
  ASSUME IInv, PlanInv, NEW r \in Runs, NEW e \in Executions, NEW p \in Plans, Launch(r, e, p)
  PROVE  PlanStepOf(r)
<1>1. TypeOK' /\ StepOf(r) /\ pc'[r] = "checkpoint" /\ pc[r] = "idle"
  BY RunStep DEF Launch, Run, Goto, IInv, TypeOK
<1>2. /\ store'[e].status = "pending" /\ store'[e] # store[e]
      /\ \A f \in Executions \ {e} : store'[f] = store[f]
  BY WriteEffect DEF Launch, Run, Create, IInv, TypeOK
<1>3. /\ plan' \in [Runs -> Plans] /\ \A q \in Runs \ {r} : plan'[q] = plan[q]
      /\ planOf' \in [Executions -> Plans]
      /\ \A f \in Executions \ {e} : planOf'[f] = planOf[f]
  BY DEF Launch, PlanInv, PlanTypeOK
<1>4. UNCHANGED <<callVars, cache, stored, succeeded, late>>
  BY DEF Launch
<1> QED
  BY <1>1, <1>2, <1>3, <1>4, LoopRely

LEMMA ContinueStep ==
  ASSUME IInv, PlanInv, NEW r \in Runs, NEW e \in Executions, Continue(r, e)
  PROVE  PlanStepOf(r)
<1>1. TypeOK' /\ StepOf(r) /\ pc'[r] = "begin" /\ pc[r] = "idle" /\ store' = store
  BY ResumeStep DEF Continue, Resume, Goto, IInv, TypeOK
<1>2. /\ plan' \in [Runs -> Plans] /\ \A q \in Runs \ {r} : plan'[q] = plan[q]
      /\ planOf \in [Executions -> Plans]
  BY DEF Continue, PlanInv, PlanTypeOK
<1>3. UNCHANGED <<planOf, callVars, cache, stored, succeeded, late>>
  BY DEF Continue
<1> QED
  BY <1>1, <1>2, <1>3, LoopRely

\* A write that carries the run's plan.
LEMMA SubmitStep ==
  ASSUME IInv, PlanInv, NEW r \in Runs, Submit(r)
  PROVE  PlanStepOf(r)
<1>0. /\ StoreTypeOK /\ exec[r] \in Executions
      /\ planOf \in [Executions -> Plans] /\ plan \in [Runs -> Plans]
  BY DEF IInv, TypeOK, PlanInv, PlanTypeOK
<1>1. TypeOK' /\ StepOf(r)
  BY RunSteps DEF Submit, Step
<1>2. /\ pc[r] # "execute" /\ UNCHANGED <<plan, callVars, cache, stored, succeeded, late>>
      /\ PlanWritten(r)
  BY DEF Submit, Enter, Checkpoint, Rerun
<1>3. \/ store' = store /\ pc'[r] = "idle"
      \/ /\ pc'[r] \in {"checkpoint", "execute"} /\ exec' = exec
         /\ store'[exec[r]].status = "running" /\ store'[exec[r]] # store[exec[r]]
         /\ store' # store
         /\ \A f \in Executions \ {exec[r]} : store'[f] = store[f]
  <2>1. CASE Raise(r)
    BY <2>1, RaiseLeaves
  <2>2. ASSUME NEW n, NEW s \in {"checkpoint", "execute"}, Write(r, "running", n), Goto(r, s),
               UNCHANGED exec
        PROVE  /\ pc'[r] \in {"checkpoint", "execute"} /\ exec' = exec
               /\ store'[exec[r]].status = "running" /\ store'[exec[r]] # store[exec[r]]
               /\ store' # store
               /\ \A f \in Executions \ {exec[r]} : store'[f] = store[f]
    <3>1. pc'[r] = s
      BY <2>2 DEF Goto, IInv, TypeOK
    <3> QED
      BY <1>0, <2>2, <3>1, WriteEffect DEF Write
  <2> QED
    BY <2>1, <2>2 DEF Submit, Enter, Checkpoint, Rerun, LoopTransition
<1>4. /\ planOf' \in [Executions -> Plans]
      /\ \A f \in Executions \ {exec[r]} : planOf'[f] = planOf[f]
      /\ IF store' = store THEN planOf' = planOf ELSE planOf'[exec[r]] = plan[r]
  BY <1>0, <1>2 DEF PlanWritten
<1> QED
  BY <1>0, <1>1, <1>2, <1>3, <1>4, LoopRely

\* A step that leaves the plan as it is; if it completes, the run's checkpoint is the
\* newest write.
LEMMA SettleStep ==
  ASSUME IInv, PlanInv, NEW r \in Runs, Settle(r)
  PROVE  PlanStepOf(r)
<1>0. /\ StoreTypeOK /\ exec[r] \in Executions
      /\ planOf \in [Executions -> Plans] /\ plan \in [Runs -> Plans]
  BY DEF IInv, TypeOK, PlanInv, PlanTypeOK
<1>1. TypeOK' /\ StepOf(r)
  BY RunSteps DEF Settle, Step
<1>2. /\ pc[r] # "execute" /\ UNCHANGED <<planOf, plan, callVars, cache, stored, succeeded, late>>
  BY DEF Settle, Begin, Exhausted, Complete, Fail, Retry, planVars
<1>3. /\ pc'[r] \notin {"execute", "complete"}
      /\ \A e \in Executions : store'[e].status = "completed" =>
           \/ store'[e] = store[e]
           \/ e = exec[r] /\ pc[r] = "complete" /\ seen[r] = Version(r)
  <2>1. CASE Raise(r)
    BY <2>1, RaiseLeaves
  <2>2. ASSUME NEW s \in {"checkpoint", "enter", "fail"}, Goto(r, s), UNCHANGED store
        PROVE  /\ pc'[r] \notin {"execute", "complete"}
               /\ store' = store
    BY <2>2 DEF Goto, IInv, TypeOK
  <2>3. ASSUME NEW n, Write(r, "retrying", n), Goto(r, "plan")
        PROVE  /\ pc'[r] \notin {"execute", "complete"}
               /\ \A e \in Executions : store'[e].status = "completed" => store'[e] = store[e]
    <3>1. pc'[r] = "plan"
      BY <2>3 DEF Goto, IInv, TypeOK
    <3> QED
      BY <1>0, <2>3, <3>1, WriteEffect DEF Write
  <2>4. ASSUME NEW s \in {"completed", "failed"}, Current(r, s),
               WriteState(exec[r], s, attempt[r]), End(r), s = "completed" => pc[r] = "complete"
        PROVE  /\ pc'[r] \notin {"execute", "complete"}
               /\ \A e \in Executions : store'[e].status = "completed" =>
                    \/ store'[e] = store[e]
                    \/ e = exec[r] /\ pc[r] = "complete" /\ seen[r] = Version(r)
    <3>1. pc'[r] = "idle"
      BY <2>4 DEF End, Goto, IInv, TypeOK
    <3> QED
      BY <1>0, <2>4, <3>1, WriteEffect DEF Current
  <2>5. CASE Begin(r)
    BY <2>1, <2>2, <2>5 DEF Begin
  <2>6. CASE Exhausted(r)
    BY <2>2, <2>6 DEF Exhausted
  <2>7. CASE Complete(r)
    BY <2>1, <2>4, <2>7 DEF Complete, Finish
  <2>8. CASE Fail(r)
    BY <2>1, <2>4, <2>8 DEF Fail, Finish
  <2>9. CASE Retry(r)
    BY <2>1, <2>3, <2>9 DEF Retry, LoopTransition
  <2> QED
    BY <2>5, <2>6, <2>7, <2>8, <2>9 DEF Settle
<1> QED
  BY <1>0, <1>1, <1>2, <1>3, LoopRely

\* The calls are answered.
LEMMA JudgeStep ==
  ASSUME IInv, PlanInv, NEW r \in Runs, Judge(r)
  PROVE  PlanStepOf(r)
<1>1. TypeOK' /\ StepOf(r)
  BY RunSteps DEF Judge, Step
<1>2. /\ pc[r] = "execute" /\ index[r] > Len(plan[r]) /\ Afresh(r)
      /\ UNCHANGED <<store, exec, seen, planOf, plan, cache, stored, succeeded, late>>
      /\ pc'[r] = "complete" => ~ failed[r]
  BY DEF Judge, Execute
<1>3. pc'[r] # "execute"
  BY DEF Judge, Execute, Goto, IInv, TypeOK
<1>4. planOf \in [Executions -> Plans] /\ plan \in [Runs -> Plans]
  BY DEF PlanInv, PlanTypeOK
<1> QED
  BY <1>1, <1>2, <1>3, <1>4, LoopRely

\* The planner answers again.
LEMMA PlanAgainStep ==
  ASSUME IInv, PlanInv, NEW r \in Runs, NEW p \in Plans, PlanAgain(r, p)
  PROVE  PlanStepOf(r)
<1>1. TypeOK' /\ StepOf(r)
  BY RunSteps DEF PlanAgain, Step
<1>2. /\ pc[r] # "execute" /\ pc'[r] = "rerun" /\ store' = store
      /\ UNCHANGED <<planOf, callVars, cache, stored, succeeded, late>>
  BY DEF PlanAgain, Replan, Goto, IInv, TypeOK
<1>3. /\ plan' \in [Runs -> Plans] /\ \A q \in Runs \ {r} : plan'[q] = plan[q]
      /\ planOf \in [Executions -> Plans]
  BY DEF PlanAgain, PlanInv, PlanTypeOK
<1> QED
  BY <1>1, <1>2, <1>3, LoopRely

----------------------------------------------------------------------------
(* All steps *)

\* To the loop, carrying out the plan is one of its steps, or none.
LEMMA PlanStepsAreLoopSteps ==
  ASSUME [PlanNext]_<<vars, planVars>>
  PROVE  [Next]_vars
<1>1. CASE UNCHANGED <<vars, planVars>>
  BY <1>1
<1>2. ASSUME NEW r \in Runs, NEW e \in Executions, NEW p \in Plans,
             Continue(r, e) \/ Launch(r, e, p)
      PROVE  Next
  BY <1>2 DEF Continue, Launch, Next
<1>3. ASSUME NEW r \in Runs, NEW e \in Executions, Continue(r, e)
      PROVE  Next
  BY <1>3 DEF Continue, Next
<1>4. ASSUME NEW r \in Runs, NEW p \in Plans, PlanAgain(r, p)
      PROVE  Next
  BY <1>4 DEF PlanAgain, Next, Step
<1>5. ASSUME NEW r \in Runs,
             Ask(r) \/ Perform(r) \/ Conclude(r) \/ BreakOff(r) \/ Put(r)
      PROVE  UNCHANGED vars
  BY <1>5 DEF Ask, Perform, Conclude, BreakOff, Put
<1>6. ASSUME NEW r \in Runs, Conflict(r) \/ BreakRun(r) \/ CrashRun(r)
      PROVE  Next
  BY <1>6 DEF Conflict, BreakRun, CrashRun, Interrupt, Next
<1>7. ASSUME NEW r \in Runs, Submit(r) \/ Settle(r) \/ Judge(r)
      PROVE  Next
  BY <1>7 DEF Submit, Settle, Judge, Next, Step
<1> QED
  BY <1>1, <1>2, <1>3, <1>4, <1>5, <1>6, <1>7 DEF PlanNext

LEMMA PlanSteps ==
  ASSUME IInv, PlanInv, PlanNext
  PROVE  \E r \in Runs : PlanStepOf(r)
<1>1. ASSUME NEW r \in Runs, NEW e \in Executions,
             Continue(r, e) \/ \E p \in Plans : Launch(r, e, p)
      PROVE  PlanStepOf(r)
  BY <1>1, ContinueStep, LaunchStep
<1>2. ASSUME NEW r \in Runs, NEW p \in Plans, PlanAgain(r, p)
      PROVE  PlanStepOf(r)
  BY <1>2, PlanAgainStep
<1>3. ASSUME NEW r \in Runs,
             \/ Ask(r) \/ Conflict(r) \/ Perform(r) \/ Conclude(r) \/ BreakOff(r) \/ Put(r)
             \/ Submit(r) \/ Settle(r) \/ Judge(r)
             \/ BreakRun(r) \/ CrashRun(r)
      PROVE  PlanStepOf(r)
  BY <1>3, AskStep, PerformStep, ConcludeStep, BreakOffStep, PutStep, SubmitStep, SettleStep,
     JudgeStep, BreakStep
<1> QED
  BY <1>1, <1>2, <1>3 DEF PlanNext

LEMMA PlanInvInit == PlanInit => PlanInv
<1> SUFFICES ASSUME PlanInit PROVE PlanInv
  OBVIOUS
<1>1. TypeOK
  BY InvInit DEF PlanInit, IInv
<1>2. (CHOOSE p \in Plans : TRUE) \in Plans
  BY PlanAssumption
<1>3. 0 \in 0..Retries /\ Nothing \in [Keys -> Results \union {NoResult}]
  BY PlanAssumption DEF Nothing
<1>4. PlanTypeOK
  BY <1>1, <1>2, <1>3 DEF PlanInit, PlanTypeOK
<1>5. \A k \in Keys : stored[k] = NoResult /\ late[k] = 0 /\ succeeded[k] = {}
  BY DEF PlanInit, Nothing
<1>6. StoredIsTrue /\ LateIsPaidFor
  BY <1>5 DEF StoredIsTrue, LateIsPaidFor
<1>7. \A e \in Executions : store[e].status = "pending"
  BY DEF PlanInit, Init, StoreInit
<1>8. ASSUME NEW r \in Runs PROVE PlanRunInv(r)
  <2>1. /\ pc[r] = "idle" /\ index[r] = 1 /\ step[r] = "ask" /\ failed[r] = FALSE
        /\ cache[r] = Nothing
    BY DEF PlanInit, Init
  <2>2. MemoryIsTrue(r)
    BY <2>1 DEF MemoryIsTrue, Nothing
  <2> QED
    BY <2>1, <2>2 DEF PlanRunInv, AtItsCall, DoneSoFar, WroteItsPlan
<1> QED
  BY <1>4, <1>6, <1>7, <1>8 DEF PlanInv, CompletedSaidOk

LEMMA PlanInvStep == IInv /\ PlanInv /\ [PlanNext]_<<vars, planVars>> => PlanInv'
<1> SUFFICES ASSUME IInv, PlanInv, [PlanNext]_<<vars, planVars>> PROVE PlanInv'
  OBVIOUS
<1>1. CASE UNCHANGED <<vars, planVars>>
  <2>1. PlanTypeOK'
    BY <1>1 DEF PlanInv, PlanTypeOK, TypeOK, StoreTypeOK, vars, planVars, callVars
  <2>2. StoredIsTrue' /\ CompletedSaidOk' /\ LateIsPaidFor'
    BY <1>1
    DEF PlanInv, StoredIsTrue, CompletedSaidOk, SaidOk, LateIsPaidFor, Calling, AboutTo, Key,
        vars, planVars, callVars
  <2>3. \A r \in Runs : PlanRunInv(r)'
    BY <1>1
    DEF PlanInv, PlanRunInv, MemoryIsTrue, SaidOk, AtItsCall, Call, Key, DoneSoFar, WroteItsPlan,
        Version, vars, planVars, callVars
  <2> QED
    BY <2>1, <2>2, <2>3 DEF PlanInv
<1>2. CASE PlanNext
  <2>1. PICK r \in Runs : PlanStepOf(r)
    BY <1>2, PlanSteps
  <2>2. StoreStep
    BY PlanStepsAreLoopSteps, Steps DEF StepOf, StoreStep, vars
  <2> QED
    BY <2>1, <2>2, PlanRely
<1> QED
  BY <1>1, <1>2

----------------------------------------------------------------------------
(* Results *)

\* Carrying out plans is a run of the loop: everything proved of the loop holds of it.
THEOREM PlanRefinesLoop == PlanSpec => Spec
<1>1. PlanInit => Init
  BY DEF PlanInit
<1>2. [PlanNext]_<<vars, planVars>> => [Next]_vars
  BY PlanStepsAreLoopSteps
<1> QED
  BY <1>1, <1>2, PTL DEF PlanSpec, Spec

LEMMA PlanInvariance == PlanSpec => []PlanInv
<1>1. PlanSpec => []IInv
  BY PlanRefinesLoop, Invariance, PTL
<1> QED
  BY <1>1, PlanInvInit, PlanInvStep, PTL DEF PlanSpec

\* The types of the module.
THEOREM PlanTypes == PlanSpec => []PlanTypeOK
<1>1. PlanInv => PlanTypeOK
  BY DEF PlanInv
<1> QED
  BY PlanInvariance, <1>1, PTL

\* Whatever runs have each done a part of a completed execution, and however often its plan
\* was replaced: under the key of every step of the plan in its record a call has said ok,
\* the one the registry names; where planners give a key to one call only, it is that one.
THEOREM CarriedOut == PlanSpec => []CompletedWasCarriedOut
<1>1. PlanInv => CompletedWasCarriedOut
  <2> SUFFICES ASSUME PlanInv, NEW e \in Executions, store[e].status = "completed",
                      NEW i \in DOMAIN planOf[e]
               PROVE  /\ SaidOk(KeyOf(e, planOf[e], i))
                      /\ CallsUnder(KeyOf(e, planOf[e], i)) = {planOf[e][i].call} =>
                           planOf[e][i].call \in succeeded[KeyOf(e, planOf[e], i)]
    BY DEF CompletedWasCarriedOut
  <2> DEFINE k == KeyOf(e, planOf[e], i)
  <2>1. SaidOk(k)
    BY DEF PlanInv, CompletedSaidOk
  <2>2. k \in Keys
    BY StepValues DEF PlanInv, PlanTypeOK
  <2>3. PICK c \in succeeded[k] : TRUE
    BY <2>1 DEF SaidOk
  <2>4. c \in CallsUnder(k)
    BY <2>2, <2>3 DEF PlanInv, StoredIsTrue
  <2> QED
    BY <2>1, <2>3, <2>4
<1> QED
  BY PlanInvariance, <1>1, PTL

\* Late effects under a key are at most one for each run but the one that stored a result.
THEOREM LateEffects == PlanSpec => []LateEffectsAreBounded
<1>1. PlanInv => LateEffectsAreBounded
  <2> SUFFICES ASSUME PlanInv, NEW k \in Keys
               PROVE  late[k] <= Cardinality(Runs) - 1
    BY DEF LateEffectsAreBounded
  <2>1. /\ IsFiniteSet(Runs) /\ Cardinality(Runs) \in Nat /\ Cardinality(Runs) # 0
    BY PlanAssumption, FS_CardinalityType, FS_EmptySet
  <2>2. Cardinality(Calling(k)) \in Nat
    <3>1. Calling(k) \in SUBSET Runs
      BY DEF Calling
    <3> QED
      BY <2>1, <3>1, FS_Subset, FS_CardinalityType
  <2>3. late[k] \in Nat
    BY DEF PlanInv, PlanTypeOK
  <2> QED
    BY <2>1, <2>2, <2>3 DEF PlanInv, LateIsPaidFor
<1> QED
  BY PlanInvariance, <1>1, PTL

\* So runs that carry out plans, and store results under keys, break nothing the loop
\* promises of an execution: who completes it, what outcome it reports, how it changes.
THEOREM LoopGuarantees ==
  PlanSpec => []OneCanFinish /\ []CompletedIsDurable /\ CompletedStays /\ ImplementsLifecycle
BY PlanRefinesLoop, SoleFinisher, DurableResults, CompletionIsFinal, Refinement, PTL

=============================================================================
