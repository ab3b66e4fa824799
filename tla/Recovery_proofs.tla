-------------------------- MODULE Recovery_proofs --------------------------
(***************************************************************************)
(* Proofs about crash recovery: for any number of recoverers and of runs   *)
(* that are still alive, of executions, owners, passes and retry budgets,  *)
(* with the locks shared or not.                                           *)
(***************************************************************************)
EXTENDS Recovery, AutonomousLoop_proofs

----------------------------------------------------------------------------
(* The inductive invariant *)

\* The records of a pass's list are ones the store has or had; one whose version is
\* still there has not changed.
FoundIsPast(w) ==
  stage[w] # "idle" =>
    \A e \in Executions :
      /\ found[w][e].version <= store[e].version
      /\ found[w][e].version = store[e].version => found[w][e] = store[e]

Resumed(record) == record.version > 0 /\ record.status \in {"running", "retrying"}

\* What is on the list, and what is taken from it, was resumable.
ListIsResumable(w) ==
  /\ stage[w] # "idle" => \A e \in todo[w] : Resumed(found[w][e])
  /\ stage[w] \notin {"idle", "choose"} => Resumed(found[w][target[w]])

\* A token is one the lease has had; without leases there is none.
TokenIsOfTarget(w) ==
  /\ epoch[w] <= lease[target[w]].token
  /\ w \notin Leasing => epoch[w] = 0 /\ stage[w] # "lease"
  /\ stage[w] = "idle" \/ stage[w] = "choose" => ~ OwnsLease(w)

PassInv(w) == FoundIsPast(w) /\ ListIsResumable(w) /\ TokenIsOfTarget(w)

\* A lease somebody has was acquired.
HeldIsNumbered ==
  \A e \in Executions : lease[e].ttl > 0 => lease[e].token # 0

RInv ==
  /\ RecoveryTypeOK
  /\ IInv
  /\ HeldIsNumbered
  /\ \A w \in Recoverers : PassInv(w)

----------------------------------------------------------------------------
(* The store and the loops *)

\* A write that is no run's own disturbs none of them.
LEMMA NoRunMoves ==
  ASSUME IInv, StoreStep, UNCHANGED <<pc, exec, attempt, seen, outcome, resumes>>
  PROVE  IInv'
<1>1. StoreTypeOK' /\ FreshIsPending'
  BY StoreMoves DEF IInv, TypeOK
<1>2. TypeOK'
  BY <1>1 DEF IInv, TypeOK
<1>3. \A q \in Runs : RunInv(q)' /\ (Finishing(q)' => Finishing(q))
  BY Bystander DEF Local
<1> QED
  BY <1>1, <1>2, <1>3 DEF IInv, OneCanFinish

\* What a pass or anybody else makes a run do is what the loop's own module allows.
LEMMA LoopMoves ==
  ASSUME IInv, NEW r \in Runs,
         \/ LoopStep(r) \/ Interrupt(r) \/ Raise(r)
         \/ \E e \in Executions : Run(r, e) \/ Resume(r, e)
  PROVE  IInv' /\ StoreStep
<1>1. CASE Raise(r)
  BY <1>1, RaiseStep, Rely DEF StepOf
<1>2. CASE \E e \in Executions : Run(r, e) \/ Resume(r, e)
  BY <1>2, RunStep, ResumeStep, Rely DEF StepOf
<1>3. CASE Step(r) \/ Interrupt(r)
  BY <1>3, RunSteps, Rely DEF StepOf
<1> QED
  BY <1>1, <1>2, <1>3 DEF LoopStep, Step, Refuse

----------------------------------------------------------------------------
(* The leases *)

\* Tokens only grow, and a lease that somebody has by the token it had before was
\* theirs before.
NoRevival ==
  \A e \in Executions :
    /\ lease[e].token <= lease'[e].token
    /\ lease'[e].token = lease[e].token /\ lease'[e].ttl > 0
         => lease[e].ttl > 0 /\ lease'[e].owner = lease[e].owner

LEMMA LeaseValues ==
  ASSUME Leases!LeaseTypeOK, NEW e \in Executions
  PROVE  /\ lease[e] \in Leases!Lease
         /\ lease[e].owner \in Owners \union {NoOwner}
         /\ lease[e].token \in Nat /\ lease[e].ttl \in Nat /\ lease[e].ttl \in 0..Ttl
         /\ Ttl \in Nat
  BY RecoveryAssumption DEF Leases!LeaseTypeOK, Leases!Lease

LEMMA UnchangedLeases ==
  ASSUME Leases!LeaseTypeOK, UNCHANGED lease
  PROVE  NoRevival
  BY LeaseValues DEF NoRevival

LEMMA AcquireStep ==
  ASSUME Leases!LeaseTypeOK, NEW w \in Recoverers, NEW e \in Executions, Leases!Acquire(w, e)
  PROVE  /\ Leases!LeaseTypeOK' /\ NoRevival
         /\ epoch'[w] = lease[e].token + 1 /\ lease'[e].token = lease[e].token + 1
         /\ \A v \in Recoverers \ {w} : epoch'[v] = epoch[v]
<1>1. \A f \in Executions : lease[f].token \in Nat
  BY LeaseValues
<1>2. Ttl \in 0..Ttl /\ OwnerOf[w] \in Owners
  BY RecoveryAssumption
<1>3. lease' = [lease EXCEPT ![e] =
                  [owner |-> OwnerOf[w], token |-> lease[e].token + 1, ttl |-> Ttl]]
  BY DEF Leases!Acquire
<1>4. [owner |-> OwnerOf[w], token |-> lease[e].token + 1, ttl |-> Ttl] \in Leases!Lease
  BY <1>1, <1>2 DEF Leases!Lease
<1>5. lease' \in [Executions -> Leases!Lease]
  BY <1>3, <1>4 DEF Leases!LeaseTypeOK
<1>6. epoch' = [epoch EXCEPT ![w] = lease[e].token + 1]
  BY DEF Leases!Acquire
<1>7. NoRevival
  BY <1>1, <1>3 DEF NoRevival, Leases!LeaseTypeOK
<1> QED
  BY <1>1, <1>3, <1>5, <1>6, <1>7 DEF Leases!LeaseTypeOK

LEMMA RenewStep ==
  ASSUME Leases!LeaseTypeOK, NEW w \in Recoverers, NEW e \in Executions, Leases!Renew(w, e)
  PROVE  Leases!LeaseTypeOK' /\ NoRevival
<1>1. \A f \in Executions : lease[f] \in Leases!Lease /\ lease[f].token \in Nat
  BY LeaseValues
<1>2. Ttl \in 0..Ttl
  BY RecoveryAssumption
<1>3. lease' \in [Executions -> Leases!Lease]
  BY <1>1, <1>2 DEF Leases!Renew, Leases!LeaseTypeOK, Leases!Lease
<1>4. NoRevival
  BY <1>1 DEF NoRevival, Leases!Renew, Leases!IsOwner, Leases!LeaseTypeOK, Leases!Lease
<1> QED
  BY <1>3, <1>4 DEF Leases!Renew, Leases!LeaseTypeOK

\* A release, with or without a token.
LEMMA ReleaseStep ==
  ASSUME Leases!LeaseTypeOK, NEW e \in Executions,
         lease' = [lease EXCEPT ![e].owner = NoOwner, ![e].ttl = 0], UNCHANGED epoch
  PROVE  Leases!LeaseTypeOK' /\ NoRevival /\ lease'[e].ttl = 0 /\ lease'[e].token = lease[e].token
<1>1. \A f \in Executions : lease[f] \in Leases!Lease /\ lease[f].token \in Nat
  BY LeaseValues
<1>2. 0 \in 0..Ttl
  BY RecoveryAssumption
<1>3. lease' \in [Executions -> Leases!Lease]
  BY <1>1, <1>2 DEF Leases!LeaseTypeOK, Leases!Lease
<1>4. /\ lease'[e].token = lease[e].token /\ lease'[e].ttl = 0
      /\ \A f \in Executions \ {e} : lease'[f] = lease[f]
  BY <1>1 DEF Leases!LeaseTypeOK, Leases!Lease
<1> QED
  BY <1>1, <1>3, <1>4 DEF NoRevival, Leases!LeaseTypeOK

LEMMA TickStep ==
  ASSUME Leases!LeaseTypeOK, Leases!Tick
  PROVE  Leases!LeaseTypeOK' /\ NoRevival
<1>1. \A f \in Executions :
        /\ lease[f] \in Leases!Lease /\ lease[f].token \in Nat /\ lease[f].ttl \in Nat
        /\ lease[f].ttl \in 0..Ttl /\ Ttl \in Nat
  BY LeaseValues
<1>2. ASSUME NEW f \in Executions
      PROVE  /\ lease'[f] \in Leases!Lease
             /\ lease'[f].token = lease[f].token /\ lease'[f].owner = lease[f].owner
             /\ lease'[f].ttl > 0 => lease[f].ttl > 0
  <2>1. PICK t \in 0..Ttl :
          lease'[f] = [lease[f] EXCEPT !.ttl = t] /\ (t > 0 => lease[f].ttl > 0)
    <3>1. lease'[f] = [lease[f] EXCEPT !.ttl = IF lease[f].ttl > 0 THEN lease[f].ttl - 1 ELSE 0]
      BY DEF Leases!Tick
    <3>2. CASE lease[f].ttl > 0
      <4>1. lease[f].ttl - 1 \in 0..Ttl
        BY <1>1, <3>2
      <4> QED
        BY <3>1, <3>2, <4>1
    <3>3. CASE ~ lease[f].ttl > 0
      BY <1>1, <3>1, <3>3
    <3> QED
      BY <3>2, <3>3
  <2> QED
    BY <1>1, <2>1 DEF Leases!Lease
<1>3. \A f \in Executions : lease'[f] \in Leases!Lease
  BY <1>2
<1>4. lease' \in [Executions -> Leases!Lease]
  BY <1>3 DEF Leases!Tick
<1>5. NoRevival
  BY <1>1, <1>2 DEF NoRevival
<1> QED
  BY <1>4, <1>5 DEF Leases!Tick, Leases!LeaseTypeOK

----------------------------------------------------------------------------
(* The passes *)

PassLocal(w) == <<stage[w], todo[w], found[w], target[w], epoch[w]>>

\* A pass that does not move keeps what it may rely on.
LEMMA PassBystander ==
  ASSUME RInv, StoreStep, NoRevival, Leases!LeaseTypeOK',
         NEW w \in Recoverers, UNCHANGED PassLocal(w)
  PROVE  PassInv(w)'
<1>1. /\ stage'[w] = stage[w] /\ todo'[w] = todo[w] /\ found'[w] = found[w]
      /\ target'[w] = target[w] /\ epoch'[w] = epoch[w]
  BY DEF PassLocal
<1>2. PassInv(w) /\ target[w] \in Executions /\ epoch[w] \in Nat
  BY DEF RInv, RecoveryTypeOK, Leases!LeaseTypeOK
<1>3. FoundIsPast(w)'
  <2>1. \A e \in Executions :
          /\ store[e].version \in Nat /\ store'[e].version \in Nat
          /\ store[e].version <= store'[e].version
          /\ store[e].version = store'[e].version => store'[e] = store[e]
    BY StoreMoves DEF RInv, IInv, TypeOK
  <2>2. \A e \in Executions : found[w][e].version \in Nat
    BY DEF RInv, RecoveryTypeOK, ExecutionState
  <2> QED
    BY <1>1, <1>2, <2>1, <2>2 DEF PassInv, FoundIsPast
<1>4. ListIsResumable(w)'
  BY <1>1, <1>2 DEF PassInv, ListIsResumable, Resumed
<1>5. TokenIsOfTarget(w)'
  <2>1. /\ lease[target[w]].token \in Nat /\ lease'[target[w]].token \in Nat
    BY <1>2, LeaseValues DEF RInv, RecoveryTypeOK, Leases!LeaseTypeOK, Leases!Lease
  <2>2. OwnsLease(w)' => OwnsLease(w)
    BY <1>1, <1>2, <2>1
    DEF NoRevival, PassInv, TokenIsOfTarget, OwnsLease, Leases!IsOwner
  <2> QED
    BY <1>1, <1>2, <2>1, <2>2 DEF NoRevival, PassInv, TokenIsOfTarget
<1> QED
  BY <1>3, <1>4, <1>5 DEF PassInv

\* With that the invariant is kept by a step of one pass or of none.
LEMMA PassRely ==
  ASSUME RInv, RecoveryTypeOK', IInv', StoreStep, NoRevival,
         \A w \in Recoverers : UNCHANGED PassLocal(w) \/ PassInv(w)'
  PROVE  RInv'
<1>1. HeldIsNumbered'
  <2>1. \A e \in Executions : lease[e].token \in Nat /\ lease'[e].token \in Nat
    BY DEF RInv, RecoveryTypeOK, Leases!LeaseTypeOK, Leases!Lease
  <2> QED
    BY <2>1 DEF NoRevival, RInv, HeldIsNumbered
<1>2. \A w \in Recoverers : PassInv(w)'
  BY PassBystander DEF RecoveryTypeOK
<1> QED
  BY <1>1, <1>2 DEF RInv

----------------------------------------------------------------------------
(* The steps of a pass *)

\* What a step of pass w owes to the others.
StepOfPass(w) ==
  /\ RecoveryTypeOK' /\ IInv' /\ StoreStep /\ NoRevival
  /\ PassInv(w)'
  /\ \A v \in Recoverers \ {w} : UNCHANGED PassLocal(v)

\* Pass w goes on with its list, its target and its token, or ends.  It is back at its
\* list, or ends, without the lease.
LEMMA SamePass ==
  ASSUME RInv, StoreStep, NoRevival, Leases!LeaseTypeOK', NEW w \in Recoverers,
         stage[w] # "idle", epoch'[w] = epoch[w], target'[w] = target[w],
         todo'[w] \subseteq todo[w], found'[w] = found[w] \/ stage'[w] = "idle",
         stage'[w] \notin {"idle", "choose"} => stage[w] # "choose" /\ stage'[w] # "lease",
         stage'[w] \in {"idle", "choose"} => stage[w] = "choose" \/ ~ OwnsLease(w)'
  PROVE  PassInv(w)'
<1>1. PassInv(w) /\ target[w] \in Executions /\ epoch[w] \in Nat /\ todo[w] \subseteq Executions
  BY DEF RInv, RecoveryTypeOK, Leases!LeaseTypeOK
<1>2. FoundIsPast(w)'
  <2>1. \A e \in Executions :
          /\ store[e].version \in Nat /\ store'[e].version \in Nat
          /\ store[e].version <= store'[e].version
          /\ store[e].version = store'[e].version => store'[e] = store[e]
    BY StoreMoves DEF RInv, IInv, TypeOK
  <2>2. \A e \in Executions : found[w][e].version \in Nat
    BY DEF RInv, RecoveryTypeOK, ExecutionState
  <2> QED
    BY <1>1, <2>1, <2>2 DEF PassInv, FoundIsPast
<1>3. ListIsResumable(w)'
  BY <1>1 DEF PassInv, ListIsResumable, Resumed
<1>4. TokenIsOfTarget(w)'
  <2>1. /\ lease[target[w]].token \in Nat /\ lease'[target[w]].token \in Nat
    BY <1>1, LeaseValues DEF RInv, RecoveryTypeOK, Leases!LeaseTypeOK, Leases!Lease
  <2>2. OwnsLease(w)' => OwnsLease(w)
    BY <1>1, <2>1 DEF NoRevival, PassInv, TokenIsOfTarget, OwnsLease, Leases!IsOwner
  <2> QED
    BY <1>1, <2>1, <2>2 DEF NoRevival, PassInv, TokenIsOfTarget
<1> QED
  BY <1>2, <1>3, <1>4 DEF PassInv

\* A step after which store and runs are as before.
LEMMA Idle ==
  ASSUME RInv, UNCHANGED vars
  PROVE  IInv' /\ StoreStep /\ TypeOK'
<1>1. StoreStep
  BY DEF vars, StoreStep
<1>2. IInv'
  BY <1>1, NoRunMoves DEF RInv, vars
<1> QED
  BY <1>1, <1>2 DEF IInv

\* Steps on the list, and looks at the lease.
LEMMA QuietSteps ==
  ASSUME RInv, NEW w \in Recoverers,
         EndPass(w) \/ Refer(w) \/ SkipLeased(w) \/ Confirm(w) \/ Conclude(w) \/ CheckLease(w)
  PROVE  StepOfPass(w)
<1>1. UNCHANGED <<vars, target, passes, leaseVars>>
  BY DEF EndPass, Refer, SkipLeased, Confirm, Conclude, CheckLease
<1>2. IInv' /\ StoreStep /\ TypeOK' /\ NoRevival /\ Leases!LeaseTypeOK'
  BY <1>1, Idle, UnchangedLeases DEF RInv, RecoveryTypeOK, leaseVars, Leases!LeaseTypeOK
<1>3. /\ stage' \in [Recoverers -> PassStages] /\ todo' \in [Recoverers -> SUBSET Executions]
      /\ found' \in [Recoverers -> [Executions -> ExecutionState]] /\ review' \subseteq Executions
  <2>1. NoRecords \in [Executions -> ExecutionState]
    BY DEF NoRecords, ExecutionState, Statuses
  <2> QED
    BY <2>1
    DEF RInv, RecoveryTypeOK, EndPass, Refer, SkipLeased, Confirm, Conclude, CheckLease, Proceed,
        PassStages
<1>4. RecoveryTypeOK'
  BY <1>1, <1>2, <1>3 DEF RInv, RecoveryTypeOK
<1>5. \A v \in Recoverers \ {w} : UNCHANGED PassLocal(v)
  BY <1>1
  DEF RInv, RecoveryTypeOK, EndPass, Refer, SkipLeased, Confirm, Conclude, CheckLease, Proceed,
      PassLocal, leaseVars
<1>6. /\ epoch'[w] = epoch[w] /\ target'[w] = target[w] /\ stage[w] # "idle"
      /\ lease' = lease
  BY <1>1 DEF leaseVars, EndPass, Refer, SkipLeased, Confirm, Conclude, CheckLease
<1>7. CASE EndPass(w)
  <2>1. stage[w] = "choose" /\ stage'[w] = "idle" /\ todo'[w] = todo[w]
    BY <1>7 DEF EndPass, Proceed, RInv, RecoveryTypeOK
  <2> QED
    BY <1>2, <1>4, <1>5, <1>6, <2>1, SamePass DEF StepOfPass
<1>8. CASE Refer(w)
  <2>1. /\ stage[w] = "choose" /\ stage'[w] = "choose" /\ found'[w] = found[w]
        /\ todo'[w] \subseteq todo[w]
    BY <1>8 DEF Refer, RInv, RecoveryTypeOK
  <2> QED
    BY <1>2, <1>4, <1>5, <1>6, <2>1, SamePass DEF StepOfPass
<1>9. CASE SkipLeased(w)
  <2>1. /\ stage[w] = "lease" /\ stage'[w] = "choose" /\ found'[w] = found[w]
        /\ todo'[w] = todo[w] /\ lease[target[w]].owner # OwnerOf[w]
    BY <1>9 DEF SkipLeased, Proceed, RInv, RecoveryTypeOK
  <2>2. ~ OwnsLease(w)'
    BY <1>6, <2>1 DEF OwnsLease, Leases!IsOwner
  <2> QED
    BY <1>2, <1>4, <1>5, <1>6, <2>1, <2>2, SamePass DEF StepOfPass
<1>10. CASE Confirm(w) \/ Conclude(w) \/ CheckLease(w)
  <2>1. /\ stage[w] \notin {"idle", "choose"} /\ stage'[w] \notin {"idle", "choose", "lease"}
        /\ found'[w] = found[w] /\ todo'[w] = todo[w]
    BY <1>10 DEF Confirm, Conclude, CheckLease, Proceed, RInv, RecoveryTypeOK
  <2> QED
    BY <1>2, <1>4, <1>5, <1>6, <2>1, SamePass DEF StepOfPass
<1> QED
  BY <1>7, <1>8, <1>9, <1>10

\* The list: records that are there now.
LEMMA StartPassStep ==
  ASSUME RInv, NEW w \in Recoverers, StartPass(w)
  PROVE  StepOfPass(w)
<1>1. UNCHANGED <<vars, target, leaseVars>> /\ UNCHANGED review
  BY DEF StartPass
<1>2. IInv' /\ StoreStep /\ TypeOK' /\ NoRevival /\ Leases!LeaseTypeOK'
  BY <1>1, Idle, UnchangedLeases DEF RInv, RecoveryTypeOK, leaseVars, Leases!LeaseTypeOK
<1>3. passes' \in [Recoverers -> Nat] /\ \A v \in Recoverers : passes'[v] <= MaxPasses[v]
  <2>1. \A v \in Recoverers : passes[v] \in Nat /\ MaxPasses[v] \in Nat /\ passes[v] <= MaxPasses[v]
    BY RecoveryAssumption DEF RInv, RecoveryTypeOK
  <2>2. passes' = [passes EXCEPT ![w] = passes[w] + 1] /\ passes[w] < MaxPasses[w]
    BY DEF StartPass
  <2>3. passes[w] + 1 <= MaxPasses[w]
    BY <2>1, <2>2
  <2> QED
    BY <2>1, <2>2, <2>3 DEF RInv, RecoveryTypeOK
<1>4. RecoveryTypeOK'
  BY <1>1, <1>2, <1>3
  DEF StartPass, RInv, RecoveryTypeOK, TypeOK, StoreTypeOK, Proceed, PassStages
<1>5. \A v \in Recoverers \ {w} : UNCHANGED PassLocal(v)
  BY <1>1 DEF StartPass, RInv, RecoveryTypeOK, Proceed, PassLocal, leaseVars
<1>6. /\ stage[w] = "idle" /\ stage'[w] = "choose" /\ found'[w] = store /\ store' = store
      /\ target'[w] = target[w] /\ epoch' = epoch /\ lease' = lease
      /\ \A e \in todo'[w] : e \in Executions /\ Resumable(e)
  BY <1>1 DEF StartPass, RInv, RecoveryTypeOK, Proceed, vars, leaseVars
<1>7. FoundIsPast(w)'
  <2>1. \A e \in Executions : store[e].version \in Nat
    BY DEF RInv, RecoveryTypeOK, TypeOK, StoreTypeOK, ExecutionState
  <2> QED
    BY <1>6, <2>1 DEF FoundIsPast
<1>8. ListIsResumable(w)'
  BY <1>6 DEF ListIsResumable, Resumed, Resumable, Exists
<1>9. TokenIsOfTarget(w)'
  BY <1>6 DEF RInv, PassInv, TokenIsOfTarget, OwnsLease, Leases!IsOwner
<1> QED
  BY <1>2, <1>4, <1>5, <1>7, <1>8, <1>9 DEF StepOfPass, PassInv

\* The next execution, of which there is no token yet.
LEMMA TakeStep ==
  ASSUME RInv, NEW w \in Recoverers, Take(w)
  PROVE  StepOfPass(w)
<1>1. PICK e \in todo[w] :
         /\ target' = [target EXCEPT ![w] = e]
         /\ todo' = [todo EXCEPT ![w] = todo[w] \ {e}]
  BY DEF Take
<1>2. /\ UNCHANGED <<vars, found, passes, review, lease>> /\ epoch' = [epoch EXCEPT ![w] = 0]
      /\ stage[w] = "choose" /\ e \in Executions
  BY DEF Take, Leases!Forget, RInv, RecoveryTypeOK
<1>3. IInv' /\ StoreStep /\ TypeOK' /\ NoRevival /\ Leases!LeaseTypeOK'
  BY <1>2, Idle, UnchangedLeases DEF RInv, RecoveryTypeOK, Leases!LeaseTypeOK
<1>4. stage' = [stage EXCEPT ![w] = IF w \in Leasing THEN "lease" ELSE "resume"]
  BY DEF Take, Proceed
<1>5. RecoveryTypeOK'
  BY <1>1, <1>2, <1>3, <1>4 DEF RInv, RecoveryTypeOK, PassStages
<1>6. \A v \in Recoverers \ {w} : UNCHANGED PassLocal(v)
  BY <1>1, <1>2, <1>4 DEF RInv, RecoveryTypeOK, PassLocal, Leases!LeaseTypeOK
<1>7. /\ stage'[w] \notin {"idle", "choose"} /\ target'[w] = e /\ todo'[w] \subseteq todo[w]
      /\ w \notin Leasing => stage'[w] = "resume"
      /\ found'[w] = found[w] /\ epoch'[w] = 0 /\ store' = store /\ lease' = lease
  BY <1>1, <1>2, <1>4 DEF RInv, RecoveryTypeOK, Leases!LeaseTypeOK, vars
<1>8. FoundIsPast(w)'
  BY <1>2, <1>7 DEF RInv, PassInv, FoundIsPast
<1>9. ListIsResumable(w)'
  BY <1>2, <1>7 DEF RInv, PassInv, ListIsResumable
<1>10. TokenIsOfTarget(w)'
  <2>1. lease[e].token \in Nat
    BY <1>2, LeaseValues DEF RInv, RecoveryTypeOK
  <2> QED
    BY <1>7, <2>1 DEF TokenIsOfTarget
<1> QED
  BY <1>3, <1>5, <1>6, <1>8, <1>9, <1>10 DEF StepOfPass, PassInv

\* The lease of the target, and its token.
LEMMA AcquireLeaseStep ==
  ASSUME RInv, NEW w \in Recoverers, AcquireLease(w)
  PROVE  StepOfPass(w)
<1>1. /\ UNCHANGED <<vars, todo, found, target, passes, review>> /\ stage[w] = "lease"
      /\ stage' = [stage EXCEPT ![w] = "confirm"] /\ target[w] \in Executions
  BY DEF AcquireLease, Proceed, RInv, RecoveryTypeOK
<1>2. /\ Leases!LeaseTypeOK' /\ NoRevival
      /\ epoch'[w] = lease[target[w]].token + 1
      /\ lease'[target[w]].token = lease[target[w]].token + 1
      /\ \A v \in Recoverers \ {w} : epoch'[v] = epoch[v]
  BY <1>1, AcquireStep DEF AcquireLease, RInv, RecoveryTypeOK
<1>3. IInv' /\ StoreStep /\ TypeOK'
  BY <1>1, Idle
<1>4. RecoveryTypeOK'
  BY <1>1, <1>2, <1>3 DEF RInv, RecoveryTypeOK, PassStages
<1>5. \A v \in Recoverers \ {w} : UNCHANGED PassLocal(v)
  BY <1>1, <1>2 DEF RInv, RecoveryTypeOK, PassLocal
<1>6. stage'[w] = "confirm" /\ store' = store
  BY <1>1 DEF RInv, RecoveryTypeOK, vars
<1>7. FoundIsPast(w)' /\ ListIsResumable(w)'
  BY <1>1, <1>6 DEF RInv, PassInv, FoundIsPast, ListIsResumable
<1>8. TokenIsOfTarget(w)'
  <2>1. w \in Leasing
    BY <1>1 DEF RInv, PassInv, TokenIsOfTarget
  <2>2. lease[target[w]].token \in Nat
    BY <1>1, LeaseValues DEF RInv, RecoveryTypeOK
  <2> QED
    BY <1>1, <1>2, <1>6, <2>1, <2>2 DEF TokenIsOfTarget
<1> QED
  BY <1>2, <1>3, <1>4, <1>5, <1>7, <1>8 DEF StepOfPass, PassInv

\* A step of the pass's run, or of what waits for it; the leases stay.
LEMMA RunOfPassSteps ==
  ASSUME RInv, NEW w \in Recoverers,
         ResumeTarget(w) \/ LoseLease(w) \/ BreakOff(w) \/ CancelPass(w)
  PROVE  StepOfPass(w)
<1>1. /\ UNCHANGED <<found, target, passes, review, lease, epoch>>
      /\ stage[w] \in {"resume", "running"}
      /\ \E s \in {"running", "mark", "unlease"} : stage' = [stage EXCEPT ![w] = s]
      /\ todo' = todo \/ todo' = [todo EXCEPT ![w] = {}]
  BY DEF RInv, RecoveryTypeOK, ResumeTarget, LoseLease, BreakOff, CancelPass, Proceed, passVars,
     leaseVars
<1>2. w \in Runs /\ target[w] \in Executions
  BY RecoveryAssumption DEF RInv, RecoveryTypeOK
<1>3. UNCHANGED vars \/ Raise(w) \/ Resume(w, target[w])
  BY DEF ResumeTarget, LoseLease, BreakOff, CancelPass
<1>4. IInv' /\ StoreStep /\ TypeOK'
  <2>1. CASE UNCHANGED vars
    BY <2>1, Idle
  <2>2. CASE Raise(w) \/ Resume(w, target[w])
    BY <1>2, <2>2, LoopMoves DEF RInv, IInv
  <2> QED
    BY <1>3, <2>1, <2>2
<1>5. NoRevival /\ Leases!LeaseTypeOK'
  BY <1>1, UnchangedLeases DEF RInv, RecoveryTypeOK, Leases!LeaseTypeOK
<1>6. RecoveryTypeOK'
  BY <1>1, <1>4, <1>5 DEF RInv, RecoveryTypeOK, PassStages
<1>7. \A v \in Recoverers \ {w} : UNCHANGED PassLocal(v)
  BY <1>1 DEF RInv, RecoveryTypeOK, PassLocal
<1>8. /\ stage[w] \notin {"idle", "choose"} /\ stage'[w] \notin {"idle", "choose", "lease"}
      /\ todo'[w] \subseteq todo[w] /\ found'[w] = found[w] /\ target'[w] = target[w]
      /\ epoch'[w] = epoch[w]
  BY <1>1 DEF RInv, RecoveryTypeOK
<1>9. PassInv(w)'
  BY <1>4, <1>5, <1>8, SamePass
<1> QED
  BY <1>4, <1>5, <1>6, <1>7, <1>9 DEF StepOfPass

\* The heartbeat.
LEMMA RenewLeaseStep ==
  ASSUME RInv, NEW w \in Recoverers, RenewLease(w)
  PROVE  StepOfPass(w)
<1>1. /\ UNCHANGED <<vars, stage, todo, found, target, passes, review, epoch>>
      /\ stage[w] = "running" /\ target[w] \in Executions
  BY DEF RInv, RecoveryTypeOK, RenewLease, passVars, Leases!Renew
<1>2. NoRevival /\ Leases!LeaseTypeOK'
  BY <1>1, RenewStep DEF RInv, RecoveryTypeOK, RenewLease
<1>3. IInv' /\ StoreStep /\ TypeOK'
  BY <1>1, Idle
<1>4. RecoveryTypeOK'
  BY <1>1, <1>2, <1>3 DEF RInv, RecoveryTypeOK
<1>5. PassInv(w)'
  BY <1>1, <1>2, <1>3, SamePass
<1> QED
  BY <1>1, <1>2, <1>3, <1>4, <1>5 DEF StepOfPass, PassLocal

\* The failure that is recorded is that of the record that was found, which was
\* resumable: it is a legal write.
LEMMA FailureIsLegal ==
  ASSUME RInv, NEW w \in Recoverers, stage[w] = "save", AsFound(w), Failed(w)
  PROVE  LegalWrite(target[w]) /\ store[target[w]] = found[w][target[w]]
<1>1. target[w] \in Executions /\ found[w][target[w]] \in ExecutionState
  BY DEF RInv, RecoveryTypeOK
<1>2. store[target[w]] = found[w][target[w]]
  BY <1>1 DEF RInv, PassInv, FoundIsPast, AsFound
<1>3. Resumed(store[target[w]])
  BY <1>2 DEF RInv, PassInv, ListIsResumable
<1>4. /\ Exists(target[w]) /\ CanTransition(store[target[w]].status, "failed")
      /\ store[target[w]].status # "completed"
  BY <1>3 DEF Resumed, Exists, CanTransition, Transitions
<1>5. "failed" \in Statuses /\ found[w][target[w]].attempt \in Nat
  BY <1>1, Graph DEF ExecutionState
<1> QED
  BY <1>2, <1>4, <1>5 DEF LegalWrite, Failed

LEMMA SaveFailureStep ==
  ASSUME RInv, NEW w \in Recoverers, SaveFailure(w)
  PROVE  StepOfPass(w)
<1>1. /\ UNCHANGED <<pc, exec, attempt, seen, outcome, resumes, found, target, passes, review,
                     lease, epoch>>
      /\ stage[w] = "save" /\ target[w] \in Executions
      /\ \E s \in {"unlease", "hung"} : stage' = [stage EXCEPT ![w] = s]
      /\ todo' = todo \/ todo' = [todo EXCEPT ![w] = {}]
  BY DEF RInv, RecoveryTypeOK, SaveFailure, Conflict, Proceed, leaseVars
<1>2. store' = store \/ (AsFound(w) /\ Failed(w))
  BY DEF SaveFailure, Conflict
<1>3. StoreStep
  BY <1>1, <1>2, FailureIsLegal DEF StoreStep
<1>4. IInv' /\ TypeOK'
  BY <1>1, <1>3, NoRunMoves DEF RInv, IInv
<1>5. NoRevival /\ Leases!LeaseTypeOK'
  BY <1>1, UnchangedLeases DEF RInv, RecoveryTypeOK, Leases!LeaseTypeOK
<1>6. RecoveryTypeOK'
  BY <1>1, <1>4, <1>5 DEF RInv, RecoveryTypeOK, PassStages
<1>7. \A v \in Recoverers \ {w} : UNCHANGED PassLocal(v)
  BY <1>1 DEF RInv, RecoveryTypeOK, PassLocal
<1>8. /\ stage[w] \notin {"idle", "choose"} /\ stage'[w] \notin {"idle", "choose", "lease"}
      /\ todo'[w] \subseteq todo[w] /\ found'[w] = found[w] /\ target'[w] = target[w]
      /\ epoch'[w] = epoch[w]
  BY <1>1 DEF RInv, RecoveryTypeOK
<1>9. PassInv(w)'
  BY <1>3, <1>5, <1>8, SamePass
<1> QED
  BY <1>3, <1>4, <1>5, <1>6, <1>7, <1>9 DEF StepOfPass

\* The finally clause: after it the lease is not this pass's.
LEMMA UnleaseStep ==
  ASSUME RInv, NEW w \in Recoverers, Unlease(w)
  PROVE  StepOfPass(w)
<1>1. /\ UNCHANGED <<vars, todo, found, target, passes, review, epoch>>
      /\ stage[w] = "unlease" /\ target[w] \in Executions
      /\ stage' = [stage EXCEPT ![w] = "choose"]
  BY DEF RInv, RecoveryTypeOK, Unlease, Proceed, leaseVars, Leases!Release
<1>2. NoRevival /\ Leases!LeaseTypeOK' /\ ~ OwnsLease(w)'
  <2>1. CASE /\ w \in Leasing
             /\ lease[target[w]].owner = OwnerOf[w] /\ lease[target[w]].token = epoch[w]
    <3>1. lease' = [lease EXCEPT ![target[w]].owner = NoOwner, ![target[w]].ttl = 0]
      BY <2>1 DEF Unlease, Leases!Release
    <3>2. NoRevival /\ Leases!LeaseTypeOK' /\ lease'[target[w]].ttl = 0
      BY <1>1, <3>1, ReleaseStep DEF RInv, RecoveryTypeOK
    <3> QED
      BY <1>1, <3>2 DEF OwnsLease, Leases!IsOwner
  <2>2. CASE ~ (/\ w \in Leasing
                /\ lease[target[w]].owner = OwnerOf[w] /\ lease[target[w]].token = epoch[w])
    <3>1. lease' = lease
      BY <2>2 DEF Unlease, leaseVars
    <3>2. w \notin Leasing => ~ OwnsLease(w)
      BY <1>1 DEF RInv, PassInv, TokenIsOfTarget, HeldIsNumbered, OwnsLease, Leases!IsOwner
    <3>3. w \in Leasing => ~ OwnsLease(w)
      BY <2>2 DEF OwnsLease, Leases!IsOwner
    <3>4. OwnsLease(w)' = OwnsLease(w)
      BY <1>1, <3>1 DEF OwnsLease, Leases!IsOwner
    <3>5. NoRevival /\ Leases!LeaseTypeOK'
      BY <1>1, <3>1, UnchangedLeases DEF RInv, RecoveryTypeOK, Leases!LeaseTypeOK
    <3> QED
      BY <3>2, <3>3, <3>4, <3>5
  <2> QED
    BY <2>1, <2>2
<1>3. IInv' /\ StoreStep /\ TypeOK'
  BY <1>1, Idle
<1>4. RecoveryTypeOK'
  BY <1>1, <1>2, <1>3 DEF RInv, RecoveryTypeOK, PassStages
<1>5. \A v \in Recoverers \ {w} : UNCHANGED PassLocal(v)
  BY <1>1 DEF RInv, RecoveryTypeOK, PassLocal
<1>6. stage'[w] = "choose"
  BY <1>1 DEF RInv, RecoveryTypeOK
<1>7. PassInv(w)'
  BY <1>1, <1>2, <1>3, <1>6, SamePass
<1> QED
  BY <1>2, <1>3, <1>4, <1>5, <1>7 DEF StepOfPass

\* The process ends, and its token with it.
LEMMA CrashPassStep ==
  ASSUME RInv, NEW w \in Recoverers, CrashPass(w)
  PROVE  StepOfPass(w)
<1>1. /\ UNCHANGED <<target, passes, review, lease>> /\ epoch' = [epoch EXCEPT ![w] = 0]
      /\ stage' = [stage EXCEPT ![w] = "idle"] /\ todo' = [todo EXCEPT ![w] = {}]
      /\ found' = [found EXCEPT ![w] = NoRecords]
      /\ w \in Runs /\ target[w] \in Executions
  BY RecoveryAssumption DEF RInv, RecoveryTypeOK, CrashPass, Leases!Forget, Proceed
<1>2. IInv' /\ StoreStep /\ TypeOK'
  BY <1>1, LoopMoves DEF RInv, IInv, CrashPass
<1>3. NoRevival /\ Leases!LeaseTypeOK'
  BY <1>1, UnchangedLeases DEF RInv, RecoveryTypeOK, Leases!LeaseTypeOK
<1>4. NoRecords \in [Executions -> ExecutionState]
  BY DEF NoRecords, ExecutionState, Statuses
<1>5. RecoveryTypeOK'
  BY <1>1, <1>2, <1>3, <1>4 DEF RInv, RecoveryTypeOK, PassStages
<1>6. \A v \in Recoverers \ {w} : UNCHANGED PassLocal(v)
  BY <1>1 DEF RInv, RecoveryTypeOK, PassLocal, Leases!LeaseTypeOK
<1>7. stage'[w] = "idle" /\ epoch'[w] = 0
  BY <1>1 DEF RInv, RecoveryTypeOK, Leases!LeaseTypeOK
<1>8. FoundIsPast(w)' /\ ListIsResumable(w)'
  BY <1>7 DEF FoundIsPast, ListIsResumable
<1>9. TokenIsOfTarget(w)'
  <2>1. lease[target[w]].token \in Nat
    BY <1>1, LeaseValues DEF RInv, RecoveryTypeOK
  <2> QED
    BY <1>1, <1>7, <2>1
    DEF RInv, HeldIsNumbered, TokenIsOfTarget, OwnsLease, Leases!IsOwner
<1> QED
  BY <1>2, <1>3, <1>5, <1>6, <1>8, <1>9 DEF StepOfPass, PassInv

\* Everything else: loops that no pass moves, the clock, shutdown and the operator.
LEMMA EnvironmentSteps ==
  ASSUME RInv,
         \/ \E r \in Runs : Loop(r)
         \/ LeaseTick
         \/ \E e \in Executions : Resolve(e) \/ \E o \in Owners : Shutdown(o, e)
  PROVE  /\ RecoveryTypeOK' /\ IInv' /\ StoreStep /\ NoRevival
         /\ \A w \in Recoverers : UNCHANGED PassLocal(w)
<1>1. ASSUME NEW r \in Runs, Loop(r)
      PROVE  IInv' /\ StoreStep /\ UNCHANGED <<passVars, lease, epoch, review>>
  BY <1>1, LoopMoves DEF RInv, Loop, leaseVars
<1>2. CASE LeaseTick
  <2>1. NoRevival /\ Leases!LeaseTypeOK'
    BY <1>2, TickStep DEF LeaseTick, RInv, RecoveryTypeOK
  <2>2. UNCHANGED <<vars, passVars, review, epoch>>
    BY <1>2 DEF LeaseTick, Leases!Tick
  <2>3. IInv' /\ StoreStep /\ TypeOK'
    BY <2>2, Idle
  <2> QED
    BY <2>1, <2>2, <2>3 DEF RInv, RecoveryTypeOK, passVars, PassLocal
<1>3. ASSUME NEW e \in Executions, NEW o \in Owners, Shutdown(o, e)
      PROVE  /\ RecoveryTypeOK' /\ IInv' /\ StoreStep /\ NoRevival
             /\ \A w \in Recoverers : UNCHANGED PassLocal(w)
  <2>1. NoRevival /\ Leases!LeaseTypeOK'
    BY <1>3, ReleaseStep DEF Shutdown, RInv, RecoveryTypeOK
  <2>2. UNCHANGED <<vars, passVars, review, epoch>>
    BY <1>3 DEF Shutdown
  <2>3. IInv' /\ StoreStep /\ TypeOK'
    BY <2>2, Idle
  <2> QED
    BY <2>1, <2>2, <2>3 DEF RInv, RecoveryTypeOK, passVars, PassLocal
<1>4. ASSUME NEW e \in Executions, Resolve(e)
      PROVE  /\ review' \subseteq Executions /\ UNCHANGED <<passVars, lease, epoch>>
             /\ IInv' /\ StoreStep
  <2>1. UNCHANGED vars
    BY <1>4 DEF Resolve
  <2> QED
    BY <1>4, <2>1, Idle DEF Resolve, RInv, RecoveryTypeOK, leaseVars
<1>5. ASSUME IInv', StoreStep, UNCHANGED <<passVars, lease, epoch>>, review' \subseteq Executions
      PROVE  /\ RecoveryTypeOK' /\ NoRevival
             /\ \A w \in Recoverers : UNCHANGED PassLocal(w)
  <2>1. NoRevival /\ Leases!LeaseTypeOK' /\ TypeOK'
    BY <1>5, UnchangedLeases DEF RInv, RecoveryTypeOK, Leases!LeaseTypeOK, IInv
  <2> QED
    BY <1>5, <2>1 DEF RInv, RecoveryTypeOK, passVars, PassLocal
<1>6. ASSUME NEW r \in Runs, Loop(r)
      PROVE  review' \subseteq Executions
  BY <1>1, <1>6 DEF RInv, RecoveryTypeOK
<1> QED
  BY <1>1, <1>2, <1>3, <1>4, <1>5, <1>6

----------------------------------------------------------------------------
(* Invariance *)

LEMMA RecoverySteps ==
  ASSUME RInv, RecoveryNext
  PROVE  \/ \E w \in Recoverers : StepOfPass(w)
         \/ /\ RecoveryTypeOK' /\ IInv' /\ StoreStep /\ NoRevival
            /\ \A w \in Recoverers : UNCHANGED PassLocal(w)
<1>1. ASSUME NEW w \in Recoverers,
             \/ StartPass(w) \/ Pass(w) \/ CancelPass(w) \/ CrashPass(w)
             \/ RenewLease(w) \/ LoseLease(w) \/ BreakOff(w)
      PROVE  StepOfPass(w)
  BY <1>1, StartPassStep, QuietSteps, TakeStep, AcquireLeaseStep, RunOfPassSteps, RenewLeaseStep,
     SaveFailureStep, UnleaseStep, CrashPassStep
  DEF Pass
<1> QED
  BY <1>1, EnvironmentSteps DEF RecoveryNext

LEMMA RecoveryInvInit == RecoveryInit => RInv
<1> SUFFICES ASSUME RecoveryInit PROVE RInv
  OBVIOUS
<1>1. IInv
  BY InvInit DEF RecoveryInit
<1>2. NoRecords \in [Executions -> ExecutionState]
  BY DEF NoRecords, ExecutionState, Statuses
<1>3. Leases!LeaseTypeOK
  BY RecoveryAssumption DEF RecoveryInit, Leases!LeaseInit, Leases!LeaseTypeOK, Leases!Lease
<1>4. RecoveryTypeOK
  BY <1>1, <1>2, <1>3, RecoveryAssumption DEF RecoveryInit, RecoveryTypeOK, IInv, PassStages
<1>5. HeldIsNumbered
  BY DEF RecoveryInit, Leases!LeaseInit, HeldIsNumbered
<1>6. ASSUME NEW w \in Recoverers
      PROVE  PassInv(w)
  BY <1>4
  DEF RecoveryInit, RecoveryTypeOK, Leases!LeaseInit, PassInv, FoundIsPast, ListIsResumable,
      TokenIsOfTarget, OwnsLease, Leases!IsOwner
<1> QED
  BY <1>1, <1>4, <1>5, <1>6 DEF RInv

LEMMA RecoveryInvStep == RInv /\ [RecoveryNext]_recoveryVars => RInv'
<1> SUFFICES ASSUME RInv, [RecoveryNext]_recoveryVars PROVE RInv'
  OBVIOUS
<1>1. CASE RecoveryNext
  <2>1. CASE \E w \in Recoverers : StepOfPass(w)
    BY <2>1, PassRely DEF StepOfPass
  <2>2. CASE /\ RecoveryTypeOK' /\ IInv' /\ StoreStep /\ NoRevival
             /\ \A w \in Recoverers : UNCHANGED PassLocal(w)
    BY <2>2, PassRely
  <2> QED
    BY <1>1, <2>1, <2>2, RecoverySteps
<1>2. CASE UNCHANGED recoveryVars
  <2>1. UNCHANGED <<vars, passVars, lease, epoch, review>>
    BY <1>2 DEF recoveryVars, leaseVars
  <2>2. IInv' /\ StoreStep /\ TypeOK'
    BY <2>1, Idle
  <2>3. NoRevival /\ Leases!LeaseTypeOK'
    BY <2>1, UnchangedLeases DEF RInv, RecoveryTypeOK, Leases!LeaseTypeOK
  <2>4. RecoveryTypeOK' /\ \A w \in Recoverers : UNCHANGED PassLocal(w)
    BY <2>1, <2>2, <2>3 DEF RInv, RecoveryTypeOK, passVars, PassLocal
  <2> QED
    BY <2>2, <2>3, <2>4, PassRely
<1> QED
  BY <1>1, <1>2

LEMMA RecoveryInvariance == RecoverySpec => []RInv
  BY RecoveryInvInit, RecoveryInvStep, PTL DEF RecoverySpec

----------------------------------------------------------------------------
(* Results *)

\* A pass that moves while the record is written is recording a failure: of the record
\* it found, and with its lease if it can check it.
LEMMA OnlyFailuresAreWritten ==
  ASSUME RInv, [RecoveryNext]_recoveryVars, NEW w \in Recoverers,
         stage'[w] # stage[w], store' # store
  PROVE  stage[w] = "save" /\ AsFound(w) /\ Failed(w) /\ (w \in Fenced => OwnsLease(w))
<1>0. RecoveryNext
  BY DEF recoveryVars, vars
<1>1. ASSUME NEW v \in Recoverers, SaveFailure(v)
      PROVE  stage[w] = "save" /\ AsFound(w) /\ Failed(w) /\ (w \in Fenced => OwnsLease(w))
  <2>1. v = w
    BY <1>1 DEF SaveFailure, Conflict, Proceed, RInv, RecoveryTypeOK
  <2> QED
    BY <1>1, <2>1 DEF SaveFailure, Conflict
<1>2. ASSUME NEW v \in Recoverers,
             \/ StartPass(v) \/ CancelPass(v) \/ CrashPass(v)
             \/ RenewLease(v) \/ LoseLease(v) \/ BreakOff(v)
      PROVE  store' = store
  BY <1>2 DEF StartPass, CancelPass, CrashPass, RenewLease, LoseLease, BreakOff, Raise, vars
<1>3. ASSUME NEW v \in Recoverers,
             \/ EndPass(v) \/ Refer(v) \/ Take(v) \/ AcquireLease(v) \/ SkipLeased(v)
             \/ Confirm(v) \/ ResumeTarget(v) \/ Conclude(v) \/ CheckLease(v) \/ Unlease(v)
      PROVE  store' = store
  BY <1>3 DEF EndPass, Refer, Take, AcquireLease, SkipLeased, Confirm, ResumeTarget, Conclude,
     CheckLease, Unlease, Resume, vars
<1>4. ASSUME NEW r \in Runs, Loop(r)
      PROVE  stage' = stage
  BY <1>4 DEF Loop, passVars
<1>5. ASSUME NEW e \in Executions, Resolve(e) \/ \E o \in Owners : Shutdown(o, e)
      PROVE  stage' = stage
  BY <1>5 DEF Resolve, Shutdown, passVars
<1>6. CASE LeaseTick
  BY <1>6 DEF LeaseTick, passVars
<1> QED
  BY <1>0, <1>1, <1>2, <1>3, <1>4, <1>5, <1>6 DEF RecoveryNext, Pass

\* Types of loops, passes, leases and the operator's queue.
THEOREM RecoveryTypes == RecoverySpec => []RecoveryTypeOK
<1>1. RInv => RecoveryTypeOK
  BY DEF RInv
<1> QED
  BY RecoveryInvariance, <1>1, PTL

\* A pass that is over has no lease (but one whose process has died: what it left runs
\* out), however it ended, and whoever else presents the same owner id.
THEOREM LeasesAreGivenBack == RecoverySpec => []IdleHoldsNothing
<1>1. RInv => IdleHoldsNothing
  BY DEF RInv, PassInv, TokenIsOfTarget, IdleHoldsNothing
<1> QED
  BY RecoveryInvariance, <1>1, PTL

\* Recovery never throws away what another run has written.
THEOREM ProgressIsKept == RecoverySpec => NoProgressDiscarded
<1>1. RInv /\ [RecoveryNext]_recoveryVars =>
        [\A w \in Recoverers :
           stage'[w] # stage[w] /\ store' # store
             => store[target[w]] = found[w][target[w]]]_recoveryVars
  BY OnlyFailuresAreWritten, FailureIsLegal
<1> QED
  BY RecoveryInvariance, <1>1, PTL DEF RecoverySpec, NoProgressDiscarded

\* A recoverer with a lease store writes under its lease only.
THEOREM FailuresAreFenced == RecoverySpec => FailureIsOwned
<1>1. Fenced \subseteq Recoverers
  BY RecoveryAssumption
<1>2. RInv /\ [RecoveryNext]_recoveryVars =>
        [\A w \in Fenced :
           stage'[w] # stage[w] /\ store' # store => OwnsLease(w)]_recoveryVars
  BY <1>1, OnlyFailuresAreWritten
<1> QED
  BY RecoveryInvariance, <1>2, PTL DEF RecoverySpec, FailureIsOwned

\* Loops and recovery together do to the record what it promises to its readers.
THEOREM RecoveryRefinement == RecoverySpec => ImplementsLifecycle
<1>1. RecoveryInit => Lifecycle!Init
  BY DEF RecoveryInit, Init, StoreInit, Lifecycle!Init
<1>2. RInv /\ [RecoveryNext]_recoveryVars => [Lifecycle!Next]_(Lifecycle!lifecycleVars)
  <2>1. RInv /\ [RecoveryNext]_recoveryVars => StoreStep
    BY RecoverySteps, Idle DEF StepOfPass, recoveryVars
  <2> QED
    BY <2>1, LifecycleStep DEF RInv, IInv, TypeOK
<1> QED
  BY RecoveryInvariance, <1>1, <1>2, PTL DEF RecoverySpec, Lifecycle!Spec, ImplementsLifecycle

\* With recovery at work next to them, still one run at most can finish an execution.
THEOREM RecoverySoleFinisher == RecoverySpec => []OneCanFinish
<1>1. RInv => OneCanFinish
  BY DEF RInv, IInv
<1> QED
  BY RecoveryInvariance, <1>1, PTL

\* Nor does recovery take back a completion: a pass that found the execution running
\* does not set it to failed once a late run has completed it.
THEOREM RecoveryKeepsCompletions == RecoverySpec => CompletedStays
<1>1. RInv /\ [RecoveryNext]_recoveryVars =>
        [\A e \in Executions : store[e].status = "completed" => store'[e] = store[e]]_vars
  <2>1. RInv /\ [RecoveryNext]_recoveryVars => StoreStep
    BY RecoverySteps, Idle DEF StepOfPass, recoveryVars
  <2> QED
    BY <2>1, StoreMoves DEF RInv, IInv, TypeOK
<1> QED
  BY RecoveryInvariance, <1>1, PTL DEF RecoverySpec, CompletedStays

----------------------------------------------------------------------------
(* One holder, and who waits for whom *)

\* Passes that are dealing with one execution carry different tokens, if any.
TokensDiffer ==
  \A v, w \in Recoverers :
    v # w /\ target[v] = target[w] /\ epoch[v] = epoch[w] => epoch[w] = 0

\* A pass keeps its target and its token, or has forgotten the token, or acquires.
LEMMA TokenMoves ==
  ASSUME RInv, RecoveryNext
  PROVE  \/ \E w \in Recoverers : AcquireLease(w)
         \/ \A w \in Recoverers :
              epoch'[w] = 0 \/ (epoch'[w] = epoch[w] /\ target'[w] = target[w])
<1>0. /\ epoch \in [Recoverers -> Nat] /\ target \in [Recoverers -> Executions]
  BY DEF RInv, RecoveryTypeOK, Leases!LeaseTypeOK
<1>1. CASE UNCHANGED <<epoch, target>>
  BY <1>1
<1>2. ASSUME NEW w \in Recoverers,
             \/ StartPass(w) \/ EndPass(w) \/ Refer(w) \/ SkipLeased(w) \/ Confirm(w)
             \/ ResumeTarget(w) \/ Conclude(w) \/ CheckLease(w) \/ SaveFailure(w)
      PROVE  UNCHANGED <<epoch, target>>
  BY <1>2 DEF StartPass, EndPass, Refer, SkipLeased, Confirm, ResumeTarget, Conclude, CheckLease,
     SaveFailure, leaseVars
<1>3. ASSUME NEW w \in Recoverers,
             CancelPass(w) \/ RenewLease(w) \/ LoseLease(w) \/ BreakOff(w) \/ Unlease(w)
      PROVE  UNCHANGED <<epoch, target>>
  BY <1>3 DEF CancelPass, RenewLease, LoseLease, BreakOff, Unlease, Leases!Renew, Leases!Release,
     leaseVars, passVars
<1>4. ASSUME NEW w \in Recoverers, Take(w)
      PROVE  \A v \in Recoverers :
               epoch'[v] = 0 \/ (epoch'[v] = epoch[v] /\ target'[v] = target[v])
  <2>1. epoch' = [epoch EXCEPT ![w] = 0] /\ \E e : target' = [target EXCEPT ![w] = e]
    BY <1>4 DEF Take, Leases!Forget
  <2> QED
    BY <1>0, <2>1
<1>5. ASSUME NEW w \in Recoverers, CrashPass(w)
      PROVE  \A v \in Recoverers :
               epoch'[v] = 0 \/ (epoch'[v] = epoch[v] /\ target'[v] = target[v])
  <2>1. epoch' = [epoch EXCEPT ![w] = 0] /\ target' = target
    BY <1>5 DEF CrashPass, Leases!Forget
  <2> QED
    BY <1>0, <2>1
<1>6. ASSUME \/ \E r \in Runs : Loop(r)
             \/ \E e \in Executions : Resolve(e) \/ \E o \in Owners : Shutdown(o, e)
             \/ LeaseTick
      PROVE  UNCHANGED <<epoch, target>>
  BY <1>6 DEF Loop, Resolve, Shutdown, LeaseTick, Leases!Tick, leaseVars, passVars
<1> QED
  BY <1>1, <1>2, <1>3, <1>4, <1>5, <1>6 DEF RecoveryNext, Pass

\* What a pass acquires is a token nobody with its target has.
LEMMA TokensDifferStep ==
  ASSUME RInv, TokensDiffer, [RecoveryNext]_recoveryVars
  PROVE  TokensDiffer'
<1>1. CASE UNCHANGED recoveryVars
  BY <1>1 DEF recoveryVars, passVars, leaseVars, TokensDiffer
<1>2. CASE \E w \in Recoverers : AcquireLease(w)
  <2>1. PICK w \in Recoverers : AcquireLease(w)
    BY <1>2
  <2>2. target' = target /\ target[w] \in Executions
    BY <2>1 DEF AcquireLease, RInv, RecoveryTypeOK
  <2>3. /\ epoch'[w] = lease[target[w]].token + 1
        /\ \A v \in Recoverers \ {w} : epoch'[v] = epoch[v]
    BY <2>1, <2>2, AcquireStep DEF AcquireLease, RInv, RecoveryTypeOK
  <2>4. ASSUME NEW v \in Recoverers \ {w}, target[v] = target[w]
        PROVE  epoch[v] # lease[target[w]].token + 1
    <3>1. epoch[v] <= lease[target[w]].token
      BY <2>4 DEF RInv, PassInv, TokenIsOfTarget
    <3>2. epoch[v] \in Nat /\ lease[target[w]].token \in Nat
      BY <2>2, LeaseValues DEF RInv, RecoveryTypeOK, Leases!LeaseTypeOK
    <3> QED
      BY <3>1, <3>2
  <2> QED
    BY <2>2, <2>3, <2>4 DEF TokensDiffer
<1>3. CASE \A w \in Recoverers :
             epoch'[w] = 0 \/ (epoch'[w] = epoch[w] /\ target'[w] = target[w])
  BY <1>3 DEF TokensDiffer
<1> QED
  BY <1>1, <1>2, <1>3, TokenMoves

\* A lease that a pass finds to be its own, no other pass does: neither one of the same
\* owner id, nor one that was shut down, crashed or has lost the lease in between.
THEOREM LeaseOfOne == RecoverySpec => []OneHolder
<1>1. RecoveryInit => TokensDiffer
  BY DEF RecoveryInit, Leases!LeaseInit, TokensDiffer
<1>2. RInv /\ TokensDiffer /\ [RecoveryNext]_recoveryVars => TokensDiffer'
  BY TokensDifferStep
<1>3. RInv /\ TokensDiffer => OneHolder
  <2> SUFFICES ASSUME RInv, TokensDiffer, NEW v \in Recoverers, NEW w \in Recoverers,
                      v # w, target[v] = target[w], OwnsLease(v), OwnsLease(w)
               PROVE  FALSE
    BY DEF OneHolder
  <2>1. /\ epoch[v] = lease[target[w]].token /\ epoch[w] = lease[target[w]].token
        /\ lease[target[w]].ttl > 0 /\ target[w] \in Executions
    BY DEF OwnsLease, Leases!IsOwner, RInv, RecoveryTypeOK
  <2>2. lease[target[w]].token # 0
    BY <2>1 DEF RInv, HeldIsNumbered
  <2> QED
    BY <2>1, <2>2 DEF TokensDiffer
<1> QED
  BY RecoveryInvariance, <1>1, <1>2, <1>3, PTL DEF RecoverySpec

\* A pass hangs in the write of a failure only.
LEMMA HungStep ==
  ASSUME RInv, HungOnSharedLock, [RecoveryNext]_recoveryVars
  PROVE  HungOnSharedLock'
<1>0. stage \in [Recoverers -> PassStages]
  BY DEF RInv, RecoveryTypeOK
<1>1. CASE UNCHANGED stage
  BY <1>1 DEF HungOnSharedLock
<1>2. ASSUME NEW w \in Recoverers, NEW s, s # "hung", stage' = [stage EXCEPT ![w] = s]
      PROVE  HungOnSharedLock'
  BY <1>0, <1>2 DEF HungOnSharedLock
<1>3. ASSUME NEW w \in Recoverers,
             \/ StartPass(w) \/ EndPass(w) \/ Refer(w) \/ Take(w) \/ AcquireLease(w)
             \/ SkipLeased(w) \/ Confirm(w) \/ ResumeTarget(w)
      PROVE  UNCHANGED stage \/ \E s : s # "hung" /\ stage' = [stage EXCEPT ![w] = s]
  BY <1>3 DEF StartPass, EndPass, Refer, Take, AcquireLease, SkipLeased, Confirm, ResumeTarget,
     Proceed
<1>4. ASSUME NEW w \in Recoverers,
             \/ Conclude(w) \/ CheckLease(w) \/ Unlease(w) \/ CancelPass(w) \/ CrashPass(w)
             \/ RenewLease(w) \/ LoseLease(w) \/ BreakOff(w)
      PROVE  UNCHANGED stage \/ \E s : s # "hung" /\ stage' = [stage EXCEPT ![w] = s]
  BY <1>4 DEF Conclude, CheckLease, Unlease, CancelPass, CrashPass, RenewLease, LoseLease, BreakOff,
     Proceed, passVars
<1>5. ASSUME NEW w \in Recoverers, SaveFailure(w)
      PROVE  HungOnSharedLock'
  <2>1. CASE stage' = [stage EXCEPT ![w] = "unlease"]
    BY <1>2, <2>1
  <2>2. CASE stage' = [stage EXCEPT ![w] = "hung"] /\ w \in Fenced /\ SharedLock
    BY <1>0, <2>2 DEF HungOnSharedLock
  <2> QED
    BY <1>5, <2>1, <2>2 DEF SaveFailure, Conflict, Proceed
<1>6. CASE \/ \E r \in Runs : Loop(r)
           \/ \E e \in Executions : Resolve(e) \/ \E o \in Owners : Shutdown(o, e)
           \/ LeaseTick
  BY <1>1, <1>6 DEF Loop, Resolve, Shutdown, LeaseTick, passVars
<1>7. CASE UNCHANGED recoveryVars
  BY <1>1, <1>7 DEF recoveryVars, passVars
<1> QED
  BY <1>1, <1>2, <1>3, <1>4, <1>5, <1>6, <1>7 DEF RecoveryNext, Pass

\* The deadlock that run recovery_hang finds needs what that run has: one lock file for
\* store and leases, and a manager with a lease store.
THEOREM HangsOnSharedLockOnly == RecoverySpec => []HungOnSharedLock
<1>1. RecoveryInit => HungOnSharedLock
  BY DEF RecoveryInit, HungOnSharedLock
<1>2. RInv /\ HungOnSharedLock /\ [RecoveryNext]_recoveryVars => HungOnSharedLock'
  BY HungStep
<1> QED
  BY RecoveryInvariance, <1>1, <1>2, PTL DEF RecoverySpec

\* So with separate locks no call waits for a lock that it holds itself.
THEOREM SeparateLocksNeverHang ==
  ASSUME ~ SharedLock
  PROVE  RecoverySpec => []NobodyWaitsForItself
<1>1. HungOnSharedLock => NobodyWaitsForItself
  BY DEF HungOnSharedLock, NobodyWaitsForItself
<1> QED
  BY HangsOnSharedLockOnly, <1>1, PTL

=============================================================================
