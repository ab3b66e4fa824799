------------------------------ MODULE Recovery ------------------------------
(***************************************************************************)
(* Crash recovery of executions: passes over the resumable records that    *)
(* resume one after the other with the loop of module AutonomousLoop,      *)
(* next to loops that are still alive.  A pass is a call of                *)
(*                                                                         *)
(*   - RuntimeBootstrap.recover_pending (runtime/runtime_bootstrap.py),    *)
(*     which leases each execution, renews the lease in the background     *)
(*     and cancels the resumed run when it is lost; or                     *)
(*   - RecoveryManager.recover (runtime/recovery_manager.py), which leases *)
(*     if it was made with a lease store, and does not renew.              *)
(*                                                                         *)
(* What a pass knows of the executions is the list it began with.  Its     *)
(* calls of resume() use the run of the same name.                         *)
(***************************************************************************)
EXTENDS AutonomousLoop

CONSTANTS
  Bootstraps,  \* runs that are resumed by a RuntimeBootstrap
  Managers,    \* runs that are resumed by a RecoveryManager of its own
  Fenced,      \* recoverers whose RecoveryManager has a lease store
  Guarded,     \* runs with the LeaseAwareCheckpoint of build_execution_loop
  ReviewAt,    \* max_attempts of the bootstraps' RecoveryPolicy
  SharedLock,  \* are store and leases coordinated by one lock file?
  Owners, OwnerOf, NoOwner, Ttl,
  MaxToken,    \* bound: acquisitions of each lease
  MaxPasses    \* bound: passes of each recoverer

Recoverers == Bootstraps \union Managers
Leasing == Bootstraps \union Fenced

ASSUME RecoveryAssumption ==
  /\ Recoverers \subseteq Runs /\ Bootstraps \intersect Managers = {}
  /\ Fenced \subseteq Recoverers /\ Guarded \subseteq Runs
  /\ ReviewAt \in Nat \ {0}
  /\ SharedLock \in BOOLEAN
  /\ OwnerOf \in [Recoverers -> Owners]
  /\ NoOwner \notin Owners
  /\ Ttl \in Nat \ {0}
  /\ MaxToken \in Nat
  /\ MaxPasses \in [Recoverers -> Nat]

VARIABLES
  stage,   \* where each pass has got to
  todo,    \* executions of its list it has not dealt with
  found,   \* the records in its list
  target,  \* the execution it is dealing with
  lease, epoch,  \* the lease file; the fencing token of each pass
  review,  \* executions with an unresolved item in the operator's queue
  passes   \* passes so far

passVars == <<stage, todo, found, target, passes>>
leaseVars == <<lease, epoch>>
recoveryVars == <<vars, passVars, leaseVars, review>>

Leases == INSTANCE ExecutionLease WITH Workers <- Recoverers, token <- epoch

OwnsLease(w) == Leases!IsOwner(w, target[w])

PassStages ==
  {"idle", "choose", "lease", "confirm", "resume", "running", "mark", "save",
   "hung", "unlease"}

RecoveryTypeOK ==
  /\ TypeOK
  /\ Leases!LeaseTypeOK
  /\ stage \in [Recoverers -> PassStages]
  /\ todo \in [Recoverers -> SUBSET Executions]
  /\ found \in [Recoverers -> [Executions -> ExecutionState]]
  /\ target \in [Recoverers -> Executions]
  /\ review \subseteq Executions
  /\ passes \in [Recoverers -> Nat] /\ \A w \in Recoverers : passes[w] <= MaxPasses[w]

Proceed(w, s) == stage' = [stage EXCEPT ![w] = s]

NoRecords == [e \in Executions |-> [status |-> "pending", attempt |-> 0, version |-> 0]]

----------------------------------------------------------------------------
RecoveryInit ==
  /\ Init
  /\ Leases!LeaseInit
  /\ stage = [w \in Recoverers |-> "idle"]
  /\ todo = [w \in Recoverers |-> {}]
  /\ found = [w \in Recoverers |-> NoRecords]
  /\ target \in [Recoverers -> Executions]
  /\ review = {}
  /\ passes = [w \in Recoverers |-> 0]

\* store.resumable(): a pending record has no attempt here.
Resumable(e) == Exists(e) /\ store[e].status \in {"running", "retrying"}

\* The list of the pass.
StartPass(w) ==
  /\ stage[w] = "idle" /\ pc[w] = "idle"
  /\ passes[w] < MaxPasses[w]
  /\ passes' = [passes EXCEPT ![w] = @ + 1]
  /\ todo' = [todo EXCEPT ![w] = {e \in Executions : Resumable(e)}]
  /\ found' = [found EXCEPT ![w] = store]
  /\ Proceed(w, "choose")
  /\ UNCHANGED <<vars, target, leaseVars, review>>

EndPass(w) ==
  /\ stage[w] = "choose" /\ todo[w] = {}
  /\ Proceed(w, "idle")
  /\ found' = [found EXCEPT ![w] = NoRecords]
  /\ UNCHANGED <<vars, todo, target, passes, leaseVars, review>>

\* RecoveryPolicy.decide on a record of the list; managers do not ask it.
NeedsReview(w, e) == w \in Bootstraps /\ found[w][e].attempt >= ReviewAt

\* recovery_queue.enqueue: an execution has one unresolved item at most.
Refer(w) ==
  /\ stage[w] = "choose"
  /\ \E e \in todo[w] :
       /\ NeedsReview(w, e)
       /\ review' = review \union {e}
       /\ todo' = [todo EXCEPT ![w] = @ \ {e}]
  /\ UNCHANGED <<vars, stage, found, target, passes, leaseVars>>

\* What the lease of the last execution was is forgotten with it.
Take(w) ==
  /\ stage[w] = "choose"
  /\ \E e \in todo[w] :
       /\ ~ NeedsReview(w, e)
       /\ target' = [target EXCEPT ![w] = e]
       /\ todo' = [todo EXCEPT ![w] = @ \ {e}]
  /\ Leases!Forget(w)
  /\ Proceed(w, IF w \in Leasing THEN "lease" ELSE "resume")
  /\ UNCHANGED <<vars, found, passes, review>>

AcquireLease(w) ==
  /\ stage[w] = "lease"
  /\ Leases!Acquire(w, target[w])
  /\ Proceed(w, "confirm")
  /\ UNCHANGED <<vars, todo, found, target, passes, review>>

\* Mutant: a pass waits for the lease of somebody else.
SkipLeased_Wait(w) ==
  /\ stage[w] = "lease"
  /\ lease[target[w]].ttl > 0 /\ lease[target[w]].owner # OwnerOf[w]
  /\ UNCHANGED recoveryVars

\* Another owner has the lease: the execution is skipped.
SkipLeased(w) ==
  /\ stage[w] = "lease"
  /\ lease[target[w]].ttl > 0 /\ lease[target[w]].owner # OwnerOf[w]
  /\ Proceed(w, "choose")
  /\ UNCHANGED <<vars, todo, found, target, passes, leaseVars, review>>

\* The lease may have run out, or have been taken with the same owner id.
Confirm(w) ==
  /\ stage[w] = "confirm"
  /\ Proceed(w, IF OwnsLease(w) THEN "resume" ELSE "unlease")
  /\ UNCHANGED <<vars, todo, found, target, passes, leaseVars, review>>

\* resume() raises when the execution is not resumable any more.
ResumeTarget(w) ==
  /\ stage[w] = "resume"
  /\ IF Resumable(target[w])
     THEN Resume(w, target[w]) /\ Proceed(w, "running")
     ELSE UNCHANGED vars /\ Proceed(w, "mark")
  /\ UNCHANGED <<todo, found, target, passes, leaseVars, review>>

----------------------------------------------------------------------------
(* While the resumed run is awaited *)

\* The heartbeat and cancellation find the run waiting for its executor or planner.
\* (Subscribers of its events answer at once.)
Awaiting(w) == pc[w] \in {"execute", "plan"}

RenewLease(w) ==
  /\ w \in Bootstraps /\ stage[w] = "running" /\ Awaiting(w)
  /\ Leases!Renew(w, target[w])
  /\ UNCHANGED <<vars, passVars, review>>

\* The heartbeat finds the lease lost and the run is cancelled, unless it has just
\* come to its end; that it did does not count then.
LoseLease(w) ==
  /\ w \in Bootstraps /\ stage[w] = "running" /\ (Awaiting(w) \/ pc[w] = "idle")
  /\ ~ OwnsLease(w)
  /\ Raise(w)
  /\ Proceed(w, "mark")
  /\ UNCHANGED <<todo, found, target, passes, leaseVars, review>>

\* The executor or the planner raises.
BreakOff(w) ==
  /\ stage[w] = "running" /\ Awaiting(w)
  /\ Raise(w)
  /\ UNCHANGED <<passVars, leaseVars, review>>

\* The run is over: it raised, or returned; then the lease is looked at again, and for
\* a manager the execution is stale without it, while a bootstrap raises.
Conclude(w) ==
  /\ stage[w] = "running" /\ pc[w] = "idle"
  /\ LET lost == w \in Leasing /\ ~ OwnsLease(w)
     IN  Proceed(w, IF outcome[w] = "none" \/ (lost /\ w \in Bootstraps) THEN "mark"
                                                                        ELSE "unlease")
  /\ UNCHANGED <<vars, todo, found, target, passes, leaseVars, review>>

\* The pass is cancelled.  A manager's run is cancelled with it; a bootstrap's is a
\* task of its own, which nobody stops.
CancelPass(w) ==
  /\ stage[w] = "running" /\ Awaiting(w)
  /\ IF w \in Managers THEN Raise(w) ELSE UNCHANGED vars
  /\ todo' = [todo EXCEPT ![w] = {}]
  /\ Proceed(w, "unlease")
  /\ UNCHANGED <<found, target, passes, leaseVars, review>>

----------------------------------------------------------------------------
(* mark_failed, and the finally clause *)

\* A manager without a lease store cannot check the lease that a bootstrap hands it,
\* and does nothing.
CheckLease(w) ==
  /\ stage[w] = "mark"
  /\ Proceed(w, IF w \in Leasing /\ ~ (w \in Fenced /\ OwnsLease(w)) THEN "unlease"
                                                                    ELSE "save")
  /\ UNCHANGED <<vars, todo, found, target, passes, leaseVars, review>>

\* Managers note a conflict and go on; from a bootstrap it gets out, and the pass is
\* over.
Conflict(w) ==
  /\ todo' = IF w \in Bootstraps THEN [todo EXCEPT ![w] = {}] ELSE todo
  /\ Proceed(w, "unlease")
  /\ UNCHANGED store

\* The record is as it was found.
AsFound(w) == store[target[w]].version = found[w][target[w]].version

Failed(w) == WriteState(target[w], "failed", found[w][target[w]].attempt)

\* Mutant: the failure is saved with the version there is now.
SaveFailure_Reread(w) ==
  /\ stage[w] = "save"
  /\ IF (w \in Fenced /\ ~ OwnsLease(w)) \/ ~ CanTransition(store[target[w]].status, "failed")
     THEN Conflict(w)
     ELSE Failed(w) /\ Proceed(w, "unlease") /\ UNCHANGED todo
  /\ UNCHANGED <<pc, exec, attempt, seen, outcome, resumes,
                 found, target, passes, leaseVars, review>>

\* Mutant: the lease is checked before the store's lock is taken, and not under it.
SaveFailure_Unfenced(w) ==
  /\ stage[w] = "save"
  /\ IF ~ AsFound(w)
     THEN Conflict(w)
     ELSE Failed(w) /\ Proceed(w, "unlease") /\ UNCHANGED todo
  /\ UNCHANGED <<pc, exec, attempt, seen, outcome, resumes,
                 found, target, passes, leaseVars, review>>

\* Mutant: the record is set to failed whatever has become of it.
SaveFailure_Blind(w) ==
  /\ stage[w] = "save"
  /\ Failed(w) /\ Proceed(w, "unlease") /\ UNCHANGED todo
  /\ UNCHANGED <<pc, exec, attempt, seen, outcome, resumes,
                 found, target, passes, leaseVars, review>>

\* compare_and_set under the store's lock: the version, then the lease, for which the
\* validator takes the lease file's lock.  If the two locks are one, it waits for the
\* lock its own caller holds.
SaveFailure(w) ==
  /\ stage[w] = "save"
  /\ IF ~ AsFound(w)
     THEN Conflict(w)
     ELSE IF w \in Fenced /\ SharedLock
     THEN Proceed(w, "hung") /\ UNCHANGED <<store, todo>>
     ELSE IF w \in Fenced /\ ~ OwnsLease(w)
     THEN Conflict(w)
     ELSE Failed(w) /\ Proceed(w, "unlease") /\ UNCHANGED todo
  /\ UNCHANGED <<pc, exec, attempt, seen, outcome, resumes,
                 found, target, passes, leaseVars, review>>

\* Mutant: a lease is kept if its run went wrong.
Unlease_Kept(w) ==
  /\ stage[w] = "unlease"
  /\ IF outcome[w] # "none" /\ lease[target[w]].owner = OwnerOf[w]
                            /\ lease[target[w]].token = epoch[w]
     THEN Leases!Release(w, target[w])
     ELSE UNCHANGED leaseVars
  /\ Proceed(w, "choose")
  /\ UNCHANGED <<vars, todo, found, target, passes, review>>

\* release with the token, if there is a lease and it is still this one.
Unlease(w) ==
  /\ stage[w] = "unlease"
  /\ IF /\ w \in Leasing
        /\ lease[target[w]].owner = OwnerOf[w] /\ lease[target[w]].token = epoch[w]
     THEN Leases!Release(w, target[w])
     ELSE UNCHANGED leaseVars
  /\ Proceed(w, "choose")
  /\ UNCHANGED <<vars, todo, found, target, passes, review>>

----------------------------------------------------------------------------
(* The loops *)

\* LeaseAwareCheckpoint: once the record has a version it demands a token, which the
\* loop never passes.
Refuse(r) ==
  /\ r \in Guarded
  /\ pc[r] = "fail" \/ (pc[r] = "checkpoint" /\ attempt[r] <= Budget[r])
  /\ Raise(r)

LoopStep(r) ==
  \/ Begin(r) \/ Enter(r) \/ Exhausted(r) \/ Execute(r)
  \/ Retry(r) \/ Replan(r) \/ Rerun(r)
  \/ r \notin Guarded /\ (Checkpoint(r) \/ Complete(r) \/ Fail(r))
  \/ Refuse(r)

\* Runs that no pass is waiting for may also be broken off.
Loop(r) ==
  /\ \/ LoopStep(r)
     \/ /\ (r \in Recoverers => stage[r] = "idle")
        /\ Interrupt(r) \/ \E e \in Executions : Run(r, e)
  /\ UNCHANGED <<passVars, leaseVars, review>>

\* The recoverer's process ends.
CrashPass(w) ==
  /\ stage[w] \notin {"idle", "hung"}
  /\ Raise(w)
  /\ Leases!Forget(w)
  /\ Proceed(w, "idle")
  /\ todo' = [todo EXCEPT ![w] = {}]
  /\ found' = [found EXCEPT ![w] = NoRecords]
  /\ UNCHANGED <<target, passes, review>>

LeaseTick == Leases!Tick /\ UNCHANGED <<vars, passVars, review>>

\* RuntimeOrchestrator.shutdown releases by owner id, without a token: also the lease of
\* a later pass under that name, here or in another process.  Its own passes go on.
\* The execution was resumable when it was listed, and may have ended since.
Shutdown(o, e) ==
  /\ Exists(e) /\ store[e].status # "pending"
  /\ lease[e].owner = o
  /\ lease' = [lease EXCEPT ![e].owner = NoOwner, ![e].ttl = 0]
  /\ UNCHANGED <<vars, passVars, epoch, review>>

\* The operator has dealt with an item of the queue.
Resolve(e) ==
  /\ e \in review
  /\ review' = review \ {e}
  /\ UNCHANGED <<vars, passVars, leaseVars>>

Pass(w) ==
  \/ EndPass(w) \/ Refer(w) \/ Take(w) \/ AcquireLease(w) \/ SkipLeased(w) \/ Confirm(w)
  \/ ResumeTarget(w) \/ Conclude(w) \/ CheckLease(w) \/ SaveFailure(w) \/ Unlease(w)

\* Nobody gets a lock that is held for ever.
RecoveryNext ==
  /\ \A w \in Recoverers : stage[w] # "hung"
  /\ \/ \E r \in Runs : Loop(r)
     \/ \E w \in Recoverers :
          \/ StartPass(w) \/ Pass(w) \/ CancelPass(w) \/ CrashPass(w)
          \/ RenewLease(w) \/ LoseLease(w) \/ BreakOff(w)
     \/ \E e \in Executions : Resolve(e) \/ \E o \in Owners : Shutdown(o, e)
     \/ LeaseTick

RecoverySpec == RecoveryInit /\ [][RecoveryNext]_recoveryVars

\* A pass goes on by itself, and its run as executor and planner answer or raise.
FairRecovery ==
  /\ RecoverySpec
  /\ \A w \in Recoverers : WF_recoveryVars(Pass(w))
  /\ \A r \in Runs :
       WF_recoveryVars(LoopStep(r) /\ UNCHANGED <<passVars, leaseVars, review>>)

----------------------------------------------------------------------------
(* Properties *)

\* However a pass ends, by an empty list, an exception that gets out of it, or its
\* cancellation, the lease it took last is not left behind for others to wait for.
IdleHoldsNothing == \A w \in Recoverers : stage[w] = "idle" => ~ OwnsLease(w)

\* Recovery records a failure only of what it found: whatever the resumed run, or a run
\* that was alive all the while, has written since is not thrown away.
NoProgressDiscarded ==
  [][\A w \in Recoverers :
       stage'[w] # stage[w] /\ store' # store
         => store[target[w]] = found[w][target[w]]]_recoveryVars

\* A recoverer with a lease store records a failure only while it holds the lease, also
\* if it loses it between the check before the write and the write.
FailureIsOwned ==
  [][\A w \in Fenced :
       stage'[w] # stage[w] /\ store' # store => OwnsLease(w)]_recoveryVars

\* Two passes never both find that they have the lease of an execution, also if they are
\* made under one owner id, and whatever a shutdown releases under it.
OneHolder ==
  \A v, w \in Recoverers :
    v # w /\ target[v] = target[w] => ~ (OwnsLease(v) /\ OwnsLease(w))

\* Every pass ends, however leases, crashes and other runs fall.
EveryPassEnds == \A w \in Recoverers : stage[w] # "idle" ~> stage[w] = "idle"

----------------------------------------------------------------------------
(* A claim of the documentation that the code does not keep *)

\* README, reliability invariant 2: store and leases can share one lock.  So no call
\* waits for a lock it holds itself.
NobodyWaitsForItself == \A w \in Recoverers : stage[w] # "hung"

\* What the claim takes: separate locks, or managers without a lease store.
HungOnSharedLock == \A w \in Recoverers : stage[w] = "hung" => SharedLock /\ w \in Fenced

=============================================================================
