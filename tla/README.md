# Formal model of AIOS2's durable runtime

AIOS2 runs agent plans as *executions* whose state survives restarts. Its core is a set of
file-backed stores (JSON files rewritten under `flock`) and the protocols on top of them: a
lifecycle graph, versioned state writes, leases with fencing tokens, a commit journal with
crash recovery, an audit log, a retry loop, and a boundary around tool calls that makes side
effects idempotent. Several processes, threads and asyncio tasks use the same files. This
directory holds TLA+ models of those protocols, TLC runs that check them on small instances,
and TLAPS proofs of the properties that matter most.

## The system

| Component | State it keeps | Operations | Interacts with |
|---|---|---|---|
| `execution_state_machine.py` | none (a table) | `can_transition`, `validate` | every writer of a status |
| `execution_store.py` | `executions.json`: status, attempt, version, … per execution | `save`, `compare_and_set`, `transition`, `get`, `resumable` | file lock shared with leases |
| `execution_lease.py` | `execution_leases.json`: owner, fencing token, expiry | `acquire`, `renew`, `release`, `is_owner` | store's lock once a coordinator exists |
| `execution_commit.py` | commit journal (JSON lines), quarantine file, one token in memory | `commit`, `reconcile`, `pending` | store, lease, audit log |
| `execution_audit.py` | audit log (JSON lines) | `append` (once per event id), `events` | commit coordinator |
| `autonomous_loop.py`, `recovery_checkpoint.py`, `replanning.py` | a copy of the state, an attempt counter | `run`, `resume`, checkpoints | store, executor, planner |
| `recovery_manager.py`, `recovery_orchestrator.py`, `runtime_bootstrap.py` | a snapshot of resumable states, a lease, a heartbeat task | `recover`, `recover_pending`, `mark_failed` | loop, lease, store, coordinator |
| `recovery_policy.py`, `recovery_queue.py` | operator queue (JSON lines) | `decide`, `enqueue`, `resolve` | bootstrap, operator API |
| `lease_aware_checkpoint.py`, `runtime_factory.py`, `runtime_orchestrator.py` | wiring | `start`, `execute`, `shutdown` | all of the above |
| `tool_executor.py`, `tool_intent_store.py`, `tool_idempotency_store.py`, `execution_boundary*.py` | intents with expiring claims, results per key, a cache in memory | `execute`, `claim`, `mark_claimed`, `put_if_absent`, `reconcile_intent` | sandbox, agents |
| `agent_executor.py` | none (a plan's results so far) | `execute`, `_execute_with_retry` | tool executor; called by the loop and the scheduler |
| `tool_execution_coordinator.py` | none | `commit` | tool boundary, then commit coordinator |
| `intent_recovery_worker.py`, `tool_intent_recovery.py`, `reconciliation_journal.py` | reconciliation journal | `recover_one`, `_recover_one` | intents, leases |
| `shutdown_manager.py` | tracked tasks, callbacks | `shutdown` | leases |
| `kernel/scheduler.py`, `vnext_orchestrator.py` | a shared task list | `submit`, `run_until_idle`, `run` | agent executor, planner, cognition |
| API, cognition, observability, security, reliability | none that is durable | handlers, adapters, counters | |

What is hard in it, by kind (PROJECT.json lists every hazard at its line):

* **Interleaving and stale copies.** State is read, awaited on, and written later. Some writes
  are compared with the version that was read, some are not.
* **Crashes** between a journal append, a state write, an audit append and a journal mark.
* **Time.** Leases and claims expire while their holder works; tokens have to make the late
  holder harmless.
* **Identity.** One default owner id is shared by all runtimes; commit ids repeat.
* **Damaged files.** Torn appends and corrupt lines are to be quarantined without losing records.
* **Locks** that two stores share.

What makes each part correct: the *store* moves an execution only along the graph, one version at
a time; the *lease* has one holder per token; the *commit protocol* writes only under the newest
token, keeps a journal record for everything not yet audited, and audits nothing that is not so;
the *journal file* loses nothing but damaged lines; the *loop* ends, within its budget, with one
finisher at most; *recovery* resumes under a lease, records failures only of what it found, and
leaves no lease behind; the *tool boundary* binds a key to one outcome, and repeats a side effect only
after the claim it was done under has lapsed; *intent recovery* ends intents from durable evidence; a *plan*
counts as carried out only if its calls were, as far as their keys tell them apart, by whatever runs and attempts; the *tool commit* commits an
execution once, and not before the tool's outcome; the *scheduler* executes each task once, in order.

## Modules

| Module | Models |
|---|---|
| `ExecutionStateMachine` | the transition table, as data |
| `ExecutionLease` | the lease file and the token each worker carries; instantiated by `ExecutionCommit`, `Recovery` and `IntentRecovery` |
| `ExecutionStore` | the execution record and its writes, as operators for the modules that use the store |
| `ExecutionLifecycle` | abstract: what readers of the execution record may rely on |
| `ExecutionCommit` | `commit`, `reconcile`, store, lease, audit log, direct writers, crashes |
| `ExecutionCommit_proofs` | the theorems about it |
| `CommitJournal` | the journal file line by line, with damage, torn appends, quarantine and `_mark` |
| `CommitLog` | abstract: the journal as `ExecutionCommit` sees it |
| `CommitJournal_proofs` | the theorems about the file, and that it is a `CommitLog` until its first fault |
| `AutonomousLoop` | `run` and `resume` of several calls on one execution |
| `AutonomousLoop_proofs` | the theorems about it |
| `Recovery` | passes of `RuntimeBootstrap` and `RecoveryManager`: `AutonomousLoop`'s runs, resumed under leases |
| `Recovery_proofs` | the theorems about it, with the loop's invariant |
| `ToolIntents` | the stores of intents and results for one key, as operators |
| `ToolBoundary` | `ToolExecutor.execute` of several executors on these stores |
| `FirstOutcome` | abstract: what callers of a tool may rely on |
| `IntentRecovery` | both kinds of intent recovery worker next to the executors of `ToolBoundary` |
| `ToolBoundary_proofs` | the theorems about `ToolBoundary`, and about `IntentRecovery` |
| `ToolCommit` | `ToolExecutionCoordinator.commit`: `ToolIntents` and all of `ExecutionCommit` |
| `ToolCommit_proofs` | the theorems about it, with the protocol's invariant |
| `PlanExecution` | `AgentExecutor` carrying out the plans of `AutonomousLoop`'s runs |
| `PlanExecution_proofs` | the theorems about it, and that it implements `AutonomousLoop` |
| `VNextOrchestrator` | calls of `run()` and clients of the scheduler, on one task list |
| `TaskQueue` | abstract: what those who submit tasks to the scheduler may rely on |
| `VNextOrchestrator_proofs` | the theorems about it, and that it implements `TaskQueue` |
| `MC*` | constants for TLC |

### Correspondence

*Atomicity.* A store, lease, audit or journal operation holds its file lock from reading the file
to replacing it, so it is one action. `commit()` is not: it reads the journal (`FindExisting`),
appends its intent (`AppendIntent`), takes the store's lock and passes its checks (`AdmitCommit`,
or `RefuseCommit`), writes the state (`ApplyTransition`), appends the event (`AppendAudit`) and
marks the record (`MarkIntent`, which also releases the lock). `Crash` may fall between any two
of them: it drops the lock, as the kernel does with a dead process's `flock`, the token, which
was only in memory, and the call. `reconcile()` takes its snapshot of pending records under the
journal's lock only (`StartReconcile`) and then deals with one record after the other, under the
store's lock each: `SkipIntent`, `ConfirmIntent`, `RedoIntent` or `PoisonedIntent`.

*The lock.* `ExecutionCommitCoordinator.__init__` points the lease store at the store's lock file;
so `LeaseTraffic` needs `lock = NoWorker`. Time (`TimePasses`) does not. A lease may therefore
expire inside the critical section, but its token cannot change there.

*Commit ids* contain execution, attempt and target, and no version: `CommitId`. Two calls may have
one id, and `_mark` stops at the first match: `IsFirst`.

*The journal* is a sequence of records in `ExecutionCommit` and a sequence of lines in
`CommitJournal`. A line there is the set of intents whose bytes are in it and how it reads back.
Two ids share a line when a record is appended to a torn one. `CommitLog` joins the two: up to
the first fault, `CommitJournal` implements it (`CleanImplementsLog`), and the commit protocol
uses its journal as one (`ImplementsLog`). What `_mark` writes back are the accepted lines in the order of their numbers,
which increase from line to line: `Ascending` defines it as the sequence of these lines that keeps the file's order.

*The loop* (`AutonomousLoop`) has a stage per store call and per `await`. `_transition` lets the
store read the record again, so `LoopTransition` compares nothing; `Checkpoint` and `Finish`
compare with the version last seen (`seen`). An interruption (cancellation, crash) may fall at every await.

*Recovery.* A recoverer owns the run of the same name: it lists the resumable records (`StartPass`),
and takes them one by one through policy (`Refer`), lease (`AcquireLease`, `SkipLeased`, `Confirm`),
`resume()` (`ResumeTarget`), waiting (`RenewLease`, `LoseLease`, `BreakOff`, `Conclude`), `mark_failed`
(`CheckLease`, `SaveFailure`) and the `finally` clause (`Unlease`). `found` is the list, with the versions
`mark_failed` compares with. The token is forgotten when the next execution is taken (`Take`): it is a local
of the loop's body. A bootstrap's default manager has no lease store, and its `mark_failed` then
does nothing: `Fenced` says whose has one. A cancelled bootstrap leaves its run behind (`CancelPass`), which
then goes on without a pass. `Guarded` runs have the checkpoint of the default wiring: it demands a token
from every caller once the record has a version, and the loop never passes one, so they are refused.
An orderly shutdown (`Shutdown`) gives back what is leased under the runtime's owner id, whoever holds it by
then; it comes at any time, and from a list that may be out of date.
The record is listed in the file's order, which the model leaves open; event subscribers are taken to
answer at once, so that cancellation finds the run at its executor or planner.

*The tool boundary.* The model is of one key, since keys share nothing but file locks, and of one call
under it. An executor has one call under way per key (its asyncio lock). An intent is `prepared`,
`executing`, `ambiguous`, `completed` or `failed`; a claim is a number, counted up, and `ttl` what is left
of it. Between the look at the registry and the claim others may act, and the code does not look again.
The actions are `prepare`, `claim`, the call of the tool, its effect, `put_if_absent` and
`mark_claimed` apart, so that a crash, a cancellation or an expiry falls between any two.

*Intent recovery.* The two kinds of worker lease different keys (the intent's execution, the idempotency
key), so they do not exclude each other. A journaling worker holds the lease file's lock from its check
to `mark_claimed` (stage `commit`); lease operations of others wait meanwhile. Leases and claims have
lengths of their own and expire apart. A worker is refused by a claim of its own owner id (`claimsOf`).

*Plans.* `PlanExecution` takes the loop of `AutonomousLoop` action by action and says what its `execute` stage
is: the calls of the run's plan, one after the other (`index`), each asked for in memory and registry (`Ask`),
performed (`Perform`, `Conclude`, `BreakOff`) and stored (`Put`). Every attempt and every resumption starts at the
first call. A call's key (`KeyOf`) is the one the planner gave it, or else the execution with the planner's id for the
call, or with its position. Nothing keeps a planner from giving an id or a key to several calls, in a plan or when it
numbers the steps of the next one, so `Keys` and calls (`ToolCall`) are apart: memory looks at the key only
(`Remembered`), the registry at the call too (`StoredAnother`). The id of a call without one contains the agent's, which
is taken to be one per execution. `planOf`
is the plan in the record, written where the loop writes it. Each run has an executor, and so a memory, of its own,
which a crash empties (`CrashRun`) and a cancellation does not (`BreakRun`). The executor has no store of intents:
two runs may perform a call at once, and the registry decides.

*Tool commits.* In `ToolCommit` a worker of `ExecutionCommit` is a caller of the coordinator: `ClaimTool` and
`ToolEnds` are the caller's part, `PutOutcome` and `MarkTool` the boundary's two durable steps. If the mark goes
through, the same action leaves the worker where `ExecutionCommit`'s `Begin` does, with a transition from the
caller's copy of the state; from there all actions are `ExecutionCommit`'s.

*Scheduler.* It runs in one event loop, so an action of `VNextOrchestrator` goes from one await to the next:
`Planned` builds the task, appends it and marks the first pending task running, which may be another's. `Executed`
goes on from the position (`at`) the caller has got to in the list as it is by then. In `TaskQueue`, which hides
the callers, such an action has up to three parts: a task arrives, one ends, and the next one begins.

## Runs

Twelve runs: ten pass, and `loop_stale` and `recovery_hang` show where code and documentation differ. A type
invariant is checked in `commit`, `tool` and `recovery` (the last covers the loop); the other modules state theirs
for proofs, and the runs' time goes to properties that could fail.

| Run | Shows | Bounds |
|---|---|---|
| `commit` | exclusive leases whose ownership does not come back, fencing, recoverability, truthful audit, refinement of `ExecutionLifecycle` | two coordinators of one owner id (the harder case: the token alone tells them apart), two tokens, two journal records, one crash, direct writers up to version 4, requests the graph forbids included |
| `commit_live` | every call returns; an applied completion is audited in the end, unless an intent before it that the graph forbids keeps `reconcile()` from getting there | two coordinators, two executions, no lease, two journal records, one crash, direct writers up to version 3; requests complete executions, some of them too early, which leaves such intents behind |
| `journal` | nothing that was appended vanishes from both files; without faults no line is rejected and the file is a `CommitLog` | three ids of which one has a separator in its text, three lines, one fault |
| `loop` | one finisher at most, durable and final completion, termination | three calls on one execution, budgets 2, 2 and 1, two resumptions |
| `loop_stale` | violation of `NoStaleOverwrite` | two calls |
| `recovery` | failures are recorded under the lease only, and only of what was found; no lease is left behind; lifecycle; every pass ends | a bootstrap with two passes and a manager, with different owner ids, whose loop has the default wiring, so that its runs fail before they write; budgets and review limit 2; a lease runs out in one tick |
| `recovery_hang` | violation of `NobodyWaitsForItself` | the same, with one lock file |
| `plan` | a completed execution's plan was carried out, as far as keys tell calls apart; effects under a key that has a result are fewer than the runs there are, since only a run that was already about to call the tool can have one | two runs of one execution, one resumption, two attempts each with one retry; two plans of two steps that give one id to three steps with two different calls, within a plan and across plans, and a key to the fourth |
| `tool_commit` | one tool outcome is committed once, after its intent has ended; every call returns | two callers, three claims of one tick, two crashes, no lease, direct writers up to version 4 |
| `vnext` | tasks are executed once; all callers together are a `TaskQueue`, in which tasks begin in order; a call that reports success leaves none of its own behind; every call ends | two calls and two clients, so that lists of four tasks are driven from four positions |
| `tool` | a terminal intent has its result; terminal is final; effects repeat only after a lapse; refinement of `FirstOutcome` | three executors, three claims (each can have a late claimant behind it), claims of two ticks, one crash |
| `intents` | finality and refinement also with recovery at work; a journaling worker ends an intent only as the journal says | an executor, two journaling workers and a reconciler, two claims, two acquisitions per lease, one pass each, one crash; two workers of different kinds have one owner id |

**Bounds.** `MaxVersion` stops direct writers only; the coordinator's writes are bounded by
`MaxJournal`, as each call needs a record and each record is redone by a pass. `MaxSequence`
bounds the numbers of journal lines, which grow past the number of lines once damage has left
gaps. `MaxResumes` bounds resumptions, each of which gets a fresh budget. `MaxToken`, `MaxClaims`,
`MaxCrashes` and `MaxFaults` bound what the environment does; `MaxPasses` how often a worker starts
over. In `tool_commit`, `MaxJournal` is more than there can be
records, which `OutcomeCommittedOnce` relies on: the bound does not keep the journal at one. (It counts records: the
write that a record asks for is repeated by `reconcile()` if direct writers lead the execution back to where it was.)
In `recovery`, `MaxToken` and `MaxResumes` are as many as the passes can use, so neither ever stops one: the liveness property depends on it. `MaxAttempts` is the reconciler's own limit, not a bound.
Two coordinators suffice for the races the commit protocol has, since the critical sections of the store
serialise any others; the proofs have no such bound. Executions, keys and intents are independent of each
other but for the files they share, so the safety runs have one. `commit_live` has two, since an intent of one keeps
`reconcile()` from the other's. What else executions share is left to the theorems, which have any number of them:
a coordinator's token, and idempotency keys that planners give. `Workers` and the ids without separators are
interchangeable in the safety runs (in `plan`, the runs are), which use symmetry; the liveness runs do not.

**Fairness.** `commit_live`: strong fairness of each worker's steps, since a waiting worker is only
enabled while the lock is free, and `flock` grants it to each waiter in the end; weak fairness of
`StartReconcile`, since bootstrap and every recovery pass call `reconcile()`. Beginning a commit,
lease traffic, direct writes and crashes are not fair. `tool_commit`: the same, and weak fairness of what the
coordinator does before (the tool is assumed to return); claiming is not fair. `vnext`: weak fairness of each
caller's next step, since what it awaits answers or raises; calls, submissions and cancellation are not fair. `loop`: weak fairness of each run's
next step (the event loop schedules what is ready, and the executor is assumed to return or
raise); starting, resuming and interrupting are not fair. `recovery`: the same for the runs, and weak
fairness of each pass's next step, which is sequential code; time, heartbeat, cancellation, crashes and new
passes are not fair. There is no liveness property of intent recovery: an intent may stay open as long as
resolvers cannot tell, and every further pass would use up another token of the bound.

**Deadlock** is not checked: every run may stop where all calls have returned, all bounds are used up,
and final states have no way out. That nobody waits for ever is what `EveryCallReturns`, `EveryRunEnds`,
`EveryPassEnds`, `EveryToolCommitReturns` and `EveryCallEnds` say.

## Proofs

Every invariant, action property and refinement that a passing run checks is also a theorem, proved for
all values of the constants: any number of workers, runs, executors, executions and owners, any set of
requests, any length of leases and claims, with none of the bounds mattering. Each module of theorems
rests on one inductive invariant, `IInv` unless another name is given: lemma `InvInit` says that it holds at first,
`Invariance` that it always does. What is assumed is what the `ASSUME`s of the modules say of the constants;
TLC evaluates them in the runs. The modules are layered as the models are:
`Recovery_proofs` and `PlanExecution_proofs` extend `AutonomousLoop_proofs`, and `ToolCommit_proofs` extends
`ExecutionCommit_proofs`; what is proved below is used above, not proved again.
Some theorems are of properties that no run has; the tables say so. Leaves are small: each takes the provers about a
second at most, so that the speed of a machine does not decide whether a proof goes through.

### The commit protocol (`ExecutionCommit_proofs`)

| Theorem | Property |
|---|---|
| `TypeCorrectness` | `TypeOK` |
| `Fencing` | `CriticalSectionFenced` |
| `MarkingFollowsAudit` | `MarkedIsAudited` |
| `Recoverability` | `AppliedIsRecoverable` |
| `TokenOrder` | `WriteTokensNeverFallBack` |
| `AuditTruth` | `AuditTellsTheTruth` |
| `CompletionIsFinal` | `CompletedIsFinal` (in no run: the graph and `ImplementsLifecycle` imply it) |
| `LeaseIsExclusive` | `ExclusiveHolder` |
| `LostLeases` | `LostLeaseStaysLost` |
| `Refinement` | `ImplementsLifecycle` (`ExecutionLifecycle`) |
| `JournalUse` | `ImplementsLog` (`CommitLog`; in no run) |

`TypeOK`, `MarkedIsAudited` and `AppliedIsRecoverable` are not inductive without the rest:

* `AppliedIsRecoverable` needs `CallsAreJournaled`: a worker that is about to write has its record
  in the journal. With `MarkedIsAudited`, that record is pending or its event is in the log.
* `MarkedIsAudited` needs `AuditIsWritten`: whoever is about to mark has appended the event.
* the audit and refinement theorems need `WriterIsLegal` and `StateIsWritten`: what the checks under
  the lock found still holds at the write and at the audit. That rests on `CriticalSectionFenced`:
  there is one worker in the critical section at most, and all other writers wait for the lock.
* `TokenOrder` needs `WritesUseIssuedTokens`: no write was made under a token newer than the lease's.
* `CallsHaveRecords`, `RecordsAreOfExecutions` and `FreshIsPending` carry types and the existence of
  executions along.

The lease theorems have an invariant of their own, `LInv`, which any step of `ExecutionLease` keeps (`LeaseUse` says
that the protocol makes no others): a number that a coordinator carries was reached by some execution's lease
(`TokensWereIssued`), and one that two carry by two (`SharedTokensAreOfTwo`).

`CompletionIsFinal` is then a consequence of each write being legal and of `completed` having no
successor in the graph.

`JournalUse` closes the gap between the two models of the journal: the protocol appends pending entries and marks the
first one with an id, and nothing else (`AppendIsLogged`, `MarkIsLogged`); that is what `CommitJournal_proofs` shows
the file to do up to its first fault. The composition is of `CommitLog` as an interface: a reader's view after a fault
is in `CommitJournal` only.

### The journal file (`CommitJournal_proofs`)

| Theorem | Property |
|---|---|
| `TypeCorrectness` | `TypeOK` |
| `Preservation` | `NothingVanishes` |
| `Acceptance` | `CleanIsAccepted` |
| `Refinement` | `CleanImplementsLog` (`CommitLog`) |

Preservation is about any damage: the bytes of an id are in a line of the file, and a rewrite of the file keeps
that line or has put it into quarantine. It needs that a file whose last line is torn has one. The other two are about the file up to its
first fault, where `CleanIsDense` is inductive: nothing is torn or in quarantine, each line is the record of one
intent, and line *i* reads back and has number *i*. From that, the numbers a reader accepts are all of them, and
what `_mark` writes back is the whole file (`AscendingOfAll`). As induction is out of the prover's reach, the lemmas
about `Ascending` and about the next expected number argue from the smallest or largest counterexample (`Smallest`, `Largest`).

### The loop (`AutonomousLoop_proofs`)

| Theorem | Property |
|---|---|
| `TypeCorrectness` | `TypeOK` |
| `SoleFinisher` | `OneCanFinish` |
| `DurableResults` | `CompletedIsDurable` |
| `CompletionIsFinal` | `CompletedStays` |
| `Refinement` | `ImplementsLifecycle` |

`OneCanFinish` is inductive with: a run has seen a version that the record has or had (`HasSeenThePast`), so
that after any write by another, its version is old; and nobody has seen the completed record
(`NeverSawCompletion`), which is why a write that compares versions cannot replace it: the graph alone would
allow that. `HasExecution`, `FreshIsPending` and `ResultIsTrue` say that runs work on records that exist, that a
missing record reads as pending, and that answers stay true.

### Recovery (`Recovery_proofs`)

| Theorem | Property |
|---|---|
| `RecoveryTypes` | `RecoveryTypeOK` |
| `LeasesAreGivenBack` | `IdleHoldsNothing` |
| `ProgressIsKept` | `NoProgressDiscarded` |
| `FailuresAreFenced` | `FailureIsOwned` |
| `RecoveryRefinement` | `ImplementsLifecycle` |
| `RecoverySoleFinisher` | `OneCanFinish` (in no run of `Recovery`) |
| `RecoveryKeepsCompletions` | `CompletedStays` (in no run of `Recovery`) |
| `LeaseOfOne` | `OneHolder` (in no run) |
| `HangsOnSharedLockOnly` | `HungOnSharedLock` (in no run) |
| `SeparateLocksNeverHang` | `NobodyWaitsForItself`, if the locks are separate |

`RInv` is the loop's `IInv`, types, `HeldIsNumbered` and an invariant per pass. The runs are handled by the
loop's own lemmas, as in rely-guarantee reasoning: a recoverer's write is a legal step of the record that is no
run's own and disturbs no run (`NoRunMoves`). Per pass: a record of its list is one that the store has or had, and if
its version is still there, so is the record (`FoundIsPast`), which makes the version `mark_failed` compares with
as good as comparing the record; what is on the list was resumable (`ListIsResumable`), so that failing it is
legal; and a token is one that the target's lease has had, and is not owned between two targets
(`TokenIsOfTarget`). That also makes the next token new to everyone with that target, so that passes with one target
carry different tokens (`TokensDiffer`) and one of them at most owns the lease. Here, unlike in the commit protocol,
no number of another execution gets in the way: a pass forgets its token when it goes on to the next.

The last two say how far the deadlock of `recovery_hang` goes: only a manager that has a lease store gets into it, and
only if store and leases have one lock file.

### Plans (`PlanExecution_proofs`)

| Theorem | Property |
|---|---|
| `PlanRefinesLoop` | `PlanSpec => Spec`: plans only fill in what a run does while it executes |
| `PlanTypes` | `PlanTypeOK` (in no run) |
| `CarriedOut` | `CompletedWasCarriedOut` |
| `LateEffects` | `LateEffectsAreBounded` |
| `LoopGuarantees` | `OneCanFinish`, `CompletedIsDurable`, `CompletedStays`, `ImplementsLifecycle` hold with plans |

By `PlanRefinesLoop` all theorems about the loop hold with plans (`LoopGuarantees`). `PlanInv` follows a result from the tool to the
record: what has succeeded under a key is a call that has it, and what the registry says of it is so (`StoredIsTrue`);
what an executor remembers, the registry says too (`MemoryIsTrue`); what a run is about to store, the tool has said
(`AtItsCall`); the keys of the steps before the one it is at have said ok (`DoneSoFar`); and a run whose checkpoint is
still the newest write has its own plan in the record (`WroteItsPlan`, where other runs may have replaced it before).
From these, every key of a completed plan has said ok (`CompletedSaidOk`); the step's own call is the one that did if it
alone has the key, as what succeeds under a key has it. No more is true when calls share one. For late effects,
`LateIsPaidFor` counts a run that may yet have one together with those that had theirs: the run that stored the result
is neither. `PlanAssumption` says that there are finitely many runs and that no plan is empty, and nothing about ids or
keys: calls may share them with others, in other executions too.

### The tool boundary and intent recovery (`ToolBoundary_proofs`)

| Theorem | Property |
|---|---|
| `TypeCorrectness` | `TypeOK` |
| `ResultBeforeIntent` | `TerminalHasResult` |
| `RepetitionNeedsLapse` | `RepeatedOnlyAfterLapse` |
| `Finality` | `TerminalIsFinal` |
| `Refinement` | `ImplementsFirstOutcome` (`FirstOutcome`) |
| `RecoveryTypes` | `RecoveryTypeOK`, with workers |
| `RecoveredFinality` | `TerminalIsFinal`, with workers |
| `RecoveredOutcome` | `ImplementsFirstOutcome`, with workers |
| `JournalDecides` | `EndedAsJournaled` |
| `LeaseOfOneWorker` | `OneWorkerAtALease`, with workers (in no run) |

`CallInv` is what holds whoever else uses the stores:

* `CallsHaveClaims`: a call that is about to mark carries the stored result, which no later call can
  replace; so a mark, whoever makes it, says what the registry says.
* `OnlyExecutingIsClaimed`: an intent that is over has no claim that a late caller could present.
* `OneOutcome`: what is remembered and what was answered is what is stored; the refinement needs it.

Executors alone keep more (`IInv`): `TerminalHasResult`, and `TokensWereIssued` and `OlderClaimsLapsed`: of all
claims there have been the newest alone can be alive, so an effect under an older one means that it had
lapsed. Next to recovery workers, `TerminalHasResult` is false, as a journaling worker puts no result into the registry,
and a reconciler's verdict may differ from what is stored; finality and `FirstOutcome` do not need it.
`RInv` adds to `CallInv` what a worker may be at, and with what (`WorkerInv`); that two workers of one lease never
carry the same number (`LeasesAreNumbered`); and that a journaling worker that still has its lease is the first to
journal a verdict, which then is in the journal when it marks (`JournalIsItsOwn`).

### Tool commits (`ToolCommit_proofs`)

| Theorem | Property |
|---|---|
| `ToolTypeCorrectness` | `ToolTypeOK` |
| `CommittedOnce` | `OutcomeCommittedOnce` |
| `ProtocolGuarantees` | `CriticalSectionFenced`, `MarkedIsAudited`, `AppliedIsRecoverable` hold here too |
| `ToolRefinement` | `ImplementsLifecycle` |
| `ToolJournalUse` | `ImplementsLog` (in no run) |

`ToolInv` includes the protocol's `IInv`. Callers of the tool are in no call of the coordinator
(`CallersAreOutside`), an intent that has ended says what the registry says and has no claim (`EndedAsStored`);
so it ends once, one commit begins, and that commit finds an empty journal (`CommitsFollowTheIntent`).

### The scheduler (`VNextOrchestrator_proofs`)

| Theorem | Property |
|---|---|
| `TypeCorrectness` | `TypeOK` |
| `NoTaskTwice` | `ExecutedOnce` |
| `SubmissionOrder` | `StartedInOrder` (in no run: `ImplementsQueue` says it of the abstract queue) |
| `TasksAreSeenTo` | `LeftPendingByErrorsOnly` |
| `Refinement` | `ImplementsQueue` (`TaskQueue`) |

The list has each submitted task once (`ListsEachOnce`), what is pending is at its end (`PendingIsLast`), and a task
that was begun was taken up once (`BegunOnce`). A caller that has got to some position has left nothing pending up
to it (`PassedIsBegun`), whoever has begun those tasks; so if it ends without an error, its own is not pending.

The refinement needs one thing more: what a caller is driving is running, and no other caller drives it (`HandsInv`), so
that only what was begun ends, once. Each action is taken apart into arrival, ending and beginning (`StepHasParts`), which
are shown to be the parts of a step of the queue (`PartsAreQueued`). As what is pending is at the end of the list, the
number of begun tasks says which they are; each step adds one at most (`BeginsNext`, counting with the library's theorems
on cardinality).

### Only model-checked

Liveness (`EveryCallReturns`, `CompletionIsAudited`, `EveryRunEnds`, `EveryPassEnds`,
`EveryToolCommitReturns`, `EveryCallEnds`): it needs fairness and `ENABLED`, which are out of the prover's reach.

## Where the code differs from what is said of it

Two have a run that ends in a counterexample:

* **A resumed or overtaken run overwrites newer state** (`loop_stale`). README and the comment in
  `_transition` say a stale copy never does; the version it compares is the one just read.
* **Recording a failure can block for ever** (`recovery_hang`). `mark_failed` lets the store ask the lease store
  while it holds its lock; with one lock file for both, which README recommends, that is the lock it waits for.

The others are behaviours of the models that no property forbids:

* **Obsolete intents are replayed.** A journal record has no version, so `reconcile()` takes an execution that came
  back to `from_status` for one that never left (`RedoIntent`). ARCHITECTURE.md, line 27, says that checks prevent it.
* **Ambiguous calls are replayed.** ADR-003 says they never are; the next `execute` with the key claims the
  ambiguous intent and runs the tool (`Claim`).
* **Intent and result can disagree.** A reconciler marks the intent with its resolver's verdict also when
  `put_if_absent` tells it that another outcome is stored (`PutVerdict`, `MarkVerdict`).
* **A key can absorb another call.** A call is known by the idempotency key in its step, or its `call_id`, or its
  position in the plan (`agent_executor.py`, line 42), and the memory of a `ToolExecutor` answers whatever call has the
  key (`tool_executor.py`, lines 46-47; `Remembered`). If a planner gives one id or key to two calls, in one plan or
  by numbering the steps of the next plan from one again, or gives none, the second call is answered with the
  first one's result and never made, and the execution completes without it, against the comment in `put_if_absent`.
  `CompletedWasCarriedOut` therefore says that a step's *own* call was made only of keys that planners give to no other
  call. With a registry and an empty memory the run raises instead (`Conflict`), at every resumption again.
* **A forbidden intent stops reconciliation.** `commit()` journals its intent before anything validates it
  (`execution_commit.py`, line 84). One that the graph forbids stays pending; while its execution is at its
  `from_status`, each `reconcile()` raises at it (line 113; `PoisonedIntent`) and does not look at what comes behind it
  in the journal, of whichever execution. A completion cut off by a crash is then in the store and not in the audit log:
  the exception in `CompletionIsAudited`.
* **Execution and tool can disagree.** The coordinator's target is what its caller calls the outcome
  (`tool_execution_coordinator.py`, line 69), not what `put_if_absent` returned: the registry may say completed and the
  execution be set to failed (`Transitioning`). After a crash between the end of the intent and the commit's journal
  append, a second `commit()` returns at the intent, and nothing is left to commit the execution.
* **One token for all executions.** Tokens are numbered per execution, but a coordinator has one
  (`execution_commit.py`, line 32) and presents it for whatever execution it commits or reconciles. With a shared owner
  id it may own a lease that it never acquired, beside the coordinator that did: the exception in `ExclusiveHolder`.
* **"Completed" before it is done.** `run()` of the orchestrator takes any state of its task but failed for success
  (`vnext_orchestrator.py`, line 54): while another call is still executing the task, it returns "completed" without a result.
* **A cancelled task stays running.** `execute` handles `Exception` only; nobody drives that task again.

On the way: after a damaged line, `_mark` leaves a gap
in the journal's sequence numbers, and the next read rejects a valid record; a record's checksum is
computed only when it has none, so alteration is not noticed; a text with a Unicode line separator makes
its record unreadable (`CommitJournal` models all three). When two callers append one id, the second record
stays pending. With the default wiring no run gets past its first checkpoint (`Refuse`), and a
bootstrap's default manager never records a failure (`CheckLease`). A run that has written a checkpoint
and then raises is not set to failed by recovery, as its version is not the one in the list any more
(`Conflict`); from a bootstrap that conflict ends the whole pass.

## Plan

In order; each module is written so that it can be proved about (no `RECURSIVE`).

1. *Done:* the execution record, leases, the commit protocol and its journal file, the loop, recovery of executions
   with an orderly shutdown, the tool boundary, intent recovery, plans, tool commits, the scheduler.
2. *Done:* proofs of every invariant, action property and refinement that a passing run checks.
3. `Recovery` with commits: what `reconcile()` before a pass may repair without a lease.

## Not modelled

Operator API, HTTP and authentication; cognition, observability and security adapters; the sandbox, registry
and gateway (stateless permission checks); event publication, whose failures surface at the await
that publishes; reports and start-up validation; texts, goals, plans and results beyond what decides a step;
`commit()` for an execution that does not exist, which journals an intent that `reconcile()` skips as long as
that is so; `run()` with a context of the caller's whose execution has a record already; permission and boundary
errors that a tool raises itself after its effect; tool executors with intents but no registry; different calls under one key where there are intents; recovery
workers without journal or lease store; compaction of the reconciliation journal (its records are kept for
30 days, far longer than any claim or lease); tasks and closers of the shutdown manager, of which
the runtime registers none; platforms without `fcntl`, where no lock is taken at all.

## Running

    tlc -workers 2 -config MCExecutionCommit.cfg MCExecutionCommit
    tlapm ExecutionCommit_proofs.tla
    tlapm CommitJournal_proofs.tla
    tlapm AutonomousLoop_proofs.tla
    tlapm Recovery_proofs.tla
    tlapm PlanExecution_proofs.tla
    tlapm ToolBoundary_proofs.tla
    tlapm ToolCommit_proofs.tla
    tlapm VNextOrchestrator_proofs.tla
