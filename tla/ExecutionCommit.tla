-------------------------- MODULE ExecutionCommit --------------------------
(***************************************************************************)
(* The crash-recoverable commit protocol of runtime/execution_commit.py,   *)
(* composed with the execution store, the lease and the audit log.         *)
(*                                                                         *)
(* A worker is a coordinator object in some process.  It runs one call of  *)
(* commit() or reconcile() at a time; other workers, the loops that write  *)
(* the store directly, lease traffic, time and crashes interleave with it. *)
(* commit() reads the journal, appends its intent, then takes the store's  *)
(* lock, checks the lease, writes the state, appends the audit event and   *)
(* marks the journal record, in that order; each of these durable steps is *)
(* an action, so that a crash can fall between any two.  Constructing a    *)
(* coordinator points its lease store at the store's lock file, so lease   *)
(* operations need the same lock.                                          *)
(*                                                                         *)
(* The journal here is a sequence of well-formed records and a record's    *)
(* sequence number is its position.  Torn lines, checksums and quarantine  *)
(* are the subject of CommitJournal.                                       *)
(***************************************************************************)
EXTENDS ExecutionStore, FiniteSets, Sequences

CONSTANTS
  Workers, Owners, OwnerOf, NoOwner, Ttl, MaxToken,  \* see ExecutionLease
  Leased,      \* is the coordinator given a lease store?
  Requests,    \* <<from, to>>: what callers of commit() ask for
  NoWorker,    \* "nobody holds the store lock"
  NoCall,      \* the record of a worker that is idle
  MaxJournal,  \* bound: records in the commit journal
  MaxCrashes   \* bound: crashes

ASSUME CommitAssumption ==
  /\ OwnerOf \in [Workers -> Owners]
  /\ NoOwner \notin Owners
  /\ Ttl \in Nat \ {0}
  /\ MaxToken \in Nat
  /\ Leased \in BOOLEAN
  /\ Requests \subseteq Statuses \X Statuses
  /\ NoWorker \notin Workers
  /\ MaxJournal \in Nat
  /\ MaxCrashes \in Nat

VARIABLES
  lease, token,  \* see ExecutionLease
  journal,       \* the commit journal file
  audit,         \* event ids in the audit log
  lock,          \* the worker inside the store's lock, or NoWorker
  pc,            \* where each worker's call has got to
  mode,          \* which call that is: commit or reconcile
  call,          \* the record each call is dealing with, or NoCall
  todo,          \* journal positions a reconcile() call has yet to look at
  crashes,       \* crashes so far
  applied,       \* history: commit ids whose state write was performed
  lastWrite      \* history: the token under which a coordinator last wrote

INSTANCE ExecutionLease

vars == <<store, lease, token, journal, audit, lock, pc, mode, call, todo,
          crashes, applied, lastWrite>>
durable == <<store, journal, audit>>
local == <<lock, pc, mode, call, todo>>
history == <<applied, lastWrite>>

\* The commit id is f"{execution}:{attempt}:{to}:{correlation}"; an execution
\* keeps its correlation id.
CommitId == [exec : Executions, attempt : Nat, to : Statuses]
JournalStatuses == {"pending", "applied", "reconciled"}
CommitRecord == [id : CommitId, from : Statuses, status : JournalStatuses]

Stages == {"idle", "check", "append", "lock", "write", "audit", "mark"}
Critical == {"write", "audit", "mark"}  \* stages inside the store's lock

TypeOK ==
  /\ StoreTypeOK
  /\ LeaseTypeOK
  /\ journal \in Seq(CommitRecord)
  /\ audit \subseteq CommitId
  /\ lock \in Workers \union {NoWorker}
  /\ pc \in [Workers -> Stages]
  /\ mode \in [Workers -> {"commit", "reconcile"}]
  /\ call \in [Workers -> CommitRecord \union {NoCall}]
  /\ todo \in [Workers -> SUBSET DOMAIN journal]
  /\ crashes \in Nat
  /\ applied \subseteq CommitId
  /\ lastWrite \in [Executions -> Nat]

Target(w) == call[w].id.to
Exec(w) == call[w].id.exec

InJournal(id) == \E i \in DOMAIN journal : journal[i].id = id
Pending(id) == \E i \in DOMAIN journal :
                 journal[i].id = id /\ journal[i].status = "pending"
PendingPositions == {i \in DOMAIN journal : journal[i].status = "pending"}

\* Mutant: fencing asks for the owner, not for the token.
LeaseValid_OwnerOnly(w, e) ==
  Leased => lease[e].owner = OwnerOf[w] /\ lease[e].ttl > 0

\* _lease_valid_unlocked: a coordinator without a lease store is not fenced;
\* one without a token never passes.
LeaseValid(w, e) == Leased => IsOwner(w, e)

\* _mark rewrites only the first record that carries the id.
IsFirst(i, id) ==
  /\ journal[i].id = id
  /\ \A j \in 1..(i - 1) : journal[j].id # id

Marked(id, status) ==
  [i \in DOMAIN journal |->
     IF IsFirst(i, id) THEN [journal[i] EXCEPT !.status = status] ELSE journal[i]]

----------------------------------------------------------------------------
Init ==
  /\ StoreInit
  /\ LeaseInit
  /\ journal = <<>>
  /\ audit = {}
  /\ lock = NoWorker
  /\ pc = [w \in Workers |-> "idle"]
  /\ mode = [w \in Workers |-> "commit"]
  /\ call = [w \in Workers |-> NoCall]
  /\ todo = [w \in Workers |-> {}]
  /\ crashes = 0
  /\ applied = {}
  /\ lastWrite = [e \in Executions |-> 0]

Goto(w, stage) == pc' = [pc EXCEPT ![w] = stage]

\* The call ends here, by a return or an exception.
Return(w) ==
  /\ Goto(w, "idle")
  /\ call' = [call EXCEPT ![w] = NoCall]
  /\ todo' = [todo EXCEPT ![w] = {}]
  /\ UNCHANGED mode

\* reconcile() goes through its snapshot in journal order.  A snapshot is kept
\* as positions: records never move, and only their id and from_status are used.
TakeFirst(w, positions) ==
  \E i \in positions :
    /\ \A j \in positions : i <= j
    /\ call' = [call EXCEPT ![w] = journal[i]]
    /\ todo' = [todo EXCEPT ![w] = positions \ {i}]
    /\ Goto(w, "lock")

\* The call is done with its record: on to the next one, if any.
Advance(w) ==
  IF todo[w] = {} THEN Return(w) ELSE TakeFirst(w, todo[w]) /\ UNCHANGED mode

\* Bound: records the journal holds or calls under way may still add.
HasRoom ==
  Len(journal) + Cardinality({w \in Workers : pc[w] \in {"check", "append"}})
    < MaxJournal

----------------------------------------------------------------------------
(* commit(state, to_status) *)

\* The caller reads a copy of the state (store.get) and asks for a transition.
\* The copy can be out of date at every later step: commit() takes the journal
\* record's from_status and the id from it, but writes over what is current.
Begin(w, e, to) ==
  /\ pc[w] = "idle"
  /\ lock = NoWorker
  /\ Exists(e)
  /\ <<store[e].status, to>> \in Requests
  /\ HasRoom
  /\ LET id == [exec |-> e, attempt |-> store[e].attempt, to |-> to]
     IN  call' = [call EXCEPT ![w] =
           [id |-> id, from |-> store[e].status, status |-> "pending"]]
  /\ mode' = [mode EXCEPT ![w] = "commit"]
  /\ Goto(w, "check")
  /\ UNCHANGED <<durable, lease, token, lock, todo, crashes, history>>

\* Mutant: the state is written without a journaled intent.
FindExisting_NoJournal(w) ==
  /\ pc[w] = "check"
  /\ IF InJournal(call[w].id)
     THEN Return(w)
     ELSE Goto(w, "lock") /\ UNCHANGED <<mode, call, todo>>
  /\ UNCHANGED <<durable, lease, token, lock, crashes, history>>

\* An id the journal already holds, in whatever status, ends the call.
FindExisting(w) ==
  /\ pc[w] = "check"
  /\ IF InJournal(call[w].id)
     THEN Return(w)
     ELSE Goto(w, "append") /\ UNCHANGED <<mode, call, todo>>
  /\ UNCHANGED <<durable, lease, token, lock, crashes, history>>

\* _append_journal; nothing is re-checked since FindExisting.
AppendIntent(w) ==
  /\ pc[w] = "append"
  /\ journal' = Append(journal, call[w])
  /\ Goto(w, "lock")
  /\ UNCHANGED <<store, audit, lease, token, lock, mode, call, todo, crashes, history>>

\* Under the lock: no lease, or a transition the graph forbids (the exception
\* is not one commit() catches).  The intent stays pending in the journal.
RefuseCommit(w) ==
  /\ pc[w] = "lock" /\ mode[w] = "commit"
  /\ lock = NoWorker
  /\ \/ ~ LeaseValid(w, Exec(w))
     \/ ~ CanTransition(store[Exec(w)].status, Target(w))
  /\ Return(w)
  /\ UNCHANGED <<durable, lease, token, lock, crashes, history>>

\* Under the lock, the checks of compare_and_set: the version and the status
\* expected are the ones just read, so only fencing and the graph can refuse.
AdmitCommit(w) ==
  /\ pc[w] = "lock" /\ mode[w] = "commit"
  /\ lock = NoWorker
  /\ LeaseValid(w, Exec(w))
  /\ CanTransition(store[Exec(w)].status, Target(w))
  /\ lock' = w
  /\ Goto(w, "write")
  /\ UNCHANGED <<durable, lease, token, mode, call, todo, crashes, history>>

----------------------------------------------------------------------------
(* reconcile() *)

\* pending(): a snapshot of the pending records, taken under the journal lock
\* alone.  With nothing pending the call does nothing.
StartReconcile(w) ==
  /\ pc[w] = "idle"
  /\ TakeFirst(w, PendingPositions)
  /\ mode' = [mode EXCEPT ![w] = "reconcile"]
  /\ UNCHANGED <<durable, lease, token, lock, crashes, history>>

\* The lease is not this coordinator's, or the state has moved away from both
\* ends of the intent: the record is left pending.
SkipIntent(w) ==
  /\ pc[w] = "lock" /\ mode[w] = "reconcile"
  /\ lock = NoWorker
  /\ \/ ~ LeaseValid(w, Exec(w))
     \/ store[Exec(w)].status \notin {call[w].from, Target(w)}
  /\ Advance(w)
  /\ UNCHANGED <<durable, lease, token, lock, crashes, history>>

\* Mutant: a state that already is at the target is confirmed only when the
\* intent started there.
ConfirmIntent_FromOnly(w) ==
  /\ pc[w] = "lock" /\ mode[w] = "reconcile"
  /\ lock = NoWorker
  /\ LeaseValid(w, Exec(w))
  /\ store[Exec(w)].status = Target(w)
  /\ call[w].from = Target(w)
  /\ lock' = w
  /\ Goto(w, "audit")
  /\ UNCHANGED <<durable, lease, token, mode, call, todo, crashes, history>>

\* The state already is what the intent wanted: audit and mark only.
ConfirmIntent(w) ==
  /\ pc[w] = "lock" /\ mode[w] = "reconcile"
  /\ lock = NoWorker
  /\ LeaseValid(w, Exec(w))
  /\ store[Exec(w)].status = Target(w)
  /\ lock' = w
  /\ Goto(w, "audit")
  /\ UNCHANGED <<durable, lease, token, mode, call, todo, crashes, history>>

\* Mutant: reconcile() redoes an intent without consulting the graph.
RedoIntent_NoGraph(w) ==
  /\ pc[w] = "lock" /\ mode[w] = "reconcile"
  /\ lock = NoWorker
  /\ LeaseValid(w, Exec(w))
  /\ store[Exec(w)].status = call[w].from
  /\ call[w].from # Target(w)
  /\ lock' = w
  /\ Goto(w, "write")
  /\ UNCHANGED <<durable, lease, token, mode, call, todo, crashes, history>>

\* The state is where the intent started: apply it now.
RedoIntent(w) ==
  /\ pc[w] = "lock" /\ mode[w] = "reconcile"
  /\ lock = NoWorker
  /\ LeaseValid(w, Exec(w))
  /\ store[Exec(w)].status = call[w].from
  /\ call[w].from # Target(w)
  /\ CanTransition(call[w].from, Target(w))
  /\ lock' = w
  /\ Goto(w, "write")
  /\ UNCHANGED <<durable, lease, token, mode, call, todo, crashes, history>>

\* Same, but the graph forbids the intent: validate raises out of reconcile()
\* and the records behind this one are not looked at.
PoisonedIntent(w) ==
  /\ pc[w] = "lock" /\ mode[w] = "reconcile"
  /\ lock = NoWorker
  /\ LeaseValid(w, Exec(w))
  /\ store[Exec(w)].status = call[w].from
  /\ ~ CanTransition(call[w].from, Target(w))
  /\ Return(w)
  /\ UNCHANGED <<durable, lease, token, lock, crashes, history>>

----------------------------------------------------------------------------
(* Inside the lock, the same for both calls *)

\* Mutant: the lock is given up after the write, before the audit.
ApplyTransition_Unlocks(w) ==
  /\ pc[w] = "write"
  /\ WriteState(Exec(w), Target(w), store[Exec(w)].attempt)
  /\ applied' = applied \union {call[w].id}
  /\ lastWrite' = [lastWrite EXCEPT ![Exec(w)] = IF Leased THEN token[w] ELSE @]
  /\ Goto(w, "audit")
  /\ lock' = NoWorker
  /\ UNCHANGED <<journal, audit, lease, token, mode, call, todo, crashes>>

\* Mutant: the record is marked first, the audit event never follows.
ApplyTransition_MarkFirst(w) ==
  /\ pc[w] = "write"
  /\ WriteState(Exec(w), Target(w), store[Exec(w)].attempt)
  /\ applied' = applied \union {call[w].id}
  /\ lastWrite' = [lastWrite EXCEPT ![Exec(w)] = IF Leased THEN token[w] ELSE @]
  /\ Goto(w, "mark")
  /\ UNCHANGED <<journal, audit, lease, token, lock, mode, call, todo, crashes>>

\* The state file is replaced; the attempt number is the current one.
ApplyTransition(w) ==
  /\ pc[w] = "write"
  /\ WriteState(Exec(w), Target(w), store[Exec(w)].attempt)
  /\ applied' = applied \union {call[w].id}
  /\ lastWrite' = [lastWrite EXCEPT ![Exec(w)] = IF Leased THEN token[w] ELSE @]
  /\ Goto(w, "audit")
  /\ UNCHANGED <<journal, audit, lease, token, lock, mode, call, todo, crashes>>

\* ExecutionAuditLog.append keeps one event per event id.
AppendAudit(w) ==
  /\ pc[w] = "audit"
  /\ audit' = audit \union {call[w].id}
  /\ Goto(w, "mark")
  /\ UNCHANGED <<store, journal, lease, token, lock, mode, call, todo, crashes, history>>

\* Mutant: the record is marked with the name of the call.
MarkIntent_CallName(w) ==
  /\ pc[w] = "mark"
  /\ journal' = Marked(call[w].id, mode[w])
  /\ lock' = NoWorker
  /\ Advance(w)
  /\ UNCHANGED <<store, audit, lease, token, crashes, history>>

\* _mark, and then the store's lock is released.
MarkIntent(w) ==
  /\ pc[w] = "mark"
  /\ journal' = Marked(call[w].id,
                       IF mode[w] = "commit" THEN "applied" ELSE "reconciled")
  /\ lock' = NoWorker
  /\ Advance(w)
  /\ UNCHANGED <<store, audit, lease, token, crashes, history>>

----------------------------------------------------------------------------
(* Everyone else *)

\* Writers that use the store without the journal: the autonomous loop and its
\* checkpoints.  Into "running" and "retrying" the loop writes its own attempt
\* counter, which is the next attempt, this one, or an older one if it is stale.
LoopWrite(e, status, attempt) ==
  /\ lock = NoWorker
  /\ attempt \in IF status \in {"running", "retrying"}
                 THEN 1..(store[e].attempt + 1)
                 ELSE {store[e].attempt}
  /\ Transition(e, status, attempt)
  /\ UNCHANGED <<journal, audit, lease, token, local, crashes, history>>

LoopCreate(e) ==
  /\ lock = NoWorker
  /\ Create(e)
  /\ UNCHANGED <<journal, audit, lease, token, local, crashes, history>>

\* Mutant: the lease store keeps a lock file of its own.
LeaseTraffic_OwnLock(w, e) ==
  /\ Leased
  /\ \/ pc[w] = "idle" /\ Acquire(w, e)
     \/ Renew(w, e)
     \/ Release(w, e)
  /\ UNCHANGED <<durable, local, crashes, history>>

\* A coordinator object is made for one acquisition, so a worker acquires
\* between calls; heartbeats and releases come from other threads at any time.
LeaseTraffic(w, e) ==
  /\ Leased
  /\ lock = NoWorker
  /\ \/ pc[w] = "idle" /\ Acquire(w, e)
     \/ Renew(w, e)
     \/ Release(w, e)
  /\ UNCHANGED <<durable, local, crashes, history>>

TimePasses ==
  /\ Leased
  /\ Tick
  /\ UNCHANGED <<durable, local, crashes, history>>

\* Mutant: a lock file whose holder died stays locked.
Crash_KeepsLock(w) ==
  /\ pc[w] # "idle"
  /\ crashes < MaxCrashes
  /\ crashes' = crashes + 1
  /\ Forget(w)
  /\ Return(w)
  /\ UNCHANGED <<durable, lock, history>>

\* The process dies inside a call.  The kernel drops its file lock; the call,
\* its snapshot and the token are gone, the files stay as they are.
Crash(w) ==
  /\ pc[w] # "idle"
  /\ crashes < MaxCrashes
  /\ crashes' = crashes + 1
  /\ lock' = IF lock = w THEN NoWorker ELSE lock
  /\ Forget(w)
  /\ Return(w)
  /\ UNCHANGED <<durable, history>>

----------------------------------------------------------------------------
CommitStep(w) ==
  FindExisting(w) \/ AppendIntent(w) \/ RefuseCommit(w) \/ AdmitCommit(w)

ReconcileStep(w) ==
  SkipIntent(w) \/ ConfirmIntent(w) \/ RedoIntent(w) \/ PoisonedIntent(w)

LockedStep(w) == ApplyTransition(w) \/ AppendAudit(w) \/ MarkIntent(w)

Environment ==
  \/ \E e \in Executions : LoopCreate(e)
  \/ \E e \in Executions, status \in Statuses, attempt \in 0..MaxAttempt :
       LoopWrite(e, status, attempt)
  \/ \E w \in Workers, e \in Executions : LeaseTraffic(w, e)
  \/ TimePasses
  \/ \E w \in Workers : Crash(w)

Next ==
  \/ \E w \in Workers, e \in Executions, to \in Statuses : Begin(w, e, to)
  \/ \E w \in Workers : CommitStep(w)
  \/ \E w \in Workers : StartReconcile(w)
  \/ \E w \in Workers : ReconcileStep(w)
  \/ \E w \in Workers : LockedStep(w)
  \/ Environment

Spec == Init /\ [][Next]_vars

----------------------------------------------------------------------------
(* Safety *)

\* Fencing: from the lease check to the end of the critical section the worker
\* carries the execution's newest token, so rotation cannot slip in between the
\* check and the write, and at most one worker is in there.
CriticalSectionFenced ==
  \A w \in Workers : pc[w] \in Critical =>
    /\ lock = w
    /\ Leased => token[w] = lease[Exec(w)].token

\* Once a coordinator has written under some token, no coordinator writes that
\* execution under an older one.
WriteTokensNeverFallBack ==
  [][\A e \in Executions : lastWrite'[e] >= lastWrite[e]]_vars

\* README, reliability invariant 6: an audit event is only appended while the
\* execution durably is in the status the event reports.
AuditTellsTheTruth ==
  [][\A id \in audit' \ audit : store[id.exec].status = id.to]_vars

\* A record leaves "pending" only once its audit event is durable: a crash
\* between the two must repeat the audit, not lose it.
MarkedIsAudited ==
  \A i \in DOMAIN journal : journal[i].status # "pending" => journal[i].id \in audit

\* ARCHITECTURE, failure model: a state write that has no audit event yet still
\* has a pending journal record to recover from, wherever a crash fell.
AppliedIsRecoverable ==
  \A id \in applied \ audit : Pending(id)

\* No commit, reconcile pass or loop takes an execution out of "completed".
CompletedIsFinal ==
  [][\A e \in Executions :
       store[e].status = "completed" => store'[e].status = "completed"]_vars

----------------------------------------------------------------------------
(* Refinement *)

Lifecycle == INSTANCE ExecutionLifecycle WITH
  status  <- [e \in Executions |-> store[e].status],
  version <- [e \in Executions |-> store[e].version]

\* Commits, reconciliation, direct writers and crashes together change an
\* execution only by legal, consecutively numbered transitions, even when
\* callers of commit() ask for transitions the graph does not have.
ImplementsLifecycle == Lifecycle!Spec

\* The journal as module CommitJournal promises it to be: whatever calls, leases and
\* crashes do, it is used by appending intents and marking the first one with an id.
Log == INSTANCE CommitLog WITH
  Ids <- CommitId,
  log <- [i \in DOMAIN journal |-> [id |-> journal[i].id, status |-> journal[i].status]]

ImplementsLog == Log!Spec

----------------------------------------------------------------------------
(* Liveness *)

\* A call that has the lock finishes; one that waits for the lock gets it if it
\* is free again and again; and reconcile() is called again while something is
\* pending (bootstrap and recovery call it on every run).
Fairness ==
  \A w \in Workers :
    /\ SF_vars(CommitStep(w) \/ ReconcileStep(w) \/ LockedStep(w))
    /\ WF_vars(StartReconcile(w))

FairSpec == Spec /\ Fairness

\* Every call of commit() or reconcile() comes to its end: nobody is left waiting
\* for the store's lock, whoever crashed holding it.
EveryCallReturns ==
  \A w \in Workers : pc[w] # "idle" ~> pc[w] = "idle"

Completions == [exec : Executions, attempt : 0..MaxAttempt, to : {"completed"}]

\* At this position reconcile() raises (PoisonedIntent).
Poisoned(i) ==
  LET c == journal[i] IN
    /\ c.status = "pending" /\ c.from # c.id.to
    /\ store[c.id.exec].status = c.from
    /\ ~ CanTransition(c.from, c.id.to)

\* And does not get as far as a pending record of this commit.
Obstructed(id) ==
  \E i \in DOMAIN journal :
    /\ Poisoned(i)
    /\ \A j \in 1..i : journal[j].id = id => journal[j].status # "pending"

\* A commit that completed its execution and was cut off by a crash ends up in the
\* audit log, since reconcile() of a coordinator that is not fenced off still finds the
\* execution completed: unless, again and again, an intent before it that the graph
\* forbids, be it another execution's, raises out of reconcile().
CompletionIsAudited ==
  \A id \in Completions :
    <>[](~ Obstructed(id)) => (id \in applied ~> id \in audit)

=============================================================================
