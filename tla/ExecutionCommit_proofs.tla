----------------------- MODULE ExecutionCommit_proofs -----------------------
(***************************************************************************)
(* Proofs about the commit protocol: for any number of workers and         *)
(* executions, any owner assignment, with and without leases, and whatever *)
(* transitions callers ask for.                                            *)
(***************************************************************************)
EXTENDS ExecutionCommit, SequenceTheorems, TLAPS

----------------------------------------------------------------------------
(* The inductive invariant *)

\* A record that was never written reads as a pending one.
FreshIsPending ==
  \A e \in Executions : ~ Exists(e) => store[e].status = "pending"

\* A call under way has a record, about an execution that exists; a commit's
\* record is new until it is in the journal.
CallsHaveRecords ==
  \A w \in Workers : pc[w] # "idle" =>
    /\ call[w] \in CommitRecord
    /\ Exists(Exec(w))
    /\ pc[w] \in {"check", "append"} => call[w].status = "pending"

\* So does every journal record.
RecordsAreOfExecutions ==
  \A i \in DOMAIN journal : Exists(journal[i].id.exec)

\* From the lock on, a call's record is in the journal.
CallsAreJournaled ==
  \A w \in Workers : pc[w] \in {"lock"} \union Critical => InJournal(call[w].id)

\* What a worker inside the lock may rely on: nobody else writes the state.
WriterIsLegal ==
  \A w \in Workers : pc[w] = "write" =>
    CanTransition(store[Exec(w)].status, Target(w))

StateIsWritten ==
  \A w \in Workers : pc[w] \in {"audit", "mark"} =>
    store[Exec(w)].status = Target(w)

AuditIsWritten ==
  \A w \in Workers : pc[w] = "mark" => call[w].id \in audit

\* No coordinator has written under a token that was never issued.
WritesUseIssuedTokens ==
  \A e \in Executions : lastWrite[e] <= lease[e].token

IInv ==
  /\ TypeOK
  /\ FreshIsPending
  /\ CallsHaveRecords
  /\ RecordsAreOfExecutions
  /\ CallsAreJournaled
  /\ CriticalSectionFenced
  /\ WriterIsLegal
  /\ StateIsWritten
  /\ AuditIsWritten
  /\ WritesUseIssuedTokens
  /\ MarkedIsAudited
  /\ AppliedIsRecoverable

----------------------------------------------------------------------------
(* The journal only grows, and its records keep their identity *)

\* _mark keeps the length of the journal and all of every record except the
\* status of the first record with the id.
LEMMA MarkedJournal ==
  ASSUME journal \in Seq(CommitRecord), NEW id, NEW s \in JournalStatuses
  PROVE  /\ Marked(id, s) \in Seq(CommitRecord)
         /\ DOMAIN Marked(id, s) = DOMAIN journal
         /\ \A i \in DOMAIN journal :
              /\ Marked(id, s)[i].id = journal[i].id
              /\ Marked(id, s)[i].from = journal[i].from
              /\ Marked(id, s)[i].status \in {journal[i].status, s}
              /\ journal[i].id # id => Marked(id, s)[i] = journal[i]
<1>1. \A i \in DOMAIN journal : journal[i] \in CommitRecord
  OBVIOUS
<1>2. \A i \in DOMAIN journal : [journal[i] EXCEPT !.status = s] \in CommitRecord
  BY <1>1 DEF CommitRecord
<1>3. DOMAIN journal = 1..Len(journal) /\ Len(journal) \in Nat
  OBVIOUS
<1>4. Marked(id, s) \in [1..Len(journal) -> CommitRecord]
  BY <1>1, <1>2, <1>3 DEF Marked
<1>5. Marked(id, s) \in Seq(CommitRecord)
  BY <1>3, <1>4
<1>6. \A i \in DOMAIN journal :
        /\ [journal[i] EXCEPT !.status = s].id = journal[i].id
        /\ [journal[i] EXCEPT !.status = s].from = journal[i].from
        /\ [journal[i] EXCEPT !.status = s].status = s
  BY <1>1 DEF CommitRecord
<1> QED
  BY <1>5, <1>6 DEF Marked, IsFirst

\* Appending a record keeps the others where they are.
LEMMA AppendedJournal ==
  ASSUME journal \in Seq(CommitRecord), NEW r \in CommitRecord
  PROVE  /\ Append(journal, r) \in Seq(CommitRecord)
         /\ DOMAIN Append(journal, r) = DOMAIN journal \union {Len(journal) + 1}
         /\ \A i \in DOMAIN journal : Append(journal, r)[i] = journal[i]
         /\ Append(journal, r)[Len(journal) + 1] = r
  OBVIOUS

----------------------------------------------------------------------------
(* Types *)

\* TakeFirst and Advance: reconcile() takes its records from the journal.
LEMMA AdvanceTypes ==
  ASSUME TypeOK, NEW w \in Workers, Advance(w)
  PROVE  /\ pc' \in [Workers -> Stages]
         /\ mode' \in [Workers -> {"commit", "reconcile"}]
         /\ call' \in [Workers -> CommitRecord \union {NoCall}]
         /\ todo' \in [Workers -> SUBSET DOMAIN journal]
         /\ pc'[w] \in {"idle", "lock"}
         /\ pc'[w] # "idle" => \E i \in DOMAIN journal : call'[w] = journal[i]
         /\ \A v \in Workers \ {w} : pc'[v] = pc[v] /\ call'[v] = call[v]
         /\ mode' = mode
<1>1. CASE todo[w] = {}
  <2>1. /\ pc' = [pc EXCEPT ![w] = "idle"] /\ call' = [call EXCEPT ![w] = NoCall]
        /\ todo' = [todo EXCEPT ![w] = {}] /\ mode' = mode
    BY <1>1 DEF Advance, Return, Goto
  <2>2. /\ pc \in [Workers -> Stages] /\ call \in [Workers -> CommitRecord \union {NoCall}]
        /\ todo \in [Workers -> SUBSET DOMAIN journal]
        /\ mode \in [Workers -> {"commit", "reconcile"}]
        /\ "idle" \in Stages
    BY DEF TypeOK, Stages
  <2> QED
    BY <2>1, <2>2
<1>2. CASE todo[w] # {}
  <2>1. PICK i \in todo[w] :
          /\ call' = [call EXCEPT ![w] = journal[i]]
          /\ todo' = [todo EXCEPT ![w] = todo[w] \ {i}]
          /\ pc' = [pc EXCEPT ![w] = "lock"]
    BY <1>2 DEF Advance, TakeFirst, Goto
  <2>2. i \in DOMAIN journal /\ journal[i] \in CommitRecord
    BY DEF TypeOK
  <2> QED
    BY <1>2, <2>1, <2>2 DEF Advance, TypeOK, Stages
<1> QED
  BY <1>1, <1>2

\* The initial state is well typed.
LEMMA TypeInit == Init => TypeOK
  BY CommitAssumption DEF Init, TypeOK, StoreInit, LeaseInit, StoreTypeOK, LeaseTypeOK,
     ExecutionState, Lease, Statuses, Stages

\* Every action keeps the types, of calls that have a record.
LEMMA TypeStep ==
  ASSUME TypeOK, CallsHaveRecords, [Next]_vars
  PROVE  TypeOK'
<1> USE CommitAssumption
<1>1. ASSUME NEW w \in Workers, NEW e \in Executions, NEW to \in Statuses, Begin(w, e, to)
      PROVE  TypeOK'
  <2>1. [id |-> [exec |-> e, attempt |-> store[e].attempt, to |-> to],
         from |-> store[e].status, status |-> "pending"] \in CommitRecord
    BY DEF TypeOK, StoreTypeOK, ExecutionState, CommitRecord, CommitId, JournalStatuses
  <2> QED
    BY <1>1, <2>1 DEF Begin, TypeOK, Goto, Stages, durable, history, LeaseTypeOK, StoreTypeOK
<1>2. ASSUME NEW w \in Workers, FindExisting(w)
      PROVE  TypeOK'
  BY <1>2 DEF FindExisting, TypeOK, Return, Goto, Stages, durable, history, LeaseTypeOK, StoreTypeOK
<1>3. ASSUME NEW w \in Workers, AppendIntent(w)
      PROVE  TypeOK'
  <2>1. call[w] \in CommitRecord
    BY <1>3 DEF AppendIntent, CallsHaveRecords
  <2>2. journal' \in Seq(CommitRecord) /\ DOMAIN journal \subseteq DOMAIN journal'
    BY <1>3, <2>1, AppendedJournal DEF AppendIntent, TypeOK
  <2> QED
    BY <1>3, <2>2 DEF AppendIntent, TypeOK, Goto, Stages, history, LeaseTypeOK, StoreTypeOK
<1>4. ASSUME NEW w \in Workers, RefuseCommit(w)
      PROVE  TypeOK'
  BY <1>4 DEF RefuseCommit, TypeOK, Return, Goto, Stages, durable, history, LeaseTypeOK, StoreTypeOK
<1>5. ASSUME NEW w \in Workers, AdmitCommit(w)
      PROVE  TypeOK'
  BY <1>5 DEF AdmitCommit, TypeOK, Goto, Stages, durable, history, LeaseTypeOK, StoreTypeOK
<1>6. ASSUME NEW w \in Workers, StartReconcile(w)
      PROVE  TypeOK'
  <2>1. PICK i \in PendingPositions :
          /\ call' = [call EXCEPT ![w] = journal[i]]
          /\ todo' = [todo EXCEPT ![w] = PendingPositions \ {i}]
          /\ pc' = [pc EXCEPT ![w] = "lock"]
    BY <1>6 DEF StartReconcile, TakeFirst, Goto
  <2>2. i \in DOMAIN journal /\ journal[i] \in CommitRecord
    BY DEF TypeOK, PendingPositions
  <2> QED
    BY <1>6, <2>1, <2>2 DEF StartReconcile, PendingPositions, TypeOK, Stages, durable, history,
       LeaseTypeOK, StoreTypeOK
<1>7. ASSUME NEW w \in Workers, SkipIntent(w)
      PROVE  TypeOK'
  BY <1>7, AdvanceTypes DEF SkipIntent, TypeOK, durable, history, LeaseTypeOK, StoreTypeOK
<1>8. ASSUME NEW w \in Workers, ConfirmIntent(w)
      PROVE  TypeOK'
  BY <1>8 DEF ConfirmIntent, TypeOK, Goto, Stages, durable, history, LeaseTypeOK, StoreTypeOK
<1>9. ASSUME NEW w \in Workers, RedoIntent(w)
      PROVE  TypeOK'
  BY <1>9 DEF RedoIntent, TypeOK, Goto, Stages, durable, history, LeaseTypeOK, StoreTypeOK
<1>10. ASSUME NEW w \in Workers, PoisonedIntent(w)
      PROVE  TypeOK'
  BY <1>10 DEF PoisonedIntent, TypeOK, Return, Goto, Stages, durable, history, LeaseTypeOK, StoreTypeOK
<1>11. ASSUME NEW w \in Workers, ApplyTransition(w)
      PROVE  TypeOK'
  <2>1. call[w].id \in CommitId /\ Exec(w) \in Executions /\ Target(w) \in Statuses
    BY <1>11 DEF ApplyTransition, CallsHaveRecords, CommitRecord, CommitId, Exec, Target
  <2>2. StoreTypeOK'
    BY <1>11, <2>1 DEF ApplyTransition, WriteState, TypeOK, StoreTypeOK, ExecutionState
  <2>3. lastWrite' \in [Executions -> Nat]
    BY <1>11, <2>1 DEF ApplyTransition, TypeOK, LeaseTypeOK
  <2> QED
    BY <1>11, <2>1, <2>2, <2>3 DEF ApplyTransition, TypeOK, Goto, Stages, LeaseTypeOK
<1>12. ASSUME NEW w \in Workers, AppendAudit(w)
      PROVE  TypeOK'
  <2>1. call[w].id \in CommitId
    BY <1>12 DEF AppendAudit, CallsHaveRecords, CommitRecord
  <2> QED
    BY <1>12, <2>1 DEF AppendAudit, TypeOK, Goto, Stages, history, LeaseTypeOK, StoreTypeOK
<1>13. ASSUME NEW w \in Workers, MarkIntent(w)
      PROVE  TypeOK'
  <2>1. journal' \in Seq(CommitRecord) /\ DOMAIN journal' = DOMAIN journal
    BY <1>13, MarkedJournal DEF MarkIntent, TypeOK, JournalStatuses
  <2> QED
    BY <1>13, <2>1, AdvanceTypes DEF MarkIntent, TypeOK, history, LeaseTypeOK, StoreTypeOK
<1>14. ASSUME NEW e \in Executions, LoopCreate(e)
      PROVE  TypeOK'
  <2>1. StoreTypeOK'
    BY <1>14 DEF LoopCreate, Create, WriteState, TypeOK, StoreTypeOK, ExecutionState, Statuses
  <2> QED
    BY <1>14, <2>1 DEF LoopCreate, TypeOK, local, history, LeaseTypeOK
<1>15. ASSUME NEW e \in Executions, NEW status \in Statuses, NEW attempt \in 0..MaxAttempt,
              LoopWrite(e, status, attempt)
      PROVE  TypeOK'
  <2>1. StoreTypeOK'
    BY <1>15, StoreAssumption DEF LoopWrite, Transition, WriteState, TypeOK, StoreTypeOK, ExecutionState
  <2> QED
    BY <1>15, <2>1 DEF LoopWrite, TypeOK, local, history, LeaseTypeOK
<1>16. ASSUME NEW w \in Workers, NEW e \in Executions, LeaseTraffic(w, e)
      PROVE  TypeOK'
  <2>1. LeaseTypeOK'
    <3> lease[e] \in Lease /\ Ttl \in 0..Ttl /\ 0 \in 0..Ttl
      BY DEF TypeOK, LeaseTypeOK
    <3>1. CASE Acquire(w, e)
      BY <3>1 DEF Acquire, TypeOK, LeaseTypeOK, Lease
    <3>2. CASE Renew(w, e)
      <4>1. lease' = [lease EXCEPT ![e] = [lease[e] EXCEPT !.ttl = Ttl]]
        BY <3>2 DEF Renew
      <4>2. [lease[e] EXCEPT !.ttl = Ttl] \in Lease
        BY DEF Lease
      <4> QED
        BY <3>2, <4>1, <4>2 DEF Renew, TypeOK, LeaseTypeOK
    <3>3. CASE Release(w, e)
      <4>1. lease' = [lease EXCEPT ![e] = [lease[e] EXCEPT !.owner = NoOwner, !.ttl = 0]]
        BY <3>3 DEF Release
      <4>2. [lease[e] EXCEPT !.owner = NoOwner, !.ttl = 0] \in Lease
        BY DEF Lease
      <4> QED
        BY <3>3, <4>1, <4>2 DEF Release, TypeOK, LeaseTypeOK
    <3> QED
      BY <1>16, <3>1, <3>2, <3>3 DEF LeaseTraffic
  <2> QED
    BY <1>16, <2>1 DEF LeaseTraffic, TypeOK, durable, local, history, StoreTypeOK
<1>17. ASSUME TimePasses
      PROVE  TypeOK'
  <2>1. ASSUME NEW e \in Executions
        PROVE  [lease[e] EXCEPT !.ttl = IF @ > 0 THEN @ - 1 ELSE 0] \in Lease
    <3>1. lease[e] \in Lease /\ lease[e].ttl \in 0..Ttl
      BY DEF TypeOK, LeaseTypeOK, Lease
    <3>2. (IF lease[e].ttl > 0 THEN lease[e].ttl - 1 ELSE 0) \in 0..Ttl
      BY <3>1
    <3> QED
      BY <3>1, <3>2 DEF Lease
  <2>2. LeaseTypeOK'
    BY <1>17, <2>1 DEF TimePasses, Tick, TypeOK, LeaseTypeOK
  <2> QED
    BY <1>17, <2>2 DEF TimePasses, TypeOK, durable, local, history, StoreTypeOK
<1>18. ASSUME NEW w \in Workers, Crash(w)
      PROVE  TypeOK'
  BY <1>18 DEF Crash, Forget, Return, Goto, TypeOK, LeaseTypeOK, StoreTypeOK, Stages, durable, history
<1>19. CASE UNCHANGED vars
  BY <1>19 DEF vars, TypeOK, StoreTypeOK, LeaseTypeOK
<1> QED
  BY <1>1, <1>2, <1>3, <1>4, <1>5, <1>6, <1>7, <1>8, <1>9, <1>10, <1>11, <1>12, <1>13,
     <1>14, <1>15, <1>16, <1>17, <1>18, <1>19
  DEF Next, CommitStep, ReconcileStep, LockedStep, Environment

----------------------------------------------------------------------------
(* The invariant is inductive *)

\* What has to hold of a step in which worker w only moves on, or dies: files
\* and other workers are untouched, and w meets what its new stage relies on.
LEMMA WorkerMoves ==
  ASSUME IInv, TypeOK', NEW w \in Workers,
         UNCHANGED <<durable, lease, history>>,
         \A v \in Workers \ {w} :
           /\ pc'[v] = pc[v] /\ call'[v] = call[v] /\ token'[v] = token[v]
           /\ pc[v] \in Critical => lock' = lock,
         pc'[w] # "idle" =>
           /\ call'[w] \in CommitRecord
           /\ Exists(call'[w].id.exec)
           /\ pc'[w] \in {"check", "append"} => call'[w].status = "pending",
         pc'[w] \in {"lock"} \union Critical => InJournal(call'[w].id),
         pc'[w] \in Critical =>
           /\ lock' = w
           /\ Leased => token'[w] = lease[call'[w].id.exec].token,
         pc'[w] = "write" => CanTransition(store[call'[w].id.exec].status, call'[w].id.to),
         pc'[w] \in {"audit", "mark"} => store[call'[w].id.exec].status = call'[w].id.to,
         pc'[w] = "mark" => call'[w].id \in audit
  PROVE  IInv'
<1>0. /\ store' = store /\ journal' = journal /\ audit' = audit /\ lease' = lease
      /\ applied' = applied /\ lastWrite' = lastWrite
  BY DEF durable, history
<1>1. CallsHaveRecords'
  BY <1>0 DEF IInv, CallsHaveRecords, Exists, Exec
<1>2. RecordsAreOfExecutions'
  BY <1>0 DEF IInv, RecordsAreOfExecutions, Exists
<1>3. CallsAreJournaled'
  BY <1>0 DEF IInv, CallsAreJournaled, InJournal
<1>4. CriticalSectionFenced'
  BY <1>0 DEF IInv, CriticalSectionFenced, Exec
<1>5. WriterIsLegal'
  BY <1>0 DEF IInv, WriterIsLegal, Exec, Target
<1>6. StateIsWritten'
  BY <1>0 DEF IInv, StateIsWritten, Exec, Target
<1>7. AuditIsWritten'
  BY <1>0 DEF IInv, AuditIsWritten
<1>8. WritesUseIssuedTokens' /\ MarkedIsAudited' /\ AppliedIsRecoverable'
  BY <1>0 DEF IInv, WritesUseIssuedTokens, MarkedIsAudited, AppliedIsRecoverable, Pending
<1>9. FreshIsPending'
  BY <1>0 DEF IInv, FreshIsPending, Exists
<1> QED
  BY <1>1, <1>2, <1>3, <1>4, <1>5, <1>6, <1>7, <1>8, <1>9 DEF IInv

\* The lock excludes: while a worker is at one of the locked stages no other is,
\* and while the lock is free nobody is.
LEMMA Exclusion ==
  ASSUME IInv
  PROVE  /\ \A v, w \in Workers : pc[v] \in Critical /\ pc[w] \in Critical => v = w
         /\ lock = NoWorker => \A w \in Workers : pc[w] \notin Critical
BY CommitAssumption DEF IInv, CriticalSectionFenced

\* The inductive invariant holds initially: no file, no call, no token.
LEMMA InvInit == Init => IInv
<1> SUFFICES ASSUME Init PROVE IInv
  OBVIOUS
<1>1. \A w \in Workers : pc[w] = "idle"
  BY DEF Init
<1>2. TypeOK
  BY TypeInit
<1>3. journal = <<>> /\ applied = {} /\ DOMAIN journal = {}
  BY DEF Init
<1>4. WritesUseIssuedTokens
  BY DEF Init, LeaseInit, WritesUseIssuedTokens
<1>5. FreshIsPending
  BY DEF Init, StoreInit, FreshIsPending
<1> QED
  BY <1>1, <1>2, <1>3, <1>4, <1>5 DEF IInv, CallsHaveRecords, RecordsAreOfExecutions, CallsAreJournaled,
     CriticalSectionFenced, WriterIsLegal, StateIsWritten, AuditIsWritten, MarkedIsAudited,
     AppliedIsRecoverable, Critical

\* The calls' own steps outside the lock: each is an instance of WorkerMoves.
LEMMA InvCallSteps ==
  ASSUME IInv, TypeOK', NEW w \in Workers,
         \/ \E e \in Executions, to \in Statuses : Begin(w, e, to)
         \/ FindExisting(w) \/ RefuseCommit(w) \/ AdmitCommit(w)
         \/ StartReconcile(w)
         \/ SkipIntent(w) \/ ConfirmIntent(w) \/ RedoIntent(w) \/ PoisonedIntent(w)
         \/ Crash(w)
  PROVE  IInv'
<1> USE DEF Critical
<1>0. TypeOK
  BY DEF IInv
<1>1. ASSUME NEW e \in Executions, NEW to \in Statuses, Begin(w, e, to)
      PROVE  IInv'
  <2> DEFINE r == [id |-> [exec |-> e, attempt |-> store[e].attempt, to |-> to],
                   from |-> store[e].status, status |-> "pending"]
  <2>1. r \in CommitRecord
    BY <1>0 DEF TypeOK, StoreTypeOK, ExecutionState, CommitRecord, CommitId, JournalStatuses
  <2>2. pc'[w] = "check" /\ call'[w] = r /\ r.id.exec = e /\ r.status = "pending" /\ Exists(e)
    BY <1>0, <1>1 DEF Begin, Goto, TypeOK
  <2>3. \A v \in Workers \ {w} : pc'[v] = pc[v] /\ call'[v] = call[v] /\ token'[v] = token[v]
    BY <1>0, <1>1 DEF Begin, Goto, TypeOK
  <2>4. lock' = lock /\ UNCHANGED <<durable, lease, history>>
    BY <1>1 DEF Begin
  <2> HIDE DEF r
  <2> QED
    BY <2>1, <2>2, <2>3, <2>4, WorkerMoves
<1>2. CASE FindExisting(w) \/ RefuseCommit(w) \/ PoisonedIntent(w)
  <2>1. /\ pc'[w] \in {"idle", "append"}
        /\ pc'[w] = "append" => pc[w] = "check" /\ call'[w] = call[w]
        /\ \A v \in Workers \ {w} : pc'[v] = pc[v] /\ call'[v] = call[v] /\ token'[v] = token[v]
        /\ lock' = lock /\ UNCHANGED <<durable, lease, history>>
    BY <1>0, <1>2 DEF FindExisting, RefuseCommit, PoisonedIntent, Return, Goto, TypeOK
  <2>2. pc'[w] = "append" => /\ call'[w] \in CommitRecord /\ Exists(call'[w].id.exec)
                             /\ call'[w].status = "pending"
    BY <2>1 DEF IInv, CallsHaveRecords, Exec
  <2> QED
    BY <2>1, <2>2, WorkerMoves
<1>3. CASE AdmitCommit(w) \/ ConfirmIntent(w) \/ RedoIntent(w)
  <2>1. /\ pc'[w] \in {"write", "audit"} /\ pc[w] = "lock" /\ call' = call
        /\ \A v \in Workers \ {w} : pc'[v] = pc[v] /\ token'[v] = token[v]
        /\ lock = NoWorker /\ lock' = w /\ token' = token
        /\ UNCHANGED <<durable, lease, history>>
        /\ LeaseValid(w, Exec(w))
        /\ pc'[w] = "write" => CanTransition(store[Exec(w)].status, Target(w))
        /\ pc'[w] = "audit" => store[Exec(w)].status = Target(w)
    BY <1>0, <1>3 DEF AdmitCommit, ConfirmIntent, RedoIntent, Goto, TypeOK
  <2>2. call[w] \in CommitRecord /\ Exists(Exec(w)) /\ InJournal(call[w].id)
    BY <2>1 DEF IInv, CallsHaveRecords, CallsAreJournaled
  <2>3. Leased => token[w] = lease[Exec(w)].token
    BY <2>1 DEF LeaseValid, IsOwner
  <2>4. \A v \in Workers : pc[v] \notin Critical
    BY <2>1, Exclusion
  <2> QED
    BY <2>1, <2>2, <2>3, <2>4, WorkerMoves DEF Exec, Target
<1>4. CASE StartReconcile(w) \/ SkipIntent(w)
  <2>1. /\ pc'[w] \in {"idle", "lock"}
        /\ pc'[w] # "idle" => \E i \in DOMAIN journal : call'[w] = journal[i]
        /\ \A v \in Workers \ {w} : pc'[v] = pc[v] /\ call'[v] = call[v]
    <3>1. CASE SkipIntent(w)
      BY <1>0, <3>1, AdvanceTypes DEF SkipIntent
    <3>2. CASE StartReconcile(w)
      BY <1>0, <3>2 DEF StartReconcile, TakeFirst, PendingPositions, Goto, TypeOK
    <3> QED
      BY <1>4, <3>1, <3>2
  <2>2. lock' = lock /\ token' = token /\ UNCHANGED <<durable, lease, history>>
    BY <1>4 DEF StartReconcile, SkipIntent
  <2>3. pc'[w] # "idle" => /\ call'[w] \in CommitRecord
                           /\ Exists(call'[w].id.exec)
                           /\ InJournal(call'[w].id)
    BY <1>0, <2>1 DEF TypeOK, IInv, RecordsAreOfExecutions, InJournal
  <2> QED
    BY <2>1, <2>2, <2>3, WorkerMoves
<1>5. CASE Crash(w)
  <2>1. /\ pc'[w] = "idle"
        /\ \A v \in Workers \ {w} : pc'[v] = pc[v] /\ call'[v] = call[v] /\ token'[v] = token[v]
        /\ lock = w \/ lock' = lock
        /\ UNCHANGED <<durable, lease, history>>
    BY <1>0, <1>5 DEF Crash, Forget, Return, Goto, TypeOK, LeaseTypeOK
  <2>2. \A v \in Workers \ {w} : pc[v] \in Critical => lock' = lock
    BY <2>1 DEF IInv, CriticalSectionFenced
  <2> QED
    BY <2>1, <2>2, WorkerMoves
<1> QED
  BY <1>1, <1>2, <1>3, <1>4, <1>5

\* The journal grows by a pending record, and the call goes to the lock.
LEMMA InvAppendIntent ==
  ASSUME IInv, TypeOK', NEW w \in Workers, AppendIntent(w)
  PROVE  IInv'
<1> USE DEF Critical
<1>1. TypeOK /\ call[w] \in CommitRecord /\ Exists(Exec(w)) /\ call[w].status = "pending"
  BY DEF IInv, AppendIntent, CallsHaveRecords
<1>2. /\ DOMAIN journal' = DOMAIN journal \union {Len(journal) + 1}
      /\ \A i \in DOMAIN journal : journal'[i] = journal[i]
      /\ journal'[Len(journal) + 1] = call[w]
  BY <1>1, AppendedJournal DEF AppendIntent, TypeOK
<1>3. /\ pc'[w] = "lock" /\ \A v \in Workers \ {w} : pc'[v] = pc[v]
      /\ UNCHANGED <<store, audit, lease, token, lock, call, history>>
  BY <1>1 DEF AppendIntent, Goto, TypeOK
<1>4. CallsHaveRecords'
  BY <1>1, <1>3 DEF IInv, CallsHaveRecords, Exists, Exec
<1>5. RecordsAreOfExecutions'
  BY <1>1, <1>2, <1>3 DEF IInv, RecordsAreOfExecutions, Exists, Exec
<1>6. CallsAreJournaled'
  BY <1>2, <1>3 DEF IInv, CallsAreJournaled, InJournal
<1>7. CriticalSectionFenced' /\ WriterIsLegal' /\ StateIsWritten' /\ AuditIsWritten'
  BY <1>3 DEF IInv, CriticalSectionFenced, WriterIsLegal, StateIsWritten, AuditIsWritten, Exec, Target
<1>8. WritesUseIssuedTokens'
  BY <1>3 DEF IInv, WritesUseIssuedTokens, history
<1>9. MarkedIsAudited'
  BY <1>1, <1>2, <1>3 DEF IInv, MarkedIsAudited
<1>10. AppliedIsRecoverable'
  BY <1>2, <1>3 DEF IInv, AppliedIsRecoverable, Pending, history
<1>11. FreshIsPending'
  BY <1>3 DEF IInv, FreshIsPending, Exists
<1> QED
  BY <1>4, <1>5, <1>6, <1>7, <1>8, <1>9, <1>10, <1>11 DEF IInv

\* The write: the record's transition is in force, and still in the journal.
LEMMA InvApplyTransition ==
  ASSUME IInv, TypeOK', NEW w \in Workers, ApplyTransition(w)
  PROVE  IInv'
<1> USE DEF Critical
<1>1. /\ TypeOK /\ call[w] \in CommitRecord /\ Exists(Exec(w)) /\ InJournal(call[w].id)
      /\ lock = w /\ (Leased => token[w] = lease[Exec(w)].token)
  BY DEF IInv, ApplyTransition, CallsHaveRecords, CallsAreJournaled, CriticalSectionFenced
<1>2. call[w].id \in CommitId /\ Exec(w) \in Executions
  BY <1>1 DEF CommitRecord, CommitId, Exec
<1>3. \A v \in Workers \ {w} : pc[v] \notin Critical
  BY Exclusion DEF ApplyTransition
<1>4. /\ pc'[w] = "audit" /\ \A v \in Workers \ {w} : pc'[v] = pc[v]
      /\ UNCHANGED <<journal, audit, lease, token, lock, call>>
  BY <1>1 DEF ApplyTransition, Goto, TypeOK
<1>5. store'[Exec(w)].status = Target(w)
  BY <1>1, <1>2 DEF ApplyTransition, WriteState, TypeOK, StoreTypeOK
<1>6. \A e \in Executions : Exists(e) => Exists(e)'
  BY <1>1, <1>2 DEF ApplyTransition, WriteState, Exists, TypeOK, StoreTypeOK, ExecutionState
<1>7. CallsHaveRecords'
  <2> SUFFICES ASSUME NEW v \in Workers, pc'[v] # "idle"
               PROVE  /\ call[v] \in CommitRecord /\ Exists(Exec(v))'
                      /\ pc'[v] \in {"check", "append"} => call[v].status = "pending"
    BY <1>4 DEF CallsHaveRecords, Exec
  <2>1. call[v] \in CommitRecord /\ Exists(Exec(v)) /\ Exec(v) \in Executions
    <3>1. pc[v] # "idle"
      BY <1>4 DEF ApplyTransition
    <3> QED
      BY <3>1 DEF IInv, CallsHaveRecords, CommitRecord, CommitId, Exec
  <2>2. Exec(v)' = Exec(v)
    BY <1>4 DEF Exec
  <2>3. pc'[v] \in {"check", "append"} => call[v].status = "pending"
    BY <1>4 DEF IInv, CallsHaveRecords
  <2> QED
    BY <1>6, <2>1, <2>2, <2>3 DEF Exists
<1>8. RecordsAreOfExecutions'
  <2>1. \A i \in DOMAIN journal : journal[i].id.exec \in Executions
    <3>1. \A i \in DOMAIN journal : journal[i] \in CommitRecord
      BY <1>1 DEF TypeOK
    <3> QED
      BY <3>1 DEF CommitRecord, CommitId
  <2> QED
    BY <1>4, <1>6, <2>1 DEF IInv, RecordsAreOfExecutions, Exists
<1>9. CallsAreJournaled'
  BY <1>1, <1>4 DEF IInv, CallsAreJournaled, InJournal
<1>10. CriticalSectionFenced'
  BY <1>1, <1>3, <1>4 DEF CriticalSectionFenced, Exec
<1>11. WriterIsLegal' /\ StateIsWritten' /\ AuditIsWritten'
  BY <1>3, <1>4, <1>5 DEF WriterIsLegal, StateIsWritten, AuditIsWritten, Exec, Target
<1>12. WritesUseIssuedTokens'
  <2>1. \A e \in Executions : lastWrite'[e] \in {lastWrite[e], lease[e].token}
    <3>1. CASE Leased
      BY <1>1, <1>2, <3>1 DEF ApplyTransition, TypeOK
    <3>2. CASE ~ Leased
      BY <1>1, <1>2, <3>2 DEF ApplyTransition, TypeOK
    <3> QED
      BY <3>1, <3>2
  <2>2. \A e \in Executions : lease[e].token \in Nat
    <3>1. lease \in [Executions -> Lease]
      BY <1>1 DEF TypeOK, LeaseTypeOK
    <3> QED
      BY <3>1 DEF Lease
  <2> QED
    BY <1>4, <2>1, <2>2 DEF IInv, WritesUseIssuedTokens
<1>13. MarkedIsAudited'
  BY <1>4 DEF IInv, MarkedIsAudited
<1>14. AppliedIsRecoverable'
  <2>1. call[w].id \in audit \/ Pending(call[w].id)
    BY <1>1 DEF IInv, MarkedIsAudited, InJournal, Pending
  <2>2. applied' = applied \union {call[w].id}
    BY DEF ApplyTransition
  <2> QED
    BY <1>4, <2>1, <2>2 DEF IInv, AppliedIsRecoverable, Pending
<1>15. FreshIsPending'
  BY <1>1, <1>2, <1>6 DEF ApplyTransition, WriteState, IInv, FreshIsPending, Exists, TypeOK, StoreTypeOK
<1> QED
  BY <1>7, <1>8, <1>9, <1>10, <1>11, <1>12, <1>13, <1>14, <1>15 DEF IInv

\* The audit event becomes durable.
LEMMA InvAppendAudit ==
  ASSUME IInv, TypeOK', NEW w \in Workers, AppendAudit(w)
  PROVE  IInv'
<1> USE DEF Critical
<1>1. /\ pc[w] = "audit" /\ pc'[w] = "mark" /\ \A v \in Workers \ {w} : pc'[v] = pc[v]
      /\ audit' = audit \union {call[w].id}
      /\ UNCHANGED <<store, journal, lease, token, lock, call, history>>
  BY DEF AppendAudit, Goto, IInv, TypeOK
<1>2. CallsHaveRecords' /\ RecordsAreOfExecutions'
  BY <1>1 DEF IInv, CallsHaveRecords, RecordsAreOfExecutions, Exists, Exec
<1>3. CallsAreJournaled'
  BY <1>1 DEF IInv, CallsAreJournaled, InJournal
<1>4. CriticalSectionFenced' /\ WriterIsLegal' /\ StateIsWritten' /\ AuditIsWritten'
  BY <1>1 DEF IInv, CriticalSectionFenced, WriterIsLegal, StateIsWritten, AuditIsWritten, Exec, Target
<1>5. WritesUseIssuedTokens' /\ MarkedIsAudited' /\ AppliedIsRecoverable'
  BY <1>1 DEF IInv, WritesUseIssuedTokens, MarkedIsAudited, AppliedIsRecoverable, Pending, history
<1>6. FreshIsPending'
  BY <1>1 DEF IInv, FreshIsPending, Exists
<1> QED
  BY <1>2, <1>3, <1>4, <1>5, <1>6 DEF IInv

\* The record is marked, and the lock released: only then is the intent settled.
LEMMA InvMarkIntent ==
  ASSUME IInv, TypeOK', NEW w \in Workers, MarkIntent(w)
  PROVE  IInv'
<1> USE DEF Critical
<1>1. TypeOK /\ call[w].id \in audit
  BY DEF IInv, MarkIntent, AuditIsWritten
<1>2. PICK s \in {"applied", "reconciled"} : journal' = Marked(call[w].id, s)
  BY DEF MarkIntent
<1>3. /\ DOMAIN journal' = DOMAIN journal
      /\ \A i \in DOMAIN journal :
           /\ journal'[i].id = journal[i].id
           /\ journal'[i].status \in {journal[i].status, s}
           /\ journal[i].id # call[w].id => journal'[i] = journal[i]
  BY <1>1, <1>2, MarkedJournal DEF TypeOK, JournalStatuses
<1>4. /\ pc'[w] \in {"idle", "lock"}
      /\ pc'[w] # "idle" => \E i \in DOMAIN journal : call'[w] = journal[i]
      /\ \A v \in Workers \ {w} : pc'[v] = pc[v] /\ call'[v] = call[v]
  BY <1>1, AdvanceTypes DEF MarkIntent
<1>5. UNCHANGED <<store, audit, lease, token, history>>
  BY DEF MarkIntent
<1>6. \A v \in Workers \ {w} : pc[v] \notin Critical
  BY Exclusion DEF MarkIntent
<1>7. CallsHaveRecords'
  BY <1>1, <1>4, <1>5 DEF IInv, CallsHaveRecords, RecordsAreOfExecutions, TypeOK, Exists, Exec
<1>8. RecordsAreOfExecutions'
  BY <1>3, <1>5 DEF IInv, RecordsAreOfExecutions, Exists
<1>9. CallsAreJournaled'
  BY <1>3, <1>4 DEF IInv, CallsAreJournaled, InJournal
<1>10. CriticalSectionFenced' /\ WriterIsLegal' /\ StateIsWritten' /\ AuditIsWritten'
  BY <1>4, <1>6 DEF CriticalSectionFenced, WriterIsLegal, StateIsWritten, AuditIsWritten
<1>11. WritesUseIssuedTokens'
  BY <1>5 DEF IInv, WritesUseIssuedTokens, history
<1>12. MarkedIsAudited'
  BY <1>1, <1>3, <1>5 DEF IInv, MarkedIsAudited
<1>13. AppliedIsRecoverable'
  BY <1>1, <1>3, <1>5 DEF IInv, AppliedIsRecoverable, Pending, history
<1>14. FreshIsPending'
  BY <1>5 DEF IInv, FreshIsPending, Exists
<1> QED
  BY <1>7, <1>8, <1>9, <1>10, <1>11, <1>12, <1>13, <1>14 DEF IInv

\* Writers that bypass the journal need the lock too, so no call is inside it.
LEMMA InvLoopWrites ==
  ASSUME IInv, TypeOK', NEW e \in Executions,
         \/ LoopCreate(e)
         \/ \E status \in Statuses, attempt \in 0..MaxAttempt : LoopWrite(e, status, attempt)
  PROVE  IInv'
<1>1. TypeOK /\ \A w \in Workers : pc[w] \notin Critical
  <2>1. lock = NoWorker
    BY DEF LoopCreate, LoopWrite
  <2> QED
    BY <2>1, Exclusion DEF IInv
<1>2. UNCHANGED <<journal, audit, lease, token, pc, call, history>>
  BY DEF LoopCreate, LoopWrite, local
<1>3. PICK status \in Statuses, attempt \in Nat : WriteState(e, status, attempt)
  <2>1. CASE LoopCreate(e)
    BY <2>1 DEF LoopCreate, Create, Statuses
  <2>2. ASSUME NEW status \in Statuses, NEW attempt \in 0..MaxAttempt, LoopWrite(e, status, attempt)
        PROVE  \E s \in Statuses, a \in Nat : WriteState(e, s, a)
    BY <2>2, StoreAssumption DEF LoopWrite, Transition
  <2> QED
    BY <2>1, <2>2
<1>4. \A x \in Executions : Exists(x) => Exists(x)'
  BY <1>1, <1>3 DEF WriteState, Exists, TypeOK, StoreTypeOK, ExecutionState
<1>5. CallsHaveRecords'
  <2>1. \A w \in Workers : pc[w] # "idle" => Exec(w) \in Executions
    BY DEF IInv, CallsHaveRecords, CommitRecord, CommitId, Exec
  <2> QED
    BY <1>2, <1>4, <2>1 DEF IInv, CallsHaveRecords, Exec, Exists
<1>6. RecordsAreOfExecutions'
  <2>1. \A i \in DOMAIN journal : journal[i] \in CommitRecord
    BY <1>1 DEF TypeOK
  <2>2. \A i \in DOMAIN journal : journal[i].id.exec \in Executions
    BY <2>1 DEF CommitRecord, CommitId
  <2> QED
    BY <1>2, <1>4, <2>2 DEF IInv, RecordsAreOfExecutions, Exists
<1>7. CallsAreJournaled'
  BY <1>2 DEF IInv, CallsAreJournaled, InJournal
<1>8. CriticalSectionFenced' /\ WriterIsLegal' /\ StateIsWritten' /\ AuditIsWritten'
  BY <1>1, <1>2 DEF CriticalSectionFenced, WriterIsLegal, StateIsWritten, AuditIsWritten, Critical
<1>9. WritesUseIssuedTokens' /\ MarkedIsAudited' /\ AppliedIsRecoverable'
  BY <1>2 DEF IInv, WritesUseIssuedTokens, MarkedIsAudited, AppliedIsRecoverable, Pending, history
<1>10. FreshIsPending'
  BY <1>1, <1>3 DEF WriteState, IInv, FreshIsPending, Exists, TypeOK, StoreTypeOK, ExecutionState
<1> QED
  BY <1>5, <1>6, <1>7, <1>8, <1>9, <1>10 DEF IInv

\* Lease operations never lower the token of the lease file.
LEMMA LeaseTokens ==
  ASSUME LeaseTypeOK, NEW w \in Workers, NEW e \in Executions,
         Acquire(w, e) \/ Renew(w, e) \/ Release(w, e)
  PROVE  \A x \in Executions : lease'[x].token >= lease[x].token
<1>1. \A x \in Executions : lease[x] \in Lease /\ lease[x].token \in Nat
  BY DEF LeaseTypeOK, Lease
<1>2. CASE Acquire(w, e)
  BY <1>1, <1>2 DEF Acquire, LeaseTypeOK
<1>3. CASE Renew(w, e) \/ Release(w, e)
  <2>1. \A x \in Executions : lease'[x].token = lease[x].token
    BY <1>1, <1>3 DEF Renew, Release, LeaseTypeOK, Lease
  <2> QED
    BY <1>1, <2>1
<1> QED
  BY <1>2, <1>3

\* Tokens rotate only outside the lock; time changes no token.
LEMMA InvLeaseTraffic ==
  ASSUME IInv, TypeOK',
         \/ \E w \in Workers, e \in Executions : LeaseTraffic(w, e)
         \/ TimePasses
  PROVE  IInv'
<1>1. TypeOK /\ LeaseTypeOK
  BY DEF IInv, TypeOK
<1>2. UNCHANGED <<store, journal, audit, lock, pc, call, history>>
  BY DEF LeaseTraffic, TimePasses, durable, local
<1>3. \A w \in Workers : pc[w] \in Critical =>
        /\ token'[w] = token[w]
        /\ \A e \in Executions : lease'[e].token = lease[e].token
  <2>1. CASE TimePasses
    <3>1. token' = token
      BY <2>1 DEF TimePasses, Tick
    <3>2. \A e \in Executions : lease'[e].token = lease[e].token
      BY <1>1, <2>1 DEF TimePasses, Tick, LeaseTypeOK, Lease
    <3> QED
      BY <3>1, <3>2
  <2>2. ASSUME NEW w \in Workers, NEW e \in Executions, LeaseTraffic(w, e)
        PROVE  \A v \in Workers : pc[v] \notin Critical
    BY <2>2, Exclusion DEF LeaseTraffic
  <2> QED
    BY <2>1, <2>2
<1>4. \A e \in Executions : lease'[e].token >= lease[e].token
  <2>1. CASE TimePasses
    <3>1. \A e \in Executions : lease[e].token \in Nat /\ lease'[e].token = lease[e].token
      BY <1>1, <2>1 DEF TimePasses, Tick, LeaseTypeOK, Lease
    <3> QED
      BY <3>1
  <2>2. ASSUME NEW w \in Workers, NEW e \in Executions, LeaseTraffic(w, e)
        PROVE  \A x \in Executions : lease'[x].token >= lease[x].token
    BY <1>1, <2>2, LeaseTokens DEF LeaseTraffic
  <2> QED
    BY <2>1, <2>2
<1>5. CallsHaveRecords' /\ RecordsAreOfExecutions'
  BY <1>2 DEF IInv, CallsHaveRecords, RecordsAreOfExecutions, Exists, Exec
<1>6. CallsAreJournaled'
  BY <1>2 DEF IInv, CallsAreJournaled, InJournal
<1>7. CriticalSectionFenced'
  <2>1. \A w \in Workers : pc[w] \in Critical => Exec(w) \in Executions
    BY DEF IInv, CallsHaveRecords, CommitRecord, CommitId, Exec, Critical
  <2> QED
    BY <1>2, <1>3, <2>1 DEF IInv, CriticalSectionFenced, Exec
<1>8. WriterIsLegal' /\ StateIsWritten' /\ AuditIsWritten'
  BY <1>2 DEF IInv, WriterIsLegal, StateIsWritten, AuditIsWritten, Exec, Target
<1>9. WritesUseIssuedTokens'
  <2>1. \A e \in Executions : lastWrite[e] \in Nat /\ lease[e].token \in Nat /\ lease'[e].token \in Nat
    <3>1. lease \in [Executions -> Lease] /\ lease' \in [Executions -> Lease]
      BY DEF IInv, TypeOK, LeaseTypeOK
    <3> QED
      BY <3>1 DEF IInv, TypeOK, Lease
  <2> QED
    BY <1>2, <1>4, <2>1 DEF IInv, WritesUseIssuedTokens, history
<1>10. MarkedIsAudited' /\ AppliedIsRecoverable'
  BY <1>2 DEF IInv, MarkedIsAudited, AppliedIsRecoverable, Pending, history
<1>11. FreshIsPending'
  BY <1>2 DEF IInv, FreshIsPending, Exists
<1> QED
  BY <1>5, <1>6, <1>7, <1>8, <1>9, <1>10, <1>11 DEF IInv

\* Every action keeps the inductive invariant: one case per kind of action.
LEMMA InvStep == IInv /\ [Next]_vars => IInv'
<1> SUFFICES ASSUME IInv, [Next]_vars PROVE IInv'
  OBVIOUS
<1>1. TypeOK'
  BY TypeStep DEF IInv
<1>2. CASE UNCHANGED vars
  BY <1>2 DEF vars, IInv, TypeOK, StoreTypeOK, LeaseTypeOK, FreshIsPending, CallsHaveRecords, RecordsAreOfExecutions,
     CallsAreJournaled, InJournal, CriticalSectionFenced, WriterIsLegal, StateIsWritten,
     AuditIsWritten, WritesUseIssuedTokens, MarkedIsAudited, AppliedIsRecoverable, Pending,
     Exists, Exec, Target
<1>3. CASE Next
  BY <1>1, <1>3, InvCallSteps, InvAppendIntent, InvApplyTransition, InvAppendAudit, InvMarkIntent,
     InvLoopWrites, InvLeaseTraffic
  DEF Next, CommitStep, ReconcileStep, LockedStep, Environment
<1> QED
  BY <1>2, <1>3

\* So it holds in every state the protocol reaches.
LEMMA Invariance == Spec => []IInv
BY InvInit, InvStep, PTL DEF Spec

----------------------------------------------------------------------------
(* What a step does to the state, to the audit log and to the tokens written *)

\* All that a step can do to them is one of these.
LEMMA Effects ==
  ASSUME [Next]_vars
  PROVE  \/ UNCHANGED <<store, audit, applied, lastWrite>>
         \/ \E w \in Workers : ApplyTransition(w) \/ AppendAudit(w)
         \/ \E e \in Executions : LoopCreate(e)
         \/ \E e \in Executions, status \in Statuses, attempt \in 0..MaxAttempt :
              LoopWrite(e, status, attempt)
<1>1. ASSUME NEW w \in Workers, NEW e \in Executions, NEW to \in Statuses, Begin(w, e, to)
      PROVE  UNCHANGED <<store, audit, applied, lastWrite>>
  BY <1>1 DEF Begin, durable, history
<1>2. ASSUME NEW w \in Workers, CommitStep(w)
      PROVE  UNCHANGED <<store, audit, applied, lastWrite>>
  BY <1>2 DEF CommitStep, FindExisting, AppendIntent, RefuseCommit, AdmitCommit, durable, history
<1>3. ASSUME NEW w \in Workers, StartReconcile(w) \/ ReconcileStep(w)
      PROVE  UNCHANGED <<store, audit, applied, lastWrite>>
  BY <1>3 DEF StartReconcile, ReconcileStep, SkipIntent, ConfirmIntent, RedoIntent,
     PoisonedIntent, durable, history
<1>4. ASSUME NEW w \in Workers, MarkIntent(w) \/ Crash(w)
      PROVE  UNCHANGED <<store, audit, applied, lastWrite>>
  BY <1>4 DEF MarkIntent, Crash, durable, history
<1>5. ASSUME NEW w \in Workers, NEW e \in Executions, LeaseTraffic(w, e)
      PROVE  UNCHANGED <<store, audit, applied, lastWrite>>
  BY <1>5 DEF LeaseTraffic, durable, history
<1>6. CASE TimePasses \/ UNCHANGED vars
  BY <1>6 DEF TimePasses, vars, durable, history
<1>7. CASE \E e \in Executions : LoopCreate(e)
  BY <1>7
<1>8. CASE \E e \in Executions, status \in Statuses, attempt \in 0..MaxAttempt :
             LoopWrite(e, status, attempt)
  BY <1>8
<1>9. CASE \E w \in Workers : ApplyTransition(w) \/ AppendAudit(w)
  BY <1>9
<1> QED
  BY <1>1, <1>2, <1>3, <1>4, <1>5, <1>6, <1>7, <1>8, <1>9 DEF Next, LockedStep, Environment

\* The store changes only by a creation or along the lifecycle graph.
LEMMA StoreSteps ==
  ASSUME IInv, [Next]_vars
  PROVE  \/ store' = store
         \/ \E e \in Executions : ~ Exists(e) /\ WriteState(e, "pending", 0)
         \/ \E e \in Executions, s \in Statuses, a \in Nat :
              /\ Exists(e)
              /\ CanTransition(store[e].status, s)
              /\ WriteState(e, s, a)
<1>1. ASSUME NEW w \in Workers, ApplyTransition(w)
      PROVE  \E e \in Executions, s \in Statuses, a \in Nat :
               Exists(e) /\ CanTransition(store[e].status, s) /\ WriteState(e, s, a)
  <2>1. call[w] \in CommitRecord /\ Exists(Exec(w)) /\ CanTransition(store[Exec(w)].status, Target(w))
    BY <1>1 DEF IInv, ApplyTransition, CallsHaveRecords, WriterIsLegal
  <2>2. Exec(w) \in Executions /\ Target(w) \in Statuses
    BY <2>1 DEF CommitRecord, CommitId, Exec, Target
  <2>3. store[Exec(w)].attempt \in Nat
    <3>1. store[Exec(w)] \in ExecutionState
      BY <2>2 DEF IInv, TypeOK, StoreTypeOK
    <3> QED
      BY <3>1 DEF ExecutionState
  <2> QED
    BY <1>1, <2>1, <2>2, <2>3 DEF ApplyTransition
<1>2. ASSUME NEW w \in Workers, AppendAudit(w)
      PROVE  store' = store
  BY <1>2 DEF AppendAudit
<1>3. ASSUME NEW e \in Executions, LoopCreate(e)
      PROVE  ~ Exists(e) /\ WriteState(e, "pending", 0)
  BY <1>3 DEF LoopCreate, Create
<1>4. ASSUME NEW e \in Executions, NEW status \in Statuses, NEW attempt \in 0..MaxAttempt,
             LoopWrite(e, status, attempt)
      PROVE  /\ attempt \in Nat
             /\ Exists(e) /\ CanTransition(store[e].status, status) /\ WriteState(e, status, attempt)
  BY <1>4, StoreAssumption DEF LoopWrite, Transition
<1> QED
  BY <1>1, <1>2, <1>3, <1>4, Effects

\* An event enters the audit log while its transition is in force.
LEMMA AuditSteps ==
  ASSUME IInv, [Next]_vars
  PROVE  \A id \in audit' \ audit : store[id.exec].status = id.to
<1>1. ASSUME NEW w \in Workers, AppendAudit(w)
      PROVE  \A id \in audit' \ audit : store[id.exec].status = id.to
  BY <1>1 DEF AppendAudit, IInv, StateIsWritten, Exec, Target
<1>2. ASSUME NEW w \in Workers, ApplyTransition(w)
      PROVE  audit' = audit
  BY <1>2 DEF ApplyTransition
<1>3. ASSUME NEW e \in Executions, LoopCreate(e)
      PROVE  audit' = audit
  BY <1>3 DEF LoopCreate
<1>4. ASSUME NEW e \in Executions, NEW status, NEW attempt, LoopWrite(e, status, attempt)
      PROVE  audit' = audit
  BY <1>4 DEF LoopWrite
<1>5. audit' = audit \/ \E w \in Workers : AppendAudit(w)
  BY <1>2, <1>3, <1>4, Effects
<1> QED
  BY <1>1, <1>5

\* A coordinator writes under the lease file's newest token.
LEMMA WriteTokenSteps ==
  ASSUME IInv, [Next]_vars, NEW e \in Executions
  PROVE  lastWrite'[e] >= lastWrite[e]
<1>1. lastWrite[e] \in Nat /\ lease[e].token \in Nat /\ lastWrite[e] <= lease[e].token
  <2>1. lease[e] \in Lease
    BY DEF IInv, TypeOK, LeaseTypeOK
  <2> QED
    BY <2>1 DEF IInv, TypeOK, WritesUseIssuedTokens, Lease
<1>2. ASSUME NEW w \in Workers, ApplyTransition(w)
      PROVE  lastWrite'[e] \in {lastWrite[e], lease[e].token}
  <2>1. Leased => token[w] = lease[Exec(w)].token
    BY <1>2 DEF ApplyTransition, IInv, CriticalSectionFenced, Critical
  <2>2. CASE Leased
    BY <1>2, <2>1, <2>2 DEF ApplyTransition, IInv, TypeOK
  <2>3. CASE ~ Leased
    BY <1>2, <2>3 DEF ApplyTransition, IInv, TypeOK
  <2> QED
    BY <2>2, <2>3
<1>3. ASSUME NEW w \in Workers, AppendAudit(w)
      PROVE  lastWrite' = lastWrite
  BY <1>3 DEF AppendAudit, history
<1>4. ASSUME NEW x \in Executions, LoopCreate(x)
      PROVE  lastWrite' = lastWrite
  BY <1>4 DEF LoopCreate, history
<1>5. ASSUME NEW x \in Executions, NEW status, NEW attempt, LoopWrite(x, status, attempt)
      PROVE  lastWrite' = lastWrite
  BY <1>5 DEF LoopWrite, history
<1>6. lastWrite' = lastWrite \/ \E w \in Workers : ApplyTransition(w)
  BY <1>3, <1>4, <1>5, Effects
<1> QED
  BY <1>1, <1>2, <1>6

----------------------------------------------------------------------------
(* Theorems *)

\* Every variable keeps its type: in particular, no call, file or journal record
\* of the protocol ever holds a status outside the lifecycle.
THEOREM TypeCorrectness == Spec => []TypeOK
BY Invariance, PTL DEF IInv

\* Fencing: between the lease check of commit() or reconcile() and the release of
\* the store's lock the worker is alone in there and holds the newest token.
THEOREM Fencing == Spec => []CriticalSectionFenced
BY Invariance, PTL DEF IInv

\* _mark comes after the audit append: no record leaves "pending" unaudited.
THEOREM MarkingFollowsAudit == Spec => []MarkedIsAudited
BY Invariance, PTL DEF IInv

\* The intent is journaled before the state is written: a state write without an
\* audit event always has a pending record, wherever a crash fell.
THEOREM Recoverability == Spec => []AppliedIsRecoverable
BY Invariance, PTL DEF IInv

\* No write of a coordinator is made under an older token than an earlier one.
THEOREM TokenOrder == Spec => WriteTokensNeverFallBack
<1>1. IInv /\ [Next]_vars => [\A e \in Executions : lastWrite'[e] >= lastWrite[e]]_vars
  BY WriteTokenSteps
<1> QED
  BY Invariance, <1>1, PTL DEF Spec, WriteTokensNeverFallBack

\* Each event is appended while the state durably is what the event reports.
THEOREM AuditTruth == Spec => AuditTellsTheTruth
<1>1. IInv /\ [Next]_vars => [\A id \in audit' \ audit : store[id.exec].status = id.to]_vars
  BY AuditSteps
<1> QED
  BY Invariance, <1>1, PTL DEF Spec, AuditTellsTheTruth

\* Commits, reconciliation, loops and crashes never take a completed execution
\* back to work.
THEOREM CompletionIsFinal == Spec => CompletedIsFinal
<1>1. ASSUME IInv, [Next]_vars, NEW e \in Executions, store[e].status = "completed"
      PROVE  store'[e].status = "completed"
  <2>0. store \in [Executions -> ExecutionState]
    BY <1>1 DEF IInv, TypeOK, StoreTypeOK
  <2>1. ASSUME NEW x \in Executions, ~ Exists(x), WriteState(x, "pending", 0)
        PROVE  store'[e].status = "completed"
    <3>1. x # e
      BY <1>1, <2>1 DEF IInv, FreshIsPending
    <3> QED
      BY <1>1, <2>0, <2>1, <3>1 DEF WriteState
  <2>2. ASSUME NEW x \in Executions, NEW s \in Statuses, NEW a \in Nat,
               CanTransition(store[x].status, s), WriteState(x, s, a)
        PROVE  store'[e].status = "completed"
    BY <1>1, <2>0, <2>2 DEF WriteState, CanTransition, Transitions
  <2> QED
    BY <1>1, <2>1, <2>2, StoreSteps
<1>2. IInv /\ [Next]_vars =>
        [\A e \in Executions :
           store[e].status = "completed" => store'[e].status = "completed"]_vars
  BY <1>1
<1> QED
  BY Invariance, <1>2, PTL DEF Spec, CompletedIsFinal

----------------------------------------------------------------------------
(* Refinement *)

\* At each of its steps the store creates an execution, moves one along the graph, or
\* stays.
LEMMA LifecycleStep ==
  ASSUME IInv, [Next]_vars
  PROVE  [Lifecycle!Next]_(Lifecycle!lifecycleVars)
<1>0. store \in [Executions -> ExecutionState]
  BY DEF IInv, TypeOK, StoreTypeOK
<1>1. CASE store' = store
  BY <1>1 DEF Lifecycle!lifecycleVars
<1>2. ASSUME NEW e \in Executions, ~ Exists(e), WriteState(e, "pending", 0)
      PROVE  Lifecycle!Create(e)
  <2>1. store[e].version = 0 /\ store[e].status = "pending"
    <3>1. store[e].version \in Nat
      BY <1>0 DEF ExecutionState
    <3> QED
      BY <1>2, <3>1 DEF IInv, FreshIsPending, Exists
  <2>2. store' = [store EXCEPT ![e] = [status |-> "pending", attempt |-> 0, version |-> 1]]
    BY <1>2, <2>1 DEF WriteState
  <2>3. \A x \in Executions : store'[x].status = store[x].status
    BY <1>0, <2>1, <2>2
  <2>4. \A x \in Executions : store'[x].version = IF x = e THEN 1 ELSE store[x].version
    BY <1>0, <2>2
  <2> QED
    BY <2>1, <2>3, <2>4 DEF Lifecycle!Create
<1>3. ASSUME NEW e \in Executions, NEW s \in Statuses, NEW a \in Nat,
             Exists(e), CanTransition(store[e].status, s), WriteState(e, s, a)
      PROVE  Lifecycle!Move(e, s)
  BY <1>0, <1>3 DEF WriteState, Exists, Lifecycle!Move, Lifecycle!CanTransition,
     Lifecycle!Transitions, CanTransition, Transitions, ExecutionState
<1> QED
  BY <1>1, <1>2, <1>3, StoreSteps DEF Lifecycle!Next, Lifecycle!Statuses, Statuses

\* The commit protocol, with its locks, leases, journal and crashes, implements
\* the lifecycle the store promises, also when callers ask for transitions the
\* graph does not have.
THEOREM Refinement == Spec => ImplementsLifecycle
<1>1. Init => Lifecycle!Init
  BY DEF Init, StoreInit, Lifecycle!Init
<1>2. IInv /\ [Next]_vars => [Lifecycle!Next]_(Lifecycle!lifecycleVars)
  BY LifecycleStep
<1> QED
  BY Invariance, <1>1, <1>2, PTL DEF Spec, Lifecycle!Spec, ImplementsLifecycle

----------------------------------------------------------------------------
(* The journal is used as CommitJournal promises it *)

Entries(records) ==
  [i \in DOMAIN records |-> [id |-> records[i].id, status |-> records[i].status]]

\* Only an append and a mark touch the journal.
LEMMA JournalSteps ==
  ASSUME [Next]_vars
  PROVE  \/ journal' = journal
         \/ \E w \in Workers : AppendIntent(w) \/ MarkIntent(w)
<1>1. CASE UNCHANGED vars
  BY <1>1 DEF vars
<1>2. ASSUME NEW w \in Workers,
             \/ \E e \in Executions, to \in Statuses : Begin(w, e, to)
             \/ FindExisting(w) \/ RefuseCommit(w) \/ AdmitCommit(w) \/ StartReconcile(w)
      PROVE  journal' = journal
  BY <1>2 DEF Begin, FindExisting, RefuseCommit, AdmitCommit, StartReconcile, durable
<1>3. ASSUME NEW w \in Workers, ReconcileStep(w) \/ ApplyTransition(w) \/ AppendAudit(w)
      PROVE  journal' = journal
  BY <1>3 DEF ReconcileStep, SkipIntent, ConfirmIntent, RedoIntent, PoisonedIntent,
     ApplyTransition, AppendAudit, durable
<1>4. CASE Environment
  BY <1>4 DEF Environment, LoopCreate, LoopWrite, LeaseTraffic, TimePasses, Crash, durable
<1> QED
  BY <1>1, <1>2, <1>3, <1>4 DEF Next, CommitStep, LockedStep

LogEntry == [id : CommitId, status : JournalStatuses]

\* A function on the first n numbers is a sequence, and Append extends it by one.
LEMMA AppendToFunction ==
  ASSUME NEW S, NEW n \in Nat, NEW f \in [1..n -> S], NEW y \in S
  PROVE  Append(f, y) = [i \in 1..(n + 1) |-> IF i = n + 1 THEN y ELSE f[i]]
<1>1. f \in Seq(S) /\ Len(f) = n /\ DOMAIN f = 1..n
  OBVIOUS
<1>2. /\ Append(f, y) \in Seq(S) /\ Len(Append(f, y)) = n + 1
      /\ \A i \in 1..n : Append(f, y)[i] = f[i]
      /\ Append(f, y)[n + 1] = y
  BY <1>1, AppendProperties
<1>3. Append(f, y) = [i \in 1..(n + 1) |-> Append(f, y)[i]]
  <2> DEFINE t == Append(f, y)
  <2>1. t \in Seq(S) /\ Len(t) = n + 1
    BY <1>2
  <2> HIDE DEF t
  <2>2. t = [i \in 1..Len(t) |-> t[i]]
    BY <2>1
  <2> QED
    BY <2>1, <2>2 DEF t
<1>4. \A i \in 1..(n + 1) : Append(f, y)[i] = IF i = n + 1 THEN y ELSE f[i]
  BY <1>2
<1> QED
  BY <1>3, <1>4

\* An appended intent is a new entry, pending, at the end.
LEMMA AppendIsLogged ==
  ASSUME TypeOK, NEW w \in Workers, AppendIntent(w), call[w] \in CommitRecord,
         call[w].status = "pending"
  PROVE  /\ call[w].id \in CommitId
         /\ Entries(journal') =
              Append(Entries(journal), [id |-> call[w].id, status |-> "pending"])
<1>1. /\ DOMAIN journal' = DOMAIN journal \union {Len(journal) + 1}
      /\ \A i \in DOMAIN journal : journal'[i] = journal[i]
      /\ journal'[Len(journal) + 1] = call[w]
      /\ DOMAIN journal = 1..Len(journal) /\ Len(journal) \in Nat
  BY AppendedJournal DEF AppendIntent, TypeOK
<1> DEFINE n == Len(journal)
           E == Entries(journal)
           x == [id |-> call[w].id, status |-> "pending"]
<1>2. E = [i \in 1..n |-> [id |-> journal[i].id, status |-> journal[i].status]]
  BY <1>1 DEF Entries
<1>3. x \in LogEntry /\ \A i \in 1..n : [id |-> journal[i].id, status |-> journal[i].status] \in LogEntry
  <2>1. \A i \in 1..n : journal[i] \in CommitRecord
    BY <1>1 DEF TypeOK
  <2> QED
    BY <2>1 DEF LogEntry, CommitRecord, JournalStatuses
<1>4. E \in [1..n -> LogEntry]
  BY <1>2, <1>3
<1> HIDE DEF E, x, n
<1>5. Append(E, x) = [i \in 1..(n + 1) |-> IF i = n + 1 THEN x ELSE E[i]]
  <2>1. n \in Nat
    BY <1>1 DEF n
  <2> QED
    BY <1>3, <1>4, <2>1, AppendToFunction
<1> USE DEF x, n
<1>6. Entries(journal') =
        [i \in 1..(n + 1) |-> [id |-> journal'[i].id, status |-> journal'[i].status]]
  <2>1. DOMAIN journal' = 1..(n + 1)
    BY <1>1
  <2> QED
    BY <2>1 DEF Entries
<1>7. \A i \in 1..(n + 1) :
        [id |-> journal'[i].id, status |-> journal'[i].status] = IF i = n + 1 THEN x ELSE E[i]
  <2>1. journal'[n + 1] = call[w]
    BY <1>1
  <2>2. \A i \in 1..(n + 1) : i # n + 1 => i \in 1..n /\ journal'[i] = journal[i]
    BY <1>1
  <2>3. \A i \in 1..n : E[i] = [id |-> journal[i].id, status |-> journal[i].status]
    BY <1>2
  <2> QED
    BY <2>1, <2>2, <2>3
<1>8. Entries(journal') = Append(E, x)
  BY <1>5, <1>6, <1>7
<1> QED
  BY <1>8 DEF CommitRecord, E

\* A mark rewrites the status of the first entry with the id.
LEMMA MarkIsLogged ==
  ASSUME TypeOK, NEW id \in CommitId, NEW s \in {"applied", "reconciled"},
         journal' = Marked(id, s)
  PROVE  Entries(journal') =
           [i \in DOMAIN Entries(journal) |->
              IF Entries(journal)[i].id = id /\ \A j \in 1..(i - 1) : Entries(journal)[j].id # id
              THEN [Entries(journal)[i] EXCEPT !.status = s]
              ELSE Entries(journal)[i]]
<1>1. /\ DOMAIN journal = 1..Len(journal) /\ Len(journal) \in Nat
      /\ \A i \in DOMAIN journal : journal[i] \in CommitRecord
  BY DEF TypeOK
<1>2. DOMAIN Entries(journal) = DOMAIN journal
      /\ \A i \in DOMAIN journal :
           Entries(journal)[i] = [id |-> journal[i].id, status |-> journal[i].status]
  BY DEF Entries
<1>3. ASSUME NEW i \in DOMAIN journal
      PROVE  IsFirst(i, id) <=>
               Entries(journal)[i].id = id /\ \A j \in 1..(i - 1) : Entries(journal)[j].id # id
  <2>1. \A j \in 1..(i - 1) : j \in DOMAIN journal
    BY <1>1
  <2> QED
    BY <1>2, <2>1 DEF IsFirst
<1>4. ASSUME NEW i \in DOMAIN journal
      PROVE  [id |-> journal'[i].id, status |-> journal'[i].status] =
               IF IsFirst(i, id) THEN [Entries(journal)[i] EXCEPT !.status = s]
                                 ELSE Entries(journal)[i]
  <2>1. CASE IsFirst(i, id)
    <3>1. journal'[i] = [journal[i] EXCEPT !.status = s]
      BY <2>1 DEF Marked
    <3>2. journal'[i].id = journal[i].id /\ journal'[i].status = s
      BY <1>1, <3>1 DEF CommitRecord
    <3> QED
      BY <1>2, <2>1, <3>2
  <2>2. CASE ~ IsFirst(i, id)
    BY <1>2, <2>2 DEF Marked
  <2> QED
    BY <2>1, <2>2
<1>5. DOMAIN journal' = DOMAIN journal
  BY DEF Marked
<1>6. Entries(journal') =
        [i \in DOMAIN journal |-> [id |-> journal'[i].id, status |-> journal'[i].status]]
  BY <1>5 DEF Entries
<1> QED
  BY <1>2, <1>3, <1>4, <1>6

\* Each step of the protocol is one of the log, or leaves it alone.
LEMMA LogStep ==
  ASSUME IInv, [Next]_vars
  PROVE  [Log!Next]_(Entries(journal))
<1>0. TypeOK
  BY DEF IInv
<1>1. CASE journal' = journal
  BY <1>1 DEF Entries
<1>2. ASSUME NEW w \in Workers, AppendIntent(w)
      PROVE  Log!Next
  <2>1. call[w] \in CommitRecord /\ call[w].status = "pending"
    BY <1>2 DEF AppendIntent, IInv, CallsHaveRecords
  <2>2. /\ call[w].id \in CommitId
        /\ Entries(journal') =
             Append(Entries(journal), [id |-> call[w].id, status |-> "pending"])
    BY <1>0, <1>2, <2>1, AppendIsLogged
  <2> QED
    BY <2>2 DEF Log!Next, Entries
<1>3. ASSUME NEW w \in Workers, MarkIntent(w)
      PROVE  Log!Next
  <2>1. call[w].id \in CommitId
    BY <1>3 DEF MarkIntent, IInv, CallsHaveRecords, CommitRecord
  <2>2. PICK s \in {"applied", "reconciled"} : journal' = Marked(call[w].id, s)
    BY <1>3 DEF MarkIntent
  <2>3. Entries(journal') = Log!MarkFirst(call[w].id, s)
    BY <1>0, <2>1, <2>2, MarkIsLogged DEF Log!MarkFirst, Entries
  <2> QED
    BY <2>1, <2>3 DEF Log!Next, Entries
<1> QED
  BY <1>1, <1>2, <1>3, JournalSteps

\* The journal that this module works with is the one that CommitJournal, with torn
\* lines, checksums and quarantine, implements: only its promises are relied on.
THEOREM JournalUse == Spec => ImplementsLog
<1>1. Init => Log!Init
  BY DEF Init, Log!Init
<1>2. IInv /\ [Next]_vars => [Log!Next]_(Entries(journal))
  BY LogStep
<1>3. [Log!Next]_(Entries(journal)) => [Log!Next]_([i \in DOMAIN journal |->
        [id |-> journal[i].id, status |-> journal[i].status]])
  BY DEF Entries
<1> QED
  BY Invariance, <1>1, <1>2, <1>3, PTL DEF Spec, Log!Spec, ImplementsLog

----------------------------------------------------------------------------
(* Leases *)

\* A coordinator carries a number that some execution's lease has reached, and two
\* that carry the same one have it from two executions.
TokensWereIssued ==
  \A w \in Workers : token[w] # 0 =>
    \E f \in Executions : lease[f].token >= token[w]

SharedTokensAreOfTwo ==
  \A v, w \in Workers : v # w /\ token[v] = token[w] /\ token[w] # 0 =>
    \E f, g \in Executions :
      f # g /\ lease[f].token >= token[w] /\ lease[g].token >= token[w]

\* A lease somebody has was acquired.
HeldIsNumbered ==
  \A e \in Executions : lease[e].ttl > 0 => lease[e].token # 0

LInv == LeaseTypeOK /\ TokensWereIssued /\ SharedTokensAreOfTwo /\ HeldIsNumbered

\* The commit protocol uses the leases as ExecutionLease says.
LEMMA LeaseUse == [Next]_vars => [LeaseNext]_leaseVars
<1> SUFFICES ASSUME [Next]_vars PROVE [LeaseNext]_leaseVars
  OBVIOUS
<1>1. CASE UNCHANGED vars
  BY <1>1 DEF vars, leaseVars
<1>2. CASE Next
  BY <1>2
  DEF Next, CommitStep, ReconcileStep, LockedStep, Environment, Begin, FindExisting, AppendIntent,
      RefuseCommit, AdmitCommit, StartReconcile, SkipIntent, ConfirmIntent, RedoIntent,
      PoisonedIntent, ApplyTransition, AppendAudit, MarkIntent, LoopCreate, LoopWrite,
      LeaseTraffic, TimePasses, Crash, LeaseNext, leaseVars, durable, local, history
<1> QED
  BY <1>1, <1>2

\* A step of the leases: an acquisition of one execution by one worker, or tokens stay
\* but for one that is forgotten.
LEMMA LeaseSteps ==
  ASSUME LeaseTypeOK, [LeaseNext]_leaseVars
  PROVE  \/ \E w \in Workers, e \in Executions :
              /\ lease' = [lease EXCEPT ![e] =
                             [owner |-> OwnerOf[w], token |-> lease[e].token + 1, ttl |-> Ttl]]
              /\ token' = [token EXCEPT ![w] = lease[e].token + 1]
         \/ /\ \A e \in Executions :
                 /\ lease'[e].token = lease[e].token
                 /\ \/ lease'[e].ttl = 0 /\ lease'[e].owner = NoOwner
                    \/ /\ lease'[e].owner = lease[e].owner
                       /\ lease'[e].ttl > 0 => lease[e].ttl > 0
            /\ \A w \in Workers : token'[w] \in {token[w], 0}
<1>0. /\ \A e \in Executions : lease[e] \in Lease /\ lease[e].ttl \in Nat /\ lease[e].token \in Nat
      /\ Ttl \in Nat
  BY CommitAssumption DEF LeaseTypeOK, Lease, CommitAssumption, LeaseAssumption
<1>1. ASSUME NEW w \in Workers, NEW e \in Executions, Acquire(w, e)
      PROVE  /\ lease' = [lease EXCEPT ![e] =
                            [owner |-> OwnerOf[w], token |-> lease[e].token + 1, ttl |-> Ttl]]
             /\ token' = [token EXCEPT ![w] = lease[e].token + 1]
  BY <1>1 DEF Acquire
<1>2. ASSUME NEW w \in Workers, NEW e \in Executions, Renew(w, e)
      PROVE  \A f \in Executions :
               /\ lease'[f].token = lease[f].token /\ lease'[f].owner = lease[f].owner
               /\ lease'[f].ttl > 0 => lease[f].ttl > 0
  BY <1>0, <1>2 DEF Renew, IsOwner, LeaseTypeOK, Lease
<1>3. ASSUME NEW w \in Workers, NEW e \in Executions, Release(w, e), NEW f \in Executions
      PROVE  /\ lease'[f].token = lease[f].token
             /\ \/ lease'[f].ttl = 0 /\ lease'[f].owner = NoOwner
                \/ lease'[f] = lease[f]
  BY <1>0, <1>3 DEF Release, LeaseTypeOK, Lease
<1>4. ASSUME Tick, NEW f \in Executions
      PROVE  /\ lease'[f].token = lease[f].token /\ lease'[f].owner = lease[f].owner
             /\ lease'[f].ttl > 0 => lease[f].ttl > 0
  BY <1>0, <1>4 DEF Tick, LeaseTypeOK, Lease
<1>5. ASSUME NEW w \in Workers, Forget(w)
      PROVE  lease' = lease /\ \A v \in Workers : token'[v] \in {token[v], 0}
  BY <1>5 DEF Forget, LeaseTypeOK
<1>6. (\E w \in Workers, e \in Executions : Renew(w, e) \/ Release(w, e)) \/ Tick
        => token' = token
  BY DEF Renew, Release, Tick
<1> QED
  BY <1>1, <1>2, <1>3, <1>4, <1>5, <1>6 DEF LeaseNext, leaseVars

\* What the leases' numbers say of one another is kept.
LEMMA LeaseStep ==
  ASSUME LInv, LeaseTypeOK', [LeaseNext]_leaseVars
  PROVE  LInv'
<1>0. /\ \A e \in Executions : lease[e].token \in Nat /\ lease'[e].token \in Nat
      /\ \A w \in Workers : token[w] \in Nat /\ token'[w] \in Nat
  BY DEF LInv, LeaseTypeOK, Lease
<1>1. CASE \E w \in Workers, e \in Executions :
              /\ lease' = [lease EXCEPT ![e] =
                             [owner |-> OwnerOf[w], token |-> lease[e].token + 1, ttl |-> Ttl]]
              /\ token' = [token EXCEPT ![w] = lease[e].token + 1]
  <2>1. PICK x \in Workers, e \in Executions :
              /\ lease' = [lease EXCEPT ![e] =
                             [owner |-> OwnerOf[x], token |-> lease[e].token + 1, ttl |-> Ttl]]
              /\ token' = [token EXCEPT ![x] = lease[e].token + 1]
    BY <1>1
  <2>2. /\ lease'[e].token = lease[e].token + 1
        /\ \A f \in Executions \ {e} : lease'[f] = lease[f]
        /\ token'[x] = lease[e].token + 1
        /\ \A v \in Workers \ {x} : token'[v] = token[v]
    BY <2>1 DEF LInv, LeaseTypeOK
  <2>3. \A f \in Executions : lease'[f].token >= lease[f].token
    BY <1>0, <2>2
  <2>4. TokensWereIssued'
    BY <1>0, <2>2, <2>3 DEF LInv, TokensWereIssued
  <2>5. ASSUME NEW v \in Workers, v # x, token[v] = lease[e].token + 1
        PROVE  \E f \in Executions \ {e} : lease'[f].token >= lease[e].token + 1
    <3>1. PICK f \in Executions : lease[f].token >= token[v]
      BY <1>0, <2>5 DEF LInv, TokensWereIssued
    <3>2. f # e
      BY <1>0, <2>5, <3>1
    <3> QED
      BY <2>2, <2>5, <3>1, <3>2
  <2>6. ASSUME NEW v \in Workers, NEW w \in Workers, v # w, token'[v] = token'[w], token'[w] # 0
        PROVE  \E f, g \in Executions :
                 f # g /\ lease'[f].token >= token'[w] /\ lease'[g].token >= token'[w]
    <3>1. CASE v = x
      BY <1>0, <2>2, <2>5, <2>6, <3>1
    <3>2. CASE w = x
      BY <1>0, <2>2, <2>5, <2>6, <3>2
    <3>3. CASE v # x /\ w # x
      <4>1. PICK f, g \in Executions :
               f # g /\ lease[f].token >= token[w] /\ lease[g].token >= token[w]
        BY <2>2, <2>6, <3>3 DEF LInv, SharedTokensAreOfTwo
      <4> QED
        BY <1>0, <2>2, <2>3, <3>3, <4>1
    <3> QED
      BY <3>1, <3>2, <3>3
  <2>7. HeldIsNumbered'
    BY <1>0, <2>2 DEF LInv, HeldIsNumbered
  <2> QED
    BY <2>4, <2>6, <2>7 DEF LInv, SharedTokensAreOfTwo
<1>2. CASE /\ \A e \in Executions :
                 /\ lease'[e].token = lease[e].token
                 /\ \/ lease'[e].ttl = 0 /\ lease'[e].owner = NoOwner
                    \/ /\ lease'[e].owner = lease[e].owner
                       /\ lease'[e].ttl > 0 => lease[e].ttl > 0
           /\ \A w \in Workers : token'[w] \in {token[w], 0}
  <2>1. TokensWereIssued' /\ SharedTokensAreOfTwo'
    BY <1>2 DEF LInv, TokensWereIssued, SharedTokensAreOfTwo
  <2>2. HeldIsNumbered'
    BY <1>2 DEF LInv, HeldIsNumbered
  <2> QED
    BY <2>1, <2>2 DEF LInv
<1> QED
  BY <1>1, <1>2, LeaseSteps DEF LInv

\* Who holds a lease: one coordinator, or several by numbers of several executions.
THEOREM LeaseIsExclusive == Spec => []ExclusiveHolder
<1>1. Init => LInv
  BY TypeInit DEF Init, TypeOK, LeaseInit, LInv, TokensWereIssued, SharedTokensAreOfTwo, HeldIsNumbered
<1>2. TypeOK' /\ LInv /\ [Next]_vars => LInv'
  BY LeaseUse, LeaseStep DEF TypeOK
<1>3. LInv => ExclusiveHolder
  BY DEF LInv, SharedTokensAreOfTwo, HeldIsNumbered, ExclusiveHolder, IsOwner
<1> QED
  BY TypeCorrectness, <1>1, <1>2, <1>3, PTL DEF Spec

\* Renewals, expiry, releases and restarts never give back a lease that was lost.
THEOREM LostLeases == Spec => LostLeaseStaysLost
<1>1. ASSUME TypeOK, [Next]_vars
      PROVE  [\A w \in Workers, e \in Executions :
                ~ IsOwner(w, e) /\ IsOwner(w, e)'
                  => token'[w] # token[w] \/ token[w] > lease[e].token]_leaseVars
  <2> SUFFICES ASSUME NEW w \in Workers, NEW e \in Executions,
                      IsOwner(w, e)', token'[w] = token[w], ~ token[w] > lease[e].token
               PROVE  IsOwner(w, e)
    OBVIOUS
  <2>1. /\ LeaseTypeOK /\ [LeaseNext]_leaseVars
        /\ lease[e].token \in Nat /\ token[w] \in Nat
        /\ OwnerOf[w] # NoOwner
    BY <1>1, LeaseUse, CommitAssumption DEF TypeOK, LeaseTypeOK, Lease, CommitAssumption, LeaseAssumption
  <2>2. lease'[e].token = token[w] /\ lease'[e].owner = OwnerOf[w] /\ lease'[e].ttl > 0
    BY DEF IsOwner
  <2>3. ASSUME NEW x \in Workers, NEW f \in Executions,
               lease' = [lease EXCEPT ![f] =
                           [owner |-> OwnerOf[x], token |-> lease[f].token + 1, ttl |-> Ttl]]
        PROVE  IsOwner(w, e)
    <3>1. f # e
      BY <2>1, <2>2, <2>3 DEF LeaseTypeOK
    <3> QED
      BY <2>1, <2>2, <2>3, <3>1 DEF LeaseTypeOK, IsOwner
  <2>4. CASE /\ lease'[e].token = lease[e].token
             /\ \/ lease'[e].ttl = 0 /\ lease'[e].owner = NoOwner
                \/ /\ lease'[e].owner = lease[e].owner
                   /\ lease'[e].ttl > 0 => lease[e].ttl > 0
    BY <2>1, <2>2, <2>4 DEF IsOwner
  <2> QED
    BY <2>1, <2>3, <2>4, LeaseSteps
<1> QED
  BY TypeCorrectness, <1>1, PTL DEF Spec, LostLeaseStaysLost

=============================================================================
