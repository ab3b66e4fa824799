--------------------------- MODULE IntentRecovery ---------------------------
(***************************************************************************)
(* Recovery of tool intents that were left open, next to executors that    *)
(* go on calling the tool (module ToolBoundary):                           *)
(*                                                                         *)
(*   - journaling workers, IntentRecoveryWorker of                         *)
(*     runtime/intent_recovery_worker.py, which write what their resolver  *)
(*     found to the reconciliation journal, and finish an intent from it;  *)
(*   - reconcilers, ToolIntentRecoveryWorker of                            *)
(*     runtime/tool_intent_recovery.py with ToolExecutor.reconcile_intent, *)
(*     which write it to the registry of results.                          *)
(*                                                                         *)
(* Each takes a lease and then claims the intent.  The leases exclude      *)
(* workers of one kind only: a journaling worker leases the intent's       *)
(* execution, a reconciler its idempotency key.  Leases and claims have    *)
(* lengths of their own, so time passes for each apart.                    *)
(***************************************************************************)
EXTENDS ToolBoundary

CONSTANTS
  Journalers,   \* IntentRecoveryWorker objects
  Reconcilers,  \* ToolIntentRecoveryWorker objects
  Owners,       \* owner ids of workers, of their leases and their claims
  OwnerOf,      \* the owner id each worker was made with
  NoOwner,
  LeaseTtl,
  MaxToken,     \* bound: acquisitions of each lease
  MaxPasses,    \* bound: times each worker takes the intent up
  MaxAttempts   \* attempts of a reconciler at one intent

Workers == Journalers \union Reconcilers

ASSUME RecoveryAssumption ==
  /\ Journalers \intersect Reconcilers = {}
  /\ OwnerOf \in [Workers -> Owners]
  /\ NoOwner \notin Owners
  /\ LeaseTtl \in Nat \ {0}
  /\ MaxToken \in Nat
  /\ MaxPasses \in Nat
  /\ MaxAttempts \in Nat \ {0}

VARIABLES
  stage,     \* where each worker has got to with the intent
  mine,      \* its claim token
  verdict,   \* what it has found: how the call ended
  attempts,  \* a reconciler's attempts so far
  passes,    \* how often each worker has taken the intent up
  lease,     \* the leases on the execution and on the key
  epoch,     \* the fencing token of each worker's lease
  journal,   \* the reconciliation journal's record
  claimsOf   \* tokens of the claims made under each owner id

locals == <<mine, verdict, attempts>>
workerVars == <<stage, locals, passes>>
leaseVars == <<lease, epoch>>
recoveryVars == <<vars, workerVars, leaseVars, journal, claimsOf>>

LeaseKeys == {"execution", "key"}
LeaseKey(w) == IF w \in Journalers THEN "execution" ELSE "key"

Leases == INSTANCE ExecutionLease
            WITH Executions <- LeaseKeys, Ttl <- LeaseTtl, token <- epoch

OwnsLease(w) == Leases!IsOwner(w, LeaseKey(w))

\* A journaling worker that commits holds the lease file's lock all the while.
LeaseUnlocked == \A w \in Journalers : stage[w] # "commit"

RecoveryStages ==
  {"idle", "lease", "replay", "claim", "begin", "check", "lookup", "resolve",
   "record", "commit", "put", "mark", "giveup", "unlease"}

\* "unknown": the resolver could not tell.
RecoveryTypeOK ==
  /\ TypeOK
  /\ Leases!LeaseTypeOK
  /\ stage \in [Workers -> RecoveryStages]
  /\ mine \in [Workers -> Nat]
  /\ verdict \in [Workers -> Terminal \union {"none", "unknown"}]
  /\ attempts \in [Workers -> 0..MaxAttempts]
  /\ passes \in [Workers -> Nat]
  /\ journal \in Terminal \union {"none", "pending"}
  /\ claimsOf \in [Owners -> SUBSET Nat]

Proceed(w, s) == stage' = [stage EXCEPT ![w] = s]

\* The worker is done with the intent: it goes on to s, and its locals do not matter
\* any more.
Leave(w, s) ==
  /\ Proceed(w, s)
  /\ mine' = [mine EXCEPT ![w] = 0]
  /\ verdict' = [verdict EXCEPT ![w] = "none"]
  /\ attempts' = [attempts EXCEPT ![w] = 0]

\* What the workers do not touch of the executors' calls.
calls == <<pc, claim, outcome, cache, told, crashes, performed>>
others == <<claims, lapsed, calls>>

----------------------------------------------------------------------------
RecoveryInit ==
  /\ Init
  /\ Leases!LeaseInit
  /\ stage = [w \in Workers |-> "idle"]
  /\ mine = [w \in Workers |-> 0]
  /\ verdict = [w \in Workers |-> "none"]
  /\ attempts = [w \in Workers |-> 0]
  /\ passes = [w \in Workers |-> 0]
  /\ journal = "none"
  /\ claimsOf = [o \in Owners |-> {}]

\* recover_all, recover: the intent is among the pending ones.  Others may be
\* dealt with first.
TakePending(w) ==
  /\ stage[w] = "idle"
  /\ intent.state \in Open
  /\ passes[w] < MaxPasses
  /\ passes' = [passes EXCEPT ![w] = @ + 1]
  /\ Proceed(w, "lease")
  /\ UNCHANGED <<vars, locals, leaseVars, journal, claimsOf>>

AcquireLease(w) ==
  /\ stage[w] = "lease"
  /\ LeaseUnlocked
  /\ Leases!Acquire(w, LeaseKey(w))
  /\ Proceed(w, IF w \in Journalers THEN "replay" ELSE "claim")
  /\ UNCHANGED <<vars, locals, passes, journal, claimsOf>>

SkippedByLease(w) ==
  /\ stage[w] = "lease"
  /\ LeaseUnlocked
  /\ lease[LeaseKey(w)].ttl > 0 /\ lease[LeaseKey(w)].owner # OwnerOf[w]
  /\ Leave(w, "idle")
  /\ UNCHANGED <<vars, passes, leaseVars, journal, claimsOf>>

\* claim(): an entry with this owner id is refused, unless it has this token,
\* which is new; one with another owner id is refused while it is alive.
ClaimableBy(w) == Claimable /\ intent.token \notin claimsOf[OwnerOf[w]]

ClaimForRecovery(w) ==
  /\ stage[w] = "claim"
  /\ ClaimableBy(w)
  /\ claims < MaxClaims
  /\ claims' = claims + 1
  /\ ClaimIntent(claims + 1)
  /\ mine' = [mine EXCEPT ![w] = claims + 1]
  /\ claimsOf' = [claimsOf EXCEPT ![OwnerOf[w]] = @ \union {claims + 1}]
  /\ Proceed(w, IF w \in Journalers THEN "begin" ELSE "check")
  /\ UNCHANGED <<result, lapsed, calls, verdict, attempts, passes, leaseVars, journal>>

SkippedByClaim(w) ==
  /\ stage[w] = "claim"
  /\ ~ ClaimableBy(w)
  /\ Leave(w, "unlease")
  /\ UNCHANGED <<vars, passes, leaseVars, journal, claimsOf>>

\* release_claim(key, owner, claim_token), and on to s.
GiveBack(w) ==
  /\ ReleaseClaim(mine[w])
  /\ lapsed' = lapsed \union {mine[w]}
  /\ Leave(w, "unlease")
  /\ UNCHANGED <<result, claims, calls, passes, leaseVars, journal, claimsOf>>

\* The finally clause.  It does not touch the claim.
ReleaseLease(w) ==
  /\ stage[w] = "unlease"
  /\ LeaseUnlocked
  /\ IF /\ lease[LeaseKey(w)].owner = OwnerOf[w]
        /\ lease[LeaseKey(w)].token = epoch[w]
     THEN Leases!Release(w, LeaseKey(w))
     ELSE UNCHANGED leaseVars
  /\ Proceed(w, "idle")
  /\ UNCHANGED <<vars, locals, passes, journal, claimsOf>>

----------------------------------------------------------------------------
(* IntentRecoveryWorker.recover_one *)

\* The journal's operations: begin; complete and fail, which leave a terminal record
\* as it is; and decide_evidence, for which only a terminal record counts.
Begun == IF journal = "none" THEN "pending" ELSE journal
Recorded(v) == IF journal \in Terminal THEN journal ELSE v
Evidence == journal \in Terminal

\* Mutant: also an intent that has ended is set to what the journal says.
FinalizeFromJournal_Anyhow == intent' = Unclaimed(journal)

\* finalize_from_journal: whoever has claimed the intent.
FinalizeFromJournal ==
  intent' = IF intent.state \in Open THEN Unclaimed(journal) ELSE intent

\* A terminal record finishes the intent, if the lease is still held; the intent
\* is known to exist.
Replay(w) ==
  /\ stage[w] = "replay"
  /\ IF Evidence
     THEN /\ LeaseUnlocked
          /\ IF OwnsLease(w)
             THEN FinalizeFromJournal /\ Proceed(w, "unlease")
             ELSE UNCHANGED intent /\ Proceed(w, "claim")
     ELSE UNCHANGED intent /\ Proceed(w, "claim")
  /\ UNCHANGED <<result, others, locals, passes, leaseVars, journal, claimsOf>>

\* journal.begin, with the claim: it may have become terminal meanwhile.
BeginJournal(w) ==
  /\ stage[w] = "begin"
  /\ journal' = Begun
  /\ IF Evidence
     THEN /\ LeaseUnlocked
          /\ IF OwnsLease(w) THEN FinalizeFromJournal ELSE UNCHANGED intent
          /\ Leave(w, "unlease")
     ELSE /\ Proceed(w, "resolve")
          /\ UNCHANGED <<intent, locals>>
  /\ UNCHANGED <<result, others, passes, leaseVars, claimsOf>>

\* The resolver finds out how the call ended, or not.
ResolveJournaled(w) ==
  /\ stage[w] = "resolve" /\ w \in Journalers
  /\ \E v \in Terminal \union {"unknown"} :
       /\ verdict' = [verdict EXCEPT ![w] = v]
       /\ Proceed(w, IF v = "unknown" THEN "giveup" ELSE "record")
  /\ UNCHANGED <<vars, mine, attempts, passes, leaseVars, journal, claimsOf>>

\* Mutant: the lease is not looked at again.
RecordVerdict_Unfenced(w) ==
  /\ stage[w] = "record"
  /\ LeaseUnlocked
  /\ journal' = Recorded(verdict[w])
  /\ Proceed(w, "commit")
  /\ UNCHANGED <<vars, locals, passes, leaseVars, claimsOf>>

\* Under the lease file's lock, from here to CommitVerdict: complete or fail.
RecordVerdict(w) ==
  /\ stage[w] = "record"
  /\ LeaseUnlocked
  /\ OwnsLease(w)
  /\ journal' = Recorded(verdict[w])
  /\ Proceed(w, "commit")
  /\ UNCHANGED <<vars, locals, passes, leaseVars, claimsOf>>

LostLease(w) ==
  /\ stage[w] = "record"
  /\ LeaseUnlocked
  /\ ~ OwnsLease(w)
  /\ GiveBack(w)

\* mark_claimed, with the worker's own verdict; nothing happens to a claim that is
\* lost or has expired.
CommitVerdict(w) ==
  /\ stage[w] = "commit"
  /\ MarkClaimed(mine[w], verdict[w])
  /\ Leave(w, "unlease")
  /\ UNCHANGED <<result, others, passes, leaseVars, journal, claimsOf>>

----------------------------------------------------------------------------
(* ToolIntentRecoveryWorker._recover_one, and reconcile_intent *)

\* One more attempt, unless the lease is lost: then the claim is left as it is.
Attempt(w) ==
  /\ stage[w] = "check"
  /\ LeaseUnlocked
  /\ IF OwnsLease(w)
     THEN /\ attempts' = [attempts EXCEPT ![w] = @ + 1]
          /\ Proceed(w, "lookup")
          /\ UNCHANGED <<mine, verdict>>
     ELSE Leave(w, "unlease")
  /\ UNCHANGED <<vars, passes, leaseVars, journal, claimsOf>>

\* A stored result is the verdict.
LookUpStored(w) ==
  /\ stage[w] = "lookup"
  /\ IF result # "none"
     THEN verdict' = [verdict EXCEPT ![w] = result] /\ Proceed(w, "mark")
     ELSE Proceed(w, "resolve") /\ UNCHANGED verdict
  /\ UNCHANGED <<vars, mine, attempts, passes, leaseVars, journal, claimsOf>>

\* The resolver returns a result, or None, or raises.
ResolveStored(w) ==
  /\ stage[w] = "resolve" /\ w \in Reconcilers
  /\ \E v \in Terminal \union {"unknown"} :
       /\ verdict' = [verdict EXCEPT ![w] = v]
       /\ Proceed(w, IF v \in Terminal THEN "put"
                     ELSE IF attempts[w] < MaxAttempts THEN "check" ELSE "giveup")
  /\ UNCHANGED <<vars, mine, attempts, passes, leaseVars, journal, claimsOf>>

\* Mutant: the result replaces one that is there.
PutVerdict_Over(w) ==
  /\ stage[w] = "put"
  /\ result' = verdict[w]
  /\ Proceed(w, "mark")
  /\ UNCHANGED <<intent, others, locals, passes, leaseVars, journal, claimsOf>>

\* put_if_absent; the worker goes on with its own verdict, whatever is stored.
PutVerdict(w) ==
  /\ stage[w] = "put"
  /\ result' = FirstResult(verdict[w])
  /\ Proceed(w, "mark")
  /\ UNCHANGED <<intent, others, locals, passes, leaseVars, journal, claimsOf>>

MarkVerdict(w) ==
  /\ stage[w] = "mark"
  /\ MarkClaimed(mine[w], verdict[w])
  /\ Leave(w, "unlease")
  /\ UNCHANGED <<result, others, passes, leaseVars, journal, claimsOf>>

\* _renew_loop, in the background while the reconciler waits.
RenewClaim(w) ==
  /\ w \in Reconcilers
  /\ stage[w] \in {"check", "lookup", "resolve", "put", "mark", "giveup"}
  /\ CanMark(mine[w])
  /\ intent' = [intent EXCEPT !.ttl = ClaimTtl]
  /\ UNCHANGED <<result, others, workerVars, leaseVars, journal, claimsOf>>

----------------------------------------------------------------------------
(* Both *)

\* No verdict: the claim is given back.
GiveUp(w) == stage[w] = "giveup" /\ GiveBack(w)

\* A journaling worker's resolver raises, or a reconciler is cancelled: the claim
\* is left as it is.
BreakOffRecovery(w) ==
  /\ stage[w] = "resolve"
  /\ Leave(w, "unlease")
  /\ UNCHANGED <<vars, passes, leaseVars, journal, claimsOf>>

LeaseTick ==
  /\ Leases!Tick
  /\ UNCHANGED <<vars, workerVars, journal, claimsOf>>

\* A worker's process ends; a lock it holds is dropped.
CrashWorker(w) ==
  /\ stage[w] # "idle"
  /\ crashes < MaxCrashes
  /\ crashes' = crashes + 1
  /\ Leave(w, "idle")
  /\ UNCHANGED <<stores, pc, claim, outcome, cache, told, claims, performed, lapsed, passes,
                 leaseVars, journal, claimsOf>>

Recover(w) ==
  \/ TakePending(w) \/ AcquireLease(w) \/ SkippedByLease(w)
  \/ ClaimForRecovery(w) \/ SkippedByClaim(w) \/ GiveUp(w) \/ BreakOffRecovery(w)
  \/ Replay(w) \/ BeginJournal(w) \/ ResolveJournaled(w)
  \/ RecordVerdict(w) \/ LostLease(w) \/ CommitVerdict(w)
  \/ Attempt(w) \/ LookUpStored(w) \/ ResolveStored(w) \/ PutVerdict(w) \/ MarkVerdict(w)
  \/ RenewClaim(w) \/ ReleaseLease(w)

Execute == Next /\ UNCHANGED <<workerVars, leaseVars, journal, claimsOf>>

RecoveryNext == Execute \/ LeaseTick \/ \E w \in Workers : Recover(w) \/ CrashWorker(w)

RecoverySpec == RecoveryInit /\ [][RecoveryNext]_recoveryVars

----------------------------------------------------------------------------
(* Properties *)

\* RecoveryPolicy.decide_evidence: intents are finished from durable terminal
\* evidence only.  When a journaling worker ends an intent, the journal says the
\* same, also if it did so from its own verdict, while other workers with the same
\* or other leases were about to journal theirs.
EndedAsJournaled ==
  [][\A w \in Journalers :
       stage'[w] # stage[w] /\ intent.state \in Open /\ intent'.state \in Terminal
         => journal' = intent'.state]_recoveryVars

\* Two workers never both find that they have a lease, whatever their owner ids are.
OneWorkerAtALease ==
  \A v, w \in Workers :
    v # w /\ LeaseKey(v) = LeaseKey(w) => ~ (OwnsLease(v) /\ OwnsLease(w))

=============================================================================
