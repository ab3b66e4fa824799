---------------------------- MODULE ToolBoundary ----------------------------
(***************************************************************************)
(* ToolExecutor.execute of runtime/tool_executor.py, with the crash-safe   *)
(* boundary of runtime/execution_boundary.py, for executors that were      *)
(* given both durable stores, and for one call (one tool, its arguments    *)
(* and call id) under one idempotency key, made again and again.           *)
(*                                                                         *)
(* An executor is a ToolExecutor object in some process.  Its calls for    *)
(* one key wait for each other (an asyncio lock per key), so it has one    *)
(* under way at a time; those of other executors interleave with it        *)
(* between any two operations on the stores, and for as long as the tool   *)
(* is awaited.                                                             *)
(***************************************************************************)
EXTENDS ToolIntents

CONSTANTS
  Executors,
  MaxClaims,   \* bound: claims
  MaxCrashes   \* bound: crashes

ASSUME BoundaryAssumption == MaxClaims \in Nat /\ MaxCrashes \in Nat

VARIABLES
  pc,        \* where each executor's call has got to
  claim,     \* the claim token it carries; 0 before it has one
  outcome,   \* what it has got from the tool so far
  cache,     \* the result each executor keeps in memory, or "none"
  told,      \* history: what its last call was answered, "nothing" if it raised
  claims,    \* tokens made up so far
  crashes,   \* crashes so far
  performed, \* history: claims under which the tool has had its effect
  lapsed     \* history: claims that expired or were given back

vars == <<intent, result, pc, claim, outcome, cache, told, claims, crashes,
          performed, lapsed>>

Stages == {"idle", "prepare", "claim", "run", "performed", "store", "mark", "release"}

\* A call that ends without an outcome that counts.
Inconclusive == {"ambiguous", "retryable", "cancelled"}

TypeOK ==
  /\ IntentTypeOK
  /\ pc \in [Executors -> Stages]
  /\ claim \in [Executors -> Nat]
  /\ outcome \in [Executors -> Terminal \union Inconclusive \union {"none"}]
  /\ cache \in [Executors -> Terminal \union {"ambiguous", "retryable", "none"}]
  /\ told \in [Executors -> Terminal \union {"nothing", "ambiguous", "retryable", "busy"}]
  /\ claims \in Nat
  /\ crashes \in Nat
  /\ performed \subseteq Nat
  /\ lapsed \subseteq Nat

Goto(x, stage) == pc' = [pc EXCEPT ![x] = stage]
Got(x, value) == outcome' = [outcome EXCEPT ![x] = value]
Cache(x, value) == cache' = [cache EXCEPT ![x] = value]

\* The call returns, or raises, and its locals are gone.
End(x, answer) ==
  /\ Goto(x, "idle")
  /\ Got(x, "none")
  /\ claim' = [claim EXCEPT ![x] = 0]
  /\ told' = [told EXCEPT ![x] = answer]

stores == <<intent, result>>
history == <<claims, crashes, performed, lapsed>>

----------------------------------------------------------------------------
Init ==
  /\ IntentInit
  /\ pc = [x \in Executors |-> "idle"]
  /\ claim = [x \in Executors |-> 0]
  /\ outcome = [x \in Executors |-> "none"]
  /\ cache = [x \in Executors |-> "none"]
  /\ told = [x \in Executors |-> "nothing"]
  /\ claims = 0
  /\ crashes = 0
  /\ performed = {}
  /\ lapsed = {}

\* A call that this process has an answer to in memory.
AnswerFromCache(x) ==
  /\ pc[x] = "idle"
  /\ cache[x] \notin {"none", "retryable"}
  /\ End(x, cache[x])
  /\ UNCHANGED <<stores, cache, history>>

\* Otherwise the registry of results is asked.
LookUp(x) ==
  /\ pc[x] = "idle"
  /\ cache[x] \in {"none", "retryable"}
  /\ IF result # "none"
     THEN Cache(x, result) /\ End(x, result)
     ELSE /\ Goto(x, "prepare")
          /\ told' = [told EXCEPT ![x] = "nothing"]
          /\ UNCHANGED <<claim, outcome, cache>>
  /\ UNCHANGED <<stores, history>>

Prepare(x) ==
  /\ pc[x] = "prepare"
  /\ PrepareIntent
  /\ Goto(x, "claim")
  /\ UNCHANGED <<result, claim, outcome, cache, told, history>>

\* Mutant: a claim is taken whatever is left of the one before it.
Claim_Live(x) ==
  /\ pc[x] = "claim"
  /\ intent.state \in Open
  /\ claims < MaxClaims
  /\ claims' = claims + 1
  /\ ClaimIntent(claims + 1)
  /\ claim' = [claim EXCEPT ![x] = claims + 1]
  /\ Goto(x, "run")
  /\ UNCHANGED <<result, outcome, cache, told, crashes, performed, lapsed>>

\* The intent is claimed, and the tool is called.  The registry is not asked
\* again.
Claim(x) ==
  /\ pc[x] = "claim"
  /\ Claimable
  /\ claims < MaxClaims
  /\ claims' = claims + 1
  /\ ClaimIntent(claims + 1)
  /\ claim' = [claim EXCEPT ![x] = claims + 1]
  /\ Goto(x, "run")
  /\ UNCHANGED <<result, outcome, cache, told, crashes, performed, lapsed>>

\* The claim is refused: a terminal intent's result is the answer, if there is
\* one, and else a failure that is not remembered.  (The intent and the result
\* are read one after the other; neither changes any more once it is terminal.)
Refused(x) ==
  /\ pc[x] = "claim"
  /\ ~ Claimable
  /\ IF intent.state \in Terminal /\ result # "none"
     THEN Cache(x, result) /\ End(x, result)
     ELSE End(x, "busy") /\ UNCHANGED cache
  /\ UNCHANGED <<stores, history>>

----------------------------------------------------------------------------
(* _execute_once: the tool is awaited *)

\* The effect in the world.
Perform(x) ==
  /\ pc[x] = "run"
  /\ performed' = performed \union {claim[x]}
  /\ Goto(x, "performed")
  /\ UNCHANGED <<stores, claim, outcome, cache, told, claims, crashes, lapsed>>

\* The tool returns a value, or a ToolResult of its own that says it failed.
Conclude(x) ==
  /\ pc[x] = "performed"
  /\ \E value \in Terminal : Got(x, value)
  /\ Goto(x, "store")
  /\ UNCHANGED <<stores, claim, cache, told, history>>

\* It times out, raises, or the call is cancelled, before its effect or after.
BreakOff(x) ==
  /\ pc[x] \in {"run", "performed"}
  /\ \E value \in Inconclusive : Got(x, value)
  /\ Goto(x, "release")
  /\ UNCHANGED <<stores, claim, cache, told, history>>

\* Permission or boundary errors leave the claim as it is.
Deny(x) ==
  /\ pc[x] = "run"
  /\ End(x, "nothing")
  /\ UNCHANGED <<stores, cache, history>>

\* Mutant: a cancelled call is remembered like the others.
Release_CachesCancel(x) ==
  /\ pc[x] = "release"
  /\ ReleaseClaim(claim[x])
  /\ lapsed' = lapsed \union {claim[x]}
  /\ Cache(x, outcome[x])
  /\ End(x, IF outcome[x] = "cancelled" THEN "nothing" ELSE outcome[x])
  /\ UNCHANGED <<result, claims, crashes, performed>>

\* The claim is given back; a cancelled call raises and remembers nothing.
Release(x) ==
  /\ pc[x] = "release"
  /\ ReleaseClaim(claim[x])
  /\ lapsed' = lapsed \union {claim[x]}
  /\ IF outcome[x] = "cancelled"
     THEN End(x, "nothing") /\ UNCHANGED cache
     ELSE End(x, outcome[x]) /\ Cache(x, outcome[x])
  /\ UNCHANGED <<result, claims, crashes, performed>>

----------------------------------------------------------------------------
(* ExecutionBoundary.commit: the result first, then the intent *)

\* Mutant: the call goes on with its own outcome, whatever is stored.
Store_Own(x) ==
  /\ pc[x] = "store"
  /\ result' = FirstResult(outcome[x])
  /\ Goto(x, "mark")
  /\ UNCHANGED <<intent, claim, outcome, cache, told, history>>

\* Mutant: the result is stored after the intent, if at all.
Store_Later(x) ==
  /\ pc[x] = "store"
  /\ Goto(x, "mark")
  /\ UNCHANGED <<stores, claim, outcome, cache, told, history>>

\* put_if_absent: the call goes on with the outcome that is stored.
Store(x) ==
  /\ pc[x] = "store"
  /\ result' = FirstResult(outcome[x])
  /\ Got(x, FirstResult(outcome[x]))
  /\ Goto(x, "mark")
  /\ UNCHANGED <<intent, claim, cache, told, history>>

\* mark_claimed; without a live claim the answer is called ambiguous, and kept.
Mark(x) ==
  /\ pc[x] = "mark"
  /\ MarkClaimed(claim[x], outcome[x])
  /\ LET answer == IF CanMark(claim[x]) THEN outcome[x] ELSE "ambiguous"
     IN  Cache(x, answer) /\ End(x, answer)
  /\ UNCHANGED <<result, history>>

----------------------------------------------------------------------------
(* Time and crashes *)

\* A claim is not renewed while the tool runs.
Tick ==
  /\ intent.ttl > 0
  /\ intent' = [intent EXCEPT !.ttl = @ - 1]
  /\ lapsed' = IF intent.ttl = 1 THEN lapsed \union {intent.token} ELSE lapsed
  /\ UNCHANGED <<result, pc, claim, outcome, cache, told, claims, crashes, performed>>

\* The process ends at any point, and its memory with it.
Crash(x) ==
  /\ crashes < MaxCrashes
  /\ crashes' = crashes + 1
  /\ End(x, "nothing")
  /\ Cache(x, "none")
  /\ UNCHANGED <<stores, claims, performed, lapsed>>

Step(x) ==
  \/ AnswerFromCache(x) \/ LookUp(x) \/ Prepare(x) \/ Claim(x) \/ Refused(x)
  \/ Perform(x) \/ Conclude(x) \/ BreakOff(x) \/ Deny(x) \/ Release(x)
  \/ Store(x) \/ Mark(x)

Next == Tick \/ \E x \in Executors : Step(x) \/ Crash(x)

Spec == Init /\ [][Next]_vars

----------------------------------------------------------------------------
(* Properties *)

\* The docstring of execution_boundary.py: durable result first, then the
\* terminal intent.  A terminal intent has a result, and it says the same,
\* also when several claimants have run the tool with different outcomes.
TerminalHasResult == intent.state \in Terminal => result = intent.state

\* A late claimant cannot undo or change how an intent ended.
TerminalIsFinal == [][intent.state \in Terminal => intent' = intent]_vars

\* The tool has its effect a second time only after the claim it had it under
\* before has lapsed: no two calls share a claim, and none is taken over alive.
RepeatedOnlyAfterLapse ==
  \A c, d \in performed : c < d => c \in lapsed

\* Whoever is told an outcome, by the tool, the registry or its own memory, is
\* told the first one that was stored.
Promise == INSTANCE FirstOutcome WITH Callers <- Executors, outcome <- result

ImplementsFirstOutcome == Promise!Spec

=============================================================================
