----------------------------- MODULE ToolIntents -----------------------------
(***************************************************************************)
(* The intent ledger of runtime/tool_intent_store.py and the registry of   *)
(* results of runtime/tool_idempotency_store.py, for one idempotency key:  *)
(* every operation of either store reads and writes the entry of its key   *)
(* only, under the store's file lock, so it is one step.                   *)
(*                                                                         *)
(* A claim is known by its token, which is made up anew for each claim;    *)
(* tokens are numbered in the order of the claims.  Time is a countdown:   *)
(* ttl is what is left until claim_expires_at.                             *)
(***************************************************************************)
EXTENDS Naturals

CONSTANT ClaimTtl  \* how long a claim lasts

ASSUME IntentAssumption == ClaimTtl \in Nat \ {0}

VARIABLES
  intent,  \* the key's entry in the intent ledger
  result   \* its entry in the registry of results: how the tool call ended

\* AMBIGUOUS_STATES and the rest of VALID_STATES.
Open == {"prepared", "executing", "ambiguous"}
Terminal == {"completed", "failed"}

\* token 0: nobody has claimed the intent.
Intent == [state : Open \union Terminal \union {"absent"}, token : Nat, ttl : 0..ClaimTtl]

IntentTypeOK ==
  /\ intent \in Intent
  /\ result \in Terminal \union {"none"}

Unclaimed(state) == [state |-> state, token |-> 0, ttl |-> 0]

IntentInit == intent = Unclaimed("absent") /\ result = "none"

----------------------------------------------------------------------------
(* ToolIntentStore *)

PrepareIntent ==
  intent' = IF intent.state = "absent" THEN Unclaimed("prepared") ELSE intent

\* claim(key, owner, token) goes through for an owner that has no claim on the
\* intent; callers of execute() present an owner id of their own each time.
Claimable == intent.state \in Open /\ (intent.token = 0 \/ intent.ttl = 0)

ClaimIntent(c) ==
  intent' = [state |-> "executing", token |-> c, ttl |-> ClaimTtl]

\* owner_id and claim_token of the entry are those of claim c.
HoldsClaim(c) == c # 0 /\ intent.token = c

\* Mutant: whoever releases, the claim is gone.
ReleaseClaim_Any(c) == intent' = Unclaimed("ambiguous")

\* release_claim: expiry is not asked about.
ReleaseClaim(c) ==
  intent' = IF HoldsClaim(c) THEN Unclaimed("ambiguous") ELSE intent

\* mark_claimed succeeds, on a claim that is held and has not expired.
CanMark(c) == HoldsClaim(c) /\ intent.ttl > 0

MarkClaimed(c, state) ==
  intent' = IF CanMark(c) THEN Unclaimed(state) ELSE intent

----------------------------------------------------------------------------
(* ToolIdempotencyStore *)

\* What put_if_absent returns, and stores.
FirstResult(outcome) == IF result = "none" THEN outcome ELSE result

=============================================================================
