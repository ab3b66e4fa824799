------------------------- MODULE ToolBoundary_proofs -------------------------
(***************************************************************************)
(* Proofs about the tool boundary: for any number of executors and of      *)
(* calls, any length of a claim, and however often claims run out; first   *)
(* of the executors alone (Spec), then with any number of recovery workers *)
(* of both kinds next to them (RecoverySpec).                              *)
(***************************************************************************)
EXTENDS IntentRecovery, TLAPS

----------------------------------------------------------------------------
(* The inductive invariant *)

\* Only an intent that is executing is claimed.
OnlyExecutingIsClaimed ==
  intent.state # "executing" => intent.token = 0 /\ intent.ttl = 0

\* A call has a claim from the time it calls the tool, and what it is to store
\* or to give back.
CallsHaveClaims ==
  \A x \in Executors :
    /\ pc[x] \in {"run", "performed", "store", "mark", "release"} => claim[x] # 0
    /\ pc[x] = "store" => outcome[x] \in Terminal
    /\ pc[x] = "release" => outcome[x] \in Inconclusive
    /\ pc[x] = "mark" => outcome[x] = result /\ result # "none"

\* Tokens are made up one after the other.
TokensWereIssued ==
  /\ intent.token <= claims
  /\ \A x \in Executors : claim[x] <= claims
  /\ \A c \in performed : 0 < c /\ c <= claims

\* Of the claims there have been, the newest alone can be alive.
OlderClaimsLapsed ==
  /\ \A c \in Nat : 0 < c /\ c < claims => c \in lapsed
  /\ \/ claims = 0
     \/ claims \in lapsed
     \/ intent.token = claims /\ intent.ttl > 0
     \/ intent.state \in Terminal

\* What is remembered and what was answered is what is stored.
OneOutcome ==
  \A x \in Executors :
    /\ cache[x] \in Terminal => cache[x] = result
    /\ told[x] \in Terminal => told[x] = result

\* What holds whoever else uses the two stores.
CallInv ==
  /\ TypeOK
  /\ OnlyExecutingIsClaimed
  /\ CallsHaveClaims
  /\ OneOutcome

IInv ==
  /\ CallInv
  /\ TokensWereIssued
  /\ OlderClaimsLapsed
  /\ TerminalHasResult

----------------------------------------------------------------------------
(* The parts of a step *)

\* What the end of a call does to the locals.
LEMMA EndOfCall ==
  ASSUME TypeOK, NEW x \in Executors,
         NEW answer \in Terminal \union {"nothing", "ambiguous", "retryable", "busy"},
         End(x, answer)
  PROVE  /\ pc' \in [Executors -> Stages]
         /\ claim' \in [Executors -> Nat]
         /\ outcome' \in [Executors -> Terminal \union Inconclusive \union {"none"}]
         /\ told' \in [Executors -> Terminal \union {"nothing", "ambiguous", "retryable", "busy"}]
         /\ pc'[x] = "idle" /\ claim'[x] = 0 /\ told'[x] = answer
         /\ \A y \in Executors \ {x} :
              /\ pc'[y] = pc[y] /\ claim'[y] = claim[y]
              /\ outcome'[y] = outcome[y] /\ told'[y] = told[y]
  BY DEF End, Goto, Got, TypeOK, Stages

\* The initial state satisfies the invariant.
LEMMA InvInit == Init => IInv
  BY IntentAssumption
  DEF Init, IntentInit, Unclaimed, IInv, CallInv, TypeOK, IntentTypeOK, Intent, Open, Terminal,
      Stages, OnlyExecutingIsClaimed, CallsHaveClaims, TokensWereIssued,
      OlderClaimsLapsed, OneOutcome, TerminalHasResult

\* Every action keeps the types, and the answers given are among those there are.
LEMMA TypeStep ==
  ASSUME CallInv, [Next]_vars
  PROVE  TypeOK'
<1> USE IntentAssumption DEF CallInv, stores, history, Goto, Got, Cache, Terminal, Inconclusive
<1>1. ASSUME NEW x \in Executors, AnswerFromCache(x)
      PROVE  TypeOK'
  <2>1. cache[x] \in Terminal \union {"ambiguous"}
    BY <1>1 DEF AnswerFromCache, TypeOK
  <2> QED
    BY <1>1, <2>1, EndOfCall DEF AnswerFromCache, TypeOK, IntentTypeOK
<1>2. ASSUME NEW x \in Executors, LookUp(x)
      PROVE  TypeOK'
  <2>1. CASE result # "none"
    <3>1. result \in Terminal
      BY <2>1 DEF TypeOK, IntentTypeOK
    <3> QED
      BY <1>2, <2>1, <3>1, EndOfCall DEF LookUp, TypeOK, IntentTypeOK
  <2>2. CASE result = "none"
    BY <1>2, <2>2 DEF LookUp, TypeOK, IntentTypeOK, Stages
  <2> QED
    BY <2>1, <2>2
<1>3. ASSUME NEW x \in Executors, Prepare(x)
      PROVE  TypeOK'
  BY <1>3 DEF Prepare, PrepareIntent, Unclaimed, TypeOK, IntentTypeOK, Intent, Open, Stages
<1>4. ASSUME NEW x \in Executors, Claim(x)
      PROVE  TypeOK'
  BY <1>4 DEF Claim, ClaimIntent, TypeOK, IntentTypeOK, Intent, Open, Stages
<1>5. ASSUME NEW x \in Executors, Refused(x)
      PROVE  TypeOK'
  <2>1. CASE intent.state \in Terminal /\ result # "none"
    <3>1. result \in Terminal
      BY <2>1 DEF TypeOK, IntentTypeOK
    <3> QED
      BY <1>5, <2>1, <3>1, EndOfCall DEF Refused, TypeOK, IntentTypeOK
  <2>2. CASE ~ (intent.state \in Terminal /\ result # "none")
    BY <1>5, <2>2, EndOfCall DEF Refused, TypeOK, IntentTypeOK
  <2> QED
    BY <2>1, <2>2
<1>6. ASSUME NEW x \in Executors, Perform(x)
      PROVE  TypeOK'
  BY <1>6 DEF Perform, TypeOK, IntentTypeOK, Stages
<1>7. ASSUME NEW x \in Executors, Conclude(x)
      PROVE  TypeOK'
  BY <1>7 DEF Conclude, TypeOK, IntentTypeOK, Stages
<1>8. ASSUME NEW x \in Executors, BreakOff(x)
      PROVE  TypeOK'
  BY <1>8 DEF BreakOff, TypeOK, IntentTypeOK, Stages
<1>9. ASSUME NEW x \in Executors, Deny(x)
      PROVE  TypeOK'
  BY <1>9, EndOfCall DEF Deny, TypeOK, IntentTypeOK
<1>10. ASSUME NEW x \in Executors, Release(x)
       PROVE  TypeOK'
  <2>1. intent' \in Intent
    BY <1>10 DEF Release, ReleaseClaim, Unclaimed, TypeOK, IntentTypeOK, Intent, Open
  <2>2. outcome[x] \in Inconclusive
    BY <1>10 DEF Release, CallsHaveClaims
  <2>3. lapsed' \subseteq Nat
    <3>1. claim[x] \in Nat /\ lapsed \subseteq Nat
      BY DEF TypeOK
    <3>2. lapsed' = lapsed \union {claim[x]}
      BY <1>10 DEF Release
    <3> QED
      BY <3>1, <3>2
  <2>4. CASE outcome[x] = "cancelled"
    BY <1>10, <2>1, <2>3, <2>4, EndOfCall DEF Release, TypeOK, IntentTypeOK
  <2>5. CASE outcome[x] # "cancelled"
    BY <1>10, <2>1, <2>2, <2>3, <2>5, EndOfCall DEF Release, TypeOK, IntentTypeOK
  <2> QED
    BY <2>4, <2>5
<1>11. ASSUME NEW x \in Executors, Store(x)
       PROVE  TypeOK'
  <2>1. FirstResult(outcome[x]) \in Terminal
    BY <1>11 DEF Store, FirstResult, CallsHaveClaims, TypeOK, IntentTypeOK
  <2> QED
    BY <1>11, <2>1 DEF Store, TypeOK, IntentTypeOK, Stages
<1>12. ASSUME NEW x \in Executors, Mark(x)
       PROVE  TypeOK'
  <2>1. outcome[x] \in Terminal
    BY <1>12 DEF Mark, CallsHaveClaims, TypeOK, IntentTypeOK
  <2>2. intent' \in Intent
    BY <1>12, <2>1 DEF Mark, MarkClaimed, Unclaimed, TypeOK, IntentTypeOK, Intent
  <2> QED
    BY <1>12, <2>1, <2>2, EndOfCall DEF Mark, TypeOK, IntentTypeOK
<1>13. CASE Tick
  <2>1. intent' \in Intent
    BY <1>13 DEF Tick, TypeOK, IntentTypeOK, Intent
  <2> QED
    BY <1>13, <2>1 DEF Tick, TypeOK, IntentTypeOK, Intent
<1>14. ASSUME NEW x \in Executors, Crash(x)
       PROVE  TypeOK'
  BY <1>14, EndOfCall DEF Crash, TypeOK, IntentTypeOK
<1>15. CASE UNCHANGED vars
  BY <1>15 DEF vars, TypeOK, IntentTypeOK
<1> QED
  BY <1>1, <1>2, <1>3, <1>4, <1>5, <1>6, <1>7, <1>8, <1>9, <1>10, <1>11, <1>12, <1>13,
     <1>14, <1>15 DEF Next, Step


\* What the steps do to the intent.
LEMMA IntentSteps ==
  ASSUME CallInv, [Next]_vars
  PROVE  \/ intent' = intent
         \/ /\ intent.state = "absent"
            /\ intent' = Unclaimed("prepared")
         \/ /\ Claimable
            /\ claims' = claims + 1
            /\ ClaimIntent(claims + 1)
         \/ \E x \in Executors :
              /\ Release(x)
              /\ HoldsClaim(claim[x])
              /\ intent' = Unclaimed("ambiguous")
         \/ \E x \in Executors :
              /\ Mark(x)
              /\ CanMark(claim[x])
              /\ outcome[x] = result /\ result \in Terminal
              /\ intent' = Unclaimed(outcome[x])
         \/ Tick
<1>1. ASSUME NEW x \in Executors, Prepare(x)
      PROVE  \/ intent' = intent
             \/ intent.state = "absent" /\ intent' = Unclaimed("prepared")
  BY <1>1 DEF Prepare, PrepareIntent
<1>2. ASSUME NEW x \in Executors, Claim(x)
      PROVE  Claimable /\ claims' = claims + 1 /\ ClaimIntent(claims + 1)
  BY <1>2 DEF Claim
<1>3. ASSUME NEW x \in Executors, Release(x)
      PROVE  \/ intent' = intent
             \/ HoldsClaim(claim[x]) /\ intent' = Unclaimed("ambiguous")
  BY <1>3 DEF Release, ReleaseClaim
<1>4. ASSUME NEW x \in Executors, Mark(x)
      PROVE  \/ intent' = intent
             \/ /\ CanMark(claim[x])
                /\ outcome[x] = result /\ result \in Terminal
                /\ intent' = Unclaimed(outcome[x])
  BY <1>4 DEF Mark, MarkClaimed, CallInv, TypeOK, IntentTypeOK, CallsHaveClaims
<1>5. ASSUME NEW x \in Executors,
             \/ AnswerFromCache(x) \/ LookUp(x) \/ Refused(x) \/ Perform(x) \/ Conclude(x)
             \/ BreakOff(x) \/ Deny(x) \/ Store(x) \/ Crash(x)
      PROVE  intent' = intent
  BY <1>5 DEF AnswerFromCache, LookUp, Refused, Perform, Conclude, BreakOff, Deny, Store,
     Crash, stores
<1>6. CASE UNCHANGED vars
  BY <1>6 DEF vars
<1> QED
  BY <1>1, <1>2, <1>3, <1>4, <1>5, <1>6 DEF Next, Step

\* A claim is of an intent that is executing, before and after each step.
LEMMA ClaimedStep ==
  ASSUME CallInv, [Next]_vars
  PROVE  OnlyExecutingIsClaimed'
<1>1. CASE Tick
  BY <1>1 DEF Tick, CallInv, OnlyExecutingIsClaimed, TypeOK, IntentTypeOK, Intent
<1> QED
  BY <1>1, IntentSteps DEF CallInv, OnlyExecutingIsClaimed, Unclaimed, ClaimIntent

\* The result is stored once, and stays.
LEMMA ResultSteps ==
  ASSUME CallInv, [Next]_vars
  PROVE  \/ result' = result
         \/ \E x \in Executors : result = "none" /\ Store(x) /\ result' = outcome[x]
<1>1. ASSUME NEW x \in Executors, Store(x)
      PROVE  result' = result \/ (result = "none" /\ result' = outcome[x])
  BY <1>1 DEF Store, FirstResult
<1>2. ASSUME NEW x \in Executors,
             \/ AnswerFromCache(x) \/ LookUp(x) \/ Prepare(x) \/ Claim(x) \/ Refused(x)
             \/ Perform(x) \/ Conclude(x) \/ BreakOff(x) \/ Deny(x) \/ Release(x) \/ Mark(x)
             \/ Crash(x)
      PROVE  result' = result
  BY <1>2 DEF AnswerFromCache, LookUp, Prepare, Claim, Refused, Perform, Conclude, BreakOff,
     Deny, Release, Mark, Crash, stores
<1>3. CASE Tick \/ UNCHANGED vars
  BY <1>3 DEF Tick, vars
<1> QED
  BY <1>1, <1>2, <1>3 DEF Next, Step

\* A terminal intent is marked with the stored result, which stays.
LEMMA ResultFirstStep ==
  ASSUME IInv, [Next]_vars
  PROVE  TerminalHasResult'
<1>1. result # "none" => result' = result
  BY ResultSteps DEF IInv
<1>2. CASE Tick
  BY <1>2 DEF Tick, IInv, CallInv, TerminalHasResult, OnlyExecutingIsClaimed, TypeOK, IntentTypeOK,
     Intent, Terminal
<1>3. ASSUME NEW x \in Executors, outcome[x] = result, result \in Terminal,
             intent' = Unclaimed(outcome[x])
      PROVE  TerminalHasResult'
  BY <1>1, <1>3 DEF Unclaimed, TerminalHasResult, Terminal
<1>4. CASE intent' = intent
  BY <1>1, <1>4 DEF IInv, CallInv, TerminalHasResult, Terminal
<1>5. CASE intent'.state \in {"prepared", "executing", "ambiguous"}
  BY <1>5 DEF TerminalHasResult, Terminal
<1> QED
  BY <1>2, <1>3, <1>4, <1>5, IntentSteps DEF IInv, Unclaimed, ClaimIntent

\* Calls get a token with the claim and lose it as they end.
LEMMA CallsStep ==
  ASSUME CallInv, [Next]_vars
  PROVE  CallsHaveClaims'
<1> USE DEF CallInv, CallsHaveClaims, stores, history, Goto, Got, Cache
<1>0. result # "none" => result' = result
  BY ResultSteps
<1>1. ASSUME NEW x \in Executors, NEW answer,
             answer \in Terminal \union {"nothing", "ambiguous", "retryable", "busy"},
             End(x, answer)
      PROVE  CallsHaveClaims'
  BY <1>0, <1>1, EndOfCall
<1>2. ASSUME NEW x \in Executors, Prepare(x)
      PROVE  CallsHaveClaims'
  BY <1>2 DEF Prepare, TypeOK
<1>3. ASSUME NEW x \in Executors, Claim(x)
      PROVE  CallsHaveClaims'
  BY <1>3 DEF Claim, TypeOK
<1>4. ASSUME NEW x \in Executors, Perform(x)
      PROVE  CallsHaveClaims'
  BY <1>4 DEF Perform, TypeOK
<1>5. ASSUME NEW x \in Executors, Conclude(x)
      PROVE  CallsHaveClaims'
  BY <1>5 DEF Conclude, TypeOK
<1>6. ASSUME NEW x \in Executors, BreakOff(x)
      PROVE  CallsHaveClaims'
  BY <1>6 DEF BreakOff, TypeOK
<1>7. ASSUME NEW x \in Executors, Store(x)
      PROVE  CallsHaveClaims'
  <2>1. outcome[x] \in Terminal /\ claim[x] # 0
    BY <1>7 DEF Store
  <2> QED
    BY <1>0, <1>7, <2>1 DEF Store, FirstResult, TypeOK, Terminal
<1>8. ASSUME NEW x \in Executors, LookUp(x), result = "none"
      PROVE  CallsHaveClaims'
  BY <1>8 DEF LookUp, TypeOK
<1>9. CASE Tick \/ UNCHANGED vars
  BY <1>9 DEF Tick, vars
<1>10. ASSUME NEW x \in Executors,
              \/ AnswerFromCache(x) \/ (LookUp(x) /\ result # "none") \/ Refused(x) \/ Deny(x)
              \/ Release(x) \/ Mark(x) \/ Crash(x)
       PROVE  \E answer \in Terminal \union {"nothing", "ambiguous", "retryable", "busy"} :
                End(x, answer)
  <2>1. CASE AnswerFromCache(x)
    BY <2>1 DEF AnswerFromCache, TypeOK
  <2>2. CASE LookUp(x) /\ result # "none"
    BY <2>2 DEF LookUp, TypeOK, IntentTypeOK
  <2>3. CASE Refused(x)
    BY <2>3 DEF Refused, TypeOK, IntentTypeOK
  <2>4. CASE Deny(x) \/ Crash(x)
    BY <2>4 DEF Deny, Crash
  <2>5. CASE Release(x)
    BY <2>5 DEF Release, Inconclusive
  <2>6. CASE Mark(x)
    BY <2>6 DEF Mark, TypeOK, IntentTypeOK
  <2> QED
    BY <1>10, <2>1, <2>2, <2>3, <2>4, <2>5, <2>6
<1> QED
  BY <1>1, <1>2, <1>3, <1>4, <1>5, <1>6, <1>7, <1>8, <1>9, <1>10 DEF Next, Step

\* What the steps do to the history of the claims.
LEMMA HistorySteps ==
  ASSUME IInv, [Next]_vars
  PROVE  /\ lapsed \subseteq lapsed'
         /\ \/ claims' = claims
            \/ /\ Claimable
               /\ claims' = claims + 1
               /\ ClaimIntent(claims + 1)
         /\ \/ performed' = performed
            \/ \E x \in Executors : Perform(x) /\ performed' = performed \union {claim[x]}
<1>1. ASSUME NEW x \in Executors, Claim(x)
      PROVE  /\ lapsed' = lapsed /\ performed' = performed
             /\ Claimable /\ claims' = claims + 1 /\ ClaimIntent(claims + 1)
  BY <1>1 DEF Claim
<1>2. ASSUME NEW x \in Executors, Perform(x)
      PROVE  /\ lapsed' = lapsed /\ claims' = claims
             /\ performed' = performed \union {claim[x]}
  BY <1>2 DEF Perform
<1>3. ASSUME NEW x \in Executors, Release(x)
      PROVE  /\ lapsed \subseteq lapsed' /\ claims' = claims
             /\ performed' = performed
  BY <1>3 DEF Release
<1>4. ASSUME NEW x \in Executors,
             \/ AnswerFromCache(x) \/ LookUp(x) \/ Prepare(x) \/ Refused(x) \/ Conclude(x)
             \/ BreakOff(x) \/ Deny(x) \/ Store(x) \/ Mark(x) \/ Crash(x)
      PROVE  lapsed' = lapsed /\ claims' = claims /\ performed' = performed
  BY <1>4 DEF AnswerFromCache, LookUp, Prepare, Refused, Conclude, BreakOff, Deny, Store,
     Mark, Crash, history
<1>5. CASE Tick
  BY <1>5 DEF Tick
<1>6. CASE UNCHANGED vars
  BY <1>6 DEF vars
<1> QED
  BY <1>1, <1>2, <1>3, <1>4, <1>5, <1>6 DEF Next, Step

\* A call's token is its claim's or none, and it does not change until it ends.
LEMMA TokenSteps ==
  ASSUME CallInv, [Next]_vars, NEW x \in Executors
  PROVE  claim'[x] \in {claim[x], 0, claims'}
<1>1. ASSUME NEW y \in Executors, NEW answer, End(y, answer)
      PROVE  claim'[x] \in {claim[x], 0}
  BY <1>1 DEF End, CallInv, TypeOK
<1>2. ASSUME NEW y \in Executors, Claim(y)
      PROVE  claim'[x] \in {claim[x], claims'}
  BY <1>2 DEF Claim, CallInv, TypeOK
<1>3. ASSUME NEW y \in Executors, LookUp(y)
      PROVE  claim'[x] \in {claim[x], 0}
  <2>1. CASE result # "none"
    BY <1>1, <1>3, <2>1 DEF LookUp
  <2>2. CASE result = "none"
    BY <1>3, <2>2 DEF LookUp
  <2> QED
    BY <2>1, <2>2
<1>4. ASSUME NEW y \in Executors,
             \/ AnswerFromCache(y) \/ Refused(y) \/ Deny(y) \/ Release(y) \/ Mark(y) \/ Crash(y)
      PROVE  \E answer : End(y, answer)
  <2>1. CASE AnswerFromCache(y)
    BY <2>1 DEF AnswerFromCache
  <2>2. CASE Refused(y)
    BY <2>2 DEF Refused
  <2>3. CASE Deny(y)
    BY <2>3 DEF Deny
  <2>4. CASE Release(y)
    BY <2>4 DEF Release
  <2>5. CASE Mark(y)
    BY <2>5 DEF Mark
  <2>6. CASE Crash(y)
    BY <2>6 DEF Crash
  <2> QED
    BY <1>4, <2>1, <2>2, <2>3, <2>4, <2>5, <2>6
<1>5. ASSUME NEW y \in Executors,
             Prepare(y) \/ Perform(y) \/ Conclude(y) \/ BreakOff(y) \/ Store(y)
      PROVE  claim' = claim
  BY <1>5 DEF Prepare, Perform, Conclude, BreakOff, Store
<1>6. CASE Tick \/ UNCHANGED vars
  BY <1>6 DEF Tick, vars
<1> QED
  BY <1>1, <1>2, <1>3, <1>4, <1>5, <1>6 DEF Next, Step

\* No token is used that was not issued.
LEMMA TokensStep ==
  ASSUME IInv, [Next]_vars
  PROVE  TokensWereIssued'
<1>1. claims \in Nat /\ claims' \in Nat /\ claims <= claims'
  BY HistorySteps DEF IInv, CallInv, TypeOK
<1>2. intent'.token <= claims'
  <2>1. CASE Tick
    BY <1>1, <2>1 DEF Tick, IInv, CallInv, TypeOK, IntentTypeOK, Intent, TokensWereIssued
  <2> QED
    BY <1>1, <2>1, IntentSteps
    DEF IInv, CallInv, TypeOK, IntentTypeOK, Intent, TokensWereIssued, Unclaimed, ClaimIntent
<1>3. ASSUME NEW x \in Executors
      PROVE  claim'[x] <= claims'
  <2>1. claim[x] \in Nat /\ claim[x] <= claims
    BY DEF IInv, CallInv, TypeOK, TokensWereIssued
  <2> QED
    BY <1>1, <2>1, TokenSteps DEF IInv
<1>4. ASSUME NEW c \in performed'
      PROVE  0 < c /\ c <= claims'
  <2>1. CASE c \in performed
    BY <1>1, <2>1 DEF IInv, CallInv, TypeOK, TokensWereIssued
  <2>2. ASSUME NEW x \in Executors, Perform(x), c = claim[x]
        PROVE  0 < c /\ c <= claims'
    BY <1>1, <2>2 DEF Perform, IInv, CallInv, TypeOK, CallsHaveClaims, TokensWereIssued
  <2> QED
    BY <2>1, <2>2, HistorySteps
<1> QED
  BY <1>2, <1>3, <1>4 DEF TokensWereIssued

\* A claim is issued after the one before it has lapsed, or has been marked.
LEMMA LapseStep ==
  ASSUME IInv, [Next]_vars
  PROVE  OlderClaimsLapsed'
<1>0. /\ claims \in Nat
      /\ intent.token \in Nat /\ intent.ttl \in Nat
      /\ lapsed \subseteq lapsed'
  BY HistorySteps DEF IInv, CallInv, TypeOK, IntentTypeOK, Intent
<1>1. CASE Claimable /\ claims' = claims + 1 /\ ClaimIntent(claims + 1)
  <2>1. claims = 0 \/ claims \in lapsed
    BY <1>0, <1>1 DEF Claimable, IInv, CallInv, OlderClaimsLapsed, Open, Terminal
  <2>2. ASSUME NEW c \in Nat, 0 < c, c < claims'
        PROVE  c \in lapsed'
    <3>1. c < claims \/ c = claims
      BY <1>0, <1>1, <2>2
    <3> QED
      BY <1>0, <2>1, <2>2, <3>1 DEF IInv, CallInv, OlderClaimsLapsed
  <2>3. intent'.token = claims' /\ intent'.ttl > 0
    BY <1>1, IntentAssumption DEF ClaimIntent
  <2> QED
    BY <2>2, <2>3 DEF OlderClaimsLapsed
<1>2. CASE claims' = claims
  <2>1. \A c \in Nat : 0 < c /\ c < claims' => c \in lapsed'
    BY <1>0, <1>2 DEF IInv, CallInv, OlderClaimsLapsed
  <2>2. CASE intent' = intent
    BY <1>0, <1>2, <2>1, <2>2 DEF IInv, CallInv, OlderClaimsLapsed
  <2>3. CASE intent.state = "absent"
    BY <1>0, <1>2, <2>1, <2>3
    DEF IInv, CallInv, OlderClaimsLapsed, OnlyExecutingIsClaimed, Terminal
  <2>4. ASSUME NEW x \in Executors, Release(x), HoldsClaim(claim[x])
        PROVE  intent.token \in lapsed'
    BY <2>4 DEF Release, HoldsClaim
  <2>5. CASE intent.token \in lapsed' /\ intent'.state = "ambiguous"
    <3>1. intent.state \in Terminal => intent.ttl = 0 /\ intent.token = 0
      BY DEF IInv, CallInv, OnlyExecutingIsClaimed, Terminal
    <3>2. CASE intent.state \in Terminal
      BY <1>0, <1>2, <2>1, <2>5, <3>1, <3>2, IntentSteps
      DEF IInv, OlderClaimsLapsed, HoldsClaim, CanMark, Unclaimed, Claimable, Open, Terminal,
          Tick
    <3>3. CASE intent.state \notin Terminal
      BY <1>0, <1>2, <2>1, <2>5, <3>3 DEF IInv, CallInv, OlderClaimsLapsed
    <3> QED
      BY <3>2, <3>3
  <2>6. CASE intent'.state \in Terminal
    BY <2>1, <2>6 DEF OlderClaimsLapsed
  <2>7. CASE Tick
    <3>1. /\ intent'.token = intent.token /\ intent'.state = intent.state
          /\ intent.ttl = 1 => intent.token \in lapsed'
          /\ intent.ttl # 1 => intent'.ttl > 0
      BY <1>0, <2>7 DEF Tick, IInv, CallInv, TypeOK, IntentTypeOK, Intent
    <3> QED
      BY <1>0, <1>2, <2>1, <3>1 DEF IInv, CallInv, OlderClaimsLapsed
  <2> QED
    BY <1>0, <1>2, <2>2, <2>3, <2>4, <2>5, <2>6, <2>7, IntentSteps DEF IInv, Unclaimed
<1> QED
  BY <1>1, <1>2, HistorySteps

\* What a step answers, if it ends or begins a call: the stored result, or that it
\* is not known.
LEMMA AnswerSteps ==
  ASSUME CallInv, [Next]_vars
  PROVE  \/ told' = told
         \/ /\ result' = result
            /\ \E x \in Executors :
                 \E answer \in {"nothing", "ambiguous", "retryable", "busy"}
                                 \union ({result} \intersect Terminal) :
                   told' = [told EXCEPT ![x] = answer]
<1> DEFINE Answers == {"nothing", "ambiguous", "retryable", "busy"}
                        \union ({result} \intersect Terminal)
<1>1. ASSUME NEW x \in Executors, AnswerFromCache(x)
      PROVE  result' = result /\ \E answer \in Answers : End(x, answer)
  <2>1. cache[x] \in Answers
    BY <1>1 DEF AnswerFromCache, CallInv, TypeOK, OneOutcome
  <2> QED
    BY <1>1, <2>1 DEF AnswerFromCache, stores
<1>2. ASSUME NEW x \in Executors, LookUp(x)
      PROVE  result' = result /\ \E answer \in Answers : told' = [told EXCEPT ![x] = answer]
  <2>1. CASE result # "none"
    <3>1. result \in Answers
      BY <2>1 DEF CallInv, TypeOK, IntentTypeOK
    <3> QED
      BY <1>2, <2>1, <3>1 DEF LookUp, End, stores
  <2>2. CASE result = "none"
    BY <1>2, <2>2 DEF LookUp, stores
  <2> QED
    BY <2>1, <2>2
<1>3. ASSUME NEW x \in Executors, Refused(x)
      PROVE  result' = result /\ \E answer \in Answers : End(x, answer)
  <2>1. result # "none" => result \in Answers
    BY DEF CallInv, TypeOK, IntentTypeOK
  <2> QED
    BY <1>3, <2>1 DEF Refused, stores
<1>4. ASSUME NEW x \in Executors, Deny(x) \/ Crash(x)
      PROVE  result' = result /\ \E answer \in Answers : End(x, answer)
  BY <1>4 DEF Deny, Crash, stores
<1>5. ASSUME NEW x \in Executors, Release(x)
      PROVE  result' = result /\ \E answer \in Answers : End(x, answer)
  BY <1>5 DEF Release, CallInv, CallsHaveClaims, Inconclusive
<1>6. ASSUME NEW x \in Executors, Mark(x)
      PROVE  result' = result /\ \E answer \in Answers : End(x, answer)
  <2>1. outcome[x] \in Answers
    BY <1>6 DEF Mark, CallInv, CallsHaveClaims, TypeOK, IntentTypeOK
  <2> QED
    BY <1>6, <2>1 DEF Mark
<1>7. ASSUME NEW x \in Executors,
             \/ Prepare(x) \/ Claim(x) \/ Perform(x) \/ Conclude(x) \/ BreakOff(x) \/ Store(x)
      PROVE  told' = told
  BY <1>7 DEF Prepare, Claim, Perform, Conclude, BreakOff, Store
<1>8. CASE Tick \/ UNCHANGED vars
  BY <1>8 DEF Tick, vars
<1>9. ASSUME NEW x \in Executors, NEW answer, End(x, answer)
      PROVE  told' = [told EXCEPT ![x] = answer]
  BY <1>9 DEF End
<1> HIDE DEF Answers
<1>10. CASE \E x \in Executors : Step(x) \/ Crash(x)
  <2>1. \/ told' = told
        \/ result' = result /\ \E x \in Executors :
             \E answer \in Answers : told' = [told EXCEPT ![x] = answer]
    BY <1>1, <1>2, <1>3, <1>4, <1>5, <1>6, <1>7, <1>9, <1>10 DEF Step
  <2> QED
    BY <2>1 DEF Answers
<1> QED
  BY <1>8, <1>10 DEF Next

\* What a step leaves in memory: the stored result, or nothing that counts.
LEMMA CacheSteps ==
  ASSUME CallInv, [Next]_vars, NEW y \in Executors
  PROVE  \/ cache'[y] = cache[y]
         \/ cache'[y] \in {"none", "ambiguous", "retryable"}
         \/ cache'[y] = result
<1> USE DEF Cache, CallInv, TypeOK
<1>1. ASSUME NEW x \in Executors, LookUp(x)
      PROVE  cache'[y] = cache[y] \/ cache'[y] = result
  BY <1>1 DEF LookUp
<1>2. ASSUME NEW x \in Executors, Refused(x)
      PROVE  cache'[y] = cache[y] \/ cache'[y] = result
  BY <1>2 DEF Refused
<1>3. ASSUME NEW x \in Executors, Release(x)
      PROVE  cache'[y] = cache[y] \/ cache'[y] \in {"ambiguous", "retryable"}
  BY <1>3 DEF Release, CallsHaveClaims, Inconclusive
<1>4. ASSUME NEW x \in Executors, Mark(x)
      PROVE  cache'[y] = cache[y] \/ cache'[y] = "ambiguous" \/ cache'[y] = result
  BY <1>4 DEF Mark, CallsHaveClaims
<1>5. ASSUME NEW x \in Executors, Crash(x)
      PROVE  cache'[y] = cache[y] \/ cache'[y] = "none"
  BY <1>5 DEF Crash
<1>6. ASSUME NEW x \in Executors,
             \/ AnswerFromCache(x) \/ Prepare(x) \/ Claim(x) \/ Perform(x) \/ Conclude(x)
             \/ BreakOff(x) \/ Deny(x) \/ Store(x)
      PROVE  cache' = cache
  BY <1>6 DEF AnswerFromCache, Prepare, Claim, Perform, Conclude, BreakOff, Deny, Store
<1>7. CASE Tick \/ UNCHANGED vars
  BY <1>7 DEF Tick, vars
<1> QED
  BY <1>1, <1>2, <1>3, <1>4, <1>5, <1>6, <1>7 DEF Next, Step

\* An answer or a memory of an outcome stays true, as the stored result does.
LEMMA OneOutcomeStep ==
  ASSUME CallInv, [Next]_vars
  PROVE  OneOutcome'
<1>1. result # "none" => result' = result
  BY ResultSteps
<1>2. ASSUME NEW y \in Executors, cache'[y] \in Terminal
      PROVE  cache'[y] = result'
  BY <1>1, <1>2, CacheSteps DEF CallInv, OneOutcome, Terminal
<1>3. ASSUME NEW y \in Executors, told'[y] \in Terminal
      PROVE  told'[y] = result'
  <2>1. CASE told'[y] = told[y]
    BY <1>1, <1>3, <2>1 DEF CallInv, OneOutcome, Terminal
  <2>2. CASE told'[y] # told[y]
    BY <1>1, <1>3, <2>2, AnswerSteps DEF CallInv, TypeOK, Terminal
  <2> QED
    BY <2>1, <2>2
<1> QED
  BY <1>2, <1>3 DEF OneOutcome

\* An intent that is over has no claim that anybody could still present.
LEMMA EndedStays ==
  ASSUME CallInv, [Next]_vars, intent.state \in Terminal
  PROVE  intent' = intent
<1>1. intent.token = 0 /\ intent.ttl = 0
  BY DEF CallInv, OnlyExecutingIsClaimed, Terminal
<1>2. intent.state \notin Open \union {"absent"}
  BY DEF Open, Terminal
<1> QED
  BY <1>1, <1>2, IntentSteps DEF Claimable, HoldsClaim, CanMark, Tick

\* Each step records the first outcome, or tells a caller that one or none.
LEMMA PromiseStep ==
  ASSUME CallInv, [Next]_vars
  PROVE  [Promise!Next]_(Promise!firstOutcomeVars)
<1>1. CASE result' # result
  <2>1. PICK x \in Executors : result = "none" /\ Store(x) /\ result' = outcome[x]
    BY <1>1, ResultSteps
  <2>2. outcome[x] \in Terminal /\ told' = told
    BY <2>1 DEF Store, CallInv, CallsHaveClaims
  <2>3. Promise!Record
    BY <2>1, <2>2 DEF Promise!Record, Promise!Outcomes, Terminal
  <2> QED
    BY <2>3 DEF Promise!Next
<1>2. CASE result' = result /\ told' = told
  BY <1>2 DEF Promise!firstOutcomeVars
<1>3. ASSUME NEW x \in Executors,
             NEW answer \in {"nothing", "ambiguous", "retryable", "busy"}
                              \union ({result} \intersect Terminal),
             result' = result, told' = [told EXCEPT ![x] = answer]
      PROVE  Promise!Tell(x)
  BY <1>3 DEF Promise!Tell, Promise!Unknown, Promise!Outcomes, Terminal
<1> QED
  BY <1>1, <1>2, <1>3, AnswerSteps DEF Promise!Next

\* The invariant is one.
LEMMA Invariance == Spec => []IInv
<1>1. IInv /\ [Next]_vars => IInv'
  BY TypeStep, ClaimedStep, CallsStep, TokensStep, LapseStep, OneOutcomeStep,
     ResultFirstStep DEF IInv, CallInv
<1> QED
  BY InvInit, <1>1, PTL DEF Spec

----------------------------------------------------------------------------
(* Results about the executors alone *)

\* Every variable keeps its type: no call ever carries on with, remembers or
\* answers anything but the outcomes there are for it.
THEOREM TypeCorrectness == Spec => []TypeOK
BY Invariance, PTL DEF IInv, CallInv

\* ExecutionBoundary.commit stores the result before it marks the intent, and marks
\* what is stored: a terminal intent always has its result.
THEOREM ResultBeforeIntent == Spec => []TerminalHasResult
BY Invariance, PTL DEF IInv, CallInv

\* Whenever the tool has had its effect under two claims, the earlier one had
\* lapsed: claim() hands out no second claim while one is alive.
THEOREM RepetitionNeedsLapse == Spec => []RepeatedOnlyAfterLapse
<1>1. IInv => RepeatedOnlyAfterLapse
  <2> SUFFICES ASSUME IInv, NEW c \in performed, NEW d \in performed, c < d
               PROVE  c \in lapsed
    BY DEF RepeatedOnlyAfterLapse
  <2>1. c \in Nat /\ d \in Nat /\ claims \in Nat /\ 0 < c /\ d <= claims
    BY DEF IInv, CallInv, TypeOK, TokensWereIssued
  <2>2. c < claims
    BY <2>1
  <2> QED
    BY <2>1, <2>2 DEF IInv, CallInv, OlderClaimsLapsed
<1> QED
  BY Invariance, <1>1, PTL

\* No late claimant, release, expiry or crash changes how an intent ended.
THEOREM Finality == Spec => TerminalIsFinal
<1>1. IInv /\ [Next]_vars => [intent.state \in Terminal => intent' = intent]_vars
  BY EndedStays DEF IInv
<1> QED
  BY Invariance, <1>1, PTL DEF Spec, TerminalIsFinal

\* With its two stores, claims that run out, memories of processes and crashes, the
\* boundary implements one first outcome that everybody is told.
THEOREM Refinement == Spec => ImplementsFirstOutcome
<1>1. Init => Promise!Init
  BY DEF Init, IntentInit, Promise!Init
<1>2. IInv /\ [Next]_vars => [Promise!Next]_(Promise!firstOutcomeVars)
  BY PromiseStep DEF IInv
<1> QED
  BY Invariance, <1>1, <1>2, PTL DEF Spec, Promise!Spec, ImplementsFirstOutcome

----------------------------------------------------------------------------
(* With intent recovery: the inductive invariant *)

\* What a worker may be at, and with what.  A journaling worker has no attempts and a
\* reconciler no journal.
WorkerInv(w) ==
  /\ stage[w] \in {"replay", "begin", "record", "commit"} => w \in Journalers
  /\ stage[w] \in {"check", "lookup", "put", "mark"} => w \in Reconcilers
  /\ stage[w] \in {"record", "commit", "put", "mark"} => verdict[w] \in Terminal
  /\ stage[w] \in {"idle", "lease", "replay", "claim", "unlease"} => attempts[w] = 0
  /\ stage[w] = "check" => attempts[w] < MaxAttempts

\* Leases that are held have a number, which no other worker carries that asks for the
\* same lease.
LeasesAreNumbered ==
  /\ \A k \in LeaseKeys : lease[k].ttl > 0 => lease[k].token # 0
  /\ \A w \in Workers : epoch[w] <= lease[LeaseKey(w)].token
  /\ \A v, w \in Workers :
       LeaseKey(v) = LeaseKey(w) /\ epoch[v] = epoch[w] /\ epoch[w] # 0 => v = w

\* A journaling worker that still has its lease is the first to journal a verdict, and
\* what it is about to mark is in the journal.
JournalIsItsOwn ==
  \A w \in Journalers :
    /\ stage[w] \in {"resolve", "record"} /\ OwnsLease(w) => journal \notin Terminal
    /\ stage[w] = "commit" => journal = verdict[w]

RInv ==
  /\ CallInv
  /\ RecoveryTypeOK
  /\ \A w \in Workers : WorkerInv(w)
  /\ LeasesAreNumbered
  /\ JournalIsItsOwn

LEMMA RecoveryInvInit == RecoveryInit => RInv
<1> SUFFICES ASSUME RecoveryInit PROVE RInv
  OBVIOUS
<1>1. CallInv
  BY InvInit DEF RecoveryInit, IInv
<1>2. RecoveryTypeOK
  BY <1>1, RecoveryAssumption
  DEF RecoveryInit, CallInv, RecoveryTypeOK, RecoveryStages, Leases!LeaseInit,
      Leases!LeaseTypeOK, Leases!Lease
<1>3. \A w \in Workers : WorkerInv(w)
  BY RecoveryAssumption DEF RecoveryInit, WorkerInv
<1>4. LeasesAreNumbered
  BY DEF RecoveryInit, Leases!LeaseInit, LeasesAreNumbered, LeaseKey, LeaseKeys
<1>5. JournalIsItsOwn
  BY DEF RecoveryInit, JournalIsItsOwn, Workers
<1> QED
  BY <1>1, <1>2, <1>3, <1>4, <1>5 DEF RInv

----------------------------------------------------------------------------
(* What the workers do to the stores *)

\* Steps of the workers and of their time.
Work == LeaseTick \/ \E w \in Workers : Recover(w) \/ CrashWorker(w)

\* They leave the calls of the executors alone.
LEMMA CallsAreLeft ==
  ASSUME RInv, Work
  PROVE  /\ UNCHANGED <<pc, claim, outcome, cache, told, performed>>
         /\ claims' \in Nat /\ crashes' \in Nat /\ lapsed' \subseteq Nat
<1>0. claims \in Nat /\ crashes \in Nat /\ lapsed \subseteq Nat /\ mine \in [Workers -> Nat]
  BY DEF RInv, CallInv, TypeOK, RecoveryTypeOK
<1>1. CASE LeaseTick
  BY <1>0, <1>1 DEF LeaseTick, vars
<1>2. ASSUME NEW w \in Workers, CrashWorker(w)
      PROVE  /\ UNCHANGED <<pc, claim, outcome, cache, told, performed>>
             /\ claims' \in Nat /\ crashes' \in Nat /\ lapsed' \subseteq Nat
  BY <1>0, <1>2 DEF CrashWorker
<1>3. ASSUME NEW w \in Workers,
             \/ TakePending(w) \/ AcquireLease(w) \/ SkippedByLease(w) \/ SkippedByClaim(w)
             \/ BreakOffRecovery(w) \/ ResolveJournaled(w) \/ RecordVerdict(w) \/ Attempt(w)
             \/ LookUpStored(w) \/ ResolveStored(w) \/ ReleaseLease(w)
      PROVE  UNCHANGED vars
  BY <1>3 DEF TakePending, AcquireLease, SkippedByLease, SkippedByClaim, BreakOffRecovery,
     ResolveJournaled, RecordVerdict, Attempt, LookUpStored, ResolveStored, ReleaseLease
<1>4. ASSUME NEW w \in Workers,
             \/ Replay(w) \/ BeginJournal(w) \/ CommitVerdict(w) \/ PutVerdict(w)
             \/ MarkVerdict(w) \/ RenewClaim(w)
      PROVE  UNCHANGED others
  BY <1>4 DEF Replay, BeginJournal, CommitVerdict, PutVerdict, MarkVerdict, RenewClaim
<1>5. ASSUME NEW w \in Workers, ClaimForRecovery(w)
      PROVE  /\ UNCHANGED <<pc, claim, outcome, cache, told, performed>>
             /\ claims' \in Nat /\ crashes' \in Nat /\ lapsed' \subseteq Nat
  BY <1>0, <1>5 DEF ClaimForRecovery, calls
<1>6. ASSUME NEW w \in Workers, GiveBack(w)
      PROVE  /\ UNCHANGED <<pc, claim, outcome, cache, told, performed>>
             /\ claims' \in Nat /\ crashes' \in Nat /\ lapsed' \subseteq Nat
  BY <1>0, <1>6 DEF GiveBack, calls
<1> QED
  BY <1>0, <1>1, <1>2, <1>3, <1>4, <1>5, <1>6
  DEF Work, Recover, GiveUp, LostLease, vars, others, calls

\* A worker claims an intent, gives it back, ends one that is open, or renews its claim.
LEMMA IntentWork ==
  ASSUME RInv, Work
  PROVE  \/ intent' = intent
         \/ Claimable /\ ClaimIntent(claims + 1)
         \/ \E c \in Nat : HoldsClaim(c) /\ intent' = Unclaimed("ambiguous")
         \/ \E c \in Nat, state \in Terminal : CanMark(c) /\ intent' = Unclaimed(state)
         \/ \E state \in Terminal : intent.state \in Open /\ intent' = Unclaimed(state)
         \/ \E c \in Nat : CanMark(c) /\ intent' = [intent EXCEPT !.ttl = ClaimTtl]
<1>0. \A w \in Workers : mine[w] \in Nat
  BY DEF RInv, RecoveryTypeOK
<1>1. CASE LeaseTick
  BY <1>1 DEF LeaseTick, vars
<1>2. ASSUME NEW w \in Workers, CrashWorker(w)
      PROVE  intent' = intent
  BY <1>2 DEF CrashWorker, stores
<1>3. ASSUME NEW w \in Workers,
             \/ TakePending(w) \/ AcquireLease(w) \/ SkippedByLease(w) \/ SkippedByClaim(w)
             \/ BreakOffRecovery(w) \/ ResolveJournaled(w) \/ RecordVerdict(w) \/ Attempt(w)
             \/ LookUpStored(w) \/ ResolveStored(w) \/ ReleaseLease(w) \/ PutVerdict(w)
      PROVE  intent' = intent
  BY <1>3 DEF TakePending, AcquireLease, SkippedByLease, SkippedByClaim, BreakOffRecovery,
     ResolveJournaled, RecordVerdict, Attempt, LookUpStored, ResolveStored, ReleaseLease,
     PutVerdict, vars
<1>4. ASSUME NEW w \in Workers, Replay(w) \/ BeginJournal(w)
      PROVE  \/ intent' = intent
             \/ journal \in Terminal /\ intent.state \in Open /\ intent' = Unclaimed(journal)
  BY <1>4 DEF Replay, BeginJournal, Evidence, FinalizeFromJournal
<1>5. ASSUME NEW w \in Workers, CommitVerdict(w) \/ MarkVerdict(w)
      PROVE  \/ intent' = intent
             \/ /\ verdict[w] \in Terminal
                /\ CanMark(mine[w]) /\ intent' = Unclaimed(verdict[w])
  BY <1>5 DEF CommitVerdict, MarkVerdict, MarkClaimed, RInv, WorkerInv
<1>6. ASSUME NEW w \in Workers, GiveBack(w)
      PROVE  \/ intent' = intent
             \/ HoldsClaim(mine[w]) /\ intent' = Unclaimed("ambiguous")
  BY <1>6 DEF GiveBack, ReleaseClaim
<1>7. ASSUME NEW w \in Workers, ClaimForRecovery(w)
      PROVE  Claimable /\ ClaimIntent(claims + 1)
  BY <1>7 DEF ClaimForRecovery, ClaimableBy
<1>8. ASSUME NEW w \in Workers, RenewClaim(w)
      PROVE  CanMark(mine[w]) /\ intent' = [intent EXCEPT !.ttl = ClaimTtl]
  BY <1>8 DEF RenewClaim
<1> QED
  BY <1>0, <1>1, <1>2, <1>3, <1>4, <1>5, <1>6, <1>7, <1>8 DEF Work, Recover, GiveUp, LostLease

\* Of the workers, reconcilers alone store results, and only the first one.
LEMMA ResultWork ==
  ASSUME RInv, Work
  PROVE  result' = result \/ (result = "none" /\ result' \in Terminal)
<1>1. CASE LeaseTick
  BY <1>1 DEF LeaseTick, vars
<1>2. ASSUME NEW w \in Workers, PutVerdict(w)
      PROVE  result' = result \/ (result = "none" /\ result' \in Terminal)
  BY <1>2 DEF PutVerdict, FirstResult, RInv, WorkerInv
<1>3. ASSUME NEW w \in Workers,
             \/ TakePending(w) \/ AcquireLease(w) \/ SkippedByLease(w) \/ SkippedByClaim(w)
             \/ BreakOffRecovery(w) \/ ResolveJournaled(w) \/ RecordVerdict(w) \/ Attempt(w)
             \/ LookUpStored(w) \/ ResolveStored(w) \/ ReleaseLease(w) \/ CrashWorker(w)
      PROVE  result' = result
  BY <1>3 DEF TakePending, AcquireLease, SkippedByLease, SkippedByClaim, BreakOffRecovery,
     ResolveJournaled, RecordVerdict, Attempt, LookUpStored, ResolveStored, ReleaseLease,
     CrashWorker, vars, stores
<1>4. ASSUME NEW w \in Workers,
             \/ Replay(w) \/ BeginJournal(w) \/ CommitVerdict(w) \/ MarkVerdict(w)
             \/ RenewClaim(w) \/ ClaimForRecovery(w) \/ GiveBack(w)
      PROVE  result' = result
  BY <1>4 DEF Replay, BeginJournal, CommitVerdict, MarkVerdict, RenewClaim, ClaimForRecovery,
     GiveBack
<1> QED
  BY <1>1, <1>2, <1>3, <1>4 DEF Work, Recover, GiveUp, LostLease

\* So the executors' calls keep what they rely on.
LEMMA CallInvWork ==
  ASSUME RInv, Work
  PROVE  CallInv'
<1> USE DEF RInv, CallInv
<1>1. result' \in Terminal \union {"none"} /\ (result # "none" => result' = result)
  BY ResultWork DEF TypeOK, IntentTypeOK
<1>2. intent' \in Intent /\ OnlyExecutingIsClaimed'
  <2>1. intent \in Intent /\ claims \in Nat /\ ClaimTtl \in Nat \ {0}
    BY IntentAssumption DEF TypeOK, IntentTypeOK
  <2>2. CASE intent' = intent
    BY <2>1, <2>2 DEF OnlyExecutingIsClaimed
  <2>3. CASE ClaimIntent(claims + 1)
    BY <2>1, <2>3 DEF ClaimIntent, Intent, Open, OnlyExecutingIsClaimed
  <2>4. ASSUME NEW state \in Terminal \union {"ambiguous"}, intent' = Unclaimed(state)
        PROVE  intent' \in Intent /\ OnlyExecutingIsClaimed'
    BY <2>1, <2>4 DEF Unclaimed, Intent, Open, OnlyExecutingIsClaimed
  <2>5. ASSUME NEW c \in Nat, CanMark(c), intent' = [intent EXCEPT !.ttl = ClaimTtl]
        PROVE  intent' \in Intent /\ OnlyExecutingIsClaimed'
    BY <2>1, <2>5 DEF CanMark, HoldsClaim, Intent, OnlyExecutingIsClaimed
  <2> QED
    BY <2>2, <2>3, <2>4, <2>5, IntentWork
<1>3. TypeOK'
  BY <1>1, <1>2, CallsAreLeft DEF TypeOK, IntentTypeOK
<1>4. CallsHaveClaims'
  BY <1>1, CallsAreLeft DEF CallsHaveClaims
<1>5. OneOutcome'
  BY <1>1, CallsAreLeft DEF OneOutcome, Terminal
<1> QED
  BY <1>2, <1>3, <1>4, <1>5

----------------------------------------------------------------------------
(* What the workers do to each other *)

\* What a worker's step leaves as it is: all that is another worker's.
OthersStay(w) ==
  \A v \in Workers \ {w} :
    /\ stage'[v] = stage[v] /\ verdict'[v] = verdict[v]
    /\ attempts'[v] = attempts[v] /\ mine'[v] = mine[v]

\* A worker goes on to stage s with its locals as they are.
LEMMA ProceedTo ==
  ASSUME RecoveryTypeOK, NEW w \in Workers, NEW s \in RecoveryStages,
         Proceed(w, s), UNCHANGED locals
  PROVE  /\ stage' \in [Workers -> RecoveryStages] /\ stage'[w] = s
         /\ mine' \in [Workers -> Nat]
         /\ verdict' \in [Workers -> Terminal \union {"none", "unknown"}]
         /\ attempts' \in [Workers -> 0..MaxAttempts]
         /\ verdict'[w] = verdict[w] /\ attempts'[w] = attempts[w]
         /\ OthersStay(w)
  BY DEF Proceed, RecoveryTypeOK, locals, OthersStay

\* Or it is done with the intent.
LEMMA LeaveTo ==
  ASSUME RecoveryTypeOK, NEW w \in Workers, NEW s \in RecoveryStages, Leave(w, s)
  PROVE  /\ stage' \in [Workers -> RecoveryStages] /\ stage'[w] = s
         /\ mine' \in [Workers -> Nat]
         /\ verdict' \in [Workers -> Terminal \union {"none", "unknown"}]
         /\ attempts' \in [Workers -> 0..MaxAttempts]
         /\ verdict'[w] = "none" /\ attempts'[w] = 0
         /\ OthersStay(w)
<1>1. 0 \in 0..MaxAttempts
  BY RecoveryAssumption
<1> QED
  BY <1>1 DEF Leave, Proceed, RecoveryTypeOK, OthersStay

\* What a step of a worker makes of its place and its locals.
LEMMA WorkerMoves ==
  ASSUME RInv, NEW w \in Workers, Recover(w) \/ CrashWorker(w)
  PROVE  /\ stage' \in [Workers -> RecoveryStages]
         /\ mine' \in [Workers -> Nat]
         /\ verdict' \in [Workers -> Terminal \union {"none", "unknown"}]
         /\ attempts' \in [Workers -> 0..MaxAttempts]
         /\ OthersStay(w)
         /\ WorkerInv(w)'
<1> DEFINE Moved == /\ stage' \in [Workers -> RecoveryStages]
                   /\ mine' \in [Workers -> Nat]
                   /\ verdict' \in [Workers -> Terminal \union {"none", "unknown"}]
                   /\ attempts' \in [Workers -> 0..MaxAttempts]
                   /\ OthersStay(w)
                   /\ WorkerInv(w)'
<1>0. /\ RecoveryTypeOK /\ WorkerInv(w)
      /\ w \in Journalers <=> w \notin Reconcilers
      /\ MaxAttempts \in Nat \ {0} /\ attempts[w] \in 0..MaxAttempts
      /\ attempts[w] < MaxAttempts \/ attempts[w] = MaxAttempts
      /\ result \in Terminal \union {"none"}
  BY RecoveryAssumption DEF RInv, RecoveryTypeOK, CallInv, TypeOK, IntentTypeOK, Workers
<1>1. ASSUME NEW s \in {"idle", "unlease"}, Leave(w, s)
      PROVE  Moved
  <2>1. s \in RecoveryStages
    BY DEF RecoveryStages
  <2> QED
    BY <1>0, <1>1, <2>1, LeaveTo DEF WorkerInv
<1>2. ASSUME NEW s \in RecoveryStages, Proceed(w, s), UNCHANGED locals,
             s \in {"replay", "begin", "record", "commit"} => w \in Journalers,
             s \in {"check", "lookup", "put", "mark"} => w \in Reconcilers,
             s \in {"record", "commit", "put", "mark"} => verdict[w] \in Terminal,
             s \in {"idle", "lease", "replay", "claim", "unlease"} => attempts[w] = 0,
             s = "check" => attempts[w] < MaxAttempts
      PROVE  Moved
  BY <1>0, <1>2, ProceedTo DEF WorkerInv
<1>3. CASE TakePending(w) \/ AcquireLease(w) \/ Replay(w)
  BY <1>0, <1>2, <1>3
  DEF TakePending, AcquireLease, Replay, WorkerInv, RecoveryStages, locals
<1>4. CASE ClaimForRecovery(w)
  <2>1. claims + 1 \in Nat
    BY DEF RInv, CallInv, TypeOK
  <2> QED
    BY <1>0, <1>4, <2>1
    DEF ClaimForRecovery, Proceed, RecoveryTypeOK, RecoveryStages, WorkerInv, OthersStay, Workers
<1>5. CASE \/ SkippedByLease(w) \/ SkippedByClaim(w) \/ GiveBack(w) \/ CommitVerdict(w)
           \/ MarkVerdict(w) \/ BreakOffRecovery(w) \/ CrashWorker(w)
  BY <1>1, <1>5 DEF SkippedByLease, SkippedByClaim, GiveBack, CommitVerdict, MarkVerdict,
     BreakOffRecovery, CrashWorker
<1>6. CASE BeginJournal(w) \/ RecordVerdict(w) \/ PutVerdict(w)
  BY <1>0, <1>1, <1>2, <1>6 DEF BeginJournal, RecordVerdict, PutVerdict, WorkerInv, RecoveryStages
<1>7. CASE ResolveJournaled(w) \/ ResolveStored(w)
  <2>1. PICK v \in Terminal \union {"unknown"} :
           /\ verdict' = [verdict EXCEPT ![w] = v]
           /\ \/ w \in Journalers /\ Proceed(w, IF v = "unknown" THEN "giveup" ELSE "record")
              \/ /\ w \in Reconcilers
                 /\ Proceed(w, IF v \in Terminal THEN "put"
                               ELSE IF attempts[w] < MaxAttempts THEN "check" ELSE "giveup")
    BY <1>7 DEF ResolveJournaled, ResolveStored
  <2>2. mine' = mine /\ attempts' = attempts
    BY <1>7 DEF ResolveJournaled, ResolveStored
  <2> QED
    BY <1>0, <2>1, <2>2
    DEF Proceed, RecoveryTypeOK, RecoveryStages, WorkerInv, OthersStay, Terminal
<1>8. CASE Attempt(w)
  <2>1. CASE OwnsLease(w)
    <3>1. attempts[w] + 1 \in 0..MaxAttempts
      BY <1>0, <1>8 DEF Attempt, WorkerInv
    <3>2. w \in Reconcilers
      BY <1>0, <1>8 DEF Attempt, WorkerInv
    <3> QED
      BY <1>0, <1>8, <2>1, <3>1, <3>2
      DEF Attempt, Proceed, RecoveryTypeOK, RecoveryStages, WorkerInv, OthersStay
  <2>2. CASE ~ OwnsLease(w)
    BY <1>1, <1>8, <2>2 DEF Attempt
  <2> QED
    BY <2>1, <2>2
<1>9. CASE LookUpStored(w)
  <2>1. w \in Reconcilers
    BY <1>0, <1>9 DEF LookUpStored, WorkerInv
  <2>2. CASE result # "none"
    BY <1>0, <1>9, <2>1, <2>2
    DEF LookUpStored, Proceed, RecoveryTypeOK, RecoveryStages, WorkerInv, OthersStay
  <2>3. CASE result = "none"
    BY <1>0, <1>2, <1>9, <2>1, <2>3 DEF LookUpStored, RecoveryStages, locals
  <2> QED
    BY <2>2, <2>3
<1>10. CASE RenewClaim(w)
  BY <1>0, <1>10 DEF RenewClaim, workerVars, locals, RecoveryTypeOK, WorkerInv, OthersStay
<1>11. CASE ReleaseLease(w)
  BY <1>0, <1>2, <1>11 DEF ReleaseLease, WorkerInv, RecoveryStages, locals
<1> QED
  BY <1>3, <1>4, <1>5, <1>6, <1>7, <1>8, <1>9, <1>10, <1>11 DEF Recover, GiveUp, LostLease

----------------------------------------------------------------------------
(* Leases *)

\* What the steps of workers and time do to the leases.
LEMMA LeaseWork ==
  ASSUME Work
  PROVE  \/ UNCHANGED leaseVars
         \/ \E w \in Workers : AcquireLease(w)
         \/ \E w \in Workers : Leases!Release(w, LeaseKey(w))
         \/ Leases!Tick
<1>1. CASE LeaseTick
  BY <1>1 DEF LeaseTick
<1>2. ASSUME NEW w \in Workers, ReleaseLease(w)
      PROVE  UNCHANGED leaseVars \/ Leases!Release(w, LeaseKey(w))
  BY <1>2 DEF ReleaseLease
<1>3. ASSUME NEW w \in Workers,
             \/ TakePending(w) \/ SkippedByLease(w) \/ SkippedByClaim(w) \/ BreakOffRecovery(w)
             \/ ResolveJournaled(w) \/ RecordVerdict(w) \/ Attempt(w) \/ LookUpStored(w)
             \/ ResolveStored(w) \/ CrashWorker(w)
      PROVE  UNCHANGED leaseVars
  BY <1>3 DEF TakePending, SkippedByLease, SkippedByClaim, BreakOffRecovery,
     ResolveJournaled, RecordVerdict, Attempt, LookUpStored, ResolveStored, CrashWorker
<1>4. ASSUME NEW w \in Workers,
             \/ Replay(w) \/ BeginJournal(w) \/ CommitVerdict(w) \/ PutVerdict(w)
             \/ MarkVerdict(w) \/ RenewClaim(w) \/ ClaimForRecovery(w) \/ GiveBack(w)
      PROVE  UNCHANGED leaseVars
  BY <1>4 DEF Replay, BeginJournal, CommitVerdict, PutVerdict, MarkVerdict, RenewClaim,
     ClaimForRecovery, GiveBack
<1> QED
  BY <1>1, <1>2, <1>3, <1>4 DEF Work, Recover, GiveUp, LostLease

\* An acquisition makes up a number that nobody carries; a lease is only lost otherwise.
LEMMA LeaseSteps ==
  ASSUME RInv, Work
  PROVE  /\ Leases!LeaseTypeOK'
         /\ LeasesAreNumbered'
         /\ \A v \in Workers : OwnsLease(v)' => OwnsLease(v) \/ AcquireLease(v)
<1> USE DEF OwnsLease, Leases!IsOwner
<1>0. /\ Leases!LeaseTypeOK /\ LeasesAreNumbered
      /\ \A w \in Workers : LeaseKey(w) \in LeaseKeys /\ OwnerOf[w] \in Owners
      /\ LeaseTtl \in Nat \ {0}
  BY RecoveryAssumption DEF RInv, RecoveryTypeOK, LeaseKey, LeaseKeys
<1>1. CASE UNCHANGED leaseVars
  BY <1>0, <1>1 DEF leaseVars, Leases!LeaseTypeOK, LeasesAreNumbered
<1>2. ASSUME NEW w \in Workers, AcquireLease(w)
      PROVE  /\ Leases!LeaseTypeOK'
             /\ LeasesAreNumbered'
             /\ \A v \in Workers : OwnsLease(v)' => OwnsLease(v) \/ AcquireLease(v)
  <2> DEFINE k == LeaseKey(w)
             n == lease[k].token + 1
  <2>1. /\ k \in LeaseKeys /\ n \in Nat /\ n # 0 /\ LeaseTtl \in 0..LeaseTtl
        /\ [owner |-> OwnerOf[w], token |-> n, ttl |-> LeaseTtl] \in Leases!Lease
    BY <1>0 DEF Leases!LeaseTypeOK, Leases!Lease
  <2>2. /\ lease' = [lease EXCEPT ![k] = [owner |-> OwnerOf[w], token |-> n, ttl |-> LeaseTtl]]
        /\ epoch' = [epoch EXCEPT ![w] = n]
    BY <1>2 DEF AcquireLease, Leases!Acquire
  <2> HIDE DEF k, n
  <2>3. /\ Leases!LeaseTypeOK'
        /\ lease'[k].token = n /\ \A l \in LeaseKeys \ {k} : lease'[l] = lease[l]
        /\ epoch'[w] = n /\ \A v \in Workers \ {w} : epoch'[v] = epoch[v]
    BY <1>0, <2>1, <2>2 DEF Leases!LeaseTypeOK
  <2>4. \A v \in Workers : LeaseKey(v) = k => epoch[v] \in Nat /\ epoch[v] < n
    BY <1>0 DEF k, n, LeasesAreNumbered, Leases!LeaseTypeOK, Leases!Lease
  <2>5. LeasesAreNumbered'
    <3>1. ASSUME NEW l \in LeaseKeys, lease'[l].ttl > 0
          PROVE  lease'[l].token # 0
      BY <1>0, <2>1, <2>3, <3>1 DEF LeasesAreNumbered
    <3>2. ASSUME NEW v \in Workers
          PROVE  epoch'[v] <= lease'[LeaseKey(v)].token
      <4>1. CASE v = w
        BY <2>1, <2>3, <4>1 DEF k
      <4>2. CASE v # w /\ LeaseKey(v) = k
        BY <2>1, <2>3, <2>4, <4>2
      <4>3. CASE v # w /\ LeaseKey(v) # k
        BY <1>0, <2>3, <4>3 DEF LeasesAreNumbered
      <4> QED
        BY <4>1, <4>2, <4>3
    <3>3. ASSUME NEW u \in Workers, NEW v \in Workers,
                 LeaseKey(u) = LeaseKey(v), epoch'[u] = epoch'[v], epoch'[u] # 0
          PROVE  u = v
      <4>1. CASE u # w /\ v # w
        BY <1>0, <2>3, <3>3, <4>1 DEF LeasesAreNumbered
      <4>2. CASE u = w /\ v # w
        BY <2>1, <2>3, <2>4, <3>3, <4>2 DEF k
      <4>3. CASE u # w /\ v = w
        BY <2>1, <2>3, <2>4, <3>3, <4>3 DEF k
      <4> QED
        BY <4>1, <4>2, <4>3
    <3> QED
      BY <3>1, <3>2, <3>3 DEF LeasesAreNumbered, LeaseKeys, LeaseKey
  <2>6. ASSUME NEW v \in Workers, v # w, OwnsLease(v)'
        PROVE  OwnsLease(v)
    <3>1. LeaseKey(v) # k
      BY <2>1, <2>3, <2>4, <2>6 DEF LeaseKey
    <3> QED
      BY <1>0, <2>3, <2>6, <3>1 DEF LeaseKey
  <2> QED
    BY <1>2, <2>3, <2>5, <2>6
<1>3. ASSUME NEW w \in Workers, Leases!Release(w, LeaseKey(w))
      PROVE  /\ Leases!LeaseTypeOK'
             /\ LeasesAreNumbered'
             /\ \A v \in Workers : OwnsLease(v)' => OwnsLease(v)
  <2>1. /\ epoch' = epoch
        /\ lease' = [lease EXCEPT ![LeaseKey(w)].owner = NoOwner, ![LeaseKey(w)].ttl = 0]
    BY <1>3 DEF Leases!Release
  <2>2. 0 \in 0..LeaseTtl
    BY <1>0
  <2>3. Leases!LeaseTypeOK'
    BY <1>0, <2>1, <2>2 DEF Leases!LeaseTypeOK, Leases!Lease
  <2>4. \A l \in LeaseKeys :
          /\ lease'[l].token = lease[l].token
          /\ lease'[l] = lease[l] \/ lease'[l].ttl = 0
    BY <1>0, <2>1 DEF Leases!LeaseTypeOK, Leases!Lease
  <2>5. ASSUME NEW l \in LeaseKeys, lease'[l].ttl > 0
        PROVE  lease'[l].token # 0
    <3>1. lease'[l] = lease[l]
      BY <2>4, <2>5
    <3> QED
      BY <1>0, <2>5, <3>1 DEF LeasesAreNumbered
  <2>6. LeasesAreNumbered'
    <3>1. \A v \in Workers : epoch'[v] <= lease'[LeaseKey(v)].token
      BY <1>0, <2>1, <2>4 DEF LeasesAreNumbered
    <3>2. \A u, v \in Workers :
            LeaseKey(u) = LeaseKey(v) /\ epoch'[u] = epoch'[v] /\ epoch'[u] # 0 => u = v
      BY <1>0, <2>1 DEF LeasesAreNumbered
    <3> QED
      BY <2>5, <3>1, <3>2 DEF LeasesAreNumbered, LeaseKey, LeaseKeys
  <2>7. ASSUME NEW v \in Workers, OwnsLease(v)'
        PROVE  OwnsLease(v)
    <3>1. lease'[LeaseKey(v)].ttl > 0 /\ LeaseKey(v) \in LeaseKeys
      BY <1>0, <2>7 DEF LeaseKey
    <3>2. lease'[LeaseKey(v)] = lease[LeaseKey(v)]
      BY <2>4, <3>1
    <3> QED
      BY <2>1, <2>7, <3>2 DEF LeaseKey
  <2> QED
    BY <2>3, <2>6, <2>7
<1>4. CASE Leases!Tick
  <2>1. epoch' = epoch
    BY <1>4 DEF Leases!Tick
  <2>2. \A l \in LeaseKeys :
          /\ lease'[l] \in Leases!Lease
          /\ lease'[l].token = lease[l].token /\ lease'[l].owner = lease[l].owner
          /\ lease'[l].ttl > 0 => lease[l].ttl > 0
    BY <1>0, <1>4 DEF Leases!Tick, Leases!LeaseTypeOK, Leases!Lease
  <2>3. Leases!LeaseTypeOK'
    BY <1>0, <1>4, <2>1, <2>2 DEF Leases!Tick, Leases!LeaseTypeOK
  <2>4. LeasesAreNumbered'
    BY <1>0, <2>1, <2>2 DEF LeasesAreNumbered, LeaseKey, LeaseKeys
  <2> QED
    BY <1>0, <2>1, <2>2, <2>3, <2>4 DEF LeaseKey
<1> QED
  BY <1>1, <1>2, <1>3, <1>4, LeaseWork

\* Two journaling workers never have their lease at once.
LEMMA OneJournaler ==
  ASSUME RInv, NEW v \in Journalers, NEW w \in Journalers, OwnsLease(v), OwnsLease(w)
  PROVE  v = w
<1>1. v \in Workers /\ w \in Workers /\ LeaseKey(v) = LeaseKey(w) /\ LeaseKey(w) \in LeaseKeys
  BY DEF Workers, LeaseKey, LeaseKeys
<1> QED
  BY <1>1 DEF RInv, LeasesAreNumbered, OwnsLease, Leases!IsOwner

----------------------------------------------------------------------------
(* The reconciliation journal *)

\* Who writes the journal.
LEMMA JournalWork ==
  ASSUME Work
  PROVE  journal' = journal \/ \E w \in Workers : BeginJournal(w) \/ RecordVerdict(w)
<1>1. CASE LeaseTick
  BY <1>1 DEF LeaseTick
<1>2. ASSUME NEW w \in Workers,
             \/ TakePending(w) \/ AcquireLease(w) \/ SkippedByLease(w) \/ SkippedByClaim(w)
             \/ BreakOffRecovery(w) \/ ResolveJournaled(w) \/ Attempt(w) \/ LookUpStored(w)
             \/ ResolveStored(w) \/ ReleaseLease(w) \/ CrashWorker(w)
      PROVE  journal' = journal
  BY <1>2 DEF TakePending, AcquireLease, SkippedByLease, SkippedByClaim, BreakOffRecovery,
     ResolveJournaled, Attempt, LookUpStored, ResolveStored, ReleaseLease, CrashWorker
<1>3. ASSUME NEW w \in Workers,
             \/ Replay(w) \/ CommitVerdict(w) \/ PutVerdict(w) \/ MarkVerdict(w) \/ RenewClaim(w)
             \/ ClaimForRecovery(w) \/ GiveBack(w)
      PROVE  journal' = journal
  BY <1>3 DEF Replay, CommitVerdict, PutVerdict, MarkVerdict, RenewClaim, ClaimForRecovery,
     GiveBack
<1> QED
  BY <1>1, <1>2, <1>3 DEF Work, Recover, GiveUp, LostLease

\* How a journaling worker gets to where it is about to journal or to mark.
LEMMA JournalerMoves ==
  ASSUME RInv, NEW w \in Journalers, Recover(w) \/ CrashWorker(w)
  PROVE  /\ stage'[w] \in {"resolve", "record"} =>
              \/ BeginJournal(w) /\ journal \notin Terminal
              \/ ResolveJournaled(w)
         /\ stage'[w] = "commit" => RecordVerdict(w)
<1>0. /\ w \in Workers /\ w \notin Reconcilers /\ stage \in [Workers -> RecoveryStages]
      /\ WorkerInv(w)
  BY RecoveryAssumption DEF RInv, RecoveryTypeOK, Workers
<1> USE DEF Proceed, Leave
<1>1. CASE \/ TakePending(w) \/ AcquireLease(w) \/ SkippedByLease(w) \/ SkippedByClaim(w)
           \/ BreakOffRecovery(w) \/ ReleaseLease(w) \/ CrashWorker(w) \/ GiveBack(w)
           \/ CommitVerdict(w) \/ MarkVerdict(w)
  BY <1>0, <1>1 DEF TakePending, AcquireLease, SkippedByLease, SkippedByClaim, BreakOffRecovery,
     ReleaseLease, CrashWorker, GiveBack, CommitVerdict, MarkVerdict
<1>2. CASE Replay(w) \/ ClaimForRecovery(w)
  BY <1>0, <1>2 DEF Replay, ClaimForRecovery
<1>3. CASE BeginJournal(w)
  BY <1>0, <1>3 DEF BeginJournal, Evidence
<1>4. CASE ResolveJournaled(w)
  BY <1>0, <1>4 DEF ResolveJournaled
<1>5. CASE RecordVerdict(w)
  BY <1>0, <1>5 DEF RecordVerdict
<1>6. CASE Attempt(w) \/ LookUpStored(w) \/ ResolveStored(w) \/ PutVerdict(w) \/ RenewClaim(w)
  BY <1>0, <1>6 DEF Attempt, LookUpStored, ResolveStored, PutVerdict, RenewClaim, WorkerInv
<1> QED
  BY <1>1, <1>2, <1>3, <1>4, <1>5, <1>6 DEF Recover, GiveUp, LostLease

\* Its own steps.
LEMMA JournalOwn ==
  ASSUME RInv, NEW w \in Journalers, Recover(w) \/ CrashWorker(w)
  PROVE  /\ stage'[w] \in {"resolve", "record"} /\ OwnsLease(w)' => journal' \notin Terminal
         /\ stage'[w] = "commit" => journal' = verdict'[w]
<1>0. /\ w \in Workers /\ Work /\ JournalIsItsOwn
  BY DEF Workers, Work, RInv
<1>1. ASSUME stage'[w] \in {"resolve", "record"}, OwnsLease(w)'
      PROVE  journal' \notin Terminal
  <2>1. CASE BeginJournal(w) /\ journal \notin Terminal
    BY <2>1 DEF BeginJournal, Begun, Terminal
  <2>2. CASE ResolveJournaled(w)
    <3>1. stage[w] = "resolve" /\ journal' = journal /\ UNCHANGED leaseVars
      BY <2>2 DEF ResolveJournaled
    <3>2. OwnsLease(w)
      BY <1>1, <3>1 DEF OwnsLease, Leases!IsOwner, leaseVars, LeaseKey
    <3> QED
      BY <1>0, <3>1, <3>2 DEF JournalIsItsOwn
  <2> QED
    BY <1>1, <2>1, <2>2, JournalerMoves
<1>2. ASSUME stage'[w] = "commit"
      PROVE  journal' = verdict'[w]
  <2>1. RecordVerdict(w)
    BY <1>2, JournalerMoves
  <2>2. journal \notin Terminal
    BY <1>0, <2>1 DEF RecordVerdict, JournalIsItsOwn
  <2> QED
    BY <2>1, <2>2 DEF RecordVerdict, Recorded, locals
<1> QED
  BY <1>1, <1>2

\* The steps of others: none records a verdict while this one has its lease, or the lock.
LEMMA JournalOthers ==
  ASSUME RInv, Work, NEW w \in Journalers, stage'[w] = stage[w], verdict'[w] = verdict[w],
         ~ (Recover(w) \/ CrashWorker(w))
  PROVE  /\ stage'[w] \in {"resolve", "record"} /\ OwnsLease(w)' => journal' \notin Terminal
         /\ stage'[w] = "commit" => journal' = verdict'[w]
<1>0. w \in Workers /\ JournalIsItsOwn /\ WorkerInv(w)
  BY DEF Workers, RInv
<1>1. OwnsLease(w)' => OwnsLease(w)
  BY <1>0, LeaseSteps DEF Recover
<1>2. CASE journal' = journal
  BY <1>0, <1>1, <1>2 DEF JournalIsItsOwn
<1>3. ASSUME NEW v \in Workers, BeginJournal(v)
      PROVE  journal' = journal \/ (journal' = "pending" /\ journal = "none")
  BY <1>3 DEF BeginJournal, Begun
<1>4. CASE journal' = "pending" /\ journal = "none"
  BY <1>0, <1>4 DEF JournalIsItsOwn, WorkerInv, Terminal
<1>5. ASSUME NEW v \in Workers, RecordVerdict(v)
      PROVE  ~ OwnsLease(w) /\ stage[w] # "commit"
  <2>1. v \in Journalers /\ v # w
    BY <1>5 DEF RecordVerdict, RInv, WorkerInv, Recover
  <2> QED
    BY <1>5, <2>1, OneJournaler DEF RecordVerdict, LeaseUnlocked
<1> QED
  BY <1>1, <1>2, <1>3, <1>4, <1>5, JournalWork

----------------------------------------------------------------------------
(* The invariant is one *)

\* The executors' steps.
LEMMA ExecuteStep ==
  ASSUME RInv, Execute \/ UNCHANGED recoveryVars
  PROVE  RInv'
<1>1. [Next]_vars /\ UNCHANGED <<workerVars, leaseVars, journal, claimsOf>>
  BY DEF Execute, recoveryVars
<1>2. CallInv'
  BY <1>1, TypeStep, ClaimedStep, CallsStep, OneOutcomeStep DEF RInv, CallInv
<1> USE DEF workerVars, locals, leaseVars
<1>3. RecoveryTypeOK'
  BY <1>1, <1>2 DEF CallInv, RInv, RecoveryTypeOK, Leases!LeaseTypeOK
<1>4. \A w \in Workers : WorkerInv(w)'
  BY <1>1 DEF RInv, WorkerInv
<1>5. LeasesAreNumbered' /\ JournalIsItsOwn'
  BY <1>1 DEF RInv, LeasesAreNumbered, LeaseKey, LeaseKeys, JournalIsItsOwn, OwnsLease,
     Leases!IsOwner
<1> QED
  BY <1>2, <1>3, <1>4, <1>5 DEF RInv

\* The types of what a worker's step leaves behind besides its place and the leases.
LEMMA HistoryWork ==
  ASSUME RInv, Work
  PROVE  /\ passes' \in [Workers -> Nat]
         /\ journal' \in Terminal \union {"none", "pending"}
         /\ claimsOf' \in [Owners -> SUBSET Nat]
<1>0. RecoveryTypeOK /\ \A w \in Workers : WorkerInv(w)
  BY DEF RInv
<1>1. CASE LeaseTick
  BY <1>0, <1>1 DEF LeaseTick, RecoveryTypeOK, workerVars
<1>2. ASSUME NEW w \in Workers, TakePending(w)
      PROVE  passes' \in [Workers -> Nat] /\ UNCHANGED <<journal, claimsOf>>
  BY <1>0, <1>2 DEF TakePending, RecoveryTypeOK
<1>3. ASSUME NEW w \in Workers, ClaimForRecovery(w)
      PROVE  claimsOf' \in [Owners -> SUBSET Nat] /\ UNCHANGED <<passes, journal>>
  <2>1. claims + 1 \in Nat /\ OwnerOf[w] \in Owners
    BY RecoveryAssumption DEF RInv, CallInv, TypeOK
  <2> QED
    BY <1>0, <1>3, <2>1 DEF ClaimForRecovery, RecoveryTypeOK
<1>4. ASSUME NEW w \in Workers, BeginJournal(w) \/ RecordVerdict(w)
      PROVE  /\ journal' \in Terminal \union {"none", "pending"}
             /\ UNCHANGED <<passes, claimsOf>>
  BY <1>0, <1>4 DEF BeginJournal, Begun, RecordVerdict, Recorded, WorkerInv, RecoveryTypeOK
<1>5. ASSUME NEW w \in Workers,
             \/ AcquireLease(w) \/ SkippedByLease(w) \/ SkippedByClaim(w) \/ BreakOffRecovery(w)
             \/ ResolveJournaled(w) \/ Attempt(w) \/ LookUpStored(w) \/ ResolveStored(w)
             \/ ReleaseLease(w) \/ CrashWorker(w)
      PROVE  UNCHANGED <<passes, journal, claimsOf>>
  BY <1>5 DEF AcquireLease, SkippedByLease, SkippedByClaim, BreakOffRecovery, ResolveJournaled,
     Attempt, LookUpStored, ResolveStored, ReleaseLease, CrashWorker
<1>6. ASSUME NEW w \in Workers,
             \/ Replay(w) \/ CommitVerdict(w) \/ PutVerdict(w) \/ MarkVerdict(w) \/ RenewClaim(w)
             \/ GiveBack(w)
      PROVE  UNCHANGED <<passes, journal, claimsOf>>
  BY <1>6 DEF Replay, CommitVerdict, PutVerdict, MarkVerdict, RenewClaim, GiveBack, workerVars
<1> QED
  BY <1>0, <1>1, <1>2, <1>3, <1>4, <1>5, <1>6
  DEF Work, Recover, GiveUp, LostLease, RecoveryTypeOK

\* The workers' steps.
LEMMA WorkStep ==
  ASSUME RInv, Work
  PROVE  RInv'
<1>0. /\ CallInv' /\ Leases!LeaseTypeOK' /\ LeasesAreNumbered'
      /\ passes' \in [Workers -> Nat]
      /\ journal' \in Terminal \union {"none", "pending"}
      /\ claimsOf' \in [Owners -> SUBSET Nat]
  BY CallInvWork, LeaseSteps, HistoryWork
<1> DEFINE LocalsOK == /\ stage' \in [Workers -> RecoveryStages]
                      /\ mine' \in [Workers -> Nat]
                      /\ verdict' \in [Workers -> Terminal \union {"none", "unknown"}]
                      /\ attempts' \in [Workers -> 0..MaxAttempts]
                      /\ \A w \in Workers : WorkerInv(w)'
<1>1. CASE LeaseTick
  <2>1. UNCHANGED <<stage, mine, verdict, attempts, journal>>
    BY <1>1 DEF LeaseTick, workerVars, locals
  <2>2. LocalsOK
    BY <2>1 DEF RInv, RecoveryTypeOK, WorkerInv
  <2>3. JournalIsItsOwn'
    BY <2>1, LeaseSteps, <1>1 DEF JournalIsItsOwn, RInv, Workers, LeaseTick, AcquireLease, Proceed
  <2> QED
    BY <1>0, <2>2, <2>3 DEF RInv, CallInv, RecoveryTypeOK
<1>2. ASSUME NEW w \in Workers, Recover(w) \/ CrashWorker(w)
      PROVE  RInv'
  <2>1. /\ OthersStay(w) /\ WorkerInv(w)'
        /\ stage' \in [Workers -> RecoveryStages] /\ mine' \in [Workers -> Nat]
        /\ verdict' \in [Workers -> Terminal \union {"none", "unknown"}]
        /\ attempts' \in [Workers -> 0..MaxAttempts]
    BY <1>2, WorkerMoves
  <2>2. LocalsOK
    BY <2>1 DEF OthersStay, WorkerInv, RInv
  <2>3. JournalIsItsOwn'
    <3>1. ASSUME NEW v \in Journalers
          PROVE  /\ stage'[v] \in {"resolve", "record"} /\ OwnsLease(v)' => journal' \notin Terminal
                 /\ stage'[v] = "commit" => journal' = verdict'[v]
      <4>1. CASE Recover(v) \/ CrashWorker(v)
        BY <4>1, JournalOwn
      <4>2. CASE ~ (Recover(v) \/ CrashWorker(v))
        <5>1. v \in Workers \ {w}
          BY <1>2, <4>2 DEF Workers
        <5> QED
          BY <2>1, <4>2, <5>1, JournalOthers DEF OthersStay
      <4> QED
        BY <4>1, <4>2
    <3> QED
      BY <3>1 DEF JournalIsItsOwn
  <2> QED
    BY <1>0, <2>2, <2>3 DEF RInv, CallInv, RecoveryTypeOK
<1> QED
  BY <1>1, <1>2 DEF Work

LEMMA RecoveryInvariance == RecoverySpec => []RInv
<1>1. RInv /\ [RecoveryNext]_recoveryVars => RInv'
  BY ExecuteStep, WorkStep DEF RecoveryNext, Work
<1> QED
  BY RecoveryInvInit, <1>1, PTL DEF RecoverySpec

----------------------------------------------------------------------------
(* Results with intent recovery *)

\* The types of executors, workers, leases and the journal.
THEOREM RecoveryTypes == RecoverySpec => []RecoveryTypeOK
<1>1. RInv => RecoveryTypeOK
  BY DEF RInv
<1> QED
  BY RecoveryInvariance, <1>1, PTL

\* Nor do recovery workers that come too late, of whichever kind, change how an intent
\* ended.
THEOREM RecoveredFinality == RecoverySpec => TerminalIsFinal
<1>1. ASSUME RInv, [RecoveryNext]_recoveryVars, intent.state \in Terminal
      PROVE  intent' = intent
  <2>1. CASE Work
    <3>1. intent.token = 0 /\ intent.ttl = 0 /\ intent.state \notin Open
      BY <1>1 DEF RInv, CallInv, OnlyExecutingIsClaimed, Terminal, Open
    <3> QED
      BY <1>1, <2>1, <3>1, IntentWork DEF Claimable, HoldsClaim, CanMark
  <2>2. CASE Execute \/ UNCHANGED recoveryVars
    <3>1. [Next]_vars
      BY <2>2 DEF Execute, recoveryVars
    <3> QED
      BY <1>1, <3>1, EndedStays DEF RInv
  <2> QED
    BY <1>1, <2>1, <2>2 DEF RecoveryNext, Work
<1>2. RInv /\ [RecoveryNext]_recoveryVars => [intent.state \in Terminal => intent' = intent]_vars
  BY <1>1
<1> QED
  BY RecoveryInvariance, <1>2, PTL DEF RecoverySpec, TerminalIsFinal

\* Whatever verdicts the workers come to, callers are told the first stored outcome.
THEOREM RecoveredOutcome == RecoverySpec => ImplementsFirstOutcome
<1>1. RecoveryInit => Promise!Init
  BY DEF RecoveryInit, Init, IntentInit, Promise!Init
<1>2. ASSUME RInv, [RecoveryNext]_recoveryVars
      PROVE  [Promise!Next]_(Promise!firstOutcomeVars)
  <2>1. CASE Work
    <3>1. told' = told
      BY <1>2, <2>1, CallsAreLeft
    <3>2. CASE result' = result
      BY <3>1, <3>2 DEF Promise!firstOutcomeVars
    <3>3. CASE result = "none" /\ result' \in Terminal
      BY <3>1, <3>3 DEF Promise!Next, Promise!Record, Promise!Outcomes, Terminal
    <3> QED
      BY <1>2, <2>1, <3>2, <3>3, ResultWork
  <2>2. CASE Execute \/ UNCHANGED recoveryVars
    <3>1. [Next]_vars
      BY <2>2 DEF Execute, recoveryVars
    <3> QED
      BY <1>2, <3>1, PromiseStep DEF RInv
  <2> QED
    BY <1>2, <2>1, <2>2 DEF RecoveryNext, Work
<1> QED
  BY RecoveryInvariance, <1>1, <1>2, PTL DEF RecoverySpec, Promise!Spec, ImplementsFirstOutcome

\* A journaling worker ends an intent only as the reconciliation journal says, although
\* it marks its own verdict: no other worker can have journaled one while it had the lease.
THEOREM JournalDecides == RecoverySpec => EndedAsJournaled
<1>1. ASSUME RInv, [RecoveryNext]_recoveryVars, NEW w \in Journalers,
             stage'[w] # stage[w], intent.state \in Open, intent'.state \in Terminal
      PROVE  journal' = intent'.state
  <2>0. w \in Workers /\ w \notin Reconcilers /\ WorkerInv(w) /\ JournalIsItsOwn
    BY <1>1, RecoveryAssumption DEF Workers, RInv
  <2>1. Recover(w) \/ CrashWorker(w)
    <3>1. ASSUME NEW v \in Workers, Recover(v) \/ CrashWorker(v)
          PROVE  v = w
      BY <1>1, <2>0, <3>1, WorkerMoves DEF OthersStay
    <3>2. ~ LeaseTick /\ ~ Execute /\ ~ UNCHANGED recoveryVars
      BY <1>1 DEF LeaseTick, Execute, recoveryVars, workerVars
    <3> QED
      BY <1>1, <3>1, <3>2 DEF RecoveryNext
  <2>2. CASE Replay(w) \/ BeginJournal(w)
    BY <1>1, <2>2
    DEF Replay, BeginJournal, Evidence, Begun, FinalizeFromJournal, Unclaimed, Open, Terminal
  <2>3. CASE CommitVerdict(w)
    BY <1>1, <2>0, <2>3
    DEF CommitVerdict, MarkClaimed, Unclaimed, JournalIsItsOwn, Open, Terminal
  <2>4. CASE GiveBack(w) \/ ClaimForRecovery(w)
    BY <1>1, <2>4
    DEF GiveBack, ReleaseClaim, ClaimForRecovery, ClaimIntent, Unclaimed, Open, Terminal
  <2>5. CASE \/ TakePending(w) \/ AcquireLease(w) \/ SkippedByLease(w) \/ SkippedByClaim(w)
             \/ BreakOffRecovery(w) \/ ResolveJournaled(w) \/ RecordVerdict(w) \/ Attempt(w)
             \/ LookUpStored(w) \/ ResolveStored(w) \/ ReleaseLease(w) \/ PutVerdict(w)
             \/ CrashWorker(w)
    <3>1. intent' = intent
      BY <2>5 DEF TakePending, AcquireLease, SkippedByLease, SkippedByClaim, BreakOffRecovery,
         ResolveJournaled, RecordVerdict, Attempt, LookUpStored, ResolveStored, ReleaseLease,
         PutVerdict, CrashWorker, vars, stores
    <3> QED
      BY <1>1, <3>1 DEF Open, Terminal
  <2>6. ~ MarkVerdict(w) /\ ~ RenewClaim(w)
    BY <2>0 DEF MarkVerdict, RenewClaim, WorkerInv
  <2> QED
    BY <2>1, <2>2, <2>3, <2>4, <2>5, <2>6 DEF Recover, GiveUp, LostLease
<1>2. RInv /\ [RecoveryNext]_recoveryVars =>
        [\A w \in Journalers :
           stage'[w] # stage[w] /\ intent.state \in Open /\ intent'.state \in Terminal
             => journal' = intent'.state]_recoveryVars
  BY <1>1
<1> QED
  BY RecoveryInvariance, <1>2, PTL DEF RecoverySpec, EndedAsJournaled

\* Recovery workers that ask for one lease, of whatever owner ids, never both find that
\* they have it.
THEOREM LeaseOfOneWorker == RecoverySpec => []OneWorkerAtALease
<1>1. RInv => OneWorkerAtALease
  <2> SUFFICES ASSUME RInv, NEW v \in Workers, NEW w \in Workers,
                      LeaseKey(v) = LeaseKey(w), OwnsLease(v), OwnsLease(w)
               PROVE  v = w
    BY DEF OneWorkerAtALease
  <2>1. LeaseKey(w) \in LeaseKeys
    BY DEF LeaseKey, LeaseKeys
  <2> QED
    BY <2>1 DEF RInv, LeasesAreNumbered, OwnsLease, Leases!IsOwner
<1> QED
  BY RecoveryInvariance, <1>1, PTL

=============================================================================
