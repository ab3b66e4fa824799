--------------------- MODULE VNextOrchestrator_proofs ----------------------
(***************************************************************************)
(* Proofs about the scheduler and its callers: for any number of calls and *)
(* clients, however they overlap, fail or are cancelled.                   *)
(***************************************************************************)
EXTENDS VNextOrchestrator, FiniteSetTheorems, TLAPS

----------------------------------------------------------------------------
(* The inductive invariant.  Its parts are about a list of tasks and their *)
(* states, because run() drives the list its task has just been added to.  *)

Begun(s) == s \notin {"none", "pending"}

\* The list has every submitted task, and has it once.
ListsEachOnce(list, states) ==
  /\ \A i, j \in DOMAIN list : list[i] = list[j] => i = j
  /\ \A r \in Callers : states[r] # "none" <=> \E i \in DOMAIN list : list[i] = r

\* What is pending is at its end.
PendingIsLast(list, states) ==
  \A i, j \in DOMAIN list :
    i < j /\ states[list[i]] = "pending" => states[list[j]] = "pending"

\* A task that was begun was taken up once.
BegunOnce(states) ==
  \A r \in Callers : drives[r] = IF Begun(states[r]) THEN 1 ELSE 0

ListInv(list, states) ==
  ListsEachOnce(list, states) /\ PendingIsLast(list, states) /\ BegunOnce(states)

\* Up to position i nothing is pending.
PassedIsBegun(list, states, i) ==
  \A k \in DOMAIN list : k <= i => Begun(states[list[k]])

\* What a caller has seen to, and what it says of its own task.
CallerInv(list, states, r) ==
  /\ pc[r] = "drive" => at[r] \in DOMAIN list /\ PassedIsBegun(list, states, at[r])
  /\ pc[r] \in {"idle", "plan"} => states[r] = "none"
  /\ pc[r] \in {"submitted", "drive"} => states[r] # "none"
  /\ pc[r] # "over" => outcome[r] = "none"
  /\ pc[r] \in {"reflect", "over"} /\ states[r] = "pending"
       => outcome[r] \in {"raised", "cancelled"}

IInv ==
  /\ TypeOK
  /\ ListInv(tasks, state)
  /\ \A r \in Callers : CallerInv(tasks, state, r)

----------------------------------------------------------------------------
(* The next task *)

\* Min of a set of positions is the first of them.
LEMMA FirstOf ==
  ASSUME NEW n \in Nat, NEW S \in SUBSET (1..n), S # {}
  PROVE  Min(S) \in S /\ \A y \in S : Min(S) <= y
<1> DEFINE UpTo(k) == {y \in S : y <= k}
           T == {UpTo(k) : k \in S}
<1>1. T \subseteq SUBSET (1..n) /\ T # {} /\ \A t \in T : IsFiniteSet(t)
  <2>1. T \subseteq SUBSET (1..n) /\ T # {}
    OBVIOUS
  <2>2. IsFiniteSet(1..n)
    BY FS_Interval
  <2> QED
    BY <2>1, <2>2, FS_Subset
<1>2. PICK t \in T : \A u \in T : ~ (<<u, t>> \in StrictSubsetOrdering(1..n))
  <2>1. T \subseteq FiniteSubsetsOf(1..n)
    BY <1>1 DEF FiniteSubsetsOf
  <2> HIDE DEF T
  <2> QED
    BY <1>1, <2>1, FS_StrictSubsetOrderingWellFounded, WFMin
<1>3. PICK x \in S : t = UpTo(x)
  OBVIOUS
<1>4. ASSUME NEW y \in S, y < x
      PROVE  FALSE
  <2>1. \A z \in S : z \in Nat
    OBVIOUS
  <2>2. UpTo(y) \in T
    OBVIOUS
  <2>3. x \in UpTo(x) /\ x \notin UpTo(y)
    BY <1>4, <2>1
  <2>4. ASSUME NEW z \in UpTo(y)
        PROVE  z \in UpTo(x)
    <3>1. z \in S /\ z <= y
      OBVIOUS
    <3>2. z <= x
      BY <1>4, <2>1, <3>1
    <3> QED
      BY <3>1, <3>2
  <2>5. UpTo(y) \subseteq t /\ UpTo(y) # t
    BY <1>3, <2>3, <2>4
  <2> QED
    BY <1>1, <1>2, <2>2, <2>5 DEF StrictSubsetOrdering
<1>5. \A y \in S : x <= y
  BY <1>4
<1> QED
  BY <1>5 DEF Min

\* The next pending task from i on, if there is one.
LEMMA NextPending ==
  ASSUME NEW list \in Seq(Callers), NEW states, NEW i \in Nat \ {0}
  PROVE  /\ PendingFrom(list, states, i) # {} =>
              LET j == Min(PendingFrom(list, states, i))
              IN  /\ j \in DOMAIN list /\ j >= i /\ states[list[j]] = "pending"
                  /\ \A k \in DOMAIN list : k >= i /\ k < j => states[list[k]] # "pending"
         /\ PendingFrom(list, states, i) = {} =>
              \A k \in DOMAIN list : k >= i => states[list[k]] # "pending"
<1>1. /\ Len(list) \in Nat /\ DOMAIN list = 1..Len(list)
      /\ \A k \in DOMAIN list : k \in Int
      /\ \A k \in DOMAIN list : k >= i <=> k \in i..Len(list)
      /\ i..Len(list) \subseteq DOMAIN list
  OBVIOUS
<1>2. PendingFrom(list, states, i) \in SUBSET (1..Len(list))
  BY <1>1 DEF PendingFrom
<1>3. CASE PendingFrom(list, states, i) = {}
  BY <1>1, <1>3 DEF PendingFrom
<1>4. CASE PendingFrom(list, states, i) # {}
  <2> DEFINE j == Min(PendingFrom(list, states, i))
  <2>1. j \in PendingFrom(list, states, i) /\ \A y \in PendingFrom(list, states, i) : j <= y
    BY <1>1, <1>2, <1>4, FirstOf
  <2> HIDE DEF j
  <2>2. j \in DOMAIN list /\ j >= i /\ states[list[j]] = "pending"
    BY <1>1, <2>1 DEF PendingFrom
  <2>3. ASSUME NEW k \in DOMAIN list, k >= i, k < j
        PROVE  states[list[k]] # "pending"
    <3>1. states[list[k]] = "pending" => j <= k
      BY <1>1, <2>1, <2>3 DEF PendingFrom
    <3> QED
      BY <1>1, <2>2, <2>3, <3>1
  <2> QED
    BY <1>4, <2>2, <2>3 DEF j
<1> QED
  BY <1>3, <1>4

----------------------------------------------------------------------------
(* Steps of a caller *)

States == {"none", "pending", "running", "done", "failed"}

\* What a step of caller r may do to the others: add its own task, and begin or end
\* tasks.
OthersKeep(r, list, states) ==
  \A q \in Callers \ {r} : CallerInv(list, states, q)

\* The parts of the invariant about the list and the states there are after a step.
LEMMA Unprimed ==
  ASSUME NEW list, NEW states, tasks' = list, state' = states, TypeOK',
         ListInv(list, states)', \A q \in Callers : CallerInv(list, states, q)'
  PROVE  IInv'
  BY DEF IInv, ListInv, ListsEachOnce, PendingIsLast, BegunOnce, CallerInv, PassedIsBegun

\* run_until_idle from position i on, up to which everything is begun.
LEMMA DriveStep ==
  ASSUME TypeOK, NEW r \in Callers, NEW list \in Seq(Callers), NEW states \in [Callers -> States],
         NEW i \in Nat \ {0},
         ListInv(list, states), OthersKeep(r, list, states), PassedIsBegun(list, states, i - 1),
         states[r] # "none", outcome[r] = "none", tasks' = list, Drive(r, list, states, i)
  PROVE  IInv'
<1>0. /\ DOMAIN list \subseteq Nat /\ i \in Nat
      /\ \A k \in DOMAIN list : list[k] \in Callers
      /\ \A k \in DOMAIN list : k < i => Begun(states[list[k]])
      /\ \A q \in Callers : states[q] # "none" <=> \E k \in DOMAIN list : list[k] = q
  BY DEF PassedIsBegun, ListInv, ListsEachOnce
<1>1. CASE PendingFrom(list, states, i) # {}
  <2>1. PICK j \in DOMAIN list :
          /\ j >= i /\ states[list[j]] = "pending"
          /\ \A k \in DOMAIN list : k >= i /\ k < j => states[list[k]] # "pending"
          /\ state' = [states EXCEPT ![list[j]] = "running"]
          /\ drives' = [drives EXCEPT ![list[j]] = drives[list[j]] + 1]
          /\ at' = [at EXCEPT ![r] = j]
          /\ pc' = [pc EXCEPT ![r] = "drive"]
          /\ outcome' = outcome
    BY <1>1, NextPending DEF Drive, Goto
  <2> DEFINE new == [states EXCEPT ![list[j]] = "running"]
  <2>2. list[j] \in Callers /\ j \in Nat
    BY <1>0
  <2>3. TypeOK'
    <3>1. drives[list[j]] + 1 \in Nat
      BY <2>2 DEF TypeOK
    <3>2. tasks' \in Seq(Callers) /\ outcome' = outcome
      BY <2>1
    <3>3. state' \in [Callers -> States] /\ drives' \in [Callers -> Nat]
      BY <2>1, <2>2, <3>1 DEF TypeOK, States
    <3>4. /\ pc' \in [Callers -> {"idle", "plan", "submitted", "drive", "reflect", "over"}]
          /\ at' \in [Callers -> Nat]
      BY <2>1, <2>2 DEF TypeOK
    <3> QED
      BY <3>2, <3>3, <3>4 DEF TypeOK, States
  <2>4. \A q \in Callers : new[q] = IF q = list[j] THEN "running" ELSE states[q]
    BY <2>2
  <2>5. \A k \in DOMAIN list : k < j => Begun(states[list[k]])
    BY <1>0, <2>1, <2>2 DEF Begun
  <2> HIDE DEF new
  <2>6. ListsEachOnce(list, new)
    BY <2>1, <2>2, <2>4 DEF ListInv, ListsEachOnce
  <2>7. PendingIsLast(list, new)
    BY <1>0, <2>1, <2>2, <2>4, <2>5 DEF ListInv, ListsEachOnce, PendingIsLast, Begun
  <2>8. BegunOnce(new)'
    <3>1. drives \in [Callers -> Nat] /\ BegunOnce(states) /\ ~ Begun(states[list[j]])
      BY <2>1 DEF TypeOK, ListInv, Begun
    <3>2. /\ drives'[list[j]] = 1
          /\ \A q \in Callers : q # list[j] => drives'[q] = drives[q]
      BY <2>1, <2>2, <3>1 DEF BegunOnce
    <3> QED
      BY <2>2, <2>4, <3>1, <3>2 DEF BegunOnce, Begun
  <2>9. PassedIsBegun(list, new, j)
    BY <1>0, <2>1, <2>2, <2>4, <2>5 DEF PassedIsBegun, Begun
  <2>10. CallerInv(list, new, r)'
    BY <2>1, <2>4, <2>9 DEF CallerInv, TypeOK
  <2>11. ASSUME NEW q \in Callers \ {r}
         PROVE  CallerInv(list, new, q)'
    <3>1. pc'[q] = pc[q] /\ at'[q] = at[q] /\ outcome'[q] = outcome[q]
      BY <2>1 DEF TypeOK
    <3>2. CallerInv(list, states, q)
      BY DEF OthersKeep
    <3>3. pc[q] = "drive" => PassedIsBegun(list, new, at[q])
      BY <1>0, <2>4, <3>2 DEF CallerInv, PassedIsBegun, Begun
    <3> QED
      BY <2>1, <2>4, <3>1, <3>2, <3>3 DEF CallerInv
  <2> QED
    BY <2>1, <2>3, <2>6, <2>7, <2>8, <2>10, <2>11, Unprimed DEF ListInv, new
<1>2. CASE PendingFrom(list, states, i) = {}
  <2>1. /\ state' = states /\ drives' = drives
        /\ at' = [at EXCEPT ![r] = 0]
        /\ \/ pc' = [pc EXCEPT ![r] = "reflect"] /\ outcome' = outcome
           \/ /\ pc' = [pc EXCEPT ![r] = "over"]
              /\ \E how \in {"returned", "failed"} : outcome' = [outcome EXCEPT ![r] = how]
    BY <1>2 DEF Drive, End, Goto
  <2>2. TypeOK'
    <3>1. /\ tasks' \in Seq(Callers) /\ state' \in [Callers -> States]
          /\ at' \in [Callers -> Nat] /\ drives' \in [Callers -> Nat]
      BY <2>1 DEF TypeOK
    <3>2. pc' \in [Callers -> {"idle", "plan", "submitted", "drive", "reflect", "over"}]
      BY <2>1 DEF TypeOK
    <3>3. outcome' \in [Callers -> {"none", "completed", "failed", "returned", "raised", "cancelled"}]
      BY <2>1 DEF TypeOK
    <3> QED
      BY <3>1, <3>2, <3>3 DEF TypeOK, States
  <2>3. states[r] # "pending"
    <3>1. PICK k \in DOMAIN list : list[k] = r
      BY <1>0
    <3>2. k < i \/ k >= i
      BY <1>0
    <3>3. k >= i => states[list[k]] # "pending"
      BY <1>2, NextPending
    <3> QED
      BY <1>0, <3>1, <3>2, <3>3 DEF Begun
  <2>4. CallerInv(list, states, r)'
    BY <2>1, <2>3 DEF CallerInv, TypeOK
  <2>5. ASSUME NEW q \in Callers \ {r}
        PROVE  CallerInv(list, states, q)'
    <3>1. pc'[q] = pc[q] /\ at'[q] = at[q] /\ outcome'[q] = outcome[q]
      BY <2>1 DEF TypeOK
    <3> QED
      BY <3>1 DEF OthersKeep, CallerInv
  <2>6. ListInv(list, states)'
    BY <2>1 DEF ListInv, BegunOnce, ListsEachOnce, PendingIsLast
  <2> QED
    BY <2>1, <2>2, <2>4, <2>5, <2>6, Unprimed
<1> QED
  BY <1>1, <1>2

\* The task of a call is added to the list.
LEMMA Submission ==
  ASSUME IInv, NEW r \in Callers, state[r] = "none"
  PROVE  LET list == Append(tasks, r)
             states == [state EXCEPT ![r] = "pending"]
         IN  /\ list \in Seq(Callers) /\ states \in [Callers -> States]
             /\ ListInv(list, states) /\ OthersKeep(r, list, states)
             /\ states[r] # "none"
<1> DEFINE list == Append(tasks, r)
           states == [state EXCEPT ![r] = "pending"]
<1>1. /\ tasks \in Seq(Callers) /\ state \in [Callers -> States]
      /\ ListsEachOnce(tasks, state) /\ PendingIsLast(tasks, state) /\ BegunOnce(state)
  BY DEF IInv, TypeOK, States, ListInv
<1>2. /\ list \in Seq(Callers) /\ Len(tasks) \in Nat
      /\ DOMAIN tasks = 1..Len(tasks) /\ DOMAIN list = 1..(Len(tasks) + 1)
      /\ \A k \in DOMAIN tasks : list[k] = tasks[k] /\ tasks[k] \in Callers
      /\ list[Len(tasks) + 1] = r
  BY <1>1
<1>3. /\ states \in [Callers -> States]
      /\ \A q \in Callers : states[q] = IF q = r THEN "pending" ELSE state[q]
  BY <1>1 DEF States
<1>4. \A k \in DOMAIN tasks : tasks[k] # r
  BY <1>1, <1>2 DEF ListsEachOnce
<1>5. \A k \in DOMAIN list : k \in DOMAIN tasks \/ k = Len(tasks) + 1
  BY <1>2
<1> HIDE DEF list, states
<1>6. ListsEachOnce(list, states)
  <2>1. \A i, j \in DOMAIN list : list[i] = list[j] => i = j
    BY <1>1, <1>2, <1>4, <1>5 DEF ListsEachOnce
  <2>2. \A q \in Callers : states[q] # "none" => \E i \in DOMAIN list : list[i] = q
    <3>1. Len(tasks) + 1 \in DOMAIN list /\ DOMAIN tasks \subseteq DOMAIN list
      BY <1>2
    <3> QED
      BY <1>1, <1>2, <1>3, <3>1 DEF ListsEachOnce
  <2>3. \A i \in DOMAIN list : states[list[i]] # "none"
    BY <1>1, <1>2, <1>3, <1>4, <1>5 DEF ListsEachOnce
  <2> QED
    BY <2>1, <2>2, <2>3 DEF ListsEachOnce
<1>7. PendingIsLast(list, states)
  <2>1. ASSUME NEW i \in DOMAIN list, NEW j \in DOMAIN list, i < j, states[list[i]] = "pending"
        PROVE  states[list[j]] = "pending"
    <3>1. i \in DOMAIN tasks
      BY <1>2, <2>1
    <3>2. state[tasks[i]] = "pending"
      BY <1>2, <1>3, <1>4, <2>1, <3>1
    <3>3. CASE j \in DOMAIN tasks
      BY <1>1, <1>2, <1>3, <1>4, <2>1, <3>1, <3>2, <3>3 DEF PendingIsLast
    <3>4. CASE j = Len(tasks) + 1
      BY <1>2, <1>3, <3>4
    <3> QED
      BY <1>5, <3>3, <3>4
  <2> QED
    BY <2>1 DEF PendingIsLast
<1>8. BegunOnce(states)
  BY <1>1, <1>3 DEF BegunOnce, Begun
<1>9. ASSUME NEW q \in Callers \ {r}
      PROVE  CallerInv(list, states, q)
  <2>1. CallerInv(tasks, state, q)
    BY DEF IInv
  <2>2. ASSUME pc[q] = "drive"
        PROVE  at[q] \in DOMAIN list /\ PassedIsBegun(list, states, at[q])
    <3>1. at[q] \in DOMAIN tasks /\ PassedIsBegun(tasks, state, at[q])
      BY <2>1, <2>2 DEF CallerInv
    <3>2. ASSUME NEW k \in DOMAIN list, k <= at[q]
          PROVE  Begun(states[list[k]])
      <4>1. k \in DOMAIN tasks
        BY <1>2, <3>1, <3>2
      <4> QED
        BY <1>2, <1>3, <1>4, <3>1, <3>2, <4>1 DEF PassedIsBegun
    <3> QED
      BY <1>2, <3>1, <3>2 DEF PassedIsBegun
  <2> QED
    BY <1>3, <2>1, <2>2 DEF CallerInv
<1>10. /\ list \in Seq(Callers) /\ states \in [Callers -> States]
       /\ ListInv(list, states) /\ OthersKeep(r, list, states)
       /\ states[r] # "none"
  BY <1>2, <1>3, <1>6, <1>7, <1>8, <1>9 DEF ListInv, OthersKeep
<1> QED
  BY <1>10 DEF list, states

\* The task in hand is over.
LEMMA Ending ==
  ASSUME IInv, NEW r \in Callers, pc[r] = "drive", NEW s \in {"done", "failed"}
  PROVE  LET states == [state EXCEPT ![Driven(r)] = s]
         IN  /\ states \in [Callers -> States] /\ ListInv(tasks, states)
             /\ \A q \in Callers : CallerInv(tasks, states, q)
<1> DEFINE states == [state EXCEPT ![Driven(r)] = s]
<1>1. /\ tasks \in Seq(Callers) /\ state \in [Callers -> States]
      /\ \A k \in DOMAIN tasks : tasks[k] \in Callers
      /\ at[r] \in DOMAIN tasks /\ at[r] \in Nat
      /\ PassedIsBegun(tasks, state, at[r])
  BY DEF IInv, TypeOK, States, CallerInv
<1>2. Driven(r) \in Callers /\ Begun(state[Driven(r)])
  BY <1>1 DEF Driven, PassedIsBegun
<1>3. /\ states \in [Callers -> States]
      /\ \A q \in Callers : states[q] = IF q = Driven(r) THEN s ELSE state[q]
  BY <1>1, <1>2 DEF States
<1> HIDE DEF states
<1>4. \A q \in Callers :
        /\ Begun(states[q]) <=> Begun(state[q])
        /\ states[q] = "none" <=> state[q] = "none"
        /\ states[q] = "pending" <=> state[q] = "pending"
  BY <1>2, <1>3 DEF Begun
<1>5. ListInv(tasks, states)
  BY <1>1, <1>4 DEF IInv, ListInv, ListsEachOnce, PendingIsLast, BegunOnce
<1>6. ASSUME NEW q \in Callers
      PROVE  CallerInv(tasks, states, q)
  <2>1. CallerInv(tasks, state, q)
    BY DEF IInv
  <2> QED
    BY <1>1, <1>4, <2>1 DEF CallerInv, PassedIsBegun
<1> QED
  BY <1>3, <1>5, <1>6 DEF states

\* A caller that leaves, with the list and its own task as they are in states.
LEMMA EndStep ==
  ASSUME TypeOK, NEW r \in Callers, NEW states \in [Callers -> States],
         NEW how \in {"completed", "raised", "cancelled"},
         ListInv(tasks, states), \A q \in Callers : CallerInv(tasks, states, q),
         how = "completed" => pc[r] = "reflect",
         tasks' = tasks, state' = states, drives' = drives, End(r, how)
  PROVE  IInv'
<1>1. TypeOK'
  BY DEF TypeOK, States, End, Goto
<1>2. /\ pc'[r] = "over" /\ outcome'[r] = how
      /\ \A q \in Callers \ {r} : pc'[q] = pc[q] /\ at'[q] = at[q] /\ outcome'[q] = outcome[q]
  BY DEF TypeOK, End, Goto
<1>3. ListInv(tasks, states)'
  BY DEF ListInv, ListsEachOnce, PendingIsLast, BegunOnce
<1> QED
  BY <1>1, <1>2
  DEF IInv, ListInv, ListsEachOnce, PendingIsLast, BegunOnce, CallerInv, PassedIsBegun

\* Every step of one caller.
LEMMA CallerSteps ==
  ASSUME IInv, NEW r \in Callers,
         (r \in Runs /\ Call(r)) \/ (r \in Clients /\ Submit(r)) \/ Step(r) \/ Cancel(r)
  PROVE  IInv'
<1>0. /\ TypeOK /\ ListInv(tasks, state) /\ \A q \in Callers : CallerInv(tasks, state, q)
      /\ tasks \in Seq(Callers) /\ state \in [Callers -> States]
  BY DEF IInv, TypeOK, States
<1>1. CASE Call(r)
  <2>1. TypeOK'
    BY <1>0, <1>1 DEF TypeOK, Call, Goto
  <2>2. /\ UNCHANGED <<tasks, state, at, outcome, drives>> /\ pc[r] = "idle" /\ pc'[r] = "plan"
        /\ \A q \in Callers \ {r} : pc'[q] = pc[q]
    BY <1>0, <1>1 DEF TypeOK, Call, Goto
  <2> QED
    BY <1>0, <2>1, <2>2
    DEF IInv, ListInv, ListsEachOnce, PendingIsLast, BegunOnce, CallerInv, PassedIsBegun
<1>2. CASE Submit(r)
  <2>1. state[r] = "none"
    BY <1>0, <1>2 DEF Submit, CallerInv
  <2> DEFINE list == Append(tasks, r)
             states == [state EXCEPT ![r] = "pending"]
  <2>2. /\ list \in Seq(Callers) /\ states \in [Callers -> States]
        /\ ListInv(list, states) /\ OthersKeep(r, list, states) /\ states[r] # "none"
    BY <2>1, Submission
  <2>3. tasks' = list /\ state' = states
    BY <1>2 DEF Submit
  <2> HIDE DEF list, states
  <2>4. TypeOK'
    BY <1>0, <1>2, <2>2, <2>3 DEF TypeOK, Submit, Goto, States
  <2>5. /\ UNCHANGED <<at, outcome, drives>> /\ pc[r] = "idle" /\ pc'[r] = "submitted"
        /\ \A q \in Callers \ {r} : pc'[q] = pc[q]
    BY <1>0, <1>2 DEF TypeOK, Submit, Goto
  <2>6. CallerInv(tasks, state, r)
    BY <1>0
  <2> QED
    BY <2>2, <2>3, <2>4, <2>5, <2>6
    DEF IInv, ListInv, ListsEachOnce, PendingIsLast, BegunOnce, CallerInv, PassedIsBegun,
        OthersKeep
<1>3. CASE RunUntilIdle(r)
  <2>1. state[r] # "none" /\ outcome[r] = "none" /\ OthersKeep(r, tasks, state)
    BY <1>0, <1>3 DEF RunUntilIdle, CallerInv, OthersKeep
  <2>2. PassedIsBegun(tasks, state, 1 - 1)
    BY <1>0 DEF PassedIsBegun
  <2> QED
    BY <1>0, <1>3, <2>1, <2>2, DriveStep DEF RunUntilIdle
<1>4. CASE Planned(r)
  <2>1. state[r] = "none" /\ outcome[r] = "none"
    BY <1>0, <1>4 DEF Planned, CallerInv
  <2> DEFINE list == Append(tasks, r)
             states == [state EXCEPT ![r] = "pending"]
  <2>2. /\ list \in Seq(Callers) /\ states \in [Callers -> States]
        /\ ListInv(list, states) /\ OthersKeep(r, list, states) /\ states[r] # "none"
    BY <2>1, Submission
  <2>3. tasks' = list /\ Drive(r, list, states, 1)
    BY <1>4 DEF Planned
  <2> HIDE DEF list, states
  <2>4. PassedIsBegun(list, states, 1 - 1)
    BY <2>2 DEF PassedIsBegun
  <2> QED
    BY <1>0, <2>1, <2>2, <2>3, <2>4, DriveStep
<1>5. CASE Executed(r)
  <2> DEFINE states == [state EXCEPT ![Driven(r)] = "done"]
  <2>1. /\ states \in [Callers -> States] /\ ListInv(tasks, states)
        /\ \A q \in Callers : CallerInv(tasks, states, q)
    BY <1>5, Ending DEF Executed
  <2>2. Drive(r, tasks, states, at[r] + 1) /\ tasks' = tasks /\ pc[r] = "drive"
    BY <1>5 DEF Executed
  <2> HIDE DEF states
  <2>3. /\ at[r] \in Nat /\ at[r] + 1 \in Nat \ {0} /\ (at[r] + 1) - 1 = at[r]
    BY <1>0 DEF TypeOK
  <2>4. /\ PassedIsBegun(tasks, states, (at[r] + 1) - 1) /\ states[r] # "none"
        /\ outcome[r] = "none" /\ OthersKeep(r, tasks, states)
    BY <2>1, <2>2, <2>3 DEF CallerInv, OthersKeep
  <2> QED
    BY <1>0, <2>1, <2>2, <2>3, <2>4, DriveStep
<1>6. CASE ExecutorRaises(r)
  <2> DEFINE states == [state EXCEPT ![Driven(r)] = "failed"]
  <2>1. /\ states \in [Callers -> States] /\ ListInv(tasks, states)
        /\ \A q \in Callers : CallerInv(tasks, states, q)
    BY <1>6, Ending DEF ExecutorRaises
  <2>2. tasks' = tasks /\ state' = states /\ drives' = drives /\ End(r, "raised")
    BY <1>6 DEF ExecutorRaises
  <2> HIDE DEF states
  <2> QED
    BY <1>0, <2>1, <2>2, EndStep
<1>7. CASE Reflected(r) \/ Raises(r) \/ Cancel(r)
  BY <1>0, <1>7, EndStep DEF Reflected, Raises, Cancel
<1> QED
  BY <1>1, <1>2, <1>3, <1>4, <1>5, <1>6, <1>7 DEF Step

LEMMA InvInit == Init => IInv
  BY DEF Init, IInv, TypeOK, ListInv, ListsEachOnce, PendingIsLast, BegunOnce, Begun, CallerInv

LEMMA InvStep == IInv /\ [Next]_vars => IInv'
<1> SUFFICES ASSUME IInv, [Next]_vars PROVE IInv'
  OBVIOUS
<1>1. CASE UNCHANGED vars
  BY <1>1
  DEF vars, IInv, TypeOK, ListInv, ListsEachOnce, PendingIsLast, BegunOnce, CallerInv,
      PassedIsBegun
<1>2. CASE Next
  BY <1>2, CallerSteps DEF Next, Callers
<1> QED
  BY <1>1, <1>2

LEMMA Invariance == Spec => []IInv
  BY InvInit, InvStep, PTL DEF Spec

----------------------------------------------------------------------------
(* Results *)

\* The types of the module.
THEOREM TypeCorrectness == Spec => []TypeOK
<1>1. IInv => TypeOK
  BY DEF IInv
<1> QED
  BY Invariance, <1>1, PTL

\* Any number of calls that drive the one list execute each task at most once.
THEOREM NoTaskTwice == Spec => []ExecutedOnce
<1>1. IInv => ExecutedOnce
  BY DEF IInv, ListInv, BegunOnce, ExecutedOnce
<1> QED
  BY Invariance, <1>1, PTL

\* Wherever the calls have got to in the list, its pending tasks are at its end.
THEOREM SubmissionOrder == Spec => []StartedInOrder
<1>1. IInv => StartedInOrder
  BY DEF IInv, ListInv, PendingIsLast, StartedInOrder
<1> QED
  BY Invariance, <1>1, PTL

\* A call that reports an outcome has not left its task behind.
THEOREM TasksAreSeenTo == Spec => []LeftPendingByErrorsOnly
<1>1. IInv => LeftPendingByErrorsOnly
  BY DEF IInv, CallerInv, LeftPendingByErrorsOnly
<1> QED
  BY Invariance, <1>1, PTL

----------------------------------------------------------------------------
(* The list and its drivers are one queue *)

\* What a caller drives is running, and no other caller drives it.
HandsInv ==
  \A r \in Callers : pc[r] = "drive" =>
    /\ state[Driven(r)] = "running"
    /\ \A q \in Callers \ {r} : pc[q] = "drive" => at[q] # at[r]

BegunAt(list, states) == {i \in DOMAIN list : states[list[i]] # "pending"}

Endings(states) ==
  [t \in Callers |-> IF states[t] \in {"done", "failed"} THEN states[t] ELSE "none"]

\* What a caller does after its task has arrived or the one in its hands has ended: it
\* begins a task, or it stops driving.
Begins(r, list, states) ==
  \/ /\ state' = states
     /\ pc'[r] # "drive"
  \/ /\ pc'[r] = "drive"
     /\ at'[r] \in DOMAIN list
     /\ states[list[at'[r]]] = "pending"
     /\ state' = [states EXCEPT ![list[at'[r]]] = "running"]

LEMMA DriveBegins ==
  ASSUME TypeOK, NEW r \in Callers, NEW list \in Seq(Callers), NEW states,
         NEW i \in Nat \ {0}, Drive(r, list, states, i)
  PROVE  Begins(r, list, states) /\ \A q \in Callers \ {r} : pc'[q] = pc[q] /\ at'[q] = at[q]
<1>0. pc \in [Callers -> {"idle", "plan", "submitted", "drive", "reflect", "over"}]
      /\ at \in [Callers -> Nat]
  BY DEF TypeOK
<1>1. CASE PendingFrom(list, states, i) # {}
  <2>1. PICK j \in DOMAIN list :
          /\ states[list[j]] = "pending"
          /\ state' = [states EXCEPT ![list[j]] = "running"]
          /\ at' = [at EXCEPT ![r] = j]
          /\ pc' = [pc EXCEPT ![r] = "drive"]
    BY <1>1, NextPending DEF Drive, Goto
  <2>2. pc'[r] = "drive" /\ at'[r] = j
    BY <1>0, <2>1
  <2> QED
    BY <1>0, <2>1, <2>2 DEF Begins
<1>2. CASE PendingFrom(list, states, i) = {}
  <2>1. /\ state' = states /\ at' = [at EXCEPT ![r] = 0]
        /\ \E s \in {"reflect", "over"} : pc' = [pc EXCEPT ![r] = s]
    BY <1>2 DEF Drive, End, Goto
  <2> QED
    BY <1>0, <2>1 DEF Begins
<1> QED
  BY <1>1, <1>2

\* The first n numbers are n.
LEMMA FirstNumbers ==
  ASSUME NEW n \in Nat
  PROVE  IsFiniteSet(1..n) /\ Cardinality(1..n) = n
<1>1. n \in Int /\ 1 \in Int /\ (IF 1 > n THEN 0 ELSE n - 1 + 1) = n
  OBVIOUS
<1>2. IsFiniteSet(1..n) /\ Cardinality(1..n) = IF 1 > n THEN 0 ELSE n - 1 + 1
  BY <1>1, FS_Interval
<1> QED
  BY <1>1, <1>2

\* How many tasks of a list were begun.
LEMMA BegunCount ==
  ASSUME NEW list \in Seq(Callers), NEW states
  PROVE  /\ IsFiniteSet(BegunAt(list, states))
         /\ Cardinality(BegunAt(list, states)) \in Nat
         /\ Cardinality(BegunAt(list, states)) <= Len(list)
<1>1. Len(list) \in Nat /\ DOMAIN list = 1..Len(list)
  OBVIOUS
<1>2. IsFiniteSet(1..Len(list)) /\ Cardinality(1..Len(list)) = Len(list)
  BY <1>1, FirstNumbers
<1>3. BegunAt(list, states) \in SUBSET (1..Len(list))
  BY <1>1 DEF BegunAt
<1> QED
  BY <1>2, <1>3, FS_Subset, FS_CardinalityType

\* A beginning is one of the next number, and ends nothing.
LEMMA BeginsNext ==
  ASSUME NEW r \in Callers, NEW list \in Seq(Callers), NEW states \in [Callers -> States],
         \A i, j \in DOMAIN list : list[i] = list[j] => i = j,
         Begins(r, list, states)
  PROVE  /\ Cardinality(BegunAt(list, state')) \in
              {Cardinality(BegunAt(list, states)), Cardinality(BegunAt(list, states)) + 1}
         /\ Endings(state') = Endings(states)
<1>1. CASE state' = states
  BY <1>1
<1>2. CASE state' # states
  <2> DEFINE j == at'[r]
  <2>1. /\ j \in DOMAIN list /\ states[list[j]] = "pending"
        /\ state' = [states EXCEPT ![list[j]] = "running"]
    BY <1>2 DEF Begins
  <2> HIDE DEF j
  <2>2. \A i \in DOMAIN list : list[i] \in Callers
    OBVIOUS
  <2>3. /\ state'[list[j]] = "running"
        /\ \A q \in Callers : q # list[j] => state'[q] = states[q]
    BY <2>1, <2>2
  <2>4. \A i \in DOMAIN list : i # j => state'[list[i]] = states[list[i]]
    BY <2>1, <2>2, <2>3
  <2>5. BegunAt(list, state') = BegunAt(list, states) \union {j} /\ j \notin BegunAt(list, states)
    BY <2>1, <2>3, <2>4 DEF BegunAt
  <2>6. Cardinality(BegunAt(list, state')) = Cardinality(BegunAt(list, states)) + 1
    BY <2>5, BegunCount, FS_AddElement
  <2>7. \A q \in Callers :
          (IF state'[q] \in {"done", "failed"} THEN state'[q] ELSE "none")
            = IF states[q] \in {"done", "failed"} THEN states[q] ELSE "none"
    BY <2>1, <2>2, <2>3
  <2> QED
    BY <2>6, <2>7 DEF Endings
<1> QED
  BY <1>1, <1>2

\* Who begins a task has it alone, if what the others have in hand is running still.
LEMMA HandsAfter ==
  ASSUME HandsInv, NEW r \in Callers, NEW list \in Seq(Callers), NEW states \in [Callers -> States],
         \A i, j \in DOMAIN list : list[i] = list[j] => i = j,
         \A q \in Callers \ {r} : pc[q] = "drive" =>
           at[q] \in DOMAIN list /\ states[list[at[q]]] = "running",
         Begins(r, list, states), tasks' = list,
         \A q \in Callers \ {r} : pc'[q] = pc[q] /\ at'[q] = at[q]
  PROVE  HandsInv'
<1>0. \A i \in DOMAIN list : list[i] \in Callers
  OBVIOUS
<1>1. ASSUME NEW q \in Callers \ {r}, pc'[q] = "drive"
      PROVE  /\ state'[tasks'[at'[q]]] = "running"
             /\ pc'[r] = "drive" => at'[q] # at'[r]
  <2>1. /\ at'[q] = at[q] /\ pc[q] = "drive"
        /\ at[q] \in DOMAIN list /\ states[list[at[q]]] = "running"
    BY <1>1
  <2>2. pc'[r] = "drive" => at'[q] # at'[r]
    BY <2>1 DEF Begins
  <2>3. CASE state' = states
    BY <2>1, <2>2, <2>3
  <2>4. CASE state' # states
    <3>1. /\ at'[r] \in DOMAIN list /\ state' = [states EXCEPT ![list[at'[r]]] = "running"]
      BY <2>4 DEF Begins
    <3>2. state'[list[at[q]]] = "running"
      BY <1>0, <2>1, <3>1
    <3> QED
      BY <2>1, <2>2, <3>2
  <2> QED
    BY <2>3, <2>4
<1>2. pc'[r] = "drive" => state'[tasks'[at'[r]]] = "running"
  BY <1>0 DEF Begins
<1>3. ASSUME NEW p \in Callers \ {r}, NEW q \in Callers \ {r}, p # q,
             pc'[p] = "drive", pc'[q] = "drive"
      PROVE  at'[p] # at'[q]
  <2>1. pc[p] = "drive" /\ pc[q] = "drive" /\ at'[p] = at[p] /\ at'[q] = at[q]
    BY <1>3
  <2> QED
    BY <1>3, <2>1 DEF HandsInv
<1> QED
  BY <1>1, <1>2, <1>3 DEF HandsInv, Driven

\* The parts of a step of the queue.
ArrivalPart(list) ==
  \/ list = tasks
  \/ \E t \in Callers : (\A i \in DOMAIN tasks : tasks[i] # t) /\ list = Append(tasks, t)

EndingPart(states) ==
  \/ Endings(states) = Endings(state)
  \/ \E i \in 1..Cardinality(BegunAt(tasks, state)), how \in {"done", "failed"} :
       /\ Endings(state)[tasks[i]] = "none"
       /\ Endings(states) = [Endings(state) EXCEPT ![tasks[i]] = how]

\* A task arrives, as the last one.
LEMMA ArrivalKeeps ==
  ASSUME IInv, HandsInv, NEW r \in Callers, state[r] = "none"
  PROVE  LET list == Append(tasks, r)
             states == [state EXCEPT ![r] = "pending"]
         IN  /\ ArrivalPart(list) /\ EndingPart(states)
             /\ BegunAt(list, states) = BegunAt(tasks, state)
             /\ \A q \in Callers : pc[q] = "drive" =>
                  at[q] \in DOMAIN list /\ states[list[at[q]]] = "running"
<1> DEFINE list == Append(tasks, r)
           states == [state EXCEPT ![r] = "pending"]
<1>1. /\ tasks \in Seq(Callers) /\ state \in [Callers -> States]
      /\ \A i \in DOMAIN tasks : tasks[i] \in Callers /\ state[tasks[i]] # "none"
  BY DEF IInv, TypeOK, States, ListInv, ListsEachOnce
<1>2. /\ Len(tasks) \in Nat
      /\ DOMAIN tasks = 1..Len(tasks) /\ DOMAIN list = 1..(Len(tasks) + 1)
      /\ \A k \in DOMAIN tasks : k \in DOMAIN list /\ list[k] = tasks[k]
      /\ list[Len(tasks) + 1] = r
  BY <1>1
<1>3. \A q \in Callers : states[q] = IF q = r THEN "pending" ELSE state[q]
  BY <1>1 DEF States
<1>4. \A k \in DOMAIN tasks : tasks[k] # r
  BY <1>1
<1>5. \A k \in DOMAIN list : k \in DOMAIN tasks \/ k = Len(tasks) + 1
  BY <1>2
<1>6. ArrivalPart(list)
  BY <1>4 DEF ArrivalPart
<1> HIDE DEF list, states
<1>7. EndingPart(states)
  <2>1. \A q \in Callers :
          (IF states[q] \in {"done", "failed"} THEN states[q] ELSE "none")
            = IF state[q] \in {"done", "failed"} THEN state[q] ELSE "none"
    BY <1>3
  <2> QED
    BY <2>1 DEF EndingPart, Endings
<1>8. BegunAt(list, states) = BegunAt(tasks, state)
  <2>1. \A k \in DOMAIN list :
          states[list[k]] # "pending" <=> k \in DOMAIN tasks /\ state[tasks[k]] # "pending"
    <3>1. Len(tasks) + 1 \notin DOMAIN tasks
      BY <1>2
    <3> QED
      BY <1>1, <1>2, <1>3, <1>4, <1>5, <3>1
  <2> QED
    BY <1>2, <2>1 DEF BegunAt
<1>9. ASSUME NEW q \in Callers, pc[q] = "drive"
      PROVE  at[q] \in DOMAIN list /\ states[list[at[q]]] = "running"
  <2>1. at[q] \in DOMAIN tasks /\ state[tasks[at[q]]] = "running"
    BY <1>9 DEF IInv, CallerInv, HandsInv, Driven
  <2> QED
    BY <1>1, <1>2, <1>3, <1>4, <2>1
<1> QED
  BY <1>6, <1>7, <1>8, <1>9 DEF list, states

\* The task in hand ends.
LEMMA EndingKeeps ==
  ASSUME IInv, HandsInv, NEW r \in Callers, pc[r] = "drive", NEW how \in {"done", "failed"}
  PROVE  LET states == [state EXCEPT ![Driven(r)] = how]
         IN  /\ EndingPart(states)
             /\ BegunAt(tasks, states) = BegunAt(tasks, state)
             /\ \A q \in Callers \ {r} : pc[q] = "drive" =>
                  at[q] \in DOMAIN tasks /\ states[tasks[at[q]]] = "running"
<1> DEFINE states == [state EXCEPT ![Driven(r)] = how]
           n == at[r]
<1>1. /\ tasks \in Seq(Callers) /\ state \in [Callers -> States]
      /\ n \in DOMAIN tasks /\ PassedIsBegun(tasks, state, n)
      /\ \A i, j \in DOMAIN tasks : tasks[i] = tasks[j] => i = j
      /\ state[tasks[n]] = "running"
  BY DEF IInv, TypeOK, States, ListInv, ListsEachOnce, CallerInv, HandsInv, Driven
<1>2. \A i \in DOMAIN tasks : tasks[i] \in Callers
  BY <1>1
<1>3. \A q \in Callers : states[q] = IF q = tasks[n] THEN how ELSE state[q]
  BY <1>1, <1>2 DEF Driven
<1> HIDE DEF states, n
<1>4. BegunAt(tasks, states) = BegunAt(tasks, state)
  BY <1>1, <1>2, <1>3 DEF BegunAt
<1>5. n \in 1..Cardinality(BegunAt(tasks, state))
  <2>1. DOMAIN tasks = 1..Len(tasks) /\ Len(tasks) \in Nat /\ n \in Nat /\ n >= 1
    BY <1>1
  <2>2. 1..n \in SUBSET BegunAt(tasks, state)
    BY <1>1, <2>1 DEF PassedIsBegun, Begun, BegunAt
  <2>3. IsFiniteSet(1..n) /\ Cardinality(1..n) = n
    BY <2>1, FirstNumbers
  <2>4. IsFiniteSet(BegunAt(tasks, state)) /\ Cardinality(BegunAt(tasks, state)) \in Nat
    BY <1>1, BegunCount
  <2>5. n <= Cardinality(BegunAt(tasks, state))
    BY <2>2, <2>3, <2>4, FS_Subset
  <2> QED
    BY <2>1, <2>4, <2>5
<1>6. Endings(state)[tasks[n]] = "none"
  BY <1>1, <1>2 DEF Endings
<1>7. Endings(states) = [Endings(state) EXCEPT ![tasks[n]] = how]
  <2>1. \A q \in Callers :
          (IF states[q] \in {"done", "failed"} THEN states[q] ELSE "none")
            = IF q = tasks[n] THEN how ELSE Endings(state)[q]
    BY <1>3 DEF Endings
  <2> QED
    BY <1>1, <1>2, <2>1 DEF Endings
<1>8. EndingPart(states)
  BY <1>5, <1>6, <1>7 DEF EndingPart
<1>9. ASSUME NEW q \in Callers \ {r}, pc[q] = "drive"
      PROVE  at[q] \in DOMAIN tasks /\ states[tasks[at[q]]] = "running"
  <2>1. at[q] \in DOMAIN tasks /\ state[tasks[at[q]]] = "running" /\ at[q] # n
    BY <1>9 DEF IInv, CallerInv, HandsInv, Driven, n
  <2> QED
    BY <1>1, <1>2, <1>3, <2>1
<1> QED
  BY <1>4, <1>8, <1>9 DEF states

\* A step is an arrival or an ending, if it is any, and then a beginning, if it is any.
StepParts(list, states, r) ==
  /\ list \in Seq(Callers) /\ states \in [Callers -> States]
  /\ \A i, j \in DOMAIN list : list[i] = list[j] => i = j
  /\ ArrivalPart(list) /\ EndingPart(states)
  /\ BegunAt(list, states) = BegunAt(tasks, state)
  /\ \A q \in Callers \ {r} : pc[q] = "drive" =>
       at[q] \in DOMAIN list /\ states[list[at[q]]] = "running"
  /\ tasks' = list /\ Begins(r, list, states)
  /\ \A q \in Callers \ {r} : pc'[q] = pc[q] /\ at'[q] = at[q]

LEMMA StepHasParts ==
  ASSUME IInv, HandsInv, NEW r \in Callers,
         (r \in Runs /\ Call(r)) \/ (r \in Clients /\ Submit(r)) \/ Step(r) \/ Cancel(r)
  PROVE  \E list, states : StepParts(list, states, r)
<1>0. /\ TypeOK /\ tasks \in Seq(Callers) /\ state \in [Callers -> States]
      /\ \A i, j \in DOMAIN tasks : tasks[i] = tasks[j] => i = j
      /\ pc \in [Callers -> {"idle", "plan", "submitted", "drive", "reflect", "over"}]
      /\ at \in [Callers -> Nat]
  BY DEF IInv, TypeOK, States, ListInv, ListsEachOnce
<1>1. \A q \in Callers : pc[q] = "drive" =>
        at[q] \in DOMAIN tasks /\ state[tasks[at[q]]] = "running"
  BY DEF IInv, CallerInv, HandsInv, Driven
<1>2. ArrivalPart(tasks) /\ EndingPart(state)
  BY DEF ArrivalPart, EndingPart
<1>3. CASE Call(r) \/ Reflected(r) \/ Raises(r) \/ Cancel(r)
  <2>1. /\ tasks' = tasks /\ state' = state /\ pc'[r] # "drive"
        /\ \A q \in Callers \ {r} : pc'[q] = pc[q] /\ at'[q] = at[q]
    BY <1>0, <1>3 DEF Call, Reflected, Raises, Cancel, End, Goto
  <2>2. StepParts(tasks, state, r)
    BY <1>0, <1>1, <1>2, <2>1 DEF StepParts, Begins
  <2> QED
    BY <2>2
<1>4. CASE Submit(r) \/ Planned(r)
  <2>1. state[r] = "none"
    BY <1>4 DEF Submit, Planned, IInv, CallerInv
  <2> DEFINE list == Append(tasks, r)
             states == [state EXCEPT ![r] = "pending"]
  <2>2. /\ list \in Seq(Callers) /\ states \in [Callers -> States]
        /\ \A i, j \in DOMAIN list : list[i] = list[j] => i = j
    BY <2>1, Submission DEF ListInv, ListsEachOnce
  <2>3. /\ ArrivalPart(list) /\ EndingPart(states)
        /\ BegunAt(list, states) = BegunAt(tasks, state)
        /\ \A q \in Callers : pc[q] = "drive" =>
             at[q] \in DOMAIN list /\ states[list[at[q]]] = "running"
    BY <2>1, ArrivalKeeps
  <2>4. tasks' = list
    BY <1>4 DEF Submit, Planned
  <2>5. Begins(r, list, states) /\ \A q \in Callers \ {r} : pc'[q] = pc[q] /\ at'[q] = at[q]
    <3>1. CASE Submit(r)
      BY <1>0, <3>1 DEF Submit, Goto, Begins
    <3>2. CASE Planned(r)
      <4>1. Drive(r, list, states, 1)
        BY <3>2 DEF Planned
      <4> HIDE DEF list, states
      <4> QED
        BY <1>0, <2>2, <4>1, DriveBegins
    <3> QED
      BY <1>4, <3>1, <3>2
  <2> HIDE DEF list, states
  <2>6. StepParts(list, states, r)
    BY <2>2, <2>3, <2>4, <2>5 DEF StepParts
  <2> QED
    BY <2>6
<1>5. CASE RunUntilIdle(r)
  <2>1. Drive(r, tasks, state, 1) /\ tasks' = tasks
    BY <1>5 DEF RunUntilIdle
  <2>2. Begins(r, tasks, state) /\ \A q \in Callers \ {r} : pc'[q] = pc[q] /\ at'[q] = at[q]
    BY <1>0, <2>1, DriveBegins
  <2>3. StepParts(tasks, state, r)
    BY <1>0, <1>1, <1>2, <2>1, <2>2 DEF StepParts
  <2> QED
    BY <2>3
<1>6. CASE Executed(r) \/ ExecutorRaises(r)
  <2>1. PICK how \in {"done", "failed"} :
          \/ how = "done" /\ Executed(r)
          \/ how = "failed" /\ ExecutorRaises(r)
    BY <1>6
  <2> DEFINE states == [state EXCEPT ![Driven(r)] = how]
  <2>2. pc[r] = "drive" /\ tasks' = tasks
    BY <2>1 DEF Executed, ExecutorRaises
  <2>3. states \in [Callers -> States]
    BY <2>2, Ending
  <2>4. /\ EndingPart(states) /\ BegunAt(tasks, states) = BegunAt(tasks, state)
        /\ \A q \in Callers \ {r} : pc[q] = "drive" =>
             at[q] \in DOMAIN tasks /\ states[tasks[at[q]]] = "running"
    BY <2>2, EndingKeeps
  <2>5. Begins(r, tasks, states) /\ \A q \in Callers \ {r} : pc'[q] = pc[q] /\ at'[q] = at[q]
    <3>1. CASE how = "done"
      <4>1. Drive(r, tasks, states, at[r] + 1)
        BY <2>1, <3>1 DEF Executed
      <4>2. at[r] + 1 \in Nat \ {0}
        BY <1>0
      <4> HIDE DEF states
      <4> QED
        BY <1>0, <4>1, <4>2, DriveBegins
    <3>2. CASE how = "failed"
      BY <1>0, <2>1, <3>2 DEF ExecutorRaises, End, Goto, Begins
    <3> QED
      BY <3>1, <3>2
  <2> HIDE DEF states
  <2>6. StepParts(tasks, states, r)
    BY <1>0, <1>2, <2>2, <2>3, <2>4, <2>5 DEF StepParts
  <2> QED
    BY <2>6
<1> QED
  BY <1>3, <1>4, <1>5, <1>6 DEF Step

\* With the parts in their places, the step is one of the queue.
LEMMA PartsAreQueued ==
  ASSUME NEW r \in Callers, NEW list, NEW states, StepParts(list, states, r)
  PROVE  Queue!Next
<1> DEFINE before == Cardinality(BegunAt(tasks, state))
           after == Cardinality(BegunAt(tasks', state'))
<1>1. /\ list \in Seq(Callers) /\ states \in [Callers -> States] /\ tasks' = list
      /\ \A i, j \in DOMAIN list : list[i] = list[j] => i = j
      /\ Begins(r, list, states) /\ BegunAt(list, states) = BegunAt(tasks, state)
  BY DEF StepParts
<1>2. after \in {before, before + 1} /\ Endings(state') = Endings(states)
  BY <1>1, BeginsNext
<1>3. after <= Len(tasks')
  BY <1>1, BegunCount
<1>4. Queue!Arrival
  BY <1>1 DEF StepParts, ArrivalPart, Queue!Arrival
<1>5. Queue!Beginning
  BY <1>2, <1>3 DEF Queue!Beginning, BegunAt
<1>6. Queue!Ending
  <2>1. EndingPart(states)
    BY DEF StepParts
  <2> QED
    BY <1>2, <2>1 DEF EndingPart, Endings, BegunAt, Queue!Ending
<1> QED
  BY <1>4, <1>5, <1>6 DEF Queue!Next

LEMMA QueueStep ==
  ASSUME IInv, HandsInv, [Next]_vars
  PROVE  HandsInv' /\ [Queue!Next]_Queue!queueVars
<1>1. CASE UNCHANGED vars
  BY <1>1 DEF vars, HandsInv, Driven, Queue!queueVars
<1>2. CASE Next
  <2>1. PICK r \in Callers :
          (r \in Runs /\ Call(r)) \/ (r \in Clients /\ Submit(r)) \/ Step(r) \/ Cancel(r)
    BY <1>2 DEF Next, Callers
  <2>2. PICK list, states : StepParts(list, states, r)
    BY <2>1, StepHasParts
  <2>3. HandsInv'
    BY <2>2, HandsAfter DEF StepParts
  <2> QED
    BY <2>2, <2>3, PartsAreQueued
<1> QED
  BY <1>1, <1>2

\* The scheduler is a queue, whoever drives it and however many do.
THEOREM Refinement == Spec => ImplementsQueue
<1>1. Init => HandsInv /\ Queue!Init
  <2> SUFFICES ASSUME Init PROVE HandsInv /\ Queue!Init
    OBVIOUS
  <2>1. BegunAt(tasks, state) = {}
    BY DEF Init, BegunAt
  <2>2. Cardinality(BegunAt(tasks, state)) = 0
    BY <2>1, FS_EmptySet
  <2>3. tasks = <<>> /\ Endings(state) = [t \in Callers |-> "none"]
    BY DEF Init, Endings
  <2> QED
    BY <2>2, <2>3 DEF Init, HandsInv, Queue!Init, BegunAt, Endings
<1>2. IInv /\ HandsInv /\ [Next]_vars => HandsInv' /\ [Queue!Next]_Queue!queueVars
  BY QueueStep
<1> QED
  BY Invariance, <1>1, <1>2, PTL DEF Spec, Queue!Spec, ImplementsQueue

=============================================================================
