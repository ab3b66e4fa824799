------------------------ MODULE CommitJournal_proofs ------------------------
(***************************************************************************)
(* Proofs about the commit journal file: for any ids, lines, damages and   *)
(* faults, and whatever the bounds are.                                    *)
(***************************************************************************)
EXTENDS CommitJournal, FiniteSetTheorems, SequenceTheorems, TLAPS

----------------------------------------------------------------------------
(* Numbers *)

\* A set of natural numbers has a smallest one.
LEMMA Smallest ==
  ASSUME NEW T \in SUBSET Nat, T # {}
  PROVE  \E x \in T : \A y \in T : x <= y
<1>1. PICK x \in T : \A y \in T : ~ (<<y, x>> \in OpToRel(<, Nat))
  BY NatLessThanWellFounded, WFMin, Zenon
<1>2. \A y \in T : ~ (y < x)
  BY <1>1 DEF OpToRel
<1> QED
  BY <1>2

\* And a largest one, if it is finite.
LEMMA Largest ==
  ASSUME NEW S \in SUBSET Nat, IsFiniteSet(S), S # {}
  PROVE  \E m \in S : \A y \in S : y <= m
<1> DEFINE HasMax(T) == \E m \in T : \A y \in T : y <= m
           Bad == {T \in FiniteSubsetsOf(S) : T # {} /\ ~ HasMax(T)}
<1> SUFFICES ASSUME Bad # {} PROVE FALSE
  BY DEF FiniteSubsetsOf
<1>1. PICK T \in Bad : \A U \in Bad : ~ (<<U, T>> \in StrictSubsetOrdering(S))
  <2>1. Bad \subseteq FiniteSubsetsOf(S)
    OBVIOUS
  <2> HIDE DEF Bad
  <2> QED
    BY <2>1, FS_StrictSubsetOrderingWellFounded, WFMin
<1>2. T \in SUBSET S /\ IsFiniteSet(T) /\ T # {} /\ ~ HasMax(T)
  BY <1>1 DEF FiniteSubsetsOf
<1>3. PICK x \in T : TRUE
  BY <1>2
<1> DEFINE U == T \ {x}
<1>4. U \in FiniteSubsetsOf(S) /\ <<U, T>> \in StrictSubsetOrdering(S)
  BY <1>2, <1>3, FS_RemoveElement DEF FiniteSubsetsOf, StrictSubsetOrdering
<1>5. U = {} \/ HasMax(U)
  BY <1>1, <1>4
<1>6. CASE U = {}
  BY <1>2, <1>3, <1>6
<1>7. CASE HasMax(U)
  <2>1. PICK m \in U : \A y \in U : y <= m
    BY <1>7
  <2>2. CASE x <= m
    BY <1>2, <2>1, <2>2
  <2>3. CASE ~ x <= m
    BY <1>2, <1>3, <2>1, <2>3
  <2> QED
    BY <2>2, <2>3
<1> QED
  BY <1>5, <1>6, <1>7

LEMMA MaxIs ==
  ASSUME NEW S \in SUBSET Nat, NEW m \in S, \A y \in S : y <= m
  PROVE  Max(S) = m
<1>1. ASSUME NEW x \in S, \A y \in S : x >= y PROVE x = m
  <2>1. x \in Nat /\ m \in Nat /\ x <= m /\ x >= m
    BY <1>1
  <2> QED
    BY <2>1
<1>2. \A y \in S : m >= y
  OBVIOUS
<1> QED
  BY <1>1, <1>2 DEF Max

LEMMA MaxOfFinite ==
  ASSUME NEW S \in SUBSET Nat, IsFiniteSet(S), S # {}
  PROVE  Max(S) \in S /\ \A y \in S : y <= Max(S)
BY Largest, MaxIs

\* An enumeration in order leaves no element out.
LEMMA AscendingCovers ==
  ASSUME NEW S \in SUBSET Nat, IsFiniteSet(S), NEW s \in Ascending(S)
  PROVE  /\ Cardinality(S) \in Nat /\ s \in [1..Cardinality(S) -> S]
         /\ \A x \in S : \E i \in 1..Cardinality(S) : s[i] = x
<1> DEFINE n == Cardinality(S)
<1>1. n \in Nat /\ s \in [1..n -> S] /\ \A i, j \in 1..n : i < j => s[i] < s[j]
  BY FS_CardinalityType DEF Ascending
<1> HIDE DEF n
<1>2. IsFiniteSet(1..n) /\ Cardinality(1..n) = n
  BY <1>1, FS_Interval
<1>3. ASSUME NEW i \in 1..n, NEW j \in 1..n, s[i] = s[j] PROVE i = j
  <2>0. i \in 1..n /\ j \in 1..n /\ n \in Nat
    BY <1>1, <1>3
  <2>1. s[i] \in S /\ s[j] \in S
    BY <1>1, <2>0
  <2>3. i \in Nat /\ j \in Nat
    BY <2>0
  <2>4. \A y \in S : y \in Nat
    OBVIOUS
  <2>5. s[i] \in Nat /\ s[j] \in Nat
    BY <2>1, <2>4
  <2>2. ~ i < j /\ ~ j < i
    BY <1>1, <1>3, <2>0, <2>5
  <2> QED
    BY <2>2, <2>3
<1>4. s \in Injection(1..n, S)
  BY <1>1, <1>3 DEF Injection, IsInjective
<1>5. s \in Surjection(1..n, S)
  BY <1>2, <1>4, FS_Injection DEF n
<1> QED
  BY <1>1, <1>5 DEF Surjection, n

\* Of the first n numbers it is these in their places.
LEMMA AscendingOfAll ==
  ASSUME NEW n \in Nat, NEW s \in Ascending(1..n)
  PROVE  s = [i \in 1..n |-> i]
<1>1. IsFiniteSet(1..n) /\ Cardinality(1..n) = n
  BY FS_Interval
<1>2. /\ s \in [1..n -> 1..n]
      /\ \A i, j \in 1..n : i < j => s[i] < s[j]
      /\ \A x \in 1..n : \E i \in 1..n : s[i] = x
  <2>1. 1..n \in SUBSET Nat
    OBVIOUS
  <2> DEFINE S == 1..n
  <2> HIDE DEF S
  <2>2. /\ s \in [1..Cardinality(S) -> S]
        /\ \A x \in S : \E i \in 1..Cardinality(S) : s[i] = x
    BY <1>1, <2>1, AscendingCovers DEF S
  <2>3. s \in [1..n -> 1..n] /\ \A x \in 1..n : \E i \in 1..n : s[i] = x
    BY <1>1, <2>2 DEF S
  <2> QED
    BY <1>1, <2>3 DEF Ascending
<1> DEFINE Moved == {i \in 1..n : s[i] # i}
<1>3. ASSUME Moved # {} PROVE FALSE
  <2>1. PICK x \in Moved : \A y \in Moved : x <= y
    <3>1. Moved \in SUBSET Nat
      OBVIOUS
    <3> HIDE DEF Moved
    <3> QED
      BY <1>3, <3>1, Smallest
  <2>2. x \in 1..n /\ s[x] # x /\ \A y \in 1..n : y < x => s[y] = y
    BY <2>1
  <2>3. PICK z \in 1..n : s[z] = x
    BY <1>2, <2>2
  <2>4. z > x
    BY <2>2, <2>3
  <2>5. s[x] < x
    BY <1>2, <2>2, <2>3, <2>4
  <2>6. s[s[x]] = s[x]
    BY <1>2, <2>2, <2>5
  <2> QED
    BY <1>2, <2>2, <2>5, <2>6
<1> QED
  BY <1>2, <1>3

----------------------------------------------------------------------------
(* Reading and numbering *)

\* The next number is one.
LEMMA NextSequenceIsANumber ==
  ASSUME file \in Seq(Line)
  PROVE  NextSequence \in Nat \ {0}
<1> DEFINE n == Len(file)
           f == [i \in 1..n |-> NumberIn(file[i])]
           N == {NumberIn(file[i]) : i \in DOMAIN file}
<1>1. n \in Nat /\ DOMAIN file = 1..n /\ \A i \in 1..n : file[i] \in Line
  BY LenProperties
<1>2. \A i \in 1..n : NumberIn(file[i]) \in Nat
  BY <1>1 DEF NumberIn, Line
<1>3. N \in SUBSET Nat
  BY <1>1, <1>2
<1>4. f \in Surjection(1..n, N)
  BY <1>1, <1>2 DEF Surjection
<1>5. IsFiniteSet(N)
  <2> HIDE DEF f, N, n
  <2> QED
    BY <1>1, <1>4, FS_Interval, FS_Surjection
<1>6. IsFiniteSet({0} \union N)
  <2> HIDE DEF N
  <2> QED
    BY <1>5, FS_Singleton, FS_Union
<1>7. Max({0} \union N) \in Nat
  <2>1. {0} \union N \in SUBSET Nat /\ {0} \union N # {}
    BY <1>3
  <2> HIDE DEF N
  <2> QED
    BY <1>6, <2>1, MaxOfFinite
<1> QED
  BY <1>7 DEF NextSequence

\* Lines that are numbered without a gap or a repetition.
Dense ==
  \A i \in DOMAIN file : Usable(file[i]) /\ file[i].seq = i

\* Their next number is that of the next line.
LEMMA DenseNext ==
  ASSUME file \in Seq(Line), Dense
  PROVE  NextSequence = Len(file) + 1
<1> DEFINE n == Len(file)
           S == {0} \union {NumberIn(file[i]) : i \in DOMAIN file}
<1>1. n \in Nat /\ DOMAIN file = 1..n
  BY LenProperties
<1>2. \A i \in 1..n : NumberIn(file[i]) = i
  BY <1>1 DEF Dense, NumberIn, Parses, Usable
<1>3. S \in SUBSET Nat /\ \A y \in S : y <= n
  BY <1>1, <1>2
<1>4. n \in S
  <2>1. CASE n = 0
    BY <2>1
  <2>2. CASE n # 0
    BY <1>1, <1>2, <2>2
  <2> QED
    BY <2>1, <2>2
<1>5. Max(S) = n
  <2> HIDE DEF S, n
  <2> QED
    BY <1>3, <1>4, MaxIs
<1> QED
  BY <1>5 DEF NextSequence

\* A reader expects of each line its position, and accepts them all.
LEMMA DenseIsAccepted ==
  ASSUME file \in Seq(Line), Dense
  PROVE  Accepted = DOMAIN file
<1> DEFINE n == Len(file)
           D == 1..(n + 1)
           Reads(f) == f = [i \in D |->
                              IF i = 1 THEN 1 ELSE Max({f[i - 1], NumberIn(file[i - 1])}) + 1]
           id == [i \in D |-> i]
<1>1. n \in Nat /\ DOMAIN file = 1..n
  BY LenProperties
<1>2. \A i \in 1..n : NumberIn(file[i]) = i
  BY <1>1 DEF Dense, NumberIn, Parses, Usable
<1>3. ASSUME NEW i \in D, i # 1, NEW g, g[i - 1] = i - 1
      PROVE  Max({g[i - 1], NumberIn(file[i - 1])}) + 1 = i
  <2>1. i - 1 \in 1..n
    BY <1>1, <1>3
  <2>2. NumberIn(file[i - 1]) = i - 1
    BY <1>2, <2>1
  <2> DEFINE m == i - 1
             P == {m}
  <2>3. P \in SUBSET Nat /\ m \in P /\ \A y \in P : y <= m
    BY <2>1
  <2>4. Max(P) = m
    <3> HIDE DEF P, m
    <3> QED
      BY <2>3, MaxIs
  <2>5. {g[i - 1], NumberIn(file[i - 1])} = P
    BY <1>3, <2>2
  <2>6. Max({g[i - 1], NumberIn(file[i - 1])}) = m
    <3> HIDE DEF P, m
    <3> QED
      BY <2>4, <2>5
  <2> QED
    BY <1>1, <2>1, <2>6
<1>4. Reads(id)
  <2>1. ASSUME NEW i \in D
        PROVE  i = IF i = 1 THEN 1 ELSE Max({id[i - 1], NumberIn(file[i - 1])}) + 1
    <3>1. CASE i = 1
      BY <3>1
    <3>2. CASE i # 1
      <4>1. id[i - 1] = i - 1
        BY <1>1, <3>2
      <4> HIDE DEF id
      <4> QED
        BY <1>3, <3>2, <4>1
    <3> QED
      BY <3>1, <3>2
  <2> QED
    BY <2>1
<1>5. Expected = CHOOSE f : Reads(f)
  BY DEF Expected
<1>6. Reads(Expected)
  <2> HIDE DEF Reads, id
  <2> QED
    BY <1>4, <1>5
<1>7. \A i \in D : Expected[i] = i
  <2> DEFINE Others == {i \in D : Expected[i] # i}
  <2> SUFFICES ASSUME Others # {} PROVE FALSE
    OBVIOUS
  <2>1. PICK x \in Others : \A y \in Others : x <= y
    <3>1. Others \in SUBSET Nat
      BY <1>1
    <3> HIDE DEF Others
    <3> QED
      BY <3>1, Smallest
  <2>2. x \in D /\ Expected[x] # x /\ x \in Nat \ {0}
    BY <1>1, <2>1
  <2>3. Expected[x] = IF x = 1 THEN 1 ELSE Max({Expected[x - 1], NumberIn(file[x - 1])}) + 1
    BY <1>6, <2>2
  <2>4. x # 1
    BY <2>2, <2>3
  <2>5. x - 1 \in D /\ ~ x <= x - 1
    BY <1>1, <2>2, <2>4
  <2>6. Expected[x - 1] = x - 1
    BY <2>1, <2>5
  <2> QED
    BY <1>3, <2>2, <2>3, <2>4, <2>6
<1> QED
  BY <1>1, <1>7 DEF Accepted, Dense

----------------------------------------------------------------------------
(* The inductive invariant *)

\* Up to the first fault the lines are those of intents, one each, in the order and with
\* the numbers they were appended with.
CleanIsDense ==
  Clean =>
    /\ ~ open /\ quarantine = {}
    /\ Dense
    /\ \A i \in DOMAIN file : \E id \in Ids : file[i].ids = {id}

IInv ==
  /\ TypeOK
  /\ open => file # <<>>
  /\ NothingVanishes
  /\ CleanIsDense

\* The bytes of line x are in line y.
IsIn(x, y) == x.ids \subseteq y.ids

LEMMA LineValues ==
  /\ \A ids \in SUBSET Ids : Garbled(ids) \in Line /\ Garbled(ids).ids = ids
  /\ NextSequence \in Nat =>
       \A id \in Ids : Record(id) \in Line /\ Record(id).ids = {id}
BY DEF Garbled, Record, Line, Texts

\* The lines of an intent: there is one at least, and they are the intent's.
LEMMA LinesValues ==
  ASSUME TypeOK, NEW id \in Ids
  PROVE  /\ LinesOf(id) \in Seq(Line) /\ LinesOf(id) # <<>>
         /\ \A n \in DOMAIN LinesOf(id) : LinesOf(id)[n].ids = {id}
<1>1. NextSequence \in Nat
  BY NextSequenceIsANumber DEF TypeOK
<1>2. /\ Record(id) \in Line /\ Record(id).ids = {id}
      /\ Garbled({id}) \in Line /\ Garbled({id}).ids = {id}
  BY <1>1, LineValues
<1>3. CASE id \in Separated
  BY <1>2, <1>3 DEF LinesOf
<1>4. CASE id \notin Separated
  BY <1>2, <1>4 DEF LinesOf
<1> QED
  BY <1>3, <1>4

\* Whether or not the last line was incomplete, what was in the file is in it, and what
\* is written.
LEMMA WrittenLines ==
  ASSUME TypeOK, open => file # <<>>, NEW lines \in Seq(Line), lines # <<>>
  PROVE  /\ Written(lines) \in Seq(Line) /\ Written(lines) # <<>>
         /\ \A i \in DOMAIN file : \E j \in DOMAIN Written(lines) : IsIn(file[i], Written(lines)[j])
         /\ \A i \in DOMAIN lines : \E j \in DOMAIN Written(lines) : IsIn(lines[i], Written(lines)[j])
<1> DEFINE n == Len(file)
           k == Len(lines)
<1>1. /\ file \in Seq(Line) /\ n \in Nat /\ DOMAIN file = 1..n /\ \A i \in 1..n : file[i] \in Line
      /\ k \in Nat \ {0} /\ DOMAIN lines = 1..k /\ \A i \in 1..k : lines[i] \in Line
  BY LenProperties, EmptySeq DEF TypeOK
<1>2. CASE ~ open
  <2>1. Written(lines) = file \o lines
    BY <1>2 DEF Written
  <2>2. /\ file \o lines \in Seq(Line) /\ Len(file \o lines) = n + k
        /\ DOMAIN (file \o lines) = 1..(n + k)
        /\ \A i \in 1..(n + k) : (file \o lines)[i] = IF i <= n THEN file[i] ELSE lines[i - n]
    BY <1>1, ConcatProperties, LenProperties
  <2>3. \A i \in 1..n : i \in 1..(n + k) /\ (file \o lines)[i] = file[i]
    BY <1>1, <2>2
  <2>4. \A i \in 1..k : i + n \in 1..(n + k) /\ (file \o lines)[i + n] = lines[i]
    BY <1>1, <2>2
  <2>5. file \o lines # <<>>
    BY <1>1, <2>2
  <2> QED
    BY <1>1, <2>1, <2>2, <2>3, <2>4, <2>5 DEF IsIn
<1>3. CASE open
  <2> DEFINE joined == Garbled(file[n].ids \union Head(lines).ids)
             old == [file EXCEPT ![n] = joined]
             rest == Tail(lines)
  <2>1. n \in 1..n
    BY <1>1, <1>3, EmptySeq
  <2>2. Head(lines) = lines[1] /\ 1 \in 1..k
    BY <1>1
  <2>3. joined \in Line /\ IsIn(file[n], joined) /\ IsIn(lines[1], joined)
    <3>1. file[n].ids \union Head(lines).ids \in SUBSET Ids
      BY <1>1, <2>1, <2>2 DEF Line
    <3> QED
      BY <2>2, <3>1, LineValues DEF IsIn
  <2>4. /\ old \in Seq(Line) /\ Len(old) = n
        /\ \A i \in 1..n : old[i] = IF i = n THEN joined ELSE file[i]
    <3> HIDE DEF joined
    <3> QED
      BY <1>1, <2>1, <2>3, ExceptSeq
  <2>5. /\ rest \in Seq(Line) /\ Len(rest) = k - 1
        /\ \A i \in 1..(k - 1) : rest[i] = lines[i + 1]
    BY <1>1, HeadTailProperties
  <2>6. Written(lines) = old \o rest
    BY <1>3 DEF Written
  <2> HIDE DEF joined, old, rest
  <2>7. /\ old \o rest \in Seq(Line) /\ Len(old \o rest) = n + (k - 1)
        /\ DOMAIN (old \o rest) = 1..(n + (k - 1))
        /\ \A i \in 1..(n + (k - 1)) : (old \o rest)[i] = IF i <= n THEN old[i] ELSE rest[i - n]
    <3>0. old \in Seq(Line) /\ rest \in Seq(Line)
      BY <2>4, <2>5
    <3>1. /\ old \o rest \in Seq(Line) /\ Len(old \o rest) = Len(old) + Len(rest)
          /\ \A i \in 1..Len(old) + Len(rest) :
               (old \o rest)[i] = IF i <= Len(old) THEN old[i] ELSE rest[i - Len(old)]
      BY <3>0, ConcatProperties
    <3>2. DOMAIN (old \o rest) = 1..Len(old \o rest)
      BY <3>1, LenProperties
    <3> HIDE DEF n, k
    <3>3. Len(old) = n /\ Len(rest) = k - 1
      BY <2>4, <2>5
    <3> QED
      BY <3>1, <3>2, <3>3
  <2>8. \A i \in 1..n : i \in 1..(n + (k - 1)) /\ (old \o rest)[i] = old[i]
    BY <1>1, <2>7
  <2>9. \A i \in 1..n : IsIn(file[i], (old \o rest)[i])
    BY <2>1, <2>3, <2>4, <2>8 DEF IsIn
  <2>10. ASSUME NEW i \in 1..k
         PROVE  \E j \in 1..(n + (k - 1)) : IsIn(lines[i], (old \o rest)[j])
    <3>1. CASE i = 1
      BY <2>1, <2>3, <2>4, <2>8, <3>1
    <3>2. CASE i # 1
      <4>1. i - 1 \in 1..(k - 1) /\ i - 1 + n \in 1..(n + (k - 1)) /\ ~ i - 1 + n <= n
        BY <1>1, <3>2
      <4>2. (old \o rest)[i - 1 + n] = rest[i - 1]
        <5> DEFINE j == i - 1 + n
        <5>1. j - n = i - 1
          BY <1>1, <3>2
        <5>2. j \in 1..(n + (k - 1)) /\ ~ j <= n
          BY <4>1
        <5> HIDE DEF j
        <5>3. (old \o rest)[j] = rest[j - n]
          BY <2>7, <5>2
        <5> QED
          BY <5>1, <5>3 DEF j
      <4>3. rest[i - 1] = lines[i]
        BY <1>1, <2>5, <4>1
      <4> QED
        BY <4>1, <4>2, <4>3 DEF IsIn
    <3> QED
      BY <3>1, <3>2
  <2>11. old \o rest # <<>>
    BY <1>1, <2>1, <2>7
  <2> QED
    BY <1>1, <2>6, <2>7, <2>8, <2>9, <2>10, <2>11
<1> QED
  BY <1>2, <1>3

----------------------------------------------------------------------------
(* The steps *)

\* Nothing vanishes as long as each line stays, in the file or in quarantine.
LEMMA LinesStay ==
  ASSUME NothingVanishes, quarantine \subseteq quarantine',
         \A i \in DOMAIN file :
           (\E j \in DOMAIN file' : IsIn(file[i], file'[j])) \/ file[i] \in quarantine',
         \A id \in appended' : id \in appended \/ \E j \in DOMAIN file' : id \in file'[j].ids
  PROVE  NothingVanishes'
<1> SUFFICES ASSUME NEW id \in appended'
             PROVE  \/ \E j \in DOMAIN file' : id \in file'[j].ids
                    \/ \E line \in quarantine' : id \in line.ids
  BY DEF NothingVanishes
<1>1. CASE \E i \in DOMAIN file : id \in file[i].ids
  BY <1>1 DEF IsIn
<1>2. CASE \E line \in quarantine : id \in line.ids
  BY <1>2
<1> QED
  BY <1>1, <1>2 DEF NothingVanishes

\* Up to the first fault, an append adds a line to those before it.
LEMMA CleanAppend ==
  ASSUME IInv, Clean, NEW id \in Ids \ Separated, AppendRecord(id)
  PROVE  /\ file' = Append(file, Record(id))
         /\ Record(id) \in Line /\ Record(id).ids = {id} /\ Record(id).status = "pending"
         /\ Record(id).seq = Len(file) + 1 /\ Usable(Record(id))
<1>1. file \in Seq(Line) /\ ~ open /\ Dense
  BY DEF IInv, TypeOK, CleanIsDense
<1>2. Record(id) \in Line /\ Record(id).ids = {id}
  BY <1>1, LineValues, NextSequenceIsANumber
<1>3. file' = file \o <<Record(id)>>
  BY <1>1 DEF AppendRecord, Written, LinesOf
<1>4. file \o <<Record(id)>> = Append(file, Record(id))
  BY <1>1, <1>2
<1>5. Record(id).seq = Len(file) + 1
  BY <1>1, DenseNext DEF Record
<1> QED
  BY <1>2, <1>3, <1>4, <1>5 DEF Record, Usable

\* And a marking changes the status of the first line with the id.
LEMMA CleanMark ==
  ASSUME IInv, Clean, NEW id \in Ids, NEW status \in {"applied", "reconciled"}, Mark(id, status)
  PROVE  /\ Rejected = {}
         /\ file' = [i \in DOMAIN file |->
                       IF id \in file[i].ids /\ \A j \in 1..(i - 1) : id \notin file[j].ids
                       THEN [file[i] EXCEPT !.status = status] ELSE file[i]]
<1> DEFINE n == Len(file)
<1>1. file \in Seq(Line) /\ Dense /\ n \in Nat /\ DOMAIN file = 1..n
  BY LenProperties DEF IInv, TypeOK, CleanIsDense
<1>2. Accepted = 1..n
  BY <1>1, DenseIsAccepted
<1>3. Rejected = {}
  BY <1>1, <1>2 DEF Rejected
<1>4. PICK kept \in Ascending(1..n) : file' = Rewritten(kept, id, status)
  BY <1>2 DEF Mark
<1>5. kept = [i \in 1..n |-> i]
  <2> HIDE DEF n
  <2> QED
    BY <1>1, AscendingOfAll
<1>6. DOMAIN kept = 1..n /\ \A i \in 1..n : kept[i] = i /\ \A j \in 1..(i - 1) : kept[j] = j
  BY <1>1, <1>5
<1> HIDE DEF n
<1>7. \A i \in 1..n : file[kept[i]] = file[i] /\ \A j \in 1..(i - 1) : file[kept[j]] = file[j]
  BY <1>6
<1> QED
  BY <1>1, <1>3, <1>4, <1>6, <1>7 DEF Rewritten

LEMMA AppendStep ==
  ASSUME IInv, NEW id \in Ids, AppendRecord(id)
  PROVE  IInv'
<1>1. /\ TypeOK /\ NothingVanishes /\ (open => file # <<>>)
      /\ file' = Written(LinesOf(id)) /\ open' = FALSE /\ appended' = appended \union {id}
      /\ quarantine' = quarantine /\ faults' = faults
  BY DEF IInv, AppendRecord
<1>2. /\ LinesOf(id) \in Seq(Line) /\ LinesOf(id) # <<>>
      /\ \A n \in DOMAIN LinesOf(id) : LinesOf(id)[n].ids = {id}
  BY <1>1, LinesValues
<1>3. /\ file' \in Seq(Line) /\ file' # <<>>
      /\ \A i \in DOMAIN file : \E j \in DOMAIN file' : IsIn(file[i], file'[j])
      /\ \A i \in DOMAIN LinesOf(id) : \E j \in DOMAIN file' : IsIn(LinesOf(id)[i], file'[j])
  BY <1>1, <1>2, WrittenLines
<1>4. TypeOK'
  BY <1>1, <1>3 DEF TypeOK
<1>5. NothingVanishes'
  <2>1. 1 \in DOMAIN LinesOf(id)
    BY <1>2, EmptySeq, LenProperties
  <2>2. \E j \in DOMAIN file' : id \in file'[j].ids
    BY <1>2, <1>3, <2>1 DEF IsIn
  <2> QED
    BY <1>1, <1>3, <2>2, LinesStay
<1>6. CleanIsDense'
  <2> SUFFICES ASSUME Clean'
               PROVE  /\ quarantine' = {}
                      /\ \A i \in DOMAIN file' :
                           /\ Usable(file'[i]) /\ file'[i].seq = i
                           /\ \E x \in Ids : file'[i].ids = {x}
    BY <1>1 DEF CleanIsDense, Dense, Usable
  <2>1. Clean /\ id \in Ids \ Separated
    BY <1>1 DEF Clean
  <2>2. /\ Dense /\ quarantine = {} /\ file \in Seq(Line)
        /\ \A i \in DOMAIN file : \E x \in Ids : file[i].ids = {x}
    BY <1>1, <2>1 DEF IInv, CleanIsDense, TypeOK
  <2> DEFINE new == Record(id)
  <2>3. /\ file' = Append(file, new) /\ new.ids = {id} /\ new.seq = Len(file) + 1
        /\ Usable(new) /\ new \in Line
    BY <2>1, CleanAppend
  <2> HIDE DEF new
  <2>4. /\ DOMAIN file = 1..Len(file) /\ Len(file) \in Nat
        /\ DOMAIN file' = 1..(Len(file) + 1) /\ file'[Len(file) + 1] = new
        /\ \A i \in 1..Len(file) : file'[i] = file[i]
    BY <2>2, <2>3
  <2>5. \A i \in 1..(Len(file) + 1) : i \in 1..Len(file) \/ i = Len(file) + 1
    BY <2>4
  <2> QED
    BY <1>1, <2>2, <2>3, <2>4, <2>5 DEF Dense
<1> QED
  BY <1>1, <1>3, <1>4, <1>5, <1>6 DEF IInv

LEMMA TornStep ==
  ASSUME IInv, NEW id \in Ids, TornAppend(id)
  PROVE  IInv'
<1>1. /\ TypeOK /\ NothingVanishes /\ (open => file # <<>>)
      /\ open' = TRUE /\ appended' = appended /\ quarantine' = quarantine
      /\ faults' = faults + 1 /\ faults < MaxFaults
  BY DEF IInv, TornAppend
<1>0. PICK n \in DOMAIN LinesOf(id) : \E last \in {LinesOf(id)[n], Garbled({id})} :
        file' = Written(Append(SubSeq(LinesOf(id), 1, n - 1), last))
  BY DEF TornAppend
<1>2. PICK last \in {LinesOf(id)[n], Garbled({id})} :
        file' = Written(Append(SubSeq(LinesOf(id), 1, n - 1), last))
  BY <1>0
<1> DEFINE all == LinesOf(id)
           lines == Append(SubSeq(all, 1, n - 1), last)
<1>3. all \in Seq(Line) /\ n \in 1..Len(all) /\ Len(all) \in Nat /\ all[n] \in Line
  BY <1>1, LinesValues, LenProperties
<1>4. last \in Line
  BY <1>2, <1>3, LineValues
<1>5. SubSeq(all, 1, n - 1) \in Seq(Line)
  <2> HIDE DEF all
  <2>1. n - 1 \in Int /\ \A i \in 1..(n - 1) : all[i] \in Line
    BY <1>3
  <2> QED
    BY <2>1, SubSeqProperties
<1>6. lines \in Seq(Line) /\ lines # <<>>
  BY <1>4, <1>5
<1>7. /\ file' \in Seq(Line) /\ file' # <<>>
      /\ \A i \in DOMAIN file : \E j \in DOMAIN file' : IsIn(file[i], file'[j])
  <2> HIDE DEF lines
  <2> QED
    BY <1>1, <1>2, <1>6, WrittenLines DEF lines
<1>8. TypeOK'
  BY <1>1, <1>7, JournalAssumption DEF TypeOK
<1>9. NothingVanishes'
  BY <1>1, <1>7, LinesStay
<1>10. ~ Clean'
  BY <1>1 DEF Clean, TypeOK
<1> QED
  BY <1>7, <1>8, <1>9, <1>10 DEF IInv, CleanIsDense

LEMMA DamageStep ==
  ASSUME IInv, NEW i \in DOMAIN file, Damage(i)
  PROVE  IInv'
<1>1. /\ TypeOK /\ NothingVanishes /\ (open => file # <<>>)
      /\ open' = open /\ appended' = appended /\ quarantine' = quarantine
      /\ faults' = faults + 1 /\ faults < MaxFaults
  BY DEF IInv, Damage
<1>2. PICK damage \in Damages : file' = [file EXCEPT ![i].text = damage]
  BY DEF Damage
<1> DEFINE line == [file[i] EXCEPT !.text = damage]
<1>3. file \in Seq(Line) /\ file[i] \in Line /\ DOMAIN file = 1..Len(file)
  BY <1>1, LenProperties DEF TypeOK
<1>4. line \in Line /\ line.ids = file[i].ids
  BY <1>3, JournalAssumption DEF Line, Texts
<1>5. file' = [file EXCEPT ![i] = line]
  BY <1>2, <1>3
<1> HIDE DEF line
<1>6. /\ file' \in Seq(Line) /\ Len(file') = Len(file)
      /\ \A j \in 1..Len(file) : file'[j] = IF j = i THEN line ELSE file[j]
  BY <1>3, <1>4, <1>5, ExceptSeq
<1>7. DOMAIN file' = DOMAIN file /\ file' # <<>>
  BY <1>3, <1>5
<1>8. TypeOK'
  BY <1>1, <1>6, JournalAssumption DEF TypeOK
<1>9. NothingVanishes'
  <2>1. \A j \in DOMAIN file : IsIn(file[j], file'[j])
    BY <1>3, <1>4, <1>6 DEF IsIn
  <2> QED
    BY <1>1, <1>7, <2>1, LinesStay
<1>10. ~ Clean'
  BY <1>1 DEF Clean, TypeOK
<1> QED
  BY <1>1, <1>7, <1>8, <1>9, <1>10 DEF IInv, CleanIsDense

LEMMA ReadStep ==
  ASSUME IInv, Read
  PROVE  IInv'
<1>1. /\ TypeOK /\ NothingVanishes /\ (open => file # <<>>) /\ CleanIsDense
      /\ quarantine' = quarantine \union Rejected
      /\ file' = file /\ open' = open /\ appended' = appended /\ faults' = faults
  BY DEF IInv, Read
<1>2. file \in Seq(Line) /\ Rejected \subseteq Line
  BY <1>1 DEF TypeOK, Rejected
<1>3. TypeOK'
  BY <1>1, <1>2 DEF TypeOK
<1>4. NothingVanishes'
  BY <1>1, LinesStay DEF IsIn
<1>5. CleanIsDense'
  <2>1. Clean => Rejected = {}
    BY <1>1, <1>2, DenseIsAccepted DEF CleanIsDense, Rejected
  <2> QED
    BY <1>1, <2>1 DEF CleanIsDense, Clean, Dense
<1> QED
  BY <1>1, <1>3, <1>4, <1>5 DEF IInv

LEMMA MarkStep ==
  ASSUME IInv, NEW id \in Ids, NEW status \in {"applied", "reconciled"}, Mark(id, status)
  PROVE  IInv'
<1>1. /\ TypeOK /\ NothingVanishes /\ CleanIsDense
      /\ quarantine' = quarantine \union Rejected
      /\ open' = FALSE /\ appended' = appended /\ faults' = faults
  BY DEF IInv, Mark
<1>2. /\ file \in Seq(Line) /\ Rejected \subseteq Line
      /\ DOMAIN file = 1..Len(file) /\ Len(file) \in Nat
      /\ Accepted \in SUBSET (1..Len(file)) /\ Accepted \in SUBSET Nat
  BY <1>1, LenProperties DEF TypeOK, Rejected, Accepted
<1>3. PICK kept \in Ascending(Accepted) : file' = Rewritten(kept, id, status)
  BY DEF Mark
<1> DEFINE n == Cardinality(Accepted)
<1>4. /\ n \in Nat /\ kept \in [1..n -> Accepted]
      /\ \A i \in Accepted : \E j \in 1..n : kept[j] = i
  <2>1. IsFiniteSet(Accepted)
    <3> DEFINE D == 1..Len(file)
    <3>1. IsFiniteSet(D) /\ Accepted \in SUBSET D
      BY <1>2, FS_Interval
    <3> HIDE DEF D
    <3> QED
      BY <3>1, FS_Subset
  <2> QED
    BY <1>2, <2>1, AscendingCovers
<1> HIDE DEF n
<1>5. /\ DOMAIN file' = 1..n
      /\ \A j \in 1..n : \/ file'[j] = file[kept[j]]
                         \/ file'[j] = [file[kept[j]] EXCEPT !.status = status]
  BY <1>3, <1>4 DEF Rewritten
<1>6. \A j \in 1..n : file'[j] \in Line /\ IsIn(file[kept[j]], file'[j])
  <2> SUFFICES ASSUME NEW j \in 1..n PROVE file'[j] \in Line /\ IsIn(file[kept[j]], file'[j])
    OBVIOUS
  <2>1. file[kept[j]] \in Line
    <3>1. kept[j] \in 1..Len(file)
      BY <1>2, <1>4
    <3> QED
      BY <1>2, <3>1, ElementOfSeq
  <2> QED
    BY <1>5, <2>1 DEF Line, IsIn
<1>7. file' \in Seq(Line)
  <2>1. file' \in [1..n -> Line]
    BY <1>3, <1>4, <1>5, <1>6 DEF Rewritten
  <2> QED
    BY <1>4, <2>1
<1>8. TypeOK'
  BY <1>1, <1>2, <1>7 DEF TypeOK
<1>9. NothingVanishes'
  <2>1. ASSUME NEW i \in DOMAIN file
        PROVE  (\E j \in DOMAIN file' : IsIn(file[i], file'[j])) \/ file[i] \in quarantine'
    <3>1. CASE i \in Accepted
      BY <1>4, <1>5, <1>6, <3>1
    <3>2. CASE i \notin Accepted
      BY <1>1, <3>2 DEF Rejected
    <3> QED
      BY <3>1, <3>2
  <2> QED
    BY <1>1, <2>1, LinesStay
<1>10. CleanIsDense'
  <2> SUFFICES ASSUME Clean'
               PROVE  /\ quarantine' = {}
                      /\ \A i \in DOMAIN file' :
                           /\ Usable(file'[i]) /\ file'[i].seq = i
                           /\ \E x \in Ids : file'[i].ids = {x}
    BY <1>1 DEF CleanIsDense, Dense, Usable
  <2>1. /\ Clean /\ Dense /\ quarantine = {}
        /\ \A i \in DOMAIN file : \E x \in Ids : file[i].ids = {x}
    BY <1>1 DEF CleanIsDense, Clean
  <2>2. /\ Rejected = {} /\ DOMAIN file' = DOMAIN file
        /\ \A i \in DOMAIN file : file'[i] \in {file[i], [file[i] EXCEPT !.status = status]}
    BY <2>1, CleanMark
  <2>3. ASSUME NEW i \in DOMAIN file
        PROVE  /\ Usable(file'[i]) /\ file'[i].seq = i
               /\ \E x \in Ids : file'[i].ids = {x}
    <3>1. file[i] \in Line
      BY <1>2
    <3>2. /\ file'[i].text = file[i].text /\ file'[i].seq = file[i].seq
          /\ file'[i].ids = file[i].ids
      BY <2>2, <3>1 DEF Line
    <3> QED
      BY <2>1, <3>2 DEF Dense, Usable
  <2> QED
    BY <1>1, <2>1, <2>2, <2>3
<1> QED
  BY <1>1, <1>8, <1>9, <1>10 DEF IInv

----------------------------------------------------------------------------
(* Results *)

LEMMA InvInit == Init => IInv
<1> SUFFICES ASSUME Init PROVE IInv
  OBVIOUS
<1>1. file = <<>> /\ open = FALSE /\ quarantine = {} /\ appended = {} /\ faults = 0
  BY DEF Init
<1>2. file \in Seq(Line) /\ DOMAIN file = {}
  BY <1>1, EmptySeq, LenProperties
<1>3. TypeOK
  <2>1. 0 \in 0..MaxFaults
    BY JournalAssumption
  <2> QED
    BY <1>1, <1>2, <2>1, Zenon DEF TypeOK
<1> QED
  BY <1>1, <1>2, <1>3 DEF IInv, NothingVanishes, CleanIsDense, Dense

LEMMA InvStep == IInv /\ [Next]_vars => IInv'
<1> SUFFICES ASSUME IInv, [Next]_vars PROVE IInv'
  OBVIOUS
<1>1. CASE UNCHANGED vars
  BY <1>1 DEF vars, IInv, TypeOK, NothingVanishes, CleanIsDense, Clean, Dense
<1>2. CASE Next
  BY <1>2, AppendStep, TornStep, DamageStep, ReadStep, MarkStep DEF Next, Operation, Fault
<1> QED
  BY <1>1, <1>2

LEMMA Invariance == Spec => []IInv
BY InvInit, InvStep, PTL DEF Spec

\* The types of the module.
THEOREM TypeCorrectness == Spec => []TypeOK
<1>1. IInv => TypeOK
  BY DEF IInv
<1> QED
  BY Invariance, <1>1, PTL

\* However often lines are damaged and appends torn, and whatever _mark drops from the
\* journal: what was appended is in one of the two files.
THEOREM Preservation == Spec => []NothingVanishes
<1>1. IInv => NothingVanishes
  BY DEF IInv
<1> QED
  BY Invariance, <1>1, PTL

\* Up to the first fault readers accept the whole journal.
THEOREM Acceptance == Spec => []CleanIsAccepted
<1>1. IInv => CleanIsAccepted
  BY DenseIsAccepted DEF IInv, TypeOK, CleanIsDense, CleanIsAccepted, Rejected
<1> QED
  BY Invariance, <1>1, PTL

\* An append leaves the elements there are where they are.
LEMMA AppendKeeps ==
  ASSUME NEW S, NEW s \in Seq(S), NEW x \in S
  PROVE  /\ DOMAIN Append(s, x) = 1..(Len(s) + 1)
         /\ Append(s, x)[Len(s) + 1] = x
         /\ \A i \in 1..Len(s) : Append(s, x)[i] = s[i]
<1>1. /\ Append(s, x) \in Seq(S)
      /\ Len(Append(s, x)) = Len(s) + 1
      /\ \A i \in 1..Len(s) : Append(s, x)[i] = s[i]
      /\ Append(s, x)[Len(s) + 1] = x
  BY AppendProperties
<1>2. DOMAIN Append(s, x) = 1..Len(Append(s, x))
  BY <1>1, LenProperties
<1> QED
  BY <1>1, <1>2

\* A function with the elements of a sequence and one more is the sequence with that
\* one appended.
LEMMA IsAppended ==
  ASSUME NEW S, NEW s \in Seq(S), NEW x \in S, NEW T, NEW f \in [1..(Len(s) + 1) -> T],
         \A i \in 1..Len(s) : f[i] = s[i],
         f[Len(s) + 1] = x
  PROVE  f = Append(s, x)
<1>1. Len(s) \in Nat
  BY LenProperties
<1>2. /\ Append(s, x) \in Seq(S)
      /\ DOMAIN Append(s, x) = 1..(Len(s) + 1)
      /\ Append(s, x)[Len(s) + 1] = x
      /\ \A i \in 1..Len(s) : Append(s, x)[i] = s[i]
  BY AppendKeeps, AppendProperties
<1>3. Append(s, x) = [i \in 1..(Len(s) + 1) |-> Append(s, x)[i]]
  BY <1>2, LenProperties
<1>4. ASSUME NEW i \in 1..(Len(s) + 1)
      PROVE  f[i] = Append(s, x)[i]
  <2>1. CASE i = Len(s) + 1
    BY <1>2, <2>1
  <2>2. CASE i # Len(s) + 1
    <3>1. i \in 1..Len(s)
      BY <1>1, <2>2
    <3> QED
      BY <1>2, <3>1
  <2> QED
    BY <2>1, <2>2
<1> QED
  BY <1>3, <1>4

LEMMA EntryValues ==
  ASSUME NEW line \in Line, NEW id \in Ids, line.ids = {id}
  PROVE  Entry(line) = [id |-> id, status |-> line.status]
<1>1. (CHOOSE x \in Ids : x \in {id}) = id
  OBVIOUS
<1> QED
  BY <1>1 DEF Entry

\* Up to then it is the log that the commit protocol is modelled with.
THEOREM Refinement == Spec => CleanImplementsLog
<1>1. Init => Log!Init
  <2> SUFFICES ASSUME file = <<>>
               PROVE  [i \in DOMAIN file |-> Entry(file[i])] = <<>>
    BY DEF Init, Log!Init
  <2> QED
    BY EmptySeq, LenProperties
<1>2. IInv /\ [Next]_vars => [Clean' => [Log!Next]_file]_vars
  <2> SUFFICES ASSUME IInv, Next, Clean', file' # file PROVE Log!Next
    BY DEF vars
  <2> DEFINE log == [i \in DOMAIN file |-> Entry(file[i])]
             n == Len(file)
             Entries == {Entry(line) : line \in Line}
  <2>1. file \in Seq(Line) /\ n \in Nat /\ DOMAIN file = 1..n /\ faults \in Nat
    BY LenProperties DEF IInv, TypeOK
  <2>2. ASSUME NEW id \in Ids, AppendRecord(id)
        PROVE  Log!Next
    <3>1. Clean /\ id \in Ids \ Separated
      BY <2>2 DEF AppendRecord, Clean
    <3> DEFINE new == Record(id)
               rec == [id |-> id, status |-> "pending"]
    <3>2. file' = Append(file, new) /\ new \in Line /\ new.ids = {id} /\ new.status = "pending"
      BY <2>2, <3>1, CleanAppend
    <3>3. Entry(new) = rec
      BY <3>2, EntryValues
    <3> HIDE DEF new
    <3>4. /\ DOMAIN file' = 1..(n + 1) /\ file'[n + 1] = new
          /\ \A i \in 1..n : file'[i] = file[i]
      <4>1. /\ DOMAIN Append(file, new) = 1..(Len(file) + 1)
            /\ Append(file, new)[Len(file) + 1] = new
            /\ \A i \in 1..Len(file) : Append(file, new)[i] = file[i]
        <5>1. file \in Seq(Line) /\ new \in Line
          BY <2>1, <3>2
        <5> QED
          BY <5>1, AppendKeeps
      <4>2. file' = Append(file, new)
        BY <3>2
      <4> QED
        BY <4>1, <4>2
    <3>5. log' = [i \in 1..(n + 1) |-> Entry(file'[i])]
      BY <3>4
    <3>6. rec \in Entries
      BY <3>2, <3>3
    <3>7. log \in [1..n -> Entries] /\ log \in Seq(Entries) /\ Len(log) = n
      <4>1. \A i \in 1..n : file[i] \in Line
        BY <2>1, ElementOfSeq
      <4>2. log \in [1..n -> Entries]
        BY <2>1, <4>1
      <4> HIDE DEF log, Entries, n
      <4> QED
        BY <2>1, <4>2, SeqDef, LenProperties
    <3>8. /\ \A i \in 1..n : log'[i] = log[i]
          /\ log'[n + 1] = rec
      <4>1. \A i \in 1..n : i \in 1..(n + 1) /\ log[i] = Entry(file[i])
        BY <2>1
      <4>2. n + 1 \in 1..(n + 1)
        BY <2>1
      <4> QED
        BY <3>3, <3>4, <3>5, <4>1, <4>2
    <3>9. log' = Append(log, rec)
      <4>1. log' = [i \in 1..(n + 1) |-> log'[i]]
        BY <3>5
      <4> DEFINE after == log'
      <4> DEFINE After == {after[i] : i \in 1..(n + 1)}
      <4>2. after \in [1..(n + 1) -> After] /\ after[n + 1] = rec
        BY <3>8, <4>1
      <4>3. \A i \in 1..n : after[i] = log[i]
        BY <3>8
      <4> HIDE DEF log, Entries, n, rec, after, After
      <4>4. after \in [1..(Len(log) + 1) -> After] /\ after[Len(log) + 1] = rec
        BY <3>7, <4>2
      <4>5. \A i \in 1..Len(log) : after[i] = log[i]
        BY <3>7, <4>3
      <4>6. log \in Seq(Entries)
        BY <3>7
      <4>7. after = Append(log, rec)
        BY <3>6, <4>4, <4>5, <4>6, IsAppended
      <4> QED
        BY <4>7 DEF after
    <3> QED
      BY <3>9 DEF Log!Next
  <2>3. ASSUME NEW id \in Ids, NEW status \in {"applied", "reconciled"}, Mark(id, status)
        PROVE  Log!Next
    <3>1. Clean
      BY <2>3 DEF Mark, Clean
    <3> DEFINE First(i) == id \in file[i].ids /\ \A j \in 1..(i - 1) : id \notin file[j].ids
               marked == [i \in 1..n |->
                            IF log[i].id = id /\ \A j \in 1..(i - 1) : log[j].id # id
                            THEN [log[i] EXCEPT !.status = status] ELSE log[i]]
    <3>2. file' = [i \in 1..n |-> IF First(i) THEN [file[i] EXCEPT !.status = status] ELSE file[i]]
      BY <2>1, <2>3, <3>1, CleanMark
    <3>3. ASSUME NEW i \in 1..n
          PROVE  \E x \in Ids : /\ file[i] \in Line /\ file[i].ids = {x}
                               /\ log[i] = [id |-> x, status |-> file[i].status]
      <4>1. PICK x \in Ids : file[i].ids = {x}
        BY <2>1, <3>1 DEF IInv, CleanIsDense
      <4>2. file[i] \in Line
        BY <2>1, ElementOfSeq
      <4>3. log[i] = Entry(file[i])
        BY <2>1
      <4> QED
        BY <4>1, <4>2, <4>3, EntryValues
    <3>4. ASSUME NEW i \in 1..n
          PROVE  log[i].id = id <=> id \in file[i].ids
      <4>1. PICK x \in Ids : /\ file[i].ids = {x}
                             /\ log[i] = [id |-> x, status |-> file[i].status]
        BY <3>3
      <4>2. log[i].id = x
        <5> HIDE DEF log
        <5> QED
          BY <4>1
      <4> QED
        BY <4>1, <4>2
    <3>5. ASSUME NEW i \in 1..n
          PROVE  First(i) <=> log[i].id = id /\ \A j \in 1..(i - 1) : log[j].id # id
      <4>1. \A j \in 1..(i - 1) : j \in 1..n
        BY <2>1
      <4> HIDE DEF log, n
      <4> QED
        BY <3>4, <4>1
    <3>6. ASSUME NEW i \in 1..n
          PROVE  Entry(file'[i]) = marked[i]
      <4>1. PICK x \in Ids : /\ file[i] \in Line /\ file[i].ids = {x}
                             /\ log[i] = [id |-> x, status |-> file[i].status]
        BY <3>3
      <4>2. CASE First(i)
        <5> DEFINE line == [file[i] EXCEPT !.status = status]
        <5>1. line \in Line /\ line.ids = {x} /\ line.status = status
          BY <4>1 DEF Line
        <5>2. Entry(line) = [id |-> x, status |-> status]
          BY <5>1, EntryValues
        <5>3. file'[i] = line
          BY <3>2, <4>2
        <5>4. marked[i] = [log[i] EXCEPT !.status = status]
          BY <3>5, <4>2
        <5>5. [log[i] EXCEPT !.status = status] = [id |-> x, status |-> status]
          <6> HIDE DEF log
          <6> QED
            BY <4>1
        <5> QED
          BY <5>2, <5>3, <5>4, <5>5
      <4>3. CASE ~ First(i)
        <5>1. file'[i] = file[i] /\ marked[i] = log[i]
          BY <3>2, <3>5, <4>3
        <5> QED
          BY <4>1, <5>1, EntryValues
      <4> QED
        BY <4>2, <4>3
    <3>7. log' = [i \in 1..n |-> Entry(file'[i])]
      BY <3>2
    <3>8. marked = Log!MarkFirst(id, status)
      BY <2>1 DEF Log!MarkFirst
    <3>9. log' = marked
      BY <3>6, <3>7
    <3> QED
      BY <3>8, <3>9 DEF Log!Next
  <2>4. ASSUME NEW id \in Ids, TornAppend(id)
        PROVE  FALSE
    BY <2>1, <2>4 DEF TornAppend, Clean
  <2>5. ASSUME NEW i \in DOMAIN file, Damage(i)
        PROVE  FALSE
    BY <2>1, <2>5 DEF Damage, Clean
  <2> QED
    BY <2>2, <2>3, <2>4, <2>5 DEF Next, Operation, Fault, Read
<1> QED
  BY Invariance, <1>1, <1>2, PTL DEF Spec, CleanImplementsLog

=============================================================================
