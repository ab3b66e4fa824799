---------------------------- MODULE CommitJournal ----------------------------
(***************************************************************************)
(* The commit journal file of runtime/execution_commit.py: JSON lines with *)
(* sequence numbers and checksums, read, appended to and rewritten under   *)
(* the journal's own lock, so each operation is one step.                  *)
(*                                                                         *)
(* A line is what its bytes amount to: the intents whose bytes are in it,  *)
(* and how it reads back:                                                  *)
(*   "sound"    the record as it was written                               *)
(*   "altered"  a record whose fields changed after its checksum was taken *)
(*   "unusable" JSON with a sequence number, but not a commit record       *)
(*   "garbled"  not JSON                                                   *)
(* The environment damages lines in place, and a crash or a full disk      *)
(* leaves the last line incomplete.  Texts with a Unicode line separator   *)
(* are written as they are (ensure_ascii=False), and splitlines() breaks   *)
(* the record in two when the file is read.                                *)
(***************************************************************************)
EXTENDS Naturals, Sequences, FiniteSetsExt

CONSTANTS
  Ids,         \* commit ids
  Separated,   \* those whose checkpoint or reason contains a line separator
  Damages,     \* what the environment can do to a line in place
  MaxLines,    \* bound: lines of the file
  MaxSequence, \* bound: sequence numbers, which grow past the lines after damage
  MaxFaults    \* bound: damaged lines and torn appends

ASSUME JournalAssumption ==
  /\ Separated \subseteq Ids
  /\ Damages \subseteq {"altered", "unusable", "garbled"}
  /\ MaxLines \in Nat
  /\ MaxSequence \in Nat
  /\ MaxFaults \in Nat

VARIABLES
  file,        \* the lines of the journal file
  open,        \* does the last line lack its newline?
  quarantine,  \* the lines of the quarantine file
  appended,    \* history: ids whose _append_journal returned
  faults       \* faults so far

vars == <<file, open, quarantine, appended, faults>>

Texts == {"sound", "altered", "unusable", "garbled"}
Line == [ids : SUBSET Ids, status : {"pending", "applied", "reconciled"},
         seq : Nat, text : Texts]

TypeOK ==
  /\ file \in Seq(Line)
  /\ open \in BOOLEAN
  /\ quarantine \subseteq Line
  /\ appended \subseteq Ids
  /\ faults \in 0..MaxFaults

Parses(line) == line.text # "garbled"

\* The sequence number a reader can take from a line.
NumberIn(line) == IF Parses(line) THEN line.seq ELSE 0

\* with_integrity() returns a record that has any checksum as it is, so the
\* comparison with its checksum only fails when that is missing.
Usable(line) == line.text \in {"sound", "altered"}

\* The sequence number _read_journal_unlocked expects at each line: accepted
\* and rejected lines alike advance it, to at least the number they carry + 1.
Expected ==
  LET f[i \in 1..(Len(file) + 1)] ==
        IF i = 1 THEN 1 ELSE Max({f[i - 1], NumberIn(file[i - 1])}) + 1
  IN  f

\* The positions of the records it returns; it quarantines all other lines.
Accepted == {i \in DOMAIN file : Usable(file[i]) /\ file[i].seq = Expected[i]}
Rejected == {file[i] : i \in DOMAIN file \ Accepted}

Readable(id) == \E i \in Accepted : id \in file[i].ids

\* Mutant: the largest number there is, not the one after it.
NextSequence_Repeats == Max({1} \union {NumberIn(file[i]) : i \in DOMAIN file})

\* _next_sequence_unlocked: one more than any parseable line carries, rejected
\* or not.
NextSequence == Max({0} \union {NumberIn(file[i]) : i \in DOMAIN file}) + 1

----------------------------------------------------------------------------
Init ==
  /\ file = <<>>
  /\ open = FALSE
  /\ quarantine = {}
  /\ appended = {}
  /\ faults = 0

Record(id) == [ids |-> {id}, status |-> "pending", seq |-> NextSequence, text |-> "sound"]
Garbled(ids) == [ids |-> ids, status |-> "pending", seq |-> 0, text |-> "garbled"]

\* Bytes written to the end of the file.  An incomplete last line runs into
\* them, and the two do not read as JSON together.
Written(lines) ==
  IF open
  THEN [file EXCEPT ![Len(file)] = Garbled(@.ids \union Head(lines).ids)] \o Tail(lines)
  ELSE file \o lines

\* Bound.
HasRoom(lines) == Len(file) + Len(lines) <= MaxLines /\ NextSequence <= MaxSequence

\* How the record of an intent reads back: as one line, or in two halves.
LinesOf(id) ==
  IF id \in Separated THEN <<Garbled({id}), Garbled({id})>> ELSE <<Record(id)>>

\* _append_journal
AppendRecord(id) ==
  /\ HasRoom(LinesOf(id))
  /\ file' = Written(LinesOf(id))
  /\ open' = FALSE
  /\ appended' = appended \union {id}
  /\ UNCHANGED <<quarantine, faults>>

\* The write stops part of the way through a line, or right before its newline;
\* the call does not return.
TornAppend(id) ==
  /\ faults < MaxFaults
  /\ HasRoom(LinesOf(id))
  /\ \E n \in DOMAIN LinesOf(id) : \E last \in {LinesOf(id)[n], Garbled({id})} :
       file' = Written(Append(SubSeq(LinesOf(id), 1, n - 1), last))
  /\ open' = TRUE
  /\ faults' = faults + 1
  /\ UNCHANGED <<quarantine, appended>>

\* A line changes on disk.
Damage(i) ==
  /\ faults < MaxFaults
  /\ file[i].text = "sound"
  /\ \E damage \in Damages : file' = [file EXCEPT ![i].text = damage]
  /\ faults' = faults + 1
  /\ UNCHANGED <<open, quarantine, appended>>

\* pending() and the read inside commit(): rejected lines are quarantined and
\* stay in the journal.
Read ==
  /\ quarantine' = quarantine \union Rejected
  /\ UNCHANGED <<file, open, appended, faults>>

\* The numbers of a set in their order.
Ascending(S) ==
  {s \in [1..Cardinality(S) -> S] : \A i, j \in 1..Cardinality(S) : i < j => s[i] < s[j]}

\* Mutant: no break, every record with the id is marked.
Rewritten_All(kept, id, status) ==
  [n \in DOMAIN kept |->
     IF id \in file[kept[n]].ids
     THEN [file[kept[n]] EXCEPT !.status = status] ELSE file[kept[n]]]

\* The lines at the positions kept, the first one with the id marked.
Rewritten(kept, id, status) ==
  LET IsFirst(n) == /\ id \in file[kept[n]].ids
                    /\ \A m \in 1..(n - 1) : id \notin file[kept[m]].ids
  IN  [n \in DOMAIN kept |->
         IF IsFirst(n) THEN [file[kept[n]] EXCEPT !.status = status] ELSE file[kept[n]]]

\* Mutant: the journal is rewritten without a look at the rejected lines.
Mark_NoQuarantine(id, status) ==
  /\ id \in appended
  /\ \E kept \in Ascending(Accepted) : file' = Rewritten(kept, id, status)
  /\ open' = FALSE
  /\ UNCHANGED <<quarantine, appended, faults>>

\* _mark reads, which quarantines, and replaces the file by the accepted lines, in
\* order and with the numbers they had.  commit() marks the record it has appended
\* and reconcile() one it has read; either may be rejected by now.
Mark(id, status) ==
  /\ id \in appended \/ Readable(id)
  /\ \E kept \in Ascending(Accepted) : file' = Rewritten(kept, id, status)
  /\ open' = FALSE
  /\ quarantine' = quarantine \union Rejected
  /\ UNCHANGED <<appended, faults>>

Operation ==
  \/ \E id \in Ids : AppendRecord(id)
  \/ Read
  \/ \E id \in Ids, status \in {"applied", "reconciled"} : Mark(id, status)

Fault ==
  \/ \E id \in Ids : TornAppend(id)
  \/ \E i \in DOMAIN file : Damage(i)

Next == Operation \/ Fault

Spec == Init /\ [][Next]_vars

----------------------------------------------------------------------------
(* Properties *)

\* Every intent whose append returned is still on disk somewhere, in the journal
\* or in quarantine: _mark rewrites only what it has put aside first.
NothingVanishes ==
  \A id \in appended :
    \/ \E i \in DOMAIN file : id \in file[i].ids
    \/ \E line \in quarantine : id \in line.ids

\* No fault yet, and no text with a line separator.
Clean == faults = 0 /\ appended \intersect Separated = {}

\* Appends, reads and rewrites alone make no journal that a reader rejects any
\* line of: numbers are dense and in order, however often _mark rewrites them.
CleanIsAccepted == Clean => Rejected = {} /\ quarantine = {}

\* What the log has for a line that holds one intent.
Entry(line) == [id |-> CHOOSE id \in Ids : id \in line.ids, status |-> line.status]

Log == INSTANCE CommitLog WITH log <- [i \in DOMAIN file |-> Entry(file[i])]

\* Up to the first fault the file is the log that the commit protocol works
\* with: it only grows, and only the first record of an id is ever marked.
CleanImplementsLog == Log!Init /\ [][Clean' => [Log!Next]_file]_vars

=============================================================================
