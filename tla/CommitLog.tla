------------------------------ MODULE CommitLog ------------------------------
(***************************************************************************)
(* What the commit journal promises to the commit protocol: a log of       *)
(* intents in the order of their append, of which only the status of the   *)
(* first one with an id is ever rewritten.  This is the journal that       *)
(* ExecutionCommit works with.                                             *)
(***************************************************************************)
EXTENDS Naturals, Sequences

CONSTANT Ids

VARIABLE log

MarkFirst(id, status) ==
  [i \in DOMAIN log |->
     IF log[i].id = id /\ \A j \in 1..(i - 1) : log[j].id # id
     THEN [log[i] EXCEPT !.status = status]
     ELSE log[i]]

Init == log = <<>>

Next ==
  \E id \in Ids :
    \/ log' = Append(log, [id |-> id, status |-> "pending"])
    \/ \E status \in {"applied", "reconciled"} : log' = MarkFirst(id, status)

Spec == Init /\ [][Next]_log

=============================================================================
