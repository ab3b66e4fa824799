---------------------------- MODULE FirstOutcome ----------------------------
(***************************************************************************)
(* What the tool boundary promises to those who call a tool under one      *)
(* idempotency key: there is one outcome, the first one recorded, and      *)
(* whoever is told an outcome is told that one.  A call may also be told   *)
(* that it is not known (yet), or nothing, if it raises.  How often the    *)
(* tool ran is not part of this.                                           *)
(***************************************************************************)
CONSTANT Callers

VARIABLES
  outcome,  \* of the key
  told      \* what each caller's last call was answered

firstOutcomeVars == <<outcome, told>>

Outcomes == {"completed", "failed"}
Unknown == {"nothing", "ambiguous", "retryable", "busy"}

Init ==
  /\ outcome = "none"
  /\ told = [c \in Callers |-> "nothing"]

Record ==
  /\ outcome = "none"
  /\ outcome' \in Outcomes
  /\ UNCHANGED told

Tell(c) ==
  /\ \E answer \in Unknown \union ({outcome} \intersect Outcomes) :
       told' = [told EXCEPT ![c] = answer]
  /\ UNCHANGED outcome

Next == Record \/ \E c \in Callers : Tell(c)

Spec == Init /\ [][Next]_firstOutcomeVars

=============================================================================
