------------------------------ MODULE TaskQueue ------------------------------
(***************************************************************************)
(* What the scheduler promises to those who submit tasks to it, however    *)
(* many calls drive it: tasks are handed to their executors in the order   *)
(* of their submission, each of them once, and one that was handed over    *)
(* may end, once.  Who drives the scheduler, and how far each driver has   *)
(* got, does not appear.  A driver may go from one task to the next in one *)
(* step, and submit one before it, so a step has up to three parts.        *)
(***************************************************************************)
EXTENDS Naturals, Sequences

CONSTANT Tasks

VARIABLES
  queue,  \* the tasks in the order of their submission
  begun,  \* how many of them have been handed over
  ended   \* how each task ended, "none" if it has not

queueVars == <<queue, begun, ended>>

Init ==
  /\ queue = <<>>
  /\ begun = 0
  /\ ended = [t \in Tasks |-> "none"]

Arrival ==
  \/ UNCHANGED queue
  \/ \E t \in Tasks :
       /\ \A i \in DOMAIN queue : queue[i] # t
       /\ queue' = Append(queue, t)

Beginning == begun' \in {begun, begun + 1} /\ begun' <= Len(queue')

Ending ==
  \/ UNCHANGED ended
  \/ \E i \in 1..begun, how \in {"done", "failed"} :
       /\ ended[queue[i]] = "none"
       /\ ended' = [ended EXCEPT ![queue[i]] = how]

Next == Arrival /\ Beginning /\ Ending

Spec == Init /\ [][Next]_queueVars

=============================================================================
