\* Two calls, and two clients whose tasks they may come upon.
SPECIFICATION FairSpec
CONSTANTS
  r1 = r1
  r2 = r2
  c1 = c1
  c2 = c2
  Runs = {r1, r2}
  Clients = {c1, c2}
INVARIANTS
  ExecutedOnce
  LeftPendingByErrorsOnly
PROPERTIES
  ImplementsQueue
  EveryCallEnds
CHECK_DEADLOCK FALSE
