\* Two journaling workers and a reconciler beside an executor.
SPECIFICATION RecoverySpec
CONSTANTS
  x1 = x1
  j1 = j1
  j2 = j2
  k1 = k1
  nodeA = nodeA
  nodeB = nodeB
  NoOwner = NoOwner
  Executors = {x1}
  Journalers = {j1, j2}
  Reconcilers = {k1}
  Owners = {nodeA, nodeB}
  OwnerOf <- ByNode
  ClaimTtl = 1
  LeaseTtl = 1
  MaxClaims = 2
  MaxToken = 2
  MaxPasses = 1
  MaxAttempts = 1
  MaxCrashes = 1
PROPERTIES
  TerminalIsFinal
  ImplementsFirstOutcome
  EndedAsJournaled
CHECK_DEADLOCK FALSE
