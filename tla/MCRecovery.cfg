\* A restarting bootstrap and a manager whose loop has the default wiring.
SPECIFICATION FairRecovery
CONSTANTS
  boot = boot
  manager = manager
  e1 = e1
  nodeA = nodeA
  nodeB = nodeB
  NoOwner = NoOwner
  Runs = {boot, manager}
  Executions = {e1}
  MaxVersion = 1
  MaxAttempt = 3
  Budget <- TwoAttempts
  MaxResumes = 3
  Bootstraps = {boot}
  Managers = {manager}
  Fenced = {boot, manager}
  Guarded = {manager}
  ReviewAt = 2
  SharedLock = FALSE
  Owners = {nodeA, nodeB}
  OwnerOf <- OwnNames
  Ttl = 1
  MaxToken = 3
  MaxPasses <- OneRestart
INVARIANTS
  RecoveryTypeOK
  IdleHoldsNothing
PROPERTIES
  NoProgressDiscarded
  FailureIsOwned
  ImplementsLifecycle
  EveryPassEnds
CHECK_DEADLOCK FALSE
