\* Two fenced coordinators, one execution, one crash, some illegal requests.
SPECIFICATION Spec
CONSTANTS
  w1 = w1
  w2 = w2
  node = node
  e1 = e1
  e2 = e2
  NoOwner = NoOwner
  NoWorker = NoWorker
  NoCall = NoCall
  Workers = {w1, w2}
  Executions = {e1}
  Owners = {node}
  OwnerOf <- SharedOwner
  Ttl = 1
  MaxToken = 2
  Leased = TRUE
  Requests <- CarelessRequests
  MaxVersion = 4
  MaxAttempt = 1
  MaxJournal = 2
  MaxCrashes = 1
SYMMETRY Symmetry
INVARIANTS
  TypeOK
  CriticalSectionFenced
  MarkedIsAudited
  AppliedIsRecoverable
  ExclusiveHolder
PROPERTIES
  ImplementsLifecycle
  WriteTokensNeverFallBack
  AuditTellsTheTruth
  LostLeaseStaysLost
CHECK_DEADLOCK FALSE
