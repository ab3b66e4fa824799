\* Two callers whose claims can run out, without leases, two crashes.
SPECIFICATION ToolSpec
CONSTANTS
  w1 = w1
  w2 = w2
  node = node
  e1 = e1
  NoOwner = NoOwner
  NoWorker = NoWorker
  NoCall = NoCall
  Workers = {w1, w2}
  Executions = {e1}
  Subject = e1
  Owners = {node}
  OwnerOf <- SharedOwner
  Ttl = 1
  MaxToken = 0
  Leased = FALSE
  Requests = {}
  MaxVersion = 4
  MaxAttempt = 1
  MaxJournal = 3
  MaxCrashes = 2
  ClaimTtl = 1
  MaxClaims = 3
INVARIANTS
  OutcomeCommittedOnce
PROPERTIES
  EveryToolCommitReturns
CHECK_DEADLOCK FALSE
