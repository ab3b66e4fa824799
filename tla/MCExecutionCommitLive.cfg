\* Liveness without leases: two executions, one crash, and intents that poison reconcile().
SPECIFICATION FairSpec
CONSTANTS
  w1 = w1
  w2 = w2
  node = node
  e1 = e1
  e2 = e2
  NoOwner = NoOwner
  NoWorker = NoWorker
  NoCall = NoCall
  Workers = {w1, w2}
  Executions = {e1, e2}
  Owners = {node}
  OwnerOf <- SharedOwner
  Ttl = 1
  MaxToken = 2
  Leased = FALSE
  Requests <- CompletingRequests
  MaxVersion = 3
  MaxAttempt = 1
  MaxJournal = 2
  MaxCrashes = 1
PROPERTIES
  CompletionIsAudited
  EveryCallReturns
CHECK_DEADLOCK FALSE
