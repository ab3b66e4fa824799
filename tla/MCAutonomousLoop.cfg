\* A run, two resumptions of its execution, two attempts.
SPECIFICATION FairSpec
CONSTANTS
  r1 = r1
  r2 = r2
  r3 = r3
  e1 = e1
  Runs = {r1, r2, r3}
  Executions = {e1}
  MaxVersion = 1
  MaxAttempt = 3
  Budget <- OneFrugal
  MaxResumes = 2
INVARIANTS
  OneCanFinish
  CompletedIsDurable
PROPERTIES
  CompletedStays
  EveryRunEnds
CHECK_DEADLOCK FALSE
