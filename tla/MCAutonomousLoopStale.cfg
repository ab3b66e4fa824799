\* A run that is still alive, and a resumption of its execution.
SPECIFICATION Spec
CONSTANTS
  r1 = r1
  r2 = r2
  r3 = r3
  e1 = e1
  Runs = {r1, r2}
  Executions = {e1}
  MaxVersion = 1
  MaxAttempt = 3
  Budget <- OneFrugal
  MaxResumes = 1
PROPERTIES
  NoStaleOverwrite
CHECK_DEADLOCK FALSE
