\* Three executors whose claims can run out under them.
SPECIFICATION Spec
CONSTANTS
  x1 = x1
  x2 = x2
  x3 = x3
  Executors = {x1, x2, x3}
  ClaimTtl = 2
  MaxClaims = 3
  MaxCrashes = 1
SYMMETRY Symmetry
INVARIANTS
  TypeOK
  TerminalHasResult
  RepeatedOnlyAfterLapse
PROPERTIES
  TerminalIsFinal
  ImplementsFirstOutcome
CHECK_DEADLOCK FALSE
