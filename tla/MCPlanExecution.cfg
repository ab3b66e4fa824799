\* Two runs of one execution, each with a retry, and results that are stored.
SPECIFICATION PlanSpec
CONSTANTS
  r1 = r1
  r2 = r2
  e1 = e1
  a = a
  b = b
  c = c
  n = n
  g = g
  NoName = NoName
  NoResult = NoResult
  Runs = {r1, r2}
  Executions = {e1}
  MaxVersion = 1
  MaxAttempt = 3
  Budget <- TwoAttempts
  MaxResumes = 1
  Calls = {a, b, c}
  CallIds = {n}
  GivenKeys = {g}
  Plans <- Renumbered
  Retries = 1
  Durable = TRUE
SYMMETRY Symmetry
INVARIANTS
  CompletedWasCarriedOut
  LateEffectsAreBounded
CHECK_DEADLOCK FALSE
