\* One damaged line or torn append, and intents of which one has a separator in its text.
SPECIFICATION Spec
CONSTANTS
  a = a
  b = b
  c = c
  Ids = {a, b, c}
  Separated = {c}
  Damages = {"altered", "unusable", "garbled"}
  MaxLines = 3
  MaxSequence = 4
  MaxFaults = 1
SYMMETRY Symmetry
INVARIANTS
  NothingVanishes
  CleanIsAccepted
PROPERTIES
  CleanImplementsLog
CHECK_DEADLOCK FALSE
