CONSTANTS
  MaxVersion = 1
  Faults <- UpdateNotReadBack
SPECIFICATION Spec
INVARIANTS MenuKept
