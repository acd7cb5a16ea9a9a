CONSTANTS
  MaxVersion = 2
  Faults <- Survivable
SPECIFICATION Spec
INVARIANTS TypeOK TmdKept  RunEndsWell
PROPERTIES HandsOver
