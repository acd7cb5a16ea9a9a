CONSTANTS
  Names <- Beginnings
  MaxTitles = 4
SPECIFICATION Spec
INVARIANTS Sorted
CHECK_DEADLOCK FALSE
