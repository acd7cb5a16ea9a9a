CONSTANTS
  b1 = b1
  b2 = b2
  Blocks <- TwoBlocks
  Chunks = 2
  Retries = 1
  Rested <- Both
  MaxCalls = 2
  MaxTag = 18
  MaxOwed <- Owed
SPECIFICATION OneWakeUpSpec
INVARIANTS SettledAfterSuccess
PROPERTIES ImplementsBlockDevice CallsEnd
CHECK_DEADLOCK FALSE
