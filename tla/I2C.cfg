CONSTANTS
  Main = "main"
  Threads = {"main", "update"}
  Nobody = "nobody"
  Bits = 2
  Size = 4
  Name <- Binary
  Own <- Two
  Boot <- OneBoard
  Transfers <- AllKinds
  Contents <- Mixed
  MaxCalls = 2
  Capacity = 3
  BlockSize = 2
  Word = 16
  Files <- SomeFiles
  Retries = 3
  MaxUpdates = 3
  MaxFaults = 2
SPECIFICATION MCSpec
CHECK_DEADLOCK FALSE
INVARIANTS BusRests FlashedWhole CleanUpdateSucceeds
PROPERTIES ImplementsRegisters AllEnds BoardUndisturbed
