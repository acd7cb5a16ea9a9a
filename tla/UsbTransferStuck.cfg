CONSTANTS
  MaxMsg = 1
  Kinds <- BulkOnly
SPECIFICATION FairSpec
PROPERTIES TransferEnds
CHECK_DEADLOCK FALSE
