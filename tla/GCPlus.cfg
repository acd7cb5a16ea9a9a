CONSTANTS
  Packets = 3
  BlockPackets = 2
  Payload <- ThreePackets
  NotFlashed = NotFlashed
  Config <- EqualPackets
  Unset = Unset
  Retries = 2
  Keeps <- MayKeep
  Mappings <- GameMapping
  Kinds <- AllKinds
  MaxSessions = 3
  MaxFaults = 1
SPECIFICATION Spec
INVARIANTS FlashedWhole CleanUpdateSucceeds MappingSet LockedAtRest WriteVerified
PROPERTIES AllEnd
CHECK_DEADLOCK FALSE
