CONSTANTS
  MaxMsg = 4
  Kinds <- BothKinds
SPECIFICATION FairSpec
INVARIANTS CountIsOwn SleepsArmed
PROPERTIES ArmedSleepEnds
CHECK_DEADLOCK FALSE
