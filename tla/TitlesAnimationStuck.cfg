CONSTANTS
  p1 = p1
  p2 = p2
  GameDBs = {"gc"}
  HB = "hb"
  NDB = 2
  LockOrder <- OneGamesDB
  Path = {p1}
  Library <- OneGame
  CoverFile <- SomeCovers
  DummyOnDrive = {}
  CachedCovers <- NoOldCovers
  Unwritable = {}
  Absent = Absent
  Shared = Shared
  Exits = {"animated"}
SPECIFICATION FairSpec

PROPERTIES AnimationEnds
CHECK_DEADLOCK FALSE
