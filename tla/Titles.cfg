CONSTANTS
  p1 = p1
  p2 = p2
  GameDBs = {"gc"}
  HB = "hb"
  NDB = 2
  LockOrder <- OneGamesDB
  Path = {p1, p2}
  Library <- TwoTitles
  CoverFile <- SomeCovers
  DummyOnDrive <- Icons
  CachedCovers <- OldCovers
  Unwritable = {"gc"}
  Absent = Absent
  Shared = Shared
  Exits = {"powerButton", "leave", "verbose"}
SPECIFICATION OneListSpec
INVARIANTS ImagesAllocated PointersValid UnmountedQuiet ImageShowsCover ScanResult ViewFresh
PROPERTIES ScanAllOrNothing CacheWrites
CHECK_DEADLOCK FALSE
