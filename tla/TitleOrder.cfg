CONSTANTS
  Names <- Apart
  MaxTitles = 4
  MaxLines = 4
  Modules = {"EHCI"}
  Apps = {"app0"}
  Settings = {s1, s2}
  MaxWads = 2
  MaxSaves = 2
SPECIFICATION MCSpec
INVARIANTS Sorted LinesShown NoSignalLost LaunchedWhole
PROPERTIES ProgressKept
CHECK_DEADLOCK FALSE
