CONSTANTS
  Loggers = {l1, l2}
  N = 4
  Threshold = 3
  Lens = {1, 3}
  MaxOctets = 5
  Day = 2
  CheckEvery = 1
  Offsets <- MCOffsets
  Level = 1
  Levels = {0, 1}
  MaxRecords = 2
  MaxTime = 4
  Letters = {"m", "d"}
  Creators <- MCCreators
  MaxLength = 5
SPECIFICATION FairAll
CHECK_DEADLOCK FALSE
INVARIANTS RingIntact RightFile PatternKept
PROPERTIES LogReachesFile
