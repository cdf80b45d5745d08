SPECIFICATION Spec
CONSTANTS
  FifoDepth = 9
  THRESHOLD = 3
  THRESHOLD_EXT = 6
  CmdDepth = 5
  MinWords = 3
  MaxWords = 4
  TuserGood = TRUE
  MaxFrames = 4
INVARIANTS FifosSuffice
PROPERTIES OnlyGoodFrames StoredFramesLeave
CHECK_DEADLOCK TRUE
