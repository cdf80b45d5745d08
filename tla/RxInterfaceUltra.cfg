SPECIFICATION Spec
CONSTANTS
  FifoDepth = 9
  THRESHOLD = 3
  THRESHOLD_EXT = 6
  CmdDepth = 5
  MinWords = 3
  MaxWords = 4
  TuserGood = FALSE
  MaxFrames = 4
PROPERTIES OnlyGoodFrames
CHECK_DEADLOCK TRUE
