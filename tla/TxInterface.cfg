SPECIFICATION Spec
CONSTANTS
  MinWords = 3
  WordBytes = 3
  MinLastBytes = 2
  CounterMod = 8
  MaxWords = 4
  CrossingDepth = 2
  FifoDepth = 4
  CmdDepth = 1
  MaxFrames = 3
INVARIANTS NoUnderrun
PROPERTIES FramesInOrder FramesLeave
CHECK_DEADLOCK TRUE
