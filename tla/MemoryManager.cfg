SPECIFICATION FairSpec
CONSTANTS
  Thread = {t1, t2}
  MemSize = 6
  Align = 2
  SizeMod = 16
  Request = {1, 3}
  Nobody = Nobody
INVARIANTS TypeOK NoOverlap ChunksPartitionMemory
PROPERTIES HandedOutZeroed FreeTakesEffect CallsReturn
CHECK_DEADLOCK TRUE
