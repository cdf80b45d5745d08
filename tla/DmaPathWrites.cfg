SPECIFICATION PathSpec
CONSTANTS
  PageSize = 8
  WordSize = 4
  Lane = 1
  CmdDepth = 1
  DataDepth = 2
  PageOffsetFifoDepth = 1
  MetaFifoDepth = 1
  TlbEntries = 4
  AddrMod = 64
  LenMod = 32
  DscDepth = 2
  Bases = {16}
  PageTables <- TwoPages
  Lengths = {3, 9}
  MaxRequests = 2
  MaxReads = 0
  MaxMappings = 1
INVARIANTS PathTypeOK LastHasLeftover StatisticsAgree
PROPERTIES WritesReachMemory PacketFillsDescriptor
CHECK_DEADLOCK FALSE
