SPECIFICATION FairPathSpec
CONSTANTS
  PageSize = 4
  WordSize = 2
  Lane = 1
  CmdDepth = 1
  DataDepth = 1
  PageOffsetFifoDepth = 1
  MetaFifoDepth = 1
  TlbEntries = 4
  AddrMod = 64
  LenMod = 32
  DscDepth = 1
  Bases = {16, 24}
  PageTables <- TwoPagesOrOne
  Lengths = {4}
  MaxRequests = 2
  MaxReads = 1
  MaxMappings = 2
INVARIANTS NoCrossingNoMiss ReadsTranslated
PROPERTIES RequestsComplete
CHECK_DEADLOCK FALSE
