SPECIFICATION CrashSpec
CONSTANTS
  Word = 4
  Half = 2
  NumStats <- TwoWalks
  Cycles = {1, 4, 6}
  Thread = {t1, t2}
  ProcessOf <- OneProcess
  Calls <- AllCalls
  MaxCalls = 2
  Nobody = Nobody

INVARIANTS StatsLabelled

CHECK_DEADLOCK FALSE
