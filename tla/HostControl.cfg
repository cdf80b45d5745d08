SPECIFICATION FairSpec
CONSTANTS
  Word = 4
  Half = 2
  NumStats <- TwoWalks
  Cycles = {1, 4, 6}
  Thread = {t1, t2}
  ProcessOf <- OneProcess
  Calls <- AllCalls
  MaxCalls = 3
  Nobody = Nobody
INVARIANTS TypeOK ResultsWhole StatsLabelled
PROPERTIES CommandsWhole CallsReturn
CHECK_DEADLOCK FALSE
