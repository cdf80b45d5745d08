SPECIFICATION FairSpec
CONSTANTS
  WordSize = 2
  Runs <- SmallRuns
  MaxRuns = 2
  MaxCycles = 9
INVARIANTS TypeOK CommandsInBuffer
PROPERTIES ReportsComplete ReportsOwnCycles RunsReport
