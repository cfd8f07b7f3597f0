CONSTANTS
  Tasks = {t1}
  NoTask = NoTask
  NumWorkers = 2
  AllocationsFail = TRUE
  MaxAborts = 1
SPECIFICATION FairSpec
INVARIANTS IInv EveryHandoutReported StatsMatchReports
PROPERTIES ShutdownIsFinal GoroutinesEnd StatsBecomeExact
CHECK_DEADLOCK FALSE
