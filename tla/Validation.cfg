CONSTANTS
  k1 = k1
  k2 = k2
  Keys = {k1, k2}
  Txs = {0, 1, 3}
  NilTxs = {1}
  MaxFastReads = 1
  MaxFastWrites = 1
  DefaultWorkers = 3
  MaxCacheSize = 1
  RequestsPerWorker = 1
  Setups <- Configurations
SPECIFICATION FairSpec
INVARIANTS IInv ValidIsSnapshot ConflictsExact ShutdownLeavesNoneHalfway
PROPERTIES RequestsAnswered ShutdownReturns
CHECK_DEADLOCK FALSE
