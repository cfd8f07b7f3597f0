CONSTANTS
  t1 = t1
  t2 = t2
  t3 = t3
  t4 = t4
  a1 = a1
  Tasks = {t1, t2, t3, t4}
  NoTask = NoTask
  NumWorkers = 2
  Setups <- PlannedSetups
  Requests <- AllRequests
  Hash <- KeyHash
SPECIFICATION FairSpec
INVARIANTS IInv OnePlace WorkerStatusAccurate PendingWaits ConflictsNeverOverlap PlanIsSound
PROPERTIES RunsInOrder EveryTaskCompletes DetectsCycles
CHECK_DEADLOCK FALSE
