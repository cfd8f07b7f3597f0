CONSTANTS
  t1 = t1
  t2 = t2
  t3 = t3
  t4 = t4
  a1 = a1
  Tasks = {t1, t2}
  NoTask = NoTask
  NumWorkers = 2
  Setups <- PlannedSetups
  Requests <- Repeated
  Hash <- KeyHash
SPECIFICATION Spec
INVARIANT IdleExecutesNothing
