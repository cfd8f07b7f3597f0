CONSTANTS
  t1 = t1
  t2 = t2
  Tasks = {t1, t2}
  NoTask = NoTask
  NumWorkers = 1
  Setups <- Full
SPECIFICATION Spec
INVARIANT ReadyIsQueued
