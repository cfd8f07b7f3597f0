CONSTANTS
  c1 = c1
  c2 = c2
  MayCall <- OwnerAndUser
  Clients = {c1, c2}
  NoClient = NoClient
  MaxStarts = 2
  MetricsSettings = {TRUE, FALSE}
SPECIFICATION FairSpec
INVARIANTS IInv OldGenerationsEnd PanicNeedsOldCollector
PROPERTIES BatchesFindWorkers StopReturnsUnlessMetricsWait
CHECK_DEADLOCK FALSE
