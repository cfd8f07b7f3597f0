CONSTANTS
  c1 = c1
  c2 = c2
  MayCall <- Everything
  Clients = {c1}
  NoClient = NoClient
  MaxStarts = 1
  MetricsSettings = {TRUE}
SPECIFICATION FairSpec
PROPERTY StopReturns
CHECK_DEADLOCK FALSE
