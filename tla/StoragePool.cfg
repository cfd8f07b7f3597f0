CONSTANTS
  Keys = {k1, k2}
  NoKey = NoKey
  Bucket <- OneBucket
  NumBuckets = 1
  Txs = {1}
  NilTxs = {}
  MaxIncarnation <- Once
  Readers = {r1}
  ReadAt = {2}
  GCBefore = {2}
  UsePool = TRUE
SPECIFICATION FairSpec
INVARIANT ChainsWellFormed
PROPERTY OperationsReturn
