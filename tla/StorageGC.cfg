CONSTANTS
  Keys = {k1}
  NoKey = NoKey
  Bucket <- OneBucket
  NumBuckets = 1
  Txs = {1, 2}
  NilTxs = {}
  MaxIncarnation <- Once
  Readers = {}
  ReadAt = {3}
  GCBefore = {2}
  UsePool = FALSE
SPECIFICATION Spec
PROPERTY GCKeepsRecentCommitted
