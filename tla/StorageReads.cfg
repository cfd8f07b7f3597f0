CONSTANTS
  Keys = {k1}
  NoKey = NoKey
  Bucket <- OneBucket
  NumBuckets = 1
  Txs = {1, 2}
  NilTxs = {1}
  MaxIncarnation <- FirstTwice
  Readers = {r1}
  ReadAt = {2, 3}
  GCBefore = {3}
  UsePool = FALSE
SPECIFICATION Spec
INVARIANTS IInv AccountsBalance NoVersionSkipped ValidReadIsCurrent CommitExact
PROPERTY KeepsVersions
CONSTRAINT SmallChains
