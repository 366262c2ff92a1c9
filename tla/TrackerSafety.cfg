SPECIFICATION Spec
CONSTANTS
  p1 = p1
  Pools = {p1}
  Workers = {w1, w2}
  NoKeys = NoKeys
  NoSwap = NoSwap
  Free = Free
  SolSide <- MCSolSide
  Txs <- MixedTxs
  RedisFails = TRUE
  MaxRuns = 4
  MaxTime = 1
SYMMETRY Symmetry
INVARIANTS
  TypeOK
  RowsInTimeOrder
  HolderInserts
  OneLateRowPerWorker
PROPERTY ImplementsLedger
