SPECIFICATION Spec
CONSTANTS
  p1 = p1
  Pools = {p1, p2}
  Workers = {w1, w2}
  NoKeys = NoKeys
  NoSwap = NoSwap
  Free = Free
  SolSide <- MCSolSide
  Txs <- PairTxs
  RedisFails = TRUE
  MaxRuns = 2
  MaxTime = 0
SYMMETRY Symmetry
INVARIANTS
  TrackedWasDrained
  RowsOnlyForTracked
