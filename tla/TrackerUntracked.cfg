SPECIFICATION Spec
CONSTANTS
  p1 = p1
  Pools = {p1}
  Workers = {w1, w2}
  NoKeys = NoKeys
  NoSwap = NoSwap
  Free = Free
  SolSide <- MCSolSide
  Txs <- SingleTxs
  RedisFails = FALSE
  MaxRuns = 3
  MaxTime = 0
INVARIANT UntrackedIsNotTracked
