SPECIFICATION SysFairSpec
CONSTANTS
  p1 = p1
  t1 = t1
  Pools = {p1}
  Workers = {w1, w2}
  Sources = {l1}
  Sigs = {t1}
  NoSig = NoSig
  NoKeys = NoKeys
  NoSwap = NoSwap
  Free = Free
  SolSide <- MCSolSide
  Txs <- MCTxs
  TxOf <- MCTxOf
  RedisFails = FALSE
  MaxRuns = 2
  MaxTime = 0
  MaxReceived = 2
INVARIANTS
  SysTypeOK
  RecordedOncePerWorker
PROPERTIES
  LostOnlyByDeath
  RunsEnd
  ImplementsTracker
  ImplementsIngest
