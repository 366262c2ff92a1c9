SPECIFICATION KeysSpec
CONSTANTS
  p1 = p1
  p2 = p2
  Pools = {p1, p2}
  Workers = {w1, w2}
  NoKeys = NoKeys
  SolSide <- MCSolSide
INVARIANT StoredKeysWereFetched
