SPECIFICATION Spec
CONSTANTS
  t1 = t1
  t2 = t2
  Workers = {w1, w2}
  Tables = {t1, t2}
  Lookups <- MCLookups
  NoTable = NoTable
  MaxSize = 2
SYMMETRY Symmetry
INVARIANTS
  TypeOK
  AnswerIsLoaded
  OrderIsRuntimeOrderIffAligned
PROPERTY OutdatedStaysOutdated
