SPECIFICATION Spec
CONSTANTS
  t1 = t1
  t2 = t2
  Workers = {w1, w2}
  Tables = {t1}
  Lookups <- OneTableLookups
  NoTable = NoTable
  MaxSize = 2
INVARIANT NeverStored
