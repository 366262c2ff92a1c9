SPECIFICATION Spec
CONSTANTS
  pA = pA
  pB = pB
  Clients = {c1, c2}
  Writer = Writer
  NoRequest = NoRequest
  Delete = Delete
  Trades <- MCTrades
  Filters <- MCFilters
  IntMax = 1
  BigMax = 2
  MaxRows = 3
SYMMETRY Symmetry
INVARIANTS
  TypeOK
  ServesWithSchema
  FirstConnectionSuffices
  AnswersArePages
PROPERTY LostDatabaseStaysLost
