SPECIFICATION Spec
CONSTANTS
  pA = pA
  pB = pB
  mint = mint
  vA = vA
  vB = vB
  user = user
  jito = jito
  bloxroute = bloxroute
  payer = payer
  program = program
  authority = authority
  PoolMint <- MCPoolMint
  Vault <- MCVault
  TipAccounts <- MCTipAccounts
  Authority = authority
  NoPool = NoPool
  Txs <- MCTxs
  Word = 4
INVARIANTS
  TypeOK
  TradeOfLastSwap
  ComputeAsCharged
  TipIsLastTransfer
  AmountIsVaultChange
CHECK_DEADLOCK FALSE
