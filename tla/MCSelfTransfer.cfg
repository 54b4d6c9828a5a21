SPECIFICATION Spec
CONSTANTS
  cust = cust
  ana = ana
  bob = bob
  Nil = Nil
  Identities <- MCIdentities
  Custodians <- MCCustodians
  Investors <- MCInvestors
  Owners <- MCInvestors
  Tokens = {TOK}
  TxIds = {t1, t2, t3}
  Amounts <- MCAmounts
  Prices <- MCPrices
  Workload <- TransferWorkload
  MaxChain = 3
SYMMETRY TxSymmetry
CHECK_DEADLOCK FALSE
INVARIANTS
  SupplyIsMintedLessBurned
