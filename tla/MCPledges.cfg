SPECIFICATION Spec
CONSTANTS
  cust = cust
  ana = ana
  bob = bob
  Nil = Nil
  Identities <- MCIdentities
  Custodians <- MCCustodians
  Investors <- MCOneInvestor
  Owners <- MCOneInvestor
  Tokens = {TOK}
  TxIds = {t1, t2, t3, t4, t5}
  Amounts <- MCAmounts
  Prices <- MCPrices
  Workload <- PledgeWorkload
  MaxChain = 5
SYMMETRY TxSymmetry
CHECK_DEADLOCK FALSE
INVARIANTS
  TypeOK
  FundsNonNegative
  EventsExplainBalances
