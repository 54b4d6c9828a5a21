SPECIFICATION Spec
CONSTANTS
  cust = cust
  ana = ana
  bob = bob
  Nil = Nil
  Identities <- MCIdentities
  Custodians <- MCCustodians
  Investors <- MCInvestors
  Owners <- MCInvestors
  Tokens = {TOK}
  TxIds = {t1, t2, t3, t4}
  Amounts <- MCAmounts
  Prices <- MCPrices
  Workload <- TransferWorkload
  MaxChain = 4
SYMMETRY TxSymmetry
CHECK_DEADLOCK FALSE
INVARIANTS
  SettlementMatchesChain
  VersionCountsWrites
  EventsExplainBalances
PROPERTIES
  RequestsSettleOnce
  DebitsAreAuthorised
  ImplementsLedger
