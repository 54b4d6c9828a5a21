SPECIFICATION PlatformSpec
CONSTANTS
  cust = cust
  ana = ana
  bob = bob
  u2 = u2
  u1 = u1
  p1 = p1
  Nil = Nil
  Identities <- MCIdentities
  Custodians <- MCCustodians
  Investors <- MCInvestors
  Owners <- MCInvestors
  Tokens = {TOK}
  TxIds = {t1, t2, t3}
  Amounts = {1}
  Prices = {1}
  Workload <- AllFunctions
  MaxChain = 3
  Processors = {p1}
  Users = {u1, u2}
  Uuids = {t1, t2, t3}
  ChaincodeName = "tokenization"
  MaxFaults = 0
SYMMETRY Symmetry
CHECK_DEADLOCK FALSE
INVARIANTS
  ProjectionMatchesLedger
