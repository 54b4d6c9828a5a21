SPECIFICATION Spec
CONSTANTS
  ana = ana
  bob = bob
  u1 = u1
  u2 = u2
  TOK = TOK
  x1 = x1
  x2 = x2
  x3 = x3
  x4 = x4
  x5 = x5
  x6 = x6
  p1 = p1
  p2 = p2
  Nil = Nil
  ChaincodeName = "tokenization"
  Processors <- MCProcessors
  Identities <- MCIdentities
  Users <- MCUsers
  Tokens = {TOK}
  TxIds <- MCTxIds
  Chains <- OnlyPledges
  Uuids <- MCTxIds
  InitialHeight = 0
  MaxFaults = 0
CHECK_DEADLOCK FALSE
INVARIANTS
  EncumbrancesMatchBalances
