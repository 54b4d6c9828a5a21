SPECIFICATION DashboardSpec
CONSTANTS
  ana = ana
  bob = bob
  u1 = u1
  u2 = u2
  TOK = TOK
  x1 = x1
  x2 = x2
  x3 = x3
  x4 = x4
  x5 = x5
  x6 = x6
  p1 = p1
  p2 = p2
  Nil = Nil
  ChaincodeName = "tokenization"
  Processors <- MCProcessors
  Identities <- MCOneIdentity
  Users <- MCOneUser
  Tokens = {TOK}
  TxIds <- MCAllIds
  Handlers <- MCHandlers
  WebIds <- MCWebIds
  w1 = w1
  h1 = h1
  h2 = h2
  Chains <- OnlyDecisions
  Uuids <- MCAllIds
  InitialHeight = 0
  MaxFaults = 1
CHECK_DEADLOCK FALSE
INVARIANTS
  OneDecisionPerOperation
  ChainDecisionsShown
  AcceptedIsAudited
PROPERTIES
  CommittedStands
