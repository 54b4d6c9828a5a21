--------------------------- MODULE MCTokenization ---------------------------
(* Instances of Tokenization for TLC. *)
EXTENDS Tokenization, TLC

CONSTANTS cust, ana, bob

MCIdentities == {cust, ana, bob}
MCCustodians == {cust}
MCInvestors == {ana, bob}
MCOneInvestor == {ana}
MCAmounts == {-1, 1}
MCPrices == {0, 1}

TransferWorkload == {"Mint", "Burn", "RequestTransfer", "ApproveRequest", "RejectRequest"}
PledgeWorkload ==
  {"Mint", "Burn", "SetNAV", "RequestEncumbrance", "RequestUnencumbrance", "ApproveRequest"}

TxSymmetry == Permutations(TxIds)
=============================================================================
