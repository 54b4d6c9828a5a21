----------------------------- MODULE MCPlatform -----------------------------
(* An instance of Platform for TLC. *)
EXTENDS Platform, TLC

CONSTANTS cust, ana, bob, u1, u2, p1

MCIdentities == {cust, ana, bob}
MCCustodians == {cust}
MCInvestors == {ana, bob}
AllFunctions ==
  {"Mint", "Burn", "SetNAV", "RequestTransfer", "RequestEncumbrance", "RequestUnencumbrance",
   "ApproveRequest", "RejectRequest"}

Symmetry ==
  Permutations(TxIds) \cup Permutations(Investors) \cup Permutations(Users)
=============================================================================
