------------------------------- MODULE MCEPL -------------------------------
(* Chains and instances of EPL for TLC.  Each chain is one the chaincode can *)
(* produce: requests precede their decisions, refused transactions carry the *)
(* code Fabric gives them.                                                   *)
EXTENDS EPL

CONSTANTS ana, bob, u1, u2, TOK, x1, x2, x3, x4, x5, x6, p1, p2

MCProcessors == {p1}
MCTwoProcessors == {p1, p2}
MCIdentities == {ana, bob}
MCUsers == {u1, u2}
MCTxIds == {x1, x2, x3, x4, x5, x6}

Envelope(id, chaincode, events) ==
  [type |-> "ENDORSER_TRANSACTION", tx |-> id, broken |-> "no",
   actions |-> <<[chaincode |-> chaincode, events |-> events]>>]

(* An entry of a block is an envelope with its verdict. *)
Tx(id, event) == <<Envelope(id, ChaincodeName, <<event>>), "VALID">>
Refused(id, code, event) == <<Envelope(id, ChaincodeName, <<event>>), code>>
Foreign(id, event) == <<Envelope(id, "othercc", <<event>>), "VALID">>
Silent(id) == <<Envelope(id, ChaincodeName, <<>>), "VALID">>
Garbled(id) ==
  <<[type |-> "ENDORSER_TRANSACTION", tx |-> id, broken |-> "inside", actions |-> <<>>],
    "BAD_PAYLOAD">>
Config == <<[type |-> "CONFIG", tx |-> Nil, broken |-> "no", actions |-> <<>>], "VALID">>

(* An envelope of another type, ordered all the same and refused by the peers. *)
Message ==
  <<[type |-> "MESSAGE", tx |-> Nil, broken |-> "no", actions |-> <<>>], "UNKNOWN_TX_TYPE">>

Block(entries) ==
  [data |-> [i \in DOMAIN entries |-> entries[i][1]],
   filter |-> [i \in DOMAIN entries |-> entries[i][2]]]

MintTo(o, a) == [name |-> "MINT", owner |-> o, token |-> TOK, amount |-> a]
BurnOf(o, a) == [name |-> "BURN", owner |-> o, token |-> TOK, amount |-> a]
Nav(price) == [name |-> "NAV_UPDATED", token |-> TOK, price |-> price]
Req(id, type, o, to, a, st) ==
  [id |-> id, type |-> type, owner |-> o, counterparty |-> to, token |-> TOK,
   amount |-> a, status |-> st, requestedBy |-> o]
Requested(id, type, o, to, a) == [name |-> "REQUESTED", request |-> Req(id, type, o, to, a, "requested")]
ApprovedEv(id, type, o, to, a) == [name |-> "APPROVED", request |-> Req(id, type, o, to, a, "committed")]
RejectedEv(id, type, o, to, a) == [name |-> "REJECTED", request |-> Req(id, type, o, to, a, "cancelled")]

(* A transfer, a price change and a burn refused for a stale read. *)
TransferChain ==
  << Block(<<Tx(x1, MintTo(ana, 3)), Tx(x2, Requested(x2, "TRANSFER", ana, bob, 1))>>),
     Block(<<Tx(x3, ApprovedEv(x2, "TRANSFER", ana, bob, 1)),
             Refused(x4, "MVCC_READ_CONFLICT", BurnOf(ana, 3))>>),
     Block(<<Tx(x5, Nav(2))>>) >>

(* A rejected request, two prices, a transaction without an event. *)
RejectChain ==
  << Block(<<Tx(x1, Requested(x1, "ENCUMBRANCE", ana, Nil, 2)), Tx(x2, Nav(1))>>),
     Block(<<Tx(x3, RejectedEv(x1, "ENCUMBRANCE", ana, Nil, 2)), Tx(x4, Nav(2)),
             Silent(x5)>>) >>

(* An encumbrance approved, then released. *)
PledgeChain ==
  << Block(<<Tx(x1, MintTo(ana, 2)), Tx(x2, Requested(x2, "ENCUMBRANCE", ana, Nil, 2))>>),
     Block(<<Tx(x3, ApprovedEv(x2, "ENCUMBRANCE", ana, Nil, 2)),
             Tx(x4, Requested(x4, "UNENCUMBRANCE", ana, Nil, 1))>>),
     Block(<<Tx(x5, ApprovedEv(x4, "UNENCUMBRANCE", ana, Nil, 1)), Tx(x6, BurnOf(ana, 1))>>) >>

(* A mint delivered twice to the ordering service. *)
DuplicateChain ==
  << Block(<<Tx(x1, MintTo(ana, 1))>>),
     Block(<<Refused(x1, "DUPLICATE_TXID", MintTo(ana, 1))>>) >>

(* Two mints in one block, after a channel configuration and beside a        *)
(* transaction of another chaincode.                                         *)
MixedChain ==
  << Block(<<Config>>),
     Block(<<Tx(x5, MintTo(ana, 1)), Foreign(x4, MintTo(ana, 1)), Tx(x6, MintTo(bob, 1))>>) >>

(* A mint and a refused burn behind an envelope that is skipped; in the next *)
(* block a mint, beside an envelope that does not unmarshal.                 *)
GarbledChain ==
  << Block(<<Message, Tx(x1, MintTo(ana, 1)), Refused(x4, "MVCC_READ_CONFLICT", BurnOf(ana, 1))>>),
     Block(<<Garbled(x2), Tx(x3, MintTo(bob, 1))>>) >>

(* A transfer that names no recipient: the chaincode lets it through.        *)
NobodyChain ==
  << Block(<<Tx(x1, MintTo(ana, 2)), Tx(x2, Requested(x2, "TRANSFER", ana, Nil, 1))>>),
     Block(<<Tx(x3, ApprovedEv(x2, "TRANSFER", ana, Nil, 1))>>) >>

AllChains ==
  {TransferChain, RejectChain, PledgeChain, DuplicateChain, MixedChain, GarbledChain,
   NobodyChain}
OverlapChains == {TransferChain, RejectChain, MixedChain}
OnlyTransfers == {TransferChain}
OnlyPledges == {PledgeChain}
=============================================================================
