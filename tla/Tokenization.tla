---------------------------- MODULE Tokenization ----------------------------
(***************************************************************************)
(* The tokenization chaincode on a Fabric channel.  A client has an        *)
(* invocation endorsed: a peer simulates it against the world state of     *)
(* that moment and signs the versions it read, the values it would write   *)
(* and the event (one action per chaincode function).  Much later, and in  *)
(* any order, the ordering service puts the envelope in a block and the    *)
(* peers validate it: a transaction id seen before is refused, an envelope *)
(* that read a version which has changed is refused, any other takes       *)
(* effect (Order).  Refused transactions stay on the chain with their code.*)
(*                                                                         *)
(* An endorsed envelope may be delivered to the orderer more than once.    *)
(***************************************************************************)
EXTENDS Chaincode, Sequences, FiniteSets, Totals

CONSTANTS
  Workload,   \* the chaincode functions clients use in this instance
  MaxChain    \* bound on the transactions ordered

ASSUME MaxChainAssumption == MaxChain \in Nat

VARIABLES
  state,      \* committed world state: key -> value or Nil
  version,    \* key -> position in the chain of its last write, 0 if none
  envelope,   \* transaction id -> endorsed envelope or Nil
  chain       \* transactions in commit order, each with its validation code

vars == <<state, version, envelope, chain>>

Codes == {"VALID", "MVCC_READ_CONFLICT", "DUPLICATE_TXID"}

Ordered == {chain[i].tx : i \in DOMAIN chain}
Valid == {chain[i].tx : i \in {j \in DOMAIN chain : chain[j].code = "VALID"}}

Init ==
  /\ state = EmptyState
  /\ version = [k \in Keys |-> 0]
  /\ envelope = [tx \in TxIds |-> Nil]
  /\ chain = <<>>

-----------------------------------------------------------------------------
(* Endorsement. *)

Endorse(tx, c) ==
  /\ envelope[tx] = Nil
  /\ Accepts(state, c)
  /\ envelope' = [envelope EXCEPT ![tx] =
                    [call   |-> c,
                     reads  |-> [k \in Reads(state, c) |-> version[k]],
                     writes |-> Writes(state, tx, c),
                     event  |-> Emits(state, tx, c)]]
  /\ UNCHANGED <<state, version, chain>>

Invoke(tx, fn, Calls) ==
  /\ fn \in Workload
  /\ \E c \in Calls : c.fn = fn /\ Endorse(tx, c)

Mint(tx) == Invoke(tx, "Mint", SupplyCall)
Burn(tx) == Invoke(tx, "Burn", SupplyCall)
SetNAV(tx) == Invoke(tx, "SetNAV", NavCall)
RequestTransfer(tx) == Invoke(tx, "RequestTransfer", RequestCall)
RequestEncumbrance(tx) == Invoke(tx, "RequestEncumbrance", RequestCall)
RequestUnencumbrance(tx) == Invoke(tx, "RequestUnencumbrance", RequestCall)
ApproveRequest(tx) == Invoke(tx, "ApproveRequest", DecisionCall)
RejectRequest(tx) == Invoke(tx, "RejectRequest", DecisionCall)

-----------------------------------------------------------------------------
(* Ordering, validation and commit, as the Fabric network does them. *)

(* Every key still has the version the endorser read. *)
ReadsCurrent(e) == \A k \in DOMAIN e.reads : version[k] = e.reads[k]

ValidationCode(tx) ==
  IF tx \in Ordered THEN "DUPLICATE_TXID"
  ELSE IF ReadsCurrent(envelope[tx]) THEN "VALID"
  ELSE "MVCC_READ_CONFLICT"

Order(tx) ==
  /\ envelope[tx] # Nil
  /\ Len(chain) < MaxChain
  /\ chain' = Append(chain, [tx |-> tx, code |-> ValidationCode(tx)])
  /\ IF ValidationCode(tx) = "VALID"
       THEN /\ state' = Apply(state, envelope[tx].writes)
            /\ version' = [k \in Keys |-> IF k \in DOMAIN envelope[tx].writes
                                            THEN Len(chain) + 1 ELSE version[k]]
       ELSE UNCHANGED <<state, version>>
  /\ UNCHANGED envelope

Next ==
  \E tx \in TxIds :
    \/ Mint(tx) \/ Burn(tx) \/ SetNAV(tx)
    \/ RequestTransfer(tx) \/ RequestEncumbrance(tx) \/ RequestUnencumbrance(tx)
    \/ ApproveRequest(tx) \/ RejectRequest(tx)
    \/ Order(tx)

Spec == Init /\ [][Next]_vars

-----------------------------------------------------------------------------
(* Type correctness. *)

IsEnvelope(e) ==
  /\ e.call \in Call
  /\ DOMAIN e.reads \subseteq Keys
  /\ DOMAIN e.writes \subseteq Keys
  /\ \A k \in DOMAIN e.reads : e.reads[k] \in Nat

(* The state keeps its shape: the world state holds a balance, a request or *)
(* a price under each kind of key, and every envelope is well formed.       *)
TypeOK ==
  /\ DOMAIN state = Keys /\ Typed(state)
  /\ version \in [Keys -> Nat]
  /\ DOMAIN envelope = TxIds
  /\ \A tx \in TxIds : envelope[tx] # Nil => IsEnvelope(envelope[tx])
  /\ chain \in Seq([tx : TxIds, code : Codes])

-----------------------------------------------------------------------------
(* Safety. *)

(* No interleaving of mints, burns and approvals makes a balance negative: *)
(* the sufficiency check of Burn and ApproveRequest, made at endorsement,   *)
(* still holds when the transaction commits.                                *)
FundsNonNegative ==
  \A o \in Owners, t \in Tokens :
    /\ ReadBalance(state, o, t).available >= 0
    /\ ReadBalance(state, o, t).encumbered >= 0

(* A request on the ledger never changes but for its status, which leaves   *)
(* "requested" once and is final: ApproveRequest and RejectRequest endorsed *)
(* against the same pending request cannot both take effect, and no later   *)
(* request overwrites it.                                                   *)
RequestsSettleOnce ==
  [][\A r \in TxIds :
       LET old == state[RequestKey(r)]
           new == state'[RequestKey(r)]
       IN  \/ old = Nil
           \/ new = old
           \/ /\ old.status = "requested"
              /\ new \in {[old EXCEPT !.status = st] : st \in {"committed", "cancelled"}}]_vars

(* The status of a request is what the chain says: committed by exactly one *)
(* valid approval, cancelled by exactly one valid rejection, requested      *)
(* while there is neither, absent until its own transaction is valid.       *)
Decisions(r, fn) ==
  {tx \in Valid : envelope[tx].call.fn = fn /\ envelope[tx].call.request = r}

SettlementMatchesChain ==
  \A r \in TxIds :
    LET approvals == Cardinality(Decisions(r, "ApproveRequest"))
        rejections == Cardinality(Decisions(r, "RejectRequest"))
    IN  IF state[RequestKey(r)] = Nil
          THEN /\ approvals = 0 /\ rejections = 0
               /\ r \in Valid => envelope[r].call.fn \notin DOMAIN RequestTypeOf
          ELSE /\ r \in Valid
               /\ <<state[RequestKey(r)].status, approvals, rejections>> \in
                    {<<"requested", 0, 0>>, <<"committed", 1, 0>>, <<"cancelled", 0, 1>>}

(* The version field counts the valid transactions that wrote the balance:  *)
(* no two of them computed their write from the same value (no lost update).*)
VersionCountsWrites ==
  \A o \in Owners, t \in Tokens :
    ReadBalance(state, o, t).version =
      Cardinality({tx \in Valid : BalanceKey(o, t) \in DOMAIN envelope[tx].writes})

(* Replaying the events of the valid transactions as the EPL does (MINT     *)
(* adds, BURN subtracts, an approved transfer subtracts from the owner and  *)
(* adds to the counterparty, an approved pledge moves between the two parts)*)
(* gives the balances of the ledger, up to the amounts an owner transferred *)
(* to itself, which the ledger credits and never debits.                    *)
TransferOf(e, t) == e.name = "APPROVED" /\ e.request.type = "TRANSFER" /\ e.request.token = t
PledgeOf(e, o, t, type) ==
  /\ e.name = "APPROVED" /\ e.request.type = type
  /\ e.request.owner = o /\ e.request.token = t

AmountOf(e) ==
  IF e.name = "APPROVED" THEN e.request.amount
  ELSE IF e.name \in {"MINT", "BURN"} THEN e.amount
  ELSE 0

EventAmounts == [tx \in Valid |-> AmountOf(envelope[tx].event)]

(* Sum of the amounts of the valid transactions whose event satisfies P. *)
SumOver(P(_)) == Total(EventAmounts, {tx \in Valid : P(envelope[tx].event)})

Minted(o, t) == SumOver(LAMBDA e : e.name = "MINT" /\ e.owner = o /\ e.token = t)
Burned(o, t) == SumOver(LAMBDA e : e.name = "BURN" /\ e.owner = o /\ e.token = t)
Sent(o, t) == SumOver(LAMBDA e : TransferOf(e, t) /\ e.request.owner = o)
Received(o, t) == SumOver(LAMBDA e : TransferOf(e, t) /\ e.request.counterparty = o)
SentToSelf(o, t) ==
  SumOver(LAMBDA e : /\ TransferOf(e, t)
                     /\ e.request.owner = o /\ e.request.counterparty = o)
Pledged(o, t) ==
  SumOver(LAMBDA e : PledgeOf(e, o, t, "ENCUMBRANCE"))
    - SumOver(LAMBDA e : PledgeOf(e, o, t, "UNENCUMBRANCE"))

EventsExplainBalances ==
  \A o \in Owners, t \in Tokens :
    /\ ReadBalance(state, o, t).encumbered = Pledged(o, t)
    /\ ReadBalance(state, o, t).available =
         Minted(o, t) - Burned(o, t) - Sent(o, t) + Received(o, t) - Pledged(o, t)
           + SentToSelf(o, t)

(* What an owner holds shrinks only by a custodian's burn, or by a transfer *)
(* that this owner itself asked for in an earlier valid transaction and a   *)
(* custodian approved in the one that commits now.                          *)
Holding(s, o, t) == ReadBalance(s, o, t).available + ReadBalance(s, o, t).encumbered

DebitsAreAuthorised ==
  [][\A o \in Owners, t \in Tokens :
       Holding(state', o, t) < Holding(state, o, t) =>
         LET c == envelope[chain'[Len(chain')].tx].call
         IN  /\ c.caller \in Custodians
             /\ \/ c.fn = "Burn" /\ c.owner = o
                \/ /\ c.fn = "ApproveRequest"
                   /\ c.request \in Valid
                   /\ envelope[c.request].call.fn = "RequestTransfer"
                   /\ envelope[c.request].call.caller = o
                   /\ o \in Investors]_vars

(* Endorsing early and committing late is invisible: the valid transactions *)
(* take effect as if each ran alone, on the current state, when it commits. *)
Ledger == INSTANCE TokenLedger WITH
  emitted <- [tx \in TxIds |-> IF tx \in Valid THEN envelope[tx].event ELSE Nil]

ImplementsLedger == Ledger!Spec

(* A transfer moves amount from the owner to the counterparty, and only the *)
(* custodian mints: what is held of a token is what was minted less what    *)
(* was burned.                                                              *)
SupplyIsMintedLessBurned ==
  \A t \in Tokens :
    MapThenSumSet(LAMBDA o : Holding(state, o, t), Owners)
      = MapThenSumSet(LAMBDA o : Minted(o, t) - Burned(o, t), Owners)
=============================================================================
