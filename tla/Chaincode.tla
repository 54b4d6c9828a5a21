----------------------------- MODULE Chaincode -----------------------------
(***************************************************************************)
(* The tokenization chaincode as pure operators.  An invocation is         *)
(* simulated by a peer against a world state s: Accepts says whether the   *)
(* function returns without error, Reads and Writes are the keys it passes *)
(* to GetState and the values it passes to PutState, Emits is the          *)
(* chaincode event it sets.  A function that returns an error has no       *)
(* effect, so it simply does not accept.                                   *)
(*                                                                         *)
(* GetState never returns a value written earlier by the same invocation   *)
(* (Fabric buffers PutState in the write set), so every read below is a    *)
(* read of s.                                                              *)
(***************************************************************************)
EXTENDS Integers

CONSTANTS
  Identities,   \* X.509 identities that can invoke the chaincode
  Custodians,   \* those whose certificate carries role=custodian
  Investors,    \* those whose certificate carries role=investor
  Owners,       \* owner identifiers that balances are kept for
  Tokens,       \* token identifiers
  TxIds,        \* Fabric transaction identifiers
  Amounts,      \* amounts a caller may pass, valid or not
  Prices,       \* prices a custodian may pass, valid or not
  Nil           \* absent key, empty counterparty

ASSUME AmountsAssumption == Amounts \subseteq Int /\ Prices \subseteq Int
ASSUME InvestorsAssumption == Investors \subseteq Owners

-----------------------------------------------------------------------------
(* Keys and values of the world state. *)

BalanceKey(owner, token) == <<"balance", owner, token>>
RequestKey(id) == <<"request", id>>
NavKey(token) == <<"nav", token>>

BalanceKeys == {BalanceKey(o, t) : o \in Owners, t \in Tokens}
RequestKeys == {RequestKey(r) : r \in TxIds}
NavKeys == {NavKey(t) : t \in Tokens}
Keys == BalanceKeys \cup RequestKeys \cup NavKeys

RequestTypes == {"TRANSFER", "ENCUMBRANCE", "UNENCUMBRANCE"}
Statuses == {"requested", "committed", "cancelled"}

Balance == [available: Int, encumbered: Int, version: Nat]
Request == [id: TxIds, type: RequestTypes, owner: Owners,
            counterparty: Owners \cup {Nil}, token: Tokens, amount: Int,
            status: Statuses, requestedBy: Identities]
NAV == [price: Int]

ASSUME NilAssumption == Nil \notin Owners \cup Balance \cup Request

(* A world state holds a balance, a request or a price under its own kind of *)
(* key, or nothing.                                                         *)
Typed(s) ==
  /\ \A k \in BalanceKeys : s[k] \in Balance \cup {Nil}
  /\ \A k \in RequestKeys : s[k] \in Request \cup {Nil}
  /\ \A k \in NavKeys : s[k] \in NAV \cup {Nil}

(* An absent balance reads as zero; an absent request is an error. *)
ReadBalance(s, owner, token) ==
  IF s[BalanceKey(owner, token)] = Nil
    THEN [available |-> 0, encumbered |-> 0, version |-> 0]
    ELSE s[BalanceKey(owner, token)]

IsPending(s, id) ==
  /\ s[RequestKey(id)] # Nil
  /\ s[RequestKey(id)].status = "requested"

(* The balance b after one write that moves its two parts. *)
Moved(b, available, encumbered) ==
  [available  |-> b.available + available,
   encumbered |-> b.encumbered + encumbered,
   version    |-> b.version + 1]

-----------------------------------------------------------------------------
(* The invocations a client can submit. *)

SupplyCall == [fn: {"Mint", "Burn"}, caller: Identities, owner: Owners,
               token: Tokens, amount: Amounts]
NavCall == [fn: {"SetNAV"}, caller: Identities, token: Tokens, price: Prices]
TransferCall == [fn: {"RequestTransfer"}, caller: Identities, owner: Owners,
                 to: Owners, token: Tokens, amount: Amounts]
PledgeCall == [fn: {"RequestEncumbrance", "RequestUnencumbrance"},
               caller: Identities, owner: Owners, to: {Nil}, token: Tokens,
               amount: Amounts]
RequestCall == TransferCall \cup PledgeCall
DecisionCall == [fn: {"ApproveRequest", "RejectRequest"}, caller: Identities,
                 request: TxIds]
Call == SupplyCall \cup NavCall \cup RequestCall \cup DecisionCall

(* The request type each Request function creates. *)
RequestTypeOf == [RequestTransfer      |-> "TRANSFER",
                  RequestEncumbrance   |-> "ENCUMBRANCE",
                  RequestUnencumbrance |-> "UNENCUMBRANCE"]

-----------------------------------------------------------------------------
(* Access control. *)

requireCustodian(caller) == caller \in Custodians
requireInvestorOwner(caller, owner) == caller \in Investors /\ caller = owner

(* What each function requires. *)

MintAccepts(c) == requireCustodian(c.caller) /\ c.amount > 0

BurnAccepts(s, c) ==
  /\ requireCustodian(c.caller)
  /\ c.amount > 0
  /\ ReadBalance(s, c.owner, c.token).available >= c.amount

SetNAVAccepts(c) == requireCustodian(c.caller) /\ c.price > 0

(* Slip: any investor may ask on behalf of any owner. *)
RequestAcceptsForOthers(c) == c.amount > 0 /\ c.caller \in Investors

RequestAccepts(c) == c.amount > 0 /\ requireInvestorOwner(c.caller, c.owner)

(* Slip: a settled request may be approved again. *)
ApproveAcceptsSettled(s, c) ==
  /\ requireCustodian(c.caller)
  /\ s[RequestKey(c.request)] # Nil
  /\ LET r == s[RequestKey(c.request)]
     IN  ReadBalance(s, r.owner, r.token).available >= r.amount

(* Slip: an unencumbrance is checked against the available part. *)
ApproveAcceptsOnAvailable(s, c) ==
  /\ requireCustodian(c.caller)
  /\ IsPending(s, c.request)
  /\ LET r == s[RequestKey(c.request)]
     IN  ReadBalance(s, r.owner, r.token).available >= r.amount

ApproveAccepts(s, c) ==
  /\ requireCustodian(c.caller)
  /\ IsPending(s, c.request)
  /\ LET r == s[RequestKey(c.request)]
         b == ReadBalance(s, r.owner, r.token)
     IN  \/ r.type \in {"TRANSFER", "ENCUMBRANCE"} /\ b.available >= r.amount
         \/ r.type = "UNENCUMBRANCE" /\ b.encumbered >= r.amount

RejectAccepts(s, c) == requireCustodian(c.caller) /\ IsPending(s, c.request)

Accepts(s, c) ==
  \/ c.fn = "Mint" /\ MintAccepts(c)
  \/ c.fn = "Burn" /\ BurnAccepts(s, c)
  \/ c.fn = "SetNAV" /\ SetNAVAccepts(c)
  \/ c.fn \in DOMAIN RequestTypeOf /\ RequestAccepts(c)
  \/ c.fn = "ApproveRequest" /\ ApproveAccepts(s, c)
  \/ c.fn = "RejectRequest" /\ RejectAccepts(s, c)

-----------------------------------------------------------------------------
(* The keys an accepted invocation reads.  SetNAV and the Request functions *)
(* read nothing: they are blind writes.                                     *)

(* Slip: the request is looked up by the client, not by the chaincode. *)
ApproveReadsNoRequest(s, id) ==
  LET r == s[RequestKey(id)] IN {BalanceKey(r.owner, r.token)}

(* Slip: the counterparty's balance comes from a cache. *)
ApproveReadsNoCounterparty(s, id) ==
  LET r == s[RequestKey(id)] IN {RequestKey(id), BalanceKey(r.owner, r.token)}

ApproveReads(s, id) ==
  LET r == s[RequestKey(id)]
  IN  {RequestKey(id), BalanceKey(r.owner, r.token)}
        \cup IF r.type = "TRANSFER" THEN {BalanceKey(r.counterparty, r.token)} ELSE {}

(* Slip: Mint adds to a balance it did not read in its own transaction. *)
ReadsNotForMint(s, c) ==
  CASE c.fn = "Burn"           -> {BalanceKey(c.owner, c.token)}
    [] c.fn = "ApproveRequest" -> ApproveReads(s, c.request)
    [] c.fn = "RejectRequest"  -> {RequestKey(c.request)}
    [] OTHER                   -> {}

Reads(s, c) ==
  CASE c.fn \in {"Mint", "Burn"} -> {BalanceKey(c.owner, c.token)}
    [] c.fn = "ApproveRequest"   -> ApproveReads(s, c.request)
    [] c.fn = "RejectRequest"    -> {RequestKey(c.request)}
    [] OTHER                     -> {}

-----------------------------------------------------------------------------
(* The write set of an accepted invocation. *)

SupplyWrites(s, c) ==
  LET b == ReadBalance(s, c.owner, c.token)
  IN  [k \in {BalanceKey(c.owner, c.token)} |->
         IF c.fn = "Mint" THEN Moved(b, c.amount, 0) ELSE Moved(b, -c.amount, 0)]

NewRequest(tx, c) ==
  [id |-> tx, type |-> RequestTypeOf[c.fn], owner |-> c.owner,
   counterparty |-> c.to, token |-> c.token, amount |-> c.amount,
   status |-> "requested", requestedBy |-> c.caller]

(* Slip: the owner is written last. *)
TransferWritesOwnerLast(s, r) ==
  LET from == BalanceKey(r.owner, r.token)
  IN  [k \in {from, BalanceKey(r.counterparty, r.token)} |->
         IF k = from
           THEN Moved(ReadBalance(s, r.owner, r.token), -r.amount, 0)
           ELSE Moved(ReadBalance(s, r.counterparty, r.token), r.amount, 0)]

(* Both balances of a transfer are read before either is written, and the   *)
(* counterparty is written last: when it is the owner itself, its write is  *)
(* the one that stays.                                                      *)
TransferWrites(s, r) ==
  LET to == BalanceKey(r.counterparty, r.token)
  IN  [k \in {BalanceKey(r.owner, r.token), to} |->
         IF k = to
           THEN Moved(ReadBalance(s, r.counterparty, r.token), r.amount, 0)
           ELSE Moved(ReadBalance(s, r.owner, r.token), -r.amount, 0)]

(* Slip: the release forgets to give the amount back to the available part. *)
PledgeWritesOneSided(s, r) ==
  [k \in {BalanceKey(r.owner, r.token)} |->
     IF r.type = "ENCUMBRANCE"
       THEN Moved(ReadBalance(s, r.owner, r.token), -r.amount, r.amount)
       ELSE Moved(ReadBalance(s, r.owner, r.token), 0, -r.amount)]

PledgeWrites(s, r) ==
  LET pledged == IF r.type = "ENCUMBRANCE" THEN r.amount ELSE -r.amount
  IN  [k \in {BalanceKey(r.owner, r.token)} |->
         Moved(ReadBalance(s, r.owner, r.token), -pledged, pledged)]

(* Slip: StatusApproved spelled like its name. *)
ApproveWritesApproved(s, id) ==
  [k \in {RequestKey(id)} |-> [s[k] EXCEPT !.status = "approved"]]

ApproveWrites(s, id) ==
  LET r == s[RequestKey(id)]
      moves == IF r.type = "TRANSFER" THEN TransferWrites(s, r) ELSE PledgeWrites(s, r)
  IN  [k \in {RequestKey(id)} \cup DOMAIN moves |->
         IF k = RequestKey(id) THEN [r EXCEPT !.status = "committed"] ELSE moves[k]]

RejectWrites(s, id) ==
  [k \in {RequestKey(id)} |-> [s[k] EXCEPT !.status = "cancelled"]]

Writes(s, tx, c) ==
  CASE c.fn \in {"Mint", "Burn"}      -> SupplyWrites(s, c)
    [] c.fn = "SetNAV"                -> [k \in {NavKey(c.token)} |-> [price |-> c.price]]
    [] c.fn \in DOMAIN RequestTypeOf  -> [k \in {RequestKey(tx)} |-> NewRequest(tx, c)]
    [] c.fn = "ApproveRequest"        -> ApproveWrites(s, c.request)
    [] c.fn = "RejectRequest"         -> RejectWrites(s, c.request)

-----------------------------------------------------------------------------
(* The event it sets.  A request event carries the request as just written; *)
(* its name in the code is the request type followed by the suffix kept here.*)

Emits(s, tx, c) ==
  CASE c.fn = "Mint" -> [name |-> "MINT", owner |-> c.owner, token |-> c.token,
                         amount |-> c.amount]
    [] c.fn = "Burn" -> [name |-> "BURN", owner |-> c.owner, token |-> c.token,
                         amount |-> c.amount]
    [] c.fn = "SetNAV" -> [name |-> "NAV_UPDATED", token |-> c.token, price |-> c.price]
    [] c.fn \in DOMAIN RequestTypeOf ->
         [name |-> "REQUESTED", request |-> NewRequest(tx, c)]
    [] c.fn = "ApproveRequest" ->
         [name |-> "APPROVED", request |-> ApproveWrites(s, c.request)[RequestKey(c.request)]]
    [] c.fn = "RejectRequest" ->
         [name |-> "REJECTED", request |-> RejectWrites(s, c.request)[RequestKey(c.request)]]

(* The world state once a write set has been committed. *)
Apply(s, writes) == [k \in Keys |-> IF k \in DOMAIN writes THEN writes[k] ELSE s[k]]

EmptyState == [k \in Keys |-> Nil]
=============================================================================
