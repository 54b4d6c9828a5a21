-------------------------------- MODULE EPL --------------------------------
(***************************************************************************)
(* The event processor: it subscribes to the channel's blocks from the     *)
(* stored checkpoint, decodes each, saves it with its transactions and     *)
(* chaincode events, projects the events onto the query model and advances *)
(* the checkpoint.  todo[p] holds the database calls processor p has still *)
(* to make for the block in hand; each action below is one of them.  A     *)
(* call that returns an error drops the block and the processor            *)
(* reconnects, to start again from the block after the checkpoint.  The    *)
(* process may die between any two calls, and a call may fail, MaxFaults   *)
(* times in all.  Nothing prevents two processes on one channel.           *)
(*                                                                         *)
(* chain is the committed chain, a sequence of raw blocks.  A block that   *)
(* has not been delivered yet is one the processor has not yet taken, so   *)
(* the whole chain is chosen at the start.                                 *)
(***************************************************************************)
EXTENDS Decoder, Repository, Totals

CONSTANTS
  Processors,     \* processes running cmd/epl on this channel and database
  Identities,     \* Fabric identities that appear in event payloads
  Chains,         \* chains of this instance
  InitialHeight,  \* checkpoint height the migrations leave in the database
  MaxFaults       \* bound on crashes and failed calls

(* What the chaincode emits.  A request carries the id of its transaction;   *)
(* an approved one is committed, a rejected one cancelled.                   *)
Request(status) ==
  [id: TxIds, type: {"TRANSFER", "ENCUMBRANCE", "UNENCUMBRANCE"}, owner: Identities,
   counterparty: Identities \cup {Nil}, token: Tokens, amount: Int, status: {status},
   requestedBy: Identities]
Event ==
  [name: {"MINT", "BURN"}, owner: Identities, token: Tokens, amount: Int]
    \cup [name: {"NAV_UPDATED"}, token: Tokens, price: Int]
    \cup [name: {"REQUESTED"}, request: Request("requested")]
    \cup [name: {"APPROVED"}, request: Request("committed")]
    \cup [name: {"REJECTED"}, request: Request("cancelled")]

(* What a peer delivers: as many verdicts as envelopes, VALID for at most    *)
(* one transaction of an id, whatever the block.                             *)
RawEnvelope ==
  [type: {"ENDORSER_TRANSACTION", "CONFIG", "MESSAGE"}, tx: TxIds \cup {Nil},
   broken: {"no", "inside", "outside"}, actions: Seq([chaincode: STRING, events: Seq(Event)])]
RawBlock == [data: Seq(RawEnvelope), filter: Seq(STRING)]

WellFormed(block) ==
  /\ block \in RawBlock /\ Len(block.filter) = Len(block.data)
  /\ \A i \in DOMAIN block.data :
       IsTransaction(block.data[i]) =>
         /\ block.data[i].tx \in TxIds
         /\ \A action \in Range(block.data[i].actions) :
              action.chaincode = ChaincodeName =>
                \A e \in Range(action.events) :
                  e.name = "REQUESTED" => e.request.id = block.data[i].tx

ValidOnce(c) ==
  \A h, k \in DOMAIN c : \A i \in DOMAIN c[h].data, j \in DOMAIN c[k].data :
    (/\ IsTransaction(c[h].data[i]) /\ c[h].filter[i] = "VALID"
     /\ IsTransaction(c[k].data[j]) /\ c[k].filter[j] = "VALID"
     /\ c[h].data[i].tx = c[k].data[j].tx) => h = k /\ i = j

(* A row of operations.  Where an identity could not be replaced by a user,  *)
(* it stays.                                                                 *)
Operation ==
  [type: {"TRANSFER", "ENCUMBRANCE", "UNENCUMBRANCE"},
   status: {"requested", "accepted", "committed", "cancelled"},
   requestedBy: Users \cup {Nil}, owner: Identities \cup Users,
   counterparty: Identities \cup Users \cup {Nil}]

ASSUME ChainsAssumption ==
  \A c \in Chains : c \in Seq(RawBlock) /\ ValidOnce(c) /\ \A h \in DOMAIN c : WellFormed(c[h])
ASSUME NilAssumption ==
  Nil \notin Nat \cup Users \cup TxIds \cup Identities \cup Event \cup Operation
ASSUME ProcessorsAssumption == IsFiniteSet(Processors)
ASSUME InitialHeightAssumption == InitialHeight \in Nat
ASSUME MaxFaultsAssumption == MaxFaults \in Nat

VARIABLES
  chain,     \* committed blocks; block h is chain[h] (block 0 is configuration)
  db,        \* the database
  mapping,   \* fabric_identity_mappings: identity -> user or Nil
  phase,     \* processor -> "starting", "reconciling", "reconnecting", "running", "down"
  next,      \* processor -> block in hand or next expected; height read while reconciling
  todo,      \* processor -> calls still to make for the block in hand
  faults     \* faults so far

vars == <<chain, db, mapping, phase, next, todo, faults>>

Start ==
  /\ db = EmptyDatabase(InitialHeight)
  /\ mapping \in [Identities -> Users \cup {Nil}]
  /\ phase = [p \in Processors |-> "starting"]
  /\ next = [p \in Processors |-> 0]
  /\ todo = [p \in Processors |-> <<>>]
  /\ faults = 0

Init == chain \in Chains /\ Start

-----------------------------------------------------------------------------
(* The calls one event, one transaction and one block give rise to. *)

Resolve(identity) == [do |-> "ResolveFabricIdentity", identity |-> identity]
Canonicalize(field, identity) ==
  [do |-> "canonicalizePayload", field |-> field, identity |-> identity]
Delta(owner, token, available, encumbered) ==
  [do |-> "UpsertBalanceDelta", owner |-> owner, token |-> token,
   available |-> available, encumbered |-> encumbered]
Status(r, status) == [do |-> "SetOperationStatus", id |-> r.id, status |-> status]
Audit(r, x) == [do |-> "InsertAuditTrail", id |-> r.id, status |-> r.status, tx |-> x]
ForCounterparty(r, call) == IF r.counterparty = Nil THEN <<>> ELSE <<call>>

applyBalanceEvent(e, sign) ==
  <<Resolve(e.owner), Delta(e.owner, e.token, sign * e.amount, 0)>>

applyNAV(e) == <<[do |-> "UpsertTokenPrice", token |-> e.token, price |-> e.price]>>

InsertOperation(r) ==
  [do |-> "InsertOperationFromEvent", id |-> r.id,
   row |-> [type |-> r.type, status |-> "requested", requestedBy |-> r.requestedBy,
            owner |-> r.owner, counterparty |-> r.counterparty]]

(* Slip: the payload is rewritten before the requester is known to be mapped. *)
applyRequestedCanonicalFirst(r) ==
  <<Canonicalize("owner", r.owner)>>
    \o ForCounterparty(r, Canonicalize("counterparty", r.counterparty))
    \o <<Resolve(r.requestedBy), InsertOperation(r)>>

applyRequested(r) ==
  <<Resolve(r.requestedBy), Canonicalize("owner", r.owner)>>
    \o ForCounterparty(r, Canonicalize("counterparty", r.counterparty))
    \o <<InsertOperation(r)>>

(* The balance and encumbrance statements of an approved request. *)
applyMovement(r) ==
  CASE r.type = "TRANSFER" ->
         <<Delta(r.owner, r.token, -r.amount, 0), Delta(r.counterparty, r.token, r.amount, 0)>>
    [] r.type = "ENCUMBRANCE" ->
         <<Delta(r.owner, r.token, -r.amount, r.amount),
           [do |-> "InsertEncumbrance", id |-> r.id, owner |-> r.owner,
            token |-> r.token, amount |-> r.amount]>>
    [] r.type = "UNENCUMBRANCE" ->
         <<Delta(r.owner, r.token, r.amount, -r.amount),
           [do |-> "ReleaseEncumbrance", id |-> r.id]>>

(* Slip: the counterparty is resolved only where its balance is written. *)
applyApprovedResolvesLate(r, x) ==
  <<Resolve(r.owner), Status(r, "committed")>>
    \o ForCounterparty(r, Resolve(r.counterparty)) \o applyMovement(r) \o <<Audit(r, x)>>

(* Slip: an approval is not audited. *)
applyApprovedUnaudited(r, x) ==
  <<Resolve(r.owner)>> \o ForCounterparty(r, Resolve(r.counterparty))
    \o <<Status(r, "committed")>> \o applyMovement(r)

applyApproved(r, x) ==
  <<Resolve(r.owner)>> \o ForCounterparty(r, Resolve(r.counterparty))
    \o <<Status(r, "committed")>> \o applyMovement(r) \o <<Audit(r, x)>>

applyRejected(r, x) == <<Status(r, "cancelled"), Audit(r, x)>>

materialize(e, x) ==
  CASE e.name = "MINT"        -> applyBalanceEvent(e, 1)
    [] e.name = "BURN"        -> applyBalanceEvent(e, -1)
    [] e.name = "NAV_UPDATED" -> applyNAV(e)
    [] e.name = "REQUESTED"   -> applyRequested(e.request)
    [] e.name = "APPROVED"    -> applyApproved(e.request, x)
    [] e.name = "REJECTED"    -> applyRejected(e.request, x)

EventCalls(e, x) ==
  <<[do |-> "SaveEvent", tx |-> x]>>
    \o materialize(e, x)
    \o <<[do |-> "MarkEventProcessed", tx |-> x]>>

TransactionCalls(t) ==
  <<[do |-> "SaveTransaction", tx |-> t.id, index |-> t.index, code |-> t.code]>>
    \o IF t.code # "VALID"
         THEN <<[do |-> "SaveInvalidTransaction", tx |-> t.id]>>
         ELSE FlattenSeq([i \in DOMAIN t.events |-> EventCalls(t.events[i], t.id)])

(* Slip: the checkpoint is moved before the transactions are projected. *)
processBlockCheckpointFirst(transactions) ==
  <<[do |-> "SaveBlock"], [do |-> "UpdateCheckpoint"]>>
    \o FlattenSeq([i \in DOMAIN transactions |-> TransactionCalls(transactions[i])])

processBlock(transactions) ==
  <<[do |-> "SaveBlock"]>>
    \o FlattenSeq([i \in DOMAIN transactions |-> TransactionCalls(transactions[i])])
    \o <<[do |-> "UpdateCheckpoint"]>>

-----------------------------------------------------------------------------
(* Life of a process. *)

(* main: the reconciler reads the height of the checkpoint and writes it     *)
(* back with the hash "init", here <<>>; the hash of block h is <<h>>.       *)
ReconcileRead(p) ==
  /\ phase[p] = "starting"
  /\ phase' = [phase EXCEPT ![p] = "reconciling"]
  /\ next' = [next EXCEPT ![p] = GetCheckpointHeight(db)]
  /\ UNCHANGED <<chain, db, mapping, todo, faults>>

ReconcileWrite(p) ==
  /\ phase[p] = "reconciling"
  /\ db' = UpdateCheckpoint(db, next[p], <<>>)
  /\ phase' = [phase EXCEPT ![p] = "reconnecting"]
  /\ UNCHANGED <<chain, mapping, next, todo, faults>>

(* An error of either statement is only logged. *)
ReconcileFails(p) ==
  /\ phase[p] \in {"starting", "reconciling"}
  /\ faults < MaxFaults
  /\ phase' = [phase EXCEPT ![p] = "reconnecting"]
  /\ faults' = faults + 1
  /\ UNCHANGED <<chain, db, mapping, next, todo>>

Subscribe(p) ==
  /\ phase[p] = "reconnecting"
  /\ phase' = [phase EXCEPT ![p] = "running"]
  /\ next' = [next EXCEPT ![p] = GetCheckpointHeight(db) + 1]
  /\ UNCHANGED <<chain, db, mapping, todo, faults>>

(* The next block of the stream, decoded as a whole before anything is saved. *)
ReceiveBlock(p) ==
  /\ phase[p] = "running" /\ todo[p] = <<>>
  /\ next[p] \in DOMAIN chain
  /\ IF Undecodable(chain[next[p]])
       THEN phase' = [phase EXCEPT ![p] = "reconnecting"] /\ UNCHANGED todo
       ELSE /\ \E transactions \in {decodeBlock(chain[next[p]])} :
                 todo' = [todo EXCEPT ![p] = processBlock(transactions)]
            /\ UNCHANGED phase
  /\ UNCHANGED <<chain, db, mapping, next, faults>>

(* A call fails without effect, or the event stream closes.  A call that     *)
(* takes effect and then reports an error is the call followed by this.      *)
Fail(p) ==
  /\ phase[p] = "running"
  /\ faults < MaxFaults
  /\ phase' = [phase EXCEPT ![p] = "reconnecting"]
  /\ todo' = [todo EXCEPT ![p] = <<>>]
  /\ faults' = faults + 1
  /\ UNCHANGED <<chain, db, mapping, next>>

(* The process is killed, or told to stop in the middle of a block. *)
Crash(p) ==
  /\ phase[p] # "down"
  /\ faults < MaxFaults
  /\ phase' = [phase EXCEPT ![p] = "down"]
  /\ todo' = [todo EXCEPT ![p] = <<>>]
  /\ faults' = faults + 1
  /\ UNCHANGED <<chain, db, mapping, next>>

Restart(p) ==
  /\ phase[p] = "down"
  /\ phase' = [phase EXCEPT ![p] = "starting"]
  /\ UNCHANGED <<chain, db, mapping, next, todo, faults>>

(* An operator inserts the missing row of fabric_identity_mappings. *)
MapIdentity ==
  \E id \in Identities, u \in Users :
    /\ mapping[id] = Nil
    /\ mapping' = [mapping EXCEPT ![id] = u]
    /\ UNCHANGED <<chain, db, phase, next, todo, faults>>

-----------------------------------------------------------------------------
(* The database calls, in the order processBlock makes them. *)

Call(p, do) == phase[p] = "running" /\ todo[p] # <<>> /\ Head(todo[p]).do = do

(* The call returns; the database is d and the calls left are rest. *)
Return(p, d, rest) ==
  /\ db' = d
  /\ todo' = [todo EXCEPT ![p] = rest]
  /\ UNCHANGED <<chain, mapping, phase, next, faults>>

Reply(p, d) == Return(p, d, Tail(todo[p]))

(* Slip: the calls of the block in hand are kept. *)
ErrorKeepsBlock(p) ==
  /\ phase' = [phase EXCEPT ![p] = "reconnecting"]
  /\ UNCHANGED <<chain, db, mapping, next, todo, faults>>

Error(p) ==
  /\ phase' = [phase EXCEPT ![p] = "reconnecting"]
  /\ todo' = [todo EXCEPT ![p] = <<>>]
  /\ UNCHANGED <<chain, db, mapping, next, faults>>

CallSaveBlock(p) == Call(p, "SaveBlock") /\ Reply(p, SaveBlock(db, next[p]))

CallSaveTransaction(p) ==
  /\ Call(p, "SaveTransaction")
  /\ LET c == Head(todo[p]) IN Reply(p, SaveTransaction(db, c.tx, next[p], c.index, c.code))

CallSaveInvalidTransaction(p) ==
  /\ Call(p, "SaveInvalidTransaction")
  /\ Reply(p, SaveInvalidTransaction(db, Head(todo[p]).tx, next[p]))

(* The calls left once the event at the head is done or skipped. *)
AfterEvent(calls) ==
  SubSeq(calls, SelectInSeq(calls, LAMBDA c : c.do = "MarkEventProcessed") + 1, Len(calls))

(* Slip: no conflict clause, so a stored event is an error. *)
CallSaveEventOnce(p) ==
  /\ Call(p, "SaveEvent")
  /\ IF db.events[Head(todo[p]).tx] = "absent"
       THEN Reply(p, SaveEvent(db, Head(todo[p]).tx)) ELSE Error(p)

(* An event processed before is skipped, with the calls that project it. *)
CallSaveEvent(p) ==
  /\ Call(p, "SaveEvent")
  /\ LET x == Head(todo[p]).tx
     IN  IF ShouldProcess(db, x) THEN Reply(p, SaveEvent(db, x))
         ELSE Return(p, db, AfterEvent(todo[p]))

(* Slip: an event of an unmapped identity is skipped. *)
CallResolveFabricIdentitySkips(p) ==
  /\ Call(p, "ResolveFabricIdentity")
  /\ IF mapping[Head(todo[p]).identity] # Nil THEN Reply(p, db)
     ELSE Return(p, db, AfterEvent(todo[p]))

(* mapping rows are only added: an identity resolved once still resolves to  *)
(* the same user in the later calls that use it.                             *)
CallResolveFabricIdentity(p) ==
  /\ Call(p, "ResolveFabricIdentity")
  /\ IF mapping[Head(todo[p]).identity] = Nil THEN Error(p) ELSE Reply(p, db)

(* One identity of the payload to be stored is replaced by its user, where   *)
(* it has one; where it has none, or the call fails, the Fabric identity     *)
(* stays.                                                                    *)
Canonical(calls, field, user) ==
  LET i == SelectInSeq(calls, LAMBDA c : c.do = "InsertOperationFromEvent")
  IN  [calls EXCEPT ![i].row[field] = user]

CallCanonicalizePayload(p) ==
  /\ Call(p, "canonicalizePayload")
  /\ LET c == Head(todo[p])
     IN  Return(p, db, IF mapping[c.identity] = Nil THEN Tail(todo[p])
                       ELSE Canonical(Tail(todo[p]), c.field, mapping[c.identity]))

CanonicalizeFails(p) ==
  /\ Call(p, "canonicalizePayload")
  /\ faults < MaxFaults
  /\ faults' = faults + 1
  /\ todo' = [todo EXCEPT ![p] = Tail(@)]
  /\ UNCHANGED <<chain, db, mapping, phase, next>>

(* The statements of the projection proper.  The id of a request goes into a *)
(* uuid column, except in the audit trail.                                   *)
Writes == {"UpsertBalanceDelta", "UpsertTokenPrice", "InsertOperationFromEvent",
           "SetOperationStatus", "InsertEncumbrance", "ReleaseEncumbrance", "InsertAuditTrail"}

Malformed(c) ==
  /\ c.do \in {"InsertOperationFromEvent", "SetOperationStatus",
               "InsertEncumbrance", "ReleaseEncumbrance"}
  /\ c.id \notin Uuids

(* Whose balance an identity stands for: one left empty, as the counterparty *)
(* of a transfer may be, is not resolved, and its row is that of no user.    *)
UserOf(identity) == IF identity = Nil THEN Nil ELSE mapping[identity]

(* The database d once statement c has been executed. *)
Effect(d, c) ==
  CASE c.do = "UpsertBalanceDelta" ->
         UpsertBalanceDelta(d, UserOf(c.owner), c.token, c.available, c.encumbered)
    [] c.do = "UpsertTokenPrice" -> UpsertTokenPrice(d, c.token, c.price)
    [] c.do = "InsertOperationFromEvent" ->
         InsertOperationFromEvent(d, c.id, [c.row EXCEPT !.requestedBy = mapping[@]])
    [] c.do = "SetOperationStatus" -> SetOperationStatus(d, c.id, c.status)
    [] c.do = "InsertEncumbrance" ->
         InsertEncumbrance(d, mapping[c.owner], c.token, c.amount, c.id)
    [] c.do = "ReleaseEncumbrance" -> ReleaseEncumbrance(d, c.id)
    [] c.do = "InsertAuditTrail" -> InsertAuditTrail(d, c.id, c.status, c.tx)

CallWrite(p) ==
  \E do \in Writes :
    /\ Call(p, do)
    /\ IF Malformed(Head(todo[p])) THEN Error(p) ELSE Reply(p, Effect(db, Head(todo[p])))

CallMarkEventProcessed(p) ==
  /\ Call(p, "MarkEventProcessed")
  /\ Reply(p, MarkEventProcessed(db, Head(todo[p]).tx))

CallUpdateCheckpoint(p) ==
  /\ Call(p, "UpdateCheckpoint")
  /\ db' = UpdateCheckpoint(db, next[p], <<next[p]>>)
  /\ todo' = [todo EXCEPT ![p] = Tail(@)]
  /\ next' = [next EXCEPT ![p] = @ + 1]
  /\ UNCHANGED <<chain, mapping, phase, faults>>

Process(p) ==
  \/ ReconcileRead(p) \/ ReconcileWrite(p) \/ Subscribe(p) \/ ReceiveBlock(p)
  \/ CallSaveBlock(p) \/ CallSaveTransaction(p) \/ CallSaveInvalidTransaction(p)
  \/ CallSaveEvent(p) \/ CallResolveFabricIdentity(p) \/ CallCanonicalizePayload(p)
  \/ CallWrite(p) \/ CallMarkEventProcessed(p) \/ CallUpdateCheckpoint(p)

Next ==
  \/ \E p \in Processors :
       \/ Process(p)
       \/ ReconcileFails(p) \/ CanonicalizeFails(p) \/ Fail(p) \/ Crash(p) \/ Restart(p)
  \/ MapIdentity

Spec == Init /\ [][Next]_vars

(* A live processor keeps making its calls and retries after every error.    *)
(* Nothing restarts a dead one, and nothing maps an identity, by itself.     *)
FairSpec == Spec /\ \A p \in Processors : WF_vars(Process(p))

-----------------------------------------------------------------------------
(* Properties.  They speak of the raw chain, by position, and not of what    *)
(* the decoder made of it.                                                   *)

Rows == [operation: TxIds, before: {"requested"}, after: {"committed", "cancelled"}, tx: TxIds]

(* Tables, processes and queues keep their shape. *)
TypeOK ==
  /\ db.blocks \subseteq DOMAIN chain
  /\ \A x \in TxIds : db.events[x] \in {"absent", "stored", "processed"}
  /\ \A u \in Users, t \in Tokens : db.balances[u][t] \in
       [available: Int, encumbered: Int, version: Nat]
  /\ \A i \in DOMAIN db.audit : db.audit[i] \in Rows
  /\ db.checkpoint.height \in InitialHeight..(InitialHeight + Len(chain))
  /\ mapping \in [Identities -> Users \cup {Nil}]
  /\ phase \in [Processors -> {"starting", "reconciling", "reconnecting", "running", "down"}]
  /\ \A p \in Processors : phase[p] # "running" => todo[p] = <<>>
  /\ next \in [Processors -> Nat] /\ faults \in 0..MaxFaults

(* The transactions of the chain, each with its position. *)
OurEvent(envelope) ==
  LET ours == {i \in DOMAIN envelope.actions :
                 /\ envelope.actions[i].chaincode = ChaincodeName
                 /\ envelope.actions[i].events # <<>>}
  IN  IF ours = {} THEN Nil ELSE envelope.actions[Min(ours)].events[1]

TransactionsOf(h) ==
  {[at |-> <<h, i>>, id |-> chain[h].data[i].tx, code |-> chain[h].filter[i],
    event |-> OurEvent(chain[h].data[i])] :
   i \in {j \in DOMAIN chain[h].data : IsTransaction(chain[h].data[j])}}
Transactions == UNION {TransactionsOf(h) : h \in DOMAIN chain}

Before(x, y) == x.at[1] < y.at[1] \/ (x.at[1] = y.at[1] /\ x.at[2] < y.at[2])

(* Those whose event the query model is meant to reflect. *)
Eventful == {x \in Transactions : x.code = "VALID" /\ x.event # Nil}
Projected == {x \in Eventful : db.events[x.id] = "processed"}

(* Everything at or below the checkpoint (and above the height it started    *)
(* from) is in the database: block, transaction with its place and code,     *)
(* reason of the invalid ones, event processed.  No crash, error or second   *)
(* processor lets the checkpoint run ahead.                                  *)
RecordedAs(x) == [block |-> x.at[1], index |-> x.at[2], code |-> x.code]

CheckpointIsComplete ==
  LET all == Transactions
  IN  /\ InitialHeight + 1 .. db.checkpoint.height \subseteq db.blocks
      /\ \A x \in all : x.at[1] \in InitialHeight + 1 .. db.checkpoint.height =>
           /\ \E y \in all : /\ ~Before(y, x) /\ y.id = x.id
                              /\ db.transactions[x.id] = RecordedAs(y)
           /\ x.code # "VALID" => db.invalid[x.id] # Nil
           /\ x.code = "VALID" /\ x.event # Nil => db.events[x.id] = "processed"

(* The stored hash is the seed's, the reconciler's or that of the block at   *)
(* the stored height (the two columns change in one statement, but only the  *)
(* height is kept from moving back).                                         *)
HashMatchesHeight == db.checkpoint.hash \in {Nil, <<>>, <<db.checkpoint.height>>}

(* Events are projected in chain order: one that cannot be projected yet     *)
(* (an unmapped identity) holds back every later one, in its block and after.*)
ProjectedInOrder ==
  LET projected == Projected
  IN  \A x \in Eventful \ projected, y \in projected :
        x.at[1] > InitialHeight => ~Before(x, y)

(* Transactions the chain refused, and those of other chaincodes, leave      *)
(* nothing but their own row.                                                *)
RefusedLeaveNoTrace ==
  \A x \in TxIds \ {y.id : y \in Eventful} :
    /\ db.events[x] = "absent"
    /\ db.operations[x] = Nil
    /\ \A i \in DOMAIN db.audit : db.audit[i].tx # x

(* Sums over the transactions xs. *)
Amount(e) == IF e.name \in {"MINT", "BURN"} THEN e.amount ELSE e.request.amount
SumOf(xs) == Total([x \in xs |-> Amount(x.event)], xs)

Approved(type, t, e) == e.name = "APPROVED" /\ e.request.type = type /\ e.request.token = t
Supplied(xs, name, u, t) ==
  SumOf({x \in xs : /\ x.event.name = name /\ x.event.token = t
                    /\ mapping[x.event.owner] = u})
Drawn(xs, type, u, t) ==
  SumOf({x \in xs : Approved(type, t, x.event) /\ mapping[x.event.request.owner] = u})
Received(xs, u, t) ==
  SumOf({x \in xs : /\ Approved("TRANSFER", t, x.event)
                    /\ UserOf(x.event.request.counterparty) = u})
Pledged(xs, u, t) == Drawn(xs, "ENCUMBRANCE", u, t) - Drawn(xs, "UNENCUMBRANCE", u, t)

(* Between two blocks, and while nothing has failed, every balance is what   *)
(* the processed events add up to, over all the identities mapped to that    *)
(* user: each was projected exactly once, however often an unmapped identity *)
(* sent its block back.                                                      *)
Settled == \A p \in Processors : phase[p] = "running" /\ todo[p] = <<>>

BalancesAddUp ==
  LET xs == Projected
  IN  \A u \in Users, t \in Tokens :
        /\ db.balances[u][t].encumbered = Pledged(xs, u, t)
        /\ db.balances[u][t].available =
             Supplied(xs, "MINT", u, t) - Supplied(xs, "BURN", u, t)
               - Drawn(xs, "TRANSFER", u, t) + Received(xs, u, t) - Pledged(xs, u, t)

BalancesMatchProcessed == Settled /\ faults = 0 => BalancesAddUp

(* Every decision processed has its audit row, no other row exists, and only *)
(* a fault can have left one more (or another processor, see below).         *)
AuditMatchesProcessed ==
  Settled =>
    LET xs == {x \in Projected : x.event.name \in {"APPROVED", "REJECTED"}}
    IN  \A id \in TxIds :
          LET decisions == Cardinality({x \in xs : x.id = id})
          IN  Cardinality({i \in DOMAIN db.audit : db.audit[i].tx = id}) \in
                decisions .. decisions * Cardinality(Processors) + faults

(* Each row of balances was written at least once for every processed event  *)
(* that concerns it.  It was written at most once more for every other       *)
(* processor of the channel (two that take the event before either marks it  *)
(* processed both add it), and every further write was paid for by a fault.  *)
(* (A transfer between two identities of one user writes its row twice.)     *)
Touches(xs, u, t) ==
  Cardinality({x \in xs :
    \/ x.event.name \in {"MINT", "BURN"} /\ x.event.token = t /\ mapping[x.event.owner] = u
    \/ /\ x.event.name = "APPROVED" /\ x.event.request.token = t
       /\ mapping[x.event.request.owner] = u})
  + Cardinality({x \in xs : /\ Approved("TRANSFER", t, x.event)
                            /\ UserOf(x.event.request.counterparty) = u})

ReplaysAreBounded ==
  Settled =>
    LET xs == Projected
    IN  \A u \in Users, t \in Tokens :
          LET writes == Touches(xs, u, t)
          IN  db.balances[u][t].version \in
                writes .. writes * Cardinality(Processors) + 2 * faults

CaughtUp == db.checkpoint.height >= Len(chain)

(* Writes are replay-safe and nothing is materialized twice, as              *)
(* epl-postgres.md says: once the whole chain is projected, balances are     *)
(* what its events add up to, whatever failed meanwhile.  No transaction     *)
(* joins a balance statement and the mark of its event, so the code does not *)
(* keep this.                                                                *)
WritesAreReplaySafe == Settled /\ CaughtUp /\ InitialHeight = 0 => BalancesAddUp

(* The views written by overwriting rather than by adding survive replays:   *)
(* once the checkpoint has reached the end of the chain, every operation has *)
(* the status that the chain gave it last, however many processors project,  *)
StatusesConverge ==
  CaughtUp /\ InitialHeight = 0 =>
    LET requests == {x \in Eventful : x.event.name \in {"REQUESTED", "APPROVED", "REJECTED"}}
    IN  \A x \in requests :
          (\A y \in requests : y.event.request.id = x.event.request.id => ~Before(x, y)) =>
            /\ db.operations[x.event.request.id] # Nil
            /\ db.operations[x.event.request.id].status = x.event.request.status

(* and every token the price (of one processor: a second that lags behind    *)
(* can put back an old price).                                               *)
PricesConverge ==
  CaughtUp /\ InitialHeight = 0 =>
    LET prices == {x \in Eventful : x.event.name = "NAV_UPDATED"}
    IN  \A x \in prices :
          (\A y \in prices : y.event.token = x.event.token => ~Before(x, y)) =>
            db.prices[x.event.token] = x.event.price

(* An investor's list of operations selects rows by owner, as a user id.     *)
(* The identities of the payload are rewritten on a best-effort basis, but   *)
(* an owner is also the requester, who has just been resolved: an operation  *)
(* stays out of its owner's list only where a fault swallowed the rewriting. *)
OperationsListed ==
  Cardinality({x \in TxIds : /\ db.operations[x] # Nil
                             /\ db.operations[x].owner \notin Users}) <= faults

(* The active encumbrances of an owner add up to its encumbered balance. *)
EncumbrancesMatchBalances ==
  Settled => \A u \in Users, t \in Tokens :
    db.balances[u][t].encumbered =
      MapThenSumSet(LAMBDA i : db.encumbrances[i].amount,
                    {i \in DOMAIN db.encumbrances :
                       /\ db.encumbrances[i].owner = u /\ db.encumbrances[i].token = t
                       /\ db.encumbrances[i].status = "active"})

(* The checkpoint never moves back, and never by more than one block. *)
CheckpointAdvances ==
  [][db'.checkpoint.height \in {db.checkpoint.height, db.checkpoint.height + 1}]_vars

(* The projection is never torn or out of order: as long as no call fails,   *)
(* EPL implements Projection (of which ImplementsProjection is Abstract!Spec *)
(* up to the first fault).  An event takes effect when the last identity it  *)
(* names has been resolved; from then on only a fault can stop its           *)
(* statements, and the view is the database as they are going to leave it.   *)
InHand(p) ==
  LET mark == SelectInSeq(todo[p], LAMBDA c : c.do = "MarkEventProcessed")
  IN  IF mark = 0 THEN <<>> ELSE SubSeq(todo[p], 1, mark)

Committed(p) ==
  /\ InHand(p) # <<>>
  /\ \A c \in Range(InHand(p)) :
       c.do \in Writes \cup {"canonicalizePayload", "MarkEventProcessed"}

Foreseen ==
  FoldSet(LAMBDA p, d : FoldLeft(LAMBDA e, c : IF c.do \in Writes THEN Effect(e, c) ELSE e,
                                 d, InHand(p)),
          db, {p \in Processors : Committed(p)})

EventsIn(block) ==
  FoldLeftDomain(LAMBDA es, i :
                   IF block.filter[i] = "VALID" /\ OurEvent(block.data[i]) # Nil
                     THEN Append(es, OurEvent(block.data[i])) ELSE es,
                 <<>>, block.data)

AmountsOf(balances) ==
  [u \in Users |-> [t \in Tokens |-> [available  |-> balances[u][t].available,
                                      encumbered |-> balances[u][t].encumbered]]]
StatusOf(operations) ==
  [r \in TxIds |-> IF operations[r] = Nil THEN Nil ELSE operations[r].status]

Abstract == INSTANCE Projection WITH
  log      <- FoldLeft(LAMBDA log, block : log \o EventsIn(block), <<>>, chain),
  applied  <- Cardinality(Projected) + Cardinality({p \in Processors : Committed(p)}),
  balances <- AmountsOf(Foreseen.balances),
  prices   <- Foreseen.prices,
  statuses <- StatusOf(Foreseen.operations)

ImplementsProjection ==
  Abstract!Init /\ [][faults' = 0 => Abstract!Next \/ UNCHANGED Abstract!vars]_vars

(* If every identity gets mapped and some processor is not left dead, all    *)
(* blocks are eventually projected, up to the first one that cannot be       *)
(* decoded: that one is never passed.                                        *)
AllMapped == \A id \in Identities : mapping[id] # Nil

Decodable == {h \in DOMAIN chain : \A g \in 1..h : ~Undecodable(chain[g])}

EventuallyCaughtUp ==
  \A p \in Processors :
    <>[](AllMapped /\ phase[p] # "down")
      => <>[](InitialHeight = 0 => db.checkpoint.height = Cardinality(Decodable))

(* Every event of the chain, whenever it was submitted, gets projected. *)
EveryEventProjected == <>[]AllMapped => <>(Projected = Eventful)
=============================================================================
