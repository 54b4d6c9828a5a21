# Raxon platform: verification project

TLA+ specifications of the tokenization chaincode, of the event processor (EPL)
that projects its events into PostgreSQL, and of the web application's
decisions, sessions and lists on the same database; TLC configurations that
check them; and proofs, checked by TLAPS, of what the chaincode, the event
processor, the web application's decisions, sessions and lists guarantee.

Paths below are those of the repository, under `src/`.

## 1. Inventory

| Component | State | Operations | Hard part |
|---|---|---|---|
| `chaincode/tokenization` TokenContract | world state: balance per owner and token, NAV per token | Mint, Burn, SetNAV (custodian); QueryBalance, WhoAmI | executed at endorsement, committed later: stale reads, blind writes |
| `chaincode/tokenization` CustodianApprovalContract | world state: requests by transaction id | RequestTransfer / Encumbrance / Unencumbrance (investor, for itself), ApproveRequest, RejectRequest (custodian), QueryRequest | concurrent approve and reject, checks made against an old balance, a key written twice |
| Fabric network (external) | key versions, chain | endorse, order, validate (duplicate id, MVCC), commit | reordering and duplication of envelopes |
| `internal/epl/pipeline` processor | position in the block stream, the block in hand | subscribe from checkpoint + 1, per block: save, materialize, checkpoint; reconnect 5 s after any error | crash or failure between any two statements, replay, head-of-line blocking |
| `internal/epl/pipeline` materializer | none | MINT, BURN, NAV_UPDATED, *_REQUESTED, *_APPROVED, *_REJECTED to SQL statements | several statements per event without a transaction |
| `internal/epl/pipeline` block decoder | none | protobuf block to transactions, codes, events | codes by position, one undecodable envelope stops the block |
| `internal/epl/reconcile` | none | rewrites the checkpoint at start | overwrites the stored hash |
| `internal/db/repository` | tables blocks, transactions, invalid_transactions, events, balances, token_prices, operations, encumbrances, audit_trail, checkpoint, fabric_identity_mappings, users, sessions, loans | one statement per method (decisions and session checks: two) | conflict clauses, relative updates, keys |
| `internal/api` operations | none of its own | file, accept, reject, list, export | decisions race with each other and with the EPL; UPDATE and audit INSERT not atomic; lists paged by offset while they change |
| `internal/api` authentication | session rows, cookies | OIDC and development login, session check, logout | several statements per login; check at the start of a request, use later; the role is both in the cookie and in the table |
| `cmd/fabriccli`, `cmd/epl`, `cmd/web`, `internal/config`, `internal/db/postgres` | none | wiring, command line | none |

How they interact.  `fabriccli` submits invocations; peers endorse them against
their current world state; the orderer puts envelopes into blocks; peers
validate and commit.  The EPL reads the committed blocks from the gateway, one
after the other, and turns each valid transaction's event into statements on the
database.  The web application reads the projected tables and writes `operations`
and `audit_trail` beside the EPL.  Its decisions are not sent to the chain.

What makes each part correct:

* chaincode: balances stay covered; a request settles once; no update is lost;
  debits are asked for by their owner; the commits form a serial history;
* EPL: each event is projected exactly once and in order; the checkpoint never
  covers anything that is not projected; refused transactions change nothing;
  the projection catches up once it can;
* the two together: once the chain is projected, the database says what the
  ledger says;
* operations: one decision per operation, the chain's decision prevails, every
  decision is audited; what a walk through a list can miss or repeat is known;
* sessions: a request acts under a role only while its session is active and its
  user has that role; logging in changes no role.

## 2. Modules

| Module | Models | Kind |
|---|---|---|
| `Chaincode` | the chaincode as pure operators: what an invocation requires, reads, writes and emits | operators |
| `TokenLedger` | what the chaincode promises: transactions one at a time | abstract specification |
| `Tokenization` | endorse / order / validate on a Fabric channel | detailed specification, implements `TokenLedger` |
| `Totals` | the sum of a function's values over a finite set | operators |
| `TokenizationProofs`, `TotalsProofs` | theorems about `Tokenization`; what a sum does as its set grows | proofs |
| `Decoder` | block_decoder.go: a raw block to transactions, verdicts and events | operators |
| `Repository` | the SQL statements, as operators on a database record | operators |
| `Projection` | what the query model promises: the chain's events, one at a time, in order, whole | abstract specification |
| `EPL` | one or several event processors over decoder and repository, with faults | detailed specification, implements `Projection` until the first fault |
| `EPLProofs` | theorems about ingestion: types, checkpoint, order, refusals, hash | proofs |
| `EventProofs` | what the statements of one event leave, by position in its block's queue | proofs |
| `ViewProofs` | theorems about the views: statuses, prices, audit trail, owners, balances | proofs |
| `Platform` | `Tokenization` and `EPL` side by side | composition |
| `Dashboard` | the web application's decisions, with `EPL` on the same database | composition |
| `DashboardProofs` | theorems about `Dashboard` | proofs |
| `Sessions` | logins, sessions, and the check every request passes | specification |
| `SessionsProofs` | theorems about them | proofs |
| `Listing` | paging through operations while they change | specification |
| `ListingProofs` | theorems about it | proofs |
| `MCTokenization`, `MCEPL`, `MCPlatform`, `MCDashboard`, `MCSessions` | instances for TLC | model checking |

Operators whose comment starts with "Slip" are deliberate mistakes (a forgotten
guard, a wrong conflict clause).  No specification uses them; putting one in the
place of the definition that follows it is how each property is shown to be able
to fail.

### Chaincode and Tokenization

`state`, `version`, `envelope` and `chain` are the world state, Fabric's version
of each key (the position of its last write), the endorsed envelopes and the
committed transactions with their validation codes.  Each chaincode function is
an action that fires when the simulation succeeds against the current `state`
and records the read versions, the write set and the event.  `Order(tx)` puts an
envelope on the chain at any later time, any number of times: a known id is
`DUPLICATE_TXID`, a changed read version is `MVCC_READ_CONFLICT`, anything else
takes effect.  Endorsing against a peer that lags behind is the same as having
endorsed earlier, which the model includes.  A function that returns an error
changes nothing and is no action.  `GetState` does not see the invocation's own
`PutState`, so `TransferWrites` reads both balances from the state and lets the
counterparty's write win when the two keys are one, as the code does.

Abstractions: amounts and prices are integers (token_contract.go:12, "amounts are
whole units"); `reason` and `change_pct` are dropped; an owner is identified with
the identity `cid.GetID` gives it; the empty counterparty of a pledge is `Nil`,
and the destination of a transfer is an owner (the code takes an empty one as well,
which to the ledger is one more owner; `EPL` models it, see below); a request's event
name is its suffix, the type being in the record.

### Decoder

A raw block is its envelopes (`data`) and the peers' verdicts (`filter`), matched by
position.  An envelope is a record with its type, transaction id and actions; an
action is the chaincode that ran and the event it set, if any.  Of protobuf and JSON
only one thing is kept: whether an envelope unmarshals (`broken`: outside the
transaction, which concerns every envelope, or inside it, which concerns endorser
transactions only).  `decodeBlock` skips what is no endorser transaction without
shifting positions, and `Undecodable` gives up the whole block, as the code does,
before any verdict is looked at.  The properties of `EPL` are stated over the raw
chain, so they do not take the decoder's word for anything.

`Request`, `Event` and `RawBlock` (in `EPL`) say what the chaincode emits and what a
peer delivers, for any ids, identities, tokens and amounts.  `ChainsAssumption` is what
is relied on of every chain: a block has as many verdicts as envelopes and an id for
each transaction, a request is emitted by the transaction whose id it bears
(`WellFormed`), and at most one transaction of an id is valid (`ValidOnce`, which Fabric's
DUPLICATE_TXID ensures).  The chains of the runs satisfy it, since TLC evaluates it.

### Repository and EPL

The database is one record of tables.  `todo[p]` is the list of calls processor p
still has to make for the block in hand, built by `processBlock`, `TransactionCalls`
and `materialize` in the order the Go code makes them; each `Call...` action executes
the call at the head.  That is exactly the granularity of the code: every repository
method is one statement on its own connection, so anything may happen between two of
them.  A call that fails (`Fail`), an unmapped identity or a value the column refuses
(`Error`) drops the block; the processor then subscribes again from checkpoint + 1.
`Crash` and `Restart` stop and start the process at any point; a restart runs the
reconciler first, whose read and write of the checkpoint are two steps.
`canonicalizePayload` looks its identities up one by one and swallows errors
(`CanonicalizeFails`).  `MapIdentity` is an operator adding a row of
fabric_identity_mappings; rows are only added, so an identity resolved in one
statement still resolves the same way in the next.

A transfer may name nobody to receive it (custodian_approval_contract.go:44 does not
look).  The processor then resolves no counterparty (materialize.go:69) and writes the
balance of the empty owner, a row of no user: `UserOf` is `Nil` there and no user's
balance changes.

The chain is chosen at the start from a set of constant chains: a block that was not
delivered yet and a block that does not exist yet look the same to the processor.
In `Platform` the chain is instead the one `Tokenization` is growing, one block per
transaction (`BlockAt`), and both parts take steps.

Nothing in the code or the schema stops a second process on the same channel, so
`Processors` is a set.

`Uuids` is the set of transaction ids that the uuid columns accept.  As the
migrations stand it is empty, because Fabric transaction ids have 64 hexadecimal
digits; MCUuid checks the schema as it is.  The other runs set it to all ids, that is,
they check the code with these columns able to hold the ids.  `InitialHeight` is the
checkpoint height the migrations leave: 0 where only 001_init.sql was applied, as
README.md:23 does.

### Projection

Readers of the query model may think of it as the chain's events applied one at a
time, in chain order, each once and as a whole; an event that names an unmapped
identity waits, and the later ones with it.  `ImplementsProjection` maps EPL to this:
the event in hand counts as applied from the moment its last identity has been
resolved, since from then on only a fault can stop its statements, and the abstract
view is the database as those statements are going to leave it (`Foreseen`).  It is
claimed up to the first fault (`faults' = 0`): a replay does show.

### Dashboard

`Dashboard` extends `EPL` with the web handlers.  `handler[h]` is the decision whose
guarded UPDATE has been executed and whose audit INSERT is still to come.  The EPL's
statements, other handlers and a cancelled request (`Abandon`) interleave freely.  `Operation` (in `EPL`) and `Decision` are the rows and
the decisions there can be.

### Sessions

`attempt[l]` is a login under way: the statements of `handleDevLogin` and
`handleCallback` are its stages, with the user and role its handler read; it also
stands for the session it creates and for the cookie it ends with, which the client
may keep and send at any time.  `request[r]` is a request whose check has not begun
("sent"), has read the session ("found") or has passed ("serving", while the handler
runs).  Expiry, an administrator's changes to `users` and a removal that takes the
sessions with it (ON DELETE CASCADE) happen at any moment.  `held[r]` is an observer:
every authority the cookie's session had since the request was sent.

A user is identified with its OIDC subject; the verified ID token is a choice of the
subject; the sealed cookie is what the server put in it.  E-mail addresses and
institution names, which no check looks at, are left out.

### Listing

`operations` stands in the order of created_at, which PostgreSQL sets when the
statement starts; an operation becomes `visible` when the INSERT commits.  `walk` is a
client turning pages from the first: the custodian's page (codeP4.html) follows the
total of a second statement and loads its page again after a decision; the lender's
and the investor's lists have no total, so their walk ends at an empty page.  An error
of the count is dropped by the handler and shows as 0 (`CountFails`).

A result is a function from its rows to their places (`OldestFirst`, `NewestFirst`), and a
page the rows whose place lies in it.  `walk` also observes what the properties compare:
the rows there at the start (`first`), those shown with the page they were on (`shown`), how many
left the queue since (`left`), and whether one came in before others (`late`).

## 3. Runs

| Run | Instance | What it shows |
|---|---|---|
| MCTransfers | 1 custodian, 2 investors, 1 token, 4 transactions, chain of 4, amounts -1 and 1 | requests settle once and as the chain says, no update is lost, debits were asked for, events explain balances, the commits form a serial history (`ImplementsLedger`) |
| MCPledges | 1 investor, 5 transactions, prices 0 and 1 | balances stay covered and are what the events say over mints, burns, prices, pledges and releases |
| MCPlatform | 2 investors, 2 users, 3 transactions, every function, amounts and prices 1 | `ProjectionMatchesLedger`: the projected database is the ledger |
| MCFaults | 7 chains of up to 3 blocks, 2 identities, 2 users, 2 faults | exact and untorn until the first fault (`BalancesMatchProcessed`, `ImplementsProjection`); always complete below the checkpoint, in order, hash and height of one block (`CheckpointIsComplete`, `ProjectedInOrder`, `HashMatchesHeight`); after faults off by no more than replays explain (`ReplaysAreBounded`, `AuditMatchesProcessed`, `OperationsListed`), prices right in the end (`PricesConverge`); `EventuallyCaughtUp` |
| MCOverlap | 2 processors, 3 chains, 1 fault | checkpoint complete and never moving back; an event projected at most once per processor, and more only by a fault; statuses right in the end (`StatusesConverge`) |
| MCDashboard | a request approved and one rejected on the chain, one filed on the web, 2 handlers, 1 fault | one decision per operation, the chain's decision prevails and stays, an accepted operation lacks its audit entry only where a request was cut short |
| MCSessions | 2 users, 2 roles, 2 logins of either kind, 1 request, 1 fault | `AuthorityWasHeld`, `LogoutIsFinal`, `DevLoginsAudited`, `RolesAreTheAdministrators` |
| MCListing | 2 owners, 4 operations, limits of 1 and 2 | `MissesAreBounded`, `OwnListIsComplete`, `RepeatsNeedLateInserts` |
| MCSelfTransfer | as MCTransfers, 3 transactions | violation: `SupplyIsMintedLessBurned` |
| MCUuid | transfer chain, uuid columns as deployed | violation: `EveryEventProjected` |
| MCEncumbrances | pledge chain | violation: `EncumbrancesMatchBalances` |
| MCReplay | transfer chain, 1 processor, 1 fault | violation: `WritesAreReplaySafe` |

Why the bounds are enough.

* Chaincode: the races need a mint, a request and two decisions on it, or a mint, a
  request, an approval and a second write to one of the two balances: four
  transactions.  An encumbrance that is released needs five.  The amount -1 and the
  price 0 make the rejected inputs actual inputs; two debits of 1 are enough to
  overdraw.  Transaction ids are interchangeable in `Tokenization`, which is the
  symmetry used.
* EPL: each chain holds what one question needs: a price, a transfer and a refused
  burn; a rejection and a transaction without an event; pledge, release and burn; a
  duplicate; a configuration block and a transaction of another chaincode between two
  mints; a skipped envelope ahead of a refused burn, and one that does not unmarshal; a
  transfer to nobody.  Both identities may be mapped to the
  same user or to two, at the start or later.  Two faults allow a fault during the
  recovery from the first.
* Two processors: the transfer chain has an event of each kind of write (adding,
  overwriting, inserting); the reject chain the other decision and two prices; the mixed
  chain two events in one block.
* Platform: three transactions are a mint, a request and its decision, or three writes
  to one balance; the longer sequences are those of MCPledges and the EPL chains.
  Investors, users and transaction ids are interchangeable.
* Sessions: requests change nothing another request reads, so one is enough; two logins
  allow two sessions of one user or of two.  Two roles stand for three: no role is
  treated specially.
* Listing: page sizes 10 and 100 are scaled down to 2 and 2 (`DefaultLimit`, `MaxLimit`);
  the walk may ask for 0 to 3 rows, so that both ends of the range are passed.  Four
  operations make two full pages.

`MaxChain` bounds the chain, `MaxFaults` the faults, `MaxOperations` the operations
filed; nothing else is capped.

Deadlock is not checked: a finite workload ends, a processor at the end of the chain
waits, a dead processor may stay dead, and a walk is over at its last page.

Fairness.  `FairSpec` assumes weak fairness of each processor's own steps, `Process`:
the loop in `Processor.Start` returns only when its context is cancelled and otherwise
retries after every error, and each repository call returns or fails.  Nothing is
assumed of crashes, restarts, failures or of the operator who maps identities:
`EventuallyCaughtUp` speaks of behaviours in which the identities are mapped and a
process is not dead from some time on, and then promises every block before the first
undecodable one; `EveryEventProjected` (checked without faults) speaks of those in
which the identities are mapped.

### Disagreements between code and documents

The violation runs are the findings of PROJECT.json:

* A self-transfer creates tokens (MCSelfTransfer).
* The uuid column refuses every chain request (MCUuid).
* An encumbrance is never released (MCEncumbrances).
* A failure between two statements applies an event again, so balances drift (MCReplay),
  against epl-postgres.md:6 ("Postgres is the authoritative off-chain query model with
  replay-safe writes.") and :24 ("Conflict-safe writes to avoid duplicate
  materialization."); README.md:51 lists one database transaction per block as remaining
  work.  `ReplaysAreBounded` says by how much they drift: two writes of a row per fault.

Seen while modelling, and without a run of their own:

* Two processors project an event twice even without a fault, against the same two lines;
  `ReplaysAreBounded` and `AuditMatchesProcessed` say how many writes and audit rows there
  can be (MCOverlap).  A late reconciler or processor leaves a hash of one block beside the
  height of another (`HashMatchesHeight` is claimed for one processor only) and an old price
  over a new one (`PricesConverge` likewise).
* transactions and invalid_transactions are keyed by transaction id alone (processor.go:110):
  the refused second copy of an applied transaction replaces its valid row and lists the id
  as invalid, although the processor "records invalid transaction validation codes without
  applying their events" (README.md:43).  `CheckpointIsComplete` therefore asks only for the
  row of some copy that is at least as late.
* `UpsertUser`, called to "Refresh email / institution name from the token" (auth.go:139),
  inserts the user again, with the role it had at the lookup, if it was removed since,
  where a subject without a user is otherwise refused (auth.go:134);
  `RolesAreTheAdministrators` covers only users who are there throughout.  It also writes
  back the institution that the lookup read, not one from the token.
* 003_sample_data.sql:111 sets the checkpoint to height 1000, again each time it is
  applied; a processor that subscribes from 1001 never reads the chain below it,
  against TESTING.md:536 ("it should replay from the stored checkpoint").
* An accepted operation stays without an audit entry when its request is cut short,
  against custodian.go:28 ("marks a pending operation as accepted and writes an audit
  entry"); `AcceptedIsAudited` states how far it holds.  Every audit row's "before" is
  the constant "requested", also for an operation a custodian had already accepted.
* `handleExport` (custodian.go:78, "streams a CSV of all operations") exports the first
  1000 pending ones.
* `handleLogout` answers alike when RevokeSession failed; a development login whose
  audit insert failed leaves its session active.  `LogoutIsFinal` and `DevLoginsAudited`
  bound both by the faults.
* A session lifetime below one second is cut to 0 (auth_queries.go:54): the session is
  born expired.
* A page of the custodian's queue that a decision emptied says "No pending requests"
  (codeP4.html:341), whatever the earlier pages hold; a failed count says 0.
* `GetOperationStats` puts FILTER after a cast and `GetRiskDistribution` orders by an
  expression over an output column; both look like statements PostgreSQL refuses.  No
  model decides that.

## 4. Proofs

Every theorem below is checked by TLAPS for every value of the constants, under
assumptions that are named in the modules and evaluated by TLC on each run.  In each
part the properties are not inductive as they stand; what was added to make them so
is the interesting part.

### Chaincode on Fabric

`TokenizationProofs`, on the lemmas of `TotalsProofs`.  Assumed: amounts and prices are integers, investors are owners, `Nil`
is none of the values it stands beside, `MaxChain` is a natural number.

* `TypeCorrect`: Spec => []TypeOK
* `FundsSafe`: Spec => []FundsNonNegative
* `SettleOnce`: Spec => RequestsSettleOnce
* `Serializable`: Spec => ImplementsLedger
* `SettledByChain`: Spec => []SettlementMatchesChain
* `NoLostUpdate`: Spec => []VersionCountsWrites
* `EventsExplain`: Spec => []EventsExplainBalances
* `DebitsAuthorised`: Spec => DebitsAreAuthorised

An envelope was computed from a state that may be gone when it commits.  `IInv` adds
what ties envelopes to the present: requests on the ledger are well formed and stored
under their own id (`RequestsSound`), balances are covered (`Solvent`), versions never
exceed the length of the chain (`Clocks`), a request key is present only if its own
transaction is valid (`Provenance`), and, the heart of it (`Endorsed`), an envelope not
yet ordered whose read versions are all current would be endorsed again now, with the
same write set and event.  A commit overwrites versions with a number larger than any
recorded, so it either makes another envelope's reads stale or leaves what it read
unchanged (`SameReadsSameResult`: an invocation depends on the state only through its
reads).  Given `Endorsed`, a valid commit is a serial transaction on the current state,
which gives the refinement (`ValidMaps`) and, with lemmas on each write set, the first
four.  The blind writes of SetNAV and of the requests are safe because a request key
belongs to its own transaction, which commits at most once.

The other four compare the ledger with the whole chain.  `Accounted` says that the
requests on the ledger are those of valid transactions, unchanged but for the status
(`Recorded`), that a status is the one decision among the valid transactions
(`DecidedOnce`), and that a balance's version counts its writers (`VersionsCounted`).
`Explained` adds that the events' amounts are numbers, for the sums.  `Total` is a fold;
what it does when an element joins is proved by taking a smallest subset for which it
would be wrong, since no induction over data is available.  A transfer to oneself,
where the code creates tokens, is excepted from `EventsExplainBalances` by the statement
of the property, and MCSelfTransfer shows why.

### Event processor

`EPLProofs`.  Assumed of every chain: `ChainsAssumption` (section 2); of the constants:
`Nil` is no number, user, identity, id, event or row of operations, `Processors` is
finite, `InitialHeight` and `MaxFaults` are natural numbers.  Nothing else is assumed of
the number of processors, except where a theorem says so.

* `WellTyped`: Spec => []TypeOK
* `CheckpointIsMonotone`: Spec => CheckpointAdvances
* `RefusedLeaveNothing`: Spec => []RefusedLeaveNoTrace
* `OrderKept`: Spec => []ProjectedInOrder
* `CheckpointVouches`: with `OneProcessor \/ DistinctIds`, Spec => []CheckpointIsComplete
* `HashAgrees`: with `OneProcessor`, Spec => []HashMatchesHeight

`Transcribes` says, by position, what the queue of a block holds: each transaction once and in order, the reason of an invalid one, and each
event's save, projection and mark before those of a later event.  It turns the
nested concatenations of `processBlock` and `materialize` into facts about positions.

The invariant `Ingest` places each processor: the calls still to make are the rest of
the block's queue after some position (`Remains`), everything before that position has
left its mark in the database (`Underway`, `Executed`), the block is at most one above
the checkpoint (`Position`), and every block from `InitialHeight` to the checkpoint is
wholly in the database (`Vouched`).  That is why advancing the checkpoint last is safe:
an error or a crash forgets the queue but not the marks, and nothing that another
processor does removes a mark.  On top of it, `InOrder` gives the order of the events,
`Alone` ties the block in hand to the checkpoint of the only processor, and `Recorded`
is about the rows of transactions.

Those rows are keyed by transaction id, and an ordering service may deliver an id twice.
`CheckpointIsComplete` asks for the row to be that of a transaction at least as late.
With two processors, one that lags may put the older row back over the newer one; the
theorem therefore assumes one processor (`OneProcessor`, as deployed: one `epl` process)
or that no id comes twice (`DistinctIds`).  The hash is claimed for one processor, since
a late one leaves the hash of one block beside the height of another.

### Views of the query model

`ViewProofs`, on `EventProofs`.

* `StatusesFollow`: with `OneOutcome` and `RequestedFirst`, Spec => []StatusesConverge
* `PricesFollow`: with `OneProcessor`, Spec => []PricesConverge
* `AuditFollows`: Spec => []AuditMatchesProcessed
* `OwnersListed`: with `OwnersRequest`, Spec => []OperationsListed
* `BalancesFollow`: with `OneProcessor`, Spec => []BalancesMatchProcessed

What `Ingest` knows of a processor is a position in the queue of a whole block.  A view
is built event by event, so the position is refined first: `In(p, h, i, j)` says that p
has made exactly j of the calls of event i of block h, and `Current` that p is inside some
event whenever it is about to project.  `EventProofs` takes the queue of a block apart
into those of its events (`CallsAt`) and follows one processor (the mover) while the
others stay.  `Tracks` adds that the lasting effects of the calls already made (a row of
operations, a decided status, an audit row) are in the database, for events processed
(`Landed`) and for the event in hand (`Trail`).

* Statuses.  A status is overwritten by a replay, by a second processor, or by the next
  decision, and a request may be inserted again; but no statement brings a row back to
  "requested" (`Kept`), and all decisions of a request agree.  So a status never leaves
  the last value of the chain once that has been written, and a row shows a decision
  only if the chain has one (`StatusesLed`).
* Prices.  `PricesHeld`: from its statement on, the last price of a token stays.  Every
  other price event is earlier in the chain, so it is marked as processed by then
  (`InOrder`), and one processor never projects an event that is marked (`Fresh`), after any
  crash.  A second processor that read the event before it was marked could put
  an old price over the last one, so one is assumed.
* Audit.  `AuditPaid` counts the rows of one decision.  Until it is marked as processed,
  each of its rows was paid for by a fault or belongs to a processor just about to mark
  it; afterwards only a processor that was already inside the event can still write one.
* Owners.  A row keeps an identity in place of its owner's user only if looking it up
  failed, since the owner is the requester, whose lookup comes first and stops the block
  if it finds nothing (`Resolved`).  `StraysPaid` counts the rows that lack their owner's user
  and the processors about to insert one against the faults.
* Balances.  `Counted` is `Tracks` with three more parts.  `Balanced`: until something has
  failed, the balances are the sum over the processed events (`Even`), plus, inside an
  event, the calls of it already made (`Ahead`).  `Fresh`: the event in hand is not among the
  processed, so nothing is added twice.  `Passed`: whatever a processor has behind it was
  not sent back.  The last one is what makes replays harmless: an identity without a user sends
  the block back before the event has changed any balance (`SentBackEmpty`), so only saves and
  marks are repeated.  The sums range over the identities mapped to a user, and
  mapping another identity leaves them alone because whoever a processed event moves
  tokens for was mapped before it (`ProjectedKnown`).

The hypotheses are facts about chains that the chaincode produces.  `OneOutcome`: no two
valid transactions give one request different outcomes; `SettledByChain` proves it of
the chaincode.  `RequestedFirst`: a decision comes after its request, and where the
decision is above `InitialHeight` so is the request; the chaincode finds the request on the ledger
before it decides it, and a database that starts at height 0 sees every
request.  `OwnersRequest`: the requester is the owner; newRequest stores the caller after
requiring it to be the owner (custodian_approval_contract.go:20).  `OneProcessor` is the deployment
described in README.md; without it `PricesConverge` is false, and a balance may be added
to by two processors at once (MCOverlap).

### Decisions of the web application

`DashboardProofs`.  Assumed besides: the ids the database generates are ids
(`WebIdsAssumption`) and `Nil` is no row and no decision (`RowsAssumption`).

* `OneDecision`: DashboardSpec => []OneDecisionPerOperation
* `AcceptedAudited`: DashboardSpec => []AcceptedIsAudited
* `CommittedStay`: with `OneOutcome`, DashboardSpec => CommittedStands
* `DecisionsShown`: with `OneOutcome` and `RequestedFirst`, DashboardSpec => []ChainDecisionsShown

`Ingest` survives the handlers, because they write only operations and audit rows,
which it says nothing of.  `OneFor` is stronger than the first property: an operation
that still shows "requested" has no web audit row and no decision under way.  No
processor's call ever brings a row back to "requested", and the guarded UPDATE takes the
row out of it, so the second of two custodians finds nothing to update.  For the second, the accepted
operations without an entry are finite and grow only when a request is cut short, by one
at a time (`UnauditedStep`).  For the third, a committed status always comes from a
decision on the chain (`CommittedByChain`).  `OneOutcome` says that no two valid
transactions of a chain give one request different outcomes; it is a hypothesis about
the chain, and it is what `SettledByChain` proves of every chain the chaincode produces.
For the fourth, `Tracks` survives the handlers as well: a custodian's UPDATE touches a row
only while it says "requested", so it cannot undo a decision of the chain, and a decision
of the chain overwrites the custodian's.

### Sessions

`SessionsProofs`.  Assumed: `Nil` is none of the values it stands beside
(`NilAssumption`), `MaxFaults` is a natural number (`FaultsAssumption`).

* `WellTyped`: Spec => []TypeOK
* `AuthorityHeld`: Spec => []AuthorityWasHeld
* `LogoutFinal`: Spec => []LogoutIsFinal
* `DevLoginsInAudit`: Spec => []DevLoginsAudited
* `RolesAdministered`: Spec => RolesAreTheAdministrators

`IInv` adds that a session belongs to the login that created it (`SessionsBelong`), that
only cookies are sent and logged out (`CookiesAreKept`), that what the SELECT found was the
cookie's authority at some moment since the request was sent (`FoundIsHeld`), and that a
development login is audited before its cookie (`SuccessIsAudited`).  Two properties count
against the faults; the sets that are counted are made monotone first: `Escaped` holds
the logins whose logout did not revoke the session, and those a late request got past
the check with; `Orphans` the development logins that failed after their session was made.
Each is finite and grows only together with `faults`.

### Lists

`ListingProofs`.  Assumed: `LimitAssumption`, the default limit lies between 1 and the
maximum.

* `TypeCorrect`: Spec => []TypeOK
* `MissesBounded`: Spec => []MissesAreBounded
* `OwnListComplete`: Spec => []OwnListIsComplete
* `RepeatsNeedLate`: Spec => []RepeatsNeedLateInserts

The properties speak of a walk that is over; `WalkInv` says what holds before that.  A
walk has asked for the places up to `Reach`.  In a queue, the rows of the start that are
still due stand behind `Reach` only if a departure moved them there, at most one for
each (`Paid`).  In an owner's list, newest first, nothing leaves and a new row only pushes
the others back, so whatever was not shown is ahead (`Kept`).  A row that was shown stays
on its page or before it until one comes in before it (`StaysBefore`), so it is shown
once.  A place is the cardinality of the set of rows up to a row; `Ranked` states what
such sets need (finite, growing along a linear order), and the lemmas on places are
proved from it for both directions of the order, by least elements rather than induction.

### Only model-checked

* `ProjectionMatchesLedger` of `Platform`: its chain grows, while the proofs about `EPL` are
  about a chain chosen at the start.  Its two halves are proved: `EventsExplain` on the
  ledger, `BalancesFollow` and `StatusesFollow` on the database.
* `ReplaysAreBounded` of `EPL`.  It counts the writes of a row over all events and all
  replays at once, two per fault; the proof would need the account of `AuditPaid` for a sum
  over events instead of for one.
* `ImplementsProjection`: the refinement mapping folds the calls in hand of every
  processor over the database and takes the cardinality of what is processed; what those
  folds give for a queue of any length is an induction over data.  What it says of
  balances, statuses, prices and order is proved state by state (`BalancesFollow`,
  `StatusesFollow`, `PricesFollow`, `OrderKept`), not step by step.
* `EventuallyCaughtUp` and everything else about liveness or ENABLED, which the prover
  does not reach.

## 5. Not modelled, and why

* float64 and numeric(30,8): amounts are integers; rounding is a question of its own.
* The read-only summaries and aggregates (investor, lender, risk, statistics, audit log,
  export): single statements that change nothing.
* `ResolveFabricIdentity` (repository.go:26) takes any one of the rows that match the
  identity or its common name; with a row for each, to different users, it need not
  choose alike twice.  `mapping` gives an identity one user.
* An entry of a block without a validation code, which the decoder takes for valid: peers
  write one code for each envelope.
* E-mail addresses and their uniqueness, the cookie's own maximum age, the exchange with
  the OIDC provider; operations with equal created_at, whose order PostgreSQL leaves open.
* Configuration, connection pools, TLS and credentials, logging, serving pages: no state
  that a property is about; a failure to connect is a failed call.
* Chain reorganisations, which Fabric does not have; sample balances and loans.

## 6. Plan

1. Done: chaincode on Fabric, its abstract ledger; decoder, repository and event
   processor, alone, in pairs and end to end, with the abstract projection; decisions,
   sessions and lists of the web application.
2. Done, proofs: all properties of `Tokenization`, `Dashboard`, `Sessions` and `Listing`; of
   `EPL` all but `ReplaysAreBounded`, the refinement and liveness.
3. Left: `ReplaysAreBounded`; the refinement of `Projection`, step by step; the proofs of
   `EPL` for a chain that grows, which `ProjectionMatchesLedger` needs.
