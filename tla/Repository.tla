----------------------------- MODULE Repository -----------------------------
(***************************************************************************)
(* The PostgreSQL query model as the EPL writes it: a database d is a      *)
(* record of tables, and each repository method that executes a statement  *)
(* is an operator that returns the database after it.  Every method runs   *)
(* its statement on its own connection, outside any transaction, so each   *)
(* application of these operators is one atomic step of the system.        *)
(*                                                                         *)
(* A table with a key is a function from the key to its row or Nil; a      *)
(* table that only grows by inserts is a sequence of rows.  Columns no     *)
(* property looks at (timestamps, wording, hashes of saved blocks) are     *)
(* left out.                                                               *)
(***************************************************************************)
EXTENDS Integers, Sequences

CONSTANTS
  Users,      \* canonical user ids of the web application
  Tokens,     \* token identifiers
  TxIds,      \* transaction ids; a chain request's operation_id is one too
  Uuids,      \* those of them that a uuid column accepts
  Nil         \* no row, SQL NULL

NoBalance == [available |-> 0, encumbered |-> 0, version |-> 0]

EmptyDatabase(height) ==
  [blocks       |-> {},
   transactions |-> [x \in TxIds |-> Nil],
   invalid      |-> [x \in TxIds |-> Nil],
   events       |-> [x \in TxIds |-> "absent"],
   balances     |-> [u \in Users |-> [t \in Tokens |-> NoBalance]],
   prices       |-> [t \in Tokens |-> Nil],
   operations   |-> [x \in TxIds |-> Nil],
   encumbrances |-> <<>>,
   audit        |-> <<>>,
   checkpoint   |-> [height |-> height, hash |-> Nil]]

-----------------------------------------------------------------------------
(* Ingest. *)

SaveBlock(d, height) == [d EXCEPT !.blocks = @ \cup {height}]

(* Keyed by transaction id: a later row for the same id replaces the first. *)
SaveTransaction(d, x, height, index, code) ==
  [d EXCEPT !.transactions[x] = [block |-> height, index |-> index, code |-> code]]

SaveInvalidTransaction(d, x, height) == [d EXCEPT !.invalid[x] = height]

(* The insert does nothing when the event is there; processed_at decides    *)
(* whether it is to be processed.                                           *)
SaveEvent(d, x) ==
  [d EXCEPT !.events[x] = IF @ = "absent" THEN "stored" ELSE @]

(* Slip: a stored event is always processed again. *)
ShouldProcessAgain(d, x) == d.events[x] \in {"absent", "stored", "processed"}

(* Slip: an event that is stored counts as processed. *)
ShouldProcessNew(d, x) == d.events[x] = "absent"

ShouldProcess(d, x) == d.events[x] # "processed"

MarkEventProcessed(d, x) == [d EXCEPT !.events[x] = "processed"]

(* Slip: no GREATEST. *)
UpdateCheckpointBack(d, height, hash) ==
  [d EXCEPT !.checkpoint = [height |-> height, hash |-> hash]]

(* Slip: the conflict clause forgets the hash. *)
UpdateCheckpointKeepsHash(d, height, hash) ==
  [d EXCEPT !.checkpoint =
     [height |-> IF height > @.height THEN height ELSE @.height,
      hash   |-> IF @.hash = Nil THEN hash ELSE @.hash]]

UpdateCheckpoint(d, height, hash) ==
  [d EXCEPT !.checkpoint =
     [height |-> IF height > @.height THEN height ELSE @.height, hash |-> hash]]

GetCheckpointHeight(d) == d.checkpoint.height

-----------------------------------------------------------------------------
(* Projections. *)

(* Slip: the conflict clause sets the amounts instead of adding them. *)
UpsertBalanceDeltaSets(d, user, token, available, encumbered) ==
  [d EXCEPT !.balances[user][token] =
     [available |-> available, encumbered |-> encumbered, version |-> @.version + 1]]

UpsertBalanceDelta(d, user, token, available, encumbered) ==
  [d EXCEPT !.balances[user][token] =
     [available  |-> @.available + available,
      encumbered |-> @.encumbered + encumbered,
      version    |-> @.version + 1]]

(* Slip: ON CONFLICT DO NOTHING. *)
UpsertTokenPriceOnce(d, token, price) ==
  IF d.prices[token] = Nil THEN [d EXCEPT !.prices[token] = price] ELSE d

UpsertTokenPrice(d, token, price) == [d EXCEPT !.prices[token] = price]

InsertOperationFromEvent(d, id, row) ==
  [d EXCEPT !.operations[id] = IF @ = Nil THEN row ELSE @]

(* Slip: only an operation still requested takes the chain's outcome. *)
SetOperationStatusIfRequested(d, id, status) ==
  IF d.operations[id] = Nil \/ d.operations[id].status # "requested" THEN d
  ELSE [d EXCEPT !.operations[id].status = status]

SetOperationStatus(d, id, status) ==
  IF d.operations[id] = Nil THEN d ELSE [d EXCEPT !.operations[id].status = status]

InsertEncumbrance(d, owner, token, amount, id) ==
  [d EXCEPT !.encumbrances = Append(@,
     [owner |-> owner, token |-> token, amount |-> amount,
      operation |-> id, status |-> "active"])]

ReleaseEncumbrance(d, id) ==
  [d EXCEPT !.encumbrances =
     [i \in DOMAIN @ |->
        IF @[i].operation = id /\ @[i].status = "active"
          THEN [@[i] EXCEPT !.status = "released"] ELSE @[i]]]

(* The audit row of a decision; before is always the literal "requested".   *)
(* x is the transaction that decided, Nil for a decision on the dashboard.  *)
InsertAuditTrail(d, id, status, x) ==
  [d EXCEPT !.audit = Append(@, [operation |-> id, before |-> "requested",
                                 after |-> status, tx |-> x])]

-----------------------------------------------------------------------------
(* The web application's writes. *)

CreateOperation(d, id, row) == [d EXCEPT !.operations[id] = row]

(* Slip: approve or reject whatever the status. *)
CanDecideAny(d, id) == d.operations[id] # Nil

(* Slip: what the chain committed can be decided once more. *)
CanDecideCommitted(d, id) ==
  d.operations[id] # Nil /\ d.operations[id].status \in {"requested", "committed"}

(* The WHERE clause of ApproveOperation and RejectOperation. *)
CanDecide(d, id) == d.operations[id] # Nil /\ d.operations[id].status = "requested"

Decide(d, id, status) == [d EXCEPT !.operations[id].status = status]
=============================================================================
