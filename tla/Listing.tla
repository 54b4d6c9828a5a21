------------------------------ MODULE Listing ------------------------------
(***************************************************************************)
(* Paging through operations while they change.  Each page is a statement  *)
(* of its own (LIMIT and OFFSET), the custodian's total another, and       *)
(* between them operations are filed, decided and settled.                 *)
(*                                                                         *)
(* An operation stands at the place created_at gives it, which is the time *)
(* its INSERT starts; it is seen when the INSERT commits, so one that      *)
(* started earlier may appear before others already seen.                  *)
(*                                                                         *)
(* A walk goes from page 1 on: through the custodian's queue by the total, *)
(* as its page does (codeP4.html), or, for the lists without a total, to   *)
(* the first page that is empty.  After a decision the custodian's page    *)
(* loads the page it shows again.                                          *)
(***************************************************************************)
EXTENDS Integers, Sequences, FiniteSets

CONSTANTS
  Owners,
  DefaultLimit,    \* rows of a page unless asked otherwise (10 in the code)
  MaxLimit,        \* the most one may ask for (100 in the code)
  MaxOperations    \* bound on the operations filed

ASSUME LimitAssumption == MaxLimit \in Nat /\ DefaultLimit \in 1..MaxLimit

VARIABLES
  operations,   \* in the order of created_at
  walk          \* the walk: where it is, what it has shown, what happened meanwhile

vars == <<operations, walk>>

Lists == {"queue", "pending", "own"}   \* the custodian's, the lender's, an investor's

NoWalk ==
  [stage |-> "none", list |-> "queue", owner |-> CHOOSE u \in Owners : TRUE, limit |-> DefaultLimit,
   page |-> 1, pages |-> 1, shown |-> {}, first |-> {}, left |-> 0, late |-> FALSE]

Init == operations = <<>> /\ walk = NoWalk

-----------------------------------------------------------------------------
(* The queries. *)

Visible(i) == operations[i].visible
Pending(i) == Visible(i) /\ operations[i].status = "requested"
OwnedBy(i, owner) == Visible(i) /\ operations[i].owner = owner

PendingRows == {i \in DOMAIN operations : Pending(i)}
RowsOf(owner) == {i \in DOMAIN operations : OwnedBy(i, owner)}
InList(list, owner) == IF list = "own" THEN RowsOf(owner) ELSE PendingRows

(* The place of each row in a result, from 1. *)
OldestFirst(rows) == [i \in rows |-> Cardinality({j \in rows : j <= i})]
NewestFirst(rows) == [i \in rows |-> Cardinality({j \in rows : j >= i})]

Page(place, limit, offset) == {i \in DOMAIN place : place[i] \in offset + 1 .. offset + limit}

(* Slip: newest first. *)
GetPendingOperationsDesc(limit, offset) == Page(NewestFirst(PendingRows), limit, offset)

GetPendingOperations(limit, offset) == Page(OldestFirst(PendingRows), limit, offset)

(* Slip: only what is still pending. *)
GetOperationsByOwnerPending(owner, limit, offset) ==
  Page(NewestFirst({i \in RowsOf(owner) : Pending(i)}), limit, offset)

GetOperationsByOwner(owner, limit, offset) == Page(NewestFirst(RowsOf(owner)), limit, offset)

CountPendingOperations == Cardinality(PendingRows)

(* Slip: no upper bound. *)
paginationLimitUncapped(n) == IF n > 0 THEN n ELSE DefaultLimit

(* The limit and the offset that pagination makes of the query parameters. *)
paginationLimit(n) == IF n \in 1..MaxLimit THEN n ELSE DefaultLimit

paginationOffset(page, limit) == IF page > 1 THEN (page - 1) * limit ELSE 0

-----------------------------------------------------------------------------
(* Operations are filed and decided. *)

Walking == walk.stage \notin {"none", "done"}

(* CreateOperation of a web request, InsertOperationFromEvent of the EPL. *)
BeginInsert ==
  /\ Len(operations) < MaxOperations
  /\ \E u \in Owners :
       operations' = Append(operations, [owner |-> u, status |-> "requested", visible |-> FALSE])
  /\ UNCHANGED walk

(* It is late in a list if it comes to stand before what was there. *)
Late(i) == IF walk.list = "own" THEN operations[i].owner = walk.owner
           ELSE \E j \in DOMAIN operations : i < j /\ Pending(j)

CommitInsert(i) ==
  /\ ~Visible(i)
  /\ operations' = [operations EXCEPT ![i].visible = TRUE]
  /\ walk' = IF Walking /\ Late(i) THEN [walk EXCEPT !.late = TRUE] ELSE walk

(* ApproveOperation, RejectOperation or SetOperationStatus: the status       *)
(* leaves "requested" for good.                                              *)
Decide(i) ==
  /\ Pending(i)
  /\ operations' = [operations EXCEPT ![i].status = "decided"]
  /\ walk' = IF Walking THEN [walk EXCEPT !.left = @ + 1] ELSE walk

-----------------------------------------------------------------------------
(* The walk. *)

Start ==
  /\ walk.stage = "none"
  /\ \E list \in Lists, u \in Owners, n \in 0..(MaxLimit + 1) :
       /\ list = "queue" => n = DefaultLimit
       /\ list # "own" => u = walk.owner
       /\ walk' = [walk EXCEPT !.stage = "asking", !.list = list, !.owner = u,
                               !.limit = paginationLimit(n), !.first = InList(list, u)]
  /\ UNCHANGED operations

Offset == paginationOffset(walk.page, walk.limit)
Showing(rows) == walk.shown \cup ({walk.page} \X rows)

(* The first of its two statements. *)
handleCustodianQueue ==
  /\ walk.stage = "asking" /\ walk.list = "queue"
  /\ walk' = [walk EXCEPT !.stage = "counting",
                          !.shown = Showing(GetPendingOperations(walk.limit, Offset))]
  /\ UNCHANGED operations

(* Without a total the walk goes on until a page is empty. *)
ShowPage(rows) ==
  /\ walk.stage = "asking"
  /\ walk' = [walk EXCEPT !.stage = IF rows = {} THEN "done" ELSE "showing",
                          !.shown = Showing(rows),
                          !.pages = walk.page + 1]
  /\ UNCHANGED operations

handleLenderPending ==
  walk.list = "pending" /\ ShowPage(GetPendingOperations(walk.limit, Offset))

handleInvestorOperations ==
  walk.list = "own" /\ ShowPage(GetOperationsByOwner(walk.owner, walk.limit, Offset))

(* Slip: a last page that is not full is not counted. *)
CountQueueDown ==
  /\ walk.stage = "counting"
  /\ walk' = [walk EXCEPT !.stage = "showing", !.pages = CountPendingOperations \div walk.limit]
  /\ UNCHANGED operations

(* The page is shown, and of the queue so many pages for n operations. *)
ShowTotal(n) ==
  /\ walk.stage = "counting"
  /\ walk' = [walk EXCEPT !.stage = "showing", !.pages = (n + walk.limit - 1) \div walk.limit]
  /\ UNCHANGED operations

(* The second statement of handleCustodianQueue. *)
CountQueue == ShowTotal(CountPendingOperations)

(* Its error is dropped: the answer says 0. *)
CountFails == ShowTotal(0)

(* The next page, or the end when the last page is the one shown. *)
Turn ==
  /\ walk.stage = "showing"
  /\ walk' = IF walk.page < walk.pages THEN [walk EXCEPT !.stage = "asking", !.page = @ + 1]
             ELSE [walk EXCEPT !.stage = "done"]
  /\ UNCHANGED operations

(* The page shown is loaded again, after a decision. *)
Reload ==
  /\ walk.stage = "showing" /\ walk.list = "queue"
  /\ walk' = [walk EXCEPT !.stage = "asking"]
  /\ UNCHANGED operations

Next ==
  \/ BeginInsert
  \/ \E i \in DOMAIN operations : CommitInsert(i) \/ Decide(i)
  \/ Start \/ Turn \/ Reload
  \/ handleCustodianQueue \/ CountQueue \/ CountFails
  \/ handleLenderPending \/ handleInvestorOperations

Spec == Init /\ [][Next]_vars

-----------------------------------------------------------------------------
(* Operations and walk keep their shape. *)
TypeOK ==
  /\ operations \in Seq([owner: Owners, status: {"requested", "decided"}, visible: BOOLEAN])
  /\ walk.stage \in {"none", "asking", "counting", "showing", "done"}
  /\ walk.limit \in 1..MaxLimit /\ walk.page \in Nat /\ walk.pages \in Nat
  /\ walk.shown \subseteq Nat \X DOMAIN operations
  /\ walk.first \subseteq DOMAIN operations

Shown == {s[2] : s \in walk.shown}
Repeated == {i \in Shown : Cardinality({s \in walk.shown : s[2] = i}) > 1}

(* A walk through the pending operations misses some that were pending all   *)
(* the time, but never more than left the queue meanwhile: each that leaves  *)
(* moves one from the next page to the one already seen.  (A walk that was   *)
(* last told of no pages, because the count failed or the queue was empty,   *)
(* ends where it is.)                                                        *)
MissesAreBounded ==
  walk.stage = "done" /\ walk.list # "own" /\ walk.pages > 0 =>
    Cardinality({i \in walk.first : Pending(i)} \ Shown) <= walk.left

(* An investor's walk, newest first, misses nothing that was there when it   *)
(* started, whatever is filed or decided meanwhile.                          *)
OwnListIsComplete ==
  walk.stage = "done" /\ walk.list = "own" => walk.first \subseteq Shown

(* An operation shows up on two pages only where one was inserted before it: *)
(* for the queue, that takes an INSERT that commits after a later one.       *)
RepeatsNeedLateInserts == Repeated # {} => walk.late
=============================================================================
