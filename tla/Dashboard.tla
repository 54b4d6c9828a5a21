------------------------------ MODULE Dashboard ------------------------------
(***************************************************************************)
(* The web application beside the event processor, on the same database.   *)
(* An investor files an operation; custodians accept or reject what the    *)
(* queue shows as requested, the operations the chain brought included.    *)
(* A decision is two statements, the guarded UPDATE and the INSERT of its  *)
(* audit row, with no transaction around them: the handler may be between  *)
(* the two while other handlers and the event processor go on, and the     *)
(* request may be cancelled there.  The decision is never sent to the      *)
(* chain.                                                                  *)
(***************************************************************************)
EXTENDS EPL

CONSTANTS
  Handlers,   \* HTTP requests of custodians that may be in progress at once
  WebIds      \* operation ids the database generates

(* A decision in progress. *)
Decision == [operation: TxIds, status: {"accepted", "cancelled"}]

ASSUME WebIdsAssumption == WebIds \subseteq TxIds
ASSUME RowsAssumption == Nil \notin Operation \cup Decision

VARIABLE
  handler     \* request -> decision whose audit row is still to be written, or Nil

allVars == <<vars, handler>>

DashboardInit ==
  /\ Init
  /\ handler = [h \in Handlers |-> Nil]

-----------------------------------------------------------------------------
handleNewOperation ==
  \E id \in WebIds, u \in Users, type \in {"ENCUMBRANCE", "UNENCUMBRANCE"} :
    /\ db.operations[id] = Nil
    /\ db' = CreateOperation(db, id,
               [type |-> type, status |-> "requested", requestedBy |-> u,
                owner |-> u, counterparty |-> Nil])
    /\ UNCHANGED <<chain, mapping, phase, next, todo, faults, handler>>

(* Slip: the audit entry is forgotten. *)
UpdateOnly(h, status) ==
  \E id \in TxIds :
    /\ handler[h] = Nil
    /\ CanDecide(db, id)
    /\ db' = Decide(db, id, status)
    /\ UNCHANGED <<chain, mapping, phase, next, todo, faults, handler>>

(* The UPDATE.  When it matches no row the handler answers with an error and *)
(* has changed nothing.                                                      *)
Update(h, status) ==
  \E id \in TxIds :
    /\ handler[h] = Nil
    /\ CanDecide(db, id)
    /\ db' = Decide(db, id, status)
    /\ handler' = [handler EXCEPT ![h] = [operation |-> id, status |-> status]]
    /\ UNCHANGED <<chain, mapping, phase, next, todo, faults>>

handleApprove(h) == Update(h, "accepted")
handleReject(h) == Update(h, "cancelled")

(* The INSERT, after which the handler answers. *)
WriteAudit(h) ==
  /\ handler[h] # Nil
  /\ db' = InsertAuditTrail(db, handler[h].operation, handler[h].status, Nil)
  /\ handler' = [handler EXCEPT ![h] = Nil]
  /\ UNCHANGED <<chain, mapping, phase, next, todo, faults>>

(* The request is cancelled, the INSERT fails or the server stops: the       *)
(* handler ends without its audit row.                                       *)
Abandon(h) ==
  /\ handler[h] # Nil
  /\ faults < MaxFaults
  /\ faults' = faults + 1
  /\ handler' = [handler EXCEPT ![h] = Nil]
  /\ UNCHANGED <<chain, db, mapping, phase, next, todo>>

DashboardNext ==
  \/ Next /\ UNCHANGED handler
  \/ handleNewOperation
  \/ \E h \in Handlers :
       handleApprove(h) \/ handleReject(h) \/ WriteAudit(h) \/ Abandon(h)

DashboardSpec == DashboardInit /\ [][DashboardNext]_allVars

-----------------------------------------------------------------------------
(* Two custodians deciding at the same time: at most one of them gets        *)
(* through, counting the decisions whose audit row is still to come.         *)
WebRows(id) == {i \in DOMAIN db.audit : db.audit[i].operation = id /\ db.audit[i].tx = Nil}
InProgress(id) == {h \in Handlers : handler[h] # Nil /\ handler[h].operation = id}

OneDecisionPerOperation ==
  \A id \in TxIds : Cardinality(WebRows(id)) + Cardinality(InProgress(id)) <= 1

(* What the chain committed, the dashboard never takes back. *)
CommittedStands ==
  [][\A id \in TxIds :
       LET row == db.operations[id]
       IN  row # Nil /\ row.status = "committed" => db'.operations[id] = row]_allVars

(* Whatever custodians clicked in the meantime, an operation that the chain  *)
(* settled ends with the status the chain gave it.                           *)
ChainDecisionsShown ==
  \A x \in Projected :
    x.event.name \in {"APPROVED", "REJECTED"} =>
      LET r == x.event.request
      IN  db.operations[r.id] # Nil /\ db.operations[r.id].status = r.status

(* handleApprove marks a pending operation as accepted and writes an audit   *)
(* entry: while no request was cut short, an accepted operation has its      *)
(* entry or its handler is still busy, and each one left without costs a     *)
(* fault.                                                                    *)
Unaudited ==
  {id \in TxIds : /\ db.operations[id] # Nil /\ db.operations[id].status = "accepted"
                  /\ WebRows(id) \cup InProgress(id) = {}}

AcceptedIsAudited == Cardinality(Unaudited) <= faults
=============================================================================
