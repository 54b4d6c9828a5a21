--------------------------- MODULE DashboardProofs ---------------------------
(***************************************************************************)
(* Proofs about the web application's decisions beside the event           *)
(* processor, for any number of handlers, processors and operations.       *)
(***************************************************************************)
EXTENDS Dashboard, EventProofs

-----------------------------------------------------------------------------
(* What the handlers do. *)

HandlerType == handler \in [Handlers -> Decision \cup {Nil}]

Base == Ingest /\ HandlerType

(* The tables the event processor relies on stay. *)
Handles ==
  /\ UNCHANGED <<chain, mapping, phase, next, todo>>
  /\ db' \in Database /\ SameIngest(db, db') /\ faults' \in 0..MaxFaults

(* An operation is filed. *)
Filed(id) ==
  /\ UNCHANGED <<handler, faults>> /\ db'.audit = db.audit
  /\ db.operations[id] = Nil
  /\ db'.operations[id] \in Operation /\ db'.operations[id].status = "requested"
  /\ \A y \in TxIds : y # id => db'.operations[y] = db.operations[y]

(* Handler h decides. *)
Decided(h, id, status) ==
  /\ faults' = faults /\ db'.audit = db.audit
  /\ handler[h] = Nil /\ handler' = [handler EXCEPT ![h] = [operation |-> id, status |-> status]]
  /\ db.operations[id] # Nil /\ db.operations[id].status = "requested"
  /\ db'.operations[id] \in Operation /\ db'.operations[id].status = status
  /\ \A y \in TxIds : y # id => db'.operations[y] = db.operations[y]

(* Handler h writes its audit row. *)
Noted(h) ==
  /\ faults' = faults /\ db'.operations = db.operations
  /\ handler[h] # Nil /\ handler' = [handler EXCEPT ![h] = Nil]
  /\ Len(db'.audit) = Len(db.audit) + 1
  /\ \A i \in 1..Len(db.audit) : db'.audit[i] = db.audit[i]
  /\ db'.audit[Len(db.audit) + 1].operation = handler[h].operation
  /\ db'.audit[Len(db.audit) + 1].tx = Nil

(* Handler h gives up. *)
Abandoned(h) ==
  /\ faults' = faults + 1 /\ db' = db
  /\ handler[h] # Nil /\ handler' = [handler EXCEPT ![h] = Nil]

LEMMA FileStep ==
  ASSUME Base, handleNewOperation PROVE Handles /\ \E id \in TxIds : Filed(id)
<1>1. PICK id \in WebIds, u \in Users, type \in {"ENCUMBRANCE", "UNENCUMBRANCE"} :
        /\ db.operations[id] = Nil
        /\ db' = CreateOperation(db, id,
                   [type |-> type, status |-> "requested", requestedBy |-> u,
                    owner |-> u, counterparty |-> Nil])
        /\ UNCHANGED <<chain, mapping, phase, next, todo, faults, handler>>
  BY DEF handleNewOperation
<1>2. id \in TxIds /\ db \in Database /\ faults \in 0..MaxFaults
  BY WebIdsAssumption DEF Base, Ingest, Shape
<1>. DEFINE row == [type |-> type, status |-> "requested", requestedBy |-> u,
                    owner |-> u, counterparty |-> Nil]
            ops == [db.operations EXCEPT ![id] = row]
            e == db'
<1>3. row \in Operation /\ row.status = "requested"
  BY DEF Operation
<1>4. e = [db EXCEPT !.operations = ops]
  BY <1>1 DEF CreateOperation
<1>. HIDE DEF row
<1>5. /\ ops \in [TxIds -> Operation \cup {Nil}] /\ ops[id] = row
      /\ \A y \in TxIds : y # id => ops[y] = db.operations[y]
  <2>1. db.operations \in [TxIds -> Operation \cup {Nil}]
    BY <1>2 DEF Database
  <2>. QED BY <1>2, <1>3, <2>1
<1>. HIDE DEF ops, e
<1>6. e \in Database /\ SameIngest(db, e) /\ e.operations = ops /\ e.audit = db.audit
  BY <1>2, <1>4, <1>5, OperationsTyped
<1>7. Handles
  BY <1>1, <1>2, <1>6 DEF Handles, e
<1>8. Filed(id)
  BY <1>1, <1>3, <1>5, <1>6 DEF Filed, e
<1>. QED BY <1>2, <1>7, <1>8

LEMMA DecideStep ==
  ASSUME Base, NEW h \in Handlers, NEW status \in {"accepted", "cancelled"}, Update(h, status)
  PROVE  Handles /\ \E id \in TxIds : Decided(h, id, status)
<1>1. PICK id \in TxIds :
        /\ handler[h] = Nil
        /\ CanDecide(db, id)
        /\ db' = Decide(db, id, status)
        /\ handler' = [handler EXCEPT ![h] = [operation |-> id, status |-> status]]
        /\ UNCHANGED <<chain, mapping, phase, next, todo, faults>>
  BY DEF Update
<1>2. db \in Database /\ faults \in 0..MaxFaults
  BY DEF Base, Ingest, Shape
<1>3. db.operations[id] # Nil /\ db.operations[id].status = "requested"
  BY <1>1 DEF CanDecide
<1>. DEFINE e == db'
<1>4. e = SetOperationStatus(db, id, status)
  BY <1>1, <1>3 DEF Decide, SetOperationStatus
<1>. HIDE DEF e
<1>5. StatusSet(db, e, id, status)
  BY <1>2, <1>4, SetStatusTyped
<1>6. Handles
  BY <1>1, <1>2, <1>5 DEF Handles, StatusSet, e
<1>7. Decided(h, id, status)
  BY <1>1, <1>3, <1>5 DEF Decided, StatusSet, e
<1>. QED BY <1>6, <1>7

LEMMA AuditStepOf ==
  ASSUME Base, NEW h \in Handlers, WriteAudit(h) PROVE Handles /\ Noted(h)
<1>1. /\ handler[h] # Nil
      /\ db' = InsertAuditTrail(db, handler[h].operation, handler[h].status, Nil)
      /\ handler' = [handler EXCEPT ![h] = Nil]
      /\ UNCHANGED <<chain, mapping, phase, next, todo, faults>>
  BY DEF WriteAudit
<1>2. db \in Database /\ faults \in 0..MaxFaults /\ handler[h] \in Decision
  BY <1>1 DEF Base, Ingest, Shape, HandlerType
<1>. DEFINE e == db'
            id == handler[h].operation
            status == handler[h].status
            x == Nil
            row == [operation |-> id, before |-> "requested", after |-> status, tx |-> x]
<1>3. id \in TxIds /\ status \in {"accepted", "committed", "cancelled"} /\ x \in TxIds \cup {Nil}
  BY <1>2 DEF Decision
<1>4. e = InsertAuditTrail(db, id, status, x)
  BY <1>1
<1>5. row.operation = id /\ row.tx = x
  OBVIOUS
<1>. HIDE DEF e, id, status, x
<1>6. /\ e \in Database /\ SameIngest(db, e) /\ e.operations = db.operations
      /\ Len(e.audit) = Len(db.audit) + 1
      /\ \A i \in 1..Len(db.audit) : e.audit[i] = db.audit[i]
      /\ e.audit[Len(db.audit) + 1] = row
  BY <1>2, <1>3, <1>4, AuditTyped
<1>. HIDE DEF row
<1>7. Handles
  BY <1>1, <1>2, <1>6 DEF Handles, e
<1>8. Noted(h)
  BY <1>1, <1>5, <1>6 DEF Noted, e, id, x
<1>. QED BY <1>7, <1>8

LEMMA AbandonStep ==
  ASSUME Base, NEW h \in Handlers, Abandon(h) PROVE Handles /\ Abandoned(h)
<1>1. db \in Database /\ faults' \in 0..MaxFaults
  BY MaxFaultsAssumption DEF Base, Ingest, Shape, Abandon
<1>. QED BY <1>1 DEF Abandon, Handles, Abandoned, SameIngest

(* The event processor does not notice. *)
LEMMA HandlesIngest == ASSUME Ingest, Handles PROVE Ingest'
<1>1. /\ UNCHANGED <<chain, mapping, phase, next, todo>> /\ db' \in Database
      /\ db'.blocks = db.blocks /\ db'.transactions = db.transactions
      /\ db'.invalid = db.invalid /\ db'.events = db.events /\ db'.checkpoint = db.checkpoint
      /\ faults' \in 0..MaxFaults
  BY DEF Handles, SameIngest
<1>2. Shape'
  BY <1>1 DEF Ingest, Shape, Control, MappingType
<1>3. \A p \in Processors : Position(p)'
  BY <1>1 DEF Ingest, Position, CallsOf, Underway, Executed
<1>4. Vouched'
  BY <1>1 DEF Ingest, Vouched, Ingested, CallsOf, Executed
<1>. QED BY <1>2, <1>3, <1>4 DEF Ingest

(* The steps of the whole. *)
Projects == handler' = handler /\ [Next]_vars
Handling ==
  \/ \E id \in TxIds : Filed(id)
  \/ \E h \in Handlers, id \in TxIds, status \in {"accepted", "cancelled"} : Decided(h, id, status)
  \/ \E h \in Handlers : Noted(h) \/ Abandoned(h)

LEMMA DashboardSteps ==
  ASSUME Base, [DashboardNext]_allVars PROVE Projects \/ (Handles /\ Handling)
<1>1. CASE UNCHANGED allVars
  BY <1>1 DEF allVars, Projects
<1>2. CASE Next /\ UNCHANGED handler
  BY <1>2 DEF Projects
<1>3. CASE handleNewOperation
  BY <1>3, FileStep DEF Handling
<1>4. ASSUME NEW h \in Handlers, handleApprove(h) PROVE Handles /\ Handling
  <2>1. Update(h, "accepted")
    BY <1>4 DEF handleApprove
  <2>. QED BY <2>1, DecideStep DEF Handling
<1>5. ASSUME NEW h \in Handlers, handleReject(h) PROVE Handles /\ Handling
  <2>1. Update(h, "cancelled")
    BY <1>5 DEF handleReject
  <2>. QED BY <2>1, DecideStep DEF Handling
<1>6. ASSUME NEW h \in Handlers, WriteAudit(h) PROVE Handles /\ Handling
  BY <1>6, AuditStepOf DEF Handling
<1>7. ASSUME NEW h \in Handlers, Abandon(h) PROVE Handles /\ Handling
  BY <1>7, AbandonStep DEF Handling
<1>. QED BY <1>1, <1>2, <1>3, <1>4, <1>5, <1>6, <1>7 DEF DashboardNext

LEMMA BaseInit == DashboardInit => Base
  BY IngestInit DEF DashboardInit, Base, HandlerType

LEMMA BaseNext == Base /\ [DashboardNext]_allVars => Base'
<1>. SUFFICES ASSUME Base, [DashboardNext]_allVars PROVE Base'
  OBVIOUS
<1>1. CASE Projects
  BY <1>1, IngestNext DEF Projects, Base, HandlerType
<1>2. CASE Handles /\ Handling
  <2>1. Ingest'
    BY <1>2, HandlesIngest DEF Base
  <2>2. HandlerType'
    BY <1>2 DEF Base, HandlerType, Handling, Filed, Decided, Noted, Abandoned, Decision
  <2>. QED BY <2>1, <2>2 DEF Base
<1>. QED BY <1>1, <1>2, DashboardSteps

LEMMA BaseAlways == DashboardSpec => []Base
  BY BaseInit, BaseNext, PTL DEF DashboardSpec

-----------------------------------------------------------------------------
(* One decision per operation. *)

(* A decision, its audit row written or still to come, is there once, and    *)
(* its operation is no longer waiting for one.                               *)
OneFor(id) ==
  /\ \A i, j \in WebRows(id) : i = j
  /\ \A g, h \in InProgress(id) : g = h
  /\ WebRows(id) = {} \/ InProgress(id) = {}
  /\ WebRows(id) \cup InProgress(id) # {} =>
       db.operations[id] # Nil /\ db.operations[id].status # "requested"

LEMMA WebRowsKept ==
  ASSUME db \in Database, db' \in Database, Appends(db, db'), NEW id
  PROVE  WebRows(id)' = WebRows(id)
<1>1. DOMAIN db.audit = 1..Len(db.audit) /\ DOMAIN db'.audit = 1..Len(db'.audit)
  BY AuditLength
<1>2. \A i \in 1..Len(db'.audit) : i \in 1..Len(db.audit) \/ db'.audit[i].tx # Nil
  <2>1. \A row \in Rows : row.tx # Nil
    BY NilAssumption DEF Rows
  <2>. QED BY <2>1 DEF Appends
<1>. QED BY <1>1, <1>2 DEF WebRows, Appends

LEMMA WebRowsSame ==
  ASSUME db'.audit = db.audit, NEW id PROVE WebRows(id)' = WebRows(id)
  BY DEF WebRows

(* A handler that notes its decision turns it into a row. *)
LEMMA NotedRows ==
  ASSUME db \in Database, db' \in Database, NEW h \in Handlers, Noted(h), NEW id
  PROVE  WebRows(id)' = IF handler[h].operation = id THEN WebRows(id) \cup {Len(db.audit) + 1}
                        ELSE WebRows(id)
<1>. DEFINE n == Len(db.audit)
<1>1. /\ DOMAIN db.audit = 1..n /\ DOMAIN db'.audit = 1..Len(db'.audit) /\ n \in Nat
  BY AuditLength
<1>2. /\ Len(db'.audit) = n + 1
      /\ \A i \in 1..n : db'.audit[i] = db.audit[i]
      /\ db'.audit[n + 1].operation = handler[h].operation /\ db'.audit[n + 1].tx = Nil
  BY DEF Noted
<1>. HIDE DEF n
<1>3. 1..(n + 1) = 1..n \cup {n + 1} /\ n + 1 \notin 1..n
  BY <1>1
<1>4. DOMAIN db'.audit = DOMAIN db.audit \cup {n + 1}
  BY <1>1, <1>2, <1>3
<1>5. \A i : i \in WebRows(id)' <=>
        i \in WebRows(id) \/ (i = n + 1 /\ handler[h].operation = id)
  BY <1>1, <1>2, <1>3, <1>4 DEF WebRows
<1>. QED BY <1>5 DEF n

(* Who is in progress after a handler starts or ends. *)
LEMMA ProgressOf ==
  ASSUME HandlerType, NEW h \in Handlers, NEW v, handler' = [handler EXCEPT ![h] = v], NEW id
  PROVE  \A g : g \in InProgress(id)' <=> IF g = h THEN v # Nil /\ v.operation = id
                                          ELSE g \in InProgress(id)
<1>1. \A g \in Handlers : handler'[g] = IF g = h THEN v ELSE handler[g]
  BY DEF HandlerType
<1>. QED BY <1>1 DEF InProgress

LEMMA OneInit == ASSUME DashboardInit, NEW id PROVE OneFor(id)
<1>1. WebRows(id) = {} /\ InProgress(id) = {}
  BY DEF DashboardInit, Init, Start, EmptyDatabase, WebRows, InProgress
<1>. QED BY <1>1 DEF OneFor

LEMMA OneNext ==
  ASSUME Base, [DashboardNext]_allVars, NEW id \in TxIds, OneFor(id) PROVE OneFor(id)'
<1>0. db \in Database /\ db' \in Database /\ HandlerType
  BY BaseNext DEF Base, Ingest, Shape
<1>1. ASSUME WebRows(id)' = WebRows(id), InProgress(id)' = InProgress(id),
             \/ db'.operations[id] = db.operations[id] \/ db.operations[id] = Nil
             \/ db'.operations[id] \in Operation /\ db'.operations[id].status # "requested"
      PROVE  OneFor(id)'
  BY <1>1, RowsAssumption DEF OneFor
<1>2. CASE Projects
  <2>1. InProgress(id)' = InProgress(id)
    BY <1>2 DEF Projects, InProgress
  <2>2. CASE MapIdentity \/ UNCHANGED vars
    <3>1. db' = db
      BY <2>2 DEF MapIdentity, vars
    <3>. QED BY <1>1, <2>1, <3>1, WebRowsSame
  <2>3. ASSUME NEW p \in Processors, Moves(p) PROVE OneFor(id)'
    <3>1. Appends(db, db') /\ Shows(db, db', Head(todo[p]))
      BY <2>3, MovesTables DEF Base
    <3>2. WebRows(id)' = WebRows(id)
      BY <1>0, <3>1, WebRowsKept
    <3>3. \/ db'.operations[id] = db.operations[id] \/ db.operations[id] = Nil
          \/ db'.operations[id] \in Operation /\ db'.operations[id].status # "requested"
      BY <3>1 DEF Shows
    <3>. QED BY <1>1, <2>1, <3>2, <3>3
  <2>. QED BY <1>2, <2>2, <2>3, NextMoves DEF Projects, Base
<1>3. ASSUME NEW x \in TxIds, Filed(x) PROVE OneFor(id)'
  <2>1. InProgress(id)' = InProgress(id) /\ WebRows(id)' = WebRows(id)
    BY <1>3, WebRowsSame DEF Filed, InProgress
  <2>2. db'.operations[id] = db.operations[id] \/ db.operations[id] = Nil
    BY <1>3 DEF Filed
  <2>. QED BY <1>1, <2>1, <2>2
<1>4. ASSUME NEW h \in Handlers, NEW x \in TxIds, NEW status \in {"accepted", "cancelled"},
             Decided(h, x, status)
      PROVE  OneFor(id)'
  <2>. DEFINE v == [operation |-> x, status |-> status]
  <2>1. v \in Decision /\ v # Nil /\ v.operation = x
    BY RowsAssumption DEF Decision
  <2>2. handler' = [handler EXCEPT ![h] = v] /\ handler[h] = Nil
    BY <1>4 DEF Decided
  <2>. HIDE DEF v
  <2>3. \A g : g \in InProgress(id)' <=> IF g = h THEN v # Nil /\ v.operation = id
                                         ELSE g \in InProgress(id)
    BY <1>0, <2>2, ProgressOf, Zenon
  <2>4. h \notin InProgress(id)
    BY <2>2 DEF InProgress
  <2>5. WebRows(id)' = WebRows(id)
    BY <1>4, WebRowsSame DEF Decided
  <2>6. CASE x # id
    <3>1. InProgress(id)' = InProgress(id) /\ db'.operations[id] = db.operations[id]
      BY <1>4, <2>1, <2>3, <2>4, <2>6 DEF Decided
    <3>. QED BY <1>1, <2>5, <3>1
  <2>7. CASE x = id
    <3>1. WebRows(id) = {} /\ InProgress(id) = {}
      BY <1>4, <2>7 DEF OneFor, Decided
    <3>2. InProgress(id)' = {h} /\ WebRows(id)' = {}
      BY <2>1, <2>3, <2>5, <2>7, <3>1
    <3>3. db'.operations[id] # Nil /\ db'.operations[id].status # "requested"
      BY <1>4, <2>7, RowsAssumption DEF Decided
    <3>. QED BY <3>2, <3>3 DEF OneFor
  <2>. QED BY <2>6, <2>7
<1>5. ASSUME NEW h \in Handlers, Noted(h) \/ Abandoned(h) PROVE OneFor(id)'
  <2>. DEFINE mine == handler[h].operation = id
  <2>1. handler[h] # Nil /\ handler' = [handler EXCEPT ![h] = Nil] /\ db'.operations = db.operations
    BY <1>5 DEF Noted, Abandoned
  <2>2. InProgress(id)' = InProgress(id) \ {h}
    <3>. DEFINE v == Nil
    <3>1. handler' = [handler EXCEPT ![h] = v] /\ v = Nil
      BY <2>1
    <3>. HIDE DEF v
    <3>2. \A g : g \in InProgress(id)' <=> IF g = h THEN v # Nil /\ v.operation = id
                                           ELSE g \in InProgress(id)
      BY <1>0, <3>1, ProgressOf, Zenon
    <3>. QED BY <3>1, <3>2
  <2>3. mine <=> h \in InProgress(id)
    BY <2>1 DEF InProgress
  <2>4. WebRows(id)' = WebRows(id)
        \/ (mine /\ WebRows(id)' = WebRows(id) \cup {Len(db.audit) + 1})
    BY <1>0, <1>5, NotedRows, WebRowsSame DEF Abandoned
  <2>. HIDE DEF mine
  <2>5. CASE ~mine
    BY <1>1, <2>1, <2>2, <2>3, <2>4, <2>5
  <2>6. CASE mine
    <3>1. WebRows(id) = {} /\ InProgress(id)' = {}
          /\ db.operations[id] # Nil /\ db.operations[id].status # "requested"
      BY <2>2, <2>3, <2>6 DEF OneFor
    <3>. QED BY <2>1, <2>4, <3>1 DEF OneFor
  <2>. QED BY <2>5, <2>6
<1>. QED BY <1>2, <1>3, <1>4, <1>5, DashboardSteps DEF Handling

(* However many custodians decide at once, and whatever the chain does       *)
(* meanwhile, an operation gets at most one decision on the dashboard,       *)
(* counting the one whose audit row is still to be written.                  *)
THEOREM OneDecision == DashboardSpec => []OneDecisionPerOperation
<1>. DEFINE One == \A id \in TxIds : OneFor(id)
<1>1. DashboardInit => One
  BY OneInit
<1>2. Base /\ One /\ [DashboardNext]_allVars => One'
  BY OneNext
<1>3. One => OneDecisionPerOperation
  <2>. SUFFICES ASSUME One, NEW id \in TxIds
                PROVE  Cardinality(WebRows(id)) + Cardinality(InProgress(id)) <= 1
    BY DEF OneDecisionPerOperation
  <2>1. OneFor(id)
    OBVIOUS
  <2>2. ASSUME NEW S, \A i, j \in S : i = j PROVE Cardinality(S) \in {0, 1}
    <3>1. CASE S = {}
      BY <3>1, FS_EmptySet
    <3>2. ASSUME NEW x \in S PROVE Cardinality(S) = 1
      <4>1. S = {x}
        BY <2>2, <3>2
      <4>. QED BY <4>1, FS_Singleton
    <3>. QED BY <3>1, <3>2
  <2>3. Cardinality(WebRows(id)) \in {0, 1} /\ Cardinality(InProgress(id)) \in {0, 1}
    BY <2>1, <2>2 DEF OneFor
  <2>4. Cardinality(WebRows(id)) = 0 \/ Cardinality(InProgress(id)) = 0
    BY <2>1, FS_EmptySet DEF OneFor
  <2>. QED BY <2>3, <2>4
<1>. QED BY <1>1, <1>2, <1>3, BaseAlways, PTL DEF DashboardSpec

-----------------------------------------------------------------------------
(* Accepted operations and their audit entries. *)

LEMMA UnauditedStep ==
  ASSUME Base, [DashboardNext]_allVars
  PROVE  \/ Unaudited' \subseteq Unaudited /\ faults <= faults'
         \/ \E id : Unaudited' \subseteq Unaudited \cup {id} /\ faults' = faults + 1
<1>0. db \in Database /\ db' \in Database /\ HandlerType /\ faults \in Nat
  BY MaxFaultsAssumption, BaseNext DEF Base, Ingest, Shape
<1>1. ASSUME NEW id \in TxIds, id \in Unaudited', WebRows(id)' = WebRows(id),
             InProgress(id)' = InProgress(id),
             \/ db'.operations[id] = db.operations[id]
             \/ db'.operations[id].status # "accepted"
      PROVE  id \in Unaudited
  BY <1>1 DEF Unaudited
<1>2. \A id \in Unaudited' : id \in TxIds
  BY DEF Unaudited
<1>3. CASE Projects
  <2>1. \A id : InProgress(id)' = InProgress(id)
    BY <1>3 DEF Projects, InProgress
  <2>2. CASE MapIdentity \/ UNCHANGED vars
    <3>1. db' = db /\ faults' = faults
      BY <2>2 DEF MapIdentity, vars
    <3>2. Unaudited' = Unaudited
      BY <2>1, <3>1 DEF Unaudited, WebRows
    <3>. QED BY <1>0, <3>1, <3>2
  <2>3. ASSUME NEW p \in Processors, Moves(p)
        PROVE  Unaudited' \subseteq Unaudited /\ faults <= faults'
    <3>1. Appends(db, db') /\ Shows(db, db', Head(todo[p]))
      BY <2>3, MovesTables DEF Base
    <3>2. \A id : WebRows(id)' = WebRows(id)
      BY <1>0, <3>1, WebRowsKept
    <3>3. \A id \in TxIds : \/ db'.operations[id] = db.operations[id]
                            \/ db'.operations[id].status # "accepted"
      BY <3>1 DEF Shows
    <3>4. faults <= faults'
      BY <1>0, <2>3 DEF Moves
    <3>. QED BY <1>1, <1>2, <2>1, <3>2, <3>3, <3>4
  <2>. QED BY <1>3, <2>2, <2>3, NextMoves DEF Projects, Base
<1>4. ASSUME NEW x \in TxIds, Filed(x) PROVE Unaudited' \subseteq Unaudited /\ faults <= faults'
  <2>1. \A id : InProgress(id)' = InProgress(id) /\ WebRows(id)' = WebRows(id)
    BY <1>4, WebRowsSame DEF Filed, InProgress
  <2>2. \A id \in TxIds : \/ db'.operations[id] = db.operations[id]
                          \/ db'.operations[id].status # "accepted"
    BY <1>4 DEF Filed
  <2>3. faults <= faults'
    BY <1>0, <1>4 DEF Filed
  <2>. QED BY <1>1, <1>2, <2>1, <2>2, <2>3
<1>5. ASSUME NEW h \in Handlers, NEW x \in TxIds, NEW status \in {"accepted", "cancelled"},
             Decided(h, x, status)
      PROVE  Unaudited' \subseteq Unaudited /\ faults <= faults'
  <2>. DEFINE v == [operation |-> x, status |-> status]
  <2>1. v \in Decision /\ v # Nil /\ v.operation = x
    BY RowsAssumption DEF Decision
  <2>2. handler' = [handler EXCEPT ![h] = v] /\ handler[h] = Nil
    BY <1>5 DEF Decided
  <2>. HIDE DEF v
  <2>3. \A id, g : g \in InProgress(id)' <=> IF g = h THEN v # Nil /\ v.operation = id
                                             ELSE g \in InProgress(id)
    BY <1>0, <2>2, ProgressOf, Zenon
  <2>4. \A id : h \notin InProgress(id)
    BY <2>2 DEF InProgress
  <2>5. x \notin Unaudited'
    <3>1. h \in InProgress(x)'
      BY <2>1, <2>3
    <3>. QED BY <3>1 DEF Unaudited
  <2>6. ASSUME NEW id \in TxIds, id # x, id \in Unaudited' PROVE id \in Unaudited
    <3>1. InProgress(id)' = InProgress(id)
      BY <2>1, <2>3, <2>4, <2>6
    <3>2. WebRows(id)' = WebRows(id) /\ db'.operations[id] = db.operations[id]
      BY <1>5, <2>6, WebRowsSame DEF Decided
    <3>. QED BY <1>1, <2>6, <3>1, <3>2
  <2>7. faults <= faults'
    BY <1>0, <1>5 DEF Decided
  <2>. QED BY <1>2, <2>5, <2>6, <2>7
<1>6. ASSUME NEW h \in Handlers, Noted(h) \/ Abandoned(h)
      PROVE  \/ Unaudited' \subseteq Unaudited /\ faults <= faults'
             \/ \E id : Unaudited' \subseteq Unaudited \cup {id} /\ faults' = faults + 1
  <2>0. PICK x : x = handler[h].operation
    OBVIOUS
  <2>. DEFINE v == Nil
  <2>1. handler[h] # Nil /\ handler' = [handler EXCEPT ![h] = v] /\ db'.operations = db.operations
    BY <1>6 DEF Noted, Abandoned
  <2>2. v = Nil
    OBVIOUS
  <2>. HIDE DEF v
  <2>3. \A id, g : g \in InProgress(id)' <=> IF g = h THEN v # Nil /\ v.operation = id
                                             ELSE g \in InProgress(id)
    BY <1>0, <2>1, ProgressOf, Zenon
  <2>4. \A id : id # x => h \notin InProgress(id)
    BY <2>0 DEF InProgress
  <2>5. ASSUME NEW id \in TxIds, id # x, id \in Unaudited' PROVE id \in Unaudited
    <3>1. InProgress(id)' = InProgress(id)
      BY <2>2, <2>3, <2>4, <2>5
    <3>2. WebRows(id)' = WebRows(id)
      BY <1>0, <1>6, <2>0, <2>5, NotedRows, WebRowsSame DEF Abandoned
    <3>. QED BY <1>1, <2>1, <2>5, <3>1, <3>2
  <2>6. CASE Noted(h)
    <3>1. Len(db.audit) + 1 \in WebRows(x)'
      <4>1. WebRows(x)' = WebRows(x) \cup {Len(db.audit) + 1}
        BY <1>0, <2>0, <2>6, NotedRows
      <4>. QED BY <4>1
    <3>2. x \notin Unaudited'
      BY <3>1 DEF Unaudited
    <3>3. faults <= faults'
      BY <1>0, <2>6 DEF Noted
    <3>. QED BY <1>2, <2>5, <3>2, <3>3
  <2>7. CASE Abandoned(h)
    <3>1. faults' = faults + 1
      BY <2>7 DEF Abandoned
    <3>2. Unaudited' \subseteq Unaudited \cup {x}
      BY <1>2, <2>5
    <3>. QED BY <3>1, <3>2
  <2>. QED BY <1>6, <2>6, <2>7
<1>. QED BY <1>3, <1>4, <1>5, <1>6, DashboardSteps DEF Handling

(* An accepted operation has its audit entry, or a handler is about to write *)
(* it; every one left without has cost a fault.                              *)
THEOREM AcceptedAudited == DashboardSpec => []AcceptedIsAudited
<1>. DEFINE Inv == IsFiniteSet(Unaudited) /\ Cardinality(Unaudited) <= faults
<1>1. DashboardInit => Inv
  <2>. SUFFICES ASSUME DashboardInit PROVE Inv
    OBVIOUS
  <2>1. Unaudited = {} /\ faults = 0
    BY DEF DashboardInit, Init, Start, EmptyDatabase, Unaudited
  <2>. QED BY <2>1, FS_EmptySet
<1>2. Base /\ Inv /\ [DashboardNext]_allVars => Inv'
  <2>. SUFFICES ASSUME Base, Inv, [DashboardNext]_allVars PROVE Inv'
    OBVIOUS
  <2>. DEFINE S == Unaudited
              T == Unaudited'
  <2>0. faults \in Nat /\ faults' \in Nat /\ IsFiniteSet(S) /\ Cardinality(S) \in Nat
          /\ Cardinality(S) <= faults
    BY BaseNext, MaxFaultsAssumption, FS_CardinalityType DEF Base, Ingest, Shape
  <2>1. CASE T \subseteq S /\ faults <= faults'
    <3>. HIDE DEF S, T
    <3>1. IsFiniteSet(T) /\ Cardinality(T) <= Cardinality(S) /\ Cardinality(T) \in Nat
      BY <2>0, <2>1, FS_Subset, FS_CardinalityType
    <3>2. Cardinality(T) <= faults'
      BY <2>0, <2>1, <3>1
    <3>. QED BY <3>1, <3>2 DEF T
  <2>2. ASSUME NEW id, T \subseteq S \cup {id}, faults' = faults + 1 PROVE Inv'
    <3>. HIDE DEF S, T
    <3>0. /\ IsFiniteSet(S \cup {id})
          /\ Cardinality(S \cup {id}) = IF id \in S THEN Cardinality(S) ELSE Cardinality(S) + 1
      BY <2>0, FS_AddElement
    <3>1. IsFiniteSet(S \cup {id}) /\ Cardinality(S \cup {id}) <= Cardinality(S) + 1
            /\ Cardinality(S \cup {id}) \in Nat
      BY <2>0, <3>0
    <3>2. IsFiniteSet(T) /\ Cardinality(T) <= Cardinality(S \cup {id}) /\ Cardinality(T) \in Nat
      BY <2>2, <3>1, FS_Subset, FS_CardinalityType
    <3>3. Cardinality(T) <= faults'
      BY <2>0, <2>2, <3>1, <3>2
    <3>. QED BY <3>2, <3>3 DEF T
  <2>. QED BY <2>1, <2>2, UnauditedStep
<1>3. Inv => AcceptedIsAudited
  BY DEF AcceptedIsAudited
<1>. QED BY <1>1, <1>2, <1>3, BaseAlways, PTL DEF DashboardSpec

-----------------------------------------------------------------------------
(* What the chain committed stays, where the decisions on the chain do not   *)
(* contradict one another.                                                   *)
CommittedByChain ==
  \A id \in TxIds :
    db.operations[id] # Nil /\ db.operations[id].status = "committed" => DecidedAs(id, "committed")

LEMMA CommittedNext ==
  ASSUME OneOutcome, Base, CommittedByChain, [DashboardNext]_allVars
  PROVE  /\ CommittedByChain'
         /\ \A id \in TxIds :
              db.operations[id] # Nil /\ db.operations[id].status = "committed"
                => db'.operations[id] = db.operations[id]
<1>1. chain' = chain /\ chain \in Chains
  <2>1. chain \in Chains
    BY DEF Base, Ingest, Shape
  <2>2. Projects => chain' = chain
    BY NextMoves DEF Projects, Base, MapIdentity, vars, Moves
  <2>. QED BY <2>1, <2>2, DashboardSteps DEF Handles
<1>2. \A id, status : DecidedAs(id, status)' <=> DecidedAs(id, status)
  BY <1>1 DEF DecidedAs
<1>3. ASSUME NEW id \in TxIds, NEW s, NEW t, DecidedAs(id, s), DecidedAs(id, t) PROVE s = t
  BY <1>1, <1>3 DEF DecidedAs, OneOutcome
<1>4. SUFFICES ASSUME NEW id \in TxIds
               PROVE  /\ db'.operations[id] # Nil /\ db'.operations[id].status = "committed"
                           => DecidedAs(id, "committed")
                      /\ db.operations[id] # Nil /\ db.operations[id].status = "committed"
                           => db'.operations[id] = db.operations[id]
  BY <1>2 DEF CommittedByChain
<1>5. db.operations[id] # Nil /\ db.operations[id].status = "committed" => DecidedAs(id, "committed")
  BY DEF CommittedByChain
<1>6. CASE db'.operations[id] = db.operations[id]
  BY <1>5, <1>6
<1>7. ASSUME NEW p \in Processors, Moves(p), db'.operations[id] # db.operations[id]
      PROVE  /\ db'.operations[id].status = "committed" => DecidedAs(id, "committed")
             /\ db.operations[id] = Nil \/ db.operations[id].status # "committed"
  <2>1. CASE db.operations[id] = Nil
    <3>1. db'.operations[id].status = "requested"
      BY <1>7, <2>1, ShownByChain DEF Base
    <3>. QED BY <2>1, <3>1
  <2>2. CASE db.operations[id] # Nil
    <3>1. /\ db'.operations[id].status # db.operations[id].status
          /\ DecidedAs(id, db'.operations[id].status)
      BY <1>7, <2>2, ShownByChain DEF Base
    <3>. QED BY <1>3, <1>5, <2>2, <3>1
  <2>. QED BY <2>1, <2>2
<1>8. CASE Projects
  <2>1. CASE MapIdentity \/ UNCHANGED vars
    BY <1>6, <2>1 DEF MapIdentity, vars
  <2>. QED BY <1>6, <1>7, <1>8, <2>1, NextMoves DEF Projects, Base
<1>9. ASSUME NEW x \in TxIds, Filed(x), db'.operations[id] # db.operations[id]
      PROVE  db'.operations[id].status # "committed" /\ db.operations[id] = Nil
  BY <1>9 DEF Filed
<1>10. ASSUME NEW h \in Handlers, NEW x \in TxIds, NEW status \in {"accepted", "cancelled"},
              Decided(h, x, status), db'.operations[id] # db.operations[id]
       PROVE  db'.operations[id].status # "committed" /\ db.operations[id].status # "committed"
  BY <1>10 DEF Decided
<1>11. ASSUME NEW h \in Handlers, Noted(h) \/ Abandoned(h)
       PROVE  db'.operations[id] = db.operations[id]
  BY <1>11 DEF Noted, Abandoned
<1>. QED BY <1>6, <1>8, <1>9, <1>10, <1>11, DashboardSteps DEF Handling

(* What the chain committed, neither a custodian nor a replay takes back.    *)
THEOREM CommittedStay == ASSUME OneOutcome PROVE DashboardSpec => CommittedStands
<1>. DEFINE Stand == \A id \in TxIds :
                       db.operations[id] # Nil /\ db.operations[id].status = "committed"
                         => db'.operations[id] = db.operations[id]
<1>1. DashboardInit => CommittedByChain
  BY DEF DashboardInit, Init, Start, EmptyDatabase, CommittedByChain
<1>2. Base /\ CommittedByChain /\ [DashboardNext]_allVars => CommittedByChain'
  BY CommittedNext
<1>3. Base /\ CommittedByChain /\ [DashboardNext]_allVars =>
        [\A id \in TxIds :
           LET row == db.operations[id]
           IN  row # Nil /\ row.status = "committed" => db'.operations[id] = row]_allVars
  BY CommittedNext
<1>. QED BY <1>1, <1>2, <1>3, BaseAlways, PTL DEF DashboardSpec, CommittedStands

-----------------------------------------------------------------------------
(* What the chain decided shows.                                             *)

LEMMA HandlingKeeps == ASSUME Base, Handles, Handling PROVE Kept(db, db')
<1>1. db \in Database /\ db' \in Database /\ Len(db.audit) \in Nat
  BY AuditLength DEF Base, Ingest, Shape, Handles
<1>2. ASSUME NEW y \in TxIds, db.operations[y] # Nil
      PROVE  /\ db'.operations[y] # Nil
             /\ db'.operations[y] = db.operations[y] \/ db.operations[y].status = "requested"
  <2>1. \/ db'.operations[y] = db.operations[y]
        \/ db'.operations[y] \in Operation /\ db.operations[y].status = "requested"
    BY <1>2 DEF Handling, Filed, Decided, Noted, Abandoned
  <2>. QED BY <1>2, <2>1, RowsAssumption
<1>3. db'.audit = db.audit \/ \E h \in Handlers : Noted(h)
  BY DEF Handling, Filed, Decided, Abandoned
<1>4. \A m \in 1..Len(db.audit) : m \in 1..Len(db'.audit) /\ db'.audit[m] = db.audit[m]
  BY <1>1, <1>3 DEF Noted
<1>. QED BY <1>2, <1>4 DEF Kept

LEMMA TracksDashboard == Base /\ Tracks /\ [DashboardNext]_allVars => Tracks'
<1>. SUFFICES ASSUME Base, Tracks, [DashboardNext]_allVars PROVE Tracks'
  OBVIOUS
<1>1. CASE Projects
  BY <1>1, TracksNext DEF Projects, Base
<1>2. CASE Handles /\ Handling
  <2>1. Kept(db, db')
    BY <1>2, HandlingKeeps
  <2>. QED BY <1>2, <2>1, TracksKept DEF Handles, SameIngest, Base
<1>. QED BY <1>1, <1>2, DashboardSteps

(* Whatever custodians clicked before or after, through replays, crashes and *)
(* the projections of several processors, an operation the chain settled has *)
(* its outcome: where the chain settles a request once, after it was filed.  *)
THEOREM DecisionsShown ==
  ASSUME OneOutcome, RequestedFirst PROVE DashboardSpec => []ChainDecisionsShown
<1>1. Consistent
  BY DEF Consistent
<1>2. DashboardInit => Tracks
  BY TracksInit DEF DashboardInit
<1>3. Base /\ Tracks => ChainDecisionsShown
  <2>. SUFFICES ASSUME Base, Tracks, NEW x \in Projected, x.event.name \in {"APPROVED", "REJECTED"}
                PROVE  LET r == x.event.request
                       IN  db.operations[r.id] # Nil /\ db.operations[r.id].status = r.status
    BY DEF ChainDecisionsShown
  <2>1. x \in Eventful /\ db.events[x.id] = "processed"
    BY DEF Projected
  <2>2. PICK h \in DOMAIN chain : \E i : EventfulAt(chain[h], i) /\ x = Tr(h, i)
    BY <2>1, EventfulPositions
  <2>3. PICK i : EventfulAt(chain[h], i) /\ x = Tr(h, i)
    BY <2>2
  <2>4. x.id = IdAt(h, i) /\ x.event = EventAt(h, i)
    BY <2>3 DEF Tr, IdAt, EventAt
  <2>. DEFINE r == x.event.request
  <2>5. r = EventAt(h, i).request /\ Decisive(EventAt(h, i))
    BY <2>4 DEF Decisive
  <2>6. chain \in Chains /\ Landed /\ db.events[IdAt(h, i)] = "processed"
    BY <2>1, <2>4 DEF Base, Ingest, Shape, Tracks
  <2>. HIDE DEF r
  <2>7. db.operations[r.id] # Nil /\ db.operations[r.id].status = r.status
    BY <1>1, <2>3, <2>5, <2>6, LandedShows
  <2>. QED BY <2>7 DEF r
<1>. QED BY <1>2, <1>3, TracksDashboard, BaseAlways, PTL DEF DashboardSpec
=============================================================================
