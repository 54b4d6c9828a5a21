------------------------------ MODULE ViewProofs ------------------------------
(***************************************************************************)
(* Proofs about the views of the query model once the checkpoint has       *)
(* reached the end of the chain, or between two blocks: the statuses and   *)
(* owners of operations, the prices of tokens, the audit trail and the     *)
(* balances of users.                                                      *)
(***************************************************************************)
EXTENDS EventProofs, TotalsProofs

(* A projection at the head of a queue is one of the event the query model   *)
(* reflects.                                                                 *)
LEMMA HeadCurrent ==
  ASSUME Ingest, NEW p \in Processors, Current(p), todo[p] # <<>>, NEW c, c = Head(todo[p]),
         c.do \in Projections
  PROVE  \E h, i, j :
           /\ In(p, h, i, j) /\ h \in DOMAIN chain /\ EventfulAt(chain[h], i) /\ j \in Nat
           /\ j + 1 \in 2..(Len(CallsAt(h, i)) - 1) /\ SameCall(c, CallsAt(h, i)[j + 1])
<1>1. chain \in Chains
  BY DEF Ingest, Shape
<1>2. PICK h, i, j : In(p, h, i, j)
  BY DEF Current
<1>3. /\ h \in DOMAIN chain /\ EventfulAt(chain[h], i) /\ j \in Nat
      /\ j + 1 \in 2..Len(CallsAt(h, i)) /\ SameCall(c, CallsAt(h, i)[j + 1])
  BY <1>1, <1>2, InHead
<1>4. Len(CallsAt(h, i)) \in Nat /\ CallsAt(h, i)[Len(CallsAt(h, i))] = MarkOf(IdAt(h, i))
  BY <1>1, <1>3, EventsAt
<1>5. c.do = CallsAt(h, i)[j + 1].do
  BY <1>3, SameDo
<1>6. MarkOf(IdAt(h, i)).do \notin Projections
  BY OwnAndDo DEF Projections, Writes
<1>7. j + 1 # Len(CallsAt(h, i))
  BY <1>4, <1>5, <1>6
<1>8. j + 1 \in 2..(Len(CallsAt(h, i)) - 1)
  BY <1>3, <1>4, <1>7
<1>. QED BY <1>2, <1>3, <1>8

(* Once caught up, every event is processed. *)
LEMMA AllProcessed ==
  ASSUME Ingest, CaughtUp, InitialHeight = 0, NEW h \in DOMAIN chain, NEW i, EventfulAt(chain[h], i)
  PROVE  db.events[IdAt(h, i)] = "processed"
<1>1. chain \in Chains /\ db.checkpoint.height \in Nat
  BY InitialHeightAssumption, ChainFacts DEF Ingest, Shape
<1>2. h \in Nat /\ 0 < h /\ h <= Len(chain) /\ Len(chain) \in Nat
  BY <1>1, ChainFacts
<1>3. h <= db.checkpoint.height
  BY <1>1, <1>2 DEF CaughtUp
<1>4. Ingested(db, h)
  BY <1>2, <1>3 DEF Ingest, Vouched
<1>. QED BY <1>1, <1>4, IngestedTraces DEF IdAt

-----------------------------------------------------------------------------
(* Statuses.                                                                 *)

(* A status other than "requested" comes from a decision whose event the     *)
(* query model reflects.                                                     *)
StatusesLed ==
  \A y \in TxIds : db.operations[y] # Nil /\ db.operations[y].status # "requested" =>
    \E h \in DOMAIN chain : \E i :
      EventfulAt(chain[h], i) /\ Decisive(EventAt(h, i)) /\ EventAt(h, i).request.id = y

LEMMA LedSuffices ==
  ASSUME chain' = chain,
         \A y \in TxIds : db'.operations[y] # Nil /\ db'.operations[y].status # "requested" =>
           \E h \in DOMAIN chain : \E i :
             EventfulAt(chain[h], i) /\ Decisive(EventAt(h, i)) /\ EventAt(h, i).request.id = y
  PROVE  StatusesLed'
  BY DEF StatusesLed, EventAt

LEMMA LedMoves ==
  ASSUME Ingest, StatusesLed, NEW p \in Processors, Current(p), Moves(p) PROVE StatusesLed'
<1>1. chain \in Chains /\ chain' = chain
  BY DEF Ingest, Shape, Moves
<1>2. SUFFICES ASSUME NEW y \in TxIds, db'.operations[y] # Nil, db'.operations[y].status # "requested"
               PROVE  \E h \in DOMAIN chain : \E i :
                        /\ EventfulAt(chain[h], i) /\ Decisive(EventAt(h, i))
                        /\ EventAt(h, i).request.id = y
  BY <1>1, LedSuffices, Zenon
<1>3. CASE db'.operations[y] = db.operations[y]
  BY <1>2, <1>3 DEF StatusesLed
<1>4. CASE db'.operations[y] # db.operations[y]
  <2>. DEFINE c == Head(todo[p])
  <2>1. HeadIn(p) /\ c.do = "SetOperationStatus" /\ c.id = y
    BY <1>2, <1>4, MovesTables DEF Shows
  <2>2. todo[p] # <<>> /\ c.do \in Projections
    BY <2>1 DEF HeadIn, Projections, Writes
  <2>. HIDE DEF c
  <2>3. PICK h, i, j :
          /\ h \in DOMAIN chain /\ EventfulAt(chain[h], i)
          /\ j + 1 \in 2..(Len(CallsAt(h, i)) - 1) /\ SameCall(c, CallsAt(h, i)[j + 1])
    BY <2>2, HeadCurrent DEF c
  <2>4. c = CallsAt(h, i)[j + 1]
    BY <2>1, <2>3 DEF SameCall
  <2>5. Decisive(EventAt(h, i)) /\ c = StatusOfEvent(EventAt(h, i))
    BY <1>1, <2>1, <2>3, <2>4, ProjectionSound
  <2>6. EventAt(h, i).request.id = y
    BY <2>1, <2>5 DEF StatusOfEvent, Status
  <2>. QED BY <2>3, <2>5, <2>6
<1>. QED BY <1>3, <1>4

LEMMA LedNext == Ingest /\ Tracks /\ StatusesLed /\ [Next]_vars => StatusesLed'
<1>. SUFFICES ASSUME Ingest, Tracks, StatusesLed, [Next]_vars PROVE StatusesLed'
  OBVIOUS
<1>1. CASE MapIdentity \/ UNCHANGED vars
  <2>1. chain' = chain /\ db' = db
    BY <1>1 DEF MapIdentity, vars
  <2>. QED BY <2>1, LedSuffices DEF StatusesLed
<1>2. ASSUME NEW p \in Processors, Moves(p) PROVE StatusesLed'
  BY <1>2, LedMoves DEF Tracks
<1>. QED BY <1>1, <1>2, NextMoves

(* The event of a request, processed, has its row, whose id is that of its   *)
(* transaction.                                                              *)
LEMMA RequestLands ==
  ASSUME chain \in Chains, Landed, NEW h \in DOMAIN chain, NEW i, EventfulAt(chain[h], i),
         db.events[IdAt(h, i)] = "processed", EventAt(h, i).name = "REQUESTED"
  PROVE  /\ EventAt(h, i).request.id = IdAt(h, i) /\ EventAt(h, i).request.status = "requested"
         /\ db.operations[IdAt(h, i)] # Nil
<1>. DEFINE e == EventAt(h, i)
            x == IdAt(h, i)
            q == CallsAt(h, i)
            mat == materialize(e, x)
            r == e.request
<1>1. x \in TxIds /\ e \in EventOf(x) /\ q = EventCalls(e, x) /\ e.name = "REQUESTED"
  BY EventsAt DEF CallsAt
<1>2. \A m \in 2..(Len(q) - 1) : Lasting(db, q[m])
  BY DEF Landed
<1>. HIDE DEF e, x, q
<1>3. r.id = x /\ r.status = "requested"
  <2>1. e.request.id = x /\ e \in Event
    BY <1>1 DEF EventOf
  <2>2. e.request \in Request("requested")
    BY <1>1, <2>1 DEF Event
  <2>. QED BY <2>1, <2>2 DEF Request
<1>4. /\ Len(mat) \in Nat
      /\ \A k \in 1..Len(mat) : k + 1 \in 2..(Len(q) - 1) /\ q[k + 1] = mat[k]
  BY <1>1, CallsOfEvent
<1>5. 3 <= Len(mat) /\ mat[Len(mat)] = InsertOperation(r)
  BY <1>1, MaterializeParts DEF RequestedCalls
<1>. HIDE DEF mat
<1>6. Len(mat) \in 1..Len(mat)
  BY <1>4, <1>5
<1>7. Lasting(db, InsertOperation(r))
  BY <1>2, <1>4, <1>5, <1>6
<1>8. InsertOperation(r).do = "InsertOperationFromEvent" /\ InsertOperation(r).id = r.id
  BY DEF InsertOperation
<1>9. db.operations[x] # Nil
  BY <1>3, <1>7, <1>8 DEF Lasting
<1>. QED BY <1>3, <1>9 DEF e, x

(* Once the checkpoint has reached the end of the chain, every operation has *)
(* the status that the chain gave it last, through any replays and with any  *)
(* number of processors: where the chain settles a request once, after it    *)
(* was committed.                                                            *)
THEOREM StatusesFollow ==
  ASSUME OneOutcome, RequestedFirst PROVE Spec => []StatusesConverge
<1>1. Init => Tracks /\ StatusesLed
  BY TracksInit DEF Init, Start, EmptyDatabase, StatusesLed
<1>2. Ingest /\ Tracks /\ StatusesLed /\ [Next]_vars => Tracks' /\ StatusesLed'
  BY TracksNext, LedNext
<1>3. Ingest /\ Tracks /\ StatusesLed => StatusesConverge
  <2>. SUFFICES ASSUME Ingest, Tracks, StatusesLed, CaughtUp, InitialHeight = 0,
                       NEW x \in Eventful, x.event.name \in {"REQUESTED", "APPROVED", "REJECTED"},
                       \A y \in Eventful :
                         /\ y.event.name \in {"REQUESTED", "APPROVED", "REJECTED"}
                         /\ y.event.request.id = x.event.request.id
                         => ~Before(x, y)
                PROVE  /\ db.operations[x.event.request.id] # Nil
                       /\ db.operations[x.event.request.id].status = x.event.request.status
    BY DEF StatusesConverge
  <2>1. chain \in Chains /\ Landed /\ Consistent
    BY DEF Ingest, Shape, Tracks, Consistent
  <2>2. PICK h \in DOMAIN chain : \E i : EventfulAt(chain[h], i) /\ x = Tr(h, i)
    BY EventfulPositions
  <2>3. PICK i : EventfulAt(chain[h], i) /\ x = Tr(h, i)
    BY <2>2
  <2>4. x.id = IdAt(h, i) /\ x.event = EventAt(h, i) /\ x.at = <<h, i>>
    BY <2>3 DEF Tr, IdAt, EventAt
  <2>5. db.events[IdAt(h, i)] = "processed"
    BY <2>3, AllProcessed
  <2>. DEFINE r == EventAt(h, i).request
  <2>6. x.event.request = r
    BY <2>4
  <2>7. CASE Decisive(EventAt(h, i))
    <3>1. db.operations[r.id] # Nil /\ db.operations[r.id].status = r.status
      <4>1. r = EventAt(h, i).request
        OBVIOUS
      <4>. HIDE DEF r
      <4>. QED BY <2>1, <2>3, <2>5, <2>7, <4>1, LandedShows
    <3>. QED BY <2>6, <3>1
  <2>8. CASE EventAt(h, i).name = "REQUESTED"
    <3>1. r.id = IdAt(h, i) /\ r.status = "requested" /\ db.operations[r.id] # Nil
      BY <2>1, <2>3, <2>5, <2>8, RequestLands
    <3>2. IdAt(h, i) \in TxIds /\ i \in Nat /\ h \in Nat
      BY <2>1, <2>3, EventsAt, ChainFacts, TransactionIds DEF EventfulAt
    <3>3. SUFFICES ASSUME db.operations[r.id].status # "requested" PROVE FALSE
      BY <2>6, <3>1
    <3>4. PICK g \in DOMAIN chain : \E l :
            EventfulAt(chain[g], l) /\ Decisive(EventAt(g, l)) /\ EventAt(g, l).request.id = r.id
      BY <3>1, <3>2, <3>3 DEF StatusesLed
    <3>5. PICK l :
            EventfulAt(chain[g], l) /\ Decisive(EventAt(g, l)) /\ EventAt(g, l).request.id = r.id
      BY <3>4
    <3>6. l \in DOMAIN chain[g].data /\ g \in Nat /\ 0 < g
      BY <2>1, <3>5, ChainFacts DEF EventfulAt, TransactionAt
    <3>7. PICK k, m :
            /\ k \in DOMAIN chain /\ (k < g \/ (k = g /\ m < l)) /\ EventfulAt(chain[k], m)
            /\ OurEvent(chain[k].data[m]).name = "REQUESTED"
            /\ OurEvent(chain[k].data[m]).request.id = OurEvent(chain[g].data[l]).request.id
      BY <2>1, <3>5, <3>6 DEF RequestedFirst, EventAt
    <3>8. EventAt(k, m).name = "REQUESTED" /\ EventAt(k, m).request.id = r.id
      BY <3>5, <3>7 DEF EventAt
    <3>9. EventAt(k, m).request.id = IdAt(k, m)
      <4>1. db.events[IdAt(k, m)] = "processed"
        BY <3>7, AllProcessed
      <4>. QED BY <2>1, <3>7, <3>8, <4>1, RequestLands
    <3>10. k = h /\ m = i
      <4>1. IdAt(h, i) = IdAt(k, m)
        BY <3>1, <3>8, <3>9
      <4>2. chain[h].data[i].tx = chain[k].data[m].tx
        BY <4>1 DEF IdAt
      <4>3. h = k /\ i = m
        BY <2>1, <2>3, <3>7, <4>2, EventfulOnce
      <4>. QED BY <4>3
    <3>11. Tr(g, l) \in Eventful
      BY <3>5, EventfulPositions
    <3>12. Tr(g, l).event = EventAt(g, l) /\ Tr(g, l).at = <<g, l>>
      BY DEF Tr, EventAt
    <3>13. Before(x, Tr(g, l))
      BY <2>4, <3>7, <3>10, <3>12 DEF Before
    <3>. HIDE DEF r
    <3>. QED BY <2>6, <3>5, <3>11, <3>12, <3>13 DEF Decisive
  <2>9. Decisive(EventAt(h, i)) \/ EventAt(h, i).name = "REQUESTED"
    BY <2>4 DEF Decisive
  <2>. QED BY <2>7, <2>8, <2>9
<1>. QED BY <1>1, <1>2, <1>3, IngestAlways, PTL DEF Spec

-----------------------------------------------------------------------------
(* Prices.                                                                   *)

(* The effect of call c on the prices. *)
Prices(d, e, c) ==
  IF c.do = "UpsertTokenPrice"
    THEN c.token \in Tokens /\ e.prices = [d.prices EXCEPT ![c.token] = c.price]
    ELSE e.prices = d.prices

LEMMA CheckpointPrices ==
  ASSUME NEW d \in Database, NEW h, NEW s, NEW e, e = UpdateCheckpoint(d, h, s)
  PROVE  e.prices = d.prices
  BY DEF UpdateCheckpoint, Database

LEMMA EffectPrices ==
  ASSUME NEW d \in Database, NEW x \in TxIds, NEW c \in Projecting(x), c.do \in Writes,
         NEW e, e = Effect(d, c)
  PROVE  Prices(d, e, c)
<1>1. CASE c.do = "UpsertTokenPrice"
  <2>1. c.token \in Tokens
    BY <1>1, WriteFields
  <2>2. e = UpsertTokenPrice(d, c.token, c.price)
    BY <1>1 DEF Effect
  <2>3. e.prices = [d.prices EXCEPT ![c.token] = c.price]
    BY <2>2 DEF UpsertTokenPrice, Database
  <2>. QED BY <1>1, <2>1, <2>3 DEF Prices
<1>2. CASE c.do = "UpsertBalanceDelta"
  <2>. DEFINE u == UserOf(c.owner)
              t == c.token
              a == c.available
              b == c.encumbered
  <2>1. e = UpsertBalanceDelta(d, u, t, a, b)
    BY <1>2 DEF Effect
  <2>. HIDE DEF u, t, a, b
  <2>2. e.prices = d.prices
    BY <2>1 DEF UpsertBalanceDelta, Database
  <2>. QED BY <1>2, <2>2 DEF Prices
<1>3. CASE c.do = "InsertOperationFromEvent"
  <2>. DEFINE row == [c.row EXCEPT !.requestedBy = mapping[@]]
  <2>1. e = InsertOperationFromEvent(d, c.id, row)
    BY <1>3 DEF Effect
  <2>. HIDE DEF row
  <2>2. e.prices = d.prices
    BY <2>1 DEF InsertOperationFromEvent, Database
  <2>. QED BY <1>3, <2>2 DEF Prices
<1>4. CASE c.do = "SetOperationStatus"
  <2>1. e = SetOperationStatus(d, c.id, c.status)
    BY <1>4 DEF Effect
  <2>2. e.prices = d.prices
    BY <2>1 DEF SetOperationStatus, Database
  <2>. QED BY <1>4, <2>2 DEF Prices
<1>5. CASE c.do = "InsertEncumbrance"
  <2>. DEFINE u == mapping[c.owner]
  <2>1. e = InsertEncumbrance(d, u, c.token, c.amount, c.id)
    BY <1>5 DEF Effect
  <2>. HIDE DEF u
  <2>2. e.prices = d.prices
    BY <2>1 DEF InsertEncumbrance, Database
  <2>. QED BY <1>5, <2>2 DEF Prices
<1>6. CASE c.do = "ReleaseEncumbrance"
  <2>1. e = ReleaseEncumbrance(d, c.id)
    BY <1>6 DEF Effect
  <2>2. e.prices = d.prices
    BY <2>1 DEF ReleaseEncumbrance, Database
  <2>. QED BY <1>6, <2>2 DEF Prices
<1>7. CASE c.do = "InsertAuditTrail"
  <2>1. e = InsertAuditTrail(d, c.id, c.status, c.tx)
    BY <1>7 DEF Effect
  <2>2. e.prices = d.prices
    BY <2>1 DEF InsertAuditTrail, Database
  <2>. QED BY <1>7, <2>2 DEF Prices
<1>. QED BY <1>1, <1>2, <1>3, <1>4, <1>5, <1>6, <1>7 DEF Writes

LEMMA MadePrices ==
  ASSUME NEW d \in Database, NEW h, NEW c \in AnyCall, NEW e, Made(d, h, c, e)
  PROVE  Prices(d, e, c)
<1>1. CASE c.do \in Writes
  <2>1. e = Effect(d, c)
    BY <1>1 DEF Made, Writes
  <2>2. PICK x \in TxIds : c \in Projecting(x)
    BY <1>1, CallFields DEF Projections
  <2>. QED BY <1>1, <2>1, <2>2, EffectPrices
<1>2. CASE c.do \notin Writes
  <2>1. e.prices = d.prices
    BY <1>2 DEF Made, Database, SaveBlock, SaveTransaction, SaveInvalidTransaction, SaveEvent,
                MarkEventProcessed, UpdateCheckpoint
  <2>. QED BY <1>2, <2>1 DEF Prices, Writes
<1>. QED BY <1>1, <1>2

(* p is about to write a price. *)
WritesPrice(p) == Calls(p) /\ todo[p] # <<>> /\ Head(todo[p]).do = "UpsertTokenPrice"

LEMMA MovesPrices ==
  ASSUME Ingest, NEW p \in Processors, Moves(p)
  PROVE  /\ ~WritesPrice(p) => db'.prices = db.prices
         /\ WritesPrice(p) =>
              /\ Prices(db, db', Head(todo[p])) /\ db'.events = db.events
<1>1. db \in Database /\ MappingType
  BY DEF Ingest, Shape
<1>2. ASSUME Calls(p)
      PROVE  Prices(db, db', Head(todo[p])) /\ Made(db, next[p], Head(todo[p]), db')
               /\ todo[p] # <<>> /\ Head(todo[p]) \in AnyCall
  <2>1. phase[p] = "running" /\ todo[p] # <<>> /\ Made(db, next[p], Head(todo[p]), db')
    BY <1>2 DEF Calls, Busy
  <2>2. HeadIn(p)
    BY <2>1, HeadGrounded
  <2>3. Head(todo[p]) \in AnyCall
    BY <2>2 DEF HeadIn, Grounded
  <2>. QED BY <1>1, <2>1, <2>3, MadePrices
<1>3. ASSUME WritesPrice(p) PROVE Prices(db, db', Head(todo[p])) /\ db'.events = db.events
  <2>. DEFINE c == Head(todo[p])
              e == db'
  <2>1. Calls(p) /\ c.do = "UpsertTokenPrice"
    BY <1>3 DEF WritesPrice
  <2>2. e = Effect(db, c) /\ c.do \in Writes
    BY <1>2, <2>1 DEF Made, Writes
  <2>3. PICK x \in TxIds : c \in Projecting(x)
    BY <1>2, <2>1, <2>2, CallFields DEF Projections
  <2>. HIDE DEF c, e
  <2>4. SameIngest(db, e)
    BY <1>1, <2>2, <2>3, EffectTyped
  <2>. QED BY <1>2, <2>1, <2>4 DEF SameIngest, c, e
<1>4. ASSUME ~WritesPrice(p) PROVE db'.prices = db.prices
  <2>1. CASE Calls(p)
    BY <1>2, <1>4, <2>1 DEF Prices, WritesPrice
  <2>2. CASE ~Calls(p)
    <3>1. db' = db \/ \E h, s : db' = UpdateCheckpoint(db, h, s)
      BY <2>2 DEF Moves, Does, Idles, Subscribes, Receives, Skips, Completes
    <3>. QED BY <1>1, <3>1, CheckpointPrices
  <2>. QED BY <2>1, <2>2
<1>. QED BY <1>3, <1>4

(* One processor never projects an event that is marked. *)
Fresh(p) == \A h, i, j : In(p, h, i, j) => db.events[IdAt(h, i)] # "processed"

LEMMA FreshSuffices ==
  ASSUME chain' = chain, NEW p,
         \A h, i, j : In(p, h, i, j)' => db'.events[IdAt(h, i)] # "processed"
  PROVE  Fresh(p)'
  BY DEF Fresh, IdAt

LEMMA FreshMover ==
  ASSUME Ingest, NEW p \in Processors, Current(p), Fresh(p), Moves(p) PROVE Fresh(p)'
<1>1. chain \in Chains /\ chain' = chain
  BY DEF Ingest, Shape, Moves
<1>2. SUFFICES ASSUME NEW h, NEW i, NEW j, In(p, h, i, j)', db'.events[IdAt(h, i)] = "processed"
               PROVE  FALSE
  BY <1>1, FreshSuffices, Zenon
<1>. DEFINE x == IdAt(h, i)
            n == Len(CallsAt(h, i))
            c == CallsAt(h, i)[j]
            b == Head(todo[p])
<1>3. /\ Calls(p) /\ todo[p] # <<>> /\ h \in DOMAIN chain /\ EventfulAt(chain[h], i)
      /\ j \in Nat /\ j \in 1..n /\ SameCall(b, c)
      /\ j # 1 => In(p, h, i, j - 1)
  BY <1>2, InMover
<1>4. j \in 1..(n - 1)
  <2>1. In(p, h, i, j)' => j \in 1..(Len(CallsAt(h, i)) - 1)
    BY <1>1 DEF In, CallsAt, EventAt, IdAt
  <2>. QED BY <1>2, <2>1
<1>5. /\ n \in Nat /\ x \in TxIds /\ CallsAt(h, i)[1] = SaveEventOf(x)
      /\ \A k \in 2..(n - 1) : CallsAt(h, i)[k] \in Projecting(x)
  BY <1>1, <1>3, EventsAt
<1>6. c.do # "MarkEventProcessed" /\ b.do = c.do
  <2>1. CASE j = 1
    BY <1>3, <1>5, <2>1, SameDo, OwnAndDo
  <2>2. CASE j # 1
    <3>1. j \in 2..(n - 1)
      <4>. HIDE DEF n
      <4>. QED BY <1>3, <1>4, <1>5, <2>2
    <3>2. c \in Projecting(x)
      BY <1>5, <3>1
    <3>3. c.do \in Projections
      BY <3>2, ProjectingDo
    <3>. QED BY <1>3, <3>3, SameDo DEF Projections, Writes
  <2>. QED BY <2>1, <2>2
<1>7. db.events[x] = "processed"
  <2>1. SUFFICES ASSUME db.events[x] # "processed" PROVE FALSE
    OBVIOUS
  <2>2. b = MarkOf(x)
    BY <1>2, <1>3, <2>1, MarkedHere
  <2>. HIDE DEF b, c
  <2>. QED BY <1>6, <2>2, OwnAndDo
<1>8. j = 1
  <2>1. SUFFICES ASSUME j # 1 PROVE FALSE
    OBVIOUS
  <2>. QED BY <1>3, <1>7, <2>1 DEF Fresh
<1>9. b = SaveEventOf(x)
  <2>1. c = SaveEventOf(x)
    BY <1>5, <1>8
  <2>. HIDE DEF b, c
  <2>. QED BY <1>3, <2>1, OwnAndDo DEF SameCall
<1>10. Passes(b)
  BY <1>3 DEF Calls
<1>. HIDE DEF b, x
<1>. QED BY <1>7, <1>9, <1>10, OwnAndDo DEF Passes

(* The event of a price at the end of its history. *)
LastPrice(h, i) ==
  /\ EventfulAt(chain[h], i) /\ EventAt(h, i).name = "NAV_UPDATED"
  /\ \A g \in DOMAIN chain : \A l :
       /\ EventfulAt(chain[g], l) /\ EventAt(g, l).name = "NAV_UPDATED"
       /\ EventAt(g, l).token = EventAt(h, i).token
       => ~(h < g \/ (h = g /\ i < l))

PriceHeld(h, i) == db.prices[EventAt(h, i).token] = EventAt(h, i).price

(* From its statement on, the last price stays. *)
PricesHeld ==
  \A h \in DOMAIN chain : \A i : LastPrice(h, i) =>
    /\ db.events[IdAt(h, i)] = "processed" => PriceHeld(h, i)
    /\ \A p \in Processors : In(p, h, i, 2) => PriceHeld(h, i)

LEMMA PriceEvents ==
  ASSUME chain \in Chains, NEW h \in DOMAIN chain, NEW i, EventfulAt(chain[h], i),
         EventAt(h, i).name = "NAV_UPDATED"
  PROVE  Len(CallsAt(h, i)) = 3 /\ CallsAt(h, i)[2] = PriceCall(EventAt(h, i))
<1>. DEFINE e == EventAt(h, i)
            x == IdAt(h, i)
            q == CallsAt(h, i)
            m == materialize(e, x)
<1>1. x \in TxIds /\ e \in EventOf(x) /\ q = EventCalls(e, x) /\ e.name = "NAV_UPDATED"
  BY EventsAt DEF CallsAt
<1>. HIDE DEF e, x, q
<1>2. Len(m) = 1 /\ m[1] = PriceCall(e)
  BY <1>1, MaterializeParts
<1>3. /\ Len(m) \in Nat /\ Len(q) = Len(m) + 2
      /\ \A k \in 1..Len(m) : k + 1 \in 2..(Len(q) - 1) /\ q[k + 1] = m[k]
  BY <1>1, CallsOfEvent
<1>. HIDE DEF m
<1>4. Len(q) = 3 /\ q[2] = PriceCall(e)
  <2>1. 1 \in 1..Len(m)
    BY <1>2
  <2>2. q[1 + 1] = m[1]
    BY <1>3, <2>1
  <2>. QED BY <1>2, <1>3, <2>2
<1>. QED BY <1>4 DEF e, q

(* Only such an event writes a price. *)
LEMMA PriceWriters ==
  ASSUME chain \in Chains, NEW h \in DOMAIN chain, NEW i, EventfulAt(chain[h], i),
         NEW j \in 2..(Len(CallsAt(h, i)) - 1), CallsAt(h, i)[j].do = "UpsertTokenPrice"
  PROVE  EventAt(h, i).name = "NAV_UPDATED"
<1>. DEFINE e == EventAt(h, i)
            x == IdAt(h, i)
            q == CallsAt(h, i)
            m == materialize(e, x)
<1>1. x \in TxIds /\ e \in EventOf(x) /\ q = EventCalls(e, x) /\ q[j].do = "UpsertTokenPrice"
  BY EventsAt DEF CallsAt
<1>2. j \in 2..(Len(q) - 1)
  OBVIOUS
<1>. HIDE DEF e, x, q
<1>3. Len(m) \in Nat /\ \A k \in 2..(Len(q) - 1) : k - 1 \in 1..Len(m) /\ q[k] = m[k - 1]
  BY <1>1, CallsOfEvent
<1>4. PICK k : k = j - 1
  OBVIOUS
<1>5. k \in 1..Len(m) /\ m[k].do = "UpsertTokenPrice"
  BY <1>1, <1>2, <1>3, <1>4
<1>6. /\ Decisive(e) => 1 <= Len(m) /\ DecisionCalls(m, e, x)
      /\ e.name = "REQUESTED" => RequestedCalls(m, e.request)
      /\ e.name \in {"MINT", "BURN"} =>
           /\ Len(m) = 2 /\ m[1].do = "ResolveFabricIdentity" /\ m[2].do = "UpsertBalanceDelta"
  BY <1>1, MaterializeParts
<1>. HIDE DEF m
<1>7. ~Decisive(e)
  <2>1. SUFFICES ASSUME Decisive(e) PROVE FALSE
    OBVIOUS
  <2>2. k = Len(m) \/ k \in 1..(Len(m) - 1)
    BY <1>3, <1>5
  <2>3. Audit(e.request, x).do = "InsertAuditTrail"
    BY DEF Audit
  <2>. QED BY <1>5, <1>6, <2>1, <2>2, <2>3 DEF DecisionCalls
<1>8. e.name # "REQUESTED"
  <2>1. SUFFICES ASSUME e.name = "REQUESTED" PROVE FALSE
    OBVIOUS
  <2>. DEFINE r == e.request
  <2>2. RequestedCalls(m, r)
    BY <1>6, <2>1
  <2>. HIDE DEF r
  <2>3. k = 1 \/ k = 2 \/ k = Len(m) \/ k \in 3..(Len(m) - 1)
    BY <1>3, <1>5
  <2>4. /\ Resolve(r.requestedBy).do # "UpsertTokenPrice"
        /\ \A f, u : Canonicalize(f, u).do # "UpsertTokenPrice"
        /\ InsertOperation(r).do # "UpsertTokenPrice"
    BY DEF Resolve, Canonicalize, InsertOperation
  <2>. QED BY <1>5, <2>2, <2>3, <2>4 DEF RequestedCalls
<1>9. e.name \notin {"MINT", "BURN"}
  <2>1. SUFFICES ASSUME e.name \in {"MINT", "BURN"} PROVE FALSE
    OBVIOUS
  <2>2. k = 1 \/ k = 2
    BY <1>5, <1>6, <2>1
  <2>. QED BY <1>5, <1>6, <2>1, <2>2
<1>10. e.name \in {"MINT", "BURN", "NAV_UPDATED", "REQUESTED", "APPROVED", "REJECTED"}
  BY <1>1 DEF EventOf, Event
<1>11. e.name = "NAV_UPDATED"
  BY <1>7, <1>8, <1>9, <1>10 DEF Decisive
<1>. QED BY <1>11 DEF e

LEMMA HeldSuffices ==
  ASSUME chain' = chain,
         \A h \in DOMAIN chain : \A i :
           /\ LastPrice(h, i)
           /\ db'.events[IdAt(h, i)] = "processed" \/ \E p \in Processors : In(p, h, i, 2)'
           => db'.prices[EventAt(h, i).token] = EventAt(h, i).price
  PROVE  PricesHeld'
  BY DEF PricesHeld, PriceHeld, LastPrice, EventAt, IdAt

(* The only processor writes a price. *)
LEMMA HeldWritten ==
  ASSUME OneProcessor, Ingest, InOrder, Tracks, PricesHeld, NEW p \in Processors, Fresh(p), Moves(p),
         WritesPrice(p), NEW h \in DOMAIN chain, NEW i, LastPrice(h, i),
         db'.events[IdAt(h, i)] = "processed" \/ In(p, h, i, 2)'
  PROVE  db'.prices[EventAt(h, i).token] = EventAt(h, i).price
<1>. DEFINE c == Head(todo[p])
            t == EventAt(h, i).token
            f == EventAt(h, i)
<1>1. chain \in Chains /\ db \in Database /\ EventfulAt(chain[h], i) /\ f.name = "NAV_UPDATED"
  BY DEF Ingest, Shape, LastPrice
<1>2. /\ Calls(p) /\ todo[p] # <<>> /\ c.do = "UpsertTokenPrice"
      /\ c.token \in Tokens /\ db'.prices = [db.prices EXCEPT ![c.token] = c.price]
      /\ db'.events = db.events
  BY MovesPrices DEF WritesPrice, Prices
<1>3. phase[p] = "running" /\ Current(p) /\ Above(p)
  BY <1>2 DEF Calls, Busy, Tracks
<1>4. PICK g, l, j :
        /\ In(p, g, l, j) /\ g \in DOMAIN chain /\ EventfulAt(chain[g], l) /\ j \in Nat
        /\ j + 1 \in 2..(Len(CallsAt(g, l)) - 1) /\ SameCall(c, CallsAt(g, l)[j + 1])
  <2>1. c.do \in Projections
    BY <1>2 DEF Projections, Writes
  <2>. HIDE DEF c
  <2>. QED BY <1>2, <1>3, <2>1, HeadCurrent DEF c
<1>. DEFINE e == EventAt(g, l)
<1>5. c = CallsAt(g, l)[j + 1]
  BY <1>2, <1>4 DEF SameCall
<1>6. e.name = "NAV_UPDATED"
  BY <1>1, <1>2, <1>4, <1>5, PriceWriters
<1>7. c = PriceCall(e)
  <2>1. Len(CallsAt(g, l)) = 3 /\ CallsAt(g, l)[2] = PriceCall(e)
    BY <1>1, <1>4, <1>6, PriceEvents
  <2>2. j + 1 = 2
    BY <1>4, <2>1
  <2>. QED BY <1>5, <2>1, <2>2
<1>8. c.token = e.token /\ c.price = e.price
  BY <1>7 DEF PriceCall
<1>9. t \in Tokens /\ f \in Event
  <2>1. f \in Event
    BY <1>1, EventsAt DEF EventOf
  <2>. QED BY <1>1, <2>1 DEF Event
<1>10. db.prices \in [Tokens -> Int \cup {Nil}]
  BY <1>1 DEF Database
<1>11. CASE c.token # t
  <2>1. db'.prices[t] = db.prices[t]
    <3>. HIDE DEF c, t
    <3>. QED BY <1>2, <1>9, <1>10, <1>11
  <2>2. ~In(p, h, i, 2)'
    <3>1. SUFFICES ASSUME In(p, h, i, 2)' PROVE FALSE
      OBVIOUS
    <3>2. SameCall(c, CallsAt(h, i)[2])
      BY <3>1, InMover
    <3>3. CallsAt(h, i)[2] = PriceCall(f)
      BY <1>1, PriceEvents
    <3>4. c = PriceCall(f)
      <4>. HIDE DEF c, f
      <4>. QED BY <1>2, <3>2, <3>3 DEF SameCall
    <3>. QED BY <1>11, <3>4 DEF PriceCall
  <2>3. db.events[IdAt(h, i)] = "processed"
    BY <1>2, <2>2
  <2>4. db.prices[t] = f.price
    BY <2>3 DEF PricesHeld, PriceHeld
  <2>. QED BY <2>1, <2>4
<1>12. CASE c.token = t /\ g = h /\ l = i
  <2>1. db'.prices[t] = c.price
    <3>. HIDE DEF c, t
    <3>. QED BY <1>2, <1>9, <1>10, <1>12
  <2>. QED BY <1>8, <1>12, <2>1
<1>13. ~(c.token = t /\ ~(g = h /\ l = i))
  <2>1. SUFFICES ASSUME c.token = t, ~(g = h /\ l = i) PROVE FALSE
    OBVIOUS
  <2>2. h \in Nat /\ g \in Nat /\ i \in Nat /\ l \in Nat
    BY <1>1, <1>4, ChainFacts, TransactionIds DEF EventfulAt
  <2>3. ~(h < g \/ (h = g /\ i < l))
    BY <1>4, <1>6, <1>8, <2>1 DEF LastPrice
  <2>4. g < h \/ (g = h /\ l < i)
    BY <2>1, <2>2, <2>3
  <2>5. InitialHeight < g
    BY <1>3, <1>4, AboveIn
  <2>6. db.events[IdAt(g, l)] # "processed"
    BY <1>4 DEF Fresh
  <2>7. CASE db'.events[IdAt(h, i)] = "processed"
    <3>1. db.events[chain[h].data[i].tx] = "processed"
      BY <1>2, <2>7 DEF IdAt
    <3>2. db.events[chain[g].data[l].tx] = "processed"
      BY <1>1, <1>4, <2>4, <2>5, <3>1 DEF InOrder
    <3>. QED BY <2>6, <3>2 DEF IdAt
  <2>8. CASE In(p, h, i, 2)'
    <3>1. In(p, h, i, 2 - 1)
      BY <2>8, InMover
    <3>. QED BY <1>3, <1>4, <2>4, <2>5, <2>6, <3>1, EarlierDone
  <2>. QED BY <2>7, <2>8
<1>. QED BY <1>11, <1>12, <1>13

LEMMA HeldMoves ==
  ASSUME OneProcessor, Ingest, InOrder, Tracks, PricesHeld, NEW p \in Processors, Fresh(p), Moves(p)
  PROVE  PricesHeld'
<1>1. chain \in Chains /\ chain' = chain
  BY DEF Ingest, Shape, Moves
<1>2. SUFFICES ASSUME NEW h \in DOMAIN chain, NEW i, LastPrice(h, i),
                      db'.events[IdAt(h, i)] = "processed" \/ In(p, h, i, 2)'
               PROVE  db'.prices[EventAt(h, i).token] = EventAt(h, i).price
  <2>1. \A r \in Processors : r = p
    BY DEF OneProcessor
  <2>2. SUFFICES ASSUME NEW h \in DOMAIN chain, NEW i, LastPrice(h, i),
                        db'.events[IdAt(h, i)] = "processed" \/ \E r \in Processors : In(r, h, i, 2)'
                 PROVE  db'.prices[EventAt(h, i).token] = EventAt(h, i).price
    BY <1>1, HeldSuffices, Zenon
  <2>3. (\E r \in Processors : In(r, h, i, 2)') => In(p, h, i, 2)'
    BY <2>1
  <2>. QED BY <2>2, <2>3
<1>3. CASE WritesPrice(p)
  BY <1>2, <1>3, HeldWritten
<1>4. CASE ~WritesPrice(p)
  <2>1. db'.prices = db.prices
    BY <1>4, MovesPrices
  <2>2. EventfulAt(chain[h], i) /\ EventAt(h, i).name = "NAV_UPDATED"
    BY <1>2 DEF LastPrice
  <2>3. Len(CallsAt(h, i)) = 3 /\ CallsAt(h, i)[2] = PriceCall(EventAt(h, i))
    BY <1>1, <2>2, PriceEvents
  <2>4. ~In(p, h, i, 2)'
    <3>1. SUFFICES ASSUME In(p, h, i, 2)' PROVE FALSE
      OBVIOUS
    <3>2. Calls(p) /\ todo[p] # <<>> /\ SameCall(Head(todo[p]), CallsAt(h, i)[2])
      BY <3>1, InMover
    <3>3. Head(todo[p]).do = PriceCall(EventAt(h, i)).do
      BY <2>3, <3>2, SameDo
    <3>. QED BY <1>4, <3>2, <3>3 DEF WritesPrice, PriceCall
  <2>5. CASE db.events[IdAt(h, i)] = "processed"
    BY <1>2, <2>1, <2>5 DEF PricesHeld, PriceHeld
  <2>6. CASE db.events[IdAt(h, i)] # "processed"
    <3>1. In(p, h, i, Len(CallsAt(h, i)) - 1)
      BY <1>2, <2>2, <2>4, <2>6, MarkedHere DEF Tracks
    <3>2. In(p, h, i, 2)
      <4>1. Len(CallsAt(h, i)) - 1 = 2
        BY <2>3
      <4>. QED BY <3>1, <4>1
    <3>. QED BY <1>2, <2>1, <3>2 DEF PricesHeld, PriceHeld
  <2>. QED BY <2>5, <2>6
<1>. QED BY <1>3, <1>4

Priced == InOrder /\ Tracks /\ PricesHeld /\ \A p \in Processors : Fresh(p)

LEMMA PricedNext == ASSUME OneProcessor PROVE Ingest /\ Priced /\ [Next]_vars => Priced'
<1>. SUFFICES ASSUME Ingest, Priced, [Next]_vars PROVE Priced'
  OBVIOUS
<1>1. InOrder' /\ Tracks'
  BY InOrderNext, TracksNext DEF Priced
<1>2. CASE MapIdentity \/ UNCHANGED vars
  <2>1. chain' = chain /\ db' = db /\ next' = next /\ todo' = todo
    BY <1>2 DEF MapIdentity, vars
  <2>2. \A p, h, i, j : In(p, h, i, j)' <=> In(p, h, i, j)
    BY <2>1, InSame
  <2>3. ASSUME NEW p \in Processors PROVE Fresh(p)'
    <3>1. \A h, i, j : In(p, h, i, j)' => db'.events[IdAt(h, i)] # "processed"
      BY <2>1, <2>2 DEF Priced, Fresh
    <3>. QED BY <2>1, <3>1, FreshSuffices, Zenon
  <2>4. PricesHeld'
    <3>1. \A h \in DOMAIN chain : \A i :
            /\ LastPrice(h, i)
            /\ db'.events[IdAt(h, i)] = "processed" \/ \E p \in Processors : In(p, h, i, 2)'
            => db'.prices[EventAt(h, i).token] = EventAt(h, i).price
      BY <2>1, <2>2 DEF Priced, PricesHeld, PriceHeld
    <3>. QED BY <2>1, <3>1, HeldSuffices, Zenon
  <2>. QED BY <1>1, <2>3, <2>4 DEF Priced
<1>3. ASSUME NEW p \in Processors, Moves(p) PROVE Priced'
  <2>1. PricesHeld'
    BY <1>3, HeldMoves DEF Priced
  <2>2. Fresh(p)'
    BY <1>3, FreshMover DEF Priced, Tracks
  <2>3. \A r \in Processors : r = p
    BY DEF OneProcessor
  <2>4. \A r \in Processors : Fresh(r)'
    BY <2>2, <2>3
  <2>. QED BY <1>1, <2>1, <2>4 DEF Priced
<1>. QED BY <1>2, <1>3, NextMoves

(* Once the checkpoint of one processor has reached the end of the chain,    *)
(* every token has the price that the chain gave it last, through any crash, *)
(* failed call and reconciliation.                                           *)
THEOREM PricesFollow == ASSUME OneProcessor PROVE Spec => []PricesConverge
<1>1. Init => Priced
  <2>. SUFFICES ASSUME Init PROVE Priced
    OBVIOUS
  <2>1. chain \in Chains /\ db = EmptyDatabase(InitialHeight) /\ todo = [p \in Processors |-> <<>>]
    BY DEF Init, Start
  <2>2. \A x \in TxIds : db.events[x] # "processed"
    BY <2>1 DEF EmptyDatabase
  <2>3. \A h \in DOMAIN chain : \A i : EventfulAt(chain[h], i) => IdAt(h, i) \in TxIds
    BY <2>1, EventsAt
  <2>4. \A p \in Processors : \A h, i, j : ~In(p, h, i, j)
    BY <2>1 DEF In
  <2>5. PricesHeld
    BY <2>2, <2>3, <2>4 DEF PricesHeld, LastPrice
  <2>. QED BY <2>4, <2>5, InOrderInit, TracksInit DEF Priced, Fresh
<1>2. Ingest /\ Priced => PricesConverge
  <2>. SUFFICES ASSUME Ingest, Priced, CaughtUp, InitialHeight = 0,
                       NEW x \in Eventful, x.event.name = "NAV_UPDATED",
                       \A y \in Eventful :
                         y.event.name = "NAV_UPDATED" /\ y.event.token = x.event.token => ~Before(x, y)
                PROVE  db.prices[x.event.token] = x.event.price
    BY DEF PricesConverge
  <2>1. PICK h \in DOMAIN chain : \E i : EventfulAt(chain[h], i) /\ x = Tr(h, i)
    BY EventfulPositions
  <2>2. PICK i : EventfulAt(chain[h], i) /\ x = Tr(h, i)
    BY <2>1
  <2>3. x.event = EventAt(h, i) /\ x.at = <<h, i>>
    BY <2>2 DEF Tr, EventAt
  <2>4. ASSUME NEW g \in DOMAIN chain, NEW l, EventfulAt(chain[g], l),
               EventAt(g, l).name = "NAV_UPDATED", EventAt(g, l).token = EventAt(h, i).token
        PROVE  ~(h < g \/ (h = g /\ i < l))
    <3>1. Tr(g, l) \in Eventful
      BY <2>4, EventfulPositions
    <3>2. Tr(g, l).event = EventAt(g, l) /\ Tr(g, l).at = <<g, l>>
      BY DEF Tr, EventAt
    <3>3. ~Before(x, Tr(g, l))
      BY <2>3, <2>4, <3>1, <3>2
    <3>. QED BY <2>3, <3>2, <3>3 DEF Before
  <2>5. LastPrice(h, i)
    BY <2>2, <2>3, <2>4 DEF LastPrice
  <2>6. db.events[IdAt(h, i)] = "processed"
    BY <2>2, AllProcessed
  <2>. QED BY <2>3, <2>5, <2>6 DEF Priced, PricesHeld, PriceHeld
<1>. QED BY <1>1, <1>2, PricedNext, IngestAlways, PTL DEF Spec

-----------------------------------------------------------------------------
(* Rows of the audit trail.                                                  *)

LEMMA LeadOnce ==
  ASSUME chain \in Chains, NEW h, NEW i, NEW a, NEW b, LeadAt(h, i, a), LeadAt(h, i, b)
  PROVE  a = b
<1>. DEFINE q == CallsOf(h)
            n == Len(CallsAt(h, i))
            x == IdAt(h, i)
<1>1. /\ a \in Nat /\ h \in DOMAIN chain /\ EventfulAt(chain[h], i)
      /\ \A m \in 1..n : a + m \in 1..Len(q) /\ q[a + m] = CallsAt(h, i)[m]
      /\ \A k \in 1..Len(q) : q[k] \in {SaveEventOf(x), MarkOf(x)} => a < k
  BY LeadFacts
<1>2. /\ b \in Nat
      /\ \A m \in 1..n : b + m \in 1..Len(q) /\ q[b + m] = CallsAt(h, i)[m]
      /\ \A k \in 1..Len(q) : q[k] \in {SaveEventOf(x), MarkOf(x)} => b < k
  BY LeadFacts
<1>3. n \in Nat /\ 2 <= n /\ CallsAt(h, i)[1] = SaveEventOf(x)
  BY <1>1, EventsAt
<1>. HIDE DEF q, n, x
<1>4. 1 \in 1..n
  BY <1>3
<1>5. a < b + 1
  BY <1>1, <1>2, <1>3, <1>4
<1>6. b < a + 1
  BY <1>1, <1>2, <1>3, <1>4
<1>. QED BY <1>1, <1>2, <1>5, <1>6

(* A processor is at one place. *)
LEMMA InOnce ==
  ASSUME chain \in Chains, NEW p, NEW h, NEW i, NEW j, NEW k, In(p, h, i, j), In(p, h, i, k)
  PROVE  j = k
<1>. DEFINE q == CallsOf(h)
            n == Len(CallsAt(h, i))
            s == todo[p]
<1>1. PICK a : LeadAt(h, i, a) /\ j \in 1..(n - 1) /\ Remains(s, q, a + j)
  BY DEF In
<1>2. PICK b : LeadAt(h, i, b) /\ k \in 1..(n - 1) /\ Remains(s, q, b + k)
  BY DEF In
<1>3. a = b /\ a \in Nat /\ h \in DOMAIN chain /\ EventfulAt(chain[h], i)
  BY <1>1, <1>2, LeadOnce, LeadFacts
<1>4. Len(q) \in Nat
  BY <1>3, CallsOfBlock
<1>. HIDE DEF q, n, s
<1>5. j \in Nat /\ k \in Nat /\ a + j \in Nat /\ a + k \in Nat
  BY <1>1, <1>2, <1>3
<1>6. a + j = a + k
  BY <1>1, <1>2, <1>3, <1>4, <1>5, RemainsOnce
<1>. QED BY <1>3, <1>5, <1>6

(* A call that is made takes it to the next. *)
LEMMA InForward ==
  ASSUME Ingest, NEW p \in Processors, Calls(p), Moves(p), NEW h, NEW i, NEW j, In(p, h, i, j),
         j + 1 # Len(CallsAt(h, i))
  PROVE  In(p, h, i, j + 1)'
<1>. DEFINE q == CallsOf(h)
            n == Len(CallsAt(h, i))
            s == todo'[p]
<1>1. chain' = chain /\ chain \in Chains /\ next'[p] = next[p]
  BY DEF Moves, Ingest, Shape, Calls
<1>2. PICK a : LeadAt(h, i, a) /\ j \in 1..(n - 1) /\ Remains(todo[p], q, a + j) /\ next[p] = h
  BY DEF In
<1>3. /\ a \in Nat /\ h \in DOMAIN chain /\ EventfulAt(chain[h], i)
      /\ \A m \in 1..n : a + m \in 1..Len(q)
  BY <1>1, <1>2, LeadFacts
<1>4. n \in Nat /\ Len(q) \in Nat
  BY <1>1, <1>3, EventsAt, CallsOfBlock
<1>5. j + 1 \in 1..(n - 1) /\ a + j \in Nat /\ (a + j) + 1 = a + (j + 1) /\ n \in 1..n
  <2>1. j + 1 # n
    OBVIOUS
  <2>2. j \in 1..(n - 1) /\ a \in Nat /\ n \in Nat
    BY <1>2, <1>3, <1>4
  <2>. HIDE DEF n
  <2>3. j \in Nat
    BY <2>2
  <2>4. j + 1 <= n - 1
    BY <2>1, <2>2, <2>3
  <2>. QED BY <2>2, <2>3, <2>4
<1>6. Remains(s, q, a + (j + 1))
  <2>1. Remains(s, q, (a + j) + 1)
    <3>. HIDE DEF q
    <3>. QED BY <1>2, <1>5, CallsRemain
  <2>. QED BY <1>5, <2>1
<1>7. s # <<>>
  <2>1. Len(q) = a + (j + 1) + Len(s)
    BY <1>6 DEF Remains
  <2>2. a + n \in 1..Len(q)
    BY <1>3, <1>5
  <2>3. Len(s) # 0
    <3>. HIDE DEF n, q, s
    <3>. QED BY <1>2, <1>3, <1>4, <1>5, <2>1, <2>2
  <2>4. Len(<<>>) = 0
    BY EmptySeq
  <2>. QED BY <2>3, <2>4
<1>. QED BY <1>1, <1>2, <1>5, <1>6, <1>7 DEF In, LeadAt, CallsOf, CallsAt, EventAt, IdAt

(* The row of a decision is written last. *)
LEMMA AuditPlace ==
  ASSUME chain \in Chains, NEW h \in DOMAIN chain, NEW i, EventfulAt(chain[h], i),
         NEW j \in 2..(Len(CallsAt(h, i)) - 1), CallsAt(h, i)[j].do = "InsertAuditTrail"
  PROVE  /\ Decisive(EventAt(h, i)) /\ j = Len(CallsAt(h, i)) - 1
         /\ CallsAt(h, i)[j].tx = IdAt(h, i)
<1>. DEFINE e == EventAt(h, i)
            x == IdAt(h, i)
            q == CallsAt(h, i)
            m == materialize(e, x)
<1>1. x \in TxIds /\ e \in EventOf(x) /\ q = EventCalls(e, x) /\ q[j].do = "InsertAuditTrail"
  BY EventsAt DEF CallsAt
<1>2. j \in 2..(Len(q) - 1)
  OBVIOUS
<1>. HIDE DEF e, x, q
<1>3. /\ Len(m) \in Nat /\ Len(q) = Len(m) + 2
      /\ \A k \in 2..(Len(q) - 1) : k - 1 \in 1..Len(m) /\ q[k] = m[k - 1]
  <2>1. Between(q, m)
    BY <1>1, CallsBetween
  <2>. HIDE DEF m
  <2>. QED BY <2>1, Zenon DEF Between
<1>4. PICK k : k = j - 1
  OBVIOUS
<1>5. k \in 1..Len(m) /\ q[j] = m[k] /\ m[k].do = "InsertAuditTrail"
  BY <1>1, <1>2, <1>3, <1>4
<1>6. /\ Decisive(e) => 1 <= Len(m) /\ DecisionCalls(m, e, x)
      /\ e.name = "REQUESTED" => RequestedCalls(m, e.request)
      /\ e.name = "NAV_UPDATED" => Len(m) = 1 /\ m[1] = PriceCall(e)
      /\ e.name \in {"MINT", "BURN"} =>
           /\ Len(m) = 2 /\ m[1].do = "ResolveFabricIdentity" /\ m[2].do = "UpsertBalanceDelta"
  BY <1>1, MaterializeParts
<1>. HIDE DEF m
<1>7. ASSUME Decisive(e) PROVE j = Len(q) - 1 /\ q[j].tx = x
  <2>1. k = Len(m)
    <3>1. k = Len(m) \/ k \in 1..(Len(m) - 1)
      BY <1>3, <1>5
    <3>. QED BY <1>5, <1>6, <1>7, <3>1 DEF DecisionCalls
  <2>2. q[j] = Audit(e.request, x)
    BY <1>5, <1>6, <1>7, <2>1 DEF DecisionCalls
  <2>3. j = Len(q) - 1
    BY <1>2, <1>3, <1>4, <2>1
  <2>. QED BY <2>2, <2>3 DEF Audit
<1>8. e.name # "REQUESTED"
  <2>1. SUFFICES ASSUME e.name = "REQUESTED" PROVE FALSE
    OBVIOUS
  <2>. DEFINE r == e.request
  <2>2. RequestedCalls(m, r)
    BY <1>6, <2>1
  <2>. HIDE DEF r
  <2>3. k = 1 \/ k = 2 \/ k = Len(m) \/ k \in 3..(Len(m) - 1)
    BY <1>3, <1>5
  <2>4. /\ Resolve(r.requestedBy).do # "InsertAuditTrail"
        /\ \A f, u : Canonicalize(f, u).do # "InsertAuditTrail"
        /\ InsertOperation(r).do # "InsertAuditTrail"
    BY DEF Resolve, Canonicalize, InsertOperation
  <2>. QED BY <1>5, <2>2, <2>3, <2>4 DEF RequestedCalls
<1>9. e.name \notin {"MINT", "BURN"}
  <2>1. SUFFICES ASSUME e.name \in {"MINT", "BURN"} PROVE FALSE
    OBVIOUS
  <2>2. Len(m) = 2 /\ m[1].do = "ResolveFabricIdentity" /\ m[2].do = "UpsertBalanceDelta"
    BY <1>6, <2>1
  <2>3. k = 1 \/ k = 2
    BY <1>5, <2>2
  <2>. QED BY <1>5, <2>2, <2>3
<1>10. e.name # "NAV_UPDATED"
  <2>1. SUFFICES ASSUME e.name = "NAV_UPDATED" PROVE FALSE
    OBVIOUS
  <2>2. Len(m) = 1 /\ m[1] = PriceCall(e)
    BY <1>6, <2>1
  <2>3. k = 1
    BY <1>5, <2>2
  <2>. QED BY <1>5, <2>2, <2>3 DEF PriceCall
<1>11. e.name \in {"MINT", "BURN", "NAV_UPDATED", "REQUESTED", "APPROVED", "REJECTED"}
  BY <1>1 DEF EventOf, Event
<1>12. Decisive(e)
  BY <1>8, <1>9, <1>10, <1>11 DEF Decisive
<1>. QED BY <1>7, <1>12 DEF e, q, x

(* What a step of p does to the audit trail. *)
LEMMA AuditMoves ==
  ASSUME Ingest, NEW p \in Processors, Current(p), Moves(p)
  PROVE  \/ db'.audit = db.audit
         \/ /\ Calls(p) /\ todo[p] # <<>> /\ Head(todo[p]).do = "InsertAuditTrail"
            /\ db'.events = db.events
            /\ Len(db.audit) \in Nat /\ Len(db'.audit) = Len(db.audit) + 1
            /\ \A m \in 1..Len(db.audit) : db'.audit[m] = db.audit[m]
            /\ \E h \in DOMAIN chain : \E i :
                 /\ EventfulAt(chain[h], i) /\ Decisive(EventAt(h, i))
                 /\ db'.audit[Len(db.audit) + 1].tx = IdAt(h, i)
                 /\ In(p, h, i, Len(CallsAt(h, i)) - 2)
<1>1. db \in Database /\ MappingType /\ chain \in Chains
  BY DEF Ingest, Shape
<1>2. SUFFICES ASSUME db'.audit # db.audit
               PROVE  /\ Calls(p) /\ todo[p] # <<>> /\ Head(todo[p]).do = "InsertAuditTrail"
                      /\ db'.events = db.events
                      /\ Len(db.audit) \in Nat /\ Len(db'.audit) = Len(db.audit) + 1
                      /\ \A m \in 1..Len(db.audit) : db'.audit[m] = db.audit[m]
                      /\ \E h \in DOMAIN chain : \E i :
                           /\ EventfulAt(chain[h], i) /\ Decisive(EventAt(h, i))
                           /\ db'.audit[Len(db.audit) + 1].tx = IdAt(h, i)
                           /\ In(p, h, i, Len(CallsAt(h, i)) - 2)
  OBVIOUS
<1>. DEFINE c == Head(todo[p])
            e == db'
<1>3. phase[p] = "running" /\ todo[p] # <<>> /\ Made(db, next[p], c, e) /\ c \in AnyCall
  BY <1>2, MovesWrite DEF Writing, Rehashes
<1>4. c.do \in Writes /\ e = Effect(db, c)
  <2>. HIDE DEF c, e
  <2>1. c.do \notin Writes => e.audit = db.audit
    BY <1>1, <1>3 DEF Made, Database, SaveBlock, SaveTransaction, SaveInvalidTransaction, SaveEvent,
                MarkEventProcessed, UpdateCheckpoint
  <2>2. c.do \in Writes
    BY <1>2, <2>1 DEF e
  <2>. QED BY <1>3, <2>2 DEF Made, Writes
<1>5. PICK x \in TxIds : c \in Projecting(x)
  BY <1>3, <1>4, CallFields DEF Projections
<1>6. AuditStep(db, e, x, c) /\ SameIngest(db, e)
  <2>. HIDE DEF c, e
  <2>. QED BY <1>1, <1>4, <1>5, EffectTyped
<1>7. /\ c.do = "InsertAuditTrail" /\ e.events = db.events
      /\ Len(db.audit) \in Nat /\ Len(e.audit) = Len(db.audit) + 1
      /\ \A m \in 1..Len(db.audit) : e.audit[m] = db.audit[m]
      /\ e.audit[Len(db.audit) + 1].tx = c.tx
  <2>. HIDE DEF c
  <2>. QED BY <1>2, <1>6 DEF AuditStep, SameIngest
<1>8. Calls(p)
  <2>1. db' # db
    BY <1>2
  <2>. QED BY <1>3, <1>7, <2>1 DEF Moves, Does, Idles, Subscribes, Receives, Skips, Completes
<1>9. PICK h, i, j :
        /\ In(p, h, i, j) /\ h \in DOMAIN chain /\ EventfulAt(chain[h], i) /\ j \in Nat
        /\ j + 1 \in 2..(Len(CallsAt(h, i)) - 1) /\ SameCall(c, CallsAt(h, i)[j + 1])
  <2>1. c.do \in Projections
    BY <1>4 DEF Projections
  <2>. HIDE DEF c
  <2>. QED BY <1>3, <2>1, HeadCurrent DEF c
<1>10. c = CallsAt(h, i)[j + 1]
  BY <1>7, <1>9 DEF SameCall
<1>11. Decisive(EventAt(h, i)) /\ j + 1 = Len(CallsAt(h, i)) - 1 /\ c.tx = IdAt(h, i)
  <2>1. CallsAt(h, i)[j + 1].do = "InsertAuditTrail"
    BY <1>7, <1>10
  <2>. QED BY <1>1, <1>9, <1>10, <2>1, AuditPlace
<1>12. In(p, h, i, Len(CallsAt(h, i)) - 2)
  <2>1. Len(CallsAt(h, i)) \in Nat
    BY <1>1, <1>9, EventsAt
  <2>2. j = Len(CallsAt(h, i)) - 2
    BY <1>9, <1>11, <2>1
  <2>. QED BY <1>9, <2>2
<1>. QED BY <1>3, <1>7, <1>8, <1>9, <1>11, <1>12

AuditRows(d, x) == {m \in 1..Len(d.audit) : d.audit[m].tx = x}

(* The processors that have made k calls of an event, and those that have    *)
(* made others.                                                              *)
Marking(h, i, k) == {p \in Processors : In(p, h, i, k)}
Auditing(h, i, k) == {p \in Processors : \E j : In(p, h, i, j) /\ j # k}

(* A step of p moves p only. *)
LEMMA OneMoves ==
  ASSUME NEW P, IsFiniteSet(P), NEW p \in P, NEW S \in SUBSET P, NEW T \in SUBSET P,
         \A r \in P : r # p => (r \in T <=> r \in S)
  PROVE  /\ IsFiniteSet(S) /\ IsFiniteSet(T) /\ Cardinality(S) \in Nat /\ Cardinality(T) \in Nat
         /\ (p \in S <=> p \in T) => S = T
         /\ p \in S /\ p \notin T => Cardinality(S) = Cardinality(T) + 1
         /\ p \notin S /\ p \in T => Cardinality(T) = Cardinality(S) + 1
<1>1. IsFiniteSet(S) /\ IsFiniteSet(T) /\ Cardinality(S) \in Nat /\ Cardinality(T) \in Nat
  BY FS_Subset, FS_CardinalityType
<1>2. (p \in S <=> p \in T) => S = T
  OBVIOUS
<1>3. ASSUME p \in S, p \notin T PROVE Cardinality(S) = Cardinality(T) + 1
  <2>1. S = T \cup {p}
    BY <1>3
  <2>. QED BY <1>1, <1>3, <2>1, FS_AddElement
<1>4. ASSUME p \notin S, p \in T PROVE Cardinality(T) = Cardinality(S) + 1
  <2>1. T = S \cup {p}
    BY <1>4
  <2>. QED BY <1>1, <1>4, <2>1, FS_AddElement
<1>. QED BY <1>1, <1>2, <1>3, <1>4

LEMMA Disjoint ==
  ASSUME NEW P, IsFiniteSet(P), NEW S \in SUBSET P, NEW T \in SUBSET P, S \cap T = {}
  PROVE  Cardinality(S) + Cardinality(T) <= Cardinality(P)
<1>1. /\ IsFiniteSet(S) /\ IsFiniteSet(T) /\ Cardinality(S) \in Nat /\ Cardinality(T) \in Nat
      /\ Cardinality(P) \in Nat
  BY FS_Subset, FS_CardinalityType
<1>2. Cardinality(S \cup T) = Cardinality(S) + Cardinality(T) - Cardinality({})
  BY <1>1, FS_Union
<1>3. Cardinality({}) = 0
  BY FS_EmptySet
<1>4. Cardinality(S \cup T) <= Cardinality(P)
  <2>1. S \cup T \in SUBSET P
    OBVIOUS
  <2>. QED BY <2>1, FS_Subset
<1>. QED BY <1>1, <1>2, <1>3, <1>4

LEMMA AuditRowsFinite ==
  ASSUME NEW d \in Database, NEW x
  PROVE  IsFiniteSet(AuditRows(d, x)) /\ Cardinality(AuditRows(d, x)) \in Nat
<1>1. Len(d.audit) \in Nat
  BY AuditLength
<1>2. IsFiniteSet(1..Len(d.audit))
  BY <1>1, FS_Interval
<1>3. AuditRows(d, x) \in SUBSET (1..Len(d.audit))
  BY DEF AuditRows
<1>. QED BY <1>2, <1>3, FS_Subset, FS_CardinalityType

LEMMA AuditRowsGrow ==
  ASSUME NEW d \in Database, NEW e, NEW x, Len(e.audit) = Len(d.audit) + 1,
         \A m \in 1..Len(d.audit) : e.audit[m] = d.audit[m]
  PROVE  /\ e.audit[Len(d.audit) + 1].tx # x => AuditRows(e, x) = AuditRows(d, x)
         /\ e.audit[Len(d.audit) + 1].tx = x =>
              Cardinality(AuditRows(e, x)) = Cardinality(AuditRows(d, x)) + 1
<1>. DEFINE n == Len(d.audit)
            S == AuditRows(d, x)
            T == AuditRows(e, x)
<1>1. n \in Nat
  BY AuditLength
<1>2. \A m : m \in 1..(n + 1) <=> (m \in 1..n \/ m = n + 1)
  BY <1>1
<1>3. \A m : m \in S <=> m \in 1..n /\ d.audit[m].tx = x
  BY DEF AuditRows
<1>4. \A m : m \in T <=> m \in 1..(n + 1) /\ e.audit[m].tx = x
  BY DEF AuditRows
<1>5. n + 1 \notin S
  BY <1>1, <1>3
<1>6. ASSUME e.audit[n + 1].tx # x PROVE T = S
  <2>1. \A m : m \in T <=> m \in S
    BY <1>2, <1>3, <1>4, <1>6
  <2>. HIDE DEF S, T
  <2>. QED BY <2>1
<1>7. ASSUME e.audit[n + 1].tx = x PROVE Cardinality(T) = Cardinality(S) + 1
  <2>1. \A m : m \in T <=> (m \in S \/ m = n + 1)
    BY <1>2, <1>3, <1>4, <1>7
  <2>2. IsFiniteSet(S)
    BY AuditRowsFinite
  <2>. HIDE DEF S, T
  <2>3. T = S \cup {n + 1}
    BY <2>1
  <2>. QED BY <1>5, <2>2, <2>3, FS_AddElement
<1>. QED BY <1>6, <1>7

(* Before a decision is marked, each of its rows was paid for by a fault, or *)
(* its writer is about to mark (k calls of the event are made); after, no    *)
(* processor comes to write another that had not begun before.               *)
AuditPaid(h, i, k, x) ==
  IF db.events[x] = "processed"
    THEN Cardinality(AuditRows(db, x)) + Cardinality(Auditing(h, i, k))
           <= Cardinality(Processors) + faults
    ELSE Cardinality(AuditRows(db, x)) <= Cardinality(Marking(h, i, k)) + faults

AuditAt(h, i, k, x) ==
  /\ EventfulAt(chain[h], i) /\ Decisive(EventAt(h, i))
  /\ x = IdAt(h, i) /\ k = Len(CallsAt(h, i)) - 1

AuditBounded ==
  \A h \in DOMAIN chain : \A i, k, x : AuditAt(h, i, k, x) => AuditPaid(h, i, k, x)

(* Each row is that of a decision whose event the query model reflects.      *)
AuditLed ==
  \A m \in 1..Len(db.audit) : \E h \in DOMAIN chain : \E i :
    EventfulAt(chain[h], i) /\ Decisive(EventAt(h, i)) /\ db.audit[m].tx = IdAt(h, i)

LEMMA AuditLedSuffices ==
  ASSUME chain' = chain,
         \A m \in 1..Len(db'.audit) : \E h \in DOMAIN chain : \E i :
           /\ EventfulAt(chain[h], i) /\ Decisive(EventAt(h, i))
           /\ db'.audit[m].tx = IdAt(h, i)
  PROVE  AuditLed'
  BY DEF AuditLed, EventAt, IdAt

LEMMA AuditLedMoves ==
  ASSUME Ingest, AuditLed, NEW p \in Processors, Current(p), Moves(p) PROVE AuditLed'
<1>1. chain' = chain
  BY DEF Moves
<1>2. SUFFICES ASSUME NEW m \in 1..Len(db'.audit)
               PROVE  \E h \in DOMAIN chain : \E i :
                        /\ EventfulAt(chain[h], i) /\ Decisive(EventAt(h, i))
                        /\ db'.audit[m].tx = IdAt(h, i)
  BY <1>1, AuditLedSuffices, Zenon
<1>3. CASE m \in 1..Len(db.audit) /\ db'.audit[m] = db.audit[m]
  BY <1>3 DEF AuditLed
<1>4. CASE ~(m \in 1..Len(db.audit) /\ db'.audit[m] = db.audit[m])
  <2>1. db'.audit # db.audit
    BY <1>4
  <2>2. /\ Len(db.audit) \in Nat /\ Len(db'.audit) = Len(db.audit) + 1
        /\ \A k \in 1..Len(db.audit) : db'.audit[k] = db.audit[k]
        /\ \E h \in DOMAIN chain : \E i :
             /\ EventfulAt(chain[h], i) /\ Decisive(EventAt(h, i))
             /\ db'.audit[Len(db.audit) + 1].tx = IdAt(h, i)
    BY <2>1, AuditMoves
  <2>3. m = Len(db.audit) + 1
    BY <1>2, <1>4, <2>2
  <2>. QED BY <2>2, <2>3
<1>. QED BY <1>3, <1>4

(* A processor that has only to mark a decision marks it, or fails. *)
LEMMA MarksOrFails ==
  ASSUME Ingest, NEW p \in Processors, Moves(p), NEW h, NEW i, NEW k, NEW x, h \in DOMAIN chain,
         AuditAt(h, i, k, x), In(p, h, i, k), db'.events[x] # "processed"
  PROVE  faults' = faults + 1
<1>1. chain \in Chains /\ db \in Database /\ todo[p] # <<>>
  BY DEF Ingest, Shape, In
<1>2. phase[p] = "running"
  BY <1>1 DEF Ingest, Shape, Control
<1>. DEFINE c == Head(todo[p])
            n == Len(CallsAt(h, i))
<1>3. n \in Nat /\ CallsAt(h, i)[n] = MarkOf(x) /\ x \in TxIds
  BY <1>1, EventsAt DEF AuditAt
<1>4. SameCall(c, CallsAt(h, i)[k + 1])
  BY <1>1, InHead
<1>5. k + 1 = n
  BY <1>3 DEF AuditAt
<1>6. c = MarkOf(x)
  <2>1. SameCall(c, MarkOf(x))
    BY <1>3, <1>4, <1>5
  <2>. HIDE DEF c
  <2>. QED BY <2>1, OwnAndDo DEF SameCall
<1>7. c.do = "MarkEventProcessed" /\ c.tx = x
  BY <1>6, OwnAndDo
<1>8. ~Blocked(c)
  BY <1>7 DEF Blocked, Malformed
<1>9. ~Calls(p)
  <2>1. SUFFICES ASSUME Calls(p) PROVE FALSE
    OBVIOUS
  <2>. DEFINE e == db'
  <2>2. Made(db, next[p], c, e)
    BY <2>1 DEF Calls
  <2>. HIDE DEF c, e
  <2>3. e = MarkEventProcessed(db, x)
    BY <1>7, <2>2 DEF Made, Writes
  <2>4. e.events[x] = "processed"
    BY <1>1, <1>3, <2>3, EventTyped
  <2>. QED BY <2>4 DEF e
<1>. HIDE DEF c
<1>10. Idles(p)
  BY <1>1, <1>2, <1>7, <1>9 DEF Moves, Does, Subscribes, Receives, Skips, Completes, c
<1>11. faults' # faults
  BY <1>1, <1>2, <1>8, <1>10 DEF Idles, c
<1>. QED BY <1>11 DEF Moves

(* None begins the calls of an event that is marked. *)
LEMMA NoneBegins ==
  ASSUME Ingest, NEW p \in Processors, Moves(p), NEW h, NEW i, NEW j, In(p, h, i, j)',
         db.events[IdAt(h, i)] = "processed"
  PROVE  j # 1
<1>1. SUFFICES ASSUME j = 1 PROVE FALSE
  OBVIOUS
<1>2. chain \in Chains /\ Calls(p) /\ h \in DOMAIN chain /\ EventfulAt(chain[h], i)
        /\ SameCall(Head(todo[p]), CallsAt(h, i)[1])
  BY <1>1, InMover DEF Ingest, Shape
<1>3. CallsAt(h, i)[1] = SaveEventOf(IdAt(h, i))
  BY <1>2, EventsAt
<1>. DEFINE c == Head(todo[p])
            x == IdAt(h, i)
<1>4. c = SaveEventOf(x)
  <2>1. SameCall(c, SaveEventOf(x))
    BY <1>2, <1>3
  <2>. HIDE DEF c, x
  <2>. QED BY <2>1, OwnAndDo DEF SameCall
<1>5. Passes(c)
  BY <1>2 DEF Calls
<1>. HIDE DEF c
<1>. QED BY <1>4, <1>5, OwnAndDo DEF Passes

(* Where the step of p leaves it. *)
LEMMA AuditSteps ==
  ASSUME Ingest, NEW p \in Processors, Current(p), Moves(p), NEW h \in DOMAIN chain, NEW i, NEW k,
         NEW x, AuditAt(h, i, k, x)
  PROVE  /\ ~(In(p, h, i, k) /\ \E j : In(p, h, i, j) /\ j # k)
         /\ db.events[x] = "processed" /\ (\E j : In(p, h, i, j)' /\ j # k)
              => \E j : In(p, h, i, j) /\ j # k
         /\ db.events[x] # "processed" /\ db'.events[x] = "processed"
              => In(p, h, i, k) /\ ~(\E j : In(p, h, i, j)')
         /\ In(p, h, i, k - 1) /\ Calls(p) /\ Head(todo[p]).do = "InsertAuditTrail" =>
              /\ In(p, h, i, k)' /\ ~(\E j : In(p, h, i, j)' /\ j # k)
              /\ ~In(p, h, i, k) /\ \E j : In(p, h, i, j) /\ j # k
<1>. DEFINE n == Len(CallsAt(h, i))
<1>1. /\ chain \in Chains /\ chain' = chain /\ EventfulAt(chain[h], i) /\ x = IdAt(h, i)
      /\ k = n - 1
  BY DEF Ingest, Shape, Moves, AuditAt
<1>2. /\ n \in Nat /\ 2 <= n /\ CallsAt(h, i)[1] = SaveEventOf(x)
      /\ \A m \in 2..(n - 1) : CallsAt(h, i)[m] \in Projecting(x)
  BY <1>1, EventsAt
<1>3. k \in Nat
  BY <1>1, <1>2
<1>4. ~(In(p, h, i, k) /\ \E j : In(p, h, i, j) /\ j # k)
  BY <1>1, InOnce
<1>5. ASSUME NEW j, In(p, h, i, j)'
      PROVE  /\ j \in 1..k /\ SameCall(Head(todo[p]), CallsAt(h, i)[j])
             /\ j # 1 => In(p, h, i, j - 1)
  <2>1. In(p, h, i, j)' => j \in 1..(Len(CallsAt(h, i)) - 1)
    BY <1>1 DEF In, CallsAt, EventAt, IdAt
  <2>. QED BY <1>1, <1>5, <2>1, InMover
<1>6. ASSUME db.events[x] = "processed", NEW j, In(p, h, i, j)', j # k
      PROVE  \E l : In(p, h, i, l) /\ l # k
  <2>1. j # 1
    BY <1>1, <1>6, NoneBegins
  <2>2. In(p, h, i, j - 1) /\ j \in 1..k
    BY <1>5, <1>6, <2>1
  <2>3. j - 1 # k
    BY <1>3, <2>2
  <2>. QED BY <2>2, <2>3
<1>7. ASSUME db.events[x] # "processed", db'.events[x] = "processed"
      PROVE  In(p, h, i, k) /\ ~(\E j : In(p, h, i, j)')
  <2>1. Head(todo[p]) = MarkOf(x) /\ In(p, h, i, k)
    BY <1>1, <1>7, MarkedHere
  <2>2. ASSUME NEW j, In(p, h, i, j)' PROVE FALSE
    <3>1. j \in 1..k /\ SameCall(Head(todo[p]), CallsAt(h, i)[j])
      BY <1>5, <2>2
    <3>2. CallsAt(h, i)[j].do = "MarkEventProcessed"
      BY <2>1, <3>1, SameDo, OwnAndDo
    <3>3. j = 1 \/ j \in 2..(n - 1)
      <4>. HIDE DEF n
      <4>. QED BY <1>1, <1>2, <3>1
    <3>. QED BY <1>2, <3>2, <3>3, OwnAndDo, ProjectingDo DEF Projections, Writes
  <2>. QED BY <2>1, <2>2
<1>8. ASSUME In(p, h, i, k - 1), Calls(p), Head(todo[p]).do = "InsertAuditTrail"
      PROVE  /\ In(p, h, i, k)' /\ ~(\E j : In(p, h, i, j)' /\ j # k)
             /\ ~In(p, h, i, k) /\ \E j : In(p, h, i, j) /\ j # k
  <2>1. k - 1 # k /\ (k - 1) + 1 = k /\ k # n
    BY <1>1, <1>2
  <2>2. In(p, h, i, k)'
    <3>1. (k - 1) + 1 # Len(CallsAt(h, i))
      BY <2>1
    <3>2. PICK m : m = k - 1
      OBVIOUS
    <3>3. In(p, h, i, m + 1)'
      BY <1>8, <3>1, <3>2, InForward
    <3>4. m + 1 = k
      BY <2>1, <3>2
    <3>. QED BY <3>3, <3>4
  <2>3. ASSUME NEW j, In(p, h, i, j)', j # k PROVE FALSE
    <3>1. CASE j = 1
      <4>1. SameCall(Head(todo[p]), SaveEventOf(x))
        BY <1>2, <1>5, <2>3, <3>1
      <4>. QED BY <1>8, <4>1, SameDo, OwnAndDo
    <3>2. CASE j # 1
      <4>1. In(p, h, i, j - 1) /\ j \in 1..k
        BY <1>5, <2>3, <3>2
      <4>2. j - 1 = k - 1
        BY <1>1, <1>8, <4>1, InOnce
      <4>. QED BY <1>3, <2>3, <4>1, <4>2
    <3>. QED BY <3>1, <3>2
  <2>4. ~In(p, h, i, k)
    BY <1>4, <1>8, <2>1
  <2>. QED BY <1>8, <2>1, <2>2, <2>3, <2>4
<1>. QED BY <1>4, <1>6, <1>7, <1>8

LEMMA PaidSuffices ==
  ASSUME NEW h, NEW i, NEW k, NEW x,
         IF db'.events[x] = "processed"
           THEN Cardinality(AuditRows(db', x)) + Cardinality(Auditing(h, i, k)')
                  <= Cardinality(Processors) + faults'
           ELSE Cardinality(AuditRows(db', x)) <= Cardinality(Marking(h, i, k)') + faults'
  PROVE  AuditPaid(h, i, k, x)'
  BY DEF AuditPaid, AuditRows

LEMMA PaidMoves ==
  ASSUME Ingest, Tracks, NEW p \in Processors, Moves(p), NEW h \in DOMAIN chain, NEW i, NEW k, NEW x,
         AuditAt(h, i, k, x), AuditPaid(h, i, k, x)
  PROVE  AuditPaid(h, i, k, x)'
<1>1. /\ chain \in Chains /\ db \in Database /\ x \in TxIds /\ x = IdAt(h, i) /\ EventfulAt(chain[h], i)
      /\ Current(p)
  <2>1. chain \in Chains /\ db \in Database /\ x = IdAt(h, i) /\ EventfulAt(chain[h], i) /\ Current(p)
    BY DEF Ingest, Shape, AuditAt, Tracks
  <2>. QED BY <2>1, EventsAt
<1>2. PICK M : M = Marking(h, i, k)
  OBVIOUS
<1>3. PICK M2 : M2 = Marking(h, i, k)'
  OBVIOUS
<1>4. PICK A : A = Auditing(h, i, k)
  OBVIOUS
<1>5. PICK A2 : A2 = Auditing(h, i, k)'
  OBVIOUS
<1>6. PICK P : P = Processors
  OBVIOUS
<1>7. PICK R : R = Cardinality(AuditRows(db, x))
  OBVIOUS
<1>8. PICK R2 : R2 = Cardinality(AuditRows(db', x))
  OBVIOUS
<1>9. /\ IsFiniteSet(P) /\ p \in P /\ M \in SUBSET P /\ M2 \in SUBSET P /\ A \in SUBSET P
      /\ A2 \in SUBSET P /\ Cardinality(P) \in Nat
  BY <1>2, <1>3, <1>4, <1>5, <1>6, ProcessorsAssumption, FS_CardinalityType DEF Marking, Auditing
<1>10. \A r \in P : r # p => (r \in M2 <=> r \in M) /\ (r \in A2 <=> r \in A)
  <2>. SUFFICES ASSUME NEW r \in Processors, r # p
                PROVE  (r \in M2 <=> r \in M) /\ (r \in A2 <=> r \in A)
    BY <1>6
  <2>1. \A j : In(r, h, i, j)' <=> In(r, h, i, j)
    BY InStayer
  <2>. QED BY <1>2, <1>3, <1>4, <1>5, <2>1 DEF Marking, Auditing
<1>11. /\ IsFiniteSet(M) /\ IsFiniteSet(M2) /\ Cardinality(M) \in Nat /\ Cardinality(M2) \in Nat
       /\ (p \in M <=> p \in M2) => M = M2
       /\ p \in M /\ p \notin M2 => Cardinality(M) = Cardinality(M2) + 1
       /\ p \notin M /\ p \in M2 => Cardinality(M2) = Cardinality(M) + 1
  BY <1>9, <1>10, OneMoves
<1>12. /\ IsFiniteSet(A) /\ IsFiniteSet(A2) /\ Cardinality(A) \in Nat /\ Cardinality(A2) \in Nat
       /\ (p \in A <=> p \in A2) => A = A2
       /\ p \in A /\ p \notin A2 => Cardinality(A) = Cardinality(A2) + 1
       /\ p \notin A /\ p \in A2 => Cardinality(A2) = Cardinality(A) + 1
  BY <1>9, <1>10, OneMoves
<1>13. /\ p \in M <=> In(p, h, i, k)
       /\ p \in M2 <=> In(p, h, i, k)'
       /\ p \in A <=> \E j : In(p, h, i, j) /\ j # k
       /\ p \in A2 <=> \E j : In(p, h, i, j)' /\ j # k
  BY <1>2, <1>3, <1>4, <1>5 DEF Marking, Auditing
<1>14. M \cap A = {}
  <2>1. \A r, j : ~(In(r, h, i, k) /\ In(r, h, i, j) /\ j # k)
    BY <1>1, InOnce
  <2>. QED BY <1>2, <1>4, <2>1 DEF Marking, Auditing
<1>15. /\ p \in A2 /\ db.events[x] = "processed" => p \in A
       /\ db.events[x] # "processed" /\ db'.events[x] = "processed" => p \in M /\ p \notin A2
  BY <1>1, <1>13, AuditSteps
<1>16. faults \in Nat /\ (faults' = faults \/ faults' = faults + 1)
  BY MaxFaultsAssumption DEF Ingest, Shape, Moves
<1>17. R \in Nat
  BY <1>1, <1>7, AuditRowsFinite
<1>18. db.events[x] = "processed" => db'.events[x] = "processed"
  BY <1>1, MovesWrite, WritingGrows DEF Grows
<1>19. /\ db.events[x] = "processed" => R + Cardinality(A) <= Cardinality(P) + faults
       /\ db.events[x] # "processed" => R <= Cardinality(M) + faults
  BY <1>2, <1>4, <1>6, <1>7 DEF AuditPaid
<1>20. SUFFICES /\ db'.events[x] = "processed" => R2 + Cardinality(A2) <= Cardinality(P) + faults'
                /\ db'.events[x] # "processed" => R2 <= Cardinality(M2) + faults'
  <2>1. ASSUME db'.events[x] = "processed" => R2 + Cardinality(A2) <= Cardinality(P) + faults',
               db'.events[x] # "processed" => R2 <= Cardinality(M2) + faults'
        PROVE  IF db'.events[x] = "processed"
                 THEN Cardinality(AuditRows(db', x)) + Cardinality(Auditing(h, i, k)')
                        <= Cardinality(Processors) + faults'
                 ELSE Cardinality(AuditRows(db', x)) <= Cardinality(Marking(h, i, k)') + faults'
    BY <1>3, <1>5, <1>6, <1>8, <2>1
  <2>. QED BY <2>1, PaidSuffices
<1>21. CASE db'.audit # db.audit /\ db'.audit[Len(db.audit) + 1].tx = x
  <2>1. /\ Calls(p) /\ Head(todo[p]).do = "InsertAuditTrail" /\ db'.events = db.events
        /\ Len(db'.audit) = Len(db.audit) + 1
        /\ \A m \in 1..Len(db.audit) : db'.audit[m] = db.audit[m]
        /\ \E g \in DOMAIN chain : \E l :
             /\ EventfulAt(chain[g], l) /\ db'.audit[Len(db.audit) + 1].tx = IdAt(g, l)
             /\ In(p, g, l, Len(CallsAt(g, l)) - 2)
    BY <1>1, <1>21, AuditMoves
  <2>2. PICK g \in DOMAIN chain : \E l :
          EventfulAt(chain[g], l) /\ x = IdAt(g, l) /\ In(p, g, l, Len(CallsAt(g, l)) - 2)
    BY <1>21, <2>1
  <2>3. PICK l : EventfulAt(chain[g], l) /\ x = IdAt(g, l) /\ In(p, g, l, Len(CallsAt(g, l)) - 2)
    BY <2>2
  <2>4. g = h /\ l = i
    BY <1>1, <2>3, EventfulOnce DEF IdAt
  <2>5. In(p, h, i, k - 1)
    <3>1. Len(CallsAt(h, i)) \in Nat /\ k = Len(CallsAt(h, i)) - 1
      BY <1>1, EventsAt DEF AuditAt
    <3>2. Len(CallsAt(h, i)) - 2 = k - 1
      BY <3>1
    <3>. QED BY <2>3, <2>4, <3>2
  <2>6. p \notin M /\ p \in M2 /\ p \in A /\ p \notin A2
    BY <1>1, <1>13, <2>1, <2>5, AuditSteps
  <2>7. R2 = R + 1
    <3>. DEFINE e == db'
    <3>1. /\ Len(e.audit) = Len(db.audit) + 1
          /\ \A m \in 1..Len(db.audit) : e.audit[m] = db.audit[m]
          /\ e.audit[Len(db.audit) + 1].tx = x
      BY <1>21, <2>1
    <3>2. R2 = Cardinality(AuditRows(e, x))
      BY <1>8
    <3>. HIDE DEF e
    <3>. QED BY <1>1, <1>7, <3>1, <3>2, AuditRowsGrow
  <2>8. db'.events[x] = db.events[x]
    BY <2>1
  <2>. QED BY <1>11, <1>12, <1>16, <1>17, <1>19, <1>9, <2>6, <2>7, <2>8
<1>22. CASE ~(db'.audit # db.audit /\ db'.audit[Len(db.audit) + 1].tx = x)
  <2>1. R2 = R
    <3>1. CASE db'.audit = db.audit
      BY <1>7, <1>8, <3>1 DEF AuditRows
    <3>2. CASE db'.audit # db.audit
      <4>. DEFINE e == db'
      <4>1. /\ Len(e.audit) = Len(db.audit) + 1
            /\ \A m \in 1..Len(db.audit) : e.audit[m] = db.audit[m]
            /\ e.audit[Len(db.audit) + 1].tx # x
        BY <1>1, <1>22, <3>2, AuditMoves
      <4>2. R2 = Cardinality(AuditRows(e, x))
        BY <1>8
      <4>. HIDE DEF e
      <4>3. AuditRows(e, x) = AuditRows(db, x)
        BY <1>1, <4>1, AuditRowsGrow
      <4>. QED BY <1>7, <4>2, <4>3
    <3>. QED BY <3>1, <3>2
  <2>2. CASE db.events[x] = "processed"
    <3>1. p \in A2 => p \in A
      BY <1>15, <2>2
    <3>2. Cardinality(A2) <= Cardinality(A)
      <4>1. (p \in A <=> p \in A2) => Cardinality(A) = Cardinality(A2)
        BY <1>12
      <4>. QED BY <1>12, <3>1, <4>1
    <3>. QED BY <1>9, <1>12, <1>16, <1>17, <1>18, <1>19, <2>1, <2>2, <3>2
  <2>3. CASE db.events[x] # "processed" /\ db'.events[x] = "processed"
    <3>1. M \cap A2 = {}
      <4>1. p \notin A2
        BY <1>15, <2>3
      <4>. QED BY <1>9, <1>10, <1>14, <4>1
    <3>2. Cardinality(M) + Cardinality(A2) <= Cardinality(P)
      BY <1>9, <3>1, Disjoint
    <3>. QED BY <1>9, <1>11, <1>12, <1>16, <1>17, <1>19, <2>1, <2>3, <3>2
  <2>4. CASE db.events[x] # "processed" /\ db'.events[x] # "processed"
    <3>1. p \in M /\ p \notin M2 => faults' = faults + 1
      BY <1>13, <2>4, MarksOrFails
    <3>2. (p \in M <=> p \in M2) => Cardinality(M) = Cardinality(M2)
      BY <1>11
    <3>3. Cardinality(M) + faults <= Cardinality(M2) + faults'
      BY <1>11, <1>16, <3>1, <3>2
    <3>. QED BY <1>11, <1>16, <1>17, <1>19, <2>1, <2>4, <3>3
  <2>. QED BY <1>18, <2>2, <2>3, <2>4
<1>. QED BY <1>21, <1>22

Auditable == Tracks /\ AuditLed /\ AuditBounded

LEMMA BoundedSuffices ==
  ASSUME chain' = chain,
         \A h \in DOMAIN chain : \A i, k, x : AuditAt(h, i, k, x) => AuditPaid(h, i, k, x)'
  PROVE  AuditBounded'
  BY DEF AuditBounded, AuditAt, CallsAt, EventAt, IdAt

LEMMA AuditableNext == Ingest /\ Auditable /\ [Next]_vars => Auditable'
<1>. SUFFICES ASSUME Ingest, Auditable, [Next]_vars PROVE Auditable'
  OBVIOUS
<1>1. Tracks'
  BY TracksNext DEF Auditable
<1>2. CASE MapIdentity \/ UNCHANGED vars
  <2>1. chain' = chain /\ db' = db /\ next' = next /\ todo' = todo /\ faults' = faults
    BY <1>2 DEF MapIdentity, vars
  <2>2. \A p, h, i, j : In(p, h, i, j)' <=> In(p, h, i, j)
    BY <2>1, InSame
  <2>3. ASSUME NEW h \in DOMAIN chain, NEW i, NEW k, NEW x, AuditAt(h, i, k, x)
        PROVE  AuditPaid(h, i, k, x)'
    <3>1. Marking(h, i, k)' = Marking(h, i, k) /\ Auditing(h, i, k)' = Auditing(h, i, k)
      BY <2>2 DEF Marking, Auditing
    <3>2. AuditPaid(h, i, k, x)
      BY <2>3 DEF Auditable, AuditBounded
    <3>3. AuditRows(db', x) = AuditRows(db, x) /\ db'.events[x] = db.events[x]
      BY <2>1
    <3>. QED BY <2>1, <3>1, <3>2, <3>3, PaidSuffices DEF AuditPaid
  <2>4. AuditBounded'
    BY <2>1, <2>3, BoundedSuffices, Zenon
  <2>5. AuditLed'
    BY <2>1, AuditLedSuffices DEF Auditable, AuditLed
  <2>. QED BY <1>1, <2>4, <2>5 DEF Auditable
<1>3. ASSUME NEW p \in Processors, Moves(p) PROVE Auditable'
  <2>1. chain' = chain
    BY <1>3 DEF Moves
  <2>2. AuditLed'
    BY <1>3, AuditLedMoves DEF Auditable, Tracks
  <2>3. \A h \in DOMAIN chain : \A i, k, x : AuditAt(h, i, k, x) => AuditPaid(h, i, k, x)'
    BY <1>3, PaidMoves DEF Auditable, AuditBounded
  <2>4. AuditBounded'
    BY <2>1, <2>3, BoundedSuffices, Zenon
  <2>. QED BY <1>1, <2>2, <2>4 DEF Auditable
<1>. QED BY <1>2, <1>3, NextMoves

LEMMA AuditableInit == Init => Auditable
<1>. SUFFICES ASSUME Init PROVE Auditable
  OBVIOUS
<1>1. Tracks
  BY TracksInit
<1>2. /\ db.audit = <<>> /\ Len(db.audit) = 0 /\ faults = 0
      /\ \A x \in TxIds : db.events[x] # "processed"
  BY DEF Init, Start, EmptyDatabase
<1>3. chain \in Chains
  BY DEF Init, Start
<1>4. AuditLed
  BY <1>2 DEF AuditLed
<1>5. ASSUME NEW h \in DOMAIN chain, NEW i, NEW k, NEW x, AuditAt(h, i, k, x)
      PROVE  AuditPaid(h, i, k, x)
  <2>1. x \in TxIds
    BY <1>3, <1>5, EventsAt DEF AuditAt
  <2>2. Cardinality(AuditRows(db, x)) = 0
    <3>1. AuditRows(db, x) = {}
      BY <1>2 DEF AuditRows
    <3>. QED BY <3>1, FS_EmptySet
  <2>3. Cardinality(Marking(h, i, k)) \in Nat
    BY ProcessorsAssumption, FS_Subset, FS_CardinalityType DEF Marking
  <2>. QED BY <1>2, <2>1, <2>2, <2>3 DEF AuditPaid
<1>. QED BY <1>1, <1>4, <1>5, Zenon DEF Auditable, AuditBounded

(* A decision that is processed has its row. *)
LEMMA DecisionAudited ==
  ASSUME chain \in Chains, Landed, NEW h \in DOMAIN chain, NEW i, EventfulAt(chain[h], i),
         db.events[IdAt(h, i)] = "processed", Decisive(EventAt(h, i))
  PROVE  \E m \in 1..Len(db.audit) : db.audit[m].tx = IdAt(h, i)
<1>. DEFINE e == EventAt(h, i)
            x == IdAt(h, i)
            q == CallsAt(h, i)
            mat == materialize(e, x)
<1>1. x \in TxIds /\ e \in EventOf(x) /\ q = EventCalls(e, x)
  BY EventsAt DEF CallsAt
<1>2. \A m \in 2..(Len(q) - 1) : Lasting(db, q[m])
  BY DEF Landed
<1>3. Decisive(e)
  OBVIOUS
<1>. HIDE DEF e, x, q
<1>4. /\ Len(mat) \in Nat
      /\ \A k \in 1..Len(mat) : k + 1 \in 2..(Len(q) - 1) /\ q[k + 1] = mat[k]
  BY <1>1, CallsOfEvent
<1>5. 1 <= Len(mat) /\ mat[Len(mat)] = Audit(e.request, x)
  BY <1>1, <1>3, MaterializeParts DEF DecisionCalls
<1>. HIDE DEF mat
<1>6. Lasting(db, Audit(e.request, x))
  <2>1. Len(mat) \in 1..Len(mat)
    BY <1>4, <1>5
  <2>. QED BY <1>2, <1>4, <1>5, <2>1
<1>. DEFINE c == Audit(e.request, x)
<1>7. c.do = "InsertAuditTrail" /\ c.tx = x
  BY DEF Audit
<1>. HIDE DEF c
<1>8. \E m \in 1..Len(db.audit) : db.audit[m].tx = x
  BY <1>6, <1>7 DEF Lasting, c
<1>. QED BY <1>8 DEF x

(* The audit trail has a row for every decision that is processed, and of    *)
(* each at most one more per further processor and per fault; of a           *)
(* transaction that is no decision, or of one not yet processed, it has no   *)
(* more rows than there were faults.                                         *)
THEOREM AuditFollows == Spec => []AuditMatchesProcessed
<1>1. Ingest /\ Auditable => AuditMatchesProcessed
  <2>. SUFFICES ASSUME Ingest, Auditable, Settled PROVE AuditMatchesProcessed
    BY DEF AuditMatchesProcessed
  <2>. DEFINE xs == {x \in Projected : x.event.name \in {"APPROVED", "REJECTED"}}
  <2>1. /\ chain \in Chains /\ db \in Database /\ faults \in Nat /\ Landed
    BY DEF Ingest, Shape, Control, Auditable, Tracks
  <2>2. Cardinality(Processors) \in Nat
    BY ProcessorsAssumption, FS_CardinalityType
  <2>3. ASSUME NEW id \in TxIds
        PROVE  Cardinality({i \in DOMAIN db.audit : db.audit[i].tx = id}) \in
                 Cardinality({x \in xs : x.id = id}) ..
                   Cardinality({x \in xs : x.id = id}) * Cardinality(Processors) + faults
    <3>. DEFINE D == {x \in xs : x.id = id}
                R == AuditRows(db, id)
                n == Cardinality(Processors)
                Here(h, i) == /\ EventfulAt(chain[h], i) /\ Decisive(EventAt(h, i))
                              /\ IdAt(h, i) = id
    <3>1. {i \in DOMAIN db.audit : db.audit[i].tx = id} = R
      BY <2>1, AuditLength DEF AuditRows
    <3>2. Cardinality(R) \in Nat /\ IsFiniteSet(R)
      BY <2>1, AuditRowsFinite
    <3>3. \A x \in D : \E h \in DOMAIN chain : \E i :
            Here(h, i) /\ x = Tr(h, i) /\ db.events[id] = "processed"
      <4>. SUFFICES ASSUME NEW x \in D
                    PROVE  \E h \in DOMAIN chain : \E i :
                             Here(h, i) /\ x = Tr(h, i) /\ db.events[id] = "processed"
        OBVIOUS
      <4>1. x \in Eventful /\ db.events[id] = "processed" /\ x.id = id
              /\ x.event.name \in {"APPROVED", "REJECTED"}
        BY DEF Projected
      <4>2. PICK h \in DOMAIN chain : \E i : EventfulAt(chain[h], i) /\ x = Tr(h, i)
        BY <4>1, EventfulPositions
      <4>3. PICK i : EventfulAt(chain[h], i) /\ x = Tr(h, i)
        BY <4>2
      <4>4. x.id = IdAt(h, i) /\ x.event = EventAt(h, i)
        BY <4>3 DEF Tr, IdAt, EventAt
      <4>. QED BY <4>1, <4>3, <4>4 DEF Decisive
    <3>4. \A m \in R : \E h \in DOMAIN chain : \E i : Here(h, i)
      BY DEF Auditable, AuditLed, AuditRows
    <3>5. CASE \E h \in DOMAIN chain : \E i : Here(h, i)
      <4>1. PICK h \in DOMAIN chain : \E i : Here(h, i)
        BY <3>5
      <4>2. PICK i : Here(h, i)
        BY <4>1
      <4>3. \A g \in DOMAIN chain : \A l : Here(g, l) => g = h /\ l = i
        BY <2>1, <4>2, EventfulOnce DEF IdAt
      <4>4. PICK k : AuditAt(h, i, k, id)
        BY <4>2 DEF AuditAt
      <4>5. AuditPaid(h, i, k, id)
        BY <4>4 DEF Auditable, AuditBounded
      <4>6. Marking(h, i, k) = {} /\ Auditing(h, i, k) = {}
        BY DEF Settled, Marking, Auditing, In
      <4>7. Cardinality({}) = 0
        BY FS_EmptySet
      <4>8. CASE db.events[id] = "processed"
        <5>1. D = {Tr(h, i)}
          <6>1. Tr(h, i) \in D
            <7>1. Tr(h, i) \in Eventful
              BY <4>2, EventfulPositions
            <7>2. Tr(h, i).id = id /\ Tr(h, i).event = EventAt(h, i)
              BY <4>2 DEF Tr, IdAt, EventAt
            <7>. QED BY <4>2, <4>8, <7>1, <7>2 DEF Projected, Decisive
          <6>2. \A x \in D : x = Tr(h, i)
            BY <3>3, <4>3
          <6>. HIDE DEF D
          <6>. QED BY <6>1, <6>2
        <5>2. Cardinality(D) = 1
          <6>. HIDE DEF D
          <6>. QED BY <5>1, FS_Singleton
        <5>3. Cardinality(R) <= n + faults
          BY <2>1, <2>2, <3>2, <4>5, <4>6, <4>7, <4>8 DEF AuditPaid
        <5>4. Cardinality(R) # 0
          <6>1. \E m \in 1..Len(db.audit) : db.audit[m].tx = id
            BY <2>1, <4>2, <4>8, DecisionAudited
          <6>2. R # {}
            BY <6>1 DEF AuditRows
          <6>. HIDE DEF R
          <6>. QED BY <3>2, <6>2, FS_EmptySet
        <5>. HIDE DEF D, R, n
        <5>5. n \in Nat
          BY <2>2 DEF n
        <5>6. Cardinality(R) \in Cardinality(D) .. Cardinality(D) * n + faults
          BY <2>1, <3>2, <5>2, <5>3, <5>4, <5>5
        <5>. QED BY <3>1, <5>6 DEF D, n
      <4>9. CASE db.events[id] # "processed"
        <5>1. Cardinality(D) = 0
          <6>1. D = {}
            BY <3>3, <4>9
          <6>. HIDE DEF D
          <6>. QED BY <6>1, FS_EmptySet
        <5>2. Cardinality(R) <= faults
          BY <2>1, <3>2, <4>5, <4>6, <4>7, <4>9 DEF AuditPaid
        <5>. HIDE DEF D, R, n
        <5>3. n \in Nat
          BY <2>2 DEF n
        <5>4. Cardinality(R) \in Cardinality(D) .. Cardinality(D) * n + faults
          BY <2>1, <3>2, <5>1, <5>2, <5>3
        <5>. QED BY <3>1, <5>4 DEF D, n
      <4>. QED BY <4>8, <4>9
    <3>6. CASE ~ \E h \in DOMAIN chain : \E i : Here(h, i)
      <4>1. D = {} /\ R = {}
        <5>1. D = {}
          BY <3>3, <3>6
        <5>2. R = {}
          BY <3>4, <3>6
        <5>. QED BY <5>1, <5>2
      <4>2. Cardinality(D) = 0 /\ Cardinality(R) = 0
        <5>. HIDE DEF D, R
        <5>. QED BY <4>1, FS_EmptySet
      <4>. HIDE DEF D, R, n
      <4>3. n \in Nat
        BY <2>2 DEF n
      <4>4. Cardinality(R) \in Cardinality(D) .. Cardinality(D) * n + faults
        BY <2>1, <4>2, <4>3
      <4>. QED BY <3>1, <4>4 DEF D, n
    <3>. QED BY <3>5, <3>6
  <2>. QED BY <2>3 DEF AuditMatchesProcessed
<1>. QED BY <1>1, AuditableInit, AuditableNext, IngestAlways, PTL DEF Spec

-----------------------------------------------------------------------------
(* Operations by owner.                                                      *)

(* Only the owner of tokens asks for anything to be done with them.          *)
OwnersRequest ==
  \A c \in Chains : \A h \in DOMAIN c : \A i :
    EventfulAt(c[h], i) /\ OurEvent(c[h].data[i]).name = "REQUESTED" =>
      OurEvent(c[h].data[i]).request.requestedBy = OurEvent(c[h].data[i]).request.owner

Requests(h, i) == EventfulAt(chain[h], i) /\ EventAt(h, i).name = "REQUESTED"

LEMMA RequestEvents ==
  ASSUME chain \in Chains, NEW h \in DOMAIN chain, NEW i, Requests(h, i),
         NEW q, q = CallsAt(h, i), NEW r, r = EventAt(h, i).request
  PROVE  /\ Len(q) \in Nat /\ 5 <= Len(q) /\ q[2] = Resolve(r.requestedBy)
         /\ q[3] = Canonicalize("owner", r.owner) /\ q[Len(q) - 1] = InsertOperation(r)
         /\ \A k \in 4..(Len(q) - 2) : q[k] = Canonicalize("counterparty", r.counterparty)
<1>. DEFINE e == EventAt(h, i)
            x == IdAt(h, i)
            m == materialize(e, x)
<1>1. x \in TxIds /\ e \in EventOf(x) /\ q = EventCalls(e, x) /\ e.name = "REQUESTED" /\ r = e.request
  BY EventsAt DEF CallsAt, Requests
<1>. HIDE DEF e, x
<1>2. RequestedCalls(m, r)
  BY <1>1, MaterializeParts
<1>3. /\ Len(m) \in Nat /\ Len(q) = Len(m) + 2
      /\ \A k \in 1..Len(m) : k + 1 \in 2..(Len(q) - 1) /\ q[k + 1] = m[k]
      /\ \A k \in 2..(Len(q) - 1) : k - 1 \in 1..Len(m) /\ q[k] = m[k - 1]
  <2>1. Between(q, m)
    BY <1>1, CallsBetween
  <2>. HIDE DEF m
  <2>. QED BY <2>1, Zenon DEF Between
<1>. HIDE DEF m
<1>4. 3 <= Len(m)
  BY <1>2 DEF RequestedCalls
<1>5. q[1 + 1] = m[1] /\ q[2 + 1] = m[2] /\ q[Len(m) + 1] = m[Len(m)]
  BY <1>3, <1>4
<1>6. \A k \in 4..(Len(q) - 2) : q[k] = m[k - 1] /\ k - 1 \in 3..(Len(m) - 1)
  BY <1>3
<1>7. Len(q) - 1 = Len(m) + 1
  BY <1>3
<1>. QED BY <1>2, <1>3, <1>4, <1>5, <1>6, <1>7 DEF RequestedCalls

(* The operation of a request is inserted by its last statement. *)
LEMMA InsertPlace ==
  ASSUME chain \in Chains, NEW h \in DOMAIN chain, NEW i, EventfulAt(chain[h], i),
         NEW j \in 2..(Len(CallsAt(h, i)) - 1), CallsAt(h, i)[j].do = "InsertOperationFromEvent"
  PROVE  Requests(h, i) /\ j = Len(CallsAt(h, i)) - 1
<1>. DEFINE e == EventAt(h, i)
            x == IdAt(h, i)
            q == CallsAt(h, i)
            m == materialize(e, x)
<1>1. x \in TxIds /\ e \in EventOf(x) /\ q = EventCalls(e, x) /\ q[j].do = "InsertOperationFromEvent"
  BY EventsAt DEF CallsAt
<1>2. j \in 2..(Len(q) - 1)
  OBVIOUS
<1>. HIDE DEF e, x, q
<1>3. /\ Len(m) \in Nat /\ Len(q) = Len(m) + 2
      /\ \A k \in 2..(Len(q) - 1) : k - 1 \in 1..Len(m) /\ q[k] = m[k - 1]
  <2>1. Between(q, m)
    BY <1>1, CallsBetween
  <2>. HIDE DEF m
  <2>. QED BY <2>1, Zenon DEF Between
<1>4. PICK k : k = j - 1
  OBVIOUS
<1>5. k \in 1..Len(m) /\ m[k].do = "InsertOperationFromEvent"
  BY <1>1, <1>2, <1>3, <1>4
<1>6. /\ Decisive(e) => 1 <= Len(m) /\ DecisionCalls(m, e, x)
      /\ e.name = "REQUESTED" => RequestedCalls(m, e.request)
      /\ e.name = "NAV_UPDATED" => Len(m) = 1 /\ m[1] = PriceCall(e)
      /\ e.name \in {"MINT", "BURN"} =>
           /\ Len(m) = 2 /\ m[1].do = "ResolveFabricIdentity" /\ m[2].do = "UpsertBalanceDelta"
  BY <1>1, MaterializeParts
<1>. HIDE DEF m
<1>7. e.name = "REQUESTED"
  <2>1. ~Decisive(e)
    <3>1. SUFFICES ASSUME Decisive(e) PROVE FALSE
      OBVIOUS
    <3>2. k = Len(m) \/ k \in 1..(Len(m) - 1)
      BY <1>3, <1>5
    <3>. QED BY <1>5, <1>6, <3>1, <3>2 DEF DecisionCalls, Audit
  <2>2. e.name # "NAV_UPDATED"
    <3>1. SUFFICES ASSUME e.name = "NAV_UPDATED" PROVE FALSE
      OBVIOUS
    <3>2. Len(m) = 1 /\ m[1] = PriceCall(e)
      BY <1>6, <3>1
    <3>3. k = 1
      BY <1>5, <3>2
    <3>. QED BY <1>5, <3>2, <3>3 DEF PriceCall
  <2>3. e.name \notin {"MINT", "BURN"}
    <3>1. SUFFICES ASSUME e.name \in {"MINT", "BURN"} PROVE FALSE
      OBVIOUS
    <3>2. Len(m) = 2 /\ m[1].do = "ResolveFabricIdentity" /\ m[2].do = "UpsertBalanceDelta"
      BY <1>6, <3>1
    <3>3. k = 1 \/ k = 2
      BY <1>5, <3>2
    <3>. QED BY <1>5, <3>2, <3>3
  <2>4. e.name \in {"MINT", "BURN", "NAV_UPDATED", "REQUESTED", "APPROVED", "REJECTED"}
    BY <1>1 DEF EventOf, Event
  <2>. QED BY <2>1, <2>2, <2>3, <2>4 DEF Decisive
<1>8. k = Len(m)
  <2>. DEFINE r == e.request
  <2>1. RequestedCalls(m, r)
    BY <1>6, <1>7
  <2>. HIDE DEF r
  <2>2. k = 1 \/ k = 2 \/ k = Len(m) \/ k \in 3..(Len(m) - 1)
    BY <1>3, <1>5
  <2>3. /\ Resolve(r.requestedBy).do # "InsertOperationFromEvent"
        /\ \A f, u : Canonicalize(f, u).do # "InsertOperationFromEvent"
    BY DEF Resolve, Canonicalize
  <2>. QED BY <1>5, <2>1, <2>2, <2>3 DEF RequestedCalls
<1>9. j = Len(q) - 1
  BY <1>2, <1>3, <1>4, <1>8
<1>. QED BY <1>7, <1>9 DEF e, q, Requests

(* A processor that is past its requester has found the user. *)
Resolved ==
  \A p \in Processors : \A h, i, j :
    In(p, h, i, j) /\ Requests(h, i) /\ 2 <= j => mapping[EventAt(h, i).request.requestedBy] # Nil

LEMMA ResolvedSuffices ==
  ASSUME chain' = chain,
         \A p \in Processors : \A h, i, j :
           In(p, h, i, j)' /\ Requests(h, i) /\ 2 <= j
             => mapping'[EventAt(h, i).request.requestedBy] # Nil
  PROVE  Resolved'
  BY DEF Resolved, Requests, EventAt

LEMMA ResolvedMoves ==
  ASSUME Ingest, Resolved, NEW p \in Processors, Moves(p) PROVE Resolved'
<1>1. chain' = chain /\ mapping' = mapping /\ chain \in Chains
  BY DEF Moves, Ingest, Shape
<1>2. SUFFICES ASSUME NEW r \in Processors, NEW h, NEW i, NEW j, In(r, h, i, j)',
                      Requests(h, i), 2 <= j
               PROVE  mapping[EventAt(h, i).request.requestedBy] # Nil
  BY <1>1, ResolvedSuffices
<1>3. CASE r # p
  <2>1. In(r, h, i, j)
    BY <1>2, <1>3, InStayer
  <2>. QED BY <1>2, <2>1 DEF Resolved
<1>4. CASE r = p
  <2>1. /\ Calls(p) /\ h \in DOMAIN chain /\ j \in Nat /\ j \in 1..Len(CallsAt(h, i))
        /\ SameCall(Head(todo[p]), CallsAt(h, i)[j])
        /\ j # 1 => In(p, h, i, j - 1)
    BY <1>2, <1>4, InMover
  <2>2. CASE j = 2
    <3>. DEFINE c == Head(todo[p])
                u == EventAt(h, i).request.requestedBy
    <3>1. CallsAt(h, i)[2] = Resolve(u)
      BY <1>1, <1>2, <2>1, RequestEvents
    <3>2. SameCall(c, Resolve(u)) /\ Passes(c)
      BY <2>1, <2>2, <3>1 DEF Calls
    <3>. HIDE DEF c, u
    <3>3. c = Resolve(u)
      BY <3>2 DEF SameCall, Resolve
    <3>4. mapping[u] # Nil
      BY <3>2, <3>3 DEF Passes, Blocked, Resolve
    <3>. QED BY <3>4 DEF u
  <2>3. CASE j # 2
    <3>1. In(p, h, i, j - 1) /\ 2 <= j - 1
      BY <1>2, <2>1, <2>3
    <3>. QED BY <1>2, <3>1 DEF Resolved
  <2>. QED BY <2>2, <2>3
<1>. QED BY <1>3, <1>4

LEMMA ResolvedNext == Ingest /\ Resolved /\ [Next]_vars => Resolved'
<1>. SUFFICES ASSUME Ingest, Resolved, [Next]_vars PROVE Resolved'
  OBVIOUS
<1>1. ASSUME NEW p \in Processors, Moves(p) PROVE Resolved'
  BY <1>1, ResolvedMoves
<1>2. CASE MapIdentity \/ UNCHANGED vars
  <2>1. /\ chain' = chain /\ next' = next /\ todo' = todo /\ chain \in Chains
        /\ mapping \in [Identities -> Users \cup {Nil}]
    BY <1>2 DEF MapIdentity, vars, Ingest, Shape, MappingType
  <2>2. \A u \in Identities : mapping[u] # Nil => mapping'[u] # Nil
    BY <1>2, <2>1, NilAssumption DEF MapIdentity, vars
  <2>3. SUFFICES ASSUME NEW r \in Processors, NEW h, NEW i, NEW j, In(r, h, i, j)',
                        Requests(h, i), 2 <= j
                 PROVE  mapping'[EventAt(h, i).request.requestedBy] # Nil
    BY <2>1, ResolvedSuffices
  <2>4. In(r, h, i, j)
    BY <2>1, <2>3, InSame
  <2>5. mapping[EventAt(h, i).request.requestedBy] # Nil
    BY <2>3, <2>4 DEF Resolved
  <2>6. EventAt(h, i).request.requestedBy \in Identities
    <3>1. h \in DOMAIN chain /\ EventAt(h, i) \in EventOf(IdAt(h, i))
      BY <2>1, <2>3, <2>4, InHead, EventsAt DEF Requests
    <3>. QED BY <2>3, <3>1 DEF Requests, EventOf, Event, Request
  <2>. QED BY <2>2, <2>5, <2>6
<1>. QED BY <1>1, <1>2, NextMoves

(* The row of operation y lacks its owner's user. *)
Foreign(d, y) == d.operations[y] # Nil /\ d.operations[y].owner \notin Users
Unlisted(d) == {y \in TxIds : Foreign(d, y)}

(* What a statement does to the owners. *)
LEMMA EffectOwners ==
  ASSUME MappingType, NEW d \in Database, NEW x \in TxIds, NEW c \in Projecting(x),
         c.do \in Writes, NEW e, e = Effect(d, c), NEW y \in TxIds, Foreign(e, y), ~Foreign(d, y)
  PROVE  /\ c.do = "InsertOperationFromEvent" /\ y = x /\ c.row.owner \notin Users
         /\ \A z \in TxIds : z # y => e.operations[z] = d.operations[z]
<1>1. OperationsStep(d, e, x, c) /\ d.operations \in [TxIds -> Operation \cup {Nil}]
  BY EffectTyped DEF Database
<1>2. e.operations[y] # d.operations[y]
  BY DEF Foreign
<1>3. CASE d.operations[y] = Nil /\ y = x /\ c.do = "InsertOperationFromEvent"
  <2>. DEFINE row == [c.row EXCEPT !.requestedBy = mapping[c.row.requestedBy]]
  <2>1. c.id = x /\ c.row \in Row
    BY <1>3, WriteFields
  <2>2. mapping[c.row.requestedBy] \in Users \cup {Nil}
    BY <2>1 DEF MappingType, Row
  <2>3. row \in Operation /\ row.owner = c.row.owner
    BY <2>1, <2>2 DEF Row, Operation
  <2>4. e = InsertOperationFromEvent(d, x, row)
    BY <1>3, <2>1 DEF Effect, Writes
  <2>. HIDE DEF row
  <2>5. /\ e.operations[x] = row
        /\ \A z \in TxIds : z # x => e.operations[z] = d.operations[z]
    BY <1>3, <2>3, <2>4, InsertOperationTyped
  <2>. QED BY <1>3, <2>3, <2>5 DEF Foreign
<1>4. CASE d.operations[y] # Nil /\ c.do = "SetOperationStatus" /\ y = c.id
  <2>1. e = SetOperationStatus(d, y, c.status)
    BY <1>4 DEF Effect, Writes
  <2>. DEFINE row == [d.operations[y] EXCEPT !.status = c.status]
              ops == [d.operations EXCEPT ![y] = row]
  <2>2. e = [d EXCEPT !.operations = ops]
    BY <1>4, <2>1 DEF SetOperationStatus
  <2>3. d.operations[y] \in Operation
    BY <1>1, <1>4
  <2>4. row.owner = d.operations[y].owner
    BY <2>3 DEF Operation
  <2>. HIDE DEF row
  <2>5. ops[y] = row
    BY <1>1
  <2>. HIDE DEF ops
  <2>6. e.operations = ops
    BY <2>2 DEF Database
  <2>. QED BY <1>4, <2>4, <2>5, <2>6 DEF Foreign
<1>. QED BY <1>1, <1>2, <1>3, <1>4 DEF OperationsStep

(* The row a processor has still to insert, after j calls of the event, is   *)
(* past its owner, who was not replaced.                                     *)
RowLeft(p, h, i, j) == todo[p][Len(CallsAt(h, i)) - 1 - j].row
Astray(p) ==
  \E h, i, j :
    /\ In(p, h, i, j) /\ Requests(h, i) /\ j \in 3..(Len(CallsAt(h, i)) - 2)
    /\ RowLeft(p, h, i, j).owner \notin Users

LEMMA OwnerMoves ==
  ASSUME Ingest, NEW p \in Processors, Current(p), Moves(p), NEW y \in TxIds,
         Foreign(db', y), ~Foreign(db, y)
  PROVE  /\ Astray(p) /\ Head(todo[p]).do = "InsertOperationFromEvent"
         /\ \A z \in TxIds : z # y => db'.operations[z] = db.operations[z]
<1>. DEFINE e == db'
            c == Head(todo[p])
<1>1. db \in Database /\ MappingType /\ chain \in Chains /\ Writing(p)
  BY MovesWrite DEF Ingest, Shape
<1>2. e.operations # db.operations
  BY DEF Foreign
<1>3. todo[p] # <<>> /\ c \in AnyCall /\ Made(db, next[p], c, e)
  BY <1>1, <1>2 DEF Writing, Rehashes
<1>. HIDE DEF e, c
<1>4. c.do \in Writes
  <2>1. SUFFICES ASSUME c.do \notin Writes PROVE e.operations = db.operations
    BY <1>2
  <2>. QED BY <1>1, <1>3, <2>1 DEF Made, Database, SaveBlock, SaveTransaction,
                SaveInvalidTransaction, SaveEvent, MarkEventProcessed, UpdateCheckpoint
<1>5. e = Effect(db, c)
  BY <1>3, <1>4 DEF Made, Writes
<1>6. PICK x \in TxIds : c \in Projecting(x)
  BY <1>3, <1>4, CallFields DEF Projections
<1>7. Foreign(e, y)
  BY DEF e
<1>8. /\ c.do = "InsertOperationFromEvent" /\ c.row.owner \notin Users
      /\ \A z \in TxIds : z # y => e.operations[z] = db.operations[z]
  BY <1>1, <1>4, <1>5, <1>6, <1>7, EffectOwners
<1>9. PICK h, i, j : In(p, h, i, j)
  BY <1>3, <1>4 DEF Current, Projections, c
<1>. DEFINE n == Len(CallsAt(h, i))
<1>10. /\ h \in DOMAIN chain /\ EventfulAt(chain[h], i) /\ j \in Nat /\ j + 1 \in 2..n
       /\ SameCall(c, CallsAt(h, i)[j + 1])
  BY <1>1, <1>9, InHead DEF c
<1>11. n \in Nat /\ CallsAt(h, i)[n] = MarkOf(IdAt(h, i))
  BY <1>1, <1>10, EventsAt
<1>12. CallsAt(h, i)[j + 1].do = "InsertOperationFromEvent"
  BY <1>8, <1>10, SameDo
<1>13. j + 1 # n
  BY <1>11, <1>12, OwnAndDo
<1>14. j + 1 \in 2..(n - 1)
  <2>. HIDE DEF n
  <2>. QED BY <1>10, <1>11, <1>13
<1>15. Requests(h, i) /\ j + 1 = n - 1
  BY <1>1, <1>10, <1>12, <1>14, InsertPlace
<1>16. 5 <= n
  BY <1>1, <1>10, <1>15, RequestEvents
<1>17. j \in 3..(n - 2) /\ n - 1 - j = 1
  <2>. HIDE DEF n
  <2>. QED BY <1>10, <1>11, <1>15, <1>16
<1>18. RowLeft(p, h, i, j) = c.row
  <2>1. todo[p][1] = c
    BY DEF c
  <2>. QED BY <1>17, <2>1 DEF RowLeft
<1>19. Astray(p)
  BY <1>8, <1>9, <1>15, <1>17, <1>18 DEF Astray
<1>. QED BY <1>8, <1>19 DEF c, e

(* The i-th call is the first to insert an operation. *)
Inserts(s, i) ==
  /\ s \in Seq(AnyCall) /\ i \in 1..Len(s) /\ s[i].do = "InsertOperationFromEvent"
  /\ \A j \in 1..(i - 1) : s[j].do # "InsertOperationFromEvent"

(* Canonicalizing the owner puts a user in the row; the counterparty's       *)
(* leaves the owner alone.                                                   *)
LEMMA CanonicalOwner ==
  ASSUME NEW s, NEW i, Inserts(s, i), NEW field \in {"owner", "counterparty"}, NEW user
  PROVE  Canonical(s, field, user)[i].row.owner = IF field = "owner" THEN user ELSE s[i].row.owner
<1>. DEFINE I == {j \in 1..Len(s) : s[j].do = "InsertOperationFromEvent"}
            m == IF I # {} THEN Min(I) ELSE 0
            t == Canonical(s, field, user)
<1>. USE DEF Inserts
<1>1. /\ Len(s) \in Nat /\ DOMAIN s = 1..Len(s) /\ s[i] \in AnyCall
  BY LenProperties, ElementOfSeq
<1>2. m \in Nat /\ (m = 0 => I = {}) /\ (m # 0 => m \in I /\ \A j \in I : m <= j)
  <2>1. I \subseteq Nat \ {0}
    BY <1>1
  <2>. HIDE DEF I
  <2>. QED BY <2>1, FirstOf
<1>3. m = i
  <2>1. i \in I
    OBVIOUS
  <2>2. m \in 1..Len(s) /\ m <= i /\ s[m].do = "InsertOperationFromEvent"
    BY <1>2, <2>1
  <2>. HIDE DEF m
  <2>3. m \in 1..(i - 1) \/ m = i
    BY <1>1, <1>2, <2>2
  <2>. QED BY <2>2, <2>3
<1>4. t = [s EXCEPT ![m].row[field] = user]
  BY DEF Canonical, SelectInSeq
<1>. HIDE DEF I, m
<1>5. t[i] = [s[i] EXCEPT !.row[field] = user]
  BY <1>1, <1>3, <1>4
<1>. HIDE DEF t
<1>6. s[i].row \in Row /\ "row" \in DOMAIN s[i]
  <2>1. PICK x \in TxIds : s[i] \in Projecting(x)
    BY <1>1 DEF AnyCall
  <2>2. s[i] \in [do: {"InsertOperationFromEvent"}, id: {x}, row: Row]
    BY <2>1 DEF Projecting
  <2>. HIDE DEF Row
  <2>. QED BY <2>2
<1>7. t[i].row = [s[i].row EXCEPT ![field] = user]
  BY <1>5, <1>6
<1>8. t[i].row.owner = IF field = "owner" THEN user ELSE s[i].row.owner
  BY <1>6, <1>7 DEF Row
<1>. QED BY <1>8 DEF t

RowBehind(p, t, z) == Inserts(t, z) /\ t[z] = todo[p][z + 1]

(* The calls of a request behind the one at the head: its row is the first   *)
(* to be inserted.                                                           *)
LEMMA RowAhead ==
  ASSUME chain \in Chains, NEW p \in Processors, NEW h, NEW i, NEW j, In(p, h, i, j), Requests(h, i),
         NEW n, n = Len(CallsAt(h, i)), j \in 2..(n - 3), NEW t, t = Tail(todo[p]),
         NEW z, z = n - 2 - j
  PROVE  RowBehind(p, t, z)
<1>. DEFINE q == CallsOf(h)
            s == todo[p]
            c == CallsAt(h, i)
            r == EventAt(h, i).request
<1>1. h \in DOMAIN chain /\ EventfulAt(chain[h], i)
  BY InHead
<1>2. PICK a : LeadAt(h, i, a) /\ Remains(s, q, a + j)
  BY DEF In
<1>3. /\ a \in Nat
      /\ \A m \in 1..n : a + m \in 1..Len(q) /\ q[a + m] = c[m]
  <2>1. LeadAt(h, i, a)
    BY <1>2
  <2>2. /\ a \in Nat
        /\ \A m \in 1..Len(CallsAt(h, i)) :
             a + m \in 1..Len(CallsOf(h)) /\ CallsOf(h)[a + m] = CallsAt(h, i)[m]
    BY <2>1, LeadFacts
  <2>. QED BY <2>2, Zenon DEF q, c
<1>4. /\ n \in Nat /\ 5 <= n /\ c[n - 1] = InsertOperation(r)
      /\ \A k \in 4..(n - 2) : c[k] = Canonicalize("counterparty", r.counterparty)
  BY <1>1, RequestEvents
<1>5. Len(q) \in Nat
  BY <1>1, CallsOfBlock
<1>6. s # <<>>
  BY DEF In
<1>. HIDE DEF q, s, c, r
<1>7. j \in Nat /\ a + j \in Nat /\ z \in Nat /\ 1 <= z
  BY <1>3, <1>4
<1>8. Remains(t, q, (a + j) + 1)
  BY <1>2, <1>6, <1>7, RemainsTail DEF s
<1>9. t \in Seq(AnyCall) /\ Len(t) \in Nat /\ Len(q) = (a + j) + 1 + Len(t)
      /\ \A k \in 1..Len(t) : SameCall(t[k], q[(a + j) + 1 + k])
  BY <1>8, LenProperties DEF Remains
<1>10. \A k \in 1..z : /\ k \in 1..Len(t) /\ j + 1 + k \in 1..n
                       /\ (a + j) + 1 + k = a + (j + 1 + k)
  <2>. SUFFICES ASSUME NEW k \in 1..z
                PROVE  /\ k \in 1..Len(t) /\ j + 1 + k \in 1..n
                       /\ (a + j) + 1 + k = a + (j + 1 + k)
    OBVIOUS
  <2>1. j + 1 + k \in 1..n /\ (a + j) + 1 + k = a + (j + 1 + k) /\ k \in Nat /\ 1 <= k
    BY <1>3, <1>4, <1>7
  <2>2. a + (j + 1 + k) \in 1..Len(q)
    BY <1>3, <2>1
  <2>3. PICK m : m = Len(t)
    OBVIOUS
  <2>4. m \in Nat /\ a + (j + 1 + k) <= (a + j) + 1 + m
    BY <1>5, <1>9, <2>2, <2>3
  <2>5. k \in 1..m
    BY <1>3, <1>7, <2>1, <2>4
  <2>. QED BY <2>1, <2>3, <2>5
<1>11. \A k \in 1..z : SameCall(t[k], c[j + 1 + k])
  BY <1>3, <1>9, <1>10
<1>12. t[z].do = "InsertOperationFromEvent" /\ z \in 1..Len(t)
  <2>1. z \in 1..z /\ j + 1 + z = n - 1
    BY <1>4, <1>7
  <2>2. SameCall(t[z], InsertOperation(r))
    BY <1>4, <1>11, <2>1
  <2>3. t[z].do = InsertOperation(r).do
    BY <2>2, SameDo
  <2>. QED BY <1>10, <2>1, <2>3 DEF InsertOperation
<1>13. ASSUME NEW k \in 1..(z - 1) PROVE t[k].do # "InsertOperationFromEvent"
  <2>1. k \in 1..z /\ j + 1 + k \in 4..(n - 2)
    BY <1>4, <1>7
  <2>2. SameCall(t[k], Canonicalize("counterparty", r.counterparty))
    BY <1>4, <1>11, <2>1
  <2>3. t[k].do = Canonicalize("counterparty", r.counterparty).do
    BY <2>2, SameDo
  <2>. QED BY <2>3 DEF Canonicalize
<1>14. t[z] = s[z + 1]
  <2>1. s \in Seq(AnyCall)
    BY <1>2 DEF Remains
  <2>2. \A k \in 1..Len(Tail(s)) : Tail(s)[k] = s[k + 1]
    BY <1>6, <2>1, HeadTailProperties
  <2>3. t = Tail(s)
    BY DEF s
  <2>. QED BY <1>12, <2>2, <2>3
<1>. QED BY <1>9, <1>12, <1>13, <1>14 DEF s, Inserts, RowBehind

LEMMA StrayMover ==
  ASSUME Ingest, Resolved, OwnersRequest, NEW p \in Processors, Moves(p), Astray(p)'
  PROVE  /\ Head(todo[p]).do = "canonicalizePayload"
         /\ Astray(p) \/ faults' = faults + 1
<1>1. chain' = chain /\ chain \in Chains /\ MappingType
  BY DEF Moves, Ingest, Shape
<1>2. PICK h, i, j :
        /\ In(p, h, i, j)' /\ Requests(h, i)' /\ j \in 3..(Len(CallsAt(h, i)') - 2)
        /\ todo'[p][Len(CallsAt(h, i)') - 1 - j].row.owner \notin Users
  BY DEF Astray, RowLeft
<1>. DEFINE r == EventAt(h, i).request
<1>3. PICK n : n = Len(CallsAt(h, i))
  OBVIOUS
<1>4. /\ Requests(h, i) /\ j \in 3..(n - 2) /\ todo'[p][n - 1 - j].row.owner \notin Users
  BY <1>1, <1>2, <1>3, SameAt DEF Requests, EventAt
<1>5. /\ Calls(p) /\ h \in DOMAIN chain /\ EventfulAt(chain[h], i)
      /\ SameCall(Head(todo[p]), CallsAt(h, i)[j])
      /\ j # 1 => In(p, h, i, j - 1)
  BY <1>2, InMover
<1>6. /\ n \in Nat /\ 5 <= n /\ CallsAt(h, i)[3] = Canonicalize("owner", r.owner)
      /\ \A k \in 4..(n - 2) : CallsAt(h, i)[k] = Canonicalize("counterparty", r.counterparty)
  BY <1>1, <1>3, <1>4, <1>5, RequestEvents
<1>7. PICK l : l = j - 1
  OBVIOUS
<1>8. PICK z : z = n - 1 - j
  OBVIOUS
<1>9. In(p, h, i, l) /\ l \in 2..(n - 3) /\ z = n - 2 - l /\ z + 1 = n - 1 - l /\ (j # 3 => l \in 3..(n - 2))
  BY <1>4, <1>5, <1>6, <1>7, <1>8
<1>10. PICK c : c = Head(todo[p])
  OBVIOUS
<1>11. PICK t : t = Tail(todo[p])
  OBVIOUS
<1>12. Inserts(t, z) /\ t[z] = todo[p][z + 1]
  <2>1. In(p, h, i, l) /\ Requests(h, i) /\ l \in 2..(n - 3) /\ z = n - 2 - l
    BY <1>4, <1>9
  <2>2. RowBehind(p, t, z)
    BY <1>1, <1>3, <1>11, <2>1, RowAhead, Zenon
  <2>. QED BY <2>2 DEF RowBehind
<1>13. \/ j = 3 /\ c = Canonicalize("owner", r.owner)
       \/ j # 3 /\ c = Canonicalize("counterparty", r.counterparty)
  <2>1. j = 3 \/ (j # 3 /\ j \in 4..(n - 2))
    BY <1>4, <1>6
  <2>2. SameCall(c, CallsAt(h, i)[j])
    BY <1>5, <1>10
  <2>. QED BY <1>6, <2>1, <2>2, OwnAndDo DEF SameCall, Canonicalize
<1>14. c.do = "canonicalizePayload"
  BY <1>13 DEF Canonicalize
<1>15. \/ todo'[p] = t /\ (faults' = faults => mapping[c.identity] = Nil)
       \/ mapping[c.identity] # Nil /\ todo'[p] = Canonical(t, c.field, mapping[c.identity])
  BY <1>5, <1>10, <1>11, <1>14 DEF Calls
<1>16. todo'[p][z].row.owner \notin Users
  BY <1>4, <1>8
<1>17. CASE j = 3
  <2>1. r.owner \in Identities /\ r.requestedBy = r.owner
    <3>1. EventAt(h, i) \in EventOf(IdAt(h, i))
      BY <1>1, <1>5, EventsAt
    <3>2. r.owner \in Identities
      BY <1>4, <3>1 DEF Requests, EventOf, Event, Request
    <3>3. r.requestedBy = r.owner
      BY <1>1, <1>4, <1>5 DEF OwnersRequest, Requests, EventAt
    <3>. QED BY <3>2, <3>3
  <2>2. mapping[r.requestedBy] # Nil
    BY <1>4, <1>9 DEF Resolved
  <2>3. c.identity = r.owner /\ c.field = "owner"
    BY <1>13, <1>17 DEF Canonicalize
  <2>4. mapping[c.identity] \in Users
    BY <1>1, <2>1, <2>2, <2>3 DEF MappingType
  <2>. HIDE DEF r
  <2>5. todo'[p] # Canonical(t, c.field, mapping[c.identity])
    <3>1. Canonical(t, c.field, mapping[c.identity])[z].row.owner = mapping[c.identity]
      BY <1>12, <2>3, CanonicalOwner
    <3>. QED BY <1>16, <2>4, <3>1
  <2>6. faults' # faults
    BY <1>15, <2>1, <2>2, <2>3, <2>5
  <2>. QED BY <1>10, <1>14, <2>6 DEF Moves
<1>18. CASE j # 3
  <2>1. c.field = "counterparty"
    BY <1>13, <1>18 DEF Canonicalize
  <2>2. Canonical(t, c.field, mapping[c.identity])[z].row.owner = t[z].row.owner
    BY <1>12, <2>1, CanonicalOwner
  <2>3. todo[p][n - 1 - l].row.owner \notin Users
    <3>1. t[z].row.owner \notin Users
      BY <1>15, <1>16, <2>2
    <3>. QED BY <1>9, <1>12, <3>1
  <2>4. Astray(p)
    BY <1>3, <1>4, <1>9, <1>18, <2>3 DEF Astray, RowLeft
  <2>. QED BY <1>10, <1>14, <2>4
<1>. QED BY <1>17, <1>18

LEMMA StrayStayer ==
  ASSUME Ingest, NEW p \in Processors, NEW r \in Processors, r # p, Moves(p)
  PROVE  Astray(r)' <=> Astray(r)
<1>1. chain' = chain /\ todo'[r] = todo[r]
  BY DEF Moves, Ingest, Shape, Control
<1>2. \A h, i, j : In(r, h, i, j)' <=> In(r, h, i, j)
  BY InStayer
<1>. QED BY <1>1, <1>2 DEF Astray, RowLeft, Requests, EventAt, CallsAt, IdAt

Strays == {p \in Processors : Astray(p)}

(* Each row that lacks its owner's user, and each that is going to, was paid *)
(* for by a fault.                                                           *)
StraysPaid ==
  IsFiniteSet(Unlisted(db)) /\ Cardinality(Unlisted(db)) + Cardinality(Strays) <= faults

LEMMA StraysPaidSuffices ==
  ASSUME IsFiniteSet(Unlisted(db')), Cardinality(Unlisted(db')) + Cardinality(Strays') <= faults'
  PROVE  StraysPaid'
  BY DEF StraysPaid, Unlisted, Foreign

LEMMA StraysPaidMoves ==
  ASSUME Ingest, Resolved, OwnersRequest, NEW p \in Processors, Current(p), Moves(p), StraysPaid
  PROVE  StraysPaid'
<1>1. PICK S : S = Strays
  OBVIOUS
<1>2. PICK T : T = Strays'
  OBVIOUS
<1>3. PICK B : B = Unlisted(db)
  OBVIOUS
<1>4. PICK C : C = Unlisted(db')
  OBVIOUS
<1>5. PICK P : P = Processors
  OBVIOUS
<1>6. /\ IsFiniteSet(P) /\ p \in P /\ S \in SUBSET P /\ T \in SUBSET P
      /\ (p \in S <=> Astray(p)) /\ (p \in T <=> Astray(p)')
  BY <1>1, <1>2, <1>5, ProcessorsAssumption DEF Strays
<1>7. \A r \in P : r # p => (r \in T <=> r \in S)
  <2>. SUFFICES ASSUME NEW r \in Processors, r # p PROVE r \in T <=> r \in S
    BY <1>5
  <2>1. Astray(r)' <=> Astray(r)
    BY StrayStayer
  <2>. QED BY <1>1, <1>2, <2>1 DEF Strays
<1>8. /\ Cardinality(S) \in Nat /\ Cardinality(T) \in Nat
      /\ (p \in S <=> p \in T) => S = T
      /\ p \in S /\ p \notin T => Cardinality(S) = Cardinality(T) + 1
      /\ p \notin S /\ p \in T => Cardinality(T) = Cardinality(S) + 1
  BY <1>6, <1>7, OneMoves
<1>9. /\ IsFiniteSet(B) /\ Cardinality(B) + Cardinality(S) <= faults
      /\ faults \in Nat /\ (faults' = faults \/ faults' = faults + 1)
  BY <1>1, <1>3 DEF StraysPaid, Moves, Ingest, Shape, Control
<1>10. SUFFICES IsFiniteSet(C) /\ Cardinality(C) + Cardinality(T) <= faults'
  BY <1>2, <1>4, StraysPaidSuffices
<1>11. Cardinality(B) \in Nat
  BY <1>9, FS_CardinalityType
<1>12. CASE C \subseteq B
  <2>1. IsFiniteSet(C) /\ Cardinality(C) \in Nat /\ Cardinality(C) <= Cardinality(B)
    BY <1>9, <1>12, FS_Subset, FS_CardinalityType
  <2>2. p \in T => p \in S \/ faults' = faults + 1
    BY <1>6, StrayMover
  <2>3. Cardinality(T) + faults <= Cardinality(S) + faults'
    <3>1. (p \in S <=> p \in T) => Cardinality(S) = Cardinality(T)
      BY <1>8
    <3>. QED BY <1>8, <1>9, <2>2, <3>1
  <2>. QED BY <1>8, <1>9, <1>11, <2>1, <2>3
<1>13. CASE ~(C \subseteq B)
  <2>1. PICK y \in C : y \notin B
    BY <1>13
  <2>2. y \in TxIds /\ Foreign(db', y) /\ ~Foreign(db, y)
    BY <1>3, <1>4, <2>1 DEF Unlisted
  <2>3. /\ Astray(p) /\ Head(todo[p]).do = "InsertOperationFromEvent"
        /\ \A z \in TxIds : z # y => db'.operations[z] = db.operations[z]
    BY <2>2, OwnerMoves
  <2>4. C \subseteq B \cup {y}
    BY <1>3, <1>4, <2>3 DEF Unlisted, Foreign
  <2>5. ~Astray(p)'
    BY <2>3, StrayMover
  <2>6. Cardinality(S) = Cardinality(T) + 1
    BY <1>6, <1>8, <2>3, <2>5
  <2>7. IsFiniteSet(B \cup {y}) /\ Cardinality(B \cup {y}) = Cardinality(B) + 1
    BY <1>9, <2>1, FS_AddElement
  <2>8. IsFiniteSet(C) /\ Cardinality(C) \in Nat /\ Cardinality(C) <= Cardinality(B) + 1
    <3>1. IsFiniteSet(C) /\ Cardinality(C) <= Cardinality(B \cup {y})
      BY <2>4, <2>7, FS_Subset
    <3>. QED BY <2>7, <3>1, FS_CardinalityType
  <2>. QED BY <1>8, <1>9, <1>11, <2>6, <2>8
<1>. QED BY <1>12, <1>13

Listing == Tracks /\ Resolved /\ StraysPaid

LEMMA ListingNext == ASSUME OwnersRequest PROVE Ingest /\ Listing /\ [Next]_vars => Listing'
<1>. SUFFICES ASSUME Ingest, Listing, [Next]_vars PROVE Listing'
  OBVIOUS
<1>1. Tracks' /\ Resolved'
  BY TracksNext, ResolvedNext DEF Listing
<1>2. ASSUME NEW p \in Processors, Moves(p) PROVE StraysPaid'
  BY <1>2, StraysPaidMoves DEF Listing, Tracks
<1>3. ASSUME MapIdentity \/ UNCHANGED vars PROVE StraysPaid'
  <2>1. chain' = chain /\ db' = db /\ next' = next /\ todo' = todo /\ faults' = faults
    BY <1>3 DEF MapIdentity, vars
  <2>2. \A p, h, i, j : In(p, h, i, j)' <=> In(p, h, i, j)
    BY <2>1, InSame
  <2>3. Strays' = Strays
    <3>1. ASSUME NEW p \in Processors PROVE Astray(p)' <=> Astray(p)
      BY <2>1, <2>2 DEF Astray, RowLeft, Requests, EventAt, CallsAt, IdAt
    <3>. QED BY <3>1 DEF Strays
  <2>4. IsFiniteSet(Unlisted(db)) /\ Cardinality(Unlisted(db)) + Cardinality(Strays) <= faults
    BY DEF Listing, StraysPaid
  <2>5. Unlisted(db') = Unlisted(db)
    BY <2>1
  <2>. QED BY <2>1, <2>3, <2>4, <2>5, StraysPaidSuffices
<1>4. StraysPaid'
  BY <1>2, <1>3, NextMoves
<1>. QED BY <1>1, <1>4 DEF Listing

(* Every operation is in its owner's list, but for one per fault: an owner   *)
(* is the requester, whom the processor has resolved just before it replaces *)
(* the owner's identity, so only a failing call leaves the identity in place.*)
THEOREM OwnersListed == ASSUME OwnersRequest PROVE Spec => []OperationsListed
<1>1. Init => Listing
  <2>. SUFFICES ASSUME Init PROVE Listing
    OBVIOUS
  <2>1. \A p \in Processors : todo[p] = <<>>
    BY DEF Init, Start
  <2>2. Resolved /\ Strays = {}
    BY <2>1 DEF Resolved, Strays, Astray, In
  <2>3. Unlisted(db) = {} /\ faults = 0
    BY DEF Init, Start, EmptyDatabase, Unlisted, Foreign
  <2>4. StraysPaid
    BY <2>2, <2>3, FS_EmptySet DEF StraysPaid
  <2>. QED BY <2>2, <2>4, TracksInit DEF Listing
<1>2. Ingest /\ Listing => OperationsListed
  <2>. SUFFICES ASSUME Ingest, Listing PROVE OperationsListed
    OBVIOUS
  <2>1. /\ IsFiniteSet(Unlisted(db)) /\ Cardinality(Unlisted(db)) + Cardinality(Strays) <= faults
        /\ faults \in Nat
    BY DEF Listing, StraysPaid, Ingest, Shape, Control
  <2>2. Cardinality(Unlisted(db)) \in Nat /\ Cardinality(Strays) \in Nat
    BY <2>1, ProcessorsAssumption, FS_Subset, FS_CardinalityType DEF Strays
  <2>3. Cardinality(Unlisted(db)) <= faults
    BY <2>1, <2>2
  <2>. QED BY <2>3 DEF OperationsListed, Unlisted, Foreign
<1>3. Ingest /\ Listing /\ [Next]_vars => Listing'
  BY ListingNext
<1>. QED BY <1>1, <1>2, <1>3, IngestAlways, PTL DEF Spec

-----------------------------------------------------------------------------
(* Balances.                                                                 *)

(* The calls q of an event e that write balances, and the identities         *)
(* resolved before them.                                                     *)
SupplyCalls(q, e) ==
  /\ Len(q) = 4 /\ q[2] = Resolve(e.owner)
  /\ q[3] = Delta(e.owner, e.token, IF e.name = "MINT" THEN e.amount ELSE -e.amount, 0)

MovementCalls(q, r, n) ==
  /\ n \in {3, 4} /\ Len(q) = n + 4
  /\ q[2] = Resolve(r.owner) /\ \A k \in 2..(n - 1) : q[k].do = "ResolveFabricIdentity"
  /\ r.type = "TRANSFER" /\ r.counterparty # Nil => n = 4 /\ q[3] = Resolve(r.counterparty)
  /\ q[n] = Status(r, "committed")
  /\ applyMovement(r) = <<q[n + 1], q[n + 2]>>
  /\ q[n + 3].do = "InsertAuditTrail"

(* One call, or two, behind others. *)
Behind(q, r, c) ==
  Len(r) \in Nat /\ Len(q) = Len(r) + 1 /\ q[Len(r) + 1] = c /\ \A k \in 1..Len(r) : q[k] = r[k]
ThreeBehind(q, r, a, b, c) ==
  /\ Len(r) \in Nat /\ Len(q) = Len(r) + 3 /\ q[Len(r) + 1] = a /\ q[Len(r) + 2] = b
  /\ q[Len(r) + 3] = c /\ \A k \in 1..Len(r) : q[k] = r[k]

LEMMA OneBehind ==
  ASSUME NEW S, NEW r \in Seq(S), NEW c \in S
  PROVE  (r \o <<c>>) \in Seq(S) /\ Behind(r \o <<c>>, r, c)
<1>. DEFINE q == r \o <<c>>
<1>1. <<c>> \in Seq(S) /\ Len(<<c>>) = 1 /\ <<c>>[1] = c
  OBVIOUS
<1>. DEFINE one == <<c>>
<1>. HIDE DEF one
<1>2. q = r \o one /\ one \in Seq(S) /\ Len(one) = 1 /\ one[1] = c
  BY <1>1 DEF one
<1>3. q \in Seq(S) /\ Len(q) = Len(r) + 1 /\ Len(r) \in Nat
  BY <1>2, ConcatOf, ConcatProperties, LenProperties
<1>4. ASSUME NEW k \in 1..(Len(r) + 1) PROVE q[k] = IF k <= Len(r) THEN r[k] ELSE one[k - Len(r)]
  BY <1>2, <1>4, ConcatAt
<1>. HIDE DEF q
<1>. QED BY <1>2, <1>3, <1>4 DEF Behind

LEMMA TwoBehind ==
  ASSUME NEW S, NEW r \in Seq(S), NEW a \in S, NEW b \in S, NEW q, q = r \o <<a, b>>
  PROVE  /\ q \in Seq(S) /\ Len(r) \in Nat /\ Len(q) = Len(r) + 2
         /\ q[Len(r) + 1] = a /\ q[Len(r) + 2] = b
         /\ \A k \in 1..Len(r) : q[k] = r[k]
<1>1. <<a, b>> \in Seq(S) /\ Len(<<a, b>>) = 2 /\ <<a, b>>[1] = a /\ <<a, b>>[2] = b
  OBVIOUS
<1>. DEFINE two == <<a, b>>
<1>. HIDE DEF two
<1>2. q = r \o two /\ two \in Seq(S) /\ Len(two) = 2 /\ two[1] = a /\ two[2] = b
  BY <1>1 DEF two
<1>3. q \in Seq(S) /\ Len(q) = Len(r) + 2 /\ Len(r) \in Nat
  BY <1>2, ConcatOf, ConcatProperties, LenProperties
<1>4. ASSUME NEW k \in 1..(Len(r) + 2) PROVE q[k] = IF k <= Len(r) THEN r[k] ELSE two[k - Len(r)]
  BY <1>2, <1>4, ConcatAt
<1>. QED BY <1>2, <1>3, <1>4

LEMMA TwoThenOne ==
  ASSUME NEW S, NEW r \in Seq(S), NEW a \in S, NEW b \in S, NEW c \in S
  PROVE  ThreeBehind(r \o <<a, b>> \o <<c>>, r, a, b, c)
<1>. DEFINE s == r \o <<a, b>>
            q == s \o <<c>>
<1>1. /\ s \in Seq(S) /\ Len(r) \in Nat /\ Len(s) = Len(r) + 2
      /\ s[Len(r) + 1] = a /\ s[Len(r) + 2] = b
      /\ \A k \in 1..Len(r) : s[k] = r[k]
  BY TwoBehind
<1>. HIDE DEF s
<1>2. Behind(q, s, c)
  BY <1>1, OneBehind
<1>. HIDE DEF q
<1>3. ThreeBehind(q, r, a, b, c)
  BY <1>1, <1>2 DEF Behind, ThreeBehind
<1>. QED BY <1>3 DEF q, s

LEMMA ApprovedAre ==
  ASSUME NEW x \in TxIds, NEW e \in Event, e.name = "APPROVED", NEW m, m = materialize(e, x)
  PROVE  \E n \in {2, 3} :
           /\ Len(m) = n + 3 /\ m[1] = Resolve(e.request.owner)
           /\ n = 3 => m[2] = Resolve(e.request.counterparty)
           /\ e.request.counterparty # Nil => n = 3
           /\ m[n] = Status(e.request, "committed")
           /\ applyMovement(e.request) = <<m[n + 1], m[n + 2]>>
           /\ m[n + 3] = Audit(e.request, x)
<1>. DEFINE r == e.request
            st == Status(r, "committed")
            au == Audit(r, x)
            ro == Resolve(r.owner)
            rc == Resolve(r.counterparty)
            mv == applyMovement(r)
<1>1. r \in Request("committed") /\ r.type \in {"TRANSFER", "ENCUMBRANCE", "UNENCUMBRANCE"}
  BY RequestOf, RequestCalls
<1>2. \E a, b : mv = <<a, b>>
  BY <1>1 DEF applyMovement
<1>3. PICK a, b : mv = <<a, b>>
  BY <1>2
<1>4. m = <<ro>> \o ForCounterparty(r, rc) \o <<st>> \o mv \o <<au>>
  BY DEF materialize, applyApproved
<1>. DEFINE S == {ro, rc, st, a, b, au}
<1>. HIDE DEF ro, rc, st, au, mv
<1>7. ro \in S /\ rc \in S /\ st \in S /\ a \in S /\ b \in S /\ au \in S /\ <<ro>> \in Seq(S)
        /\ Len(<<ro>>) = 1 /\ <<ro>>[1] = ro
  OBVIOUS
<1>. DEFINE one == <<ro>>
<1>. HIDE DEF S, one
<1>8. one \in Seq(S) /\ Len(one) = 1 /\ one[1] = ro
  BY <1>7 DEF one
<1>5. CASE r.counterparty = Nil
  <2>. DEFINE p == one \o <<st>>
  <2>1. m = p \o <<a, b>> \o <<au>>
    <3>1. ForCounterparty(r, rc) = <<>>
      BY <1>5 DEF ForCounterparty
    <3>2. one \o <<>> = one
      BY <1>8, ConcatEmptySeq
    <3>. QED BY <1>3, <1>4, <3>1, <3>2 DEF one
  <2>3. p \in Seq(S) /\ Len(p) = 2 /\ p[1] = ro /\ p[2] = st
    <3>1. p \in Seq(S) /\ Behind(p, one, st)
      BY <1>7, <1>8, OneBehind, Zenon
    <3>. HIDE DEF p
    <3>. QED BY <1>8, <3>1 DEF Behind
  <2>. HIDE DEF p
  <2>4. Len(m) = 5 /\ m[1] = ro /\ m[2] = st /\ m[3] = a /\ m[4] = b /\ m[5] = au
    <3>1. ThreeBehind(m, p, a, b, au)
      BY <1>7, <2>1, <2>3, TwoThenOne, Zenon
    <3>. QED BY <2>3, <3>1 DEF ThreeBehind
  <2>. QED BY <1>3, <1>5, <2>4 DEF st, au, ro, mv
<1>6. CASE r.counterparty # Nil
  <2>. DEFINE p == one \o <<rc>>
              o == p \o <<st>>
  <2>1. m = o \o <<a, b>> \o <<au>>
    BY <1>3, <1>4, <1>6 DEF ForCounterparty, one
  <2>2. p \in Seq(S) /\ Len(p) = 2 /\ p[1] = ro /\ p[2] = rc
    <3>1. p \in Seq(S) /\ Behind(p, one, rc)
      BY <1>7, <1>8, OneBehind, Zenon
    <3>. HIDE DEF p
    <3>. QED BY <1>8, <3>1 DEF Behind
  <2>. HIDE DEF p
  <2>3. o \in Seq(S) /\ Len(o) = 3 /\ o[1] = ro /\ o[2] = rc /\ o[3] = st
    <3>1. o \in Seq(S) /\ Behind(o, p, st)
      BY <1>7, <2>2, OneBehind, Zenon
    <3>. HIDE DEF o
    <3>. QED BY <2>2, <3>1 DEF Behind
  <2>. HIDE DEF o
  <2>4. /\ Len(m) = 6 /\ m[1] = ro /\ m[2] = rc /\ m[3] = st /\ m[4] = a /\ m[5] = b /\ m[6] = au
    <3>1. ThreeBehind(m, o, a, b, au)
      BY <1>7, <2>1, <2>3, TwoThenOne, Zenon
    <3>. QED BY <2>3, <3>1 DEF ThreeBehind
  <2>. QED BY <1>3, <2>4 DEF st, au, ro, rc, mv
<1>. QED BY <1>5, <1>6

Movement(q, r) == \E n : MovementCalls(q, r, n)

(* The calls of an event, as far as balances go. *)
BalanceCalls(q, e) ==
  \/ e.name \in {"MINT", "BURN"} /\ SupplyCalls(q, e)
  \/ e.name = "APPROVED" /\ Movement(q, e.request)
  \/ /\ e.name \notin {"MINT", "BURN", "APPROVED"}
     /\ \A k \in 1..Len(q) : q[k].do # "UpsertBalanceDelta"

LEMMA SupplyAre ==
  ASSUME NEW x \in TxIds, NEW e \in EventOf(x), e.name \in {"MINT", "BURN"}, NEW q, q = EventCalls(e, x)
  PROVE  SupplyCalls(q, e)
<1>. DEFINE m == materialize(e, x)
<1>1. e.amount \in Int
  BY EventNames DEF EventOf
<1>2. /\ Len(m) = 2 /\ m[1] = Resolve(e.owner)
      /\ m[2] = Delta(e.owner, e.token, IF e.name = "MINT" THEN e.amount ELSE -e.amount, 0)
  <2>1. CASE e.name = "MINT"
    <3>1. m = <<Resolve(e.owner), Delta(e.owner, e.token, 1 * e.amount, 0)>>
      BY <2>1 DEF materialize, applyBalanceEvent
    <3>2. 1 * e.amount = e.amount
      BY <1>1
    <3>. HIDE DEF m
    <3>. QED BY <2>1, <3>1, <3>2
  <2>2. CASE e.name = "BURN"
    <3>1. m = <<Resolve(e.owner), Delta(e.owner, e.token, (-1) * e.amount, 0)>>
      BY <2>2 DEF materialize, applyBalanceEvent
    <3>2. (-1) * e.amount = -e.amount
      BY <1>1
    <3>. HIDE DEF m
    <3>. QED BY <2>2, <3>1, <3>2
  <2>. QED BY <2>1, <2>2
<1>. HIDE DEF m
<1>3. Len(q) = Len(m) + 2 /\ \A k \in 1..Len(m) : q[k + 1] = m[k]
  BY CallsOfEvent DEF m
<1>4. Len(q) = 4 /\ q[1 + 1] = m[1] /\ q[2 + 1] = m[2]
  BY <1>2, <1>3
<1>. QED BY <1>2, <1>4 DEF SupplyCalls

LEMMA MovementAre ==
  ASSUME NEW x \in TxIds, NEW e \in EventOf(x), e.name = "APPROVED", NEW q, q = EventCalls(e, x)
  PROVE  \E n : MovementCalls(q, e.request, n)
<1>. DEFINE m == materialize(e, x)
            r == e.request
<1>1. PICK n \in {2, 3} :
        /\ Len(m) = n + 3 /\ m[1] = Resolve(r.owner)
        /\ n = 3 => m[2] = Resolve(r.counterparty)
        /\ r.counterparty # Nil => n = 3
        /\ m[n] = Status(r, "committed")
        /\ applyMovement(r) = <<m[n + 1], m[n + 2]>>
        /\ m[n + 3] = Audit(r, x)
  BY ApprovedAre DEF EventOf
<1>2. Len(q) = Len(m) + 2 /\ \A k \in 1..Len(m) : q[k + 1] = m[k]
  BY CallsOfEvent
<1>. HIDE DEF m, r
<1>3. /\ Len(q) = n + 5 /\ q[2] = Resolve(r.owner)
      /\ n = 3 => q[3] = Resolve(r.counterparty)
      /\ q[n + 1] = Status(r, "committed") /\ q[n + 2] = m[n + 1] /\ q[n + 3] = m[n + 2]
      /\ q[n + 4] = Audit(r, x)
  <2>1. q[1 + 1] = m[1] /\ (n = 3 => q[2 + 1] = m[2]) /\ q[n + 1] = m[n]
        /\ q[n + 1 + 1] = m[n + 1] /\ q[n + 2 + 1] = m[n + 2] /\ q[n + 3 + 1] = m[n + 3]
    <3>1. /\ 1 \in 1..Len(m) /\ (n = 3 => 2 \in 1..Len(m)) /\ n \in 1..Len(m)
          /\ n + 1 \in 1..Len(m) /\ n + 2 \in 1..Len(m) /\ n + 3 \in 1..Len(m)
      BY <1>1
    <3>. QED BY <1>2, <3>1, Zenon
  <2>. QED BY <1>1, <1>2, <2>1
<1>. DEFINE l == n + 1
<1>4. /\ l \in {3, 4} /\ Len(q) = l + 4 /\ q[l + 1] = m[n + 1] /\ q[l + 2] = m[n + 2]
      /\ q[l + 3] = Audit(r, x) /\ q[l] = Status(r, "committed")
      /\ r.type = "TRANSFER" /\ r.counterparty # Nil => l = 4 /\ q[3] = Resolve(r.counterparty)
      /\ \A k \in 2..(l - 1) : q[k].do = "ResolveFabricIdentity"
  BY <1>1, <1>3 DEF Resolve
<1>. HIDE DEF l
<1>5. MovementCalls(q, r, l)
  BY <1>1, <1>3, <1>4 DEF MovementCalls, Audit
<1>. QED BY <1>5 DEF r

LEMMA BalanceCallsAre ==
  ASSUME NEW x \in TxIds, NEW e \in EventOf(x), NEW q, q = EventCalls(e, x)
  PROVE  BalanceCalls(q, e)
<1>. DEFINE m == materialize(e, x)
<1>1. CASE e.name \in {"MINT", "BURN"}
  BY <1>1, SupplyAre DEF BalanceCalls
<1>2. CASE e.name = "APPROVED"
  BY <1>2, MovementAre DEF BalanceCalls, Movement
<1>3. CASE e.name \notin {"MINT", "BURN", "APPROVED"}
  <2>1. e.name \in {"NAV_UPDATED", "REQUESTED", "REJECTED"}
    BY <1>3, EventNames DEF EventOf
  <2>2. Len(m) \in Nat /\ \A k \in 1..Len(m) : m[k].do # "UpsertBalanceDelta"
    <3>1. CASE e.name = "NAV_UPDATED"
      <4>1. m = <<PriceCall(e)>>
        BY <3>1 DEF materialize, applyNAV, PriceCall
      <4>. HIDE DEF m
      <4>. QED BY <4>1 DEF PriceCall
    <3>2. CASE e.name = "REQUESTED"
      <4>1. Len(m) \in Nat /\ RequestedCalls(m, e.request)
        BY <3>2, MaterializeParts
      <4>. HIDE DEF m
      <4>2. ASSUME NEW k \in 1..Len(m) PROVE k = 1 \/ k = 2 \/ k = Len(m) \/ k \in 3..(Len(m) - 1)
        BY <4>1
      <4>. QED BY <4>1, <4>2 DEF RequestedCalls, Resolve, Canonicalize, InsertOperation
    <3>3. CASE e.name = "REJECTED"
      <4>1. m = <<Status(e.request, "cancelled"), Audit(e.request, x)>>
        BY <3>3 DEF materialize, applyRejected
      <4>. HIDE DEF m
      <4>. QED BY <4>1 DEF Status, Audit
    <3>. QED BY <2>1, <3>1, <3>2, <3>3
  <2>3. /\ Len(q) = Len(m) + 2
        /\ \A k \in 2..(Len(q) - 1) : k - 1 \in 1..Len(m) /\ q[k] = m[k - 1]
    BY CallsOfEvent
  <2>4. Len(q) \in Nat /\ q[1] = SaveEventOf(x) /\ q[Len(q)] = MarkOf(x)
    BY EventCallsAt
  <2>. HIDE DEF m
  <2>5. ASSUME NEW k \in 1..Len(q) PROVE q[k].do # "UpsertBalanceDelta"
    <3>1. k = 1 \/ k = Len(q) \/ k \in 2..(Len(q) - 1)
      BY <2>4
    <3>2. SaveEventOf(x).do # "UpsertBalanceDelta" /\ MarkOf(x).do # "UpsertBalanceDelta"
      BY OwnAndDo
    <3>. QED BY <2>2, <2>3, <2>4, <3>1, <3>2
  <2>. QED BY <1>3, <2>5 DEF BalanceCalls
<1>. QED BY <1>1, <1>2, <1>3

(* Whose balance an identity stands for where m maps the identities, what    *)
(* call c adds to field f of a balance, and what the first j calls of q have *)
(* added.                                                                    *)
Who(m, identity) == IF identity = Nil THEN Nil ELSE m[identity]
Fields == {"available", "encumbered"}
Share(m, c, u, t, f) ==
  IF c.do = "UpsertBalanceDelta" /\ c.token = t /\ Who(m, c.owner) = u THEN c[f] ELSE 0
ShareOf(m, q, u, t, f) == [k \in 1..Len(q) |-> Share(m, q[k], u, t, f)]
Shares(m, q, j, u, t, f) == Total(ShareOf(m, q, u, t, f), 1..j)

(* What event e contributes to each of the sums a balance is compared with,  *)
(* and to the balance.                                                       *)
Supplies(m, e, name, u, t) == e.name = name /\ e.token = t /\ m[e.owner] = u
Draws(m, e, type, u, t) == Approved(type, t, e) /\ m[e.request.owner] = u
Earns(m, e, u, t) == Approved("TRANSFER", t, e) /\ Who(m, e.request.counterparty) = u
Part(counts, e) == IF counts THEN Amount(e) ELSE 0
Pledge(m, e, u, t) ==
  Part(Draws(m, e, "ENCUMBRANCE", u, t), e) - Part(Draws(m, e, "UNENCUMBRANCE", u, t), e)
Worth(m, e, u, t, f) ==
  IF f = "encumbered" THEN Pledge(m, e, u, t)
  ELSE Part(Supplies(m, e, "MINT", u, t), e) - Part(Supplies(m, e, "BURN", u, t), e)
         - Part(Draws(m, e, "TRANSFER", u, t), e) + Part(Earns(m, e, u, t), e) - Pledge(m, e, u, t)

LEMMA TotalOne ==
  ASSUME NEW S, IsFiniteSet(S), NEW f, NEW a \in S, f[a] \in Int, \A x \in S : x # a => f[x] = 0
  PROVE  Total(f, S) = f[a]
<1>1. \A x \in S : f[x] \in Int
  OBVIOUS
<1>2. Total(f, S) = f[a] + Total(f, S \ {a})
  BY <1>1, TotalRemove
<1>3. IsFiniteSet(S \ {a})
  BY FS_Subset
<1>4. Total(f, S \ {a}) = 0
  BY <1>3, TotalZero
<1> QED
  BY <1>2, <1>4

(* The amounts a call adds are numbers. *)
LEMMA ShareInt ==
  ASSUME NEW x, NEW c \in EventCall(x), NEW m, NEW u, NEW t, NEW f \in Fields
  PROVE  Share(m, c, u, t, f) \in Int
<1>1. c.do = "UpsertBalanceDelta" => c.available \in Int /\ c.encumbered \in Int
  <2>1. SaveEventOf(x).do = "SaveEvent" /\ MarkOf(x).do = "MarkEventProcessed"
    BY OwnAndDo
  <2>2. ASSUME c \in Projecting(x), c.do = "UpsertBalanceDelta"
        PROVE  c.available \in Int /\ c.encumbered \in Int
    BY <2>2 DEF Projecting
  <2>. QED BY <2>1, <2>2 DEF EventCall
<1>. QED BY <1>1 DEF Share, Fields

(* One call more. *)
LEMMA SharesStep ==
  ASSUME NEW x, NEW q \in Seq(EventCall(x)), NEW j \in Nat, j + 1 \in 1..Len(q),
         NEW m, NEW u, NEW t, NEW f \in Fields
  PROVE  /\ Shares(m, q, j, u, t, f) \in Int
         /\ Shares(m, q, j + 1, u, t, f) = Shares(m, q, j, u, t, f) + Share(m, q[j + 1], u, t, f)
<1>. DEFINE g == ShareOf(m, q, u, t, f)
<1>1. Len(q) \in Nat /\ \A k \in 1..Len(q) : q[k] \in EventCall(x)
  BY LenProperties, ElementOfSeq
<1>2. \A k \in 1..Len(q) : g[k] = Share(m, q[k], u, t, f) /\ g[k] \in Int
  BY <1>1, ShareInt DEF ShareOf
<1>. HIDE DEF g
<1>. DEFINE n == j + 1
            a == 1..j
            b == 1..n
<1>8. b = a \cup {n} /\ n \notin a
  OBVIOUS
<1>3. IsFiniteSet(a)
  BY FS_Interval
<1>4. \A k \in a \cup {n} : g[k] \in Int
  BY <1>1, <1>2
<1>5. Total(g, b) = Total(g, a) + g[n]
  <2>. HIDE DEF a, b, n
  <2>1. Total(g, a \cup {n}) = Total(g, a) + g[n]
    BY <1>3, <1>4, <1>8, TotalAdd
  <2>. QED BY <1>8, <2>1
<1>6. Total(g, 1..j) \in Int
  BY <1>3, <1>4, TotalInt
<1>7. g[j + 1] = Share(m, q[j + 1], u, t, f)
  BY <1>2
<1>. QED BY <1>5, <1>6, <1>7 DEF Shares, g

(* Calls that are no deltas add nothing. *)
LEMMA SharesNone ==
  ASSUME NEW q, NEW j \in Nat, j <= Len(q), Len(q) \in Nat,
         \A k \in 1..j : q[k].do # "UpsertBalanceDelta",
         NEW m, NEW u, NEW t, NEW f
  PROVE  Shares(m, q, j, u, t, f) = 0
<1>. DEFINE g == ShareOf(m, q, u, t, f)
<1>1. \A k \in 1..j : g[k] = 0
  BY DEF ShareOf, Share
<1>. HIDE DEF g
<1>2. IsFiniteSet(1..j)
  BY FS_Interval
<1>3. Total(g, 1..j) = 0
  BY <1>1, <1>2, TotalZero
<1>. QED BY <1>3 DEF Shares, g

(* The two statements of an approved request. *)
LEMMA MovementParts ==
  ASSUME NEW x \in TxIds, NEW e \in Event, e.name = "APPROVED", NEW r, r = e.request,
         NEW a, NEW b, applyMovement(r) = <<a, b>>
  PROVE  \/ /\ r.type = "TRANSFER" /\ a = Delta(r.owner, r.token, -r.amount, 0)
            /\ b = Delta(r.counterparty, r.token, r.amount, 0)
         \/ /\ r.type = "ENCUMBRANCE" /\ a = Delta(r.owner, r.token, -r.amount, r.amount)
            /\ b.do = "InsertEncumbrance" /\ b.id = r.id
         \/ /\ r.type = "UNENCUMBRANCE" /\ a = Delta(r.owner, r.token, r.amount, -r.amount)
            /\ b.do = "ReleaseEncumbrance" /\ b.id = r.id
<1>1. r.type \in {"TRANSFER", "ENCUMBRANCE", "UNENCUMBRANCE"}
  BY RequestOf, RequestCalls
<1>2. CASE r.type = "TRANSFER"
  <2>1. applyMovement(r) =
          <<Delta(r.owner, r.token, -r.amount, 0), Delta(r.counterparty, r.token, r.amount, 0)>>
    BY <1>2 DEF applyMovement
  <2>. QED BY <1>2, <2>1
<1>3. CASE r.type = "ENCUMBRANCE"
  <2>1. applyMovement(r) =
          <<Delta(r.owner, r.token, -r.amount, r.amount),
            [do |-> "InsertEncumbrance", id |-> r.id, owner |-> r.owner,
             token |-> r.token, amount |-> r.amount]>>
    BY <1>3 DEF applyMovement
  <2>. QED BY <1>3, <2>1
<1>4. CASE r.type = "UNENCUMBRANCE"
  <2>1. applyMovement(r) =
          <<Delta(r.owner, r.token, r.amount, -r.amount),
            [do |-> "ReleaseEncumbrance", id |-> r.id]>>
    BY <1>4 DEF applyMovement
  <2>. QED BY <1>4, <2>1
<1>. QED BY <1>1, <1>2, <1>3, <1>4

ShareOfDelta(m, owner, token, a, b, u, t, f) ==
  IF token = t /\ Who(m, owner) = u THEN IF f = "available" THEN a ELSE b ELSE 0

LEMMA DeltaShare ==
  ASSUME NEW m, NEW owner, NEW token, NEW a, NEW b, NEW u, NEW t, NEW f \in Fields
  PROVE  Share(m, Delta(owner, token, a, b), u, t, f) = ShareOfDelta(m, owner, token, a, b, u, t, f)
BY DEF Share, Delta, Fields, ShareOfDelta

(* The calls of an event, all made, have added what it is worth. *)
LEMMA SupplyWorth ==
  ASSUME NEW x \in TxIds, NEW e \in EventOf(x), e.name \in {"MINT", "BURN"}, NEW q, SupplyCalls(q, e),
         q[1] = SaveEventOf(x), NEW m, NEW u, NEW t, NEW f \in Fields
  PROVE  Shares(m, q, Len(q) - 1, u, t, f) = Worth(m, e, u, t, f)
<1>. DEFINE g == ShareOf(m, q, u, t, f)
            a == IF e.name = "MINT" THEN e.amount ELSE -e.amount
<1>1. /\ Len(q) = 4 /\ q[2] = Resolve(e.owner) /\ q[3] = Delta(e.owner, e.token, a, 0)
  BY DEF SupplyCalls
<1>2. e.amount \in Int /\ a \in Int
  BY EventNames DEF EventOf
<1>9. Who(m, e.owner) = m[e.owner]
  <2>1. e.owner \in Identities
    BY EventNames DEF EventOf
  <2>. QED BY <2>1, NilAssumption DEF Who
<1>3. /\ g[1] = 0 /\ g[2] = 0 /\ g[3] = ShareOfDelta(m, e.owner, e.token, a, 0, u, t, f)
  <2>1. g[1] = Share(m, q[1], u, t, f) /\ g[2] = Share(m, q[2], u, t, f)
        /\ g[3] = Share(m, q[3], u, t, f)
    BY <1>1 DEF ShareOf
  <2>2. q[1].do = "SaveEvent" /\ q[2].do = "ResolveFabricIdentity"
    BY <1>1, OwnAndDo DEF Resolve
  <2>3. Share(m, q[1], u, t, f) = 0 /\ Share(m, q[2], u, t, f) = 0
    BY <2>2 DEF Share
  <2>. HIDE DEF g, a
  <2>. QED BY <1>1, <2>1, <2>3, DeltaShare
<1>. HIDE DEF g
<1>4. g[3] = Worth(m, e, u, t, f) /\ g[3] \in Int
  <2>1. g[3] \in Int
    BY <1>2, <1>3 DEF ShareOfDelta
  <2>2. g[3] = Worth(m, e, u, t, f)
    BY <1>2, <1>3, <1>9 DEF ShareOfDelta, Worth, Part, Supplies, Draws, Earns, Pledge, Approved, Amount, Fields
  <2>. QED BY <2>1, <2>2
<1>5. IsFiniteSet(1..3)
  <2>1. 1 \in Int /\ 3 \in Int
    OBVIOUS
  <2>. QED BY <2>1, FS_Interval, Zenon
<1>6. Total(g, 1..3) = g[3]
  BY <1>3, <1>4, <1>5, TotalOne
<1>. QED BY <1>1, <1>4, <1>6 DEF Shares, g

LEMMA MovementWorth ==
  ASSUME NEW x \in TxIds, NEW e \in EventOf(x), e.name = "APPROVED", NEW q,
         Movement(q, e.request), q[1] = SaveEventOf(x),
         NEW m, NEW u, NEW t, NEW f \in Fields
  PROVE  Shares(m, q, Len(q) - 1, u, t, f) = Worth(m, e, u, t, f)
<1>. DEFINE g == ShareOf(m, q, u, t, f)
            r == e.request
<1>0. PICK n : MovementCalls(q, r, n)
  BY DEF Movement
<1>1. /\ n \in {3, 4} /\ Len(q) = n + 4 /\ q[2] = Resolve(r.owner)
      /\ \A k \in 2..(n - 1) : q[k].do = "ResolveFabricIdentity"
      /\ q[n] = Status(r, "committed") /\ applyMovement(r) = <<q[n + 1], q[n + 2]>>
      /\ q[n + 3].do = "InsertAuditTrail"
  BY <1>0 DEF MovementCalls
<1>2. r.amount \in Int /\ e \in Event
  BY RequestOf, RequestCalls DEF EventOf
<1>9. Who(m, r.owner) = m[r.owner]
  <2>1. r.owner \in Identities
    BY RequestOf, RequestCalls DEF EventOf
  <2>. QED BY <2>1, NilAssumption DEF Who
<1>3. \A k \in 1..(n + 3) : g[k] = Share(m, q[k], u, t, f)
  BY <1>1 DEF ShareOf
<1>. HIDE DEF g, r
<1>4. ASSUME NEW k \in 1..(n + 3), k # n + 1, k # n + 2 PROVE g[k] = 0
  <2>1. k = 1 \/ k \in 2..(n - 1) \/ k = n \/ k = n + 3
    BY <1>1, <1>4
  <2>2. q[k].do # "UpsertBalanceDelta"
    BY <1>1, <2>1, OwnAndDo DEF Status
  <2>. QED BY <1>3, <2>2 DEF Share
<1>5. g[n + 1] \in Int /\ g[n + 2] \in Int /\ g[n + 1] + g[n + 2] = Worth(m, e, u, t, f)
  <2>. DEFINE a == q[n + 1]
              b == q[n + 2]
  <2>1. g[n + 1] = Share(m, a, u, t, f) /\ g[n + 2] = Share(m, b, u, t, f)
    BY <1>1, <1>3
  <2>2. applyMovement(r) = <<a, b>>
    BY <1>1
  <2>. HIDE DEF a, b
  <2>3. \/ /\ r.type = "TRANSFER" /\ a = Delta(r.owner, r.token, -r.amount, 0)
           /\ b = Delta(r.counterparty, r.token, r.amount, 0)
        \/ /\ r.type = "ENCUMBRANCE" /\ a = Delta(r.owner, r.token, -r.amount, r.amount)
           /\ b.do = "InsertEncumbrance"
        \/ /\ r.type = "UNENCUMBRANCE" /\ a = Delta(r.owner, r.token, r.amount, -r.amount)
           /\ b.do = "ReleaseEncumbrance"
    BY <1>2, <2>2, MovementParts DEF r
  <2>4. CASE r.type = "TRANSFER"
    <3>1. /\ g[n + 1] = ShareOfDelta(m, r.owner, r.token, -r.amount, 0, u, t, f)
          /\ g[n + 2] = ShareOfDelta(m, r.counterparty, r.token, r.amount, 0, u, t, f)
      BY <2>1, <2>3, <2>4, DeltaShare
    <3>. QED BY <1>2, <1>9, <2>4, <3>1
           DEF ShareOfDelta, Worth, Part, Supplies, Draws, Earns, Pledge, Approved, Amount, Fields, r
  <2>5. CASE r.type = "ENCUMBRANCE"
    <3>1. /\ g[n + 1] = ShareOfDelta(m, r.owner, r.token, -r.amount, r.amount, u, t, f)
          /\ g[n + 2] = 0
      <4>1. Share(m, b, u, t, f) = 0
        BY <2>3, <2>5 DEF Share
      <4>. QED BY <2>1, <2>3, <2>5, <4>1, DeltaShare
    <3>. QED BY <1>2, <1>9, <2>5, <3>1
           DEF ShareOfDelta, Worth, Part, Supplies, Draws, Earns, Pledge, Approved, Amount, Fields, r
  <2>6. CASE r.type = "UNENCUMBRANCE"
    <3>1. /\ g[n + 1] = ShareOfDelta(m, r.owner, r.token, r.amount, -r.amount, u, t, f)
          /\ g[n + 2] = 0
      <4>1. Share(m, b, u, t, f) = 0
        BY <2>3, <2>6 DEF Share
      <4>. QED BY <2>1, <2>3, <2>6, <4>1, DeltaShare
    <3>. QED BY <1>2, <1>9, <2>6, <3>1
           DEF ShareOfDelta, Worth, Part, Supplies, Draws, Earns, Pledge, Approved, Amount, Fields, r
  <2>. QED BY <2>3, <2>4, <2>5, <2>6
<1>6. n + 3 \in Int /\ n + 1 \in 1..(n + 3) /\ n + 2 \in 1..(n + 3) /\ n + 1 # n + 2
      /\ Len(q) - 1 = n + 3
  BY <1>1
<1>7. IsFiniteSet(1..(n + 3))
  BY <1>6, FS_Interval
<1>8. Total(g, 1..(n + 3)) = g[n + 1] + g[n + 2]
  BY <1>4, <1>5, <1>6, <1>7, TotalPair
<1>. QED BY <1>5, <1>6, <1>8 DEF Shares, g

LEMMA SharesWorth ==
  ASSUME NEW x \in TxIds, NEW e \in EventOf(x), NEW q, q = EventCalls(e, x),
         NEW m, NEW u, NEW t, NEW f \in Fields
  PROVE  Shares(m, q, Len(q) - 1, u, t, f) = Worth(m, e, u, t, f)
<1>1. BalanceCalls(q, e)
  BY BalanceCallsAre
<1>2. Len(q) \in Nat /\ 2 <= Len(q) /\ q[1] = SaveEventOf(x)
  BY EventCallsAt
<1>3. CASE e.name \in {"MINT", "BURN"}
  BY <1>1, <1>2, <1>3, SupplyWorth DEF BalanceCalls
<1>4. CASE e.name = "APPROVED"
  BY <1>1, <1>2, <1>4, MovementWorth DEF BalanceCalls
<1>5. CASE e.name \notin {"MINT", "BURN", "APPROVED"}
  <2>1. \A k \in 1..Len(q) : q[k].do # "UpsertBalanceDelta"
    BY <1>1, <1>5 DEF BalanceCalls
  <2>2. Shares(m, q, Len(q) - 1, u, t, f) = 0
    BY <1>2, <2>1, SharesNone
  <2>3. Worth(m, e, u, t, f) = 0
    BY <1>5 DEF Worth, Part, Supplies, Draws, Earns, Pledge, Approved
  <2>. QED BY <2>2, <2>3
<1>. QED BY <1>3, <1>4, <1>5

(* Call c is not sent back where m maps the identities, and none of the      *)
(* calls 2 to j is.                                                          *)
Clear(m, c) == ~Malformed(c) /\ (c.do = "ResolveFabricIdentity" => m[c.identity] # Nil)
ClearTo(m, q, j) == \A k \in 2..j : Clear(m, q[k])

(* An event that is sent back has written no balance: all it names is        *)
(* resolved before, and what may still be sent back has an id that the       *)
(* status had too.                                                           *)
LEMMA SentBackEmpty ==
  ASSUME NEW x \in TxIds, NEW e \in EventOf(x), NEW q, q = EventCalls(e, x), NEW m,
         NEW j \in Nat, j + 1 \in 2..(Len(q) - 1), ClearTo(m, q, j), ~Clear(m, q[j + 1]),
         NEW u, NEW t, NEW f
  PROVE  Shares(m, q, j, u, t, f) = 0
<1>1. BalanceCalls(q, e)
  BY BalanceCallsAre
<1>2. Len(q) \in Nat /\ 2 <= Len(q) /\ q[1] = SaveEventOf(x)
  BY EventCallsAt
<1>3. SaveEventOf(x).do = "SaveEvent"
  BY OwnAndDo
<1>4. \A k \in 1..j : q[k].do # "UpsertBalanceDelta"
  <2>1. CASE e.name \in {"MINT", "BURN"}
    <3>1. /\ Len(q) = 4 /\ q[2] = Resolve(e.owner) /\ q[3].do = "UpsertBalanceDelta"
      BY <1>1, <2>1 DEF BalanceCalls, SupplyCalls, Delta
    <3>2. Clear(m, q[3])
      BY <3>1 DEF Clear, Malformed
    <3>3. j = 1
      BY <3>1, <3>2
    <3>. QED BY <1>2, <1>3, <3>3
  <2>2. CASE e.name = "APPROVED"
    <3>1. PICK n : MovementCalls(q, e.request, n)
      BY <1>1, <2>2 DEF BalanceCalls, Movement
    <3>. DEFINE a == q[n + 1]
                b == q[n + 2]
                r == e.request
    <3>2. /\ n \in {3, 4} /\ Len(q) = n + 4 /\ q[2] = Resolve(r.owner)
          /\ \A k \in 2..(n - 1) : q[k].do = "ResolveFabricIdentity"
          /\ q[n] = Status(r, "committed") /\ applyMovement(r) = <<a, b>>
          /\ q[n + 3].do = "InsertAuditTrail"
      BY <3>1 DEF MovementCalls
    <3>. HIDE DEF a, b, r
    <3>3. e \in Event
      BY DEF EventOf
    <3>4. /\ a.do = "UpsertBalanceDelta"
          /\ b.do \in {"UpsertBalanceDelta", "InsertEncumbrance", "ReleaseEncumbrance"}
          /\ b.do # "UpsertBalanceDelta" => b.id = r.id
      <4>1. \/ /\ r.type = "TRANSFER" /\ a = Delta(r.owner, r.token, -r.amount, 0)
               /\ b = Delta(r.counterparty, r.token, r.amount, 0)
            \/ /\ r.type = "ENCUMBRANCE" /\ a = Delta(r.owner, r.token, -r.amount, r.amount)
               /\ b.do = "InsertEncumbrance" /\ b.id = r.id
            \/ /\ r.type = "UNENCUMBRANCE" /\ a = Delta(r.owner, r.token, r.amount, -r.amount)
               /\ b.do = "ReleaseEncumbrance" /\ b.id = r.id
        BY <2>2, <3>2, <3>3, MovementParts DEF r
      <4>. QED BY <4>1 DEF Delta
    <3>5. ASSUME j + 1 > n PROVE FALSE
      <4>1. n \in 2..j /\ Clear(m, q[n])
        BY <3>2, <3>5 DEF ClearTo
      <4>2. r.id \in Uuids
        BY <3>2, <4>1 DEF Clear, Malformed, Status
      <4>3. j + 1 = n + 1 \/ j + 1 = n + 2 \/ j + 1 = n + 3
        BY <3>2, <3>5
      <4>4. Clear(m, a) /\ Clear(m, b) /\ Clear(m, q[n + 3])
        BY <3>2, <3>4, <4>2 DEF Clear, Malformed
      <4>. QED BY <4>3, <4>4 DEF a, b
    <3>6. ASSUME NEW k \in 1..j PROVE q[k].do # "UpsertBalanceDelta"
      <4>1. k = 1 \/ k \in 2..(n - 1)
        BY <3>2, <3>5, <3>6
      <4>. QED BY <1>2, <1>3, <3>2, <4>1
    <3>. QED BY <3>6
  <2>3. CASE e.name \notin {"MINT", "BURN", "APPROVED"}
    BY <1>1, <1>2, <2>3 DEF BalanceCalls
  <2>. QED BY <2>1, <2>2, <2>3
<1>. QED BY <1>2, <1>4, SharesNone

(* Who an event concerns was resolved before the call that concerns it.      *)
OwnersKnown(m, e) ==
  /\ e.name \in {"MINT", "BURN"} => e.owner \in Identities /\ m[e.owner] # Nil
  /\ e.name = "APPROVED" =>
       /\ e.request.owner \in Identities /\ m[e.request.owner] # Nil
       /\ e.request.type = "TRANSFER" /\ e.request.counterparty # Nil =>
            e.request.counterparty \in Identities /\ m[e.request.counterparty] # Nil

LEMMA ClearKnows ==
  ASSUME NEW x \in TxIds, NEW e \in EventOf(x), NEW q, q = EventCalls(e, x), NEW m,
         ClearTo(m, q, Len(q) - 1)
  PROVE  OwnersKnown(m, e)
<1>1. BalanceCalls(q, e)
  BY BalanceCallsAre
<1>2. ASSUME e.name \in {"MINT", "BURN"} PROVE e.owner \in Identities /\ m[e.owner] # Nil
  <2>1. Len(q) = 4 /\ q[2] = Resolve(e.owner)
    BY <1>1, <1>2 DEF BalanceCalls, SupplyCalls
  <2>2. Clear(m, q[2])
    BY <2>1 DEF ClearTo
  <2>3. e.owner \in Identities
    BY <1>2, EventNames DEF EventOf
  <2>. QED BY <2>1, <2>2, <2>3 DEF Clear, Resolve
<1>3. ASSUME e.name = "APPROVED"
      PROVE  /\ e.request.owner \in Identities /\ m[e.request.owner] # Nil
             /\ e.request.type = "TRANSFER" /\ e.request.counterparty # Nil =>
                  e.request.counterparty \in Identities /\ m[e.request.counterparty] # Nil
  <2>. DEFINE r == e.request
  <2>1. PICK n : MovementCalls(q, r, n)
    BY <1>1, <1>3 DEF BalanceCalls, Movement
  <2>2. r.owner \in Identities /\ r.counterparty \in Identities \cup {Nil}
    BY <1>3, RequestOf, RequestCalls DEF EventOf
  <2>. HIDE DEF r
  <2>3. /\ n \in {3, 4} /\ Len(q) = n + 4 /\ q[2] = Resolve(r.owner)
        /\ (r.type = "TRANSFER" /\ r.counterparty # Nil => n = 4 /\ q[3] = Resolve(r.counterparty))
    BY <2>1 DEF MovementCalls
  <2>4. Clear(m, q[2]) /\ (n = 4 => Clear(m, q[3]))
    BY <2>3 DEF ClearTo
  <2>5. m[r.owner] # Nil /\ (r.type = "TRANSFER" /\ r.counterparty # Nil => m[r.counterparty] # Nil)
    BY <2>3, <2>4 DEF Clear, Resolve
  <2>. QED BY <2>2, <2>5 DEF r
<1>. QED BY <1>2, <1>3 DEF OwnersKnown

(* Before a call writes a balance, its owner was resolved, if it names one. *)
LEMMA ClearOwner ==
  ASSUME NEW x \in TxIds, NEW e \in EventOf(x), NEW q, q = EventCalls(e, x), NEW m,
         NEW j \in Nat, j <= Len(q) - 1, ClearTo(m, q, j), NEW k \in 1..j,
         q[k].do = "UpsertBalanceDelta"
  PROVE  q[k].owner = Nil \/ (q[k].owner \in Identities /\ m[q[k].owner] # Nil)
<1>1. BalanceCalls(q, e)
  BY BalanceCallsAre
<1>2. Len(q) \in Nat /\ 2 <= Len(q) /\ q[1] = SaveEventOf(x)
  BY EventCallsAt
<1>3. SaveEventOf(x).do = "SaveEvent"
  BY OwnAndDo
<1>4. k # 1
  BY <1>2, <1>3
<1>5. CASE e.name \in {"MINT", "BURN"}
  <2>1. Len(q) = 4 /\ q[2] = Resolve(e.owner) /\ q[3].do = "UpsertBalanceDelta" /\ q[3].owner = e.owner
    BY <1>1, <1>5 DEF BalanceCalls, SupplyCalls, Delta
  <2>2. k = 3
    BY <1>4, <2>1 DEF Resolve
  <2>3. Clear(m, q[2])
    BY <2>2 DEF ClearTo
  <2>4. e.owner \in Identities
    BY <1>5, EventNames DEF EventOf
  <2>. QED BY <2>1, <2>2, <2>3, <2>4 DEF Clear, Resolve
<1>6. CASE e.name = "APPROVED"
  <2>. DEFINE r == e.request
  <2>1. PICK n : MovementCalls(q, r, n)
    BY <1>1, <1>6 DEF BalanceCalls, Movement
  <2>2. r.owner \in Identities /\ r.counterparty \in Identities \cup {Nil}
    BY <1>6, RequestOf, RequestCalls DEF EventOf
  <2>. DEFINE a == q[n + 1]
              b == q[n + 2]
  <2>3. /\ n \in {3, 4} /\ Len(q) = n + 4 /\ q[2] = Resolve(r.owner)
        /\ \A i \in 2..(n - 1) : q[i].do = "ResolveFabricIdentity"
        /\ r.type = "TRANSFER" /\ r.counterparty # Nil => n = 4 /\ q[3] = Resolve(r.counterparty)
        /\ q[n] = Status(r, "committed") /\ applyMovement(r) = <<a, b>>
        /\ q[n + 3].do = "InsertAuditTrail"
    BY <2>1 DEF MovementCalls
  <2>. HIDE DEF a, b
  <2>4. \/ /\ r.type = "TRANSFER" /\ a = Delta(r.owner, r.token, -r.amount, 0)
           /\ b = Delta(r.counterparty, r.token, r.amount, 0)
        \/ /\ r.type = "ENCUMBRANCE" /\ a = Delta(r.owner, r.token, -r.amount, r.amount)
           /\ b.do = "InsertEncumbrance" /\ b.id = r.id
        \/ /\ r.type = "UNENCUMBRANCE" /\ a = Delta(r.owner, r.token, r.amount, -r.amount)
           /\ b.do = "ReleaseEncumbrance" /\ b.id = r.id
    BY <1>6, <2>3, MovementParts DEF EventOf
  <2>. HIDE DEF r
  <2>5. k = n + 1 \/ (k = n + 2 /\ r.type = "TRANSFER")
    <3>1. k \in 2..(n - 1) \/ k = n \/ k = n + 1 \/ k = n + 2 \/ k = n + 3
      <4>1. k \in 1..(n + 3) /\ k # 1 /\ n \in {3, 4}
        <5>1. j \in Nat /\ j <= Len(q) - 1 /\ Len(q) = n + 4 /\ n \in {3, 4}
          BY <2>3
        <5>. QED BY <1>4, <5>1
      <4>. QED BY <4>1
    <3>2. CASE k = n + 2
      BY <2>4, <3>2 DEF b
    <3>. QED BY <2>3, <3>1, <3>2 DEF Status
  <2>6. Clear(m, q[2]) /\ (n = 4 => Clear(m, q[3]))
    BY <2>3, <2>5 DEF ClearTo
  <2>7. m[r.owner] # Nil /\ (r.type = "TRANSFER" /\ r.counterparty # Nil => m[r.counterparty] # Nil)
    BY <2>3, <2>6 DEF Clear, Resolve
  <2>8. CASE k = n + 1
    <3>1. q[k].owner = r.owner
      BY <2>4, <2>8 DEF a, Delta
    <3>. QED BY <2>2, <2>7, <3>1
  <2>9. CASE k = n + 2 /\ r.type = "TRANSFER"
    <3>1. q[k].owner = r.counterparty
      BY <2>4, <2>9 DEF b, Delta
    <3>. QED BY <2>2, <2>7, <2>9, <3>1
  <2>. QED BY <2>5, <2>8, <2>9
<1>7. CASE e.name \notin {"MINT", "BURN", "APPROVED"}
  BY <1>1, <1>2, <1>7 DEF BalanceCalls
<1>. QED BY <1>5, <1>6, <1>7

(* The sums over the transactions xs that a balance is compared with, and    *)
(* the field f of the balance they make.                                     *)
SuppliesOf(m, xs, name, u, t) == {x \in xs : Supplies(m, x.event, name, u, t)}
DrawsOf(m, xs, type, u, t) == {x \in xs : Draws(m, x.event, type, u, t)}
EarnsOf(m, xs, u, t) == {x \in xs : Earns(m, x.event, u, t)}
PledgeOf(m, xs, u, t) ==
  SumOf(DrawsOf(m, xs, "ENCUMBRANCE", u, t)) - SumOf(DrawsOf(m, xs, "UNENCUMBRANCE", u, t))
Credit(m, xs, u, t, f) ==
  IF f = "encumbered" THEN PledgeOf(m, xs, u, t)
  ELSE SumOf(SuppliesOf(m, xs, "MINT", u, t)) - SumOf(SuppliesOf(m, xs, "BURN", u, t))
         - SumOf(DrawsOf(m, xs, "TRANSFER", u, t)) + SumOf(EarnsOf(m, xs, u, t))
         - PledgeOf(m, xs, u, t)

(* A balance is worth what the property says. *)
LEMMA CreditIsProperty ==
  ASSUME NEW xs, NEW u, NEW t
  PROVE  /\ Credit(mapping, xs, u, t, "encumbered") = Pledged(xs, u, t)
         /\ Credit(mapping, xs, u, t, "available") =
              Supplied(xs, "MINT", u, t) - Supplied(xs, "BURN", u, t)
                - Drawn(xs, "TRANSFER", u, t) + Received(xs, u, t) - Pledged(xs, u, t)
<1>1. \A name : SuppliesOf(mapping, xs, name, u, t)
                  = {x \in xs : /\ x.event.name = name /\ x.event.token = t
                                /\ mapping[x.event.owner] = u}
  BY DEF SuppliesOf, Supplies
<1>2. \A type : DrawsOf(mapping, xs, type, u, t)
                  = {x \in xs : Approved(type, t, x.event) /\ mapping[x.event.request.owner] = u}
  BY DEF DrawsOf, Draws
<1>3. EarnsOf(mapping, xs, u, t)
        = {x \in xs : /\ Approved("TRANSFER", t, x.event)
                      /\ UserOf(x.event.request.counterparty) = u}
  BY DEF EarnsOf, Earns, Who, UserOf
<1>4. \A name : Supplied(xs, name, u, t) = SumOf(SuppliesOf(mapping, xs, name, u, t))
  BY <1>1 DEF Supplied
<1>5. \A type : Drawn(xs, type, u, t) = SumOf(DrawsOf(mapping, xs, type, u, t))
  BY <1>2 DEF Drawn
<1>6. Received(xs, u, t) = SumOf(EarnsOf(mapping, xs, u, t))
  BY <1>3 DEF Received
<1>. QED BY <1>4, <1>5, <1>6 DEF Credit, PledgeOf, Pledged

(* A sum with one transaction more. *)
Grown(a, b, part) == a \in Int /\ b \in Int /\ part \in Int /\ b = a + part

LEMMA SumJoins ==
  ASSUME NEW S, IsFiniteSet(S), NEW y, y \notin S, NEW counts \in BOOLEAN,
         \A x \in S : Amount(x.event) \in Int, counts => Amount(y.event) \in Int,
         NEW T, T = IF counts THEN S \cup {y} ELSE S
  PROVE  Grown(SumOf(S), SumOf(T), Part(counts, y.event))
<1>. DEFINE g == [x \in S |-> Amount(x.event)]
            h == [x \in T |-> Amount(x.event)]
<1>1. SumOf(S) = Total(g, S) /\ SumOf(T) = Total(h, T)
  BY DEF SumOf
<1>2. \A x \in S : g[x] = Amount(x.event) /\ h[x] = g[x] /\ g[x] \in Int
  OBVIOUS
<1>3. counts => h[y] = Amount(y.event) /\ h[y] \in Int
  OBVIOUS
<1>. HIDE DEF g, h
<1>4. Total(g, S) \in Int /\ Total(h, S) = Total(g, S)
  <2>1. Total(g, S) \in Int
    BY <1>2, TotalInt
  <2>2. \A x \in S : h[x] = g[x]
    BY <1>2
  <2>3. Total(h, S) = Total(g, S)
    BY <2>2, TotalAgrees
  <2>. QED BY <2>1, <2>3
<1>5. CASE ~counts
  <2>1. T = S
    BY <1>5
  <2>. QED BY <1>1, <1>4, <1>5, <2>1 DEF Grown, Part
<1>6. CASE counts
  <2>1. \A x \in S \cup {y} : h[x] \in Int
    BY <1>2, <1>3, <1>6
  <2>2. Total(h, S \cup {y}) = Total(h, S) + h[y]
    BY <2>1, TotalAdd
  <2>3. T = S \cup {y}
    BY <1>6
  <2>. QED BY <1>1, <1>3, <1>4, <1>6, <2>2, <2>3 DEF Grown, Part
<1>. QED BY <1>5, <1>6

Evented(xs) == IsFiniteSet(xs) /\ \A x \in xs : x.event \in Event

LEMMA AmountInt ==
  ASSUME NEW e \in Event, e.name \in {"MINT", "BURN", "APPROVED"}
  PROVE  Amount(e) \in Int
<1>1. e.name \in {"MINT", "BURN"} => e.amount \in Int
  BY EventNames
<1>2. e.name = "APPROVED" => e.request.amount \in Int
  BY RequestOf DEF Request
<1>. QED BY <1>1, <1>2 DEF Amount

(* The balance of xs and one transaction more. *)
LEMMA CreditJoins ==
  ASSUME NEW xs, Evented(xs), NEW y, y.event \in Event, y \notin xs, NEW ys, ys = xs \cup {y},
         NEW m, NEW u, NEW t, NEW f
  PROVE  Grown(Credit(m, xs, u, t, f), Credit(m, ys, u, t, f), Worth(m, y.event, u, t, f))
<1>1. ASSUME NEW name \in {"MINT", "BURN"}
      PROVE  Grown(SumOf(SuppliesOf(m, xs, name, u, t)), SumOf(SuppliesOf(m, ys, name, u, t)),
                   Part(Supplies(m, y.event, name, u, t), y.event))
  <2>. DEFINE S == SuppliesOf(m, xs, name, u, t)
              T == SuppliesOf(m, ys, name, u, t)
              c == Supplies(m, y.event, name, u, t)
  <2>1. /\ S \subseteq xs /\ y \notin S /\ c \in BOOLEAN
        /\ T = IF c THEN S \cup {y} ELSE S
    BY DEF SuppliesOf, Supplies
  <2>2. /\ \A x \in S : x.event \in Event /\ x.event.name \in {"MINT", "BURN", "APPROVED"}
        /\ c => y.event.name \in {"MINT", "BURN", "APPROVED"}
    BY <2>1 DEF SuppliesOf, Supplies, Evented
  <2>3. IsFiniteSet(S)
    BY <2>1, FS_Subset DEF Evented
  <2>. HIDE DEF S, T, c
  <2>4. (\A x \in S : Amount(x.event) \in Int) /\ (c => Amount(y.event) \in Int)
    BY <2>2, AmountInt
  <2>5. Grown(SumOf(S), SumOf(T), Part(c, y.event))
    BY <2>1, <2>3, <2>4, SumJoins
  <2>. QED BY <2>5 DEF S, T, c
<1>2. ASSUME NEW type \in {"TRANSFER", "ENCUMBRANCE", "UNENCUMBRANCE"}
      PROVE  Grown(SumOf(DrawsOf(m, xs, type, u, t)), SumOf(DrawsOf(m, ys, type, u, t)),
                   Part(Draws(m, y.event, type, u, t), y.event))
  <2>. DEFINE S == DrawsOf(m, xs, type, u, t)
              T == DrawsOf(m, ys, type, u, t)
              c == Draws(m, y.event, type, u, t)
  <2>1. /\ S \subseteq xs /\ y \notin S /\ c \in BOOLEAN
        /\ T = IF c THEN S \cup {y} ELSE S
    BY DEF DrawsOf, Draws, Approved
  <2>2. /\ \A x \in S : x.event \in Event /\ x.event.name \in {"MINT", "BURN", "APPROVED"}
        /\ c => y.event.name \in {"MINT", "BURN", "APPROVED"}
    BY <2>1 DEF DrawsOf, Draws, Approved, Evented
  <2>3. IsFiniteSet(S)
    BY <2>1, FS_Subset DEF Evented
  <2>. HIDE DEF S, T, c
  <2>4. (\A x \in S : Amount(x.event) \in Int) /\ (c => Amount(y.event) \in Int)
    BY <2>2, AmountInt
  <2>5. Grown(SumOf(S), SumOf(T), Part(c, y.event))
    BY <2>1, <2>3, <2>4, SumJoins
  <2>. QED BY <2>5 DEF S, T, c
<1>3. Grown(SumOf(EarnsOf(m, xs, u, t)), SumOf(EarnsOf(m, ys, u, t)),
            Part(Earns(m, y.event, u, t), y.event))
  <2>. DEFINE S == EarnsOf(m, xs, u, t)
              T == EarnsOf(m, ys, u, t)
              c == Earns(m, y.event, u, t)
  <2>1. /\ S \subseteq xs /\ y \notin S /\ c \in BOOLEAN
        /\ T = IF c THEN S \cup {y} ELSE S
    BY DEF EarnsOf, Earns, Approved
  <2>2. /\ \A x \in S : x.event \in Event /\ x.event.name \in {"MINT", "BURN", "APPROVED"}
        /\ c => y.event.name \in {"MINT", "BURN", "APPROVED"}
    BY <2>1 DEF EarnsOf, Earns, Approved, Evented
  <2>3. IsFiniteSet(S)
    BY <2>1, FS_Subset DEF Evented
  <2>. HIDE DEF S, T, c
  <2>4. (\A x \in S : Amount(x.event) \in Int) /\ (c => Amount(y.event) \in Int)
    BY <2>2, AmountInt
  <2>5. Grown(SumOf(S), SumOf(T), Part(c, y.event))
    BY <2>1, <2>3, <2>4, SumJoins
  <2>. QED BY <2>5 DEF S, T, c
<1>. QED BY <1>1, <1>2, <1>3 DEF Grown, Credit, PledgeOf, Worth, Pledge

(* Identities that come to be mapped later do not matter. *)
Extends(m, n) == \A i \in Identities : m[i] # Nil => n[i] = m[i]

LEMMA CreditKept ==
  ASSUME NEW xs, NEW m, NEW n, Extends(m, n), \A x \in xs : OwnersKnown(m, x.event),
         NEW u \in Users, NEW t, NEW f
  PROVE  Credit(n, xs, u, t, f) = Credit(m, xs, u, t, f)
<1>1. \A name \in {"MINT", "BURN"} : SuppliesOf(n, xs, name, u, t) = SuppliesOf(m, xs, name, u, t)
  BY DEF SuppliesOf, Supplies, OwnersKnown, Extends
<1>2. \A type : DrawsOf(n, xs, type, u, t) = DrawsOf(m, xs, type, u, t)
  BY DEF DrawsOf, Draws, OwnersKnown, Extends, Approved
<1>3. EarnsOf(n, xs, u, t) = EarnsOf(m, xs, u, t)
  BY DEF EarnsOf, Earns, Who, OwnersKnown, Extends, Approved
<1>. QED BY <1>1, <1>2, <1>3 DEF Credit, PledgeOf

LEMMA SharesKept ==
  ASSUME NEW q, NEW j \in Nat, j <= Len(q), Len(q) \in Nat, NEW m, NEW n, Extends(m, n),
         \A k \in 1..j : q[k].do = "UpsertBalanceDelta" =>
           q[k].owner = Nil \/ (q[k].owner \in Identities /\ m[q[k].owner] # Nil),
         NEW u, NEW t, NEW f
  PROVE  Shares(n, q, j, u, t, f) = Shares(m, q, j, u, t, f)
<1>. DEFINE g == ShareOf(n, q, u, t, f)
            h == ShareOf(m, q, u, t, f)
<1>1. \A k \in 1..j : g[k] = h[k]
  BY DEF ShareOf, Share, Who, Extends
<1>. HIDE DEF g, h
<1>2. IsFiniteSet(1..j)
  BY FS_Interval
<1>3. Total(g, 1..j) = Total(h, 1..j)
  BY <1>1, <1>2, TotalAgrees
<1>. QED BY <1>3 DEF Shares, g, h

(* What a processor has behind it of an event was not sent back, nor was any *)
(* call of a processed event.                                                *)
Passed ==
  /\ \A p \in Processors : \A h, i, j : In(p, h, i, j) => ClearTo(mapping, CallsAt(h, i), j)
  /\ \A h \in DOMAIN chain : \A i :
       EventfulAt(chain[h], i) /\ db.events[IdAt(h, i)] = "processed" =>
         ClearTo(mapping, CallsAt(h, i), Len(CallsAt(h, i)) - 1)

LEMMA PassedSuffices ==
  ASSUME chain' = chain,
         \A p \in Processors : \A h, i, j : In(p, h, i, j)' => ClearTo(mapping', CallsAt(h, i), j),
         \A h \in DOMAIN chain : \A i :
           EventfulAt(chain[h], i) /\ db'.events[IdAt(h, i)] = "processed" =>
             ClearTo(mapping', CallsAt(h, i), Len(CallsAt(h, i)) - 1)
  PROVE  Passed'
  BY DEF Passed, CallsAt, EventAt, IdAt

LEMMA ClearIsPassed == ASSUME NEW c PROVE Clear(mapping, c) <=> ~Blocked(c)
  BY DEF Clear, Blocked

LEMMA ClearSame ==
  ASSUME NEW c, NEW d, SameCall(c, d), NEW m PROVE Clear(m, c) <=> Clear(m, d)
<1>1. CASE c = d
  BY <1>1
<1>2. CASE c # d
  <2>1. c.do = "InsertOperationFromEvent" /\ d.do = "InsertOperationFromEvent"
    BY <1>2 DEF SameCall
  <2>2. PICK x \in TxIds : c \in Projecting(x) /\ d \in Projecting(x)
    BY <1>2 DEF SameCall
  <2>3. c.id = x /\ d.id = x
    BY <2>1, <2>2 DEF Projecting
  <2>. QED BY <2>1, <2>3 DEF Clear, Malformed
<1>. QED BY <1>1, <1>2

LEMMA ClearGrows ==
  ASSUME NEW x, NEW c \in Projecting(x), NEW m, NEW n, Extends(m, n), Clear(m, c)
  PROVE  Clear(n, c)
<1>1. c.do = "ResolveFabricIdentity" => c.identity \in Identities
  BY DEF Projecting
<1>. QED BY <1>1 DEF Clear, Extends

LEMMA PassedMoves ==
  ASSUME Ingest, Passed, NEW p \in Processors, Current(p), Moves(p) PROVE Passed'
<1>1. chain' = chain /\ mapping' = mapping /\ chain \in Chains
  BY DEF Moves, Ingest, Shape
<1>2. ASSUME NEW r \in Processors, NEW h, NEW i, NEW j, In(r, h, i, j)'
      PROVE  ClearTo(mapping, CallsAt(h, i), j)
  <2>1. CASE r # p
    <3>1. In(r, h, i, j)
      BY <1>2, <2>1, InStayer
    <3>. QED BY <3>1 DEF Passed
  <2>2. CASE r = p
    <3>1. /\ Calls(p) /\ h \in DOMAIN chain /\ j \in Nat /\ j \in 1..Len(CallsAt(h, i))
          /\ SameCall(Head(todo[p]), CallsAt(h, i)[j])
          /\ j # 1 => In(p, h, i, j - 1)
      BY <1>2, <2>2, InMover
    <3>2. ASSUME j # 1 PROVE ClearTo(mapping, CallsAt(h, i), j - 1)
      BY <3>1, <3>2 DEF Passed
    <3>3. Clear(mapping, CallsAt(h, i)[j])
      <4>1. ~Blocked(Head(todo[p]))
        BY <3>1 DEF Calls, Passes
      <4>2. Clear(mapping, Head(todo[p]))
        BY <4>1, ClearIsPassed
      <4>. QED BY <3>1, <4>2, ClearSame
    <3>4. ASSUME NEW k \in 2..j PROVE Clear(mapping, CallsAt(h, i)[k])
      <4>1. k = j \/ (j # 1 /\ k \in 2..(j - 1))
        BY <3>1, <3>4
      <4>. QED BY <3>2, <3>3, <4>1 DEF ClearTo
    <3>. QED BY <3>4 DEF ClearTo
  <2>. QED BY <2>1, <2>2
<1>3. ASSUME NEW h \in DOMAIN chain, NEW i, EventfulAt(chain[h], i),
             db'.events[IdAt(h, i)] = "processed"
      PROVE  ClearTo(mapping, CallsAt(h, i), Len(CallsAt(h, i)) - 1)
  <2>1. CASE db.events[IdAt(h, i)] = "processed"
    BY <1>3, <2>1 DEF Passed
  <2>2. CASE db.events[IdAt(h, i)] # "processed"
    <3>1. In(p, h, i, Len(CallsAt(h, i)) - 1)
      BY <1>3, <2>2, MarkedHere
    <3>. QED BY <3>1 DEF Passed
  <2>. QED BY <2>1, <2>2
<1>. QED BY <1>1, <1>2, <1>3, PassedSuffices, Zenon

(* Identities only come to be mapped. *)
LEMMA MapExtends ==
  ASSUME Ingest, MapIdentity \/ UNCHANGED vars PROVE Extends(mapping, mapping')
<1>1. mapping \in [Identities -> Users \cup {Nil}]
  BY DEF Ingest, Shape, MappingType
<1>. QED BY <1>1 DEF MapIdentity, vars, Extends

(* The calls of an event that a processor has behind it. *)
LEMMA InCalls ==
  ASSUME Ingest, NEW p \in Processors, NEW h, NEW i, NEW j, In(p, h, i, j),
         NEW q, q = CallsAt(h, i)
  PROVE  /\ h \in DOMAIN chain /\ EventfulAt(chain[h], i)
         /\ j \in Nat /\ Len(q) \in Nat /\ j + 1 \in 2..Len(q)
         /\ \A k \in 2..j : q[k] \in Projecting(IdAt(h, i))
<1>1. chain \in Chains
  BY DEF Ingest, Shape
<1>2. h \in DOMAIN chain /\ EventfulAt(chain[h], i) /\ j \in Nat /\ j + 1 \in 2..Len(q)
  BY <1>1, InHead
<1>3. Len(q) \in Nat /\ \A k \in 2..(Len(q) - 1) : q[k] \in Projecting(IdAt(h, i))
  BY <1>1, <1>2, EventsAt
<1>. QED BY <1>2, <1>3

LEMMA PassedMapped ==
  ASSUME Ingest, Passed, MapIdentity \/ UNCHANGED vars PROVE Passed'
<1>1. /\ chain' = chain /\ next' = next /\ todo' = todo /\ db' = db /\ chain \in Chains
      /\ Extends(mapping, mapping')
  BY MapExtends DEF MapIdentity, vars, Ingest, Shape
<1>. DEFINE n == mapping'
<1>. HIDE DEF n
<1>2. Extends(mapping, n)
  BY <1>1 DEF n
<1>3. ASSUME NEW r \in Processors, NEW h, NEW i, NEW j, In(r, h, i, j)'
      PROVE  ClearTo(n, CallsAt(h, i), j)
  <2>1. In(r, h, i, j)
    BY <1>1, <1>3, InSame
  <2>2. ClearTo(mapping, CallsAt(h, i), j)
    BY <2>1 DEF Passed
  <2>3. \A k \in 2..j : CallsAt(h, i)[k] \in Projecting(IdAt(h, i))
    BY <2>1, InCalls
  <2>. QED BY <1>2, <2>2, <2>3, ClearGrows DEF ClearTo
<1>4. ASSUME NEW h \in DOMAIN chain, NEW i, EventfulAt(chain[h], i),
             db.events[IdAt(h, i)] = "processed"
      PROVE  ClearTo(n, CallsAt(h, i), Len(CallsAt(h, i)) - 1)
  <2>1. ClearTo(mapping, CallsAt(h, i), Len(CallsAt(h, i)) - 1)
    BY <1>4 DEF Passed
  <2>2. \A k \in 2..(Len(CallsAt(h, i)) - 1) : CallsAt(h, i)[k] \in Projecting(IdAt(h, i))
    BY <1>1, <1>4, EventsAt
  <2>. QED BY <1>2, <2>1, <2>2, ClearGrows DEF ClearTo
<1>5. /\ \A p \in Processors : \A h, i, j : In(p, h, i, j)' => ClearTo(mapping', CallsAt(h, i), j)
      /\ \A h \in DOMAIN chain : \A i :
           EventfulAt(chain[h], i) /\ db'.events[IdAt(h, i)] = "processed" =>
             ClearTo(mapping', CallsAt(h, i), Len(CallsAt(h, i)) - 1)
  BY <1>1, <1>3, <1>4 DEF n
<1>. QED BY <1>1, <1>5, PassedSuffices, Zenon

(* What call c adds to the balances, with the identities as they are mapped. *)
Adds(d, e, c) ==
  \A u \in Users, t \in Tokens, f \in Fields :
    /\ d.balances[u][t][f] \in Int
    /\ e.balances[u][t][f] = d.balances[u][t][f] + Share(mapping, c, u, t, f)

LEMMA AddsNothing ==
  ASSUME NEW d \in Database, NEW e, e.balances = d.balances, NEW c, c.do # "UpsertBalanceDelta"
  PROVE  Adds(d, e, c)
<1>1. d.balances \in [Users -> [Tokens -> Balance]]
  BY DEF Database
<1>2. ASSUME NEW u \in Users, NEW t \in Tokens, NEW f \in Fields
      PROVE  d.balances[u][t][f] \in Int /\ Share(mapping, c, u, t, f) = 0
  <2>1. d.balances[u] \in [Tokens -> Balance]
    BY <1>1
  <2>2. d.balances[u][t] \in Balance
    BY <2>1
  <2>. QED BY <2>2 DEF Balance, Fields, Share
<1>. QED BY <1>2 DEF Adds

LEMMA DeltaAdds ==
  ASSUME NEW d \in Database, NEW c, c.do = "UpsertBalanceDelta", c.token \in Tokens,
         c.available \in Int, c.encumbered \in Int,
         NEW e, e = UpsertBalanceDelta(d, UserOf(c.owner), c.token, c.available, c.encumbered)
  PROVE  Adds(d, e, c)
<1>. DEFINE v == UserOf(c.owner)
            s == c.token
            a == c.available
            b == c.encumbered
            row == [available  |-> d.balances[v][s].available + a,
                    encumbered |-> d.balances[v][s].encumbered + b,
                    version    |-> d.balances[v][s].version + 1]
            mine == [d.balances[v] EXCEPT ![s] = row]
            bs == [d.balances EXCEPT ![v] = mine]
<1>1. d.balances \in [Users -> [Tokens -> Balance]]
  BY DEF Database
<1>2. e.balances = bs
  <2>1. e = [d EXCEPT !.balances = bs]
    BY DEF UpsertBalanceDelta
  <2>. HIDE DEF bs
  <2>. QED BY <2>1 DEF Database
<1>3. s \in Tokens /\ a \in Int /\ b \in Int
  OBVIOUS
<1>. SUFFICES ASSUME NEW u \in Users, NEW t \in Tokens, NEW f \in Fields
              PROVE  /\ d.balances[u][t][f] \in Int
                     /\ e.balances[u][t][f] = d.balances[u][t][f] + Share(mapping, c, u, t, f)
  BY DEF Adds
<1>4. d.balances[u] \in [Tokens -> Balance]
  BY <1>1
<1>5. d.balances[u][t] \in Balance
  BY <1>4
<1>6. d.balances[u][t][f] \in Int
  BY <1>5 DEF Balance, Fields
<1>7. Share(mapping, c, u, t, f) = IF s = t /\ v = u THEN c[f] ELSE 0
  BY DEF Share, Who, UserOf
<1>8. CASE v = u /\ s = t
  <2>1. bs[u] = mine
    <3>. HIDE DEF mine
    <3>. QED BY <1>1, <1>8
  <2>2. mine[t] = row
    <3>. HIDE DEF row
    <3>1. d.balances[v] \in [Tokens -> Balance]
      BY <1>4, <1>8
    <3>. QED BY <3>1, <1>8
  <2>3. row[f] = d.balances[u][t][f] + c[f]
    BY <1>8 DEF Fields
  <2>. HIDE DEF row, mine, bs, v, s
  <2>. QED BY <1>2, <1>6, <1>7, <1>8, <2>1, <2>2, <2>3
<1>9. CASE v = u /\ s # t
  <2>1. bs[u] = mine
    <3>. HIDE DEF mine
    <3>. QED BY <1>1, <1>9
  <2>2. mine[t] = d.balances[u][t]
    <3>. HIDE DEF row
    <3>1. d.balances[v] \in [Tokens -> Balance] /\ d.balances[v] = d.balances[u]
      BY <1>4, <1>9
    <3>. QED BY <3>1, <1>9
  <2>. HIDE DEF row, mine, bs, v, s
  <2>. QED BY <1>2, <1>6, <1>7, <1>9, <2>1, <2>2
<1>10. CASE v # u
  <2>1. bs[u] = d.balances[u]
    <3>. HIDE DEF mine
    <3>. QED BY <1>1, <1>10
  <2>. HIDE DEF row, mine, bs, v, s
  <2>. QED BY <1>2, <1>6, <1>7, <1>10, <2>1
<1>. QED BY <1>8, <1>9, <1>10

LEMMA EffectBalances ==
  ASSUME NEW d \in Database, NEW x \in TxIds, NEW c \in Projecting(x), c.do \in Writes,
         NEW e, e = Effect(d, c)
  PROVE  Adds(d, e, c)
<1>1. CASE c.do = "UpsertBalanceDelta"
  <2>1. c.token \in Tokens /\ c.available \in Int /\ c.encumbered \in Int
    BY <1>1, WriteFields
  <2>2. e = UpsertBalanceDelta(d, UserOf(c.owner), c.token, c.available, c.encumbered)
    BY <1>1 DEF Effect
  <2>. QED BY <1>1, <2>1, <2>2, DeltaAdds
<1>2. CASE c.do = "UpsertTokenPrice"
  <2>1. e = UpsertTokenPrice(d, c.token, c.price)
    BY <1>2 DEF Effect
  <2>2. e.balances = d.balances
    BY <2>1 DEF UpsertTokenPrice, Database
  <2>. QED BY <1>2, <2>2, AddsNothing
<1>3. CASE c.do = "InsertOperationFromEvent"
  <2>. DEFINE row == [c.row EXCEPT !.requestedBy = mapping[@]]
  <2>1. e = InsertOperationFromEvent(d, c.id, row)
    BY <1>3 DEF Effect
  <2>. HIDE DEF row
  <2>2. e.balances = d.balances
    BY <2>1 DEF InsertOperationFromEvent, Database
  <2>. QED BY <1>3, <2>2, AddsNothing
<1>4. CASE c.do = "SetOperationStatus"
  <2>1. e = SetOperationStatus(d, c.id, c.status)
    BY <1>4 DEF Effect
  <2>2. e.balances = d.balances
    BY <2>1 DEF SetOperationStatus, Database
  <2>. QED BY <1>4, <2>2, AddsNothing
<1>5. CASE c.do = "InsertEncumbrance"
  <2>. DEFINE u == mapping[c.owner]
  <2>1. e = InsertEncumbrance(d, u, c.token, c.amount, c.id)
    BY <1>5 DEF Effect
  <2>. HIDE DEF u
  <2>2. e.balances = d.balances
    BY <2>1 DEF InsertEncumbrance, Database
  <2>. QED BY <1>5, <2>2, AddsNothing
<1>6. CASE c.do = "ReleaseEncumbrance"
  <2>1. e = ReleaseEncumbrance(d, c.id)
    BY <1>6 DEF Effect
  <2>2. e.balances = d.balances
    BY <2>1 DEF ReleaseEncumbrance, Database
  <2>. QED BY <1>6, <2>2, AddsNothing
<1>7. CASE c.do = "InsertAuditTrail"
  <2>1. e = InsertAuditTrail(d, c.id, c.status, c.tx)
    BY <1>7 DEF Effect
  <2>2. e.balances = d.balances
    BY <2>1 DEF InsertAuditTrail, Database
  <2>. QED BY <1>7, <2>2, AddsNothing
<1>. QED BY <1>1, <1>2, <1>3, <1>4, <1>5, <1>6, <1>7 DEF Writes

LEMMA MadeBalances ==
  ASSUME NEW d \in Database, NEW h, NEW c \in AnyCall, NEW e, Made(d, h, c, e)
  PROVE  Adds(d, e, c)
<1>1. CASE c.do \in Writes
  <2>1. e = Effect(d, c)
    BY <1>1 DEF Made, Writes
  <2>2. PICK x \in TxIds : c \in Projecting(x)
    BY <1>1, CallFields DEF Projections
  <2>. QED BY <1>1, <2>1, <2>2, EffectBalances
<1>2. CASE c.do \notin Writes
  <2>1. e.balances = d.balances
    BY <1>2 DEF Made, Database, SaveBlock, SaveTransaction, SaveInvalidTransaction, SaveEvent,
                MarkEventProcessed, UpdateCheckpoint
  <2>2. c.do # "UpsertBalanceDelta"
    BY <1>2 DEF Writes
  <2>. QED BY <2>1, <2>2, AddsNothing
<1>. QED BY <1>1, <1>2

(* Only a call that p makes changes a balance. *)
LEMMA MovesBalances ==
  ASSUME Ingest, NEW p \in Processors, Moves(p)
  PROVE  IF Calls(p) THEN Adds(db, db', Head(todo[p])) ELSE db'.balances = db.balances
<1>1. db \in Database
  BY DEF Ingest, Shape
<1>2. ASSUME Calls(p) PROVE Adds(db, db', Head(todo[p]))
  <2>1. phase[p] = "running" /\ todo[p] # <<>> /\ Made(db, next[p], Head(todo[p]), db')
    BY <1>2 DEF Calls, Busy
  <2>2. HeadIn(p)
    BY <2>1, HeadGrounded
  <2>3. Head(todo[p]) \in AnyCall
    BY <2>2 DEF HeadIn, Grounded
  <2>. QED BY <1>1, <2>1, <2>3, MadeBalances
<1>3. ASSUME ~Calls(p) PROVE db'.balances = db.balances
  <2>1. db' = db \/ \E h, s : db' = UpdateCheckpoint(db, h, s)
    BY <1>3 DEF Moves, Does, Idles, Subscribes, Receives, Skips, Completes
  <2>. QED BY <1>1, <2>1 DEF UpdateCheckpoint, Database
<1>. QED BY <1>2, <1>3

(* The processed transactions are finitely many, and have events. *)
LEMMA ProjectedEvented == ASSUME chain \in Chains PROVE Evented(Projected)
<1>1. DOMAIN chain = 1..Len(chain) /\ Len(chain) \in Nat
  BY ChainFacts
<1>2. IsFiniteSet(DOMAIN chain)
  BY <1>1, FS_Interval
<1>3. ASSUME NEW h \in DOMAIN chain PROVE IsFiniteSet(TransactionsOf(h))
  <2>. DEFINE ps == {j \in DOMAIN chain[h].data : IsTransaction(chain[h].data[j])}
              at == [i \in ps |-> Tr(h, i)]
  <2>1. WellFormed(chain[h])
    BY ChainFacts
  <2>2. chain[h].data \in Seq(RawEnvelope)
    BY <2>1 DEF WellFormed, RawBlock
  <2>3. DOMAIN chain[h].data = 1..Len(chain[h].data) /\ Len(chain[h].data) \in Nat
    BY <2>2, LenProperties
  <2>4. IsFiniteSet(DOMAIN chain[h].data)
    BY <2>3, FS_Interval
  <2>5. IsFiniteSet(ps)
    BY <2>4, FS_Subset
  <2>6. TransactionsOf(h) = {Tr(h, i) : i \in ps}
    BY DEF TransactionsOf, Tr
  <2>7. at \in Surjection(ps, TransactionsOf(h))
    <3>. HIDE DEF ps
    <3>. QED BY <2>6 DEF Surjection
  <2>. HIDE DEF ps, at
  <2>. QED BY <2>5, <2>7, FS_Surjection
<1>4. IsFiniteSet(Transactions)
  <2>. DEFINE all == {TransactionsOf(h) : h \in DOMAIN chain}
              of == [h \in DOMAIN chain |-> TransactionsOf(h)]
  <2>1. of \in Surjection(DOMAIN chain, all)
    BY DEF Surjection
  <2>2. \A T \in all : IsFiniteSet(T)
    BY <1>3
  <2>. HIDE DEF all, of
  <2>3. IsFiniteSet(all)
    BY <1>2, <2>1, FS_Surjection
  <2>4. IsFiniteSet(UNION all)
    BY <2>2, <2>3, FS_UNION
  <2>. QED BY <2>4 DEF Transactions, all
<1>5. Projected \subseteq Eventful /\ Eventful \subseteq Transactions
  BY DEF Projected, Eventful
<1>6. IsFiniteSet(Projected)
  BY <1>4, <1>5, FS_Subset
<1>7. ASSUME NEW x \in Projected PROVE x.event \in Event
  <2>1. PICK h \in DOMAIN chain : \E i : EventfulAt(chain[h], i) /\ x = Tr(h, i)
    BY <1>5, EventfulPositions
  <2>2. PICK i : EventfulAt(chain[h], i) /\ x = Tr(h, i)
    BY <2>1
  <2>3. x.event = EventAt(h, i)
    BY <2>2 DEF Tr, EventAt
  <2>. QED BY <2>2, <2>3, EventsAt DEF EventOf
<1>. QED BY <1>6, <1>7 DEF Evented

(* The balances of database d are those the transactions xs make, with the   *)
(* first j calls of q on top.                                                *)
Even(d, m, xs) ==
  \A u \in Users, t \in Tokens, f \in Fields : d.balances[u][t][f] = Credit(m, xs, u, t, f)
Ahead(d, m, xs, q, j) ==
  \A u \in Users, t \in Tokens, f \in Fields :
    d.balances[u][t][f] = Credit(m, xs, u, t, f) + Shares(m, q, j, u, t, f)

(* Until something fails, the balances are those of the processed events and *)
(* of what the processor has behind it of the event in hand.                 *)
Away == \A p \in Processors : \A h, i, j : ~In(p, h, i, j)
Balanced ==
  faults = 0 =>
    /\ Away => Even(db, mapping, Projected)
    /\ \A p \in Processors : \A h, i, j :
         In(p, h, i, j) => Ahead(db, mapping, Projected, CallsAt(h, i), j)

LEMMA BalancedSuffices ==
  ASSUME chain' = chain, NEW d, d = db', NEW m, m = mapping', NEW xs, xs = Projected',
         faults' = 0 =>
           /\ (\A p \in Processors : \A h, i, j : ~In(p, h, i, j)') => Even(d, m, xs)
           /\ \A p \in Processors : \A h, i, j :
                In(p, h, i, j)' => Ahead(d, m, xs, CallsAt(h, i), j)
  PROVE  Balanced'
<1>1. \A h, i : CallsAt(h, i)' = CallsAt(h, i)
  BY SameAt, Zenon
<1>2. ASSUME faults' = 0, Away' PROVE Even(db, mapping, Projected)'
  <2>1. \A p \in Processors : \A h, i, j : ~In(p, h, i, j)'
    BY <1>2 DEF Away
  <2>2. Even(d, m, xs)
    BY <1>2, <2>1
  <2>. QED BY <2>2 DEF Even
<1>3. ASSUME faults' = 0, NEW p \in Processors, NEW h, NEW i, NEW j, In(p, h, i, j)'
      PROVE  Ahead(db, mapping, Projected, CallsAt(h, i), j)'
  <2>. DEFINE q == CallsAt(h, i)
  <2>1. Ahead(d, m, xs, q, j) /\ q' = q
    BY <1>1, <1>3
  <2>2. PICK b : b = q
    OBVIOUS
  <2>3. Ahead(db, mapping, Projected, b, j)'
    <3>1. Ahead(d, m, xs, b, j)
      BY <2>1, <2>2
    <3>. QED BY <3>1 DEF Ahead
  <2>4. b = q'
    BY <2>1, <2>2
  <2>. HIDE DEF q
  <2>5. Ahead(db, mapping, Projected, q, j)'
    BY <2>3, <2>4
  <2>. QED BY <2>5 DEF q
<1>. QED BY <1>2, <1>3 DEF Balanced

(* Nothing made of an event, one call more of it, all of it, nothing of what *)
(* was sent back.  y is the event's transaction.                             *)
LEMMA AddsSame ==
  ASSUME NEW d, NEW e, NEW b, NEW c, SameCall(b, c), Adds(d, e, b) PROVE Adds(d, e, c)
<1>1. b = c \/ (b.do = "InsertOperationFromEvent" /\ c.do = "InsertOperationFromEvent")
  BY DEF SameCall
<1>. QED BY <1>1 DEF Adds, Share

LEMMA EvenKept ==
  ASSUME NEW d, NEW e, NEW c, c.do # "UpsertBalanceDelta", Adds(d, e, c),
         NEW xs, Even(d, mapping, xs)
  PROVE  /\ Even(e, mapping, xs)
         /\ \A u \in Users, t \in Tokens, f \in Fields : e.balances[u][t][f] \in Int
<1>1. ASSUME NEW u \in Users, NEW t \in Tokens, NEW f \in Fields
      PROVE  e.balances[u][t][f] = Credit(mapping, xs, u, t, f) /\ e.balances[u][t][f] \in Int
  <2>1. Share(mapping, c, u, t, f) = 0
    BY DEF Share
  <2>2. /\ d.balances[u][t][f] \in Int
        /\ e.balances[u][t][f] = d.balances[u][t][f] + Share(mapping, c, u, t, f)
    BY DEF Adds
  <2>3. d.balances[u][t][f] = Credit(mapping, xs, u, t, f)
    BY DEF Even
  <2>. QED BY <2>1, <2>2, <2>3
<1>. QED BY <1>1 DEF Even

LEMMA AheadOne ==
  ASSUME NEW d, NEW xs, NEW q, Len(q) \in Nat, 1 <= Len(q), q[1].do # "UpsertBalanceDelta",
         Even(d, mapping, xs),
         \A u \in Users, t \in Tokens, f \in Fields : d.balances[u][t][f] \in Int
  PROVE  Ahead(d, mapping, xs, q, 1)
<1>1. ASSUME NEW u \in Users, NEW t \in Tokens, NEW f \in Fields
      PROVE  d.balances[u][t][f] = Credit(mapping, xs, u, t, f) + Shares(mapping, q, 1, u, t, f)
  <2>1. \A k \in 1..1 : q[k].do # "UpsertBalanceDelta"
    OBVIOUS
  <2>2. Shares(mapping, q, 1, u, t, f) = 0
    BY <2>1, SharesNone
  <2>3. d.balances[u][t][f] = Credit(mapping, xs, u, t, f) /\ d.balances[u][t][f] \in Int
    BY DEF Even
  <2>. QED BY <2>2, <2>3
<1>. QED BY <1>1 DEF Ahead

LEMMA AheadStep ==
  ASSUME NEW x, NEW q \in Seq(EventCall(x)), NEW j \in Nat, j + 1 \in 1..Len(q),
         NEW xs, Evented(xs), NEW y, y.event \in Event, y \notin xs,
         NEW d, NEW e, Adds(d, e, q[j + 1]), Ahead(d, mapping, xs, q, j)
  PROVE  Ahead(e, mapping, xs, q, j + 1)
<1>1. ASSUME NEW u \in Users, NEW t \in Tokens, NEW f \in Fields
      PROVE  e.balances[u][t][f] = Credit(mapping, xs, u, t, f) + Shares(mapping, q, j + 1, u, t, f)
  <2>. DEFINE ys == xs \cup {y}
              a == Shares(mapping, q, j, u, t, f)
              b == Shares(mapping, q, j + 1, u, t, f)
              s == Share(mapping, q[j + 1], u, t, f)
              c == Credit(mapping, xs, u, t, f)
  <2>1. a \in Int /\ b = a + s
    BY SharesStep
  <2>2. s \in Int
    <3>1. q[j + 1] \in EventCall(x)
      BY ElementOfSeq
    <3>. QED BY <3>1, ShareInt
  <2>3. Grown(c, Credit(mapping, ys, u, t, f), Worth(mapping, y.event, u, t, f))
    BY CreditJoins
  <2>4. c \in Int
    BY <2>3 DEF Grown
  <2>5. e.balances[u][t][f] = d.balances[u][t][f] + s
    BY DEF Adds
  <2>6. d.balances[u][t][f] = c + a
    BY DEF Ahead
  <2>. HIDE DEF a, b, s, c
  <2>7. e.balances[u][t][f] = c + b
    BY <2>1, <2>2, <2>4, <2>5, <2>6
  <2>. QED BY <2>7 DEF b, c
<1>. QED BY <1>1 DEF Ahead

LEMMA AheadLast ==
  ASSUME NEW x \in TxIds, NEW v \in EventOf(x), NEW q, q = EventCalls(v, x),
         NEW xs, Evented(xs), NEW y, y.event = v, y \notin xs, NEW ys, ys = xs \cup {y},
         NEW d, Ahead(d, mapping, xs, q, Len(q) - 1)
  PROVE  Even(d, mapping, ys)
<1>1. v \in Event
  BY DEF EventOf
<1>2. ASSUME NEW u \in Users, NEW t \in Tokens, NEW f \in Fields
      PROVE  d.balances[u][t][f] = Credit(mapping, ys, u, t, f)
  <2>1. Shares(mapping, q, Len(q) - 1, u, t, f) = Worth(mapping, v, u, t, f)
    BY SharesWorth
  <2>2. Grown(Credit(mapping, xs, u, t, f), Credit(mapping, ys, u, t, f), Worth(mapping, v, u, t, f))
    BY <1>1, CreditJoins
  <2>3. d.balances[u][t][f] = Credit(mapping, xs, u, t, f) + Shares(mapping, q, Len(q) - 1, u, t, f)
    BY DEF Ahead
  <2>. QED BY <2>1, <2>2, <2>3 DEF Grown
<1>. QED BY <1>2 DEF Even

LEMMA AheadNone ==
  ASSUME NEW x \in TxIds, NEW v \in EventOf(x), NEW q, q = EventCalls(v, x),
         NEW xs, Evented(xs), NEW y, y.event = v, y \notin xs,
         NEW j \in Nat, j + 1 \in 2..(Len(q) - 1), ClearTo(mapping, q, j),
         ~Clear(mapping, q[j + 1]), NEW d, Ahead(d, mapping, xs, q, j)
  PROVE  Even(d, mapping, xs)
<1>1. v \in Event
  BY DEF EventOf
<1>2. ASSUME NEW u \in Users, NEW t \in Tokens, NEW f \in Fields
      PROVE  d.balances[u][t][f] = Credit(mapping, xs, u, t, f)
  <2>. DEFINE ys == xs \cup {y}
  <2>1. Shares(mapping, q, j, u, t, f) = 0
    BY SentBackEmpty
  <2>2. Grown(Credit(mapping, xs, u, t, f), Credit(mapping, ys, u, t, f), Worth(mapping, v, u, t, f))
    BY <1>1, CreditJoins
  <2>3. d.balances[u][t][f] = Credit(mapping, xs, u, t, f) + Shares(mapping, q, j, u, t, f)
    BY DEF Ahead
  <2>. QED BY <2>1, <2>2, <2>3 DEF Grown
<1>. QED BY <1>2 DEF Even

(* The processed transactions, where nothing gets marked and where that of   *)
(* transaction i of block h does.                                            *)
LEMMA ProjectedSame ==
  ASSUME chain' = chain,
         \A g \in DOMAIN chain : \A l : EventfulAt(chain[g], l) =>
           (db'.events[IdAt(g, l)] = "processed" <=> db.events[IdAt(g, l)] = "processed")
  PROVE  Projected' = Projected
<1>1. Eventful' = Eventful
  BY DEF Eventful, Transactions, TransactionsOf
<1>2. ASSUME NEW z \in Eventful
      PROVE  db'.events[z.id] = "processed" <=> db.events[z.id] = "processed"
  <2>1. PICK g \in DOMAIN chain : \E l : EventfulAt(chain[g], l) /\ z = Tr(g, l)
    BY EventfulPositions
  <2>2. PICK l : EventfulAt(chain[g], l) /\ z = Tr(g, l)
    BY <2>1
  <2>3. z.id = IdAt(g, l)
    BY <2>2 DEF Tr, IdAt
  <2>. QED BY <2>2, <2>3
<1>. QED BY <1>1, <1>2 DEF Projected

LEMMA ProjectedMarked ==
  ASSUME chain' = chain, chain \in Chains, NEW h \in DOMAIN chain, NEW i, EventfulAt(chain[h], i),
         db.events[IdAt(h, i)] # "processed", db'.events[IdAt(h, i)] = "processed",
         \A y \in TxIds : y # IdAt(h, i) => db'.events[y] = db.events[y]
  PROVE  Projected' = Projected \cup {Tr(h, i)} /\ Tr(h, i) \notin Projected
<1>1. Eventful' = Eventful
  BY DEF Eventful, Transactions, TransactionsOf
<1>2. Tr(h, i) \in Eventful /\ Tr(h, i).id = IdAt(h, i)
  BY EventfulPositions DEF Tr, IdAt
<1>3. ASSUME NEW z \in Eventful, z # Tr(h, i)
      PROVE  db'.events[z.id] = db.events[z.id]
  <2>1. PICK g \in DOMAIN chain : \E l : EventfulAt(chain[g], l) /\ z = Tr(g, l)
    BY EventfulPositions
  <2>2. PICK l : EventfulAt(chain[g], l) /\ z = Tr(g, l)
    BY <2>1
  <2>3. z.id = IdAt(g, l) /\ IdAt(g, l) \in TxIds
    BY <2>2, EventsAt DEF Tr, IdAt
  <2>4. IdAt(g, l) # IdAt(h, i)
    BY <1>3, <2>2, EventfulOnce DEF IdAt
  <2>. QED BY <2>3, <2>4
<1>. QED BY <1>1, <1>2, <1>3 DEF Projected

(* One that is fresh is not among the processed. *)
LEMMA FreshOut ==
  ASSUME NEW h, NEW i, db.events[IdAt(h, i)] # "processed" PROVE Tr(h, i) \notin Projected
  BY DEF Projected, Tr, IdAt

(* A step that is no call. *)
LEMMA BalancedRests ==
  ASSUME OneProcessor, Ingest, Passed, Balanced, NEW p \in Processors, Fresh(p),
         Moves(p), ~Calls(p), faults = 0, faults' = 0
  PROVE  Even(db, mapping, Projected)
<1>1. /\ chain \in Chains /\ (phase[p] # "running" => todo[p] = <<>>)
      /\ \A r \in Processors : r = p
  BY DEF Ingest, Shape, Control, OneProcessor
<1>2. CASE Away
  BY <1>2 DEF Balanced
<1>3. ASSUME NEW h, NEW i, NEW j, In(p, h, i, j) PROVE Even(db, mapping, Projected)
  <2>. DEFINE q == CallsAt(h, i)
              x == IdAt(h, i)
              v == EventAt(h, i)
              b == Head(todo[p])
              c == q[j + 1]
  <2>1. /\ h \in DOMAIN chain /\ EventfulAt(chain[h], i) /\ j \in Nat /\ j + 1 \in 2..Len(q)
        /\ SameCall(b, c)
    BY <1>1, <1>3, InHead
  <2>2. /\ x \in TxIds /\ v \in EventOf(x) /\ Len(q) \in Nat /\ q[Len(q)] = MarkOf(x)
        /\ \A k \in 2..(Len(q) - 1) : q[k] \in Projecting(x)
    BY <1>1, <2>1, EventsAt
  <2>3. j + 1 = Len(q) \/ j + 1 \in 2..(Len(q) - 1)
    <3>. HIDE DEF q
    <3>. QED BY <2>1, <2>2
  <2>4. b.do = c.do
    <3>. HIDE DEF b, c
    <3>. QED BY <2>1, SameDo
  <2>5. c.do \in Projections \cup {"MarkEventProcessed"}
    <3>1. CASE j + 1 = Len(q)
      <4>1. c = MarkOf(x)
        BY <2>2, <3>1
      <4>. QED BY <4>1, OwnAndDo
    <3>2. CASE j + 1 \in 2..(Len(q) - 1)
      <4>1. c \in Projecting(x)
        BY <2>2, <3>2
      <4>. HIDE DEF c, x
      <4>. QED BY <4>1, ProjectingDo
    <3>. QED BY <2>3, <3>1, <3>2
  <2>6. todo[p] # <<>> /\ phase[p] = "running"
    BY <1>1, <1>3 DEF In
  <2>7. Blocked(b)
    <3>1. b.do \notin {"SaveEvent", "UpdateCheckpoint"}
      <4>. HIDE DEF b, c
      <4>. QED BY <2>4, <2>5 DEF Projections, Writes
    <3>2. Idles(p)
      BY <2>6, <3>1 DEF Moves, Does, Subscribes, Receives, Skips, Completes
    <3>. QED BY <2>6, <3>2 DEF Idles
  <2>8. ~Clear(mapping, c)
    <3>1. ~Clear(mapping, b)
      BY <2>7, ClearIsPassed
    <3>. HIDE DEF b, c
    <3>. QED BY <2>1, <3>1, ClearSame
  <2>9. j + 1 \in 2..(Len(q) - 1)
    <3>1. SUFFICES ASSUME j + 1 = Len(q) PROVE FALSE
      BY <2>3
    <3>2. c = MarkOf(x)
      BY <2>2, <3>1
    <3>3. c.do = "MarkEventProcessed"
      BY <3>2, OwnAndDo
    <3>. HIDE DEF c
    <3>. QED BY <2>8, <3>3 DEF Clear, Malformed
  <2>10. ClearTo(mapping, q, j)
    BY <1>3 DEF Passed
  <2>11. Ahead(db, mapping, Projected, q, j)
    BY <1>3 DEF Balanced
  <2>12. Tr(h, i) \notin Projected
    BY <1>3, FreshOut DEF Fresh
  <2>13. Tr(h, i).event = v /\ Evented(Projected) /\ q = EventCalls(v, x)
    BY <1>1, <2>1, ProjectedEvented DEF CallsAt, Tr, EventAt
  <2>. HIDE DEF q, x, v
  <2>. QED BY <2>1, <2>2, <2>8, <2>9, <2>10, <2>11, <2>12, <2>13, AheadNone
<1>. QED BY <1>1, <1>2, <1>3 DEF Away

(* A call after which the processor is in the projection of an event. *)
LEMMA BalancedWithin ==
  ASSUME OneProcessor, Ingest, Balanced, NEW p \in Processors, Current(p), Fresh(p),
         Moves(p), faults = 0, NEW h, NEW i, NEW j, In(p, h, i, j)',
         NEW d, d = db', Adds(db, d, Head(todo[p]))
  PROVE  Projected' = Projected /\ Ahead(d, mapping, Projected, CallsAt(h, i), j)
<1>. DEFINE q == CallsAt(h, i)
            x == IdAt(h, i)
            b == Head(todo[p])
            c == q[j]
<1>1. /\ chain \in Chains /\ chain' = chain /\ db \in Database
      /\ \A r \in Processors : r = p
  BY DEF Ingest, Shape, OneProcessor, Moves
<1>2. /\ Calls(p) /\ h \in DOMAIN chain /\ EventfulAt(chain[h], i) /\ todo[p] # <<>>
      /\ j \in Nat /\ j \in 1..Len(q) /\ SameCall(b, c)
      /\ j # 1 => In(p, h, i, j - 1)
  BY InMover
<1>3. j \in 1..(Len(q) - 1)
  <2>1. In(p, h, i, j)' => j \in 1..(Len(CallsAt(h, i)) - 1)
    BY <1>1 DEF In, CallsAt, EventAt, IdAt
  <2>. QED BY <2>1
<1>4. /\ x \in TxIds /\ EventAt(h, i) \in EventOf(x) /\ Len(q) \in Nat /\ 2 <= Len(q)
      /\ q[1] = SaveEventOf(x) /\ q \in Seq(EventCall(x))
      /\ \A k \in 2..(Len(q) - 1) : q[k] \in Projecting(x)
  BY <1>1, <1>2, EventsAt
<1>5. b.do = c.do
  <2>. HIDE DEF b, c
  <2>. QED BY <1>2, SameDo
<1>6. c.do \in Projections \cup {"SaveEvent"} /\ (j = 1 => c.do = "SaveEvent")
  <2>1. j = 1 => c = SaveEventOf(x)
    BY <1>4
  <2>2. j # 1 => c \in Projecting(x)
    <3>1. j # 1 => j \in 2..(Len(q) - 1)
      <4>. HIDE DEF q
      <4>. QED BY <1>2, <1>3, <1>4
    <3>. QED BY <1>4, <3>1
  <2>. HIDE DEF c, x
  <2>. QED BY <2>1, <2>2, ProjectingDo, OwnAndDo
<1>7. Projected' = Projected
  <2>1. ASSUME NEW g \in DOMAIN chain, NEW l, EventfulAt(chain[g], l)
        PROVE  db'.events[IdAt(g, l)] = "processed" <=> db.events[IdAt(g, l)] = "processed"
    <3>1. b # MarkOf(IdAt(g, l))
      <4>. HIDE DEF b, c
      <4>. QED BY <1>5, <1>6, OwnAndDo DEF Projections, Writes
    <3>2. Grows(db, db') /\ IdAt(g, l) \in TxIds
      BY <1>1, <2>1, MovesWrite, WritingGrows, EventsAt
    <3>. QED BY <2>1, <3>1, <3>2, MarkedHere DEF Grows
  <2>. QED BY <1>1, <2>1, ProjectedSame
<1>8. Adds(db, d, c)
  <2>. HIDE DEF b, c
  <2>. QED BY <1>2, AddsSame DEF b
<1>9. CASE j = 1
  <2>1. Away
    <3>1. ASSUME NEW g, NEW l, NEW k, In(p, g, l, k) PROVE FALSE
      <4>. DEFINE s == CallsAt(g, l)
      <4>1. /\ g \in DOMAIN chain /\ EventfulAt(chain[g], l) /\ k \in Nat /\ k + 1 \in 2..Len(s)
            /\ SameCall(b, s[k + 1])
        BY <1>1, <3>1, InHead
      <4>2. /\ Len(s) \in Nat /\ s[Len(s)] = MarkOf(IdAt(g, l))
            /\ \A n \in 2..(Len(s) - 1) : s[n] \in Projecting(IdAt(g, l))
        BY <1>1, <4>1, EventsAt
      <4>. HIDE DEF s
      <4>3. b.do = s[k + 1].do
        <5>. HIDE DEF b
        <5>. QED BY <4>1, SameDo
      <4>4. s[k + 1].do \in Projections \cup {"MarkEventProcessed"}
        <5>1. k + 1 = Len(s) \/ k + 1 \in 2..(Len(s) - 1)
          BY <4>1, <4>2
        <5>. QED BY <4>2, <5>1, ProjectingDo, OwnAndDo
      <4>. HIDE DEF b, c
      <4>. QED BY <1>5, <1>6, <1>9, <4>3, <4>4 DEF Projections, Writes
    <3>. QED BY <1>1, <3>1 DEF Away
  <2>2. Even(db, mapping, Projected)
    BY <2>1 DEF Balanced
  <2>3. c.do # "UpsertBalanceDelta" /\ q[1].do # "UpsertBalanceDelta"
    BY <1>6, <1>9
  <2>4. /\ Even(d, mapping, Projected)
        /\ \A u \in Users, t \in Tokens, f \in Fields : d.balances[u][t][f] \in Int
    <3>. HIDE DEF c
    <3>. QED BY <1>8, <2>2, <2>3, EvenKept
  <2>. HIDE DEF q
  <2>5. 1 <= Len(q)
    BY <1>4
  <2>6. Ahead(d, mapping, Projected, q, 1)
    BY <1>4, <2>3, <2>4, <2>5, AheadOne
  <2>. QED BY <1>7, <1>9, <2>6 DEF q
<1>10. CASE j # 1
  <2>1. In(p, h, i, j - 1) /\ j - 1 \in Nat /\ (j - 1) + 1 = j
    BY <1>2, <1>10
  <2>2. Ahead(db, mapping, Projected, q, j - 1)
    BY <2>1 DEF Balanced
  <2>3. Tr(h, i) \notin Projected
    BY <2>1, FreshOut DEF Fresh
  <2>4. Tr(h, i).event \in Event /\ Evented(Projected)
    BY <1>1, <1>4, ProjectedEvented DEF EventOf, EventAt, Tr
  <2>. DEFINE n == j - 1
  <2>5. Adds(db, d, q[n + 1]) /\ n + 1 \in 1..Len(q) /\ n + 1 = j
    BY <1>2, <1>8, <2>1
  <2>. HIDE DEF q, x, n
  <2>6. n \in Nat /\ Ahead(db, mapping, Projected, q, n)
    BY <2>1, <2>2 DEF n
  <2>7. Ahead(d, mapping, Projected, q, n + 1)
    BY <1>4, <2>3, <2>4, <2>5, <2>6, AheadStep
  <2>. QED BY <1>7, <2>5, <2>7 DEF q
<1>. QED BY <1>9, <1>10

(* A call after which it is not: the mark of an event, or one of no event. *)
LEMMA BalancedLeaves ==
  ASSUME OneProcessor, Ingest, Balanced, NEW p \in Processors, Current(p), Fresh(p),
         Moves(p), Calls(p), faults = 0, \A h, i, j : ~In(p, h, i, j)',
         NEW d, d = db', Adds(db, d, Head(todo[p])), NEW ys, ys = Projected'
  PROVE  Even(d, mapping, ys)
<1>. DEFINE b == Head(todo[p])
<1>1. /\ chain \in Chains /\ chain' = chain /\ db \in Database
      /\ \A r \in Processors : r = p
  BY DEF Ingest, Shape, OneProcessor, Moves
<1>2. CASE Away
  <2>1. todo[p] # <<>>
    BY DEF Calls, Busy
  <2>2. b.do \notin Projections \cup {"MarkEventProcessed"}
    BY <1>2, <2>1 DEF Away, Current
  <2>3. ASSUME NEW g \in DOMAIN chain, NEW l, EventfulAt(chain[g], l)
        PROVE  db'.events[IdAt(g, l)] = "processed" <=> db.events[IdAt(g, l)] = "processed"
    <3>1. b # MarkOf(IdAt(g, l))
      <4>. HIDE DEF b
      <4>. QED BY <2>2, OwnAndDo
    <3>2. Grows(db, db') /\ IdAt(g, l) \in TxIds
      BY <1>1, <2>3, MovesWrite, WritingGrows, EventsAt
    <3>. QED BY <2>3, <3>1, <3>2, MarkedHere DEF Grows
  <2>4. ys = Projected
    BY <1>1, <2>3, ProjectedSame
  <2>5. Even(db, mapping, Projected)
    BY <1>2 DEF Balanced
  <2>6. b.do # "UpsertBalanceDelta"
    <3>. HIDE DEF b
    <3>. QED BY <2>2 DEF Projections, Writes
  <2>. HIDE DEF b
  <2>. QED BY <2>4, <2>5, <2>6, EvenKept DEF b
<1>3. ASSUME NEW h, NEW i, NEW j, In(p, h, i, j) PROVE Even(d, mapping, ys)
  <2>. DEFINE q == CallsAt(h, i)
              x == IdAt(h, i)
              v == EventAt(h, i)
  <2>1. /\ h \in DOMAIN chain /\ EventfulAt(chain[h], i) /\ j \in Nat /\ j + 1 \in 2..Len(q)
        /\ SameCall(b, q[j + 1])
    BY <1>1, <1>3, InHead
  <2>2. /\ x \in TxIds /\ v \in EventOf(x) /\ Len(q) \in Nat /\ q[Len(q)] = MarkOf(x)
    BY <1>1, <2>1, EventsAt
  <2>3. j + 1 = Len(q)
    BY <1>3, InForward
  <2>4. b = MarkOf(x) /\ b.do = "MarkEventProcessed" /\ b.tx = x
    <3>1. SameCall(b, MarkOf(x))
      BY <2>1, <2>2, <2>3
    <3>. HIDE DEF b, x
    <3>2. b = MarkOf(x)
      BY <3>1, OwnAndDo DEF SameCall
    <3>. QED BY <3>2, OwnAndDo
  <2>5. Made(db, next[p], b, db')
    BY DEF Calls
  <2>6. db' = MarkEventProcessed(db, x)
    <3>. HIDE DEF b, x
    <3>. QED BY <2>4, <2>5 DEF Made, Writes
  <2>7. db'.events[x] = "processed" /\ \A y \in TxIds : y # x => db'.events[y] = db.events[y]
    <3>. DEFINE e == db'
    <3>1. e = MarkEventProcessed(db, x)
      BY <2>6
    <3>. HIDE DEF e, x
    <3>2. e.events[x] = "processed" /\ \A y \in TxIds : y # x => e.events[y] = db.events[y]
      BY <1>1, <2>2, <3>1, EventTyped
    <3>. QED BY <3>2 DEF e
  <2>8. db.events[x] # "processed"
    BY <1>3 DEF Fresh
  <2>9. ys = Projected \cup {Tr(h, i)} /\ Tr(h, i) \notin Projected
    BY <1>1, <2>1, <2>7, <2>8, ProjectedMarked
  <2>10. Ahead(db, mapping, Projected, q, Len(q) - 1)
    <3>1. Len(q) - 1 = j
      BY <2>1, <2>2, <2>3
    <3>2. Ahead(db, mapping, Projected, q, j)
      BY <1>3 DEF Balanced
    <3>. QED BY <3>1, <3>2
  <2>11. Tr(h, i).event = v /\ Evented(Projected) /\ q = EventCalls(v, x)
    BY <1>1, <2>1, ProjectedEvented DEF CallsAt, Tr, EventAt
  <2>12. Even(db, mapping, ys)
    <3>. HIDE DEF q, x, v
    <3>. QED BY <2>2, <2>9, <2>10, <2>11, AheadLast
  <2>13. b.do # "UpsertBalanceDelta"
    <3>. HIDE DEF b
    <3>. QED BY <2>4
  <2>. HIDE DEF b
  <2>. QED BY <2>12, <2>13, EvenKept DEF b
<1>. QED BY <1>1, <1>2, <1>3 DEF Away

LEMMA BalancedMoves ==
  ASSUME OneProcessor, Ingest, Passed, Balanced, NEW p \in Processors,
         Current(p), Fresh(p), Moves(p)
  PROVE  Balanced'
<1>1. /\ chain \in Chains /\ chain' = chain /\ mapping' = mapping /\ faults \in Nat
      /\ faults' = faults \/ faults' = faults + 1
      /\ \A r \in Processors : r = p
  BY DEF Ingest, Shape, Control, OneProcessor, Moves
<1>. DEFINE d == db'
            ys == Projected'
<1>2. ASSUME faults' = 0, \A r \in Processors : \A h, i, j : ~In(r, h, i, j)'
      PROVE  Even(d, mapping, ys)
  <2>1. faults = 0 /\ \A h, i, j : ~In(p, h, i, j)'
    BY <1>1, <1>2
  <2>2. CASE Calls(p)
    <3>1. Adds(db, d, Head(todo[p]))
      BY <2>2, MovesBalances
    <3>. HIDE DEF d, ys
    <3>2. d = db' /\ ys = Projected'
      BY DEF d, ys
    <3>. QED BY <2>1, <2>2, <3>1, <3>2, BalancedLeaves
  <2>3. CASE ~Calls(p)
    <3>1. Even(db, mapping, Projected)
      BY <1>2, <2>1, <2>3, BalancedRests
    <3>2. db'.balances = db.balances
      BY <2>3, MovesBalances
    <3>3. ASSUME NEW g \in DOMAIN chain, NEW l, EventfulAt(chain[g], l)
          PROVE  db'.events[IdAt(g, l)] = "processed" <=> db.events[IdAt(g, l)] = "processed"
      <4>1. Grows(db, db') /\ IdAt(g, l) \in TxIds
        BY <1>1, <3>3, MovesWrite, WritingGrows, EventsAt
      <4>. QED BY <2>3, <3>3, <4>1, MarkedHere DEF Grows
    <3>4. Projected' = Projected
      BY <1>1, <3>3, ProjectedSame
    <3>5. d.balances = db.balances /\ ys = Projected
      BY <3>2, <3>4
    <3>. HIDE DEF d, ys
    <3>. QED BY <3>1, <3>5 DEF Even
  <2>. QED BY <2>2, <2>3
<1>3. ASSUME faults' = 0, NEW r \in Processors, NEW h, NEW i, NEW j, In(r, h, i, j)'
      PROVE  Ahead(d, mapping, ys, CallsAt(h, i), j)
  <2>1. faults = 0 /\ In(p, h, i, j)'
    BY <1>1, <1>3
  <2>2. Calls(p)
    BY <2>1, InMover
  <2>3. Adds(db, d, Head(todo[p]))
    BY <2>2, MovesBalances
  <2>4. d = db'
    OBVIOUS
  <2>. HIDE DEF d
  <2>5. Projected' = Projected /\ Ahead(d, mapping, Projected, CallsAt(h, i), j)
    BY <2>1, <2>3, <2>4, BalancedWithin
  <2>. QED BY <2>5
<1>. DEFINE m == mapping'
<1>4. d = db' /\ m = mapping' /\ ys = Projected' /\ m = mapping
  BY <1>1
<1>. HIDE DEF d, m, ys
<1>5. faults' = 0 =>
        /\ (\A r \in Processors : \A h, i, j : ~In(r, h, i, j)') => Even(d, m, ys)
        /\ \A r \in Processors : \A h, i, j : In(r, h, i, j)' => Ahead(d, m, ys, CallsAt(h, i), j)
  BY <1>2, <1>3, <1>4
<1>. QED BY <1>1, <1>4, <1>5, BalancedSuffices, Zenon

(* Whom a processed event concerns is known. *)
LEMMA ProjectedKnown ==
  ASSUME chain \in Chains, Passed, NEW z \in Projected
  PROVE  OwnersKnown(mapping, z.event)
<1>1. z \in Eventful /\ db.events[z.id] = "processed"
  BY DEF Projected
<1>2. PICK h \in DOMAIN chain : \E i : EventfulAt(chain[h], i) /\ z = Tr(h, i)
  BY <1>1, EventfulPositions
<1>3. PICK i : EventfulAt(chain[h], i) /\ z = Tr(h, i)
  BY <1>2
<1>. DEFINE q == CallsAt(h, i)
            x == IdAt(h, i)
            v == EventAt(h, i)
<1>4. z.event = v /\ z.id = x
  BY <1>3 DEF Tr, EventAt, IdAt
<1>5. x \in TxIds /\ v \in EventOf(x)
  BY <1>3, EventsAt
<1>6. ClearTo(mapping, q, Len(q) - 1) /\ q = EventCalls(v, x)
  BY <1>1, <1>3, <1>4 DEF Passed, CallsAt
<1>. HIDE DEF q, x, v
<1>. QED BY <1>4, <1>5, <1>6, ClearKnows

LEMMA BalancedMapped ==
  ASSUME Ingest, Passed, Balanced, MapIdentity \/ UNCHANGED vars PROVE Balanced'
<1>1. /\ chain' = chain /\ next' = next /\ todo' = todo /\ db' = db /\ faults' = faults
      /\ chain \in Chains /\ Extends(mapping, mapping')
  BY MapExtends DEF MapIdentity, vars, Ingest, Shape
<1>. DEFINE d == db'
            m == mapping'
            ys == Projected'
<1>2. d = db /\ Extends(mapping, m) /\ ys = Projected
  BY <1>1 DEF Projected, Eventful, Transactions, TransactionsOf
<1>3. d = db' /\ m = mapping' /\ ys = Projected'
  OBVIOUS
<1>. HIDE DEF d, m, ys
<1>4. \A z \in Projected : OwnersKnown(mapping, z.event)
  BY <1>1, ProjectedKnown
<1>5. ASSUME NEW u \in Users, NEW t, NEW f
      PROVE  Credit(m, Projected, u, t, f) = Credit(mapping, Projected, u, t, f)
  BY <1>2, <1>4, CreditKept
<1>6. ASSUME faults' = 0, \A r \in Processors : \A h, i, j : ~In(r, h, i, j)'
      PROVE  Even(d, m, ys)
  <2>1. faults = 0 /\ Away
    BY <1>1, <1>6, InSame DEF Away
  <2>2. Even(db, mapping, Projected)
    BY <2>1 DEF Balanced
  <2>. QED BY <1>2, <1>5, <2>2 DEF Even
<1>7. ASSUME faults' = 0, NEW r \in Processors, NEW h, NEW i, NEW j, In(r, h, i, j)'
      PROVE  Ahead(d, m, ys, CallsAt(h, i), j)
  <2>. DEFINE q == CallsAt(h, i)
              x == IdAt(h, i)
              v == EventAt(h, i)
  <2>1. faults = 0 /\ In(r, h, i, j)
    BY <1>1, <1>7, InSame
  <2>2. Ahead(db, mapping, Projected, q, j)
    BY <2>1 DEF Balanced
  <2>3. /\ h \in DOMAIN chain /\ EventfulAt(chain[h], i) /\ j \in Nat /\ Len(q) \in Nat
        /\ j + 1 \in 2..Len(q)
    BY <2>1, InCalls
  <2>4. x \in TxIds /\ v \in EventOf(x) /\ q = EventCalls(v, x)
    BY <1>1, <2>3, EventsAt DEF CallsAt
  <2>5. ClearTo(mapping, q, j)
    BY <2>1 DEF Passed
  <2>. HIDE DEF q, x, v
  <2>6. j <= Len(q) - 1 /\ j <= Len(q)
    BY <2>3
  <2>7. \A k \in 1..j : q[k].do = "UpsertBalanceDelta" =>
          q[k].owner = Nil \/ (q[k].owner \in Identities /\ mapping[q[k].owner] # Nil)
    BY <2>3, <2>4, <2>5, <2>6, ClearOwner
  <2>8. ASSUME NEW u \in Users, NEW t, NEW f
        PROVE  Shares(m, q, j, u, t, f) = Shares(mapping, q, j, u, t, f)
    BY <1>2, <2>3, <2>6, <2>7, SharesKept
  <2>9. Ahead(d, m, ys, q, j)
    BY <1>2, <1>5, <2>2, <2>8 DEF Ahead
  <2>. QED BY <2>9 DEF q
<1>8. faults' = 0 =>
        /\ (\A r \in Processors : \A h, i, j : ~In(r, h, i, j)') => Even(d, m, ys)
        /\ \A r \in Processors : \A h, i, j : In(r, h, i, j)' => Ahead(d, m, ys, CallsAt(h, i), j)
  BY <1>6, <1>7
<1>. QED BY <1>1, <1>3, <1>8, BalancedSuffices, Zenon

Counted == Tracks /\ Passed /\ Balanced /\ \A p \in Processors : Fresh(p)

LEMMA CountedNext ==
  ASSUME OneProcessor PROVE Ingest /\ Counted /\ [Next]_vars => Counted'
<1>. SUFFICES ASSUME Ingest, Counted, [Next]_vars PROVE Counted'
  OBVIOUS
<1>1. Tracks'
  BY TracksNext DEF Counted
<1>2. CASE MapIdentity \/ UNCHANGED vars
  <2>1. chain' = chain /\ db' = db /\ next' = next /\ todo' = todo
    BY <1>2 DEF MapIdentity, vars
  <2>2. ASSUME NEW p \in Processors PROVE Fresh(p)'
    <3>1. \A h, i, j : In(p, h, i, j)' <=> In(p, h, i, j)
      BY <2>1, InSame
    <3>2. \A h, i, j : In(p, h, i, j)' => db'.events[IdAt(h, i)] # "processed"
      BY <2>1, <3>1 DEF Counted, Fresh
    <3>. QED BY <2>1, <3>2, FreshSuffices, Zenon
  <2>3. Passed' /\ Balanced'
    BY <1>2, PassedMapped, BalancedMapped DEF Counted
  <2>. QED BY <1>1, <2>2, <2>3 DEF Counted
<1>3. ASSUME NEW p \in Processors, Moves(p) PROVE Counted'
  <2>1. Current(p) /\ Fresh(p)
    BY DEF Counted, Tracks
  <2>2. Passed' /\ Balanced'
    BY <1>3, <2>1, PassedMoves, BalancedMoves DEF Counted
  <2>3. Fresh(p)'
    BY <1>3, <2>1, FreshMover
  <2>4. \A r \in Processors : r = p
    BY DEF OneProcessor
  <2>5. \A r \in Processors : Fresh(r)'
    BY <2>3, <2>4
  <2>. QED BY <1>1, <2>2, <2>5 DEF Counted
<1>. QED BY <1>2, <1>3, NextMoves

(* As long as one processor runs and nothing has failed, a balance between   *)
(* two blocks is what the processed events add up to over every identity     *)
(* mapped to its user, however often an identity without a user sent a block *)
(* back and however late it was mapped.                                      *)
THEOREM BalancesFollow ==
  ASSUME OneProcessor PROVE Spec => []BalancesMatchProcessed
<1>1. Init => Counted
  <2>. SUFFICES ASSUME Init PROVE Counted
    OBVIOUS
  <2>1. chain \in Chains /\ db = EmptyDatabase(InitialHeight) /\ todo = [p \in Processors |-> <<>>]
    BY DEF Init, Start
  <2>2. \A x \in TxIds : db.events[x] # "processed"
    BY <2>1 DEF EmptyDatabase
  <2>3. \A h \in DOMAIN chain : \A i : EventfulAt(chain[h], i) => IdAt(h, i) \in TxIds
    BY <2>1, EventsAt
  <2>4. \A p \in Processors : \A h, i, j : ~In(p, h, i, j)
    BY <2>1 DEF In
  <2>5. Passed
    BY <2>2, <2>3, <2>4 DEF Passed
  <2>6. Projected = {}
    <3>1. ASSUME NEW z \in Projected PROVE FALSE
      <4>1. PICK h \in DOMAIN chain : \E i : EventfulAt(chain[h], i) /\ z = Tr(h, i)
        BY EventfulPositions DEF Projected
      <4>2. PICK i : EventfulAt(chain[h], i) /\ z = Tr(h, i)
        BY <4>1
      <4>3. z.id = IdAt(h, i)
        BY <4>2 DEF Tr, IdAt
      <4>. QED BY <2>2, <2>3, <4>2, <4>3 DEF Projected
    <3>. QED BY <3>1
  <2>7. Even(db, mapping, Projected)
    <3>1. ASSUME NEW u \in Users, NEW t \in Tokens, NEW f \in Fields
          PROVE  db.balances[u][t][f] = Credit(mapping, {}, u, t, f)
      <4>1. db.balances[u][t][f] = 0
        <5>1. db.balances = [v \in Users |-> [s \in Tokens |-> NoBalance]]
          BY <2>1 DEF EmptyDatabase
        <5>2. db.balances[u][t] = NoBalance
          BY <5>1
        <5>. QED BY <5>2 DEF Fields, NoBalance
      <4>2. SumOf({}) = 0
        BY TotalEmpty DEF SumOf
      <4>3. /\ \A name : SuppliesOf(mapping, {}, name, u, t) = {}
            /\ \A type : DrawsOf(mapping, {}, type, u, t) = {}
            /\ EarnsOf(mapping, {}, u, t) = {}
        BY DEF SuppliesOf, DrawsOf, EarnsOf
      <4>4. Credit(mapping, {}, u, t, f) = 0
        BY <4>2, <4>3 DEF Credit, PledgeOf
      <4>. QED BY <4>1, <4>4
    <3>. QED BY <2>6, <3>1 DEF Even
  <2>8. Balanced
    BY <2>4, <2>7 DEF Balanced
  <2>. QED BY <2>4, <2>5, <2>8, TracksInit DEF Counted, Fresh
<1>2. Ingest /\ Counted => BalancesMatchProcessed
  <2>. SUFFICES ASSUME Ingest, Counted, Settled, faults = 0, NEW u \in Users, NEW t \in Tokens
                PROVE
                  /\ db.balances[u][t].encumbered = Pledged(Projected, u, t)
                  /\ db.balances[u][t].available =
                       Supplied(Projected, "MINT", u, t) - Supplied(Projected, "BURN", u, t)
                         - Drawn(Projected, "TRANSFER", u, t) + Received(Projected, u, t)
                         - Pledged(Projected, u, t)
    BY DEF BalancesMatchProcessed, BalancesAddUp
  <2>1. Away
    BY DEF Away, Settled, In
  <2>2. Even(db, mapping, Projected)
    BY <2>1 DEF Counted, Balanced
  <2>3. /\ db.balances[u][t]["encumbered"] = Credit(mapping, Projected, u, t, "encumbered")
        /\ db.balances[u][t]["available"] = Credit(mapping, Projected, u, t, "available")
    BY <2>2 DEF Even, Fields
  <2>. QED BY <2>3, CreditIsProperty
<1>. QED BY <1>1, <1>2, CountedNext, IngestAlways, PTL DEF Spec
=============================================================================
