----------------------------- MODULE EventProofs -----------------------------
(***************************************************************************)
(* Proofs about what the projection of an event leaves: which calls of a   *)
(* queue belong to the event the query model reflects, how far a processor *)
(* has got with them, and what they have written by the time the event is  *)
(* marked processed.                                                       *)
(***************************************************************************)
EXTENDS EPLProofs, FiniteSetTheorems

-----------------------------------------------------------------------------
(* The calls of the event of a transaction in the queue of its block.  A     *)
(* transaction may carry several events; the first of them leads, and by the *)
(* time another comes up the transaction's mark is set.                      *)

(* The calls s lie in q after the first a. *)
Lies(s, a, q) ==
  a \in Nat /\ \A k \in 1..Len(s) : a + k \in 1..Len(q) /\ q[a + k] = s[k]

(* The calls of event e of transaction x lie in q after the first a, and no  *)
(* save or mark of x comes before them.                                      *)
Leads(q, a, e, x) ==
  /\ Lies(EventCalls(e, x), a, q)
  /\ \A k \in 1..Len(q) : q[k] \in {SaveEventOf(x), MarkOf(x)} => a < k

(* A projection or a mark follows a projection or the save of an event. *)
Chained(q) ==
  \A l \in 1..Len(q) :
    q[l].do \in Projections \cup {"MarkEventProcessed"} =>
      l > 1 /\ q[l - 1].do \in Projections \cup {"SaveEvent"}

LEMMA LiesIn ==
  ASSUME NEW r, NEW a, NEW s, Lies(r, a, s), NEW b, NEW q, Lies(s, b, q)
  PROVE  Lies(r, b + a, q)
<1>1. a \in Nat /\ b \in Nat
  BY DEF Lies
<1>2. ASSUME NEW k \in 1..Len(r) PROVE (b + a) + k \in 1..Len(q) /\ q[(b + a) + k] = r[k]
  <2>1. a + k \in 1..Len(s) /\ s[a + k] = r[k]
    BY DEF Lies
  <2>2. b + (a + k) \in 1..Len(q) /\ q[b + (a + k)] = s[a + k]
    BY <2>1 DEF Lies
  <2>3. k \in Int
    OBVIOUS
  <2>4. b + (a + k) = (b + a) + k
    BY <1>1, <2>3
  <2>. QED BY <2>1, <2>2, <2>4
<1>. QED BY <1>1, <1>2 DEF Lies

(* Part i of a flattened sequence. *)
LEMMA PartLies ==
  ASSUME NEW q, NEW ss, NEW o, Placed(q, ss, o), Len(ss) \in Nat, NEW i \in 1..Len(ss)
  PROVE  Lies(ss[i], o[i], q)
<1>1. o[i] \in Nat
  <2>1. o \in [1..(Len(ss) + 1) -> Nat] /\ i \in 1..(Len(ss) + 1)
    BY DEF Placed
  <2>. QED BY <2>1
<1>. QED BY <1>1, Zenon DEF Placed, Lies

(* The parts of a concatenation. *)
LEMMA ConcatLies ==
  ASSUME NEW S, NEW r \in Seq(S), NEW s \in Seq(S)
  PROVE  Lies(r, 0, r \o s) /\ Lies(s, Len(r), r \o s)
<1>1. Len(r) \in Nat /\ Len(s) \in Nat
  BY LenProperties
<1>2. /\ Len(r \o s) = Len(r) + Len(s)
      /\ \A k \in 1..(Len(r) + Len(s)) : (r \o s)[k] = IF k <= Len(r) THEN r[k] ELSE s[k - Len(r)]
  BY ConcatProperties
<1>. DEFINE q == r \o s
<1>. HIDE DEF q
<1>3. /\ Len(q) = Len(r) + Len(s)
      /\ \A k \in 1..(Len(r) + Len(s)) : q[k] = IF k <= Len(r) THEN r[k] ELSE s[k - Len(r)]
  BY <1>2 DEF q
<1>4. ASSUME NEW k \in 1..Len(r) PROVE 0 + k \in 1..Len(q) /\ q[0 + k] = r[k]
  <2>1. 0 + k = k /\ k \in 1..(Len(r) + Len(s)) /\ k <= Len(r)
    BY <1>1
  <2>. QED BY <1>3, <2>1
<1>5. ASSUME NEW k \in 1..Len(s) PROVE Len(r) + k \in 1..Len(q) /\ q[Len(r) + k] = s[k]
  <2>1. Len(r) + k \in 1..(Len(r) + Len(s)) /\ ~(Len(r) + k <= Len(r)) /\ (Len(r) + k) - Len(r) = k
    BY <1>1
  <2>2. q[Len(r) + k] = IF Len(r) + k <= Len(r) THEN r[Len(r) + k] ELSE s[(Len(r) + k) - Len(r)]
    BY <1>3, <2>1, Zenon
  <2>. QED BY <1>3, <2>1, <2>2
<1>6. Lies(r, 0, q) /\ Lies(s, Len(r), q)
  BY <1>1, <1>4, <1>5, Zenon DEF Lies
<1>. QED BY <1>6 DEF q

LEMMA LeadsAfter ==
  ASSUME NEW S, NEW r \in Seq(S), NEW s \in Seq(S), NEW a, NEW e, NEW x, Leads(s, a, e, x),
         \A k \in 1..Len(r) : r[k] \notin {SaveEventOf(x), MarkOf(x)}
  PROVE  Leads(r \o s, Len(r) + a, e, x)
<1>1. Len(r) \in Nat /\ Len(s) \in Nat /\ a \in Nat
  BY LenProperties DEF Leads, Lies
<1>2. Lies(EventCalls(e, x), Len(r) + a, r \o s)
  BY ConcatLies, LiesIn DEF Leads
<1>3. /\ Len(r \o s) = Len(r) + Len(s)
      /\ \A k \in 1..(Len(r) + Len(s)) : (r \o s)[k] = IF k <= Len(r) THEN r[k] ELSE s[k - Len(r)]
  BY ConcatProperties
<1>. DEFINE q == r \o s
            own == {SaveEventOf(x), MarkOf(x)}
<1>. HIDE DEF q, own
<1>4. ASSUME NEW k \in 1..Len(q), q[k] \in own PROVE Len(r) + a < k
  <2>1. k \in 1..(Len(r) + Len(s)) /\ q[k] = IF k <= Len(r) THEN r[k] ELSE s[k - Len(r)]
    BY <1>3 DEF q
  <2>2. ~(k <= Len(r))
    <3>1. k <= Len(r) => k \in 1..Len(r) /\ q[k] = r[k]
      BY <1>1, <2>1
    <3>. QED BY <1>4, <3>1 DEF own
  <2>3. k - Len(r) \in 1..Len(s) /\ s[k - Len(r)] \in own
    BY <1>1, <1>4, <2>1, <2>2
  <2>4. a < k - Len(r)
    BY <2>3 DEF Leads, own
  <2>. QED BY <1>1, <2>1, <2>4
<1>. QED BY <1>2, <1>4 DEF Leads, q, own

LEMMA LeadsBefore ==
  ASSUME NEW S, NEW s \in Seq(S), NEW u \in Seq(S), NEW x \in TxIds, NEW e \in EventOf(x),
         NEW a, Leads(s, a, e, x)
  PROVE  Leads(s \o u, a, e, x)
<1>1. Len(s) \in Nat /\ Len(u) \in Nat /\ a \in Nat
  BY LenProperties DEF Leads, Lies
<1>2. Lies(EventCalls(e, x), a, s \o u)
  <2>1. Lies(EventCalls(e, x), 0 + a, s \o u)
    BY ConcatLies, LiesIn DEF Leads
  <2>. QED BY <1>1, <2>1
<1>3. /\ Len(s \o u) = Len(s) + Len(u)
      /\ \A k \in 1..(Len(s) + Len(u)) : (s \o u)[k] = IF k <= Len(s) THEN s[k] ELSE u[k - Len(s)]
  BY ConcatProperties
<1>4. a + 1 <= Len(s)
  <2>1. 1 \in 1..Len(EventCalls(e, x))
    BY EventCallsAt
  <2>2. a + 1 \in 1..Len(s)
    BY <2>1 DEF Leads, Lies
  <2>. QED BY <2>2
<1>. DEFINE q == s \o u
            own == {SaveEventOf(x), MarkOf(x)}
<1>. HIDE DEF q, own
<1>5. ASSUME NEW k \in 1..Len(q), q[k] \in own PROVE a < k
  <2>1. k \in 1..(Len(s) + Len(u)) /\ q[k] = IF k <= Len(s) THEN s[k] ELSE u[k - Len(s)]
    BY <1>3 DEF q
  <2>2. CASE k <= Len(s)
    <3>1. k \in 1..Len(s) /\ s[k] \in own
      BY <1>1, <1>5, <2>1, <2>2
    <3>. QED BY <3>1 DEF Leads, own
  <2>3. CASE ~(k <= Len(s))
    BY <1>1, <1>4, <2>1, <2>3
  <2>. QED BY <2>2, <2>3
<1>. QED BY <1>2, <1>5 DEF Leads, q, own

(* The first event a transaction's envelope holds for us is the first that   *)
(* is decoded from it.                                                       *)
LEMMA FirstEvent ==
  ASSUME NEW block, WellFormed(block), NEW i, EventfulAt(block, i)
  PROVE  /\ DecodedAt(block, i).events # <<>>
         /\ DecodedAt(block, i).events[1] = OurEvent(block.data[i])
         /\ OurEvent(block.data[i]) \in EventOf(block.data[i].tx)
         /\ Emitted(block.data[i], OurEvent(block.data[i]))
<1>. DEFINE envelope == block.data[i]
            actions == envelope.actions
            x == envelope.tx
            es == DecodedAt(block, i).events
            parts == [j \in DOMAIN actions |-> decodeAction(actions[j])]
            ours == {j \in DOMAIN actions : actions[j].chaincode = ChaincodeName
                                              /\ actions[j].events # <<>>}
<1>1. i \in DOMAIN block.data /\ IsTransaction(envelope) /\ OurEvent(envelope) # Nil
  BY DEF EventfulAt, TransactionAt
<1>2. es \in Seq(EventOf(x)) /\ es # <<>>
  BY <1>1, DecodedTransaction
<1>3. block.data \in Seq(RawEnvelope)
  BY DEF WellFormed, RawBlock
<1>4. envelope \in RawEnvelope
  BY <1>1, <1>3, LenProperties, ElementOfSeq
<1>5. actions \in Seq([chaincode: STRING, events: Seq(Event)])
  <2>. HIDE DEF envelope
  <2>. QED BY <1>4 DEF RawEnvelope
<1>6. DOMAIN actions = 1..Len(actions) /\ Len(actions) \in Nat
  BY <1>5, LenProperties
<1>7. \A j \in 1..Len(actions) : actions[j].events \in Seq(Event)
  <2>. SUFFICES ASSUME NEW j \in 1..Len(actions) PROVE actions[j].events \in Seq(Event)
    OBVIOUS
  <2>1. actions[j] \in [chaincode: STRING, events: Seq(Event)]
    <3>. HIDE DEF actions
    <3>. QED BY <1>5, <1>6, ElementOfSeq
  <2>. QED BY <2>1
<1>8. parts \in Seq(Seq(Event)) /\ Len(parts) = Len(actions)
  <2>1. \A j \in 1..Len(actions) : decodeAction(actions[j]) \in Seq(Event)
    BY <1>7, EmptySeq DEF decodeAction
  <2>. HIDE DEF actions
  <2>2. parts \in [1..Len(actions) -> Seq(Event)]
    BY <1>6, <2>1
  <2>. HIDE DEF parts
  <2>. QED BY <1>6, <2>2, SeqDef, LenProperties
<1>9. es = FlattenSeq(parts)
  BY DEF DecodedAt, decodeTransaction
<1>10. PICK o : Placed(es, parts, o)
  BY <1>8, <1>9, FlattenPositions
<1>11. OurEvent(envelope) = IF ours = {} THEN Nil ELSE actions[Min(ours)].events[1]
  BY Zenon DEF OurEvent
<1>12. ours # {} /\ ours \subseteq Nat
  <2>1. ours # {}
    <3>. HIDE DEF ours, envelope
    <3>. QED BY <1>1, <1>11
  <2>. QED BY <1>6, <2>1
<1>13. PICK f : f = Min(ours)
  OBVIOUS
<1>14. f \in ours /\ \A j \in ours : f <= j
  BY <1>12, <1>13, MinOfNats
<1>15. OurEvent(envelope) = actions[f].events[1]
  BY <1>11, <1>12, <1>13
<1>16. f \in 1..Len(parts) /\ actions[f].chaincode = ChaincodeName /\ actions[f].events # <<>>
  BY <1>6, <1>8, <1>14
<1>17. parts[f] = actions[f].events
  BY <1>6, <1>8, <1>16 DEF decodeAction
<1>18. \A j \in 1..Len(parts) : parts[j] \in Seq(Event) /\ Len(parts[j]) \in Nat
  <2>. HIDE DEF parts
  <2>. QED BY <1>8, ElementOfSeq, LenProperties
<1>19. \A j \in 1..Len(parts) : j < f => Len(parts[j]) = 0
  <2>. SUFFICES ASSUME NEW j \in 1..Len(parts), j < f PROVE Len(parts[j]) = 0
    OBVIOUS
  <2>1. j \notin ours
    <3>1. f \in Nat /\ j \in Nat /\ ~(f <= j)
      BY <1>6, <1>8, <1>16
    <3>. HIDE DEF ours
    <3>. QED BY <1>14, <3>1
  <2>2. j \in DOMAIN actions
    BY <1>6, <1>8
  <2>3. parts[j] = <<>>
    BY <2>1, <2>2 DEF decodeAction
  <2>. QED BY <2>3
<1>20. 1 \in 1..Len(es)
  BY <1>2, EmptySeq, LenProperties
<1>21. 1 \in 1..Len(parts[f])
  <2>1. parts[f] # <<>> /\ parts[f] \in Seq(Event)
    BY <1>16, <1>17, <1>18
  <2>. HIDE DEF parts
  <2>. QED BY <2>1, EmptySeq, LenProperties
<1>. HIDE DEF parts, es
<1>22. PICK j \in 1..Len(parts) : \E k \in 1..Len(parts[j]) : 1 = o[j] + k
  BY <1>10, <1>20, Zenon DEF Placed
<1>23. PICK k \in 1..Len(parts[j]) : 1 = o[j] + k
  BY <1>22
<1>24. o \in [1..(Len(parts) + 1) -> Nat] /\ \A m \in 1..Len(parts) : o[m] \in Nat
  <2>1. o \in [1..(Len(parts) + 1) -> Nat] /\ Len(parts) \in Nat
    BY <1>6, <1>8, <1>10 DEF Placed
  <2>. QED BY <2>1
<1>25. k = 1 /\ o[j] = 0
  BY <1>18, <1>23, <1>24
<1>26. j = f
  <2>1. f <= j
    BY <1>6, <1>8, <1>16, <1>19, <1>23
  <2>2. j <= f
    <3>1. o[f + 1] = o[f] + Len(parts[f])
      BY <1>10, <1>16, Zenon DEF Placed
    <3>2. f + 1 <= j => o[f + 1] <= o[j]
      <4>1. f + 1 \in 1..(Len(parts) + 1) /\ j \in 1..(Len(parts) + 1)
        BY <1>6, <1>8, <1>16
      <4>. QED BY <1>10, <4>1, Zenon DEF Placed
    <3>3. Len(parts[f]) >= 1 /\ o[f] \in Nat /\ Len(parts[f]) \in Nat
      BY <1>16, <1>18, <1>21, <1>24
    <3>4. ~(f + 1 <= j)
      BY <1>25, <3>1, <3>2, <3>3
    <3>. QED BY <1>6, <1>8, <1>16, <3>4
  <2>. QED BY <1>6, <1>8, <1>16, <2>1, <2>2
<1>27. es[1] = parts[f][1]
  <2>1. es[o[j] + k] = parts[j][k]
    BY <1>10, <1>22, <1>23, Zenon DEF Placed
  <2>. QED BY <1>25, <1>26, <2>1
<1>28. es[1] = OurEvent(envelope)
  BY <1>15, <1>17, <1>27
<1>29. OurEvent(envelope) \in EventOf(x)
  <2>1. es[1] \in EventOf(x)
    BY <1>2, <1>20, ElementOfSeq
  <2>. QED BY <1>28, <2>1
<1>30. Emitted(envelope, OurEvent(envelope))
  <2>1. f \in DOMAIN actions /\ actions[f] \in Range(actions)
    BY <1>6, <1>8, <1>16 DEF Range
  <2>2. 1 \in DOMAIN actions[f].events
    <3>1. actions[f].events \in Seq(Event) /\ 1 \in 1..Len(actions[f].events)
      BY <1>16, <1>17, <1>18, <1>21
    <3>. QED BY <3>1, LenProperties
  <2>3. OurEvent(envelope) \in Range(actions[f].events)
    BY <1>15, <2>2 DEF Range
  <2>. QED BY <1>16, <2>1, <2>3 DEF Emitted
<1>. QED BY <1>2, <1>28, <1>29, <1>30 DEF es

LEMMA OwnAndDo ==
  ASSUME NEW x
  PROVE  SaveEventOf(x).do = "SaveEvent" /\ MarkOf(x).do = "MarkEventProcessed"
           /\ SaveEventOf(x).tx = x /\ MarkOf(x).tx = x
  BY DEF SaveEventOf, MarkOf

(* The first event of a transaction leads among its events, ... *)
LEMMA EventsLead ==
  ASSUME NEW x \in TxIds, NEW es \in Seq(EventOf(x)), es # <<>>, NEW q,
         q = FlattenSeq([i \in DOMAIN es |-> EventCalls(es[i], x)])
  PROVE  Leads(q, 0, es[1], x)
<1>. DEFINE C == EventCall(x)
            parts == [i \in DOMAIN es |-> EventCalls(es[i], x)]
<1>1. DOMAIN es = 1..Len(es) /\ Len(es) \in Nat /\ 1 \in 1..Len(es)
  BY EmptySeq, LenProperties
<1>2. ASSUME NEW i \in DOMAIN es PROVE parts[i] \in Seq(C)
  <2>1. es[i] \in EventOf(x) /\ parts[i] = EventCalls(es[i], x)
    BY <1>1, ElementOfSeq
  <2>. QED BY <2>1, EventCallsAt
<1>3. parts \in Seq(Seq(C)) /\ Len(parts) = Len(es)
  <2>. HIDE DEF C
  <2>1. DOMAIN parts = 1..Len(es) /\ \A i \in 1..Len(es) : parts[i] \in Seq(C)
    BY <1>1, <1>2
  <2>2. parts \in [1..Len(es) -> Seq(C)]
    BY <1>1, <2>1
  <2>. HIDE DEF parts
  <2>. QED BY <1>1, <2>2, SeqDef, LenProperties
<1>4. q \in Seq(C) /\ \E o : Placed(q, parts, o)
  <2>. HIDE DEF C, parts
  <2>1. q = FlattenSeq(parts)
    BY DEF parts
  <2>. QED BY <1>3, <2>1, FlattenPositions
<1>5. PICK o : Placed(q, parts, o)
  BY <1>4
<1>6. parts[1] = EventCalls(es[1], x)
  BY <1>1
<1>. HIDE DEF C, parts
<1>7. Lies(parts[1], o[1], q) /\ o[1] = 0
  BY <1>1, <1>3, <1>5, PartLies DEF Placed
<1>8. \A k \in 1..Len(q) : 0 < k
  OBVIOUS
<1>. QED BY <1>6, <1>7, <1>8 DEF Leads

(* ... in the calls of the transaction, ... *)
LEMMA TransactionLeads ==
  ASSUME NEW t \in Decoded, t.events \in Seq(EventOf(t.id)), t.code = "VALID", t.events # <<>>
  PROVE  Leads(TransactionCalls(t), 1, t.events[1], t.id)
<1>. DEFINE x == t.id
            es == t.events
            C == TransactionCall(t)
            f == FlattenSeq([i \in DOMAIN es |-> EventCalls(es[i], x)])
            r == <<SaveTransactionOf(t)>>
<1>1. x \in TxIds
  BY DEF Decoded
<1>2. Leads(f, 0, es[1], x) /\ f \in Seq(EventCall(x))
  BY <1>1, EventsLead, EventsCallsAt
<1>3. f \in Seq(C)
  <2>1. EventCall(x) \subseteq C
    BY DEF TransactionCall
  <2>. HIDE DEF f, C, x
  <2>. QED BY <1>2, <2>1, SeqMonotonic
<1>4. r \in Seq(C) /\ Len(r) = 1 /\ r[1] = SaveTransactionOf(t)
  <2>1. SaveTransactionOf(t) \in C
    BY DEF TransactionCall
  <2>. HIDE DEF C
  <2>. QED BY <2>1
<1>5. TransactionCalls(t) = r \o f
  BY DEF TransactionCalls, SaveTransactionOf
<1>6. \A k \in 1..Len(r) : r[k] \notin {SaveEventOf(x), MarkOf(x)}
  <2>1. SaveTransactionOf(t).do = "SaveTransaction"
    BY DEF SaveTransactionOf
  <2>2. SaveTransactionOf(t) \notin {SaveEventOf(x), MarkOf(x)}
    BY <2>1, OwnAndDo
  <2>. HIDE DEF r
  <2>. QED BY <1>4, <2>2
<1>. HIDE DEF r, f, C, x, es
<1>7. Leads(r \o f, Len(r) + 0, es[1], x)
  BY <1>2, <1>3, <1>4, <1>6, LeadsAfter
<1>. QED BY <1>4, <1>5, <1>7 DEF x, es

(* Valid transactions with events have ids of their own. *)
Unrepeated(block) ==
  \A i, j : (/\ EventfulAt(block, i) /\ EventfulAt(block, j)
             /\ block.data[i].tx = block.data[j].tx) => i = j

(* ... in the transactions of the block, ... *)
LEMMA TransactionsLead ==
  ASSUME NEW block, WellFormed(block), Unrepeated(block), NEW i, EventfulAt(block, i), NEW q,
         q = FlattenSeq([m \in DOMAIN decodeBlock(block) |-> TransactionCalls(decodeBlock(block)[m])])
  PROVE  \E a \in Nat : Leads(q, a, OurEvent(block.data[i]), block.data[i].tx)
<1>. DEFINE ts == decodeBlock(block)
            parts == [m \in DOMAIN ts |-> TransactionCalls(ts[m])]
            x == block.data[i].tx
            e == OurEvent(block.data[i])
<1>1. /\ ts \in Seq(Decoded)
      /\ \A m \in 1..Len(ts) : TransactionAt(block, ts[m].index) /\ ts[m] = DecodedAt(block, ts[m].index)
      /\ \A j : TransactionAt(block, j) => \E m \in 1..Len(ts) : ts[m] = DecodedAt(block, j)
      /\ \A m, n \in 1..Len(ts) : m < n => ts[m].index < ts[n].index
  BY DecodedBlock DEF TransactionAt
<1>. HIDE DEF ts
<1>2. DOMAIN ts = 1..Len(ts) /\ Len(ts) \in Nat /\ \A m \in 1..Len(ts) : ts[m] \in Decoded /\ ts[m].index \in Nat
  <2>1. DOMAIN ts = 1..Len(ts) /\ Len(ts) \in Nat
    BY <1>1, LenProperties
  <2>2. \A m \in 1..Len(ts) : ts[m] \in Decoded
    BY <1>1, ElementOfSeq
  <2>. QED BY <2>1, <2>2 DEF Decoded
<1>3. ASSUME NEW m \in 1..Len(ts)
      PROVE  /\ TransactionAt(block, ts[m].index) /\ ts[m].id = block.data[ts[m].index].tx
             /\ ts[m].code = block.filter[ts[m].index]
             /\ ts[m].events \in Seq(EventOf(ts[m].id))
             /\ ts[m].events = <<>> <=> OurEvent(block.data[ts[m].index]) = Nil
  <2>. DEFINE j == ts[m].index
  <2>1. TransactionAt(block, j) /\ ts[m] = DecodedAt(block, j)
    BY <1>1
  <2>. HIDE DEF j
  <2>2. /\ DecodedAt(block, j).id = block.data[j].tx
        /\ DecodedAt(block, j).code = block.filter[j]
        /\ DecodedAt(block, j).events \in Seq(EventOf(block.data[j].tx))
        /\ DecodedAt(block, j).events = <<>> <=> OurEvent(block.data[j]) = Nil
    BY <2>1, DecodedTransaction DEF TransactionAt
  <2>. QED BY <2>1, <2>2 DEF j
<1>4. \A m \in 1..Len(ts) : parts[m] = TransactionCalls(ts[m])
  BY <1>2
<1>5. ASSUME NEW m \in 1..Len(ts)
      PROVE  parts[m] \in Seq(AnyCall) /\ Len(parts[m]) \in Nat
  <2>. DEFINE t == ts[m]
  <2>1. t \in Decoded /\ t.events \in Seq(EventOf(t.id)) /\ parts[m] = TransactionCalls(t) /\ t.id \in TxIds
    BY <1>2, <1>3, <1>4 DEF Decoded
  <2>. HIDE DEF t, parts
  <2>2. parts[m] \in Seq(TransactionCall(t)) /\ Len(parts[m]) \in Nat
    BY <2>1, TransactionCallsAt
  <2>3. TransactionCall(t) \subseteq AnyCall
    BY <2>1, CallsAreTyped DEF TransactionCall
  <2>. QED BY <2>2, <2>3, SeqMonotonic
<1>6. parts \in Seq(Seq(AnyCall)) /\ Len(parts) = Len(ts)
  <2>1. parts \in [1..Len(ts) -> Seq(AnyCall)]
    BY <1>2, <1>5
  <2>. HIDE DEF parts
  <2>. QED BY <1>2, <2>1, SeqDef, LenProperties
<1>7. q = FlattenSeq(parts)
  BY DEF ts
<1>. HIDE DEF parts
<1>8. q \in Seq(AnyCall) /\ \E o : Placed(q, parts, o)
  BY <1>6, <1>7, FlattenPositions
<1>9. PICK o : Placed(q, parts, o)
  BY <1>8
<1>10. TransactionAt(block, i) /\ block.filter[i] = "VALID" /\ e # Nil
  BY DEF EventfulAt
<1>11. PICK m \in 1..Len(ts) : ts[m] = DecodedAt(block, i)
  BY <1>1, <1>10
<1>12. /\ DecodedAt(block, i).id = x /\ DecodedAt(block, i).index = i /\ x \in TxIds
       /\ DecodedAt(block, i).code = "VALID"
  BY <1>10, DecodedTransaction DEF TransactionAt
<1>13. ts[m].index = i /\ ts[m].id = x /\ ts[m].code = "VALID" /\ ts[m].events # <<>>
         /\ ts[m].events[1] = e /\ e \in EventOf(x)
  BY <1>11, <1>12, FirstEvent
<1>. HIDE DEF x, e
<1>14. Leads(parts[m], 1, e, x)
  <2>. DEFINE t == ts[m]
  <2>1. t \in Decoded /\ t.events \in Seq(EventOf(t.id)) /\ t.code = "VALID" /\ t.events # <<>>
    BY <1>2, <1>3, <1>13
  <2>2. t.events[1] = e /\ t.id = x /\ parts[m] = TransactionCalls(t)
    BY <1>4, <1>13
  <2>. HIDE DEF t
  <2>. QED BY <2>1, <2>2, TransactionLeads
<1>15. m \in 1..Len(parts) /\ Len(parts) \in Nat
  BY <1>2, <1>6
<1>16. Lies(EventCalls(e, x), o[m] + 1, q) /\ o[m] \in Nat
  <2>1. Lies(parts[m], o[m], q)
    BY <1>9, <1>15, PartLies
  <2>2. Lies(EventCalls(e, x), 1, parts[m])
    BY <1>14 DEF Leads
  <2>3. Lies(EventCalls(e, x), o[m] + 1, q)
    BY <2>1, <2>2, LiesIn
  <2>. QED BY <2>1, <2>3 DEF Lies
(* A call of the event of x lies in the same part. *)
<1>17. ASSUME NEW k \in 1..Len(q), q[k] \in {SaveEventOf(x), MarkOf(x)}
       PROVE  o[m] + 1 < k
  <2>1. PICK n \in 1..Len(parts) : \E j \in 1..Len(parts[n]) : k = o[n] + j
    BY <1>9, Zenon DEF Placed
  <2>2. PICK j \in 1..Len(parts[n]) : k = o[n] + j
    BY <2>1
  <2>3. q[k] = parts[n][j]
    BY <1>9, <2>2, Zenon DEF Placed
  <2>. DEFINE t == ts[n]
              y == t.id
              c == q[k]
  <2>4. /\ n \in 1..Len(ts) /\ t \in Decoded /\ t.events \in Seq(EventOf(y)) /\ parts[n] = TransactionCalls(t)
    BY <1>2, <1>3, <1>4, <1>6
  <2>5. c.do \in {"SaveEvent", "MarkEventProcessed"} /\ c.tx = x /\ c \in {SaveEventOf(x), MarkOf(x)}
    BY <1>17, OwnAndDo
  <2>6. t.code = "VALID" /\ t.events # <<>> /\ c \in EventCall(y)
    <3>. HIDE DEF t, c
    <3>1. /\ Len(parts[n]) \in Nat /\ parts[n][1] = SaveTransactionOf(t)
          /\ t.code # "VALID" => Len(parts[n]) = 2 /\ parts[n][2] = SaveInvalidOf(y)
          /\ t.code = "VALID" =>
               \A l \in 2..Len(parts[n]) : parts[n][l] \in EventCall(y) /\ t.events # <<>>
      BY <2>4, TransactionCallsAt
    <3>2. c # SaveTransactionOf(t) /\ c # SaveInvalidOf(y)
      BY <2>5 DEF SaveTransactionOf, SaveInvalidOf
    <3>3. c = parts[n][j]
      BY <2>3 DEF c
    <3>4. j # 1
      BY <3>1, <3>2, <3>3
    <3>5. j \in 2..Len(parts[n])
      BY <3>1, <3>4
    <3>6. t.code = "VALID"
      <4>1. ASSUME t.code # "VALID" PROVE j = 2
        <5>1. Len(parts[n]) = 2
          BY <3>1, <4>1
        <5>. QED BY <3>5, <5>1
      <4>. QED BY <3>1, <3>2, <3>3, <4>1
    <3>. QED BY <3>1, <3>3, <3>5, <3>6
  <2>7. y = x
    <3>1. c = SaveEventOf(y) \/ c = MarkOf(y)
      BY <2>5, <2>6, EventCallKinds
    <3>. QED BY <2>5, <3>1, OwnAndDo
  <2>8. EventfulAt(block, t.index) /\ block.data[t.index].tx = x
    BY <1>3, <2>4, <2>6, <2>7 DEF EventfulAt
  <2>9. t.index = i
    BY <2>8 DEF Unrepeated, x
  <2>10. n = m
    <3>1. ts[n].index = i /\ ts[m].index = i /\ i \in Nat /\ n \in 1..Len(ts) /\ m \in 1..Len(ts)
      BY <1>2, <1>13, <2>4, <2>9
    <3>2. \A u, v \in 1..Len(ts) : u < v => ts[u].index < ts[v].index
      BY <1>1
    <3>. HIDE DEF ts, parts, t, c
    <3>3. ~(n < m)
      BY <3>1, <3>2
    <3>4. ~(m < n)
      BY <3>1, <3>2
    <3>. QED BY <1>2, <3>1, <3>3, <3>4
  <2>11. parts[m][j] \in {SaveEventOf(x), MarkOf(x)} /\ j \in 1..Len(parts[m])
    BY <1>17, <2>2, <2>3, <2>10
  <2>12. 1 < j
    BY <1>14, <2>11 DEF Leads
  <2>. QED BY <1>16, <2>2, <2>10, <2>11, <2>12
<1>18. Leads(q, o[m] + 1, e, x)
  BY <1>16, <1>17 DEF Leads
<1>. QED BY <1>16, <1>18 DEF e, x

(* ... and in its block. *)
LEMMA BlockLeads ==
  ASSUME NEW block, WellFormed(block), Unrepeated(block), NEW i, EventfulAt(block, i)
  PROVE  \E a \in Nat : Leads(processBlock(decodeBlock(block)), a, OurEvent(block.data[i]), block.data[i].tx)
<1>. DEFINE x == block.data[i].tx
            e == OurEvent(block.data[i])
            ts == decodeBlock(block)
            f == FlattenSeq([m \in DOMAIN ts |-> TransactionCalls(ts[m])])
            r == <<[do |-> "SaveBlock"]>>
            u == <<[do |-> "UpdateCheckpoint"]>>
<1>1. f \in Seq(AnyCall)
  BY TransactionsCallsAt
<1>2. PICK a \in Nat : Leads(f, a, e, x)
  BY TransactionsLead
<1>3. r \in Seq(AnyCall) /\ u \in Seq(AnyCall) /\ Len(r) = 1 /\ r[1] = [do |-> "SaveBlock"]
  <2>1. [do |-> "SaveBlock"] \in AnyCall /\ [do |-> "UpdateCheckpoint"] \in AnyCall
    BY DEF AnyCall
  <2>. QED BY <2>1
<1>4. processBlock(ts) = r \o f \o u
  BY DEF processBlock
<1>5. e \in EventOf(x) /\ x \in TxIds
  <2>1. x \in TxIds
    BY DecodedTransaction DEF EventfulAt, TransactionAt
  <2>. QED BY <2>1, FirstEvent
<1>. HIDE DEF f, ts, x, e
<1>6. \A k \in 1..Len(r) : r[k] \notin {SaveEventOf(x), MarkOf(x)}
  <2>1. [do |-> "SaveBlock"] \notin {SaveEventOf(x), MarkOf(x)}
    BY OwnAndDo
  <2>. HIDE DEF r
  <2>. QED BY <1>3, <2>1
<1>. HIDE DEF r, u
<1>7. Leads(r \o f, Len(r) + a, e, x)
  BY <1>1, <1>2, <1>3, <1>6, LeadsAfter
<1>8. r \o f \in Seq(AnyCall)
  BY <1>1, <1>3, ConcatOf
<1>9. Leads(r \o f \o u, Len(r) + a, e, x)
  <2>. DEFINE rf == r \o f
  <2>. HIDE DEF rf
  <2>1. Leads(rf, Len(r) + a, e, x) /\ rf \in Seq(AnyCall)
    BY <1>7, <1>8 DEF rf
  <2>2. Leads(rf \o u, Len(r) + a, e, x)
    BY <1>3, <1>5, <2>1, LeadsBefore
  <2>. QED BY <2>2 DEF rf
<1>10. Len(r) + a \in Nat
  BY <1>3
<1>. QED BY <1>4, <1>9, <1>10 DEF e, x, ts

(* A queue is chained when its parts are. *)
LEMMA ChainedFlatten ==
  ASSUME NEW S, NEW n \in Nat, NEW ss, DOMAIN ss = 1..n, ss = [i \in 1..n |-> ss[i]],
         \A i \in 1..n : ss[i] \in Seq(S) /\ Chained(ss[i])
  PROVE  Chained(FlattenSeq(ss))
<1>1. ss \in Seq(Seq(S)) /\ Len(ss) = n
  <2>1. ss \in [1..n -> Seq(S)]
    OBVIOUS
  <2>. QED BY <2>1, SeqDef, LenProperties
<1>. DEFINE q == FlattenSeq(ss)
<1>2. PICK o : Placed(q, ss, o)
  BY <1>1, FlattenPositions
<1>. HIDE DEF q
<1>3. ASSUME NEW l \in 1..Len(q), q[l].do \in Projections \cup {"MarkEventProcessed"}
      PROVE  l > 1 /\ q[l - 1].do \in Projections \cup {"SaveEvent"}
  <2>1. PICK i \in 1..Len(ss) : \E k \in 1..Len(ss[i]) : l = o[i] + k
    BY <1>2, Zenon DEF Placed
  <2>2. PICK k \in 1..Len(ss[i]) : l = o[i] + k
    BY <2>1
  <2>3. q[l] = ss[i][k]
    BY <1>2, <2>2, Zenon DEF Placed
  <2>4. Chained(ss[i]) /\ ss[i] \in Seq(S)
    BY <1>1
  <2>5. k > 1 /\ ss[i][k - 1].do \in Projections \cup {"SaveEvent"}
    BY <1>3, <2>3, <2>4 DEF Chained
  <2>6. k - 1 \in 1..Len(ss[i]) /\ o[i] \in Nat
    <3>1. Len(ss[i]) \in Nat
      BY <2>4, LenProperties
    <3>2. o \in [1..(Len(ss) + 1) -> Nat] /\ i \in 1..(Len(ss) + 1)
      BY <1>1, <1>2 DEF Placed
    <3>. QED BY <2>5, <3>1, <3>2
  <2>7. q[o[i] + (k - 1)] = ss[i][k - 1]
    BY <1>2, <2>6, Zenon DEF Placed
  <2>8. l - 1 = o[i] + (k - 1) /\ l > 1
    <3>1. k \in Int /\ o[i] \in Nat /\ k > 1
      BY <2>5, <2>6
    <3>2. PICK a \in Nat : a = o[i]
      BY <3>1
    <3>3. l = a + k
      BY <2>2, <3>2
    <3>4. l - 1 = a + (k - 1) /\ l > 1
      BY <3>1, <3>2, <3>3
    <3>. QED BY <3>2, <3>4
  <2>. QED BY <2>5, <2>7, <2>8
<1>. QED BY <1>3 DEF Chained, q

LEMMA ChainedConcat ==
  ASSUME NEW S, NEW r \in Seq(S), NEW s \in Seq(S), Chained(r), Chained(s)
  PROVE  Chained(r \o s)
<1>1. Len(r) \in Nat /\ Len(s) \in Nat
  BY LenProperties
<1>. DEFINE q == r \o s
            P == Projections \cup {"MarkEventProcessed"}
            R == Projections \cup {"SaveEvent"}
<1>2. /\ Len(q) = Len(r) + Len(s)
      /\ \A k \in 1..(Len(r) + Len(s)) : q[k] = IF k <= Len(r) THEN r[k] ELSE s[k - Len(r)]
  BY ConcatProperties
<1>3. /\ \A l \in 1..Len(r) : r[l].do \in P => l > 1 /\ r[l - 1].do \in R
      /\ \A l \in 1..Len(s) : s[l].do \in P => l > 1 /\ s[l - 1].do \in R
  BY DEF Chained
<1>. HIDE DEF q, P, R
<1>4. ASSUME NEW l \in 1..Len(q), q[l].do \in P PROVE l > 1 /\ q[l - 1].do \in R
  <2>1. CASE l <= Len(r)
    <3>1. l \in 1..Len(r) /\ q[l] = r[l]
      BY <1>1, <1>2, <2>1
    <3>2. l > 1 /\ r[l - 1].do \in R
      BY <1>3, <1>4, <3>1
    <3>3. q[l - 1] = r[l - 1]
      BY <1>1, <1>2, <3>1, <3>2
    <3>. QED BY <3>2, <3>3
  <2>2. CASE ~(l <= Len(r))
    <3>1. l - Len(r) \in 1..Len(s) /\ q[l] = s[l - Len(r)]
      BY <1>1, <1>2, <2>2
    <3>2. l - Len(r) > 1 /\ s[(l - Len(r)) - 1].do \in R
      BY <1>3, <1>4, <3>1
    <3>3. q[l - 1] = s[(l - Len(r)) - 1] /\ l > 1
      <4>1. l - 1 \in 1..(Len(r) + Len(s)) /\ ~(l - 1 <= Len(r)) /\ (l - 1) - Len(r) = (l - Len(r)) - 1
        BY <1>1, <3>1, <3>2
      <4>2. q[l - 1] = s[(l - 1) - Len(r)]
        BY <1>2, <4>1
      <4>. QED BY <1>1, <3>1, <3>2, <4>1, <4>2
    <3>. QED BY <3>2, <3>3
  <2>. QED BY <2>1, <2>2
<1>. QED BY <1>4 DEF Chained, P, R, q

LEMMA ChainedOne ==
  ASSUME NEW c, c.do \notin Projections \cup {"MarkEventProcessed"} PROVE Chained(<<c>>)
<1>. DEFINE q == <<c>>
<1>1. \A l \in 1..Len(q) : q[l] = c
  OBVIOUS
<1>. HIDE DEF q
<1>2. Chained(q)
  BY <1>1 DEF Chained
<1>. QED BY <1>2 DEF q

LEMMA EventChained ==
  ASSUME NEW x \in TxIds, NEW e \in EventOf(x) PROVE Chained(EventCalls(e, x))
<1>. DEFINE q == EventCalls(e, x)
            n == Len(q)
<1>1. /\ q \in Seq(EventCall(x)) /\ n \in Nat /\ 2 <= n
      /\ q[1] = SaveEventOf(x) /\ q[n] = MarkOf(x)
      /\ \A k \in 2..(n - 1) : q[k] \in Projecting(x)
  BY EventCallsAt
<1>. HIDE DEF q, n
<1>2. ASSUME NEW l \in 1..n, q[l].do \in Projections \cup {"MarkEventProcessed"}
      PROVE  l > 1 /\ q[l - 1].do \in Projections \cup {"SaveEvent"}
  <2>1. l # 1
    BY <1>1, <1>2, OwnAndDo DEF Projections, Writes
  <2>2. CASE l - 1 = 1
    BY <1>1, <2>2, OwnAndDo
  <2>3. CASE l - 1 # 1
    <3>1. l - 1 \in 2..(n - 1)
      BY <1>1, <2>1, <2>3
    <3>. QED BY <1>1, <2>1, <3>1, ProjectingDo
  <2>. QED BY <2>1, <2>2, <2>3
<1>. QED BY <1>2 DEF Chained, n, q

LEMMA TransactionChained ==
  ASSUME NEW t \in Decoded, t.events \in Seq(EventOf(t.id)) PROVE Chained(TransactionCalls(t))
<1>. DEFINE x == t.id
            es == t.events
            C == TransactionCall(t)
            parts == [i \in DOMAIN es |-> EventCalls(es[i], x)]
            rest == IF t.code # "VALID" THEN <<SaveInvalidOf(x)>> ELSE FlattenSeq(parts)
            r == <<SaveTransactionOf(t)>>
<1>1. x \in TxIds
  BY DEF Decoded
<1>2. DOMAIN es = 1..Len(es) /\ Len(es) \in Nat
  BY LenProperties
<1>3. \A m \in 1..Len(es) : EventCalls(es[m], x) \in Seq(EventCall(x)) /\ Chained(EventCalls(es[m], x))
  <2>1. \A m \in 1..Len(es) : es[m] \in EventOf(x)
    BY ElementOfSeq
  <2>. HIDE DEF x, es
  <2>. QED BY <1>1, <2>1, EventCallsAt, EventChained
<1>4. Chained(FlattenSeq(parts)) /\ FlattenSeq(parts) \in Seq(EventCall(x))
  <2>. DEFINE n == Len(es)
              D == EventCall(x)
  <2>1. /\ DOMAIN parts = 1..n /\ n \in Nat /\ parts = [m \in 1..n |-> parts[m]]
        /\ \A m \in 1..n : parts[m] \in Seq(D) /\ Chained(parts[m])
    <3>. HIDE DEF es, x, D
    <3>. QED BY <1>2, <1>3 DEF D
  <2>. HIDE DEF parts, n, D
  <2>. QED BY <2>1, FlattenOf, ChainedFlatten DEF D
<1>5. rest \in Seq(C) /\ Chained(rest) /\ r \in Seq(C) /\ Chained(r)
  <2>1. EventCall(x) \subseteq C /\ SaveInvalidOf(x) \in C /\ SaveTransactionOf(t) \in C
    BY DEF TransactionCall
  <2>2. SaveInvalidOf(x).do = "SaveInvalidTransaction" /\ SaveTransactionOf(t).do = "SaveTransaction"
    BY DEF SaveInvalidOf, SaveTransactionOf
  <2>3. Chained(<<SaveInvalidOf(x)>>) /\ Chained(<<SaveTransactionOf(t)>>)
    BY <2>2, ChainedOne DEF Projections, Writes
  <2>. HIDE DEF C, parts, x
  <2>4. FlattenSeq(parts) \in Seq(C)
    BY <1>4, <2>1, SeqMonotonic
  <2>. QED BY <1>4, <2>1, <2>3, <2>4
<1>6. TransactionCalls(t) = r \o rest
  BY DEF TransactionCalls, SaveTransactionOf, SaveInvalidOf
<1>. HIDE DEF r, rest, C
<1>7. Chained(r \o rest)
  BY <1>5, ChainedConcat
<1>. QED BY <1>6, <1>7

(* After the mark of an event, or the save of anything else, something is    *)
(* saved.                                                                    *)
LEMMA BlockChained ==
  ASSUME NEW block, WellFormed(block) PROVE Chained(processBlock(decodeBlock(block)))
<1>. DEFINE ts == decodeBlock(block)
            parts == [m \in DOMAIN ts |-> TransactionCalls(ts[m])]
            f == FlattenSeq(parts)
            r == <<[do |-> "SaveBlock"]>>
            u == <<[do |-> "UpdateCheckpoint"]>>
            n == Len(ts)
<1>1. f \in Seq(AnyCall)
  BY TransactionsCallsAt
<1>2. /\ ts \in Seq(Decoded)
      /\ \A m \in 1..n : /\ ts[m].index \in DOMAIN block.data
                         /\ IsTransaction(block.data[ts[m].index])
                         /\ ts[m] = DecodedAt(block, ts[m].index)
  BY DecodedBlock
<1>. HIDE DEF ts
<1>3. DOMAIN ts = 1..n /\ n \in Nat
  BY <1>2, LenProperties
<1>4. ASSUME NEW m \in 1..n
      PROVE  TransactionCalls(ts[m]) \in Seq(TransactionCall(ts[m])) /\ Chained(TransactionCalls(ts[m]))
               /\ TransactionCall(ts[m]) \subseteq AnyCall
  <2>. DEFINE t == ts[m]
              j == t.index
  <2>1. t \in Decoded /\ j \in DOMAIN block.data /\ IsTransaction(block.data[j]) /\ t = DecodedAt(block, j)
    BY <1>2, ElementOfSeq
  <2>. HIDE DEF t, j
  <2>2. t.events \in Seq(EventOf(t.id)) /\ t.id \in TxIds
    BY <2>1, DecodedTransaction
  <2>3. TransactionCall(t) \subseteq AnyCall
    BY <2>1, <2>2, CallsAreTyped DEF TransactionCall
  <2>4. TransactionCalls(t) \in Seq(TransactionCall(t)) /\ Chained(TransactionCalls(t))
    BY <2>1, <2>2, TransactionCallsAt, TransactionChained
  <2>. QED BY <2>3, <2>4 DEF t
<1>5. Chained(f)
  <2>1. /\ DOMAIN parts = 1..n /\ parts = [m \in 1..n |-> parts[m]]
        /\ \A m \in 1..n : parts[m] = TransactionCalls(ts[m])
    BY <1>3
  <2>. HIDE DEF parts, n
  <2>2. \A m \in 1..n : parts[m] \in Seq(AnyCall) /\ Chained(parts[m])
    BY <1>4, <2>1, SeqMonotonic
  <2>. QED BY <1>3, <2>1, <2>2, ChainedFlatten
<1>6. r \in Seq(AnyCall) /\ u \in Seq(AnyCall) /\ Chained(r) /\ Chained(u)
  <2>. DEFINE a == [do |-> "SaveBlock"]
              b == [do |-> "UpdateCheckpoint"]
  <2>1. a \in AnyCall /\ b \in AnyCall
    BY DEF AnyCall
  <2>2. a.do \notin Projections \cup {"MarkEventProcessed"} /\ b.do \notin Projections \cup {"MarkEventProcessed"}
    BY DEF Projections, Writes
  <2>. HIDE DEF a, b
  <2>3. <<a>> \in Seq(AnyCall) /\ <<b>> \in Seq(AnyCall) /\ Chained(<<a>>) /\ Chained(<<b>>)
    BY <2>1, <2>2, ChainedOne
  <2>4. r = <<a>> /\ u = <<b>>
    BY Zenon DEF a, b
  <2>. HIDE DEF r, u
  <2>. QED BY <2>3, <2>4
<1>7. processBlock(ts) = r \o f \o u
  BY DEF processBlock
<1>. HIDE DEF r, f, u
<1>8. r \o f \in Seq(AnyCall) /\ Chained(r \o f)
  BY <1>1, <1>5, <1>6, ConcatOf, ChainedConcat
<1>9. Chained((r \o f) \o u)
  <2>. DEFINE rf == r \o f
  <2>. HIDE DEF rf
  <2>1. Chained(rf \o u)
    BY <1>6, <1>8, ChainedConcat DEF rf
  <2>. QED BY <2>1 DEF rf
<1>. QED BY <1>7, <1>9 DEF ts

-----------------------------------------------------------------------------
(* What a step of the event processor does to the audit trail: rows stay     *)
(* where they are, and new ones name the transaction that decided.           *)
Appends(d, e) ==
  /\ Len(d.audit) \in Nat /\ Len(e.audit) \in Nat
  /\ \A i \in 1..Len(d.audit) : i \in 1..Len(e.audit) /\ e.audit[i] = d.audit[i]
  /\ \A i \in 1..Len(e.audit) : i \in 1..Len(d.audit) \/ e.audit[i] \in Rows

(* What call c does to the operations. *)
Shows(d, e, c) ==
  \A y \in TxIds :
    \/ e.operations[y] = d.operations[y]
    \/ /\ d.operations[y] = Nil
       /\ e.operations[y] \in Operation /\ e.operations[y].status = "requested"
    \/ /\ d.operations[y] # Nil /\ d.operations[y].status # c.status
       /\ c.do = "SetOperationStatus" /\ c.id = y /\ c.status \in {"committed", "cancelled"}
       /\ e.operations[y] \in Operation /\ e.operations[y].status = c.status

LEMMA AuditLength == ASSUME NEW d \in Database PROVE Len(d.audit) \in Nat /\ DOMAIN d.audit = 1..Len(d.audit)
<1>1. d.audit \in Seq(AuditRow)
  BY DEF Database
<1>. QED BY <1>1, LenProperties

LEMMA SameTables ==
  ASSUME NEW d \in Database, NEW e, e.operations = d.operations, e.audit = d.audit, NEW c
  PROVE  Appends(d, e) /\ Shows(d, e, c)
  BY AuditLength DEF Appends, Shows

(* A status that is set once more leaves the row as it is. *)
LEMMA SameStatus ==
  ASSUME NEW d \in Database, NEW x \in TxIds, d.operations[x] # Nil,
         NEW e, e = SetOperationStatus(d, x, d.operations[x].status)
  PROVE  e.operations[x] = d.operations[x]
<1>. DEFINE row == d.operations[x]
            ops == [d.operations EXCEPT ![x] = [row EXCEPT !.status = row.status]]
<1>1. d.operations \in [TxIds -> Operation \cup {Nil}] /\ row \in Operation
  BY DEF Database
<1>2. [row EXCEPT !.status = row.status] = row
  <2>. HIDE DEF row
  <2>. QED BY <1>1 DEF Operation
<1>3. e = [d EXCEPT !.operations = ops]
  BY DEF SetOperationStatus
<1>4. ops[x] = row
  BY <1>1, <1>2
<1>. HIDE DEF ops
<1>5. e.operations = ops
  BY <1>3 DEF Database
<1>. QED BY <1>4, <1>5

LEMMA WriteTables ==
  ASSUME MappingType, NEW d \in Database, NEW x \in TxIds, NEW c \in Projecting(x),
         c.do \in Writes, NEW e, e = Effect(d, c)
  PROVE  Appends(d, e) /\ Shows(d, e, c)
<1>1. e \in Database /\ OperationsStep(d, e, x, c) /\ AuditStep(d, e, x, c)
  BY EffectTyped
<1>2. Len(d.audit) \in Nat /\ Len(e.audit) \in Nat
  BY <1>1, AuditLength
<1>3. Appends(d, e)
  <2>1. CASE e.audit = d.audit
    BY <1>2, <2>1 DEF Appends
  <2>2. CASE e.audit # d.audit
    <3>1. /\ Len(e.audit) = Len(d.audit) + 1
          /\ \A i \in 1..Len(d.audit) : e.audit[i] = d.audit[i]
          /\ e.audit[Len(d.audit) + 1] \in Rows
      BY <1>1, <2>2 DEF AuditStep
    <3>2. \A i \in 1..Len(e.audit) : i \in 1..Len(d.audit) \/ i = Len(d.audit) + 1
      BY <1>2, <3>1
    <3>3. \A i \in 1..Len(d.audit) : i \in 1..Len(e.audit)
      BY <1>2, <3>1
    <3>. QED BY <1>2, <3>1, <3>2, <3>3 DEF Appends
  <2>. QED BY <2>1, <2>2
<1>4. ASSUME NEW y \in TxIds, d.operations[y] # Nil, c.do = "SetOperationStatus", y = c.id,
             d.operations[y].status = c.status
      PROVE  e.operations[y] = d.operations[y]
  <2>1. e = SetOperationStatus(d, y, d.operations[y].status)
    BY <1>4 DEF Effect
  <2>. QED BY <1>4, <2>1, SameStatus
<1>5. c.do = "SetOperationStatus" => c.status \in {"committed", "cancelled"}
  BY WriteFields
<1>6. Shows(d, e, c)
  BY <1>1, <1>4, <1>5 DEF OperationsStep, Shows
<1>. QED BY <1>3, <1>6

LEMMA MadeTables ==
  ASSUME MappingType, NEW d \in Database, NEW h \in Nat, NEW c \in AnyCall,
         NEW e, Made(d, h, c, e)
  PROVE  Appends(d, e) /\ Shows(d, e, c)
<1>1. CASE c.do \in Writes
  <2>1. e = Effect(d, c)
    BY <1>1 DEF Made, Writes
  <2>2. PICK x \in TxIds : c \in Projecting(x)
    BY <1>1, CallFields DEF Projections
  <2>. QED BY <1>1, <2>1, <2>2, WriteTables
<1>2. CASE c.do \notin Writes
  <2>1. e.operations = d.operations /\ e.audit = d.audit
    BY <1>2 DEF Made, Database, SaveBlock, SaveTransaction, SaveInvalidTransaction, SaveEvent,
                MarkEventProcessed, UpdateCheckpoint
  <2>. QED BY <2>1, SameTables
<1>. QED BY <1>1, <1>2

(* The call p is about to make. *)
HeadIn(p) ==
  /\ phase[p] = "running" /\ todo[p] # <<>> /\ next[p] \in DOMAIN chain
  /\ Head(todo[p]) \in Grounded(chain[next[p]])

LEMMA HeadGrounded ==
  ASSUME Ingest, NEW p \in Processors, phase[p] = "running", todo[p] # <<>>
  PROVE  HeadIn(p)
<1>. DEFINE h == next[p]
            q == CallsOf(h)
            s == todo[p]
<1>1. chain \in Chains /\ Position(p)
  BY DEF Ingest, Shape
<1>2. h \in DOMAIN chain
  BY <1>1 DEF Position
<1>3. PICK k \in Nat : Remains(s, q, k)
  BY <1>1 DEF Position, Underway
<1>4. k + 1 \in 1..Len(q) /\ Head(s) \in AnyCall /\ SameCall(Head(s), q[k + 1])
  BY <1>3, RemainsTail
<1>5. q \in Seq(Grounded(chain[h]))
  BY <1>1, <1>2, ChainFacts, BlockGrounded DEF CallsOf
<1>. HIDE DEF q, s, h
<1>6. q[k + 1] \in Grounded(chain[h])
  BY <1>4, <1>5, ElementOfSeq
<1>7. Head(s) \in Grounded(chain[h])
  BY <1>4, <1>6 DEF SameCall, Grounded
<1>. QED BY <1>2, <1>7 DEF HeadIn, h, s

(* A step of p leaves the tables of the dashboard alone, or makes the call   *)
(* at the head of its queue.                                                 *)
LEMMA MovesTables ==
  ASSUME Ingest, NEW p \in Processors, Moves(p)
  PROVE  /\ Appends(db, db') /\ Shows(db, db', Head(todo[p]))
         /\ db'.operations = db.operations \/ HeadIn(p)
<1>. DEFINE c == Head(todo[p])
<1>1. db \in Database /\ MappingType /\ chain \in Chains
  BY DEF Ingest, Shape
<1>2. CASE db' = db \/ Rehashes(db, db')
  <2>1. db'.operations = db.operations /\ db'.audit = db.audit
    BY <1>2 DEF Rehashes
  <2>. HIDE DEF c
  <2>2. Appends(db, db') /\ Shows(db, db', c)
    BY <1>1, <2>1, SameTables
  <2>. QED BY <2>1, <2>2 DEF c
<1>3. ASSUME phase[p] = "running", todo[p] # <<>>, next[p] \in DOMAIN chain, c \in AnyCall,
             Made(db, next[p], c, db')
      PROVE  Appends(db, db') /\ Shows(db, db', c) /\ HeadIn(p)
  <2>. HIDE DEF c
  <2>1. next[p] \in Nat
    BY DEF Ingest, Shape, Control
  <2>2. Appends(db, db') /\ Shows(db, db', c)
    BY <1>1, <1>3, <2>1, MadeTables
  <2>. QED BY <1>3, <2>2, HeadGrounded
<1>. QED BY <1>2, <1>3, MovesWrite DEF Writing

(* The decisions on the chain do not contradict one another: the chaincode   *)
(* settles a request once.                                                   *)
OneOutcome ==
  \A c \in Chains : \A g, h \in DOMAIN c : \A e \in DecisionsIn(c[g]), f \in DecisionsIn(c[h]) :
    e.request.id = f.request.id => e.request.status = f.request.status

DecidedAs(id, status) ==
  \E h \in DOMAIN chain : \E e \in DecisionsIn(chain[h]) :
    e.request.id = id /\ e.request.status = status

(* A row that a processor changes gets the status of a decision on the chain,*)
(* or is new.                                                                *)
LEMMA ShownByChain ==
  ASSUME Ingest, NEW p \in Processors, Moves(p), NEW id \in TxIds
  PROVE  \/ db'.operations[id] = db.operations[id]
         \/ /\ db.operations[id] = Nil
            /\ db'.operations[id] \in Operation /\ db'.operations[id].status = "requested"
         \/ /\ db.operations[id] # Nil /\ db'.operations[id] \in Operation
            /\ db'.operations[id].status # db.operations[id].status
            /\ DecidedAs(id, db'.operations[id].status)
<1>. DEFINE c == Head(todo[p])
<1>1. Shows(db, db', c) /\ (db'.operations = db.operations \/ HeadIn(p))
  BY MovesTables
<1>2. ASSUME db'.operations[id] # db.operations[id], db.operations[id] # Nil
      PROVE  /\ db'.operations[id] \in Operation
             /\ db'.operations[id].status # db.operations[id].status
             /\ DecidedAs(id, db'.operations[id].status)
  <2>1. /\ db.operations[id].status # c.status
        /\ c.do = "SetOperationStatus" /\ c.id = id
        /\ db'.operations[id] \in Operation /\ db'.operations[id].status = c.status
    BY <1>1, <1>2 DEF Shows
  <2>2. next[p] \in DOMAIN chain /\ c \in Grounded(chain[next[p]])
    BY <1>1, <1>2 DEF HeadIn
  <2>. HIDE DEF c
  <2>3. PICK e \in DecisionsIn(chain[next[p]]) : c = StatusOfEvent(e)
    BY <2>1, <2>2 DEF Grounded
  <2>4. c.id = e.request.id /\ c.status = e.request.status
    BY <2>3 DEF StatusOfEvent, Status
  <2>. QED BY <2>1, <2>2, <2>4 DEF DecidedAs
<1>3. ASSUME db'.operations[id] # db.operations[id], db.operations[id] = Nil
      PROVE  db'.operations[id] \in Operation /\ db'.operations[id].status = "requested"
  BY <1>1, <1>3 DEF Shows
<1>. QED BY <1>2, <1>3

-----------------------------------------------------------------------------
(* How far a processor has got with the event of a transaction.              *)

(* The event of transaction i of block h that the query model reflects, the  *)
(* transaction's id and the calls that project the event.                    *)
EventAt(h, i) == OurEvent(chain[h].data[i])
IdAt(h, i) == chain[h].data[i].tx
CallsAt(h, i) == EventCalls(EventAt(h, i), IdAt(h, i))

LeadAt(h, i, a) ==
  /\ h \in DOMAIN chain /\ EventfulAt(chain[h], i)
  /\ Leads(CallsOf(h), a, EventAt(h, i), IdAt(h, i))

(* p has made the first j of them, the save included, and not the last one.  *)
In(p, h, i, j) ==
  /\ todo[p] # <<>> /\ next[p] = h
  /\ \E a : /\ LeadAt(h, i, a) /\ j \in 1..(Len(CallsAt(h, i)) - 1)
            /\ Remains(todo[p], CallsOf(h), a + j)

LEMMA EventsAt ==
  ASSUME chain \in Chains, NEW h \in DOMAIN chain, NEW i, EventfulAt(chain[h], i)
  PROVE  /\ IdAt(h, i) \in TxIds /\ EventAt(h, i) \in EventOf(IdAt(h, i))
         /\ Emitted(chain[h].data[i], EventAt(h, i))
         /\ CallsAt(h, i) \in Seq(EventCall(IdAt(h, i)))
         /\ Len(CallsAt(h, i)) \in Nat /\ 2 <= Len(CallsAt(h, i))
         /\ CallsAt(h, i)[1] = SaveEventOf(IdAt(h, i))
         /\ CallsAt(h, i)[Len(CallsAt(h, i))] = MarkOf(IdAt(h, i))
         /\ \A k \in 2..(Len(CallsAt(h, i)) - 1) : CallsAt(h, i)[k] \in Projecting(IdAt(h, i))
<1>1. WellFormed(chain[h])
  BY ChainFacts
<1>2. IdAt(h, i) \in TxIds
  BY TransactionIds DEF IdAt, EventfulAt
<1>3. EventAt(h, i) \in EventOf(IdAt(h, i)) /\ Emitted(chain[h].data[i], EventAt(h, i))
  <2>. DEFINE block == chain[h]
  <2>1. WellFormed(block) /\ EventfulAt(block, i)
    BY <1>1
  <2>2. OurEvent(block.data[i]) \in EventOf(block.data[i].tx) /\ Emitted(block.data[i], OurEvent(block.data[i]))
    <3>. HIDE DEF block
    <3>. QED BY <2>1, FirstEvent
  <2>. QED BY <2>2 DEF EventAt, IdAt
<1>. QED BY <1>2, <1>3, EventCallsAt DEF CallsAt

LEMMA LeadExists ==
  ASSUME chain \in Chains, NEW h \in DOMAIN chain, NEW i, EventfulAt(chain[h], i)
  PROVE  \E a : LeadAt(h, i, a)
<1>1. WellFormed(chain[h])
  BY ChainFacts
<1>2. Unrepeated(chain[h])
  <2>. SUFFICES ASSUME NEW k, NEW l, EventfulAt(chain[h], k), EventfulAt(chain[h], l),
                       chain[h].data[k].tx = chain[h].data[l].tx
                PROVE  k = l
    BY Zenon DEF Unrepeated
  <2>. QED BY EventfulOnce
<1>3. \E a \in Nat : Leads(processBlock(decodeBlock(chain[h])), a, OurEvent(chain[h].data[i]),
                           chain[h].data[i].tx)
  <2>. DEFINE block == chain[h]
  <2>1. WellFormed(block) /\ Unrepeated(block) /\ EventfulAt(block, i)
    BY <1>1, <1>2
  <2>. HIDE DEF block
  <2>2. \E a \in Nat : Leads(processBlock(decodeBlock(block)), a, OurEvent(block.data[i]), block.data[i].tx)
    BY <2>1, BlockLeads
  <2>. QED BY <2>2 DEF block
<1>. QED BY <1>3 DEF LeadAt, CallsOf, EventAt, IdAt

LEMMA LeadFacts ==
  ASSUME chain \in Chains, NEW h, NEW i, NEW a, LeadAt(h, i, a)
  PROVE  /\ a \in Nat /\ h \in DOMAIN chain /\ EventfulAt(chain[h], i)
         /\ \A m \in 1..Len(CallsAt(h, i)) :
              a + m \in 1..Len(CallsOf(h)) /\ CallsOf(h)[a + m] = CallsAt(h, i)[m]
         /\ \A k \in 1..Len(CallsOf(h)) :
              CallsOf(h)[k] \in {SaveEventOf(IdAt(h, i)), MarkOf(IdAt(h, i))} => a < k
  BY DEF LeadAt, Leads, Lies, CallsAt

(* The call it is about to make. *)
LEMMA InHead ==
  ASSUME chain \in Chains, NEW p \in Processors, NEW h, NEW i, NEW j, In(p, h, i, j)
  PROVE  /\ h \in DOMAIN chain /\ EventfulAt(chain[h], i) /\ j \in Nat
         /\ j + 1 \in 2..Len(CallsAt(h, i))
         /\ SameCall(Head(todo[p]), CallsAt(h, i)[j + 1])
         /\ Head(todo[p]) \in AnyCall
<1>. DEFINE q == CallsOf(h)
            n == Len(CallsAt(h, i))
            s == todo[p]
<1>1. PICK a : LeadAt(h, i, a) /\ j \in 1..(n - 1) /\ Remains(s, q, a + j) /\ s # <<>>
  BY DEF In
<1>2. a \in Nat /\ h \in DOMAIN chain /\ EventfulAt(chain[h], i)
        /\ \A m \in 1..n : q[a + m] = CallsAt(h, i)[m]
  BY <1>1, LeadFacts
<1>3. n \in Nat
  BY <1>2, EventsAt
<1>. HIDE DEF n, q, s
<1>4. a + j \in Nat /\ j + 1 \in 2..n /\ j + 1 \in 1..n /\ j \in Nat /\ (a + j) + 1 = a + (j + 1)
  BY <1>1, <1>2, <1>3
<1>5. Head(s) \in AnyCall /\ SameCall(Head(s), q[(a + j) + 1])
  BY <1>1, <1>4, RemainsTail
<1>. QED BY <1>2, <1>4, <1>5 DEF n, s

(* Where a processor with calls left to make comes from. *)
LEMMA QueueStep ==
  ASSUME Ingest, NEW p \in Processors, Moves(p), todo'[p] # <<>>, NEW q, q = CallsOf(next'[p])
  PROVE  /\ next[p] = next'[p] /\ next[p] \in DOMAIN chain /\ CallsOf(next[p])' = q
         /\ \E k \in Nat :
              /\ Remains(todo'[p], q, k)
              /\ \/ k = 0
                 \/ Skips(p) /\ k \in 1..Len(q) /\ q[k].do = "MarkEventProcessed"
                 \/ /\ Calls(p) /\ k - 1 \in Nat /\ Underway(db, q, todo[p], next[p], k - 1)
                    /\ todo[p] # <<>>
<1>. DEFINE h == next[p]
            s == todo'[p]
<1>1. chain' = chain /\ chain \in Chains /\ Position(p)
  BY DEF Moves, Ingest, Shape
<1>2. ~Idles(p) /\ ~Subscribes(p)
  BY DEF Idles, Subscribes
<1>3. ~Completes(p)
  <2>1. SUFFICES ASSUME Completes(p) PROVE FALSE
    OBVIOUS
  <2>2. next[p] \in DOMAIN chain /\ \E k \in Nat : Remains(todo[p], CallsOf(next[p]), k)
    BY <1>1, <2>1 DEF Completes, Busy, Position, Underway
  <2>3. Tail(todo[p]) = <<>>
    BY <1>1, <2>1, <2>2, LastCall DEF Completes, Busy
  <2>. QED BY <2>1, <2>3 DEF Completes
<1>4. next'[p] = h /\ h \in DOMAIN chain
  BY <1>1, <1>2, <1>3 DEF Moves, Does, Receives, Calls, Skips, Busy, Position
<1>5. q = CallsOf(h) /\ CallsOf(next[p])' = q
  BY <1>1, <1>4 DEF CallsOf
<1>6. Len(q) \in Nat /\ q \in Seq(AnyCall) /\ Transcribes(q, chain[h])
  BY <1>1, <1>4, <1>5, CallsOfBlock
<1>7. CASE Receives(p)
  <2>1. s = q /\ Len(q) \in Nat
    BY <1>5, <1>6, <1>7 DEF Receives
  <2>2. \A i \in 1..Len(q) : SameCall(q[i], q[0 + i])
    BY <1>6 DEF SameCall
  <2>3. Remains(s, q, 0)
    BY <1>6, <2>1, <2>2 DEF Remains
  <2>. QED BY <1>4, <1>5, <2>3
<1>8. ASSUME Busy(p) PROVE \E k \in Nat : Underway(db, q, todo[p], h, k) /\ Remains(todo[p], q, k)
  BY <1>1, <1>5, <1>8 DEF Position, Underway, Busy
<1>9. CASE Skips(p)
  <2>2. todo[p] # <<>> /\ Head(todo[p]).do = "SaveEvent" /\ s = AfterEvent(todo[p])
    BY <1>9 DEF Skips, Busy
  <2>3. PICK k \in Nat : Remains(todo[p], q, k)
    BY <1>8, <1>9 DEF Skips
  <2>4. PICK l \in 1..Len(q) : Remains(s, q, l) /\ q[l].do = "MarkEventProcessed"
    <3>1. k + 1 \in 1..Len(q) /\ SameCall(Head(todo[p]), q[k + 1])
      BY <2>2, <2>3, RemainsTail
    <3>2. q[k + 1].do = "SaveEvent"
      BY <2>2, <3>1, SameDo
    <3>3. PICK x : ProjectedFrom(q, k + 1, x)
      BY <1>6, <3>1, <3>2 DEF Transcribes
    <3>4. SameCall(todo[p][1], q[k + 1]) /\ todo[p][1].do = "SaveEvent"
      <4>. DEFINE r == todo[p]
      <4>1. r[1] = Head(r)
        <5>. HIDE DEF r
        <5>. QED OBVIOUS
      <4>. QED BY <2>2, <3>1, <4>1
    <3>5. PICK l \in (k + 2)..Len(q) : Remains(AfterEvent(todo[p]), q, l) /\ q[l] = MarkOf(x)
      <4>. DEFINE r == todo[p]
      <4>1. r # <<>> /\ Remains(r, q, k) /\ SameCall(r[1], q[k + 1]) /\ r[1].do = "SaveEvent"
        BY <2>2, <2>3, <3>4
      <4>2. \E l \in (k + 2)..Len(q) : Remains(AfterEvent(r), q, l) /\ q[l] = MarkOf(x)
        <5>. HIDE DEF r
        <5>. QED BY <1>6, <3>3, <4>1, RemainsAfterEvent
      <4>. QED BY <4>2
    <3>6. l \in 1..Len(q)
      BY <1>6, <3>5
    <3>. QED BY <2>2, <3>5, <3>6, OwnAndDo
  <2>5. l \in Nat
    OBVIOUS
  <2>. QED BY <1>4, <1>5, <1>9, <2>4, <2>5
<1>10. CASE Calls(p)
  <2>1. PICK k \in Nat : Underway(db, q, todo[p], h, k) /\ Remains(todo[p], q, k)
    BY <1>8, <1>10 DEF Calls
  <2>2. Remains(s, q, k + 1)
    BY <1>10, <2>1, CallsRemain
  <2>3. (k + 1) - 1 = k /\ k + 1 \in Nat
    OBVIOUS
  <2>4. Underway(db, q, todo[p], h, (k + 1) - 1) /\ (k + 1) - 1 \in Nat
    BY <2>1, <2>3
  <2>. QED BY <1>4, <1>5, <1>10, <2>2, <2>3, <2>4 DEF Calls, Busy
<1>. QED BY <1>2, <1>3, <1>7, <1>9, <1>10 DEF Moves, Does

(* The number of calls made is fixed by those left. *)
LEMMA RemainsOnce ==
  ASSUME NEW s, NEW q, Len(q) \in Nat, NEW k \in Nat, NEW l \in Nat, Remains(s, q, k), Remains(s, q, l)
  PROVE  k = l
<1>1. s \in Seq(AnyCall) /\ Len(q) = k + Len(s) /\ Len(q) = l + Len(s)
  BY DEF Remains
<1>2. Len(s) \in Nat
  BY <1>1, LenProperties
<1>. QED BY <1>1, <1>2

(* It comes to the next call by making the one before, and to the first by   *)
(* saving an event that is not processed.                                    *)
LEMMA InMover ==
  ASSUME Ingest, NEW p \in Processors, Moves(p), NEW h, NEW i, NEW j, In(p, h, i, j)'
  PROVE  /\ Calls(p) /\ next[p] = h /\ todo[p] # <<>> /\ h \in DOMAIN chain /\ EventfulAt(chain[h], i)
         /\ j \in Nat /\ j \in 1..Len(CallsAt(h, i))
         /\ SameCall(Head(todo[p]), CallsAt(h, i)[j]) /\ Head(todo[p]) \in AnyCall
         /\ j # 1 => In(p, h, i, j - 1)
<1>. DEFINE q == CallsOf(h)
            n == Len(CallsAt(h, i))
            s == todo'[p]
<1>1. chain' = chain /\ chain \in Chains
  BY DEF Moves, Ingest, Shape
<1>2. s # <<>> /\ next'[p] = h
  BY DEF In
<1>3. PICK a : LeadAt(h, i, a) /\ j \in 1..(n - 1) /\ Remains(s, q, a + j)
  BY <1>1 DEF In, LeadAt, CallsOf, CallsAt, EventAt, IdAt
<1>4. /\ a \in Nat /\ h \in DOMAIN chain /\ EventfulAt(chain[h], i)
      /\ \A m \in 1..n : a + m \in 1..Len(q) /\ q[a + m] = CallsAt(h, i)[m]
  <2>1. chain \in Chains /\ LeadAt(h, i, a)
    BY <1>1, <1>3
  <2>. QED BY <2>1, LeadFacts
<1>5. /\ n \in Nat /\ 2 <= n
      /\ CallsAt(h, i)[1] = SaveEventOf(IdAt(h, i))
      /\ \A k \in 2..(n - 1) : CallsAt(h, i)[k] \in Projecting(IdAt(h, i))
  BY <1>1, <1>4, EventsAt
<1>6. Len(q) \in Nat
  BY <1>1, <1>4, CallsOfBlock
<1>7. /\ next[p] = h
      /\ \E k \in Nat :
           /\ Remains(s, q, k)
           /\ \/ k = 0
              \/ Skips(p) /\ k \in 1..Len(q) /\ q[k].do = "MarkEventProcessed"
              \/ Calls(p) /\ k - 1 \in Nat /\ Underway(db, q, todo[p], h, k - 1) /\ todo[p] # <<>>
  <2>1. q = CallsOf(next'[p])
    BY <1>2
  <2>. HIDE DEF q
  <2>. QED BY <1>2, <2>1, QueueStep
<1>. HIDE DEF n, q, s
<1>8. a + j \in Nat /\ j \in Nat /\ j \in 1..n /\ (j = 1 \/ j \in 2..(n - 1))
  BY <1>3, <1>4, <1>5
<1>9. PICK k \in Nat :
        /\ Remains(s, q, k)
        /\ \/ k = 0
           \/ Skips(p) /\ k \in 1..Len(q) /\ q[k].do = "MarkEventProcessed"
           \/ Calls(p) /\ k - 1 \in Nat /\ Underway(db, q, todo[p], h, k - 1) /\ todo[p] # <<>>
  BY <1>7
<1>10. k = a + j
  BY <1>3, <1>6, <1>8, <1>9, RemainsOnce
<1>11. q[k] = CallsAt(h, i)[j]
  BY <1>4, <1>8, <1>10
<1>12. CallsAt(h, i)[j].do # "MarkEventProcessed"
  BY <1>5, <1>8, OwnAndDo, ProjectingDo DEF Projections, Writes
<1>13. Calls(p) /\ k - 1 \in Nat /\ Remains(todo[p], q, k - 1) /\ todo[p] # <<>>
  BY <1>3, <1>4, <1>8, <1>9, <1>10, <1>11, <1>12 DEF Underway
<1>14. Head(todo[p]) \in AnyCall /\ SameCall(Head(todo[p]), q[k])
  <2>1. Head(todo[p]) \in AnyCall /\ SameCall(Head(todo[p]), q[(k - 1) + 1])
    BY <1>13, RemainsTail
  <2>. QED BY <2>1
<1>15. ASSUME j # 1 PROVE In(p, h, i, j - 1)
  <2>1. k - 1 = a + (j - 1) /\ j - 1 \in 1..(n - 1)
    <3>1. a \in Nat /\ j \in Nat /\ n \in Nat /\ j \in 1..(n - 1)
      BY <1>3, <1>4, <1>5, <1>8
    <3>. QED BY <1>10, <1>15, <3>1
  <2>2. Remains(todo[p], q, a + (j - 1))
    BY <1>13, <2>1
  <2>. QED BY <1>3, <1>7, <1>13, <2>1, <2>2 DEF In, n, q
<1>. QED BY <1>4, <1>7, <1>8, <1>11, <1>13, <1>14, <1>15 DEF n

LEMMA InStayer ==
  ASSUME Ingest, NEW p \in Processors, NEW r \in Processors, r # p, Moves(p), NEW h, NEW i, NEW j
  PROVE  In(r, h, i, j)' <=> In(r, h, i, j)
<1>1. chain' = chain /\ todo'[r] = todo[r] /\ next'[r] = next[r]
  BY DEF Moves, Ingest, Shape, Control
<1>. QED BY <1>1 DEF In, LeadAt, CallsAt, EventAt, IdAt, CallsOf

LEMMA InSame ==
  ASSUME chain' = chain, todo' = todo, next' = next, NEW r, NEW h, NEW i, NEW j
  PROVE  In(r, h, i, j)' <=> In(r, h, i, j)
  BY DEF In, LeadAt, CallsAt, EventAt, IdAt, CallsOf

(* Every projection and every mark a processor is about to make belongs to   *)
(* the event the query model reflects.                                       *)
Current(p) ==
  todo[p] # <<>> /\ Head(todo[p]).do \in Projections \cup {"MarkEventProcessed"} =>
    \E h, i, j : In(p, h, i, j)

LEMMA CurrentMover ==
  ASSUME Ingest, NEW p \in Processors, Moves(p), Current(p) PROVE Current(p)'
<1>. DEFINE q == CallsOf(next'[p])
            P == Projections \cup {"MarkEventProcessed"}
            R == Projections \cup {"SaveEvent"}
            s == todo[p]
            t == todo'[p]
            c == Head(s)
<1>0. PICK h : h = next[p]
  OBVIOUS
<1>1. chain' = chain /\ chain \in Chains
  BY DEF Moves, Ingest, Shape
<1>2. SUFFICES ASSUME t # <<>>, Head(t).do \in P PROVE (\E g, i, j : In(p, g, i, j))'
  BY DEF Current
<1>. HIDE DEF q
<1>3. /\ next'[p] = h /\ h \in DOMAIN chain /\ q = CallsOf(h)
      /\ \E k \in Nat :
           /\ Remains(t, q, k)
           /\ \/ k = 0
              \/ Skips(p) /\ k \in 1..Len(q) /\ q[k].do = "MarkEventProcessed"
              \/ Calls(p) /\ k - 1 \in Nat /\ Underway(db, q, s, h, k - 1) /\ s # <<>>
  BY <1>0, <1>1, <1>2, QueueStep DEF q
<1>4. PICK k \in Nat :
        /\ Remains(t, q, k)
        /\ \/ k = 0
           \/ Skips(p) /\ k \in 1..Len(q) /\ q[k].do = "MarkEventProcessed"
           \/ Calls(p) /\ k - 1 \in Nat /\ Underway(db, q, s, h, k - 1) /\ s # <<>>
  BY <1>3
<1>5. q \in Seq(AnyCall) /\ Len(q) \in Nat /\ Transcribes(q, chain[h]) /\ Chained(q)
  BY <1>1, <1>3, CallsOfBlock, BlockChained, ChainFacts DEF CallsOf
<1>. HIDE DEF s, t, P, R
<1>6. k + 1 \in 1..Len(q) /\ q[k + 1].do \in P
  BY <1>2, <1>4, RemainsTail, SameDo
<1>7. k # 0 /\ q[k].do \in R
  <2>1. k + 1 > 1 /\ q[(k + 1) - 1].do \in R
    BY <1>5, <1>6 DEF Chained, P, R
  <2>. QED BY <2>1
<1>8. Calls(p) /\ k - 1 \in Nat /\ Underway(db, q, s, h, k - 1) /\ s # <<>> /\ k \in 1..Len(q)
  <2>1. q[k].do # "MarkEventProcessed"
    BY <1>7 DEF R, Projections, Writes
  <2>. QED BY <1>4, <1>5, <1>6, <1>7, <2>1
<1>9. Remains(s, q, k - 1) /\ \A j \in 1..(k - 1) : Executed(db, q[j], h)
  BY <1>8 DEF Underway
<1>10. Head(s) \in AnyCall /\ SameCall(Head(s), q[k])
  <2>1. Head(s) \in AnyCall /\ SameCall(Head(s), q[(k - 1) + 1])
    BY <1>8, <1>9, RemainsTail
  <2>. QED BY <2>1
<1>11. Passes(Head(s))
  BY <1>8 DEF Calls, s
<1>12. ASSUME NEW i, NEW a, LeadAt(h, i, a), a + 1 <= k, k < a + Len(CallsAt(h, i))
       PROVE  (\E g, m, j : In(p, g, m, j))'
  <2>1. a \in Nat /\ Len(CallsAt(h, i)) \in Nat
    BY <1>1, <1>12, LeadFacts, EventsAt
  <2>2. PICK j \in 1..(Len(CallsAt(h, i)) - 1) : a + j = k
    <3>1. k - a \in 1..(Len(CallsAt(h, i)) - 1) /\ a + (k - a) = k
      BY <1>12, <2>1
    <3>. QED BY <3>1
  <2>3. Remains(t, q, a + j)
    BY <1>4, <2>2
  <2>4. In(p, h, i, j)'
    <3>1. CallsOf(h)' = q
      BY <1>1, <1>3 DEF CallsOf
    <3>2. LeadAt(h, i, a)'
      BY <1>1, <1>12 DEF LeadAt, CallsOf, EventAt, IdAt
    <3>3. CallsAt(h, i)' = CallsAt(h, i)
      BY <1>1 DEF CallsAt, EventAt, IdAt
    <3>4. (todo[p] # <<>> /\ next[p] = h)'
      BY <1>2, <1>3 DEF t
    <3>. QED BY <2>2, <2>3, <3>1, <3>2, <3>3, <3>4 DEF In, t
  <2>. QED BY <2>4
<1>13. CASE q[k].do = "SaveEvent"
  <2>1. PICK i : EventfulAt(chain[h], i) /\ q[k] = SaveEventOf(chain[h].data[i].tx)
    BY <1>5, <1>8, <1>13 DEF Transcribes
  <2>. DEFINE x == IdAt(h, i)
              n == Len(CallsAt(h, i))
  <2>2. EventfulAt(chain[h], i) /\ q[k] = SaveEventOf(x)
    BY <2>1 DEF IdAt
  <2>3. PICK a : LeadAt(h, i, a)
    BY <1>1, <1>3, <2>2, LeadExists
  <2>4. /\ a \in Nat
        /\ \A m \in 1..n : a + m \in 1..Len(q) /\ q[a + m] = CallsAt(h, i)[m]
        /\ \A m \in 1..Len(q) : q[m] \in {SaveEventOf(x), MarkOf(x)} => a < m
    BY <1>1, <1>3, <2>3, LeadFacts
  <2>5. /\ n \in Nat /\ 2 <= n /\ CallsAt(h, i)[n] = MarkOf(x)
    BY <1>1, <1>3, <2>2, EventsAt
  <2>6. db.events[x] # "processed"
    <3>1. Head(s) = q[k]
      BY <1>10, <1>13 DEF SameCall
    <3>2. Head(s).do = "SaveEvent" /\ Head(s).tx = x
      BY <2>2, <3>1, OwnAndDo
    <3>. QED BY <1>11, <3>2 DEF Passes
  <2>. HIDE DEF x, n
  <2>7. a < k
    BY <1>8, <2>2, <2>4
  <2>8. q[a + n] = MarkOf(x) /\ a + n \in 1..Len(q)
    <3>1. n \in 1..n
      BY <2>5
    <3>. QED BY <2>4, <2>5, <3>1
  <2>9. ~(a + n <= k - 1)
    <3>1. SUFFICES ASSUME a + n <= k - 1 PROVE FALSE
      OBVIOUS
    <3>2. a + n \in 1..(k - 1)
      BY <2>8, <3>1
    <3>3. Executed(db, q[a + n], h)
      BY <1>9, <3>2
    <3>. QED BY <2>6, <2>8, <3>3, OwnAndDo DEF Executed
  <2>10. a + n # k
    <3>1. SaveEventOf(x) # MarkOf(x)
      BY OwnAndDo
    <3>. QED BY <2>2, <2>8, <3>1
  <2>11. a + 1 <= k /\ k < a + n
    BY <2>4, <2>5, <2>7, <2>9, <2>10
  <2>. QED BY <1>12, <2>3, <2>11 DEF n
<1>14. CASE q[k].do \in Projections
  <2>1. Head(s).do \in Projections
    BY <1>10, <1>14, SameDo
  <2>2. PICK g, i, j : In(p, g, i, j)
    BY <1>8, <2>1 DEF Current, s
  <2>. DEFINE n == Len(CallsAt(h, i))
  <2>3. PICK a : LeadAt(h, i, a) /\ j \in 1..(n - 1) /\ Remains(s, q, a + j)
    BY <1>0, <1>3, <2>2 DEF In, s
  <2>4. /\ a \in Nat
        /\ \A m \in 1..n : a + m \in 1..Len(q) /\ q[a + m] = CallsAt(h, i)[m]
    BY <1>1, <1>3, <2>3, LeadFacts
  <2>5. n \in Nat /\ 2 <= n /\ CallsAt(h, i)[n] = MarkOf(IdAt(h, i))
    <3>1. EventfulAt(chain[h], i)
      BY <2>3 DEF LeadAt
    <3>. QED BY <1>1, <1>3, <3>1, EventsAt
  <2>. HIDE DEF n
  <2>6. a + j \in Nat
    BY <2>3, <2>4, <2>5
  <2>7. k - 1 = a + j
    BY <1>5, <1>8, <1>9, <2>3, <2>6, RemainsOnce
  <2>8. k # a + n
    <3>1. n \in 1..n
      BY <2>5
    <3>2. q[a + n] = MarkOf(IdAt(h, i))
      BY <2>4, <2>5, <3>1
    <3>. QED BY <1>14, <3>2, OwnAndDo DEF Projections, Writes
  <2>9. a + 1 <= k /\ k < a + n
    <3>1. j \in Nat /\ 1 <= j /\ j <= n - 1 /\ a \in Nat /\ n \in Nat
      BY <2>3, <2>4, <2>5
    <3>2. k = a + j + 1
      BY <2>7, <3>1
    <3>. QED BY <2>8, <3>1, <3>2
  <2>. QED BY <1>12, <2>3, <2>9 DEF n
<1>. QED BY <1>7, <1>13, <1>14 DEF R

LEMMA CurrentStayer ==
  ASSUME Ingest, NEW p \in Processors, NEW r \in Processors, r # p, Moves(p), Current(r)
  PROVE  Current(r)'
<1>1. todo'[r] = todo[r]
  BY DEF Moves, Ingest, Shape, Control
<1>2. \A h, i, j : In(r, h, i, j)' <=> In(r, h, i, j)
  BY InStayer
<1>. QED BY <1>1, <1>2 DEF Current

LEMMA CurrentSame ==
  ASSUME chain' = chain, todo' = todo, next' = next, NEW r, Current(r) PROVE Current(r)'
<1>1. \A h, i, j : In(r, h, i, j)' <=> In(r, h, i, j)
  BY InSame
<1>. QED BY <1>1 DEF Current

-----------------------------------------------------------------------------
(* What the calls of an event are.                                           *)

LEMMA EndsWith ==
  ASSUME NEW S, NEW r \in Seq(S), NEW c \in S, NEW q, q = r \o <<c>>
  PROVE  /\ Len(q) \in Nat /\ Len(r) \in Nat /\ Len(q) = Len(r) + 1 /\ q[Len(q)] = c
         /\ \A k \in 1..(Len(q) - 1) : k \in 1..Len(r) /\ q[k] = r[k]
         /\ \A k \in 1..Len(r) : k \in 1..(Len(q) - 1) /\ q[k] = r[k]
<1>. DEFINE s == <<c>>
<1>1. s \in Seq(S) /\ Len(s) = 1 /\ s[1] = c /\ q = r \o s
  OBVIOUS
<1>. HIDE DEF s
<1>2. Lies(r, 0, q) /\ Lies(s, Len(r), q) /\ Len(q) = Len(r) + Len(s) /\ Len(r) \in Nat
  BY <1>1, ConcatLies, ConcatProperties, LenProperties
<1>3. Len(q) = Len(r) + 1 /\ Len(q) \in Nat
  BY <1>1, <1>2
<1>4. q[Len(r) + 1] = c
  <2>1. 1 \in 1..Len(s)
    BY <1>1
  <2>. QED BY <1>1, <1>2, <2>1 DEF Lies
<1>5. ASSUME NEW k \in 1..Len(r) PROVE q[k] = r[k]
  <2>1. q[0 + k] = r[k] /\ 0 + k = k
    BY <1>2 DEF Lies
  <2>. QED BY <2>1
<1>6. \A k \in 1..(Len(q) - 1) : k \in 1..Len(r)
  BY <1>2, <1>3
<1>7. \A k \in 1..Len(r) : k \in 1..(Len(q) - 1)
  BY <1>2, <1>3
<1>. QED BY <1>2, <1>3, <1>4, <1>5, <1>6, <1>7

PriceCall(e) == [do |-> "UpsertTokenPrice", token |-> e.token, price |-> e.price]

(* A decision sets its status and writes its audit row last; *)
DecisionCalls(m, e, x) ==
  /\ m[Len(m)] = Audit(e.request, x)
  /\ \A k \in 1..(Len(m) - 1) :
       m[k].do \notin {"InsertAuditTrail", "UpsertTokenPrice", "InsertOperationFromEvent"}
  /\ \E k \in 1..(Len(m) - 1) : m[k] = StatusOfEvent(e)

(* a request resolves the requester, canonicalizes and inserts.              *)
RequestedCalls(m, r) ==
  /\ 3 <= Len(m) /\ m[1] = Resolve(r.requestedBy) /\ m[2] = Canonicalize("owner", r.owner)
  /\ \A k \in 3..(Len(m) - 1) : m[k] = Canonicalize("counterparty", r.counterparty)
  /\ m[Len(m)] = InsertOperation(r)

LEMMA ApprovedCalls ==
  ASSUME NEW x \in TxIds, NEW e \in Event, e.name = "APPROVED", NEW m, m = materialize(e, x)
  PROVE  Len(m) \in Nat /\ 1 <= Len(m) /\ DecisionCalls(m, e, x)
<1>. DEFINE r == e.request
            st == Status(r, "committed")
            au == Audit(r, x)
            ro == Resolve(r.owner)
            rc == Resolve(r.counterparty)
            d1 == Delta(r.owner, r.token, -r.amount, 0)
            d2 == Delta(r.counterparty, r.token, r.amount, 0)
            d3 == Delta(r.owner, r.token, -r.amount, r.amount)
            d4 == Delta(r.owner, r.token, r.amount, -r.amount)
            ie == [do |-> "InsertEncumbrance", id |-> r.id, owner |-> r.owner,
                   token |-> r.token, amount |-> r.amount]
            re == [do |-> "ReleaseEncumbrance", id |-> r.id]
            V == {st, ro, rc, d1, d2, d3, d4, ie, re}
            S == V \cup {au}
            fc == ForCounterparty(r, rc)
            mv == applyMovement(r)
            a1 == <<ro>> \o fc
            a2 == a1 \o <<st>>
            a3 == a2 \o mv
<1>1. r \in Request("committed") /\ r.status = "committed"
  BY RequestOf
<1>2. r.type \in {"TRANSFER", "ENCUMBRANCE", "UNENCUMBRANCE"}
  BY <1>1, RequestCalls
<1>3. m = a3 \o <<au>>
  BY DEF materialize, applyApproved
<1>4. mv \in {<<d1, d2>>, <<d3, ie>>, <<d4, re>>}
  BY <1>2 DEF applyMovement
<1>5. fc \in {<<>>, <<rc>>}
  BY DEF ForCounterparty
<1>6. \A c \in V : c.do \notin {"InsertAuditTrail", "UpsertTokenPrice", "InsertOperationFromEvent"}
  BY DEF Status, Resolve, Delta
<1>7. st = StatusOfEvent(e)
  BY <1>1 DEF StatusOfEvent
<1>. HIDE DEF st, au, ro, rc, d1, d2, d3, d4, ie, re, fc, mv
<1>9. st \in V /\ V \subseteq S /\ au \in S
  OBVIOUS
<1>8. mv \in Seq(V) /\ fc \in Seq(V) /\ <<ro>> \in Seq(V) /\ <<st>> \in Seq(V) /\ Len(<<st>>) = 1
  <2>1. ro \in V /\ rc \in V /\ d1 \in V /\ d2 \in V /\ d3 \in V /\ d4 \in V /\ ie \in V /\ re \in V
    OBVIOUS
  <2>. HIDE DEF V, S
  <2>2. <<d1, d2>> \in Seq(V) /\ <<d3, ie>> \in Seq(V) /\ <<d4, re>> \in Seq(V)
    BY <2>1
  <2>3. <<>> \in Seq(V) /\ <<rc>> \in Seq(V)
    BY <2>1
  <2>4. <<ro>> \in Seq(V) /\ <<st>> \in Seq(V) /\ Len(<<st>>) = 1
    BY <1>9, <2>1
  <2>5. mv \in Seq(V)
    BY <1>4, <2>2, Zenon
  <2>6. fc \in Seq(V)
    BY <1>5, <2>3, Zenon
  <2>. QED BY <2>4, <2>5, <2>6
<1>. HIDE DEF V, S
<1>10. a1 \in Seq(V)
  BY <1>8, ConcatOf, Zenon
<1>. HIDE DEF a1
<1>11. a2 \in Seq(V)
  BY <1>8, <1>10, ConcatOf, Zenon
<1>12. a2[Len(a2)] = st /\ Len(a2) = Len(a1) + 1 /\ Len(a1) \in Nat
  BY <1>9, <1>10, EndsWith
<1>. HIDE DEF a2
<1>13. a3 \in Seq(V) /\ Len(a3) \in Nat
  <2>1. a3 \in Seq(V)
    BY <1>8, <1>11, ConcatOf, Zenon
  <2>. QED BY <2>1, LenProperties
<1>14. Lies(a2, 0, a3)
  BY <1>8, <1>11, ConcatLies
<1>. HIDE DEF a3
<1>15. \E k \in 1..Len(a3) : a3[k] = st
  <2>1. Len(a2) \in 1..Len(a2)
    BY <1>12
  <2>2. 0 + Len(a2) \in 1..Len(a3) /\ a3[0 + Len(a2)] = st
    BY <1>12, <1>14, <2>1 DEF Lies
  <2>. QED BY <2>2
<1>16. a3 \in Seq(S)
  BY <1>9, <1>13, SeqMonotonic
<1>17. /\ Len(m) \in Nat /\ Len(m) = Len(a3) + 1 /\ m[Len(m)] = au
       /\ \A k \in 1..(Len(m) - 1) : k \in 1..Len(a3) /\ m[k] = a3[k]
       /\ \A k \in 1..Len(a3) : k \in 1..(Len(m) - 1) /\ m[k] = a3[k]
  BY <1>3, <1>9, <1>16, EndsWith
<1>18. ASSUME NEW k \in 1..(Len(m) - 1)
       PROVE  m[k].do \notin {"InsertAuditTrail", "UpsertTokenPrice", "InsertOperationFromEvent"}
  <2>1. m[k] \in V
    BY <1>13, <1>17, ElementOfSeq
  <2>. QED BY <1>6, <2>1
<1>19. \E k \in 1..(Len(m) - 1) : m[k] = st
  BY <1>15, <1>17
<1>20. 1 <= Len(m)
  BY <1>13, <1>17
<1>. QED BY <1>7, <1>17, <1>18, <1>19, <1>20 DEF DecisionCalls, au

LEMMA RequestedAre ==
  ASSUME NEW x, NEW e, e.name = "REQUESTED", NEW m, m = materialize(e, x)
  PROVE  Len(m) \in Nat /\ RequestedCalls(m, e.request)
<1>. DEFINE r == e.request
            re == Resolve(r.requestedBy)
            co == Canonicalize("owner", r.owner)
            cc == Canonicalize("counterparty", r.counterparty)
            io == InsertOperation(r)
            S == {re, co, cc, io}
            two == <<re, co>>
            fc == ForCounterparty(r, cc)
            a == two \o fc
<1>1. m = a \o <<io>>
  BY DEF materialize, applyRequested
<1>2. fc \in {<<>>, <<cc>>}
  BY DEF ForCounterparty
<1>. HIDE DEF re, co, cc, io, fc
<1>3. two \in Seq(S) /\ fc \in Seq(S) /\ Len(two) = 2 /\ two[1] = re /\ two[2] = co /\ io \in S
        /\ Len(fc) \in Nat /\ \A k \in 1..Len(fc) : fc[k] = cc
  <2>1. re \in S /\ co \in S /\ cc \in S /\ io \in S
    OBVIOUS
  <2>. HIDE DEF S
  <2>2. two \in Seq(S) /\ Len(two) = 2 /\ two[1] = re /\ two[2] = co
    BY <2>1
  <2>3. CASE fc = <<>>
    BY <2>1, <2>2, <2>3
  <2>4. CASE fc = <<cc>>
    BY <2>1, <2>2, <2>4
  <2>. QED BY <1>2, <2>3, <2>4
<1>. HIDE DEF S, two
<1>4. a \in Seq(S) /\ Len(a) = 2 + Len(fc) /\ Lies(two, 0, a) /\ Lies(fc, 2, a)
  <2>1. a \in Seq(S)
    BY <1>3, ConcatOf
  <2>2. Len(a) = Len(two) + Len(fc)
    BY <1>3, ConcatProperties
  <2>3. Lies(two, 0, a) /\ Lies(fc, Len(two), a)
    BY <1>3, ConcatLies
  <2>. QED BY <1>3, <2>1, <2>2, <2>3
<1>. HIDE DEF a
<1>5. a[1] = re /\ a[2] = co
  <2>1. 1 \in 1..Len(two) /\ 2 \in 1..Len(two)
    BY <1>3
  <2>2. a[0 + 1] = re /\ a[0 + 2] = co
    BY <1>3, <1>4, <2>1 DEF Lies
  <2>. QED BY <2>2
<1>6. ASSUME NEW k \in 3..Len(a) PROVE a[k] = cc
  <2>1. k - 2 \in 1..Len(fc) /\ 2 + (k - 2) = k
    BY <1>3, <1>4
  <2>2. a[2 + (k - 2)] = fc[k - 2]
    BY <1>4, <2>1 DEF Lies
  <2>. QED BY <1>3, <2>1, <2>2
<1>7. /\ Len(m) \in Nat /\ Len(m) = Len(a) + 1 /\ m[Len(m)] = io
      /\ \A k \in 1..(Len(m) - 1) : k \in 1..Len(a) /\ m[k] = a[k]
  BY <1>1, <1>3, <1>4, EndsWith
<1>8. 3 <= Len(m) /\ m[1] = re /\ m[2] = co
  BY <1>3, <1>4, <1>5, <1>7
<1>9. ASSUME NEW k \in 3..(Len(m) - 1) PROVE m[k] = cc
  <2>1. k \in 1..(Len(m) - 1) /\ k \in 3..Len(a)
    BY <1>3, <1>4, <1>7
  <2>. QED BY <1>6, <1>7, <2>1
<1>. QED BY <1>7, <1>8, <1>9 DEF RequestedCalls, re, co, cc, io

LEMMA MaterializeParts ==
  ASSUME NEW x \in TxIds, NEW e \in EventOf(x), NEW m, m = materialize(e, x)
  PROVE  /\ Len(m) \in Nat /\ m \in Seq(ProjectingOf(e, x))
         /\ Decisive(e) => 1 <= Len(m) /\ DecisionCalls(m, e, x)
         /\ e.name = "REQUESTED" => RequestedCalls(m, e.request)
         /\ e.name = "NAV_UPDATED" => Len(m) = 1 /\ m[1] = PriceCall(e)
         /\ e.name \in {"MINT", "BURN"} =>
              /\ Len(m) = 2 /\ m[1].do = "ResolveFabricIdentity"
              /\ m[2].do = "UpsertBalanceDelta"
<1>1. e \in Event /\ m \in Seq(ProjectingOf(e, x)) /\ Len(m) \in Nat
  <2>1. m \in Seq(ProjectingOf(e, x))
    BY Materialized
  <2>. QED BY <2>1, LenProperties DEF EventOf
<1>2. CASE e.name = "APPROVED"
  BY <1>1, <1>2, ApprovedCalls
<1>3. CASE e.name = "REJECTED"
  <2>. DEFINE st == Status(e.request, "cancelled")
              au == Audit(e.request, x)
  <2>1. m = <<st, au>>
    BY <1>3 DEF materialize, applyRejected
  <2>2. st = StatusOfEvent(e) /\ st.do = "SetOperationStatus"
    BY <1>1, <1>3, RequestOf DEF StatusOfEvent, Status
  <2>. HIDE DEF st, au
  <2>3. Len(m) = 2 /\ m[1] = st /\ m[2] = au
    BY <2>1
  <2>4. 1 \in 1..(Len(m) - 1) /\ \A k \in 1..(Len(m) - 1) : k = 1
    BY <2>3
  <2>5. DecisionCalls(m, e, x)
    BY <2>2, <2>3, <2>4 DEF DecisionCalls, au
  <2>. QED BY <1>1, <1>3, <2>3, <2>5
<1>4. CASE e.name = "REQUESTED"
  BY <1>1, <1>4, RequestedAre DEF Decisive
<1>5. CASE e.name = "NAV_UPDATED"
  <2>. DEFINE pc == PriceCall(e)
  <2>1. m = <<pc>>
    BY <1>5 DEF materialize, applyNAV, PriceCall
  <2>. HIDE DEF pc
  <2>2. Len(m) = 1 /\ m[1] = pc
    BY <2>1
  <2>. QED BY <1>1, <1>5, <2>2 DEF Decisive, pc
<1>6. CASE e.name \in {"MINT", "BURN"}
  <2>1. \E sign \in {1, -1} : m = <<Resolve(e.owner), Delta(e.owner, e.token, sign * e.amount, 0)>>
    BY <1>6 DEF materialize, applyBalanceEvent
  <2>2. PICK sign \in {1, -1} : m = <<Resolve(e.owner), Delta(e.owner, e.token, sign * e.amount, 0)>>
    BY <2>1
  <2>. DEFINE re == Resolve(e.owner)
              de == Delta(e.owner, e.token, sign * e.amount, 0)
  <2>3. m = <<re, de>> /\ re.do = "ResolveFabricIdentity" /\ de.do = "UpsertBalanceDelta"
    BY <2>2 DEF Resolve, Delta
  <2>. HIDE DEF re, de
  <2>4. Len(m) = 2 /\ m[1] = re /\ m[2] = de
    BY <2>3
  <2>. QED BY <1>1, <1>6, <2>3, <2>4 DEF Decisive
<1>. QED BY <1>1, <1>2, <1>3, <1>4, <1>5, <1>6, EventNames

(* The projection of an event lies between its save and its mark. *)
(* The calls m stand between the first and the last of q. *)
Between(q, m) ==
  /\ Len(m) \in Nat /\ Len(q) = Len(m) + 2
  /\ \A k \in 1..Len(m) : k + 1 \in 2..(Len(q) - 1) /\ q[k + 1] = m[k]
  /\ \A k \in 2..(Len(q) - 1) : k - 1 \in 1..Len(m) /\ q[k] = m[k - 1]

LEMMA CallsBetween ==
  ASSUME NEW x \in TxIds, NEW e \in EventOf(x), NEW q, q = EventCalls(e, x),
         NEW m, m = materialize(e, x)
  PROVE  Between(q, m)
<1>. DEFINE C == EventCall(x)
            save == SaveEventOf(x)
            mark == MarkOf(x)
            first == <<save>>
            fm == first \o m
<1>1. m \in Seq(C)
  <2>1. m \in Seq(ProjectingOf(e, x)) /\ ProjectingOf(e, x) \subseteq C
    BY Materialized, ProjectingOfEvent DEF EventCall
  <2>. HIDE DEF C
  <2>. QED BY <2>1, SeqMonotonic
<1>2. q = fm \o <<mark>>
  BY DEF EventCalls, SaveEventOf, MarkOf
<1>3. save \in C /\ mark \in C
  BY DEF EventCall
<1>. HIDE DEF C, save, mark
<1>4. first \in Seq(C) /\ Len(first) = 1
  BY <1>3
<1>. HIDE DEF first
<1>5. fm \in Seq(C) /\ Lies(m, 1, fm) /\ Len(fm) = 1 + Len(m) /\ Len(m) \in Nat
  <2>1. fm \in Seq(C) /\ Len(fm) = Len(first) + Len(m)
    BY <1>1, <1>4, ConcatProperties, ConcatOf
  <2>2. Lies(m, Len(first), fm)
    BY <1>1, <1>4, ConcatLies
  <2>3. Len(m) \in Nat
    BY <1>1, LenProperties
  <2>. QED BY <1>4, <2>1, <2>2, <2>3
<1>. HIDE DEF fm
<1>6. /\ Len(q) = Len(fm) + 1
      /\ \A k \in 1..Len(fm) : k \in 1..(Len(q) - 1) /\ q[k] = fm[k]
  BY <1>2, <1>3, <1>5, EndsWith
<1>7. ASSUME NEW k \in 1..Len(m) PROVE k + 1 \in 2..(Len(q) - 1) /\ q[k + 1] = m[k]
  <2>1. 1 + k \in 1..Len(fm) /\ fm[1 + k] = m[k]
    BY <1>5 DEF Lies
  <2>2. 1 + k = k + 1 /\ k + 1 \in 2..(Len(q) - 1)
    BY <1>5, <1>6
  <2>. QED BY <1>6, <2>1, <2>2
<1>8. ASSUME NEW k \in 2..(Len(q) - 1) PROVE k - 1 \in 1..Len(m) /\ q[k] = m[k - 1]
  <2>1. k - 1 \in 1..Len(m) /\ (k - 1) + 1 = k
    BY <1>5, <1>6
  <2>. QED BY <1>7, <2>1
<1>9. Len(q) = Len(m) + 2
  BY <1>5, <1>6
<1>. QED BY <1>5, <1>7, <1>8, <1>9, Zenon DEF Between

LEMMA CallsOfEvent ==
  ASSUME NEW x \in TxIds, NEW e \in EventOf(x), NEW q, q = EventCalls(e, x),
         NEW m, m = materialize(e, x)
  PROVE  /\ Len(m) \in Nat /\ Len(q) = Len(m) + 2
         /\ \A k \in 1..Len(m) : k + 1 \in 2..(Len(q) - 1) /\ q[k + 1] = m[k]
         /\ \A k \in 2..(Len(q) - 1) : k - 1 \in 1..Len(m) /\ q[k] = m[k - 1]
<1>1. Between(q, m)
  BY CallsBetween
<1>. QED BY <1>1, Zenon DEF Between

-----------------------------------------------------------------------------
(* What the statements of a projection leave for good.                       *)

(* The event of a decision comes after that of its request, and both in      *)
(* blocks above the height the database starts from.                         *)
RequestedFirst ==
  \A c \in Chains : \A h \in DOMAIN c : \A i \in DOMAIN c[h].data :
    InitialHeight < h /\ EventfulAt(c[h], i) /\ Decisive(OurEvent(c[h].data[i])) =>
      \E g \in DOMAIN c : \E j \in DOMAIN c[g].data :
        /\ InitialHeight < g /\ (g < h \/ (g = h /\ j < i)) /\ EventfulAt(c[g], j)
        /\ OurEvent(c[g].data[j]).name = "REQUESTED"
        /\ OurEvent(c[g].data[j]).request.id = OurEvent(c[h].data[i]).request.id

Consistent == OneOutcome /\ RequestedFirst

(* Call c has left its mark on d. *)
Lasting(d, c) ==
  /\ c.do = "InsertOperationFromEvent" => d.operations[c.id] # Nil
  /\ c.do = "SetOperationStatus" /\ Consistent =>
       d.operations[c.id] # Nil /\ d.operations[c.id].status = c.status
  /\ c.do = "InsertAuditTrail" => \E m \in 1..Len(d.audit) : d.audit[m].tx = c.tx

(* From d to e no row goes, and a status changes only from "requested" or to *)
(* what the chain decided.                                                   *)
Kept(d, e) ==
  /\ \A y \in TxIds : d.operations[y] # Nil =>
       /\ e.operations[y] # Nil
       /\ \/ e.operations[y] = d.operations[y] \/ d.operations[y].status = "requested"
          \/ DecidedAs(y, e.operations[y].status)
  /\ \A m \in 1..Len(d.audit) : m \in 1..Len(e.audit) /\ e.audit[m] = d.audit[m]

Sound(c) ==
  /\ \E x \in TxIds : c \in Projecting(x)
  /\ c.do = "SetOperationStatus" => DecidedAs(c.id, c.status)

LEMMA DecidedOnce ==
  ASSUME chain \in Chains, OneOutcome, NEW y, NEW s, NEW t, DecidedAs(y, s), DecidedAs(y, t)
  PROVE  s = t
  BY DEF DecidedAs, OneOutcome

LEMMA SoundFields ==
  ASSUME NEW c, Sound(c)
  PROVE  /\ c.do = "InsertOperationFromEvent" => c.id \in TxIds
         /\ c.do = "SetOperationStatus" => c.id \in TxIds /\ c.status \in {"committed", "cancelled"}
         /\ c.do = "InsertAuditTrail" => c.tx \in TxIds
<1>1. PICK x \in TxIds : c \in Projecting(x)
  BY DEF Sound
<1>2. CASE c.do \in Writes
  BY <1>1, <1>2, WriteFields
<1>. QED BY <1>2 DEF Writes

LEMMA LastingKept ==
  ASSUME chain \in Chains, NEW c, Sound(c), NEW d, NEW e, Kept(d, e), Lasting(d, c)
  PROVE  Lasting(e, c)
<1>1. c.do = "InsertOperationFromEvent" => e.operations[c.id] # Nil
  BY SoundFields DEF Lasting, Kept
<1>2. ASSUME c.do = "SetOperationStatus", Consistent
      PROVE  e.operations[c.id] # Nil /\ e.operations[c.id].status = c.status
  <2>1. c.id \in TxIds /\ c.status # "requested" /\ DecidedAs(c.id, c.status)
    BY <1>2, SoundFields DEF Sound
  <2>2. d.operations[c.id] # Nil /\ d.operations[c.id].status = c.status
    BY <1>2 DEF Lasting
  <2>3. /\ e.operations[c.id] # Nil
        /\ e.operations[c.id] = d.operations[c.id] \/ DecidedAs(c.id, e.operations[c.id].status)
    BY <2>1, <2>2 DEF Kept
  <2>4. DecidedAs(c.id, e.operations[c.id].status) => e.operations[c.id].status = c.status
    BY <1>2, <2>1, DecidedOnce DEF Consistent
  <2>. QED BY <2>2, <2>3, <2>4
<1>3. ASSUME c.do = "InsertAuditTrail" PROVE \E m \in 1..Len(e.audit) : e.audit[m].tx = c.tx
  BY <1>3 DEF Lasting, Kept
<1>. QED BY <1>1, <1>2, <1>3 DEF Lasting

LEMMA KeptSame == ASSUME NEW d, NEW e, e.operations = d.operations, e.audit = d.audit PROVE Kept(d, e)
  BY DEF Kept

LEMMA KeptMoves == ASSUME Ingest, NEW p \in Processors, Moves(p) PROVE Kept(db, db')
<1>1. Appends(db, db')
  BY MovesTables
<1>2. ASSUME NEW y \in TxIds, db.operations[y] # Nil
      PROVE  /\ db'.operations[y] # Nil
             /\ db'.operations[y] = db.operations[y] \/ DecidedAs(y, db'.operations[y].status)
  <2>1. \/ db'.operations[y] = db.operations[y]
        \/ db'.operations[y] \in Operation /\ DecidedAs(y, db'.operations[y].status)
    BY <1>2, ShownByChain
  <2>. QED BY <1>2, <2>1, NilAssumption
<1>. QED BY <1>1, <1>2 DEF Kept, Appends

(* The calls of an event that the query model reflects. *)
LEMMA ProjectionSound ==
  ASSUME chain \in Chains, NEW h \in DOMAIN chain, NEW i, EventfulAt(chain[h], i),
         NEW j \in 2..(Len(CallsAt(h, i)) - 1), NEW c, c = CallsAt(h, i)[j]
  PROVE  /\ c \in Projecting(IdAt(h, i)) /\ Sound(c)
         /\ c.do = "SetOperationStatus" => Decisive(EventAt(h, i)) /\ c = StatusOfEvent(EventAt(h, i))
<1>. DEFINE e == EventAt(h, i)
            x == IdAt(h, i)
            m == materialize(e, x)
<1>1. x \in TxIds /\ e \in EventOf(x) /\ Emitted(chain[h].data[i], e) /\ c \in Projecting(x)
  BY EventsAt
<1>2. CallsAt(h, i) = EventCalls(e, x)
  BY DEF CallsAt
<1>. HIDE DEF e, x
<1>3. c \in ProjectingOf(e, x)
  <2>1. Len(m) \in Nat /\ j - 1 \in 1..Len(m) /\ c = m[j - 1]
    BY <1>1, <1>2, CallsOfEvent
  <2>2. m \in Seq(ProjectingOf(e, x))
    BY <1>1, MaterializeParts
  <2>. HIDE DEF m
  <2>. QED BY <2>1, <2>2, ElementOfSeq
<1>4. c.do = "SetOperationStatus" => Decisive(e) /\ c = StatusOfEvent(e)
  BY <1>3 DEF ProjectingOf, Plain
<1>5. ASSUME c.do = "SetOperationStatus" PROVE DecidedAs(c.id, c.status)
  <2>1. e \in DecisionsIn(chain[h])
    <3>1. e \in Event /\ Decisive(e) /\ i \in DOMAIN chain[h].data
      BY <1>1, <1>4, <1>5 DEF EventOf, EventfulAt, TransactionAt
    <3>. QED BY <1>1, <3>1 DEF DecisionsIn, EventfulAt
  <2>2. c.id = e.request.id /\ c.status = e.request.status
    BY <1>4, <1>5 DEF StatusOfEvent, Status
  <2>. QED BY <2>1, <2>2 DEF DecidedAs
<1>. QED BY <1>1, <1>4, <1>5 DEF Sound, e, x

(* Before the first call of an event, those of every earlier one are made.   *)
LEMMA EarlierDone ==
  ASSUME Ingest, NEW p \in Processors, phase[p] = "running", NEW h, NEW i, NEW j, In(p, h, i, j),
         NEW g \in DOMAIN chain, NEW l, EventfulAt(chain[g], l), InitialHeight < g,
         g < h \/ (g = h /\ l < i)
  PROVE  db.events[IdAt(g, l)] = "processed"
<1>1. chain \in Chains /\ Position(p) /\ Vouched /\ db.checkpoint.height \in Nat
  BY DEF Ingest, Shape, Database
<1>. DEFINE q == CallsOf(h)
            n == Len(CallsAt(h, i))
            x == IdAt(h, i)
            y == IdAt(g, l)
<1>2. PICK a : LeadAt(h, i, a) /\ j \in 1..(n - 1) /\ Remains(todo[p], q, a + j)
  BY DEF In
<1>3. /\ a \in Nat /\ h \in DOMAIN chain /\ EventfulAt(chain[h], i)
      /\ \A m \in 1..n : a + m \in 1..Len(q) /\ q[a + m] = CallsAt(h, i)[m]
  BY <1>1, <1>2, LeadFacts
<1>4. n \in Nat /\ 2 <= n /\ CallsAt(h, i)[1] = SaveEventOf(x) /\ CallsAt(h, i)[n] = MarkOf(x)
        /\ \A m \in 2..(n - 1) : CallsAt(h, i)[m] \in Projecting(x)
  BY <1>1, <1>3, EventsAt
<1>5. Len(q) \in Nat /\ Transcribes(q, chain[h])
  BY <1>1, <1>3, CallsOfBlock
<1>6. next[p] = h /\ todo[p] # <<>> /\ h \in Nat /\ g \in Nat /\ h <= db.checkpoint.height + 1
  BY <1>1, <1>3, ChainFacts DEF In, Position
<1>7. CASE g < h
  <2>1. Ingested(db, g)
    BY <1>1, <1>6, <1>7 DEF Vouched
  <2>. QED BY <1>1, <2>1, IngestedTraces DEF IdAt
<1>8. CASE g = h /\ l < i
  <2>1. PICK k \in Nat : Remains(todo[p], q, k) /\ \A m \in 1..k : Executed(db, q[m], h)
    BY <1>1, <1>6 DEF Position, Underway
  <2>. HIDE DEF q, n, x, y
  <2>2. a + j \in Nat /\ j \in Nat
    BY <1>2, <1>3, <1>4
  <2>3. k = a + j
    BY <1>2, <1>5, <2>1, <2>2, RemainsOnce
  <2>4. a + n \in 1..Len(q) /\ q[a + n] = MarkOf(x)
    <3>1. n \in 1..n
      BY <1>4
    <3>. QED BY <1>3, <1>4, <3>1
  <2>5. PICK m \in 1..Len(q) : m < a + n /\ q[m] = MarkOf(y)
    <3>1. PICK o : /\ EventfulAt(chain[h], o) /\ q[a + n] = MarkOf(chain[h].data[o].tx)
                   /\ \A r : EventfulAt(chain[h], r) /\ r < o =>
                        \E m \in 1..Len(q) : m < a + n /\ q[m] = MarkOf(chain[h].data[r].tx)
      BY <1>5, <2>4, OwnAndDo DEF Transcribes
    <3>2. chain[h].data[o].tx = chain[h].data[i].tx
      <4>1. MarkOf(chain[h].data[o].tx) = MarkOf(x)
        BY <2>4, <3>1
      <4>2. chain[h].data[o].tx = x
        BY <4>1 DEF MarkOf
      <4>. QED BY <4>2 DEF x, IdAt
    <3>3. o = i
      BY <1>1, <1>3, <3>1, <3>2, EventfulOnce
    <3>. QED BY <1>8, <3>1, <3>3 DEF y, IdAt
  <2>6. x # y
    <3>1. l \in Nat
      BY <1>1, TransactionIds DEF EventfulAt
    <3>2. i # l
      BY <1>8, <3>1
    <3>. QED BY <1>1, <1>3, <3>2, EventfulOnce DEF x, y, IdAt
  <2>7. m <= a
    <3>1. SUFFICES ASSUME ~(m <= a) PROVE FALSE
      OBVIOUS
    <3>2. PICK o \in 1..(n - 1) : m = a + o
      <4>1. m - a \in 1..(n - 1) /\ m = a + (m - a)
        BY <1>3, <1>4, <1>5, <2>5, <3>1
      <4>. QED BY <4>1
    <3>3. o \in 1..n /\ (o = 1 \/ o \in 2..(n - 1))
      BY <1>4, <3>2
    <3>4. CallsAt(h, i)[o] = MarkOf(y)
      BY <1>3, <2>5, <3>2, <3>3
    <3>5. CallsAt(h, i)[o].do # "MarkEventProcessed"
      BY <1>4, <3>3, OwnAndDo, ProjectingDo DEF Projections, Writes
    <3>. QED BY <3>4, <3>5, OwnAndDo
  <2>8. m \in 1..k
    BY <1>3, <1>5, <2>2, <2>3, <2>5, <2>7
  <2>9. Executed(db, q[m], h)
    BY <2>1, <2>8
  <2>. QED BY <2>5, <2>9, OwnAndDo DEF Executed, y
<1>. QED BY <1>7, <1>8

(* A processed event is one above the starting height and has had all its    *)
(* statements executed; *)
Landed ==
  \A h \in DOMAIN chain : \A i :
    EventfulAt(chain[h], i) /\ db.events[IdAt(h, i)] = "processed" =>
      /\ InitialHeight < h
      /\ \A m \in 2..(Len(CallsAt(h, i)) - 1) : Lasting(db, CallsAt(h, i)[m])

(* so has the part of an event that a processor has behind it.               *)
Trail(p) ==
  \A h, i, j : In(p, h, i, j) => \A m \in 2..j : Lasting(db, CallsAt(h, i)[m])

Above(p) == phase[p] = "running" => InitialHeight < next[p]

Tracks == Landed /\ \A p \in Processors : Above(p) /\ Trail(p) /\ Current(p)

LEMMA AboveMover ==
  ASSUME Ingest, NEW p \in Processors, Moves(p), Above(p) PROVE Above(p)'
<1>1. next[p] \in Nat /\ db.checkpoint.height \in Nat /\ InitialHeight \in Nat
        /\ InitialHeight <= db.checkpoint.height
  BY InitialHeightAssumption DEF Ingest, Shape, Control, Database
<1>2. CASE Idles(p)
  BY <1>2 DEF Idles, Above
<1>3. CASE Subscribes(p)
  BY <1>1, <1>3 DEF Subscribes, Above
<1>4. CASE Receives(p) \/ Calls(p) \/ Skips(p)
  BY <1>4 DEF Receives, Calls, Skips, Busy, Above
<1>5. CASE Completes(p)
  BY <1>1, <1>5 DEF Completes, Busy, Above
<1>. QED BY <1>2, <1>3, <1>4, <1>5 DEF Moves, Does

LEMMA AboveIn ==
  ASSUME Ingest, NEW p \in Processors, Above(p), NEW h, NEW i, NEW j, In(p, h, i, j)
  PROVE  phase[p] = "running" /\ InitialHeight < h
  BY DEF Ingest, Shape, Control, Above, In

(* The row a decision is going to set is there.                              *)
LEMMA RowIsThere ==
  ASSUME Ingest, Landed, RequestedFirst, NEW p \in Processors, Above(p),
         NEW h, NEW i, NEW j, In(p, h, i, j), Decisive(EventAt(h, i))
  PROVE  db.operations[EventAt(h, i).request.id] # Nil
<1>1. chain \in Chains /\ h \in DOMAIN chain /\ EventfulAt(chain[h], i)
  BY InHead DEF Ingest, Shape
<1>2. phase[p] = "running" /\ InitialHeight < h
  BY AboveIn
<1>3. PICK g, l :
        /\ g \in DOMAIN chain
        /\ InitialHeight < g /\ (g < h \/ (g = h /\ l < i)) /\ EventfulAt(chain[g], l)
        /\ OurEvent(chain[g].data[l]).name = "REQUESTED"
        /\ OurEvent(chain[g].data[l]).request.id = EventAt(h, i).request.id
  <2>1. i \in DOMAIN chain[h].data
    BY <1>1 DEF EventfulAt, TransactionAt
  <2>. QED BY <1>1, <1>2, <2>1 DEF RequestedFirst, EventAt
<1>. DEFINE e == EventAt(g, l)
            x == IdAt(g, l)
            q == CallsAt(g, l)
            mat == materialize(e, x)
            r == e.request
<1>4. db.events[x] = "processed"
  BY <1>2, <1>3, EarlierDone
<1>5. e.name = "REQUESTED" /\ r.id = EventAt(h, i).request.id
  BY <1>3 DEF EventAt
<1>6. x \in TxIds /\ e \in EventOf(x) /\ q = EventCalls(e, x)
  BY <1>1, <1>3, EventsAt DEF CallsAt
<1>7. \A m \in 2..(Len(q) - 1) : Lasting(db, q[m])
  BY <1>3, <1>4 DEF Landed
<1>. HIDE DEF e, x, q
<1>8. /\ Len(mat) \in Nat
      /\ \A k \in 1..Len(mat) : k + 1 \in 2..(Len(q) - 1) /\ q[k + 1] = mat[k]
  BY <1>6, CallsOfEvent
<1>9. 3 <= Len(mat) /\ mat[Len(mat)] = InsertOperation(r)
  BY <1>5, <1>6, MaterializeParts DEF RequestedCalls
<1>. HIDE DEF mat
<1>10. Len(mat) \in 1..Len(mat)
  BY <1>8, <1>9
<1>11. Lasting(db, InsertOperation(r))
  BY <1>7, <1>8, <1>9, <1>10
<1>12. InsertOperation(r).do = "InsertOperationFromEvent" /\ InsertOperation(r).id = r.id
  BY DEF InsertOperation
<1>. QED BY <1>5, <1>11, <1>12 DEF Lasting

LEMMA EffectLasts ==
  ASSUME MappingType, NEW d \in Database, NEW c, Sound(c), c.do \in Writes,
         NEW e, e = Effect(d, c),
         c.do = "SetOperationStatus" /\ Consistent => d.operations[c.id] # Nil
  PROVE  Lasting(e, c)
<1>1. PICK x \in TxIds : c \in Projecting(x)
  BY DEF Sound
<1>2. CASE c.do = "InsertOperationFromEvent"
  <2>1. e = InsertOperationFromEvent(d, c.id, [c.row EXCEPT !.requestedBy = mapping[@]])
    BY <1>2 DEF Effect
  <2>2. c.row \in Row /\ c.id = x
    BY <1>1, <1>2, WriteFields DEF Writes
  <2>. DEFINE row == [c.row EXCEPT !.requestedBy = mapping[@]]
  <2>3. row \in Operation
    BY <2>2 DEF Row, Operation, MappingType
  <2>4. e = InsertOperationFromEvent(d, x, row)
    BY <2>1, <2>2
  <2>. HIDE DEF row
  <2>5. e.operations[x] = IF d.operations[x] = Nil THEN row ELSE d.operations[x]
    BY <2>3, <2>4, InsertOperationTyped
  <2>6. e.operations[c.id] # Nil
    BY <2>2, <2>3, <2>5, NilAssumption
  <2>. QED BY <1>2, <2>6 DEF Lasting
<1>3. CASE c.do = "SetOperationStatus"
  <2>1. e = SetOperationStatus(d, c.id, c.status)
    BY <1>3 DEF Effect
  <2>. DEFINE id == c.id
              status == c.status
  <2>2. id \in TxIds /\ status \in {"requested", "accepted", "committed", "cancelled"}
          /\ e = SetOperationStatus(d, id, status)
    BY <1>3, <2>1, SoundFields
  <2>3. Consistent => d.operations[id] # Nil
    BY <1>3
  <2>. HIDE DEF id, status
  <2>4. StatusSet(d, e, id, status)
    BY <2>2, SetStatusTyped
  <2>5. Consistent => e.operations[id] # Nil /\ e.operations[id].status = status
    BY <2>3, <2>4, NilAssumption DEF StatusSet
  <2>. QED BY <1>3, <2>5 DEF Lasting, id, status
<1>4. CASE c.do = "InsertAuditTrail"
  <2>1. e = InsertAuditTrail(d, c.id, c.status, c.tx)
    BY <1>4 DEF Effect
  <2>. DEFINE id == c.id
              status == c.status
              t == c.tx
              row == [operation |-> id, before |-> "requested", after |-> status, tx |-> t]
  <2>2. id \in TxIds /\ status \in {"accepted", "committed", "cancelled"} /\ t \in TxIds \cup {Nil}
          /\ e = InsertAuditTrail(d, id, status, t)
    BY <1>1, <1>4, <2>1, WriteFields DEF Writes
  <2>3. row.tx = t
    OBVIOUS
  <2>. HIDE DEF id, status, t
  <2>4. Len(d.audit) \in Nat /\ Len(e.audit) = Len(d.audit) + 1 /\ e.audit[Len(d.audit) + 1] = row
    BY <2>2, AuditTyped
  <2>5. \E m \in 1..Len(e.audit) : e.audit[m].tx = t
    BY <2>3, <2>4
  <2>. QED BY <1>4, <2>5 DEF Lasting, t
<1>. QED BY <1>2, <1>3, <1>4 DEF Lasting

(* A call that is made leaves its mark. *)
LEMMA MadeLasts ==
  ASSUME Ingest, Landed, NEW p \in Processors, Above(p), Calls(p),
         NEW h, NEW i, NEW j, In(p, h, i, j), NEW c, c = CallsAt(h, i)[j + 1],
         j + 1 \in 2..(Len(CallsAt(h, i)) - 1)
  PROVE  Lasting(db', c)
<1>. DEFINE b == Head(todo[p])
<1>1. chain \in Chains /\ h \in DOMAIN chain /\ EventfulAt(chain[h], i) /\ SameCall(b, c)
  BY InHead DEF Ingest, Shape
<1>2. c \in Projecting(IdAt(h, i)) /\ Sound(c)
        /\ (c.do = "SetOperationStatus" => Decisive(EventAt(h, i)) /\ c = StatusOfEvent(EventAt(h, i)))
  BY <1>1, ProjectionSound
<1>3. Made(db, next[p], b, db') /\ db \in Database /\ MappingType
  BY DEF Calls, Ingest, Shape
<1>4. b.do = c.do
  BY <1>1, SameDo
<1>. HIDE DEF b
<1>5. CASE c.do \in Writes
  <2>1. db' = Effect(db, b)
    BY <1>3, <1>4, <1>5 DEF Made, Writes
  <2>2. b = c \/ (c.do = "InsertOperationFromEvent" /\ \E x \in TxIds : b \in Projecting(x) /\ c \in Projecting(x))
    BY <1>1 DEF SameCall
  <2>3. Sound(b)
    BY <1>2, <1>4, <2>2 DEF Sound
  <2>4. b.do = "SetOperationStatus" /\ Consistent => db.operations[b.id] # Nil
    <3>1. SUFFICES ASSUME b.do = "SetOperationStatus", Consistent PROVE db.operations[b.id] # Nil
      OBVIOUS
    <3>2. Decisive(EventAt(h, i)) /\ b = StatusOfEvent(EventAt(h, i))
      BY <1>2, <1>4, <2>2, <3>1
    <3>3. b.id = EventAt(h, i).request.id
      BY <3>2 DEF StatusOfEvent, Status
    <3>4. db.operations[EventAt(h, i).request.id] # Nil
      BY <3>1, <3>2, RowIsThere DEF Consistent
    <3>. QED BY <3>3, <3>4
  <2>. DEFINE e == db'
  <2>5. Lasting(e, b)
    <3>1. e = Effect(db, b) /\ b.do \in Writes
      BY <1>4, <1>5, <2>1
    <3>. HIDE DEF e
    <3>. QED BY <1>3, <2>3, <2>4, <3>1, EffectLasts
  <2>6. b.do = "InsertOperationFromEvent" => b.id = c.id
    <3>1. ASSUME c.do = "InsertOperationFromEvent", NEW x \in TxIds, b \in Projecting(x), c \in Projecting(x)
          PROVE  b.id = c.id
      BY <1>4, <3>1, WriteFields DEF Writes
    <3>. QED BY <1>4, <2>2, <3>1
  <2>. HIDE DEF e
  <2>7. Lasting(e, c)
    BY <1>4, <2>2, <2>5, <2>6 DEF Lasting
  <2>. QED BY <2>7 DEF e
<1>6. CASE c.do \notin Writes
  BY <1>6 DEF Lasting, Writes
<1>. QED BY <1>5, <1>6

LEMMA SameAt ==
  ASSUME chain' = chain, NEW h, NEW i
  PROVE  CallsAt(h, i)' = CallsAt(h, i) /\ IdAt(h, i)' = IdAt(h, i) /\ EventAt(h, i)' = EventAt(h, i)
  BY DEF CallsAt, EventAt, IdAt

LEMMA LastingPrime ==
  ASSUME chain' = chain, NEW h, NEW i, NEW m
  PROVE  Lasting(db, CallsAt(h, i)[m])' <=> Lasting(db', CallsAt(h, i)[m])
<1>. DEFINE c == CallsAt(h, i)[m]
<1>1. c' = c
  BY SameAt
<1>2. PICK b : b = c
  OBVIOUS
<1>3. Lasting(db, b)' <=> Lasting(db', b)
  BY DEF Lasting
<1>. QED BY <1>1, <1>2, <1>3

LEMMA LandedSuffices ==
  ASSUME chain' = chain,
         \A h \in DOMAIN chain : \A i :
           EventfulAt(chain[h], i) /\ db'.events[IdAt(h, i)] = "processed" =>
             /\ InitialHeight < h
             /\ \A m \in 2..(Len(CallsAt(h, i)) - 1) : Lasting(db', CallsAt(h, i)[m])
  PROVE  Landed'
<1>1. \A h, i, m : Lasting(db, CallsAt(h, i)[m])' <=> Lasting(db', CallsAt(h, i)[m])
  BY LastingPrime
<1>2. \A h, i : CallsAt(h, i)' = CallsAt(h, i) /\ IdAt(h, i)' = IdAt(h, i)
  BY SameAt
<1>. QED BY <1>1, <1>2, Zenon DEF Landed

LEMMA TrailMover ==
  ASSUME Ingest, Landed, NEW p \in Processors, Above(p), Trail(p), Moves(p) PROVE Trail(p)'
<1>1. chain \in Chains /\ chain' = chain /\ Kept(db, db')
  BY KeptMoves DEF Ingest, Shape, Moves
<1>2. SUFFICES ASSUME NEW h, NEW i, NEW j, In(p, h, i, j)', NEW m \in 2..j
               PROVE  Lasting(db', CallsAt(h, i)[m])
  BY <1>1, LastingPrime, Zenon DEF Trail
<1>3. /\ Calls(p) /\ h \in DOMAIN chain /\ EventfulAt(chain[h], i)
      /\ j \in Nat /\ j \in 1..Len(CallsAt(h, i))
      /\ j # 1 => In(p, h, i, j - 1)
  BY <1>2, InMover
<1>4. Len(CallsAt(h, i)) \in Nat
  BY <1>1, <1>3, EventsAt
<1>5. j # 1 /\ m \in Nat /\ 2 <= m /\ m <= j
  BY <1>3
<1>6. In(p, h, i, j - 1)
  BY <1>3, <1>5
<1>7. j \in 2..(Len(CallsAt(h, i)) - 1)
  <2>1. In(p, h, i, j)' => j \in 1..(Len(CallsAt(h, i)) - 1)
    BY <1>1 DEF In, CallsAt, EventAt, IdAt
  <2>. QED BY <1>2, <1>5, <2>1
<1>8. CASE m # j
  <2>1. m \in 2..(j - 1)
    BY <1>3, <1>5, <1>8
  <2>2. Lasting(db, CallsAt(h, i)[m])
    BY <1>6, <2>1 DEF Trail
  <2>3. m \in 2..(Len(CallsAt(h, i)) - 1)
    BY <1>3, <1>4, <1>5, <1>7
  <2>4. Sound(CallsAt(h, i)[m])
    BY <1>1, <1>3, <2>3, ProjectionSound
  <2>. QED BY <1>1, <2>2, <2>4, LastingKept
<1>9. CASE m = j
  <2>1. (j - 1) + 1 = j
    BY <1>3
  <2>2. (j - 1) + 1 \in 2..(Len(CallsAt(h, i)) - 1)
    BY <1>7, <2>1
  <2>. DEFINE c == CallsAt(h, i)[(j - 1) + 1]
  <2>3. Lasting(db', c)
    <3>1. c = CallsAt(h, i)[(j - 1) + 1]
      OBVIOUS
    <3>. HIDE DEF c
    <3>. QED BY <1>3, <1>6, <2>2, <3>1, MadeLasts
  <2>. QED BY <1>9, <2>1, <2>3
<1>. QED BY <1>8, <1>9

LEMMA TrailKept ==
  ASSUME chain \in Chains, chain' = chain, Kept(db, db'), NEW r \in Processors, Trail(r),
         \A h, i, j : In(r, h, i, j)' <=> In(r, h, i, j)
  PROVE  Trail(r)'
<1>1. SUFFICES ASSUME NEW h, NEW i, NEW j, In(r, h, i, j)', NEW m \in 2..j
               PROVE  Lasting(db', CallsAt(h, i)[m])
  BY LastingPrime, Zenon DEF Trail
<1>2. In(r, h, i, j)
  BY <1>1
<1>3. /\ h \in DOMAIN chain /\ EventfulAt(chain[h], i) /\ j \in Nat
      /\ j + 1 \in 2..Len(CallsAt(h, i))
  BY <1>2, InHead
<1>4. Len(CallsAt(h, i)) \in Nat
  BY <1>3, EventsAt
<1>5. m \in 2..(Len(CallsAt(h, i)) - 1)
  BY <1>1, <1>3, <1>4
<1>6. Lasting(db, CallsAt(h, i)[m]) /\ Sound(CallsAt(h, i)[m])
  BY <1>1, <1>2, <1>3, <1>5, ProjectionSound DEF Trail
<1>. QED BY <1>6, LastingKept

(* Only at its mark is an event processed, and by then it has landed. *)
LEMMA MarkedHere ==
  ASSUME Ingest, NEW p \in Processors, Current(p), Moves(p),
         NEW h \in DOMAIN chain, NEW i, EventfulAt(chain[h], i),
         db.events[IdAt(h, i)] # "processed", db'.events[IdAt(h, i)] = "processed"
  PROVE  /\ phase[p] = "running" /\ Calls(p) /\ Head(todo[p]) = MarkOf(IdAt(h, i))
         /\ In(p, h, i, Len(CallsAt(h, i)) - 1)
<1>1. chain \in Chains /\ db \in Database /\ MappingType /\ next[p] \in Nat
  BY DEF Ingest, Shape, Control
<1>. DEFINE x == IdAt(h, i)
            b == Head(todo[p])
<1>2. x \in TxIds
  BY <1>1, EventsAt
<1>3. db'.events # db.events
  OBVIOUS
<1>4. /\ phase[p] = "running" /\ todo[p] # <<>> /\ b \in AnyCall /\ Made(db, next[p], b, db')
  BY <1>3, MovesWrite DEF Writing, Rehashes
<1>5. b = MarkOf(x)
  <2>. HIDE DEF b, x
  <2>1. Explains(db, next[p], b, db')
    BY <1>1, <1>4, MadeTyped
  <2>. QED BY <1>2, <2>1 DEF Explains, x
<1>6. PICK g, l, j : In(p, g, l, j)
  <2>1. b.do = "MarkEventProcessed"
    BY <1>5, OwnAndDo
  <2>. QED BY <1>4, <2>1 DEF Current
<1>. DEFINE n == Len(CallsAt(g, l))
            c == CallsAt(g, l)[j + 1]
<1>7. /\ g \in DOMAIN chain /\ EventfulAt(chain[g], l) /\ j \in Nat /\ j + 1 \in 2..n
      /\ SameCall(b, c)
  BY <1>1, <1>6, InHead
<1>8. n \in Nat /\ 2 <= n /\ CallsAt(g, l)[n] = MarkOf(IdAt(g, l))
        /\ \A k \in 2..(n - 1) : CallsAt(g, l)[k] \in Projecting(IdAt(g, l))
  BY <1>1, <1>7, EventsAt
<1>9. c = MarkOf(x)
  <2>. HIDE DEF c, b
  <2>. QED BY <1>5, <1>7, OwnAndDo DEF SameCall
<1>10. j + 1 = n
  <2>1. SUFFICES ASSUME j + 1 # n PROVE FALSE
    OBVIOUS
  <2>2. j + 1 \in 2..(n - 1)
    <3>. HIDE DEF n
    <3>. QED BY <1>7, <1>8, <2>1
  <2>3. c \in Projecting(IdAt(g, l))
    BY <1>8, <2>2
  <2>. HIDE DEF c
  <2>. QED BY <1>9, <2>3, OwnAndDo, ProjectingDo DEF Projections, Writes
<1>11. IdAt(g, l) = x
  <2>1. MarkOf(IdAt(g, l)) = MarkOf(x)
    BY <1>8, <1>9, <1>10
  <2>. HIDE DEF x
  <2>. QED BY <2>1 DEF MarkOf
<1>12. g = h /\ l = i
  BY <1>1, <1>7, <1>11, EventfulOnce DEF IdAt
<1>13. j = n - 1
  <2>. HIDE DEF n
  <2>. QED BY <1>7, <1>8, <1>10
<1>14. Calls(p)
  <2>1. \/ db' = db \/ phase[p] = "reconciling" \/ Calls(p) \/ b.do \in {"UpdateCheckpoint", "SaveEvent"}
    BY DEF Moves, Does, Idles, Subscribes, Receives, Skips, Completes
  <2>2. db' # db /\ phase[p] # "reconciling" /\ b.do = "MarkEventProcessed"
    BY <1>3, <1>4, <1>5, OwnAndDo
  <2>. QED BY <2>1, <2>2
<1>. QED BY <1>4, <1>5, <1>6, <1>12, <1>13, <1>14

LEMMA LandedMoves ==
  ASSUME Ingest, Tracks, NEW p \in Processors, Moves(p) PROVE Landed'
<1>1. chain \in Chains /\ chain' = chain /\ Kept(db, db')
  BY KeptMoves DEF Ingest, Shape, Moves
<1>2. SUFFICES ASSUME NEW h \in DOMAIN chain, NEW i, EventfulAt(chain[h], i),
                      db'.events[IdAt(h, i)] = "processed"
               PROVE  /\ InitialHeight < h
                      /\ \A m \in 2..(Len(CallsAt(h, i)) - 1) : Lasting(db', CallsAt(h, i)[m])
  BY <1>1, LandedSuffices, Zenon
<1>3. /\ InitialHeight < h
      /\ \A m \in 2..(Len(CallsAt(h, i)) - 1) : Lasting(db, CallsAt(h, i)[m])
  <2>1. CASE db.events[IdAt(h, i)] = "processed"
    BY <1>2, <2>1 DEF Tracks, Landed
  <2>2. CASE db.events[IdAt(h, i)] # "processed"
    <3>1. In(p, h, i, Len(CallsAt(h, i)) - 1)
      BY <1>2, <2>2, MarkedHere DEF Tracks
    <3>2. InitialHeight < h
      BY <3>1, AboveIn DEF Tracks
    <3>. QED BY <3>1, <3>2 DEF Tracks, Trail
  <2>. QED BY <2>1, <2>2
<1>4. ASSUME NEW m \in 2..(Len(CallsAt(h, i)) - 1) PROVE Lasting(db', CallsAt(h, i)[m])
  <2>1. Sound(CallsAt(h, i)[m]) /\ Lasting(db, CallsAt(h, i)[m])
    BY <1>1, <1>2, <1>3, ProjectionSound
  <2>. QED BY <1>1, <2>1, LastingKept
<1>. QED BY <1>3, <1>4

LEMMA LandedKept ==
  ASSUME chain \in Chains, chain' = chain, Kept(db, db'), db'.events = db.events, Landed
  PROVE  Landed'
<1>1. SUFFICES ASSUME NEW h \in DOMAIN chain, NEW i, EventfulAt(chain[h], i),
                      db'.events[IdAt(h, i)] = "processed"
               PROVE  /\ InitialHeight < h
                      /\ \A m \in 2..(Len(CallsAt(h, i)) - 1) : Lasting(db', CallsAt(h, i)[m])
  BY LandedSuffices, Zenon
<1>2. /\ InitialHeight < h
      /\ \A m \in 2..(Len(CallsAt(h, i)) - 1) : Lasting(db, CallsAt(h, i)[m])
  BY <1>1 DEF Landed
<1>3. ASSUME NEW m \in 2..(Len(CallsAt(h, i)) - 1) PROVE Lasting(db', CallsAt(h, i)[m])
  BY <1>1, <1>2, <1>3, ProjectionSound, LastingKept
<1>. QED BY <1>2, <1>3

(* The step of a processor, and any other that keeps the rows. *)
LEMMA TracksMoves == ASSUME Ingest, Tracks, NEW p \in Processors, Moves(p) PROVE Tracks'
<1>1. chain \in Chains /\ chain' = chain /\ Kept(db, db')
  BY KeptMoves DEF Ingest, Shape, Moves
<1>2. Landed'
  BY LandedMoves
<1>3. Above(p)' /\ Trail(p)' /\ Current(p)'
  BY AboveMover, TrailMover, CurrentMover DEF Tracks
<1>4. ASSUME NEW r \in Processors, r # p PROVE Above(r)' /\ Trail(r)' /\ Current(r)'
  <2>1. phase'[r] = phase[r] /\ next'[r] = next[r]
    BY <1>4 DEF Moves, Ingest, Shape, Control
  <2>2. Above(r)'
    BY <2>1 DEF Tracks, Above
  <2>3. \A h, i, j : In(r, h, i, j)' <=> In(r, h, i, j)
    BY <1>4, InStayer
  <2>4. Trail(r)'
    BY <1>1, <2>3, TrailKept DEF Tracks
  <2>. QED BY <1>4, <2>2, <2>4, CurrentStayer DEF Tracks
<1>. QED BY <1>2, <1>3, <1>4 DEF Tracks

LEMMA TracksKept ==
  ASSUME Ingest, Tracks, chain' = chain, phase' = phase, next' = next, todo' = todo,
         db'.events = db.events, Kept(db, db')
  PROVE  Tracks'
<1>1. chain \in Chains
  BY DEF Ingest, Shape
<1>2. Landed'
  BY <1>1, LandedKept DEF Tracks
<1>3. ASSUME NEW r \in Processors PROVE Above(r)' /\ Trail(r)' /\ Current(r)'
  <2>1. \A h, i, j : In(r, h, i, j)' <=> In(r, h, i, j)
    BY InSame
  <2>2. Trail(r)'
    BY <1>1, <2>1, TrailKept DEF Tracks
  <2>. QED BY <2>2, CurrentSame DEF Tracks, Above
<1>. QED BY <1>2, <1>3 DEF Tracks

LEMMA TracksInit == Init => Tracks
<1>. SUFFICES ASSUME Init PROVE Tracks
  OBVIOUS
<1>1. chain \in Chains /\ db = EmptyDatabase(InitialHeight)
        /\ phase = [p \in Processors |-> "starting"] /\ todo = [p \in Processors |-> <<>>]
  BY DEF Init, Start
<1>2. \A x \in TxIds : db.events[x] = "absent"
  BY <1>1 DEF EmptyDatabase
<1>3. \A h \in DOMAIN chain : \A i : EventfulAt(chain[h], i) => IdAt(h, i) \in TxIds
  BY <1>1, EventsAt
<1>4. Landed
  BY <1>2, <1>3 DEF Landed
<1>. QED BY <1>1, <1>4 DEF Tracks, Above, Trail, Current, In

LEMMA TracksNext == Ingest /\ Tracks /\ [Next]_vars => Tracks'
<1>. SUFFICES ASSUME Ingest, Tracks, [Next]_vars PROVE Tracks'
  OBVIOUS
<1>1. CASE MapIdentity \/ UNCHANGED vars
  <2>1. chain' = chain /\ phase' = phase /\ next' = next /\ todo' = todo /\ db' = db
    BY <1>1 DEF MapIdentity, vars
  <2>2. Kept(db, db')
    BY <2>1, KeptSame
  <2>. QED BY <2>1, <2>2, TracksKept
<1>. QED BY <1>1, TracksMoves, NextMoves

(* A decision that is processed shows. *)
LEMMA LandedShows ==
  ASSUME chain \in Chains, Landed, Consistent, NEW h \in DOMAIN chain, NEW i,
         EventfulAt(chain[h], i), db.events[IdAt(h, i)] = "processed", Decisive(EventAt(h, i)),
         NEW r, r = EventAt(h, i).request
  PROVE  db.operations[r.id] # Nil /\ db.operations[r.id].status = r.status
<1>. DEFINE e == EventAt(h, i)
            x == IdAt(h, i)
            q == CallsAt(h, i)
            mat == materialize(e, x)
<1>1. x \in TxIds /\ e \in EventOf(x) /\ q = EventCalls(e, x)
  BY EventsAt DEF CallsAt
<1>2. \A m \in 2..(Len(q) - 1) : Lasting(db, q[m])
  BY DEF Landed
<1>3. Decisive(e) /\ r = e.request
  OBVIOUS
<1>. HIDE DEF e, x, q
<1>4. /\ Len(mat) \in Nat
      /\ \A k \in 1..Len(mat) : k + 1 \in 2..(Len(q) - 1) /\ q[k + 1] = mat[k]
  BY <1>1, CallsOfEvent
<1>5. PICK k \in 1..(Len(mat) - 1) : mat[k] = StatusOfEvent(e)
  BY <1>1, <1>3, MaterializeParts DEF DecisionCalls
<1>. HIDE DEF mat
<1>6. k \in 1..Len(mat)
  BY <1>4, <1>5
<1>7. Lasting(db, StatusOfEvent(e))
  BY <1>2, <1>4, <1>5, <1>6
<1>. DEFINE c == StatusOfEvent(e)
<1>8. c.do = "SetOperationStatus" /\ c.id = r.id /\ c.status = r.status
  BY <1>3 DEF StatusOfEvent, Status
<1>. HIDE DEF c
<1>. QED BY <1>7, <1>8 DEF Lasting, c
=============================================================================
