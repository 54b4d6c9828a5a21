------------------------- MODULE TokenizationProofs -------------------------
(***************************************************************************)
(* Safety of Tokenization for every set of identities, tokens, amounts and *)
(* transactions.  The invariant that carries everything is Endorsed: an    *)
(* envelope whose read versions are still current is exactly what          *)
(* simulating its call on the current world state would give.  The second  *)
(* half shows that the ledger and the chain agree: every request, balance  *)
(* and version on the ledger is accounted for by the valid transactions    *)
(* that made it so.                                                        *)
(***************************************************************************)
EXTENDS Tokenization, TotalsProofs

-----------------------------------------------------------------------------
(* One simulation of the chaincode, whatever the peers do with it: what it  *)
(* writes is well typed, and depends only on the keys it reads.            *)

(* A request on the ledger is one that a Request function wrote: it carries *)
(* its own key, a positive amount, and a counterparty if it is a transfer.  *)
RequestsSound(s) ==
  \A r \in TxIds : s[RequestKey(r)] # Nil =>
    /\ s[RequestKey(r)].id = r
    /\ s[RequestKey(r)].amount > 0
    /\ s[RequestKey(r)].type = "TRANSFER" => s[RequestKey(r)].counterparty \in Owners

(* Keys of different kinds, owners, tokens or requests are different keys:  *)
(* what CreateCompositeKey is for.                                          *)
LEMMA KeyFacts ==
  /\ \A o, p, t, u : BalanceKey(o, t) = BalanceKey(p, u) <=> o = p /\ t = u
  /\ \A q, r : RequestKey(q) = RequestKey(r) <=> q = r
  /\ \A o, t, r : BalanceKey(o, t) # RequestKey(r)
  /\ \A o, t, u : BalanceKey(o, t) # NavKey(u)
  /\ \A r, t : RequestKey(r) # NavKey(t)
  BY DEF BalanceKey, RequestKey, NavKey

-----------------------------------------------------------------------------
(* Types. *)

(* The fields an invocation has, by the function it invokes. *)
LEMMA CallFacts ==
  ASSUME NEW c \in Call
  PROVE  /\ c.fn \in {"Mint", "Burn", "SetNAV", "RequestTransfer", "RequestEncumbrance",
                       "RequestUnencumbrance", "ApproveRequest", "RejectRequest"}
         /\ c.fn \in {"Mint", "Burn"} =>
              c.owner \in Owners /\ c.token \in Tokens /\ c.amount \in Int
         /\ c.fn = "SetNAV" => c.token \in Tokens /\ c.price \in Int
         /\ c.fn \in DOMAIN RequestTypeOf =>
              /\ c.caller \in Identities /\ c.owner \in Owners /\ c.token \in Tokens
              /\ c.amount \in Int /\ c.to \in Owners \cup {Nil}
              /\ c.fn = "RequestTransfer" => c.to \in Owners
         /\ c.fn \in {"ApproveRequest", "RejectRequest"} => c.request \in TxIds
<1> USE AmountsAssumption
<1>1. CASE c \in SupplyCall
  BY <1>1 DEF SupplyCall, RequestTypeOf
<1>2. CASE c \in NavCall
  BY <1>2 DEF NavCall, RequestTypeOf
<1>3. CASE c \in RequestCall
  BY <1>3 DEF RequestCall, TransferCall, PledgeCall, RequestTypeOf
<1>4. CASE c \in DecisionCall
  BY <1>4 DEF DecisionCall, RequestTypeOf
<1> QED
  BY <1>1, <1>2, <1>3, <1>4 DEF Call

(* readBalanceState always returns a balance, the zero one for an absent key. *)
LEMMA BalanceRead ==
  ASSUME NEW s, Typed(s), NEW o \in Owners, NEW t \in Tokens
  PROVE  ReadBalance(s, o, t) \in Balance
  BY DEF Typed, ReadBalance, Balance, BalanceKeys

LEMMA MovedType ==
  ASSUME NEW b \in Balance, NEW x \in Int, NEW y \in Int
  PROVE  /\ Moved(b, x, y) \in Balance
         /\ Moved(b, x, y).available = b.available + x
         /\ Moved(b, x, y).encumbered = b.encumbered + y
  BY DEF Moved, Balance

(* A pending request that a custodian can decide on is a well-typed request. *)
LEMMA PendingRequest ==
  ASSUME NEW s, Typed(s), RequestsSound(s), NEW r \in TxIds, IsPending(s, r)
  PROVE  /\ s[RequestKey(r)] \in Request
         /\ s[RequestKey(r)].id = r
         /\ s[RequestKey(r)].amount > 0
         /\ s[RequestKey(r)].type = "TRANSFER" => s[RequestKey(r)].counterparty \in Owners
  BY DEF Typed, RequestsSound, IsPending, RequestKeys

(* The status change of a decision: nothing else of the request moves. *)
LEMMA StatusChange ==
  ASSUME NEW r \in Request, NEW st \in Statuses
  PROVE  /\ [r EXCEPT !.status = st] \in Request
         /\ [r EXCEPT !.status = st].id = r.id
         /\ [r EXCEPT !.status = st].amount = r.amount
         /\ [r EXCEPT !.status = st].type = r.type
         /\ [r EXCEPT !.status = st].counterparty = r.counterparty
  BY DEF Request

-----------------------------------------------------------------------------
(* The write set of an accepted invocation. *)

(* What is written under a balance key is a balance; under a request key, a *)
(* sound request, which is either the one this transaction creates or the   *)
(* pending one it decides.                                                  *)
WriteSetSound(s, tx, c, w) ==
  /\ DOMAIN w \subseteq Keys
  /\ \A o \in Owners, t \in Tokens :
       BalanceKey(o, t) \in DOMAIN w => w[BalanceKey(o, t)] \in Balance
  /\ \A t \in Tokens : NavKey(t) \in DOMAIN w => w[NavKey(t)] \in NAV
  /\ \A r \in TxIds : RequestKey(r) \in DOMAIN w =>
       /\ w[RequestKey(r)] \in Request
       /\ w[RequestKey(r)].id = r
       /\ w[RequestKey(r)].amount > 0
       /\ w[RequestKey(r)].type = "TRANSFER" => w[RequestKey(r)].counterparty \in Owners
       /\ \/ r = tx /\ c.fn \in DOMAIN RequestTypeOf
          \/ /\ s[RequestKey(r)] # Nil
             /\ s[RequestKey(r)].status = "requested"
             /\ w[RequestKey(r)] \in
                  {[s[RequestKey(r)] EXCEPT !.status = st] : st \in {"committed", "cancelled"}}

(* A write set that leaves no balance negative. *)
WriteSetSolvent(w) ==
  \A o \in Owners, t \in Tokens : BalanceKey(o, t) \in DOMAIN w =>
    w[BalanceKey(o, t)].available >= 0 /\ w[BalanceKey(o, t)].encumbered >= 0

Solvent(s) ==
  \A o \in Owners, t \in Tokens :
    /\ ReadBalance(s, o, t).available >= 0
    /\ ReadBalance(s, o, t).encumbered >= 0

LEMMA SupplyWriteSet ==
  ASSUME NEW s, Typed(s), NEW tx \in TxIds, NEW c \in Call,
         c.fn \in {"Mint", "Burn"}, Accepts(s, c)
  PROVE  /\ WriteSetSound(s, tx, c, SupplyWrites(s, c))
         /\ Solvent(s) => WriteSetSolvent(SupplyWrites(s, c))
<1> DEFINE key == BalanceKey(c.owner, c.token)
           b == ReadBalance(s, c.owner, c.token)
           w == SupplyWrites(s, c)
<1>1. c.owner \in Owners /\ c.token \in Tokens /\ c.amount \in Int
  BY CallFacts
<1>2. b \in Balance
  BY <1>1, BalanceRead
<1>3. /\ Moved(b, c.amount, 0) \in Balance
      /\ Moved(b, c.amount, 0).available = b.available + c.amount
      /\ Moved(b, c.amount, 0).encumbered = b.encumbered
  BY <1>1, <1>2, MovedType DEF Balance
<1>4. /\ Moved(b, -c.amount, 0) \in Balance
      /\ Moved(b, -c.amount, 0).available = b.available - c.amount
      /\ Moved(b, -c.amount, 0).encumbered = b.encumbered
  <2>1. -c.amount \in Int
    BY <1>1
  <2> QED
    BY <2>1, <1>1, <1>2, MovedType DEF Balance
<1>5. DOMAIN w = {key} /\ w[key] \in {Moved(b, c.amount, 0), Moved(b, -c.amount, 0)}
  BY DEF SupplyWrites
<1>6. WriteSetSound(s, tx, c, w)
  BY <1>1, <1>3, <1>4, <1>5, KeyFacts DEF WriteSetSound, Keys, BalanceKeys
<1>7. ASSUME Solvent(s) PROVE w[key].available >= 0 /\ w[key].encumbered >= 0
  <2>1. b.available >= 0 /\ b.encumbered >= 0 /\ b.available \in Int /\ b.encumbered \in Int
    BY <1>1, <1>2, <1>7 DEF Solvent, Balance
  <2>2. CASE c.fn = "Mint"
    <3>1. w[key] = Moved(b, c.amount, 0) /\ c.amount > 0
      BY <2>2 DEF SupplyWrites, Accepts, MintAccepts, RequestTypeOf
    <3> QED
      BY <3>1, <2>1, <1>1, <1>3
  <2>3. CASE c.fn = "Burn"
    <3>1. w[key] = Moved(b, -c.amount, 0) /\ b.available >= c.amount
      BY <2>3 DEF SupplyWrites, Accepts, BurnAccepts, RequestTypeOf
    <3> QED
      BY <3>1, <2>1, <1>1, <1>4
  <2> QED
    BY <2>2, <2>3
<1> QED
  BY <1>5, <1>6, <1>7, KeyFacts DEF WriteSetSolvent

LEMMA RequestWriteSet ==
  ASSUME NEW s, NEW tx \in TxIds, NEW c \in Call,
         c.fn \in DOMAIN RequestTypeOf, RequestAccepts(c)
  PROVE  LET w == [k \in {RequestKey(tx)} |-> NewRequest(tx, c)]
         IN  WriteSetSound(s, tx, c, w) /\ WriteSetSolvent(w)
<1>1. /\ c.caller \in Identities /\ c.owner \in Owners /\ c.token \in Tokens
      /\ c.amount \in Int /\ c.to \in Owners \cup {Nil}
      /\ c.fn = "RequestTransfer" => c.to \in Owners
  BY CallFacts
<1>2. c.amount > 0
  BY DEF RequestAccepts
<1>3. /\ RequestTypeOf[c.fn] \in RequestTypes
      /\ RequestTypeOf[c.fn] = "TRANSFER" => c.fn = "RequestTransfer"
  BY DEF RequestTypeOf, RequestTypes
<1>4. /\ NewRequest(tx, c) \in Request
      /\ NewRequest(tx, c).id = tx
      /\ NewRequest(tx, c).amount > 0
      /\ NewRequest(tx, c).type = "TRANSFER" => NewRequest(tx, c).counterparty \in Owners
  BY <1>1, <1>2, <1>3 DEF NewRequest, Request, Statuses
<1> QED
  BY <1>4, KeyFacts DEF WriteSetSound, WriteSetSolvent, Keys, RequestKeys

(* The balances an approved request moves: only balances are written, and   *)
(* the sufficiency check keeps both parts of each from going below zero.    *)
BalancesOnly(w) ==
  /\ DOMAIN w \subseteq BalanceKeys
  /\ \A o \in Owners, t \in Tokens :
       BalanceKey(o, t) \in DOMAIN w => w[BalanceKey(o, t)] \in Balance

LEMMA TransferWriteSet ==
  ASSUME NEW s, Typed(s), NEW r \in Request, r.counterparty \in Owners, r.amount > 0,
         ReadBalance(s, r.owner, r.token).available >= r.amount
  PROVE  /\ BalancesOnly(TransferWrites(s, r))
         /\ Solvent(s) => WriteSetSolvent(TransferWrites(s, r))
<1> DEFINE a == ReadBalance(s, r.owner, r.token)
           b == ReadBalance(s, r.counterparty, r.token)
           from == BalanceKey(r.owner, r.token)
           to == BalanceKey(r.counterparty, r.token)
           w == TransferWrites(s, r)
<1>1. r.owner \in Owners /\ r.token \in Tokens /\ r.amount \in Int /\ -r.amount \in Int
  BY DEF Request
<1>2. a \in Balance /\ b \in Balance
  BY <1>1, BalanceRead
<1>3. /\ Moved(a, -r.amount, 0) \in Balance
      /\ Moved(a, -r.amount, 0).available = a.available - r.amount
      /\ Moved(a, -r.amount, 0).encumbered = a.encumbered
      /\ Moved(b, r.amount, 0) \in Balance
      /\ Moved(b, r.amount, 0).available = b.available + r.amount
      /\ Moved(b, r.amount, 0).encumbered = b.encumbered
  BY <1>1, <1>2, MovedType DEF Balance
<1>4. /\ DOMAIN w = {from, to}
      /\ w[to] = Moved(b, r.amount, 0)
      /\ from # to => w[from] = Moved(a, -r.amount, 0)
  BY DEF TransferWrites
<1>5. BalancesOnly(w)
  BY <1>1, <1>3, <1>4, KeyFacts DEF BalancesOnly, BalanceKeys
<1>6. ASSUME Solvent(s)
      PROVE  /\ Moved(a, -r.amount, 0).available >= 0 /\ Moved(a, -r.amount, 0).encumbered >= 0
             /\ Moved(b, r.amount, 0).available >= 0 /\ Moved(b, r.amount, 0).encumbered >= 0
  BY <1>1, <1>2, <1>3, <1>6 DEF Solvent, Balance
<1> QED
  BY <1>4, <1>5, <1>6 DEF WriteSetSolvent

LEMMA PledgeWriteSet ==
  ASSUME NEW s, Typed(s), NEW r \in Request, r.amount > 0,
         \/ r.type = "ENCUMBRANCE" /\ ReadBalance(s, r.owner, r.token).available >= r.amount
         \/ r.type = "UNENCUMBRANCE" /\ ReadBalance(s, r.owner, r.token).encumbered >= r.amount
  PROVE  /\ BalancesOnly(PledgeWrites(s, r))
         /\ Solvent(s) => WriteSetSolvent(PledgeWrites(s, r))
<1> DEFINE b == ReadBalance(s, r.owner, r.token)
           key == BalanceKey(r.owner, r.token)
           pledged == IF r.type = "ENCUMBRANCE" THEN r.amount ELSE -r.amount
           w == PledgeWrites(s, r)
<1>1. r.owner \in Owners /\ r.token \in Tokens /\ r.amount \in Int
  BY DEF Request
<1>2. b \in Balance /\ pledged \in Int /\ -pledged \in Int
  BY <1>1, BalanceRead
<1>3. /\ Moved(b, -pledged, pledged) \in Balance
      /\ Moved(b, -pledged, pledged).available = b.available - pledged
      /\ Moved(b, -pledged, pledged).encumbered = b.encumbered + pledged
  <2> HIDE DEF b, pledged
  <2> QED
    BY <1>2, MovedType DEF Balance
<1>4. DOMAIN w = {key} /\ w[key] = Moved(b, -pledged, pledged)
  BY DEF PledgeWrites
<1>5. BalancesOnly(w)
  BY <1>1, <1>3, <1>4, KeyFacts DEF BalancesOnly, BalanceKeys
<1>6. ASSUME Solvent(s)
      PROVE  b.available - pledged >= 0 /\ b.encumbered + pledged >= 0
  BY <1>1, <1>2, <1>6 DEF Solvent, Balance
<1> QED
  BY <1>3, <1>4, <1>5, <1>6 DEF WriteSetSolvent

LEMMA DecisionWriteSet ==
  ASSUME NEW s, Typed(s), RequestsSound(s), NEW tx \in TxIds, NEW c \in Call,
         c.fn \in {"ApproveRequest", "RejectRequest"}, IsPending(s, c.request),
         NEW st \in {"committed", "cancelled"},
         NEW moves, BalancesOnly(moves)
  PROVE  LET key == RequestKey(c.request)
             w == [k \in {key} \cup DOMAIN moves |->
                     IF k = key THEN [s[key] EXCEPT !.status = st] ELSE moves[k]]
         IN  /\ WriteSetSound(s, tx, c, w)
             /\ WriteSetSolvent(moves) => WriteSetSolvent(w)
<1> DEFINE key == RequestKey(c.request)
           new == [s[key] EXCEPT !.status = st]
           w == [k \in {key} \cup DOMAIN moves |-> IF k = key THEN new ELSE moves[k]]
<1>1. c.request \in TxIds
  BY CallFacts
<1>2. /\ s[key] \in Request /\ s[key].id = c.request /\ s[key].amount > 0
      /\ s[key].type = "TRANSFER" => s[key].counterparty \in Owners
  BY <1>1, PendingRequest
<1>3. s[key] # Nil /\ s[key].status = "requested"
  BY DEF IsPending
<1>4. /\ new \in Request /\ new.id = c.request /\ new.amount > 0
      /\ new.type = "TRANSFER" => new.counterparty \in Owners
  <2>1. st \in Statuses
    BY DEF Statuses
  <2> QED
    BY <2>1, <1>2, StatusChange
<1>5. w[key] = new
  OBVIOUS
<1>6. \A o \in Owners, t \in Tokens :
        /\ BalanceKey(o, t) \in DOMAIN w <=> BalanceKey(o, t) \in DOMAIN moves
        /\ BalanceKey(o, t) \in DOMAIN w => w[BalanceKey(o, t)] = moves[BalanceKey(o, t)]
  BY KeyFacts
<1>7. DOMAIN w \subseteq Keys
  BY <1>1 DEF BalancesOnly, Keys, RequestKeys
<1>8. \A t \in Tokens : NavKey(t) \notin DOMAIN w
  BY KeyFacts DEF BalancesOnly, BalanceKeys
<1>9. \A r \in TxIds : RequestKey(r) \in DOMAIN w => r = c.request
  BY KeyFacts DEF BalancesOnly, BalanceKeys
<1>10. new \in {[s[key] EXCEPT !.status = x] : x \in {"committed", "cancelled"}}
  OBVIOUS
<1>11. WriteSetSound(s, tx, c, w)
  <2> HIDE DEF w, new
  <2> QED
    BY <1>3, <1>4, <1>5, <1>6, <1>7, <1>8, <1>9, <1>10 DEF WriteSetSound, BalancesOnly
<1> QED
  BY <1>6, <1>11 DEF WriteSetSolvent

LEMMA ApproveWriteSet ==
  ASSUME NEW s, Typed(s), RequestsSound(s), NEW tx \in TxIds, NEW c \in Call,
         c.fn = "ApproveRequest", ApproveAccepts(s, c)
  PROVE  /\ WriteSetSound(s, tx, c, ApproveWrites(s, c.request))
         /\ Solvent(s) => WriteSetSolvent(ApproveWrites(s, c.request))
<1> DEFINE r == s[RequestKey(c.request)]
           moves == IF r.type = "TRANSFER" THEN TransferWrites(s, r) ELSE PledgeWrites(s, r)
<1>1. c.request \in TxIds /\ IsPending(s, c.request)
  BY CallFacts DEF ApproveAccepts
<1>2. r \in Request /\ r.amount > 0 /\ (r.type = "TRANSFER" => r.counterparty \in Owners)
  BY <1>1, PendingRequest
<1>3. /\ r.type \in RequestTypes
      /\ r.type # "UNENCUMBRANCE" => ReadBalance(s, r.owner, r.token).available >= r.amount
      /\ r.type = "UNENCUMBRANCE" => ReadBalance(s, r.owner, r.token).encumbered >= r.amount
  BY <1>2 DEF ApproveAccepts, Request
<1>4. BalancesOnly(moves) /\ (Solvent(s) => WriteSetSolvent(moves))
  <2>1. CASE r.type = "TRANSFER"
    BY <2>1, <1>2, <1>3, TransferWriteSet
  <2>2. CASE r.type # "TRANSFER"
    BY <2>2, <1>2, <1>3, PledgeWriteSet DEF RequestTypes
  <2> QED
    BY <2>1, <2>2
<1>5. ApproveWrites(s, c.request) =
        [k \in {RequestKey(c.request)} \cup DOMAIN moves |->
           IF k = RequestKey(c.request)
             THEN [s[RequestKey(c.request)] EXCEPT !.status = "committed"] ELSE moves[k]]
  BY DEF ApproveWrites
<1> HIDE DEF moves
<1> QED
  BY <1>1, <1>4, <1>5, DecisionWriteSet

LEMMA RejectWriteSet ==
  ASSUME NEW s, Typed(s), RequestsSound(s), NEW tx \in TxIds, NEW c \in Call,
         c.fn = "RejectRequest", RejectAccepts(s, c)
  PROVE  /\ WriteSetSound(s, tx, c, RejectWrites(s, c.request))
         /\ WriteSetSolvent(RejectWrites(s, c.request))
<1> DEFINE moves == [k \in {} |-> Nil]
<1>1. IsPending(s, c.request)
  BY DEF RejectAccepts
<1>2. BalancesOnly(moves) /\ WriteSetSolvent(moves)
  BY DEF BalancesOnly, WriteSetSolvent
<1>3. RejectWrites(s, c.request) =
        [k \in {RequestKey(c.request)} \cup DOMAIN moves |->
           IF k = RequestKey(c.request)
             THEN [s[RequestKey(c.request)] EXCEPT !.status = "cancelled"] ELSE moves[k]]
  BY DEF RejectWrites
<1> HIDE DEF moves
<1> QED
  BY <1>1, <1>2, <1>3, DecisionWriteSet

(* Every accepted invocation writes a sound write set, and a solvent one on *)
(* a solvent ledger.                                                        *)
LEMMA AcceptedWriteSet ==
  ASSUME NEW s, Typed(s), RequestsSound(s), NEW tx \in TxIds, NEW c \in Call, Accepts(s, c)
  PROVE  /\ WriteSetSound(s, tx, c, Writes(s, tx, c))
         /\ Solvent(s) => WriteSetSolvent(Writes(s, tx, c))
<1>1. CASE c.fn \in {"Mint", "Burn"}
  <2>1. Writes(s, tx, c) = SupplyWrites(s, c)
    BY <1>1 DEF Writes, RequestTypeOf
  <2> QED
    BY <1>1, <2>1, SupplyWriteSet
<1>2. CASE c.fn = "SetNAV"
  <2>1. Writes(s, tx, c) = [k \in {NavKey(c.token)} |-> [price |-> c.price]]
    BY <1>2 DEF Writes, RequestTypeOf
  <2>2. c.token \in Tokens /\ c.price \in Int
    BY <1>2, CallFacts
  <2> QED
    BY <2>1, <2>2, KeyFacts DEF WriteSetSound, WriteSetSolvent, Keys, NavKeys, NAV
<1>3. CASE c.fn \in DOMAIN RequestTypeOf
  <2>1. Writes(s, tx, c) = [k \in {RequestKey(tx)} |-> NewRequest(tx, c)]
    BY <1>3 DEF Writes, RequestTypeOf
  <2>2. RequestAccepts(c)
    BY <1>3 DEF Accepts, RequestTypeOf
  <2> DEFINE w == [k \in {RequestKey(tx)} |-> NewRequest(tx, c)]
  <2>3. WriteSetSound(s, tx, c, w) /\ WriteSetSolvent(w)
    BY <1>3, <2>2, RequestWriteSet
  <2> QED
    BY <2>1, <2>3
<1>4. CASE c.fn = "ApproveRequest"
  <2>1. Writes(s, tx, c) = ApproveWrites(s, c.request) /\ ApproveAccepts(s, c)
    BY <1>4 DEF Writes, Accepts, RequestTypeOf
  <2> QED
    BY <1>4, <2>1, ApproveWriteSet
<1>5. CASE c.fn = "RejectRequest"
  <2>1. Writes(s, tx, c) = RejectWrites(s, c.request) /\ RejectAccepts(s, c)
    BY <1>5 DEF Writes, Accepts, RequestTypeOf
  <2> QED
    BY <1>5, <2>1, RejectWriteSet
<1> QED
  BY <1>1, <1>2, <1>3, <1>4, <1>5, CallFacts DEF RequestTypeOf

-----------------------------------------------------------------------------
(* Committing a sound write set. *)

LEMMA ApplyReads ==
  ASSUME NEW s, NEW w, NEW k \in Keys
  PROVE  Apply(s, w)[k] = IF k \in DOMAIN w THEN w[k] ELSE s[k]
  BY DEF Apply

LEMMA ApplySound ==
  ASSUME NEW s, Typed(s), RequestsSound(s), NEW tx, NEW c, NEW w, WriteSetSound(s, tx, c, w)
  PROVE  /\ Typed(Apply(s, w))
         /\ RequestsSound(Apply(s, w))
         /\ Solvent(s) /\ WriteSetSolvent(w) => Solvent(Apply(s, w))
<1> DEFINE n == Apply(s, w)
<1>1. \A k \in Keys : n[k] = IF k \in DOMAIN w THEN w[k] ELSE s[k]
  BY ApplyReads
<1>2. BalanceKeys \subseteq Keys /\ RequestKeys \subseteq Keys /\ NavKeys \subseteq Keys
  BY DEF Keys
<1> HIDE DEF n
<1>3. \A k \in BalanceKeys : n[k] \in Balance \cup {Nil}
  BY <1>1, <1>2 DEF WriteSetSound, Typed, BalanceKeys
<1>4. \A k \in RequestKeys : n[k] \in Request \cup {Nil}
  BY <1>1, <1>2 DEF WriteSetSound, Typed, RequestKeys
<1>5. \A k \in NavKeys : n[k] \in NAV \cup {Nil}
  BY <1>1, <1>2 DEF WriteSetSound, Typed, NavKeys
<1>6. RequestsSound(n)
  <2> SUFFICES ASSUME NEW r \in TxIds, n[RequestKey(r)] # Nil
               PROVE  /\ n[RequestKey(r)].id = r
                      /\ n[RequestKey(r)].amount > 0
                      /\ n[RequestKey(r)].type = "TRANSFER" =>
                           n[RequestKey(r)].counterparty \in Owners
    BY DEF RequestsSound
  <2>1. RequestKey(r) \in Keys
    BY DEF Keys, RequestKeys
  <2> QED
    BY <1>1, <2>1 DEF WriteSetSound, RequestsSound
<1>7. ASSUME Solvent(s), WriteSetSolvent(w)
      PROVE  Solvent(n)
  <2> SUFFICES ASSUME NEW o \in Owners, NEW t \in Tokens
               PROVE  ReadBalance(n, o, t).available >= 0 /\ ReadBalance(n, o, t).encumbered >= 0
    BY DEF Solvent
  <2>1. BalanceKey(o, t) \in Keys
    BY DEF Keys, BalanceKeys
  <2>2. CASE BalanceKey(o, t) \in DOMAIN w
    BY <1>1, <1>7, <2>1, <2>2 DEF WriteSetSolvent, ReadBalance
  <2>3. CASE BalanceKey(o, t) \notin DOMAIN w
    <3>1. ReadBalance(n, o, t) = ReadBalance(s, o, t)
      BY <1>1, <2>1, <2>3 DEF ReadBalance
    <3> QED
      BY <1>7, <3>1 DEF Solvent
  <2> QED
    BY <2>2, <2>3
<1> QED
  BY <1>3, <1>4, <1>5, <1>6, <1>7 DEF n, Typed

-----------------------------------------------------------------------------
(* An invocation depends on nothing but the keys it read: simulated on any  *)
(* world state that agrees on them, it is accepted again and reads, writes  *)
(* and emits the same.                                                      *)
LEMMA SameReadsSameResult ==
  ASSUME NEW s, NEW n, NEW tx, NEW c \in Call, Accepts(s, c),
         \A k \in Reads(s, c) : n[k] = s[k]
  PROVE  /\ Accepts(n, c)
         /\ Reads(n, c) = Reads(s, c)
         /\ Writes(n, tx, c) = Writes(s, tx, c)
         /\ Emits(n, tx, c) = Emits(s, tx, c)
<1>1. CASE c.fn \in {"Mint", "Burn"}
  <2>1. Reads(s, c) = {BalanceKey(c.owner, c.token)} /\ Reads(n, c) = Reads(s, c)
    BY <1>1 DEF Reads
  <2>2. ReadBalance(n, c.owner, c.token) = ReadBalance(s, c.owner, c.token)
    BY <2>1 DEF ReadBalance
  <2>3. Accepts(n, c)
    BY <1>1, <2>2 DEF Accepts, MintAccepts, BurnAccepts, RequestTypeOf
  <2>4. SupplyWrites(n, c) = SupplyWrites(s, c)
    BY <2>2 DEF SupplyWrites
  <2>5. Writes(s, tx, c) = SupplyWrites(s, c) /\ Writes(n, tx, c) = SupplyWrites(n, c)
    BY <1>1 DEF Writes, RequestTypeOf
  <2>6. Emits(n, tx, c) = Emits(s, tx, c)
    BY <1>1 DEF Emits, RequestTypeOf
  <2> QED
    BY <2>1, <2>3, <2>4, <2>5, <2>6
<1>2. CASE c.fn \in {"SetNAV", "RequestTransfer", "RequestEncumbrance", "RequestUnencumbrance"}
  <2>1. Reads(s, c) = {} /\ Reads(n, c) = {}
    BY <1>2 DEF Reads
  <2>2. Accepts(n, c)
    BY <1>2 DEF Accepts, RequestTypeOf
  <2>3. Writes(n, tx, c) = Writes(s, tx, c)
    BY <1>2 DEF Writes, RequestTypeOf
  <2>4. Emits(n, tx, c) = Emits(s, tx, c)
    BY <1>2 DEF Emits, RequestTypeOf
  <2> QED
    BY <2>1, <2>2, <2>3, <2>4
<1>3. CASE c.fn = "ApproveRequest"
  <2> DEFINE r == s[RequestKey(c.request)]
  <2>1. /\ Reads(s, c) = ApproveReads(s, c.request)
        /\ Reads(n, c) = ApproveReads(n, c.request)
    BY <1>3 DEF Reads
  <2>2. n[RequestKey(c.request)] = r
    BY <2>1 DEF ApproveReads
  <2>3. ReadBalance(n, r.owner, r.token) = ReadBalance(s, r.owner, r.token)
    BY <2>1 DEF ApproveReads, ReadBalance
  <2>4. r.type = "TRANSFER" =>
          ReadBalance(n, r.counterparty, r.token) = ReadBalance(s, r.counterparty, r.token)
    BY <2>1 DEF ApproveReads, ReadBalance
  <2>5. ApproveReads(n, c.request) = ApproveReads(s, c.request)
    BY <2>2 DEF ApproveReads
  <2>6. ApproveAccepts(s, c)
    BY <1>3 DEF Accepts, RequestTypeOf
  <2>7. ApproveAccepts(n, c)
    BY <2>2, <2>3, <2>6 DEF ApproveAccepts, IsPending
  <2>8. r.type = "TRANSFER" => TransferWrites(n, r) = TransferWrites(s, r)
    BY <2>3, <2>4 DEF TransferWrites
  <2>9. PledgeWrites(n, r) = PledgeWrites(s, r)
    BY <2>3 DEF PledgeWrites
  <2>10. ApproveWrites(n, c.request) = ApproveWrites(s, c.request)
    BY <2>2, <2>8, <2>9 DEF ApproveWrites
  <2>11. /\ Writes(n, tx, c) = ApproveWrites(n, c.request)
         /\ Writes(s, tx, c) = ApproveWrites(s, c.request)
    BY <1>3 DEF Writes, RequestTypeOf
  <2>12. Emits(n, tx, c) = Emits(s, tx, c)
    BY <1>3, <2>10 DEF Emits, RequestTypeOf
  <2>13. Accepts(n, c)
    BY <1>3, <2>7 DEF Accepts
  <2> QED
    BY <2>1, <2>5, <2>10, <2>11, <2>12, <2>13
<1>4. CASE c.fn = "RejectRequest"
  <2>1. Reads(s, c) = {RequestKey(c.request)} /\ Reads(n, c) = Reads(s, c)
    BY <1>4 DEF Reads
  <2>2. n[RequestKey(c.request)] = s[RequestKey(c.request)]
    BY <2>1
  <2>3. RejectAccepts(s, c)
    BY <1>4 DEF Accepts, RequestTypeOf
  <2>4. RejectAccepts(n, c)
    BY <2>2, <2>3 DEF RejectAccepts, IsPending
  <2>5. RejectWrites(n, c.request) = RejectWrites(s, c.request)
    BY <2>2 DEF RejectWrites
  <2>6. /\ Writes(n, tx, c) = RejectWrites(n, c.request)
        /\ Writes(s, tx, c) = RejectWrites(s, c.request)
    BY <1>4 DEF Writes, RequestTypeOf
  <2>7. Emits(n, tx, c) = Emits(s, tx, c)
    BY <1>4, <2>5 DEF Emits, RequestTypeOf
  <2>8. Accepts(n, c)
    BY <1>4, <2>4 DEF Accepts
  <2> QED
    BY <2>1, <2>5, <2>6, <2>7, <2>8
<1> QED
  BY <1>1, <1>2, <1>3, <1>4, CallFacts

(* The keys an accepted invocation reads are keys of the world state. *)
LEMMA ReadsAreKeys ==
  ASSUME NEW s, Typed(s), RequestsSound(s), NEW c \in Call, Accepts(s, c)
  PROVE  Reads(s, c) \subseteq Keys
<1>1. CASE c.fn \in {"Mint", "Burn"}
  BY <1>1, CallFacts DEF Reads, Keys, BalanceKeys
<1>2. CASE c.fn = "ApproveRequest"
  <2>1. c.request \in TxIds /\ IsPending(s, c.request)
    BY <1>2, CallFacts DEF Accepts, ApproveAccepts, RequestTypeOf
  <2> DEFINE r == s[RequestKey(c.request)]
  <2>2. /\ r.owner \in Owners /\ r.token \in Tokens
        /\ r.type = "TRANSFER" => r.counterparty \in Owners
    BY <2>1, PendingRequest DEF Request
  <2>3. Reads(s, c) = ApproveReads(s, c.request)
    BY <1>2 DEF Reads
  <2> QED
    BY <2>1, <2>2, <2>3 DEF ApproveReads, Keys, BalanceKeys, RequestKeys
<1>3. CASE c.fn = "RejectRequest"
  BY <1>3, CallFacts DEF Reads, Keys, RequestKeys
<1>4. CASE c.fn \notin {"Mint", "Burn", "ApproveRequest", "RejectRequest"}
  BY <1>4 DEF Reads
<1> QED
  BY <1>1, <1>2, <1>3, <1>4

-----------------------------------------------------------------------------
(* What the peers make of it.                                              *)

(* No version is ahead of the chain, so a commit gives the keys it writes a *)
(* version nobody has read yet.                                             *)
Clocks ==
  /\ \A k \in Keys : version[k] <= Len(chain)
  /\ \A tx \in TxIds : envelope[tx] # Nil =>
       \A k \in DOMAIN envelope[tx].reads : envelope[tx].reads[k] <= Len(chain)

(* Only endorsed transactions are ordered, and a request exists only once   *)
(* the transaction that carries its id has been ordered.                    *)
Provenance ==
  /\ \A tx \in Ordered : envelope[tx] # Nil
  /\ \A r \in TxIds : state[RequestKey(r)] # Nil => r \in Ordered

Endorsed ==
  \A tx \in TxIds : envelope[tx] # Nil /\ ReadsCurrent(envelope[tx]) =>
    /\ Accepts(state, envelope[tx].call)
    /\ DOMAIN envelope[tx].reads = Reads(state, envelope[tx].call)
    /\ envelope[tx].writes = Writes(state, tx, envelope[tx].call)
    /\ envelope[tx].event = Emits(state, tx, envelope[tx].call)

IInv ==
  /\ TypeOK
  /\ RequestsSound(state)
  /\ Solvent(state)
  /\ Clocks
  /\ Provenance
  /\ Endorsed

(* The next-state relation: some call is endorsed, or an envelope ordered.  *)
LEMMA NextCases ==
  ASSUME Next
  PROVE  \/ \E tx \in TxIds, c \in Call : Endorse(tx, c)
         \/ \E tx \in TxIds : Order(tx)
<1>1. SupplyCall \subseteq Call /\ NavCall \subseteq Call /\ RequestCall \subseteq Call
      /\ DecisionCall \subseteq Call
  BY DEF Call
<1> QED
  BY <1>1 DEF Next, Invoke, Mint, Burn, SetNAV, RequestTransfer, RequestEncumbrance,
              RequestUnencumbrance, ApproveRequest, RejectRequest

(* What ordering a transaction does to the sets of ordered and valid ones.  *)
LEMMA ChainGrows ==
  ASSUME chain \in Seq([tx : TxIds, code : Codes]), NEW tx \in TxIds, NEW code \in Codes,
         chain' = Append(chain, [tx |-> tx, code |-> code])
  PROVE  /\ chain' \in Seq([tx : TxIds, code : Codes])
         /\ Len(chain') = Len(chain) + 1
         /\ Len(chain) \in Nat
         /\ chain'[Len(chain')].tx = tx
         /\ Ordered' = Ordered \cup {tx}
         /\ Valid' = IF code = "VALID" THEN Valid \cup {tx} ELSE Valid
<1>1. DOMAIN chain' = DOMAIN chain \cup {Len(chain) + 1}
  OBVIOUS
<1>2. /\ \A i \in DOMAIN chain : chain'[i] = chain[i]
      /\ chain'[Len(chain) + 1] = [tx |-> tx, code |-> code]
      /\ Len(chain) + 1 \notin DOMAIN chain
  OBVIOUS
<1> QED
  BY <1>1, <1>2 DEF Ordered, Valid

LEMMA OrderedAreTxIds ==
  ASSUME chain \in Seq([tx : TxIds, code : Codes])
  PROVE  Ordered \subseteq TxIds /\ Valid \subseteq Ordered
<1> DEFINE Entry == [tx : TxIds, code : Codes]
<1>1. \A i \in DOMAIN chain : chain[i] \in Entry
  <2>1. chain \in Seq(Entry)
    OBVIOUS
  <2> HIDE DEF Entry
  <2> QED
    BY <2>1
<1>2. \A x \in Entry : x.tx \in TxIds
  OBVIOUS
<1> QED
  BY <1>1, <1>2 DEF Ordered, Valid

LEMMA InitIInv == Init => IInv
<1> SUFFICES ASSUME Init PROVE IInv
  OBVIOUS
<1>1. \A k \in Keys : state[k] = Nil
  BY DEF Init, EmptyState
<1>2. BalanceKeys \subseteq Keys /\ RequestKeys \subseteq Keys /\ NavKeys \subseteq Keys
  BY DEF Keys
<1>3. Typed(state)
  BY <1>1, <1>2 DEF Typed
<1>4. TypeOK
  BY <1>3 DEF Init, EmptyState, TypeOK
<1>5. RequestsSound(state) /\ \A r \in TxIds : state[RequestKey(r)] = Nil
  BY <1>1, <1>2 DEF RequestsSound, RequestKeys
<1>6. Solvent(state)
  BY <1>1, <1>2 DEF Solvent, ReadBalance, BalanceKeys
<1>7. Clocks /\ Provenance /\ Endorsed
  BY <1>5 DEF Init, Clocks, Provenance, Endorsed, Ordered
<1> QED
  BY <1>4, <1>5, <1>6, <1>7 DEF IInv

(* Endorsing records the current versions, so the new envelope is current.  *)
LEMMA EndorseKeepsIInv ==
  ASSUME IInv, NEW tx \in TxIds, NEW c \in Call, Endorse(tx, c)
  PROVE  IInv'
<1> DEFINE e == [call   |-> c,
                 reads  |-> [k \in Reads(state, c) |-> version[k]],
                 writes |-> Writes(state, tx, c),
                 event  |-> Emits(state, tx, c)]
<1>1. /\ envelope[tx] = Nil /\ Accepts(state, c)
      /\ envelope' = [envelope EXCEPT ![tx] = e]
      /\ state' = state /\ version' = version /\ chain' = chain
  BY DEF Endorse
<1>2. /\ Typed(state) /\ RequestsSound(state) /\ DOMAIN envelope = TxIds
      /\ version \in [Keys -> Nat]
  BY DEF IInv, TypeOK
<1>3. Reads(state, c) \subseteq Keys
  BY <1>1, <1>2, ReadsAreKeys
<1>4. DOMAIN Writes(state, tx, c) \subseteq Keys
  BY <1>1, <1>2, AcceptedWriteSet DEF WriteSetSound
<1>5. IsEnvelope(e)
  BY <1>2, <1>3, <1>4 DEF IsEnvelope
<1>6. \A x \in TxIds : envelope'[x] = IF x = tx THEN e ELSE envelope[x]
  BY <1>1, <1>2
<1>7. e.reads = [k \in Reads(state, c) |-> version[k]] /\ e.call = c
      /\ e.writes = Writes(state, tx, c) /\ e.event = Emits(state, tx, c)
  OBVIOUS
<1>8. DOMAIN envelope' = TxIds
  BY <1>1, <1>2
<1> HIDE DEF e
<1>9. TypeOK'
  BY <1>1, <1>5, <1>6, <1>8 DEF IInv, TypeOK, Typed, IsEnvelope
<1>10. RequestsSound(state)' /\ Solvent(state)'
  BY <1>1 DEF IInv, RequestsSound, Solvent, ReadBalance
<1>11. Clocks'
  BY <1>1, <1>3, <1>6, <1>7 DEF IInv, Clocks
<1>12. Provenance'
  <2>1. Ordered' = Ordered /\ tx \notin Ordered
    BY <1>1 DEF IInv, Provenance, Ordered
  <2>2. Ordered \subseteq TxIds
    BY OrderedAreTxIds DEF IInv, TypeOK
  <2> QED
    BY <1>1, <1>6, <2>1, <2>2 DEF IInv, Provenance
<1>13. Endorsed'
  <2> SUFFICES ASSUME NEW x \in TxIds, envelope'[x] # Nil, ReadsCurrent(envelope[x])'
               PROVE  /\ Accepts(state, envelope'[x].call)
                      /\ DOMAIN envelope'[x].reads = Reads(state, envelope'[x].call)
                      /\ envelope'[x].writes = Writes(state, x, envelope'[x].call)
                      /\ envelope'[x].event = Emits(state, x, envelope'[x].call)
    BY <1>1 DEF Endorsed
  <2>1. CASE x = tx
    BY <1>1, <1>6, <1>7, <2>1
  <2>2. CASE x # tx
    <3>1. envelope'[x] = envelope[x]
      BY <1>6, <2>2
    <3>2. ReadsCurrent(envelope[x])
      BY <1>1, <3>1 DEF ReadsCurrent
    <3> QED
      BY <3>1, <3>2 DEF IInv, Endorsed
  <2> QED
    BY <2>1, <2>2
<1> QED
  BY <1>9, <1>10, <1>11, <1>12, <1>13 DEF IInv

(* A transaction refused by validation only grows the chain. *)
LEMMA RefusedKeepsIInv ==
  ASSUME IInv, NEW tx \in TxIds, Order(tx), ValidationCode(tx) # "VALID"
  PROVE  IInv'
<1>1. /\ envelope[tx] # Nil /\ envelope' = envelope /\ state' = state /\ version' = version
      /\ chain' = Append(chain, [tx |-> tx, code |-> ValidationCode(tx)])
  BY DEF Order
<1>2. ValidationCode(tx) \in Codes
  BY DEF ValidationCode, Codes
<1>3. /\ chain' \in Seq([tx : TxIds, code : Codes])
      /\ Len(chain') = Len(chain) + 1 /\ Len(chain) \in Nat
      /\ Ordered' = Ordered \cup {tx}
  BY <1>1, <1>2, ChainGrows DEF IInv, TypeOK
<1>4. TypeOK'
  BY <1>1, <1>3 DEF IInv, TypeOK, Typed, IsEnvelope
<1>5. RequestsSound(state)' /\ Solvent(state)'
  BY <1>1 DEF IInv, RequestsSound, Solvent, ReadBalance
<1>6. Clocks'
  <2>1. \A k \in Keys : version[k] \in Nat
    BY DEF IInv, TypeOK
  <2>2. \A x \in TxIds : envelope[x] # Nil =>
          \A k \in DOMAIN envelope[x].reads : envelope[x].reads[k] \in Nat
    BY DEF IInv, TypeOK, IsEnvelope
  <2>3. \A n \in Nat : n <= Len(chain) => n <= Len(chain')
    BY <1>3
  <2> QED
    BY <1>1, <2>1, <2>2, <2>3 DEF IInv, Clocks
<1>7. Provenance'
  BY <1>1, <1>3 DEF IInv, Provenance
<1>8. Endorsed'
  BY <1>1 DEF IInv, Endorsed, ReadsCurrent
<1> QED
  BY <1>4, <1>5, <1>6, <1>7, <1>8 DEF IInv

(* A valid transaction commits the write set that its call has on the       *)
(* current state.                                                           *)
LEMMA ValidCommit ==
  ASSUME IInv, NEW tx \in TxIds, Order(tx), ValidationCode(tx) = "VALID"
  PROVE  LET c == envelope[tx].call
         IN  /\ tx \notin Ordered /\ c \in Call /\ Accepts(state, c)
             /\ envelope[tx].writes = Writes(state, tx, c)
             /\ envelope[tx].event = Emits(state, tx, c)
             /\ state' = Apply(state, Writes(state, tx, c))
             /\ WriteSetSound(state, tx, c, Writes(state, tx, c))
             /\ WriteSetSolvent(Writes(state, tx, c))
<1> DEFINE c == envelope[tx].call
<1>1. tx \notin Ordered /\ ReadsCurrent(envelope[tx]) /\ envelope[tx] # Nil
  BY DEF ValidationCode, Order
<1>2. c \in Call
  BY <1>1 DEF IInv, TypeOK, IsEnvelope
<1>3. /\ Accepts(state, c)
      /\ envelope[tx].writes = Writes(state, tx, c)
      /\ envelope[tx].event = Emits(state, tx, c)
  BY <1>1 DEF IInv, Endorsed
<1>4. state' = Apply(state, Writes(state, tx, c))
  BY <1>3 DEF Order
<1>5. /\ WriteSetSound(state, tx, c, Writes(state, tx, c))
      /\ WriteSetSolvent(Writes(state, tx, c))
  BY <1>2, <1>3, AcceptedWriteSet DEF IInv, TypeOK
<1> QED
  BY <1>1, <1>2, <1>3, <1>4, <1>5

LEMMA ValidKeepsIInv ==
  ASSUME IInv, NEW tx \in TxIds, Order(tx), ValidationCode(tx) = "VALID"
  PROVE  IInv'
<1> DEFINE c == envelope[tx].call
           w == Writes(state, tx, c)
<1>1. /\ tx \notin Ordered /\ c \in Call /\ Accepts(state, c)
      /\ envelope[tx].writes = w
      /\ state' = Apply(state, w)
      /\ WriteSetSound(state, tx, c, w) /\ WriteSetSolvent(w)
  BY ValidCommit
<1>2. /\ envelope[tx] # Nil /\ envelope' = envelope
      /\ version' = [k \in Keys |-> IF k \in DOMAIN w THEN Len(chain) + 1 ELSE version[k]]
      /\ chain' = Append(chain, [tx |-> tx, code |-> "VALID"])
  BY <1>1 DEF Order
<1>3. /\ chain' \in Seq([tx : TxIds, code : Codes])
      /\ Len(chain') = Len(chain) + 1 /\ Len(chain) \in Nat
      /\ Ordered' = Ordered \cup {tx}
  BY <1>2, ChainGrows DEF IInv, TypeOK, Codes
<1> HIDE DEF w, c
<1>4. Typed(state') /\ RequestsSound(state') /\ Solvent(state')
  BY <1>1, ApplySound DEF IInv, TypeOK
<1>5. \A k \in Keys : /\ version[k] \in Nat /\ version[k] <= Len(chain)
                      /\ version'[k] = IF k \in DOMAIN w THEN Len(chain) + 1 ELSE version[k]
                      /\ state'[k] = IF k \in DOMAIN w THEN w[k] ELSE state[k]
  BY <1>1, <1>2, ApplyReads DEF IInv, TypeOK, Clocks
<1>6. TypeOK'
  <2>1. version' \in [Keys -> Nat]
    BY <1>2, <1>3, <1>5
  <2>2. DOMAIN state' = Keys
    BY <1>1 DEF Apply
  <2> QED
    BY <1>2, <1>3, <1>4, <2>1, <2>2 DEF IInv, TypeOK, Typed, IsEnvelope
<1>7. RequestsSound(state)' /\ Solvent(state)'
  BY <1>4 DEF RequestsSound, Solvent, ReadBalance
<1>8. \A x \in TxIds : envelope[x] # Nil =>
        \A k \in DOMAIN envelope[x].reads :
          k \in Keys /\ envelope[x].reads[k] \in Nat /\ envelope[x].reads[k] <= Len(chain)
  BY DEF IInv, TypeOK, IsEnvelope, Clocks
<1>9. Clocks'
  BY <1>2, <1>3, <1>5, <1>8 DEF Clocks
<1>10. Provenance'
  <2>1. \A x \in Ordered' : envelope'[x] # Nil
    BY <1>2, <1>3 DEF IInv, Provenance
  <2>2. ASSUME NEW r \in TxIds, state'[RequestKey(r)] # Nil PROVE r \in Ordered'
    <3>1. RequestKey(r) \in Keys
      BY DEF Keys, RequestKeys
    <3>2. CASE RequestKey(r) \notin DOMAIN w
      BY <1>3, <1>5, <2>2, <3>1, <3>2 DEF IInv, Provenance
    <3>3. CASE RequestKey(r) \in DOMAIN w
      BY <1>1, <1>3, <3>3 DEF WriteSetSound, IInv, Provenance
    <3> QED
      BY <3>2, <3>3
  <2> QED
    BY <2>1, <2>2 DEF Provenance
<1>11. Endorsed'
  <2> SUFFICES ASSUME NEW x \in TxIds, envelope[x] # Nil, ReadsCurrent(envelope[x])'
               PROVE  /\ Accepts(state', envelope[x].call)
                      /\ DOMAIN envelope[x].reads = Reads(state', envelope[x].call)
                      /\ envelope[x].writes = Writes(state', x, envelope[x].call)
                      /\ envelope[x].event = Emits(state', x, envelope[x].call)
    BY <1>2 DEF Endorsed
  <2>1. \A k \in DOMAIN envelope[x].reads : version'[k] = envelope[x].reads[k]
    BY <1>2 DEF ReadsCurrent
  <2>2. \A k \in DOMAIN envelope[x].reads :
          version[k] = envelope[x].reads[k] /\ state'[k] = state[k]
    BY <1>3, <1>5, <1>8, <2>1
  <2>3. /\ Accepts(state, envelope[x].call)
        /\ DOMAIN envelope[x].reads = Reads(state, envelope[x].call)
        /\ envelope[x].writes = Writes(state, x, envelope[x].call)
        /\ envelope[x].event = Emits(state, x, envelope[x].call)
    BY <2>2 DEF IInv, Endorsed, ReadsCurrent
  <2>4. envelope[x].call \in Call
    BY DEF IInv, TypeOK, IsEnvelope
  <2> QED
    BY <2>2, <2>3, <2>4, SameReadsSameResult
<1> QED
  BY <1>6, <1>7, <1>9, <1>10, <1>11 DEF IInv

LEMMA NextKeepsIInv == IInv /\ [Next]_vars => IInv'
<1> SUFFICES ASSUME IInv, [Next]_vars PROVE IInv'
  OBVIOUS
<1>1. CASE Next
  BY <1>1, NextCases, EndorseKeepsIInv, RefusedKeepsIInv, ValidKeepsIInv
<1>2. CASE UNCHANGED vars
  BY <1>2 DEF vars, IInv, TypeOK, Typed, IsEnvelope, RequestsSound, Solvent, ReadBalance,
              Clocks, Provenance, Ordered, Endorsed, ReadsCurrent
<1> QED
  BY <1>1, <1>2

THEOREM Inductive == Spec => []IInv
  BY InitIInv, NextKeepsIInv, PTL DEF Spec

-----------------------------------------------------------------------------
(* The results. *)

(* The world state, the envelopes and the chain keep their types. *)
THEOREM TypeCorrect == Spec => []TypeOK
<1>1. IInv => TypeOK
  BY DEF IInv
<1> QED
  BY <1>1, Inductive, PTL

(* Whatever is endorsed concurrently, no available or encumbered balance on *)
(* the ledger is ever negative.                                             *)
THEOREM FundsSafe == Spec => []FundsNonNegative
<1>1. IInv => FundsNonNegative
  BY DEF IInv, Solvent, FundsNonNegative
<1> QED
  BY <1>1, Inductive, PTL

(* A request leaves "requested" at most once and is otherwise immutable.    *)
THEOREM SettleOnce == Spec => RequestsSettleOnce
<1> DEFINE Settles(r) ==
      LET old == state[RequestKey(r)]
          new == state'[RequestKey(r)]
      IN  \/ old = Nil
          \/ new = old
          \/ /\ old.status = "requested"
             /\ new \in {[old EXCEPT !.status = st] : st \in {"committed", "cancelled"}}
<1>1. ASSUME IInv, [Next]_vars, NEW r \in TxIds PROVE Settles(r)
  <2>1. CASE UNCHANGED state
    BY <2>1
  <2>2. ASSUME NEW tx \in TxIds, NEW c \in Call, Endorse(tx, c) PROVE Settles(r)
    BY <2>2 DEF Endorse
  <2>3. ASSUME NEW tx \in TxIds, Order(tx) PROVE Settles(r)
    <3>1. CASE ValidationCode(tx) # "VALID"
      BY <2>3, <3>1 DEF Order
    <3>2. CASE ValidationCode(tx) = "VALID"
      <4> DEFINE w == Writes(state, tx, envelope[tx].call)
      <4>1. /\ tx \notin Ordered /\ state' = Apply(state, w)
            /\ WriteSetSound(state, tx, envelope[tx].call, w)
        BY <1>1, <2>3, <3>2, ValidCommit
      <4>2. RequestKey(r) \in Keys
        BY DEF Keys, RequestKeys
      <4> HIDE DEF w
      <4>3. state'[RequestKey(r)] =
              IF RequestKey(r) \in DOMAIN w THEN w[RequestKey(r)] ELSE state[RequestKey(r)]
        BY <4>1, <4>2, ApplyReads
      <4>4. CASE RequestKey(r) \notin DOMAIN w
        BY <4>3, <4>4
      <4>5. CASE RequestKey(r) \in DOMAIN w /\ r = tx
        BY <1>1, <4>1, <4>5 DEF IInv, Provenance
      <4>6. CASE RequestKey(r) \in DOMAIN w /\ r # tx
        BY <4>1, <4>3, <4>6 DEF WriteSetSound
      <4> QED
        BY <4>4, <4>5, <4>6
    <3> QED
      BY <3>1, <3>2
  <2> QED
    BY <1>1, <2>1, <2>2, <2>3, NextCases DEF vars
<1>2. IInv /\ [Next]_vars => [\A r \in TxIds : Settles(r)]_vars
  BY <1>1
<1> QED
  BY <1>2, Inductive, PTL DEF Spec, RequestsSettleOnce

-----------------------------------------------------------------------------
(* The refinement of the serial ledger. *)

(* The ledger is instantiated on the same chaincode. *)
LEMMA SameKeys ==
  /\ Ledger!Keys = Keys
  /\ Ledger!Call = Call
  BY DEF Ledger!Keys, Ledger!BalanceKeys, Ledger!RequestKeys, Ledger!NavKeys,
         Ledger!BalanceKey, Ledger!RequestKey, Ledger!NavKey,
         Keys, BalanceKeys, RequestKeys, NavKeys, BalanceKey, RequestKey, NavKey,
         Ledger!Call, Ledger!SupplyCall, Ledger!NavCall, Ledger!RequestCall,
         Ledger!TransferCall, Ledger!PledgeCall, Ledger!DecisionCall,
         Call, SupplyCall, NavCall, RequestCall, TransferCall, PledgeCall, DecisionCall

LEMMA SameApply ==
  /\ Ledger!EmptyState = EmptyState
  /\ \A s, w : Ledger!Apply(s, w) = Apply(s, w)
  BY SameKeys DEF Ledger!EmptyState, EmptyState, Ledger!Apply, Apply

LEMMA SameAccepts == \A s, c : Ledger!Accepts(s, c) <=> Accepts(s, c)
  BY DEF Ledger!Accepts, Ledger!MintAccepts, Ledger!BurnAccepts, Ledger!SetNAVAccepts,
         Ledger!RequestAccepts, Ledger!ApproveAccepts, Ledger!RejectAccepts,
         Ledger!requireCustodian, Ledger!requireInvestorOwner, Ledger!IsPending,
         Ledger!RequestTypeOf, Ledger!ReadBalance, Ledger!BalanceKey, Ledger!RequestKey,
         Accepts, MintAccepts, BurnAccepts, SetNAVAccepts, RequestAccepts, ApproveAccepts,
         RejectAccepts, requireCustodian, requireInvestorOwner, IsPending, RequestTypeOf,
         ReadBalance, BalanceKey, RequestKey

LEMMA SameWrites ==
  /\ \A s, tx, c : Ledger!Writes(s, tx, c) = Writes(s, tx, c)
  /\ \A s, tx, c : Ledger!Emits(s, tx, c) = Emits(s, tx, c)
  BY DEF Ledger!Writes, Ledger!SupplyWrites, Ledger!ApproveWrites, Ledger!RejectWrites,
         Ledger!TransferWrites, Ledger!PledgeWrites, Ledger!NewRequest, Ledger!Moved,
         Ledger!RequestTypeOf, Ledger!ReadBalance, Ledger!BalanceKey, Ledger!RequestKey,
         Ledger!NavKey, Ledger!Emits,
         Writes, SupplyWrites, ApproveWrites, RejectWrites, TransferWrites, PledgeWrites,
         NewRequest, Moved, RequestTypeOf, ReadBalance, BalanceKey, RequestKey, NavKey, Emits

(* Events published so far: the refinement mapping of the ledger's emitted. *)
Published == [tx \in TxIds |-> IF tx \in Valid THEN envelope[tx].event ELSE Nil]

LEMMA InitMaps == Init => Ledger!Init
<1> SUFFICES ASSUME Init PROVE Ledger!Init
  OBVIOUS
<1>1. Valid = {}
  BY DEF Init, Valid
<1>2. state = Ledger!EmptyState
  BY SameApply DEF Init
<1> QED
  BY <1>1, <1>2 DEF Ledger!Init

(* Endorsing, and ordering a transaction that is refused, are invisible.    *)
LEMMA EndorseMaps ==
  ASSUME IInv, NEW tx \in TxIds, NEW c \in Call, Endorse(tx, c)
  PROVE  UNCHANGED <<state, Published>>
<1>1. /\ envelope[tx] = Nil /\ state' = state /\ chain' = chain
      /\ \A x \in TxIds \ {tx} : envelope'[x] = envelope[x]
  BY DEF Endorse, IInv, TypeOK
<1>2. Valid' = Valid
  BY <1>1 DEF Valid
<1>3. tx \notin Valid
  BY <1>1, OrderedAreTxIds DEF IInv, TypeOK, Provenance
<1> QED
  BY <1>1, <1>2, <1>3 DEF Published

LEMMA RefusedMaps ==
  ASSUME IInv, NEW tx \in TxIds, Order(tx), ValidationCode(tx) # "VALID"
  PROVE  UNCHANGED <<state, Published>>
<1>1. /\ envelope' = envelope /\ state' = state
      /\ chain' = Append(chain, [tx |-> tx, code |-> ValidationCode(tx)])
  BY DEF Order
<1>2. ValidationCode(tx) \in Codes
  BY DEF ValidationCode, Codes
<1>3. Valid' = Valid
  BY <1>1, <1>2, ChainGrows DEF IInv, TypeOK
<1> QED
  BY <1>1, <1>3 DEF Published

(* A valid transaction executes its call at once on the serial ledger.      *)
LEMMA ValidMaps ==
  ASSUME IInv, NEW tx \in TxIds, Order(tx), ValidationCode(tx) = "VALID"
  PROVE  Ledger!Next
<1> DEFINE c == envelope[tx].call
<1>1. /\ tx \notin Ordered /\ c \in Call /\ Accepts(state, c)
      /\ envelope[tx].event = Emits(state, tx, c)
      /\ state' = Apply(state, Writes(state, tx, c))
  BY ValidCommit
<1>2. envelope' = envelope /\ chain' = Append(chain, [tx |-> tx, code |-> "VALID"])
  BY DEF Order
<1>3. Valid' = Valid \cup {tx}
  BY <1>2, ChainGrows DEF IInv, TypeOK, Codes
<1>4. tx \notin Valid
  BY <1>1, OrderedAreTxIds DEF IInv, TypeOK
<1>5. Published[tx] = Nil /\ Published' = [Published EXCEPT ![tx] = Emits(state, tx, c)]
  BY <1>1, <1>2, <1>3, <1>4 DEF Published
<1>6. Ledger!Accepts(state, c)
  BY <1>1, SameAccepts
<1>7. state' = Ledger!Apply(state, Ledger!Writes(state, tx, c))
  BY <1>1, SameApply, SameWrites
<1>8. Published' = [Published EXCEPT ![tx] = Ledger!Emits(state, tx, c)]
  BY <1>5, SameWrites
<1>9. c \in Ledger!Call
  BY <1>1, SameKeys
<1> HIDE DEF c
<1>10. \E d \in Ledger!Call : Ledger!Execute(tx, d)
  BY <1>5, <1>6, <1>7, <1>8, <1>9 DEF Ledger!Execute, Published
<1> QED
  BY <1>10 DEF Ledger!Next

(* The endorse-order-validate protocol implements the serial ledger: every  *)
(* history of committed transactions is one in which they ran one at a time.*)
THEOREM Serializable == Spec => ImplementsLedger
<1>1. IInv /\ [Next]_vars => [Ledger!Next]_(Ledger!vars)
  <2> SUFFICES ASSUME IInv, [Next]_vars PROVE [Ledger!Next]_(Ledger!vars)
    OBVIOUS
  <2>1. CASE UNCHANGED vars
    BY <2>1 DEF vars, Ledger!vars, Valid
  <2>2. CASE Next
    <3>1. ASSUME NEW tx \in TxIds, NEW c \in Call, Endorse(tx, c)
          PROVE  UNCHANGED Ledger!vars
      BY <3>1, EndorseMaps DEF Ledger!vars, Published
    <3>2. ASSUME NEW tx \in TxIds, Order(tx)
          PROVE  [Ledger!Next]_(Ledger!vars)
      BY <3>2, ValidMaps, RefusedMaps DEF Ledger!vars, Published
    <3> QED
      BY <2>2, <3>1, <3>2, NextCases
  <2> QED
    BY <2>1, <2>2
<1> QED
  BY <1>1, InitMaps, Inductive, PTL DEF Spec, Ledger!Spec, ImplementsLedger


-----------------------------------------------------------------------------
(* What one accepted invocation does to one balance. *)

AmountIf(b, x) == IF b THEN x ELSE 0

(* The balance of o in t before and after an invocation that emits e: moved *)
(* as the event says, a transfer to oneself only credited.                  *)
MovedAsSaid(old, new, e, o, t) ==
  /\ new.available = old.available
       + AmountIf(e.name = "MINT" /\ e.owner = o /\ e.token = t, e.amount)
       - AmountIf(e.name = "BURN" /\ e.owner = o /\ e.token = t, e.amount)
       - AmountIf(TransferOf(e, t) /\ e.request.owner = o, e.request.amount)
       + AmountIf(TransferOf(e, t) /\ e.request.counterparty = o, e.request.amount)
       - AmountIf(PledgeOf(e, o, t, "ENCUMBRANCE"), e.request.amount)
       + AmountIf(PledgeOf(e, o, t, "UNENCUMBRANCE"), e.request.amount)
       + AmountIf(/\ TransferOf(e, t)
                  /\ e.request.owner = o /\ e.request.counterparty = o, e.request.amount)
  /\ new.encumbered = old.encumbered
       + AmountIf(PledgeOf(e, o, t, "ENCUMBRANCE"), e.request.amount)
       - AmountIf(PledgeOf(e, o, t, "UNENCUMBRANCE"), e.request.amount)

(* Written or not, the version counts it. *)
Counted(old, new, w, o, t) ==
  new.version = old.version + AmountIf(BalanceKey(o, t) \in DOMAIN w, 1)

LEMMA BalanceAfter ==
  ASSUME NEW s, NEW w, NEW o \in Owners, NEW t \in Tokens,
         BalanceKey(o, t) \in DOMAIN w => w[BalanceKey(o, t)] \in Balance
  PROVE  ReadBalance(Apply(s, w), o, t) =
           IF BalanceKey(o, t) \in DOMAIN w THEN w[BalanceKey(o, t)] ELSE ReadBalance(s, o, t)
<1>1. BalanceKey(o, t) \in Keys
  BY DEF Keys, BalanceKeys
<1>2. Apply(s, w)[BalanceKey(o, t)] =
        IF BalanceKey(o, t) \in DOMAIN w THEN w[BalanceKey(o, t)] ELSE s[BalanceKey(o, t)]
  BY <1>1, ApplyReads
<1> QED
  BY <1>2, NilAssumption DEF ReadBalance

LEMMA SupplyMoves ==
  ASSUME NEW s, Typed(s), NEW tx \in TxIds, NEW c \in Call, c.fn \in {"Mint", "Burn"},
         NEW o \in Owners, NEW t \in Tokens
  PROVE  LET w == Writes(s, tx, c)
             old == ReadBalance(s, o, t)
             new == IF BalanceKey(o, t) \in DOMAIN w THEN w[BalanceKey(o, t)] ELSE old
         IN  MovedAsSaid(old, new, Emits(s, tx, c), o, t) /\ Counted(old, new, w, o, t)
<1> DEFINE w == Writes(s, tx, c)
           e == Emits(s, tx, c)
           old == ReadBalance(s, o, t)
           new == IF BalanceKey(o, t) \in DOMAIN w THEN w[BalanceKey(o, t)] ELSE old
<1>1. c.amount \in Int
  BY CallFacts
<1>2. old.available \in Int /\ old.encumbered \in Int /\ old.version \in Int
  BY BalanceRead DEF Balance
<1>3. w = SupplyWrites(s, c)
  BY DEF Writes, RequestTypeOf
<1>4. BalanceKey(o, t) \in DOMAIN w <=> c.owner = o /\ c.token = t
  BY <1>3, KeyFacts DEF SupplyWrites
<1>5. e = [name |-> IF c.fn = "Mint" THEN "MINT" ELSE "BURN", owner |-> c.owner,
           token |-> c.token, amount |-> c.amount]
  BY DEF Emits, RequestTypeOf
<1>6. \A u, type : ~TransferOf(e, u) /\ ~PledgeOf(e, o, u, type)
  BY <1>5 DEF TransferOf, PledgeOf
<1>7. c.owner = o /\ c.token = t =>
        new = IF c.fn = "Mint" THEN Moved(old, c.amount, 0) ELSE Moved(old, -c.amount, 0)
  BY <1>3, <1>4 DEF SupplyWrites
<1>8. CASE c.owner = o /\ c.token = t
  <2>1. /\ new.available = IF c.fn = "Mint" THEN old.available + c.amount
                                            ELSE old.available - c.amount
        /\ new.encumbered = old.encumbered
        /\ new.version = old.version + 1
    BY <1>1, <1>2, <1>7, <1>8 DEF Moved
  <2>2. /\ e.owner = o /\ e.token = t /\ e.amount = c.amount
        /\ e.name = IF c.fn = "Mint" THEN "MINT" ELSE "BURN"
    BY <1>5, <1>8
  <2> HIDE DEF e, new, old, w
  <2>3. MovedAsSaid(old, new, e, o, t)
    BY <1>1, <1>2, <1>6, <2>1, <2>2 DEF MovedAsSaid, AmountIf
  <2> QED
    BY <1>2, <1>4, <1>8, <2>1, <2>3 DEF Counted, AmountIf, e, new, old, w
<1>9. CASE ~(c.owner = o /\ c.token = t)
  <2>1. new = old
    BY <1>4, <1>9
  <2>2. ~(e.owner = o /\ e.token = t)
    BY <1>5, <1>9
  <2> HIDE DEF e, new, old, w
  <2> QED
    BY <1>2, <1>4, <1>6, <1>9, <2>1, <2>2 DEF MovedAsSaid, Counted, AmountIf, e, new, old, w
<1> QED
  BY <1>8, <1>9

(* An approval moves what its request says; the request keeps its fields.   *)
LEMMA ApproveMoves ==
  ASSUME NEW s, Typed(s), RequestsSound(s), NEW tx \in TxIds, NEW c \in Call,
         c.fn = "ApproveRequest", Accepts(s, c), NEW o \in Owners, NEW t \in Tokens
  PROVE  LET w == Writes(s, tx, c)
             old == ReadBalance(s, o, t)
             new == IF BalanceKey(o, t) \in DOMAIN w THEN w[BalanceKey(o, t)] ELSE old
         IN  MovedAsSaid(old, new, Emits(s, tx, c), o, t) /\ Counted(old, new, w, o, t)
<1> DEFINE w == Writes(s, tx, c)
           e == Emits(s, tx, c)
           r == s[RequestKey(c.request)]
           old == ReadBalance(s, o, t)
           new == IF BalanceKey(o, t) \in DOMAIN w THEN w[BalanceKey(o, t)] ELSE old
           moves == IF r.type = "TRANSFER" THEN TransferWrites(s, r) ELSE PledgeWrites(s, r)
<1>1. /\ c.request \in TxIds /\ ApproveAccepts(s, c)
      /\ w = ApproveWrites(s, c.request)
      /\ e = [name |-> "APPROVED", request |-> w[RequestKey(c.request)]]
  BY CallFacts DEF Accepts, Writes, Emits, RequestTypeOf
<1>2. /\ r \in Request /\ (r.type = "TRANSFER" => r.counterparty \in Owners)
      /\ r.owner \in Owners /\ r.token \in Tokens /\ r.amount \in Int /\ r.type \in RequestTypes
  BY <1>1, PendingRequest DEF ApproveAccepts, Request
<1>3. w[RequestKey(c.request)] = [r EXCEPT !.status = "committed"]
  BY <1>1 DEF ApproveWrites
<1>4. /\ e.name = "APPROVED" /\ e.request.type = r.type /\ e.request.owner = r.owner
      /\ e.request.token = r.token /\ e.request.amount = r.amount
      /\ e.request.counterparty = r.counterparty
  BY <1>1, <1>2, <1>3 DEF Request
<1>5. /\ BalanceKey(o, t) \in DOMAIN w <=> BalanceKey(o, t) \in DOMAIN moves
      /\ BalanceKey(o, t) \in DOMAIN w => w[BalanceKey(o, t)] = moves[BalanceKey(o, t)]
  BY <1>1, KeyFacts DEF ApproveWrites
<1>6. old.available \in Int /\ old.encumbered \in Int /\ old.version \in Int
  BY BalanceRead DEF Balance
<1>7. CASE r.type = "TRANSFER"
  <2> DEFINE from == BalanceKey(r.owner, r.token)
             to == BalanceKey(r.counterparty, r.token)
  <2>1. /\ DOMAIN moves = {from, to}
        /\ moves[to] = Moved(ReadBalance(s, r.counterparty, r.token), r.amount, 0)
        /\ from # to => moves[from] = Moved(ReadBalance(s, r.owner, r.token), -r.amount, 0)
    BY <1>7 DEF TransferWrites
  <2>2. /\ TransferOf(e, t) <=> r.token = t
        /\ ~PledgeOf(e, o, t, "ENCUMBRANCE") /\ ~PledgeOf(e, o, t, "UNENCUMBRANCE")
    BY <1>4, <1>7 DEF TransferOf, PledgeOf
  <2>3. CASE r.token = t /\ r.counterparty = o
    <3>1. new = Moved(old, r.amount, 0) /\ BalanceKey(o, t) \in DOMAIN w
      BY <1>5, <2>1, <2>3
    <3>2. /\ new.available = old.available + r.amount
          /\ new.encumbered = old.encumbered
          /\ new.version = old.version + 1
      BY <1>2, <1>6, <3>1 DEF Moved
    <3> HIDE DEF e, new, old, w, r
    <3> QED
      BY <1>2, <1>4, <1>6, <2>2, <2>3, <3>1, <3>2
         DEF MovedAsSaid, Counted, AmountIf, e, new, old, w, r
  <2>4. CASE r.token = t /\ r.counterparty # o /\ r.owner = o
    <3>1. new = Moved(old, -r.amount, 0) /\ BalanceKey(o, t) \in DOMAIN w
      BY <1>5, <2>1, <2>4, KeyFacts
    <3>2. /\ new.available = old.available - r.amount
          /\ new.encumbered = old.encumbered
          /\ new.version = old.version + 1
      BY <1>2, <1>6, <3>1 DEF Moved
    <3> HIDE DEF e, new, old, w, r
    <3> QED
      BY <1>2, <1>4, <1>6, <2>2, <2>4, <3>1, <3>2
         DEF MovedAsSaid, Counted, AmountIf, e, new, old, w, r
  <2>5. CASE r.token # t \/ (r.counterparty # o /\ r.owner # o)
    <3>1. new = old /\ BalanceKey(o, t) \notin DOMAIN w
      BY <1>5, <2>1, <2>5, KeyFacts
    <3> HIDE DEF e, new, old, w, r
    <3> QED
      BY <1>2, <1>4, <1>6, <2>2, <2>5, <3>1
         DEF MovedAsSaid, Counted, AmountIf, e, new, old, w, r
  <2> QED
    BY <2>3, <2>4, <2>5
<1>8. CASE r.type # "TRANSFER"
  <2>1. r.type \in {"ENCUMBRANCE", "UNENCUMBRANCE"}
    BY <1>2, <1>8 DEF RequestTypes
  <2> DEFINE pledged == IF r.type = "ENCUMBRANCE" THEN r.amount ELSE -r.amount
  <2>2. /\ DOMAIN moves = {BalanceKey(r.owner, r.token)}
        /\ moves[BalanceKey(r.owner, r.token)] =
             Moved(ReadBalance(s, r.owner, r.token), -pledged, pledged)
    BY <1>8 DEF PledgeWrites
  <2>3. /\ ~TransferOf(e, t)
        /\ \A type : PledgeOf(e, o, t, type) <=> r.type = type /\ r.owner = o /\ r.token = t
    BY <1>4, <1>8 DEF TransferOf, PledgeOf
  <2>4. CASE r.owner = o /\ r.token = t
    <3>1. new = Moved(old, -pledged, pledged) /\ BalanceKey(o, t) \in DOMAIN w
      BY <1>5, <2>2, <2>4
    <3>2. /\ new.available = old.available - pledged
          /\ new.encumbered = old.encumbered + pledged
          /\ new.version = old.version + 1
      BY <1>2, <1>6, <3>1 DEF Moved
    <3>3. /\ r.type = "ENCUMBRANCE" => pledged = r.amount
          /\ r.type = "UNENCUMBRANCE" => pledged = -r.amount
      BY <2>1
    <3> HIDE DEF e, new, old, w, r, pledged
    <3>4. CASE r.type = "ENCUMBRANCE"
      BY <1>2, <1>4, <1>6, <2>3, <2>4, <3>1, <3>2, <3>3, <3>4
         DEF MovedAsSaid, Counted, AmountIf, e, new, old, w, r
    <3>5. CASE r.type = "UNENCUMBRANCE"
      BY <1>2, <1>4, <1>6, <2>3, <2>4, <3>1, <3>2, <3>3, <3>5
         DEF MovedAsSaid, Counted, AmountIf, e, new, old, w, r
    <3> QED
      BY <2>1, <3>4, <3>5
  <2>5. CASE ~(r.owner = o /\ r.token = t)
    <3>1. new = old /\ BalanceKey(o, t) \notin DOMAIN w
      BY <1>5, <2>2, <2>5, KeyFacts
    <3> HIDE DEF e, new, old, w, r
    <3> QED
      BY <1>2, <1>4, <1>6, <2>3, <2>5, <3>1
         DEF MovedAsSaid, Counted, AmountIf, e, new, old, w, r
  <2> QED
    BY <2>4, <2>5
<1> QED
  BY <1>7, <1>8

LEMMA OtherMoves ==
  ASSUME NEW s, Typed(s), NEW tx \in TxIds, NEW c \in Call,
         c.fn \in DOMAIN RequestTypeOf \cup {"SetNAV", "RejectRequest"},
         NEW o \in Owners, NEW t \in Tokens
  PROVE  LET w == Writes(s, tx, c)
             old == ReadBalance(s, o, t)
         IN  /\ MovedAsSaid(old, old, Emits(s, tx, c), o, t) /\ Counted(old, old, w, o, t)
             /\ BalanceKey(o, t) \notin DOMAIN w
<1> DEFINE w == Writes(s, tx, c)
           e == Emits(s, tx, c)
           old == ReadBalance(s, o, t)
<1>1. BalanceKey(o, t) \notin DOMAIN w
  <2>1. CASE c.fn = "SetNAV"
    BY <2>1, KeyFacts DEF Writes, RequestTypeOf
  <2>2. CASE c.fn \in DOMAIN RequestTypeOf
    BY <2>2, KeyFacts DEF Writes, RequestTypeOf
  <2>3. CASE c.fn = "RejectRequest"
    <3>1. w = RejectWrites(s, c.request)
      BY <2>3 DEF Writes, RequestTypeOf
    <3> QED
      BY <3>1, KeyFacts DEF RejectWrites
  <2> QED
    BY <2>1, <2>2, <2>3
<1>2. e.name \in {"NAV_UPDATED", "REQUESTED", "REJECTED"}
  BY DEF Emits, RequestTypeOf
<1>3. \A u, type : ~TransferOf(e, u) /\ ~PledgeOf(e, o, u, type)
  BY <1>2 DEF TransferOf, PledgeOf
<1>4. old.available \in Int /\ old.encumbered \in Int /\ old.version \in Int
  BY BalanceRead DEF Balance
<1> HIDE DEF e, old, w
<1> QED
  BY <1>1, <1>2, <1>3, <1>4 DEF MovedAsSaid, Counted, AmountIf, e, old, w

(* Whatever an accepted invocation is, each balance moves by what its event *)
(* announces, and its version counts the write.                             *)
LEMMA EveryMoveIsAnnounced ==
  ASSUME NEW s, Typed(s), RequestsSound(s), NEW tx \in TxIds, NEW c \in Call, Accepts(s, c),
         NEW o \in Owners, NEW t \in Tokens
  PROVE  LET w == Writes(s, tx, c)
             old == ReadBalance(s, o, t)
             new == ReadBalance(Apply(s, w), o, t)
         IN  MovedAsSaid(old, new, Emits(s, tx, c), o, t) /\ Counted(old, new, w, o, t)
<1> DEFINE w == Writes(s, tx, c)
           old == ReadBalance(s, o, t)
<1>1. BalanceKey(o, t) \in DOMAIN w => w[BalanceKey(o, t)] \in Balance
  BY AcceptedWriteSet DEF WriteSetSound
<1>2. ReadBalance(Apply(s, w), o, t) =
        IF BalanceKey(o, t) \in DOMAIN w THEN w[BalanceKey(o, t)] ELSE old
  BY <1>1, BalanceAfter
<1> HIDE DEF w, old
<1>3. CASE c.fn \in {"Mint", "Burn"}
  BY <1>2, <1>3, SupplyMoves DEF w, old
<1>4. CASE c.fn = "ApproveRequest"
  BY <1>2, <1>4, ApproveMoves DEF w, old
<1>5. CASE c.fn \in DOMAIN RequestTypeOf \cup {"SetNAV", "RejectRequest"}
  BY <1>2, <1>5, OtherMoves DEF w, old
<1> QED
  BY <1>3, <1>4, <1>5, CallFacts DEF RequestTypeOf

(* A request is written by the transaction that carries its id, and again by *)
(* the decision about it.                                                    *)
LEMMA RequestAfter ==
  ASSUME NEW s, Typed(s), RequestsSound(s), NEW tx \in TxIds, NEW c \in Call, Accepts(s, c),
         NEW r \in TxIds
  PROVE  LET key == RequestKey(r)
         IN  Apply(s, Writes(s, tx, c))[key] =
               IF c.fn \in DOMAIN RequestTypeOf /\ tx = r THEN NewRequest(r, c)
               ELSE IF c.fn = "ApproveRequest" /\ c.request = r
                 THEN [s[key] EXCEPT !.status = "committed"]
               ELSE IF c.fn = "RejectRequest" /\ c.request = r
                 THEN [s[key] EXCEPT !.status = "cancelled"]
               ELSE s[key]
<1> DEFINE key == RequestKey(r)
           w == Writes(s, tx, c)
<1>1. Apply(s, w)[key] = IF key \in DOMAIN w THEN w[key] ELSE s[key]
  <2>1. key \in Keys
    BY DEF Keys, RequestKeys
  <2> QED
    BY <2>1, ApplyReads
<1>2. CASE c.fn \in {"Mint", "Burn"}
  <2>1. w = SupplyWrites(s, c)
    BY <1>2 DEF Writes, RequestTypeOf
  <2>2. key \notin DOMAIN w
    BY <2>1, KeyFacts DEF SupplyWrites
  <2> QED
    BY <1>1, <1>2, <2>2 DEF RequestTypeOf
<1>3. CASE c.fn = "SetNAV"
  <2>1. key \notin DOMAIN w
    BY <1>3, KeyFacts DEF Writes, RequestTypeOf
  <2> QED
    BY <1>1, <1>3, <2>1 DEF RequestTypeOf
<1>4. CASE c.fn \in DOMAIN RequestTypeOf
  <2>1. w = [k \in {RequestKey(tx)} |-> NewRequest(tx, c)]
    BY <1>4 DEF Writes, RequestTypeOf
  <2>2. c.fn # "ApproveRequest" /\ c.fn # "RejectRequest"
    BY <1>4 DEF RequestTypeOf
  <2> QED
    BY <1>1, <1>4, <2>1, <2>2, KeyFacts
<1>5. CASE c.fn = "ApproveRequest"
  <2> DEFINE q == s[RequestKey(c.request)]
             moves == IF q.type = "TRANSFER" THEN TransferWrites(s, q) ELSE PledgeWrites(s, q)
  <2>1. /\ c.request \in TxIds /\ ApproveAccepts(s, c) /\ w = ApproveWrites(s, c.request)
    BY <1>5, CallFacts DEF Accepts, Writes, RequestTypeOf
  <2>2. key \notin DOMAIN moves
    BY KeyFacts DEF TransferWrites, PledgeWrites
  <2>3. DOMAIN w = {RequestKey(c.request)} \cup DOMAIN moves
        /\ w[RequestKey(c.request)] = [q EXCEPT !.status = "committed"]
    BY <2>1 DEF ApproveWrites
  <2> HIDE DEF moves, w
  <2>4. Apply(s, w)[key] = IF c.request = r THEN [q EXCEPT !.status = "committed"] ELSE s[key]
    BY <1>1, <2>2, <2>3, KeyFacts
  <2> QED
    BY <1>5, <2>4 DEF RequestTypeOf, w
<1>6. CASE c.fn = "RejectRequest"
  <2>1. w = RejectWrites(s, c.request)
    BY <1>6 DEF Writes, RequestTypeOf
  <2>2. Apply(s, w)[key] =
          IF c.request = r THEN [s[key] EXCEPT !.status = "cancelled"] ELSE s[key]
    BY <1>1, <2>1, KeyFacts DEF RejectWrites
  <2> HIDE DEF w
  <2> QED
    BY <1>6, <2>2 DEF RequestTypeOf, w
<1> QED
  BY <1>2, <1>3, <1>4, <1>5, <1>6, CallFacts DEF RequestTypeOf

-----------------------------------------------------------------------------
(* What a step does to the ledger and the valid transactions. *)

(* Nothing that has been committed changes. *)
Quiet ==
  /\ state' = state
  /\ Valid' = Valid
  /\ \A x \in Valid : envelope'[x] = envelope[x]

(* tx commits: its call, accepted by the current state, takes effect on it.  *)
Commit(tx) ==
  /\ tx \notin Valid /\ Valid' = Valid \cup {tx}
  /\ envelope' = envelope
  /\ chain'[Len(chain')].tx = tx
  /\ envelope[tx].call \in Call /\ Accepts(state, envelope[tx].call)
  /\ envelope[tx].writes = Writes(state, tx, envelope[tx].call)
  /\ envelope[tx].event = Emits(state, tx, envelope[tx].call)
  /\ state' = Apply(state, Writes(state, tx, envelope[tx].call))

LEMMA StepCases ==
  ASSUME IInv, [Next]_vars
  PROVE  Quiet \/ \E tx \in TxIds : Commit(tx)
<1>1. ASSUME NEW tx \in TxIds, NEW c \in Call, Endorse(tx, c)
      PROVE  Quiet
  <2>1. /\ envelope[tx] = Nil /\ state' = state /\ chain' = chain
        /\ \A x \in TxIds \ {tx} : envelope'[x] = envelope[x]
    BY <1>1 DEF Endorse, IInv, TypeOK
  <2>2. tx \notin Valid /\ Valid \subseteq TxIds
    BY <2>1, OrderedAreTxIds DEF IInv, TypeOK, Provenance
  <2> QED
    BY <2>1, <2>2 DEF Quiet, Valid
<1>2. ASSUME NEW tx \in TxIds, Order(tx), ValidationCode(tx) # "VALID"
      PROVE  Quiet
  <2>1. /\ envelope' = envelope /\ state' = state
        /\ chain' = Append(chain, [tx |-> tx, code |-> ValidationCode(tx)])
    BY <1>2 DEF Order
  <2>2. ValidationCode(tx) \in Codes
    BY DEF ValidationCode, Codes
  <2>3. Valid' = Valid
    BY <1>2, <2>1, <2>2, ChainGrows DEF IInv, TypeOK
  <2> QED
    BY <2>1, <2>3 DEF Quiet
<1>3. ASSUME NEW tx \in TxIds, Order(tx), ValidationCode(tx) = "VALID"
      PROVE  Commit(tx)
  <2>1. envelope' = envelope /\ chain' = Append(chain, [tx |-> tx, code |-> "VALID"])
    BY <1>3 DEF Order
  <2>2. Valid' = Valid \cup {tx} /\ chain'[Len(chain')].tx = tx
    BY <2>1, ChainGrows DEF IInv, TypeOK, Codes
  <2>3. /\ tx \notin Ordered
        /\ envelope[tx].call \in Call /\ Accepts(state, envelope[tx].call)
        /\ envelope[tx].writes = Writes(state, tx, envelope[tx].call)
        /\ envelope[tx].event = Emits(state, tx, envelope[tx].call)
        /\ state' = Apply(state, Writes(state, tx, envelope[tx].call))
    BY <1>3, ValidCommit
  <2>4. tx \notin Valid
    BY <2>3, OrderedAreTxIds DEF IInv, TypeOK
  <2> QED
    BY <2>1, <2>2, <2>3, <2>4 DEF Commit
<1>4. CASE UNCHANGED vars
  BY <1>4 DEF vars, Quiet, Valid
<1> QED
  BY <1>1, <1>2, <1>3, <1>4, NextCases

-----------------------------------------------------------------------------
(* The invariant. *)

(* The requests on the ledger are those that valid transactions made, in    *)
(* their investor's name, and nothing about them has changed but the status.*)
Recorded ==
  \A r \in TxIds :
    LET q == state[RequestKey(r)]
        c == envelope[r].call
    IN  /\ q # Nil <=> r \in Valid /\ c.fn \in DOMAIN RequestTypeOf
        /\ q # Nil => /\ RequestAccepts(c)
                      /\ \E st \in Statuses : q = [NewRequest(r, c) EXCEPT !.status = st]

(* A status is that of the one decision among the valid transactions.        *)
DecidedBy(q, approvals, rejections) ==
  \/ (q = Nil \/ q.status = "requested") /\ approvals = {} /\ rejections = {}
  \/ /\ q # Nil /\ q.status = "committed"
     /\ \E tx \in approvals : approvals = {tx}
     /\ rejections = {}
  \/ /\ q # Nil /\ q.status = "cancelled"
     /\ approvals = {}
     /\ \E tx \in rejections : rejections = {tx}

DecidedOnce ==
  \A r \in TxIds :
    DecidedBy(state[RequestKey(r)],
              Decisions(r, "ApproveRequest"), Decisions(r, "RejectRequest"))

Writers(o, t) == {tx \in Valid : BalanceKey(o, t) \in DOMAIN envelope[tx].writes}

VersionsCounted ==
  /\ IsFiniteSet(Valid)
  /\ \A o \in Owners, t \in Tokens :
       ReadBalance(state, o, t).version = Cardinality(Writers(o, t))

Accounted == Recorded /\ DecidedOnce /\ VersionsCounted

LEMMA InitAccounted == Init => Accounted
<1> SUFFICES ASSUME Init PROVE Accounted
  OBVIOUS
<1>1. Valid = {}
  BY DEF Init, Valid
<1>2. \A r \in TxIds : state[RequestKey(r)] = Nil
  BY DEF Init, EmptyState, Keys, RequestKeys
<1>3. Recorded
  BY <1>1, <1>2 DEF Recorded
<1>4. DecidedOnce
  BY <1>1, <1>2 DEF DecidedOnce, DecidedBy, Decisions
<1>5. \A o \in Owners, t \in Tokens : ReadBalance(state, o, t).version = 0
  BY DEF Init, EmptyState, Keys, BalanceKeys, ReadBalance
<1>6. VersionsCounted
  BY <1>1, <1>5, FS_EmptySet DEF VersionsCounted, Writers
<1> QED
  BY <1>3, <1>4, <1>6 DEF Accounted

LEMMA QuietKeepsAccounted ==
  ASSUME Accounted, Quiet
  PROVE  Accounted'
<1>1. \A r, fn : Decisions(r, fn)' = Decisions(r, fn)
  BY DEF Quiet, Decisions
<1>2. \A o, t : Writers(o, t)' = Writers(o, t)
  BY DEF Quiet, Writers
<1>3. Recorded'
  BY DEF Accounted, Recorded, Quiet
<1>4. DecidedOnce'
  BY <1>1 DEF Accounted, DecidedOnce, Quiet
<1>5. VersionsCounted'
  BY <1>2 DEF Accounted, VersionsCounted, Quiet
<1> QED
  BY <1>3, <1>4, <1>5 DEF Accounted

(* The request of r after tx committed. *)
LEMMA RequestCommitted ==
  ASSUME IInv, NEW tx \in TxIds, Commit(tx), NEW r \in TxIds
  PROVE  LET q == state[RequestKey(r)]
             c == envelope[tx].call
         IN  state'[RequestKey(r)] =
               IF c.fn \in DOMAIN RequestTypeOf /\ tx = r THEN NewRequest(r, c)
               ELSE IF c.fn = "ApproveRequest" /\ c.request = r
                 THEN [q EXCEPT !.status = "committed"]
               ELSE IF c.fn = "RejectRequest" /\ c.request = r
                 THEN [q EXCEPT !.status = "cancelled"]
               ELSE q
<1> DEFINE c == envelope[tx].call
<1>1. c \in Call /\ Accepts(state, c) /\ state' = Apply(state, Writes(state, tx, c))
  BY DEF Commit
<1>2. Typed(state) /\ RequestsSound(state)
  BY DEF IInv, TypeOK
<1> HIDE DEF c
<1> QED
  BY <1>1, <1>2, RequestAfter DEF c

(* A decision is about a request that is pending on the ledger. *)
LEMMA DecisionPending ==
  ASSUME IInv, NEW tx \in TxIds, Commit(tx),
         envelope[tx].call.fn \in {"ApproveRequest", "RejectRequest"}
  PROVE  LET r == envelope[tx].call.request
         IN  /\ r \in TxIds
             /\ state[RequestKey(r)] # Nil
             /\ state[RequestKey(r)].status = "requested"
             /\ state[RequestKey(r)] \in Request
<1> DEFINE c == envelope[tx].call
<1>1. c \in Call /\ Accepts(state, c)
  BY DEF Commit
<1>2. c.request \in TxIds
  BY <1>1, CallFacts
<1>3. IsPending(state, c.request)
  BY <1>1 DEF Accepts, ApproveAccepts, RejectAccepts, RequestTypeOf
<1>4. Typed(state) /\ RequestsSound(state)
  BY DEF IInv, TypeOK
<1> QED
  BY <1>2, <1>3, <1>4, PendingRequest DEF IsPending

LEMMA NewRequestType ==
  ASSUME NEW tx \in TxIds, NEW c \in Call, c.fn \in DOMAIN RequestTypeOf
  PROVE  /\ NewRequest(tx, c) \in Request
         /\ NewRequest(tx, c) # Nil
         /\ NewRequest(tx, c).status = "requested"
         /\ NewRequest(tx, c) = [NewRequest(tx, c) EXCEPT !.status = "requested"]
<1>1. /\ c.caller \in Identities /\ c.owner \in Owners /\ c.token \in Tokens
      /\ c.amount \in Int /\ c.to \in Owners \cup {Nil}
  BY CallFacts
<1>2. RequestTypeOf[c.fn] \in RequestTypes
  BY DEF RequestTypeOf, RequestTypes
<1>3. NewRequest(tx, c) \in Request
  BY <1>1, <1>2 DEF NewRequest, Request, Statuses
<1>4. NewRequest(tx, c) # Nil
  BY <1>3, NilAssumption
<1> QED
  BY <1>3, <1>4 DEF NewRequest

LEMMA CommitKeepsRecorded ==
  ASSUME IInv, Recorded, NEW tx \in TxIds, Commit(tx)
  PROVE  Recorded'
<1> DEFINE c == envelope[tx].call
<1>1. c \in Call /\ Accepts(state, c) /\ tx \notin Valid /\ Valid' = Valid \cup {tx}
      /\ envelope' = envelope
  BY DEF Commit
<1> SUFFICES ASSUME NEW r \in TxIds
             PROVE  LET q == state'[RequestKey(r)]
                        d == envelope[r].call
                    IN  /\ q # Nil <=> r \in Valid \cup {tx} /\ d.fn \in DOMAIN RequestTypeOf
                        /\ q # Nil => /\ RequestAccepts(d)
                                      /\ \E st \in Statuses :
                                           q = [NewRequest(r, d) EXCEPT !.status = st]
  BY <1>1 DEF Recorded
<1> DEFINE q == state[RequestKey(r)]
           d == envelope[r].call
<1>2. /\ q # Nil <=> r \in Valid /\ d.fn \in DOMAIN RequestTypeOf
      /\ q # Nil => /\ RequestAccepts(d)
                    /\ \E st \in Statuses : q = [NewRequest(r, d) EXCEPT !.status = st]
  BY DEF Recorded
<1>3. CASE c.fn \in DOMAIN RequestTypeOf /\ tx = r
  <2>1. state'[RequestKey(r)] = NewRequest(r, c)
    BY <1>3, RequestCommitted
  <2>2. RequestAccepts(c)
    BY <1>1, <1>3 DEF Accepts, RequestTypeOf
  <2>3. /\ NewRequest(r, c) # Nil
        /\ NewRequest(r, c) = [NewRequest(r, c) EXCEPT !.status = "requested"]
    BY <1>1, <1>3, NewRequestType
  <2> HIDE DEF c
  <2> QED
    BY <1>3, <2>1, <2>2, <2>3 DEF Statuses, c
<1>4. CASE c.fn \in {"ApproveRequest", "RejectRequest"} /\ c.request = r
  <2>1. q # Nil /\ q \in Request
    BY <1>4, DecisionPending
  <2>2. PICK st \in {"committed", "cancelled"} :
          state'[RequestKey(r)] = [q EXCEPT !.status = st]
    BY <1>4, RequestCommitted DEF RequestTypeOf
  <2>3. [q EXCEPT !.status = st] # Nil
    <3>1. st \in Statuses
      BY DEF Statuses
    <3> HIDE DEF q
    <3>2. [q EXCEPT !.status = st] \in Request
      BY <2>1, <3>1, StatusChange, Zenon
    <3> QED
      BY <3>2, NilAssumption
  <2>4. r \in Valid /\ d.fn \in DOMAIN RequestTypeOf /\ RequestAccepts(d)
    BY <1>2, <2>1
  <2>5. [q EXCEPT !.status = st] = [NewRequest(r, d) EXCEPT !.status = st]
    BY <1>2, <2>1 DEF NewRequest
  <2> QED
    BY <2>2, <2>3, <2>4, <2>5 DEF Statuses
<1>5. CASE /\ ~(c.fn \in DOMAIN RequestTypeOf /\ tx = r)
           /\ ~(c.fn \in {"ApproveRequest", "RejectRequest"} /\ c.request = r)
  <2>1. state'[RequestKey(r)] = q
    BY <1>5, RequestCommitted
  <2>2. r \in Valid /\ d.fn \in DOMAIN RequestTypeOf
          <=> r \in Valid \cup {tx} /\ d.fn \in DOMAIN RequestTypeOf
    BY <1>5
  <2> QED
    BY <1>2, <2>1, <2>2
<1> QED
  BY <1>3, <1>4, <1>5

LEMMA CommitKeepsDecided ==
  ASSUME IInv, Recorded, DecidedOnce, NEW tx \in TxIds, Commit(tx)
  PROVE  DecidedOnce'
<1> DEFINE c == envelope[tx].call
           A(r) == Decisions(r, "ApproveRequest")
           R(r) == Decisions(r, "RejectRequest")
<1>1. c \in Call /\ tx \notin Valid /\ Valid' = Valid \cup {tx} /\ envelope' = envelope
  BY DEF Commit
<1>2. \A r, fn : Decisions(r, fn)' =
                   IF c.fn = fn /\ c.request = r THEN Decisions(r, fn) \cup {tx}
                                                 ELSE Decisions(r, fn)
  BY <1>1 DEF Decisions
<1> SUFFICES ASSUME NEW r \in TxIds
             PROVE  DecidedBy(state'[RequestKey(r)], A(r)', R(r)')
  BY DEF DecidedOnce
<1> DEFINE q == state[RequestKey(r)]
<1>3. DecidedBy(q, A(r), R(r))
  BY DEF DecidedOnce
<1>4. CASE c.fn \in {"ApproveRequest", "RejectRequest"} /\ c.request = r
  <2>1. q # Nil /\ q.status = "requested" /\ q \in Request
    BY <1>4, DecisionPending
  <2>2. A(r) = {} /\ R(r) = {}
    BY <1>3, <2>1 DEF DecidedBy
  <2>3. \A st \in Statuses : [q EXCEPT !.status = st] # Nil /\ [q EXCEPT !.status = st].status = st
    BY <2>1, StatusChange, NilAssumption DEF Request
  <2>4. CASE c.fn = "ApproveRequest"
    <3>1. A(r)' = {tx} /\ R(r)' = {}
      BY <1>2, <1>4, <2>2, <2>4
    <3>2. state'[RequestKey(r)] = [q EXCEPT !.status = "committed"]
      BY <1>4, <2>4, RequestCommitted DEF RequestTypeOf
    <3> QED
      BY <2>3, <3>1, <3>2 DEF DecidedBy, Statuses
  <2>5. CASE c.fn = "RejectRequest"
    <3>1. A(r)' = {} /\ R(r)' = {tx}
      BY <1>2, <1>4, <2>2, <2>5
    <3>2. state'[RequestKey(r)] = [q EXCEPT !.status = "cancelled"]
      BY <1>4, <2>5, RequestCommitted DEF RequestTypeOf
    <3> QED
      BY <2>3, <3>1, <3>2 DEF DecidedBy, Statuses
  <2> QED
    BY <1>4, <2>4, <2>5
<1>5. CASE ~(c.fn \in {"ApproveRequest", "RejectRequest"} /\ c.request = r)
  <2>1. A(r)' = A(r) /\ R(r)' = R(r)
    BY <1>2, <1>5
  <2>2. CASE c.fn \in DOMAIN RequestTypeOf /\ tx = r
    <3>1. state'[RequestKey(r)] = NewRequest(r, c) /\ NewRequest(r, c).status = "requested"
      BY <1>1, <2>2, RequestCommitted, NewRequestType
    <3>2. q = Nil
      BY <1>1, <2>2 DEF Recorded
    <3>3. A(r) = {} /\ R(r) = {}
      BY <1>3, <3>2 DEF DecidedBy
    <3> HIDE DEF c, A, R
    <3> QED
      BY <2>1, <3>1, <3>3 DEF DecidedBy
  <2>3. CASE ~(c.fn \in DOMAIN RequestTypeOf /\ tx = r)
    <3>1. state'[RequestKey(r)] = q
      BY <1>5, <2>3, RequestCommitted
    <3> HIDE DEF A, R
    <3> QED
      BY <1>3, <2>1, <3>1
  <2> QED
    BY <2>2, <2>3
<1> QED
  BY <1>4, <1>5

LEMMA CommitKeepsVersions ==
  ASSUME IInv, VersionsCounted, NEW tx \in TxIds, Commit(tx)
  PROVE  VersionsCounted'
<1> DEFINE c == envelope[tx].call
           w == Writes(state, tx, c)
<1>1. /\ c \in Call /\ Accepts(state, c) /\ state' = Apply(state, w)
      /\ envelope[tx].writes = w
      /\ tx \notin Valid /\ Valid' = Valid \cup {tx} /\ envelope' = envelope
  BY DEF Commit
<1>2. Typed(state) /\ RequestsSound(state)
  BY DEF IInv, TypeOK
<1>3. IsFiniteSet(Valid) /\ IsFiniteSet(Valid')
  BY <1>1, FS_AddElement DEF VersionsCounted
<1>4. ASSUME NEW o \in Owners, NEW t \in Tokens
      PROVE  ReadBalance(state', o, t).version = Cardinality(Writers(o, t)')
  <2> DEFINE old == ReadBalance(state, o, t)
             new == ReadBalance(state', o, t)
             W == Writers(o, t)
  <2> HIDE DEF w, c
  <2>1. Counted(old, new, w, o, t)
    BY <1>1, <1>2, EveryMoveIsAnnounced DEF w, c
  <2>2. old.version \in Int /\ old.version = Cardinality(W)
    BY <1>2, BalanceRead DEF VersionsCounted, Balance
  <2>3. W' = IF BalanceKey(o, t) \in DOMAIN w THEN W \cup {tx} ELSE W
    BY <1>1 DEF Writers
  <2>4. IsFiniteSet(W) /\ tx \notin W
    <3>1. W \subseteq Valid
      BY DEF Writers
    <3> QED
      BY <1>1, <1>3, <3>1, FS_Subset
  <2>5. Cardinality(W \cup {tx}) = Cardinality(W) + 1
    BY <2>4, FS_AddElement
  <2> HIDE DEF old, new, W
  <2> QED
    BY <2>1, <2>2, <2>3, <2>5 DEF Counted, AmountIf, new, W
<1> QED
  BY <1>3, <1>4 DEF VersionsCounted

LEMMA NextKeepsAccounted == IInv /\ Accounted /\ [Next]_vars => Accounted'
<1> SUFFICES ASSUME IInv, Accounted, [Next]_vars PROVE Accounted'
  OBVIOUS
<1>1. ASSUME NEW tx \in TxIds, Commit(tx) PROVE Accounted'
  BY <1>1, CommitKeepsRecorded, CommitKeepsDecided, CommitKeepsVersions DEF Accounted
<1> QED
  BY <1>1, StepCases, QuietKeepsAccounted

THEOREM AlwaysAccounted == Spec => []Accounted
  BY InitAccounted, NextKeepsAccounted, Inductive, PTL DEF Spec

-----------------------------------------------------------------------------
(* The results. *)

(* The status of every request is what the chain says: one valid approval,  *)
(* one valid rejection, or neither.                                         *)
THEOREM SettledByChain == Spec => []SettlementMatchesChain
<1>1. Accounted => SettlementMatchesChain
  <2> SUFFICES ASSUME Accounted, NEW r \in TxIds
               PROVE  LET approvals == Cardinality(Decisions(r, "ApproveRequest"))
                          rejections == Cardinality(Decisions(r, "RejectRequest"))
                      IN  IF state[RequestKey(r)] = Nil
                            THEN /\ approvals = 0 /\ rejections = 0
                                 /\ r \in Valid => envelope[r].call.fn \notin DOMAIN RequestTypeOf
                            ELSE /\ r \in Valid
                                 /\ <<state[RequestKey(r)].status, approvals, rejections>> \in
                                      {<<"requested", 0, 0>>, <<"committed", 1, 0>>,
                                       <<"cancelled", 0, 1>>}
    BY DEF SettlementMatchesChain
  <2> DEFINE q == state[RequestKey(r)]
             A == Decisions(r, "ApproveRequest")
             R == Decisions(r, "RejectRequest")
  <2>1. DecidedBy(q, A, R)
    BY DEF Accounted, DecidedOnce
  <2>2. q # Nil <=> r \in Valid /\ envelope[r].call.fn \in DOMAIN RequestTypeOf
    BY DEF Accounted, Recorded
  <2>3. Cardinality({}) = 0 /\ \A x : Cardinality({x}) = 1
    BY FS_EmptySet, FS_Singleton
  <2> HIDE DEF q, A, R
  <2> QED
    BY <2>1, <2>2, <2>3 DEF DecidedBy, q, A, R
<1> QED
  BY <1>1, AlwaysAccounted, PTL

(* No update is lost: the version of a balance is the number of valid       *)
(* transactions that wrote it.                                              *)
THEOREM NoLostUpdate == Spec => []VersionCountsWrites
<1>1. Accounted => VersionCountsWrites
  BY DEF Accounted, VersionsCounted, VersionCountsWrites, Writers
<1> QED
  BY <1>1, AlwaysAccounted, PTL

(* Only a burn, or a transfer approved, takes from what an owner holds.      *)
LEMMA DebitFrom ==
  ASSUME NEW s, Typed(s), RequestsSound(s), NEW tx \in TxIds, NEW c \in Call, Accepts(s, c),
         NEW o \in Owners, NEW t \in Tokens,
         Holding(Apply(s, Writes(s, tx, c)), o, t) < Holding(s, o, t)
  PROVE  /\ c.caller \in Custodians
         /\ \/ c.fn = "Burn" /\ c.owner = o
            \/ /\ c.fn = "ApproveRequest"
               /\ s[RequestKey(c.request)].type = "TRANSFER"
               /\ s[RequestKey(c.request)].owner = o
<1> DEFINE e == Emits(s, tx, c)
           old == ReadBalance(s, o, t)
           new == ReadBalance(Apply(s, Writes(s, tx, c)), o, t)
<1>1. MovedAsSaid(old, new, e, o, t)
  BY EveryMoveIsAnnounced
<1>2. old \in Balance
  BY BalanceRead
<1>3. new.available + new.encumbered < old.available + old.encumbered
  BY DEF Holding
<1>4. e.name \in {"MINT", "BURN"} => e.amount \in Int /\ e.amount > 0
  <2>1. e.name \in {"MINT", "BURN"} => c.fn \in {"Mint", "Burn"}
    BY CallFacts DEF Emits, RequestTypeOf
  <2>2. c.fn \in {"Mint", "Burn"} => e.amount = c.amount
    BY DEF Emits, RequestTypeOf
  <2>3. c.fn \in {"Mint", "Burn"} => c.amount \in Int /\ c.amount > 0
    BY CallFacts DEF Accepts, MintAccepts, BurnAccepts, RequestTypeOf
  <2> QED
    BY <2>1, <2>2, <2>3
<1>5. ASSUME e.name = "APPROVED"
      PROVE  /\ c.fn = "ApproveRequest" /\ ApproveAccepts(s, c)
             /\ e.request = [s[RequestKey(c.request)] EXCEPT !.status = "committed"]
             /\ s[RequestKey(c.request)] \in Request /\ s[RequestKey(c.request)].amount > 0
  <2>1. c.fn = "ApproveRequest"
    BY <1>5, CallFacts DEF Emits, RequestTypeOf
  <2>2. ApproveAccepts(s, c) /\ c.request \in TxIds
    BY <2>1, CallFacts DEF Accepts, RequestTypeOf
  <2>3. e.request = [s[RequestKey(c.request)] EXCEPT !.status = "committed"]
    BY <2>1 DEF Emits, RequestTypeOf, ApproveWrites
  <2> QED
    BY <2>1, <2>2, <2>3, PendingRequest DEF ApproveAccepts
<1>6. e.name = "APPROVED" => /\ e.request.amount \in Int /\ e.request.amount > 0
                             /\ e.request.type = s[RequestKey(c.request)].type
                             /\ e.request.owner = s[RequestKey(c.request)].owner
  BY <1>5 DEF Request
<1>7. \/ e.name = "BURN" /\ e.owner = o
      \/ TransferOf(e, t) /\ e.request.owner = o
  <2> HIDE DEF e, old, new
  <2> QED
    BY <1>1, <1>2, <1>3, <1>4, <1>6
       DEF MovedAsSaid, AmountIf, TransferOf, PledgeOf, Balance
<1>8. CASE e.name = "BURN" /\ e.owner = o
  <2>1. c.fn = "Burn"
    BY <1>8, CallFacts DEF Emits, RequestTypeOf
  <2>2. c.owner = o
    BY <1>8, <2>1 DEF Emits, RequestTypeOf
  <2> QED
    BY <2>1, <2>2 DEF Accepts, BurnAccepts, requireCustodian, RequestTypeOf
<1>9. CASE TransferOf(e, t) /\ e.request.owner = o
  <2>1. e.name = "APPROVED" /\ e.request.type = "TRANSFER"
    BY <1>9 DEF TransferOf
  <2> HIDE DEF e
  <2> QED
    BY <1>5, <1>6, <1>9, <2>1 DEF ApproveAccepts, requireCustodian
<1> QED
  BY <1>7, <1>8, <1>9

(* Nobody loses tokens but by a custodian's burn, or by a transfer the owner *)
(* itself asked for in an earlier valid transaction and a custodian approves.*)
THEOREM DebitsAuthorised == Spec => DebitsAreAuthorised
<1> DEFINE Authorised(o) ==
      LET c == envelope[chain'[Len(chain')].tx].call
      IN  /\ c.caller \in Custodians
          /\ \/ c.fn = "Burn" /\ c.owner = o
             \/ /\ c.fn = "ApproveRequest"
                /\ c.request \in Valid
                /\ envelope[c.request].call.fn = "RequestTransfer"
                /\ envelope[c.request].call.caller = o
                /\ o \in Investors
<1>1. ASSUME IInv, Accounted, [Next]_vars, NEW o \in Owners, NEW t \in Tokens,
             Holding(state', o, t) < Holding(state, o, t)
      PROVE  Authorised(o)
  <2>1. CASE Quiet
    <3>1. Holding(state', o, t) = Holding(state, o, t)
      BY <2>1 DEF Quiet
    <3>2. ReadBalance(state, o, t) \in Balance
      BY <1>1, BalanceRead DEF IInv, TypeOK
    <3>3. Holding(state, o, t) \in Int
      BY <3>2 DEF Holding, Balance
    <3> DEFINE h == Holding(state, o, t)
    <3>4. h \in Int /\ h < h
      BY <1>1, <3>1, <3>3
    <3> HIDE DEF h, Authorised
    <3> QED
      BY <3>4
  <2>2. ASSUME NEW tx \in TxIds, Commit(tx) PROVE Authorised(o)
    <3> DEFINE c == envelope[tx].call
    <3>1. /\ c \in Call /\ Accepts(state, c) /\ state' = Apply(state, Writes(state, tx, c))
          /\ chain'[Len(chain')].tx = tx
      BY <2>2 DEF Commit
    <3>2. Typed(state) /\ RequestsSound(state)
      BY <1>1 DEF IInv, TypeOK
    <3>3. /\ c.caller \in Custodians
          /\ \/ c.fn = "Burn" /\ c.owner = o
             \/ /\ c.fn = "ApproveRequest"
                /\ state[RequestKey(c.request)].type = "TRANSFER"
                /\ state[RequestKey(c.request)].owner = o
      <4> HIDE DEF c
      <4> QED
        BY <1>1, <3>1, <3>2, DebitFrom
    <3>4. ASSUME c.fn = "ApproveRequest", state[RequestKey(c.request)].type = "TRANSFER",
                 state[RequestKey(c.request)].owner = o
          PROVE  /\ c.request \in Valid
                 /\ envelope[c.request].call.fn = "RequestTransfer"
                 /\ envelope[c.request].call.caller = o
                 /\ o \in Investors
      <4> DEFINE r == c.request
                 d == envelope[r].call
      <4>1. r \in TxIds /\ state[RequestKey(r)] # Nil
        BY <1>1, <2>2, <3>4, DecisionPending
      <4>2. /\ r \in Valid /\ d.fn \in DOMAIN RequestTypeOf /\ RequestAccepts(d)
            /\ \E st \in Statuses : state[RequestKey(r)] = [NewRequest(r, d) EXCEPT !.status = st]
        BY <1>1, <4>1 DEF Accounted, Recorded
      <4>3. RequestTypeOf[d.fn] = "TRANSFER" /\ d.owner = o
        BY <3>4, <4>2 DEF NewRequest
      <4>4. d.caller = d.owner /\ d.caller \in Investors
        BY <4>2 DEF RequestAccepts, requireInvestorOwner
      <4> HIDE DEF d
      <4>5. d.fn = "RequestTransfer"
        BY <4>2, <4>3 DEF RequestTypeOf
      <4> USE DEF d
      <4> QED
        BY <4>2, <4>3, <4>4, <4>5
    <3> QED
      BY <3>1, <3>3, <3>4
  <2> QED
    BY <1>1, <2>1, <2>2, StepCases
<1>2. IInv /\ Accounted /\ [Next]_vars =>
        [\A o \in Owners, t \in Tokens :
           Holding(state', o, t) < Holding(state, o, t) => Authorised(o)]_vars
  BY <1>1
<1> QED
  BY <1>2, Inductive, AlwaysAccounted, PTL DEF Spec, DebitsAreAuthorised

-----------------------------------------------------------------------------
(* Balances are the totals of the events.  The invariant adds that there are *)
(* finitely many of them, each with an amount that is a number.              *)

Explained ==
  /\ IsFiniteSet(Valid)
  /\ \A tx \in Valid : AmountOf(envelope[tx].event) \in Int
  /\ EventsExplainBalances

LEMMA EventAmount ==
  ASSUME NEW s, Typed(s), RequestsSound(s), NEW tx \in TxIds, NEW c \in Call, Accepts(s, c)
  PROVE  AmountOf(Emits(s, tx, c)) \in Int
<1> DEFINE e == Emits(s, tx, c)
<1>1. CASE c.fn \in {"Mint", "Burn"}
  <2>1. e.amount = c.amount /\ e.name \in {"MINT", "BURN"} /\ c.amount \in Int
    BY <1>1, CallFacts DEF Emits, RequestTypeOf
  <2> HIDE DEF e
  <2> QED
    BY <2>1 DEF AmountOf, e
<1>2. CASE c.fn = "ApproveRequest"
  <2>1. /\ c.request \in TxIds /\ IsPending(s, c.request)
        /\ e.name = "APPROVED"
        /\ e.request = [s[RequestKey(c.request)] EXCEPT !.status = "committed"]
    BY <1>2, CallFacts DEF Accepts, ApproveAccepts, Emits, ApproveWrites, RequestTypeOf
  <2>2. e.request.amount \in Int
    BY <2>1, PendingRequest DEF Request
  <2> HIDE DEF e
  <2> QED
    BY <2>1, <2>2 DEF AmountOf, e
<1>3. CASE c.fn \in DOMAIN RequestTypeOf \cup {"SetNAV", "RejectRequest"}
  <2>1. e.name \in {"NAV_UPDATED", "REQUESTED", "REJECTED"}
    BY <1>3 DEF Emits, RequestTypeOf
  <2> HIDE DEF e
  <2> QED
    BY <2>1 DEF AmountOf, e
<1> QED
  BY <1>1, <1>2, <1>3, CallFacts DEF RequestTypeOf

(* A commit adds its amount to the totals its event belongs to. *)
LEMMA TotalAfterCommit ==
  ASSUME IsFiniteSet(Valid), \A x \in Valid : AmountOf(envelope[x].event) \in Int,
         NEW tx \in TxIds, Commit(tx), AmountOf(envelope[tx].event) \in Int,
         NEW S, S \subseteq Valid, NEW b \in BOOLEAN
  PROVE  /\ Total(EventAmounts', IF b THEN S \cup {tx} ELSE S) =
              Total(EventAmounts, S) + AmountIf(b, AmountOf(envelope[tx].event))
         /\ Total(EventAmounts, S) \in Int
<1> DEFINE a == AmountOf(envelope[tx].event)
           f == EventAmounts
           g == EventAmounts'
<1>1. tx \notin Valid /\ Valid' = Valid \cup {tx} /\ envelope' = envelope
  BY DEF Commit
<1>2. /\ \A x \in Valid : f[x] \in Int /\ g[x] = f[x]
      /\ g[tx] = a
  BY <1>1 DEF EventAmounts
<1>3. IsFiniteSet(S) /\ tx \notin S
  BY <1>1, FS_Subset
<1> HIDE DEF f, g, a
<1>4. /\ \A x \in S : f[x] \in Int /\ g[x] = f[x]
      /\ \A x \in S \cup {tx} : g[x] \in Int
  BY <1>2 DEF a
<1>5. Total(g, S) = Total(f, S)
  BY <1>3, <1>4, TotalAgrees
<1>6. Total(g, S \cup {tx}) = Total(g, S) + g[tx]
  BY <1>3, <1>4, TotalAdd
<1>7. Total(f, S) \in Int /\ a \in Int
  BY <1>3, <1>4, TotalInt DEF a
<1> QED
  BY <1>2, <1>5, <1>6, <1>7 DEF AmountIf, f, g, a

(* The same for the transactions whose event satisfies a predicate, given as *)
(* the set D of those that do.                                               *)
LEMMA SumAfterCommit ==
  ASSUME IsFiniteSet(Valid), \A x \in Valid : AmountOf(envelope[x].event) \in Int,
         NEW tx \in TxIds, Commit(tx), AmountOf(envelope[tx].event) \in Int,
         NEW D
  PROVE  /\ Total(EventAmounts', {x \in Valid' : x \in D}) =
              Total(EventAmounts, {x \in Valid : x \in D})
                + AmountIf(tx \in D, AmountOf(envelope[tx].event))
         /\ Total(EventAmounts, {x \in Valid : x \in D}) \in Int
<1> DEFINE S == {x \in Valid : x \in D}
<1>1. {x \in Valid' : x \in D} = IF tx \in D THEN S \cup {tx} ELSE S
  BY DEF Commit
<1>2. S \subseteq Valid /\ (tx \in D) \in BOOLEAN
  OBVIOUS
<1> HIDE DEF S
<1>3. /\ Total(EventAmounts', IF tx \in D THEN S \cup {tx} ELSE S) =
           Total(EventAmounts, S) + AmountIf(tx \in D, AmountOf(envelope[tx].event))
      /\ Total(EventAmounts, S) \in Int
  BY <1>2, TotalAfterCommit
<1> QED
  BY <1>1, <1>3 DEF S

LEMMA CommitKeepsExplained ==
  ASSUME IInv, Explained, NEW tx \in TxIds, Commit(tx)
  PROVE  Explained'
<1> DEFINE c == envelope[tx].call
           e == envelope[tx].event
<1>1. /\ c \in Call /\ Accepts(state, c) /\ e = Emits(state, tx, c)
      /\ state' = Apply(state, Writes(state, tx, c))
      /\ tx \notin Valid /\ Valid' = Valid \cup {tx} /\ envelope' = envelope
  BY DEF Commit
<1>2. Typed(state) /\ RequestsSound(state)
  BY DEF IInv, TypeOK
<1>3. AmountOf(e) \in Int
  <2> HIDE DEF c
  <2> QED
    BY <1>1, <1>2, EventAmount
<1>4. IsFiniteSet(Valid')
  BY <1>1, FS_AddElement DEF Explained
<1>5. \A x \in Valid' : AmountOf(envelope'[x].event) \in Int
  BY <1>1, <1>3 DEF Explained
<1>6. ASSUME NEW o \in Owners, NEW t \in Tokens
      PROVE  /\ ReadBalance(state', o, t).encumbered = Pledged(o, t)'
             /\ ReadBalance(state', o, t).available =
                  Minted(o, t)' - Burned(o, t)' - Sent(o, t)' + Received(o, t)' - Pledged(o, t)'
                    + SentToSelf(o, t)'
  <2> DEFINE old == ReadBalance(state, o, t)
             new == ReadBalance(state', o, t)
             a == AmountOf(e)
             D1 == {x \in TxIds : LET y == envelope[x].event
                                  IN  y.name = "MINT" /\ y.owner = o /\ y.token = t}
             D2 == {x \in TxIds : LET y == envelope[x].event
                                  IN  y.name = "BURN" /\ y.owner = o /\ y.token = t}
             D3 == {x \in TxIds : LET y == envelope[x].event
                                  IN  TransferOf(y, t) /\ y.request.owner = o}
             D4 == {x \in TxIds : LET y == envelope[x].event
                                  IN  TransferOf(y, t) /\ y.request.counterparty = o}
             D5 == {x \in TxIds : LET y == envelope[x].event
                                  IN  /\ TransferOf(y, t)
                                      /\ y.request.owner = o /\ y.request.counterparty = o}
             D6 == {x \in TxIds : PledgeOf(envelope[x].event, o, t, "ENCUMBRANCE")}
             D7 == {x \in TxIds : PledgeOf(envelope[x].event, o, t, "UNENCUMBRANCE")}
             Sum(D) == Total(EventAmounts, {x \in Valid : x \in D})
             SumNext(D) == Total(EventAmounts', {x \in Valid' : x \in D})
             M(D) == AmountIf(tx \in D, a)
  <2>1. MovedAsSaid(old, new, e, o, t)
    <3> HIDE DEF c
    <3> QED
      BY <1>1, <1>2, EveryMoveIsAnnounced
  <2>2. \A D : /\ SumNext(D) = Sum(D) + AmountIf(tx \in D, a)
               /\ Sum(D) \in Int
    BY <1>3, SumAfterCommit DEF Explained
  <2>3. Valid \subseteq TxIds /\ Valid' \subseteq TxIds
    BY <1>1, OrderedAreTxIds DEF IInv, TypeOK
  <2>4. /\ Minted(o, t) = Sum(D1) /\ Burned(o, t) = Sum(D2)
        /\ Sent(o, t) = Sum(D3) /\ Received(o, t) = Sum(D4) /\ SentToSelf(o, t) = Sum(D5)
        /\ Pledged(o, t) = Sum(D6) - Sum(D7)
    BY <2>3 DEF Minted, Burned, Sent, Received, SentToSelf, Pledged, SumOver
  <2>5. /\ Minted(o, t)' = SumNext(D1) /\ Burned(o, t)' = SumNext(D2)
        /\ Sent(o, t)' = SumNext(D3) /\ Received(o, t)' = SumNext(D4)
        /\ SentToSelf(o, t)' = SumNext(D5)
        /\ Pledged(o, t)' = SumNext(D6) - SumNext(D7)
    BY <1>1, <2>3 DEF Minted, Burned, Sent, Received, SentToSelf, Pledged, SumOver
  <2>6. \A D : M(D) \in Int
    BY <1>3 DEF AmountIf
  <2>7. /\ new.available =
             old.available + M(D1) - M(D2) - M(D3) + M(D4) - M(D6) + M(D7) + M(D5)
        /\ new.encumbered = old.encumbered + M(D6) - M(D7)
    <3>1. /\ tx \in D1 <=> e.name = "MINT" /\ e.owner = o /\ e.token = t
          /\ tx \in D2 <=> e.name = "BURN" /\ e.owner = o /\ e.token = t
          /\ tx \in D3 <=> TransferOf(e, t) /\ e.request.owner = o
          /\ tx \in D4 <=> TransferOf(e, t) /\ e.request.counterparty = o
          /\ tx \in D5 <=> /\ TransferOf(e, t)
                           /\ e.request.owner = o /\ e.request.counterparty = o
          /\ tx \in D6 <=> PledgeOf(e, o, t, "ENCUMBRANCE")
          /\ tx \in D7 <=> PledgeOf(e, o, t, "UNENCUMBRANCE")
      OBVIOUS
    <3>2. /\ e.name = "MINT" => a = e.amount
          /\ e.name = "BURN" => a = e.amount
          /\ TransferOf(e, t) => a = e.request.amount
          /\ \A type : PledgeOf(e, o, t, type) => a = e.request.amount
      BY DEF AmountOf, TransferOf, PledgeOf
    <3> HIDE DEF old, new, e, a, D1, D2, D3, D4, D5, D6, D7
    <3> QED
      BY <2>1, <3>1, <3>2 DEF MovedAsSaid, AmountIf
  <2>8. /\ old.encumbered = Pledged(o, t)
        /\ old.available =
             Minted(o, t) - Burned(o, t) - Sent(o, t) + Received(o, t) - Pledged(o, t)
               + SentToSelf(o, t)
    BY DEF Explained, EventsExplainBalances
  <2>9. \A D : SumNext(D) = Sum(D) + M(D) /\ Sum(D) \in Int
    BY <2>2
  <2> HIDE DEF old, new, D1, D2, D3, D4, D5, D6, D7, Sum, SumNext, M
  <2>10. /\ new.available = SumNext(D1) - SumNext(D2) - SumNext(D3) + SumNext(D4)
                              - (SumNext(D6) - SumNext(D7)) + SumNext(D5)
         /\ new.encumbered = SumNext(D6) - SumNext(D7)
    BY <2>4, <2>6, <2>7, <2>8, <2>9
  <2> QED
    BY <2>5, <2>10 DEF new
<1> QED
  BY <1>4, <1>5, <1>6 DEF Explained, EventsExplainBalances

LEMMA InitExplained == Init => Explained
<1> SUFFICES ASSUME Init PROVE Explained
  OBVIOUS
<1>1. Valid = {}
  BY DEF Init, Valid
<1>2. \A o, t : /\ Minted(o, t) = 0 /\ Burned(o, t) = 0 /\ Sent(o, t) = 0
                /\ Received(o, t) = 0 /\ SentToSelf(o, t) = 0 /\ Pledged(o, t) = 0
  <2>1. Total(EventAmounts, {}) = 0
    BY TotalEmpty
  <2> QED
    BY <1>1, <2>1 DEF Minted, Burned, Sent, Received, SentToSelf, Pledged, SumOver
<1>3. \A o \in Owners, t \in Tokens :
        ReadBalance(state, o, t).available = 0 /\ ReadBalance(state, o, t).encumbered = 0
  BY DEF Init, EmptyState, Keys, BalanceKeys, ReadBalance
<1>4. EventsExplainBalances
  BY <1>2, <1>3 DEF EventsExplainBalances
<1> QED
  BY <1>1, <1>4, FS_EmptySet DEF Explained

LEMMA QuietKeepsExplained ==
  ASSUME Explained, Quiet
  PROVE  Explained'
<1>1. EventAmounts' = EventAmounts
  BY DEF Quiet, EventAmounts
<1>2. Valid' = Valid /\ \A x \in Valid : envelope'[x].event = envelope[x].event
  BY DEF Quiet
<1>3. \A o, t : Minted(o, t)' = Minted(o, t) /\ Burned(o, t)' = Burned(o, t)
  BY <1>1, <1>2 DEF Minted, Burned, SumOver
<1>4. \A o, t : /\ Sent(o, t)' = Sent(o, t) /\ Received(o, t)' = Received(o, t)
                /\ SentToSelf(o, t)' = SentToSelf(o, t)
  BY <1>1, <1>2 DEF Sent, Received, SentToSelf, SumOver
<1>5. \A o, t : Pledged(o, t)' = Pledged(o, t)
  BY <1>1, <1>2 DEF Pledged, SumOver
<1>6. EventsExplainBalances'
  BY <1>3, <1>4, <1>5 DEF Explained, EventsExplainBalances, Quiet
<1> QED
  BY <1>6 DEF Explained, Quiet

(* The published events tell the whole story of the balances. *)
THEOREM EventsExplain == Spec => []EventsExplainBalances
<1>1. IInv /\ Explained /\ [Next]_vars => Explained'
  <2> SUFFICES ASSUME IInv, Explained, [Next]_vars PROVE Explained'
    OBVIOUS
  <2> QED
    BY StepCases, QuietKeepsExplained, CommitKeepsExplained
<1>2. Explained => EventsExplainBalances
  BY DEF Explained
<1> QED
  BY <1>1, <1>2, InitExplained, Inductive, PTL DEF Spec
=============================================================================
