----------------------------- MODULE Projection -----------------------------
(***************************************************************************)
(* What the query model promises its readers: it is the chain's events,    *)
(* applied one at a time, in chain order, each once and as a whole.  An    *)
(* event waits until the identities it names are mapped to users, and the  *)
(* events after it wait with it.                                           *)
(*                                                                         *)
(* The processor does it in many statements, with a queue, a checkpoint    *)
(* and retries (EPL.tla); that nothing of that shows, as long as no call   *)
(* fails, is the refinement EPL => Projection.                             *)
(***************************************************************************)
EXTENDS Integers, Sequences, SequencesExt

CONSTANTS Identities, Users, Tokens, TxIds, Nil

VARIABLES
  log,        \* the events of the valid transactions, in chain order
  mapping,    \* identity -> user or Nil
  applied,    \* how many of them the view shows
  balances,   \* user -> token -> available and encumbered amounts
  prices,     \* token -> price or Nil
  statuses    \* request -> status or Nil

vars == <<log, mapping, applied, balances, prices, statuses>>
view == <<applied, balances, prices, statuses>>

Init ==
  /\ mapping \in [Identities -> Users \cup {Nil}]
  /\ applied = 0
  /\ balances = [u \in Users |-> [t \in Tokens |-> [available |-> 0, encumbered |-> 0]]]
  /\ prices = [t \in Tokens |-> Nil]
  /\ statuses = [r \in TxIds |-> Nil]

(* The users whose holdings change with event e, and by how much. *)
Moves(e) ==
  CASE e.name = "MINT" -> <<[of |-> e.owner, available |-> e.amount, encumbered |-> 0]>>
    [] e.name = "BURN" -> <<[of |-> e.owner, available |-> -e.amount, encumbered |-> 0]>>
    [] e.name = "APPROVED" ->
         LET r == e.request
         IN (CASE r.type = "TRANSFER" ->
                    <<[of |-> r.owner, available |-> -r.amount, encumbered |-> 0],
                      [of |-> r.counterparty, available |-> r.amount, encumbered |-> 0]>>
               [] r.type = "ENCUMBRANCE" ->
                    <<[of |-> r.owner, available |-> -r.amount, encumbered |-> r.amount]>>
               [] r.type = "UNENCUMBRANCE" ->
                    <<[of |-> r.owner, available |-> r.amount, encumbered |-> -r.amount]>>)
    [] OTHER -> <<>>

TokenOf(e) == IF e.name \in {"MINT", "BURN", "NAV_UPDATED"} THEN e.token ELSE e.request.token
IsRequest(e) == e.name \in {"REQUESTED", "APPROVED", "REJECTED"}

(* A decision names only those whose holdings it moves; a transfer may name  *)
(* nobody to receive it.                                                     *)
Named(e) ==
  ({m.of : m \in Range(Moves(e))} \ {Nil})
    \cup IF e.name = "REQUESTED" THEN {e.request.requestedBy} ELSE {}

Moved(b, token, move) ==
  IF move.of = Nil THEN b
  ELSE [b EXCEPT ![mapping[move.of]][token] =
          [available  |-> @.available + move.available,
           encumbered |-> @.encumbered + move.encumbered]]

Apply ==
  /\ applied < Len(log)
  /\ LET e == log[applied + 1]
     IN  /\ \A id \in Named(e) : mapping[id] # Nil
         /\ balances' = FoldLeft(LAMBDA b, move : Moved(b, TokenOf(e), move), balances, Moves(e))
         /\ prices' = IF e.name = "NAV_UPDATED" THEN [prices EXCEPT ![e.token] = e.price] ELSE prices
         /\ statuses' = IF IsRequest(e)
                          THEN [statuses EXCEPT ![e.request.id] = e.request.status] ELSE statuses
  /\ applied' = applied + 1
  /\ UNCHANGED <<log, mapping>>

Extend ==
  /\ IsStrictPrefix(log, log')
  /\ UNCHANGED <<mapping, view>>

Map ==
  /\ \E id \in Identities, u \in Users : mapping[id] = Nil /\ mapping' = [mapping EXCEPT ![id] = u]
  /\ UNCHANGED <<log, view>>

Next == Apply \/ Extend \/ Map

Spec == Init /\ [][Next]_vars
=============================================================================
