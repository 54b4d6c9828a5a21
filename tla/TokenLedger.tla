---------------------------- MODULE TokenLedger ----------------------------
(***************************************************************************)
(* What the tokenization chaincode promises its callers: every transaction *)
(* that takes effect does so at once, on the current world state, as if    *)
(* transactions ran one at a time.  The peers do not work like that        *)
(* (Tokenization.tla); that what they commit is still such a serial        *)
(* history is the refinement Tokenization => TokenLedger.                  *)
(***************************************************************************)
EXTENDS Chaincode

VARIABLES
  state,     \* world state: key -> value or Nil
  emitted    \* event published by each transaction that took effect, else Nil

vars == <<state, emitted>>

Init ==
  /\ state = EmptyState
  /\ emitted = [tx \in TxIds |-> Nil]

(* One transaction runs alone, from its reads to its event. *)
Execute(tx, c) ==
  /\ emitted[tx] = Nil
  /\ Accepts(state, c)
  /\ state' = Apply(state, Writes(state, tx, c))
  /\ emitted' = [emitted EXCEPT ![tx] = Emits(state, tx, c)]

Next == \E tx \in TxIds, c \in Call : Execute(tx, c)

Spec == Init /\ [][Next]_vars
=============================================================================
