------------------------------ MODULE Platform ------------------------------
(***************************************************************************)
(* The whole write path: the chaincode on its channel (Tokenization) and   *)
(* the event processor that reads the blocks the channel commits (EPL),    *)
(* side by side.  Each transaction the orderer takes makes a block of its  *)
(* own; blocks of several transactions are the business of EPL's chains.   *)
(***************************************************************************)
EXTENDS Tokenization

CONSTANTS
  Processors, Users, Uuids, ChaincodeName,   \* as in EPL
  MaxFaults

VARIABLES db, mapping, phase, next, todo, faults

eplVars == <<db, mapping, phase, next, todo, faults>>
platformVars == <<vars, eplVars>>

(* The block a peer delivers for the transaction at position h of the chain. *)
BlockAt(h) ==
  [data   |-> << [type |-> "ENDORSER_TRANSACTION", tx |-> chain[h].tx, broken |-> "no",
                  actions |-> << [chaincode |-> ChaincodeName,
                                  events |-> <<envelope[chain[h].tx].event>>] >>] >>,
   filter |-> << chain[h].code >>]

Blocks == [h \in DOMAIN chain |-> BlockAt(h)]

Epl == INSTANCE EPL WITH
  chain <- Blocks, Chains <- {}, InitialHeight <- 0, Identities <- Owners

PlatformInit == Init /\ Epl!Start

PlatformNext ==
  \/ Next /\ UNCHANGED eplVars
  \/ UNCHANGED vars /\ Epl!Next

PlatformSpec == PlatformInit /\ [][PlatformNext]_platformVars

-----------------------------------------------------------------------------
(* Once everything committed has been projected, and until a call fails, the *)
(* database says what the ledger says: a user's balance is that of all the   *)
(* owners mapped to that user (less what an owner transferred to itself,     *)
(* which the ledger credits and the projection does not), requests have      *)
(* their status and tokens their price.                                      *)
CaughtUp == faults = 0 /\ Epl!Settled /\ db.checkpoint.height = Len(chain)

OwnersOf(u) == {o \in Owners : mapping[o] = u}

ProjectionMatchesLedger ==
  CaughtUp =>
    /\ \A u \in Users, t \in Tokens :
         /\ db.balances[u][t].available =
              MapThenSumSet(LAMBDA o : ReadBalance(state, o, t).available - SentToSelf(o, t),
                            OwnersOf(u))
         /\ db.balances[u][t].encumbered =
              MapThenSumSet(LAMBDA o : ReadBalance(state, o, t).encumbered, OwnersOf(u))
    /\ \A r \in TxIds :
         IF state[RequestKey(r)] = Nil THEN db.operations[r] = Nil
         ELSE /\ db.operations[r] # Nil
              /\ db.operations[r].status = state[RequestKey(r)].status
    /\ \A t \in Tokens :
         db.prices[t] = IF state[NavKey(t)] = Nil THEN Nil ELSE state[NavKey(t)].price
=============================================================================
