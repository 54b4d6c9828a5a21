------------------------------- MODULE Decoder -------------------------------
(***************************************************************************)
(* How the event processor reads a Fabric block.  A raw block carries its  *)
(* envelopes (data) and, in its metadata, the peers' verdict on each of    *)
(* them by position (filter, empty where the metadata is missing).  An     *)
(* envelope that is no endorser transaction (a channel configuration, or a *)
(* message of another type that was ordered) is skipped; any other becomes *)
(* a transaction that keeps its position in the block, its verdict and the *)
(* events its actions set in our chaincode.                                *)
(*                                                                         *)
(* What is protobuf or JSON in the code is a record here, and each action  *)
(* holds a sequence of at most one event.  An envelope may be "broken",    *)
(* that is, not unmarshal: "outside" of the transaction (envelope,         *)
(* payload, channel header) or "inside" of it.  Peers mark such an         *)
(* envelope invalid and keep it in the block.                              *)
(***************************************************************************)
EXTENDS Integers, Sequences, SequencesExt

CONSTANT ChaincodeName   \* the chaincode whose events are projected

IsTransaction(envelope) == envelope.type = "ENDORSER_TRANSACTION"

(* One such envelope makes decodeBlock return an error for the whole block,  *)
(* whatever the verdicts: they are not looked at while decoding.             *)
Undecodable(block) ==
  \E i \in DOMAIN block.data :
    \/ block.data[i].broken = "outside"
    \/ IsTransaction(block.data[i]) /\ block.data[i].broken = "inside"

(* Code 0, which is VALID, where the filter has no entry. *)
validationCodeAt(codes, index) ==
  IF index \in DOMAIN codes THEN codes[index] ELSE "VALID"

(* The event of one action: none where another chaincode ran. *)
decodeAction(action) ==
  IF action.chaincode = ChaincodeName THEN action.events ELSE <<>>

decodeTransaction(envelope, index, code) ==
  [id     |-> envelope.tx,
   index  |-> index,
   code   |-> code,
   events |-> FlattenSeq([i \in DOMAIN envelope.actions |-> decodeAction(envelope.actions[i])])]

(* Slip: positions and verdicts are counted without the skipped envelopes. *)
decodeBlockCounted(block) ==
  LET transactions == SelectSeq(block.data, IsTransaction)
  IN  [i \in DOMAIN transactions |->
         decodeTransaction(transactions[i], i, validationCodeAt(block.filter, i))]

(* The transactions of a block that is not Undecodable. *)
decodeBlock(block) ==
  FlattenSeq([i \in DOMAIN block.data |->
    IF IsTransaction(block.data[i])
      THEN <<decodeTransaction(block.data[i], i, validationCodeAt(block.filter, i))>>
      ELSE <<>>])
=============================================================================
