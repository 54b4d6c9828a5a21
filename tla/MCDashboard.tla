----------------------------- MODULE MCDashboard -----------------------------
(* Instances of Dashboard for TLC. *)
EXTENDS Dashboard, MCEPL

CONSTANTS w1, h1, h2

MCAllIds == MCTxIds \cup {w1}
MCWebIds == {w1}
MCOneIdentity == {ana}
MCOneUser == {u1}
MCHandlers == {h1, h2}

(* A request approved and a request rejected in one block. *)
DecisionChain ==
  << Block(<<Tx(x1, Requested(x1, "ENCUMBRANCE", ana, Nil, 1)),
             Tx(x2, Requested(x2, "ENCUMBRANCE", ana, Nil, 2))>>),
     Block(<<Tx(x3, ApprovedEv(x1, "ENCUMBRANCE", ana, Nil, 1)),
             Tx(x4, RejectedEv(x2, "ENCUMBRANCE", ana, Nil, 2))>>) >>

OnlyDecisions == {DecisionChain}
=============================================================================
