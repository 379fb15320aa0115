------------------------------ MODULE MCTxFifo ------------------------------
(* TxFifo for TLC.  Fairness: the adapter sends what it was given, and a    *)
(* call that has begun goes on.                                             *)
EXTENDS TxFifo

LiveSpec == Spec /\ WF_vars(AdapterSends) /\ WF_vars(Library)

(* A call that waits for sequence numbers or for space returns: "we don't  *)
(* end up waiting for a feedback that was never requested".  The exception *)
(* is a call that follows one that wrapped around and was then refused for *)
(* its size: the space before the last chunk may be too small for it, and  *)
(* the space after it is given up.                                         *)
PrepareReturns == pc \in {"seq", "space"} ~> pc \in {"idle", "write"} \/ refused
=============================================================================
