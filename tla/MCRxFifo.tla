------------------------------ MODULE MCRxFifo ------------------------------
(* RxFifo for TLC: a ring of few chunks and an adapter that laps it.        *)
EXTENDS RxFifo

\* The adapter finishes a frame it has begun, a call that has begun goes on,
\* and the program keeps polling.
LiveSpec ==
  /\ Spec
  /\ WF_vars(NextChunk) /\ WF_vars(WriteInfo)
  /\ WF_vars(Continue)
  /\ WF_vars(ReceiveFrame \/ ReceiveChunk \/ PollHeader)

(* Every call returns, although it spins for the rest of a frame: unless   *)
(* exanic_receive_abort was called for a frame that has ended already, and *)
(* waits for the next one.                                                 *)
CallReturns ==
  pc \notin {"idle", "closed"} ~> pc \in {"idle", "closed"} \/ stale

(* When the adapter is silent the reader gets to the end of what it wrote, *)
(* and does not take an old chunk for an overflow again and again.         *)
CatchesUp == <>[](pc = "idle" => ~ New /\ ~ Lapped)
=============================================================================
