---------------------------- MODULE MCTcpRxBuffer ----------------------------
(* TcpRxBuffer for TLC.  Fairness: the library and the kernel finish what   *)
(* they have begun, the application reads, and the peer sends the first     *)
(* byte that is missing again, not always in vain.                          *)
EXTENDS TcpRxBuffer

\* The bound: what follows once the buffer is spoiled is not explored.
NotSpoiled == ~ spoiled

LiveSpec ==
  /\ Spec
  /\ WF_vars(Receiving) /\ WF_vars(KernelDelivers)
  /\ SF_vars(\E n \in 1 .. BufSize : Read(n))
  /\ SF_vars(Arrive(recv, 1, TRUE))

(* Everything the peer sends is read in the end: no order of segments,     *)
(* invalid packets and steps of the kernel leaves the socket unable to     *)
(* accept what is missing.  (Unless the buffer is spoiled: see DataIntact.) *)
AllRead == <>(spoiled \/ read = Add(First, Total))
=============================================================================
