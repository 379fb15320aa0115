-------------------------- MODULE MCExanicCapture ---------------------------
(***************************************************************************)
(* ExanicCapture for TLC.  Fairness: both goroutines are scheduled, and a  *)
(* select that finds the cancelled context ready again and again takes it. *)
(***************************************************************************)
EXTENDS ExanicCapture

AllKinds == Kind

SegmentKind == {"segment"}

AllOutcomes == {"nil", "handler", "EOF"}

NoErrors == {"nil"}

LiveSpec ==
  /\ Spec
  /\ WF_vars(Start)
  /\ WF_vars(Receive) /\ WF_vars(Consume) /\ SF_vars(SelectDone)

\* The goroutine waits for room in the channel and StartCapture for it.
StuckSending == ppc = "send" /\ Len(chan) = ChanCap /\ cpc = "wait"

(* A cancelled capture returns, unless the goroutine is blocked in a send  *)
(* to a full channel that StartCapture has stopped reading, or the process *)
(* has crashed.                                                            *)
CancelReturns ==
  ctxDone ~> cpc = "returned" \/ StuckSending \/ ppc = "crashed"
=============================================================================
