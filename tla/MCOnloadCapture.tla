-------------------------- MODULE MCOnloadCapture ---------------------------
(***************************************************************************)
(* OnloadCapture for TLC.  Fairness: both goroutines are scheduled, and a  *)
(* select that finds the cancelled context ready again and again takes it. *)
(***************************************************************************)
EXTENDS OnloadCapture

AllModes == Mode

AllOutcomes == {"nil", "handler", "EOF"}

LiveSpec ==
  /\ Spec
  /\ WF_vars(Fill) /\ WF_vars(Start)
  /\ WF_vars(EventLoop) /\ WF_vars(Consume) /\ SF_vars(SelectDone)

\* The event loop waits for room in the channel and StartCapture for the loop.
StuckSending == epc = "send" /\ Len(chan) = ChanCap /\ cpc = "wait"

\* The event loop waits for the adapter.
StuckWaiting == epc \in {"wait", "fdpoll"} /\ evq = <<>>

(* A cancelled capture returns, unless the event loop is blocked where     *)
(* nothing tells it about the context: at a send to a full channel that    *)
(* StartCapture has stopped reading, or in a wait for the next event.  The *)
(* loop that waits with poll() looks at the context only when the queue is *)
(* empty: it needs the adapter to fall silent.                             *)
CancelReturns ==
  (mode = "FDWait" => <>[](evq = <<>>)) =>
    (ctxDone /\ cpc \notin {"create", "start"} ~>
       cpc = "returned" \/ StuckSending \/ StuckWaiting)

(* An event in the queue is polled, or the capture has stopped: the        *)
(* blocking loops never sleep while an event waits.  The throughput loop   *)
(* guarantees less: it polls for a few events only once a first full batch *)
(* has set its counter, because it decrements the counter before it        *)
(* compares it with zero.                                                  *)
EventsPolled ==
  /\ evq # <<>> /\ epc # "idle"
  /\ mode = "BatchPoll" => batchLoops > 0 \/ Len(evq) >= LookAhead
  ~> batch # <<>> \/ ctxDone \/ cpc = "returned" \/ epc = "exited"
=============================================================================
