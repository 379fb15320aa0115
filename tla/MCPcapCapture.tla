--------------------------- MODULE MCPcapCapture ----------------------------
(* PcapCapture for TLC.  The code never looks at a byte, so each session    *)
(* carries the stream 1, 2, 3, ... of MaxBytes different bytes: a byte that *)
(* is lost, repeated or moved shows.  UDP packets are not counted, so a     *)
(* capture can go on for ever.                                              *)
EXTENDS PcapCapture

CONSTANT MaxBytes

MCByte == 0 .. MaxBytes
AnyCounts == -1 .. MaxBytes

MCNext ==
  /\ CaptureNext
  /\ \A s \in Session :
       received'[s] # received[s] =>
         received'[s] = [i \in 1 .. Len(received'[s]) |-> i]

MCSpec == CaptureInit /\ [][MCNext]_captureVars

\* The goroutine keeps running, the handler returns, and a context that is
\* done is not passed over for ever: select chooses at random among the
\* cases that are ready.
LiveSpec == MCSpec /\ WF_captureVars(Capture) /\ SF_captureVars(CaptureDone)

(* A capture whose context is cancelled returns, however many packets keep *)
(* coming, unless one of them made it panic.                               *)
CancelReturns == cancelled ~> at \in {"returned", "panicked"}
=============================================================================
