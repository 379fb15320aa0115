----------------------------- MODULE MCDialTCP ------------------------------
(* DialTCP for TLC.  The code never looks at a byte, so the peer sends the  *)
(* stream 1, 2, 3, ... of MaxSent different bytes: a byte that is lost,     *)
(* repeated or moved shows.  LiveSpec adds that DialTCP and the handler     *)
(* keep running; nothing is assumed of the peer or of the context.          *)
EXTENDS DialTCP

CONSTANT MaxSent

MCByte == 0 .. MaxSent
MCCounts == -1 .. MaxSent + 1

MCNext == Next /\ (sent' # sent => sent' = [i \in 1 .. Len(sent) + 1 |-> i])

MCSpec == Init /\ [][MCNext]_vars

LiveSpec == MCSpec /\ WF_vars(Loop)

(* Once the peer has closed or reset the connection, DialTCP returns: it   *)
(* works off what has arrived, one handler call per Read, and then sees    *)
(* the end of the stream.                                                  *)
EndedConnectionReturns == peer # "open" ~> pc = "returned"

(* A cancelled DialTCP returns, without waiting for anything more from the *)
(* peer, unless it is in a Read: there the context is not looked at, and   *)
(* the next data or the end of the connection lets it go on to return.     *)
CancelReturns == ctxDone /\ pc # "read" ~> pc = "returned"
=============================================================================
