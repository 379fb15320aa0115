--------------------------- MODULE OnloadCapture ----------------------------
(***************************************************************************)
(* onload/cgo_onload_linux.go: CreateHandler's fill, StartCapture, and the *)
(* event loop goroutine StartCapture runs beside its own loop.  The event  *)
(* loop polls the adapter's events, turns packets into IPv4Packet values   *)
(* and sends them over a channel; StartCapture decodes the transport       *)
(* header, calls the handler and releases the packet, which returns its    *)
(* buffer to the pool the event loop refills the ring from.                *)
(*                                                                         *)
(* releasePktBuf and refillRxRing are single steps here; FreeList has      *)
(* their interleaving.                                                     *)
(***************************************************************************)
EXTENDS Integers, Sequences, FiniteSets

CONSTANTS
  Buf, Batch,  \* as in OnloadRing
  Modes,       \* the values of runMode the device is tried with
  PollBatch,   \* EV_POLL_BATCH_SIZE
  LookAhead,   \* evtLookAhead
  LoopBatch,   \* the 100 iterations between polls of eventLoopThroughput
  ChanCap,     \* defaultPktBufferLen
  Outcomes,    \* what the handler may return as its error
  NoBuf

Mode == {"EvqWait", "FDWait", "LowLatency", "BatchPoll"}

(***************************************************************************)
(* What an event turns out to report when it is handled, and what the      *)
(* goroutine then does with its buffer.  An IPv4 packet is sent on.  A     *)
(* frame that is not IPv4, a bad frame ("discard") and a header that does  *)
(* not unpack in a frame of an event for several frames are released; a    *)
(* frame of such an event without timestamp is dropped, as pollEvq ignores *)
(* those errors.  Of an event for one frame, a header that does not unpack *)
(* ends the loop, and so do a missing timestamp and a frame in several     *)
(* buffers.  An event without a buffer reports the loss of the interface.  *)
(***************************************************************************)
Released == {"notIP", "discard", "multiBadHeader"}
Kind == {"packet", "badHeader", "noTimestamp", "fragment", "multiNoTimestamp"} \cup Released

\* A TCP or UDP segment, one whose header does not unpack, another transport.
Transport == {"segment", "badSegment", "otherTransport"}

Errors == {"nil", "loop", "unpack", "handler", "EOF"}

ASSUME CaptureAssumption ==
  /\ Modes \subseteq Mode
  /\ PollBatch \in Nat \ {0} /\ LookAhead \in Nat /\ LoopBatch \in Nat \ {0}
  /\ ChanCap \in Nat \ {0}
  /\ Outcomes \subseteq {"nil", "handler", "EOF"}
  /\ NoBuf \notin Buf
  /\ IsFiniteSet(Buf) /\ Batch \in Nat \ {0} /\ Batch <= Cardinality(Buf)

VARIABLES
  ready, free, nFree, ring, app,   \* the buffers, see OnloadRing
  ctxDone,     \* ctx is cancelled
  vi,          \* "live" until dev.Release has run
  evq,         \* the buffers of the events nobody has polled, NoBuf for a reset
  primed,      \* ef_vi_prime asked for a wake-up of the driver handle
  mode, epc,   \* the event loop and where it is
  refilled,    \* what refillRxRing returned
  polled,      \* pollEvq's result
  batch,       \* those of the polled events not handled yet
  sending,     \* the packet of a pending channel send, or <<>>
  batchLoops,  \* iterations until a poll; below zero it does not count
  loopErr,     \* what the event loop returns
  chan, closed,  \* pktCh
  cpc,         \* where StartCapture is
  pkt,         \* the buffer of the packet received from pktCh, or <<>>
  transport,   \* what that packet holds
  segment,     \* the variable segment is set
  err,         \* StartCapture's named result, written by both goroutines
  result,      \* what StartCapture returned
  handlerErr,  \* the last error the handler returned
  overwritten, \* err was assigned while it held the event loop's error
  lost         \* buffers nobody will release

buffers == <<ready, free, nFree, ring, app>>
loop == <<mode, epc, refilled, polled, batch, sending, batchLoops, loopErr>>
consumer == <<cpc, pkt, transport, segment, result, handlerErr>>
vars == <<buffers, ctxDone, vi, evq, primed, loop, chan, closed, consumer, err,
          overwritten, lost>>

Ring == INSTANCE OnloadRing

Init ==
  /\ Ring!Init
  /\ ctxDone = FALSE /\ vi = "live"
  /\ evq = <<>> /\ primed = FALSE
  /\ mode \in Modes /\ epc = "idle"
  /\ refilled = FALSE /\ polled = 0 /\ batch = <<>> /\ sending = <<>>
  /\ batchLoops = 0 /\ loopErr = "nil"
  /\ chan = <<>> /\ closed = FALSE
  /\ cpc = "create" /\ pkt = <<>> /\ transport = "segment" /\ segment = FALSE
  /\ err = "nil" /\ result = "none" /\ handlerErr = "nil"
  /\ overwritten = FALSE /\ lost = {}

-----------------------------------------------------------------------------
(* The environment: the caller's context and the adapter.                  *)

Cancel ==
  /\ ~ ctxDone /\ ctxDone' = TRUE
  /\ UNCHANGED <<buffers, vi, evq, primed, loop, chan, closed, consumer, err,
                 overwritten, lost>>

\* The adapter fills the oldest posted buffer; which one that is does not
\* matter.
NICReceives ==
  /\ vi = "live" /\ ready
  /\ \E b \in ring :
       /\ ring' = ring \ {b} /\ app' = app \cup {b}
       /\ evq' = Append(evq, b)
  /\ UNCHANGED <<ready, free, nFree, ctxDone, vi, primed, loop, chan, closed,
                 consumer, err, overwritten, lost>>

NICResets ==
  /\ vi = "live" /\ ready
  /\ \A i \in DOMAIN evq : evq[i] # NoBuf
  /\ evq' = Append(evq, NoBuf)
  /\ UNCHANGED <<buffers, ctxDone, vi, primed, loop, chan, closed, consumer,
                 err, overwritten, lost>>

-----------------------------------------------------------------------------
(* CreateHandler, and the start of StartCapture.                           *)

Fill ==
  /\ cpc = "create"
  /\ Ring!Fill \/ Ring!Filled
  /\ cpc' = IF ready' THEN "start" ELSE "create"
  /\ UNCHANGED <<ctxDone, vi, evq, primed, loop, chan, closed, pkt, transport,
                 segment, result, handlerErr, err, overwritten, lost>>

\* ef_vi_filter_add fails: the deferred dev.Release runs.
FilterFails ==
  /\ cpc = "start"
  /\ cpc' = "returned" /\ result' = "filter" /\ vi' = "freed"
  /\ UNCHANGED <<buffers, ctxDone, evq, primed, loop, chan, closed, pkt,
                 transport, segment, handlerErr, err, overwritten, lost>>

Start ==
  /\ cpc = "start"
  /\ cpc' = "select"
  /\ epc' = IF mode = "FDWait" THEN "prime" ELSE "select"
  /\ UNCHANGED <<buffers, ctxDone, vi, evq, primed, mode, refilled, polled,
                 batch, sending, batchLoops, loopErr, chan, closed, pkt,
                 transport, segment, result, handlerErr, err, overwritten, lost>>

-----------------------------------------------------------------------------
(* The event loop goroutine.                                               *)

\* What every step of the event loop but the last two leaves alone.
LoopStep == UNCHANGED <<ctxDone, vi, mode, closed, consumer, err, overwritten>>

\* The loop returns e.
Leaves(e) == epc' = "leave" /\ loopErr' = e

\* Bug form: the loop does not look at the context.
LoopSelectIgnoresDone ==
  /\ epc = "select"
  /\ epc' = IF mode = "FDWait" THEN "fdpoll" ELSE "refill"
  /\ UNCHANGED <<buffers, evq, primed, refilled, polled, batch, sending,
                 batchLoops, loopErr, chan, lost>>
  /\ LoopStep

LoopSelect ==
  /\ epc = "select"
  /\ IF ctxDone
       THEN Leaves("nil")
       ELSE /\ epc' = IF mode = "FDWait" THEN "fdpoll" ELSE "refill"
            /\ UNCHANGED loopErr
  /\ UNCHANGED <<buffers, evq, primed, refilled, polled, batch, sending,
                 batchLoops, chan, lost>>
  /\ LoopStep

\* poll() on the driver handle, without a timeout: it returns when the queue
\* was primed and has an event, or at once on a closed handle.
FDPoll ==
  /\ epc = "fdpoll"
  /\ (primed /\ evq # <<>>) \/ vi = "freed"
  /\ primed' = FALSE
  /\ epc' = "refill"
  /\ UNCHANGED <<buffers, evq, refilled, polled, batch, sending, batchLoops,
                 loopErr, chan, lost>>
  /\ LoopStep

Refill ==
  /\ epc = "refill" /\ vi = "live"
  /\ \/ Ring!EventLoopRefill /\ refilled' = TRUE
     \/ Ring!NoRefill /\ refilled' = FALSE /\ UNCHANGED ready
  /\ epc' = IF mode = "BatchPoll" THEN "decide" ELSE "poll"
  /\ UNCHANGED <<evq, primed, polled, batch, sending, batchLoops, loopErr, chan,
                 lost>>
  /\ LoopStep

\* eventLoopThroughput decides whether to poll.  batchLoops starts at zero;
\* once below zero it would have to wrap around to reach zero again.
Decide ==
  /\ epc = "decide" /\ vi = "live"
  /\ batchLoops' = IF batchLoops < 0 THEN batchLoops ELSE batchLoops - 1
  /\ epc' = IF Len(evq) >= LookAhead \/ batchLoops' = 0
              THEN "poll" ELSE "select"
  /\ UNCHANGED <<buffers, evq, primed, refilled, polled, batch, sending,
                 loopErr, chan, lost>>
  /\ LoopStep

\* Bug form: the events are handled in the reverse order.
PollReversed ==
  /\ epc = "poll" /\ vi = "live"
  /\ \E n \in {IF Len(evq) < PollBatch THEN Len(evq) ELSE PollBatch} :
       /\ batch' = [i \in 1 .. n |-> evq[n + 1 - i]]
       /\ evq' = SubSeq(evq, n + 1, Len(evq))
       /\ polled' = n
  /\ epc' = "event"
  /\ UNCHANGED <<buffers, primed, refilled, sending, batchLoops, loopErr, chan,
                 lost>>
  /\ LoopStep

\* ef_event_poll.
Poll ==
  /\ epc = "poll" /\ vi = "live"
  /\ \E n \in {IF Len(evq) < PollBatch THEN Len(evq) ELSE PollBatch} :
       /\ batch' = SubSeq(evq, 1, n)
       /\ evq' = SubSeq(evq, n + 1, Len(evq))
       /\ polled' = n
  /\ epc' = "event"
  /\ UNCHANGED <<buffers, primed, refilled, sending, batchLoops, loopErr, chan,
                 lost>>
  /\ LoopStep

\* Bug form: the buffer is linked into the list and not counted.
RecyclesUncounted(b) ==
  /\ b \in app /\ app' = app \ {b} /\ free' = free \cup {b}
  /\ UNCHANGED <<ready, nFree, ring, lost>>

\* The buffer goes back to the pool.
Recycles(b) == Ring!ReleasePktBuf(b) /\ UNCHANGED <<ready, lost>>

\* The buffer is neither released nor handed on.
Drops(b) == lost' = lost \cup {b} /\ UNCHANGED buffers

NeedsVI(kind) == kind # "discard"

\* pollEvq handles the next polled event without an error.
EventHandled ==
  /\ epc = "event" /\ batch # <<>> /\ Head(batch) # NoBuf
  /\ \E kind \in Kind :
       /\ NeedsVI(kind) => vi = "live"
       /\ \/ /\ kind = "packet"
             /\ sending' = <<Head(batch)>> /\ epc' = "send"
             /\ UNCHANGED <<buffers, lost>>
          \/ /\ kind \in Released
             /\ Recycles(Head(batch))
             /\ UNCHANGED <<epc, sending>>
          \/ /\ kind = "multiNoTimestamp"
             /\ Drops(Head(batch))
             /\ UNCHANGED <<epc, sending>>
  /\ batch' = Tail(batch)
  /\ UNCHANGED <<evq, primed, refilled, polled, batchLoops, loopErr, chan>>
  /\ LoopStep

\* pollEvq returns an error; the rest of the batch is never handled.
EventFails ==
  /\ epc = "event" /\ batch # <<>>
  /\ \/ Head(batch) = NoBuf /\ UNCHANGED <<buffers, lost>>
     \/ /\ Head(batch) # NoBuf /\ vi = "live"
        /\ \E kind \in Kind :
             \/ kind = "badHeader" /\ Recycles(Head(batch))
             \/ kind \in {"fragment", "noTimestamp"} /\ Drops(Head(batch))
  /\ batch' = Tail(batch)
  /\ Leaves("loop")
  /\ UNCHANGED <<evq, primed, refilled, polled, sending, batchLoops, chan>>
  /\ LoopStep

\* pktCh <- pkt.
Send ==
  /\ epc = "send" /\ Len(chan) < ChanCap
  /\ chan' = chan \o sending
  /\ sending' = <<>> /\ epc' = "event"
  /\ UNCHANGED <<buffers, evq, primed, refilled, polled, batch, batchLoops,
                 loopErr, lost>>
  /\ LoopStep

\* Bug form: the drained queue is not primed again.
PolledSkipsPrime ==
  /\ epc = "event" /\ batch = <<>>
  /\ epc' = CASE mode = "EvqWait" -> IF ~ refilled /\ polled = 0
                                       THEN "wait" ELSE "select"
              [] mode = "FDWait" -> IF ~ refilled /\ polled = 0
                                      THEN "select" ELSE "refill"
              [] OTHER -> "select"
  /\ batchLoops' = IF mode = "BatchPoll" THEN LoopBatch ELSE batchLoops
  /\ refilled' = FALSE /\ polled' = 0
  /\ UNCHANGED <<buffers, evq, primed, batch, sending, loopErr, chan, lost>>
  /\ LoopStep

\* pollEvq has returned without an error.
Polled ==
  /\ epc = "event" /\ batch = <<>>
  /\ epc' = CASE mode = "EvqWait" -> IF ~ refilled /\ polled = 0
                                       THEN "wait" ELSE "select"
              [] mode = "FDWait" -> IF ~ refilled /\ polled = 0
                                      THEN "prime" ELSE "refill"
              [] OTHER -> "select"
  /\ batchLoops' = IF mode = "BatchPoll" THEN LoopBatch ELSE batchLoops
  /\ refilled' = FALSE /\ polled' = 0
  /\ UNCHANGED <<buffers, evq, primed, batch, sending, loopErr, chan, lost>>
  /\ LoopStep

\* ef_vi_prime at the current position of the event queue.
Prime ==
  /\ epc = "prime" /\ vi = "live"
  /\ primed' = TRUE
  /\ epc' = "select"
  /\ UNCHANGED <<buffers, evq, refilled, polled, batch, sending, batchLoops,
                 loopErr, chan, lost>>
  /\ LoopStep

\* ef_eventq_wait returns once an event is there.
Wait ==
  /\ epc = "wait" /\ vi = "live" /\ evq # <<>>
  /\ epc' = "select"
  /\ UNCHANGED <<buffers, evq, primed, refilled, polled, batch, sending,
                 batchLoops, loopErr, chan, lost>>
  /\ LoopStep

\* ef_eventq_wait, poll or ef_vi_prime fails.
WaitFails ==
  /\ epc \in {"wait", "fdpoll", "prime"}
  /\ Leaves("loop")
  /\ UNCHANGED <<buffers, evq, primed, refilled, polled, batch, sending,
                 batchLoops, chan, lost>>
  /\ LoopStep

\* The event loop uses the interface after dev.Release has freed it.
UsesFreedVI ==
  /\ vi = "freed"
  /\ \/ epc \in {"refill", "decide", "poll", "prime"}
     \/ epc = "event" /\ batch # <<>> /\ Head(batch) # NoBuf
  /\ epc' = "crashed"
  /\ UNCHANGED <<buffers, evq, primed, refilled, polled, batch, sending,
                 batchLoops, loopErr, chan, lost>>
  /\ LoopStep

\* Bug form: the goroutine declares its own err.
LoopReturnsShadowed ==
  /\ epc = "leave" /\ epc' = "release"
  /\ UNCHANGED <<buffers, ctxDone, vi, evq, primed, mode, refilled, polled,
                 batch, sending, batchLoops, loopErr, chan, closed, consumer,
                 err, overwritten, lost>>

\* err = eventLoop(ctx, pktCh)
LoopReturns ==
  /\ epc = "leave"
  /\ err' = loopErr /\ epc' = "release"
  /\ UNCHANGED <<buffers, ctxDone, vi, evq, primed, mode, refilled, polled,
                 batch, sending, batchLoops, loopErr, chan, closed, consumer,
                 overwritten, lost>>

\* The deferred dev.Release, close(pktCh) and done.Done().
LoopExits ==
  /\ epc = "release"
  /\ vi' = "freed" /\ closed' = TRUE /\ epc' = "exited"
  /\ UNCHANGED <<buffers, ctxDone, evq, primed, mode, refilled, polled, batch,
                 sending, batchLoops, loopErr, chan, consumer, err, overwritten,
                 lost>>

-----------------------------------------------------------------------------
(* StartCapture's own loop.                                                *)

Running == epc # "crashed"

ConsumerStep ==
  /\ Running
  /\ UNCHANGED <<ctxDone, evq, primed, loop, closed>>

\* A write to err, and whether it hides the event loop's error.
Assign(e) ==
  /\ err' = e
  /\ overwritten' = (overwritten \/ err = "loop")

\* The context is done, or the channel is closed and drained.
SelectDone ==
  /\ cpc = "select" /\ ctxDone
  /\ cpc' = "wait"
  /\ UNCHANGED <<buffers, vi, chan, pkt, transport, segment, result, handlerErr, err,
                 overwritten, lost>>
  /\ ConsumerStep

SelectClosed ==
  /\ cpc = "select" /\ closed /\ chan = <<>>
  /\ cpc' = "wait"
  /\ UNCHANGED <<buffers, vi, chan, pkt, transport, segment, result, handlerErr, err,
                 overwritten, lost>>
  /\ ConsumerStep

\* A packet, and the decoding of its transport header.
SelectPacket ==
  /\ cpc = "select" /\ chan # <<>>
  /\ pkt' = <<Head(chan)>> /\ chan' = Tail(chan)
  /\ \/ /\ transport' = "segment" /\ Assign("nil")
        /\ segment' = TRUE /\ cpc' = "call"
     \/ /\ transport' = "badSegment" /\ Assign("unpack")
        /\ cpc' = "next" /\ UNCHANGED segment
     \/ /\ transport' = "otherTransport" /\ cpc' = "next"
        /\ UNCHANGED <<segment, err, overwritten>>
  /\ UNCHANGED <<buffers, vi, result, handlerErr, lost>>
  /\ ConsumerStep

\* _, err = fn(session, timestamp, payload)
CallHandler ==
  /\ cpc = "call"
  /\ \E e \in Outcomes : Assign(e) /\ handlerErr' = IF e = "nil" THEN handlerErr ELSE e
  /\ cpc' = "check"
  /\ UNCHANGED <<buffers, vi, chan, pkt, transport, segment, result, lost>>
  /\ ConsumerStep

\* err is read again: the event loop may have written it meanwhile.
CheckFails ==
  /\ cpc = "check" /\ err # "nil"
  /\ Recycles(pkt[1])
  /\ pkt' = <<>>
  /\ cpc' = IF err = "EOF" THEN "eof" ELSE "failed"
  /\ UNCHANGED <<vi, chan, transport, segment, result, handlerErr, err, overwritten>>
  /\ ConsumerStep

CheckPasses ==
  /\ cpc = "check" /\ err = "nil"
  /\ cpc' = "next"
  /\ UNCHANGED <<buffers, vi, chan, pkt, transport, segment, result, handlerErr, err,
                 overwritten, lost>>
  /\ ConsumerStep

\* return nil, or return the err of this moment; then dev.Release.
ReturnsEarly ==
  /\ cpc \in {"eof", "failed"}
  /\ result' = IF cpc = "eof" THEN "nil" ELSE err
  /\ cpc' = "returned" /\ vi' = "freed"
  /\ UNCHANGED <<buffers, chan, pkt, transport, segment, handlerErr, err, overwritten,
                 lost>>
  /\ ConsumerStep

\* Bug form: no packet is released.
NextPacketForgets ==
  /\ cpc = "next"
  /\ UNCHANGED <<buffers, lost>>
  /\ pkt' = <<>> /\ transport' = "segment" /\ cpc' = "select"
  /\ UNCHANGED <<vi, chan, segment, result, handlerErr, err, overwritten>>
  /\ ConsumerStep

\* NEXT: the segment is released, or the packet if there is no segment.  The
\* segment of a packet that was not decoded is the one of an earlier packet,
\* already released, unless the pool handed out the same segment again.
NextPacket ==
  /\ cpc = "next"
  /\ \/ Recycles(pkt[1]) /\ (transport = "otherTransport" => ~ segment)
     \/ Drops(pkt[1]) /\ transport # "segment" /\ segment
  /\ pkt' = <<>> /\ transport' = "segment" /\ cpc' = "select"
  /\ UNCHANGED <<vi, chan, segment, result, handlerErr, err, overwritten>>
  /\ ConsumerStep

\* Bug form: the event loop is not waited for.
ReturnUnwaited ==
  /\ cpc = "wait"
  /\ cpc' = "returned" /\ result' = err /\ vi' = "freed"
  /\ UNCHANGED <<buffers, chan, pkt, transport, segment, handlerErr, err, overwritten,
                 lost>>
  /\ ConsumerStep

\* done.Wait() and return; dev.Release has run in the event loop.
Return ==
  /\ cpc = "wait" /\ epc = "exited"
  /\ cpc' = "returned" /\ result' = err
  /\ UNCHANGED <<buffers, vi, chan, pkt, transport, segment, handlerErr, err, overwritten,
                 lost>>
  /\ ConsumerStep

-----------------------------------------------------------------------------
EventLoop ==
  \/ LoopSelect \/ FDPoll \/ Refill \/ Decide \/ Poll \/ EventHandled
  \/ EventFails \/ Send \/ Polled \/ Prime \/ Wait \/ UsesFreedVI
  \/ LoopReturns \/ LoopExits

Consume ==
  \/ SelectDone \/ SelectClosed \/ SelectPacket \/ CallHandler \/ CheckFails
  \/ CheckPasses \/ ReturnsEarly \/ NextPacket \/ Return

Next ==
  \/ Cancel \/ NICResets \/ Fill \/ FilterFails \/ Start
  \/ NICReceives \/ EventLoop \/ WaitFails \/ Consume

Spec == Init /\ [][Next]_vars

-----------------------------------------------------------------------------
(* Properties.                                                             *)

(* The values of the variables.                                            *)
TypeOK ==
  /\ Ring!TypeOK
  /\ ctxDone \in BOOLEAN /\ vi \in {"live", "freed"}
  /\ evq \in Seq(Buf \cup {NoBuf}) /\ batch \in Seq(Buf \cup {NoBuf})
  /\ chan \in Seq(Buf) /\ sending \in Seq(Buf) /\ pkt \in Seq(Buf)
  /\ transport \in Transport
  /\ Len(sending) <= 1 /\ Len(pkt) <= 1 /\ Len(chan) <= ChanCap
  /\ polled \in 0 .. PollBatch /\ Len(batch) <= polled
  /\ primed \in BOOLEAN /\ refilled \in BOOLEAN /\ closed \in BOOLEAN
  /\ mode \in Mode /\ batchLoops \in -1 .. LoopBatch
  /\ epc \in {"idle", "select", "fdpoll", "refill", "decide", "poll", "event",
              "send", "prime", "wait", "leave", "release", "exited", "crashed"}
  /\ cpc \in {"create", "start", "select", "call", "check", "next", "eof",
              "failed", "wait", "returned"}
  /\ segment \in BOOLEAN /\ handlerErr \in {"nil", "handler", "EOF"} /\ overwritten \in BOOLEAN
  /\ err \in Errors /\ loopErr \in {"nil", "loop"}
  /\ result \in Errors \cup {"none", "filter"}
  /\ lost \subseteq Buf

\* What the adapter has reported and the capture has still to handle, oldest
\* first.
Pipeline == pkt \o chan \o sending \o batch \o evq

PipelineBufs == {Pipeline[i] : i \in DOMAIN Pipeline} \ {NoBuf}

(* Every buffer the application holds is in one place on its way from the  *)
(* adapter to the handler, or it is one of the buffers the code drops: no  *)
(* other path loses a buffer, releases one twice or hands out one that the *)
(* adapter may write to.                                                   *)
Accounted ==
  /\ TypeOK
  /\ PipelineBufs \cup lost = app
  /\ PipelineBufs \cap lost = {}
  /\ \A i, j \in DOMAIN Pipeline :
       Pipeline[i] = Pipeline[j] /\ Pipeline[i] # NoBuf => i = j

(* Packets never overtake each other: not in the batch, at the send, in    *)
(* the channel or at the handler.                                          *)
InOrder ==
  [][\A i, j \in DOMAIN Pipeline, k, l \in DOMAIN Pipeline' :
       /\ i < j /\ Pipeline[i] # NoBuf /\ Pipeline[j] # NoBuf
       /\ Pipeline'[k] = Pipeline[i] /\ Pipeline'[l] = Pipeline[j]
       => k < l]_vars

(* StartCapture returns nil only when it was cancelled, when the handler   *)
(* asked for the end with io.EOF, or when the event loop had failed and a  *)
(* packet still in the channel wrote the shared err after it.              *)
NilMeansStopped == result = "nil" => ctxDone \/ handlerErr = "EOF" \/ overwritten

(* The buffers' owners change as OnloadRing allows, in every interleaving  *)
(* of the two goroutines and the adapter.                                  *)
ImplementsRing == Ring!Spec

(* The event loop uses the interface after dev.Release has freed it only   *)
(* when the handler has failed, which makes StartCapture return without    *)
(* waiting for the loop; a cancelled capture waits for it.                 *)
ReleasedAfterUse == epc = "crashed" => handlerErr # "nil"
=============================================================================
