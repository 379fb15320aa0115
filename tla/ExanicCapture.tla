--------------------------- MODULE ExanicCapture ----------------------------
(***************************************************************************)
(* exanic/cgo_exanic_linux.go: StartCapture and the goroutine that feeds   *)
(* it, with the pools of core/core.go their frames come from.  The         *)
(* goroutine takes a frame from etherFrmPool, lets the adapter write into  *)
(* its buffer, decodes the Ethernet and IPv4 headers and sends the packet  *)
(* over a channel; StartCapture decodes the transport header, calls the    *)
(* handler and releases the packet, which returns frame and buffer.        *)
(*                                                                         *)
(* A frame that is released goes to etherFrmPool with its buffer, and the  *)
(* buffer goes to payloadPool as well.  IPv4Packet values stay with their  *)
(* frame until both are released, so the frame stands for both.            *)
(***************************************************************************)
EXTENDS Integers, Sequences

CONSTANTS
  Frame,     \* the EtherFrame objects memory is allocated for
  Slice,     \* the payload slices
  ChanCap,   \* defaultPktBufferLen
  Kinds,     \* what received frames hold, see Kind
  Outcomes,  \* what the handler may return as its error
  MaxId,     \* bound: frames the adapter receives
  NoFrame, NoSlice

\* A frame with a TCP or UDP segment, with one whose header does not unpack,
\* with another transport, with an Ethernet or IPv4 header that does not
\* unpack, and one that is not IPv4.
Kind == {"segment", "badSegment", "otherTransport", "badHeader", "notIP"}

ASSUME ExanicAssumption ==
  /\ ChanCap \in Nat \ {0} /\ MaxId \in Nat
  /\ Kinds \subseteq Kind
  /\ Outcomes \subseteq {"nil", "handler", "EOF"}
  /\ NoFrame \notin Frame /\ NoSlice \notin Slice

VARIABLES
  ctxDone,      \* ctx is cancelled
  handle, rx,   \* dev.handler; the receive buffer: none, null, live or freed
  framePool,    \* etherFrmPool
  payloadPool,  \* payloadPool
  buf,          \* per frame: the slice its Buffer refers to
  data,         \* per slice: the number of the frame last written into it
  lastId,       \* the frames received so far are numbered 1 .. lastId
  ppc, frm,     \* the goroutine, and its variable frm
  sending,      \* the packet of a pending send, or <<>>
  chan, closed, \* pktCh
  cpc,          \* where StartCapture is
  pkt,          \* the packet received from pktCh, or <<>>
  segment,      \* the variable segment is set
  preLayer,     \* the packet its preLayer leads to, or <<>>
  releasing,    \* the frame of an EtherFrame.Release between its two Puts
  err, result   \* the named result, and what was returned

pools == <<framePool, payloadPool, buf>>
producer == <<data, lastId, ppc, frm, sending>>
consumer == <<cpc, pkt, segment, preLayer, releasing, err, result>>
vars == <<ctxDone, handle, rx, pools, producer, chan, closed, consumer>>

Init ==
  /\ ctxDone = FALSE /\ handle = "live" /\ rx = "none"
  /\ framePool = {} /\ payloadPool = {}
  /\ buf = [f \in Frame |-> NoSlice]
  /\ data = [s \in Slice |-> 0] /\ lastId = 0
  /\ ppc = "idle" /\ frm = NoFrame /\ sending = <<>>
  /\ chan = <<>> /\ closed = FALSE
  /\ cpc = "start" /\ pkt = <<>>
  /\ segment = FALSE /\ preLayer = <<>> /\ releasing = NoFrame
  /\ err = "nil" /\ result = "none"

\* The packets on their way to the handler, oldest first.
Pipeline == pkt \o chan \o sending

PipelineFrames == {Pipeline[i].frm : i \in DOMAIN Pipeline}

\* The frames somebody holds; the others are not allocated.
Allocated == framePool \cup PipelineFrames \cup {frm, releasing}

SlicesInUse == payloadPool \cup {buf[f] : f \in Allocated \ {NoFrame}}

Cancel ==
  /\ ~ ctxDone /\ ctxDone' = TRUE
  /\ UNCHANGED <<handle, rx, pools, producer, chan, closed, consumer>>

-----------------------------------------------------------------------------
(* The start of StartCapture.                                              *)

\* The filter buffer or the filter cannot be had.  The release of rx is
\* deferred only afterwards.
StartFails ==
  /\ cpc = "start"
  /\ rx' \in {"none", "live"} /\ handle' = "freed"
  /\ cpc' = "returned" /\ result' = "filter"
  /\ UNCHANGED <<ctxDone, pools, producer, chan, closed, pkt, segment,
                 preLayer, releasing, err>>

\* Without a filter, what exanic_acquire_rx_buffer returns is not checked.
Start ==
  /\ cpc = "start"
  /\ rx' \in {"live", "null"}
  /\ cpc' = "select" /\ ppc' = "select"
  /\ UNCHANGED <<ctxDone, handle, pools, data, lastId, frm, sending, chan,
                 closed, pkt, segment, preLayer, releasing, err, result>>

-----------------------------------------------------------------------------
(* The receiving goroutine.                                                *)

Running == ppc # "crashed"

ProducerStep == UNCHANGED <<ctxDone, handle, rx, consumer>>

\* Bug form: break leaves the select, not the loop.
ProducerExitsBreaks ==
  /\ ppc = "select" /\ ctxDone
  /\ UNCHANGED vars

\* ctx.Done(): the deferred close(pktCh) and done.Done().
ProducerExits ==
  /\ ppc = "select" /\ ctxDone
  /\ ppc' = "exited" /\ closed' = TRUE
  /\ UNCHANGED <<pools, data, lastId, frm, sending, chan>>
  /\ ProducerStep

\* etherFrmPool.Get() finds a frame: it comes with the buffer it had.
GetPooledFrame ==
  \E f \in framePool :
    /\ frm' = f /\ framePool' = framePool \ {f}
    /\ UNCHANGED <<payloadPool, buf>>

\* payloadPool.GetSlice(): a slice that was put there, or a new one.
GetSlice(s) ==
  \/ s \in payloadPool /\ payloadPool' = payloadPool \ {s}
  \/ /\ s \in Slice \ SlicesInUse
     /\ s = CHOOSE t \in Slice \ SlicesInUse : TRUE
     /\ UNCHANGED payloadPool

\* etherFrmPool.Get() finds none and calls New.  A sync.Pool may lose what
\* was put into it, or not find it from another thread.
GetNewFrame ==
  /\ Frame \ Allocated # {}
  /\ \E s \in Slice :
       LET f == CHOOSE g \in Frame \ Allocated : TRUE IN
       /\ GetSlice(s)
       /\ frm' = f
       /\ buf' = [buf EXCEPT ![f] = s]
  /\ UNCHANGED framePool

CreateEmptyEtherFrame ==
  /\ ppc = "select" /\ ~ ctxDone
  /\ GetPooledFrame \/ GetNewFrame
  /\ ppc' = "receive"
  /\ UNCHANGED <<data, lastId, sending, chan, closed>>
  /\ ProducerStep

\* The whole of EtherFrame.Release; the other goroutine takes nothing from
\* the pools.  A slice that is in the pool already is kept there once.
ReleaseFrame(f) ==
  /\ framePool' = framePool \cup {f}
  /\ payloadPool' = payloadPool \cup {buf[f]}
  /\ frm' = NoFrame
  /\ ppc' = "select"
  /\ UNCHANGED <<buf, sending>>

\* No frame is there.
ReceiveNothing ==
  /\ ppc = "receive" /\ rx = "live"
  /\ ReleaseFrame(frm)
  /\ UNCHANGED <<data, lastId, chan, closed>>
  /\ ProducerStep

\* The adapter's frame is damaged, or longer than the buffer, which an
\* earlier frame may have cut: a part of it may have been copied.
ReceiveFails ==
  /\ ppc = "receive" /\ rx = "live" /\ lastId < MaxId
  /\ lastId' = lastId + 1
  /\ data' \in {data, [data EXCEPT ![buf[frm]] = lastId']}
  /\ ReleaseFrame(frm)
  /\ UNCHANGED <<chan, closed>>
  /\ ProducerStep

\* A frame is received and its Ethernet and IPv4 headers are decoded.
ReceiveFrame(kind) ==
  /\ ppc = "receive" /\ rx = "live" /\ lastId < MaxId
  /\ lastId' = lastId + 1
  /\ data' = [data EXCEPT ![buf[frm]] = lastId']
  /\ IF kind \in {"badHeader", "notIP"}
       THEN ReleaseFrame(frm)
       ELSE /\ sending' = <<[frm |-> frm, id |-> lastId', kind |-> kind]>>
            /\ frm' = NoFrame /\ ppc' = "send"
            /\ UNCHANGED <<framePool, payloadPool, buf>>
  /\ UNCHANGED <<chan, closed>>
  /\ ProducerStep

\* exanic_receive_frame on a receive buffer that is NULL or was released.
ReceiveCrashes ==
  /\ ppc = "receive" /\ rx # "live"
  /\ ppc' = "crashed"
  /\ UNCHANGED <<pools, data, lastId, frm, sending, chan, closed>>
  /\ ProducerStep

\* pktCh <- pkt
Send ==
  /\ ppc = "send" /\ Len(chan) < ChanCap
  /\ chan' = chan \o sending
  /\ sending' = <<>> /\ ppc' = "select"
  /\ UNCHANGED <<pools, data, lastId, frm, closed>>
  /\ ProducerStep

-----------------------------------------------------------------------------
(* StartCapture's loop.                                                    *)

ConsumerStep ==
  /\ Running
  /\ UNCHANGED <<ctxDone, buf, producer, closed>>

\* The context is done, or the channel is closed and drained.
SelectDone ==
  /\ cpc = "select" /\ (ctxDone \/ (closed /\ chan = <<>>))
  /\ cpc' = "wait"
  /\ UNCHANGED <<handle, rx, framePool, payloadPool, chan, pkt, segment,
                 preLayer, releasing, err, result>>
  /\ ConsumerStep

\* A packet; its transport header is decoded into a segment from a pool,
\* which may be the one the variable segment still refers to.
SelectPacket ==
  /\ cpc = "select" /\ chan # <<>>
  /\ pkt' = <<Head(chan)>> /\ chan' = Tail(chan)
  /\ \/ /\ Head(chan).kind = "segment"
        /\ segment' = TRUE /\ preLayer' = pkt' /\ err' = "nil"
        /\ cpc' = "call"
     \/ /\ Head(chan).kind = "badSegment"
        /\ preLayer' \in IF segment THEN {preLayer, pkt'} ELSE {preLayer}
        /\ err' = "unpack" /\ cpc' = "next"
        /\ UNCHANGED segment
     \/ /\ Head(chan).kind = "otherTransport"
        /\ cpc' = "next"
        /\ UNCHANGED <<segment, preLayer, err>>
  /\ UNCHANGED <<handle, rx, framePool, payloadPool, releasing, result>>
  /\ ConsumerStep

\* _, err = fn(session, timestamp, payload)
CallHandler ==
  /\ cpc = "call"
  /\ err' \in Outcomes
  /\ cpc' = IF err' = "nil" THEN "next" ELSE "fail"
  /\ UNCHANGED <<handle, rx, framePool, payloadPool, chan, pkt, segment,
                 preLayer, releasing, result>>
  /\ ConsumerStep

\* Bug form: Release leaves the preLayer of the segment as it is.
ReleasedLayerKept == UNCHANGED preLayer

\* seg.preLayer = nil
ReleasedLayer == preLayer' = <<>>

\* segment.Release(), or pkt.Release() without a segment, up to the Put of
\* the frame.  A segment released before leads to no packet any more.
ReleasePacket ==
  /\ cpc \in {"next", "fail"}
  /\ LET p == IF segment THEN preLayer ELSE pkt IN
       IF p = <<>>
         THEN /\ cpc' = "select"
              /\ UNCHANGED <<framePool, releasing>>
         ELSE /\ cpc' = IF cpc = "next" THEN "putNext" ELSE "putFail"
              /\ framePool' = framePool \cup {p[1].frm}
              /\ releasing' = p[1].frm
  /\ ReleasedLayer
  /\ pkt' = <<>>
  /\ UNCHANGED <<handle, rx, payloadPool, chan, segment, err, result>>
  /\ ConsumerStep

\* payloadPool.PutSlice(frm.Buffer): the frame is in its pool already, and
\* may be the goroutine's by now.
PutSlice ==
  /\ cpc \in {"putNext", "putFail"}
  /\ payloadPool' = payloadPool \cup {buf[releasing]}
  /\ releasing' = NoFrame
  /\ cpc' = IF cpc = "putNext" THEN "select" ELSE "return"
  /\ UNCHANGED <<handle, rx, framePool, chan, pkt, segment, preLayer, err,
                 result>>
  /\ ConsumerStep

\* Bug form: the receive buffer is not released.
ReturnsKeepingRx(e) ==
  /\ cpc' = "returned" /\ result' = e /\ handle' = "freed"
  /\ UNCHANGED <<rx, framePool, payloadPool, chan, pkt, segment, preLayer,
                 releasing, err>>
  /\ ConsumerStep

\* The deferred calls of StartCapture.
Returns(e) ==
  /\ cpc' = "returned" /\ result' = e
  /\ rx' = "freed" /\ handle' = "freed"
  /\ UNCHANGED <<framePool, payloadPool, chan, pkt, segment, preLayer,
                 releasing, err>>
  /\ ConsumerStep

\* The handler failed: return without waiting for the goroutine.
ReturnsEarly ==
  /\ cpc = "return"
  /\ Returns(IF err = "EOF" THEN "nil" ELSE err)

\* Bug form: the goroutine is not waited for.
ReturnUnwaited ==
  /\ cpc = "wait"
  /\ Returns(err)

\* done.Wait()
Return ==
  /\ cpc = "wait" /\ ppc = "exited"
  /\ Returns(err)

-----------------------------------------------------------------------------
Receive ==
  \/ ProducerExits \/ CreateEmptyEtherFrame \/ ReceiveNothing \/ ReceiveFails
  \/ \E kind \in Kinds : ReceiveFrame(kind)
  \/ ReceiveCrashes \/ Send

Consume ==
  \/ SelectDone \/ SelectPacket \/ CallHandler \/ ReleasePacket \/ PutSlice
  \/ ReturnsEarly \/ Return

Next == Cancel \/ StartFails \/ Start \/ Receive \/ Consume

Spec == Init /\ [][Next]_vars

-----------------------------------------------------------------------------
(* Properties.                                                             *)

Packet == [frm : Frame, id : 1 .. MaxId, kind : Kind]

(* The values of the variables.                                            *)
TypeOK ==
  /\ ctxDone \in BOOLEAN /\ handle \in {"live", "freed"}
  /\ rx \in {"none", "null", "live", "freed"}
  /\ framePool \subseteq Frame /\ payloadPool \subseteq Slice
  /\ buf \in [Frame -> Slice \cup {NoSlice}]
  /\ data \in [Slice -> 0 .. MaxId] /\ lastId \in 0 .. MaxId
  /\ ppc \in {"idle", "select", "receive", "send", "exited", "crashed"}
  /\ frm \in Frame \cup {NoFrame} /\ releasing \in Frame \cup {NoFrame}
  /\ chan \in Seq(Packet) /\ sending \in Seq(Packet) /\ pkt \in Seq(Packet)
  /\ preLayer \in Seq(Packet)
  /\ Len(sending) <= 1 /\ Len(pkt) <= 1 /\ Len(chan) <= ChanCap
  /\ cpc \in {"start", "select", "call", "next", "fail", "putNext", "putFail",
              "return", "wait", "returned"}
  /\ closed \in BOOLEAN /\ segment \in BOOLEAN
  /\ err \in {"nil", "unpack", "handler", "EOF"}
  /\ result \in {"none", "filter", "nil", "unpack", "handler"}

(* A frame has one holder: it is in the pool, in the goroutine's hands or  *)
(* in one packet, although a segment is released again and again and the   *)
(* goroutine may take a frame whose Release has not ended.                 *)
FramesAccounted ==
  /\ TypeOK
  /\ \A i, j \in DOMAIN Pipeline : Pipeline[i].frm = Pipeline[j].frm => i = j
  /\ framePool \cap (PipelineFrames \cup {frm}) = {}
  /\ frm \notin PipelineFrames
  /\ preLayer # <<>> => preLayer = pkt

(* A capture that ends by its context keeps the receive buffer until the   *)
(* goroutine has stopped using it.  Only a handler's error takes it away   *)
(* under the goroutine, and only a missing buffer is used at all without   *)
(* having been there.                                                      *)
ReleasedAfterUse ==
  ppc = "crashed" => rx = "null" \/ err \in {"handler", "EOF"}

(* When StartCapture has returned, it has given back the device and the    *)
(* receive buffer, except where the filter was refused.                    *)
DeviceReleased ==
  cpc = "returned" => handle = "freed" /\ (rx = "live" => result = "filter")

(* The data a DataHandler is called with is the transport payload of the   *)
(* packet its session and timestamp come from: the buffer still holds the  *)
(* frame that was received into it.                                        *)
HandlerSeesPacket == cpc = "call" => data[buf[pkt[1].frm]] = pkt[1].id
=============================================================================
