---------------------------- MODULE PcapCapture -----------------------------
(***************************************************************************)
(* pcap/capture.go: StartCapture takes packets from a libpcap source,      *)
(* keeps one StreamCache per TCP session in the package-level map          *)
(* defaultStreamCaches of core/stream.go, and offers the payload of every  *)
(* packet to the data handler.  The map outlives the capture: a later      *)
(* StartCapture of the same process finds the caches as they were left.    *)
(***************************************************************************)
EXTENDS StreamCacheOps

CONSTANTS
  Session,      \* the 5-tuples on the wire
  NoSession,    \* the nil *Session
  Kinds,        \* the kinds of packets on the wire
  Payloads,     \* the payloads they carry, by number of bytes
  Answers        \* the counts of used bytes the handler may report

\* not_ip: no IPv4 layer.  other: IPv4 without TCP or UDP.  bad_tcp, bad_udp:
\* the IPv4 header announces a transport header that does not decode.
AllKinds == {"tcp", "udp", "other", "not_ip", "bad_tcp", "bad_udp"}

ASSUME PcapAssumption ==
  /\ NoSession \notin Session
  /\ Kinds \subseteq AllKinds
  /\ Payloads \subseteq Nat
  /\ Answers \subseteq Int

VARIABLES
  at,         \* select, handle, returned or panicked
  hasHandler, \* fn # nil
  cancelled,    \* the context is cancelled
  source,     \* the packet source: open or ended
  caches,     \* defaultStreamCaches: a cache for every session in the map
  session,    \* the session the handler is called with
  buffer,     \* the data it is called with
  usesCache,  \* cache # nil in the iteration
  received,   \* per session, all TCP payload captured
  consumed,      \* per session, what the handler reported as used
  misled      \* the sessions a negative count was reported for

loop == <<at, session, buffer, usesCache>>
streams == <<caches, received, consumed, misled>>
env == <<hasHandler, cancelled, source>>
captureVars == <<loop, streams, env>>

CaptureInit ==
  /\ at = "select" /\ hasHandler \in BOOLEAN
  /\ cancelled = FALSE /\ source = "open"
  /\ caches = << >>
  /\ session = NoSession /\ buffer = << >> /\ usesCache = FALSE
  /\ received = [s \in Session |-> << >>]
  /\ consumed = [s \in Session |-> << >>]
  /\ misled = {}

-----------------------------------------------------------------------------
(* The environment.                                                        *)

CancelCapture ==
  /\ ~ cancelled
  /\ cancelled' = TRUE
  /\ UNCHANGED <<loop, streams, hasHandler, source>>

SourceEnds ==
  /\ source = "open"
  /\ source' = "ended"
  /\ UNCHANGED <<loop, streams, hasHandler, cancelled>>

\* The process calls StartCapture again, with a new context and source.
StartAgain ==
  /\ at = "returned"
  /\ at' = "select" /\ cancelled' = FALSE /\ source' = "open"
  /\ UNCHANGED <<session, buffer, usesCache, streams, hasHandler>>

-----------------------------------------------------------------------------
(* One iteration of the loop.                                              *)

\* Bug form: break leaves the select, not the loop.
CaptureDoneBreaks ==
  /\ at = "select" /\ cancelled
  /\ UNCHANGED captureVars

\* case <-ctx.Done(); a packet that is ready as well may be chosen instead.
CaptureDone ==
  /\ at = "select" /\ cancelled
  /\ at' = "returned"
  /\ UNCHANGED <<session, buffer, usesCache, streams, env>>

\* The closed channel yields a nil packet.
SelectEnd ==
  /\ at = "select" /\ source = "ended"
  /\ at' = "returned"
  /\ UNCHANGED <<session, buffer, usesCache, streams, env>>

Receiving(kind) ==
  /\ at = "select" /\ source = "open"
  /\ kind \in Kinds

Call(s, data, cached) ==
  /\ at' = "handle"
  /\ session' = s /\ buffer' = data /\ usesCache' = cached

\* fn is nil, or the packet carries no payload.
Skip(kind, n) ==
  /\ Receiving(kind)
  /\ ~ hasHandler \/ (kind \in {"tcp", "udp"} /\ n = 0)
  /\ UNCHANGED captureVars

\* pkg.Layer(IPv4).(*layers.IPv4) panics on a nil layer; a transport layer
\* that is missing is a nil pointer whose Payload is read.
PacketPanics(kind) ==
  /\ Receiving(kind) /\ hasHandler
  /\ kind \in {"not_ip", "bad_tcp", "bad_udp"}
  /\ at' = "panicked"
  /\ UNCHANGED <<session, buffer, usesCache, streams, env>>

\* Bug form: the cache of another session is looked up.
GetStreamCacheAnyOf(s) ==
  IF DOMAIN caches = {} THEN NewStreamCache ELSE caches[CHOOSE t \in DOMAIN caches : TRUE]

\* GetStreamCache: the cache of the session, a new one the first time.
GetStreamCache(s) == IF s \in DOMAIN caches THEN caches[s] ELSE NewStreamCache

\* A TCP payload joins the session's cache and the handler is offered all of
\* what the cache then holds.
TCPPacket(s, payload) ==
  LET old == GetStreamCache(s)
      cache == Merge(old, payload)
  IN
  /\ Receiving("tcp") /\ hasHandler /\ Len(payload) > 0
  /\ ~ (old.used < 0 /\ old.offset > 0)
  /\ received' = [received EXCEPT ![s] = @ \o payload]
  /\ caches' = [t \in DOMAIN caches \cup {s} |-> IF t = s THEN cache ELSE caches[t]]
  /\ Call(s, Bytes(cache), TRUE)
  /\ UNCHANGED <<consumed, misled, env>>

\* Bytes(), which Merge calls, panics when an earlier negative count has
\* moved the window before the buffer.
MergePanics(s, n) ==
  LET old == GetStreamCache(s) IN
  /\ Receiving("tcp") /\ hasHandler /\ n > 0
  /\ old.used < 0 /\ old.offset > 0
  /\ at' = "panicked"
  /\ UNCHANGED <<session, buffer, usesCache, streams, env>>

UDPPacket(s, n) ==
  /\ Receiving("udp") /\ hasHandler /\ n > 0
  /\ Call(s, [i \in 1 .. n |-> Zero], FALSE)
  /\ UNCHANGED <<streams, env>>

\* The default case of the switch logs and goes on to the call.
OtherPacket ==
  /\ Receiving("other") /\ hasHandler
  /\ Call(NoSession, << >>, FALSE)
  /\ UNCHANGED <<streams, env>>

\* The bytes of data that a count of used bytes stands for.
Prefix(data, used) ==
  SubSeq(data, 1, IF used < 0 \/ used > Len(data) THEN Len(data) ELSE used)

\* cache.Rotate(used, nil) on the cache of the iteration.
RotateCache(used) ==
  /\ caches' = [caches EXCEPT ![session] = Rotate(@, used, << >>)]
  /\ consumed' = [consumed EXCEPT ![session] = @ \o Prefix(buffer, used)]
  /\ misled' = IF used < 0 THEN misled \cup {session} ELSE misled

\* The handler returns a count and no error.
FnReturns(used) ==
  /\ at = "handle"
  /\ at' = "select"
  /\ IF usesCache THEN RotateCache(used) ELSE UNCHANGED <<caches, consumed, misled>>
  /\ UNCHANGED <<session, buffer, usesCache, received, env>>

\* The handler returns io.EOF or another error: StartCapture returns and
\* the session keeps the bytes the handler was offered.
FnFails ==
  /\ at = "handle"
  /\ at' = "returned"
  /\ UNCHANGED <<session, buffer, usesCache, streams, env>>

Capture ==
  \/ CaptureDone \/ SelectEnd
  \/ \E kind \in Kinds, n \in Payloads : Skip(kind, n)
  \/ \E kind \in Kinds : PacketPanics(kind)
  \/ \E s \in Session, n \in Payloads :
       \/ \E payload \in [1 .. n -> Byte] : TCPPacket(s, payload)
       \/ MergePanics(s, n) \/ UDPPacket(s, n)
  \/ OtherPacket
  \/ \E used \in Answers : FnReturns(used)
  \/ FnFails

CaptureNext == Capture \/ CancelCapture \/ SourceEnds \/ StartAgain

CaptureSpec == CaptureInit /\ [][CaptureNext]_captureVars

-----------------------------------------------------------------------------
(* Properties.                                                             *)

(* The values of the program's variables; a count that is too large does   *)
(* not move a window past its end.                                         *)
CaptureTypeOK ==
  /\ at \in {"select", "handle", "returned", "panicked"}
  /\ hasHandler \in BOOLEAN /\ cancelled \in BOOLEAN /\ usesCache \in BOOLEAN
  /\ source \in {"open", "ended"}
  /\ session \in Session \cup {NoSession}
  /\ buffer \in Seq(Byte)
  /\ misled \subseteq Session
  /\ received \in [Session -> Seq(Byte)] /\ consumed \in [Session -> Seq(Byte)]
  /\ DOMAIN caches \subseteq Session
  /\ \A s \in DOMAIN caches :
       caches[s].used <= caches[s].offset /\ caches[s].offset <= caches[s].cap

(* Sessions do not mix: what a session's packets carried is exactly what   *)
(* its handler calls used followed by what its own cache holds, however    *)
(* the packets of the sessions interleave and however many captures the    *)
(* process runs one after the other.  A negative count damages at most the *)
(* session it was reported for.  The handler sees the oldest bytes of its  *)
(* session that it has not used, up to the newest captured.                *)
SessionsIntact ==
  /\ CaptureTypeOK
  /\ \A s \in Session \ misled :
       /\ received[s] = consumed[s] \o (IF s \in DOMAIN caches THEN Bytes(caches[s]) ELSE << >>)
       /\ at = "handle" /\ usesCache /\ session = s => received[s] = consumed[s] \o buffer
=============================================================================
