---------------------------- MODULE StreamCache -----------------------------
(***************************************************************************)
(* One StreamCache of core/stream.go under every sequence of Merge and     *)
(* Rotate calls its callers can make.  Chunks are the slices they pass;    *)
(* UsedCounts the numbers of used bytes they report, not negative ones     *)
(* here (the callers that pass a negative count on are modelled where they *)
(* call).                                                                  *)
(***************************************************************************)
EXTENDS StreamCacheOps

CONSTANTS
  Chunks,       \* the byte slices callers add
  UsedCounts    \* the counts of used bytes callers report

ASSUME CallerAssumption ==
  /\ \A data \in Chunks : data \in Seq(Byte)
  /\ UsedCounts \subseteq Nat

VARIABLES
  stream,  \* the struct
  call     \* the last call made on it

streamVars == <<stream, call>>

StreamInit ==
  /\ stream = NewStreamCache
  /\ call = [op |-> "new"]

DoMerge(data) ==
  /\ stream' = Merge(stream, data)
  /\ call' = [op |-> "merge", data |-> data]

DoRotate(n, data) ==
  /\ stream' = Rotate(stream, n, data)
  /\ call' = [op |-> "rotate", used |-> n, data |-> data]

StreamNext ==
  \/ \E data \in Chunks : DoMerge(data)
  \/ \E n \in UsedCounts, data \in Chunks : DoRotate(n, data)

StreamSpec == StreamInit /\ [][StreamNext]_streamVars

-----------------------------------------------------------------------------
(* The cache has the shape of the Go struct: the backing array really has  *)
(* cap bytes, which append relies on when it replaces cache.buffer.        *)
StreamTypeOK == IsCache(stream)

(* Every slice expression of stream.go is in bounds: Bytes() slices        *)
(* buffer[used:offset] and append slices buffer[offset:], both of which    *)
(* panic unless used <= offset <= cap.                                     *)
SlicesInBounds ==
  /\ stream.used <= stream.offset
  /\ stream.offset <= stream.cap

(* append takes a larger array only when the data it then holds fills more *)
(* than half of the old one: while callers keep up, a connection of any    *)
(* length runs in the memory it started with.                              *)
GrowthJustified ==
  [][stream'.cap # stream.cap =>
       stream'.cap > stream.cap /\ stream.cap < 2 * CacheLen(stream')]_streamVars

(* Whatever moving and reallocating append does, the cache behaves as the  *)
(* byte queue of ByteStream, call by call: no byte is lost, duplicated or  *)
(* reordered, none leaves the cache but the ones a Rotate reports as used, *)
(* and the slice Merge returns is the whole of the unused stream.          *)
Queue == INSTANCE ByteStream WITH pending <- Bytes(stream)

ImplementsByteStream == Queue!Spec
=============================================================================
