--------------------------- MODULE StreamCacheOps ---------------------------
(***************************************************************************)
(* core/stream.go: the StreamCache value and its methods as operators on   *)
(* records.  A cache keeps the bytes of a TCP stream that the data handler *)
(* has not used yet in the window buffer[used:offset] of a backing array.  *)
(*                                                                         *)
(* The backing array is a function on 0..cap-1, indexed as Go indexes it;  *)
(* the byte slices callers pass in and get back are sequences.             *)
(***************************************************************************)
EXTENDS Integers, Sequences

CONSTANTS
  Byte,          \* the values of a byte
  Zero,          \* the byte make() fills a slice with
  MaxBytesSize   \* pool.MaxBytesSize, the capacity a new cache starts with

ASSUME StreamCacheAssumption ==
  /\ Zero \in Byte
  /\ MaxBytesSize \in Nat \ {0}

\* The struct: the backing array has cap bytes.
CachesOf(n) == [cap : {n}, offset : Nat, used : Nat, buffer : [0 .. n - 1 -> Byte]]

IsCache(c) == c.cap \in Nat /\ c \in CachesOf(c.cap)

\* make([]byte, n)
MakeBytes(n) == [i \in 0 .. n - 1 |-> Zero]

\* The first n bytes of dst after copy(dst[lo:], src): copy stops at the end
\* of the shorter slice, so bytes of src that do not fit are dropped.
CopyInto(dst, n, lo, src) ==
  [i \in 0 .. n - 1 |-> IF lo <= i /\ i < lo + Len(src) THEN src[i - lo + 1] ELSE dst[i]]

NewStreamCache ==
  [cap    |-> MaxBytesSize,
   offset |-> 0,
   used   |-> 0,
   buffer |-> MakeBytes(MaxBytesSize)]

-----------------------------------------------------------------------------
(* Accessors.                                                              *)

Free(c) == c.cap - c.offset

CacheLen(c) == c.offset - c.used

\* The bytes of the slice expression buffer[lo:hi].
Slice(buffer, lo, hi) == [i \in 1 .. hi - lo |-> buffer[lo + i - 1]]

Bytes(c) == Slice(c.buffer, c.used, c.offset)

-----------------------------------------------------------------------------
(* append: make room for size more bytes, then copy them in.               *)

\* Bug form: the window is copied to the front but its bounds are kept.
MoveForwardKeepsUsed(c) ==
  [c EXCEPT !.buffer = CopyInto(c.buffer, c.cap, 0, Bytes(c)), !.offset = CacheLen(c)]

\* The unused bytes move to the front of the same array.
MoveForward(c) ==
  [cap    |-> c.cap,
   offset |-> CacheLen(c),
   used   |-> 0,
   buffer |-> CopyInto(c.buffer, c.cap, 0, Bytes(c))]

\* The unused bytes move to the front of a larger array.
Grow(c, size) ==
  LET newCap == IF size < c.cap \div 2 THEN c.cap + size * 2 ELSE c.cap + size IN
  [cap    |-> newCap,
   offset |-> c.offset - c.used,
   used   |-> 0,
   buffer |-> CopyInto(MakeBytes(newCap), newCap, 0, Bytes(c))]

\* Bug form: an array is never reused for its consumed prefix.
MakeRoomAlwaysGrows(c, size) ==
  IF size <= Free(c) THEN c ELSE Grow(c, size)

\* Bug form: the space the consumed prefix occupies is counted as free.
MakeRoomNoMove(c, size) ==
  IF size + CacheLen(c) <= c.cap THEN c ELSE Grow(c, size)

MakeRoom(c, size) ==
  IF size <= Free(c)
  THEN c
  ELSE IF size + CacheLen(c) <= c.cap /\ CacheLen(c) <= c.used
       THEN MoveForward(c)
       ELSE Grow(c, size)

AppendData(c, data) ==
  IF Len(data) = 0
  THEN c
  ELSE LET r == MakeRoom(c, Len(data)) IN
       [cap    |-> r.cap,
        offset |-> r.offset + Len(data),
        used   |-> r.used,
        buffer |-> CopyInto(r.buffer, r.cap, r.offset, data)]

-----------------------------------------------------------------------------
(* The two exported operations that change a cache.                        *)

\* The same array with the window moved to buffer[used:offset].
Window(c, used, offset) ==
  [cap |-> c.cap, offset |-> offset, used |-> used, buffer |-> c.buffer]

Rotate(c, n, data) ==
  AppendData(IF n >= CacheLen(c) THEN Window(c, 0, 0) ELSE Window(c, c.used + n, c.offset),
             data)

Merge(c, data) ==
  IF Len(data) = 0
  THEN c
  ELSE AppendData(IF c.offset <= 0 \/ c.used >= c.offset THEN Window(c, 0, 0) ELSE c, data)
=============================================================================
