------------------------- MODULE StreamCacheProofs --------------------------
(***************************************************************************)
(* What the operations of StreamCacheOps do to the bytes a cache holds,    *)
(* for every byte type and initial capacity, and the theorems that follow: *)
(* about StreamCache, for every set of slices and set of counts; about     *)
(* DialTCP, for every stream, read buffer size and set of counts the       *)
(* handler reports; about PcapCapture, for every set of sessions, payload  *)
(* sizes and counts.                                                       *)
(*                                                                         *)
(* Each lemma on an operation keeps a cache well formed and says what      *)
(* Bytes() returns afterwards; the proofs about the code that owns a cache *)
(* cite them.  The inductive invariant of StreamCache is its type and      *)
(* SlicesInBounds together: neither holds alone after append, which copies *)
(* to positions derived from the other's bounds.  That of DialTCP adds     *)
(* three facts to the properties: the cache is well formed, what was       *)
(* offered is what was used plus what the cache holds, and a loop that has *)
(* chosen to read has made no late call.                                   *)
(***************************************************************************)
EXTENDS StreamCache, DialTCP, PcapCapture, SequenceTheorems, TLAPS

\* A cache in the states its methods leave it in.
WellFormed(c) == IsCache(c) /\ c.used <= c.offset /\ c.offset <= c.cap

(* NewStreamCache makes an empty, well-formed cache.                       *)
LEMMA NewWellFormed == WellFormed(NewStreamCache) /\ Bytes(NewStreamCache) = << >>
<1>1. MakeBytes(MaxBytesSize) \in [0 .. MaxBytesSize - 1 -> Byte]
  BY Zenon, StreamCacheAssumption DEF MakeBytes
<1>2. WellFormed(NewStreamCache)
  BY <1>1, StreamCacheAssumption DEF WellFormed, IsCache, CachesOf, NewStreamCache
<1>3. Bytes(NewStreamCache) = << >>
  BY DEF Bytes, Slice, CacheLen, NewStreamCache
<1> QED BY Zenon, <1>2, <1>3

(* What a well-formed cache holds is a sequence of bytes of the right      *)
(* length.                                                                 *)
LEMMA BytesType ==
  ASSUME NEW c, WellFormed(c)
  PROVE  /\ Bytes(c) \in Seq(Byte)
         /\ Len(Bytes(c)) = c.offset - c.used
         /\ \A i \in 1 .. c.offset - c.used : Bytes(c)[i] = c.buffer[c.used + i - 1]
<1>1. c.offset - c.used \in Nat
  BY DEF WellFormed, IsCache, CachesOf
<1>2. \A i \in 1 .. c.offset - c.used : c.buffer[c.used + i - 1] \in Byte
  BY DEF WellFormed, IsCache, CachesOf
<1> QED BY <1>1, <1>2 DEF Bytes, Slice, CacheLen

\* Two caches that hold the same bytes, in whatever places, agree on Bytes.
LEMMA SameBytes ==
  ASSUME NEW c, WellFormed(c), NEW r, WellFormed(r),
         r.offset - r.used = c.offset - c.used,
         \A i \in 1 .. c.offset - c.used : r.buffer[r.used + i - 1] = Bytes(c)[i]
  PROVE  Bytes(r) = Bytes(c)
<1>1. Bytes(r) = [i \in 1 .. c.offset - c.used |-> r.buffer[r.used + i - 1]]
  BY Zenon DEF Bytes, Slice, CacheLen
<1>2. Bytes(c) = [i \in 1 .. c.offset - c.used |-> Bytes(c)[i]]
  BY Zenon DEF Bytes, Slice, CacheLen
<1> QED BY Zenon, <1>1, <1>2

(* copy() yields an array of bytes.                                        *)
LEMMA CopyType ==
  ASSUME NEW n \in Nat, NEW lo \in Nat, NEW src \in Seq(Byte),
         NEW dst \in [0 .. n - 1 -> Byte]
  PROVE  CopyInto(dst, n, lo, src) \in [0 .. n - 1 -> Byte]
<1> SUFFICES ASSUME NEW i \in 0 .. n - 1
             PROVE  (IF lo <= i /\ i < lo + Len(src) THEN src[i - lo + 1] ELSE dst[i]) \in Byte
  BY Zenon DEF CopyInto
<1> QED OBVIOUS

\* Copying data behind the window buffer[used:offset] appends it to the window.
LEMMA CopyAppends ==
  ASSUME NEW n \in Nat, NEW used \in Nat, NEW offset \in Nat,
         NEW dst \in [0 .. n - 1 -> Byte], NEW data \in Seq(Byte),
         used <= offset, offset + Len(data) <= n
  PROVE  Slice(CopyInto(dst, n, offset, data), used, offset + Len(data))
           = Slice(dst, used, offset) \o data
<1> DEFINE w == [i \in 1 .. offset - used |-> dst[used + i - 1]]
           a == [i \in 1 .. offset + Len(data) - used |->
                   CopyInto(dst, n, offset, data)[used + i - 1]]
<1>0. Len(data) \in Nat
  OBVIOUS
<1>1. w \in Seq(Byte) /\ Len(w) = offset - used
  <2>1. offset - used \in Nat
    OBVIOUS
  <2>2. \A i \in 1 .. offset - used : dst[used + i - 1] \in Byte
    BY <1>0
  <2> QED BY <2>1, <2>2
<1>2. /\ w \o data \in Seq(Byte)
      /\ Len(w \o data) = offset - used + Len(data)
      /\ \A i \in 1 .. offset - used + Len(data) :
           (w \o data)[i] = IF i <= offset - used THEN w[i] ELSE data[i - (offset - used)]
  <2> HIDE DEF w
  <2>1. /\ w \o data \in Seq(Byte)
        /\ Len(w \o data) = Len(w) + Len(data)
        /\ \A i \in 1 .. Len(w) + Len(data) :
             (w \o data)[i] = IF i <= Len(w) THEN w[i] ELSE data[i - Len(w)]
    BY <1>1, ConcatProperties, Zenon
  <2> QED BY Zenon, <1>0, <1>1, <2>1
<1>3. ASSUME NEW i \in 1 .. offset + Len(data) - used
      PROVE  CopyInto(dst, n, offset, data)[used + i - 1] = (w \o data)[i]
  <2> DEFINE k == used + i - 1
  <2>1. k \in 0 .. n - 1 /\ k < offset + Len(data) /\ k - offset + 1 = i - (offset - used)
    BY <1>0
  <2>2. CopyInto(dst, n, offset, data)[k]
          = IF offset <= k THEN data[k - offset + 1] ELSE dst[k]
    <3> HIDE DEF k
    <3> QED BY Zenon, <1>0, <2>1 DEF CopyInto
  <2>3. CASE i <= offset - used
    <3>1. (w \o data)[i] = w[i] /\ w[i] = dst[k] /\ ~ (offset <= k)
      BY <1>0, <1>2, <2>3
    <3> QED BY Zenon, <2>2, <3>1
  <2>4. CASE ~ (i <= offset - used)
    <3>1. (w \o data)[i] = data[i - (offset - used)] /\ offset <= k
      BY <1>0, <1>2, <2>4
    <3> QED BY Zenon, <2>1, <2>2, <3>1
  <2> QED BY Zenon, <2>3, <2>4
<1>4. w \o data = [i \in 1 .. offset + Len(data) - used |-> (w \o data)[i]]
  <2> DEFINE s == w \o data
  <2>1. offset + Len(data) - used = offset - used + Len(data)
    BY <1>0
  <2>2. s = [i \in 1 .. Len(s) |-> s[i]]
    <3>1. s \in Seq(Byte)
      BY Zenon, <1>2
    <3> HIDE DEF s
    <3> QED BY <3>1, LenProperties, Zenon
  <2> QED BY <1>2, <2>1, <2>2, Zenon
<1>5. w \o data = a
  BY Zenon, <1>3, <1>4
<1>6. Slice(dst, used, offset) = w
  BY Zenon DEF Slice
<1>7. Slice(CopyInto(dst, n, offset, data), used, offset + Len(data)) = a
  BY DEF Slice
<1> HIDE DEF w, a
<1> QED BY <1>5, <1>6, <1>7, Zenon

\* What is copied to the front is found there.
LEMMA CopyFront ==
  ASSUME NEW n \in Nat, NEW dst, NEW src \in Seq(Byte), Len(src) <= n,
         NEW i \in 1 .. Len(src)
  PROVE  CopyInto(dst, n, 0, src)[i - 1] = src[i]
  BY DEF CopyInto

(* Moving the unused bytes to the front keeps them.                        *)
LEMMA MoveForwardKeepsBytes ==
  ASSUME NEW c, WellFormed(c)
  PROVE  /\ WellFormed(MoveForward(c))
         /\ Bytes(MoveForward(c)) = Bytes(c)
         /\ MoveForward(c).cap = c.cap
         /\ MoveForward(c).offset = CacheLen(c)
         /\ MoveForward(c).used = 0
<1> DEFINE r == MoveForward(c)
<1>1. c.cap \in Nat /\ c.offset \in Nat /\ c.used \in Nat /\ c.buffer \in [0 .. c.cap - 1 -> Byte]
      /\ c.used <= c.offset /\ c.offset <= c.cap
  BY Zenon DEF WellFormed, IsCache, CachesOf
<1>2. CopyInto(c.buffer, c.cap, 0, Bytes(c)) \in [0 .. c.cap - 1 -> Byte]
  BY Zenon, <1>1, BytesType, CopyType
<1>3. r = [cap |-> c.cap, offset |-> c.offset - c.used, used |-> 0,
           buffer |-> CopyInto(c.buffer, c.cap, 0, Bytes(c))]
  BY Zenon DEF MoveForward, CacheLen
<1>4. WellFormed(r)
  BY <1>1, <1>2, <1>3 DEF WellFormed, IsCache, CachesOf
<1>5. Bytes(r) = Bytes(c)
  <2>1. ASSUME NEW i \in 1 .. c.offset - c.used
        PROVE  r.buffer[i - 1] = Bytes(c)[i]
    <3>1. /\ Bytes(c) \in Seq(Byte) /\ Len(Bytes(c)) <= c.cap
          /\ i \in 1 .. Len(Bytes(c))
      BY <1>1, <2>1, BytesType
    <3>2. CopyInto(c.buffer, c.cap, 0, Bytes(c))[i - 1] = Bytes(c)[i]
      BY <1>1, <3>1, CopyFront
    <3> QED BY <1>3, <3>2
  <2> QED BY <1>1, <1>3, <1>4, <2>1, SameBytes
<1> QED BY <1>3, <1>4, <1>5 DEF CacheLen

(* A larger array has the same unused bytes.                               *)
LEMMA GrowKeepsBytes ==
  ASSUME NEW c, WellFormed(c), NEW size \in Nat
  PROVE  /\ WellFormed(Grow(c, size))
         /\ Bytes(Grow(c, size)) = Bytes(c)
         /\ Grow(c, size).cap >= c.cap + size
         /\ Grow(c, size).offset = CacheLen(c)
         /\ Grow(c, size).used = 0
<1> DEFINE newCap == IF size < c.cap \div 2 THEN c.cap + size * 2 ELSE c.cap + size
           r == Grow(c, size)
<1>1. c.cap \in Nat /\ c.offset \in Nat /\ c.used \in Nat /\ c.buffer \in [0 .. c.cap - 1 -> Byte]
      /\ c.used <= c.offset /\ c.offset <= c.cap
  BY Zenon DEF WellFormed, IsCache, CachesOf
<1>2. newCap \in Nat /\ newCap >= c.cap + size
  BY <1>1
<1> HIDE DEF newCap
<1>3. MakeBytes(newCap) \in [0 .. newCap - 1 -> Byte]
  BY Zenon, StreamCacheAssumption DEF MakeBytes
<1>4. CopyInto(MakeBytes(newCap), newCap, 0, Bytes(c)) \in [0 .. newCap - 1 -> Byte]
  BY Zenon, <1>2, <1>3, BytesType, CopyType
<1>5. r = [cap |-> newCap, offset |-> c.offset - c.used, used |-> 0,
           buffer |-> CopyInto(MakeBytes(newCap), newCap, 0, Bytes(c))]
  BY Zenon DEF Grow, newCap
<1>6. WellFormed(r)
  BY <1>1, <1>2, <1>4, <1>5 DEF WellFormed, IsCache, CachesOf
<1>7. Bytes(r) = Bytes(c)
  <2>1. ASSUME NEW i \in 1 .. c.offset - c.used
        PROVE  r.buffer[i - 1] = Bytes(c)[i]
    <3>1. /\ Bytes(c) \in Seq(Byte) /\ Len(Bytes(c)) <= newCap
          /\ i \in 1 .. Len(Bytes(c))
      BY <1>1, <1>2, <2>1, BytesType
    <3>2. CopyInto(MakeBytes(newCap), newCap, 0, Bytes(c))[i - 1] = Bytes(c)[i]
      BY <1>2, <3>1, CopyFront
    <3> QED BY <1>5, <3>2
  <2> QED BY <1>1, <1>5, <1>6, <2>1, SameBytes
<1> QED BY <1>2, <1>5, <1>6, <1>7 DEF CacheLen

(* append's choice between the two makes room and keeps the bytes.         *)
LEMMA MakeRoomKeepsBytes ==
  ASSUME NEW c, WellFormed(c), NEW size \in Nat
  PROVE  /\ WellFormed(MakeRoom(c, size))
         /\ Bytes(MakeRoom(c, size)) = Bytes(c)
         /\ size <= Free(MakeRoom(c, size))
         /\ MakeRoom(c, size).cap >= c.cap
         /\ MakeRoom(c, size).cap # c.cap => c.cap < 2 * (CacheLen(c) + size)
<1>1. c.cap \in Nat /\ c.offset \in Nat /\ c.used \in Nat
      /\ c.used <= c.offset /\ c.offset <= c.cap
  BY Zenon DEF WellFormed, IsCache, CachesOf
<1>2. CASE size <= Free(c)
  BY <1>1, <1>2 DEF MakeRoom
<1>3. CASE ~ (size <= Free(c)) /\ size + CacheLen(c) <= c.cap /\ CacheLen(c) <= c.used
  <2>1. MakeRoom(c, size) = MoveForward(c)
    BY Zenon, <1>3 DEF MakeRoom
  <2> QED BY <1>1, <1>3, <2>1, MoveForwardKeepsBytes DEF Free, CacheLen
<1>4. CASE ~ (size <= Free(c)) /\ ~ (size + CacheLen(c) <= c.cap /\ CacheLen(c) <= c.used)
  <2>1. MakeRoom(c, size) = Grow(c, size)
    BY Zenon, <1>4 DEF MakeRoom
  <2> DEFINE g == Grow(c, size)
  <2>2. /\ WellFormed(g) /\ Bytes(g) = Bytes(c)
        /\ g.cap >= c.cap + size /\ g.offset = CacheLen(c) /\ g.used = 0
    BY Zenon, GrowKeepsBytes
  <2>3. g.cap \in Nat
    BY Zenon, <2>2 DEF WellFormed, IsCache
  <2> HIDE DEF g
  <2>4. size <= Free(g) /\ g.cap >= c.cap
    BY <1>1, <2>2, <2>3 DEF Free, CacheLen
  <2>5. c.cap < 2 * (CacheLen(c) + size)
    BY <1>1, <1>4 DEF Free, CacheLen
  <2> QED BY Zenon, <2>1, <2>2, <2>4, <2>5 DEF g
<1> QED BY Zenon, <1>2, <1>3, <1>4

\* append adds its argument to the unused bytes and leaves the rest alone.
LEMMA AppendConcatenates ==
  ASSUME NEW c, WellFormed(c), NEW data \in Seq(Byte)
  PROVE  /\ WellFormed(AppendData(c, data))
         /\ Bytes(AppendData(c, data)) = Bytes(c) \o data
         /\ AppendData(c, data).cap >= c.cap
         /\ AppendData(c, data).cap # c.cap =>
              c.cap < 2 * CacheLen(AppendData(c, data))
<1> DEFINE r == MakeRoom(c, Len(data))
           a == AppendData(c, data)
<1>0. c.cap \in Nat /\ Len(data) \in Nat
  BY DEF WellFormed, IsCache
<1>1. CASE Len(data) = 0
  <2>1. a = c /\ data = << >>
    BY Zenon, <1>1, EmptySeq DEF AppendData
  <2> QED BY <1>0, <2>1, BytesType, ConcatEmptySeq
<1>2. CASE Len(data) # 0
  <2>1. /\ WellFormed(r) /\ Bytes(r) = Bytes(c) /\ Len(data) <= Free(r)
        /\ r.cap >= c.cap
        /\ r.cap # c.cap => c.cap < 2 * (CacheLen(c) + Len(data))
    BY MakeRoomKeepsBytes
  <2>2. a = [cap |-> r.cap, offset |-> r.offset + Len(data), used |-> r.used,
             buffer |-> CopyInto(r.buffer, r.cap, r.offset, data)]
    BY Zenon, <1>2 DEF AppendData
  <2> HIDE DEF r, a
  <2>3. /\ r.cap \in Nat /\ r.offset \in Nat /\ r.used \in Nat
        /\ r.used <= r.offset /\ r.offset + Len(data) <= r.cap
        /\ r.buffer \in [0 .. r.cap - 1 -> Byte]
    BY <2>1 DEF WellFormed, IsCache, CachesOf, Free
  <2>4. CopyInto(r.buffer, r.cap, r.offset, data) \in [0 .. r.cap - 1 -> Byte]
    BY Zenon, <2>3, CopyType
  <2>5. WellFormed(a)
    BY <2>2, <2>3, <2>4 DEF WellFormed, IsCache, CachesOf
  <2>9. Bytes(a) = Bytes(r) \o data
    <3>1. /\ a.offset = r.offset + Len(data) /\ a.used = r.used
          /\ a.buffer = CopyInto(r.buffer, r.cap, r.offset, data)
      BY Zenon, <2>2
    <3>2. Slice(CopyInto(r.buffer, r.cap, r.offset, data), r.used, r.offset + Len(data))
            = Slice(r.buffer, r.used, r.offset) \o data
      BY ZenonT(30), <2>3, CopyAppends
    <3> QED BY <3>1, <3>2, Zenon DEF Bytes
  <2>10. CacheLen(a) = CacheLen(c) + Len(data)
    <3>1. Len(Bytes(c)) = CacheLen(c)
      BY Zenon, BytesType DEF CacheLen
    <3>2. Len(Bytes(r)) = r.offset - r.used
      BY Zenon, <2>1, BytesType
    <3> QED BY <1>0, <2>1, <2>2, <2>3, <3>1, <3>2 DEF CacheLen
  <2> QED BY <2>1, <2>2, <2>5, <2>9, <2>10 DEF a
<1> QED BY Zenon, <1>1, <1>2

-----------------------------------------------------------------------------
(* The exported operations on the sequence of unused bytes.                *)

\* s without its first n bytes.
Unused(s, n) == SubSeq(s, n + 1, Len(s))

\* A window moved within the data drops what it passes over.
LEMMA WindowDrops ==
  ASSUME NEW c, WellFormed(c), NEW n \in Nat, n < CacheLen(c)
  PROVE  /\ WellFormed(Window(c, c.used + n, c.offset))
         /\ Bytes(Window(c, c.used + n, c.offset)) = Unused(Bytes(c), n)
<1> DEFINE w == Window(c, c.used + n, c.offset)
<1>1. /\ w.cap = c.cap /\ w.offset = c.offset /\ w.used = c.used + n
      /\ w.buffer = c.buffer
  BY Zenon DEF Window
<1>2. WellFormed(w)
  BY DEF WellFormed, IsCache, CachesOf, CacheLen, Window
<1> HIDE DEF w
<1>3. /\ c.offset \in Nat /\ c.used \in Nat /\ c.used + n < c.offset
  BY DEF WellFormed, IsCache, CachesOf, CacheLen
<1>4. /\ Bytes(c) \in Seq(Byte) /\ Len(Bytes(c)) = c.offset - c.used
      /\ \A i \in 1 .. c.offset - c.used : Bytes(c)[i] = c.buffer[c.used + i - 1]
  BY Zenon, BytesType
<1>5. /\ Bytes(w) \in Seq(Byte) /\ Len(Bytes(w)) = c.offset - (c.used + n)
      /\ \A i \in 1 .. c.offset - (c.used + n) : Bytes(w)[i] = c.buffer[c.used + n + i - 1]
  BY <1>1, <1>2, BytesType
<1> DEFINE s == Bytes(c)  t == Bytes(w)  L == c.offset - c.used
<1>6. \A i \in 1 .. L - n : t[i] = s[n + i]
  <2> TAKE i \in 1 .. L - n
  <2>1. i \in 1 .. c.offset - (c.used + n) /\ n + i \in 1 .. c.offset - c.used
    BY <1>3
  <2>2. t[i] = c.buffer[c.used + n + i - 1] /\ s[n + i] = c.buffer[c.used + (n + i) - 1]
    BY Zenon, <1>4, <1>5, <2>1
  <2>3. c.used + n + i - 1 = c.used + (n + i) - 1
    BY <1>3, <2>1
  <2> QED BY Zenon, <2>2, <2>3
<1>7. s \in Seq(Byte) /\ Len(s) = L /\ t \in Seq(Byte) /\ Len(t) = L - n /\ L \in Nat /\ n < L
  BY <1>3, <1>4, <1>5
<1> HIDE DEF s, t, L
<1>8. t = SubSeq(s, n + 1, Len(s))
  <2> DEFINE d == SubSeq(s, n + 1, L)
  <2>1. d \in Seq(Byte) /\ Len(d) = L - n /\ \A i \in 1 .. L - n : d[i] = s[n + i]
    BY <1>7, SubSeqProperties
  <2> HIDE DEF d
  <2>2. t = d
    BY Zenon, <1>6, <1>7, <2>1, SeqEqual
  <2> QED BY Zenon, <1>7, <2>2 DEF d
<1> QED BY Zenon, <1>2, <1>8 DEF s, t, w, Unused

(* A cache whose offsets are equal holds nothing.                          *)
LEMMA EmptyWindow ==
  ASSUME NEW c, WellFormed(c)
  PROVE  WellFormed(Window(c, 0, 0)) /\ Bytes(Window(c, 0, 0)) = << >>
<1>1. WellFormed(Window(c, 0, 0))
  BY DEF WellFormed, IsCache, CachesOf, Window
<1>2. Bytes(Window(c, 0, 0)) = << >>
  BY DEF Bytes, Slice, Window
<1> QED BY Zenon, <1>1, <1>2

\* Rotate(used, data): what was used leaves the queue, data joins it.
LEMMA RotateIsDropAppend ==
  ASSUME NEW c, WellFormed(c), NEW n \in Nat, NEW data \in Seq(Byte)
  PROVE  /\ WellFormed(Rotate(c, n, data))
         /\ Bytes(Rotate(c, n, data)) = Unused(Bytes(c), n) \o data
         /\ Rotate(c, n, data).cap >= c.cap
         /\ Rotate(c, n, data).cap # c.cap =>
              c.cap < 2 * CacheLen(Rotate(c, n, data))
<1>1. CASE n >= CacheLen(c)
  <2>1. Unused(Bytes(c), n) = << >>
    <3>1. Bytes(c) \in Seq(Byte) /\ Len(Bytes(c)) = CacheLen(c) /\ CacheLen(c) \in Nat
      BY BytesType DEF CacheLen, WellFormed, IsCache, CachesOf
    <3> DEFINE s == Bytes(c)
    <3> HIDE DEF s
    <3>2. SubSeq(s, n + 1, Len(s)) = << >>
      BY <1>1, <3>1, SubSeqEmpty DEF s
    <3> QED BY Zenon, <3>2 DEF s, Unused
  <2>2. Rotate(c, n, data) = AppendData(Window(c, 0, 0), data)
    BY Zenon, <1>1 DEF Rotate
  <2> DEFINE w == Window(c, 0, 0)
  <2>3. w.cap = c.cap
    BY Zenon DEF Window
  <2>4. WellFormed(w) /\ Bytes(w) = << >>
    BY Zenon, <2>1, EmptyWindow
  <2> HIDE DEF w
  <2>5. /\ WellFormed(AppendData(w, data))
        /\ Bytes(AppendData(w, data)) = Bytes(w) \o data
        /\ AppendData(w, data).cap >= w.cap
        /\ AppendData(w, data).cap # w.cap =>
             w.cap < 2 * CacheLen(AppendData(w, data))
    BY Zenon, <2>4, AppendConcatenates
  <2> QED BY Zenon, <2>1, <2>2, <2>3, <2>4, <2>5 DEF w
<1>2. CASE ~ (n >= CacheLen(c))
  <2>1. n < CacheLen(c)
    BY <1>2 DEF CacheLen, WellFormed, IsCache, CachesOf
  <2>2. Rotate(c, n, data) = AppendData(Window(c, c.used + n, c.offset), data)
    BY Zenon, <1>2 DEF Rotate
  <2> DEFINE w == Window(c, c.used + n, c.offset)
  <2>3. w.cap = c.cap
    BY Zenon DEF Window
  <2>4. WellFormed(w) /\ Bytes(w) = Unused(Bytes(c), n)
    BY Zenon, <2>1, WindowDrops
  <2> HIDE DEF w
  <2>5. /\ WellFormed(AppendData(w, data))
        /\ Bytes(AppendData(w, data)) = Bytes(w) \o data
        /\ AppendData(w, data).cap >= w.cap
        /\ AppendData(w, data).cap # w.cap =>
             w.cap < 2 * CacheLen(AppendData(w, data))
    BY Zenon, <2>4, AppendConcatenates
  <2> QED BY Zenon, <2>1, <2>2, <2>3, <2>4, <2>5 DEF w
<1> QED BY Zenon, <1>1, <1>2

\* Merge(data): data joins the queue.
LEMMA MergeIsAppend ==
  ASSUME NEW c, WellFormed(c), NEW data \in Seq(Byte)
  PROVE  /\ WellFormed(Merge(c, data))
         /\ Bytes(Merge(c, data)) = Bytes(c) \o data
         /\ Merge(c, data).cap >= c.cap
         /\ Merge(c, data).cap # c.cap => c.cap < 2 * CacheLen(Merge(c, data))
<1>1. CASE Len(data) = 0
  <2>1. Merge(c, data) = c /\ data = << >>
    BY Zenon, <1>1, EmptySeq DEF Merge
  <2>2. c.cap \in Nat
    BY Zenon DEF WellFormed, IsCache
  <2> QED BY <2>1, <2>2, BytesType, ConcatEmptySeq
<1>2. CASE Len(data) # 0 /\ (c.offset <= 0 \/ c.used >= c.offset)
  <2>1. Merge(c, data) = AppendData(Window(c, 0, 0), data)
    BY Zenon, <1>2 DEF Merge
  <2>2. Bytes(c) = << >>
    <3>1. Len(Bytes(c)) = 0 /\ Bytes(c) \in Seq(Byte)
      BY <1>2, BytesType DEF WellFormed, IsCache, CachesOf
    <3> QED BY Zenon, <3>1, EmptySeq
  <2> DEFINE w == Window(c, 0, 0)
  <2>3. w.cap = c.cap
    BY Zenon DEF Window
  <2>4. WellFormed(w) /\ Bytes(w) = << >>
    BY Zenon, <2>1, EmptyWindow
  <2> HIDE DEF w
  <2>5. /\ WellFormed(AppendData(w, data))
        /\ Bytes(AppendData(w, data)) = Bytes(w) \o data
        /\ AppendData(w, data).cap >= w.cap
        /\ AppendData(w, data).cap # w.cap =>
             w.cap < 2 * CacheLen(AppendData(w, data))
    BY Zenon, <2>4, AppendConcatenates
  <2> QED BY Zenon, <2>1, <2>2, <2>3, <2>4, <2>5 DEF w
<1>3. CASE Len(data) # 0 /\ ~ (c.offset <= 0 \/ c.used >= c.offset)
  <2>1. Merge(c, data) = AppendData(c, data)
    BY Zenon, <1>3 DEF Merge
  <2> QED BY <2>1, AppendConcatenates
<1> QED BY Zenon, <1>1, <1>2, <1>3

-----------------------------------------------------------------------------
(* StreamCache.                                                            *)

\* The inductive invariant.
StreamInv == WellFormed(stream)

(* A new cache has the invariant.                                          *)
LEMMA StreamInitInv == StreamInit => StreamInv
  BY Zenon, NewWellFormed DEF StreamInit, StreamInv

(* Merge and Rotate keep the invariant.                                    *)
LEMMA StreamNextInv == StreamInv /\ [StreamNext]_streamVars => StreamInv'
<1> SUFFICES ASSUME WellFormed(stream), [StreamNext]_streamVars
             PROVE  WellFormed(stream')
  BY Zenon DEF StreamInv
<1>1. ASSUME NEW data \in Chunks, DoMerge(data)
      PROVE  WellFormed(stream')
  BY Zenon, <1>1, CallerAssumption, MergeIsAppend DEF DoMerge
<1>2. ASSUME NEW n \in UsedCounts, NEW data \in Chunks, DoRotate(n, data)
      PROVE  WellFormed(stream')
  BY Zenon, <1>2, CallerAssumption, RotateIsDropAppend DEF DoRotate
<1>3. CASE UNCHANGED streamVars
  BY Zenon, <1>3 DEF streamVars
<1> QED BY Zenon, <1>1, <1>2, <1>3 DEF StreamNext

(* The struct stays well typed under every sequence of Merge and Rotate:   *)
(* after append replaces cache.buffer, cache.cap is its length.            *)
THEOREM StreamTypeCorrect == StreamSpec => []StreamTypeOK
<1>1. StreamInv => StreamTypeOK
  BY Zenon DEF StreamInv, WellFormed, StreamTypeOK
<1> QED BY <1>1, StreamInitInv, StreamNextInv, PTL DEF StreamSpec

(* No slice expression of core/stream.go is ever out of bounds, for any    *)
(* initial capacity and any data, as long as callers report counts that    *)
(* are not negative.                                                       *)
THEOREM InBounds == StreamSpec => []SlicesInBounds
<1>1. StreamInv => SlicesInBounds
  BY Zenon DEF StreamInv, WellFormed, SlicesInBounds
<1> QED BY <1>1, StreamInitInv, StreamNextInv, PTL DEF StreamSpec

(* append reallocates only when the data it then holds fills more than     *)
(* half of the array it gives up.                                          *)
THEOREM Growth == StreamSpec => GrowthJustified
<1> DEFINE Justified == stream'.cap # stream.cap =>
                          stream'.cap > stream.cap /\ stream.cap < 2 * CacheLen(stream')
<1>1. StreamInv /\ [StreamNext]_streamVars => [Justified]_streamVars
  <2> SUFFICES ASSUME WellFormed(stream), [StreamNext]_streamVars
               PROVE  [Justified]_streamVars
    BY Zenon DEF StreamInv
  <2>0. stream.cap \in Nat
    BY Zenon DEF WellFormed, IsCache
  <2>1. ASSUME NEW data \in Chunks, DoMerge(data)
        PROVE  Justified
    <3>1. WellFormed(stream') /\ stream'.cap >= stream.cap
          /\ (stream'.cap # stream.cap => stream.cap < 2 * CacheLen(stream'))
      BY Zenon, <2>1, CallerAssumption, MergeIsAppend DEF DoMerge
    <3>2. stream'.cap \in Nat
      BY Zenon, <3>1 DEF WellFormed, IsCache
    <3> QED BY <2>0, <3>1, <3>2
  <2>2. ASSUME NEW n \in UsedCounts, NEW data \in Chunks, DoRotate(n, data)
        PROVE  Justified
    <3>1. WellFormed(stream') /\ stream'.cap >= stream.cap
          /\ (stream'.cap # stream.cap => stream.cap < 2 * CacheLen(stream'))
      BY Zenon, <2>2, CallerAssumption, RotateIsDropAppend DEF DoRotate
    <3>2. stream'.cap \in Nat
      BY Zenon, <3>1 DEF WellFormed, IsCache
    <3> QED BY <2>0, <3>1, <3>2
  <2> QED BY Zenon, <2>1, <2>2 DEF StreamNext
<1> QED BY <1>1, StreamInitInv, StreamNextInv, PTL DEF StreamSpec, GrowthJustified

(* A StreamCache implements the byte queue of ByteStream: through every    *)
(* move and reallocation, no byte of the stream is lost, duplicated or     *)
(* reordered.                                                              *)
THEOREM Refinement == StreamSpec => ImplementsByteStream
<1>1. StreamInit => Queue!Init
  BY Zenon, NewWellFormed DEF StreamInit, Queue!Init
<1>2. StreamInv /\ [StreamNext]_streamVars => [Queue!Next]_<<Bytes(stream), call>>
  <2> SUFFICES ASSUME WellFormed(stream), [StreamNext]_streamVars
               PROVE  [Queue!Next]_<<Bytes(stream), call>>
    BY Zenon DEF StreamInv
  <2>1. ASSUME NEW data \in Chunks, DoMerge(data)
        PROVE  Queue!Next
    <3>1. Bytes(stream)' = Bytes(stream) \o data
      BY Zenon, <2>1, CallerAssumption, MergeIsAppend DEF DoMerge
    <3> QED BY Zenon, <2>1, <3>1 DEF DoMerge, Queue!Next, Queue!Merge
  <2>2. ASSUME NEW n \in UsedCounts, NEW data \in Chunks, DoRotate(n, data)
        PROVE  Queue!Next
    <3>1. Bytes(stream)' = Queue!Drop(Bytes(stream), n) \o data
      BY Zenon, <2>2, CallerAssumption, RotateIsDropAppend DEF DoRotate, Unused, Queue!Drop
    <3> QED BY Zenon, <2>2, <3>1 DEF DoRotate, Queue!Next, Queue!Rotate
  <2>3. CASE UNCHANGED streamVars
    BY Zenon, <2>3 DEF streamVars
  <2> QED BY Zenon, <2>1, <2>2, <2>3 DEF StreamNext
<1> QED BY <1>1, <1>2, StreamInitInv, StreamNextInv, PTL
        DEF StreamSpec, ImplementsByteStream, Queue!Spec

-----------------------------------------------------------------------------
(* The bytes a handler reports as used.                                    *)

\* A sequence is its first n elements followed by the others.
LEMMA Split ==
  ASSUME NEW s \in Seq(Byte), NEW n \in Nat, n <= Len(s)
  PROVE  /\ SubSeq(s, 1, n) \in Seq(Byte)
         /\ Unused(s, n) \in Seq(Byte)
         /\ SubSeq(s, 1, n) \o Unused(s, n) = s
<1>1. Len(s) \in Nat
  BY Zenon, LenProperties
<1>2. /\ SubSeq(s, 1, n) \in Seq(Byte) /\ Len(SubSeq(s, 1, n)) = n
      /\ \A i \in 1 .. n : SubSeq(s, 1, n)[i] = s[i]
  OBVIOUS
<1>3. /\ Unused(s, n) \in Seq(Byte) /\ Len(Unused(s, n)) = Len(s) - n
      /\ \A i \in 1 .. Len(s) - n : Unused(s, n)[i] = s[n + i]
  BY <1>1 DEF Unused
<1> DEFINE p == SubSeq(s, 1, n)  q == Unused(s, n)
<1> HIDE DEF p, q
<1>4. /\ p \o q \in Seq(Byte) /\ Len(p \o q) = Len(s)
      /\ \A i \in 1 .. Len(s) : (p \o q)[i] = s[i]
  BY <1>1, <1>2, <1>3, ConcatProperties DEF p, q
<1>5. p \o q = s
  BY Zenon, <1>4, SeqEqual
<1> QED BY Zenon, <1>2, <1>3, <1>5 DEF p, q

\* Taking the first n bytes of a cache's view from one side to the other.
LEMMA UseBytes ==
  ASSUME NEW a \in Seq(Byte), NEW b \in Seq(Byte), NEW n \in Nat, n <= Len(b)
  PROVE  /\ a \o SubSeq(b, 1, n) \in Seq(Byte)
         /\ (a \o SubSeq(b, 1, n)) \o Unused(b, n) = a \o b
<1> DEFINE p == SubSeq(b, 1, n)  q == Unused(b, n)
<1>1. p \in Seq(Byte) /\ q \in Seq(Byte)
  BY Zenon, Split
<1>2. p \o q = b
  BY Zenon, Split
<1> HIDE DEF p, q
<1>3. a \o p \in Seq(Byte)
  BY <1>1
<1>4. (a \o p) \o q = a \o (p \o q)
  BY <1>1
<1> QED BY Zenon, <1>2, <1>3, <1>4 DEF p, q

-----------------------------------------------------------------------------
(* DialTCP: the inductive invariant.                                       *)

Inv ==
  /\ TypeOK
  /\ WellFormed(cache)
  /\ StreamIntact
  /\ offered = taken \o Bytes(cache)
  /\ cause = "peer_eof" => peer = "closed" /\ pc = "returned" /\ unread = << >>
  /\ ~ ctxDone \/ pc = "read" => lateCalls = 0
  /\ lateCalls <= 1

(* A call of DialTCP starts with the invariant.                            *)
LEMMA InitInv == Init => Inv
<1> SUFFICES ASSUME Init PROVE Inv
  BY Zenon
<1>1. << >> \in Seq(Byte) /\ << >> \o << >> = << >>
  OBVIOUS
<1>2. WellFormed(cache) /\ Bytes(cache) = << >>
  BY Zenon, NewWellFormed DEF Init
<1>3. IsCache(cache)
  BY Zenon, <1>2 DEF WellFormed
<1>4. TypeOK
  BY Zenon, <1>1, <1>3 DEF Init, TypeOK, Causes
<1>5. StreamIntact /\ offered = taken \o Bytes(cache)
  BY Zenon, <1>1, <1>2 DEF Init, StreamIntact
<1> QED BY <1>2, <1>4, <1>5 DEF Init, Inv

\* Steps that leave the stream and the cache where they are.
LEMMA QuietStep ==
  ASSUME Inv, UNCHANGED <<peer, sent, unread, cache, history>>, TypeOK',
         cause' = "peer_eof" => peer = "closed" /\ pc' = "returned" /\ unread = << >>,
         ~ ctxDone' \/ pc' = "read" => ~ ctxDone \/ pc = "read"
  PROVE  Inv'
<1>0. cache' = cache /\ taken' = taken /\ offered' = offered /\ unread' = unread /\ sent' = sent
  BY Zenon DEF history
<1>1. WellFormed(cache') /\ StreamIntact'
  BY Zenon, <1>0 DEF Inv, StreamIntact
<1>2. offered' = taken' \o Bytes(cache')
  BY Zenon, <1>0 DEF Inv
<1> QED BY Zenon, <1>1, <1>2 DEF Inv, history, TypeOK

(* What the peer sends leaves the bytes in order.                          *)
LEMMA PeerSendInv ==
  ASSUME Inv, NEW b \in Byte, PeerSend(b)
  PROVE  Inv'
<1> DEFINE B == Bytes(cache)
<1>0. B \in Seq(Byte) /\ taken \in Seq(Byte) /\ unread \in Seq(Byte) /\ sent \in Seq(Byte)
  BY Zenon, BytesType DEF Inv, TypeOK
<1> HIDE DEF B
<1>1. Append(sent, b) = (taken \o B) \o Append(unread, b)
  <2>1. sent = (taken \o B) \o unread
    BY Zenon DEF Inv, StreamIntact, B
  <2> DEFINE front == taken \o B  last == <<b>>
  <2>2. last \in Seq(Byte) /\ front \in Seq(Byte)
    BY <1>0
  <2>3. Append(sent, b) = sent \o last /\ Append(unread, b) = unread \o last
    BY Zenon, <1>0, AppendIsConcat
  <2> HIDE DEF front, last
  <2>4. (front \o unread) \o last = front \o (unread \o last)
    BY SMTT(20), <1>0, <2>2
  <2> QED BY Zenon, <2>1, <2>3, <2>4 DEF front
<1>2. StreamIntact'
  BY Zenon, <1>1 DEF PeerSend, StreamIntact, history, B
<1>3. TypeOK'
  BY <1>0 DEF Inv, TypeOK, PeerSend, history
<1>4. cause' = "peer_eof" => FALSE
  BY Zenon DEF Inv, PeerSend
<1> QED BY Zenon, <1>2, <1>3, <1>4 DEF Inv, PeerSend, history, TypeOK

(* A Read, with the Merge that follows it, moves bytes from the socket to  *)
(* the cache.                                                              *)
LEMMA ReadDataInv ==
  ASSUME Inv, NEW n \in 1 .. BuffSize, ReadData(n)
  PROVE  Inv'
<1> DEFINE B == Bytes(cache)  got == SubSeq(unread, 1, n)  rest == Unused(unread, n)
<1>0. /\ B \in Seq(Byte) /\ taken \in Seq(Byte) /\ unread \in Seq(Byte)
      /\ n \in Nat /\ n <= Len(unread)
  BY DialAssumption, BytesType DEF Inv, TypeOK, ReadData
<1>1. got \in Seq(Byte) /\ rest \in Seq(Byte)
  BY Zenon, <1>0, Split
<1>12. got \o rest = unread
  BY Zenon, <1>0, Split
<1>2. unread' = rest /\ cache' = Merge(cache, got)
  BY Zenon DEF ReadData, Unused
<1> HIDE DEF B, got, rest
<1>3. WellFormed(cache') /\ Bytes(cache') = B \o got
  BY Zenon, <1>1, <1>2, MergeIsAppend DEF Inv, B
<1>4. taken' = taken /\ sent' = sent /\ offered' = taken \o Bytes(cache')
  BY Zenon DEF ReadData, CallHandler, world
<1>5. StreamIntact'
  <2>1. sent = (taken \o B) \o unread
    BY Zenon DEF Inv, StreamIntact, B
  <2>2. (taken \o (B \o got)) \o rest = (taken \o B) \o (got \o rest)
    <3> DEFINE front == taken \o B
    <3>0. taken \in Seq(Byte) /\ B \in Seq(Byte) /\ got \in Seq(Byte)
      BY Zenon, <1>0, <1>1
    <3>1. taken \o (B \o got) = front \o got
      BY <3>0
    <3>2. front \in Seq(Byte)
      BY <1>0
    <3> HIDE DEF front
    <3>3. (front \o got) \o rest = front \o (got \o rest)
      BY <1>1, <3>2
    <3> QED BY Zenon, <3>1, <3>3 DEF front
  <2> QED BY Zenon, <1>12, <1>2, <1>3, <1>4, <2>1, <2>2 DEF StreamIntact
<1>6. lateCalls = 0
  BY Zenon DEF Inv, ReadData
<1>7. lateCalls' \in Nat /\ lateCalls' <= 1 /\ (~ ctxDone => lateCalls' = 0)
  BY <1>6 DEF ReadData, CallHandler
<1>8. TypeOK'
  <2>1. taken \o Bytes(cache') \in Seq(Byte)
    BY Zenon, <1>0, <1>1, <1>3, ConcatProperties
  <2>2. IsCache(cache')
    BY Zenon, <1>3 DEF WellFormed
  <2> QED BY Zenon, <1>0, <1>1, <1>2, <1>4, <1>7, <2>1, <2>2
          DEF Inv, TypeOK, ReadData, CallHandler, world
<1>9. pc = "read" /\ pc' = "handle" /\ cause' = cause /\ ctxDone' = ctxDone
  BY Zenon DEF ReadData, CallHandler, world
<1>10. cause' # "peer_eof"
  BY Zenon, <1>9 DEF Inv
<1> QED BY Zenon, <1>3, <1>4, <1>5, <1>7, <1>8, <1>9, <1>10 DEF Inv

(* The switch on the handler's count keeps or rotates the cache.           *)
LEMMA HandlerReturnsInv ==
  ASSUME Inv, NEW used \in Counts, HandlerReturns(used)
  PROVE  Inv'
<1> DEFINE B == Bytes(cache)  n == UsedOf(used)
<1>0. /\ B \in Seq(Byte) /\ taken \in Seq(Byte) /\ unread \in Seq(Byte)
      /\ Len(B) = CacheLen(cache) /\ CacheLen(cache) \in Nat /\ used \in Int
  <2>1. WellFormed(cache)
    BY Zenon DEF Inv
  <2>2. CacheLen(cache) \in Nat
    BY <2>1 DEF CacheLen, WellFormed, IsCache, CachesOf
  <2>3. B \in Seq(Byte) /\ Len(B) = CacheLen(cache)
    BY Zenon, <2>1, BytesType DEF CacheLen
  <2> QED BY Zenon, DialAssumption, <2>2, <2>3 DEF Inv, TypeOK
<1>1. n \in Nat /\ n <= Len(B)
  BY <1>0 DEF UsedOf
<1>2. WellFormed(cache') /\ Bytes(cache') = Unused(B, n)
  <2>0. << >> \in Seq(Byte) /\ \A k \in Nat : Unused(B, k) \in Seq(Byte)
    BY <1>0 DEF Unused
  <2>1. CASE used < 0
    <3>1. cache' = Rotate(cache, CacheLen(cache), << >>) /\ n = CacheLen(cache)
      BY Zenon, <1>0, <2>1 DEF HandlerReturns, UsedOf
    <3>2. WellFormed(cache') /\ Bytes(cache') = Unused(B, n) \o << >>
      BY <1>0, <2>0, <3>1, RotateIsDropAppend DEF Inv
    <3> QED BY Zenon, <1>1, <2>0, <3>2, ConcatEmptySeq
  <2>2. CASE used = 0
    <3>1. cache' = cache /\ n = 0
      BY <1>0, <2>2 DEF HandlerReturns, UsedOf
    <3>2. Unused(B, 0) = B
      BY <1>0, SubSeqFull DEF Unused
    <3> QED BY Zenon, <3>1, <3>2 DEF Inv
  <2>3. CASE used > 0
    <3>1. cache' = Rotate(cache, used, << >>) /\ used \in Nat
      BY <1>0, <2>3 DEF HandlerReturns
    <3>2. WellFormed(cache') /\ Bytes(cache') = Unused(B, used) \o << >>
      BY Zenon, <2>0, <3>1, RotateIsDropAppend DEF Inv
    <3>3. Unused(B, used) = Unused(B, n)
      <4>1. CASE used <= CacheLen(cache)
        BY <1>0, <2>3, <4>1 DEF UsedOf
      <4>2. CASE used > CacheLen(cache)
        <5>1. n = Len(B) /\ used > Len(B)
          BY Zenon, <1>0, <4>2 DEF UsedOf
        <5> HIDE DEF B, n
        <5>2. Unused(B, used) = << >> /\ Unused(B, n) = << >>
          BY <1>0, <5>1, SubSeqEmpty DEF Unused
        <5> QED BY Zenon, <5>2
      <4> QED BY <1>0, <4>1, <4>2
    <3> QED BY Zenon, <1>1, <2>0, <3>2, <3>3, ConcatEmptySeq
  <2> QED BY <1>0, <2>1, <2>2, <2>3
<1>3. taken' = taken \o SubSeq(B, 1, n) /\ unread' = unread /\ sent' = sent /\ offered' = offered
  BY Zenon DEF HandlerReturns, world
<1> HIDE DEF B, n
<1>4. taken' \in Seq(Byte) /\ taken' \o Bytes(cache') = taken \o B
  <2>1. /\ taken \o SubSeq(B, 1, n) \in Seq(Byte)
        /\ (taken \o SubSeq(B, 1, n)) \o Unused(B, n) = taken \o B
    BY <1>0, <1>1, UseBytes, Zenon
  <2> QED BY <1>2, <1>3, <2>1, Zenon
<1>5. StreamIntact' /\ offered' = taken' \o Bytes(cache')
  BY Zenon, <1>3, <1>4 DEF Inv, StreamIntact, B
<1>6. TypeOK'
  <2>1. IsCache(cache')
    BY Zenon, <1>2 DEF WellFormed
  <2> QED BY Zenon, <1>4, <2>1 DEF Inv, TypeOK, HandlerReturns, world
<1>7. /\ pc = "handle" /\ pc' = "select" /\ UNCHANGED <<cause, ctxDone, lateCalls>>
  BY Zenon DEF HandlerReturns, world
<1>8. cause' # "peer_eof"
  BY Zenon, <1>7 DEF Inv
<1> QED BY Zenon, <1>2, <1>5, <1>6, <1>7, <1>8 DEF Inv

(* Every step of DialTCP, its peer and its handler keeps the invariant.    *)
LEMMA NextInv == Inv /\ [Next]_vars => Inv'
<1> SUFFICES ASSUME Inv, [Next]_vars PROVE Inv'
  BY Zenon
<1>1. CASE Cancel
  BY Zenon, <1>1, QuietStep DEF Cancel, Inv, TypeOK, history
<1>2. ASSUME NEW b \in Byte, PeerSend(b) PROVE Inv'
  BY Zenon, <1>2, PeerSendInv
<1>3. ASSUME NEW how \in {"closed", "reset"}, PeerEnds(how) PROVE Inv'
  <2>1. TypeOK'
    BY Zenon, <1>3 DEF PeerEnds, Inv, TypeOK, history
  <2>2. StreamIntact' /\ WellFormed(cache') /\ offered' = taken' \o Bytes(cache')
    BY Zenon, <1>3 DEF PeerEnds, Inv, StreamIntact, history
  <2>3. cause' # "peer_eof"
    BY Zenon, <1>3 DEF PeerEnds, Inv
  <2> QED BY Zenon, <1>3, <2>1, <2>2, <2>3 DEF PeerEnds, Inv, history
<1>4. CASE DialFails
  BY Zenon, <1>4, QuietStep DEF DialFails, Return, Inv, TypeOK, Causes, world, history
<1>5. CASE Connect
  BY Zenon, <1>5, QuietStep DEF Connect, Inv, TypeOK, world, history
<1>6. CASE SelectDone
  BY Zenon, <1>6, QuietStep DEF SelectDone, Return, Inv, TypeOK, Causes, world, history
<1>7. CASE SelectDefault
  BY Zenon, <1>7, QuietStep DEF SelectDefault, Inv, TypeOK, world, history
<1>8. ASSUME NEW n \in 1 .. BuffSize, ReadData(n) PROVE Inv'
  BY Zenon, <1>8, ReadDataInv
<1>9. CASE ReadEOF
  BY Zenon, <1>9, QuietStep DEF ReadEOF, Return, Inv, TypeOK, Causes, world, history
<1>10. CASE ReadError
  BY Zenon, <1>10, QuietStep DEF ReadError, Return, Inv, TypeOK, Causes, world, history
<1>11. ASSUME NEW used \in Counts, HandlerReturns(used) PROVE Inv'
  BY Zenon, <1>11, HandlerReturnsInv
<1>12. ASSUME NEW why \in {"handler_eof", "handler_error"}, HandlerFails(why) PROVE Inv'
  BY Zenon, <1>12, QuietStep DEF HandlerFails, Return, Inv, TypeOK, Causes, world, history
<1>13. CASE UNCHANGED vars
  BY Zenon, <1>13, QuietStep DEF vars, Inv, TypeOK, world, history
<1> QED BY Zenon, <1>1, <1>2, <1>3, <1>4, <1>5, <1>6, <1>7, <1>8, <1>9, <1>10, <1>11, <1>12, <1>13
        DEF Next, Loop, Handler, Environment

-----------------------------------------------------------------------------
(* The theorems.                                                           *)

(* The variables keep their types; the cache keeps the shape of the Go     *)
(* struct for every count the handler answers with, negative ones too.     *)
THEOREM TypeCorrect == Spec => []TypeOK
<1>1. Inv => TypeOK
  BY Zenon DEF Inv
<1> QED BY <1>1, InitInv, NextInv, PTL DEF Spec

(* DialTCP neither loses, repeats nor reorders a byte of the connection,   *)
(* whatever the sizes of its buffers and whatever counts the handler       *)
(* answers with.                                                           *)
THEOREM Intact == Spec => []StreamIntact
<1>1. Inv => StreamIntact
  BY Zenon DEF Inv
<1> QED BY <1>1, InitInv, NextInv, PTL DEF Spec

(* When DialTCP reports the end of a closed connection, the handler has    *)
(* been offered every byte of it.                                          *)
THEOREM DeliversAll == Spec => []PeerEOFDeliversAll
<1>1. Inv => PeerEOFDeliversAll
  <2> SUFFICES ASSUME Inv, cause = "peer_eof" PROVE offered = sent
    BY Zenon DEF PeerEOFDeliversAll
  <2>1. unread = << >> /\ sent = (taken \o Bytes(cache)) \o unread /\ offered = taken \o Bytes(cache)
    BY Zenon DEF Inv, StreamIntact
  <2>2. offered \in Seq(Byte)
    BY Zenon DEF Inv, TypeOK
  <2> QED BY Zenon, <2>1, <2>2, ConcatEmptySeq
<1> QED BY <1>1, InitInv, NextInv, PTL DEF Spec

(* After the context is cancelled the handler is called at most once.      *)
THEOREM LateCalls == Spec => []OneLateCall
<1>1. Inv => OneLateCall
  BY Zenon DEF Inv, OneLateCall
<1> QED BY <1>1, InitInv, NextInv, PTL DEF Spec

-----------------------------------------------------------------------------
(* pcap/capture.go: the caches of the sessions.                            *)

\* A cache after any count, also a negative one.
LooseCache(c) ==
  /\ c.cap \in Nat
  /\ c \in [cap : {c.cap}, offset : Nat, used : Int, buffer : [0 .. c.cap - 1 -> Byte]]
  /\ c.used <= c.offset /\ c.offset <= c.cap

\* The bytes of the session that its cache holds.
HeldOf(s) == IF s \in DOMAIN caches THEN Bytes(caches[s]) ELSE << >>

(* The strengthening: every cache is loose, that of a session without a    *)
(* negative count is well formed and holds what was not used, and while    *)
(* the handler runs its buffer is the cache of its session.                *)
CaptureInv ==
  /\ CaptureTypeOK
  /\ \A s \in DOMAIN caches : LooseCache(caches[s])
  /\ \A s \in Session \ misled :
       /\ s \in DOMAIN caches => WellFormed(caches[s])
       /\ received[s] = consumed[s] \o HeldOf(s)
  /\ at = "handle" /\ usesCache =>
       /\ session \in DOMAIN caches
       /\ WellFormed(caches[session]) /\ buffer = Bytes(caches[session])

(* A cache is loose; a loose one whose window is not moved out is well     *)
(* formed.                                                                 *)
LEMMA LooseFacts ==
  ASSUME NEW c
  PROVE  /\ WellFormed(c) => LooseCache(c)
         /\ LooseCache(c) /\ ~ (c.used < 0) => WellFormed(c)
         /\ LooseCache(c) => WellFormed(Window(c, 0, 0))
<1>1. WellFormed(c) => LooseCache(c)
  BY DEF WellFormed, LooseCache, IsCache, CachesOf
<1>2. LooseCache(c) /\ ~ (c.used < 0) => WellFormed(c)
  BY DEF WellFormed, LooseCache, IsCache, CachesOf
<1>3. LooseCache(c) => WellFormed(Window(c, 0, 0))
  BY DEF WellFormed, LooseCache, IsCache, CachesOf, Window
<1> QED BY Zenon, <1>1, <1>2, <1>3

(* Merging into the cache a session has leaves a well-formed cache, unless *)
(* Bytes() panics.                                                         *)
LEMMA MergeLoose ==
  ASSUME NEW c, LooseCache(c), ~ (c.used < 0 /\ c.offset > 0),
         NEW data \in Seq(Byte), Len(data) > 0
  PROVE  WellFormed(Merge(c, data))
<1>1. CASE ~ (c.used < 0)
  BY Zenon, <1>1, LooseFacts, MergeIsAppend
<1>2. CASE c.used < 0
  <2>1. c.offset \in Nat
    BY Zenon DEF LooseCache
  <2>2. c.offset <= 0
    BY <1>2, <2>1
  <2>3. Merge(c, data) = AppendData(Window(c, 0, 0), data)
    BY <2>2 DEF Merge
  <2> QED BY Zenon, <2>3, LooseFacts, AppendConcatenates
<1> QED BY Zenon, <1>1, <1>2

(* A negative count moves the window of a cache back.                      *)
LEMMA RotateNegative ==
  ASSUME NEW c, WellFormed(c), NEW used \in Int, used < 0
  PROVE  LooseCache(Rotate(c, used, << >>))
<1>1. /\ c.cap \in Nat /\ c.offset \in Nat /\ c.used \in Nat
      /\ c.used <= c.offset /\ c.offset <= c.cap /\ c.buffer \in [0 .. c.cap - 1 -> Byte]
  BY Zenon DEF WellFormed, IsCache, CachesOf
<1>2. ~ (used >= CacheLen(c))
  BY <1>1 DEF CacheLen
<1>3. Rotate(c, used, << >>) = Window(c, c.used + used, c.offset)
  BY Zenon, <1>2 DEF Rotate, AppendData
<1> QED BY <1>1, <1>3 DEF LooseCache, Window

(* StartCapture starts with an empty map.                                  *)
LEMMA CaptureInitInv == CaptureInit => CaptureInv
<1> SUFFICES ASSUME CaptureInit PROVE CaptureInv
  BY Zenon
<1>1. DOMAIN caches = {}
  BY DEF CaptureInit
<1>2. << >> \in Seq(Byte) /\ << >> \o << >> = << >>
  BY ConcatEmptySeq
<1>3. CaptureTypeOK
  BY Zenon, <1>1, <1>2 DEF CaptureInit, CaptureTypeOK
<1>4. \A s \in Session : received[s] = consumed[s] \o HeldOf(s)
  BY Zenon, <1>1, <1>2 DEF CaptureInit, HeldOf
<1> QED BY Zenon, <1>1, <1>3, <1>4 DEF CaptureInit, CaptureInv

(* Steps that leave the streams alone, and call no handler with a cache.   *)
LEMMA QuietCapture ==
  ASSUME CaptureInv, UNCHANGED streams, CaptureTypeOK',
         at' = "handle" /\ usesCache' => UNCHANGED <<at, session, buffer, usesCache>>
  PROVE  CaptureInv'
<1>1. UNCHANGED <<caches, received, consumed, misled>>
  BY Zenon DEF streams
<1>2. \A s \in Session : HeldOf(s)' = HeldOf(s)
  BY Zenon, <1>1 DEF HeldOf
<1> QED BY <1>1, <1>2 DEF CaptureInv

(* A payload joins the stream of its session and of no other.              *)
LEMMA TCPPacketInv ==
  ASSUME CaptureInv, NEW s \in Session, NEW n \in Payloads,
         NEW payload \in [1 .. n -> Byte], TCPPacket(s, payload)
  PROVE  CaptureInv'
<1> DEFINE old == GetStreamCache(s)
           merged == Merge(old, payload)
<1>1. payload \in Seq(Byte) /\ Len(payload) > 0
  <2>1. n \in Nat
    BY Zenon, PcapAssumption
  <2> QED BY <2>1 DEF TCPPacket
<1>2. /\ ~ (old.used < 0 /\ old.offset > 0)
      /\ received' = [received EXCEPT ![s] = @ \o payload]
      /\ caches' = [t \in DOMAIN caches \cup {s} |-> IF t = s THEN merged ELSE caches[t]]
      /\ at' = "handle" /\ session' = s /\ buffer' = Bytes(merged) /\ usesCache' = TRUE
      /\ UNCHANGED <<consumed, misled, hasHandler, cancelled, source>>
  BY Zenon DEF TCPPacket, Call, env
<1>3. LooseCache(old) /\ (s \notin misled => WellFormed(old) /\ Bytes(old) = HeldOf(s))
  <2>1. CASE s \in DOMAIN caches
    BY Zenon, <2>1 DEF GetStreamCache, CaptureInv, HeldOf
  <2>2. CASE s \notin DOMAIN caches
    BY Zenon, <2>2, NewWellFormed, LooseFacts DEF GetStreamCache, HeldOf
  <2> QED BY Zenon, <2>1, <2>2
<1> HIDE DEF old
<1>4. WellFormed(merged) /\ LooseCache(merged)
  BY Zenon, <1>1, <1>2, <1>3, MergeLoose, LooseFacts
<1>5. s \notin misled => Bytes(merged) = HeldOf(s) \o payload
  BY Zenon, <1>1, <1>3, MergeIsAppend
<1> HIDE DEF merged
<1>6. /\ DOMAIN caches' = DOMAIN caches \cup {s} /\ caches'[s] = merged
      /\ \A t \in DOMAIN caches : t # s => caches'[t] = caches[t]
  BY Zenon, <1>2
<1>7. /\ received \in [Session -> Seq(Byte)] /\ consumed \in [Session -> Seq(Byte)]
      /\ DOMAIN caches \subseteq Session /\ misled \subseteq Session
  BY Zenon DEF CaptureInv, CaptureTypeOK
<1>8. received[s] \in Seq(Byte) /\ consumed[s] \in Seq(Byte) /\ received[s] \o payload \in Seq(Byte)
  BY <1>1, <1>7
<1>9. /\ received' \in [Session -> Seq(Byte)] /\ received'[s] = received[s] \o payload
      /\ \A t \in Session : t # s => received'[t] = received[t]
  BY Zenon, <1>2, <1>7, <1>8
<1>10. Bytes(merged) \in Seq(Byte)
  BY Zenon, <1>4, BytesType
<1>11. \A t \in DOMAIN caches' : LooseCache(caches'[t])
  BY Zenon, <1>4, <1>6 DEF CaptureInv
<1>12. CaptureTypeOK'
  <2>1. \A t \in DOMAIN caches' :
          caches'[t].used <= caches'[t].offset /\ caches'[t].offset <= caches'[t].cap
    BY Zenon, <1>11 DEF LooseCache
  <2> QED BY Zenon, <1>2, <1>6, <1>7, <1>9, <1>10, <2>1 DEF CaptureInv, CaptureTypeOK
<1>13. ASSUME NEW t \in Session \ misled'
       PROVE  /\ t \in DOMAIN caches' => WellFormed(caches'[t])
              /\ received'[t] = consumed'[t] \o HeldOf(t)'
  <2>1. CASE t = s
    <3>1. HeldOf(t)' = HeldOf(s) \o payload
      BY Zenon, <1>2, <1>5, <1>6, <2>1 DEF HeldOf
    <3>2. received[s] = consumed[s] \o HeldOf(s)
      BY Zenon, <1>2, <2>1 DEF CaptureInv
    <3>3. HeldOf(s) \in Seq(Byte)
      BY Zenon, <1>2, <1>3, <2>1, BytesType
    <3>4. (consumed[s] \o HeldOf(s)) \o payload = consumed[s] \o (HeldOf(s) \o payload)
      <4> DEFINE a == consumed[s]  h == HeldOf(s)
      <4>1. a \in Seq(Byte) /\ h \in Seq(Byte) /\ payload \in Seq(Byte)
        BY Zenon, <1>1, <1>8, <3>3
      <4> HIDE DEF a, h
      <4>2. (a \o h) \o payload = a \o (h \o payload)
        BY <4>1
      <4> QED BY Zenon, <4>2 DEF a, h
    <3> QED BY Zenon, <1>2, <1>4, <1>6, <1>9, <2>1, <3>1, <3>2, <3>4
  <2>2. CASE t # s
    <3>1. HeldOf(t)' = HeldOf(t)
      BY Zenon, <1>6, <2>2 DEF HeldOf
    <3> QED BY Zenon, <1>2, <1>6, <1>9, <2>2, <3>1 DEF CaptureInv
  <2> QED BY Zenon, <2>1, <2>2
<1>14. at' = "handle" /\ usesCache' =>
         /\ session' \in DOMAIN caches'
         /\ WellFormed(caches'[session']) /\ buffer' = Bytes(caches'[session'])
  BY Zenon, <1>2, <1>4, <1>6
<1> QED BY Zenon, <1>11, <1>12, <1>13, <1>14 DEF CaptureInv

(* What the handler reports as used leaves the cache of its session at the *)
(* front, and no other.                                                    *)
LEMMA FnReturnsInv ==
  ASSUME CaptureInv, NEW used \in Answers, FnReturns(used)
  PROVE  CaptureInv'
<1>1. CASE ~ usesCache
  <2>1. UNCHANGED streams /\ at' = "select"
        /\ UNCHANGED <<session, buffer, usesCache, hasHandler, cancelled, source>>
    BY Zenon, <1>1 DEF FnReturns, streams, env
  <2>2. CaptureTypeOK'
    BY Zenon, <2>1 DEF CaptureInv, CaptureTypeOK, streams
  <2> QED BY Zenon, <2>1, <2>2, QuietCapture
<1>2. CASE usesCache
  <2> DEFINE c == caches[session]
             d == Rotate(c, used, << >>)
             p == Prefix(buffer, used)
  <2>1. /\ at = "handle" /\ at' = "select" /\ used \in Int
        /\ caches' = [caches EXCEPT ![session] = d]
        /\ consumed' = [consumed EXCEPT ![session] = @ \o p]
        /\ misled' = IF used < 0 THEN misled \cup {session} ELSE misled
        /\ UNCHANGED <<session, buffer, usesCache, received, hasHandler, cancelled, source>>
    BY Zenon, <1>2, PcapAssumption DEF FnReturns, RotateCache, env
  <2>2. /\ session \in DOMAIN caches /\ WellFormed(c) /\ buffer = Bytes(c)
        /\ DOMAIN caches \subseteq Session /\ misled \subseteq Session
        /\ consumed \in [Session -> Seq(Byte)]
    BY Zenon, <1>2, <2>1 DEF CaptureInv, CaptureTypeOK
  <2>3. Bytes(c) \in Seq(Byte) /\ Len(Bytes(c)) \in Nat
    BY <2>2, BytesType
  <2>4. p \in Seq(Byte)
    BY <2>1, <2>2, <2>3 DEF Prefix
  <2>5. consumed[session] \in Seq(Byte) /\ consumed[session] \o p \in Seq(Byte)
    BY <2>2, <2>4
  <2>6. used < 0 => LooseCache(d)
    BY Zenon, <2>1, <2>2, RotateNegative
  <2>7. ~ (used < 0) =>
          /\ WellFormed(d) /\ LooseCache(d)
          /\ (consumed[session] \o p) \o Bytes(d) = consumed[session] \o Bytes(c)
    <3> SUFFICES ASSUME ~ (used < 0)
                 PROVE  /\ WellFormed(d) /\ LooseCache(d)
                        /\ (consumed[session] \o p) \o Bytes(d) = consumed[session] \o Bytes(c)
      BY Zenon
    <3>1. used \in Nat
      BY <2>1
    <3>2. << >> \in Seq(Byte)
      OBVIOUS
    <3>3. WellFormed(d) /\ Bytes(d) = Unused(Bytes(c), used) \o << >>
      BY Zenon, <2>2, <3>1, <3>2, RotateIsDropAppend
    <3>4. Bytes(d) = Unused(Bytes(c), used)
      BY <2>3, <3>1, <3>3, Split
    <3>5. LooseCache(d)
      BY Zenon, <3>3, LooseFacts
    <3>6. CASE used <= Len(Bytes(c))
      <4>1. p = SubSeq(Bytes(c), 1, used)
        BY <2>2, <2>3, <3>1, <3>6 DEF Prefix
      <4>2. (consumed[session] \o SubSeq(Bytes(c), 1, used)) \o Unused(Bytes(c), used)
              = consumed[session] \o Bytes(c)
        BY <2>3, <2>5, <3>1, <3>6, UseBytes, Zenon
      <4> QED BY <3>3, <3>4, <3>5, <4>1, <4>2, Zenon
    <3>7. CASE used > Len(Bytes(c))
      <4> DEFINE n == Len(Bytes(c))
      <4>1. p = SubSeq(Bytes(c), 1, n)
        BY Zenon, <2>2, <2>3, <3>1, <3>7 DEF Prefix
      <4>2. Unused(Bytes(c), used) = Unused(Bytes(c), n)
        BY <2>3, <3>1, <3>7 DEF Unused
      <4>3. n \in Nat /\ n <= Len(Bytes(c))
        BY <2>3
      <4>4. (consumed[session] \o SubSeq(Bytes(c), 1, n)) \o Unused(Bytes(c), n)
              = consumed[session] \o Bytes(c)
        BY <2>3, <2>5, <4>3, UseBytes, Zenon
      <4> QED BY <3>3, <3>4, <3>5, <4>1, <4>2, <4>4, Zenon
    <3>8. used <= Len(Bytes(c)) \/ used > Len(Bytes(c))
      BY <2>3, <3>1
    <3> QED BY <3>6, <3>7, <3>8, Zenon
  <2> HIDE DEF p, d
  <2>8. /\ DOMAIN caches' = DOMAIN caches /\ caches'[session] = d
        /\ \A t \in DOMAIN caches : t # session => caches'[t] = caches[t]
    BY Zenon, <2>1, <2>2
  <2>9. /\ consumed' \in [Session -> Seq(Byte)] /\ consumed'[session] = consumed[session] \o p
        /\ \A t \in Session : t # session => consumed'[t] = consumed[t]
    BY Zenon, <2>1, <2>2, <2>5
  <2>10. \A t \in DOMAIN caches' : LooseCache(caches'[t])
    BY Zenon, <2>6, <2>7, <2>8 DEF CaptureInv
  <2>11. CaptureTypeOK'
    <3>1. \A t \in DOMAIN caches' :
            caches'[t].used <= caches'[t].offset /\ caches'[t].offset <= caches'[t].cap
      BY Zenon, <2>10 DEF LooseCache
    <3>2. misled' \subseteq Session
      BY Zenon, <2>1, <2>2
    <3> QED BY Zenon, <2>1, <2>8, <2>9, <3>1, <3>2 DEF CaptureInv, CaptureTypeOK
  <2>12. ASSUME NEW t \in Session \ misled'
         PROVE  /\ t \in DOMAIN caches' => WellFormed(caches'[t])
                /\ received'[t] = consumed'[t] \o HeldOf(t)'
    <3>1. t \in Session \ misled
      BY Zenon, <2>1
    <3>2. CASE t = session
      <4>1. ~ (used < 0)
        BY Zenon, <2>1, <3>2
      <4>2. HeldOf(t) = Bytes(c) /\ HeldOf(t)' = Bytes(d)
        BY Zenon, <2>2, <2>8, <2>1, <3>2 DEF HeldOf
      <4>3. received[t] = consumed[t] \o HeldOf(t)
        BY Zenon, <3>1 DEF CaptureInv
      <4> QED BY Zenon, <2>1, <2>7, <2>8, <2>9, <3>2, <4>1, <4>2, <4>3
    <3>3. CASE t # session
      <4>1. HeldOf(t)' = HeldOf(t)
        BY Zenon, <2>8, <3>3 DEF HeldOf
      <4> QED BY Zenon, <2>1, <2>8, <2>9, <3>1, <3>3, <4>1 DEF CaptureInv
    <3> QED BY Zenon, <3>2, <3>3
  <2> QED BY Zenon, <2>1, <2>10, <2>11, <2>12 DEF CaptureInv
<1> QED BY Zenon, <1>1, <1>2

(* Every step of the capture and of its environment keeps the invariant.   *)
LEMMA CaptureNextInv == CaptureInv /\ [CaptureNext]_captureVars => CaptureInv'
<1> SUFFICES ASSUME CaptureInv, [CaptureNext]_captureVars PROVE CaptureInv'
  BY Zenon
<1> USE DEF CaptureInv
<1>1. CASE UNCHANGED captureVars
  <2>1. UNCHANGED <<streams, at, session, buffer, usesCache, hasHandler, cancelled, source>>
    BY Zenon, <1>1 DEF captureVars, loop, env
  <2>2. CaptureTypeOK'
    BY Zenon, <2>1 DEF CaptureTypeOK, streams
  <2> QED BY Zenon, <2>1, <2>2, QuietCapture
<1>2. CASE CancelCapture \/ SourceEnds
  <2>1. CaptureTypeOK' /\ UNCHANGED <<streams, at, session, buffer, usesCache>>
    BY Zenon, <1>2 DEF CancelCapture, SourceEnds, CaptureTypeOK, streams, loop
  <2> QED BY Zenon, <2>1, QuietCapture
<1>3. CASE StartAgain \/ CaptureDone \/ SelectEnd \/ FnFails
  <2>1. CaptureTypeOK' /\ UNCHANGED streams /\ at' # "handle"
    BY Zenon, <1>3 DEF StartAgain, CaptureDone, SelectEnd, FnFails, CaptureTypeOK, streams, env
  <2> QED BY Zenon, <2>1, QuietCapture
<1>4. CASE \E kind \in Kinds, n \in Payloads : Skip(kind, n)
  <2>1. UNCHANGED captureVars
    BY Zenon, <1>4 DEF Skip
  <2> QED BY Zenon, <1>1, <2>1
<1>5. CASE \E kind \in Kinds : PacketPanics(kind)
  <2>1. CaptureTypeOK' /\ UNCHANGED streams /\ at' # "handle"
    BY Zenon, <1>5 DEF PacketPanics, CaptureTypeOK, streams, env
  <2> QED BY Zenon, <2>1, QuietCapture
<1>6. ASSUME NEW s \in Session, NEW n \in Payloads, NEW payload \in [1 .. n -> Byte],
             TCPPacket(s, payload)
      PROVE  CaptureInv'
  BY Zenon, <1>6, TCPPacketInv
<1>7. ASSUME NEW s \in Session, NEW n \in Payloads, MergePanics(s, n)
      PROVE  CaptureInv'
  <2>1. CaptureTypeOK' /\ UNCHANGED streams /\ at' # "handle"
    BY Zenon, <1>7 DEF MergePanics, CaptureTypeOK, streams, env
  <2> QED BY Zenon, <2>1, QuietCapture
<1>8. ASSUME NEW s \in Session, NEW n \in Payloads, UDPPacket(s, n)
      PROVE  CaptureInv'
  <2>1. n \in Nat /\ Zero \in Byte
    BY Zenon, PcapAssumption, StreamCacheAssumption
  <2>2. [i \in 1 .. n |-> Zero] \in Seq(Byte)
    BY <2>1
  <2>3. CaptureTypeOK' /\ UNCHANGED streams /\ usesCache' = FALSE
    BY Zenon, <1>8, <2>2 DEF UDPPacket, Call, CaptureTypeOK, streams, env
  <2> QED BY Zenon, <2>3, QuietCapture
<1>9. CASE OtherPacket
  <2>0. << >> \in Seq(Byte)
    OBVIOUS
  <2>1. CaptureTypeOK' /\ UNCHANGED streams /\ usesCache' = FALSE
    BY Zenon, <1>9, <2>0 DEF OtherPacket, Call, CaptureTypeOK, streams, env
  <2> QED BY Zenon, <2>1, QuietCapture
<1>10. ASSUME NEW used \in Answers, FnReturns(used)
       PROVE  CaptureInv'
  BY Zenon, <1>10, FnReturnsInv
<1> QED BY Zenon, <1>1, <1>2, <1>3, <1>4, <1>5, <1>6, <1>7, <1>8, <1>9, <1>10 DEF CaptureNext, Capture

(* Sessions do not mix, for any number of sessions, any payloads and any   *)
(* counts the handlers report: what a session's packets carried is what    *)
(* its handler calls used and then what its own cache holds.               *)
THEOREM SessionsApart == CaptureSpec => []SessionsIntact
<1>1. CaptureInv => SessionsIntact
  BY Zenon DEF CaptureInv, SessionsIntact, HeldOf
<1> QED BY <1>1, CaptureInitInv, CaptureNextInv, PTL DEF CaptureSpec
=============================================================================
