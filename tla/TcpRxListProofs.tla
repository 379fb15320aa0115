--------------------------- MODULE TcpRxListProofs ---------------------------
(***************************************************************************)
(* Lemmas about the sequence numbers and the list of segments of           *)
(* TcpRxBuffer, for every size of the ring buffer, length of the list and  *)
(* stream of bytes.                                                        *)
(*                                                                         *)
(* Sequence numbers wrap around.  The proofs count them from the first     *)
(* byte of the stream (Off): as long as everything in use is less than     *)
(* half of the sequence numbers away from it, the comparison of the code   *)
(* is the comparison of these offsets.                                     *)
(*                                                                         *)
(* The entries of the list have gaps between them, but for the copy that   *)
(* exa_tcp_rx_buffer_abort leaves of the last one (Follows), which may     *)
(* later begin where recv_seq was; and the bytes of an entry are in the    *)
(* buffer from recv_seq on (Filled).  The loop of abort is a recursive     *)
(* function: what it computes is shown for the least iteration at which it *)
(* would not (Least).                                                      *)
(***************************************************************************)
EXTENDS TcpRxBuffer, TLAPS

LOCAL INSTANCE WellFoundedInduction

SeqNums == 0 .. SeqMod - 1
Off(x) == Sub(x, First)

\* No offset in use is greater.
Horizon == BufSize + Total + MaxLen

\* What an entry of the list is when its bytes end at the offset u or before.
Seg(u) ==
  {g \in [begin : SeqNums, end : SeqNums] :
     Used(g) => Off(g.begin) < Off(g.end) /\ Off(g.end) <= u}
Lists(u) == [1 .. MaxSegs -> Seg(u)]

(* Two entries of the list, a before b, when recv_seq is r: there is a gap *)
(* between them, or b is what exa_tcp_rx_buffer_abort left of a.           *)
Follows(a, b, r) ==
  \/ Off(a.end) < Off(b.begin)
  \/ /\ a.end = b.end
     /\ \/ a.begin = b.begin
        \/ Off(b.begin) <= Off(a.begin) /\ Off(a.begin) <= Off(r)

\* The used entries come first, and each follows the ones before it.
Chain(s, r) ==
  \A l \in 1 .. MaxSegs : \A h \in 1 .. l - 1 :
    Used(s[l]) => Used(s[h]) /\ Follows(s[h], s[l], r)

\* The bytes of the entry g from recv_seq on are in the buffer.
Filled(R, g, r) ==
  \A x \in SeqNums :
    Off(g.begin) <= Off(x) /\ Off(r) <= Off(x) /\ Off(x) < Off(g.end) => x \in R

AllFilled(R, s, r) == \A h \in 1 .. MaxSegs : Used(s[h]) => Filled(R, s[h], r)

\* The segment g touches the entry i, and all entries before it end before g.
Touches(s, i, g) ==
  /\ Off(g.begin) <= Off(s[i].end) /\ Off(s[i].begin) <= Off(g.end)
  /\ \A h \in 1 .. i - 1 : Used(s[h]) /\ Off(s[h].end) < Off(g.begin)

-----------------------------------------------------------------------------
(* Arithmetic of sequence numbers.                                         *)

(* The remainder of a number less than one modulus away from the range.    *)
LEMMA ModSmall ==
  ASSUME NEW x \in Int, NEW M \in Nat, 0 <= x, x < M
  PROVE  x % M = x
OBVIOUS

(* The remainder of a number within one lap above the modulus.             *)
LEMMA ModOver ==
  ASSUME NEW x \in Int, NEW M \in Nat, M <= x, x < 2 * M
  PROVE  x % M = x - M
OBVIOUS

(* The remainder of a number within one lap below zero.                    *)
LEMMA ModUnder ==
  ASSUME NEW x \in Int, NEW M \in Nat, -M <= x, x < 0
  PROVE  x % M = x + M
OBVIOUS

(* What the arithmetic needs of the constants.                             *)
LEMMA Constants ==
  /\ SeqMod \in Nat /\ SeqMod > 0 /\ First \in SeqNums
  /\ Total \in Nat /\ MaxLen \in Nat /\ BufSize \in Nat
  /\ Horizon \in Nat /\ Horizon < SeqMod \div 2 /\ 2 * Horizon < SeqMod
  /\ Horizon = BufSize + Total + MaxLen
  /\ MaxSegs \in Nat /\ MaxSegs > 0
BY TcpAssumption DEF SeqNums, Horizon

(* Add and Sub stay within the sequence numbers.                           *)
LEMMA AddSubType ==
  ASSUME NEW a \in Int, NEW b \in Int
  PROVE  Add(a, b) \in SeqNums /\ Sub(a, b) \in SeqNums
BY Constants DEF Add, Sub, SeqNums

(* What Sub computes of two sequence numbers.                              *)
LEMMA SubCases ==
  ASSUME NEW a \in SeqNums, NEW b \in SeqNums
  PROVE  Sub(a, b) = IF b <= a THEN a - b ELSE a - b + SeqMod
<1>1. CASE b <= a
  BY <1>1, Constants, ModSmall DEF Sub, SeqNums
<1>2. CASE ~ (b <= a)
  BY <1>2, Constants, ModUnder DEF Sub, SeqNums
<1> QED BY Zenon, <1>1, <1>2

(* What Add computes of a sequence number and a length.                    *)
LEMMA AddCases ==
  ASSUME NEW a \in SeqNums, NEW n \in SeqNums
  PROVE  Add(a, n) = IF a + n < SeqMod THEN a + n ELSE (a + n) - SeqMod
<1>1. CASE a + n < SeqMod
  BY <1>1, Constants, ModSmall DEF Add, SeqNums
<1>2. CASE ~ (a + n < SeqMod)
  <2>1. SeqMod <= a + n /\ a + n < 2 * SeqMod /\ a + n \in Int
    BY <1>2, Constants DEF SeqNums
  <2>2. (a + n) % SeqMod = (a + n) - SeqMod
    <3> DEFINE x == a + n
    <3> HIDE DEF x
    <3>1. x \in Int /\ SeqMod <= x /\ x < 2 * SeqMod
      BY Zenon, <2>1 DEF x
    <3>2. x % SeqMod = x - SeqMod
      BY Zenon, <3>1, Constants, ModOver
    <3> QED BY Zenon, <3>2 DEF x
  <2> QED BY Zenon, <1>2, <2>2 DEF Add
<1> QED BY Zenon, <1>1, <1>2

(* Offsets are sequence numbers, and no two sequence numbers have the same *)
(* one.                                                                    *)
LEMMA OffType ==
  ASSUME NEW a \in SeqNums
  PROVE  Off(a) \in SeqNums /\ Off(a) \in Nat /\ Off(a) < SeqMod
BY AddSubType, Constants DEF Off, SeqNums

(* Two sequence numbers with one offset are the same.                      *)
LEMMA OffInjective ==
  ASSUME NEW a \in SeqNums, NEW b \in SeqNums, Off(a) = Off(b)
  PROVE  a = b
<1> QED BY SubCases, Constants DEF Off, SeqNums

(* The difference of two sequence numbers is that of their offsets.        *)
LEMMA SubOff ==
  ASSUME NEW a \in SeqNums, NEW b \in SeqNums
  PROVE  Sub(a, b) = IF Off(b) <= Off(a) THEN Off(a) - Off(b)
                     ELSE Off(a) - Off(b) + SeqMod
<1> QED BY SubCases, Constants DEF Off, SeqNums

(* Adding to a sequence number adds to its offset.                         *)
LEMMA OffAdd ==
  ASSUME NEW a \in SeqNums, NEW n \in SeqNums, Off(a) + n < SeqMod
  PROVE  Add(a, n) \in SeqNums /\ Off(Add(a, n)) = Off(a) + n
<1>2. Add(a, n) \in SeqNums
  BY AddSubType, Constants DEF SeqNums
<1>3. Add(a, n) = IF a + n < SeqMod THEN a + n ELSE (a + n) - SeqMod
  BY Zenon, AddCases
<1>4. Off(a) = IF First <= a THEN a - First ELSE a - First + SeqMod
  BY Zenon, SubCases, Constants DEF Off
<1> DEFINE c == Add(a, n)
<1>5. Off(c) = IF First <= c THEN c - First ELSE c - First + SeqMod
  BY Zenon, <1>2, SubCases, Constants DEF Off
<1> HIDE DEF c
<1>6. Off(c) = Off(a) + n
  <2>1. c = IF a + n < SeqMod THEN a + n ELSE (a + n) - SeqMod
    BY Zenon, <1>3 DEF c
  <2> QED BY <1>4, <1>5, <2>1, Constants DEF SeqNums
<1> QED BY Zenon, <1>2, <1>6 DEF c

(* What Sub takes away Add gives back.                                     *)
LEMMA AddSub ==
  ASSUME NEW a \in SeqNums, NEW b \in SeqNums
  PROVE  Add(a, Sub(b, a)) = b
<1>1. Sub(b, a) \in SeqNums
  BY AddSubType, Constants DEF SeqNums
<1> DEFINE n == Sub(b, a)
<1>2. n = IF a <= b THEN b - a ELSE b - a + SeqMod
  BY Zenon, SubCases
<1>3. Add(a, n) = IF a + n < SeqMod THEN a + n ELSE (a + n) - SeqMod
  BY Zenon, <1>1, AddCases
<1> HIDE DEF n
<1>4. Add(a, n) = b
  BY <1>2, <1>3, Constants DEF SeqNums
<1> QED BY Zenon, <1>4 DEF n

(* Up to the horizon seq_compare compares the offsets.                     *)
LEMMA BeforeOff ==
  ASSUME NEW a \in SeqNums, NEW b \in SeqNums,
         Off(a) <= Horizon, Off(b) <= Horizon
  PROVE  /\ Before(a, b) <=> Off(a) < Off(b)
         /\ NotAfter(a, b) <=> Off(a) <= Off(b)
<1>1. Before(a, b) <=> Off(a) < Off(b)
  <2> DEFINE x == Off(a)
  <2> DEFINE y == Off(b)
  <2>1. x \in Nat /\ y \in Nat /\ x <= Horizon /\ y <= Horizon
    BY Zenon, OffType
  <2>2. Sub(b, a) = IF x <= y THEN y - x ELSE y - x + SeqMod
    BY Zenon, SubOff
  <2> DEFINE half == SeqMod \div 2
  <2>3. SeqMod \in Nat /\ half \in Nat /\ 2 * half <= SeqMod /\ Horizon < half
    BY Constants
  <2> HIDE DEF x, y, half
  <2>4. Sub(b, a) \in 1 .. half - 1 <=> x < y
    BY <2>1, <2>2, <2>3, Constants
  <2> QED BY Zenon, <2>4 DEF Before, x, y, half
<1> QED BY <1>1, OffInjective, OffType DEF NotAfter

-----------------------------------------------------------------------------
(* The list of segments.                                                   *)

(* A set of natural numbers that is not empty has a least element.         *)
LEMMA Least ==
  ASSUME NEW T \in SUBSET Nat, T # {}
  PROVE  \E n \in T : \A m \in T : ~ (m < n)
<1> DEFINE R == OpToRel(<, Nat)
<1>1. IsWellFoundedOn(R, Nat)
  BY Zenon, NatLessThanWellFounded
<1>2. \E n \in T : \A m \in T : ~ (<<m, n>> \in R)
  <2> HIDE DEF R
  <2> QED BY Zenon, <1>1, WFMin
<1>3. PICK n \in T : \A m \in T : ~ (<<m, n>> \in R)
  BY Zenon, <1>2
<1>4. \A m \in T : ~ (m < n)
  BY Zenon, <1>3 DEF OpToRel
<1> QED BY Zenon, <1>3, <1>4

(* A search along the list ends at an index of it, or just behind it.      *)
LEMMA FirstNotFound ==
  ASSUME NEW i \in 1 .. MaxSegs + 1, NEW ids, MaxSegs + 1 \notin ids
  PROVE  /\ FirstNot(i, ids) \in i .. MaxSegs + 1
         /\ FirstNot(i, ids) \notin ids
         /\ i .. FirstNot(i, ids) - 1 \subseteq ids
<1> DEFINE T == (i .. MaxSegs + 1) \ ids
<1>1. T \in SUBSET Nat /\ T # {}
  BY Constants
<1>5. PICK x \in T : \A y \in T : ~ (y < x)
  <2> HIDE DEF T
  <2> QED BY Zenon, <1>1, Least
<1>6. i .. x - 1 \subseteq ids
  BY <1>5, Constants
<1>7. \E k \in T : i .. k - 1 \subseteq ids
  BY Zenon, <1>6
<1> QED BY Zenon, <1>7, Constants DEF FirstNot

(* An empty entry may stand in any list.                                   *)
LEMMA EmptySeg ==
  ASSUME NEW u \in Nat
  PROVE  Empty \in Seg(u)
BY Constants DEF Empty, Seg, Used, SeqNums

(* Moving entries down keeps a list a list.                                *)
LEMMA MoveDownList ==
  ASSUME NEW u \in Nat, NEW s \in Lists(u),
         NEW i \in 1 .. MaxSegs + 1, NEW k \in 1 .. MaxSegs + 1, k <= i
  PROVE  MoveDown(s, i, k) \in Lists(u)
BY EmptySeg, Constants DEF MoveDown, Lists

(* Removing what the kernel has gone past keeps a list a list.             *)
LEMMA WithoutProcessedList ==
  ASSUME NEW u \in Nat, u <= Horizon, NEW s \in Lists(u),
         NEW r \in SeqNums, Off(r) <= Horizon
  PROVE  WithoutProcessed(s, r) \in Lists(u)
<1> DEFINE past == EndedBy(s, r)
<1> DEFINE k == FirstNot(2, past)
<1> DEFINE t == MoveDown(s, k, 1)
<1>1. k \in 2 .. MaxSegs + 1 /\ k \notin past
  <2>1. 2 \in 1 .. MaxSegs + 1 /\ MaxSegs + 1 \notin past
    BY Constants DEF EndedBy
  <2> QED BY Zenon, <2>1, FirstNotFound
<1>2. t \in Lists(u)
  BY <1>1, MoveDownList, Constants
<1>3. ASSUME Used(t[1]), Before(t[1].begin, r)
      PROVE  [t EXCEPT ![1].begin = r] \in Lists(u)
  <2>1. k <= MaxSegs /\ t[1] = s[k]
    BY <1>1, <1>3, Constants DEF MoveDown, Empty, Used
  <2>2. s[k] \in Seg(u) /\ Used(s[k]) /\ ~ NotAfter(s[k].end, r)
    BY SMTT(40), <1>1, <1>3, <2>1, Constants DEF Lists, EndedBy
  <2>3. /\ s[k].end \in SeqNums /\ Off(s[k].end) <= u
        /\ Off(s[k].end) \in Nat /\ Off(r) \in Nat
    BY Zenon, <2>2, OffType DEF Seg
  <2>4. Off(r) < Off(s[k].end)
    BY <2>2, <2>3, BeforeOff, Constants
  <2>5. [begin |-> r, end |-> s[k].end] \in Seg(u)
    BY Zenon, <2>3, <2>4 DEF Seg
  <2>6. [t EXCEPT ![1].begin = r] = [t EXCEPT ![1] = [begin |-> r, end |-> s[k].end]]
    BY SMTT(20), <1>2, <2>1, <2>2, Constants DEF Lists, Seg
  <2> QED BY Zenon, <1>2, <2>5, <2>6, Constants DEF Lists
<1> HIDE DEF t, k, past
<1> QED BY Zenon, <1>2, <1>3 DEF WithoutProcessed, t, k, past
(* Changing one entry keeps a list a list.                                 *)
LEMMA ReplaceEntry ==
  ASSUME NEW u \in Nat, NEW s \in Lists(u), NEW i \in 1 .. MaxSegs, NEW g \in Seg(u)
  PROVE  [s EXCEPT ![i] = g] \in Lists(u)
BY Zenon DEF Lists

(* The bounds of a segment that is in use.                                 *)
LEMMA UsedSeg ==
  ASSUME NEW u \in Nat, u <= Horizon, NEW g \in Seg(u), Used(g)
  PROVE  /\ g.begin \in SeqNums /\ g.end \in SeqNums
         /\ Off(g.begin) \in Nat /\ Off(g.end) \in Nat
         /\ Off(g.begin) < Off(g.end) /\ Off(g.end) <= u
         /\ Off(g.begin) <= Horizon /\ Off(g.end) <= Horizon
BY OffType, Constants DEF Seg

(* A region of the stream makes a well-formed entry.                       *)
LEMMA MakeSeg ==
  ASSUME NEW u, NEW b \in SeqNums, NEW e \in SeqNums, Off(b) < Off(e), Off(e) <= u
  PROVE  [begin |-> b, end |-> e] \in Seg(u)
BY Zenon DEF Seg

(* Merging a segment into an entry keeps a list a list.                    *)
LEMMA ExpandList ==
  ASSUME NEW u \in Nat, u <= Horizon, NEW s \in Lists(u), NEW i \in 1 .. MaxSegs,
         Used(s[i]), NEW g \in Seg(u), Used(g)
  PROVE  Expand(s, i, g) \in Lists(u)
<1> DEFINE b == IF Before(g.begin, s[i].begin) THEN g.begin ELSE s[i].begin
<1> DEFINE e == IF Before(s[i].end, g.end) THEN g.end ELSE s[i].end
<1> DEFINE t == [s EXCEPT ![i] = [begin |-> b, end |-> e]]
<1> DEFINE j == FirstNot(i + 1, BegunBy(t, e))
<1> DEFINE last == t[j - 1].end
<1> DEFINE z == IF Before(e, last) THEN last ELSE e
<1>1. s[i] \in Seg(u)
  BY Zenon DEF Lists
<1>2. /\ b \in SeqNums /\ e \in SeqNums /\ Off(b) < Off(e) /\ Off(e) <= u
      /\ Off(b) \in Nat /\ Off(e) \in Nat
  BY <1>1, UsedSeg, BeforeOff
<1>3. t \in Lists(u) /\ t[i] = [begin |-> b, end |-> e]
  <2> HIDE DEF b, e
  <2>1. [begin |-> b, end |-> e] \in Seg(u)
    BY Zenon, <1>2, MakeSeg
  <2> QED BY Zenon, <2>1, ReplaceEntry DEF Lists
<1> HIDE DEF b, e, t
<1>4. j \in i + 1 .. MaxSegs + 1 /\ i + 1 .. j - 1 \subseteq BegunBy(t, e)
  <2>1. i + 1 \in 1 .. MaxSegs + 1 /\ MaxSegs + 1 \notin BegunBy(t, e)
    BY Constants DEF BegunBy
  <2> QED BY Zenon, <2>1, FirstNotFound
<1> HIDE DEF j
<1>5. z \in SeqNums /\ Off(b) < Off(z) /\ Off(z) <= u
  <2>1. CASE ~ Before(e, last)
    BY Zenon, <1>2, <2>1
  <2>2. CASE Before(e, last) /\ j - 1 = i
    <3>1. last = e
      BY <1>3, <2>2
    <3>2. ~ Before(e, e)
      BY <1>2, BeforeOff, Constants
    <3> QED BY Zenon, <2>2, <3>1, <3>2
  <2>3. CASE Before(e, last) /\ j - 1 # i
    <3>1. j - 1 \in 1 .. MaxSegs /\ j - 1 \in BegunBy(t, e)
      BY <1>4, <2>3, Constants
    <3>2. t[j - 1] \in Seg(u) /\ Used(t[j - 1])
      BY Zenon, <1>3, <3>1 DEF Lists, BegunBy
    <3>3. /\ last \in SeqNums /\ Off(last) <= u /\ Off(last) <= Horizon
          /\ Off(last) \in Nat
      BY Zenon, <3>2, UsedSeg
    <3> HIDE DEF last
    <3>4. Off(e) < Off(last)
      BY <1>2, <2>3, <3>3, BeforeOff, Constants
    <3> QED BY <1>2, <2>3, <3>3, <3>4
  <2> QED BY Zenon, <2>1, <2>2, <2>3
<1> HIDE DEF z
<1>6. [t EXCEPT ![i].end = z] \in Lists(u)
  <2>1. [begin |-> b, end |-> z] \in Seg(u)
    BY Zenon, <1>2, <1>5, MakeSeg
  <2>2. [t[i] EXCEPT !.end = z] = [begin |-> b, end |-> z]
    BY <1>3
  <2>3. [t EXCEPT ![i].end = z] = [t EXCEPT ![i] = [begin |-> b, end |-> z]]
    BY <1>3, <2>2, Zenon
  <2> QED BY Zenon, <1>3, <2>1, <2>3, ReplaceEntry
<1>7. MoveDown([t EXCEPT ![i].end = z], j, i + 1) \in Lists(u)
  BY <1>4, <1>6, MoveDownList, Constants
<1>8. Expand(s, i, g) = MoveDown([t EXCEPT ![i].end = z], j, i + 1)
  BY Zenon DEF Expand, b, e, t, j, z
<1> QED BY Zenon, <1>7, <1>8

(* Inserting a segment keeps a list a list.                                *)
LEMMA InsertList ==
  ASSUME NEW u \in Nat, u <= Horizon, NEW s \in Lists(u), NEW g \in Seg(u), Used(g)
  PROVE  Insert(s, g) \in Lists(u)
<1> DEFINE ids == {h \in 1 .. MaxSegs : Used(s[h]) /\ Before(s[h].end, g.begin)}
<1> DEFINE i == FirstNot(1, ids)
<1>1. i \in 1 .. MaxSegs + 1
  <2>1. 1 \in 1 .. MaxSegs + 1 /\ MaxSegs + 1 \notin ids
    BY Constants
  <2> HIDE DEF ids
  <2> QED BY Zenon, <2>1, FirstNotFound
<1> HIDE DEF i
<1>2. ASSUME i <= MaxSegs
      PROVE  /\ [s EXCEPT ![i] = g] \in Lists(u)
             /\ Used(s[i]) => Expand(s, i, g) \in Lists(u)
             /\ [h \in 1 .. MaxSegs |->
                   IF h < i THEN s[h] ELSE IF h = i THEN g ELSE s[h - 1]] \in Lists(u)
  <2>1. i \in 1 .. MaxSegs
    BY <1>1, <1>2, Constants
  <2>2. [h \in 1 .. MaxSegs |->
           IF h < i THEN s[h] ELSE IF h = i THEN g ELSE s[h - 1]] \in Lists(u)
    BY <2>1, Constants DEF Lists
  <2> QED BY Zenon, <2>1, <2>2, ReplaceEntry, ExpandList
<1>3. ~ (i > MaxSegs) => i <= MaxSegs
  BY <1>1, Constants
<1> QED BY Zenon, <1>2, <1>3 DEF Insert, i

(* The loop of exa_tcp_rx_buffer_abort keeps a list a list.                *)
LEMMA PurgeList ==
  ASSUME NEW u \in Nat, NEW s \in Lists(u)
  PROVE  Purge(s) \in Lists(u)
BY Zenon, EmptySeg DEF Purge, Lists

-----------------------------------------------------------------------------
(* The order of the list, and the bytes of its entries.                    *)

(* The sequence numbers from one to another are those with an offset in    *)
(* between.                                                                *)
LEMMA SpanOff ==
  ASSUME NEW a \in SeqNums, NEW b \in SeqNums, Off(a) <= Off(b), NEW x
  PROVE  x \in Span(a, b) <=> x \in SeqNums /\ Off(a) <= Off(x) /\ Off(x) < Off(b)
<1>1. /\ Off(a) \in Nat /\ Off(b) \in Nat /\ Off(b) < SeqMod
      /\ Sub(b, a) = Off(b) - Off(a) /\ SeqMod \in Nat
  BY Zenon, SubOff, OffType, Constants
<1>2. ASSUME NEW i \in 0 .. Sub(b, a) - 1
      PROVE  /\ Add(a, i) \in SeqNums
             /\ Off(a) <= Off(Add(a, i)) /\ Off(Add(a, i)) < Off(b)
  <2> DEFINE p == Off(a)
  <2> DEFINE q == Off(b)
  <2>1. p \in Nat /\ q \in Nat /\ q < SeqMod /\ SeqMod \in Nat /\ i \in 0 .. q - p - 1
    BY Zenon, <1>1
  <2> HIDE DEF p, q
  <2>2. i \in SeqNums /\ p + i < SeqMod /\ p <= p + i /\ p + i < q
    BY <2>1 DEF SeqNums
  <2>3. Add(a, i) \in SeqNums /\ Off(Add(a, i)) = p + i
    BY Zenon, <2>2, OffAdd DEF p
  <2> QED BY Zenon, <2>2, <2>3 DEF p, q
<1>3. ASSUME x \in SeqNums, Off(a) <= Off(x), Off(x) < Off(b)
      PROVE  \E i \in 0 .. Sub(b, a) - 1 : x = Add(a, i)
  <2> DEFINE p == Off(a)
  <2> DEFINE q == Off(b)
  <2> DEFINE o == Off(x)
  <2> DEFINE i == o - p
  <2>1. p \in Nat /\ q \in Nat /\ o \in Nat /\ p <= o /\ o < q /\ q < SeqMod
        /\ SeqMod \in Nat
    BY Zenon, <1>1, <1>3, OffType
  <2> HIDE DEF p, q, o
  <2>2. i \in SeqNums /\ i \in 0 .. q - p - 1 /\ p + i = o /\ p + i < SeqMod
    BY <2>1 DEF SeqNums
  <2> HIDE DEF i
  <2>3. Add(a, i) \in SeqNums /\ Off(Add(a, i)) = Off(x)
    BY Zenon, <2>2, OffAdd DEF p, o
  <2>4. Add(a, i) = x
    BY Zenon, <1>3, <2>3, OffInjective
  <2> QED BY Zenon, <2>2, <2>4, <1>1 DEF p, q
<1> QED BY Zenon, <1>2, <1>3 DEF Span

(* A used entry follows itself.                                            *)
LEMMA FollowsSelf ==
  ASSUME NEW g, NEW r
  PROVE  Follows(g, g, r)
BY Zenon DEF Follows

(* recv_seq may move on.                                                   *)
LEMMA ChainLater ==
  ASSUME NEW u \in Nat, NEW s \in Lists(u), NEW r \in SeqNums, NEW q \in SeqNums,
         Off(r) <= Off(q), Chain(s, r)
  PROVE  Chain(s, q)
<1> SUFFICES ASSUME NEW l \in 1 .. MaxSegs, NEW h \in 1 .. l - 1, Used(s[l])
             PROVE  Used(s[h]) /\ Follows(s[h], s[l], q)
  BY Zenon DEF Chain
<1>1. Used(s[h]) /\ Follows(s[h], s[l], r) /\ h \in 1 .. MaxSegs
  BY Constants DEF Chain
<1>2. s[h].begin \in SeqNums
  BY Zenon, <1>1 DEF Lists, Seg
<1>3. Off(s[h].begin) <= Off(r) => Off(s[h].begin) <= Off(q)
  BY <1>2, OffType, Constants
<1> QED BY Zenon, <1>1, <1>3 DEF Follows

(* recv_seq may move on, and more bytes come into the buffer.              *)
LEMMA FilledLater ==
  ASSUME NEW R, NEW Q, NEW g, NEW r \in SeqNums, NEW q \in SeqNums, Off(r) <= Off(q),
         Filled(R, g, r), \A x \in SeqNums : x \in R /\ Off(q) <= Off(x) => x \in Q
  PROVE  Filled(Q, g, q)
<1> SUFFICES ASSUME NEW x \in SeqNums, Off(g.begin) <= Off(x), Off(q) <= Off(x),
                    Off(x) < Off(g.end)
             PROVE  x \in Q
  BY Zenon DEF Filled
<1>1. Off(r) <= Off(x)
  BY OffType
<1> QED BY Zenon, <1>1 DEF Filled

(* Entries taken from a list in its order are in order.                    *)
LEMMA SubList ==
  ASSUME NEW s, NEW r, Chain(s, r), NEW t, NEW f \in [1 .. MaxSegs -> Nat \ {0}],
         \A h \in 1 .. MaxSegs : f[h] <= MaxSegs => t[h] = s[f[h]],
         \A h \in 1 .. MaxSegs : f[h] > MaxSegs => ~ Used(t[h]),
         \A l \in 1 .. MaxSegs : \A h \in 1 .. l - 1 : f[l] <= MaxSegs => f[h] <= f[l]
  PROVE  Chain(t, r)
<1> SUFFICES ASSUME NEW l \in 1 .. MaxSegs, NEW h \in 1 .. l - 1, Used(t[l])
             PROVE  Used(t[h]) /\ Follows(t[h], t[l], r)
  BY Zenon DEF Chain
<1>1. h \in 1 .. MaxSegs /\ MaxSegs \in Nat
  BY Constants
<1>2. f[l] \in Nat \ {0} /\ f[h] \in Nat \ {0} /\ f[l] <= MaxSegs /\ f[h] <= f[l]
  BY <1>1
<1>3. t[l] = s[f[l]] /\ t[h] = s[f[h]] /\ f[l] \in 1 .. MaxSegs
  BY <1>1, <1>2
<1>4. CASE f[h] = f[l]
  BY Zenon, <1>3, <1>4, FollowsSelf
<1>5. CASE f[h] # f[l]
  <2>1. f[h] \in 1 .. f[l] - 1
    BY <1>2, <1>5
  <2> QED BY Zenon, <1>3, <2>1 DEF Chain
<1> QED BY Zenon, <1>4, <1>5

(* What it brings stays in the buffer.                                     *)
LEMMA SubFilled ==
  ASSUME NEW R, NEW s, NEW r, AllFilled(R, s, r), NEW t,
         \A h \in 1 .. MaxSegs : Used(t[h]) => \E k \in 1 .. MaxSegs : t[h] = s[k]
  PROVE  AllFilled(R, t, r)
BY Zenon DEF AllFilled

(* Moving entries down keeps them in order.                                *)
LEMMA MoveDownChain ==
  ASSUME NEW s, NEW r, Chain(s, r),
         NEW i \in 1 .. MaxSegs + 1, NEW k \in 1 .. MaxSegs + 1, k <= i
  PROVE  Chain(MoveDown(s, i, k), r)
<1> DEFINE f == [h \in 1 .. MaxSegs |-> IF h < k THEN h ELSE h + i - k]
<1> DEFINE t == MoveDown(s, i, k)
<1>1. MaxSegs \in Nat
  BY Zenon, Constants
<1>2. f \in [1 .. MaxSegs -> Nat \ {0}]
  BY <1>1
<1>3. ASSUME NEW h \in 1 .. MaxSegs
      PROVE  /\ f[h] <= MaxSegs => t[h] = s[f[h]]
             /\ f[h] > MaxSegs => ~ Used(t[h])
  BY <1>1 DEF MoveDown, Empty, Used
<1>4. \A l \in 1 .. MaxSegs : \A h \in 1 .. l - 1 : f[l] <= MaxSegs => f[h] <= f[l]
  BY <1>1
<1> HIDE DEF f, t
<1>5. Chain(t, r)
  BY <1>2, <1>3, <1>4, SubList
<1> QED BY Zenon, <1>5 DEF t

(* Moving entries down brings no new ones.                                 *)
LEMMA MoveDownFilled ==
  ASSUME NEW R, NEW s, NEW r, AllFilled(R, s, r),
         NEW i \in 1 .. MaxSegs + 1, NEW k \in 1 .. MaxSegs + 1, k <= i
  PROVE  AllFilled(R, MoveDown(s, i, k), r)
<1> DEFINE t == MoveDown(s, i, k)
<1>1. ASSUME NEW h \in 1 .. MaxSegs, Used(t[h])
      PROVE  \E j \in 1 .. MaxSegs : t[h] = s[j]
  <2>1. t[h] = IF h < k THEN s[h] ELSE IF h + i - k <= MaxSegs THEN s[h + i - k] ELSE Empty
    BY Zenon DEF MoveDown
  <2>2. ~ Used(Empty)
    BY Zenon DEF Used, Empty
  <2>3. h + i - k <= MaxSegs => h + i - k \in 1 .. MaxSegs
    BY Constants
  <2> QED BY Zenon, <1>1, <2>1, <2>2, <2>3
<1> HIDE DEF t
<1>2. AllFilled(R, t, r)
  BY Zenon, <1>1, SubFilled
<1> QED BY Zenon, <1>2 DEF t

(* Removing what the kernel has gone past keeps the order, and the entries *)
(* filled.                                                                 *)
LEMMA WithoutProcessedChain ==
  ASSUME NEW u \in Nat, u <= Horizon, NEW s \in Lists(u),
         NEW r \in SeqNums, Off(r) <= Horizon, Chain(s, r),
         NEW R, AllFilled(R, s, r)
  PROVE  /\ Chain(WithoutProcessed(s, r), r)
         /\ AllFilled(R, WithoutProcessed(s, r), r)
<1> DEFINE past == EndedBy(s, r)
<1> DEFINE k == FirstNot(2, past)
<1> DEFINE t == MoveDown(s, k, 1)
<1>0. MaxSegs \in Nat /\ MaxSegs > 0 /\ 1 \in 1 .. MaxSegs
  BY Constants
<1>1. k \in 2 .. MaxSegs + 1 /\ k \notin past
  <2>1. 2 \in 1 .. MaxSegs + 1 /\ MaxSegs + 1 \notin past
    BY <1>0 DEF EndedBy
  <2> QED BY Zenon, <2>1, FirstNotFound
<1> HIDE DEF k
<1>2. t \in Lists(u) /\ Chain(t, r) /\ AllFilled(R, t, r)
  BY <1>0, <1>1, MoveDownList, MoveDownChain, MoveDownFilled
<1> HIDE DEF t, past
<1>3. ASSUME Used(t[1]), Before(t[1].begin, r)
      PROVE  Chain([t EXCEPT ![1].begin = r], r) /\ AllFilled(R, [t EXCEPT ![1].begin = r], r)
  <2> DEFINE v == [t EXCEPT ![1].begin = r]
  <2>1. t[1] \in Seg(u) /\ t[1] \in [begin : SeqNums, end : SeqNums]
    BY Zenon, <1>0, <1>2 DEF Lists, Seg
  <2>2. /\ v[1].begin = r /\ v[1].end = t[1].end
        /\ \A h \in 2 .. MaxSegs : v[h] = t[h]
    BY <1>0, <1>2, <2>1 DEF Lists
  <2> HIDE DEF v
  <2>3. /\ Off(t[1].begin) \in Nat /\ Off(r) \in Nat /\ Off(t[1].begin) < Off(r)
        /\ Off(t[1].begin) <= Horizon
    BY Zenon, <1>3, <2>1, UsedSeg, BeforeOff, OffType
  <2>4. t[1].end \in SeqNums /\ Off(r) < Off(t[1].end)
    <3>1. k <= MaxSegs /\ t[1] = s[k]
      BY <1>0, <1>1, <1>3 DEF t, MoveDown, Empty, Used
    <3>2. k \in 1 .. MaxSegs /\ ~ NotAfter(s[k].end, r)
      BY <1>1, <1>3, <3>1 DEF past, EndedBy
    <3>3. t[1].end \in SeqNums /\ Off(t[1].end) <= Horizon /\ Off(t[1].end) \in Nat
      BY Zenon, <1>3, <2>1, UsedSeg
    <3>4. ~ (Off(t[1].end) <= Off(r))
      BY Zenon, <3>1, <3>2, <3>3, BeforeOff
    <3> QED BY <2>3, <3>3, <3>4
  <2>5. Used(v[1])
    BY <2>2, <2>3, <2>4 DEF Used
  <2>6. ASSUME NEW l \in 1 .. MaxSegs, NEW h \in 1 .. l - 1, Used(v[l])
        PROVE  Used(v[h]) /\ Follows(v[h], v[l], r)
    <3>1. l \in 2 .. MaxSegs /\ v[l] = t[l] /\ (h = 1 \/ h \in 2 .. MaxSegs)
      BY <1>0, <2>2
    <3>2. Used(t[l]) /\ Used(t[h]) /\ Follows(t[h], t[l], r)
      BY Zenon, <1>2, <2>6, <3>1 DEF Chain
    <3>3. CASE h \in 2 .. MaxSegs
      BY Zenon, <2>2, <3>1, <3>2, <3>3
    <3>4. CASE h = 1
      <4>1. Off(t[l].begin) \in Nat
        BY Zenon, <1>2, OffType DEF Lists, Seg
      <4>2. CASE Off(t[1].end) < Off(t[l].begin)
        BY Zenon, <2>2, <2>5, <3>1, <3>4, <4>2 DEF Follows
      <4>3. CASE t[1].end = t[l].end /\ Off(t[l].begin) <= Off(t[1].begin)
        <5>1. Off(t[l].begin) <= Off(r) /\ Off(r) <= Off(r)
          BY <2>3, <4>1, <4>3
        <5> QED BY Zenon, <2>2, <2>5, <3>1, <3>4, <4>3, <5>1 DEF Follows
      <4> QED BY <2>3, <3>2, <3>4, <4>2, <4>3 DEF Follows
    <3> QED BY Zenon, <3>1, <3>3, <3>4
  <2>7. ASSUME NEW h \in 1 .. MaxSegs, Used(v[h])
        PROVE  Filled(R, v[h], r)
    <3>1. CASE h = 1
      <4> SUFFICES ASSUME NEW x \in SeqNums, Off(r) <= Off(x), Off(x) < Off(t[1].end)
                   PROVE  x \in R
        BY Zenon, <2>2, <3>1 DEF Filled
      <4>1. Off(t[1].begin) <= Off(x)
        BY <2>3, OffType
      <4>2. Filled(R, t[1], r)
        BY Zenon, <1>0, <1>2, <1>3 DEF AllFilled
      <4> QED BY Zenon, <4>1, <4>2 DEF Filled
    <3>2. CASE h # 1
      <4>1. h \in 2 .. MaxSegs
        BY <1>0, <3>2
      <4> QED BY Zenon, <1>2, <2>2, <2>7, <4>1 DEF AllFilled
    <3> QED BY Zenon, <3>1, <3>2
  <2> QED BY Zenon, <2>6, <2>7 DEF Chain, AllFilled, v
<1> QED BY Zenon, <1>2, <1>3 DEF WithoutProcessed, t, k, past

(* Merging a segment into the entry it touches keeps the order, and the    *)
(* entries filled.  No entry before it touches the segment.                *)
LEMMA ExpandChain ==
  ASSUME NEW u \in Nat, u <= Horizon, NEW s \in Lists(u), NEW i \in 1 .. MaxSegs,
         Used(s[i]), NEW g \in Seg(u), Used(g), NEW r \in SeqNums,
         Chain(s, r), Off(r) <= Off(g.begin), Touches(s, i, g),
         NEW R, AllFilled(R, s, r), Filled(R, g, r)
  PROVE  Chain(Expand(s, i, g), r) /\ AllFilled(R, Expand(s, i, g), r)
<1> DEFINE b == IF Before(g.begin, s[i].begin) THEN g.begin ELSE s[i].begin
<1> DEFINE e == IF Before(s[i].end, g.end) THEN g.end ELSE s[i].end
<1> DEFINE t == [s EXCEPT ![i] = [begin |-> b, end |-> e]]
<1> DEFINE j == FirstNot(i + 1, BegunBy(t, e))
<1> DEFINE last == t[j - 1].end
<1> DEFINE z == IF Before(e, last) THEN last ELSE e
<1> DEFINE w == [t EXCEPT ![i].end = z]
<1> DEFINE m == MoveDown(w, j, i + 1)
<1>0. MaxSegs \in Nat /\ MaxSegs > 0 /\ i \in Nat /\ Off(r) \in Nat
  BY Constants, OffType
<1>1. /\ s[i].begin \in SeqNums /\ s[i].end \in SeqNums
      /\ g.begin \in SeqNums /\ g.end \in SeqNums
      /\ Off(s[i].begin) \in Nat /\ Off(s[i].end) \in Nat
      /\ Off(g.begin) \in Nat /\ Off(g.end) \in Nat
      /\ Off(s[i].begin) < Off(s[i].end) /\ Off(g.begin) < Off(g.end)
      /\ Off(s[i].begin) <= Horizon /\ Off(s[i].end) <= Horizon
      /\ Off(g.begin) <= Horizon /\ Off(g.end) <= Horizon
      /\ Off(s[i].end) <= u /\ Off(g.end) <= u
  <2>1. s[i] \in Seg(u)
    BY Zenon DEF Lists
  <2>2. /\ s[i].begin \in SeqNums /\ s[i].end \in SeqNums
        /\ Off(s[i].begin) \in Nat /\ Off(s[i].end) \in Nat
        /\ Off(s[i].begin) < Off(s[i].end) /\ Off(s[i].end) <= u
        /\ Off(s[i].begin) <= Horizon /\ Off(s[i].end) <= Horizon
    BY Zenon, <2>1, UsedSeg
  <2>3. /\ g.begin \in SeqNums /\ g.end \in SeqNums
        /\ Off(g.begin) \in Nat /\ Off(g.end) \in Nat
        /\ Off(g.begin) < Off(g.end) /\ Off(g.end) <= u
        /\ Off(g.begin) <= Horizon /\ Off(g.end) <= Horizon
    BY Zenon, UsedSeg
  <2> QED BY Zenon, <2>2, <2>3
<1>2. /\ b \in SeqNums /\ e \in SeqNums
      /\ Off(b) = IF Off(g.begin) < Off(s[i].begin) THEN Off(g.begin) ELSE Off(s[i].begin)
      /\ Off(e) = IF Off(s[i].end) < Off(g.end) THEN Off(g.end) ELSE Off(s[i].end)
  BY Zenon, <1>1, BeforeOff
<1> HIDE DEF b, e
<1>3. /\ Off(b) \in Nat /\ Off(e) \in Nat /\ Off(b) <= Off(g.begin)
      /\ Off(b) <= Off(s[i].begin) /\ Off(s[i].end) <= Off(e) /\ Off(g.end) <= Off(e)
      /\ Off(e) <= Horizon /\ Off(b) < Off(e) /\ Off(e) <= u
  <2> DEFINE p == Off(g.begin)
  <2> DEFINE q == Off(s[i].begin)
  <2> DEFINE x == Off(g.end)
  <2> DEFINE y == Off(s[i].end)
  <2>1. /\ p \in Nat /\ q \in Nat /\ x \in Nat /\ y \in Nat /\ q < y /\ p < x
        /\ x <= Horizon /\ y <= Horizon /\ Off(b) = (IF p < q THEN p ELSE q)
        /\ x <= u /\ y <= u /\ Off(e) = (IF y < x THEN x ELSE y)
    BY Zenon, <1>1, <1>2
  <2> HIDE DEF p, q, x, y
  <2>2. /\ Off(b) \in Nat /\ Off(e) \in Nat /\ Off(b) <= p
        /\ Off(b) <= q /\ y <= Off(e) /\ x <= Off(e)
        /\ Off(e) <= Horizon /\ Off(b) < Off(e) /\ Off(e) <= u
    BY <2>1, Constants
  <2> QED BY Zenon, <2>2 DEF p, q, x, y
<1>4. /\ t \in Lists(u) /\ t[i] = [begin |-> b, end |-> e]
      /\ \A h \in 1 .. MaxSegs : h # i => t[h] = s[h]
  <2>1. [begin |-> b, end |-> e] \in Seg(u)
    BY Zenon, <1>2, <1>3, MakeSeg
  <2> QED BY Zenon, <2>1, ReplaceEntry DEF Lists
<1> HIDE DEF t
<1>5. /\ j \in i + 1 .. MaxSegs + 1 /\ j \notin BegunBy(t, e)
      /\ i + 1 .. j - 1 \subseteq BegunBy(t, e)
  <2>1. i + 1 \in 1 .. MaxSegs + 1 /\ MaxSegs + 1 \notin BegunBy(t, e)
    BY <1>0 DEF BegunBy
  <2> QED BY Zenon, <2>1, FirstNotFound
<1> HIDE DEF j
<1>6. /\ z \in SeqNums /\ Off(z) \in Nat /\ Off(e) <= Off(z)
      /\ \/ z = e
         \/ /\ j - 1 \in i + 1 .. MaxSegs /\ z = s[j - 1].end
            /\ Used(s[j - 1]) /\ Off(s[j - 1].begin) <= Off(e)
  <2>1. CASE ~ Before(e, last)
    BY Zenon, <1>2, <1>3, <2>1
  <2>2. CASE Before(e, last) /\ j - 1 = i
    <3>1. last = e
      BY <1>4, <2>2
    <3>2. ~ Before(e, e)
      BY <1>2, <1>3, BeforeOff
    <3> QED BY Zenon, <2>2, <3>1, <3>2
  <2>3. CASE Before(e, last) /\ j - 1 # i
    <3>1. j - 1 \in i + 1 .. MaxSegs /\ j - 1 \in 1 .. MaxSegs
      BY <1>0, <1>5, <2>3
    <3>2. j - 1 \in BegunBy(t, e) /\ t[j - 1] = s[j - 1]
      BY <1>0, <1>4, <1>5, <3>1
    <3>3. s[j - 1] \in Seg(u) /\ Used(s[j - 1]) /\ NotAfter(s[j - 1].begin, e)
      BY Zenon, <1>4, <3>1, <3>2 DEF Lists, BegunBy
    <3> DEFINE a == s[j - 1]
    <3>4. a \in Seg(u) /\ Used(a) /\ NotAfter(a.begin, e) /\ last = a.end
      BY Zenon, <3>2, <3>3
    <3> HIDE DEF a, last
    <3>5. /\ a.begin \in SeqNums /\ a.end \in SeqNums /\ Off(a.end) \in Nat
          /\ Off(a.begin) <= Horizon /\ Off(a.end) <= Horizon
      BY Zenon, <3>4, UsedSeg
    <3>6. Off(a.begin) <= Off(e) /\ Off(e) < Off(a.end)
      BY Zenon, <1>2, <1>3, <2>3, <3>4, <3>5, BeforeOff
    <3> QED BY SMTT(20), <1>3, <2>3, <3>1, <3>4, <3>5, <3>6 DEF a
  <2> QED BY Zenon, <2>1, <2>2, <2>3
<1> HIDE DEF last, z
<1>7. /\ w[i] = [begin |-> b, end |-> z]
      /\ \A h \in 1 .. MaxSegs : h # i => w[h] = s[h]
  BY <1>4 DEF Lists
<1> HIDE DEF w
<1>8. /\ m[i] = [begin |-> b, end |-> z]
      /\ \A h \in 1 .. i - 1 : m[h] = s[h]
      /\ \A h \in i + 1 .. MaxSegs :
           IF h + j - (i + 1) <= MaxSegs
             THEN m[h] = s[h + j - (i + 1)] /\ h + j - (i + 1) \in j .. MaxSegs
             ELSE ~ Used(m[h])
  <2>1. m[i] = w[i] /\ \A h \in 1 .. i - 1 : m[h] = w[h]
    BY <1>0 DEF MoveDown
  <2>2. \A h \in 1 .. i - 1 : h \in 1 .. MaxSegs /\ h # i
    BY <1>0
  <2>3. ASSUME NEW h \in i + 1 .. MaxSegs
        PROVE  IF h + j - (i + 1) <= MaxSegs
                 THEN m[h] = s[h + j - (i + 1)] /\ h + j - (i + 1) \in j .. MaxSegs
                 ELSE ~ Used(m[h])
    <3> DEFINE n == h + j - (i + 1)
    <3>1. h \in 1 .. MaxSegs /\ ~ (h < i + 1) /\ n \in Int /\ j <= n
      BY <1>0, <1>5
    <3>2. m[h] = IF n <= MaxSegs THEN w[n] ELSE Empty
      BY Zenon, <3>1 DEF MoveDown
    <3>3. n <= MaxSegs => n \in j .. MaxSegs /\ n \in 1 .. MaxSegs /\ n # i
      BY <1>0, <1>5, <3>1
    <3> HIDE DEF n
    <3>4. ~ Used(Empty)
      BY Zenon DEF Used, Empty
    <3>5. IF n <= MaxSegs THEN m[h] = s[n] /\ n \in j .. MaxSegs ELSE ~ Used(m[h])
      BY Zenon, <1>7, <3>2, <3>3, <3>4
    <3> QED BY Zenon, <3>5 DEF n
  <2> QED BY Zenon, <1>7, <2>1, <2>2, <2>3
<1> HIDE DEF m
<1>9. ASSUME NEW l \in j .. MaxSegs, Used(s[l])
      PROVE  Off(z) < Off(s[l].begin)
  <2>1. j \in 1 .. MaxSegs /\ j # i /\ l \in 1 .. MaxSegs /\ l # i
    BY <1>0, <1>5
  <2>2. Used(s[j]) /\ (l = j \/ Follows(s[j], s[l], r))
    BY <1>9, <2>1 DEF Chain
  <2>3. /\ s[j].begin \in SeqNums /\ Off(s[j].begin) \in Nat /\ Off(s[j].begin) <= Horizon
        /\ Off(s[j].end) \in Nat /\ Off(s[j].begin) < Off(s[j].end)
    <3>1. s[j] \in Seg(u)
      BY Zenon, <2>1 DEF Lists
    <3> QED BY Zenon, <2>2, <3>1, UsedSeg
  <2>4. Off(e) < Off(s[j].begin)
    <3>1. ~ NotAfter(s[j].begin, e)
      BY Zenon, <1>4, <1>5, <2>1, <2>2 DEF BegunBy
    <3> QED BY SMTT(20), <1>2, <1>3, <2>3, <3>1, BeforeOff
  <2>5. Off(z) < Off(s[j].begin)
    <3>1. CASE z = e
      BY Zenon, <2>4, <3>1
    <3>2. CASE /\ j - 1 \in i + 1 .. MaxSegs /\ z = s[j - 1].end
               /\ Used(s[j - 1]) /\ Off(s[j - 1].begin) <= Off(e)
      <4>1. Follows(s[j - 1], s[j], r) /\ s[j - 1].begin \in SeqNums
        <5>1. j - 1 \in 1 .. j - 1 /\ j - 1 \in 1 .. MaxSegs
          BY <1>0, <1>5, <3>2
        <5> QED BY Zenon, <2>1, <2>2, <5>1 DEF Chain, Lists, Seg
      <4>2. Off(s[j - 1].begin) \in Nat
        BY Zenon, <4>1, OffType
      <4>3. ~ (Off(s[j].begin) <= Off(s[j - 1].begin))
        BY SMTT(20), <1>3, <2>3, <2>4, <3>2, <4>2
      <4>4. s[j - 1].begin # s[j].begin
        BY <2>3, <4>3
      <4> QED BY Zenon, <3>2, <4>1, <4>3, <4>4 DEF Follows
    <3> QED BY Zenon, <1>6, <3>1, <3>2
  <2>6. CASE l = j
    BY Zenon, <2>5, <2>6
  <2>7. CASE l # j
    <3>1. s[l].begin \in SeqNums /\ Off(s[l].begin) \in Nat
      BY Zenon, <2>1, OffType DEF Lists, Seg
    <3>2. ~ (Off(s[j].begin) <= Off(r))
      BY SMTT(20), <1>0, <1>1, <1>3, <2>3, <2>4
    <3>3. CASE Off(s[j].end) < Off(s[l].begin)
      BY <1>6, <2>3, <2>5, <3>1, <3>3
    <3>4. CASE s[j].begin = s[l].begin
      BY Zenon, <2>5, <3>4
    <3> QED BY Zenon, <2>2, <2>7, <3>2, <3>3, <3>4 DEF Follows
  <2> QED BY Zenon, <2>6, <2>7
<1>10. ASSUME NEW h \in 1 .. i - 1
       PROVE  Used(s[h]) /\ Off(s[h].end) < Off(b)
  <2>1. h \in 1 .. MaxSegs /\ Used(s[h]) /\ Follows(s[h], s[i], r)
    BY SMTT(20), <1>0 DEF Chain
  <2>2. Off(s[h].end) \in Nat
    BY Zenon, <2>1, OffType DEF Lists, Seg
  <2>3. Off(s[h].end) < Off(g.begin) /\ Off(g.begin) <= Off(s[i].end)
    BY Zenon DEF Touches
  <2>4. s[h].end # s[i].end
    BY <1>1, <2>2, <2>3
  <2>5. Off(s[h].end) < Off(s[i].begin)
    BY Zenon, <2>1, <2>4 DEF Follows
  <2> QED BY Zenon, <1>2, <2>1, <2>3, <2>5
<1>11. Used(m[i])
  <2>1. b # z
    BY <1>3, <1>6
  <2> QED BY SMTT(20), <1>8, <2>1 DEF Used
<1>12. ASSUME NEW l \in 1 .. MaxSegs, NEW h \in 1 .. l - 1, Used(m[l])
       PROVE  Used(m[h]) /\ Follows(m[h], m[l], r)
  <2> DEFINE d == j - (i + 1)
  <2>0. d \in Nat /\ d = j - (i + 1)
    BY <1>0, <1>5
  <2>1. CASE l \in 1 .. i - 1
    <3>1. h \in 1 .. i - 1
      BY <1>0, <2>1
    <3> QED BY Zenon, <1>8, <1>12, <2>1, <3>1 DEF Chain
  <2>2. CASE l = i
    BY <1>8, <1>10, <2>2 DEF Follows
  <2>3. CASE l \in i + 1 .. MaxSegs
    <3> DEFINE n == l + j - (i + 1)
    <3>1. n \in j .. MaxSegs /\ m[l] = s[n] /\ Used(s[n])
      BY Zenon, <1>8, <1>12, <2>3
    <3>2. CASE h \in 1 .. i - 1
      <4>1. h \in 1 .. n - 1 /\ n \in 1 .. MaxSegs
        BY <1>0, <1>5, <3>1, <3>2
      <4> HIDE DEF n
      <4>2. Used(s[h]) /\ Follows(s[h], s[n], r)
        BY Zenon, <3>1, <4>1 DEF Chain
      <4> QED BY Zenon, <1>8, <3>1, <3>2, <4>2
    <3>3. CASE h = i
      <4> HIDE DEF n
      <4>1. Off(z) < Off(s[n].begin)
        BY Zenon, <1>9, <3>1
      <4> QED BY <1>8, <1>11, <3>1, <3>3, <4>1 DEF Follows
    <3>4. CASE h \in i + 1 .. MaxSegs
      <4> DEFINE k == h + j - (i + 1)
      <4>1. k \in 1 .. n - 1 /\ n \in 1 .. MaxSegs /\ k <= MaxSegs
        BY <1>0, <1>5, <2>3, <3>1, <3>4
      <4>2. m[h] = s[k]
        BY Zenon, <1>8, <3>4, <4>1
      <4> HIDE DEF n, k
      <4>3. Used(s[k]) /\ Follows(s[k], s[n], r)
        BY Zenon, <3>1, <4>1 DEF Chain
      <4> QED BY Zenon, <3>1, <4>2, <4>3
    <3> QED BY SMTT(20), <1>0, <3>2, <3>3, <3>4
  <2> QED BY SMTT(20), <1>0, <2>1, <2>2, <2>3
<1>13. Filled(R, m[i], r)
  <2>0. m[i].begin = b /\ m[i].end = z
    BY <1>8
  <2> SUFFICES ASSUME NEW x \in SeqNums, Off(b) <= Off(x), Off(r) <= Off(x),
                      Off(x) < Off(z)
               PROVE  x \in R
    BY Zenon, <2>0 DEF Filled
  <2>1. Off(x) \in Nat
    BY Zenon, OffType
  <2>2. CASE Off(s[i].begin) <= Off(x) /\ Off(x) < Off(s[i].end)
    BY Zenon, <2>2 DEF AllFilled, Filled
  <2>3. CASE Off(g.begin) <= Off(x) /\ Off(x) < Off(g.end)
    BY Zenon, <2>3 DEF Filled
  <2>4. CASE Off(e) <= Off(x)
    <3>1. /\ j - 1 \in i + 1 .. MaxSegs /\ z = s[j - 1].end
          /\ Used(s[j - 1]) /\ Off(s[j - 1].begin) <= Off(e)
      BY SMTT(20), <1>3, <1>6, <2>1, <2>4
    <3>2. j - 1 \in 1 .. MaxSegs /\ s[j - 1].begin \in SeqNums
      BY <1>0, <3>1 DEF Lists, Seg
    <3> DEFINE a == s[j - 1]
    <3>3. a.begin \in SeqNums /\ Off(a.begin) <= Off(e) /\ z = a.end /\ Filled(R, a, r)
      BY Zenon, <3>1, <3>2 DEF AllFilled
    <3> HIDE DEF a
    <3>4. Off(a.begin) <= Off(x)
      BY SMTT(20), <1>3, <2>1, <2>4, <3>3, OffType
    <3> QED BY Zenon, <3>3, <3>4 DEF Filled
  <2>5. \/ Off(s[i].begin) <= Off(x) /\ Off(x) < Off(s[i].end)
        \/ Off(g.begin) <= Off(x) /\ Off(x) < Off(g.end)
        \/ Off(e) <= Off(x)
    <3> DEFINE p == Off(g.begin)
    <3> DEFINE q == Off(s[i].begin)
    <3> DEFINE v == Off(g.end)
    <3> DEFINE y == Off(s[i].end)
    <3>1. /\ p \in Nat /\ q \in Nat /\ v \in Nat /\ y \in Nat /\ p <= y /\ q <= v
          /\ Off(b) = (IF p < q THEN p ELSE q) /\ Off(e) = (IF y < v THEN v ELSE y)
      BY Zenon, <1>1, <1>2 DEF Touches
    <3> HIDE DEF p, q, v, y
    <3>2. \/ q <= Off(x) /\ Off(x) < y
          \/ p <= Off(x) /\ Off(x) < v
          \/ Off(e) <= Off(x)
      BY <2>1, <3>1
    <3> QED BY Zenon, <3>2 DEF p, q, v, y
  <2> QED BY Zenon, <2>2, <2>3, <2>4, <2>5
<1>14. ASSUME NEW h \in 1 .. MaxSegs, Used(m[h])
       PROVE  Filled(R, m[h], r)
  <2>1. CASE h \in 1 .. i - 1
    BY Zenon, <1>8, <1>14, <2>1 DEF AllFilled
  <2>2. CASE h = i
    BY Zenon, <1>13, <2>2
  <2>3. CASE h \in i + 1 .. MaxSegs
    <3> DEFINE n == h + j - (i + 1)
    <3>1. n \in j .. MaxSegs /\ m[h] = s[n] /\ Used(s[n])
      BY Zenon, <1>8, <1>14, <2>3
    <3>2. n \in 1 .. MaxSegs
      BY SMTT(20), <1>0, <1>5, <3>1
    <3> HIDE DEF n
    <3> QED BY Zenon, <3>1, <3>2 DEF AllFilled
  <2> QED BY <1>0, <2>1, <2>2, <2>3
<1>15. Chain(m, r) /\ AllFilled(R, m, r)
  BY Zenon, <1>12, <1>14 DEF Chain, AllFilled
<1>16. Expand(s, i, g) = m
  BY Zenon DEF Expand, b, e, t, j, last, z, w, m
<1> QED BY Zenon, <1>15, <1>16

(* So does the insertion of a segment that begins no earlier than recv_seq. *)
LEMMA InsertChain ==
  ASSUME NEW u \in Nat, u <= Horizon, NEW s \in Lists(u), NEW g \in Seg(u), Used(g),
         NEW r \in SeqNums, Chain(s, r), Off(r) <= Off(g.begin),
         NEW R, AllFilled(R, s, r), Filled(R, g, r)
  PROVE  Chain(Insert(s, g), r) /\ AllFilled(R, Insert(s, g), r)
<1> DEFINE ids == {h \in 1 .. MaxSegs : Used(s[h]) /\ Before(s[h].end, g.begin)}
<1> DEFINE i == FirstNot(1, ids)
<1> DEFINE put == [s EXCEPT ![i] = g]
<1> DEFINE m == [h \in 1 .. MaxSegs |->
                   IF h < i THEN s[h] ELSE IF h = i THEN g ELSE s[h - 1]]
<1>0. MaxSegs \in Nat /\ MaxSegs > 0 /\ Off(r) \in Nat
  BY Zenon, Constants, OffType
<1>1. i \in 1 .. MaxSegs + 1 /\ i \notin ids /\ 1 .. i - 1 \subseteq ids
  <2>1. 1 \in 1 .. MaxSegs + 1 /\ MaxSegs + 1 \notin ids
    BY <1>0
  <2> HIDE DEF ids
  <2> QED BY Zenon, <2>1, FirstNotFound
<1> HIDE DEF i
<1>2. /\ g.begin \in SeqNums /\ g.end \in SeqNums
      /\ Off(g.begin) \in Nat /\ Off(g.end) \in Nat /\ Off(g.begin) < Off(g.end)
      /\ Off(g.begin) <= Horizon /\ Off(g.end) <= Horizon
  BY Zenon, UsedSeg
<1>3. ASSUME NEW h \in 1 .. MaxSegs, Used(s[h])
      PROVE  /\ s[h].begin \in SeqNums /\ s[h].end \in SeqNums
             /\ Off(s[h].begin) \in Nat /\ Off(s[h].end) \in Nat
             /\ Off(s[h].begin) < Off(s[h].end)
             /\ Off(s[h].begin) <= Horizon /\ Off(s[h].end) <= Horizon
             /\ Before(s[h].end, g.begin) <=> Off(s[h].end) < Off(g.begin)
             /\ Before(g.end, s[h].begin) <=> Off(g.end) < Off(s[h].begin)
  <2> DEFINE a == s[h]
  <2>1. a \in Seg(u) /\ Used(a)
    BY Zenon, <1>3 DEF Lists
  <2> HIDE DEF a
  <2>2. /\ a.begin \in SeqNums /\ a.end \in SeqNums
        /\ Off(a.begin) \in Nat /\ Off(a.end) \in Nat
        /\ Off(a.begin) < Off(a.end)
        /\ Off(a.begin) <= Horizon /\ Off(a.end) <= Horizon
    BY Zenon, <2>1, UsedSeg
  <2>3. /\ Before(a.end, g.begin) <=> Off(a.end) < Off(g.begin)
        /\ Before(g.end, a.begin) <=> Off(g.end) < Off(a.begin)
    BY Zenon, <1>2, <2>2, BeforeOff
  <2> QED BY Zenon, <2>2, <2>3 DEF a
<1>4. ASSUME NEW h \in 1 .. i - 1
      PROVE  h \in 1 .. MaxSegs /\ Used(s[h]) /\ Off(s[h].end) < Off(g.begin)
  <2>1. h \in ids
    BY Zenon, <1>1
  <2> QED BY Zenon, <1>3, <2>1
<1> HIDE DEF ids, put, m
<1>5. CASE i > MaxSegs
  BY Zenon, <1>5 DEF Insert, i, ids
<1>6. CASE i \in 1 .. MaxSegs /\ ~ Used(s[i])
  <2>1. /\ put[i] = g /\ \A h \in 1 .. MaxSegs : h # i => put[h] = s[h]
    BY Zenon, <1>6 DEF Lists, put
  <2>2. ASSUME NEW l \in 1 .. MaxSegs, NEW h \in 1 .. l - 1, Used(put[l])
        PROVE  Used(put[h]) /\ Follows(put[h], put[l], r)
    <3>1. CASE l < i
      <4>1. h \in 1 .. MaxSegs /\ h # i /\ l # i
        BY <1>0, <1>6, <3>1
      <4> QED BY Zenon, <2>1, <2>2, <4>1 DEF Chain
    <3>2. CASE l = i
      <4>1. h \in 1 .. i - 1 /\ h # i
        BY <1>0, <1>6, <3>2
      <4> QED BY Zenon, <1>4, <2>1, <3>2, <4>1 DEF Follows
    <3>3. CASE i < l
      <4>1. i \in 1 .. l - 1 /\ l # i
        BY <1>0, <1>6, <3>3
      <4> QED BY Zenon, <1>6, <2>1, <2>2, <4>1 DEF Chain
    <3> QED BY SMTT(20), <1>0, <1>6, <3>1, <3>2, <3>3
  <2>3. Chain(put, r) /\ AllFilled(R, put, r)
    BY Zenon, <2>1, <2>2 DEF Chain, AllFilled
  <2>4. Insert(s, g) = put
    <3>0. i \in 1 .. MaxSegs
      BY Zenon, <1>6
    <3>1. ~ (i > MaxSegs)
      BY <1>0, <3>0
    <3> QED BY Zenon, <1>6, <3>1 DEF Insert, put, i, ids
  <2> QED BY Zenon, <2>3, <2>4
<1>7. CASE i \in 1 .. MaxSegs /\ Used(s[i]) /\ Before(g.end, s[i].begin)
  <2>1. Off(g.end) < Off(s[i].begin) /\ Off(s[i].begin) \in Nat /\ Off(s[i].end) \in Nat
    BY Zenon, <1>3, <1>7
  <2>2. /\ m[i] = g /\ \A h \in 1 .. i - 1 : m[h] = s[h]
        /\ \A h \in i + 1 .. MaxSegs : m[h] = s[h - 1] /\ h - 1 \in i .. MaxSegs
    BY SMTT(20), <1>0, <1>7 DEF m
  <2>3. ASSUME NEW l \in i .. MaxSegs, Used(s[l])
        PROVE  Off(g.end) < Off(s[l].begin)
    <3>1. CASE l = i
      BY Zenon, <2>1, <3>1
    <3>2. CASE l # i
      <4>1. i \in 1 .. l - 1 /\ l \in 1 .. MaxSegs
        BY SMTT(20), <1>0, <1>7, <3>2
      <4>2. Follows(s[i], s[l], r) /\ Off(s[l].begin) \in Nat
        BY Zenon, <1>3, <2>3, <4>1 DEF Chain
      <4>3. ~ (Off(s[i].begin) <= Off(r)) /\ Off(s[i].begin) < Off(s[i].end)
        BY SMTT(20), <1>0, <1>2, <1>3, <1>7, <2>1
      <4>4. CASE Off(s[i].end) < Off(s[l].begin)
        <5> DEFINE v == Off(g.end)
        <5> DEFINE x == Off(s[i].begin)
        <5> DEFINE y == Off(s[i].end)
        <5> DEFINE w == Off(s[l].begin)
        <5>1. /\ v \in Nat /\ x \in Nat /\ y \in Nat /\ w \in Nat
              /\ v < x /\ x < y /\ y < w
          BY Zenon, <1>2, <2>1, <4>2, <4>3, <4>4
        <5> HIDE DEF v, x, y, w
        <5>2. v < w
          BY <5>1
        <5> QED BY Zenon, <5>2 DEF v, w
      <4>5. CASE s[i].begin = s[l].begin
        BY Zenon, <2>1, <4>5
      <4> QED BY Zenon, <4>2, <4>3, <4>4, <4>5 DEF Follows
    <3> QED BY Zenon, <3>1, <3>2
  <2>4. ASSUME NEW l \in 1 .. MaxSegs, NEW h \in 1 .. l - 1, Used(m[l])
        PROVE  Used(m[h]) /\ Follows(m[h], m[l], r)
    <3>1. CASE l < i
      <4>1. h \in 1 .. i - 1 /\ l \in 1 .. i - 1
        BY SMTT(20), <1>0, <1>7, <3>1
      <4> QED BY Zenon, <2>2, <2>4, <4>1 DEF Chain
    <3>2. CASE l = i
      <4>1. h \in 1 .. i - 1
        BY Zenon, <3>2
      <4> QED BY Zenon, <1>4, <2>2, <3>2, <4>1 DEF Follows
    <3>3. CASE i < l
      <4> DEFINE k == l - 1
      <4>1. l \in i + 1 .. MaxSegs /\ k \in 1 .. MaxSegs /\ k \in i .. MaxSegs
        BY <1>0, <1>7, <3>3
      <4>2. m[l] = s[k] /\ Used(s[k])
        BY Zenon, <2>2, <2>4, <4>1
      <4>3. CASE h < i
        <5>1. h \in 1 .. i - 1 /\ h \in 1 .. k - 1
          BY <1>0, <1>7, <3>3, <4>3
        <5> HIDE DEF k
        <5>2. Used(s[h]) /\ Follows(s[h], s[k], r)
          BY Zenon, <4>1, <4>2, <5>1 DEF Chain
        <5> QED BY Zenon, <2>2, <4>2, <5>1, <5>2
      <4>4. CASE h = i
        <5> HIDE DEF k
        <5>1. Off(g.end) < Off(s[k].begin)
          BY Zenon, <2>3, <4>1, <4>2
        <5> QED BY Zenon, <2>2, <4>2, <4>4, <5>1 DEF Follows
      <4>5. CASE i < h
        <5> DEFINE n == h - 1
        <5>1. n \in 1 .. k - 1 /\ h \in i + 1 .. MaxSegs
          BY <1>0, <1>7, <3>3, <4>5
        <5>2. m[h] = s[n]
          BY Zenon, <2>2, <5>1
        <5> HIDE DEF k, n
        <5>3. Used(s[n]) /\ Follows(s[n], s[k], r)
          BY Zenon, <4>1, <4>2, <5>1 DEF Chain
        <5> QED BY Zenon, <4>2, <5>2, <5>3
      <4> QED BY SMTT(20), <1>0, <1>7, <4>3, <4>4, <4>5
    <3> QED BY SMTT(20), <1>0, <1>7, <3>1, <3>2, <3>3
  <2>5. ASSUME NEW h \in 1 .. MaxSegs, Used(m[h])
        PROVE  Filled(R, m[h], r)
    <3>1. CASE h < i
      BY <1>7, <2>2, <2>5, <3>1 DEF AllFilled
    <3>2. CASE h = i
      BY Zenon, <2>2, <3>2
    <3>3. CASE i < h
      <4> DEFINE n == h - 1
      <4>1. n \in 1 .. MaxSegs /\ h \in i + 1 .. MaxSegs
        BY <1>0, <1>7, <3>3
      <4>2. m[h] = s[n]
        BY Zenon, <2>2, <4>1
      <4> HIDE DEF n
      <4> QED BY Zenon, <2>5, <4>1, <4>2 DEF AllFilled
    <3> QED BY SMTT(20), <1>0, <1>7, <3>1, <3>2, <3>3
  <2>6. Chain(m, r) /\ AllFilled(R, m, r)
    BY Zenon, <2>4, <2>5 DEF Chain, AllFilled
  <2>7. Insert(s, g) = m
    <3>0. i \in 1 .. MaxSegs
      BY Zenon, <1>7
    <3>1. ~ (i > MaxSegs)
      BY <1>0, <3>0
    <3> QED BY Zenon, <1>7, <3>1 DEF Insert, m, i, ids
  <2> QED BY Zenon, <2>6, <2>7
<1>8. CASE i \in 1 .. MaxSegs /\ Used(s[i]) /\ ~ Before(g.end, s[i].begin)
  <2>1. ~ Before(s[i].end, g.begin)
    BY Zenon, <1>1, <1>8 DEF ids
  <2>2. Off(g.begin) <= Off(s[i].end) /\ Off(s[i].begin) <= Off(g.end)
    <3>1. /\ ~ (Off(s[i].end) < Off(g.begin)) /\ ~ (Off(g.end) < Off(s[i].begin))
          /\ Off(s[i].begin) \in Nat /\ Off(s[i].end) \in Nat
      BY Zenon, <1>3, <1>8, <2>1
    <3> QED BY SMTT(20), <1>2, <3>1
  <2>3. Chain(Expand(s, i, g), r) /\ AllFilled(R, Expand(s, i, g), r)
    <3>1. Touches(s, i, g)
      BY Zenon, <1>4, <2>2 DEF Touches
    <3> QED BY Zenon, <1>8, <3>1, ExpandChain
  <2>4. Insert(s, g) = Expand(s, i, g)
    <3>0. i \in 1 .. MaxSegs
      BY Zenon, <1>8
    <3>1. ~ (i > MaxSegs)
      BY <1>0, <3>0
    <3> QED BY Zenon, <1>8, <3>1 DEF Insert, i, ids
  <2> QED BY Zenon, <2>3, <2>4
<1>9. i > MaxSegs \/ i \in 1 .. MaxSegs
  BY <1>0, <1>1
<1> QED BY Zenon, <1>5, <1>6, <1>7, <1>8, <1>9

(* The loop of exa_tcp_rx_buffer_abort, iteration by iteration.            *)
LEMMA MovedFromStep ==
  ASSUME NEW u \in Nat, NEW s \in Lists(u)
  PROVE  /\ MovedFrom(s) \in [0 .. MaxSegs -> Nat] /\ MovedFrom(s)[0] = 0
         /\ \A j \in 1 .. MaxSegs :
              MovedFrom(s)[j] = MovedNext(s, MovedFrom(s)[j - 1] + 1)
<1> DEFINE Loop(n, f) == /\ f \in [0 .. n -> Nat] /\ f[0] = 0
                         /\ \A j \in 1 .. n : f[j] = MovedNext(s, f[j - 1] + 1)
<1> DEFINE Bad == {n \in 0 .. MaxSegs : ~ \E f : Loop(n, f)}
<1>0. MaxSegs \in Nat
  BY Zenon, Constants
<1>1. \A i \in Nat : MovedNext(s, i) \in Nat
  BY <1>0 DEF MovedNext
<1>2. Bad = {}
  <2> SUFFICES ASSUME Bad # {} PROVE FALSE
    BY Zenon
  <2>1. Bad \in SUBSET Nat
    BY <1>0
  <2>2. PICK n \in Bad : \A m \in Bad : ~ (m < n)
    <3> HIDE DEF Bad
    <3> QED BY Zenon, <2>1, Least
  <2>3. CASE n = 0
    <3> DEFINE f == [j \in 0 .. 0 |-> 0]
    <3>1. Loop(0, f)
      OBVIOUS
    <3> QED BY Zenon, <2>3, <3>1
  <2>4. CASE n # 0
    <3>1. n \in 1 .. MaxSegs /\ n - 1 \in 0 .. MaxSegs /\ n - 1 < n
      BY <1>0, <2>4
    <3>2. PICK f : Loop(n - 1, f)
      BY Zenon, <2>2, <3>1
    <3> DEFINE v == MovedNext(s, f[n - 1] + 1)
    <3> DEFINE e == [j \in 0 .. n |-> IF j = n THEN v ELSE f[j]]
    <3>3. v \in Nat
      <4>1. n - 1 \in 0 .. n - 1
        BY <3>1
      <4>2. f[n - 1] \in Nat
        BY Zenon, <3>2, <4>1
      <4>3. f[n - 1] + 1 \in Nat
        BY <4>2
      <4> QED BY Zenon, <1>1, <4>3
    <3>4. e \in [0 .. n -> Nat] /\ e[0] = 0
      BY <3>1, <3>2, <3>3
    <3>5. ASSUME NEW j \in 1 .. n
          PROVE  e[j] = MovedNext(s, e[j - 1] + 1)
      <4>1. j - 1 \in 0 .. n /\ j - 1 # n /\ j \in 0 .. n
        BY <3>1
      <4>2. e[j - 1] = f[j - 1]
        BY Zenon, <4>1
      <4>3. CASE j = n
        <5>1. e[j] = v
          BY Zenon, <4>1, <4>3
        <5> HIDE DEF e
        <5> QED BY Zenon, <4>2, <4>3, <5>1
      <4>4. CASE j # n
        <5>1. j \in 1 .. n - 1 /\ e[j] = f[j]
          BY <3>1, <4>1, <4>4
        <5> HIDE DEF e
        <5> QED BY Zenon, <3>2, <4>2, <5>1
      <4> QED BY Zenon, <4>3, <4>4
    <3> HIDE DEF e
    <3>6. Loop(n, e)
      BY Zenon, <3>4, <3>5
    <3> QED BY Zenon, <3>6
  <2> QED BY Zenon, <2>3, <2>4
<1>3. PICK f : Loop(MaxSegs, f)
  <2>1. MaxSegs \in 0 .. MaxSegs
    BY <1>0
  <2> HIDE DEF Loop
  <2> QED BY Zenon, <1>2, <2>1
<1> DEFINE Eqn(e) == e = [j \in 0 .. MaxSegs |->
                            IF j = 0 THEN 0 ELSE MovedNext(s, e[j - 1] + 1)]
<1>4. Eqn(f)
  <2>1. ASSUME NEW j \in 0 .. MaxSegs
        PROVE  f[j] = IF j = 0 THEN 0 ELSE MovedNext(s, f[j - 1] + 1)
    <3>1. j # 0 => j \in 1 .. MaxSegs
      BY <1>0
    <3> QED BY Zenon, <1>3, <3>1
  <2>2. f = [j \in 0 .. MaxSegs |-> f[j]]
    BY Zenon, <1>3
  <2> QED BY Zenon, <2>1, <2>2
<1>5. MovedFrom(s) = CHOOSE e : Eqn(e)
  BY Zenon DEF MovedFrom
<1> DEFINE F == MovedFrom(s)
<1>6. Eqn(F)
  <2> HIDE DEF Eqn
  <2> QED BY Zenon, <1>4, <1>5
<1> HIDE DEF F
<1>7. F[0] = 0 /\ \A j \in 1 .. MaxSegs : F[j] = MovedNext(s, F[j - 1] + 1)
  <2>1. 0 \in 0 .. MaxSegs /\ \A j \in 1 .. MaxSegs : j \in 0 .. MaxSegs /\ j # 0
    BY <1>0
  <2> QED BY Zenon, <1>6, <2>1
<1> DEFINE Worse == {n \in 0 .. MaxSegs : F[n] \notin Nat}
<1>8. Worse = {}
  <2> SUFFICES ASSUME Worse # {} PROVE FALSE
    BY Zenon
  <2>1. Worse \in SUBSET Nat
    BY <1>0
  <2>2. PICK n \in Worse : \A m \in Worse : ~ (m < n)
    <3> HIDE DEF Worse
    <3> QED BY Zenon, <2>1, Least
  <2>3. n # 0
    BY <1>7, <2>2
  <2>4. n \in 1 .. MaxSegs /\ n - 1 \in 0 .. MaxSegs /\ n - 1 < n
    BY <1>0, <2>2, <2>3
  <2>5. F[n - 1] \in Nat
    BY Zenon, <2>2, <2>4
  <2>6. F[n] \in Nat
    <3>1. F[n - 1] + 1 \in Nat
      BY <2>5
    <3> QED BY Zenon, <1>1, <1>7, <2>4, <3>1
  <2> QED BY Zenon, <2>2, <2>6
<1>9. F \in [0 .. MaxSegs -> Nat]
  BY Zenon, <1>6, <1>8
<1> QED BY Zenon, <1>7, <1>9 DEF F

(* With no more than one entry that overlaps the segment, the loop leaves  *)
(* the entries up to that one where they are, and moves each one behind    *)
(* it, of which the last used one stays where it was as well.              *)
LEMMA MovedFromIs ==
  ASSUME NEW u \in Nat, NEW s \in Lists(u),
         \A l \in 1 .. MaxSegs : \A h \in 1 .. l - 1 : Used(s[l]) => Used(s[h]),
         \A l \in 1 .. MaxSegs : \A h \in 1 .. l - 1 : ~ (Overlaps(s[l]) /\ Overlaps(s[h])),
         NEW j \in 0 .. MaxSegs
  PROVE  \/ MovedFrom(s)[j] = j /\ \A h \in 1 .. j : ~ Overlaps(s[h])
         \/ MovedFrom(s)[j] = j + 1 /\ \E h \in 1 .. j : Overlaps(s[h])
         \/ MovedFrom(s)[j] = MaxSegs + 2 /\ \A h \in j .. MaxSegs : h > 0 => ~ Overlaps(s[h])
<1> DEFINE F == MovedFrom(s)
<1> DEFINE Kept1(n) == F[n] = n /\ \A h \in 1 .. n : ~ Overlaps(s[h])
<1> DEFINE Moved(n) == F[n] = n + 1 /\ \E h \in 1 .. n : Overlaps(s[h])
<1> DEFINE Past(n) ==
      F[n] = MaxSegs + 2 /\ \A h \in n .. MaxSegs : h > 0 => ~ Overlaps(s[h])
<1> DEFINE Bad == {n \in 0 .. MaxSegs : ~ (Kept1(n) \/ Moved(n) \/ Past(n))}
<1>0. MaxSegs \in Nat
  BY Zenon, Constants
<1>1. /\ F[0] = 0
      /\ \A n \in 1 .. MaxSegs : F[n] = MovedNext(s, F[n - 1] + 1)
  BY Zenon, MovedFromStep
<1> HIDE DEF F
<1>2. ASSUME NEW n \in 1 .. MaxSegs, ~ Used(s[n])
      PROVE  \A h \in n .. MaxSegs : ~ Overlaps(s[h])
  <2> SUFFICES ASSUME NEW h \in n .. MaxSegs PROVE ~ Used(s[h])
    BY Zenon DEF Overlaps
  <2>1. h = n \/ n \in 1 .. h - 1
    BY <1>0
  <2> QED BY <1>0, <1>2, <2>1
<1>3. Bad = {}
  <2> SUFFICES ASSUME Bad # {} PROVE FALSE
    BY Zenon
  <2>1. Bad \in SUBSET Nat
    BY <1>0
  <2>2. PICK n \in Bad : \A m \in Bad : ~ (m < n)
    <3> HIDE DEF Bad
    <3> QED BY Zenon, <2>1, Least
  <2>3. n # 0
    BY <1>1, <2>2
  <2>4. n \in 1 .. MaxSegs /\ n - 1 \in 0 .. MaxSegs /\ n - 1 < n /\ n \in Nat
    BY <1>0, <2>2, <2>3
  <2>5. Kept1(n - 1) \/ Moved(n - 1) \/ Past(n - 1)
    <3> HIDE DEF Kept1, Moved, Past
    <3> QED BY Zenon, <2>2, <2>4
  <2>6. F[n] = MovedNext(s, F[n - 1] + 1)
    BY Zenon, <1>1, <2>4
  <2>7. CASE Kept1(n - 1)
    <3>1. F[n - 1] + 1 = n /\ ~ (n > MaxSegs)
      BY <1>0, <2>4, <2>7
    <3>2. F[n] = IF ~ Used(s[n]) THEN MaxSegs + 2 ELSE IF Overlaps(s[n]) THEN n + 1 ELSE n
      BY Zenon, <2>6, <3>1 DEF MovedNext
    <3>3. \A h \in 1 .. n : h = n \/ h \in 1 .. n - 1
      BY <2>4
    <3>4. CASE ~ Used(s[n])
      <4>1. Past(n)
        BY Zenon, <1>2, <2>4, <3>2, <3>4
      <4> HIDE DEF Past
      <4> QED BY Zenon, <2>2, <4>1
    <3>5. CASE Used(s[n]) /\ Overlaps(s[n])
      <4>1. n \in 1 .. n
        BY <2>4
      <4>2. Moved(n)
        BY Zenon, <3>2, <3>5, <4>1
      <4> HIDE DEF Moved
      <4> QED BY Zenon, <2>2, <4>2
    <3>6. CASE Used(s[n]) /\ ~ Overlaps(s[n])
      <4>1. Kept1(n)
        BY Zenon, <2>7, <3>2, <3>3, <3>6
      <4> HIDE DEF Kept1
      <4> QED BY Zenon, <2>2, <4>1
    <3> QED BY Zenon, <3>4, <3>5, <3>6
  <2>8. CASE Moved(n - 1)
    <3>1. F[n - 1] + 1 = n + 1
      BY <2>4, <2>8
    <3>2. PICK o \in 1 .. n - 1 : Overlaps(s[o])
      BY Zenon, <2>8
    <3>3. \A h \in n .. MaxSegs : o \in 1 .. h - 1 /\ h \in 1 .. MaxSegs
      BY <1>0, <2>4, <3>2
    <3>4. \A h \in n .. MaxSegs : ~ Overlaps(s[h])
      BY Zenon, <3>2, <3>3
    <3>5. F[n] = MaxSegs + 2 \/ (n + 1 \in n .. MaxSegs /\ F[n] = n + 1)
      <4>1. CASE n + 1 > MaxSegs \/ ~ Used(s[n + 1])
        BY Zenon, <2>6, <3>1, <4>1 DEF MovedNext
      <4>2. CASE ~ (n + 1 > MaxSegs \/ ~ Used(s[n + 1]))
        <5>1. n + 1 \in n .. MaxSegs
          BY <1>0, <2>4, <4>2
        <5>2. ~ Overlaps(s[n + 1])
          BY Zenon, <3>4, <5>1
        <5> QED BY Zenon, <2>6, <3>1, <4>2, <5>1, <5>2 DEF MovedNext
      <4> QED BY Zenon, <4>1, <4>2
    <3>6. CASE F[n] = MaxSegs + 2
      <4>1. Past(n)
        BY Zenon, <3>4, <3>6
      <4> HIDE DEF Past
      <4> QED BY Zenon, <2>2, <4>1
    <3>7. CASE F[n] = n + 1
      <4>1. o \in 1 .. n
        BY <2>4, <3>2
      <4>2. Moved(n)
        BY Zenon, <3>2, <3>7, <4>1
      <4> HIDE DEF Moved
      <4> QED BY Zenon, <2>2, <4>2
    <3> QED BY Zenon, <3>5, <3>6, <3>7
  <2>9. CASE Past(n - 1)
    <3>1. F[n - 1] + 1 > MaxSegs
      BY <1>0, <2>9
    <3>2. F[n] = MaxSegs + 2
      BY Zenon, <2>6, <3>1 DEF MovedNext
    <3>3. \A h \in n .. MaxSegs : h \in n - 1 .. MaxSegs /\ h > 0
      BY <1>0, <2>4
    <3>4. Past(n)
      BY Zenon, <2>9, <3>2, <3>3
    <3> HIDE DEF Past
    <3> QED BY Zenon, <2>2, <3>4
  <2> QED BY Zenon, <2>5, <2>7, <2>8, <2>9
<1>4. Kept1(j) \/ Moved(j) \/ Past(j)
  <2> HIDE DEF Kept1, Moved, Past
  <2> QED BY Zenon, <1>3
<1> QED BY Zenon, <1>4 DEF F

(* Then the list stays in order, and no entry of it overlaps the segment.  *)
LEMMA PurgeChain ==
  ASSUME NEW u \in Nat, NEW s \in Lists(u), NEW r, Chain(s, r),
         \A l \in 1 .. MaxSegs : \A h \in 1 .. l - 1 : ~ (Overlaps(s[l]) /\ Overlaps(s[h]))
  PROVE  /\ Chain(Purge(s), r)
         /\ \A j \in 1 .. MaxSegs : Used(Purge(s)[j]) =>
              \E h \in 1 .. MaxSegs : Purge(s)[j] = s[h] /\ ~ Overlaps(s[h])
<1> DEFINE F == MovedFrom(s)
<1> DEFINE t == Purge(s)
<1> DEFINE g == [j \in 1 .. MaxSegs |-> IF F[j] = MaxSegs + 2 THEN j ELSE F[j]]
<1>0. MaxSegs \in Nat
  BY Zenon, Constants
<1>1. \A l \in 1 .. MaxSegs : \A h \in 1 .. l - 1 : Used(s[l]) => Used(s[h])
  BY Zenon DEF Chain
<1>2. ASSUME NEW j \in 1 .. MaxSegs
      PROVE  \/ F[j] = j /\ ~ Overlaps(s[j])
             \/ F[j] = j + 1 /\ (j + 1 <= MaxSegs => ~ Overlaps(s[j + 1]))
             \/ F[j] = MaxSegs + 2 /\ ~ Overlaps(s[j])
  <2>1. j \in 0 .. MaxSegs /\ j \in 1 .. j /\ j \in j .. MaxSegs /\ j > 0
    BY <1>0
  <2>2. \/ F[j] = j /\ \A h \in 1 .. j : ~ Overlaps(s[h])
        \/ F[j] = j + 1 /\ \E h \in 1 .. j : Overlaps(s[h])
        \/ F[j] = MaxSegs + 2 /\ \A h \in j .. MaxSegs : h > 0 => ~ Overlaps(s[h])
    BY Zenon, <1>1, <2>1, MovedFromIs
  <2>3. ASSUME NEW h \in 1 .. j, Overlaps(s[h]), j + 1 <= MaxSegs
        PROVE  ~ Overlaps(s[j + 1])
    <3>1. j + 1 \in 1 .. MaxSegs /\ h \in 1 .. j + 1 - 1
      BY <1>0, <2>3
    <3> QED BY <2>3, <3>1
  <2> HIDE DEF F
  <2> QED BY Zenon, <2>1, <2>2, <2>3
<1>3. ASSUME NEW j \in 1 .. MaxSegs
      PROVE  t[j] = CASE F[j] \in 1 .. MaxSegs -> s[F[j]]
                      [] F[j] = MaxSegs + 1 -> Empty
                      [] OTHER -> s[j]
  BY Zenon DEF Purge
<1> HIDE DEF F, t
<1>4. ASSUME NEW j \in 1 .. MaxSegs
      PROVE  /\ g[j] \in {j, j + 1}
             /\ g[j] <= MaxSegs => t[j] = s[g[j]] /\ ~ Overlaps(s[g[j]])
             /\ g[j] > MaxSegs => ~ Used(t[j])
  <2>0. ~ Used(Empty) /\ j \in Nat
    BY DEF Used, Empty
  <2>1. CASE F[j] = j /\ ~ Overlaps(s[j])
    <3>0. F[j] \in 1 .. MaxSegs /\ F[j] # MaxSegs + 1
      BY <1>0, <2>1
    <3>1. t[j] = s[j]
      BY Zenon, <1>3, <2>1, <3>0
    <3>2. g[j] = j /\ ~ (j > MaxSegs)
      BY <1>0, <2>1
    <3> QED BY Zenon, <2>1, <3>1, <3>2
  <2>2. CASE F[j] = j + 1 /\ j + 1 <= MaxSegs /\ ~ Overlaps(s[j + 1])
    <3>1. j + 1 \in 1 .. MaxSegs
      BY <1>0, <2>2
    <3>0. F[j] \in 1 .. MaxSegs /\ F[j] # MaxSegs + 1
      BY <1>0, <2>2
    <3>2. t[j] = s[j + 1]
      BY Zenon, <1>3, <2>2, <3>0
    <3>3. g[j] = j + 1 /\ ~ (j + 1 > MaxSegs)
      BY <1>0, <2>2
    <3> QED BY Zenon, <2>2, <3>2, <3>3
  <2>3. CASE F[j] = j + 1 /\ ~ (j + 1 <= MaxSegs)
    <3>1. F[j] = MaxSegs + 1 /\ F[j] \notin 1 .. MaxSegs
      BY <1>0, <2>3
    <3>2. t[j] = Empty
      BY Zenon, <1>3, <3>1
    <3>3. g[j] = j + 1
      BY <1>0, <2>3
    <3> QED BY Zenon, <2>0, <2>3, <3>2, <3>3
  <2>4. CASE F[j] = MaxSegs + 2 /\ ~ Overlaps(s[j])
    <3>1. F[j] \notin 1 .. MaxSegs /\ F[j] # MaxSegs + 1
      BY <1>0, <2>4
    <3>2. t[j] = s[j]
      BY Zenon, <1>3, <3>1
    <3>3. g[j] = j /\ ~ (j > MaxSegs)
      BY <1>0, <2>4
    <3> QED BY Zenon, <2>4, <3>2, <3>3
  <2> QED BY Zenon, <1>2, <2>1, <2>2, <2>3, <2>4
<1>5. g \in [1 .. MaxSegs -> Nat \ {0}]
  <2>1. \A j \in 1 .. MaxSegs : g[j] \in Nat \ {0}
    BY <1>4
  <2> QED BY Zenon, <2>1
<1> HIDE DEF g
<1>6. \A l \in 1 .. MaxSegs : \A h \in 1 .. l - 1 : g[l] <= MaxSegs => g[h] <= g[l]
  <2> SUFFICES ASSUME NEW l \in 1 .. MaxSegs, NEW h \in 1 .. l - 1
               PROVE  g[h] <= g[l]
    BY Zenon
  <2>1. h \in 1 .. MaxSegs
    BY <1>0
  <2>2. g[h] \in {h, h + 1} /\ g[l] \in {l, l + 1}
    BY Zenon, <1>4, <2>1
  <2> QED BY <2>2
<1>7. Chain(t, r)
  <2>1. \A h \in 1 .. MaxSegs : g[h] <= MaxSegs => t[h] = s[g[h]]
    BY Zenon, <1>4
  <2>2. \A h \in 1 .. MaxSegs : g[h] > MaxSegs => ~ Used(t[h])
    BY Zenon, <1>4
  <2> QED BY Zenon, <1>5, <1>6, <2>1, <2>2, SubList
<1>8. ASSUME NEW j \in 1 .. MaxSegs, Used(t[j])
      PROVE  \E h \in 1 .. MaxSegs : t[j] = s[h] /\ ~ Overlaps(s[h])
  <2>1. g[j] \in {j, j + 1} /\ ~ (g[j] > MaxSegs)
    BY Zenon, <1>4, <1>8
  <2>2. g[j] \in 1 .. MaxSegs
    BY <1>0, <2>1
  <2> QED BY <1>0, <1>4, <2>2
<1> QED BY Zenon, <1>7, <1>8 DEF t
==============================================================================
