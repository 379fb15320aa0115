-------------------------- MODULE TcpRxBufferProofs --------------------------
(***************************************************************************)
(* Proofs about the receive buffer of TcpRxBuffer, for every size of the   *)
(* ring buffer, length of the list and stream of bytes: the three pointers *)
(* stay in order within the ring buffer, every lock is given back, and     *)
(* recv_seq never goes back; what may be read is what was sent, and the    *)
(* assertion of exa_tcp_rx_buffer_commit holds, unless a segment was given *)
(* up that overlaps two entries of the list.                               *)
(*                                                                         *)
(* Without the library's lock, proc_seq would be where Base is.  The bytes *)
(* depend on the order of the list (DataInv), for which TcpRxListProofs    *)
(* has the lemmas.                                                         *)
(***************************************************************************)
EXTENDS TcpRxListProofs

\* The library has moved proc_seq and not yet given it back.
Held == pc \in {"body", "commit", "abort"} /\ pkt.len > 0

\* Where proc_seq would be without the library's lock.
Base == IF Held THEN old ELSE proc

TypeInv ==
  /\ read \in SeqNums /\ recv \in SeqNums /\ proc \in SeqNums /\ old \in SeqNums /\ seen \in SeqNums
  /\ segs \in Lists(Total) /\ segs \in Lists(Off(read) + BufSize)
  /\ pkt \in [seq : SeqNums, len : SeqNums, valid : BOOLEAN]
  /\ kernel \in [from : SeqNums, to : SeqNums]
  /\ pc \in {"idle", "lock", "body", "commit", "abort", "assert"}

OrderInv ==
  /\ Off(read) <= Off(recv) /\ Off(recv) <= Total
  /\ Off(recv) <= Off(proc) /\ Off(proc) <= Off(read) + BufSize

\* The segment that is received: its end, and what was processed before it.
PktInv ==
  /\ pc = "commit" => pkt.valid
  /\ pc = "lock" =>
       /\ pkt.len > 0 /\ Off(old) < Off(pkt.seq) + pkt.len
       /\ Off(pkt.seq) + pkt.len <= Off(read) + BufSize
       /\ Off(pkt.seq) + pkt.len <= Total + MaxLen
       /\ pkt.valid => Off(pkt.seq) + pkt.len <= Total
  /\ Held =>
       /\ Off(old) <= Off(pkt.seq) /\ Off(pkt.seq) + pkt.len = Off(proc)
       /\ pkt.valid => Off(proc) <= Total

\* The kernel's lock comes before the library's.
KernelInv ==
  /\ kernel = NoLock => Base = recv
  /\ kernel # NoLock =>
       /\ kernel.from = recv /\ kernel.to = Base
       /\ Off(recv) < Off(Base) /\ Off(Base) <= Total
  /\ pc = "commit" /\ pkt.len > 0 =>
       /\ Off(seen) <= Off(recv)
       /\ kernel # NoLock => seen = recv

IInv == TypeInv /\ OrderInv /\ PktInv /\ KernelInv

\* The bytes from the offset of a up to r are in the buffer.
Received(R, a, r) ==
  \A x \in SeqNums : Off(a) <= Off(x) /\ Off(x) < Off(r) => x \in R

\* The segment that is processed.
Region == [begin |-> pkt.seq, end |-> End]

DataInv ==
  ~ spoiled =>
    /\ pc # "assert" /\ Chain(segs, recv) /\ Received(right, read, recv)
    /\ \A h \in 1 .. MaxSegs :
         Used(segs[h]) /\ ~ (pc = "abort" /\ Overlaps(segs[h])) =>
           Filled(right, segs[h], recv)
    /\ pc = "commit" => Filled(right, Region, recv)
-----------------------------------------------------------------------------
(* The invariant.                                                          *)

(* What the invariant says of the offsets.                                 *)
LEMMA Bounds ==
  ASSUME IInv
  PROVE  /\ Off(read) \in Nat /\ Off(recv) \in Nat /\ Off(proc) \in Nat
         /\ Off(old) \in Nat /\ Off(seen) \in Nat /\ Off(pkt.seq) \in Nat
         /\ pkt.seq \in SeqNums /\ pkt.len \in SeqNums /\ pkt.len \in Nat
         /\ Off(read) <= Horizon /\ Off(recv) <= Horizon /\ Off(proc) <= Horizon
         /\ Off(read) <= Total
         /\ Off(read) + BufSize \in Nat /\ Off(read) + BufSize <= Horizon
         /\ Total <= Horizon
BY OffType, Constants DEF IInv, TypeInv, OrderInv, SeqNums

(* The invariant holds when the connection is set up.                      *)
LEMMA InitInv == Init => IInv
<1> SUFFICES ASSUME Init PROVE IInv
  BY Zenon
<1>1. Off(First) = 0 /\ 0 \in SeqNums
  BY SubCases, Constants DEF Off, SeqNums
<1>2. \A u \in Nat : segs \in Lists(u)
  BY Zenon, EmptySeg DEF Init, Lists
<1>3. TypeInv
  BY <1>1, <1>2, Constants DEF Init, TypeInv, NoPkt, NoLock
<1>4. ~ Held /\ Base = recv
  BY Zenon DEF Init, Held, Base
<1> QED BY <1>1, <1>3, <1>4, Constants
    DEF Init, IInv, OrderInv, PktInv, KernelInv

(* A segment arrives: a refused one leaves nothing to process.             *)
LEMMA ArriveInv ==
  ASSUME IInv, NEW d \in 0 .. Total, NEW n \in 0 .. MaxLen, NEW valid \in BOOLEAN,
         Arrive(Add(First, d), n, valid)
  PROVE  IInv'
<1> DEFINE from == Add(First, d)
<1> DEFINE to == Add(from, n)
<1>1. from \in SeqNums /\ Off(from) = d
  <2>1. d \in SeqNums /\ Off(First) = 0
    BY SubCases, Constants DEF Off, SeqNums
  <2> QED BY <2>1, OffAdd, Constants DEF SeqNums
<1> HIDE DEF from
<1>2. to \in SeqNums /\ Off(to) = d + n
  <2>1. n \in SeqNums /\ Off(from) + n < SeqMod
    BY <1>1, Constants DEF SeqNums
  <2> QED BY Zenon, <1>1, <2>1, OffAdd
<1> HIDE DEF to
<1>3. Sub(to, to) = 0 /\ 0 \in SeqNums
  BY <1>2, SubCases, Constants DEF SeqNums
<1>4. Arrive(from, n, valid)
  BY Zenon DEF from
<1>5. UNCHANGED <<read, recv, proc, segs, right, seen, kernel, spoiled>> /\ pc = "idle"
  BY Zenon, <1>4 DEF Arrive
<1>6. Base = proc
  BY Zenon, <1>5 DEF Base, Held
<1>7. CASE pc' = "body" /\ Kept(to, to, valid) /\ old' = 0
  <2>1. pkt' = [seq |-> to, len |-> 0, valid |-> valid]
    BY Zenon, <1>3, <1>7 DEF Kept
  <2>2. ~ Held' /\ Base' = Base
    BY <1>5, <1>6, <2>1 DEF Base, Held
  <2>3. TypeInv'
    BY Zenon, <1>2, <1>3, <1>5, <1>7, <2>1 DEF IInv, TypeInv
  <2> QED BY Zenon, <1>5, <1>7, <2>1, <2>2, <2>3
      DEF IInv, OrderInv, PktInv, KernelInv
<1>8. CASE /\ n > 0 /\ Fits(to) /\ ~ NotAfter(to, proc) /\ (valid => Sub(to, First) <= Total)
           /\ pc' = "lock" /\ Kept(from, to, valid) /\ old' = proc
  <2>1. Sub(to, from) = n /\ n \in SeqNums
    BY <1>1, <1>2, SubOff, Constants DEF SeqNums
  <2>2. pkt' = [seq |-> from, len |-> n, valid |-> valid]
    BY Zenon, <1>8, <2>1 DEF Kept
  <2>3. d + n <= Off(read) + BufSize
    BY <1>2, <1>8, SubOff, Bounds, Constants DEF Fits, IInv, TypeInv
  <2>4. Off(proc) < d + n
    BY <1>2, <1>8, BeforeOff, Bounds, Constants DEF IInv, TypeInv
  <2>5. valid => d + n <= Total
    BY Zenon, <1>2, <1>8 DEF Off
  <2>6. ~ Held' /\ Base' = Base
    BY Zenon, <1>5, <1>6, <1>8 DEF Base, Held
  <2>7. TypeInv'
    BY Zenon, <1>1, <1>5, <1>8, <2>1, <2>2 DEF IInv, TypeInv
  <2>8. PktInv'
    BY <1>1, <1>5, <1>8, <2>2, <2>3, <2>4, <2>5, <2>6, Constants DEF PktInv
  <2> QED BY Zenon, <1>5, <1>8, <2>6, <2>7, <2>8 DEF IInv, OrderInv, KernelInv
<1> QED BY <1>4, <1>7, <1>8, Constants DEF Arrive, to

(* The compare and swap: what was processed before stays processed.        *)
LEMMA LockInv ==
  ASSUME IInv, Lock
  PROVE  IInv'
<1> DEFINE to == Add(pkt.seq, pkt.len)
<1> DEFINE from == IF Before(pkt.seq, old) THEN old ELSE pkt.seq
<1>1. /\ pc = "lock" /\ UNCHANGED <<read, recv, segs, right, seen, kernel, spoiled>>
      /\ pkt.valid \in BOOLEAN /\ old \in SeqNums
  BY Zenon DEF Lock, IInv, TypeInv
<1>2. Base = proc
  BY Zenon, <1>1 DEF Base, Held
<1>3. to \in SeqNums /\ Off(to) = Off(pkt.seq) + pkt.len /\ Off(to) \in Nat
  <2>1. Off(pkt.seq) + pkt.len < SeqMod
    BY <1>1, Bounds, Constants DEF IInv, PktInv
  <2> QED BY Zenon, <2>1, Bounds, OffAdd, OffType
<1>4. /\ Off(old) < Off(to) /\ pkt.len > 0 /\ Off(to) <= Off(read) + BufSize
      /\ Off(to) <= Total + MaxLen /\ (pkt.valid => Off(to) <= Total)
  BY Zenon, <1>1, <1>3 DEF IInv, PktInv
<1> HIDE DEF to
<1>5. Sub(to, to) = 0 /\ 0 \in SeqNums
  BY <1>3, SubCases, Constants DEF SeqNums
<1>6. CASE /\ proc = old /\ proc' = to /\ Kept(from, to, pkt.valid) /\ pc' = "body"
           /\ UNCHANGED old
  <2>1. from \in SeqNums /\ Off(old) <= Off(from) /\ Off(from) < Off(to) /\ Off(from) \in Nat
    BY <1>3, <1>4, <1>1, BeforeOff, Bounds, Constants
  <2> HIDE DEF from
  <2>2. Sub(to, from) = Off(to) - Off(from) /\ Sub(to, from) \in SeqNums
    BY <1>3, <2>1, SubOff, OffType, Constants DEF SeqNums
  <2> DEFINE n == Sub(to, from)
  <2>3. pkt' = [seq |-> from, len |-> n, valid |-> pkt.valid]
    BY Zenon, <1>6 DEF Kept
  <2>4. n \in SeqNums /\ n > 0 /\ Off(from) + n = Off(to)
    BY <1>3, <2>1, <2>2 DEF SeqNums
  <2> HIDE DEF n
  <2>5. Held' /\ Base' = Base
    BY Zenon, <1>2, <1>6, <2>3, <2>4 DEF Base, Held
  <2>6. TypeInv'
    BY Zenon, <1>1, <1>3, <1>6, <2>1, <2>3, <2>4 DEF IInv, TypeInv
  <2>7. OrderInv'
    BY <1>1, <1>3, <1>4, <1>6, Bounds DEF IInv, OrderInv
  <2>8. PktInv'
    BY Zenon, <1>4, <1>6, <2>1, <2>3, <2>4, <2>5 DEF PktInv
  <2>9. KernelInv'
    BY Zenon, <1>1, <1>6, <2>5 DEF IInv, KernelInv
  <2> QED BY Zenon, <2>6, <2>7, <2>8, <2>9 DEF IInv
<1>7. CASE proc # old /\ Before(proc, to) /\ old' = proc /\ UNCHANGED <<proc, pkt, pc>>
  <2>1. Off(proc) < Off(to)
    BY <1>3, <1>4, <1>7, BeforeOff, Bounds, Constants DEF IInv, TypeInv
  <2>2. ~ Held' /\ Base' = Base
    BY Zenon, <1>1, <1>2, <1>7 DEF Base, Held
  <2>3. TypeInv' /\ OrderInv'
    BY Zenon, <1>1, <1>7 DEF IInv, TypeInv, OrderInv
  <2>4. PktInv'
    BY Zenon, <1>1, <1>3, <1>4, <1>7, <2>1, <2>2 DEF PktInv
  <2> QED BY Zenon, <1>1, <1>7, <2>2, <2>3, <2>4 DEF IInv, KernelInv
<1>8. CASE Kept(to, to, pkt.valid) /\ old' = 0 /\ pc' = "body" /\ UNCHANGED proc
  <2>1. pkt' = [seq |-> to, len |-> 0, valid |-> pkt.valid]
    BY Zenon, <1>5, <1>8 DEF Kept
  <2>2. ~ Held' /\ Base' = Base
    BY <1>2, <1>8, <2>1 DEF Base, Held
  <2>3. TypeInv' /\ OrderInv'
    BY Zenon, <1>1, <1>3, <1>5, <1>8, <2>1 DEF IInv, TypeInv, OrderInv
  <2> QED BY Zenon, <1>1, <1>8, <2>1, <2>2, <2>3 DEF IInv, PktInv, KernelInv
<1> QED BY Zenon, <1>6, <1>7, <1>8 DEF Lock, to
(* The end of a segment that is locked is proc_seq.                        *)
LEMMA EndIsProc ==
  ASSUME IInv, Held
  PROVE  End = proc
<1>1. Off(pkt.seq) + pkt.len = Off(proc) /\ proc \in SeqNums
  BY Zenon DEF IInv, TypeInv, PktInv
<1>2. Off(pkt.seq) + pkt.len < SeqMod
  BY Zenon, <1>1, OffType
<1> QED BY Zenon, <1>1, <1>2, Bounds, OffAdd, OffInjective DEF End

(* The body of the segment is received, and its packet valid or not.       *)
LEMMA ReceiveInv ==
  ASSUME IInv, ReceiveValid \/ ReceiveInvalid
  PROVE  IInv'
<1>1. /\ UNCHANGED <<read, recv, proc, pkt, old, kernel, spoiled>>
      /\ pc = "body" /\ pc' \in {"commit", "abort"}
      /\ pc' = "commit" => pkt.valid /\ seen' = recv
      /\ seen' \in SeqNums
  BY Zenon DEF ReceiveValid, ReceiveInvalid, IInv, TypeInv
<1>2. ASSUME NEW u \in Nat, u <= Horizon, segs \in Lists(u)
      PROVE  segs' \in Lists(u)
  BY <1>2, WithoutProcessedList, Bounds DEF ReceiveValid, ReceiveInvalid, IInv, TypeInv
<1>3. segs' \in Lists(Total) /\ segs' \in Lists(Off(read) + BufSize)
  BY Zenon, <1>2, Bounds, Constants DEF IInv, TypeInv
<1>4. Held' = Held /\ Base' = Base
  BY Zenon, <1>1 DEF Held, Base
<1>5. TypeInv' /\ OrderInv'
  BY Zenon, <1>1, <1>3 DEF IInv, TypeInv, OrderInv
<1>6. PktInv'
  BY Zenon, <1>1, <1>4 DEF IInv, PktInv
<1>7. KernelInv'
  <2>1. (kernel = NoLock => Base = recv)'
    BY Zenon, <1>1, <1>4 DEF IInv, KernelInv
  <2>2. (kernel # NoLock =>
           /\ kernel.from = recv /\ kernel.to = Base
           /\ Off(recv) < Off(Base) /\ Off(Base) <= Total)'
    BY Zenon, <1>1, <1>4 DEF IInv, KernelInv
  <2>3. pc' = "commit" => Off(seen') <= Off(recv') /\ seen' = recv'
    BY <1>1, Bounds
  <2> QED BY Zenon, <2>1, <2>2, <2>3 DEF KernelInv
<1> QED BY Zenon, <1>5, <1>6, <1>7 DEF IInv

(* Where the library stands when it has nothing to process.                *)
LEMMA IdleInv ==
  ASSUME TypeInv', OrderInv', pc' \in {"idle", "assert"}, pkt'.len = 0 \/ pc' # "body",
         kernel' = NoLock => proc' = recv',
         kernel' # NoLock => /\ kernel'.from = recv' /\ kernel'.to = proc'
                             /\ Off(recv') < Off(proc') /\ Off(proc') <= Total
  PROVE  IInv'
<1>1. ~ Held' /\ Base' = proc'
  BY Zenon DEF Held, Base
<1> QED BY Zenon, <1>1 DEF IInv, PktInv, KernelInv

(* A commit of an empty region changes no pointer.                         *)
LEMMA CommitNothingInv ==
  ASSUME IInv, CommitNothing
  PROVE  IInv'
<1>1. /\ UNCHANGED <<read, recv, proc, segs, kernel>> /\ Base = proc
      /\ pc' = "idle" /\ pkt' = NoPkt /\ old' = 0 /\ seen' = 0
  BY Bounds DEF CommitNothing, Done, Base, Held
<1>2. TypeInv' /\ OrderInv'
  BY <1>1, Constants DEF IInv, TypeInv, OrderInv, NoPkt, SeqNums
<1> QED BY Zenon, <1>1, <1>2, IdleInv DEF IInv, KernelInv

(* An in order segment: the kernel has nothing locked, so that recv_seq can *)
(* follow proc_seq.                                                        *)
LEMMA CommitInOrderInv ==
  ASSUME IInv, CommitInOrder
  PROVE  IInv' /\ Off(recv) <= Off(recv')
<1> DEFINE reached == BegunBy(segs, proc)
<1> DEFINE i == FirstNot(2, reached)
<1> DEFINE last == segs[i - 1].end
<1> DEFINE merged == 1 \in reached
<1>1. /\ pc = "commit" /\ pkt.len > 0 /\ seen = pkt.seq /\ UNCHANGED <<read, kernel>>
      /\ proc' = IF merged /\ Before(proc, last) THEN last ELSE proc
      /\ segs' = IF merged THEN MoveDown(segs, i, 1) ELSE segs
      /\ recv' = proc' /\ pc' \in {"idle", "assert"}
      /\ \/ UNCHANGED <<pkt, old, seen>>
         \/ pkt' = NoPkt /\ old' = 0 /\ seen' = 0
  BY Zenon DEF CommitInOrder, Done
<1>2. Held /\ Base = old /\ pkt.valid
  BY Zenon, <1>1 DEF Held, Base, IInv, PktInv
<1>3. kernel = NoLock /\ old = recv
  BY SMTT(20), <1>1, <1>2, Bounds DEF IInv, KernelInv, PktInv
<1>4. Off(recv) < Off(proc) /\ Off(proc) <= Total
  BY SMTT(20), <1>1, <1>2, <1>3, Bounds DEF IInv, PktInv
<1>5. i \in 2 .. MaxSegs + 1 /\ 2 .. i - 1 \subseteq reached
  <2>1. 2 \in 1 .. MaxSegs + 1 /\ MaxSegs + 1 \notin reached
    BY Constants DEF BegunBy
  <2> QED BY Zenon, <2>1, FirstNotFound
<1>6. ASSUME NEW u \in Nat, segs \in Lists(u)
      PROVE  segs' \in Lists(u)
  BY <1>1, <1>5, <1>6, MoveDownList, Constants
<1>7. /\ proc' \in SeqNums /\ Off(proc) <= Off(proc')
      /\ Off(proc') <= Total /\ Off(proc') <= Off(read) + BufSize
  <2>1. CASE ~ (merged /\ Before(proc, last))
    BY <1>1, <1>4, <2>1, Bounds DEF IInv, TypeInv, OrderInv
  <2>2. CASE merged /\ Before(proc, last)
    <3>1. i - 1 \in reached /\ i - 1 \in 1 .. MaxSegs
      BY <1>5, <2>2, Constants
    <3>2. /\ segs[i - 1] \in Seg(Total) /\ segs[i - 1] \in Seg(Off(read) + BufSize)
          /\ Used(segs[i - 1])
      BY Zenon, <3>1 DEF IInv, TypeInv, Lists, BegunBy
    <3>3. /\ last \in SeqNums /\ Off(last) \in Nat /\ Off(last) <= Horizon
          /\ Off(last) <= Total /\ Off(last) <= Off(read) + BufSize
      BY Zenon, <3>2, UsedSeg, Bounds, Constants
    <3> HIDE DEF last, merged
    <3>4. Off(proc) < Off(last)
      BY Zenon, <2>2, <3>3, BeforeOff, Bounds DEF IInv, TypeInv
    <3>5. proc' = last
      BY Zenon, <1>1, <2>2
    <3> QED BY <3>3, <3>4, <3>5, Bounds
  <2> QED BY Zenon, <2>1, <2>2
<1> HIDE DEF reached, i, last, merged
<1>8. segs' \in Lists(Total) /\ segs' \in Lists(Off(read) + BufSize)
  BY Zenon, <1>6, Bounds, Constants DEF IInv, TypeInv
<1>9. TypeInv'
  <2>1. 0 \in SeqNums /\ NoPkt \in [seq : SeqNums, len : SeqNums, valid : BOOLEAN]
    BY Constants DEF NoPkt, SeqNums
  <2>2. /\ pkt' \in [seq : SeqNums, len : SeqNums, valid : BOOLEAN]
        /\ old' \in SeqNums /\ seen' \in SeqNums
    BY Zenon, <1>1, <2>1 DEF IInv, TypeInv
  <2> QED BY Zenon, <1>1, <1>7, <1>8, <2>2 DEF IInv, TypeInv
<1>10. Off(proc') \in Nat
  BY Zenon, <1>7, OffType
<1>11. OrderInv' /\ Off(recv) <= Off(recv')
  BY SMTT(20), <1>1, <1>4, <1>7, <1>10, Bounds DEF IInv, OrderInv
<1> QED BY Zenon, <1>1, <1>3, <1>9, <1>11, IdleInv

(* An out of order segment: proc_seq goes back to where it was, or the     *)
(* kernel is idle and has filled the gap before the list.                  *)
LEMMA CommitOutOfOrderInv ==
  ASSUME IInv, CommitOutOfOrder
  PROVE  IInv' /\ Off(recv) <= Off(recv')
<1> DEFINE g == [begin |-> pkt.seq, end |-> End]
<1> DEFINE s == Insert(segs, g)
<1>1. /\ pc = "commit" /\ pkt.len > 0 /\ UNCHANGED <<read, kernel>>
      /\ pc' = "idle" /\ pkt' = NoPkt /\ old' = 0 /\ seen' = 0
  BY Zenon DEF CommitOutOfOrder, Done
<1>2. Held /\ Base = old /\ pkt.valid /\ End = proc
  BY Zenon, <1>1, EndIsProc DEF Held, Base, IInv, PktInv
<1>3. /\ Off(old) <= Off(pkt.seq) /\ Off(pkt.seq) < Off(proc) /\ Off(proc) <= Total
      /\ Off(proc) <= Off(read) + BufSize /\ Off(recv) <= Off(old)
  BY SMTT(20), <1>1, <1>2, Bounds DEF IInv, PktInv, OrderInv, KernelInv
<1>4. ASSUME NEW u \in Nat, u <= Horizon, segs \in Lists(u), Off(proc) <= u
      PROVE  s \in Lists(u)
  <2>1. g \in Seg(u)
    BY Zenon, <1>2, <1>3, <1>4, MakeSeg DEF IInv, TypeInv
  <2>2. Used(g)
    BY <1>2, <1>3, Bounds DEF Used
  <2> QED BY Zenon, <1>4, <2>1, <2>2, InsertList
<1>5. s \in Lists(Total) /\ s \in Lists(Off(read) + BufSize)
  BY <1>3, <1>4, Bounds, Constants DEF IInv, TypeInv
<1> HIDE DEF s
<1>6. 0 \in SeqNums /\ NoPkt \in [seq : SeqNums, len : SeqNums, valid : BOOLEAN]
  BY Constants DEF NoPkt, SeqNums
<1>7. CASE /\ Used(s[1]) /\ s[1].begin = seen /\ seen = old
           /\ recv' = s[1].end /\ proc' = s[1].end /\ segs' = MoveDown(s, 2, 1)
  <2>1. kernel = NoLock /\ recv = old
    BY SMTT(20), <1>1, <1>2, <1>7, Bounds DEF IInv, KernelInv
  <2>2. s[1] \in Seg(Total) /\ s[1] \in Seg(Off(read) + BufSize)
    BY <1>5, Constants DEF Lists
  <2>3. /\ recv' \in SeqNums /\ Off(recv) < Off(recv') /\ Off(recv') <= Total
        /\ Off(recv') <= Off(read) + BufSize /\ Off(recv') \in Nat
    BY Zenon, <1>7, <2>1, <2>2, UsedSeg, Bounds, Constants
  <2>4. segs' \in Lists(Total) /\ segs' \in Lists(Off(read) + BufSize)
    <3>1. 2 \in 1 .. MaxSegs + 1 /\ 1 \in 1 .. MaxSegs + 1 /\ 1 <= 2
      BY Constants
    <3> QED BY Zenon, <1>5, <1>7, <3>1, MoveDownList, Bounds, Constants
  <2>5. TypeInv'
    BY Zenon, <1>1, <1>6, <1>7, <2>3, <2>4 DEF IInv, TypeInv
  <2>6. OrderInv' /\ Off(recv) <= Off(recv')
    BY SMTT(20), <1>1, <1>7, <2>3, Bounds DEF IInv, OrderInv
  <2> QED BY <1>1, <1>7, <2>1, <2>5, <2>6, IdleInv
<1>8. CASE segs' = s /\ proc' = old /\ UNCHANGED recv
  <2>1. TypeInv'
    BY Zenon, <1>1, <1>5, <1>6, <1>8 DEF IInv, TypeInv
  <2>2. OrderInv' /\ Off(recv) <= Off(recv')
    BY <1>1, <1>3, <1>8, Bounds DEF IInv, OrderInv
  <2> QED BY Zenon, <1>1, <1>2, <1>8, <2>1, <2>2, IdleInv DEF IInv, KernelInv
<1> QED BY Zenon, <1>7, <1>8 DEF CommitOutOfOrder, KernelIdle, MovedBack, s
(* A segment is given up: proc_seq goes back to where it was.              *)
LEMMA AbortInv ==
  ASSUME IInv, AbortSegment
  PROVE  IInv'
<1>1. /\ pc = "abort" /\ UNCHANGED <<read, recv, kernel>>
      /\ pc' = "idle" /\ pkt' = NoPkt /\ old' = 0 /\ seen' = 0
      /\ segs' = Purge(segs) /\ proc' = Base
  BY Zenon DEF AbortSegment, Done, MovedBack, Base, Held
<1>2. segs' \in Lists(Total) /\ segs' \in Lists(Off(read) + BufSize)
  BY Zenon, <1>1, PurgeList, Bounds, Constants DEF IInv, TypeInv
<1>3. /\ Base \in SeqNums /\ Off(recv) <= Off(Base)
      /\ Off(Base) <= Off(read) + BufSize
  <2>1. CASE Held
    BY SMTT(20), <1>1, <2>1, Bounds DEF Base, Held, IInv, TypeInv, OrderInv, PktInv, KernelInv
  <2>2. CASE ~ Held
    BY Zenon, <2>2 DEF Base, IInv, TypeInv, OrderInv
  <2> QED BY Zenon, <2>1, <2>2
<1>4. 0 \in SeqNums /\ NoPkt \in [seq : SeqNums, len : SeqNums, valid : BOOLEAN]
  BY Constants DEF NoPkt, SeqNums
<1>5. TypeInv' /\ OrderInv'
  BY Zenon, <1>1, <1>2, <1>3, <1>4 DEF IInv, TypeInv, OrderInv
<1> QED BY Zenon, <1>1, <1>5, IdleInv DEF IInv, KernelInv

(* The application reads no more than what was received.                   *)
LEMMA ReadInv ==
  ASSUME IInv, NEW n \in 1 .. BufSize, Read(n)
  PROVE  IInv'
<1>1. /\ pc = "idle" /\ n <= Sub(recv, read) /\ read' = Add(read, n)
      /\ UNCHANGED <<recv, proc, segs, pc, pkt, old, seen, kernel, spoiled>>
  BY Zenon DEF Read, local
<1>2. Off(read) + n <= Off(recv)
  BY <1>1, SubOff, Bounds DEF IInv, TypeInv, OrderInv
<1>3. read' \in SeqNums /\ Off(read') = Off(read) + n
  <2>1. n \in SeqNums /\ Off(read) + n < SeqMod
    BY <1>2, Bounds, Constants DEF SeqNums
  <2> QED BY Zenon, <1>1, <2>1, OffAdd DEF IInv, TypeInv
<1>4. segs \in Lists(Off(read') + BufSize)
  <2>1. segs \in Lists(Off(read) + BufSize)
    BY Zenon DEF IInv, TypeInv
  <2>2. ASSUME NEW x \in Seg(Off(read) + BufSize)
        PROVE  x \in Seg(Off(read') + BufSize)
    <3>1. x \in [begin : SeqNums, end : SeqNums]
      BY Zenon DEF Seg
    <3>2. Off(x.end) \in Nat
      BY Zenon, <3>1, OffType
    <3>3. Used(x) => Off(x.begin) < Off(x.end) /\ Off(x.end) <= Off(read') + BufSize
      BY <1>3, <3>2, Bounds, Constants DEF Seg
    <3> QED BY Zenon, <3>1, <3>3 DEF Seg
  <2> QED BY Zenon, <2>1, <2>2 DEF Lists
<1>5. TypeInv'
  BY Zenon, <1>1, <1>3, <1>4 DEF IInv, TypeInv
<1>6. OrderInv'
  BY SMTT(20), <1>1, <1>2, <1>3, Bounds, Constants DEF IInv, OrderInv
<1>7. ~ Held /\ Base = proc
  BY Zenon, <1>1 DEF Held, Base
<1> QED BY Zenon, <1>1, <1>5, <1>6, <1>7, IdleInv DEF IInv, KernelInv

(* The kernel locks what is next when nothing is locked.                   *)
LEMMA KernelLocksInv ==
  ASSUME IInv, NEW n \in 1 .. MaxLen, KernelLocks(n)
  PROVE  IInv'
<1> DEFINE to == Add(recv, n)
<1>1. /\ kernel = NoLock /\ proc = recv /\ Fits(to) /\ Sub(to, First) <= Total
      /\ kernel' = [from |-> recv, to |-> to] /\ proc' = to
      /\ UNCHANGED <<read, recv, segs, pc, pkt, old, seen, spoiled>>
  BY Zenon DEF KernelLocks, local
<1>2. to \in SeqNums /\ Off(to) = Off(recv) + n
  <2>1. n \in SeqNums /\ Off(recv) + n < SeqMod
    BY Bounds, Constants DEF SeqNums, IInv, OrderInv
  <2> QED BY Zenon, <2>1, OffAdd DEF IInv, TypeInv
<1> HIDE DEF to
<1>3. ~ Held
  BY SMTT(20), <1>1, Bounds DEF Held, Base, IInv, PktInv, KernelInv
<1>4. ~ Held' /\ Base' = to
  BY Zenon, <1>1, <1>3 DEF Held, Base
<1>5. Off(to) <= Off(read) + BufSize
  BY SMTT(20), <1>1, <1>2, SubOff, Bounds, Constants DEF Fits, IInv, TypeInv, OrderInv
<1>6. TypeInv'
  BY Zenon, <1>1, <1>2 DEF IInv, TypeInv
<1>7. OrderInv'
  BY <1>1, <1>2, <1>5, Bounds DEF IInv, OrderInv
<1>8. PktInv'
  BY Zenon, <1>1, <1>4 DEF IInv, PktInv
<1>9. KernelInv'
  <2>1. kernel' # NoLock
    BY <1>1, <1>2, Bounds DEF NoLock
  <2>2. Off(recv) < Off(to) /\ Off(to) <= Total
    BY <1>1, <1>2, Bounds DEF Off
  <2>3. ~ (pc = "commit" /\ pkt.len > 0)
    BY Zenon, <1>3 DEF Held
  <2> QED BY Zenon, <1>1, <1>4, <2>1, <2>2, <2>3 DEF KernelInv
<1> QED BY Zenon, <1>6, <1>7, <1>8, <1>9 DEF IInv

(* The kernel delivers what it has locked.                                 *)
LEMMA KernelDeliversInv ==
  ASSUME IInv, KernelDelivers
  PROVE  IInv' /\ Off(recv) <= Off(recv')
<1>1. /\ kernel # NoLock /\ recv' = kernel.to /\ kernel' = NoLock
      /\ UNCHANGED <<read, proc, segs, pc, pkt, old, seen, spoiled>>
  BY Zenon DEF KernelDelivers, local
<1>2. Held' = Held /\ Base' = Base
  BY Zenon, <1>1 DEF Held, Base
<1>3. /\ recv' = Base /\ Off(recv) < Off(Base) /\ Off(Base) <= Total
  BY Zenon, <1>1 DEF IInv, KernelInv
<1>4. Base \in SeqNums /\ Off(Base) \in Nat
  BY Zenon, Bounds DEF Base, IInv, TypeInv
<1>5. Off(Base) <= Off(proc)
  <2>1. CASE Held
    BY <2>1, Bounds DEF Base, Held, IInv, PktInv
  <2>2. CASE ~ Held
    BY <2>2, Bounds DEF Base
  <2> QED BY Zenon, <2>1, <2>2
<1>6. TypeInv'
  BY <1>1, <1>3, <1>4, Constants DEF IInv, TypeInv, NoLock, SeqNums
<1>7. OrderInv' /\ Off(recv) <= Off(recv')
  BY <1>1, <1>3, <1>4, <1>5, Bounds DEF IInv, OrderInv
<1>8. PktInv'
  BY Zenon, <1>1, <1>2 DEF IInv, PktInv
<1>9. KernelInv'
  BY <1>1, <1>2, <1>3, <1>4, Bounds DEF IInv, KernelInv
<1> QED BY Zenon, <1>6, <1>7, <1>8, <1>9 DEF IInv

(* Every step keeps the invariant and moves recv_seq forward, or not at    *)
(* all.                                                                    *)
LEMMA StepInv ==
  ASSUME IInv, [Next]_vars
  PROVE  IInv' /\ Off(recv) <= Off(recv')
<1>1. CASE UNCHANGED vars
  <2>1. UNCHANGED <<read, recv, proc, segs, pc, pkt, old, seen, kernel>>
    BY Zenon, <1>1 DEF vars, local
  <2>2. Held' = Held /\ Base' = Base
    BY Zenon, <2>1 DEF Held, Base
  <2> QED BY SMTT(40), <2>1, <2>2, Bounds DEF IInv, TypeInv, OrderInv, PktInv, KernelInv
<1>2. ASSUME UNCHANGED recv
      PROVE  Off(recv) <= Off(recv')
  BY <1>2, Bounds
<1>3. ASSUME NEW d \in 0 .. Total, NEW n \in 0 .. MaxLen, NEW valid \in BOOLEAN,
             Arrive(Add(First, d), n, valid)
      PROVE  IInv' /\ Off(recv) <= Off(recv')
  BY Zenon, <1>2, <1>3, ArriveInv DEF Arrive
<1>4. CASE Lock
  BY Zenon, <1>2, <1>4, LockInv DEF Lock
<1>5. CASE ReceiveValid \/ ReceiveInvalid
  BY Zenon, <1>2, <1>5, ReceiveInv DEF ReceiveValid, ReceiveInvalid
<1>6. CASE CommitNothing
  BY Zenon, <1>2, <1>6, CommitNothingInv DEF CommitNothing
<1>7. CASE CommitInOrder \/ CommitOutOfOrder
  BY Zenon, <1>7, CommitInOrderInv, CommitOutOfOrderInv
<1>8. CASE AbortSegment
  BY Zenon, <1>2, <1>8, AbortInv DEF AbortSegment
<1>9. ASSUME NEW n \in 1 .. BufSize, Read(n)
      PROVE  IInv' /\ Off(recv) <= Off(recv')
  BY Zenon, <1>2, <1>9, ReadInv DEF Read
<1>10. ASSUME NEW n \in 1 .. MaxLen, KernelLocks(n)
       PROVE  IInv' /\ Off(recv) <= Off(recv')
  BY Zenon, <1>2, <1>10, KernelLocksInv DEF KernelLocks
<1>11. CASE KernelDelivers
  BY Zenon, <1>11, KernelDeliversInv
<1> QED BY Zenon, <1>1, <1>3, <1>4, <1>5, <1>6, <1>7, <1>8, <1>9, <1>10, <1>11
    DEF Next, Receiving

-----------------------------------------------------------------------------
(* The bytes of the buffer.                                                *)

(* The data are right when the connection is set up.                       *)
LEMMA InitData == Init => DataInv
<1> SUFFICES ASSUME Init PROVE DataInv
  BY Zenon
<1>1. \A h \in 1 .. MaxSegs : ~ Used(segs[h])
  BY Zenon DEF Init, Used, Empty
<1>2. Chain(segs, recv)
  BY Zenon, <1>1 DEF Chain
<1>3. Received(right, read, recv)
  <2>1. \A x \in SeqNums : ~ (Off(read) <= Off(x) /\ Off(x) < Off(recv))
    <3>1. First \in SeqNums
      BY Zenon, Constants DEF SeqNums
    <3> QED BY <3>1, OffType DEF Init
  <2> QED BY Zenon, <2>1 DEF Received
<1> QED BY Zenon, <1>1, <1>2, <1>3 DEF Init, DataInv

(* Where the segment that is processed lies: behind what was received.     *)
LEMMA RegionBounds ==
  ASSUME IInv, pc \in {"body", "commit", "abort"}
  PROVE  /\ pkt.seq \in SeqNums /\ End \in SeqNums /\ Off(pkt.seq) \in Nat
         /\ Off(End) \in Nat /\ Off(pkt.seq) <= Off(End)
         /\ pkt.len = 0 => End = pkt.seq
         /\ pkt.len > 0 => /\ Off(recv) <= Off(old) /\ Off(old) <= Off(pkt.seq)
                           /\ Off(pkt.seq) < Off(End) /\ Off(End) <= Horizon
                           /\ End = proc /\ Base = old
<1>0. /\ pkt.seq \in SeqNums /\ pkt.len \in Nat /\ Off(pkt.seq) \in Nat /\ SeqMod \in Nat
      /\ proc \in SeqNums
  BY Zenon, Bounds, Constants DEF IInv, TypeInv
<1>1. CASE pkt.len = 0
  <2>1. 0 \in SeqNums /\ Off(pkt.seq) + 0 < SeqMod /\ Off(pkt.seq) + 0 = Off(pkt.seq)
    BY <1>0, Constants, OffType DEF SeqNums
  <2>2. End \in SeqNums /\ Off(End) = Off(pkt.seq)
    BY Zenon, <1>0, <1>1, <2>1, OffAdd DEF End
  <2>3. End = pkt.seq
    BY Zenon, <1>0, <2>2, OffInjective
  <2> QED BY <1>0, <1>1, <2>3
<1>2. CASE pkt.len > 0
  <2>1. Held /\ Base = old
    BY Zenon, <1>2 DEF Held, Base
  <2>2. End = proc
    BY Zenon, <2>1, EndIsProc
  <2>3. Off(old) <= Off(pkt.seq) /\ Off(pkt.seq) + pkt.len = Off(proc)
    BY Zenon, <2>1 DEF IInv, PktInv
  <2>4. Off(recv) <= Off(old)
    <3>1. CASE kernel = NoLock
      BY <2>1, <3>1, Bounds DEF IInv, KernelInv
    <3>2. CASE kernel # NoLock
      BY <2>1, <3>2, Bounds DEF IInv, KernelInv
    <3> QED BY Zenon, <3>1, <3>2
  <2>5. Off(pkt.seq) < Off(proc) /\ Off(proc) <= Horizon /\ Off(proc) \in Nat
    BY <1>0, <1>2, <2>3, Bounds
  <2> QED BY <1>0, <1>2, <2>1, <2>2, <2>3, <2>4, <2>5
<1> QED BY <1>0, <1>1, <1>2

(* What the invariant says where nothing was given up.                     *)
LEMMA DataFacts ==
  ASSUME IInv, DataInv, ~ spoiled
  PROVE  /\ Chain(segs, recv) /\ Received(right, read, recv)
         /\ pc # "abort" => AllFilled(right, segs, recv)
         /\ segs \in Lists(Total) /\ Total \in Nat /\ Total <= Horizon
         /\ recv \in SeqNums /\ read \in SeqNums /\ Off(recv) \in Nat /\ Off(read) \in Nat
         /\ Off(read) <= Off(recv) /\ Off(recv) <= Horizon /\ Off(read) <= Horizon
BY Zenon, Bounds, Constants DEF IInv, TypeInv, OrderInv, DataInv, AllFilled

(* A step that leaves the list, the pointers and the buffer alone.         *)
LEMMA NoDataStep ==
  ASSUME IInv, DataInv, UNCHANGED <<read, recv, segs, right, spoiled>>,
         \/ pc \in {"idle", "lock"} /\ pc' \in {"idle", "lock", "body"}
         \/ UNCHANGED <<pc, pkt>>
  PROVE  DataInv'
<1>1. CASE pc \in {"idle", "lock"} /\ pc' \in {"idle", "lock", "body"}
  BY Zenon, <1>1 DEF DataInv
<1>2. CASE UNCHANGED <<pc, pkt>>
  BY Zenon, <1>2 DEF DataInv, Region, End, Overlaps
<1> QED BY Zenon, <1>1, <1>2

(* The end of the processing of a segment: what is received or on the list *)
(* stays in the buffer.                                                    *)
LEMMA DoneData ==
  ASSUME IInv, IInv', Done, UNCHANGED read, ~ spoiled',
         Chain(segs', recv'), Received(right, read, recv'),
         AllFilled(right, segs', recv')
  PROVE  DataInv'
<1>1. /\ recv' \in SeqNums /\ read \in SeqNums /\ Off(read) <= Off(recv')
      /\ segs' \in Lists(Total) /\ Total \in Nat /\ Total <= Horizon
  BY Zenon, Constants, Bounds DEF IInv, TypeInv, OrderInv
<1>2. Received(right', read', recv')
  <2> SUFFICES ASSUME NEW x \in SeqNums, Off(read) <= Off(x), Off(x) < Off(recv')
               PROVE  x \in right'
    BY Zenon DEF Received
  <2>1. x \in right
    BY Zenon DEF Received
  <2>2. x \in Span(read, recv')
    BY Zenon, <1>1, SpanOff
  <2> QED BY Zenon, <2>1, <2>2 DEF Done
<1>3. ASSUME NEW h \in 1 .. MaxSegs, Used(segs'[h])
      PROVE  Filled(right', segs'[h], recv')
  <2> DEFINE g == segs'[h]
  <2> SUFFICES ASSUME NEW x \in SeqNums, Off(g.begin) <= Off(x), Off(recv') <= Off(x),
                      Off(x) < Off(g.end)
               PROVE  x \in right'
    BY Zenon DEF Filled
  <2>1. x \in right
    BY Zenon, <1>3 DEF AllFilled, Filled
  <2>2. g \in Seg(Total) /\ Used(g)
    BY Zenon, <1>1, <1>3 DEF Lists
  <2>3. x \in Span(g.begin, g.end)
    <3> HIDE DEF g
    <3>1. g.begin \in SeqNums /\ g.end \in SeqNums /\ Off(g.begin) <= Off(g.end)
      BY SMTT(20), <1>1, <2>2, UsedSeg
    <3> QED BY Zenon, <3>1, SpanOff
  <2> QED BY Zenon, <2>1, <2>3 DEF Done
<1> QED BY Zenon, <1>2, <1>3 DEF DataInv, Done

(* A commit of nothing.                                                    *)
LEMMA CommitNothingData ==
  ASSUME IInv, IInv', DataInv, CommitNothing
  PROVE  DataInv'
<1>1. CASE spoiled'
  BY Zenon, <1>1 DEF DataInv
<1>2. CASE ~ spoiled'
  <2>1. /\ ~ spoiled /\ UNCHANGED <<read, recv, segs>> /\ Done /\ pc # "abort"
    BY Zenon, <1>2 DEF CommitNothing
  <2>2. Chain(segs', recv') /\ Received(right, read, recv') /\ AllFilled(right, segs', recv')
    BY Zenon, <2>1, DataFacts
  <2> QED BY Zenon, <1>2, <2>1, <2>2, DoneData
<1> QED BY Zenon, <1>1, <1>2

(* An invalid segment is given up: its entries go, and the others were not *)
(* written over.                                                           *)
LEMMA AbortData ==
  ASSUME IInv, IInv', DataInv, AbortSegment
  PROVE  DataInv'
<1>1. CASE spoiled'
  BY Zenon, <1>1 DEF DataInv
<1>2. CASE ~ spoiled'
  <2>1. /\ ~ spoiled /\ UNCHANGED <<read, recv>> /\ Done /\ pc = "abort"
        /\ segs' = Purge(segs)
        /\ \A l \in 1 .. MaxSegs : \A h \in 1 .. l - 1 :
             ~ (Overlaps(segs[l]) /\ Overlaps(segs[h]))
    BY Zenon, <1>2 DEF AbortSegment
  <2>2. segs \in Lists(Total) /\ Total \in Nat /\ Chain(segs, recv)
    BY Zenon, <2>1, DataFacts
  <2>3. /\ Chain(segs', recv)
        /\ \A j \in 1 .. MaxSegs : Used(segs'[j]) =>
             \E h \in 1 .. MaxSegs : segs'[j] = segs[h] /\ ~ Overlaps(segs[h])
    BY <2>1, <2>2, PurgeChain
  <2>4. AllFilled(right, segs', recv)
    BY Zenon, <2>1, <2>3 DEF AllFilled, DataInv
  <2> QED BY Zenon, <1>2, <2>1, <2>3, <2>4, DoneData, DataFacts
<1> QED BY Zenon, <1>1, <1>2

(* The body of a valid packet is in the buffer.                            *)
LEMMA ReceiveValidData ==
  ASSUME IInv, DataInv, ReceiveValid
  PROVE  DataInv'
<1>1. CASE spoiled'
  BY Zenon, <1>1 DEF DataInv
<1>2. CASE ~ spoiled'
  <2>1. /\ ~ spoiled /\ UNCHANGED <<read, recv, pkt, spoiled>> /\ pc = "body" /\ pc' = "commit"
        /\ right' = right \cup Span(pkt.seq, End)
        /\ segs' = WithoutProcessed(segs, recv) \/ segs' = segs
    BY Zenon, <1>2 DEF ReceiveValid
  <2>2. /\ Chain(segs, recv) /\ AllFilled(right, segs, recv) /\ Received(right, read, recv)
        /\ segs \in Lists(Total) /\ Total \in Nat /\ Total <= Horizon
        /\ recv \in SeqNums /\ Off(recv) <= Horizon
    BY Zenon, <2>1, DataFacts
  <2>3. Chain(segs', recv) /\ AllFilled(right, segs', recv)
    <3>1. CASE segs' = segs
      BY Zenon, <2>2, <3>1
    <3>2. CASE segs' = WithoutProcessed(segs, recv)
      BY Zenon, <2>2, <3>2, WithoutProcessedChain
    <3> QED BY Zenon, <2>1, <3>1, <3>2
  <2>4. Received(right', read', recv')
    BY Zenon, <2>1, <2>2 DEF Received
  <2>5. \A h \in 1 .. MaxSegs : Used(segs'[h]) => Filled(right', segs'[h], recv')
    BY Zenon, <2>1, <2>3 DEF AllFilled, Filled
  <2>6. Filled(right', Region', recv')
    <3>1. Region' = [begin |-> pkt.seq, end |-> End]
      BY Zenon, <2>1 DEF Region, End
    <3>2. pkt.seq \in SeqNums /\ End \in SeqNums /\ Off(pkt.seq) <= Off(End)
      BY Zenon, <2>1, RegionBounds
    <3>3. ASSUME NEW x \in SeqNums, Off(pkt.seq) <= Off(x), Off(x) < Off(End)
          PROVE  x \in right'
      BY <2>1, <3>2, <3>3, SpanOff
    <3> QED BY Zenon, <3>1, <3>3 DEF Filled
  <2> QED BY Zenon, <2>1, <2>3, <2>4, <2>5, <2>6 DEF DataInv
<1> QED BY Zenon, <1>1, <1>2

(* The bytes of an invalid packet overwrite no byte that was received, nor *)
(* an entry that does not overlap it.                                      *)
LEMMA ReceiveInvalidData ==
  ASSUME IInv, DataInv, ReceiveInvalid
  PROVE  DataInv'
<1>1. CASE spoiled'
  BY Zenon, <1>1 DEF DataInv
<1>2. CASE ~ spoiled'
  <2>1. /\ ~ spoiled /\ UNCHANGED <<read, recv, segs, pkt, spoiled>>
        /\ pc = "body" /\ pc' = "abort"
        /\ right' = right \ Span(pkt.seq, End)
    BY Zenon, <1>2 DEF ReceiveInvalid
  <2>2. /\ Chain(segs, recv) /\ AllFilled(right, segs, recv) /\ Received(right, read, recv)
        /\ segs \in Lists(Total) /\ Total \in Nat /\ Total <= Horizon
        /\ recv \in SeqNums /\ Off(recv) \in Nat
    BY Zenon, <2>1, DataFacts
  <2>3. /\ pkt.seq \in SeqNums /\ End \in SeqNums /\ Off(pkt.seq) \in Nat
        /\ Off(End) \in Nat /\ Off(pkt.seq) <= Off(End)
        /\ Off(pkt.seq) < Off(End) => /\ Off(recv) <= Off(pkt.seq) /\ Off(End) <= Horizon
                                      /\ Off(pkt.seq) <= Horizon
    <3>1. pkt.len = 0 \/ pkt.len > 0
      BY Bounds
    <3>2. Off(old) \in Nat /\ Horizon \in Nat
      BY Zenon, Bounds, Constants DEF Horizon
    <3> QED BY <2>1, <2>2, <3>1, <3>2, RegionBounds
  <2>4. ASSUME NEW x \in SeqNums, x \in right,
               Off(x) < Off(pkt.seq) \/ Off(End) <= Off(x)
        PROVE  x \in right'
    <3>1. ~ (Off(pkt.seq) <= Off(x) /\ Off(x) < Off(End))
      BY <2>3, <2>4, OffType
    <3> QED BY Zenon, <2>1, <2>3, <2>4, <3>1, SpanOff
  <2>5. Received(right', read', recv')
    <3> SUFFICES ASSUME NEW x \in SeqNums, Off(read) <= Off(x), Off(x) < Off(recv)
                 PROVE  x \in right'
      BY Zenon, <2>1 DEF Received
    <3>1. x \in right /\ Off(x) \in Nat
      BY Zenon, <2>2, OffType DEF Received
    <3>2. Off(x) < Off(pkt.seq) \/ Off(End) <= Off(x)
      BY <2>2, <2>3, <3>1
    <3> QED BY Zenon, <2>4, <3>1, <3>2
  <2>6. ASSUME NEW h \in 1 .. MaxSegs, Used(segs[h]), ~ Overlaps(segs[h])
        PROVE  Filled(right', segs[h], recv)
    <3> DEFINE g == segs[h]
    <3>1. g \in Seg(Total) /\ Used(g) /\ ~ Overlaps(g) /\ Filled(right, g, recv)
      BY Zenon, <2>2, <2>6 DEF Lists, AllFilled
    <3> HIDE DEF g
    <3> SUFFICES ASSUME NEW x \in SeqNums, Off(g.begin) <= Off(x), Off(recv) <= Off(x),
                        Off(x) < Off(g.end)
                 PROVE  x \in right'
      BY Zenon DEF Filled, g
    <3>2. x \in right /\ Off(x) \in Nat
      BY Zenon, <3>1, OffType DEF Filled
    <3>3. /\ g.begin \in SeqNums /\ g.end \in SeqNums
          /\ Off(g.begin) \in Nat /\ Off(g.end) \in Nat
          /\ Off(g.begin) <= Horizon /\ Off(g.end) <= Horizon
      BY Zenon, <2>2, <3>1, UsedSeg
    <3>4. Off(x) < Off(pkt.seq) \/ Off(End) <= Off(x)
      <4>1. CASE Off(pkt.seq) < Off(End)
        <5>1. ~ (Off(pkt.seq) < Off(g.end) /\ Off(g.begin) < Off(End))
          BY <2>3, <3>1, <3>3, <4>1, BeforeOff DEF Overlaps
        <5> QED BY <2>3, <3>2, <3>3, <5>1
      <4>2. CASE ~ (Off(pkt.seq) < Off(End))
        BY <2>3, <3>2, <4>2
      <4> QED BY Zenon, <4>1, <4>2
    <3> QED BY Zenon, <2>4, <3>2, <3>4
  <2>7. \A h \in 1 .. MaxSegs : Overlaps(segs[h])' <=> Overlaps(segs[h])
    BY Zenon, <2>1 DEF Overlaps, End
  <2> QED BY Zenon, <2>1, <2>2, <2>5, <2>6, <2>7 DEF DataInv
<1> QED BY Zenon, <1>1, <1>2

(* recv_seq moves on, over bytes that are in the buffer.                   *)
LEMMA ReceivedOn ==
  ASSUME NEW R, NEW a \in SeqNums, NEW r \in SeqNums, NEW q \in SeqNums,
         Received(R, a, r),
         \A x \in SeqNums : Off(r) <= Off(x) /\ Off(x) < Off(q) => x \in R
  PROVE  Received(R, a, q)
<1> SUFFICES ASSUME NEW x \in SeqNums, Off(a) <= Off(x), Off(x) < Off(q)
             PROVE  x \in R
  BY Zenon DEF Received
<1>1. Off(x) < Off(r) \/ Off(r) <= Off(x)
  BY OffType
<1> QED BY Zenon, <1>1 DEF Received

(* What recv_seq moves on to in exa_tcp_rx_buffer_commit.                  *)
LEMMA AllLater ==
  ASSUME NEW R, NEW u \in Nat, NEW s \in Lists(u), NEW r \in SeqNums, NEW q \in SeqNums,
         Off(r) <= Off(q), Chain(s, r), AllFilled(R, s, r)
  PROVE  Chain(s, q) /\ AllFilled(R, s, q)
<1>1. Chain(s, q)
  BY Zenon, ChainLater
<1>2. ASSUME NEW h \in 1 .. MaxSegs, Used(s[h])
      PROVE  Filled(R, s[h], q)
  <2>1. Filled(R, s[h], r)
    BY Zenon, <1>2 DEF AllFilled
  <2> QED BY Zenon, <2>1, FilledLater
<1> QED BY Zenon, <1>1, <1>2 DEF AllFilled

(* An in order segment and the entries it reaches.                         *)
LEMMA CommitInOrderData ==
  ASSUME IInv, IInv', DataInv, CommitInOrder, Off(recv) <= Off(recv')
  PROVE  DataInv'
<1>1. CASE spoiled'
  BY Zenon, <1>1 DEF DataInv
<1>2. CASE ~ spoiled'
  <2> DEFINE reached == BegunBy(segs, proc)
  <2> DEFINE i == FirstNot(2, reached)
  <2> DEFINE last == segs[i - 1].end
  <2> DEFINE merged == 1 \in reached
  <2>1. /\ pc = "commit" /\ pkt.len > 0 /\ seen = pkt.seq
        /\ proc' = IF merged /\ Before(proc, last) THEN last ELSE proc
        /\ segs' = IF merged THEN MoveDown(segs, i, 1) ELSE segs
        /\ recv' = proc' /\ UNCHANGED read /\ ~ spoiled
        /\ (Used(segs'[1]) /\ NotAfter(segs'[1].begin, proc')) \/ Done
    BY Zenon, <1>2 DEF CommitInOrder
  <2>2. /\ Chain(segs, recv) /\ AllFilled(right, segs, recv) /\ Received(right, read, recv)
        /\ segs \in Lists(Total) /\ Total \in Nat /\ Total <= Horizon
        /\ recv \in SeqNums /\ Off(recv) \in Nat /\ read \in SeqNums
        /\ MaxSegs \in Nat /\ MaxSegs > 0
        /\ Filled(right, Region, recv)
    BY Zenon, <2>1, DataFacts, Constants DEF DataInv
  <2>3. /\ Off(pkt.seq) = Off(recv) /\ End = proc /\ proc \in SeqNums
        /\ Off(proc) \in Nat /\ Off(proc) <= Horizon /\ recv' \in SeqNums
        /\ Off(recv') \in Nat /\ Off(recv') <= Horizon
    <3>1. Off(seen) <= Off(recv)
      BY Zenon, <2>1 DEF IInv, KernelInv
    <3>2. /\ Off(recv) <= Off(old) /\ Off(old) <= Off(pkt.seq) /\ End = proc
          /\ Off(pkt.seq) \in Nat
      BY Zenon, <2>1, RegionBounds
    <3>3. /\ Off(old) \in Nat /\ proc \in SeqNums /\ Off(proc) <= Horizon
          /\ recv' \in SeqNums /\ Off(recv') <= Total
      BY Zenon, Bounds DEF IInv, TypeInv, OrderInv
    <3>4. Off(proc) \in Nat /\ Off(recv') \in Nat /\ Off(recv') <= Horizon
      BY <2>2, <3>3, OffType, Constants DEF Horizon
    <3> QED BY SMTT(20), <2>1, <2>2, <3>1, <3>2, <3>3, <3>4
  <2>4. /\ i \in 2 .. MaxSegs + 1 /\ i \notin reached
        /\ 2 .. i - 1 \subseteq reached
    <3>1. 2 \in 1 .. MaxSegs + 1 /\ MaxSegs + 1 \notin reached
      BY <2>2 DEF BegunBy
    <3> HIDE DEF reached
    <3> QED BY Zenon, <3>1, FirstNotFound
  <2> HIDE DEF i
  <2>5. merged => i - 1 \in reached
    <3>1. i - 1 = 1 \/ i - 1 \in 2 .. i - 1
      BY <2>2, <2>4
    <3> QED BY Zenon, <2>4, <3>1
  <2>6. ASSUME merged
        PROVE  /\ i - 1 \in 1 .. MaxSegs /\ Used(segs[i - 1]) /\ last \in SeqNums
               /\ segs[i - 1].begin \in SeqNums /\ Off(segs[i - 1].begin) \in Nat
               /\ Off(segs[i - 1].begin) <= Off(proc) /\ Off(last) \in Nat
               /\ Before(proc, last) <=> Off(proc) < Off(last)
    <3> DEFINE a == segs[i - 1]
    <3>1. i - 1 \in 1 .. MaxSegs /\ Used(a) /\ NotAfter(a.begin, proc)
      BY Zenon, <2>5, <2>6 DEF BegunBy
    <3>2. a \in Seg(Total)
      BY Zenon, <2>2, <3>1 DEF Lists
    <3>3. last = a.end
      BY Zenon
    <3> HIDE DEF a, last
    <3>4. /\ a.begin \in SeqNums /\ a.end \in SeqNums /\ Off(a.end) \in Nat
          /\ Off(a.begin) \in Nat /\ Off(a.begin) <= Horizon /\ Off(a.end) <= Horizon
      BY Zenon, <2>2, <3>1, <3>2, UsedSeg
    <3>5. /\ Off(a.begin) <= Off(proc)
          /\ Before(proc, a.end) <=> Off(proc) < Off(a.end)
      BY <2>3, <3>1, <3>4, BeforeOff
    <3> QED BY Zenon, <3>1, <3>3, <3>4, <3>5 DEF a
  <2>7. Received(right, read, recv')
    <3>1. ASSUME NEW x \in SeqNums, Off(recv) <= Off(x), Off(x) < Off(proc)
          PROVE  x \in right
      BY Zenon, <2>2, <2>3, <3>1 DEF Filled, Region
    <3>2. Received(right, read, proc)
      BY Zenon, <2>2, <2>3, <3>1, ReceivedOn
    <3>3. CASE recv' = proc
      BY Zenon, <3>2, <3>3
    <3>4. CASE merged /\ recv' = last
      <4> DEFINE a == segs[i - 1]
      <4>1. /\ Filled(right, a, recv) /\ last = a.end /\ Off(a.begin) <= Off(proc)
            /\ Off(a.begin) \in Nat /\ last \in SeqNums
        BY Zenon, <2>2, <2>6, <3>4 DEF AllFilled
      <4> HIDE DEF a, last
      <4>2. ASSUME NEW x \in SeqNums, Off(proc) <= Off(x), Off(x) < Off(last)
            PROVE  x \in right
        <5>1. Off(a.begin) <= Off(x)
          BY <2>3, <4>1, <4>2, OffType
        <5>2. Off(recv) <= Off(x)
          <6>1. Off(recv) <= Off(proc)
            BY Zenon DEF IInv, OrderInv
          <6> QED BY <2>2, <2>3, <4>2, <6>1, OffType
        <5> QED BY Zenon, <4>1, <4>2, <5>1, <5>2 DEF Filled
      <4>3. Received(right, read, last)
        BY <2>2, <2>3, <3>2, <4>1, <4>2, ReceivedOn
      <4> QED BY Zenon, <3>4, <4>3
    <3> QED BY Zenon, <2>1, <3>3, <3>4
  <2>8. Chain(segs', recv) /\ AllFilled(right, segs', recv)
    <3>1. CASE ~ merged
      BY Zenon, <2>1, <2>2, <3>1
    <3>2. CASE merged
      <4>1. i \in 1 .. MaxSegs + 1 /\ 1 \in 1 .. MaxSegs + 1 /\ 1 <= i
        BY <2>2, <2>4
      <4>2. Chain(MoveDown(segs, i, 1), recv) /\ AllFilled(right, MoveDown(segs, i, 1), recv)
        BY Zenon, <2>2, <4>1, MoveDownChain, MoveDownFilled
      <4> QED BY Zenon, <2>1, <3>2, <4>2
    <3> QED BY Zenon, <3>1, <3>2
  <2>9. Chain(segs', recv') /\ AllFilled(right, segs', recv')
    <3>1. segs' \in Lists(Total)
      BY Zenon DEF IInv, TypeInv
    <3> QED BY Zenon, <2>2, <2>3, <2>8, <3>1, AllLater
  <2>10. ~ (Used(segs'[1]) /\ NotAfter(segs'[1].begin, proc'))
    <3> SUFFICES ASSUME Used(segs'[1]) PROVE ~ NotAfter(segs'[1].begin, proc')
      BY Zenon
    <3>1. CASE ~ merged
      <4>1. segs' = segs /\ proc' = proc /\ 1 \in 1 .. MaxSegs
        BY SMTT(20), <2>1, <2>2, <3>1
      <4> QED BY Zenon, <3>1, <4>1 DEF BegunBy
    <3>2. CASE merged
      <4>1. segs'[1] = IF i <= MaxSegs THEN segs[i] ELSE Empty
        <5>1. 1 \in 1 .. MaxSegs /\ ~ (1 < 1) /\ 1 + i - 1 = i
          BY <2>2, <2>4
        <5> QED BY Zenon, <2>1, <3>2, <5>1 DEF MoveDown
      <4>2. i \in 1 .. MaxSegs /\ segs'[1] = segs[i] /\ Used(segs[i])
        <5>1. ~ Used(Empty)
          BY Zenon DEF Used, Empty
        <5> QED BY SMTT(20), <2>2, <2>4, <4>1, <5>1
      <4> DEFINE b == segs[i]
      <4> DEFINE a == segs[i - 1]
      <4>3. b \in Seg(Total) /\ Used(b) /\ ~ NotAfter(b.begin, proc)
        BY Zenon, <2>2, <2>4, <4>2 DEF Lists, BegunBy
      <4>4. Follows(a, b, recv) /\ last = a.end /\ Off(a.begin) <= Off(proc)
            /\ a.begin \in SeqNums /\ Off(a.begin) \in Nat /\ last \in SeqNums
            /\ Off(last) \in Nat
        <5>1. i - 1 \in 1 .. i - 1
          BY SMTT(20), <2>4, <2>2, <2>6, <3>2
        <5> QED BY <2>2, <2>6, <3>2, <4>2, <5>1 DEF Chain
      <4> HIDE DEF a, b, last
      <4>5. b.begin \in SeqNums /\ Off(b.begin) \in Nat /\ Off(b.begin) <= Horizon
        BY Zenon, <2>2, <4>3, UsedSeg
      <4>6. Off(proc) < Off(b.begin)
        BY SMTT(20), <2>3, <4>3, <4>5, BeforeOff
      <4>7. Off(last) < Off(b.begin)
        <5>1. a.begin # b.begin /\ ~ (Off(b.begin) <= Off(a.begin))
          BY <2>3, <4>4, <4>5, <4>6
        <5> QED BY Zenon, <4>4, <5>1 DEF Follows
      <4>8. Off(proc') < Off(b.begin)
        BY Zenon, <2>1, <4>6, <4>7
      <4>9. ~ NotAfter(b.begin, proc')
        BY SMTT(20), <2>1, <2>3, <4>5, <4>8, BeforeOff
      <4> QED BY Zenon, <4>2, <4>9 DEF b
    <3> QED BY Zenon, <3>1, <3>2
  <2>11. Done
    BY <2>1, <2>10
  <2> QED BY <1>2, <2>1, <2>7, <2>9, <2>11, DoneData
<1> QED BY Zenon, <1>1, <1>2

(* An out of order segment, which may fill the gap after all.              *)
LEMMA CommitOutOfOrderData ==
  ASSUME IInv, IInv', DataInv, CommitOutOfOrder, Off(recv) <= Off(recv')
  PROVE  DataInv'
<1>1. CASE spoiled'
  BY Zenon, <1>1 DEF DataInv
<1>2. CASE ~ spoiled'
  <2> DEFINE s == Insert(segs, Region)
  <2>1. /\ pc = "commit" /\ pkt.len > 0 /\ UNCHANGED read /\ ~ spoiled /\ Done
        /\ \/ /\ Used(s[1]) /\ s[1].begin = seen /\ seen = old
              /\ recv' = s[1].end /\ segs' = MoveDown(s, 2, 1)
           \/ segs' = s /\ recv' = recv
    BY Zenon, <1>2 DEF CommitOutOfOrder, Region, KernelIdle
  <2>2. /\ Chain(segs, recv) /\ AllFilled(right, segs, recv) /\ Received(right, read, recv)
        /\ segs \in Lists(Total) /\ Total \in Nat /\ Total <= Horizon
        /\ recv \in SeqNums /\ Off(recv) \in Nat /\ read \in SeqNums
        /\ MaxSegs \in Nat /\ MaxSegs > 0
        /\ Filled(right, Region, recv)
    BY Zenon, <2>1, DataFacts, Constants DEF DataInv
  <2>3. /\ Region \in Seg(Total) /\ Used(Region) /\ Off(recv) <= Off(Region.begin)
        /\ Off(recv) <= Off(old)
    <3>1. /\ pkt.seq \in SeqNums /\ End \in SeqNums /\ Off(pkt.seq) < Off(End)
          /\ Off(recv) <= Off(old) /\ Off(old) <= Off(pkt.seq) /\ End = proc
          /\ Off(pkt.seq) \in Nat /\ Off(End) \in Nat
      BY Zenon, <2>1, RegionBounds
    <3>2. Off(proc) <= Total /\ Off(old) \in Nat
      <4>1. Held /\ pkt.valid
        BY Zenon, <2>1 DEF Held, IInv, PktInv
      <4> QED BY Zenon, <4>1, Bounds DEF IInv, PktInv
    <3>3. [begin |-> pkt.seq, end |-> End] \in Seg(Total)
      BY Zenon, <3>1, <3>2, MakeSeg
    <3>4. pkt.seq # End /\ Off(recv) <= Off(pkt.seq)
      BY <2>2, <3>1, <3>2
    <3> QED BY Zenon, <3>1, <3>3, <3>4 DEF Region, Used
  <2>4. s \in Lists(Total) /\ Chain(s, recv) /\ AllFilled(right, s, recv)
    <3> HIDE DEF Region
    <3> QED BY Zenon, <2>2, <2>3, InsertList, InsertChain
  <2> HIDE DEF s
  <2>5. CASE segs' = s /\ recv' = recv
    BY Zenon, <1>2, <2>1, <2>2, <2>4, <2>5, DoneData
  <2>6. CASE /\ Used(s[1]) /\ s[1].begin = seen /\ seen = old
             /\ recv' = s[1].end /\ segs' = MoveDown(s, 2, 1)
    <3>1. 2 \in 1 .. MaxSegs + 1 /\ 1 \in 1 .. MaxSegs + 1 /\ 1 \in 1 .. MaxSegs
      BY <2>2
    <3>2. Chain(segs', recv) /\ AllFilled(right, segs', recv)
      BY SMTT(20), <2>4, <2>6, <3>1, MoveDownChain, MoveDownFilled
    <3>3. segs' \in Lists(Total) /\ recv' \in SeqNums
      BY Zenon DEF IInv, TypeInv
    <3>4. Chain(segs', recv') /\ AllFilled(right, segs', recv')
      BY Zenon, <2>2, <3>2, <3>3, AllLater
    <3>5. Off(s[1].begin) <= Off(recv)
      <4>1. Off(seen) <= Off(recv)
        BY Zenon, <2>1 DEF IInv, KernelInv
      <4> QED BY Zenon, <2>6, <4>1
    <3>6. Filled(right, s[1], recv) /\ s[1].begin \in SeqNums
      BY Zenon, <2>4, <2>6, <3>1 DEF AllFilled, Lists, Seg
    <3>7. ASSUME NEW x \in SeqNums, Off(recv) <= Off(x), Off(x) < Off(recv')
          PROVE  x \in right
      <4>1. Off(s[1].begin) <= Off(x)
        BY SMTT(20), <2>2, <3>5, <3>6, <3>7, OffType
      <4> QED BY Zenon, <2>6, <3>6, <3>7, <4>1 DEF Filled
    <3>8. Received(right, read, recv')
      BY Zenon, <2>2, <3>3, <3>7, ReceivedOn
    <3> QED BY Zenon, <1>2, <2>1, <3>4, <3>8, DoneData
  <2> QED BY Zenon, <2>1, <2>5, <2>6
<1> QED BY Zenon, <1>1, <1>2

(* The application takes bytes below recv_seq, which no entry claims.      *)
LEMMA ReadData ==
  ASSUME IInv, IInv', DataInv, NEW n \in 1 .. BufSize, Read(n)
  PROVE  DataInv'
<1>1. CASE spoiled'
  BY Zenon, <1>1 DEF DataInv
<1>2. CASE ~ spoiled'
  <2>1. /\ ~ spoiled /\ UNCHANGED <<recv, segs, pc, pkt>> /\ pc = "idle"
        /\ n <= Sub(recv, read) /\ read' = Add(read, n)
        /\ right' = right \ Span(read, read')
    BY Zenon, <1>2 DEF Read, local
  <2>2. /\ Chain(segs, recv) /\ AllFilled(right, segs, recv) /\ Received(right, read, recv)
        /\ recv \in SeqNums /\ Off(recv) \in Nat /\ read \in SeqNums /\ Off(read) \in Nat
        /\ Off(read) <= Off(recv)
    BY Zenon, <2>1, DataFacts
  <2>3. /\ read' \in SeqNums /\ Off(read') <= Off(recv) /\ Off(read') \in Nat
        /\ Off(read) <= Off(read')
    <3>1. read' \in SeqNums /\ Off(read') <= Off(recv)
      BY Zenon, <2>1 DEF IInv, TypeInv, OrderInv
    <3>2. Off(read) + n <= Off(recv) /\ n \in Nat
      BY <2>1, <2>2, SubOff, Constants
    <3>3. n \in SeqNums /\ Off(read) + n < SeqMod
      BY <2>2, <3>2, OffType, Constants DEF SeqNums
    <3>4. Off(read') = Off(read) + n
      BY Zenon, <2>1, <2>2, <3>3, OffAdd
    <3> QED BY <2>2, <3>1, <3>2, <3>4, OffType
  <2>4. ASSUME NEW x \in SeqNums, x \in right, Off(read') <= Off(x)
        PROVE  x \in right'
    <3>1. ~ (Off(x) < Off(read'))
      BY <2>3, <2>4, OffType
    <3> QED BY Zenon, <2>1, <2>2, <2>3, <2>4, <3>1, SpanOff
  <2>5. Received(right', read', recv')
    <3> SUFFICES ASSUME NEW x \in SeqNums, Off(read') <= Off(x), Off(x) < Off(recv)
                 PROVE  x \in right'
      BY Zenon, <2>1 DEF Received
    <3>1. Off(read) <= Off(x)
      BY <2>2, <2>3, OffType
    <3> QED BY Zenon, <2>2, <2>4, <3>1 DEF Received
  <2>6. \A h \in 1 .. MaxSegs : Used(segs[h]) => Filled(right', segs[h], recv)
    <3> SUFFICES ASSUME NEW h \in 1 .. MaxSegs, Used(segs[h]), NEW x \in SeqNums,
                        Off(segs[h].begin) <= Off(x), Off(recv) <= Off(x),
                        Off(x) < Off(segs[h].end)
                 PROVE  x \in right'
      BY Zenon DEF Filled
    <3>1. x \in right
      BY Zenon, <2>2 DEF AllFilled, Filled
    <3>2. Off(read') <= Off(x)
      BY SMTT(20), <2>2, <2>3, OffType
    <3> QED BY Zenon, <2>4, <3>1, <3>2
  <2> QED BY Zenon, <2>1, <2>2, <2>5, <2>6 DEF DataInv
<1> QED BY Zenon, <1>1, <1>2

(* The kernel delivers the bytes behind recv_seq.                          *)
LEMMA KernelDeliversData ==
  ASSUME IInv, IInv', DataInv, KernelDelivers, Off(recv) <= Off(recv')
  PROVE  DataInv'
<1>1. CASE spoiled'
  BY Zenon, <1>1 DEF DataInv
<1>2. CASE ~ spoiled'
  <2>1. /\ ~ spoiled /\ UNCHANGED <<read, segs, pc, pkt>> /\ kernel # NoLock
        /\ right' = right \cup Span(kernel.from, kernel.to) /\ recv' = kernel.to
    BY Zenon, <1>2 DEF KernelDelivers, local
  <2>2. kernel.from = recv /\ recv' \in SeqNums
    BY Zenon, <2>1 DEF IInv, TypeInv, KernelInv
  <2>3. /\ Chain(segs, recv) /\ Received(right, read, recv)
        /\ segs \in Lists(Total) /\ Total \in Nat
        /\ recv \in SeqNums /\ read \in SeqNums
    BY Zenon, <2>1, DataFacts
  <2>4. \A x \in SeqNums : Off(recv) <= Off(x) /\ Off(x) < Off(recv') => x \in right'
    BY Zenon, <2>1, <2>2, <2>3, SpanOff
  <2>5. Received(right', read', recv')
    <3>1. Received(right', read, recv)
      BY Zenon, <2>1, <2>3 DEF Received
    <3>2. Received(right', read, recv')
      BY <2>2, <2>3, <2>4, <3>1, ReceivedOn
    <3> QED BY Zenon, <2>1, <3>2
  <2>6. ASSUME NEW g, Filled(right, g, recv)
        PROVE  Filled(right', g, recv')
    BY <2>1, <2>2, <2>3, <2>6, FilledLater
  <2>7. Chain(segs', recv')
    BY Zenon, <2>1, <2>2, <2>3, ChainLater
  <2>8. Region' = Region /\ \A h \in 1 .. MaxSegs : Overlaps(segs[h])' <=> Overlaps(segs[h])
    BY Zenon, <2>1 DEF Region, End, Overlaps
  <2>9. ASSUME NEW h \in 1 .. MaxSegs, Used(segs'[h]), ~ (pc' = "abort" /\ Overlaps(segs[h])')
        PROVE  Filled(right', segs'[h], recv')
    BY Zenon, <2>1, <2>6, <2>8, <2>9 DEF DataInv
  <2>10. pc' = "commit" => Filled(right', Region', recv')
    BY Zenon, <2>1, <2>6, <2>8 DEF DataInv
  <2>11. pc' # "assert"
    BY Zenon, <2>1 DEF DataInv
  <2> QED BY Zenon, <2>5, <2>7, <2>9, <2>10, <2>11 DEF DataInv
<1> QED BY Zenon, <1>1, <1>2

(* Every step keeps the data right.                                        *)
LEMMA StepData ==
  ASSUME IInv, DataInv, [Next]_vars
  PROVE  DataInv'
<1>0. IInv' /\ Off(recv) <= Off(recv')
  BY Zenon, StepInv
<1>1. CASE UNCHANGED vars
  <2>1. UNCHANGED <<read, recv, segs, right, spoiled, pc, pkt>>
    BY Zenon, <1>1 DEF vars, local
  <2> QED BY Zenon, <2>1, NoDataStep
<1>2. ASSUME NEW d \in 0 .. Total, NEW n \in 0 .. MaxLen, NEW valid \in BOOLEAN,
             Arrive(Add(First, d), n, valid)
      PROVE  DataInv'
  <2>1. /\ UNCHANGED <<read, recv, segs, right, spoiled>>
        /\ pc = "idle" /\ pc' \in {"body", "lock"}
    BY Zenon, <1>2 DEF Arrive
  <2> QED BY Zenon, <2>1, NoDataStep
<1>3. CASE Lock
  <2>1. /\ UNCHANGED <<read, recv, segs, right, spoiled>>
        /\ pc = "lock" /\ pc' \in {"body", "lock"}
    BY Zenon, <1>3 DEF Lock
  <2> QED BY Zenon, <2>1, NoDataStep
<1>4. ASSUME NEW n \in 1 .. MaxLen, KernelLocks(n)
      PROVE  DataInv'
  <2>1. UNCHANGED <<read, recv, segs, right, spoiled, pc, pkt>>
    BY Zenon, <1>4 DEF KernelLocks, local
  <2> QED BY Zenon, <2>1, NoDataStep
<1>5. CASE ReceiveValid \/ ReceiveInvalid
  BY Zenon, <1>5, ReceiveValidData, ReceiveInvalidData
<1>6. CASE CommitNothing
  BY Zenon, <1>0, <1>6, CommitNothingData
<1>7. CASE CommitInOrder
  BY Zenon, <1>0, <1>7, CommitInOrderData
<1>8. CASE CommitOutOfOrder
  BY <1>0, <1>8, CommitOutOfOrderData
<1>9. CASE AbortSegment
  BY Zenon, <1>0, <1>9, AbortData
<1>10. ASSUME NEW n \in 1 .. BufSize, Read(n)
       PROVE  DataInv'
  BY <1>0, <1>10, ReadData
<1>11. CASE KernelDelivers
  BY Zenon, <1>0, <1>11, KernelDeliversData
<1> QED BY <1>1, <1>2, <1>3, <1>4, <1>5, <1>6, <1>7, <1>8, <1>9, <1>10, <1>11
    DEF Next, Receiving

-----------------------------------------------------------------------------
(* The theorems.                                                           *)

(* read_seq, recv_seq and proc_seq stay in this order and within the ring  *)
(* buffer, whatever exa_tcp_rx_buffer_alloc, commit, abort and the kernel  *)
(* do.                                                                     *)
THEOREM PointersInOrder == Spec => []TypeOK
<1>1. ASSUME IInv PROVE TypeOK
  <2>1. {read, recv, proc, old, seen, kernel.from, kernel.to} \subseteq 0 .. SeqMod - 1
    BY Zenon, <1>1 DEF IInv, TypeInv, SeqNums
  <2>2. Sub(recv, read) <= Sub(proc, read) /\ Sub(proc, read) <= BufSize
    BY SMTT(20), <1>1, SubOff, Bounds, Constants DEF IInv, TypeInv, OrderInv
  <2> QED BY Zenon, <1>1, <2>1, <2>2 DEF TypeOK, IInv, TypeInv
<1> QED BY <1>1, InitInv, StepInv, PTL DEF Spec

(* Every lock is given back: when neither the library nor the kernel       *)
(* processes a segment, proc_seq is recv_seq.                              *)
THEOREM LocksReturned == Spec => []LockReturned
<1>1. ASSUME IInv PROVE LockReturned
  BY Zenon, <1>1 DEF IInv, KernelInv, Base, Held, LockReturned
<1> QED BY <1>1, InitInv, StepInv, PTL DEF Spec

(* recv_seq never goes back, although the library and the kernel both      *)
(* write it without a common lock.                                         *)
THEOREM RecvNeverBack == Spec => RecvAdvances
<1>1. ASSUME IInv, [Next]_vars
      PROVE  IInv' /\ [NotAfter(recv, recv')]_vars
  <2>1. IInv' /\ Off(recv) <= Off(recv')
    BY Zenon, <1>1, StepInv
  <2>2. /\ recv \in SeqNums /\ recv' \in SeqNums
        /\ Off(recv) <= Horizon /\ Off(recv') <= Horizon
    <3>1. Off(recv') <= Total /\ recv' \in SeqNums
      BY Zenon, <2>1 DEF IInv, TypeInv, OrderInv
    <3> QED BY <1>1, <3>1, Bounds, OffType, Constants DEF IInv, TypeInv
  <2>3. NotAfter(recv, recv')
    BY Zenon, <2>1, <2>2, BeforeOff
  <2> QED BY Zenon, <2>1, <2>3
<1> QED BY <1>1, InitInv, PTL DEF Spec, RecvAdvances

(* What recv() may return is what the peer sent, although invalid packets  *)
(* are written into the buffer before exa_tcp_rx_buffer_abort gives them   *)
(* up, and the list of segments is merged and moved in place.              *)
THEOREM ReadableIsSent == Spec => []DataIntact
<1>1. ASSUME IInv, DataInv PROVE DataIntact
  <2> SUFFICES ASSUME ~ spoiled, NEW x \in Span(read, recv) PROVE x \in right
    BY Zenon DEF DataIntact
  <2>1. /\ Received(right, read, recv) /\ read \in SeqNums /\ recv \in SeqNums
        /\ Off(read) <= Off(recv)
    BY Zenon, <1>1, DataFacts
  <2>2. x \in SeqNums /\ Off(read) <= Off(x) /\ Off(x) < Off(recv)
    BY Zenon, <2>1, SpanOff
  <2> QED BY Zenon, <2>1, <2>2 DEF Received
<1> QED BY <1>1, InitInv, InitData, StepInv, StepData, PTL DEF Spec

(* The assertion in exa_tcp_rx_buffer_commit holds: the entry that follows *)
(* the ones an in order segment was merged with begins behind them.        *)
THEOREM CommitAsserts == Spec => []AssertsHold
<1>1. ASSUME DataInv PROVE AssertsHold
  BY Zenon, <1>1 DEF DataInv, AssertsHold
<1> QED BY <1>1, InitInv, InitData, StepInv, StepData, PTL DEF Spec
=============================================================================
