---------------------------- MODULE TxFifoProofs ----------------------------
(***************************************************************************)
(* Proofs about the transmit buffer of TxFifo, for every size of buffer    *)
(* and queue and every sequence of calls: the library never takes a chunk  *)
(* for sent too early, and never writes over one that is still to be sent. *)
(*                                                                         *)
(* Sequence numbers wrap around.  The proofs look at how far a number is   *)
(* behind next_seq: a chunk ages by one when the next one is sent, and a   *)
(* number in use never gets so old that it could be taken for a new one.   *)
(***************************************************************************)
EXTENDS TxFifo, TLAPS

Handles ==
  [offset : 0 .. BufSize, feedbackSeq : Seqs, request : Seqs, rollover : Seqs,
   next : Seqs, need : BOOLEAN]
Slots == [0 .. QueueLen - 1 -> 0 .. BufSize]
Cmds == [at : 0 .. BufSize, size : Nat, seq : Seqs, need : BOOLEAN]

\* How many chunks ago the number x was given.
Age(t, x) == Diff(t.next, x)

\* Of a handle t, a report w and the chunks cs that are to be sent: they are the
\* youngest, and younger than any that was reported.
AgeInv(t, w, cs) ==
  /\ Len(cs) < Age(t, w) /\ Age(t, w) <= Age(t, t.feedbackSeq)
  /\ Age(t, t.feedbackSeq) <= QueueLen
  /\ \A i \in 1 .. Len(cs) : Age(t, cs[i].seq) = Len(cs) - i + 1

\* Chunks of the ages a and b, a the younger, lie on one lap of the buffer.
OneLap(t, a, b) == b <= Age(t, t.rollover) \/ Age(t, t.rollover) < a

\* On one lap a chunk starts at least where an older one ended, and the next
\* chunk where the youngest ended.  o are the ends of chunks.
PlaceInv(t, o, cs) ==
  /\ Age(t, t.rollover) <= t.offset
  /\ \A i \in 1 .. Len(cs) :
       Age(t, cs[i].seq) <= Age(t, t.rollover) => cs[i].at + cs[i].size <= t.offset
  /\ \A s \in Seqs : Age(t, s) \in 1 .. Age(t, t.feedbackSeq) =>
       /\ Age(t, s) <= Age(t, t.rollover) => o[s % QueueLen] <= t.offset
       /\ \A i \in 1 .. Len(cs) :
            Age(t, cs[i].seq) < Age(t, s) /\ OneLap(t, Age(t, cs[i].seq), Age(t, s))
              => o[s % QueueLen] <= cs[i].at

\* A chunk of n lines touches none that is to be sent.
Apart(t, n, cs) ==
  \A i \in 1 .. Len(cs) : \/ t.offset + n <= cs[i].at
                          \/ cs[i].at + cs[i].size <= t.offset

TypeInv ==
  /\ tx \in Handles /\ offsets \in Slots /\ feedback \in Seqs
  /\ cmds \in Seq(Cmds) /\ size \in Nat
  /\ pc \in {"idle", "seq", "space", "write"}
  /\ refused \in BOOLEAN /\ clean \in BOOLEAN
  /\ pc # "idle" => size > 0
  /\ pc = "write" => tx.offset + size <= BufSize

CleanInv ==
  /\ AgeInv(tx, feedback, cmds) /\ PlaceInv(tx, offsets, cmds)
  /\ pc \in {"space", "write"} => Age(tx, tx.feedbackSeq) < QueueLen
  /\ pc = "write" => Apart(tx, size, cmds)

IInv == TypeInv /\ (clean => CleanInv)
-----------------------------------------------------------------------------
(* Arithmetic of sequence numbers.                                         *)

(* What the arithmetic needs of the constants.                             *)
LEMMA Constants ==
  /\ BufSize \in Nat /\ QueueLen \in Nat /\ QueueLen > 1
  /\ SeqMod \in Nat /\ SeqMod > BufSize /\ SeqMod >= 2 * QueueLen
  /\ SeqMod > QueueLen + 1
BY TxAssumption

(* Diff stays within the sequence numbers, and what it computes.           *)
LEMMA DiffCases ==
  ASSUME NEW a \in Seqs, NEW b \in Seqs
  PROVE  /\ Diff(a, b) \in Seqs
         /\ Diff(a, b) = IF b <= a THEN a - b ELSE a - b + SeqMod
<1>1. CASE b <= a
  <2>1. a - b \in Int /\ 0 <= a - b /\ a - b < SeqMod
    BY <1>1, Constants DEF Seqs
  <2>2. \A x \in Int : 0 <= x /\ x < SeqMod => x % SeqMod = x
    BY Constants
  <2> QED BY <1>1, <2>1, <2>2, Constants DEF Diff, Seqs
<1>2. CASE ~ (b <= a)
  <2>1. a - b \in Int /\ -SeqMod <= a - b /\ a - b < 0
    BY <1>2, Constants DEF Seqs
  <2>2. \A x \in Int : -SeqMod <= x /\ x < 0 => x % SeqMod = x + SeqMod
    BY Constants
  <2>3. (a - b) % SeqMod = (a - b) + SeqMod
    BY Zenon, <2>1, <2>2
  <2> QED BY <1>2, <2>3, Constants DEF Diff, Seqs
<1> QED BY Zenon, <1>1, <1>2

(* The number after a: it is a sequence number, and a is one behind it.    *)
LEMMA NextSeq ==
  ASSUME NEW a \in Seqs
  PROVE  /\ (a + 1) % SeqMod \in Seqs
         /\ (a + 1) % SeqMod = IF a + 1 = SeqMod THEN 0 ELSE a + 1
<1>1. CASE a + 1 = SeqMod
  BY <1>1, Constants DEF Seqs
<1>2. CASE a + 1 # SeqMod
  BY <1>2, Constants DEF Seqs
<1> QED BY Zenon, <1>1, <1>2

(* When next_seq moves on, everything gets older by one.                   *)
LEMMA Aging ==
  ASSUME NEW a \in Seqs, NEW b \in Seqs
  PROVE  /\ Diff(a, b) < SeqMod - 1 => Diff((a + 1) % SeqMod, b) = Diff(a, b) + 1
         /\ Diff((a + 1) % SeqMod, a) = 1
         /\ Diff(a, a) = 0
         /\ Diff((a + 1) % SeqMod, b) # 0 => Diff((a + 1) % SeqMod, b) = Diff(a, b) + 1
<1> DEFINE n == (a + 1) % SeqMod
<1>1. n \in Seqs /\ n = IF a + 1 = SeqMod THEN 0 ELSE a + 1
  BY Zenon, NextSeq
<1>2. Diff(a, b) = IF b <= a THEN a - b ELSE a - b + SeqMod
  BY Zenon, DiffCases
<1>5. Diff(a, a) = 0
  <2>1. Diff(a, a) = IF a <= a THEN a - a ELSE a - a + SeqMod
    BY Zenon, DiffCases
  <2> QED BY <2>1 DEF Seqs
<1> HIDE DEF n
<1>3. /\ Diff(n, b) = IF b <= n THEN n - b ELSE n - b + SeqMod
      /\ Diff(n, a) = IF a <= n THEN n - a ELSE n - a + SeqMod
  BY Zenon, <1>1, DiffCases
<1>4. /\ Diff(a, b) < SeqMod - 1 => Diff(n, b) = Diff(a, b) + 1
      /\ Diff(n, a) = 1
      /\ Diff(n, b) # 0 => Diff(n, b) = Diff(a, b) + 1
  BY <1>1, <1>2, <1>3, Constants DEF Seqs
<1> QED BY Zenon, <1>5, <1>4 DEF n

(* Division with remainder, and the multiples of a number.                 *)
LEMMA Division ==
  ASSUME NEW x \in Int, NEW M \in Nat, M > 0
  PROVE  /\ x \div M \in Int /\ x % M \in Int
         /\ x = M * (x \div M) + (x % M)
OBVIOUS

(* Products distribute over differences and sums.                          *)
LEMMA Distribute ==
  ASSUME NEW M \in Int, NEW x \in Int, NEW y \in Int
  PROVE  M * (x - y) = M * x - M * y /\ M * (x + y) = M * x + M * y
OBVIOUS

(* The slots of feedback_offsets of numbers less than queue_len apart are  *)
(* different ones.                                                         *)
LEMMA OtherSlot ==
  ASSUME NEW a \in Seqs, NEW b \in Seqs, Diff(a, b) > 0, Diff(a, b) < QueueLen
  PROVE  a % QueueLen # b % QueueLen
<1> DEFINE Q == QueueLen
<1> DEFINE u == a \div Q
<1> DEFINE v == b \div Q
<1> DEFINE k == SeqMod \div Q
<1>1. /\ Q \in Nat /\ Q > 1 /\ u \in Int /\ v \in Int /\ k \in Int
      /\ a \in Int /\ b \in Int /\ a % Q \in Int /\ b % Q \in Int
  BY Constants DEF Seqs
<1>2. a = Q * u + (a % Q) /\ b = Q * v + (b % Q)
  BY Division, Constants DEF Seqs
<1>3. SeqMod = Q * k
  BY Constants, TxAssumption
<1>4. Diff(a, b) = IF b <= a THEN a - b ELSE a - b + SeqMod
  BY Zenon, DiffCases
<1> HIDE DEF Q, u, v, k
<1>5. SUFFICES ASSUME a % Q = b % Q PROVE FALSE
  BY Zenon DEF Q
<1>6. a - b = Q * (u - v)
  <2> DEFINE ra == a % Q
  <2> DEFINE qu == Q * u
  <2> DEFINE qv == Q * v
  <2>1. qu \in Int /\ qv \in Int /\ Q * (u - v) = qu - qv
    BY <1>1, Distribute
  <2>2. a = qu + ra /\ b = qv + ra /\ ra \in Int
    BY Zenon, <1>1, <1>2, <1>5
  <2> HIDE DEF qu, qv, ra
  <2> QED BY <2>1, <2>2, <1>1
<1>7. (a - b) + SeqMod = Q * ((u - v) + k)
  <2>1. u - v \in Int
    BY <1>1
  <2> QED BY <1>1, <1>3, <1>6, <2>1, Distribute
<1>8. \A z \in Int : Q * z <= 0 \/ Q * z >= Q
  <2> TAKE z \in Int
  <2>1. CASE z <= 0
    BY <2>1, <1>1
  <2>2. CASE z >= 1
    BY <2>2, <1>1
  <2> QED BY <2>1, <2>2
<1>9. Diff(a, b) <= 0 \/ Diff(a, b) >= Q
  BY <1>1, <1>4, <1>6, <1>7, <1>8
<1>10. Diff(a, b) \in Int /\ QueueLen = Q
  BY DiffCases, Constants DEF Q, Seqs
<1> QED BY <1>1, <1>9, <1>10

(* The fields of a handle.                                                 *)
LEMMA HandleType ==
  ASSUME NEW t \in Handles
  PROVE  /\ t.offset \in Nat /\ t.offset <= BufSize /\ t.feedbackSeq \in Seqs
         /\ t.request \in Seqs /\ t.rollover \in Seqs /\ t.next \in Seqs
BY Constants DEF Handles

(* The entries of a sequence are of its type.                              *)
LEMMA Entry ==
  ASSUME NEW S, NEW cs \in Seq(S), NEW i \in 1 .. Len(cs)
  PROVE  cs[i] \in S /\ Len(cs) \in Nat /\ i \in Nat
OBVIOUS

(* The fields of a chunk that is to be sent.                               *)
LEMMA CmdType ==
  ASSUME NEW cs \in Seq(Cmds), NEW i \in 1 .. Len(cs)
  PROVE  /\ cs[i].at \in Nat /\ cs[i].size \in Nat /\ cs[i].seq \in Seqs
         /\ Len(cs) \in Nat /\ i \in Nat
<1>1. cs[i] \in Cmds /\ Len(cs) \in Nat /\ i \in Nat
  BY Zenon, Entry
<1> QED BY <1>1, Constants DEF Cmds

(* Ages are numbers, and next_seq itself has none.                         *)
LEMMA AgeType ==
  ASSUME NEW t \in Handles, NEW x \in Seqs
  PROVE  /\ Age(t, x) \in Nat /\ Age(t, x) < SeqMod
         /\ Age(t, t.next) = 0
<1>1. t.next \in Seqs
  BY Zenon, HandleType
<1>2. Diff(t.next, x) \in Seqs /\ Diff(t.next, t.next) = 0
  BY Zenon, <1>1, DiffCases, Aging
<1> QED BY <1>2, Constants DEF Age, Seqs

(* What a slot of feedback_offsets holds.                                  *)
LEMMA SlotType ==
  ASSUME NEW o \in Slots, NEW x \in Seqs
  PROVE  /\ x % QueueLen \in 0 .. QueueLen - 1
         /\ o[x % QueueLen] \in Nat /\ o[x % QueueLen] <= BufSize
<1>1. x % QueueLen \in 0 .. QueueLen - 1
  BY Constants DEF Seqs
<1>2. o[x % QueueLen] \in 0 .. BufSize
  BY Zenon, <1>1 DEF Slots
<1> QED BY <1>1, <1>2, Constants

-----------------------------------------------------------------------------
(* What the operations do to ages and places.                              *)

(* A handle that was just acquired.                                        *)
LEMMA FreshInv ==
  /\ Acquired \in Handles /\ NoOffsets \in Slots /\ 0 \in Seqs
  /\ AgeInv(Acquired, 0, <<>>) /\ PlaceInv(Acquired, NoOffsets, <<>>)
<1>1. Acquired \in Handles /\ NoOffsets \in Slots /\ 0 \in Seqs /\ 1 \in Seqs
  BY Constants DEF Acquired, Handles, NoOffsets, Slots, Seqs
<1>2. Diff(1, 0) = 1 /\ Diff(1, 1) = 0
  BY <1>1, DiffCases
<1>3. AgeInv(Acquired, 0, <<>>)
  BY <1>2, Constants DEF AgeInv, Acquired, Age
<1>4. PlaceInv(Acquired, NoOffsets, <<>>)
  <2>1. Age(Acquired, Acquired.rollover) = 0 /\ Acquired.offset = 0
    BY Zenon, <1>2 DEF Acquired, Age
  <2> QED BY <2>1, <1>1, AgeType DEF PlaceInv
<1> QED BY Zenon, <1>1, <1>3, <1>4

(* Turning to the start of the buffer when nothing older than the report   *)
(* lies ahead.                                                             *)
LEMMA TurnInv ==
  ASSUME NEW t \in Handles, NEW u \in Handles, NEW w \in Seqs, NEW o \in Slots,
         NEW cs \in Seq(Cmds), AgeInv(t, w, cs), PlaceInv(t, o, cs), NotWrapped(t),
         u.offset = 0, u.rollover = t.next, u.next = t.next,
         u.feedbackSeq = t.feedbackSeq
  PROVE  AgeInv(u, w, cs) /\ PlaceInv(u, o, cs)
<1>1. \A x : Age(u, x) = Age(t, x)
  BY Zenon DEF Age
<1>2. AgeInv(u, w, cs)
  BY Zenon, <1>1 DEF AgeInv
<1>3. Age(u, u.rollover) = 0
  BY Zenon, <1>1, AgeType
<1>4. \A i \in 1 .. Len(cs) : /\ cs[i].seq \in Seqs
                             /\ Age(t, cs[i].seq) \in Nat /\ Age(t, cs[i].seq) > 0
  <2> TAKE i \in 1 .. Len(cs)
  <2>1. cs[i].seq \in Seqs /\ Len(cs) \in Nat /\ i \in Nat
    BY Zenon, CmdType
  <2> QED BY <2>1, AgeType DEF AgeInv
<1>5. ASSUME NEW s \in Seqs, Age(t, s) \in 1 .. Age(t, t.feedbackSeq)
      PROVE  Age(t, s) <= Age(t, t.rollover)
  BY <1>5, AgeType DEF NotWrapped, Age, Handles
<1>6. PlaceInv(u, o, cs)
  BY <1>1, <1>3, <1>4, <1>5, AgeType DEF PlaceInv, OneLap
<1> QED BY Zenon, <1>2, <1>6

(* The report is taken over: exanic_update_tx_feedback does not fail.      *)
LEMMA ReportInv ==
  ASSUME NEW t \in Handles, NEW u \in Handles, NEW w \in Seqs, NEW o \in Slots,
         NEW cs \in Seq(Cmds), AgeInv(t, w, cs), PlaceInv(t, o, cs),
         u.offset = t.offset, u.rollover = t.rollover, u.next = t.next,
         u.feedbackSeq = w
  PROVE  AgeInv(u, w, cs) /\ PlaceInv(u, o, cs)
<1>1. \A x : Age(u, x) = Age(t, x)
  BY Zenon DEF Age
<1>2. /\ Age(t, w) \in Nat /\ Age(t, t.feedbackSeq) \in Nat
      /\ Age(t, w) <= Age(t, t.feedbackSeq) /\ Age(t, t.feedbackSeq) <= QueueLen
  BY Zenon, AgeType DEF AgeInv, Handles
<1>3. AgeInv(u, w, cs)
  BY <1>1, <1>2, Constants DEF AgeInv
<1>4. ASSUME NEW s \in Seqs, Age(t, s) \in 1 .. Age(t, w)
      PROVE  Age(t, s) \in 1 .. Age(t, t.feedbackSeq)
  BY <1>2, <1>4
<1>5. PlaceInv(u, o, cs)
  BY <1>1, <1>4 DEF PlaceInv, OneLap
<1> QED BY Zenon, <1>3, <1>5

(* Where a chunk fits it touches none that is to be sent.                  *)
LEMMA FitsApart ==
  ASSUME NEW t \in Handles, NEW w \in Seqs, NEW o \in Slots,
         NEW cs \in Seq(Cmds), AgeInv(t, w, cs), PlaceInv(t, o, cs), NEW n \in Nat,
         t.offset + n <= IF NotWrapped(t) THEN BufSize ELSE o[t.feedbackSeq % QueueLen]
  PROVE  Apart(t, n, cs)
<1> SUFFICES ASSUME NEW i \in 1 .. Len(cs)
             PROVE  t.offset + n <= cs[i].at \/ cs[i].at + cs[i].size <= t.offset
  BY Zenon DEF Apart
<1> DEFINE a == Age(t, cs[i].seq)
<1> DEFINE f == Age(t, t.feedbackSeq)
<1> DEFINE r == Age(t, t.rollover)
<1>1. /\ cs[i].seq \in Seqs /\ cs[i].at \in Nat /\ cs[i].size \in Nat
      /\ t.offset \in Nat /\ t.feedbackSeq \in Seqs /\ t.rollover \in Seqs
      /\ Len(cs) \in Nat /\ i \in Nat
  BY Zenon, CmdType, HandleType
<1>2. a \in Nat /\ f \in Nat /\ r \in Nat /\ a < f /\ Age(t, w) \in Nat
  <2>1. a \in Nat /\ f \in Nat /\ r \in Nat /\ Age(t, w) \in Nat
    BY Zenon, <1>1, AgeType
  <2>2. Len(cs) < Age(t, w) /\ Age(t, w) <= f /\ a = Len(cs) - i + 1
    BY Zenon DEF AgeInv
  <2> DEFINE g == Age(t, w)
  <2> DEFINE m == Len(cs)
  <2>3. g \in Nat /\ m \in Nat /\ m < g /\ g <= f /\ a = m - i + 1 /\ i >= 1
    BY <2>1, <2>2, <1>1
  <2> HIDE DEF a, f, g, m
  <2>4. a < f
    BY <2>1, <2>3, <1>1
  <2> QED BY Zenon, <2>1, <2>4
<1>3. CASE a <= r
  BY Zenon, <1>3, <1>1 DEF PlaceInv
<1>4. CASE ~ (a <= r)
  <2>1. ~ NotWrapped(t)
    BY <1>4, <1>2 DEF NotWrapped, Age
  <2>2. o[t.feedbackSeq % QueueLen] <= cs[i].at
    <3>1. f \in 1 .. f /\ OneLap(t, a, f) /\ a < f
      BY <1>2, <1>4 DEF OneLap
    <3> QED BY Zenon, <3>1, <1>1 DEF PlaceInv
  <2>3. o[t.feedbackSeq % QueueLen] \in Nat
    BY Zenon, <1>1, SlotType
  <2> QED BY <2>1, <2>2, <2>3, <1>1
<1> QED BY Zenon, <1>3, <1>4

(* The adapter sends the oldest chunk and reports it or not.               *)
LEMMA AdapterInv ==
  ASSUME NEW t \in Handles, NEW w \in Seqs, NEW o \in Slots,
         NEW cs \in Seq(Cmds), AgeInv(t, w, cs), PlaceInv(t, o, cs), cs # <<>>,
         NEW v, v = w \/ v = Head(cs).seq
  PROVE  AgeInv(t, v, Tail(cs)) /\ PlaceInv(t, o, Tail(cs)) /\ v \in Seqs
<1> DEFINE n == Len(cs)
<1> DEFINE rest == Tail(cs)
<1>1. n \in Nat /\ n >= 1 /\ Len(rest) = n - 1 /\ Head(cs) = cs[1]
  OBVIOUS
<1>2. \A i \in 1 .. Len(rest) : i + 1 \in 1 .. n /\ rest[i] = cs[i + 1]
  OBVIOUS
<1>3. cs[1].seq \in Seqs /\ Age(t, cs[1].seq) = n
  <2>1. 1 \in 1 .. Len(cs)
    BY <1>1
  <2> QED BY <2>1, <1>1, CmdType DEF AgeInv
<1>4. /\ Age(t, w) \in Nat /\ Age(t, t.feedbackSeq) \in Nat
      /\ n < Age(t, w) /\ Age(t, w) <= Age(t, t.feedbackSeq)
      /\ Age(t, t.feedbackSeq) <= QueueLen
  BY Zenon, AgeType, HandleType DEF AgeInv
<1>5. \A i \in 1 .. n : Age(t, cs[i].seq) = n - i + 1
  BY Zenon DEF AgeInv
<1> HIDE DEF n, rest
<1>6. v \in Seqs /\ n <= Age(t, v) /\ Age(t, v) <= Age(t, t.feedbackSeq)
  BY <1>1, <1>3, <1>4, Constants
<1>7. \A i \in 1 .. Len(rest) : Age(t, rest[i].seq) = Len(rest) - i + 1
  <2> TAKE i \in 1 .. Len(rest)
  <2>1. i \in Nat /\ i + 1 \in 1 .. n /\ rest[i] = cs[i + 1]
    BY <1>1, <1>2
  <2>2. Age(t, cs[i + 1].seq) = n - (i + 1) + 1
    BY Zenon, <2>1, <1>5
  <2>3. n - (i + 1) + 1 = Len(rest) - i + 1
    BY <2>1, <1>1
  <2> QED BY Zenon, <2>1, <2>2, <2>3
<1>8. AgeInv(t, v, rest)
  <2>1. Age(t, v) \in Nat
    BY Zenon, <1>6, AgeType
  <2> QED BY <2>1, <1>1, <1>4, <1>6, <1>7, Constants DEF AgeInv
<1>9. PlaceInv(t, o, rest)
  <2>1. \A i \in 1 .. Len(rest) :
          Age(t, rest[i].seq) <= Age(t, t.rollover) => rest[i].at + rest[i].size <= t.offset
    BY Zenon, <1>2 DEF PlaceInv, n
  <2>2. \A s \in Seqs : Age(t, s) \in 1 .. Age(t, t.feedbackSeq) =>
          \A i \in 1 .. Len(rest) :
            Age(t, rest[i].seq) < Age(t, s) /\ OneLap(t, Age(t, rest[i].seq), Age(t, s))
              => o[s % QueueLen] <= rest[i].at
    BY Zenon, <1>2 DEF PlaceInv, n
  <2> QED BY Zenon, <2>1, <2>2 DEF PlaceInv
<1> QED BY Zenon, <1>6, <1>8, <1>9 DEF rest

(* A chunk of n lines is given to the adapter.                             *)
LEMMA SentInv ==
  ASSUME NEW t \in Handles, NEW u \in Handles, NEW w \in Seqs, NEW o \in Slots,
         NEW cs \in Seq(Cmds), AgeInv(t, w, cs), PlaceInv(t, o, cs),
         Age(t, t.feedbackSeq) < QueueLen,
         NEW n \in Nat, n >= 1, t.offset + n <= BufSize, NEW b \in BOOLEAN,
         u.offset = t.offset + n, u.next = (t.next + 1) % SeqMod,
         u.rollover = t.rollover, u.feedbackSeq = t.feedbackSeq
  PROVE  LET cs2 == Append(cs, [at |-> t.offset, size |-> n, seq |-> t.next, need |-> b])
             o2 == [o EXCEPT ![t.next % QueueLen] = t.offset + n]
         IN  /\ cs2 \in Seq(Cmds) /\ o2 \in Slots
             /\ AgeInv(u, w, cs2) /\ PlaceInv(u, o2, cs2)
<1> DEFINE c == [at |-> t.offset, size |-> n, seq |-> t.next, need |-> b]
<1> DEFINE cs2 == Append(cs, c)
<1> DEFINE o2 == [o EXCEPT ![t.next % QueueLen] = t.offset + n]
<1> DEFINE L == Len(cs)
<1>1. /\ t.offset \in Nat /\ t.next \in Seqs /\ t.rollover \in Seqs
      /\ t.feedbackSeq \in Seqs /\ t.offset <= BufSize
  BY Zenon, HandleType
<1>2. c \in Cmds /\ c.at = t.offset /\ c.size = n /\ c.seq = t.next
  BY <1>1, Constants DEF Cmds
<1> HIDE DEF c
<1>3. /\ cs2 \in Seq(Cmds) /\ L \in Nat /\ Len(cs2) = L + 1 /\ cs2[L + 1] = c
      /\ \A i \in 1 .. L : cs2[i] = cs[i]
  BY <1>2
<1>4. o2 \in Slots /\ o2[t.next % QueueLen] = t.offset + n
  <2>1. t.next % QueueLen \in 0 .. QueueLen - 1
    BY Zenon, <1>1, SlotType
  <2> DEFINE p == t.offset
  <2>2. p \in Nat /\ p + n <= BufSize
    BY Zenon, <1>1
  <2> HIDE DEF p
  <2>3. p + n \in 0 .. BufSize
    BY <2>2, Constants
  <2> QED BY Zenon, <2>1, <2>3 DEF Slots, p
<1>5. /\ \A x \in Seqs : Age(t, x) < SeqMod - 1 => Age(u, x) = Age(t, x) + 1
      /\ \A x \in Seqs : Age(u, x) # 0 => Age(u, x) = Age(t, x) + 1
      /\ Age(u, t.next) = 1
  BY <1>1, Aging DEF Age
<1>6. \A x \in Seqs : Age(t, x) \in Nat /\ Age(u, x) \in Nat
  BY Zenon, AgeType
<1>7. /\ Age(u, t.rollover) = Age(t, t.rollover) + 1
      /\ Age(t, t.rollover) <= t.offset
  <2>1. Age(t, t.rollover) <= t.offset
    BY Zenon DEF PlaceInv
  <2> DEFINE r == Age(t, t.rollover)
  <2> DEFINE p == t.offset
  <2>2. r \in Nat /\ p \in Nat /\ r <= p /\ p + n <= BufSize
    BY Zenon, <2>1, <1>1, <1>6
  <2> HIDE DEF r, p
  <2>3. r < SeqMod - 1
    BY <2>2, Constants
  <2> QED BY Zenon, <2>1, <2>3, <1>1, <1>5 DEF r
<1>8. /\ L < Age(t, w) /\ Age(t, w) <= Age(t, t.feedbackSeq)
      /\ \A i \in 1 .. L : Age(t, cs[i].seq) = L - i + 1
  BY Zenon DEF AgeInv
<1>9. /\ Age(u, w) = Age(t, w) + 1
      /\ Age(u, t.feedbackSeq) = Age(t, t.feedbackSeq) + 1
  <2> DEFINE g == Age(t, w)
  <2> DEFINE f == Age(t, t.feedbackSeq)
  <2>1. g \in Nat /\ f \in Nat /\ g <= f /\ f < QueueLen
    BY Zenon, <1>1, <1>6, <1>8
  <2> HIDE DEF g, f
  <2>2. g < SeqMod - 1 /\ f < SeqMod - 1
    BY <2>1, Constants
  <2> QED BY Zenon, <2>2, <1>1, <1>5 DEF g, f
<1>10. \A i \in 1 .. L : /\ Age(u, cs[i].seq) = Age(t, cs[i].seq) + 1
                          /\ Age(t, cs[i].seq) \in Nat /\ Age(t, cs[i].seq) >= 1
                          /\ cs[i].at \in Nat /\ cs[i].size \in Nat
  <2> TAKE i \in 1 .. L
  <2>1. /\ cs[i].seq \in Seqs /\ i \in Nat /\ cs[i].at \in Nat /\ cs[i].size \in Nat
    BY Zenon, CmdType
  <2>2. Age(t, cs[i].seq) \in Nat /\ Age(t, cs[i].seq) >= 1 /\ Age(t, cs[i].seq) <= L
    BY <2>1, <1>3, <1>6, <1>8
  <2>3. Age(t, cs[i].seq) < SeqMod - 1
    <3> DEFINE a == Age(t, cs[i].seq)
    <3> DEFINE g == Age(t, w)
    <3> DEFINE f == Age(t, t.feedbackSeq)
    <3>1. /\ a \in Nat /\ g \in Nat /\ f \in Nat /\ L \in Nat
          /\ a <= L /\ L < g /\ g <= f /\ f < QueueLen
      BY Zenon, <2>2, <1>1, <1>3, <1>6, <1>8
    <3> HIDE DEF a, g, f, L
    <3>2. a < SeqMod - 1
      BY <3>1, Constants
    <3> QED BY Zenon, <3>2 DEF a
  <2> QED BY Zenon, <2>1, <2>2, <2>3, <1>5
<1> HIDE DEF cs2, o2, L
<1>11. AgeInv(u, w, cs2)
  <2>1. ASSUME NEW i \in 1 .. L + 1 PROVE Age(u, cs2[i].seq) = L + 1 - i + 1
    <3>1. CASE i = L + 1
      BY <3>1, <1>2, <1>3, <1>5
    <3>2. CASE i \in 1 .. L
      <4>1. cs2[i] = cs[i] /\ i \in Nat
        BY <3>2, <1>3
      <4>2. Age(u, cs[i].seq) = Age(t, cs[i].seq) + 1 /\ Age(t, cs[i].seq) = L - i + 1
        BY Zenon, <3>2, <1>8, <1>10
      <4> QED BY <4>1, <4>2, <1>3
    <3> QED BY <3>1, <3>2, <1>3
  <2>2. /\ L + 1 < Age(u, w) /\ Age(u, w) <= Age(u, u.feedbackSeq)
        /\ Age(u, u.feedbackSeq) <= QueueLen
    <3>1. Age(t, w) \in Nat /\ Age(t, t.feedbackSeq) \in Nat
      BY Zenon, <1>1, <1>6
    <3> QED BY <3>1, <1>3, <1>8, <1>9, Constants
  <2> QED BY <2>1, <2>2, <1>3 DEF AgeInv
<1>12. ASSUME NEW i \in 1 .. L + 1, Age(u, cs2[i].seq) <= Age(u, u.rollover)
       PROVE  cs2[i].at + cs2[i].size <= u.offset
  <2>1. CASE i = L + 1
    BY <2>1, <1>1, <1>2, <1>3
  <2>2. CASE i \in 1 .. L
    <3>1. Age(t, cs[i].seq) <= Age(t, t.rollover)
      <4>1. /\ cs2[i] = cs[i] /\ Age(u, cs[i].seq) = Age(t, cs[i].seq) + 1
            /\ Age(t, cs[i].seq) \in Nat
        BY Zenon, <2>2, <1>3, <1>10
      <4>2. Age(t, t.rollover) \in Nat /\ Age(u, u.rollover) = Age(t, t.rollover) + 1
        BY Zenon, <1>1, <1>6, <1>7
      <4> QED BY <4>1, <4>2, <1>12
    <3>2. cs[i].at + cs[i].size <= t.offset
      BY Zenon, <2>2, <3>1 DEF PlaceInv, L
    <3>3. cs2[i] = cs[i] /\ cs[i].at \in Nat /\ cs[i].size \in Nat
      BY Zenon, <2>2, <1>3, <1>10
    <3> QED BY <3>2, <3>3, <1>1
  <2> QED BY <2>1, <2>2, <1>3
<1>13. ASSUME NEW s \in Seqs, Age(u, s) \in 1 .. Age(u, t.feedbackSeq)
       PROVE  /\ Age(u, s) <= Age(u, u.rollover) => o2[s % QueueLen] <= u.offset
              /\ \A i \in 1 .. L + 1 :
                   Age(u, cs2[i].seq) < Age(u, s)
                     /\ OneLap(u, Age(u, cs2[i].seq), Age(u, s))
                       => o2[s % QueueLen] <= cs2[i].at
  <2>1. Age(u, s) = Age(t, s) + 1 /\ Age(t, s) \in Nat
        /\ Age(t, s) <= Age(t, t.feedbackSeq) /\ Age(t, t.feedbackSeq) \in Nat
    <3> DEFINE f == Age(t, t.feedbackSeq)
    <3> DEFINE old == Age(t, s)
    <3> DEFINE age == Age(u, s)
    <3>1. f \in Nat /\ old \in Nat /\ age \in Nat /\ (age # 0 => age = old + 1)
      BY Zenon, <1>1, <1>5, <1>6
    <3>2. age \in 1 .. f + 1
      BY Zenon, <1>9, <1>13
    <3> HIDE DEF f, old, age
    <3>3. age = old + 1 /\ old <= f
      BY <3>1, <3>2
    <3> QED BY Zenon, <3>1, <3>3 DEF f, old, age
  <2>2. CASE Age(t, s) = 0
    <3>1. s = t.next
      <4>1. Diff(t.next, s) = IF s <= t.next THEN t.next - s ELSE t.next - s + SeqMod
        BY Zenon, <1>1, DiffCases
      <4>2. Diff(t.next, s) = 0
        BY Zenon, <2>2 DEF Age
      <4> DEFINE x == t.next
      <4>3. x \in Seqs /\ 0 = IF s <= x THEN x - s ELSE x - s + SeqMod
        BY Zenon, <4>1, <4>2, <1>1
      <4> HIDE DEF x
      <4>4. s = x
        BY <4>3, Constants DEF Seqs
      <4> QED BY Zenon, <4>4 DEF x
    <3>2. \A i \in 1 .. L + 1 : ~ (Age(u, cs2[i].seq) < Age(u, s))
      <4> TAKE i \in 1 .. L + 1
      <4>1. CASE i = L + 1
        BY <4>1, <1>2, <1>3, <1>5, <2>1, <2>2
      <4>2. CASE i \in 1 .. L
        <5>1. /\ cs2[i] = cs[i] /\ Age(u, cs[i].seq) = Age(t, cs[i].seq) + 1
              /\ Age(t, cs[i].seq) \in Nat /\ Age(t, cs[i].seq) >= 1
          BY Zenon, <4>2, <1>3, <1>10
        <5> QED BY <5>1, <2>1, <2>2
      <4> QED BY <4>1, <4>2, <1>3
    <3>3. o2[s % QueueLen] <= u.offset
      <4>1. o2[s % QueueLen] = u.offset /\ u.offset \in Nat
        BY <3>1, <1>1, <1>4
      <4> QED BY <4>1
    <3> QED BY <3>2, <3>3, Zenon
  <2>3. CASE Age(t, s) # 0
    <3>1. Age(t, s) \in 1 .. Age(t, t.feedbackSeq) /\ Age(t, s) < QueueLen
      BY <2>1, <2>3, Constants
    <3>2. t.next % QueueLen # s % QueueLen
      BY <3>1, <1>1, OtherSlot DEF Age
    <3>3. o2[s % QueueLen] = o[s % QueueLen] /\ o[s % QueueLen] \in Nat
      <4>1. s % QueueLen \in 0 .. QueueLen - 1 /\ o[s % QueueLen] \in Nat
        BY Zenon, SlotType
      <4> QED BY Zenon, <4>1, <3>2 DEF o2, Slots
    <3>4. Age(u, s) <= Age(u, u.rollover) => o[s % QueueLen] <= t.offset
      <4>1. Age(u, s) <= Age(u, u.rollover) => Age(t, s) <= Age(t, t.rollover)
        <5>1. /\ Age(t, t.rollover) \in Nat
              /\ Age(u, u.rollover) = Age(t, t.rollover) + 1
          BY Zenon, <1>1, <1>6, <1>7
        <5> DEFINE a == Age(t, s)
        <5> DEFINE r == Age(t, t.rollover)
        <5>2. a \in Nat /\ r \in Nat /\ Age(u, s) = a + 1 /\ Age(u, u.rollover) = r + 1
          BY Zenon, <5>1, <2>1
        <5> HIDE DEF a, r
        <5>3. a + 1 <= r + 1 => a <= r
          BY <5>2
        <5> QED BY Zenon, <5>2, <5>3 DEF a, r
      <4> QED BY Zenon, <4>1, <3>1 DEF PlaceInv
    <3>5. ASSUME NEW i \in 1 .. L + 1, Age(u, cs2[i].seq) < Age(u, s),
                 OneLap(u, Age(u, cs2[i].seq), Age(u, s))
          PROVE  o[s % QueueLen] <= cs2[i].at
      <4>1. CASE i = L + 1
        <5>1. Age(u, s) <= Age(u, u.rollover)
          <6>1. Age(u, cs2[i].seq) = 1
            BY Zenon, <4>1, <1>2, <1>3, <1>5
          <6>2. /\ Age(t, t.rollover) \in Nat
                /\ Age(u, u.rollover) = Age(t, t.rollover) + 1
            BY Zenon, <1>1, <1>6, <1>7
          <6>3. Age(u, s) <= Age(u, u.rollover) \/ Age(u, u.rollover) < 1
            BY Zenon, <6>1, <3>5 DEF OneLap
          <6>4. ~ (Age(u, u.rollover) < 1)
            BY <6>2
          <6> QED BY Zenon, <6>3, <6>4
        <5> QED BY Zenon, <5>1, <3>4, <4>1, <1>2, <1>3
      <4>2. CASE i \in 1 .. L
        <5>1. Age(t, cs[i].seq) < Age(t, s) /\ OneLap(t, Age(t, cs[i].seq), Age(t, s))
          <6>1. /\ cs2[i] = cs[i] /\ Age(u, cs[i].seq) = Age(t, cs[i].seq) + 1
                /\ Age(t, cs[i].seq) \in Nat
            BY Zenon, <4>2, <1>3, <1>10
          <6>2. Age(t, t.rollover) \in Nat /\ Age(u, u.rollover) = Age(t, t.rollover) + 1
            BY Zenon, <1>1, <1>6, <1>7
          <6> DEFINE a == Age(t, cs[i].seq)
          <6> DEFINE age == Age(t, s)
          <6> DEFINE r == Age(t, t.rollover)
          <6>3. /\ a \in Nat /\ age \in Nat /\ r \in Nat
                /\ Age(u, cs2[i].seq) = a + 1 /\ Age(u, s) = age + 1
                /\ Age(u, u.rollover) = r + 1
            BY Zenon, <6>1, <6>2, <2>1
          <6>4. a + 1 < age + 1 /\ (age + 1 <= r + 1 \/ r + 1 < a + 1)
            BY Zenon, <6>3, <3>5 DEF OneLap
          <6> HIDE DEF a, age, r
          <6>5. a < age /\ (age <= r \/ r < a)
            BY SMTT(20), <6>3, <6>4
          <6> QED BY Zenon, <6>5 DEF OneLap, a, age, r
        <5>2. o[s % QueueLen] <= cs[i].at
          BY Zenon, <5>1, <4>2, <3>1 DEF PlaceInv, L
        <5> QED BY Zenon, <5>2, <4>2, <1>3
      <4> QED BY <4>1, <4>2, <1>3
    <3>6. ASSUME Age(u, s) <= Age(u, u.rollover) PROVE o2[s % QueueLen] <= u.offset
      <4> DEFINE e == o[s % QueueLen]
      <4> DEFINE p == t.offset
      <4>1. e \in Nat /\ p \in Nat /\ e <= p /\ u.offset = p + n
            /\ o2[s % QueueLen] = e
        BY Zenon, <3>3, <3>4, <3>6, <1>1
      <4> HIDE DEF e, p
      <4> QED BY <4>1
    <3>7. ASSUME NEW i \in 1 .. L + 1, Age(u, cs2[i].seq) < Age(u, s),
                 OneLap(u, Age(u, cs2[i].seq), Age(u, s))
          PROVE  o2[s % QueueLen] <= cs2[i].at
      BY Zenon, <3>3, <3>5, <3>7
    <3> QED BY Zenon, <3>6, <3>7
  <2> QED BY Zenon, <2>2, <2>3
<1>14. PlaceInv(u, o2, cs2)
  <2>1. Age(u, u.rollover) <= u.offset
    <3> DEFINE r == Age(t, t.rollover)
    <3> DEFINE p == t.offset
    <3>1. /\ r \in Nat /\ p \in Nat /\ r <= p
          /\ Age(u, u.rollover) = r + 1 /\ u.offset = p + n
      BY Zenon, <1>1, <1>6, <1>7
    <3> HIDE DEF r, p
    <3> QED BY SMTT(20), <3>1
  <2> QED BY Zenon, <2>1, <1>3, <1>12, <1>13 DEF PlaceInv
<1> QED BY Zenon, <1>3, <1>4, <1>11, <1>14 DEF cs2, o2, c

-----------------------------------------------------------------------------
(* The invariant.                                                          *)

(* It holds when the buffer was acquired.                                  *)
LEMMA InitInv == Init => IInv
<1> SUFFICES ASSUME Init PROVE IInv
  BY Zenon
<1>1. TypeInv
  <2>1. tx \in Handles /\ offsets \in Slots /\ feedback \in Seqs
    BY Zenon, FreshInv DEF Init
  <2>2. cmds \in Seq(Cmds)
    BY DEF Init
  <2> QED BY Zenon, <2>1, <2>2 DEF Init, TypeInv
<1>2. CleanInv
  BY Zenon, FreshInv DEF Init, CleanInv
<1> QED BY Zenon, <1>1, <1>2 DEF IInv

(* The handle after the test for a wrap-around.                            *)
LEMMA TurnedInv ==
  ASSUME TypeInv
  PROVE  /\ Turned \in Handles /\ Turned.feedbackSeq = tx.feedbackSeq
         /\ Turned.next = tx.next
         /\ AgeInv(tx, feedback, cmds) /\ PlaceInv(tx, offsets, cmds) =>
              AgeInv(Turned, feedback, cmds) /\ PlaceInv(Turned, offsets, cmds)
<1>1. tx \in Handles /\ offsets \in Slots /\ feedback \in Seqs /\ cmds \in Seq(Cmds)
  BY Zenon DEF TypeInv
<1>2. CASE NotWrapped(tx) /\ tx.offset + size > BufSize
  <2> DEFINE u == [tx EXCEPT !.offset = 0, !.rollover = tx.next]
  <2>1. /\ u \in Handles /\ u.offset = 0 /\ u.rollover = tx.next /\ u.next = tx.next
        /\ u.feedbackSeq = tx.feedbackSeq
    <3>1. tx.next \in Seqs /\ 0 \in 0 .. BufSize
      BY <1>1, HandleType, Constants
    <3> QED BY Zenon, <1>1, <3>1 DEF Handles
  <2>2. Turned = u
    BY Zenon, <1>2 DEF Turned
  <2> HIDE DEF u
  <2> QED BY Zenon, <2>1, <2>2, <1>1, <1>2, TurnInv
<1>3. CASE ~ (NotWrapped(tx) /\ tx.offset + size > BufSize)
  BY Zenon, <1>1, <1>3 DEF Turned
<1> QED BY Zenon, <1>2, <1>3

(* exanic_update_tx_feedback, for a handle t with the numbers of tx.       *)
LEMMA UpdateInv ==
  ASSUME TypeInv, NEW t \in Handles, UpdateFeedback(t), pc # "write"
  PROVE  /\ tx' \in Handles /\ feedback' \in Seqs
         /\ pc' \in {"idle", pc} /\ size' \in {0, size} /\ (pc' # "idle" => size' = size)
         /\ AgeInv(t, feedback, cmds) /\ PlaceInv(t, offsets, cmds) =>
              /\ AgeInv(tx', feedback', cmds) /\ PlaceInv(tx', offsets, cmds)
              /\ Age(tx', tx'.feedbackSeq) <= Age(t, t.feedbackSeq)
<1>1. offsets \in Slots /\ feedback \in Seqs /\ cmds \in Seq(Cmds)
  BY Zenon DEF TypeInv
<1>2. t.next \in Seqs /\ 1 \in Seqs /\ Diff(t.next, 1) \in Seqs
  <2>1. t.next \in Seqs /\ 1 \in Seqs
    BY HandleType, Constants DEF Seqs
  <2> QED BY Zenon, <2>1, DiffCases
<1>3. CASE Diff(t.next, feedback) <= QueueLen
  <2>1. tx' = [t EXCEPT !.feedbackSeq = feedback] /\ UNCHANGED <<feedback, pc, size>>
    BY Zenon, <1>3 DEF UpdateFeedback
  <2>2. /\ tx' \in Handles /\ tx'.feedbackSeq = feedback /\ tx'.offset = t.offset
        /\ tx'.rollover = t.rollover /\ tx'.next = t.next
    BY Zenon, <2>1, <1>1 DEF Handles
  <2>3. AgeInv(t, feedback, cmds) /\ PlaceInv(t, offsets, cmds) =>
          /\ AgeInv(tx', feedback, cmds) /\ PlaceInv(tx', offsets, cmds)
          /\ Age(tx', tx'.feedbackSeq) <= Age(t, t.feedbackSeq)
    <3> SUFFICES ASSUME AgeInv(t, feedback, cmds), PlaceInv(t, offsets, cmds)
                 PROVE  /\ AgeInv(tx', feedback, cmds) /\ PlaceInv(tx', offsets, cmds)
                        /\ Age(tx', tx'.feedbackSeq) <= Age(t, t.feedbackSeq)
      BY Zenon
    <3>1. AgeInv(tx', feedback, cmds) /\ PlaceInv(tx', offsets, cmds)
      BY Zenon, <2>2, <1>1, ReportInv
    <3>2. Age(tx', tx'.feedbackSeq) = Age(t, feedback)
      BY Zenon, <2>2 DEF Age
    <3> QED BY Zenon, <3>1, <3>2 DEF AgeInv
  <2> QED BY Zenon, <2>1, <2>2, <2>3, <1>1
<1>4. CASE ~ (Diff(t.next, feedback) <= QueueLen)
  <2>1. /\ tx' = [t EXCEPT !.feedbackSeq = Diff(t.next, 1)]
        /\ feedback' = Diff(t.next, 1) /\ pc' = "idle" /\ size' = 0
    BY Zenon, <1>4 DEF UpdateFeedback, Fails
  <2>2. tx' \in Handles
    BY Zenon, <2>1, <1>2 DEF Handles
  <2>3. ~ AgeInv(t, feedback, cmds)
    <3>1. Age(t, feedback) \in Nat /\ Age(t, t.feedbackSeq) \in Nat
      BY Zenon, <1>1, AgeType, HandleType
    <3>2. ~ (Age(t, feedback) <= QueueLen)
      BY Zenon, <1>4 DEF Age
    <3> QED BY <3>1, <3>2, Constants DEF AgeInv
  <2> QED BY Zenon, <2>1, <2>2, <2>3, <1>2
<1> QED BY Zenon, <1>3, <1>4

(* The adapter sends a chunk.                                              *)
LEMMA AdapterSendsInv == IInv /\ AdapterSends => IInv'
<1> SUFFICES ASSUME IInv, AdapterSends PROVE IInv'
  BY Zenon
<1>1. /\ tx \in Handles /\ offsets \in Slots /\ feedback \in Seqs
      /\ cmds \in Seq(Cmds) /\ size \in Nat
  BY Zenon DEF IInv, TypeInv
<1>2. /\ cmds # <<>> /\ cmds' = Tail(cmds) /\ UNCHANGED <<tx, offsets, pc, size, refused, clean>>
      /\ feedback' = feedback \/ feedback' = Head(cmds).seq
  BY Zenon DEF AdapterSends, handle
<1>3. cmds' \in Seq(Cmds) /\ Head(cmds) \in Cmds
  BY <1>1, <1>2
<1>4. feedback' \in Seqs
  BY Zenon, <1>1, <1>2, <1>3 DEF Cmds
<1>5. TypeInv'
  BY Zenon, <1>2, <1>3, <1>4 DEF IInv, TypeInv
<1>6. ASSUME clean' PROVE CleanInv'
  <2>1. CleanInv
    BY Zenon, <1>2, <1>6 DEF IInv
  <2>2. AgeInv(tx, feedback', Tail(cmds)) /\ PlaceInv(tx, offsets, Tail(cmds))
    BY Zenon, <2>1, <1>1, <1>2, AdapterInv DEF CleanInv
  <2>3. \A i \in 1 .. Len(Tail(cmds)) : i + 1 \in 1 .. Len(cmds) /\ Tail(cmds)[i] = cmds[i + 1]
    BY <1>1, <1>2
  <2>4. Apart(tx, size, cmds) => Apart(tx, size, Tail(cmds))
    BY Zenon, <2>3 DEF Apart
  <2> QED BY Zenon, <2>1, <2>2, <2>4, <1>2 DEF CleanInv
<1> QED BY Zenon, <1>5, <1>6 DEF IInv

(* A call begins.                                                          *)
LEMMA CallInv == ASSUME NEW n \in Sizes PROVE IInv /\ Call(n) => IInv'
<1> SUFFICES ASSUME IInv, Call(n) PROVE IInv'
  BY Zenon
<1>1. n \in Nat /\ n > 0
  BY TxAssumption
<1>2. TypeInv'
  BY Zenon, <1>1 DEF IInv, TypeInv, Call, handle
<1>3. clean' => CleanInv'
  BY Zenon DEF IInv, CleanInv, Call, handle
<1> QED BY Zenon, <1>2, <1>3 DEF IInv

(* A spin for sequence numbers.                                            *)
LEMMA WaitSeqInv == IInv /\ WaitSeq => IInv'
<1> SUFFICES ASSUME IInv, WaitSeq PROVE IInv'
  BY Zenon
<1>1. TypeInv /\ tx \in Handles /\ UpdateFeedback(tx) /\ pc = "seq"
  BY Zenon DEF IInv, TypeInv, WaitSeq
<1>2. UNCHANGED <<offsets, cmds, refused, clean>>
  BY Zenon DEF WaitSeq
<1>3. /\ tx' \in Handles /\ feedback' \in Seqs
      /\ pc' \in {"idle", pc} /\ size' \in {0, size} /\ (pc' # "idle" => size' = size)
      /\ AgeInv(tx, feedback, cmds) /\ PlaceInv(tx, offsets, cmds) =>
           AgeInv(tx', feedback', cmds) /\ PlaceInv(tx', offsets, cmds)
  BY Zenon, <1>1, UpdateInv
<1>4. TypeInv'
  BY <1>1, <1>2, <1>3 DEF TypeInv
<1>5. clean' => CleanInv'
  BY Zenon, <1>1, <1>2, <1>3 DEF IInv, CleanInv
<1> QED BY Zenon, <1>4, <1>5 DEF IInv

(* There is a sequence number.                                             *)
LEMMA HaveSeqInv == IInv /\ HaveSeq => IInv'
<1> SUFFICES ASSUME IInv, HaveSeq PROVE IInv'
  BY Zenon
<1>1. TypeInv'
  BY Zenon DEF IInv, TypeInv, HaveSeq, handle
<1>2. clean' => CleanInv'
  BY Zenon DEF IInv, CleanInv, HaveSeq, SeqsLeft, Age, handle
<1> QED BY Zenon, <1>1, <1>2 DEF IInv

(* There is room.                                                          *)
LEMMA HaveSpaceInv == IInv /\ HaveSpace => IInv'
<1> SUFFICES ASSUME IInv, HaveSpace PROVE IInv'
  BY Zenon
<1> DEFINE t == Turned
<1>1. /\ TypeInv /\ offsets \in Slots /\ feedback \in Seqs
      /\ cmds \in Seq(Cmds) /\ size \in Nat /\ size > 0 /\ pc = "space"
  BY Zenon DEF IInv, TypeInv, HaveSpace
<1>2. /\ t \in Handles /\ t.feedbackSeq = tx.feedbackSeq /\ t.next = tx.next
      /\ AgeInv(tx, feedback, cmds) /\ PlaceInv(tx, offsets, cmds) =>
           AgeInv(t, feedback, cmds) /\ PlaceInv(t, offsets, cmds)
  BY Zenon, <1>1, TurnedInv
<1>3. NeedsFeedback(t) \in BOOLEAN
  BY Zenon DEF NeedsFeedback
<1>4. tx' = [t EXCEPT !.need = NeedsFeedback(t)] /\ pc' = "write"
      /\ UNCHANGED <<offsets, feedback, cmds, size, refused, clean>>
  BY Zenon DEF HaveSpace
<1>5. t.offset + size <= IF NotWrapped(t) THEN BufSize ELSE offsets[t.feedbackSeq % QueueLen]
  BY Zenon DEF HaveSpace, Fits
<1> HIDE DEF t
<1>6. /\ tx' \in Handles /\ tx'.offset = t.offset /\ tx'.feedbackSeq = t.feedbackSeq
      /\ tx'.rollover = t.rollover /\ tx'.next = t.next
  BY Zenon, <1>2, <1>3, <1>4 DEF Handles
<1>7. t.offset + size <= BufSize
  <2>1. /\ offsets[t.feedbackSeq % QueueLen] \in Nat
        /\ offsets[t.feedbackSeq % QueueLen] <= BufSize /\ t.offset \in Nat
    BY Zenon, <1>1, <1>2, HandleType, SlotType
  <2> QED BY <2>1, <1>1, <1>5, Constants
<1>8. TypeInv'
  BY Zenon, <1>1, <1>4, <1>6, <1>7 DEF TypeInv
<1>9. ASSUME clean' PROVE CleanInv'
  <2>1. CleanInv
    BY Zenon, <1>4, <1>9 DEF IInv
  <2>2. AgeInv(t, feedback, cmds) /\ PlaceInv(t, offsets, cmds)
    BY Zenon, <2>1, <1>2 DEF CleanInv
  <2>3. Apart(t, size, cmds)
    BY Zenon, <2>2, <1>1, <1>2, <1>5, FitsApart
  <2>4. AgeInv(tx', feedback, cmds) /\ PlaceInv(tx', offsets, cmds) /\ Apart(tx', size, cmds)
    BY Zenon, <2>2, <2>3, <1>6 DEF AgeInv, PlaceInv, OneLap, Age, Apart
  <2>5. Age(tx', tx'.feedbackSeq) < QueueLen
    BY Zenon, <2>1, <1>1, <1>2, <1>6 DEF CleanInv, Age
  <2> QED BY Zenon, <2>4, <2>5, <1>4 DEF CleanInv
<1> QED BY Zenon, <1>8, <1>9 DEF IInv

(* The chunk is too large for what is free.                                *)
LEMMA TooLargeInv == IInv /\ TooLarge => IInv'
<1> SUFFICES ASSUME IInv, TooLarge PROVE IInv'
  BY Zenon
<1>1. /\ TypeInv /\ tx' = Turned /\ pc' = "idle" /\ size' = 0 /\ refused' \in BOOLEAN
      /\ UNCHANGED <<offsets, feedback, cmds, clean>>
  BY Zenon DEF IInv, TooLarge, Fails
<1>2. /\ Turned \in Handles
      /\ AgeInv(tx, feedback, cmds) /\ PlaceInv(tx, offsets, cmds) =>
           AgeInv(Turned, feedback, cmds) /\ PlaceInv(Turned, offsets, cmds)
  BY Zenon, <1>1, TurnedInv
<1>3. TypeInv'
  BY Zenon, <1>1, <1>2 DEF TypeInv
<1>4. clean' => CleanInv'
  BY Zenon, <1>1, <1>2 DEF IInv, CleanInv
<1> QED BY Zenon, <1>3, <1>4 DEF IInv

(* A spin for space.                                                       *)
LEMMA WaitSpaceInv == IInv /\ WaitSpace => IInv'
<1> SUFFICES ASSUME IInv, WaitSpace PROVE IInv'
  BY Zenon
<1>1. /\ TypeInv /\ UpdateFeedback(Turned) /\ pc = "space"
      /\ UNCHANGED <<offsets, cmds, refused, clean>>
  BY Zenon DEF IInv, WaitSpace
<1>2. /\ Turned \in Handles /\ Turned.feedbackSeq = tx.feedbackSeq /\ Turned.next = tx.next
      /\ AgeInv(tx, feedback, cmds) /\ PlaceInv(tx, offsets, cmds) =>
           AgeInv(Turned, feedback, cmds) /\ PlaceInv(Turned, offsets, cmds)
  BY Zenon, <1>1, TurnedInv
<1>3. /\ tx' \in Handles /\ feedback' \in Seqs
      /\ pc' \in {"idle", pc} /\ size' \in {0, size} /\ (pc' # "idle" => size' = size)
      /\ AgeInv(Turned, feedback, cmds) /\ PlaceInv(Turned, offsets, cmds) =>
           /\ AgeInv(tx', feedback', cmds) /\ PlaceInv(tx', offsets, cmds)
           /\ Age(tx', tx'.feedbackSeq) <= Age(Turned, Turned.feedbackSeq)
  BY Zenon, <1>1, <1>2, UpdateInv
<1>4. TypeInv'
  BY <1>1, <1>3 DEF TypeInv
<1>5. ASSUME clean' PROVE CleanInv'
  <2>1. CleanInv
    BY Zenon, <1>1, <1>5 DEF IInv
  <2>2. /\ AgeInv(tx', feedback', cmds) /\ PlaceInv(tx', offsets, cmds)
        /\ Age(tx', tx'.feedbackSeq) <= Age(Turned, Turned.feedbackSeq)
    BY Zenon, <2>1, <1>2, <1>3 DEF CleanInv
  <2>3. Age(Turned, Turned.feedbackSeq) < QueueLen
    BY Zenon, <2>1, <1>1, <1>2 DEF CleanInv, Age
  <2>4. Age(tx', tx'.feedbackSeq) \in Nat /\ Age(Turned, Turned.feedbackSeq) \in Nat
    BY Zenon, <1>2, <1>3, AgeType, HandleType
  <2>5. Age(tx', tx'.feedbackSeq) < QueueLen
    BY <2>2, <2>3, <2>4, Constants
  <2> QED BY Zenon, <2>2, <2>5, <1>1, <1>3 DEF CleanInv
<1> QED BY Zenon, <1>4, <1>5 DEF IInv

(* A chunk is sent.                                                        *)
LEMMA SendInv == IInv /\ Send => IInv'
<1> SUFFICES ASSUME IInv, Send PROVE IInv'
  BY Zenon
<1>1. /\ tx \in Handles /\ offsets \in Slots /\ feedback \in Seqs
      /\ cmds \in Seq(Cmds) /\ size \in Nat /\ tx.offset + size <= BufSize
      /\ tx.need \in BOOLEAN
  BY Zenon DEF IInv, TypeInv, Send, Handles
<1>2. /\ pc = "write" /\ pc' = "idle" /\ size' = 0 /\ refused' = FALSE
      /\ UNCHANGED <<feedback, clean>>
  BY Zenon DEF Send
<1>3. PICK n \in 1 .. size :
        /\ cmds' = Append(cmds, [at |-> tx.offset, size |-> n, seq |-> tx.next,
                                 need |-> tx.need])
        /\ offsets' = [offsets EXCEPT ![tx.next % QueueLen] = tx.offset + n]
        /\ tx' = [tx EXCEPT !.offset = @ + n,
                            !.request = IF tx.need THEN tx.next ELSE @,
                            !.next = (@ + 1) % SeqMod, !.need = FALSE]
  BY Zenon DEF Send
<1>4. /\ n \in Nat /\ n >= 1 /\ tx.offset \in Nat /\ tx.offset + n <= BufSize
      /\ tx.offset + n \in 0 .. BufSize
      /\ tx.next \in Seqs /\ (tx.next + 1) % SeqMod \in Seqs
  <2>1. tx.offset \in Nat /\ tx.next \in Seqs /\ (tx.next + 1) % SeqMod \in Seqs
    BY Zenon, <1>1, HandleType, NextSeq
  <2> DEFINE p == tx.offset
  <2>2. p \in Nat /\ size \in Nat /\ p + size <= BufSize
    BY Zenon, <2>1, <1>1
  <2> HIDE DEF p
  <2>3. n \in Nat /\ n >= 1 /\ p + n <= BufSize /\ p + n \in 0 .. BufSize
    BY <2>2, Constants
  <2> QED BY Zenon, <2>1, <2>3 DEF p
<1>5. /\ tx' \in Handles /\ tx'.offset = tx.offset + n
      /\ tx'.next = (tx.next + 1) % SeqMod
      /\ tx'.rollover = tx.rollover /\ tx'.feedbackSeq = tx.feedbackSeq
  BY Zenon, <1>1, <1>3, <1>4 DEF Handles
<1>6. cmds' \in Seq(Cmds) /\ offsets' \in Slots
  <2>1. [at |-> tx.offset, size |-> n, seq |-> tx.next, need |-> tx.need] \in Cmds
    BY <1>1, <1>4, HandleType, Constants DEF Cmds
  <2>2. cmds' \in Seq(Cmds)
    BY <2>1, <1>1, <1>3
  <2>3. offsets' \in Slots
    BY Zenon, <1>1, <1>3, <1>4 DEF Slots
  <2> QED BY Zenon, <2>2, <2>3
<1>7. TypeInv'
  BY Zenon, <1>1, <1>2, <1>5, <1>6 DEF IInv, TypeInv
<1>8. ASSUME clean' PROVE CleanInv'
  <2>1. /\ AgeInv(tx, feedback, cmds) /\ PlaceInv(tx, offsets, cmds)
        /\ Age(tx, tx.feedbackSeq) < QueueLen
    BY Zenon, <1>2, <1>8 DEF IInv, CleanInv
  <2>2. AgeInv(tx', feedback, cmds') /\ PlaceInv(tx', offsets', cmds')
    <3> DEFINE cs2 == Append(cmds, [at |-> tx.offset, size |-> n, seq |-> tx.next,
                                    need |-> tx.need])
    <3> DEFINE o2 == [offsets EXCEPT ![tx.next % QueueLen] = tx.offset + n]
    <3>1. AgeInv(tx', feedback, cs2) /\ PlaceInv(tx', o2, cs2)
      BY Zenon, <2>1, <1>1, <1>4, <1>5, SentInv
    <3>2. cmds' = cs2 /\ offsets' = o2
      BY Zenon, <1>3
    <3> HIDE DEF cs2, o2
    <3> QED BY Zenon, <3>1, <3>2
  <2> QED BY Zenon, <2>2, <1>2 DEF CleanInv
<1> QED BY Zenon, <1>7, <1>8 DEF IInv

(* A chunk is given up.                                                    *)
LEMMA AbortInv == IInv /\ Abort => IInv'
<1> SUFFICES ASSUME IInv, Abort PROVE IInv'
  BY Zenon
<1>1. /\ tx \in Handles /\ tx' = [tx EXCEPT !.need = FALSE] /\ pc' = "idle" /\ size' = 0
      /\ UNCHANGED <<offsets, feedback, cmds, refused, clean>>
  BY Zenon DEF IInv, TypeInv, Abort
<1>2. /\ tx' \in Handles /\ tx'.offset = tx.offset /\ tx'.feedbackSeq = tx.feedbackSeq
      /\ tx'.rollover = tx.rollover /\ tx'.next = tx.next
  BY Zenon, <1>1 DEF Handles
<1>3. TypeInv'
  BY Zenon, <1>1, <1>2 DEF IInv, TypeInv
<1>4. ASSUME clean' PROVE CleanInv'
  <2>1. AgeInv(tx, feedback, cmds) /\ PlaceInv(tx, offsets, cmds)
    BY Zenon, <1>1, <1>4 DEF IInv, CleanInv
  <2>2. AgeInv(tx', feedback, cmds) /\ PlaceInv(tx', offsets, cmds)
    BY Zenon, <2>1, <1>2 DEF AgeInv, PlaceInv, OneLap, Age
  <2> QED BY Zenon, <2>2, <1>1 DEF CleanInv
<1> QED BY Zenon, <1>3, <1>4 DEF IInv

(* The buffer is released and acquired again.                              *)
LEMMA ReacquireInv == IInv /\ Reacquire => IInv'
<1> SUFFICES ASSUME IInv, Reacquire PROVE IInv'
  BY Zenon
<1>1. /\ tx' = Acquired /\ offsets' = NoOffsets /\ feedback' = 0 /\ refused' = FALSE
      /\ clean' = (cmds = <<>>) /\ UNCHANGED <<cmds, pc, size>> /\ pc = "idle"
  BY Zenon DEF Reacquire
<1>2. tx' \in Handles /\ offsets' \in Slots /\ feedback' \in Seqs
  BY Zenon, <1>1, FreshInv
<1>3. clean' \in BOOLEAN
  BY Zenon, <1>1
<1>4. TypeInv'
  BY Zenon, <1>1, <1>2, <1>3 DEF IInv, TypeInv
<1>5. ASSUME clean' PROVE CleanInv'
  <2>1. cmds' = <<>>
    BY Zenon, <1>1, <1>5
  <2> QED BY Zenon, <2>1, <1>1, FreshInv DEF CleanInv
<1> QED BY Zenon, <1>4, <1>5 DEF IInv

(* Every step keeps the invariant.                                         *)
LEMMA StepInv == IInv /\ [Next]_vars => IInv'
<1> SUFFICES ASSUME IInv, [Next]_vars PROVE IInv'
  BY Zenon
<1>1. CASE UNCHANGED vars
  BY Zenon, <1>1 DEF vars, IInv, TypeInv, CleanInv
<1>2. CASE \E n \in Sizes : Call(n)
  BY Zenon, <1>2, CallInv
<1>3. CASE AdapterSends
  BY Zenon, <1>3, AdapterSendsInv
<1>4. CASE Library
  BY Zenon, <1>4, WaitSeqInv, HaveSeqInv, HaveSpaceInv, TooLargeInv, WaitSpaceInv, SendInv,
     AbortInv DEF Library
<1>5. CASE Reacquire
  BY Zenon, <1>5, ReacquireInv
<1> QED BY Zenon, <1>1, <1>2, <1>3, <1>4, <1>5 DEF Next

-----------------------------------------------------------------------------
(* For every size of the buffer and of the queue: exanic_prepare_tx_chunk  *)
(* returns a chunk that lies in the buffer and covers no byte of a chunk   *)
(* the adapter has still to send, if nothing was left to send when the     *)
(* buffer was acquired.                                                    *)
THEOREM NothingOverwritten == Spec => []NoOverwrite
<1>1. IInv => NoOverwrite
  <2> SUFFICES ASSUME IInv PROVE NoOverwrite
    BY Zenon
  <2>1. TypeOK
    BY Zenon DEF IInv, TypeInv, TypeOK, Handles, Slots
  <2>2. DOMAIN cmds = 1 .. Len(cmds)
    BY DEF IInv, TypeInv
  <2> QED BY Zenon, <2>1, <2>2 DEF IInv, TypeInv, CleanInv, Apart, NoOverwrite
<1> QED BY InitInv, StepInv, <1>1, PTL DEF Spec

(* For every size of the buffer and of the queue: a chunk that the library *)
(* takes for sent, because of the number reported last, was sent, and the  *)
(* adapter's queue never holds queue_len chunks, if nothing was left to    *)
(* send when the buffer was acquired.                                      *)
THEOREM SentBeforeTaken == Spec => []SentIsSent
<1>1. IInv => SentIsSent
  <2> SUFFICES ASSUME IInv, clean PROVE
        /\ Len(cmds) < QueueLen
        /\ \A i \in DOMAIN cmds :
             Diff(tx.next, cmds[i].seq) < Diff(tx.next, tx.feedbackSeq)
    BY Zenon DEF SentIsSent
  <2>1. /\ tx \in Handles /\ feedback \in Seqs /\ cmds \in Seq(Cmds)
        /\ AgeInv(tx, feedback, cmds)
    BY Zenon DEF IInv, TypeInv, CleanInv
  <2>2. Age(tx, feedback) \in Nat /\ Age(tx, tx.feedbackSeq) \in Nat /\ Len(cmds) \in Nat
    BY <2>1, AgeType, HandleType
  <2>3. /\ Len(cmds) < Age(tx, feedback) /\ Age(tx, feedback) <= Age(tx, tx.feedbackSeq)
        /\ Age(tx, tx.feedbackSeq) <= QueueLen
        /\ \A i \in 1 .. Len(cmds) : Age(tx, cmds[i].seq) = Len(cmds) - i + 1
    BY Zenon, <2>1 DEF AgeInv
  <2>4. Len(cmds) < QueueLen
    BY <2>2, <2>3, Constants
  <2>5. \A i \in DOMAIN cmds : Age(tx, cmds[i].seq) < Age(tx, tx.feedbackSeq)
    <3>1. DOMAIN cmds = 1 .. Len(cmds)
      BY <2>1
    <3> QED BY <3>1, <2>2, <2>3
  <2> QED BY Zenon, <2>4, <2>5 DEF Age
<1> QED BY InitInv, StepInv, <1>1, PTL DEF Spec

=============================================================================
