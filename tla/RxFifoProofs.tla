---------------------------- MODULE RxFifoProofs ----------------------------
(***************************************************************************)
(* Proofs about the receive buffer of RxFifo, for every size of ring, every *)
(* number of generations, every kind of reader and every interleaving with *)
(* the adapter.                                                            *)
(*                                                                         *)
(* The reader sees a chunk of the ring and a generation; the proofs speak of *)
(* the number of the chunk since the adapter started.  Within the G - 1 laps *)
(* of FifoAssumption the two determine each other.  A history, which is not *)
(* a variable, gives every chunk its place in its frame; the invariant says *)
(* what the ring and what the reader has copied are in terms of it, as long *)
(* as the chunk that the reader will look at again has not been overwritten. *)
(***************************************************************************)
EXTENDS RxFifo, TLAPS

\* The chunk of the ring in which the adapter writes chunk a.
Slot(a) == a % N

\* The generation it writes with it.
Gen(a) == (a \div N) % G

\* The first chunk of the lap of a.
Base(a) == a - Slot(a)

\* The numbers of the chunks, and of those the ring seems to hold at first.
Positions == -N .. (G - 1) * N - 1

(* What the arithmetic needs of the constants.                             *)
LEMMA Sizes ==
  /\ N \in Nat /\ N > 1 /\ G \in Nat /\ G > 2
  /\ MaxFrame \in Nat /\ 1 <= MaxFrame /\ MaxFrame < N
  /\ MaxChunks \in Nat /\ MaxChunks < (G - 1) * N
BY FifoAssumption

(* What is needed again and again of the place x of a reader that is behind *)
(* the adapter, which has written w chunks.                                *)
LEMMA Behind ==
  /\ \A x, w \in Nat : x < w =>
       /\ x \in 0 .. w - 1 /\ x \in -1 .. w - 1 /\ x \in -1 .. w /\ x + 1 \in 0 .. w
       /\ (x + 1) - 1 = x /\ (x + 1) - 2 = x - 1 /\ 0 < x + 1 /\ x < x + 1 /\ w - x > 0
  /\ \A w, v \in Nat : w <= v => \A x \in -1 .. w - 1 : x \in -1 .. v - 1
OBVIOUS

(* Products with N, in which the other factors stay hidden.                *)
LEMMA Times ==
  ASSUME NEW u \in Int, NEW v \in Int
  PROVE  /\ N * u \in Int /\ N * (u + 1) = N * u + N /\ N * (u - 1) = N * u - N
         /\ u < v => N * u + N <= N * v
         /\ N * u < N * v => u < v
<1>1. N * u \in Int /\ N * v \in Int /\ N * (u + 1) = N * u + N /\ N * (u - 1) = N * u - N
  BY Sizes
<1>2. ASSUME NEW p \in Int, NEW q \in Int, p < q PROVE N * p + N <= N * q
  <2>1. q - p - 1 \in Nat
    BY <1>2
  <2>2. \A z \in Nat : N * z \in Nat
    BY Sizes
  <2>3. N * (q - p - 1) = N * q - N * p - N
    BY Sizes
  <2>4. N * q \in Int /\ N * p \in Int
    BY Sizes
  <2>5. N * (q - p - 1) \in Nat
    BY Zenon, <2>1, <2>2
  <2> DEFINE nq == N * q
  <2> DEFINE np == N * p
  <2> DEFINE nd == N * (q - p - 1)
  <2>6. nd = nq - np - N /\ nq \in Int /\ np \in Int /\ nd \in Nat
    BY Zenon, <2>3, <2>4, <2>5
  <2> HIDE DEF nq, np, nd
  <2>7. np + N <= nq
    BY <2>6, Sizes
  <2> QED BY Zenon, <2>7 DEF np, nq
<1>3. u < v => N * u + N <= N * v
  BY Zenon, <1>2
<1>4. N * u < N * v => u < v
  <2>1. v < u => N * v + N <= N * u
    BY Zenon, <1>2
  <2>2. u = v => N * u = N * v
    BY Zenon
  <2> DEFINE nu == N * u
  <2> DEFINE nv == N * v
  <2>3. (v < u => nv + N <= nu) /\ (u = v => nu = nv) /\ nu \in Int /\ nv \in Int
    BY Zenon, <2>1, <2>2, <1>1
  <2> HIDE DEF nu, nv
  <2>4. nu < nv => u < v
    BY <2>3, Sizes
  <2> QED BY Zenon, <2>4 DEF nu, nv
<1> QED BY Zenon, <1>1, <1>3, <1>4

(* A position is where its lap begins plus its slot.                       *)
LEMMA Laps ==
  ASSUME NEW a \in Positions
  PROVE  /\ a \in Int /\ Slot(a) \in 0 .. N - 1 /\ Base(a) \in Int
         /\ a = Base(a) + Slot(a)
         /\ a \div N \in Int /\ Base(a) = N * (a \div N)
         /\ -1 <= a \div N /\ a \div N < G - 1
<1>1. a \in Int /\ -N <= a /\ a < (G - 1) * N /\ N \in Nat /\ N > 1 /\ G \in Nat /\ G > 2
  BY Sizes DEF Positions
<1>2. a % N \in Int /\ 0 <= a % N /\ a % N < N
  BY <1>1
<1>3. a \div N \in Int
  BY <1>1
<1>4. a = N * (a \div N) + (a % N)
  BY <1>1
<1> DEFINE q == a \div N
<1> DEFINE r == a % N
<1>5. q \in Int /\ r \in Int /\ 0 <= r /\ r < N /\ a = N * q + r
  BY Zenon, <1>2, <1>3, <1>4
<1>6. N * q \in Int /\ N * (-1) = -N /\ N * (-2) = -(2 * N) /\ N * (G - 1) = (G - 1) * N
  BY <1>1, <1>5
<1> HIDE DEF q, r
<1>7. -1 <= q
  <2>3. q < -1 => N * q + N <= N * (-1)
    BY <1>5, Times
  <2> QED BY <1>1, <1>5, <1>6, <2>3
<1>8. q < G - 1
  <2>1. G - 1 \in Int
    BY <1>1
  <2>2. N * q < N * (G - 1) => q < G - 1
    BY Zenon, <1>5, <2>1, Times
  <2>3. N * q <= a
    BY <1>1, <1>5, <1>6
  <2>4. N * (G - 1) \in Int
    BY <1>1
  <2>5. N * q < N * (G - 1)
    BY <1>1, <1>5, <1>6, <2>3, <2>4
  <2> QED BY Zenon, <2>2, <2>5
<1>9. Slot(a) = r
  BY Zenon DEF Slot, r
<1>10. Base(a) = N * q /\ a = Base(a) + Slot(a) /\ Base(a) \in Int
  <2> DEFINE nq == N * q
  <2>1. nq \in Int /\ a = nq + r
    BY Zenon, <1>5, <1>6
  <2> HIDE DEF nq
  <2>2. a - r = nq /\ a = nq + r
    BY <2>1, <1>5
  <2> QED BY Zenon, <2>1, <2>2, <1>9 DEF Base, nq
<1>11. Slot(a) \in 0 .. N - 1
  BY <1>5, <1>9, Sizes
<1> QED BY Zenon, <1>1, <1>5, <1>7, <1>8, <1>10, <1>11 DEF q

(* The generation in terms of the lap; before the first it is the last.    *)
LEMMA GenOfLap ==
  ASSUME NEW a \in Positions
  PROVE  /\ Gen(a) \in 0 .. G - 1
         /\ Gen(a) = IF a \div N = -1 THEN G - 1 ELSE a \div N
<1> DEFINE q == a \div N
<1>1. q \in Int /\ -1 <= q /\ q < G - 1
  BY Zenon, Laps
<1>2. Gen(a) = q % G
  BY Zenon DEF Gen
<1> HIDE DEF q
<1>3. \A z \in Int : 0 <= z /\ z < G => z % G = z
  BY Sizes
<1>4. (-1) % G = G - 1
  BY Sizes
<1>5. /\ q % G \in 0 .. G - 1
      /\ q % G = IF q = -1 THEN G - 1 ELSE q
  <2>1. CASE q = -1
    BY <1>4, <2>1, Sizes
  <2>2. CASE q # -1
    <3>1. 0 <= q /\ q < G
      BY <1>1, <2>2, Sizes
    <3>2. q % G = q
      BY Zenon, <1>1, <1>3, <3>1
    <3> QED BY <3>1, <3>2, <1>1, <2>2, Sizes
  <2> QED BY Zenon, <2>1, <2>2
<1> QED BY Zenon, <1>2, <1>5 DEF q

(* The generation tells the lap, the one before it too.                    *)
LEMMA SameLap ==
  ASSUME NEW a \in Positions, NEW b \in Positions
  PROVE  /\ Gen(a) = Gen(b) <=> Base(a) = Base(b)
         /\ Base(a) < Base(b) => Base(a) + N <= Base(b)
         /\ Base(a) + N < Base(b) => Base(a) + N + N <= Base(b)
         /\ b >= 0 => (Gen(a) = (Gen(b) + G - 1) % G <=> Base(a) = Base(b) - N)
<1> DEFINE u == a \div N
<1> DEFINE v == b \div N
<1>1. u \in Int /\ -1 <= u /\ u < G - 1 /\ v \in Int /\ -1 <= v /\ v < G - 1
  BY Zenon, Laps
<1>2. Base(a) = N * u /\ Base(b) = N * v
  BY Zenon, Laps
<1>3. /\ Gen(a) = IF u = -1 THEN G - 1 ELSE u
      /\ Gen(b) = IF v = -1 THEN G - 1 ELSE v
  BY Zenon, GenOfLap
<1>4. /\ b \in Int /\ Slot(b) \in 0 .. N - 1 /\ b = Base(b) + Slot(b)
      /\ Base(b) \in Int /\ Base(a) \in Int
  BY Zenon, Laps
<1> HIDE DEF u, v
<1>5. /\ u < v => N * u + N <= N * v
      /\ v < u => N * v + N <= N * u
      /\ N * u < N * v => u < v
      /\ N * v < N * u => v < u
      /\ N * (v - 1) = N * v - N
  BY Zenon, <1>1, Times
<1> DEFINE nu == N * u
<1> DEFINE nv == N * v
<1>6. /\ u < v => nu + N <= nv
      /\ v < u => nv + N <= nu
      /\ nu < nv => u < v
      /\ nv < nu => v < u
      /\ u = v => nu = nv
      /\ Base(a) = nu /\ Base(b) = nv /\ nu \in Int /\ nv \in Int
  BY Zenon, <1>2, <1>4, <1>5
<1>7. u = v - 1 => nu = nv - N
  BY Zenon, <1>5
<1> HIDE DEF nu, nv
<1>8. Gen(a) = Gen(b) <=> u = v
  BY <1>1, <1>3, Sizes
<1>9. u = v <=> nu = nv
  BY <1>1, <1>6, Sizes
<1>10. Base(a) < Base(b) => Base(a) + N <= Base(b)
  BY Zenon, <1>6
<1>11. ASSUME b >= 0 PROVE Gen(a) = (Gen(b) + G - 1) % G <=> Base(a) = Base(b) - N
  <2>1. 0 <= v
    <3>1. N * (-1) = -N
      BY Sizes
    <3>2. v = -1 => nv = -N
      BY Zenon, <3>1 DEF nv
    <3> QED BY <3>2, <1>11, <1>1, <1>4, <1>6, Sizes
  <2>2. Gen(b) = v
    BY <2>1, <1>1, <1>3
  <2>3. (v + G - 1) % G = IF v = 0 THEN G - 1 ELSE v - 1
    <3>1. CASE v = 0
      BY <3>1, Sizes
    <3>2. CASE v # 0
      <4>1. v - 1 \in Int /\ 0 <= v - 1 /\ v - 1 < G /\ v + G - 1 = (v - 1) + G
        BY <3>2, <2>1, <1>1, Sizes
      <4>2. \A z \in Int : 0 <= z /\ z < G => (z + G) % G = z
        BY Sizes
      <4>3. ((v - 1) + G) % G = v - 1
        BY Zenon, <4>1, <4>2
      <4> QED BY Zenon, <4>1, <4>3, <3>2
    <3> QED BY Zenon, <3>1, <3>2
  <2>4. Gen(a) = (Gen(b) + G - 1) % G <=> u = v - 1
    BY <2>1, <2>2, <2>3, <1>1, <1>3, Sizes
  <2>5. nu = nv - N => u = v - 1
    <3>1. v - 1 \in Int
      BY <1>1
    <3>2. /\ u < v - 1 => N * u + N <= N * (v - 1)
          /\ v - 1 < u => N * (v - 1) + N <= N * u
      BY Zenon, <1>1, <3>1, Times
    <3>3. /\ u < v - 1 => nu + N <= nv - N
          /\ v - 1 < u => (nv - N) + N <= nu
      BY Zenon, <3>2, <1>5 DEF nu, nv
    <3> QED BY <3>3, <1>1, <1>6, Sizes
  <2> QED BY Zenon, <2>4, <2>5, <1>6, <1>7
<1>12. Base(a) + N < Base(b) => Base(a) + N + N <= Base(b)
  <2>1. u + 1 \in Int
    BY <1>1
  <2>2. /\ N * (u + 1) = N * u + N
        /\ u + 1 < v => N * (u + 1) + N <= N * v
    BY Zenon, <2>1, <1>1, Times
  <2>3. u + 1 < v => nu + N + N <= nv
    BY Zenon, <2>2 DEF nu, nv
  <2>4. u + 1 = v => nu + N = nv
    BY Zenon, <2>2 DEF nu, nv
  <2> QED BY <2>3, <2>4, <1>1, <1>6, Sizes
<1> QED BY Zenon, <1>6, <1>8, <1>9, <1>10, <1>11, <1>12

(* Two positions of one slot are a lap apart.                              *)
LEMMA SameSlot ==
  ASSUME NEW a \in Positions, NEW b \in Positions, Slot(a) = Slot(b)
  PROVE  /\ a < b => a + N <= b
         /\ Gen(a) = Gen(b) <=> a = b
         /\ b >= 0 => (Gen(a) = (Gen(b) + G - 1) % G <=> a = b - N)
<1>1. /\ Gen(a) = Gen(b) <=> Base(a) = Base(b)
      /\ Base(a) < Base(b) => Base(a) + N <= Base(b)
      /\ b >= 0 => (Gen(a) = (Gen(b) + G - 1) % G <=> Base(a) = Base(b) - N)
  BY Zenon, SameLap
<1>2. /\ a \in Int /\ Base(a) \in Int /\ a = Base(a) + Slot(a)
      /\ b \in Int /\ Base(b) \in Int /\ b = Base(b) + Slot(b)
      /\ Slot(a) \in 0 .. N - 1
  BY Zenon, Laps
<1>3. (a = b <=> Base(a) = Base(b)) /\ (a < b <=> Base(a) < Base(b))
      /\ (a = b - N <=> Base(a) = Base(b) - N)
  BY <1>2, Sizes
<1>4. a < b => a + N <= b
  BY <1>1, <1>2, <1>3, Sizes
<1> QED BY Zenon, <1>1, <1>3, <1>4

(* Within N positions no two have one slot.                                *)
LEMMA OtherSlot ==
  ASSUME NEW a \in Positions, NEW b \in Positions, a # b, a < b + N, b < a + N
  PROVE  Slot(a) # Slot(b)
<1>1. a \in Int /\ b \in Int
  BY Zenon, Laps
<1>2. Slot(a) = Slot(b) => (a < b => a + N <= b) /\ (b < a => b + N <= a)
  BY Zenon, SameSlot
<1> QED BY <1>1, <1>2, Sizes

(* Every slot has one of the last N positions before w.                    *)
LEMMA Window ==
  ASSUME NEW w \in 0 .. MaxChunks, NEW c \in 0 .. N - 1
  PROVE  \E p \in w - N .. w - 1 : p \in Positions /\ Slot(p) = c
<1> DEFINE d == w - N
<1>1. d \in Positions /\ w \in Int /\ d = w - N /\ c \in Int /\ w <= MaxChunks /\ 0 <= w
  BY Sizes DEF Positions
<1>2. d \in Int /\ Slot(d) \in 0 .. N - 1 /\ Base(d) \in Int /\ d = Base(d) + Slot(d)
      /\ d \div N \in Int /\ Base(d) = N * (d \div N)
  BY Zenon, <1>1, Laps
<1> HIDE DEF d
<1> DEFINE p == IF c >= Slot(d) THEN Base(d) + c ELSE Base(d) + N + c
<1>3. p \in w - N .. w - 1 /\ p \in Int
  BY <1>1, <1>2, Sizes
<1>4. p \in Positions
  BY <1>1, <1>3, Sizes DEF Positions
<1>5. \A z \in Int : \A r \in 0 .. N - 1 : (N * z + r) % N = r
  BY Sizes
<1>6. Slot(p) = c
  <2>1. Slot(Base(d) + c) = c
    BY Zenon, <1>2, <1>5 DEF Slot
  <2>2. Slot(Base(d) + N + c) = c
    <3>1. d \div N + 1 \in Int
      BY <1>2
    <3>2. N * (d \div N + 1) = Base(d) + N
      BY Zenon, <1>2, Times
    <3> QED BY Zenon, <3>1, <3>2, <1>5 DEF Slot
  <2> QED BY Zenon, <2>1, <2>2
<1> QED BY Zenon, <1>3, <1>4, <1>6

(* Advance moves the handle to the next position.                          *)
LEMMA NextPosition ==
  ASSUME NEW a \in Positions, a + 1 \in Positions
  PROVE  /\ Slot(a + 1) = (Slot(a) + 1) % N
         /\ Gen(a + 1) = IF Slot(a) + 1 = N THEN (Gen(a) + 1) % G ELSE Gen(a)
<1> DEFINE b == a + 1
<1>1. /\ a \in Int /\ Slot(a) \in 0 .. N - 1 /\ Base(a) \in Int /\ a = Base(a) + Slot(a)
      /\ b \in Int /\ Slot(b) \in 0 .. N - 1 /\ Base(b) \in Int /\ b = Base(b) + Slot(b)
      /\ b = a + 1
  BY Zenon, Laps
<1>2. /\ Gen(a) = Gen(b) <=> Base(a) = Base(b)
      /\ Base(a) < Base(b) => Base(a) + N <= Base(b)
      /\ Base(b) < Base(a) => Base(b) + N <= Base(a)
  BY Zenon, SameLap
<1>3. /\ a \div N \in Int /\ Base(a) = N * (a \div N)
      /\ b \div N \in Int /\ Base(b) = N * (b \div N)
      /\ -1 <= a \div N /\ b \div N < G - 1
      /\ Gen(a) = IF a \div N = -1 THEN G - 1 ELSE a \div N
      /\ Gen(b) = IF b \div N = -1 THEN G - 1 ELSE b \div N
  BY Zenon, Laps, GenOfLap
<1> HIDE DEF b
<1>4. CASE Slot(a) + 1 = N
  <2>1. Slot(b) = 0 /\ Base(b) = Base(a) + N
    BY <1>1, <1>2, <1>4, Sizes
  <2>2. (Slot(a) + 1) % N = 0
    BY <1>4, Sizes
  <2> DEFINE q == a \div N
  <2> DEFINE r == b \div N
  <2>3. r = q + 1
    <3>1. q \in Int /\ r \in Int /\ q + 1 \in Int
      BY <1>3
    <3>2. N * (q + 1) = Base(a) + N /\ N * r = Base(b)
      BY Zenon, <1>3, <3>1, Times
    <3>3. N * (q + 1) < N * r \/ r <= q + 1
      <4>1. q + 1 < r => N * (q + 1) + N <= N * r
        BY Zenon, <3>1, Times
      <4> QED BY <4>1, <3>1, <3>2, <2>1, <1>1, Sizes
    <3>4. r < q + 1 => N * r + N <= N * (q + 1)
      BY Zenon, <3>1, Times
    <3> HIDE DEF q, r
    <3>5. r < q + 1 => Base(b) + N <= Base(a) + N
      BY Zenon, <3>2, <3>4
    <3>6. ~ (N * (q + 1) < N * r)
      <4>1. N * (q + 1) = N * r
        BY Zenon, <3>2, <2>1
      <4> QED BY <4>1, <3>2, <1>1
    <3> QED BY <3>1, <3>3, <3>5, <3>6, <2>1, <1>1, Sizes
  <2>4. /\ q \in Int /\ -1 <= q /\ q + 1 < G - 1
        /\ Gen(a) = (IF q = -1 THEN G - 1 ELSE q)
        /\ Gen(b) = (IF r = -1 THEN G - 1 ELSE r)
    BY Zenon, <1>3, <2>3
  <2> HIDE DEF q, r
  <2>5. Gen(b) = q + 1
    BY <2>3, <2>4
  <2>6. (Gen(a) + 1) % G = q + 1
    <3>1. CASE q = -1
      BY <3>1, <2>4, Sizes
    <3>2. CASE q # -1
      <4>1. q + 1 \in Int /\ 0 <= q + 1 /\ q + 1 < G
        BY <3>2, <2>4, Sizes
      <4>2. \A z \in Int : 0 <= z /\ z < G => z % G = z
        BY Sizes
      <4>3. (q + 1) % G = q + 1
        BY Zenon, <4>1, <4>2
      <4> QED BY Zenon, <4>3, <3>2, <2>4
    <3> QED BY Zenon, <3>1, <3>2
  <2> QED BY Zenon, <1>4, <2>1, <2>2, <2>5, <2>6 DEF b
<1>5. CASE Slot(a) + 1 # N
  <2>1. Base(b) = Base(a) /\ Slot(b) = Slot(a) + 1
    BY <1>1, <1>2, <1>5, Sizes
  <2>2. (Slot(a) + 1) % N = Slot(a) + 1
    <3>1. Slot(a) + 1 \in Int /\ 0 <= Slot(a) + 1 /\ Slot(a) + 1 < N
      BY <1>1, <1>5, Sizes
    <3>2. \A z \in Int : 0 <= z /\ z < N => z % N = z
      BY Sizes
    <3> QED BY Zenon, <3>1, <3>2
  <2> QED BY Zenon, <1>2, <1>5, <2>1, <2>2 DEF b
<1> QED BY Zenon, <1>4, <1>5

-----------------------------------------------------------------------------
(* What __exanic_rx_catchup knows in the middle of a scan.                 *)

\* A history: the place in its frame of every chunk, and the frame's length.
Hists == [Nat -> [idx : Nat, len : Nat]]

\* Chunk a is the last of its frame.
Ends(H, a) == a < 0 \/ H[a].idx = H[a].len

\* The scan is at chunk c of the ring.  b stands for the chunk where it last met
\* another generation, f for the end of a frame it found, e is the end of what was
\* delivered last, w how many chunks are written.  Where it stops it leaves the
\* reader behind e only if the reader will find itself overtaken.
Scanned(H, c, b, f, e, before, found, w) ==
  /\ -1 <= b /\ b < w /\ -1 <= f /\ f < w
  /\ before => 0 <= b
  /\ found => Ends(H, f)
  /\ ~ found => ~ Ends(H, b)
  /\ c > 0 =>
       /\ c <= Slot(b)
       /\ ~ before => Slot(b) = N - 1 /\ Base(e) <= Base(b) + N
       /\ before => Base(e) <= Base(b)
       /\ found => Slot(f) >= c /\ Base(e) <= Base(f) + N
       /\ found /\ ~ before => Base(f) = Base(b)
       /\ Slot(e) >= c =>
            /\ ~ before => Base(e) <= Base(b)
            /\ before \/ ~ found => Base(e) < Base(b)
            /\ found => e <= f \/ w > f + 1 + N
            /\ found /\ ~ before => e <= f
  /\ c = 0 => LET t == IF found THEN f ELSE b IN e <= t \/ w > t + 1 + N

(* What a chunk before the adapter is.                                     *)
LEMMA Past ==
  ASSUME NEW w \in 0 .. MaxChunks, NEW a \in -N .. w
  PROVE  a \in Positions /\ a \in Int
BY Sizes DEF Positions

(* The first chunk of a scan.                                              *)
LEMMA ScanFirst ==
  ASSUME NEW H \in Hists, NEW w \in 0 .. MaxChunks, NEW e \in -1 .. w - 1,
         NEW p \in w - N .. w - 1, Slot(p) = N - 1, Ends(H, e),
         NEW before \in BOOLEAN, ~ before, NEW found \in BOOLEAN, found <=> Ends(H, p)
  PROVE  p \in -1 .. w - 1 /\ Scanned(H, N - 1, p, p, e, before, found, w)
<1>1. p \in Positions /\ e \in Positions /\ -1 \in Positions /\ w \in Int
  BY Past, Sizes DEF Positions
<1>2. /\ p \in Int /\ Base(p) \in Int /\ p = Base(p) + Slot(p) /\ Slot(p) \in 0 .. N - 1
      /\ e \in Int /\ Base(e) \in Int /\ e = Base(e) + Slot(e) /\ Slot(e) \in 0 .. N - 1
  BY Zenon, <1>1, Laps
<1>3. -1 <= p /\ p < w /\ w <= p + N
  <2>1. Slot(-1) = N - 1
    BY Sizes DEF Slot
  <2>2. p < -1 => p + N <= -1
    BY Zenon, <1>1, <2>1, SameSlot
  <2> QED BY <2>2, <1>2, Sizes
<1>4. /\ Base(p) < Base(e) => Base(p) + N <= Base(e)
      /\ Base(p) + N < Base(e) => Base(p) + N + N <= Base(e)
      /\ Base(e) < Base(p) => Base(e) + N <= Base(p)
  BY Zenon, <1>1, SameLap
<1>5. Base(e) <= Base(p) + N
  BY <1>1, <1>2, <1>3, <1>4, Sizes
<1>6. Slot(e) >= N - 1 => Base(e) <= Base(p)
  BY <1>1, <1>2, <1>3, <1>4, Sizes
<1>7. ~ Ends(H, p) => p # e
  BY Zenon
<1>8. Slot(e) >= N - 1 /\ p # e => Base(e) < Base(p)
  BY <1>2, <1>6, Sizes
<1>9. Slot(e) >= N - 1 => e <= p
  BY <1>2, <1>6, Sizes
<1> QED BY <1>2, <1>3, <1>5, <1>6, <1>7, <1>8, <1>9, Sizes DEF Scanned

\* A step of the scan, at chunk c - 1, in which p stands.
ScanStep(H, w, e, c, b, f, before, found, p, breaks, last, eof, before2, found2,
         c2, b2, f2) ==
  /\ H \in Hists /\ w \in 0 .. MaxChunks /\ e \in -1 .. w - 1 /\ Ends(H, e)
  /\ c \in 1 .. N - 1 /\ b \in -1 .. w - 1 /\ f \in -1 .. w - 1
  /\ before \in BOOLEAN /\ found \in BOOLEAN
  /\ Scanned(H, c, b, f, e, before, found, w)
  /\ p \in w - N .. w - 1 /\ Slot(p) = c - 1
  /\ breaks \in BOOLEAN /\ (breaks <=> Gen(p) # Gen(b))
  /\ last \in BOOLEAN /\ (last <=> Ends(H, p))
  /\ before2 \in BOOLEAN /\ (before2 <=> before \/ breaks)
  /\ eof \in BOOLEAN /\ (eof <=> last /\ (before2 \/ ~ found))
  /\ found2 \in BOOLEAN /\ (found2 <=> found \/ eof)
  /\ c2 = (IF last /\ before2 THEN 0 ELSE c - 1)
  /\ b2 = (IF breaks THEN p ELSE b)
  /\ f2 = (IF eof THEN p ELSE f)

(* A chunk that is not the first.                                          *)
LEMMA ScanMore ==
  ASSUME NEW H, NEW w, NEW e, NEW c, NEW b, NEW f, NEW before, NEW found, NEW p, NEW breaks,
         NEW last, NEW eof, NEW before2, NEW found2, NEW c2, NEW b2, NEW f2,
         ScanStep(H, w, e, c, b, f, before, found, p, breaks, last, eof, before2, found2,
                  c2, b2, f2)
  PROVE  /\ b2 \in -1 .. w - 1 /\ f2 \in -1 .. w - 1
         /\ Scanned(H, c2, b2, f2, e, before2, found2, w)
<1>0. /\ H \in Hists /\ w \in 0 .. MaxChunks /\ e \in -1 .. w - 1 /\ Ends(H, e)
      /\ c \in 1 .. N - 1 /\ b \in -1 .. w - 1 /\ f \in -1 .. w - 1
      /\ before \in BOOLEAN /\ found \in BOOLEAN
      /\ Scanned(H, c, b, f, e, before, found, w)
      /\ p \in w - N .. w - 1 /\ Slot(p) = c - 1
      /\ breaks \in BOOLEAN /\ (breaks <=> Gen(p) # Gen(b))
      /\ last \in BOOLEAN /\ (last <=> Ends(H, p))
      /\ before2 \in BOOLEAN /\ (before2 <=> before \/ breaks)
      /\ eof \in BOOLEAN /\ (eof <=> last /\ (before2 \/ ~ found))
      /\ found2 \in BOOLEAN /\ (found2 <=> found \/ eof)
      /\ c2 = (IF last /\ before2 THEN 0 ELSE c - 1)
      /\ b2 = (IF breaks THEN p ELSE b)
      /\ f2 = (IF eof THEN p ELSE f)
  BY Zenon DEF ScanStep
<1> USE <1>0
<1>1. p \in Positions /\ e \in Positions /\ b \in Positions /\ f \in Positions
      /\ w \in Int /\ c \in Int
  BY Past, Sizes DEF Positions
<1>2. /\ p \in Int /\ Base(p) \in Int /\ p = Base(p) + Slot(p) /\ Slot(p) \in 0 .. N - 1
      /\ e \in Int /\ Base(e) \in Int /\ e = Base(e) + Slot(e) /\ Slot(e) \in 0 .. N - 1
      /\ b \in Int /\ Base(b) \in Int /\ b = Base(b) + Slot(b) /\ Slot(b) \in 0 .. N - 1
      /\ f \in Int /\ Base(f) \in Int /\ f = Base(f) + Slot(f) /\ Slot(f) \in 0 .. N - 1
  BY Zenon, <1>1, Laps
<1>3. /\ Base(p) < Base(b) => Base(p) + N <= Base(b)
      /\ Base(b) < Base(p) => Base(b) + N <= Base(p)
      /\ Gen(p) = Gen(b) <=> Base(p) = Base(b)
  BY Zenon, <1>1, SameLap
<1>4. /\ Base(p) < Base(e) => Base(p) + N <= Base(e)
      /\ Base(p) + N < Base(e) => Base(p) + N + N <= Base(e)
      /\ Base(e) < Base(p) => Base(e) + N <= Base(p)
  BY Zenon, <1>1, SameLap
<1>5. /\ Base(b) < Base(e) => Base(b) + N <= Base(e)
      /\ Base(e) < Base(b) => Base(e) + N <= Base(b)
      /\ Base(f) < Base(e) => Base(f) + N <= Base(e)
      /\ Base(e) < Base(f) => Base(e) + N <= Base(f)
  BY Zenon, <1>1, SameLap
<1>6. /\ -1 <= b /\ b < w /\ -1 <= f /\ f < w
      /\ before => 0 <= b
      /\ found => Ends(H, f)
      /\ ~ found => ~ Ends(H, b)
      /\ c <= Slot(b)
      /\ ~ before => Slot(b) = N - 1 /\ Base(e) <= Base(b) + N
      /\ before => Base(e) <= Base(b)
      /\ found => Slot(f) >= c /\ Base(e) <= Base(f) + N
      /\ found /\ ~ before => Base(f) = Base(b)
      /\ Slot(e) >= c =>
           /\ ~ before => Base(e) <= Base(b)
           /\ before \/ ~ found => Base(e) < Base(b)
           /\ found => e <= f \/ w > f + 1 + N
           /\ found /\ ~ before => e <= f
  BY Sizes DEF Scanned
<1>7. p < w /\ w <= p + N /\ e < w /\ Base(b) <= Base(p) /\ (breaks <=> Base(b) < Base(p))
  <2>1. p < w /\ w <= p + N /\ e < w /\ Base(b) <= Base(p)
    BY <1>1, <1>2, <1>3, <1>6, Sizes
  <2>2. breaks <=> Base(p) # Base(b)
    BY Zenon, <1>3
  <2>3. Base(p) # Base(b) <=> Base(b) < Base(p)
    BY <1>2, <2>1
  <2> QED BY Zenon, <2>1, <2>2, <2>3
<1>8. 0 <= b => 0 <= Base(b)
  <2>1. 0 \in Positions /\ Base(0) = 0
    BY Sizes DEF Positions, Base, Slot
  <2>2. Base(b) < Base(0) => Base(b) + N <= Base(0)
    BY Zenon, <1>1, <2>1, SameLap
  <2> QED BY <2>1, <2>2, <1>2, Sizes
<1>9. -N <= Base(b)
  <2>1. -1 \in Positions /\ Base(-1) = -N
    BY Sizes DEF Positions, Base, Slot
  <2>2. Base(b) < Base(-1) => Base(b) + N <= Base(-1)
    BY Zenon, <1>1, <2>1, SameLap
  <2> QED BY <2>1, <2>2, <1>2, <1>6, Sizes
<1>10. ~ Ends(H, b) => 0 <= b
  BY <1>2 DEF Ends
<1>11. /\ breaks => 0 <= p
       /\ before2 \/ ~ found => 0 <= p
  BY <1>1, <1>2, <1>3, <1>6, <1>7, <1>8, <1>9, <1>10, Sizes
<1>12. p # e \/ last
  BY Zenon
<1>13. Ends(H, f2) \/ ~ found2
  BY Zenon, <1>6
<1>14. found2 \/ ~ Ends(H, b2)
  BY Zenon, <1>6
<1>15. b2 \in -1 .. w - 1 /\ f2 \in -1 .. w - 1 /\ (before2 => 0 <= b2)
  BY <1>1, <1>2, <1>6, <1>7, <1>11
<1>16. ASSUME c2 > 0
       PROVE  /\ c2 <= Slot(b2)
              /\ ~ before2 => Slot(b2) = N - 1 /\ Base(e) <= Base(b2) + N
              /\ before2 => Base(e) <= Base(b2)
              /\ found2 => Slot(f2) >= c2 /\ Base(e) <= Base(f2) + N
              /\ found2 /\ ~ before2 => Base(f2) = Base(b2)
              /\ Slot(e) >= c2 =>
                   /\ ~ before2 => Base(e) <= Base(b2)
                   /\ before2 \/ ~ found2 => Base(e) < Base(b2)
                   /\ found2 => e <= f2 \/ w > f2 + 1 + N
                   /\ found2 /\ ~ before2 => e <= f2
  <2>1. c2 = c - 1 /\ ~ (last /\ before2)
    BY <1>16
  <2>2. CASE breaks
    <3>1. b2 = p /\ before2
      BY Zenon, <2>2
    <3> QED BY <1>1, <1>2, <1>3, <1>4, <1>5, <1>6, <1>7, <1>12, <2>1, <2>2, <3>1, Sizes
  <2>3. CASE ~ breaks
    <3>1. b2 = b /\ (before2 <=> before)
      BY Zenon, <2>3
    <3> QED BY <1>1, <1>2, <1>3, <1>4, <1>5, <1>6, <1>7, <1>12, <2>1, <2>3, <3>1, Sizes
  <2> QED BY Zenon, <2>2, <2>3
<1>17. ASSUME c2 = 0, NEW t, t = IF found2 THEN f2 ELSE b2
       PROVE  e <= t \/ w > t + 1 + N
  <2>1. CASE last /\ before2
    BY SMTT(30), <1>1, <1>2, <1>3, <1>4, <1>5, <1>6, <1>7, <1>12, <1>17, <2>1, Sizes
  <2>2. CASE ~ (last /\ before2)
    <3>1. c = 1
      BY <1>1, <1>17, <2>2
    <3> QED BY <1>1, <1>2, <1>3, <1>4, <1>5, <1>6, <1>7, <1>12, <1>17, <2>2, <3>1, Sizes
  <2> QED BY Zenon, <2>1, <2>2
<1> QED BY <1>13, <1>14, <1>15, <1>16, <1>17, <1>1 DEF Scanned

-----------------------------------------------------------------------------
(* The inductive invariant.                                                *)

\* A chunk of the ring and a generation stand for chunk a.
At(chunk, gen, a) == chunk = Slot(a) /\ gen = Gen(a)

\* How many chunks the adapter has begun.
Begun == IF half THEN written + 1 ELSE written

\* The last chunk of the frame of a.
EndOf(H, a) == a + H[a].len - H[a].idx

\* What the adapter writes as the payload of a.
PayOf(H, a) == [n |-> a, idx |-> H[a].idx, len |-> H[a].len]

\* The values of the variables.
Payloads == [n : Int, idx : Int, len : 1 .. MaxFrame]

Chunks == 0 .. N - 1

Gens == 0 .. G - 1

Phases ==
  {"closed", "idle", "catchup", "chunk", "spin", "check", "memcpy", "abort",
   "parse", "copy", "body", "bodycopy", "validate", "recheck"}

Polling == {"parse", "copy", "body", "bodycopy", "validate", "recheck"}

Locals == [u : Infos, chunk : Chunks, gen : Gens, hdr : Payloads, need : Int,
           at : Chunks, ret : {"idle", "abort"}]

Scans == [chunk : 0 .. N, breakGen : Gens, breakChunk : Chunks, before : BOOLEAN,
          found : BOOLEAN, eofGen : Gens, eofChunk : Chunks, blind : BOOLEAN]

Handles == [next : Chunks, gen : Gens, sentinel : Chunks, sgen : Gens]

Types ==
  /\ buffer \in [Chunks -> [payload : Payloads, info : Infos]]
  /\ written \in 0 .. MaxChunks /\ half \in BOOLEAN
  /\ frame \in [idx : Nat, len : 1 .. MaxFrame, bad : BOOLEAN]
  /\ api \in Readers
  /\ rx \in Handles
  /\ pc \in Phases
  /\ got \in Seq(Payloads)
  /\ loc \in Locals
  /\ cu \in Scans
  /\ more \in BOOLEAN /\ stale \in BOOLEAN /\ told \in BOOLEAN
  /\ out \in [end : Int, whole : BOOLEAN, ordered : BOOLEAN]

\* The chunks that were begun make up frames, one after the other; the last one may
\* be incomplete, and there is room for the rest of it.
HistInv(H) ==
  /\ \A a \in 0 .. Begun - 1 :
       /\ H[a].idx \in 1 .. H[a].len /\ H[a].len <= MaxFrame
       /\ Ends(H, a - 1) => H[a].idx = 1
       /\ ~ Ends(H, a - 1) => H[a].idx = H[a - 1].idx + 1 /\ H[a].len = H[a - 1].len
       /\ EndOf(H, a) < Begun => Ends(H, EndOf(H, a))
       /\ EndOf(H, a) >= Begun => EndOf(H, a) = EndOf(H, Begun - 1)
  /\ Begun = 0 => frame.idx = frame.len
  /\ Begun > 0 => frame.idx = H[Begun - 1].idx /\ frame.len = H[Begun - 1].len
  /\ Begun + frame.len - frame.idx <= MaxChunks
  /\ frame.idx <= frame.len

\* The ring holds the generations of the last N chunks that were written, and the
\* payloads of the last N that were begun.
BufInv(H) ==
  /\ \A a \in written - N .. written - 1 :
       /\ buffer[Slot(a)].info.gen = Gen(a)
       /\ buffer[Slot(a)].info.last <=> Ends(H, a)
       /\ buffer[Slot(a)].info.bad => buffer[Slot(a)].info.last
  /\ \A a \in Begun - N .. Begun - 1 :
       a >= 0 => buffer[Slot(a)].payload = PayOf(H, a)

\* What was delivered last is whole and in order, and ends where a frame ends.
Delivered(H) ==
  /\ out.whole /\ out.ordered /\ out.end >= -1
  /\ out.end < Begun => Ends(H, out.end)
  /\ out.end >= Begun => Begun > 0 /\ out.end = EndOf(H, Begun - 1)

\* The data are the chunks from y on.
Copies(H, y, data) == \A i \in 1 .. Len(data) : data[i] = PayOf(H, y + i - 1)

\* The k chunks before x are the first k of a frame.
Leads(H, x, k, blind) ==
  /\ 0 <= x - k
  /\ k = 0 => blind \/ Ends(H, x - 1)
  /\ k > 0 =>
       /\ k <= H[x - 1].idx
       /\ ~ blind => /\ H[x - 1].idx = k /\ H[x - k].idx = 1
                     /\ H[x - k].len = H[x - 1].len

\* Nothing from y on was delivered.
Ahead(y) == out.end < y /\ (~ told => out.end = y - 1)

\* What holds in every phase of a call; the reader is at chunk x, its sentinel at s,
\* and a is the chunk that the call will look at again.  First, no buffer is open.
ClosedInv == got = <<>> /\ told /\ out.end < written

\* Between two calls: got is what the caller of exanic_receive_chunk has so far of
\* a frame that is not over; if it has nothing, the next chunk begins a frame, unless
\* the last scan was blind.
IdleInv(H, x, s) ==
  /\ Leads(H, x, Len(got), cu.blind)
  /\ Len(got) > 0 => api = "chunk" /\ ~ Ends(H, x - 1)
  /\ api # "poll" => s < x
  /\ Copies(H, x - Len(got), got)
  /\ Ahead(x - Len(got)) \/ (Len(got) = 0 /\ written > x + N /\ told /\ out.end < written)

\* exanic_receive_frame waits for the next chunk of a frame.
SpinInv(H, x, s) ==
  /\ api = "frame"
  /\ Len(got) > 0 /\ Leads(H, x, Len(got), cu.blind) /\ ~ Ends(H, x - 1)
  /\ s < x - Len(got)
  /\ written <= s + N => Copies(H, x - Len(got), got)
  /\ Ahead(x - Len(got))

\* exanic_receive_frame has found chunk x.
ChunkInv(H, x, s) ==
  /\ api = "frame" /\ x < written
  /\ Leads(H, x, Len(got), cu.blind) /\ (Len(got) > 0 => ~ Ends(H, x - 1))
  /\ s < x - Len(got)
  /\ written <= s + N => Copies(H, x - Len(got), got)
  /\ Ahead(x - Len(got))
  /\ (loc.u.last <=> Ends(H, x)) /\ loc.u.gen = Gen(x) /\ (loc.u.bad => loc.u.last)

\* exanic_receive_chunk is about to copy chunk x - 1.
MemcpyInv(H, x, s, a) ==
  /\ api = "chunk" /\ 0 < x
  /\ Leads(H, x - 1, Len(got), cu.blind) /\ (Len(got) > 0 => ~ Ends(H, x - 2))
  /\ At(loc.chunk, loc.gen, a) /\ a < x - 1 /\ s < x
  /\ loc.at = Slot(x - 1)
  /\ Copies(H, x - 1 - Len(got), got)
  /\ Ahead(x - 1 - Len(got))
  /\ (loc.u.last <=> Ends(H, x - 1)) /\ (loc.u.bad => loc.u.last)

\* The chunks before x are copied; they are the frame's if a is still in the ring.
CheckInv(H, x, s, a) ==
  /\ api \in {"frame", "chunk"} /\ Len(got) > 0
  /\ Leads(H, x, Len(got), cu.blind)
  /\ At(loc.chunk, loc.gen, a) /\ s < x
  /\ written <= a + N => Copies(H, x - Len(got), got)
  /\ Ahead(x - Len(got))
  /\ (loc.u.last <=> Ends(H, x - 1)) /\ (loc.u.bad => loc.u.last)
  /\ api = "frame" => loc.u.last

\* exanic_receive_abort skips the rest of a frame; stale: or more than that.
AbortInv(H, x, s) ==
  /\ got = <<>> /\ api # "frame" /\ (api = "chunk" => s < x)
  /\ ~ stale => ~ Ends(H, x - 1)
  /\ ~ told => ~ Ends(H, x - 1) /\ out.end = EndOf(H, x - 1)
  /\ \/ out.end < x
     \/ ~ Ends(H, x - 1) /\ out.end <= EndOf(H, x - 1)
     \/ written > x + N /\ out.end < written

\* exanic_poll_single_rx reads the packet that begins at a; its data are the
\* frame's as long as chunk a has not been begun again.
PollInv(H, x, a) ==
  /\ api = "poll" /\ ~ stale
  /\ At(loc.chunk, loc.gen, a) /\ 0 <= a /\ a < x
  /\ (more <=> ~ Ends(H, x - 1))
  /\ cu.blind \/ Ends(H, a - 1)
  /\ Ahead(a)
  /\ pc # "parse" => /\ loc.need \in 1 .. MaxFrame
                     /\ Begun <= a + N => H[a].len - loc.need \in 0 .. 1
  /\ Begun <= a + N /\ ~ cu.blind => H[x - 1].idx = x - a /\ H[x - 1].len = H[a].len
  /\ pc \notin {"parse", "copy"} /\ Begun <= a + N => Copies(H, a, got)
  /\ pc \in {"parse", "copy"} => got = <<>> /\ x = a + 1
  /\ pc = "body" => Len(got) = x - a /\ x - a < loc.need
  /\ pc = "bodycopy" => Len(got) = x - a - 1 /\ x - a - 1 < loc.need /\ loc.at = Slot(x - 1)
  /\ pc \in {"validate", "recheck"} => Len(got) = x - a /\ x - a = loc.need

\* __exanic_rx_catchup; it returns into exanic_receive_abort only with stale set.
CatchupInv(H) ==
  /\ got = <<>> /\ told /\ out.end < written
  /\ loc.ret = "abort" => stale /\ api = "poll"
  /\ cu.chunk = N => ~ cu.before /\ ~ cu.found
  /\ cu.chunk < N => \E b, f \in -1 .. written - 1 :
       /\ At(cu.breakChunk, cu.breakGen, b)
       /\ cu.found => At(cu.eofChunk, cu.eofGen, f)
       /\ Scanned(H, cu.chunk, b, f, out.end, cu.before, cu.found, written)

Reader(H, x, s, a) ==
  /\ At(rx.next, rx.gen, x) /\ At(rx.sentinel, rx.sgen, s)
  /\ pc = "closed" => ClosedInv
  /\ pc = "catchup" => CatchupInv(H)
  /\ pc = "idle" => IdleInv(H, x, s)
  /\ pc = "spin" => SpinInv(H, x, s)
  /\ pc = "chunk" => ChunkInv(H, x, s)
  /\ pc = "memcpy" => MemcpyInv(H, x, s, a)
  /\ pc = "check" => CheckInv(H, x, s, a)
  /\ pc = "abort" => AbortInv(H, x, s)
  /\ pc \in Polling => PollInv(H, x, a)

Ring(H) == HistInv(H) /\ BufInv(H) /\ Delivered(H)

Reads(H) == \E x \in 0 .. written, s \in -1 .. written, a \in -1 .. written : Reader(H, x, s, a)

IInv == Types /\ \E H \in Hists : Ring(H) /\ Reads(H)

-----------------------------------------------------------------------------
(* Types.                                                                  *)

(* The values a call starts from.                                          *)
LEMMA Defaults ==
  NoInfo \in Infos /\ NoPayload \in Payloads /\ NoLoc \in Locals /\ NoCatchup \in Scans
<1>1. NoInfo \in Infos /\ NoPayload \in Payloads
  BY Sizes DEF NoInfo, NoPayload, Infos, Payloads
<1>2. 0 \in Chunks /\ 0 \in Gens /\ N \in 0 .. N
  BY Sizes DEF Chunks, Gens
<1>3. NoLoc \in Locals
  BY <1>1, <1>2 DEF NoLoc, Locals
<1>4. NoCatchup \in Scans
  BY Zenon, <1>2 DEF NoCatchup, Scans
<1> QED BY Zenon, <1>1, <1>3, <1>4

(* Advance keeps the handle within the ring.                               *)
LEMMA AdvanceType ==
  ASSUME NEW r \in Handles
  PROVE  Advance(r) \in Handles
<1>1. r.next \in Chunks /\ r.gen \in Gens
  BY Zenon DEF Handles
<1>2. \A z \in Int : z % N \in Chunks /\ z % G \in Gens
  BY Sizes DEF Chunks, Gens
<1>3. r.next + 1 \in Int /\ r.gen + 1 \in Int
  BY <1>1 DEF Chunks, Gens
<1>4. (r.next + 1) % N \in Chunks /\ (r.gen + 1) % G \in Gens
  BY Zenon, <1>2, <1>3
<1> QED BY Zenon, <1>1, <1>4 DEF Advance, Handles

(* What a look at the ring finds.                                          *)
LEMMA LookTypes ==
  ASSUME Types
  PROVE  /\ \A c \in Chunks : buffer[c].info \in Infos /\ buffer[c].payload \in Payloads
         /\ rx.next \in Chunks /\ rx.gen \in Gens /\ rx.sentinel \in Chunks /\ rx.sgen \in Gens
         /\ Info \in Infos
         /\ loc.chunk \in Chunks /\ loc.gen \in Gens /\ loc.at \in Chunks /\ loc.u \in Infos
         /\ loc.ret \in {"idle", "abort"} /\ loc.need \in Int
<1>1. \A c \in Chunks : buffer[c].info \in Infos /\ buffer[c].payload \in Payloads
  BY Zenon DEF Types
<1>2. rx.next \in Chunks /\ rx.gen \in Gens /\ rx.sentinel \in Chunks /\ rx.sgen \in Gens
  BY Zenon DEF Types, Handles
<1>3. /\ loc.chunk \in Chunks /\ loc.gen \in Gens /\ loc.at \in Chunks /\ loc.u \in Infos
      /\ loc.ret \in {"idle", "abort"} /\ loc.need \in Int
  BY Zenon DEF Types, Locals
<1> QED BY Zenon, <1>1, <1>2, <1>3 DEF Info

(* The variables that only the reader changes.                             *)
ReaderTypes ==
  /\ rx \in Handles /\ pc \in Phases /\ got \in Seq(Payloads) /\ loc \in Locals
  /\ cu \in Scans /\ more \in BOOLEAN /\ stale \in BOOLEAN /\ told \in BOOLEAN
  /\ out \in [end : Int, whole : BOOLEAN, ordered : BOOLEAN]

(* The reader leaves the adapter's variables alone.                        *)
LEMMA ReaderSteps ==
  Continue \/ Call => UNCHANGED <<adapter, api>>
<1>1. Fails => UNCHANGED <<adapter, api>>
  BY Zenon DEF Fails, adapter
<1>2. \A r : Overflow(r) => UNCHANGED <<adapter, api>>
  BY Zenon DEF Overflow, adapter
<1>3. Drop => UNCHANGED <<adapter, api>>
  BY Zenon DEF Drop, adapter
<1>4. Call => UNCHANGED <<adapter, api>>
  BY Zenon, <1>2 DEF Call, Acquire, Release, ReceiveFrame, ReceiveChunk, GiveUp, PollHeader, adapter
<1>5. Continue => UNCHANGED <<adapter, api>>
  BY Zenon, <1>1, <1>2, <1>3 DEF Continue, CatchupChunk, CatchupEnds, ReceiveFrame, ProcessChunk,
     CheckSentinel, CopyChunk, ReceiveAbort, PollParse, PollCopy, PollBody, PollBodyCopy,
     PollValidate, PollRecheck, adapter
<1> QED BY Zenon, <1>4, <1>5

(* Every step of a reader keeps the types; a frame that is delivered has a *)
(* first chunk.                                                            *)
LEMMA ReaderTyped ==
  ASSUME Types, pc \in {"check", "recheck"} => Len(got) > 0, Continue \/ Call
  PROVE  Types'
<1>1. ReaderTypes
  BY Zenon DEF Types, ReaderTypes
<1>2. ASSUME ReaderTypes' PROVE Types'
  <2>1. UNCHANGED <<buffer, written, half, frame, api>>
    BY Zenon, ReaderSteps DEF adapter
  <2> QED BY Zenon, <1>2, <2>1 DEF Types, ReaderTypes
<1> DEFINE P == Payloads
<1>3. /\ \A c \in Chunks : buffer[c].info \in Infos /\ buffer[c].payload \in Payloads
      /\ rx.next \in Chunks /\ rx.gen \in Gens /\ rx.sentinel \in Chunks /\ rx.sgen \in Gens
      /\ Info \in Infos
      /\ loc.chunk \in Chunks /\ loc.gen \in Gens /\ loc.at \in Chunks /\ loc.u \in Infos
      /\ loc.ret \in {"idle", "abort"} /\ loc.need \in Int
  BY Zenon, LookTypes
<1>4. Advance(rx) \in Handles
  BY Zenon, <1>1, AdvanceType DEF ReaderTypes
<1>5. /\ NoInfo \in Infos /\ NoPayload \in Payloads /\ NoLoc \in Locals /\ NoCatchup \in Scans
      /\ <<>> \in Seq(Payloads)
  BY Defaults
<1>6. ASSUME Fails, rx' \in Handles PROVE ReaderTypes'
  BY Zenon, <1>1, <1>5, <1>6 DEF Fails, ReaderTypes, Phases
<1>7. ASSUME NEW r \in {"idle", "abort"}, Overflow(r) PROVE ReaderTypes'
  <2>1. [NoLoc EXCEPT !.ret = r] \in Locals
    BY Zenon, <1>5 DEF Locals
  <2> QED BY Zenon, <1>1, <1>5, <1>7, <2>1 DEF Overflow, ReaderTypes, Phases
<1>8. ASSUME Drop, rx' \in Handles, stale' \in BOOLEAN PROVE ReaderTypes'
  <2>1. Leave(more) \in Phases
    BY Zenon DEF Leave, Phases
  <2> QED BY Zenon, <1>1, <1>5, <1>8, <2>1 DEF Drop, ReaderTypes
<1>9. ASSUME NEW data \in Seq(Payloads), NEW excused \in BOOLEAN, Len(data) > 0,
             Deliver(data, excused),
             pc' \in Phases, UNCHANGED <<rx, more, stale>>
      PROVE  ReaderTypes'
  <2>1. data[1] \in Payloads
    BY <1>9
  <2>2. data[1].n \in Int /\ data[1].len \in Int /\ data[1].idx \in Int
    BY <2>1, Sizes DEF Payloads
  <2>3. out' \in [end : Int, whole : BOOLEAN, ordered : BOOLEAN]
    BY <1>9, <2>2 DEF Deliver, Intact
  <2> QED BY Zenon, <1>1, <1>5, <1>9, <2>3 DEF Deliver, ReaderTypes
<1>10. CASE Acquire
  BY Zenon, <1>2, <1>7, <1>10 DEF Acquire
<1>11. CASE Release
  BY Zenon, <1>1, <1>2, <1>5, <1>11 DEF Release, ReaderTypes, Phases
<1>12. CASE CatchupChunk
  <2>1. cu \in Scans /\ cu.chunk > 0
    BY Zenon, <1>1, <1>12 DEF CatchupChunk, ReaderTypes
  <2> DEFINE c == cu.chunk - 1
  <2>2. c \in Chunks /\ c \in 0 .. N /\ 0 \in 0 .. N
    BY <2>1, Sizes DEF Scans, Chunks
  <2>3. buffer[c].info.gen \in Gens /\ buffer[c].info.last \in BOOLEAN
    BY Zenon, <1>3, <2>2 DEF Infos, Gens
  <2>4. cu' \in Scans
    BY Zenon, <1>12, <2>1, <2>2, <2>3 DEF CatchupChunk, Scans
  <2> QED BY Zenon, <1>1, <1>2, <1>12, <2>4 DEF CatchupChunk, ReaderTypes
<1>13. CASE CatchupEnds
  <2>1. cu \in Scans
    BY Zenon, <1>1 DEF ReaderTypes
  <2>2. CatchupTarget.chunk \in Chunks /\ CatchupTarget.gen \in Gens
    BY Zenon, <2>1 DEF CatchupTarget, Scans
  <2> DEFINE h == [next |-> CatchupTarget.chunk, gen |-> CatchupTarget.gen,
                   sentinel |-> CatchupTarget.chunk, sgen |-> CatchupTarget.gen]
  <2>3. h \in Handles
    BY Zenon, <2>2 DEF Handles
  <2>4. Advance(h) \in Handles
    BY Zenon, <2>3, AdvanceType
  <2>5. rx' = Advance(h)
    BY Zenon, <1>13 DEF CatchupEnds
  <2>6. [NoCatchup EXCEPT !.blind = ~ cu.found] \in Scans
    BY Zenon, <1>5 DEF Scans
  <2>7. loc.ret \in Phases
    BY Zenon, <1>3 DEF Phases
  <2> QED BY Zenon, <1>1, <1>2, <1>5, <1>13, <2>4, <2>5, <2>6, <2>7 DEF CatchupEnds, ReaderTypes
<1>14. CASE ReceiveFrame
  <2>1. CASE Overflow("idle")
    BY Zenon, <1>2, <1>7, <2>1
  <2>2. CASE ~ Overflow("idle")
    <3>1. [loc EXCEPT !.u = Info] \in Locals
      BY Zenon, <1>1, <1>3 DEF Locals, ReaderTypes
    <3> QED BY Zenon, <1>1, <1>2, <1>14, <2>2, <3>1 DEF ReceiveFrame, ReaderTypes, Phases
  <2> QED BY Zenon, <2>1, <2>2
<1>15. CASE ProcessChunk
  <2> DEFINE data == Append(got, buffer[rx.next].payload)
  <2>1. data \in Seq(Payloads)
    BY <1>1, <1>3 DEF ReaderTypes
  <2>2. CASE ~ loc.u.last
    BY Zenon, <1>1, <1>2, <1>4, <1>15, <2>1, <2>2 DEF ProcessChunk, ReaderTypes, Phases
  <2>3. CASE Fails /\ rx' = Advance(rx)
    BY Zenon, <1>2, <1>4, <1>6, <2>3
  <2>4. CASE ~ (~ loc.u.last) /\ ~ (Fails /\ rx' = Advance(rx))
    <3> DEFINE h == MoveSentinel(rx, rx.next, loc.u.gen)
    <3>1. loc.u.gen \in Gens
      BY Zenon, <1>3 DEF Infos, Gens
    <3>2. h \in Handles
      BY Zenon, <1>1, <1>3, <3>1 DEF MoveSentinel, Handles, ReaderTypes
    <3>3. Advance(h) \in Handles
      BY Zenon, <3>2, AdvanceType
    <3>4. /\ rx' = Advance(h) /\ got' = data /\ pc' = "check"
          /\ loc' = [loc EXCEPT !.chunk = rx.sentinel, !.gen = rx.sgen]
          /\ UNCHANGED <<cu, more, stale, told, out>>
      BY Zenon, <1>15, <2>4 DEF ProcessChunk
    <3>5. loc' \in Locals
      BY Zenon, <1>1, <1>3, <3>4 DEF Locals, ReaderTypes
    <3> QED BY Zenon, <1>1, <1>2, <2>1, <3>3, <3>4, <3>5 DEF ReaderTypes, Phases
  <2> QED BY Zenon, <2>2, <2>3, <2>4
<1>16. CASE CheckSentinel
  <2>0. Len(got) > 0
    BY Zenon, <1>16 DEF CheckSentinel
  <2>1. CASE Overflow("idle")
    BY Zenon, <1>2, <1>7, <2>1
  <2>2. CASE Fails /\ UNCHANGED rx
    BY Zenon, <1>1, <1>2, <1>6, <2>2 DEF ReaderTypes
  <2>3. CASE Deliver(got, cu.blind) /\ pc' = "idle" /\ UNCHANGED <<rx, more, stale>>
    <3>1. got \in Seq(Payloads) /\ cu.blind \in BOOLEAN /\ "idle" \in Phases
      BY Zenon, <1>1 DEF ReaderTypes, Scans, Phases
    <3> QED BY Zenon, <1>2, <1>9, <2>0, <2>3, <3>1
  <2>4. CASE loc' = NoLoc /\ pc' = "idle" /\ UNCHANGED <<rx, more, stale, got, cu, told, out>>
    BY Zenon, <1>1, <1>2, <1>5, <2>4 DEF ReaderTypes, Phases
  <2> QED BY Zenon, <1>16, <2>1, <2>2, <2>3, <2>4 DEF CheckSentinel
<1>17. CASE ReceiveChunk
  <2>1. CASE Overflow("idle")
    BY Zenon, <1>2, <1>7, <2>1
  <2>2. CASE ~ Overflow("idle")
    <3> DEFINE h == MoveSentinel(rx, rx.next, Info.gen)
    <3> DEFINE l == [NoLoc EXCEPT !.u = Info, !.chunk = rx.sentinel, !.gen = rx.sgen,
                                  !.at = rx.next]
    <3>1. Info.gen \in Gens
      BY Zenon, <1>3 DEF Infos, Gens
    <3>2. h \in Handles
      BY Zenon, <1>1, <1>3, <3>1 DEF MoveSentinel, Handles, ReaderTypes
    <3>3. Advance(h) \in Handles
      BY Zenon, <3>2, AdvanceType
    <3>4. l \in Locals
      BY Zenon, <1>3, <1>5 DEF Locals
    <3>5. /\ rx' = Advance(h) /\ loc' = l /\ pc' = "memcpy"
          /\ UNCHANGED <<got, cu, more, stale, told, out>>
      BY Zenon, <1>17, <2>2 DEF ReceiveChunk
    <3> QED BY Zenon, <1>1, <1>2, <3>3, <3>4, <3>5 DEF ReaderTypes, Phases
  <2> QED BY Zenon, <2>1, <2>2
<1>18. CASE CopyChunk
  <2>1. Append(got, buffer[loc.at].payload) \in Seq(Payloads)
    BY <1>1, <1>3 DEF ReaderTypes
  <2> QED BY Zenon, <1>1, <1>2, <1>18, <2>1 DEF CopyChunk, ReaderTypes, Phases
<1>19. CASE GiveUp
  BY Zenon, <1>1, <1>2, <1>5, <1>19 DEF GiveUp, ReaderTypes, Phases
<1>20. CASE ReceiveAbort
  <2>1. CASE Overflow("idle")
    BY Zenon, <1>2, <1>7, <2>1
  <2>2. CASE ~ Overflow("idle")
    <3>1. /\ rx' = Advance(rx) /\ pc' = (IF Info.last THEN "idle" ELSE "abort")
          /\ more' = (more /\ ~ Info.last) /\ stale' = (stale /\ ~ Info.last)
          /\ UNCHANGED <<got, loc, cu, told, out>>
      BY Zenon, <1>20, <2>2 DEF ReceiveAbort
    <3>2. more' \in BOOLEAN /\ stale' \in BOOLEAN
      BY Zenon, <3>1
    <3>3. pc' \in Phases
      BY Zenon, <3>1 DEF Phases
    <3> QED BY Zenon, <1>1, <1>2, <1>4, <3>1, <3>2, <3>3 DEF ReaderTypes
  <2> QED BY Zenon, <2>1, <2>2
<1>21. CASE PollHeader
  <2>1. more' \in BOOLEAN /\ stale' \in BOOLEAN
    BY Zenon, <1>21 DEF PollHeader
  <2>2. [NoLoc EXCEPT !.chunk = rx.next, !.gen = rx.gen] \in Locals
    BY Zenon, <1>3, <1>5 DEF Locals
  <2>3. rx' \in Handles
    BY Zenon, <1>1, <1>4, <1>21 DEF PollHeader, ReaderTypes
  <2>4. loc' \in Locals /\ cu' \in Scans
    BY Zenon, <1>1, <1>5, <1>21, <2>2 DEF PollHeader, ReaderTypes
  <2>5. pc' \in Phases /\ told' \in BOOLEAN /\ UNCHANGED <<got, out>>
    BY Zenon, <1>1, <1>21 DEF PollHeader, ReaderTypes, Phases
  <2> QED BY Zenon, <1>1, <1>2, <2>1, <2>3, <2>4, <2>5 DEF ReaderTypes
<1>22. CASE PollParse
  <2>1. CASE Drop /\ UNCHANGED <<rx, stale>>
    BY Zenon, <1>1, <1>2, <1>8, <2>1 DEF ReaderTypes
  <2>2. CASE ~ (Drop /\ UNCHANGED <<rx, stale>>)
    <3> DEFINE p == buffer[loc.chunk].payload
    <3>1. p \in Payloads /\ p.len \in Int
      BY <1>3, Sizes DEF Payloads
    <3>2. PICK need \in {p.len, p.len - 1} \ {0} :
            /\ loc' = [loc EXCEPT !.hdr = p, !.need = need] /\ pc' = "copy"
            /\ UNCHANGED <<rx, got, cu, more, stale, told, out>>
      BY Zenon, <1>22, <2>2 DEF PollParse
    <3>3. need \in Int
      BY <3>1
    <3> HIDE DEF p
    <3>4. loc' \in Locals
      BY Zenon, <1>1, <3>1, <3>2, <3>3 DEF Locals, ReaderTypes
    <3> QED BY Zenon, <1>1, <1>2, <3>2, <3>4 DEF ReaderTypes, Phases
  <2> QED BY Zenon, <2>1, <2>2
<1>23. \A d : Copied(d) \in Phases
  BY Zenon DEF Copied, Phases
<1>24. CASE PollCopy
  <2>1. <<buffer[loc.chunk].payload>> \in Seq(Payloads)
    BY <1>3
  <2> QED BY Zenon, <1>1, <1>2, <1>23, <1>24, <2>1 DEF PollCopy, ReaderTypes
<1>25. CASE PollBody
  <2>1. CASE Drop
    <3>1. rx' \in Handles /\ stale' \in BOOLEAN
      BY Zenon, <1>1, <1>4, <1>25 DEF PollBody, ReaderTypes
    <3> QED BY Zenon, <1>2, <1>8, <2>1, <3>1
  <2>2. CASE ~ Drop
    <3>1. [loc EXCEPT !.at = rx.next] \in Locals
      BY Zenon, <1>1, <1>3 DEF Locals, ReaderTypes
    <3>2. [NoLoc EXCEPT !.ret = Leave(more)] \in Locals
      BY Zenon, <1>5 DEF Locals, Leave
    <3>3. CASE New /\ ~ Info.bad
      <4>1. /\ loc' = [loc EXCEPT !.at = rx.next]
            /\ rx' = Advance(rx) /\ more' = ~ Info.last /\ pc' = "bodycopy"
            /\ UNCHANGED <<adapter, api, got, cu, stale, told, out>>
        BY Zenon, <1>25, <2>2, <3>3 DEF PollBody, Lapped, New
      <4>2. more' \in BOOLEAN
        BY Zenon, <4>1
      <4> QED BY Zenon, <1>1, <1>2, <1>4, <3>1, <4>1, <4>2 DEF ReaderTypes, Phases
    <3>4. CASE ~ (New /\ ~ Info.bad)
      <4>1. /\ pc' = "catchup" /\ got' = <<>>
            /\ loc' = [NoLoc EXCEPT !.ret = Leave(more)]
            /\ cu' = NoCatchup /\ told' = TRUE /\ stale' = more
            /\ UNCHANGED <<adapter, api, rx, more, out>>
        BY Zenon, <1>25, <2>2, <3>4 DEF PollBody
      <4> QED BY Zenon, <1>1, <1>2, <1>5, <3>2, <4>1 DEF ReaderTypes, Phases
    <3> QED BY Zenon, <3>3, <3>4
  <2> QED BY Zenon, <2>1, <2>2
<1>26. CASE PollBodyCopy
  <2> DEFINE data == Append(got, buffer[loc.at].payload)
  <2>1. data \in Seq(Payloads)
    BY <1>1, <1>3 DEF ReaderTypes
  <2>2. CASE Drop /\ UNCHANGED <<rx, stale>>
    BY Zenon, <1>1, <1>2, <1>8, <2>2 DEF ReaderTypes
  <2>3. CASE ~ (Drop /\ UNCHANGED <<rx, stale>>)
    <3>1. /\ got' = data /\ pc' = Copied(data)
          /\ UNCHANGED <<rx, loc, cu, more, stale, told, out>>
      BY Zenon, <1>26, <2>3 DEF PollBodyCopy
    <3> HIDE DEF data
    <3> QED BY Zenon, <1>1, <1>2, <1>23, <2>1, <3>1 DEF ReaderTypes
  <2> QED BY Zenon, <2>2, <2>3
<1>27. CASE PollValidate
  <2>1. CASE Drop /\ UNCHANGED <<rx, stale>>
    BY Zenon, <1>1, <1>2, <1>8, <2>1 DEF ReaderTypes
  <2>2. CASE ~ (Drop /\ UNCHANGED <<rx, stale>>)
    <3>1. pc' = "recheck" /\ UNCHANGED <<rx, got, loc, cu, more, stale, told, out>>
      BY Zenon, <1>27, <2>2 DEF PollValidate
    <3> QED BY Zenon, <1>1, <1>2, <3>1 DEF ReaderTypes, Phases
  <2> QED BY Zenon, <2>1, <2>2
<1>28. CASE PollRecheck
  <2>1. CASE Drop /\ UNCHANGED <<rx, stale>>
    BY Zenon, <1>1, <1>2, <1>8, <2>1 DEF ReaderTypes
  <2>2. CASE ~ (Drop /\ UNCHANGED <<rx, stale>>)
    <3> DEFINE excused == cu.blind \/ (half /\ written % N = loc.chunk)
    <3>1. /\ Deliver(got, excused) /\ pc' = Leave(more) /\ UNCHANGED <<rx, more, stale>>
          /\ Len(got) > 0
      BY Zenon, <1>28, <2>2 DEF PollRecheck
    <3>2. got \in Seq(Payloads) /\ excused \in BOOLEAN /\ Leave(more) \in Phases
      BY Zenon, <1>1 DEF ReaderTypes, Leave, Phases
    <3> HIDE DEF excused
    <3> QED BY Zenon, <1>2, <1>9, <3>1, <3>2
  <2> QED BY Zenon, <2>1, <2>2
<1> QED BY Zenon, <1>10, <1>11, <1>12, <1>13, <1>14, <1>15, <1>16, <1>17, <1>18, <1>19,
          <1>20, <1>21, <1>22, <1>24, <1>25, <1>26, <1>27, <1>28 DEF Continue, Call

-----------------------------------------------------------------------------
(* What the reader finds in the ring.                                      *)

(* How far the adapter is.                                                 *)
LEMMA Progress ==
  ASSUME Types
  PROVE  /\ written \in Nat /\ written <= MaxChunks /\ Begun \in Nat
         /\ written <= Begun /\ Begun <= written + 1
BY Sizes DEF Types, Begun

(* Where the generation fits, the chunk is still there.                    *)
LEMMA InRing ==
  ASSUME Types, NEW H \in Hists, BufInv(H), NEW a \in -1 .. written,
         buffer[Slot(a)].info.gen = Gen(a)
  PROVE  a < written /\ written <= a + N
<1>1. written \in 0 .. MaxChunks /\ written \in Int
  BY DEF Types
<1>2. a \in Positions /\ a \in Int
  BY <1>1, Past, Sizes
<1>3. Slot(a) \in 0 .. N - 1
  BY Zenon, <1>2, Laps
<1>4. PICK p \in written - N .. written - 1 : p \in Positions /\ Slot(p) = Slot(a)
  BY Zenon, <1>1, <1>3, Window
<1>5. buffer[Slot(p)].info.gen = Gen(p)
  BY Zenon DEF BufInv
<1>6. p = a
  BY Zenon, <1>2, <1>4, <1>5, SameSlot
<1> QED BY <1>1, <1>4, <1>6, Sizes

(* What the reader finds at its position x.                                *)
LEMMA Look ==
  ASSUME Types, NEW H \in Hists, BufInv(H), NEW x \in 0 .. written, At(rx.next, rx.gen, x)
  PROVE  /\ New => /\ x < written /\ written <= x + N /\ Info.gen = Gen(x)
                   /\ Info.last <=> Ends(H, x)
                   /\ Info.bad => Info.last
         /\ Lapped => written > x + N
<1>1. written \in 0 .. MaxChunks /\ written \in Int /\ x \in Int /\ x >= 0
  BY DEF Types
<1>2. x \in Positions /\ x \in -1 .. written
  BY <1>1, Past, Sizes
<1>3. rx.next = Slot(x) /\ rx.gen = Gen(x)
  BY Zenon DEF At
<1>4. ASSUME New PROVE /\ x < written /\ written <= x + N /\ Info.gen = Gen(x)
                       /\ Info.last <=> Ends(H, x)
                       /\ Info.bad => Info.last
  <2>1. buffer[Slot(x)].info.gen = Gen(x)
    BY Zenon, <1>3, <1>4 DEF New, Info
  <2>2. x < written /\ written <= x + N
    BY Zenon, <1>2, <2>1, InRing
  <2>3. x \in written - N .. written - 1
    BY <1>1, <2>2, Sizes
  <2>4. /\ buffer[Slot(x)].info.last <=> Ends(H, x)
        /\ buffer[Slot(x)].info.bad => buffer[Slot(x)].info.last
    BY Zenon, <2>3 DEF BufInv
  <2> QED BY Zenon, <2>1, <2>2, <2>4, <1>3 DEF Info
<1>5. ASSUME Lapped PROVE written > x + N
  <2>1. Slot(x) \in 0 .. N - 1
    BY Zenon, <1>2, Laps
  <2>2. PICK p \in written - N .. written - 1 : p \in Positions /\ Slot(p) = Slot(x)
    BY Zenon, <1>1, <2>1, Window
  <2>3. buffer[Slot(p)].info.gen = Gen(p)
    BY Zenon DEF BufInv
  <2>4. Gen(p) # Gen(x) /\ Gen(p) # (Gen(x) + G - 1) % G
    BY Zenon, <1>3, <1>5, <2>2, <2>3 DEF Lapped, Info
  <2>5. p # x /\ p # x - N
    BY Zenon, <1>1, <1>2, <2>2, <2>4, SameSlot
  <2>6. (x < p => x + N <= p) /\ (p < x => p + N <= x)
    BY Zenon, <1>2, <2>2, SameSlot
  <2> QED BY <1>1, <2>2, <2>5, <2>6, Sizes
<1> QED BY Zenon, <1>4, <1>5

(* A chunk that has been begun and not overwritten.                        *)
LEMMA Payload ==
  ASSUME Types, NEW H \in Hists, BufInv(H), NEW a \in 0 .. written, a < Begun, Begun <= a + N
  PROVE  buffer[Slot(a)].payload = PayOf(H, a)
<1>1. Begun \in Int /\ a \in Int /\ a >= 0
  BY Progress
<1>2. a \in Begun - N .. Begun - 1
  BY <1>1, Sizes
<1> QED BY Zenon, <1>1, <1>2 DEF BufInv

(* The place of a chunk in its frame.                                      *)
LEMMA Place ==
  ASSUME Types, NEW H \in Hists, HistInv(H), NEW a \in 0 .. written - 1
  PROVE  /\ a \in Nat /\ H[a].idx \in Nat /\ H[a].len \in Nat
         /\ 1 <= H[a].idx /\ H[a].idx <= H[a].len /\ H[a].len <= MaxFrame
         /\ Ends(H, a - 1) => H[a].idx = 1
         /\ ~ Ends(H, a - 1) =>
              /\ 1 <= a /\ H[a].idx = H[a - 1].idx + 1 /\ H[a].len = H[a - 1].len
              /\ EndOf(H, a) = EndOf(H, a - 1)
         /\ EndOf(H, a) \in Nat /\ EndOf(H, a) < a + N /\ (Ends(H, a) => EndOf(H, a) = a)
         /\ EndOf(H, a) < Begun => Ends(H, EndOf(H, a))
         /\ EndOf(H, a) >= Begun => EndOf(H, a) = EndOf(H, Begun - 1)
<1>1. a \in 0 .. Begun - 1 /\ a \in Nat
  BY Progress
<1>2. /\ H[a].idx \in 1 .. H[a].len /\ H[a].len <= MaxFrame
      /\ Ends(H, a - 1) => H[a].idx = 1
      /\ ~ Ends(H, a - 1) => H[a].idx = H[a - 1].idx + 1 /\ H[a].len = H[a - 1].len
      /\ EndOf(H, a) < Begun => Ends(H, EndOf(H, a))
      /\ EndOf(H, a) >= Begun => EndOf(H, a) = EndOf(H, Begun - 1)
  BY Zenon, <1>1 DEF HistInv
<1>3. H[a].idx \in Nat /\ H[a].len \in Nat
  BY Zenon, <1>1 DEF Hists
<1>4. EndOf(H, a) \in Nat /\ EndOf(H, a) < a + N /\ (Ends(H, a) => EndOf(H, a) = a)
  BY <1>1, <1>2, <1>3, Sizes DEF EndOf, Ends
<1>5. ~ Ends(H, a - 1) => 1 <= a /\ EndOf(H, a) = EndOf(H, a - 1)
  <2>1. ~ Ends(H, a - 1) => 1 <= a
    BY <1>1 DEF Ends
  <2>2. 1 <= a => H[a - 1].idx \in Nat /\ H[a - 1].len \in Nat
    BY <1>1 DEF Hists
  <2> QED BY <2>1, <2>2, <1>1, <1>2, <1>3 DEF EndOf
<1> QED BY <1>1, <1>2, <1>3, <1>4, <1>5

(* A chunk that does not begin a frame goes on with the one before it.     *)
LEMMA PlaceMore ==
  ASSUME Types, NEW H \in Hists, HistInv(H), NEW a \in 0 .. written - 1, ~ Ends(H, a - 1)
  PROVE  1 <= a /\ H[a].idx = H[a - 1].idx + 1 /\ H[a].len = H[a - 1].len
BY Place

(* One chunk more.                                                         *)
LEMMA LeadsMore ==
  ASSUME Types, NEW H \in Hists, HistInv(H), NEW x \in 0 .. written - 1, NEW k \in Nat,
         NEW blind \in BOOLEAN, Leads(H, x, k, blind), k > 0 => ~ Ends(H, x - 1)
  PROVE  Leads(H, x + 1, k + 1, blind)
<1>1. /\ x \in Nat /\ H[x].idx \in Nat /\ H[x].len \in Nat
      /\ 1 <= H[x].idx
      /\ Ends(H, x - 1) => H[x].idx = 1
      /\ ~ Ends(H, x - 1) => /\ 1 <= x
                             /\ H[x].idx = H[x - 1].idx + 1 /\ H[x].len = H[x - 1].len
  BY Place
<1>2. (x + 1) - 1 = x /\ (x + 1) - (k + 1) = x - k /\ k + 1 > 0
  BY <1>1
<1>3. CASE k = 0
  BY <1>1, <1>2, <1>3 DEF Leads
<1>4. CASE k > 0
  <2>1. 1 <= x /\ H[x - 1].idx \in Nat
    BY <1>1, <1>4 DEF Hists
  <2> QED BY <1>1, <1>2, <1>4, <2>1 DEF Leads
<1> QED BY <1>3, <1>4

(* A copy of one chunk more.                                               *)
LEMMA CopiesMore ==
  ASSUME NEW H \in Hists, NEW data \in Seq(Payloads), NEW y \in Int,
         Copies(H, y, data), NEW v \in Payloads, v = PayOf(H, y + Len(data))
  PROVE  Copies(H, y, Append(data, v))
<1> DEFINE k == Len(data)
<1> DEFINE d == Append(data, v)
<1>1. k \in Nat /\ Len(d) = k + 1 /\ d[k + 1] = v /\ \A i \in 1 .. k : d[i] = data[i]
  OBVIOUS
<1>2. v = PayOf(H, y + k)
  BY Zenon
<1>3. \A i \in 1 .. k : data[i] = PayOf(H, y + i - 1)
  BY Zenon DEF Copies
<1> HIDE DEF k, d
<1>4. ASSUME NEW i \in 1 .. k + 1 PROVE d[i] = PayOf(H, y + i - 1)
  <2>1. CASE i = k + 1
    <3>1. y + i - 1 = y + k
      BY <1>1, <2>1
    <3> QED BY Zenon, <3>1, <2>1, <1>1, <1>2
  <2>2. CASE i # k + 1
    <3>1. i \in 1 .. k
      BY <1>1, <2>2
    <3> QED BY Zenon, <3>1, <1>1, <1>3
  <2> QED BY Zenon, <2>1, <2>2
<1>5. Copies(H, y, d)
  BY Zenon, <1>1, <1>4 DEF Copies
<1> QED BY Zenon, <1>5 DEF d

(* Advance moves the handle from x to x + 1.                               *)
LEMMA MoveOn ==
  ASSUME Types, NEW r \in Handles, NEW x \in -1 .. written - 1, At(r.next, r.gen, x)
  PROVE  /\ At(Advance(r).next, Advance(r).gen, x + 1)
         /\ Advance(r).sentinel = r.sentinel /\ Advance(r).sgen = r.sgen
<1>1. written \in 0 .. MaxChunks /\ written \in Int
  BY DEF Types
<1>2. x \in Positions /\ x + 1 \in Positions
  BY <1>1, Past, Sizes
<1>3. /\ Slot(x + 1) = (Slot(x) + 1) % N
      /\ Gen(x + 1) = IF Slot(x) + 1 = N THEN (Gen(x) + 1) % G ELSE Gen(x)
  BY Zenon, <1>2, NextPosition
<1>4. /\ Advance(r).next = (r.next + 1) % N
      /\ Advance(r).gen = IF r.next + 1 = N THEN (r.gen + 1) % G ELSE r.gen
      /\ Advance(r).sentinel = r.sentinel /\ Advance(r).sgen = r.sgen
  BY Zenon DEF Advance, Handles
<1> QED BY Zenon, <1>3, <1>4 DEF At

-----------------------------------------------------------------------------
(* The adapter goes on.                                                    *)

\* The histories H and K have the first m chunks in common.
Agree(H, K, m) == \A a \in 0 .. m - 1 : K[a] = H[a]

(* What is said of chunks that both histories have.                        *)
LEMMA AgreeOn ==
  ASSUME NEW H \in Hists, NEW K \in Hists, NEW m \in Nat, Agree(H, K, m)
  PROVE  /\ \A z \in Int : z < m => (Ends(K, z) <=> Ends(H, z))
         /\ \A z \in 0 .. m - 1 : EndOf(K, z) = EndOf(H, z) /\ PayOf(K, z) = PayOf(H, z)
<1>1. ASSUME NEW z \in Int, z < m PROVE Ends(K, z) <=> Ends(H, z)
  <2>1. CASE z < 0
    BY Zenon, <2>1 DEF Ends
  <2>2. CASE ~ (z < 0)
    <3>1. z \in 0 .. m - 1
      BY <1>1, <2>2
    <3>2. K[z] = H[z]
      BY Zenon, <3>1 DEF Agree
    <3> QED BY Zenon, <3>2 DEF Ends
  <2> QED BY Zenon, <2>1, <2>2
<1>2. ASSUME NEW z \in 0 .. m - 1 PROVE EndOf(K, z) = EndOf(H, z) /\ PayOf(K, z) = PayOf(H, z)
  <2>1. K[z] = H[z]
    BY Zenon DEF Agree
  <2> QED BY Zenon, <2>1 DEF EndOf, PayOf
<1> QED BY Zenon, <1>1, <1>2

(* The chunks before x stay the first of their frame.                      *)
LEMMA AgreeLeads ==
  ASSUME NEW H \in Hists, NEW K \in Hists, NEW m \in Nat, Agree(H, K, m),
         NEW x \in Int, x <= m, NEW k \in Nat, NEW blind \in BOOLEAN, Leads(H, x, k, blind)
  PROVE  Leads(K, x, k, blind)
<1>1. 0 <= x - k /\ x - 1 \in Int /\ x - 1 < m
  BY DEF Leads
<1>2. Ends(K, x - 1) <=> Ends(H, x - 1)
  BY Zenon, <1>1, AgreeOn
<1>3. k > 0 => x - 1 \in 0 .. m - 1 /\ x - k \in 0 .. m - 1
  BY <1>1
<1>4. k > 0 => K[x - 1] = H[x - 1] /\ K[x - k] = H[x - k]
  BY Zenon, <1>3 DEF Agree
<1> QED BY Zenon, <1>1, <1>2, <1>4 DEF Leads

(* What was copied stays a copy.                                           *)
LEMMA AgreeCopies ==
  ASSUME NEW H \in Hists, NEW K \in Hists, NEW m \in Nat, Agree(H, K, m),
         NEW data \in Seq(Payloads), NEW y \in Nat, y + Len(data) <= m, Copies(H, y, data)
  PROVE  Copies(K, y, data)
<1> SUFFICES ASSUME NEW i \in 1 .. Len(data) PROVE data[i] = PayOf(K, y + i - 1)
  BY Zenon DEF Copies
<1>1. y + i - 1 \in 0 .. m - 1
  OBVIOUS
<1>2. \A z \in 0 .. m - 1 : PayOf(K, z) = PayOf(H, z)
  BY AgreeOn
<1>3. PayOf(K, y + i - 1) = PayOf(H, y + i - 1)
  BY Zenon, <1>1, <1>2
<1> QED BY Zenon, <1>3 DEF Copies

(* A scan keeps what it found when the adapter goes on.                    *)
LEMMA AgreeScan ==
  ASSUME NEW H \in Hists, NEW K \in Hists, NEW m \in Nat, Agree(H, K, m),
         NEW w \in Nat, w <= m, NEW v \in Nat, w <= v,
         NEW c \in Nat, NEW b \in -1 .. w - 1, NEW f \in -1 .. w - 1, NEW e \in Int,
         NEW before \in BOOLEAN, NEW found \in BOOLEAN,
         Scanned(H, c, b, f, e, before, found, w)
  PROVE  Scanned(K, c, b, f, e, before, found, v)
<1>1. b \in Int /\ f \in Int /\ b < m /\ f < m
  OBVIOUS
<1>2. (Ends(K, b) <=> Ends(H, b)) /\ (Ends(K, f) <=> Ends(H, f))
  BY Zenon, <1>1, AgreeOn
<1>3. \A z \in Int : w > z => v > z
  OBVIOUS
<1>4. w > f + 1 + N => v > f + 1 + N
  BY <1>1, Sizes
<1>5. w > b + 1 + N => v > b + 1 + N
  BY <1>1, Sizes
<1>6. b < v /\ f < v
  OBVIOUS
<1> QED BY Zenon, <1>1, <1>2, <1>4, <1>5, <1>6 DEF Scanned

(* The adapter goes on while the reader is anywhere.                       *)
LEMMA ReaderWaits ==
  ASSUME Types, NEW H \in Hists, NEW K \in Hists, Agree(H, K, Begun),
         written' \in Nat, written <= written', Begun' \in Nat, Begun <= Begun',
         UNCHANGED <<api, rx, pc, got, loc, cu, more, stale, told, out>>,
         Reads(H)
  PROVE  Reads(K)'
<1>1. /\ written \in Nat /\ Begun \in Nat /\ written <= Begun /\ N \in Nat
      /\ got \in Seq(Payloads) /\ Len(got) \in Nat /\ cu.blind \in BOOLEAN
      /\ cu.before \in BOOLEAN /\ cu.found \in BOOLEAN /\ cu.chunk \in Nat
      /\ out.end \in Int
  BY Progress, Sizes DEF Types, Scans
<1>2. PICK x \in 0 .. written : \E s \in -1 .. written, a \in -1 .. written : Reader(H, x, s, a)
  BY Zenon DEF Reads
<1>3. PICK s \in -1 .. written : \E a \in -1 .. written : Reader(H, x, s, a)
  BY Zenon, <1>2
<1>4. PICK a \in -1 .. written : Reader(H, x, s, a)
  BY Zenon, <1>3
<1>5. x \in Int /\ s \in Int /\ a \in Int /\ 0 <= x /\ x <= Begun /\ x - 1 < Begun
  BY <1>1
<1>6. \A z \in Int : z < Begun => (Ends(K, z) <=> Ends(H, z))
  BY Zenon, <1>1, AgreeOn
<1>7. \A z \in 0 .. Begun - 1 : EndOf(K, z) = EndOf(H, z) /\ PayOf(K, z) = PayOf(H, z)
  BY ZenonT(30), <1>1, AgreeOn
<1>8. Ends(K, x - 1) <=> Ends(H, x - 1)
  <2>1. x - 1 \in Int
    BY <1>5
  <2> QED BY Zenon, <2>1, <1>5, <1>6
<1>9. Leads(H, x, Len(got), cu.blind) => /\ Leads(K, x, Len(got), cu.blind)
                                         /\ x - Len(got) \in Nat
  <2>1. Leads(H, x, Len(got), cu.blind) => Leads(K, x, Len(got), cu.blind)
    BY <1>1, <1>5, AgreeLeads
  <2> QED BY <1>1, <1>5, <2>1 DEF Leads
<1>10. Leads(H, x, Len(got), cu.blind) /\ Copies(H, x - Len(got), got)
         => Copies(K, x - Len(got), got)
  <2> SUFFICES ASSUME Leads(H, x, Len(got), cu.blind), Copies(H, x - Len(got), got)
               PROVE  Copies(K, x - Len(got), got)
    BY Zenon
  <2>1. x - Len(got) \in Nat
    BY Zenon, <1>9
  <2>2. (x - Len(got)) + Len(got) <= Begun
    BY <1>1, <1>5
  <2> QED BY Zenon, <1>1, <2>1, <2>2, AgreeCopies
<1>0. x \in 0 .. written' /\ s \in -1 .. written' /\ a \in -1 .. written'
  <2>1. written \in Nat /\ written' \in Nat /\ written <= written'
    BY Zenon, <1>1
  <2> QED BY <2>1
<1>11. CASE pc = "closed"
  <2>1. ClosedInv'
    BY <1>1, <1>4, <1>11 DEF Reader, ClosedInv
  <2>2. Reader(K, x, s, a)'
    BY Zenon, <1>4, <1>11, <2>1 DEF Reader, Polling
  <2> QED BY Zenon, <2>2, <1>0 DEF Reads
<1>12. CASE pc = "idle"
  <2>1. IdleInv(H, x, s)
    BY Zenon, <1>4, <1>12 DEF Reader
  <2>2. IdleInv(K, x, s)'
    BY SMTT(30), <2>1, <1>1, <1>5, <1>8, <1>9, <1>10 DEF IdleInv, Ahead
  <2>3. Reader(K, x, s, a)'
    BY Zenon, <1>4, <1>12, <2>2 DEF Reader, Polling
  <2> QED BY Zenon, <2>3, <1>0 DEF Reads
<1>13. CASE pc = "spin"
  <2>1. SpinInv(H, x, s)
    BY Zenon, <1>4, <1>13 DEF Reader
  <2>2. SpinInv(K, x, s)'
    BY <2>1, <1>1, <1>5, <1>8, <1>9, <1>10 DEF SpinInv, Ahead
  <2>3. Reader(K, x, s, a)'
    BY Zenon, <1>4, <1>13, <2>2 DEF Reader, Polling
  <2> QED BY Zenon, <2>3, <1>0 DEF Reads
<1>14. CASE pc = "chunk"
  <2>1. ChunkInv(H, x, s)
    BY Zenon, <1>4, <1>14 DEF Reader
  <2>2. Ends(K, x) <=> Ends(H, x)
    BY SMTT(30), <2>1, <1>1, <1>5, <1>6 DEF ChunkInv
  <2>3. ChunkInv(K, x, s)'
    BY SMTT(30), <2>1, <2>2, <1>1, <1>5, <1>8, <1>9, <1>10 DEF ChunkInv, Ahead
  <2>4. Reader(K, x, s, a)'
    BY Zenon, <1>4, <1>14, <2>3 DEF Reader, Polling
  <2> QED BY Zenon, <2>4, <1>0 DEF Reads
<1>15. CASE pc = "memcpy"
  <2>1. MemcpyInv(H, x, s, a)
    BY Zenon, <1>4, <1>15 DEF Reader
  <2>2. Ends(K, x - 2) <=> Ends(H, x - 2)
    <3>1. x - 2 \in Int /\ x - 2 < Begun
      BY SMTT(30), <1>1, <1>5
    <3> QED BY Zenon, <3>1, <1>6
  <2>3. Leads(K, x - 1, Len(got), cu.blind) /\ x - 1 - Len(got) \in Nat
    <3>1. x - 1 \in Int /\ x - 1 <= Begun /\ Leads(H, x - 1, Len(got), cu.blind)
      BY <2>1, <1>1, <1>5 DEF MemcpyInv
    <3>2. Leads(K, x - 1, Len(got), cu.blind)
      BY <3>1, <1>1, AgreeLeads
    <3> QED BY <3>1, <3>2, <1>1, <1>5 DEF Leads
  <2>4. Copies(K, x - 1 - Len(got), got)
    <3>1. (x - 1 - Len(got)) + Len(got) <= Begun /\ Copies(H, x - 1 - Len(got), got)
      BY <2>1, <1>1, <1>5 DEF MemcpyInv
    <3> QED BY <3>1, <2>3, <1>1, AgreeCopies
  <2>5. MemcpyInv(K, x, s, a)'
    BY Zenon, <2>1, <2>2, <2>3, <2>4, <1>1, <1>5, <1>8 DEF MemcpyInv, Ahead
  <2>6. Reader(K, x, s, a)'
    BY Zenon, <1>4, <1>15, <2>5 DEF Reader, Polling
  <2> QED BY Zenon, <2>6, <1>0 DEF Reads
<1>16. CASE pc = "check"
  <2>1. CheckInv(H, x, s, a)
    BY Zenon, <1>4, <1>16 DEF Reader
  <2>2. CheckInv(K, x, s, a)'
    BY <2>1, <1>1, <1>5, <1>8, <1>9, <1>10 DEF CheckInv, Ahead
  <2>3. Reader(K, x, s, a)'
    BY Zenon, <1>4, <1>16, <2>2 DEF Reader, Polling
  <2> QED BY Zenon, <2>3, <1>0 DEF Reads
<1>17. CASE pc = "abort"
  <2>1. AbortInv(H, x, s)
    BY Zenon, <1>4, <1>17 DEF Reader
  <2>2. ~ Ends(H, x - 1) => EndOf(K, x - 1) = EndOf(H, x - 1)
    <3>1. ~ Ends(H, x - 1) => x - 1 \in 0 .. Begun - 1
      BY <1>1, <1>5 DEF Ends
    <3> QED BY Zenon, <3>1, <1>7
  <2>3. AbortInv(K, x, s)'
    BY <2>1, <2>2, <1>1, <1>5, <1>8 DEF AbortInv
  <2>4. Reader(K, x, s, a)'
    BY Zenon, <1>4, <1>17, <2>3 DEF Reader, Polling
  <2> QED BY Zenon, <2>4, <1>0 DEF Reads
<1>18. CASE pc \in Polling
  <2>1. PollInv(H, x, a)
    BY Zenon, <1>4, <1>18 DEF Reader
  <2>2. 0 <= a /\ a < x
    BY Zenon, <2>1 DEF PollInv
  <2>3. K[a] = H[a] /\ K[x - 1] = H[x - 1]
    <3>1. a \in 0 .. Begun - 1 /\ x - 1 \in 0 .. Begun - 1
      BY <2>2, <1>1, <1>5
    <3> QED BY Zenon, <3>1 DEF Agree
  <2>4. Ends(K, a - 1) <=> Ends(H, a - 1)
    <3>1. a - 1 \in Int /\ a - 1 < Begun
      BY <2>2, <1>1, <1>5
    <3> QED BY Zenon, <3>1, <1>6
  <2>5. pc \notin {"parse", "copy"} /\ Copies(H, a, got) => Copies(K, a, got)
    <3> SUFFICES ASSUME pc \notin {"parse", "copy"}, Copies(H, a, got) PROVE Copies(K, a, got)
      BY Zenon
    <3>1. Len(got) <= x - a
      BY <2>1, <1>1, <1>5, <1>18 DEF PollInv, Polling
    <3>2. a \in Nat /\ a + Len(got) <= Begun
      BY <3>1, <2>2, <1>1, <1>5
    <3> QED BY Zenon, <3>2, <1>1, AgreeCopies
  <2>6. Begun' <= a + N => Begun <= a + N
    BY SMTT(30), <1>1, <1>5
  <2>7. PollInv(K, x, a)'
    BY SMTT(30), <2>1, <2>3, <2>4, <2>5, <2>6, <1>8 DEF PollInv, Ahead
  <2>8. Reader(K, x, s, a)'
    BY Zenon, <1>4, <1>18, <2>7 DEF Reader, Polling
  <2> QED BY Zenon, <2>8, <1>0 DEF Reads
<1>19. CASE pc = "catchup"
  <2>1. CatchupInv(H)
    BY Zenon, <1>4, <1>19 DEF Reader
  <2>2. ASSUME cu.chunk < N
        PROVE  \E b, f \in -1 .. written' - 1 :
                 /\ At(cu.breakChunk, cu.breakGen, b)
                 /\ cu.found => At(cu.eofChunk, cu.eofGen, f)
                 /\ Scanned(K, cu.chunk, b, f, out.end, cu.before, cu.found, written')
    <3>1. PICK b \in -1 .. written - 1 : \E f \in -1 .. written - 1 :
                 /\ At(cu.breakChunk, cu.breakGen, b)
                 /\ cu.found => At(cu.eofChunk, cu.eofGen, f)
                 /\ Scanned(H, cu.chunk, b, f, out.end, cu.before, cu.found, written)
      BY Zenon, <2>1, <2>2 DEF CatchupInv
    <3>2. PICK f \in -1 .. written - 1 :
                 /\ At(cu.breakChunk, cu.breakGen, b)
                 /\ cu.found => At(cu.eofChunk, cu.eofGen, f)
                 /\ Scanned(H, cu.chunk, b, f, out.end, cu.before, cu.found, written)
      BY Zenon, <3>1
    <3>3. Scanned(K, cu.chunk, b, f, out.end, cu.before, cu.found, written')
      <4>1. /\ cu.chunk \in Nat /\ out.end \in Int /\ Begun \in Nat /\ written \in Nat
            /\ cu.before \in BOOLEAN /\ cu.found \in BOOLEAN /\ written <= Begun
        BY Zenon, <1>1
      <4>2. Scanned(H, cu.chunk, b, f, out.end, cu.before, cu.found, written)
        BY Zenon, <3>2
      <4>3. b \in -1 .. written - 1 /\ f \in -1 .. written - 1
        BY Zenon, <3>1, <3>2
      <4> QED BY <4>1, <4>2, <4>3, AgreeScan
    <3>4. b \in -1 .. written' - 1 /\ f \in -1 .. written' - 1
      <4>1. written \in Nat /\ b \in -1 .. written - 1 /\ f \in -1 .. written - 1
        BY Zenon, <1>1, <3>1, <3>2
      <4> QED BY Zenon, <4>1, Behind
    <3> QED BY Zenon, <3>2, <3>3, <3>4
  <2>3. CatchupInv(K)'
    <3>1. (out.end < written)'
      <4>1. out.end < written /\ out' = out
        BY Zenon, <2>1 DEF CatchupInv
      <4>2. out.end \in Int /\ written \in Nat /\ written' \in Nat /\ written <= written'
        BY Zenon, <1>1
      <4> QED BY <4>1, <4>2
    <3> QED BY ZenonT(30), <2>1, <2>2, <3>1 DEF CatchupInv
  <2>4. Reader(K, x, s, a)'
    BY Zenon, <1>4, <1>19, <2>3 DEF Reader, Polling
  <2> QED BY Zenon, <2>4, <1>0 DEF Reads
<1>20. pc \in Phases
  BY Zenon DEF Types
<1> QED BY Zenon, <1>11, <1>12, <1>13, <1>14, <1>15, <1>16, <1>17, <1>18, <1>19, <1>20
        DEF Phases, Polling

(* The adapter writes the payload of a chunk.                              *)
LEMMA PayloadInv ==
  ASSUME Types, NEW H \in Hists, Ring(H), Reads(H),
         NEW f \in [idx : Nat, len : 1 .. MaxFrame, bad : BOOLEAN], WritePayload(f),
         f.idx < f.len, written + f.len - f.idx <= MaxChunks,
         \/ f.idx = 0 /\ frame.idx = frame.len
         \/ f = frame
  PROVE  IInv'
<1>1. /\ written \in Nat /\ written <= MaxChunks /\ written' = written /\ half' = TRUE
      /\ Begun = written /\ Begun' = written + 1 /\ written \in 0 .. MaxChunks
  BY Zenon, Progress DEF WritePayload, Types, Begun
<1>2. f.idx \in Nat /\ f.len \in Nat /\ f.len \in 1 .. MaxFrame /\ f.bad \in BOOLEAN
      /\ f.len <= MaxFrame /\ frame.idx \in Nat /\ frame.len \in Nat
  BY Sizes DEF Types
<1> DEFINE K == [H EXCEPT ![written] = [idx |-> f.idx + 1, len |-> f.len]]
<1>3. /\ K \in Hists /\ K[written].idx = f.idx + 1 /\ K[written].len = f.len
      /\ \A z \in Nat : z # written => K[z] = H[z]
  <2>1. PICK v : v = [idx |-> f.idx + 1, len |-> f.len]
    BY Zenon
  <2>2. v \in [idx : Nat, len : Nat] /\ v.idx = f.idx + 1 /\ v.len = f.len
    BY <1>2, <2>1
  <2>3. written \in Nat /\ H \in [Nat -> [idx : Nat, len : Nat]]
    BY Zenon, <1>1 DEF Hists
  <2>4. K = [H EXCEPT ![written] = v]
    BY Zenon, <2>1
  <2> HIDE DEF K
  <2>5. K \in [Nat -> [idx : Nat, len : Nat]] /\ K[written] = v
        /\ \A z \in Nat : z # written => K[z] = H[z]
    BY Zenon, <2>2, <2>3, <2>4
  <2> QED BY Zenon, <2>2, <2>5 DEF Hists
<1>4. PICK w : w = written
  BY Zenon
<1> HIDE DEF K
<1>5. PICK J \in Hists : J = K
  BY Zenon, <1>3
<1>6. /\ J[w].idx = f.idx + 1 /\ J[w].len = f.len /\ w \in Nat /\ w \in 0 .. MaxChunks
      /\ written = w /\ written' = w /\ Begun = w /\ Begun' = w + 1
      /\ \A z \in Nat : z # w => J[z] = H[z]
  BY Zenon, <1>1, <1>3, <1>4, <1>5
<1>7. Agree(H, J, w)
  BY <1>6 DEF Agree
<1>8. \A z \in Int : z < w => (Ends(J, z) <=> Ends(H, z))
  BY Zenon, <1>6, <1>7, AgreeOn
<1>9. \A z \in 0 .. w - 1 : EndOf(J, z) = EndOf(H, z) /\ PayOf(J, z) = PayOf(H, z)
  BY Zenon, <1>6, <1>7, AgreeOn
<1>10. /\ w = 0 => frame.idx = frame.len
       /\ w > 0 => frame.idx = H[w - 1].idx /\ frame.len = H[w - 1].len
  BY Zenon, <1>6 DEF Ring, HistInv
<1>11. w > 0 => H[w - 1].idx \in Nat /\ H[w - 1].len \in Nat
  <2>1. w > 0 => w - 1 \in Nat
    BY <1>6
  <2> QED BY Zenon, <2>1 DEF Hists
<1>12. Ends(H, w - 1) <=> f.idx = 0
  <2>1. w = 0 => Ends(H, w - 1)
    BY <1>6 DEF Ends
  <2>2. w > 0 => (Ends(H, w - 1) <=> frame.idx = frame.len)
    BY SMTT(30), <1>6, <1>10, <1>11 DEF Ends
  <2>3. w > 0 /\ f = frame => H[w - 1].idx > 0
    <3>1. w > 0 => w - 1 \in 0 .. written - 1
      BY SMTT(30), <1>6
    <3> QED BY <3>1, <1>6, Place DEF Ring
  <2> QED BY <2>1, <2>2, <2>3, <1>2, <1>6, <1>10, <1>11
<1>13. /\ EndOf(J, w) = w + f.len - (f.idx + 1) /\ EndOf(J, w) \in Int
       /\ w <= EndOf(J, w)
       /\ EndOf(J, w) = w => Ends(J, w)
       /\ ~ Ends(H, w - 1) => w > 0 /\ EndOf(J, w) = EndOf(H, w - 1)
       /\ Ends(H, w - 1) /\ w > 0 => EndOf(H, w - 1) = w - 1
  <2>1. EndOf(J, w) = w + f.len - (f.idx + 1)
    BY Zenon, <1>6 DEF EndOf
  <2>2. EndOf(J, w) = w => Ends(J, w)
    BY SMTT(30), <2>1, <1>2, <1>6 DEF Ends
  <2>3. ~ Ends(H, w - 1) => w > 0 /\ EndOf(J, w) = EndOf(H, w - 1)
    BY SMTT(30), <2>1, <1>2, <1>6, <1>10, <1>11, <1>12 DEF EndOf, Ends
  <2>4. Ends(H, w - 1) /\ w > 0 => EndOf(H, w - 1) = w - 1
    BY <1>6, <1>11 DEF EndOf, Ends
  <2> QED BY <2>1, <2>2, <2>3, <2>4, <1>2, <1>6
\* An end that is still to come is that of the frame being written.
<1>14. ASSUME NEW e \in Int, e >= w, w > 0, e = EndOf(H, w - 1)
       PROVE  e = EndOf(J, w) /\ (e < w + 1 => Ends(J, e))
  BY <1>6, <1>13, <1>14
<1>15. Types'
  <2>1. frame' \in [idx : Nat, len : 1 .. MaxFrame, bad : BOOLEAN]
    BY <1>2 DEF WritePayload
  <2>2. [n |-> written, idx |-> f.idx + 1, len |-> f.len] \in Payloads
    BY <1>1, <1>2 DEF Payloads
  <2>3. buffer' \in [Chunks -> [payload : Payloads, info : Infos]]
    <3> DEFINE v == [n |-> written, idx |-> f.idx + 1, len |-> f.len]
    <3> DEFINE c == written % N
    <3>1. v \in Payloads /\ buffer' = [buffer EXCEPT ![c].payload = v]
          /\ buffer \in [Chunks -> [payload : Payloads, info : Infos]]
      BY Zenon, <2>2 DEF WritePayload, Types
    <3> HIDE DEF v, c
    <3> QED BY Zenon, <3>1
  <2> QED BY Zenon, <2>1, <2>3, <1>1 DEF Types, WritePayload
<1>16. HistInv(J)'
  <2>1. ASSUME NEW a \in 0 .. w
        PROVE  /\ J[a].idx \in 1 .. J[a].len /\ J[a].len <= MaxFrame
               /\ Ends(J, a - 1) => J[a].idx = 1
               /\ ~ Ends(J, a - 1) => J[a].idx = J[a - 1].idx + 1 /\ J[a].len = J[a - 1].len
               /\ EndOf(J, a) < w + 1 => Ends(J, EndOf(J, a))
               /\ EndOf(J, a) >= w + 1 => EndOf(J, a) = EndOf(J, (w + 1) - 1)
    <3>0. a \in Nat /\ a - 1 \in Int /\ a - 1 < w /\ (w + 1) - 1 = w
      BY <1>6
    <3>1. Ends(J, a - 1) <=> Ends(H, a - 1)
      BY Zenon, <3>0, <1>8
    <3>2. ~ Ends(H, a - 1) => J[a - 1] = H[a - 1]
      <4>1. ~ Ends(H, a - 1) => a - 1 \in Nat /\ a - 1 # w
        BY <3>0, <1>6 DEF Ends
      <4> QED BY Zenon, <4>1, <1>6
    <3>3. CASE a = w
      <4>1. J[a].idx \in 1 .. J[a].len /\ J[a].len <= MaxFrame
        BY <3>3, <1>2, <1>6
      <4>2. Ends(J, a - 1) => J[a].idx = 1
        BY <3>1, <3>3, <1>2, <1>6, <1>12
      <4>3. ~ Ends(J, a - 1) => J[a].idx = J[a - 1].idx + 1 /\ J[a].len = J[a - 1].len
        <5> SUFFICES ASSUME ~ Ends(J, a - 1)
                     PROVE  J[a].idx = J[a - 1].idx + 1 /\ J[a].len = J[a - 1].len
          BY Zenon
        <5>1. ~ Ends(H, w - 1) /\ J[w - 1] = H[w - 1] /\ w > 0
          BY Zenon, <3>1, <3>2, <3>3, <1>13
        <5>2. f = frame
          BY Zenon, <5>1, <1>12
        <5> QED BY Zenon, <5>1, <5>2, <3>3, <1>6, <1>10
      <4>4. EndOf(J, a) < w + 1 => Ends(J, EndOf(J, a))
        BY SMTT(30), <3>3, <1>6, <1>13
      <4> QED BY Zenon, <3>0, <3>3, <4>1, <4>2, <4>3, <4>4
    <3>4. CASE a # w
      <4>1. a \in 0 .. written - 1 /\ a \in 0 .. w - 1
        BY <3>0, <3>4, <1>6
      <4>2. J[a] = H[a] /\ EndOf(J, a) = EndOf(H, a)
        BY ZenonT(30), <4>1, <3>0, <3>4, <1>6, <1>9
      <4>3. /\ H[a].idx \in Nat /\ H[a].len \in Nat
            /\ 1 <= H[a].idx /\ H[a].idx <= H[a].len /\ H[a].len <= MaxFrame
            /\ Ends(H, a - 1) => H[a].idx = 1
            /\ ~ Ends(H, a - 1) => H[a].idx = H[a - 1].idx + 1 /\ H[a].len = H[a - 1].len
            /\ EndOf(H, a) \in Nat
            /\ EndOf(H, a) < w => Ends(H, EndOf(H, a))
            /\ EndOf(H, a) >= w => EndOf(H, a) = EndOf(H, w - 1)
        <5>1. HistInv(H)
          BY Zenon DEF Ring
        <5>2. w = Begun
          BY Zenon, <1>1, <1>4
        <5> QED BY <4>1, <5>1, <5>2, Place
      <4>4. EndOf(H, a) < w => Ends(J, EndOf(H, a))
        BY SMTT(30), <4>3, <1>8
      <4>5. EndOf(H, a) >= w => /\ EndOf(H, a) = EndOf(J, w)
                                /\ EndOf(H, a) < w + 1 => Ends(J, EndOf(H, a))
        BY SMTT(30), <4>1, <4>3, <1>6, <1>14
      <4>6. /\ EndOf(J, a) < w + 1 => Ends(J, EndOf(J, a))
            /\ EndOf(J, a) >= w + 1 => EndOf(J, a) = EndOf(J, (w + 1) - 1)
        BY <4>2, <4>3, <4>4, <4>5, <3>0, <1>6
      <4> QED BY SMTT(30), <4>2, <4>3, <4>6, <3>1, <3>2
    <3> QED BY Zenon, <3>3, <3>4
  <2>2. frame'.idx = f.idx + 1 /\ frame'.len = f.len
    BY Zenon, <1>2 DEF WritePayload
  <2>3. 0 .. Begun' - 1 = 0 .. w
    BY SMTT(30), <1>6
  <2>4. /\ Begun' # 0 /\ Begun' - 1 = w
        /\ Begun' + frame'.len - frame'.idx <= MaxChunks /\ frame'.idx <= frame'.len
    BY <2>2, <1>2, <1>6, Sizes
  <2>5. /\ Begun' = 0 => frame'.idx = frame'.len
        /\ Begun' > 0 => frame'.idx = J[Begun' - 1].idx /\ frame'.len = J[Begun' - 1].len
    BY Zenon, <2>2, <2>4, <1>6
  <2>6. \A a \in 0 .. Begun' - 1 :
          /\ J[a].idx \in 1 .. J[a].len /\ J[a].len <= MaxFrame
          /\ Ends(J, a - 1) => J[a].idx = 1
          /\ ~ Ends(J, a - 1) => J[a].idx = J[a - 1].idx + 1 /\ J[a].len = J[a - 1].len
          /\ EndOf(J, a) < Begun' => Ends(J, EndOf(J, a))
          /\ EndOf(J, a) >= Begun' => EndOf(J, a) = EndOf(J, Begun' - 1)
    BY Zenon, <2>1, <2>3, <1>6
  <2> QED BY Zenon, <2>4, <2>5, <2>6 DEF HistInv
<1>17. BufInv(J)'
  <2> DEFINE v == [n |-> written, idx |-> f.idx + 1, len |-> f.len]
  <2>1. /\ buffer' = [buffer EXCEPT ![Slot(w)].payload = v]
        /\ buffer \in [Chunks -> [payload : Payloads, info : Infos]]
    BY Zenon, <1>6 DEF WritePayload, Types, Slot
  <2>2. v = PayOf(J, w)
    BY Zenon, <1>6 DEF PayOf
  <2> HIDE DEF v
  <2>3. w \in Positions /\ Slot(w) \in Chunks
    BY <1>6, Past, Laps, Sizes DEF Chunks
  <2>4. \A c \in Chunks : /\ buffer'[c].info = buffer[c].info
                          /\ c # Slot(w) => buffer'[c].payload = buffer[c].payload
    BY Zenon, <2>1, <2>3
  <2>5. buffer'[Slot(w)].payload = v
    BY Zenon, <2>1, <2>3
  <2>6. ASSUME NEW a \in w - N .. w - 1
        PROVE  /\ buffer'[Slot(a)].info.gen = Gen(a)
               /\ buffer'[Slot(a)].info.last <=> Ends(J, a)
               /\ buffer'[Slot(a)].info.bad => buffer'[Slot(a)].info.last
    <3>1. a \in Positions /\ a \in Int /\ a < w
      BY <1>6, Past, Sizes
    <3>2. Slot(a) \in Chunks
      BY Zenon, <3>1, Laps DEF Chunks
    <3>3. buffer'[Slot(a)].info = buffer[Slot(a)].info
      BY Zenon, <3>2, <2>4
    <3>4. /\ buffer[Slot(a)].info.gen = Gen(a)
          /\ buffer[Slot(a)].info.last <=> Ends(H, a)
          /\ buffer[Slot(a)].info.bad => buffer[Slot(a)].info.last
      BY Zenon, <1>6 DEF Ring, BufInv
    <3> QED BY Zenon, <3>1, <3>3, <3>4, <1>8
  <2>7. ASSUME NEW a \in (w + 1) - N .. (w + 1) - 1, a >= 0
        PROVE  buffer'[Slot(a)].payload = PayOf(J, a)
    <3>1. CASE a = w
      BY Zenon, <3>1, <2>2, <2>5
    <3>2. CASE a # w
      <4>1. a \in Positions /\ a \in 0 .. w - 1 /\ a \in w - N .. w - 1 /\ a < w + N /\ w < a + N
        BY <3>2, <2>7, <1>6, Past, Sizes
      <4>2. Slot(a) # Slot(w) /\ Slot(a) \in Chunks
        BY Zenon, <3>2, <4>1, <2>3, OtherSlot, Laps DEF Chunks
      <4>3. buffer'[Slot(a)].payload = buffer[Slot(a)].payload
        BY Zenon, <4>2, <2>4
      <4>4. buffer[Slot(a)].payload = PayOf(H, a)
        BY Zenon, <4>1, <2>7, <1>6 DEF Ring, BufInv
      <4> QED BY Zenon, <4>1, <4>3, <4>4, <1>9
    <3> QED BY Zenon, <3>1, <3>2
  <2> QED BY Zenon, <2>6, <2>7, <1>6 DEF BufInv
<1>18. Delivered(J)'
  <2>1. UNCHANGED out /\ out.end \in Int
    BY Zenon DEF WritePayload, Types
  <2>2. /\ out.whole /\ out.ordered /\ out.end >= -1
        /\ out.end < w => Ends(H, out.end)
        /\ out.end >= w => w > 0 /\ out.end = EndOf(H, w - 1)
    BY Zenon, <1>6 DEF Ring, Delivered
  <2>3. out.end < w + 1 => Ends(J, out.end)
    BY SMTT(30), <2>1, <2>2, <1>6, <1>8, <1>14
  <2>4. out.end >= w + 1 => w + 1 > 0 /\ out.end = EndOf(J, (w + 1) - 1)
    <3>1. (w + 1) - 1 = w
      BY <1>6
    <3> QED BY SMTT(30), <3>1, <2>1, <2>2, <1>6, <1>14
  <2> QED BY Zenon, <2>1, <2>2, <2>3, <2>4, <1>6 DEF Delivered
<1>19. Reads(J)'
  <2>1. UNCHANGED <<api, rx, pc, got, loc, cu, more, stale, told, out>>
    BY Zenon DEF WritePayload
  <2>2. /\ written' \in Nat /\ written <= written' /\ Begun' \in Nat /\ Begun <= Begun'
        /\ Agree(H, J, Begun)
    BY <1>6, <1>7
  <2> QED BY Zenon, <2>1, <2>2, ReaderWaits
<1> QED BY Zenon, <1>15, <1>16, <1>17, <1>18, <1>19 DEF IInv, Ring

(* The adapter writes the generation: the chunk is there.                  *)
LEMMA InfoInv ==
  ASSUME Types, NEW H \in Hists, Ring(H), Reads(H), WriteInfo
  PROVE  IInv'
<1>1. PICK w : w = written
  BY Zenon
<1>2. /\ w \in Nat /\ w \in 0 .. MaxChunks /\ written = w /\ written' = w + 1
      /\ half = TRUE /\ half' = FALSE /\ Begun = w + 1 /\ Begun' = w + 1
  BY <1>1 DEF WriteInfo, Types, Begun
<1>3. frame.idx \in Nat /\ frame.len \in Nat /\ frame.bad \in BOOLEAN /\ frame.idx <= frame.len
      /\ w + 1 <= MaxChunks /\ frame.idx = H[w].idx /\ frame.len = H[w].len
  <2>1. /\ Begun > 0 => frame.idx = H[Begun - 1].idx /\ frame.len = H[Begun - 1].len
        /\ Begun + frame.len - frame.idx <= MaxChunks
        /\ frame.idx <= frame.len
    BY Zenon DEF Ring, HistInv
  <2>2. Begun > 0 /\ Begun - 1 = w
    BY <1>2
  <2>3. frame.idx \in Nat /\ frame.len \in Nat /\ frame.bad \in BOOLEAN
    BY Sizes DEF Types
  <2> QED BY <2>1, <2>2, <2>3, <1>2, Sizes
<1> DEFINE last == frame.idx = frame.len
<1> DEFINE i == [gen |-> (w \div N) % G, last |-> last, bad |-> last /\ frame.bad]
<1>4. w \in Positions /\ Slot(w) \in Chunks /\ Gen(w) \in Gens
  BY <1>2, Past, Laps, GenOfLap, Sizes DEF Chunks, Gens
<1>5. /\ buffer' = [buffer EXCEPT ![Slot(w)].info = i]
      /\ buffer \in [Chunks -> [payload : Payloads, info : Infos]]
  BY Zenon, <1>2 DEF WriteInfo, Types, Slot
<1>6. i.gen = Gen(w) /\ (i.last <=> Ends(H, w)) /\ (i.bad => i.last) /\ i \in Infos
  <2>1. i.gen = Gen(w) /\ (i.last <=> last) /\ (i.bad => i.last)
    BY Zenon DEF Gen
  <2>2. last <=> Ends(H, w)
    BY <1>2, <1>3 DEF Ends
  <2>3. i \in Infos
    BY Zenon, <1>4 DEF Infos, Gen, Gens
  <2> QED BY Zenon, <2>1, <2>2, <2>3
<1> HIDE DEF i
<1>7. \A c \in Chunks : /\ buffer'[c].payload = buffer[c].payload
                        /\ c # Slot(w) => buffer'[c].info = buffer[c].info
  BY Zenon, <1>4, <1>5
<1>8. buffer'[Slot(w)].info = i
  BY Zenon, <1>4, <1>5
<1>9. Types'
  <2>1. buffer' \in [Chunks -> [payload : Payloads, info : Infos]]
    BY Zenon, <1>4, <1>5, <1>6
  <2>2. written' \in 0 .. MaxChunks
    <3>1. w + 1 \in 0 .. MaxChunks
      BY <1>2, <1>3, Sizes
    <3> QED BY Zenon, <3>1, <1>2
  <2>4. half' \in BOOLEAN
    BY Zenon, <1>2
  <2>3. UNCHANGED <<frame, api, rx, pc, got, loc, cu, more, stale, told, out>>
    BY Zenon DEF WriteInfo
  <2> QED BY Zenon, <2>1, <2>2, <2>3, <2>4 DEF Types
<1>10. HistInv(H)'
  BY Zenon, <1>2 DEF Ring, HistInv, WriteInfo
<1>11. BufInv(H)'
  <2>1. ASSUME NEW a \in (w + 1) - N .. (w + 1) - 1
        PROVE  /\ buffer'[Slot(a)].info.gen = Gen(a)
               /\ buffer'[Slot(a)].info.last <=> Ends(H, a)
               /\ buffer'[Slot(a)].info.bad => buffer'[Slot(a)].info.last
    <3>1. CASE a = w
      BY Zenon, <3>1, <1>6, <1>8
    <3>2. CASE a # w
      <4>1. a \in Positions /\ a \in w - N .. w - 1 /\ a < w + N /\ w < a + N
        BY <3>2, <2>1, <1>2, Past, Sizes
      <4>2. Slot(a) # Slot(w) /\ Slot(a) \in Chunks
        BY Zenon, <3>2, <4>1, <1>4, OtherSlot, Laps DEF Chunks
      <4>3. buffer'[Slot(a)].info = buffer[Slot(a)].info
        BY Zenon, <4>2, <1>7
      <4>4. /\ buffer[Slot(a)].info.gen = Gen(a)
            /\ buffer[Slot(a)].info.last <=> Ends(H, a)
            /\ buffer[Slot(a)].info.bad => buffer[Slot(a)].info.last
        BY Zenon, <4>1, <1>2 DEF Ring, BufInv
      <4> QED BY Zenon, <4>3, <4>4
    <3> QED BY Zenon, <3>1, <3>2
  <2>2. ASSUME NEW a \in (w + 1) - N .. (w + 1) - 1, a >= 0
        PROVE  buffer'[Slot(a)].payload = PayOf(H, a)
    <3>1. a \in Positions
      BY <1>2, <1>3, Past, Sizes DEF Positions
    <3>2. Slot(a) \in Chunks
      BY Zenon, <3>1, Laps DEF Chunks
    <3>3. buffer[Slot(a)].payload = PayOf(H, a)
      BY Zenon, <2>2, <1>2 DEF Ring, BufInv
    <3> QED BY Zenon, <3>2, <3>3, <1>7
  <2> QED BY Zenon, <2>1, <2>2, <1>2 DEF BufInv
<1>12. Delivered(H)'
  BY Zenon, <1>2 DEF Ring, Delivered, WriteInfo
<1>13. Reads(H)'
  <2>1. UNCHANGED <<api, rx, pc, got, loc, cu, more, stale, told, out>>
    BY Zenon DEF WriteInfo
  <2>2. /\ written' \in Nat /\ written <= written' /\ Begun' \in Nat /\ Begun <= Begun'
        /\ Agree(H, H, Begun)
    BY <1>2 DEF Agree
  <2> QED BY Zenon, <2>1, <2>2, ReaderWaits
<1> QED BY Zenon, <1>9, <1>10, <1>11, <1>12, <1>13 DEF IInv, Ring

(* The adapter keeps the invariant.                                        *)
LEMMA AdapterInv ==
  ASSUME IInv, Adapter
  PROVE  IInv'
<1>1. PICK H \in Hists : Ring(H) /\ Reads(H)
  BY Zenon DEF IInv
<1>2. Types
  BY Zenon DEF IInv
<1>3. /\ written \in Nat /\ frame \in [idx : Nat, len : 1 .. MaxFrame, bad : BOOLEAN]
  BY <1>2 DEF Types
<1>4. CASE StartFrame
  <2>1. PICK l \in 1 .. MaxFrame : \E b \in BOOLEAN :
          written + l <= MaxChunks /\ WritePayload([idx |-> 0, len |-> l, bad |-> b])
    BY Zenon, <1>4 DEF StartFrame
  <2>2. PICK b \in BOOLEAN :
          written + l <= MaxChunks /\ WritePayload([idx |-> 0, len |-> l, bad |-> b])
    BY Zenon, <2>1
  <2> DEFINE f == [idx |-> 0, len |-> l, bad |-> b]
  <2>3. f \in [idx : Nat, len : 1 .. MaxFrame, bad : BOOLEAN] /\ f.idx = 0 /\ f.len = l
    BY Zenon
  <2>4. WritePayload(f) /\ frame.idx = frame.len
    BY Zenon, <2>2, <1>4 DEF StartFrame
  <2> HIDE DEF f
  <2>5. f.idx < f.len /\ written + f.len - f.idx <= MaxChunks
    BY <2>2, <2>3, <1>3, Sizes
  <2> QED BY Zenon, <2>3, <2>4, <2>5, <1>1, <1>2, PayloadInv
<1>5. CASE NextChunk
  <2>1. WritePayload(frame) /\ frame.idx < frame.len /\ ~ half
    BY Zenon, <1>5 DEF NextChunk, WritePayload
  <2>2. Begun = written
    BY Zenon, <2>1 DEF Begun
  <2>3. written + frame.len - frame.idx <= MaxChunks
    BY Zenon, <2>2, <1>1 DEF Ring, HistInv
  <2> QED BY Zenon, <2>1, <2>3, <1>1, <1>2, <1>3, PayloadInv
<1>6. CASE WriteInfo
  BY Zenon, <1>1, <1>2, <1>6, InfoInv
<1> QED BY Zenon, <1>4, <1>5, <1>6 DEF Adapter

-----------------------------------------------------------------------------
(* The calls, one lemma for each of their steps.                           *)

\* The invariant with its witnesses.
Standing(H, x, s, a) ==
  /\ Types /\ Ring(H) /\ Reader(H, x, s, a)
  /\ x \in 0 .. written /\ s \in -1 .. written /\ a \in -1 .. written

(* What is used of it everywhere.                                          *)
LEMMA Stands ==
  ASSUME NEW H \in Hists, NEW x, NEW s, NEW a, Standing(H, x, s, a)
  PROVE  /\ Types /\ HistInv(H) /\ BufInv(H) /\ Delivered(H) /\ N \in Nat /\ N > 1
         /\ x \in Nat /\ s \in Int /\ a \in Int /\ -1 <= s /\ -1 <= a
         /\ x <= written /\ s <= written /\ a <= written
         /\ x \in 0 .. written /\ s \in -1 .. written /\ a \in -1 .. written
         /\ written \in Nat /\ Begun \in Nat /\ written <= Begun /\ Begun <= written + 1
         /\ got \in Seq(Payloads) /\ Len(got) \in Nat
         /\ out.end \in Int /\ -1 <= out.end
         /\ cu.blind \in BOOLEAN /\ rx \in Handles
         /\ At(rx.next, rx.gen, x) /\ At(rx.sentinel, rx.sgen, s)
<1>1. /\ Types /\ HistInv(H) /\ BufInv(H) /\ Delivered(H)
      /\ x \in 0 .. written /\ s \in -1 .. written /\ a \in -1 .. written
      /\ At(rx.next, rx.gen, x) /\ At(rx.sentinel, rx.sgen, s)
  BY Zenon DEF Standing, Ring, Reader
<1>2. written \in Nat /\ Begun \in Nat /\ written <= Begun /\ Begun <= written + 1
  BY Zenon, <1>1, Progress
<1>3. /\ got \in Seq(Payloads) /\ Len(got) \in Nat /\ out.end \in Int
      /\ cu.blind \in BOOLEAN /\ rx \in Handles
  BY <1>1 DEF Types, Scans
<1>4. -1 <= out.end
  BY Zenon, <1>1, <1>3 DEF Delivered
<1> QED BY <1>1, <1>2, <1>3, <1>4, Sizes

(* The call fails because it has been overtaken.                           *)
LEMMA ToCatchup ==
  ASSUME NEW H \in Hists, NEW x, NEW s, NEW a, Standing(H, x, s, a),
         UNCHANGED <<written, rx, out, api>>,
         pc' = "catchup", got' = <<>>, told' = TRUE, cu' = NoCatchup,
         loc'.ret = "abort" => stale' /\ api = "poll",
         out.end < written
  PROVE  Reads(H)'
<1>1. NoCatchup.chunk = N /\ NoCatchup.before = FALSE /\ NoCatchup.found = FALSE
      /\ ~ (N < N)
  BY Sizes DEF NoCatchup
<1>2. CatchupInv(H)'
  BY Zenon, <1>1 DEF CatchupInv
<1>3. Reader(H, x, s, a)'
  <2>1. At(rx.next, rx.gen, x) /\ At(rx.sentinel, rx.sgen, s)
    BY Zenon, Stands
  <2> QED BY Zenon, <1>2, <2>1 DEF Reader, Polling
<1>4. x \in 0 .. written' /\ s \in -1 .. written' /\ a \in -1 .. written'
  BY Zenon, Stands
<1> QED BY Zenon, <1>3, <1>4 DEF Reads

(* -EXANIC_RX_FRAME_SWOVFL.                                                *)
LEMMA OverflowInv ==
  ASSUME NEW H \in Hists, NEW x, NEW s, NEW a, Standing(H, x, s, a),
         Overflow("idle"), out.end < written
  PROVE  Reads(H)'
<1>1. /\ UNCHANGED <<written, rx, out, api>>
      /\ pc' = "catchup" /\ got' = <<>> /\ told' = TRUE /\ cu' = NoCatchup
  BY Zenon DEF Overflow, adapter
<1>2. loc'.ret = "idle"
  BY Zenon DEF Overflow, NoLoc
<1> QED BY Zenon, <1>1, <1>2, ToCatchup

(* The call returns, and the frame is over.                                *)
LEMMA ToIdle ==
  ASSUME NEW H \in Hists, NEW x \in 0 .. written, NEW s \in -1 .. written,
         UNCHANGED written, At(rx.next, rx.gen, x)', At(rx.sentinel, rx.sgen, s)',
         pc' = "idle", got' = <<>>,
         cu'.blind \/ Ends(H, x - 1), api' # "poll" => s < x,
         Ahead(x)' \/ (written > x + N /\ told' /\ out'.end < written)
  PROVE  Reads(H)'
<1>1. Len(got') = 0 /\ x - 0 = x /\ x \in Nat /\ ~ (0 > 0)
  OBVIOUS
<1>2. Leads(H, x, 0, cu'.blind)
  BY SMTT(30), <1>1 DEF Leads
<1>3. Copies(H, x - 0, got')
  BY <1>1 DEF Copies
<1>4. IdleInv(H, x, s)'
  BY Zenon, <1>1, <1>2, <1>3 DEF IdleInv
<1>5. Reader(H, x, s, s)'
  BY Zenon, <1>4 DEF Reader, Polling
<1> QED BY Zenon, <1>5 DEF Reads

(* exanic_poll_single_rx drops a frame.                                    *)
LEMMA DropInv ==
  ASSUME NEW H \in Hists, NEW x \in 0 .. written, NEW s \in -1 .. written,
         UNCHANGED written, At(rx.next, rx.gen, x)', At(rx.sentinel, rx.sgen, s)',
         Drop, api = "poll", more \in BOOLEAN,
         more => ~ Ends(H, x - 1) \/ stale', ~ more => Ends(H, x - 1), out.end < x
  PROVE  Reads(H)'
<1>1. /\ pc' = Leave(more) /\ got' = <<>> /\ told' = TRUE /\ out' = out /\ api' = "poll"
      /\ cu' = cu
  BY Zenon DEF Drop
<1>2. CASE more
  <2>1. AbortInv(H, x, s)'
    BY Zenon, <1>1, <1>2 DEF AbortInv
  <2>2. Reader(H, x, s, s)'
    BY Zenon, <1>1, <1>2, <2>1 DEF Reader, Polling, Leave
  <2> QED BY Zenon, <2>2 DEF Reads
<1>3. CASE ~ more
  <2>1. Ahead(x)' /\ pc' = "idle"
    BY Zenon, <1>1, <1>3 DEF Ahead, Leave
  <2> QED BY Zenon, <1>1, <1>3, <2>1, ToIdle
<1> QED BY Zenon, <1>2, <1>3

(* exanic_acquire_rx_buffer.                                               *)
LEMMA AcquireInv ==
  ASSUME NEW H \in Hists, NEW x, NEW s, NEW a, Standing(H, x, s, a), Acquire
  PROVE  Reads(H)'
<1>1. Overflow("idle") /\ pc = "closed"
  BY Zenon DEF Acquire
<1>2. out.end < written
  BY Zenon, <1>1 DEF Standing, Reader, ClosedInv
<1> QED BY Zenon, <1>1, <1>2, OverflowInv

(* Between two calls nothing was delivered that is not written.            *)
LEMMA IdleBehind ==
  ASSUME NEW H \in Hists, NEW x, NEW s, NEW a, Standing(H, x, s, a),
         pc \in {"idle", "spin", "chunk", "check"}
  PROVE  out.end < written /\ 0 <= x - Len(got)
<1>1. x \in Nat /\ x <= written /\ written \in Nat /\ Len(got) \in Nat /\ out.end \in Int
  BY Zenon, Stands
<1>2. Reader(H, x, s, a)
  BY Zenon DEF Standing
<1>3. 0 <= x - Len(got)
  BY Zenon, <1>2 DEF Reader, IdleInv, SpinInv, ChunkInv, CheckInv, Leads
<1>4. out.end < x - Len(got) \/ out.end < written
  BY Zenon, <1>2 DEF Reader, IdleInv, SpinInv, ChunkInv, CheckInv, Ahead
<1> QED BY <1>1, <1>3, <1>4

(* exanic_release_rx_buffer.                                               *)
LEMMA ReleaseInv ==
  ASSUME NEW H \in Hists, NEW x, NEW s, NEW a, Standing(H, x, s, a), Release
  PROVE  Reads(H)'
<1>1. pc = "idle" /\ pc' = "closed" /\ got' = <<>> /\ told' = TRUE
      /\ UNCHANGED <<written, rx, out>>
  BY Zenon DEF Release, adapter
<1>2. out.end < written
  BY Zenon, <1>1, IdleBehind
<1>3. ClosedInv'
  BY Zenon, <1>1, <1>2 DEF ClosedInv
<1>4. At(rx.next, rx.gen, x) /\ At(rx.sentinel, rx.sgen, s)
      /\ x \in 0 .. written /\ s \in -1 .. written /\ a \in -1 .. written
  BY Zenon, Stands
<1>5. Reader(H, x, s, a)'
  BY Zenon, <1>1, <1>3, <1>4 DEF Reader, Polling
<1> QED BY Zenon, <1>1, <1>4, <1>5 DEF Reads

-----------------------------------------------------------------------------
(* exanic_receive_frame.                                                   *)

(* exanic_receive_frame looks for a chunk.                                 *)
LEMMA ReceiveFrameInv ==
  ASSUME NEW H \in Hists, NEW x, NEW s, NEW a, Standing(H, x, s, a), ReceiveFrame
  PROVE  Reads(H)'
<1>0. /\ Types /\ HistInv(H) /\ BufInv(H) /\ N \in Nat
      /\ x \in Nat /\ s \in Int /\ x <= written
      /\ x \in 0 .. written /\ s \in -1 .. written /\ a \in -1 .. written
      /\ written \in Nat /\ Len(got) \in Nat
      /\ out.end \in Int /\ -1 <= out.end
      /\ At(rx.next, rx.gen, x) /\ At(rx.sentinel, rx.sgen, s)
  BY Zenon, Stands
<1>1. pc \in {"idle", "spin"} /\ api = "frame"
  BY Zenon DEF ReceiveFrame
<1>2. /\ New => /\ x < written /\ written <= x + N /\ Info.gen = Gen(x)
                /\ Info.last <=> Ends(H, x)
                /\ Info.bad => Info.last
      /\ Lapped => written > x + N
  BY Zenon, <1>0, Look
<1>3. CASE Overflow("idle")
  <2>1. out.end < written
    BY Zenon, <1>1, IdleBehind
  <2> QED BY Zenon, <1>3, <2>1, OverflowInv
<1>4. CASE ~ Overflow("idle")
  <2>1. /\ New /\ loc' = [loc EXCEPT !.u = Info] /\ pc' = "chunk"
        /\ UNCHANGED <<written, api, rx, got, cu, told, out>>
    BY Zenon, <1>4 DEF ReceiveFrame, adapter
  <2>2. loc'.u = Info
    BY Zenon, <2>1, <1>0 DEF Types, Locals
  <2>3. /\ Leads(H, x, Len(got), cu.blind) /\ (Len(got) > 0 => ~ Ends(H, x - 1))
        /\ s < x - Len(got)
        /\ written <= s + N => Copies(H, x - Len(got), got)
        /\ Ahead(x - Len(got))
    <3>1. CASE pc = "idle"
      <4>1. IdleInv(H, x, s)
        BY Zenon, <3>1 DEF Standing, Reader
      <4>2. Len(got) = 0
        BY <4>1, <1>0, <1>1 DEF IdleInv
      <4>3. x - Len(got) = x /\ ~ (written > x + N)
        BY <4>2, <1>0, <1>2, <2>1
      <4> QED BY Zenon, <4>1, <4>2, <4>3, <1>1, <1>0 DEF IdleInv
    <3>2. CASE pc = "spin"
      BY Zenon, <3>2 DEF Standing, Reader, SpinInv
    <3> QED BY Zenon, <3>1, <3>2, <1>1
  <2>4. ChunkInv(H, x, s)'
    BY Zenon, <1>1, <1>2, <2>1, <2>2, <2>3 DEF ChunkInv, Ahead
  <2>5. Reader(H, x, s, a)'
    BY Zenon, <1>0, <2>1, <2>4 DEF Reader, Polling
  <2> QED BY Zenon, <1>0, <2>1, <2>5 DEF Reads
<1> QED BY Zenon, <1>3, <1>4

(* exanic_receive_frame copies a chunk.                                    *)
LEMMA ProcessChunkInv ==
  ASSUME NEW H \in Hists, NEW x, NEW s, NEW a, Standing(H, x, s, a), ProcessChunk
  PROVE  Reads(H)'
<1>0. /\ Types /\ HistInv(H) /\ BufInv(H) /\ N \in Nat
      /\ x \in Nat /\ s \in Int /\ x <= written
      /\ x \in 0 .. written /\ s \in -1 .. written /\ a \in -1 .. written
      /\ written \in Nat /\ Begun \in Nat /\ written <= Begun /\ Begun <= written + 1
      /\ got \in Seq(Payloads) /\ Len(got) \in Nat
      /\ out.end \in Int /\ -1 <= out.end /\ cu.blind \in BOOLEAN /\ rx \in Handles
      /\ At(rx.next, rx.gen, x) /\ At(rx.sentinel, rx.sgen, s)
  BY Zenon, Stands
<1>1. pc = "chunk" /\ ChunkInv(H, x, s)
  BY Zenon DEF Standing, Reader, ProcessChunk
<1>2. /\ api = "frame" /\ x < written
      /\ Leads(H, x, Len(got), cu.blind) /\ (Len(got) > 0 => ~ Ends(H, x - 1))
      /\ s < x - Len(got)
      /\ written <= s + N => Copies(H, x - Len(got), got)
      /\ Ahead(x - Len(got))
      /\ (loc.u.last <=> Ends(H, x)) /\ loc.u.gen = Gen(x) /\ (loc.u.bad => loc.u.last)
  BY Zenon, <1>1 DEF ChunkInv
<1>3. /\ x \in 0 .. written - 1 /\ x \in -1 .. written - 1 /\ x + 1 \in 0 .. written
      /\ (x + 1) - 1 = x /\ x \in -1 .. written
  BY Zenon, <1>0, <1>2, Behind
<1> DEFINE v == buffer[rx.next].payload
<1> DEFINE data == Append(got, v)
<1>4. v \in Payloads
  BY Zenon, <1>0, LookTypes
<1>5. Len(data) = Len(got) + 1 /\ data \in Seq(Payloads)
  BY <1>0, <1>4
<1>6. Leads(H, x + 1, Len(data), cu.blind)
  <2>1. Leads(H, x + 1, Len(got) + 1, cu.blind)
    BY Zenon, <1>0, <1>2, <1>3, LeadsMore
  <2> QED BY Zenon, <2>1, <1>5
<1>7. (x + 1) - Len(data) = x - Len(got) /\ x - Len(got) \in Int
  BY <1>0, <1>5
<1>8. ASSUME written <= s + N PROVE Copies(H, (x + 1) - Len(data), data)
  <2>1. x < Begun /\ Begun <= x + N
    BY <1>0, <1>2, <1>8
  <2>2. v = PayOf(H, x)
    BY Zenon, <1>0, <2>1, Payload DEF At
  <2>3. (x - Len(got)) + Len(got) = x
    BY <1>0
  <2>4. Copies(H, x - Len(got), Append(got, v))
    BY Zenon, <1>0, <1>2, <1>4, <1>7, <1>8, <2>2, <2>3, CopiesMore
  <2> QED BY Zenon, <1>7, <2>4
<1>9. /\ At(Advance(rx).next, Advance(rx).gen, x + 1)
      /\ Advance(rx).sentinel = rx.sentinel /\ Advance(rx).sgen = rx.sgen
  BY Zenon, <1>0, <1>3, MoveOn
<1>10. CASE ~ loc.u.last
  <2>1. /\ got' = data /\ pc' = "spin" /\ rx' = Advance(rx)
        /\ UNCHANGED <<written, api, loc, cu, told, out>>
    BY Zenon, <1>10 DEF ProcessChunk, adapter
  <2> HIDE DEF data
  <2>4. Len(data) > 0 /\ s < (x + 1) - Len(data)
    <3>1. s < x - Len(got) /\ (x + 1) - Len(data) = x - Len(got) /\ Len(got) \in Nat
      BY Zenon, <1>0, <1>2, <1>7
    <3>2. Len(data) > 0
      BY <1>5, <3>1
    <3> QED BY Zenon, <3>1, <3>2
  <2>5. ~ Ends(H, (x + 1) - 1) /\ Ahead((x + 1) - Len(data))
    BY Zenon, <1>2, <1>3, <1>7, <1>10
  <2>6. Ahead((x + 1) - Len(got))'
    BY Zenon, <2>1, <2>5 DEF Ahead
  <2>2. SpinInv(H, x + 1, s)'
    BY Zenon, <1>2, <1>6, <1>8, <2>1, <2>4, <2>5, <2>6 DEF SpinInv
  <2>3. Reader(H, x + 1, s, a)'
    BY Zenon, <1>0, <1>9, <2>1, <2>2 DEF Reader, Polling
  <2> QED BY Zenon, <1>0, <1>3, <2>1, <2>3 DEF Reads
<1>11. CASE loc.u.last /\ Fails /\ rx' = Advance(rx)
  <2>1. pc' = "idle" /\ got' = <<>> /\ told' = TRUE /\ UNCHANGED <<written, api, out>>
    BY Zenon, <1>11 DEF Fails, adapter
  <2>2. Ends(H, (x + 1) - 1)
    BY Zenon, <1>2, <1>3, <1>11
  <2>3. s < x + 1 /\ Ahead(x + 1)'
    <3>1. x \in Nat /\ s \in Int /\ Len(got) \in Nat /\ out.end \in Int
      BY Zenon, <1>0
    <3>2. s < x - Len(got) /\ out.end < x - Len(got)
      BY Zenon, <1>2 DEF Ahead
    <3>3. s < x + 1 /\ out.end < x + 1
      BY <3>1, <3>2
    <3> QED BY Zenon, <2>1, <3>3 DEF Ahead
  <2>4. At(rx.next, rx.gen, x + 1)' /\ At(rx.sentinel, rx.sgen, s)'
    BY Zenon, <1>0, <1>9, <1>11
  <2> QED BY Zenon, <1>0, <1>3, <2>1, <2>2, <2>3, <2>4, ToIdle
<1>12. CASE loc.u.last /\ ~ (Fails /\ rx' = Advance(rx))
  <2> DEFINE h == MoveSentinel(rx, rx.next, loc.u.gen)
  <2>1. /\ got' = data /\ pc' = "check" /\ rx' = Advance(h)
        /\ loc' = [loc EXCEPT !.chunk = rx.sentinel, !.gen = rx.sgen]
        /\ UNCHANGED <<written, api, cu, told, out>>
    BY Zenon, <1>12 DEF ProcessChunk, adapter
  <2>2. loc'.chunk = rx.sentinel /\ loc'.gen = rx.sgen /\ loc'.u = loc.u
    BY Zenon, <2>1, <1>0 DEF Types, Locals
  <2>3. /\ h \in Handles /\ h.next = rx.next /\ h.gen = rx.gen
        /\ h.sentinel = rx.next /\ h.sgen = loc.u.gen
    <3>1. loc.u.gen \in Gens
      BY Zenon, <1>0, LookTypes DEF Infos, Gens
    <3> QED BY Zenon, <1>0, <3>1 DEF MoveSentinel, Handles
  <2> HIDE DEF h, data
  <2>4. At(rx'.next, rx'.gen, x + 1) /\ rx'.sentinel = rx.next /\ rx'.sgen = loc.u.gen
    BY Zenon, <1>0, <1>3, <2>1, <2>3, MoveOn
  <2>5. At(rx'.sentinel, rx'.sgen, x)
    BY Zenon, <1>0, <1>2, <2>4 DEF At
  <2>8. Len(data) > 0 /\ x < x + 1
    BY <1>0, <1>5
  <2>9. Ahead((x + 1) - Len(data))
    BY Zenon, <1>2, <1>7
  <2>10. Ahead((x + 1) - Len(got))'
    BY Zenon, <2>1, <2>9 DEF Ahead
  <2>11. At(loc'.chunk, loc'.gen, s)
    BY Zenon, <1>0, <2>2
  <2>6. CheckInv(H, x + 1, x, s)'
    BY Zenon, <1>2, <1>3, <1>6, <1>8, <1>12, <2>1, <2>2, <2>8, <2>10, <2>11 DEF CheckInv
  <2>7. Reader(H, x + 1, x, s)'
    BY Zenon, <2>1, <2>4, <2>5, <2>6 DEF Reader, Polling
  <2> QED BY Zenon, <1>0, <1>3, <2>1, <2>7 DEF Reads
<1> QED BY Zenon, <1>10, <1>11, <1>12

(* A frame is delivered that was copied from y on.                         *)
LEMMA DeliverInv ==
  ASSUME Types, NEW H \in Hists, HistInv(H), NEW y \in 0 .. written - 1,
         NEW excused \in BOOLEAN, Deliver(got, excused), Begun' = Begun,
         ~ excused => /\ Len(got) > 0 /\ Copies(H, y, got) /\ H[y].idx = 1 /\ Ahead(y)
                      /\ H[y].len - Len(got) \in 0 .. IF api = "poll" THEN 1 ELSE 0
  PROVE  /\ Delivered(H)' /\ got' = <<>> /\ loc' = NoLoc /\ cu' = NoCatchup
         /\ excused => out'.end = -1 /\ told' = TRUE
         /\ ~ excused => out'.end = EndOf(H, y) /\ told' = FALSE
<1>1. /\ got' = <<>> /\ loc' = NoLoc /\ cu' = NoCatchup /\ told' = excused
  BY Zenon DEF Deliver
<1>2. Begun \in Nat /\ written <= Begun /\ y \in Nat /\ y < Begun
  BY Progress
<1>3. CASE excused
  <2>1. out' = [end |-> -1, whole |-> TRUE, ordered |-> TRUE]
    BY Zenon, <1>3 DEF Deliver
  <2>2. out'.end = -1 /\ out'.whole /\ out'.ordered
    BY Zenon, <2>1
  <2>3. Ends(H, -1) /\ ~ (-1 >= Begun)
    BY SMTT(30), <1>2 DEF Ends
  <2>4. Delivered(H)'
    BY SMTT(30), <2>2, <2>3, <1>2 DEF Delivered
  <2> QED BY Zenon, <1>1, <1>3, <2>2, <2>4
<1>4. CASE ~ excused
  <2>1. /\ Len(got) > 0 /\ Copies(H, y, got) /\ H[y].idx = 1 /\ Ahead(y)
        /\ H[y].len - Len(got) \in 0 .. IF api = "poll" THEN 1 ELSE 0
    BY Zenon, <1>4
  <2>2. got \in Seq(Payloads) /\ Len(got) \in Nat /\ DOMAIN got = 1 .. Len(got)
    BY DEF Types
  <2>3. \A i \in 1 .. Len(got) : got[i] = PayOf(H, y + i - 1)
    BY Zenon, <2>1 DEF Copies
  <2>4. got[1] = PayOf(H, y)
    <3>1. 1 \in 1 .. Len(got) /\ y + 1 - 1 = y
      BY SMTT(30), <1>2, <2>1, <2>2
    <3> QED BY Zenon, <2>3, <3>1
  <2>5. got[1].n = y /\ got[1].idx = 1 /\ got[1].len = H[y].len
    BY <2>1, <2>4 DEF PayOf
  <2>6. \A i \in 1 .. Len(got) : got[i].n = got[1].n + i - 1
    <3> TAKE i \in 1 .. Len(got)
    <3>1. got[i].n = y + i - 1
      <4>1. got[i] = PayOf(H, y + i - 1)
        BY Zenon, <2>3
      <4>2. \A z : PayOf(H, z).n = z
        BY Zenon DEF PayOf
      <4> QED BY Zenon, <4>1, <4>2
    <3> QED BY Zenon, <3>1, <2>5
  <2>7. Intact(got, IF api = "poll" THEN 1 ELSE 0)
    BY Zenon, <2>1, <2>2, <2>5, <2>6 DEF Intact
  <2> DEFINE f == got[1]
  <2>8. out' = [end |-> f.n + f.len - f.idx,
                whole |-> Intact(got, IF api = "poll" THEN 1 ELSE 0),
                ordered |-> f.n > out.end /\ (told \/ f.n = out.end + 1)]
    BY Zenon, <1>4 DEF Deliver
  <2>9. out.end \in Int /\ told \in BOOLEAN
    BY Zenon DEF Types
  <2>10. y > out.end /\ (told \/ y = out.end + 1)
    BY SMTT(30), <2>1, <2>9, <1>2 DEF Ahead
  <2>11. out'.whole /\ out'.ordered
    BY Zenon, <2>5, <2>7, <2>8, <2>10
  <2>12. out'.end = EndOf(H, y)
    BY Zenon, <2>1, <2>5, <2>8 DEF EndOf
  <2>13. /\ EndOf(H, y) \in Nat
         /\ EndOf(H, y) < Begun => Ends(H, EndOf(H, y))
         /\ EndOf(H, y) >= Begun => EndOf(H, y) = EndOf(H, Begun - 1)
    BY Zenon, Place
  <2>14. EndOf(H, y) >= -1 /\ Begun > 0
    BY <2>13, <1>2
  <2>15. Delivered(H)'
    BY Zenon, <2>11, <2>12, <2>13, <2>14 DEF Delivered
  <2> QED BY Zenon, <1>1, <1>4, <2>12, <2>15
<1> QED BY Zenon, <1>3, <1>4

(* The sentinel is looked at, and a frame that is over is delivered.       *)
LEMMA CheckSentinelInv ==
  ASSUME NEW H \in Hists, NEW x, NEW s, NEW a, Standing(H, x, s, a), CheckSentinel
  PROVE  Reads(H)' /\ Delivered(H)'
<1>0. /\ Types /\ HistInv(H) /\ BufInv(H) /\ Delivered(H) /\ N \in Nat
      /\ x \in Nat /\ a \in Int /\ x <= written
      /\ x \in 0 .. written /\ s \in -1 .. written /\ a \in -1 .. written
      /\ written \in Nat /\ got \in Seq(Payloads) /\ Len(got) \in Nat
      /\ out.end \in Int /\ -1 <= out.end /\ cu.blind \in BOOLEAN
      /\ At(rx.next, rx.gen, x) /\ At(rx.sentinel, rx.sgen, s)
  BY Zenon, Stands
<1>1. pc = "check" /\ CheckInv(H, x, s, a)
  BY Zenon DEF Standing, Reader, CheckSentinel
<1>2. /\ api \in {"frame", "chunk"} /\ Len(got) > 0
      /\ Leads(H, x, Len(got), cu.blind)
      /\ At(loc.chunk, loc.gen, a) /\ s < x
      /\ written <= a + N => Copies(H, x - Len(got), got)
      /\ Ahead(x - Len(got))
      /\ (loc.u.last <=> Ends(H, x - 1)) /\ (loc.u.bad => loc.u.last)
      /\ api = "frame" => loc.u.last
  BY Zenon, <1>1 DEF CheckInv
<1>3. UNCHANGED <<adapter, api>>
  BY Zenon, ReaderSteps DEF Continue
<1>4. UNCHANGED <<written, half, api>> /\ Begun' = Begun
  BY Zenon, <1>3 DEF adapter, Begun
<1>5. UNCHANGED out => Delivered(H)'
  BY Zenon, <1>0, <1>4 DEF Delivered
<1>6. out.end < written /\ 0 <= x - Len(got)
  BY Zenon, <1>1, IdleBehind
<1>7. CASE Overflow("idle")
  <2>1. UNCHANGED out
    BY Zenon, <1>7 DEF Overflow
  <2> QED BY Zenon, <1>5, <1>6, <1>7, <2>1, OverflowInv
<1>8. CASE loc.u.bad /\ Fails /\ UNCHANGED rx
  <2>1. pc' = "idle" /\ got' = <<>> /\ told' = TRUE /\ UNCHANGED out
    BY Zenon, <1>8 DEF Fails
  <2>2. Ends(H, x - 1)
    BY ZenonT(30), <1>2, <1>8
  <2>3. Ahead(x)'
    BY <1>0, <1>2, <2>1 DEF Ahead
  <2>4. At(rx.next, rx.gen, x)' /\ At(rx.sentinel, rx.sgen, s)'
    BY Zenon, <1>0, <1>8
  <2> QED BY Zenon, <1>0, <1>2, <1>4, <1>5, <2>1, <2>2, <2>3, <2>4, ToIdle
<1>9. CASE SentinelOK /\ ~ loc.u.bad /\ pc' = "idle" /\ UNCHANGED rx
           /\ IF loc.u.last
                THEN Deliver(got, cu.blind)
                ELSE loc' = NoLoc /\ UNCHANGED <<got, cu, told, out>>
  <2>1. written <= a + N
    <3>1. buffer[Slot(a)].info.gen = Gen(a)
      BY Zenon, <1>2, <1>9 DEF SentinelOK, At
    <3> QED BY Zenon, <1>0, <3>1, InRing
  <2>2. At(rx.next, rx.gen, x)' /\ At(rx.sentinel, rx.sgen, s)'
    BY Zenon, <1>0, <1>9
  <2>3. CASE loc.u.last
    <3> DEFINE y == x - Len(got)
    <3>1. Deliver(got, cu.blind) /\ Ends(H, x - 1)
      BY Zenon, <1>2, <1>9, <2>3
    <3>2. y \in 0 .. written - 1 /\ x - 1 \in 0 .. written - 1
      <4>1. x \in Nat /\ x <= written /\ written \in Nat /\ Len(got) \in Nat
        BY Zenon, <1>0
      <4>2. Len(got) > 0 /\ 0 <= x - Len(got)
        BY Zenon, <1>2, <1>6
      <4> QED BY <4>1, <4>2
    <3>3. H[x - 1].idx \in Nat /\ H[x - 1].len \in Nat /\ H[x - 1].idx = H[x - 1].len
      <4>1. x - 1 \in Nat /\ ~ (x - 1 < 0)
        BY <1>0, <3>2
      <4>2. H[x - 1].idx \in Nat /\ H[x - 1].len \in Nat
        BY Zenon, <4>1 DEF Hists
      <4> QED BY Zenon, <4>1, <4>2, <3>1 DEF Ends
    <3>4. ~ cu.blind => H[y].idx = 1 /\ H[y].len = Len(got)
      BY Zenon, <1>2, <3>3 DEF Leads
    <3>5. api # "poll"
      BY ZenonT(30), <1>2
    <3>6. ~ cu.blind => H[y].len - Len(got) \in 0 .. IF api = "poll" THEN 1 ELSE 0
      <4>1. Len(got) \in Nat
        BY Zenon, <1>0
      <4>2. Len(got) - Len(got) \in 0 .. 0
        BY <4>1
      <4> QED BY Zenon, <3>4, <3>5, <4>2
    <3>7. Copies(H, y, got) /\ Ahead(y)
      BY Zenon, <1>2, <2>1
    <3>8. /\ Delivered(H)' /\ got' = <<>> /\ loc' = NoLoc /\ cu' = NoCatchup
          /\ cu.blind => out'.end = -1 /\ told' = TRUE
          /\ ~ cu.blind => out'.end = EndOf(H, y) /\ told' = FALSE
      <4> HIDE DEF y
      <4> QED BY Zenon, <1>0, <1>2, <1>4, <3>1, <3>2, <3>4, <3>6, <3>7, DeliverInv
    <3>9. ~ cu.blind => EndOf(H, y) = x - 1
      BY SMTT(30), <1>0, <3>4 DEF EndOf
    <3>10. Ahead(x)'
      BY <1>0, <3>8, <3>9 DEF Ahead
    <3> QED BY Zenon, <1>0, <1>2, <1>4, <1>9, <2>2, <3>1, <3>8, <3>10, ToIdle
  <2>4. CASE ~ loc.u.last
    <3>1. pc' = "idle" /\ UNCHANGED <<got, cu, told, out>>
      BY Zenon, <1>9, <2>4
    <3>2. api = "chunk"
      BY Zenon, <1>2, <2>4
    <3>3. IdleInv(H, x, s)'
      BY Zenon, <1>2, <1>4, <2>1, <2>4, <3>1, <3>2 DEF IdleInv, Ahead
    <3>4. Reader(H, x, s, a)'
      BY Zenon, <2>2, <3>1, <3>3 DEF Reader, Polling
    <3> QED BY Zenon, <1>0, <1>4, <1>5, <3>1, <3>4 DEF Reads
  <2> QED BY Zenon, <2>3, <2>4
<1> QED BY Zenon, <1>7, <1>8, <1>9 DEF CheckSentinel

-----------------------------------------------------------------------------
(* exanic_receive_chunk and exanic_receive_abort.                          *)

(* exanic_receive_chunk looks for a chunk.                                 *)
LEMMA ReceiveChunkInv ==
  ASSUME NEW H \in Hists, NEW x, NEW s, NEW a, Standing(H, x, s, a), ReceiveChunk
  PROVE  Reads(H)'
<1>0. /\ Types /\ HistInv(H) /\ BufInv(H) /\ N \in Nat
      /\ x \in Nat /\ s \in Int /\ x <= written
      /\ x \in 0 .. written /\ s \in -1 .. written /\ a \in -1 .. written
      /\ written \in Nat /\ Len(got) \in Nat /\ rx \in Handles
      /\ out.end \in Int /\ -1 <= out.end
      /\ At(rx.next, rx.gen, x) /\ At(rx.sentinel, rx.sgen, s)
  BY Zenon, Stands
<1>1. pc = "idle" /\ api = "chunk" /\ IdleInv(H, x, s)
  BY Zenon DEF ReceiveChunk, Standing, Reader
<1>2. /\ New => /\ x < written /\ written <= x + N /\ Info.gen = Gen(x)
                /\ Info.last <=> Ends(H, x)
                /\ Info.bad => Info.last
      /\ Lapped => written > x + N
  BY Zenon, <1>0, Look
<1>3. CASE Overflow("idle")
  <2>1. out.end < written
    BY Zenon, <1>1, IdleBehind
  <2> QED BY Zenon, <1>3, <2>1, OverflowInv
<1>4. CASE ~ Overflow("idle")
  <2> DEFINE h == MoveSentinel(rx, rx.next, Info.gen)
  <2>1. /\ New /\ loc' = [NoLoc EXCEPT !.u = Info, !.chunk = rx.sentinel, !.gen = rx.sgen,
                                       !.at = rx.next]
        /\ rx' = Advance(h) /\ pc' = "memcpy"
        /\ UNCHANGED <<written, api, got, cu, told, out>>
    BY Zenon, <1>4 DEF ReceiveChunk, adapter
  <2>2. loc'.u = Info /\ loc'.chunk = rx.sentinel /\ loc'.gen = rx.sgen /\ loc'.at = rx.next
    BY Zenon, <2>1 DEF NoLoc
  <2>3. /\ h \in Handles /\ h.next = rx.next /\ h.gen = rx.gen
        /\ h.sentinel = rx.next /\ h.sgen = Info.gen
    <3>1. Info.gen \in Gens
      BY Zenon, <1>0, LookTypes DEF Infos, Gens
    <3> QED BY Zenon, <1>0, <3>1 DEF MoveSentinel, Handles
  <2> HIDE DEF h
  <2>4. /\ x < written /\ written <= x + N /\ Info.gen = Gen(x)
        /\ (Info.last <=> Ends(H, x)) /\ (Info.bad => Info.last)
    BY Zenon, <1>2, <2>1
  <2>5. /\ x \in -1 .. written - 1 /\ x + 1 \in 0 .. written /\ x \in -1 .. written
        /\ (x + 1) - 1 = x /\ (x + 1) - 2 = x - 1 /\ 0 < x + 1 /\ x < x + 1
    BY Zenon, <1>0, <2>4, Behind
  <2>6. At(rx'.next, rx'.gen, x + 1) /\ rx'.sentinel = rx.next /\ rx'.sgen = Info.gen
    BY Zenon, <1>0, <2>1, <2>3, <2>5, MoveOn
  <2>7. At(rx'.sentinel, rx'.sgen, x) /\ At(loc'.chunk, loc'.gen, s) /\ loc'.at = Slot(x)
    BY Zenon, <1>0, <2>2, <2>4, <2>6 DEF At
  <2>8. /\ Leads(H, x, Len(got), cu.blind) /\ (Len(got) > 0 => ~ Ends(H, x - 1)) /\ s < x
        /\ Copies(H, x - Len(got), got)
    BY Zenon, <1>1 DEF IdleInv
  <2>9. Ahead(x - Len(got))
    <3>1. ~ (written > x + N)
      BY <1>0, <2>4
    <3> QED BY Zenon, <1>1, <3>1 DEF IdleInv
  <2>10. Ahead(x - Len(got))'
    BY Zenon, <2>1, <2>9 DEF Ahead
  <2>11. MemcpyInv(H, x + 1, x, s)'
    BY Zenon, <1>1, <2>1, <2>2, <2>4, <2>5, <2>7, <2>8, <2>10 DEF MemcpyInv
  <2>12. Reader(H, x + 1, x, s)'
    BY Zenon, <2>1, <2>6, <2>7, <2>11 DEF Reader, Polling
  <2> QED BY Zenon, <1>0, <2>1, <2>5, <2>12 DEF Reads
<1> QED BY Zenon, <1>3, <1>4

(* exanic_receive_chunk copies it.                                         *)
LEMMA CopyChunkInv ==
  ASSUME NEW H \in Hists, NEW x, NEW s, NEW a, Standing(H, x, s, a), CopyChunk
  PROVE  Reads(H)'
<1>0. /\ Types /\ HistInv(H) /\ BufInv(H) /\ N \in Nat
      /\ x \in Nat /\ s \in Int /\ a \in Int /\ x <= written
      /\ x \in 0 .. written /\ s \in -1 .. written /\ a \in -1 .. written
      /\ written \in Nat /\ Begun \in Nat /\ written <= Begun /\ Begun <= written + 1
      /\ got \in Seq(Payloads) /\ Len(got) \in Nat
      /\ out.end \in Int /\ cu.blind \in BOOLEAN
      /\ At(rx.next, rx.gen, x) /\ At(rx.sentinel, rx.sgen, s)
  BY Zenon, Stands
<1>1. pc = "memcpy" /\ MemcpyInv(H, x, s, a)
  BY Zenon DEF Standing, Reader, CopyChunk
<1>2. /\ api = "chunk" /\ 0 < x
      /\ Leads(H, x - 1, Len(got), cu.blind) /\ (Len(got) > 0 => ~ Ends(H, x - 2))
      /\ At(loc.chunk, loc.gen, a) /\ a < x - 1 /\ s < x
      /\ loc.at = Slot(x - 1)
      /\ Copies(H, x - 1 - Len(got), got)
      /\ Ahead(x - 1 - Len(got))
      /\ (loc.u.last <=> Ends(H, x - 1)) /\ (loc.u.bad => loc.u.last)
  BY Zenon, <1>1 DEF MemcpyInv
<1> DEFINE v == buffer[loc.at].payload
<1> DEFINE data == Append(got, v)
<1>3. got' = data /\ pc' = "check" /\ UNCHANGED <<written, api, rx, loc, cu, told, out>>
  BY Zenon DEF CopyChunk, adapter
<1>4. v \in Payloads
  BY Zenon, <1>0, LookTypes
<1>5. Len(data) = Len(got) + 1 /\ data \in Seq(Payloads)
  BY SMTT(30), <1>0, <1>4
<1>6. x - 1 \in 0 .. written - 1 /\ x - 1 \in 0 .. written /\ (x - 1) + 1 = x /\ (x - 1) - 1 = x - 2
  BY <1>0, <1>2
<1>7. Leads(H, x, Len(data), cu.blind)
  <2>1. Leads(H, (x - 1) + 1, Len(got) + 1, cu.blind)
    BY Zenon, <1>0, <1>2, <1>6, LeadsMore
  <2> QED BY Zenon, <2>1, <1>5, <1>6
<1>8. x - Len(data) = x - 1 - Len(got) /\ x - 1 - Len(got) \in Int /\ Len(data) > 0
  BY <1>0, <1>5
<1>9. ASSUME written <= a + N PROVE Copies(H, x - Len(data), data)
  <2>1. x - 1 < Begun /\ Begun <= (x - 1) + N
    BY <1>0, <1>2, <1>9
  <2>2. v = PayOf(H, x - 1)
    BY Zenon, <1>0, <1>2, <1>6, <2>1, Payload
  <2>3. (x - 1 - Len(got)) + Len(got) = x - 1
    BY <1>0
  <2>4. Copies(H, x - 1 - Len(got), Append(got, v))
    BY Zenon, <1>0, <1>2, <1>4, <1>8, <2>2, <2>3, CopiesMore
  <2> QED BY ZenonT(30), <1>8, <2>4
<1> HIDE DEF data
<1>10. Ahead(x - Len(got))'
  BY Zenon, <1>2, <1>3, <1>8 DEF Ahead
<1>11. CheckInv(H, x, s, a)'
  BY Zenon, <1>2, <1>3, <1>7, <1>8, <1>9, <1>10 DEF CheckInv
<1>12. Reader(H, x, s, a)'
  BY Zenon, <1>0, <1>3, <1>11 DEF Reader, Polling
<1> QED BY Zenon, <1>0, <1>3, <1>12 DEF Reads

(* The caller gives a frame up.                                            *)
LEMMA GiveUpInv ==
  ASSUME NEW H \in Hists, NEW x, NEW s, NEW a, Standing(H, x, s, a), GiveUp
  PROVE  Reads(H)'
<1>0. /\ x \in Nat /\ x \in 0 .. written /\ s \in -1 .. written /\ a \in -1 .. written
      /\ got \in Seq(Payloads) /\ Len(got) \in Nat /\ out.end \in Int
      /\ At(rx.next, rx.gen, x) /\ At(rx.sentinel, rx.sgen, s)
  BY Zenon, Stands
<1>1. pc = "idle" /\ api = "chunk" /\ IdleInv(H, x, s)
      /\ pc' = "abort" /\ got' = <<>> /\ told' = TRUE /\ UNCHANGED <<written, api, rx, out>>
  BY Zenon DEF GiveUp, Standing, Reader, adapter
<1>2. Len(got) > 0
  BY SMTT(30), <1>0 DEF GiveUp
<1>3. ~ Ends(H, x - 1) /\ s < x /\ out.end < x
  BY <1>0, <1>1, <1>2 DEF IdleInv, Ahead
<1>4. AbortInv(H, x, s)'
  BY Zenon, <1>1, <1>3 DEF AbortInv
<1>5. Reader(H, x, s, a)'
  BY Zenon, <1>0, <1>1, <1>4 DEF Reader, Polling
<1> QED BY Zenon, <1>0, <1>1, <1>5 DEF Reads

(* exanic_receive_abort skips a chunk.                                     *)
LEMMA ReceiveAbortInv ==
  ASSUME NEW H \in Hists, NEW x, NEW s, NEW a, Standing(H, x, s, a), ReceiveAbort
  PROVE  Reads(H)'
<1>0. /\ Types /\ HistInv(H) /\ BufInv(H) /\ N \in Nat
      /\ x \in Nat /\ s \in Int /\ x <= written
      /\ x \in 0 .. written /\ s \in -1 .. written /\ a \in -1 .. written
      /\ written \in Nat /\ rx \in Handles
      /\ out.end \in Int /\ -1 <= out.end
      /\ At(rx.next, rx.gen, x) /\ At(rx.sentinel, rx.sgen, s)
  BY Zenon, Stands
<1>1. pc = "abort" /\ AbortInv(H, x, s)
  BY Zenon DEF ReceiveAbort, Standing, Reader
<1>2. /\ New => /\ x < written /\ written <= x + N /\ Info.gen = Gen(x)
                /\ Info.last <=> Ends(H, x)
                /\ Info.bad => Info.last
      /\ Lapped => written > x + N
  BY Zenon, <1>0, Look
<1>3. ~ Ends(H, x - 1) => /\ x - 1 \in 0 .. written - 1 /\ EndOf(H, x - 1) \in Nat
                          /\ EndOf(H, x - 1) < (x - 1) + N
  <2>1. ~ Ends(H, x - 1) => x - 1 \in 0 .. written - 1
    BY <1>0 DEF Ends
  <2> QED BY Zenon, <1>0, <2>1, Place
<1>4. CASE Lapped /\ Overflow("idle")
  <2>1. written > x + N
    BY ZenonT(30), <1>2, <1>4
  <2>2. out.end < written
    BY <1>0, <1>1, <1>3, <2>1 DEF AbortInv
  <2> QED BY Zenon, <1>4, <2>2, OverflowInv
<1>5. CASE ~ (Lapped /\ Overflow("idle"))
  <2>1. /\ New /\ rx' = Advance(rx)
        /\ pc' = IF Info.last THEN "idle" ELSE "abort"
        /\ more' = (more /\ ~ Info.last) /\ stale' = (stale /\ ~ Info.last)
        /\ UNCHANGED <<written, api, got, loc, cu, told, out>>
    BY Zenon, <1>5 DEF ReceiveAbort, adapter
  <2>2. x < written /\ written <= x + N /\ (Info.last <=> Ends(H, x))
    BY ZenonT(30), <1>2, <2>1
  <2>3. /\ x \in 0 .. written - 1 /\ x \in -1 .. written - 1 /\ x + 1 \in 0 .. written
        /\ (x + 1) - 1 = x
    BY <1>0, <2>2
  <2>4. At(rx.next, rx.gen, x + 1)' /\ At(rx.sentinel, rx.sgen, s)'
    <3>1. /\ At(Advance(rx).next, Advance(rx).gen, x + 1)
          /\ Advance(rx).sentinel = rx.sentinel /\ Advance(rx).sgen = rx.sgen
      BY ZenonT(30), <1>0, <2>3, MoveOn
    <3> QED BY Zenon, <1>0, <2>1, <3>1
  <2>5. /\ ~ Ends(H, x - 1) => EndOf(H, x) = EndOf(H, x - 1)
        /\ EndOf(H, x) \in Nat /\ (Ends(H, x) => EndOf(H, x) = x)
    BY <1>0, <2>3, Place
  <2>6. /\ got = <<>> /\ api # "frame" /\ (api = "chunk" => s < x)
        /\ ~ told => ~ Ends(H, x - 1) /\ out.end = EndOf(H, x - 1)
        /\ out.end < x \/ (~ Ends(H, x - 1) /\ out.end <= EndOf(H, x - 1))
    <3>1. ~ (written > x + N)
      BY SMTT(30), <1>0, <2>2
    <3> QED BY Zenon, <1>1, <3>1 DEF AbortInv
  <2>7. api # "poll" => s < x + 1
    <3>1. api \in {"frame", "chunk", "poll"}
      BY Zenon, <1>0, FifoAssumption DEF Types
    <3> QED BY <1>0, <2>6, <3>1
  <2>8. CASE Ends(H, x)
    <3>1. pc' = "idle" /\ got' = <<>>
      BY Zenon, <2>1, <2>2, <2>6, <2>8
    <3>2. out.end < x + 1 /\ (~ told => out.end = x)
      BY <1>0, <2>5, <2>6, <2>8
    <3>3. Ahead(x + 1)'
      BY Zenon, <1>0, <2>1, <2>3, <3>2 DEF Ahead
    <3>4. Ends(H, (x + 1) - 1)
      BY Zenon, <2>3, <2>8
    <3> QED BY Zenon, <1>0, <2>1, <2>3, <2>4, <2>7, <3>1, <3>3, <3>4, ToIdle
  <2>9. CASE ~ Ends(H, x)
    <3>1. pc' = "abort" /\ (stale' <=> stale)
      BY Zenon, <2>1, <2>2, <2>9
    <3>2. /\ ~ told => out.end = EndOf(H, x)
          /\ out.end < x + 1 \/ out.end <= EndOf(H, x)
      BY SMTT(30), <1>0, <2>5, <2>6
    <3>3. api = "chunk" => s < x + 1
      BY Zenon, <2>7
    <3>4. AbortInv(H, x + 1, s)'
      BY Zenon, <2>1, <2>3, <2>6, <2>9, <3>1, <3>2, <3>3 DEF AbortInv
    <3>5. Reader(H, x + 1, s, a)'
      BY Zenon, <2>4, <3>1, <3>4 DEF Reader, Polling
    <3> QED BY Zenon, <1>0, <2>1, <2>3, <3>5 DEF Reads
  <2> QED BY Zenon, <2>8, <2>9
<1> QED BY Zenon, <1>4, <1>5

(* __exanic_rx_catchup looks at a chunk.                                   *)
LEMMA CatchupChunkInv ==
  ASSUME NEW H \in Hists, NEW x, NEW s, NEW a, Standing(H, x, s, a), CatchupChunk
  PROVE  Reads(H)'
<1>0. /\ Types /\ HistInv(H) /\ BufInv(H) /\ Delivered(H) /\ N \in Nat /\ N > 1
      /\ x \in 0 .. written /\ s \in -1 .. written /\ a \in -1 .. written
      /\ written \in Nat /\ Begun \in Nat /\ written <= Begun
      /\ out.end \in Int /\ -1 <= out.end
      /\ At(rx.next, rx.gen, x) /\ At(rx.sentinel, rx.sgen, s)
  BY Zenon, Stands
<1>1. pc = "catchup" /\ CatchupInv(H)
  BY Zenon DEF CatchupChunk, Standing, Reader
<1>2. /\ got = <<>> /\ told /\ out.end < written
      /\ loc.ret = "abort" => stale /\ api = "poll"
  BY Zenon, <1>1 DEF CatchupInv
<1>3. UNCHANGED <<written, api, rx, pc, got, loc, stale, told, out>>
  BY Zenon DEF CatchupChunk, adapter
<1>4. PICK w : w = written
  BY Zenon
<1>5. PICK e : e = out.end
  BY Zenon
<1>6. w \in 0 .. MaxChunks /\ e \in -1 .. w - 1 /\ Ends(H, e) /\ w \in Nat
  <2>1. /\ out.end \in Int /\ -1 <= out.end /\ out.end < written /\ written \in Nat
        /\ Begun \in Nat /\ written <= Begun
    BY Zenon, <1>0, <1>2
  <2>2. out.end < Begun /\ out.end \in -1 .. written - 1
    BY <2>1
  <2>3. Ends(H, out.end)
    BY Zenon, <1>0, <2>2 DEF Delivered
  <2>4. written \in 0 .. MaxChunks
    BY Zenon, <1>0 DEF Types
  <2> QED BY Zenon, <1>4, <1>5, <2>1, <2>2, <2>3, <2>4
<1>7. /\ cu.chunk \in 0 .. N /\ cu.chunk > 0 /\ cu.before \in BOOLEAN /\ cu.found \in BOOLEAN
  BY Zenon, <1>0 DEF Types, Scans, CatchupChunk
<1> DEFINE c == cu.chunk - 1
<1> DEFINE i == buffer[c].info
<1> DEFINE first == c = N - 1
<1> DEFINE breaks == ~ first /\ i.gen # cu.breakGen
<1> DEFINE before == cu.before \/ breaks
<1> DEFINE eof == i.last /\ (before \/ ~ cu.found)
<1>8. cu' = [chunk |-> IF i.last /\ before THEN 0 ELSE c,
             breakGen |-> IF first \/ breaks THEN i.gen ELSE cu.breakGen,
             breakChunk |-> IF first \/ breaks THEN c ELSE cu.breakChunk,
             before |-> before,
             found |-> cu.found \/ eof,
             eofGen |-> IF eof THEN i.gen ELSE cu.eofGen,
             eofChunk |-> IF eof THEN c ELSE cu.eofChunk,
             blind |-> FALSE]
  BY Zenon DEF CatchupChunk
<1>9. c \in 0 .. N - 1 /\ c \in Int
  BY <1>0, <1>7
<1>10. PICK p \in w - N .. w - 1 : p \in Positions /\ Slot(p) = c
  BY Zenon, <1>6, <1>9, Window
<1>11. i.gen = Gen(p) /\ (i.last <=> Ends(H, p)) /\ i.last \in BOOLEAN
  <2>1. /\ buffer[Slot(p)].info.gen = Gen(p)
        /\ buffer[Slot(p)].info.last <=> Ends(H, p)
    BY Zenon, <1>0, <1>4, <1>10 DEF BufInv
  <2>2. i \in Infos
    BY Zenon, <1>0, <1>9, LookTypes DEF Chunks
  <2>3. i.last \in BOOLEAN
    BY Zenon, <2>2 DEF Infos
  <2> QED BY Zenon, <1>10, <2>1, <2>3
<1>12. /\ cu'.chunk = (IF i.last /\ before THEN 0 ELSE c)
       /\ cu'.breakGen = (IF first \/ breaks THEN i.gen ELSE cu.breakGen)
       /\ cu'.breakChunk = (IF first \/ breaks THEN c ELSE cu.breakChunk)
       /\ cu'.before = before
       /\ cu'.found = (cu.found \/ eof)
       /\ cu'.eofGen = (IF eof THEN i.gen ELSE cu.eofGen)
       /\ cu'.eofChunk = (IF eof THEN c ELSE cu.eofChunk)
  BY Zenon, <1>8
<1>13. cu'.before \in BOOLEAN /\ cu'.found \in BOOLEAN /\ eof \in BOOLEAN /\ breaks \in BOOLEAN
  BY Zenon, <1>12
<1>14. cu'.chunk # N /\ cu'.chunk \in Nat
  <2>1. cu'.chunk = 0 \/ cu'.chunk = c
    BY Zenon, <1>12
  <2>2. N \in Nat /\ N > 1
    BY Zenon, <1>0
  <2> HIDE DEF c
  <2> QED BY <1>9, <2>1, <2>2
<1>15. ASSUME NEW b \in -1 .. w - 1, NEW f \in -1 .. w - 1,
              At(cu'.breakChunk, cu'.breakGen, b),
              cu'.found => At(cu'.eofChunk, cu'.eofGen, f),
              Scanned(H, cu'.chunk, b, f, e, cu'.before, cu'.found, w)
       PROVE  Reads(H)'
  <2>1. \E bb, ff \in -1 .. written' - 1 :
          /\ At(cu'.breakChunk, cu'.breakGen, bb)
          /\ cu'.found => At(cu'.eofChunk, cu'.eofGen, ff)
          /\ Scanned(H, cu'.chunk, bb, ff, out'.end, cu'.before, cu'.found, written')
    BY Zenon, <1>3, <1>4, <1>5, <1>15
  <2>2. CatchupInv(H)'
    BY Zenon, <1>2, <1>3, <1>14, <2>1 DEF CatchupInv
  <2>3. Reader(H, x, s, a)'
    BY Zenon, <1>0, <1>1, <1>3, <2>2 DEF Reader, Polling
  <2> QED BY Zenon, <1>0, <1>3, <2>3 DEF Reads
<1>16. CASE cu.chunk = N
  <2>1. ~ cu.before /\ ~ cu.found
    BY Zenon, <1>1, <1>16 DEF CatchupInv
  <2>2. first /\ c = N - 1
    BY Zenon, <1>16
  <2> HIDE DEF i, c
  <2>3. ~ before /\ (eof <=> i.last)
    BY Zenon, <2>1, <2>2
  <2>4. (cu'.found <=> Ends(H, p)) /\ ~ cu'.before /\ cu'.chunk = N - 1
    BY Zenon, <1>11, <1>12, <2>1, <2>2, <2>3
  <2>5. At(cu'.breakChunk, cu'.breakGen, p)
    BY Zenon, <1>10, <1>11, <1>12, <2>2 DEF At
  <2>6. cu'.found => At(cu'.eofChunk, cu'.eofGen, p)
    BY Zenon, <1>10, <1>11, <1>12, <2>3, <2>4 DEF At
  <2>7. p \in -1 .. w - 1 /\ Scanned(H, N - 1, p, p, e, cu'.before, cu'.found, w)
    <3>1. Slot(p) = N - 1
      BY Zenon, <1>10, <2>2
    <3> QED BY Zenon, <1>6, <1>10, <1>13, <2>4, <3>1, ScanFirst
  <2> QED BY Zenon, <1>15, <2>4, <2>5, <2>6, <2>7
<1>17. CASE cu.chunk # N
  <2>1. cu.chunk < N /\ cu.chunk \in 1 .. N - 1 /\ ~ first /\ c = cu.chunk - 1
    BY <1>0, <1>7, <1>17
  <2>2. PICK b \in -1 .. written - 1 : \E f \in -1 .. written - 1 :
             /\ At(cu.breakChunk, cu.breakGen, b)
             /\ cu.found => At(cu.eofChunk, cu.eofGen, f)
             /\ Scanned(H, cu.chunk, b, f, out.end, cu.before, cu.found, written)
    BY Zenon, <1>1, <2>1 DEF CatchupInv
  <2>3. PICK f \in -1 .. written - 1 :
             /\ At(cu.breakChunk, cu.breakGen, b)
             /\ cu.found => At(cu.eofChunk, cu.eofGen, f)
             /\ Scanned(H, cu.chunk, b, f, out.end, cu.before, cu.found, written)
    BY Zenon, <2>2
  <2> HIDE DEF i, c, first
  <2>4. breaks <=> Gen(p) # Gen(b)
    BY Zenon, <1>11, <2>1, <2>3 DEF At
  <2> DEFINE b2 == IF breaks THEN p ELSE b
  <2> DEFINE f2 == IF eof THEN p ELSE f
  <2>5. /\ cu'.before <=> cu.before \/ breaks
        /\ eof <=> i.last /\ (cu'.before \/ ~ cu.found)
        /\ cu'.found <=> cu.found \/ eof
        /\ cu'.chunk = IF i.last /\ cu'.before THEN 0 ELSE cu.chunk - 1
    BY Zenon, <1>12, <2>1
  <2>6. Slot(p) = cu.chunk - 1
    BY Zenon, <1>10, <2>1
  <2>7. At(cu'.breakChunk, cu'.breakGen, b2)
    BY Zenon, <1>10, <1>11, <1>12, <2>1, <2>3 DEF At
  <2>8. cu'.found => At(cu'.eofChunk, cu'.eofGen, f2)
    BY Zenon, <1>10, <1>11, <1>12, <2>3 DEF At
  <2>9. /\ b2 \in -1 .. w - 1 /\ f2 \in -1 .. w - 1
        /\ Scanned(H, cu'.chunk, b2, f2, e, cu'.before, cu'.found, w)
    <3>1. /\ b \in -1 .. w - 1 /\ f \in -1 .. w - 1
          /\ Scanned(H, cu.chunk, b, f, e, cu.before, cu.found, w)
      BY Zenon, <2>3, <1>4, <1>5
    <3>2. PICK last \in BOOLEAN : last = i.last
      BY Zenon, <1>11
    <3>3. PICK br \in BOOLEAN : br = breaks
      BY Zenon, <1>13
    <3>4. PICK ef \in BOOLEAN : ef = eof
      BY Zenon, <1>13
    <3>5. PICK bb : bb = b2
      BY Zenon
    <3>6. PICK ff : ff = f2
      BY Zenon
    <3>7. bb = (IF br THEN p ELSE b) /\ ff = (IF ef THEN p ELSE f)
      BY Zenon, <3>3, <3>4, <3>5, <3>6
    <3>8. /\ br <=> Gen(p) # Gen(b)
          /\ last <=> Ends(H, p)
          /\ cu'.before <=> cu.before \/ br
          /\ ef <=> last /\ (cu'.before \/ ~ cu.found)
          /\ cu'.found <=> cu.found \/ ef
          /\ cu'.chunk = IF last /\ cu'.before THEN 0 ELSE cu.chunk - 1
      BY Zenon, <3>2, <3>3, <3>4, <2>4, <2>5, <1>11
    <3> HIDE DEF breaks, eof, before, b2, f2
    <3>9. /\ bb \in -1 .. w - 1 /\ ff \in -1 .. w - 1
          /\ Scanned(H, cu'.chunk, bb, ff, e, cu'.before, cu'.found, w)
      <4>1. ScanStep(H, w, e, cu.chunk, b, f, cu.before, cu.found, p, br, last, ef,
                     cu'.before, cu'.found, cu'.chunk, bb, ff)
        BY Zenon, <3>1, <3>7, <3>8, <2>1, <2>6, <1>6, <1>7, <1>10, <1>13 DEF ScanStep
      <4> QED BY Zenon, <4>1, ScanMore
    <3> QED BY Zenon, <3>5, <3>6, <3>9
  <2> HIDE DEF b2, f2
  <2> QED BY Zenon, <1>15, <2>7, <2>8, <2>9
<1> QED BY Zenon, <1>16, <1>17

(* The handle is set after a scan.                                         *)
LEMMA CatchupEndsInv ==
  ASSUME NEW H \in Hists, NEW x, NEW s, NEW a, Standing(H, x, s, a), CatchupEnds
  PROVE  Reads(H)'
<1>0. /\ Types /\ N \in Nat /\ N > 1 /\ written \in Nat /\ out.end \in Int
  BY Zenon, Stands
<1>1. pc = "catchup" /\ CatchupInv(H) /\ cu.chunk = 0
  BY Zenon DEF CatchupEnds, Standing, Reader
<1>2. /\ got = <<>> /\ told /\ out.end < written
      /\ loc.ret = "abort" => stale /\ api = "poll"
  BY Zenon, <1>1 DEF CatchupInv
<1>3. cu.chunk < N
  BY <1>0, <1>1
<1>4. PICK b \in -1 .. written - 1 : \E f \in -1 .. written - 1 :
           /\ At(cu.breakChunk, cu.breakGen, b)
           /\ cu.found => At(cu.eofChunk, cu.eofGen, f)
           /\ Scanned(H, cu.chunk, b, f, out.end, cu.before, cu.found, written)
  BY Zenon, <1>1, <1>3 DEF CatchupInv
<1>5. PICK f \in -1 .. written - 1 :
           /\ At(cu.breakChunk, cu.breakGen, b)
           /\ cu.found => At(cu.eofChunk, cu.eofGen, f)
           /\ Scanned(H, cu.chunk, b, f, out.end, cu.before, cu.found, written)
  BY Zenon, <1>4
<1>6. PICK t : t = IF cu.found THEN f ELSE b
  BY Zenon
<1>7. /\ t \in -1 .. written - 1
      /\ out.end <= t \/ written > t + 1 + N
      /\ cu.found => Ends(H, t)
  BY Zenon, <1>1, <1>4, <1>5, <1>6 DEF Scanned
<1>8. At(CatchupTarget.chunk, CatchupTarget.gen, t)
  BY Zenon, <1>5, <1>6 DEF CatchupTarget, At
<1> DEFINE h == [next |-> CatchupTarget.chunk, gen |-> CatchupTarget.gen,
                 sentinel |-> CatchupTarget.chunk, sgen |-> CatchupTarget.gen]
<1>9. /\ h \in Handles /\ At(h.next, h.gen, t) /\ At(h.sentinel, h.sgen, t)
  <2>1. CatchupTarget.chunk \in Chunks /\ CatchupTarget.gen \in Gens
    BY Zenon, <1>0 DEF CatchupTarget, Scans, Types
  <2>2. h \in Handles
    BY Zenon, <2>1 DEF Handles
  <2> QED BY Zenon, <1>8, <2>2
<1>10. /\ rx' = Advance(h) /\ pc' = loc.ret /\ cu' = [NoCatchup EXCEPT !.blind = ~ cu.found]
       /\ UNCHANGED <<written, api, got, stale, told, out>>
  BY Zenon DEF CatchupEnds, adapter
<1> HIDE DEF h
<1>11. At(rx.next, rx.gen, t + 1)' /\ At(rx.sentinel, rx.sgen, t)'
  BY Zenon, <1>0, <1>7, <1>9, <1>10, MoveOn
<1>12. cu'.blind <=> ~ cu.found
  BY Zenon, <1>10 DEF NoCatchup
<1>13. t + 1 \in 0 .. written /\ t \in -1 .. written /\ t < t + 1 /\ (t + 1) - 1 = t /\ t \in Int
  BY <1>0, <1>7
<1>14. out.end < t + 1 \/ written > (t + 1) + N
  BY <1>0, <1>7, <1>13
<1>15. CASE loc.ret = "idle"
  <2>1. cu'.blind \/ Ends(H, (t + 1) - 1)
    BY Zenon, <1>7, <1>12, <1>13
  <2>2. Ahead(t + 1)' \/ (written > (t + 1) + N /\ told' /\ out'.end < written)
    BY Zenon, <1>2, <1>10, <1>14 DEF Ahead
  <2>3. pc' = "idle" /\ got' = <<>>
    BY Zenon, <1>2, <1>10, <1>15
  <2> QED BY Zenon, <1>10, <1>11, <1>13, <2>1, <2>2, <2>3, ToIdle
<1>16. CASE loc.ret = "abort"
  <2>1. stale' /\ api' = "poll" /\ told' /\ got' = <<>> /\ pc' = "abort"
    BY Zenon, <1>2, <1>10, <1>16
  <2>2. AbortInv(H, t + 1, t)'
    BY Zenon, <1>2, <1>10, <1>14, <2>1 DEF AbortInv
  <2>3. Reader(H, t + 1, t, t)'
    BY Zenon, <1>11, <2>1, <2>2 DEF Reader, Polling
  <2> QED BY Zenon, <1>10, <1>13, <2>3 DEF Reads
<1>17. loc.ret \in {"idle", "abort"}
  BY Zenon, <1>0, LookTypes
<1> QED BY Zenon, <1>15, <1>16, <1>17

\* What holds of a packet that is read in place.
Held(H, x, s, a) ==
  /\ Types /\ HistInv(H) /\ BufInv(H) /\ Delivered(H) /\ N \in Nat /\ N > 1
  /\ x \in Nat /\ s \in Int /\ a \in Nat /\ x <= written /\ a < x /\ a < written
  /\ x \in 0 .. written /\ s \in -1 .. written /\ a \in 0 .. written
  /\ a \in -1 .. written /\ a \in 0 .. written - 1 /\ x - 1 \in 0 .. written - 1
  /\ written \in Nat /\ Begun \in Nat /\ written <= Begun /\ Begun <= written + 1
  /\ got \in Seq(Payloads) /\ Len(got) \in Nat
  /\ out.end \in Int /\ -1 <= out.end /\ out.end < a
  /\ cu.blind \in BOOLEAN /\ more \in BOOLEAN /\ rx \in Handles
  /\ At(rx.next, rx.gen, x) /\ At(rx.sentinel, rx.sgen, s)
  /\ PollInv(H, x, a)
  /\ api = "poll" /\ At(loc.chunk, loc.gen, a) /\ Ahead(a)
  /\ (more <=> ~ Ends(H, x - 1)) /\ ~ stale
  /\ (cu.blind \/ Ends(H, a - 1))
  /\ (Begun <= a + N /\ ~ cu.blind => H[x - 1].idx = x - a /\ H[x - 1].len = H[a].len)
  /\ H[a].len \in Nat /\ H[a].idx \in Nat /\ H[x - 1].len \in Nat /\ H[x - 1].idx \in Nat

(* The facts of a packet that is read in place.                            *)
LEMMA Holds ==
  ASSUME NEW H \in Hists, NEW x, NEW s, NEW a, Standing(H, x, s, a), pc \in Polling
  PROVE  Held(H, x, s, a)
<1>0. /\ Types /\ HistInv(H) /\ BufInv(H) /\ Delivered(H) /\ N \in Nat /\ N > 1
      /\ x \in Nat /\ s \in Int /\ a \in Int /\ x <= written
      /\ x \in 0 .. written /\ s \in -1 .. written /\ a \in -1 .. written
      /\ written \in Nat /\ Begun \in Nat /\ written <= Begun /\ Begun <= written + 1
      /\ got \in Seq(Payloads) /\ Len(got) \in Nat
      /\ out.end \in Int /\ -1 <= out.end
      /\ cu.blind \in BOOLEAN /\ rx \in Handles
      /\ At(rx.next, rx.gen, x) /\ At(rx.sentinel, rx.sgen, s)
  BY Zenon, Stands
<1>1. PollInv(H, x, a)
  BY Zenon DEF Standing, Reader
<1>2. /\ api = "poll" /\ ~ stale /\ At(loc.chunk, loc.gen, a) /\ 0 <= a /\ a < x /\ Ahead(a)
      /\ (more <=> ~ Ends(H, x - 1))
      /\ (cu.blind \/ Ends(H, a - 1))
      /\ (Begun <= a + N /\ ~ cu.blind => H[x - 1].idx = x - a /\ H[x - 1].len = H[a].len)
  BY Zenon, <1>1 DEF PollInv
<1>3. more \in BOOLEAN
  BY Zenon, <1>0 DEF Types
<1>4. /\ a \in Nat /\ a < written /\ a \in 0 .. written /\ a \in 0 .. written - 1
      /\ x - 1 \in 0 .. written - 1 /\ x - 1 \in Nat
  BY <1>0, <1>2
<1>5. out.end < a
  BY Zenon, <1>2 DEF Ahead
<1>6. H[a].len \in Nat /\ H[a].idx \in Nat /\ H[x - 1].len \in Nat /\ H[x - 1].idx \in Nat
  BY Zenon, <1>4 DEF Hists
<1> QED BY Zenon, <1>0, <1>1, <1>2, <1>3, <1>4, <1>5, <1>6 DEF Held

(* The packet is dropped where it stands.                                  *)
LEMMA DropHere ==
  ASSUME NEW H \in Hists, NEW x, NEW s, NEW a, Held(H, x, s, a), Drop, UNCHANGED rx
  PROVE  Reads(H)'
<1>0. /\ x \in Nat /\ a \in Nat /\ a < x /\ x \in 0 .. written /\ s \in -1 .. written
      /\ out.end \in Int /\ out.end < a /\ more \in BOOLEAN
      /\ At(rx.next, rx.gen, x) /\ At(rx.sentinel, rx.sgen, s)
      /\ api = "poll" /\ (more <=> ~ Ends(H, x - 1))
  BY Zenon DEF Held
<1>1. UNCHANGED written
  BY Zenon DEF Drop, adapter
<1>2. out.end < x
  BY <1>0
<1>3. At(rx.next, rx.gen, x)' /\ At(rx.sentinel, rx.sgen, s)'
  BY Zenon, <1>0
<1> QED BY Zenon, <1>0, <1>1, <1>2, <1>3, DropInv

(* The header chunk.                                                       *)
LEMMA PollHeaderInv ==
  ASSUME NEW H \in Hists, NEW x, NEW s, NEW a, Standing(H, x, s, a), PollHeader
  PROVE  Reads(H)'
<1>0. /\ Types /\ HistInv(H) /\ BufInv(H) /\ N \in Nat
      /\ x \in Nat /\ s \in Int /\ x <= written
      /\ x \in 0 .. written /\ s \in -1 .. written /\ a \in -1 .. written
      /\ written \in Nat /\ got \in Seq(Payloads) /\ Len(got) \in Nat /\ rx \in Handles
      /\ out.end \in Int /\ -1 <= out.end /\ cu.blind \in BOOLEAN
      /\ At(rx.next, rx.gen, x) /\ At(rx.sentinel, rx.sgen, s)
  BY Zenon, Stands
<1>1. pc = "idle" /\ api = "poll" /\ IdleInv(H, x, s)
  BY Zenon DEF PollHeader, Standing, Reader
<1>2. /\ New => /\ x < written /\ written <= x + N /\ Info.gen = Gen(x)
                /\ Info.last <=> Ends(H, x)
                /\ Info.bad => Info.last
      /\ Lapped => written > x + N
  BY Zenon, <1>0, Look
<1>3. Len(got) = 0 /\ got = <<>> /\ x - Len(got) = x
  <2>1. Len(got) = 0
    <3>1. Len(got) \in Nat /\ ~ (Len(got) > 0)
      BY Zenon, <1>0, <1>1 DEF IdleInv
    <3> QED BY <3>1
  <2>2. got \in Seq(Payloads) /\ x \in Nat
    BY Zenon, <1>0
  <2> QED BY <2>1, <2>2
<1>4. cu.blind \/ Ends(H, x - 1)
  <2>1. Leads(H, x, 0, cu.blind)
    BY Zenon, <1>1, <1>3 DEF IdleInv
  <2> QED BY Zenon, <2>1 DEF Leads
<1>5. New => Ahead(x)
  <2>1. New => ~ (written > x + N)
    <3>1. written \in Nat /\ x \in Nat /\ N \in Nat
      BY Zenon, <1>0
    <3>2. New => written <= x + N
      BY Zenon, <1>2
    <3> QED BY <3>1, <3>2
  <2> QED BY Zenon, <1>1, <1>3, <2>1 DEF IdleInv
<1>6. UNCHANGED <<written, half, api, out>> /\ Begun' = Begun
      /\ more' = (New /\ ~ Info.last) /\ stale' = FALSE
  <2>1. UNCHANGED <<written, half, api, out>> /\ more' = (New /\ ~ Info.last) /\ stale' = FALSE
    BY Zenon DEF PollHeader, adapter
  <2> QED BY Zenon, <2>1 DEF Begun
<1>7. New => /\ x \in 0 .. written - 1 /\ x \in -1 .. written - 1 /\ x + 1 \in 0 .. written
             /\ x \in -1 .. written /\ (x + 1) - 1 = x /\ x < x + 1 /\ 0 <= x
             /\ (x + 1) - x = 1 /\ x + 1 = x + 1
  BY <1>0, <1>2
<1>8. New => /\ At(Advance(rx).next, Advance(rx).gen, x + 1)
             /\ Advance(rx).sentinel = rx.sentinel /\ Advance(rx).sgen = rx.sgen
  BY Zenon, <1>0, <1>7, MoveOn
<1>9. CASE Lapped /\ pc' = "catchup" /\ loc' = NoLoc /\ cu' = NoCatchup
           /\ told' = TRUE /\ UNCHANGED <<rx, got>>
  <2>1. out.end < written
    BY Zenon, <1>1, IdleBehind
  <2>2. loc'.ret = "idle"
    BY Zenon, <1>9 DEF NoLoc
  <2>3. ~ (loc'.ret = "abort")
    BY Zenon, <2>2
  <2> QED BY Zenon, <1>3, <1>6, <1>9, <2>1, <2>3, ToCatchup
<1>10. CASE New /\ Info.bad /\ rx' = Advance(rx) /\ told' = TRUE /\ UNCHANGED <<pc, got, cu>>
  <2>1. Ends(H, (x + 1) - 1)
    BY Zenon, <1>2, <1>7, <1>10
  <2>2. At(rx.next, rx.gen, x + 1)' /\ At(rx.sentinel, rx.sgen, s)'
    BY ZenonT(30), <1>0, <1>8, <1>10
  <2>3. Ahead(x + 1)'
    BY <1>0, <1>5, <1>6, <1>10 DEF Ahead
  <2>4. pc' = "idle" /\ got' = <<>> /\ ~ (api' # "poll")
    BY Zenon, <1>1, <1>3, <1>6, <1>10
  <2> QED BY Zenon, <1>0, <1>6, <1>7, <1>10, <2>1, <2>2, <2>3, <2>4, ToIdle
<1>11. CASE /\ New /\ ~ Info.bad
            /\ loc' = [NoLoc EXCEPT !.chunk = rx.next, !.gen = rx.gen]
            /\ rx' = Advance(rx) /\ pc' = "parse"
            /\ UNCHANGED <<got, cu, told>>
  <2>1. loc'.chunk = rx.next /\ loc'.gen = rx.gen
    BY Zenon, <1>11 DEF NoLoc
  <2>2. At(rx.next, rx.gen, x + 1)' /\ At(rx.sentinel, rx.sgen, s)' /\ At(loc.chunk, loc.gen, x)'
    BY Zenon, <1>0, <1>8, <1>11, <2>1
  <2>3. more' <=> ~ Ends(H, (x + 1) - 1)
    BY Zenon, <1>2, <1>6, <1>7, <1>11
  <2>4. Ahead(x)'
    BY Zenon, <1>5, <1>6, <1>11 DEF Ahead
  <2>5. ~ cu.blind => H[x].idx = 1
    <3>1. x \in 0 .. written - 1 /\ Types /\ HistInv(H)
      BY ZenonT(30), <1>0, <1>7, <1>11
    <3>2. Ends(H, x - 1) => H[x].idx = 1
      BY <3>1, Place
    <3> QED BY Zenon, <1>4, <3>2
  <2>6. ~ cu'.blind => H[(x + 1) - 1].idx = (x + 1) - x /\ H[(x + 1) - 1].len = H[x].len
    BY Zenon, <1>7, <1>11, <2>5
  <2>7. /\ pc' = "parse" /\ ~ (pc' # "parse") /\ ~ (pc' \notin {"parse", "copy"})
        /\ pc' # "body" /\ pc' # "bodycopy" /\ ~ (pc' \in {"validate", "recheck"})
    BY Zenon, <1>11
  <2>8. PollInv(H, x + 1, x)'
    <3>1. cu'.blind \/ Ends(H, x - 1)
      BY Zenon, <1>4, <1>11
    <3>2. got' = <<>> /\ api' = "poll" /\ ~ stale'
      BY Zenon, <1>1, <1>3, <1>6, <1>11
    <3> QED BY Zenon, <1>7, <1>11, <2>2, <2>3, <2>4, <2>6, <2>7, <3>1, <3>2 DEF PollInv
  <2>9. Reader(H, x + 1, s, x)'
    BY Zenon, <2>2, <2>7, <2>8 DEF Reader
  <2> QED BY Zenon, <1>0, <1>6, <1>7, <1>11, <2>9 DEF Reads
<1> QED BY Zenon, <1>9, <1>10, <1>11 DEF PollHeader

(* What stays when only the phase, the data or the locals change.          *)
LEMMA PollGoesOn ==
  ASSUME NEW H \in Hists, NEW x, NEW s, NEW a, Held(H, x, s, a),
         UNCHANGED <<written, half, api, rx, cu, more, stale, told, out>>,
         UNCHANGED <<loc.chunk, loc.gen>>, pc' \in Polling \ {"parse"},
         /\ loc'.need \in 1 .. MaxFrame
         /\ Begun <= a + N => H[a].len - loc'.need \in 0 .. 1,
         pc' # "copy" => (Begun <= a + N => Copies(H, a, got')),
         pc' = "copy" => got' = <<>> /\ x = a + 1,
         pc' = "body" => Len(got') = x - a /\ x - a < loc'.need,
         pc' # "bodycopy",
         pc' \in {"validate", "recheck"} => Len(got') = x - a /\ x - a = loc'.need
  PROVE  Reads(H)'
<1>0. /\ x \in 0 .. written /\ s \in -1 .. written /\ a \in -1 .. written
      /\ a \in Nat /\ a < x
      /\ At(rx.next, rx.gen, x) /\ At(rx.sentinel, rx.sgen, s)
      /\ api = "poll" /\ At(loc.chunk, loc.gen, a) /\ Ahead(a)
      /\ (more <=> ~ Ends(H, x - 1)) /\ ~ stale
      /\ (cu.blind \/ Ends(H, a - 1))
      /\ (Begun <= a + N /\ ~ cu.blind => H[x - 1].idx = x - a /\ H[x - 1].len = H[a].len)
  BY ZenonT(30) DEF Held
<1>1. Begun' = Begun /\ 0 <= a
  BY SMTT(30), <1>0 DEF Begun
<1>2. At(rx.next, rx.gen, x)' /\ At(rx.sentinel, rx.sgen, s)' /\ At(loc.chunk, loc.gen, a)'
  BY Zenon, <1>0
<1>3. Ahead(a)'
  BY Zenon, <1>0 DEF Ahead
<1>4. /\ pc' # "parse" /\ pc' \in Polling
      /\ pc' \notin {"parse", "copy"} => pc' # "copy"
      /\ pc' \in {"parse", "copy"} => pc' = "copy"
  BY Zenon
<1>5. PollInv(H, x, a)'
  BY Zenon, <1>0, <1>1, <1>2, <1>3, <1>4 DEF PollInv
<1>6. Reader(H, x, s, a)'
  BY Zenon, <1>2, <1>4, <1>5 DEF Reader, Polling
<1> QED BY Zenon, <1>0, <1>6 DEF Reads

(* The headers are read in place.                                          *)
LEMMA PollParseInv ==
  ASSUME NEW H \in Hists, NEW x, NEW s, NEW a, Standing(H, x, s, a), PollParse
  PROVE  Reads(H)'
<1>1. pc = "parse" /\ pc \in Polling
  BY Zenon DEF PollParse, Polling
<1>2. Held(H, x, s, a)
  BY Zenon, <1>1, Holds
<1>3. CASE Drop /\ UNCHANGED <<rx, stale>>
  BY Zenon, <1>2, <1>3, DropHere
<1>4. CASE ~ (Drop /\ UNCHANGED <<rx, stale>>)
  <2> DEFINE p == buffer[loc.chunk].payload
  <2>1. PICK need \in {p.len, p.len - 1} \ {0} :
          /\ loc' = [loc EXCEPT !.hdr = p, !.need = need]
          /\ pc' = "copy"
          /\ UNCHANGED <<adapter, api, rx, got, cu, more, stale, told, out>>
    BY Zenon, <1>4 DEF PollParse
  <2>2. /\ Types /\ HistInv(H) /\ BufInv(H) /\ a \in 0 .. written /\ a < written /\ written \in Nat
        /\ Begun \in Nat /\ written <= Begun /\ a \in Nat
        /\ At(loc.chunk, loc.gen, a) /\ PollInv(H, x, a) /\ H[a].len \in Nat
    BY Zenon, <1>2 DEF Held
  <2>3. p \in Payloads
    BY Zenon, <2>2, LookTypes
  <2>4. need \in 1 .. MaxFrame
    <3>1. p.len \in 1 .. MaxFrame
      BY ZenonT(30), <2>3 DEF Payloads
    <3> QED BY <3>1, Sizes
  <2>5. ASSUME Begun <= a + N PROVE H[a].len - need \in 0 .. 1
    <3>1. a < Begun
      BY SMTT(30), <2>2
    <3>2. p = PayOf(H, a)
      BY ZenonT(30), <2>2, <2>5, <3>1, Payload DEF At
    <3>3. p.len = H[a].len
      BY SMTT(30), <3>2 DEF PayOf
    <3> QED BY SMTT(30), <2>2, <3>3
  <2>6. loc'.need = need /\ loc'.chunk = loc.chunk /\ loc'.gen = loc.gen
    BY Zenon, <2>1, <2>2 DEF Types, Locals
  <2>7. got' = <<>> /\ x = a + 1
    BY Zenon, <2>1, <2>2, <1>1 DEF PollInv
  <2>8. UNCHANGED <<written, half, api, rx, cu, more, stale, told, out>>
    BY Zenon, <2>1 DEF adapter
  <2>9. /\ pc' \in Polling \ {"parse"} /\ pc' = "copy" /\ pc' # "body" /\ pc' # "bodycopy"
        /\ ~ (pc' \in {"validate", "recheck"})
    BY Zenon, <2>1 DEF Polling
  <2>10. UNCHANGED <<loc.chunk, loc.gen>>
    BY Zenon, <2>6
  <2>11. /\ loc'.need \in 1 .. MaxFrame
         /\ Begun <= a + N => H[a].len - loc'.need \in 0 .. 1
    BY Zenon, <2>4, <2>5, <2>6
  <2> QED BY Zenon, <1>2, <2>7, <2>8, <2>9, <2>10, <2>11, PollGoesOn
<1> QED BY Zenon, <1>3, <1>4

(* The data in the header chunk are copied.                                *)
LEMMA PollCopyInv ==
  ASSUME NEW H \in Hists, NEW x, NEW s, NEW a, Standing(H, x, s, a), PollCopy
  PROVE  Reads(H)'
<1>1. pc = "copy" /\ pc \in Polling
  BY Zenon DEF PollCopy, Polling
<1>2. Held(H, x, s, a)
  BY Zenon, <1>1, Holds
<1> DEFINE p == buffer[loc.chunk].payload
<1>3. /\ got' = <<p>> /\ pc' = Copied(got')
      /\ UNCHANGED <<written, half, api, rx, loc, cu, more, stale, told, out>>
  BY Zenon DEF PollCopy, adapter
<1>4. /\ Types /\ HistInv(H) /\ BufInv(H) /\ a \in 0 .. written /\ a < written /\ written \in Nat
      /\ Begun \in Nat /\ written <= Begun /\ a \in Nat /\ x \in Nat
      /\ At(loc.chunk, loc.gen, a) /\ PollInv(H, x, a)
  BY Zenon, <1>2 DEF Held
<1>5. /\ loc.need \in 1 .. MaxFrame /\ x = a + 1
      /\ Begun <= a + N => H[a].len - loc.need \in 0 .. 1
  BY Zenon, <1>1, <1>4 DEF PollInv
<1>6. ASSUME Begun <= a + N PROVE Copies(H, a, got')
  <2>1. a < Begun
    BY <1>4
  <2>2. p = PayOf(H, a)
    BY Zenon, <1>4, <1>6, <2>1, Payload DEF At
  <2> HIDE DEF p
  <2>3. Len(got') = 1 /\ got'[1] = p
    BY Zenon, <1>3
  <2>4. \A i \in 1 .. 1 : i = 1
    OBVIOUS
  <2>5. a + 1 - 1 = a
    BY <1>4
  <2> QED BY Zenon, <2>2, <2>3, <2>4, <2>5 DEF Copies
<1>7. Len(got') = 1 /\ x - a = 1
  <2>1. got' = <<p>>
    BY Zenon, <1>3
  <2>2. a \in Nat /\ x = a + 1
    BY Zenon, <1>4, <1>5
  <2>3. x - a = 1
    BY <2>2
  <2> HIDE DEF p
  <2>4. Len(<<p>>) = 1
    OBVIOUS
  <2> QED BY Zenon, <2>1, <2>3, <2>4
<1>8. loc.need \in Nat /\ (1 >= loc.need => loc.need = 1) /\ (~ (1 >= loc.need) => 1 < loc.need)
  BY <1>5, Sizes
<1>9. pc' = IF 1 >= loc.need THEN "validate" ELSE "body"
  BY Zenon, <1>3, <1>7 DEF Copied
<1>10. UNCHANGED <<loc.chunk, loc.gen>> /\ loc'.need = loc.need
  BY Zenon, <1>3
<1>11. /\ pc' \in Polling \ {"parse"} /\ pc' # "copy" /\ pc' # "bodycopy"
       /\ pc' = "body" => x - a < loc.need
       /\ pc' \in {"validate", "recheck"} => x - a = loc.need
  BY Zenon, <1>7, <1>8, <1>9 DEF Polling
<1>12. Len(got') = x - a
  BY Zenon, <1>7
<1> QED BY Zenon, <1>2, <1>3, <1>5, <1>6, <1>10, <1>11, <1>12, PollGoesOn

(* The next chunk of the body.                                             *)
LEMMA PollBodyInv ==
  ASSUME NEW H \in Hists, NEW x, NEW s, NEW a, Standing(H, x, s, a), PollBody
  PROVE  Reads(H)'
<1>1. pc = "body" /\ pc \in Polling
  BY Zenon DEF PollBody, Polling
<1>2. Held(H, x, s, a)
  BY Zenon, <1>1, Holds
<1>3. /\ Types /\ HistInv(H) /\ BufInv(H) /\ N \in Nat
      /\ x \in Nat /\ a \in Nat /\ x <= written /\ a < x
      /\ x \in 0 .. written /\ s \in -1 .. written /\ a \in -1 .. written
      /\ written \in Nat /\ Begun \in Nat /\ x - 1 \in 0 .. written - 1
      /\ out.end \in Int /\ out.end < a
      /\ cu.blind \in BOOLEAN /\ more \in BOOLEAN /\ rx \in Handles
      /\ At(rx.next, rx.gen, x) /\ At(rx.sentinel, rx.sgen, s)
      /\ PollInv(H, x, a)
  BY Zenon, <1>2 DEF Held
<1>4. /\ api = "poll" /\ At(loc.chunk, loc.gen, a) /\ Ahead(a)
      /\ (more <=> ~ Ends(H, x - 1)) /\ ~ stale
      /\ (cu.blind \/ Ends(H, a - 1))
      /\ (Begun <= a + N /\ ~ cu.blind => H[x - 1].idx = x - a /\ H[x - 1].len = H[a].len)
      /\ H[a].len \in Nat /\ H[a].idx \in Nat /\ H[x - 1].len \in Nat /\ H[x - 1].idx \in Nat
  BY Zenon, <1>2 DEF Held
<1>5. /\ loc.need \in 1 .. MaxFrame
      /\ Begun <= a + N => H[a].len - loc.need \in 0 .. 1
      /\ Begun <= a + N => Copies(H, a, got)
      /\ Len(got) = x - a /\ x - a < loc.need
  BY Zenon, <1>1, <1>3 DEF PollInv
<1>6. /\ New => /\ x < written /\ written <= x + N /\ Info.gen = Gen(x)
                /\ Info.last <=> Ends(H, x)
                /\ Info.bad => Info.last
      /\ Lapped => written > x + N
  BY Zenon, <1>3, Look
<1>7. New => /\ x \in 0 .. written - 1 /\ x \in -1 .. written - 1 /\ x + 1 \in 0 .. written
             /\ (x + 1) - 1 = x /\ a < x + 1 /\ (x + 1) - a - 1 = x - a /\ 0 <= a
             /\ out.end < x + 1 /\ (x + 1) - a = (x - a) + 1
  <2>1. /\ x \in Nat /\ a \in Nat /\ a < x /\ written \in Nat /\ out.end \in Int /\ out.end < a
    BY Zenon, <1>3
  <2>2. New => x < written
    BY Zenon, <1>6
  <2> QED BY <2>1, <2>2
<1>8. New => /\ At(Advance(rx).next, Advance(rx).gen, x + 1)
             /\ Advance(rx).sentinel = rx.sentinel /\ Advance(rx).sgen = rx.sgen
  BY Zenon, <1>3, <1>7, MoveOn
<1>9. CASE /\ New /\ ~ Info.bad
           /\ loc' = [loc EXCEPT !.at = rx.next]
           /\ rx' = Advance(rx) /\ more' = ~ Info.last /\ pc' = "bodycopy"
           /\ UNCHANGED <<adapter, api, got, cu, stale, told, out>>
  <2>1. /\ loc'.at = rx.next /\ loc'.need = loc.need /\ loc'.chunk = loc.chunk /\ loc'.gen = loc.gen
    BY Zenon, <1>3, <1>9 DEF Types, Locals
  <2>2. UNCHANGED <<written, half, api, got, cu, stale, told, out>> /\ Begun' = Begun
    BY Zenon, <1>9 DEF adapter, Begun
  <2>3. /\ At(rx.next, rx.gen, x + 1)' /\ At(rx.sentinel, rx.sgen, s)'
        /\ At(loc.chunk, loc.gen, a)' /\ loc'.at = Slot(x)
    BY Zenon, <1>3, <1>4, <1>8, <1>9, <2>1 DEF At
  <2>4. more' <=> ~ Ends(H, (x + 1) - 1)
    BY Zenon, <1>6, <1>7, <1>9
  <2>5. Ahead(a)'
    BY Zenon, <1>4, <2>2 DEF Ahead
  <2>6. ASSUME Begun <= a + N, ~ cu.blind
        PROVE  H[x].idx = (x - a) + 1 /\ H[x].len = H[a].len
    <3>1. H[x - 1].idx = x - a /\ H[x - 1].len = H[a].len /\ H[a].len - loc.need \in 0 .. 1
      BY Zenon, <1>4, <1>5, <2>6
    <3>2. H[x - 1].idx # H[x - 1].len /\ ~ (x - 1 < 0)
      <4>1. /\ x \in Nat /\ a \in Nat /\ a < x /\ H[a].len \in Nat
            /\ loc.need \in 1 .. MaxFrame /\ x - a < loc.need
        BY ZenonT(30), <1>3, <1>4, <1>5
      <4>2. x - a # H[a].len /\ ~ (x - 1 < 0)
        BY <3>1, <4>1, Sizes
      <4> QED BY Zenon, <3>1, <4>2
    <3>3. ~ Ends(H, x - 1)
      BY Zenon, <3>2 DEF Ends
    <3>4. H[x].idx = H[x - 1].idx + 1 /\ H[x].len = H[x - 1].len
      <4>1. x \in 0 .. written - 1 /\ Types /\ HistInv(H)
        BY Zenon, <1>3, <1>7, <1>9
      <4> QED BY Zenon, <3>3, <4>1, PlaceMore
    <3> QED BY Zenon, <3>1, <3>4
  <2>7. Begun' <= a + N /\ ~ cu'.blind =>
          H[(x + 1) - 1].idx = (x + 1) - a /\ H[(x + 1) - 1].len = H[a].len
    BY Zenon, <1>7, <1>9, <2>2, <2>6
  <2>8. /\ pc' = "bodycopy" /\ ~ (pc' \in {"parse", "copy"}) /\ pc' # "body"
        /\ ~ (pc' \in {"validate", "recheck"})
    BY Zenon, <1>9
  <2>9. /\ loc'.need \in 1 .. MaxFrame
        /\ Begun' <= a + N => H[a].len - loc'.need \in 0 .. 1
        /\ Begun' <= a + N => Copies(H, a, got')
        /\ Len(got') = (x + 1) - a - 1 /\ (x + 1) - a - 1 < loc'.need
        /\ loc'.at = Slot((x + 1) - 1)
        /\ api' = "poll" /\ ~ stale' /\ (cu'.blind \/ Ends(H, a - 1))
    <3>1. /\ (x + 1) - 1 = x /\ (x + 1) - a - 1 = x - a
      BY Zenon, <1>7, <1>9
    <3>2. got' = got /\ cu' = cu /\ api' = api /\ stale' = stale
      BY Zenon, <2>2
    <3>3. /\ loc'.need \in 1 .. MaxFrame
          /\ Begun' <= a + N => H[a].len - loc'.need \in 0 .. 1
          /\ Begun' <= a + N => Copies(H, a, got')
      BY Zenon, <1>5, <2>1, <2>2
    <3>4. Len(got') = (x + 1) - a - 1 /\ (x + 1) - a - 1 < loc'.need /\ loc'.at = Slot((x + 1) - 1)
      BY Zenon, <1>5, <2>1, <2>3, <3>1, <3>2
    <3>5. api' = "poll" /\ ~ stale' /\ (cu'.blind \/ Ends(H, a - 1))
      BY Zenon, <1>4, <3>2
    <3> QED BY Zenon, <3>3, <3>4, <3>5
  <2>10. 0 <= a /\ a < x + 1
    BY Zenon, <1>7, <1>9
  <2>11. PollInv(H, x + 1, a)'
    BY Zenon, <2>3, <2>4, <2>5, <2>7, <2>8, <2>9, <2>10 DEF PollInv
  <2>12. Reader(H, x + 1, s, a)'
    BY Zenon, <2>3, <2>8, <2>11 DEF Reader
  <2> QED BY Zenon, <1>3, <1>7, <1>9, <2>2, <2>12 DEF Reads
<1>10. CASE New /\ Info.bad /\ rx' = Advance(rx) /\ stale' = more /\ Drop
  <2>1. UNCHANGED written
    BY Zenon, <1>10 DEF Drop, adapter
  <2>2. At(rx.next, rx.gen, x + 1)' /\ At(rx.sentinel, rx.sgen, s)'
    BY Zenon, <1>3, <1>8, <1>10
  <2>3. Ends(H, (x + 1) - 1)
    BY Zenon, <1>6, <1>7, <1>10
  <2>4. more => stale'
    BY Zenon, <1>10
  <2> QED BY ZenonT(30), <1>3, <1>4, <1>7, <1>10, <2>1, <2>2, <2>3, <2>4, DropInv
<1>11. CASE Drop /\ UNCHANGED <<rx, stale>>
  BY Zenon, <1>2, <1>11, DropHere
<1>12. CASE /\ Lapped /\ pc' = "catchup" /\ got' = <<>>
            /\ loc' = [NoLoc EXCEPT !.ret = Leave(more)]
            /\ cu' = NoCatchup /\ told' = TRUE /\ stale' = more
            /\ UNCHANGED <<adapter, api, rx, more, out>>
  <2>1. UNCHANGED <<written, rx, out, api>>
    BY Zenon, <1>12 DEF adapter
  <2>2. loc'.ret = Leave(more)
    BY Zenon, <1>12 DEF NoLoc
  <2>3. loc'.ret = "abort" => stale' /\ api = "poll"
    BY SMTT(30), <1>3, <1>4, <1>12, <2>2 DEF Leave
  <2>4. out.end < written
    BY <1>3
  <2> QED BY Zenon, <1>12, <2>1, <2>3, <2>4, ToCatchup
<1> QED BY Zenon, <1>9, <1>10, <1>11, <1>12 DEF PollBody

(* A chunk is not begun again a lap later if the adapter is not at it.     *)
LEMMA Untouched ==
  ASSUME Types, NEW a \in 0 .. written, written <= a + N, ~ (half /\ written % N = Slot(a))
  PROVE  Begun <= a + N
<1>1. /\ written \in Nat /\ written <= MaxChunks /\ N \in Nat /\ N > 1 /\ a \in Nat
      /\ Begun = IF half THEN written + 1 ELSE written
  BY Progress, Sizes DEF Begun
<1>2. CASE half /\ written = a + N
  <2>1. PICK w : w = written
    BY Zenon
  <2>2. w \in 0 .. MaxChunks /\ w \in -N .. w /\ w = a + N
    BY <1>1, <1>2, <2>1, Sizes
  <2>3. w \in Positions
    BY Zenon, <2>2, Past
  <2>4. Slot(w) \in 0 .. N - 1
    BY Zenon, <2>3, Laps
  <2>5. PICK p \in w - N .. w - 1 : p \in Positions /\ Slot(p) = Slot(w)
    BY Zenon, <2>2, <2>4, Window
  <2>6. p < w => p + N <= w
    BY Zenon, <2>3, <2>5, SameSlot
  <2>7. p = a
    BY <1>1, <2>2, <2>5, <2>6
  <2>8. Slot(a) = written % N
    BY Zenon, <2>1, <2>5, <2>7 DEF Slot
  <2> QED BY Zenon, <1>2, <2>8
<1>3. CASE ~ (half /\ written = a + N)
  BY <1>1, <1>3
<1> QED BY Zenon, <1>2, <1>3

(* A chunk of the body is copied.                                          *)
LEMMA PollBodyCopyInv ==
  ASSUME NEW H \in Hists, NEW x, NEW s, NEW a, Standing(H, x, s, a), PollBodyCopy
  PROVE  Reads(H)'
<1>1. pc = "bodycopy" /\ pc \in Polling
  BY Zenon DEF PollBodyCopy, Polling
<1>2. Held(H, x, s, a)
  BY Zenon, <1>1, Holds
<1>3. CASE Drop /\ UNCHANGED <<rx, stale>>
  BY Zenon, <1>2, <1>3, DropHere
<1>4. CASE ~ (Drop /\ UNCHANGED <<rx, stale>>)
  <2> DEFINE v == buffer[loc.at].payload
  <2> DEFINE data == Append(got, v)
  <2>1. /\ got' = data /\ pc' = Copied(data)
        /\ UNCHANGED <<written, half, api, rx, loc, cu, more, stale, told, out>>
    BY Zenon, <1>4 DEF PollBodyCopy, adapter
  <2>2. /\ Types /\ HistInv(H) /\ BufInv(H) /\ N \in Nat /\ x \in Nat /\ a \in Nat /\ a < x
        /\ x <= written /\ written \in Nat /\ Begun \in Nat /\ written <= Begun
        /\ got \in Seq(Payloads) /\ Len(got) \in Nat /\ PollInv(H, x, a)
    BY Zenon, <1>2 DEF Held
  <2>3. /\ loc.need \in 1 .. MaxFrame
        /\ Begun <= a + N => H[a].len - loc.need \in 0 .. 1
        /\ Begun <= a + N => Copies(H, a, got)
        /\ Len(got) = x - a - 1 /\ x - a - 1 < loc.need /\ loc.at = Slot(x - 1)
    BY Zenon, <1>1, <2>2 DEF PollInv
  <2>4. v \in Payloads
    BY Zenon, <2>2, LookTypes
  <2>5. Len(data) = Len(got) + 1
    BY SMTT(30), <2>2, <2>4
  <2>6. Len(data) = x - a
    BY <2>2, <2>3, <2>5
  <2>7. ASSUME Begun <= a + N PROVE Copies(H, a, data)
    <3>1. x - 1 \in 0 .. written /\ x - 1 < Begun /\ Begun <= (x - 1) + N /\ a \in Int
      BY <2>2, <2>7
    <3>2. v = PayOf(H, x - 1)
      BY ZenonT(30), <2>2, <2>3, <3>1, Payload
    <3>3. a + Len(got) = x - 1
      BY <2>2, <2>3
    <3>4. v = PayOf(H, a + Len(got)) /\ Copies(H, a, got)
      BY Zenon, <2>3, <2>7, <3>2, <3>3
    <3> QED BY Zenon, <2>2, <2>4, <3>1, <3>4, CopiesMore
  <2> HIDE DEF data
  <2>8. pc' = IF x - a >= loc.need THEN "validate" ELSE "body"
    BY ZenonT(30), <2>1, <2>6 DEF Copied
  <2>9. /\ loc.need \in Nat /\ (x - a >= loc.need => x - a = loc.need)
        /\ (~ (x - a >= loc.need) => x - a < loc.need)
    BY <2>2, <2>3, Sizes
  <2>10. /\ pc' \in Polling \ {"parse"} /\ pc' # "copy" /\ pc' # "bodycopy"
         /\ pc' = "body" => x - a < loc.need
         /\ pc' \in {"validate", "recheck"} => x - a = loc.need
    BY Zenon, <2>8, <2>9 DEF Polling
  <2>11. UNCHANGED <<loc.chunk, loc.gen>> /\ loc'.need = loc.need
    BY Zenon, <2>1
  <2>12. Len(got') = x - a /\ (Begun <= a + N => Copies(H, a, got'))
    BY Zenon, <2>1, <2>6, <2>7
  <2> QED BY Zenon, <1>2, <2>1, <2>3, <2>10, <2>11, <2>12, PollGoesOn
<1> QED BY Zenon, <1>3, <1>4

(* The checksum.                                                           *)
LEMMA PollValidateInv ==
  ASSUME NEW H \in Hists, NEW x, NEW s, NEW a, Standing(H, x, s, a), PollValidate
  PROVE  Reads(H)'
<1>1. pc = "validate" /\ pc \in Polling
  BY Zenon DEF PollValidate, Polling
<1>2. Held(H, x, s, a)
  BY Zenon, <1>1, Holds
<1>3. CASE Drop /\ UNCHANGED <<rx, stale>>
  BY Zenon, <1>2, <1>3, DropHere
<1>4. CASE ~ (Drop /\ UNCHANGED <<rx, stale>>)
  <2>1. /\ pc' = "recheck"
        /\ UNCHANGED <<written, half, api, rx, got, loc, cu, more, stale, told, out>>
    BY Zenon, <1>4 DEF PollValidate, adapter
  <2>2. PollInv(H, x, a)
    BY Zenon, <1>2 DEF Held
  <2>3. /\ loc.need \in 1 .. MaxFrame
        /\ Begun <= a + N => H[a].len - loc.need \in 0 .. 1
        /\ Begun <= a + N => Copies(H, a, got)
        /\ Len(got) = x - a /\ x - a = loc.need
    BY Zenon, <1>1, <2>2 DEF PollInv
  <2>4. pc' \in Polling \ {"parse"} /\ pc' # "copy" /\ pc' # "bodycopy" /\ pc' # "body"
    BY Zenon, <2>1 DEF Polling
  <2>5. UNCHANGED <<loc.chunk, loc.gen>> /\ loc'.need = loc.need /\ got' = got
    BY Zenon, <2>1
  <2> QED BY Zenon, <1>2, <2>1, <2>3, <2>4, <2>5, PollGoesOn
<1> QED BY Zenon, <1>3, <1>4

(* The second look at the header chunk, and the delivery of the packet.    *)
LEMMA PollRecheckInv ==
  ASSUME NEW H \in Hists, NEW x, NEW s, NEW a, Standing(H, x, s, a), PollRecheck
  PROVE  Reads(H)' /\ Delivered(H)'
<1>1. pc = "recheck" /\ pc \in Polling
  BY Zenon DEF PollRecheck, Polling
<1>2. Held(H, x, s, a)
  BY Zenon, <1>1, Holds
<1>3. /\ Types /\ HistInv(H) /\ BufInv(H) /\ Delivered(H) /\ N \in Nat
      /\ x \in Nat /\ a \in Nat /\ x <= written /\ a < x
      /\ x \in 0 .. written /\ s \in -1 .. written /\ a \in -1 .. written
      /\ a \in 0 .. written /\ a \in 0 .. written - 1 /\ x - 1 \in 0 .. written - 1
      /\ written \in Nat /\ Begun \in Nat /\ Len(got) \in Nat
      /\ cu.blind \in BOOLEAN /\ more \in BOOLEAN
      /\ At(rx.next, rx.gen, x) /\ At(rx.sentinel, rx.sgen, s)
      /\ PollInv(H, x, a)
  BY Zenon, <1>2 DEF Held
<1>4. /\ api = "poll" /\ At(loc.chunk, loc.gen, a) /\ Ahead(a)
      /\ (more <=> ~ Ends(H, x - 1))
      /\ (cu.blind \/ Ends(H, a - 1))
      /\ (Begun <= a + N /\ ~ cu.blind => H[x - 1].idx = x - a /\ H[x - 1].len = H[a].len)
      /\ H[a].len \in Nat /\ H[a].idx \in Nat /\ H[x - 1].len \in Nat /\ H[x - 1].idx \in Nat
  BY Zenon, <1>2 DEF Held
<1>5. /\ loc.need \in 1 .. MaxFrame
      /\ Begun <= a + N => H[a].len - loc.need \in 0 .. 1
      /\ Begun <= a + N => Copies(H, a, got)
      /\ Len(got) = x - a /\ x - a = loc.need
  BY Zenon, <1>1, <1>3 DEF PollInv
<1>6. UNCHANGED <<adapter, api>>
  BY Zenon, ReaderSteps DEF Continue
<1>7. UNCHANGED <<written, half, api>> /\ Begun' = Begun
  BY Zenon, <1>6 DEF adapter, Begun
<1>8. CASE Drop /\ UNCHANGED <<rx, stale>>
  <2>1. UNCHANGED out
    BY Zenon, <1>8 DEF Drop
  <2>2. Delivered(H)'
    BY Zenon, <1>3, <1>7, <2>1 DEF Delivered
  <2> QED BY Zenon, <1>2, <1>8, <2>2, DropHere
<1>9. CASE ~ (Drop /\ UNCHANGED <<rx, stale>>)
  <2>1. PICK excused \in BOOLEAN : excused = (cu.blind \/ (half /\ written % N = loc.chunk))
    BY Zenon
  <2>2. /\ Recheck /\ Deliver(got, excused) /\ pc' = Leave(more)
        /\ UNCHANGED <<rx, more, stale>>
    BY Zenon, <1>9, <2>1 DEF PollRecheck
  <2>3. a < written /\ written <= a + N
    <3>1. buffer[Slot(a)].info.gen = Gen(a)
      BY Zenon, <1>4, <2>2 DEF Recheck, At
    <3> QED BY Zenon, <1>3, <3>1, InRing
  <2>4. ~ excused => ~ cu.blind /\ Begun <= a + N
    <3>1. ~ excused => ~ cu.blind /\ ~ (half /\ written % N = Slot(a))
      BY Zenon, <1>4, <2>1 DEF At
    <3> QED BY Zenon, <1>3, <2>3, <3>1, Untouched
  <2>5. ~ excused =>
          /\ Len(got) > 0 /\ Copies(H, a, got) /\ H[a].idx = 1 /\ Ahead(a)
          /\ H[a].len - Len(got) \in 0 .. IF api = "poll" THEN 1 ELSE 0
    <3>1. Len(got) > 0
      <4>1. x \in Nat /\ a \in Nat /\ a < x /\ Len(got) = x - a
        BY Zenon, <1>3, <1>5
      <4> QED BY Zenon, <4>1, Behind
    <3>2. ~ excused => H[a].idx = 1
      <4>1. Ends(H, a - 1) => H[a].idx = 1
        BY ZenonT(30), <1>3, Place
      <4> QED BY Zenon, <1>4, <2>4, <4>1
    <3>3. ~ excused => H[a].len - Len(got) \in 0 .. IF api = "poll" THEN 1 ELSE 0
      BY Zenon, <1>4, <1>5, <2>4
    <3> QED BY Zenon, <1>4, <1>5, <2>4, <3>1, <3>2, <3>3
  <2>6. /\ Delivered(H)' /\ got' = <<>> /\ loc' = NoLoc /\ cu' = NoCatchup
        /\ excused => out'.end = -1 /\ told' = TRUE
        /\ ~ excused => out'.end = EndOf(H, a) /\ told' = FALSE
    BY Zenon, <1>3, <1>7, <2>2, <2>5, DeliverInv
  <2>7. ~ excused => EndOf(H, a) = EndOf(H, x - 1)
    <3>1. ASSUME ~ excused PROVE EndOf(H, a) = EndOf(H, x - 1)
      <4>1. H[x - 1].idx = x - a /\ H[x - 1].len = H[a].len /\ H[a].idx = 1
        BY Zenon, <1>4, <2>4, <2>5, <3>1
      <4>2. H[a].len \in Nat
        BY Zenon, <1>4
      <4>3. a + H[a].len - 1 = (x - 1) + H[a].len - (x - a)
        <5>1. x \in Nat /\ a \in Nat
          BY Zenon, <1>3
        <5> QED BY <4>2, <5>1
      <4> QED BY Zenon, <4>1, <4>3 DEF EndOf
    <3> QED BY Zenon, <3>1
  <2>8. EndOf(H, x - 1) \in Nat /\ (Ends(H, x - 1) => EndOf(H, x - 1) = x - 1)
    BY Zenon, <1>3, Place
  <2>9. At(rx.next, rx.gen, x)' /\ At(rx.sentinel, rx.sgen, s)'
    BY Zenon, <1>3, <2>2
  <2>10. \/ out'.end = -1 /\ told' = TRUE
         \/ out'.end = EndOf(H, x - 1) /\ told' = FALSE
    BY Zenon, <2>6, <2>7
  <2>11. CASE more
    <3>1. pc' = "abort" /\ api' = "poll" /\ api' # "frame" /\ api' # "chunk" /\ ~ Ends(H, x - 1)
      BY ZenonT(30), <1>4, <1>7, <2>2, <2>11 DEF Leave
    <3>2. out'.end < x \/ out'.end <= EndOf(H, x - 1)
      <4>1. x \in Nat /\ EndOf(H, x - 1) \in Nat
        BY Zenon, <1>3, <2>8
      <4>2. -1 < x /\ EndOf(H, x - 1) <= EndOf(H, x - 1)
        BY <4>1
      <4> QED BY Zenon, <2>10, <4>2
    <3>3. ~ told' => out'.end = EndOf(H, x - 1)
      BY Zenon, <2>10
    <3>4. AbortInv(H, x, s)'
      BY Zenon, <2>6, <3>1, <3>2, <3>3 DEF AbortInv
    <3>5. Reader(H, x, s, a)'
      BY Zenon, <2>9, <3>1, <3>4 DEF Reader, Polling
    <3> QED BY Zenon, <1>3, <1>7, <2>6, <3>5 DEF Reads
  <2>12. CASE ~ more
    <3>1. pc' = "idle" /\ ~ (api' # "poll") /\ Ends(H, x - 1)
      BY Zenon, <1>4, <1>7, <2>2, <2>12 DEF Leave
    <3>2. Ahead(x)'
      <4>1. x \in Nat /\ EndOf(H, x - 1) = x - 1
        BY Zenon, <1>3, <2>8, <3>1
      <4>2. -1 < x /\ x - 1 < x
        BY <4>1
      <4> QED BY Zenon, <2>10, <4>1, <4>2 DEF Ahead
    <3> QED BY Zenon, <1>3, <1>7, <2>6, <2>9, <3>1, <3>2, ToIdle
  <2> QED BY Zenon, <1>3, <2>11, <2>12
<1> QED BY Zenon, <1>8, <1>9

-----------------------------------------------------------------------------
(* The invariant.                                                          *)

(* It holds when the adapter has written nothing.                          *)
LEMMA InitInv ==
  ASSUME Init
  PROVE  IInv
<1>1. /\ buffer = [c \in 0 .. N - 1 |->
            [payload |-> NoPayload, info |-> [gen |-> G - 1, last |-> TRUE, bad |-> FALSE]]]
      /\ written = 0 /\ half = FALSE /\ frame = [idx |-> 1, len |-> 1, bad |-> FALSE]
      /\ api \in Readers
      /\ rx = [next |-> 0, gen |-> 0, sentinel |-> 0, sgen |-> 0]
      /\ pc = "closed" /\ got = <<>> /\ loc = NoLoc /\ cu = NoCatchup
      /\ more = FALSE /\ stale = FALSE /\ told = TRUE
      /\ out = [end |-> -1, whole |-> TRUE, ordered |-> TRUE]
  BY Zenon DEF Init
<1>2. Begun = 0
  BY Zenon, <1>1 DEF Begun
<1>3. Types
  <2>1. [payload |-> NoPayload, info |-> [gen |-> G - 1, last |-> TRUE, bad |-> FALSE]]
          \in [payload : Payloads, info : Infos]
    <3>1. [gen |-> G - 1, last |-> TRUE, bad |-> FALSE] \in Infos
      BY Sizes DEF Infos
    <3> QED BY Zenon, <3>1, Defaults
  <2>2. buffer \in [Chunks -> [payload : Payloads, info : Infos]]
    BY ZenonT(30), <1>1, <2>1 DEF Chunks
  <2>3. rx \in Handles
    BY SMTT(30), <1>1, Sizes DEF Handles, Chunks, Gens
  <2>4. frame \in [idx : Nat, len : 1 .. MaxFrame, bad : BOOLEAN] /\ written \in 0 .. MaxChunks
    BY SMTT(30), <1>1, Sizes
  <2>5. pc \in Phases /\ got \in Seq(Payloads)
    BY SMTT(30), <1>1 DEF Phases
  <2>6. out \in [end : Int, whole : BOOLEAN, ordered : BOOLEAN]
    BY SMTT(30), <1>1
  <2> QED BY Zenon, <1>1, <2>2, <2>3, <2>4, <2>5, <2>6, Defaults DEF Types
<1>4. PICK H \in Hists : TRUE
  <2>1. [n \in Nat |-> [idx |-> 0, len |-> 0]] \in Hists
    BY Zenon DEF Hists
  <2> QED BY Zenon, <2>1
<1>5. HistInv(H)
  <2>1. frame.idx = 1 /\ frame.len = 1
    BY <1>1
  <2>2. \A p \in 0 .. Begun - 1 : FALSE
    BY <1>2
  <2>3. /\ ~ (Begun > 0) /\ Begun + frame.len - frame.idx <= MaxChunks
        /\ frame.idx <= frame.len
    BY <1>2, <2>1, Sizes
  <2> QED BY ZenonT(30), <2>1, <2>2, <2>3 DEF HistInv
<1>6. BufInv(H)
  <2>1. ASSUME NEW p \in written - N .. written - 1
        PROVE  /\ buffer[Slot(p)].info.gen = Gen(p)
               /\ buffer[Slot(p)].info.last /\ ~ buffer[Slot(p)].info.bad
               /\ Ends(H, p)
    <3>1. p \in -N .. 0 /\ p < 0 /\ 0 \in 0 .. MaxChunks /\ p \in Int
      BY SMTT(30), <1>1, <2>1, Sizes
    <3>2. p \in Positions
      BY Zenon, <3>1, Past
    <3>3. /\ Slot(p) \in 0 .. N - 1 /\ p = Base(p) + Slot(p) /\ Base(p) = N * (p \div N)
          /\ -1 <= p \div N /\ p \div N \in Int /\ Base(p) \in Int
      BY Zenon, <3>2, Laps
    <3>4. p \div N = -1
      <4>1. Base(p) < 0
        BY <3>1, <3>3, Sizes
      <4>2. p \div N = -1 \/ p \div N >= 0
        BY <3>3
      <4>3. p \div N >= 0 => N * (p \div N) >= 0
        <5> DEFINE q == p \div N
        <5>1. q \in Int
          BY Zenon, <3>3
        <5> HIDE DEF q
        <5>2. q >= 0 => N * q >= 0
          BY <5>1, Sizes
        <5> QED BY Zenon, <5>2 DEF q
      <4>4. ~ (N * (p \div N) >= 0)
        <5>1. Base(p) \in Int /\ Base(p) = N * (p \div N)
          BY Zenon, <3>3
        <5>2. ~ (Base(p) >= 0)
          BY <4>1, <5>1
        <5> QED BY Zenon, <5>1, <5>2
      <4> QED BY Zenon, <4>2, <4>3, <4>4
    <3>5. Gen(p) = G - 1
      BY Zenon, <3>2, <3>4, GenOfLap
    <3>6. buffer[Slot(p)].info = [gen |-> G - 1, last |-> TRUE, bad |-> FALSE]
      BY Zenon, <1>1, <3>3
    <3>7. Ends(H, p)
      BY Zenon, <3>1 DEF Ends
    <3> QED BY SMTT(30), <3>5, <3>6, <3>7
  <2>2. ASSUME NEW p \in Begun - N .. Begun - 1 PROVE ~ (p >= 0)
    BY <1>2, <2>2, Sizes
  <2> QED BY Zenon, <2>1, <2>2 DEF BufInv
<1>7. Delivered(H)
  <2>1. Ends(H, -1) /\ ~ (-1 >= 0)
    BY DEF Ends
  <2>2. out.end = -1 /\ out.whole /\ out.ordered
    BY Zenon, <1>1
  <2> QED BY <1>2, <2>1, <2>2 DEF Delivered
<1>8. Reads(H)
  <2>1. At(0, 0, 0)
    BY Sizes DEF At, Slot, Gen
  <2>2. At(rx.next, rx.gen, 0) /\ At(rx.sentinel, rx.sgen, 0)
    BY ZenonT(30), <1>1, <2>1
  <2>3. ClosedInv
    BY <1>1 DEF ClosedInv
  <2>4. Reader(H, 0, 0, 0)
    BY ZenonT(30), <1>1, <2>2, <2>3 DEF Reader, Polling
  <2>5. 0 \in 0 .. written /\ 0 \in -1 .. written
    BY <1>1
  <2> QED BY Zenon, <2>4, <2>5 DEF Reads
<1> QED BY Zenon, <1>3, <1>5, <1>6, <1>7, <1>8 DEF IInv, Ring

(* The ring does not change where the adapter does nothing.                *)
LEMMA RingStays ==
  ASSUME NEW H \in Hists, UNCHANGED adapter, HistInv(H), BufInv(H)
  PROVE  HistInv(H)' /\ BufInv(H)' /\ Begun' = Begun /\ written' = written
<1>1. UNCHANGED <<buffer, written, half, frame>>
  BY Zenon DEF adapter
<1>2. Begun' = Begun
  BY Zenon, <1>1 DEF Begun
<1>3. HistInv(H)'
  BY Zenon, <1>1, <1>2 DEF HistInv
<1>4. BufInv(H)'
  BY Zenon, <1>1, <1>2 DEF BufInv
<1> QED BY Zenon, <1>1, <1>2, <1>3, <1>4

(* Only the calls that deliver change what was delivered.                  *)
LEMMA OutStays ==
  ASSUME Continue \/ Call, ~ CheckSentinel, ~ PollRecheck
  PROVE  UNCHANGED out
<1>1. Fails => UNCHANGED out
  BY Zenon DEF Fails
<1>2. \A r : Overflow(r) => UNCHANGED out
  BY Zenon DEF Overflow
<1>3. Drop => UNCHANGED out
  BY Zenon DEF Drop
<1>4. Call => UNCHANGED out
  BY ZenonT(30), <1>2 DEF Call, Acquire, Release, ReceiveFrame, ReceiveChunk, GiveUp, PollHeader
<1>5. CASE Continue
  BY ZenonT(30), <1>1, <1>2, <1>3, <1>5
  DEF Continue, CatchupChunk, CatchupEnds, ReceiveFrame, ProcessChunk,
     CopyChunk, ReceiveAbort, PollParse, PollCopy, PollBody, PollBodyCopy, PollValidate
<1> QED BY Zenon, <1>4, <1>5

(* The invariant is kept by every step of a reader.                        *)
LEMMA ReaderInv ==
  ASSUME IInv, Continue \/ Call
  PROVE  IInv'
<1>1. PICK H \in Hists : Ring(H) /\ Reads(H)
  BY Zenon DEF IInv
<1>2. PICK x \in 0 .. written : \E s \in -1 .. written, a \in -1 .. written : Reader(H, x, s, a)
  BY Zenon, <1>1 DEF Reads
<1>3. PICK s \in -1 .. written : \E a \in -1 .. written : Reader(H, x, s, a)
  BY Zenon, <1>2
<1>4. PICK a \in -1 .. written : Reader(H, x, s, a)
  BY Zenon, <1>3
<1>5. Types /\ HistInv(H) /\ BufInv(H) /\ Delivered(H) /\ Standing(H, x, s, a)
  BY Zenon, <1>1, <1>4 DEF IInv, Ring, Standing
<1>6. UNCHANGED <<adapter, api>>
  BY Zenon, ReaderSteps
<1>7. HistInv(H)' /\ BufInv(H)' /\ Begun' = Begun /\ written' = written
  BY Zenon, <1>5, <1>6, RingStays
<1>8. Types'
  <2>1. pc = "check" => Len(got) > 0
    BY Zenon, <1>4 DEF Reader, CheckInv
  <2>2. pc = "recheck" => Len(got) > 0
    <3>1. ASSUME pc = "recheck" PROVE Len(got) > 0
      <4>1. pc \in Polling
        BY Zenon, <3>1 DEF Polling
      <4>2. Held(H, x, s, a)
        BY Zenon, <1>5, <4>1, Holds
      <4>3. x \in Nat /\ a \in Nat /\ a < x /\ PollInv(H, x, a)
        BY Zenon, <4>2 DEF Held
      <4> QED BY <3>1, <4>3 DEF PollInv
    <3> QED BY Zenon, <3>1
  <2> QED BY Zenon, <1>5, <2>1, <2>2, ReaderTyped
<1>9. Reads(H)'
  <2>1. CASE Call
    BY Zenon, <1>5, <2>1, AcquireInv, ReleaseInv, ReceiveFrameInv, ReceiveChunkInv, GiveUpInv,
       PollHeaderInv DEF Call
  <2>2. CASE CatchupChunk \/ CatchupEnds \/ ReceiveFrame \/ ProcessChunk \/ CheckSentinel
             \/ CopyChunk \/ ReceiveAbort
    BY Zenon, <1>5, <2>2, CatchupChunkInv, CatchupEndsInv, ReceiveFrameInv, ProcessChunkInv,
       CheckSentinelInv, CopyChunkInv, ReceiveAbortInv
  <2>3. CASE PollParse \/ PollCopy \/ PollBody \/ PollBodyCopy \/ PollValidate \/ PollRecheck
    BY Zenon, <1>5, <2>3, PollParseInv, PollCopyInv, PollBodyInv, PollBodyCopyInv,
       PollValidateInv, PollRecheckInv
  <2> QED BY Zenon, <2>1, <2>2, <2>3 DEF Continue
<1>10. Delivered(H)'
  <2>1. CASE CheckSentinel
    BY Zenon, <1>5, <2>1, CheckSentinelInv
  <2>2. CASE PollRecheck
    BY Zenon, <1>5, <2>2, PollRecheckInv
  <2>3. CASE ~ CheckSentinel /\ ~ PollRecheck
    <3>1. UNCHANGED out
      BY Zenon, <2>3, OutStays
    <3> QED BY Zenon, <1>5, <1>7, <3>1 DEF Delivered
  <2> QED BY Zenon, <2>1, <2>2, <2>3
<1> QED BY Zenon, <1>7, <1>8, <1>9, <1>10 DEF IInv, Ring

(* It is a statement about the variables of the module only.               *)
LEMMA StutterInv ==
  ASSUME IInv, UNCHANGED vars
  PROVE  IInv'
<1>1. PICK H \in Hists : Ring(H) /\ Reads(H)
  BY Zenon DEF IInv
<1>2. /\ UNCHANGED <<buffer, written, half, frame>>
      /\ UNCHANGED <<api, rx, pc, got, loc, cu, more, stale, told, out>>
  BY Zenon DEF vars
<1>3. Types /\ HistInv(H) /\ BufInv(H) /\ Delivered(H)
  BY Zenon, <1>1 DEF IInv, Ring
<1>4. Types'
  BY Zenon, <1>2, <1>3 DEF Types
<1>5. HistInv(H)' /\ BufInv(H)' /\ Begun' = Begun /\ written' = written
  BY Zenon, <1>2, <1>3, RingStays DEF adapter
<1>6. Delivered(H)'
  BY Zenon, <1>2, <1>3, <1>5 DEF Delivered
<1>7. written' \in Nat /\ written <= written' /\ Begun' \in Nat /\ Begun <= Begun'
  BY <1>3, <1>5, Progress
<1>8. Agree(H, H, Begun)
  BY Zenon DEF Agree
<1>9. Reads(H)'
  BY Zenon, <1>1, <1>2, <1>3, <1>7, <1>8, ReaderWaits
<1> QED BY Zenon, <1>4, <1>5, <1>6, <1>9 DEF IInv, Ring

(* What was copied is never longer than a frame.                           *)
LEMMA Fits ==
  ASSUME NEW H \in Hists, NEW x, NEW s, NEW a, Standing(H, x, s, a)
  PROVE  Len(got) <= MaxFrame
<1>0. /\ Types /\ HistInv(H) /\ x \in Nat /\ x <= written /\ written \in Nat
      /\ Len(got) \in Nat /\ cu.blind \in BOOLEAN
  BY Zenon, Stands
<1>1. MaxFrame \in Nat
  BY Zenon, Sizes
<1>2. ASSUME NEW y \in Int, y <= written, Leads(H, y, Len(got), cu.blind)
      PROVE  Len(got) <= MaxFrame
  <2>1. CASE Len(got) > 0
    <3>1. y - 1 \in 0 .. written - 1
      <4>1. 0 <= y - Len(got)
        BY Zenon, <1>2 DEF Leads
      <4>2. Len(got) \in Nat /\ written \in Nat
        BY Zenon, <1>0
      <4> QED BY <1>2, <2>1, <4>1, <4>2
    <3>2. H[y - 1].idx \in Nat /\ H[y - 1].len \in Nat
          /\ H[y - 1].idx <= H[y - 1].len /\ H[y - 1].len <= MaxFrame
      BY Zenon, <1>0, <3>1, Place
    <3>3. Len(got) <= H[y - 1].idx
      BY Zenon, <1>2, <2>1 DEF Leads
    <3> QED BY <1>0, <1>1, <3>2, <3>3
  <2> QED BY SMTT(30), <2>1, <1>0, <1>1
<1>3. CASE got = <<>>
  BY <1>1, <1>3
<1>4. CASE pc \in {"idle", "spin", "chunk", "check"}
  <2>1. Leads(H, x, Len(got), cu.blind)
    BY Zenon, <1>4 DEF Standing, Reader, IdleInv, SpinInv, ChunkInv, CheckInv
  <2> QED BY <1>0, <1>2, <2>1
<1>5. CASE pc = "memcpy"
  <2>1. Leads(H, x - 1, Len(got), cu.blind)
    BY Zenon, <1>5 DEF Standing, Reader, MemcpyInv
  <2>2. x - 1 \in Int /\ x - 1 <= written
    BY <1>0
  <2> QED BY Zenon, <1>2, <2>1, <2>2
<1>6. CASE pc \in {"closed", "catchup", "abort"}
  <2>1. got = <<>>
    BY Zenon, <1>6 DEF Standing, Reader, ClosedInv, CatchupInv, AbortInv
  <2> QED BY Zenon, <1>3, <2>1
<1>7. CASE pc \in Polling
  <2>1. PollInv(H, x, a) /\ x \in Nat /\ a \in Nat
    BY Zenon, <1>7, Holds DEF Held
  <2>2. CASE pc \in {"parse", "copy"}
    <3>1. got = <<>>
      BY Zenon, <2>1, <2>2 DEF PollInv
    <3> QED BY Zenon, <1>3, <3>1
  <2>3. CASE pc \in {"body", "bodycopy", "validate", "recheck"}
    <3>1. loc.need \in 1 .. MaxFrame /\ Len(got) <= loc.need
      <4>1. loc.need \in 1 .. MaxFrame
        BY Zenon, <2>1, <2>3 DEF PollInv
      <4>2. \/ Len(got) = x - a /\ x - a < loc.need
            \/ Len(got) = x - a - 1 /\ x - a - 1 < loc.need
            \/ Len(got) = x - a /\ x - a = loc.need
        BY Zenon, <2>1, <2>3 DEF PollInv
      <4>3. x \in Nat /\ a \in Nat
        BY Zenon, <2>1
      <4> QED BY <1>1, <4>1, <4>2, <4>3
    <3>2. Len(got) \in Nat
      BY Zenon, <1>0
    <3> QED BY <1>1, <3>1, <3>2
  <2> QED BY Zenon, <1>7, <2>2, <2>3 DEF Polling
<1>8. pc \in Phases
  BY Zenon, <1>0 DEF Types
<1> QED BY Zenon, <1>4, <1>5, <1>6, <1>7, <1>8 DEF Phases, Polling

(* The invariant implies the properties.                                   *)
LEMMA Consequences ==
  ASSUME IInv
  PROVE  FramesIntact /\ LossReported
<1>1. PICK H \in Hists : Ring(H) /\ Reads(H)
  BY Zenon DEF IInv
<1>2. PICK x \in 0 .. written : \E s \in -1 .. written, a \in -1 .. written : Reader(H, x, s, a)
  BY Zenon, <1>1 DEF Reads
<1>3. PICK s \in -1 .. written : \E a \in -1 .. written : Reader(H, x, s, a)
  BY Zenon, <1>2
<1>4. PICK a \in -1 .. written : Reader(H, x, s, a)
  BY Zenon, <1>3
<1>5. Types /\ Standing(H, x, s, a)
  BY Zenon, <1>1, <1>4 DEF IInv, Standing
<1>6. Len(got) <= MaxFrame
  BY Zenon, <1>5, Fits
<1>7. out.whole /\ out.ordered
  BY Zenon, <1>1 DEF Ring, Delivered
<1>8. /\ rx \in [next : 0 .. N - 1, gen : 0 .. G - 1, sentinel : 0 .. N - 1, sgen : 0 .. G - 1]
      /\ \A c \in 0 .. N - 1 : buffer[c].info \in Infos
  <2>1. rx \in Handles
    BY Zenon, <1>5 DEF Types
  <2> QED BY Zenon, <2>1, <1>5, LookTypes DEF Handles, Chunks, Gens
<1>9. TypeOK
  BY Zenon, <1>5, <1>6, <1>8 DEF TypeOK, Types, Phases
<1> QED BY Zenon, <1>7, <1>9 DEF FramesIntact, LossReported

(* exanic_receive_abort does not reach into the next frame.                *)
LEMMA AbortStops ==
  ASSUME IInv, Next, SkipsFirst
  PROVE  stale
<1>1. PICK H \in Hists : Ring(H) /\ Reads(H)
  BY Zenon DEF IInv
<1>2. PICK x \in 0 .. written : \E s \in -1 .. written, a \in -1 .. written : Reader(H, x, s, a)
  BY Zenon, <1>1 DEF Reads
<1>3. PICK s \in -1 .. written : \E a \in -1 .. written : Reader(H, x, s, a)
  BY Zenon, <1>2
<1>4. PICK a \in -1 .. written : Reader(H, x, s, a)
  BY Zenon, <1>3
<1>5. Standing(H, x, s, a)
  BY Zenon, <1>1, <1>4 DEF IInv, Standing
<1>6. /\ Types /\ HistInv(H) /\ BufInv(H) /\ x \in Nat /\ x \in 0 .. written
      /\ written \in Nat /\ Begun \in Nat /\ written <= Begun /\ At(rx.next, rx.gen, x)
  BY Zenon, <1>5, Stands
<1>7. /\ pc = "abort" /\ rx'.next # rx.next /\ buffer[rx.next].payload.idx = 1
      /\ ~ (half /\ written % N = rx.next)
  BY Zenon DEF SkipsFirst
<1>8. rx' # rx
  BY Zenon, <1>7
<1>9. ReceiveAbort
  <2>1. ~ Adapter
    BY Zenon, <1>8 DEF Adapter, StartFrame, NextChunk, WriteInfo, WritePayload
  <2>2. ~ Call
    BY Zenon, <1>7 DEF Call, Acquire, Release, ReceiveFrame, ReceiveChunk, GiveUp, PollHeader
  <2>3. Continue
    BY Zenon, <2>1, <2>2 DEF Next
  <2> QED BY Zenon, <1>7, <2>3 DEF Continue, CatchupChunk, CatchupEnds, ProcessChunk, CheckSentinel,
         CopyChunk, PollParse, PollCopy, PollBody, PollBodyCopy, PollValidate, PollRecheck
<1>10. New
  BY Zenon, <1>8, <1>9 DEF ReceiveAbort, Overflow
<1>11. x < written /\ written <= x + N
  BY Zenon, <1>6, <1>10, Look
<1>12. Begun <= x + N
  BY Zenon, <1>6, <1>7, <1>11, Untouched DEF At
<1>13. x < Begun /\ x \in 0 .. written - 1
  BY SMTT(30), <1>6, <1>11
<1>14. H[x].idx = 1
  <2>1. buffer[rx.next].payload = PayOf(H, x)
    BY Zenon, <1>6, <1>12, <1>13, Payload DEF At
  <2> QED BY <1>7, <2>1 DEF PayOf
<1>15. Ends(H, x - 1)
  <2>1. ASSUME ~ Ends(H, x - 1) PROVE FALSE
    <3>1. 1 <= x /\ H[x].idx = H[x - 1].idx + 1
      <4>1. x \in 0 .. written - 1 /\ Types /\ HistInv(H)
        BY Zenon, <1>6, <1>13
      <4> QED BY Zenon, <2>1, <4>1, PlaceMore
    <3>2. x - 1 \in 0 .. written - 1
      BY <1>6, <1>13, <3>1
    <3>3. H[x - 1].idx \in Nat /\ 1 <= H[x - 1].idx
      BY Zenon, <1>6, <3>2, Place
    <3> QED BY <1>14, <3>1, <3>3
  <2> QED BY Zenon, <2>1
<1>16. AbortInv(H, x, s)
  BY Zenon, <1>4, <1>7 DEF Reader
<1> QED BY Zenon, <1>15, <1>16 DEF AbortInv

(* The inductive invariant holds.                                          *)
THEOREM InvariantHolds == Spec => []IInv
<1>1. Init => IInv
  BY Zenon, InitInv
<1>2. IInv /\ [Next]_vars => IInv'
  <2> SUFFICES ASSUME IInv, [Next]_vars PROVE IInv'
    BY Zenon
  <2>1. CASE Adapter
    BY Zenon, <2>1, AdapterInv
  <2>2. CASE Continue \/ Call
    BY Zenon, <2>2, ReaderInv
  <2>3. CASE UNCHANGED vars
    BY Zenon, <2>3, StutterInv
  <2> QED BY Zenon, <2>1, <2>2, <2>3 DEF Next
<1> QED BY <1>1, <1>2, PTL DEF Spec

(* What a call returns as a frame is one frame that the adapter wrote, whole *)
(* and in order, and the handle of the reader points into the ring: for every *)
(* size of ring, every kind of reader and every number of laps below G - 1. *)
(* Excused, as FramesIntact says, are a scan of __exanic_rx_catchup that met *)
(* no end of a frame, and a packet in place whose second look was taken    *)
(* while its first chunk was being rewritten.                              *)
THEOREM FramesStayIntact == Spec => []FramesIntact
<1>1. IInv => FramesIntact
  BY Zenon, Consequences
<1> QED BY <1>1, InvariantHolds, PTL

(* Frames are delivered in the order they arrived, none twice, and none is *)
(* left out unless the reader was told or dropped one itself.              *)
THEOREM LossIsReported == Spec => []LossReported
<1>1. IInv => LossReported
  BY Zenon, Consequences
<1> QED BY <1>1, InvariantHolds, PTL

(* exanic_receive_abort skips nothing of the frame after the one that was  *)
(* being read, unless exanic_receive_chunk_inplace left more_chunks set.   *)
THEOREM AbortStaysWithinFrame == Spec => AbortWithinFrame
<1>1. IInv /\ [Next]_vars => [SkipsFirst => stale]_vars
  BY Zenon, AbortStops
<1> QED BY <1>1, InvariantHolds, PTL DEF Spec, AbortWithinFrame
=============================================================================
