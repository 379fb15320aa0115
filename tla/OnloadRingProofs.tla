-------------------------- MODULE OnloadRingProofs --------------------------
(***************************************************************************)
(* The ownership of packet buffers in onload/cgo_onload_linux.go, for any  *)
(* number of buffers and any refill batch size.                            *)
(***************************************************************************)
EXTENDS OnloadRing, FreeList, FiniteSetTheorems, TLAPS

(* The strengthening: the application holds nothing before CreateHandler   *)
(* returns, so that every buffer missing from the ring is in the pool.     *)
Inv ==
  /\ TypeOK
  /\ Conserved
  /\ ~ ready => app = {}

(* The subsets of the buffers are finite, and their sizes add up.          *)
LEMMA Sizes ==
  ASSUME NEW A \in SUBSET Buf, NEW B \in SUBSET Buf, A \cap B = {}
  PROVE  /\ IsFiniteSet(A) /\ Cardinality(A) \in Nat
         /\ Cardinality(A \cup B) = Cardinality(A) + Cardinality(B)
         /\ NBufs \in Nat /\ Batch \in Nat \ {0} /\ Batch <= NBufs
<1>1. IsFiniteSet(Buf)
  BY Zenon, RingAssumption
<1>2. IsFiniteSet(A) /\ IsFiniteSet(B)
  BY Zenon, <1>1, FS_Subset
<1>3. /\ Cardinality(A) \in Nat /\ Cardinality(B) \in Nat
      /\ Cardinality(Buf) \in Nat
  BY Zenon, <1>1, <1>2, FS_CardinalityType
<1>4. Cardinality(A \cup B)
        = Cardinality(A) + Cardinality(B) - Cardinality(A \cap B)
  BY Zenon, <1>2, FS_Union
<1>5. Cardinality(A \cap B) = 0
  BY Zenon, FS_EmptySet
<1> QED
  BY <1>2, <1>3, <1>4, <1>5, RingAssumption DEF NBufs

(* Three disjoint sets that make up the buffers have NBufs elements.       *)
LEMMA ThreeParts ==
  ASSUME Conserved, TypeOK
  PROVE  /\ Cardinality(free) + Cardinality(ring) + Cardinality(app) = NBufs
         /\ Cardinality(free) \in Nat
         /\ Cardinality(ring) \in Nat
         /\ Cardinality(app) \in Nat
<1>1. /\ free \cap ring = {} /\ (free \cup ring) \cap app = {}
      /\ (free \cup ring) \cup app = Buf
  BY Zenon DEF Conserved
<1>2. /\ free \in SUBSET Buf /\ ring \in SUBSET Buf /\ app \in SUBSET Buf
      /\ free \cup ring \in SUBSET Buf
  BY Zenon DEF TypeOK
<1>3. /\ Cardinality(free \cup ring) = Cardinality(free) + Cardinality(ring)
      /\ Cardinality(free) \in Nat
  BY Zenon, <1>1, <1>2, Sizes
<1>4. Cardinality((free \cup ring) \cup app)
        = Cardinality(free \cup ring) + Cardinality(app)
  BY Zenon, <1>1, <1>2, Sizes
<1>5. Cardinality(ring) \in Nat /\ Cardinality(app) \in Nat
  BY Zenon, <1>2, FS_Subset, FS_CardinalityType, RingAssumption
<1> QED
  BY Zenon, <1>1, <1>3, <1>4, <1>5 DEF NBufs

(* refillRxRing moves buffers from the pool to the ring, keeps the count   *)
(* of the pool, and stops where it should.                                 *)
LEMMA RefillMoves ==
  ASSUME TypeOK, Conserved, Refill
  PROVE  /\ ring' \subseteq Buf /\ free' \subseteq Buf /\ app' = app
         /\ free' \cup ring' \cup app' = Buf
         /\ free' \cap ring' = {} /\ free' \cap app' = {} /\ ring' \cap app' = {}
         /\ nFree' = Cardinality(free') /\ nFree' \in Nat
         /\ Cardinality(ring') >= RefillMin \/ nFree' < Batch
<1>1. PICK m \in 1 .. NBufs :
        /\ StopsAfter(m)
        /\ \E moved \in SUBSET free :
             Cardinality(moved) = m * Batch /\ Post(moved, m)
  BY Zenon DEF Refill
<1>2. PICK moved \in SUBSET free :
        Cardinality(moved) = m * Batch /\ Post(moved, m)
  BY Zenon, <1>1
<1> DEFINE n == m * Batch
<1>3. /\ Cardinality(moved) = n
      /\ ring' = ring \cup moved /\ free' = free \ moved
      /\ nFree' = nFree - n
  BY Zenon, <1>2 DEF Post
<1>4. FillLevel + n >= RefillMin \/ nFree - n < Batch
  BY Zenon, <1>1 DEF StopsAfter
<1> HIDE DEF n
<1>5. /\ ring' \subseteq Buf /\ free' \subseteq Buf
      /\ free' \cup ring' \cup app = Buf
      /\ free' \cap ring' = {} /\ free' \cap app = {} /\ ring' \cap app = {}
  BY Zenon, <1>2, <1>3 DEF TypeOK, Conserved
<1>6. /\ free' \in SUBSET Buf /\ moved \in SUBSET Buf /\ ring \in SUBSET Buf
      /\ free' \cap moved = {} /\ free' \cup moved = free
      /\ ring \cap moved = {}
  BY Zenon, <1>2, <1>3 DEF TypeOK, Conserved
<1>7. /\ Cardinality(free' \cup moved)
           = Cardinality(free') + Cardinality(moved)
      /\ Cardinality(free') \in Nat
  <2> DEFINE f == free'
  <2>1. f \in SUBSET Buf /\ moved \in SUBSET Buf /\ f \cap moved = {}
    BY Zenon, <1>6
  <2> HIDE DEF f
  <2>2. /\ Cardinality(f \cup moved) = Cardinality(f) + Cardinality(moved)
        /\ Cardinality(f) \in Nat
    BY Zenon, <2>1, Sizes
  <2> QED
    BY Zenon, <2>2 DEF f
<1>8. /\ Cardinality(ring \cup moved)
           = Cardinality(ring) + Cardinality(moved)
      /\ Cardinality(ring) \in Nat
  BY Zenon, <1>6, Sizes
<1>9. Cardinality(moved) \in Nat
  BY Zenon, <1>6, FS_Subset, FS_CardinalityType, RingAssumption
<1>10. nFree = Cardinality(free)
  BY Zenon DEF Conserved
<1>11. nFree' = Cardinality(free') /\ nFree' \in Nat
  <2>1. Cardinality(free) = Cardinality(free') + n /\ n \in Nat
    BY Zenon, <1>3, <1>6, <1>7, <1>9
  <2>2. nFree' = Cardinality(free) - n
    BY Zenon, <1>3, <1>10
  <2>3. Cardinality(free') \in Nat
    BY Zenon, <1>7
  <2> QED
    BY <2>1, <2>2, <2>3
<1>12. Cardinality(ring') = Cardinality(ring) + n
  BY Zenon, <1>3, <1>8
<1>13. Cardinality(ring') >= RefillMin \/ nFree' < Batch
  BY Zenon, <1>3, <1>4, <1>12 DEF FillLevel
<1>14. app' = app
  BY Zenon DEF Refill
<1> QED
  BY Zenon, <1>5, <1>11, <1>13, <1>14

(* CreateHandler starts with every buffer on the free list.                *)
LEMMA InitInv == Init => Inv
<1> SUFFICES ASSUME Init PROVE Inv
  BY Zenon
<1>1. NBufs \in Nat
  BY Zenon, FS_CardinalityType, RingAssumption DEF NBufs
<1> QED
  BY Zenon, <1>1 DEF Init, Inv, TypeOK, Conserved, NBufs

(* Fill, refill, receive and release keep the invariant.                   *)
LEMMA NextInv == Inv /\ [Next]_vars => Inv'
<1> SUFFICES ASSUME Inv, [Next]_vars PROVE Inv'
  BY Zenon
<1> USE DEF Inv
<1>1. CASE Fill
  BY Zenon, <1>1, RefillMoves DEF Fill, TypeOK, Conserved
<1>2. CASE Filled
  BY Zenon, <1>2 DEF Filled, TypeOK, Conserved
<1>3. CASE EventLoopRefill
  BY Zenon, <1>3, RefillMoves DEF EventLoopRefill, TypeOK, Conserved
<1>4. CASE Receive
  BY Zenon, <1>4 DEF Receive, TypeOK, Conserved
<1>5. CASE Release
  <2>1. PICK b \in app : ReleasePktBuf(b)
    BY Zenon, <1>5 DEF Release
  <2>2. ready /\ ready' = ready
    BY Zenon, <1>5 DEF Release
  <2>3. /\ free' = free \cup {b} /\ nFree' = nFree + 1
        /\ app' = app \ {b} /\ ring' = ring
    BY Zenon, <2>1 DEF ReleasePktBuf
  <2>4. IsFiniteSet(free)
    BY Zenon, FS_Subset, RingAssumption DEF TypeOK
  <2>5. b \notin free
    BY Zenon DEF Conserved
  <2>6. Cardinality(free \cup {b}) = Cardinality(free) + 1
    BY Zenon, <2>4, <2>5, FS_AddElement
  <2>7. nFree' = Cardinality(free') /\ nFree' \in Nat
    BY <2>3, <2>6 DEF TypeOK, Conserved
  <2>8. /\ free' \cup ring' \cup app' = Buf
        /\ free' \cap ring' = {} /\ free' \cap app' = {} /\ ring' \cap app' = {}
        /\ free' \subseteq Buf /\ ring' \subseteq Buf /\ app' \subseteq Buf
    BY Zenon, <2>3 DEF TypeOK, Conserved
  <2> QED
    BY Zenon, <2>2, <2>7, <2>8 DEF TypeOK, Conserved
<1>6. CASE UNCHANGED vars
  BY Zenon, <1>6 DEF vars, TypeOK, Conserved
<1> QED
  BY Zenon, <1>1, <1>2, <1>3, <1>4, <1>5, <1>6 DEF Next

(* The invariant holds of every behaviour of the packet buffers.           *)
LEMMA Invariance == Spec => []Inv
  BY InitInv, NextInv, PTL DEF Spec

(* The variables keep their types, for every number of buffers.            *)
THEOREM TypeCorrect == Spec => []TypeOK
<1>1. Inv => TypeOK
  BY Zenon DEF Inv
<1> QED
  BY <1>1, Invariance, PTL

(* No buffer is lost or has two owners, and nFreePktBufs is the length of  *)
(* the free list, whatever the order of refills, packets and releases.     *)
THEOREM Conservation == Spec => []Conserved
<1>1. Inv => Conserved
  BY Zenon DEF Inv
<1> QED
  BY <1>1, Invariance, PTL

(* CreateHandler's fill loop always finds a batch to post.                 *)
THEOREM FillProgress == Spec => []FillAdvances
<1>1. Inv => FillAdvances
  <2> SUFFICES ASSUME Inv, ~ ready, FillLevel <= RefillLevel
               PROVE  CanRefill
    BY Zenon DEF FillAdvances
  <2>1. Cardinality(app) = 0
    BY Zenon, FS_EmptySet DEF Inv
  <2>2. /\ Cardinality(free) + Cardinality(ring) + Cardinality(app) = NBufs
        /\ Cardinality(free) \in Nat /\ Cardinality(ring) \in Nat
    BY Zenon, ThreeParts DEF Inv
  <2>3. Batch \in Nat /\ nFree = Cardinality(free)
    BY Zenon, RingAssumption DEF Inv, Conserved
  <2>4. NBufs \in Nat
    BY Zenon, FS_CardinalityType, RingAssumption DEF NBufs
  <2> QED
    BY <2>1, <2>2, <2>3, <2>4 DEF CanRefill, FillLevel, RefillLevel
<1> QED
  BY <1>1, Invariance, PTL

(* A dry ring that cannot be refilled means that the application holds     *)
(* more than nBufs - REFILL_BATCH_SIZE buffers.                            *)
THEOREM Starvation == Spec => []StarvedOnlyByApp
<1>1. Inv => StarvedOnlyByApp
  <2> SUFFICES ASSUME Inv, ring = {}, ~ CanRefill
               PROVE  Cardinality(app) > NBufs - Batch
    BY Zenon DEF StarvedOnlyByApp
  <2>1. Cardinality(ring) = 0
    BY Zenon, FS_EmptySet
  <2>2. /\ Cardinality(free) + Cardinality(ring) + Cardinality(app) = NBufs
        /\ Cardinality(free) \in Nat /\ Cardinality(app) \in Nat
    BY Zenon, ThreeParts DEF Inv
  <2>3. Batch \in Nat /\ Batch <= NBufs /\ nFree = Cardinality(free)
    BY Zenon, RingAssumption DEF Inv, Conserved
  <2>4. NBufs \in Nat
    BY Zenon, FS_CardinalityType, RingAssumption DEF NBufs
  <2> QED
    BY <2>1, <2>2, <2>3, <2>4 DEF CanRefill, FillLevel, RefillLevel
<1> QED
  BY <1>1, Invariance, PTL

(* A refill leaves the ring at refillMin or the pool below a batch.        *)
THEOREM RefillEnough == Spec => RefillReachesMin
<1> DEFINE A == ring \subseteq ring' /\ ring # ring' =>
                  Cardinality(ring') >= RefillMin \/ nFree' < Batch
<1>1. Inv /\ [Next]_vars => [A]_vars
  <2> SUFFICES ASSUME Inv, Next PROVE A
    BY Zenon
  <2>1. CASE Refill
    BY Zenon, <2>1, RefillMoves DEF Inv
  <2>2. CASE Filled \/ Receive \/ Release
    BY Zenon, <2>2 DEF Filled, Receive, Release, ReleasePktBuf
  <2> QED
    BY Zenon, <2>1, <2>2 DEF Next, Fill, EventLoopRefill
<1> QED
  BY <1>1, Invariance, PTL DEF Spec, RefillReachesMin

-----------------------------------------------------------------------------
(* The links of the free list, one load or store at a time.                *)

\* The number of buffers.
NPktBufs == Cardinality(PktBuf)

\* The buffers of a list s of length n.
Elements(s, n) == {s[i] : i \in 1 .. n}

\* The links nx lead from the head h through s[1], ..., s[n] and end there.
Listed(s, n, h, nx) ==
  /\ \A i, j \in 1 .. n : s[i] = s[j] => i = j
  /\ h = IF n = 0 THEN Null ELSE s[1]
  /\ \A i \in 1 .. n : nx[s[i]] = IF i = n THEN Null ELSE s[i + 1]

(* A set of natural numbers that is not empty has a least element.         *)
LEMMA Least ==
  ASSUME NEW T \in SUBSET Nat, T # {}
  PROVE  \E n \in T : \A m \in T : ~ (m < n)
<1> DEFINE R == OpToRel(<, Nat)
<1>1. IsWellFoundedOn(R, Nat)
  BY Zenon, NatLessThanWellFounded
<1>2. \E n \in T : \A m \in T : ~ (<<m, n>> \in R)
  <2> HIDE DEF R
  <2> QED BY Zenon, <1>1, WFMin
<1>3. PICK n \in T : \A m \in T : ~ (<<m, n>> \in R)
  BY Zenon, <1>2
<1>4. \A m \in T : ~ (m < n)
  BY Zenon, <1>3 DEF OpToRel
<1> QED BY Zenon, <1>3, <1>4

(* A list without repetition has as many elements as it is long, and no    *)
(* more than there are buffers.                                            *)
LEMMA ListSize ==
  ASSUME NEW n \in Nat, NEW s \in [1 .. n -> PktBuf],
         \A i, j \in 1 .. n : s[i] = s[j] => i = j
  PROVE  /\ IsFiniteSet(Elements(s, n)) /\ Cardinality(Elements(s, n)) = n
         /\ NPktBufs \in Nat /\ n <= NPktBufs
         /\ n = NPktBufs => Elements(s, n) = PktBuf
         /\ \A b \in PktBuf : b \notin Elements(s, n) => n + 1 <= NPktBufs
<1> DEFINE E == Elements(s, n)
<1>1. E \in SUBSET PktBuf
  BY Zenon DEF Elements
<1>2. IsFiniteSet(1 .. n) /\ Cardinality(1 .. n) = n
  BY FS_Interval
<1>3. s \in Bijection(1 .. n, E)
  BY Zenon DEF Elements, Bijection, Injection, Surjection, IsInjective
<1>4. IsFiniteSet(E) /\ Cardinality(E) = n
  BY Zenon, <1>2, <1>3, FS_Bijection DEF ExistsBijection
<1>5. IsFiniteSet(PktBuf) /\ NPktBufs \in Nat
  BY Zenon, ListAssumption, FS_CardinalityType DEF NPktBufs
<1>6. n <= NPktBufs /\ (n = NPktBufs => E = PktBuf)
  BY <1>1, <1>4, <1>5, FS_Subset DEF NPktBufs
<1>7. ASSUME NEW b \in PktBuf, b \notin E PROVE n + 1 <= NPktBufs
  <2>1. E \cup {b} \in SUBSET PktBuf
    BY Zenon, <1>1
  <2>2. Cardinality(E \cup {b}) = n + 1
    BY Zenon, <1>4, <1>7, FS_AddElement
  <2> QED BY <1>5, <2>1, <2>2, FS_Subset DEF NPktBufs
<1> QED BY Zenon, <1>4, <1>5, <1>6, <1>7

\* What the recursive definition of Reach says, once for all n.
Reached(e) ==
  e = [n \in 0 .. Cardinality(PktBuf) |->
         IF n = 0 THEN {freePktBufs} \ {Null}
         ELSE e[n - 1] \cup ({next[b] : b \in e[n - 1]} \ {Null})]

(* Following the links from the head of a list reaches its elements and    *)
(* nothing else.                                                           *)
LEMMA ReachIsList ==
  ASSUME NEW n \in Nat, NEW s \in [1 .. n -> PktBuf], Listed(s, n, freePktBufs, next)
  PROVE  Reach[NPktBufs] = Elements(s, n)
<1> DEFINE C == NPktBufs
           R(k) == {s[i] : i \in {j \in 1 .. n : j <= k + 1}}
<1>0. C \in Nat /\ n <= C /\ Null \notin PktBuf
  BY Zenon, ListSize, ListAssumption DEF Listed
<1> HIDE DEF C
<1>1. R(0) = {freePktBufs} \ {Null}
  <2>1. CASE n = 0
    BY <2>1 DEF Listed
  <2>2. CASE n # 0
    <3>1. {j \in 1 .. n : j <= 0 + 1} = {1} /\ 1 \in 1 .. n
      BY <2>2
    <3>2. R(0) = {s[1]} /\ s[1] \in PktBuf
      BY Zenon, <3>1
    <3> QED BY <1>0, <2>2, <3>2 DEF Listed
  <2> QED BY Zenon, <2>1, <2>2
<1>2. ASSUME NEW k \in Nat, k # 0
      PROVE  R(k) = R(k - 1) \cup ({next[b] : b \in R(k - 1)} \ {Null})
  <2>1. ASSUME NEW b \in R(k) PROVE b \in R(k - 1) \cup ({next[c] : c \in R(k - 1)} \ {Null})
    <3>1. PICK i \in 1 .. n : i <= k + 1 /\ b = s[i]
      BY Zenon, <2>1
    <3>2. CASE i <= k
      BY <3>1, <3>2
    <3>3. CASE i = k + 1
      <4>1. i - 1 \in 1 .. n /\ i - 1 <= (k - 1) + 1 /\ i - 1 # n /\ (i - 1) + 1 = i
        BY <1>2, <3>3
      <4>2. s[i - 1] \in R(k - 1)
        BY Zenon, <4>1
      <4>3. next[s[i - 1]] = s[i]
        BY Zenon, <4>1 DEF Listed
      <4>4. s[i] # Null
        BY Zenon, <1>0
      <4> QED BY Zenon, <3>1, <4>2, <4>3, <4>4
    <3> QED BY <3>1, <3>2, <3>3
  <2>2. R(k - 1) \subseteq R(k)
    OBVIOUS
  <2>3. ASSUME NEW c \in R(k - 1), next[c] # Null PROVE next[c] \in R(k)
    <3>1. PICK i \in 1 .. n : i <= (k - 1) + 1 /\ c = s[i]
      BY Zenon, <2>3
    <3>2. i # n /\ next[c] = s[i + 1]
      BY Zenon, <2>3, <3>1 DEF Listed
    <3>3. i + 1 \in 1 .. n /\ i + 1 <= k + 1
      BY <3>1, <3>2
    <3> QED BY Zenon, <3>2, <3>3
  <2> HIDE DEF R
  <2> QED BY Zenon, <2>1, <2>2, <2>3
<1>3. \A k \in 0 .. C : k # 0 => k - 1 \in 0 .. C /\ k \in Nat
  BY <1>0
<1>4. Reached([k \in 0 .. C |-> R(k)])
  <2> HIDE DEF R
  <2> DEFINE f == [k \in 0 .. C |-> R(k)]
  <2>1. ASSUME NEW k \in 0 .. C
        PROVE  f[k] = IF k = 0 THEN {freePktBufs} \ {Null}
                      ELSE f[k - 1] \cup ({next[b] : b \in f[k - 1]} \ {Null})
    <3>1. CASE k = 0
      BY Zenon, <1>1, <3>1
    <3>2. CASE k # 0
      <4>1. f[k] = R(k) /\ f[k - 1] = R(k - 1)
        BY Zenon, <1>3, <3>2
      <4> HIDE DEF f
      <4>2. R(k) = R(k - 1) \cup ({next[b] : b \in R(k - 1)} \ {Null})
        BY Zenon, <1>2, <1>3, <3>2
      <4> QED BY Zenon, <3>2, <4>1, <4>2
    <3> QED BY Zenon, <3>1, <3>2
  <2>2. f = [k \in 0 .. C |-> f[k]]
    BY Zenon
  <2> HIDE DEF f
  <2>3. [k \in 0 .. C |-> f[k]]
          = [k \in 0 .. C |-> IF k = 0 THEN {freePktBufs} \ {Null}
                              ELSE f[k - 1] \cup ({next[b] : b \in f[k - 1]} \ {Null})]
    BY Zenon, <2>1
  <2>4. Reached(f)
    BY Zenon, <2>2, <2>3 DEF Reached, C, NPktBufs
  <2> QED BY Zenon, <2>4 DEF f
<1>5. Reached(Reach)
  <2>1. Reach = CHOOSE e : Reached(e)
    BY Zenon DEF Reach, Reached
  <2> HIDE DEF R
  <2> QED BY Zenon, <1>4, <2>1
<1>6. /\ Reach[0] = {freePktBufs} \ {Null}
      /\ \A k \in 1 .. C : Reach[k] = Reach[k - 1] \cup ({next[b] : b \in Reach[k - 1]} \ {Null})
  BY <1>0, <1>5 DEF Reached, C, NPktBufs
<1> DEFINE Bad == {k \in 0 .. C : Reach[k] # R(k)}
<1> HIDE DEF R
<1>7. Bad = {}
  <2> SUFFICES ASSUME Bad # {} PROVE FALSE
    BY Zenon
  <2>1. Bad \in SUBSET Nat
    BY <1>0
  <2>2. PICK k \in Bad : \A m \in Bad : ~ (m < k)
    <3> HIDE DEF Bad
    <3> QED BY Zenon, <2>1, Least
  <2>3. CASE k = 0
    BY Zenon, <1>1, <1>6, <2>2, <2>3
  <2>4. CASE k # 0
    <3>1. k \in 1 .. C /\ k - 1 \in 0 .. C /\ k - 1 < k /\ k \in Nat
      BY <1>0, <2>4
    <3>2. Reach[k - 1] = R(k - 1)
      BY Zenon, <2>2, <3>1
    <3>3. Reach[k] = R(k - 1) \cup ({next[b] : b \in R(k - 1)} \ {Null})
      BY Zenon, <1>6, <3>1, <3>2
    <3> QED BY Zenon, <1>2, <2>2, <2>4, <3>1, <3>3
  <2> QED BY Zenon, <2>3, <2>4
<1>8. R(C) = Elements(s, n)
  <2>1. {j \in 1 .. n : j <= C + 1} = 1 .. n
    BY <1>0
  <2> QED BY Zenon, <2>1 DEF R, Elements
<1> QED BY <1>0, <1>7, <1>8 DEF C

-----------------------------------------------------------------------------

\* The buffer that a push or a refill has in hand.
Transit ==
  IF pushPc \in {"link", "head"} THEN {pushed}
  ELSE IF popPc \in {"load", "store", "post"} THEN {taken.buf} ELSE {}

\* How far the count is ahead of the list.
Excess ==
  IF pushPc \in {"load", "store"} THEN -1
  ELSE IF popPc \in {"load", "store"} THEN 1 ELSE 0

\* The types; one goroutine pushes and pops, one at a time.
ListTypeInv ==
  /\ next \in [PktBuf -> PktBuf \cup {Null}]
  /\ posted \in [PktBuf -> 0 .. 1] /\ held \subseteq PktBuf
  /\ pushed \in PktBuf \cup {Null}
  /\ taken \in [buf : PktBuf \cup {Null}, left : Nat]
  /\ count \in [push : Int, pop : Int]
  /\ pushPc \in {"idle", "link", "head", "load", "store"}
  /\ popPc \in {"idle", "read", "head", "load", "store", "post"}
  /\ pushPc = "idle" \/ popPc = "idle"

\* What the steps of a push and of a refill have read or written so far.
StepInv ==
  /\ pushPc # "idle" => pushed \in PktBuf
  /\ pushPc = "head" => next[pushed] = freePktBufs
  /\ pushPc \in {"load", "store"} => freePktBufs = pushed
  /\ pushPc = "store" => count.push = nFreePktBufs
  /\ popPc # "idle" => taken.left > 0
  /\ popPc = "head" => taken.buf = freePktBufs
  /\ popPc \in {"load", "store", "post"} => taken.buf \in PktBuf
  /\ popPc = "store" => count.pop = nFreePktBufs

\* A buffer has one owner.
OwnInv ==
  /\ \A b \in PktBuf : posted[b] = 1 => b \notin held
  /\ \A b \in Transit : posted[b] = 0 /\ b \notin held

\* The buffers nobody has.
Unowned == {b \in PktBuf : posted[b] = 0 /\ b \notin held /\ b \notin Transit}

\* The list is s, of n buffers.
PoolInv(s, n) ==
  /\ Listed(s, n, freePktBufs, next)
  /\ Elements(s, n) = Unowned
  /\ nFreePktBufs = n + Excess
  /\ popPc \in {"read", "head"} => taken.left <= n
  /\ popPc \in {"load", "store", "post"} => taken.left <= n + 1

\* The links form a list, of exactly the buffers nobody has.
HasPool == \E n \in Nat : \E s \in [1 .. n -> PktBuf] : PoolInv(s, n)

(* The strengthening of ListIsPool and PostedOnce: it holds between any    *)
(* two loads and stores of a push or a refill as well.                     *)
ListInv == ListTypeInv /\ StepInv /\ OwnInv /\ HasPool

(* CreateHandler's pushes leave a list of all buffers.                     *)
LEMMA InitList == ListInit => ListInv
<1> SUFFICES ASSUME ListInit PROVE ListInv
  BY Zenon
<1>1. PICK f \in Orders : next = Chain(f) /\ freePktBufs = f[1]
  BY Zenon DEF ListInit
<1> DEFINE n == NPktBufs
<1>2. /\ n \in Nat /\ f \in [1 .. n -> PktBuf] /\ n # 0
      /\ \A i, j \in 1 .. n : f[i] = f[j] => i = j
  <2>1. n \in Nat /\ n # 0
    BY ListAssumption, FS_CardinalityType DEF NPktBufs
  <2>2. f \in [1 .. n -> PktBuf] /\ \A i, j \in DOMAIN f : f[i] = f[j] => i = j
    BY Zenon DEF Orders, NPktBufs
  <2> QED BY Zenon, <2>1, <2>2
<1> HIDE DEF n
<1>3. Elements(f, n) = PktBuf
  <2>1. n = NPktBufs
    BY Zenon DEF n
  <2> QED BY Zenon, <1>2, <2>1, ListSize
<1>4. ASSUME NEW i \in 1 .. n
      PROVE  next[f[i]] = IF i = n THEN Null ELSE f[i + 1]
  <2>0. Len(f) = n
    BY <1>2
  <2>1. next[f[i]] = IF \E j \in 1 .. n - 1 : f[j] = f[i]
                     THEN f[1 + CHOOSE j \in 1 .. n - 1 : f[j] = f[i]] ELSE Null
    BY Zenon, <1>1, <1>2, <2>0 DEF Chain
  <2>2. CASE i = n
    <3>1. ~ \E j \in 1 .. n - 1 : f[j] = f[i]
      BY <1>2, <2>2
    <3> QED BY Zenon, <2>1, <2>2, <3>1
  <2>3. CASE i # n
    <3> DEFINE Q(j) == j \in 1 .. n - 1 /\ f[j] = f[i]
    <3>1. i \in 1 .. n - 1
      BY <1>2, <2>3
    <3>2. (CHOOSE j \in 1 .. n - 1 : f[j] = f[i]) = i
      <4>1. \A j \in 1 .. n - 1 : f[j] = f[i] => j = i
        BY <1>2
      <4> QED BY Zenon, <3>1, <4>1
    <3>3. next[f[i]] = f[1 + i]
      BY Zenon, <2>1, <3>1, <3>2
    <3>4. 1 + i = i + 1
      OBVIOUS
    <3> QED BY Zenon, <2>3, <3>3, <3>4
  <2> QED BY Zenon, <2>2, <2>3
<1>5. Listed(f, n, freePktBufs, next)
  BY Zenon, <1>1, <1>2, <1>4 DEF Listed
<1>6. Transit = {} /\ Excess = 0
  BY Zenon DEF ListInit, Transit, Excess
<1>7. Unowned = PktBuf
  BY Zenon, <1>6 DEF ListInit, Unowned
<1>8. PoolInv(f, n)
  <2>1. nFreePktBufs = n + 0
    BY <1>2 DEF ListInit, n, NPktBufs
  <2>2. popPc = "idle"
    BY Zenon DEF ListInit
  <2> QED BY Zenon, <1>3, <1>5, <1>6, <1>7, <2>1, <2>2 DEF PoolInv
<1>9. ListTypeInv /\ StepInv /\ OwnInv
  <2>1. next \in [PktBuf -> PktBuf \cup {Null}]
    <3>0. Len(f) = n
      BY <1>2
    <3>1. ASSUME NEW b \in PktBuf PROVE next[b] \in PktBuf \cup {Null}
      <4>1. PICK i \in 1 .. n : b = f[i]
        BY Zenon, <1>3 DEF Elements
      <4> QED BY <1>2, <1>4, <4>1
    <3>2. next = [b \in PktBuf |-> next[b]]
      BY Zenon, <1>1 DEF Chain
    <3> QED BY Zenon, <3>1, <3>2
  <2> QED BY <1>6, <2>1 DEF ListInit, ListTypeInv, StepInv, OwnInv
<1> QED BY Zenon, <1>2, <1>8, <1>9 DEF ListInv, HasPool

(* A step that leaves the links and the owners alone keeps the list.       *)
LEMMA SamePool ==
  ASSUME NEW n \in Nat, NEW s \in [1 .. n -> PktBuf], PoolInv(s, n),
         UNCHANGED <<freePktBufs, next>>, Unowned' = Unowned,
         nFreePktBufs' = n + Excess',
         popPc' \in {"read", "head"} => taken'.left <= n,
         popPc' \in {"load", "store", "post"} => taken'.left <= n + 1
  PROVE  HasPool'
<1>1. PoolInv(s, n)'
  BY Zenon DEF PoolInv, Listed
<1> QED BY Zenon, <1>1 DEF HasPool

\* The adapter fills a posted buffer.
LEMMA FillPostedList == ListInv /\ FillPosted => ListInv'
<1> SUFFICES ASSUME ListInv, FillPosted PROVE ListInv'
  BY Zenon
<1>1. PICK b \in PktBuf \ held :
        /\ posted[b] > 0
        /\ posted' = [posted EXCEPT ![b] = @ - 1]
        /\ held' = held \cup {b}
  BY Zenon DEF FillPosted
<1>0. PICK n \in Nat : \E s \in [1 .. n -> PktBuf] : PoolInv(s, n)
  BY Zenon DEF ListInv, HasPool
<1>2. PICK s \in [1 .. n -> PktBuf] : PoolInv(s, n)
  BY Zenon, <1>0
<1>3. /\ UNCHANGED <<freePktBufs, next, nFreePktBufs, pushPc, pushed, popPc, count, taken>>
      /\ Transit' = Transit /\ Excess' = Excess
  BY Zenon DEF FillPosted, list, Transit, Excess
<1>4. posted \in [PktBuf -> 0 .. 1] /\ posted[b] = 1 /\ b \notin Transit
  BY <1>1 DEF ListInv, ListTypeInv, OwnInv
<1>5. posted' \in [PktBuf -> 0 .. 1] /\ posted'[b] = 0
      /\ \A c \in PktBuf : c # b => posted'[c] = posted[c]
  BY <1>1, <1>4
<1>6. Unowned' = Unowned
  BY <1>1, <1>3, <1>4, <1>5 DEF Unowned
<1>7. HasPool'
  BY Zenon, <1>2, <1>3, <1>6, SamePool DEF PoolInv
<1>8. ListTypeInv' /\ StepInv'
  BY <1>1, <1>3, <1>5 DEF ListInv, ListTypeInv, StepInv
<1>9. OwnInv'
  <2>1. Transit \subseteq PktBuf
    BY Zenon DEF Transit, ListInv, StepInv
  <2> QED BY <1>1, <1>3, <1>4, <1>5, <2>1 DEF ListInv, OwnInv
<1> QED BY Zenon, <1>7, <1>8, <1>9 DEF ListInv

\* A push takes a buffer from the application.
LEMMA PushBeginList == OneThread /\ ListInv /\ PushBegin => ListInv'
<1> SUFFICES ASSUME OneThread, ListInv, PushBegin PROVE ListInv'
  BY Zenon
<1>1. PICK b \in held : pushed' = b /\ held' = held \ {b}
  BY Zenon DEF PushBegin
<1>0. PICK n \in Nat : \E s \in [1 .. n -> PktBuf] : PoolInv(s, n)
  BY Zenon DEF ListInv, HasPool
<1>2. PICK s \in [1 .. n -> PktBuf] : PoolInv(s, n)
  BY Zenon, <1>0
<1>3. /\ UNCHANGED <<freePktBufs, next, nFreePktBufs, posted, popPc, count, taken>>
      /\ pushPc = "idle" /\ popPc = "idle" /\ pushPc' = "link"
  BY Zenon DEF PushBegin, list
<1>4. Transit = {} /\ Transit' = {b} /\ Excess = 0 /\ Excess' = 0
  BY Zenon, <1>1, <1>3 DEF Transit, Excess
<1>5. b \in PktBuf /\ posted \in [PktBuf -> 0 .. 1] /\ posted[b] = 0
  BY <1>1 DEF ListInv, ListTypeInv, OwnInv
<1>6. Unowned' = Unowned
  BY Zenon, <1>1, <1>3, <1>4, <1>5 DEF Unowned
<1>7. HasPool'
  BY Zenon, <1>2, <1>3, <1>4, <1>6, SamePool DEF PoolInv
<1>8. ListTypeInv' /\ StepInv'
  BY Zenon, <1>1, <1>3, <1>5 DEF ListInv, ListTypeInv, StepInv
<1>9. OwnInv'
  BY Zenon, <1>1, <1>3, <1>4, <1>5 DEF ListInv, OwnInv
<1> QED BY Zenon, <1>7, <1>8, <1>9 DEF ListInv

\* pktBuf.next = dev.freePktBufs changes the link of a buffer that is not on
\* the list.
LEMMA PushLinkList == ListInv /\ PushLink => ListInv'
<1> SUFFICES ASSUME ListInv, PushLink PROVE ListInv'
  BY Zenon
<1>0. PICK n \in Nat : \E s \in [1 .. n -> PktBuf] : PoolInv(s, n)
  BY Zenon DEF ListInv, HasPool
<1>2. PICK s \in [1 .. n -> PktBuf] : PoolInv(s, n)
  BY Zenon, <1>0
<1>3. /\ UNCHANGED <<freePktBufs, nFreePktBufs, posted, held, pushed, popPc, count, taken>>
      /\ pushPc = "link" /\ pushPc' = "head" /\ next' = [next EXCEPT ![pushed] = freePktBufs]
  BY Zenon DEF PushLink
<1>4. Transit = {pushed} /\ Transit' = Transit /\ Excess' = Excess /\ Unowned' = Unowned
  BY Zenon, <1>3 DEF Transit, Excess, Unowned
<1>5. pushed \in PktBuf /\ next \in [PktBuf -> PktBuf \cup {Null}] /\ popPc = "idle"
  BY Zenon, <1>3 DEF ListInv, StepInv, ListTypeInv
<1>6. \A i \in 1 .. n : s[i] \in PktBuf /\ s[i] # pushed
  BY <1>2, <1>4 DEF PoolInv, Elements, Unowned
<1>7. \A i \in 1 .. n : next'[s[i]] = next[s[i]]
  BY Zenon, <1>3, <1>5, <1>6
<1>8. PoolInv(s, n)'
  BY Zenon, <1>2, <1>3, <1>4, <1>5, <1>7 DEF PoolInv, Listed
<1>9. freePktBufs \in PktBuf \cup {Null}
  BY <1>2 DEF PoolInv, Listed
<1>10. ListTypeInv' /\ StepInv'
  BY Zenon, <1>3, <1>5, <1>9 DEF ListInv, ListTypeInv, StepInv
<1>11. OwnInv'
  BY Zenon, <1>3, <1>4 DEF ListInv, OwnInv
<1> QED BY Zenon, <1>8, <1>10, <1>11 DEF ListInv, HasPool

\* dev.freePktBufs = pktBuf puts the buffer in front of the list.
LEMMA PushHeadList == ListInv /\ PushHead => ListInv'
<1> SUFFICES ASSUME ListInv, PushHead PROVE ListInv'
  BY Zenon
<1>0. PICK n \in Nat : \E s \in [1 .. n -> PktBuf] : PoolInv(s, n)
  BY Zenon DEF ListInv, HasPool
<1>2. PICK s \in [1 .. n -> PktBuf] : PoolInv(s, n)
  BY Zenon, <1>0
<1>3. /\ UNCHANGED <<next, nFreePktBufs, posted, held, pushed, popPc, count, taken>>
      /\ pushPc = "head" /\ pushPc' = "load" /\ freePktBufs' = pushed
  BY Zenon DEF PushHead
<1>4. pushed \in PktBuf /\ next[pushed] = freePktBufs /\ popPc = "idle"
  BY Zenon, <1>3 DEF ListInv, StepInv, ListTypeInv
<1>5. /\ Transit = {pushed} /\ Transit' = {} /\ Excess = 0 /\ Excess' = -1
  BY Zenon, <1>3, <1>4 DEF Transit, Excess
<1>6. posted[pushed] = 0 /\ pushed \notin held
  BY Zenon, <1>5 DEF ListInv, OwnInv
<1>7. Unowned' = Unowned \cup {pushed} /\ pushed \notin Unowned
  BY Zenon, <1>3, <1>4, <1>5, <1>6 DEF Unowned
<1>a. PICK b \in PktBuf : b = pushed
  BY Zenon, <1>4
<1> DEFINE m == n + 1
           r == [i \in 1 .. m |-> IF i = 1 THEN b ELSE s[i - 1]]
<1>8. /\ m \in Nat /\ m # 0 /\ r \in [1 .. m -> PktBuf] /\ r[1] = pushed
      /\ \A i \in 1 .. n : i + 1 \in 1 .. m /\ r[i + 1] = s[i]
      /\ \A i \in 1 .. m : i # 1 => i - 1 \in 1 .. n /\ r[i] = s[i - 1]
  BY <1>4, <1>a
<1> HIDE DEF r
<1>9. \A i \in 1 .. n : s[i] # pushed
  BY Zenon, <1>2, <1>7 DEF PoolInv, Elements
<1>10. \A i, j \in 1 .. m : r[i] = r[j] => i = j
  <2> SUFFICES ASSUME NEW i \in 1 .. m, NEW j \in 1 .. m, r[i] = r[j] PROVE i = j
    BY Zenon
  <2>1. CASE i = 1 \/ j = 1
    BY <1>8, <1>9, <2>1
  <2>2. CASE i # 1 /\ j # 1
    <3>1. i - 1 \in 1 .. n /\ j - 1 \in 1 .. n /\ s[i - 1] = s[j - 1]
      BY Zenon, <1>8, <2>2
    <3>2. i - 1 = j - 1
      BY Zenon, <1>2, <3>1 DEF PoolInv, Listed
    <3> QED BY <3>2
  <2> QED BY Zenon, <2>1, <2>2
<1>11. ASSUME NEW i \in 1 .. m PROVE next[r[i]] = IF i = m THEN Null ELSE r[i + 1]
  <2>1. CASE i = 1
    <3>1. CASE n = 0
      BY <1>2, <1>4, <1>8, <2>1, <3>1 DEF PoolInv, Listed
    <3>2. CASE n # 0
      <4>1. 1 \in 1 .. n /\ r[1 + 1] = s[1] /\ 1 # m
        BY <1>8, <3>2
      <4>2. freePktBufs = s[1]
        BY Zenon, <1>2, <3>2 DEF PoolInv, Listed
      <4> QED BY Zenon, <1>4, <1>8, <2>1, <4>1, <4>2
    <3> QED BY Zenon, <3>1, <3>2
  <2>2. CASE i # 1
    <3>1. i - 1 \in 1 .. n /\ r[i] = s[i - 1] /\ (i - 1 = n <=> i = m)
      BY <1>8, <2>2
    <3>2. next[s[i - 1]] = IF i - 1 = n THEN Null ELSE s[(i - 1) + 1]
      BY Zenon, <1>2, <3>1 DEF PoolInv, Listed
    <3>3. i # m => r[i + 1] = s[(i - 1) + 1]
      <4>1. i # m => i \in 1 .. n /\ (i - 1) + 1 = i
        BY <3>1
      <4> QED BY <1>8, <4>1
    <3> QED BY Zenon, <3>1, <3>2, <3>3
  <2> QED BY Zenon, <2>1, <2>2
<1>12. Elements(r, m) = Elements(s, n) \cup {pushed}
  <2>1. ASSUME NEW c \in Elements(r, m) PROVE c \in Elements(s, n) \cup {pushed}
    BY <1>8, <2>1 DEF Elements
  <2>2. ASSUME NEW c \in Elements(s, n) PROVE c \in Elements(r, m)
    <3>1. PICK i \in 1 .. n : c = s[i]
      BY Zenon, <2>2 DEF Elements
    <3>2. i + 1 \in 1 .. m /\ r[i + 1] = c
      BY Zenon, <1>8, <3>1
    <3> QED BY Zenon, <3>2 DEF Elements
  <2>3. pushed \in Elements(r, m)
    <3>1. 1 \in 1 .. m
      BY <1>8
    <3> QED BY Zenon, <1>8, <3>1 DEF Elements
  <2> QED BY Zenon, <2>1, <2>2, <2>3
<1>13. Listed(r, m, freePktBufs', next')
  BY Zenon, <1>3, <1>8, <1>10, <1>11 DEF Listed
<1>14. nFreePktBufs' = m + Excess'
  BY <1>2, <1>3, <1>5 DEF PoolInv
<1> HIDE DEF m
<1>15. PoolInv(r, m)'
  BY Zenon, <1>2, <1>3, <1>4, <1>7, <1>12, <1>13, <1>14 DEF PoolInv
<1>16. ListTypeInv' /\ StepInv'
  BY Zenon, <1>3, <1>4 DEF ListInv, ListTypeInv, StepInv
<1>17. OwnInv'
  BY Zenon, <1>3, <1>5 DEF ListInv, OwnInv
<1> QED BY Zenon, <1>8, <1>15, <1>16, <1>17 DEF ListInv, HasPool

\* dev.nFreePktBufs++
LEMMA PushCountList == ListInv /\ (PushLoad \/ PushStore) => ListInv'
<1> SUFFICES ASSUME ListInv, PushLoad \/ PushStore PROVE ListInv'
  BY Zenon
<1>0. PICK n \in Nat : \E s \in [1 .. n -> PktBuf] : PoolInv(s, n)
  BY Zenon DEF ListInv, HasPool
<1>2. PICK s \in [1 .. n -> PktBuf] : PoolInv(s, n)
  BY Zenon, <1>0
<1>3. /\ UNCHANGED <<freePktBufs, next, posted, held, popPc, taken>>
      /\ pushPc \in {"load", "store"}
  BY Zenon DEF PushLoad, PushStore, list
<1>4. popPc = "idle" /\ Excess = -1 /\ Transit = {}
  BY Zenon, <1>3 DEF ListInv, ListTypeInv, Excess, Transit
<1>5. Transit' = {}
  BY Zenon, <1>3, <1>4 DEF PushLoad, PushStore, Transit
<1>6. Unowned' = Unowned
  BY Zenon, <1>3, <1>4, <1>5 DEF Unowned
<1>7. nFreePktBufs = n - 1 /\ nFreePktBufs \in Int
  BY <1>2, <1>4 DEF PoolInv
<1>8. nFreePktBufs' = n + Excess' /\ ListTypeInv' /\ StepInv'
  <2>1. CASE PushLoad
    <3>1. /\ pushPc = "load" /\ pushPc' = "store" /\ UNCHANGED <<nFreePktBufs, pushed>>
          /\ count' = [count EXCEPT !.push = nFreePktBufs]
      BY Zenon, <2>1 DEF PushLoad, list
    <3>2. Excess' = -1
      BY Zenon, <3>1 DEF Excess
    <3>3. count' \in [push : Int, pop : Int] /\ count'.push = nFreePktBufs
      BY Zenon, <1>7, <3>1 DEF ListInv, ListTypeInv
    <3> QED BY Zenon, <1>3, <1>4, <1>7, <3>1, <3>2, <3>3 DEF ListInv, ListTypeInv, StepInv
  <2>2. CASE PushStore
    <3>1. /\ pushPc = "store" /\ pushPc' = "idle" /\ UNCHANGED count
          /\ pushed' = Null /\ nFreePktBufs' = count.push + 1
      BY Zenon, <2>2 DEF PushStore
    <3>2. Excess' = 0
      BY Zenon, <1>3, <1>4, <3>1 DEF Excess
    <3>3. count.push = nFreePktBufs
      BY Zenon, <3>1 DEF ListInv, StepInv
    <3> QED BY <1>3, <1>4, <1>7, <3>1, <3>2, <3>3 DEF ListInv, ListTypeInv, StepInv
  <2> QED BY Zenon, <2>1, <2>2
<1>9. HasPool'
  BY Zenon, <1>2, <1>3, <1>4, <1>6, <1>8, SamePool
<1>10. OwnInv'
  BY Zenon, <1>3, <1>5 DEF ListInv, OwnInv
<1> QED BY Zenon, <1>8, <1>9, <1>10 DEF ListInv

\* refillRxRing starts a batch when the count says that it is there.
LEMMA RefillBatchList == OneThread /\ ListInv /\ RefillBatch => ListInv'
<1> SUFFICES ASSUME OneThread, ListInv, RefillBatch PROVE ListInv'
  BY Zenon
<1>0. PICK n \in Nat : \E s \in [1 .. n -> PktBuf] : PoolInv(s, n)
  BY Zenon DEF ListInv, HasPool
<1>2. PICK s \in [1 .. n -> PktBuf] : PoolInv(s, n)
  BY Zenon, <1>0
<1>3. /\ UNCHANGED <<freePktBufs, next, nFreePktBufs, posted, held, pushPc, pushed, count>>
      /\ pushPc = "idle" /\ popPc = "idle" /\ popPc' = "read" /\ nFreePktBufs >= BatchSize
      /\ taken' = [taken EXCEPT !.left = BatchSize]
  BY Zenon DEF RefillBatch, list
<1>4. Transit = {} /\ Transit' = {} /\ Excess = 0 /\ Excess' = 0
  BY Zenon, <1>3 DEF Transit, Excess
<1>5. BatchSize \in Nat /\ BatchSize > 0
  BY ListAssumption
<1>6. taken' \in [buf : PktBuf \cup {Null}, left : Nat] /\ taken'.left = BatchSize
  BY Zenon, <1>3, <1>5 DEF ListInv, ListTypeInv
<1>7. Unowned' = Unowned
  BY Zenon, <1>3, <1>4 DEF Unowned
<1>8. nFreePktBufs = n
  BY <1>2, <1>4 DEF PoolInv
<1>9. HasPool'
  BY <1>2, <1>3, <1>4, <1>6, <1>7, <1>8, SamePool
<1>10. ListTypeInv' /\ StepInv'
  BY Zenon, <1>3, <1>5, <1>6 DEF ListInv, ListTypeInv, StepInv
<1>11. OwnInv'
  BY Zenon, <1>3, <1>4 DEF ListInv, OwnInv
<1> QED BY Zenon, <1>9, <1>10, <1>11 DEF ListInv

\* pktBuf = dev.freePktBufs
LEMMA PopReadList == ListInv /\ PopRead => ListInv'
<1> SUFFICES ASSUME ListInv, PopRead PROVE ListInv'
  BY Zenon
<1>0. PICK n \in Nat : \E s \in [1 .. n -> PktBuf] : PoolInv(s, n)
  BY Zenon DEF ListInv, HasPool
<1>2. PICK s \in [1 .. n -> PktBuf] : PoolInv(s, n)
  BY Zenon, <1>0
<1>3. /\ UNCHANGED <<freePktBufs, next, nFreePktBufs, posted, held, pushPc, pushed, count>>
      /\ popPc = "read" /\ popPc' = "head" /\ taken' = [taken EXCEPT !.buf = freePktBufs]
  BY Zenon DEF PopRead, list
<1>4. pushPc = "idle" /\ freePktBufs \in PktBuf \cup {Null}
  BY <1>2, <1>3 DEF ListInv, ListTypeInv, PoolInv, Listed
<1>5. Transit = {} /\ Transit' = {} /\ Excess = 0 /\ Excess' = 0
  BY Zenon, <1>3, <1>4 DEF Transit, Excess
<1>6. /\ taken' \in [buf : PktBuf \cup {Null}, left : Nat] /\ taken'.left = taken.left
      /\ taken'.buf = freePktBufs
  BY Zenon, <1>3, <1>4 DEF ListInv, ListTypeInv
<1>7. Unowned' = Unowned
  BY Zenon, <1>3, <1>5 DEF Unowned
<1>8. HasPool'
  BY Zenon, <1>2, <1>3, <1>5, <1>6, <1>7, SamePool DEF PoolInv
<1>9. ListTypeInv' /\ StepInv'
  BY Zenon, <1>3, <1>4, <1>6 DEF ListInv, ListTypeInv, StepInv
<1>10. OwnInv'
  BY Zenon, <1>3, <1>5 DEF ListInv, OwnInv
<1> QED BY Zenon, <1>8, <1>9, <1>10 DEF ListInv

\* dev.freePktBufs = dev.freePktBufs.next takes the first buffer off the
\* list, which has one.
LEMMA PopHeadList == ListInv /\ PopHead => ListInv'
<1> SUFFICES ASSUME ListInv, PopHead PROVE ListInv'
  BY Zenon
<1>0. PICK n \in Nat : \E s \in [1 .. n -> PktBuf] : PoolInv(s, n)
  BY Zenon DEF ListInv, HasPool
<1>2. PICK s \in [1 .. n -> PktBuf] : PoolInv(s, n)
  BY Zenon, <1>0
<1>3. /\ UNCHANGED <<next, nFreePktBufs, posted, held, pushPc, pushed, count, taken>>
      /\ popPc = "head"
  BY Zenon DEF PopHead
<1>4. /\ pushPc = "idle" /\ taken.buf = freePktBufs /\ taken.left \in Nat
      /\ taken.left > 0 /\ taken.left <= n
  BY Zenon, <1>2, <1>3 DEF ListInv, ListTypeInv, StepInv, PoolInv
<1>5. n # 0 /\ 1 \in 1 .. n /\ n - 1 \in Nat
  BY <1>4
<1>6. freePktBufs = s[1] /\ s[1] \in PktBuf /\ freePktBufs # Null
  BY <1>2, <1>5, ListAssumption DEF PoolInv, Listed
<1>7. popPc' = "load" /\ freePktBufs' = next[s[1]]
  BY Zenon, <1>6 DEF PopHead
<1>8. /\ Transit = {} /\ Transit' = {s[1]} /\ Excess = 0 /\ Excess' = 1
  BY Zenon, <1>3, <1>4, <1>6, <1>7 DEF Transit, Excess
<1>9. s[1] \in Unowned
  BY Zenon, <1>2, <1>5 DEF PoolInv, Elements
<1>10. Unowned' = Unowned \ {s[1]}
  BY Zenon, <1>3, <1>8 DEF Unowned
<1> DEFINE m == n - 1
           r == [i \in 1 .. m |-> s[i + 1]]
<1>11. /\ m \in Nat /\ r \in [1 .. m -> PktBuf]
       /\ \A i \in 1 .. m : i + 1 \in 1 .. n /\ r[i] = s[i + 1]
  BY <1>5
<1>12. \A i, j \in 1 .. n : s[i] = s[j] => i = j
  BY Zenon, <1>2 DEF PoolInv, Listed
<1>13. \A i \in 1 .. n : next[s[i]] = IF i = n THEN Null ELSE s[i + 1]
  BY Zenon, <1>2 DEF PoolInv, Listed
<1> HIDE DEF r
<1>14. \A i, j \in 1 .. m : r[i] = r[j] => i = j
  <2> SUFFICES ASSUME NEW i \in 1 .. m, NEW j \in 1 .. m, r[i] = r[j] PROVE i = j
    BY Zenon
  <2>1. i + 1 \in 1 .. n /\ j + 1 \in 1 .. n /\ s[i + 1] = s[j + 1]
    BY Zenon, <1>11
  <2>2. i + 1 = j + 1
    BY Zenon, <1>12, <2>1
  <2> QED BY <2>2
<1>15. freePktBufs' = IF m = 0 THEN Null ELSE r[1]
  <2>1. next[s[1]] = IF 1 = n THEN Null ELSE s[1 + 1]
    BY Zenon, <1>5, <1>13
  <2>2. m = 0 <=> 1 = n
    BY <1>5
  <2>3. m # 0 => r[1] = s[1 + 1]
    BY <1>11
  <2> QED BY Zenon, <1>7, <2>1, <2>2, <2>3
<1>16. ASSUME NEW i \in 1 .. m PROVE next[r[i]] = IF i = m THEN Null ELSE r[i + 1]
  <2>1. i + 1 \in 1 .. n /\ r[i] = s[i + 1] /\ (i + 1 = n <=> i = m)
    BY <1>11
  <2>2. next[s[i + 1]] = IF i + 1 = n THEN Null ELSE s[(i + 1) + 1]
    BY Zenon, <1>13, <2>1
  <2>3. i # m => r[i + 1] = s[(i + 1) + 1]
    <3>1. i # m => i + 1 \in 1 .. m
      BY <1>11
    <3> QED BY Zenon, <1>11, <3>1
  <2> QED BY Zenon, <2>1, <2>2, <2>3
<1>17. Elements(r, m) = Elements(s, n) \ {s[1]}
  <2>1. ASSUME NEW c \in Elements(r, m) PROVE c \in Elements(s, n) \ {s[1]}
    <3>1. PICK i \in 1 .. m : c = r[i]
      BY Zenon, <2>1 DEF Elements
    <3>2. i + 1 \in 1 .. n /\ c = s[i + 1] /\ i + 1 # 1
      BY <1>11, <3>1
    <3> QED BY Zenon, <1>5, <1>12, <3>2 DEF Elements
  <2>2. ASSUME NEW c \in Elements(s, n), c # s[1] PROVE c \in Elements(r, m)
    <3>1. PICK i \in 1 .. n : c = s[i]
      BY Zenon, <2>2 DEF Elements
    <3>2. i - 1 \in 1 .. m /\ (i - 1) + 1 = i
      BY <1>5, <2>2, <3>1
    <3>3. c = r[i - 1]
      BY Zenon, <1>11, <3>1, <3>2
    <3> QED BY Zenon, <3>2, <3>3 DEF Elements
  <2> QED BY Zenon, <2>1, <2>2
<1>18. Listed(r, m, freePktBufs', next')
  BY Zenon, <1>3, <1>14, <1>15, <1>16 DEF Listed
<1>19. nFreePktBufs' = m + Excess' /\ taken'.left <= m + 1
  BY <1>2, <1>3, <1>4, <1>5, <1>8 DEF PoolInv
<1> HIDE DEF m
<1>20. PoolInv(r, m)'
  BY Zenon, <1>2, <1>7, <1>10, <1>17, <1>18, <1>19 DEF PoolInv
<1>21. ListTypeInv' /\ StepInv'
  BY Zenon, <1>3, <1>4, <1>6, <1>7 DEF ListInv, ListTypeInv, StepInv
<1>22. OwnInv'
  BY Zenon, <1>3, <1>8, <1>9 DEF ListInv, OwnInv, Unowned
<1> QED BY Zenon, <1>11, <1>20, <1>21, <1>22 DEF ListInv, HasPool

\* dev.nFreePktBufs--
LEMMA PopCountList == ListInv /\ (PopLoad \/ PopStore) => ListInv'
<1> SUFFICES ASSUME ListInv, PopLoad \/ PopStore PROVE ListInv'
  BY Zenon
<1>0. PICK n \in Nat : \E s \in [1 .. n -> PktBuf] : PoolInv(s, n)
  BY Zenon DEF ListInv, HasPool
<1>2. PICK s \in [1 .. n -> PktBuf] : PoolInv(s, n)
  BY Zenon, <1>0
<1>3. /\ UNCHANGED <<freePktBufs, next, posted, held, pushPc, pushed, taken>>
      /\ popPc \in {"load", "store"} /\ popPc' \in {"store", "post"}
  BY Zenon DEF PopLoad, PopStore, list
<1>4. pushPc = "idle" /\ Excess = 1 /\ Transit = {taken.buf} /\ Transit' = Transit
  BY Zenon, <1>3 DEF ListInv, ListTypeInv, Excess, Transit
<1>5. Unowned' = Unowned
  BY Zenon, <1>3, <1>4 DEF Unowned
<1>6. nFreePktBufs = n + 1 /\ nFreePktBufs \in Int /\ taken.left <= n + 1
  BY <1>2, <1>3, <1>4 DEF PoolInv
<1>7. nFreePktBufs' = n + Excess' /\ ListTypeInv' /\ StepInv'
  <2>1. CASE PopLoad
    <3>1. /\ popPc' = "store" /\ UNCHANGED nFreePktBufs
          /\ count' = [count EXCEPT !.pop = nFreePktBufs]
      BY Zenon, <2>1 DEF PopLoad, list
    <3>2. Excess' = 1
      BY Zenon, <1>3, <1>4, <3>1 DEF Excess
    <3>3. count' \in [push : Int, pop : Int] /\ count'.pop = nFreePktBufs
      BY Zenon, <1>6, <3>1 DEF ListInv, ListTypeInv
    <3> QED BY Zenon, <1>3, <1>4, <1>6, <3>1, <3>2, <3>3 DEF ListInv, ListTypeInv, StepInv
  <2>2. CASE PopStore
    <3>1. /\ popPc = "store" /\ popPc' = "post" /\ UNCHANGED count
          /\ nFreePktBufs' = count.pop - 1
      BY Zenon, <2>2 DEF PopStore
    <3>2. Excess' = 0
      BY Zenon, <1>3, <1>4, <3>1 DEF Excess
    <3>3. count.pop = nFreePktBufs
      BY Zenon, <3>1 DEF ListInv, StepInv
    <3> QED BY <1>3, <1>4, <1>6, <3>1, <3>2, <3>3 DEF ListInv, ListTypeInv, StepInv
  <2> QED BY Zenon, <2>1, <2>2
<1>8. HasPool'
  BY Zenon, <1>2, <1>3, <1>5, <1>6, <1>7, SamePool
<1>9. OwnInv'
  BY Zenon, <1>3, <1>4 DEF ListInv, OwnInv
<1> QED BY Zenon, <1>7, <1>8, <1>9 DEF ListInv

\* exec_ef_vi_receive_init: the buffer in hand is posted.
LEMMA PopPostList == ListInv /\ PopPost => ListInv'
<1> SUFFICES ASSUME ListInv, PopPost PROVE ListInv'
  BY Zenon
<1>0. PICK n \in Nat : \E s \in [1 .. n -> PktBuf] : PoolInv(s, n)
  BY Zenon DEF ListInv, HasPool
<1>2. PICK s \in [1 .. n -> PktBuf] : PoolInv(s, n)
  BY Zenon, <1>0
<1> DEFINE b == taken.buf
<1>3. /\ UNCHANGED <<freePktBufs, next, nFreePktBufs, held, pushPc, pushed, count>>
      /\ popPc = "post" /\ popPc' = IF taken.left > 1 THEN "read" ELSE "idle"
      /\ taken' = [buf |-> Null, left |-> taken.left - 1]
  BY Zenon DEF PopPost, list
<1>4. /\ pushPc = "idle" /\ b \in PktBuf /\ taken.left \in Nat /\ taken.left > 0
      /\ posted \in [PktBuf -> 0 .. 1]
  BY Zenon, <1>3 DEF ListInv, ListTypeInv, StepInv
<1>5. Transit = {b} /\ Transit' = {} /\ Excess = 0 /\ Excess' = 0
  BY Zenon, <1>3, <1>4 DEF Transit, Excess
<1>6. posted[b] = 0 /\ b \notin held
  BY Zenon, <1>5 DEF ListInv, OwnInv
<1>7. posted' = [posted EXCEPT ![b] = 1]
  BY <1>4, <1>6 DEF PopPost
<1>8. /\ posted' \in [PktBuf -> 0 .. 1] /\ posted'[b] = 1
      /\ \A c \in PktBuf : c # b => posted'[c] = posted[c]
  BY <1>4, <1>7
<1>9. Unowned' = Unowned
  BY <1>3, <1>5, <1>6, <1>8 DEF Unowned
<1>10. /\ taken' \in [buf : PktBuf \cup {Null}, left : Nat] /\ taken'.left = taken.left - 1
       /\ taken.left <= n + 1 /\ (popPc' = "read" => taken'.left > 0)
  BY <1>2, <1>3, <1>4 DEF PoolInv
<1>11. HasPool'
  BY <1>2, <1>3, <1>4, <1>5, <1>9, <1>10, SamePool DEF PoolInv
<1>12. ListTypeInv' /\ StepInv'
  BY Zenon, <1>3, <1>4, <1>8, <1>10 DEF ListInv, ListTypeInv, StepInv
<1>13. OwnInv'
  BY Zenon, <1>3, <1>5, <1>6, <1>8 DEF ListInv, OwnInv
<1> QED BY Zenon, <1>11, <1>12, <1>13 DEF ListInv

(* Every step of the one goroutine keeps the list intact.                  *)
LEMMA NextList == OneThread /\ ListInv /\ [ListNext]_listVars => ListInv'
<1> SUFFICES ASSUME OneThread, ListInv, [ListNext]_listVars PROVE ListInv'
  BY Zenon
<1>1. CASE UNCHANGED listVars
  BY <1>1 DEF listVars, ListInv, ListTypeInv, StepInv, OwnInv, HasPool, PoolInv, Listed,
              Unowned, Transit, Excess
<1> QED BY <1>1, FillPostedList, PushBeginList, PushLinkList, PushHeadList, PushCountList,
           RefillBatchList, PopReadList, PopHeadList, PopCountList, PopPostList
        DEF ListNext

-----------------------------------------------------------------------------
(* The theorems.                                                           *)

(* When one goroutine both releases buffers and refills the ring, the list *)
(* of free buffers is what its head and links say: it holds exactly the    *)
(* buffers nobody has, once each, nFreePktBufs counts them, and taking a   *)
(* batch never follows a nil pointer, for any number of buffers and any    *)
(* batch size.                                                             *)
THEOREM PoolIntact ==
  ASSUME OneThread
  PROVE  ListSpec => []ListIsPool
<1>1. ListInv => ListIsPool
  <2> SUFFICES ASSUME ListInv PROVE ListIsPool
    BY Zenon
  <2>0. PICK n \in Nat : \E s \in [1 .. n -> PktBuf] : PoolInv(s, n)
    BY Zenon DEF ListInv, HasPool
  <2>1. PICK s \in [1 .. n -> PktBuf] : PoolInv(s, n)
    BY Zenon, <2>0
  <2>2. Listed(s, n, freePktBufs, next) /\ nFreePktBufs = n + Excess /\ Elements(s, n) = Unowned
    BY Zenon, <2>1 DEF PoolInv
  <2>3. /\ Cardinality(Elements(s, n)) = n /\ NPktBufs \in Nat /\ n <= NPktBufs
        /\ \A b \in PktBuf : b \notin Elements(s, n) => n + 1 <= NPktBufs
    BY Zenon, <2>2, ListSize DEF Listed
  <2>4. freePktBufs \in PktBuf \cup {Null}
    BY <2>2 DEF Listed
  <2>5. nFreePktBufs \in 0 .. NPktBufs
    <3>1. CASE pushPc \in {"load", "store"}
      <4>1. Excess = -1 /\ freePktBufs \in PktBuf
        BY Zenon, <3>1 DEF Excess, ListInv, StepInv
      <4>2. n # 0
        BY Zenon, <2>2, <4>1, ListAssumption DEF Listed
      <4> QED BY <2>2, <2>3, <4>1, <4>2
    <3>2. CASE pushPc \notin {"load", "store"} /\ popPc \in {"load", "store"}
      <4>1. Excess = 1 /\ pushPc = "idle" /\ taken.buf \in PktBuf
        BY Zenon, <3>2 DEF Excess, ListInv, StepInv, ListTypeInv
      <4>2. taken.buf \in Transit
        BY Zenon, <3>2, <4>1 DEF Transit
      <4>3. n + 1 <= NPktBufs
        BY Zenon, <2>2, <2>3, <4>1, <4>2 DEF Unowned
      <4> QED BY <2>2, <2>3, <4>1, <4>3
    <3>3. CASE pushPc \notin {"load", "store"} /\ popPc \notin {"load", "store"}
      <4>1. Excess = 0
        BY Zenon, <3>3 DEF Excess
      <4> QED BY <2>2, <2>3, <4>1
    <3> QED BY Zenon, <3>1, <3>2, <3>3
  <2>6. ListTypeOK /\ popPc # "crashed"
    BY Zenon, <2>4, <2>5 DEF ListInv, ListTypeInv, ListTypeOK, NPktBufs
  <2>7. ASSUME pushPc = "idle", popPc = "idle"
        PROVE  /\ Reach[NPktBufs] = {b \in PktBuf : posted[b] = 0 /\ b \notin held}
               /\ nFreePktBufs = Cardinality(Reach[NPktBufs])
               /\ \A b, c \in Reach[NPktBufs] : next[b] = next[c] /\ next[b] # Null => b = c
    <3>1. Excess = 0 /\ Transit = {}
      BY Zenon, <2>7 DEF Excess, Transit
    <3>2. Reach[NPktBufs] = Elements(s, n)
      BY Zenon, <2>2, ReachIsList
    <3>3. Elements(s, n) = {b \in PktBuf : posted[b] = 0 /\ b \notin held}
      BY Zenon, <2>2, <3>1 DEF Unowned
    <3>4. ASSUME NEW b \in Elements(s, n), NEW c \in Elements(s, n),
                 next[b] = next[c], next[b] # Null
          PROVE  b = c
      <4>1. PICK i \in 1 .. n : b = s[i]
        BY Zenon, <3>4 DEF Elements
      <4>2. PICK j \in 1 .. n : c = s[j]
        BY Zenon, <3>4 DEF Elements
      <4>3. i # n /\ j # n /\ s[i + 1] = s[j + 1]
        BY Zenon, <2>2, <3>4, <4>1, <4>2 DEF Listed
      <4>4. i + 1 \in 1 .. n /\ j + 1 \in 1 .. n
        BY <4>3
      <4>5. i + 1 = j + 1
        BY Zenon, <2>2, <4>3, <4>4 DEF Listed
      <4>6. i = j
        BY <4>5
      <4> QED BY Zenon, <4>1, <4>2, <4>6
    <3>5. nFreePktBufs = n
      BY <2>2, <3>1
    <3> QED BY <2>3, <3>2, <3>3, <3>4, <3>5
  <2> QED BY Zenon, <2>6, <2>7 DEF ListIsPool, NPktBufs
<1>2. ListInv /\ [ListNext]_listVars => ListInv'
  BY Zenon, NextList
<1> QED BY <1>1, <1>2, InitList, PTL DEF ListSpec

(* With one goroutine no buffer is posted to the adapter twice, or while   *)
(* the application still holds it.                                         *)
THEOREM NoDoublePost ==
  ASSUME OneThread
  PROVE  ListSpec => []PostedOnce
<1>1. ListInv => PostedOnce
  BY DEF ListInv, ListTypeInv, OwnInv, PostedOnce
<1>2. ListInv /\ [ListNext]_listVars => ListInv'
  BY Zenon, NextList
<1> QED BY <1>1, <1>2, InitList, PTL DEF ListSpec
=============================================================================
