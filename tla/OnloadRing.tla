----------------------------- MODULE OnloadRing -----------------------------
(***************************************************************************)
(* onload/cgo_onload_linux.go: who owns each packet buffer of a Device.  A *)
(* buffer is in the pool of free buffers, posted on the receive descriptor *)
(* ring, or with the application (in an event, a frame or a packet) until  *)
(* it is released.  CreateHandler puts every buffer in the pool and fills  *)
(* the ring; the event loops refill it in batches.                         *)
(*                                                                         *)
(* Which free buffer refillRxRing takes next is left open here: nothing    *)
(* below depends on it.                                                    *)
(***************************************************************************)
EXTENDS Integers, FiniteSets

CONSTANTS
  Buf,     \* the packet buffers, pkt_bufs[0 .. nBufs-1]
  Batch    \* REFILL_BATCH_SIZE

\* ef_vi_receive_capacity() - REFILL_BATCH_SIZE
NBufs == Cardinality(Buf)

\* Bug form: the batch is not subtracted.
RefillLevelFull == NBufs

RefillLevel == NBufs - Batch

RefillMin == NBufs \div 2

ASSUME RingAssumption ==
  /\ IsFiniteSet(Buf)
  /\ Batch \in Nat \ {0}
  /\ Batch <= NBufs

VARIABLES
  ready,   \* CreateHandler has returned
  free,    \* the buffers on the freePktBufs list
  nFree,   \* nFreePktBufs, counted apart from the list
  ring,    \* the buffers posted and not filled yet
  app      \* the buffers the application has to release

pool == <<free, nFree>>
vars == <<ready, free, nFree, ring, app>>

\* ef_vi_receive_fill_level
FillLevel == Cardinality(ring)

Init ==
  /\ ready = FALSE
  /\ free = Buf
  /\ nFree = NBufs
  /\ ring = {}
  /\ app = {}

-----------------------------------------------------------------------------
(* refillRxRing.                                                           *)

\* The test it starts with.
CanRefill == FillLevel <= RefillLevel /\ nFree >= Batch

\* The loop condition fails for the first time after m batches.
StopsAfter(m) ==
  /\ FillLevel + m * Batch >= RefillMin \/ nFree - m * Batch < Batch
  /\ \A j \in 1 .. m - 1 :
       FillLevel + j * Batch < RefillMin /\ nFree - j * Batch >= Batch

\* m batches leave the pool and are pushed to the ring.
Post(posted, m) ==
  /\ ring' = ring \cup posted
  /\ free' = free \ posted
  /\ nFree' = nFree - m * Batch

Refill ==
  /\ CanRefill
  /\ \E m \in 1 .. NBufs :
       /\ StopsAfter(m)
       /\ \E posted \in SUBSET free :
            Cardinality(posted) = m * Batch /\ Post(posted, m)
  /\ UNCHANGED app

\* refillRxRing returned false.
NoRefill == ~ CanRefill /\ UNCHANGED <<free, nFree, ring, app>>

-----------------------------------------------------------------------------
(* CreateHandler fills the ring, then the device is in use.                *)

Fill ==
  /\ ~ ready /\ FillLevel <= RefillLevel
  /\ Refill
  /\ UNCHANGED ready

Filled ==
  /\ ~ ready /\ FillLevel > RefillLevel
  /\ ready' = TRUE
  /\ UNCHANGED <<free, nFree, ring, app>>

EventLoopRefill ==
  /\ ready
  /\ Refill
  /\ UNCHANGED ready

\* The adapter fills a posted buffer and writes an event for it.
Receive ==
  /\ ready
  /\ \E b \in ring : ring' = ring \ {b} /\ app' = app \cup {b}
  /\ UNCHANGED <<ready, free, nFree>>

\* Bug form: the count is not incremented.
ReleasePktBufMiscounts(b) ==
  /\ b \in app
  /\ free' = free \cup {b} /\ app' = app \ {b}
  /\ UNCHANGED <<nFree, ring>>

ReleasePktBuf(b) ==
  /\ b \in app
  /\ free' = free \cup {b}
  /\ nFree' = nFree + 1
  /\ app' = app \ {b}
  /\ UNCHANGED ring

Release ==
  /\ ready
  /\ \E b \in app : ReleasePktBuf(b)
  /\ UNCHANGED ready

Next == Fill \/ Filled \/ EventLoopRefill \/ Receive \/ Release

Spec == Init /\ [][Next]_vars

-----------------------------------------------------------------------------
(* Properties.                                                             *)

(* The values of the variables.                                            *)
TypeOK ==
  /\ ready \in BOOLEAN
  /\ free \subseteq Buf /\ ring \subseteq Buf /\ app \subseteq Buf
  /\ nFree \in Nat

(* Every buffer has one owner, and the count refillRxRing trusts when it   *)
(* takes a batch from the list without looking at its end is the length of *)
(* the list.                                                               *)
Conserved ==
  /\ free \cup ring \cup app = Buf
  /\ free \cap ring = {} /\ free \cap app = {} /\ ring \cap app = {}
  /\ nFree = Cardinality(free)

(* While CreateHandler fills the ring, every call of refillRxRing posts a  *)
(* batch: the loop that waits for the fill level cannot spin for ever.     *)
FillAdvances == ~ ready /\ FillLevel <= RefillLevel => CanRefill

(* The ring runs dry, with nothing an event loop could post, only while    *)
(* the application holds on to more than nBufs - REFILL_BATCH_SIZE         *)
(* buffers.  A capture that queues fewer never stops receiving.            *)
StarvedOnlyByApp ==
  ready /\ ring = {} /\ ~ CanRefill => Cardinality(app) > NBufs - Batch

(* A refill leaves at least refillMin buffers on the ring or less than a   *)
(* batch in the pool.                                                      *)
RefillReachesMin ==
  [][ring \subseteq ring' /\ ring # ring' =>
       Cardinality(ring') >= RefillMin \/ nFree' < Batch]_vars
=============================================================================
