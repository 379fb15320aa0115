------------------------------ MODULE FreeList ------------------------------
(***************************************************************************)
(* onload/cgo_onload_linux.go: the list of free packet buffers of a        *)
(* Device, freePktBufs with the links pkt_buf.next and the count           *)
(* nFreePktBufs.  StartCapture's goroutine pushes buffers (releasePktBuf,  *)
(* through the release of a packet) while the event loop's goroutine       *)
(* pushes and takes them (handleRx, handleRxDiscard, refillRxRing).  No    *)
(* lock protects the list: every load and store is a step of its own.      *)
(*                                                                         *)
(* OneThread restricts the pushes to the event loop's goroutine.           *)
(***************************************************************************)
EXTENDS Integers, Sequences, FiniteSets

CONSTANTS
  PktBuf,      \* the packet buffers
  Null,        \* the nil link
  BatchSize,   \* REFILL_BATCH_SIZE
  OneThread    \* whether one goroutine does everything

ASSUME ListAssumption ==
  /\ IsFiniteSet(PktBuf) /\ Null \notin PktBuf
  /\ BatchSize \in 1 .. Cardinality(PktBuf)
  /\ OneThread \in BOOLEAN

VARIABLES
  freePktBufs,    \* the head of the list
  next,           \* pkt_buf.next of every buffer
  nFreePktBufs,
  posted,         \* how often each buffer is posted on the ring
  held,           \* the buffers the application may release
  pushPc, pushed, \* where a push is, and its buffer
  popPc,          \* where the refill is
  count,          \* the nFreePktBufs a read-modify-write has read: <<push, pop>>
  taken           \* the head the refill has read, and how many are left to take

list == <<freePktBufs, next, nFreePktBufs>>
listVars == <<freePktBufs, next, nFreePktBufs, posted, held, pushPc, pushed,
              popPc, count, taken>>

\* CreateHandler pushes every buffer: here in any order.
Chain(f) ==
  [b \in PktBuf |-> IF \E i \in 1 .. Len(f) - 1 : f[i] = b
                      THEN f[1 + CHOOSE i \in 1 .. Len(f) - 1 : f[i] = b]
                      ELSE Null]

Orders == {f \in [1 .. Cardinality(PktBuf) -> PktBuf] :
             \A i, j \in DOMAIN f : f[i] = f[j] => i = j}

ListInit ==
  /\ \E f \in Orders : next = Chain(f) /\ freePktBufs = f[1]
  /\ nFreePktBufs = Cardinality(PktBuf)
  /\ posted = [b \in PktBuf |-> 0]
  /\ held = {}
  /\ pushPc = "idle" /\ pushed = Null
  /\ popPc = "idle" /\ count = [push |-> 0, pop |-> 0]
  /\ taken = [buf |-> Null, left |-> 0]

\* The adapter fills a posted buffer: the application holds it.
FillPosted ==
  /\ \E b \in PktBuf \ held :
       /\ posted[b] > 0
       /\ posted' = [posted EXCEPT ![b] = @ - 1]
       /\ held' = held \cup {b}
  /\ UNCHANGED <<list, pushPc, pushed, popPc, count, taken>>

-----------------------------------------------------------------------------
(* releasePktBuf.                                                          *)

PushBegin ==
  /\ pushPc = "idle" /\ (OneThread => popPc = "idle")
  /\ \E b \in held : pushed' = b /\ held' = held \ {b}
  /\ pushPc' = "link"
  /\ UNCHANGED <<list, posted, popPc, count, taken>>

\* pktBuf.next = dev.freePktBufs
PushLink ==
  /\ pushPc = "link"
  /\ next' = [next EXCEPT ![pushed] = freePktBufs]
  /\ pushPc' = "head"
  /\ UNCHANGED <<freePktBufs, nFreePktBufs, posted, held, pushed, popPc, count,
                 taken>>

\* dev.freePktBufs = pktBuf
PushHead ==
  /\ pushPc = "head"
  /\ freePktBufs' = pushed
  /\ pushPc' = "load"
  /\ UNCHANGED <<next, nFreePktBufs, posted, held, pushed, popPc, count, taken>>

\* dev.nFreePktBufs++, a load and a store
PushLoad ==
  /\ pushPc = "load"
  /\ count' = [count EXCEPT !.push = nFreePktBufs]
  /\ pushPc' = "store"
  /\ UNCHANGED <<list, posted, held, pushed, popPc, taken>>

PushStore ==
  /\ pushPc = "store"
  /\ nFreePktBufs' = count.push + 1
  /\ pushPc' = "idle" /\ pushed' = Null
  /\ UNCHANGED <<freePktBufs, next, posted, held, popPc, count, taken>>

-----------------------------------------------------------------------------
(* refillRxRing, one batch.                                                *)

RefillBatch ==
  /\ popPc = "idle" /\ (OneThread => pushPc = "idle")
  /\ nFreePktBufs >= BatchSize
  /\ taken' = [taken EXCEPT !.left = BatchSize]
  /\ popPc' = "read"
  /\ UNCHANGED <<list, posted, held, pushPc, pushed, count>>

\* pktBuf = dev.freePktBufs
PopRead ==
  /\ popPc = "read"
  /\ taken' = [taken EXCEPT !.buf = freePktBufs]
  /\ popPc' = "head"
  /\ UNCHANGED <<list, posted, held, pushPc, pushed, count>>

\* Bug form: the head is not moved to the next buffer.
PopHeadKeeps ==
  /\ popPc = "head" /\ freePktBufs # Null
  /\ popPc' = "load"
  /\ UNCHANGED <<list, posted, held, pushPc, pushed, count, taken>>

\* dev.freePktBufs = dev.freePktBufs.next, which reads the head again; if the
\* list ends before the batch does, a nil pointer is followed.
PopHead ==
  /\ popPc = "head"
  /\ IF freePktBufs = Null
       THEN popPc' = "crashed" /\ UNCHANGED freePktBufs
       ELSE popPc' = "load" /\ freePktBufs' = next[freePktBufs]
  /\ UNCHANGED <<next, nFreePktBufs, posted, held, pushPc, pushed, count, taken>>

\* dev.nFreePktBufs--
PopLoad ==
  /\ popPc = "load"
  /\ count' = [count EXCEPT !.pop = nFreePktBufs]
  /\ popPc' = "store"
  /\ UNCHANGED <<list, posted, held, pushPc, pushed, taken>>

\* Bug form: the count is not decremented.
PopStoreKeeps ==
  /\ popPc = "store"
  /\ nFreePktBufs' = count.pop
  /\ popPc' = "post"
  /\ UNCHANGED <<freePktBufs, next, posted, held, pushPc, pushed, count, taken>>

PopStore ==
  /\ popPc = "store"
  /\ nFreePktBufs' = count.pop - 1
  /\ popPc' = "post"
  /\ UNCHANGED <<freePktBufs, next, posted, held, pushPc, pushed, count, taken>>

\* exec_ef_vi_receive_init
PopPost ==
  /\ popPc = "post"
  /\ posted' = IF taken.buf \in PktBuf
                 THEN [posted EXCEPT ![taken.buf] = IF @ < 2 THEN @ + 1 ELSE @]
                 ELSE posted
  /\ taken' = [buf |-> Null, left |-> taken.left - 1]
  /\ popPc' = IF taken.left > 1 THEN "read" ELSE "idle"
  /\ UNCHANGED <<list, held, pushPc, pushed, count>>

ListNext ==
  \/ FillPosted
  \/ PushBegin \/ PushLink \/ PushHead \/ PushLoad \/ PushStore
  \/ RefillBatch \/ PopRead \/ PopHead \/ PopLoad \/ PopStore \/ PopPost

ListSpec == ListInit /\ [][ListNext]_listVars

-----------------------------------------------------------------------------
(* Properties.                                                             *)

(* The values of the variables.                                            *)
ListTypeOK ==
  /\ freePktBufs \in PktBuf \cup {Null} /\ next \in [PktBuf -> PktBuf \cup {Null}]
  /\ nFreePktBufs \in 0 .. Cardinality(PktBuf)
  /\ posted \in [PktBuf -> 0 .. 1] /\ held \subseteq PktBuf
  /\ pushed \in PktBuf \cup {Null} /\ taken.buf \in PktBuf \cup {Null}

(* A buffer is not posted to the adapter while the application still holds *)
(* it, or while it is posted already.                                      *)
PostedOnce ==
  \A b \in PktBuf : posted[b] <= 1 /\ (posted[b] = 1 => b \notin held)

\* The buffers that the links reach from the head, in n steps at most.
Reach[n \in 0 .. Cardinality(PktBuf)] ==
  IF n = 0 THEN {freePktBufs} \ {Null}
  ELSE Reach[n - 1] \cup ({next[b] : b \in Reach[n - 1]} \ {Null})

(* With the list at rest it holds, once each, exactly the buffers that are *)
(* neither posted nor held, and nFreePktBufs counts them: taking a batch   *)
(* never runs past the end.                                                *)
ListIsPool ==
  /\ ListTypeOK
  /\ popPc # "crashed"
  /\ pushPc = "idle" /\ popPc = "idle" =>
       /\ Reach[Cardinality(PktBuf)] = {b \in PktBuf : posted[b] = 0 /\ b \notin held}
       /\ nFreePktBufs = Cardinality(Reach[Cardinality(PktBuf)])
       /\ \A b, c \in Reach[Cardinality(PktBuf)] :
            next[b] = next[c] /\ next[b] # Null => b = c
=============================================================================
