------------------------ MODULE OnloadCaptureProofs -------------------------
(***************************************************************************)
(* Theorems about OnloadCapture, for any number of buffers, any sizes of   *)
(* batches and channel, every event loop and every interleaving of the two *)
(* goroutines and the adapter.                                             *)
(*                                                                         *)
(* Two views of the state carry the proofs.  Seen as a queue (Pipeline) a  *)
(* step appends at the end, removes one entry, or moves entries between    *)
(* the places without changing the queue.  Seen as control, what the two   *)
(* goroutines know of each other is where they are and what err holds.     *)
(***************************************************************************)
EXTENDS OnloadCapture, TLAPS

-----------------------------------------------------------------------------
(* Queues of buffers and resets.                                           *)

Ev == Buf \cup {NoBuf}

\* The queue s without its entry k.
Without(s, k) == [i \in 1 .. Len(s) - 1 |-> IF i < k THEN s[i] ELSE s[i + 1]]

\* t is s with the event x at its end; t is s without one entry, x.
Adds(s, t, x) == t = Append(s, x)
Removes(s, t, x) == \E k \in 1 .. Len(s) : s[k] = x /\ t = Without(s, k)

Bufs(s) == {s[i] : i \in DOMAIN s} \ {NoBuf}

\* No buffer is twice in s.
Once(s) == \A i, j \in DOMAIN s : s[i] = s[j] /\ s[i] # NoBuf => i = j

\* The buffers of s that are still in t are in the same order there.
Ordered(s, t) ==
  \A i, j \in DOMAIN s, k, l \in DOMAIN t :
    i < j /\ s[i] # NoBuf /\ s[j] # NoBuf /\ t[k] = s[i] /\ t[l] = s[j] => k < l

\* Every buffer has one owner, and the application holds none too early.
BufInv == Ring!TypeOK /\ Ring!Conserved /\ (~ ready => app = {})

-----------------------------------------------------------------------------
(* The inductive invariant.                                                *)

\* The queues.
DataOK ==
  /\ evq \in Seq(Ev) /\ batch \in Seq(Ev)
  /\ chan \in Seq(Buf) /\ sending \in Seq(Buf) /\ pkt \in Seq(Buf)
  /\ Len(sending) <= 1 /\ Len(pkt) <= 1 /\ Len(chan) <= ChanCap
  /\ polled \in 0 .. PollBatch /\ Len(batch) <= polled

\* The buffers in the queue and the dropped ones.
Placed(q, a, l) == Bufs(q) \cup l = a /\ Bufs(q) \cap l = {} /\ Once(q)

\* The scalar variables.
ControlOK ==
  /\ ctxDone \in BOOLEAN /\ vi \in {"live", "freed"}
  /\ transport \in Transport
  /\ primed \in BOOLEAN /\ refilled \in BOOLEAN /\ closed \in BOOLEAN
  /\ mode \in Mode /\ batchLoops \in -1 .. LoopBatch
  /\ epc \in {"idle", "select", "fdpoll", "refill", "decide", "poll", "event",
              "send", "prime", "wait", "leave", "release", "exited", "crashed"}
  /\ cpc \in {"create", "start", "select", "call", "check", "next", "eof",
              "failed", "wait", "returned"}
  /\ segment \in BOOLEAN /\ handlerErr \in {"nil", "handler", "EOF"} /\ overwritten \in BOOLEAN
  /\ err \in Errors /\ loopErr \in {"nil", "loop"}
  /\ result \in Errors \cup {"none", "filter"}

\* Which places of the queue can hold something, and who runs before whom.
PlacesInv ==
  /\ (pkt # << >>) <=> cpc \in {"call", "check", "next"}
  /\ (sending # << >>) <=> epc = "send"
  /\ epc \in {"idle", "select", "fdpoll", "refill", "decide", "poll", "prime", "wait"} =>
       batch = << >>
  /\ (cpc = "create") <=> ~ ready
  /\ cpc \in {"create", "start"} => epc = "idle"
  /\ epc = "idle" => cpc \in {"create", "start", "returned"}

\* What the shared err tells, and why a loop has ended.
ErrInv ==
  /\ epc \in {"leave", "release", "exited"} /\ loopErr = "nil" => ctxDone
  /\ epc \in {"release", "exited"} /\ loopErr = "loop" => err = "loop" \/ overwritten
  /\ err = "loop" => epc \in {"release", "exited"}
  /\ err = "EOF" => handlerErr = "EOF"
  /\ err = "handler" => handlerErr # "nil"
  /\ cpc \in {"call", "check"} => err # "unpack"

\* Where StartCapture can be, and how it got there.
ReturnInv ==
  /\ cpc = "eof" => handlerErr = "EOF"
  /\ cpc = "failed" /\ err = "nil" => ctxDone
  /\ cpc \in {"eof", "failed"} => handlerErr # "nil" \/ epc \in {"release", "exited"}
  /\ cpc # "returned" => result = "none"
  /\ NilMeansStopped

\* When the interface has been freed.
FreedInv ==
  /\ vi = "freed" =>
       \/ handlerErr # "nil"
       \/ epc = "idle" /\ cpc = "returned"
       \/ epc \in {"release", "exited"}
  /\ ReleasedAfterUse

ControlInv == ControlOK /\ PlacesInv /\ ErrInv /\ ReturnInv /\ FreedInv

Inv == BufInv /\ DataOK /\ Placed(Pipeline, app, lost) /\ ControlInv

-----------------------------------------------------------------------------
(* Every step keeps the control invariant.                                 *)

\* Where an event loop is while it runs, and where no event of a batch is left.
Looping == {"select", "fdpoll", "refill", "decide", "poll", "event", "send", "prime", "wait"}
Drained == {"select", "fdpoll", "refill", "decide", "poll", "prime", "wait"}

\* The event loop goes on, leaves or uses a freed interface.
LoopMove ==
  /\ UNCHANGED <<ready, ctxDone, vi, mode, closed, cpc, pkt, transport, segment, handlerErr,
                 err, overwritten, result>>
  /\ primed' \in BOOLEAN /\ refilled' \in BOOLEAN /\ batchLoops' \in -1 .. LoopBatch
  /\ loopErr' \in {"nil", "loop"}
  /\ epc \in Looping /\ epc' \in Looping \cup {"leave", "crashed"}
  /\ (sending' # << >>) <=> epc' = "send"
  /\ epc' \in Drained => batch' = << >>
  /\ epc' = "leave" /\ loopErr' = "nil" => ctxDone
  /\ epc' = "crashed" => vi = "freed"

\* StartCapture goes on or begins to return, and err stays as it is.
ConsumerMove ==
  /\ UNCHANGED <<ready, ctxDone, vi, mode, closed, primed, epc, refilled, batch, sending,
                 batchLoops, loopErr, handlerErr, err, overwritten, result>>
  /\ transport' \in Transport /\ segment' \in BOOLEAN
  /\ cpc \in {"select", "check", "next"}
  /\ cpc' \in {"select", "next", "eof", "failed", "wait"}
  /\ (pkt' # << >>) <=> cpc' = "next"
  /\ cpc' \in {"eof", "failed"} => cpc = "check" /\ err # "nil"
  /\ cpc' = "eof" => err = "EOF"

(* A move of the event loop that ends only when cancelled or by an error,  *)
(* and that crashes only on a freed interface, keeps the control invariant. *)
LEMMA LoopMoves == ControlInv /\ LoopMove => ControlInv'
<1> SUFFICES ASSUME ControlInv, LoopMove PROVE ControlInv'
  BY Zenon
<1>0. ControlOK /\ PlacesInv /\ ErrInv /\ ReturnInv /\ FreedInv
  BY Zenon DEF ControlInv
<1>1. ControlOK'
  BY <1>0 DEF ControlOK, LoopMove, Looping
<1>2. PlacesInv'
  BY Zenon, <1>0 DEF PlacesInv, LoopMove, Looping, Drained
<1>3. ErrInv'
  BY Zenon, <1>0 DEF ErrInv, LoopMove, Looping
<1>4. ReturnInv'
  BY Zenon, <1>0 DEF ReturnInv, LoopMove, Looping, NilMeansStopped
<1>5. FreedInv'
  BY Zenon, <1>0 DEF FreedInv, LoopMove, Looping, ReleasedAfterUse
<1> QED BY Zenon, <1>1, <1>2, <1>3, <1>4, <1>5 DEF ControlInv

(* A move of StartCapture that returns early only with err set, and on EOF *)
(* only with EOF in it, keeps the control invariant.                       *)
LEMMA ConsumerMoves == ControlInv /\ ConsumerMove => ControlInv'
<1> SUFFICES ASSUME ControlInv, ConsumerMove PROVE ControlInv'
  BY Zenon
<1>0. ControlOK /\ PlacesInv /\ ErrInv /\ ReturnInv /\ FreedInv
  BY Zenon DEF ControlInv
<1>1. ControlOK'
  BY <1>0 DEF ControlOK, ConsumerMove
<1>2. PlacesInv'
  BY Zenon, <1>0 DEF PlacesInv, ConsumerMove
<1>3. ErrInv'
  BY Zenon, <1>0 DEF ErrInv, ConsumerMove
<1>4. ReturnInv'
  BY Zenon, <1>0 DEF ReturnInv, ErrInv, ControlOK, Errors, ConsumerMove, NilMeansStopped
<1>5. FreedInv'
  BY Zenon, <1>0 DEF FreedInv, PlacesInv, ConsumerMove, ReleasedAfterUse
<1> QED BY Zenon, <1>1, <1>2, <1>3, <1>4, <1>5 DEF ControlInv

(* A step that changes no variable of the control, except that it may      *)
(* cancel the context, keeps the control invariant.                        *)
LEMMA QuietControl ==
  ASSUME ControlInv,
         UNCHANGED <<ready, vi, mode, closed, primed, epc, refilled, batch, sending, batchLoops,
                     loopErr, cpc, pkt, transport, segment, handlerErr, err, overwritten, result>>,
         ctxDone' \in BOOLEAN, ctxDone => ctxDone'
  PROVE  ControlInv'
<1>0. ControlOK /\ PlacesInv /\ ErrInv /\ ReturnInv /\ FreedInv
  BY Zenon DEF ControlInv
<1>1. ControlOK'
  BY <1>0 DEF ControlOK
<1>2. PlacesInv'
  BY Zenon, <1>0 DEF PlacesInv
<1>3. ErrInv'
  BY Zenon, <1>0 DEF ErrInv
<1>4. ReturnInv'
  BY Zenon, <1>0 DEF ReturnInv, NilMeansStopped
<1>5. FreedInv'
  BY Zenon, <1>0 DEF FreedInv, ReleasedAfterUse
<1> QED BY Zenon, <1>1, <1>2, <1>3, <1>4, <1>5 DEF ControlInv

(* CreateHandler, the adapter and the caller keep the control invariant.   *)
LEMMA EnvironmentControl ==
  ASSUME Inv, Cancel \/ NICReceives \/ NICResets \/ Fill \/ FilterFails \/ Start
  PROVE  ControlInv'
<1>0. ControlInv /\ ControlOK /\ PlacesInv /\ ErrInv /\ ReturnInv /\ FreedInv
  BY Zenon DEF Inv, ControlInv
<1>1. CASE Cancel
  <2>1. ctxDone' \in BOOLEAN /\ ctxDone'
    BY <1>1, Zenon DEF Cancel
  <2> QED BY Zenon, <1>0, <1>1, <2>1, QuietControl DEF Cancel, buffers, loop, consumer
<1>2. CASE NICReceives \/ NICResets
  <2>1. ctxDone' = ctxDone /\ ctxDone \in BOOLEAN
    BY Zenon, <1>0, <1>2 DEF NICReceives, NICResets, ControlOK
  <2> QED BY Zenon, <1>0, <1>2, <2>1, QuietControl DEF NICReceives, NICResets, buffers, loop, consumer
<1>3. CASE Fill
  <2>1. (ready' /\ cpc' = "start") \/ (~ ready' /\ cpc' = "create")
    BY Zenon, <1>3 DEF Fill, Ring!Fill, Ring!Filled
  <2>2. /\ cpc = "create"
        /\ UNCHANGED <<ctxDone, vi, mode, closed, primed, epc, refilled, batch, sending, batchLoops,
                       loopErr, pkt, transport, segment, handlerErr, err, overwritten, result>>
    BY Zenon, <1>3 DEF Fill, loop
  <2>3. ControlOK'
    BY <1>0, <2>1, <2>2 DEF ControlOK
  <2>4. PlacesInv'
    BY Zenon, <1>0, <2>1, <2>2 DEF PlacesInv
  <2>5. ErrInv'
    BY Zenon, <1>0, <2>1, <2>2 DEF ErrInv
  <2>6. ReturnInv'
    BY Zenon, <1>0, <2>1, <2>2 DEF ReturnInv, NilMeansStopped
  <2>7. FreedInv'
    BY Zenon, <1>0, <2>1, <2>2 DEF FreedInv, ReleasedAfterUse
  <2> QED BY Zenon, <2>3, <2>4, <2>5, <2>6, <2>7 DEF ControlInv
<1>4. CASE FilterFails
  <2>1. /\ cpc = "start" /\ cpc' = "returned" /\ result' = "filter" /\ vi' = "freed"
        /\ UNCHANGED <<ready, ctxDone, mode, closed, primed, epc, refilled, batch, sending,
                       batchLoops, loopErr, pkt, transport, segment, handlerErr, err, overwritten>>
    BY Zenon, <1>4 DEF FilterFails, buffers, loop
  <2>2. ControlOK'
    BY <1>0, <2>1 DEF ControlOK
  <2>3. PlacesInv'
    BY Zenon, <1>0, <2>1 DEF PlacesInv
  <2>4. ErrInv'
    BY Zenon, <1>0, <2>1 DEF ErrInv
  <2>5. ReturnInv'
    BY Zenon, <1>0, <2>1 DEF ReturnInv, NilMeansStopped
  <2>6. FreedInv'
    BY Zenon, <1>0, <2>1 DEF FreedInv, PlacesInv, ReleasedAfterUse
  <2> QED BY Zenon, <2>2, <2>3, <2>4, <2>5, <2>6 DEF ControlInv
<1>5. CASE Start
  <2>1. /\ cpc = "start" /\ cpc' = "select" /\ epc' \in {"prime", "select"}
        /\ UNCHANGED <<ready, ctxDone, vi, mode, closed, primed, refilled, batch, sending,
                       batchLoops, loopErr, pkt, transport, segment, handlerErr, err, overwritten,
                       result>>
    BY Zenon, <1>5 DEF Start, buffers
  <2>2. epc = "idle"
    BY Zenon, <1>0, <2>1 DEF PlacesInv
  <2>3. ControlOK'
    BY <1>0, <2>1 DEF ControlOK
  <2>4. PlacesInv'
    BY Zenon, <1>0, <2>1, <2>2 DEF PlacesInv
  <2>5. ErrInv'
    BY Zenon, <1>0, <2>1, <2>2 DEF ErrInv
  <2>6. ReturnInv'
    BY Zenon, <1>0, <2>1 DEF ReturnInv, NilMeansStopped
  <2>7. FreedInv'
    BY Zenon, <1>0, <2>1, <2>2 DEF FreedInv, ReleasedAfterUse
  <2> QED BY Zenon, <2>3, <2>4, <2>5, <2>6, <2>7 DEF ControlInv
<1> QED BY Zenon, <1>1, <1>2, <1>3, <1>4, <1>5

(* Every step of the event loop keeps the control invariant.               *)
LEMMA LoopControl ==
  ASSUME Inv, EventLoop \/ WaitFails
  PROVE  ControlInv'
<1>0. ControlInv /\ ControlOK /\ PlacesInv /\ ErrInv /\ ReturnInv /\ FreedInv
  BY Zenon DEF Inv, ControlInv
<1>a. /\ primed \in BOOLEAN /\ refilled \in BOOLEAN /\ batchLoops \in -1 .. LoopBatch
      /\ loopErr \in {"nil", "loop"} /\ mode \in Mode /\ LoopBatch \in Nat \ {0}
      /\ (sending # << >>) <=> epc = "send"
      /\ epc \in Drained => batch = << >>
  BY Zenon, <1>0, CaptureAssumption DEF ControlOK, PlacesInv, Drained
<1>1. CASE LoopSelect
  <2>1. LoopMove
    BY Zenon, <1>a, <1>1
    DEF LoopSelect, Leaves, LoopStep, buffers, consumer, LoopMove, Looping, Drained
  <2> QED BY Zenon, <1>0, <2>1, LoopMoves
<1>2. CASE FDPoll
  <2>1. primed' \in BOOLEAN
    BY <1>2, Zenon DEF FDPoll
  <2>2. LoopMove
    BY Zenon, <1>a, <1>2, <2>1 DEF FDPoll, LoopStep, buffers, consumer, LoopMove, Looping, Drained
  <2> QED BY Zenon, <1>0, <2>2, LoopMoves
<1>3. CASE Refill
  <2>1. ready' = ready /\ refilled' \in BOOLEAN
    BY Zenon, <1>3 DEF Refill, Ring!EventLoopRefill
  <2>2. LoopMove
    BY Zenon, <1>a, <1>3, <2>1 DEF Refill, LoopStep, consumer, LoopMove, Looping, Drained
  <2> QED BY Zenon, <1>0, <2>2, LoopMoves
<1>4. CASE Decide
  <2>1. batchLoops' \in -1 .. LoopBatch /\ epc' \in {"poll", "select"}
    BY <1>a, <1>4 DEF Decide
  <2>2. LoopMove
    BY Zenon, <1>a, <1>4, <2>1 DEF Decide, LoopStep, buffers, consumer, LoopMove, Looping, Drained
  <2> QED BY Zenon, <1>0, <2>2, LoopMoves
<1>5. CASE Poll
  <2>1. LoopMove
    BY Zenon, <1>a, <1>5 DEF Poll, LoopStep, buffers, consumer, LoopMove, Looping, Drained
  <2> QED BY Zenon, <1>0, <2>1, LoopMoves
<1>6. CASE EventHandled
  <2>1. ready' = ready
    BY Zenon, <1>6 DEF EventHandled, Recycles, Drops, buffers
  <2>2. \/ sending' # << >> /\ epc' = "send"
        \/ UNCHANGED <<epc, sending>>
    <3>1. \/ sending' = <<Head(batch)>> /\ epc' = "send"
          \/ UNCHANGED <<epc, sending>>
      BY Zenon, <1>6 DEF EventHandled
    <3> QED BY <3>1
  <2>3. /\ epc = "event" /\ UNCHANGED <<primed, refilled, batchLoops, loopErr>> /\ LoopStep
    BY Zenon, <1>6 DEF EventHandled
  <2>4. LoopMove
    BY Zenon, <1>a, <2>1, <2>2, <2>3 DEF LoopStep, consumer, LoopMove, Looping, Drained
  <2> QED BY Zenon, <1>0, <2>4, LoopMoves
<1>7. CASE EventFails
  <2>1. ready' = ready
    BY Zenon, <1>7 DEF EventFails, Recycles, Drops, buffers
  <2>2. /\ epc = "event" /\ epc' = "leave" /\ loopErr' = "loop"
        /\ UNCHANGED <<primed, refilled, sending, batchLoops>> /\ LoopStep
    BY Zenon, <1>7 DEF EventFails, Leaves
  <2>3. LoopMove
    BY Zenon, <1>a, <2>1, <2>2 DEF LoopStep, consumer, LoopMove, Looping, Drained
  <2> QED BY Zenon, <1>0, <2>3, LoopMoves
<1>8. CASE Send
  <2>1. /\ epc = "send" /\ epc' = "event" /\ sending' = << >>
        /\ UNCHANGED <<ready, primed, refilled, batchLoops, loopErr>> /\ LoopStep
    BY Zenon, <1>8 DEF Send, buffers
  <2>2. LoopMove
    BY Zenon, <1>a, <2>1 DEF LoopStep, consumer, LoopMove, Looping, Drained
  <2> QED BY Zenon, <1>0, <2>2, LoopMoves
<1>9. CASE Polled
  <2>1. epc' \in {"wait", "select", "prime", "refill"}
    BY Zenon, <1>a, <1>9 DEF Polled, Mode
  <2>2. batchLoops' \in -1 .. LoopBatch
    BY <1>a, <1>9 DEF Polled
  <2>3. /\ epc = "event" /\ batch = << >> /\ refilled' \in BOOLEAN
        /\ UNCHANGED <<ready, primed, batch, sending, loopErr>> /\ LoopStep
    BY Zenon, <1>9 DEF Polled, buffers
  <2>4. LoopMove
    BY Zenon, <1>a, <2>1, <2>2, <2>3 DEF LoopStep, consumer, LoopMove, Looping, Drained
  <2> QED BY Zenon, <1>0, <2>4, LoopMoves
<1>10. CASE Prime
  <2>1. primed' \in BOOLEAN
    BY <1>10, Zenon DEF Prime
  <2>2. LoopMove
    BY Zenon, <1>a, <1>10, <2>1 DEF Prime, LoopStep, buffers, consumer, LoopMove, Looping, Drained
  <2> QED BY Zenon, <1>0, <2>2, LoopMoves
<1>11. CASE Wait \/ WaitFails
  <2>1. LoopMove
    BY Zenon, <1>a, <1>11
    DEF Wait, WaitFails, Leaves, LoopStep, buffers, consumer, LoopMove, Looping, Drained
  <2> QED BY Zenon, <1>0, <2>1, LoopMoves
<1>12. CASE UsesFreedVI
  <2>1. LoopMove
    BY Zenon, <1>a, <1>12 DEF UsesFreedVI, LoopStep, buffers, consumer, LoopMove, Looping, Drained
  <2> QED BY Zenon, <1>0, <2>1, LoopMoves
<1>13. CASE LoopReturns
  <2>1. /\ epc = "leave" /\ err' = loopErr /\ epc' = "release"
        /\ UNCHANGED <<ready, ctxDone, vi, mode, closed, primed, refilled, batch, sending,
                       batchLoops, loopErr, cpc, pkt, transport, segment, handlerErr, overwritten,
                       result>>
    BY Zenon, <1>13 DEF LoopReturns, buffers, consumer
  <2>2. ControlOK'
    BY <1>0, <2>1 DEF ControlOK, Errors
  <2>3. PlacesInv'
    BY Zenon, <1>0, <2>1 DEF PlacesInv
  <2>4. ErrInv'
    BY Zenon, <1>0, <1>a, <2>1 DEF ErrInv
  <2>5. ReturnInv'
    BY Zenon, <1>0, <1>a, <2>1 DEF ReturnInv, ErrInv, NilMeansStopped
  <2>6. FreedInv'
    BY Zenon, <1>0, <2>1 DEF FreedInv, ReleasedAfterUse
  <2> QED BY Zenon, <2>2, <2>3, <2>4, <2>5, <2>6 DEF ControlInv
<1>14. CASE LoopExits
  <2>1. closed' \in BOOLEAN
    BY <1>14, Zenon DEF LoopExits
  <2>2. /\ epc = "release" /\ vi' = "freed" /\ epc' = "exited"
        /\ UNCHANGED <<ready, ctxDone, mode, primed, refilled, batch, sending, batchLoops, loopErr,
                       cpc, pkt, transport, segment, handlerErr, err, overwritten, result>>
    BY Zenon, <1>14 DEF LoopExits, buffers, consumer
  <2>3. ControlOK'
    BY <1>0, <2>1, <2>2 DEF ControlOK
  <2>4. PlacesInv'
    BY Zenon, <1>0, <2>2 DEF PlacesInv
  <2>5. ErrInv'
    BY Zenon, <1>0, <2>2 DEF ErrInv
  <2>6. ReturnInv'
    BY Zenon, <1>0, <2>2 DEF ReturnInv, NilMeansStopped
  <2>7. FreedInv'
    BY Zenon, <1>0, <2>2 DEF FreedInv, ReleasedAfterUse
  <2> QED BY Zenon, <2>3, <2>4, <2>5, <2>6, <2>7 DEF ControlInv
<1> QED
  BY Zenon, <1>1, <1>2, <1>3, <1>4, <1>5, <1>6, <1>7, <1>8, <1>9, <1>10, <1>11, <1>12, <1>13, <1>14
  DEF EventLoop

(* Every step of StartCapture's loop keeps the control invariant.          *)
LEMMA ConsumerControl ==
  ASSUME Inv, Consume
  PROVE  ControlInv'
<1>0. ControlInv /\ ControlOK /\ PlacesInv /\ ErrInv /\ ReturnInv /\ FreedInv
  BY Zenon DEF Inv, ControlInv
<1>a. /\ transport \in Transport /\ segment \in BOOLEAN /\ err \in Errors
      /\ (pkt # << >>) <=> cpc \in {"call", "check", "next"}
  BY Zenon, <1>0 DEF ControlOK, PlacesInv
<1>b. /\ UNCHANGED <<ctxDone, mode, closed, primed, epc, refilled, batch, sending, batchLoops, loopErr>>
      /\ epc # "crashed"
  BY Zenon DEF Consume, SelectDone, SelectClosed, SelectPacket, CallHandler, CheckFails, CheckPasses,
         ReturnsEarly, NextPacket, Return, ConsumerStep, Running, loop
<1>1. CASE SelectDone \/ SelectClosed
  <2>1. ConsumerMove
    BY Zenon, <1>a, <1>b, <1>1 DEF SelectDone, SelectClosed, buffers, ConsumerMove
  <2> QED BY Zenon, <1>0, <2>1, ConsumerMoves
<1>2. CASE CheckPasses
  <2>1. ConsumerMove
    BY Zenon, <1>a, <1>b, <1>2 DEF CheckPasses, buffers, ConsumerMove
  <2> QED BY Zenon, <1>0, <2>1, ConsumerMoves
<1>3. CASE CheckFails
  <2>1. ready' = ready
    BY Zenon, <1>3 DEF CheckFails, Recycles
  <2>2. ConsumerMove
    BY Zenon, <1>a, <1>b, <1>3, <2>1 DEF CheckFails, ConsumerMove
  <2> QED BY Zenon, <1>0, <2>2, ConsumerMoves
<1>4. CASE NextPacket
  <2>1. ready' = ready
    BY Zenon, <1>4 DEF NextPacket, Recycles, Drops, buffers
  <2>2. ConsumerMove
    BY Zenon, <1>a, <1>b, <1>4, <2>1 DEF NextPacket, ConsumerMove, Transport
  <2> QED BY Zenon, <1>0, <2>2, ConsumerMoves
<1>5. CASE SelectPacket \/ CallHandler
  <2>1. /\ cpc \in {"select", "call"} /\ cpc' \in {"call", "check", "next"} /\ pkt' # << >>
        /\ UNCHANGED <<ready, vi, result>>
        /\ transport' \in Transport /\ segment' \in BOOLEAN
    <3>1. CASE SelectPacket
      <4>1. pkt' # << >>
        BY Zenon, <3>1 DEF SelectPacket
      <4> QED BY Zenon, <1>a, <3>1, <4>1 DEF SelectPacket, Transport, buffers
    <3>2. CASE CallHandler
      BY Zenon, <1>a, <3>2 DEF CallHandler, buffers
    <3> QED BY Zenon, <1>5, <3>1, <3>2
  <2>2. \/ /\ overwritten' = (overwritten \/ err = "loop")
           /\ \/ err' = "nil" /\ handlerErr' = handlerErr
              \/ err' = "unpack" /\ cpc' = "next" /\ handlerErr' = handlerErr
              \/ err' = "handler" /\ handlerErr' = "handler"
              \/ err' = "EOF" /\ handlerErr' = "EOF"
        \/ cpc' = "next" /\ UNCHANGED <<err, overwritten, handlerErr>>
    <3>1. CASE SelectPacket
      BY Zenon, <3>1 DEF SelectPacket, Assign
    <3>2. CASE CallHandler
      <4>1. PICK e \in Outcomes : Assign(e) /\ handlerErr' = IF e = "nil" THEN handlerErr ELSE e
        BY Zenon, <3>2 DEF CallHandler
      <4>2. e \in {"nil", "handler", "EOF"}
        BY Zenon, <4>1, CaptureAssumption
      <4> QED BY Zenon, <4>1, <4>2 DEF Assign
    <3> QED BY Zenon, <1>5, <3>1, <3>2
  <2>3. overwritten' \in BOOLEAN
    BY Zenon, <1>0, <2>2 DEF ControlOK
  <2>4. ControlOK'
    BY SMTT(20), <1>0, <1>b, <2>1, <2>2, <2>3 DEF ControlOK, Errors
  <2>5. PlacesInv'
    BY Zenon, <1>0, <1>b, <2>1 DEF PlacesInv
  <2>6. ErrInv'
    BY Zenon, <1>0, <1>b, <2>1, <2>2 DEF ErrInv
  <2>7. ReturnInv'
    BY Zenon, <1>0, <1>b, <2>1 DEF ReturnInv, ControlOK, NilMeansStopped
  <2>8. FreedInv'
    BY Zenon, <1>0, <1>b, <2>1, <2>2 DEF FreedInv, ReleasedAfterUse
  <2> QED BY Zenon, <2>4, <2>5, <2>6, <2>7, <2>8 DEF ControlInv
<1>6. CASE ReturnsEarly \/ Return
  <2>1. /\ cpc' = "returned"
        /\ UNCHANGED <<ready, pkt, transport, segment, handlerErr, err, overwritten>>
        /\ \/ cpc = "eof" /\ result' = "nil" /\ vi' = "freed"
           \/ cpc = "failed" /\ result' = err /\ vi' = "freed"
           \/ cpc = "wait" /\ epc = "exited" /\ result' = err /\ vi' = vi
    BY Zenon, <1>6 DEF ReturnsEarly, Return, buffers
  <2>2. ControlOK'
    BY <1>0, <1>b, <2>1 DEF ControlOK, Errors
  <2>3. PlacesInv'
    BY Zenon, <1>0, <1>b, <2>1 DEF PlacesInv
  <2>4. ErrInv'
    BY Zenon, <1>0, <1>b, <2>1 DEF ErrInv
  <2>5. ReturnInv'
    <3>1. result' = "nil" => ctxDone \/ handlerErr = "EOF" \/ overwritten
      BY Zenon, <1>0, <2>1 DEF ReturnInv, ErrInv, ControlOK
    <3> QED BY Zenon, <1>b, <2>1, <3>1 DEF ReturnInv, NilMeansStopped
  <2>6. FreedInv'
    BY Zenon, <1>0, <1>b, <2>1 DEF FreedInv, ReturnInv, ReleasedAfterUse
  <2> QED BY Zenon, <2>2, <2>3, <2>4, <2>5, <2>6 DEF ControlInv
<1> QED BY Zenon, <1>1, <1>2, <1>3, <1>4, <1>5, <1>6 DEF Consume

-----------------------------------------------------------------------------
(* Queues: what appending and removing an entry does.                      *)

ST == INSTANCE SequenceTheorems

(* An event is appended.                                                   *)
LEMMA AppendPlace ==
  ASSUME NEW s \in Seq(Ev), Once(s), NEW b \in Ev, b \notin Bufs(s)
  PROVE  LET t == Append(s, b)
         IN  Bufs(t) = Bufs(s) \cup ({b} \ {NoBuf}) /\ Once(t) /\ Ordered(s, t)
<1> DEFINE t == Append(s, b)
<1> DEFINE n == Len(s)
<1>1. /\ n \in Nat /\ DOMAIN s = 1 .. n /\ DOMAIN t = 1 .. n + 1
      /\ \A i \in 1 .. n : t[i] = s[i]
      /\ t[n + 1] = b
  BY Zenon, SMTT(20)
<1> HIDE DEF t, n
<1>2. Bufs(t) = Bufs(s) \cup ({b} \ {NoBuf})
  <2>1. ASSUME NEW x \in Bufs(t) PROVE x \in Bufs(s) \cup ({b} \ {NoBuf})
    <3>1. PICK i \in 1 .. n + 1 : x = t[i] /\ x # NoBuf
      BY Zenon, <2>1, <1>1 DEF Bufs
    <3>2. i = n + 1 \/ i \in 1 .. n
      BY <1>1
    <3> QED BY Zenon, <3>1, <3>2, <1>1 DEF Bufs
  <2>2. ASSUME NEW x \in Bufs(s) PROVE x \in Bufs(t)
    <3>1. PICK i \in 1 .. n : x = s[i] /\ x # NoBuf
      BY Zenon, <2>2, <1>1 DEF Bufs
    <3>2. i \in 1 .. n + 1
      BY <1>1
    <3> QED BY Zenon, <3>1, <3>2, <1>1 DEF Bufs
  <2>3. b # NoBuf => b \in Bufs(t)
    <3>1. n + 1 \in 1 .. n + 1
      BY <1>1
    <3> QED BY Zenon, <3>1, <1>1 DEF Bufs
  <2> QED BY Zenon, <2>1, <2>2, <2>3
<1>3. ASSUME NEW i \in 1 .. n, s[i] # NoBuf PROVE s[i] # b
  BY Zenon, <1>1, <1>3 DEF Bufs
<1>4. Once(t)
  <2> SUFFICES ASSUME NEW i \in 1 .. n + 1, NEW j \in 1 .. n + 1, t[i] = t[j], t[i] # NoBuf
               PROVE  i = j
    BY Zenon, <1>1 DEF Once
  <2>1. (i = n + 1 \/ i \in 1 .. n) /\ (j = n + 1 \/ j \in 1 .. n)
    BY SMTT(20), <1>1
  <2> QED BY Zenon, <2>1, <1>1, <1>3 DEF Once
<1>5. Ordered(s, t)
  <2> SUFFICES ASSUME NEW i \in 1 .. n, NEW j \in 1 .. n,
                      NEW k \in 1 .. n + 1, NEW l \in 1 .. n + 1,
                      i < j, s[i] # NoBuf, s[j] # NoBuf, t[k] = s[i], t[l] = s[j]
               PROVE  k < l
    BY Zenon, <1>1 DEF Ordered
  <2>1. (k = n + 1 \/ k \in 1 .. n) /\ (l = n + 1 \/ l \in 1 .. n)
    BY SMTT(20), <1>1
  <2>2. k \in 1 .. n /\ l \in 1 .. n
    BY Zenon, <2>1, <1>1, <1>3
  <2>3. k = i /\ l = j
    BY Zenon, <2>2, <1>1 DEF Once
  <2> QED BY Zenon, <2>3
<1> QED BY Zenon, <1>2, <1>4, <1>5 DEF t

(* An entry is removed.                                                    *)
LEMMA RemovePlace ==
  ASSUME NEW s \in Seq(Ev), Once(s), NEW k \in 1 .. Len(s)
  PROVE  LET t == Without(s, k)
         IN  Bufs(t) = Bufs(s) \ {s[k]} /\ Once(t) /\ Ordered(s, t)
<1> DEFINE t == Without(s, k)
<1> DEFINE n == Len(s)
<1> DEFINE up(i) == IF i < k THEN i ELSE i + 1
<1>1. /\ n \in Nat /\ DOMAIN s = 1 .. n /\ DOMAIN t = 1 .. n - 1 /\ k \in 1 .. n
      /\ \A i \in 1 .. n - 1 : t[i] = s[up(i)] /\ up(i) \in 1 .. n /\ up(i) # k
  BY DEF Without
<1>2. \A i, j \in 1 .. n - 1 : (up(i) = up(j) => i = j) /\ (up(i) < up(j) => i < j)
  BY <1>1
<1>3. \A i \in 1 .. n : i # k => \E m \in 1 .. n - 1 : up(m) = i
  <2> SUFFICES ASSUME NEW i \in 1 .. n, i # k PROVE \E m \in 1 .. n - 1 : up(m) = i
    BY Zenon
  <2>1. CASE i < k
    <3>1. i \in 1 .. n - 1 /\ up(i) = i
      BY <2>1, <1>1
    <3> QED BY Zenon, <3>1
  <2>2. CASE i > k
    <3>1. i - 1 \in 1 .. n - 1 /\ up(i - 1) = i
      BY <2>2, <1>1
    <3> QED BY Zenon, <3>1
  <2> QED BY <2>1, <2>2, <1>1
<1> HIDE DEF t, n, up
<1>4. Bufs(t) = Bufs(s) \ {s[k]}
  <2>1. ASSUME NEW x \in Bufs(t) PROVE x \in Bufs(s) \ {s[k]}
    <3>1. PICK i \in 1 .. n - 1 : x = t[i] /\ x # NoBuf
      BY Zenon, <2>1, <1>1 DEF Bufs
    <3>2. x = s[up(i)] /\ up(i) \in 1 .. n /\ up(i) # k
      BY Zenon, <3>1, <1>1
    <3>3. x # s[k]
      BY Zenon, <3>1, <3>2, <1>1 DEF Once
    <3> QED BY Zenon, <3>1, <3>2, <3>3, <1>1 DEF Bufs
  <2>2. ASSUME NEW x \in Bufs(s), x # s[k] PROVE x \in Bufs(t)
    <3>1. PICK i \in 1 .. n : x = s[i] /\ x # NoBuf
      BY Zenon, <2>2, <1>1 DEF Bufs
    <3>2. PICK m \in 1 .. n - 1 : up(m) = i
      BY Zenon, <3>1, <2>2, <1>3
    <3> QED BY Zenon, <3>1, <3>2, <1>1 DEF Bufs
  <2> QED BY Zenon, <2>1, <2>2
<1>5. Once(t)
  <2> SUFFICES ASSUME NEW i \in 1 .. n - 1, NEW j \in 1 .. n - 1, t[i] = t[j], t[i] # NoBuf
               PROVE  i = j
    BY Zenon, <1>1 DEF Once
  <2>1. up(i) = up(j)
    BY Zenon, <1>1 DEF Once
  <2> QED BY Zenon, <2>1, <1>2
<1>6. Ordered(s, t)
  <2> SUFFICES ASSUME NEW i \in 1 .. n, NEW j \in 1 .. n,
                      NEW a \in 1 .. n - 1, NEW b \in 1 .. n - 1,
                      i < j, s[i] # NoBuf, s[j] # NoBuf, t[a] = s[i], t[b] = s[j]
               PROVE  a < b
    BY Zenon, <1>1 DEF Ordered
  <2>1. up(a) = i /\ up(b) = j
    BY Zenon, <1>1 DEF Once
  <2> QED BY Zenon, <2>1, <1>2
<1> QED BY Zenon, <1>4, <1>5, <1>6 DEF t

(* Where the entry h stands behind a.                                      *)
LEMMA RemoveMiddle ==
  ASSUME NEW a \in Seq(Ev), NEW h \in Ev, NEW b \in Seq(Ev)
  PROVE  LET s == a \o <<h>> \o b
             k == Len(a) + 1
         IN  /\ s \in Seq(Ev) /\ k \in 1 .. Len(s) /\ s[k] = h
             /\ Without(s, k) = a \o b
<1> DEFINE s == a \o <<h>> \o b
<1> DEFINE m == Len(a)
<1> DEFINE p == a \o <<h>>
<1> DEFINE n == Len(b)
<1>1. /\ m \in Nat /\ n \in Nat /\ p \in Seq(Ev) /\ Len(p) = m + 1 /\ p[m + 1] = h
      /\ \A i \in 1 .. m : p[i] = a[i]
  OBVIOUS
<1>2. /\ s \in Seq(Ev) /\ Len(s) = m + 1 + n
      /\ \A i \in 1 .. m + 1 : s[i] = p[i]
      /\ \A i \in m + 2 .. m + 1 + n : s[i] = b[i - (m + 1)]
  <2> HIDE DEF p
  <2>1. /\ p \o b \in Seq(Ev) /\ Len(p \o b) = Len(p) + Len(b)
        /\ \A i \in 1 .. Len(p) + Len(b) :
             (p \o b)[i] = IF i <= Len(p) THEN p[i] ELSE b[i - Len(p)]
    BY Zenon, <1>1, ST!ConcatProperties
  <2>2. p \o b = s
    BY Zenon DEF p
  <2> DEFINE q == p \o b
  <2> HIDE DEF q, n, m, s
  <2>3. /\ q \in Seq(Ev) /\ Len(q) = m + 1 + n
        /\ \A i \in 1 .. m + 1 + n : q[i] = IF i <= m + 1 THEN p[i] ELSE b[i - (m + 1)]
    BY Zenon, <1>1, <2>1 DEF q, n
  <2>4. /\ \A i \in 1 .. m + 1 : q[i] = p[i]
        /\ \A i \in m + 2 .. m + 1 + n : q[i] = b[i - (m + 1)]
    BY <1>1, <2>3
  <2> QED BY Zenon, <2>2, <2>3, <2>4 DEF q
<1>3. /\ a \o b \in Seq(Ev) /\ Len(a \o b) = m + n
      /\ \A i \in 1 .. m : (a \o b)[i] = a[i]
      /\ \A i \in m + 1 .. m + n : (a \o b)[i] = b[i - m]
  BY ST!ConcatProperties
<1> DEFINE w == Without(s, m + 1)
<1> DEFINE c == a \o b
<1> HIDE DEF s, p, m, n
<1>4. /\ DOMAIN w = 1 .. m + n
      /\ w = [i \in 1 .. m + n |-> w[i]]
      /\ \A i \in 1 .. m + n : w[i] = IF i < m + 1 THEN s[i] ELSE s[i + 1]
  BY SMTT(20), <1>1, <1>2 DEF Without
<1> HIDE DEF w, c
<1>5. \A i \in 1 .. m + n : w[i] = c[i]
  <2> TAKE i \in 1 .. m + n
  <2>1. CASE i \in 1 .. m
    BY SMTT(20), <2>1, <1>1, <1>2, <1>3, <1>4 DEF c
  <2>2. CASE i \in m + 1 .. m + n
    <3>1. i + 1 \in m + 2 .. m + 1 + n /\ (i + 1) - (m + 1) = i - m /\ ~ (i < m + 1)
      BY <2>2, <1>1
    <3>2. w[i] = s[i + 1]
      BY Zenon, <3>1, <1>4
    <3>3. s[i + 1] = b[(i + 1) - (m + 1)]
      BY Zenon, <3>1, <1>2
    <3>4. c[i] = b[i - m]
      BY Zenon, <2>2, <1>3 DEF c
    <3> QED BY Zenon, <3>1, <3>2, <3>3, <3>4
  <2>3. i \in 1 .. m \/ i \in m + 1 .. m + n
    BY <1>1
  <2> QED BY Zenon, <2>1, <2>2, <2>3
<1>6. w = c
  <2>1. c \in Seq(Ev) /\ Len(c) = m + n /\ m + n \in Nat
    BY <1>1, <1>3 DEF c
  <2>2. c \in [1 .. m + n -> Ev]
    BY <2>1
  <2>3. c = [i \in 1 .. m + n |-> c[i]]
    BY Zenon, <2>2
  <2> QED BY Zenon, <2>3, <1>4, <1>5
<1>7. m + 1 \in 1 .. Len(s) /\ s[m + 1] = h
  BY <1>1, <1>2
<1> QED BY Zenon, <1>2, <1>6, <1>7 DEF s, m, w, c

(* The first n entries of a queue, then the others.                        *)
LEMMA SplitQueue ==
  ASSUME NEW s \in Seq(Ev), NEW n \in 0 .. Len(s)
  PROVE  /\ SubSeq(s, 1, n) \in Seq(Ev) /\ Len(SubSeq(s, 1, n)) = n
         /\ SubSeq(s, n + 1, Len(s)) \in Seq(Ev)
         /\ SubSeq(s, 1, n) \o SubSeq(s, n + 1, Len(s)) = s
<1>1. Len(s) \in Nat /\ n \in Int /\ n + 1 \in Int /\ \A i \in 1 .. Len(s) : s[i] \in Ev
  OBVIOUS
<1>2. \A i \in 1 .. n : s[i] \in Ev
  BY <1>1
<1>3. \A i \in n + 1 .. Len(s) : s[i] \in Ev
  BY <1>1
<1>4. SubSeq(s, 1, n) \in Seq(Ev) /\ Len(SubSeq(s, 1, n)) = IF 1 <= n THEN n - 1 + 1 ELSE 0
  BY <1>1, <1>2, ST!SubSeqProperties
<1>5. SubSeq(s, n + 1, Len(s)) \in Seq(Ev)
  BY <1>1, <1>3, ST!SubSeqProperties
<1>6. 1 \in 1 .. Len(s) + 1 /\ n \in 1 - 1 .. Len(s) /\ Len(s) \in n .. Len(s)
  BY <1>1
<1>7. SubSeq(s, 1, n) \o SubSeq(s, n + 1, Len(s)) = SubSeq(s, 1, Len(s))
  BY Zenon, <1>6, ST!ConcatAdjacentSubSeq
<1>8. SubSeq(s, 1, Len(s)) = s
  BY Zenon, ST!SubSeqFull
<1> DEFINE a == SubSeq(s, 1, n)
<1> HIDE DEF a
<1>9. a \in Seq(Ev) /\ Len(a) = n
  BY <1>1, <1>4 DEF a
<1> QED BY <1>5, <1>7, <1>8, <1>9, Zenon DEF a

(* A queue is its head, then its tail.                                     *)
LEMMA HeadFirst ==
  ASSUME NEW s \in Seq(Ev), s # << >>
  PROVE  /\ Head(s) \in Ev /\ Tail(s) \in Seq(Ev) /\ <<Head(s)>> \in Seq(Ev)
         /\ Len(Tail(s)) = Len(s) - 1 /\ Len(s) \in Nat
         /\ <<Head(s)>> \o Tail(s) = s
<1>1. /\ Head(s) \in Ev /\ Tail(s) \in Seq(Ev)
      /\ Len(Tail(s)) = Len(s) - 1
      /\ \A i \in 1 .. Len(Tail(s)) : Tail(s)[i] = s[i + 1]
      /\ Len(s) \in Nat \ {0} /\ s[1] = Head(s)
  BY ST!HeadTailProperties
<1> DEFINE h == <<Head(s)>>
<1> DEFINE t == Tail(s)
<1>2. h \in Seq(Ev) /\ Len(h) = 1 /\ h[1] = s[1]
  BY <1>1
<1> HIDE DEF h, t
<1>3. /\ h \o t \in Seq(Ev) /\ Len(h \o t) = Len(h) + Len(t)
      /\ \A i \in 1 .. Len(h) + Len(t) :
           (h \o t)[i] = IF i <= Len(h) THEN h[i] ELSE t[i - Len(h)]
  BY <1>1, <1>2, ST!ConcatProperties DEF t
<1> DEFINE q == h \o t
<1> HIDE DEF q
<1>4. q \in Seq(Ev) /\ Len(q) = Len(s)
  BY <1>1, <1>2, <1>3 DEF q, t
<1>5. \A i \in 1 .. Len(s) : q[i] = s[i]
  <2> TAKE i \in 1 .. Len(s)
  <2>1. CASE i = 1
    BY <2>1, <1>1, <1>2, <1>3 DEF q, t
  <2>2. CASE i # 1
    <3>1. i - 1 \in 1 .. Len(t) /\ (i - 1) + 1 = i /\ ~ (i <= 1) /\ i \in 1 .. Len(h) + Len(t)
      BY <2>2, <1>1, <1>2 DEF t
    <3>2. q[i] = t[i - 1]
      BY Zenon, <3>1, <1>2, <1>3 DEF q
    <3>3. t[i - 1] = s[(i - 1) + 1]
      BY Zenon, <3>1, <1>1 DEF t
    <3> QED BY Zenon, <3>1, <3>2, <3>3
  <2> QED BY Zenon, <2>1, <2>2
<1>6. q = s
  BY Zenon, <1>4, <1>5, ST!SeqEqual
<1> QED BY Zenon, <1>1, <1>2, <1>6 DEF q, h, t

-----------------------------------------------------------------------------
(* The queue in its five places: at the handler, in the channel, at the    *)
(* send, in the polled batch and in the event queue.                       *)

Cat(x, y) == x \o y

Places(p, c, s, b, e) == Cat(Cat(Cat(Cat(p, c), s), b), e)

(* Concatenation of queues.                                                *)
LEMMA CatFacts ==
  /\ \A x, y \in Seq(Ev) : Cat(x, y) \in Seq(Ev)
  /\ \A x, y, z \in Seq(Ev) : Cat(Cat(x, y), z) = Cat(x, Cat(y, z))
  /\ << >> \in Seq(Ev)
  /\ \A x \in Seq(Ev) : Cat(x, << >>) = x /\ Cat(<< >>, x) = x
  /\ \A h \in Ev : <<h>> \in Seq(Ev)
  /\ \A x \in Seq(Ev), h \in Ev : Append(x, h) = Cat(x, <<h>>)
<1>1. ASSUME NEW x \in Seq(Ev), NEW y \in Seq(Ev) PROVE x \o y \in Seq(Ev)
  BY Zenon, ST!ConcatProperties
<1>2. ASSUME NEW x \in Seq(Ev), NEW y \in Seq(Ev), NEW z \in Seq(Ev)
      PROVE  (x \o y) \o z = x \o (y \o z)
  BY ST!ConcatAssociative
<1>3. ASSUME NEW x \in Seq(Ev) PROVE x \o << >> = x /\ << >> \o x = x
  BY Zenon, ST!ConcatEmptySeq
<1>4. ASSUME NEW x \in Seq(Ev), NEW h \in Ev PROVE Append(x, h) = x \o <<h>>
  BY Zenon, ST!AppendIsConcat
<1>5. << >> \in Seq(Ev) /\ \A h \in Ev : <<h>> \in Seq(Ev)
  OBVIOUS
<1> QED BY <1>1, <1>2, <1>3, <1>4, <1>5, Zenon DEF Cat

(* Heads, splits and removals in terms of Cat.                             *)
LEMMA CatParts ==
  /\ \A s \in Seq(Ev) : s # << >> =>
       /\ Head(s) \in Ev /\ Tail(s) \in Seq(Ev) /\ Cat(<<Head(s)>>, Tail(s)) = s
  /\ \A s \in Seq(Ev) : \A n \in 0 .. Len(s) :
       /\ SubSeq(s, 1, n) \in Seq(Ev) /\ SubSeq(s, n + 1, Len(s)) \in Seq(Ev)
       /\ Cat(SubSeq(s, 1, n), SubSeq(s, n + 1, Len(s))) = s
  /\ \A a, b \in Seq(Ev), h \in Ev : \E k \in 1 .. Len(Cat(Cat(a, <<h>>), b)) :
       /\ Cat(Cat(a, <<h>>), b)[k] = h
       /\ Without(Cat(Cat(a, <<h>>), b), k) = Cat(a, b)
<1>1. ASSUME NEW s \in Seq(Ev), s # << >>
      PROVE  Head(s) \in Ev /\ Tail(s) \in Seq(Ev) /\ Cat(<<Head(s)>>, Tail(s)) = s
  BY <1>1, HeadFirst, Zenon DEF Cat
<1>2. ASSUME NEW s \in Seq(Ev), NEW n \in 0 .. Len(s)
      PROVE  /\ SubSeq(s, 1, n) \in Seq(Ev) /\ SubSeq(s, n + 1, Len(s)) \in Seq(Ev)
             /\ Cat(SubSeq(s, 1, n), SubSeq(s, n + 1, Len(s))) = s
  BY <1>2, SplitQueue, Zenon DEF Cat
<1>3. ASSUME NEW a \in Seq(Ev), NEW b \in Seq(Ev), NEW h \in Ev
      PROVE  \E k \in 1 .. Len(Cat(Cat(a, <<h>>), b)) :
               /\ Cat(Cat(a, <<h>>), b)[k] = h
               /\ Without(Cat(Cat(a, <<h>>), b), k) = Cat(a, b)
  <2> DEFINE k == Len(a) + 1
  <2>1. /\ k \in 1 .. Len(Cat(Cat(a, <<h>>), b)) /\ Cat(Cat(a, <<h>>), b)[k] = h
        /\ Without(Cat(Cat(a, <<h>>), b), k) = Cat(a, b)
    BY RemoveMiddle, Zenon DEF Cat
  <2> QED BY Zenon, <2>1
<1> QED BY <1>1, <1>2, <1>3, Zenon

(* The places together are a queue, and how they group does not matter.    *)
LEMMA PlacesType ==
  ASSUME NEW p \in Seq(Ev), NEW c \in Seq(Ev), NEW s \in Seq(Ev), NEW b \in Seq(Ev),
         NEW e \in Seq(Ev)
  PROVE  /\ Places(p, c, s, b, e) \in Seq(Ev)
         /\ Places(p, c, s, b, e) = Cat(p, Cat(c, Cat(s, Cat(b, e))))
<1>1. Cat(p, c) \in Seq(Ev) /\ Cat(b, e) \in Seq(Ev)
  BY Zenon, CatFacts
<1>2. Cat(s, Cat(b, e)) \in Seq(Ev) /\ Cat(Cat(p, c), s) \in Seq(Ev)
  BY Zenon, <1>1, CatFacts
<1>3. Cat(Cat(Cat(p, c), s), b) \in Seq(Ev)
  BY Zenon, <1>2, CatFacts
<1>4. Places(p, c, s, b, e) \in Seq(Ev)
  BY Zenon, <1>3, CatFacts DEF Places
<1>5. Places(p, c, s, b, e) = Cat(Cat(Cat(p, c), s), Cat(b, e))
  BY <1>2, CatFacts DEF Places
<1>6. Cat(Cat(Cat(p, c), s), Cat(b, e)) = Cat(Cat(p, c), Cat(s, Cat(b, e)))
  BY <1>1, CatFacts
<1>7. Cat(Cat(p, c), Cat(s, Cat(b, e))) = Cat(p, Cat(c, Cat(s, Cat(b, e))))
  BY <1>2, CatFacts
<1> QED BY Zenon, <1>4, <1>5, <1>6, <1>7

(* An event is written: the queue grows at its end.                        *)
LEMMA EventAppends ==
  ASSUME NEW p \in Seq(Ev), NEW c \in Seq(Ev), NEW s \in Seq(Ev), NEW b \in Seq(Ev),
         NEW e \in Seq(Ev), NEW x \in Ev, NEW e2, Adds(e, e2, x)
  PROVE  Adds(Places(p, c, s, b, e), Places(p, c, s, b, e2), x)
<1> DEFINE f == Cat(Cat(Cat(p, c), s), b)
<1>1. Cat(p, c) \in Seq(Ev)
  BY Zenon, CatFacts
<1>2. Cat(Cat(p, c), s) \in Seq(Ev)
  BY Zenon, <1>1, CatFacts
<1>3. f \in Seq(Ev)
  BY Zenon, <1>2, CatFacts
<1> HIDE DEF f
<1>4. Append(Cat(f, e), x) = Cat(Cat(f, e), <<x>>) /\ Append(e, x) = Cat(e, <<x>>)
  BY <1>3, CatFacts, Zenon
<1>5. Cat(Cat(f, e), <<x>>) = Cat(f, Cat(e, <<x>>))
  <2> DEFINE w == <<x>>
  <2>1. w \in Seq(Ev)
    BY CatFacts, Zenon
  <2> HIDE DEF w
  <2>2. Cat(Cat(f, e), w) = Cat(f, Cat(e, w))
    BY SMTT(20), <1>3, <2>1, CatFacts
  <2> QED BY Zenon, <2>2 DEF w
<1>6. \A y : Places(p, c, s, b, y) = Cat(f, y)
  BY Zenon DEF Places, f
<1>7. Append(Cat(f, e), x) = Cat(f, Append(e, x))
  BY <1>4, <1>5, Zenon
<1> QED BY <1>6, <1>7, Zenon DEF Adds

(* ef_event_poll moves the first events of the queue to the batch.         *)
LEMMA PollMoves ==
  ASSUME NEW p \in Seq(Ev), NEW c \in Seq(Ev), NEW s \in Seq(Ev), NEW e \in Seq(Ev),
         NEW n \in 0 .. Len(e)
  PROVE  Places(p, c, s, SubSeq(e, 1, n), SubSeq(e, n + 1, Len(e))) = Places(p, c, s, << >>, e)
<1> DEFINE a == SubSeq(e, 1, n)
<1> DEFINE z == SubSeq(e, n + 1, Len(e))
<1>1. a \in Seq(Ev) /\ z \in Seq(Ev) /\ Cat(a, z) = e
  BY CatParts, Zenon
<1>2. << >> \in Seq(Ev) /\ Cat(<< >>, e) = e
  BY CatFacts, Zenon
<1> HIDE DEF a, z
<1>3. Places(p, c, s, a, z) = Cat(p, Cat(c, Cat(s, Cat(a, z))))
  BY <1>1, PlacesType
<1>4. Places(p, c, s, << >>, e) = Cat(p, Cat(c, Cat(s, Cat(<< >>, e))))
  <2> DEFINE o == << >>
  <2>1. o \in Seq(Ev)
    BY Zenon, <1>2
  <2> HIDE DEF o
  <2>2. Places(p, c, s, o, e) = Cat(p, Cat(c, Cat(s, Cat(o, e))))
    BY <1>1, <2>1, PlacesType
  <2> QED BY Zenon, <2>2 DEF o
<1>5. Places(p, c, s, a, z) = Places(p, c, s, << >>, e)
  BY <1>1, <1>2, <1>3, <1>4, Zenon
<1> QED BY Zenon, <1>5 DEF a, z

(* A packet of the batch is ready to be sent.                              *)
LEMMA PacketMoves ==
  ASSUME NEW p \in Seq(Ev), NEW c \in Seq(Ev), NEW b \in Seq(Ev), NEW e \in Seq(Ev),
         b # << >>
  PROVE  Places(p, c, <<Head(b)>>, Tail(b), e) = Places(p, c, << >>, b, e)
<1> DEFINE h == <<Head(b)>>
<1> DEFINE t == Tail(b)
<1>1. h \in Seq(Ev) /\ t \in Seq(Ev) /\ Cat(h, t) = b
  BY CatParts, CatFacts, Zenon
<1> HIDE DEF h, t
<1>2. Cat(b, e) \in Seq(Ev) /\ << >> \in Seq(Ev)
  BY CatFacts, Zenon
<1>3. Cat(<< >>, Cat(b, e)) = Cat(b, e)
  BY <1>2, CatFacts, Zenon
<1>4. Cat(Cat(h, t), e) = Cat(h, Cat(t, e))
  BY <1>1, CatFacts
<1>5. Places(p, c, h, t, e) = Cat(p, Cat(c, Cat(h, Cat(t, e))))
  BY <1>1, PlacesType
<1>6. Places(p, c, << >>, b, e) = Cat(p, Cat(c, Cat(<< >>, Cat(b, e))))
  <2> DEFINE o == << >>
  <2>1. o \in Seq(Ev)
    BY Zenon, <1>2
  <2> HIDE DEF o
  <2>2. Places(p, c, o, b, e) = Cat(p, Cat(c, Cat(o, Cat(b, e))))
    BY <1>1, <2>1, PlacesType
  <2> QED BY Zenon, <2>2 DEF o
<1>7. Places(p, c, h, t, e) = Places(p, c, << >>, b, e)
  BY <1>1, <1>3, <1>4, <1>5, <1>6, Zenon
<1> QED BY Zenon, <1>7 DEF h, t

(* The packet is sent to the channel.                                      *)
LEMMA SendMoves ==
  ASSUME NEW p \in Seq(Ev), NEW c \in Seq(Ev), NEW s \in Seq(Ev), NEW b \in Seq(Ev),
         NEW e \in Seq(Ev)
  PROVE  Places(p, Cat(c, s), << >>, b, e) = Places(p, c, s, b, e)
<1>1. Cat(b, e) \in Seq(Ev) /\ << >> \in Seq(Ev) /\ Cat(c, s) \in Seq(Ev)
  BY CatFacts, Zenon
<1>2. Cat(<< >>, Cat(b, e)) = Cat(b, e)
  BY <1>1, CatFacts, Zenon
<1>3. Cat(Cat(c, s), Cat(b, e)) = Cat(c, Cat(s, Cat(b, e)))
  BY SMTT(20), <1>1, CatFacts
<1>4. Places(p, Cat(c, s), << >>, b, e) = Cat(p, Cat(Cat(c, s), Cat(<< >>, Cat(b, e))))
  <2> DEFINE o == << >>
  <2>1. o \in Seq(Ev)
    BY Zenon, <1>1
  <2> HIDE DEF o
  <2>2. Places(p, Cat(c, s), o, b, e) = Cat(p, Cat(Cat(c, s), Cat(o, Cat(b, e))))
    BY SMTT(20), <1>1, <2>1, PlacesType
  <2> QED BY Zenon, <2>2 DEF o
<1>5. Places(p, c, s, b, e) = Cat(p, Cat(c, Cat(s, Cat(b, e))))
  BY PlacesType
<1> QED BY <1>2, <1>3, <1>4, <1>5, Zenon

(* StartCapture receives a packet from the channel.                        *)
LEMMA ReceiveMoves ==
  ASSUME NEW c \in Seq(Ev), NEW s \in Seq(Ev), NEW b \in Seq(Ev), NEW e \in Seq(Ev),
         c # << >>
  PROVE  Places(<<Head(c)>>, Tail(c), s, b, e) = Places(<< >>, c, s, b, e)
<1>1. Cat(<<Head(c)>>, Tail(c)) = c /\ Cat(<< >>, c) = c
  BY CatParts, CatFacts, Zenon
<1> QED BY <1>1, Zenon DEF Places

(* An event of the batch is done with: the queue loses that entry.         *)
LEMMA EventRemoves ==
  ASSUME NEW p \in Seq(Ev), NEW c \in Seq(Ev), NEW s \in Seq(Ev), NEW b \in Seq(Ev),
         NEW e \in Seq(Ev), b # << >>
  PROVE  Removes(Places(p, c, s, b, e), Places(p, c, s, Tail(b), e), Head(b))
<1> DEFINE h == Head(b)
<1> DEFINE t == Tail(b)
<1> DEFINE a == Cat(Cat(p, c), s)
<1> DEFINE z == Cat(t, e)
<1>1. h \in Ev /\ <<h>> \in Seq(Ev) /\ t \in Seq(Ev) /\ Cat(<<h>>, t) = b
  BY CatParts, CatFacts, Zenon
<1> HIDE DEF h, t
<1>2. Cat(p, c) \in Seq(Ev)
  BY CatFacts, Zenon
<1>3. a \in Seq(Ev) /\ z \in Seq(Ev)
  BY <1>1, <1>2, CatFacts, Zenon
<1> HIDE DEF a
<1>4. Places(p, c, s, b, e) = Cat(Cat(a, Cat(<<h>>, t)), e)
  BY Zenon, <1>1 DEF Places, a
<1>5. Cat(a, Cat(<<h>>, t)) = Cat(Cat(a, <<h>>), t) /\ Cat(a, <<h>>) \in Seq(Ev)
  <2> DEFINE w == <<h>>
  <2>1. w \in Seq(Ev)
    BY Zenon, <1>1
  <2> HIDE DEF w
  <2>2. Cat(a, Cat(w, t)) = Cat(Cat(a, w), t) /\ Cat(a, w) \in Seq(Ev)
    BY <1>1, <1>3, <2>1, CatFacts
  <2> QED BY Zenon, <2>2 DEF w
<1>6. Cat(Cat(Cat(a, <<h>>), t), e) = Cat(Cat(a, <<h>>), z)
  BY SMTT(20), <1>1, <1>5, CatFacts
<1>7. Places(p, c, s, b, e) = Cat(Cat(a, <<h>>), z)
  BY <1>4, <1>5, <1>6, Zenon
<1>8. Places(p, c, s, t, e) = Cat(Cat(a, t), e)
  BY Zenon DEF Places, a
<1>9. Cat(Cat(a, t), e) = Cat(a, z)
  BY <1>1, <1>3, CatFacts
<1> DEFINE q == Cat(Cat(a, <<h>>), z)
<1> HIDE DEF z
<1>10. PICK k \in 1 .. Len(q) : q[k] = h /\ Without(q, k) = Cat(a, z)
  BY <1>1, <1>3, CatParts, Zenon
<1> HIDE DEF q
<1>11. Places(p, c, s, b, e) = q /\ Places(p, c, s, t, e) = Cat(a, z)
  BY <1>7, <1>8, <1>9, Zenon DEF q
<1>12. Places(p, c, s, b, e)[k] = h /\ Places(p, c, s, t, e) = Without(Places(p, c, s, b, e), k)
  BY <1>10, <1>11, Zenon
<1> QED BY <1>10, <1>11, <1>12, Zenon DEF h, t, Removes

(* The packet at the handler is done with.                                 *)
LEMMA HandlerRemoves ==
  ASSUME NEW h \in Ev, NEW c \in Seq(Ev), NEW s \in Seq(Ev), NEW b \in Seq(Ev),
         NEW e \in Seq(Ev)
  PROVE  Removes(Places(<<h>>, c, s, b, e), Places(<< >>, c, s, b, e), h)
<1> DEFINE z == Cat(c, Cat(s, Cat(b, e)))
<1> DEFINE q == Cat(Cat(<< >>, <<h>>), z)
<1>1. Cat(b, e) \in Seq(Ev) /\ <<h>> \in Seq(Ev) /\ << >> \in Seq(Ev)
  BY CatFacts, Zenon
<1>2. Cat(s, Cat(b, e)) \in Seq(Ev)
  BY <1>1, CatFacts, Zenon
<1>3. z \in Seq(Ev)
  BY <1>2, CatFacts, Zenon
<1>4. Places(<<h>>, c, s, b, e) = Cat(<<h>>, z) /\ Places(<< >>, c, s, b, e) = Cat(<< >>, z)
  <2> DEFINE o == << >>
  <2> DEFINE w == <<h>>
  <2>1. o \in Seq(Ev) /\ w \in Seq(Ev)
    BY Zenon, <1>1
  <2> HIDE DEF o, w
  <2>2. Places(w, c, s, b, e) = Cat(w, z) /\ Places(o, c, s, b, e) = Cat(o, z)
    BY <2>1, PlacesType
  <2> QED BY Zenon, <2>2 DEF o, w
<1> HIDE DEF z
<1>5. Cat(<< >>, <<h>>) = <<h>>
  BY <1>1, CatFacts, Zenon
<1>6. PICK k \in 1 .. Len(q) : q[k] = h /\ Without(q, k) = Cat(<< >>, z)
  BY <1>1, <1>3, CatParts, Zenon
<1>7. Places(<<h>>, c, s, b, e) = q
  BY <1>4, <1>5, Zenon
<1> HIDE DEF q
<1> QED BY <1>4, <1>6, <1>7, Zenon DEF Removes

-----------------------------------------------------------------------------
(* What a step does to the queue.                                          *)

\* The queue q, the application's buffers a and the dropped ones l become
\* q2, a2 and l2: nothing changes, an event is appended, or one is removed.
QueueStep(q, a, l, q2, a2, l2) ==
  \/ q2 = q /\ a2 = a /\ l2 = l
  \/ \E x \in Ev :
       /\ Adds(q, q2, x) /\ l2 = l
       /\ (x = NoBuf /\ a2 = a) \/ (x \in Buf \ a /\ a2 = a \cup {x})
  \/ \E x \in Ev :
       /\ Removes(q, q2, x)
       /\ \/ x = NoBuf /\ a2 = a /\ l2 = l
          \/ x # NoBuf /\ a2 = a \ {x} /\ l2 = l
          \/ x # NoBuf /\ a2 = a /\ l2 = l \cup {x}

(* Such a step keeps every buffer in one place, and the packets in order.  *)
LEMMA QueueStepPlaced ==
  ASSUME NEW q \in Seq(Ev), NEW a, NEW l, NEW q2, NEW a2, NEW l2,
         Placed(q, a, l), QueueStep(q, a, l, q2, a2, l2)
  PROVE  Placed(q2, a2, l2) /\ Ordered(q, q2)
<1>1. Once(q) /\ Bufs(q) \cup l = a /\ Bufs(q) \cap l = {}
  BY Zenon DEF Placed
<1>2. CASE q2 = q /\ a2 = a /\ l2 = l
  <2>1. Ordered(q, q)
    BY Zenon, <1>1 DEF Ordered, Once
  <2> QED BY Zenon, <1>2, <2>1
<1>3. ASSUME NEW x \in Ev, Adds(q, q2, x), l2 = l,
             (x = NoBuf /\ a2 = a) \/ (x \in Buf \ a /\ a2 = a \cup {x})
      PROVE  Placed(q2, a2, l2) /\ Ordered(q, q2)
  <2>1. x \notin Bufs(q) /\ x \notin Buf \cap l
    BY Zenon, <1>1, <1>3, CaptureAssumption DEF Bufs
  <2>2. Bufs(q2) = Bufs(q) \cup ({x} \ {NoBuf}) /\ Once(q2) /\ Ordered(q, q2)
    BY <1>1, <1>3, <2>1, AppendPlace, Zenon DEF Adds
  <2>3. Bufs(q2) \cup l2 = a2 /\ Bufs(q2) \cap l2 = {}
    BY <1>1, <1>3, <2>1, <2>2, CaptureAssumption
  <2> QED BY Zenon, <2>2, <2>3 DEF Placed
<1>4. ASSUME NEW x \in Ev, Removes(q, q2, x),
             \/ x = NoBuf /\ a2 = a /\ l2 = l
             \/ x # NoBuf /\ a2 = a \ {x} /\ l2 = l
             \/ x # NoBuf /\ a2 = a /\ l2 = l \cup {x}
      PROVE  Placed(q2, a2, l2) /\ Ordered(q, q2)
  <2>1. PICK k \in 1 .. Len(q) : q[k] = x /\ q2 = Without(q, k)
    BY Zenon, <1>4 DEF Removes
  <2>2. Bufs(q2) = Bufs(q) \ {x} /\ Once(q2) /\ Ordered(q, q2)
    BY <1>1, <2>1, RemovePlace, Zenon
  <2>3. (x # NoBuf => x \in Bufs(q)) /\ NoBuf \notin Bufs(q)
    BY SMTT(20), <2>1 DEF Bufs
  <2> DEFINE B == Bufs(q)
  <2> HIDE DEF B
  <2>4. /\ B \cup l = a /\ B \cap l = {} /\ Bufs(q2) = B \ {x}
        /\ (x # NoBuf => x \in B) /\ NoBuf \notin B
    BY <1>1, <2>2, <2>3 DEF B
  <2>5. Bufs(q2) \cup l2 = a2 /\ Bufs(q2) \cap l2 = {}
    BY <1>4, <2>4
  <2> QED BY Zenon, <2>2, <2>5 DEF Placed
<1> QED BY Zenon, <1>2, <1>3, <1>4 DEF QueueStep

(* The queue is made of queues.                                            *)
LEMMA PipelineType ==
  ASSUME DataOK
  PROVE  /\ pkt \in Seq(Ev) /\ chan \in Seq(Ev) /\ sending \in Seq(Ev)
         /\ batch \in Seq(Ev) /\ evq \in Seq(Ev)
         /\ Pipeline = Places(pkt, chan, sending, batch, evq)
         /\ Pipeline \in Seq(Ev)
<1>1. /\ pkt \in Seq(Ev) /\ chan \in Seq(Ev) /\ sending \in Seq(Ev)
      /\ batch \in Seq(Ev) /\ evq \in Seq(Ev)
  BY ST!SeqMonotonic DEF DataOK, Ev
<1>2. Pipeline = Places(pkt, chan, sending, batch, evq)
  BY Zenon DEF Pipeline, Places, Cat
<1> QED BY <1>1, <1>2, PlacesType

-----------------------------------------------------------------------------
(* Every step keeps the types of the queues, and is a step of the queue.   *)

QStep == QueueStep(Pipeline, app, lost, Pipeline', app', lost')

DataStep == DataOK' /\ QStep

(* The queue after a step.                                                 *)
LEMMA PipelineAfter == Pipeline' = Places(pkt', chan', sending', batch', evq')
BY Zenon DEF Pipeline, Places, Cat

(* A buffer is released or dropped.                                        *)
LEMMA Disposes ==
  ASSUME NEW b, Recycles(b) \/ Drops(b)
  PROVE  \/ app' = app \ {b} /\ lost' = lost
         \/ app' = app /\ lost' = lost \cup {b}
BY Zenon DEF Recycles, Ring!ReleasePktBuf, Drops, buffers

(* Steps of the control only.                                              *)
LEMMA QuietStep ==
  ASSUME Inv, UNCHANGED <<buffers, evq, batch, sending, chan, pkt, lost>>,
         polled' = polled \/ (polled' = 0 /\ batch = << >>)
  PROVE  DataStep
<1>1. DataOK'
  BY CaptureAssumption DEF Inv, DataOK
<1>2. Pipeline' = Pipeline /\ app' = app /\ lost' = lost
  BY Zenon DEF Pipeline, buffers
<1> QED BY <1>1, <1>2 DEF DataStep, QStep, QueueStep

(* CreateHandler fills the ring.                                           *)
LEMMA FillStep == Inv /\ Fill => DataStep
<1> SUFFICES ASSUME Inv, Fill PROVE DataStep
  BY Zenon
<1>1. UNCHANGED <<evq, batch, sending, chan, pkt, lost, polled>>
  BY Zenon DEF Fill, loop
<1>2. app' = app
  BY Zenon DEF Fill, Ring!Fill, Ring!Filled, Ring!Refill
<1>3. DataOK'
  BY <1>1 DEF Inv, DataOK
<1>4. Pipeline' = Pipeline
  BY <1>1 DEF Pipeline
<1> QED BY <1>1, <1>2, <1>3, <1>4 DEF DataStep, QStep, QueueStep

(* An event loop refills the ring.                                         *)
LEMMA RefillStep == Inv /\ Refill => DataStep
<1> SUFFICES ASSUME Inv, Refill PROVE DataStep
  BY Zenon
<1>1. UNCHANGED <<evq, batch, sending, chan, pkt, lost, polled>>
  BY Zenon DEF Refill, LoopStep, consumer
<1>2. app' = app
  BY DEF Refill, Ring!EventLoopRefill, Ring!NoRefill, Ring!Refill
<1>3. DataOK'
  BY Zenon, <1>1 DEF Inv, DataOK
<1>4. Pipeline' = Pipeline
  BY Zenon, <1>1 DEF Pipeline
<1> QED BY Zenon, <1>1, <1>2, <1>3, <1>4 DEF DataStep, QStep, QueueStep

(* The adapter fills a posted buffer.                                      *)
LEMMA ReceivesStep == Inv /\ NICReceives => DataStep
<1> SUFFICES ASSUME Inv, NICReceives PROVE DataStep
  BY Zenon
<1>1. PICK b \in ring : ring' = ring \ {b} /\ app' = app \cup {b} /\ evq' = Append(evq, b)
  BY Zenon DEF NICReceives
<1>2. /\ UNCHANGED <<batch, sending, chan, pkt, lost, polled>>
      /\ UNCHANGED <<ready, free, nFree>> /\ ready
  BY Zenon DEF NICReceives, loop, consumer
<1>3. b \in Buf /\ b \notin app /\ b \in Ev
  BY Zenon DEF Inv, BufInv, Ring!TypeOK, Ring!Conserved, Ev
<1>4. DataOK'
  BY <1>1, <1>2, <1>3, ST!AppendProperties DEF Inv, DataOK
<1>5. Adds(Pipeline, Pipeline', b)
  <2>1. Pipeline' = Places(pkt, chan, sending, batch, evq') /\ Adds(evq, evq', b)
    BY <1>1, <1>2, PipelineAfter DEF Adds
  <2>2. /\ pkt \in Seq(Ev) /\ chan \in Seq(Ev) /\ sending \in Seq(Ev)
        /\ batch \in Seq(Ev) /\ evq \in Seq(Ev)
        /\ Pipeline = Places(pkt, chan, sending, batch, evq)
    BY PipelineType DEF Inv
  <2> QED BY <2>1, <2>2, <1>3, EventAppends
<1>6. QStep
  BY <1>1, <1>2, <1>3, <1>5 DEF QStep, QueueStep
<1> QED BY <1>4, <1>6 DEF DataStep

(* The adapter reports a reset.                                            *)
LEMMA ResetsStep == Inv /\ NICResets => DataStep
<1> SUFFICES ASSUME Inv, NICResets PROVE DataStep
  BY Zenon
<1>1. /\ evq' = Append(evq, NoBuf) /\ UNCHANGED <<batch, sending, chan, pkt, lost, polled>>
      /\ UNCHANGED buffers
  BY Zenon DEF NICResets, loop, consumer
<1>2. NoBuf \in Ev /\ app' = app
  BY <1>1 DEF Ev, buffers
<1>3. DataOK'
  BY <1>1, <1>2, ST!AppendProperties DEF Inv, DataOK
<1>4. Adds(Pipeline, Pipeline', NoBuf)
  <2>1. Pipeline' = Places(pkt, chan, sending, batch, evq') /\ Adds(evq, evq', NoBuf)
    BY Zenon, <1>1, PipelineAfter DEF Adds
  <2>2. /\ pkt \in Seq(Ev) /\ chan \in Seq(Ev) /\ sending \in Seq(Ev)
        /\ batch \in Seq(Ev) /\ evq \in Seq(Ev)
        /\ Pipeline = Places(pkt, chan, sending, batch, evq)
    BY Zenon, PipelineType DEF Inv
  <2> QED BY <2>1, <2>2, <1>2, EventAppends
<1>5. QStep
  BY <1>1, <1>2, <1>4, Zenon DEF QStep, QueueStep
<1> QED BY <1>3, <1>5 DEF DataStep

(* ef_event_poll.                                                          *)
LEMMA PollStep == Inv /\ Poll => DataStep
<1> SUFFICES ASSUME Inv, Poll PROVE DataStep
  BY Zenon
<1> DEFINE n == IF Len(evq) < PollBatch THEN Len(evq) ELSE PollBatch
<1>1. /\ batch' = SubSeq(evq, 1, n) /\ evq' = SubSeq(evq, n + 1, Len(evq)) /\ polled' = n
      /\ UNCHANGED <<sending, chan, pkt, lost>> /\ UNCHANGED buffers /\ epc = "poll"
  BY Zenon DEF Poll, LoopStep, consumer
<1>2. batch = << >> /\ app' = app
  BY Zenon, <1>1 DEF Inv, ControlInv, PlacesInv, buffers
<1>3. evq \in Seq(Ev) /\ n \in 0 .. Len(evq) /\ n \in 0 .. PollBatch
  BY CaptureAssumption DEF Inv, DataOK
<1> HIDE DEF n
<1>4. batch' \in Seq(Ev) /\ Len(batch') = n /\ evq' \in Seq(Ev)
  BY <1>1, <1>3, SplitQueue, Zenon
<1>5. DataOK'
  BY <1>1, <1>3, <1>4 DEF Inv, DataOK
<1>6. Pipeline' = Pipeline
  <2>1. Pipeline' = Places(pkt, chan, sending, SubSeq(evq, 1, n), SubSeq(evq, n + 1, Len(evq)))
    BY Zenon, <1>1, PipelineAfter
  <2>2. Pipeline = Places(pkt, chan, sending, << >>, evq)
    BY Zenon, <1>2, PipelineType DEF Inv
  <2>9. /\ pkt \in Seq(Ev) /\ chan \in Seq(Ev) /\ sending \in Seq(Ev)
        /\ batch \in Seq(Ev) /\ evq \in Seq(Ev)
        /\ Pipeline = Places(pkt, chan, sending, batch, evq)
    BY Zenon, PipelineType DEF Inv
  <2> QED BY <2>1, <2>2, <1>3, <2>9, PollMoves
<1> QED BY <1>1, <1>2, <1>5, <1>6 DEF DataStep, QStep, QueueStep

(* The head of the batch leaves the queue.                                 *)
LEMMA EventDone ==
  ASSUME Inv, batch # << >>, batch' = Tail(batch),
         UNCHANGED <<evq, sending, chan, pkt, polled>>,
         \/ Head(batch) = NoBuf /\ app' = app /\ lost' = lost
         \/ Head(batch) # NoBuf /\ app' = app \ {Head(batch)} /\ lost' = lost
         \/ Head(batch) # NoBuf /\ app' = app /\ lost' = lost \cup {Head(batch)}
  PROVE  DataStep
<1>1. Tail(batch) \in Seq(Ev) /\ Len(Tail(batch)) = Len(batch) - 1 /\ Len(batch) \in Nat
  BY HeadFirst DEF Inv, DataOK
<1>2. DataOK'
  BY <1>1 DEF Inv, DataOK
<1>3. Removes(Pipeline, Pipeline', Head(batch)) /\ Head(batch) \in Ev
  <2>1. Pipeline' = Places(pkt, chan, sending, Tail(batch), evq)
    BY PipelineAfter
  <2>2. /\ pkt \in Seq(Ev) /\ chan \in Seq(Ev) /\ sending \in Seq(Ev)
        /\ batch \in Seq(Ev) /\ evq \in Seq(Ev)
        /\ Pipeline = Places(pkt, chan, sending, batch, evq)
    BY PipelineType DEF Inv
  <2> QED BY <2>1, <2>2, EventRemoves, HeadFirst
<1>4. QStep
  BY <1>3, Zenon DEF QStep, QueueStep
<1> QED BY Zenon, <1>2, <1>4 DEF DataStep

(* pollEvq handles an event.                                               *)
LEMMA HandledStep == Inv /\ EventHandled => DataStep
<1> SUFFICES ASSUME Inv, EventHandled PROVE DataStep
  BY Zenon
<1>1. /\ epc = "event" /\ batch # << >> /\ Head(batch) # NoBuf /\ batch' = Tail(batch)
      /\ UNCHANGED <<evq, chan, pkt, polled>>
  BY Zenon DEF EventHandled, LoopStep, consumer
<1>2. CASE sending' = <<Head(batch)>> /\ UNCHANGED <<buffers, lost>>
  <2>1. sending = << >> /\ app' = app
    BY <1>1, <1>2 DEF Inv, ControlInv, PlacesInv, buffers
  <2>2. /\ Tail(batch) \in Seq(Ev) /\ Len(Tail(batch)) = Len(batch) - 1 /\ Len(batch) \in Nat
        /\ Head(batch) \in Ev
    BY Zenon, <1>1, HeadFirst DEF Inv, DataOK
  <2>3. Head(batch) \in Buf
    BY Zenon, <1>1, <2>2 DEF Ev
  <2>4. sending' \in Seq(Buf) /\ Len(sending') = 1
    BY <1>2, <2>3
  <2>5. DataOK'
    BY <1>1, <2>2, <2>4 DEF Inv, DataOK
  <2>6. Pipeline' = Pipeline
    <3>1. Pipeline' = Places(pkt, chan, <<Head(batch)>>, Tail(batch), evq)
      BY Zenon, <1>1, <1>2, PipelineAfter
    <3>2. Pipeline = Places(pkt, chan, << >>, batch, evq)
      BY Zenon, <2>1, PipelineType DEF Inv
    <3>9. /\ pkt \in Seq(Ev) /\ chan \in Seq(Ev) /\ sending \in Seq(Ev)
          /\ batch \in Seq(Ev) /\ evq \in Seq(Ev)
          /\ Pipeline = Places(pkt, chan, sending, batch, evq)
      BY Zenon, PipelineType DEF Inv
    <3> QED BY <3>1, <3>2, <1>1, <3>9, PacketMoves
  <2> QED BY <1>2, <2>1, <2>5, <2>6 DEF DataStep, QStep, QueueStep
<1>3. CASE (Recycles(Head(batch)) \/ Drops(Head(batch))) /\ UNCHANGED sending
  <2> PICK h : h = Head(batch)
    BY Zenon
  <2>1. (Recycles(h) \/ Drops(h)) /\ h # NoBuf
    BY <1>1, <1>3 DEF Recycles, Drops, Ring!ReleasePktBuf
  <2>2. (app' = app \ {h} /\ lost' = lost) \/ (app' = app /\ lost' = lost \cup {h})
    BY <2>1, Disposes
  <2> QED BY <1>1, <1>3, <2>1, <2>2, EventDone
<1> QED BY <1>2, <1>3 DEF EventHandled

(* pollEvq returns an error.                                               *)
LEMMA FailsStep == Inv /\ EventFails => DataStep
<1> SUFFICES ASSUME Inv, EventFails PROVE DataStep
  BY Zenon
<1>1. batch # << >> /\ batch' = Tail(batch) /\ UNCHANGED <<evq, sending, chan, pkt, polled>>
  BY Zenon DEF EventFails, LoopStep, consumer
<1>2. CASE Head(batch) = NoBuf /\ UNCHANGED <<buffers, lost>>
  <2>1. app' = app /\ lost' = lost
    BY Zenon, <1>2 DEF buffers
  <2> QED BY <1>1, <1>2, <2>1, EventDone
<1>3. CASE Head(batch) # NoBuf /\ (Recycles(Head(batch)) \/ Drops(Head(batch)))
  <2> PICK h : h = Head(batch)
    BY Zenon
  <2>1. (Recycles(h) \/ Drops(h)) /\ h # NoBuf
    BY <1>3 DEF Recycles, Drops, Ring!ReleasePktBuf
  <2>2. (app' = app \ {h} /\ lost' = lost) \/ (app' = app /\ lost' = lost \cup {h})
    BY Zenon, <2>1, Disposes
  <2> QED BY <1>1, <1>3, <2>1, <2>2, EventDone
<1> QED BY <1>2, <1>3 DEF EventFails

(* The packet goes to the channel.                                         *)
LEMMA SendStep == Inv /\ Send => DataStep
<1> SUFFICES ASSUME Inv, Send PROVE DataStep
  BY Zenon
<1>1. /\ chan' = chan \o sending /\ sending' = << >> /\ Len(chan) < ChanCap
      /\ UNCHANGED <<buffers, evq, batch, pkt, polled, lost>>
  BY Zenon DEF Send, LoopStep, consumer
<1>2. chan' \in Seq(Buf) /\ Len(chan') = Len(chan) + Len(sending)
  BY Zenon, <1>1, ST!ConcatProperties DEF Inv, DataOK
<1>3. sending' \in Seq(Buf) /\ Len(sending') = 0 /\ Len(chan) \in Nat /\ Len(sending) \in Nat
  BY <1>1 DEF Inv, DataOK
<1>4. DataOK'
  BY SMTT(20), <1>1, <1>2, <1>3, CaptureAssumption DEF Inv, DataOK
<1>5. Pipeline' = Pipeline
  <2>1. Pipeline' = Places(pkt, Cat(chan, sending), << >>, batch, evq)
    BY Zenon, <1>1, PipelineAfter DEF Cat
  <2>9. /\ pkt \in Seq(Ev) /\ chan \in Seq(Ev) /\ sending \in Seq(Ev)
        /\ batch \in Seq(Ev) /\ evq \in Seq(Ev)
        /\ Pipeline = Places(pkt, chan, sending, batch, evq)
    BY Zenon, PipelineType DEF Inv
  <2> QED BY <2>1, <2>9, SendMoves
<1>6. app' = app /\ lost' = lost
  BY Zenon, <1>1 DEF buffers
<1> QED BY <1>4, <1>5, <1>6 DEF DataStep, QStep, QueueStep

(* StartCapture receives a packet.                                         *)
LEMMA PacketStep == Inv /\ SelectPacket => DataStep
<1> SUFFICES ASSUME Inv, SelectPacket PROVE DataStep
  BY Zenon
<1>1. /\ cpc = "select" /\ chan # << >> /\ pkt' = <<Head(chan)>> /\ chan' = Tail(chan)
      /\ UNCHANGED <<buffers, evq, batch, sending, polled, lost>>
  BY Zenon DEF SelectPacket, ConsumerStep, loop
<1>2. pkt = << >> /\ app' = app
  BY Zenon, <1>1 DEF Inv, ControlInv, PlacesInv, buffers
<1>3. /\ Head(chan) \in Buf /\ Tail(chan) \in Seq(Buf) /\ Len(Tail(chan)) = Len(chan) - 1
      /\ Len(chan) \in Nat
  BY <1>1, ST!HeadTailProperties DEF Inv, DataOK
<1>4. pkt' \in Seq(Buf) /\ Len(pkt') = 1
  BY <1>1, <1>3
<1>5. DataOK'
  BY SMTT(20), <1>1, <1>3, <1>4, CaptureAssumption DEF Inv, DataOK
<1>6. Pipeline' = Pipeline
  <2>1. Pipeline' = Places(<<Head(chan)>>, Tail(chan), sending, batch, evq)
    BY Zenon, <1>1, PipelineAfter
  <2>2. Pipeline = Places(<< >>, chan, sending, batch, evq)
    BY <1>2, PipelineType DEF Inv
  <2>9. /\ pkt \in Seq(Ev) /\ chan \in Seq(Ev) /\ sending \in Seq(Ev)
        /\ batch \in Seq(Ev) /\ evq \in Seq(Ev)
        /\ Pipeline = Places(pkt, chan, sending, batch, evq)
    BY Zenon, PipelineType DEF Inv
  <2> QED BY <1>1, <2>1, <2>2, <2>9, ReceiveMoves
<1> QED BY <1>1, <1>2, <1>5, <1>6 DEF DataStep, QStep, QueueStep

(* The packet at the handler is released or dropped.                       *)
LEMMA PacketDone ==
  ASSUME Inv, cpc \in {"check", "next"}, Recycles(pkt[1]) \/ Drops(pkt[1]), pkt' = << >>,
         UNCHANGED <<evq, batch, sending, chan, polled>>
  PROVE  DataStep
<1> PICK h : h = pkt[1]
  BY Zenon
<1>1. pkt \in Seq(Buf) /\ Len(pkt) <= 1 /\ pkt # << >>
  BY Zenon DEF Inv, ControlInv, PlacesInv, DataOK
<1>2. pkt = <<h>> /\ h \in Buf
  <2>1. Len(pkt) = 1
    BY <1>1, ST!EmptySeq
  <2> QED BY <1>1, <2>1
<1>3. h # NoBuf /\ h \in Ev /\ (Recycles(h) \/ Drops(h))
  BY Zenon, <1>2, CaptureAssumption DEF Ev, Recycles, Drops, Ring!ReleasePktBuf
<1>4. (app' = app \ {h} /\ lost' = lost) \/ (app' = app /\ lost' = lost \cup {h})
  BY Zenon, <1>3, Disposes
<1>5. DataOK'
  BY DEF Inv, DataOK
<1>6. Removes(Pipeline, Pipeline', h)
  <2>1. Pipeline' = Places(<< >>, chan, sending, batch, evq)
    BY Zenon, PipelineAfter
  <2>2. /\ chan \in Seq(Ev) /\ sending \in Seq(Ev) /\ batch \in Seq(Ev) /\ evq \in Seq(Ev)
        /\ Pipeline = Places(<<h>>, chan, sending, batch, evq)
    BY Zenon, <1>2, PipelineType DEF Inv
  <2> QED BY <2>1, <2>2, <1>3, HandlerRemoves
<1>7. QStep
  BY <1>3, <1>4, <1>6, Zenon DEF QStep, QueueStep
<1> QED BY Zenon, <1>5, <1>7 DEF DataStep

(* Every step is a step of the queue.                                      *)
LEMMA NextData == Inv /\ [Next]_vars => DataStep
<1> SUFFICES ASSUME Inv, [Next]_vars PROVE DataStep
  BY Zenon
<1>1. CASE Cancel \/ FilterFails \/ Start
  <2>1. UNCHANGED <<buffers, evq, batch, sending, chan, pkt, lost, polled>>
    BY <1>1 DEF Cancel, FilterFails, Start, loop, consumer
  <2> QED BY <2>1, QuietStep
<1>2. CASE LoopSelect \/ FDPoll \/ Decide \/ Prime \/ Wait \/ WaitFails \/ UsesFreedVI
  <2>1. UNCHANGED <<buffers, evq, batch, sending, chan, pkt, lost, polled>>
    BY Zenon, <1>2 DEF LoopSelect, FDPoll, Decide, Prime, Wait, WaitFails, UsesFreedVI, LoopStep,
                consumer
  <2> QED BY Zenon, <2>1, QuietStep
<1>3. CASE Polled
  <2>1. /\ UNCHANGED <<buffers, evq, batch, sending, chan, pkt, lost>>
        /\ polled' = 0 /\ batch = << >>
    BY <1>3 DEF Polled, LoopStep, consumer
  <2> QED BY <2>1, QuietStep
<1>4. CASE LoopReturns \/ LoopExits
  <2>1. UNCHANGED <<buffers, evq, batch, sending, chan, pkt, lost, polled>>
    BY <1>4 DEF LoopReturns, LoopExits, consumer
  <2> QED BY Zenon, <2>1, QuietStep
<1>5. CASE SelectDone \/ SelectClosed \/ CallHandler \/ CheckPasses \/ ReturnsEarly \/ Return
  <2>1. UNCHANGED <<buffers, evq, batch, sending, chan, pkt, lost, polled>>
    BY Zenon, <1>5 DEF SelectDone, SelectClosed, CallHandler, CheckPasses, ReturnsEarly, Return,
                ConsumerStep, loop
  <2> QED BY Zenon, <2>1, QuietStep
<1>6. CASE CheckFails
  BY <1>6, PacketDone DEF CheckFails, ConsumerStep, loop
<1>7. CASE NextPacket
  BY Zenon, <1>7, PacketDone DEF NextPacket, ConsumerStep, loop
<1>8. CASE NICReceives \/ NICResets \/ Fill
  BY <1>8, ReceivesStep, ResetsStep, FillStep
<1>9. CASE Refill \/ Poll \/ EventHandled \/ EventFails \/ Send
  BY <1>9, RefillStep, PollStep, HandledStep, FailsStep, SendStep
<1>10. CASE SelectPacket
  BY Zenon, <1>10, PacketStep
<1>11. CASE UNCHANGED vars
  BY Zenon, <1>11, QuietStep DEF vars, loop, consumer
<1> QED
  BY <1>1, <1>2, <1>3, <1>4, <1>5, <1>6, <1>7, <1>8, <1>9, <1>10, <1>11
  DEF Next, EventLoop, Consume

(* Every step is a step of OnloadRing or leaves the buffers alone.         *)
LEMMA RingStep == Inv /\ [Next]_vars => Ring!Next \/ UNCHANGED buffers
<1> SUFFICES ASSUME Inv, [Next]_vars PROVE Ring!Next \/ UNCHANGED buffers
  BY Zenon
<1>1. CASE Fill
  BY Zenon, <1>1 DEF Fill, Ring!Next
<1>2. CASE NICReceives
  BY Zenon, <1>2 DEF NICReceives, Ring!Next, Ring!Receive
<1>3. CASE Refill
  BY Zenon, <1>3 DEF Refill, Ring!Next, Ring!NoRefill, buffers
<1>4. ASSUME NEW b, Recycles(b) \/ Drops(b)
      PROVE  Ring!Next \/ UNCHANGED buffers
  <2>1. CASE Recycles(b)
    <3>1. Ring!ReleasePktBuf(b) /\ UNCHANGED ready
      BY <2>1 DEF Recycles
    <3>2. b \in app /\ ready
      BY Zenon, <3>1 DEF Inv, BufInv, Ring!ReleasePktBuf
    <3> QED BY Zenon, <3>1, <3>2 DEF Ring!Next, Ring!Release
  <2>2. CASE Drops(b)
    BY Zenon, <2>2 DEF Drops
  <2> QED BY Zenon, <1>4, <2>1, <2>2
<1>5. CASE EventHandled
  <2>1. PICK h : h = Head(batch)
    BY Zenon
  <2>2. UNCHANGED buffers \/ Recycles(h) \/ Drops(h)
    BY <1>5, <2>1 DEF EventHandled, Recycles, Drops, Ring!ReleasePktBuf
  <2> QED BY Zenon, <2>2, <1>4
<1>6. CASE EventFails
  <2>1. PICK h : h = Head(batch)
    BY Zenon
  <2>2. UNCHANGED buffers \/ Recycles(h) \/ Drops(h)
    BY Zenon, <1>6, <2>1 DEF EventFails, Recycles, Drops, Ring!ReleasePktBuf
  <2> QED BY Zenon, <2>2, <1>4
<1>7. CASE CheckFails \/ NextPacket
  <2>1. PICK h : h = pkt[1]
    BY Zenon
  <2>2. Recycles(h) \/ Drops(h)
    BY Zenon, <1>7, <2>1 DEF CheckFails, NextPacket, Recycles, Drops, Ring!ReleasePktBuf
  <2> QED BY Zenon, <2>2, <1>4
<1>8. CASE Cancel \/ NICResets \/ FilterFails \/ Start \/ WaitFails \/ UNCHANGED vars
  BY Zenon, <1>8 DEF Cancel, NICResets, FilterFails, Start, WaitFails, vars
<1>9. CASE LoopSelect \/ FDPoll \/ Decide \/ Poll \/ Send \/ Polled \/ Prime \/ Wait
           \/ UsesFreedVI \/ LoopReturns \/ LoopExits
  BY <1>9 DEF LoopSelect, FDPoll, Decide, Poll, Send, Polled, Prime, Wait, UsesFreedVI,
              LoopReturns, LoopExits
<1>10. CASE SelectDone \/ SelectClosed \/ SelectPacket \/ CallHandler \/ CheckPasses
            \/ ReturnsEarly \/ Return
  BY <1>10 DEF SelectDone, SelectClosed, SelectPacket, CallHandler, CheckPasses,
               ReturnsEarly, Return
<1> QED
  BY <1>1, <1>2, <1>3, <1>5, <1>6, <1>7, <1>8, <1>9, <1>10 DEF Next, EventLoop, Consume

-----------------------------------------------------------------------------
(* The buffers.                                                            *)

FST == INSTANCE FiniteSetTheorems

(* OnloadRing and the theorems about finite sets count as this module does. *)
LEMMA SameCount ==
  \A S : /\ Ring!Cardinality(S) = Cardinality(S) /\ FST!Cardinality(S) = Cardinality(S)
         /\ FST!IsFiniteSet(S) <=> IsFiniteSet(S)
<1>1. \A S : Ring!Cardinality(S) = Cardinality(S)
  BY Zenon DEF Ring!Cardinality, Cardinality
<1>2. \A S : FST!Cardinality(S) = Cardinality(S)
  BY Zenon DEF FST!Cardinality, Cardinality
<1>3. \A S : FST!IsFiniteSet(S) <=> IsFiniteSet(S)
  BY Zenon DEF FST!IsFiniteSet, IsFiniteSet
<1> QED BY <1>1, <1>2, <1>3, Zenon

(* refillRxRing keeps the buffers accounted for.                           *)
LEMMA RefillInv ==
  ASSUME BufInv, Ring!Refill, UNCHANGED ready
  PROVE  BufInv'
<1>1. PICK m \in 1 .. Ring!NBufs, posted \in SUBSET free :
        Ring!Cardinality(posted) = m * Batch /\ Ring!Post(posted, m)
  BY DEF Ring!Refill
<1> DEFINE n == m * Batch
<1> DEFINE f == free \ posted
<1>2. /\ Cardinality(posted) = n /\ app' = app
      /\ ring' = ring \cup posted /\ free' = f /\ nFree' = nFree - n
  BY <1>1, SameCount DEF Ring!Post, Ring!Refill
<1>3. /\ IsFiniteSet(free) /\ IsFiniteSet(posted) /\ IsFiniteSet(f)
  BY FST!FS_Subset, CaptureAssumption, SameCount DEF BufInv, Ring!TypeOK
<1>4. /\ Cardinality(f) = Cardinality(free) - Cardinality(free \cap posted)
      /\ Cardinality(f) \in Nat /\ Cardinality(free) \in Nat
      /\ free \cap posted = posted
  BY <1>3, FST!FS_Difference, FST!FS_CardinalityType, SameCount
<1>5. nFree = Cardinality(free)
  BY SameCount DEF BufInv, Ring!Conserved
<1> HIDE DEF n, f
<1>6. nFree' = Ring!Cardinality(f) /\ nFree' \in Nat
  BY <1>2, <1>4, <1>5, SameCount
<1>7. /\ free' \subseteq Buf /\ ring' \subseteq Buf
      /\ free' \cup ring' \cup app' = Buf
      /\ free' \cap ring' = {} /\ free' \cap app' = {} /\ ring' \cap app' = {}
  BY <1>2 DEF f, BufInv, Ring!TypeOK, Ring!Conserved
<1> QED BY <1>2, <1>6, <1>7 DEF BufInv, Ring!TypeOK, Ring!Conserved

(* A release keeps the buffers accounted for.                              *)
LEMMA ReleaseInv ==
  ASSUME BufInv, NEW b, Ring!ReleasePktBuf(b), UNCHANGED ready
  PROVE  BufInv'
<1>1. /\ b \in app /\ free' = free \cup {b} /\ nFree' = nFree + 1
      /\ app' = app \ {b} /\ ring' = ring
  BY DEF Ring!ReleasePktBuf
<1>2. b \notin free /\ IsFiniteSet(free) /\ b \in Buf
  BY <1>1, FST!FS_Subset, CaptureAssumption, SameCount DEF BufInv, Ring!TypeOK, Ring!Conserved
<1>3. \A S : Ring!Cardinality(S) = Cardinality(S)
  BY SameCount
<1>4. Cardinality(free \cup {b}) = Cardinality(free) + 1
  BY <1>2, FST!FS_AddElement, SameCount
<1>5. nFree' = Ring!Cardinality(free') /\ nFree' \in Nat
  BY SMTT(20), <1>1, <1>3, <1>4 DEF BufInv, Ring!TypeOK, Ring!Conserved
<1> QED BY <1>1, <1>2, <1>5 DEF BufInv, Ring!TypeOK, Ring!Conserved

(* The start: every buffer is free.                                        *)
LEMMA RingInit == Ring!Init => BufInv
<1>1. Ring!NBufs \in Nat /\ Ring!NBufs = Ring!Cardinality(Buf)
  <2>1. \A S : Ring!Cardinality(S) = Cardinality(S)
    BY SameCount
  <2>2. Cardinality(Buf) \in Nat
    BY FST!FS_CardinalityType, CaptureAssumption, SameCount
  <2> QED BY <2>1, <2>2 DEF Ring!NBufs
<1> QED BY Zenon, <1>1 DEF Ring!Init, BufInv, Ring!TypeOK, Ring!Conserved

(* A step of OnloadRing keeps the buffers accounted for.                   *)
LEMMA BufStep ==
  ASSUME BufInv, Ring!Next \/ UNCHANGED buffers
  PROVE  BufInv'
<1>1. CASE Ring!Fill \/ Ring!EventLoopRefill
  BY <1>1, RefillInv DEF Ring!Fill, Ring!EventLoopRefill
<1>2. CASE Ring!Filled
  BY <1>2 DEF Ring!Filled, BufInv, Ring!TypeOK, Ring!Conserved
<1>3. CASE Ring!Receive
  <2>1. PICK b \in ring : ring' = ring \ {b} /\ app' = app \cup {b}
    BY <1>3 DEF Ring!Receive
  <2>2. UNCHANGED <<ready, free, nFree>> /\ ready
    BY <1>3 DEF Ring!Receive
  <2> QED BY <2>1, <2>2 DEF BufInv, Ring!TypeOK, Ring!Conserved
<1>4. CASE Ring!Release
  BY <1>4, ReleaseInv DEF Ring!Release
<1>5. CASE UNCHANGED buffers
  BY <1>5 DEF BufInv, buffers, Ring!TypeOK, Ring!Conserved
<1> QED BY <1>1, <1>2, <1>3, <1>4, <1>5 DEF Ring!Next

-----------------------------------------------------------------------------
(* The invariant is inductive, and the theorems follow.                    *)

(* Every step keeps the invariant and the order of the packets.            *)
LEMMA NextInv == Inv /\ [Next]_vars => Inv' /\ Ordered(Pipeline, Pipeline')
<1> SUFFICES ASSUME Inv, [Next]_vars PROVE Inv' /\ Ordered(Pipeline, Pipeline')
  OBVIOUS
<1>1. BufInv' /\ DataOK' /\ QStep
  BY NextData, RingStep, BufStep DEF DataStep, Inv
<1>2. Pipeline \in Seq(Ev) /\ Placed(Pipeline, app, lost)
  BY PipelineType DEF Inv
<1>3. Placed(Pipeline', app', lost') /\ Ordered(Pipeline, Pipeline')
  BY <1>1, <1>2, QueueStepPlaced DEF QStep
<1>4. ControlInv'
  <2>1. CASE UNCHANGED vars
    <3>1. ctxDone' = ctxDone /\ ctxDone \in BOOLEAN /\ ControlInv
      BY <2>1 DEF vars, Inv, ControlInv, ControlOK
    <3> QED BY SMTT(20), <2>1, <3>1, QuietControl DEF vars, buffers, loop, consumer
  <2> QED BY <2>1, EnvironmentControl, LoopControl, ConsumerControl DEF Next
<1> QED BY <1>1, <1>3, <1>4 DEF Inv, Placed

(* The invariant holds at the start.                                       *)
LEMMA InitInv == Init => Inv
<1> SUFFICES ASSUME Init PROVE Inv
  OBVIOUS
<1>1. BufInv /\ app = {} /\ ready = FALSE
  BY RingInit DEF Init, Ring!Init
<1>2. DataOK
  BY SMTT(20), CaptureAssumption DEF Init, DataOK
<1>3. Placed(Pipeline, app, lost)
  <2>1. Pipeline = << >>
    BY DEF Init, Pipeline
  <2>2. Bufs(<< >>) = {} /\ Once(<< >>)
    BY DEF Bufs, Once
  <2> QED BY <1>1, <2>1, <2>2 DEF Init, Placed
<1>4. ControlInv
  <2>1. /\ ctxDone \in BOOLEAN /\ primed \in BOOLEAN /\ refilled \in BOOLEAN
        /\ closed \in BOOLEAN /\ segment \in BOOLEAN /\ overwritten \in BOOLEAN
    BY Zenon DEF Init
  <2>2. mode \in Mode /\ batchLoops \in -1 .. LoopBatch
    BY SMTT(20), CaptureAssumption DEF Init
  <2>3. ControlOK
    BY <2>1, <2>2 DEF Init, ControlOK, Transport, Errors
  <2>4. PlacesInv
    BY <1>1 DEF Init, PlacesInv
  <2>5. ErrInv /\ ReturnInv /\ FreedInv
    BY DEF Init, ErrInv, ReturnInv, FreedInv, NilMeansStopped, ReleasedAfterUse
  <2> QED BY <2>3, <2>4, <2>5 DEF ControlInv
<1> QED BY <1>1, <1>2, <1>3, <1>4 DEF Inv

(* The invariant holds in every behaviour.                                 *)
LEMMA Invariance == Spec => []Inv
<1>1. Init => Inv
  BY InitInv
<1>2. Inv /\ [Next]_vars => Inv'
  BY NextInv
<1> QED BY <1>1, <1>2, PTL DEF Spec

(* Every buffer the application holds is in exactly one place between the  *)
(* adapter and the handler, or was dropped by one of the paths that drop   *)
(* it: for any number of buffers and any interleaving, no buffer is lost   *)
(* otherwise, released twice or handed out while the adapter may write it. *)
THEOREM BuffersAccounted == Spec => []Accounted
<1>1. Inv => Accounted
  <2> SUFFICES ASSUME Inv PROVE Accounted
    OBVIOUS
  <2>1. lost \subseteq Buf
    BY DEF Inv, Placed, BufInv, Ring!TypeOK
  <2>2. TypeOK
    BY <2>1 DEF Inv, BufInv, DataOK, Ev, ControlInv, ControlOK, TypeOK
  <2>3. /\ PipelineBufs \cup lost = app /\ PipelineBufs \cap lost = {}
        /\ Once(Pipeline)
    BY Zenon DEF Inv, Placed, Bufs, PipelineBufs
  <2> QED BY <2>2, <2>3, Zenon DEF Accounted, Once
<1> QED BY <1>1, Invariance, PTL

(* No step of the two goroutines lets a packet overtake another one.       *)
THEOREM NoOvertaking == Spec => InOrder
<1>1. Inv /\ [Next]_vars =>
        [\A i, j \in DOMAIN Pipeline, k, l \in DOMAIN Pipeline' :
           /\ i < j /\ Pipeline[i] # NoBuf /\ Pipeline[j] # NoBuf
           /\ Pipeline'[k] = Pipeline[i] /\ Pipeline'[l] = Pipeline[j]
           => k < l]_vars
  <2> SUFFICES ASSUME Inv, [Next]_vars
               PROVE  \A i, j \in DOMAIN Pipeline, k, l \in DOMAIN Pipeline' :
                        /\ i < j /\ Pipeline[i] # NoBuf /\ Pipeline[j] # NoBuf
                        /\ Pipeline'[k] = Pipeline[i] /\ Pipeline'[l] = Pipeline[j]
                        => k < l
    OBVIOUS
  <2>1. Ordered(Pipeline, Pipeline')
    BY NextInv
  <2> QED BY <2>1, Zenon DEF Ordered
<1> QED BY <1>1, Invariance, PTL DEF Spec, InOrder

(* A nil result of StartCapture has one of the three causes, whenever the  *)
(* event loop writes the err it shares with StartCapture.                  *)
THEOREM NilResult == Spec => []NilMeansStopped
<1>1. Inv => NilMeansStopped
  BY DEF Inv, ControlInv, ReturnInv
<1> QED BY <1>1, Invariance, PTL

(* Without a failing handler the event loop never uses a freed interface.  *)
THEOREM UseBeforeRelease == Spec => []ReleasedAfterUse
<1>1. Inv => ReleasedAfterUse
  BY DEF Inv, ControlInv, FreedInv
<1> QED BY <1>1, Invariance, PTL

(* Every step of the capture is a step of OnloadRing or leaves the buffers *)
(* alone: what is proved of the ring holds in the running capture.         *)
THEOREM RingRefinement == Spec => ImplementsRing
<1>1. Init => Ring!Init
  BY DEF Init
<1>2. Inv /\ [Next]_vars => [Ring!Next]_(Ring!vars)
  BY Zenon, RingStep DEF Ring!vars, buffers
<1> QED BY <1>1, <1>2, Invariance, PTL DEF Spec, ImplementsRing, Ring!Spec

=============================================================================
