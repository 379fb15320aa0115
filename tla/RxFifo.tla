------------------------------- MODULE RxFifo -------------------------------
(***************************************************************************)
(* exanic/include/exanic/fifo_rx.c and fifo_rx.h: the receive buffer of an *)
(* ExaNIC port.  The adapter writes frames into a ring of chunks without   *)
(* waiting for anybody; a reader follows it and must notice when it has    *)
(* been lapped.  A chunk is written in two steps, the payload first, then  *)
(* the word with its generation number, which the reader loads at once.    *)
(*                                                                         *)
(* Three kinds of reader are modelled, one per behaviour:                  *)
(*   frame   exanic_receive_frame, the call of the Go capture;             *)
(*   chunk   exanic_receive_chunk(_ex) and exanic_receive_abort;           *)
(*   poll    exanic_poll_single_rx of exasock/exanic.c, which reads in     *)
(*           place with exanic_receive_chunk_inplace, and rechecks.        *)
(*                                                                         *)
(* A payload is the number of the chunk since the adapter started, with    *)
(* its place in its frame.  A call that finds nothing new changes nothing  *)
(* and is not a step.                                                      *)
(***************************************************************************)
EXTENDS Integers, Sequences

CONSTANTS
  N,          \* EXANIC_RX_NUM_CHUNKS
  G,          \* the number of generations, 2^8 for the uint8_t of the code
  MaxFrame,   \* the longest frame, in chunks
  BufSizes,   \* the values of rx_buf_size, in chunks
  MaxChunks,  \* bound: how many chunks the adapter writes
  Readers     \* a subset of {"frame", "chunk", "poll"}

\* The reader is behind by less than G - 1 laps: see the README.
ASSUME FifoAssumption ==
  /\ N \in Nat /\ N > 1 /\ G \in Nat /\ G > 2
  /\ MaxFrame \in 1 .. N - 1 /\ BufSizes \subseteq Nat \ {0}
  /\ MaxChunks \in 0 .. (G - 1) * N - 1
  /\ Readers \subseteq {"frame", "chunk", "poll"}

VARIABLES
  buffer,    \* the chunks: [payload, info]
  written,   \* how many chunks the adapter has finished
  half,      \* the payload of the next one is written, its info is not
  frame,     \* the frame the adapter is writing: [idx, len, bad]
  api,       \* the kind of reader
  rx,        \* exanic_rx_t: [next, gen, sentinel, sgen]
  pc,        \* where the reader is
  got,       \* the payloads copied so far
  loc,       \* locals of the call
  cu,        \* locals of __exanic_rx_catchup; blind: it met no end of a frame
  more,      \* more_chunks of exanic_poll_single_rx
  stale,     \* more_chunks is left over from a read that failed
  told,      \* the reader lost frames and was told so, or dropped some itself
  out        \* of the frame delivered last: [end, whole, ordered]

adapter == <<buffer, written, half, frame>>
vars == <<buffer, written, half, frame, api, rx, pc, got, loc, cu, more, stale,
          told, out>>

NoInfo == [gen |-> 0, last |-> FALSE, bad |-> FALSE]
NoPayload == [n |-> -1, idx |-> 1, len |-> 1]
NoLoc == [u |-> NoInfo, chunk |-> 0, gen |-> 0, hdr |-> NoPayload, need |-> 0,
          at |-> 0, ret |-> "idle"]
NoCatchup == [chunk |-> N, breakGen |-> 0, breakChunk |-> 0, before |-> FALSE,
              found |-> FALSE, eofGen |-> 0, eofChunk |-> 0, blind |-> FALSE]

\* Before the first lap every chunk has the last generation and a length.
Init ==
  /\ buffer = [c \in 0 .. N - 1 |->
       [payload |-> NoPayload, info |-> [gen |-> G - 1, last |-> TRUE, bad |-> FALSE]]]
  /\ written = 0 /\ half = FALSE
  /\ frame = [idx |-> 1, len |-> 1, bad |-> FALSE]
  /\ api \in Readers
  /\ rx = [next |-> 0, gen |-> 0, sentinel |-> 0, sgen |-> 0]
  /\ pc = "closed" /\ got = <<>> /\ loc = NoLoc /\ cu = NoCatchup
  /\ more = FALSE /\ stale = FALSE /\ told = TRUE
  /\ out = [end |-> -1, whole |-> TRUE, ordered |-> TRUE]

-----------------------------------------------------------------------------
(* The adapter.                                                            *)

WritePayload(f) ==
  /\ ~ half
  /\ frame' = [f EXCEPT !.idx = @ + 1]
  /\ buffer' = [buffer EXCEPT ![written % N].payload =
                  [n |-> written, idx |-> f.idx + 1, len |-> f.len]]
  /\ half' = TRUE
  /\ UNCHANGED <<written, api, rx, pc, got, loc, cu, more, stale, told, out>>

StartFrame ==
  /\ frame.idx = frame.len
  /\ \E l \in 1 .. MaxFrame, b \in BOOLEAN :
       /\ written + l <= MaxChunks
       /\ WritePayload([idx |-> 0, len |-> l, bad |-> b])

NextChunk ==
  /\ frame.idx < frame.len
  /\ WritePayload(frame)

WriteInfo ==
  /\ half
  /\ LET last == frame.idx = frame.len
     IN  buffer' = [buffer EXCEPT ![written % N].info =
           [gen |-> (written \div N) % G, last |-> last, bad |-> last /\ frame.bad]]
  /\ written' = written + 1 /\ half' = FALSE
  /\ UNCHANGED <<frame, api, rx, pc, got, loc, cu, more, stale, told, out>>

-----------------------------------------------------------------------------
(* What every call does.                                                   *)

Info == buffer[rx.next].info
New == Info.gen = rx.gen

\* Bug form: a chunk of any other generation counts as not written yet.
LappedNever == FALSE

Lapped == Info.gen \notin {rx.gen, (rx.gen + G - 1) % G}

\* Bug form: the generation is not incremented.
AdvanceSameGen(r) == [r EXCEPT !.next = (@ + 1) % N]

Advance(r) ==
  [r EXCEPT !.next = (@ + 1) % N,
            !.gen = IF r.next + 1 = N THEN (@ + 1) % G ELSE @]

MoveSentinel(r, chunk, gen) == [r EXCEPT !.sentinel = chunk, !.sgen = gen]

\* The call returns with an error.
Fails ==
  /\ pc' = "idle" /\ got' = <<>> /\ loc' = NoLoc /\ cu' = NoCatchup
  /\ told' = TRUE
  /\ UNCHANGED <<adapter, api, more, stale, out>>

\* -EXANIC_RX_FRAME_SWOVFL, after __exanic_rx_catchup.
Overflow(next) ==
  /\ pc' = "catchup" /\ got' = <<>>
  /\ loc' = [NoLoc EXCEPT !.ret = next] /\ cu' = NoCatchup
  /\ told' = TRUE
  /\ UNCHANGED <<adapter, api, rx, more, stale, out>>

\* A frame from its first chunk on, without its trailer perhaps.
Intact(data, trailer) ==
  /\ data[1].idx = 1
  /\ \A i \in DOMAIN data : data[i].n = data[1].n + i - 1
  /\ data[1].len - Len(data) \in 0 .. trailer

\* The call returns data.  excused: a case in which it may be mixed.
Deliver(data, excused) ==
  LET f == data[1]
  IN  /\ out' = IF excused
                  THEN [end |-> -1, whole |-> TRUE, ordered |-> TRUE]
                  ELSE [end |-> f.n + f.len - f.idx,
                        whole |-> Intact(data, IF api = "poll" THEN 1 ELSE 0),
                        ordered |-> f.n > out.end /\ (told \/ f.n = out.end + 1)]
      /\ told' = excused
      /\ got' = <<>> /\ loc' = NoLoc /\ cu' = NoCatchup

-----------------------------------------------------------------------------
(* exanic_acquire_rx_buffer, exanic_release_rx_buffer.                     *)

Acquire ==
  /\ pc = "closed"
  /\ Overflow("idle")

Release ==
  /\ pc = "idle"
  /\ pc' = "closed" /\ got' = <<>> /\ told' = TRUE
  /\ UNCHANGED <<adapter, api, rx, loc, cu, more, stale, out>>

(* __exanic_rx_catchup: the ring is read backwards, a chunk a step.        *)
CatchupChunk ==
  /\ pc = "catchup" /\ cu.chunk > 0
  /\ LET c == cu.chunk - 1
         i == buffer[c].info
         first == c = N - 1
         breaks == ~ first /\ i.gen # cu.breakGen
         before == cu.before \/ breaks
         eof == i.last /\ (before \/ ~ cu.found)
     IN  cu' = [chunk |-> IF i.last /\ before THEN 0 ELSE c,
                breakGen |-> IF first \/ breaks THEN i.gen ELSE cu.breakGen,
                breakChunk |-> IF first \/ breaks THEN c ELSE cu.breakChunk,
                before |-> before,
                found |-> cu.found \/ eof,
                eofGen |-> IF eof THEN i.gen ELSE cu.eofGen,
                eofChunk |-> IF eof THEN c ELSE cu.eofChunk,
                blind |-> FALSE]
  /\ UNCHANGED <<adapter, api, rx, pc, got, loc, more, stale, told, out>>

CatchupTarget ==
  IF cu.found THEN [chunk |-> cu.eofChunk, gen |-> cu.eofGen]
              ELSE [chunk |-> cu.breakChunk, gen |-> cu.breakGen]

CatchupEnds ==
  /\ pc = "catchup" /\ cu.chunk = 0
  /\ LET t == CatchupTarget
     IN  rx' = Advance([next |-> t.chunk, gen |-> t.gen,
                        sentinel |-> t.chunk, sgen |-> t.gen])
  /\ pc' = loc.ret /\ loc' = NoLoc
  /\ cu' = [NoCatchup EXCEPT !.blind = ~ cu.found]
  /\ UNCHANGED <<adapter, api, got, more, stale, told, out>>

-----------------------------------------------------------------------------
(* exanic_receive_frame.                                                   *)

ReceiveFrame ==
  /\ api = "frame" /\ pc \in {"idle", "spin"}
  /\ \/ /\ New
        /\ loc' = [loc EXCEPT !.u = Info] /\ pc' = "chunk"
        /\ UNCHANGED <<adapter, api, rx, got, cu, more, stale, told, out>>
     \/ Lapped /\ Overflow("idle")

\* A chunk with more to come, or the last chunk of a frame that does not fit,
\* or of one that does.
ProcessChunk ==
  /\ pc = "chunk"
  /\ LET data == Append(got, buffer[rx.next].payload)
     IN  \/ /\ ~ loc.u.last
            /\ got' = data /\ pc' = "spin" /\ rx' = Advance(rx)
            /\ UNCHANGED <<adapter, api, loc, cu, more, stale, told, out>>
         \/ /\ loc.u.last /\ \E size \in BufSizes : Len(data) > size
            /\ rx' = Advance(rx)
            /\ Fails
         \/ /\ loc.u.last /\ \E size \in BufSizes : Len(data) <= size
            /\ got' = data /\ pc' = "check"
            /\ rx' = Advance(MoveSentinel(rx, rx.next, loc.u.gen))
            /\ loc' = [loc EXCEPT !.chunk = rx.sentinel, !.gen = rx.sgen]
            /\ UNCHANGED <<adapter, api, cu, more, stale, told, out>>

\* Bug form: the sentinel is not looked at.
SentinelOKIgnored == TRUE

\* The chunk before the ones that were copied has not been overwritten.
SentinelOK == buffer[loc.chunk].info.gen = loc.gen

CheckSentinel ==
  /\ pc = "check"
  /\ \/ ~ SentinelOK /\ Overflow("idle")
     \/ SentinelOK /\ loc.u.bad /\ Fails /\ UNCHANGED rx
     \/ /\ SentinelOK /\ ~ loc.u.bad
        /\ IF loc.u.last
             THEN Deliver(got, cu.blind)
             ELSE loc' = NoLoc /\ UNCHANGED <<got, cu, told, out>>
        /\ pc' = "idle"
        /\ UNCHANGED <<adapter, api, rx, more, stale>>

-----------------------------------------------------------------------------
(* exanic_receive_chunk and exanic_receive_chunk_ex: a caller that collects *)
(* the chunks of a frame, and may give one up with exanic_receive_abort.   *)

ReceiveChunk ==
  /\ api = "chunk" /\ pc = "idle"
  /\ \/ /\ New
        /\ loc' = [NoLoc EXCEPT !.u = Info, !.chunk = rx.sentinel, !.gen = rx.sgen,
                                !.at = rx.next]
        /\ rx' = Advance(MoveSentinel(rx, rx.next, Info.gen))
        /\ pc' = "memcpy"
        /\ UNCHANGED <<adapter, api, got, cu, more, stale, told, out>>
     \/ Lapped /\ Overflow("idle")

CopyChunk ==
  /\ pc = "memcpy"
  /\ got' = Append(got, buffer[loc.at].payload)
  /\ pc' = "check"
  /\ UNCHANGED <<adapter, api, rx, loc, cu, more, stale, told, out>>

GiveUp ==
  /\ api = "chunk" /\ pc = "idle" /\ got # <<>>
  /\ pc' = "abort" /\ got' = <<>> /\ told' = TRUE
  /\ UNCHANGED <<adapter, api, rx, loc, cu, more, stale, out>>

\* exanic_receive_abort
ReceiveAbort ==
  /\ pc = "abort"
  /\ \/ /\ New
        /\ rx' = Advance(rx)
        /\ pc' = IF Info.last THEN "idle" ELSE "abort"
        /\ more' = (more /\ ~ Info.last) /\ stale' = (stale /\ ~ Info.last)
        /\ UNCHANGED <<adapter, api, got, loc, cu, told, out>>
     \/ Lapped /\ Overflow("idle")

-----------------------------------------------------------------------------
(* exanic_poll_single_rx.                                                  *)

\* Bug form: the rest of the frame is skipped whether there is one or not.
LeaveAborts(m) == "abort"

\* Where it goes at the end: abort_frame if there are more chunks.
Leave(m) == IF m THEN "abort" ELSE "idle"

Drop ==
  /\ pc' = Leave(more) /\ got' = <<>> /\ loc' = NoLoc /\ told' = TRUE
  /\ UNCHANGED <<adapter, api, cu, more, out>>

\* The header chunk, with exanic_receive_chunk_inplace.
PollHeader ==
  /\ api = "poll" /\ pc = "idle"
  /\ more' = (New /\ ~ Info.last) /\ stale' = FALSE
  /\ \/ /\ New /\ ~ Info.bad
        /\ loc' = [NoLoc EXCEPT !.chunk = rx.next, !.gen = rx.gen]
        /\ rx' = Advance(rx) /\ pc' = "parse"
        /\ UNCHANGED <<adapter, api, got, cu, told, out>>
     \/ /\ New /\ Info.bad
        /\ rx' = Advance(rx) /\ told' = TRUE
        /\ UNCHANGED <<adapter, api, pc, got, loc, cu, out>>
     \/ /\ Lapped
        /\ pc' = "catchup" /\ loc' = NoLoc /\ cu' = NoCatchup
        /\ told' = TRUE
        /\ UNCHANGED <<adapter, api, rx, got, out>>

\* The headers, read in place, say whether a socket wants the packet and how
\* many chunks hold its data; what is left of the frame is a trailer.
PollParse ==
  /\ pc = "parse"
  /\ LET p == buffer[loc.chunk].payload
     IN  \/ Drop /\ UNCHANGED <<rx, stale>>
         \/ \E need \in {p.len, p.len - 1} \ {0} :
              /\ loc' = [loc EXCEPT !.hdr = p, !.need = need]
              /\ pc' = "copy"
              /\ UNCHANGED <<adapter, api, rx, got, cu, more, stale, told, out>>

Copied(data) == IF Len(data) >= loc.need THEN "validate" ELSE "body"

\* The data in the header chunk, read in place again.
PollCopy ==
  /\ pc = "copy"
  /\ got' = <<buffer[loc.chunk].payload>>
  /\ pc' = Copied(got')
  /\ UNCHANGED <<adapter, api, rx, loc, cu, more, stale, told, out>>

\* The next chunk of the body; a failing read leaves more_chunks as it was.
\* more_chunks is looked at after the read, whether it found a chunk or not.
PollBody ==
  /\ pc = "body"
  /\ \/ /\ New /\ ~ Info.bad
        /\ loc' = [loc EXCEPT !.at = rx.next]
        /\ rx' = Advance(rx) /\ more' = ~ Info.last /\ pc' = "bodycopy"
        /\ UNCHANGED <<adapter, api, got, cu, stale, told, out>>
     \/ /\ New /\ Info.bad
        /\ rx' = Advance(rx) /\ stale' = more
        /\ Drop
     \/ /\ ~ New /\ ~ Lapped /\ ~ more
        /\ Drop /\ UNCHANGED <<rx, stale>>
     \/ /\ Lapped
        /\ pc' = "catchup" /\ got' = <<>>
        /\ loc' = [NoLoc EXCEPT !.ret = Leave(more)]
        /\ cu' = NoCatchup /\ told' = TRUE /\ stale' = more
        /\ UNCHANGED <<adapter, api, rx, more, out>>

PollBodyCopy ==
  /\ pc = "bodycopy"
  /\ LET data == Append(got, buffer[loc.at].payload)
     IN  \/ /\ Len(data) >= loc.need \/ more
            /\ got' = data /\ pc' = Copied(data)
            /\ UNCHANGED <<adapter, api, rx, loc, cu, more, stale, told, out>>
         \/ /\ Len(data) < loc.need /\ ~ more
            /\ Drop /\ UNCHANGED <<rx, stale>>

\* The checksum accepts a packet that is whole; one that is mixed may have the
\* same sum, or none.
PollValidate ==
  /\ pc = "validate"
  /\ \/ /\ pc' = "recheck"
        /\ UNCHANGED <<adapter, api, rx, got, loc, cu, more, stale, told, out>>
     \/ /\ \/ ~ Intact(got, 1)
           \/ {loc.hdr, buffer[loc.chunk].payload} # {got[1]}
        /\ Drop /\ UNCHANGED <<rx, stale>>

\* exanic_receive_chunk_recheck
Recheck == buffer[loc.chunk].info.gen = loc.gen

\* The packet is committed to the queue of its socket.
PollRecheck ==
  /\ pc = "recheck"
  /\ \/ /\ Recheck
        /\ Deliver(got, cu.blind \/ (half /\ written % N = loc.chunk))
        /\ pc' = Leave(more)
        /\ UNCHANGED <<adapter, api, rx, more, stale>>
     \/ ~ Recheck /\ Drop /\ UNCHANGED <<rx, stale>>

-----------------------------------------------------------------------------
Adapter == StartFrame \/ NextChunk \/ WriteInfo

\* The rest of a call that has begun.
Continue ==
  \/ CatchupChunk \/ CatchupEnds
  \/ pc = "spin" /\ ReceiveFrame
  \/ ProcessChunk \/ CheckSentinel \/ CopyChunk \/ ReceiveAbort
  \/ PollParse \/ PollCopy \/ PollBody \/ PollBodyCopy \/ PollValidate \/ PollRecheck

Call == Acquire \/ Release \/ ReceiveFrame \/ ReceiveChunk \/ GiveUp \/ PollHeader

Next == Adapter \/ Continue \/ Call

Spec == Init /\ [][Next]_vars

-----------------------------------------------------------------------------
(* Properties.                                                             *)

Infos == [gen : 0 .. G - 1, last : BOOLEAN, bad : BOOLEAN]

(* The values of the variables; the handle points into the ring.           *)
TypeOK ==
  /\ \A c \in 0 .. N - 1 : buffer[c].info \in Infos
  /\ rx \in [next : 0 .. N - 1, gen : 0 .. G - 1, sentinel : 0 .. N - 1, sgen : 0 .. G - 1]
  /\ pc \in {"closed", "idle", "catchup", "chunk", "spin", "check", "memcpy", "abort",
             "parse", "copy", "body", "bodycopy", "validate", "recheck"}
  /\ Len(got) <= MaxFrame
  /\ more \in BOOLEAN /\ stale \in BOOLEAN /\ told \in BOOLEAN

(* What a call returns as a frame is one frame that the adapter wrote,     *)
(* whole and in order, however far the adapter got while it was copied.    *)
(* There are two exceptions, excused: __exanic_rx_catchup met no end of a  *)
(* frame in a whole scan of the ring, which its comment says should not    *)
(* happen and a lap during the scan makes possible; and for a packet read  *)
(* in place, the second look was taken while the adapter was rewriting the *)
(* header chunk.  The handle points into the ring throughout.              *)
FramesIntact == TypeOK /\ out.whole

(* Frames are delivered in the order they arrived, none twice, and one is  *)
(* left out only if the reader was told or dropped a frame itself.         *)
LossReported == out.ordered

\* exanic_receive_abort skips the first chunk of a frame.
SkipsFirst ==
  /\ pc = "abort" /\ rx'.next # rx.next
  /\ buffer[rx.next].payload.idx = 1
  /\ ~ (half /\ written % N = rx.next)

(* exanic_receive_abort skips the rest of the frame the caller was reading *)
(* and nothing of the next one, except after exanic_receive_chunk_inplace  *)
(* has failed in the middle of a frame, which leaves more_chunks set.      *)
AbortWithinFrame == [][SkipsFirst => stale]_vars
=============================================================================
