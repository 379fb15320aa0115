------------------------------- MODULE TxFifo -------------------------------
(***************************************************************************)
(* exanic/include/exanic/fifo_tx.c: the transmit buffer of an ExaNIC port. *)
(* The library writes chunks one behind the other into a buffer, hands     *)
(* their offsets to the adapter, and reuses the space when the adapter has *)
(* reported a sequence number back.  Not every chunk asks for a report, so *)
(* the library must ask often enough never to wait for one that does not   *)
(* come.                                                                   *)
(*                                                                         *)
(* Sizes are in cache lines, the alignment of chunks.  What is written     *)
(* into a chunk does not matter, only where and when.                      *)
(***************************************************************************)
EXTENDS Integers, Sequences

CONSTANTS
  BufSize,   \* buffer_size
  QueueLen,  \* queue_len, a power of two
  Interval,  \* FEEDBACK_INTERVAL
  SeqMod,    \* the number of sequence numbers, 2^16 for the uint16_t of the code
  MaxStale,  \* bound: calls on a buffer acquired before its chunks were sent
  Sizes      \* the sizes of chunks the application asks for

ASSUME TxAssumption ==
  /\ BufSize \in Nat /\ QueueLen \in Nat /\ QueueLen > 1
  /\ Interval \in Nat /\ 2 * Interval < BufSize
  /\ SeqMod \in Nat /\ SeqMod > BufSize
  /\ SeqMod >= 2 * QueueLen /\ SeqMod % QueueLen = 0
  /\ MaxStale \in Nat
  /\ Sizes \subseteq Nat \ {0}

VARIABLES
  tx,        \* exanic_tx_t: [offset, feedbackSeq, request, rollover, next, need]
  offsets,   \* feedback_offsets
  feedback,  \* the word the adapter reports sequence numbers in
  cmds,      \* the chunks given to the adapter and not yet sent, oldest first
  pc,        \* where the library is
  size,      \* the size the running call asks for
  refused,   \* a call wrapped around and was refused, and none was sent since
  clean      \* the adapter had sent everything when the buffer was acquired

handle == <<tx, offsets>>
vars == <<tx, offsets, feedback, cmds, pc, size, refused, clean>>

\* (uint16_t)(a - b)
Diff(a, b) == (a - b) % SeqMod

\* The handle exanic_acquire_tx_buffer returns.
Acquired ==
  [offset |-> 0, feedbackSeq |-> 0, request |-> 0, rollover |-> 1, next |-> 1,
   need |-> FALSE]

NoOffsets == [i \in 0 .. QueueLen - 1 |-> IF i = 0 THEN BufSize ELSE 0]

Init ==
  /\ tx = Acquired /\ offsets = NoOffsets /\ feedback = 0
  /\ cmds = <<>> /\ pc = "idle" /\ size = 0
  /\ refused = FALSE /\ clean = TRUE

-----------------------------------------------------------------------------
(* The adapter sends the oldest chunk, then reports it if asked to.        *)

AdapterSends ==
  /\ cmds # <<>>
  /\ cmds' = Tail(cmds)
  /\ feedback' = IF Head(cmds).need THEN Head(cmds).seq ELSE feedback
  /\ UNCHANGED <<handle, pc, size, refused, clean>>

-----------------------------------------------------------------------------
(* exanic_prepare_tx_chunk.                                                *)

\* The call returns NULL.
Fails == pc' = "idle" /\ size' = 0

\* exanic_update_tx_feedback: a report that cannot be one of this handle's
\* chunks counts as one for all of them.
UpdateFeedback(t) ==
  IF Diff(t.next, feedback) <= QueueLen
    THEN /\ tx' = [t EXCEPT !.feedbackSeq = feedback]
         /\ UNCHANGED <<feedback, pc, size>>
    ELSE /\ tx' = [t EXCEPT !.feedbackSeq = Diff(t.next, 1)]
         /\ feedback' = Diff(t.next, 1)
         /\ Fails

\* exanic_transmit_frame, exanic_transmit_payload and their begin forms, for a
\* chunk of n lines; with a prepared chunk they fail at once.
Call(n) ==
  /\ pc = "idle" /\ (clean \/ tx.next <= MaxStale)
  /\ pc' = "seq" /\ size' = n
  /\ UNCHANGED <<handle, feedback, cmds, refused, clean>>

\* Bug form: off by one.
SeqsLeftOffByOne == Diff(tx.next, tx.feedbackSeq) <= QueueLen

\* There is a sequence number, and a place in feedback_offsets, for one more.
SeqsLeft == Diff(tx.next, tx.feedbackSeq) < QueueLen

\* Spin for sequence numbers.
WaitSeq ==
  /\ pc = "seq" /\ ~ SeqsLeft
  /\ UpdateFeedback(tx)
  /\ UNCHANGED <<offsets, cmds, refused, clean>>

HaveSeq ==
  /\ pc = "seq" /\ SeqsLeft
  /\ pc' = "space"
  /\ UNCHANGED <<handle, feedback, cmds, size, refused, clean>>

\* There was no wrap-around since the chunk reported last.
NotWrapped(t) == Diff(t.next, t.feedbackSeq) <= Diff(t.next, t.rollover)

\* The handle after the first test of an iteration: it may wrap around.
Turned ==
  IF NotWrapped(tx) /\ tx.offset + size > BufSize
    THEN [tx EXCEPT !.offset = 0, !.rollover = tx.next] ELSE tx

\* Bug form: the space up to the chunk that was reported is not looked at.
FitsAnywhere(t) == t.offset + size <= BufSize

\* Everything after the offset is free, or what is before the end of the chunk
\* that was reported last.
Fits(t) ==
  t.offset + size <=
    IF NotWrapped(t) THEN BufSize ELSE offsets[t.feedbackSeq % QueueLen]

\* Bug form: no feedback is requested for a wrap-around.
NeedsFeedbackNoWrap(t) ==
  LET sent == t.offset + size - offsets[t.request % QueueLen]
  IN  Diff(t.next, t.request) > QueueLen \div 2 \/ sent > Interval

\* The last request is too long ago: by sequence number, by a wrap-around, or
\* by the amount of data, a difference of unsigned numbers.
NeedsFeedback(t) ==
  LET sent == t.offset + size - offsets[t.request % QueueLen]
  IN  \/ Diff(t.next, t.request) > QueueLen \div 2
      \/ Diff(t.next, t.request) > Diff(t.next, t.rollover)
      \/ sent < 0 \/ sent > Interval

MaxChunkSize == BufSize \div 2 - Interval

\* There is room.
HaveSpace ==
  /\ pc = "space" /\ Fits(Turned)
  /\ tx' = [Turned EXCEPT !.need = NeedsFeedback(Turned)]
  /\ pc' = "write"
  /\ UNCHANGED <<offsets, feedback, cmds, size, refused, clean>>

TooLarge ==
  /\ pc = "space" /\ ~ Fits(Turned) /\ size > MaxChunkSize
  /\ tx' = Turned
  /\ Fails
  /\ refused' = (tx'.offset = 0 /\ tx'.rollover = tx'.next)
  /\ UNCHANGED <<offsets, feedback, cmds, clean>>

\* Spin for space.
WaitSpace ==
  /\ pc = "space" /\ ~ Fits(Turned) /\ size <= MaxChunkSize
  /\ UpdateFeedback(Turned)
  /\ UNCHANGED <<offsets, cmds, refused, clean>>

-----------------------------------------------------------------------------
(* The chunk is written, and sent or given up.                             *)

\* exanic_send_tx_chunk, with the size that was asked for or, after a begin,
\* a smaller one.
Send ==
  /\ pc = "write"
  /\ \E n \in 1 .. size :
       /\ cmds' = Append(cmds, [at |-> tx.offset, size |-> n, seq |-> tx.next,
                                need |-> tx.need])
       /\ offsets' = [offsets EXCEPT ![tx.next % QueueLen] = tx.offset + n]
       /\ tx' = [tx EXCEPT !.offset = @ + n,
                           !.request = IF tx.need THEN tx.next ELSE @,
                           !.next = (@ + 1) % SeqMod, !.need = FALSE]
  /\ pc' = "idle" /\ size' = 0 /\ refused' = FALSE
  /\ UNCHANGED <<feedback, clean>>

\* exanic_abort_transmit_frame, and the warm form of exanic_transmit_frame_ex,
\* which returns before it sends.
Abort ==
  /\ pc = "write"
  /\ tx' = [tx EXCEPT !.need = FALSE]
  /\ pc' = "idle" /\ size' = 0
  /\ UNCHANGED <<offsets, feedback, cmds, refused, clean>>

\* exanic_release_tx_buffer, and exanic_acquire_tx_buffer which is given the
\* same buffer and feedback slot again.
Reacquire ==
  /\ pc = "idle" /\ (clean \/ cmds = <<>>)
  /\ tx' = Acquired /\ offsets' = NoOffsets /\ feedback' = 0
  /\ refused' = FALSE /\ clean' = (cmds = <<>>)
  /\ UNCHANGED <<cmds, pc, size>>

-----------------------------------------------------------------------------
Library == WaitSeq \/ HaveSeq \/ HaveSpace \/ TooLarge \/ WaitSpace \/ Send \/ Abort

Next ==
  \/ AdapterSends
  \/ \E n \in Sizes : Call(n)
  \/ Library \/ Reacquire

Spec == Init /\ [][Next]_vars

-----------------------------------------------------------------------------
(* Properties.                                                             *)

Seqs == 0 .. SeqMod - 1

(* The values of the variables.                                            *)
TypeOK ==
  /\ tx \in [offset : 0 .. BufSize, feedbackSeq : Seqs, request : Seqs,
             rollover : Seqs, next : Seqs, need : BOOLEAN]
  /\ offsets \in [0 .. QueueLen - 1 -> 0 .. BufSize]
  /\ feedback \in Seqs
  /\ pc \in {"idle", "seq", "space", "write"}
  /\ refused \in BOOLEAN /\ clean \in BOOLEAN

(* The chunk that the application writes into lies in the buffer and       *)
(* covers no byte of a chunk the adapter has still to send.  The offsets   *)
(* stay within the buffer throughout.                                      *)
NoOverwrite ==
  /\ TypeOK
  /\ pc = "write" /\ clean =>
       /\ tx.offset + size <= BufSize
       /\ \A i \in DOMAIN cmds : \/ tx.offset + size <= cmds[i].at
                                 \/ cmds[i].at + cmds[i].size <= tx.offset

(* The library takes a chunk for sent only if the adapter has sent it, so  *)
(* the adapter's queue holds less than queue_len chunks.                   *)
SentIsSent ==
  clean => /\ Len(cmds) < QueueLen
           /\ \A i \in DOMAIN cmds :
                Diff(tx.next, cmds[i].seq) < Diff(tx.next, tx.feedbackSeq)
=============================================================================
