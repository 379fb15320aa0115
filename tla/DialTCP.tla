------------------------------ MODULE DialTCP -------------------------------
(***************************************************************************)
(* socket/tcp.go: DialTCP reads a TCP connection into a StreamCache and    *)
(* offers what the cache holds to the data handler, which answers with the *)
(* number of bytes it used.  The peer, the caller's context and the        *)
(* handler are the environment; they run between any two steps of the      *)
(* loop.                                                                   *)
(***************************************************************************)
EXTENDS StreamCacheOps

CONSTANTS
  BuffSize,   \* the size of the slice connRd.Read fills
  Counts      \* the counts of used bytes the handler may report

ASSUME DialAssumption ==
  /\ BuffSize \in Nat \ {0}
  /\ Counts \subseteq Int

VARIABLES
  pc,        \* where DialTCP is: dial, select, read, handle or returned
  cause,     \* why it returned, "none" before
  ctxDone,   \* the context is cancelled
  peer,      \* the peer's end of the connection: open, closed or reset
  sent,      \* every byte the peer has sent
  unread,    \* those that no Read has returned yet
  cache,     \* the StreamCache of the connection
  taken,     \* the bytes the handler has reported as used
  offered,   \* the stream up to the end of the handler's last view of it
  lateCalls  \* handler calls made after the context was cancelled

world == <<peer, sent, ctxDone>>
history == <<taken, offered, lateCalls>>
vars == <<pc, cause, world, unread, cache, history>>

\* DialTCP returns nil for the first three, an error for the others.
Causes == {"cancelled", "peer_eof", "handler_eof", "read_error", "handler_error", "dial_error"}

Init ==
  /\ pc = "dial"
  /\ cause = "none"
  /\ ctxDone = FALSE
  /\ peer = "open"
  /\ sent = << >> /\ unread = << >>
  /\ cache = NewStreamCache
  /\ taken = << >> /\ offered = << >>
  /\ lateCalls = 0

-----------------------------------------------------------------------------
(* The environment.                                                        *)

Cancel ==
  /\ ~ ctxDone
  /\ ctxDone' = TRUE
  /\ UNCHANGED <<pc, cause, peer, sent, unread, cache, history>>

PeerSend(b) ==
  /\ pc # "dial" /\ peer = "open"
  /\ sent' = Append(sent, b)
  /\ unread' = Append(unread, b)
  /\ UNCHANGED <<pc, cause, peer, ctxDone, cache, history>>

PeerEnds(how) ==
  /\ pc # "dial" /\ peer = "open"
  /\ peer' = how
  /\ UNCHANGED <<pc, cause, sent, ctxDone, unread, cache, history>>

-----------------------------------------------------------------------------
(* DialTCP.                                                                *)

\* A return statement; the deferred conn.Close() ends the connection.
Return(why) ==
  /\ pc' = "returned"
  /\ cause' = why

\* A nil handler, an address that does not resolve, a refused connection.
DialFails ==
  /\ pc = "dial"
  /\ Return("dial_error")
  /\ UNCHANGED <<world, unread, cache, history>>

Connect ==
  /\ pc = "dial"
  /\ pc' = "select"
  /\ UNCHANGED <<cause, world, unread, cache, history>>

\* Bug form: the loop breaks out of the select and not out of the function.
SelectDoneBreaks ==
  /\ pc = "select" /\ ctxDone
  /\ pc' = "read"
  /\ UNCHANGED <<cause, world, unread, cache, history>>

\* case <-ctx.Done()
SelectDone ==
  /\ pc = "select" /\ ctxDone
  /\ Return("cancelled")
  /\ UNCHANGED <<world, unread, cache, history>>

\* Bug form: the context is one of two ready cases and may lose.
SelectDefaultRaces ==
  /\ pc = "select"
  /\ pc' = "read"
  /\ UNCHANGED <<cause, world, unread, cache, history>>

\* default: taken only when the context is not done at this moment.
SelectDefault ==
  /\ pc = "select" /\ ~ ctxDone
  /\ pc' = "read"
  /\ UNCHANGED <<cause, world, unread, cache, history>>

\* The call of the handler with cached = cache.Merge(buff[:n]).
CallHandler ==
  /\ pc' = "handle"
  /\ offered' = taken \o Bytes(cache')
  /\ lateCalls' = lateCalls + (IF ctxDone THEN 1 ELSE 0)

\* Bug form: the new bytes replace what is left in the cache.
ReadDataReplaces(n) ==
  /\ pc = "read"
  /\ n <= BuffSize /\ n <= Len(unread)
  /\ unread' = SubSeq(unread, n + 1, Len(unread))
  /\ cache' = Rotate(cache, CacheLen(cache), SubSeq(unread, 1, n))
  /\ CallHandler
  /\ UNCHANGED <<cause, world, taken>>

\* connRd.Read returns n bytes that have arrived, at least one and at most
\* as many as buff holds; Merge copies them into the cache.
ReadData(n) ==
  /\ pc = "read"
  /\ n <= BuffSize /\ n <= Len(unread)
  /\ unread' = SubSeq(unread, n + 1, Len(unread))
  /\ cache' = Merge(cache, SubSeq(unread, 1, n))
  /\ CallHandler
  /\ UNCHANGED <<cause, world, taken>>

\* Bug form: the end of the stream is taken for a read of no bytes.
ReadEOFRetries ==
  /\ pc = "read"
  /\ peer = "closed" /\ unread = << >>
  /\ pc' = "select"
  /\ UNCHANGED <<cause, world, unread, cache, history>>

\* Read reports io.EOF once everything sent before the close is read.
ReadEOF ==
  /\ pc = "read"
  /\ peer = "closed" /\ unread = << >>
  /\ Return("peer_eof")
  /\ UNCHANGED <<world, unread, cache, history>>

\* A reset may cost the bytes that were not read yet.
ReadError ==
  /\ pc = "read"
  /\ peer = "reset"
  /\ Return("read_error")
  /\ UNCHANGED <<world, unread, cache, history>>

\* What the handler's answer removes from the front of the cache.
UsedOf(used) ==
  IF used < 0 \/ used > CacheLen(cache) THEN CacheLen(cache) ELSE used

\* The handler returns a count and no error.  A negative count empties the
\* cache (after a warning), zero leaves it alone.
HandlerReturns(used) ==
  /\ pc = "handle"
  /\ taken' = taken \o SubSeq(Bytes(cache), 1, UsedOf(used))
  /\ cache' = IF used < 0 THEN Rotate(cache, CacheLen(cache), << >>)
              ELSE IF used = 0 THEN cache
              ELSE Rotate(cache, used, << >>)
  /\ pc' = "select"
  /\ UNCHANGED <<cause, world, unread, offered, lateCalls>>

HandlerFails(why) ==
  /\ pc = "handle"
  /\ Return(why)
  /\ UNCHANGED <<world, unread, cache, history>>

Handler ==
  \/ \E used \in Counts : HandlerReturns(used)
  \/ \E why \in {"handler_eof", "handler_error"} : HandlerFails(why)

Loop ==
  \/ DialFails \/ Connect
  \/ SelectDone \/ SelectDefault
  \/ \E n \in 1 .. BuffSize : ReadData(n)
  \/ ReadEOF \/ ReadError
  \/ Handler

Environment ==
  \/ Cancel
  \/ \E b \in Byte : PeerSend(b)
  \/ \E how \in {"closed", "reset"} : PeerEnds(how)

Next == Loop \/ Environment

Spec == Init /\ [][Next]_vars

-----------------------------------------------------------------------------
(* Properties.                                                             *)

(* The values of the program's variables.                                  *)
TypeOK ==
  /\ pc \in {"dial", "select", "read", "handle", "returned"}
  /\ cause \in Causes \cup {"none"}
  /\ ctxDone \in BOOLEAN
  /\ peer \in {"open", "closed", "reset"}
  /\ sent \in Seq(Byte) /\ unread \in Seq(Byte)
  /\ IsCache(cache)
  /\ taken \in Seq(Byte) /\ offered \in Seq(Byte)
  /\ lateCalls \in Nat

(* Every byte the peer sent is, in order and exactly once, either used by  *)
(* the handler, held in the cache, or still to be read: neither the reuse  *)
(* of buff nor the cache's moving and growing, nor a count of used bytes   *)
(* that is negative, zero or too large, loses or repeats part of the       *)
(* stream.                                                                 *)
StreamIntact == taken \o Bytes(cache) \o unread = sent

(* DialTCP returns nil for a closed connection only after the handler was  *)
(* offered everything the peer sent before it closed.                      *)
PeerEOFDeliversAll == cause = "peer_eof" => offered = sent

(* The handler is called at most once after the context is cancelled: for  *)
(* the data of the Read that was waiting when it happened.                 *)
OneLateCall == lateCalls <= 1
=============================================================================
