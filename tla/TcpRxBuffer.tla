----------------------------- MODULE TcpRxBuffer -----------------------------
(***************************************************************************)
(* exanic/include/exasock/tcp_buffer.h: the receive buffer of a TCP socket *)
(* that the library and the kernel module fill together.  Whoever wants to *)
(* write a segment locks it by moving proc_seq past it; what is in order   *)
(* moves recv_seq, what is not goes to a short list of segments and        *)
(* proc_seq moves back.  The library writes a segment before it knows that *)
(* it is valid, and gives it up when the checksum is wrong or the adapter  *)
(* has overwritten the frame (exanic_poll_single_rx).                      *)
(*                                                                         *)
(* Receiving and reading hold the socket's rx_lock; the kernel does not.   *)
(* The counters of duplicate acknowledgements are left out: they are read  *)
(* by the kernel only.                                                     *)
(***************************************************************************)
EXTENDS Integers

CONSTANTS
  BufSize,   \* rx_buffer_size
  SeqMod,    \* the number of sequence numbers, 2^32 for the uint32_t of the code
  MaxSegs,   \* EXA_TCP_MAX_RX_SEGMENTS
  First,     \* the sequence number of the first byte
  Total,     \* the number of bytes the peer sends
  MaxLen     \* the longest segment it sends them in

ASSUME TcpAssumption ==
  /\ BufSize \in Nat \ {0} /\ SeqMod \in Nat /\ SeqMod % BufSize = 0
  /\ MaxSegs \in Nat \ {0} /\ MaxLen \in Nat
  /\ First \in 0 .. SeqMod - 1 /\ Total \in Nat
  /\ BufSize + Total + MaxLen < SeqMod \div 2

VARIABLES
  read,     \* read_seq
  recv,     \* recv_seq
  proc,     \* proc_seq
  segs,     \* recv_seg
  right,    \* the sequence numbers whose byte is in the buffer
  pc,       \* where exanic_poll_single_rx is
  pkt,      \* the segment it receives: [seq, len, valid]
  old,      \* proc_seq in exa_tcp_rx_buffer_alloc, then prev_proc_seq
  seen,     \* recv_seq in exa_tcp_rx_buffer_commit
  kernel,   \* the segment the kernel has locked: [from, to]
  spoiled   \* a segment was given up that overlaps two entries of the list

local == <<pc, pkt, old, seen>>
vars == <<read, recv, proc, segs, right, local, kernel, spoiled>>

Add(a, n) == (a + n) % SeqMod
Sub(a, b) == (a - b) % SeqMod

\* seq_compare: the sign of the difference as a signed number.
Before(a, b) == Sub(b, a) \in 1 .. SeqMod \div 2 - 1
NotAfter(a, b) == a = b \/ Before(a, b)

Span(from, to) == {Add(from, i) : i \in 0 .. Sub(to, from) - 1}

Empty == [begin |-> 0, end |-> 0]
Used(g) == g.begin # g.end
NoPkt == [seq |-> 0, len |-> 0, valid |-> TRUE]
NoLock == [from |-> 0, to |-> 0]

Init ==
  /\ read = First /\ recv = read /\ proc = read /\ kernel = NoLock
  /\ segs = [i \in 1 .. MaxSegs |-> Empty]
  /\ right = {}
  /\ pc = "idle" /\ pkt = NoPkt /\ old = 0 /\ seen = 0
  /\ spoiled = FALSE

-----------------------------------------------------------------------------
(* exa_tcp_rx_buffer_alloc.                                                *)

\* Bug form: the bytes that were received and not read are not counted.
FitsFromRecv(to) == Sub(to, recv) <= BufSize

\* The ring buffer has space for the segment.
Fits(to) == Sub(to, read) <= BufSize

\* The part of the segment from here on is kept, or nothing of it.
Kept(from, to, valid) ==
  pkt' = [seq |-> from, len |-> Sub(to, from), valid |-> valid]

\* A segment arrives.  It is refused when it is empty, does not fit or brings
\* nothing new; its payload is skipped then.
Arrive(from, n, valid) ==
  LET to == Add(from, n) IN
  /\ pc = "idle"
  /\ valid => Sub(to, First) <= Total
  /\ IF n = 0 \/ ~ Fits(to) \/ NotAfter(to, proc)
       THEN /\ pc' = "body" /\ Kept(to, to, valid) /\ old' = 0
       ELSE /\ pc' = "lock" /\ Kept(from, to, valid) /\ old' = proc
  /\ UNCHANGED <<read, recv, proc, segs, right, seen, kernel, spoiled>>

\* proc_seq_update: one compare and swap, and what alloc skips of the segment.
Lock ==
  LET to == Add(pkt.seq, pkt.len)
      from == IF Before(pkt.seq, old) THEN old ELSE pkt.seq
  IN
  /\ pc = "lock"
  /\ \/ /\ proc = old
        /\ proc' = to /\ Kept(from, to, pkt.valid) /\ pc' = "body"
        /\ UNCHANGED old
     \/ /\ proc # old /\ Before(proc, to)
        /\ old' = proc
        /\ UNCHANGED <<proc, pkt, pc>>
     \/ /\ proc # old /\ ~ Before(proc, to)
        /\ Kept(to, to, pkt.valid) /\ old' = 0 /\ pc' = "body"
        /\ UNCHANGED proc
  /\ UNCHANGED <<read, recv, segs, right, seen, kernel, spoiled>>

-----------------------------------------------------------------------------
(* The list of segments: an array whose first unused entry ends it.        *)

\* The first index from i on that is not in ids, the indices of some entries.
FirstNot(i, ids) ==
  CHOOSE k \in (i .. MaxSegs + 1) \ ids : i .. k - 1 \subseteq ids

\* The entries from i on move to k; the rest is cleared.
MoveDown(s, i, k) ==
  [h \in 1 .. MaxSegs |->
     IF h < k THEN s[h] ELSE IF h + i - k <= MaxSegs THEN s[h + i - k] ELSE Empty]

\* The entries that end, or begin, no later than the sequence number x.
EndedBy(s, x) == {h \in 1 .. MaxSegs : Used(s[h]) /\ NotAfter(s[h].end, x)}
BegunBy(s, x) == {h \in 1 .. MaxSegs : Used(s[h]) /\ NotAfter(s[h].begin, x)}

\* Entries the kernel has gone past are removed.
WithoutProcessed(s, r) ==
  LET t == MoveDown(s, FirstNot(2, EndedBy(s, r)), 1)
  IN  IF 1 \notin EndedBy(s, r) THEN s
      ELSE IF Used(t[1]) /\ Before(t[1].begin, r)
             THEN [t EXCEPT ![1].begin = r] ELSE t

\* Bug form: the entries it reaches stay.
ExpandOnly(s, i, g) ==
  [s EXCEPT ![i] =
     [begin |-> IF Before(g.begin, s[i].begin) THEN g.begin ELSE s[i].begin,
      end |-> IF Before(s[i].end, g.end) THEN g.end ELSE s[i].end]]

\* The entry i becomes the segment g, and the ones behind it that it reaches
\* become a part of it.
Expand(s, i, g) ==
  LET begin == IF Before(g.begin, s[i].begin) THEN g.begin ELSE s[i].begin
      end == IF Before(s[i].end, g.end) THEN g.end ELSE s[i].end
      t == [s EXCEPT ![i] = [begin |-> begin, end |-> end]]
      j == FirstNot(i + 1, BegunBy(t, end))
      last == t[j - 1].end
  IN  MoveDown([t EXCEPT ![i].end = IF Before(end, last) THEN last ELSE end],
               j, i + 1)

\* An out of order segment takes its place, if there is one.
Insert(s, g) ==
  LET i == FirstNot(1, {h \in 1 .. MaxSegs : Used(s[h]) /\ Before(s[h].end, g.begin)})
  IN  IF i > MaxSegs THEN s
      ELSE IF ~ Used(s[i]) THEN [s EXCEPT ![i] = g]
      ELSE IF Before(g.end, s[i].begin)
        THEN [h \in 1 .. MaxSegs |->
                IF h < i THEN s[h] ELSE IF h = i THEN g ELSE s[h - 1]]
      ELSE Expand(s, i, g)

-----------------------------------------------------------------------------
(* exanic_poll_recv_body and the validation of the packet.                 *)

End == Add(pkt.seq, pkt.len)

\* The packet is valid: its bytes are in the buffer.  exa_tcp_rx_buffer_commit
\* begins: it reads recv_seq and removes what the kernel has gone past.
ReceiveValid ==
  /\ pc = "body" /\ pkt.valid
  /\ pc' = "commit" /\ seen' = recv
  /\ right' = right \cup Span(pkt.seq, End)
  /\ segs' = IF pkt.len > 0 THEN WithoutProcessed(segs, recv) ELSE segs
  /\ UNCHANGED <<read, recv, proc, pkt, old, kernel, spoiled>>

\* The bytes are written, or some of them, before the packet is found invalid.
ReceiveInvalid ==
  /\ pc = "body" /\ ~ pkt.valid
  /\ pc' = "abort"
  /\ right' = right \ Span(pkt.seq, End)
  /\ UNCHANGED <<read, recv, proc, segs, pkt, old, seen, kernel, spoiled>>

\* A step ends the processing of the segment; what is neither received nor on
\* the list is of no use any more.
Done ==
  /\ pc' = "idle" /\ pkt' = NoPkt /\ old' = 0 /\ seen' = 0
  /\ right' = right \cap (Span(read, recv') \cup
                          UNION {Span(segs'[i].begin, segs'[i].end) : i \in 1 .. MaxSegs})

-----------------------------------------------------------------------------
(* exa_tcp_rx_buffer_commit.                                               *)

\* Nothing was kept: only the counters change.
CommitNothing ==
  /\ pc = "commit" /\ pkt.len = 0
  /\ UNCHANGED <<read, recv, proc, segs, kernel, spoiled>>
  /\ Done

\* The segment is the next in order: what it reaches on the list follows it.
CommitInOrder ==
  LET reached == BegunBy(segs, proc)
      i == FirstNot(2, reached)
      last == segs[i - 1].end
      merged == 1 \in reached
  IN
  /\ pc = "commit" /\ pkt.len > 0 /\ seen = pkt.seq
  /\ proc' = IF merged /\ Before(proc, last) THEN last ELSE proc
  /\ segs' = IF merged THEN MoveDown(segs, i, 1) ELSE segs
  /\ recv' = proc'
  /\ IF Used(segs'[1]) /\ NotAfter(segs'[1].begin, proc')
       THEN pc' = "assert" /\ UNCHANGED <<pkt, old, seen, right>> ELSE Done
  /\ UNCHANGED <<read, kernel, spoiled>>

\* Bug form: the kernel is not waited for.
KernelIdleIgnored == TRUE

\* The kernel had no segment locked when the library locked its own.
KernelIdle == seen = old

\* Bug form: proc_seq is not moved back.
MovedBackNever == proc

\* proc_seq when the lock is given back.
MovedBack == old

\* It is not: it goes to the list, and proc_seq back, unless the kernel has
\* filled the gap meanwhile.
CommitOutOfOrder ==
  LET s == Insert(segs, [begin |-> pkt.seq, end |-> End]) IN
  /\ pc = "commit" /\ pkt.len > 0 /\ seen # pkt.seq
  /\ IF Used(s[1]) /\ s[1].begin = seen /\ KernelIdle
       THEN /\ recv' = s[1].end /\ proc' = s[1].end
            /\ segs' = MoveDown(s, 2, 1)
       ELSE /\ segs' = s /\ proc' = MovedBack
            /\ UNCHANGED recv
  /\ Done
  /\ UNCHANGED <<read, kernel, spoiled>>

-----------------------------------------------------------------------------
(* exa_tcp_rx_buffer_abort.                                                *)

Overlaps(g) == Used(g) /\ Before(pkt.seq, g.end) /\ Before(g.begin, End)

\* Bug form: the list is left as it is.
PurgeNothing(s) == s

\* The entry the loop over the list moves when it has come to the entry i: the
\* next when this one overlaps the segment, which is then not looked at itself.
MovedNext(s, i) ==
  IF i > MaxSegs \/ ~ Used(s[i]) THEN MaxSegs + 2
  ELSE IF Overlaps(s[i]) THEN i + 1 ELSE i

\* Its iteration j moves the entry from[j] to j.
MovedFrom(s) ==
  LET from[j \in 0 .. MaxSegs] ==
        IF j = 0 THEN 0 ELSE MovedNext(s, from[j - 1] + 1)
  IN  from

Purge(s) ==
  LET from == MovedFrom(s)
  IN  [j \in 1 .. MaxSegs |->
         CASE from[j] \in 1 .. MaxSegs -> s[from[j]]
           [] from[j] = MaxSegs + 1 -> Empty
           [] OTHER -> s[j]]

AbortSegment ==
  /\ pc = "abort"
  /\ segs' = Purge(segs)
  /\ proc' = IF pkt.len > 0 THEN MovedBack ELSE proc
  /\ spoiled' = (spoiled \/ \E i \in 1 .. MaxSegs : \E k \in 1 .. i - 1 :
                               Overlaps(segs[i]) /\ Overlaps(segs[k]))
  /\ UNCHANGED <<read, recv, kernel>>
  /\ Done

-----------------------------------------------------------------------------
(* recv(): the application takes n bytes, under the rx_lock.               *)

Read(n) ==
  /\ pc = "idle" /\ n <= Sub(recv, read)
  /\ read' = Add(read, n)
  /\ right' = right \ Span(read, read')
  /\ UNCHANGED <<recv, proc, segs, local, kernel, spoiled>>

-----------------------------------------------------------------------------
(* The kernel module, which receives the same packets: it locks the next   *)
(* bytes when nobody has, and then delivers them.                          *)

KernelLocks(n) ==
  LET to == Add(recv, n) IN
  /\ kernel = NoLock /\ proc = recv
  /\ Fits(to) /\ Sub(to, First) <= Total
  /\ kernel' = [from |-> recv, to |-> to] /\ proc' = to
  /\ UNCHANGED <<read, recv, segs, right, local, spoiled>>

KernelDelivers ==
  /\ kernel # NoLock
  /\ right' = right \cup Span(kernel.from, kernel.to)
  /\ recv' = kernel.to /\ kernel' = NoLock
  /\ UNCHANGED <<read, proc, segs, local, spoiled>>

-----------------------------------------------------------------------------
Receiving ==
  \/ Lock \/ ReceiveValid \/ ReceiveInvalid
  \/ CommitNothing \/ CommitInOrder \/ CommitOutOfOrder
  \/ AbortSegment

Next ==
  \/ \E d \in 0 .. Total, n \in 0 .. MaxLen, valid \in BOOLEAN :
       Arrive(Add(First, d), n, valid)
  \/ Receiving
  \/ \E n \in 1 .. BufSize : Read(n)
  \/ \E n \in 1 .. MaxLen : KernelLocks(n)
  \/ KernelDelivers

Spec == Init /\ [][Next]_vars

-----------------------------------------------------------------------------
(* Properties.                                                             *)

(* The values of the variables: read_seq, recv_seq and proc_seq are in this *)
(* order, within the ring buffer.                                          *)
TypeOK ==
  /\ {read, recv, proc, old, seen, kernel.from, kernel.to} \subseteq 0 .. SeqMod - 1
  /\ pc \in {"idle", "lock", "body", "commit", "abort", "assert"}
  /\ Sub(recv, read) <= Sub(proc, read) /\ Sub(proc, read) <= BufSize

(* What the application may read is what the peer sent, although invalid   *)
(* packets are written into the buffer before they are found invalid.  The *)
(* exception: a packet is given up that overlaps two entries of the list,  *)
(* and exa_tcp_rx_buffer_abort does not look at the one it moves.          *)
DataIntact == ~ spoiled => Span(read, recv) \subseteq right

(* The assertion in exa_tcp_rx_buffer_commit holds: after an in order      *)
(* segment the next one on the list cannot be merged in.  (Under the same  *)
(* exception: the list is not in order any more then.)                     *)
AssertsHold == ~ spoiled => pc # "assert"

(* Every lock is given back: proc_seq is recv_seq when neither the library *)
(* nor the kernel processes a segment.                                     *)
LockReturned == pc = "idle" /\ kernel = NoLock => proc = recv

(* recv_seq, which the library and the kernel both write, never goes back. *)
RecvAdvances == [][NotAfter(recv, recv')]_vars
=============================================================================
