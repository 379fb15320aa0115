----------------------------- MODULE ByteStream -----------------------------
(***************************************************************************)
(* What a StreamCache promises its callers: a queue of bytes.  Data is     *)
(* added at the end, what the handler reports as used leaves from the      *)
(* front, and a count larger than what is held empties the queue.          *)
(***************************************************************************)
EXTENDS Integers, Sequences

CONSTANTS
  Byte,         \* the values of a byte
  Chunks,       \* the byte slices callers add
  UsedCounts    \* the counts of used bytes callers report

VARIABLES
  pending,   \* the bytes added and not used yet, oldest first
  call       \* the last call made

\* The queue without its first n bytes.
Drop(s, n) == SubSeq(s, n + 1, Len(s))

Init ==
  /\ pending = << >>
  /\ call = [op |-> "new"]

Merge(data) ==
  /\ pending' = pending \o data
  /\ call' = [op |-> "merge", data |-> data]

Rotate(n, data) ==
  /\ pending' = Drop(pending, n) \o data
  /\ call' = [op |-> "rotate", used |-> n, data |-> data]

Next ==
  \/ \E data \in Chunks : Merge(data)
  \/ \E n \in UsedCounts, data \in Chunks : Rotate(n, data)

Spec == Init /\ [][Next]_<<pending, call>>
=============================================================================
