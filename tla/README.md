# A TLA+ model of pkt4go

pkt4go is a Go library that brings TCP and UDP payload from a socket, from
libpcap or from a kernel-bypass adapter (Solarflare ef_vi, ExaNIC) to a data
handler. This directory holds its specifications, their TLC configurations
and the proofs TLAPS checks. `PROJECT.json` lists the runs, what every
definition stands for in the source, the hazards, the findings and the
theorems.

## The parts of the system

| part | source | state | operations | what is hard about it |
|---|---|---|---|---|
| stream cache | `core/stream.go` | array, `used`, `offset`, `cap`; the map of caches by session | `Merge`, `Rotate`, `append`, `GetStreamCache` | moving and growing at particular fill levels; a map that outlives captures |
| TCP client | `socket/tcp.go` | a cache, a connection | `DialTCP` | cancellation between blocking reads; any count from the handler |
| multicast listener | `socket/multicast.go`, `socket/errors.go`, `errors/errors.go` | a socket | `ServeMultiCast` | which errors are recoverable |
| libpcap capture | `pcap/capture.go` | the map of caches | `StartCapture` | packets that do not decode; sessions that interleave; captures one after the other |
| onload device | `onload/cgo_onload_linux.go` | free list, receive ring, event queue | `CreateHandler`, `refillRxRing`, `releasePktBuf`, `pollEvq`, four event loops | ownership of buffers; two goroutines on one list |
| onload capture | the same file | channel, shared `err`, `segment` | `StartCapture` | shutdown, errors from both sides, release of what is not decoded |
| exanic capture | `exanic/cgo_exanic_linux.go` | channel, `segment`, pooled frames | `StartCapture` | as onload, without a ring; buffers shared through two pools |
| packets and pools | `core/core.go` | pools of frames, packets, segments, payload slices | `Create…`, `Release` | a frame is in the pool while its release goes on |
| header decoding | `core/core.go`, `core/buffer.go`, `utils/cstr.go` | none | `Unpack`, `GetPayload`, `Buffer` | lengths and offsets |
| addresses | `socket/types.go`, `core/session.go` | none | parsing, printing | – |
| exanic receive fifo | `exanic/include/exanic/fifo_rx.c`, `fifo_rx.h` | next chunk and generation, sentinel | `exanic_receive_frame`, `…_chunk`, `…_abort`, catch-up | an adapter that laps the reader |
| exanic transmit fifo | `exanic/include/exanic/fifo_tx.c` | offsets and 16-bit sequence numbers | `exanic_transmit_…`, begin, end, abort | space that comes back only when a report was requested |
| exasock TCP receive buffer | `exanic/include/exasock/tcp_buffer.h` | `read_seq`, `recv_seq`, `proc_seq`, out of order segments | alloc, commit, abort, read | the kernel receives into the same buffer |
| exasock packet reception | `exanic/include/exasock/exanic.c` | `more_chunks`, a locked region | `exanic_poll_single_rx` | packets read in place, invalid ones found late |
| C example | `examples/onload_c` | as the onload device | event loops | the origin of the Go event loops |

`DialTCP` and the libpcap capture keep what the handler has not used in a
stream cache. The onload and exanic captures do not: their handler gets each
segment once. All captures end on a cancelled context, on an error, and, with
nil, when the handler returns `io.EOF`. The exanic capture is a user of
`exanic_receive_frame`; the rest of the vendored C library stands beside it.

What each part has to guarantee:

- stream cache: it is a byte queue; no slice panics; memory does not grow while
  the caller keeps up;
- TCP client: the handler sees every byte in order, once it is used it does not
  come back, and the call ends;
- libpcap capture: sessions do not mix, no packet makes it panic;
- onload device: a buffer has one owner; the ring is refilled as long as there
  are free buffers;
- onload capture: packets in order, buffers come back, the capture ends, errors
  are reported, the interface is not used after it is freed;
- exanic capture: the handler gets the bytes of its packet, frames have one
  holder, the capture ends and gives the device back;
- exanic receive fifo: what is delivered is one frame as it arrived, losses are
  reported, calls return;
- exanic transmit fifo: nothing is overwritten before it is sent, calls return;
- TCP receive buffer: what is read is what the peer sent, in order, and the
  socket can always accept what is missing.

## Modules

| module | models | theorems in |
|---|---|---|
| `StreamCacheOps` | the methods of `StreamCache` as operators on a record | `StreamCacheProofs` |
| `ByteStream` | what a stream cache promises: a queue of bytes | |
| `StreamCache` | one cache under any sequence of `Merge` and `Rotate` | `StreamCacheProofs` |
| `DialTCP` | `DialTCP`, with peer, context and handler | `StreamCacheProofs` |
| `PcapCapture` | `StartCapture` of `pcap`, `GetStreamCache` | `StreamCacheProofs` |
| `OnloadRing` | the owners of the packet buffers; `refillRxRing`, `CreateHandler`'s fill | `OnloadRingProofs` |
| `FreeList` | the linked list of free buffers, one load or store per step | `OnloadRingProofs` |
| `OnloadCapture` | `StartCapture` of `onload`, its event loops and the adapter | `OnloadCaptureProofs` |
| `ExanicCapture` | `StartCapture` of `exanic`, its goroutine, the pools of frames and payload slices | `ExanicCaptureProofs` |
| `RxFifo` | the receive fifo with three kinds of reader and the adapter | `RxFifoProofs` |
| `TxFifo` | the transmit fifo and the adapter | `TxFifoProofs` |
| `TcpRxBuffer` | the TCP receive buffer, the library and the kernel | `TcpRxListProofs`, `TcpRxBufferProofs` |

The `MC…` modules give constants their values and state the liveness
properties, which need fairness. Where the theorems of two modules stand in one
proof module, the definitions have names of their own (`StreamInit`,
`CaptureInit`, `ListInit` and so on, for what other modules call `Init`).

**Stream cache.** A record with the fields of the Go struct; the array is a
function on `0..cap-1`. `MakeRoom` is the choice in `append` between the free
space, `MoveForward` and `Grow`. `StreamCache` keeps the last call as history,
so that the refinement of `ByteStream` compares call by call: without it a lost
byte would look like a `Rotate`.

**TCP client.** `pc` is where the loop is. `ReadData(n)` is a `Read` of `n`
bytes, the `Merge` and the call of the handler; `HandlerReturns(used)` the
switch on its count. `taken`, `offered` and `lateCalls` are history.

**libpcap capture.** `caches` is the map, a function on the sessions that are in
it. A capture may be started again after it returned; the map stays. `received`,
`consumed` and `misled` are history. Panics are a state, so that what leads to
one can be asked for.

**Onload buffers.** `free`, `ring` and `app` are the three owners; `nFree` is
counted apart, as in the code. `Refill` takes as many batches as the do-while
of `refillRxRing`. Which free buffer is next is left open there; `FreeList` has
the links. In `FreeList` the constant `OneThread` says whether the pushes of
`releasePktBuf` may fall between the steps of a refill. One push runs at a
time; the pushes of the event loop itself are among them only when `OneThread`
holds.

**Onload capture.** `epc` and `cpc` are the program counters of the event loop
and of `StartCapture`. The four loops share their steps; `mode` chooses. An
event carries a buffer and the kind of frame the decoding meets. `Assign` is a
write of `StartCapture` to the result variable `err` that both goroutines
share, `LoopReturns` the event loop's. The buffers move by the actions of
`OnloadRing`, and `ImplementsRing` says that the composition only moves them so.
Pool operations are single steps here. The frames of an event for several
frames are separate entries; only the ones whose errors are ignored differ, and
they are kinds of their own.

**Exanic capture.** `ppc` and `cpc` are the goroutine that receives and
`StartCapture`. Frames and payload slices are objects: `buf` says which slice a
frame's `Buffer` refers to, `data` which frame was last written into a slice.
Objects nobody refers to are garbage and are allocated again. `ReleasePacket`
and `PutSlice` are the two halves of `EtherFrame.Release` in `StartCapture`; the
goroutine, the only one that takes from these pools, releases in one step.
`preLayer` is what the variable `segment`, which is never reset, still leads to.
`payloadPool` (a library of its own) is modelled from its use: `GetSlice` gives a
slice that was put or a new one. Its multiplicity is left out: a slice is in it
or not, as if further copies were dropped, which a `sync.Pool` may do.
`Unpack` compares a capacity with the size of its header, so with slices of 1500
bytes the kinds `badHeader` and `badSegment` are what a smaller slice would give.

**Receive fifo.** A chunk has a payload and a word with its generation; the
adapter writes them in this order, and the reader's loads and copies are steps
of their own, so that it can be lapped between any two. A payload is the number
of its chunk since the start, with its place in its frame: enough to tell a
frame from a mixture. `api` is the kind of reader: a call of
`exanic_receive_frame` as in the Go capture, a caller of `exanic_receive_chunk`,
or `exanic_poll_single_rx`, which reads in place. `CatchupChunk` is one step of
the backward scan of `__exanic_rx_catchup`. `told`, `stale` and `out` are
history.

**Transmit fifo.** `tx` is the handle; sizes are in cache lines. `WaitSeq` and
`WaitSpace` are one turn of the two spinning loops, with the update of the
feedback. `cmds` is what the adapter has still to send. `Reacquire` is a release
followed by an acquisition that gets the same slot.

**TCP receive buffer.** Sequence numbers are taken modulo `SeqMod`; `right` says
which of them have their byte in the buffer. `Arrive` and `Lock` are
`exa_tcp_rx_buffer_alloc`, one compare and swap a step; `ReceiveValid` and
`ReceiveInvalid` the copy and the validation; then commit or abort. Commit reads
`recv_seq` once and uses it in a later step. The list of out of order segments is
a function on `1..MaxSegs`, changed by operators that follow the loops of the
code. The kernel module is not in the repository: `KernelLocks` and
`KernelDelivers` are what the code's comments and its compare and swap expect of
it, a receiver of in order data that takes a region only while nobody has locked
one (`proc = recv`), and moves `recv_seq` when its bytes are written. The library
may lock a region behind the kernel's.

## Runs

| run | question | result |
|---|---|---|
| `stream_cache` | is a stream cache a byte queue, within its bounds, growing only when it must? | yes |
| `dial_tcp` | does the stream arrive whole, and does the call end? | yes, except that a cancelled call waits for its `Read` |
| `pcap_streams` | do sessions stay apart over interleavings and captures? | yes; a negative count damages its own session, whose next packet panics |
| `onload_ring` | are buffers conserved, does each refill of the fill loop make progress, who can starve the ring? | conserved; it does; only the application |
| `free_list` | is the list right when one goroutine uses it? | yes |
| `free_list_race` | is it right when two do, as in a capture? | no: a buffer is posted twice |
| `onload_capture` | order, accounting of buffers, errors, release, return of a cancelled capture, polling of every event, over all interleavings | they hold, with the exceptions named below |
| `exanic_capture` | do frames have one holder, is the device given back, does a cancelled capture return? | yes, with the exceptions named below |
| `exanic_payload` | does the handler get the bytes of the packet it is called for? | no: a later frame can be received into the same slice |
| `exanic_rx` | is a delivered frame one frame, are losses reported, does the reader catch up? | yes, with the exceptions named below |
| `exanic_tx` | is anything overwritten before it is sent, does a call end? | no; yes, unless an earlier call was refused after it wrapped around |
| `tcp_rx` | is what is read what was sent, is every lock given back, is everything read? | yes, until an invalid segment overlaps two listed ones |

Every module has a type invariant `TypeOK` (`StreamTypeOK`, `CaptureTypeOK`,
`ListTypeOK`). It is proved of `StreamCache`, `DialTCP` and `OnloadRing`; in the
other modules it is a conjunct of a state invariant of their run and proved with it, and in
`TcpRxBuffer` an invariant of its own, because there it is the order of the three
pointers.

What the passing onload run says precisely:

- `Accounted`: a buffer the application holds is in exactly one of the event
  queue, the polled batch, the pending send, the channel and the consumer, or
  it was dropped. Buffers are dropped by a frame without timestamp, by a
  fragment, and by the stale `segment`.
- `NilMeansStopped`: nil is returned after a cancellation, after `io.EOF`, or
  when a packet still in the channel overwrote the event loop's error.
- `ReleasedAfterUse`: the event loop runs on a freed interface only after a
  handler error, when `StartCapture` releases the device without waiting for it
  (line 889).
- `CancelReturns`: a cancelled capture returns unless the event loop is at a
  send to a full channel that nobody reads any more, or waits for the adapter.
  `eventLoopBlockingPoll` must also find the queue empty once: its inner loop
  (line 542) does not look at the context.
- `EventsPolled`: no loop sleeps on a pending event. For the throughput loop
  this needs a first full batch of events: its counter starts at zero and is
  decremented before it is compared (`batchLoops`, line 461; the C program
  decrements after the comparison). Timestamp events, which also fill the
  queue, are not modelled.

And the exanic runs:

- `FramesAccounted`: a frame is in the pool, with the goroutine or in one packet,
  although `segment` is released again for packets that were not decoded.
- `ReleasedAfterUse`: the goroutine never receives from a released buffer, except
  after a handler error, when `StartCapture` returns without waiting, and from a
  buffer that could not be acquired without a filter, which is not checked.
- `DeviceReleased`: the receive buffer is left acquired only when the filter was
  refused.
- `CancelReturns`: as in onload, except at a send to a full channel.
- `HandlerSeesPacket` fails: `EtherFrame.Release` pools the frame with its slice
  and the slice itself. After one empty poll a packet and the next frame share a
  slice.

The libpcap capture panics on a packet without IPv4 layer: the type assertion of
line 100 comes before the test for nil of line 101. This is the action
`PacketPanics`; the invariants of `pcap_streams` hold before and after it.

The fifos and the TCP buffer:

- `FramesIntact` has two exceptions. The catch-up met no end of a frame, which the
  comment at `fifo_rx.c:254` says should not happen and a lap during the scan
  makes possible: the reader may then start inside a frame. And the recheck of a
  packet read in place sees the old generation while the adapter is rewriting
  the header chunk, because the generation is written last.
- `AbortWithinFrame` and `CallReturns`: a failing `exanic_receive_chunk_inplace`
  leaves `more_chunks` set although the frame has ended (`fifo_rx.h:200`, or an
  overflow); `exanic_receive_abort` then skips the next frame, or spins for it.
- `PrepareReturns`: the comment at `fifo_tx.c:228` promises that no call waits
  "for a feedback that was never requested". One case is left: a chunk above the
  maximum that does not fit has already moved `next_offset` to the start when it
  is refused (line 267), and the next chunk, of legal size, may wait for ever.
- `SentIsSent` and `NoOverwrite` hold of a buffer whose previous owner had
  nothing left to send (`clean`); otherwise late reports are taken for the new
  owner's.
- `DataIntact`: the loop of `exa_tcp_rx_buffer_abort` that makes "sure invalid
  region is not in out of order segment list" (`tcp_buffer.h:282`) does not look
  again at the entry it has moved into the gap. Of two neighbours that
  overlap the invalid region the second stays (`spoiled`). `AssertsHold` has the
  same exception, which a list of two entries does not need: when an entry that
  is not the last is removed, the last one stays in the list twice, and a later
  abort, also one of length zero, that overlaps both copies moves the entries
  out of order. The assertion of commit can then fail. As long as no abort
  overlaps two entries the copy is harmless, and both properties are proved for
  lists of every length (the code's has 6).
- `AllRead` is the liveness of the lock: each segment that was locked and not
  committed gives `proc_seq` back, so the missing byte can be accepted.

### Bounds

- `stream_cache`: capacity 4, chunks of up to 2 bytes, caches up to 6. Free
  space, move and both ways to grow happen; the proofs cover every size.
- `dial_tcp`: 5 different bytes, reads of up to 2, a cache of 3 that must move
  and grow; counts from -1 to one more than was sent.
- `pcap_streams`: two sessions of up to 3 bytes in caches of 2, all kinds of
  packets, counts from -1. The bytes of a session are numbered 1, 2, 3. UDP
  packets are not bounded. The proof covers every number and size.
- `onload_ring`: 7 buffers and batches of 2, so that neither ring nor pool is
  a multiple of the batch; the proofs cover every size.
- `free_list`: 4 buffers in batches of 2; the race needs 3. The proof covers
  every number of buffers.
- `onload_capture`: all four loops, all kinds of frames, 2 buffers, batches of
  1, polls of 2 events, a channel of one packet. Two packets fill the channel
  and block the send, overtake each other if anything can, and leave a stale
  segment.
  `LoopBatch` is 2 instead of 100 and `LookAhead` 2 instead of 23.
- `exanic_capture`: 3 received frames, a channel of one packet, and 3 frame
  objects and slices: one each with the handler, in the channel and with the
  goroutine, so that it never lacks one.
- `exanic_rx`: a ring of 3 chunks, frames of up to 2, and 7 chunks in all, two
  laps and a part, with 4 generations. `FifoAssumption`: fewer than `G - 1` laps
  (255 of the code's) are written in all; after more a generation number means
  nothing.
- `exanic_tx`: 6 lines and 4 sequence slots, numbers modulo 8 that wrap around,
  chunks of 1, 2 and (above the maximum) 5 lines. `TxAssumption`: more sequence
  numbers than lines, as 2^16 exceeds the lines of any buffer below 4 MB;
  otherwise `rollover_seq` can be a lap old. After a release that left chunks
  unsent only `MaxStale` calls are followed.
- `tcp_rx`: 6 bytes from sequence number 28 modulo 30, so that the numbers wrap
  around, a buffer of 6, segments of up to 2, a list of 2. What follows once the
  buffer is spoiled is not explored (`NotSpoiled`). `TcpAssumption`: the
  stream, the buffer and a segment together are less than half of the sequence
  numbers. Beyond that an entry of the list could outlive the numbers it is
  compared with, if only the kernel made progress for 2^31 bytes.

### Fairness

Only goroutines are fair: Go schedules them, and the handler is assumed to
return. Strong fairness of the `ctx.Done()` case stands for Go's random choice
among ready cases of a select. Nothing is assumed of peers, adapters or
contexts; failing waits are not fair. In `exanic_rx` the adapter finishes a
frame that it has begun, a call goes on and the program keeps polling; in
`exanic_tx` the adapter sends what it was given. In `tcp_rx` the library and the
kernel finish what they have begun, the application reads, and the peer
retransmits the first missing byte until it gets through (strong fairness: the
buffer is not always ready for it); these are what TCP itself relies on.

## Proofs

| theorem | module | states |
|---|---|---|
| `StreamTypeCorrect`, `InBounds`, `Growth` | `StreamCacheProofs` | `StreamTypeOK`, `SlicesInBounds`, `GrowthJustified` |
| `Refinement` | `StreamCacheProofs` | `ImplementsByteStream` |
| `TypeCorrect`, `Intact`, `DeliversAll`, `LateCalls` | `StreamCacheProofs` | `TypeOK`, `StreamIntact`, `PeerEOFDeliversAll`, `OneLateCall` |
| `SessionsApart` | `StreamCacheProofs` | `SessionsIntact` |
| `TypeCorrect`, `Conservation`, `FillProgress`, `Starvation`, `RefillEnough` | `OnloadRingProofs` | `TypeOK`, `Conserved`, `FillAdvances`, `StarvedOnlyByApp`, `RefillReachesMin` |
| `PoolIntact`, `NoDoublePost` | `OnloadRingProofs` | `ListIsPool`, `PostedOnce` |
| `BuffersAccounted`, `NoOvertaking`, `NilResult`, `UseBeforeRelease` | `OnloadCaptureProofs` | `Accounted`, `InOrder`, `NilMeansStopped`, `ReleasedAfterUse` |
| `RingRefinement` | `OnloadCaptureProofs` | `ImplementsRing` |
| `FrameHolders`, `UseBeforeRelease`, `DeviceGivenBack` | `ExanicCaptureProofs` | `FramesAccounted`, `ReleasedAfterUse`, `DeviceReleased` |
| `FramesStayIntact`, `LossIsReported`, `AbortStaysWithinFrame` | `RxFifoProofs` | `FramesIntact`, `LossReported`, `AbortWithinFrame` |
| `NothingOverwritten`, `SentBeforeTaken` | `TxFifoProofs` | `NoOverwrite`, `SentIsSent` |
| `PointersInOrder`, `LocksReturned`, `RecvNeverBack` | `TcpRxBufferProofs` | `TypeOK`, `LockReturned`, `RecvAdvances` |
| `ReadableIsSent`, `CommitAsserts` | `TcpRxBufferProofs` | `DataIntact`, `AssertsHold` |

*Stream cache.* Assumptions: the zero byte is a byte, a new cache has at least
one byte, chunks are byte sequences and counts natural numbers. The invariant
is the type together with `used <= offset <= cap`; the bounds are needed to know
that `Bytes` lies in the array, and then a lemma shows of each
operator what it does to `Bytes`: moving and growing keep them, `AppendData`
appends, `Rotate` drops and appends. The refinement is these lemmas read as
steps.

*TCP client.* `StreamIntact` is inductive together with the well-formed cache
and the types of the sequences; it reuses the lemmas of the cache.
`PeerEOFDeliversAll` needs that `offered` is what was used and what the cache
holds, and that nothing was unread at the end; `OneLateCall` that a loop which
has chosen to read has made no late call.

*libpcap capture.* The assumption is `PcapAssumption`: payload sizes are natural
numbers, counts any integers. The invariant `CaptureInv` splits the sessions in
two. The cache of a session without a negative count is well formed and holds
exactly what was received and not used. The cache of any session is at least
loose (`LooseCache`: the window ends within the array, but may begin before it),
which is needed for the first packet after a negative count that left nothing in
the window: `Merge` then resets it, and it is well formed again. While the
handler runs, its buffer is what the cache of its session holds; a negative
count is then the only way to a window before the array.

*Onload buffers.* Assumption: finitely many buffers, and a batch of at least
one and at most all of them. The invariant is the partition with the count, and
that the application holds nothing before the fill has ended; without the last
part `FillAdvances` is not inductive. The sizes of the three parts add up to
`nBufs`, from which starvation and progress follow by arithmetic.

*Free list.* The assumptions are `ListAssumption` and that one goroutine uses the
list (`OneThread`); with two both properties are false. The invariant `ListInv`
says that there is a list without repetition, of exactly the buffers that
nobody else has (`Unowned`), through which the links lead from `freePktBufs` to
nil, at every point between two loads or stores of a push or a refill; the
buffer a push or pop has in hand is apart (`Transit`), and the count is off by
the one that is still to be counted (`Excess`). The hardest part is that a refill
always finds the buffers of its batch: as many are on the list as it has left to
take. `ListIsPool` follows with `ReachIsList`: a recursive function that follows
the links collects the elements of the list and nothing else.

*Onload capture.* The assumption is `CaptureAssumption`; it includes what the ring
needs of buffers and batch. The invariant `Inv` has two halves. One sees the five
places between the adapter and the handler as one queue, `Pipeline`. A step
leaves the queue as it is, appends an event, or removes one entry (`QueueStep`):
a send, a receive and a poll only move entries from one place to the next. From this follow both
that a buffer is in one place (`Placed`: the queue holds it once, or it was
dropped) and, as a fact about steps, that no packet overtakes another. The other
half, `ControlInv`, is what the goroutines know of each other: which places can
hold something where they are (`PlacesInv`), what the `err` they share tells of the
loop (`ErrInv`, `ReturnInv`) and when the interface may be freed (`FreedInv`). `Accounted` needs
`PlacesInv`: a receive would overwrite a packet in hand. `NilMeansStopped` is not
inductive without `ErrInv`: a loop that has ended was cancelled, or its error is
still in `err`, or was overwritten. Two lemmas, `LoopMoves` and `ConsumerMoves`, say
which moves of a goroutine keep this half; most actions are shown to be one of
them. What the ring itself needs, `BufInv` (the partition, the count, and that the
application holds no buffer before the fill has ended), is kept through the
refinement: each action is a step of `OnloadRing` or leaves the buffers alone
(`RingStep`), and a step of `OnloadRing` keeps `BufInv`.

*ExaNIC capture.* The assumption is `ExanicAssumption`. The queue is `pkt`, `chan` and
`sending`; it grows when a frame is received and shrinks when a packet is
released. `FramesAccounted` is inductive with `HoldsInv`, what each goroutine holds
where it is. Its last conjunct carries the argument about the segment that is
never reset: `preLayer` leads to the packet in hand or nowhere, so a release
returns that packet's frame to the pool or none at all, never another one. `SliceInv` (a frame
somebody holds has a slice) is needed for the type of `payloadPool`. That slices
are not shared is not part of it, and is false: see `exanic_payload`. `RxInv`
ties the state of the receive buffer to both program counters and the handler's
error, and gives the other two theorems.

*Receive fifo.* The assumption is `FifoAssumption`: a ring of more than one
chunk, more than two generations, frames shorter than the ring, and fewer than
`G - 1` laps in all. The reader knows a chunk of the ring and a generation; the
arguments are about the number of a chunk since the start. Within `G` laps, the
one the ring seems to hold at first included, two numbers with the same chunk and
generation are equal (`SameSlot`), so the two ways to name a chunk are one, and a
generation that is new or too new at `next` tells how far `written` is from the
reader's number `x` (`Look`). The invariant `IInv` says that there is a history `H`,
which gives every chunk its index and the length of its frame, with three
properties. The chunks of `H` make up frames (`HistInv`). The ring holds the last
`N` chunks of it (`BufInv`; the payload of one more while an info word is still to
be written). What was delivered ends where a frame of `H` ends (`Delivered`). `H` is
not a variable: a step of the adapter extends it by one chunk, and a lemma
(`ReaderWaits`) shows that what a reader knows of the old one it knows of the new.
On top of it stands one predicate per phase of a call. All have the same shape:
the data copied so far are the chunks of `H` before `x`, if the chunk that the
call will look at again is still in the ring, so that the last look turns the
condition into a fact. For `exanic_receive_frame` that chunk is the sentinel,
which lies before the first chunk copied; without `s < x - Len(got)` the check
would come too late. For a packet in place it is the first chunk, and as its
payload is rewritten before its generation, the condition is on the chunks begun:
this is the second exception of `FramesIntact`. `CatchupInv` with `Scanned` is the
invariant of the backward scan: the end it remembers is the end of a frame, and
a reader that goes on behind it, or behind the last break, repeats nothing that
was delivered, or has been overtaken again and will find out.
`LossReported` rests on `Ahead` (nothing from here on was delivered, and nothing
before it is missing unless the reader was told), `AbortWithinFrame` on
`AbortInv`: without `stale`, abort is called only in the middle of a frame.

*Transmit fifo.* The assumption is `TxAssumption`. The argument is about ages: the
age of a number is how far it is behind `next_seq`, and a chunk ages by one when
the next is sent (`Aging`). `AgeInv`: the chunks the adapter has still to send are
the youngest, the number in the feedback word is older than all of them, and the
one the library has read is no younger and at most `queue_len` old. So a report
is never refused, and numbers in use have slots of their own in
`feedback_offsets` (`OtherSlot`, which needs that `queue_len` divides the number of
sequence numbers). `PlaceInv`: on one lap of the buffer a chunk starts no earlier
than an older one ended, and `rollover_seq` is at most as old as there are lines
before `next_offset`. The last part needs more sequence numbers than the
buffer has lines; without it the age of `rollover_seq` could wrap around and a
full buffer look empty. From both follows that a chunk that fits touches none
that waits (`FitsApart`). All of it is claimed of a `clean` buffer only; the types hold of
every buffer.

*TCP receive buffer.* The assumption is `TcpAssumption`. All arguments are about
offsets: `Off(x)`, the distance of a sequence number from the first byte of
the stream, is below half of the modulus, so that on these numbers `seq_compare` is the
order of the offsets (`BeforeOff`) and addition is addition (`OffAdd`). The
lemmas on the list then say that removing, expanding, inserting and purging make
lists of well-formed entries. The inductive invariant `IInv` adds to the types
the order `read <= recv <= proc`, what the segment in hand covers (`PktInv`: it
ends at `proc`, and `old` is where its lock began) and what the kernel's lock
covers (`KernelInv`: from `recv` up to `old`, and while it is held the `recv_seq`
that commit has read is still the current one). Without these two neither
`LockReturned` nor `RecvAdvances` is inductive: that `recv_seq` does not go back
rests on commit moving it only when what it read equals where its lock began.
`DataIntact` and `AssertsHold` need the list itself (`DataInv`, while not
spoiled): its entries are in order with a gap between any two, but for the copy
that abort leaves of the last one (`Chain`, `Follows`); the bytes of an entry are
in the buffer from `recv_seq` on (`Filled`); and the bytes of a segment in hand
that touch an entry have been written over, rightly or not, so that what an
invalid one has spoiled is not listed any more when its lock is given back.
`TcpRxListProofs` shows of each list operation that it keeps order and bytes. The
loop of abort is a recursive function (`MovedFrom`); without the exception it
moves at most one entry out, at the least index where it overlaps, and
`MovedFromIs` gives its value in closed form.

No induction principle over data can be instantiated by the provers. Where one
is needed (`MovedFrom`, `Reach`) the proof shows that the closed form solves the
recursive equation, and that a solution differs from it nowhere, by taking the
least argument at which it would (`Least`).

Model-checked only: liveness (`CancelReturns`, `EventsPolled`, `CatchesUp` and the
others), which the prover does not do.

## Not modelled

- two captures at a time on the map of stream caches;
- `CreateHandler` of onload before the fill, its error paths included;
- the pools as onload uses them, header decoding and the multicast listener,
  which has no state but its socket;
- the length of pooled buffers, which a received frame cuts
  (`frm.Buffer[:size]`): a longer frame is refused, as `ReceiveFails` may do;
- the timestamp and length of a packet, statistics, logging;
- overflow of the event queue, and the timestamp events in it;
- the counters of duplicate acknowledgements in the TCP receive buffer, which only
  the kernel reads;
- the rest of the vendored C code: the TCP state and send side of exasock, the
  socket calls it replaces, its interface to the kernel, device configuration
  tools and register tables. Most of it is I/O on registers and ioctls, and
  none of it is called by the Go library;
- address parsing (the `net` package), example programs.

## Further work

Most important first:

1. `PacketPools` (`core/core.go` 308-526): frames with the release functions
   onload gives them, the order of `Put` and `release` in `EtherFrame.Release`,
   stale release functions; composed with `FreeList`.
2. Buffer lengths in `ExanicCapture`: what "make sure the whole Ethernet frame
   fits the data buffer" (the comment of `SetMTU`) asks of pooled frames.
3. `Multicast`: `ServeMultiCast` with the two families of recoverable errors.
4. `OnloadDevice`: `CreateHandler` and `Release` as acquisition and release of
   driver handle, protection domain, interface and memory.
5. Header decoding: `Buffer`, `Unpack`, `GetPayload` and `CStr2GoStr` as
   operators against a reference, over all short inputs.
6. Two captures at a time in `PcapCapture`.
