------------------------ MODULE ExanicCaptureProofs -------------------------
(***************************************************************************)
(* Theorems about ExanicCapture, for any frames and slices, any channel    *)
(* and every interleaving of the two goroutines.                           *)
(*                                                                         *)
(* The packets are a queue (Pipeline) that grows at its end when a frame   *)
(* is received and shrinks at its front when a packet is released.  That a *)
(* frame has one holder rests on what each goroutine holds where it is     *)
(* (HoldsInv), above all that a segment leads to the packet in hand or to  *)
(* none.                                                                   *)
(***************************************************************************)
EXTENDS ExanicCapture, SequenceTheorems, TLAPS

-----------------------------------------------------------------------------
(* Queues of packets.                                                      *)

Cat(x, y) == x \o y

\* At the handler, in the channel and at the send.
Places(p, c, s) == Cat(Cat(p, c), s)

\* t is s with x at its end; s is t with x at its front.
Adds(s, t, x) == t = Append(s, x)
Drops(s, t, x) == s = Cat(<<x>>, t)

Frames(q) == {q[i].frm : i \in DOMAIN q}

\* No frame is in two packets of q.
Once(q) == \A i, j \in DOMAIN q : q[i].frm = q[j].frm => i = j

(* The frame of a packet.                                                  *)
LEMMA PacketFrame == \A x \in Packet : x.frm \in Frame
BY Zenon DEF Packet

(* Concatenation of queues.                                                *)
LEMMA CatFacts ==
  /\ \A x, y \in Seq(Packet) : Cat(x, y) \in Seq(Packet)
  /\ \A x, y, z \in Seq(Packet) : Cat(Cat(x, y), z) = Cat(x, Cat(y, z))
  /\ << >> \in Seq(Packet)
  /\ \A x \in Seq(Packet) : Cat(x, << >>) = x /\ Cat(<< >>, x) = x
  /\ \A h \in Packet : <<h>> \in Seq(Packet)
  /\ \A x \in Seq(Packet), h \in Packet : Append(x, h) = Cat(x, <<h>>)
<1>1. ASSUME NEW x \in Seq(Packet), NEW y \in Seq(Packet) PROVE x \o y \in Seq(Packet)
  BY Zenon, ConcatProperties
<1>2. ASSUME NEW x \in Seq(Packet), NEW y \in Seq(Packet), NEW z \in Seq(Packet)
      PROVE  (x \o y) \o z = x \o (y \o z)
  BY ConcatAssociative
<1>3. ASSUME NEW x \in Seq(Packet) PROVE x \o << >> = x /\ << >> \o x = x
  BY Zenon, ConcatEmptySeq
<1>4. ASSUME NEW x \in Seq(Packet), NEW h \in Packet PROVE Append(x, h) = x \o <<h>>
  BY Zenon, AppendIsConcat
<1>5. << >> \in Seq(Packet) /\ \A h \in Packet : <<h>> \in Seq(Packet)
  OBVIOUS
<1> QED BY <1>1, <1>2, <1>3, <1>4, <1>5, Zenon DEF Cat

(* A queue is its head, then its tail.                                     *)
LEMMA HeadFirst ==
  ASSUME NEW s \in Seq(Packet), s # << >>
  PROVE  /\ Head(s) \in Packet /\ Tail(s) \in Seq(Packet) /\ <<Head(s)>> \in Seq(Packet)
         /\ Len(Tail(s)) = Len(s) - 1 /\ Len(s) \in Nat
         /\ Cat(<<Head(s)>>, Tail(s)) = s
<1>1. /\ Head(s) \in Packet /\ Tail(s) \in Seq(Packet)
      /\ Len(Tail(s)) = Len(s) - 1
      /\ \A i \in 1 .. Len(Tail(s)) : Tail(s)[i] = s[i + 1]
      /\ Len(s) \in Nat \ {0} /\ s[1] = Head(s)
  BY HeadTailProperties
<1> DEFINE h == <<Head(s)>>
<1> DEFINE t == Tail(s)
<1>2. h \in Seq(Packet) /\ Len(h) = 1 /\ h[1] = s[1]
  BY <1>1
<1> HIDE DEF h, t
<1> DEFINE q == h \o t
<1>3. /\ q \in Seq(Packet) /\ Len(q) = Len(h) + Len(t)
      /\ \A i \in 1 .. Len(h) + Len(t) : q[i] = IF i <= Len(h) THEN h[i] ELSE t[i - Len(h)]
  BY <1>1, <1>2, ConcatProperties DEF t
<1> HIDE DEF q
<1>4. q \in Seq(Packet) /\ Len(q) = Len(s)
  BY <1>1, <1>2, <1>3 DEF t
<1>5. \A i \in 1 .. Len(s) : q[i] = s[i]
  <2> TAKE i \in 1 .. Len(s)
  <2>1. CASE i = 1
    BY <2>1, <1>1, <1>2, <1>3 DEF t
  <2>2. CASE i # 1
    <3>1. i - 1 \in 1 .. Len(t) /\ (i - 1) + 1 = i /\ ~ (i <= 1) /\ i \in 1 .. Len(h) + Len(t)
      BY <2>2, <1>1, <1>2 DEF t
    <3>2. q[i] = t[i - 1]
      BY Zenon, <3>1, <1>2, <1>3
    <3>3. t[i - 1] = s[(i - 1) + 1]
      BY Zenon, <3>1, <1>1 DEF t
    <3> QED BY Zenon, <3>1, <3>2, <3>3
  <2> QED BY Zenon, <2>1, <2>2
<1>6. q = s
  BY Zenon, <1>4, <1>5, SeqEqual
<1> QED BY Zenon, <1>1, <1>2, <1>6 DEF q, h, t, Cat

(* A queue of one packet.                                                  *)
LEMMA SinglePacket ==
  ASSUME NEW s \in Seq(Packet), s # << >>, Len(s) <= 1
  PROVE  \E h \in Packet : s = <<h>> /\ s[1] = h
<1> DEFINE n == Len(s)
<1>1. n \in Nat /\ n # 0 /\ n <= 1
  BY Zenon, EmptySeq
<1> HIDE DEF n
<1>2. n = 1
  BY <1>1
<1>3. PICK h \in Packet : h = s[1]
  BY <1>2 DEF n
<1> DEFINE w == <<h>>
<1>4. w \in Seq(Packet) /\ Len(w) = 1 /\ w[1] = h
  OBVIOUS
<1> HIDE DEF w
<1>5. s = w
  BY <1>2, <1>3, <1>4, SeqEqual DEF n
<1> QED BY Zenon, <1>3, <1>5 DEF w

(* The places together are a queue.                                        *)
LEMMA PlacesType ==
  ASSUME NEW p \in Seq(Packet), NEW c \in Seq(Packet), NEW s \in Seq(Packet)
  PROVE  Places(p, c, s) \in Seq(Packet) /\ Places(p, c, s) = Cat(p, Cat(c, s))
<1>1. Cat(p, c) \in Seq(Packet)
  BY Zenon, CatFacts
<1> QED BY <1>1, CatFacts DEF Places

(* A packet is ready to be sent: the queue grows.                          *)
LEMMA ReceiveAppends ==
  ASSUME NEW p \in Seq(Packet), NEW c \in Seq(Packet), NEW x \in Packet
  PROVE  Adds(Places(p, c, << >>), Places(p, c, <<x>>), x)
<1> DEFINE f == Cat(p, c)
<1>1. f \in Seq(Packet)
  BY Zenon, CatFacts
<1> HIDE DEF f
<1>2. Cat(f, << >>) = f /\ Append(f, x) = Cat(f, <<x>>)
  BY <1>1, CatFacts, Zenon
<1> QED BY <1>2, Zenon DEF Adds, Places, f

(* The packet is sent to the channel.                                      *)
LEMMA SendMoves ==
  ASSUME NEW p \in Seq(Packet), NEW c \in Seq(Packet), NEW s \in Seq(Packet)
  PROVE  Places(p, Cat(c, s), << >>) = Places(p, c, s)
<1>1. Cat(c, s) \in Seq(Packet)
  BY Zenon, CatFacts
<1>2. Cat(p, Cat(c, s)) \in Seq(Packet)
  BY Zenon, <1>1, CatFacts
<1>3. Cat(Cat(p, Cat(c, s)), << >>) = Cat(p, Cat(c, s))
  BY <1>2, CatFacts, Zenon
<1>4. Places(p, c, s) = Cat(p, Cat(c, s))
  BY PlacesType
<1> QED BY <1>3, <1>4, Zenon DEF Places

(* StartCapture receives a packet from the channel.                        *)
LEMMA ReceiveMoves ==
  ASSUME NEW c \in Seq(Packet), NEW s, c # << >>
  PROVE  Places(<<Head(c)>>, Tail(c), s) = Places(<< >>, c, s)
<1>1. Cat(<<Head(c)>>, Tail(c)) = c
  BY Zenon, HeadFirst
<1>2. Cat(<< >>, c) = c
  BY CatFacts, Zenon
<1> QED BY <1>1, <1>2, Zenon DEF Places

(* The packet at the handler leaves the queue.                             *)
LEMMA HandlerDrops ==
  ASSUME NEW h \in Packet, NEW c \in Seq(Packet), NEW s \in Seq(Packet)
  PROVE  Drops(Places(<<h>>, c, s), Places(<< >>, c, s), h)
<1> DEFINE w == <<h>>
<1> DEFINE o == << >>
<1>1. w \in Seq(Packet) /\ o \in Seq(Packet) /\ Cat(o, c) = c
  BY CatFacts, Zenon
<1> HIDE DEF w, o
<1>2. Places(w, c, s) = Cat(w, Cat(c, s))
  BY <1>1, PlacesType
<1>3. Places(o, c, s) = Cat(c, s)
  BY Zenon, <1>1 DEF Places
<1> QED BY <1>2, <1>3, Zenon DEF Drops, w, o

(* A packet with a new frame is appended.                                  *)
LEMMA AddsFrame ==
  ASSUME NEW q \in Seq(Packet), NEW x \in Packet, NEW t, Adds(q, t, x),
         Once(q), x.frm \notin Frames(q)
  PROVE  Once(t) /\ Frames(t) = Frames(q) \cup {x.frm}
<1> DEFINE n == Len(q)
<1>1. /\ n \in Nat /\ DOMAIN q = 1 .. n /\ DOMAIN t = 1 .. n + 1
      /\ \A i \in 1 .. n : t[i] = q[i]
      /\ t[n + 1] = x
  BY DEF Adds
<1> HIDE DEF n
<1>2. \A i \in 1 .. n + 1 : i = n + 1 \/ i \in 1 .. n
  BY <1>1
<1>3. \A i \in 1 .. n : q[i].frm # x.frm
  BY Zenon, <1>1 DEF Frames
<1>4. Once(t)
  <2> SUFFICES ASSUME NEW i \in 1 .. n + 1, NEW j \in 1 .. n + 1, t[i].frm = t[j].frm
               PROVE  i = j
    BY Zenon, <1>1 DEF Once
  <2> QED BY Zenon, <1>1, <1>2, <1>3 DEF Once
<1>5. Frames(t) \subseteq Frames(q) \cup {x.frm}
  <2> SUFFICES ASSUME NEW i \in 1 .. n + 1 PROVE t[i].frm \in Frames(q) \cup {x.frm}
    BY Zenon, <1>1 DEF Frames
  <2> QED BY Zenon, <1>1, <1>2 DEF Frames
<1>6. Frames(q) \cup {x.frm} \subseteq Frames(t)
  <2>1. n + 1 \in 1 .. n + 1 /\ \A i \in 1 .. n : i \in 1 .. n + 1
    BY <1>1
  <2> QED BY <1>1, <2>1 DEF Frames
<1> QED BY Zenon, <1>4, <1>5, <1>6

(* The packet at the front is taken away.                                  *)
LEMMA DropsFrame ==
  ASSUME NEW t \in Seq(Packet), NEW x \in Packet, NEW q, Drops(q, t, x), Once(q)
  PROVE  Once(t) /\ Frames(t) = Frames(q) \ {x.frm} /\ x.frm \in Frames(q)
<1> DEFINE n == Len(t)
<1>1. /\ n \in Nat /\ DOMAIN t = 1 .. n /\ DOMAIN q = 1 .. n + 1
      /\ \A i \in 1 .. n : t[i] = q[i + 1]
      /\ q[1] = x
  BY DEF Drops, Cat
<1> HIDE DEF n
<1>2. /\ 1 \in 1 .. n + 1 /\ \A i \in 1 .. n : i + 1 \in 1 .. n + 1 /\ i + 1 # 1
      /\ \A j \in 1 .. n + 1 : j # 1 => j - 1 \in 1 .. n /\ (j - 1) + 1 = j
      /\ \A i, j \in 1 .. n : i + 1 = j + 1 => i = j
  BY <1>1
<1>3. Once(t)
  <2> SUFFICES ASSUME NEW i \in 1 .. n, NEW j \in 1 .. n, t[i].frm = t[j].frm PROVE i = j
    BY Zenon, <1>1 DEF Once
  <2>1. q[i + 1].frm = q[j + 1].frm
    BY Zenon, <1>1
  <2>2. i + 1 = j + 1
    BY Zenon, <2>1, <1>1, <1>2 DEF Once
  <2> QED BY Zenon, <2>2, <1>2
<1>4. ASSUME NEW i \in 1 .. n PROVE t[i].frm \in Frames(q) \ {x.frm}
  <2>1. t[i] = q[i + 1] /\ i + 1 \in DOMAIN q /\ i + 1 # 1 /\ 1 \in DOMAIN q
    BY Zenon, <1>1, <1>2
  <2> QED BY <2>1, <1>1 DEF Frames, Once
<1>5. ASSUME NEW j \in 1 .. n + 1, q[j].frm # x.frm PROVE q[j].frm \in Frames(t)
  <2>1. j # 1
    BY Zenon, <1>1, <1>5
  <2>2. j - 1 \in 1 .. n /\ (j - 1) + 1 = j
    BY Zenon, <2>1, <1>2
  <2>3. t[j - 1] = q[j]
    BY Zenon, <2>2, <1>1
  <2> QED BY Zenon, <2>2, <2>3, <1>1 DEF Frames
<1>6. Frames(t) = Frames(q) \ {x.frm}
  <2>1. ASSUME NEW f \in Frames(t) PROVE f \in Frames(q) \ {x.frm}
    <3>1. PICK i \in 1 .. n : f = t[i].frm
      BY Zenon, <1>1 DEF Frames
    <3> QED BY Zenon, <3>1, <1>4
  <2>2. ASSUME NEW f \in Frames(q) \ {x.frm} PROVE f \in Frames(t)
    <3>1. PICK j \in 1 .. n + 1 : f = q[j].frm
      BY Zenon, <1>1 DEF Frames
    <3> QED BY Zenon, <3>1, <1>5
  <2> QED BY Zenon, <2>1, <2>2
<1>7. x.frm \in Frames(q)
  BY Zenon, <1>1, <1>2 DEF Frames
<1> QED BY Zenon, <1>3, <1>6, <1>7

-----------------------------------------------------------------------------
(* The inductive invariant.                                                *)

\* What the two goroutines hold where they are.
HoldsInv ==
  /\ (pkt # << >>) <=> cpc \in {"call", "next", "fail"}
  /\ (sending # << >>) <=> ppc = "send"
  /\ (frm # NoFrame) <=> ppc \in {"receive", "crashed"}
  /\ (releasing # NoFrame) <=> cpc \in {"putNext", "putFail"}
  /\ cpc \in {"call", "fail"} => segment /\ preLayer = pkt
  /\ preLayer # << >> => preLayer = pkt

\* The receive buffer, the goroutine that uses it and the handler's error.
RxInv ==
  /\ ppc = "idle" => cpc \in {"start", "returned"}
  /\ cpc = "start" => ppc = "idle" /\ rx = "none"
  /\ rx = "none" => ppc = "idle"
  /\ cpc \in {"fail", "putFail", "return"} => err \in {"handler", "EOF"}
  /\ err \in {"handler", "EOF"} => cpc \in {"fail", "putFail", "return", "returned"}
  /\ rx = "freed" => cpc = "returned" /\ (ppc = "exited" \/ err \in {"handler", "EOF"})
  /\ ReleasedAfterUse
  /\ DeviceReleased

\* A frame in the pool, in a packet of q or in the goroutine's hands.
Holders(q, pool, f) == Once(q) /\ pool \cap (Frames(q) \cup {f}) = {} /\ f \notin Frames(q)

HoldersInv == Holders(Pipeline, framePool, frm)

\* Every frame somebody holds has its slice.
Sliced(b, fs) == \A f \in fs : f \in Frame => b[f] \in Slice

SliceInv == Sliced(buf, framePool \cup Frames(Pipeline) \cup {frm, releasing})

Inv == TypeOK /\ HoldsInv /\ RxInv /\ HoldersInv /\ SliceInv

(* The invariant is about the queue of the three places.                   *)
LEMMA PipelinePlaces ==
  /\ Pipeline = Places(pkt, chan, sending)
  /\ Pipeline' = Places(pkt', chan', sending')
  /\ PipelineFrames = Frames(Pipeline)
BY Zenon DEF Pipeline, Places, Cat, PipelineFrames, Frames

(* The queue of packets, and the frames in it.                             *)
LEMMA PipelineType ==
  ASSUME TypeOK
  PROVE  Pipeline \in Seq(Packet) /\ Frames(Pipeline) \subseteq Frame
<1>1. pkt \in Seq(Packet) /\ chan \in Seq(Packet) /\ sending \in Seq(Packet)
  BY Zenon DEF TypeOK
<1>2. Pipeline \in Seq(Packet)
  BY Zenon, <1>1, PlacesType, PipelinePlaces
<1>3. ASSUME NEW q \in Seq(Packet) PROVE Frames(q) \subseteq Frame
  BY PacketFrame DEF Frames
<1> QED BY Zenon, <1>2, <1>3

(* Initially nothing is allocated.                                         *)
LEMMA InitInv == Init => Inv
<1> SUFFICES ASSUME Init PROVE Inv
  BY Zenon
<1> USE ExanicAssumption
<1>1. TypeOK
  <2>1. ctxDone \in BOOLEAN /\ closed \in BOOLEAN /\ segment \in BOOLEAN
    BY Zenon DEF Init
  <2>2. /\ chan \in Seq(Packet) /\ sending \in Seq(Packet) /\ pkt \in Seq(Packet)
        /\ preLayer \in Seq(Packet)
        /\ Len(sending) <= 1 /\ Len(pkt) <= 1 /\ Len(chan) <= ChanCap
    BY DEF Init
  <2>3. lastId \in 0 .. MaxId /\ data \in [Slice -> 0 .. MaxId]
    BY DEF Init
  <2> QED BY Zenon, <2>1, <2>2, <2>3 DEF Init, TypeOK
<1>2. HoldsInv
  BY Zenon DEF Init, HoldsInv
<1>3. RxInv
  BY Zenon DEF Init, RxInv, ReleasedAfterUse, DeviceReleased
<1>4. Pipeline = << >>
  BY DEF Init, Pipeline
<1>5. Frames(Pipeline) = {} /\ Once(Pipeline)
  BY <1>4 DEF Frames, Once
<1>6. HoldersInv /\ SliceInv
  BY Zenon, <1>5 DEF Init, HoldersInv, Holders, SliceInv, Sliced
<1> QED BY Zenon, <1>1, <1>2, <1>3, <1>6 DEF Inv

-----------------------------------------------------------------------------
(* The types.                                                              *)

(* Frame and slice that the pools give.                                    *)
LEMMA NewFrameFacts ==
  ASSUME Inv, GetNewFrame
  PROVE  \E f \in Frame, s \in Slice :
           /\ f \notin framePool /\ f \notin Frames(Pipeline) /\ f # releasing
           /\ frm' = f /\ buf' = [buf EXCEPT ![f] = s]
           /\ payloadPool' \subseteq payloadPool /\ framePool' = framePool
<1> DEFINE F == Frame \ Allocated
<1> DEFINE f == CHOOSE g \in F : TRUE
<1>1. F # {}
  BY Zenon DEF GetNewFrame
<1>2. f \in F
  BY <1>1, Zenon
<1>3. PICK s \in Slice : GetSlice(s) /\ frm' = f /\ buf' = [buf EXCEPT ![f] = s]
  BY Zenon DEF GetNewFrame
<1>4. payloadPool' \subseteq payloadPool
  BY Zenon, <1>3 DEF GetSlice
<1>5. framePool' = framePool
  BY Zenon DEF GetNewFrame
<1> HIDE DEF f
<1>6. f \in Frame /\ f \notin framePool /\ f \notin Frames(Pipeline) /\ f # releasing
  BY Zenon, <1>2, PipelinePlaces DEF Allocated
<1> QED BY Zenon, <1>3, <1>4, <1>5, <1>6

(* A release gives back a slice of the program.                            *)
LEMMA HeldSlices ==
  ASSUME Inv
  PROVE  /\ ppc = "receive" => frm \in Frame /\ buf[frm] \in Slice
         /\ cpc \in {"putNext", "putFail"} => releasing \in Frame /\ buf[releasing] \in Slice
BY Zenon DEF Inv, TypeOK, HoldsInv, SliceInv, Sliced

(* The goroutine keeps the types.                                          *)
LEMMA ReceiveType == Inv /\ Receive => TypeOK'
<1> SUFFICES ASSUME Inv, Receive PROVE TypeOK'
  BY Zenon
<1> USE ExanicAssumption
<1>0. TypeOK
  BY Zenon DEF Inv
<1>1. CASE ProducerExits
  <2>1. closed' \in BOOLEAN
    BY <1>1, Zenon DEF ProducerExits
  <2> QED BY <1>0, <1>1, <2>1 DEF ProducerExits, ProducerStep, pools, consumer, TypeOK
<1>2. CASE CreateEmptyEtherFrame
  <2>1. /\ frm' \in Frame /\ framePool' \subseteq Frame /\ payloadPool' \subseteq Slice
        /\ buf' \in [Frame -> Slice \cup {NoSlice}]
    <3>1. CASE GetPooledFrame
      BY Zenon, <1>0, <3>1 DEF GetPooledFrame, TypeOK
    <3>2. CASE GetNewFrame
      <4>1. PICK f \in Frame, s \in Slice :
              /\ frm' = f /\ buf' = [buf EXCEPT ![f] = s]
              /\ payloadPool' \subseteq payloadPool /\ framePool' = framePool
        BY Zenon, <3>2, NewFrameFacts
      <4> QED BY Zenon, <1>0, <4>1 DEF TypeOK
    <3> QED BY Zenon, <1>2, <3>1, <3>2 DEF CreateEmptyEtherFrame
  <2> QED BY <1>0, <1>2, <2>1 DEF CreateEmptyEtherFrame, ProducerStep, consumer, TypeOK
<1>3. ASSUME ppc = "receive", ReleaseFrame(frm)
      PROVE  /\ framePool' \subseteq Frame /\ payloadPool' \subseteq Slice
             /\ buf' = buf /\ frm' = NoFrame /\ ppc' = "select" /\ sending' = sending
  BY Zenon, <1>0, <1>3, HeldSlices DEF ReleaseFrame, TypeOK
<1>4. CASE ReceiveNothing
  <2>1. ppc = "receive" /\ ReleaseFrame(frm)
    BY Zenon, <1>4 DEF ReceiveNothing
  <2> QED BY <1>0, <1>4, <2>1, <1>3 DEF ReceiveNothing, ProducerStep, consumer, TypeOK
<1>5. ASSUME lastId < MaxId, lastId' = lastId + 1,
             data' \in {data, [data EXCEPT ![buf[frm]] = lastId']}
      PROVE  lastId' \in 0 .. MaxId /\ lastId' \in 1 .. MaxId /\ data' \in [Slice -> 0 .. MaxId]
  <2>1. lastId' \in 0 .. MaxId /\ lastId' \in 1 .. MaxId
    BY <1>0, <1>5 DEF TypeOK
  <2> DEFINE l == lastId'
  <2> HIDE DEF l
  <2>2. l \in 0 .. MaxId
    BY Zenon, <2>1 DEF l
  <2>3. [data EXCEPT ![buf[frm]] = l] \in [Slice -> 0 .. MaxId]
    BY Zenon, <1>0, <2>2 DEF TypeOK
  <2> QED BY Zenon, <1>0, <1>5, <2>1, <2>3 DEF TypeOK, l
<1>6. CASE ReceiveFails
  <2>1. ppc = "receive" /\ ReleaseFrame(frm)
    BY Zenon, <1>6 DEF ReceiveFails
  <2>2. lastId' \in 0 .. MaxId /\ data' \in [Slice -> 0 .. MaxId]
    BY Zenon, <1>6, <1>5 DEF ReceiveFails
  <2> QED BY SMTT(20), <1>0, <1>6, <2>1, <2>2, <1>3 DEF ReceiveFails, ProducerStep, consumer, TypeOK
<1>7. ASSUME NEW kind \in Kinds, ReceiveFrame(kind) PROVE TypeOK'
  <2>1. /\ ppc = "receive" /\ lastId < MaxId /\ lastId' = lastId + 1
        /\ data' = [data EXCEPT ![buf[frm]] = lastId'] /\ chan' = chan /\ closed' = closed
        /\ ProducerStep
    BY Zenon, <1>7 DEF ReceiveFrame
  <2>2. /\ lastId' \in 0 .. MaxId /\ lastId' \in 1 .. MaxId /\ data' \in [Slice -> 0 .. MaxId]
    BY Zenon, <2>1, <1>5
  <2>3. CASE ReleaseFrame(frm)
    BY <1>0, <2>1, <2>2, <2>3, <1>3 DEF ProducerStep, consumer, TypeOK
  <2>4. CASE /\ sending' = <<[frm |-> frm, id |-> lastId', kind |-> kind]>>
             /\ frm' = NoFrame /\ ppc' = "send"
             /\ UNCHANGED <<framePool, payloadPool, buf>>
    <3> DEFINE x == [frm |-> frm, id |-> lastId', kind |-> kind]
    <3>1. x \in Packet
      <4>1. frm \in Frame
        BY Zenon, <2>1, HeldSlices
      <4> QED BY Zenon, <4>1, <2>2 DEF Packet
    <3>2. sending' = <<x>>
      BY Zenon, <2>4
    <3> HIDE DEF x
    <3>3. sending' \in Seq(Packet) /\ Len(sending') <= 1
      BY <3>1, <3>2
    <3> QED BY <1>0, <2>1, <2>2, <2>4, <3>3 DEF ProducerStep, consumer, TypeOK
  <2> QED BY Zenon, <1>7, <2>3, <2>4 DEF ReceiveFrame
<1>8. CASE ReceiveCrashes
  BY <1>0, <1>8 DEF ReceiveCrashes, ProducerStep, pools, consumer, TypeOK
<1>9. CASE Send
  <2>1. sending # << >> /\ sending \in Seq(Packet) /\ Len(sending) <= 1 /\ chan \in Seq(Packet)
    BY Zenon, <1>9 DEF Send, Inv, HoldsInv, TypeOK
  <2>2. chan \o sending \in Seq(Packet) /\ Len(chan \o sending) = Len(chan) + Len(sending)
    BY <2>1
  <2>3. chan' = chan \o sending /\ Len(chan) < ChanCap
    BY Zenon, <1>9 DEF Send
  <2>4. chan' \in Seq(Packet) /\ Len(chan') <= ChanCap
    BY <2>1, <2>2, <2>3
  <2>5. sending' \in Seq(Packet) /\ Len(sending') <= 1
    BY <1>9 DEF Send
  <2> QED BY <1>0, <1>9, <2>4, <2>5 DEF Send, ProducerStep, pools, consumer, TypeOK
<1> QED BY Zenon, <1>1, <1>2, <1>4, <1>6, <1>7, <1>8, <1>9 DEF Receive

(* StartCapture keeps the types.                                           *)
LEMMA ConsumeType == Inv /\ Consume => TypeOK'
<1> SUFFICES ASSUME Inv, Consume PROVE TypeOK'
  BY Zenon
<1> USE ExanicAssumption
<1>0. TypeOK
  BY Zenon DEF Inv
<1>1. CASE SelectDone
  BY <1>0, <1>1 DEF SelectDone, ConsumerStep, producer, TypeOK
<1>2. CASE SelectPacket
  <2>1. chan \in Seq(Packet) /\ chan # << >> /\ Len(chan) <= ChanCap
    BY Zenon, <1>0, <1>2 DEF SelectPacket, TypeOK
  <2>2. /\ pkt' = <<Head(chan)>> /\ chan' = Tail(chan)
        /\ UNCHANGED <<handle, rx, framePool, payloadPool, releasing, result>>
        /\ ConsumerStep
    BY Zenon, <1>2 DEF SelectPacket
  <2>3. pkt' \in Seq(Packet) /\ Len(pkt') <= 1
    BY <2>1, <2>2
  <2>4. chan' \in Seq(Packet) /\ Len(chan') <= ChanCap
    <3>1. Tail(chan) \in Seq(Packet) /\ Len(Tail(chan)) = Len(chan) - 1 /\ Len(chan) \in Nat
      BY Zenon, <2>1, HeadFirst
    <3> QED BY <2>1, <2>2, <3>1
  <2>5. /\ preLayer' \in Seq(Packet) /\ segment' \in BOOLEAN
        /\ err' \in {"nil", "unpack", "handler", "EOF"}
        /\ cpc' \in {"call", "next"}
    <3>1. CASE segment' = TRUE /\ preLayer' = pkt' /\ err' = "nil" /\ cpc' = "call"
      <4>1. segment' \in BOOLEAN
        BY <3>1, Zenon
      <4> QED BY Zenon, <3>1, <4>1, <2>3
    <3>2. CASE /\ preLayer' \in IF segment THEN {preLayer, pkt'} ELSE {preLayer}
               /\ err' = "unpack" /\ cpc' = "next" /\ segment' = segment
      <4>1. preLayer' \in {preLayer, pkt'}
        BY Zenon, <3>2
      <4> QED BY Zenon, <1>0, <3>2, <4>1, <2>3 DEF TypeOK
    <3>3. CASE cpc' = "next" /\ UNCHANGED <<segment, preLayer, err>>
      BY Zenon, <1>0, <3>3 DEF TypeOK
    <3> QED BY Zenon, <1>2, <3>1, <3>2, <3>3 DEF SelectPacket
  <2> QED BY <1>0, <2>2, <2>3, <2>4, <2>5 DEF ConsumerStep, producer, TypeOK
<1>3. CASE CallHandler
  BY <1>0, <1>3 DEF CallHandler, ConsumerStep, producer, TypeOK
<1>4. CASE ReleasePacket
  <2>1. ASSUME NEW p \in Seq(Packet), p # << >> PROVE p[1].frm \in Frame
    BY <2>1, PacketFrame
  <2>2. framePool' \subseteq Frame /\ releasing' \in Frame \cup {NoFrame}
    <3> DEFINE p == IF segment THEN preLayer ELSE pkt
    <3>1. p \in Seq(Packet)
      BY Zenon, <1>0 DEF TypeOK
    <3>2. \/ UNCHANGED <<framePool, releasing>>
          \/ p # << >> /\ framePool' = framePool \cup {p[1].frm} /\ releasing' = p[1].frm
      BY Zenon, <1>4 DEF ReleasePacket
    <3> HIDE DEF p
    <3> QED BY Zenon, <1>0, <2>1, <3>1, <3>2 DEF TypeOK
  <2>3. cpc' \in {"select", "putNext", "putFail"}
    BY Zenon, <1>4 DEF ReleasePacket
  <2>4. /\ preLayer' = << >> /\ pkt' = << >>
        /\ UNCHANGED <<handle, rx, payloadPool, chan, segment, err, result>>
        /\ ConsumerStep
    BY Zenon, <1>4 DEF ReleasePacket, ReleasedLayer
  <2>5. preLayer' \in Seq(Packet) /\ pkt' \in Seq(Packet) /\ Len(pkt') <= 1
    BY <2>4
  <2> QED BY SMTT(20), <1>0, <2>2, <2>3, <2>4, <2>5 DEF ConsumerStep, producer, TypeOK
<1>5. CASE PutSlice
  BY SMTT(20), <1>0, <1>5, HeldSlices DEF PutSlice, ConsumerStep, producer, TypeOK
<1>6. CASE ReturnsEarly
  BY SMTT(20), <1>0, <1>6 DEF ReturnsEarly, Returns, ConsumerStep, producer, TypeOK, Inv, RxInv
<1>7. CASE Return
  BY Zenon, <1>0, <1>7 DEF Return, Returns, ConsumerStep, producer, TypeOK, Inv, RxInv
<1> QED BY Zenon, <1>1, <1>2, <1>3, <1>4, <1>5, <1>6, <1>7 DEF Consume

(* Every step keeps the types.                                             *)
LEMMA NextType == Inv /\ [Next]_vars => TypeOK'
<1> SUFFICES ASSUME Inv, [Next]_vars PROVE TypeOK'
  BY Zenon
<1>0. TypeOK
  BY Zenon DEF Inv
<1>1. CASE Cancel
  <2>1. ctxDone' \in BOOLEAN
    BY <1>1, Zenon DEF Cancel
  <2> QED BY <1>0, <1>1, <2>1 DEF Cancel, pools, producer, consumer, TypeOK
<1>2. CASE StartFails
  BY <1>0, <1>2 DEF StartFails, pools, producer, TypeOK
<1>3. CASE Start
  BY SMTT(20), <1>0, <1>3 DEF Start, pools, TypeOK
<1>4. CASE UNCHANGED vars
  BY SMTT(20), <1>0, <1>4 DEF vars, pools, producer, consumer, TypeOK
<1> QED BY Zenon, <1>1, <1>2, <1>3, <1>4, ReceiveType, ConsumeType DEF Next

-----------------------------------------------------------------------------
(* What the goroutines hold, and the receive buffer.                       *)

(* A step of the goroutine changes its own place only; it uses a receive   *)
(* buffer that is not live and stops.                                      *)
LEMMA ReceiveControl == Inv /\ Receive => HoldsInv' /\ RxInv'
<1> SUFFICES ASSUME Inv, Receive PROVE HoldsInv' /\ RxInv'
  BY Zenon
<1> USE ExanicAssumption
<1>0. TypeOK /\ HoldsInv /\ RxInv
  BY Zenon DEF Inv
<1>1. /\ UNCHANGED <<ctxDone, handle, rx, cpc, pkt, segment, preLayer, releasing, err, result>>
      /\ ppc \in {"select", "receive", "send"}
  BY Zenon DEF Receive, ProducerExits, CreateEmptyEtherFrame, ReceiveNothing, ReceiveFails,
         ReceiveFrame, ReceiveCrashes, Send, ProducerStep, consumer
<1>2. \/ /\ ppc = "select" /\ ppc' = "exited"
         /\ UNCHANGED <<frm, sending>>
      \/ /\ ppc = "select" /\ ppc' = "receive"
         /\ frm' \in Frame /\ sending' = sending
      \/ /\ ppc = "receive" /\ ppc' = "select"
         /\ frm' = NoFrame /\ sending' = sending
      \/ /\ ppc = "receive" /\ ppc' = "send"
         /\ frm' = NoFrame /\ sending' # << >>
      \/ /\ ppc = "receive" /\ ppc' = "crashed" /\ rx # "live"
         /\ UNCHANGED <<frm, sending>>
      \/ /\ ppc = "send" /\ ppc' = "select"
         /\ frm' = frm /\ sending' = << >>
  <2>1. CASE ProducerExits
    BY Zenon, <2>1 DEF ProducerExits
  <2>2. CASE CreateEmptyEtherFrame
    <3>1. frm' \in Frame
      <4>1. CASE GetPooledFrame
        BY Zenon, <1>0, <4>1 DEF GetPooledFrame, TypeOK
      <4>2. CASE GetNewFrame
        BY Zenon, <4>2, NewFrameFacts
      <4> QED BY Zenon, <2>2, <4>1, <4>2 DEF CreateEmptyEtherFrame
    <3> QED BY Zenon, <2>2, <3>1 DEF CreateEmptyEtherFrame
  <2>3. CASE ReceiveNothing
    BY Zenon, <2>3 DEF ReceiveNothing, ReleaseFrame
  <2>4. CASE ReceiveFails
    BY Zenon, <2>4 DEF ReceiveFails, ReleaseFrame
  <2>5. ASSUME NEW kind \in Kinds, ReceiveFrame(kind)
        PROVE  /\ ppc = "receive" /\ frm' = NoFrame
               /\ \/ ppc' = "select" /\ sending' = sending
                  \/ ppc' = "send" /\ sending' # << >>
    <3>1. ppc = "receive"
      BY Zenon, <2>5 DEF ReceiveFrame
    <3>2. CASE ReleaseFrame(frm)
      BY Zenon, <3>1, <3>2 DEF ReleaseFrame
    <3>3. CASE /\ sending' = <<[frm |-> frm, id |-> lastId', kind |-> kind]>>
               /\ frm' = NoFrame /\ ppc' = "send"
      <4> DEFINE x == [frm |-> frm, id |-> lastId', kind |-> kind]
      <4>1. sending' = <<x>>
        BY Zenon, <3>3
      <4> HIDE DEF x
      <4>2. sending' # << >>
        BY Zenon, <4>1
      <4> QED BY Zenon, <3>1, <3>3, <4>2
    <3> QED BY Zenon, <2>5, <3>2, <3>3 DEF ReceiveFrame
  <2>6. CASE ReceiveCrashes
    BY Zenon, <2>6 DEF ReceiveCrashes
  <2>7. CASE Send
    BY Zenon, <2>7 DEF Send
  <2> QED BY Zenon, <2>1, <2>2, <2>3, <2>4, <2>5, <2>6, <2>7 DEF Receive
<1>3. HoldsInv'
  BY Zenon, <1>0, <1>1, <1>2 DEF HoldsInv
<1>4. ReleasedAfterUse'
  <2>1. ppc' = "crashed" => rx # "live" /\ ppc = "receive"
    BY Zenon, <1>1, <1>2
  <2>2. rx = "null" \/ rx = "none" \/ rx = "freed" \/ rx = "live"
    BY Zenon, <1>0 DEF TypeOK
  <2> QED BY Zenon, <1>0, <1>1, <2>1, <2>2 DEF RxInv, ReleasedAfterUse
<1>5. DeviceReleased'
  BY Zenon, <1>0, <1>1 DEF RxInv, DeviceReleased
<1>6. /\ ppc' # "idle" /\ ppc # "idle" /\ ppc # "exited"
  BY Zenon, <1>1, <1>2
<1>7. RxInv'
  BY Zenon, <1>0, <1>1, <1>4, <1>5, <1>6 DEF RxInv
<1> QED BY Zenon, <1>3, <1>7

(* StartCapture releases the packet in hand or none, and gives the receive *)
(* buffer back where the goroutine has ended or the handler has failed.    *)
LEMMA ConsumeControl == Inv /\ Consume => HoldsInv' /\ RxInv'
<1> SUFFICES ASSUME Inv, Consume PROVE HoldsInv' /\ RxInv'
  BY Zenon
<1> USE ExanicAssumption
<1>0. TypeOK /\ HoldsInv /\ RxInv
  BY Zenon DEF Inv
<1>a. UNCHANGED <<ppc, frm, sending>> /\ ppc # "crashed"
  BY Zenon DEF Consume, SelectDone, SelectPacket, CallHandler, ReleasePacket, PutSlice, ReturnsEarly,
         Return, Returns, ConsumerStep, Running, producer
<1>b. cpc \in {"select", "call", "next", "fail", "putNext", "putFail", "return", "wait"}
  BY Zenon DEF Consume, SelectDone, SelectPacket, CallHandler, ReleasePacket, PutSlice, ReturnsEarly, Return
<1>c. ppc # "idle" /\ rx # "none" /\ rx # "freed"
  BY Zenon, <1>0, <1>b DEF RxInv
<1>1. CASE SelectDone
  <2>1. /\ cpc = "select" /\ cpc' = "wait"
        /\ UNCHANGED <<handle, rx, pkt, segment, preLayer, releasing, err, result>>
    BY Zenon, <1>1 DEF SelectDone
  <2> QED BY Zenon, <1>0, <1>a, <1>c, <2>1 DEF HoldsInv, RxInv, ReleasedAfterUse, DeviceReleased
<1>2. CASE SelectPacket
  <2>1. /\ cpc = "select" /\ pkt' = <<Head(chan)>>
        /\ UNCHANGED <<handle, rx, releasing, result>>
    BY Zenon, <1>2 DEF SelectPacket
  <2>2. pkt' # << >>
    BY Zenon, <2>1
  <2>3. pkt = << >> /\ preLayer = << >> /\ err \notin {"handler", "EOF"} /\ releasing = NoFrame
    BY Zenon, <1>0, <2>1 DEF HoldsInv, RxInv
  <2>4. \/ segment' = TRUE /\ preLayer' = pkt' /\ err' = "nil" /\ cpc' = "call"
        \/ preLayer' \in {preLayer, pkt'} /\ err' = "unpack" /\ cpc' = "next"
        \/ cpc' = "next" /\ UNCHANGED <<segment, preLayer, err>>
    BY Zenon, <1>2 DEF SelectPacket
  <2>5. HoldsInv'
    BY Zenon, <1>0, <1>a, <2>1, <2>2, <2>3, <2>4 DEF HoldsInv
  <2>6. RxInv'
    BY Zenon, <1>0, <1>a, <1>c, <2>1, <2>3, <2>4 DEF RxInv, ReleasedAfterUse, DeviceReleased
  <2> QED BY Zenon, <2>5, <2>6
<1>3. CASE CallHandler
  <2>1. /\ cpc = "call" /\ err' \in {"nil", "handler", "EOF"}
        /\ cpc' = IF err' = "nil" THEN "next" ELSE "fail"
        /\ UNCHANGED <<handle, rx, pkt, segment, preLayer, releasing, result>>
    BY Zenon, <1>3 DEF CallHandler
  <2> QED BY Zenon, <1>0, <1>a, <1>c, <2>1 DEF HoldsInv, RxInv, ReleasedAfterUse, DeviceReleased
<1>4. CASE ReleasePacket
  <2> DEFINE p == IF segment THEN preLayer ELSE pkt
  <2>1. /\ cpc \in {"next", "fail"} /\ preLayer' = << >> /\ pkt' = << >>
        /\ UNCHANGED <<handle, rx, segment, err, result>>
    BY Zenon, <1>4 DEF ReleasePacket, ReleasedLayer
  <2>2. \/ p = << >> /\ cpc' = "select" /\ releasing' = releasing
        \/ /\ p # << >> /\ cpc' = IF cpc = "next" THEN "putNext" ELSE "putFail"
           /\ releasing' = p[1].frm
    BY Zenon, <1>4 DEF ReleasePacket
  <2>3. p \in Seq(Packet) /\ (p # << >> => p[1].frm \in Frame)
    <3>1. p \in Seq(Packet)
      BY Zenon, <1>0 DEF TypeOK
    <3> HIDE DEF p
    <3> QED BY <3>1, PacketFrame
  <2>4. cpc = "fail" => p # << >>
    BY Zenon, <1>0 DEF HoldsInv
  <2> HIDE DEF p
  <2>5. releasing = NoFrame /\ NoFrame \notin Frame
    BY Zenon, <1>0, <2>1 DEF HoldsInv
  <2>6. HoldsInv'
    BY Zenon, <1>0, <1>a, <2>1, <2>2, <2>3, <2>5 DEF HoldsInv
  <2>7. RxInv'
    BY Zenon, <1>0, <1>a, <1>c, <2>1, <2>2, <2>4 DEF RxInv, ReleasedAfterUse, DeviceReleased
  <2> QED BY Zenon, <2>6, <2>7
<1>5. CASE PutSlice
  <2>1. /\ cpc \in {"putNext", "putFail"} /\ releasing' = NoFrame
        /\ cpc' = IF cpc = "putNext" THEN "select" ELSE "return"
        /\ UNCHANGED <<handle, rx, pkt, segment, preLayer, err, result>>
    BY Zenon, <1>5 DEF PutSlice
  <2> QED BY Zenon, <1>0, <1>a, <1>c, <2>1 DEF HoldsInv, RxInv, ReleasedAfterUse, DeviceReleased
<1>6. CASE ReturnsEarly \/ Return
  <2>1. /\ cpc' = "returned" /\ rx' = "freed" /\ handle' = "freed"
        /\ UNCHANGED <<pkt, segment, preLayer, releasing, err>>
        /\ \/ cpc = "return"
           \/ cpc = "wait" /\ ppc = "exited"
    BY Zenon, <1>6 DEF ReturnsEarly, Return, Returns
  <2> QED BY Zenon, <1>0, <1>a, <1>c, <2>1 DEF HoldsInv, RxInv, ReleasedAfterUse, DeviceReleased
<1> QED BY Zenon, <1>1, <1>2, <1>3, <1>4, <1>5, <1>6 DEF Consume

(* Every step.                                                             *)
LEMMA NextControl == Inv /\ [Next]_vars => HoldsInv' /\ RxInv'
<1> SUFFICES ASSUME Inv, [Next]_vars PROVE HoldsInv' /\ RxInv'
  BY Zenon
<1>0. TypeOK /\ HoldsInv /\ RxInv
  BY Zenon DEF Inv
<1>1. CASE Cancel
  BY <1>0, <1>1 DEF Cancel, producer, consumer, HoldsInv, RxInv, ReleasedAfterUse, DeviceReleased
<1>2. CASE StartFails
  BY Zenon, <1>0, <1>2 DEF StartFails, producer, HoldsInv, RxInv, ReleasedAfterUse, DeviceReleased
<1>3. CASE Start
  BY Zenon, <1>0, <1>3 DEF Start, HoldsInv, RxInv, ReleasedAfterUse, DeviceReleased
<1>4. CASE UNCHANGED vars
  BY <1>0, <1>4
     DEF vars, producer, consumer, HoldsInv, RxInv, ReleasedAfterUse, DeviceReleased
<1> QED BY Zenon, <1>1, <1>2, <1>3, <1>4, ReceiveControl, ConsumeControl DEF Next

-----------------------------------------------------------------------------
(* The holders of the frames.                                              *)

\* What the invariant says of the holders when the goroutine holds f, the
\* consumer releases r, and the buffers are b.
Held(q, pool, f, r, b) ==
  Holders(q, pool, f) /\ Sliced(b, pool \cup Frames(q) \cup {f, r})

(* The two invariants together.                                            *)
LEMMA HeldInv ==
  /\ HoldersInv /\ SliceInv <=> Held(Pipeline, framePool, frm, releasing, buf)
  /\ (HoldersInv /\ SliceInv)' <=> Held(Pipeline', framePool', frm', releasing', buf')
BY Zenon DEF HoldersInv, SliceInv, Held, Holders, Sliced, Frames, Once

(* Taking from the pool, a new frame, giving back; a packet for the frame, *)
(* a packet released with its frame or without it; the end of a release.   *)
LEMMA HeldSteps ==
  ASSUME NEW q \in Seq(Packet), NEW pool \in SUBSET Frame, NEW f, NEW r,
         NEW b \in [Frame -> Slice \cup {NoSlice}],
         Frames(q) \subseteq Frame, Held(q, pool, f, r, b)
  PROVE  /\ \A g \in pool : Held(q, pool \ {g}, g, r, b)
         /\ \A g \in Frame, s \in Slice : g \notin pool \cup Frames(q) \cup {r}
              => Held(q, pool, g, r, [b EXCEPT ![g] = s])
         /\ f \in Frame => Held(q, pool \cup {f}, NoFrame, r, b)
         /\ \A x \in Packet, t \in Seq(Packet) : x.frm = f /\ Adds(q, t, x)
              => Held(t, pool, NoFrame, r, b)
         /\ \A x \in Packet, t \in Seq(Packet) : Drops(q, t, x)
              => /\ Held(t, pool \cup {x.frm}, f, x.frm, b)
                 /\ Held(t, pool, f, r, b)
         /\ Held(q, pool, f, NoFrame, b)
<1> USE ExanicAssumption
<1>1. /\ Once(q) /\ pool \cap (Frames(q) \cup {f}) = {} /\ f \notin Frames(q)
      /\ Sliced(b, pool \cup Frames(q) \cup {f, r})
  BY Zenon DEF Held, Holders
<1> DEFINE Q == Frames(q)
<1>2. /\ pool \cap (Q \cup {f}) = {} /\ f \notin Q /\ Q \subseteq Frame
      /\ Sliced(b, pool \cup Q \cup {f, r})
  BY Zenon, <1>1
<1>3. ASSUME NEW g \in pool PROVE Held(q, pool \ {g}, g, r, b)
  <2> HIDE DEF Q
  <2>1. (pool \ {g}) \cap (Q \cup {g}) = {} /\ g \notin Q
    BY Zenon, <1>2
  <2>2. Sliced(b, (pool \ {g}) \cup Q \cup {g, r})
    BY Zenon, <1>2 DEF Sliced
  <2> QED BY Zenon, <1>1, <2>1, <2>2 DEF Held, Holders, Q
<1>4. ASSUME NEW g \in Frame, NEW s \in Slice, g \notin pool \cup Q \cup {r}
      PROVE  Held(q, pool, g, r, [b EXCEPT ![g] = s])
  <2> HIDE DEF Q
  <2>1. pool \cap (Q \cup {g}) = {} /\ g \notin Q
    BY <1>2, <1>4
  <2>2. Sliced([b EXCEPT ![g] = s], pool \cup Q \cup {g, r})
    BY Zenon, <1>2, <1>4 DEF Sliced
  <2> QED BY Zenon, <1>1, <2>1, <2>2 DEF Held, Holders, Q
<1>5. ASSUME f \in Frame PROVE Held(q, pool \cup {f}, NoFrame, r, b)
  <2> HIDE DEF Q
  <2>1. (pool \cup {f}) \cap (Q \cup {NoFrame}) = {} /\ NoFrame \notin Q
    BY Zenon, <1>2, <1>5
  <2>2. Sliced(b, (pool \cup {f}) \cup Q \cup {NoFrame, r})
    BY Zenon, <1>2 DEF Sliced
  <2> QED BY Zenon, <1>1, <2>1, <2>2 DEF Held, Holders, Q
<1>6. ASSUME NEW x \in Packet, NEW t \in Seq(Packet), x.frm = f, Adds(q, t, x)
      PROVE  Held(t, pool, NoFrame, r, b)
  <2>1. Once(t) /\ Frames(t) = Q \cup {f}
    BY Zenon, <1>1, <1>6, AddsFrame
  <2>2. f \in Frame
    BY Zenon, <1>6, PacketFrame
  <2> HIDE DEF Q
  <2>3. pool \cap ((Q \cup {f}) \cup {NoFrame}) = {} /\ NoFrame \notin Q \cup {f}
    BY Zenon, <1>2, <2>2
  <2>4. Sliced(b, pool \cup (Q \cup {f}) \cup {NoFrame, r})
    BY Zenon, <1>2 DEF Sliced
  <2> QED BY Zenon, <2>1, <2>3, <2>4 DEF Held, Holders
<1>7. ASSUME NEW x \in Packet, NEW t \in Seq(Packet), Drops(q, t, x)
      PROVE  Held(t, pool \cup {x.frm}, f, x.frm, b) /\ Held(t, pool, f, r, b)
  <2>1. Once(t) /\ Frames(t) = Q \ {x.frm} /\ x.frm \in Q
    BY Zenon, <1>1, <1>7, DropsFrame
  <2> DEFINE g == x.frm
  <2>2. g \in Q /\ g # f
    BY Zenon, <1>1, <2>1
  <2> HIDE DEF Q, g
  <2>3. (pool \cup {g}) \cap ((Q \ {g}) \cup {f}) = {} /\ f \notin Q \ {g}
    BY Zenon, <1>2, <2>2
  <2>4. /\ Sliced(b, (pool \cup {g}) \cup (Q \ {g}) \cup {f, g})
        /\ Sliced(b, pool \cup (Q \ {g}) \cup {f, r})
    BY Zenon, <1>2, <2>2 DEF Sliced
  <2>5. pool \cap ((Q \ {g}) \cup {f}) = {}
    BY Zenon, <1>2
  <2> QED BY Zenon, <2>1, <2>3, <2>4, <2>5 DEF Held, Holders, g
<1>8. Held(q, pool, f, NoFrame, b)
  <2> HIDE DEF Q
  <2>1. Sliced(b, pool \cup Q \cup {f, NoFrame})
    BY Zenon, <1>2 DEF Sliced
  <2> QED BY Zenon, <1>1, <2>1 DEF Held, Holders, Q
<1> QED BY Zenon, <1>3, <1>4, <1>5, <1>6, <1>7, <1>8

(* What the lemma above needs of a state.                                  *)
LEMMA HeldNow ==
  ASSUME Inv
  PROVE  /\ Pipeline \in Seq(Packet) /\ Frames(Pipeline) \subseteq Frame
         /\ framePool \in SUBSET Frame /\ buf \in [Frame -> Slice \cup {NoSlice}]
         /\ Held(Pipeline, framePool, frm, releasing, buf)
BY Zenon, PipelineType, HeldInv DEF Inv, TypeOK

(* A step that leaves the holders alone.                                   *)
LEMMA HeldSame ==
  ASSUME Inv, Pipeline' = Pipeline, UNCHANGED <<framePool, frm, releasing, buf>>
  PROVE  (HoldersInv /\ SliceInv)'
BY Zenon, HeldNow, HeldInv

(* The steps of the goroutine.                                             *)
LEMMA ReceiveHeld == Inv /\ Receive => (HoldersInv /\ SliceInv)'
<1> SUFFICES ASSUME Inv, Receive PROVE (HoldersInv /\ SliceInv)'
  BY Zenon
<1>0. TypeOK /\ HoldsInv
  BY Zenon DEF Inv
<1>a. pkt \in Seq(Packet) /\ chan \in Seq(Packet) /\ sending \in Seq(Packet)
  BY Zenon, <1>0 DEF TypeOK
<1>b. pkt' = pkt /\ releasing' = releasing
  BY Zenon DEF Receive, ProducerExits, CreateEmptyEtherFrame, ReceiveNothing, ReceiveFails,
         ReceiveFrame, ReceiveCrashes, Send, ProducerStep, consumer
<1>c. chan' = chan /\ sending' = sending => Pipeline' = Pipeline
  BY Zenon, <1>b, PipelinePlaces
<1> DEFINE q == Pipeline
<1> DEFINE pool == framePool
<1>d. /\ q \in Seq(Packet) /\ Frames(q) \subseteq Frame
      /\ pool \in SUBSET Frame /\ buf \in [Frame -> Slice \cup {NoSlice}]
      /\ Held(q, pool, frm, releasing, buf)
  BY Zenon, HeldNow
<1>1. CASE ProducerExits
  BY Zenon, <1>1, <1>b, <1>c, HeldSame DEF ProducerExits, pools
<1>2. CASE CreateEmptyEtherFrame
  <2>1. Pipeline' = q
    BY Zenon, <1>2, <1>c DEF CreateEmptyEtherFrame
  <2>2. Held(q, framePool', frm', releasing, buf')
    <3>1. CASE GetPooledFrame
      <4>1. PICK g \in pool : frm' = g /\ framePool' = pool \ {g} /\ buf' = buf
        BY Zenon, <3>1 DEF GetPooledFrame
      <4>2. Held(q, pool \ {g}, g, releasing, buf)
        BY Zenon, <1>d, HeldSteps
      <4> QED BY Zenon, <4>1, <4>2
    <3>2. CASE GetNewFrame
      <4>1. PICK g \in Frame, s \in Slice :
              /\ g \notin framePool /\ g \notin Frames(Pipeline) /\ g # releasing
              /\ frm' = g /\ buf' = [buf EXCEPT ![g] = s]
              /\ framePool' = framePool
        BY Zenon, <3>2, NewFrameFacts
      <4>2. g \notin pool \cup Frames(q) \cup {releasing}
        BY Zenon, <4>1
      <4>3. Held(q, pool, g, releasing, [buf EXCEPT ![g] = s])
        BY Zenon, <1>d, <4>2, HeldSteps
      <4> QED BY Zenon, <4>1, <4>3
    <3> QED BY Zenon, <1>2, <3>1, <3>2 DEF CreateEmptyEtherFrame
  <2> QED BY Zenon, <1>b, <2>1, <2>2, HeldInv
<1>3. ASSUME ppc = "receive", ReleaseFrame(frm), chan' = chan PROVE (HoldersInv /\ SliceInv)'
  <2>1. frm \in Frame
    BY Zenon, <1>3, HeldSlices
  <2>2. /\ framePool' = pool \cup {frm} /\ frm' = NoFrame /\ buf' = buf /\ sending' = sending
    BY Zenon, <1>3 DEF ReleaseFrame
  <2>3. Held(q, pool \cup {frm}, NoFrame, releasing, buf)
    BY Zenon, <1>d, <2>1, HeldSteps
  <2>4. Pipeline' = q
    BY Zenon, <1>3, <2>2, <1>c
  <2> QED BY Zenon, <1>b, <2>2, <2>3, <2>4, HeldInv
<1>4. CASE ReceiveNothing
  BY Zenon, <1>4, <1>3 DEF ReceiveNothing
<1>5. CASE ReceiveFails
  BY Zenon, <1>5, <1>3 DEF ReceiveFails
<1>6. ASSUME NEW kind \in Kinds, ReceiveFrame(kind) PROVE (HoldersInv /\ SliceInv)'
  <2>1. ppc = "receive" /\ chan' = chan
    BY Zenon, <1>6 DEF ReceiveFrame
  <2>2. CASE ReleaseFrame(frm)
    BY Zenon, <2>1, <2>2, <1>3
  <2>3. CASE /\ sending' = <<[frm |-> frm, id |-> lastId', kind |-> kind]>>
             /\ frm' = NoFrame
             /\ UNCHANGED <<framePool, payloadPool, buf>>
    <3> DEFINE x == [frm |-> frm, id |-> lastId', kind |-> kind]
    <3>1. x \in Packet /\ x.frm = frm
      <4>1. frm \in Frame
        BY Zenon, <2>1, HeldSlices
      <4>2. lastId' \in 1 .. MaxId
        BY SMTT(20), <1>0, <1>6, ExanicAssumption DEF ReceiveFrame, TypeOK
      <4> QED BY Zenon, <4>1, <4>2, ExanicAssumption DEF Packet
    <3>2. sending' = <<x>>
      BY Zenon, <2>3
    <3> HIDE DEF x
    <3>3. sending = << >>
      BY Zenon, <1>0, <2>1 DEF HoldsInv
    <3>4. Adds(Pipeline, Pipeline', x)
      <4>1. Adds(Places(pkt, chan, << >>), Places(pkt, chan, <<x>>), x)
        BY Zenon, <1>a, <3>1, ReceiveAppends
      <4> QED BY Zenon, <4>1, <1>b, <2>1, <3>2, <3>3, PipelinePlaces
    <3>5. PICK t : t = Pipeline'
      BY Zenon
    <3>6. t \in Seq(Packet)
      BY <1>d, <3>1, <3>4, <3>5 DEF Adds
    <3>7. Held(t, pool, NoFrame, releasing, buf)
      BY Zenon, <1>d, <3>1, <3>4, <3>5, <3>6, HeldSteps
    <3> QED BY Zenon, <1>b, <2>3, <3>5, <3>7, HeldInv
  <2> QED BY Zenon, <1>6, <2>2, <2>3 DEF ReceiveFrame
<1>7. CASE ReceiveCrashes
  BY Zenon, <1>7, <1>b, <1>c, HeldSame DEF ReceiveCrashes, pools
<1>8. CASE Send
  <2>1. chan' = Cat(chan, sending) /\ sending' = << >>
    BY Zenon, <1>8 DEF Send, Cat
  <2>2. Pipeline' = Pipeline
    BY Zenon, <1>a, <1>b, <2>1, SendMoves, PipelinePlaces
  <2> QED BY Zenon, <1>8, <1>b, <2>2, HeldSame DEF Send, pools
<1> QED BY Zenon, <1>1, <1>2, <1>4, <1>5, <1>6, <1>7, <1>8 DEF Receive

(* The steps of StartCapture.                                              *)
LEMMA ConsumeHeld == Inv /\ Consume => (HoldersInv /\ SliceInv)'
<1> SUFFICES ASSUME Inv, Consume PROVE (HoldersInv /\ SliceInv)'
  BY Zenon
<1>0. TypeOK /\ HoldsInv
  BY Zenon DEF Inv
<1>a. pkt \in Seq(Packet) /\ chan \in Seq(Packet) /\ sending \in Seq(Packet)
  BY Zenon, <1>0 DEF TypeOK
<1>b. UNCHANGED <<frm, sending, buf>>
  BY Zenon DEF Consume, SelectDone, SelectPacket, CallHandler, ReleasePacket, PutSlice, ReturnsEarly,
         Return, Returns, ConsumerStep, producer
<1>c. chan' = chan /\ pkt' = pkt => Pipeline' = Pipeline
  BY Zenon, <1>b, PipelinePlaces
<1> DEFINE q == Pipeline
<1> DEFINE pool == framePool
<1>d. /\ q \in Seq(Packet) /\ Frames(q) \subseteq Frame
      /\ pool \in SUBSET Frame /\ buf \in [Frame -> Slice \cup {NoSlice}]
      /\ Held(q, pool, frm, releasing, buf)
  BY Zenon, HeldNow
<1>1. CASE SelectDone
  BY Zenon, <1>1, <1>b, <1>c, HeldSame DEF SelectDone
<1>2. CASE SelectPacket
  <2>1. /\ chan # << >> /\ pkt' = <<Head(chan)>> /\ chan' = Tail(chan)
        /\ UNCHANGED <<framePool, releasing>> /\ cpc = "select"
    BY Zenon, <1>2 DEF SelectPacket
  <2>2. pkt = << >>
    BY Zenon, <1>0, <2>1 DEF HoldsInv
  <2>3. Places(<<Head(chan)>>, Tail(chan), sending) = Places(<< >>, chan, sending)
    BY Zenon, <1>a, <2>1, ReceiveMoves
  <2>4. Pipeline' = Pipeline
    BY Zenon, <1>b, <2>1, <2>2, <2>3, PipelinePlaces
  <2> QED BY Zenon, <1>b, <2>1, <2>4, HeldSame
<1>3. CASE CallHandler
  BY Zenon, <1>3, <1>b, <1>c, HeldSame DEF CallHandler
<1>4. CASE ReleasePacket
  <2>1. cpc \in {"next", "fail"} /\ pkt' = << >> /\ chan' = chan
    BY Zenon, <1>4 DEF ReleasePacket
  <2>2. pkt # << >> /\ Len(pkt) <= 1
    BY Zenon, <1>0, <2>1 DEF HoldsInv, TypeOK
  <2>3. PICK h \in Packet : pkt = <<h>> /\ pkt[1] = h
    BY Zenon, <1>a, <2>2, SinglePacket
  <2>4. \/ UNCHANGED <<framePool, releasing>>
        \/ framePool' = pool \cup {h.frm} /\ releasing' = h.frm
    <3> DEFINE p == IF segment THEN preLayer ELSE pkt
    <3>1. \/ UNCHANGED <<framePool, releasing>>
          \/ p # << >> /\ framePool' = framePool \cup {p[1].frm} /\ releasing' = p[1].frm
      BY Zenon, <1>4 DEF ReleasePacket
    <3>2. p # << >> => p = pkt
      BY Zenon, <1>0 DEF HoldsInv
    <3> HIDE DEF p
    <3> QED BY Zenon, <2>3, <3>1, <3>2
  <2>5. PICK t : t = Pipeline'
    BY Zenon
  <2>6. t = Places(<< >>, chan, sending)
    BY Zenon, <1>b, <2>1, <2>5, PipelinePlaces
  <2>7. Drops(q, t, h)
    BY Zenon, <1>a, <2>3, <2>6, HandlerDrops, PipelinePlaces
  <2>8. t \in Seq(Packet)
    BY Zenon, <1>a, <2>6, PlacesType, CatFacts
  <2>9. Held(t, pool \cup {h.frm}, frm, h.frm, buf) /\ Held(t, pool, frm, releasing, buf)
    BY Zenon, <1>d, <2>7, <2>8, HeldSteps
  <2> QED BY Zenon, <1>b, <2>4, <2>5, <2>9, HeldInv
<1>5. CASE PutSlice
  <2>1. releasing' = NoFrame /\ framePool' = framePool /\ Pipeline' = Pipeline
    BY Zenon, <1>5, <1>c DEF PutSlice
  <2>2. Held(q, pool, frm, NoFrame, buf)
    BY Zenon, <1>d, HeldSteps
  <2> QED BY Zenon, <1>b, <2>1, <2>2, HeldInv
<1>6. CASE ReturnsEarly \/ Return
  BY Zenon, <1>6, <1>b, <1>c, HeldSame DEF ReturnsEarly, Return, Returns
<1> QED BY Zenon, <1>1, <1>2, <1>3, <1>4, <1>5, <1>6 DEF Consume

(* Every step keeps one holder per frame, with its slice.                  *)
LEMMA NextHeld == Inv /\ [Next]_vars => (HoldersInv /\ SliceInv)'
<1> SUFFICES ASSUME Inv, [Next]_vars PROVE (HoldersInv /\ SliceInv)'
  BY Zenon
<1>1. CASE Cancel \/ StartFails \/ Start \/ UNCHANGED vars
  <2>1. UNCHANGED <<framePool, frm, releasing, buf, pkt, chan, sending>>
    BY Zenon, <1>1 DEF Cancel, StartFails, Start, vars, pools, producer, consumer
  <2> QED BY Zenon, <2>1, HeldSame, PipelinePlaces
<1> QED BY Zenon, <1>1, ReceiveHeld, ConsumeHeld DEF Next

-----------------------------------------------------------------------------
(* The invariant is inductive.                                             *)
THEOREM Invariance == Spec => []Inv
<1>1. Inv /\ [Next]_vars => Inv'
  BY Zenon, NextType, NextControl, NextHeld DEF Inv
<1> QED BY InitInv, <1>1, PTL DEF Spec

(* A frame has one holder, whichever segment a packet is released through, *)
(* and although the goroutine may take a frame whose Release has not       *)
(* ended.                                                                  *)
THEOREM FrameHolders == Spec => []FramesAccounted
<1>1. Inv => FramesAccounted
  BY Zenon, PipelinePlaces DEF Inv, HoldsInv, HoldersInv, Holders, Once, FramesAccounted
<1> QED BY <1>1, Invariance, PTL

(* A capture that ends by its context keeps the receive buffer until the   *)
(* goroutine has stopped using it.                                         *)
THEOREM UseBeforeRelease == Spec => []ReleasedAfterUse
<1>1. Inv => ReleasedAfterUse
  BY Zenon DEF Inv, RxInv
<1> QED BY <1>1, Invariance, PTL

(* When StartCapture has returned, device and receive buffer are given     *)
(* back, except where the filter was refused.                              *)
THEOREM DeviceGivenBack == Spec => []DeviceReleased
<1>1. Inv => DeviceReleased
  BY Zenon DEF Inv, RxInv
<1> QED BY <1>1, Invariance, PTL
=============================================================================
