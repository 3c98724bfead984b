------------------------------ MODULE PeerProofs ------------------------------
(***************************************************************************)
(* Type correctness of Peer.tla, that its reads and its writes follow one  *)
(* another without overlap and without a gap, that the frames in its write *)
(* queue are whole, that a health check is answered, that its slots are    *)
(* told of its life in order, and that its timers run as long as they are  *)
(* needed and no longer, for every bound and every size of message.        *)
(*                                                                         *)
(* A method is described by what it does to the reading side and to the    *)
(* writing side of the object; a handler is then one of four kinds: it     *)
(* starts the peer, ends a read, ends a write, or does neither.            *)
(***************************************************************************)
EXTENDS Peer, ProtocolProofs

\* async_start() runs once, and no read begins before it.
StartsOnce ==
    /\ AtMostOne({"start"})
    /\ Queued({"start"}) => peer.reading = "none" /\ ~Queued(Reads)

Fits(frame) ==
    /\ frame.size = header_size + frame.length
    /\ LimitsFit => AcceptsLength(frame) /\ AcceptsBody(frame)

Inv == TypeOK /\ OneOperationEach /\ FramesFit /\ StartsOnce

-----------------------------------------------------------------------------
\* What a method may do, from object to object.

Kept(p, q) ==
    /\ q.open = p.open /\ q.reading = p.reading /\ q.writing = p.writing
    /\ q.queue = p.queue /\ q.closeAfterWrite = p.closeAfterWrite

\* close() ends the operations under way of an open socket.
Shut(p, q) ==
    /\ ~q.open /\ q.queue = p.queue
    /\ q.writing => p.writing
    /\ q.reading # "none" => p.reading # "none"

\* push_frame() accepts the frame and starts the write if there is none.
Pushed(p, q) ==
    /\ p.open /\ q.open
    /\ q.reading = p.reading /\ q.closeAfterWrite = p.closeAfterWrite
    /\ Len(p.queue) < MaxSendQueueSize
    /\ \E f \in Frames : Fits(f) /\ q.queue = Append(p.queue, f)
    /\ q.writing = (p.writing \/ p.queue = <<>>)

Effect(p, q) == Kept(p, q) \/ Shut(p, q) \/ Pushed(p, q)

LEMMA Marks ==
    ASSUME NEW p \in Objects, NEW timer \in Timers, NEW event \in Events
    PROVE  /\ Arm(p, timer) \in Objects /\ Kept(p, Arm(p, timer))
           /\ Cancel(p, timer) \in Objects /\ Kept(p, Cancel(p, timer))
           /\ Emit(p, event) \in Objects /\ Kept(p, Emit(p, event))
<1>1. Arm(p, timer) \in Objects /\ Kept(p, Arm(p, timer))
  BY DEF Arm, Objects, Kept
<1>2. Cancel(p, timer) \in Objects /\ Kept(p, Cancel(p, timer))
  BY DEF Cancel, Objects, Kept
<1>3. Emit(p, event) \in Objects /\ Kept(p, Emit(p, event))
  <2>1. p.events \in Seq(Events)
    BY DEF Objects
  <2> DEFINE events == Append(p.events, event)
  <2>2. events \in Seq(Events)
    BY <2>1
  <2> HIDE DEF events
  <2>3. [p EXCEPT !.events = events] \in Objects /\ Kept(p, [p EXCEPT !.events = events])
    BY <2>2 DEF Objects, Kept
  <2>4. QED
    BY <2>3 DEF Emit, events
<1>4. QED
  BY <1>1, <1>2, <1>3

LEMMA Closing ==
    ASSUME NEW p \in Objects
    PROVE  /\ Close(p) \in Objects /\ Shut(p, Close(p))
           /\ HandleError(p) \in Objects /\ Shut(p, HandleError(p))
<1>1. ASSUME NEW q \in Objects
      PROVE  Close(q) \in Objects /\ Shut(q, Close(q))
  <2>1. CASE q.open
    <3> DEFINE r == [q EXCEPT !.open = FALSE, !.armed = {}, !.reading = "none", !.writing = FALSE]
    <3>1. r \in Objects /\ ~r.open /\ r.queue = q.queue /\ ~r.writing /\ r.reading = "none"
      BY DEF Objects
    <3> HIDE DEF r
    <3>2. Emit(r, "closed") \in Objects /\ Kept(r, Emit(r, "closed"))
      BY <3>1, Marks DEF Events, Timers
    <3>3. Close(q) = Emit(r, "closed")
      BY <2>1 DEF Close, r
    <3>4. QED
      BY <3>1, <3>2, <3>3 DEF Shut, Kept
  <2>2. CASE ~q.open
    BY <2>2 DEF Close, Objects, Shut
  <2>3. QED
    BY <2>1, <2>2
<1>2. Emit(p, "error_occurred") \in Objects /\ Kept(p, Emit(p, "error_occurred"))
  BY Marks DEF Events, Timers
<1>3. QED
  BY <1>1, <1>2 DEF HandleError, Kept, Shut

LEMMA Readying ==
    ASSUME NEW p \in Objects
    PROVE  EnsureReady(p) \in Objects /\ Kept(p, EnsureReady(p))
<1> DEFINE q == [p EXCEPT !.ready = TRUE]
           c == Cancel(q, "ready_deadline")
<1>1. q \in Objects /\ Kept(p, q)
  BY DEF Objects, Kept
<1> HIDE DEF q
<1>2. c \in Objects /\ Kept(q, c)
  BY <1>1, Marks DEF Timers, Events
<1> HIDE DEF c
<1>3. Emit(c, "ready") \in Objects /\ Kept(c, Emit(c, "ready"))
  BY <1>2, Marks DEF Timers, Events
<1>4. EnsureReady(p) = IF p.ready THEN p ELSE Emit(c, "ready")
  BY DEF EnsureReady, c, q
<1>5. QED
  BY <1>1, <1>2, <1>3, <1>4 DEF Kept

LEMMA Writing ==
    ASSUME NEW p \in Objects
    PROVE  /\ Write(p) \in Objects
           /\ Write(p).open = p.open /\ Write(p).reading = p.reading
           /\ Write(p).queue = p.queue /\ Write(p).closeAfterWrite = p.closeAfterWrite
           /\ Write(p).writing = (p.writing \/ (p.open /\ p.queue # <<>>))
BY DEF Write, Arm, Objects, Timers

\* A frame is out: the queue moves on.
LEMMA Sending ==
    ASSUME NEW p \in Objects, p.queue # <<>>
    PROVE  /\ Sent(p) \in Objects /\ Sent(p).queue = Tail(p.queue)
           /\ Sent(p).open = p.open /\ Sent(p).ready = p.ready /\ Sent(p).events = p.events
           /\ Sent(p).reading = p.reading /\ Sent(p).writing = p.writing
           /\ Sent(p).armed = p.armed /\ Sent(p).closeAfterWrite = p.closeAfterWrite
           /\ Sent(p).answered = (p.answered \/ Head(p.queue) = Answer)
<1>1. p.queue \in Seq(Frames) /\ p.answered \in BOOLEAN
  BY DEF Objects
<1>2. Tail(p.queue) \in Seq(Frames)
  BY <1>1
<1> DEFINE a == p.answered \/ Head(p.queue) = Answer
           t == Tail(p.queue)
<1>3. a \in BOOLEAN /\ t \in Seq(Frames) /\ Sent(p) = [p EXCEPT !.queue = t, !.answered = a]
  BY <1>1, <1>2 DEF Sent
<1> HIDE DEF a, t
<1>4. /\ Sent(p) \in Objects /\ Sent(p).queue = t /\ Sent(p).answered = a
      /\ Sent(p).open = p.open /\ Sent(p).ready = p.ready /\ Sent(p).events = p.events
      /\ Sent(p).reading = p.reading /\ Sent(p).writing = p.writing
      /\ Sent(p).armed = p.armed /\ Sent(p).closeAfterWrite = p.closeAfterWrite
  BY <1>3 DEF Objects
<1>5. QED
  BY <1>4 DEF a, t

LEMMA ValidFits ==
    ASSUME NEW type \in MessageTypes, NEW n \in DataSizes, ValidOutgoing(MakeFrame(type, n))
    PROVE  MakeFrame(type, n) \in Frames /\ Fits(MakeFrame(type, n))
<1>1. MakeFrame(type, n) \in Frames
  BY FrameType DEF DataSizes
<1>2. QED
  BY <1>1, NothingTruncated, SentIsAccepted DEF Fits

LEMMA Pushing ==
    ASSUME NEW p \in Objects, NEW type \in MessageTypes, NEW n \in DataSizes
    PROVE  /\ PushFrame(p, MakeFrame(type, n)) \in Objects
           /\ Effect(p, PushFrame(p, MakeFrame(type, n)))
<1> DEFINE f == MakeFrame(type, n)
           q == [p EXCEPT !.queue = Append(@, f)]
           Goal == PushFrame(p, f) \in Objects /\ Effect(p, PushFrame(p, f))
<1> SUFFICES Goal
  OBVIOUS
<1>1. CASE ~p.open
  BY <1>1 DEF PushFrame, Effect, Kept, Goal
<1>2. CASE p.open /\ (~ValidOutgoing(f) \/ Len(p.queue) >= MaxSendQueueSize)
  BY <1>2, Closing DEF PushFrame, Effect
<1>3. CASE p.open /\ ValidOutgoing(f) /\ ~(Len(p.queue) >= MaxSendQueueSize)
  <2>1. f \in Frames /\ Fits(f)
    BY <1>3, ValidFits
  <2> HIDE DEF f
  <2>2. p.queue \in Seq(Frames) /\ Len(p.queue) < MaxSendQueueSize
    BY <1>3, PeerAssumption DEF Objects
  <2>3. q \in Objects /\ q.queue = Append(p.queue, f) /\ q.queue # <<>>
    <3>1. Append(p.queue, f) \in Seq(Frames) /\ Append(p.queue, f) # <<>>
      BY <2>1, <2>2
    <3>2. QED
      BY <3>1 DEF Objects
  <2>4. /\ q.open /\ q.reading = p.reading /\ q.closeAfterWrite = p.closeAfterWrite
        /\ q.writing = p.writing
    BY <1>3 DEF Objects
  <2> DEFINE r == IF p.queue = <<>> THEN Write(q) ELSE q
  <2>5. PushFrame(p, f) = r
    BY <1>3 DEF PushFrame
  <2>6. p.writing \in BOOLEAN /\ p.open \in BOOLEAN
    BY DEF Objects
  <2> HIDE DEF q
  <2>7. CASE p.queue = <<>>
    <3>1. /\ r \in Objects /\ r.open = q.open /\ r.reading = q.reading /\ r.queue = q.queue
          /\ r.closeAfterWrite = q.closeAfterWrite
          /\ r.writing = TRUE
      BY <2>3, <2>4, <2>7, Writing
    <3>2. Pushed(p, r)
      <4> HIDE DEF r
      <4>1. QED
        BY <1>3, <2>1, <2>2, <2>3, <2>4, <2>7, <3>1 DEF Pushed
    <3>3. QED
      BY <2>5, <3>1, <3>2 DEF Effect, f
  <2>8. CASE p.queue # <<>>
    <3>1. r = q
      BY <2>8
    <3>2. Pushed(p, q)
      BY <1>3, <2>1, <2>2, <2>3, <2>4, <2>6, <2>8 DEF Pushed
    <3>3. QED
      BY <2>3, <2>5, <3>1, <3>2 DEF Effect, f
  <2>9. QED
    BY <2>7, <2>8
<1> HIDE DEF Goal
<1>4. QED
  BY <1>1, <1>2, <1>3

-----------------------------------------------------------------------------
\* The queue of handlers, for any set of operations.

LEMMA AfterTail ==
    ASSUME ioq \in Seq(Handlers), ioq # <<>>, ioq' = Tail(ioq), NEW ops
    PROVE  /\ ioq' \in Seq(Handlers)
           /\ Queued(ops)' => Queued(ops)
           /\ Head(ioq).op \notin ops => (Queued(ops)' <=> Queued(ops))
           /\ Head(ioq).op \in ops => Queued(ops)
           /\ AtMostOne(ops) => AtMostOne(ops)'
           /\ Head(ioq).op \in ops /\ AtMostOne(ops) => ~Queued(ops)'
<1>1. /\ ioq' \in Seq(Handlers) /\ Len(ioq) \in Nat /\ Len(ioq) >= 1
      /\ DOMAIN ioq = 1..Len(ioq) /\ DOMAIN ioq' = 1..(Len(ioq) - 1)
      /\ Head(ioq) = ioq[1]
  OBVIOUS
<1>2. \A i \in 1..(Len(ioq) - 1) : ioq'[i] = ioq[i + 1]
  OBVIOUS
<1>3. Queued(ops)' => Queued(ops)
  BY <1>1, <1>2 DEF Queued
<1>4. Head(ioq).op \notin ops => (Queued(ops) => Queued(ops)')
  <2> SUFFICES ASSUME Head(ioq).op \notin ops, NEW i \in DOMAIN ioq, ioq[i].op \in ops
               PROVE  Queued(ops)'
    BY DEF Queued
  <2>1. i # 1 /\ i - 1 \in 1..(Len(ioq) - 1) /\ (i - 1) + 1 = i
    BY <1>1
  <2>2. ioq'[i - 1] = ioq[i]
    BY <1>2, <2>1
  <2>3. QED
    BY <1>1, <2>1, <2>2 DEF Queued
<1>5. Head(ioq).op \in ops => Queued(ops)
  BY <1>1 DEF Queued
<1>6. AtMostOne(ops) => AtMostOne(ops)'
  <2> SUFFICES ASSUME AtMostOne(ops), NEW i \in DOMAIN ioq', NEW j \in DOMAIN ioq',
                      ioq'[i].op \in ops, ioq'[j].op \in ops
               PROVE  i = j
    BY DEF AtMostOne
  <2>1. i + 1 \in DOMAIN ioq /\ j + 1 \in DOMAIN ioq
    BY <1>1
  <2>2. ioq[i + 1].op \in ops /\ ioq[j + 1].op \in ops
    BY <1>1, <1>2
  <2>3. i + 1 = j + 1
    BY <2>1, <2>2 DEF AtMostOne
  <2>4. QED
    BY <1>1, <2>3
<1>7. Head(ioq).op \in ops /\ AtMostOne(ops) => ~Queued(ops)'
  <2> SUFFICES ASSUME Head(ioq).op \in ops, AtMostOne(ops), NEW i \in DOMAIN ioq',
                      ioq'[i].op \in ops
               PROVE  FALSE
    BY DEF Queued
  <2>1. 1 \in DOMAIN ioq /\ i + 1 \in DOMAIN ioq /\ i + 1 # 1
    BY <1>1
  <2>2. ioq[1].op \in ops /\ ioq[i + 1].op \in ops
    BY <1>1, <1>2
  <2>3. QED
    BY <2>1, <2>2 DEF AtMostOne
<1>8. QED
  BY <1>1, <1>3, <1>4, <1>5, <1>6, <1>7

LEMMA AfterAppend ==
    ASSUME ioq \in Seq(Handlers), NEW h \in Handlers, ioq' = Append(ioq, h), NEW ops
    PROVE  /\ ioq' \in Seq(Handlers)
           /\ Queued(ops)' <=> Queued(ops) \/ h.op \in ops
           /\ AtMostOne(ops) /\ ~(Queued(ops) /\ h.op \in ops) => AtMostOne(ops)'
<1>1. /\ ioq' \in Seq(Handlers) /\ Len(ioq) \in Nat
      /\ DOMAIN ioq = 1..Len(ioq) /\ DOMAIN ioq' = 1..(Len(ioq) + 1)
      /\ ioq'[Len(ioq) + 1] = h
  OBVIOUS
<1>2. \A i \in 1..Len(ioq) : ioq'[i] = ioq[i]
  OBVIOUS
<1>3. Queued(ops)' => Queued(ops) \/ h.op \in ops
  BY <1>1, <1>2 DEF Queued
<1>4. Queued(ops) \/ h.op \in ops => Queued(ops)'
  <2>1. CASE Queued(ops)
    <3>1. PICK i \in DOMAIN ioq : ioq[i].op \in ops
      BY <2>1 DEF Queued
    <3>2. i \in DOMAIN ioq' /\ ioq'[i].op \in ops
      BY <1>1, <1>2, <3>1
    <3>3. QED
      BY <3>2 DEF Queued
  <2>2. CASE h.op \in ops
    <3>1. Len(ioq) + 1 \in DOMAIN ioq' /\ ioq'[Len(ioq) + 1].op \in ops
      BY <1>1, <2>2
    <3>2. QED
      BY <3>1 DEF Queued
  <2>3. QED
    BY <2>1, <2>2
<1>5. AtMostOne(ops) /\ ~(Queued(ops) /\ h.op \in ops) => AtMostOne(ops)'
  <2> SUFFICES ASSUME AtMostOne(ops), ~(Queued(ops) /\ h.op \in ops),
                      NEW i \in DOMAIN ioq', NEW j \in DOMAIN ioq',
                      ioq'[i].op \in ops, ioq'[j].op \in ops
               PROVE  i = j
    BY DEF AtMostOne
  <2>1. CASE h.op \in ops
    <3>1. \A k \in DOMAIN ioq' : ioq'[k].op \in ops => k = Len(ioq) + 1
      BY <1>1, <1>2, <2>1 DEF Queued
    <3>2. QED
      BY <3>1
  <2>2. CASE h.op \notin ops
    <3>1. \A k \in DOMAIN ioq' : ioq'[k].op \in ops => k \in DOMAIN ioq /\ ioq[k].op \in ops
      BY <1>1, <1>2, <2>2
    <3>2. QED
      BY <3>1 DEF AtMostOne
  <2>3. QED
    BY <2>1, <2>2
<1>6. QED
  BY <1>1, <1>3, <1>4, <1>5

-----------------------------------------------------------------------------
\* The two sides of the invariant.

WriteEffect(p, q) ==
    \/ q.open = p.open /\ q.writing = p.writing /\ q.queue = p.queue
    \/ ~q.open /\ q.queue = p.queue /\ (q.writing => p.writing)
    \/ /\ p.open /\ q.open
       /\ Len(p.queue) < MaxSendQueueSize
       /\ \E f \in Frames : Fits(f) /\ q.queue = Append(p.queue, f)
       /\ q.writing = (p.writing \/ p.queue = <<>>)

LEMMA EffectWrites ==
    ASSUME NEW p, NEW q, Effect(p, q)
    PROVE  WriteEffect(p, q)
BY DEF Effect, WriteEffect, Kept, Shut, Pushed

WriteInv ==
    /\ Len(peer.queue) <= MaxSendQueueSize
    /\ FramesFit
    /\ AtMostOne(Writes) /\ (peer.writing => ~Queued(Writes))
    /\ peer.writing \/ Queued(Writes) => peer.queue # <<>>
    /\ NoStalledFrame

ReadInv ==
    /\ AtMostOne(Reads) /\ (peer.reading # "none" => ~Queued(Reads))
    /\ NeverDeaf
    /\ StartsOnce

LEMMA Sides ==
    Inv <=> /\ peer \in Objects /\ ioq \in Seq(Handlers)
            /\ owned \in BOOLEAN /\ left \in [frames : Nat, sends : Nat]
            /\ WriteInv /\ ReadInv
BY DEF Inv, TypeOK, OneOperationEach, OneOfEach, WriteInv, ReadInv

LEMMA SidesAfter ==
    ASSUME peer' \in Objects, ioq' \in Seq(Handlers), owned' \in BOOLEAN,
           left' \in [frames : Nat, sends : Nat], WriteInv', ReadInv'
    PROVE  Inv'
BY DEF Inv, TypeOK, OneOperationEach, OneOfEach, WriteInv, ReadInv

LEMMA WriteSide ==
    ASSUME peer \in Objects, WriteInv, peer' \in Objects, WriteEffect(peer, peer'),
           Queued(Writes)' <=> Queued(Writes), AtMostOne(Writes)'
    PROVE  WriteInv'
<1>1. peer.queue \in Seq(Frames) /\ peer'.queue \in Seq(Frames)
  BY DEF Objects
<1>2. CASE peer'.queue = peer.queue
  <2>1. Len(peer'.queue) <= MaxSendQueueSize
    BY <1>2 DEF WriteInv
  <2>2. FramesFit'
    BY <1>2 DEF WriteInv, FramesFit
  <2>3. peer'.writing => peer.writing \/ peer.queue = <<>>
    BY <1>1, <1>2 DEF WriteEffect
  <2>4. CASE peer'.open = peer.open /\ peer'.writing = peer.writing
    BY <1>2, <2>1, <2>2, <2>4 DEF WriteInv, NoStalledFrame
  <2>5. CASE ~peer'.open /\ (peer'.writing => peer.writing)
    BY <1>2, <2>1, <2>2, <2>5 DEF WriteInv, NoStalledFrame
  <2>6. \A f : peer.queue # Append(peer.queue, f)
    BY <1>1
  <2>7. QED
    BY <1>2, <2>4, <2>5, <2>6 DEF WriteEffect
<1>3. CASE peer'.queue # peer.queue
  <2>1. PICK f \in Frames : Fits(f) /\ peer'.queue = Append(peer.queue, f)
    BY <1>3 DEF WriteEffect
  <2>2. /\ peer.open /\ peer'.open /\ Len(peer.queue) < MaxSendQueueSize
        /\ peer'.writing = (peer.writing \/ peer.queue = <<>>)
    BY <1>3 DEF WriteEffect
  <2>3. Len(peer'.queue) <= MaxSendQueueSize /\ peer'.queue # <<>>
    BY <1>1, <2>1, <2>2, PeerAssumption
  <2>4. FramesFit'
    <3> SUFFICES ASSUME NEW i \in DOMAIN peer'.queue
                 PROVE  Fits(peer'.queue[i])
      BY DEF FramesFit, Fits
    <3>1. CASE i = Len(peer.queue) + 1
      BY <1>1, <2>1, <3>1
    <3>2. CASE i # Len(peer.queue) + 1
      <4>1. i \in DOMAIN peer.queue /\ peer'.queue[i] = peer.queue[i]
        BY <1>1, <2>1, <3>2
      <4>2. QED
        BY <4>1 DEF WriteInv, FramesFit, Fits
    <3>3. QED
      BY <3>1, <3>2
  <2>5. QED
    BY <2>2, <2>3, <2>4 DEF WriteInv, NoStalledFrame
<1>4. QED
  BY <1>2, <1>3

-----------------------------------------------------------------------------
\* The kinds of steps.

\* A handler that ends neither a read nor a write.
LEMMA OtherHandler ==
    ASSUME Inv, ioq # <<>>, Head(ioq).op \in {"close", "push", "timer"}, ioq' = Tail(ioq),
           peer' \in Objects, Effect(peer, peer'), UNCHANGED <<owned, left>>
    PROVE  Inv'
<1>1. peer \in Objects /\ ioq \in Seq(Handlers) /\ WriteInv /\ ReadInv
  BY Sides
<1>2. /\ ioq' \in Seq(Handlers)
      /\ (Queued(Writes)' <=> Queued(Writes)) /\ AtMostOne(Writes)'
      /\ (Queued(Reads)' <=> Queued(Reads)) /\ AtMostOne(Reads)'
      /\ (Queued({"start"})' <=> Queued({"start"})) /\ AtMostOne({"start"})'
  <2>1. Head(ioq).op \notin Writes /\ Head(ioq).op \notin Reads /\ Head(ioq).op \notin {"start"}
    BY DEF Writes, Reads
  <2>2. AtMostOne(Writes) /\ AtMostOne(Reads) /\ AtMostOne({"start"})
    BY <1>1 DEF WriteInv, ReadInv, StartsOnce
  <2>3. QED
    BY <1>1, <2>1, <2>2, AfterTail
<1>3. WriteInv'
  BY <1>1, <1>2, EffectWrites, WriteSide
<1>4. /\ peer'.reading # "none" => peer.reading # "none"
      /\ peer'.open => /\ peer.open /\ peer'.reading = peer.reading
                       /\ peer'.closeAfterWrite = peer.closeAfterWrite
  BY DEF Effect, Kept, Shut, Pushed
<1>5. ReadInv'
  BY <1>1, <1>2, <1>4 DEF ReadInv, NeverDeaf, Started, StartsOnce
<1>6. QED
  BY <1>2, <1>3, <1>5, Sides, SidesAfter

\* async_start(), or a handler that ends a read: it begins another, closes, or has
\* only the answer to write.
LEMMA ReadHandler ==
    ASSUME Inv, ioq # <<>>, Head(ioq).op \in Reads \cup {"start"}, ioq' = Tail(ioq),
           peer' \in Objects, WriteEffect(peer, peer'),
           peer'.open => peer'.reading # "none" \/ peer'.closeAfterWrite,
           UNCHANGED <<owned, left>>
    PROVE  Inv'
<1>1. peer \in Objects /\ ioq \in Seq(Handlers) /\ WriteInv /\ ReadInv
  BY Sides
<1>2. /\ ioq' \in Seq(Handlers)
      /\ (Queued(Writes)' <=> Queued(Writes)) /\ AtMostOne(Writes)'
  <2>1. Head(ioq).op \notin Writes
    BY DEF Writes, Reads
  <2>2. QED
    BY <1>1, <2>1, AfterTail DEF WriteInv
<1>3. ~Queued(Reads)' /\ ~Queued({"start"})' /\ AtMostOne(Reads)' /\ AtMostOne({"start"})'
  <2>1. /\ AtMostOne(Reads) /\ AtMostOne({"start"})
        /\ Queued({"start"}) => ~Queued(Reads)
    BY <1>1 DEF ReadInv, StartsOnce
  <2>2. CASE Head(ioq).op \in Reads
    BY <1>1, <2>1, <2>2, AfterTail
  <2>3. CASE Head(ioq).op \in {"start"}
    BY <1>1, <2>1, <2>3, AfterTail
  <2>4. QED
    BY <2>2, <2>3
<1>4. WriteInv'
  BY <1>1, <1>2, WriteSide
<1>5. ReadInv'
  BY <1>3 DEF ReadInv, NeverDeaf, StartsOnce
<1>6. QED
  BY <1>2, <1>4, <1>5, Sides, SidesAfter

\* A handler is posted: by the end of a read or a write, or with neither.
Posted(h) ==
    \/ /\ h.op \in {"close", "push", "timer"}
       /\ peer'.reading = peer.reading /\ peer'.writing = peer.writing
    \/ /\ h.op \in Reads /\ peer.reading # "none"
       /\ peer'.reading = "none" /\ peer'.writing = peer.writing
    \/ /\ h.op \in Writes /\ peer.writing
       /\ peer'.reading = peer.reading /\ ~peer'.writing

LEMMA Posting ==
    ASSUME Inv, NEW h \in Handlers, ioq' = Append(ioq, h), Posted(h),
           peer' \in Objects, peer'.open = peer.open, peer'.queue = peer.queue,
           peer'.closeAfterWrite = peer.closeAfterWrite,
           owned' \in BOOLEAN, left' \in [frames : Nat, sends : Nat]
    PROVE  Inv'
<1>1. peer \in Objects /\ ioq \in Seq(Handlers) /\ WriteInv /\ ReadInv
  BY Sides
<1>2. ioq' \in Seq(Handlers) /\ (Queued({"start"})' <=> Queued({"start"})) /\ AtMostOne({"start"})'
  <2>1. h.op \notin {"start"}
    BY DEF Posted, Reads, Writes
  <2>2. QED
    BY <1>1, <2>1, AfterAppend DEF ReadInv, StartsOnce
<1>3. /\ Queued(Reads)' <=> Queued(Reads) \/ h.op \in Reads
      /\ AtMostOne(Reads)'
  <2>1. h.op \in Reads => ~Queued(Reads)
    BY <1>1 DEF Posted, Reads, Writes, ReadInv
  <2>2. QED
    BY <1>1, <2>1, AfterAppend DEF ReadInv
<1>4. /\ Queued(Writes)' <=> Queued(Writes) \/ h.op \in Writes
      /\ AtMostOne(Writes)'
  <2>1. h.op \in Writes => ~Queued(Writes)
    BY <1>1 DEF Posted, Reads, Writes, WriteInv
  <2>2. QED
    BY <1>1, <2>1, AfterAppend DEF WriteInv
<1>5. WriteInv'
  <2>1. Len(peer'.queue) <= MaxSendQueueSize /\ FramesFit'
    BY <1>1 DEF WriteInv, FramesFit
  <2>2. h.op \in Writes => peer.writing /\ ~peer'.writing
    BY DEF Posted, Reads, Writes
  <2>3. h.op \notin Writes => peer'.writing = peer.writing
    BY DEF Posted, Reads, Writes
  <2>4. QED
    BY <1>1, <1>4, <2>1, <2>2, <2>3 DEF WriteInv, NoStalledFrame
<1>6. ReadInv'
  <2>1. h.op \in Reads => peer.reading # "none" /\ peer'.reading = "none"
    BY DEF Posted, Reads, Writes
  <2>2. h.op \notin Reads => peer'.reading = peer.reading
    BY DEF Posted, Reads, Writes
  <2>3. QED
    BY <1>1, <1>2, <1>3, <2>1, <2>2 DEF ReadInv, NeverDeaf, Started, StartsOnce
<1>7. QED
  BY <1>2, <1>5, <1>6, SidesAfter

-----------------------------------------------------------------------------
\* The handlers.

LEMMA Reading ==
    ASSUME NEW p \in Objects
    PROVE  /\ ReadHeader(p) \in Objects /\ WriteEffect(p, ReadHeader(p))
           /\ ReadHeader(p).open => ReadHeader(p).reading # "none"
           /\ ReadBody(p) \in Objects /\ WriteEffect(p, ReadBody(p))
           /\ ReadBody(p).reading # "none"
<1> DEFINE q == Arm(p, "read_deadline")
<1>1. q \in Objects /\ Kept(p, q)
  BY Marks DEF Timers, Events
<1>2. ReadBody(p) = [q EXCEPT !.reading = "body"]
  BY DEF ReadBody
<1>3. ReadHeader(p) = IF ~p.open THEN p ELSE [q EXCEPT !.reading = "header"]
  BY DEF ReadHeader
<1> HIDE DEF q
<1>4. ASSUME NEW what \in {"header", "body"}
      PROVE  /\ [q EXCEPT !.reading = what] \in Objects
             /\ WriteEffect(p, [q EXCEPT !.reading = what])
             /\ [q EXCEPT !.reading = what].reading = what
  BY <1>1 DEF Objects, Kept, WriteEffect
<1>5. QED
  BY <1>2, <1>3, <1>4 DEF WriteEffect

\* Shut ends what the object was doing, whatever Kept has done before.
LEMMA AfterKept ==
    ASSUME NEW p, NEW q, NEW r, Kept(p, q)
    PROVE  /\ Kept(q, r) => Kept(p, r)
           /\ Shut(q, r) => Shut(p, r)
           /\ Pushed(q, r) => Pushed(p, r)
           /\ Effect(q, r) => Effect(p, r)
           /\ WriteEffect(q, r) => WriteEffect(p, r)
BY DEF Kept, Shut, Pushed, Effect, WriteEffect

\* A frame that is pushed before something that keeps the sides.
LEMMA BeforeKept ==
    ASSUME NEW p, NEW q, NEW r, Effect(p, q), Kept(q, r)
    PROVE  Effect(p, r)
<1>1. CASE Kept(p, q)
  BY <1>1 DEF Kept, Effect
<1>2. CASE Shut(p, q)
  BY <1>2 DEF Kept, Shut, Effect
<1>3. CASE Pushed(p, q)
  BY <1>3 DEF Kept, Pushed, Effect
<1>4. QED
  BY <1>1, <1>2, <1>3 DEF Effect

LEMMA StartKeeps ==
    ASSUME Inv, Start
    PROVE  Inv'
<1> DEFINE p == [peer EXCEPT
               !.armed = @ \cup {"ready_deadline", "heartbeat_timer", "heartbeat_deadline"}]
<1>1. p \in Objects /\ Kept(peer, p)
  BY DEF Inv, TypeOK, Objects, Timers, Kept
<1>2. peer' = ReadHeader(p)
  BY DEF Start, Becomes
<1> HIDE DEF p
<1>3. /\ peer' \in Objects /\ WriteEffect(peer, peer')
      /\ peer'.open => peer'.reading # "none"
  BY <1>1, <1>2, Reading, AfterKept
<1>4. QED
  BY <1>3, ReadHandler DEF Start, Running, Becomes

LEMMA CloseKeeps ==
    ASSUME Inv, RunClose
    PROVE  Inv'
<1>1. peer \in Objects
  BY DEF Inv, TypeOK
<1>2. peer' \in Objects /\ Effect(peer, peer')
  BY <1>1, Closing DEF RunClose, Becomes, Effect
<1>3. QED
  BY <1>2, OtherHandler DEF RunClose, Running, Becomes

LEMMA PushKeeps ==
    ASSUME Inv, RunPush
    PROVE  Inv'
<1>1. peer \in Objects /\ ioq \in Seq(Handlers) /\ ioq # <<>> /\ H.op = "push"
  BY DEF Inv, TypeOK, RunPush, Running, H
<1>2. H \in Handlers
  BY <1>1 DEF H
<1>3. H.what \in MessageTypes /\ H.n \in DataSizes
  BY <1>1, <1>2 DEF Handlers
<1>4. peer' \in Objects /\ Effect(peer, peer')
  BY <1>1, <1>3, Pushing DEF RunPush, Becomes
<1>5. QED
  BY <1>1, <1>4, OtherHandler DEF RunPush, Becomes, H

LEMMA TimersKeep ==
    ASSUME Inv, ReadyDeadline \/ HeartbeatTimer \/ Deadline
    PROVE  Inv'
<1>1. peer \in Objects
  BY DEF Inv, TypeOK
<1>2. ioq # <<>> /\ Head(ioq).op = "timer" /\ ioq' = Tail(ioq) /\ UNCHANGED <<owned, left>>
  BY DEF ReadyDeadline, HeartbeatTimer, Deadline, Running, Becomes, H
<1>3. CASE ReadyDeadline
  <2>1. peer' \in Objects /\ Effect(peer, peer')
    BY <1>1, <1>3, Readying DEF ReadyDeadline, Becomes, Effect
  <2>2. QED
    BY <1>2, <2>1, OtherHandler
<1>4. CASE HeartbeatTimer
  <2> DEFINE q == PushFrame(peer, Heartbeat)
  <2>1. "heartbeat" \in MessageTypes /\ 0 \in DataSizes
    BY WidthsAssumption DEF MessageTypes, DataSizes, header_size, type_size, request_id_size
  <2>2. q \in Objects /\ Effect(peer, q)
    BY <1>1, <2>1, Pushing DEF Heartbeat
  <2>3. peer' = IF peer.open THEN Arm(q, "heartbeat_timer") ELSE peer
    BY <1>4 DEF HeartbeatTimer, Becomes
  <2> HIDE DEF q
  <2>4. Arm(q, "heartbeat_timer") \in Objects /\ Kept(q, Arm(q, "heartbeat_timer"))
    BY <2>2, Marks DEF Timers, Events
  <2>5. Effect(peer, Arm(q, "heartbeat_timer"))
    BY <2>2, <2>4, BeforeKept
  <2>6. Effect(peer, peer)
    BY DEF Effect, Kept
  <2>7. QED
    BY <1>1, <1>2, <2>3, <2>4, <2>5, <2>6, OtherHandler
<1>5. CASE Deadline
  <2>1. peer' \in Objects /\ Effect(peer, peer')
    BY <1>1, <1>5, Closing DEF Deadline, Becomes, Effect
  <2>2. QED
    BY <1>2, <2>1, OtherHandler
<1>6. QED
  BY <1>3, <1>4, <1>5

LEMMA HeaderKeeps ==
    ASSUME Inv, HeaderRead
    PROVE  Inv'
<1> DEFINE p == Cancel(peer, "read_deadline")
<1>1. p \in Objects /\ Kept(peer, p)
  BY Marks DEF Inv, TypeOK, Timers, Events
<1>2. ioq # <<>> /\ Head(ioq).op = "header" /\ ioq' = Tail(ioq) /\ UNCHANGED <<owned, left>>
  BY DEF HeaderRead, Running, Becomes
<1>3. H.what \in HeaderResults
  <2>1. H \in Handlers
    BY <1>2 DEF Inv, TypeOK, H
  <2>2. QED
    BY <1>2, <2>1 DEF Handlers, H
<1>4. peer' = Close(p) \/ peer' = HandleError(p) \/ peer' = ReadBody(p)
  BY <1>3 DEF HeaderRead, Becomes, HeaderResults
<1> HIDE DEF p
<1>5. CASE peer' = Close(p) \/ peer' = HandleError(p)
  <2>1. peer' \in Objects /\ Shut(p, peer')
    BY <1>1, <1>5, Closing
  <2>2. WriteEffect(peer, peer') /\ ~peer'.open
    BY <1>1, <2>1, AfterKept DEF Shut, WriteEffect
  <2>3. QED
    BY <1>2, <2>1, <2>2, ReadHandler DEF Reads
<1>6. CASE peer' = ReadBody(p)
  <2>1. peer' \in Objects /\ WriteEffect(peer, peer') /\ peer'.reading # "none"
    BY <1>1, <1>6, Reading, AfterKept
  <2>2. QED
    BY <1>2, <2>1, ReadHandler DEF Reads
<1>7. QED
  BY <1>4, <1>5, <1>6

\* A message of any type is handled: what it leads to is closed, reads the next
\* header, or has only the answer to write.
LEMMA Dispatching ==
    ASSUME NEW p \in Objects, NEW what \in BodyResults \ {"error"}
    PROVE  /\ Dispatch(p, what) \in Objects
           /\ WriteEffect(p, Dispatch(p, what))
           /\ Dispatch(p, what).open =>
                Dispatch(p, what).reading # "none" \/ Dispatch(p, what).closeAfterWrite
<1> DEFINE Good(q) == /\ q \in Objects /\ WriteEffect(p, q)
                      /\ q.open => q.reading # "none" \/ q.closeAfterWrite
           r == EnsureReady(p)
<1>1. r \in Objects /\ Kept(p, r)
  BY Readying
<1> HIDE DEF r
<1>2. Good(ReadHeader(p)) /\ Good(HandleError(p))
  <2>1. Shut(p, HandleError(p)) => WriteEffect(p, HandleError(p)) /\ ~HandleError(p).open
    BY DEF Shut, WriteEffect
  <2>2. QED
    BY <2>1, Reading, Closing
<1>3. Good(HandleError(r))
  <2>1. HandleError(r) \in Objects /\ Shut(p, HandleError(r))
    BY <1>1, Closing, AfterKept
  <2>2. QED
    BY <2>1 DEF Shut, WriteEffect
<1>4. ASSUME NEW q \in Objects, Kept(p, q), NEW event \in Events
      PROVE  Good(ReadHeader(Emit(q, event)))
  <2> DEFINE e == Emit(q, event)
  <2>1. e \in Objects /\ Kept(q, e)
    BY Marks DEF Timers
  <2> HIDE DEF e
  <2>2. Kept(p, e)
    BY <1>4, <2>1, AfterKept
  <2>3. ReadHeader(e) \in Objects /\ WriteEffect(e, ReadHeader(e))
        /\ (ReadHeader(e).open => ReadHeader(e).reading # "none")
    BY <2>1, Reading
  <2>4. WriteEffect(p, ReadHeader(e))
    BY <2>2, <2>3, AfterKept
  <2>5. QED
    BY <2>3, <2>4 DEF e
<1>5. Good(PushFrame([p EXCEPT !.closeAfterWrite = TRUE], Answer))
  <2> DEFINE c == [p EXCEPT !.closeAfterWrite = TRUE]
             q == PushFrame(c, Answer)
  <2>1. /\ c \in Objects /\ c.closeAfterWrite /\ c.open = p.open /\ c.writing = p.writing
        /\ c.queue = p.queue
    BY DEF Objects
  <2>2. "health_check_response" \in MessageTypes /\ 0 \in DataSizes
    BY WidthsAssumption DEF MessageTypes, DataSizes, header_size, type_size, request_id_size
  <2> HIDE DEF c
  <2>3. q \in Objects /\ Effect(c, q)
    BY <2>1, <2>2, Pushing DEF Answer
  <2> HIDE DEF q
  <2>4. q.open => q.closeAfterWrite
    BY <2>1, <2>3 DEF Effect, Kept, Shut, Pushed
  <2>5. WriteEffect(c, q)
    BY <2>3, EffectWrites
  <2>6. WriteEffect(p, q)
    BY <2>1, <2>5 DEF WriteEffect
  <2>7. QED
    BY <2>3, <2>4, <2>6 DEF q, c
<1> HIDE DEF Good
<1>6. Good(Dispatch(p, what))
  <2>1. CASE what = "heartbeat"
    BY <1>2, <2>1 DEF Dispatch
  <2>2. CASE what = "message"
    BY <1>1, <1>4, <2>2 DEF Dispatch, Events, r
  <2>3. CASE what = "bad_message"
    BY <1>3, <2>3 DEF Dispatch, r
  <2>4. CASE what = "health_check"
    BY <1>2, <1>5, <2>4 DEF Dispatch, AnswerHealthCheck
  <2>5. CASE what = "health_check_response"
    <3>1. Kept(p, p)
      BY DEF Kept
    <3>2. QED
      BY <1>4, <2>5, <3>1 DEF Dispatch, Events
  <2>6. CASE what = "unknown"
    BY <1>2, <2>6 DEF Dispatch
  <2>7. QED
    BY <2>1, <2>2, <2>3, <2>4, <2>5, <2>6 DEF BodyResults
<1>7. QED
  BY <1>6 DEF Good

LEMMA BodyKeeps ==
    ASSUME Inv, BodyRead
    PROVE  Inv'
<1> DEFINE p == Cancel(peer, "read_deadline")
           a == Arm(p, "heartbeat_deadline")
<1>1. p \in Objects /\ Kept(peer, p)
  BY Marks DEF Inv, TypeOK, Timers, Events
<1>2. ioq # <<>> /\ Head(ioq).op = "body" /\ ioq' = Tail(ioq) /\ UNCHANGED <<owned, left>>
  BY DEF BodyRead, Running, Becomes
<1>3. H.what \in BodyResults
  <2>1. H \in Handlers
    BY <1>2 DEF Inv, TypeOK, H
  <2>2. QED
    BY <1>2, <2>1 DEF Handlers, H
<1>4. peer' = IF H.what = "error" THEN HandleError(p) ELSE Dispatch(a, H.what)
  BY DEF BodyRead, Becomes
<1> HIDE DEF p
<1>5. a \in Objects /\ Kept(peer, a)
  <2>1. a \in Objects /\ Kept(p, a)
    BY <1>1, Marks DEF Timers, Events
  <2>2. QED
    BY <1>1, <2>1, AfterKept
<1> HIDE DEF a
<1>6. CASE H.what = "error"
  <2>1. peer' \in Objects /\ Shut(peer, peer')
    BY <1>1, <1>4, <1>6, Closing, AfterKept
  <2>2. WriteEffect(peer, peer') /\ ~peer'.open
    BY <2>1 DEF Shut, WriteEffect
  <2>3. QED
    BY <1>2, <2>1, <2>2, ReadHandler DEF Reads
<1>7. CASE H.what # "error"
  <2>1. /\ peer' \in Objects /\ WriteEffect(a, peer')
        /\ peer'.open => peer'.reading # "none" \/ peer'.closeAfterWrite
    BY <1>3, <1>4, <1>5, <1>7, Dispatching
  <2>2. WriteEffect(peer, peer')
    BY <1>5, <2>1, AfterKept
  <2>3. QED
    BY <1>2, <2>1, <2>2, ReadHandler DEF Reads
<1>8. QED
  BY <1>6, <1>7

\* The front of the queue goes, and the next frame is written.
LEMMA WrittenKeeps ==
    ASSUME Inv, Written
    PROVE  Inv'
<1> DEFINE p == Cancel(peer, "write_deadline")
           q == Sent(p)
<1>1. peer \in Objects /\ ioq \in Seq(Handlers) /\ WriteInv /\ ReadInv
  BY Sides
<1>2. ioq # <<>> /\ Head(ioq).op = "written" /\ ioq' = Tail(ioq) /\ UNCHANGED <<owned, left>>
  BY DEF Written, Running, Becomes
<1>3. /\ ioq' \in Seq(Handlers) /\ ~Queued(Writes)' /\ AtMostOne(Writes)'
      /\ (Queued(Reads)' <=> Queued(Reads)) /\ AtMostOne(Reads)'
      /\ (Queued({"start"})' <=> Queued({"start"})) /\ AtMostOne({"start"})'
  <2>1. /\ Head(ioq).op \in Writes /\ Head(ioq).op \notin Reads /\ Head(ioq).op \notin {"start"}
        /\ AtMostOne(Writes) /\ AtMostOne(Reads) /\ AtMostOne({"start"})
    BY <1>1, <1>2 DEF Writes, Reads, WriteInv, ReadInv, StartsOnce
  <2>2. QED
    BY <1>1, <1>2, <2>1, AfterTail
<1>4. peer.queue # <<>> /\ ~peer.writing
  <2>1. Queued(Writes)
    BY <1>1, <1>2, AfterTail DEF Writes
  <2>2. QED
    BY <1>1, <2>1 DEF WriteInv
<1>5. p \in Objects /\ Kept(peer, p)
  BY <1>1, Marks DEF Timers, Events
<1>6. peer' = CASE H.what = "error" -> HandleError(p)
                [] H.what # "error" /\ q.queue = <<>> /\ q.closeAfterWrite -> Close(q)
                [] OTHER -> Write(q)
  BY DEF Written, Becomes
<1> HIDE DEF p
<1>7. q \in Objects /\ q.queue = Tail(peer.queue)
      /\ q.open = peer.open /\ q.reading = peer.reading /\ ~q.writing
      /\ q.closeAfterWrite = peer.closeAfterWrite
  <2>1. p.queue \in Seq(Frames) /\ p.queue = peer.queue
    BY <1>5 DEF Kept, Objects
  <2>2. p.queue # <<>>
    BY <1>4, <2>1
  <2>3. QED
    BY <1>4, <1>5, <2>1, <2>2, Sending DEF Kept
<1> HIDE DEF q
<1>8. /\ peer' \in Objects
      /\ peer'.queue = peer.queue \/ peer'.queue = Tail(peer.queue)
      /\ peer'.writing => peer'.queue # <<>>
      /\ peer'.open => peer'.queue = <<>> \/ peer'.writing
      /\ peer'.reading # "none" => peer.reading # "none"
      /\ peer'.open => /\ peer.open /\ peer'.reading = peer.reading
                       /\ peer'.closeAfterWrite = peer.closeAfterWrite
  <2>1. CASE peer' = HandleError(p)
    BY <1>4, <1>5, <2>1, Closing DEF Shut, Kept
  <2>2. CASE peer' = Close(q)
    BY <1>7, <2>2, Closing DEF Shut
  <2>3. CASE peer' = Write(q)
    <3>1. q.open \in BOOLEAN
      BY <1>7 DEF Objects
    <3>2. QED
      BY <1>7, <2>3, <3>1, Writing
  <2>4. QED
    BY <1>6, <2>1, <2>2, <2>3
<1>9. Len(peer'.queue) <= MaxSendQueueSize /\ FramesFit'
  <2>1. peer.queue \in Seq(Frames) /\ Len(peer.queue) <= MaxSendQueueSize /\ MaxSendQueueSize \in Nat
    BY <1>1, PeerAssumption DEF Objects, WriteInv
  <2>2. CASE peer'.queue = peer.queue
    BY <1>1, <2>1, <2>2 DEF WriteInv, FramesFit
  <2>3. CASE peer'.queue = Tail(peer.queue)
    <3>1. Len(peer'.queue) <= MaxSendQueueSize
      BY <1>4, <2>1, <2>3
    <3>2. \A i \in DOMAIN peer'.queue :
             i + 1 \in DOMAIN peer.queue /\ peer'.queue[i] = peer.queue[i + 1]
      BY <1>4, <2>1, <2>3
    <3>3. FramesFit'
      BY <1>1, <3>2 DEF WriteInv, FramesFit
    <3>4. QED
      BY <3>1, <3>3
  <2>4. QED
    BY <1>8, <2>2, <2>3
<1>10. WriteInv'
  BY <1>3, <1>8, <1>9 DEF WriteInv, NoStalledFrame
<1>11. ReadInv'
  BY <1>1, <1>3, <1>8 DEF ReadInv, NeverDeaf, Started, StartsOnce
<1>12. QED
  BY <1>2, <1>3, <1>8, <1>10, <1>11, Sides, SidesAfter

-----------------------------------------------------------------------------
\* asio and the owner.

LEMMA ExpiryKeeps ==
    ASSUME Inv, NEW timer \in Timers, TimerExpires(timer)
    PROVE  Inv'
<1>1. peer' \in Objects /\ Kept(peer, peer')
  BY Marks DEF Inv, TypeOK, TimerExpires, Events
<1>2. Handler("timer", timer) \in Handlers /\ Handler("timer", timer).op = "timer"
  BY DEF Handler, Handlers
<1>3. ioq' = Append(ioq, Handler("timer", timer)) /\ UNCHANGED <<owned, left>>
  BY DEF TimerExpires, Post
<1> DEFINE h == Handler("timer", timer)
<1> HIDE DEF h
<1>4. h \in Handlers /\ Posted(h) /\ ioq' = Append(ioq, h)
  BY <1>1, <1>2, <1>3 DEF Posted, Kept, h
<1>5. QED
  BY <1>1, <1>3, <1>4, Posting DEF Kept, Inv, TypeOK

\* A read ends: a handler is posted and the object no longer reads.
LEMMA ReadEnds ==
    ASSUME Inv, NEW h \in Handlers, h.op \in Reads, peer.reading # "none",
           peer' = [peer EXCEPT !.reading = "none"], ioq' = Append(ioq, h), UNCHANGED owned,
           left' \in [frames : Nat, sends : Nat]
    PROVE  Inv'
<1>1. /\ peer' \in Objects /\ peer'.open = peer.open /\ peer'.queue = peer.queue
      /\ peer'.closeAfterWrite = peer.closeAfterWrite
      /\ peer'.reading = "none" /\ peer'.writing = peer.writing
  BY DEF Inv, TypeOK, Objects
<1>2. QED
  BY <1>1, Posting DEF Posted, Inv, TypeOK

LEMMA ArrivalsKeep ==
    ASSUME Inv,
           \/ \E what \in HeaderResults : HeaderArrives(what)
           \/ \E what \in BodyResults : BodyArrives(what)
           \/ ReadFails
    PROVE  Inv'
<1>1. ASSUME NEW what \in HeaderResults, HeaderArrives(what)
      PROVE  Inv'
  <2> DEFINE h == Handler("header", what)
  <2>1. h \in Handlers /\ h.op \in Reads
    BY DEF Handler, Handlers, Reads
  <2>2. left.frames > 0 /\ left' = [left EXCEPT !.frames = @ - 1]
    BY <1>1 DEF HeaderArrives
  <2>3. left' \in [frames : Nat, sends : Nat]
    BY <2>2 DEF Inv, TypeOK
  <2>4. /\ peer.reading # "none" /\ peer' = [peer EXCEPT !.reading = "none"]
        /\ ioq' = Append(ioq, h) /\ UNCHANGED owned
    BY <1>1 DEF HeaderArrives, Post
  <2> HIDE DEF h
  <2>5. QED
    BY <2>1, <2>3, <2>4, ReadEnds
<1>2. ASSUME NEW what \in BodyResults, BodyArrives(what)
      PROVE  Inv'
  <2> DEFINE h == Handler("body", what)
  <2>1. h \in Handlers /\ h.op \in Reads
    BY DEF Handler, Handlers, Reads
  <2>2. left.frames > 0 /\ left' = [left EXCEPT !.frames = @ - 1]
    BY <1>2 DEF BodyArrives
  <2>3. left' \in [frames : Nat, sends : Nat]
    BY <2>2 DEF Inv, TypeOK
  <2>4. /\ peer.reading # "none" /\ peer' = [peer EXCEPT !.reading = "none"]
        /\ ioq' = Append(ioq, h) /\ UNCHANGED owned
    BY <1>2 DEF BodyArrives, Post
  <2> HIDE DEF h
  <2>5. QED
    BY <2>1, <2>3, <2>4, ReadEnds
<1>3. ASSUME ReadFails
      PROVE  Inv'
  <2> DEFINE h == Handler("body", "error")
  <2>1. h \in Handlers /\ h.op \in Reads
    BY DEF Handler, Handlers, Reads, BodyResults
  <2>2. /\ peer.reading # "none" /\ peer' = [peer EXCEPT !.reading = "none"]
        /\ ioq' = Append(ioq, h) /\ UNCHANGED owned
        /\ left' \in [frames : Nat, sends : Nat]
    BY <1>3 DEF ReadFails, Post, Inv, TypeOK
  <2> HIDE DEF h
  <2>3. QED
    BY <2>1, <2>2, ReadEnds
<1>4. QED
  BY <1>1, <1>2, <1>3

LEMMA CompletionKeeps ==
    ASSUME Inv, NEW what \in {"ok", "error"}, WriteCompletes(what)
    PROVE  Inv'
<1> DEFINE h == Handler("written", what)
<1>1. h \in Handlers /\ h.op \in Writes
  BY DEF Handler, Handlers, Writes
<1>2. /\ peer' \in Objects /\ peer'.open = peer.open /\ peer'.queue = peer.queue
      /\ peer'.closeAfterWrite = peer.closeAfterWrite
      /\ peer'.reading = peer.reading /\ ~peer'.writing
  BY DEF Inv, TypeOK, Objects, WriteCompletes
<1>3. peer.writing /\ ioq' = Append(ioq, h) /\ UNCHANGED <<owned, left>>
  BY DEF WriteCompletes, Post
<1> HIDE DEF h
<1>4. Posted(h)
  BY <1>1, <1>2, <1>3 DEF Posted
<1>5. QED
  BY <1>1, <1>2, <1>3, <1>4, Posting DEF Inv, TypeOK

\* The owner posts a send or a close, which leaves the object alone.
LEMMA OwnerKeeps ==
    ASSUME Inv, (\E message \in Messages : AsyncSend(message)) \/ AsyncClose \/ OwnerForgets
    PROVE  Inv'
<1>1. ASSUME NEW message \in Messages, AsyncSend(message)
      PROVE  Inv'
  <2> DEFINE h == [op |-> "push", what |-> message[1], n |-> message[2]]
  <2>1. message[1] \in MessageTypes /\ message[2] \in DataSizes
    BY PeerAssumption DEF MessageTypes
  <2>2. h \in Handlers /\ h.op = "push"
    BY <2>1 DEF Handlers
  <2>3. /\ ioq' = Append(ioq, h) /\ UNCHANGED <<peer, owned>>
        /\ left' \in [frames : Nat, sends : Nat]
    BY <1>1 DEF AsyncSend, Post, Inv, TypeOK
  <2> HIDE DEF h
  <2>4. Posted(h)
    BY <2>2, <2>3 DEF Posted
  <2>5. QED
    BY <2>2, <2>3, <2>4, Posting DEF Inv, TypeOK
<1>2. ASSUME AsyncClose
      PROVE  Inv'
  <2> DEFINE h == Handler("close", "")
  <2>1. h \in Handlers /\ h.op = "close"
    BY DEF Handler, Handlers
  <2>2. ioq' = Append(ioq, h) /\ UNCHANGED <<peer, left>> /\ owned' = FALSE
    BY <1>2 DEF AsyncClose, Post
  <2> HIDE DEF h
  <2>3. Posted(h)
    BY <2>1, <2>2 DEF Posted
  <2>4. QED
    BY <2>1, <2>2, <2>3, Posting DEF Inv, TypeOK
<1>3. ASSUME OwnerForgets
      PROVE  Inv'
  <2>1. UNCHANGED <<peer, ioq, left>> /\ owned' = FALSE
    BY <1>3 DEF OwnerForgets
  <2>2. QED
    BY <2>1 DEF Inv, TypeOK, OneOperationEach, OneOfEach, NoStalledFrame, NeverDeaf, Started,
                FramesFit, StartsOnce, Queued, AtMostOne
<1>4. QED
  BY <1>1, <1>2, <1>3

-----------------------------------------------------------------------------

LEMMA Initially ==
    ASSUME Init
    PROVE  Inv
<1>1. peer \in Objects /\ peer.queue = <<>> /\ ~peer.writing /\ peer.reading = "none" /\ peer.open
  <2>1. <<>> \in Seq(Frames) /\ <<>> \in Seq(Events) /\ {} \in SUBSET Timers
    OBVIOUS
  <2>2. QED
    BY <2>1 DEF Init, Objects
<1>2. /\ ioq = <<Handler("start", "")>> /\ Handler("start", "") \in Handlers
      /\ Handler("start", "").op = "start"
  BY DEF Init, Handler, Handlers
<1>3. ioq \in Seq(Handlers) /\ DOMAIN ioq = {1} /\ ioq[1].op = "start"
  <2> DEFINE h == Handler("start", "")
  <2>1. h \in Handlers /\ h.op = "start" /\ ioq = <<h>>
    BY <1>2
  <2> HIDE DEF h
  <2>2. <<h>> \in Seq(Handlers) /\ Len(<<h>>) = 1 /\ <<h>>[1] = h
    BY <2>1
  <2>3. DOMAIN <<h>> = 1..Len(<<h>>)
    BY <2>2
  <2>4. QED
    BY <2>1, <2>2, <2>3
<1>4. AtMostOne(Reads) /\ AtMostOne(Writes) /\ AtMostOne({"start"})
  BY <1>3 DEF AtMostOne
<1>5. ~Queued(Reads) /\ ~Queued(Writes) /\ Queued({"start"})
  BY <1>3 DEF Queued, Reads, Writes
<1>6. Len(peer.queue) <= MaxSendQueueSize /\ FramesFit
  BY <1>1, PeerAssumption DEF FramesFit
<1>7. owned \in BOOLEAN /\ left \in [frames : Nat, sends : Nat]
  BY PeerAssumption DEF Init
<1>8. QED
  BY <1>1, <1>3, <1>4, <1>5, <1>6, <1>7
     DEF Inv, TypeOK, OneOperationEach, OneOfEach, NoStalledFrame, NeverDeaf, Started, StartsOnce

\* One handler at a time, each with all the methods it calls: the reads and the
\* writes of a connection follow one another, its queue holds whole frames.
THEOREM Invariance == Spec => []Inv
<1>1. ASSUME Inv, [Next]_vars
      PROVE  Inv'
  <2>1. CASE IoStep
    BY <1>1, <2>1, StartKeeps, CloseKeeps, PushKeeps, TimersKeep, HeaderKeeps, BodyKeeps,
       WrittenKeeps DEF IoStep
  <2>2. CASE \E timer \in Timers : TimerExpires(timer)
    BY <1>1, <2>2, ExpiryKeeps
  <2>3. CASE \/ \E what \in HeaderResults : HeaderArrives(what)
             \/ \E what \in BodyResults : BodyArrives(what)
             \/ ReadFails
    BY <1>1, <2>3, ArrivalsKeep
  <2>4. CASE \E what \in {"ok", "error"} : WriteCompletes(what)
    BY <1>1, <2>4, CompletionKeeps
  <2>5. CASE (\E message \in Messages : AsyncSend(message)) \/ AsyncClose \/ OwnerForgets
    BY <1>1, <2>5, OwnerKeeps
  <2>6. CASE Destroyed \/ UNCHANGED vars
    BY <1>1, <2>6 DEF Destroyed, vars, Inv, TypeOK, OneOperationEach, OneOfEach, NoStalledFrame,
       NeverDeaf, Started, FramesFit, StartsOnce, Queued, AtMostOne
  <2>7. QED
    BY <1>1, <2>1, <2>2, <2>3, <2>4, <2>5, <2>6 DEF Next
<1>2. QED
  BY Initially, <1>1, PTL DEF Spec

\* The members of a peer keep their types, and the write queue its limit
\* (max_send_queue_size), whoever pushes a frame.
THEOREM TypeCorrect == Spec => []TypeOK
<1>1. Inv => TypeOK
  BY DEF Inv
<1>2. QED
  BY Invariance, <1>1, PTL

\* There is never a second read or write, no accepted frame is left in the queue of
\* an open socket, and an open peer reads on (read_header(), read_body(), write()).
THEOREM OperationsFollow == Spec => []OneOperationEach
<1>1. Inv => OneOperationEach
  BY DEF Inv
<1>2. QED
  BY Invariance, <1>1, PTL

\* What is in the write queue is whole and welcome at an end with the same limits,
\* for every message size and width (valid_outgoing_frame(), read_header()).
THEOREM QueueFits == Spec => []FramesFit
<1>1. Inv => FramesFit
  BY DEF Inv
<1>2. QED
  BY Invariance, <1>1, PTL

-----------------------------------------------------------------------------
\* A connection that serves a health check owes the response until it is out, and
\* does not read until it is closed.
Owes ==
    peer.open /\ peer.closeAfterWrite =>
      /\ peer.answered \/ Answer \in ToSet(peer.queue)
      /\ peer.reading = "none" /\ ~Queued(Reads) /\ ~Queued({"start"})

Failed(p, q) == q.events = p.events \o <<"error_occurred", "closed">>

\* What a method may do to that debt.
Carried(p, q) ==
    /\ q.closeAfterWrite = p.closeAfterWrite /\ q.answered = p.answered
    /\ q.reading # "none" => p.reading # "none"
    /\ q.open => p.open /\ ToSet(p.queue) \subseteq ToSet(q.queue)
    /\ p.open /\ ~q.open => Failed(p, q)

LEMMA MarksCarry ==
    ASSUME NEW p \in Objects, NEW timer
    PROVE  /\ Carried(p, Arm(p, timer)) /\ Arm(p, timer).events = p.events
           /\ Carried(p, Cancel(p, timer)) /\ Cancel(p, timer).events = p.events
           /\ Carried(p, EnsureReady(p))
           /\ Arm(p, timer).reading = p.reading
           /\ Arm(p, timer).open = p.open /\ Cancel(p, timer).open = p.open
           /\ EnsureReady(p).open = p.open
BY DEF Carried, Arm, Cancel, EnsureReady, Emit, Objects

LEMMA FailingCarries ==
    ASSUME NEW p \in Objects
    PROVE  Carried(p, HandleError(p)) /\ ~HandleError(p).open
<1> DEFINE e == Emit(p, "error_occurred")
<1>1. /\ e \in Objects /\ e.open = p.open /\ e.closeAfterWrite = p.closeAfterWrite
      /\ e.answered = p.answered /\ e.events = Append(p.events, "error_occurred")
      /\ e.reading = p.reading /\ HandleError(p) = Close(e)
  <2>1. e \in Objects
    BY Marks DEF Timers, Events
  <2>2. QED
    BY <2>1 DEF HandleError, Emit, Objects
<1> HIDE DEF e
<1>2. /\ ~Close(e).open /\ Close(e).closeAfterWrite = e.closeAfterWrite
      /\ Close(e).answered = e.answered
      /\ Close(e).reading # "none" => e.reading # "none"
      /\ e.open => Close(e).events = Append(e.events, "closed")
  BY <1>1 DEF Close, Emit, Objects
<1>3. Append(Append(p.events, "error_occurred"), "closed") =
        p.events \o <<"error_occurred", "closed">>
  <2>1. p.events \in Seq(Events)
    BY DEF Objects
  <2>2. QED
    BY <2>1 DEF Events
<1>4. QED
  BY <1>1, <1>2, <1>3 DEF Carried, Failed

\* A frame that is accepted is in the queue, and an open peer has accepted it.
LEMMA PushingCarries ==
    ASSUME NEW p \in Objects, NEW f \in Frames
    PROVE  /\ Carried(p, PushFrame(p, f))
           /\ PushFrame(p, f).open => f \in ToSet(PushFrame(p, f).queue)
<1> DEFINE q == [p EXCEPT !.queue = Append(@, f)]
           r == IF p.queue = <<>> THEN Write(q) ELSE q
<1>1. CASE ~p.open
  BY <1>1 DEF PushFrame, Carried
<1>2. CASE p.open /\ PushFrame(p, f) = HandleError(p)
  BY <1>2, FailingCarries
<1>3. CASE p.open /\ PushFrame(p, f) = r
  <2>1. p.queue \in Seq(Frames)
    BY DEF Objects
  <2> DEFINE l == Append(p.queue, f)
  <2>2. l \in Seq(Frames) /\ ToSet(p.queue) \subseteq ToSet(l) /\ f \in ToSet(l)
    <3>1. /\ DOMAIN p.queue = 1..Len(p.queue) /\ Len(p.queue) \in Nat
          /\ DOMAIN l = 1..(Len(p.queue) + 1)
          /\ l[Len(p.queue) + 1] = f /\ \A i \in 1..Len(p.queue) : l[i] = p.queue[i]
          /\ l \in Seq(Frames)
      BY <2>1
    <3> HIDE DEF l
    <3>2. QED
      BY <3>1 DEF ToSet
  <2> HIDE DEF l
  <2>3. /\ q \in Objects /\ q.queue = l /\ q.open = p.open /\ q.reading = p.reading
        /\ q.closeAfterWrite = p.closeAfterWrite /\ q.answered = p.answered
    BY <2>2 DEF Objects, l
  <2> HIDE DEF q
  <2>4. /\ Write(q).queue = q.queue /\ Write(q).open = q.open /\ Write(q).reading = q.reading
        /\ Write(q).closeAfterWrite = q.closeAfterWrite /\ Write(q).answered = q.answered
    BY <2>3 DEF Write, Arm, Objects
  <2>5. /\ r.queue = l /\ r.open = p.open /\ r.reading = p.reading
        /\ r.closeAfterWrite = p.closeAfterWrite /\ r.answered = p.answered
    BY <2>3, <2>4
  <2> HIDE DEF r
  <2>6. QED
    BY <1>3, <2>2, <2>5 DEF Carried
<1>4. p.open => PushFrame(p, f) = HandleError(p) \/ PushFrame(p, f) = r
  BY DEF PushFrame
<1> HIDE DEF r
<1>5. QED
  BY <1>1, <1>2, <1>3, <1>4

\* A step that carries the debt, and neither reads nor asks.
LEMMA DebtCarried ==
    ASSUME Owes, Carried(peer, peer'),
           Queued(Reads)' => Queued(Reads), Queued({"start"})' => Queued({"start"})
    PROVE  /\ Owes'
           /\ peer'.closeAfterWrite /\ peer.open /\ ~peer'.open => Failed(peer, peer')
BY DEF Owes, Carried

\* Whoever asked is answered, see AnsweredBeforeClose.
Paid ==
    peer'.closeAfterWrite /\ peer.open /\ ~peer'.open =>
      peer'.answered \/ Running("close") \/ Failed(peer, peer')

\* Nobody asks a peer that is closed or serves nobody.
Unasked(p, q) == q.closeAfterWrite = p.closeAfterWrite /\ (q.open => p.open)

LEMMA NoDebt ==
    ASSUME Unasked(peer, peer'), ~peer.open \/ ~peer.closeAfterWrite
    PROVE  Owes' /\ Paid
BY DEF Owes, Paid, Unasked

LEMMA MethodsUnasked ==
    ASSUME NEW p \in Objects, NEW timer, NEW event
    PROVE  /\ Unasked(p, Close(p)) /\ Unasked(p, HandleError(p)) /\ Unasked(p, EnsureReady(p))
           /\ Unasked(p, ReadHeader(p)) /\ Unasked(p, ReadBody(p))
           /\ Unasked(p, Arm(p, timer)) /\ Unasked(p, Cancel(p, timer)) /\ Unasked(p, Emit(p, event))
<1>1. /\ Unasked(p, EnsureReady(p)) /\ Unasked(p, Emit(p, event))
      /\ Unasked(p, Arm(p, timer)) /\ Unasked(p, Cancel(p, timer))
  BY DEF Unasked, EnsureReady, Emit, Arm, Cancel, Objects
<1>2. Unasked(p, Close(p))
  BY DEF Unasked, Close, Emit, Objects
<1>3. Unasked(p, HandleError(p))
  BY FailingCarries DEF Carried, Unasked
<1>4. Unasked(p, ReadHeader(p)) /\ Unasked(p, ReadBody(p))
  BY DEF Unasked, ReadHeader, ReadBody, Arm, Objects
<1>5. QED
  BY <1>1, <1>2, <1>3, <1>4

\* The kinds of handlers.
LEMMA HeadKinds ==
    ASSUME Inv, ioq # <<>>, ioq' = Tail(ioq)
    PROVE  /\ Queued(Reads)' => Queued(Reads)
           /\ Queued({"start"})' => Queued({"start"})
           /\ Head(ioq).op \in Reads =>
                Queued(Reads) /\ ~Queued(Reads)' /\ ~Queued({"start"})' /\ peer.reading = "none"
           /\ Head(ioq).op \in {"start"} => Queued({"start"})
           /\ Head(ioq).op \in Writes => peer.queue # <<>> /\ ~peer.writing
<1>1. ioq \in Seq(Handlers) /\ WriteInv /\ ReadInv
  BY Sides
<1>2. /\ Queued(Reads)' => Queued(Reads)
      /\ Queued({"start"})' => Queued({"start"})
      /\ Head(ioq).op \in Reads => Queued(Reads)
      /\ Head(ioq).op \in Reads /\ AtMostOne(Reads) => ~Queued(Reads)'
      /\ Head(ioq).op \in {"start"} => Queued({"start"})
      /\ Head(ioq).op \in Writes => Queued(Writes)
  BY <1>1, AfterTail
<1>3. /\ AtMostOne(Reads) /\ (Queued(Reads) => peer.reading = "none" /\ ~Queued({"start"}))
      /\ Queued(Writes) => peer.queue # <<>> /\ ~peer.writing
  BY <1>1 DEF ReadInv, WriteInv, StartsOnce
<1>4. QED
  BY <1>2, <1>3

LEMMA OthersPay ==
    ASSUME Inv, Owes, RunClose \/ RunPush \/ ReadyDeadline \/ HeartbeatTimer \/ Deadline
    PROVE  Owes' /\ Paid
<1>1. peer \in Objects /\ ioq \in Seq(Handlers)
  BY DEF Inv, TypeOK
<1>2. ioq # <<>> /\ ioq' = Tail(ioq)
  BY DEF RunClose, RunPush, ReadyDeadline, HeartbeatTimer, Deadline, Running, Becomes
<1>3. (Queued(Reads)' => Queued(Reads)) /\ (Queued({"start"})' => Queued({"start"}))
  BY <1>2, HeadKinds
<1>4. CASE RunClose
  <2>1. ~peer'.open
    BY <1>1, <1>4, Closing DEF RunClose, Becomes, Shut
  <2>2. QED
    BY <1>4, <2>1 DEF RunClose, Owes, Paid
<1>5. ASSUME NEW type \in MessageTypes, NEW n \in DataSizes
      PROVE  Carried(peer, PushFrame(peer, MakeFrame(type, n)))
  <2>1. MakeFrame(type, n) \in Frames
    BY FrameType DEF DataSizes
  <2>2. QED
    BY <1>1, <2>1, PushingCarries
<1>6. CASE RunPush
  <2>1. H \in Handlers /\ H.op = "push"
    BY <1>1, <1>2, <1>6 DEF RunPush, Running, H
  <2>2. H.what \in MessageTypes /\ H.n \in DataSizes
    BY <2>1 DEF Handlers
  <2>3. Carried(peer, peer')
    BY <1>5, <1>6, <2>2 DEF RunPush, Becomes
  <2>4. QED
    BY <1>3, <2>3, DebtCarried DEF Paid
<1>7. CASE ReadyDeadline
  BY <1>1, <1>3, <1>7, MarksCarry, DebtCarried DEF ReadyDeadline, Becomes, Paid
<1>8. CASE HeartbeatTimer
  <2> DEFINE q == PushFrame(peer, Heartbeat)
  <2>1. "heartbeat" \in MessageTypes /\ 0 \in DataSizes
    BY WidthsAssumption DEF MessageTypes, DataSizes, header_size, type_size, request_id_size
  <2>2. Carried(peer, q) /\ q \in Objects
    BY <1>1, <1>5, <2>1, Pushing DEF Heartbeat
  <2> HIDE DEF q
  <2>3. /\ Arm(q, "heartbeat_timer").open = q.open
        /\ Arm(q, "heartbeat_timer").events = q.events
        /\ Arm(q, "heartbeat_timer").queue = q.queue
        /\ Arm(q, "heartbeat_timer").reading = q.reading
        /\ Arm(q, "heartbeat_timer").closeAfterWrite = q.closeAfterWrite
        /\ Arm(q, "heartbeat_timer").answered = q.answered
    BY <2>2 DEF Arm, Objects
  <2>4. peer' = IF peer.open THEN Arm(q, "heartbeat_timer") ELSE peer
    BY <1>8 DEF HeartbeatTimer, Becomes, q
  <2>5. Carried(peer, peer')
    BY <2>2, <2>3, <2>4 DEF Carried, Failed
  <2>6. QED
    BY <1>3, <2>5, DebtCarried DEF Paid
<1>9. CASE Deadline
  BY <1>1, <1>3, <1>9, FailingCarries, DebtCarried DEF Deadline, Becomes, Paid
<1>10. QED
  BY <1>4, <1>6, <1>7, <1>8, <1>9

\* The handler of async_start and those of the reads find no debt, and only the
\* health check makes one.
LEMMA ReadsPay ==
    ASSUME Inv, Owes, Start \/ HeaderRead \/ BodyRead
    PROVE  Owes' /\ Paid
<1>1. peer \in Objects /\ ioq \in Seq(Handlers)
  BY DEF Inv, TypeOK
<1>2. ioq # <<>> /\ ioq' = Tail(ioq) /\ Head(ioq).op \in Reads \cup {"start"}
  BY DEF Start, HeaderRead, BodyRead, Running, Becomes, Reads
<1>3. ~peer.open \/ ~peer.closeAfterWrite
  BY <1>2, HeadKinds DEF Owes
<1>4. CASE Start
  <2> DEFINE p == [peer EXCEPT
                 !.armed = @ \cup {"ready_deadline", "heartbeat_timer", "heartbeat_deadline"}]
  <2>1. p \in Objects /\ Unasked(peer, p)
    BY <1>1 DEF Objects, Timers, Unasked
  <2>2. peer' = ReadHeader(p)
    BY <1>4 DEF Start, Becomes
  <2> HIDE DEF p
  <2>3. Unasked(p, peer')
    BY <2>1, <2>2, MethodsUnasked
  <2>4. Unasked(peer, peer')
    BY <2>1, <2>3 DEF Unasked
  <2>5. QED
    BY <1>3, <2>4, NoDebt
<1> DEFINE p == Cancel(peer, "read_deadline")
           a == Arm(p, "heartbeat_deadline")
<1>5. p \in Objects /\ Unasked(peer, p)
  BY <1>1, Marks, MethodsUnasked DEF Timers, Events
<1>6. a \in Objects /\ Unasked(peer, a)
  <2> HIDE DEF p
  <2>1. a \in Objects /\ Unasked(p, a)
    BY <1>5, Marks, MethodsUnasked DEF Timers, Events
  <2>2. QED
    BY <1>5, <2>1 DEF Unasked
<1>7. a.reading = peer.reading /\ a.events = peer.events /\ a.open = peer.open
  <2>1. p.reading = peer.reading /\ p.events = peer.events /\ p.open = peer.open
    BY <1>1 DEF Cancel, Objects
  <2> HIDE DEF p
  <2>2. QED
    BY <1>5, <2>1, MarksCarry
<1>8. HeaderRead => peer' \in {Close(p), HandleError(p), ReadBody(p)}
  <2> SUFFICES ASSUME HeaderRead
               PROVE  peer' \in {Close(p), HandleError(p), ReadBody(p)}
    OBVIOUS
  <2>1. H \in Handlers /\ H.op = "header"
    BY <1>1, <1>2 DEF HeaderRead, Running, H
  <2>2. H.what \in {"eof", "error", "ok"}
    BY <2>1 DEF Handlers, HeaderResults
  <2> HIDE DEF p
  <2>3. peer' = CASE H.what = "eof" -> Close(p)
                  [] H.what = "error" -> HandleError(p)
                  [] H.what = "ok" -> ReadBody(p)
    BY DEF HeaderRead, Becomes, p
  <2>4. QED
    BY <2>2, <2>3
<1>9. BodyRead => IF H.what = "error" THEN peer' = HandleError(p) ELSE peer' = Dispatch(a, H.what)
  BY DEF BodyRead, Becomes
<1> HIDE DEF p, a
<1>10. ASSUME peer' \in {Close(p), HandleError(p), ReadBody(p)}
       PROVE  Owes' /\ Paid
  <2>1. Unasked(p, peer')
    BY <1>5, <1>10, MethodsUnasked
  <2>2. Unasked(peer, peer')
    BY <1>5, <2>1 DEF Unasked
  <2>3. QED
    BY <1>3, <2>2, NoDebt
<1>11. ASSUME BodyRead, H.what # "error", peer' = Dispatch(a, H.what)
       PROVE  Owes' /\ Paid
  <2> DEFINE c == [a EXCEPT !.closeAfterWrite = TRUE]
  <2>1. H.what \in BodyResults \ {"error"}
    <3>1. H \in Handlers /\ H.op = "body"
      BY <1>1, <1>2, <1>11 DEF BodyRead, Running, H
    <3>2. H.what \in BodyResults
      BY <3>1 DEF Handlers
    <3>3. QED
      BY <1>11, <3>2
  <2>2. CASE H.what # "health_check" \/ a.ready
    <3>1. EnsureReady(a) \in Objects /\ Unasked(a, EnsureReady(a))
      BY <1>6, Readying, MethodsUnasked
    <3>2. ASSUME NEW q \in Objects, Unasked(a, q), NEW event \in Events
          PROVE  Unasked(a, ReadHeader(Emit(q, event)))
      <4>1. Emit(q, event) \in Objects /\ Unasked(q, Emit(q, event))
        BY Marks, MethodsUnasked DEF Timers
      <4>2. Unasked(Emit(q, event), ReadHeader(Emit(q, event)))
        BY <4>1, MethodsUnasked
      <4>3. QED
        BY <3>2, <4>1, <4>2 DEF Unasked
    <3>3. Unasked(a, ReadHeader(a)) /\ Unasked(a, HandleError(a))
      BY <1>6, MethodsUnasked
    <3>4. Unasked(a, HandleError(EnsureReady(a)))
      BY <3>1, MethodsUnasked DEF Unasked
    <3>5. Unasked(a, a)
      BY DEF Unasked
    <3>6. peer' \in {ReadHeader(a), HandleError(a), HandleError(EnsureReady(a)),
                     ReadHeader(Emit(EnsureReady(a), "message")),
                     ReadHeader(Emit(a, "health_check_response_received"))}
      BY <1>11, <2>1, <2>2 DEF Dispatch, AnswerHealthCheck, BodyResults
    <3>7. Unasked(a, peer')
      BY <1>6, <3>1, <3>2, <3>3, <3>4, <3>5, <3>6 DEF Events
    <3>8. Unasked(peer, peer')
      BY <1>6, <3>7 DEF Unasked
    <3>9. QED
      BY <1>3, <3>8, NoDebt
  <2>3. CASE H.what = "health_check" /\ ~a.ready
    <3>1. /\ c \in Objects /\ c.open = a.open /\ c.reading = a.reading /\ c.events = a.events
      BY <1>6 DEF Objects
    <3>2. peer' = PushFrame(c, Answer)
      BY <1>11, <2>3 DEF Dispatch, AnswerHealthCheck
    <3> HIDE DEF c
    <3>3. "health_check_response" \in MessageTypes /\ 0 \in DataSizes
      BY WidthsAssumption DEF MessageTypes, DataSizes, header_size, type_size, request_id_size
    <3>4. Answer \in Frames
      BY <3>3, FrameType DEF Answer, DataSizes
    <3>5. Carried(c, peer') /\ (peer'.open => Answer \in ToSet(peer'.queue))
      BY <3>1, <3>2, <3>4, PushingCarries
    <3>6. peer.reading = "none" /\ ~Queued(Reads)' /\ ~Queued({"start"})'
      BY <1>2, <1>11, HeadKinds DEF BodyRead, Running, Reads
    <3>7. Owes'
      BY <1>7, <3>1, <3>5, <3>6 DEF Owes, Carried
    <3>8. Paid
      BY <1>7, <3>1, <3>5 DEF Paid, Carried, Failed
    <3>9. QED
      BY <3>7, <3>8
  <2>4. QED
    BY <2>2, <2>3
<1>12. QED
  BY <1>4, <1>8, <1>9, <1>10, <1>11

\* The handler of a write closes a peer whose queue is empty: the response was its
\* last frame.
LEMMA WrittenPays ==
    ASSUME Inv, Owes, Written
    PROVE  Owes' /\ Paid
<1> DEFINE p == Cancel(peer, "write_deadline")
           q == Sent(p)
<1>1. peer \in Objects /\ ioq \in Seq(Handlers)
  BY DEF Inv, TypeOK
<1>2. ioq # <<>> /\ ioq' = Tail(ioq) /\ Head(ioq).op \in Writes
  BY DEF Written, Running, Becomes, Writes
<1>3. /\ (Queued(Reads)' => Queued(Reads)) /\ (Queued({"start"})' => Queued({"start"}))
      /\ peer.queue # <<>>
  BY <1>2, HeadKinds
<1>4. /\ p \in Objects /\ p.queue = peer.queue /\ p.open = peer.open /\ p.reading = peer.reading
      /\ p.closeAfterWrite = peer.closeAfterWrite /\ p.answered = peer.answered
      /\ p.events = peer.events
  <2>1. p \in Objects
    BY <1>1, Marks DEF Timers, Events
  <2>2. QED
    BY <1>1, <2>1 DEF Cancel, Objects
<1>5. \/ peer' = HandleError(p)
      \/ q.queue = <<>> /\ q.closeAfterWrite /\ peer' = Close(q)
      \/ ~(q.queue = <<>> /\ q.closeAfterWrite) /\ peer' = Write(q)
  BY DEF Written, Becomes
<1> HIDE DEF p
<1>6. /\ q \in Objects /\ q.queue = Tail(peer.queue) /\ q.open = peer.open
      /\ q.reading = peer.reading /\ q.closeAfterWrite = peer.closeAfterWrite
      /\ q.answered = (peer.answered \/ Head(peer.queue) = Answer)
  BY <1>3, <1>4, Sending
<1> HIDE DEF q
<1>7. Answer \in ToSet(peer.queue) => Head(peer.queue) = Answer \/ Answer \in ToSet(Tail(peer.queue))
  <2> SUFFICES ASSUME NEW i \in DOMAIN peer.queue, peer.queue[i] = Answer, i # 1
               PROVE  Answer \in ToSet(Tail(peer.queue))
    <3>1. peer.queue \in Seq(Frames)
      BY <1>1 DEF Objects
    <3>2. peer.queue[1] = Head(peer.queue)
      BY <1>3, <3>1
    <3>3. QED
      BY <3>2 DEF ToSet
  <2>1. peer.queue \in Seq(Frames)
    BY <1>1 DEF Objects
  <2>2. i - 1 \in DOMAIN Tail(peer.queue) /\ Tail(peer.queue)[i - 1] = peer.queue[i]
    BY <1>3, <2>1
  <2>3. QED
    BY <2>2 DEF ToSet
<1>8. CASE peer' = HandleError(p)
  <2>1. Carried(p, peer')
    BY <1>4, <1>8, FailingCarries
  <2>2. Carried(peer, peer')
    BY <1>4, <2>1 DEF Carried, Failed
  <2>3. QED
    BY <1>3, <2>2, DebtCarried DEF Paid
<1>9. CASE q.queue = <<>> /\ q.closeAfterWrite /\ peer' = Close(q)
  <2>1. ~peer'.open /\ peer'.answered = q.answered
    BY <1>6, <1>9 DEF Close, Emit, Objects
  <2>2. peer.open => q.answered
    <3>1. Tail(peer.queue) = <<>> /\ Answer \notin ToSet(Tail(peer.queue))
      <4>1. Tail(peer.queue) = <<>>
        BY <1>6, <1>9
      <4>2. DOMAIN Tail(peer.queue) = {}
        BY <4>1
      <4>3. QED
        BY <4>1, <4>2 DEF ToSet
    <3>2. peer.open => peer.answered \/ Answer \in ToSet(peer.queue)
      BY <1>6, <1>9 DEF Owes
    <3>3. QED
      BY <1>6, <1>7, <3>1, <3>2
  <2>3. QED
    BY <2>1, <2>2 DEF Owes, Paid
<1>10. CASE peer' = Write(q)
  <2>1. /\ peer'.open = q.open /\ peer'.queue = q.queue /\ peer'.reading = q.reading
        /\ peer'.closeAfterWrite = q.closeAfterWrite /\ peer'.answered = q.answered
    BY <1>6, <1>10 DEF Write, Arm, Objects
  <2>2. Owes'
    BY <1>3, <1>6, <1>7, <2>1 DEF Owes
  <2>3. QED
    BY <1>6, <2>1, <2>2 DEF Paid
<1>11. QED
  BY <1>5, <1>8, <1>9, <1>10

\* Whatever is queued, nobody is answered or let down by it.
LEMMA QueueingPays ==
    ASSUME Inv, Owes,
           \/ \E timer \in Timers : TimerExpires(timer)
           \/ \E what \in HeaderResults : HeaderArrives(what)
           \/ \E what \in BodyResults : BodyArrives(what)
           \/ ReadFails
           \/ \E what \in {"ok", "error"} : WriteCompletes(what)
           \/ \E message \in Messages : AsyncSend(message)
           \/ AsyncClose
    PROVE  Owes' /\ Paid
<1>1. peer \in Objects /\ ioq \in Seq(Handlers)
  BY DEF Inv, TypeOK
<1>2. ASSUME NEW h \in Handlers, ioq' = Append(ioq, h),
             h.op # "start", h.op \in Reads => ~peer.open \/ peer.reading # "none",
             peer'.open = peer.open, peer'.closeAfterWrite = peer.closeAfterWrite,
             peer'.answered = peer.answered, peer'.queue = peer.queue,
             peer'.reading = peer.reading \/ peer'.reading = "none"
      PROVE  Owes' /\ Paid
  <2>1. /\ Queued(Reads)' <=> Queued(Reads) \/ h.op \in Reads
        /\ Queued({"start"})' <=> Queued({"start"}) \/ h.op \in {"start"}
    BY <1>1, <1>2, AfterAppend
  <2>2. QED
    BY <1>2, <2>1 DEF Owes, Paid
<1>3. ASSUME NEW timer \in Timers, TimerExpires(timer)
      PROVE  Owes' /\ Paid
  <2> DEFINE h == Handler("timer", timer)
  <2>1. h \in Handlers /\ h.op # "start" /\ h.op \notin Reads /\ ioq' = Append(ioq, h)
    BY <1>3 DEF Handler, Handlers, Reads, TimerExpires, Post
  <2> HIDE DEF h
  <2>2. /\ peer'.open = peer.open /\ peer'.closeAfterWrite = peer.closeAfterWrite
        /\ peer'.answered = peer.answered /\ peer'.queue = peer.queue
        /\ peer'.reading = peer.reading
    BY <1>1, <1>3 DEF TimerExpires, Cancel, Objects
  <2>3. QED
    BY <1>2, <2>1, <2>2
<1>4. ASSUME NEW h \in Handlers, ioq' = Append(ioq, h), h.op # "start",
             h.op \in Reads => ~peer.open \/ peer.reading # "none",
             \/ peer' = [peer EXCEPT !.reading = "none"] \/ peer' = peer
             \/ peer' = [peer EXCEPT !.writing = FALSE]
      PROVE  Owes' /\ Paid
  <2>1. /\ peer'.open = peer.open /\ peer'.closeAfterWrite = peer.closeAfterWrite
        /\ peer'.answered = peer.answered /\ peer'.queue = peer.queue
        /\ peer'.reading = peer.reading \/ peer'.reading = "none"
    BY <1>1, <1>4 DEF Objects
  <2>2. QED
    BY <1>2, <1>4, <2>1
<1>5. ASSUME NEW what \in HeaderResults, HeaderArrives(what)
      PROVE  Owes' /\ Paid
  <2>1. Handler("header", what) \in Handlers /\ Handler("header", what).op # "start"
    BY DEF Handler, Handlers
  <2>2. QED
    BY <1>4, <1>5, <2>1 DEF HeaderArrives, Post
<1>6. ASSUME NEW what \in BodyResults, BodyArrives(what)
      PROVE  Owes' /\ Paid
  <2>1. Handler("body", what) \in Handlers /\ Handler("body", what).op # "start"
    BY DEF Handler, Handlers
  <2>2. QED
    BY <1>4, <1>6, <2>1 DEF BodyArrives, Post
<1>7. CASE ReadFails
  <2>1. Handler("body", "error") \in Handlers /\ Handler("body", "error").op # "start"
    BY DEF Handler, Handlers, BodyResults
  <2>2. QED
    BY <1>4, <1>7, <2>1 DEF ReadFails, Post
<1>8. ASSUME NEW what \in {"ok", "error"}, WriteCompletes(what)
      PROVE  Owes' /\ Paid
  <2>1. /\ Handler("written", what) \in Handlers /\ Handler("written", what).op # "start"
        /\ Handler("written", what).op \notin Reads
    BY DEF Handler, Handlers, Reads
  <2>2. QED
    BY <1>4, <1>8, <2>1 DEF WriteCompletes, Post
<1>9. ASSUME NEW message \in Messages, AsyncSend(message)
      PROVE  Owes' /\ Paid
  <2> DEFINE h == [op |-> "push", what |-> message[1], n |-> message[2]]
  <2>1. message[1] \in MessageTypes /\ message[2] \in DataSizes
    BY PeerAssumption DEF MessageTypes
  <2>2. h \in Handlers /\ h.op # "start" /\ h.op \notin Reads
    BY <2>1 DEF Handlers, Reads
  <2>3. ioq' = Append(ioq, h) /\ peer' = peer
    BY <1>9 DEF AsyncSend, Post
  <2> HIDE DEF h
  <2>4. QED
    BY <1>4, <2>2, <2>3
<1>10. CASE AsyncClose
  <2>1. /\ Handler("close", "") \in Handlers /\ Handler("close", "").op # "start"
        /\ Handler("close", "").op \notin Reads
    BY DEF Handler, Handlers, Reads
  <2>2. QED
    BY <1>4, <1>10, <2>1 DEF AsyncClose, Post
<1>11. QED
  BY <1>3, <1>5, <1>6, <1>7, <1>8, <1>9, <1>10

\* Whoever asked for a health check is answered, unless the owner closes the peer or
\* it fails (close_after_write_).
THEOREM AnswerIsWritten == Spec => AnsweredBeforeClose
<1>1. Init => Owes
  <2> SUFFICES ASSUME Init
               PROVE  Owes
    OBVIOUS
  <2>1. ~peer.closeAfterWrite
    BY DEF Init
  <2>2. QED
    BY <2>1 DEF Owes
<1>2. ASSUME Inv, Owes, [Next]_vars
      PROVE  Owes' /\ Paid
  <2>1. CASE IoStep
    BY <1>2, <2>1, OthersPay, ReadsPay, WrittenPays DEF IoStep
  <2>2. CASE UNCHANGED <<peer, ioq>>
    BY <1>2, <2>2 DEF Owes, Paid, Queued
  <2>3. QED
    BY <1>2, <2>1, <2>2, QueueingPays DEF Next, OwnerForgets, Destroyed, vars
<1>3. ASSUME Paid
      PROVE  peer'.closeAfterWrite /\ peer.open /\ ~peer'.open =>
               \/ peer'.answered
               \/ Running("close")
               \/ peer'.events = peer.events \o <<"error_occurred", "closed">>
  BY <1>3 DEF Paid, Failed
<1>4. QED
  BY <1>1, <1>2, <1>3, Invariance, PTL DEF Spec, AnsweredBeforeClose

-----------------------------------------------------------------------------
(***************************************************************************)
(* What the peer tells, and its timers.  Both are facts about the object,  *)
(* given which timers have a handler queued (expired) and whether the      *)
(* handler of a read is, so they are proved method by method.              *)
(***************************************************************************)

\* Faithful(p): each event comes as often and as early as its slots rely on.
Faithful(p) ==
    /\ \A i, j \in DOMAIN p.events :
         p.events[i] = p.events[j] /\ p.events[i] \in {"ready", "closed"} => i = j
    /\ \A i \in DOMAIN p.events : p.events[i] = "message" =>
         \E j \in 1..(i - 1) : p.events[j] = "ready"
    /\ p.ready <=> \E i \in DOMAIN p.events : p.events[i] = "ready"
    /\ ~p.open <=> \E i \in DOMAIN p.events : p.events[i] = "closed"

\* What is under way on an open socket has a timer that runs or has expired.
Watched(p, expired) ==
    p.open => LET guarded(timer) == timer \in p.armed \/ timer \in expired IN
              /\ guarded("heartbeat_deadline")
              /\ p.reading # "none" => guarded("read_deadline")
              /\ p.writing => guarded("write_deadline")

\* On a closed one only the read that an earlier handler began has one.
Quiet(p, reads) ==
    ~p.open => /\ "ready_deadline" \notin p.armed /\ "write_deadline" \notin p.armed
               /\ "read_deadline" \in p.armed => p.reading # "none" \/ reads

Sound(p, expired, reads) == Faithful(p) /\ Watched(p, expired) /\ Quiet(p, reads)

LEMMA Told ==
    ASSUME NEW p \in Objects, Faithful(p), NEW q \in Objects, NEW event \in Events,
           q.events = Append(p.events, event),
           event = "ready" => ~p.ready, event = "closed" => p.open,
           event = "message" => p.ready,
           q.ready <=> p.ready \/ event = "ready", q.open <=> p.open /\ event # "closed"
    PROVE  Faithful(q)
<1> DEFINE n == Len(p.events)
<1>1. /\ p.events \in Seq(Events) /\ n \in Nat /\ DOMAIN p.events = 1..n
      /\ DOMAIN q.events = 1..(n + 1) /\ q.events[n + 1] = event
      /\ \A i \in 1..n : q.events[i] = p.events[i]
  <2>1. p.events \in Seq(Events)
    BY DEF Objects
  <2>2. QED
    BY <2>1
<1> HIDE DEF n
<1>2. ASSUME NEW i \in DOMAIN q.events, NEW j \in DOMAIN q.events,
             q.events[i] = q.events[j], q.events[i] \in {"ready", "closed"}
      PROVE  i = j
  <2>1. CASE i \in 1..n /\ j \in 1..n
    BY <1>1, <1>2, <2>1 DEF Faithful
  <2>2. CASE i = n + 1 /\ j = n + 1
    BY <2>2
  <2>3. CASE (i = n + 1 /\ j \in 1..n) \/ (j = n + 1 /\ i \in 1..n)
    <3>1. \E k \in 1..n : p.events[k] = event /\ event \in {"ready", "closed"}
      BY <1>1, <1>2, <2>3
    <3>2. QED
      BY <1>1, <3>1 DEF Faithful
  <2>4. QED
    BY <1>1, <2>1, <2>2, <2>3
<1>3. ASSUME NEW i \in DOMAIN q.events, q.events[i] = "message"
      PROVE  \E j \in 1..(i - 1) : q.events[j] = "ready"
  <2>1. CASE i \in 1..n
    <3>1. PICK j \in 1..(i - 1) : p.events[j] = "ready"
      BY <1>1, <1>3, <2>1 DEF Faithful
    <3>2. QED
      BY <1>1, <2>1, <3>1
  <2>2. CASE i = n + 1
    <3>1. PICK j \in 1..n : p.events[j] = "ready"
      BY <1>1, <1>3, <2>2 DEF Faithful
    <3>2. j \in 1..(i - 1) /\ q.events[j] = "ready"
      BY <1>1, <2>2, <3>1
    <3>3. QED
      BY <3>2
  <2>3. QED
    BY <1>1, <2>1, <2>2
<1>4. ASSUME NEW e
      PROVE  (\E i \in DOMAIN q.events : q.events[i] = e)
               <=> (\E i \in DOMAIN p.events : p.events[i] = e) \/ e = event
  <2>1. ASSUME NEW i \in DOMAIN q.events, q.events[i] = e
        PROVE  (\E k \in DOMAIN p.events : p.events[k] = e) \/ e = event
    <3>1. i \in 1..n \/ i = n + 1
      BY <1>1
    <3>2. QED
      BY <1>1, <2>1, <3>1
  <2>2. ASSUME NEW i \in DOMAIN p.events, p.events[i] = e
        PROVE  \E k \in DOMAIN q.events : q.events[k] = e
    <3>1. i \in DOMAIN q.events /\ q.events[i] = e
      BY <1>1, <2>2
    <3>2. QED
      BY <3>1
  <2>3. e = event => \E k \in DOMAIN q.events : q.events[k] = e
    <3>1. n + 1 \in DOMAIN q.events
      BY <1>1
    <3>2. QED
      BY <1>1, <3>1
  <2>4. QED
    BY <2>1, <2>2, <2>3
<1>5. /\ q.ready <=> \E i \in DOMAIN q.events : q.events[i] = "ready"
      /\ ~q.open <=> \E i \in DOMAIN q.events : q.events[i] = "closed"
  BY <1>4 DEF Faithful
<1>6. QED
  BY <1>2, <1>3, <1>5 DEF Faithful

\* The members that Faithful, Watched and Quiet do not read may change.
LEMMA Telling ==
    ASSUME NEW p \in Objects, NEW expired, NEW reads, Sound(p, expired, reads),
           NEW event \in Events \ {"ready", "closed"}, event = "message" => p.ready
    PROVE  Emit(p, event) \in Objects /\ Sound(Emit(p, event), expired, reads)
<1> DEFINE q == Emit(p, event)
<1>1. q \in Objects
  BY Marks DEF Timers
<1>2. /\ q.events = Append(p.events, event) /\ q.ready = p.ready /\ q.open = p.open
      /\ q.armed = p.armed /\ q.reading = p.reading /\ q.writing = p.writing
  BY DEF Emit, Objects
<1> HIDE DEF q
<1>3. Faithful(q)
  <2>1. Faithful(p) /\ p.ready \in BOOLEAN /\ p.open \in BOOLEAN /\ event \in Events
    BY DEF Sound, Objects
  <2>2. QED
    BY <1>1, <1>2, <2>1, Told
<1>4. Watched(q, expired) /\ Quiet(q, reads)
  BY <1>2 DEF Sound, Watched, Quiet
<1>5. QED
  BY <1>1, <1>3, <1>4 DEF Sound, q

LEMMA ClosingSound ==
    ASSUME NEW p \in Objects, NEW expired, NEW reads, Faithful(p)
    PROVE  Close(p) \in Objects /\ ~Close(p).open /\ Sound(Close(p), expired, reads)
<1> DEFINE q == Close(p)
<1>1. q \in Objects /\ ~q.open
  BY Closing DEF Shut
<1>2. q.armed = {} /\ q.ready = p.ready
  BY DEF Close, Emit, Objects
<1>3. q.events = IF p.open THEN Append(p.events, "closed") ELSE p.events
  BY DEF Close, Emit, Objects
<1> HIDE DEF q
<1>4. Faithful(q)
  <2>1. CASE p.open
    BY <1>1, <1>2, <1>3, <2>1, Told DEF Events
  <2>2. CASE ~p.open
    BY <1>1, <1>2, <1>3, <2>2 DEF Faithful
  <2>3. QED
    BY <2>1, <2>2
<1>5. Watched(q, expired) /\ Quiet(q, reads)
  BY <1>1, <1>2 DEF Watched, Quiet
<1>6. QED
  BY <1>1, <1>4, <1>5 DEF Sound, q

\* What a read or a deadline cancels before it fails is of no account.
LEMMA FailingSound ==
    ASSUME NEW p \in Objects, NEW expired, NEW reads, Faithful(p)
    PROVE  /\ HandleError(p) \in Objects /\ ~HandleError(p).open
           /\ Sound(HandleError(p), expired, reads)
<1> DEFINE q == Emit(p, "error_occurred")
<1>1. q \in Objects
  BY Marks DEF Timers, Events
<1>2. q.events = Append(p.events, "error_occurred") /\ q.ready = p.ready /\ q.open = p.open
  BY DEF Emit, Objects
<1> HIDE DEF q
<1>3. Faithful(q)
  BY <1>1, <1>2, Told DEF Objects, Events
<1>4. QED
  BY <1>1, <1>3, ClosingSound DEF HandleError, q

LEMMA ReadyingSound ==
    ASSUME NEW p \in Objects, NEW expired, NEW reads, Sound(p, expired, reads)
    PROVE  /\ EnsureReady(p) \in Objects /\ EnsureReady(p).ready
           /\ Sound(EnsureReady(p), expired, reads)
<1> DEFINE q == EnsureReady(p)
<1>1. q \in Objects /\ Kept(p, q)
  BY Readying
<1>2. /\ q.ready
      /\ q.events = IF p.ready THEN p.events ELSE Append(p.events, "ready")
      /\ q.armed \ {"ready_deadline"} = p.armed \ {"ready_deadline"}
      /\ q.armed \subseteq p.armed
  BY DEF EnsureReady, Emit, Cancel, Objects
<1> HIDE DEF q
<1>3. Faithful(q)
  <2>1. CASE ~p.ready
    BY <1>1, <1>2, <2>1, Told DEF Sound, Kept, Events
  <2>2. CASE p.ready
    BY <1>1, <1>2, <2>2 DEF Sound, Kept, Faithful
  <2>3. QED
    BY <2>1, <2>2
<1>4. Watched(q, expired) /\ Quiet(q, reads)
  BY <1>1, <1>2 DEF Sound, Kept, Watched, Quiet
<1>5. QED
  BY <1>1, <1>2, <1>3, <1>4 DEF Sound, q

LEMMA WritingSound ==
    ASSUME NEW p \in Objects, NEW expired, NEW reads, Sound(p, expired, reads)
    PROVE  Write(p) \in Objects /\ Sound(Write(p), expired, reads)
<1> DEFINE q == Write(p)
<1>1. q \in Objects
  BY Writing
<1>2. /\ q.open = p.open /\ q.ready = p.ready /\ q.events = p.events /\ q.reading = p.reading
      /\ q.armed = IF p.open /\ p.queue # <<>> THEN p.armed \cup {"write_deadline"} ELSE p.armed
      /\ q.writing = (p.writing \/ (p.open /\ p.queue # <<>>))
  <2>1. CASE ~p.open \/ p.queue = <<>>
    BY <2>1 DEF Write, Objects
  <2>2. CASE p.open /\ p.queue # <<>>
    BY <2>2 DEF Write, Arm, Objects
  <2>3. QED
    BY <2>1, <2>2
<1> HIDE DEF q
<1>3. QED
  BY <1>1, <1>2 DEF Sound, Faithful, Watched, Quiet, q

LEMMA PushingSound ==
    ASSUME NEW p \in Objects, NEW expired, NEW reads, Sound(p, expired, reads),
           NEW type \in MessageTypes, NEW n \in DataSizes
    PROVE  /\ PushFrame(p, MakeFrame(type, n)) \in Objects
           /\ Sound(PushFrame(p, MakeFrame(type, n)), expired, reads)
<1> DEFINE f == MakeFrame(type, n)
           q == [p EXCEPT !.queue = Append(@, f)]
<1>1. PushFrame(p, f) \in Objects
  BY Pushing
<1>2. CASE ~p.open
  BY <1>1, <1>2 DEF PushFrame
<1>3. CASE p.open /\ (~ValidOutgoing(f) \/ Len(p.queue) >= MaxSendQueueSize)
  BY <1>1, <1>3, FailingSound DEF PushFrame, Sound
<1>4. CASE p.open /\ ValidOutgoing(f) /\ ~(Len(p.queue) >= MaxSendQueueSize)
  <2>1. f \in Frames
    BY <1>4, ValidFits
  <2>2. q \in Objects
    <3> HIDE DEF f
    <3>1. Append(p.queue, f) \in Seq(Frames)
      BY <2>1 DEF Objects
    <3>2. QED
      BY <3>1 DEF Objects
  <2>3. /\ q.open = p.open /\ q.ready = p.ready /\ q.events = p.events /\ q.reading = p.reading
        /\ q.armed = p.armed /\ q.writing = p.writing
    BY DEF Objects
  <2>4. PushFrame(p, f) = IF p.queue = <<>> THEN Write(q) ELSE q
    BY <1>4 DEF PushFrame
  <2> HIDE DEF q
  <2>5. Sound(q, expired, reads)
    BY <2>3 DEF Sound, Faithful, Watched, Quiet
  <2>6. QED
    BY <1>1, <2>2, <2>4, <2>5, WritingSound
<1>5. QED
  BY <1>2, <1>3, <1>4

LEMMA ReadingSound ==
    ASSUME NEW p \in Objects, NEW expired, NEW reads, Sound(p, expired, reads)
    PROVE  /\ ReadHeader(p) \in Objects /\ Sound(ReadHeader(p), expired, reads)
           /\ ReadBody(p) \in Objects /\ Sound(ReadBody(p), expired, reads)
<1>1. ASSUME NEW what \in {"header", "body"}
      PROVE  LET q == [Arm(p, "read_deadline") EXCEPT !.reading = what]
             IN Sound(q, expired, reads)
  <2> DEFINE q == [Arm(p, "read_deadline") EXCEPT !.reading = what]
  <2>1. /\ q.open = p.open /\ q.ready = p.ready /\ q.events = p.events /\ q.writing = p.writing
        /\ q.armed = p.armed \cup {"read_deadline"} /\ q.reading # "none"
    BY DEF Arm, Objects
  <2> HIDE DEF q
  <2>2. Sound(q, expired, reads)
    BY <2>1 DEF Sound, Faithful, Watched, Quiet
  <2>3. QED
    BY <2>2 DEF q
<1>2. QED
  BY <1>1, Reading DEF ReadHeader, ReadBody

LEMMA DispatchingSound ==
    ASSUME NEW p \in Objects, NEW expired, NEW reads, Sound(p, expired, reads),
           NEW what \in BodyResults \ {"error"}
    PROVE  Sound(Dispatch(p, what), expired, reads)
<1> DEFINE r == EnsureReady(p)
<1>1. r \in Objects /\ r.ready /\ Sound(r, expired, reads)
  BY ReadyingSound
<1> HIDE DEF r
<1>2. CASE what = "heartbeat"
  BY <1>2, ReadingSound DEF Dispatch
<1>3. CASE what = "message"
  <2>1. Emit(r, "message") \in Objects /\ Sound(Emit(r, "message"), expired, reads)
    BY <1>1, Telling DEF Events
  <2>2. QED
    BY <1>3, <2>1, ReadingSound DEF Dispatch, r
<1>4. CASE what \in {"bad_message", "unknown"}
  BY <1>1, <1>4, FailingSound DEF Dispatch, r, Sound
<1>5. CASE what = "health_check"
  <2> DEFINE c == [p EXCEPT !.closeAfterWrite = TRUE]
  <2>1. /\ c \in Objects
        /\ c.open = p.open /\ c.ready = p.ready /\ c.events = p.events /\ c.reading = p.reading
        /\ c.armed = p.armed /\ c.writing = p.writing
    BY DEF Objects
  <2>2. Dispatch(p, what) = IF p.ready THEN HandleError(p) ELSE PushFrame(c, Answer)
    BY <1>5 DEF Dispatch, AnswerHealthCheck
  <2> HIDE DEF c
  <2>3. Sound(c, expired, reads)
    BY <2>1 DEF Sound, Faithful, Watched, Quiet
  <2>4. "health_check_response" \in MessageTypes /\ 0 \in DataSizes
    BY WidthsAssumption DEF MessageTypes, DataSizes, header_size, type_size, request_id_size
  <2>5. Sound(PushFrame(c, Answer), expired, reads)
    BY <2>1, <2>3, <2>4, PushingSound DEF Answer
  <2>6. QED
    BY <2>2, <2>5, FailingSound DEF Sound
<1>6. CASE what = "health_check_response"
  <2> DEFINE e == Emit(p, "health_check_response_received")
  <2>1. e \in Objects /\ Sound(e, expired, reads)
    BY Telling DEF Events
  <2>2. QED
    BY <1>6, <2>1, ReadingSound DEF Dispatch
<1>7. QED
  BY <1>2, <1>3, <1>4, <1>5, <1>6 DEF BodyResults

-----------------------------------------------------------------------------
\* The steps.  Until async_start() runs, which nothing precedes, nothing is under way.

ExpiredTimers == {timer \in Timers : Expired(timer)}

Before == /\ peer.open /\ ~peer.writing /\ peer.armed = {} /\ ~peer.ready
          /\ ioq # <<>> /\ Head(ioq).op = "start"

Telltale ==
    /\ Faithful(peer)
    /\ Quiet(peer, Queued(Reads))
    /\ Started => Watched(peer, ExpiredTimers)
    /\ ~Started => Before

\* A handler that has run: its own timer no longer counts.
LEMMA TimersAfterTail ==
    ASSUME ioq \in Seq(Handlers), ioq # <<>>, ioq' = Tail(ioq)
    PROVE  /\ Head(ioq).op # "timer" => ExpiredTimers' = ExpiredTimers
           /\ ExpiredTimers \ {Head(ioq).what} \subseteq ExpiredTimers'
           /\ ExpiredTimers' \subseteq ExpiredTimers
<1>1. /\ Len(ioq) \in Nat /\ Len(ioq) >= 1 /\ DOMAIN ioq = 1..Len(ioq)
      /\ DOMAIN ioq' = 1..(Len(ioq) - 1) /\ Head(ioq) = ioq[1]
  OBVIOUS
<1>2. \A i \in 1..(Len(ioq) - 1) : ioq'[i] = ioq[i + 1]
  OBVIOUS
<1>3. ASSUME NEW timer \in Timers, Expired(timer),
             Head(ioq).op # "timer" \/ Head(ioq).what # timer
      PROVE  Expired(timer)'
  <2>1. PICK i \in DOMAIN ioq : ioq[i].op = "timer" /\ ioq[i].what = timer
    BY <1>3 DEF Expired
  <2>2. i # 1
    BY <1>1, <1>3, <2>1
  <2>3. i - 1 \in DOMAIN ioq' /\ ioq'[i - 1] = ioq[i]
    BY <1>1, <1>2, <2>1, <2>2
  <2>4. QED
    BY <2>1, <2>3 DEF Expired
<1>4. ASSUME NEW timer \in Timers, Expired(timer)'
      PROVE  Expired(timer)
  <2>1. PICK i \in DOMAIN ioq' : ioq'[i].op = "timer" /\ ioq'[i].what = timer
    BY <1>4 DEF Expired
  <2>2. i + 1 \in DOMAIN ioq /\ ioq'[i] = ioq[i + 1]
    BY <1>1, <1>2, <2>1
  <2>3. QED
    BY <2>1, <2>2 DEF Expired
<1>5. QED
  BY <1>3, <1>4 DEF ExpiredTimers

LEMMA TimersAfterAppend ==
    ASSUME ioq \in Seq(Handlers), NEW h \in Handlers, ioq' = Append(ioq, h)
    PROVE  /\ ExpiredTimers \subseteq ExpiredTimers'
           /\ h.op = "timer" => h.what \in ExpiredTimers'
<1>1. /\ Len(ioq) \in Nat /\ DOMAIN ioq = 1..Len(ioq) /\ DOMAIN ioq' = 1..(Len(ioq) + 1)
      /\ ioq'[Len(ioq) + 1] = h
  OBVIOUS
<1>2. \A i \in 1..Len(ioq) : ioq'[i] = ioq[i]
  OBVIOUS
<1>3. ASSUME NEW timer \in Timers, Expired(timer)
      PROVE  Expired(timer)'
  <2>1. PICK i \in DOMAIN ioq : ioq[i].op = "timer" /\ ioq[i].what = timer
    BY <1>3 DEF Expired
  <2>2. i \in DOMAIN ioq' /\ ioq'[i] = ioq[i]
    BY <1>1, <1>2, <2>1
  <2>3. QED
    BY <2>1, <2>2 DEF Expired
<1>4. h.op = "timer" => h.what \in Timers /\ Expired(h.what)'
  <2>1. h.op = "timer" => h.what \in Timers
    BY DEF Handlers
  <2>2. Len(ioq) + 1 \in DOMAIN ioq'
    BY <1>1
  <2>3. QED
    BY <1>1, <2>1, <2>2 DEF Expired
<1>5. QED
  BY <1>3, <1>4 DEF ExpiredTimers

\* A handler after async_start(): what it leaves need only be sound for the timers
\* that were expired without its own, and for the reads that are still queued.
LEMMA HandlerTelltale ==
    ASSUME Inv, Telltale, ioq # <<>>, ioq' = Tail(ioq), Head(ioq).op # "start",
           NEW expired, expired \subseteq ExpiredTimers', Sound(peer', expired, Queued(Reads)')
    PROVE  Telltale'
<1>1. ioq \in Seq(Handlers)
  BY DEF Inv, TypeOK
<1>2. Started
  BY DEF Telltale, Before
<1>3. Started'
  BY <1>1, <1>2, AfterTail DEF Started
<1>4. Watched(peer', ExpiredTimers')
  BY DEF Sound, Watched
<1>5. QED
  BY <1>3, <1>4 DEF Telltale, Sound

\* Before any handler but async_start() the object is sound, also for what remains
\* in the queue, unless the handler ends a read.
LEMMA HandlerBefore ==
    ASSUME Inv, Telltale, ioq # <<>>, ioq' = Tail(ioq), Head(ioq).op # "start"
    PROVE  /\ peer \in Objects /\ ioq \in Seq(Handlers)
           /\ Sound(peer, ExpiredTimers, Queued(Reads))
           /\ Head(ioq).op # "timer" => ExpiredTimers' = ExpiredTimers
           /\ Head(ioq).op \notin Reads => (Queued(Reads)' <=> Queued(Reads))
           /\ Head(ioq).op \in Reads => peer.reading = "none" /\ ~Queued(Reads)'
           /\ Head(ioq).op \in Writes => ~peer.writing /\ peer.queue # <<>>
<1>1. peer \in Objects /\ ioq \in Seq(Handlers)
  BY DEF Inv, TypeOK
<1>2. Started
  BY DEF Telltale, Before
<1>3. Sound(peer, ExpiredTimers, Queued(Reads))
  BY <1>2 DEF Telltale, Sound
<1>4. /\ AtMostOne(Reads) /\ (Queued(Reads) => peer.reading = "none")
      /\ Queued(Writes) => ~peer.writing /\ peer.queue # <<>>
  BY DEF Inv, OneOperationEach, OneOfEach
<1>5. QED
  BY <1>1, <1>3, <1>4, AfterTail, TimersAfterTail

LEMMA StartTelltale ==
    ASSUME Inv, Telltale, Start
    PROVE  Telltale'
<1> DEFINE p == [peer EXCEPT
               !.armed = @ \cup {"ready_deadline", "heartbeat_timer", "heartbeat_deadline"}]
<1>1. peer \in Objects /\ ioq \in Seq(Handlers) /\ ioq # <<>> /\ ioq' = Tail(ioq)
  BY DEF Inv, TypeOK, Start, Running, Becomes
<1>2. Before
  <2>1. Queued({"start"})
    BY <1>1, AfterTail DEF Start, Running
  <2>2. QED
    BY <2>1 DEF Telltale, Started
<1>3. p \in Objects /\ Sound(p, {}, FALSE)
  <2>1. peer.reading = "none"
    BY <1>1, <1>2, AfterTail DEF Inv, StartsOnce, Before
  <2>2. /\ p \in Objects
        /\ p.open = peer.open /\ p.ready = peer.ready /\ p.events = peer.events
        /\ p.reading = peer.reading /\ p.writing = peer.writing
        /\ "heartbeat_deadline" \in p.armed
    BY <1>1 DEF Objects, Timers
  <2> HIDE DEF p
  <2>3. QED
    BY <1>2, <2>1, <2>2 DEF Telltale, Before, Sound, Faithful, Watched, Quiet
<1>4. peer' = ReadHeader(p)
  BY DEF Start, Becomes
<1> HIDE DEF p
<1>5. Sound(peer', {}, FALSE) /\ peer'.open
  <2>1. p.open => ReadHeader(p).open
    BY <1>3 DEF ReadHeader, Arm, Objects
  <2>2. p.open
    BY <1>2 DEF p, Before, Objects
  <2>3. QED
    BY <1>3, <1>4, <2>1, <2>2, ReadingSound
<1>6. Started'
  <2>1. AtMostOne({"start"})
    BY DEF Inv, StartsOnce
  <2>2. QED
    BY <1>1, <1>2, <2>1, AfterTail DEF Started, Before
<1>7. QED
  BY <1>5, <1>6 DEF Telltale, Sound, Watched, Quiet

LEMMA OthersTelltale ==
    ASSUME Inv, Telltale, RunClose \/ RunPush \/ ReadyDeadline \/ HeartbeatTimer \/ Deadline
    PROVE  Telltale'
<1>1. /\ ioq # <<>> /\ ioq' = Tail(ioq) /\ H = Head(ioq)
      /\ Head(ioq).op \in {"close", "push", "timer"}
  BY DEF RunClose, RunPush, ReadyDeadline, HeartbeatTimer, Deadline, Running, Becomes, H
<1>2. /\ peer \in Objects /\ ioq \in Seq(Handlers) /\ H \in Handlers
      /\ Sound(peer, ExpiredTimers, Queued(Reads)')
      /\ H.op # "timer" => ExpiredTimers' = ExpiredTimers
      /\ ExpiredTimers \ {H.what} \subseteq ExpiredTimers'
  <2>1. Head(ioq).op # "start" /\ Head(ioq).op \notin Reads
    BY <1>1 DEF Reads
  <2>2. /\ peer \in Objects /\ ioq \in Seq(Handlers)
        /\ Sound(peer, ExpiredTimers, Queued(Reads))
        /\ (Queued(Reads)' <=> Queued(Reads))
        /\ Head(ioq).op # "timer" => ExpiredTimers' = ExpiredTimers
    BY <1>1, <2>1, HandlerBefore
  <2>3. Sound(peer, ExpiredTimers, Queued(Reads)')
    BY <2>2 DEF Sound, Quiet
  <2>4. ExpiredTimers \ {Head(ioq).what} \subseteq ExpiredTimers'
    BY <1>1, <2>2, TimersAfterTail
  <2>5. QED
    BY <1>1, <2>2, <2>3, <2>4
<1> SUFFICES Sound(peer', ExpiredTimers', Queued(Reads)')
  BY <1>1, HandlerTelltale
<1>3. CASE RunClose
  BY <1>2, <1>3, ClosingSound DEF RunClose, Becomes, Sound
<1>4. CASE RunPush
  <2>1. H.op = "push" /\ peer' = PushFrame(peer, MakeFrame(H.what, H.n))
    BY <1>1, <1>4 DEF RunPush, Running, Becomes
  <2>2. H.what \in MessageTypes /\ H.n \in DataSizes
    BY <1>2, <2>1 DEF Handlers
  <2>3. ExpiredTimers' = ExpiredTimers
    BY <1>2, <2>1
  <2>4. Sound(PushFrame(peer, MakeFrame(H.what, H.n)), ExpiredTimers, Queued(Reads)')
    BY <1>2, <2>2, PushingSound
  <2>5. QED
    BY <2>1, <2>3, <2>4
<1>5. ASSUME H.what \notin {"heartbeat_deadline", "read_deadline", "write_deadline"}
      PROVE  Sound(peer, ExpiredTimers', Queued(Reads)')
  BY <1>2, <1>5 DEF Sound, Watched
<1>6. CASE ReadyDeadline
  <2>1. H.what = "ready_deadline" /\ peer' = EnsureReady(peer)
    BY <1>6 DEF ReadyDeadline, Becomes
  <2>2. Sound(EnsureReady(peer), ExpiredTimers', Queued(Reads)')
    BY <1>2, <1>5, <2>1, ReadyingSound
  <2>3. QED
    BY <2>1, <2>2
<1>7. CASE HeartbeatTimer
  <2> DEFINE q == PushFrame(peer, Heartbeat)
             a == Arm(q, "heartbeat_timer")
  <2>1. /\ Sound(peer, ExpiredTimers', Queued(Reads)')
        /\ peer' = IF peer.open THEN a ELSE peer
    BY <1>5, <1>7 DEF HeartbeatTimer, Becomes
  <2>2. "heartbeat" \in MessageTypes /\ 0 \in DataSizes
    BY WidthsAssumption DEF MessageTypes, DataSizes, header_size, type_size, request_id_size
  <2>3. q \in Objects /\ Sound(q, ExpiredTimers', Queued(Reads)')
    BY <1>2, <2>1, <2>2, PushingSound DEF Heartbeat
  <2> HIDE DEF q
  <2>4. /\ a.open = q.open /\ a.ready = q.ready /\ a.events = q.events /\ a.reading = q.reading
        /\ a.armed = q.armed \cup {"heartbeat_timer"} /\ a.writing = q.writing
    BY <2>3 DEF Arm, Objects
  <2> HIDE DEF a
  <2>5. Sound(a, ExpiredTimers', Queued(Reads)')
    BY <2>3, <2>4 DEF Sound, Faithful, Watched, Quiet
  <2>6. QED
    BY <2>1, <2>5
<1>8. CASE Deadline
  BY <1>2, <1>8, FailingSound DEF Deadline, Becomes, Sound
<1>9. QED
  BY <1>3, <1>4, <1>6, <1>7, <1>8

\* The handler of a read has cancelled read_deadline_: nothing is read any more.
LEMMA ReadsTelltale ==
    ASSUME Inv, Telltale, HeaderRead \/ BodyRead
    PROVE  Telltale'
<1> DEFINE p == Cancel(peer, "read_deadline")
           a == Arm(p, "heartbeat_deadline")
<1>1. /\ ioq # <<>> /\ ioq' = Tail(ioq) /\ H = Head(ioq) /\ Head(ioq).op \in Reads
      /\ Head(ioq).op # "start" /\ Head(ioq).op # "timer"
  BY DEF HeaderRead, BodyRead, Running, Becomes, H, Reads
<1>2. /\ peer \in Objects /\ ioq \in Seq(Handlers) /\ H \in Handlers
      /\ Sound(peer, ExpiredTimers, Queued(Reads))
      /\ ExpiredTimers' = ExpiredTimers
      /\ peer.reading = "none" /\ ~Queued(Reads)'
  BY <1>1, HandlerBefore
<1>3. p \in Objects /\ Sound(p, ExpiredTimers', Queued(Reads)')
  <2>1. /\ p \in Objects
        /\ p.open = peer.open /\ p.ready = peer.ready /\ p.events = peer.events
        /\ p.reading = peer.reading /\ p.writing = peer.writing
        /\ p.armed = peer.armed \ {"read_deadline"}
    BY <1>2 DEF Objects, Cancel
  <2> HIDE DEF p
  <2>2. QED
    BY <1>2, <2>1 DEF Sound, Faithful, Watched, Quiet
<1> SUFFICES Sound(peer', ExpiredTimers', Queued(Reads)')
  BY <1>1, HandlerTelltale
<1> HIDE DEF p
<1>4. CASE HeaderRead
  <2>1. H.what \in HeaderResults
    BY <1>1, <1>2, <1>4 DEF HeaderRead, Running, Handlers
  <2>2. peer' = Close(p) \/ peer' = HandleError(p) \/ peer' = ReadBody(p)
    BY <1>4, <2>1 DEF HeaderRead, Becomes, HeaderResults, p
  <2>3. QED
    BY <1>3, <2>2, ClosingSound, FailingSound, ReadingSound DEF Sound
<1>5. CASE BodyRead
  <2>1. H.what \in BodyResults
    BY <1>1, <1>2, <1>5 DEF BodyRead, Running, Handlers
  <2>2. peer' = IF H.what = "error" THEN HandleError(p) ELSE Dispatch(a, H.what)
    BY <1>5 DEF BodyRead, Becomes, p
  <2>3. a \in Objects /\ Sound(a, ExpiredTimers', Queued(Reads)')
    <3>1. /\ a \in Objects
          /\ a.open = p.open /\ a.ready = p.ready /\ a.events = p.events
          /\ a.reading = p.reading /\ a.writing = p.writing
          /\ a.armed = p.armed \cup {"heartbeat_deadline"}
      BY <1>3 DEF Objects, Arm, Timers
    <3> HIDE DEF a
    <3>2. QED
      BY <1>3, <3>1 DEF Sound, Faithful, Watched, Quiet
  <2> HIDE DEF a
  <2>4. CASE H.what = "error"
    BY <1>3, <2>2, <2>4, FailingSound DEF Sound
  <2>5. CASE H.what # "error"
    BY <2>1, <2>2, <2>3, <2>5, DispatchingSound
  <2>6. QED
    BY <2>4, <2>5
<1>6. QED
  BY <1>4, <1>5

LEMMA WrittenTelltale ==
    ASSUME Inv, Telltale, Written
    PROVE  Telltale'
<1> DEFINE p == Cancel(peer, "write_deadline")
           q == Sent(p)
<1>1. /\ ioq # <<>> /\ ioq' = Tail(ioq) /\ Head(ioq).op \in Writes
      /\ Head(ioq).op \notin Reads /\ Head(ioq).op # "start" /\ Head(ioq).op # "timer"
  BY DEF Written, Running, Becomes, Reads, Writes
<1>2. /\ peer \in Objects
      /\ Sound(peer, ExpiredTimers, Queued(Reads))
      /\ ExpiredTimers' = ExpiredTimers /\ (Queued(Reads)' <=> Queued(Reads))
      /\ ~peer.writing /\ peer.queue # <<>>
  BY <1>1, HandlerBefore
<1>3. p \in Objects /\ p.queue = peer.queue /\ Sound(p, ExpiredTimers', Queued(Reads)')
  <2>1. /\ p \in Objects /\ p.queue = peer.queue
        /\ p.open = peer.open /\ p.ready = peer.ready /\ p.events = peer.events
        /\ p.reading = peer.reading /\ p.writing = peer.writing
        /\ p.armed = peer.armed \ {"write_deadline"}
    BY <1>2 DEF Objects, Cancel
  <2> HIDE DEF p
  <2>2. QED
    BY <1>2, <2>1 DEF Sound, Faithful, Watched, Quiet
<1>4. peer' = HandleError(p) \/ peer' = Close(q) \/ peer' = Write(q)
  BY DEF Written, Becomes
<1> HIDE DEF p
<1>5. q \in Objects /\ Sound(q, ExpiredTimers', Queued(Reads)')
  <2>1. /\ q \in Objects
        /\ q.open = p.open /\ q.ready = p.ready /\ q.events = p.events
        /\ q.reading = p.reading /\ q.writing = p.writing /\ q.armed = p.armed
    BY <1>2, <1>3, Sending
  <2> HIDE DEF q
  <2>2. QED
    BY <1>3, <2>1 DEF Sound, Faithful, Watched, Quiet
<1> HIDE DEF q
<1>6. Sound(peer', ExpiredTimers', Queued(Reads)')
  BY <1>3, <1>4, <1>5, FailingSound, ClosingSound, WritingSound DEF Sound
<1>7. QED
  BY <1>1, <1>6, HandlerTelltale

\* asio posts a handler: the timer it is for has expired, the read is queued.
LEMMA PostingTelltale ==
    ASSUME Inv, Telltale, NEW h \in Handlers, ioq' = Append(ioq, h), h.op # "start",
           peer' \in Objects, peer'.open = peer.open, peer'.ready = peer.ready,
           peer'.events = peer.events,
           peer'.armed \subseteq peer.armed,
           \A timer \in peer.armed \ peer'.armed : h = Handler("timer", timer),
           peer'.reading # peer.reading => peer'.reading = "none" /\ h.op \in Reads,
           peer'.writing => peer.writing
    PROVE  Telltale'
<1>1. ioq \in Seq(Handlers) /\ peer \in Objects
  BY DEF Inv, TypeOK
<1>2. /\ (Started' <=> Started)
      /\ (Queued(Reads)' <=> Queued(Reads) \/ h.op \in Reads)
  BY <1>1, AfterAppend DEF Started
<1>3. ExpiredTimers \subseteq ExpiredTimers' /\ (h.op = "timer" => h.what \in ExpiredTimers')
  BY <1>1, TimersAfterAppend
<1>4. peer.armed \ peer'.armed \subseteq ExpiredTimers'
  BY <1>3 DEF Handler
<1>5. Faithful(peer')
  BY DEF Telltale, Faithful
<1>6. Quiet(peer', Queued(Reads)')
  BY <1>2 DEF Telltale, Quiet
<1>7. Started => Watched(peer', ExpiredTimers')
  BY <1>3, <1>4 DEF Telltale, Watched
<1>8. ~Started => Before'
  <2>1. ASSUME ~Started
        PROVE  Before'
    <3>1. ioq # <<>> /\ Head(ioq).op = "start"
      BY <2>1 DEF Telltale, Before
    <3>2. ioq' # <<>> /\ Head(ioq') = Head(ioq)
      BY <1>1, <3>1
    <3>3. peer'.writing \in BOOLEAN
      BY DEF Objects
    <3>4. QED
      BY <2>1, <3>1, <3>2, <3>3 DEF Telltale, Before
  <2>2. QED
    BY <2>1
<1>9. QED
  BY <1>2, <1>5, <1>6, <1>7, <1>8 DEF Telltale

LEMMA QueueingTelltale ==
    ASSUME Inv, Telltale,
           \/ \E timer \in Timers : TimerExpires(timer)
           \/ \E what \in HeaderResults : HeaderArrives(what)
           \/ \E what \in BodyResults : BodyArrives(what)
           \/ ReadFails
           \/ \E what \in {"ok", "error"} : WriteCompletes(what)
           \/ \E message \in Messages : AsyncSend(message)
           \/ AsyncClose
    PROVE  Telltale'
<1>1. peer \in Objects
  BY DEF Inv, TypeOK
<1>2. ASSUME NEW timer \in Timers, TimerExpires(timer)
      PROVE  Telltale'
  <2> DEFINE h == Handler("timer", timer)
  <2>1. h \in Handlers /\ h.op # "start" /\ ioq' = Append(ioq, h)
    BY <1>2 DEF Handler, Handlers, TimerExpires, Post
  <2>2. peer' = [peer EXCEPT !.armed = @ \ {timer}]
    BY <1>2 DEF TimerExpires, Cancel
  <2>3. /\ peer' \in Objects /\ peer'.open = peer.open /\ peer'.ready = peer.ready
        /\ peer'.events = peer.events /\ peer'.reading = peer.reading
        /\ peer'.writing = peer.writing /\ peer'.armed = peer.armed \ {timer}
    BY <1>1, <2>2 DEF Objects
  <2>4. \A t \in peer.armed \ peer'.armed : h = Handler("timer", t)
    BY <2>3
  <2> HIDE DEF h
  <2>5. QED
    BY <2>1, <2>3, <2>4, PostingTelltale
<1>3. ASSUME NEW h \in Handlers, h.op \in Reads, ioq' = Append(ioq, h),
             peer' = [peer EXCEPT !.reading = "none"]
      PROVE  Telltale'
  <2>1. /\ peer' \in Objects /\ peer'.open = peer.open /\ peer'.ready = peer.ready
        /\ peer'.events = peer.events /\ peer'.reading = "none"
        /\ peer'.writing = peer.writing /\ peer'.armed = peer.armed
    BY <1>1, <1>3 DEF Objects
  <2>2. QED
    BY <1>3, <2>1, PostingTelltale DEF Reads
<1>4. ASSUME NEW what \in HeaderResults, HeaderArrives(what)
      PROVE  Telltale'
  <2>1. Handler("header", what) \in Handlers /\ Handler("header", what).op \in Reads
    BY DEF Handler, Handlers, Reads
  <2>2. QED
    BY <1>3, <1>4, <2>1 DEF HeaderArrives, Post
<1>5. ASSUME (\E what \in BodyResults : BodyArrives(what)) \/ ReadFails
      PROVE  Telltale'
  <2>1. \E what \in BodyResults : ioq' = Append(ioq, Handler("body", what))
    BY <1>5 DEF BodyArrives, ReadFails, Post, BodyResults
  <2>2. PICK what \in BodyResults : ioq' = Append(ioq, Handler("body", what))
    BY <2>1
  <2>3. Handler("body", what) \in Handlers /\ Handler("body", what).op \in Reads
    BY DEF Handler, Handlers, Reads
  <2>4. peer' = [peer EXCEPT !.reading = "none"]
    BY <1>5 DEF BodyArrives, ReadFails
  <2>5. QED
    BY <1>3, <2>2, <2>3, <2>4
<1>6. ASSUME NEW what \in {"ok", "error"}, WriteCompletes(what)
      PROVE  Telltale'
  <2> DEFINE h == Handler("written", what)
  <2>1. h \in Handlers /\ h.op # "start" /\ ioq' = Append(ioq, h)
    BY <1>6 DEF Handler, Handlers, WriteCompletes, Post
  <2>2. peer' = [peer EXCEPT !.writing = FALSE]
    BY <1>6 DEF WriteCompletes
  <2>3. /\ peer' \in Objects /\ peer'.open = peer.open /\ peer'.ready = peer.ready
        /\ peer'.events = peer.events /\ peer'.reading = peer.reading
        /\ ~peer'.writing /\ peer'.armed = peer.armed
    BY <1>1, <2>2 DEF Objects
  <2> HIDE DEF h
  <2>4. QED
    BY <2>1, <2>3, PostingTelltale
<1>7. ASSUME UNCHANGED peer, NEW h \in Handlers, h.op # "start", ioq' = Append(ioq, h)
      PROVE  Telltale'
  BY <1>1, <1>7, PostingTelltale
<1>8. ASSUME NEW message \in Messages, AsyncSend(message)
      PROVE  Telltale'
  <2> DEFINE h == [op |-> "push", what |-> message[1], n |-> message[2]]
  <2>1. message[1] \in MessageTypes /\ message[2] \in DataSizes
    BY PeerAssumption DEF MessageTypes
  <2>2. h \in Handlers /\ h.op # "start"
    BY <2>1 DEF Handlers
  <2>3. ioq' = Append(ioq, h) /\ UNCHANGED peer
    BY <1>8 DEF AsyncSend, Post
  <2> HIDE DEF h
  <2>4. QED
    BY <1>7, <2>2, <2>3
<1>9. CASE AsyncClose
  <2>1. Handler("close", "") \in Handlers /\ Handler("close", "").op # "start"
    BY DEF Handler, Handlers
  <2>2. ioq' = Append(ioq, Handler("close", "")) /\ UNCHANGED peer
    BY <1>9 DEF AsyncClose, Post
  <2>3. QED
    BY <1>7, <2>1, <2>2
<1>10. QED
  BY <1>2, <1>4, <1>5, <1>6, <1>8, <1>9

\* The same handlers and completions, for what the peer tells and for its timers.
THEOREM TelltaleInvariance == Spec => []Telltale
<1>1. Init => Telltale
  <2> SUFFICES ASSUME Init
               PROVE  Telltale
    OBVIOUS
  <2>1. /\ peer.open /\ ~peer.ready /\ ~peer.writing /\ peer.armed = {} /\ peer.reading = "none"
        /\ peer.events = <<>>
    BY DEF Init
  <2>2. ioq # <<>> /\ Head(ioq).op = "start" /\ Queued({"start"})
    <3> DEFINE h == Handler("start", "")
    <3>1. ioq = <<h>> /\ h.op = "start"
      BY DEF Init, Handler
    <3> HIDE DEF h
    <3>2. 1 \in DOMAIN ioq /\ ioq[1] = h /\ ioq # <<>> /\ Head(ioq) = h
      BY <3>1
    <3>3. QED
      BY <3>1, <3>2 DEF Queued
  <2>3. Faithful(peer)
    BY <2>1 DEF Faithful
  <2>4. QED
    BY <2>1, <2>2, <2>3 DEF Telltale, Quiet, Started, Before
<1>2. Inv /\ Telltale /\ [Next]_vars => Telltale'
  <2> SUFFICES ASSUME Inv, Telltale, [Next]_vars
               PROVE  Telltale'
    OBVIOUS
  <2>1. CASE IoStep
    BY <2>1, StartTelltale, OthersTelltale, ReadsTelltale, WrittenTelltale DEF IoStep
  <2>2. ASSUME UNCHANGED <<peer, ioq>>
        PROVE  Telltale'
    BY <2>2 DEF Telltale, Started, Queued, ExpiredTimers, Expired, Before
  <2>3. QED
    BY <2>1, <2>2, QueueingTelltale DEF Next, vars, OwnerForgets, Destroyed
<1>3. QED
  BY <1>1, <1>2, Invariance, PTL DEF Spec

\* The slots of the owners are told ready at most once and before any message, and
\* closed at most once, exactly when the socket is no longer open (ensure_ready(),
\* close()).  A message or an error may still follow closed.
THEOREM EventsOrdered == Spec => []EventsInOrder
<1>1. Telltale => EventsInOrder
  <2> SUFFICES ASSUME Telltale
               PROVE  EventsInOrder
    OBVIOUS
  <2>1. Once("ready") /\ Once("closed")
    BY DEF Telltale, Faithful, Once
  <2>2. "closed" \in ToSet(peer.events) <=> ~peer.open
    BY DEF Telltale, Faithful, ToSet
  <2>3. QED
    BY <2>1, <2>2 DEF Telltale, Faithful, EventsInOrder
<1>2. QED
  BY TelltaleInvariance, <1>1, PTL

\* A read, a write and an open connection always have the deadline that ends them
\* (start_read_deadline(), write(), refresh_heartbeat_deadline()).
THEOREM Guarded == Spec => []DeadlinesGuard
<1>1. Inv /\ Telltale => DeadlinesGuard
  BY DEF Inv, Telltale, Watched, DeadlinesGuard, ExpiredTimers
<1>2. QED
  BY Invariance, TelltaleInvariance, <1>1, PTL

\* A closed connection whose last handler has run waits for none of the timers of
\* its operations (close() cancels them even if the socket was closed before).
THEOREM TimersEnd == Spec => []OperationTimersEnd
<1>1. Inv /\ Telltale => OperationTimersEnd
  <2> SUFFICES ASSUME Inv, Telltale, Over
               PROVE  peer.armed \cap {"ready_deadline", "read_deadline", "write_deadline"} = {}
    BY DEF OperationTimersEnd
  <2>1. ~Queued(Reads)
    BY DEF Over, Queued
  <2>2. QED
    BY <2>1 DEF Over, Telltale, Quiet
<1>2. QED
  BY Invariance, TelltaleInvariance, <1>1, PTL

=============================================================================
