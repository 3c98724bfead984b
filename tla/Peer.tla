-------------------------------- MODULE Peer --------------------------------
(***************************************************************************)
(* impl/peer.hpp: one connection, from async_start() to the end of its     *)
(* last handler.                                                           *)
(*                                                                         *)
(* Everything but the posting of async_start, async_close and async_send*  *)
(* runs on the shared I/O thread, one handler at a time.  The hard part is *)
(* what asio has already queued when a handler changes the peer's mind: a  *)
(* timer that has expired cannot be cancelled, and a read or a write that  *)
(* has completed runs its handler after a close() queued before it.        *)
(* The methods call one another, so each is an operator from the peer's    *)
(* state to the peer's state, and a handler is a composition of them.      *)
(* Handlers that run with operation_aborted change nothing and are left    *)
(* out.  Frames that are sent have the sizes of Protocol.tla; of those     *)
(* that arrive only what decides a branch is kept.                         *)
(***************************************************************************)
EXTENDS Protocol, Sequences, SequencesExt

CONSTANTS MaxSendQueueSize,    \* common_parameters.max_send_queue_size
          MaxFrames,           \* bound: headers and bodies that arrive
          MaxSends,            \* bound: calls of async_send*
          MaxQueued,           \* bound: handlers queued at a time
          Messages             \* that are sent, see AsyncSend

ASSUME PeerAssumption ==
    /\ {MaxSendQueueSize, MaxFrames, MaxSends, MaxQueued} \subseteq Nat
    /\ Messages \subseteq {"user_data", "request", "response", "health_check"} \X DataSizes

VARIABLES
    peer,      \* the object, see TypeOK
    ioq,       \* its handlers queued in the io_context
    owned,     \* client_state or server_state still holds its shared_ptr
    left       \* what the bounds leave

vars == <<peer, ioq, owned, left>>

Timers == {"ready_deadline", "heartbeat_timer", "heartbeat_deadline", "read_deadline",
           "write_deadline"}
\* "message": received, request_received and response_received.
Events == {"ready", "message", "health_check_response_received", "error_occurred", "closed"}
\* What a read of a header, and of a body, may end with.  "message" is user data,
\* a request or a response, "bad_message" one of a wrong size, "error" in a
\* header also a size that no body has.
HeaderResults == {"eof", "error", "ok"}
BodyResults == {"error", "heartbeat", "message", "bad_message", "health_check",
                "health_check_response", "unknown"}

\* `n' is the number of bytes a push sends, and 0 otherwise.
Handler(op, what) == [op |-> op, what |-> what, n |-> 0]
Handlers ==
    [op : {"start", "close"}, what : {""}, n : {0}]
    \cup [op : {"push"}, what : MessageTypes, n : DataSizes]
    \cup [op : {"timer"}, what : Timers, n : {0}]
    \cup [op : {"header"}, what : HeaderResults, n : {0}]
    \cup [op : {"body"}, what : BodyResults, n : {0}]
    \cup [op : {"written"}, what : {"ok", "error"}, n : {0}]

Objects ==
    [open : BOOLEAN,                         \* socket_.is_open()
     ready : BOOLEAN,                        \* ready_
     closeAfterWrite : BOOLEAN,              \* close_after_write_
     answered : BOOLEAN,                     \* history: the response to a health check is out
     armed : SUBSET Timers,                  \* timers with a wait that has not expired
     reading : {"none", "header", "body"},   \* async_read under way
     writing : BOOLEAN,                      \* async_write under way
     queue : Seq(Frames),                    \* write_queue_
     events : Seq(Events)]                   \* enqueued to the dispatcher, in order

TypeOK ==
    /\ peer \in Objects
    /\ Len(peer.queue) <= MaxSendQueueSize
    /\ ioq \in Seq(Handlers)
    /\ owned \in BOOLEAN
    /\ left \in [frames : Nat, sends : Nat]

\* The owner has constructed the peer and called async_start().
Init ==
    /\ peer = [open |-> TRUE, ready |-> FALSE, closeAfterWrite |-> FALSE,
               answered |-> FALSE, armed |-> {}, reading |-> "none", writing |-> FALSE,
               queue |-> <<>>, events |-> <<>>]
    /\ ioq = <<Handler("start", "")>>
    /\ owned = TRUE
    /\ left = [frames |-> MaxFrames, sends |-> MaxSends]

-----------------------------------------------------------------------------
\* The methods.

Emit(p, event) == [p EXCEPT !.events = Append(@, event)]
Arm(p, timer) == [p EXCEPT !.armed = @ \cup {timer}]
Cancel(p, timer) == [p EXCEPT !.armed = @ \ {timer}]

\* Faulty: closed for every call; ready_deadline_ is forgotten.
CloseReporting(p) ==
    Emit([p EXCEPT !.open = FALSE, !.armed = {}, !.reading = "none", !.writing = FALSE], "closed")
CloseForgetting(p) ==
    LET q == [p EXCEPT !.armed = @ \cap {"ready_deadline"}] IN
    IF p.open
    THEN Emit([q EXCEPT !.open = FALSE, !.reading = "none", !.writing = FALSE], "closed") ELSE q

\* close() and close_socket(): every timer, the socket, and closed for a socket
\* that was open.  The reads and writes under way end with operation_aborted.
Close(p) ==
    IF p.open
    THEN Emit([p EXCEPT !.open = FALSE, !.armed = {}, !.reading = "none", !.writing = FALSE],
              "closed")
    ELSE [p EXCEPT !.armed = {}]

\* Faulty: the socket stays open.
HandleErrorOpen(p) == Emit(p, "error_occurred")

HandleError(p) == Close(Emit(p, "error_occurred"))

EnsureReady(p) ==
    IF p.ready THEN p
    ELSE Emit(Cancel([p EXCEPT !.ready = TRUE], "ready_deadline"), "ready")

\* write(): one frame at a time.
Write(p) ==
    IF ~p.open \/ p.queue = <<>> THEN p
    ELSE [Arm(p, "write_deadline") EXCEPT !.writing = TRUE]

\* Faulty: one frame too many; a write for each frame.
PushOneMore(p, frame) ==
    IF ~p.open THEN p
    ELSE IF ~ValidOutgoing(frame) \/ Len(p.queue) > MaxSendQueueSize THEN HandleError(p)
    ELSE LET q == [p EXCEPT !.queue = Append(@, frame)]
         IN IF p.queue = <<>> THEN Write(q) ELSE q
PushAndWrite(p, frame) ==
    IF ~p.open THEN p
    ELSE IF ~ValidOutgoing(frame) \/ Len(p.queue) >= MaxSendQueueSize THEN HandleError(p)
    ELSE Write([p EXCEPT !.queue = Append(@, frame)])

\* push_frame()
PushFrame(p, frame) ==
    IF ~p.open THEN p
    ELSE IF ~ValidOutgoing(frame) \/ Len(p.queue) >= MaxSendQueueSize THEN HandleError(p)
    ELSE LET q == [p EXCEPT !.queue = Append(@, frame)]
         IN IF p.queue = <<>> THEN Write(q) ELSE q

Heartbeat == MakeFrame("heartbeat", 0)
Answer == MakeFrame("health_check_response", 0)

\* Faulty: start_read_deadline() is not called.
ReadHeaderUnguarded(p) == IF ~p.open THEN p ELSE [p EXCEPT !.reading = "header"]

ReadHeader(p) ==
    IF ~p.open THEN p
    ELSE [Arm(p, "read_deadline") EXCEPT !.reading = "header"]

\* read_body() does not look at the socket: on a closed one async_read fails.
ReadBody(p) == [Arm(p, "read_deadline") EXCEPT !.reading = "body"]

\* Faulty: the response is not sent.
AnswerForgotten(p) ==
    IF p.ready THEN HandleError(p) ELSE [p EXCEPT !.closeAfterWrite = TRUE]

AnswerHealthCheck(p) ==
    IF p.ready THEN HandleError(p)
    ELSE PushFrame([p EXCEPT !.closeAfterWrite = TRUE], Answer)

\* The message in a whole body, by its type.
Dispatch(p, what) ==
    CASE what = "heartbeat" -> ReadHeader(p)
      [] what = "message" -> ReadHeader(Emit(EnsureReady(p), "message"))
      [] what = "bad_message" -> HandleError(EnsureReady(p))
      [] what = "health_check" -> AnswerHealthCheck(p)
      [] what = "health_check_response" ->
           ReadHeader(Emit(p, "health_check_response_received"))
      [] what = "unknown" -> HandleError(p)

-----------------------------------------------------------------------------
\* The handlers on the I/O thread.

Running(op) == ioq # <<>> /\ Head(ioq).op = op
H == Head(ioq)
Becomes(p) == peer' = p /\ ioq' = Tail(ioq) /\ UNCHANGED <<owned, left>>

\* async_start()
Start ==
    /\ Running("start")
    /\ Becomes(ReadHeader([peer EXCEPT
           !.armed = @ \cup {"ready_deadline", "heartbeat_timer", "heartbeat_deadline"}]))

\* async_close()
RunClose == Running("close") /\ Becomes(Close(peer))

\* async_push_frame()
RunPush == Running("push") /\ Becomes(PushFrame(peer, MakeFrame(H.what, H.n)))

\* The wait handler of ready_deadline_.
ReadyDeadline ==
    Running("timer") /\ H.what = "ready_deadline" /\ Becomes(EnsureReady(peer))

\* Faulty: the socket is not looked at.
HeartbeatForever ==
    /\ Running("timer") /\ H.what = "heartbeat_timer"
    /\ Becomes(Arm(PushFrame(peer, Heartbeat), "heartbeat_timer"))

\* The wait handler of heartbeat_timer_: it starts the timer again whatever
\* became of the frame.
HeartbeatTimer ==
    /\ Running("timer") /\ H.what = "heartbeat_timer"
    /\ Becomes(IF peer.open THEN Arm(PushFrame(peer, Heartbeat), "heartbeat_timer") ELSE peer)

\* Those of heartbeat_deadline_, read_deadline_ and write_deadline_.
Deadline ==
    /\ Running("timer") /\ H.what \in {"heartbeat_deadline", "read_deadline", "write_deadline"}
    /\ Becomes(HandleError(peer))

HeaderRead ==
    /\ Running("header")
    /\ LET p == Cancel(peer, "read_deadline") IN
       Becomes(CASE H.what = "eof" -> Close(p)
                 [] H.what = "error" -> HandleError(p)
                 [] H.what = "ok" -> ReadBody(p))

BodyRead ==
    /\ Running("body")
    /\ LET p == Cancel(peer, "read_deadline") IN
       Becomes(IF H.what = "error" THEN HandleError(p)
               ELSE Dispatch(Arm(p, "heartbeat_deadline"), H.what))

\* The front of the queue is out.
Sent(p) == [p EXCEPT !.queue = Tail(@), !.answered = @ \/ Head(p.queue) = Answer]

\* Faulty: the queue is not looked at.
WrittenOnce ==
    /\ Running("written")
    /\ LET p == Cancel(peer, "write_deadline")
           q == Sent(p)
       IN Becomes(IF H.what = "error" THEN HandleError(p)
                  ELSE IF q.closeAfterWrite THEN Close(q)
                  ELSE Write(q))

\* The handler of async_write.
Written ==
    /\ Running("written")
    /\ LET p == Cancel(peer, "write_deadline")
           q == Sent(p)
       IN Becomes(IF H.what = "error" THEN HandleError(p)
                  ELSE IF q.queue = <<>> /\ q.closeAfterWrite THEN Close(q)
                  ELSE Write(q))

IoStep ==
    \/ Start \/ RunClose \/ RunPush \/ ReadyDeadline \/ HeartbeatTimer \/ Deadline
    \/ HeaderRead \/ BodyRead \/ Written

-----------------------------------------------------------------------------
\* asio and the kernel queue handlers; so does the owner.

Post(handler) == Len(ioq) < MaxQueued /\ ioq' = Append(ioq, handler)

TimerExpires(timer) ==
    /\ timer \in peer.armed
    /\ peer' = Cancel(peer, timer)
    /\ Post(Handler("timer", timer))
    /\ UNCHANGED <<owned, left>>

\* A part of a frame has arrived, or the remote end has gone.
HeaderArrives(what) ==
    /\ peer.reading = "header" /\ peer.open
    /\ left.frames > 0
    /\ left' = [left EXCEPT !.frames = @ - 1]
    /\ peer' = [peer EXCEPT !.reading = "none"]
    /\ Post(Handler("header", what))
    /\ UNCHANGED owned

BodyArrives(what) ==
    /\ peer.reading = "body" /\ peer.open
    /\ left.frames > 0
    /\ left' = [left EXCEPT !.frames = @ - 1]
    /\ peer' = [peer EXCEPT !.reading = "none"]
    /\ Post(Handler("body", what))
    /\ UNCHANGED owned

\* A read of a socket that was closed before it began.
ReadFails ==
    /\ peer.reading = "body" /\ ~peer.open
    /\ peer' = [peer EXCEPT !.reading = "none"]
    /\ Post(Handler("body", "error"))
    /\ UNCHANGED <<owned, left>>

\* The kernel took the frame, or could not.
WriteCompletes(what) ==
    /\ peer.writing
    /\ peer' = [peer EXCEPT !.writing = FALSE]
    /\ Post(Handler("written", what))
    /\ UNCHANGED <<owned, left>>

\* async_send and its like: a message is a type and the number of bytes of data.
AsyncSend(message) ==
    /\ owned
    /\ left.sends > 0
    /\ left' = [left EXCEPT !.sends = @ - 1]
    /\ Post([op |-> "push", what |-> message[1], n |-> message[2]])
    /\ UNCHANGED <<peer, owned>>

\* The owner lets the peer go: after async_close(), or because it was told closed.
AsyncClose ==
    /\ owned
    /\ owned' = FALSE
    /\ Post(Handler("close", ""))
    /\ UNCHANGED <<peer, left>>

OwnerForgets ==
    /\ owned
    /\ "closed" \in ToSet(peer.events)
    /\ owned' = FALSE
    /\ UNCHANGED <<peer, ioq, left>>

\* No shared_ptr is left: the object is destroyed.
Unreferenced ==
    ~owned /\ ioq = <<>> /\ peer.armed = {} /\ peer.reading = "none" /\ ~peer.writing

Destroyed == Unreferenced /\ UNCHANGED vars

Next ==
    \/ IoStep
    \/ \E timer \in Timers : TimerExpires(timer)
    \/ \E what \in HeaderResults : HeaderArrives(what)
    \/ \E what \in BodyResults : BodyArrives(what)
    \/ ReadFails
    \/ \E what \in {"ok", "error"} : WriteCompletes(what)
    \/ \E message \in Messages : AsyncSend(message)
    \/ AsyncClose \/ OwnerForgets
    \/ Destroyed

\* The I/O thread runs what is queued, time passes, a failed read completes, and
\* the owner reacts to closed.  Nothing is assumed of the remote end.
Fairness ==
    /\ WF_vars(IoStep) /\ WF_vars(ReadFails) /\ WF_vars(OwnerForgets)
    /\ \A timer \in Timers : WF_vars(TimerExpires(timer))

Spec == Init /\ [][Next]_vars /\ Fairness

-----------------------------------------------------------------------------
\* Properties.

Queued(ops) == \E i \in DOMAIN ioq : ioq[i].op \in ops
AtMostOne(ops) ==
    \A i, j \in DOMAIN ioq : ioq[i].op \in ops /\ ioq[j].op \in ops => i = j
Reads == {"header", "body"}
Writes == {"written"}
Expired(timer) == \E i \in DOMAIN ioq : ioq[i].op = "timer" /\ ioq[i].what = timer
Started == ~Queued({"start"})
Once(event) ==
    \A i, j \in DOMAIN peer.events : peer.events[i] = event /\ peer.events[j] = event => i = j

\* What the slots of the owners rely on: ready comes once and before any
\* message, whichever of the deadline, a message and a health check is first
\* (ensure_ready(), read_body()), and closed exactly once for the end of the
\* socket, however many of error, deadline, write and async_close() end it.  What is
\* handled after the close may still follow closed.
EventsInOrder ==
    /\ Once("ready") /\ Once("closed")
    /\ \A i \in DOMAIN peer.events : peer.events[i] = "message" =>
         \E j \in 1..(i - 1) : peer.events[j] = "ready"
    /\ "closed" \in ToSet(peer.events) <=> ~peer.open

\* The buffers of the operations under way are left alone: there is one read
\* (read_header_, read_body_) and one write (the front of write_queue_), which
\* the handler of the write can take off the queue (write(), push_frame()).
OneOfEach ==
    /\ AtMostOne(Reads) /\ (peer.reading # "none" => ~Queued(Reads))
    /\ AtMostOne(Writes) /\ (peer.writing => ~Queued(Writes))
    /\ peer.writing \/ Queued(Writes) => peer.queue # <<>>

\* An accepted frame never waits in a queue that nobody empties: on an open
\* socket a write is under way as long as there is a frame (was_empty).
NoStalledFrame == peer.open /\ peer.queue # <<>> => peer.writing \/ Queued(Writes)

\* An open peer that is started reads the next frame, unless it answers a
\* health check and then closes: no message type ends the loop by accident.
NeverDeaf ==
    peer.open /\ Started => peer.reading # "none" \/ Queued(Reads) \/ peer.closeAfterWrite

\* The operations follow one another without overlap and without a gap, whichever
\* handlers start and end them.
OneOperationEach == OneOfEach /\ NoStalledFrame /\ NeverDeaf

\* A frame in the write queue is whole, and an end with the same limits lets it in:
\* valid_outgoing_frame() and the checks of read_header() and read_body() agree.
FramesFit ==
    \A i \in DOMAIN peer.queue : LET frame == peer.queue[i] IN
        /\ frame.size = header_size + frame.length
        /\ LimitsFit => AcceptsLength(frame) /\ AcceptsBody(frame)

\* A read or a write that waits for the remote end is guarded by its deadline,
\* and the connection by the heartbeat's, though timers are cancelled and
\* started again by other handlers than their own.
DeadlinesGuard ==
    LET guarded(timer) == timer \in peer.armed \/ Expired(timer) IN
    peer.open /\ Started =>
        /\ guarded("heartbeat_deadline")
        /\ peer.reading # "none" => guarded("read_deadline")
        /\ peer.writing => guarded("write_deadline")

\* Whoever asked for a health check is answered: the connection ends without its
\* owner and without an error only when the response has been written, though a
\* heartbeat may be queued before it, or its queue be full (close_after_write_).
AnsweredBeforeClose ==
    [][peer'.closeAfterWrite /\ peer.open /\ ~peer'.open
         => \/ peer'.answered
            \/ Running("close")
            \/ peer'.events = peer.events \o <<"error_occurred", "closed">>]_vars

\* Nothing is left to wait for once the socket is closed and the last operation
\* has ended, or the destruction of the client or server waits for a timer
\* (close(): "Cancel the timers even if the socket has already been closed").
Over == ~peer.open /\ ioq = <<>> /\ peer.reading = "none" /\ ~peer.writing
OperationTimersEnd ==
    Over => peer.armed \cap {"ready_deadline", "read_deadline", "write_deadline"} = {}

\* The same of the two heartbeat timers. A body that was read before the close, and
\* whose handler runs after it, arms heartbeat_deadline_ again; and the handler of
\* heartbeat_timer_ starts it again after the frame it pushed closed the peer
\* because the queue was full.
HeartbeatTimersEnd ==
    Over => peer.armed \cap {"heartbeat_deadline", "heartbeat_timer"} = {}

\* A connection that serves a health check is not announced as a peer ("Server
\* health checks are internal and must not look like normal peers").
ProbeStaysHidden == ~(peer.closeAfterWrite /\ peer.ready)

\* A remote end that has gone silent is given up: heartbeat_deadline_ does it, for
\* the frames that arrive are bounded.
SilentPeerEnds == <>(~peer.open)

\* A peer its owner let go is destroyed, and ~peer() does not abort: no handler
\* restarts for good what holds it, and it is closed by then.
ReleasedInTheEnd == (~owned) ~> (Unreferenced /\ ~peer.open)

=============================================================================
