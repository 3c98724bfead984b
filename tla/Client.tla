------------------------------- MODULE Client -------------------------------
(***************************************************************************)
(* client.hpp: client_state with its notification_scope, its reconnect     *)
(* debounce and its use of the request manager.                            *)
(*                                                                         *)
(* Two threads run it: the dispatcher thread takes entries from `dq' and   *)
(* the shared I/O thread takes handlers from `ioq'; both are FIFO.         *)
(* notification_scope's running_ and generation_ are atomics written by    *)
(* the dispatcher thread and read by the I/O thread, so a dispatcher entry *)
(* that writes them and then posts is two steps (`dpc').  A connection is  *)
(* known by one name from its socket to its peer; Peer.tla has the inside  *)
(* of the peer, here it is a socket that emits signals.                    *)
(***************************************************************************)
EXTENDS Queues, SequencesExt

CONSTANTS Conns,               \* names for sockets and peers; a released one is used again
          Requests,            \* async_request calls
          None,                \* null pointer, no request
          MaxReads,            \* bound: frames the remote ends send
          MaxCalls,            \* bound: async_start, async_stop, async_invalidate_connection
          InvalidateOnError    \* common_parameters.invalidate_connection_on_request_error

ASSUME ClientAssumption ==
    /\ None \notin Conns \cup Requests
    /\ MaxReads \in Nat /\ MaxCalls \in Nat
    /\ InvalidateOnError \in BOOLEAN

VARIABLES
    validPath,             \* make_endpoint accepts socket_file_path_
    running, generation,   \* notification_scope: running_, generation_
    attached,              \* the client is attached to the dispatcher
    dpc,                   \* the dispatcher thread inside stop, invalidate or shutdown
    dq,                    \* the dispatcher's immediate entries
    reconnect,             \* reconnect_task_ holds a delayed entry of the current debounce
    ioq,                   \* handlers queued in the io_context
    connecting,            \* connecting_socket_
    peer,                  \* peer_
    sock,                  \* what became of each socket
    session,               \* the token an attempt captured (connect(), and the peer's slots)
    pending,               \* keys of the request manager's pending_requests_
    request,               \* progress of each async_request
    requestToken,          \* the token its timeout callback captured
    requestConn,           \* history: the peer it was sent to
    app,                   \* history: the connection the application was last told of
    life,                  \* the state object
    left                   \* what the bounds leave

scopeVars == <<validPath, running, generation, attached>>
requestVars == <<pending, request, requestToken, requestConn>>
connVars == <<connecting, peer, sock, session>>
vars == <<scopeVars, dpc, dq, reconnect, ioq, connVars, requestVars, app, life, left>>

\* "connecting": async_connect has not completed.  "done": it has, no peer reads
\* from the socket yet.  "open": its peer does.  "closed", "ended": closed
\* without a peer, and with one.
SockStates == {"free", "connecting", "done", "open", "closed", "ended"}
RequestStates == {"idle", "posted", "pending", "completed", "called", "dropped"}
Signals == {"received", "response", "error", "closed"}
Notes == {"connected", "connect_failed", "verification_failed", "received", "error",
          "closed", "reconnect"}

Entry(op, conn, token, what, req) ==
    [op |-> op, conn |-> conn, token |-> token, what |-> what, req |-> req]
Do(op) == Entry(op, None, 0, "", None)
Conn(op, conn, token, what) == Entry(op, conn, token, what, None)
Request(op, req) == Entry(op, None, 0, "", req)
Note(what, conn, token) == Conn("note", conn, token, what)
Signal(what, conn, req) == Entry("signal", conn, 0, what, req)

TypeOK ==
    /\ validPath \in BOOLEAN
    /\ running \in BOOLEAN /\ attached \in BOOLEAN /\ reconnect \in BOOLEAN
    /\ generation \in Nat
    /\ dpc \in {"idle", "stop", "invalidate", "shutdown"}
    /\ \A e \in ToSet(dq) \cup ToSet(ioq) :
         /\ e.conn \in Conns \cup {None} /\ e.req \in Requests \cup {None}
         /\ e.token \in 0..generation
         /\ e.op = "note" => e.what \in Notes
         /\ e.op = "signal" => e.what \in Signals
    /\ connecting \in Conns \cup {None} /\ peer \in Conns \cup {None}
    /\ sock \in [Conns -> SockStates]
    /\ session \in [Conns -> 0..generation]
    /\ pending \subseteq Requests
    /\ request \in [Requests -> RequestStates]
    /\ requestToken \in [Requests -> 0..generation]
    /\ requestConn \in [Requests -> Conns \cup {None}]
    /\ app \in Conns \cup {None}
    /\ life \in {"live", "closing", "releasing", "destroyed"}
    /\ left \in [{"calls", "reads"} -> Nat]

Init ==
    /\ validPath \in BOOLEAN
    /\ running = FALSE /\ generation = 0 /\ attached = TRUE
    /\ dpc = "idle" /\ dq = <<>> /\ reconnect = FALSE /\ ioq = <<>>
    /\ connecting = None /\ peer = None
    /\ sock = [c \in Conns |-> "free"]
    /\ session = [c \in Conns |-> 0]
    /\ pending = {}
    /\ request = [r \in Requests |-> "idle"]
    /\ requestToken = [r \in Requests |-> 0]
    /\ requestConn = [r \in Requests |-> None]
    /\ app = None /\ life = "live"
    /\ left = [calls |-> MaxCalls, reads |-> MaxReads]

-----------------------------------------------------------------------------
\* notification_scope and the two queues.

\* Faulty: the generation is not compared.
IsCurrentRunning(token) == running

IsCurrent(token) == running /\ generation = token

\* enqueue_to_dispatcher() of the client: refused once it is detached.
Enqueue(entries) == dq' = IF attached THEN dq \o entries ELSE dq

\* The I/O thread runs the handler at the head of its queue, which posts `tasks'.
Running(op) == ioq # <<>> /\ Head(ioq).op = op
Posting(tasks) == ioq' = Tail(ioq) \o tasks
H == Head(ioq)

\* The dispatcher thread runs the entry at the head of its queue; `entries' is
\* what it enqueues itself.
Dispatching(op) == dpc = "idle" /\ dq # <<>> /\ Head(dq).op = op
Dispatched(entries) == dq' = Tail(dq) \o (IF attached THEN entries ELSE <<>>)
E == Head(dq)

Post(tasks) == ioq' = ioq \o tasks

\* The state is gone: weak_self.lock() fails.
Locked == life # "destroyed"

-----------------------------------------------------------------------------
\* The application's calls: async_start, async_stop, async_invalidate_connection,
\* async_request.

Call(op) ==
    /\ attached /\ left.calls > 0
    /\ left' = [left EXCEPT !.calls = @ - 1]
    /\ dq' = Append(dq, Do(op))
    /\ UNCHANGED <<scopeVars, dpc, reconnect, ioq, connVars, requestVars, app, life>>

AsyncRequest(r) ==
    /\ attached /\ request[r] = "idle"
    /\ request' = [request EXCEPT ![r] = "posted"]
    /\ Post(<<Request("request", r)>>)
    /\ UNCHANGED <<scopeVars, dpc, dq, reconnect, connVars, pending, requestToken,
                   requestConn, app, life, left>>

-----------------------------------------------------------------------------
\* The dispatcher thread.

Start ==
    /\ Dispatching("start")
    /\ running' = TRUE
    /\ Post(<<Conn("connect", None, generation, "")>>)
    /\ Dispatched(<<>>)
    /\ UNCHANGED <<validPath, generation, attached, dpc, reconnect, connVars, requestVars, app,
                   life, left>>

\* stop() and invalidate_connection(): the scope moves on first, which ends the
\* session for the application ...
EndSession(op) ==
    /\ Dispatching(op)
    /\ generation' = generation + 1
    /\ running' = IF op = "stop" THEN FALSE ELSE running
    /\ app' = None
    /\ dpc' = op
    /\ Dispatched(<<>>)
    /\ UNCHANGED <<validPath, attached, reconnect, ioq, connVars, requestVars, life, left>>

\* Faulty: with a token nobody captured.
PostEndOfNextSession ==
    /\ dpc \in {"stop", "invalidate"}
    /\ dpc' = "idle"
    /\ Enqueue(<<Do("cancel")>>)
    /\ Post(<<Conn(dpc, None, generation + 1, "")>>)
    /\ UNCHANGED <<scopeVars, reconnect, connVars, requestVars, app, life, left>>

\* ... then the reconnect is cancelled (an entry of its own) and the I/O thread
\* is asked to close the connection.
PostEndOfSession ==
    /\ dpc \in {"stop", "invalidate"}
    /\ dpc' = "idle"
    /\ Enqueue(<<Do("cancel")>>)
    /\ Post(<<Conn(dpc, None, generation, "")>>)
    /\ UNCHANGED <<scopeVars, reconnect, connVars, requestVars, app, life, left>>

\* Faulty: a failed attempt is not followed by another.
ReconnectingOnce == {"closed", "reconnect"}

\* The notifications that end in schedule_reconnect().
Reconnecting == {"connect_failed", "verification_failed", "closed", "reconnect"}

\* A notification_scope entry: delivered when its token is current.
Notify ==
    /\ Dispatching("note")
    /\ IF IsCurrent(E.token)
       THEN /\ app' = CASE E.what = "connected" -> E.conn
                        [] E.what = "closed" -> None
                        [] OTHER -> app
            /\ Dispatched(IF E.what \in Reconnecting THEN <<Do("debounce")>> ELSE <<>>)
       ELSE app' = app /\ Dispatched(<<>>)
    /\ UNCHANGED <<scopeVars, dpc, reconnect, ioq, connVars, requestVars, life, left>>

\* The entry that calls verify_peer_, and posts its answer.
Verify ==
    /\ Dispatching("verify")
    /\ IF IsCurrent(E.token)
       THEN \E answer \in {"verified", "refused"} :
              Post(<<Conn("verified", E.conn, E.token, answer)>>)
       ELSE ioq' = ioq
    /\ Dispatched(<<>>)
    /\ UNCHANGED <<scopeVars, dpc, reconnect, connVars, requestVars, app, life, left>>

\* A signal of a peer: its slot posts to the I/O thread.  async_shutdown's
\* handler disconnects the slots of its peer.
DispatchSignal ==
    /\ Dispatching("signal")
    /\ ioq' = IF life = "live"
              THEN Append(ioq, Entry("forward", E.conn, session[E.conn], E.what, E.req))
              ELSE ioq
    /\ Dispatched(<<>>)
    /\ UNCHANGED <<scopeVars, dpc, reconnect, connVars, requestVars, app, life, left>>

\* debounced_task: cancel() and debounce_after() each enqueue an entry.
Debounce ==
    /\ dpc = "idle" /\ dq # <<>> /\ E.op \in {"cancel", "debounce"}
    /\ reconnect' = (E.op = "debounce")
    /\ Dispatched(<<>>)
    /\ UNCHANGED <<scopeVars, dpc, ioq, connVars, requestVars, app, life, left>>

\* Its delayed entry, which immediate entries always precede.
Reconnect ==
    /\ dpc = "idle" /\ dq = <<>> /\ reconnect
    /\ reconnect' = FALSE
    /\ ioq' = IF running THEN Append(ioq, Conn("connect", None, generation, "")) ELSE ioq
    /\ UNCHANGED <<scopeVars, dpc, dq, connVars, requestVars, app, life, left>>

CallBack ==
    /\ Dispatching("callback")
    /\ request' = [request EXCEPT ![E.req] = "called"]
    /\ Dispatched(<<>>)
    /\ UNCHANGED <<scopeVars, dpc, reconnect, ioq, connVars, pending, requestToken,
                   requestConn, app, life, left>>

\* async_shutdown(): the dispatcher erases the client's entries and refuses new
\* ones; then the function runs that stops the scope, and the handler is posted.
Detach ==
    /\ dpc = "idle" /\ attached
    /\ attached' = FALSE
    /\ dq' = Selected(dq, {i \in DOMAIN dq : dq[i].op = "signal"})
    /\ reconnect' = FALSE
    /\ request' = [r \in Requests |-> IF request[r] = "completed" THEN "dropped" ELSE request[r]]
    /\ dpc' = "shutdown"
    /\ UNCHANGED <<validPath, running, generation, ioq, connVars, pending, requestToken, requestConn,
                   app, life, left>>

PostShutdown ==
    /\ dpc = "shutdown"
    /\ dpc' = "idle"
    /\ running' = FALSE /\ generation' = generation + 1
    /\ app' = None
    /\ Post(<<Do("shutdown")>>)
    /\ UNCHANGED <<validPath, attached, dq, reconnect, connVars, requestVars, life, left>>

-----------------------------------------------------------------------------
\* The I/O thread: the connect attempt.

IoUnchanged == UNCHANGED <<scopeVars, dpc, reconnect, app, left>>

\* Faulty: an existing peer is not looked at.
MayConnectAgain(token) == Locked /\ IsCurrent(token) /\ connecting = None

MayConnect(token) == Locked /\ IsCurrent(token) /\ connecting = None /\ peer = None

\* The handler of connect() when there is nothing to do.
ConnectIgnored ==
    /\ Running("connect")
    /\ ~MayConnect(H.token)
    /\ Posting(<<>>)
    /\ UNCHANGED <<dq, connVars, requestVars, life>> /\ IoUnchanged

\* The path does not fit into a socket address.
ConnectBadPath ==
    /\ Running("connect")
    /\ MayConnect(H.token)
    /\ ~validPath
    /\ Enqueue(<<Note("connect_failed", None, H.token)>>)
    /\ Posting(<<>>)
    /\ UNCHANGED <<connVars, requestVars, life>> /\ IoUnchanged

ConnectBegins(c) ==
    /\ Running("connect")
    /\ MayConnect(H.token)
    /\ validPath
    /\ sock[c] = "free"
    /\ connecting' = c
    /\ sock' = [sock EXCEPT ![c] = "connecting"]
    /\ session' = [session EXCEPT ![c] = H.token]
    /\ Posting(<<>>)
    /\ UNCHANGED <<peer, dq, requestVars, life>> /\ IoUnchanged

\* The connect completes and its handler is queued.
Connects(c, outcome) ==
    /\ sock[c] = "connecting"
    /\ sock' = [sock EXCEPT ![c] = "done"]
    /\ Post(<<Conn("connectDone", c, session[c], outcome)>>)
    /\ UNCHANGED <<connecting, peer, session, dq, requestVars, life>> /\ IoUnchanged

\* The completion handler of async_connect.  It asks the dispatcher to verify
\* the peer, and gives up when the dispatcher refuses the entry.
ConnectDone ==
    /\ Running("connectDone")
    /\ Posting(<<>>)
    /\ LET c == H.conn
           closing == sock' = [sock EXCEPT ![c] = "closed"]
       IN \/ /\ ~running \/ connecting # c
             /\ closing
             /\ UNCHANGED <<connecting, dq>>
          \/ /\ running /\ connecting = c /\ H.what = "failed"
             /\ connecting' = None
             /\ closing
             /\ Enqueue(<<Note("connect_failed", None, H.token)>>)
          \/ /\ running /\ connecting = c /\ H.what = "connected" /\ attached
             /\ Enqueue(<<Conn("verify", c, H.token, "")>>)
             /\ UNCHANGED <<connecting, sock>>
          \/ /\ running /\ connecting = c /\ H.what = "connected" /\ ~attached
             /\ connecting' = None
             /\ closing
             /\ dq' = dq
    /\ UNCHANGED <<peer, session, requestVars, life>> /\ IoUnchanged

\* handle_connected_socket(): the peer starts, then connected is announced.
HandleConnectedSocket ==
    /\ Running("verified")
    /\ LET c == H.conn
           closing == sock' = [sock EXCEPT ![c] = "closed"]
       IN \/ /\ connecting # c
             /\ closing /\ Posting(<<>>)
             /\ UNCHANGED <<connecting, peer, dq>>
          \/ /\ connecting = c /\ ~IsCurrent(H.token)
             /\ connecting' = None
             /\ closing /\ Posting(<<>>)
             /\ UNCHANGED <<peer, dq>>
          \/ /\ connecting = c /\ IsCurrent(H.token) /\ H.what = "refused"
             /\ connecting' = None
             /\ closing /\ Posting(<<>>)
             /\ Enqueue(<<Note("verification_failed", None, H.token)>>)
             /\ peer' = peer
          \/ /\ connecting = c /\ IsCurrent(H.token) /\ H.what = "verified"
             /\ connecting' = None
             /\ peer' = c
             /\ Posting(<<Conn("peerStart", c, 0, ""), Conn("announce", c, H.token, "")>>)
             /\ UNCHANGED <<sock, dq>>
    /\ UNCHANGED <<session, requestVars, life>> /\ IoUnchanged

Announce ==
    /\ Running("announce")
    /\ Enqueue(IF Locked /\ peer = H.conn THEN <<Note("connected", H.conn, H.token)>> ELSE <<>>)
    /\ Posting(<<>>)
    /\ UNCHANGED <<connVars, requestVars, life>> /\ IoUnchanged

-----------------------------------------------------------------------------
\* Peers, as far as the client sees them: sockets whose peers emit signals on
\* the dispatcher.

PeerStart ==
    /\ Running("peerStart")
    /\ sock' = [sock EXCEPT ![H.conn] = "open"]
    /\ Posting(<<>>)
    /\ UNCHANGED <<connecting, peer, session, dq, requestVars, life>> /\ IoUnchanged

PeerClose ==
    /\ Running("peerClose")
    /\ sock' = [sock EXCEPT ![H.conn] = "ended"]
    /\ dq' = IF sock[H.conn] = "open" THEN Append(dq, Signal("closed", H.conn, None)) ELSE dq
    /\ Posting(<<>>)
    /\ UNCHANGED <<connecting, peer, session, requestVars, life>> /\ IoUnchanged

\* A frame arrives.  A completion that was queued before the close still emits.
PeerReads(c) ==
    /\ sock[c] \in {"open", "ended"}
    /\ left.reads > 0
    /\ left' = [left EXCEPT !.reads = @ - 1]
    /\ \/ dq' = Append(dq, Signal("received", c, None))
       \/ \E r \in Requests :
            /\ requestConn[r] = c
            /\ dq' = Append(dq, Signal("response", c, r))
       \/ sock[c] = "ended" /\ dq' = Append(dq, Signal("error", c, None))
    /\ UNCHANGED <<scopeVars, dpc, reconnect, ioq, connVars, requestVars, app, life>>

\* The remote end closes, or the peer closes itself on an error.
PeerEnds(c) ==
    /\ sock[c] = "open"
    /\ sock' = [sock EXCEPT ![c] = "ended"]
    /\ \E errors \in {<<>>, <<Signal("error", c, None)>>} :
         dq' = dq \o errors \o <<Signal("closed", c, None)>>
    /\ UNCHANGED <<connecting, peer, session, ioq, requestVars, life>> /\ IoUnchanged

\* The last reference to a closed socket, or to its peer, goes: the peer's
\* entries leave the dispatcher.
Release(c) ==
    /\ sock[c] \in {"closed", "ended"}
    /\ c \notin {connecting, peer}
    /\ \A t \in ToSet(ioq) : t.conn # c
    /\ \A e \in ToSet(dq) : e.conn = c => e.op = "signal"
    /\ app # c
    /\ sock' = [sock EXCEPT ![c] = "free"]
    /\ session' = [session EXCEPT ![c] = 0]
    /\ requestConn' = [r \in Requests |-> IF requestConn[r] = c THEN None ELSE requestConn[r]]
    /\ dq' = Selected(dq, {i \in DOMAIN dq : dq[i].conn # c})
    /\ UNCHANGED <<connecting, peer, ioq, pending, request, requestToken, life>> /\ IoUnchanged

-----------------------------------------------------------------------------
\* Requests and the end of connections.

\* Faulty: the callback is not enqueued.
CompletingSilently(reqs, entries) ==
    /\ pending' = pending \ ToSet(reqs)
    /\ request' = [r \in Requests |-> IF r \in ToSet(reqs) THEN "completed" ELSE request[r]]
    /\ Enqueue(entries)
    /\ UNCHANGED <<requestToken, requestConn>>

\* The request manager completes the requests of the sequence `reqs': their
\* callbacks go to the dispatcher, then `entries' do.
Completing(reqs, entries) ==
    /\ pending' = pending \ ToSet(reqs)
    /\ request' = [r \in Requests |->
                     IF r \notin ToSet(reqs) THEN request[r]
                     ELSE IF attached THEN "completed" ELSE "dropped"]
    /\ Enqueue([i \in DOMAIN reqs |-> Request("callback", reqs[i])] \o entries)
    /\ UNCHANGED <<requestToken, requestConn>>

\* complete_all(): some order, that of an unordered_map.
AllPending == SetToSeq(pending)

\* Faulty: the peer is forgotten without async_close; the requests are.
ForgottenPeer == <<>>
ForgottenRequests == <<>>

\* close_peer(): complete_all, async_close, no peer.
ClosedPeer == IF peer = None THEN <<>> ELSE <<Conn("peerClose", peer, 0, "")>>
PendingOfPeer == IF peer = None THEN <<>> ELSE AllPending

\* close_connecting_socket(): an attempt in progress will complete with an error.
CloseConnecting ==
    /\ connecting' = None
    /\ sock' = IF connecting # None /\ sock[connecting] = "done"
               THEN [sock EXCEPT ![connecting] = "closed"] ELSE sock

\* Faulty: the end of the peer is not reported.
ForwardedData == {"received", "error"}

\* What the slots' handlers notify.  A response is for its request only.
Forwarded == {"received", "error", "closed"}

\* The slots' handlers on the I/O thread: only for the peer the client has.
Forward ==
    /\ Running("forward")
    /\ IF Locked /\ peer = H.conn
       THEN /\ Completing(CASE H.what = "received" -> <<>>
                           [] H.what = "response" -> IF H.req \in pending THEN <<H.req>> ELSE <<>>
                           [] OTHER -> AllPending,
                         IF H.what \in Forwarded THEN <<Note(H.what, H.conn, H.token)>> ELSE <<>>)
            /\ peer' = IF H.what = "closed" THEN None ELSE peer
       ELSE UNCHANGED <<dq, requestVars, peer>>
    /\ Posting(<<>>)
    /\ UNCHANGED <<connecting, sock, session, life>> /\ IoUnchanged

\* send_request(), with the timeout callback's token captured here.
SendRequest ==
    /\ Running("request")
    /\ LET r == H.req IN
       IF ~Locked THEN
            /\ request' = [request EXCEPT ![r] = "dropped"]
            /\ UNCHANGED <<pending, requestToken, requestConn, dq>>
       ELSE IF peer = None THEN
            /\ request' = [request EXCEPT ![r] = IF attached THEN "completed" ELSE "dropped"]
            /\ Enqueue(<<Request("callback", r)>>)
            /\ UNCHANGED <<pending, requestToken, requestConn>>
       ELSE /\ pending' = pending \cup {r}
            /\ request' = [request EXCEPT ![r] = "pending"]
            /\ requestToken' = [requestToken EXCEPT ![r] = generation]
            /\ requestConn' = [requestConn EXCEPT ![r] = peer]
            /\ dq' = dq
    /\ Posting(<<>>)
    /\ UNCHANGED <<connVars, life>> /\ IoUnchanged

\* The request's timer expires: its wait handler is queued.
TimerExpires(r) ==
    /\ r \in pending
    /\ \A t \in ToSet(ioq) : ~(t.op = "timeout" /\ t.req = r)
    /\ Post(<<Request("timeout", r)>>)
    /\ UNCHANGED <<dq, connVars, requestVars, life>> /\ IoUnchanged

\* The wait handler, and the timeout callback of send_request().
RequestTimeout ==
    /\ Running("timeout")
    /\ LET r == H.req
           closes == InvalidateOnError /\ peer # None
       IN IF r \in pending
          THEN /\ Completing(<<r>> \o (IF closes THEN SetToSeq(pending \ {r}) ELSE <<>>),
                             IF closes THEN <<Note("closed", peer, requestToken[r])>> ELSE <<>>)
               /\ peer' = IF closes THEN None ELSE peer
               /\ Posting(IF closes THEN ClosedPeer ELSE <<>>)
          ELSE Posting(<<>>) /\ UNCHANGED <<dq, requestVars, peer>>
    /\ UNCHANGED <<connecting, sock, session, life>> /\ IoUnchanged

\* The handlers of stop() and invalidate_connection(); the latter asks for a
\* new connection.
EndConnection ==
    /\ ioq # <<>> /\ H.op \in {"stop", "invalidate"}
    /\ IF Locked
       THEN /\ CloseConnecting
            /\ Completing(PendingOfPeer,
                          IF H.op = "invalidate" THEN <<Note("reconnect", None, H.token)>> ELSE <<>>)
            /\ Posting(ClosedPeer)
            /\ peer' = None
       ELSE Posting(<<>>) /\ UNCHANGED <<connecting, sock, peer, requestVars, dq>>
    /\ UNCHANGED <<session, life>> /\ IoUnchanged

\* The handler of async_shutdown(), which posts the one that keeps the state.
Shutdown ==
    /\ Running("shutdown")
    /\ CloseConnecting
    /\ Completing(PendingOfPeer, <<>>)
    /\ Posting(ClosedPeer \o <<Do("keepAlive")>>)
    /\ peer' = None
    /\ life' = "closing"
    /\ UNCHANGED session /\ IoUnchanged

\* Faulty: it waits for callbacks that a detached dispatcher dropped.
KeepAliveWaiting ==
    /\ Running("keepAlive")
    /\ IF \A r \in Requests : request[r] \in {"idle", "called"}
       THEN life' = "releasing" /\ Posting(<<>>)
       ELSE life' = life /\ Posting(<<Do("keepAlive")>>)
    /\ UNCHANGED <<dq, connVars, requestVars>> /\ IoUnchanged

KeepAlive ==
    /\ Running("keepAlive")
    /\ life' = "releasing"
    /\ Posting(<<>>)
    /\ UNCHANGED <<dq, connVars, requestVars>> /\ IoUnchanged

\* Faulty: the handlers still queued do not hold the state.
DestroyEarly ==
    /\ life = "releasing"
    /\ life' = "destroyed"
    /\ UNCHANGED <<dq, ioq, connVars, requestVars>> /\ IoUnchanged

\* No handler holds the state any more.
Destroy ==
    /\ life = "releasing"
    /\ \A c \in Conns : sock[c] # "connecting"
    /\ \A t \in ToSet(ioq) : t.op \notin {"connectDone", "verified"}
    /\ life' = "destroyed"
    /\ UNCHANGED <<dq, ioq, connVars, requestVars>> /\ IoUnchanged

IoStep ==
    \/ ConnectIgnored \/ ConnectBadPath \/ \E c \in Conns : ConnectBegins(c)
    \/ ConnectDone \/ HandleConnectedSocket \/ Announce \/ PeerStart \/ PeerClose
    \/ Forward \/ SendRequest \/ RequestTimeout \/ EndConnection \/ Shutdown \/ KeepAlive

DispatcherStep ==
    \/ Start \/ EndSession("stop") \/ EndSession("invalidate") \/ PostEndOfSession
    \/ Notify \/ Verify \/ DispatchSignal \/ Debounce \/ CallBack \/ PostShutdown

Destroyed == life = "destroyed" /\ dq = <<>> /\ ioq = <<>> /\ UNCHANGED vars

Next ==
    \/ \E op \in {"start", "stop", "invalidate"} : Call(op)
    \/ \E r \in Requests : AsyncRequest(r) \/ TimerExpires(r)
    \/ DispatcherStep \/ Reconnect \/ Detach
    \/ IoStep \/ Destroy
    \/ \E c \in Conns : \/ \E outcome \in {"connected", "failed"} : Connects(c, outcome)
                        \/ PeerReads(c) \/ PeerEnds(c) \/ Release(c)
    \/ Destroyed

\* Both threads keep running what they have; time passes; the kernel completes
\* every connect; what nothing refers to is released.
Fairness ==
    /\ WF_vars(DispatcherStep) /\ WF_vars(Reconnect) /\ WF_vars(IoStep) /\ WF_vars(Destroy)
    /\ \A r \in Requests : WF_vars(TimerExpires(r))
    /\ \A c \in Conns : WF_vars(Release(c)) /\ WF_vars(\E o \in {"connected", "failed"} : Connects(c, o))

Spec == Init /\ [][Next]_vars /\ Fairness

-----------------------------------------------------------------------------
\* Properties.

\* The notification the dispatcher thread is about to deliver.
Delivers(whats) == Dispatching("note") /\ IsCurrent(E.token) /\ E.what \in whats

\* The application is told of one connection at a time: connected, its data and
\* errors, and only after its closed of the next connection or attempt, whatever
\* stop, invalidate and a reconnect do to notifications under way
\* (notification_scope).
ToldOfOneAtATime ==
    /\ Delivers({"connected", "connect_failed", "verification_failed"}) => app = None
    /\ Delivers({"received", "error"}) => app = E.conn

\* closed is delivered once, for the connection that was announced.  With
\* invalidate_connection_on_request_error a request sent while stop or
\* invalidate_connection is between its two steps breaks this.
ClosedOnlyWhileConnected == Delivers({"closed"}) => app = E.conn

\* Every open socket is the client's attempt or peer, or a handler that closes
\* it is queued: none is lost between stop, invalidate and a late completion, and
\* none is left once stop() or the shutdown has run to its end on both threads.
ClosesTasks == {"peerClose", "connectDone", "verified"}
NoLostSocket ==
    /\ \A c \in Conns :
         sock[c] \in {"done", "open"} =>
             c \in {connecting, peer} \/ \E t \in ToSet(ioq) : t.op \in ClosesTasks /\ t.conn = c
    /\ ~running /\ dpc = "idle" /\ ioq = <<>> => peer = None /\ connecting = None

\* The client never has two connections, or an attempt next to a connection
\* (connect() and handle_connected_socket()).
OneConnection ==
    /\ connecting # None => peer = None
    /\ \A c \in Conns : sock[c] = "open" /\ c # peer =>
            \E t \in ToSet(ioq) : t.op = "peerClose" /\ t.conn = c

\* A request waits only while there is a peer whose response or end completes it.
PendingHasPeer == pending # {} => peer # None

\* The destroyed state left no socket open behind and no timer handler that
\* would use it; callbacks were dropped only for a client that was destroyed.
Released ==
    /\ life = "destroyed" =>
         /\ \A t \in ToSet(ioq) : t.op # "timeout"
         /\ \A c \in Conns : sock[c] \in {"free", "closed", "ended"}
    /\ \A r \in Requests : request[r] = "dropped" => ~attached

\* While it is running the client has a peer, an attempt under way, or tries
\* again: no failure, verification, close or invalidate leaves it idle for good.
Trying ==
    \/ peer # None
    \/ connecting # None
    \/ \E t \in ToSet(ioq) : t.op = "connect" /\ IsCurrent(t.token)
NeverGivesUp == []<>(~running \/ Trying)

\* The application is told when the connection it knows of is gone.
ToldOfLoss == \A c \in Conns : (app = c /\ peer # c) ~> (app # c)

\* Every request ends: its callback runs, or its client is destroyed.
RequestsEnd == \A r \in Requests : (request[r] # "idle") ~> (request[r] \in {"called", "dropped"})

\* Destruction finishes: the state object is not kept alive by what it started.
ShutdownEnds == (dpc = "shutdown") ~> (life = "destroyed")

=============================================================================
