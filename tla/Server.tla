-------------------------------- MODULE Server --------------------------------
(***************************************************************************)
(* server.hpp: server_state with its acceptor, its peers, its bind retry   *)
(* and its check of the socket path, on the two threads.  Its requests are *)
(* in RequestManager.tla and the inside of a peer in Peer.tla; here a peer *)
(* is a socket that emits ready and closed on the dispatcher.              *)
(*                                                                         *)
(* As in Client.tla, the dispatcher thread takes entries from `dq', the    *)
(* I/O thread handlers from `ioq', and an entry that ends a session is two *)
(* steps.  A probe is one connection of the health check; the timer that   *)
(* identifies it in the code is its name here.                             *)
(***************************************************************************)
EXTENDS Queues, SequencesExt

CONSTANTS Peers,       \* peer_id, counted from 1
          Probes,      \* names of probes; a released one is used again
          None,        \* null pointer
          Budgets,     \* bounds: alternatives for what a behaviour may hold, of
                       \*   calls: async_start, async_stop, async_close_peer, destruction
                       \*   accepts: connections, checks: probes
                       \*   faults: binds, accepts and probes that fail
                       \*   reports: what peers report besides ready and closed
          LateReady    \* ready_deadline_ may expire, or a first frame be read, before the
                       \* peer is closed, and its handler run after it (see Peer.tla)

Bounds == {"calls", "accepts", "checks", "faults", "reports"}

ASSUME ServerAssumption ==
    /\ IsFiniteSet(Peers) /\ Peers = 1..Cardinality(Peers)
    /\ None \notin Probes \cup Nat /\ Probes \cap Nat = {}
    /\ Budgets \subseteq [Bounds -> Nat]
    /\ \A b \in Budgets : b.accepts <= Cardinality(Peers)
    /\ LateReady \in BOOLEAN

VARIABLES
    running, generation,   \* notification_scope: running_, generation_
    attached,              \* the server is attached to the dispatcher
    dpc,                   \* the dispatcher thread inside stop or shutdown
    dq,                    \* the dispatcher's immediate entries
    retry,                 \* bind_retry_task_ holds a delayed entry
    watch,                 \* socket_path_health_check_timer_ holds a delayed entry
    ioq,                   \* handlers queued in the io_context
    acceptor,              \* acceptor_ listens
    accepting,             \* the tokens of the async_accepts under way
    next,                  \* next_peer_id_
    peers,                 \* the keys of peers_
    exposed,               \* exposed_peer_ids_
    sock,                  \* what became of each peer
    ready,                 \* peers whose ready_ is set
    session,               \* the token a peer's ready slot captured
    probe,                 \* socket_path_health_check_timeout_
    probePeer,             \* socket_path_health_check_peer_
    probes,                \* what became of each probe
    life,                  \* the state object
    app,                   \* history: the application was last told bound
    told,                  \* history: what it was told of a peer (PeerLifecycle)
    left                   \* what the budget leaves

scopeVars == <<running, generation, attached>>
taskVars == <<retry, watch>>
acceptorVars == <<acceptor, accepting>>
peerVars == <<next, peers, sock, ready, session>>
probeVars == <<probe, probePeer, probes>>
appVars == <<exposed, app, told>>
vars == <<scopeVars, dpc, dq, taskVars, ioq, acceptorVars, peerVars, probeVars, life, appVars,
          left>>

\* "gone": the last shared_ptr was released.
SockStates == {"none", "open", "closed", "gone"}
\* "connecting": async_connect has not completed.  "connected": it has, its handler
\* is queued.  "open": a peer.  "answered": one that has received the response.
\* "closed": it ended without it.  "done": it ended with it.
ProbeStates == {"free", "connecting", "connected", "open", "answered", "closed", "done"}

Entry(op, who, token, what) == [op |-> op, who |-> who, token |-> token, what |-> what]
Do(op) == Entry(op, None, 0, "")
With(op, token) == Entry(op, None, token, "")
About(op, who) == Entry(op, who, 0, "")
Note(what, who, token) == Entry("note", who, token, what)
Signal(what, who) == Entry("signal", who, 0, what)

TypeOK ==
    /\ running \in BOOLEAN /\ attached \in BOOLEAN /\ retry \in BOOLEAN /\ watch \in BOOLEAN
    /\ generation \in Nat
    /\ dpc \in {"idle", "stop", "shutdown"}
    /\ \A e \in ToSet(dq) \cup ToSet(ioq) :
         /\ e.who \in Peers \cup Probes \cup {None}
         /\ e.token \in 0..generation
         /\ e.op = "note" => e.what \in {"bound", "bind_failed", "closed", "ready"}
    /\ acceptor \in BOOLEAN /\ ToSet(accepting) \subseteq 0..generation
    /\ accepting # <<>> => acceptor
    /\ next \in {0} \cup Peers /\ peers \subseteq 1..next /\ exposed \subseteq 1..next
    /\ sock \in [Peers -> SockStates] /\ ready \subseteq 1..next
    /\ session \in [Peers -> 0..generation]
    /\ probe \in Probes \cup {None} /\ probePeer \in {probe, None}
    /\ probes \in [Probes -> [state : ProbeStates, timer : BOOLEAN, token : 0..generation]]
    /\ life \in {"live", "closing", "releasing", "destroyed"}
    /\ app \in BOOLEAN
    /\ told \in [Peers -> {"unknown", "accepted", "connected", "closed", "over"}]
    /\ left \in [Bounds -> Nat]

Init ==
    /\ running = FALSE /\ generation = 0 /\ attached = TRUE
    /\ dpc = "idle" /\ dq = <<>> /\ retry = FALSE /\ watch = FALSE /\ ioq = <<>>
    /\ acceptor = FALSE /\ accepting = <<>>
    /\ next = 0 /\ peers = {} /\ exposed = {}
    /\ sock = [id \in Peers |-> "none"]
    /\ ready = {}
    /\ session = [id \in Peers |-> 0]
    /\ probe = None /\ probePeer = None
    /\ probes = [k \in Probes |-> [state |-> "free", timer |-> FALSE, token |-> 0]]
    /\ life = "live" /\ app = FALSE
    /\ told = [id \in Peers |-> "unknown"]
    /\ left \in Budgets

-----------------------------------------------------------------------------
\* notification_scope and the two queues, as in Client.tla.

IsCurrent(token) == running /\ generation = token

Enqueue(entries) == dq' = IF attached THEN dq \o entries ELSE dq

Running(op) == ioq # <<>> /\ Head(ioq).op = op
Posting(tasks) == ioq' = Tail(ioq) \o tasks
H == Head(ioq)

Dispatching(op) == dpc = "idle" /\ dq # <<>> /\ Head(dq).op = op
Dispatched(entries) == dq' = Tail(dq) \o (IF attached THEN entries ELSE <<>>)
E == Head(dq)

Post(tasks) == ioq' = ioq \o tasks
Locked == life # "destroyed"

Spend(what) == left[what] > 0 /\ left' = [left EXCEPT ![what] = @ - 1]
Fault(failed) == IF failed THEN Spend("faults") ELSE left' = left

-----------------------------------------------------------------------------
\* The application's calls.  It names peers it was told of.

Call(op) ==
    /\ attached
    /\ Spend("calls")
    /\ dq' = Append(dq, Do(op))
    /\ UNCHANGED <<scopeVars, dpc, taskVars, ioq, acceptorVars, peerVars, probeVars, life, appVars>>

AsyncClosePeer(id) ==
    /\ attached /\ told[id] \in {"connected", "closed"}
    /\ Spend("calls")
    /\ Post(<<About("closePeer", id)>>)
    /\ UNCHANGED <<scopeVars, dpc, dq, taskVars, acceptorVars, peerVars, probeVars, life, appVars>>

-----------------------------------------------------------------------------
\* The dispatcher thread.

Start ==
    /\ Dispatching("start")
    /\ running' = TRUE
    /\ Post(<<With("bind", generation)>>)
    /\ Dispatched(<<>>)
    /\ UNCHANGED <<generation, attached, dpc, taskVars, acceptorVars, peerVars, probeVars, life,
                   appVars, left>>

\* What the end of a session means to the application.
SessionEnded ==
    /\ running' = FALSE /\ generation' = generation + 1
    /\ exposed' = {}
    /\ app' = FALSE
    /\ told' = [id \in Peers |-> IF told[id] \in {"accepted", "connected"} THEN "over" ELSE told[id]]

\* stop(): the scope moves on, the I/O thread closes everything after it.
EndSession ==
    /\ Dispatching("stop")
    /\ SessionEnded
    /\ dpc' = "stop"
    /\ Dispatched(<<>>)
    /\ UNCHANGED <<attached, taskVars, ioq, acceptorVars, peerVars, probeVars, life, left>>

PostStop ==
    /\ dpc = "stop"
    /\ dpc' = "idle"
    /\ Enqueue(<<Do("cancel"), Do("timerStop")>>)
    /\ Post(<<Do("stop")>>)
    /\ UNCHANGED <<scopeVars, taskVars, acceptorVars, peerVars, probeVars, life, appVars, left>>

\* Faulty: a bind that failed is not tried again.
RetriedOnce == {"closed"}

\* The notifications that end in schedule_bind_retry().
Retried == {"bind_failed", "closed"}

\* Faulty: the timer is not started again when the server is bound.
FollowupsUnwatched(what) ==
    CASE what = "bound" -> <<>>
      [] what \in Retried -> <<Do("timerStop"), Do("debounce")>>
      [] OTHER -> <<>>

\* What the notifications enqueue.
Followups(what) ==
    CASE what = "bound" -> <<Do("timerStart")>>
      [] what \in Retried -> <<Do("timerStop"), Do("debounce")>>
      [] OTHER -> <<>>

\* What the application makes of them: bind_failed tells it nothing of an acceptor.
TellsBinding(what) ==
    CASE what = "bound" -> TRUE [] what = "closed" -> FALSE [] OTHER -> app

\* A notification_scope entry that is discarded, or reports on the acceptor.
Notify ==
    /\ Dispatching("note")
    /\ IF IsCurrent(E.token)
       THEN /\ E.what # "ready"
            /\ app' = TellsBinding(E.what)
            /\ Dispatched(Followups(E.what))
       ELSE app' = app /\ Dispatched(<<>>)
    /\ UNCHANGED <<scopeVars, dpc, taskVars, ioq, acceptorVars, peerVars, probeVars, life,
                   exposed, told, left>>

\* The one that calls verify_peer_, and announces the peer or has it closed.
NotifyReady(answer) ==
    /\ Dispatching("note") /\ IsCurrent(E.token) /\ E.what = "ready"
    /\ IF answer = "verified"
       THEN /\ exposed' = exposed \cup {E.who}
            /\ told' = [told EXCEPT ![E.who] = "connected"]
            /\ ioq' = ioq
       ELSE Post(<<About("closePeer", E.who)>>) /\ UNCHANGED <<exposed, told>>
    /\ Dispatched(<<>>)
    /\ UNCHANGED <<scopeVars, dpc, taskVars, acceptorVars, peerVars, probeVars, life, app, left>>

\* enqueue_peer_closed() of the slot: needed when nobody called close_peer().
ReportOfClosed == <<Entry("peerClosed", E.who, 0, "slot")>>

\* The slots of a peer and of a probe run on the dispatcher thread.  async_shutdown's
\* handler disconnects them.
DispatchSignal ==
    /\ Dispatching("signal")
    /\ LET k == E.who
           ofProbe(op) == IF IsCurrent(probes[k].token) THEN <<About(op, k)>> ELSE <<>>
       IN IF life # "live" THEN Post(<<>>) /\ Dispatched(<<>>)
          ELSE CASE E.what = "ready" -> /\ Dispatched(<<Note("ready", k, session[k])>>)
                                        /\ Post(<<>>)
                 [] E.what = "closed" -> /\ Dispatched(ReportOfClosed)
                                         /\ Post(<<About("erase", k)>>)
                 [] E.what \in {"report", "late"} -> /\ Dispatched(<<Entry("report", k, 0, E.what)>>)
                                                    /\ Post(<<>>)
                 [] E.what = "answer" -> Post(ofProbe("probeAnswer")) /\ Dispatched(<<>>)
                 [] E.what = "failed" -> Post(ofProbe("probeFailed")) /\ Dispatched(<<>>)
    /\ UNCHANGED <<scopeVars, dpc, taskVars, acceptorVars, peerVars, probeVars, life, appVars, left>>

\* The entry of received, request_received or peer_error_occurred, which checks
\* exposed_peer_ids_ and tells the application.
Report ==
    /\ Dispatching("report")
    /\ Dispatched(<<>>)
    /\ UNCHANGED <<scopeVars, dpc, taskVars, ioq, acceptorVars, peerVars, probeVars, life, appVars, left>>

\* Faulty: an id that was not exposed is reported as well.
OverAlways(id) == TRUE

\* The entry of enqueue_peer_closed() erased the id.
Over(id) == id \in exposed

PeerClosed ==
    /\ Dispatching("peerClosed")
    /\ told' = [told EXCEPT ![E.who] = IF Over(E.who) THEN "closed"
                                       ELSE IF @ = "accepted" THEN "over" ELSE @]
    /\ exposed' = exposed \ {E.who}
    /\ Dispatched(<<>>)
    /\ UNCHANGED <<scopeVars, dpc, taskVars, ioq, acceptorVars, peerVars, probeVars, life, app, left>>

-----------------------------------------------------------------------------
\* bind_retry_task_ and socket_path_health_check_timer_.

\* cancel() and debounce_after() each enqueue an entry; schedule_bind_retry()
\* enqueues one only while the scope is running.
Debounce ==
    /\ dpc = "idle" /\ dq # <<>> /\ E.op \in {"cancel", "debounce"}
    /\ retry' = (E.op = "debounce")
    /\ Dispatched(<<>>)
    /\ UNCHANGED <<scopeVars, dpc, watch, ioq, acceptorVars, peerVars, probeVars, life, appVars, left>>

\* The delayed entry, which immediate entries always precede.
Retry ==
    /\ dpc = "idle" /\ dq = <<>> /\ retry
    /\ retry' = FALSE
    /\ Post(IF running THEN <<With("bind", generation)>> ELSE <<>>)
    /\ UNCHANGED <<scopeVars, dpc, dq, watch, acceptorVars, peerVars, probeVars, life, appVars, left>>

\* timer::start() calls the function at once and then every interval.
Timer ==
    /\ dpc = "idle" /\ dq # <<>> /\ E.op \in {"timerStart", "timerStop"}
    /\ watch' = (E.op = "timerStart")
    /\ Dispatched(IF E.op = "timerStart" THEN <<Do("check")>> ELSE <<>>)
    /\ UNCHANGED <<scopeVars, dpc, retry, ioq, acceptorVars, peerVars, probeVars, life, appVars, left>>

\* The interval is over.  A check during a probe does nothing.
WatchFires ==
    /\ dpc = "idle" /\ dq = <<>> /\ watch
    /\ probe = None /\ left.checks > 0 /\ \A t \in ToSet(ioq) : t.op # "probe"
    /\ Enqueue(<<Do("check")>>)
    /\ UNCHANGED <<scopeVars, dpc, taskVars, ioq, acceptorVars, peerVars, probeVars, life, appVars, left>>

\* socket_path_health_check().
Check ==
    /\ Dispatching("check")
    /\ Post(<<With("probe", generation)>>)
    /\ Dispatched(<<>>)
    /\ UNCHANGED <<scopeVars, dpc, taskVars, acceptorVars, peerVars, probeVars, life, appVars, left>>

\* async_shutdown(): the dispatcher erases the entries of the state and refuses
\* new ones (a peer's signals are its own), then the function runs, and the
\* handler is posted.
Detach ==
    /\ dpc = "idle" /\ attached
    /\ Spend("calls")
    /\ attached' = FALSE
    /\ dq' = Selected(dq, {i \in DOMAIN dq : dq[i].op = "signal"})
    /\ retry' = FALSE /\ watch' = FALSE
    /\ dpc' = "shutdown"
    /\ UNCHANGED <<running, generation, ioq, acceptorVars, peerVars, probeVars, life, appVars>>

PostShutdown ==
    /\ dpc = "shutdown"
    /\ dpc' = "idle"
    /\ SessionEnded
    /\ Post(<<Do("shutdown")>>)
    /\ UNCHANGED <<attached, dq, taskVars, acceptorVars, peerVars, probeVars, life, left>>

-----------------------------------------------------------------------------
\* The I/O thread: the acceptor.

\* What only the dispatcher thread and the application write.
DispatcherUnchanged == UNCHANGED <<scopeVars, dpc, taskVars, appVars>>
IoUnchanged == DispatcherUnchanged /\ left' = left

\* Faulty: the accepts are not cancelled.
CloseAcceptorOnly == acceptor' = FALSE /\ accepting' = accepting

\* close_acceptor(): the accepts under way are aborted, which its handler ignores.
\* What becomes of the socket file is in SocketPath.tla.
CloseAcceptor == acceptor' = FALSE /\ accepting' = <<>>

\* Faulty: a second bind replaces the acceptor.
MayBindAgain == Locked /\ IsCurrent(H.token)

MayBind == Locked /\ IsCurrent(H.token) /\ ~acceptor

\* The handler of bind().  A failure to open, bind or listen closes what there
\* is; a bound acceptor starts to accept.
Bind(outcome) ==
    /\ Running("bind")
    /\ Posting(<<>>)
    /\ \/ ~MayBind /\ outcome = "ignored" /\ UNCHANGED <<acceptorVars, dq>>
       \/ /\ MayBind /\ outcome = "bound"
          /\ acceptor' = TRUE /\ accepting' = <<H.token>>
          /\ Enqueue(<<Note("bound", None, H.token)>>)
       \/ /\ MayBind /\ outcome = "bind_failed"
          /\ CloseAcceptor
          /\ Enqueue(<<Note("bind_failed", None, H.token)>>)
    /\ Fault(outcome = "bind_failed")
    /\ UNCHANGED <<peerVars, probeVars, life>> /\ DispatcherUnchanged

\* async_accept completes and its handler is queued.
AcceptCompletes(outcome) ==
    /\ accepting # <<>>
    /\ accepting' = Tail(accepting)
    /\ Post(<<Entry("accepted", None, Head(accepting), outcome)>>)
    /\ IF outcome = "ok" THEN Spend("accepts") ELSE Spend("faults")
    /\ UNCHANGED <<dq, acceptor, peerVars, probeVars, life>> /\ DispatcherUnchanged

\* Its handler, with handle_accepted_socket() and the next accept(), on whatever
\* acceptor there is then.  A socket of an earlier session is closed.
Accepted ==
    /\ Running("accepted")
    /\ Posting(<<>>)
    /\ UNCHANGED <<probeVars, life>>
    /\ \/ ~IsCurrent(H.token) /\ UNCHANGED <<dq, acceptorVars, peerVars, appVars>>
       \/ /\ IsCurrent(H.token) /\ H.what = "error"
          /\ CloseAcceptor
          /\ Enqueue(<<Note("closed", None, H.token)>>)
          /\ UNCHANGED <<peerVars, appVars>>
       \/ /\ IsCurrent(H.token) /\ H.what = "ok"
          /\ next + 1 \in Peers   \* bound: follows from that on accepts
          /\ next' = next + 1
          /\ peers' = peers \cup {next + 1}
          /\ sock' = [sock EXCEPT ![next + 1] = "open"]
          /\ session' = [session EXCEPT ![next + 1] = H.token]
          /\ told' = [told EXCEPT ![next + 1] = "accepted"]
          /\ accepting' = IF acceptor THEN Append(accepting, H.token) ELSE <<>>
          /\ UNCHANGED <<dq, acceptor, ready, exposed, app>>
    /\ UNCHANGED <<scopeVars, dpc, taskVars, left>>

-----------------------------------------------------------------------------
\* The I/O thread: peers.

\* The first frame, or ready_deadline_, announces the peer on the dispatcher.
PeerReady(id) ==
    /\ sock[id] = "open" \/ (LateReady /\ sock[id] = "closed")
    /\ id \notin ready
    /\ ready' = ready \cup {id}
    /\ dq' = Append(dq, Signal("ready", id))
    /\ UNCHANGED <<ioq, acceptorVars, next, peers, sock, session, probeVars, life>> /\ IoUnchanged

\* A frame arrives: received or request_received, after ready.  What completed or
\* expired before the socket was closed is handled after it all the same, with a
\* message or with error_occurred: it is "late" here, which the code does not know.
PeerReports(id) ==
    /\ sock[id] = "closed" \/ (sock[id] = "open" /\ id \in ready)
    /\ dq' = Append(dq, Signal(IF sock[id] = "open" THEN "report" ELSE "late", id))
    /\ Spend("reports")
    /\ UNCHANGED <<ioq, acceptorVars, peerVars, probeVars, life>> /\ DispatcherUnchanged

\* Faulty: closed comes before error_occurred.
LastWordsSwapped(id) == <<Signal("closed", id), Signal("report", id)>>

\* handle_error()
LastWords(id) == <<Signal("report", id), Signal("closed", id)>>

\* The remote end closes, or the peer closes itself, with an error or without.
PeerEnds(id, failed) ==
    /\ sock[id] = "open"
    /\ sock' = [sock EXCEPT ![id] = "closed"]
    /\ IF failed THEN dq' = dq \o LastWords(id) /\ Spend("reports")
       ELSE dq' = Append(dq, Signal("closed", id)) /\ left' = left
    /\ UNCHANGED <<ioq, acceptorVars, next, peers, ready, session, probeVars, life>>
    /\ DispatcherUnchanged

\* The handler of the closed slot.
Erase ==
    /\ Running("erase")
    /\ peers' = IF Locked THEN peers \ {H.who} ELSE peers
    /\ Posting(<<>>)
    /\ UNCHANGED <<dq, acceptorVars, next, sock, ready, session, probeVars, life>> /\ IoUnchanged

\* Faulty: peer_closed is queued at once, before the socket is closed.
CloseReported(id) ==
    Enqueue(<<About("peerClosed", id)>>) /\ Posting(<<Entry("peerClose", id, 0, "")>>)

\* Faulty: peer_closed is not queued at all.
CloseUnreported(id) == dq' = dq /\ Posting(<<Entry("peerClose", id, 0, "")>>)

\* async_close(), with the completion that reports the peer.
AsyncClose(id) == dq' = dq /\ Posting(<<Entry("peerClose", id, 0, "notify")>>)

\* close_peer().
ClosePeer ==
    /\ Running("closePeer")
    /\ IF Locked /\ H.who \in peers
       THEN AsyncClose(H.who) /\ peers' = peers \ {H.who}
       ELSE Posting(<<>>) /\ UNCHANGED <<peers, dq>>
    /\ UNCHANGED <<acceptorVars, next, sock, ready, session, probeVars, life>> /\ IoUnchanged

\* peer::async_close: close(), then the completion.
RunPeerClose ==
    /\ Running("peerClose")
    /\ LET id == H.who
           notified == H.what = "notify" /\ Locked /\ attached
       IN /\ sock' = [sock EXCEPT ![id] = "closed"]
          /\ dq' = dq \o (IF sock[id] = "open" THEN <<Signal("closed", id)>> ELSE <<>>)
                      \o (IF notified THEN <<About("peerClosed", id)>> ELSE <<>>)
    /\ Posting(<<>>)
    /\ UNCHANGED <<acceptorVars, next, peers, ready, session, probeVars, life>> /\ IoUnchanged

\* The last reference to a closed peer goes, and its entries with it.
Release(id) ==
    /\ sock[id] = "closed" /\ id \notin peers
    /\ \A t \in ToSet(ioq) : t.op \in {"peerClose"} => t.who # id
    /\ sock' = [sock EXCEPT ![id] = "gone"]
    /\ dq' = Selected(dq, {i \in DOMAIN dq : ~(dq[i].op = "signal" /\ dq[i].who = id)})
    /\ UNCHANGED <<ioq, acceptorVars, next, peers, ready, session, probeVars, life>> /\ IoUnchanged

-----------------------------------------------------------------------------
\* The I/O thread: the check of the socket path.

\* Faulty: any probe of the session is the current one.
CurrentSession(k) == IsCurrent(probes[k].token) /\ probe # None

\* is_current_socket_path_health_check().
Current(k) == IsCurrent(probes[k].token) /\ probe = k

TimerOff(f) == IF probe = None THEN f ELSE [f EXCEPT ![probe].timer = FALSE]

\* Faulty: the connection of the probe is forgotten open.
ProbeForgotten == <<>>

ProbeClosed == IF probePeer = None THEN <<>> ELSE <<About("probeClose", probePeer)>>

\* close_socket_path_health_check_peer(), where `f' is what else happens to probes.
CloseProbe(f) == probe' = None /\ probePeer' = None /\ probes' = TimerOff(f)

\* handle_socket_path_health_check_failed().
HandleFailed(k, f) ==
    IF Current(k)
    THEN /\ CloseProbe(f) /\ Posting(ProbeClosed)
         /\ CloseAcceptor
         /\ Enqueue(<<Note("closed", None, probes[k].token)>>)
    ELSE Posting(<<>>) /\ probes' = f /\ UNCHANGED <<probe, probePeer, acceptorVars, dq>>

MayProbe == Locked /\ IsCurrent(H.token) /\ acceptor /\ probe = None /\ left.checks > 0

ProbeIgnored ==
    /\ Running("probe") /\ ~MayProbe
    /\ Posting(<<>>)
    /\ UNCHANGED <<dq, acceptorVars, peerVars, probeVars, life>> /\ IoUnchanged

\* A fresh connection, with the timer that is its identity.  The path is valid:
\* the same path was bound.
ProbeBegins(k) ==
    /\ Running("probe") /\ MayProbe
    /\ probes[k].state = "free"
    /\ probe' = k
    /\ probes' = [probes EXCEPT ![k] = [state |-> "connecting", timer |-> TRUE, token |-> H.token]]
    /\ Posting(<<>>)
    /\ Spend("checks")
    /\ UNCHANGED <<dq, acceptorVars, peerVars, probePeer, life>> /\ DispatcherUnchanged

\* Its connect completes, with an error if the timer has closed the socket.
ProbeConnects(k, outcome) ==
    /\ probes[k].state = "connecting"
    /\ probes' = [probes EXCEPT ![k].state = "connected"]
    /\ Post(<<Entry("probeConnected", k, probes[k].token, outcome)>>)
    /\ Fault(probes[k].timer /\ outcome = "failed")
    /\ UNCHANGED <<dq, acceptorVars, peerVars, probe, probePeer, life>> /\ DispatcherUnchanged

\* The completion handler of async_connect.
ProbeConnected ==
    /\ Running("probeConnected")
    /\ LET k == H.who
           closed == [probes EXCEPT ![k].state = "closed", ![k].timer = FALSE]
       IN IF Current(k) /\ H.what = "ok"
          THEN /\ probePeer' = k
               /\ probes' = [probes EXCEPT ![k].state = "open"]
               /\ Posting(<<>>)
               /\ UNCHANGED <<dq, acceptorVars, probe>>
          ELSE HandleFailed(k, closed)
    /\ UNCHANGED <<peerVars, life>> /\ IoUnchanged

\* socket_path_health_check_timeout: the wait handler is queued.
ProbeTimerExpires(k) ==
    /\ probes[k].timer
    /\ probes' = [probes EXCEPT ![k].timer = FALSE]
    /\ Post(<<About("probeTimeout", k)>>)
    /\ Fault(TRUE)
    /\ UNCHANGED <<dq, acceptorVars, peerVars, probe, probePeer, life>> /\ DispatcherUnchanged

\* That handler, and the one of the error and closed slots.
ProbeFailed ==
    /\ ioq # <<>> /\ H.op \in {"probeTimeout", "probeFailed"}
    /\ IF Locked THEN HandleFailed(H.who, probes)
       ELSE Posting(<<>>) /\ UNCHANGED <<dq, acceptorVars, probeVars>>
    /\ UNCHANGED <<peerVars, life>> /\ IoUnchanged

\* The response is there: the probe is over.
ProbeAnswered ==
    /\ Running("probeAnswer")
    /\ IF Locked /\ Current(H.who) THEN CloseProbe(probes) /\ Posting(ProbeClosed)
       ELSE Posting(<<>>) /\ UNCHANGED probeVars
    /\ UNCHANGED <<dq, acceptorVars, peerVars, life>> /\ IoUnchanged

\* The peer of a probe receives the response ...
ProbeAnswers(k) ==
    /\ probes[k].state = "open"
    /\ probes' = [probes EXCEPT ![k].state = "answered"]
    /\ dq' = Append(dq, Signal("answer", k))
    /\ UNCHANGED <<ioq, acceptorVars, peerVars, probe, probePeer, life>> /\ IoUnchanged

\* The state of a probe's peer once its socket is closed.
Ended(state) == CASE state = "open" -> "closed" [] state = "answered" -> "done" [] OTHER -> state

\* ... or closes: the remote end did, or an error.  The slots of error_occurred
\* and closed do the same, and what an expiry handled later adds to them is one
\* more of their handlers, behind the one that ends the probe.
ProbeEnds(k) ==
    /\ probes[k].state \in {"open", "answered"}
    /\ probes' = [probes EXCEPT ![k].state = Ended(@)]
    /\ dq' = Append(dq, Signal("failed", k))
    /\ Fault(probes[k].state = "open")
    /\ UNCHANGED <<ioq, acceptorVars, peerVars, probe, probePeer, life>> /\ DispatcherUnchanged

RunProbeClose ==
    /\ Running("probeClose")
    /\ probes' = [probes EXCEPT ![H.who].state = Ended(@)]
    /\ dq' = IF probes[H.who].state \in {"open", "answered"}
             THEN Append(dq, Signal("failed", H.who)) ELSE dq
    /\ Posting(<<>>)
    /\ UNCHANGED <<acceptorVars, peerVars, probe, probePeer, life>> /\ IoUnchanged

ReleaseProbe(k) ==
    /\ probes[k].state \in {"closed", "done"} /\ ~probes[k].timer /\ k \notin {probe, probePeer}
    /\ \A t \in ToSet(ioq) : t.who # k
    /\ probes' = [probes EXCEPT ![k].state = "free", ![k].token = 0]
    /\ dq' = Selected(dq, {i \in DOMAIN dq : dq[i].who # k})
    /\ UNCHANGED <<ioq, acceptorVars, peerVars, probe, probePeer, life>> /\ IoUnchanged

-----------------------------------------------------------------------------
\* The I/O thread: stop and shutdown.

\* close_all_peers(), in the order of an unordered_map.
AllPeersClosed ==
    LET ids == SetToSeq(peers) IN [i \in DOMAIN ids |-> About("peerClose", ids[i])]

\* close_acceptor, close_all_peers, close_socket_path_health_check_peer.
CloseEverything ==
    /\ CloseAcceptor
    /\ peers' = {}
    /\ CloseProbe(probes)
    /\ UNCHANGED <<dq, next, sock, ready, session>>

Stop ==
    /\ Running("stop")
    /\ IF Locked THEN CloseEverything /\ Posting(AllPeersClosed \o ProbeClosed)
       ELSE Posting(<<>>) /\ UNCHANGED <<dq, acceptorVars, peerVars, probeVars>>
    /\ UNCHANGED life /\ IoUnchanged

\* The handler of async_shutdown(), which posts the one that keeps the state.
Shutdown ==
    /\ Running("shutdown")
    /\ CloseEverything
    /\ Posting(AllPeersClosed \o ProbeClosed \o <<Do("keepAlive")>>)
    /\ life' = "closing"
    /\ IoUnchanged

KeepAlive ==
    /\ Running("keepAlive")
    /\ life' = "releasing"
    /\ Posting(<<>>)
    /\ UNCHANGED <<dq, acceptorVars, peerVars, probeVars>> /\ IoUnchanged

\* No handler holds the state any more.
Destroy ==
    /\ life = "releasing"
    /\ accepting = <<>>
    /\ \A k \in Probes : ~probes[k].timer /\ probes[k].state # "connecting"
    /\ \A t \in ToSet(ioq) : t.op \notin {"accepted", "probeConnected", "probeTimeout"}
    /\ life' = "destroyed"
    /\ UNCHANGED <<dq, ioq, acceptorVars, peerVars, probeVars>> /\ IoUnchanged

DispatcherStep ==
    \/ Start \/ EndSession \/ PostStop \/ Notify
    \/ \E answer \in {"verified", "refused"} : NotifyReady(answer)
    \/ DispatchSignal \/ Report \/ PeerClosed \/ Debounce \/ Timer \/ Check \/ PostShutdown

IoStep ==
    \/ \E outcome \in {"bound", "bind_failed", "ignored"} : Bind(outcome)
    \/ Accepted \/ Erase \/ ClosePeer \/ RunPeerClose
    \/ ProbeIgnored \/ \E k \in Probes : ProbeBegins(k)
    \/ ProbeConnected \/ ProbeFailed \/ ProbeAnswered \/ RunProbeClose
    \/ Stop \/ Shutdown \/ KeepAlive

Destroyed == life = "destroyed" /\ dq = <<>> /\ ioq = <<>> /\ UNCHANGED vars

Next ==
    \/ \E op \in {"start", "stop"} : Call(op)
    \/ DispatcherStep \/ Retry \/ WatchFires \/ Detach
    \/ IoStep \/ Destroy
    \/ \E outcome \in {"ok", "error"} : AcceptCompletes(outcome)
    \/ \E id \in Peers : AsyncClosePeer(id) \/ PeerReady(id) \/ PeerReports(id) \/ Release(id)
                      \/ \E failed \in BOOLEAN : PeerEnds(id, failed)
    \/ \E k \in Probes : \/ \E outcome \in {"ok", "failed"} : ProbeConnects(k, outcome)
                         \/ ProbeTimerExpires(k) \/ ProbeAnswers(k) \/ ProbeEnds(k) \/ ReleaseProbe(k)
    \/ Destroyed

Spec == Init /\ [][Next]_vars

-----------------------------------------------------------------------------
\* Properties.

Queued(op, id) == \E t \in ToSet(ioq) : t.op = op /\ t.who = id
Ending == dpc # "idle" \/ \E t \in ToSet(ioq) : t.op \in {"stop", "shutdown"}

\* The signals of a peer keep their order and their session: it is announced at
\* most once and only while it lives, reported closed only if it was announced,
\* and not spoken of after async_stop (exposed_peer_ids_ and notification_scope).
Lifecycle == INSTANCE PeerLifecycle WITH Ids <- Peers, status <- told
KeepsLifecycle == Lifecycle!Spec

\* An exposed id whose connection is gone is on its way to peer_closed: either
\* close_peer's completion or the closed slot has it in the dispatcher's queue.
\* And it is delivered only after the socket was closed
\* (server_peer_closed_follows_socket_close).
ClosedIsOnItsWay ==
    /\ \A id \in exposed :
         sock[id] = "open" \/ ~attached
         \/ \E e \in ToSet(dq) : e.who = id /\ (e.op = "peerClosed" \/ e = Signal("closed", id))
    /\ Dispatching("peerClosed") => sock[E.who] # "open"

\* What a peer reports crosses the dispatcher's queue twice, its announcement and
\* its end on ways of their own: the application is still told of everything after
\* peer_connected and, unless close_peer() cut the connection, of what was reported
\* before the socket was closed before peer_closed.  What is reported after it (a
\* body or an expiry whose handler was still queued) finds the id no longer exposed
\* and is dropped: nothing is heard of a peer that is over.
ReportsInOrder ==
    LET coming(what) == \E e \in ToSet(dq) : e.who = E.who /\ e.what = what IN
    /\ Dispatching("report") => ~coming("ready")
    /\ Dispatching("report") /\ E.what = "late" => E.who \notin exposed
    /\ Dispatching("peerClosed") /\ E.what = "slot" => ~coming("report")

\* No connection is lost between an accept, a probe, close_peer, stop and the
\* shutdown: what is open has an owner that will close it, and owners of an
\* earlier session last only until the handler of stop or shutdown.
NoLostConnection ==
    /\ \A id \in Peers :
         /\ sock[id] = "open" => id \in peers \/ Queued("peerClose", id)
         /\ id \in peers /\ ~IsCurrent(session[id]) => Ending
    /\ \A k \in Probes :
         /\ probes[k].state \in {"open", "answered"} => k = probePeer \/ Queued("probeClose", k)
         /\ probes[k].state = "connected" => Queued("probeConnected", k)
    /\ acceptor /\ ~running => Ending
    /\ probe # None /\ ~IsCurrent(probes[probe].token) => Ending

\* The application that was told bound is told closed before it hears of another
\* bind, whether that one succeeds or fails: no acceptor is replaced behind its
\* back by a bind that was retried, whether an accept or a probe failed.
BoundThenClosed ==
    Dispatching("note") /\ IsCurrent(E.token) /\ E.what \in {"bound", "bind_failed"} => ~app

\* "Late callbacks from a completed probe must not affect its successor."  A probe
\* is over, and the acceptor closed, by a verdict on that very probe: its timer
\* expired, its connect failed or its peer ended without the response.  One that
\* received the response never brings the acceptor down by what follows, the end of
\* the connection, whose slot takes the same way behind that of the response.
ProbeHandlers == {"probeConnected", "probeTimeout", "probeFailed", "probeAnswer"}
ProbeHasFailed ==
    /\ probe # None
    /\ \/ ~probes[probe].timer
       \/ probes[probe].state = "closed"
       \/ probes[probe].state = "connected" /\ H.what = "failed"
ProbeHasAnswer == probe # None /\ probes[probe].state \in {"answered", "done"}
ProbeVerdict ==
    [][ioq # <<>> /\ H.op \in ProbeHandlers
       => /\ acceptor' # acceptor => ProbeHasFailed
          /\ probe' # probe => ProbeHasFailed \/ ProbeHasAnswer]_vars

\* A running server that does not listen is about to try: no bind, accept or
\* probe that fails, and no stop before a start, leaves it idle.
AboutToBind ==
    \/ retry
    \/ \E t \in ToSet(ioq) : t.op = "bind" /\ IsCurrent(t.token)
    \/ \E e \in ToSet(dq) : \/ e.op \in {"debounce", "stop"}
                            \/ e.op = "note" /\ e.what \in {"bind_failed", "closed"}
                                             /\ IsCurrent(e.token)

\* One that listens has its path checked: the timer runs, or is about to be
\* started or stopped for a new bind.
AboutToCheck ==
    \/ watch
    \/ \E e \in ToSet(dq) : \/ e.op \in {"timerStart", "stop"}
                            \/ e.op = "note" /\ e.what = "bound" /\ IsCurrent(e.token)

\* A running server is never left idle, though its tasks are cancelled and
\* started again by notifications of both threads.
NeverIdle ==
    /\ running /\ ~acceptor /\ dpc = "idle" => AboutToBind
    /\ running /\ acceptor /\ ~Ending => AboutToCheck

=============================================================================
