--------------------------- MODULE RequestManager ---------------------------
(***************************************************************************)
(* impl/request_manager.hpp together with the calls its two owners make:   *)
(* client_state (one peer at a time, requests carry no peer id) and        *)
(* server_state (many peers, every request carries its peer's id).         *)
(*                                                                         *)
(* All of it runs on the shared I/O thread, so a handler is one action.    *)
(* What is concurrent is asio's queue of wait handlers (a timer that has   *)
(* expired cannot be cancelled any more: its handler is queued and will    *)
(* run) and the dispatcher thread, which calls the callbacks and detaches  *)
(* the owner.  Both queues are kept as the set of their entries: the order *)
(* of complete_all and complete_peer is that of an unordered_map, and      *)
(* nothing below depends on the order in which entries run.                *)
(***************************************************************************)
EXTENDS Naturals, FiniteSets

CONSTANTS Peers,              \* connections the owner may have, one after another or at once
          NoPeer,             \* peer_id_value == std::nullopt
          MaxRequests,        \* bound on next_request_id_
          SinglePeer,         \* TRUE: owned by client_state; FALSE: by server_state
          InvalidateOnError   \* common_parameters.invalidate_connection_on_request_error

ASSUME ConstantsAssumption ==
    /\ MaxRequests \in Nat
    /\ NoPeer \notin Peers
    /\ SinglePeer \in BOOLEAN
    /\ InvalidateOnError \in BOOLEAN

Ids == 1..MaxRequests

Results == {"ok", "timed_out", "connection_reset", "operation_aborted", "peer_error"}

VARIABLES
    next,        \* next_request_id_
    pending,     \* the keys of pending_requests_
    peerOf,      \* pending_request::peer_id_value
    timer,       \* the async_wait of a request's timer, see WaitStates
    result,      \* the error code a request was completed with
    queued,      \* callbacks of a request waiting in the dispatcher's queue
    delivered,   \* callbacks of a request that were called
    dropped,     \* callbacks the dispatcher discarded: the owner is detached
    open,        \* peer_ (client), the keys of peers_ (server)
    opened,      \* history: every peer there has been
    sentOn,      \* history: the peer a request was sent to
    answeredBy,  \* history: the peer whose response completed a request
    phase,       \* the owner's life, see Phases
    barrier      \* waits queued before the handler that releases the owner

requestVars == <<pending, timer, result, queued, dropped>>
vars == <<next, pending, peerOf, timer, result, queued, delivered, dropped,
          open, opened, sentOn, answeredBy, phase, barrier>>

\* "expired" and "aborted": the wait handler is queued with no error or with
\* operation_aborted.
WaitStates == {"none", "armed", "expired", "aborted", "done"}
Phases == {"live", "detached", "closed", "destroyed"}

\* The handler of these waits has not run; it holds a raw pointer to the manager.
WaitsOutstanding == {i \in Ids : timer[i] \in {"armed", "expired", "aborted"}}

TypeOK ==
    /\ next \in 0..MaxRequests
    /\ pending \subseteq Ids
    /\ peerOf \in [Ids -> Peers \cup {NoPeer}]
    /\ timer \in [Ids -> WaitStates]
    /\ result \in [Ids -> Results \cup {"none"}]
    /\ queued \in [Ids -> Nat]
    /\ delivered \in [Ids -> Nat]
    /\ dropped \in [Ids -> Nat]
    /\ open \subseteq Peers
    /\ opened \subseteq Peers
    /\ sentOn \in [Ids -> Peers \cup {NoPeer}]
    /\ answeredBy \in [Ids -> Peers \cup {NoPeer}]
    /\ phase \in Phases
    /\ barrier \subseteq Ids

Init ==
    /\ next = 0
    /\ pending = {}
    /\ peerOf = [i \in Ids |-> NoPeer]
    /\ timer = [i \in Ids |-> "none"]
    /\ result = [i \in Ids |-> "none"]
    /\ queued = [i \in Ids |-> 0]
    /\ delivered = [i \in Ids |-> 0]
    /\ dropped = [i \in Ids |-> 0]
    /\ open = {}
    /\ opened = {}
    /\ sentOn = [i \in Ids |-> NoPeer]
    /\ answeredBy = [i \in Ids |-> NoPeer]
    /\ phase = "live"
    /\ barrier = {}

-----------------------------------------------------------------------------
\* The manager's own operations.

\* Faulty: the id is the counter's old value; no timer is started.
AddOldId(p) ==
    /\ next' = next + 1
    /\ pending' = pending \cup {next}
    /\ UNCHANGED <<peerOf, sentOn, timer, result, queued, delivered, dropped, answeredBy>>
AddWithoutTimer(p) ==
    LET i == next + 1 IN
    /\ next' = i
    /\ pending' = pending \cup {i}
    /\ peerOf' = [peerOf EXCEPT ![i] = IF SinglePeer THEN NoPeer ELSE p]
    /\ sentOn' = [sentOn EXCEPT ![i] = p]
    /\ UNCHANGED <<timer, result, queued, delivered, dropped, answeredBy>>

\* add(): a new id, an armed timer, an entry in pending_requests_.
Add(p) ==
    LET i == next + 1 IN
    /\ next' = i
    /\ pending' = pending \cup {i}
    /\ peerOf' = [peerOf EXCEPT ![i] = IF SinglePeer THEN NoPeer ELSE p]
    /\ sentOn' = [sentOn EXCEPT ![i] = p]
    /\ timer' = [timer EXCEPT ![i] = "armed"]
    /\ UNCHANGED <<result, queued, delivered, dropped, answeredBy>>

\* Faulty: a completed entry stays in pending_requests_.
CompleteInPlace(res, ran) ==
    /\ pending' = pending
    /\ result' = [i \in Ids |-> IF i \in DOMAIN res THEN res[i] ELSE result[i]]
    /\ timer' = [i \in Ids |-> IF i \in ran THEN "done" ELSE timer[i]]
    /\ queued' = [i \in Ids |-> queued[i] + IF i \in DOMAIN res THEN 1 ELSE 0]
    /\ dropped' = dropped

\* complete_request() for every id in the domain of `res': the entry is gone,
\* its timer is cancelled and its callback is enqueued to the dispatcher, which
\* refuses it once the owner is detached.  `ran' holds the wait whose handler
\* is the one running: cancelling its timer finds no wait to cancel.
Complete(res, ran) ==
    LET ends(i) == IF i \in DOMAIN res THEN 1 ELSE 0 IN
    /\ pending' = pending \ DOMAIN res
    /\ result' = [i \in Ids |-> IF i \in DOMAIN res THEN res[i] ELSE result[i]]
    /\ timer' = [i \in Ids |->
                   IF i \in ran THEN "done"
                   ELSE IF i \in DOMAIN res /\ timer[i] = "armed" THEN "aborted"
                   ELSE timer[i]]
    /\ IF phase = "live"
       THEN /\ queued' = [i \in Ids |-> queued[i] + ends(i)]
            /\ dropped' = dropped
       ELSE /\ dropped' = [i \in Ids |-> dropped[i] + ends(i)]
            /\ queued' = queued

With(ids, error) == [i \in ids |-> error]

\* Faulty: the peer is not compared.
AnswersAnyPeer(p, id) == {i \in pending : i = id}

\* The entries a response frame (id) of peer p completes: the client looks the
\* id up, the server also compares the peer.
Answers(p, id) == {i \in pending : i = id /\ (SinglePeer \/ peerOf[i] = p)}

\* complete_peer(p): the pending requests of one peer.
OfPeer(p) == {i \in pending : peerOf[i] = p}

-----------------------------------------------------------------------------
\* The owners' handlers that use it.

\* handle_connected_socket() / handle_accepted_socket() installs a new peer.
OpenPeer(p) ==
    /\ phase = "live"
    /\ p \notin opened
    /\ SinglePeer => open = {}
    /\ open' = open \cup {p}
    /\ opened' = opened \cup {p}
    /\ UNCHANGED <<requestVars, next, peerOf, delivered, sentOn, answeredBy, phase, barrier>>

\* send_request() on a peer the owner still has.
SendRequest(p) ==
    /\ next < MaxRequests
    /\ p \in open
    /\ Add(p)
    /\ UNCHANGED <<open, opened, phase, barrier>>

\* response_received: the owner still has the peer; the id is whatever the
\* remote end put into its frame.
ResponseReceived(p, id) ==
    /\ p \in open
    /\ Complete(With(Answers(p, id), "ok"), {})
    /\ answeredBy' = [i \in Ids |-> IF i \in Answers(p, id) THEN p ELSE answeredBy[i]]
    /\ UNCHANGED <<next, peerOf, delivered, open, opened, sentOn, phase, barrier>>

\* error_occurred: the client ignores a peer it no longer has, the server
\* completes the requests of that id whatever peers_ holds.
PeerError(p) ==
    /\ phase # "destroyed"
    /\ p \in (IF SinglePeer THEN open ELSE opened)
    /\ Complete(With(IF SinglePeer THEN pending ELSE OfPeer(p), "peer_error"), {})
    /\ UNCHANGED <<next, peerOf, delivered, open, opened, sentOn, answeredBy, phase, barrier>>

\* Faulty: none does.
NoVictims(ps) == {}

\* The requests that end when the owner gives up the peers ps.
Victims(ps) ==
    IF ps = {} THEN {} ELSE IF SinglePeer THEN pending ELSE UNION {OfPeer(p) : p \in ps}

GiveUp(ps, ids, error) ==
    /\ Complete(With(ids, error), {})
    /\ open' = open \ ps
    /\ UNCHANGED <<next, peerOf, delivered, opened, sentOn, answeredBy>>

\* closed: the remote end went away or the peer closed itself on an error.
PeerClosed(p) ==
    /\ phase # "destroyed"
    /\ p \in (IF SinglePeer THEN open ELSE opened)
    /\ GiveUp({p}, Victims({p}), "connection_reset")
    /\ UNCHANGED <<phase, barrier>>

\* server_state::close_peer(): async_close_peer, or a peer that failed verification.
ClosePeer(p) ==
    /\ ~SinglePeer
    /\ p \in open
    /\ GiveUp({p}, OfPeer(p), "operation_aborted")
    /\ UNCHANGED <<phase, barrier>>

\* close_all_peers() of the server; close_peer() of the client, which does
\* nothing without a peer.
GiveUpAll ==
    GiveUp(open, IF SinglePeer /\ open = {} THEN {} ELSE pending, "operation_aborted")

\* stop(), and the client's invalidate_connection().
CloseAll ==
    /\ phase # "destroyed"
    /\ GiveUpAll
    /\ UNCHANGED <<phase, barrier>>

-----------------------------------------------------------------------------
\* asio and the dispatcher.

\* Time passes: the wait handler is queued, and cancel() comes too late for it.
TimerExpires(i) ==
    /\ timer[i] = "armed"
    /\ timer' = [timer EXCEPT ![i] = "expired"]
    /\ UNCHANGED <<next, pending, peerOf, result, queued, delivered, dropped,
                   open, opened, sentOn, answeredBy, phase, barrier>>

\* The peers a timeout callback closes.
Invalidated(i) ==
    IF ~InvalidateOnError THEN {} ELSE IF SinglePeer THEN open ELSE open \cap {peerOf[i]}

\* Faulty: it is not tested that the request is still pending.
RunWaitUnchecked(i) ==
    /\ timer[i] = "expired"
    /\ Complete([j \in (pending \cap {i}) \cup Victims(Invalidated(i)) |->
                   IF j = i THEN "timed_out" ELSE "operation_aborted"], {i})
    /\ open' = open \ Invalidated(i)
    /\ UNCHANGED <<next, peerOf, delivered, opened, sentOn, answeredBy, phase, barrier>>

\* The wait handler with no error: a request that is still pending ends with
\* timed_out, and then its timeout callback may close the peer it was sent to,
\* which ends that peer's other requests.
RunWait(i) ==
    LET times == i \in pending
        lost == IF times THEN Invalidated(i) ELSE {}
        ends == IF times THEN {i} \cup Victims(lost) ELSE {}
        error == IF SinglePeer THEN "connection_reset" ELSE "operation_aborted"
    IN
    /\ timer[i] = "expired"
    /\ Complete([j \in ends |-> IF j = i THEN "timed_out" ELSE error], {i})
    /\ open' = open \ lost
    /\ UNCHANGED <<next, peerOf, delivered, opened, sentOn, answeredBy, phase, barrier>>

\* The wait handler with operation_aborted does nothing.
RunAborted(i) ==
    /\ timer[i] = "aborted"
    /\ timer' = [timer EXCEPT ![i] = "done"]
    /\ UNCHANGED <<next, pending, peerOf, result, queued, delivered, dropped,
                   open, opened, sentOn, answeredBy, phase, barrier>>

\* The dispatcher thread runs a queued callback.
Deliver(i) ==
    /\ queued[i] > 0
    /\ queued' = [queued EXCEPT ![i] = @ - 1]
    /\ delivered' = [delivered EXCEPT ![i] = @ + 1]
    /\ UNCHANGED <<next, pending, peerOf, timer, result, dropped, open, opened,
                   sentOn, answeredBy, phase, barrier>>

-----------------------------------------------------------------------------
\* The end of the owner: async_shutdown().

\* Faulty: the entries stay in the dispatcher's queue.
DetachWithoutErase ==
    /\ phase = "live"
    /\ phase' = "detached"
    /\ UNCHANGED <<requestVars, next, peerOf, delivered, open, opened, sentOn, answeredBy, barrier>>

\* detach_from_dispatcher() erases the owner's entries and refuses new ones.
Detach ==
    /\ phase = "live"
    /\ phase' = "detached"
    /\ dropped' = [i \in Ids |-> dropped[i] + queued[i]]
    /\ queued' = [i \in Ids |-> 0]
    /\ UNCHANGED <<next, pending, peerOf, timer, result, delivered, open, opened,
                   sentOn, answeredBy, barrier>>

\* The posted handler closes every peer; the handlers it posts and cancels are
\* queued in front of the one that holds the last reference to the owner.
ShutdownClose ==
    /\ phase = "detached"
    /\ phase' = "closed"
    /\ GiveUpAll
    /\ barrier' = {i \in Ids : timer'[i] \in {"expired", "aborted"}}

\* Faulty: ShutdownClose's own handler holds the last reference.
DestroyAtOnce ==
    /\ phase = "closed"
    /\ phase' = "destroyed"
    /\ UNCHANGED <<requestVars, next, peerOf, delivered, open, opened, sentOn, answeredBy, barrier>>

\* That handler runs: everything queued in front of it has run.
Destroy ==
    /\ phase = "closed"
    /\ \A i \in barrier : timer[i] = "done"
    /\ phase' = "destroyed"
    /\ UNCHANGED <<requestVars, next, peerOf, delivered, open, opened, sentOn, answeredBy, barrier>>

\* The end.
Destroyed == phase = "destroyed" /\ UNCHANGED vars

Next ==
    \/ \E p \in Peers : OpenPeer(p) \/ SendRequest(p) \/ PeerError(p) \/ PeerClosed(p)
                       \/ ClosePeer(p)
    \/ \E p \in Peers, id \in Ids : ResponseReceived(p, id)
    \/ CloseAll
    \/ \E i \in Ids : TimerExpires(i) \/ RunWait(i) \/ RunAborted(i) \/ Deliver(i)
    \/ Detach \/ ShutdownClose \/ Destroy \/ Destroyed

Safety == Init /\ [][Next]_vars

\* Time passes, and the two threads keep running what is queued on them.
Fairness ==
    /\ \A i \in Ids : /\ WF_vars(TimerExpires(i))
                      /\ WF_vars(RunWait(i))
                      /\ WF_vars(RunAborted(i))
                      /\ WF_vars(Deliver(i))
    /\ WF_vars(ShutdownClose)
    /\ WF_vars(Destroy)

Spec == Safety /\ Fairness

-----------------------------------------------------------------------------
\* Properties.

\* Every request that was ever added is in exactly one place: in
\* pending_requests_, in the dispatcher's queue, called back, or discarded with
\* its owner (request_manager.hpp, add and complete_request).  So no callback is
\* called twice and none is lost, whatever response, timer, close and shutdown race.
ExactlyOnce ==
    \A i \in Ids :
        queued[i] + delivered[i] + dropped[i] + (IF i \in pending THEN 1 ELSE 0)
            = IF i <= next THEN 1 ELSE 0

\* A pending request was sent to a peer the owner still has, so the response or
\* the closing of that peer can still complete it.  It is also why the client
\* may look a response up by its id alone (request_manager.hpp, the two complete()).
PendingOnOpenPeer == \A i \in pending : sentOn[i] \in open

\* A successful result came from the peer the request was sent to, even when
\* another peer answers with this id (server_state's response_received).
AnsweredByItsPeer == \A i \in Ids : result[i] = "ok" => answeredBy[i] = sentOn[i]

\* No wait handler is left when the owner, and the manager in it, is destroyed:
\* they capture a raw pointer (add(), and the last post of async_shutdown()).
NoDanglingWait == phase = "destroyed" => WaitsOutstanding = {}

\* The handler of a wait that expired takes a connection down only when its own
\* request is the one that timed out ("Only a request that is still pending may
\* trigger timeout side effects").
TimeoutClosesOnlyItsOwn ==
    [][\A i \in Ids :
         timer[i] = "expired" /\ timer'[i] = "done" /\ open' # open
            => i \in pending /\ result'[i] = "timed_out" /\ sentOn[i] \in open \ open']_vars

\* The manager keeps the promise of async_request.
StatusOf(i) ==
    IF i > next THEN "idle"
    ELSE IF delivered[i] = 1 THEN result[i]
    ELSE IF dropped[i] = 1 THEN "dropped"
    ELSE "outstanding"

Contract == INSTANCE RequestContract
    WITH Requests <- Ids, status <- [i \in Ids |-> StatusOf(i)], alive <- (phase = "live")

\* Each step of the manager and its owner is a step of RequestContract: one
\* callback per request, with one result, and none after the owner detached.
KeepsContract == Contract!Safety

\* Every request that was issued is answered or dropped: its timer alone sees to that.
EveryRequestEnds == Contract!Answered

=============================================================================
