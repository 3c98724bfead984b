# TLA+ models of cpp-unix_domain_stream

Specifications of the concurrent core of `pqrs::unix_domain_stream`: a client and a
server that exchange framed messages and requests over unix domain sockets, with
heartbeats, reconnection, and a periodic check of the server's socket path. TLC checks
the modules on small instances. TLAPS proves, for every value of the constants, the
request manager's invariants and refinement, who owns a socket file, what the frame checks
let through, how a peer's reads, writes, deadlines and events follow one another, what a client
keeps and tells the application, and the invariants of the server with the refinement that
says what it reports of its peers.

Paths below are relative to `src/include/pqrs/unix_domain_stream/`.

## The system

Three kinds of threads run it. Callers may call the `async_*` methods from anywhere.
The **dispatcher thread** runs entries of a FIFO queue (immediate entries before delayed
ones); it owns every callback and signal the application sees. One process-wide **I/O
thread** (`impl/runtime.hpp`) runs asio handlers, FIFO as well; it owns sockets, timers
and the request manager. Objects hand work from one to the other by
`enqueue_to_dispatcher` and `asio::post`, so nearly every operation is several steps with
other steps in between. Two facts about asio shape the models: a timer that has expired
cannot be cancelled any more, its handler is queued and runs without an error; and an
operation that has completed runs its handler after a `close()` queued before it.

| component | state | operations | talks to |
|---|---|---|---|
| request manager (`impl/request_manager.hpp`) | pending requests, next id, one timer each | add, complete (by id; by peer and id), complete_peer, complete_all | its owner's dispatcher client for callbacks |
| client (`client.hpp`) | `connecting_socket_`, `peer_`, reconnect task, request manager | start, stop, invalidate_connection, send, respond, request, shutdown | notification scope, peer, dispatcher, I/O thread |
| notification scope (`impl/notification_scope.hpp`) | atomics `running_`, `generation_` | start, stop, invalidate, capture, is_current, enqueue | written on the dispatcher thread, read on both |
| peer (`impl/peer.hpp`) | socket, 5 timers, read buffers, write queue, `ready_`, `close_after_write_` | start, close, send*, and the handlers of reads, writes, timers | signals to its owner on the dispatcher |
| server (`server.hpp`) | acceptor, `peers_`, `exposed_peer_ids_`, bind retry, health check | start, stop, send, respond, request, close_peer, shutdown | peers, runtime, request manager |
| runtime (`impl/runtime.hpp`) | the I/O thread, owners of socket files | set owner, remove, remove_if_owned | servers |
| protocol (`impl/protocol.hpp`) | none | encode and decode frames | peer |
| dispatcher, debounced_task, timer (vendored) | queue, attached objects | enqueue, detach | everything |
| options, types, credentials, asio_helper | none | values and one system call each | |

What makes them correct, and what is hard about it:

* **Requests.** Each callback runs exactly once while its owner exists, with the result
  of the right peer, whatever response, expiry, error, close, stop and destruction race.
* **Client.** What the application is told is a sequence connected, data, closed, of one
  connection at a time, across stop, restart and invalidate that take effect on the
  two threads at different times; no socket is lost when the kernel or `verify_peer_`
  answers late; a running client never stops trying; destruction completes.
* **Peer.** `ready` before data, `closed` once; one read and one write at a time; a
  frame never stays in the queue; deadlines always guard what waits; nothing keeps a
  closed peer alive; a health check's connection is answered and stays invisible.
* **Server.** Exposed peers agree with `peers_` in the end; `peer_closed` once; a stale
  health check, accept or bind never touches a later session; the socket file is removed
  only by the server that bound it last.

The hazards, each at its line and with the properties that cover it, are listed in
`PROJECT.json`.

## Modules

| module | models | what it is for |
|---|---|---|
| `RequestContract` | what `async_request` promises | abstract: a request is idle, outstanding, has one result, or is dropped with its owner |
| `RequestManager` | `impl/request_manager.hpp` with the calls of both owners | implements `RequestContract` |
| `RequestManagerProofs` | | the inductive invariant, the safety theorems, the refinement |
| `Queues`, `QueueProofs` | the entries a `detach` leaves in the dispatcher's queue | the words of the invariants about the order of a queue, and the lemmas about taking, sending and erasing |
| `Client` | `client_state`, its notification scope and reconnect task, on two threads | the sessions of one client |
| `ClientProofs` | | the invariant of the client; what the application is told of its connections |
| `PeerLifecycle` | what `peer_connected` and `peer_closed` promise of an id | abstract: accepted, connected, closed, or not spoken of |
| `Server`, `MCServer` | `server_state` with its acceptor, peers, bind retry and health check, on two threads | implements `PeerLifecycle`; `MCServer` holds the bounds |
| `ServerProofs`, `ServerStoryProofs` | | the invariant of the server; what the application is told of its peers |
| `SocketPath`, `SocketPathProofs` | `impl/runtime.hpp` and its callers in several servers of a process | who may remove a socket file, and that a server takes its path back |
| `Protocol`, `ProtocolProofs` | the lengths in `impl/protocol.hpp` and the checks of both ends | wrap-around of lengths and limits |
| `Peer`, `MCPeer`, `PeerProofs` | one connection, every handler; extends `Protocol` | `MCPeer` holds the messages sent |

**RequestManager.** Everything runs on the I/O thread, so one handler is one action;
`Complete` is `complete_request` for a set of entries, with the timer cancelled if that is
still possible and the callback enqueued, or refused by the dispatcher once the owner is
detached. `timer[i]` follows the `async_wait` of a request: armed, its handler queued
without error (`expired`) or with `operation_aborted`, done. `SinglePeer` selects the
owner: the client completes by id and has one peer, the server compares the peer. The
queues are sets: the order of `complete_all` is that of an `unordered_map`, and no
property depends on the order. `barrier` is the exception: the last handler of
`async_shutdown` runs after every wait handler queued before it.

**Client.** `dq` and `ioq` are the two queues. An entry that changes the scope and then
posts is two steps (`dpc`), because the I/O thread reads the atomics in between. A
connection has one name from socket to peer, and names are used again after `Release`;
when none is free, the handler of `connect()` waits for one (a bound). Peers are sockets
that emit signals on the dispatcher; the slots forward them to the I/O thread and back
under the token of their session. `app` is a history variable: the connection the
application was last told of. Not in it: `async_send` and `async_respond`, which only
forward to the peer, a client destroyed inside one of its own slots, and
the facade class `client`.

**Peer.** The methods call one another (`read_body` may call `push_frame`, which may call
`handle_error`, which calls `close`), so each is an operator from the peer's record to
its next value and a handler is their composition in the order of the code. `events` is
what was enqueued to the dispatcher. Handlers that run with `operation_aborted` do nothing
and are left out. User data, requests and responses that arrive are one kind of message here,
since `read_body` treats them alike; those that are sent have a type and a size, and go
through `MakeFrame` and `ValidOutgoing` of `Protocol`. `answered` is a history variable: the
response to a health check has been written.

**Server.** The same two queues as in `Client`. What is below the server is reduced to
what it tells the server: a peer is a socket that emits `ready`, reports (frames and an error) and `closed` on the
dispatcher, a probe (a connection of the health check) one that emits an answer or a
failure. A frame or an expiry that completed before the socket was closed is handled after it
and reported after `closed` (`impl/peer.hpp:219-281`, `414-424`): such a report is marked
`late`, which no guard of the model reads. It crosses the queue like the others, is dropped
because its id is no longer exposed, and `ReportsInOrder` says so. For a probe the late
handlers would only add one more `probeFailed` behind the one that ended it, and are left out. A probe is known by its timer, as in the code, and its name may be used again once
nothing refers to it. `acceptor` and `accepting` are apart because an accept that has
completed is no longer cancelled by `close_acceptor()`: its handler goes on with whatever
acceptor there is. `told` is a history variable, and `KeepsLifecycle` maps it to
`PeerLifecycle`. `app` is another: whether the application was last told `bound`. The link
between a server's probe and its own acceptor is left out, since the peer accepted for a
probe is one that never becomes ready. `async_close_peer` names peers that were announced,
the only ids an application knows. Handlers with `operation_aborted` are left out.
`LateReady` is what `Peer` shows of a late `ready_deadline_`, and a constant because it
breaks `ClosedIsOnItsWay` (finding 4): what `server` shows and `ServerStoryProofs` proves of
announcements and reports holds without it, `server_ghost` is the other half.

**SocketPath.** All handlers run on the one I/O thread, so `close_acceptor()` with
`remove_socket_file_path_if_owned()` is one step, and so is a bind; other processes and
links change between the steps, never within one. A path that fits no socket address fails before the
old file is touched, so `BindFails` may leave the file and its owner alone. A server is named by its address, which
the map of owners uses as its key and which a later server may be given. Removing a file is
assumed to succeed. `Server` has the handlers this module leaves open (when a bind or a
health check runs); the two share `close_acceptor()`, of which each models its half.

**Protocol.** A frame is its type, the length its header says, and its real size. `make_frame`
cuts the length to `LengthLimit` (2^32), the sums of sizes wrap at `SizeLimit`
(`size_t`), and `MaxMessageSize` is any `size_t`, as the options allow.

## Runs

`PROJECT.json` names the property set of each run. Operators marked "Faulty" in the
modules are the mutations that show a property can fail; no specification uses them.

| run | cfg | bounds | shows |
|---|---|---|---|
| `req_server` | `ReqServer` | 2 peers, 2 requests | the callbacks of a server's requests run once, with the right peer's result, and every request ends |
| `req_client` | `ReqClient` | 2 peers, 2 requests | the client's requests never outlive their peer, so an id alone finds the right one, and `async_request` keeps its contract |
| `client_sessions` | `ClientSessions` | 2 connections, 3 calls, 1 frame | sessions do not mix, one connection at a time |
| `client_requests` | `ClientRequests` | 2 connections, 2 calls, 1 frame, 1 request | no lost socket, no orphan request, clean destruction |
| `client_liveness` | `ClientLiveness` | 2 connections, 2 calls, 1 request | loss is reported, requests end, a running client keeps trying, destruction ends |
| `client_stale_closed` | `ClientStaleClosed` | 2 connections, 2 calls, 1 request | finding 1 below |
| `peer` | `Peer` | queue of 2, 4 headers or bodies, 1 send of 3 sizes, 3 queued handlers | order of what a connection reports and writes, what it lets through, its deadlines, and that it ends |
| `peer_heartbeats` | `PeerHeartbeats` | queue of 3, 2 headers or bodies | finding 2 |
| `peer_probe` | `PeerProbe` | queue of 2, 2 headers or bodies | finding 3 |
| `server` | `Server` | 2 peers, 2 probes, the budgets of `MCServer` | peers announced, heard and closed in order, late reports dropped, nothing lost, a probe judged by its own verdict, never idle |
| `server_ghost` | `ServerGhost` | 1 peer, 1 call, a late `ready` | finding 4 |
| `socket_path` | `SocketPath` | 2 servers, 2 paths | a server removes only its own file and takes an unanswered path back |

Why the bounds are enough: two requests are the fewest that can be completed by one
another's timeout, two peers the fewest that can confuse an answer or follow one another.
The calls of a client are start, stop and invalidate_connection in any order: two make a
session with its end or two connection generations in one, three make a second session
after the first; shutdown always follows. Two connection names allow an old socket next
to a new attempt. Whether the socket path is valid is chosen in the initial state. A
whole frame is two reads, so four reads reach a message after a message and a health check
after a message; a queue of two is the smallest with a frame behind the one being written.
`MaxQueued` bounds the handlers that wait at a time: three let an expiry, a completion and
a close be queued in every order.
The three messages of `MCPeer` are, with lengths of 6 bits, a `size_t` of 7 and a
`max_message_size` of 16: one that just fits, one a byte too long, and one whose length is
cut to 1, which only the comparison of sizes refuses.
A behaviour of `Server` starts with one of seven budgets of calls, accepts, probes, failures
and reports instead of their product, which is out of reach: three calls with a peer; two calls with two
peers, with a peer and a failed accept or bind, with a peer and a probe; three calls with two
probes and a failure; one call with two probes and two failures; two calls with a peer that
reports twice (a frame, then another or an error). Two probes are the fewest
of which one is stale, two calls with a failure the fewest after which a stale notification
meets a new session.
`SocketPath` counts nothing and is finite as it stands; two servers and two paths are the
fewest for a path taken over and for a link that changes.

The runs check for deadlock, and the models end only where the object is destroyed. The
exceptions are `server` and `server_ghost`, whose budgets end before the server does.

**Fairness.** Both threads run what is queued on them (their loops block on nothing
else); armed timers expire; the kernel completes or fails a pending connect, which a
local socket does; objects nobody refers to are released. The remote end is never assumed
to answer, and in `Client` it may do nothing for ever. In `SocketPath` a server that
listens where nobody answers notices in the end, since its timer probes again and again, and
one that does not listen binds in the end, since the retry task does; that both are really
running is `NeverIdle` of `Server`, where no fairness is assumed and only safety is checked.

## Findings

1. `client_stale_closed`: a request sent between the two steps of
   `invalidate_connection()` captures the new generation for the old connection
   (`client.hpp:534`), so that its timeout can report a `closed` that
   `impl/notification_scope.hpp:21-25` says is discarded. Without a request in that window the
   property holds (`client_sessions` has no requests).
2. `peer_heartbeats`: `refresh_heartbeat_deadline()` after a close (`impl/peer.hpp:233`)
   arms a timer that `close()` says it must not leave behind (`impl/peer.hpp:430-433`).
   With `MaxSendQueueSize = 1`, `MaxFrames = 0` and `MaxSends = 1` the same property fails at
   `impl/peer.hpp:128`, where `start_heartbeat_timer()` follows the frame whose refusal
   closed the peer.
3. `peer_probe`: a connection that serves a health check can still be announced as a peer
   when its ready deadline expires first (`impl/peer.hpp:289`), against
   `tests/src/test.cpp:3440`.

4. `server_ghost`: a `ready_deadline_` that has expired when the peer closes reports `ready`
   after `closed` (`impl/peer.hpp:148` does not look at the socket). The slot of `closed` finds
   no exposed id; then `server.hpp:384` exposes it and emits `peer_connected` for a connection
   whose `peer_closed` never comes, against `server.hpp:492-495`. Without the late `ready` the
   property holds (`server`); what else is reported too late is in that run and is dropped.

Not a finding, since nothing in the repository speaks of it: with a `max_message_size` within 8
of the largest `size_t` the limits wrap. Both ends then refuse every request and response
(`WrappedLimitRefuses`), and a user message passes its sender and is refused by the
receiver; `SentIsAccepted` needs `LimitsFit`.

Nor is this: `closed` of a server may be delivered twice. An accept error whose handler is
queued when a health check fails finds the acceptor closed, and reports `closed` again under the
same token. `BoundThenClosed` allows it: the application that was told `bound` is told `closed`
at least once before the next `bound` or `bind_failed`.

`peer` shows that the other three timers do end with the socket (`OperationTimersEnd`),
and that the leftovers of finding 2 only delay the release (`ReleasedInTheEnd`).

## Proofs

All are checked by `tlapm`, for every value of the constants under the named assumptions of
the modules (`ConstantsAssumption`, `SocketPathAssumption`, `WidthsAssumption`,
`PeerAssumption`, `ClientAssumption`, `ServerAssumption`), which say no more than the comments of the constants.

**Request manager** (`RequestManagerProofs`): any set of peers, any
bound on requests, both owners. The properties are not inductive as they stand. `Inv` adds
three facts: `IdsInv` (ids above the counter are untouched: no entry, no wait, no callback),
`SinglePeerInv` (the client has at most one peer; the server's entries record the peer they
were sent to, the client's record none) and `PhaseInv` (the owner has nothing pending and
nothing armed once its shutdown handler has run, nothing queued once detached, and what it
waits for is exactly the barrier). `PendingOnOpenPeer` needs `SinglePeerInv`, since the client
gives up all requests with its one peer; `AnsweredByItsPeer` needs `PendingOnOpenPeer`, since
the client does not compare peers; `NoDanglingWait` is `PhaseInv`. `Invariance` has one step per
action. The refinement (`ImplementsContract`) maps a request's callbacks to a status and shows
each action to be `Issue`, `CallBack`, `Drop` or a stutter, under `Inv`.

**Socket files** (`SocketPathProofs`): any number of servers and paths. `Owned` is inductive
together with `TypeOK`, whose last conjunct matters: a destroyed server remembers no path, so
that one created at its address starts without. `CloseKeeps` is the part every closing handler
shares. `ClosingRemovesOnlyItsOwn` follows: the server that listens at a path is its owner, so
the one that closes is not.

**Frames** (`ProtocolProofs`): any widths and any `max_message_size`. `NothingTruncated`: what
`valid_outgoing_frame()` lets through has the length its header says. `SentIsAccepted`: unless
the limits wrap, the other end lets it in. `AllowedIsSent`: if the limit leaves room in
a header, every message of `max_message_size` bytes or less is sent. `WrappedLimitRefuses`: if
the limits wrap, requests and responses are refused by both ends.

**Peer** (`PeerProofs`): any bounds, messages and limits. The methods are operators on the
peer's record, so a lemma first states the effect of each: it keeps the socket, the reads and
the writes (`Kept`), closes and ends them (`Shut`), or puts one frame behind the others
(`Pushed`). The invariant is `TypeOK`, `OneOperationEach`, `FramesFit` and the fact that
`start` is queued at most once, split into a read side and a write side; handlers fall into
four kinds (they post, read, write, or do neither), and a lemma for each kind says which side
it must restore. `OneOperationEach` needs all its parts at once: the write handler takes the
front off the queue, so there must be a frame, and a push starts a write only when the queue was empty,
so an open socket with a frame in its queue must have one. `AnswerIsWritten` says that whoever asked for a health check is answered: a connection that
serves one and ends without its owner and without an error has its response out. It needs the
way of that response: it is in the queue, or has been written (`answered`), from
the moment `close_after_write_` is set, and the connection closes itself only when the queue is empty.
`EventsOrdered`, `Guarded` and `TimersEnd` each need which timers are armed while what is under
way: a `ready` is emitted by one of three handlers and `ready_` keeps the others out; a deadline
is armed, or its handler is queued, as long as its read, write or heartbeat goes on.

**Queues** (`QueueProofs`): the invariants of the client and of the server speak of queues of any length by four
words: `Has(q, A)`, `NotBefore(q, A, B)` (no A comes before a B), `Outlasts(q, A, B)` (an A that no
B follows) and `Follows` (each X has a Y before it with nothing in between that undoes it). The
lemmas say what becomes of each when the first entry is taken, entries are sent, or those of a
detached client are erased (`Undisturbed` for entries that have no part in a step, `Spares` for a
step that is about few entries).

**Client** (`ClientProofs`): any connections, requests and bounds. All seven invariants of the runs are
proved. `Typed` says what each entry of the queues holds, and that no token is of a generation
still to come. `Tracks` follows one connection through both queues: its attempt is one entry after
another (`Begun`), its peer starts before it closes and its signals end with `closed` (`Started`), and
if no field has it, the handler that will end it is queued (`Kept`). It needs `Ordered`, the life of
the client (after a shutdown nothing is scheduled, and a client that stopped with something in hand
has the handler of its stop queued). `OneConnection` and `NoLostSocket` follow from it.
`Sessions` says that the entries of a connection carry its token, and `Underway` that a connection
of the current session belongs to a client that runs and is not being stopped: the generation
moves on in the dispatcher thread, and the handler that ends the old session follows on the I/O
thread. `Questions`: a request is sent once, and its timeout follows the announcement of
its peer, so that it cannot close a connection that was not announced.
`Told` is the property about the application: the notifications of the session in the queue take it
from what it was told last (`app`), one turn after another (`Turns`), to what the client has
(`UpToDate`). Every step that adds a notification needs both ends, and `ToldOfOneAtATime` is what `Turns` says
when a notification is at the front. `ClosedOnlyWhileConnected` is proved under
`~InvalidateOnError`, as its run checks it, since finding 1 breaks it otherwise: the timeout of such a
request tells of a closed connection under a generation that never announced it.

**Server** (`ServerProofs`, `ServerStoryProofs`): any number of peers and probes, any budget.
`Safe` is the types of what the queues hold (`Typed`), the life of the server (`Ordered`:
shutdown comes once, after it nothing is scheduled), the sessions of acceptor, peers and
probe (`Sessions`) and the owner of each connection (`Owned`). `NoLostConnection` and
`ProbeVerdict` follow from it. `Verdict` says which probe a handler is about: one whose probe is no longer the
current one changes nothing, and one that ends the current probe finds that it has failed
or has its answer. It needs what each queued handler of a probe says of
that probe (its timer has expired, its connect is over, its peer has ended or
was answered), and that a peer which was answered reports the answer before its end (`Judged`).
`Watched` adds the tasks: `Bindings` says that in the dispatcher's queue a `closed` stands
between a `bound` and the next `bound` or `bind_failed`, which `BoundThenClosed` needs since
these are under way while the I/O thread has moved on; `Busy` says which entry will bind or check, which of `NeverIdle`
is what remains at the moment it looks. `Story` is what is said of each peer, in three
parts: announced once and only while it lives, its end on its way from the moment it is closed,
and the order of ready, reports and closed on both passages through the dispatcher's queue, where
what is reported too late follows the end (`Trails`).
Its theorems assume `~LateReady`, as the run `server` does: with it finding 4 breaks them.

Only model-checked: liveness (`EveryRequestEnds`, `Recovers`, and the temporal properties of
`Client` and `Peer`), which is beyond the prover.

## Plan

In the order of their worth:

1. `Connection`: two `Peer`s over one stream, a health check end to end.
2. `Client`: an abstract specification of what the application is told, and `Told` as its refinement.

## Not modelled

* `async_send` and `async_respond` of client and server, which only look a peer up and forward.
* A client or server destroyed inside one of its own slots: detaching then does not wait for
  the entry, which goes on with a raw `this`. It would need every slot to be a step of its
  own.
* The facade classes `client` and `server`, which forward; `options.hpp`, `types.hpp` beyond the
  callback, `credentials.hpp` and `asio_helper.hpp`, which are values or one system call.
* The bytes of a frame: encoding and decoding are inverse shifts by constants.
* The vendored libraries beyond what this code uses: of the dispatcher `enqueue`, its worker and
  `detach`, of `debounced_task` and `timer` one delayed entry each; of asio the queue of
  handlers, completions and timers.
