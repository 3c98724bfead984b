------------------------------ MODULE SocketPath ------------------------------
(***************************************************************************)
(* impl/runtime.hpp and its callers in server.hpp: the socket files of the *)
(* servers of one process, and who removes them.                           *)
(*                                                                         *)
(* The handlers of all servers run on the one I/O thread, so each is a     *)
(* step.  Other processes change the file system between the steps.  A     *)
(* server is named by its address, which a later server may be given.      *)
(***************************************************************************)
EXTENDS Naturals

CONSTANTS Servers,   \* addresses of server_state objects
          Keys,      \* resolved paths
          None,      \* no file, no owner, no path
          Stale,     \* a socket file that nobody listens on
          Other      \* a file of another process, which may answer or not

ASSUME SocketPathAssumption ==
    /\ {None, Stale, Other} \cap Servers = {} /\ None \notin Keys
    /\ None # Stale /\ None # Other

VARIABLES
    status,    \* of each server, see Statuses
    target,    \* what make_socket_file_path_key(socket_file_path_) gives each server
    bound,     \* bound_socket_file_path_, set as long as acceptor_ is
    owner,     \* socket_file_path_owners_
    file       \* what is at each path: the server that listens there, or else

vars == <<status, target, bound, owner, file>>

\* "stopping", "shutting": the handler of stop() or of async_shutdown() is queued.
Statuses == {"idle", "running", "stopping", "shutting", "destroyed"}

TypeOK ==
    /\ status \in [Servers -> Statuses]
    /\ target \in [Servers -> Keys]
    /\ bound \in [Servers -> Keys \cup {None}]
    /\ owner \in [Keys -> Servers \cup {None}]
    /\ file \in [Keys -> Servers \cup {None, Stale, Other}]
    /\ \A s \in Servers : bound[s] # None => status[s] \in {"running", "stopping", "shutting"}

Init ==
    /\ status = [s \in Servers |-> "idle"]
    /\ target \in [Servers -> Keys]
    /\ bound = [s \in Servers |-> None]
    /\ owner = [k \in Keys |-> None]
    /\ file \in [Keys -> {None, Stale, Other}]

Becomes(s, st) == status' = [status EXCEPT ![s] = st]

-----------------------------------------------------------------------------
\* Faulty: the path is not forgotten with the acceptor.
CloseRemembering(s) ==
    LET mine == {k \in Keys : bound[s] = k /\ owner[k] = s}
    IN /\ owner' = [k \in Keys |-> IF k \in mine THEN None ELSE owner[k]]
       /\ file' = [k \in Keys |-> IF k \in mine THEN None ELSE file[k]]
       /\ bound' = bound

\* Faulty: the path is resolved again.
CloseResolving(s) ==
    LET mine == {k \in Keys : bound[s] # None /\ target[s] = k /\ owner[k] = s}
    IN /\ owner' = [k \in Keys |-> IF k \in mine THEN None ELSE owner[k]]
       /\ file' = [k \in Keys |-> IF k \in mine THEN None ELSE file[k]]
       /\ bound' = [bound EXCEPT ![s] = None]

\* Faulty: another owner is not respected.
CloseUnowned(s) ==
    LET mine == {k \in Keys : bound[s] = k}
    IN /\ owner' = [k \in Keys |-> IF k \in mine THEN None ELSE owner[k]]
       /\ file' = [k \in Keys |-> IF k \in mine THEN None ELSE file[k]]
       /\ bound' = [bound EXCEPT ![s] = None]

\* close_acceptor() with remove_socket_file_path_if_owned(): by the path that was
\* resolved when the file was created.
Close(s) ==
    LET mine == {k \in Keys : bound[s] = k /\ owner[k] = s}
    IN /\ owner' = [k \in Keys |-> IF k \in mine THEN None ELSE owner[k]]
       /\ file' = [k \in Keys |-> IF k \in mine THEN None ELSE file[k]]
       /\ bound' = [bound EXCEPT ![s] = None]

\* async_start and async_stop; the handler of stop() runs on the I/O thread.
Start(s) ==
    /\ status[s] = "idle" /\ Becomes(s, "running")
    /\ UNCHANGED <<target, bound, owner, file>>

Stop(s) ==
    /\ status[s] = "running" /\ Becomes(s, "stopping")
    /\ UNCHANGED <<target, bound, owner, file>>

RunStop(s) ==
    /\ status[s] = "stopping" /\ Becomes(s, "idle")
    /\ Close(s)
    /\ UNCHANGED target

\* Destruction, which returns before the handler of async_shutdown() has run;
\* then the address may be used again.
Shutdown(s) ==
    /\ status[s] \in {"idle", "running", "stopping"} /\ Becomes(s, "shutting")
    /\ UNCHANGED <<target, bound, owner, file>>

RunShutdown(s) ==
    /\ status[s] = "shutting" /\ Becomes(s, "destroyed")
    /\ Close(s)
    /\ UNCHANGED target

Create(s, k) ==
    /\ status[s] = "destroyed" /\ Becomes(s, "idle")
    /\ target' = [target EXCEPT ![s] = k]
    /\ UNCHANGED <<bound, owner, file>>

\* The handler of bind(), first or retried, after remove_socket_file_path(): the
\* file there goes whoever made it, and so does its owner.
BindSucceeds(s) ==
    /\ status[s] = "running" /\ bound[s] = None
    /\ bound' = [bound EXCEPT ![s] = target[s]]
    /\ owner' = [owner EXCEPT ![target[s]] = s]
    /\ file' = [file EXCEPT ![target[s]] = s]
    /\ UNCHANGED <<status, target>>

\* open, bind or listen failed; what listen would have used is removed again.
\* Somebody else may have been faster to create the file.  make_endpoint fails
\* before anything is removed.
BindFails(s) ==
    /\ status[s] = "running" /\ bound[s] = None
    /\ \/ UNCHANGED <<owner, file>>
       \/ /\ owner' = [owner EXCEPT ![target[s]] = None]
          /\ \E f \in {None, Other} : file' = [file EXCEPT ![target[s]] = f]
    /\ UNCHANGED <<status, target, bound>>

\* An accept fails with an error.
AcceptFails(s) ==
    /\ status[s] = "running" /\ bound[s] # None
    /\ Close(s)
    /\ UNCHANGED <<status, target>>

\* Faulty: the path of the acceptor is probed, not the one clients use.
UnansweredAtBound(s) == bound[s] # None /\ file[bound[s]] \in {None, Stale, Other}

\* Nobody answers at the path the probe connects to, or perhaps another process.
Unanswered(s) == file[target[s]] \in {None, Stale, Other}

\* handle_socket_path_health_check_failed().
HealthCheckFails(s) ==
    /\ status[s] = "running" /\ bound[s] # None
    /\ Unanswered(s)
    /\ Close(s)
    /\ UNCHANGED <<status, target>>

\* Other processes: a file is removed or replaced, a link on the way to a path
\* leads somewhere else.
Meddle(k) ==
    /\ \E f \in {None, Stale, Other} : file' = [file EXCEPT ![k] = f]
    /\ UNCHANGED <<status, target, bound, owner>>

Relink(s, k) ==
    /\ target' = [target EXCEPT ![s] = k]
    /\ UNCHANGED <<status, bound, owner, file>>

\* The process ends without cleaning up and is started again.
Crash ==
    /\ status' = [s \in Servers |-> "idle"]
    /\ bound' = [s \in Servers |-> None]
    /\ owner' = [k \in Keys |-> None]
    /\ file' = [k \in Keys |-> IF file[k] \in Servers THEN Stale ELSE file[k]]
    /\ UNCHANGED target

ServerStep(s) ==
    \/ Start(s) \/ Stop(s) \/ RunStop(s) \/ Shutdown(s) \/ RunShutdown(s)
    \/ BindSucceeds(s) \/ BindFails(s) \/ AcceptFails(s) \/ HealthCheckFails(s)

Next ==
    \/ \E s \in Servers : ServerStep(s)
    \/ \E s \in Servers, k \in Keys : Create(s, k) \/ Relink(s, k)
    \/ \E k \in Keys : Meddle(k)
    \/ Crash

\* A listening server probes its path again and again, and one that does not
\* listen tries again and again to bind (Server.tla); sooner or later the file
\* system lets it.
Fairness == \A s \in Servers : WF_vars(HealthCheckFails(s)) /\ WF_vars(BindSucceeds(s))

Spec == Init /\ [][Next]_vars /\ Fairness

-----------------------------------------------------------------------------
\* Properties.

\* socket_file_path_owners_ never holds the address of a server that does not
\* listen there, so no later server at that address removes a file that is not
\* its own, and a socket file of the process always has an owner that will.
Owned ==
    /\ \A k \in Keys, s \in Servers : owner[k] = s => bound[s] = k
    /\ \A k \in Keys, s \in Servers : file[k] = s => owner[k] = s

\* A server that closes, however late, leaves the file of a server that listens
\* (old_server_shutdown_does_not_remove_new_server_socket_path).
RemovesOnlyItsOwn ==
    [][\A s, t \in Servers :
         /\ bound[s] # None /\ bound'[s] = None
         /\ bound[t] # None /\ bound'[t] = bound[t] /\ file[bound[t]] = t
         => file'[bound[t]] = t]_vars

\* A running server whose path nobody answers binds it again, after the file was
\* removed, a link has changed, or another server of the process took the path
\* and stopped.
Answered(s) == file[target[s]] \in Servers \cup {Other}
Recovers == \A s \in Servers :
    (status[s] = "running" /\ ~Answered(s)) ~> (status[s] # "running" \/ Answered(s))

=============================================================================
