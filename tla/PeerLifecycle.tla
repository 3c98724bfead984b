---------------------------- MODULE PeerLifecycle ----------------------------
(***************************************************************************)
(* What a server promises the application about its peers: the signals     *)
(* peer_connected and peer_closed of one peer id, over the sessions that   *)
(* async_start and async_stop make.                                        *)
(***************************************************************************)
CONSTANT Ids        \* peer ids

VARIABLE status     \* of each id, see Statuses

\* "accepted": the server has the connection, the application does not know.
\* "closed": it was told so.  "over": nothing is said of it any more.
Statuses == {"unknown", "accepted", "connected", "closed", "over"}

Init == status = [id \in Ids |-> "unknown"]

Becomes(id, s) == status' = [status EXCEPT ![id] = s]

Accept(id) == status[id] = "unknown" /\ Becomes(id, "accepted")

\* peer_connected: once, and never for a connection that is already over.
Announce(id) == status[id] = "accepted" /\ Becomes(id, "connected")

\* peer_closed, for an id that was announced.
Close(id) == status[id] = "connected" /\ Becomes(id, "closed")

\* Silence, for one that was not.
Forget(id) == status[id] = "accepted" /\ Becomes(id, "over")

\* async_stop or destruction: the peers of the session are not spoken of again.
EndSession ==
    status' = [id \in Ids |-> IF status[id] \in {"accepted", "connected"} THEN "over" ELSE status[id]]

Next == EndSession \/ \E id \in Ids : Accept(id) \/ Announce(id) \/ Close(id) \/ Forget(id)

Spec == Init /\ [][Next]_status

=============================================================================
