-------------------------- MODULE RequestContract --------------------------
(***************************************************************************)
(* What async_request promises its caller, for a client as for a server:   *)
(* the callback of an issued request is called once, with one result, for  *)
(* as long as the owner exists; when the owner is destroyed the callbacks  *)
(* that were not called yet are dropped, and none is called afterwards.    *)
(***************************************************************************)

CONSTANTS Requests,     \* the requests callers may issue
          Results       \* what a callback may be told

VARIABLES status,       \* [Requests -> Statuses]
          alive         \* FALSE once the owner has left the dispatcher

Statuses == {"idle", "outstanding", "dropped"} \cup Results

Init == status = [r \in Requests |-> "idle"] /\ alive = TRUE

Outstanding == {r \in Requests : status[r] = "outstanding"}

Issue(r) ==
    /\ status[r] = "idle"
    /\ status' = [status EXCEPT ![r] = "outstanding"]
    /\ alive' = alive

CallBack(r, result) ==
    /\ alive
    /\ status[r] = "outstanding"
    /\ status' = [status EXCEPT ![r] = result]
    /\ alive' = alive

\* The owner goes away, or a request of an owner that has gone away ends.
Drop(rs) ==
    /\ rs \subseteq Outstanding
    /\ alive' = FALSE
    /\ status' = [r \in Requests |-> IF r \in rs THEN "dropped" ELSE status[r]]

Next ==
    \/ \E r \in Requests : Issue(r)
    \/ \E r \in Requests, result \in Results : CallBack(r, result)
    \/ \E rs \in SUBSET Requests : Drop(rs)

Safety == Init /\ [][Next]_<<status, alive>>

\* No request stays outstanding for ever.
Answered == \A r \in Requests : (status[r] = "outstanding") ~> (status[r] # "outstanding")

Spec == Safety /\ Answered
=============================================================================
