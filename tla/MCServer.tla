------------------------------- MODULE MCServer -------------------------------
(***************************************************************************)
(* Bounds for Server.tla: a peer with three calls, two peers, a peer and a *)
(* failed accept, probes of two sessions, two failures, a peer and a probe,*)
(* and a peer that reports twice.                                          *)
(***************************************************************************)
EXTENDS Server

Bounded(calls, accepts, checks, faults, reports) ==
    [calls |-> calls, accepts |-> accepts, checks |-> checks, faults |-> faults,
     reports |-> reports]

MCBudgets == {Bounded(3, 1, 0, 0, 0), Bounded(2, 2, 0, 0, 0), Bounded(2, 1, 0, 1, 0),
              Bounded(3, 0, 2, 1, 0), Bounded(1, 0, 2, 2, 0), Bounded(2, 1, 1, 0, 0),
              Bounded(2, 1, 0, 0, 2)}

GhostBudgets == {Bounded(1, 1, 0, 0, 0)}

=============================================================================
