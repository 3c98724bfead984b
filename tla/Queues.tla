-------------------------------- MODULE Queues --------------------------------
(***************************************************************************)
(* What Server.tla and Client.tla need of the queues of the dispatcher and *)
(* of the io_context besides Head, Tail and \o: the entries that remain    *)
(* when some are erased, and what their invariants say of the order of     *)
(* entries.                                                                *)
(***************************************************************************)
EXTENDS Naturals, Sequences, FiniteSets

\* The entries of q at these positions, in their order.
Selected(q, positions) ==
    [j \in 1..Cardinality(positions) |->
        q[CHOOSE i \in positions : Cardinality({m \in positions : m <= i}) = j]]

\* Of a queue q and sets A and B of entries: there is an A; there is no A before a B,
\* so for A = B there is at most one; there is an A that no B follows.
Has(q, A) == \E i \in DOMAIN q : q[i] \in A
NotBefore(q, A, B) == \A i, j \in DOMAIN q : q[i] \in A /\ q[j] \in B => ~(i < j)
Outlasts(q, A, B) == \E i \in DOMAIN q : q[i] \in A /\ \A j \in DOMAIN q : i < j => q[j] \notin B

\* Every X follows a Y with no O in between; or there is no O before it at all, if it is
\* free to lack one.
Follows(q, X, free, Y, O) ==
    \A j \in DOMAIN q : q[j] \in X =>
      \/ q[j] \in free /\ \A m \in DOMAIN q : m < j => q[m] \notin O
      \/ \E i \in DOMAIN q : /\ i < j /\ q[i] \in Y
                            /\ \A m \in DOMAIN q : i < m /\ m < j => q[m] \notin O

===============================================================================
