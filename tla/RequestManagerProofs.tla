------------------------ MODULE RequestManagerProofs ------------------------
(***************************************************************************)
(* Proofs about RequestManager, for any number of peers and requests, both *)
(* owners and both values of invalidate_connection_on_request_error.       *)
(***************************************************************************)
EXTENDS RequestManager, TLAPS

\* What each request id carries: the peer it was sent to, and a result only
\* from its completion on.
IdsInv ==
    \A i \in Ids :
        /\ i <= next => peerOf[i] = IF SinglePeer THEN NoPeer ELSE sentOn[i]
        /\ i <= next => sentOn[i] \in Peers
        /\ i \in pending \/ i > next => result[i] = "none"
        /\ i <= next /\ i \notin pending => result[i] \in Results
        /\ i > next => timer[i] = "none"

\* A client has at most one peer.
SinglePeerInv == SinglePeer => \A p, q \in open : p = q

\* Where the owner is in its life, and what is left of its requests by then.
PhaseInv ==
    /\ \A i \in Ids : timer[i] = "armed" => i \in pending
    /\ phase = "live" => \A i \in Ids : dropped[i] = 0
    /\ phase # "live" => \A i \in Ids : queued[i] = 0
    /\ phase \in {"closed", "destroyed"} => open = {} /\ WaitsOutstanding \subseteq barrier
    /\ phase = "destroyed" => \A i \in barrier : timer[i] = "done"

Inv ==
    /\ TypeOK
    /\ ExactlyOnce
    /\ PendingOnOpenPeer
    /\ AnsweredByItsPeer
    /\ IdsInv
    /\ SinglePeerInv
    /\ PhaseInv

-----------------------------------------------------------------------------
\* The initial state satisfies the inductive invariant.
LEMMA InitInv == Init => Inv
  <1> SUFFICES ASSUME Init PROVE Inv
    OBVIOUS
  <1> USE ConstantsAssumption DEF Init
  <1>1. TypeOK
    BY DEF TypeOK, Ids, WaitStates, Phases, Results
  <1>2. ExactlyOnce
    BY DEF ExactlyOnce, Ids
  <1>3. PendingOnOpenPeer /\ AnsweredByItsPeer /\ SinglePeerInv
    BY DEF PendingOnOpenPeer, AnsweredByItsPeer, SinglePeerInv
  <1>4. IdsInv
    BY DEF IdsInv, Ids
  <1>5. PhaseInv
    BY DEF PhaseInv
  <1> QED
    BY <1>1, <1>2, <1>3, <1>4, <1>5 DEF Inv

\* What complete_request() does to a set S of pending requests: each one moves
\* from pending_requests_ to the dispatcher's queue, or is dropped after the
\* detach, and the requests outside S are left alone.
LEMMA CompleteMoves ==
  ASSUME TypeOK, ExactlyOnce, PhaseInv,
         NEW S \in SUBSET pending, NEW res \in [S -> Results],
         NEW ran \in SUBSET Ids, Complete(res, ran),
         next' = next, delivered' = delivered
  PROVE  /\ pending' = pending \ S
         /\ timer' \in [Ids -> WaitStates]
         /\ result' \in [Ids -> Results \cup {"none"}]
         /\ queued' \in [Ids -> Nat]
         /\ dropped' \in [Ids -> Nat]
         /\ ExactlyOnce'
         /\ \A i \in Ids : result'[i] = IF i \in S THEN res[i] ELSE result[i]
         /\ \A i \in Ids : timer'[i] = "armed" => i \in pending'
         /\ \A i \in Ids : i \in ran => timer'[i] = "done"
         /\ \A i \in Ids : i \notin S /\ i \notin ran => timer'[i] = timer[i]
         /\ \A i \in Ids : timer'[i] = "none" => timer[i] = "none"
         /\ phase = "live" => \A i \in Ids : dropped'[i] = dropped[i]
         /\ phase # "live" => \A i \in Ids : queued'[i] = queued[i]
  <1> S \subseteq Ids /\ DOMAIN res = S
    BY DEF TypeOK
  <1>1. pending' = pending \ S
    BY DEF Complete
  <1>2. timer' = [i \in Ids |->
                   IF i \in ran THEN "done"
                   ELSE IF i \in S /\ timer[i] = "armed" THEN "aborted"
                   ELSE timer[i]]
    BY DEF Complete
  <1>3. /\ timer' \in [Ids -> WaitStates]
        /\ \A i \in Ids : i \in ran => timer'[i] = "done"
        /\ \A i \in Ids : i \notin S /\ i \notin ran => timer'[i] = timer[i]
        /\ \A i \in Ids : timer'[i] = "none" => timer[i] = "none"
        /\ \A i \in Ids : timer'[i] = "armed" => i \notin S /\ timer[i] = "armed"
    BY <1>2 DEF TypeOK, WaitStates
  <1>4. \A i \in Ids : timer'[i] = "armed" => i \in pending'
    BY <1>1, <1>3 DEF PhaseInv
  <1>5. result' \in [Ids -> Results \cup {"none"}]
        /\ \A i \in Ids : result'[i] = IF i \in S THEN res[i] ELSE result[i]
    BY DEF Complete, TypeOK
  <1>6. CASE phase = "live"
    <2>1. queued' = [i \in Ids |-> queued[i] + IF i \in S THEN 1 ELSE 0] /\ dropped' = dropped
      BY <1>6 DEF Complete
    <2>2. queued' \in [Ids -> Nat] /\ dropped' \in [Ids -> Nat]
      BY <2>1 DEF TypeOK
    <2>3. ExactlyOnce'
      BY <1>1, <2>1 DEF ExactlyOnce, TypeOK
    <2> QED
      BY <1>1, <1>3, <1>4, <1>5, <1>6, <2>1, <2>2, <2>3
  <1>7. CASE phase # "live"
    <2>1. dropped' = [i \in Ids |-> dropped[i] + IF i \in S THEN 1 ELSE 0] /\ queued' = queued
      BY <1>7 DEF Complete
    <2>2. queued' \in [Ids -> Nat] /\ dropped' \in [Ids -> Nat]
      BY <2>1 DEF TypeOK
    <2>3. ExactlyOnce'
      BY <1>1, <2>1 DEF ExactlyOnce, TypeOK
    <2> QED
      BY <1>1, <1>3, <1>4, <1>5, <1>7, <2>1, <2>2, <2>3
  <1> QED
    BY <1>6, <1>7

\* A handler that completes the requests S, and may take peers away but leaves
\* the owner where it is in its life, preserves the invariant when the requests
\* it leaves pending keep their peers and a response is credited to its sender.
LEMMA CompleteStep ==
  ASSUME Inv,
         NEW S \in SUBSET pending, NEW res \in [S -> Results],
         NEW ran \in SUBSET Ids, Complete(res, ran),
         \A i \in ran : timer[i] # "none",
         UNCHANGED <<next, peerOf, delivered, opened, sentOn, phase, barrier>>,
         open' \subseteq open,
         \A i \in pending \ S : sentOn[i] \in open',
         answeredBy' \in [Ids -> Peers \cup {NoPeer}],
         \A i \in Ids : result'[i] = "ok" => answeredBy'[i] = sentOn[i]
  PROVE  Inv'
  <1> USE DEF Inv
  <1>0. /\ pending' = pending \ S
        /\ timer' \in [Ids -> WaitStates]
        /\ result' \in [Ids -> Results \cup {"none"}]
        /\ queued' \in [Ids -> Nat]
        /\ dropped' \in [Ids -> Nat]
        /\ ExactlyOnce'
        /\ \A i \in Ids : result'[i] = IF i \in S THEN res[i] ELSE result[i]
        /\ \A i \in Ids : timer'[i] = "armed" => i \in pending'
        /\ \A i \in Ids : i \in ran => timer'[i] = "done"
        /\ \A i \in Ids : i \notin S /\ i \notin ran => timer'[i] = timer[i]
        /\ \A i \in Ids : timer'[i] = "none" => timer[i] = "none"
        /\ phase = "live" => \A i \in Ids : dropped'[i] = dropped[i]
        /\ phase # "live" => \A i \in Ids : queued'[i] = queued[i]
    BY CompleteMoves
  <1>1. TypeOK'
    BY <1>0 DEF TypeOK
  <1>2. PendingOnOpenPeer'
    BY <1>0 DEF PendingOnOpenPeer
  <1>3. AnsweredByItsPeer'
    BY DEF AnsweredByItsPeer
  <1>4. IdsInv'
    <2>1. SUFFICES ASSUME NEW i \in Ids
                   PROVE  /\ i <= next => peerOf[i] = IF SinglePeer THEN NoPeer ELSE sentOn[i]
                          /\ i <= next => sentOn[i] \in Peers
                          /\ i \in pending' \/ i > next => result'[i] = "none"
                          /\ i <= next /\ i \notin pending' => result'[i] \in Results
                          /\ i > next => timer'[i] = "none"
      BY DEF IdsInv
    <2>2. i > next => i \notin pending
      BY ConstantsAssumption DEF ExactlyOnce, TypeOK, Ids
    <2>3. i > next => i \notin S /\ i \notin ran
      BY <2>2 DEF IdsInv
    <2> QED
      BY <1>0, <2>2, <2>3 DEF IdsInv
  <1>5. SinglePeerInv'
    BY DEF SinglePeerInv
  <1>6. PhaseInv'
    <2>1. /\ \A i \in Ids : timer'[i] = "armed" => i \in pending'
          /\ phase' = "live" => \A i \in Ids : dropped'[i] = 0
          /\ phase' # "live" => \A i \in Ids : queued'[i] = 0
      BY <1>0 DEF PhaseInv
    <2>2. ASSUME phase \in {"closed", "destroyed"}
          PROVE  open' = {} /\ WaitsOutstanding' \subseteq barrier'
      <3>1. open = {} /\ S = {}
        BY <2>2 DEF PhaseInv, PendingOnOpenPeer
      <3>2. WaitsOutstanding' \subseteq WaitsOutstanding
        BY <1>0, <3>1 DEF WaitsOutstanding
      <3> QED
        BY <2>2, <3>1, <3>2 DEF PhaseInv
    <2>3. ASSUME phase = "destroyed", NEW i \in barrier
          PROVE  timer'[i] = "done"
      <3>1. S = {} /\ timer[i] = "done" /\ i \in Ids
        BY <2>3 DEF PhaseInv, PendingOnOpenPeer, TypeOK
      <3> QED
        BY <1>0, <3>1
    <2> QED
      BY <2>1, <2>2, <2>3 DEF PhaseInv
  <1> QED
    BY <1>0, <1>1, <1>2, <1>3, <1>4, <1>5, <1>6

\* A pending request was added, with the peer id its owner gives to requests.
LEMMA PendingIssued ==
  ASSUME Inv, NEW i \in pending
  PROVE  /\ i \in Ids /\ i <= next
         /\ sentOn[i] \in open
         /\ peerOf[i] = IF SinglePeer THEN NoPeer ELSE sentOn[i]
  <1>1. i \in Ids /\ sentOn[i] \in open
    BY DEF Inv, TypeOK, PendingOnOpenPeer
  <1>2. i <= next
    <2>1. /\ i \in Nat /\ next \in Nat
          /\ queued[i] \in Nat /\ delivered[i] \in Nat /\ dropped[i] \in Nat
      BY <1>1, ConstantsAssumption DEF Inv, TypeOK, Ids
    <2>2. queued[i] + delivered[i] + dropped[i] + 1 = IF i <= next THEN 1 ELSE 0
      BY <1>1 DEF Inv, ExactlyOnce
    <2> QED
      BY <2>1, <2>2
  <1> QED
    BY <1>1, <1>2 DEF Inv, IdsInv

-----------------------------------------------------------------------------
\* One lemma per handler that completes requests.

\* A response, of whatever id, from a peer the owner still has.
LEMMA ResponseReceivedInv ==
  ASSUME Inv, NEW p \in Peers, NEW id \in Ids, ResponseReceived(p, id)
  PROVE  Inv'
  <1> DEFINE S == Answers(p, id)
  <1>1. S \in SUBSET pending /\ With(S, "ok") \in [S -> Results]
    BY DEF Answers, With, Results
  <1>2. \A i \in S : sentOn[i] = p
    <2>1. SUFFICES ASSUME NEW i \in pending, SinglePeer \/ peerOf[i] = p
                   PROVE  sentOn[i] = p
      BY DEF Answers
    <2>2. /\ sentOn[i] \in open
          /\ peerOf[i] = IF SinglePeer THEN NoPeer ELSE sentOn[i]
      BY PendingIssued
    <2>3. CASE SinglePeer
      BY <2>2, <2>3 DEF ResponseReceived, Inv, SinglePeerInv
    <2>4. CASE ~SinglePeer
      BY <2>1, <2>2, <2>4
    <2> QED
      BY <2>3, <2>4
  <1>3. \A i \in Ids : result'[i] = IF i \in S THEN "ok" ELSE result[i]
    BY DEF ResponseReceived, Complete, With
  <1>4. \A i \in Ids : result'[i] = "ok" => answeredBy'[i] = sentOn[i]
    BY <1>2, <1>3 DEF ResponseReceived, Inv, AnsweredByItsPeer, TypeOK
  <1>5. answeredBy' \in [Ids -> Peers \cup {NoPeer}]
    BY DEF ResponseReceived, Inv, TypeOK
  <1> QED
    BY <1>1, <1>4, <1>5, CompleteStep DEF ResponseReceived, Inv, PendingOnOpenPeer

\* Completing a set S of requests with an error other than "ok".
LEMMA ErrorStep ==
  ASSUME Inv, NEW S \in SUBSET pending, NEW res \in [S -> Results \ {"ok"}],
         NEW ran \in SUBSET Ids, Complete(res, ran),
         \A i \in ran : timer[i] # "none",
         UNCHANGED <<next, peerOf, delivered, opened, sentOn, answeredBy, phase, barrier>>,
         open' \subseteq open,
         \A i \in pending \ S : sentOn[i] \in open'
  PROVE  Inv'
  <1>1. DOMAIN res = S /\ res \in [S -> Results]
    OBVIOUS
  <1>2. \A i \in Ids : result'[i] = IF i \in S THEN res[i] ELSE result[i]
    BY <1>1 DEF Complete
  <1>3. \A i \in Ids : result'[i] = "ok" => answeredBy'[i] = sentOn[i]
    BY <1>2 DEF Inv, AnsweredByItsPeer
  <1>4. answeredBy' \in [Ids -> Peers \cup {NoPeer}]
    BY DEF Inv, TypeOK
  <1> QED
    BY <1>1, <1>3, <1>4, CompleteStep

\* An error completes the requests of its peer, and leaves the peers alone.
LEMMA PeerErrorInv ==
  ASSUME Inv, NEW p \in Peers, PeerError(p)
  PROVE  Inv'
  <1> DEFINE S == IF SinglePeer THEN pending ELSE OfPeer(p)
  <1>1. S \in SUBSET pending /\ With(S, "peer_error") \in [S -> Results \ {"ok"}]
    BY DEF OfPeer, With, Results
  <1>2. \A i \in pending \ S : sentOn[i] \in open'
    BY DEF Inv, PendingOnOpenPeer, PeerError
  <1> HIDE DEF S
  <1>3. Complete(With(S, "peer_error"), {}) /\ open' = open
        /\ UNCHANGED <<next, peerOf, delivered, opened, sentOn, answeredBy, phase, barrier>>
    BY DEF S, PeerError
  <1> QED
    BY <1>1, <1>2, <1>3, ErrorStep

\* The peers ps are given up together with their requests.
LEMMA GiveUpInv ==
  ASSUME Inv, NEW ps \in SUBSET Peers, NEW S \in SUBSET pending,
         NEW error \in Results \ {"ok"}, GiveUp(ps, S, error),
         UNCHANGED <<phase, barrier>>,
         \A i \in pending \ S : sentOn[i] \notin ps
  PROVE  Inv'
  <1>1. With(S, error) \in [S -> Results \ {"ok"}]
    BY DEF With
  <1>2. \A i \in pending \ S : sentOn[i] \in open'
    BY DEF Inv, PendingOnOpenPeer, GiveUp
  <1> QED
    BY <1>1, <1>2, ErrorStep DEF GiveUp

\* In an owner with many peers the requests of p are the pending ones sent to p.
LEMMA OfPeerSent ==
  ASSUME Inv, ~SinglePeer, NEW p
  PROVE  \A i \in pending : i \in OfPeer(p) <=> sentOn[i] = p
  BY PendingIssued DEF OfPeer

\* The remote end closed.
LEMMA PeerClosedInv ==
  ASSUME Inv, NEW p \in Peers, PeerClosed(p)
  PROVE  Inv'
  <1> DEFINE S == Victims({p})
  <1>1. S \in SUBSET pending
    BY DEF Victims, OfPeer
  <1>2. \A i \in pending \ S : sentOn[i] # p
    <2>1. CASE SinglePeer
      BY <2>1 DEF Victims
    <2>2. CASE ~SinglePeer
      BY <2>2, OfPeerSent DEF Victims
    <2> QED
      BY <2>1, <2>2
  <1> HIDE DEF S
  <1>3. GiveUp({p}, S, "connection_reset") /\ UNCHANGED <<phase, barrier>>
    BY DEF PeerClosed, S
  <1> QED
    BY <1>1, <1>2, <1>3, GiveUpInv DEF Results

\* The server closes one peer.
LEMMA ClosePeerInv ==
  ASSUME Inv, NEW p \in Peers, ClosePeer(p)
  PROVE  Inv'
  <1>1. OfPeer(p) \in SUBSET pending
    BY DEF OfPeer
  <1>2. \A i \in pending \ OfPeer(p) : sentOn[i] # p
    BY OfPeerSent DEF ClosePeer
  <1> QED
    BY <1>1, <1>2, GiveUpInv DEF ClosePeer, Results

\* The owner closes every peer.
LEMMA CloseAllInv ==
  ASSUME Inv, CloseAll
  PROVE  Inv'
  <1> DEFINE S == IF SinglePeer /\ open = {} THEN {} ELSE pending
  <1>1. S = pending /\ open \in SUBSET Peers
    BY DEF Inv, PendingOnOpenPeer, TypeOK
  <1> QED
    BY <1>1, GiveUpInv DEF CloseAll, GiveUpAll, Results

\* The wait handler of an expired timer.
LEMMA RunWaitInv ==
  ASSUME Inv, NEW i \in Ids, RunWait(i)
  PROVE  Inv'
  <1> DEFINE lost == IF i \in pending THEN Invalidated(i) ELSE {}
             S == IF i \in pending THEN {i} \cup Victims(lost) ELSE {}
             error == IF SinglePeer THEN "connection_reset" ELSE "operation_aborted"
             res == [j \in S |-> IF j = i THEN "timed_out" ELSE error]
  <1>1. S \in SUBSET pending
    BY DEF Victims, OfPeer
  <1>2. res \in [S -> Results \ {"ok"}]
    BY DEF Results
  <1>3. \A j \in pending \ S : sentOn[j] \in open \ lost
    <2>1. CASE SinglePeer
      BY <2>1 DEF Victims, Inv, PendingOnOpenPeer
    <2>2. CASE ~SinglePeer
      <3>1. \A j \in pending, p \in lost : j \in OfPeer(p) <=> sentOn[j] = p
        BY <2>2, OfPeerSent
      <3> QED
        BY <2>2, <3>1 DEF Victims, Inv, PendingOnOpenPeer
    <2> QED
      BY <2>1, <2>2
  <1>4. Complete(res, {i}) /\ open' = open \ lost /\ timer[i] # "none"
        /\ UNCHANGED <<next, peerOf, delivered, opened, sentOn, answeredBy, phase, barrier>>
    BY DEF RunWait
  <1> HIDE DEF S, res, lost
  <1> QED
    BY <1>1, <1>2, <1>3, <1>4, ErrorStep

-----------------------------------------------------------------------------
\* One lemma per handler that completes none.

\* A new peer.
LEMMA OpenPeerInv ==
  ASSUME Inv, NEW p \in Peers, OpenPeer(p)
  PROVE  Inv'
  <1> USE DEF Inv, OpenPeer, requestVars
  <1>1. TypeOK'
    BY DEF TypeOK
  <1>2. ExactlyOnce' /\ PendingOnOpenPeer' /\ AnsweredByItsPeer' /\ IdsInv'
    BY DEF ExactlyOnce, PendingOnOpenPeer, AnsweredByItsPeer, IdsInv
  <1>3. SinglePeerInv'
    BY DEF SinglePeerInv
  <1>4. PhaseInv'
    BY DEF PhaseInv, WaitsOutstanding
  <1> QED
    BY <1>1, <1>2, <1>3, <1>4

\* A new request on a peer the owner has; its owner is not closed then.
LEMMA SendRequestInv ==
  ASSUME Inv, NEW p \in Peers, SendRequest(p)
  PROVE  Inv'
  <1> DEFINE n == next + 1
  <1> USE DEF Inv
  <1>1. /\ n \in Ids /\ next \in Nat /\ next' = n
        /\ pending' = pending \cup {n}
        /\ peerOf' = [peerOf EXCEPT ![n] = IF SinglePeer THEN NoPeer ELSE p]
        /\ sentOn' = [sentOn EXCEPT ![n] = p]
        /\ timer' = [timer EXCEPT ![n] = "armed"]
        /\ UNCHANGED <<result, queued, delivered, dropped, answeredBy,
                       open, opened, phase, barrier>>
    BY ConstantsAssumption DEF SendRequest, Add, TypeOK, Ids
  <1>2. n \notin pending /\ result[n] = "none"
    <2>1. n \notin pending
      <3>1. ASSUME n \in pending PROVE n <= next
        BY <3>1, PendingIssued
      <3> QED
        BY <1>1, <3>1
    <2> QED
      BY <1>1, <2>1 DEF IdsInv
  <1> HIDE DEF n
  <1>3. TypeOK'
    <2>1. next' \in 0..MaxRequests /\ pending' \subseteq Ids
      BY <1>1, ConstantsAssumption DEF TypeOK, Ids
    <2>2. timer' \in [Ids -> WaitStates]
      BY <1>1 DEF TypeOK, WaitStates
    <2>3. peerOf' \in [Ids -> Peers \cup {NoPeer}] /\ sentOn' \in [Ids -> Peers \cup {NoPeer}]
      BY <1>1 DEF TypeOK
    <2> QED
      BY <1>1, <2>1, <2>2, <2>3 DEF TypeOK
  <1>4. ExactlyOnce'
    <2>1. SUFFICES ASSUME NEW i \in Ids
                   PROVE  queued[i] + delivered[i] + dropped[i]
                              + (IF i \in pending \cup {n} THEN 1 ELSE 0)
                            = IF i <= n THEN 1 ELSE 0
      BY <1>1 DEF ExactlyOnce
    <2>2. queued[i] \in Nat /\ delivered[i] \in Nat /\ dropped[i] \in Nat
      BY DEF TypeOK
    <2>3. i \in Nat /\ n = next + 1 /\ next \in Nat
      BY <1>1, ConstantsAssumption DEF Ids, n
    <2>4. queued[i] + delivered[i] + dropped[i] + (IF i \in pending THEN 1 ELSE 0)
             = IF i <= next THEN 1 ELSE 0
      BY DEF ExactlyOnce
    <2>5. CASE i = n
      BY <1>2, <2>2, <2>3, <2>4, <2>5
    <2>6. CASE i # n
      BY <2>2, <2>3, <2>4, <2>6
    <2> QED
      BY <2>5, <2>6
  <1>5. PendingOnOpenPeer'
    <2>1. p \in open /\ \A i \in pending : i \in Ids
      BY DEF SendRequest, TypeOK
    <2> QED
      BY <1>1, <2>1 DEF PendingOnOpenPeer, TypeOK
  <1>6. AnsweredByItsPeer'
    BY <1>1, <1>2 DEF AnsweredByItsPeer, TypeOK
  <1>7. IdsInv'
    <2>1. SUFFICES ASSUME NEW i \in Ids
                   PROVE  /\ i <= n => peerOf'[i] = IF SinglePeer THEN NoPeer ELSE sentOn'[i]
                          /\ i <= n => sentOn'[i] \in Peers
                          /\ i \in pending' \/ i > n => result[i] = "none"
                          /\ i <= n /\ i \notin pending' => result[i] \in Results
                          /\ i > n => timer'[i] = "none"
      BY <1>1 DEF IdsInv
    <2>2. i \in Nat /\ n = next + 1 /\ next \in Nat
      BY <1>1, ConstantsAssumption DEF Ids, n
    <2>3. CASE i = n
      BY <1>1, <1>2, <2>2, <2>3 DEF TypeOK
    <2>4. CASE i # n
      <3>1. /\ peerOf'[i] = peerOf[i] /\ sentOn'[i] = sentOn[i] /\ timer'[i] = timer[i]
            /\ i \in pending' <=> i \in pending
            /\ i <= n <=> i <= next
            /\ i > n <=> i > next
        BY <1>1, <2>2, <2>4 DEF TypeOK
      <3> QED
        BY <3>1 DEF IdsInv
    <2> QED
      BY <2>3, <2>4
  <1>8. SinglePeerInv'
    BY <1>1 DEF SinglePeerInv
  <1>9. PhaseInv'
    <2>1. phase \notin {"closed", "destroyed"}
      BY DEF SendRequest, PhaseInv
    <2> QED
      BY <1>1, <2>1 DEF PhaseInv, TypeOK
  <1> QED
    BY <1>3, <1>4, <1>5, <1>6, <1>7, <1>8, <1>9

\* A wait handler is queued, or runs without an effect.
LEMMA WaitMoves ==
  ASSUME Inv, NEW i \in Ids, TimerExpires(i) \/ RunAborted(i)
  PROVE  Inv'
  <1> USE DEF Inv
  <1>1. /\ timer[i] \in {"armed", "aborted"}
        /\ \E s \in {"expired", "done"} : timer' = [timer EXCEPT ![i] = s]
        /\ UNCHANGED <<next, pending, peerOf, result, queued, delivered, dropped,
                       open, opened, sentOn, answeredBy, phase, barrier>>
    BY DEF TimerExpires, RunAborted
  <1>2. TypeOK'
    BY <1>1 DEF TypeOK, WaitStates
  <1>3. ExactlyOnce' /\ PendingOnOpenPeer' /\ AnsweredByItsPeer' /\ SinglePeerInv'
    BY <1>1 DEF ExactlyOnce, PendingOnOpenPeer, AnsweredByItsPeer, SinglePeerInv
  <1>4. IdsInv'
    BY <1>1 DEF IdsInv, TypeOK
  <1>5. PhaseInv'
    <2>1. \A j \in Ids : timer'[j] = "armed" => timer[j] = "armed"
      BY <1>1 DEF TypeOK
    <2>2. WaitsOutstanding' \subseteq WaitsOutstanding
      BY <1>1 DEF WaitsOutstanding, TypeOK
    <2>3. phase = "destroyed" => i \notin barrier /\ i \in barrier
      BY <1>1 DEF PhaseInv, WaitsOutstanding
    <2> QED
      BY <1>1, <2>1, <2>2, <2>3 DEF PhaseInv
  <1> QED
    BY <1>2, <1>3, <1>4, <1>5

\* A callback runs.
LEMMA DeliverInv ==
  ASSUME Inv, NEW i \in Ids, Deliver(i)
  PROVE  Inv'
  <1> USE DEF Inv
  <1>1. /\ queued[i] > 0
        /\ queued' = [queued EXCEPT ![i] = @ - 1]
        /\ delivered' = [delivered EXCEPT ![i] = @ + 1]
        /\ UNCHANGED <<next, pending, peerOf, timer, result, dropped, open, opened,
                       sentOn, answeredBy, phase, barrier>>
    BY DEF Deliver
  <1>2. TypeOK'
    BY <1>1 DEF TypeOK
  <1>3. ExactlyOnce'
    BY <1>1 DEF ExactlyOnce, TypeOK
  <1>4. PendingOnOpenPeer' /\ AnsweredByItsPeer' /\ SinglePeerInv' /\ IdsInv'
    BY <1>1 DEF PendingOnOpenPeer, AnsweredByItsPeer, SinglePeerInv, IdsInv
  <1>5. PhaseInv'
    <2>1. phase = "live"
      BY <1>1 DEF PhaseInv
    <2> QED
      BY <1>1, <2>1 DEF PhaseInv
  <1> QED
    BY <1>2, <1>3, <1>4, <1>5

\* The dispatcher forgets the owner.
LEMMA DetachInv ==
  ASSUME Inv, Detach
  PROVE  Inv'
  <1> USE DEF Inv
  <1>1. /\ phase = "live" /\ phase' = "detached"
        /\ dropped' = [i \in Ids |-> dropped[i] + queued[i]]
        /\ queued' = [i \in Ids |-> 0]
        /\ UNCHANGED <<next, pending, peerOf, timer, result, delivered, open, opened,
                       sentOn, answeredBy, barrier>>
    BY DEF Detach
  <1>2. TypeOK'
    BY <1>1 DEF TypeOK, Phases
  <1>3. ExactlyOnce'
    BY <1>1 DEF ExactlyOnce, TypeOK
  <1>4. PendingOnOpenPeer' /\ AnsweredByItsPeer' /\ SinglePeerInv' /\ IdsInv'
    BY <1>1 DEF PendingOnOpenPeer, AnsweredByItsPeer, SinglePeerInv, IdsInv
  <1>5. PhaseInv'
    BY <1>1 DEF PhaseInv
  <1> QED
    BY <1>2, <1>3, <1>4, <1>5

\* The owner's last handler that touches the peers: nothing is pending after it,
\* and the waits still outstanding are queued in front of the owner's release.
LEMMA ShutdownCloseInv ==
  ASSUME Inv, ShutdownClose
  PROVE  Inv'
  <1> DEFINE res == With(pending, "operation_aborted")
  <1> USE DEF Inv
  <1>1. /\ phase = "detached" /\ phase' = "closed"
        /\ Complete(res, {}) /\ open' = {}
        /\ barrier' = {i \in Ids : timer'[i] \in {"expired", "aborted"}}
        /\ UNCHANGED <<next, peerOf, delivered, opened, sentOn, answeredBy>>
    <2>1. (IF SinglePeer /\ open = {} THEN {} ELSE pending) = pending
      BY DEF PendingOnOpenPeer
    <2> QED
      BY <2>1 DEF ShutdownClose, GiveUpAll, GiveUp
  <1>2. res \in [pending -> Results]
    BY DEF With, Results
  <1>3. \A i \in pending : res[i] = "operation_aborted"
    BY DEF With
  <1> HIDE DEF res
  <1>4. /\ pending' = {}
        /\ timer' \in [Ids -> WaitStates]
        /\ result' \in [Ids -> Results \cup {"none"}]
        /\ queued' \in [Ids -> Nat]
        /\ dropped' \in [Ids -> Nat]
        /\ ExactlyOnce'
        /\ \A i \in Ids : result'[i] = IF i \in pending THEN res[i] ELSE result[i]
        /\ \A i \in Ids : timer'[i] = "armed" => i \in pending'
        /\ \A i \in Ids : i \notin pending => timer'[i] = timer[i]
        /\ phase # "live" => \A i \in Ids : queued'[i] = queued[i]
    <2> DEFINE S == pending
    <2>1. S \in SUBSET pending /\ res \in [S -> Results] /\ pending \ S = {}
      BY <1>2
    <2>2. \A i \in Ids : i \in pending <=> i \in S
      OBVIOUS
    <2> HIDE DEF S, Inv
    <2>3. TypeOK /\ ExactlyOnce /\ PhaseInv
      BY DEF Inv
    <2>4. \A i \in Ids : i \notin pending => timer'[i] = timer[i]
      BY <1>1, <1>2 DEF Complete
    <2>5. next' = next /\ delivered' = delivered /\ Complete(res, {}) /\ {} \in SUBSET Ids
      BY <1>1
    <2>6. /\ pending' = pending \ S
          /\ timer' \in [Ids -> WaitStates]
          /\ result' \in [Ids -> Results \cup {"none"}]
          /\ queued' \in [Ids -> Nat]
          /\ dropped' \in [Ids -> Nat]
          /\ ExactlyOnce'
          /\ \A i \in Ids : result'[i] = IF i \in S THEN res[i] ELSE result[i]
          /\ \A i \in Ids : timer'[i] = "armed" => i \in pending'
          /\ phase # "live" => \A i \in Ids : queued'[i] = queued[i]
      BY <2>1, <2>3, <2>5, CompleteMoves
    <2> QED
      BY <2>1, <2>2, <2>4, <2>6
  <1>5. TypeOK'
    BY <1>1, <1>4 DEF TypeOK, Phases
  <1>6. PendingOnOpenPeer' /\ SinglePeerInv'
    BY <1>1, <1>4 DEF PendingOnOpenPeer, SinglePeerInv
  <1>7. AnsweredByItsPeer'
    BY <1>1, <1>3, <1>4 DEF AnsweredByItsPeer
  <1>8. IdsInv'
    <2>1. \A i \in pending : i <= next
      BY PendingIssued
    <2>2. \A i \in Ids : i > next => i \notin pending
      BY <2>1, ConstantsAssumption DEF TypeOK, Ids
    <2> QED
      BY <1>1, <1>2, <1>3, <1>4, <2>2 DEF IdsInv, Results
  <1>9. PhaseInv'
    <2>1. WaitsOutstanding' \subseteq barrier'
      BY <1>1, <1>4 DEF WaitsOutstanding
    <2> QED
      BY <1>1, <1>4, <2>1 DEF PhaseInv
  <1> QED
    BY <1>4, <1>5, <1>6, <1>7, <1>8, <1>9

\* The owner is destroyed.
LEMMA DestroyInv ==
  ASSUME Inv, Destroy
  PROVE  Inv'
  <1> USE DEF Inv, Destroy, requestVars
  <1>1. TypeOK'
    BY DEF TypeOK, Phases
  <1>2. /\ ExactlyOnce' /\ PendingOnOpenPeer' /\ AnsweredByItsPeer' /\ IdsInv'
        /\ SinglePeerInv'
    BY DEF ExactlyOnce, PendingOnOpenPeer, AnsweredByItsPeer, IdsInv, SinglePeerInv
  <1>3. PhaseInv'
    BY DEF PhaseInv, WaitsOutstanding
  <1> QED
    BY <1>1, <1>2, <1>3

-----------------------------------------------------------------------------
\* Every step preserves the inductive invariant.
LEMMA NextInv == Inv /\ [Next]_vars => Inv'
  <1> SUFFICES ASSUME Inv, [Next]_vars PROVE Inv'
    OBVIOUS
  <1>1. ASSUME NEW p \in Peers, OpenPeer(p) PROVE Inv'
    BY <1>1, OpenPeerInv
  <1>2. ASSUME NEW p \in Peers, SendRequest(p) PROVE Inv'
    BY <1>2, SendRequestInv
  <1>3. ASSUME NEW p \in Peers, PeerError(p) PROVE Inv'
    BY <1>3, PeerErrorInv
  <1>4. ASSUME NEW p \in Peers, PeerClosed(p) PROVE Inv'
    BY <1>4, PeerClosedInv
  <1>5. ASSUME NEW p \in Peers, ClosePeer(p) PROVE Inv'
    BY <1>5, ClosePeerInv
  <1>6. ASSUME NEW p \in Peers, NEW id \in Ids, ResponseReceived(p, id) PROVE Inv'
    BY <1>6, ResponseReceivedInv
  <1>7. CASE CloseAll
    BY <1>7, CloseAllInv
  <1>8. ASSUME NEW i \in Ids, TimerExpires(i) \/ RunAborted(i) PROVE Inv'
    BY <1>8, WaitMoves
  <1>9. ASSUME NEW i \in Ids, RunWait(i) PROVE Inv'
    BY <1>9, RunWaitInv
  <1>10. ASSUME NEW i \in Ids, Deliver(i) PROVE Inv'
    BY <1>10, DeliverInv
  <1>11. CASE Detach
    BY <1>11, DetachInv
  <1>12. CASE ShutdownClose
    BY <1>12, ShutdownCloseInv
  <1>13. CASE Destroy
    BY <1>13, DestroyInv
  <1>14. CASE UNCHANGED vars
    BY <1>14 DEF vars, Inv, TypeOK, ExactlyOnce, PendingOnOpenPeer, AnsweredByItsPeer,
                 IdsInv, SinglePeerInv, PhaseInv, WaitsOutstanding
  <1> QED
    BY <1>1, <1>2, <1>3, <1>4, <1>5, <1>6, <1>7, <1>8, <1>9, <1>10, <1>11, <1>12,
       <1>13, <1>14 DEF Next, Destroyed

\* The invariant holds of every behaviour.
THEOREM Invariance == Safety => []Inv
  BY InitInv, NextInv, PTL DEF Safety

\* Every variable keeps its type.
THEOREM TypeCorrect == Safety => []TypeOK
  <1>1. Inv => TypeOK
    BY DEF Inv
  <1> QED
    BY <1>1, Invariance, PTL

\* Every request is in one place: no callback is lost and none is called twice,
\* whatever the response, the timer, the close and the shutdown do.
THEOREM CallbackExactlyOnce == Safety => []ExactlyOnce
  <1>1. Inv => ExactlyOnce
    BY DEF Inv
  <1> QED
    BY <1>1, Invariance, PTL

\* A pending request's peer is still there to complete it.
THEOREM NoOrphanRequest == Safety => []PendingOnOpenPeer
  <1>1. Inv => PendingOnOpenPeer
    BY DEF Inv
  <1> QED
    BY <1>1, Invariance, PTL

\* No peer can answer a request that was sent to another, in either owner.
THEOREM ResponseFromItsPeer == Safety => []AnsweredByItsPeer
  <1>1. Inv => AnsweredByItsPeer
    BY DEF Inv
  <1> QED
    BY <1>1, Invariance, PTL

\* When the owner is destroyed no wait handler is left that would use it.
THEOREM OwnerOutlivesWaits == Safety => []NoDanglingWait
  <1>1. Inv => NoDanglingWait
    BY DEF Inv, PhaseInv, NoDanglingWait, WaitsOutstanding
  <1> QED
    BY <1>1, Invariance, PTL

-----------------------------------------------------------------------------
\* The refinement of RequestContract, and who takes a connection down.

\* Three counters that add up to one or to nothing.
LEMMA SmallSum ==
  ASSUME NEW q \in Nat, NEW d \in Nat, NEW r \in Nat
  PROVE  /\ q + d + r + 1 = 1 => q = 0 /\ d = 0 /\ r = 0
         /\ q + d + r + 1 # 0
         /\ q + d + r + 0 = 0 => q = 0 /\ d = 0 /\ r = 0
         /\ q + d + r + 0 = 1 /\ q > 0 => q = 1 /\ d = 0 /\ r = 0
  OBVIOUS

\* Where the one callback of an issued request is.
LEMMA OnePlace ==
  ASSUME Inv, NEW i \in Ids
  PROVE  /\ i \in Nat /\ next \in Nat
         /\ queued[i] \in Nat /\ delivered[i] \in Nat /\ dropped[i] \in Nat
         /\ i > next => i \notin pending /\ queued[i] = 0 /\ delivered[i] = 0 /\ dropped[i] = 0
         /\ i \in pending => i <= next /\ queued[i] = 0 /\ delivered[i] = 0 /\ dropped[i] = 0
         /\ queued[i] > 0 =>
                i <= next /\ i \notin pending /\ queued[i] = 1 /\ delivered[i] = 0 /\ dropped[i] = 0
  <1>1. i \in Nat /\ next \in Nat
    BY ConstantsAssumption DEF Inv, TypeOK, Ids
  <1>2. queued[i] \in Nat /\ delivered[i] \in Nat /\ dropped[i] \in Nat
    BY DEF Inv, TypeOK
  <1>3. queued[i] + delivered[i] + dropped[i] + (IF i \in pending THEN 1 ELSE 0)
           = IF i <= next THEN 1 ELSE 0
    BY DEF Inv, ExactlyOnce
  <1>4. /\ queued[i] + delivered[i] + dropped[i] + 1 = 1
              => queued[i] = 0 /\ delivered[i] = 0 /\ dropped[i] = 0
        /\ queued[i] + delivered[i] + dropped[i] + 1 # 0
        /\ queued[i] + delivered[i] + dropped[i] + 0 = 0
              => queued[i] = 0 /\ delivered[i] = 0 /\ dropped[i] = 0
        /\ queued[i] + delivered[i] + dropped[i] + 0 = 1 /\ queued[i] > 0
              => queued[i] = 1 /\ delivered[i] = 0 /\ dropped[i] = 0
    BY <1>2, SmallSum
  <1>5. CASE i \in pending
    BY <1>1, <1>3, <1>4, <1>5
  <1>6. CASE i \notin pending /\ i <= next
    BY <1>1, <1>2, <1>3, <1>4, <1>6
  <1>7. CASE i \notin pending /\ ~(i <= next)
    <2>1. queued[i] = 0 /\ delivered[i] = 0 /\ dropped[i] = 0
      BY <1>3, <1>4, <1>7
    <2> QED
      BY <1>1, <1>2, <1>7, <2>1
  <1> QED
    BY <1>5, <1>6, <1>7

\* What that means for the status of a request.
LEMMA StatusMeaning ==
  ASSUME Inv, NEW i \in Ids
  PROVE  /\ i > next => StatusOf(i) = "idle"
         /\ i \in pending => StatusOf(i) = "outstanding"
         /\ queued[i] > 0 => StatusOf(i) = "outstanding"
  BY OnePlace DEF StatusOf

-----------------------------------------------------------------------------
\* A step that completes the requests S changes no status while the owner is on
\* the dispatcher, and drops S afterwards.
LEMMA CompleteRefines ==
  ASSUME Inv, Inv', NEW S \in SUBSET pending, NEW res \in [S -> Results],
         NEW ran \in SUBSET Ids, Complete(res, ran),
         next' = next, delivered' = delivered,
         (phase' = "live") <=> (phase = "live")
  PROVE  [Contract!Next]_<<[i \in Ids |-> StatusOf(i)], phase = "live">>
  <1>0. S \subseteq Ids /\ DOMAIN res = S
    BY DEF Inv, TypeOK
  <1>1. CASE phase = "live"
    <2>1. dropped' = dropped
      BY <1>1 DEF Complete
    <2>2. \A i \in Ids : i \notin S => result'[i] = result[i]
      BY <1>0 DEF Complete
    <2>3. \A i \in Ids : StatusOf(i)' = StatusOf(i)
      <3>1. SUFFICES ASSUME NEW i \in Ids PROVE StatusOf(i)' = StatusOf(i)
        OBVIOUS
      <3>2. CASE i \in S
        BY <2>1, <3>2, OnePlace DEF StatusOf
      <3>3. CASE i \notin S
        BY <2>1, <2>2, <3>3 DEF StatusOf
      <3> QED
        BY <3>2, <3>3
    <2> QED
      BY <1>1, <2>3
  <1>2. CASE phase # "live"
    <2>1. dropped' = [i \in Ids |-> dropped[i] + IF i \in S THEN 1 ELSE 0]
      BY <1>0, <1>2 DEF Complete
    <2>2. \A i \in Ids : i \notin S => result'[i] = result[i]
      BY <1>0 DEF Complete
    <2>3. \A i \in Ids : StatusOf(i)' = IF i \in S THEN "dropped" ELSE StatusOf(i)
      <3>1. SUFFICES ASSUME NEW i \in Ids
                     PROVE  StatusOf(i)' = IF i \in S THEN "dropped" ELSE StatusOf(i)
        OBVIOUS
      <3>2. CASE i \in S
        BY <2>1, <3>2, OnePlace DEF StatusOf
      <3>3. CASE i \notin S
        <4>1. dropped'[i] = dropped[i]
          BY <2>1, <3>3, OnePlace
        <4> QED
          BY <2>2, <3>3, <4>1 DEF StatusOf
      <3> QED
        BY <3>2, <3>3
    <2>4. \A i \in S : StatusOf(i) = "outstanding"
      BY <1>0, StatusMeaning
    <2>5. Contract!Drop(S)
      BY <1>0, <1>2, <2>3, <2>4 DEF Contract!Drop, Contract!Outstanding
    <2> QED
      BY <1>0, <2>5 DEF Contract!Next
  <1> QED
    BY <1>1, <1>2

\* A step that leaves next, the results and the callbacks alone changes no status.
LEMMA QuietStep ==
  ASSUME UNCHANGED <<next, result, delivered, dropped>>, (phase' = "live") <=> (phase = "live")
  PROVE  [Contract!Next]_<<[i \in Ids |-> StatusOf(i)], phase = "live">>
  <1>1. \A i \in Ids : StatusOf(i)' = StatusOf(i)
    BY DEF StatusOf
  <1> QED
    BY <1>1

\* A request is issued.
LEMMA SendRefines ==
  ASSUME Inv, Inv', NEW p \in Peers, SendRequest(p)
  PROVE  [Contract!Next]_<<[i \in Ids |-> StatusOf(i)], phase = "live">>
  <1>0. PICK n \in Ids : n = next + 1
    BY ConstantsAssumption DEF SendRequest, Inv, TypeOK, Ids
  <1>1. /\ n = next + 1 /\ next \in Nat /\ next' = n /\ pending' = pending \cup {n}
        /\ UNCHANGED <<result, delivered, dropped, phase>>
    BY <1>0, ConstantsAssumption DEF SendRequest, Add, Inv, TypeOK, Ids
  <1>2. StatusOf(n) = "idle"
    BY <1>1, StatusMeaning
  <1>3. StatusOf(n)' = "outstanding"
    <2>1. delivered[n] = 0 /\ dropped[n] = 0 /\ ~(n > next')
      BY <1>1, OnePlace
    <2> QED
      BY <1>1, <2>1 DEF StatusOf
  <1>4. \A i \in Ids : i # n => StatusOf(i)' = StatusOf(i)
    <2>1. SUFFICES ASSUME NEW i \in Ids, i # n PROVE StatusOf(i)' = StatusOf(i)
      OBVIOUS
    <2>2. i > next' <=> i > next
      BY <1>1, <2>1, ConstantsAssumption DEF Ids
    <2> QED
      BY <1>1, <2>2 DEF StatusOf
  <1>5. Contract!Issue(n)
    BY <1>1, <1>2, <1>3, <1>4 DEF Contract!Issue
  <1> QED
    BY <1>1, <1>5 DEF Contract!Next

\* A callback is called, with the result its request was completed with.
LEMMA DeliverRefines ==
  ASSUME Inv, Inv', NEW i \in Ids, Deliver(i)
  PROVE  [Contract!Next]_<<[j \in Ids |-> StatusOf(j)], phase = "live">>
  <1>1. /\ queued[i] > 0
        /\ delivered' = [delivered EXCEPT ![i] = @ + 1]
        /\ UNCHANGED <<next, result, dropped, phase>>
    BY DEF Deliver
  <1>2. i <= next /\ i \notin pending /\ delivered[i] = 0 /\ next \in Nat /\ i \in Nat
    BY <1>1, OnePlace
  <1>3. phase = "live" /\ result[i] \in Results /\ StatusOf(i) = "outstanding"
    BY <1>1, <1>2, StatusMeaning DEF Inv, PhaseInv, IdsInv
  <1>4. delivered'[i] = 1
    BY <1>1, <1>2 DEF Inv, TypeOK
  <1>5. StatusOf(i)' = result[i]
    BY <1>1, <1>2, <1>4 DEF StatusOf
  <1>6. \A j \in Ids : j # i => StatusOf(j)' = StatusOf(j)
    BY <1>1 DEF StatusOf, Inv, TypeOK
  <1>7. Contract!CallBack(i, result[i])
    BY <1>1, <1>3, <1>5, <1>6 DEF Contract!CallBack
  <1> QED
    BY <1>3, <1>7 DEF Contract!Next

\* The owner leaves the dispatcher, and its queued callbacks with it.
LEMMA DetachRefines ==
  ASSUME Inv, Inv', Detach
  PROVE  [Contract!Next]_<<[i \in Ids |-> StatusOf(i)], phase = "live">>
  <1> DEFINE S == {i \in Ids : queued[i] > 0}
  <1>1. /\ phase = "live" /\ phase' = "detached"
        /\ dropped' = [i \in Ids |-> dropped[i] + queued[i]]
        /\ UNCHANGED <<next, result, delivered>>
    BY DEF Detach
  <1>2. \A i \in S : StatusOf(i) = "outstanding"
    BY StatusMeaning
  <1>3. \A i \in Ids : StatusOf(i)' = IF i \in S THEN "dropped" ELSE StatusOf(i)
    <2>1. SUFFICES ASSUME NEW i \in Ids
                   PROVE  StatusOf(i)' = IF i \in S THEN "dropped" ELSE StatusOf(i)
      OBVIOUS
    <2>2. dropped'[i] = dropped[i] + queued[i] /\ queued[i] \in Nat /\ dropped[i] \in Nat
      BY <1>1, OnePlace
    <2>3. CASE i \in S
      BY <1>1, <2>2, <2>3, OnePlace DEF StatusOf
    <2>4. CASE i \notin S
      BY <1>1, <2>2, <2>4 DEF StatusOf
    <2> QED
      BY <2>3, <2>4
  <1>4. Contract!Drop(S)
    BY <1>1, <1>2, <1>3 DEF Contract!Drop, Contract!Outstanding
  <1> QED
    BY <1>4 DEF Contract!Next

-----------------------------------------------------------------------------
\* The handlers that complete requests.

\* Completing S with one and the same result.
LEMMA CompleteAllRefines ==
  ASSUME Inv, Inv', NEW S \in SUBSET pending, NEW error \in Results,
         Complete(With(S, error), {}), next' = next, delivered' = delivered,
         (phase' = "live") <=> (phase = "live")
  PROVE  [Contract!Next]_<<[i \in Ids |-> StatusOf(i)], phase = "live">>
  <1>1. With(S, error) \in [S -> Results]
    BY DEF With
  <1> QED
    BY <1>1, CompleteRefines

\* Every handler that completes requests is a step of the contract.
LEMMA HandlersRefine ==
  ASSUME Inv, Inv',
         \/ \E p \in Peers, id \in Ids : ResponseReceived(p, id)
         \/ \E p \in Peers : PeerError(p) \/ PeerClosed(p) \/ ClosePeer(p)
         \/ CloseAll
         \/ ShutdownClose
  PROVE  [Contract!Next]_<<[i \in Ids |-> StatusOf(i)], phase = "live">>
  <1>1. ASSUME NEW p \in Peers, NEW id \in Ids, ResponseReceived(p, id)
        PROVE  \E S \in SUBSET pending, error \in Results : Complete(With(S, error), {})
    <2>1. Answers(p, id) \in SUBSET pending
      BY DEF Answers
    <2> QED
      BY <1>1, <2>1 DEF ResponseReceived, Results
  <1>2. ASSUME NEW p \in Peers, PeerError(p)
        PROVE  \E S \in SUBSET pending, error \in Results : Complete(With(S, error), {})
    <2> DEFINE S == IF SinglePeer THEN pending ELSE OfPeer(p)
    <2>1. S \in SUBSET pending
      BY DEF OfPeer
    <2>2. Complete(With(S, "peer_error"), {})
      BY <1>2 DEF PeerError
    <2> HIDE DEF S
    <2> QED
      BY <2>1, <2>2 DEF Results
  <1>3. ASSUME NEW p \in Peers, PeerClosed(p)
        PROVE  \E S \in SUBSET pending, error \in Results : Complete(With(S, error), {})
    <2>1. Victims({p}) \in SUBSET pending
      BY DEF Victims, OfPeer
    <2> QED
      BY <1>3, <2>1 DEF PeerClosed, GiveUp, Results
  <1>4. ASSUME NEW p \in Peers, ClosePeer(p)
        PROVE  \E S \in SUBSET pending, error \in Results : Complete(With(S, error), {})
    <2>1. OfPeer(p) \in SUBSET pending
      BY DEF OfPeer
    <2> QED
      BY <1>4, <2>1 DEF ClosePeer, GiveUp, Results
  <1>5. ASSUME GiveUpAll
        PROVE  \E S \in SUBSET pending, error \in Results : Complete(With(S, error), {})
    <2> DEFINE S == IF SinglePeer /\ open = {} THEN {} ELSE pending
    <2>1. S \in SUBSET pending /\ Complete(With(S, "operation_aborted"), {})
      BY <1>5 DEF GiveUpAll, GiveUp
    <2> HIDE DEF S
    <2> QED
      BY <2>1 DEF Results
  <1>6. \E S \in SUBSET pending, error \in Results : Complete(With(S, error), {})
    BY <1>1, <1>2, <1>3, <1>4, <1>5 DEF CloseAll, ShutdownClose
  <1>7. /\ next' = next /\ delivered' = delivered
        /\ (phase' = "live") <=> (phase = "live")
    BY DEF ResponseReceived, PeerError, PeerClosed, ClosePeer, CloseAll, ShutdownClose,
           GiveUpAll, GiveUp
  <1> QED
    BY <1>6, <1>7, CompleteAllRefines

\* So is the wait handler of an expired timer.
LEMMA RunWaitRefines ==
  ASSUME Inv, Inv', NEW i \in Ids, RunWait(i)
  PROVE  [Contract!Next]_<<[j \in Ids |-> StatusOf(j)], phase = "live">>
  <1> DEFINE lost == IF i \in pending THEN Invalidated(i) ELSE {}
             S == IF i \in pending THEN {i} \cup Victims(lost) ELSE {}
             error == IF SinglePeer THEN "connection_reset" ELSE "operation_aborted"
             res == [j \in S |-> IF j = i THEN "timed_out" ELSE error]
  <1>1. S \in SUBSET pending
    BY DEF Victims, OfPeer
  <1>2. res \in [S -> Results]
    BY DEF Results
  <1>3. Complete(res, {i}) /\ UNCHANGED <<next, delivered, phase>>
    BY DEF RunWait
  <1> HIDE DEF S, res
  <1> QED
    BY <1>1, <1>2, <1>3, CompleteRefines

\* Every step is a step of the contract.
LEMMA NextRefines ==
  ASSUME Inv, Inv', [Next]_vars
  PROVE  [Contract!Next]_<<[i \in Ids |-> StatusOf(i)], phase = "live">>
  <1>1. ASSUME NEW p \in Peers, SendRequest(p)
        PROVE  [Contract!Next]_<<[i \in Ids |-> StatusOf(i)], phase = "live">>
    BY <1>1, SendRefines
  <1>2. ASSUME NEW i \in Ids, Deliver(i)
        PROVE  [Contract!Next]_<<[j \in Ids |-> StatusOf(j)], phase = "live">>
    BY <1>2, DeliverRefines
  <1>3. ASSUME NEW i \in Ids, RunWait(i)
        PROVE  [Contract!Next]_<<[j \in Ids |-> StatusOf(j)], phase = "live">>
    BY <1>3, RunWaitRefines
  <1>4. CASE Detach
    BY <1>4, DetachRefines
  <1>5. ASSUME \/ \E p \in Peers : OpenPeer(p)
               \/ \E i \in Ids : TimerExpires(i) \/ RunAborted(i)
               \/ Destroy
               \/ UNCHANGED vars
        PROVE  [Contract!Next]_<<[i \in Ids |-> StatusOf(i)], phase = "live">>
    <2>1. UNCHANGED <<next, result, delivered, dropped>> /\ (phase' = "live" <=> phase = "live")
      BY <1>5 DEF OpenPeer, TimerExpires, RunAborted, Destroy, vars, requestVars
    <2> QED
      BY <2>1, QuietStep
  <1> QED
    BY <1>1, <1>2, <1>3, <1>4, <1>5, HandlersRefine DEF Next, Destroyed

\* The manager and its owner, client or server, implement the contract: each
\* request is called back once, with one result, and not after the detach.
THEOREM ImplementsContract == Safety => KeepsContract
  <1>1. Init => Contract!Init
    <2> SUFFICES ASSUME Init PROVE Contract!Init
      OBVIOUS
    <2>1. \A i \in Ids : StatusOf(i) = "idle"
      BY ConstantsAssumption DEF Init, Ids, StatusOf
    <2> QED
      BY <2>1 DEF Init, Contract!Init
  <1>2. Inv /\ Inv' /\ [Next]_vars
           => [Contract!Next]_<<[i \in Ids |-> StatusOf(i)], phase = "live">>
    BY NextRefines
  <1> QED
    BY <1>1, <1>2, Invariance, PTL DEF Safety, KeepsContract, Contract!Safety

-----------------------------------------------------------------------------
\* Only the wait handler of i ends the wait of i with no error.
LEMMA WaitEndsByRunning ==
  ASSUME Inv, [Next]_vars, NEW i \in Ids, timer[i] = "expired", timer'[i] = "done"
  PROVE  RunWait(i)
  <1> USE DEF Inv, TypeOK
  <1>1. ASSUME NEW res, Complete(res, {}) PROVE FALSE
    BY <1>1 DEF Complete
  <1>2. ASSUME NEW j \in Ids, RunWait(j) PROVE i = j
    <2>1. CASE i # j
      BY <1>2, <2>1 DEF RunWait, Complete
    <2> QED
      BY <2>1
  <1>3. ASSUME NEW p \in Peers, SendRequest(p) PROVE FALSE
    <2>1. timer' = [timer EXCEPT ![next + 1] = "armed"]
      BY <1>3 DEF SendRequest, Add
    <2> QED
      BY <2>1
  <1>4. ASSUME NEW j \in Ids, TimerExpires(j) \/ RunAborted(j) PROVE FALSE
    BY <1>4 DEF TimerExpires, RunAborted
  <1>5. ASSUME UNCHANGED timer PROVE FALSE
    BY <1>5
  <1> QED
    BY <1>1, <1>2, <1>3, <1>4, <1>5
       DEF Next, vars, requestVars, OpenPeer, PeerError, PeerClosed, ClosePeer, ResponseReceived,
           CloseAll, ShutdownClose, GiveUpAll, GiveUp, Deliver, Detach, Destroy, Destroyed

\* A timer takes a connection down only for its own request, and only when that
\* request is the one that timed out.
THEOREM TimeoutsCloseTheirOwn == Safety => TimeoutClosesOnlyItsOwn
  <1>1. ASSUME Inv, [Next]_vars, NEW i \in Ids,
               timer[i] = "expired", timer'[i] = "done", open' # open
        PROVE  i \in pending /\ result'[i] = "timed_out" /\ sentOn[i] \in open \ open'
    <2> DEFINE lost == IF i \in pending THEN Invalidated(i) ELSE {}
    <2>1. RunWait(i)
      BY <1>1, WaitEndsByRunning
    <2>2. open' = open \ lost
      BY <2>1 DEF RunWait
    <2>3. i \in pending /\ lost # {}
      BY <1>1, <2>2
    <2>4. result'[i] = "timed_out"
      BY <2>1, <2>3 DEF RunWait, Complete
    <2>5. /\ sentOn[i] \in open
          /\ peerOf[i] = IF SinglePeer THEN NoPeer ELSE sentOn[i]
      BY <1>1, <2>3, PendingIssued
    <2>6. lost \subseteq open /\ sentOn[i] \in lost
      BY <2>3, <2>5 DEF Invalidated
    <2> QED
      BY <2>2, <2>3, <2>4, <2>5, <2>6
  <1>2. Inv /\ [Next]_vars =>
          [\A i \in Ids :
             timer[i] = "expired" /\ timer'[i] = "done" /\ open' # open
                => i \in pending /\ result'[i] = "timed_out" /\ sentOn[i] \in open \ open']_vars
    BY <1>1
  <1> QED
    BY <1>2, Invariance, PTL DEF Safety, TimeoutClosesOnlyItsOwn

=============================================================================
