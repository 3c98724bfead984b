--------------------------- MODULE ServerStoryProofs ---------------------------
(***************************************************************************)
(* What the application is told of the peers of a server: the refinement   *)
(* of PeerLifecycle and the order of connected, reports and closed, for    *)
(* every number of peers and every budget.                                 *)
(***************************************************************************)
EXTENDS ServerProofs

-----------------------------------------------------------------------------
\* What a peer reports, on its two ways through the queue: of the entries that tell of it, those
\* of what it reported before and after its end.
Reporting(k) == Signals("report", k) \cup Signals("late", k)
InTime(k) == {e \in Reports(k) : e.what = "report"}
TooLate(k) == {e \in Reports(k) : e.what = "late"}
Trails(q, k) == Follows(q, TooLate(k), {}, Ends(k), {})

\* What is said of a peer: it is announced once,
Announced(k) ==
    /\ k \in exposed <=> told[k] = "connected"
    /\ Has(dq, Announcing(k)) => k \in ready
    /\ session[k] = generation /\ k <= next
         /\ (Has(dq, Announcing(k)) \/ (sock[k] = "open" /\ k \notin ready)) => told[k] = "accepted"
    /\ Has(ioq, Handlers("closePeer", k)) \/ Has(ioq, Notifying(k)) \/ told[k] \in {"connected", "closed"} =>
         k \in ready /\ ~Has(dq, Announcing(k))
    /\ Has(dq, Reports(k)) \/ Has(dq, Reporting(k)) => k \in ready \/ sock[k] # "open"
    /\ Has(dq, Signals("late", k)) => sock[k] # "open"

\* its end is on its way from the moment it is closed, ahead of what is reported after it,
Closing(k) ==
    /\ attached /\ told[k] \in {"accepted", "connected"} =>
         /\ sock[k] # "open" => Has(dq, Gone(k))
         /\ k \notin peers \/ Has(ioq, Handlers("erase", k)) => Has(dq, Ends(k)) \/ Has(ioq, Notifying(k))
    /\ told[k] \in {"accepted", "connected"} => Trails(dq, k)

\* and the rest is said in between.
InOrder(q, k) ==
    /\ NotBefore(q, Announcing(k), Announcing(k))
    /\ NotBefore(q, Signals("closed", k), Signals("ready", k))
    /\ NotBefore(q, Signals("closed", k), Signals("report", k))
    /\ NotBefore(q, Signals("late", k), Signals("closed", k))
    /\ NotBefore(q, Reporting(k), Signals("ready", k))
    /\ NotBefore(q, Ends(k), Notes(k))
    /\ NotBefore(q, Reports(k), Notes(k))
    /\ NotBefore(q, SlotEnds(k), InTime(k))
    /\ Has(q, Ends(k)) => ~Has(q, Signals("ready", k))
    /\ Has(q, Reports(k)) => ~Has(q, Signals("ready", k))
    /\ Has(q, SlotEnds(k)) => ~Has(q, Signals("report", k))

Spoken(k) == Announced(k) /\ Closing(k) /\ InOrder(dq, k)

\* What the application is told of its peers, when a peer that closes has settled whether it
\* is ready: ~LateReady.
Story == \A k \in Peers : Spoken(k)

\* A step that says nothing of k,
Hushed(k) ==
    /\ \A A \in SUBSET Words(k) : Has(dq', A) => Has(dq, A)
    /\ InOrder(dq, k) => InOrder(dq', k)
\* that leaves its end in the queue,
Remembered(k) ==
    /\ Has(dq, Gone(k)) => Has(dq', Gone(k))
    /\ Has(dq, Ends(k)) => Has(dq', Ends(k))
    /\ Trails(dq, k) => Trails(dq', k)
\* and the I/O thread's business with it.
IoLeaves(k) ==
    /\ Has(ioq', Handlers("closePeer", k)) =>
         Has(ioq, Handlers("closePeer", k)) \/ (k \in ready /\ ~Has(dq', Announcing(k)))
    /\ Has(ioq', Handlers("erase", k)) => Has(ioq, Handlers("erase", k))
    /\ Has(ioq', Notifying(k)) <=> Has(ioq, Notifying(k))
Leaves(k) ==
    /\ told'[k] = told[k] /\ session'[k] = session[k] /\ sock'[k] = sock[k]
    /\ k \in ready' <=> k \in ready
    /\ k \in exposed' <=> k \in exposed
    /\ k \in peers' <=> k \in peers
    /\ k <= next' <=> k <= next
    /\ generation' = generation /\ attached' = attached

LEMMA WordKinds ==
    ASSUME NEW k
    PROVE  /\ Announcing(k) \in SUBSET Words(k) /\ Gone(k) \in SUBSET Words(k)
           /\ \A w : Signals(w, k) \in SUBSET Words(k)
           /\ Notes(k) \in SUBSET Words(k) /\ Reports(k) \in SUBSET Words(k)
           /\ Ends(k) \in SUBSET Words(k) /\ SlotEnds(k) \in SUBSET Ends(k)
           /\ SlotEnds(k) \in SUBSET Words(k)
           /\ Reporting(k) \in SUBSET Words(k)
           /\ InTime(k) \in SUBSET Words(k) /\ TooLate(k) \in SUBSET Words(k)
           /\ InTime(k) \subseteq Reports(k) /\ TooLate(k) \subseteq Reports(k)
           /\ Announcing(k) = Signals("ready", k) \cup Notes(k)
           /\ Gone(k) = Signals("closed", k) \cup Ends(k)
           /\ Reporting(k) = Signals("report", k) \cup Signals("late", k)
BY DEF Announcing, Gone, Signals, Notes, Reports, Ends, SlotEnds, Words, Reporting, InTime, TooLate

\* The kinds of words are apart.
LEMMA WordsApart ==
    ASSUME NEW k, NEW e
    PROVE  /\ e \in Signals("ready", k) => e \notin Reporting(k) \cup Signals("closed", k)
           /\ e \in Reporting(k) => e \notin Signals("closed", k)
           /\ e \in Signals("late", k) => e \notin Signals("report", k)
           /\ \A w : e \in Signals(w, k) => e \notin Notes(k) \cup Reports(k) \cup Ends(k)
           /\ e \in Notes(k) => e \notin Reports(k) \cup Ends(k)
           /\ e \in Reports(k) => e \notin Ends(k)
           /\ e \in TooLate(k) => e \notin Ends(k) /\ e \notin InTime(k)
BY DEF Signals, Notes, Reports, Ends, Reporting, InTime, TooLate

\* What comes after the end still does when the queue loses another entry, or gets one.
LEMMA TrailsKept ==
    ASSUME NEW S, NEW q \in Seq(S), NEW k
    PROVE  /\ ~Has(q, TooLate(k)) => Trails(q, k)
           /\ q # <<>> /\ Trails(q, k) => Head(q) \notin TooLate(k)
           /\ q # <<>> /\ Trails(q, k) /\ Head(q) \notin Ends(k) => Trails(Tail(q), k)
           /\ \A x \in Seq(S) : Trails(q, k) /\ ~Has(x, TooLate(k)) => Trails(q \o x, k)
           /\ \A e \in S : Trails(q, k) /\ Has(q, Ends(k)) => Trails(q \o <<e>>, k)
<1> DEFINE X == TooLate(k)
           Y == Ends(k)
<1> HIDE DEF X, Y
<1>1. ~Has(q, X) => Follows(q, X, {}, Y, {})
  BY DEF Has, Follows
<1>2. q # <<>> /\ Follows(q, X, {}, Y, {}) =>
        /\ Head(q) \notin X
        /\ Head(q) \notin Y => Follows(Tail(q), X, {}, Y, {})
  BY FollowsPopped
<1>3. Has(q, Y) => Outlasts(q, Y, {})
  BY DEF Has, Outlasts
<1>4. Follows(q, X, {}, Y, {}) =>
        /\ \A x \in Seq(S) : ~Has(x, X) => Follows(q \o x, X, {}, Y, {})
        /\ \A e \in S : Has(q, Y) => Follows(q \o <<e>>, X, {}, Y, {})
  BY <1>3, FollowsJoined
<1>5. QED
  BY <1>1, <1>2, <1>4 DEF Trails, X, Y

LEMMA SentOther ==
    ASSUME NEW S, NEW q \in Seq(S), NEW e \in S, NEW k, e \notin TooLate(k), Trails(q, k)
    PROVE  Trails(q \o <<e>>, k)
<1>1. <<e>> \in Seq(S) /\ ~Has(<<e>>, TooLate(k))
  BY Made
<1>2. QED
  BY <1>1, TrailsKept

LEMMA AnnouncedKept ==
    ASSUME NEW k \in Peers, Announced(k),
           Has(dq', Announcing(k)) => Has(dq, Announcing(k)),
           Has(dq', Reports(k)) \/ Has(dq', Reporting(k)) => Has(dq, Reports(k)) \/ Has(dq, Reporting(k)),
           Has(dq', Signals("late", k)) => Has(dq, Signals("late", k)),
           Has(ioq', Handlers("closePeer", k)) =>
             \/ Has(ioq, Handlers("closePeer", k))
             \/ k \in ready /\ ~Has(dq', Announcing(k)),
           Has(ioq', Notifying(k)) => Has(ioq, Notifying(k)) \/ Has(ioq, Handlers("closePeer", k)),
           told'[k] = told[k], session'[k] = session[k], generation' = generation,
           sock'[k] = sock[k] \/ sock'[k] # "open", k <= next' => k <= next,
           k \in ready' <=> k \in ready, k \in exposed' <=> k \in exposed
    PROVE  Announced(k)'
<1> DEFINE A == Announcing(k)
           R == Reports(k)
           S == Reporting(k)
           T == Signals("late", k)
<1>1. (Has(dq', A) => Has(dq, A)) /\ (Has(dq', R) \/ Has(dq', S) => Has(dq, R) \/ Has(dq, S))
      /\ (Has(dq', T) => Has(dq, T))
  OBVIOUS
<1>2. Has(ioq', Handlers("closePeer", k)) \/ Has(ioq', Notifying(k)) =>
        \/ Has(ioq, Handlers("closePeer", k)) \/ Has(ioq, Notifying(k))
        \/ k \in ready /\ ~Has(dq', A)
  OBVIOUS
<1> HIDE DEF A, R, S, T
<1>3. /\ k \in exposed <=> told[k] = "connected"
      /\ Has(dq, A) => k \in ready
      /\ session[k] = generation /\ k <= next /\ (Has(dq, A) \/ (sock[k] = "open" /\ k \notin ready)) =>
           told[k] = "accepted"
      /\ Has(ioq, Handlers("closePeer", k)) \/ Has(ioq, Notifying(k)) \/ told[k] \in {"connected", "closed"} =>
           k \in ready /\ ~Has(dq, A)
      /\ Has(dq, R) \/ Has(dq, S) => k \in ready \/ sock[k] # "open"
      /\ Has(dq, T) => sock[k] # "open"
  BY DEF Announced, A, R, S, T
<1>4. /\ k \in exposed' <=> told'[k] = "connected"
      /\ Has(dq', A) => k \in ready'
      /\ Has(dq', R) \/ Has(dq', S) => k \in ready' \/ sock'[k] # "open"
      /\ Has(dq', T) => sock'[k] # "open"
  BY <1>1, <1>3
<1>5. session'[k] = generation' /\ k <= next' /\ (Has(dq', A) \/ (sock'[k] = "open" /\ k \notin ready')) =>
        told'[k] = "accepted"
  BY <1>1, <1>3
<1>6. Has(ioq', Handlers("closePeer", k)) \/ Has(ioq', Notifying(k)) \/ told'[k] \in {"connected", "closed"} =>
        k \in ready' /\ ~Has(dq', A)
  BY <1>1, <1>2, <1>3
<1>7. QED
  BY <1>4, <1>5, <1>6 DEF Announced, A, R, S, T

LEMMA SpokenKept ==
    ASSUME NEW k \in Peers, Spoken(k), Hushed(k), Remembered(k), IoLeaves(k), Leaves(k)
    PROVE  Spoken(k)'
<1>1. Announced(k)'
  BY AnnouncedKept, WordKinds DEF Spoken, Hushed, IoLeaves, Leaves
<1>2. Closing(k)'
  BY DEF Spoken, Closing, Remembered, IoLeaves, Leaves
<1>3. InOrder(dq, k)'
  BY DEF Spoken, Hushed
<1>4. QED
  BY <1>1, <1>2, <1>3 DEF Spoken

LEMMA StoryKept ==
    ASSUME Story, \A k \in Peers : Hushed(k) /\ Remembered(k) /\ IoLeaves(k),
           UNCHANGED <<told, session, sock, ready, exposed, peers, next, generation, attached>>
    PROVE  Story'
<1>1. \A k \in Peers : Leaves(k)
  BY DEF Leaves
<1>2. QED
  BY <1>1, SpokenKept DEF Story

\* A queue that is disturbed elsewhere, that loses its head, or some of its entries.
LEMMA HushedUndisturbed ==
    ASSUME NEW k, NEW W, Undisturbed(dq, dq', W), Words(k) \subseteq W
    PROVE  Hushed(k) /\ Remembered(k)
<1> DEFINE V == Words(k)
<1>1. /\ \A A \in SUBSET V : Has(dq', A) <=> Has(dq, A)
      /\ \A A, B \in SUBSET V : NotBefore(dq, A, B) => NotBefore(dq', A, B)
      /\ \A A, B \in SUBSET V : Follows(dq, A, {}, B, {}) => Follows(dq', A, {}, B, {})
  BY DEF Undisturbed
<1>2. Hushed(k)
  BY <1>1, WordKinds DEF Hushed, InOrder
<1>3. Remembered(k)
  BY <1>1, WordKinds DEF Remembered, Trails
<1>4. QED
  BY <1>2, <1>3

LEMMA HushedOthers ==
    ASSUME NEW ops, Undisturbed(dq, dq', Others(ops)),
           \A op \in {"signal", "note", "report", "peerClosed"} : op \notin ops
    PROVE  \A k \in Peers : Hushed(k) /\ Remembered(k)
<1>1. ASSUME NEW k \in Peers
      PROVE  Words(k) \subseteq Others(ops)
  <2>1. ASSUME NEW e \in Words(k)
        PROVE  e.op \in {"signal", "note", "report", "peerClosed"}
    <3>1. e \in DqEntries /\ e.who # None
      BY Names DEF Words
    <3>2. QED
      BY <3>1, DqRead
  <2>2. QED
    BY <2>1 DEF Words, Others
<1>2. QED
  BY <1>1, HushedUndisturbed

LEMMA InOrderTail ==
    ASSUME NEW q \in Seq(DqEntries), q # <<>>, NEW k, InOrder(q, k)
    PROVE  InOrder(Tail(q), k)
<1>1. \A A, B : NotBefore(q, A, B) => NotBefore(Tail(q), A, B)
  BY Popped
<1>2. \A A : Has(Tail(q), A) => Has(q, A)
  BY Popped
<1>3. QED
  BY <1>1, <1>2 DEF InOrder

LEMMA HushedPopped ==
    ASSUME Typed, dq # <<>>, dq' = Tail(dq), NEW k
    PROVE  Hushed(k) /\ (E \notin Gone(k) => Remembered(k))
<1>1. dq \in Seq(DqEntries)
  BY DEF Typed, DqTyped
<1>2. InOrder(dq, k) => InOrder(dq', k)
  BY <1>1, InOrderTail
<1>3. \A A : Has(dq, A) <=> E \in A \/ Has(dq', A)
  BY <1>1, Popped DEF E
<1>4. E \notin Gone(k) => E \notin Ends(k)
  BY WordKinds
<1>5. E \notin Gone(k) => (Trails(dq, k) => Trails(dq', k))
  BY <1>1, <1>4, TrailsKept DEF E
<1>6. QED
  BY <1>2, <1>3, <1>4, <1>5 DEF Hushed, Remembered

LEMMA HushedErased ==
    ASSUME Typed, NEW I \in SUBSET DOMAIN dq, dq' = Selected(dq, I), NEW k
    PROVE  /\ Hushed(k)
           /\ (\A i \in DOMAIN dq : dq[i] \in Ends(k) => i \in I) =>
                /\ Has(dq, Ends(k)) => Has(dq', Ends(k))
                /\ Trails(dq, k) => Trails(dq', k)
<1>1. dq \in Seq(DqEntries)
  BY DEF Typed, DqTyped
<1>2. \A A, B : NotBefore(dq, A, B) => NotBefore(dq', A, B)
  BY <1>1, Filtered
<1>3. /\ \A A : Has(dq', A) => Has(dq, A)
      /\ \A A : (\A i \in DOMAIN dq : dq[i] \in A => i \in I) => (Has(dq', A) <=> Has(dq, A))
  BY <1>1, ErasedHas
<1>4. (\A i \in DOMAIN dq : dq[i] \in Ends(k) => i \in I) => (Trails(dq, k) => Trails(dq', k))
  BY <1>1, Filtered DEF Trails
<1>5. QED
  BY <1>2, <1>3, <1>4 DEF Hushed, InOrder

LEMMA HushedSent ==
    ASSUME Typed, NEW x \in Seq(DqEntries), NEW k, ~Has(x, Words(k)),
           \/ dq' = dq \o x
           \/ dq # <<>> /\ E \notin Words(k) /\ dq' = Tail(dq) \o x
    PROVE  Hushed(k) /\ Remembered(k)
<1> DEFINE W == Words(k)
<1>1. Undisturbed(dq, dq', W)
  <2>1. dq \in Seq(DqEntries) /\ ~Has(x, W)
    BY DEF Typed, DqTyped
  <2> HIDE DEF W
  <2>2. CASE dq' = dq \o x
    BY <2>1, <2>2, SentElsewhere
  <2>3. CASE dq # <<>> /\ E \notin W /\ dq' = Tail(dq) \o x
    BY <2>1, <2>3, TakenElsewhere DEF E
  <2>4. QED
    BY <2>2, <2>3 DEF W
<1>2. QED
  BY <1>1, HushedUndisturbed

LEMMA HushedSame ==
    /\ dq' = dq => \A k : Hushed(k) /\ Remembered(k)
    /\ ioq' = ioq => \A k : IoLeaves(k)
BY DEF Hushed, Remembered, IoLeaves

LEMMA IoLeavesOthers ==
    ASSUME NEW ops, Undisturbed(ioq, ioq', Others(ops)), "peerClose" \notin ops
    PROVE  \A k : /\ Has(ioq', Notifying(k)) <=> Has(ioq, Notifying(k))
                  /\ "closePeer" \notin ops /\ "erase" \notin ops => IoLeaves(k)
<1>1. \A k : Notifying(k) \in SUBSET Others(ops)
  BY DEF Notifying, Others
<1>2. \A k : Has(ioq', Notifying(k)) <=> Has(ioq, Notifying(k))
  BY <1>1 DEF Undisturbed
<1>3. QED
  BY <1>2, IoOthers DEF IoLeaves

\* A word is added: what may not be before it.
LEMMA InOrderSent ==
    ASSUME NEW q \in Seq(DqEntries), NEW k, InOrder(q, k), NEW e \in DqEntries,
           e \in Announcing(k) => ~Has(q, Announcing(k)),
           e \in Signals("ready", k) =>
             /\ ~Has(q, Gone(k)) /\ ~Has(q, Reporting(k)) /\ ~Has(q, Reports(k)),
           e \in Signals("report", k) => ~Has(q, Signals("closed", k)) /\ ~Has(q, SlotEnds(k)),
           e \in Signals("closed", k) => ~Has(q, Signals("late", k)),
           e \in Notes(k) => ~Has(q, Ends(k)) /\ ~Has(q, Reports(k)),
           e \in Reports(k) => ~Has(q, Signals("ready", k)),
           e \in InTime(k) => ~Has(q, SlotEnds(k)),
           e \in Ends(k) => ~Has(q, Signals("ready", k)),
           e \in SlotEnds(k) => ~Has(q, Signals("report", k))
    PROVE  InOrder(q \o <<e>>, k)
<1> DEFINE r == q \o <<e>>
           A == Announcing(k)
           SR == Signals("ready", k)
           SC == Signals("closed", k)
           SP == Signals("report", k)
           SL == Signals("late", k)
           SA == Reporting(k)
           N == Notes(k)
           R == Reports(k)
           I == InTime(k)
           D == Ends(k)
           L == SlotEnds(k)
           G == Gone(k)
<1>1. /\ e \in SR => e \notin SP /\ e \notin SA /\ e \notin SC /\ e \notin D /\ e \notin R
      /\ e \in SP => e \notin SC /\ e \notin D
      /\ e \in D => e \notin R /\ e \notin SP /\ e \notin SR
      /\ e \in L => e \in D
      /\ e \in R => e \notin SR
  BY WordsApart, WordKinds
<1>2. (Has(q, SC) => Has(q, G)) /\ (Has(q, D) => Has(q, G))
  BY WordKinds DEF Has
<1> HIDE DEF A, SR, SC, SP, SL, SA, N, R, I, D, L, G
<1>3. <<e>> \in Seq(DqEntries)
  OBVIOUS
<1>4. \A X, Y : NotBefore(<<e>>, X, Y) /\ (Has(<<e>>, X) <=> e \in X)
  BY Literals
<1>5. \A X : Has(r, X) <=> Has(q, X) \/ e \in X
  <2>1. \A X : Has(r, X) <=> Has(q, X) \/ Has(<<e>>, X)
    BY <1>3, SentHas
  <2>2. QED
    BY <1>4, <2>1
<1>6. \A X, Y : NotBefore(r, X, Y) <=> NotBefore(q, X, Y) /\ ~(Has(q, X) /\ e \in Y)
  <2>1. \A X, Y : NotBefore(r, X, Y) <=> /\ NotBefore(q, X, Y) /\ NotBefore(<<e>>, X, Y)
                                         /\ ~(Has(q, X) /\ Has(<<e>>, Y))
    BY <1>3, Joined
  <2>2. QED
    BY <1>4, <2>1
<1> HIDE DEF r
<1>7. /\ NotBefore(r, A, A) /\ NotBefore(r, SC, SR) /\ NotBefore(r, SC, SP)
      /\ NotBefore(r, SL, SC) /\ NotBefore(r, SA, SR)
      /\ NotBefore(r, D, N) /\ NotBefore(r, R, N) /\ NotBefore(r, L, I)
  BY <1>2, <1>6 DEF InOrder, A, SR, SC, SP, SL, SA, N, R, I, D, L, G
<1>8. /\ Has(q, D) => ~Has(q, SR)
      /\ Has(q, R) => ~Has(q, SR)
      /\ Has(q, L) => ~Has(q, SP)
  BY DEF InOrder, SR, SP, R, D, L
<1>9. /\ Has(r, D) => ~Has(r, SR)
      /\ Has(r, R) => ~Has(r, SR)
      /\ Has(r, L) => ~Has(r, SP)
  BY <1>1, <1>2, <1>5, <1>8 DEF SR, SC, SP, R, D, L, G
<1>10. QED
  BY <1>7, <1>9 DEF InOrder, A, SR, SC, SP, SL, SA, N, R, I, D, L, r

LEMMA CallSpoken ==
    ASSUME Typed, Story, NEW op \in {"start", "stop"}, Call(op)
    PROVE  Story'
<1>1. \A k \in Peers : Hushed(k) /\ Remembered(k)
  BY CallTyped, HushedOthers
<1>2. \A k \in Peers : IoLeaves(k)
  BY HushedSame DEF Call, scopeVars, taskVars, acceptorVars, peerVars, probeVars, appVars
<1>3. UNCHANGED <<told, session, sock, ready, exposed, peers, next, generation, attached>>
  BY DEF Call, scopeVars, taskVars, acceptorVars, peerVars, probeVars, appVars
<1>4. QED
  BY <1>1, <1>2, <1>3, StoryKept

LEMMA StartSpoken ==
    ASSUME Typed, Story, Start
    PROVE  Story'
<1>1. \A k \in Peers : Hushed(k) /\ Remembered(k)
  BY StartTyped, HushedOthers
<1>2. \A k \in Peers : IoLeaves(k)
  BY StartTyped, IoLeavesOthers
<1>3. UNCHANGED <<told, session, sock, ready, exposed, peers, next, generation, attached>>
  BY DEF Start, Dispatching, Post, Dispatched, taskVars, acceptorVars, peerVars, probeVars,
     appVars
<1>4. QED
  BY <1>1, <1>2, <1>3, StoryKept

LEMMA PostStopSpoken ==
    ASSUME Typed, Story, PostStop
    PROVE  Story'
<1>1. \A k \in Peers : Hushed(k) /\ Remembered(k)
  BY PostStopTyped, HushedOthers
<1>2. \A k \in Peers : IoLeaves(k)
  BY PostStopTyped, IoLeavesOthers
<1>3. UNCHANGED <<told, session, sock, ready, exposed, peers, next, generation, attached>>
  BY DEF PostStop, Enqueue, Post, scopeVars, taskVars, acceptorVars, peerVars, probeVars,
     appVars
<1>4. QED
  BY <1>1, <1>2, <1>3, StoryKept

LEMMA DebounceSpoken ==
    ASSUME Typed, Story, Debounce
    PROVE  Story'
<1>1. \A k \in Peers : Hushed(k) /\ Remembered(k)
  BY DebounceTyped, HushedOthers
<1>2. \A k \in Peers : IoLeaves(k)
  BY HushedSame DEF Debounce, Dispatched, scopeVars, acceptorVars, peerVars, probeVars, appVars
<1>3. UNCHANGED <<told, session, sock, ready, exposed, peers, next, generation, attached>>
  BY DEF Debounce, Dispatched, scopeVars, acceptorVars, peerVars, probeVars, appVars
<1>4. QED
  BY <1>1, <1>2, <1>3, StoryKept

LEMMA RetrySpoken ==
    ASSUME Typed, Story, Retry
    PROVE  Story'
<1>1. \A k \in Peers : Hushed(k) /\ Remembered(k)
  BY HushedSame DEF Retry, Post, scopeVars, acceptorVars, peerVars, probeVars, appVars
<1>2. \A k \in Peers : IoLeaves(k)
  BY RetryTyped, IoLeavesOthers
<1>3. UNCHANGED <<told, session, sock, ready, exposed, peers, next, generation, attached>>
  BY DEF Retry, Post, scopeVars, acceptorVars, peerVars, probeVars, appVars
<1>4. QED
  BY <1>1, <1>2, <1>3, StoryKept

LEMMA TimerSpoken ==
    ASSUME Typed, Story, Timer
    PROVE  Story'
<1>1. \A k \in Peers : Hushed(k) /\ Remembered(k)
  BY TimerTyped, HushedOthers
<1>2. \A k \in Peers : IoLeaves(k)
  BY HushedSame DEF Timer, Dispatched, scopeVars, acceptorVars, peerVars, probeVars, appVars
<1>3. UNCHANGED <<told, session, sock, ready, exposed, peers, next, generation, attached>>
  BY DEF Timer, Dispatched, scopeVars, acceptorVars, peerVars, probeVars, appVars
<1>4. QED
  BY <1>1, <1>2, <1>3, StoryKept

LEMMA WatchFiresSpoken ==
    ASSUME Typed, Story, WatchFires
    PROVE  Story'
<1>1. \A k \in Peers : Hushed(k) /\ Remembered(k)
  BY WatchFiresTyped, HushedOthers
<1>2. \A k \in Peers : IoLeaves(k)
  BY HushedSame DEF WatchFires, Enqueue, scopeVars, taskVars, acceptorVars, peerVars, probeVars,
     appVars
<1>3. UNCHANGED <<told, session, sock, ready, exposed, peers, next, generation, attached>>
  BY DEF WatchFires, Enqueue, scopeVars, taskVars, acceptorVars, peerVars, probeVars, appVars
<1>4. QED
  BY <1>1, <1>2, <1>3, StoryKept

LEMMA CheckSpoken ==
    ASSUME Typed, Story, Check
    PROVE  Story'
<1>1. \A k \in Peers : Hushed(k) /\ Remembered(k)
  BY CheckTyped, HushedOthers
<1>2. \A k \in Peers : IoLeaves(k)
  BY CheckTyped, IoLeavesOthers
<1>3. UNCHANGED <<told, session, sock, ready, exposed, peers, next, generation, attached>>
  BY DEF Check, Dispatching, Post, Dispatched, scopeVars, taskVars, acceptorVars, peerVars,
     probeVars, appVars
<1>4. QED
  BY <1>1, <1>2, <1>3, StoryKept

LEMMA AcceptCompletesSpoken ==
    ASSUME Typed, Story, NEW outcome \in {"ok", "error"}, AcceptCompletes(outcome)
    PROVE  Story'
<1>1. \A k \in Peers : Hushed(k) /\ Remembered(k)
  BY HushedSame DEF AcceptCompletes, Post, peerVars, probeVars, DispatcherUnchanged, scopeVars,
     taskVars, appVars
<1>2. \A k \in Peers : IoLeaves(k)
  BY AcceptCompletesTouches, IoLeavesOthers
<1>3. UNCHANGED <<told, session, sock, ready, exposed, peers, next, generation, attached>>
  BY DEF AcceptCompletes, Post, peerVars, probeVars, DispatcherUnchanged, scopeVars, taskVars,
     appVars
<1>4. QED
  BY <1>1, <1>2, <1>3, StoryKept

LEMMA KeepAliveSpoken ==
    ASSUME Typed, Story, KeepAlive
    PROVE  Story'
<1>1. \A k \in Peers : Hushed(k) /\ Remembered(k)
  BY HushedSame DEF KeepAlive, Running, Posting, acceptorVars, peerVars, probeVars, IoUnchanged,
     DispatcherUnchanged, scopeVars, taskVars, appVars
<1>2. \A k \in Peers : IoLeaves(k)
  BY KeepAliveTyped, IoLeavesOthers
<1>3. UNCHANGED <<told, session, sock, ready, exposed, peers, next, generation, attached>>
  BY DEF KeepAlive, Running, Posting, acceptorVars, peerVars, probeVars, IoUnchanged,
     DispatcherUnchanged, scopeVars, taskVars, appVars
<1>4. QED
  BY <1>1, <1>2, <1>3, StoryKept

LEMMA ProbeIgnoredSpoken ==
    ASSUME Typed, Story, ProbeIgnored
    PROVE  Story'
<1>1. \A k \in Peers : Hushed(k) /\ Remembered(k)
  BY HushedSame DEF ProbeIgnored, Running, MayProbe, Posting, acceptorVars, peerVars, probeVars,
     IoUnchanged, Locked, DispatcherUnchanged, scopeVars, taskVars, appVars
<1>2. \A k \in Peers : IoLeaves(k)
  BY ProbeIgnoredTyped, IoLeavesOthers
<1>3. UNCHANGED <<told, session, sock, ready, exposed, peers, next, generation, attached>>
  BY DEF ProbeIgnored, Running, MayProbe, Posting, acceptorVars, peerVars, probeVars,
     IoUnchanged, Locked, DispatcherUnchanged, scopeVars, taskVars, appVars
<1>4. QED
  BY <1>1, <1>2, <1>3, StoryKept

LEMMA ProbeBeginsSpoken ==
    ASSUME Typed, Story, NEW j \in Probes, ProbeBegins(j)
    PROVE  Story'
<1>1. \A k \in Peers : Hushed(k) /\ Remembered(k)
  BY HushedSame DEF ProbeBegins, Running, MayProbe, Posting, acceptorVars, peerVars,
     DispatcherUnchanged, Locked, scopeVars, taskVars, appVars
<1>2. \A k \in Peers : IoLeaves(k)
  BY ProbeBeginsTyped, IoLeavesOthers
<1>3. UNCHANGED <<told, session, sock, ready, exposed, peers, next, generation, attached>>
  BY DEF ProbeBegins, Running, MayProbe, Posting, acceptorVars, peerVars, DispatcherUnchanged,
     Locked, scopeVars, taskVars, appVars
<1>4. QED
  BY <1>1, <1>2, <1>3, StoryKept

LEMMA ProbeConnectsSpoken ==
    ASSUME Typed, Story, NEW j \in Probes, NEW outcome \in {"ok", "failed"}, ProbeConnects(j, outcome)
    PROVE  Story'
<1>1. \A k \in Peers : Hushed(k) /\ Remembered(k)
  BY HushedSame DEF ProbeConnects, Post, acceptorVars, peerVars, DispatcherUnchanged, scopeVars,
     taskVars, appVars
<1>2. \A k \in Peers : IoLeaves(k)
  BY ProbeConnectsTouches, IoLeavesOthers
<1>3. UNCHANGED <<told, session, sock, ready, exposed, peers, next, generation, attached>>
  BY DEF ProbeConnects, Post, acceptorVars, peerVars, DispatcherUnchanged, scopeVars, taskVars,
     appVars
<1>4. QED
  BY <1>1, <1>2, <1>3, StoryKept

LEMMA ProbeAnsweredSpoken ==
    ASSUME Typed, Story, ProbeAnswered
    PROVE  Story'
<1>1. \A k \in Peers : Hushed(k) /\ Remembered(k)
  BY HushedSame DEF ProbeAnswered, Running, Locked, CloseProbe, Posting, probeVars, acceptorVars,
     peerVars, IoUnchanged, TimerOff, DispatcherUnchanged, scopeVars, taskVars, appVars
<1>2. \A k \in Peers : IoLeaves(k)
  BY ProbeAnsweredTouches, IoLeavesOthers
<1>3. UNCHANGED <<told, session, sock, ready, exposed, peers, next, generation, attached>>
  BY DEF ProbeAnswered, Running, Locked, CloseProbe, Posting, probeVars, acceptorVars, peerVars,
     IoUnchanged, TimerOff, DispatcherUnchanged, scopeVars, taskVars, appVars
<1>4. QED
  BY <1>1, <1>2, <1>3, StoryKept

LEMMA ProbeTimerExpiresSpoken ==
    ASSUME Typed, Story, NEW j \in Probes, ProbeTimerExpires(j)
    PROVE  Story'
<1>1. \A k \in Peers : Hushed(k) /\ Remembered(k)
  BY HushedSame DEF ProbeTimerExpires, Post, acceptorVars, peerVars, DispatcherUnchanged,
     scopeVars, taskVars, appVars
<1>2. \A k \in Peers : IoLeaves(k)
  BY ProbeTimerExpiresTyped, IoLeavesOthers
<1>3. UNCHANGED <<told, session, sock, ready, exposed, peers, next, generation, attached>>
  BY DEF ProbeTimerExpires, Post, acceptorVars, peerVars, DispatcherUnchanged, scopeVars,
     taskVars, appVars
<1>4. QED
  BY <1>1, <1>2, <1>3, StoryKept

LEMMA DestroySpoken ==
    ASSUME Typed, Story, Destroy
    PROVE  Story'
<1>1. \A k \in Peers : Hushed(k) /\ Remembered(k)
  BY HushedSame DEF Destroy, acceptorVars, peerVars, probeVars, IoUnchanged, DispatcherUnchanged,
     scopeVars, taskVars, appVars
<1>2. \A k \in Peers : IoLeaves(k)
  BY HushedSame DEF Destroy, acceptorVars, peerVars, probeVars, IoUnchanged, DispatcherUnchanged,
     scopeVars, taskVars, appVars
<1>3. UNCHANGED <<told, session, sock, ready, exposed, peers, next, generation, attached>>
  BY DEF Destroy, acceptorVars, peerVars, probeVars, IoUnchanged, DispatcherUnchanged, scopeVars,
     taskVars, appVars
<1>4. QED
  BY <1>1, <1>2, <1>3, StoryKept

\* What else passes through the dispatcher's queue is not about a peer.
LEMMA NotWords ==
    ASSUME NEW k \in Peers
    PROVE  /\ \A w, n : Note(w, None, n) \notin Words(k)
           /\ \A w : \A j \in Probes : Signal(w, j) \notin Words(k)
           /\ \A w, j : j # k => Signal(w, j) \notin Words(k) /\ Entry("peerClosed", j, 0, w) \notin Words(k)
           /\ \A w, j : j # k => Entry("report", j, 0, w) \notin Words(k)
           /\ \A j : j # k => About("peerClosed", j) \notin Words(k)
           /\ \A j, n : j # k => Note("ready", j, n) \notin Words(k)
BY Names DEF Words, Note, Signal, About, Entry

LEMMA HushedElsewhere ==
    ASSUME Typed, NEW k, NEW e \in DqEntries, e \notin Words(k),
           dq' = Append(dq, e) \/ dq' = dq \o <<e>> \/ dq' = dq
    PROVE  Hushed(k) /\ Remembered(k)
<1>1. dq' = dq \o <<e>> \/ dq' = dq
  BY Plain DEF Typed, DqTyped
<1>2. <<e>> \in Seq(DqEntries) /\ ~Has(<<e>>, Words(k))
  BY Made
<1>3. QED
  BY <1>1, <1>2, HushedSent, HushedSame

LEMMA NotesHushed ==
    ASSUME Typed, NEW n \in Nat, NEW w \in {"bound", "bind_failed", "closed"},
           Enqueue(<<Note(w, None, n)>>) \/ dq' = dq
    PROVE  \A k \in Peers : Hushed(k) /\ Remembered(k)
<1> DEFINE e == Note(w, None, n)
<1>1. e \in DqEntries /\ \A k \in Peers : e \notin Words(k)
  BY DqMade, NotWords
<1>2. dq' = dq \/ dq' = dq \o <<e>>
  BY DEF Enqueue
<1> HIDE DEF e
<1>3. QED
  BY <1>1, <1>2, HushedElsewhere

LEMMA BindSpoken ==
    ASSUME Typed, Story, NEW outcome \in {"bound", "bind_failed", "ignored"}, Bind(outcome)
    PROVE  Story'
<1>1. ioq # <<>> /\ H.op = "bind" /\ H.token \in Nat
  BY Heads, IoRead DEF Bind, Running, H
<1>2. \/ dq' = dq \/ Enqueue(<<Note("bound", None, H.token)>>)
      \/ Enqueue(<<Note("bind_failed", None, H.token)>>)
  BY DEF Bind
<1>3. \A k \in Peers : Hushed(k) /\ Remembered(k)
  BY <1>1, <1>2, NotesHushed
<1>4. \A k \in Peers : IoLeaves(k)
  BY BindTouches, IoLeavesOthers
<1>5. UNCHANGED <<told, session, sock, ready, exposed, peers, next, generation, attached>>
  BY DEF Bind, peerVars, DispatcherUnchanged, scopeVars, appVars
<1>6. QED
  BY <1>3, <1>4, <1>5, StoryKept

LEMMA HandleFailedHushed ==
    ASSUME Typed, NEW j \in Probes, NEW f, HandleFailed(j, f)
    PROVE  \A k \in Peers : Hushed(k) /\ Remembered(k)
<1>1. probes[j].token \in Nat
  BY Numbers
<1>2. dq' = dq \/ Enqueue(<<Note("closed", None, probes[j].token)>>)
  BY DEF HandleFailed
<1>3. QED
  BY <1>1, <1>2, NotesHushed

LEMMA ProbeConnectedSpoken ==
    ASSUME Typed, Story, ProbeConnected
    PROVE  Story'
<1>1. ioq # <<>> /\ H.op = "probeConnected" /\ H.who \in Probes
  BY Heads, IoRead DEF ProbeConnected, Running, H
<1>2. \A k \in Peers : Hushed(k) /\ Remembered(k)
  BY <1>1, HandleFailedHushed, HushedSame DEF ProbeConnected
<1>3. \A k \in Peers : IoLeaves(k)
  BY ProbeConnectedTouches, IoLeavesOthers
<1>4. UNCHANGED <<told, session, sock, ready, exposed, peers, next, generation, attached>>
  BY DEF ProbeConnected, peerVars, IoUnchanged, DispatcherUnchanged, scopeVars, appVars
<1>5. QED
  BY <1>2, <1>3, <1>4, StoryKept

LEMMA ProbeFailedSpoken ==
    ASSUME Typed, Story, ProbeFailed
    PROVE  Story'
<1>1. ioq # <<>> /\ H.op \in {"probeTimeout", "probeFailed"} /\ H.who \in Probes
  BY Heads, IoRead DEF ProbeFailed, H
<1>2. \A k \in Peers : Hushed(k) /\ Remembered(k)
  BY <1>1, HandleFailedHushed, HushedSame DEF ProbeFailed
<1>3. \A k \in Peers : IoLeaves(k)
  BY ProbeFailedTouches, IoLeavesOthers
<1>4. UNCHANGED <<told, session, sock, ready, exposed, peers, next, generation, attached>>
  BY DEF ProbeFailed, peerVars, IoUnchanged, DispatcherUnchanged, scopeVars, appVars
<1>5. QED
  BY <1>2, <1>3, <1>4, StoryKept

LEMMA ProbeAnswersSpoken ==
    ASSUME Typed, Story, NEW j \in Probes, ProbeAnswers(j)
    PROVE  Story'
<1>1. \A k \in Peers : Hushed(k) /\ Remembered(k)
  BY DqMade, NotWords, HushedElsewhere DEF ProbeAnswers
<1>2. UNCHANGED <<ioq, told, session, sock, ready, exposed, peers, next, generation, attached>>
  BY DEF ProbeAnswers, peerVars, IoUnchanged, DispatcherUnchanged, scopeVars, appVars
<1>3. QED
  BY <1>1, <1>2, HushedSame, StoryKept

LEMMA ProbeEndsSpoken ==
    ASSUME Typed, Story, NEW j \in Probes, ProbeEnds(j)
    PROVE  Story'
<1>1. \A k \in Peers : Hushed(k) /\ Remembered(k)
  BY DqMade, NotWords, HushedElsewhere DEF ProbeEnds
<1>2. UNCHANGED <<ioq, told, session, sock, ready, exposed, peers, next, generation, attached>>
  BY DEF ProbeEnds, peerVars, DispatcherUnchanged, scopeVars, appVars
<1>3. QED
  BY <1>1, <1>2, HushedSame, StoryKept

LEMMA RunProbeCloseSpoken ==
    ASSUME Typed, Story, RunProbeClose
    PROVE  Story'
<1>1. ioq # <<>> /\ H.op = "probeClose" /\ H.who \in Probes
  BY Heads, IoRead DEF RunProbeClose, Running, H
<1>2. \A k \in Peers : Hushed(k) /\ Remembered(k)
  BY <1>1, DqMade, NotWords, HushedElsewhere DEF RunProbeClose
<1>3. \A k \in Peers : IoLeaves(k)
  BY RunProbeCloseTyped, IoLeavesOthers
<1>4. UNCHANGED <<told, session, sock, ready, exposed, peers, next, generation, attached>>
  BY DEF RunProbeClose, peerVars, IoUnchanged, DispatcherUnchanged, scopeVars, appVars
<1>5. QED
  BY <1>2, <1>3, <1>4, StoryKept

LEMMA ReleaseProbeSpoken ==
    ASSUME Typed, Story, NEW j \in Probes, ReleaseProbe(j)
    PROVE  Story'
<1> DEFINE I == {i \in DOMAIN dq : dq[i].who # j}
<1>1. I \in SUBSET DOMAIN dq /\ dq' = Selected(dq, I)
  BY DEF ReleaseProbe
<1>2. \A k \in Peers : \A i \in DOMAIN dq : dq[i] \in Words(k) => i \in I
  BY Names DEF Words
<1> HIDE DEF I
<1>3. \A k \in Peers : Hushed(k) /\ Remembered(k)
  <2> SUFFICES ASSUME NEW k \in Peers PROVE Hushed(k) /\ Remembered(k)
    OBVIOUS
  <2> DEFINE W == Words(k)
  <2>1. dq \in Seq(DqEntries) /\ \A i \in DOMAIN dq : dq[i] \in W => i \in I
    BY <1>2 DEF Typed, DqTyped
  <2> HIDE DEF W
  <2>2. Undisturbed(dq, dq', W)
    BY <1>1, <2>1, ErasedElsewhere
  <2>3. QED
    BY <2>2, HushedUndisturbed DEF W
<1>4. UNCHANGED <<ioq, told, session, sock, ready, exposed, peers, next, generation, attached>>
  BY DEF ReleaseProbe, peerVars, IoUnchanged, DispatcherUnchanged, scopeVars, appVars
<1>5. QED
  BY <1>3, <1>4, HushedSame, StoryKept

LEMMA NotifySpoken ==
    ASSUME Typed, Story, Notify
    PROVE  Story'
<1>1. dq # <<>> /\ E \in DqEntries /\ E.op = "note" /\ E = Head(dq)
  BY Heads DEF Notify, Dispatching, E
<1>2. \A k : E \notin Gone(k)
  BY <1>1 DEF Gone, Signals, Ends
<1>3. \A k \in Peers : Hushed(k) /\ Remembered(k)
  <2>1. CASE dq' = Tail(dq) \o <<>>
    <3>1. dq' = Tail(dq)
      BY <1>1, <2>1 DEF Typed, DqTyped
    <3>2. QED
      BY <1>1, <1>2, <3>1, HushedPopped
  <2>2. CASE IsCurrent(E.token) /\ E.what # "ready" /\ dq' = Tail(dq) \o Followups(E.what)
    <3>1. E.who = None /\ E.what \in {"bound", "bind_failed", "closed"}
      BY <1>1, <2>2, DqRead
    <3>2. /\ Followups(E.what) = <<Do("timerStart")>> \/ Followups(E.what) = <<Do("timerStop"), Do("debounce")>>
      BY <3>1 DEF Followups, Retried
    <3>3. \A k \in Peers : E \notin Words(k) /\ \A op : Do(op) \notin Words(k)
      BY <3>1, Names DEF Words, Do, Entry
    <3>4. /\ Do("timerStart") \in DqEntries /\ Do("timerStop") \in DqEntries /\ Do("debounce") \in DqEntries
      BY DqMade
    <3> DEFINE e == Do("timerStart")
               f == Do("timerStop")
               g == Do("debounce")
    <3>5. e \in DqEntries /\ f \in DqEntries /\ g \in DqEntries
          /\ \A k \in Peers : e \notin Words(k) /\ f \notin Words(k) /\ g \notin Words(k)
      BY <3>3, <3>4
    <3>6. dq' = Tail(dq) \o <<e>> \/ dq' = Tail(dq) \o <<f, g>>
      BY <2>2, <3>2
    <3> HIDE DEF e, f, g
    <3>7. /\ <<e>> \in Seq(DqEntries) /\ <<f, g>> \in Seq(DqEntries)
          /\ \A k \in Peers : ~Has(<<e>>, Words(k)) /\ ~Has(<<f, g>>, Words(k))
      BY <3>5, Made
    <3>8. QED
      BY <1>1, <3>3, <3>6, <3>7, HushedSent
  <2>3. QED
    BY <2>1, <2>2 DEF Notify, Dispatched
<1>4. UNCHANGED <<ioq, told, session, sock, ready, exposed, peers, next, generation, attached>>
  BY DEF Notify, peerVars, scopeVars
<1>5. QED
  BY <1>3, <1>4, HushedSame, StoryKept

LEMMA ReportSpoken ==
    ASSUME Typed, Story, Report
    PROVE  Story'
<1>1. dq # <<>> /\ E.op = "report" /\ dq' = Tail(dq) \o <<>>
  BY DEF Report, Dispatching, Dispatched, E
<1>2. dq' = Tail(dq) /\ \A k : E \notin Gone(k)
  BY <1>1 DEF Gone, Signals, Ends, Typed, DqTyped
<1>3. \A k \in Peers : Hushed(k) /\ Remembered(k)
  BY <1>1, <1>2, HushedPopped
<1>4. UNCHANGED <<ioq, told, session, sock, ready, exposed, peers, next, generation, attached>>
  BY DEF Report, peerVars, scopeVars, appVars
<1>5. QED
  BY <1>3, <1>4, HushedSame, StoryKept

\* The handlers that are posted about a peer.
LEMMA IoSentHas ==
    ASSUME Typed, NEW x \in Seq(IoEntries),
           \/ ioq' = ioq \o x
           \/ ioq # <<>> /\ ioq' = Tail(ioq) \o x
    PROVE  \A A : /\ Has(ioq', A) => Has(ioq, A) \/ Has(x, A)
                  /\ Has(x, A) => Has(ioq', A)
                  /\ Has(ioq, A) => Has(ioq', A) \/ (H \in A /\ ioq # <<>>)
<1>1. ioq \in Seq(IoEntries)
  BY DEF Typed, IoTyped
<1>2. CASE ioq' = ioq \o x
  BY <1>1, <1>2, SentHas
<1>3. CASE ioq # <<>> /\ ioq' = Tail(ioq) \o x
  BY <1>1, <1>3, TakenHas DEF H
<1>4. QED
  BY <1>2, <1>3

LEMMA IoSentOne ==
    ASSUME Typed, NEW t \in IoEntries,
           \/ ioq' = ioq \o <<t>>
           \/ ioq # <<>> /\ ioq' = Tail(ioq) \o <<t>>
    PROVE  \A A : /\ Has(ioq', A) => Has(ioq, A) \/ t \in A
                  /\ t \in A => Has(ioq', A)
                  /\ Has(ioq, A) => Has(ioq', A) \/ (H \in A /\ ioq # <<>>)
<1>1. <<t>> \in Seq(IoEntries)
  BY Made
<1>2. \A A : Has(<<t>>, A) <=> t \in A
  BY Literals
<1>3. QED
  BY <1>1, <1>2, IoSentHas

LEMMA PeerHandlersMade ==
    ASSUME NEW id \in Peers
    PROVE  \A op \in {"closePeer", "erase"} :
             /\ About(op, id) \in IoEntries
             /\ \A k : About(op, id) \notin Notifying(k)
             /\ \A k, o : About(op, id) \in Handlers(o, k) <=> (o = op /\ k = id)
BY IoMade DEF About, Entry, Notifying, Handlers

LEMMA AsyncClosePeerSpoken ==
    ASSUME Typed, Story, NEW id \in Peers, AsyncClosePeer(id)
    PROVE  Story'
<1> DEFINE t == About("closePeer", id)
<1>1. /\ t \in IoEntries
      /\ \A k : t \notin Notifying(k) /\ t \notin Handlers("erase", k)
      /\ \A k : t \in Handlers("closePeer", k) => k = id
  BY PeerHandlersMade
<1>2. ioq' = ioq \o <<t>>
  BY DEF AsyncClosePeer, Post
<1> HIDE DEF t
<1>3. \A A : (Has(ioq', A) => Has(ioq, A) \/ t \in A) /\ (Has(ioq, A) => Has(ioq', A) \/ t \in A)
  <2>1. ioq \in Seq(IoEntries) /\ <<t>> \in Seq(IoEntries)
    BY <1>1, Made DEF Typed, IoTyped
  <2>2. \A A : Has(<<t>>, A) <=> t \in A
    BY Literals
  <2>3. QED
    BY <1>2, <2>1, <2>2, SentHas
<1>4. /\ dq' = dq /\ told[id] \in {"connected", "closed"}
      /\ UNCHANGED <<told, session, sock, ready, exposed, peers, next, generation, attached>>
  BY DEF AsyncClosePeer, peerVars, scopeVars, appVars
<1>5. id \in ready /\ ~Has(dq', Announcing(id))
  BY <1>4 DEF Story, Spoken, Announced
<1>6. \A k \in Peers : IoLeaves(k)
  BY <1>1, <1>3, <1>5 DEF IoLeaves
<1>7. QED
  BY <1>4, <1>6, HushedSame, StoryKept

LEMMA NotifyReadySpoken ==
    ASSUME Typed, Sessions, Story, NEW answer \in {"verified", "refused"}, NotifyReady(answer)
    PROVE  Story'
<1>1. /\ dq # <<>> /\ E \in DqEntries /\ E = Head(dq) /\ E.op = "note" /\ E.what = "ready"
      /\ E.token = generation /\ E.who \in Known(next)
  BY Heads DEF NotifyReady, Dispatching, IsCurrent, E
<1> PICK id \in Peers : id = E.who
  BY <1>1, DqRead
<1> DEFINE A == Announcing(id)
           t == About("closePeer", id)
<1>2. id \in Peers /\ id \in 1..next /\ E \in Notes(id) /\ id <= next
  <2>1. id \in Peers
    OBVIOUS
  <2>2. id \in 1..next
    BY <1>1, <2>1, Numbers
  <2>3. QED
    BY <1>1, <2>1, <2>2, Numbers DEF Notes
<1>3. dq \in Seq(DqEntries) /\ dq' = Tail(dq)
  <2>1. dq \in Seq(DqEntries)
    BY DEF Typed, DqTyped
  <2>2. dq' = Tail(dq) \o <<>>
    BY DEF NotifyReady, Dispatched
  <2>3. QED
    BY <1>1, <2>1, <2>2
<1>4. /\ \A B : Has(dq, B) <=> E \in B \/ Has(dq', B)
      /\ \A B, C : NotBefore(dq, B, C) => ~(E \in B /\ Has(dq', C))
  BY <1>1, <1>3, Popped
<1>5. session[id] = generation
  <2> DEFINE S == Astray(id, session[id])
  <2>1. ~Has(dq, S)
    BY <1>2 DEF Sessions
  <2>2. E \notin S
    <3> HIDE DEF S
    <3>1. QED
      BY <1>4, <2>1
  <2>3. QED
    BY <1>1, <1>2, <2>2 DEF Astray
<1>6. E \in A /\ Has(dq, A) /\ ~Has(dq', A) /\ id \in ready /\ told[id] = "accepted"
  <2>1. E \in A
    BY <1>2 DEF Announcing
  <2>2. /\ Has(dq, A) => id \in ready
        /\ session[id] = generation /\ id <= next /\ Has(dq, A) => told[id] = "accepted"
        /\ NotBefore(dq, A, A)
    BY <1>2 DEF Story, Spoken, Announced, InOrder
  <2> HIDE DEF A
  <2>3. Has(dq, A) /\ ~Has(dq', A)
    BY <1>4, <2>1, <2>2
  <2>4. QED
    BY <1>2, <1>5, <2>1, <2>2, <2>3
<1>7. /\ UNCHANGED <<session, sock, ready, peers, next, generation, attached>>
      /\ \/ told' = [told EXCEPT ![id] = "connected"] /\ exposed' = exposed \cup {id} /\ ioq' = ioq
         \/ ioq' = ioq \o <<t>> /\ UNCHANGED <<exposed, told>>
  BY DEF NotifyReady, Post, scopeVars, peerVars
<1>8. \A k \in Peers : Hushed(k) /\ Remembered(k)
  <2>1. \A k : E \notin Gone(k)
    BY <1>1 DEF Gone, Signals, Ends
  <2>2. QED
    BY <1>1, <1>3, <2>1, HushedPopped
<1>9. \A k \in Peers : IoLeaves(k)
  <2>1. CASE ioq' = ioq
    BY <2>1, HushedSame
  <2>2. CASE ioq' = ioq \o <<t>>
    <3>1. /\ t \in IoEntries
          /\ \A k : t \notin Notifying(k) /\ t \notin Handlers("erase", k)
          /\ \A k : t \in Handlers("closePeer", k) => k = id
      BY <1>2, PeerHandlersMade
    <3> HIDE DEF t
    <3>2. \A B : (Has(ioq', B) => Has(ioq, B) \/ t \in B) /\ (Has(ioq, B) => Has(ioq', B) \/ t \in B)
      <4>1. ioq \in Seq(IoEntries) /\ <<t>> \in Seq(IoEntries)
        BY <3>1, Made DEF Typed, IoTyped
      <4>2. \A B : Has(<<t>>, B) <=> t \in B
        BY Literals
      <4>3. QED
        BY <2>2, <4>1, <4>2, SentHas
    <3>3. QED
      BY <1>6, <3>1, <3>2 DEF IoLeaves
  <2>3. QED
    BY <1>7, <2>1, <2>2
<1> HIDE DEF t
<1>10. ASSUME NEW k \in Peers, k # id \/ UNCHANGED <<exposed, told>>
       PROVE  Spoken(k)'
  <2>1. told'[k] = told[k] /\ (k \in exposed' <=> k \in exposed)
    BY <1>7, <1>10 DEF Typed, StateTyped, PeersTyped
  <2>2. Leaves(k)
    BY <1>7, <2>1 DEF Leaves
  <2>3. QED
    BY <1>8, <1>9, <2>2, SpokenKept DEF Story
<1>11. ASSUME told' = [told EXCEPT ![id] = "connected"], exposed' = exposed \cup {id}, ioq' = ioq
       PROVE  Spoken(id)'
  <2>1. told'[id] = "connected" /\ id \in exposed'
    BY <1>2, <1>11 DEF Typed, StateTyped, PeersTyped
  <2>2. Announced(id)'
    <3>1. Has(dq', Signals("late", id)) => sock[id] # "open"
      BY <1>2, <1>8, WordKinds DEF Hushed, Story, Spoken, Announced
    <3>2. QED
      BY <1>6, <1>7, <2>1, <3>1 DEF Announced
  <2>3. Closing(id)
    BY <1>2 DEF Story, Spoken
  <2>4. Closing(id)'
    BY <1>2, <1>6, <1>7, <1>8, <1>11, <2>3 DEF Closing, Remembered
  <2>5. InOrder(dq, id)'
    BY <1>2, <1>8 DEF Story, Spoken, Hushed
  <2>6. QED
    BY <2>2, <2>4, <2>5 DEF Spoken
<1>12. QED
  BY <1>7, <1>10, <1>11 DEF Story

\* The end of a session: nothing is said of its peers any more.
LEMMA SessionSpoken ==
    ASSUME Typed, Story, SessionEnded, \A k \in Peers : Hushed(k) /\ IoLeaves(k),
           UNCHANGED <<sock, ready, peers, next, session>>
    PROVE  Story'
<1>1. ASSUME NEW k \in Peers
      PROVE  Spoken(k)'
  <2>1. /\ told'[k] \notin {"accepted", "connected"} /\ (told'[k] = "closed" => told[k] = "closed")
        /\ k \notin exposed'
    BY <1>1 DEF SessionEnded
  <2>2. session'[k] # generation'
    BY <1>1, Numbers DEF SessionEnded
  <2>3. Announced(k) /\ Hushed(k) /\ IoLeaves(k)
    BY <1>1 DEF Story, Spoken
  <2>4. Announced(k)'
    <3> DEFINE A == Announcing(k)
               R == Reports(k)
               S == Reporting(k)
               T == Signals("late", k)
    <3>1. /\ Has(dq', A) => Has(dq, A)
          /\ Has(dq', R) => Has(dq, R)
          /\ Has(dq', S) => Has(dq, S)
          /\ Has(dq', T) => Has(dq, T)
      BY <2>3, WordKinds DEF Hushed
    <3>2. /\ Has(ioq', Handlers("closePeer", k)) =>
               Has(ioq, Handlers("closePeer", k)) \/ (k \in ready /\ ~Has(dq', A))
          /\ Has(ioq', Notifying(k)) => Has(ioq, Notifying(k))
      BY <2>3 DEF IoLeaves
    <3>3. /\ Has(dq, A) => k \in ready
          /\ Has(ioq, Handlers("closePeer", k)) \/ Has(ioq, Notifying(k)) \/ told[k] \in {"connected", "closed"} =>
               k \in ready /\ ~Has(dq, A)
          /\ Has(dq, R) \/ Has(dq, S) => k \in ready \/ sock[k] # "open"
          /\ Has(dq, T) => sock[k] # "open"
      BY <2>3 DEF Announced
    <3> HIDE DEF A, R, S, T
    <3>4. /\ k \in exposed' <=> told'[k] = "connected"
          /\ Has(dq', A) => k \in ready'
          /\ session'[k] = generation' /\ k <= next' /\ (Has(dq', A) \/ (sock'[k] = "open" /\ k \notin ready')) =>
               told'[k] = "accepted"
          /\ Has(dq', R) \/ Has(dq', S) => k \in ready' \/ sock'[k] # "open"
          /\ Has(dq', T) => sock'[k] # "open"
      BY <2>1, <2>2, <3>1, <3>3
    <3>5. Has(ioq', Handlers("closePeer", k)) \/ Has(ioq', Notifying(k)) \/ told'[k] \in {"connected", "closed"} =>
            k \in ready' /\ ~Has(dq', A)
      BY <2>1, <3>1, <3>2, <3>3
    <3>6. QED
      BY <3>4, <3>5 DEF Announced, A, R, S, T
  <2>5. Closing(k)'
    BY <2>1 DEF Closing
  <2>6. InOrder(dq, k)'
    BY <2>3 DEF Story, Spoken, Hushed
  <2>7. QED
    BY <2>4, <2>5, <2>6 DEF Spoken
<1>2. QED
  BY <1>1 DEF Story

LEMMA EndSessionSpoken ==
    ASSUME Typed, Story, EndSession
    PROVE  Story'
<1>1. \A k \in Peers : Hushed(k)
  BY EndSessionTouches, HushedOthers
<1>2. /\ ioq' = ioq /\ SessionEnded
      /\ UNCHANGED <<sock, ready, peers, next, session>>
  BY DEF EndSession, peerVars
<1>3. QED
  BY <1>1, <1>2, HushedSame, SessionSpoken

LEMMA PostShutdownSpoken ==
    ASSUME Typed, Story, PostShutdown
    PROVE  Story'
<1>1. \A k \in Peers : IoLeaves(k)
  BY PostShutdownTouches, IoLeavesOthers
<1>2. /\ dq' = dq /\ SessionEnded
      /\ UNCHANGED <<sock, ready, peers, next, session>>
  BY DEF PostShutdown, peerVars
<1>3. QED
  BY <1>1, <1>2, HushedSame, SessionSpoken

\* The state is detached: no end is announced any more.
LEMMA DetachSpoken ==
    ASSUME Typed, Story, Detach
    PROVE  Story'
<1> DEFINE I == {i \in DOMAIN dq : dq[i].op = "signal"}
<1>1. I \in SUBSET DOMAIN dq /\ dq' = Selected(dq, I)
  BY DEF Detach
<1> HIDE DEF I
<1>2. \A k : Hushed(k)
  BY <1>1, HushedErased
<1>3. /\ UNCHANGED <<told, session, sock, ready, exposed, peers, next, generation, ioq>>
      /\ ~attached'
  BY DEF Detach, peerVars, appVars
<1>4. ASSUME NEW k \in Peers
      PROVE  Spoken(k)'
  <2>1. Announced(k)'
    BY <1>2, <1>3, AnnouncedKept, WordKinds DEF Story, Spoken, Hushed
  <2>2. Trails(dq', k)
    <3> DEFINE S == TooLate(k)
    <3>1. dq \in Seq(DqEntries) /\ \A i \in I : dq[i] \notin S
      BY DEF Typed, DqTyped, I, TooLate, Reports
    <3> HIDE DEF S
    <3>2. dq' \in Seq(DqEntries) /\ ~Has(dq', S)
      BY <1>1, <3>1, ErasedHas
    <3>3. QED
      BY <3>2, TrailsKept DEF S
  <2>3. QED
    BY <1>2, <1>3, <2>1, <2>2 DEF Story, Spoken, Closing, Hushed
<1>5. QED
  BY <1>4 DEF Story

\* A signal of a peer becomes the entry that tells of it.
LEMMA SignalSpoken ==
    ASSUME NEW q \in Seq(DqEntries), q # <<>>, NEW id \in Peers, InOrder(q, id), NEW n \in Nat,
           NEW x \in Seq(DqEntries),
           \/ x = <<>>
           \/ Head(q) \in Signals("ready", id) /\ x = <<Note("ready", id, n)>>
           \/ Head(q) \in Signals("closed", id) /\ x = <<Entry("peerClosed", id, 0, "slot")>>
           \/ Head(q) \in Signals("report", id) /\ x = <<Entry("report", id, 0, "report")>>
           \/ Head(q) \in Signals("late", id) /\ x = <<Entry("report", id, 0, "late")>>
    PROVE  InOrder(Tail(q) \o x, id)
<1> DEFINE r == Tail(q)
           h == Head(q)
           n1 == Note("ready", id, n)
           c == Entry("peerClosed", id, 0, "slot")
           p == Entry("report", id, 0, "report")
           l == Entry("report", id, 0, "late")
           A == Announcing(id)
           SR == Signals("ready", id)
           SC == Signals("closed", id)
           SP == Signals("report", id)
           SL == Signals("late", id)
           SA == Reporting(id)
           N == Notes(id)
           R == Reports(id)
           I == InTime(id)
           D == Ends(id)
           L == SlotEnds(id)
           G == Gone(id)
<1>1. n1 \in DqEntries /\ c \in DqEntries /\ p \in DqEntries /\ l \in DqEntries
  BY DqMade
<1>2. /\ n1 \in N /\ n1 \in A /\ n1 \notin SR \cup SC \cup SP \cup R \cup I \cup D \cup L
      /\ c \in D /\ c \in L /\ c \notin A \cup SR \cup SC \cup SP \cup N \cup R \cup I
      /\ p \in R /\ p \notin A \cup SR \cup SC \cup SP \cup N \cup D \cup L
      /\ l \in R /\ l \notin A \cup SR \cup SC \cup SP \cup N \cup I \cup D \cup L
  BY <1>1 DEF Note, Entry, Announcing, Signals, Notes, Reports, InTime, Ends, SlotEnds
<1>3. r \in Seq(DqEntries) /\ InOrder(r, id)
  BY InOrderTail, Popped
<1>4. (h \in SR => h \in A) /\ (h \in SR => h \notin D \cup R) /\ (h \in SP => h \notin L)
      /\ (h \in SP => h \in SA) /\ (h \in SL => h \in SA)
  BY DEF Announcing, Signals, Ends, Reports, SlotEnds, Reporting
<1>5. /\ NotBefore(q, A, A) /\ NotBefore(q, SC, SR) /\ NotBefore(q, SC, SP) /\ NotBefore(q, SA, SR)
      /\ Has(q, D) => ~Has(q, SR)
      /\ Has(q, R) => ~Has(q, SR)
      /\ Has(q, L) => ~Has(q, SP)
  BY DEF InOrder
<1> HIDE DEF r, h, n1, c, p, l, A, SR, SC, SP, SL, SA, N, R, I, D, L
<1>6. /\ \A X : Has(q, X) <=> h \in X \/ Has(r, X)
      /\ \A X, Y : NotBefore(q, X, Y) => ~(h \in X /\ Has(r, Y))
  <2>1. \A X, Y : /\ Has(q, X) <=> h \in X \/ Has(r, X)
                  /\ NotBefore(q, X, Y) => ~(h \in X /\ Has(r, Y))
    BY Popped DEF h, r
  <2>2. QED
    BY <2>1
<1>7. CASE x = <<>>
  BY <1>3, <1>7 DEF r
<1>8. CASE h \in SR /\ x = <<n1>>
  <2>1. ~Has(r, A) /\ ~Has(r, D) /\ ~Has(r, R)
    BY <1>4, <1>5, <1>6, <1>8
  <2>2. InOrder(r \o <<n1>>, id)
    BY <1>1, <1>2, <1>3, <2>1, InOrderSent DEF A, SR, SC, SP, SL, SA, N, R, I, D, L
  <2>3. QED
    BY <1>8, <2>2 DEF r
<1>9. CASE h \in SC /\ x = <<c>>
  <2>1. ~Has(r, SR) /\ ~Has(r, SP)
    BY <1>5, <1>6, <1>9
  <2>2. InOrder(r \o <<c>>, id)
    BY <1>1, <1>2, <1>3, <2>1, InOrderSent DEF A, SR, SC, SP, SL, SA, N, R, I, D, L
  <2>3. QED
    BY <1>9, <2>2 DEF r
<1>10. CASE h \in SP /\ x = <<p>>
  <2>1. ~Has(r, L) /\ ~Has(r, SR)
    BY <1>4, <1>5, <1>6, <1>10
  <2>2. InOrder(r \o <<p>>, id)
    BY <1>1, <1>2, <1>3, <2>1, InOrderSent DEF A, SR, SC, SP, SL, SA, N, R, I, D, L
  <2>3. QED
    BY <1>10, <2>2 DEF r
<1>11. CASE h \in SL /\ x = <<l>>
  <2>1. ~Has(r, SR)
    BY <1>4, <1>5, <1>6, <1>11
  <2>2. InOrder(r \o <<l>>, id)
    BY <1>1, <1>2, <1>3, <2>1, InOrderSent DEF A, SR, SC, SP, SL, SA, N, R, I, D, L
  <2>3. QED
    BY <1>11, <2>2 DEF r
<1>12. QED
  BY <1>7, <1>8, <1>9, <1>10, <1>11 DEF h, n1, c, p, l, SR, SC, SP, SL

\* The signal of a peer is dispatched.
LEMMA PeerSignalled ==
    ASSUME Typed, Ordered, Story, NEW id \in Peers, dq # <<>>, E.op = "signal", E \in DqEntries, E.who = id,
           NEW x \in Seq(DqEntries), dq' = Tail(dq) \o x,
           \/ x = <<>>
           \/ E.what = "ready" /\ x = <<Note("ready", id, session[id])>>
           \/ E.what = "closed" /\ x = <<Entry("peerClosed", id, 0, "slot")>>
           \/ E.what = "report" /\ x = <<Entry("report", id, 0, "report")>>
           \/ E.what = "late" /\ x = <<Entry("report", id, 0, "late")>>,
           attached <=> x # <<>>,
           \A k \in Peers : /\ Has(ioq', Handlers("closePeer", k)) => Has(ioq, Handlers("closePeer", k))
                            /\ Has(ioq', Notifying(k)) <=> Has(ioq, Notifying(k)),
           E.what # "closed" => (Has(ioq', Handlers("erase", id)) => Has(ioq, Handlers("erase", id))),
           UNCHANGED <<told, session, sock, ready, exposed, peers, next, generation, attached>>
    PROVE  Spoken(id)'
<1> DEFINE n1 == Note("ready", id, session[id])
           c == Entry("peerClosed", id, 0, "slot")
           p == Entry("report", id, 0, "report")
           l == Entry("report", id, 0, "late")
           A == Announcing(id)
           SR == Signals("ready", id)
           SC == Signals("closed", id)
           SP == Signals("report", id)
           SL == Signals("late", id)
           SA == Reporting(id)
           R == Reports(id)
           T == TooLate(id)
           D == Ends(id)
           G == Gone(id)
<1>1. session[id] \in Nat /\ dq \in Seq(DqEntries) /\ Spoken(id) /\ InOrder(dq, id)
  BY Numbers DEF Typed, DqTyped, Story, Spoken
<1>2. n1 \in DqEntries /\ c \in DqEntries /\ p \in DqEntries /\ l \in DqEntries
  BY <1>1, DqMade
<1>3. InOrder(dq, id)'
  <2>1. /\ E.what = "ready" => E \in SR
        /\ E.what = "closed" => E \in SC
        /\ E.what = "report" => E \in SP
        /\ E.what = "late" => E \in SL
    BY DEF Signals
  <2>2. \/ x = <<>>
        \/ E \in SR /\ x = <<n1>>
        \/ E \in SC /\ x = <<c>>
        \/ E \in SP /\ x = <<p>>
        \/ E \in SL /\ x = <<l>>
    BY <2>1
  <2>3. InOrder(dq, id)
    BY <1>1 DEF Spoken
  <2>4. InOrder(Tail(dq) \o x, id)
    <3> HIDE DEF SR, SC, SP, SL, n1, c, p, l
    <3>1. Head(dq) = E
      BY DEF E
    <3>2. QED
      BY <1>1, <2>2, <2>3, <3>1, SignalSpoken DEF SR, SC, SP, SL, n1, c, p, l
  <2>5. QED
    BY <2>4
<1>4. /\ \A B : Has(dq, B) <=> E \in B \/ Has(Tail(dq), B)
      /\ \A B : Has(dq', B) <=> Has(Tail(dq), B) \/ Has(x, B)
  BY <1>1, TakenHas DEF E
<1>5. /\ \A B : ~Has(<<>>, B)
      /\ \A e, B : Has(<<e>>, B) <=> e \in B
  BY Literals
<1>6. /\ E.what = "ready" <=> E \in SR
      /\ E.what = "ready" => E \in A
      /\ E.what \in {"report", "late"} => E \in SA
      /\ E.what = "late" <=> E \in SL
      /\ n1 \notin SA \cup SL \cup R \cup T \cup G
      /\ c \notin A \cup SA \cup SL \cup R \cup T /\ c \in D /\ c \in G
      /\ p \notin A \cup SA \cup SL \cup T /\ l \notin A \cup SA \cup SL
      /\ E.what \in {"ready", "report", "late"} => E \notin G /\ E \notin D
      /\ E \notin D
  BY <1>2 DEF Note, Entry, Announcing, Signals, Notes, Reports, Reporting, TooLate, Ends, Gone
<1>7. G = SC \cup D /\ NotBefore(dq, SL, SC)
  BY <1>1, WordKinds DEF InOrder
<1> HIDE DEF n1, c, p, l, A, SR, SC, SP, SL, SA, R, T, D, G
<1>8. /\ Has(dq, A) <=> E \in A \/ Has(Tail(dq), A)
      /\ Has(dq', A) <=> Has(Tail(dq), A) \/ Has(x, A)
      /\ Has(dq, R) <=> E \in R \/ Has(Tail(dq), R)
      /\ Has(dq', R) <=> Has(Tail(dq), R) \/ Has(x, R)
      /\ Has(dq, SA) <=> E \in SA \/ Has(Tail(dq), SA)
      /\ Has(dq', SA) <=> Has(Tail(dq), SA) \/ Has(x, SA)
      /\ Has(dq, SL) <=> E \in SL \/ Has(Tail(dq), SL)
      /\ Has(dq', SL) <=> Has(Tail(dq), SL) \/ Has(x, SL)
      /\ Has(dq, D) <=> E \in D \/ Has(Tail(dq), D)
      /\ Has(dq', D) <=> Has(Tail(dq), D) \/ Has(x, D)
      /\ Has(dq, G) <=> E \in G \/ Has(Tail(dq), G)
      /\ Has(dq', G) <=> Has(Tail(dq), G) \/ Has(x, G)
  BY <1>4
<1>9. \/ x = <<>> /\ ~Has(x, A) /\ ~Has(x, R) /\ ~Has(x, SA) /\ ~Has(x, SL) /\ ~Has(x, T)
      \/ E.what = "ready" /\ x = <<n1>> /\ ~Has(x, R) /\ ~Has(x, SA) /\ ~Has(x, SL) /\ ~Has(x, T)
      \/ E.what = "closed" /\ x = <<c>> /\ Has(x, D) /\ Has(x, G)
           /\ ~Has(x, A) /\ ~Has(x, R) /\ ~Has(x, SA) /\ ~Has(x, SL) /\ ~Has(x, T)
      \/ E.what = "report" /\ x = <<p>> /\ ~Has(x, A) /\ ~Has(x, SA) /\ ~Has(x, SL) /\ ~Has(x, T)
      \/ E.what = "late" /\ x = <<l>> /\ ~Has(x, A) /\ ~Has(x, SA) /\ ~Has(x, SL)
  <2>1. CASE x = <<>>
    BY <1>5, <2>1
  <2>2. CASE E.what = "ready" /\ x = <<n1>>
    BY <1>5, <1>6, <2>2
  <2>3. CASE E.what = "closed" /\ x = <<c>>
    BY <1>5, <1>6, <2>3
  <2>4. CASE E.what = "report" /\ x = <<p>>
    BY <1>5, <1>6, <2>4
  <2>5. CASE E.what = "late" /\ x = <<l>>
    BY <1>5, <1>6, <2>5
  <2>6. QED
    BY <2>1, <2>2, <2>3, <2>4, <2>5 DEF n1, c, p, l
<1>10. /\ Has(dq', A) => Has(dq, A)
       /\ Has(dq', R) \/ Has(dq', SA) => Has(dq, R) \/ Has(dq, SA)
       /\ Has(dq', SL) => Has(dq, SL)
       /\ Has(dq, D) => Has(dq', D)
       /\ E.what \in {"ready", "report", "late"} => (Has(dq, G) => Has(dq', G))
       /\ x = <<c>> => Has(dq', D) /\ Has(dq', G)
  <2>1. x = <<c>> => Has(x, D) /\ Has(x, G)
    BY <1>5, <1>6
  <2>2. QED
    BY <1>6, <1>8, <1>9, <2>1
<1>11. Announced(id)'
  BY <1>1, <1>10, AnnouncedKept DEF Spoken, A, SA, SL, R
<1>12. Announced(id) /\ Closing(id)
  BY <1>1 DEF Spoken
\* What is too late follows the end, which has left the signals by then.
<1>13. told[id] \in {"accepted", "connected"} => Trails(dq', id)
  <2> SUFFICES ASSUME told[id] \in {"accepted", "connected"} PROVE Trails(dq', id)
    OBVIOUS
  <2> DEFINE r == Tail(dq)
  <2>1. Trails(dq, id)
    BY <1>12 DEF Closing
  <2>2. r \in Seq(DqEntries) /\ Trails(r, id)
    <3>1. E \notin Ends(id)
      BY <1>6 DEF D
    <3>2. Tail(dq) \in Seq(DqEntries) /\ Trails(Tail(dq), id)
      BY <1>1, <2>1, <3>1, TrailsKept, Popped DEF E
    <3>3. QED
      BY <3>2
  <2> HIDE DEF r
  <2>3. CASE ~Has(x, T)
    <3>1. Trails(r \o x, id)
      BY <2>2, <2>3, TrailsKept DEF T
    <3>2. QED
      BY <3>1 DEF r
  <2>4. CASE E.what = "late" /\ x = <<l>>
    <3>1. attached
      <4>1. <<l>> # <<>>
        OBVIOUS
      <4>2. QED
        BY <2>4, <4>1
    <3>2. E \in SL /\ Has(dq, SL)
      BY <1>4, <1>6, <2>4
    <3>3. sock[id] # "open"
      BY <1>12, <3>2 DEF Announced, SL
    <3>4. Has(dq, G)
      BY <1>12, <3>1, <3>3 DEF Closing, G
    <3>5. Has(r, G) /\ ~Has(r, SC)
      <4>1. ~Has(Tail(dq), SC)
        BY <1>1, <1>7, <3>2, Popped DEF E
      <4>2. Has(Tail(dq), G)
        BY <1>6, <1>8, <2>4, <3>4
      <4>3. QED
        BY <4>1, <4>2 DEF r
    <3>6. Has(r, D)
      BY <1>7, <3>5 DEF Has
    <3>7. Trails(r \o <<l>>, id)
      BY <1>2, <2>2, <3>6, TrailsKept DEF D
    <3>8. QED
      BY <2>4, <3>7 DEF r
  <2>5. QED
    BY <1>9, <2>3, <2>4
<1>14. Closing(id)'
  <2>1. ASSUME attached
        PROVE  E.what \in {"ready", "report", "late"} \/ x = <<c>>
    BY <2>1 DEF c
  <2>2. CASE attached /\ x = <<c>>
    BY <1>10, <1>13, <2>2 DEF Closing, D, G
  <2>3. CASE E.what \in {"ready", "report", "late"}
    BY <1>10, <1>12, <1>13, <2>3 DEF Closing, D, G
  <2>4. QED
    BY <1>13, <2>1, <2>2, <2>3 DEF Closing
<1>15. QED
  BY <1>3, <1>11, <1>14 DEF Spoken

LEMMA DispatchSignalSpoken ==
    ASSUME Typed, Ordered, Story, DispatchSignal
    PROVE  Story'
<1>1. PICK x \in Seq(DqEntries), y \in Seq(IoEntries) :
         /\ dq # <<>> /\ E.op = "signal" /\ E \in DqEntries /\ E = Head(dq)
         /\ dq' = Tail(dq) \o x /\ ioq' = ioq \o y
         /\ x # <<>> => attached /\ life = "live"
         /\ \/ x = <<>>
            \/ E.who \in Peers /\ E.what = "ready" /\ x = <<Note("ready", E.who, session[E.who])>>
            \/ E.who \in Peers /\ E.what = "closed" /\ x = <<Entry("peerClosed", E.who, 0, "slot")>>
            \/ E.who \in Peers /\ E.what \in {"report", "late"} /\ x = <<Entry("report", E.who, 0, E.what)>>
         /\ attached /\ life = "live" /\ E.what \in {"ready", "closed", "report", "late"} => x # <<>>
         /\ \/ y = <<>>
            \/ E.who \in Peers /\ E.what = "closed" /\ y = <<About("erase", E.who)>>
            \/ E.who \in Probes /\ E.what = "answer" /\ y = <<About("probeAnswer", E.who)>>
            \/ E.who \in Probes /\ E.what = "failed" /\ y = <<About("probeFailed", E.who)>>
  BY SignalDispatched
<1>2. UNCHANGED <<told, session, sock, ready, exposed, peers, next, generation, attached>>
  BY DEF DispatchSignal, scopeVars, peerVars, appVars
<1>3. attached => life = "live"
  BY DEF Ordered
<1>4. /\ \/ E.who \in Peers /\ E.what \in {"ready", "closed", "report", "late"}
         \/ E.who \in Probes
  BY <1>1, DqRead
<1>5. \A k \in Peers : /\ Has(ioq', Handlers("closePeer", k)) <=> Has(ioq, Handlers("closePeer", k))
                       /\ Has(ioq', Notifying(k)) <=> Has(ioq, Notifying(k))
  <2>1. Undisturbed(ioq, ioq', Others({"erase", "probeAnswer", "probeFailed"}))
    BY DispatchSignalTouches
  <2> DEFINE ops == {"erase", "probeAnswer", "probeFailed"}
  <2>2. "closePeer" \notin ops /\ "peerClose" \notin ops
    OBVIOUS
  <2> HIDE DEF ops
  <2>3. Undisturbed(ioq, ioq', Others(ops))
    BY <2>1 DEF ops
  <2>4. \A k : Has(ioq', Handlers("closePeer", k)) <=> Has(ioq, Handlers("closePeer", k))
    BY <2>2, <2>3, IoOthers
  <2>5. \A k : Has(ioq', Notifying(k)) <=> Has(ioq, Notifying(k))
    BY <2>2, <2>3, IoLeavesOthers
  <2>6. QED
    BY <2>4, <2>5
<1>6. \A k \in Peers : (k # E.who \/ E.what # "closed") =>
        (Has(ioq', Handlers("erase", k)) => Has(ioq, Handlers("erase", k)))
  <2>1. ASSUME NEW k \in Peers, k # E.who \/ E.what # "closed"
        PROVE  Has(ioq', Handlers("erase", k)) => Has(ioq, Handlers("erase", k))
    <3> DEFINE S == Handlers("erase", k)
    <3>1. /\ About("probeAnswer", E.who) \notin S /\ About("probeFailed", E.who) \notin S
          /\ k # E.who => About("erase", E.who) \notin S
      BY DEF Handlers, About, Entry
    <3>2. ioq \in Seq(IoEntries)
      BY DEF Typed, IoTyped
    <3> HIDE DEF S
    <3>3. Has(ioq', S) <=> Has(ioq, S) \/ Has(y, S)
      BY <1>1, <3>2, SentHas
    <3>4. \A e : Has(<<e>>, S) <=> e \in S
      BY Literals
    <3>5. ~Has(<<>>, S)
      BY Literals
    <3>6. ~Has(y, S)
      BY <1>1, <2>1, <3>1, <3>4, <3>5
    <3>7. QED
      BY <3>3, <3>6 DEF S
  <2>2. QED
    BY <2>1
<1>7. ASSUME NEW k \in Peers, k # E.who
      PROVE  Spoken(k)'
  <2>1. E \notin Words(k)
    BY <1>7 DEF Words
  <2>2. ~Has(x, Words(k))
    <3>1. /\ Note("ready", E.who, session[E.who]) \notin Words(k)
          /\ Entry("peerClosed", E.who, 0, "slot") \notin Words(k)
          /\ Entry("report", E.who, 0, E.what) \notin Words(k)
      BY <1>7 DEF Words, Note, About, Entry
    <3> DEFINE W == Words(k)
    <3>2. (\A e : Has(<<e>>, W) <=> e \in W) /\ ~Has(<<>>, W)
      BY Literals
    <3> HIDE DEF W
    <3>3. ~Has(x, W)
      BY <1>1, <3>1, <3>2 DEF W
    <3>4. QED
      BY <3>3 DEF W
  <2>3. Hushed(k) /\ Remembered(k)
    BY <1>1, <2>1, <2>2, HushedSent
  <2>4. IoLeaves(k)
    BY <1>5, <1>6, <1>7 DEF IoLeaves
  <2>5. Leaves(k)
    BY <1>2 DEF Leaves
  <2>6. QED
    BY <2>3, <2>4, <2>5, SpokenKept DEF Story
<1>8. ASSUME NEW id \in Peers, id = E.who
      PROVE  Spoken(id)'
  <2>1. E.what \in {"ready", "closed", "report", "late"}
    BY <1>1, <1>8, DqRead, Names
  <2>2. \/ x = <<>>
        \/ E.what = "ready" /\ x = <<Note("ready", id, session[id])>>
        \/ E.what = "closed" /\ x = <<Entry("peerClosed", id, 0, "slot")>>
        \/ E.what = "report" /\ x = <<Entry("report", id, 0, "report")>>
        \/ E.what = "late" /\ x = <<Entry("report", id, 0, "late")>>
    BY <1>1, <1>8
  <2>3. attached <=> x # <<>>
    BY <1>1, <1>3, <2>1
  <2>4. E.what # "closed" => (Has(ioq', Handlers("erase", id)) => Has(ioq, Handlers("erase", id)))
    BY <1>6
  <2>5. QED
    BY <1>1, <1>2, <1>5, <1>8, <2>2, <2>3, <2>4, PeerSignalled
<1>9. QED
  BY <1>7, <1>8 DEF Story

\* The application is told of the end, or the id is dropped.
LEMMA PeerClosedSpoken ==
    ASSUME Typed, Owned, Story, PeerClosed
    PROVE  Story'
<1>1. dq # <<>> /\ E \in DqEntries /\ E = Head(dq) /\ E.op = "peerClosed"
  BY Heads DEF PeerClosed, Dispatching, E
<1> PICK id \in Peers : id = E.who
  BY <1>1, DqRead
<1>2. dq \in Seq(DqEntries) /\ dq' = Tail(dq)
  <2>1. dq \in Seq(DqEntries)
    BY DEF Typed, DqTyped
  <2>2. dq' = Tail(dq) \o <<>>
    BY DEF PeerClosed, Dispatched
  <2>3. QED
    BY <1>1, <2>1, <2>2
<1>3. /\ UNCHANGED <<ioq, session, sock, ready, peers, next, generation, attached>>
      /\ told' = [told EXCEPT ![id] = IF id \in exposed THEN "closed"
                                      ELSE IF @ = "accepted" THEN "over" ELSE @]
      /\ exposed' = exposed \ {id}
  BY DEF PeerClosed, Over, scopeVars, peerVars
<1>4. /\ \A k \in Peers : k # id => told'[k] = told[k] /\ (k \in exposed' <=> k \in exposed)
      /\ told'[id] = IF id \in exposed THEN "closed" ELSE IF told[id] = "accepted" THEN "over" ELSE told[id]
      /\ id \notin exposed'
  BY <1>3 DEF Typed, StateTyped, PeersTyped
<1>5. \A k \in Peers : Hushed(k) /\ IoLeaves(k) /\ (k # id => Remembered(k))
  <2>1. \A k \in Peers : k # id => E \notin Gone(k)
    BY DEF Gone, Signals, Ends
  <2>2. \A k : IoLeaves(k)
    BY <1>3, HushedSame
  <2>3. QED
    BY <1>1, <1>2, <2>1, <2>2, HushedPopped
<1>6. ASSUME NEW k \in Peers, k # id
      PROVE  Spoken(k)'
  <2>1. Leaves(k)
    BY <1>3, <1>4, <1>6 DEF Leaves
  <2>2. QED
    BY <1>5, <1>6, <2>1, SpokenKept DEF Story
<1>7. Spoken(id)'
  <2> DEFINE A == Announcing(id)
             D == Ends(id)
             SR == Signals("ready", id)
             N == Notes(id)
             R == Reports(id)
             SA == Reporting(id)
             SL == Signals("late", id)
  <2>1. Announced(id) /\ InOrder(dq, id) /\ Hushed(id) /\ IoLeaves(id)
    BY <1>5 DEF Story, Spoken
  <2>2. E \in D /\ E \in Gone(id)
    BY <1>1 DEF Ends, Gone
  <2>3. sock[id] # "open"
    <3> DEFINE G == Gone(id)
    <3>1. Has(dq, G) => sock[id] # "open"
      BY DEF Owned, Socket
    <3>2. E \in G
      BY <2>2
    <3> HIDE DEF G
    <3>3. Has(dq, G)
      BY <1>1, <1>2, <3>2, Popped
    <3>4. QED
      BY <3>1, <3>3
  <2>4. ~Has(dq', A)
    <3>1. NotBefore(dq, D, N) /\ (Has(dq, D) => ~Has(dq, SR))
      BY <2>1 DEF InOrder
    <3>2. A = SR \cup N
      BY WordKinds
    <3> HIDE DEF A, D, SR, N
    <3>3. /\ \A B : Has(dq, B) <=> E \in B \/ Has(dq', B)
          /\ \A B, C : NotBefore(dq, B, C) => ~(E \in B /\ Has(dq', C))
      BY <1>1, <1>2, Popped
    <3>4. ~Has(dq', N) /\ ~Has(dq', SR)
      BY <2>2, <3>1, <3>3
    <3>5. QED
      BY <3>2, <3>4 DEF Has
  <2>5. /\ Has(dq', A) => Has(dq, A)
        /\ Has(dq', R) => Has(dq, R)
        /\ Has(dq', SA) => Has(dq, SA)
        /\ Has(dq', SL) => Has(dq, SL)
    BY <2>1, WordKinds DEF Hushed
  <2>6. /\ id \in exposed <=> told[id] = "connected"
        /\ Has(ioq, Handlers("closePeer", id)) \/ Has(ioq, Notifying(id)) \/ told[id] \in {"connected", "closed"} =>
             id \in ready
        /\ Has(dq, R) \/ Has(dq, SA) => id \in ready \/ sock[id] # "open"
    BY <2>1 DEF Announced
  <2>7. told'[id] \notin {"accepted", "connected"} /\ (told'[id] = "closed" => told[id] \in {"connected", "closed"})
    BY <1>4, <2>6
  <2>8. Announced(id)'
    <3> HIDE DEF A, R, SA, SL
    <3>1. /\ id \in exposed' <=> told'[id] = "connected"
          /\ Has(dq', A) => id \in ready'
          /\ session'[id] = generation' /\ id <= next' /\ (Has(dq', A) \/ (sock'[id] = "open" /\ id \notin ready')) =>
               told'[id] = "accepted"
          /\ Has(dq', R) \/ Has(dq', SA) => id \in ready' \/ sock'[id] # "open"
          /\ Has(dq', SL) => sock'[id] # "open"
      BY <1>3, <1>4, <2>3, <2>4, <2>7
    <3>2. Has(ioq', Handlers("closePeer", id)) \/ Has(ioq', Notifying(id)) \/ told'[id] \in {"connected", "closed"} =>
            id \in ready' /\ ~Has(dq', A)
      BY <1>3, <2>4, <2>6, <2>7
    <3>3. QED
      BY <3>1, <3>2 DEF Announced, A, R, SA, SL
  <2>9. Closing(id)'
    BY <2>7 DEF Closing
  <2>10. QED
    BY <2>1, <2>8, <2>9 DEF Spoken, Hushed
<1>8. QED
  BY <1>6, <1>7 DEF Story

\* A new peer: nobody has spoken of it.
LEMMA AcceptedSpoken ==
    ASSUME Typed, Story, Accepted
    PROVE  Story'
<1>1. ioq # <<>> /\ H.op = "accepted" /\ H \in IoEntries /\ H.token \in Nat
  BY Heads, IoRead DEF Accepted, Running, H
<1>2. \A k \in Peers : IoLeaves(k)
  BY AcceptedTouches, IoLeavesOthers
<1>3. CASE UNCHANGED <<peerVars, appVars>> /\ (dq' = dq \/ Enqueue(<<Note("closed", None, H.token)>>))
  <2>1. \A k \in Peers : Hushed(k) /\ Remembered(k)
    BY <1>1, <1>3, NotesHushed
  <2>2. UNCHANGED <<told, session, sock, ready, exposed, peers, next, generation, attached>>
    BY <1>3 DEF Accepted, scopeVars, peerVars, appVars
  <2>3. QED
    BY <1>2, <2>1, <2>2, StoryKept
<1>4. CASE /\ next + 1 \in Peers /\ next' = next + 1 /\ peers' = peers \cup {next + 1}
           /\ sock' = [sock EXCEPT ![next + 1] = "open"]
           /\ session' = [session EXCEPT ![next + 1] = H.token]
           /\ told' = [told EXCEPT ![next + 1] = "accepted"]
           /\ UNCHANGED <<dq, ready, exposed>>
  <2> PICK id \in Peers : id = next + 1
    BY <1>4
  <2>1. next \in Nat /\ exposed \subseteq 1..next /\ ready \subseteq 1..next /\ id \notin Known(next) /\ id \notin 1..next
    BY Numbers, Names DEF Known, Typed, StateTyped, PeersTyped
  <2>2. /\ \A k \in Peers : k # id => /\ told'[k] = told[k] /\ session'[k] = session[k] /\ sock'[k] = sock[k]
                                      /\ k \in peers' <=> k \in peers
      /\ told'[id] = "accepted" /\ sock'[id] = "open" /\ id \in peers'
    BY <1>4 DEF Typed, StateTyped, PeersTyped
  <2>3. UNCHANGED <<generation, attached>> /\ dq' = dq /\ ready' = ready /\ exposed' = exposed
    BY <1>4 DEF Accepted, scopeVars
  <2>4. ASSUME NEW k \in Peers, k # id
        PROVE  Spoken(k)'
    <3>1. k \in Nat /\ (k <= next' <=> k <= next)
      BY <1>4, <2>1, <2>4, Names
    <3>2. Leaves(k)
      BY <2>2, <2>3, <2>4, <3>1 DEF Leaves
    <3>3. QED
      BY <1>2, <2>3, <3>2, HushedSame, SpokenKept DEF Story
  <2>5. Spoken(id)'
    <3>1. \A S \in SUBSET Words(id) : ~Has(dq, S)
      <4>1. Words(id) \subseteq Beyond(generation, next)
        BY <2>1 DEF Words, Beyond
      <4>2. QED
        BY <4>1 DEF Typed, DqTyped, Has
    <3>2. /\ ~Has(ioq, Handlers("closePeer", id)) /\ ~Has(ioq, Handlers("erase", id)) /\ ~Has(ioq, Notifying(id))
      <4>1. /\ Handlers("closePeer", id) \subseteq Beyond(generation, next)
            /\ Handlers("erase", id) \subseteq Beyond(generation, next)
            /\ Notifying(id) \subseteq Beyond(generation, next)
        BY <2>1 DEF Handlers, Notifying, Beyond
      <4>2. QED
        BY <4>1 DEF Typed, IoTyped, Has
    <3>3. ~Has(dq', Announcing(id)) /\ ~Has(dq', Reports(id)) /\ ~Has(dq', Reporting(id))
          /\ ~Has(dq', Signals("late", id)) /\ ~Has(dq', TooLate(id))
      BY <2>3, <3>1, WordKinds
    <3>4. ~Has(ioq', Handlers("erase", id)) /\ ~Has(ioq', Notifying(id)) /\ ~Has(ioq', Handlers("closePeer", id))
      <4>1. Undisturbed(ioq, ioq', Others({"accepted"}))
        BY AcceptedTouches
      <4>2. \A op \in {"erase", "closePeer"} : Has(ioq', Handlers(op, id)) <=> Has(ioq, Handlers(op, id))
        BY <4>1, IoOthers
      <4>3. QED
        BY <1>2, <3>2, <4>2 DEF IoLeaves
    <3>5. id \notin exposed'
      BY <2>1, <2>3
    <3>6. Announced(id)'
      BY <2>2, <3>3, <3>4, <3>5 DEF Announced
    <3>7. Closing(id)'
      <4>1. dq' \in Seq(DqEntries)
        BY <2>3 DEF Typed, DqTyped
      <4>2. Trails(dq', id)
        BY <3>3, <4>1, TrailsKept
      <4>3. QED
        BY <2>2, <3>4, <4>2 DEF Closing
    <3>8. InOrder(dq, id)'
      BY <2>3 DEF Story, Spoken
    <3>9. QED
      BY <3>6, <3>7, <3>8 DEF Spoken
  <2>6. QED
    BY <2>4, <2>5 DEF Story
<1>5. QED
  <2>1. \/ ~IsCurrent(H.token) /\ UNCHANGED <<dq, peerVars, appVars>>
        \/ Enqueue(<<Note("closed", None, H.token)>>) /\ UNCHANGED <<peerVars, appVars>>
        \/ /\ next + 1 \in Peers /\ next' = next + 1 /\ peers' = peers \cup {next + 1}
           /\ sock' = [sock EXCEPT ![next + 1] = "open"]
           /\ session' = [session EXCEPT ![next + 1] = H.token]
           /\ told' = [told EXCEPT ![next + 1] = "accepted"]
           /\ UNCHANGED <<dq, ready, exposed>>
    BY DEF Accepted
  <2>2. QED
    BY <1>3, <1>4, <2>1

\* A word of a peer is appended: the others do not mind.
LEMMA OthersUnmoved ==
    ASSUME Typed, Story, NEW id \in Peers, NEW e \in DqEntries, e.who = id, dq' = dq \o <<e>> \/ dq' = dq,
           \A k \in Peers : IoLeaves(k),
           \A k \in Peers : k # id => Leaves(k)
    PROVE  \A k \in Peers : k # id => Spoken(k)'
<1>1. ASSUME NEW k \in Peers, k # id
      PROVE  Spoken(k)'
  <2>1. e \notin Words(k)
    BY <1>1 DEF Words
  <2>2. QED
    BY <1>1, <2>1, HushedElsewhere, SpokenKept DEF Story
<1>2. QED
  BY <1>1

LEMMA PeerReadySpoken ==
    ASSUME ~LateReady, Typed, Owned, Story, NEW id \in Peers, PeerReady(id)
    PROVE  Story'
<1> DEFINE e == Signal("ready", id)
           A == Announcing(id)
           R == Reports(id)
           SA == Reporting(id)
           SL == Signals("late", id)
           T == TooLate(id)
           G == Gone(id)
           D == Ends(id)
<1>1. e \in DqEntries /\ e.who = id /\ e \in Signals("ready", id) /\ e \in A
      /\ e \notin Signals("report", id) \cup Signals("closed", id) \cup SA \cup SL \cup Notes(id)
                    \cup R \cup T \cup InTime(id) \cup D \cup SlotEnds(id) \cup G
  <2>1. e \in DqEntries
    BY DqMade
  <2>2. QED
    BY <2>1 DEF Signal, Entry, Signals, Announcing, Notes, Reports, Reporting, InTime, TooLate,
       Ends, SlotEnds, Gone
<1>2. /\ sock[id] = "open" /\ id \notin ready /\ ready' = ready \cup {id}
      /\ UNCHANGED <<told, session, sock, exposed, peers, next, generation, attached, ioq>>
  BY DEF PeerReady, scopeVars, appVars, IoUnchanged, DispatcherUnchanged
<1>3. dq \in Seq(DqEntries) /\ dq' = dq \o <<e>>
  <2>1. dq \in Seq(DqEntries)
    BY DEF Typed, DqTyped
  <2>2. dq' = Append(dq, e)
    BY DEF PeerReady
  <2> HIDE DEF e
  <2>3. QED
    BY <1>1, <2>1, <2>2, Plain
<1>4. Announced(id) /\ Closing(id) /\ InOrder(dq, id)
  BY DEF Story, Spoken
<1>5. ~Has(dq, A) /\ ~Has(dq, R) /\ ~Has(dq, SA) /\ ~Has(dq, SL) /\ ~Has(dq, G)
      /\ ~Has(ioq, Handlers("closePeer", id)) /\ ~Has(ioq, Notifying(id)) /\ told[id] \notin {"connected", "closed"}
  BY <1>2, <1>4 DEF Announced, Owned, Socket
<1> HIDE DEF e, A, R, SA, SL, T, G, D
<1>6. \A B : Has(dq', B) <=> Has(dq, B) \/ e \in B
  <2>1. <<e>> \in Seq(DqEntries)
    BY <1>1
  <2>2. \A B : Has(<<e>>, B) <=> e \in B
    BY Literals
  <2>3. QED
    BY <1>3, <2>1, <2>2, SentHas
<1>7. InOrder(dq, id)'
  <2>1. InOrder(dq \o <<e>>, id)
    BY <1>1, <1>3, <1>4, <1>5, InOrderSent DEF A, R, SA, SL, G, D
  <2>2. QED
    BY <1>3, <2>1
<1>8. Announced(id)'
  <2>1. /\ id \in exposed <=> told[id] = "connected"
        /\ session[id] = generation /\ id <= next => told[id] = "accepted"
    BY <1>2, <1>4 DEF Announced
  <2>2. /\ id \in exposed' <=> told'[id] = "connected"
        /\ id \in ready'
        /\ session'[id] = generation' /\ id <= next' => told'[id] = "accepted"
        /\ ~Has(dq', SL)
        /\ ~Has(ioq', Handlers("closePeer", id)) /\ ~Has(ioq', Notifying(id))
        /\ told'[id] \notin {"connected", "closed"}
    BY <1>1, <1>2, <1>5, <1>6, <2>1
  <2>3. QED
    BY <2>2 DEF Announced, SL
<1>9. Closing(id)'
  <2>1. Has(dq, D) => Has(dq', D)
    BY <1>6
  <2>2. Has(dq, G) => Has(dq', G)
    BY <1>6
  <2>3. Trails(dq, id) => Trails(dq', id)
    BY <1>1, <1>3, SentOther DEF T
  <2>4. QED
    BY <1>2, <1>4, <2>1, <2>2, <2>3 DEF Closing, D, G
<1>10. \A k \in Peers : k # id => Spoken(k)'
  <2>1. \A k \in Peers : k # id => Leaves(k)
    BY <1>2 DEF Leaves
  <2>2. QED
    BY <1>1, <1>2, <1>3, <2>1, HushedSame, OthersUnmoved
<1>11. QED
  BY <1>7, <1>8, <1>9, <1>10 DEF Story, Spoken

LEMMA PeerReportsSpoken ==
    ASSUME Typed, Owned, Story, NEW id \in Peers, PeerReports(id)
    PROVE  Story'
<1>0. PICK w \in {"report", "late"} : (sock[id] = "open" <=> w = "report") /\ dq' = Append(dq, Signal(w, id))
  BY DEF PeerReports
<1> DEFINE e == Signal(w, id)
           SL == Signals("late", id)
           SC == Signals("closed", id)
           T == TooLate(id)
           A == Announcing(id)
           G == Gone(id)
           D == Ends(id)
<1>1. /\ e \in DqEntries /\ e.who = id
      /\ sock[id] # "open" => e \notin Signals("report", id)
      /\ sock[id] = "open" => e \notin SL
      /\ e \notin A \cup Signals("ready", id) \cup SC \cup Notes(id) \cup Reports(id) \cup T \cup InTime(id)
                    \cup D \cup SlotEnds(id) \cup G
  <2>1. e \in DqEntries
    BY DqMade
  <2>2. e.what = w /\ e.op = "signal" /\ e.who = id /\ w \notin {"ready", "closed"}
    BY DEF Signal, Entry
  <2> HIDE DEF e
  <2>3. QED
    BY <1>0, <2>1, <2>2 DEF Signals, Announcing, Notes, Reports, InTime, TooLate, Ends,
       SlotEnds, Gone
<1>2. /\ sock[id] = "closed" \/ (sock[id] = "open" /\ id \in ready)
      /\ UNCHANGED <<told, session, sock, ready, exposed, peers, next, generation, attached, ioq>>
  BY DEF PeerReports, scopeVars, appVars, peerVars, DispatcherUnchanged
<1>3. dq \in Seq(DqEntries) /\ dq' = dq \o <<e>>
  <2>1. dq \in Seq(DqEntries)
    BY DEF Typed, DqTyped
  <2>2. dq' = Append(dq, e)
    BY <1>0
  <2> HIDE DEF e
  <2>3. QED
    BY <1>1, <2>1, <2>2, Plain
<1>4. Announced(id) /\ Closing(id) /\ InOrder(dq, id)
  BY DEF Story, Spoken
<1>5. sock[id] = "open" => ~Has(dq, SC) /\ ~Has(dq, SlotEnds(id))
  <2>1. sock[id] = "open" => ~Has(dq, G)
    BY DEF Owned, Socket
  <2>2. Signals("closed", id) \subseteq G /\ SlotEnds(id) \subseteq G
    BY DEF Gone, SlotEnds, Ends
  <2>3. QED
    BY <2>1, <2>2 DEF Has
<1> HIDE DEF e, SL, SC, T, A, G, D
<1>6. \A B : Has(dq', B) <=> Has(dq, B) \/ e \in B
  <2>1. <<e>> \in Seq(DqEntries)
    BY <1>1
  <2>2. \A B : Has(<<e>>, B) <=> e \in B
    BY Literals
  <2>3. QED
    BY <1>3, <2>1, <2>2, SentHas
<1>7. InOrder(dq, id)'
  <2>1. InOrder(dq \o <<e>>, id)
    BY <1>1, <1>3, <1>4, <1>5, InOrderSent DEF A, D, G, SC
  <2>2. QED
    BY <1>3, <2>1
<1>8. Announced(id)'
  <2>1. Has(dq', A) <=> Has(dq, A)
    BY <1>1, <1>6
  <2>2. Has(dq', SL) => Has(dq, SL) \/ sock[id] # "open"
    BY <1>1, <1>6
  <2>3. QED
    BY <1>2, <1>4, <2>1, <2>2 DEF Announced, A, SL
<1>9. Closing(id)'
  <2>1. Has(dq, D) => Has(dq', D)
    BY <1>6
  <2>2. Has(dq, G) => Has(dq', G)
    BY <1>6
  <2>3. Trails(dq, id) => Trails(dq', id)
    BY <1>1, <1>3, SentOther DEF T
  <2>4. QED
    BY <1>2, <1>4, <2>1, <2>2, <2>3 DEF Closing, D, G
<1>10. \A k \in Peers : k # id => Spoken(k)'
  <2>1. \A k \in Peers : k # id => Leaves(k)
    BY <1>2 DEF Leaves
  <2>2. QED
    BY <1>1, <1>2, <1>3, <2>1, HushedSame, OthersUnmoved
<1>11. QED
  BY <1>7, <1>8, <1>9, <1>10 DEF Story, Spoken

\* A peer closes: its end is in the queue.
LEMMA EndSpoken ==
    ASSUME NEW id \in Peers, Spoken(id), sock'[id] # "open",
           UNCHANGED <<told, session, ready, exposed, peers, next, generation, attached>>,
           InOrder(dq, id)', Has(dq', Announcing(id)) => Has(dq, Announcing(id)),
           Has(dq, Ends(id)) => Has(dq', Ends(id)), Trails(dq, id) => Trails(dq', id),
           attached /\ told[id] \in {"accepted", "connected"} => Has(dq', Gone(id)),
           Has(ioq', Handlers("closePeer", id)) => Has(ioq, Handlers("closePeer", id)),
           Has(ioq', Handlers("erase", id)) => Has(ioq, Handlers("erase", id)),
           Has(ioq', Notifying(id)) => Has(ioq, Notifying(id)),
           attached /\ Has(ioq, Notifying(id)) => Has(ioq', Notifying(id)) \/ Has(dq', Ends(id))
    PROVE  Spoken(id)'
<1> DEFINE A == Announcing(id)
           R == Reports(id)
           D == Ends(id)
           G == Gone(id)
<1>1. Announced(id)'
  <2>1. /\ id \in exposed <=> told[id] = "connected"
        /\ Has(dq, A) => id \in ready
        /\ session[id] = generation /\ id <= next /\ Has(dq, A) => told[id] = "accepted"
        /\ Has(ioq, Handlers("closePeer", id)) \/ Has(ioq, Notifying(id)) \/ told[id] \in {"connected", "closed"} =>
             id \in ready /\ ~Has(dq, A)
    BY DEF Spoken, Announced
  <2> HIDE DEF A, R
  <2>2. /\ id \in exposed' <=> told'[id] = "connected"
        /\ Has(dq', A) => id \in ready'
        /\ session'[id] = generation' /\ id <= next' /\ (Has(dq', A) \/ (sock'[id] = "open" /\ id \notin ready')) =>
             told'[id] = "accepted"
    BY <2>1 DEF A
  <2>3. Has(ioq', Handlers("closePeer", id)) \/ Has(ioq', Notifying(id)) \/ told'[id] \in {"connected", "closed"} =>
          id \in ready' /\ ~Has(dq', A)
    BY <2>1 DEF A
  <2>4. QED
    BY <2>2, <2>3 DEF Announced, A
<1>2. Closing(id)'
  <2>1. attached /\ told[id] \in {"accepted", "connected"} =>
          /\ Has(dq', G)
          /\ id \notin peers \/ Has(ioq, Handlers("erase", id)) => Has(dq, D) \/ Has(ioq, Notifying(id))
    BY DEF Spoken, Closing
  <2> HIDE DEF D, G
  <2>2. attached' /\ told'[id] \in {"accepted", "connected"} =>
          /\ Has(dq', G)
          /\ id \notin peers' \/ Has(ioq', Handlers("erase", id)) => Has(dq', D) \/ Has(ioq', Notifying(id))
    BY <2>1 DEF D
  <2>3. told'[id] \in {"accepted", "connected"} => Trails(dq', id)
    BY DEF Spoken, Closing
  <2>4. QED
    BY <2>2, <2>3 DEF Closing, D, G
<1>3. QED
  BY <1>1, <1>2 DEF Spoken

LEMMA PeerEndsSpoken ==
    ASSUME Typed, Owned, Story, NEW id \in Peers, NEW failed \in BOOLEAN, PeerEnds(id, failed)
    PROVE  Story'
<1> DEFINE c == Signal("closed", id)
           p == Signal("report", id)
           A == Announcing(id)
           D == Ends(id)
           G == Gone(id)
           SL == Signals("late", id)
           T == TooLate(id)
<1>1. c \in DqEntries /\ p \in DqEntries /\ c.who = id /\ p.who = id
      /\ p \in Signals("report", id) /\ c \in Signals("closed", id) /\ c \in G
      /\ p \notin A \cup Signals("ready", id) \cup Signals("closed", id) \cup SL \cup Notes(id)
                    \cup Reports(id) \cup InTime(id) \cup T \cup D \cup SlotEnds(id)
      /\ c \notin A \cup Signals("ready", id) \cup Signals("report", id) \cup Notes(id) \cup Reports(id)
                    \cup InTime(id) \cup T \cup D \cup SlotEnds(id)
  <2>1. c \in DqEntries /\ p \in DqEntries
    BY DqMade
  <2>2. QED
    BY <2>1 DEF Signal, Entry, Signals, Announcing, Notes, Reports, InTime, TooLate, Ends,
       SlotEnds, Gone
<1>2. /\ sock[id] = "open" /\ sock' = [sock EXCEPT ![id] = "closed"]
      /\ UNCHANGED <<told, session, ready, exposed, peers, next, generation, attached, ioq>>
  BY DEF PeerEnds, scopeVars, appVars, DispatcherUnchanged
<1>3. sock'[id] = "closed" /\ \A k \in Peers : k # id => sock'[k] = sock[k]
  BY <1>2 DEF Typed, StateTyped, PeersTyped
<1>4. /\ dq \in Seq(DqEntries) /\ (dq' = dq \o <<c>> \/ dq' = (dq \o <<p>>) \o <<c>>)
      /\ (dq \o <<p>>) \o <<c>> = dq \o <<p, c>>
  <2>1. dq \in Seq(DqEntries)
    BY DEF Typed, DqTyped
  <2>2. dq' = Append(dq, c) \/ dq' = dq \o <<p, c>>
    BY DEF PeerEnds, LastWords
  <2> HIDE DEF c, p
  <2>3. dq \o <<p, c>> = (dq \o <<p>>) \o <<c>> /\ Append(dq, c) = dq \o <<c>>
    BY <1>1, <2>1
  <2>4. QED
    BY <2>1, <2>2, <2>3
<1>5. Spoken(id) /\ InOrder(dq, id) /\ ~Has(dq, SL)
  BY <1>2 DEF Story, Spoken, Announced
<1>6. ~Has(dq, Signals("closed", id)) /\ ~Has(dq, SlotEnds(id))
  <2>1. ~Has(dq, G)
    BY <1>2 DEF Owned, Socket
  <2>2. Signals("closed", id) \subseteq G /\ SlotEnds(id) \subseteq G
    BY DEF Gone, SlotEnds, Ends
  <2>3. QED
    BY <2>1, <2>2 DEF Has
<1> HIDE DEF c, p, A, D, G, SL, T
<1>7. PICK q \in Seq(DqEntries) : dq' = q \o <<c>> /\ InOrder(q, id)
                                  /\ (\A B : Has(q, B) => Has(dq, B) \/ p \in B)
                                  /\ (Trails(dq, id) => Trails(q, id))
                                  /\ \A B : Has(dq, B) => Has(q, B)
                                  /\ \A k \in Peers : k # id => ~Has(q, Words(k)) \/ Has(dq, Words(k))
  <2>1. CASE dq' = dq \o <<c>>
    BY <1>4, <1>5, <2>1
  <2>2. CASE dq' = (dq \o <<p>>) \o <<c>>
    <3> DEFINE q == dq \o <<p>>
    <3>1. <<p>> \in Seq(DqEntries) /\ \A B : Has(<<p>>, B) <=> p \in B
      BY <1>1, Made, Literals
    <3>2. q \in Seq(DqEntries) /\ \A B : Has(q, B) <=> Has(dq, B) \/ p \in B
      BY <1>4, <3>1, SentHas
    <3>3. InOrder(q, id)
      BY <1>1, <1>4, <1>5, <1>6, InOrderSent DEF A, D
    <3>4. \A k \in Peers : k # id => p \notin Words(k)
      BY <1>1 DEF Words
    <3>5. Trails(dq, id) => Trails(q, id)
      BY <1>1, <1>4, SentOther DEF T
    <3> HIDE DEF q
    <3>6. QED
      BY <2>2, <3>2, <3>3, <3>4, <3>5 DEF q
  <2>3. QED
    BY <1>4, <2>1, <2>2
<1>8. \A B : Has(dq', B) <=> Has(q, B) \/ c \in B
  <2>1. <<c>> \in Seq(DqEntries)
    BY <1>1
  <2>2. \A B : Has(<<c>>, B) <=> c \in B
    BY Literals
  <2>3. QED
    BY <1>7, <2>1, <2>2, SentHas
<1>9. InOrder(dq, id)'
  <2>1. ~Has(q, SL)
    BY <1>1, <1>5, <1>7
  <2>2. InOrder(q \o <<c>>, id)
    BY <1>1, <1>7, <2>1, InOrderSent DEF A, D, SL
  <2>3. QED
    BY <1>7, <2>2
<1>10. Spoken(id)'
  <2>1. /\ Has(dq', A) => Has(dq, A)
        /\ Has(dq, D) => Has(dq', D)
        /\ Has(dq', G)
    BY <1>1, <1>7, <1>8
  <2>2. Trails(dq, id) => Trails(dq', id)
    BY <1>1, <1>7, SentOther DEF T
  <2>3. QED
    BY <1>2, <1>3, <1>5, <1>9, <2>1, <2>2, EndSpoken DEF A, D, G
<1>11. ASSUME NEW k \in Peers, k # id
       PROVE  Spoken(k)'
  <2>1. c \notin Words(k) /\ p \notin Words(k)
    BY <1>1, <1>11 DEF Words
  <2>2. Hushed(k) /\ Remembered(k)
    <3>1. PICK x \in Seq(DqEntries) : dq' = dq \o x /\ ~Has(x, Words(k))
      <4>1. <<c>> \in Seq(DqEntries) /\ <<p, c>> \in Seq(DqEntries)
            /\ ~Has(<<c>>, Words(k)) /\ ~Has(<<p, c>>, Words(k))
        BY <1>1, <2>1, Made
      <4>2. QED
        BY <1>4, <4>1
    <3>2. QED
      BY <3>1, HushedSent
  <2>3. Leaves(k) /\ IoLeaves(k)
    BY <1>2, <1>3, <1>11, HushedSame DEF Leaves
  <2>4. QED
    BY <2>2, <2>3, SpokenKept DEF Story
<1>12. QED
  BY <1>10, <1>11 DEF Story

LEMMA EraseSpoken ==
    ASSUME Typed, Story, Erase
    PROVE  Story'
<1>1. ioq # <<>> /\ H \in IoEntries /\ H.op = "erase"
  BY Heads DEF Erase, Running, H
<1> PICK id \in Peers : id = H.who
  BY <1>1, IoRead
<1>2. /\ UNCHANGED <<told, session, sock, ready, exposed, next, generation, attached, dq>>
      /\ peers' \in {peers \ {id}, peers} /\ ioq' = Tail(ioq) \o <<>>
  BY DEF Erase, Posting, scopeVars, appVars, IoUnchanged, DispatcherUnchanged
<1>3. \A k \in Peers : /\ Has(ioq', Handlers("closePeer", k)) <=> Has(ioq, Handlers("closePeer", k))
                       /\ Has(ioq', Notifying(k)) <=> Has(ioq, Notifying(k))
  <2> DEFINE ops == {"erase"}
  <2>1. Undisturbed(ioq, ioq', Others(ops)) /\ "closePeer" \notin ops /\ "peerClose" \notin ops
    BY EraseTyped
  <2> HIDE DEF ops
  <2>2. \A k : Has(ioq', Handlers("closePeer", k)) <=> Has(ioq, Handlers("closePeer", k))
    BY <2>1, IoOthers
  <2>3. \A k : Has(ioq', Notifying(k)) <=> Has(ioq, Notifying(k))
    BY <2>1, IoLeavesOthers
  <2>4. QED
    BY <2>2, <2>3
<1>4. \A A : Has(ioq, A) <=> H \in A \/ Has(ioq', A)
  <2>1. ioq \in Seq(IoEntries) /\ <<>> \in Seq(IoEntries) /\ \A A : ~Has(<<>>, A)
    BY Made DEF Typed, IoTyped
  <2>2. QED
    BY <1>1, <1>2, <2>1, TakenHas DEF H
<1>5. \A k \in Peers : IoLeaves(k)
  BY <1>3, <1>4 DEF IoLeaves
<1>6. ASSUME NEW k \in Peers, k # id
      PROVE  Spoken(k)'
  <2>1. Leaves(k)
    BY <1>2, <1>6 DEF Leaves
  <2>2. QED
    BY <1>2, <1>5, <2>1, HushedSame, SpokenKept DEF Story
<1>7. Spoken(id)'
  <2>1. Announced(id) /\ Closing(id) /\ InOrder(dq, id)
    BY DEF Story, Spoken
  <2>2. Announced(id)'
    BY <1>2, <1>3, <2>1, AnnouncedKept
  <2>3. H \in Handlers("erase", id)
    BY <1>1 DEF Handlers
  <2>4. Has(ioq, Handlers("erase", id))
    <3> DEFINE S == Handlers("erase", id)
    <3> HIDE DEF S
    <3>1. Has(ioq, S)
      BY <1>4, <2>3 DEF S
    <3>2. QED
      BY <3>1 DEF S
  <2>5. Closing(id)'
    BY <1>2, <1>3, <2>1, <2>4 DEF Closing
  <2>6. QED
    BY <1>2, <2>1, <2>2, <2>5 DEF Spoken
<1>8. QED
  BY <1>6, <1>7 DEF Story

\* The completion of async_close is to tell of the end.
LEMMA ClosePeerSpoken ==
    ASSUME Typed, Story, ClosePeer
    PROVE  Story'
<1>1. ioq # <<>> /\ H \in IoEntries /\ H.op = "closePeer"
  BY Heads DEF ClosePeer, Running, H
<1> PICK id \in Peers : id = H.who
  BY <1>1, IoRead
<1> DEFINE t == Entry("peerClose", id, 0, "notify")
<1>2. /\ UNCHANGED <<told, session, sock, ready, exposed, next, generation, attached, dq>>
      /\ \/ peers' = peers \ {id} /\ ioq' = Tail(ioq) \o <<t>>
         \/ peers' = peers /\ ioq' = Tail(ioq) \o <<>>
  BY DEF ClosePeer, AsyncClose, Posting, scopeVars, appVars, IoUnchanged, DispatcherUnchanged
<1>3. t \in IoEntries /\ t \in Notifying(id)
      /\ \A k : t \notin Handlers("closePeer", k) /\ t \notin Handlers("erase", k) /\ (t \in Notifying(k) => k = id)
  <2>1. t \in IoEntries
    BY IoMade
  <2>2. QED
    BY <2>1 DEF Entry, Notifying, Handlers
<1>4. H \in Handlers("closePeer", id) /\ \A k : H \notin Notifying(k)
  BY <1>1 DEF Handlers, Notifying
<1> HIDE DEF t
<1>5. PICK x \in Seq(IoEntries) : /\ ioq' = Tail(ioq) \o x
                                  /\ \A A : Has(x, A) => t \in A
                                  /\ peers' = peers \/ (peers' = peers \ {id} /\ \A A : t \in A => Has(x, A))
  <2>1. <<>> \in Seq(IoEntries) /\ <<t>> \in Seq(IoEntries)
        /\ (\A A : ~Has(<<>>, A)) /\ \A A : Has(<<t>>, A) <=> t \in A
    BY <1>3, Made, Literals
  <2>2. CASE peers' = peers /\ ioq' = Tail(ioq) \o <<>>
    BY <2>1, <2>2
  <2>3. CASE peers' = peers \ {id} /\ ioq' = Tail(ioq) \o <<t>>
    BY <2>1, <2>3
  <2>4. QED
    BY <1>2, <2>2, <2>3
<1>6. \A A : (Has(ioq, A) <=> H \in A \/ Has(Tail(ioq), A)) /\ (Has(ioq', A) <=> Has(Tail(ioq), A) \/ Has(x, A))
  <2>1. ioq \in Seq(IoEntries)
    BY DEF Typed, IoTyped
  <2>2. QED
    BY <1>1, <1>5, <2>1, TakenHas DEF H
<1>7. \A k \in Peers : /\ Has(ioq', Handlers("closePeer", k)) => Has(ioq, Handlers("closePeer", k))
                       /\ Has(ioq', Handlers("erase", k)) => Has(ioq, Handlers("erase", k))
                       /\ Has(ioq, Notifying(k)) => Has(ioq', Notifying(k))
                       /\ Has(ioq', Notifying(k)) => Has(ioq, Notifying(k)) \/ k = id
  BY <1>3, <1>4, <1>5, <1>6
<1>8. Has(ioq, Handlers("closePeer", id)) /\ (peers' = peers \/ Has(ioq', Notifying(id)))
  BY <1>3, <1>4, <1>5, <1>6
<1>9. ASSUME NEW k \in Peers, k # id
      PROVE  Spoken(k)'
  <2>1. Leaves(k) /\ IoLeaves(k)
    BY <1>2, <1>7, <1>9 DEF Leaves, IoLeaves
  <2>2. QED
    BY <1>2, <2>1, HushedSame, SpokenKept DEF Story
<1>10. Spoken(id)'
  <2>1. Announced(id) /\ Closing(id) /\ InOrder(dq, id)
    BY DEF Story, Spoken
  <2>2. Announced(id)'
    BY <1>2, <1>7, <1>8, <2>1, AnnouncedKept
  <2>3. Closing(id)'
    BY <1>2, <1>7, <1>8, <2>1 DEF Closing
  <2>4. QED
    BY <1>2, <2>1, <2>2, <2>3 DEF Spoken
<1>11. QED
  BY <1>9, <1>10 DEF Story

LEMMA RunPeerCloseSpoken ==
    ASSUME Typed, Ordered, Story, RunPeerClose
    PROVE  Story'
<1>1. ioq # <<>> /\ H \in IoEntries /\ H.op = "peerClose"
  BY Heads DEF RunPeerClose, Running, H
<1> PICK id \in Peers : id = H.who
  BY <1>1, IoRead
<1> DEFINE c == Signal("closed", id)
           d == About("peerClosed", id)
           notified == H.what = "notify" /\ Locked /\ attached
           a == IF sock[id] = "open" THEN <<c>> ELSE <<>>
           b == IF notified THEN <<d>> ELSE <<>>
           A == Announcing(id)
           SR == Signals("ready", id)
           D == Ends(id)
           G == Gone(id)
           Y == Notifying(id)
           SL == Signals("late", id)
           T == TooLate(id)
<1>2. /\ UNCHANGED <<told, session, ready, exposed, peers, next, generation, attached>>
      /\ sock' = [sock EXCEPT ![id] = "closed"] /\ dq' = (dq \o a) \o b /\ ioq' = Tail(ioq) \o <<>>
  BY DEF RunPeerClose, Posting, scopeVars, appVars, IoUnchanged, DispatcherUnchanged
<1>3. sock'[id] = "closed" /\ \A k \in Peers : k # id => sock'[k] = sock[k]
  BY <1>2 DEF Typed, StateTyped, PeersTyped
<1>4. c \in DqEntries /\ d \in DqEntries /\ c.who = id /\ d.who = id
      /\ c \in Signals("closed", id) /\ c \in G /\ d \in D /\ d \in G
      /\ d \notin A \cup SR \cup Signals("report", id) \cup Signals("closed", id) \cup Notes(id) \cup Reports(id)
                    \cup InTime(id) \cup T \cup SlotEnds(id)
      /\ c \notin A \cup SR \cup Signals("report", id) \cup Notes(id) \cup Reports(id)
                    \cup InTime(id) \cup T \cup D \cup SlotEnds(id)
  <2>1. c \in DqEntries /\ d \in DqEntries
    BY DqMade DEF About
  <2>2. QED
    BY <2>1 DEF Signal, About, Entry, Signals, Announcing, Notes, Reports, InTime, TooLate,
       Ends, SlotEnds, Gone
<1>5. Spoken(id) /\ InOrder(dq, id) /\ Announced(id) /\ Closing(id) /\ (sock[id] = "open" => ~Has(dq, SL))
  BY DEF Story, Spoken, Announced
<1>6. \A S : (Has(ioq, S) <=> H \in S \/ Has(ioq', S))
  <2>1. ioq \in Seq(IoEntries) /\ <<>> \in Seq(IoEntries) /\ \A S : ~Has(<<>>, S)
    BY Made DEF Typed, IoTyped
  <2>2. QED
    BY <1>1, <1>2, <2>1, TakenHas DEF H
<1>7. /\ \A k \in Peers : k # id => H \notin Notifying(k)
      /\ \A k : H \notin Handlers("closePeer", k) /\ H \notin Handlers("erase", k)
      /\ H \in Y => H.what = "notify"
  BY <1>1 DEF Notifying, Handlers
<1>8. H.what = "notify" => H \in Y
  BY <1>1 DEF Notifying
<1>9. H.what = "notify" => ~Has(dq, SR)
  <2>1. Has(ioq, Y) => ~Has(dq, A)
    BY <1>5 DEF Announced
  <2>2. SR \subseteq A
    BY DEF Announcing
  <2> HIDE DEF SR, A, Y
  <2>3. QED
    BY <1>6, <1>8, <2>1, <2>2 DEF Has
<1>10. attached => Locked
  BY DEF Ordered, Locked
<1>11. attached /\ told[id] \in {"accepted", "connected"} /\ sock[id] # "open" => Has(dq, G)
  BY <1>5 DEF Closing
<1> HIDE DEF c, d, A, SR, D, G, Y, SL, T
<1>12. /\ a \in Seq(DqEntries) /\ b \in Seq(DqEntries) /\ dq \in Seq(DqEntries)
       /\ \A S : /\ Has(a, S) <=> sock[id] = "open" /\ c \in S
                 /\ Has(b, S) <=> notified /\ d \in S
  <2>1. /\ <<>> \in Seq(DqEntries) /\ <<c>> \in Seq(DqEntries) /\ <<d>> \in Seq(DqEntries)
        /\ dq \in Seq(DqEntries)
    BY <1>4, Made DEF Typed, DqTyped
  <2>2. \A S : ~Has(<<>>, S) /\ (Has(<<c>>, S) <=> c \in S) /\ (Has(<<d>>, S) <=> d \in S)
    BY Literals
  <2>3. QED
    BY <2>1, <2>2
<1> DEFINE q == dq \o a
<1>13. q \in Seq(DqEntries) /\ InOrder(q, id) /\ \A S : Has(q, S) <=> Has(dq, S) \/ Has(a, S)
  <2>1. q \in Seq(DqEntries) /\ \A S : Has(q, S) <=> Has(dq, S) \/ Has(a, S)
    BY <1>12, SentHas
  <2>2. CASE sock[id] = "open"
    <3>1. InOrder(dq \o <<c>>, id)
      BY <1>4, <1>5, <1>12, <2>2, InOrderSent DEF A, SR, D, SL
    <3>2. QED
      BY <2>1, <2>2, <3>1
  <2>3. CASE sock[id] # "open"
    <3>1. q = dq
      BY <1>12, <2>3
    <3>2. QED
      BY <1>5, <2>1, <3>1
  <2>4. QED
    BY <2>1, <2>2, <2>3
<1> HIDE DEF a, q
<1>14. InOrder(q \o b, id) /\ \A S : Has(q \o b, S) <=> Has(q, S) \/ Has(b, S)
  <2>1. \A S : Has(q \o b, S) <=> Has(q, S) \/ Has(b, S)
    BY <1>12, <1>13, SentHas
  <2>2. CASE notified
    <3>1. ~Has(q, SR)
      BY <1>4, <1>9, <1>12, <1>13, <2>2
    <3>2. InOrder(q \o <<d>>, id)
      BY <1>4, <1>13, <3>1, InOrderSent DEF A, SR, D
    <3>3. QED
      BY <2>1, <2>2, <3>2
  <2>3. CASE ~notified
    <3>1. q \o b = q
      BY <1>13, <2>3
    <3>2. QED
      BY <1>13, <2>1, <3>1
  <2>4. QED
    BY <2>2, <2>3
<1>15. dq' = q \o b
  BY <1>2 DEF q
<1> HIDE DEF b
<1>16. \A S : Has(dq', S) <=> Has(dq, S) \/ (sock[id] = "open" /\ c \in S) \/ (notified /\ d \in S)
  BY <1>12, <1>13, <1>14, <1>15
<1>17. Spoken(id)'
  <2>1. InOrder(dq, id)'
    BY <1>14, <1>15
  <2>2. /\ Has(dq', A) => Has(dq, A)
        /\ Has(dq, D) => Has(dq', D)
        /\ attached /\ told[id] \in {"accepted", "connected"} => Has(dq', G)
    BY <1>4, <1>11, <1>16
  <2>3. /\ Has(ioq', Y) => Has(ioq, Y)
        /\ attached /\ Has(ioq, Y) => Has(ioq', Y) \/ Has(dq', D)
    BY <1>4, <1>6, <1>7, <1>10, <1>16
  <2> DEFINE x == a \o b
  <2>4. x \in Seq(DqEntries) /\ ~Has(x, T) /\ dq' = dq \o x
    <3>1. x \in Seq(DqEntries) /\ (Has(x, T) <=> Has(a, T) \/ Has(b, T))
      BY <1>12, SentHas
    <3>2. ~Has(a, T) /\ ~Has(b, T)
      BY <1>4, <1>12
    <3>3. dq' = dq \o (a \o b)
      BY <1>12, <1>15 DEF q
    <3>4. QED
      BY <3>1, <3>2, <3>3
  <2> HIDE DEF x
  <2>5. Trails(dq, id) => Trails(dq', id)
    BY <1>12, <2>4, TrailsKept DEF T
  <2>6. /\ Has(ioq', Handlers("closePeer", id)) => Has(ioq, Handlers("closePeer", id))
        /\ Has(ioq', Handlers("erase", id)) => Has(ioq, Handlers("erase", id))
    BY <1>6
  <2>7. QED
    BY <1>2, <1>3, <1>5, <2>1, <2>2, <2>3, <2>5, <2>6, EndSpoken DEF A, D, G, Y
<1>18. ASSUME NEW k \in Peers, k # id
       PROVE  Spoken(k)'
  <2>1. c \notin Words(k) /\ d \notin Words(k)
    BY <1>4, <1>18 DEF Words
  <2>2. Hushed(k) /\ Remembered(k)
    <3> DEFINE W == Words(k)
    <3>1. c \notin W /\ d \notin W
      BY <2>1
    <3> HIDE DEF W
    <3>2. ~Has(a, W) /\ ~Has(b, W)
      BY <1>12, <3>1
    <3>3. a \o b \in Seq(DqEntries) /\ ~Has(a \o b, W)
      BY <1>12, <3>2, SentHas
    <3>4. dq' = dq \o (a \o b)
      BY <1>12, <1>15 DEF q
    <3> DEFINE x == a \o b
    <3> HIDE DEF x
    <3>5. x \in Seq(DqEntries) /\ ~Has(x, Words(k)) /\ dq' = dq \o x
      BY <3>3, <3>4 DEF x, W
    <3>6. QED
      BY <3>5, HushedSent
  <2>3. Leaves(k)
    BY <1>2, <1>3, <1>18 DEF Leaves
  <2>4. IoLeaves(k)
    <3> DEFINE S == Notifying(k)
               V == Handlers("closePeer", k)
               U == Handlers("erase", k)
    <3>1. H \notin S /\ H \notin V /\ H \notin U
      BY <1>7, <1>18
    <3> HIDE DEF S, V, U
    <3>2. (Has(ioq', S) <=> Has(ioq, S)) /\ (Has(ioq', V) <=> Has(ioq, V)) /\ (Has(ioq', U) <=> Has(ioq, U))
      BY <1>6, <3>1
    <3>3. QED
      BY <3>2 DEF IoLeaves, S, V, U
  <2>5. QED
    BY <2>2, <2>3, <2>4, SpokenKept DEF Story
<1>19. QED
  BY <1>17, <1>18 DEF Story

\* The signals of a released peer are erased; its end is an entry of the server's.
LEMMA ReleaseSpoken ==
    ASSUME Typed, Story, NEW id \in Peers, Release(id)
    PROVE  Story'
<1> DEFINE I == {i \in DOMAIN dq : ~(dq[i].op = "signal" /\ dq[i].who = id)}
<1>1. I \in SUBSET DOMAIN dq /\ dq' = Selected(dq, I)
  BY DEF Release
<1>2. /\ \A i \in DOMAIN dq : dq[i] \in Ends(id) => i \in I
      /\ \A k : k # id => \A i \in DOMAIN dq : dq[i] \in Words(k) => i \in I
  BY DEF Ends, Words
<1> HIDE DEF I
<1>3. /\ UNCHANGED <<told, session, ready, exposed, peers, next, generation, attached, ioq>>
      /\ sock' = [sock EXCEPT ![id] = "gone"] /\ id \notin peers
      /\ \A t \in ToSet(ioq) : t.op = "peerClose" => t.who # id
  BY DEF Release, scopeVars, appVars, IoUnchanged, DispatcherUnchanged
<1>4. sock'[id] = "gone" /\ \A k \in Peers : k # id => sock'[k] = sock[k]
  BY <1>3 DEF Typed, StateTyped, PeersTyped
<1>5. ASSUME NEW k \in Peers, k # id
      PROVE  Spoken(k)'
  <2> DEFINE W == Words(k)
  <2>1. dq \in Seq(DqEntries) /\ \A i \in DOMAIN dq : dq[i] \in W => i \in I
    BY <1>2, <1>5 DEF Typed, DqTyped
  <2> HIDE DEF W
  <2>2. Undisturbed(dq, dq', W)
    BY <1>1, <2>1, ErasedElsewhere
  <2>3. Hushed(k) /\ Remembered(k)
    BY <2>2, HushedUndisturbed DEF W
  <2>4. Leaves(k) /\ IoLeaves(k)
    BY <1>3, <1>4, <1>5, HushedSame DEF Leaves
  <2>5. QED
    BY <2>3, <2>4, SpokenKept DEF Story
<1>6. Spoken(id)'
  <2>1. Announced(id) /\ Closing(id) /\ InOrder(dq, id)
    BY DEF Story, Spoken
  <2>2. Hushed(id) /\ (Has(dq, Ends(id)) => Has(dq', Ends(id))) /\ (Trails(dq, id) => Trails(dq', id))
    BY <1>1, <1>2, HushedErased
  <2>3. ~Has(ioq, Notifying(id))
    BY <1>3, Elements DEF Notifying
  <2>4. Announced(id)'
    BY <1>3, <1>4, <2>1, <2>2, AnnouncedKept, WordKinds DEF Hushed
  <2>5. Ends(id) \subseteq Gone(id)
    BY DEF Gone
  <2>6. Closing(id)'
    <3> DEFINE D == Ends(id)
               G == Gone(id)
    <3>1. attached /\ told[id] \in {"accepted", "connected"} => Has(dq', D)
      BY <1>3, <2>1, <2>2, <2>3 DEF Closing
    <3>2. D \subseteq G
      BY <2>5
    <3> HIDE DEF D, G
    <3>3. Has(dq', D) => Has(dq', G)
      BY <3>2 DEF Has
    <3>4. told[id] \in {"accepted", "connected"} => Trails(dq', id)
      BY <2>1, <2>2 DEF Closing
    <3>5. QED
      BY <1>3, <3>1, <3>3, <3>4 DEF Closing, D, G
  <2>7. QED
    BY <2>1, <2>2, <2>4, <2>6 DEF Spoken, Hushed
<1>7. QED
  BY <1>5, <1>6 DEF Story

\* Everything is closed: the session is over, or the state is detached.
LEMMA EverythingSpoken ==
    ASSUME Typed, Story, CloseEverything, UNCHANGED <<told, exposed, generation, attached>>,
           ioq # <<>>, H.op \in {"stop", "shutdown"}, NEW x \in Seq(IoEntries), ioq' = Tail(ioq) \o x,
           \A A : Has(x, A) => \/ \E id \in peers : About("peerClose", id) \in A
                               \/ probePeer # None /\ About("probeClose", probePeer) \in A
                               \/ Do("keepAlive") \in A,
           \A k \in Peers : attached => told[k] \notin {"accepted", "connected"}
    PROVE  Story'
<1>1. /\ UNCHANGED <<told, session, sock, ready, exposed, next, generation, attached, dq>>
  BY DEF CloseEverything
<1>2. \A k \in Peers : IoLeaves(k)
  <2>1. ASSUME NEW k \in Peers
        PROVE  IoLeaves(k)
    <3> DEFINE S == Notifying(k)
               T == Handlers("closePeer", k)
               U == Handlers("erase", k)
    <3>1. /\ \A id : About("peerClose", id) \notin S \cup T \cup U
          /\ \A id : About("probeClose", id) \notin S \cup T \cup U
          /\ Do("keepAlive") \notin S \cup T \cup U
          /\ H \notin S \cup T \cup U
      BY DEF Notifying, Handlers, About, Do, Entry
    <3>2. ioq \in Seq(IoEntries)
      BY DEF Typed, IoTyped
    <3> HIDE DEF S, T, U
    <3>3. ~Has(x, S) /\ ~Has(x, T) /\ ~Has(x, U)
      BY <3>1
    <3>4. \A A : (Has(ioq, A) <=> H \in A \/ Has(Tail(ioq), A)) /\ (Has(ioq', A) <=> Has(Tail(ioq), A) \/ Has(x, A))
      BY <3>2, TakenHas DEF H
    <3>5. (Has(ioq', S) <=> Has(ioq, S)) /\ (Has(ioq', T) <=> Has(ioq, T)) /\ (Has(ioq', U) <=> Has(ioq, U))
      BY <3>1, <3>3, <3>4
    <3>6. QED
      BY <3>5 DEF IoLeaves, S, T, U
  <2>2. QED
    BY <2>1
<1>3. ASSUME NEW k \in Peers
      PROVE  Spoken(k)'
  <2>1. Announced(k) /\ InOrder(dq, k)
    BY DEF Story, Spoken
  <2>2. Announced(k)'
    BY <1>1, <1>2, <2>1, AnnouncedKept DEF IoLeaves
  <2>3. Closing(k)'
    BY <1>1 DEF Story, Spoken, Closing
  <2>4. QED
    BY <1>1, <2>1, <2>2, <2>3 DEF Spoken
<1>4. QED
  BY <1>3 DEF Story

LEMMA StopSpoken ==
    ASSUME Typed, Sessions, Story, Stop
    PROVE  Story'
<1>1. ioq # <<>> /\ H \in IoEntries /\ H.op = "stop"
  BY Heads DEF Stop, Running, H
<1>2. \A k \in Peers : told[k] \notin {"accepted", "connected"}
  <2>1. Stopping
    <3>1. H \in Enders
      BY <1>1 DEF Enders
    <3> DEFINE S == Enders
    <3>2. H \in S /\ ioq \in Seq(IoEntries)
      BY <3>1 DEF Typed, IoTyped
    <3> HIDE DEF S
    <3>3. Has(ioq, S)
      BY <1>1, <3>2, Popped DEF H
    <3>4. QED
      BY <3>3 DEF Stopping, S
  <2>2. \A k \in Peers : told[k] # "unknown" => k \in 1..next
    BY Numbers
  <2>3. QED
    BY <2>1, <2>2 DEF Sessions
<1>3. CASE Locked
  <2>1. /\ CloseEverything /\ ioq' = Tail(ioq) \o (AllPeersClosed \o ProbeClosed)
        /\ UNCHANGED <<told, exposed, generation, attached>>
    BY <1>3 DEF Stop, Posting, IoUnchanged, DispatcherUnchanged, appVars, scopeVars
  <2> DEFINE x == AllPeersClosed \o ProbeClosed
  <2>2. /\ x \in Seq(IoEntries)
        /\ \A A : Has(x, A) => \/ \E id \in peers : About("peerClose", id) \in A
                               \/ probePeer # None /\ About("probeClose", probePeer) \in A
    BY ClosingPosts
  <2>3. ioq' = Tail(ioq) \o x
    BY <2>1
  <2> HIDE DEF x
  <2>4. QED
    BY <1>1, <1>2, <2>1, <2>2, <2>3, EverythingSpoken
<1>4. CASE ~Locked
  <2>1. UNCHANGED <<told, session, sock, ready, exposed, peers, next, generation, attached, dq>>
    BY <1>4 DEF Stop, IoUnchanged, DispatcherUnchanged, appVars, scopeVars, peerVars
  <2>2. \A k \in Peers : IoLeaves(k)
    <3>1. Undisturbed(ioq, ioq', Others({"stop"}))
      <4>1. ioq' = Tail(ioq) \o <<>>
        BY <1>4 DEF Stop, Posting
      <4>2. <<>> \in Seq(IoEntries) /\ ~Has(<<>>, Others({"stop"}))
        BY Made
      <4>3. QED
        BY <1>1, <4>1, <4>2, IoTouch
    <3>2. QED
      BY <3>1, IoLeavesOthers
  <2>3. QED
    BY <2>1, <2>2, HushedSame, StoryKept
<1>5. QED
  BY <1>3, <1>4

LEMMA ShutdownSpoken ==
    ASSUME Typed, Ordered, Story, Shutdown
    PROVE  Story'
<1> DEFINE c == AllPeersClosed \o ProbeClosed
           x == c \o <<Do("keepAlive")>>
<1>1. /\ ioq # <<>> /\ H.op = "shutdown" /\ H \in IoEntries
      /\ ioq' = Tail(ioq) \o x /\ x \in Seq(IoEntries)
      /\ \A A : Has(x, A) <=> Has(c, A) \/ Do("keepAlive") \in A
  BY ShutdownPosts, Heads
<1>2. \A A : Has(c, A) => \/ \E id \in peers : About("peerClose", id) \in A
                          \/ probePeer # None /\ About("probeClose", probePeer) \in A
  BY ClosingPosts
<1> HIDE DEF c, x
<1>3. ~attached
  <2> DEFINE S == Io("shutdown")
  <2>1. H \in S /\ ioq \in Seq(IoEntries) /\ (attached => ~Has(ioq, S))
    BY <1>1 DEF Typed, IoTyped, Io, Ordered
  <2> HIDE DEF S
  <2>2. Has(ioq, S)
    BY <1>1, <2>1, Popped DEF H
  <2>3. QED
    BY <2>1, <2>2
<1>4. CloseEverything /\ UNCHANGED <<told, exposed, generation, attached>>
  BY DEF Shutdown, IoUnchanged, DispatcherUnchanged, appVars, scopeVars
<1>5. \A A : Has(x, A) => \/ \E id \in peers : About("peerClose", id) \in A
                          \/ probePeer # None /\ About("probeClose", probePeer) \in A
                          \/ Do("keepAlive") \in A
  BY <1>1, <1>2
<1>6. QED
  BY <1>1, <1>3, <1>4, <1>5, EverythingSpoken

LEMMA StoryInit == Init => Story
<1> SUFFICES ASSUME Init, NEW k \in Peers PROVE Spoken(k)
  BY DEF Story
<1>1. /\ dq = <<>> /\ ioq = <<>> /\ told[k] = "unknown" /\ exposed = {} /\ sock[k] = "none"
  BY DEF Init
<1>2. (\A A : ~Has(dq, A) /\ ~Has(ioq, A)) /\ \A A, B : NotBefore(dq, A, B)
  BY <1>1, Literals
<1>3. Announced(k)
  BY <1>1, <1>2 DEF Announced
<1>4. Closing(k) /\ InOrder(dq, k)
  BY <1>1, <1>2 DEF Closing, InOrder, Gone
<1>5. QED
  BY <1>3, <1>4 DEF Spoken

LEMMA StoryStep ==
    ASSUME ~LateReady, Safe, Story, [Next]_vars
    PROVE  Story'
<1>1. Typed /\ Ordered /\ Sessions /\ Owned
  BY DEF Safe
<1>2. CASE UNCHANGED vars
  BY <1>2, HushedSame, StoryKept DEF vars, scopeVars, peerVars, appVars
<1>3. CASE \/ \E op \in {"start", "stop"} : Call(op)
           \/ \E id \in Peers : AsyncClosePeer(id)
           \/ Retry \/ WatchFires \/ Detach
  BY <1>1, <1>3, CallSpoken, AsyncClosePeerSpoken, RetrySpoken, WatchFiresSpoken, DetachSpoken
<1>4. CASE DispatcherStep
  BY <1>1, <1>4, StartSpoken, EndSessionSpoken, PostStopSpoken, NotifySpoken, NotifyReadySpoken,
     DispatchSignalSpoken, ReportSpoken, PeerClosedSpoken, DebounceSpoken, TimerSpoken,
     CheckSpoken, PostShutdownSpoken DEF DispatcherStep
<1>5. CASE IoStep
  BY <1>1, <1>5, BindSpoken, AcceptedSpoken, EraseSpoken, ClosePeerSpoken, RunPeerCloseSpoken,
     ProbeIgnoredSpoken, ProbeBeginsSpoken, ProbeConnectedSpoken, ProbeFailedSpoken,
     ProbeAnsweredSpoken, RunProbeCloseSpoken, StopSpoken, ShutdownSpoken, KeepAliveSpoken
     DEF IoStep
<1>6. CASE Destroy \/ \E outcome \in {"ok", "error"} : AcceptCompletes(outcome)
  BY <1>1, <1>6, DestroySpoken, AcceptCompletesSpoken
<1>7. CASE \E id \in Peers : \/ PeerReady(id) \/ PeerReports(id) \/ Release(id)
                            \/ \E failed \in BOOLEAN : PeerEnds(id, failed)
  BY <1>1, <1>7, PeerReadySpoken, PeerReportsSpoken, ReleaseSpoken, PeerEndsSpoken
<1>8. CASE \E k \in Probes : \/ \E outcome \in {"ok", "failed"} : ProbeConnects(k, outcome)
                             \/ ProbeTimerExpires(k) \/ ProbeAnswers(k) \/ ProbeEnds(k)
                             \/ ReleaseProbe(k)
  BY <1>1, <1>8, ProbeConnectsSpoken, ProbeTimerExpiresSpoken, ProbeAnswersSpoken,
     ProbeEndsSpoken, ReleaseProbeSpoken
<1>9. QED
  BY <1>2, <1>3, <1>4, <1>5, <1>6, <1>7, <1>8 DEF Next, Destroyed

LEMMA AlwaysTold == ASSUME ~LateReady PROVE Spec => [](Safe /\ Story)
<1>1. Init => Safe /\ Story
  BY TypedInit, SoundInit, OwnedInit, StoryInit DEF Safe
<1>2. Safe /\ Story /\ [Next]_vars => Safe' /\ Story'
  BY TypedStep, SoundStep, OwnedStep, StoryStep DEF Safe
<1>3. QED
  BY <1>1, <1>2, PTL DEF Spec

\* What an entry for the dispatcher is, by its kind.
LEMMA DqKinds ==
    ASSUME NEW e \in DqEntries, e.op = "signal"
    PROVE  e = Signal(e.what, e.who)
<1>1. CASE e \in Orders
  BY <1>1 DEF Orders
<1>2. CASE e \in SessionNotes
  BY <1>2 DEF SessionNotes
<1>3. CASE e \in ReadyNotes
  BY <1>3 DEF ReadyNotes
<1>4. CASE e \in PeerSignals
  BY <1>4 DEF PeerSignals, Signal, Entry
<1>5. CASE e \in ProbeSignals
  BY <1>5 DEF ProbeSignals, Signal, Entry
<1>6. CASE e \in PeerReporting
  BY <1>6 DEF PeerReporting
<1>7. CASE e \in PeerClosing
  BY <1>7 DEF PeerClosing
<1>8. QED
  BY <1>1, <1>2, <1>3, <1>4, <1>5, <1>6, <1>7 DEF DqEntries

\* An exposed id whose connection is gone is on its way to peer_closed, from the peer's own closed
\* or from close_peer(), while async_close_peer, errors and frames interleave with the dispatcher;
\* and peer_closed is delivered only after the socket was closed.
THEOREM OnItsWay == ASSUME ~LateReady PROVE Spec => []ClosedIsOnItsWay
<1>1. Safe /\ Story => ClosedIsOnItsWay
  <2> SUFFICES ASSUME Safe, Story PROVE ClosedIsOnItsWay
    OBVIOUS
  <2>1. ASSUME NEW id \in exposed, sock[id] # "open", attached
        PROVE  \E e \in ToSet(dq) : e.who = id /\ (e.op = "peerClosed" \/ e = Signal("closed", id))
    <3>1. id \in Peers
      BY Numbers DEF Safe
    <3>2. Has(dq, Gone(id))
      BY <2>1, <3>1 DEF Story, Spoken, Announced, Closing
    <3>3. PICK e \in ToSet(dq) : e \in Gone(id)
      BY <3>2, Elements
    <3>4. e.who = id /\ (e.op = "peerClosed" \/ (e.op = "signal" /\ e.what = "closed"))
      BY <3>3 DEF Gone, Ends, Signals
    <3>5. e \in DqEntries
      BY <3>3 DEF Gone, Ends, Signals
    <3>6. e.op = "signal" /\ e.what = "closed" => e = Signal("closed", id)
      BY <3>4, <3>5, DqKinds
    <3>7. QED
      BY <3>3, <3>4, <3>6
  <2>2. ASSUME Dispatching("peerClosed")
        PROVE  sock[E.who] # "open"
    <3>1. dq # <<>> /\ E \in DqEntries /\ E.op = "peerClosed" /\ dq \in Seq(DqEntries)
      BY <2>2, Heads DEF Safe, Dispatching, E, Typed, DqTyped
    <3>2. E.who \in Peers
      BY <3>1, DqRead
    <3> DEFINE G == Gone(E.who)
    <3>3. E \in G /\ (Has(dq, G) => sock[E.who] # "open")
      BY <3>1, <3>2 DEF Gone, Ends, Safe, Owned, Socket
    <3> HIDE DEF G
    <3>4. Has(dq, G)
      BY <3>1, <3>3, Popped DEF E
    <3>5. QED
      BY <3>3, <3>4
  <2>3. QED
    BY <2>1, <2>2 DEF ClosedIsOnItsWay
<1>2. QED
  BY <1>1, AlwaysTold, PTL

\* What a peer reports is delivered after peer_connected, what it reported before its end before the
\* peer_closed of that end, although the three take different ways through the dispatcher's queue;
\* and what it reports after its end finds the id no longer exposed.
THEOREM ReportsOrdered == ASSUME ~LateReady PROVE Spec => []ReportsInOrder
<1>1. Safe /\ Story => ReportsInOrder
  <2> SUFFICES ASSUME Safe, Story PROVE ReportsInOrder
    OBVIOUS
  <2>1. \A e \in ToSet(dq) : e \in DqEntries
    BY DEF Safe, Typed, DqTyped, ToSet
  <2>2. ASSUME NEW op \in {"report", "peerClosed"}, Dispatching(op)
        PROVE  dq # <<>> /\ E \in DqEntries /\ E.op = op /\ E.who \in Peers /\ dq \in Seq(DqEntries)
    BY <2>2, Heads, DqRead DEF Safe, Dispatching, E, Typed, DqTyped
  <2>3. ASSUME Dispatching("report"), NEW e \in ToSet(dq), e.who = E.who, e.what = "ready"
        PROVE  FALSE
    <3> PICK k \in Peers : k = E.who
      BY <2>2, <2>3
    <3> DEFINE R == Reports(k)
               N == Notes(k)
               SR == Signals("ready", k)
    <3>1. e \in N \/ e \in SR
      <4>1. e \in DqEntries /\ e.who \in Peers
        BY <2>1, <2>3
      <4>2. e.op \in {"note", "signal"}
        BY <2>3, <4>1, DqRead, Names
      <4>3. QED
        BY <2>3, <4>1, <4>2 DEF Notes, Signals
    <3>2. E \in R /\ E \notin N /\ NotBefore(dq, R, N) /\ (Has(dq, R) => ~Has(dq, SR))
      BY <2>2, <2>3 DEF Reports, Notes, Story, Spoken, InOrder
    <3> HIDE DEF R, N, SR
    <3>3. Has(dq, N) \/ Has(dq, SR)
      BY <2>3, <3>1, Elements
    <3>4. dq # <<>> /\ dq \in Seq(DqEntries)
      BY <2>2, <2>3
    <3>5. /\ \A B : Has(dq, B) <=> E \in B \/ Has(Tail(dq), B)
          /\ \A B, C : NotBefore(dq, B, C) => ~(E \in B /\ Has(Tail(dq), C))
      BY <3>4, Popped DEF E
    <3>6. QED
      BY <3>2, <3>3, <3>5
  <2>4. ASSUME Dispatching("report"), E.what = "late", E.who \in exposed
        PROVE  FALSE
    <3> PICK k \in Peers : k = E.who
      BY <2>2, <2>4
    <3>1. E \in TooLate(k) /\ told[k] = "connected" /\ Closing(k)
      BY <2>2, <2>4 DEF TooLate, Reports, Story, Spoken, Announced
    <3>2. Trails(dq, k)
      BY <3>1 DEF Closing
    <3>3. dq # <<>> /\ dq \in Seq(DqEntries)
      BY <2>2, <2>4
    <3>4. QED
      BY <3>1, <3>2, <3>3, TrailsKept DEF E
  <2>5. ASSUME Dispatching("peerClosed"), E.what = "slot", NEW e \in ToSet(dq), e.who = E.who, e.what = "report"
        PROVE  FALSE
    <3> PICK k \in Peers : k = E.who
      BY <2>2, <2>5
    <3> DEFINE L == SlotEnds(k)
               I == InTime(k)
               SP == Signals("report", k)
    <3>1. e \in I \/ e \in SP
      <4>1. e \in DqEntries /\ e.who \in Peers
        BY <2>1, <2>5
      <4>2. e.op \in {"report", "signal"}
        BY <2>5, <4>1, DqRead, Names
      <4>3. QED
        BY <2>5, <4>1, <4>2 DEF InTime, Reports, Signals
    <3>2. E \in L /\ E \notin I /\ NotBefore(dq, L, I) /\ (Has(dq, L) => ~Has(dq, SP))
      BY <2>2, <2>5 DEF SlotEnds, InTime, Reports, Story, Spoken, InOrder
    <3> HIDE DEF L, I, SP
    <3>3. Has(dq, I) \/ Has(dq, SP)
      BY <2>5, <3>1, Elements
    <3>4. dq # <<>> /\ dq \in Seq(DqEntries)
      BY <2>2, <2>5
    <3>5. /\ \A B : Has(dq, B) <=> E \in B \/ Has(Tail(dq), B)
          /\ \A B, C : NotBefore(dq, B, C) => ~(E \in B /\ Has(Tail(dq), C))
      BY <3>4, Popped DEF E
    <3>6. QED
      BY <3>2, <3>3, <3>5
  <2>6. QED
    BY <2>3, <2>4, <2>5 DEF ReportsInOrder
<1>2. QED
  BY <1>1, AlwaysTold, PTL

\* The note that announces a peer finds it accepted.
LEMMA ReadyAccepted ==
    ASSUME Safe, Story, Dispatching("note"), IsCurrent(E.token), E.what = "ready"
    PROVE  E.who \in Peers /\ told[E.who] = "accepted"
<1>1. /\ dq # <<>> /\ E \in DqEntries /\ E = Head(dq) /\ E.op = "note" /\ E.token = generation
      /\ E.who \in Known(next) /\ dq \in Seq(DqEntries)
  BY Heads DEF Safe, Typed, DqTyped, Dispatching, IsCurrent, E
<1> PICK id \in Peers : id = E.who
  BY <1>1, DqRead
<1>2. id <= next
  BY <1>1, Numbers DEF Safe
<1> DEFINE S == Astray(id, session[id])
           A == Announcing(id)
<1>3. ~Has(dq, S) /\ E \in A /\ (session[id] # generation => E \in S)
      /\ (session[id] = generation /\ Has(dq, A) => told[id] = "accepted")
  BY <1>1, <1>2 DEF Safe, Sessions, Story, Spoken, Announced, Astray, Announcing, Notes
<1> HIDE DEF S, A
<1>4. \A B : Has(dq, B) <=> E \in B \/ Has(Tail(dq), B)
  BY <1>1, Popped
<1>5. QED
  BY <1>3, <1>4

\* The steps that tell the application something of a peer.
LEMMA LifecycleStep ==
    ASSUME ~LateReady, Safe, Story, [Next]_vars
    PROVE  [Lifecycle!Next]_told
<1>1. Typed /\ told \in [Peers -> {"unknown", "accepted", "connected", "closed", "over"}]
  BY DEF Safe, Typed, StateTyped, PeersTyped
<1>2. CASE EndSession \/ PostShutdown
  BY <1>2 DEF EndSession, PostShutdown, SessionEnded, Lifecycle!Next, Lifecycle!EndSession
<1>3. ASSUME NEW answer \in {"verified", "refused"}, NotifyReady(answer)
      PROVE  [Lifecycle!Next]_told
  <2>1. E.who \in Peers /\ told[E.who] = "accepted"
    BY <1>3, ReadyAccepted DEF NotifyReady
  <2>2. told' = told \/ told' = [told EXCEPT ![E.who] = "connected"]
    BY <1>3 DEF NotifyReady
  <2>3. QED
    BY <2>1, <2>2 DEF Lifecycle!Next, Lifecycle!Announce, Lifecycle!Becomes
<1>4. CASE PeerClosed
  <2>1. E.who \in Peers
    BY <1>1, <1>4, Heads, DqRead DEF PeerClosed, Dispatching, E
  <2>2. E.who \in exposed <=> told[E.who] = "connected"
    BY <2>1 DEF Story, Spoken, Announced
  <2>3. told' = [told EXCEPT ![E.who] = IF E.who \in exposed THEN "closed"
                                        ELSE IF @ = "accepted" THEN "over" ELSE @]
    BY <1>4 DEF PeerClosed, Over
  <2>4. CASE E.who \in exposed
    BY <2>1, <2>2, <2>3, <2>4 DEF Lifecycle!Next, Lifecycle!Close, Lifecycle!Becomes
  <2>5. CASE E.who \notin exposed /\ told[E.who] = "accepted"
    BY <2>1, <2>3, <2>5 DEF Lifecycle!Next, Lifecycle!Forget, Lifecycle!Becomes
  <2>6. CASE E.who \notin exposed /\ told[E.who] # "accepted"
    BY <1>1, <2>1, <2>3, <2>6
  <2>7. QED
    BY <2>4, <2>5, <2>6
<1>5. CASE Accepted
  <2>1. \/ told' = told
        \/ next + 1 \in Peers /\ told' = [told EXCEPT ![next + 1] = "accepted"]
    BY <1>5 DEF Accepted, appVars
  <2>2. next + 1 \in Peers => told[next + 1] = "unknown"
    BY <1>1, Numbers
  <2>3. QED
    BY <2>1, <2>2 DEF Lifecycle!Next, Lifecycle!Accept, Lifecycle!Becomes
<1>6. CASE \/ \E op \in {"start", "stop"} : Call(op)
           \/ \E id \in Peers : AsyncClosePeer(id)
           \/ Retry \/ WatchFires \/ Detach \/ Destroyed \/ UNCHANGED vars
  BY <1>6 DEF Call, AsyncClosePeer, Retry, WatchFires, Detach, Destroyed, vars, appVars
<1>7. CASE Start \/ PostStop \/ Notify \/ DispatchSignal \/ Report \/ Debounce \/ Timer \/ Check
  BY <1>7 DEF Start, PostStop, Notify, DispatchSignal, Report, Debounce, Timer, Check, appVars
<1>8. CASE \/ \E outcome \in {"bound", "bind_failed", "ignored"} : Bind(outcome)
           \/ Erase \/ ClosePeer \/ RunPeerClose
           \/ ProbeIgnored \/ \E k \in Probes : ProbeBegins(k)
           \/ ProbeConnected \/ ProbeFailed \/ ProbeAnswered \/ RunProbeClose
           \/ Stop \/ Shutdown \/ KeepAlive \/ Destroy
  BY <1>8 DEF Bind, Erase, ClosePeer, RunPeerClose, ProbeIgnored, ProbeBegins, ProbeConnected,
     ProbeFailed, ProbeAnswered, RunProbeClose, Stop, Shutdown, KeepAlive, Destroy,
     IoUnchanged, DispatcherUnchanged, appVars
<1>9. CASE \/ \E outcome \in {"ok", "error"} : AcceptCompletes(outcome)
           \/ \E id \in Peers : \/ PeerReady(id) \/ PeerReports(id) \/ Release(id)
                                \/ \E failed \in BOOLEAN : PeerEnds(id, failed)
           \/ \E k \in Probes : \/ \E outcome \in {"ok", "failed"} : ProbeConnects(k, outcome)
                                \/ ProbeTimerExpires(k) \/ ProbeAnswers(k) \/ ProbeEnds(k)
                                \/ ReleaseProbe(k)
  BY <1>9 DEF AcceptCompletes, PeerReady, PeerReports, Release, PeerEnds, ProbeConnects,
     ProbeTimerExpires, ProbeAnswers, ProbeEnds, ReleaseProbe, IoUnchanged, DispatcherUnchanged,
     appVars
<1>10. QED
  BY <1>2, <1>3, <1>4, <1>5, <1>6, <1>7, <1>8, <1>9 DEF Next, DispatcherStep, IoStep

\* The server implements what it promises of its peers: peer_connected at most once and only for
\* an accepted connection, peer_closed once and only after it, and silence over a session's end.
THEOREM Lives == ASSUME ~LateReady PROVE Spec => KeepsLifecycle
<1>1. Init => Lifecycle!Init
  BY DEF Init, Lifecycle!Init
<1>2. Safe /\ Story /\ [Next]_vars => [Lifecycle!Next]_told
  BY LifecycleStep
<1>3. QED
  BY <1>1, <1>2, AlwaysTold, PTL DEF Spec, KeepsLifecycle, Lifecycle!Spec

=============================================================================
