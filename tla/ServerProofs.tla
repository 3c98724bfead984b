------------------------------ MODULE ServerProofs ------------------------------
(***************************************************************************)
(* The safety of Server.tla, for every number of peers and probes and      *)
(* every budget.  What can go wrong is in the two queues, so the inductive *)
(* invariants say which entries they hold and in which order.              *)
(***************************************************************************)
EXTENDS Server, QueueProofs

-----------------------------------------------------------------------------
\* The entries of the two queues.

Orders == [op : {"start", "stop", "cancel", "debounce", "timerStart", "timerStop", "check"},
           who : {None}, token : {0}, what : {""}]
SessionNotes == [op : {"note"}, who : {None}, token : Nat, what : {"bound", "bind_failed", "closed"}]
ReadyNotes == [op : {"note"}, who : Peers, token : Nat, what : {"ready"}]
PeerSignals == [op : {"signal"}, who : Peers, token : {0}, what : {"ready", "closed", "report", "late"}]
ProbeSignals == [op : {"signal"}, who : Probes, token : {0}, what : {"answer", "failed"}]
PeerReporting == [op : {"report"}, who : Peers, token : {0}, what : {"report", "late"}]
PeerClosing == [op : {"peerClosed"}, who : Peers, token : {0}, what : {"", "slot"}]

DqEntries == UNION {Orders, SessionNotes, ReadyNotes, PeerSignals, ProbeSignals, PeerReporting,
                    PeerClosing}

Commands == [op : {"stop", "shutdown", "keepAlive"}, who : {None}, token : {0}, what : {""}]
Attempts == [op : {"bind", "probe"}, who : {None}, token : Nat, what : {""}]
Accepts == [op : {"accepted"}, who : {None}, token : Nat, what : {"ok", "error"}]
PeerHandlers == [op : {"closePeer", "erase"}, who : Peers, token : {0}, what : {""}]
PeerCloses == [op : {"peerClose"}, who : Peers, token : {0}, what : {"", "notify"}]
ProbeDone == [op : {"probeConnected"}, who : Probes, token : Nat, what : {"ok", "failed"}]
ProbeEvents == [op : {"probeTimeout", "probeFailed", "probeAnswer", "probeClose"},
                who : Probes, token : {0}, what : {""}]

IoEntries == UNION {Commands, Attempts, Accepts, PeerHandlers, PeerCloses, ProbeDone,
                    ProbeEvents}

Dq(op) == {e \in DqEntries : e.op = op}
Io(op) == {t \in IoEntries : t.op = op}
Scheduled == {e \in DqEntries : e.op # "signal"}

Signals(what, k) == {e \in DqEntries : e.op = "signal" /\ e.what = what /\ e.who = k}
Notes(k) == {e \in DqEntries : e.op = "note" /\ e.what = "ready" /\ e.who = k}
Announcing(k) == Signals("ready", k) \cup Notes(k)
Reports(k) == {e \in DqEntries : e.op = "report" /\ e.who = k}
Ends(k) == {e \in DqEntries : e.op = "peerClosed" /\ e.who = k}
SlotEnds(k) == {e \in DqEntries : e.op = "peerClosed" /\ e.who = k /\ e.what = "slot"}
Gone(k) == Signals("closed", k) \cup Ends(k)
Words(k) == {e \in DqEntries : e.who = k}
Handlers(op, k) == {t \in IoEntries : t.op = op /\ t.who = k}
Notifying(k) == {t \in IoEntries : t.op = "peerClose" /\ t.who = k /\ t.what = "notify"}
Astray(k, g) == {e \in Notes(k) : e.token # g}

\* Of other operations.
Others(ops) == {e \in DqEntries \cup IoEntries : e.op \notin ops}

\* Of a session.
Later(g) == {n \in Nat : n > g}
Known(n) == {None} \cup Probes \cup 1..n
Beyond(g, n) == {e \in DqEntries \cup IoEntries : e.token > g \/ e.who \notin Known(n)}
Binds(g) == {t \in IoEntries : t.op = "bind" /\ t.token = g}
Enders == {t \in IoEntries : t.op \in {"stop", "shutdown"}}
Fresh(g) == {t \in IoEntries : t.op \in {"bind", "probe", "accepted"} /\ t.token = g}
BoundNotes(g) == {e \in DqEntries : e.op = "note" /\ e.what = "bound" /\ e.token = g}
ClosedNotes(g) ==
    {e \in DqEntries : e.op = "note" /\ e.what \in {"closed", "bind_failed"} /\ e.token = g}

BindNotes(g) == {e \in DqEntries : e.op = "note" /\ e.what \in {"bound", "bind_failed"} /\ e.token = g}
LostNotes(g) == {e \in DqEntries : e.op = "note" /\ e.what = "closed" /\ e.token = g}

\* What decides whether the acceptor is bound again and its path checked.
Crucial(g) ==
    {e \in DqEntries : e.op \in {"stop", "cancel", "debounce", "timerStart", "timerStop"}}
      \cup BoundNotes(g) \cup ClosedNotes(g)

-----------------------------------------------------------------------------

DqTyped == dq \in Seq(DqEntries) /\ ~Has(dq, Beyond(generation, next))
IoTyped == ioq \in Seq(IoEntries) /\ ~Has(ioq, Beyond(generation, next))

ScopeTyped ==
    /\ running \in BOOLEAN /\ attached \in BOOLEAN /\ retry \in BOOLEAN /\ watch \in BOOLEAN
    /\ generation \in Nat
    /\ dpc \in {"idle", "stop", "shutdown"}
    /\ life \in {"live", "closing", "releasing", "destroyed"}
    /\ app \in BOOLEAN
AcceptorTyped ==
    /\ acceptor \in BOOLEAN
    /\ accepting \in Seq(Nat) /\ ~Has(accepting, Later(generation))
    /\ accepting # <<>> => acceptor
PeersTyped ==
    /\ next \in {0} \cup Peers /\ peers \subseteq 1..next /\ exposed \subseteq 1..next
    /\ sock \in [Peers -> SockStates] /\ ready \subseteq 1..next
    /\ session \in [Peers -> 0..generation]
    /\ told \in [Peers -> {"unknown", "accepted", "connected", "closed", "over"}]
    /\ \A id \in Peers : id > next => sock[id] = "none" /\ told[id] = "unknown"
ProbesTyped ==
    /\ probe \in Probes \cup {None} /\ probePeer \in {probe, None}
    /\ probes \in [Probes -> [state : ProbeStates, timer : BOOLEAN, token : 0..generation]]
BudgetTyped == left \in [Bounds -> Nat]

StateTyped == ScopeTyped /\ AcceptorTyped /\ PeersTyped /\ ProbesTyped /\ BudgetTyped

Typed == DqTyped /\ IoTyped /\ StateTyped

\* stop or the destruction has begun, and the I/O thread does not know.
Stopping == dpc = "stop" \/ Has(ioq, Enders)

Ordered ==
    /\ attached => life = "live" /\ ~Has(ioq, Io("shutdown")) /\ dpc # "shutdown"
    /\ ~attached => ~Has(dq, Scheduled) /\ ~retry /\ ~watch /\ dpc # "stop"
    /\ dpc = "shutdown" => life = "live" /\ ~Has(ioq, Io("shutdown"))
    /\ ~attached /\ dpc = "idle" => ~running
    /\ NotBefore(ioq, Io("shutdown"), Enders)
    /\ life # "live" => ~Has(ioq, Enders)
    /\ life = "live" => ~Has(ioq, Io("keepAlive"))
    /\ dpc = "stop" => ~running /\ ~Has(ioq, Fresh(generation))
    /\ NotBefore(ioq, Fresh(generation), Enders)

Sessions ==
    /\ Stopping => ~Has(accepting, {generation})
    /\ \A id \in 1..next : session[id] = generation => running /\ ~Stopping
    /\ \A id \in peers : session[id] # generation => Stopping
    /\ probe # None => (IF probes[probe].token = generation THEN running /\ ~Stopping ELSE Stopping)
    /\ acceptor /\ ~running => Stopping
    /\ \A id \in 1..next : told[id] \in {"accepted", "connected"} => session[id] = generation
    /\ \A id \in Peers : ~Has(dq, Astray(id, session[id]))

\* Of what a queue reports of binds to an application that was last told bound or not:
\* every bind is tried after the acceptor that it was told of was lost.
Preceded(q, g, a) ==
    Follows(q, BindNotes(g), IF a THEN {} ELSE BindNotes(g), LostNotes(g), BoundNotes(g))
Lost(q, g) == Outlasts(q, LostNotes(g), BoundNotes(g))

Bindings ==
    /\ Stopping \/ ~running => /\ ~app /\ ~Has(dq, BoundNotes(generation))
                               /\ ~Has(dq, ClosedNotes(generation))
    /\ Preceded(dq, generation, app)
    /\ attached /\ ~acceptor /\ (app \/ Has(dq, BoundNotes(generation))) => Lost(dq, generation)

WillBind ==
    \/ Has(ioq, Binds(generation))
    \/ Has(dq, Dq("stop"))
    \/ Outlasts(dq, Dq("debounce") \cup ClosedNotes(generation), Dq("cancel"))
    \/ retry /\ ~Has(dq, Dq("cancel"))

WillCheck ==
    \/ Has(dq, Dq("stop"))
    \/ Outlasts(dq, BoundNotes(generation), ClosedNotes(generation))
    \/ /\ ~Has(dq, ClosedNotes(generation))
       /\ \/ Outlasts(dq, Dq("timerStart"), Dq("timerStop"))
          \/ watch /\ ~Has(dq, Dq("timerStop"))

Busy ==
    /\ running /\ dpc = "idle" /\ (acceptor => Stopping) => WillBind
    /\ running /\ dpc = "idle" /\ acceptor /\ ~Stopping => WillCheck

\* The connection of a peer: an open one has an owner, and is not spoken of as closed.
Socket(k) ==
    sock[k] = "open" => /\ ~Has(dq, Gone(k)) /\ ~Has(ioq, Handlers("erase", k))
                        /\ k \in peers \/ Has(ioq, Handlers("peerClose", k))

\* The connection of a probe.
ProbeOwned(k) ==
    /\ probes[k].state \in {"open", "answered"} => k = probePeer \/ Has(ioq, Handlers("probeClose", k))
    /\ probes[k].state = "connected" => Has(ioq, Handlers("probeConnected", k))

-----------------------------------------------------------------------------
\* The entries that the actions make.

LEMMA Names ==
    /\ None \notin Peers /\ None \notin Probes /\ Peers \cap Probes = {}
    /\ Peers \subseteq Nat /\ 0 \notin Peers /\ Cardinality(Peers) \in Nat
    /\ \A n \in {0} \cup Peers : n \in Nat /\ 1..n \subseteq Peers /\ n + 1 # None
<1>1. IsFiniteSet(Peers) /\ Peers = 1..Cardinality(Peers) /\ None \notin Probes \cup Nat
      /\ Probes \cap Nat = {}
  BY ServerAssumption
<1>2. Cardinality(Peers) \in Nat
  BY <1>1, FS_CardinalityType
<1>3. QED
  BY <1>1, <1>2

\* Entries for the dispatcher.
LEMMA DqMade ==
    /\ \A op \in {"start", "stop", "cancel", "debounce", "timerStart", "timerStop", "check"} :
         Do(op) \in DqEntries
    /\ \A n \in Nat : \A w \in {"bound", "bind_failed", "closed"} : Note(w, None, n) \in DqEntries
    /\ \A n \in Nat, k \in Peers : Note("ready", k, n) \in DqEntries
    /\ \A k \in Peers : /\ \A w \in {"ready", "closed", "report", "late"} : Signal(w, k) \in DqEntries
                        /\ \A w \in {"report", "late"} : Entry("report", k, 0, w) \in DqEntries
                        /\ \A w \in {"", "slot"} : Entry("peerClosed", k, 0, w) \in DqEntries
    /\ \A k \in Probes : \A w \in {"answer", "failed"} : Signal(w, k) \in DqEntries
BY DEF DqEntries, Orders, SessionNotes, ReadyNotes, PeerSignals, ProbeSignals, PeerReporting,
       PeerClosing, Do, Note, Signal, About, Entry

\* Handlers for the I/O thread.
LEMMA IoMade ==
    /\ \A op \in {"stop", "shutdown", "keepAlive"} : Do(op) \in IoEntries
    /\ \A n \in Nat : \A op \in {"bind", "probe"} : With(op, n) \in IoEntries
    /\ \A n \in Nat : \A w \in {"ok", "error"} : Entry("accepted", None, n, w) \in IoEntries
    /\ \A k \in Peers : /\ \A op \in {"closePeer", "erase"} : About(op, k) \in IoEntries
                        /\ \A w \in {"", "notify"} : Entry("peerClose", k, 0, w) \in IoEntries
    /\ \A k \in Probes :
         /\ \A op \in {"probeTimeout", "probeFailed", "probeAnswer", "probeClose"} :
              About(op, k) \in IoEntries
         /\ \A n \in Nat : \A w \in {"ok", "failed"} : Entry("probeConnected", k, n, w) \in IoEntries
BY DEF IoEntries, Commands, Attempts, Accepts, PeerHandlers, PeerCloses, ProbeDone, ProbeEvents,
       Do, With, About, Entry

\* What an entry is, by its operation.
LEMMA DqRead ==
    ASSUME NEW e \in DqEntries
    PROVE  /\ e.token \in Nat
           /\ e.op = "note" => /\ e.what \in {"bound", "bind_failed", "closed", "ready"}
                               /\ e.what = "ready" => e.who \in Peers
                               /\ e.what # "ready" => e.who = None
           /\ e.op # "note" => e.token = 0
           /\ e.op \in {"report", "peerClosed"} => e.who \in Peers
           /\ e.op = "report" => e.what \in {"report", "late"}
           /\ e.op = "peerClosed" => e.what \in {"", "slot"}
           /\ e.op = "signal" =>
                \/ e.who \in Peers /\ e.what \in {"ready", "closed", "report", "late"}
                \/ e.who \in Probes /\ e.what \in {"answer", "failed"}
           /\ e.who \in Peers \cup Probes \cup {None}
           /\ e.op \notin {"note", "signal", "report", "peerClosed"} =>
                /\ e.who = None /\ e.what = ""
                /\ e.op \in {"start", "stop", "cancel", "debounce", "timerStart", "timerStop", "check"}
<1>1. CASE e \in Orders
  BY <1>1, Names DEF Orders
<1>2. CASE e \in SessionNotes
  BY <1>2, Names DEF SessionNotes
<1>3. CASE e \in ReadyNotes
  BY <1>3, Names DEF ReadyNotes
<1>4. CASE e \in PeerSignals
  BY <1>4, Names DEF PeerSignals
<1>5. CASE e \in ProbeSignals
  BY <1>5, Names DEF ProbeSignals
<1>6. CASE e \in PeerReporting
  BY <1>6, Names DEF PeerReporting
<1>7. CASE e \in PeerClosing
  BY <1>7, Names DEF PeerClosing
<1>8. QED
  BY <1>1, <1>2, <1>3, <1>4, <1>5, <1>6, <1>7 DEF DqEntries

LEMMA IoRead ==
    ASSUME NEW t \in IoEntries
    PROVE  /\ t.token \in Nat
           /\ t.op \notin {"bind", "probe", "accepted", "probeConnected"} => t.token = 0
           /\ t.op \in {"closePeer", "erase", "peerClose"} => t.who \in Peers
           /\ t.op = "peerClose" => t.what \in {"", "notify"}
           /\ t.op = "accepted" => t.what \in {"ok", "error"}
           /\ t.op = "probeConnected" => t.what \in {"ok", "failed"}
           /\ t.op \in {"probeConnected", "probeTimeout", "probeFailed", "probeAnswer", "probeClose"}
                => t.who \in Probes
           /\ t.op \in {"stop", "shutdown", "keepAlive", "bind", "probe", "accepted"} => t.who = None
           /\ t.who \in Peers \cup Probes \cup {None}
           /\ t.op \notin {"note", "signal"}
<1>1. CASE t \in Commands
  BY <1>1, Names DEF Commands
<1>2. CASE t \in Attempts
  BY <1>2, Names DEF Attempts
<1>3. CASE t \in Accepts
  BY <1>3, Names DEF Accepts
<1>4. CASE t \in PeerHandlers
  BY <1>4, Names DEF PeerHandlers
<1>5. CASE t \in PeerCloses
  BY <1>5, Names DEF PeerCloses
<1>6. CASE t \in ProbeDone
  BY <1>6, Names DEF ProbeDone
<1>7. CASE t \in ProbeEvents
  BY <1>7, Names DEF ProbeEvents
<1>8. QED
  BY <1>1, <1>2, <1>3, <1>4, <1>5, <1>6, <1>7 DEF IoEntries

-----------------------------------------------------------------------------
\* Types.

LEMMA DqSent ==
    ASSUME DqTyped, NEW x \in Seq(DqEntries), ~Has(x, Beyond(generation, next)),
           \/ dq' = dq \o x
           \/ dq # <<>> /\ dq' = Tail(dq) \o x
    PROVE  dq' \in Seq(DqEntries) /\ ~Has(dq', Beyond(generation, next))
<1> DEFINE B == Beyond(generation, next)
<1> HIDE DEF B
<1>1. dq \in Seq(DqEntries) /\ ~Has(dq, B) /\ ~Has(x, B)
  BY DEF DqTyped, B
<1>2. CASE dq' = dq \o x
  BY <1>1, <1>2, SentHas DEF B
<1>3. CASE dq # <<>> /\ dq' = Tail(dq) \o x
  BY <1>1, <1>3, TakenHas DEF B
<1>4. QED
  BY <1>2, <1>3

LEMMA IoSent ==
    ASSUME IoTyped, NEW x \in Seq(IoEntries), ~Has(x, Beyond(generation, next)),
           \/ ioq' = ioq \o x
           \/ ioq # <<>> /\ ioq' = Tail(ioq) \o x
    PROVE  ioq' \in Seq(IoEntries) /\ ~Has(ioq', Beyond(generation, next))
<1> DEFINE B == Beyond(generation, next)
<1> HIDE DEF B
<1>1. ioq \in Seq(IoEntries) /\ ~Has(ioq, B) /\ ~Has(x, B)
  BY DEF IoTyped, B
<1>2. CASE ioq' = ioq \o x
  BY <1>1, <1>2, SentHas DEF B
<1>3. CASE ioq # <<>> /\ ioq' = Tail(ioq) \o x
  BY <1>1, <1>3, TakenHas DEF B
<1>4. QED
  BY <1>2, <1>3

\* The next generation.
LEMMA NextGeneration ==
    ASSUME NEW g \in Nat, NEW n \in Nat, NEW S, NEW q \in Seq(S)
    PROVE  /\ ~Has(q, Beyond(g, n)) => ~Has(q, Beyond(g + 1, n)) /\ ~Has(q, Beyond(g, n + 1))
           /\ ~Has(q, Later(g)) => ~Has(q, Later(g + 1))
<1>1. \A e \in DqEntries \cup IoEntries : e.token \in Nat
  <2>1. \A e \in DqEntries : e.token \in Nat
    BY DqRead
  <2>2. \A e \in IoEntries : e.token \in Nat
    BY IoRead
  <2>3. QED
    BY <2>1, <2>2
<1>2. (Beyond(g + 1, n) \cap S) \subseteq Beyond(g, n) /\ (Beyond(g, n + 1) \cap S) \subseteq Beyond(g, n)
  BY <1>1 DEF Beyond, Known
<1>3. (Later(g + 1) \cap S) \subseteq Later(g)
  BY DEF Later
<1>4. QED
  BY <1>2, <1>3, Widened

LEMMA Tokens ==
    ASSUME generation \in Nat
    PROVE  /\ \A op, what : \A who \in Known(next), n \in 0..generation :
                Entry(op, who, n, what) \notin Beyond(generation, next)
           /\ \A op : Do(op) \notin Beyond(generation, next)
           /\ \A op : \A who \in Known(next) : About(op, who) \notin Beyond(generation, next)
           /\ \A op : \A n \in 0..generation : With(op, n) \notin Beyond(generation, next)
           /\ \A what : \A who \in Known(next), n \in 0..generation :
                Note(what, who, n) \notin Beyond(generation, next)
           /\ \A what : \A who \in Known(next) : Signal(what, who) \notin Beyond(generation, next)
<1>1. ASSUME NEW op, NEW who \in Known(next), NEW what, NEW n \in 0..generation
      PROVE  Entry(op, who, n, what) \notin Beyond(generation, next)
  <2>1. Entry(op, who, n, what).token = n /\ Entry(op, who, n, what).who = who
    BY DEF Entry
  <2>2. QED
    BY <2>1 DEF Beyond
<1>2. 0 \in 0..generation /\ None \in Known(next)
  BY DEF Known
<1>3. /\ \A op : Do(op) \notin Beyond(generation, next)
      /\ \A op : \A who \in Known(next) : About(op, who) \notin Beyond(generation, next)
      /\ \A what : \A who \in Known(next) : Signal(what, who) \notin Beyond(generation, next)
  BY <1>1, <1>2 DEF Do, About, Signal
<1>4. /\ \A op : \A n \in 0..generation : With(op, n) \notin Beyond(generation, next)
      /\ \A what : \A who \in Known(next), n \in 0..generation :
           Note(what, who, n) \notin Beyond(generation, next)
  BY <1>1, <1>2 DEF With, Note
<1>5. QED
  BY <1>1, <1>3, <1>4

LEMMA Touching ==
    ASSUME NEW ops
    PROVE  /\ \A op \in ops : /\ Do(op) \notin Others(ops)
                              /\ \A who : About(op, who) \notin Others(ops)
                              /\ \A n : With(op, n) \notin Others(ops)
                              /\ \A who, n, what : Entry(op, who, n, what) \notin Others(ops)
           /\ "note" \in ops => \A what, who, n : Note(what, who, n) \notin Others(ops)
           /\ "signal" \in ops => \A what, who : Signal(what, who) \notin Others(ops)
BY DEF Others, Do, About, With, Entry, Note, Signal

\* Of what the queues hold.
LEMMA Heads ==
    ASSUME Typed
    PROVE  /\ dq # <<>> => E \in DqEntries /\ E.token \in 0..generation /\ E.who \in Known(next)
           /\ ioq # <<>> => H \in IoEntries /\ H.token \in 0..generation /\ H.who \in Known(next)
<1>1. ASSUME dq # <<>>
      PROVE  E \in DqEntries /\ E.token \in 0..generation /\ E.who \in Known(next)
  <2>1. E \in DqEntries /\ E \notin Beyond(generation, next)
    BY <1>1, TakenHas, Made DEF Typed, DqTyped, E
  <2>2. E.token \in Nat /\ generation \in Nat
    BY <2>1, DqRead DEF Typed, StateTyped, ScopeTyped
  <2>3. QED
    BY <2>1, <2>2 DEF Beyond
<1>2. ASSUME ioq # <<>>
      PROVE  H \in IoEntries /\ H.token \in 0..generation /\ H.who \in Known(next)
  <2>1. H \in IoEntries /\ H \notin Beyond(generation, next)
    BY <1>2, TakenHas, Made DEF Typed, IoTyped, H
  <2>2. H.token \in Nat /\ generation \in Nat
    BY <2>1, IoRead DEF Typed, StateTyped, ScopeTyped
  <2>3. QED
    BY <2>1, <2>2 DEF Beyond
<1>3. QED
  BY <1>1, <1>2

\* What is left of a budget.
LEMMA Spent ==
    ASSUME left \in [Bounds -> Nat],
           left' = left \/ (\E what \in Bounds : Spend(what)) \/ \E failed : Fault(failed)
    PROVE  left' \in [Bounds -> Nat]
<1>1. ASSUME NEW what \in Bounds, Spend(what)
      PROVE  left' \in [Bounds -> Nat]
  BY <1>1 DEF Spend
<1>2. "faults" \in Bounds
  BY DEF Bounds
<1>3. QED
  BY <1>1, <1>2 DEF Fault

LEMMA Numbers ==
    ASSUME Typed
    PROVE  /\ generation \in Nat /\ generation \in 0..generation /\ 0 \in 0..generation
           /\ next \in Nat /\ 1..next \subseteq Peers
           /\ \A id \in Peers : sock[id] # "none" \/ told[id] # "unknown" => id \in 1..next
           /\ \A k \in Probes \cup {None} \cup 1..next : k \in Known(next)
           /\ \A id \in Peers : id \in Nat /\ (id \in Known(next) => id \in 1..next)
           /\ \A id \in Peers : session[id] \in 0..generation
           /\ \A k \in Probes : probes[k].token \in 0..generation
           /\ peers \subseteq 1..next /\ exposed \subseteq 1..next
<1>1. /\ generation \in Nat /\ PeersTyped /\ ProbesTyped
  BY DEF Typed, StateTyped, ScopeTyped
<1>2. next \in Nat /\ 1..next \subseteq Peers
  BY <1>1, Names DEF PeersTyped
<1>3. \A id \in Peers : id \in Nat /\ id >= 1 /\ id # None /\ id \notin Probes
  BY Names
<1>4. QED
  BY <1>1, <1>2, <1>3 DEF PeersTyped, ProbesTyped, Known

\* What stop and shutdown post.
LEMMA PeersToClose ==
    ASSUME Typed
    PROVE  /\ AllPeersClosed \in Seq(IoEntries)
           /\ \A A : Has(AllPeersClosed, A) <=> \E id \in peers : About("peerClose", id) \in A
           /\ ~Has(AllPeersClosed, Beyond(generation, next))
<1>1. /\ generation \in Nat /\ next \in Nat /\ peers \subseteq 1..next /\ 1..next \subseteq Peers
      /\ 1..next \subseteq Known(next)
  BY Numbers DEF Known
<1>2. IsFiniteSet(peers)
  <2>1. IsFiniteSet(1..next)
    BY <1>1, FS_Interval
  <2>2. QED
    BY <1>1, <2>1, FS_Subset
<1> DEFINE ids == SetToSeq(peers)
<1>3. /\ ids \in Seq(peers) /\ DOMAIN ids = 1..Len(ids)
      /\ \A s \in peers : \E i \in DOMAIN ids : ids[i] = s
  BY <1>2, Enumerated
<1>4. AllPeersClosed = [i \in DOMAIN ids |-> About("peerClose", ids[i])]
  BY DEF AllPeersClosed
<1> HIDE DEF ids
<1>5. /\ \A i \in DOMAIN ids : ids[i] \in peers
      /\ \A id \in peers : About("peerClose", id) \in IoEntries
  <2>1. \A i \in DOMAIN ids : ids[i] \in peers
    BY <1>3
  <2>2. \A id \in Peers : About("peerClose", id) \in IoEntries
    BY IoMade DEF About
  <2>3. QED
    BY <1>1, <2>1, <2>2
<1>6. AllPeersClosed \in Seq(IoEntries)
  BY <1>3, <1>4, <1>5
<1>7. ASSUME NEW A
      PROVE  Has(AllPeersClosed, A) <=> \E id \in peers : About("peerClose", id) \in A
  BY <1>3, <1>4, <1>5 DEF Has
<1>8. \A id \in peers : About("peerClose", id) \notin Beyond(generation, next)
  BY <1>1, Tokens
<1>9. QED
  BY <1>6, <1>7, <1>8

LEMMA ProbeToClose ==
    ASSUME Typed
    PROVE  /\ ProbeClosed \in Seq(IoEntries) /\ ~Has(ProbeClosed, Beyond(generation, next))
           /\ \A A : Has(ProbeClosed, A) <=> probePeer # None /\ About("probeClose", probePeer) \in A
<1>1. generation \in Nat /\ probePeer \in Probes \cup {None} /\ \A k \in Probes : k \in Known(next)
  BY Numbers DEF Typed, StateTyped, ProbesTyped
<1>2. CASE probePeer = None
  BY <1>2, Made DEF ProbeClosed
<1>3. CASE probePeer # None
  <2>1. About("probeClose", probePeer) \in IoEntries /\ About("probeClose", probePeer) \notin Beyond(generation, next)
    BY <1>1, <1>3, IoMade, Tokens
  <2>2. ProbeClosed = <<About("probeClose", probePeer)>>
    BY <1>3 DEF ProbeClosed
  <2>3. QED
    BY <1>3, <2>1, <2>2, Made, Literals
<1>4. QED
  BY <1>2, <1>3

\* close_acceptor and close_socket_path_health_check_peer.
LEMMA AcceptorClosed ==
    ASSUME Typed, UNCHANGED generation, CloseAcceptor
    PROVE  AcceptorTyped'
BY Made DEF Typed, StateTyped, AcceptorTyped, CloseAcceptor

ProbeTable == [Probes -> [state : ProbeStates, timer : BOOLEAN, token : 0..generation]]

LEMMA ProbeStopped ==
    ASSUME Typed, UNCHANGED generation, NEW f \in ProbeTable, CloseProbe(f)
    PROVE  ProbesTyped'
<1>1. TimerOff(f) \in ProbeTable
  <2>1. CASE probe = None
    BY <2>1 DEF TimerOff
  <2>2. CASE probe # None
    BY <2>2 DEF TimerOff, ProbeTable
  <2>3. QED
    BY <2>1, <2>2
<1>2. QED
  BY <1>1 DEF ProbesTyped, CloseProbe, ProbeTable

\* An entry that is enqueued, if the server is attached.
LEMMA DqEnqueued ==
    ASSUME Typed, UNCHANGED <<generation, next>>, NEW e \in DqEntries,
           e \notin Beyond(generation, next), Enqueue(<<e>>) \/ dq' = dq
    PROVE  DqTyped'
<1>1. CASE dq' = dq
  BY <1>1 DEF Typed, DqTyped
<1>2. CASE dq' = dq \o <<e>>
  <2>1. <<e>> \in Seq(DqEntries) /\ ~Has(<<e>>, Beyond(generation, next))
    BY Made
  <2>2. QED
    BY <1>2, <2>1, DqSent DEF Typed, DqTyped
<1>3. QED
  BY <1>1, <1>2 DEF Enqueue

LEMMA HandleFailedTyped ==
    ASSUME Typed, UNCHANGED <<generation, next>>, NEW k \in Probes, NEW f \in ProbeTable,
           ioq # <<>>, HandleFailed(k, f)
    PROVE  DqTyped' /\ IoTyped' /\ AcceptorTyped' /\ ProbesTyped'
<1>1. /\ generation \in Nat /\ probes[k].token \in 0..generation /\ probes[k].token \in Nat
      /\ None \in Known(next)
  BY Numbers
<1>2. CASE Current(k)
  <2>1. Note("closed", None, probes[k].token) \in DqEntries
    BY <1>1, DqMade
  <2>2. Note("closed", None, probes[k].token) \notin Beyond(generation, next)
    BY <1>1, Tokens
  <2>3. DqTyped'
    BY <1>2, <2>1, <2>2, DqEnqueued DEF HandleFailed
  <2>4. IoTyped'
    BY <1>2, ProbeToClose, IoSent DEF HandleFailed, Posting, Typed, IoTyped
  <2>5. QED
    BY <1>2, <2>3, <2>4, AcceptorClosed, ProbeStopped DEF HandleFailed
<1>3. CASE ~Current(k)
  <2>1. IoTyped'
    BY <1>3, Made, IoSent DEF HandleFailed, Posting, Typed, IoTyped
  <2>2. DqTyped' /\ AcceptorTyped'
    BY <1>3 DEF HandleFailed, Typed, StateTyped, DqTyped, AcceptorTyped, acceptorVars
  <2>3. ProbesTyped'
    BY <1>3 DEF HandleFailed, Typed, StateTyped, ProbesTyped, ProbeTable
  <2>4. QED
    BY <2>1, <2>2, <2>3
<1>4. QED
  BY <1>2, <1>3

LEMMA BindTyped ==
    ASSUME Typed, NEW outcome \in {"bound", "bind_failed", "ignored"}, Bind(outcome)
    PROVE  Typed'
<1>1. /\ generation \in Nat /\ ioq # <<>> /\ H \in IoEntries /\ H.token \in 0..generation
      /\ H.token \in Nat /\ None \in Known(next)
  BY Numbers, Heads DEF Bind, Running
<1>2. UNCHANGED <<generation, next>> /\ ioq' = Tail(ioq) \o <<>>
  BY DEF Bind, Posting, peerVars, DispatcherUnchanged, scopeVars
<1>3. DqTyped'
  <2>1. CASE outcome \in {"bound", "bind_failed"}
    <3>1. Note(outcome, None, H.token) \in DqEntries
      BY <1>1, <2>1, DqMade
    <3>2. Note(outcome, None, H.token) \notin Beyond(generation, next)
      BY <1>1, Tokens
    <3>3. QED
      BY <1>2, <2>1, <3>1, <3>2, DqEnqueued DEF Bind
  <2>2. CASE outcome = "ignored"
    BY <1>2, <2>2 DEF Bind, Typed, DqTyped
  <2>3. QED
    BY <2>1, <2>2
<1>4. IoTyped'
  BY <1>1, <1>2, IoSent, Made DEF Typed, IoTyped
<1>5. ScopeTyped' /\ PeersTyped' /\ ProbesTyped'
  BY DEF Typed, StateTyped, ScopeTyped, PeersTyped, ProbesTyped, Bind, DispatcherUnchanged,
     peerVars, probeVars, scopeVars, taskVars, appVars
<1>6. AcceptorTyped'
  <2>1. CASE outcome = "bound"
    <3>1. acceptor' = TRUE /\ accepting' = <<H.token>>
      BY <2>1 DEF Bind
    <3>2. H.token \notin Later(generation)
      BY <1>1 DEF Later
    <3>3. QED
      BY <1>1, <1>2, <3>1, <3>2, Made DEF AcceptorTyped
  <2>2. CASE outcome = "bind_failed"
    BY <1>2, <2>2, AcceptorClosed DEF Bind
  <2>3. CASE outcome = "ignored"
    BY <1>2, <2>3 DEF Bind, Typed, StateTyped, AcceptorTyped, acceptorVars
  <2>4. QED
    BY <2>1, <2>2, <2>3
<1>7. BudgetTyped'
  BY Spent DEF Typed, StateTyped, BudgetTyped, Bind
<1>8. QED
  BY <1>3, <1>4, <1>5, <1>6, <1>7 DEF Typed, StateTyped

LEMMA AcceptCompletesTyped ==
    ASSUME Typed, NEW outcome \in {"ok", "error"}, AcceptCompletes(outcome)
    PROVE  Typed'
<1> DEFINE n == Head(accepting)
           t == Tail(accepting)
<1>1. generation \in Nat /\ None \in Known(next) /\ UNCHANGED <<generation, next>>
  BY Numbers DEF AcceptCompletes, DispatcherUnchanged, scopeVars, peerVars
<1>2. /\ n \in 0..generation /\ n \in Nat
      /\ t \in Seq(Nat) /\ ~Has(t, Later(generation))
  <2> DEFINE L == Later(generation)
  <2>1. accepting \in Seq(Nat) /\ accepting # <<>> /\ ~Has(accepting, L)
    BY DEF Typed, StateTyped, AcceptorTyped, AcceptCompletes
  <2> HIDE DEF L
  <2>2. n \in Nat /\ t \in Seq(Nat) /\ n \notin L /\ ~Has(t, L)
    BY <2>1, TakenHas, Made
  <2>3. QED
    BY <1>1, <2>2 DEF L, Later
<1> HIDE DEF n, t
<1>3. AcceptorTyped'
  BY <1>1, <1>2 DEF Typed, StateTyped, AcceptorTyped, AcceptCompletes, t
<1>4. IoTyped'
  <2> DEFINE e == Entry("accepted", None, n, outcome)
  <2>1. e \in IoEntries /\ e \notin Beyond(generation, next)
    BY <1>1, <1>2, IoMade, Tokens
  <2>2. ioq' = ioq \o <<e>>
    BY DEF AcceptCompletes, Post, n
  <2> HIDE DEF e
  <2>3. QED
    BY <1>1, <2>1, <2>2, IoSent, Made DEF Typed, IoTyped
<1>5. DqTyped' /\ ScopeTyped' /\ PeersTyped' /\ ProbesTyped'
  BY DEF Typed, StateTyped, DqTyped, ScopeTyped, PeersTyped, ProbesTyped, AcceptCompletes,
     DispatcherUnchanged, peerVars, probeVars, scopeVars, taskVars, appVars
<1>6. BudgetTyped'
  BY Spent DEF Typed, StateTyped, BudgetTyped, Bounds, AcceptCompletes
<1>7. QED
  BY <1>3, <1>4, <1>5, <1>6 DEF Typed, StateTyped

LEMMA AcceptedTyped ==
    ASSUME Typed, Accepted
    PROVE  Typed'
<1>1. /\ generation \in Nat /\ ioq # <<>> /\ H \in IoEntries /\ H.token \in 0..generation
      /\ H.token \in Nat /\ None \in Known(next) /\ next \in Nat
      /\ 1..next \subseteq 1..(next + 1)
  BY Numbers, Heads DEF Accepted, Running
<1>2. UNCHANGED generation /\ ioq' = Tail(ioq) \o <<>>
  BY DEF Accepted, Posting, scopeVars
<1>3. ioq' \in Seq(IoEntries) /\ ~Has(ioq', Beyond(generation, next))
  BY <1>1, <1>2, IoSent, Made DEF Typed
<1>4. ScopeTyped' /\ ProbesTyped' /\ BudgetTyped'
  BY DEF Typed, StateTyped, ScopeTyped, ProbesTyped, BudgetTyped, Accepted, scopeVars, taskVars,
     probeVars, appVars
<1>5. CASE UNCHANGED <<dq, acceptorVars, peerVars, appVars>>
  BY <1>2, <1>3, <1>4, <1>5 DEF Typed, StateTyped, DqTyped, IoTyped, AcceptorTyped, PeersTyped,
     acceptorVars, peerVars, appVars
<1>6. CASE CloseAcceptor /\ Enqueue(<<Note("closed", None, H.token)>>) /\ UNCHANGED <<peerVars, appVars>>
  <2>1. Note("closed", None, H.token) \in DqEntries
    BY <1>1, DqMade
  <2>2. Note("closed", None, H.token) \notin Beyond(generation, next)
    BY <1>1, Tokens
  <2>3. DqTyped'
    BY <1>2, <1>6, <2>1, <2>2, DqEnqueued DEF peerVars
  <2>4. PeersTyped' /\ IoTyped'
    BY <1>2, <1>3, <1>6 DEF Typed, StateTyped, IoTyped, PeersTyped, peerVars, appVars
  <2>5. AcceptorTyped'
    BY <1>2, <1>6, AcceptorClosed
  <2>6. QED
    BY <1>4, <2>3, <2>4, <2>5 DEF Typed, StateTyped
<1>7. CASE IsCurrent(H.token) /\ H.what = "ok"
  <2>1. /\ next' = next + 1 /\ next + 1 \in Peers
        /\ peers' = peers \cup {next + 1}
        /\ sock' = [sock EXCEPT ![next + 1] = "open"]
        /\ session' = [session EXCEPT ![next + 1] = H.token]
        /\ told' = [told EXCEPT ![next + 1] = "accepted"]
        /\ accepting' = (IF acceptor THEN Append(accepting, H.token) ELSE <<>>)
        /\ UNCHANGED <<dq, acceptor, ready, exposed, app>>
    BY <1>7 DEF Accepted
  <2>2. DqTyped' /\ IoTyped'
    <3>1. ~Has(dq, Beyond(generation, next + 1)) /\ ~Has(ioq', Beyond(generation, next + 1))
      BY <1>1, <1>3, NextGeneration DEF Typed, DqTyped
    <3>2. QED
      BY <1>2, <1>3, <2>1, <3>1 DEF Typed, DqTyped, IoTyped
  <2>3. AcceptorTyped'
    <3> DEFINE L == Later(generation)
    <3>1. accepting \in Seq(Nat) /\ ~Has(accepting, L) /\ acceptor \in BOOLEAN
          /\ H.token \notin L
      BY <1>1 DEF Typed, StateTyped, AcceptorTyped, Later
    <3>2. accepting' \in Seq(Nat) /\ ~Has(accepting', L)
      <4> HIDE DEF L
      <4>1. accepting' = accepting \o <<H.token>> \/ accepting' = <<>>
        BY <1>1, <2>1, <3>1, Plain
      <4>2. <<H.token>> \in Seq(Nat) /\ ~Has(<<H.token>>, L)
        BY <1>1, <3>1, Made
      <4>3. CASE accepting' = accepting \o <<H.token>>
        BY <3>1, <4>2, <4>3, SentHas
      <4>4. CASE accepting' = <<>>
        BY <4>4, Made
      <4>5. QED
        BY <4>1, <4>3, <4>4
    <3>3. accepting' # <<>> => acceptor
      BY <2>1
    <3>4. QED
      BY <1>2, <2>1, <3>1, <3>2, <3>3 DEF AcceptorTyped
  <2>4. PeersTyped'
    <3> DEFINE id == next + 1
    <3>1. /\ id \in Peers /\ id \in 1..next' /\ next' \in {0} \cup Peers
          /\ 1..next \subseteq 1..next' /\ \A j \in Peers : j > next' => j > next /\ j # id
      BY <1>1, <2>1, Names
    <3>2. /\ peers \subseteq 1..next /\ exposed \subseteq 1..next /\ ready \subseteq 1..next
          /\ sock \in [Peers -> SockStates] /\ session \in [Peers -> 0..generation]
          /\ told \in [Peers -> {"unknown", "accepted", "connected", "closed", "over"}]
          /\ \A j \in Peers : j > next => sock[j] = "none" /\ told[j] = "unknown"
      BY DEF Typed, StateTyped, PeersTyped
    <3>3. /\ peers' = peers \cup {id} /\ exposed' = exposed /\ ready' = ready
          /\ sock' = [sock EXCEPT ![id] = "open"]
          /\ session' = [session EXCEPT ![id] = H.token]
          /\ told' = [told EXCEPT ![id] = "accepted"] /\ generation' = generation
      BY <1>2, <2>1
    <3> HIDE DEF id
    <3>4. peers' \subseteq 1..next' /\ exposed' \subseteq 1..next' /\ ready' \subseteq 1..next'
      BY <3>1, <3>2, <3>3
    <3>5. /\ sock' \in [Peers -> SockStates] /\ session' \in [Peers -> 0..generation']
          /\ told' \in [Peers -> {"unknown", "accepted", "connected", "closed", "over"}]
      BY <1>1, <3>1, <3>2, <3>3 DEF SockStates
    <3>6. \A j \in Peers : j > next' => sock'[j] = "none" /\ told'[j] = "unknown"
      BY <3>1, <3>2, <3>3
    <3>7. QED
      BY <3>1, <3>4, <3>5, <3>6 DEF PeersTyped
  <2>5. QED
    BY <1>4, <2>2, <2>3, <2>4 DEF Typed, StateTyped
<1>8. QED
  BY <1>5, <1>6, <1>7 DEF Accepted

LEMMA PeerEndsTyped ==
    ASSUME Typed, NEW id \in Peers, NEW failed \in BOOLEAN, PeerEnds(id, failed)
    PROVE  Typed'
<1>1. generation \in Nat /\ id \in 1..next /\ id \in Known(next)
  BY Numbers DEF PeerEnds
<1>2. DqTyped'
  <2>1. /\ Signal("report", id) \in DqEntries /\ Signal("report", id) \notin Beyond(generation, next)
        /\ Signal("closed", id) \in DqEntries /\ Signal("closed", id) \notin Beyond(generation, next)
    BY <1>1, DqMade, Tokens
  <2>2. UNCHANGED <<generation, next>>
    BY DEF PeerEnds, DispatcherUnchanged, scopeVars
  <2>3. \/ dq' = dq \o <<Signal("report", id), Signal("closed", id)>>
        \/ dq' = Append(dq, Signal("closed", id))
    BY DEF PeerEnds, LastWords
  <2>4. CASE dq' = dq \o <<Signal("report", id), Signal("closed", id)>>
    BY <2>1, <2>2, <2>4, Made, DqSent DEF Typed, DqTyped
  <2>5. CASE dq' = Append(dq, Signal("closed", id))
    <3>1. dq' = dq \o <<Signal("closed", id)>>
      BY <2>1, <2>5, Plain DEF Typed, DqTyped
    <3>2. QED
      BY <2>1, <2>2, <3>1, Made, DqSent DEF Typed, DqTyped
  <2>6. QED
    BY <2>3, <2>4, <2>5
<1>3. IoTyped' /\ ScopeTyped' /\ AcceptorTyped' /\ ProbesTyped'
  BY DEF Typed, StateTyped, IoTyped, ScopeTyped, AcceptorTyped, ProbesTyped, PeerEnds,
     DispatcherUnchanged, acceptorVars, probeVars, scopeVars, taskVars, appVars
<1>4. PeersTyped'
  BY <1>1 DEF Typed, StateTyped, PeersTyped, SockStates, PeerEnds, DispatcherUnchanged, scopeVars,
     appVars
<1>5. BudgetTyped'
  BY Spent DEF Typed, StateTyped, BudgetTyped, Bounds, PeerEnds
<1>6. QED
  BY <1>2, <1>3, <1>4, <1>5 DEF Typed, StateTyped

LEMMA ProbeConnectsTyped ==
    ASSUME Typed, NEW k \in Probes, NEW outcome \in {"ok", "failed"}, ProbeConnects(k, outcome)
    PROVE  Typed'
<1>1. /\ generation \in Nat /\ k \in Known(next) /\ probes[k].token \in 0..generation
      /\ probes[k].token \in Nat /\ UNCHANGED <<generation, next>>
  BY Numbers DEF ProbeConnects, DispatcherUnchanged, scopeVars, peerVars
<1>2. IoTyped'
  <2> DEFINE e == Entry("probeConnected", k, probes[k].token, outcome)
  <2>1. e \in IoEntries /\ e \notin Beyond(generation, next)
    BY <1>1, IoMade, Tokens
  <2>2. ioq' = ioq \o <<e>>
    BY DEF ProbeConnects, Post
  <2> HIDE DEF e
  <2>3. QED
    BY <1>1, <2>1, <2>2, IoSent, Made DEF Typed, IoTyped
<1>3. DqTyped' /\ ScopeTyped' /\ AcceptorTyped' /\ PeersTyped'
  BY DEF Typed, StateTyped, DqTyped, ScopeTyped, AcceptorTyped, PeersTyped, ProbeConnects,
     DispatcherUnchanged, acceptorVars, peerVars, scopeVars, taskVars, appVars
<1>4. ProbesTyped'
  BY <1>1 DEF Typed, StateTyped, ProbesTyped, ProbeStates, ProbeConnects
<1>5. BudgetTyped'
  BY Spent DEF Typed, StateTyped, BudgetTyped, ProbeConnects
<1>6. QED
  BY <1>2, <1>3, <1>4, <1>5 DEF Typed, StateTyped

LEMMA ProbeAnsweredTyped ==
    ASSUME Typed, ProbeAnswered
    PROVE  Typed'
<1>1. UNCHANGED <<generation, next>> /\ ioq # <<>>
  BY DEF ProbeAnswered, Running, IoUnchanged, DispatcherUnchanged, scopeVars, peerVars
<1>2. DqTyped' /\ ScopeTyped' /\ AcceptorTyped' /\ PeersTyped' /\ BudgetTyped'
  BY DEF Typed, StateTyped, DqTyped, ScopeTyped, AcceptorTyped, PeersTyped, BudgetTyped,
     ProbeAnswered, IoUnchanged, DispatcherUnchanged, acceptorVars, peerVars, scopeVars, taskVars,
     appVars
<1>3. CASE CloseProbe(probes) /\ Posting(ProbeClosed)
  <2>1. probes \in ProbeTable
    BY DEF Typed, StateTyped, ProbesTyped, ProbeTable
  <2>2. ProbesTyped'
    BY <1>1, <1>3, <2>1, ProbeStopped
  <2>3. IoTyped'
    BY <1>1, <1>3, ProbeToClose, IoSent DEF Posting, Typed, IoTyped
  <2>4. QED
    BY <1>2, <2>2, <2>3 DEF Typed, StateTyped
<1>4. CASE Posting(<<>>) /\ UNCHANGED probeVars
  <2>1. IoTyped'
    BY <1>1, <1>4, Made, IoSent DEF Posting, Typed, IoTyped
  <2>2. ProbesTyped'
    BY <1>1, <1>4 DEF Typed, StateTyped, ProbesTyped, probeVars
  <2>3. QED
    BY <1>2, <2>1, <2>2 DEF Typed, StateTyped
<1>5. QED
  BY <1>3, <1>4 DEF ProbeAnswered

LEMMA ProbeConnectedTyped ==
    ASSUME Typed, ProbeConnected
    PROVE  Typed'
<1> DEFINE k == H.who
           closed == [probes EXCEPT ![k].state = "closed", ![k].timer = FALSE]
<1>1. UNCHANGED <<generation, next>> /\ ioq # <<>> /\ k \in Probes
  <2>1. ioq # <<>> /\ H \in IoEntries /\ H.op = "probeConnected"
    BY Heads DEF ProbeConnected, Running, H
  <2>2. QED
    BY <2>1, IoRead DEF ProbeConnected, IoUnchanged, DispatcherUnchanged, scopeVars, peerVars
<1>2. ScopeTyped' /\ PeersTyped' /\ BudgetTyped'
  BY DEF Typed, StateTyped, ScopeTyped, PeersTyped, BudgetTyped, ProbeConnected, IoUnchanged,
     DispatcherUnchanged, peerVars, scopeVars, taskVars, appVars
<1>3. CASE Current(k) /\ H.what = "ok"
  <2>1. /\ probePeer' = k /\ probes' = [probes EXCEPT ![k].state = "open"] /\ probe = k
        /\ ioq' = Tail(ioq) \o <<>> /\ UNCHANGED <<dq, acceptorVars, probe>>
    BY <1>3 DEF ProbeConnected, Posting, Current
  <2> HIDE DEF k
  <2>2. IoTyped'
    BY <1>1, <2>1, Made, IoSent DEF Typed, IoTyped
  <2>3. DqTyped' /\ AcceptorTyped'
    BY <1>1, <2>1 DEF Typed, StateTyped, DqTyped, AcceptorTyped, acceptorVars
  <2>4. ProbesTyped'
    BY <1>1, <2>1 DEF Typed, StateTyped, ProbesTyped, ProbeStates
  <2>5. QED
    BY <1>2, <2>2, <2>3, <2>4 DEF Typed, StateTyped
<1>4. CASE HandleFailed(k, closed)
  <2>1. closed \in ProbeTable
    BY <1>1 DEF Typed, StateTyped, ProbesTyped, ProbeTable, ProbeStates
  <2> HIDE DEF closed, k
  <2>2. DqTyped' /\ IoTyped' /\ AcceptorTyped' /\ ProbesTyped'
    BY <1>1, <1>4, <2>1, HandleFailedTyped
  <2>3. QED
    BY <1>2, <2>2 DEF Typed, StateTyped
<1>5. QED
  BY <1>3, <1>4 DEF ProbeConnected

LEMMA ProbeFailedTyped ==
    ASSUME Typed, ProbeFailed
    PROVE  Typed'
<1>1. UNCHANGED <<generation, next>> /\ ioq # <<>> /\ H.who \in Probes
  <2>1. ioq # <<>> /\ H \in IoEntries /\ H.op \in {"probeTimeout", "probeFailed"}
    BY Heads DEF ProbeFailed
  <2>2. QED
    BY <2>1, IoRead DEF ProbeFailed, IoUnchanged, DispatcherUnchanged, scopeVars, peerVars
<1>2. ScopeTyped' /\ PeersTyped' /\ BudgetTyped'
  BY DEF Typed, StateTyped, ScopeTyped, PeersTyped, BudgetTyped, ProbeFailed, IoUnchanged,
     DispatcherUnchanged, peerVars, scopeVars, taskVars, appVars
<1>3. CASE HandleFailed(H.who, probes)
  <2>1. probes \in ProbeTable
    BY DEF Typed, StateTyped, ProbesTyped, ProbeTable
  <2>2. DqTyped' /\ IoTyped' /\ AcceptorTyped' /\ ProbesTyped'
    BY <1>1, <1>3, <2>1, HandleFailedTyped
  <2>3. QED
    BY <1>2, <2>2 DEF Typed, StateTyped
<1>4. CASE Posting(<<>>) /\ UNCHANGED <<dq, acceptorVars, probeVars>>
  <2>1. IoTyped'
    BY <1>1, <1>4, Made, IoSent DEF Posting, Typed, IoTyped
  <2>2. DqTyped' /\ AcceptorTyped' /\ ProbesTyped'
    BY <1>1, <1>4 DEF Typed, StateTyped, DqTyped, AcceptorTyped, ProbesTyped, acceptorVars,
       probeVars
  <2>3. QED
    BY <1>2, <2>1, <2>2 DEF Typed, StateTyped
<1>5. QED
  BY <1>3, <1>4 DEF ProbeFailed

\* stop and shutdown.
LEMMA EverythingClosed ==
    ASSUME Typed, CloseEverything, UNCHANGED <<generation, appVars>>
    PROVE  DqTyped' /\ AcceptorTyped' /\ PeersTyped' /\ ProbesTyped'
<1>1. probes \in ProbeTable
  BY DEF Typed, StateTyped, ProbesTyped, ProbeTable
<1>2. AcceptorTyped' /\ ProbesTyped'
  BY <1>1, AcceptorClosed, ProbeStopped DEF CloseEverything
<1>3. DqTyped' /\ PeersTyped'
  BY DEF Typed, StateTyped, DqTyped, PeersTyped, CloseEverything, appVars
<1>4. QED
  BY <1>2, <1>3

LEMMA EverythingPosted ==
    ASSUME Typed, NEW t \in IoEntries, t \notin Beyond(generation, next)
    PROVE  LET x == AllPeersClosed \o ProbeClosed
               y == AllPeersClosed \o ProbeClosed \o <<t>>
           IN /\ x \in Seq(IoEntries) /\ ~Has(x, Beyond(generation, next))
              /\ \A A : Has(x, A) <=> Has(AllPeersClosed, A) \/ Has(ProbeClosed, A)
              /\ y \in Seq(IoEntries) /\ ~Has(y, Beyond(generation, next))
              /\ \A A : Has(y, A) <=> Has(AllPeersClosed, A) \/ Has(ProbeClosed, A) \/ t \in A
<1> DEFINE x == AllPeersClosed \o ProbeClosed
<1>1. x \in Seq(IoEntries) /\ \A A : Has(x, A) <=> Has(AllPeersClosed, A) \/ Has(ProbeClosed, A)
  BY PeersToClose, ProbeToClose, SentHas
<1>2. ~Has(x, Beyond(generation, next))
  BY <1>1, PeersToClose, ProbeToClose
<1> HIDE DEF x
<1>3. <<t>> \in Seq(IoEntries) /\ \A A : Has(<<t>>, A) <=> t \in A
  BY DEF Has
<1>4. /\ x \o <<t>> \in Seq(IoEntries)
      /\ \A A : Has(x \o <<t>>, A) <=> Has(x, A) \/ Has(<<t>>, A)
  BY <1>1, <1>3, SentHas
<1>5. \A A : Has(x \o <<t>>, A) <=> Has(AllPeersClosed, A) \/ Has(ProbeClosed, A) \/ t \in A
  BY <1>1, <1>3, <1>4
<1>6. ~Has(x \o <<t>>, Beyond(generation, next))
  BY <1>2, <1>3, <1>4
<1>7. QED
  BY <1>1, <1>2, <1>4, <1>5, <1>6 DEF x

LEMMA StopTyped ==
    ASSUME Typed, Stop
    PROVE  Typed'
<1>1. UNCHANGED <<generation, next, appVars>> /\ ioq # <<>>
  BY DEF Stop, Running, IoUnchanged, DispatcherUnchanged, CloseEverything, scopeVars, peerVars
<1>2. ScopeTyped' /\ BudgetTyped'
  BY DEF Typed, StateTyped, ScopeTyped, BudgetTyped, Stop, IoUnchanged, DispatcherUnchanged,
     scopeVars, taskVars, appVars
<1>3. CASE CloseEverything /\ Posting(AllPeersClosed \o ProbeClosed)
  <2> DEFINE x == AllPeersClosed \o ProbeClosed
  <2>1. x \in Seq(IoEntries) /\ ~Has(x, Beyond(generation, next))
    BY EverythingPosted, IoMade, Tokens, Numbers
  <2>2. ioq' = Tail(ioq) \o x
    BY <1>3 DEF Posting
  <2> HIDE DEF x
  <2>3. IoTyped'
    BY <1>1, <2>1, <2>2, IoSent DEF Typed, IoTyped
  <2>4. QED
    BY <1>1, <1>2, <1>3, <2>3, EverythingClosed DEF Typed, StateTyped
<1>4. CASE Posting(<<>>) /\ UNCHANGED <<dq, acceptorVars, peerVars, probeVars>>
  <2>1. IoTyped'
    BY <1>1, <1>4, Made, IoSent DEF Posting, Typed, IoTyped
  <2>2. DqTyped' /\ AcceptorTyped' /\ PeersTyped' /\ ProbesTyped'
    BY <1>1, <1>4 DEF Typed, StateTyped, DqTyped, AcceptorTyped, PeersTyped, ProbesTyped,
       acceptorVars, peerVars, probeVars, appVars
  <2>3. QED
    BY <1>2, <2>1, <2>2 DEF Typed, StateTyped
<1>5. QED
  BY <1>3, <1>4 DEF Stop

LEMMA ShutdownTyped ==
    ASSUME Typed, Shutdown
    PROVE  Typed'
<1>1. UNCHANGED <<generation, next, appVars>> /\ ioq # <<>>
  BY DEF Shutdown, Running, IoUnchanged, DispatcherUnchanged, CloseEverything, scopeVars
<1>2. ScopeTyped' /\ BudgetTyped'
  BY DEF Typed, StateTyped, ScopeTyped, BudgetTyped, Shutdown, IoUnchanged, DispatcherUnchanged,
     scopeVars, taskVars, appVars
<1> DEFINE x == AllPeersClosed \o ProbeClosed \o <<Do("keepAlive")>>
<1>3. Do("keepAlive") \in IoEntries /\ Do("keepAlive") \notin Beyond(generation, next)
  BY IoMade, Tokens, Numbers
<1>4. x \in Seq(IoEntries) /\ ~Has(x, Beyond(generation, next))
  BY <1>3, EverythingPosted
<1>5. ioq' = Tail(ioq) \o x
  BY DEF Shutdown, Posting
<1> HIDE DEF x
<1>6. IoTyped'
  BY <1>1, <1>4, <1>5, IoSent DEF Typed, IoTyped
<1>7. QED
  BY <1>1, <1>2, <1>6, EverythingClosed DEF Shutdown, Typed, StateTyped

LEMMA RunPeerCloseTyped ==
    ASSUME Typed, RunPeerClose
    PROVE  Typed'
<1> DEFINE id == H.who
           a == IF sock[id] = "open" THEN <<Signal("closed", id)>> ELSE <<>>
           b == IF H.what = "notify" /\ Locked /\ attached THEN <<About("peerClosed", id)>> ELSE <<>>
<1>1. /\ UNCHANGED <<generation, next>> /\ ioq # <<>> /\ id \in Peers /\ id \in Known(next)
      /\ id \in 1..next /\ generation \in Nat
  <2>1. ioq # <<>> /\ H \in IoEntries /\ H.op = "peerClose" /\ id \in Known(next)
    BY Heads DEF RunPeerClose, Running, H
  <2>2. id \in Peers
    BY <2>1, IoRead
  <2>3. QED
    BY <2>1, <2>2, Numbers DEF RunPeerClose, IoUnchanged, DispatcherUnchanged, scopeVars
<1>2. /\ ioq' = Tail(ioq) \o <<>> /\ sock' = [sock EXCEPT ![id] = "closed"]
      /\ dq' = dq \o a \o b
      /\ UNCHANGED <<acceptorVars, next, peers, ready, session, probeVars, life>> /\ IoUnchanged
  BY DEF RunPeerClose, Posting
<1>3. /\ a \in Seq(DqEntries) /\ ~Has(a, Beyond(generation, next))
      /\ b \in Seq(DqEntries) /\ ~Has(b, Beyond(generation, next))
  <2>1. /\ Signal("closed", id) \in DqEntries /\ Signal("closed", id) \notin Beyond(generation, next)
        /\ About("peerClosed", id) \in DqEntries /\ About("peerClosed", id) \notin Beyond(generation, next)
    BY <1>1, DqMade, Tokens DEF About
  <2>2. QED
    BY <2>1, Made
<1> HIDE DEF id, a, b
<1>4. DqTyped'
  <2> DEFINE B == Beyond(generation, next)
  <2> HIDE DEF B
  <2>1. dq \in Seq(DqEntries) /\ ~Has(dq, B) /\ ~Has(a, B) /\ ~Has(b, B)
    BY <1>3 DEF Typed, DqTyped, B
  <2> DEFINE q == dq \o a
  <2>2. q \in Seq(DqEntries) /\ ~Has(q, B)
    BY <1>3, <2>1, SentHas
  <2> HIDE DEF q
  <2>3. q \o b \in Seq(DqEntries) /\ ~Has(q \o b, B)
    BY <1>3, <2>1, <2>2, SentHas
  <2>4. dq' \in Seq(DqEntries) /\ ~Has(dq', B)
    BY <1>2, <2>3 DEF q
  <2>5. QED
    BY <1>1, <2>4 DEF DqTyped, B
<1>5. IoTyped'
  BY <1>1, <1>2, Made, IoSent DEF Typed, IoTyped
<1>6. ScopeTyped' /\ AcceptorTyped' /\ ProbesTyped' /\ BudgetTyped'
  BY <1>1, <1>2 DEF Typed, StateTyped, ScopeTyped, AcceptorTyped, ProbesTyped, BudgetTyped,
     IoUnchanged, DispatcherUnchanged, acceptorVars, probeVars, scopeVars, taskVars, appVars
<1>7. PeersTyped'
  BY <1>1, <1>2 DEF Typed, StateTyped, PeersTyped, SockStates, IoUnchanged, DispatcherUnchanged,
     appVars
<1>8. QED
  BY <1>4, <1>5, <1>6, <1>7 DEF Typed, StateTyped

\* What is erased from the dispatcher's queue.
LEMMA DqErased ==
    ASSUME Typed, UNCHANGED <<generation, next>>, NEW I \in SUBSET DOMAIN dq, dq' = Selected(dq, I)
    PROVE  DqTyped'
<1> DEFINE r == Selected(dq, I)
           B == Beyond(generation, next)
<1>1. dq \in Seq(DqEntries) /\ ~Has(dq, B)
  BY DEF Typed, DqTyped
<1> HIDE DEF r, B
<1>2. r \in Seq(DqEntries) /\ ~Has(r, B)
  BY <1>1, ErasedHas DEF r
<1>3. QED
  BY <1>2 DEF DqTyped, r, B

LEMMA DetachTyped ==
    ASSUME Typed, Detach
    PROVE  Typed'
<1>1. DqTyped'
  <2> DEFINE I == {i \in DOMAIN dq : dq[i].op = "signal"}
  <2>1. I \in SUBSET DOMAIN dq /\ dq' = Selected(dq, I) /\ UNCHANGED <<generation, next>>
    BY DEF Detach, peerVars
  <2> HIDE DEF I
  <2>2. QED
    BY <2>1, DqErased
<1>2. IoTyped' /\ ScopeTyped' /\ AcceptorTyped' /\ PeersTyped' /\ ProbesTyped'
  BY DEF Typed, StateTyped, IoTyped, ScopeTyped, AcceptorTyped, PeersTyped, ProbesTyped, Detach,
     acceptorVars, peerVars, probeVars, appVars
<1>3. BudgetTyped'
  BY Spent DEF Typed, StateTyped, BudgetTyped, Bounds, Detach
<1>4. QED
  BY <1>1, <1>2, <1>3 DEF Typed, StateTyped

LEMMA ReleaseTyped ==
    ASSUME Typed, NEW id \in Peers, Release(id)
    PROVE  Typed'
<1>1. DqTyped'
  <2> DEFINE I == {i \in DOMAIN dq : ~(dq[i].op = "signal" /\ dq[i].who = id)}
  <2>1. I \in SUBSET DOMAIN dq /\ dq' = Selected(dq, I) /\ UNCHANGED <<generation, next>>
    BY DEF Release, IoUnchanged, DispatcherUnchanged, scopeVars
  <2> HIDE DEF I
  <2>2. QED
    BY <2>1, DqErased
<1>2. IoTyped' /\ ScopeTyped' /\ AcceptorTyped' /\ ProbesTyped' /\ BudgetTyped'
  BY DEF Typed, StateTyped, IoTyped, ScopeTyped, AcceptorTyped, ProbesTyped, BudgetTyped, Release,
     IoUnchanged, DispatcherUnchanged, acceptorVars, probeVars, scopeVars, taskVars, appVars
<1>3. PeersTyped'
  <2>1. id \in 1..next
    BY Numbers DEF Release
  <2>2. QED
    BY <2>1 DEF Typed, StateTyped, PeersTyped, SockStates, Release, IoUnchanged,
       DispatcherUnchanged, scopeVars, appVars
<1>4. QED
  BY <1>1, <1>2, <1>3 DEF Typed, StateTyped

LEMMA ReleaseProbeTyped ==
    ASSUME Typed, NEW k \in Probes, ReleaseProbe(k)
    PROVE  Typed'
<1>1. DqTyped'
  <2> DEFINE I == {i \in DOMAIN dq : dq[i].who # k}
  <2>1. I \in SUBSET DOMAIN dq /\ dq' = Selected(dq, I) /\ UNCHANGED <<generation, next>>
    BY DEF ReleaseProbe, IoUnchanged, DispatcherUnchanged, scopeVars, peerVars
  <2> HIDE DEF I
  <2>2. QED
    BY <2>1, DqErased
<1>2. IoTyped' /\ ScopeTyped' /\ AcceptorTyped' /\ PeersTyped' /\ BudgetTyped'
  BY DEF Typed, StateTyped, IoTyped, ScopeTyped, AcceptorTyped, PeersTyped, BudgetTyped,
     ReleaseProbe, IoUnchanged, DispatcherUnchanged, acceptorVars, peerVars, scopeVars, taskVars,
     appVars
<1>3. ProbesTyped'
  <2>1. /\ probes \in [Probes -> [state : ProbeStates, timer : BOOLEAN, token : 0..generation]]
        /\ 0 \in 0..generation /\ "free" \in ProbeStates
        /\ UNCHANGED <<generation, probe, probePeer>>
        /\ probes' = [probes EXCEPT ![k].state = "free", ![k].token = 0]
    BY Numbers DEF Typed, StateTyped, ProbesTyped, ProbeStates, ReleaseProbe, IoUnchanged,
       DispatcherUnchanged, scopeVars
  <2>2. [probes EXCEPT ![k].state = "free"] \in ProbeTable
    BY <2>1 DEF ProbeTable
  <2>3. \A f \in ProbeTable : [f EXCEPT ![k].token = 0] \in ProbeTable
    BY <2>1 DEF ProbeTable
  <2>4. probes' = [[probes EXCEPT ![k].state = "free"] EXCEPT ![k].token = 0]
    BY <2>1
  <2>5. probes' \in ProbeTable
    BY <2>2, <2>3, <2>4
  <2>6. QED
    BY <2>1, <2>5 DEF Typed, StateTyped, ProbesTyped, ProbeTable
<1>4. QED
  BY <1>1, <1>2, <1>3 DEF Typed, StateTyped

\* Of what SessionEnded changes.
LEMMA SessionTyped ==
    ASSUME Typed, SessionEnded, UNCHANGED <<next, peers, sock, ready, session, acceptorVars, probeVars>>
    PROVE  AcceptorTyped' /\ PeersTyped' /\ ProbesTyped'
<1>1. generation \in Nat /\ next \in Nat /\ 0..generation \subseteq 0..(generation + 1)
  BY Numbers
<1>2. AcceptorTyped'
  BY <1>1, NextGeneration DEF Typed, StateTyped, AcceptorTyped, SessionEnded, acceptorVars
<1>3. PeersTyped'
  BY <1>1 DEF Typed, StateTyped, PeersTyped, SessionEnded
<1>4. ProbesTyped'
  BY <1>1 DEF Typed, StateTyped, ProbesTyped, SessionEnded, probeVars
<1>5. QED
  BY <1>2, <1>3, <1>4

LEMMA EndSessionTyped ==
    ASSUME Typed, EndSession
    PROVE  Typed'
<1>1. generation \in Nat /\ next \in Nat
  BY Numbers
<1>2. DqTyped' /\ IoTyped'
  <2>1. dq # <<>> /\ dq' = Tail(dq) \o <<>> /\ UNCHANGED <<next, ioq>> /\ generation' = generation + 1
    BY DEF EndSession, Dispatching, Dispatched, SessionEnded, peerVars
  <2>2. dq' \in Seq(DqEntries) /\ ~Has(dq', Beyond(generation, next))
    BY <2>1, DqSent, Made DEF Typed
  <2>3. ~Has(dq', Beyond(generation + 1, next)) /\ ~Has(ioq, Beyond(generation + 1, next))
    BY <1>1, <2>2, NextGeneration DEF Typed, IoTyped
  <2>4. QED
    BY <2>1, <2>2, <2>3 DEF Typed, DqTyped, IoTyped
<1>3. AcceptorTyped' /\ PeersTyped' /\ ProbesTyped'
  BY SessionTyped DEF EndSession, peerVars
<1>4. ScopeTyped' /\ BudgetTyped'
  <2>1. /\ UNCHANGED <<attached, retry, watch, life, left>> /\ dpc' \in {"stop", "idle"}
        /\ running' \in BOOLEAN /\ app' \in BOOLEAN
    BY DEF EndSession, SessionEnded, taskVars
  <2>2. generation' \in Nat
    BY <1>1 DEF EndSession, SessionEnded
  <2>3. QED
    BY <2>1, <2>2 DEF Typed, StateTyped, ScopeTyped, BudgetTyped
<1>5. QED
  BY <1>2, <1>3, <1>4 DEF Typed, StateTyped

LEMMA PostShutdownTyped ==
    ASSUME Typed, PostShutdown
    PROVE  Typed'
<1>1. generation \in Nat /\ next \in Nat
  BY Numbers
<1>2. DqTyped' /\ IoTyped'
  <2>1. /\ ioq' = ioq \o <<Do("shutdown")>> /\ generation' = generation + 1
        /\ UNCHANGED <<dq, next>>
    BY DEF PostShutdown, Post, SessionEnded, peerVars
  <2>2. Do("shutdown") \in IoEntries /\ Do("shutdown") \notin Beyond(generation, next)
    BY <1>1, IoMade, Tokens
  <2>3. ioq' \in Seq(IoEntries) /\ ~Has(ioq', Beyond(generation, next))
    BY <2>1, <2>2, IoSent, Made DEF Typed
  <2>4. ~Has(ioq', Beyond(generation + 1, next)) /\ ~Has(dq, Beyond(generation + 1, next))
    BY <1>1, <2>3, NextGeneration DEF Typed, DqTyped
  <2>5. QED
    BY <2>1, <2>3, <2>4 DEF Typed, DqTyped, IoTyped
<1>3. AcceptorTyped' /\ PeersTyped' /\ ProbesTyped'
  BY SessionTyped DEF PostShutdown, peerVars
<1>4. ScopeTyped' /\ BudgetTyped'
  <2>1. /\ UNCHANGED <<attached, retry, watch, life, left>> /\ dpc' \in {"stop", "idle"}
        /\ running' \in BOOLEAN /\ app' \in BOOLEAN
    BY DEF PostShutdown, SessionEnded, taskVars
  <2>2. generation' \in Nat
    BY <1>1 DEF PostShutdown, SessionEnded
  <2>3. QED
    BY <2>1, <2>2 DEF Typed, StateTyped, ScopeTyped, BudgetTyped
<1>5. QED
  BY <1>2, <1>3, <1>4 DEF Typed, StateTyped

\* The entries of the slots.
LEMMA DispatchSignalTyped ==
    ASSUME Typed, DispatchSignal
    PROVE  Typed'
<1>1. /\ generation \in Nat /\ dq # <<>> /\ E \in DqEntries /\ E.who \in Known(next) /\ E.op = "signal"
      /\ \/ E.who \in Peers /\ E.what \in {"ready", "closed", "report", "late"}
            /\ session[E.who] \in 0..generation
         \/ E.who \in Probes /\ E.what \in {"answer", "failed"}
  BY Numbers, Heads, DqRead DEF DispatchSignal, Dispatching, E
<1>2. UNCHANGED <<generation, next>>
  BY DEF DispatchSignal, scopeVars, peerVars
<1>3. DqTyped'
  <2>1. \/ dq' = Tail(dq) \o <<>>
        \/ E.what = "ready" /\ dq' = Tail(dq) \o <<Note("ready", E.who, session[E.who])>>
        \/ E.what = "closed" /\ dq' = Tail(dq) \o <<Entry("peerClosed", E.who, 0, "slot")>>
        \/ E.what \in {"report", "late"} /\ dq' = Tail(dq) \o <<Entry("report", E.who, 0, E.what)>>
    BY <1>1 DEF DispatchSignal, Dispatched, ReportOfClosed
  <2>2. CASE dq' = Tail(dq) \o <<>>
    BY <1>1, <1>2, <2>2, DqSent, Made DEF Typed, DqTyped
  <2>3. ASSUME NEW e \in DqEntries, e \notin Beyond(generation, next), dq' = Tail(dq) \o <<e>>
        PROVE  DqTyped'
    BY <1>1, <1>2, <2>3, DqSent, Made DEF Typed, DqTyped
  <2>4. CASE E.what = "ready" /\ dq' = Tail(dq) \o <<Note("ready", E.who, session[E.who])>>
    <3>1. E.who \in Peers /\ session[E.who] \in Nat /\ session[E.who] \in 0..generation
      BY <1>1, <2>4
    <3>2. Note("ready", E.who, session[E.who]) \in DqEntries
      BY <3>1, DqMade
    <3>3. Note("ready", E.who, session[E.who]) \notin Beyond(generation, next)
      BY <1>1, <3>1, Tokens
    <3>4. QED
      BY <2>3, <2>4, <3>2, <3>3
  <2>5. CASE E.what = "closed" /\ dq' = Tail(dq) \o <<Entry("peerClosed", E.who, 0, "slot")>>
    <3>1. E.who \in Peers /\ 0 \in 0..generation
      BY <1>1, <2>5
    <3>2. Entry("peerClosed", E.who, 0, "slot") \in DqEntries
      BY <3>1, DqMade
    <3>3. Entry("peerClosed", E.who, 0, "slot") \notin Beyond(generation, next)
      BY <1>1, <3>1, Tokens
    <3>4. QED
      BY <2>3, <2>5, <3>2, <3>3
  <2>6. CASE E.what \in {"report", "late"} /\ dq' = Tail(dq) \o <<Entry("report", E.who, 0, E.what)>>
    <3>1. E.who \in Peers /\ 0 \in 0..generation
      BY <1>1, <2>6
    <3>2. Entry("report", E.who, 0, E.what) \in DqEntries
      BY <2>6, <3>1, DqMade
    <3>3. Entry("report", E.who, 0, E.what) \notin Beyond(generation, next)
      BY <1>1, <3>1, Tokens
    <3>4. QED
      BY <2>3, <2>6, <3>2, <3>3
  <2>7. QED
    BY <2>1, <2>2, <2>4, <2>5, <2>6
<1>4. IoTyped'
  <2>1. \/ ioq' = ioq \o <<>>
        \/ E.what = "closed" /\ ioq' = ioq \o <<About("erase", E.who)>>
        \/ E.what = "answer" /\ ioq' = ioq \o <<About("probeAnswer", E.who)>>
        \/ E.what = "failed" /\ ioq' = ioq \o <<About("probeFailed", E.who)>>
    BY <1>1 DEF DispatchSignal, Post
  <2>2. CASE ioq' = ioq \o <<>>
    BY <1>2, <2>2, IoSent, Made DEF Typed, IoTyped
  <2>3. ASSUME NEW t \in IoEntries, t \notin Beyond(generation, next), ioq' = ioq \o <<t>>
        PROVE  IoTyped'
    BY <1>2, <2>3, IoSent, Made DEF Typed, IoTyped
  <2>4. CASE E.what = "closed" /\ ioq' = ioq \o <<About("erase", E.who)>>
    BY <1>1, <2>3, <2>4, IoMade, Tokens
  <2>5. CASE E.what = "answer" /\ ioq' = ioq \o <<About("probeAnswer", E.who)>>
    BY <1>1, <2>3, <2>5, IoMade, Tokens
  <2>6. CASE E.what = "failed" /\ ioq' = ioq \o <<About("probeFailed", E.who)>>
    BY <1>1, <2>3, <2>6, IoMade, Tokens
  <2>7. QED
    BY <2>1, <2>2, <2>4, <2>5, <2>6
<1>5. StateTyped'
  BY DEF Typed, StateTyped, ScopeTyped, AcceptorTyped, PeersTyped, ProbesTyped, BudgetTyped,
     DispatchSignal, scopeVars, taskVars, acceptorVars, peerVars, probeVars, appVars
<1>6. QED
  BY <1>3, <1>4, <1>5 DEF Typed


LEMMA CallTyped ==
    ASSUME Typed, NEW op \in {"start", "stop"}, Call(op)
    PROVE  /\ Typed'
           /\ Undisturbed(dq, dq', Others({"start", "stop"}))
<1>1. /\ generation \in Nat /\ generation \in 0..generation /\ 0 \in 0..generation
      /\ None \in Known(next)
  BY Numbers
<1>2. DqTyped' /\ Undisturbed(dq, dq', Others({"start", "stop"}))
  <2> DEFINE x == <<Do(op)>>
  <2>1. x \in Seq(DqEntries) /\ ~Has(x, Beyond(generation, next))
    BY <1>1, Made, DqMade, Tokens DEF Call
  <2>2. ~Has(x, Others({"start", "stop"}))
    BY <1>1, Made, DqMade, Touching DEF Call
  <2>3. dq' = dq \o x /\ UNCHANGED <<generation, next>>
    BY Plain DEF Typed, DqTyped, Call, scopeVars, taskVars, acceptorVars, peerVars, probeVars,
       appVars
  <2> HIDE DEF x
  <2>4. DqTyped'
    BY <2>1, <2>2, <2>3, DqSent DEF Typed, DqTyped
  <2>5. Undisturbed(dq, dq', Others({"start", "stop"}))
    BY <2>1, <2>2, <2>3, SentElsewhere DEF Typed, DqTyped
  <2>6. QED
    BY <2>4, <2>5
<1>3. IoTyped' /\ ScopeTyped' /\ AcceptorTyped' /\ PeersTyped' /\ ProbesTyped'
  BY DEF Typed, StateTyped, IoTyped, ScopeTyped, AcceptorTyped, PeersTyped, ProbesTyped, Call,
     scopeVars, taskVars, acceptorVars, peerVars, probeVars, appVars
<1>4. BudgetTyped'
  BY Spent DEF Typed, StateTyped, BudgetTyped, Bounds, Call, scopeVars, taskVars, acceptorVars,
     peerVars, probeVars, appVars
<1>5. QED
  BY <1>2, <1>3, <1>4 DEF Typed, StateTyped

LEMMA AsyncClosePeerTyped ==
    ASSUME Typed, NEW id \in Peers, AsyncClosePeer(id)
    PROVE  /\ Typed'
           /\ Undisturbed(ioq, ioq', Others({"closePeer"}))
<1>1. /\ generation \in Nat /\ generation \in 0..generation /\ 0 \in 0..generation
      /\ None \in Known(next)
      /\ id \in 1..next /\ id \in Known(next)
  BY Numbers DEF AsyncClosePeer
<1>2. IoTyped' /\ Undisturbed(ioq, ioq', Others({"closePeer"}))
  <2> DEFINE x == <<About("closePeer", id)>>
  <2>1. x \in Seq(IoEntries) /\ ~Has(x, Beyond(generation, next))
    BY <1>1, Made, IoMade, Tokens DEF AsyncClosePeer
  <2>2. ~Has(x, Others({"closePeer"}))
    BY <1>1, Made, IoMade, Touching DEF AsyncClosePeer
  <2>3. ioq' = ioq \o x /\ UNCHANGED <<generation, next>>
    BY Plain DEF Typed, IoTyped, AsyncClosePeer, Post, scopeVars, taskVars, acceptorVars,
       peerVars, probeVars, appVars
  <2> HIDE DEF x
  <2>4. IoTyped'
    BY <2>1, <2>2, <2>3, IoSent DEF Typed, IoTyped
  <2>5. Undisturbed(ioq, ioq', Others({"closePeer"}))
    BY <2>1, <2>2, <2>3, SentElsewhere DEF Typed, IoTyped
  <2>6. QED
    BY <2>4, <2>5
<1>3. DqTyped' /\ ScopeTyped' /\ AcceptorTyped' /\ PeersTyped' /\ ProbesTyped'
  BY DEF Typed, StateTyped, DqTyped, ScopeTyped, AcceptorTyped, PeersTyped, ProbesTyped,
     AsyncClosePeer, Post, scopeVars, taskVars, acceptorVars, peerVars, probeVars, appVars
<1>4. BudgetTyped'
  BY Spent DEF Typed, StateTyped, BudgetTyped, Bounds, AsyncClosePeer, Post, scopeVars, taskVars,
     acceptorVars, peerVars, probeVars, appVars
<1>5. QED
  BY <1>2, <1>3, <1>4 DEF Typed, StateTyped

LEMMA StartTyped ==
    ASSUME Typed, Start
    PROVE  /\ Typed'
           /\ Undisturbed(dq, dq', Others({"start"}))
           /\ Undisturbed(ioq, ioq', Others({"bind"}))
<1>1. /\ generation \in Nat /\ generation \in 0..generation /\ 0 \in 0..generation
      /\ None \in Known(next)
      /\ dq # <<>> /\ E \in DqEntries /\ E = Head(dq)
      /\ E.op \in {"start"}
      /\ E.token \in 0..generation /\ E.who \in Known(next)
  BY Numbers, Heads DEF Start, Dispatching, E
<1>2. DqTyped' /\ Undisturbed(dq, dq', Others({"start"}))
  <2>1. <<>> \in Seq(DqEntries) /\ \A A : ~Has(<<>>, A)
    BY Made
  <2>2. dq # <<>> /\ dq' = Tail(dq) \o <<>> /\ UNCHANGED <<generation, next>>
    BY DEF Start, Dispatching, Post, Dispatched, taskVars, acceptorVars, peerVars, probeVars,
       appVars
  <2>3. Head(dq) \notin Others({"start"})
    BY <1>1 DEF Others
  <2>4. DqTyped'
    BY <2>1, <2>2, DqSent DEF Typed, DqTyped
  <2>5. Undisturbed(dq, dq', Others({"start"}))
    BY <2>1, <2>2, <2>3, TakenElsewhere DEF Typed, DqTyped
  <2>6. QED
    BY <2>4, <2>5
<1>3. IoTyped' /\ Undisturbed(ioq, ioq', Others({"bind"}))
  <2> DEFINE x == <<With("bind", generation)>>
  <2>1. x \in Seq(IoEntries) /\ ~Has(x, Beyond(generation, next))
    BY <1>1, Made, IoMade, Tokens DEF Start, Dispatching
  <2>2. ~Has(x, Others({"bind"}))
    BY <1>1, Made, IoMade, Touching DEF Start, Dispatching
  <2>3. ioq' = ioq \o x /\ UNCHANGED <<generation, next>>
    BY Plain DEF Typed, IoTyped, Start, Dispatching, Post, Dispatched, taskVars, acceptorVars,
       peerVars, probeVars, appVars
  <2> HIDE DEF x
  <2>4. IoTyped'
    BY <2>1, <2>2, <2>3, IoSent DEF Typed, IoTyped
  <2>5. Undisturbed(ioq, ioq', Others({"bind"}))
    BY <2>1, <2>2, <2>3, SentElsewhere DEF Typed, IoTyped
  <2>6. QED
    BY <2>4, <2>5
<1>4. AcceptorTyped' /\ PeersTyped' /\ ProbesTyped' /\ BudgetTyped'
  BY DEF Typed, StateTyped, AcceptorTyped, PeersTyped, ProbesTyped, BudgetTyped, ScopeTyped,
     Start, Dispatching, Post, Dispatched, taskVars, acceptorVars, peerVars, probeVars, appVars
<1>5. ScopeTyped'
  BY <1>1, DqRead DEF Typed, StateTyped, ScopeTyped, Start, Dispatching, Post, Dispatched,
     taskVars, acceptorVars, peerVars, probeVars, appVars
<1>6. QED
  BY <1>2, <1>3, <1>4, <1>5 DEF Typed, StateTyped

LEMMA PostStopTyped ==
    ASSUME Typed, PostStop
    PROVE  /\ Typed'
           /\ Undisturbed(dq, dq', Others({"cancel", "timerStop"}))
           /\ Undisturbed(ioq, ioq', Others({"stop"}))
<1>1. /\ generation \in Nat /\ generation \in 0..generation /\ 0 \in 0..generation
      /\ None \in Known(next)
  BY Numbers
<1>2. DqTyped' /\ Undisturbed(dq, dq', Others({"cancel", "timerStop"}))
  <2> DEFINE x == IF attached THEN <<Do("cancel"), Do("timerStop")>> ELSE <<>>
  <2>1. x \in Seq(DqEntries) /\ ~Has(x, Beyond(generation, next))
    BY <1>1, Made, DqMade, Tokens DEF PostStop
  <2>2. ~Has(x, Others({"cancel", "timerStop"}))
    BY <1>1, Made, DqMade, Touching DEF PostStop
  <2>3. dq' = dq \o x /\ UNCHANGED <<generation, next>>
    BY Plain DEF Typed, DqTyped, PostStop, Enqueue, Post, scopeVars, taskVars, acceptorVars,
       peerVars, probeVars, appVars
  <2> HIDE DEF x
  <2>4. DqTyped'
    BY <2>1, <2>2, <2>3, DqSent DEF Typed, DqTyped
  <2>5. Undisturbed(dq, dq', Others({"cancel", "timerStop"}))
    BY <2>1, <2>2, <2>3, SentElsewhere DEF Typed, DqTyped
  <2>6. QED
    BY <2>4, <2>5
<1>3. IoTyped' /\ Undisturbed(ioq, ioq', Others({"stop"}))
  <2> DEFINE x == <<Do("stop")>>
  <2>1. x \in Seq(IoEntries) /\ ~Has(x, Beyond(generation, next))
    BY <1>1, Made, IoMade, Tokens DEF PostStop
  <2>2. ~Has(x, Others({"stop"}))
    BY <1>1, Made, IoMade, Touching DEF PostStop
  <2>3. ioq' = ioq \o x /\ UNCHANGED <<generation, next>>
    BY Plain DEF Typed, IoTyped, PostStop, Enqueue, Post, scopeVars, taskVars, acceptorVars,
       peerVars, probeVars, appVars
  <2> HIDE DEF x
  <2>4. IoTyped'
    BY <2>1, <2>2, <2>3, IoSent DEF Typed, IoTyped
  <2>5. Undisturbed(ioq, ioq', Others({"stop"}))
    BY <2>1, <2>2, <2>3, SentElsewhere DEF Typed, IoTyped
  <2>6. QED
    BY <2>4, <2>5
<1>4. AcceptorTyped' /\ PeersTyped' /\ ProbesTyped' /\ BudgetTyped'
  BY DEF Typed, StateTyped, AcceptorTyped, PeersTyped, ProbesTyped, BudgetTyped, ScopeTyped,
     PostStop, Enqueue, Post, scopeVars, taskVars, acceptorVars, peerVars, probeVars, appVars
<1>5. ScopeTyped'
  BY <1>1 DEF Typed, StateTyped, ScopeTyped, PostStop, Enqueue, Post, scopeVars, taskVars,
     acceptorVars, peerVars, probeVars, appVars
<1>6. QED
  BY <1>2, <1>3, <1>4, <1>5 DEF Typed, StateTyped

LEMMA NotifyTyped ==
    ASSUME Typed, Notify
    PROVE  /\ Typed'
           /\ Undisturbed(dq, dq', Others({"note", "timerStart", "timerStop", "debounce"}))
<1>1. /\ generation \in Nat /\ generation \in 0..generation /\ 0 \in 0..generation
      /\ None \in Known(next)
      /\ dq # <<>> /\ E \in DqEntries /\ E = Head(dq)
      /\ E.op \in {"note"}
      /\ E.token \in 0..generation /\ E.who \in Known(next)
  BY Numbers, Heads DEF Notify, Dispatching, E
<1>2. DqTyped' /\ Undisturbed(dq, dq', Others({"note", "timerStart", "timerStop", "debounce"}))
  <2> DEFINE x == IF attached /\ IsCurrent(E.token) THEN Followups(E.what) ELSE <<>>
  <2>1. x \in Seq(DqEntries) /\ ~Has(x, Beyond(generation, next))
    BY <1>1, Made, DqMade, Tokens, DqRead DEF Notify, Dispatching, Followups, Retried
  <2>2. ~Has(x, Others({"note", "timerStart", "timerStop", "debounce"}))
    BY <1>1, Made, DqMade, DqRead, Touching DEF Notify, Dispatching, Followups, Retried
  <2>3. dq # <<>> /\ dq' = Tail(dq) \o x /\ UNCHANGED <<generation, next>>
    BY DEF Notify, Dispatching, Dispatched, Followups, scopeVars, taskVars, acceptorVars,
       peerVars, probeVars, Retried
  <2>4. Head(dq) \notin Others({"note", "timerStart", "timerStop", "debounce"})
    BY <1>1 DEF Others
  <2> HIDE DEF x
  <2>5. DqTyped'
    BY <2>1, <2>2, <2>3, DqSent DEF Typed, DqTyped
  <2>6. Undisturbed(dq, dq', Others({"note", "timerStart", "timerStop", "debounce"}))
    BY <2>1, <2>2, <2>3, <2>4, TakenElsewhere DEF Typed, DqTyped
  <2>7. QED
    BY <2>5, <2>6
<1>3. IoTyped' /\ AcceptorTyped' /\ PeersTyped' /\ ProbesTyped' /\ BudgetTyped'
  BY DEF Typed, StateTyped, IoTyped, AcceptorTyped, PeersTyped, ProbesTyped, BudgetTyped,
     ScopeTyped, Notify, Dispatching, Dispatched, Followups, scopeVars, taskVars, acceptorVars,
     peerVars, probeVars, Retried
<1>4. ScopeTyped'
  BY <1>1, DqRead DEF TellsBinding, Typed, StateTyped, ScopeTyped, Notify, Dispatching, Dispatched, Followups,
     scopeVars, taskVars, acceptorVars, peerVars, probeVars, Retried
<1>5. QED
  BY <1>2, <1>3, <1>4 DEF Typed, StateTyped

LEMMA NotifyReadyTyped ==
    ASSUME Typed, NEW answer \in {"verified", "refused"}, NotifyReady(answer)
    PROVE  /\ Typed'
           /\ Undisturbed(dq, dq', Others({"note"}))
           /\ Undisturbed(ioq, ioq', Others({"closePeer"}))
<1>1. /\ generation \in Nat /\ generation \in 0..generation /\ 0 \in 0..generation
      /\ None \in Known(next)
      /\ dq # <<>> /\ E \in DqEntries /\ E = Head(dq)
      /\ E.op \in {"note"}
      /\ E.token \in 0..generation /\ E.who \in Known(next)
      /\ E.who \in Peers /\ E.who \in 1..next
  BY Numbers, Heads, DqRead DEF NotifyReady, Dispatching, E
<1>2. DqTyped' /\ Undisturbed(dq, dq', Others({"note"}))
  <2>1. <<>> \in Seq(DqEntries) /\ \A A : ~Has(<<>>, A)
    BY Made
  <2>2. dq # <<>> /\ dq' = Tail(dq) \o <<>> /\ UNCHANGED <<generation, next>>
    BY DEF NotifyReady, Dispatching, Post, Dispatched, scopeVars, taskVars, acceptorVars,
       peerVars, probeVars
  <2>3. Head(dq) \notin Others({"note"})
    BY <1>1 DEF Others
  <2>4. DqTyped'
    BY <2>1, <2>2, DqSent DEF Typed, DqTyped
  <2>5. Undisturbed(dq, dq', Others({"note"}))
    BY <2>1, <2>2, <2>3, TakenElsewhere DEF Typed, DqTyped
  <2>6. QED
    BY <2>4, <2>5
<1>3. IoTyped' /\ Undisturbed(ioq, ioq', Others({"closePeer"}))
  <2> DEFINE x == IF answer = "verified" THEN <<>> ELSE <<About("closePeer", E.who)>>
  <2>1. x \in Seq(IoEntries) /\ ~Has(x, Beyond(generation, next))
    BY <1>1, Made, IoMade, Tokens, DqRead DEF NotifyReady, Dispatching
  <2>2. ~Has(x, Others({"closePeer"}))
    BY <1>1, Made, IoMade, DqRead, Touching DEF NotifyReady, Dispatching
  <2>3. ioq' = ioq \o x /\ UNCHANGED <<generation, next>>
    BY Plain DEF Typed, IoTyped, NotifyReady, Dispatching, Post, Dispatched, scopeVars, taskVars,
       acceptorVars, peerVars, probeVars
  <2> HIDE DEF x
  <2>4. IoTyped'
    BY <2>1, <2>2, <2>3, IoSent DEF Typed, IoTyped
  <2>5. Undisturbed(ioq, ioq', Others({"closePeer"}))
    BY <2>1, <2>2, <2>3, SentElsewhere DEF Typed, IoTyped
  <2>6. QED
    BY <2>4, <2>5
<1>4. ScopeTyped' /\ AcceptorTyped' /\ ProbesTyped' /\ BudgetTyped'
  BY DEF Typed, StateTyped, ScopeTyped, AcceptorTyped, ProbesTyped, BudgetTyped, NotifyReady,
     Dispatching, Post, Dispatched, scopeVars, taskVars, acceptorVars, peerVars, probeVars
<1>5. PeersTyped'
  <2> DEFINE k == E.who
  <2>1. /\ exposed' \in {exposed, exposed \cup {k}} /\ told' \in {told, [told EXCEPT ![k] = "connected"]}
        /\ UNCHANGED <<next, peers, sock, ready, session, generation>>
    BY DEF NotifyReady, peerVars, scopeVars
  <2>2. k \in 1..next /\ k \in Peers /\ next \in Nat
    BY <1>1, Numbers
  <2> HIDE DEF k
  <2>3. QED
    BY <2>1, <2>2 DEF Typed, StateTyped, PeersTyped
<1>6. QED
  BY <1>2, <1>3, <1>4, <1>5 DEF Typed, StateTyped

LEMMA ReportTyped ==
    ASSUME Typed, Report
    PROVE  /\ Typed'
           /\ Undisturbed(dq, dq', Others({"report"}))
<1>1. /\ generation \in Nat /\ generation \in 0..generation /\ 0 \in 0..generation
      /\ None \in Known(next)
      /\ dq # <<>> /\ E \in DqEntries /\ E = Head(dq)
      /\ E.op \in {"report"}
      /\ E.token \in 0..generation /\ E.who \in Known(next)
  BY Numbers, Heads DEF Report, Dispatching, E
<1>2. DqTyped' /\ Undisturbed(dq, dq', Others({"report"}))
  <2>1. <<>> \in Seq(DqEntries) /\ \A A : ~Has(<<>>, A)
    BY Made
  <2>2. dq # <<>> /\ dq' = Tail(dq) \o <<>> /\ UNCHANGED <<generation, next>>
    BY DEF Report, Dispatching, Dispatched, scopeVars, taskVars, acceptorVars, peerVars,
       probeVars, appVars
  <2>3. Head(dq) \notin Others({"report"})
    BY <1>1 DEF Others
  <2>4. DqTyped'
    BY <2>1, <2>2, DqSent DEF Typed, DqTyped
  <2>5. Undisturbed(dq, dq', Others({"report"}))
    BY <2>1, <2>2, <2>3, TakenElsewhere DEF Typed, DqTyped
  <2>6. QED
    BY <2>4, <2>5
<1>3. IoTyped' /\ ScopeTyped' /\ AcceptorTyped' /\ PeersTyped' /\ ProbesTyped' /\ BudgetTyped'
  BY DEF Typed, StateTyped, IoTyped, ScopeTyped, AcceptorTyped, PeersTyped, ProbesTyped,
     BudgetTyped, Report, Dispatching, Dispatched, scopeVars, taskVars, acceptorVars, peerVars,
     probeVars, appVars
<1>4. QED
  BY <1>2, <1>3 DEF Typed, StateTyped

LEMMA PeerClosedTyped ==
    ASSUME Typed, PeerClosed
    PROVE  /\ Typed'
           /\ Undisturbed(dq, dq', Others({"peerClosed"}))
<1>1. /\ generation \in Nat /\ generation \in 0..generation /\ 0 \in 0..generation
      /\ None \in Known(next)
      /\ dq # <<>> /\ E \in DqEntries /\ E = Head(dq)
      /\ E.op \in {"peerClosed"}
      /\ E.token \in 0..generation /\ E.who \in Known(next)
      /\ E.who \in Peers /\ E.who \in 1..next
  BY Numbers, Heads, DqRead DEF PeerClosed, Dispatching, E
<1>2. DqTyped' /\ Undisturbed(dq, dq', Others({"peerClosed"}))
  <2>1. <<>> \in Seq(DqEntries) /\ \A A : ~Has(<<>>, A)
    BY Made
  <2>2. dq # <<>> /\ dq' = Tail(dq) \o <<>> /\ UNCHANGED <<generation, next>>
    BY DEF PeerClosed, Dispatching, Over, Dispatched, scopeVars, taskVars, acceptorVars,
       peerVars, probeVars
  <2>3. Head(dq) \notin Others({"peerClosed"})
    BY <1>1 DEF Others
  <2>4. DqTyped'
    BY <2>1, <2>2, DqSent DEF Typed, DqTyped
  <2>5. Undisturbed(dq, dq', Others({"peerClosed"}))
    BY <2>1, <2>2, <2>3, TakenElsewhere DEF Typed, DqTyped
  <2>6. QED
    BY <2>4, <2>5
<1>3. IoTyped' /\ ScopeTyped' /\ AcceptorTyped' /\ ProbesTyped' /\ BudgetTyped'
  BY DEF Typed, StateTyped, IoTyped, ScopeTyped, AcceptorTyped, ProbesTyped, BudgetTyped,
     PeersTyped, PeerClosed, Dispatching, Over, Dispatched, scopeVars, taskVars, acceptorVars,
     peerVars, probeVars
<1>4. PeersTyped'
  <2> DEFINE k == E.who
  <2>1. /\ exposed' \subseteq exposed /\ \E w \in {"closed", "over", told[k]} : told' = [told EXCEPT ![k] = w]
        /\ UNCHANGED <<next, peers, sock, ready, session, generation>>
    BY DEF PeerClosed, peerVars, scopeVars
  <2>2. k \in 1..next /\ k \in Peers /\ next \in Nat
    BY <1>1, Numbers
  <2> HIDE DEF k
  <2>3. QED
    BY <2>1, <2>2 DEF Typed, StateTyped, PeersTyped
<1>5. QED
  BY <1>2, <1>3, <1>4 DEF Typed, StateTyped

LEMMA DebounceTyped ==
    ASSUME Typed, Debounce
    PROVE  /\ Typed'
           /\ Undisturbed(dq, dq', Others({"cancel", "debounce"}))
<1>1. /\ generation \in Nat /\ generation \in 0..generation /\ 0 \in 0..generation
      /\ None \in Known(next)
      /\ dq # <<>> /\ E \in DqEntries /\ E = Head(dq)
      /\ E.op \in {"cancel", "debounce"}
      /\ E.token \in 0..generation /\ E.who \in Known(next)
  BY Numbers, Heads DEF Debounce, E
<1>2. DqTyped' /\ Undisturbed(dq, dq', Others({"cancel", "debounce"}))
  <2>1. <<>> \in Seq(DqEntries) /\ \A A : ~Has(<<>>, A)
    BY Made
  <2>2. dq # <<>> /\ dq' = Tail(dq) \o <<>> /\ UNCHANGED <<generation, next>>
    BY DEF Debounce, Dispatched, scopeVars, acceptorVars, peerVars, probeVars, appVars
  <2>3. Head(dq) \notin Others({"cancel", "debounce"})
    BY <1>1 DEF Others
  <2>4. DqTyped'
    BY <2>1, <2>2, DqSent DEF Typed, DqTyped
  <2>5. Undisturbed(dq, dq', Others({"cancel", "debounce"}))
    BY <2>1, <2>2, <2>3, TakenElsewhere DEF Typed, DqTyped
  <2>6. QED
    BY <2>4, <2>5
<1>3. IoTyped' /\ AcceptorTyped' /\ PeersTyped' /\ ProbesTyped' /\ BudgetTyped'
  BY DEF Typed, StateTyped, IoTyped, AcceptorTyped, PeersTyped, ProbesTyped, BudgetTyped,
     ScopeTyped, Debounce, Dispatched, scopeVars, acceptorVars, peerVars, probeVars, appVars
<1>4. ScopeTyped'
  BY <1>1, DqRead DEF Typed, StateTyped, ScopeTyped, Debounce, Dispatched, scopeVars,
     acceptorVars, peerVars, probeVars, appVars
<1>5. QED
  BY <1>2, <1>3, <1>4 DEF Typed, StateTyped

LEMMA RetryTyped ==
    ASSUME Typed, Retry
    PROVE  /\ Typed'
           /\ Undisturbed(ioq, ioq', Others({"bind"}))
<1>1. /\ generation \in Nat /\ generation \in 0..generation /\ 0 \in 0..generation
      /\ None \in Known(next)
  BY Numbers
<1>2. IoTyped' /\ Undisturbed(ioq, ioq', Others({"bind"}))
  <2> DEFINE x == IF running THEN <<With("bind", generation)>> ELSE <<>>
  <2>1. x \in Seq(IoEntries) /\ ~Has(x, Beyond(generation, next))
    BY <1>1, Made, IoMade, Tokens DEF Retry
  <2>2. ~Has(x, Others({"bind"}))
    BY <1>1, Made, IoMade, Touching DEF Retry
  <2>3. ioq' = ioq \o x /\ UNCHANGED <<generation, next>>
    BY Plain DEF Typed, IoTyped, Retry, Post, scopeVars, acceptorVars, peerVars, probeVars,
       appVars
  <2> HIDE DEF x
  <2>4. IoTyped'
    BY <2>1, <2>2, <2>3, IoSent DEF Typed, IoTyped
  <2>5. Undisturbed(ioq, ioq', Others({"bind"}))
    BY <2>1, <2>2, <2>3, SentElsewhere DEF Typed, IoTyped
  <2>6. QED
    BY <2>4, <2>5
<1>3. DqTyped' /\ AcceptorTyped' /\ PeersTyped' /\ ProbesTyped' /\ BudgetTyped'
  BY DEF Typed, StateTyped, DqTyped, AcceptorTyped, PeersTyped, ProbesTyped, BudgetTyped,
     ScopeTyped, Retry, Post, scopeVars, acceptorVars, peerVars, probeVars, appVars
<1>4. ScopeTyped'
  BY <1>1 DEF Typed, StateTyped, ScopeTyped, Retry, Post, scopeVars, acceptorVars, peerVars,
     probeVars, appVars
<1>5. QED
  BY <1>2, <1>3, <1>4 DEF Typed, StateTyped

LEMMA TimerTyped ==
    ASSUME Typed, Timer
    PROVE  /\ Typed'
           /\ Undisturbed(dq, dq', Others({"timerStart", "timerStop", "check"}))
<1>1. /\ generation \in Nat /\ generation \in 0..generation /\ 0 \in 0..generation
      /\ None \in Known(next)
      /\ dq # <<>> /\ E \in DqEntries /\ E = Head(dq)
      /\ E.op \in {"timerStart", "timerStop"}
      /\ E.token \in 0..generation /\ E.who \in Known(next)
  BY Numbers, Heads DEF Timer, E
<1>2. DqTyped' /\ Undisturbed(dq, dq', Others({"timerStart", "timerStop", "check"}))
  <2> DEFINE x == IF attached /\ E.op = "timerStart" THEN <<Do("check")>> ELSE <<>>
  <2>1. x \in Seq(DqEntries) /\ ~Has(x, Beyond(generation, next))
    BY <1>1, Made, DqMade, Tokens, DqRead DEF Timer
  <2>2. ~Has(x, Others({"timerStart", "timerStop", "check"}))
    BY <1>1, Made, DqMade, DqRead, Touching DEF Timer
  <2>3. dq # <<>> /\ dq' = Tail(dq) \o x /\ UNCHANGED <<generation, next>>
    BY DEF Timer, Dispatched, scopeVars, acceptorVars, peerVars, probeVars, appVars
  <2>4. Head(dq) \notin Others({"timerStart", "timerStop", "check"})
    BY <1>1 DEF Others
  <2> HIDE DEF x
  <2>5. DqTyped'
    BY <2>1, <2>2, <2>3, DqSent DEF Typed, DqTyped
  <2>6. Undisturbed(dq, dq', Others({"timerStart", "timerStop", "check"}))
    BY <2>1, <2>2, <2>3, <2>4, TakenElsewhere DEF Typed, DqTyped
  <2>7. QED
    BY <2>5, <2>6
<1>3. IoTyped' /\ AcceptorTyped' /\ PeersTyped' /\ ProbesTyped' /\ BudgetTyped'
  BY DEF Typed, StateTyped, IoTyped, AcceptorTyped, PeersTyped, ProbesTyped, BudgetTyped,
     ScopeTyped, Timer, Dispatched, scopeVars, acceptorVars, peerVars, probeVars, appVars
<1>4. ScopeTyped'
  BY <1>1, DqRead DEF Typed, StateTyped, ScopeTyped, Timer, Dispatched, scopeVars, acceptorVars,
     peerVars, probeVars, appVars
<1>5. QED
  BY <1>2, <1>3, <1>4 DEF Typed, StateTyped

LEMMA WatchFiresTyped ==
    ASSUME Typed, WatchFires
    PROVE  /\ Typed'
           /\ Undisturbed(dq, dq', Others({"check"}))
<1>1. /\ generation \in Nat /\ generation \in 0..generation /\ 0 \in 0..generation
      /\ None \in Known(next)
  BY Numbers
<1>2. DqTyped' /\ Undisturbed(dq, dq', Others({"check"}))
  <2> DEFINE x == IF attached THEN <<Do("check")>> ELSE <<>>
  <2>1. x \in Seq(DqEntries) /\ ~Has(x, Beyond(generation, next))
    BY <1>1, Made, DqMade, Tokens DEF WatchFires
  <2>2. ~Has(x, Others({"check"}))
    BY <1>1, Made, DqMade, Touching DEF WatchFires
  <2>3. dq' = dq \o x /\ UNCHANGED <<generation, next>>
    BY Plain DEF Typed, DqTyped, WatchFires, Enqueue, scopeVars, taskVars, acceptorVars,
       peerVars, probeVars, appVars
  <2> HIDE DEF x
  <2>4. DqTyped'
    BY <2>1, <2>2, <2>3, DqSent DEF Typed, DqTyped
  <2>5. Undisturbed(dq, dq', Others({"check"}))
    BY <2>1, <2>2, <2>3, SentElsewhere DEF Typed, DqTyped
  <2>6. QED
    BY <2>4, <2>5
<1>3. IoTyped' /\ ScopeTyped' /\ AcceptorTyped' /\ PeersTyped' /\ ProbesTyped' /\ BudgetTyped'
  BY DEF Typed, StateTyped, IoTyped, ScopeTyped, AcceptorTyped, PeersTyped, ProbesTyped,
     BudgetTyped, WatchFires, Enqueue, scopeVars, taskVars, acceptorVars, peerVars, probeVars,
     appVars
<1>4. QED
  BY <1>2, <1>3 DEF Typed, StateTyped

LEMMA CheckTyped ==
    ASSUME Typed, Check
    PROVE  /\ Typed'
           /\ Undisturbed(dq, dq', Others({"check"}))
           /\ Undisturbed(ioq, ioq', Others({"probe"}))
<1>1. /\ generation \in Nat /\ generation \in 0..generation /\ 0 \in 0..generation
      /\ None \in Known(next)
      /\ dq # <<>> /\ E \in DqEntries /\ E = Head(dq)
      /\ E.op \in {"check"}
      /\ E.token \in 0..generation /\ E.who \in Known(next)
  BY Numbers, Heads DEF Check, Dispatching, E
<1>2. DqTyped' /\ Undisturbed(dq, dq', Others({"check"}))
  <2>1. <<>> \in Seq(DqEntries) /\ \A A : ~Has(<<>>, A)
    BY Made
  <2>2. dq # <<>> /\ dq' = Tail(dq) \o <<>> /\ UNCHANGED <<generation, next>>
    BY DEF Check, Dispatching, Post, Dispatched, scopeVars, taskVars, acceptorVars, peerVars,
       probeVars, appVars
  <2>3. Head(dq) \notin Others({"check"})
    BY <1>1 DEF Others
  <2>4. DqTyped'
    BY <2>1, <2>2, DqSent DEF Typed, DqTyped
  <2>5. Undisturbed(dq, dq', Others({"check"}))
    BY <2>1, <2>2, <2>3, TakenElsewhere DEF Typed, DqTyped
  <2>6. QED
    BY <2>4, <2>5
<1>3. IoTyped' /\ Undisturbed(ioq, ioq', Others({"probe"}))
  <2> DEFINE x == <<With("probe", generation)>>
  <2>1. x \in Seq(IoEntries) /\ ~Has(x, Beyond(generation, next))
    BY <1>1, Made, IoMade, Tokens DEF Check, Dispatching
  <2>2. ~Has(x, Others({"probe"}))
    BY <1>1, Made, IoMade, Touching DEF Check, Dispatching
  <2>3. ioq' = ioq \o x /\ UNCHANGED <<generation, next>>
    BY Plain DEF Typed, IoTyped, Check, Dispatching, Post, Dispatched, scopeVars, taskVars,
       acceptorVars, peerVars, probeVars, appVars
  <2> HIDE DEF x
  <2>4. IoTyped'
    BY <2>1, <2>2, <2>3, IoSent DEF Typed, IoTyped
  <2>5. Undisturbed(ioq, ioq', Others({"probe"}))
    BY <2>1, <2>2, <2>3, SentElsewhere DEF Typed, IoTyped
  <2>6. QED
    BY <2>4, <2>5
<1>4. ScopeTyped' /\ AcceptorTyped' /\ PeersTyped' /\ ProbesTyped' /\ BudgetTyped'
  BY DEF Typed, StateTyped, ScopeTyped, AcceptorTyped, PeersTyped, ProbesTyped, BudgetTyped,
     Check, Dispatching, Post, Dispatched, scopeVars, taskVars, acceptorVars, peerVars,
     probeVars, appVars
<1>5. QED
  BY <1>2, <1>3, <1>4 DEF Typed, StateTyped

LEMMA PeerReadyTyped ==
    ASSUME Typed, NEW id \in Peers, PeerReady(id)
    PROVE  /\ Typed'
           /\ Undisturbed(dq, dq', Others({"signal"}))
<1>1. /\ generation \in Nat /\ generation \in 0..generation /\ 0 \in 0..generation
      /\ None \in Known(next)
      /\ id \in 1..next /\ id \in Known(next)
  BY Numbers DEF PeerReady
<1>2. DqTyped' /\ Undisturbed(dq, dq', Others({"signal"}))
  <2> DEFINE x == <<Signal("ready", id)>>
  <2>1. x \in Seq(DqEntries) /\ ~Has(x, Beyond(generation, next))
    BY <1>1, Made, DqMade, Tokens DEF PeerReady
  <2>2. ~Has(x, Others({"signal"}))
    BY <1>1, Made, DqMade, Touching DEF PeerReady
  <2>3. dq' = dq \o x /\ UNCHANGED <<generation, next>>
    BY Plain DEF Typed, DqTyped, PeerReady, acceptorVars, probeVars, IoUnchanged,
       DispatcherUnchanged, scopeVars, taskVars, appVars
  <2> HIDE DEF x
  <2>4. DqTyped'
    BY <2>1, <2>2, <2>3, DqSent DEF Typed, DqTyped
  <2>5. Undisturbed(dq, dq', Others({"signal"}))
    BY <2>1, <2>2, <2>3, SentElsewhere DEF Typed, DqTyped
  <2>6. QED
    BY <2>4, <2>5
<1>3. IoTyped' /\ ScopeTyped' /\ AcceptorTyped' /\ ProbesTyped'
  BY DEF Typed, StateTyped, IoTyped, ScopeTyped, AcceptorTyped, ProbesTyped, PeersTyped,
     PeerReady, acceptorVars, probeVars, IoUnchanged, DispatcherUnchanged, scopeVars, taskVars,
     appVars
<1>4. PeersTyped'
  BY <1>1 DEF Typed, StateTyped, PeersTyped, ScopeTyped, SockStates, PeerReady, acceptorVars,
     probeVars, IoUnchanged, DispatcherUnchanged, scopeVars, taskVars, appVars
<1>5. BudgetTyped'
  BY Spent DEF Typed, StateTyped, BudgetTyped, Bounds, PeerReady, acceptorVars, probeVars,
     IoUnchanged, DispatcherUnchanged, scopeVars, taskVars, appVars
<1>6. QED
  BY <1>2, <1>3, <1>4, <1>5 DEF Typed, StateTyped

LEMMA PeerReportsTyped ==
    ASSUME Typed, NEW id \in Peers, PeerReports(id)
    PROVE  /\ Typed'
           /\ Undisturbed(dq, dq', Others({"signal"}))
<1> DEFINE w == IF sock[id] = "open" THEN "report" ELSE "late"
<1>1. generation \in Nat /\ 0 \in 0..generation /\ id \in Known(next) /\ w \in {"report", "late"}
  BY Numbers, Names DEF PeerReports, Typed, StateTyped, PeersTyped, Known
<1>2. DqTyped' /\ Undisturbed(dq, dq', Others({"signal"}))
  <2> DEFINE x == <<Signal(w, id)>>
  <2>1. x \in Seq(DqEntries) /\ ~Has(x, Beyond(generation, next))
    BY <1>1, Made, DqMade, Tokens DEF PeerReports
  <2>2. ~Has(x, Others({"signal"}))
    BY <1>1, Made, DqMade, Touching DEF PeerReports
  <2>3. dq' = dq \o x /\ UNCHANGED <<generation, next>>
    BY Plain DEF Typed, DqTyped, PeerReports, acceptorVars, peerVars, probeVars,
       DispatcherUnchanged, scopeVars, taskVars, appVars
  <2> HIDE DEF x
  <2>4. DqTyped'
    BY <2>1, <2>2, <2>3, DqSent DEF Typed, DqTyped
  <2>5. Undisturbed(dq, dq', Others({"signal"}))
    BY <2>1, <2>2, <2>3, SentElsewhere DEF Typed, DqTyped
  <2>6. QED
    BY <2>4, <2>5
<1>3. IoTyped' /\ ScopeTyped' /\ AcceptorTyped' /\ PeersTyped' /\ ProbesTyped'
  BY DEF Typed, StateTyped, IoTyped, ScopeTyped, AcceptorTyped, PeersTyped, ProbesTyped,
     PeerReports, acceptorVars, peerVars, probeVars, DispatcherUnchanged, scopeVars, taskVars,
     appVars
<1>4. BudgetTyped'
  BY Spent DEF Typed, StateTyped, BudgetTyped, Bounds, PeerReports, acceptorVars, peerVars,
     probeVars, DispatcherUnchanged, scopeVars, taskVars, appVars
<1>5. QED
  BY <1>2, <1>3, <1>4 DEF Typed, StateTyped

LEMMA EraseTyped ==
    ASSUME Typed, Erase
    PROVE  /\ Typed'
           /\ Undisturbed(ioq, ioq', Others({"erase"}))
<1>1. /\ generation \in Nat /\ generation \in 0..generation /\ 0 \in 0..generation
      /\ None \in Known(next)
      /\ ioq # <<>> /\ H \in IoEntries /\ H = Head(ioq)
      /\ H.op \in {"erase"}
      /\ H.token \in 0..generation /\ H.who \in Known(next)
  BY Numbers, Heads DEF Erase, Running, H
<1>2. IoTyped' /\ Undisturbed(ioq, ioq', Others({"erase"}))
  <2>1. <<>> \in Seq(IoEntries) /\ \A A : ~Has(<<>>, A)
    BY Made
  <2>2. ioq # <<>> /\ ioq' = Tail(ioq) \o <<>> /\ UNCHANGED <<generation, next>>
    BY DEF Erase, Running, Locked, Posting, acceptorVars, probeVars, IoUnchanged,
       DispatcherUnchanged, scopeVars, taskVars, appVars
  <2>3. Head(ioq) \notin Others({"erase"})
    BY <1>1 DEF Others
  <2>4. IoTyped'
    BY <2>1, <2>2, IoSent DEF Typed, IoTyped
  <2>5. Undisturbed(ioq, ioq', Others({"erase"}))
    BY <2>1, <2>2, <2>3, TakenElsewhere DEF Typed, IoTyped
  <2>6. QED
    BY <2>4, <2>5
<1>3. DqTyped' /\ ScopeTyped' /\ AcceptorTyped' /\ ProbesTyped'
  BY DEF Typed, StateTyped, DqTyped, ScopeTyped, AcceptorTyped, ProbesTyped, PeersTyped, Erase,
     Running, Locked, Posting, acceptorVars, probeVars, IoUnchanged, DispatcherUnchanged,
     scopeVars, taskVars, appVars
<1>4. PeersTyped'
  BY <1>1, IoRead DEF Typed, StateTyped, PeersTyped, ScopeTyped, SockStates, Erase, Running,
     Locked, Posting, acceptorVars, probeVars, IoUnchanged, DispatcherUnchanged, scopeVars,
     taskVars, appVars
<1>5. BudgetTyped'
  BY Spent DEF Typed, StateTyped, BudgetTyped, Bounds, Erase, Running, Locked, Posting,
     acceptorVars, probeVars, IoUnchanged, DispatcherUnchanged, scopeVars, taskVars, appVars
<1>6. QED
  BY <1>2, <1>3, <1>4, <1>5 DEF Typed, StateTyped

LEMMA ClosePeerTyped ==
    ASSUME Typed, ClosePeer
    PROVE  /\ Typed'
           /\ Undisturbed(ioq, ioq', Others({"closePeer", "peerClose"}))
<1>1. /\ generation \in Nat /\ generation \in 0..generation /\ 0 \in 0..generation
      /\ None \in Known(next)
      /\ ioq # <<>> /\ H \in IoEntries /\ H = Head(ioq)
      /\ H.op \in {"closePeer"}
      /\ H.token \in 0..generation /\ H.who \in Known(next)
      /\ H.who \in Peers
  BY Numbers, Heads, IoRead DEF ClosePeer, Running, H
<1>2. IoTyped' /\ Undisturbed(ioq, ioq', Others({"closePeer", "peerClose"}))
  <2> DEFINE x == IF Locked /\ H.who \in peers THEN <<Entry("peerClose", H.who, 0, "notify")>> ELSE <<>>
  <2>1. x \in Seq(IoEntries) /\ ~Has(x, Beyond(generation, next))
    BY <1>1, Made, IoMade, Tokens, IoRead DEF ClosePeer, Running, Locked
  <2>2. ~Has(x, Others({"closePeer", "peerClose"}))
    BY <1>1, Made, IoMade, IoRead, Touching DEF ClosePeer, Running, Locked
  <2>3. ioq # <<>> /\ ioq' = Tail(ioq) \o x /\ UNCHANGED <<generation, next>>
    BY DEF ClosePeer, Running, Locked, AsyncClose, Posting, acceptorVars, probeVars, IoUnchanged,
       DispatcherUnchanged, scopeVars, taskVars, appVars
  <2>4. Head(ioq) \notin Others({"closePeer", "peerClose"})
    BY <1>1 DEF Others
  <2> HIDE DEF x
  <2>5. IoTyped'
    BY <2>1, <2>2, <2>3, IoSent DEF Typed, IoTyped
  <2>6. Undisturbed(ioq, ioq', Others({"closePeer", "peerClose"}))
    BY <2>1, <2>2, <2>3, <2>4, TakenElsewhere DEF Typed, IoTyped
  <2>7. QED
    BY <2>5, <2>6
<1>3. DqTyped' /\ ScopeTyped' /\ AcceptorTyped' /\ ProbesTyped'
  BY DEF Typed, StateTyped, DqTyped, ScopeTyped, AcceptorTyped, ProbesTyped, PeersTyped,
     ClosePeer, Running, Locked, AsyncClose, Posting, acceptorVars, probeVars, IoUnchanged,
     DispatcherUnchanged, scopeVars, taskVars, appVars
<1>4. PeersTyped'
  BY <1>1, IoRead DEF Typed, StateTyped, PeersTyped, ScopeTyped, SockStates, ClosePeer, Running,
     Locked, AsyncClose, Posting, acceptorVars, probeVars, IoUnchanged, DispatcherUnchanged,
     scopeVars, taskVars, appVars
<1>5. BudgetTyped'
  BY Spent DEF Typed, StateTyped, BudgetTyped, Bounds, ClosePeer, Running, Locked, AsyncClose,
     Posting, acceptorVars, probeVars, IoUnchanged, DispatcherUnchanged, scopeVars, taskVars,
     appVars
<1>6. QED
  BY <1>2, <1>3, <1>4, <1>5 DEF Typed, StateTyped

LEMMA ProbeIgnoredTyped ==
    ASSUME Typed, ProbeIgnored
    PROVE  /\ Typed'
           /\ Undisturbed(ioq, ioq', Others({"probe"}))
<1>1. /\ generation \in Nat /\ generation \in 0..generation /\ 0 \in 0..generation
      /\ None \in Known(next)
      /\ ioq # <<>> /\ H \in IoEntries /\ H = Head(ioq)
      /\ H.op \in {"probe"}
      /\ H.token \in 0..generation /\ H.who \in Known(next)
  BY Numbers, Heads DEF ProbeIgnored, Running, H
<1>2. IoTyped' /\ Undisturbed(ioq, ioq', Others({"probe"}))
  <2>1. <<>> \in Seq(IoEntries) /\ \A A : ~Has(<<>>, A)
    BY Made
  <2>2. ioq # <<>> /\ ioq' = Tail(ioq) \o <<>> /\ UNCHANGED <<generation, next>>
    BY DEF ProbeIgnored, Running, MayProbe, Posting, acceptorVars, peerVars, probeVars,
       IoUnchanged, Locked, DispatcherUnchanged, scopeVars, taskVars, appVars
  <2>3. Head(ioq) \notin Others({"probe"})
    BY <1>1 DEF Others
  <2>4. IoTyped'
    BY <2>1, <2>2, IoSent DEF Typed, IoTyped
  <2>5. Undisturbed(ioq, ioq', Others({"probe"}))
    BY <2>1, <2>2, <2>3, TakenElsewhere DEF Typed, IoTyped
  <2>6. QED
    BY <2>4, <2>5
<1>3. DqTyped' /\ ScopeTyped' /\ AcceptorTyped' /\ PeersTyped' /\ ProbesTyped'
  BY DEF Typed, StateTyped, DqTyped, ScopeTyped, AcceptorTyped, PeersTyped, ProbesTyped,
     ProbeIgnored, Running, MayProbe, Posting, acceptorVars, peerVars, probeVars, IoUnchanged,
     Locked, DispatcherUnchanged, scopeVars, taskVars, appVars
<1>4. BudgetTyped'
  BY Spent DEF Typed, StateTyped, BudgetTyped, Bounds, ProbeIgnored, Running, MayProbe, Posting,
     acceptorVars, peerVars, probeVars, IoUnchanged, Locked, DispatcherUnchanged, scopeVars,
     taskVars, appVars
<1>5. QED
  BY <1>2, <1>3, <1>4 DEF Typed, StateTyped

LEMMA ProbeBeginsTyped ==
    ASSUME Typed, NEW k \in Probes, ProbeBegins(k)
    PROVE  /\ Typed'
           /\ Undisturbed(ioq, ioq', Others({"probe"}))
<1>1. /\ generation \in Nat /\ generation \in 0..generation /\ 0 \in 0..generation
      /\ None \in Known(next)
      /\ k \in Known(next) /\ probes[k].token \in 0..generation
      /\ ioq # <<>> /\ H \in IoEntries /\ H = Head(ioq)
      /\ H.op \in {"probe"}
      /\ H.token \in 0..generation /\ H.who \in Known(next)
  BY Numbers, Heads DEF ProbeBegins, Running, H
<1>2. IoTyped' /\ Undisturbed(ioq, ioq', Others({"probe"}))
  <2>1. <<>> \in Seq(IoEntries) /\ \A A : ~Has(<<>>, A)
    BY Made
  <2>2. ioq # <<>> /\ ioq' = Tail(ioq) \o <<>> /\ UNCHANGED <<generation, next>>
    BY DEF ProbeBegins, Running, MayProbe, Posting, acceptorVars, peerVars, DispatcherUnchanged,
       Locked, scopeVars, taskVars, appVars
  <2>3. Head(ioq) \notin Others({"probe"})
    BY <1>1 DEF Others
  <2>4. IoTyped'
    BY <2>1, <2>2, IoSent DEF Typed, IoTyped
  <2>5. Undisturbed(ioq, ioq', Others({"probe"}))
    BY <2>1, <2>2, <2>3, TakenElsewhere DEF Typed, IoTyped
  <2>6. QED
    BY <2>4, <2>5
<1>3. DqTyped' /\ ScopeTyped' /\ AcceptorTyped' /\ PeersTyped'
  BY DEF Typed, StateTyped, DqTyped, ScopeTyped, AcceptorTyped, PeersTyped, ProbeBegins, Running,
     MayProbe, Posting, acceptorVars, peerVars, DispatcherUnchanged, Locked, scopeVars, taskVars,
     appVars
<1>4. ProbesTyped'
  BY <1>1, IoRead DEF Typed, StateTyped, ProbesTyped, ScopeTyped, ProbeStates, ProbeBegins,
     Running, MayProbe, Posting, acceptorVars, peerVars, DispatcherUnchanged, Locked, scopeVars,
     taskVars, appVars
<1>5. BudgetTyped'
  BY Spent DEF Typed, StateTyped, BudgetTyped, Bounds, ProbeBegins, Running, MayProbe, Posting,
     acceptorVars, peerVars, DispatcherUnchanged, Locked, scopeVars, taskVars, appVars
<1>6. QED
  BY <1>2, <1>3, <1>4, <1>5 DEF Typed, StateTyped

LEMMA ProbeTimerExpiresTyped ==
    ASSUME Typed, NEW k \in Probes, ProbeTimerExpires(k)
    PROVE  /\ Typed'
           /\ Undisturbed(ioq, ioq', Others({"probeTimeout"}))
<1>1. /\ generation \in Nat /\ generation \in 0..generation /\ 0 \in 0..generation
      /\ None \in Known(next)
      /\ k \in Known(next) /\ probes[k].token \in 0..generation
  BY Numbers
<1>2. IoTyped' /\ Undisturbed(ioq, ioq', Others({"probeTimeout"}))
  <2> DEFINE x == <<About("probeTimeout", k)>>
  <2>1. x \in Seq(IoEntries) /\ ~Has(x, Beyond(generation, next))
    BY <1>1, Made, IoMade, Tokens DEF ProbeTimerExpires
  <2>2. ~Has(x, Others({"probeTimeout"}))
    BY <1>1, Made, IoMade, Touching DEF ProbeTimerExpires
  <2>3. ioq' = ioq \o x /\ UNCHANGED <<generation, next>>
    BY Plain DEF Typed, IoTyped, ProbeTimerExpires, Post, acceptorVars, peerVars,
       DispatcherUnchanged, scopeVars, taskVars, appVars
  <2> HIDE DEF x
  <2>4. IoTyped'
    BY <2>1, <2>2, <2>3, IoSent DEF Typed, IoTyped
  <2>5. Undisturbed(ioq, ioq', Others({"probeTimeout"}))
    BY <2>1, <2>2, <2>3, SentElsewhere DEF Typed, IoTyped
  <2>6. QED
    BY <2>4, <2>5
<1>3. DqTyped' /\ ScopeTyped' /\ AcceptorTyped' /\ PeersTyped'
  BY DEF Typed, StateTyped, DqTyped, ScopeTyped, AcceptorTyped, PeersTyped, ProbeTimerExpires,
     Post, acceptorVars, peerVars, DispatcherUnchanged, scopeVars, taskVars, appVars
<1>4. ProbesTyped'
  BY <1>1 DEF Typed, StateTyped, ProbesTyped, ScopeTyped, ProbeStates, ProbeTimerExpires, Post,
     acceptorVars, peerVars, DispatcherUnchanged, scopeVars, taskVars, appVars
<1>5. BudgetTyped'
  BY Spent DEF Typed, StateTyped, BudgetTyped, Bounds, ProbeTimerExpires, Post, acceptorVars,
     peerVars, DispatcherUnchanged, scopeVars, taskVars, appVars
<1>6. QED
  BY <1>2, <1>3, <1>4, <1>5 DEF Typed, StateTyped

LEMMA ProbeAnswersTyped ==
    ASSUME Typed, NEW k \in Probes, ProbeAnswers(k)
    PROVE  /\ Typed'
           /\ Undisturbed(dq, dq', Others({"signal"}))
<1>1. /\ generation \in Nat /\ generation \in 0..generation /\ 0 \in 0..generation
      /\ None \in Known(next)
      /\ k \in Known(next) /\ probes[k].token \in 0..generation
  BY Numbers
<1>2. DqTyped' /\ Undisturbed(dq, dq', Others({"signal"}))
  <2> DEFINE x == <<Signal("answer", k)>>
  <2>1. x \in Seq(DqEntries) /\ ~Has(x, Beyond(generation, next))
    BY <1>1, Made, DqMade, Tokens DEF ProbeAnswers
  <2>2. ~Has(x, Others({"signal"}))
    BY <1>1, Made, DqMade, Touching DEF ProbeAnswers
  <2>3. dq' = dq \o x /\ UNCHANGED <<generation, next>>
    BY Plain DEF Typed, DqTyped, ProbeAnswers, acceptorVars, peerVars, IoUnchanged,
       DispatcherUnchanged, scopeVars, taskVars, appVars
  <2> HIDE DEF x
  <2>4. DqTyped'
    BY <2>1, <2>2, <2>3, DqSent DEF Typed, DqTyped
  <2>5. Undisturbed(dq, dq', Others({"signal"}))
    BY <2>1, <2>2, <2>3, SentElsewhere DEF Typed, DqTyped
  <2>6. QED
    BY <2>4, <2>5
<1>3. IoTyped' /\ ScopeTyped' /\ AcceptorTyped' /\ PeersTyped'
  BY DEF Typed, StateTyped, IoTyped, ScopeTyped, AcceptorTyped, PeersTyped, ProbeAnswers,
     acceptorVars, peerVars, IoUnchanged, DispatcherUnchanged, scopeVars, taskVars, appVars
<1>4. ProbesTyped'
  BY <1>1 DEF Typed, StateTyped, ProbesTyped, ScopeTyped, ProbeStates, ProbeAnswers,
     acceptorVars, peerVars, IoUnchanged, DispatcherUnchanged, scopeVars, taskVars, appVars
<1>5. BudgetTyped'
  BY Spent DEF Typed, StateTyped, BudgetTyped, Bounds, ProbeAnswers, acceptorVars, peerVars,
     IoUnchanged, DispatcherUnchanged, scopeVars, taskVars, appVars
<1>6. QED
  BY <1>2, <1>3, <1>4, <1>5 DEF Typed, StateTyped

\* The end of a probe's connection.
LEMMA ProbeEnded ==
    ASSUME ProbesTyped, NEW k \in Probes, probes' = [probes EXCEPT ![k].state = Ended(@)],
           UNCHANGED <<generation, probe, probePeer>>
    PROVE  /\ ProbesTyped'
           /\ probes'[k].state = Ended(probes[k].state)
           /\ probes'[k].timer = probes[k].timer /\ probes'[k].token = probes[k].token
           /\ \A j \in Probes : j # k => probes'[j] = probes[j]
<1>1. probes[k].state \in ProbeStates
  BY DEF ProbesTyped
<1>2. Ended(probes[k].state) \in ProbeStates
  BY <1>1 DEF Ended, ProbeStates
<1>3. PICK s \in ProbeStates : s = Ended(probes[k].state)
  BY <1>2
<1>4. probes' = [probes EXCEPT ![k].state = s]
  BY <1>3
<1>5. QED
  BY <1>3, <1>4 DEF ProbesTyped

LEMMA ProbeEndsTyped ==
    ASSUME Typed, NEW k \in Probes, ProbeEnds(k)
    PROVE  /\ Typed'
           /\ Undisturbed(dq, dq', Others({"signal"}))
<1>1. /\ generation \in Nat /\ generation \in 0..generation /\ 0 \in 0..generation
      /\ None \in Known(next)
      /\ k \in Known(next) /\ probes[k].token \in 0..generation
  BY Numbers
<1>2. DqTyped' /\ Undisturbed(dq, dq', Others({"signal"}))
  <2> DEFINE x == <<Signal("failed", k)>>
  <2>1. x \in Seq(DqEntries) /\ ~Has(x, Beyond(generation, next))
    BY <1>1, Made, DqMade, Tokens DEF ProbeEnds
  <2>2. ~Has(x, Others({"signal"}))
    BY <1>1, Made, DqMade, Touching DEF ProbeEnds
  <2>3. dq' = dq \o x /\ UNCHANGED <<generation, next>>
    BY Plain DEF Typed, DqTyped, ProbeEnds, acceptorVars, peerVars, DispatcherUnchanged,
       scopeVars, taskVars, appVars
  <2> HIDE DEF x
  <2>4. DqTyped'
    BY <2>1, <2>2, <2>3, DqSent DEF Typed, DqTyped
  <2>5. Undisturbed(dq, dq', Others({"signal"}))
    BY <2>1, <2>2, <2>3, SentElsewhere DEF Typed, DqTyped
  <2>6. QED
    BY <2>4, <2>5
<1>3. IoTyped' /\ ScopeTyped' /\ AcceptorTyped' /\ PeersTyped'
  BY DEF Typed, StateTyped, IoTyped, ScopeTyped, AcceptorTyped, PeersTyped, ProbeEnds,
     acceptorVars, peerVars, DispatcherUnchanged, scopeVars, taskVars, appVars
<1>4. ProbesTyped'
  BY ProbeEnded DEF Typed, StateTyped, ProbeEnds, DispatcherUnchanged, scopeVars
<1>5. BudgetTyped'
  BY Spent DEF Typed, StateTyped, BudgetTyped, Bounds, ProbeEnds, acceptorVars, peerVars,
     DispatcherUnchanged, scopeVars, taskVars, appVars
<1>6. QED
  BY <1>2, <1>3, <1>4, <1>5 DEF Typed, StateTyped

LEMMA RunProbeCloseTyped ==
    ASSUME Typed, RunProbeClose
    PROVE  /\ Typed'
           /\ Undisturbed(dq, dq', Others({"signal"}))
           /\ Undisturbed(ioq, ioq', Others({"probeClose"}))
<1>1. /\ generation \in Nat /\ generation \in 0..generation /\ 0 \in 0..generation
      /\ None \in Known(next)
      /\ ioq # <<>> /\ H \in IoEntries /\ H = Head(ioq)
      /\ H.op \in {"probeClose"}
      /\ H.token \in 0..generation /\ H.who \in Known(next)
      /\ H.who \in Probes
  BY Numbers, Heads, IoRead DEF RunProbeClose, Running, H
<1>2. DqTyped' /\ Undisturbed(dq, dq', Others({"signal"}))
  <2> DEFINE x == IF probes[H.who].state \in {"open", "answered"} THEN <<Signal("failed", H.who)>> ELSE <<>>
  <2>1. x \in Seq(DqEntries) /\ ~Has(x, Beyond(generation, next))
    BY <1>1, Made, DqMade, Tokens, IoRead DEF RunProbeClose, Running
  <2>2. ~Has(x, Others({"signal"}))
    BY <1>1, Made, DqMade, IoRead, Touching DEF RunProbeClose, Running
  <2>3. dq' = dq \o x /\ UNCHANGED <<generation, next>>
    BY Plain DEF Typed, DqTyped, RunProbeClose, Running, Posting, acceptorVars, peerVars,
       IoUnchanged, DispatcherUnchanged, scopeVars, taskVars, appVars
  <2> HIDE DEF x
  <2>4. DqTyped'
    BY <2>1, <2>2, <2>3, DqSent DEF Typed, DqTyped
  <2>5. Undisturbed(dq, dq', Others({"signal"}))
    BY <2>1, <2>2, <2>3, SentElsewhere DEF Typed, DqTyped
  <2>6. QED
    BY <2>4, <2>5
<1>3. IoTyped' /\ Undisturbed(ioq, ioq', Others({"probeClose"}))
  <2>1. <<>> \in Seq(IoEntries) /\ \A A : ~Has(<<>>, A)
    BY Made
  <2>2. ioq # <<>> /\ ioq' = Tail(ioq) \o <<>> /\ UNCHANGED <<generation, next>>
    BY DEF RunProbeClose, Running, Posting, acceptorVars, peerVars, IoUnchanged,
       DispatcherUnchanged, scopeVars, taskVars, appVars
  <2>3. Head(ioq) \notin Others({"probeClose"})
    BY <1>1 DEF Others
  <2>4. IoTyped'
    BY <2>1, <2>2, IoSent DEF Typed, IoTyped
  <2>5. Undisturbed(ioq, ioq', Others({"probeClose"}))
    BY <2>1, <2>2, <2>3, TakenElsewhere DEF Typed, IoTyped
  <2>6. QED
    BY <2>4, <2>5
<1>4. ScopeTyped' /\ AcceptorTyped' /\ PeersTyped'
  BY DEF Typed, StateTyped, ScopeTyped, AcceptorTyped, PeersTyped, RunProbeClose, Running,
     Posting, acceptorVars, peerVars, IoUnchanged, DispatcherUnchanged, scopeVars, taskVars,
     appVars
<1>5. ProbesTyped'
  BY <1>1, ProbeEnded DEF Typed, StateTyped, RunProbeClose, IoUnchanged, DispatcherUnchanged, scopeVars
<1>6. BudgetTyped'
  BY Spent DEF Typed, StateTyped, BudgetTyped, Bounds, RunProbeClose, Running, Posting,
     acceptorVars, peerVars, IoUnchanged, DispatcherUnchanged, scopeVars, taskVars, appVars
<1>7. QED
  BY <1>2, <1>3, <1>4, <1>5, <1>6 DEF Typed, StateTyped

LEMMA KeepAliveTyped ==
    ASSUME Typed, KeepAlive
    PROVE  /\ Typed'
           /\ Undisturbed(ioq, ioq', Others({"keepAlive"}))
<1>1. /\ generation \in Nat /\ generation \in 0..generation /\ 0 \in 0..generation
      /\ None \in Known(next)
      /\ ioq # <<>> /\ H \in IoEntries /\ H = Head(ioq)
      /\ H.op \in {"keepAlive"}
      /\ H.token \in 0..generation /\ H.who \in Known(next)
  BY Numbers, Heads DEF KeepAlive, Running, H
<1>2. IoTyped' /\ Undisturbed(ioq, ioq', Others({"keepAlive"}))
  <2>1. <<>> \in Seq(IoEntries) /\ \A A : ~Has(<<>>, A)
    BY Made
  <2>2. ioq # <<>> /\ ioq' = Tail(ioq) \o <<>> /\ UNCHANGED <<generation, next>>
    BY DEF KeepAlive, Running, Posting, acceptorVars, peerVars, probeVars, IoUnchanged,
       DispatcherUnchanged, scopeVars, taskVars, appVars
  <2>3. Head(ioq) \notin Others({"keepAlive"})
    BY <1>1 DEF Others
  <2>4. IoTyped'
    BY <2>1, <2>2, IoSent DEF Typed, IoTyped
  <2>5. Undisturbed(ioq, ioq', Others({"keepAlive"}))
    BY <2>1, <2>2, <2>3, TakenElsewhere DEF Typed, IoTyped
  <2>6. QED
    BY <2>4, <2>5
<1>3. DqTyped' /\ AcceptorTyped' /\ PeersTyped' /\ ProbesTyped'
  BY DEF Typed, StateTyped, DqTyped, AcceptorTyped, PeersTyped, ProbesTyped, ScopeTyped,
     KeepAlive, Running, Posting, acceptorVars, peerVars, probeVars, IoUnchanged,
     DispatcherUnchanged, scopeVars, taskVars, appVars
<1>4. ScopeTyped'
  BY <1>1, IoRead DEF Typed, StateTyped, ScopeTyped, KeepAlive, Running, Posting, acceptorVars,
     peerVars, probeVars, IoUnchanged, DispatcherUnchanged, scopeVars, taskVars, appVars
<1>5. BudgetTyped'
  BY Spent DEF Typed, StateTyped, BudgetTyped, Bounds, KeepAlive, Running, Posting, acceptorVars,
     peerVars, probeVars, IoUnchanged, DispatcherUnchanged, scopeVars, taskVars, appVars
<1>6. QED
  BY <1>2, <1>3, <1>4, <1>5 DEF Typed, StateTyped

LEMMA DestroyTyped ==
    ASSUME Typed, Destroy
    PROVE  Typed'
<1>1. /\ generation \in Nat /\ generation \in 0..generation /\ 0 \in 0..generation
      /\ None \in Known(next)
  BY Numbers
<1>2. DqTyped' /\ IoTyped' /\ AcceptorTyped' /\ PeersTyped' /\ ProbesTyped'
  BY DEF Typed, StateTyped, DqTyped, IoTyped, AcceptorTyped, PeersTyped, ProbesTyped, ScopeTyped,
     Destroy, acceptorVars, peerVars, probeVars, IoUnchanged, DispatcherUnchanged, scopeVars,
     taskVars, appVars
<1>3. ScopeTyped'
  BY <1>1 DEF Typed, StateTyped, ScopeTyped, Destroy, acceptorVars, peerVars, probeVars,
     IoUnchanged, DispatcherUnchanged, scopeVars, taskVars, appVars
<1>4. BudgetTyped'
  BY Spent DEF Typed, StateTyped, BudgetTyped, Bounds, Destroy, acceptorVars, peerVars,
     probeVars, IoUnchanged, DispatcherUnchanged, scopeVars, taskVars, appVars
<1>5. QED
  BY <1>2, <1>3, <1>4 DEF Typed, StateTyped

LEMMA IdleTyped ==
    ASSUME Typed, UNCHANGED vars
    PROVE  Typed'
BY DEF Typed, DqTyped, IoTyped, StateTyped, ScopeTyped, AcceptorTyped, PeersTyped, ProbesTyped,
   BudgetTyped, vars, scopeVars, taskVars, acceptorVars, peerVars, probeVars, appVars

LEMMA TypedInit == Init => Typed
<1> SUFFICES ASSUME Init PROVE Typed
  OBVIOUS
<1>1. DqTyped /\ IoTyped
  BY Made DEF Init, DqTyped, IoTyped
<1>2. ScopeTyped /\ AcceptorTyped
  BY Made DEF Init, ScopeTyped, AcceptorTyped
<1>3. PeersTyped
  BY DEF Init, PeersTyped, SockStates
<1>4. ProbesTyped
  BY DEF Init, ProbesTyped, ProbeStates
<1>5. BudgetTyped
  BY ServerAssumption DEF Init, BudgetTyped
<1>6. QED
  BY <1>1, <1>2, <1>3, <1>4, <1>5 DEF Typed, StateTyped

\* The actions of the dispatcher thread and of the application.
LEMMA DispatcherTyped ==
    ASSUME Typed,
           \/ \E op \in {"start", "stop"} : Call(op)
           \/ \E id \in Peers : AsyncClosePeer(id)
           \/ DispatcherStep \/ Retry \/ WatchFires \/ Detach
    PROVE  Typed'
BY CallTyped, AsyncClosePeerTyped, StartTyped, EndSessionTyped, PostStopTyped, NotifyTyped,
   NotifyReadyTyped, DispatchSignalTyped, ReportTyped, PeerClosedTyped, DebounceTyped, TimerTyped,
   CheckTyped, PostShutdownTyped, RetryTyped, WatchFiresTyped, DetachTyped DEF DispatcherStep

\* Those of the I/O thread.
LEMMA IoTypedStep ==
    ASSUME Typed, IoStep
    PROVE  Typed'
BY BindTyped, AcceptedTyped, EraseTyped, ClosePeerTyped, RunPeerCloseTyped, ProbeIgnoredTyped,
   ProbeBeginsTyped, ProbeConnectedTyped, ProbeFailedTyped, ProbeAnsweredTyped, RunProbeCloseTyped,
   StopTyped, ShutdownTyped, KeepAliveTyped DEF IoStep

LEMMA TypedStep == Typed /\ [Next]_vars => Typed'
<1> SUFFICES ASSUME Typed, [Next]_vars PROVE Typed'
  OBVIOUS
<1>1. CASE UNCHANGED vars
  BY <1>1, IdleTyped
<1>2. CASE \/ \E op \in {"start", "stop"} : Call(op)
           \/ \E id \in Peers : AsyncClosePeer(id)
           \/ DispatcherStep \/ Retry \/ WatchFires \/ Detach
  BY <1>2, DispatcherTyped
<1>3. CASE IoStep
  BY <1>3, IoTypedStep
<1>4. CASE Destroy \/ \E outcome \in {"ok", "error"} : AcceptCompletes(outcome)
  BY <1>4, DestroyTyped, AcceptCompletesTyped
<1>5. CASE \E id \in Peers : \/ PeerReady(id) \/ PeerReports(id) \/ Release(id)
                            \/ \E failed \in BOOLEAN : PeerEnds(id, failed)
  BY <1>5, PeerReadyTyped, PeerReportsTyped, ReleaseTyped, PeerEndsTyped
<1>6. CASE \E k \in Probes : \/ \E outcome \in {"ok", "failed"} : ProbeConnects(k, outcome)
                             \/ ProbeTimerExpires(k) \/ ProbeAnswers(k) \/ ProbeEnds(k)
                             \/ ReleaseProbe(k)
  BY <1>6, ProbeConnectsTyped, ProbeTimerExpiresTyped, ProbeAnswersTyped, ProbeEndsTyped,
     ReleaseProbeTyped
<1>7. QED
  BY <1>1, <1>2, <1>3, <1>4, <1>5, <1>6 DEF Next, Destroyed

\* ioq, dq and the variables hold what the code puts there, whatever the threads do: among it
\* that no entry is of a session that has not begun, nor of a peer that was not accepted.
THEOREM Types == Spec => []TypeOK
<1>1. Typed => TypeOK
  <2> SUFFICES ASSUME Typed PROVE TypeOK
    OBVIOUS
  <2> DEFINE Good(e) == /\ e.who \in Peers \cup Probes \cup {None}
                        /\ e.token \in 0..generation
                        /\ e.op = "note" => e.what \in {"bound", "bind_failed", "closed", "ready"}
  <2>1. \A e \in ToSet(dq) \cup ToSet(ioq) : Good(e)
    <3>1. ASSUME NEW e \in ToSet(dq)
          PROVE  Good(e)
      <4>1. e \in DqEntries /\ e \notin Beyond(generation, next)
        BY <3>1 DEF Typed, DqTyped, ToSet, Has
      <4>2. e.token \in Nat /\ generation \in Nat
        BY <4>1, DqRead, Numbers
      <4>3. e.token \in 0..generation
        BY <4>1, <4>2 DEF Beyond
      <4>4. QED
        BY <4>1, <4>3, DqRead
    <3>2. ASSUME NEW e \in ToSet(ioq)
          PROVE  Good(e)
      <4>1. e \in IoEntries /\ e \notin Beyond(generation, next)
        BY <3>2 DEF Typed, IoTyped, ToSet, Has
      <4>2. e.token \in Nat /\ generation \in Nat
        BY <4>1, IoRead, Numbers
      <4>3. e.token \in 0..generation
        BY <4>1, <4>2 DEF Beyond
      <4>4. QED
        BY <4>1, <4>3, IoRead
    <3>3. QED
      BY <3>1, <3>2
  <2>2. ToSet(accepting) \subseteq 0..generation
    BY Numbers DEF Typed, StateTyped, AcceptorTyped, Has, Later, ToSet
  <2>3. QED
    BY <2>1, <2>2 DEF TypeOK, Typed, StateTyped, ScopeTyped, AcceptorTyped, PeersTyped, ProbesTyped,
       BudgetTyped
<1>2. Spec => []Typed
  BY TypedInit, TypedStep, PTL DEF Spec
<1>3. QED
  BY <1>1, <1>2, PTL

-----------------------------------------------------------------------------
\* Sessions: what the end of one means to the handlers and the objects of it.

Scopes == {t \in IoEntries : t.op \in {"stop", "shutdown", "keepAlive", "bind", "probe", "accepted"}}

\* A step that neither begins nor ends a session leaves its objects or releases them,
IoCalm ==
    /\ Has(ioq', Enders) <=> Has(ioq, Enders)
    /\ Has(ioq', Io("shutdown")) <=> Has(ioq, Io("shutdown"))
    /\ NotBefore(ioq', Io("shutdown"), Enders)
    /\ NotBefore(ioq', Fresh(generation), Enders)
    /\ dpc = "stop" => ~Has(ioq', Fresh(generation))
    /\ Has(ioq', Io("keepAlive")) => Has(ioq, Io("keepAlive"))

DqCalm ==
    /\ ~attached => ~Has(dq', Scheduled) /\ ~retry' /\ ~watch'
    /\ \A id \in Peers : ~Has(dq', Astray(id, session[id]))

Steady ==
    /\ UNCHANGED <<running, generation, attached, dpc, next, session>>
    /\ life' = "live" <=> life = "live"
    /\ acceptor' => acceptor
    /\ Has(accepting', {generation}) => Has(accepting, {generation})
    /\ peers' \subseteq peers
    /\ \A id \in 1..next : told'[id] \in {"accepted", "connected"} =>
                             told[id] \in {"accepted", "connected"} \/ session[id] = generation
    /\ probe' # None => probe' = probe /\ probes'[probe].token = probes[probe].token

\* and keeps the order of sessions.
LEMMA StillSound ==
    ASSUME Ordered, Sessions, IoCalm, DqCalm, Steady
    PROVE  Ordered' /\ Sessions'
<1>1. Stopping' <=> Stopping
  BY DEF Stopping, Steady, IoCalm
<1>2. Ordered'
  BY DEF Ordered, Steady, IoCalm, DqCalm
<1>3. Sessions'
  <2>1. /\ generation' = generation /\ running' = running /\ next' = next /\ session' = session
        /\ acceptor' => acceptor
        /\ Has(accepting', {generation}) => Has(accepting, {generation})
        /\ peers' \subseteq peers
    BY DEF Steady
  <2>2. /\ Stopping' => ~Has(accepting', {generation'})
        /\ \A id \in 1..next' : session'[id] = generation' => running' /\ ~Stopping'
        /\ \A id \in peers' : session'[id] # generation' => Stopping'
        /\ acceptor' /\ ~running' => Stopping'
    BY <1>1, <2>1 DEF Sessions
  <2>3. probe' # None => (IF probes'[probe'].token = generation' THEN running' /\ ~Stopping' ELSE Stopping')
    BY <1>1, <2>1 DEF Sessions, Steady
  <2>4. \A id \in 1..next' : told'[id] \in {"accepted", "connected"} => session'[id] = generation'
    BY <2>1 DEF Sessions, Steady
  <2>5. \A id \in Peers : ~Has(dq', Astray(id, session'[id]))
    BY <2>1 DEF DqCalm
  <2>6. QED
    BY <2>2, <2>3, <2>4, <2>5 DEF Sessions
<1>4. QED
  BY <1>2, <1>3

LEMMA IoUndisturbed ==
    ASSUME Ordered, Undisturbed(ioq, ioq', Scopes)
    PROVE  IoCalm
<1>1. /\ Enders \in SUBSET Scopes /\ Io("shutdown") \in SUBSET Scopes
      /\ Fresh(generation) \in SUBSET Scopes /\ Io("keepAlive") \in SUBSET Scopes
  BY DEF Enders, Io, Fresh, Scopes
<1>2. /\ \A A \in SUBSET Scopes : Has(ioq', A) <=> Has(ioq, A)
      /\ \A A, B \in SUBSET Scopes : NotBefore(ioq, A, B) => NotBefore(ioq', A, B)
  BY DEF Undisturbed
<1>3. QED
  BY <1>1, <1>2 DEF IoCalm, Ordered

\* A handler that begins or ends no session is over, or one is posted.
LEMMA IoMoved ==
    ASSUME Typed, Ordered, NEW x \in Seq(IoEntries), ~Has(x, Enders), ~Has(x, Io("keepAlive")),
           dpc = "stop" => ~Has(x, Fresh(generation)),
           \/ ioq' = ioq \o x
           \/ ioq # <<>> /\ H \notin Enders /\ ioq' = Tail(ioq) \o x
    PROVE  IoCalm
<1> DEFINE S == Io("shutdown")
           K == Io("keepAlive")
           F == Fresh(generation)
<1>1. S \subseteq Enders
  BY DEF Io, Enders
<1>2. /\ NotBefore(ioq, S, Enders) /\ NotBefore(ioq, F, Enders)
      /\ dpc = "stop" => ~Has(ioq, F)
      /\ ioq \in Seq(IoEntries)
  BY DEF Ordered, Typed, IoTyped
<1>3. ~Has(x, S) /\ ~Has(x, K)
  BY <1>1, Widened
<1>4. NotBefore(x, S, Enders) /\ NotBefore(x, F, Enders)
  BY DEF Has, NotBefore
<1> HIDE DEF S, F, K
<1>5. CASE ioq' = ioq \o x
  <2>1. /\ Has(ioq', S) <=> Has(ioq, S)
        /\ Has(ioq', Enders) <=> Has(ioq, Enders)
        /\ Has(ioq', F) <=> Has(ioq, F) \/ Has(x, F)
        /\ Has(ioq', K) <=> Has(ioq, K)
    BY <1>2, <1>3, <1>5, SentHas
  <2>2. NotBefore(ioq', S, Enders)
    BY <1>2, <1>4, <1>5, Joined
  <2>3. NotBefore(ioq', F, Enders)
    BY <1>2, <1>4, <1>5, Joined
  <2>4. QED
    BY <1>2, <2>1, <2>2, <2>3 DEF IoCalm, S, F, K
<1>6. CASE ioq # <<>> /\ H \notin Enders /\ ioq' = Tail(ioq) \o x
  <2>1. Head(ioq) \notin Enders /\ Head(ioq) \notin S
    BY <1>1, <1>6 DEF H
  <2>2. /\ Has(ioq', S) <=> Has(ioq, S)
        /\ Has(ioq', Enders) <=> Has(ioq, Enders)
        /\ Has(ioq', F) => Has(ioq, F) \/ Has(x, F)
        /\ Has(ioq', K) => Has(ioq, K)
    BY <1>2, <1>3, <1>6, <2>1, TakenHas
  <2>3. NotBefore(ioq', S, Enders)
    BY <1>2, <1>4, <1>6, Taken
  <2>4. NotBefore(ioq', F, Enders)
    BY <1>2, <1>4, <1>6, Taken
  <2>5. QED
    BY <1>2, <2>2, <2>3, <2>4 DEF IoCalm, S, F, K
<1>7. QED
  BY <1>5, <1>6

\* Entries of the state are there only while it is attached.
LEMMA Attended ==
    ASSUME Typed, Ordered, dq # <<>>, E.op # "signal"
    PROVE  attached
<1>1. Has(dq, Scheduled)
  BY Heads, TakenHas, Made DEF Typed, DqTyped, Scheduled, E
<1>2. QED
  BY <1>1 DEF Ordered

LEMMA DqMoved ==
    ASSUME Typed, Ordered, Sessions, NEW x \in Seq(DqEntries),
           ~attached => ~Has(x, Scheduled) /\ ~retry' /\ ~watch',
           \A id \in Peers : ~Has(x, Astray(id, session[id])),
           \/ dq' = dq \o x
           \/ dq # <<>> /\ dq' = Tail(dq) \o x
    PROVE  DqCalm
<1>1. dq \in Seq(DqEntries)
  BY DEF Typed, DqTyped
<1>2. \A A : Has(dq', A) => Has(dq, A) \/ Has(x, A)
  <2>1. CASE dq' = dq \o x
    BY <1>1, <2>1, SentHas
  <2>2. CASE dq # <<>> /\ dq' = Tail(dq) \o x
    BY <1>1, <2>2, TakenHas
  <2>3. QED
    BY <2>1, <2>2
<1>3. QED
  BY <1>2 DEF DqCalm, Ordered, Sessions

\* Entries of other operations come or go.
LEMMA DqUndisturbed ==
    ASSUME Ordered, Sessions, NEW ops, Undisturbed(dq, dq', Others(ops)), "note" \notin ops,
           attached \/ (ops \subseteq {"signal"} /\ UNCHANGED <<retry, watch>>)
    PROVE  DqCalm
<1>1. ASSUME NEW id \in Peers
      PROVE  ~Has(dq', Astray(id, session[id]))
  <2>1. Astray(id, session[id]) \in SUBSET Others(ops)
    BY DEF Astray, Notes, Others
  <2>2. \A A \in SUBSET Others(ops) : Has(dq', A) <=> Has(dq, A)
    BY DEF Undisturbed
  <2>3. QED
    BY <2>1, <2>2 DEF Sessions
<1>2. ASSUME ~attached
      PROVE  ~Has(dq', Scheduled) /\ ~retry' /\ ~watch'
  <2>1. Scheduled \in SUBSET Others(ops)
    BY <1>2 DEF Scheduled, Others
  <2>2. \A A \in SUBSET Others(ops) : Has(dq', A) <=> Has(dq, A)
    BY DEF Undisturbed
  <2>3. QED
    BY <1>2, <2>1, <2>2 DEF Ordered
<1>3. QED
  BY <1>1, <1>2 DEF DqCalm

LEMMA DqErasedCalm ==
    ASSUME Typed, Ordered, Sessions, NEW I \in SUBSET DOMAIN dq, dq' = Selected(dq, I),
           UNCHANGED <<retry, watch>>
    PROVE  DqCalm
<1>1. dq \in Seq(DqEntries)
  BY DEF Typed, DqTyped
<1>2. \A A : Has(dq', A) => Has(dq, A)
  BY <1>1, ErasedHas
<1>3. QED
  BY <1>2 DEF DqCalm, Ordered, Sessions

LEMMA IoElsewhere ==
    ASSUME Ordered, NEW ops, Undisturbed(ioq, ioq', Others(ops)),
           ops \cap {"stop", "shutdown", "keepAlive", "bind", "probe", "accepted"} = {}
    PROVE  IoCalm
<1>1. Scopes \subseteq Others(ops)
  BY DEF Scopes, Others
<1>2. Undisturbed(ioq, ioq', Scopes)
  BY <1>1 DEF Undisturbed
<1>3. QED
  BY <1>2, IoUndisturbed

LEMMA Unmoved ==
    ASSUME Ordered, Sessions
    PROVE  /\ ioq' = ioq => IoCalm
           /\ UNCHANGED <<dq, retry, watch>> => DqCalm
<1>1. ioq' = ioq => IoCalm
  BY Untouched, IoUndisturbed
<1>2. UNCHANGED <<dq, retry, watch>> => DqCalm
  BY DEF DqCalm, Ordered, Sessions
<1>3. QED
  BY <1>1, <1>2

LEMMA CallSound ==
    ASSUME Typed, Ordered, Sessions, NEW op \in {"start", "stop"}, Call(op)
    PROVE  Ordered' /\ Sessions'
<1>1. IoCalm
  BY Unmoved DEF Call, scopeVars, taskVars, acceptorVars, peerVars, probeVars, appVars
<1>2. DqCalm
  <2>1. attached
    BY DEF Call, scopeVars, taskVars, acceptorVars, peerVars, probeVars, appVars
  <2>2. QED
    BY <2>1, CallTyped, DqUndisturbed
<1>3. Steady
  BY DEF Steady, Call, scopeVars, taskVars, acceptorVars, peerVars, probeVars, appVars
<1>4. QED
  BY <1>1, <1>2, <1>3, StillSound

LEMMA AsyncClosePeerSound ==
    ASSUME Typed, Ordered, Sessions, NEW id \in Peers, AsyncClosePeer(id)
    PROVE  Ordered' /\ Sessions'
<1>1. IoCalm
  BY AsyncClosePeerTyped, IoElsewhere
<1>2. DqCalm
  BY Unmoved DEF AsyncClosePeer, Post, scopeVars, taskVars, acceptorVars, peerVars, probeVars,
     appVars
<1>3. Steady
  BY DEF Steady, AsyncClosePeer, Post, scopeVars, taskVars, acceptorVars, peerVars, probeVars,
     appVars
<1>4. QED
  BY <1>1, <1>2, <1>3, StillSound

LEMMA ReportSound ==
    ASSUME Typed, Ordered, Sessions, Report
    PROVE  Ordered' /\ Sessions'
<1>1. IoCalm
  BY Unmoved DEF Report, Dispatching, Dispatched, scopeVars, taskVars, acceptorVars, peerVars,
     probeVars, appVars
<1>2. DqCalm
  <2>1. attached
    BY Attended DEF Report, Dispatching, E
  <2>2. QED
    BY <2>1, ReportTyped, DqUndisturbed
<1>3. Steady
  BY DEF Steady, Report, Dispatching, Dispatched, scopeVars, taskVars, acceptorVars, peerVars,
     probeVars, appVars
<1>4. QED
  BY <1>1, <1>2, <1>3, StillSound

LEMMA PeerClosedSound ==
    ASSUME Typed, Ordered, Sessions, PeerClosed
    PROVE  Ordered' /\ Sessions'
<1>1. IoCalm
  BY Unmoved DEF PeerClosed, Dispatching, Over, Dispatched, scopeVars, taskVars, acceptorVars,
     peerVars, probeVars
<1>2. DqCalm
  <2>1. attached
    BY Attended DEF PeerClosed, Dispatching, E
  <2>2. QED
    BY <2>1, PeerClosedTyped, DqUndisturbed
<1>3. Steady
  BY DEF Steady, PeerClosed, Dispatching, Over, Dispatched, scopeVars, taskVars, acceptorVars,
     peerVars, probeVars
<1>4. QED
  BY <1>1, <1>2, <1>3, StillSound

LEMMA DebounceSound ==
    ASSUME Typed, Ordered, Sessions, Debounce
    PROVE  Ordered' /\ Sessions'
<1>1. IoCalm
  BY Unmoved DEF Debounce, Dispatched, scopeVars, acceptorVars, peerVars, probeVars, appVars
<1>2. DqCalm
  <2>1. attached
    BY Attended DEF Debounce, E
  <2>2. QED
    BY <2>1, DebounceTyped, DqUndisturbed
<1>3. Steady
  BY DEF Steady, Debounce, Dispatched, scopeVars, acceptorVars, peerVars, probeVars, appVars
<1>4. QED
  BY <1>1, <1>2, <1>3, StillSound

LEMMA TimerSound ==
    ASSUME Typed, Ordered, Sessions, Timer
    PROVE  Ordered' /\ Sessions'
<1>1. IoCalm
  BY Unmoved DEF Timer, Dispatched, scopeVars, acceptorVars, peerVars, probeVars, appVars
<1>2. DqCalm
  <2>1. attached
    BY Attended DEF Timer, E
  <2>2. QED
    BY <2>1, TimerTyped, DqUndisturbed
<1>3. Steady
  BY DEF Steady, Timer, Dispatched, scopeVars, acceptorVars, peerVars, probeVars, appVars
<1>4. QED
  BY <1>1, <1>2, <1>3, StillSound

LEMMA WatchFiresSound ==
    ASSUME Typed, Ordered, Sessions, WatchFires
    PROVE  Ordered' /\ Sessions'
<1>1. IoCalm
  BY Unmoved DEF WatchFires, Enqueue, scopeVars, taskVars, acceptorVars, peerVars, probeVars,
     appVars
<1>2. DqCalm
  <2>1. attached
    BY DEF Ordered, WatchFires, Enqueue, scopeVars, taskVars, acceptorVars, peerVars, probeVars,
       appVars
  <2>2. QED
    BY <2>1, WatchFiresTyped, DqUndisturbed
<1>3. Steady
  BY DEF Steady, WatchFires, Enqueue, scopeVars, taskVars, acceptorVars, peerVars, probeVars,
     appVars
<1>4. QED
  BY <1>1, <1>2, <1>3, StillSound

LEMMA PeerReadySound ==
    ASSUME Typed, Ordered, Sessions, NEW id \in Peers, PeerReady(id)
    PROVE  Ordered' /\ Sessions'
<1>1. IoCalm
  BY Unmoved DEF PeerReady, acceptorVars, probeVars, IoUnchanged, DispatcherUnchanged, scopeVars,
     taskVars, appVars
<1>2. DqCalm
  <2>1. UNCHANGED <<retry, watch>>
    BY DEF PeerReady, acceptorVars, probeVars, IoUnchanged, DispatcherUnchanged, scopeVars,
       taskVars, appVars
  <2>2. QED
    BY <2>1, PeerReadyTyped, DqUndisturbed
<1>3. Steady
  BY DEF Steady, PeerReady, acceptorVars, probeVars, IoUnchanged, DispatcherUnchanged, scopeVars,
     taskVars, appVars
<1>4. QED
  BY <1>1, <1>2, <1>3, StillSound

LEMMA PeerReportsSound ==
    ASSUME Typed, Ordered, Sessions, NEW id \in Peers, PeerReports(id)
    PROVE  Ordered' /\ Sessions'
<1>1. IoCalm
  BY Unmoved DEF PeerReports, acceptorVars, peerVars, probeVars, DispatcherUnchanged, scopeVars,
     taskVars, appVars
<1>2. DqCalm
  <2>1. UNCHANGED <<retry, watch>>
    BY DEF PeerReports, acceptorVars, peerVars, probeVars, DispatcherUnchanged, scopeVars,
       taskVars, appVars
  <2>2. QED
    BY <2>1, PeerReportsTyped, DqUndisturbed
<1>3. Steady
  BY DEF Steady, PeerReports, acceptorVars, peerVars, probeVars, DispatcherUnchanged, scopeVars,
     taskVars, appVars
<1>4. QED
  BY <1>1, <1>2, <1>3, StillSound

LEMMA EraseSound ==
    ASSUME Typed, Ordered, Sessions, Erase
    PROVE  Ordered' /\ Sessions'
<1>1. IoCalm
  BY EraseTyped, IoElsewhere
<1>2. DqCalm
  BY Unmoved DEF Erase, Running, Locked, Posting, acceptorVars, probeVars, IoUnchanged,
     DispatcherUnchanged, scopeVars, taskVars, appVars
<1>3. Steady
  BY DEF Steady, Erase, Running, Locked, Posting, acceptorVars, probeVars, IoUnchanged,
     DispatcherUnchanged, scopeVars, taskVars, appVars
<1>4. QED
  BY <1>1, <1>2, <1>3, StillSound

LEMMA ClosePeerSound ==
    ASSUME Typed, Ordered, Sessions, ClosePeer
    PROVE  Ordered' /\ Sessions'
<1>1. IoCalm
  BY ClosePeerTyped, IoElsewhere
<1>2. DqCalm
  BY Unmoved DEF ClosePeer, Running, Locked, AsyncClose, Posting, acceptorVars, probeVars,
     IoUnchanged, DispatcherUnchanged, scopeVars, taskVars, appVars
<1>3. Steady
  BY DEF Steady, ClosePeer, Running, Locked, AsyncClose, Posting, acceptorVars, probeVars,
     IoUnchanged, DispatcherUnchanged, scopeVars, taskVars, appVars
<1>4. QED
  BY <1>1, <1>2, <1>3, StillSound

LEMMA ProbeTimerExpiresSound ==
    ASSUME Typed, Ordered, Sessions, NEW k \in Probes, ProbeTimerExpires(k)
    PROVE  Ordered' /\ Sessions'
<1>1. IoCalm
  BY ProbeTimerExpiresTyped, IoElsewhere
<1>2. DqCalm
  BY Unmoved DEF ProbeTimerExpires, Post, acceptorVars, peerVars, DispatcherUnchanged, scopeVars,
     taskVars, appVars
<1>3. Steady
  BY DEF Steady, ProbeTimerExpires, Post, acceptorVars, peerVars, DispatcherUnchanged, scopeVars,
     taskVars, appVars
<1>4. QED
  BY <1>1, <1>2, <1>3, StillSound

LEMMA ProbeAnswersSound ==
    ASSUME Typed, Ordered, Sessions, NEW k \in Probes, ProbeAnswers(k)
    PROVE  Ordered' /\ Sessions'
<1>1. IoCalm
  BY Unmoved DEF ProbeAnswers, acceptorVars, peerVars, IoUnchanged, DispatcherUnchanged,
     scopeVars, taskVars, appVars
<1>2. DqCalm
  <2>1. UNCHANGED <<retry, watch>>
    BY DEF ProbeAnswers, acceptorVars, peerVars, IoUnchanged, DispatcherUnchanged, scopeVars,
       taskVars, appVars
  <2>2. QED
    BY <2>1, ProbeAnswersTyped, DqUndisturbed
<1>3. Steady
  BY DEF Steady, ProbeAnswers, acceptorVars, peerVars, IoUnchanged, DispatcherUnchanged,
     scopeVars, taskVars, appVars
<1>4. QED
  BY <1>1, <1>2, <1>3, StillSound

LEMMA ProbeEndsSound ==
    ASSUME Typed, Ordered, Sessions, NEW k \in Probes, ProbeEnds(k)
    PROVE  Ordered' /\ Sessions'
<1>1. IoCalm
  BY Unmoved DEF ProbeEnds, acceptorVars, peerVars, DispatcherUnchanged, scopeVars, taskVars,
     appVars
<1>2. DqCalm
  <2>1. UNCHANGED <<retry, watch>>
    BY DEF ProbeEnds, acceptorVars, peerVars, DispatcherUnchanged, scopeVars, taskVars, appVars
  <2>2. QED
    BY <2>1, ProbeEndsTyped, DqUndisturbed
<1>3. Steady
  BY DEF Steady, ProbeEnds, acceptorVars, peerVars, DispatcherUnchanged, scopeVars, taskVars,
     appVars
<1>4. QED
  BY <1>1, <1>2, <1>3, StillSound

LEMMA RunProbeCloseSound ==
    ASSUME Typed, Ordered, Sessions, RunProbeClose
    PROVE  Ordered' /\ Sessions'
<1>1. IoCalm
  BY RunProbeCloseTyped, IoElsewhere
<1>2. DqCalm
  <2>1. UNCHANGED <<retry, watch>>
    BY DEF RunProbeClose, Running, Posting, acceptorVars, peerVars, IoUnchanged,
       DispatcherUnchanged, scopeVars, taskVars, appVars
  <2>2. QED
    BY <2>1, RunProbeCloseTyped, DqUndisturbed
<1>3. Steady
  BY DEF Steady, RunProbeClose, Running, Posting, acceptorVars, peerVars, IoUnchanged,
     DispatcherUnchanged, scopeVars, taskVars, appVars
<1>4. QED
  BY <1>1, <1>2, <1>3, StillSound

LEMMA DestroySound ==
    ASSUME Typed, Ordered, Sessions, Destroy
    PROVE  Ordered' /\ Sessions'
<1>1. IoCalm
  BY Unmoved DEF Destroy, acceptorVars, peerVars, probeVars, IoUnchanged, DispatcherUnchanged,
     scopeVars, taskVars, appVars
<1>2. DqCalm
  BY Unmoved DEF Destroy, acceptorVars, peerVars, probeVars, IoUnchanged, DispatcherUnchanged,
     scopeVars, taskVars, appVars
<1>3. Steady
  BY DEF Steady, Destroy, acceptorVars, peerVars, probeVars, IoUnchanged, DispatcherUnchanged,
     scopeVars, taskVars, appVars
<1>4. QED
  BY <1>1, <1>2, <1>3, StillSound

LEMMA RetrySound ==
    ASSUME Typed, Ordered, Sessions, Retry
    PROVE  Ordered' /\ Sessions'
<1>1. IoCalm
  <2> DEFINE e == With("bind", generation)
             x == IF running THEN <<e>> ELSE <<>>
  <2>0. e \in IoEntries /\ e \notin Enders /\ e \notin Io("keepAlive")
    BY Numbers, IoMade DEF With, Entry, Enders, Io
  <2> HIDE DEF e
  <2>1. x \in Seq(IoEntries)
    BY <2>0, Made
  <2>2. ~Has(x, Enders) /\ ~Has(x, Io("keepAlive"))
    BY <2>0, Made
  <2>3. dpc = "idle" /\ ioq' = ioq \o x
    BY Plain DEF Retry, Post, e
  <2> HIDE DEF x
  <2>4. QED
    BY <2>1, <2>2, <2>3, IoMoved
<1>2. DqCalm
  BY DEF DqCalm, Ordered, Sessions, Retry, taskVars
<1>3. Steady
  BY DEF Steady, Retry, scopeVars, acceptorVars, peerVars, probeVars, appVars
<1>4. QED
  BY <1>1, <1>2, <1>3, StillSound

LEMMA CheckSound ==
    ASSUME Typed, Ordered, Sessions, Check
    PROVE  Ordered' /\ Sessions'
<1>1. IoCalm
  <2> DEFINE e == With("probe", generation)
             x == <<e>>
  <2>0. e \in IoEntries /\ e \notin Enders /\ e \notin Io("keepAlive")
    BY Numbers, IoMade DEF With, Entry, Enders, Io
  <2> HIDE DEF e
  <2>1. x \in Seq(IoEntries)
    BY <2>0, Made
  <2>2. ~Has(x, Enders) /\ ~Has(x, Io("keepAlive"))
    BY <2>0, Made
  <2>3. dpc = "idle" /\ ioq' = ioq \o x
    BY DEF Check, Post, Dispatching, e
  <2> HIDE DEF x
  <2>4. QED
    BY <2>1, <2>2, <2>3, IoMoved
<1>2. DqCalm
  <2>1. attached
    BY Attended DEF Check, Dispatching, E
  <2>2. QED
    BY <2>1, CheckTyped, DqUndisturbed
<1>3. Steady
  BY DEF Steady, Check, scopeVars, acceptorVars, peerVars, probeVars, appVars
<1>4. QED
  BY <1>1, <1>2, <1>3, StillSound

\* A handler that is over and posts nothing.
LEMMA IoOver ==
    ASSUME Typed, Ordered, ioq # <<>>, H.op \notin {"stop", "shutdown"}, ioq' = Tail(ioq) \o <<>>
    PROVE  IoCalm
<1>1. H \notin Enders
  BY DEF Enders
<1>2. <<>> \in Seq(IoEntries) /\ \A A : ~Has(<<>>, A)
  BY Made
<1>3. QED
  BY <1>1, <1>2, IoMoved

LEMMA KeepAliveSound ==
    ASSUME Typed, Ordered, Sessions, KeepAlive
    PROVE  Ordered' /\ Sessions'
<1>1. ioq # <<>> /\ H.op = "keepAlive" /\ ioq' = Tail(ioq) \o <<>>
  BY DEF KeepAlive, Running, Posting, H
<1>2. IoCalm
  BY <1>1, IoOver
<1>3. DqCalm
  BY Unmoved DEF KeepAlive, IoUnchanged, DispatcherUnchanged, taskVars
<1>4. life # "live" /\ life' # "live"
  <2>1. H \in Io("keepAlive") /\ H = Head(ioq)
    BY <1>1, Heads DEF Io, H
  <2>2. Has(ioq, Io("keepAlive"))
    BY <1>1, <2>1, TakenHas, Made DEF Typed, IoTyped
  <2>3. QED
    BY <2>2 DEF Ordered, KeepAlive
<1>5. Steady
  BY <1>4 DEF Steady, KeepAlive, IoUnchanged, DispatcherUnchanged, scopeVars, acceptorVars, peerVars,
     probeVars, appVars
<1>6. QED
  BY <1>2, <1>3, <1>5, StillSound

LEMMA ProbeIgnoredSound ==
    ASSUME Typed, Ordered, Sessions, ProbeIgnored
    PROVE  Ordered' /\ Sessions'
<1>1. ioq # <<>> /\ H.op = "probe" /\ ioq' = Tail(ioq) \o <<>>
  BY DEF ProbeIgnored, Running, Posting, H
<1>2. IoCalm
  BY <1>1, IoOver
<1>3. DqCalm
  BY Unmoved DEF ProbeIgnored, IoUnchanged, DispatcherUnchanged, taskVars
<1>4. Steady
  BY DEF Steady, ProbeIgnored, IoUnchanged, DispatcherUnchanged, scopeVars, acceptorVars, peerVars,
     probeVars, appVars
<1>5. QED
  BY <1>2, <1>3, <1>4, StillSound

LEMMA NotifySound ==
    ASSUME Typed, Ordered, Sessions, Notify
    PROVE  Ordered' /\ Sessions'
<1>1. IoCalm
  BY Unmoved DEF Notify
<1>2. DqCalm
  <2> DEFINE x == IF attached /\ IsCurrent(E.token) THEN Followups(E.what) ELSE <<>>
  <2>1. x \in Seq(DqEntries)
    BY Made, DqMade, Heads, DqRead DEF Notify, Dispatching, Followups, Retried, E
  <2>2. \A id \in Peers : ~Has(x, Astray(id, session[id]))
    <3>1. \A op, id, n : op # "note" => Do(op) \notin Astray(id, n)
      BY DEF Do, Entry, Astray, Notes
    <3>2. x \in {<<>>, <<Do("timerStart")>>, <<Do("timerStop"), Do("debounce")>>}
      BY DEF Followups, Retried
    <3>3. \A op \in {"timerStart", "timerStop", "debounce"} : Do(op) \in DqEntries
      BY DqMade
    <3> HIDE DEF x
    <3>4. QED
      BY <3>1, <3>2, <3>3, Made
  <2>3. attached
    BY Attended DEF Notify, Dispatching, E
  <2>4. dq # <<>> /\ dq' = Tail(dq) \o x
    BY DEF Notify, Dispatching, Dispatched
  <2> HIDE DEF x
  <2>5. QED
    BY <2>1, <2>2, <2>3, <2>4, DqMoved
<1>3. Steady
  BY DEF Steady, Notify, scopeVars, acceptorVars, peerVars, probeVars
<1>4. QED
  BY <1>1, <1>2, <1>3, StillSound

LEMMA NotifyReadySound ==
    ASSUME Typed, Ordered, Sessions, NEW answer \in {"verified", "refused"}, NotifyReady(answer)
    PROVE  Ordered' /\ Sessions'
<1>1. IoCalm
  BY NotifyReadyTyped, IoElsewhere
<1>2. DqCalm
  <2>1. attached
    BY Attended DEF NotifyReady, Dispatching, E
  <2>2. <<>> \in Seq(DqEntries) /\ \A A : ~Has(<<>>, A)
    BY Made
  <2>3. dq # <<>> /\ dq' = Tail(dq) \o <<>>
    BY DEF NotifyReady, Dispatching, Dispatched
  <2>4. QED
    BY <2>1, <2>2, <2>3, DqMoved
<1>3. E.who \in Peers /\ session[E.who] = generation
  <2>1. /\ E \in DqEntries /\ E.op = "note" /\ E.what = "ready" /\ E.token = generation /\ dq # <<>>
        /\ E = Head(dq)
    BY Heads DEF NotifyReady, Dispatching, IsCurrent, E
  <2>2. E.who \in Peers
    BY <2>1, DqRead
  <2>3. E \notin Astray(E.who, session[E.who])
    BY <2>1, <2>2, TakenHas, Made DEF Sessions, Typed, DqTyped
  <2>4. QED
    BY <2>1, <2>2, <2>3 DEF Astray, Notes
<1>4. Steady
  <2> DEFINE k == E.who
  <2>1. /\ told' \in {told, [told EXCEPT ![k] = "connected"]}
        /\ UNCHANGED <<running, generation, attached, dpc, next, session, life, acceptor, accepting,
                      peers, probe, probes>>
    BY DEF NotifyReady, scopeVars, acceptorVars, peerVars, probeVars
  <2> HIDE DEF k
  <2>2. session[k] = generation
    BY <1>3 DEF k
  <2>3. told \in [Peers -> {"unknown", "accepted", "connected", "closed", "over"}]
    BY DEF Typed, StateTyped, PeersTyped
  <2>4. \A id \in 1..next : told'[id] \in {"accepted", "connected"} =>
                             told[id] \in {"accepted", "connected"} \/ session[id] = generation
    BY <2>1, <2>2, <2>3, Numbers
  <2>5. QED
    BY <2>1, <2>4 DEF Steady
<1>5. QED
  BY <1>1, <1>2, <1>4, StillSound

\* A handler of the current session that is about to begin something: no end of it is on its way.
LEMMA FreshHead ==
    ASSUME Typed, Ordered, ioq # <<>>, H.op \in {"bind", "probe", "accepted"}, IsCurrent(H.token)
    PROVE  running /\ ~Stopping /\ H.token = generation
<1>1. running /\ H.token = generation
  BY DEF IsCurrent
<1>2. H \in Fresh(generation) /\ H \notin Enders /\ H = Head(ioq)
  BY <1>1, Heads DEF Fresh, Enders, H
<1>3. ~Has(ioq, Enders)
  <2> DEFINE F == Fresh(generation)
  <2>1. H \in F /\ H \notin Enders /\ NotBefore(ioq, F, Enders) /\ ioq \in Seq(IoEntries)
    BY <1>2 DEF Ordered, Typed, IoTyped
  <2> HIDE DEF F
  <2>2. QED
    BY <1>2, <2>1, Popped
<1>4. dpc # "stop"
  BY <1>1 DEF Ordered
<1>5. QED
  BY <1>1, <1>3, <1>4 DEF Stopping

\* Something begins in the current session.
LEMMA SoundWhile ==
    ASSUME Ordered, IoCalm, running, ~Stopping,
           UNCHANGED <<running, generation, attached, dpc, life>>,
           ~attached => ~Has(dq', Scheduled) /\ ~retry' /\ ~watch',
           \A id \in Peers : ~Has(dq', Astray(id, session'[id])),
           \A id \in peers' : session'[id] = generation,
           probe' # None => probes'[probe'].token = generation,
           \A id \in 1..next' : told'[id] \in {"accepted", "connected"} => session'[id] = generation
    PROVE  Ordered' /\ Sessions'
<1>1. ~Stopping' /\ running'
  BY DEF Stopping, IoCalm
<1>2. Ordered'
  BY DEF Ordered, IoCalm
<1>3. Sessions'
  BY <1>1 DEF Sessions
<1>4. QED
  BY <1>2, <1>3

LEMMA SignalsOnly ==
    /\ \A w, k : Signal(w, k) \notin Scheduled
    /\ \A w, k, id, n : Signal(w, k) \notin Astray(id, n)
BY DEF Signal, Entry, Scheduled, Astray, Notes

LEMMA NoteSent ==
    ASSUME Typed, Ordered, Sessions, UNCHANGED <<retry, watch>>,
           NEW n \in Nat, NEW w \in {"bound", "bind_failed", "closed"},
           Enqueue(<<Note(w, None, n)>>)
    PROVE  DqCalm
<1> DEFINE e == Note(w, None, n)
           x == IF attached THEN <<e>> ELSE <<>>
<1>1. e \in DqEntries
  BY DqMade
<1>2. \A id, g : e \notin Astray(id, g)
  BY DEF Note, Entry, Astray, Notes
<1>3. dq' = dq \o x
  BY Plain DEF Enqueue, Typed, DqTyped
<1> HIDE DEF e
<1>4. /\ x \in Seq(DqEntries) /\ \A id \in Peers : ~Has(x, Astray(id, session[id]))
      /\ ~attached => ~Has(x, Scheduled)
  BY <1>1, <1>2, Made
<1> HIDE DEF x
<1>5. ~attached => ~retry /\ ~watch
  BY DEF Ordered
<1>6. QED
  BY <1>3, <1>4, <1>5, DqMoved

LEMMA BindSound ==
    ASSUME Typed, Ordered, Sessions, NEW outcome \in {"bound", "bind_failed", "ignored"}, Bind(outcome)
    PROVE  Ordered' /\ Sessions'
<1>1. /\ ioq # <<>> /\ H.op = "bind" /\ ioq' = Tail(ioq) \o <<>> /\ H.token \in Nat
      /\ UNCHANGED <<running, generation, attached, dpc, retry, watch, told, next, peers, session,
                     probe, probes, life>>
  <2>1. H.token \in Nat
    BY Heads, IoRead DEF Bind, Running
  <2>2. QED
    BY <2>1 DEF Bind, Running, Posting, H, DispatcherUnchanged, scopeVars, taskVars, appVars,
       peerVars, probeVars
<1>2. IoCalm
  BY <1>1, IoOver
<1>3. CASE UNCHANGED <<acceptorVars, dq>>
  <2>1. DqCalm
    BY <1>1, <1>3, Unmoved
  <2>2. Steady
    BY <1>1, <1>3 DEF Steady, acceptorVars
  <2>3. QED
    BY <1>2, <2>1, <2>2, StillSound
<1>4. CASE CloseAcceptor /\ Enqueue(<<Note("bind_failed", None, H.token)>>)
  <2>1. DqCalm
    BY <1>1, <1>4, NoteSent
  <2>2. Steady
    BY <1>1, <1>4, Literals DEF Steady, CloseAcceptor
  <2>3. QED
    BY <1>2, <2>1, <2>2, StillSound
<1>5. CASE MayBind /\ Enqueue(<<Note("bound", None, H.token)>>)
  <2>1. running /\ ~Stopping
    BY <1>1, <1>5, FreshHead DEF MayBind
  <2>2. DqCalm
    BY <1>1, <1>5, NoteSent
  <2>3. \A id \in peers : session[id] = generation
    BY <2>1 DEF Sessions
  <2>4. probe # None => probes[probe].token = generation
    BY <2>1 DEF Sessions
  <2>5. \A id \in 1..next : told[id] \in {"accepted", "connected"} => session[id] = generation
    BY DEF Sessions
  <2>6. QED
    BY <1>1, <1>2, <2>1, <2>2, <2>3, <2>4, <2>5, SoundWhile DEF DqCalm
<1>6. QED
  BY <1>3, <1>4, <1>5 DEF Bind

LEMMA AcceptCompletesSound ==
    ASSUME Typed, Ordered, Sessions, NEW outcome \in {"ok", "error"}, AcceptCompletes(outcome)
    PROVE  Ordered' /\ Sessions'
<1> DEFINE n == Head(accepting)
           e == Entry("accepted", None, n, outcome)
<1>1. accepting \in Seq(Nat) /\ accepting # <<>> /\ accepting' = Tail(accepting)
  BY DEF Typed, StateTyped, AcceptorTyped, AcceptCompletes
<1>2. n \in Nat /\ \A A : (Has(accepting, A) <=> n \in A \/ Has(accepting', A))
  BY <1>1, Popped
<1>3. e \in IoEntries /\ e \notin Enders /\ e \notin Io("keepAlive")
      /\ (e \in Fresh(generation) => n = generation)
  BY <1>2, IoMade DEF Entry, Enders, Io, Fresh
<1>4. dpc = "stop" => e \notin Fresh(generation)
  BY <1>2, <1>3 DEF Sessions, Stopping
<1>5. ioq' = ioq \o <<e>>
  BY DEF AcceptCompletes, Post
<1> HIDE DEF e, n
<1>6. IoCalm
  BY <1>3, <1>4, <1>5, Made, IoMoved
<1>7. DqCalm
  BY Unmoved DEF AcceptCompletes, DispatcherUnchanged, taskVars
<1>8. Steady
  BY <1>2 DEF Steady, AcceptCompletes, DispatcherUnchanged, scopeVars, peerVars, probeVars, appVars
<1>9. QED
  BY <1>6, <1>7, <1>8, StillSound

LEMMA AcceptedSound ==
    ASSUME Typed, Ordered, Sessions, Accepted
    PROVE  Ordered' /\ Sessions'
<1>1. /\ ioq # <<>> /\ H.op = "accepted" /\ ioq' = Tail(ioq) \o <<>> /\ H.token \in Nat
      /\ UNCHANGED <<running, generation, attached, dpc, retry, watch, probe, probes, life>>
  <2>1. H.token \in Nat
    BY Heads, IoRead DEF Accepted, Running
  <2>2. QED
    BY <2>1 DEF Accepted, Running, Posting, H, scopeVars, taskVars, probeVars
<1>2. IoCalm
  BY <1>1, IoOver
<1>3. CASE UNCHANGED <<dq, acceptorVars, peerVars, appVars>>
  <2>1. DqCalm
    BY <1>1, <1>3, Unmoved
  <2>2. Steady
    BY <1>1, <1>3 DEF Steady, acceptorVars, peerVars, appVars
  <2>3. QED
    BY <1>2, <2>1, <2>2, StillSound
<1>4. CASE CloseAcceptor /\ Enqueue(<<Note("closed", None, H.token)>>) /\ UNCHANGED <<peerVars, appVars>>
  <2>1. DqCalm
    BY <1>1, <1>4, NoteSent
  <2>2. Steady
    BY <1>1, <1>4, Literals DEF Steady, CloseAcceptor, peerVars, appVars
  <2>3. QED
    BY <1>2, <2>1, <2>2, StillSound
<1>5. CASE /\ IsCurrent(H.token) /\ next + 1 \in Peers /\ next' = next + 1 /\ dq' = dq
           /\ peers' = peers \cup {next + 1}
           /\ session' = [session EXCEPT ![next + 1] = H.token]
           /\ told' = [told EXCEPT ![next + 1] = "accepted"]
  <2>1. running /\ ~Stopping /\ H.token = generation
    BY <1>1, <1>5, FreshHead
  <2>2. next \in Nat /\ peers \subseteq 1..next /\ 1..next \subseteq Peers
    BY Numbers
  <2>3. session \in [Peers -> 0..generation] /\ DOMAIN told = Peers
    BY DEF Typed, StateTyped, PeersTyped
  <2>4. \A id \in 1..next : session'[id] = session[id] /\ told'[id] = told[id]
    BY <1>5, <2>2, <2>3
  <2>5. session'[next + 1] = generation
    BY <1>5, <2>1, <2>3
  <2>6. \A id \in peers' : session'[id] = generation
    BY <1>5, <2>1, <2>2, <2>4, <2>5 DEF Sessions
  <2>7. \A id \in 1..next' : told'[id] \in {"accepted", "connected"} => session'[id] = generation
    <3>1. \A id \in 1..next' : id \in 1..next \/ id = next + 1
      BY <1>5, <2>2
    <3>2. QED
      BY <2>4, <2>5, <3>1 DEF Sessions
  <2>8. probe # None => probes[probe].token = generation
    BY <2>1 DEF Sessions
  <2>9. ASSUME NEW id \in Peers
        PROVE  ~Has(dq', Astray(id, session'[id]))
    <3>1. CASE id # next + 1
      BY <1>5, <2>3, <3>1 DEF Sessions
    <3>2. CASE id = next + 1
      <4>1. id \notin Known(next)
        BY <2>2, <3>2, Numbers
      <4>2. Astray(id, session'[id]) \subseteq Beyond(generation, next)
        BY <4>1 DEF Astray, Notes, Beyond
      <4>3. QED
        BY <1>5, <4>2, Widened DEF Typed, DqTyped
    <3>3. QED
      BY <3>1, <3>2
  <2>10. ~attached => ~Has(dq', Scheduled) /\ ~retry' /\ ~watch'
    BY <1>1, <1>5 DEF Ordered
  <2>11. QED
    BY <1>1, <1>2, <2>1, <2>6, <2>7, <2>8, <2>9, <2>10, SoundWhile
<1>6. QED
  BY <1>3, <1>4, <1>5 DEF Accepted

LEMMA ProbeBeginsSound ==
    ASSUME Typed, Ordered, Sessions, NEW k \in Probes, ProbeBegins(k)
    PROVE  Ordered' /\ Sessions'
<1>1. /\ ioq # <<>> /\ H.op = "probe" /\ ioq' = Tail(ioq) \o <<>> /\ IsCurrent(H.token)
      /\ UNCHANGED <<running, generation, attached, dpc, dq, retry, watch, told, next, peers, session,
                     life>>
      /\ probe' = k /\ probes' = [probes EXCEPT ![k] = [state |-> "connecting", timer |-> TRUE, token |-> H.token]]
  BY DEF ProbeBegins, Running, Posting, H, MayProbe, DispatcherUnchanged, scopeVars, taskVars,
     appVars, peerVars
<1>2. IoCalm
  BY <1>1, IoOver
<1>3. running /\ ~Stopping /\ H.token = generation
  BY <1>1, FreshHead
<1>4. probes'[probe'].token = generation
  BY <1>1, <1>3 DEF Typed, StateTyped, ProbesTyped
<1>5. \A id \in peers : session[id] = generation
  BY <1>3 DEF Sessions
<1>6. \A id \in 1..next : told[id] \in {"accepted", "connected"} => session[id] = generation
  BY DEF Sessions
<1>7. DqCalm
  BY <1>1, Unmoved
<1>8. QED
  BY <1>1, <1>2, <1>3, <1>4, <1>5, <1>6, <1>7, SoundWhile DEF DqCalm

LEMMA PeerEndsSound ==
    ASSUME Typed, Ordered, Sessions, NEW id \in Peers, NEW failed \in BOOLEAN, PeerEnds(id, failed)
    PROVE  Ordered' /\ Sessions'
<1> DEFINE r == Signal("report", id)
           c == Signal("closed", id)
           x == IF failed THEN <<r, c>> ELSE <<c>>
<1>1. /\ r \in DqEntries /\ c \in DqEntries /\ r \notin Scheduled /\ c \notin Scheduled
      /\ \A k, n : r \notin Astray(k, n) /\ c \notin Astray(k, n)
  BY DqMade, SignalsOnly
<1>2. dq' = dq \o x
  BY Plain, <1>1 DEF PeerEnds, LastWords, Typed, DqTyped
<1>3. /\ UNCHANGED <<retry, watch, ioq>> /\ Steady
  BY DEF PeerEnds, DispatcherUnchanged, taskVars, Steady, scopeVars, acceptorVars, probeVars, appVars
<1> HIDE DEF r, c
<1>4. /\ x \in Seq(DqEntries) /\ ~Has(x, Scheduled)
      /\ \A k \in Peers : ~Has(x, Astray(k, session[k]))
  BY <1>1, Made
<1> HIDE DEF x
<1>5. DqCalm
  <2>1. ~attached => ~retry' /\ ~watch'
    BY <1>3 DEF Ordered
  <2>2. QED
    BY <1>2, <1>4, <2>1, DqMoved
<1>6. QED
  BY <1>3, <1>5, Unmoved, StillSound

LEMMA ProbeConnectsSound ==
    ASSUME Typed, Ordered, Sessions, NEW k \in Probes, NEW outcome \in {"ok", "failed"},
           ProbeConnects(k, outcome)
    PROVE  Ordered' /\ Sessions'
<1> DEFINE e == Entry("probeConnected", k, probes[k].token, outcome)
<1>1. e \in IoEntries /\ e \notin Enders /\ e \notin Io("keepAlive") /\ e \notin Fresh(generation)
  <2>1. probes[k].token \in Nat
    BY Numbers
  <2>2. QED
    BY <2>1, IoMade DEF Entry, Enders, Io, Fresh
<1>2. ioq' = ioq \o <<e>>
  BY DEF ProbeConnects, Post
<1> HIDE DEF e
<1>3. IoCalm
  BY <1>1, <1>2, Made, IoMoved
<1>4. DqCalm
  BY Unmoved DEF ProbeConnects, DispatcherUnchanged, taskVars
<1>5. Steady
  BY DEF Steady, ProbeConnects, DispatcherUnchanged, scopeVars, acceptorVars, peerVars, appVars, Typed,
     StateTyped, ProbesTyped
<1>6. QED
  BY <1>3, <1>4, <1>5, StillSound

\* What is posted to close the peer of a probe.
LEMMA ProbeClosedCalm ==
    ASSUME Typed, Ordered, ioq # <<>>, H.op \notin {"stop", "shutdown"},
           ioq' = Tail(ioq) \o ProbeClosed
    PROVE  IoCalm
<1>1. /\ ProbeClosed \in Seq(IoEntries)
      /\ \A A : Has(ProbeClosed, A) <=> probePeer # None /\ About("probeClose", probePeer) \in A
  BY ProbeToClose
<1>2. \A k : /\ About("probeClose", k) \notin Enders /\ About("probeClose", k) \notin Io("keepAlive")
             /\ About("probeClose", k) \notin Fresh(generation)
  BY DEF About, Entry, Enders, Io, Fresh
<1>3. H \notin Enders
  BY DEF Enders
<1>4. QED
  BY <1>1, <1>2, <1>3, IoMoved

\* A probe that failed closes the acceptor, if it is the current one.
LEMMA HandleFailedSound ==
    ASSUME Typed, Ordered, Sessions, NEW k \in Probes, NEW f \in ProbeTable, HandleFailed(k, f),
           \A j \in Probes : f[j].token = probes[j].token,
           ioq # <<>>, H.op \notin {"stop", "shutdown"},
           UNCHANGED <<running, generation, attached, dpc, retry, watch, told, next, peers, session, life>>
    PROVE  Ordered' /\ Sessions'
<1>1. CASE Current(k)
  <2>1. /\ probe' = None /\ ioq' = Tail(ioq) \o ProbeClosed /\ CloseAcceptor
        /\ Enqueue(<<Note("closed", None, probes[k].token)>>)
    BY <1>1 DEF HandleFailed, CloseProbe, Posting
  <2>2. probes[k].token \in Nat
    BY Numbers
  <2>3. DqCalm
    BY <2>1, <2>2, NoteSent
  <2>4. Steady
    BY <2>1, Literals DEF Steady, CloseAcceptor
  <2>5. QED
    BY <2>1, <2>3, <2>4, ProbeClosedCalm, StillSound
<1>2. CASE ~Current(k)
  <2>1. /\ probes' = f /\ ioq' = Tail(ioq) \o <<>> /\ UNCHANGED <<probe, acceptor, accepting, dq>>
    BY <1>2 DEF HandleFailed, Posting, acceptorVars
  <2>2. Steady
    BY <2>1 DEF Steady, Typed, StateTyped, ProbesTyped
  <2>3. QED
    BY <2>1, <2>2, IoOver, Unmoved, StillSound
<1>3. QED
  BY <1>1, <1>2

LEMMA ProbeConnectedSound ==
    ASSUME Typed, Ordered, Sessions, ProbeConnected
    PROVE  Ordered' /\ Sessions'
<1> DEFINE k == H.who
           f == [probes EXCEPT ![k].state = "closed", ![k].timer = FALSE]
<1>1. /\ ioq # <<>> /\ H.op = "probeConnected" /\ k \in Probes
      /\ UNCHANGED <<running, generation, attached, dpc, retry, watch, told, next, peers, session, life>>
  <2>1. ioq # <<>> /\ H \in IoEntries /\ H.op = "probeConnected"
    BY Heads DEF ProbeConnected, Running, H
  <2>2. QED
    BY <2>1, IoRead DEF ProbeConnected, IoUnchanged, DispatcherUnchanged, scopeVars, taskVars, peerVars,
       appVars
<1>2. CASE Current(k) /\ H.what = "ok"
  <2>1. /\ probes' = [probes EXCEPT ![k].state = "open"] /\ ioq' = Tail(ioq) \o <<>>
        /\ UNCHANGED <<dq, acceptor, accepting, probe>>
    BY <1>2 DEF ProbeConnected, Posting, acceptorVars
  <2> HIDE DEF k
  <2>2. Steady
    BY <1>1, <2>1 DEF Steady, Typed, StateTyped, ProbesTyped
  <2>3. QED
    BY <1>1, <2>1, <2>2, IoOver, Unmoved, StillSound
<1>3. CASE HandleFailed(k, f)
  <2>1. f \in ProbeTable
    BY <1>1 DEF Typed, StateTyped, ProbesTyped, ProbeTable, ProbeStates
  <2>2. \A j \in Probes : f[j].token = probes[j].token
    BY <1>1 DEF Typed, StateTyped, ProbesTyped
  <2> HIDE DEF f, k
  <2>3. QED
    BY <1>1, <1>3, <2>1, <2>2, HandleFailedSound
<1>4. QED
  BY <1>2, <1>3 DEF ProbeConnected

LEMMA ProbeFailedSound ==
    ASSUME Typed, Ordered, Sessions, ProbeFailed
    PROVE  Ordered' /\ Sessions'
<1>1. /\ ioq # <<>> /\ H.op \in {"probeTimeout", "probeFailed"} /\ H.who \in Probes
      /\ UNCHANGED <<running, generation, attached, dpc, retry, watch, told, next, peers, session, life>>
  <2>1. ioq # <<>> /\ H \in IoEntries /\ H.op \in {"probeTimeout", "probeFailed"}
    BY Heads DEF ProbeFailed
  <2>2. QED
    BY <2>1, IoRead DEF ProbeFailed, IoUnchanged, DispatcherUnchanged, scopeVars, taskVars, peerVars,
       appVars
<1>2. CASE HandleFailed(H.who, probes)
  <2>1. probes \in ProbeTable
    BY DEF Typed, StateTyped, ProbesTyped, ProbeTable
  <2>2. QED
    BY <1>1, <1>2, <2>1, HandleFailedSound
<1>3. CASE Posting(<<>>) /\ UNCHANGED <<dq, acceptorVars, probeVars>>
  <2>1. Steady
    BY <1>1, <1>3 DEF Steady, acceptorVars, probeVars
  <2>2. QED
    BY <1>1, <1>3, <2>1, IoOver, Unmoved, StillSound DEF Posting
<1>4. QED
  BY <1>2, <1>3 DEF ProbeFailed

LEMMA ProbeAnsweredSound ==
    ASSUME Typed, Ordered, Sessions, ProbeAnswered
    PROVE  Ordered' /\ Sessions'
<1>1. /\ ioq # <<>> /\ H.op = "probeAnswer"
      /\ UNCHANGED <<running, generation, attached, dpc, dq, retry, watch, told, next, peers, session,
                     life, acceptor, accepting>>
  BY DEF ProbeAnswered, Running, H, IoUnchanged, DispatcherUnchanged, scopeVars, taskVars, peerVars,
     appVars, acceptorVars
<1>2. CASE CloseProbe(probes) /\ Posting(ProbeClosed)
  <2>1. Steady
    BY <1>1, <1>2 DEF Steady, CloseProbe
  <2>2. QED
    BY <1>1, <1>2, <2>1, ProbeClosedCalm, Unmoved, StillSound DEF Posting
<1>3. CASE Posting(<<>>) /\ UNCHANGED probeVars
  <2>1. Steady
    BY <1>1, <1>3 DEF Steady, probeVars
  <2>2. QED
    BY <1>1, <1>3, <2>1, IoOver, Unmoved, StillSound DEF Posting
<1>4. QED
  BY <1>2, <1>3 DEF ProbeAnswered

LEMMA RunPeerCloseSound ==
    ASSUME Typed, Ordered, Sessions, RunPeerClose
    PROVE  Ordered' /\ Sessions'
<1> DEFINE k == H.who
           x == IF sock[k] = "open" THEN <<Signal("closed", k)>> ELSE <<>>
           y == IF H.what = "notify" /\ Locked /\ attached THEN <<About("peerClosed", k)>> ELSE <<>>
<1>1. /\ ioq # <<>> /\ H.op = "peerClose" /\ ioq' = Tail(ioq) \o <<>> /\ k \in Peers
      /\ UNCHANGED <<retry, watch>> /\ Steady
  <2>1. ioq # <<>> /\ H \in IoEntries /\ H.op = "peerClose"
    BY Heads DEF RunPeerClose, Running, H
  <2>2. QED
    BY <2>1, IoRead DEF RunPeerClose, Posting, Steady, IoUnchanged, DispatcherUnchanged, scopeVars,
       taskVars, acceptorVars, probeVars, appVars
<1>2. dq' = dq \o x \o y
  BY DEF RunPeerClose
<1>3. /\ Signal("closed", k) \in DqEntries /\ About("peerClosed", k) \in DqEntries
      /\ Signal("closed", k) \notin Scheduled
      /\ \A j, n : Signal("closed", k) \notin Astray(j, n) /\ About("peerClosed", k) \notin Astray(j, n)
  <2>1. About("peerClosed", k) \in DqEntries /\ Signal("closed", k) \in DqEntries
    BY <1>1, DqMade DEF About
  <2>2. \A j, n : About("peerClosed", k) \notin Astray(j, n)
    BY DEF About, Entry, Astray, Notes
  <2>3. QED
    BY <2>1, <2>2, SignalsOnly
<1>4. /\ x \in Seq(DqEntries) /\ ~Has(x, Scheduled) /\ \A j \in Peers : ~Has(x, Astray(j, session[j]))
      /\ y \in Seq(DqEntries) /\ (~attached => ~Has(y, Scheduled))
      /\ \A j \in Peers : ~Has(y, Astray(j, session[j]))
  BY <1>3, Made
<1> HIDE DEF x, y, k
<1>5. /\ dq' = dq \o (x \o y) /\ x \o y \in Seq(DqEntries)
      /\ ~attached => ~Has(x \o y, Scheduled)
      /\ \A j \in Peers : ~Has(x \o y, Astray(j, session[j]))
  <2>1. dq \in Seq(DqEntries)
    BY DEF Typed, DqTyped
  <2>2. dq' = dq \o (x \o y) /\ x \o y \in Seq(DqEntries)
    BY <1>2, <1>4, <2>1
  <2>3. QED
    BY <1>4, <2>2, SentHas
<1>6. DqCalm
  <2>1. ~attached => ~retry' /\ ~watch'
    BY <1>1 DEF Ordered
  <2>2. QED
    BY <1>5, <2>1, DqMoved
<1>7. QED
  BY <1>1, <1>6, IoOver, StillSound

LEMMA ReleaseSound ==
    ASSUME Typed, Ordered, Sessions, NEW id \in Peers, Release(id)
    PROVE  Ordered' /\ Sessions'
<1> DEFINE I == {i \in DOMAIN dq : ~(dq[i].op = "signal" /\ dq[i].who = id)}
<1>1. I \in SUBSET DOMAIN dq /\ dq' = Selected(dq, I) /\ UNCHANGED <<retry, watch, ioq>> /\ Steady
  BY DEF Release, IoUnchanged, DispatcherUnchanged, Steady, scopeVars, taskVars, acceptorVars,
     probeVars, appVars
<1> HIDE DEF I
<1>2. QED
  BY <1>1, DqErasedCalm, Unmoved, StillSound

LEMMA ReleaseProbeSound ==
    ASSUME Typed, Ordered, Sessions, NEW k \in Probes, ReleaseProbe(k)
    PROVE  Ordered' /\ Sessions'
<1> DEFINE I == {i \in DOMAIN dq : dq[i].who # k}
<1>1. I \in SUBSET DOMAIN dq /\ dq' = Selected(dq, I) /\ UNCHANGED <<retry, watch, ioq>>
  BY DEF ReleaseProbe, IoUnchanged, DispatcherUnchanged, taskVars
<1> HIDE DEF I
<1>2. Steady
  BY DEF ReleaseProbe, IoUnchanged, DispatcherUnchanged, Steady, scopeVars, acceptorVars, peerVars,
     appVars, Typed, StateTyped, ProbesTyped
<1>3. QED
  BY <1>1, <1>2, DqErasedCalm, Unmoved, StillSound

\* What the slots enqueue and post.
LEMMA SignalDispatched ==
    ASSUME Typed, DispatchSignal
    PROVE  \E x \in Seq(DqEntries), y \in Seq(IoEntries) :
             /\ dq # <<>> /\ E.op = "signal" /\ E \in DqEntries /\ E = Head(dq)
             /\ dq' = Tail(dq) \o x /\ ioq' = ioq \o y
             /\ x # <<>> => attached /\ life = "live"
             /\ \/ x = <<>>
                \/ E.who \in Peers /\ E.what = "ready" /\ x = <<Note("ready", E.who, session[E.who])>>
                \/ E.who \in Peers /\ E.what = "closed" /\ x = <<Entry("peerClosed", E.who, 0, "slot")>>
                \/ E.who \in Peers /\ E.what \in {"report", "late"} /\ x = <<Entry("report", E.who, 0, E.what)>>
             /\ attached /\ life = "live" /\ E.what \in {"ready", "closed", "report", "late"} => x # <<>>
             /\ \/ y = <<>>
                \/ E.who \in Peers /\ E.what = "closed" /\ y = <<About("erase", E.who)>>
                \/ E.who \in Probes /\ E.what = "answer" /\ y = <<About("probeAnswer", E.who)>>
                \/ E.who \in Probes /\ E.what = "failed" /\ y = <<About("probeFailed", E.who)>>
<1>1. /\ dq # <<>> /\ E \in DqEntries /\ E.op = "signal" /\ E = Head(dq)
      /\ \/ E.who \in Peers /\ E.what \in {"ready", "closed", "report", "late"} /\ session[E.who] \in Nat
         \/ E.who \in Probes /\ E.what \in {"answer", "failed"}
  <2>1. \A id \in Peers : session[id] \in Nat
    BY Numbers
  <2>2. QED
    BY <2>1, Heads, DqRead DEF DispatchSignal, Dispatching, E
<1> DEFINE n == Note("ready", E.who, session[E.who])
           c == Entry("peerClosed", E.who, 0, "slot")
           r == Entry("report", E.who, 0, E.what)
           se == About("erase", E.who)
           sa == About("probeAnswer", E.who)
           sf == About("probeFailed", E.who)
<1>2. /\ E.who \in Peers => n \in DqEntries /\ c \in DqEntries /\ se \in IoEntries
      /\ E.who \in Peers /\ E.what \in {"report", "late"} => r \in DqEntries
  BY <1>1, DqMade, IoMade, Names
<1>3. E.who \in Probes => sa \in IoEntries /\ sf \in IoEntries
  BY IoMade
<1>4. <<>> \in Seq(DqEntries) /\ <<>> \in Seq(IoEntries)
  BY Made
<1>5. /\ \A e \in DqEntries : <<e>> \in Seq(DqEntries) /\ <<e>> # <<>>
      /\ \A e \in IoEntries : <<e>> \in Seq(IoEntries)
  BY Made
<1>6. CASE life # "live"
  BY <1>1, <1>4, <1>6 DEF DispatchSignal, Post, Dispatched
<1>7. CASE life = "live" /\ E.what = "ready"
  <2>1. E.who \in Peers /\ n \in DqEntries
    BY <1>1, <1>2, <1>7
  <2>2. ioq' = ioq \o <<>> /\ dq' = Tail(dq) \o (IF attached THEN <<n>> ELSE <<>>)
    BY <1>7 DEF DispatchSignal, Post, Dispatched
  <2>3. QED
    BY <1>1, <1>4, <1>5, <1>7, <2>1, <2>2
<1>8. CASE life = "live" /\ E.what = "closed"
  <2>1. E.who \in Peers /\ c \in DqEntries /\ se \in IoEntries
    BY <1>1, <1>2, <1>8
  <2>2. ioq' = ioq \o <<se>> /\ dq' = Tail(dq) \o (IF attached THEN <<c>> ELSE <<>>)
    BY <1>8 DEF DispatchSignal, Post, Dispatched, ReportOfClosed
  <2>3. QED
    BY <1>1, <1>4, <1>5, <1>8, <2>1, <2>2
<1>9. CASE life = "live" /\ E.what \in {"report", "late"}
  <2>1. E.who \in Peers /\ r \in DqEntries
    BY <1>1, <1>2, <1>9
  <2>2. ioq' = ioq \o <<>> /\ dq' = Tail(dq) \o (IF attached THEN <<r>> ELSE <<>>)
    BY <1>9 DEF DispatchSignal, Post, Dispatched
  <2>3. QED
    BY <1>1, <1>4, <1>5, <1>9, <2>1, <2>2
<1>10. CASE life = "live" /\ E.what = "answer"
  <2>1. E.who \in Probes /\ sa \in IoEntries
    BY <1>1, <1>3, <1>10
  <2>2. ioq' = ioq \o (IF IsCurrent(probes[E.who].token) THEN <<sa>> ELSE <<>>) /\ dq' = Tail(dq) \o <<>>
    BY <1>10 DEF DispatchSignal, Post, Dispatched
  <2>3. QED
    BY <1>1, <1>4, <1>5, <1>10, <2>1, <2>2
<1>11. CASE life = "live" /\ E.what = "failed"
  <2>1. E.who \in Probes /\ sf \in IoEntries
    BY <1>1, <1>3, <1>11
  <2>2. ioq' = ioq \o (IF IsCurrent(probes[E.who].token) THEN <<sf>> ELSE <<>>) /\ dq' = Tail(dq) \o <<>>
    BY <1>11 DEF DispatchSignal, Post, Dispatched
  <2>3. QED
    BY <1>1, <1>4, <1>5, <1>11, <2>1, <2>2
<1>12. QED
  BY <1>1, <1>6, <1>7, <1>8, <1>9, <1>10, <1>11

LEMMA DispatchSignalSound ==
    ASSUME Typed, Ordered, Sessions, DispatchSignal
    PROVE  Ordered' /\ Sessions'
<1>1. PICK x \in Seq(DqEntries), y \in Seq(IoEntries) :
             /\ dq # <<>> /\ dq' = Tail(dq) \o x /\ ioq' = ioq \o y
             /\ x # <<>> => attached /\ life = "live"
             /\ \/ x = <<>>
                \/ E.who \in Peers /\ E.what = "ready" /\ x = <<Note("ready", E.who, session[E.who])>>
                \/ E.who \in Peers /\ E.what = "closed" /\ x = <<Entry("peerClosed", E.who, 0, "slot")>>
                \/ E.who \in Peers /\ E.what \in {"report", "late"} /\ x = <<Entry("report", E.who, 0, E.what)>>
             /\ \/ y = <<>>
                \/ E.who \in Peers /\ E.what = "closed" /\ y = <<About("erase", E.who)>>
                \/ E.who \in Probes /\ E.what = "answer" /\ y = <<About("probeAnswer", E.who)>>
                \/ E.who \in Probes /\ E.what = "failed" /\ y = <<About("probeFailed", E.who)>>
  BY SignalDispatched
<1>2. UNCHANGED <<retry, watch>> /\ Steady
  BY DEF DispatchSignal, Steady, scopeVars, taskVars, acceptorVars, peerVars, probeVars, appVars
<1>3. IoCalm
  <2>1. \A op \in {"erase", "probeAnswer", "probeFailed"} : \A k :
          /\ About(op, k) \notin Enders /\ About(op, k) \notin Io("keepAlive")
          /\ About(op, k) \notin Fresh(generation)
    BY DEF About, Entry, Enders, Io, Fresh
  <2>2. \A e, A : y = <<e>> /\ e \notin A => ~Has(y, A)
    BY Literals
  <2>3. \A A : ~Has(<<>>, A)
    BY Made
  <2>4. ~Has(y, Enders) /\ ~Has(y, Io("keepAlive")) /\ ~Has(y, Fresh(generation))
    BY <1>1, <2>1, <2>2, <2>3
  <2>5. QED
    BY <1>1, <2>4, IoMoved
<1>4. DqCalm
  <2>1. \A id \in Peers : /\ Note("ready", E.who, session[E.who]) \notin Astray(id, session[id])
                          /\ Entry("peerClosed", E.who, 0, "slot") \notin Astray(id, session[id])
                          /\ Entry("report", E.who, 0, E.what) \notin Astray(id, session[id])
    BY DEF Note, About, Entry, Astray, Notes
  <2>2. \A id \in Peers : ~Has(x, Astray(id, session[id]))
    <3>1. \A e, A : x = <<e>> /\ e \notin A => ~Has(x, A)
      BY Literals
    <3>2. \A A : ~Has(<<>>, A)
      BY Made
    <3>3. QED
      BY <1>1, <2>1, <3>1, <3>2
  <2>3. ~attached => ~Has(x, Scheduled) /\ ~retry' /\ ~watch'
    BY <1>1, <1>2, Made DEF Ordered
  <2>4. QED
    BY <1>1, <2>2, <2>3, DqMoved
<1>5. QED
  BY <1>2, <1>3, <1>4, StillSound

\* The steps that begin a session, and those that end one.
LEMMA StartSound ==
    ASSUME Typed, Ordered, Sessions, Start
    PROVE  Ordered' /\ Sessions'
<1> DEFINE e == With("bind", generation)
<1>1. attached /\ dpc = "idle"
  BY Attended DEF Start, Dispatching, E
<1>2. /\ running' = TRUE /\ ioq' = ioq \o <<e>>
      /\ UNCHANGED <<generation, attached, dpc, retry, watch, life, acceptor, accepting, next, peers,
                     session, probe, probes, told>>
  BY DEF Start, Post, taskVars, acceptorVars, peerVars, probeVars, appVars
<1>3. e \in IoEntries /\ e \notin Enders /\ e \notin Io("keepAlive")
  BY Numbers, IoMade DEF With, Entry, Enders, Io
<1> HIDE DEF e
<1>4. IoCalm
  BY <1>1, <1>2, <1>3, Made, IoMoved
<1>5. DqCalm
  BY <1>1, StartTyped, DqUndisturbed
<1>6. Ordered'
  BY <1>1, <1>2, <1>4, <1>5 DEF Ordered, IoCalm, DqCalm
<1>7. Stopping' <=> Stopping
  BY <1>2, <1>4 DEF Stopping, IoCalm
<1>8. Sessions'
  BY <1>2, <1>5, <1>7 DEF Sessions, DqCalm
<1>9. QED
  BY <1>6, <1>8

\* The generation moves on: nothing is of it.
LEMMA NothingFresh ==
    ASSUME Typed
    PROVE  /\ ~Has(ioq, Fresh(generation + 1)) /\ ~Has(accepting, {generation + 1})
           /\ \A id \in Peers : session[id] # generation + 1
           /\ \A k \in Probes : probes[k].token # generation + 1
<1>1. generation \in Nat
  BY Numbers
<1>2. Fresh(generation + 1) \subseteq Beyond(generation, next)
  BY <1>1 DEF Fresh, Beyond
<1>3. {generation + 1} \subseteq Later(generation)
  BY <1>1 DEF Later
<1>4. \A n \in 0..generation : n # generation + 1
  BY <1>1
<1>5. /\ \A id \in Peers : session[id] # generation + 1
      /\ \A k \in Probes : probes[k].token # generation + 1
  BY <1>4, Numbers
<1>6. ~Has(ioq, Fresh(generation + 1)) /\ ~Has(accepting, {generation + 1})
  BY <1>2, <1>3, Widened DEF Typed, IoTyped, StateTyped, AcceptorTyped
<1>7. QED
  BY <1>5, <1>6

LEMMA EndSessionSound ==
    ASSUME Typed, Ordered, Sessions, EndSession
    PROVE  Ordered' /\ Sessions'
<1>1. attached /\ dpc = "idle"
  BY Attended DEF EndSession, Dispatching, E
<1>2. /\ running' = FALSE /\ generation' = generation + 1 /\ dpc' = "stop"
      /\ dq # <<>> /\ dq' = Tail(dq) \o <<>>
      /\ UNCHANGED <<attached, retry, watch, ioq, life, acceptor, accepting, next, peers, session,
                     probe, probes>>
      /\ \A id \in Peers : told'[id] \notin {"accepted", "connected"}
  BY DEF EndSession, SessionEnded, Dispatching, Dispatched, taskVars, acceptorVars, peerVars, probeVars
<1>3. /\ ~Has(ioq, Fresh(generation')) /\ ~Has(accepting, {generation'})
      /\ \A id \in Peers : session[id] # generation'
      /\ \A k \in Probes : probes[k].token # generation'
  BY <1>2, NothingFresh
<1>4. NotBefore(ioq, Fresh(generation'), Enders)
  BY <1>3 DEF NotBefore, Has
<1>5. Ordered'
  <2>1. life = "live" /\ ~Has(ioq, Io("shutdown")) /\ NotBefore(ioq, Io("shutdown"), Enders)
        /\ ~Has(ioq, Io("keepAlive"))
    BY <1>1 DEF Ordered
  <2>2. QED
    BY <1>1, <1>2, <1>3, <1>4, <2>1 DEF Ordered
<1>6. Stopping'
  BY <1>2 DEF Stopping
<1>7. \A id \in Peers : ~Has(dq', Astray(id, session[id]))
  <2>1. \A A : Has(dq', A) => Has(dq, A)
    BY <1>2, Made, TakenHas DEF Typed, DqTyped
  <2>2. QED
    BY <2>1 DEF Sessions
<1>8. peers \subseteq Peers /\ 1..next \subseteq Peers /\ (probe # None => probe \in Probes)
  BY Numbers DEF Typed, StateTyped, ProbesTyped
<1>9. Sessions'
  BY <1>2, <1>3, <1>6, <1>7, <1>8 DEF Sessions
<1>10. QED
  BY <1>5, <1>9

LEMMA PostStopSound ==
    ASSUME Typed, Ordered, Sessions, PostStop
    PROVE  Ordered' /\ Sessions'
<1> DEFINE e == Do("stop")
           F == Fresh(generation)
           S == Io("shutdown")
<1>1. /\ dpc = "stop" /\ dpc' = "idle" /\ ioq' = ioq \o <<e>>
      /\ UNCHANGED <<running, generation, attached, retry, watch, life, acceptor, accepting, next, peers,
                     session, probe, probes, told>>
  BY DEF PostStop, Post, scopeVars, taskVars, acceptorVars, peerVars, probeVars, appVars
<1>2. e \in IoEntries /\ e \in Enders /\ e \notin Io("keepAlive") /\ e \notin F /\ e \notin S
  BY IoMade DEF Do, Entry, Enders, Io, Fresh
<1>3. /\ attached /\ life = "live" /\ ~running /\ ~Has(ioq, F) /\ ~Has(ioq, S) /\ ~Has(ioq, Io("keepAlive"))
      /\ NotBefore(ioq, S, Enders) /\ NotBefore(ioq, F, Enders)
  BY <1>1 DEF Ordered
<1>4. ioq \in Seq(IoEntries) /\ <<e>> \in Seq(IoEntries)
  BY <1>2, Made DEF Typed, IoTyped
<1> HIDE DEF e, F, S
<1>5. /\ Has(ioq', Enders) /\ ~Has(ioq', S) /\ ~Has(ioq', F) /\ ~Has(ioq', Io("keepAlive"))
  <2>1. \A A : Has(<<e>>, A) <=> e \in A
    BY Literals
  <2>2. QED
    BY <1>1, <1>2, <1>3, <1>4, <2>1, SentHas
<1>6. NotBefore(ioq', S, Enders) /\ NotBefore(ioq', F, Enders)
  BY <1>5 DEF NotBefore, Has
<1>7. DqCalm
  BY <1>3, PostStopTyped, DqUndisturbed
<1>8. Ordered'
  BY <1>1, <1>3, <1>5, <1>6, <1>7 DEF Ordered, DqCalm, F, S
<1>9. Stopping' /\ Stopping
  BY <1>1, <1>5 DEF Stopping
<1>10. Sessions'
  BY <1>1, <1>7, <1>9 DEF Sessions, DqCalm
<1>11. QED
  BY <1>8, <1>10

LEMMA DetachSound ==
    ASSUME Typed, Ordered, Sessions, Detach
    PROVE  Ordered' /\ Sessions'
<1> DEFINE I == {i \in DOMAIN dq : dq[i].op = "signal"}
<1>1. /\ attached /\ dpc = "idle" /\ attached' = FALSE /\ dpc' = "shutdown" /\ dq' = Selected(dq, I)
      /\ retry' = FALSE /\ watch' = FALSE
      /\ UNCHANGED <<running, generation, ioq, life, acceptor, accepting, next, peers, session, probe,
                     probes, told>>
  BY DEF Detach, acceptorVars, peerVars, probeVars, appVars
<1>2. ~Has(dq', Scheduled) /\ \A A : Has(dq', A) => Has(dq, A)
  <2>1. dq \in Seq(DqEntries) /\ I \in SUBSET DOMAIN dq /\ \A i \in I : dq[i] \notin Scheduled
    BY DEF Typed, DqTyped, Scheduled
  <2> HIDE DEF I
  <2>2. QED
    BY <1>1, <2>1, ErasedHas
<1>3. Ordered'
  BY <1>1, <1>2 DEF Ordered
<1>4. Stopping' <=> Stopping
  BY <1>1 DEF Stopping
<1>5. \A id \in Peers : ~Has(dq', Astray(id, session[id]))
  BY <1>2 DEF Sessions
<1>6. Sessions'
  BY <1>1, <1>4, <1>5 DEF Sessions
<1>7. QED
  BY <1>3, <1>6

LEMMA PostShutdownSound ==
    ASSUME Typed, Ordered, Sessions, PostShutdown
    PROVE  Ordered' /\ Sessions'
<1> DEFINE e == Do("shutdown")
           F == Fresh(generation')
           S == Io("shutdown")
<1>1. /\ dpc = "shutdown" /\ dpc' = "idle" /\ ioq' = ioq \o <<e>>
      /\ running' = FALSE /\ generation' = generation + 1
      /\ UNCHANGED <<attached, dq, retry, watch, life, acceptor, accepting, next, peers, session, probe,
                     probes>>
      /\ \A id \in Peers : told'[id] \notin {"accepted", "connected"}
  BY DEF PostShutdown, Post, SessionEnded, taskVars, acceptorVars, peerVars, probeVars
<1>2. e \in IoEntries /\ e \in Enders /\ e \notin Io("keepAlive") /\ e \notin F /\ e \in S
  BY IoMade DEF Do, Entry, Enders, Io, Fresh
<1>3. /\ ~Has(ioq, F) /\ ~Has(accepting, {generation'})
      /\ \A id \in Peers : session[id] # generation'
      /\ \A k \in Probes : probes[k].token # generation'
  BY <1>1, NothingFresh
<1>4. life = "live" /\ ~attached /\ ~Has(ioq, S) /\ ~Has(ioq, Io("keepAlive"))
  BY <1>1 DEF Ordered
<1>5. ioq \in Seq(IoEntries) /\ <<e>> \in Seq(IoEntries)
  BY <1>2, Made DEF Typed, IoTyped
<1> HIDE DEF e, F, S
<1>6. Has(ioq', Enders) /\ ~Has(ioq', F) /\ ~Has(ioq', Io("keepAlive"))
  <2>1. \A A : Has(<<e>>, A) <=> e \in A
    BY Literals
  <2>2. QED
    BY <1>1, <1>2, <1>3, <1>4, <1>5, <2>1, SentHas
<1>7. NotBefore(ioq', F, Enders)
  BY <1>6 DEF NotBefore, Has
<1>8. NotBefore(ioq', S, Enders)
  <2>1. NotBefore(ioq, S, Enders)
    BY DEF Ordered, S
  <2>2. NotBefore(<<e>>, S, Enders)
    BY Literals
  <2>3. QED
    BY <1>1, <1>4, <1>5, <2>1, <2>2, Joined
<1>9. Ordered'
  BY <1>1, <1>4, <1>6, <1>7, <1>8 DEF Ordered, F, S
<1>10. Stopping'
  BY <1>6 DEF Stopping
<1>11. peers \subseteq Peers /\ 1..next \subseteq Peers /\ (probe # None => probe \in Probes)
  BY Numbers DEF Typed, StateTyped, ProbesTyped
<1>12. Sessions'
  BY <1>1, <1>3, <1>10, <1>11 DEF Sessions
<1>13. QED
  BY <1>9, <1>12

\* The handlers that close everything post nothing that ends or begins a session.
LEMMA ClosingPosts ==
    ASSUME Typed
    PROVE  /\ AllPeersClosed \o ProbeClosed \in Seq(IoEntries)
           /\ \A A : Has(AllPeersClosed \o ProbeClosed, A) <=>
                      \/ \E id \in peers : About("peerClose", id) \in A
                      \/ probePeer # None /\ About("probeClose", probePeer) \in A
           /\ ~Has(AllPeersClosed \o ProbeClosed, Scopes)
<1> DEFINE a == AllPeersClosed
           b == ProbeClosed
<1>1. /\ a \in Seq(IoEntries) /\ b \in Seq(IoEntries)
      /\ \A A : Has(a, A) <=> \E id \in peers : About("peerClose", id) \in A
      /\ \A A : Has(b, A) <=> probePeer # None /\ About("probeClose", probePeer) \in A
  BY PeersToClose, ProbeToClose
<1>2. \A k : About("peerClose", k) \notin Scopes /\ About("probeClose", k) \notin Scopes
  BY DEF About, Entry, Scopes
<1> HIDE DEF a, b
<1>3. a \o b \in Seq(IoEntries) /\ \A A : Has(a \o b, A) <=> Has(a, A) \/ Has(b, A)
  BY <1>1, SentHas
<1>4. QED
  BY <1>1, <1>2, <1>3 DEF a, b

LEMMA StopSound ==
    ASSUME Typed, Ordered, Sessions, Stop
    PROVE  Ordered' /\ Sessions'
<1> DEFINE x == AllPeersClosed \o ProbeClosed
           F == Fresh(generation)
           S == Io("shutdown")
           K == Io("keepAlive")
<1>1. ioq # <<>> /\ H \in Enders /\ H = Head(ioq) /\ ioq \in Seq(IoEntries)
  BY Heads DEF Stop, Running, Enders, H, Typed, IoTyped
<1>2. Has(ioq, Enders) /\ Stopping
  BY <1>1, TakenHas, Made DEF Stopping
<1>3. life = "live"
  BY <1>2 DEF Ordered
<1>4. /\ ioq' = Tail(ioq) \o x /\ acceptor' = FALSE /\ accepting' = <<>> /\ peers' = {} /\ probe' = None
      /\ UNCHANGED <<running, generation, attached, dpc, dq, retry, watch, life, next, session, told>>
  BY <1>3 DEF Stop, Locked, CloseEverything, CloseAcceptor, CloseProbe, Posting, IoUnchanged,
     DispatcherUnchanged, scopeVars, taskVars, appVars
<1>5. x \in Seq(IoEntries) /\ ~Has(x, Scopes)
  BY ClosingPosts
<1>6. F \subseteq Scopes /\ S \subseteq Scopes /\ K \subseteq Scopes /\ Enders \subseteq Scopes
  BY DEF Scopes, Fresh, Io, Enders
<1> HIDE DEF x, F, S, K
<1>7. ~Has(x, F) /\ ~Has(x, S) /\ ~Has(x, K) /\ ~Has(x, Enders)
  BY <1>5, <1>6, Widened
<1>8. /\ Has(ioq', F) => Has(ioq, F)
      /\ Has(ioq', S) => Has(ioq, S)
      /\ Has(ioq', K) => Has(ioq, K)
  BY <1>1, <1>4, <1>5, <1>7, TakenHas
<1>9. NotBefore(x, S, Enders) /\ NotBefore(x, F, Enders)
  BY <1>7 DEF NotBefore, Has
<1>10. NotBefore(ioq, S, Enders) /\ NotBefore(ioq, F, Enders)
  BY DEF Ordered, S, F
<1>11. NotBefore(ioq', S, Enders)
  BY <1>1, <1>4, <1>5, <1>7, <1>9, <1>10, Taken
<1>12. NotBefore(ioq', F, Enders)
  BY <1>1, <1>4, <1>5, <1>7, <1>9, <1>10, Taken
<1>13. Ordered'
  BY <1>3, <1>4, <1>8, <1>11, <1>12 DEF Ordered, S, F, K
<1>14. ~Has(accepting', {generation})
  BY <1>4, Made
<1>15. Sessions'
  BY <1>2, <1>4, <1>14 DEF Sessions
<1>16. QED
  BY <1>13, <1>15

LEMMA ShutdownSound ==
    ASSUME Typed, Ordered, Sessions, Shutdown
    PROVE  Ordered' /\ Sessions'
<1> DEFINE a == AllPeersClosed \o ProbeClosed
           k == Do("keepAlive")
           x == a \o <<k>>
           F == Fresh(generation)
           S == Io("shutdown")
<1>1. ioq # <<>> /\ H \in Enders /\ H \in S /\ H = Head(ioq) /\ ioq \in Seq(IoEntries)
  BY Heads DEF Shutdown, Running, Enders, Io, H, Typed, IoTyped
<1>2. Has(ioq, Enders) /\ Stopping /\ Has(ioq, S)
  BY <1>1, TakenHas, Made DEF Stopping
<1>3. /\ ioq' = Tail(ioq) \o x /\ acceptor' = FALSE /\ accepting' = <<>> /\ peers' = {} /\ probe' = None
      /\ UNCHANGED <<running, generation, attached, dpc, dq, retry, watch, next, session, told>>
      /\ life' = "closing"
  <2>1. AllPeersClosed \in Seq(IoEntries) /\ ProbeClosed \in Seq(IoEntries) /\ <<k>> \in Seq(IoEntries)
    BY PeersToClose, ProbeToClose, IoMade, Made
  <2>2. AllPeersClosed \o ProbeClosed \o <<k>> = a \o <<k>>
    OBVIOUS
  <2>3. QED
    BY <2>2 DEF Shutdown, CloseEverything, CloseAcceptor, CloseProbe, Posting, IoUnchanged,
     DispatcherUnchanged, scopeVars, taskVars, appVars
<1>4. a \in Seq(IoEntries) /\ ~Has(a, Scopes) /\ k \in IoEntries
  BY ClosingPosts, IoMade
<1>5. F \subseteq Scopes /\ S \subseteq Scopes /\ Enders \subseteq Scopes
  BY DEF Scopes, Fresh, Io, Enders
<1>6. k \notin F /\ k \notin S /\ k \notin Enders
  BY DEF Do, Entry, Fresh, Io, Enders
<1> HIDE DEF a, F, S, k
<1>7. /\ x \in Seq(IoEntries)
      /\ ~Has(x, F) /\ ~Has(x, S) /\ ~Has(x, Enders)
  <2>1. ~Has(a, F) /\ ~Has(a, S) /\ ~Has(a, Enders)
    BY <1>4, <1>5, Widened
  <2>2. <<k>> \in Seq(IoEntries) /\ ~Has(<<k>>, F) /\ ~Has(<<k>>, S) /\ ~Has(<<k>>, Enders)
    BY <1>4, <1>6, Made
  <2>3. QED
    BY <1>4, <2>1, <2>2, SentHas
<1> HIDE DEF x
<1>8. NotBefore(ioq, S, Enders) /\ ~attached /\ dpc = "idle"
  BY <1>2 DEF Ordered, S, Typed, StateTyped, ScopeTyped
<1>9. ~Has(Tail(ioq), Enders)
  BY <1>1, <1>8, Popped
<1>10. ~Has(ioq', Enders)
  BY <1>1, <1>3, <1>7, <1>9, TakenHas
<1>11. NotBefore(ioq', S, Enders) /\ NotBefore(ioq', F, Enders)
  BY <1>10 DEF NotBefore, Has
<1>12. Ordered'
  BY <1>3, <1>8, <1>10, <1>11 DEF Ordered, S, F
<1>13. ~Has(accepting', {generation})
  BY <1>3, Made
<1>14. Sessions'
  BY <1>2, <1>3, <1>13 DEF Sessions
<1>15. QED
  BY <1>12, <1>14

LEMMA IdleSound ==
    ASSUME Typed, Ordered, Sessions, UNCHANGED vars
    PROVE  Ordered' /\ Sessions'
<1>1. /\ UNCHANGED <<dq, retry, watch, ioq>> /\ Steady
  BY DEF vars, Steady, scopeVars, taskVars, acceptorVars, peerVars, probeVars, appVars
<1>2. QED
  BY <1>1, Unmoved, StillSound

LEMMA SoundInit == Init => Ordered /\ Sessions
<1> SUFFICES ASSUME Init PROVE Ordered /\ Sessions
  OBVIOUS
<1>1. ~Stopping /\ \A A : ~Has(dq, A) /\ ~Has(ioq, A) /\ ~Has(accepting, A)
  BY Made DEF Init, Stopping
<1>2. \A A, B : NotBefore(ioq, A, B)
  BY <1>1 DEF NotBefore, Has
<1>3. Ordered
  BY <1>1, <1>2 DEF Init, Ordered
<1>4. Sessions
  <2>1. \A id \in 1..next : FALSE
    BY DEF Init
  <2>2. QED
    BY <1>1, <2>1 DEF Init, Sessions
<1>5. QED
  BY <1>3, <1>4

LEMMA SoundStep == Typed /\ Ordered /\ Sessions /\ [Next]_vars => Ordered' /\ Sessions'
<1> SUFFICES ASSUME Typed, Ordered, Sessions, [Next]_vars PROVE Ordered' /\ Sessions'
  OBVIOUS
<1>1. CASE UNCHANGED vars
  BY <1>1, IdleSound
<1>2. CASE \/ \E op \in {"start", "stop"} : Call(op)
           \/ \E id \in Peers : AsyncClosePeer(id)
           \/ Retry \/ WatchFires \/ Detach
  BY <1>2, CallSound, AsyncClosePeerSound, RetrySound, WatchFiresSound, DetachSound
<1>3. CASE DispatcherStep
  BY <1>3, StartSound, EndSessionSound, PostStopSound, NotifySound, NotifyReadySound,
     DispatchSignalSound, ReportSound, PeerClosedSound, DebounceSound, TimerSound, CheckSound,
     PostShutdownSound DEF DispatcherStep
<1>4. CASE IoStep
  BY <1>4, BindSound, AcceptedSound, EraseSound, ClosePeerSound, RunPeerCloseSound, ProbeIgnoredSound,
     ProbeBeginsSound, ProbeConnectedSound, ProbeFailedSound, ProbeAnsweredSound, RunProbeCloseSound,
     StopSound, ShutdownSound, KeepAliveSound DEF IoStep
<1>5. CASE Destroy \/ \E outcome \in {"ok", "error"} : AcceptCompletes(outcome)
  BY <1>5, DestroySound, AcceptCompletesSound
<1>6. CASE \E id \in Peers : \/ PeerReady(id) \/ PeerReports(id) \/ Release(id)
                            \/ \E failed \in BOOLEAN : PeerEnds(id, failed)
  BY <1>6, PeerReadySound, PeerReportsSound, ReleaseSound, PeerEndsSound
<1>7. CASE \E k \in Probes : \/ \E outcome \in {"ok", "failed"} : ProbeConnects(k, outcome)
                             \/ ProbeTimerExpires(k) \/ ProbeAnswers(k) \/ ProbeEnds(k)
                             \/ ReleaseProbe(k)
  BY <1>7, ProbeConnectsSound, ProbeTimerExpiresSound, ProbeAnswersSound, ProbeEndsSound,
     ReleaseProbeSound
<1>8. QED
  BY <1>1, <1>2, <1>3, <1>4, <1>5, <1>6, <1>7 DEF Next, Destroyed

-----------------------------------------------------------------------------
\* The operations whose entries an action takes, enqueues or posts.

LEMMA DqTouch ==
    ASSUME Typed, NEW ops, NEW x \in Seq(DqEntries), ~Has(x, Others(ops)),
           \/ dq' = dq \o x
           \/ dq # <<>> /\ E.op \in ops /\ dq' = Tail(dq) \o x
    PROVE  Undisturbed(dq, dq', Others(ops))
<1>1. dq \in Seq(DqEntries)
  BY DEF Typed, DqTyped
<1>2. CASE dq' = dq \o x
  BY <1>1, <1>2, SentElsewhere
<1>3. CASE dq # <<>> /\ E.op \in ops /\ dq' = Tail(dq) \o x
  <2>1. Head(dq) \notin Others(ops)
    BY <1>3 DEF E, Others
  <2>2. QED
    BY <1>1, <1>3, <2>1, TakenElsewhere
<1>4. QED
  BY <1>2, <1>3

LEMMA IoTouch ==
    ASSUME Typed, NEW ops, NEW x \in Seq(IoEntries), ~Has(x, Others(ops)),
           \/ ioq' = ioq \o x
           \/ ioq # <<>> /\ H.op \in ops /\ ioq' = Tail(ioq) \o x
    PROVE  Undisturbed(ioq, ioq', Others(ops))
<1>1. ioq \in Seq(IoEntries)
  BY DEF Typed, IoTyped
<1>2. CASE ioq' = ioq \o x
  BY <1>1, <1>2, SentElsewhere
<1>3. CASE ioq # <<>> /\ H.op \in ops /\ ioq' = Tail(ioq) \o x
  <2>1. Head(ioq) \notin Others(ops)
    BY <1>3 DEF H, Others
  <2>2. QED
    BY <1>1, <1>3, <2>1, TakenElsewhere
<1>4. QED
  BY <1>2, <1>3

\* A note for the acceptor, if there is one.
LEMMA NoteTouches ==
    ASSUME Typed, NEW n \in Nat, NEW w \in {"bound", "bind_failed", "closed"},
           Enqueue(<<Note(w, None, n)>>) \/ dq' = dq
    PROVE  Undisturbed(dq, dq', Others({"note"}))
<1> DEFINE e == Note(w, None, n)
<1>1. e \in DqEntries /\ e \notin Others({"note"})
  BY DqMade DEF Note, Entry, Others
<1>2. dq' = dq \/ dq' = dq \o <<e>>
  BY DEF Enqueue
<1> HIDE DEF e
<1>3. <<e>> \in Seq(DqEntries) /\ ~Has(<<e>>, Others({"note"}))
  BY <1>1, Made
<1>4. QED
  BY <1>2, <1>3, DqTouch, Untouched

LEMMA BindTouches ==
    ASSUME Typed, NEW outcome \in {"bound", "bind_failed", "ignored"}, Bind(outcome)
    PROVE  /\ Undisturbed(dq, dq', Others({"note"}))
           /\ Undisturbed(ioq, ioq', Others({"bind"}))
<1>1. ioq # <<>> /\ H.op = "bind" /\ ioq' = Tail(ioq) \o <<>> /\ H.token \in Nat
  BY Heads, IoRead DEF Bind, Running, Posting, H
<1>2. \/ dq' = dq \/ Enqueue(<<Note("bound", None, H.token)>>)
      \/ Enqueue(<<Note("bind_failed", None, H.token)>>)
  BY DEF Bind
<1>3. QED
  BY <1>1, <1>2, NoteTouches, IoTouch, Made

LEMMA AcceptCompletesTouches ==
    ASSUME Typed, NEW outcome \in {"ok", "error"}, AcceptCompletes(outcome)
    PROVE  Undisturbed(ioq, ioq', Others({"accepted"}))
<1> DEFINE e == Entry("accepted", None, Head(accepting), outcome)
<1>1. Head(accepting) \in Nat
  <2>1. accepting \in Seq(Nat) /\ accepting # <<>>
    BY DEF Typed, StateTyped, AcceptorTyped, AcceptCompletes
  <2>2. QED
    BY <2>1
<1>2. e \in IoEntries /\ e \notin Others({"accepted"}) /\ ioq' = ioq \o <<e>>
  BY <1>1, IoMade DEF Entry, Others, AcceptCompletes, Post
<1> HIDE DEF e
<1>3. QED
  BY <1>2, IoTouch, Made

LEMMA AcceptedTouches ==
    ASSUME Typed, Accepted
    PROVE  /\ Undisturbed(dq, dq', Others({"note"}))
           /\ Undisturbed(ioq, ioq', Others({"accepted"}))
<1>1. ioq # <<>> /\ H.op = "accepted" /\ ioq' = Tail(ioq) \o <<>> /\ H.token \in Nat
  BY Heads, IoRead DEF Accepted, Running, Posting, H
<1>2. dq' = dq \/ Enqueue(<<Note("closed", None, H.token)>>)
  BY DEF Accepted
<1>3. QED
  BY <1>1, <1>2, NoteTouches, IoTouch, Made

LEMMA ProbeConnectsTouches ==
    ASSUME Typed, NEW k \in Probes, NEW outcome \in {"ok", "failed"}, ProbeConnects(k, outcome)
    PROVE  Undisturbed(ioq, ioq', Others({"probeConnected"}))
<1> DEFINE e == Entry("probeConnected", k, probes[k].token, outcome)
<1>1. probes[k].token \in Nat
  BY Numbers
<1>2. e \in IoEntries /\ e \notin Others({"probeConnected"}) /\ ioq' = ioq \o <<e>>
  BY <1>1, IoMade DEF Entry, Others, ProbeConnects, Post
<1> HIDE DEF e
<1>3. QED
  BY <1>2, IoTouch, Made

LEMMA ProbeClosedOnly ==
    ASSUME Typed, NEW ops, "probeClose" \in ops
    PROVE  ProbeClosed \in Seq(IoEntries) /\ ~Has(ProbeClosed, Others(ops))
<1>1. \A k : About("probeClose", k) \notin Others(ops)
  BY DEF About, Entry, Others
<1>2. QED
  BY <1>1, ProbeToClose

LEMMA HandleFailedTouches ==
    ASSUME Typed, NEW k \in Probes, NEW f, HandleFailed(k, f), ioq # <<>>, NEW op, H.op = op
    PROVE  /\ Undisturbed(dq, dq', Others({"note"}))
           /\ Undisturbed(ioq, ioq', Others({op, "probeClose"}))
<1>1. probes[k].token \in Nat
  BY Numbers
<1>2. dq' = dq \/ Enqueue(<<Note("closed", None, probes[k].token)>>)
  BY DEF HandleFailed
<1>3. ioq' = Tail(ioq) \o ProbeClosed \/ ioq' = Tail(ioq) \o <<>>
  BY DEF HandleFailed, Posting
<1>4. ProbeClosed \in Seq(IoEntries) /\ ~Has(ProbeClosed, Others({op, "probeClose"}))
  BY ProbeClosedOnly
<1>5. <<>> \in Seq(IoEntries) /\ ~Has(<<>>, Others({op, "probeClose"}))
  BY Made
<1>6. QED
  BY <1>1, <1>2, <1>3, <1>4, <1>5, NoteTouches, IoTouch

LEMMA ProbeConnectedTouches ==
    ASSUME Typed, ProbeConnected
    PROVE  /\ Undisturbed(dq, dq', Others({"note"}))
           /\ Undisturbed(ioq, ioq', Others({"probeConnected", "probeClose"}))
<1>1. ioq # <<>> /\ H.op = "probeConnected" /\ H.who \in Probes
  BY Heads, IoRead DEF ProbeConnected, Running, H
<1>2. CASE dq' = dq /\ ioq' = Tail(ioq) \o <<>>
  BY <1>1, <1>2, Untouched, IoTouch, Made
<1>3. CASE \E f : HandleFailed(H.who, f)
  BY <1>1, <1>3, HandleFailedTouches
<1>4. QED
  BY <1>2, <1>3 DEF ProbeConnected, Posting

LEMMA ProbeFailedTouches ==
    ASSUME Typed, ProbeFailed
    PROVE  /\ Undisturbed(dq, dq', Others({"note"}))
           /\ Undisturbed(ioq, ioq', Others({"probeTimeout", "probeFailed", "probeClose"}))
<1>1. ioq # <<>> /\ H.op \in {"probeTimeout", "probeFailed"} /\ H.who \in Probes
  BY Heads, IoRead DEF ProbeFailed
<1> DEFINE ops == {"probeTimeout", "probeFailed", "probeClose"}
<1>2. CASE dq' = dq /\ ioq' = Tail(ioq) \o <<>>
  BY <1>1, <1>2, Untouched, IoTouch, Made
<1>3. CASE \E f : HandleFailed(H.who, f)
  <2>1. /\ Undisturbed(dq, dq', Others({"note"}))
        /\ Undisturbed(ioq, ioq', Others({H.op, "probeClose"}))
    BY <1>1, <1>3, HandleFailedTouches
  <2>2. Others(ops) \subseteq Others({H.op, "probeClose"})
    BY <1>1 DEF Others
  <2>3. QED
    BY <2>1, <2>2 DEF Undisturbed
<1>4. QED
  BY <1>2, <1>3 DEF ProbeFailed, Posting

LEMMA ProbeAnsweredTouches ==
    ASSUME Typed, ProbeAnswered
    PROVE  Undisturbed(ioq, ioq', Others({"probeAnswer", "probeClose"}))
<1> DEFINE ops == {"probeAnswer", "probeClose"}
<1>1. ioq # <<>> /\ H.op \in ops
  BY DEF ProbeAnswered, Running, H
<1>2. ioq' = Tail(ioq) \o ProbeClosed \/ ioq' = Tail(ioq) \o <<>>
  BY DEF ProbeAnswered, Posting
<1>3. /\ ProbeClosed \in Seq(IoEntries) /\ ~Has(ProbeClosed, Others(ops))
      /\ <<>> \in Seq(IoEntries) /\ ~Has(<<>>, Others(ops))
  BY ProbeClosedOnly, Made
<1> HIDE DEF ops
<1>4. Undisturbed(ioq, ioq', Others(ops))
  BY <1>1, <1>2, <1>3, IoTouch
<1>5. QED
  BY <1>4 DEF ops

LEMMA EndSessionTouches ==
    ASSUME Typed, EndSession
    PROVE  Undisturbed(dq, dq', Others({"stop"}))
<1>1. dq # <<>> /\ E.op = "stop" /\ dq' = Tail(dq) \o <<>>
  BY DEF EndSession, Dispatching, Dispatched, E
<1>2. QED
  BY <1>1, DqTouch, Made

LEMMA PostShutdownTouches ==
    ASSUME Typed, PostShutdown
    PROVE  Undisturbed(ioq, ioq', Others({"shutdown"}))
<1> DEFINE e == Do("shutdown")
<1>1. e \in IoEntries /\ e \notin Others({"shutdown"}) /\ ioq' = ioq \o <<e>>
  BY IoMade DEF Do, Entry, Others, PostShutdown, Post
<1> HIDE DEF e
<1>2. QED
  BY <1>1, IoTouch, Made

LEMMA DispatchSignalTouches ==
    ASSUME Typed, DispatchSignal
    PROVE  /\ Undisturbed(dq, dq', Others({"signal", "note", "peerClosed", "report"}))
           /\ Undisturbed(ioq, ioq', Others({"erase", "probeAnswer", "probeFailed"}))
<1> DEFINE D == {"signal", "note", "peerClosed", "report"}
           I == {"erase", "probeAnswer", "probeFailed"}
<1>1. PICK x \in Seq(DqEntries), y \in Seq(IoEntries) :
             /\ dq # <<>> /\ E.op = "signal" /\ dq' = Tail(dq) \o x /\ ioq' = ioq \o y
             /\ \/ x = <<>>
                \/ x = <<Note("ready", E.who, session[E.who])>>
                \/ x = <<Entry("peerClosed", E.who, 0, "slot")>>
                \/ x = <<Entry("report", E.who, 0, E.what)>>
             /\ \/ y = <<>>
                \/ y = <<About("erase", E.who)>>
                \/ y = <<About("probeAnswer", E.who)>>
                \/ y = <<About("probeFailed", E.who)>>
  BY SignalDispatched
<1>2. /\ \A k, n : Note("ready", k, n) \notin Others(D)
      /\ \A k, w : Entry("peerClosed", k, 0, w) \notin Others(D) /\ Entry("report", k, 0, w) \notin Others(D)
      /\ \A k : /\ About("erase", k) \notin Others(I) /\ About("probeAnswer", k) \notin Others(I)
                /\ About("probeFailed", k) \notin Others(I)
  BY DEF Note, About, Entry, Others
<1>3. \A e, f, A : ~Has(<<>>, A) /\ (e \notin A => ~Has(<<e>>, A))
  BY Literals
<1>4. E.op \in D
  BY <1>1
<1> HIDE DEF D, I
<1>5. ~Has(x, Others(D)) /\ ~Has(y, Others(I))
  BY <1>1, <1>2, <1>3
<1>6. Undisturbed(dq, dq', Others(D)) /\ Undisturbed(ioq, ioq', Others(I))
  BY <1>1, <1>4, <1>5, DqTouch, IoTouch
<1>7. QED
  BY <1>6 DEF D, I

LEMMA StopTouches ==
    ASSUME Typed, Stop
    PROVE  Undisturbed(ioq, ioq', Others({"stop", "peerClose", "probeClose"}))
<1> DEFINE ops == {"stop", "peerClose", "probeClose"}
           x == AllPeersClosed \o ProbeClosed
<1>1. ioq # <<>> /\ H.op \in ops
  BY DEF Stop, Running, H
<1>2. ioq' = Tail(ioq) \o x \/ ioq' = Tail(ioq) \o <<>>
  BY DEF Stop, Posting
<1>3. \A k : About("peerClose", k) \notin Others(ops) /\ About("probeClose", k) \notin Others(ops)
  BY DEF About, Entry, Others
<1> HIDE DEF ops
<1>4. /\ x \in Seq(IoEntries) /\ ~Has(x, Others(ops))
      /\ <<>> \in Seq(IoEntries) /\ ~Has(<<>>, Others(ops))
  BY <1>3, ClosingPosts, Made
<1> HIDE DEF x
<1>5. Undisturbed(ioq, ioq', Others(ops))
  BY <1>1, <1>2, <1>4, IoTouch
<1>6. QED
  BY <1>5 DEF ops

\* What the handler of shutdown posts.
LEMMA ShutdownPosts ==
    ASSUME Typed, Shutdown
    PROVE  LET x == AllPeersClosed \o ProbeClosed
               k == Do("keepAlive")
           IN /\ ioq # <<>> /\ H.op = "shutdown" /\ ioq' = Tail(ioq) \o (x \o <<k>>)
              /\ x \o <<k>> \in Seq(IoEntries)
              /\ \A A : Has(x \o <<k>>, A) <=> Has(x, A) \/ k \in A
<1> DEFINE x == AllPeersClosed \o ProbeClosed
           k == Do("keepAlive")
<1>1. x \in Seq(IoEntries) /\ <<k>> \in Seq(IoEntries)
  BY ClosingPosts, IoMade, Made
<1>2. \A A : Has(<<k>>, A) <=> k \in A
  BY Literals
<1>3. AllPeersClosed \o ProbeClosed \o <<k>> = x \o <<k>>
  OBVIOUS
<1>4. ioq # <<>> /\ H.op = "shutdown" /\ ioq' = Tail(ioq) \o (x \o <<k>>)
  BY <1>3 DEF Shutdown, Running, Posting, H
<1> HIDE DEF x, k
<1>5. x \o <<k>> \in Seq(IoEntries) /\ \A A : Has(x \o <<k>>, A) <=> Has(x, A) \/ k \in A
  BY <1>1, <1>2, SentHas
<1>6. QED
  BY <1>4, <1>5 DEF x, k

LEMMA ShutdownTouches ==
    ASSUME Typed, Shutdown
    PROVE  Undisturbed(ioq, ioq', Others({"shutdown", "keepAlive", "peerClose", "probeClose"}))
<1> DEFINE ops == {"shutdown", "keepAlive", "peerClose", "probeClose"}
           a == AllPeersClosed \o ProbeClosed
           k == Do("keepAlive")
           x == a \o <<k>>
<1>1. ioq # <<>> /\ H.op \in ops /\ ioq' = Tail(ioq) \o x /\ x \in Seq(IoEntries)
      /\ \A A : Has(x, A) <=> Has(a, A) \/ k \in A
  BY ShutdownPosts
<1>2. /\ \A j : About("peerClose", j) \notin Others(ops) /\ About("probeClose", j) \notin Others(ops)
      /\ k \notin Others(ops)
  BY DEF About, Do, Entry, Others
<1> HIDE DEF ops, k
<1>3. ~Has(a, Others(ops))
  BY <1>2, ClosingPosts
<1> HIDE DEF a, x
<1>4. ~Has(x, Others(ops))
  BY <1>1, <1>2, <1>3
<1>5. Undisturbed(ioq, ioq', Others(ops))
  BY <1>1, <1>4, IoTouch
<1>6. QED
  BY <1>5 DEF ops

-----------------------------------------------------------------------------
\* Connections: what is open has an owner.

Owned == (\A k \in Peers : Socket(k)) /\ (\A k \in Probes : ProbeOwned(k))

\* A step that reports nothing closed and leaves what closes a connection where it is.
DqQuiet == \A k \in Peers : Has(dq', Gone(k)) => Has(dq, Gone(k))
IoQuiet ==
    \A k \in Peers : /\ Has(ioq', Handlers("erase", k)) => Has(ioq, Handlers("erase", k))
                     /\ Has(ioq, Handlers("peerClose", k)) => Has(ioq', Handlers("peerClose", k))
IoKept ==
    \A k \in Probes :
      \A op \in {"probeClose", "probeConnected"} :
        Has(ioq, Handlers(op, k)) => Has(ioq', Handlers(op, k))

LEMMA SocketsKept ==
    ASSUME \A k \in Peers : Socket(k), DqQuiet, IoQuiet, peers \subseteq peers',
           \A k \in Peers : sock'[k] = "open" => sock[k] = "open"
    PROVE  \A k \in Peers : Socket(k)'
BY DEF Socket, DqQuiet, IoQuiet

LEMMA ProbesKept ==
    ASSUME \A k \in Probes : ProbeOwned(k), IoKept, UNCHANGED probePeer,
           \A k \in Probes : \/ probes'[k].state = probes[k].state
                             \/ probes'[k].state \in {"free", "connecting", "closed", "done"}
                             \/ probes'[k].state = "answered" /\ probes[k].state = "open"
    PROVE  \A k \in Probes : ProbeOwned(k)'
BY DEF ProbeOwned, IoKept

LEMMA DqQuietOthers ==
    ASSUME NEW ops, Undisturbed(dq, dq', Others(ops)), "signal" \notin ops, "peerClosed" \notin ops
    PROVE  DqQuiet
<1>1. \A k : Gone(k) \in SUBSET Others(ops)
  BY DEF Gone, Signals, Ends, Others
<1>2. \A A \in SUBSET Others(ops) : Has(dq', A) <=> Has(dq, A)
  BY DEF Undisturbed
<1>3. QED
  BY <1>1, <1>2 DEF DqQuiet

LEMMA IoOthers ==
    ASSUME NEW ops, Undisturbed(ioq, ioq', Others(ops)), NEW op, op \notin ops
    PROVE  \A k : Has(ioq', Handlers(op, k)) <=> Has(ioq, Handlers(op, k))
<1>1. \A k : Handlers(op, k) \in SUBSET Others(ops)
  BY DEF Handlers, Others
<1>2. \A A \in SUBSET Others(ops) : Has(ioq', A) <=> Has(ioq, A)
  BY DEF Undisturbed
<1>3. QED
  BY <1>1, <1>2

LEMMA IoQuietOthers ==
    ASSUME NEW ops, Undisturbed(ioq, ioq', Others(ops)), "erase" \notin ops, "peerClose" \notin ops
    PROVE  IoQuiet
BY IoOthers DEF IoQuiet

LEMMA IoKeptOthers ==
    ASSUME NEW ops, Undisturbed(ioq, ioq', Others(ops)), "probeClose" \notin ops,
           "probeConnected" \notin ops
    PROVE  IoKept
BY IoOthers DEF IoKept

LEMMA QueueKept ==
    /\ dq' = dq => DqQuiet
    /\ ioq' = ioq => IoQuiet /\ IoKept
BY DEF DqQuiet, IoQuiet, IoKept

LEMMA AllOwned ==
    ASSUME Owned, DqQuiet, IoQuiet, IoKept, UNCHANGED <<sock, peers, probes, probePeer>>
    PROVE  Owned'
BY SocketsKept, ProbesKept DEF Owned

LEMMA CallOwned ==
    ASSUME Typed, Owned, NEW op \in {"start", "stop"}, Call(op)
    PROVE  Owned'
<1>1. DqQuiet
  BY CallTyped, DqQuietOthers
<1>2. IoQuiet /\ IoKept
  BY QueueKept DEF Call, scopeVars, taskVars, acceptorVars, peerVars, probeVars, appVars
<1>3. UNCHANGED <<sock, peers, probes, probePeer>>
  BY DEF Call, scopeVars, taskVars, acceptorVars, peerVars, probeVars, appVars
<1>4. QED
  BY <1>1, <1>2, <1>3, AllOwned

LEMMA AsyncClosePeerOwned ==
    ASSUME Typed, Owned, NEW id \in Peers, AsyncClosePeer(id)
    PROVE  Owned'
<1>1. DqQuiet
  BY QueueKept DEF AsyncClosePeer, Post, scopeVars, taskVars, acceptorVars, peerVars, probeVars,
     appVars
<1>2. IoQuiet /\ IoKept
  BY AsyncClosePeerTyped, IoQuietOthers, IoKeptOthers
<1>3. UNCHANGED <<sock, peers, probes, probePeer>>
  BY DEF AsyncClosePeer, Post, scopeVars, taskVars, acceptorVars, peerVars, probeVars, appVars
<1>4. QED
  BY <1>1, <1>2, <1>3, AllOwned

LEMMA StartOwned ==
    ASSUME Typed, Owned, Start
    PROVE  Owned'
<1>1. DqQuiet
  BY StartTyped, DqQuietOthers
<1>2. IoQuiet /\ IoKept
  BY StartTyped, IoQuietOthers, IoKeptOthers
<1>3. UNCHANGED <<sock, peers, probes, probePeer>>
  BY DEF Start, Dispatching, Post, Dispatched, taskVars, acceptorVars, peerVars, probeVars,
     appVars
<1>4. QED
  BY <1>1, <1>2, <1>3, AllOwned

LEMMA EndSessionOwned ==
    ASSUME Typed, Owned, EndSession
    PROVE  Owned'
<1>1. DqQuiet
  BY EndSessionTouches, DqQuietOthers
<1>2. IoQuiet /\ IoKept
  BY QueueKept DEF EndSession, Dispatching, SessionEnded, Dispatched, taskVars, acceptorVars,
     peerVars, probeVars
<1>3. UNCHANGED <<sock, peers, probes, probePeer>>
  BY DEF EndSession, Dispatching, SessionEnded, Dispatched, taskVars, acceptorVars, peerVars,
     probeVars
<1>4. QED
  BY <1>1, <1>2, <1>3, AllOwned

LEMMA PostStopOwned ==
    ASSUME Typed, Owned, PostStop
    PROVE  Owned'
<1>1. DqQuiet
  BY PostStopTyped, DqQuietOthers
<1>2. IoQuiet /\ IoKept
  BY PostStopTyped, IoQuietOthers, IoKeptOthers
<1>3. UNCHANGED <<sock, peers, probes, probePeer>>
  BY DEF PostStop, Enqueue, Post, scopeVars, taskVars, acceptorVars, peerVars, probeVars,
     appVars
<1>4. QED
  BY <1>1, <1>2, <1>3, AllOwned

LEMMA NotifyOwned ==
    ASSUME Typed, Owned, Notify
    PROVE  Owned'
<1>1. DqQuiet
  BY NotifyTyped, DqQuietOthers
<1>2. IoQuiet /\ IoKept
  BY QueueKept DEF Notify, Dispatching, Dispatched, Followups, scopeVars, taskVars, acceptorVars,
     peerVars, probeVars, Retried
<1>3. UNCHANGED <<sock, peers, probes, probePeer>>
  BY DEF Notify, Dispatching, Dispatched, Followups, scopeVars, taskVars, acceptorVars, peerVars,
     probeVars, Retried
<1>4. QED
  BY <1>1, <1>2, <1>3, AllOwned

LEMMA NotifyReadyOwned ==
    ASSUME Typed, Owned, NEW answer \in {"verified", "refused"}, NotifyReady(answer)
    PROVE  Owned'
<1>1. DqQuiet
  BY NotifyReadyTyped, DqQuietOthers
<1>2. IoQuiet /\ IoKept
  BY NotifyReadyTyped, IoQuietOthers, IoKeptOthers
<1>3. UNCHANGED <<sock, peers, probes, probePeer>>
  BY DEF NotifyReady, Dispatching, Post, Dispatched, scopeVars, taskVars, acceptorVars, peerVars,
     probeVars
<1>4. QED
  BY <1>1, <1>2, <1>3, AllOwned

LEMMA ReportOwned ==
    ASSUME Typed, Owned, Report
    PROVE  Owned'
<1>1. DqQuiet
  BY ReportTyped, DqQuietOthers
<1>2. IoQuiet /\ IoKept
  BY QueueKept DEF Report, Dispatching, Dispatched, scopeVars, taskVars, acceptorVars, peerVars,
     probeVars, appVars
<1>3. UNCHANGED <<sock, peers, probes, probePeer>>
  BY DEF Report, Dispatching, Dispatched, scopeVars, taskVars, acceptorVars, peerVars, probeVars,
     appVars
<1>4. QED
  BY <1>1, <1>2, <1>3, AllOwned

LEMMA DebounceOwned ==
    ASSUME Typed, Owned, Debounce
    PROVE  Owned'
<1>1. DqQuiet
  BY DebounceTyped, DqQuietOthers
<1>2. IoQuiet /\ IoKept
  BY QueueKept DEF Debounce, Dispatched, scopeVars, acceptorVars, peerVars, probeVars, appVars
<1>3. UNCHANGED <<sock, peers, probes, probePeer>>
  BY DEF Debounce, Dispatched, scopeVars, acceptorVars, peerVars, probeVars, appVars
<1>4. QED
  BY <1>1, <1>2, <1>3, AllOwned

LEMMA RetryOwned ==
    ASSUME Typed, Owned, Retry
    PROVE  Owned'
<1>1. DqQuiet
  BY QueueKept DEF Retry, Post, scopeVars, acceptorVars, peerVars, probeVars, appVars
<1>2. IoQuiet /\ IoKept
  BY RetryTyped, IoQuietOthers, IoKeptOthers
<1>3. UNCHANGED <<sock, peers, probes, probePeer>>
  BY DEF Retry, Post, scopeVars, acceptorVars, peerVars, probeVars, appVars
<1>4. QED
  BY <1>1, <1>2, <1>3, AllOwned

LEMMA TimerOwned ==
    ASSUME Typed, Owned, Timer
    PROVE  Owned'
<1>1. DqQuiet
  BY TimerTyped, DqQuietOthers
<1>2. IoQuiet /\ IoKept
  BY QueueKept DEF Timer, Dispatched, scopeVars, acceptorVars, peerVars, probeVars, appVars
<1>3. UNCHANGED <<sock, peers, probes, probePeer>>
  BY DEF Timer, Dispatched, scopeVars, acceptorVars, peerVars, probeVars, appVars
<1>4. QED
  BY <1>1, <1>2, <1>3, AllOwned

LEMMA WatchFiresOwned ==
    ASSUME Typed, Owned, WatchFires
    PROVE  Owned'
<1>1. DqQuiet
  BY WatchFiresTyped, DqQuietOthers
<1>2. IoQuiet /\ IoKept
  BY QueueKept DEF WatchFires, Enqueue, scopeVars, taskVars, acceptorVars, peerVars, probeVars,
     appVars
<1>3. UNCHANGED <<sock, peers, probes, probePeer>>
  BY DEF WatchFires, Enqueue, scopeVars, taskVars, acceptorVars, peerVars, probeVars, appVars
<1>4. QED
  BY <1>1, <1>2, <1>3, AllOwned

LEMMA CheckOwned ==
    ASSUME Typed, Owned, Check
    PROVE  Owned'
<1>1. DqQuiet
  BY CheckTyped, DqQuietOthers
<1>2. IoQuiet /\ IoKept
  BY CheckTyped, IoQuietOthers, IoKeptOthers
<1>3. UNCHANGED <<sock, peers, probes, probePeer>>
  BY DEF Check, Dispatching, Post, Dispatched, scopeVars, taskVars, acceptorVars, peerVars,
     probeVars, appVars
<1>4. QED
  BY <1>1, <1>2, <1>3, AllOwned

LEMMA PostShutdownOwned ==
    ASSUME Typed, Owned, PostShutdown
    PROVE  Owned'
<1>1. DqQuiet
  BY QueueKept DEF PostShutdown, SessionEnded, Post, taskVars, acceptorVars, peerVars, probeVars
<1>2. IoQuiet /\ IoKept
  BY PostShutdownTouches, IoQuietOthers, IoKeptOthers
<1>3. UNCHANGED <<sock, peers, probes, probePeer>>
  BY DEF PostShutdown, SessionEnded, Post, taskVars, acceptorVars, peerVars, probeVars
<1>4. QED
  BY <1>1, <1>2, <1>3, AllOwned

LEMMA BindOwned ==
    ASSUME Typed, Owned, NEW outcome \in {"bound", "bind_failed", "ignored"}, Bind(outcome)
    PROVE  Owned'
<1>1. DqQuiet
  BY BindTouches, DqQuietOthers
<1>2. IoQuiet /\ IoKept
  BY BindTouches, IoQuietOthers, IoKeptOthers
<1>3. UNCHANGED <<sock, peers, probes, probePeer>>
  BY DEF Bind, Running, Posting, MayBind, acceptorVars, Enqueue, CloseAcceptor, peerVars,
     probeVars, DispatcherUnchanged, Locked, scopeVars, taskVars, appVars
<1>4. QED
  BY <1>1, <1>2, <1>3, AllOwned

LEMMA AcceptCompletesOwned ==
    ASSUME Typed, Owned, NEW outcome \in {"ok", "error"}, AcceptCompletes(outcome)
    PROVE  Owned'
<1>1. DqQuiet
  BY QueueKept DEF AcceptCompletes, Post, peerVars, probeVars, DispatcherUnchanged, scopeVars,
     taskVars, appVars
<1>2. IoQuiet /\ IoKept
  BY AcceptCompletesTouches, IoQuietOthers, IoKeptOthers
<1>3. UNCHANGED <<sock, peers, probes, probePeer>>
  BY DEF AcceptCompletes, Post, peerVars, probeVars, DispatcherUnchanged, scopeVars, taskVars,
     appVars
<1>4. QED
  BY <1>1, <1>2, <1>3, AllOwned

LEMMA KeepAliveOwned ==
    ASSUME Typed, Owned, KeepAlive
    PROVE  Owned'
<1>1. DqQuiet
  BY QueueKept DEF KeepAlive, Running, Posting, acceptorVars, peerVars, probeVars, IoUnchanged,
     DispatcherUnchanged, scopeVars, taskVars, appVars
<1>2. IoQuiet /\ IoKept
  BY KeepAliveTyped, IoQuietOthers, IoKeptOthers
<1>3. UNCHANGED <<sock, peers, probes, probePeer>>
  BY DEF KeepAlive, Running, Posting, acceptorVars, peerVars, probeVars, IoUnchanged,
     DispatcherUnchanged, scopeVars, taskVars, appVars
<1>4. QED
  BY <1>1, <1>2, <1>3, AllOwned

LEMMA ProbeIgnoredOwned ==
    ASSUME Typed, Owned, ProbeIgnored
    PROVE  Owned'
<1>1. DqQuiet
  BY QueueKept DEF ProbeIgnored, Running, MayProbe, Posting, acceptorVars, peerVars, probeVars,
     IoUnchanged, Locked, DispatcherUnchanged, scopeVars, taskVars, appVars
<1>2. IoQuiet /\ IoKept
  BY ProbeIgnoredTyped, IoQuietOthers, IoKeptOthers
<1>3. UNCHANGED <<sock, peers, probes, probePeer>>
  BY DEF ProbeIgnored, Running, MayProbe, Posting, acceptorVars, peerVars, probeVars,
     IoUnchanged, Locked, DispatcherUnchanged, scopeVars, taskVars, appVars
<1>4. QED
  BY <1>1, <1>2, <1>3, AllOwned

LEMMA DestroyOwned ==
    ASSUME Typed, Owned, Destroy
    PROVE  Owned'
<1>1. DqQuiet
  BY QueueKept DEF Destroy, acceptorVars, peerVars, probeVars, IoUnchanged, DispatcherUnchanged,
     scopeVars, taskVars, appVars
<1>2. IoQuiet /\ IoKept
  BY QueueKept DEF Destroy, acceptorVars, peerVars, probeVars, IoUnchanged, DispatcherUnchanged,
     scopeVars, taskVars, appVars
<1>3. UNCHANGED <<sock, peers, probes, probePeer>>
  BY DEF Destroy, acceptorVars, peerVars, probeVars, IoUnchanged, DispatcherUnchanged, scopeVars,
     taskVars, appVars
<1>4. QED
  BY <1>1, <1>2, <1>3, AllOwned

\* A signal that is not the end of a peer.
LEMMA SignalSent ==
    ASSUME Typed, NEW e \in DqEntries, \A k \in Peers : e \notin Gone(k),
           dq' = Append(dq, e) \/ dq' = dq
    PROVE  DqQuiet
<1>1. dq \in Seq(DqEntries)
  BY DEF Typed, DqTyped
<1>2. <<e>> \in Seq(DqEntries) /\ \A A : Has(<<e>>, A) <=> e \in A
  BY Made, Literals
<1>3. CASE dq' = dq \o <<e>>
  BY <1>1, <1>2, <1>3, SentHas DEF DqQuiet
<1>4. CASE dq' = dq
  BY <1>4, QueueKept
<1>5. QED
  BY <1>1, <1>3, <1>4, Plain

LEMMA SignalsQuiet ==
    \A k \in Peers : /\ \A w \in {"ready", "report", "late"} : \A j : Signal(w, j) \notin Gone(k)
                     /\ \A j \in Probes : \A w : Signal(w, j) \notin Gone(k)
BY Names DEF Signal, Entry, Gone, Signals, Ends

LEMMA ErasedQuiet ==
    ASSUME Typed, NEW I \in SUBSET DOMAIN dq, dq' = Selected(dq, I)
    PROVE  DqQuiet
BY ErasedHas DEF DqQuiet, Typed, DqTyped

LEMMA PeerReadyOwned ==
    ASSUME Typed, Owned, NEW id \in Peers, PeerReady(id)
    PROVE  Owned'
<1>1. Signal("ready", id) \in DqEntries
  BY DqMade
<1>2. dq' = Append(dq, Signal("ready", id)) /\ UNCHANGED <<ioq, sock, peers, probes, probePeer>>
  BY DEF PeerReady, probeVars
<1>3. QED
  BY <1>1, <1>2, SignalsQuiet, SignalSent, QueueKept, AllOwned

LEMMA PeerReportsOwned ==
    ASSUME Typed, Owned, NEW id \in Peers, PeerReports(id)
    PROVE  Owned'
<1> DEFINE w == IF sock[id] = "open" THEN "report" ELSE "late"
<1>1. Signal(w, id) \in DqEntries /\ w \in {"report", "late"}
  BY DqMade
<1>2. dq' = Append(dq, Signal(w, id)) /\ UNCHANGED <<ioq, sock, peers, probes, probePeer>>
  BY DEF PeerReports, peerVars, probeVars
<1>3. QED
  BY <1>1, <1>2, SignalsQuiet, SignalSent, QueueKept, AllOwned

LEMMA PeerClosedOwned ==
    ASSUME Typed, Owned, PeerClosed
    PROVE  Owned'
<1>1. dq # <<>> /\ dq' = Tail(dq) \o <<>> /\ UNCHANGED <<ioq, sock, peers, probes, probePeer>>
  BY DEF PeerClosed, Dispatching, Dispatched, peerVars, probeVars
<1>2. dq \in Seq(DqEntries) /\ <<>> \in Seq(DqEntries)
  BY Made DEF Typed, DqTyped
<1>3. \A A : Has(Tail(dq) \o <<>>, A) => Has(dq, A)
  BY <1>1, <1>2, TakenHas, Made
<1>4. DqQuiet
  BY <1>1, <1>3 DEF DqQuiet
<1>5. QED
  BY <1>1, <1>4, QueueKept, AllOwned

LEMMA DetachOwned ==
    ASSUME Typed, Owned, Detach
    PROVE  Owned'
<1> DEFINE I == {i \in DOMAIN dq : dq[i].op = "signal"}
<1>1. I \in SUBSET DOMAIN dq /\ dq' = Selected(dq, I) /\ UNCHANGED <<ioq, sock, peers, probes, probePeer>>
  BY DEF Detach, peerVars, probeVars
<1> HIDE DEF I
<1>2. QED
  BY <1>1, ErasedQuiet, QueueKept, AllOwned

LEMMA ReleaseOwned ==
    ASSUME Typed, Owned, NEW id \in Peers, Release(id)
    PROVE  Owned'
<1> DEFINE I == {i \in DOMAIN dq : ~(dq[i].op = "signal" /\ dq[i].who = id)}
<1>1. I \in SUBSET DOMAIN dq /\ dq' = Selected(dq, I)
  BY DEF Release
<1> HIDE DEF I
<1>2. /\ UNCHANGED <<ioq, peers, probes, probePeer>> /\ sock' = [sock EXCEPT ![id] = "gone"]
      /\ sock \in [Peers -> SockStates]
  BY DEF Release, probeVars, Typed, StateTyped, PeersTyped
<1>3. \A k \in Peers : sock'[k] = "open" => sock[k] = "open"
  BY <1>2
<1>4. DqQuiet /\ IoQuiet /\ IoKept
  BY <1>1, <1>2, ErasedQuiet, QueueKept
<1>5. QED
  BY <1>2, <1>3, <1>4, SocketsKept, ProbesKept DEF Owned

\* A peer that closes, or is closed: one less to own.
LEMMA SocketCloses ==
    ASSUME Typed, \A k \in Peers : Socket(k), NEW id \in Peers, sock' = [sock EXCEPT ![id] = "closed"],
           UNCHANGED peers, NEW x \in Seq(DqEntries), dq' = dq \o x,
           \A k \in Peers : Has(x, Gone(k)) => k = id,
           \A k \in Peers :
             k # id => /\ Has(ioq', Handlers("erase", k)) => Has(ioq, Handlers("erase", k))
                       /\ Has(ioq, Handlers("peerClose", k)) => Has(ioq', Handlers("peerClose", k))
    PROVE  \A k \in Peers : Socket(k)'
<1>1. dq \in Seq(DqEntries) /\ sock \in [Peers -> SockStates]
  BY DEF Typed, DqTyped, StateTyped, PeersTyped
<1>2. \A k \in Peers : Has(dq', Gone(k)) => Has(dq, Gone(k)) \/ k = id
  BY <1>1, SentHas
<1>3. sock'[id] = "closed" /\ \A k \in Peers : k # id => sock'[k] = sock[k]
  BY <1>1
<1>4. QED
  BY <1>2, <1>3 DEF Socket

LEMMA PeerEndsOwned ==
    ASSUME Typed, Owned, NEW id \in Peers, NEW failed \in BOOLEAN, PeerEnds(id, failed)
    PROVE  Owned'
<1> DEFINE c == Signal("closed", id)
           r == Signal("report", id)
<1>1. c \in DqEntries /\ r \in DqEntries /\ \A k \in Peers : (c \in Gone(k) => k = id) /\ r \notin Gone(k)
  BY DqMade DEF Signal, Entry, Gone, Signals, Ends
<1>2. /\ UNCHANGED <<ioq, peers, probes, probePeer>> /\ sock' = [sock EXCEPT ![id] = "closed"]
      /\ dq' = dq \o <<r, c>> \/ dq' = Append(dq, c)
  BY DEF PeerEnds, probeVars, LastWords
<1> HIDE DEF c, r
<1>3. \E x \in Seq(DqEntries) : dq' = dq \o x /\ \A k \in Peers : Has(x, Gone(k)) => k = id
  <2>1. <<c>> \in Seq(DqEntries) /\ <<r, c>> \in Seq(DqEntries)
    BY <1>1, Made
  <2>2. \A k \in Peers : /\ Has(<<c>>, Gone(k)) <=> c \in Gone(k)
                         /\ Has(<<r, c>>, Gone(k)) <=> r \in Gone(k) \/ c \in Gone(k)
    BY Literals
  <2>3. Append(dq, c) = dq \o <<c>>
    BY <1>1, Plain DEF Typed, DqTyped
  <2>4. QED
    BY <1>1, <1>2, <2>1, <2>2, <2>3
<1>4. \A k \in Peers : Socket(k)'
  BY <1>2, <1>3, SocketCloses DEF Owned
<1>5. QED
  BY <1>2, <1>4, QueueKept, ProbesKept DEF Owned

\* A peer is accepted: nothing is queued of it yet.
LEMMA AcceptedOwned ==
    ASSUME Typed, Owned, Accepted
    PROVE  Owned'
<1>1. DqQuiet /\ IoQuiet /\ IoKept
  BY AcceptedTouches, DqQuietOthers, IoQuietOthers, IoKeptOthers
<1>2. UNCHANGED <<probes, probePeer>>
  BY DEF Accepted, probeVars
<1>3. \A k \in Probes : ProbeOwned(k)'
  BY <1>1, <1>2, ProbesKept DEF Owned
<1>4. CASE UNCHANGED <<sock, peers>>
  BY <1>1, <1>2, <1>4, AllOwned
<1>5. CASE /\ next + 1 \in Peers /\ peers' = peers \cup {next + 1}
           /\ sock' = [sock EXCEPT ![next + 1] = "open"]
  <2> DEFINE j == next + 1
  <2>1. j \in Peers /\ j \notin Known(next) /\ sock \in [Peers -> SockStates] /\ next \in Nat
    <3>1. next \in Nat
      BY Numbers
    <3>2. j \notin 1..next
      BY <3>1
    <3>3. QED
      BY <1>5, <3>1, <3>2, Numbers DEF Typed, StateTyped, PeersTyped
  <2>2. ~Has(dq, Gone(j)) /\ ~Has(ioq, Handlers("erase", j))
    <3>1. Gone(j) \subseteq Beyond(generation, next) /\ Handlers("erase", j) \subseteq Beyond(generation, next)
      BY <2>1 DEF Gone, Signals, Ends, Handlers, Beyond
    <3>2. QED
      BY <3>1 DEF Typed, DqTyped, IoTyped, Has
  <2>3. /\ j \in peers' /\ peers \subseteq peers'
        /\ \A k \in Peers : k # j => sock'[k] = sock[k]
    BY <1>5, <2>1
  <2> HIDE DEF j
  <2>4. ASSUME NEW k \in Peers
        PROVE  Socket(k)'
    <3>1. CASE k = j
      BY <1>1, <2>1, <2>2, <2>3, <3>1 DEF Socket, DqQuiet, IoQuiet
    <3>2. CASE k # j
      BY <1>1, <2>3, <3>2 DEF Socket, DqQuiet, IoQuiet, Owned
    <3>3. QED
      BY <3>1, <3>2
  <2>5. QED
    BY <1>3, <2>4 DEF Owned
<1>6. QED
  BY <1>4, <1>5 DEF Accepted, peerVars

\* Erase is queued when the peer has closed.
LEMMA EraseOwned ==
    ASSUME Typed, Owned, Erase
    PROVE  Owned'
<1> DEFINE id == H.who
<1>1. ioq # <<>> /\ H = Head(ioq) /\ H \in Handlers("erase", id) /\ ioq' = Tail(ioq) \o <<>>
  BY Heads DEF Erase, Running, H, Handlers, Posting
<1>2. ioq \in Seq(IoEntries) /\ <<>> \in Seq(IoEntries)
  BY Made DEF Typed, IoTyped
<1>3. Has(ioq, Handlers("erase", id))
  BY <1>1, <1>2, TakenHas
<1>4. \A A : Has(ioq', A) => Has(ioq, A)
  BY <1>1, <1>2, TakenHas, Made
<1>5. \A k : Has(ioq', Handlers("peerClose", k)) <=> Has(ioq, Handlers("peerClose", k))
  BY EraseTyped, IoOthers
<1>6. UNCHANGED <<dq, sock, probes, probePeer>> /\ (peers' = peers \/ peers' = peers \ {id})
  BY DEF Erase, probeVars
<1>7. IoKept
  BY EraseTyped, IoKeptOthers
<1> HIDE DEF id
<1>8. \A k \in Peers : Socket(k)'
  <2> SUFFICES ASSUME NEW k \in Peers
               PROVE  Socket(k)'
    OBVIOUS
  <2>1. Socket(k)
    BY DEF Owned
  <2>2. CASE k = id
    BY <1>3, <1>6, <2>1, <2>2 DEF Socket
  <2>3. CASE k # id
    BY <1>4, <1>5, <1>6, <2>1, <2>3 DEF Socket
  <2>4. QED
    BY <2>2, <2>3
<1>9. QED
  BY <1>6, <1>7, <1>8, ProbesKept DEF Owned

LEMMA ClosePeerOwned ==
    ASSUME Typed, Owned, ClosePeer
    PROVE  Owned'
<1> DEFINE id == H.who
           t == Entry("peerClose", id, 0, "notify")
<1>1. /\ ioq # <<>> /\ H = Head(ioq) /\ H.op = "closePeer" /\ id \in Peers
      /\ UNCHANGED <<sock, probes, probePeer, dq>>
      /\ \/ ioq' = Tail(ioq) \o <<>> /\ peers' = peers
         \/ ioq' = Tail(ioq) \o <<t>> /\ peers' = peers \ {id}
  BY Heads, IoRead DEF ClosePeer, Running, H, Posting, AsyncClose, probeVars
<1>2. \A k : Has(ioq', Handlers("erase", k)) <=> Has(ioq, Handlers("erase", k))
  BY ClosePeerTyped, IoOthers
<1>3. IoKept
  BY ClosePeerTyped, IoKeptOthers
<1>4. \A k : H \notin Handlers("peerClose", k)
  BY <1>1 DEF Handlers
<1>5. /\ t \in IoEntries /\ t \in Handlers("peerClose", id)
      /\ ioq \in Seq(IoEntries)
  BY <1>1, IoMade DEF Entry, Handlers, Typed, IoTyped
<1> HIDE DEF id, t
<1>6. /\ <<t>> \in Seq(IoEntries) /\ <<>> \in Seq(IoEntries)
      /\ \A A : Has(<<t>>, A) <=> t \in A
  BY <1>5, Made, Literals
<1>7. /\ \A k : Has(ioq, Handlers("peerClose", k)) => Has(ioq', Handlers("peerClose", k))
      /\ peers' = peers \/ (peers' = peers \ {id} /\ Has(ioq', Handlers("peerClose", id)))
  <2>1. \A A : Has(ioq, A) <=> H \in A \/ Has(Tail(ioq), A)
    BY <1>1, <1>5, TakenHas DEF H
  <2>2. \A A : /\ Has(Tail(ioq) \o <<t>>, A) <=> Has(Tail(ioq), A) \/ t \in A
               /\ Has(Tail(ioq) \o <<>>, A) <=> Has(Tail(ioq), A)
    BY <1>1, <1>5, <1>6, TakenHas, Made
  <2>3. QED
    BY <1>1, <1>4, <1>5, <2>1, <2>2
<1>8. \A k \in Peers : Socket(k)'
  BY <1>1, <1>2, <1>7 DEF Socket, Owned
<1>9. QED
  BY <1>1, <1>3, <1>8, ProbesKept DEF Owned

LEMMA RunPeerCloseOwned ==
    ASSUME Typed, Owned, RunPeerClose
    PROVE  Owned'
<1> DEFINE id == H.who
           c == Signal("closed", id)
           p == About("peerClosed", id)
           a == IF sock[id] = "open" THEN <<c>> ELSE <<>>
           b == IF H.what = "notify" /\ Locked /\ attached THEN <<p>> ELSE <<>>
<1>1. /\ ioq # <<>> /\ H = Head(ioq) /\ H \in Handlers("peerClose", id) /\ id \in Peers
      /\ ioq' = Tail(ioq) \o <<>> /\ UNCHANGED <<peers, probes, probePeer>>
      /\ sock' = [sock EXCEPT ![id] = "closed"] /\ dq' = dq \o a \o b
  BY Heads, IoRead DEF RunPeerClose, Running, H, Handlers, Posting, probeVars
<1>2. /\ c \in DqEntries /\ p \in DqEntries
      /\ \A k : (c \in Gone(k) => k = id) /\ (p \in Gone(k) => k = id)
  BY <1>1, DqMade DEF Signal, About, Entry, Gone, Signals, Ends
<1>3. dq \in Seq(DqEntries) /\ ioq \in Seq(IoEntries) /\ <<>> \in Seq(IoEntries)
  BY Made DEF Typed, DqTyped, IoTyped
<1> HIDE DEF id, c, p
<1>4. /\ a \in Seq(DqEntries) /\ b \in Seq(DqEntries)
      /\ \A A : Has(a, A) => c \in A
      /\ \A A : Has(b, A) => p \in A
  BY <1>2, Made, Literals
<1> HIDE DEF a, b
<1>5. a \o b \in Seq(DqEntries) /\ \A k \in Peers : Has(a \o b, Gone(k)) => k = id
  BY <1>2, <1>4, SentHas
<1>6. dq \o a \o b = dq \o (a \o b)
  BY <1>3, <1>4
<1>7. \A k : k # id => H \notin Handlers("peerClose", k)
  BY <1>1 DEF Handlers
<1>8. \A k \in Peers :
        /\ Has(ioq', Handlers("erase", k)) => Has(ioq, Handlers("erase", k))
        /\ k # id => (Has(ioq, Handlers("peerClose", k)) => Has(ioq', Handlers("peerClose", k)))
  BY <1>1, <1>3, <1>7, TakenHas, Made
<1>9. \A k \in Peers : Socket(k)'
  BY <1>1, <1>5, <1>6, <1>8, SocketCloses DEF Owned
<1>10. IoKept
  <2>1. \A op \in {"probeClose", "probeConnected"} : \A k : H \notin Handlers(op, k)
    BY <1>1 DEF Handlers
  <2>2. QED
    BY <1>1, <1>3, <2>1, TakenHas DEF IoKept
<1>11. QED
  BY <1>1, <1>9, <1>10, ProbesKept DEF Owned

\* The slots of a peer: closed posts the handler that erases a peer which is closed.
LEMMA DispatchSignalOwned ==
    ASSUME Typed, Owned, DispatchSignal
    PROVE  Owned'
<1>1. PICK x \in Seq(DqEntries), y \in Seq(IoEntries) :
             /\ dq # <<>> /\ E.op = "signal" /\ E \in DqEntries /\ E = Head(dq)
             /\ dq' = Tail(dq) \o x /\ ioq' = ioq \o y
             /\ \/ x = <<>>
                \/ E.who \in Peers /\ E.what = "ready" /\ x = <<Note("ready", E.who, session[E.who])>>
                \/ E.who \in Peers /\ E.what = "closed" /\ x = <<Entry("peerClosed", E.who, 0, "slot")>>
                \/ E.who \in Peers /\ E.what \in {"report", "late"} /\ x = <<Entry("report", E.who, 0, E.what)>>
             /\ \/ y = <<>>
                \/ E.who \in Peers /\ E.what = "closed" /\ y = <<About("erase", E.who)>>
                \/ E.who \in Probes /\ E.what = "answer" /\ y = <<About("probeAnswer", E.who)>>
                \/ E.who \in Probes /\ E.what = "failed" /\ y = <<About("probeFailed", E.who)>>
  BY SignalDispatched
<1>2. UNCHANGED <<sock, peers, probes, probePeer>>
  BY DEF DispatchSignal, peerVars, probeVars
<1>3. dq \in Seq(DqEntries) /\ ioq \in Seq(IoEntries)
  BY DEF Typed, DqTyped, IoTyped
<1>4. E.what = "closed" => Has(dq, Gone(E.who))
  <2>1. E.what = "closed" => E \in Gone(E.who)
    BY <1>1 DEF Gone, Signals
  <2>2. QED
    BY <1>1, <1>3, <2>1, TakenHas
<1>5. /\ \A A : ~Has(<<>>, A)
      /\ \A e, A : x = <<e>> => (Has(x, A) <=> e \in A)
      /\ \A e, A : y = <<e>> => (Has(y, A) <=> e \in A)
  <2>1. \A A : ~Has(<<>>, A)
    BY Made
  <2>2. \A e, A : Has(<<e>>, A) <=> e \in A
    BY Literals
  <2>3. QED
    BY <2>1, <2>2
<1>6. \A k \in Peers : Has(x, Gone(k)) => E.what = "closed" /\ k = E.who
  <2>1. \A k \in Peers : /\ Note("ready", E.who, session[E.who]) \notin Gone(k)
                         /\ Entry("report", E.who, 0, E.what) \notin Gone(k)
                         /\ Entry("peerClosed", E.who, 0, "slot") \in Gone(k) => k = E.who
    BY DEF Note, About, Entry, Gone, Signals, Ends
  <2>2. QED
    BY <1>1, <1>5, <2>1
<1>7. \A k \in Peers : Has(y, Handlers("erase", k)) => E.what = "closed" /\ k = E.who
  <2>1. \A k \in Peers : /\ About("probeAnswer", E.who) \notin Handlers("erase", k)
                         /\ About("probeFailed", E.who) \notin Handlers("erase", k)
                         /\ About("erase", E.who) \in Handlers("erase", k) => k = E.who
    BY DEF About, Entry, Handlers
  <2>2. QED
    BY <1>1, <1>5, <2>1
<1>8. \A k \in Peers : Has(dq', Gone(k)) => Has(dq, Gone(k))
  <2>1. \A A : Has(dq', A) => Has(dq, A) \/ Has(x, A)
    BY <1>1, <1>3, TakenHas
  <2>2. QED
    BY <1>4, <1>6, <2>1
<1>9. \A A : Has(ioq', A) <=> Has(ioq, A) \/ Has(y, A)
  BY <1>1, <1>3, SentHas
<1>10. \A k \in Peers : Socket(k)'
  BY <1>2, <1>4, <1>7, <1>8, <1>9 DEF Socket, Owned
<1>11. IoKept
  BY <1>9 DEF IoKept
<1>12. QED
  BY <1>2, <1>10, <1>11, ProbesKept DEF Owned

\* The probes.
LEMMA ProbeBeginsOwned ==
    ASSUME Typed, Owned, NEW k \in Probes, ProbeBegins(k)
    PROVE  Owned'
<1>1. DqQuiet /\ IoQuiet /\ IoKept
  BY ProbeBeginsTyped, IoQuietOthers, IoKeptOthers, QueueKept DEF ProbeBegins
<1>2. UNCHANGED <<sock, peers, probePeer>>
  BY DEF ProbeBegins, peerVars
<1>3. probes' = [probes EXCEPT ![k] = [state |-> "connecting", timer |-> TRUE, token |-> H.token]]
  BY DEF ProbeBegins
<1>4. \A j \in Probes : probes'[j].state = probes[j].state \/ probes'[j].state = "connecting"
  BY <1>3 DEF Typed, StateTyped, ProbesTyped
<1>5. QED
  BY <1>1, <1>2, <1>4, SocketsKept, ProbesKept DEF Owned

LEMMA ProbeTimerExpiresOwned ==
    ASSUME Typed, Owned, NEW k \in Probes, ProbeTimerExpires(k)
    PROVE  Owned'
<1>1. DqQuiet /\ IoQuiet /\ IoKept
  BY ProbeTimerExpiresTyped, IoQuietOthers, IoKeptOthers, QueueKept DEF ProbeTimerExpires
<1>2. UNCHANGED <<sock, peers, probePeer>> /\ probes' = [probes EXCEPT ![k].timer = FALSE]
  BY DEF ProbeTimerExpires, peerVars
<1>3. \A j \in Probes : probes'[j].state = probes[j].state
  BY <1>2 DEF Typed, StateTyped, ProbesTyped
<1>4. QED
  BY <1>1, <1>2, <1>3, SocketsKept, ProbesKept DEF Owned

LEMMA ProbeAnswersOwned ==
    ASSUME Typed, Owned, NEW k \in Probes, ProbeAnswers(k)
    PROVE  Owned'
<1>1. Signal("answer", k) \in DqEntries /\ dq' = Append(dq, Signal("answer", k))
  BY DqMade DEF ProbeAnswers
<1>2. DqQuiet /\ IoQuiet /\ IoKept
  BY <1>1, SignalSent, SignalsQuiet, QueueKept DEF ProbeAnswers
<1>3. /\ UNCHANGED <<sock, peers, probePeer>> /\ probes' = [probes EXCEPT ![k].state = "answered"]
      /\ probes[k].state = "open"
  BY DEF ProbeAnswers, peerVars
<1>4. \A j \in Probes : \/ probes'[j].state = probes[j].state
                        \/ probes'[j].state = "answered" /\ probes[j].state = "open"
  <2>1. probes'[k].state = "answered" /\ \A j \in Probes : j # k => probes'[j] = probes[j]
    BY <1>3 DEF Typed, StateTyped, ProbesTyped
  <2>2. QED
    BY <1>3, <2>1
<1>5. QED
  BY <1>2, <1>3, <1>4, SocketsKept, ProbesKept DEF Owned

LEMMA ProbeEndsOwned ==
    ASSUME Typed, Owned, NEW k \in Probes, ProbeEnds(k)
    PROVE  Owned'
<1>1. Signal("failed", k) \in DqEntries /\ dq' = Append(dq, Signal("failed", k))
  BY DqMade DEF ProbeEnds
<1>2. DqQuiet /\ IoQuiet /\ IoKept
  BY <1>1, SignalSent, SignalsQuiet, QueueKept DEF ProbeEnds
<1>3. /\ UNCHANGED <<sock, peers, probe, probePeer, generation>>
      /\ probes' = [probes EXCEPT ![k].state = Ended(@)] /\ probes[k].state \in {"open", "answered"}
  BY DEF ProbeEnds, peerVars, DispatcherUnchanged, scopeVars
<1>4. \A j \in Probes : probes'[j].state = probes[j].state \/ probes'[j].state \in {"closed", "done"}
  BY <1>3, ProbeEnded DEF Typed, StateTyped, Ended
<1>5. QED
  BY <1>2, <1>3, <1>4, SocketsKept, ProbesKept DEF Owned

LEMMA RunProbeCloseOwned ==
    ASSUME Typed, Owned, RunProbeClose
    PROVE  Owned'
<1> DEFINE k == H.who
<1>1. /\ ioq # <<>> /\ H = Head(ioq) /\ H.op = "probeClose" /\ k \in Probes
      /\ ioq' = Tail(ioq) \o <<>> /\ UNCHANGED <<sock, peers, probe, probePeer, generation>>
      /\ probes' = [probes EXCEPT ![k].state = Ended(@)]
      /\ dq' = Append(dq, Signal("failed", k)) \/ dq' = dq
  BY Heads, IoRead DEF RunProbeClose, Running, H, Posting, peerVars, IoUnchanged, DispatcherUnchanged, scopeVars
<1>2. ioq \in Seq(IoEntries) /\ <<>> \in Seq(IoEntries)
  BY Made DEF Typed, IoTyped
<1>3. \A op, j : j # k \/ op # "probeClose" => H \notin Handlers(op, j)
  BY <1>1 DEF Handlers
<1> HIDE DEF k
<1>4. DqQuiet
  BY <1>1, DqMade, SignalSent, SignalsQuiet
<1>5. \A A : /\ Has(ioq', A) => Has(ioq, A)
             /\ H \notin A => (Has(ioq, A) => Has(ioq', A))
  BY <1>1, <1>2, TakenHas
<1>6. IoQuiet
  BY <1>3, <1>5 DEF IoQuiet
<1>7. /\ probes'[k].state \notin {"open", "answered"}
      /\ probes'[k].state = "connected" => probes[k].state = "connected"
      /\ \A j \in Probes : j # k => probes'[j] = probes[j]
  <2>1. /\ probes'[k].state = Ended(probes[k].state)
        /\ \A j \in Probes : j # k => probes'[j] = probes[j]
    BY <1>1, ProbeEnded DEF Typed, StateTyped
  <2>2. QED
    BY <2>1 DEF Ended
<1>8. \A j \in Probes : ProbeOwned(j)'
  BY <1>1, <1>3, <1>5, <1>7 DEF ProbeOwned, Owned
<1>9. QED
  BY <1>1, <1>4, <1>6, <1>8, SocketsKept DEF Owned

LEMMA ReleaseProbeOwned ==
    ASSUME Typed, Owned, NEW k \in Probes, ReleaseProbe(k)
    PROVE  Owned'
<1> DEFINE I == {i \in DOMAIN dq : dq[i].who # k}
<1>1. I \in SUBSET DOMAIN dq /\ dq' = Selected(dq, I)
  BY DEF ReleaseProbe
<1> HIDE DEF I
<1>2. /\ UNCHANGED <<ioq, sock, peers, probePeer>>
      /\ probes' = [probes EXCEPT ![k].state = "free", ![k].token = 0]
  BY DEF ReleaseProbe, peerVars
<1>3. probes'[k].state = "free" /\ \A j \in Probes : j # k => probes'[j] = probes[j]
  BY <1>2 DEF Typed, StateTyped, ProbesTyped
<1>4. \A j \in Probes : probes'[j].state = probes[j].state \/ probes'[j].state = "free"
  BY <1>3
<1>5. DqQuiet /\ IoQuiet /\ IoKept
  BY <1>1, <1>2, ErasedQuiet, QueueKept
<1>6. QED
  BY <1>2, <1>4, <1>5, SocketsKept, ProbesKept DEF Owned

LEMMA ProbeConnectsOwned ==
    ASSUME Typed, Owned, NEW k \in Probes, NEW outcome \in {"ok", "failed"}, ProbeConnects(k, outcome)
    PROVE  Owned'
<1> DEFINE t == Entry("probeConnected", k, probes[k].token, outcome)
<1>1. /\ t \in IoEntries /\ t \in Handlers("probeConnected", k) /\ ioq' = ioq \o <<t>>
      /\ probes' = [probes EXCEPT ![k].state = "connected"]
      /\ UNCHANGED <<dq, sock, peers, probePeer>>
  <2>1. probes[k].token \in Nat
    BY Numbers
  <2>2. t \in IoEntries
    BY <2>1, IoMade
  <2>3. t.op = "probeConnected" /\ t.who = k
    BY DEF Entry
  <2>4. t \in Handlers("probeConnected", k)
    BY <2>2, <2>3 DEF Handlers
  <2>5. QED
    BY <2>2, <2>4 DEF ProbeConnects, Post, peerVars
<1> HIDE DEF t
<1>2. DqQuiet /\ IoQuiet
  BY <1>1, ProbeConnectsTouches, IoQuietOthers, QueueKept
<1>3. \A A : Has(ioq', A) <=> Has(ioq, A) \/ t \in A
  <2>1. <<t>> \in Seq(IoEntries) /\ \A A : Has(<<t>>, A) <=> t \in A
    BY <1>1, Made, Literals
  <2>2. QED
    BY <1>1, <2>1, SentHas DEF Typed, IoTyped
<1>4. probes'[k].state = "connected" /\ \A j \in Probes : j # k => probes'[j] = probes[j]
  BY <1>1 DEF Typed, StateTyped, ProbesTyped
<1>5. \A j \in Probes : ProbeOwned(j)'
  BY <1>1, <1>3, <1>4 DEF ProbeOwned, Owned
<1>6. QED
  BY <1>1, <1>2, <1>5, SocketsKept DEF Owned

\* A timer that is cancelled does not change what became of a probe.
LEMMA TimerOnly ==
    ASSUME Typed, NEW f \in ProbeTable
    PROVE  \A j \in Probes : TimerOff(f)[j].state = f[j].state
<1>1. probe \in Probes \cup {None}
  BY DEF Typed, StateTyped, ProbesTyped
<1> HIDE DEF ProbeTable
<1>2. CASE probe = None
  BY <1>2 DEF TimerOff
<1>3. CASE probe # None
  <2> DEFINE p == probe
  <2>1. p \in Probes /\ TimerOff(f) = [f EXCEPT ![p].timer = FALSE]
    BY <1>1, <1>3 DEF TimerOff
  <2> HIDE DEF p
  <2>2. QED
    BY <2>1 DEF ProbeTable
<1>4. QED
  BY <1>2, <1>3

\* The probe that is over is closed with the current one, and nothing else is lost.
LEMMA ProbesClosed ==
    ASSUME Typed, \A k \in Probes : ProbeOwned(k), NEW f \in ProbeTable, NEW j \in Probes \cup {None},
           \A k \in Probes : k # j => f[k].state = probes[k].state,
           \A k \in Probes : k = j => f[k].state = "closed",
           \A k \in Probes : probes'[k].state = f[k].state,
           probePeer' = probePeer \/ (probePeer # None => Has(ioq', Handlers("probeClose", probePeer))),
           \A k \in Probes : Has(ioq, Handlers("probeClose", k)) => Has(ioq', Handlers("probeClose", k)),
           \A k \in Probes : k # j =>
              (Has(ioq, Handlers("probeConnected", k)) => Has(ioq', Handlers("probeConnected", k)))
    PROVE  \A k \in Probes : ProbeOwned(k)'
<1> SUFFICES ASSUME NEW k \in Probes PROVE ProbeOwned(k)'
  OBVIOUS
<1>1. None \notin Probes /\ ProbeOwned(k)
  BY Names
<1>2. CASE k = j
  BY <1>2 DEF ProbeOwned
<1>3. CASE k # j
  BY <1>1, <1>3 DEF ProbeOwned
<1>4. QED
  BY <1>2, <1>3

LEMMA HandleFailedOwned ==
    ASSUME Typed, Owned, NEW k \in Probes, NEW f \in ProbeTable, HandleFailed(k, f), ioq # <<>>,
           NEW j \in Probes \cup {None},
           \A i \in Probes : i # j => f[i].state = probes[i].state,
           \A i \in Probes : i = j => f[i].state = "closed",
           H.op \in {"probeConnected", "probeTimeout", "probeFailed"},
           H.op = "probeConnected" => H.who = j, UNCHANGED <<sock, peers>>
    PROVE  Owned'
<1>1. Undisturbed(dq, dq', Others({"note"})) /\ Undisturbed(ioq, ioq', Others({H.op, "probeClose"}))
  BY HandleFailedTouches
<1>2. DqQuiet /\ IoQuiet
  <2>1. DqQuiet
    BY <1>1, DqQuietOthers
  <2> DEFINE ops == {H.op, "probeClose"}
  <2>2. "erase" \notin ops /\ "peerClose" \notin ops
    OBVIOUS
  <2> HIDE DEF ops
  <2>3. IoQuiet
    BY <1>1, <2>2, IoQuietOthers DEF ops
  <2>4. QED
    BY <2>1, <2>3
<1>3. /\ ioq \in Seq(IoEntries) /\ <<>> \in Seq(IoEntries) /\ ProbeClosed \in Seq(IoEntries)
      /\ \A A : ~Has(<<>>, A)
      /\ \A A : Has(ProbeClosed, A) <=> probePeer # None /\ About("probeClose", probePeer) \in A
  BY ProbeToClose, Made DEF Typed, IoTyped
<1>4. /\ \/ ioq' = Tail(ioq) \o <<>> /\ probes' = f /\ probePeer' = probePeer
         \/ ioq' = Tail(ioq) \o ProbeClosed /\ probes' = TimerOff(f)
  BY DEF HandleFailed, Posting, CloseProbe
<1>5. \A i \in Probes : probes'[i].state = f[i].state
  BY <1>4, TimerOnly
<1>6. \A A : Has(ioq, A) => H \in A \/ Has(ioq', A)
  <2>1. \A A : Has(ioq, A) <=> H \in A \/ Has(Tail(ioq), A)
    BY <1>3, TakenHas DEF H
  <2>2. \A A : Has(Tail(ioq), A) => Has(ioq', A)
    <3>1. PICK x \in Seq(IoEntries) : ioq' = Tail(ioq) \o x
      BY <1>3, <1>4
    <3>2. \A A : Has(Tail(ioq) \o x, A) <=> Has(Tail(ioq), A) \/ Has(x, A)
      BY <1>3, TakenHas
    <3>3. QED
      BY <3>1, <3>2
  <2>3. QED
    BY <2>1, <2>2
<1>7. \A i \in Probes : H \notin Handlers("probeClose", i) /\ (i # j => H \notin Handlers("probeConnected", i))
  BY DEF Handlers
<1>8. probePeer' = probePeer \/ (probePeer # None => Has(ioq', Handlers("probeClose", probePeer)))
  <2> SUFFICES ASSUME probePeer # None, ioq' = Tail(ioq) \o ProbeClosed
               PROVE  Has(ioq', Handlers("probeClose", probePeer))
    BY <1>4
  <2>1. probePeer \in Probes
    BY DEF Typed, StateTyped, ProbesTyped
  <2>2. About("probeClose", probePeer) \in Handlers("probeClose", probePeer)
    BY <2>1, IoMade DEF About, Entry, Handlers
  <2>3. QED
    BY <1>3, <2>2, TakenHas
<1>9. \A i \in Probes : ProbeOwned(i)'
  BY <1>5, <1>6, <1>7, <1>8, ProbesClosed DEF Owned
<1>10. QED
  BY <1>2, <1>9, SocketsKept DEF Owned

LEMMA ProbeConnectedOwned ==
    ASSUME Typed, Owned, ProbeConnected
    PROVE  Owned'
<1> DEFINE k == H.who
           closed == [probes EXCEPT ![k].state = "closed", ![k].timer = FALSE]
<1>1. /\ ioq # <<>> /\ H = Head(ioq) /\ H.op = "probeConnected" /\ k \in Probes
      /\ UNCHANGED <<sock, peers>>
  BY Heads, IoRead DEF ProbeConnected, Running, H, peerVars
<1>2. CASE Current(k) /\ H.what = "ok"
  <2>1. /\ probePeer' = k /\ probes' = [probes EXCEPT ![k].state = "open"] /\ probe = k
        /\ UNCHANGED <<dq>>
    BY <1>2 DEF ProbeConnected, Posting, Current
  <2> HIDE DEF k
  <2>2. DqQuiet /\ IoQuiet
    BY <2>1, ProbeConnectedTouches, IoQuietOthers, QueueKept
  <2>3. ioq' = Tail(ioq) \o <<>>
    BY <1>2 DEF ProbeConnected, Posting, k
  <2>4. \A A : H \notin A => (Has(ioq, A) => Has(ioq', A))
    BY <1>1, <2>3, TakenHas, Made DEF Typed, IoTyped
  <2>5. \A op, j : j # k \/ op # "probeConnected" => H \notin Handlers(op, j)
    BY <1>1 DEF Handlers, k
  <2>6. probes'[k].state = "open" /\ \A j \in Probes : j # k => probes'[j] = probes[j]
    BY <1>1, <2>1 DEF Typed, StateTyped, ProbesTyped
  <2>7. probePeer \in {None, k} /\ None \notin Probes
    BY <2>1, Names DEF Typed, StateTyped, ProbesTyped
  <2>8. \A j \in Probes : ProbeOwned(j)'
    BY <2>1, <2>4, <2>5, <2>6, <2>7 DEF ProbeOwned, Owned
  <2>9. QED
    BY <1>1, <2>2, <2>8, SocketsKept DEF Owned
<1>3. CASE HandleFailed(k, closed)
  <2>1. closed \in ProbeTable
    BY <1>1 DEF Typed, StateTyped, ProbesTyped, ProbeTable, ProbeStates
  <2>2. closed[k].state = "closed" /\ \A j \in Probes : j # k => closed[j] = probes[j]
    BY <1>1 DEF Typed, StateTyped, ProbesTyped
  <2> HIDE DEF closed
  <2>3. QED
    BY <1>1, <1>3, <2>1, <2>2, HandleFailedOwned
<1>4. QED
  BY <1>2, <1>3 DEF ProbeConnected

LEMMA ProbeFailedOwned ==
    ASSUME Typed, Owned, ProbeFailed
    PROVE  Owned'
<1>1. /\ ioq # <<>> /\ H.op \in {"probeTimeout", "probeFailed"} /\ H.who \in Probes
      /\ UNCHANGED <<sock, peers>>
  BY Heads, IoRead DEF ProbeFailed, peerVars
<1>2. CASE HandleFailed(H.who, probes)
  <2>1. probes \in ProbeTable /\ None \notin Probes
    BY Names DEF Typed, StateTyped, ProbesTyped, ProbeTable
  <2>2. QED
    BY <1>1, <1>2, <2>1, HandleFailedOwned
<1>3. CASE Posting(<<>>) /\ UNCHANGED <<dq, acceptorVars, probeVars>>
  <2>1. IoQuiet
    BY ProbeFailedTouches, IoQuietOthers
  <2>2. DqQuiet /\ UNCHANGED <<probes, probePeer>>
    BY <1>3, QueueKept DEF probeVars
  <2>3. \A op, k : op \in {"probeClose", "probeConnected"} => H \notin Handlers(op, k)
    BY <1>1 DEF Handlers
  <2>4. IoKept
    <3>1. ioq' = Tail(ioq) \o <<>>
      BY <1>3 DEF Posting
    <3>2. \A A : H \notin A => (Has(ioq, A) => Has(ioq', A))
      BY <1>1, <3>1, TakenHas, Made DEF Typed, IoTyped, H
    <3>3. QED
      BY <2>3, <3>2 DEF IoKept
  <2>5. QED
    BY <1>1, <2>1, <2>2, <2>4, AllOwned
<1>4. QED
  BY <1>2, <1>3 DEF ProbeFailed

\* The current probe closed by what closes it: it is queued.
LEMMA ClosingProbe ==
    ASSUME Typed, \A k \in Probes : ProbeOwned(k), CloseProbe(probes),
           \A op \in {"probeClose", "probeConnected"} : \A k :
             Has(ioq, Handlers(op, k)) => Has(ioq', Handlers(op, k)),
           probePeer # None => Has(ioq', Handlers("probeClose", probePeer))
    PROVE  \A k \in Probes : ProbeOwned(k)'
<1>1. probes \in ProbeTable /\ None \notin Probes
  BY Names DEF Typed, StateTyped, ProbesTyped, ProbeTable
<1>2. \A k \in Probes : probes'[k].state = probes[k].state
  BY <1>1, TimerOnly DEF CloseProbe
<1>3. \A k \in Probes :
        /\ Has(ioq, Handlers("probeClose", k)) => Has(ioq', Handlers("probeClose", k))
        /\ Has(ioq, Handlers("probeConnected", k)) => Has(ioq', Handlers("probeConnected", k))
  OBVIOUS
<1>4. QED
  BY <1>1, <1>2, <1>3, ProbesClosed

LEMMA ProbeAnsweredOwned ==
    ASSUME Typed, Owned, ProbeAnswered
    PROVE  Owned'
<1>1. ioq # <<>> /\ H = Head(ioq) /\ H.op = "probeAnswer" /\ UNCHANGED <<dq, sock, peers>>
  BY DEF ProbeAnswered, Running, H, peerVars
<1>2. DqQuiet /\ IoQuiet
  BY <1>1, ProbeAnsweredTouches, IoQuietOthers, QueueKept
<1>3. /\ ioq \in Seq(IoEntries) /\ <<>> \in Seq(IoEntries) /\ ProbeClosed \in Seq(IoEntries)
      /\ \A A : Has(ProbeClosed, A) <=> probePeer # None /\ About("probeClose", probePeer) \in A
  BY ProbeToClose, Made DEF Typed, IoTyped
<1>4. PICK x \in Seq(IoEntries) : /\ ioq' = Tail(ioq) \o x
                                  /\ \/ x = ProbeClosed /\ CloseProbe(probes)
                                     \/ UNCHANGED <<probes, probePeer>>
  BY <1>3 DEF ProbeAnswered, Posting, probeVars
<1>5. \A op \in {"probeClose", "probeConnected"} : \A k : H \notin Handlers(op, k)
  BY <1>1 DEF Handlers
<1>6. \A A : /\ H \notin A => (Has(ioq, A) => Has(ioq', A))
             /\ Has(x, A) => Has(ioq', A)
  BY <1>1, <1>3, <1>4, TakenHas
<1>7. \A op \in {"probeClose", "probeConnected"} : \A k : Has(ioq, Handlers(op, k)) => Has(ioq', Handlers(op, k))
  BY <1>5, <1>6
<1>8. CASE UNCHANGED <<probes, probePeer>>
  BY <1>1, <1>2, <1>7, <1>8, AllOwned DEF IoKept
<1>9. CASE x = ProbeClosed /\ CloseProbe(probes)
  <2>1. probePeer # None => About("probeClose", probePeer) \in Handlers("probeClose", probePeer)
    BY IoMade DEF About, Entry, Handlers, Typed, StateTyped, ProbesTyped
  <2>2. probePeer # None => Has(ioq', Handlers("probeClose", probePeer))
    BY <1>3, <1>6, <1>9, <2>1
  <2>3. \A k \in Probes : ProbeOwned(k)'
    BY <1>7, <1>9, <2>2, ClosingProbe DEF Owned
  <2>4. QED
    BY <1>1, <1>2, <2>3, SocketsKept DEF Owned
<1>10. QED
  BY <1>4, <1>8, <1>9

\* Everything is closed, in the order of stop or of shutdown.
LEMMA EverythingOwned ==
    ASSUME Typed, Owned, CloseEverything, ioq # <<>>, H.op \in {"stop", "shutdown"},
           NEW x \in Seq(IoEntries), ioq' = Tail(ioq) \o x,
           \A A : Has(AllPeersClosed \o ProbeClosed, A) => Has(x, A),
           \A k : Has(x, Handlers("erase", k)) => Has(AllPeersClosed \o ProbeClosed, Handlers("erase", k))
    PROVE  Owned'
<1> DEFINE a == AllPeersClosed \o ProbeClosed
<1>1. \A A : Has(a, A) <=> \/ \E id \in peers : About("peerClose", id) \in A
                           \/ probePeer # None /\ About("probeClose", probePeer) \in A
  BY ClosingPosts
<1>2. /\ \A id \in peers : About("peerClose", id) \in Handlers("peerClose", id)
      /\ probePeer # None => About("probeClose", probePeer) \in Handlers("probeClose", probePeer)
      /\ \A j, k : About("peerClose", j) \notin Handlers("erase", k) /\ About("probeClose", j) \notin Handlers("erase", k)
  <2>1. \A id \in peers : About("peerClose", id) \in IoEntries
    BY Numbers, IoMade DEF About
  <2>2. probePeer # None => About("probeClose", probePeer) \in IoEntries
    BY IoMade DEF Typed, StateTyped, ProbesTyped
  <2>3. QED
    BY <2>1, <2>2 DEF About, Entry, Handlers
<1> HIDE DEF a
<1>3. \A op \in {"probeClose", "probeConnected", "peerClose"} : \A k : H \notin Handlers(op, k)
  BY DEF Handlers
<1>4. /\ \A A : H \notin A => (Has(ioq, A) => Has(ioq', A))
      /\ \A A : Has(x, A) => Has(ioq', A)
      /\ \A A : Has(ioq', A) => Has(ioq, A) \/ Has(x, A)
  BY TakenHas DEF H, Typed, IoTyped
<1>5. \A A : Has(a, A) => Has(x, A)
  BY DEF a
<1>6. \A k : ~Has(x, Handlers("erase", k))
  BY <1>1, <1>2 DEF a
<1>7. /\ \A k \in peers : Has(ioq', Handlers("peerClose", k))
      /\ \A k : Has(ioq, Handlers("peerClose", k)) => Has(ioq', Handlers("peerClose", k))
      /\ \A k : Has(ioq', Handlers("erase", k)) => Has(ioq, Handlers("erase", k))
      /\ probePeer # None => Has(ioq', Handlers("probeClose", probePeer))
  BY <1>1, <1>2, <1>3, <1>4, <1>5, <1>6
<1>8. UNCHANGED <<dq, sock>> /\ CloseProbe(probes)
  BY DEF CloseEverything
<1>9. \A k \in Peers : Socket(k)'
  BY <1>7, <1>8 DEF Socket, Owned
<1>10. \A op \in {"probeClose", "probeConnected"} : \A k : Has(ioq, Handlers(op, k)) => Has(ioq', Handlers(op, k))
  BY <1>3, <1>4
<1>11. \A k \in Probes : ProbeOwned(k)'
  BY <1>7, <1>8, <1>10, ClosingProbe DEF Owned
<1>12. QED
  BY <1>9, <1>11 DEF Owned

LEMMA StopOwned ==
    ASSUME Typed, Ordered, Owned, Stop
    PROVE  Owned'
<1>1. ioq # <<>> /\ H.op = "stop" /\ H \in Enders /\ H = Head(ioq) /\ ioq \in Seq(IoEntries)
  BY Heads DEF Stop, Running, Enders, H, Typed, IoTyped
<1>2. life = "live"
  BY <1>1, TakenHas, Made DEF Ordered
<1>3. CloseEverything /\ ioq' = Tail(ioq) \o (AllPeersClosed \o ProbeClosed)
  BY <1>2 DEF Stop, Locked, Posting
<1>4. AllPeersClosed \o ProbeClosed \in Seq(IoEntries)
  BY ClosingPosts
<1>5. QED
  BY <1>1, <1>3, <1>4, EverythingOwned

LEMMA ShutdownOwned ==
    ASSUME Typed, Owned, Shutdown
    PROVE  Owned'
<1> DEFINE a == AllPeersClosed \o ProbeClosed
           k == Do("keepAlive")
           x == a \o <<k>>
<1>1. /\ ioq # <<>> /\ H.op = "shutdown" /\ ioq' = Tail(ioq) \o x /\ x \in Seq(IoEntries)
      /\ \A A : Has(x, A) <=> Has(a, A) \/ k \in A
  BY ShutdownPosts
<1>2. \A j : k \notin Handlers("erase", j)
  BY DEF Do, Entry, Handlers
<1>3. CloseEverything
  BY DEF Shutdown
<1> HIDE DEF x, k
<1>4. QED
  BY <1>1, <1>2, <1>3, EverythingOwned

LEMMA OwnedInit == Init => Owned
<1> SUFFICES ASSUME Init PROVE Owned
  OBVIOUS
<1>1. \A k \in Peers : sock[k] = "none"
  BY DEF Init
<1>2. \A k \in Probes : probes[k].state = "free"
  BY DEF Init
<1>3. QED
  BY <1>1, <1>2 DEF Owned, Socket, ProbeOwned

LEMMA OwnedStep == Typed /\ Ordered /\ Owned /\ [Next]_vars => Owned'
<1> SUFFICES ASSUME Typed, Ordered, Owned, [Next]_vars PROVE Owned'
  OBVIOUS
<1>1. CASE UNCHANGED vars
  BY <1>1, QueueKept, AllOwned DEF vars, peerVars, probeVars
<1>2. CASE \/ \E op \in {"start", "stop"} : Call(op)
           \/ \E id \in Peers : AsyncClosePeer(id)
           \/ Retry \/ WatchFires \/ Detach
  BY <1>2, CallOwned, AsyncClosePeerOwned, RetryOwned, WatchFiresOwned, DetachOwned
<1>3. CASE DispatcherStep
  BY <1>3, StartOwned, EndSessionOwned, PostStopOwned, NotifyOwned, NotifyReadyOwned,
     DispatchSignalOwned, ReportOwned, PeerClosedOwned, DebounceOwned, TimerOwned, CheckOwned,
     PostShutdownOwned DEF DispatcherStep
<1>4. CASE IoStep
  BY <1>4, BindOwned, AcceptedOwned, EraseOwned, ClosePeerOwned, RunPeerCloseOwned, ProbeIgnoredOwned,
     ProbeBeginsOwned, ProbeConnectedOwned, ProbeFailedOwned, ProbeAnsweredOwned, RunProbeCloseOwned,
     StopOwned, ShutdownOwned, KeepAliveOwned DEF IoStep
<1>5. CASE Destroy \/ \E outcome \in {"ok", "error"} : AcceptCompletes(outcome)
  BY <1>5, DestroyOwned, AcceptCompletesOwned
<1>6. CASE \E id \in Peers : \/ PeerReady(id) \/ PeerReports(id) \/ Release(id)
                            \/ \E failed \in BOOLEAN : PeerEnds(id, failed)
  BY <1>6, PeerReadyOwned, PeerReportsOwned, ReleaseOwned, PeerEndsOwned
<1>7. CASE \E k \in Probes : \/ \E outcome \in {"ok", "failed"} : ProbeConnects(k, outcome)
                             \/ ProbeTimerExpires(k) \/ ProbeAnswers(k) \/ ProbeEnds(k)
                             \/ ReleaseProbe(k)
  BY <1>7, ProbeConnectsOwned, ProbeTimerExpiresOwned, ProbeAnswersOwned, ProbeEndsOwned,
     ReleaseProbeOwned
<1>8. QED
  BY <1>1, <1>2, <1>3, <1>4, <1>5, <1>6, <1>7 DEF Next, Destroyed

\* The inductive invariant.
Safe == Typed /\ Ordered /\ Sessions /\ Owned

LEMMA AlwaysSafe == Spec => []Safe
<1>1. Init => Safe
  BY TypedInit, SoundInit, OwnedInit DEF Safe
<1>2. Safe /\ [Next]_vars => Safe'
  BY TypedStep, SoundStep, OwnedStep DEF Safe
<1>3. QED
  BY <1>1, <1>2, PTL DEF Spec

\* A connection that is open has an owner that will close it: a peer is in peers_ or its close
\* is queued, a probe is the current one's peer or its close is queued; and what belongs to an
\* earlier session lasts only until the handler of stop or of the shutdown.
THEOREM Connections == Spec => []NoLostConnection
<1>1. Safe => NoLostConnection
  <2> SUFFICES ASSUME Safe PROVE NoLostConnection
    OBVIOUS
  <2>1. \A op, k : Has(ioq, Handlers(op, k)) => Queued(op, k)
    BY DEF Has, Handlers, Queued, ToSet
  <2>2. Stopping => Ending
    <3>1. Has(ioq, Enders) => \E t \in ToSet(ioq) : t.op \in {"stop", "shutdown"}
      BY DEF Has, Enders, ToSet
    <3>2. QED
      BY <3>1 DEF Stopping, Ending
  <2>3. ASSUME NEW id \in Peers
        PROVE  /\ sock[id] = "open" => id \in peers \/ Queued("peerClose", id)
               /\ id \in peers /\ ~IsCurrent(session[id]) => Ending
    <3>1. sock[id] = "open" => id \in peers \/ Queued("peerClose", id)
      BY <2>1 DEF Safe, Owned, Socket
    <3>2. id \in peers => id \in 1..next
      BY Numbers DEF Safe
    <3>3. id \in peers /\ ~IsCurrent(session[id]) => Stopping
      BY <3>2 DEF IsCurrent, Safe, Sessions
    <3>4. QED
      BY <2>2, <3>1, <3>3
  <2>4. ASSUME NEW k \in Probes
        PROVE  /\ probes[k].state \in {"open", "answered"} => k = probePeer \/ Queued("probeClose", k)
               /\ probes[k].state = "connected" => Queued("probeConnected", k)
    BY <2>1 DEF Safe, Owned, ProbeOwned
  <2>5. /\ acceptor /\ ~running => Ending
        /\ probe # None /\ ~IsCurrent(probes[probe].token) => Ending
    BY <2>2 DEF Safe, Sessions, IsCurrent
  <2>6. QED
    BY <2>3, <2>4, <2>5 DEF NoLostConnection
<1>2. QED
  BY <1>1, AlwaysSafe, PTL

-----------------------------------------------------------------------------
\* Probes: what their handlers find.

Tasks(k) == {t \in IoEntries : t.op \in ProbeHandlers /\ t.who = k}
Expiries(k) == Handlers("probeTimeout", k)
Connects(k) == Handlers("probeConnected", k)
Failures(k) == Handlers("probeFailed", k)
Answers(k) == Handlers("probeAnswer", k)

\* A response comes before the end of its connection, on its way to the I/O thread too, and
\* it is not lost there.
Judged(k) ==
    /\ probes[k].state = "free" => ~probes[k].timer /\ probe # k /\ ~Has(ioq, Expiries(k))
    /\ Has(ioq, Connects(k)) => probes[k].state = "connected"
    /\ NotBefore(ioq, Connects(k), Connects(k))
    /\ Has(ioq, Expiries(k)) => ~probes[k].timer
    /\ Has(ioq, Failures(k)) \/ Has(dq, Signals("failed", k)) => probes[k].state \in {"closed", "done"}
    /\ Has(ioq, Answers(k)) \/ Has(dq, Signals("answer", k)) => probes[k].state \in {"answered", "done"}
    /\ NotBefore(ioq, Failures(k), Answers(k))
    /\ NotBefore(dq, Signals("failed", k), Signals("answer", k))
    /\ ~(Has(ioq, Failures(k)) /\ Has(dq, Signals("answer", k)))
    /\ probe = k /\ probes[k].token = generation /\ probes[k].state \in {"answered", "done"}
         => Has(ioq, Answers(k)) \/ Has(dq, Signals("answer", k))

AllJudged == \A k \in Probes : Judged(k)

LEMMA Narrowed ==
    ASSUME NEW V, NEW W \in SUBSET V, Undisturbed(dq, dq', V)
    PROVE  Undisturbed(dq, dq', W)
BY DEF Undisturbed

LEMMA TaskParts ==
    ASSUME NEW k \in Probes
    PROVE  /\ Expiries(k) \in SUBSET Tasks(k) /\ Connects(k) \in SUBSET Tasks(k)
           /\ Failures(k) \in SUBSET Tasks(k) /\ Answers(k) \in SUBSET Tasks(k)
           /\ \A w : Signals(w, k) \in SUBSET Words(k)
BY DEF Tasks, ProbeHandlers, Expiries, Connects, Failures, Answers, Handlers, Signals, Words

\* A step that leaves the entries of a probe alone, and the probe but for its timer.
LEMMA JudgedKept ==
    ASSUME NEW k \in Probes, Judged(k),
           Undisturbed(dq, dq', Words(k)), Undisturbed(ioq, ioq', Tasks(k)),
           probes'[k].state = probes[k].state, probes'[k].token = probes[k].token,
           probes'[k].timer => probes[k].timer, probe' = k => probe = k,
           probe' = k /\ probes[k].token = generation' => probes[k].token = generation
    PROVE  Judged(k)'
<1> DEFINE X == Expiries(k)
           C == Connects(k)
           F == Failures(k)
           A == Answers(k)
           SF == Signals("failed", k)
           SA == Signals("answer", k)
           T == Tasks(k)
           W == Words(k)
<1>1. /\ X \in SUBSET T /\ C \in SUBSET T /\ F \in SUBSET T /\ A \in SUBSET T
      /\ SF \in SUBSET W /\ SA \in SUBSET W
  BY TaskParts
<1>2. Undisturbed(dq, dq', W) /\ Undisturbed(ioq, ioq', T)
  OBVIOUS
<1> HIDE DEF X, C, F, A, SF, SA, T, W
<1>3. /\ \A B \in {X, C, F, A} : Has(ioq', B) <=> Has(ioq, B)
      /\ \A B \in {SF, SA} : Has(dq', B) <=> Has(dq, B)
      /\ NotBefore(ioq, C, C) => NotBefore(ioq', C, C)
      /\ NotBefore(ioq, F, A) => NotBefore(ioq', F, A)
      /\ NotBefore(dq, SF, SA) => NotBefore(dq', SF, SA)
  BY <1>1, <1>2 DEF Undisturbed
<1>4. QED
  BY <1>3 DEF Judged, X, C, F, A, SF, SA

\* What the other operations leave alone.
LEMMA WordsOthers ==
    ASSUME NEW ops, Undisturbed(dq, dq', Others(ops)), "signal" \notin ops
    PROVE  \A k \in Probes : Undisturbed(dq, dq', Words(k))
<1>1. ASSUME NEW k \in Probes, NEW e \in Words(k)
      PROVE  e \in Others(ops)
  <2>1. e \in DqEntries /\ e.who = k
    BY DEF Words
  <2>2. e.op = "signal"
    BY <2>1, DqRead, Names
  <2>3. QED
    BY <2>1, <2>2 DEF Others
<1>2. QED
  BY <1>1, Narrowed

LEMMA TasksOthers ==
    ASSUME NEW ops, Undisturbed(ioq, ioq', Others(ops)), ops \cap ProbeHandlers = {}
    PROVE  \A k \in Probes : Undisturbed(ioq, ioq', Tasks(k))
<1>1. ASSUME NEW k \in Probes
      PROVE  Tasks(k) \in SUBSET Others(ops)
  BY DEF Tasks, Others
<1>2. QED
  BY <1>1 DEF Undisturbed

LEMMA QueuesJudged ==
    /\ dq' = dq => \A k : Undisturbed(dq, dq', Words(k))
    /\ ioq' = ioq => \A k : Undisturbed(ioq, ioq', Tasks(k))
BY Untouched

\* A step that has nothing to do with the probes.
LEMMA AllKept ==
    ASSUME AllJudged, \A k \in Probes : Undisturbed(dq, dq', Words(k)) /\ Undisturbed(ioq, ioq', Tasks(k)),
           UNCHANGED <<probe, probes, generation>>
    PROVE  AllJudged'
<1> SUFFICES ASSUME NEW k \in Probes PROVE Judged(k)'
  BY DEF AllJudged
<1>1. QED
  BY JudgedKept DEF AllJudged

\* The steps that have nothing to do with the probes.
Bystanding ==
    /\ \A k \in Probes : Undisturbed(dq, dq', Words(k)) /\ Undisturbed(ioq, ioq', Tasks(k))
    /\ UNCHANGED <<probe, probes, generation>>

LEMMA BystandersJudged ==
    ASSUME AllJudged, Bystanding
    PROVE  AllJudged'
BY AllKept DEF Bystanding

LEMMA CallBystanding ==
    ASSUME Typed, NEW op \in {"start", "stop"}, Call(op)
    PROVE  Bystanding
<1>1. \A k \in Probes : Undisturbed(dq, dq', Words(k))
  BY CallTyped, WordsOthers
<1>2. \A k \in Probes : Undisturbed(ioq, ioq', Tasks(k))
  BY QueuesJudged DEF Call
<1>3. UNCHANGED <<probe, probes, generation>>
  BY DEF Call, scopeVars, taskVars, acceptorVars, peerVars, probeVars, appVars, IoUnchanged,
     DispatcherUnchanged
<1>4. QED
  BY <1>1, <1>2, <1>3 DEF Bystanding

LEMMA AsyncClosePeerBystanding ==
    ASSUME Typed, NEW id \in Peers, AsyncClosePeer(id)
    PROVE  Bystanding
<1>1. \A k \in Probes : Undisturbed(dq, dq', Words(k))
  BY QueuesJudged DEF AsyncClosePeer, taskVars, acceptorVars, peerVars, probeVars, IoUnchanged, DispatcherUnchanged
<1>2. \A k \in Probes : Undisturbed(ioq, ioq', Tasks(k))
  BY AsyncClosePeerTyped, TasksOthers DEF ProbeHandlers
<1>3. UNCHANGED <<probe, probes, generation>>
  BY DEF AsyncClosePeer, Post, scopeVars, taskVars, acceptorVars, peerVars, probeVars, appVars,
     IoUnchanged, DispatcherUnchanged
<1>4. QED
  BY <1>1, <1>2, <1>3 DEF Bystanding

LEMMA StartBystanding ==
    ASSUME Typed, Start
    PROVE  Bystanding
<1>1. \A k \in Probes : Undisturbed(dq, dq', Words(k))
  BY StartTyped, WordsOthers
<1>2. \A k \in Probes : Undisturbed(ioq, ioq', Tasks(k))
  BY StartTyped, TasksOthers DEF ProbeHandlers
<1>3. UNCHANGED <<probe, probes, generation>>
  BY DEF Start, Dispatching, Post, Dispatched, taskVars, acceptorVars, peerVars, probeVars,
     appVars, scopeVars, IoUnchanged, DispatcherUnchanged
<1>4. QED
  BY <1>1, <1>2, <1>3 DEF Bystanding

LEMMA PostStopBystanding ==
    ASSUME Typed, PostStop
    PROVE  Bystanding
<1>1. \A k \in Probes : Undisturbed(dq, dq', Words(k))
  BY PostStopTyped, WordsOthers
<1>2. \A k \in Probes : Undisturbed(ioq, ioq', Tasks(k))
  BY PostStopTyped, TasksOthers DEF ProbeHandlers
<1>3. UNCHANGED <<probe, probes, generation>>
  BY DEF PostStop, Enqueue, Post, scopeVars, taskVars, acceptorVars, peerVars, probeVars,
     appVars, IoUnchanged, DispatcherUnchanged
<1>4. QED
  BY <1>1, <1>2, <1>3 DEF Bystanding

LEMMA NotifyBystanding ==
    ASSUME Typed, Notify
    PROVE  Bystanding
<1>1. \A k \in Probes : Undisturbed(dq, dq', Words(k))
  BY NotifyTyped, WordsOthers
<1>2. \A k \in Probes : Undisturbed(ioq, ioq', Tasks(k))
  BY QueuesJudged DEF Notify
<1>3. UNCHANGED <<probe, probes, generation>>
  BY DEF Notify, Dispatching, Dispatched, Followups, scopeVars, taskVars, acceptorVars, peerVars,
     probeVars, Retried, IoUnchanged, DispatcherUnchanged
<1>4. QED
  BY <1>1, <1>2, <1>3 DEF Bystanding

LEMMA NotifyReadyBystanding ==
    ASSUME Typed, NEW answer \in {"verified", "refused"}, NotifyReady(answer)
    PROVE  Bystanding
<1>1. \A k \in Probes : Undisturbed(dq, dq', Words(k))
  BY NotifyReadyTyped, WordsOthers
<1>2. \A k \in Probes : Undisturbed(ioq, ioq', Tasks(k))
  BY NotifyReadyTyped, TasksOthers DEF ProbeHandlers
<1>3. UNCHANGED <<probe, probes, generation>>
  BY DEF NotifyReady, Dispatching, Post, Dispatched, scopeVars, taskVars, acceptorVars, peerVars,
     probeVars, IoUnchanged, DispatcherUnchanged
<1>4. QED
  BY <1>1, <1>2, <1>3 DEF Bystanding

LEMMA ReportBystanding ==
    ASSUME Typed, Report
    PROVE  Bystanding
<1>1. \A k \in Probes : Undisturbed(dq, dq', Words(k))
  BY ReportTyped, WordsOthers
<1>2. \A k \in Probes : Undisturbed(ioq, ioq', Tasks(k))
  BY QueuesJudged DEF Report
<1>3. UNCHANGED <<probe, probes, generation>>
  BY DEF Report, Dispatching, Dispatched, scopeVars, taskVars, acceptorVars, peerVars, probeVars,
     appVars, IoUnchanged, DispatcherUnchanged
<1>4. QED
  BY <1>1, <1>2, <1>3 DEF Bystanding

LEMMA PeerClosedBystanding ==
    ASSUME Typed, PeerClosed
    PROVE  Bystanding
<1>1. \A k \in Probes : Undisturbed(dq, dq', Words(k))
  BY PeerClosedTyped, WordsOthers
<1>2. \A k \in Probes : Undisturbed(ioq, ioq', Tasks(k))
  BY QueuesJudged DEF PeerClosed
<1>3. UNCHANGED <<probe, probes, generation>>
  BY DEF PeerClosed, Dispatching, Dispatched, peerVars, probeVars, scopeVars, IoUnchanged,
     DispatcherUnchanged
<1>4. QED
  BY <1>1, <1>2, <1>3 DEF Bystanding

LEMMA DebounceBystanding ==
    ASSUME Typed, Debounce
    PROVE  Bystanding
<1>1. \A k \in Probes : Undisturbed(dq, dq', Words(k))
  BY DebounceTyped, WordsOthers
<1>2. \A k \in Probes : Undisturbed(ioq, ioq', Tasks(k))
  BY QueuesJudged DEF Debounce
<1>3. UNCHANGED <<probe, probes, generation>>
  BY DEF Debounce, Dispatched, scopeVars, acceptorVars, peerVars, probeVars, appVars,
     IoUnchanged, DispatcherUnchanged
<1>4. QED
  BY <1>1, <1>2, <1>3 DEF Bystanding

LEMMA RetryBystanding ==
    ASSUME Typed, Retry
    PROVE  Bystanding
<1>1. \A k \in Probes : Undisturbed(dq, dq', Words(k))
  BY QueuesJudged DEF Retry, taskVars, acceptorVars, peerVars, probeVars, IoUnchanged, DispatcherUnchanged
<1>2. \A k \in Probes : Undisturbed(ioq, ioq', Tasks(k))
  BY RetryTyped, TasksOthers DEF ProbeHandlers
<1>3. UNCHANGED <<probe, probes, generation>>
  BY DEF Retry, Post, scopeVars, acceptorVars, peerVars, probeVars, appVars, IoUnchanged,
     DispatcherUnchanged
<1>4. QED
  BY <1>1, <1>2, <1>3 DEF Bystanding

LEMMA TimerBystanding ==
    ASSUME Typed, Timer
    PROVE  Bystanding
<1>1. \A k \in Probes : Undisturbed(dq, dq', Words(k))
  BY TimerTyped, WordsOthers
<1>2. \A k \in Probes : Undisturbed(ioq, ioq', Tasks(k))
  BY QueuesJudged DEF Timer
<1>3. UNCHANGED <<probe, probes, generation>>
  BY DEF Timer, Dispatched, scopeVars, acceptorVars, peerVars, probeVars, appVars, IoUnchanged,
     DispatcherUnchanged
<1>4. QED
  BY <1>1, <1>2, <1>3 DEF Bystanding

LEMMA WatchFiresBystanding ==
    ASSUME Typed, WatchFires
    PROVE  Bystanding
<1>1. \A k \in Probes : Undisturbed(dq, dq', Words(k))
  BY WatchFiresTyped, WordsOthers
<1>2. \A k \in Probes : Undisturbed(ioq, ioq', Tasks(k))
  BY QueuesJudged DEF WatchFires
<1>3. UNCHANGED <<probe, probes, generation>>
  BY DEF WatchFires, Enqueue, scopeVars, taskVars, acceptorVars, peerVars, probeVars, appVars,
     IoUnchanged, DispatcherUnchanged
<1>4. QED
  BY <1>1, <1>2, <1>3 DEF Bystanding

LEMMA CheckBystanding ==
    ASSUME Typed, Check
    PROVE  Bystanding
<1>1. \A k \in Probes : Undisturbed(dq, dq', Words(k))
  BY CheckTyped, WordsOthers
<1>2. \A k \in Probes : Undisturbed(ioq, ioq', Tasks(k))
  BY CheckTyped, TasksOthers DEF ProbeHandlers
<1>3. UNCHANGED <<probe, probes, generation>>
  BY DEF Check, Dispatching, Post, Dispatched, scopeVars, taskVars, acceptorVars, peerVars,
     probeVars, appVars, IoUnchanged, DispatcherUnchanged
<1>4. QED
  BY <1>1, <1>2, <1>3 DEF Bystanding

LEMMA BindBystanding ==
    ASSUME Typed, NEW outcome \in {"bound", "bind_failed", "ignored"}, Bind(outcome)
    PROVE  Bystanding
<1>1. \A k \in Probes : Undisturbed(dq, dq', Words(k))
  BY BindTouches, WordsOthers
<1>2. \A k \in Probes : Undisturbed(ioq, ioq', Tasks(k))
  BY BindTouches, TasksOthers DEF ProbeHandlers
<1>3. UNCHANGED <<probe, probes, generation>>
  BY DEF Bind, Running, Posting, MayBind, acceptorVars, Enqueue, CloseAcceptor, peerVars,
     probeVars, DispatcherUnchanged, Locked, scopeVars, taskVars, appVars, IoUnchanged
<1>4. QED
  BY <1>1, <1>2, <1>3 DEF Bystanding

LEMMA AcceptCompletesBystanding ==
    ASSUME Typed, NEW outcome \in {"ok", "error"}, AcceptCompletes(outcome)
    PROVE  Bystanding
<1>1. \A k \in Probes : Undisturbed(dq, dq', Words(k))
  BY QueuesJudged DEF AcceptCompletes, taskVars, acceptorVars, peerVars, probeVars, IoUnchanged, DispatcherUnchanged
<1>2. \A k \in Probes : Undisturbed(ioq, ioq', Tasks(k))
  BY AcceptCompletesTouches, TasksOthers DEF ProbeHandlers
<1>3. UNCHANGED <<probe, probes, generation>>
  BY DEF AcceptCompletes, Post, peerVars, probeVars, DispatcherUnchanged, scopeVars, taskVars,
     appVars, IoUnchanged
<1>4. QED
  BY <1>1, <1>2, <1>3 DEF Bystanding

LEMMA AcceptedBystanding ==
    ASSUME Typed, Accepted
    PROVE  Bystanding
<1>1. \A k \in Probes : Undisturbed(dq, dq', Words(k))
  BY AcceptedTouches, WordsOthers
<1>2. \A k \in Probes : Undisturbed(ioq, ioq', Tasks(k))
  BY AcceptedTouches, TasksOthers DEF ProbeHandlers
<1>3. UNCHANGED <<probe, probes, generation>>
  BY DEF Accepted, probeVars, scopeVars, IoUnchanged, DispatcherUnchanged
<1>4. QED
  BY <1>1, <1>2, <1>3 DEF Bystanding

LEMMA EraseBystanding ==
    ASSUME Typed, Erase
    PROVE  Bystanding
<1>1. \A k \in Probes : Undisturbed(dq, dq', Words(k))
  BY QueuesJudged DEF Erase, taskVars, acceptorVars, peerVars, probeVars, IoUnchanged, DispatcherUnchanged
<1>2. \A k \in Probes : Undisturbed(ioq, ioq', Tasks(k))
  BY EraseTyped, TasksOthers DEF ProbeHandlers
<1>3. UNCHANGED <<probe, probes, generation>>
  BY DEF Erase, probeVars, scopeVars, IoUnchanged, DispatcherUnchanged
<1>4. QED
  BY <1>1, <1>2, <1>3 DEF Bystanding

LEMMA ClosePeerBystanding ==
    ASSUME Typed, ClosePeer
    PROVE  Bystanding
<1>1. \A k \in Probes : Undisturbed(dq, dq', Words(k))
  BY QueuesJudged DEF ClosePeer, AsyncClose
<1>2. \A k \in Probes : Undisturbed(ioq, ioq', Tasks(k))
  BY ClosePeerTyped, TasksOthers DEF ProbeHandlers
<1>3. UNCHANGED <<probe, probes, generation>>
  BY DEF ClosePeer, probeVars, scopeVars, IoUnchanged, DispatcherUnchanged
<1>4. QED
  BY <1>1, <1>2, <1>3 DEF Bystanding

LEMMA ProbeIgnoredBystanding ==
    ASSUME Typed, ProbeIgnored
    PROVE  Bystanding
<1>1. \A k \in Probes : Undisturbed(dq, dq', Words(k))
  BY QueuesJudged DEF ProbeIgnored, taskVars, acceptorVars, peerVars, probeVars, IoUnchanged, DispatcherUnchanged
<1>2. \A k \in Probes : Undisturbed(ioq, ioq', Tasks(k))
  BY ProbeIgnoredTyped, TasksOthers DEF ProbeHandlers
<1>3. UNCHANGED <<probe, probes, generation>>
  BY DEF ProbeIgnored, Running, MayProbe, Posting, acceptorVars, peerVars, probeVars,
     IoUnchanged, Locked, DispatcherUnchanged, scopeVars, taskVars, appVars
<1>4. QED
  BY <1>1, <1>2, <1>3 DEF Bystanding

LEMMA KeepAliveBystanding ==
    ASSUME Typed, KeepAlive
    PROVE  Bystanding
<1>1. \A k \in Probes : Undisturbed(dq, dq', Words(k))
  BY QueuesJudged DEF KeepAlive, taskVars, acceptorVars, peerVars, probeVars, IoUnchanged, DispatcherUnchanged
<1>2. \A k \in Probes : Undisturbed(ioq, ioq', Tasks(k))
  BY KeepAliveTyped, TasksOthers DEF ProbeHandlers
<1>3. UNCHANGED <<probe, probes, generation>>
  BY DEF KeepAlive, Running, Posting, acceptorVars, peerVars, probeVars, IoUnchanged,
     DispatcherUnchanged, scopeVars, taskVars, appVars
<1>4. QED
  BY <1>1, <1>2, <1>3 DEF Bystanding

LEMMA DestroyBystanding ==
    ASSUME Typed, Destroy
    PROVE  Bystanding
<1>1. \A k \in Probes : Undisturbed(dq, dq', Words(k))
  BY QueuesJudged DEF Destroy, taskVars, acceptorVars, peerVars, probeVars, IoUnchanged, DispatcherUnchanged
<1>2. \A k \in Probes : Undisturbed(ioq, ioq', Tasks(k))
  BY QueuesJudged DEF Destroy
<1>3. UNCHANGED <<probe, probes, generation>>
  BY DEF Destroy, acceptorVars, peerVars, probeVars, IoUnchanged, DispatcherUnchanged, scopeVars,
     taskVars, appVars
<1>4. QED
  BY <1>1, <1>2, <1>3 DEF Bystanding

\* The steps that end a session: the probe of the last one is none of the next.
LEMMA SessionJudged ==
    ASSUME Typed, AllJudged,
           \A k \in Probes : Undisturbed(dq, dq', Words(k)) /\ Undisturbed(ioq, ioq', Tasks(k)),
           generation' = generation + 1, UNCHANGED <<probe, probes>>
    PROVE  AllJudged'
<1> SUFFICES ASSUME NEW k \in Probes PROVE Judged(k)'
  BY DEF AllJudged
<1>1. generation \in Nat /\ probes[k].token \in 0..generation
  BY Numbers
<1>2. probes[k].token # generation'
  BY <1>1
<1>3. QED
  BY <1>2, JudgedKept DEF AllJudged

LEMMA EndSessionJudged ==
    ASSUME Typed, AllJudged, EndSession
    PROVE  AllJudged'
<1>1. \A k \in Probes : Undisturbed(dq, dq', Words(k))
  BY EndSessionTouches, WordsOthers
<1>2. \A k \in Probes : Undisturbed(ioq, ioq', Tasks(k))
  BY QueuesJudged DEF EndSession
<1>3. generation' = generation + 1 /\ UNCHANGED <<probe, probes>>
  BY DEF EndSession, SessionEnded, probeVars
<1>4. QED
  BY <1>1, <1>2, <1>3, SessionJudged

LEMMA PostShutdownJudged ==
    ASSUME Typed, AllJudged, PostShutdown
    PROVE  AllJudged'
<1>1. \A k \in Probes : Undisturbed(dq, dq', Words(k))
  BY QueuesJudged DEF PostShutdown
<1>2. \A k \in Probes : Undisturbed(ioq, ioq', Tasks(k))
  BY PostShutdownTouches, TasksOthers DEF ProbeHandlers
<1>3. generation' = generation + 1 /\ UNCHANGED <<probe, probes>>
  BY DEF PostShutdown, SessionEnded, probeVars
<1>4. QED
  BY <1>1, <1>2, <1>3, SessionJudged

\* A timer that is cancelled, and what it leaves of a probe.
LEMMA TimerLowered ==
    ASSUME Typed, NEW f \in ProbeTable, NEW j \in Probes
    PROVE  /\ TimerOff(f)[j].state = f[j].state /\ TimerOff(f)[j].token = f[j].token
           /\ TimerOff(f)[j].timer => f[j].timer
<1>1. probe \in Probes \cup {None}
  BY DEF Typed, StateTyped, ProbesTyped
<1> HIDE DEF ProbeTable
<1>2. CASE probe = None
  BY <1>2 DEF TimerOff
<1>3. CASE probe # None
  <2> DEFINE p == probe
  <2>1. p \in Probes /\ TimerOff(f) = [f EXCEPT ![p].timer = FALSE]
    BY <1>1, <1>3 DEF TimerOff
  <2> HIDE DEF p
  <2>2. QED
    BY <2>1 DEF ProbeTable
<1>4. QED
  BY <1>2, <1>3

\* The steps that close the current probe, whatever it is.
LEMMA ClosedJudged ==
    ASSUME Typed, AllJudged,
           \A k \in Probes : Undisturbed(dq, dq', Words(k)) /\ Undisturbed(ioq, ioq', Tasks(k)),
           UNCHANGED generation, CloseProbe(probes)
    PROVE  AllJudged'
<1> SUFFICES ASSUME NEW k \in Probes PROVE Judged(k)'
  BY DEF AllJudged
<1>1. probes \in ProbeTable /\ None \notin Probes
  BY Names DEF Typed, StateTyped, ProbesTyped, ProbeTable
<1>2. probe' = None /\ probes' = TimerOff(probes)
  BY DEF CloseProbe
<1>3. probes'[k].state = probes[k].state /\ probes'[k].token = probes[k].token /\ (probes'[k].timer => probes[k].timer)
  BY <1>1, <1>2, TimerLowered
<1>4. QED
  BY <1>1, <1>2, <1>3, JudgedKept DEF AllJudged

LEMMA StopJudged ==
    ASSUME Typed, AllJudged, Stop
    PROVE  AllJudged'
<1>1. \A k \in Probes : Undisturbed(dq, dq', Words(k))
  BY QueuesJudged DEF Stop, CloseEverything
<1>2. \A k \in Probes : Undisturbed(ioq, ioq', Tasks(k))
  BY StopTouches, TasksOthers DEF ProbeHandlers
<1>3. UNCHANGED generation
  BY DEF Stop, IoUnchanged, DispatcherUnchanged, scopeVars
<1>4. CASE CloseProbe(probes)
  BY <1>1, <1>2, <1>3, <1>4, ClosedJudged
<1>5. CASE UNCHANGED probeVars
  BY <1>1, <1>2, <1>3, <1>5, AllKept DEF probeVars
<1>6. QED
  BY <1>4, <1>5 DEF Stop, CloseEverything

LEMMA ShutdownJudged ==
    ASSUME Typed, AllJudged, Shutdown
    PROVE  AllJudged'
<1>1. \A k \in Probes : Undisturbed(dq, dq', Words(k))
  BY QueuesJudged DEF Shutdown, CloseEverything
<1>2. \A k \in Probes : Undisturbed(ioq, ioq', Tasks(k))
  BY ShutdownTouches, TasksOthers DEF ProbeHandlers
<1>3. UNCHANGED generation /\ CloseProbe(probes)
  BY DEF Shutdown, CloseEverything, IoUnchanged, DispatcherUnchanged, scopeVars
<1>4. QED
  BY <1>1, <1>2, <1>3, ClosedJudged

\* What the peers say.
LEMMA PeersWords ==
    ASSUME Typed, NEW x \in Seq(DqEntries), dq' = dq \o x,
           \A k \in Probes : ~Has(x, Words(k))
    PROVE  \A k \in Probes : Undisturbed(dq, dq', Words(k))
BY SentElsewhere DEF Typed, DqTyped

LEMMA PeersOnly ==
    ASSUME NEW id \in Peers
    PROVE  /\ \A w, k : k \in Probes => Signal(w, id) \notin Words(k)
           /\ \A k \in Probes : About("peerClosed", id) \notin Words(k)
BY Names DEF Signal, About, Entry, Words

LEMMA PeerReadyBystanding ==
    ASSUME Typed, NEW id \in Peers, PeerReady(id)
    PROVE  Bystanding
<1> DEFINE e == Signal("ready", id)
<1>1. e \in DqEntries /\ dq' = Append(dq, e) /\ \A k \in Probes : e \notin Words(k)
  BY DqMade, PeersOnly DEF PeerReady
<1> HIDE DEF e
<1>2. <<e>> \in Seq(DqEntries) /\ \A k \in Probes : ~Has(<<e>>, Words(k))
  BY <1>1, Made
<1>3. dq' = dq \o <<e>>
  BY <1>1, Plain DEF Typed, DqTyped
<1>4. ioq' = ioq /\ UNCHANGED <<probe, probes, generation>>
  BY DEF PeerReady, probeVars, IoUnchanged, DispatcherUnchanged, scopeVars
<1>5. QED
  BY <1>2, <1>3, <1>4, PeersWords, QueuesJudged DEF Bystanding

LEMMA PeerReportsBystanding ==
    ASSUME Typed, NEW id \in Peers, PeerReports(id)
    PROVE  Bystanding
<1> DEFINE e == Signal(IF sock[id] = "open" THEN "report" ELSE "late", id)
<1>1. e \in DqEntries /\ dq' = Append(dq, e) /\ \A k \in Probes : e \notin Words(k)
  BY DqMade, PeersOnly DEF PeerReports
<1> HIDE DEF e
<1>2. <<e>> \in Seq(DqEntries) /\ \A k \in Probes : ~Has(<<e>>, Words(k))
  BY <1>1, Made
<1>3. dq' = dq \o <<e>>
  BY <1>1, Plain DEF Typed, DqTyped
<1>4. ioq' = ioq /\ UNCHANGED <<probe, probes, generation>>
  BY DEF PeerReports, probeVars, DispatcherUnchanged, scopeVars
<1>5. QED
  BY <1>2, <1>3, <1>4, PeersWords, QueuesJudged DEF Bystanding

LEMMA PeerEndsBystanding ==
    ASSUME Typed, NEW id \in Peers, NEW failed \in BOOLEAN, PeerEnds(id, failed)
    PROVE  Bystanding
<1> DEFINE c == Signal("closed", id)
           r == Signal("report", id)
<1>1. /\ c \in DqEntries /\ r \in DqEntries /\ \A k \in Probes : c \notin Words(k) /\ r \notin Words(k)
      /\ dq' = dq \o <<r, c>> \/ dq' = Append(dq, c)
  BY DqMade, PeersOnly DEF PeerEnds, LastWords
<1>2. ioq' = ioq /\ UNCHANGED <<probe, probes, generation>>
  BY DEF PeerEnds, probeVars, DispatcherUnchanged, scopeVars
<1> HIDE DEF c, r
<1>3. /\ <<c>> \in Seq(DqEntries) /\ \A k \in Probes : ~Has(<<c>>, Words(k))
      /\ <<r, c>> \in Seq(DqEntries) /\ \A k \in Probes : ~Has(<<r, c>>, Words(k))
  BY <1>1, Made
<1>4. dq' = dq \o <<r, c>> \/ dq' = dq \o <<c>>
  BY <1>1, Plain DEF Typed, DqTyped
<1>5. QED
  BY <1>2, <1>3, <1>4, PeersWords, QueuesJudged DEF Bystanding

LEMMA RunPeerCloseBystanding ==
    ASSUME Typed, RunPeerClose
    PROVE  Bystanding
<1> DEFINE id == H.who
           c == Signal("closed", id)
           p == About("peerClosed", id)
           a == IF sock[id] = "open" THEN <<c>> ELSE <<>>
           b == IF H.what = "notify" /\ Locked /\ attached THEN <<p>> ELSE <<>>
<1>1. /\ ioq # <<>> /\ H.op = "peerClose" /\ id \in Peers /\ ioq' = Tail(ioq) \o <<>>
      /\ UNCHANGED <<probe, probes, generation>> /\ dq' = dq \o a \o b
  BY Heads, IoRead DEF RunPeerClose, Running, H, Posting, probeVars, IoUnchanged, DispatcherUnchanged,
     scopeVars
<1>2. /\ c \in DqEntries /\ p \in DqEntries /\ \A k \in Probes : c \notin Words(k) /\ p \notin Words(k)
  BY <1>1, DqMade, PeersOnly DEF About
<1> HIDE DEF id, c, p
<1>3. /\ a \in Seq(DqEntries) /\ b \in Seq(DqEntries)
      /\ \A k \in Probes : ~Has(a, Words(k)) /\ ~Has(b, Words(k))
  BY <1>2, Made
<1> HIDE DEF a, b
<1>4. a \o b \in Seq(DqEntries) /\ \A k \in Probes : ~Has(a \o b, Words(k))
  BY <1>3, SentHas
<1>5. dq \o a \o b = dq \o (a \o b)
  BY <1>3 DEF Typed, DqTyped
<1>6. \A k \in Probes : Undisturbed(dq, dq', Words(k))
  BY <1>1, <1>4, <1>5, PeersWords
<1>7. Undisturbed(ioq, ioq', Others({"peerClose"}))
  BY <1>1, IoTouch, Made
<1>8. \A k \in Probes : Undisturbed(ioq, ioq', Tasks(k))
  BY <1>7, TasksOthers DEF ProbeHandlers
<1>9. QED
  BY <1>1, <1>6, <1>8 DEF Bystanding

\* What a release and the detachment leave of the queue.
LEMMA ReleaseBystanding ==
    ASSUME Typed, NEW id \in Peers, Release(id)
    PROVE  Bystanding
<1> DEFINE I == {i \in DOMAIN dq : ~(dq[i].op = "signal" /\ dq[i].who = id)}
<1>1. /\ I \in SUBSET DOMAIN dq /\ dq' = Selected(dq, I) /\ dq \in Seq(DqEntries)
      /\ ioq' = ioq /\ UNCHANGED <<probe, probes, generation>>
  BY DEF Release, probeVars, IoUnchanged, DispatcherUnchanged, scopeVars, Typed, DqTyped
<1>2. \A k \in Probes : \A i \in DOMAIN dq : dq[i] \in Words(k) => i \in I
  BY Names DEF Words
<1> HIDE DEF I
<1>3. \A k \in Probes : Undisturbed(dq, dq', Words(k))
  BY <1>1, <1>2, ErasedElsewhere
<1>4. QED
  BY <1>1, <1>3, QueuesJudged DEF Bystanding

LEMMA DetachBystanding ==
    ASSUME Typed, Detach
    PROVE  Bystanding
<1> DEFINE I == {i \in DOMAIN dq : dq[i].op = "signal"}
<1>1. /\ I \in SUBSET DOMAIN dq /\ dq' = Selected(dq, I) /\ dq \in Seq(DqEntries)
      /\ ioq' = ioq /\ UNCHANGED <<probe, probes, generation>>
  BY DEF Detach, probeVars, Typed, DqTyped
<1>2. \A k \in Probes : \A e \in Words(k) : e.op = "signal"
  <2>1. \A k \in Probes : \A e \in Words(k) : e \in DqEntries /\ e.who \in Probes
    BY DEF Words
  <2>2. QED
    BY <2>1, DqRead, Names
<1>3. \A k \in Probes : \A i \in DOMAIN dq : dq[i] \in Words(k) => i \in I
  BY <1>2
<1> HIDE DEF I
<1>4. \A k \in Probes : Undisturbed(dq, dq', Words(k))
  BY <1>1, <1>3, ErasedElsewhere
<1>5. QED
  BY <1>1, <1>4, QueuesJudged DEF Bystanding

\* The handlers and the signals of one probe.
LEMMA TaskKinds ==
    ASSUME NEW k \in Probes
    PROVE  /\ \A t \in IoEntries : t.who = k =>
                /\ t \in Expiries(k) <=> t.op = "probeTimeout"
                /\ t \in Connects(k) <=> t.op = "probeConnected"
                /\ t \in Failures(k) <=> t.op = "probeFailed"
                /\ t \in Answers(k) <=> t.op = "probeAnswer"
           /\ \A t \in IoEntries : t.who # k \/ t.op \notin ProbeHandlers => t \notin Tasks(k)
           /\ \A e \in DqEntries : e.who = k /\ e.op = "signal" =>
                /\ e \in Signals("failed", k) <=> e.what = "failed"
                /\ e \in Signals("answer", k) <=> e.what = "answer"
           /\ \A e \in DqEntries : e.who # k => e \notin Words(k)
BY DEF Expiries, Connects, Failures, Answers, Handlers, Tasks, Signals, Words

\* One entry sent, and the first one taken.
LEMMA OneSent ==
    ASSUME NEW S, NEW q \in Seq(S), NEW e \in S
    PROVE  /\ \A A : Has(q \o <<e>>, A) <=> Has(q, A) \/ e \in A
           /\ \A A, B : NotBefore(q \o <<e>>, A, B) <=> NotBefore(q, A, B) /\ ~(Has(q, A) /\ e \in B)
<1>1. <<e>> \in Seq(S)
  OBVIOUS
<1>2. ASSUME NEW A, NEW B
      PROVE  /\ Has(q \o <<e>>, A) <=> Has(q, A) \/ e \in A
             /\ NotBefore(q \o <<e>>, A, B) <=> NotBefore(q, A, B) /\ ~(Has(q, A) /\ e \in B)
  <2>1. \A Z : Has(<<e>>, Z) <=> e \in Z
    BY Literals
  <2>2. NotBefore(<<e>>, A, B)
    BY Literals
  <2>3. \A x \in Seq(S) : /\ Has(q \o x, A) <=> Has(q, A) \/ Has(x, A)
                          /\ NotBefore(q \o x, A, B) <=> /\ NotBefore(q, A, B) /\ NotBefore(x, A, B)
                                                         /\ ~(Has(q, A) /\ Has(x, B))
    BY Joined
  <2>4. PICK x \in Seq(S) : x = <<e>>
    BY <1>1
  <2>5. QED
    BY <2>1, <2>2, <2>3, <2>4
<1>3. QED
  BY <1>2

LEMMA FirstTaken ==
    ASSUME NEW S, NEW q \in Seq(S), q # <<>>, NEW x \in Seq(S), NEW W, ~Has(x, W)
    PROVE  \A A, B \in SUBSET W :
             /\ Has(q, A) <=> Head(q) \in A \/ Has(Tail(q) \o x, A)
             /\ NotBefore(q, A, B) => NotBefore(Tail(q) \o x, A, B) /\ ~(Head(q) \in A /\ Has(Tail(q) \o x, B))
<1> SUFFICES ASSUME NEW A \in SUBSET W, NEW B \in SUBSET W
             PROVE  /\ Has(q, A) <=> Head(q) \in A \/ Has(Tail(q) \o x, A)
                    /\ NotBefore(q, A, B) => NotBefore(Tail(q) \o x, A, B) /\ ~(Head(q) \in A /\ Has(Tail(q) \o x, B))
  OBVIOUS
<1>1. ~Has(x, A) /\ ~Has(x, B) /\ NotBefore(x, A, B)
  BY DEF Has, NotBefore
<1>2. /\ Has(q, A) <=> Head(q) \in A \/ Has(Tail(q), A)
      /\ NotBefore(q, A, B) <=> NotBefore(Tail(q), A, B) /\ ~(Head(q) \in A /\ Has(Tail(q), B))
  BY Popped
<1>3. Tail(q) \in Seq(S)
  BY Popped
<1>4. /\ Has(Tail(q) \o x, A) <=> Has(Tail(q), A) \/ Has(x, A)
      /\ Has(Tail(q) \o x, B) <=> Has(Tail(q), B) \/ Has(x, B)
      /\ NotBefore(Tail(q) \o x, A, B) <=> /\ NotBefore(Tail(q), A, B) /\ NotBefore(x, A, B)
                                           /\ ~(Has(Tail(q), A) /\ Has(x, B))
  BY <1>3, Joined
<1>5. QED
  BY <1>1, <1>2, <1>4

\* A step of one probe: what it leaves of the others.
LEMMA OneProbe ==
    ASSUME AllJudged, UNCHANGED generation, NEW k \in Probes, Judged(k)',
           \A j \in Probes : j # k =>
             /\ Undisturbed(dq, dq', Words(j)) /\ Undisturbed(ioq, ioq', Tasks(j))
             /\ probes'[j].state = probes[j].state /\ probes'[j].token = probes[j].token
             /\ probes'[j].timer => probes[j].timer
             /\ probe' = j => probe = j
    PROVE  AllJudged'
<1> SUFFICES ASSUME NEW j \in Probes PROVE Judged(j)'
  BY DEF AllJudged
<1>1. CASE j = k
  BY <1>1
<1>2. CASE j # k
  BY <1>2, JudgedKept DEF AllJudged
<1>3. QED
  BY <1>1, <1>2

\* A probe of which entries were taken.
LEMMA JudgedLess ==
    ASSUME NEW k \in Probes, Judged(k), UNCHANGED generation,
           \A B \in SUBSET Tasks(k) : Has(ioq', B) => Has(ioq, B),
           \A B \in SUBSET Words(k) : Has(dq', B) => Has(dq, B),
           \A A, B \in SUBSET Tasks(k) : NotBefore(ioq, A, B) => NotBefore(ioq', A, B),
           \A A, B \in SUBSET Words(k) : NotBefore(dq, A, B) => NotBefore(dq', A, B),
           probes'[k].state = probes[k].state, probes'[k].token = probes[k].token,
           probes'[k].timer => probes[k].timer, probe' = k => probe = k,
           probe' = k /\ probes[k].token = generation =>
             (Has(ioq, Answers(k)) \/ Has(dq, Signals("answer", k))
                => Has(ioq', Answers(k)) \/ Has(dq', Signals("answer", k)))
    PROVE  Judged(k)'
<1>1. /\ Has(ioq', Expiries(k)) => Has(ioq, Expiries(k))
      /\ Has(ioq', Connects(k)) => Has(ioq, Connects(k))
      /\ Has(ioq', Failures(k)) => Has(ioq, Failures(k))
      /\ Has(ioq', Answers(k)) => Has(ioq, Answers(k))
      /\ Has(dq', Signals("failed", k)) => Has(dq, Signals("failed", k))
      /\ Has(dq', Signals("answer", k)) => Has(dq, Signals("answer", k))
      /\ NotBefore(ioq, Connects(k), Connects(k)) => NotBefore(ioq', Connects(k), Connects(k))
      /\ NotBefore(ioq, Failures(k), Answers(k)) => NotBefore(ioq', Failures(k), Answers(k))
      /\ NotBefore(dq, Signals("failed", k), Signals("answer", k))
           => NotBefore(dq', Signals("failed", k), Signals("answer", k))
  BY TaskParts
<1>2. QED
  BY <1>1 DEF Judged

LEMMA ProbeBeginsJudged ==
    ASSUME Typed, AllJudged, NEW k \in Probes, ProbeBegins(k)
    PROVE  AllJudged'
<1>1. /\ probes[k].state = "free" /\ probe' = k /\ dq' = dq /\ UNCHANGED generation
      /\ probes' = [probes EXCEPT ![k] = [state |-> "connecting", timer |-> TRUE, token |-> H.token]]
  BY DEF ProbeBegins, DispatcherUnchanged, scopeVars
<1>2. \A j \in Probes : Undisturbed(ioq, ioq', Tasks(j)) /\ Undisturbed(dq, dq', Words(j))
  BY <1>1, ProbeBeginsTyped, TasksOthers, QueuesJudged DEF ProbeHandlers
<1>3. probes'[k].state = "connecting" /\ \A j \in Probes : j # k => probes'[j] = probes[j]
  BY <1>1 DEF Typed, StateTyped, ProbesTyped
<1>4. /\ \A B \in SUBSET Tasks(k) : Has(ioq', B) <=> Has(ioq, B)
      /\ \A B \in SUBSET Words(k) : Has(dq', B) <=> Has(dq, B)
  BY <1>2 DEF Undisturbed
<1>5. /\ ~Has(ioq', Expiries(k)) /\ ~Has(ioq', Connects(k)) /\ ~Has(ioq', Failures(k))
      /\ ~Has(ioq', Answers(k)) /\ ~Has(dq', Signals("failed", k)) /\ ~Has(dq', Signals("answer", k))
  BY <1>1, <1>4, TaskParts DEF AllJudged, Judged
<1>6. /\ NotBefore(ioq', Connects(k), Connects(k)) /\ NotBefore(ioq', Failures(k), Answers(k))
      /\ NotBefore(dq', Signals("failed", k), Signals("answer", k))
  BY <1>5, Nothing
<1>7. Judged(k)'
  BY <1>3, <1>5, <1>6 DEF Judged
<1>8. QED
  BY <1>1, <1>2, <1>3, <1>7, OneProbe

LEMMA ProbeConnectsJudged ==
    ASSUME Typed, AllJudged, NEW k \in Probes, NEW outcome \in {"ok", "failed"}, ProbeConnects(k, outcome)
    PROVE  AllJudged'
<1> DEFINE t == Entry("probeConnected", k, probes[k].token, outcome)
<1>1. /\ probes[k].state = "connecting" /\ dq' = dq /\ UNCHANGED <<generation, probe>>
      /\ probes' = [probes EXCEPT ![k].state = "connected"] /\ ioq' = ioq \o <<t>>
  BY DEF ProbeConnects, Post, DispatcherUnchanged, scopeVars
<1>2. t \in IoEntries /\ t.who = k /\ t.op = "probeConnected"
  <2>1. probes[k].token \in Nat
    BY Numbers
  <2>2. QED
    BY <2>1, IoMade DEF Entry
<1>3. ioq \in Seq(IoEntries)
  BY DEF Typed, IoTyped
<1> HIDE DEF t
<1>4. /\ probes'[k].state = "connected" /\ probes'[k].timer = probes[k].timer
      /\ \A j \in Probes : j # k => probes'[j] = probes[j]
  BY <1>1 DEF Typed, StateTyped, ProbesTyped
<1>5. \A j \in Probes : j # k => Undisturbed(ioq, ioq', Tasks(j)) /\ Undisturbed(dq, dq', Words(j))
  <2>1. \A j \in Probes : j # k => t \notin Tasks(j)
    BY <1>2, TaskKinds
  <2>2. <<t>> \in Seq(IoEntries) /\ \A A : t \notin A => ~Has(<<t>>, A)
    BY <1>2, Made
  <2>3. QED
    BY <1>1, <1>3, <2>1, <2>2, SentElsewhere, QueuesJudged
<1>6. /\ t \in Connects(k) /\ t \notin Expiries(k) /\ t \notin Failures(k) /\ t \notin Answers(k)
  BY <1>2, TaskKinds
<1>7. Judged(k)
  BY DEF AllJudged
<1>8. /\ ~Has(ioq, Connects(k)) /\ ~Has(ioq, Failures(k)) /\ ~Has(ioq, Answers(k))
      /\ ~Has(dq, Signals("failed", k)) /\ ~Has(dq, Signals("answer", k))
      /\ Has(ioq, Expiries(k)) => ~probes[k].timer
  BY <1>1, <1>7 DEF Judged
<1>9. /\ ~Has(ioq', Failures(k)) /\ ~Has(ioq', Answers(k))
      /\ Has(ioq', Expiries(k)) => ~probes[k].timer
      /\ NotBefore(ioq', Connects(k), Connects(k))
  BY <1>1, <1>2, <1>3, <1>6, <1>7, <1>8, OneSent DEF Judged
<1>10. NotBefore(ioq', Failures(k), Answers(k)) /\ NotBefore(dq', Signals("failed", k), Signals("answer", k))
  BY <1>1, <1>8, <1>9, Nothing
<1>11. Judged(k)'
  BY <1>1, <1>4, <1>8, <1>9, <1>10 DEF Judged
<1>12. QED
  BY <1>1, <1>4, <1>5, <1>11, OneProbe

LEMMA ProbeTimerExpiresJudged ==
    ASSUME Typed, AllJudged, NEW k \in Probes, ProbeTimerExpires(k)
    PROVE  AllJudged'
<1> DEFINE t == About("probeTimeout", k)
<1>1. /\ probes[k].timer /\ dq' = dq /\ UNCHANGED <<generation, probe>>
      /\ probes' = [probes EXCEPT ![k].timer = FALSE] /\ ioq' = ioq \o <<t>>
  BY DEF ProbeTimerExpires, Post, DispatcherUnchanged, scopeVars
<1>2. t \in IoEntries /\ t.who = k /\ t.op = "probeTimeout"
  BY IoMade DEF About, Entry
<1>3. ioq \in Seq(IoEntries)
  BY DEF Typed, IoTyped
<1> HIDE DEF t
<1>4. /\ probes'[k].state = probes[k].state /\ probes'[k].token = probes[k].token /\ ~probes'[k].timer
      /\ \A j \in Probes : j # k => probes'[j] = probes[j]
  BY <1>1 DEF Typed, StateTyped, ProbesTyped
<1>5. \A j \in Probes : j # k => Undisturbed(ioq, ioq', Tasks(j)) /\ Undisturbed(dq, dq', Words(j))
  <2>1. \A j \in Probes : j # k => t \notin Tasks(j)
    BY <1>2, TaskKinds
  <2>2. <<t>> \in Seq(IoEntries) /\ \A A : t \notin A => ~Has(<<t>>, A)
    BY <1>2, Made
  <2>3. QED
    BY <1>1, <1>3, <2>1, <2>2, SentElsewhere, QueuesJudged
<1>6. /\ t \notin Connects(k) /\ t \notin Failures(k) /\ t \notin Answers(k)
  BY <1>2, TaskKinds
<1>7. Judged(k)
  BY DEF AllJudged
<1>8. probes[k].state # "free"
  BY <1>1, <1>7 DEF Judged
<1>9. /\ Has(ioq', Connects(k)) <=> Has(ioq, Connects(k))
      /\ Has(ioq', Failures(k)) <=> Has(ioq, Failures(k))
      /\ Has(ioq', Answers(k)) <=> Has(ioq, Answers(k))
      /\ NotBefore(ioq, Connects(k), Connects(k)) => NotBefore(ioq', Connects(k), Connects(k))
      /\ NotBefore(ioq, Failures(k), Answers(k)) => NotBefore(ioq', Failures(k), Answers(k))
  BY <1>1, <1>2, <1>3, <1>6, OneSent
<1>10. Judged(k)'
  BY <1>1, <1>4, <1>7, <1>8, <1>9 DEF Judged
<1>11. QED
  BY <1>1, <1>4, <1>5, <1>10, OneProbe

LEMMA ProbeAnswersJudged ==
    ASSUME Typed, AllJudged, NEW k \in Probes, ProbeAnswers(k)
    PROVE  AllJudged'
<1> DEFINE e == Signal("answer", k)
<1>1. /\ probes[k].state = "open" /\ ioq' = ioq /\ UNCHANGED <<generation, probe>>
      /\ probes' = [probes EXCEPT ![k].state = "answered"] /\ dq' = Append(dq, e)
  BY DEF ProbeAnswers, IoUnchanged, DispatcherUnchanged, scopeVars
<1>2. e \in DqEntries /\ e.who = k /\ e.op = "signal" /\ e.what = "answer"
  BY DqMade DEF Signal, Entry
<1> HIDE DEF e
<1>3. dq \in Seq(DqEntries) /\ dq' = dq \o <<e>>
  BY <1>1, <1>2, Plain DEF Typed, DqTyped
<1>4. /\ probes'[k].state = "answered" /\ probes'[k].timer = probes[k].timer
      /\ \A j \in Probes : j # k => probes'[j] = probes[j]
  BY <1>1 DEF Typed, StateTyped, ProbesTyped
<1>5. \A j \in Probes : j # k => Undisturbed(ioq, ioq', Tasks(j)) /\ Undisturbed(dq, dq', Words(j))
  <2>1. \A j \in Probes : j # k => e \notin Words(j)
    BY <1>2, TaskKinds
  <2>2. <<e>> \in Seq(DqEntries) /\ \A A : e \notin A => ~Has(<<e>>, A)
    BY <1>2, Made
  <2>3. QED
    BY <1>1, <1>3, <2>1, <2>2, SentElsewhere, QueuesJudged
<1>6. e \in Signals("answer", k) /\ e \notin Signals("failed", k)
  BY <1>2, TaskKinds
<1>7. Judged(k)
  BY DEF AllJudged
<1>8. /\ ~Has(ioq, Connects(k)) /\ ~Has(ioq, Failures(k)) /\ ~Has(ioq, Answers(k))
      /\ ~Has(dq, Signals("failed", k))
  BY <1>1, <1>7 DEF Judged
<1>9. ~Has(dq', Signals("failed", k)) /\ Has(dq', Signals("answer", k))
  BY <1>2, <1>3, <1>6, <1>8, OneSent
<1>10. NotBefore(dq', Signals("failed", k), Signals("answer", k))
  BY <1>9, Nothing
<1>11. Judged(k)'
  BY <1>1, <1>4, <1>7, <1>8, <1>9, <1>10 DEF Judged
<1>12. QED
  BY <1>1, <1>4, <1>5, <1>11, OneProbe

\* The end of a probe's connection, from whichever side.
LEMMA EndedJudged ==
    ASSUME Typed, AllJudged, NEW k \in Probes, probes[k].state \in {"open", "answered"},
           \A j \in Probes : Undisturbed(ioq, ioq', Tasks(j)),
           dq' = Append(dq, Signal("failed", k)),
           probes' = [probes EXCEPT ![k].state = Ended(@)],
           UNCHANGED <<generation, probe, probePeer>>
    PROVE  AllJudged'
<1> DEFINE e == Signal("failed", k)
<1>1. e \in DqEntries /\ e.who = k /\ e.op = "signal" /\ e.what = "failed" /\ dq' = Append(dq, e)
  BY DqMade DEF Signal, Entry
<1> HIDE DEF e
<1>2. dq \in Seq(DqEntries) /\ dq' = dq \o <<e>>
  BY <1>1, Plain DEF Typed, DqTyped
<1>3. /\ probes'[k].state = Ended(probes[k].state) /\ probes'[k].timer = probes[k].timer
      /\ probes'[k].token = probes[k].token
      /\ \A j \in Probes : j # k => probes'[j] = probes[j]
  BY ProbeEnded DEF Typed, StateTyped
<1>4. /\ probes[k].state = "open" => probes'[k].state = "closed"
      /\ probes[k].state = "answered" => probes'[k].state = "done"
  BY <1>3 DEF Ended
<1>5. \A j \in Probes : j # k => Undisturbed(dq, dq', Words(j))
  <2>1. \A j \in Probes : j # k => e \notin Words(j)
    BY <1>1, TaskKinds
  <2>2. <<e>> \in Seq(DqEntries) /\ \A A : e \notin A => ~Has(<<e>>, A)
    BY <1>1, Made
  <2>3. QED
    BY <1>2, <2>1, <2>2, SentElsewhere
<1>6. e \in Signals("failed", k) /\ e \notin Signals("answer", k)
  BY <1>1, TaskKinds
<1>7. Judged(k)
  BY DEF AllJudged
<1>8. /\ ~Has(ioq, Connects(k)) /\ ~Has(ioq, Failures(k)) /\ ~Has(dq, Signals("failed", k))
  BY <1>7 DEF Judged
<1>9. /\ Has(dq', Signals("answer", k)) <=> Has(dq, Signals("answer", k))
      /\ NotBefore(dq', Signals("failed", k), Signals("answer", k))
  <2>1. NotBefore(dq, Signals("failed", k), Signals("answer", k))
    BY <1>7 DEF Judged
  <2>2. \A A, B : /\ Has(dq \o <<e>>, A) <=> Has(dq, A) \/ e \in A
                  /\ NotBefore(dq \o <<e>>, A, B) <=> NotBefore(dq, A, B) /\ ~(Has(dq, A) /\ e \in B)
    BY <1>1, <1>2, OneSent
  <2>3. QED
    BY <1>2, <1>6, <2>1, <2>2
<1>10. /\ ~Has(ioq', Connects(k)) /\ ~Has(ioq', Failures(k))
       /\ Has(ioq', Answers(k)) <=> Has(ioq, Answers(k))
       /\ Has(ioq', Expiries(k)) <=> Has(ioq, Expiries(k))
  BY <1>8, TaskParts DEF Undisturbed
<1>11. NotBefore(ioq', Failures(k), Answers(k)) /\ NotBefore(ioq', Connects(k), Connects(k))
  BY <1>10, Nothing
<1>12. Judged(k)'
  BY <1>3, <1>4, <1>7, <1>9, <1>10, <1>11 DEF Judged
<1>13. QED
  BY <1>3, <1>5, <1>12, OneProbe

LEMMA ProbeEndsJudged ==
    ASSUME Typed, AllJudged, NEW k \in Probes, ProbeEnds(k)
    PROVE  AllJudged'
<1>1. \A j \in Probes : Undisturbed(ioq, ioq', Tasks(j))
  BY QueuesJudged DEF ProbeEnds
<1>2. QED
  BY <1>1, EndedJudged DEF ProbeEnds, DispatcherUnchanged, scopeVars

LEMMA RunProbeCloseJudged ==
    ASSUME Typed, AllJudged, RunProbeClose
    PROVE  AllJudged'
<1> DEFINE k == H.who
<1>1. k \in Probes
  BY Heads, IoRead DEF RunProbeClose, Running, H
<1>2. \A j \in Probes : Undisturbed(ioq, ioq', Tasks(j))
  BY RunProbeCloseTyped, TasksOthers DEF ProbeHandlers
<1>3. /\ probes' = [probes EXCEPT ![k].state = Ended(@)] /\ UNCHANGED <<generation, probe, probePeer>>
      /\ dq' = IF probes[k].state \in {"open", "answered"} THEN Append(dq, Signal("failed", k)) ELSE dq
  BY DEF RunProbeClose, IoUnchanged, DispatcherUnchanged, scopeVars
<1> HIDE DEF k
<1>4. CASE probes[k].state \in {"open", "answered"}
  BY <1>1, <1>2, <1>3, <1>4, EndedJudged
<1>5. CASE probes[k].state \notin {"open", "answered"}
  <2>1. /\ probes'[k].state = Ended(probes[k].state) /\ probes'[k].timer = probes[k].timer
        /\ probes'[k].token = probes[k].token /\ \A j \in Probes : j # k => probes'[j] = probes[j]
    BY <1>1, <1>3, ProbeEnded DEF Typed, StateTyped
  <2>2. Ended(probes[k].state) = probes[k].state
    BY <1>5 DEF Ended
  <2>3. \A j \in Probes : Undisturbed(dq, dq', Words(j))
    BY <1>3, <1>5, QueuesJudged
  <2>4. \A j \in Probes : /\ probes'[j].state = probes[j].state /\ probes'[j].token = probes[j].token
                          /\ probes'[j].timer = probes[j].timer
    BY <2>1, <2>2
  <2>5. \A j \in Probes : Judged(j)'
    BY <1>2, <1>3, <2>3, <2>4, JudgedKept DEF AllJudged
  <2>6. QED
    BY <2>5 DEF AllJudged
<1>6. QED
  BY <1>4, <1>5

\* What the handlers of the probes take and post.
LEMMA VerdictTakes ==
    ASSUME Typed, AllJudged, ioq # <<>>, H.op \in ProbeHandlers,
           \/ ioq' = Tail(ioq) \o <<>>
           \/ ioq' = Tail(ioq) \o ProbeClosed
    PROVE  /\ \A j \in Probes : \A A, B \in SUBSET Tasks(j) :
                /\ Has(ioq, A) <=> H \in A \/ Has(ioq', A)
                /\ NotBefore(ioq, A, B) => NotBefore(ioq', A, B) /\ ~(H \in A /\ Has(ioq', B))
           /\ \A j \in Probes : j # H.who => Undisturbed(ioq, ioq', Tasks(j))
<1>1. /\ ioq \in Seq(IoEntries) /\ <<>> \in Seq(IoEntries) /\ ProbeClosed \in Seq(IoEntries)
      /\ \A A : ~Has(<<>>, A) /\ (Has(ProbeClosed, A) <=> probePeer # None /\ About("probeClose", probePeer) \in A)
  BY ProbeToClose, Made DEF Typed, IoTyped
<1>2. \A k, j : About("probeClose", k) \notin Tasks(j)
  BY DEF About, Entry, Tasks, ProbeHandlers
<1>3. PICK x \in Seq(IoEntries) : ioq' = Tail(ioq) \o x /\ \A j \in Probes : ~Has(x, Tasks(j))
  BY <1>1, <1>2
<1>4. H = Head(ioq) /\ \A j \in Probes : j # H.who => Head(ioq) \notin Tasks(j)
  BY DEF H, Tasks
<1>5. ASSUME NEW j \in Probes
      PROVE  \A A, B \in SUBSET Tasks(j) :
                /\ Has(ioq, A) <=> H \in A \/ Has(ioq', A)
                /\ NotBefore(ioq, A, B) => NotBefore(ioq', A, B) /\ ~(H \in A /\ Has(ioq', B))
  BY <1>1, <1>3, <1>4, FirstTaken
<1>6. ASSUME NEW j \in Probes, j # H.who
      PROVE  Undisturbed(ioq, ioq', Tasks(j))
  BY <1>1, <1>3, <1>4, <1>6, TakenElsewhere
<1>7. QED
  BY <1>5, <1>6

\* A note for the acceptor is none of a probe's words.
LEMMA NotesApart ==
    ASSUME Undisturbed(dq, dq', Others({"note"}))
    PROVE  \A k \in Probes : Undisturbed(dq, dq', Words(k))
BY WordsOthers

\* What HandleFailed does to probes, where `f' is what else happens to them.
LEMMA FailedProbes ==
    ASSUME Typed, NEW k \in Probes, NEW f \in ProbeTable, HandleFailed(k, f)
    PROVE  /\ \A j \in Probes : /\ probes'[j].state = f[j].state /\ probes'[j].token = f[j].token
                                /\ probes'[j].timer => f[j].timer
                                /\ probe' = j => probe = j /\ ~Current(k)
           /\ ioq' = Tail(ioq) \o <<>> \/ ioq' = Tail(ioq) \o ProbeClosed
<1>1. \/ probes' = f /\ probe' = probe /\ ~Current(k)
      \/ probes' = TimerOff(f) /\ probe' = None
  BY DEF HandleFailed, CloseProbe
<1>2. None \notin Probes
  BY Names
<1>3. \A j \in Probes : /\ probes'[j].state = f[j].state /\ probes'[j].token = f[j].token
                        /\ probes'[j].timer => f[j].timer
  BY <1>1, TimerLowered
<1>4. ioq' = Tail(ioq) \o <<>> \/ ioq' = Tail(ioq) \o ProbeClosed
  BY DEF HandleFailed, Posting
<1>5. QED
  BY <1>1, <1>2, <1>3, <1>4

LEMMA ProbeConnectedJudged ==
    ASSUME Typed, AllJudged, ProbeConnected
    PROVE  AllJudged'
<1>0. PICK k \in Probes : k = H.who
  BY Heads, IoRead DEF ProbeConnected, Running, H
<1> DEFINE closed == [probes EXCEPT ![k].state = "closed", ![k].timer = FALSE]
           open == [probes EXCEPT ![k].state = "open"]
<1>1. /\ ioq # <<>> /\ H \in IoEntries /\ H.op = "probeConnected" /\ k \in Probes /\ UNCHANGED generation
      /\ H.op \in ProbeHandlers
  BY <1>0, Heads, IoRead DEF ProbeConnected, Running, H, ProbeHandlers, IoUnchanged, DispatcherUnchanged, scopeVars
<1>2. \A j \in Probes : Undisturbed(dq, dq', Words(j))
  BY ProbeConnectedTouches, NotesApart
<1>3. /\ closed \in ProbeTable /\ open \in ProbeTable
      /\ closed[k].state = "closed" /\ ~closed[k].timer /\ open[k].state = "open" /\ open[k].timer = probes[k].timer
      /\ \A j \in Probes : j # k => closed[j] = probes[j] /\ open[j] = probes[j]
  BY <1>1 DEF Typed, StateTyped, ProbesTyped, ProbeTable, ProbeStates
<1>4. \/ HandleFailed(k, closed)
      \/ probes' = open /\ probe' = probe /\ ioq' = Tail(ioq) \o <<>>
  BY <1>0 DEF ProbeConnected, Posting
<1>5. H \in Connects(k) /\ H \notin Expiries(k) /\ H \notin Failures(k) /\ H \notin Answers(k)
  BY <1>0, <1>1, TaskKinds
<1>6. Judged(k)
  BY <1>1 DEF AllJudged
<1> HIDE DEF closed, open
<1>7. \/ /\ \A j \in Probes : /\ probes'[j].state = closed[j].state /\ probes'[j].token = closed[j].token
                              /\ probes'[j].timer => closed[j].timer
                              /\ probe' = j => probe = j
         /\ ioq' = Tail(ioq) \o <<>> \/ ioq' = Tail(ioq) \o ProbeClosed
      \/ probes' = open /\ probe' = probe /\ ioq' = Tail(ioq) \o <<>>
  BY <1>1, <1>3, <1>4, FailedProbes
<1>8. ioq' = Tail(ioq) \o <<>> \/ ioq' = Tail(ioq) \o ProbeClosed
  BY <1>7
<1>9. /\ \A A, B \in SUBSET Tasks(k) :
            /\ Has(ioq, A) <=> H \in A \/ Has(ioq', A)
            /\ NotBefore(ioq, A, B) => NotBefore(ioq', A, B) /\ ~(H \in A /\ Has(ioq', B))
      /\ \A j \in Probes : j # k => Undisturbed(ioq, ioq', Tasks(j))
  BY <1>1, <1>8, VerdictTakes, <1>0
<1>10. /\ Has(ioq, Connects(k)) /\ ~Has(ioq', Connects(k))
       /\ Has(ioq', Expiries(k)) => Has(ioq, Expiries(k))
       /\ Has(ioq', Failures(k)) => Has(ioq, Failures(k))
       /\ Has(ioq', Answers(k)) => Has(ioq, Answers(k))
  <2>1. NotBefore(ioq, Connects(k), Connects(k))
    BY <1>6 DEF Judged
  <2>2. QED
    BY <1>1, <1>5, <1>9, <2>1, TaskParts
<1>11. /\ ~Has(ioq, Failures(k)) /\ ~Has(ioq, Answers(k))
       /\ ~Has(dq, Signals("failed", k)) /\ ~Has(dq, Signals("answer", k))
       /\ Has(ioq, Expiries(k)) => ~probes[k].timer
  BY <1>6, <1>10 DEF Judged
<1>12. ~Has(dq', Signals("failed", k)) /\ ~Has(dq', Signals("answer", k))
  BY <1>1, <1>2, <1>11, TaskParts DEF Undisturbed
<1>13. ~Has(ioq', Failures(k)) /\ ~Has(ioq', Answers(k))
  BY <1>10, <1>11
<1>14. /\ NotBefore(ioq', Connects(k), Connects(k)) /\ NotBefore(ioq', Failures(k), Answers(k))
       /\ NotBefore(dq', Signals("failed", k), Signals("answer", k))
  BY <1>10, <1>12, <1>13, Nothing
<1>15. probes'[k].state \in {"open", "closed"} /\ (probes'[k].timer => probes[k].timer)
  BY <1>1, <1>3, <1>7
<1>16. Judged(k)'
  BY <1>10, <1>11, <1>12, <1>13, <1>14, <1>15 DEF Judged
<1>17. \A j \in Probes : j # k => /\ probes'[j].state = probes[j].state /\ probes'[j].token = probes[j].token
                                  /\ probes'[j].timer => probes[j].timer
                                  /\ probe' = j => probe = j
  BY <1>3, <1>7
<1>18. QED
  BY <1>1, <1>2, <1>9, <1>16, <1>17, OneProbe

LEMMA ProbeFailedJudged ==
    ASSUME Typed, AllJudged, ProbeFailed
    PROVE  AllJudged'
<1>0. PICK k \in Probes : k = H.who
  BY Heads, IoRead DEF ProbeFailed
<1>1. /\ ioq # <<>> /\ H \in IoEntries /\ H.op \in {"probeTimeout", "probeFailed"} /\ k \in Probes
      /\ UNCHANGED generation /\ H.op \in ProbeHandlers
  BY <1>0, Heads, IoRead DEF ProbeFailed, ProbeHandlers, IoUnchanged, DispatcherUnchanged, scopeVars
<1>2. \A j \in Probes : Undisturbed(dq, dq', Words(j))
  BY ProbeFailedTouches, NotesApart
<1>3. probes \in ProbeTable
  BY DEF Typed, StateTyped, ProbesTyped, ProbeTable
<1>4. /\ \A j \in Probes : /\ probes'[j].state = probes[j].state /\ probes'[j].token = probes[j].token
                           /\ probes'[j].timer => probes[j].timer
                           /\ probe' = j => probe = j
      /\ ioq' = Tail(ioq) \o <<>> \/ ioq' = Tail(ioq) \o ProbeClosed
  <2>1. CASE HandleFailed(k, probes)
    BY <1>1, <1>3, <2>1, FailedProbes
  <2>2. CASE Posting(<<>>) /\ UNCHANGED probeVars
    BY <2>2 DEF Posting, probeVars
  <2>3. QED
    BY <1>0, <2>1, <2>2 DEF ProbeFailed
<1>5. /\ \A A, B \in SUBSET Tasks(k) :
            /\ Has(ioq, A) <=> H \in A \/ Has(ioq', A)
            /\ NotBefore(ioq, A, B) => NotBefore(ioq', A, B) /\ ~(H \in A /\ Has(ioq', B))
      /\ \A j \in Probes : j # k => Undisturbed(ioq, ioq', Tasks(j))
  BY <1>1, <1>4, VerdictTakes, <1>0
<1>6. H \notin Answers(k)
  BY <1>1, TaskKinds, <1>0
<1>7. Judged(k)
  BY <1>1 DEF AllJudged
<1>8. Has(ioq, Answers(k)) => Has(ioq', Answers(k))
  BY <1>1, <1>5, <1>6, TaskParts
<1>9. /\ \A B \in SUBSET Words(k) : Has(dq', B) <=> Has(dq, B)
      /\ \A A, B \in SUBSET Words(k) : NotBefore(dq, A, B) => NotBefore(dq', A, B)
  BY <1>1, <1>2 DEF Undisturbed
<1>10. Has(dq, Signals("answer", k)) => Has(dq', Signals("answer", k))
  BY <1>1, <1>9, TaskParts
<1>11. Judged(k)'
  <2>1. /\ \A B \in SUBSET Tasks(k) : Has(ioq', B) => Has(ioq, B)
        /\ \A A, B \in SUBSET Tasks(k) : NotBefore(ioq, A, B) => NotBefore(ioq', A, B)
    BY <1>5
  <2>2. QED
    BY <1>1, <1>4, <1>7, <1>8, <1>9, <1>10, <2>1, JudgedLess
<1>12. QED
  BY <1>1, <1>2, <1>4, <1>5, <1>11, OneProbe

\* A probe of the session belongs to a server that is there.
LEMMA CurrentProbe ==
    ASSUME Typed, Ordered, Sessions, NEW k \in Probes, probe = k, probes[k].token = generation
    PROVE  IsCurrent(probes[k].token) /\ life = "live"
<1>1. k # None
  BY Names
<1>2. running /\ ~Stopping
  BY <1>1 DEF Sessions
<1>3. dpc # "stop"
  BY <1>2 DEF Stopping
<1>4. dpc \in {"idle", "stop", "shutdown"}
  BY DEF Typed, StateTyped, ScopeTyped
<1>5. QED
  BY <1>2, <1>3, <1>4 DEF Ordered, IsCurrent

LEMMA ProbeAnsweredJudged ==
    ASSUME Typed, Ordered, Sessions, AllJudged, ProbeAnswered
    PROVE  AllJudged'
<1>0. PICK k \in Probes : k = H.who
  BY Heads, IoRead DEF ProbeAnswered, Running, H
<1>1. /\ ioq # <<>> /\ H \in IoEntries /\ H.op = "probeAnswer" /\ k \in Probes
      /\ UNCHANGED <<generation, dq>> /\ H.op \in ProbeHandlers
  BY <1>0, Heads, IoRead DEF ProbeAnswered, Running, H, ProbeHandlers, IoUnchanged, DispatcherUnchanged, scopeVars
<1>2. \A j \in Probes : Undisturbed(dq, dq', Words(j))
  BY <1>1, QueuesJudged
<1>3. probes \in ProbeTable /\ None \notin Probes
  BY Names DEF Typed, StateTyped, ProbesTyped, ProbeTable
<1>4. probe = k /\ probes[k].token = generation => Current(k) /\ Locked
  BY <1>1, CurrentProbe DEF Current, Locked
<1>5. /\ \A j \in Probes : /\ probes'[j].state = probes[j].state /\ probes'[j].token = probes[j].token
                           /\ probes'[j].timer => probes[j].timer
                           /\ probe' = j => probe = j
      /\ ioq' = Tail(ioq) \o <<>> \/ ioq' = Tail(ioq) \o ProbeClosed
      /\ probe = k /\ probes[k].token = generation => probe' = None
  <2>1. CASE CloseProbe(probes) /\ Posting(ProbeClosed)
    BY <1>3, <2>1, TimerLowered DEF CloseProbe, Posting
  <2>2. CASE ~(Locked /\ Current(k)) /\ Posting(<<>>) /\ UNCHANGED probeVars
    BY <1>4, <2>2 DEF Posting, probeVars
  <2>3. QED
    BY <1>0, <2>1, <2>2 DEF ProbeAnswered
<1>6. /\ \A A, B \in SUBSET Tasks(k) :
            /\ Has(ioq, A) <=> H \in A \/ Has(ioq', A)
            /\ NotBefore(ioq, A, B) => NotBefore(ioq', A, B) /\ ~(H \in A /\ Has(ioq', B))
      /\ \A j \in Probes : j # k => Undisturbed(ioq, ioq', Tasks(j))
  BY <1>1, <1>5, VerdictTakes, <1>0
<1>7. Judged(k)
  BY <1>1 DEF AllJudged
<1>8. ~(probe' = k /\ probes[k].token = generation)
  BY <1>1, <1>3, <1>5
<1>9. Judged(k)'
  <2>1. /\ \A B \in SUBSET Tasks(k) : Has(ioq', B) => Has(ioq, B)
        /\ \A A, B \in SUBSET Tasks(k) : NotBefore(ioq, A, B) => NotBefore(ioq', A, B)
    BY <1>6
  <2>2. /\ \A B \in SUBSET Words(k) : Has(dq', B) => Has(dq, B)
        /\ \A A, B \in SUBSET Words(k) : NotBefore(dq, A, B) => NotBefore(dq', A, B)
    BY <1>1
  <2>3. QED
    BY <1>1, <1>5, <1>7, <1>8, <2>1, <2>2, JudgedLess
<1>10. QED
  BY <1>1, <1>2, <1>5, <1>6, <1>9, OneProbe

LEMMA ReleaseProbeJudged ==
    ASSUME Typed, AllJudged, NEW k \in Probes, ReleaseProbe(k)
    PROVE  AllJudged'
<1> DEFINE I == {i \in DOMAIN dq : dq[i].who # k}
<1>1. /\ I \in SUBSET DOMAIN dq /\ dq' = Selected(dq, I) /\ dq \in Seq(DqEntries)
      /\ ioq' = ioq /\ UNCHANGED <<probe, generation>> /\ probe # k /\ ~probes[k].timer
      /\ probes' = [probes EXCEPT ![k].state = "free", ![k].token = 0]
      /\ \A t \in ToSet(ioq) : t.who # k
  BY DEF ReleaseProbe, IoUnchanged, DispatcherUnchanged, scopeVars, Typed, DqTyped
<1>2. /\ \A j \in Probes : j # k => \A i \in DOMAIN dq : dq[i] \in Words(j) => i \in I
      /\ \A i \in I : dq[i] \notin Words(k)
  BY DEF Words
<1> HIDE DEF I
<1>3. \A j \in Probes : j # k => Undisturbed(dq, dq', Words(j)) /\ Undisturbed(ioq, ioq', Tasks(j))
  BY <1>1, <1>2, ErasedElsewhere, QueuesJudged
<1>4. /\ probes'[k].state = "free" /\ ~probes'[k].timer
      /\ \A j \in Probes : j # k => probes'[j] = probes[j]
  BY <1>1 DEF Typed, StateTyped, ProbesTyped
<1>5. ~Has(dq', Signals("failed", k)) /\ ~Has(dq', Signals("answer", k))
  <2>1. \A w : \A i \in I : dq[i] \notin Signals(w, k)
    BY <1>2, TaskParts
  <2>2. QED
    BY <1>1, <2>1, ErasedHas
<1>6. /\ ~Has(ioq', Expiries(k)) /\ ~Has(ioq', Connects(k)) /\ ~Has(ioq', Failures(k)) /\ ~Has(ioq', Answers(k))
  BY <1>1, Elements DEF Expiries, Connects, Failures, Answers, Handlers
<1>7. /\ NotBefore(ioq', Connects(k), Connects(k)) /\ NotBefore(ioq', Failures(k), Answers(k))
      /\ NotBefore(dq', Signals("failed", k), Signals("answer", k))
  BY <1>5, <1>6, Nothing
<1>8. Judged(k)'
  BY <1>1, <1>4, <1>5, <1>6, <1>7 DEF Judged
<1>9. QED
  BY <1>1, <1>3, <1>4, <1>8, OneProbe

\* The slots of a probe's peer: those of a peer of the server do not touch it.
LEMMA PeerSignalJudged ==
    ASSUME Typed, AllJudged, DispatchSignal, E.who \in Peers
    PROVE  AllJudged'
<1>1. PICK x \in Seq(DqEntries), y \in Seq(IoEntries) :
             /\ dq # <<>> /\ E.op = "signal" /\ E \in DqEntries /\ E = Head(dq)
             /\ dq' = Tail(dq) \o x /\ ioq' = ioq \o y
             /\ \/ x = <<>>
                \/ E.who \in Peers /\ E.what = "ready" /\ x = <<Note("ready", E.who, session[E.who])>>
                \/ E.who \in Peers /\ E.what = "closed" /\ x = <<Entry("peerClosed", E.who, 0, "slot")>>
                \/ E.who \in Peers /\ E.what \in {"report", "late"} /\ x = <<Entry("report", E.who, 0, E.what)>>
             /\ \/ y = <<>>
                \/ E.who \in Peers /\ E.what = "closed" /\ y = <<About("erase", E.who)>>
                \/ E.who \in Probes /\ E.what = "answer" /\ y = <<About("probeAnswer", E.who)>>
                \/ E.who \in Probes /\ E.what = "failed" /\ y = <<About("probeFailed", E.who)>>
  BY SignalDispatched
<1>2. PICK p \in Peers : p = E.who /\ p \notin Probes
  BY Names
<1>3. /\ \A n, k : k \in Probes => Note("ready", p, n) \notin Words(k)
      /\ \A w, k : k \in Probes => Entry("peerClosed", p, 0, w) \notin Words(k) /\ Entry("report", p, 0, w) \notin Words(k)
      /\ \A k \in Probes : About("erase", p) \notin Tasks(k)
  BY <1>2 DEF Note, About, Entry, Words, Tasks
<1>4. \A e, A : ~Has(<<>>, A) /\ (e \notin A => ~Has(<<e>>, A))
  BY Literals
<1>5. \A k \in Probes : ~Has(x, Words(k)) /\ ~Has(y, Tasks(k))
  BY <1>1, <1>2, <1>3, <1>4
<1>6. \A k \in Probes : Head(dq) \notin Words(k)
  BY <1>1, <1>2 DEF Words
<1>7. \A k \in Probes : Undisturbed(dq, dq', Words(k)) /\ Undisturbed(ioq, ioq', Tasks(k))
  BY <1>1, <1>5, <1>6, TakenElsewhere, SentElsewhere DEF Typed, DqTyped, IoTyped
<1>8. UNCHANGED <<probe, probes, generation>>
  BY DEF DispatchSignal, probeVars, scopeVars
<1>9. QED
  BY <1>7, <1>8, AllKept

\* What a probe's slot posts, if it posts.
LEMMA ProbeSignal ==
    ASSUME Typed, DispatchSignal, NEW k \in Probes, E.who = k
    PROVE  /\ dq # <<>> /\ E \in DqEntries /\ E.op = "signal" /\ E = Head(dq) /\ dq' = Tail(dq) \o <<>>
           /\ E.what \in {"answer", "failed"}
           /\ LET t == About(IF E.what = "answer" THEN "probeAnswer" ELSE "probeFailed", k)
              IN \/ ioq' = ioq \o <<t>>
                 \/ ioq' = ioq \o <<>> /\ ~(life = "live" /\ IsCurrent(probes[k].token))
<1>1. dq # <<>> /\ E \in DqEntries /\ E.op = "signal" /\ E = Head(dq) /\ E.what \in {"answer", "failed"}
  BY Heads, DqRead, Names DEF DispatchSignal, Dispatching, E
<1>2. CASE life # "live"
  BY <1>1, <1>2 DEF DispatchSignal, Post, Dispatched
<1>3. CASE life = "live" /\ E.what = "answer"
  <2>1. /\ ioq' = ioq \o (IF IsCurrent(probes[k].token) THEN <<About("probeAnswer", k)>> ELSE <<>>)
        /\ dq' = Tail(dq) \o <<>>
    BY <1>3 DEF DispatchSignal, Post, Dispatched
  <2>2. QED
    BY <1>1, <1>3, <2>1
<1>4. CASE life = "live" /\ E.what = "failed"
  <2>1. /\ ioq' = ioq \o (IF IsCurrent(probes[k].token) THEN <<About("probeFailed", k)>> ELSE <<>>)
        /\ dq' = Tail(dq) \o <<>>
    BY <1>4 DEF DispatchSignal, Post, Dispatched
  <2>2. QED
    BY <1>1, <1>4, <2>1
<1>5. QED
  BY <1>1, <1>2, <1>3, <1>4

LEMMA ProbeSignalJudged ==
    ASSUME Typed, Ordered, Sessions, AllJudged, DispatchSignal, E.who \in Probes
    PROVE  AllJudged'
<1>1. PICK k \in Probes : E.who = k
  OBVIOUS
<1>2. PICK e \in DqEntries : e = E /\ e.who = k /\ e.op = "signal" /\ e = Head(dq) /\ e.what \in {"answer", "failed"}
  BY <1>1, ProbeSignal
<1>3. PICK t \in IoEntries : /\ t.who = k /\ t.op = (IF e.what = "answer" THEN "probeAnswer" ELSE "probeFailed")
                             /\ \/ ioq' = ioq \o <<t>>
                                \/ ioq' = ioq \o <<>> /\ ~(life = "live" /\ IsCurrent(probes[k].token))
  <2> DEFINE f == About(IF E.what = "answer" THEN "probeAnswer" ELSE "probeFailed", k)
  <2>1. f \in IoEntries /\ f.who = k /\ f.op = (IF E.what = "answer" THEN "probeAnswer" ELSE "probeFailed")
    BY IoMade DEF About, Entry
  <2>2. \/ ioq' = ioq \o <<f>>
        \/ ioq' = ioq \o <<>> /\ ~(life = "live" /\ IsCurrent(probes[k].token))
    BY <1>1, ProbeSignal
  <2> HIDE DEF f
  <2>3. QED
    BY <1>2, <2>1, <2>2
<1>4. /\ dq # <<>> /\ dq' = Tail(dq) \o <<>> /\ dq \in Seq(DqEntries) /\ ioq \in Seq(IoEntries)
      /\ <<>> \in Seq(DqEntries) /\ <<>> \in Seq(IoEntries) /\ \A A : ~Has(<<>>, A)
  BY <1>1, ProbeSignal, Made DEF Typed, DqTyped, IoTyped
<1>5. UNCHANGED <<probe, probes, generation>>
  BY DEF DispatchSignal, probeVars, scopeVars
<1>6. \A j \in Probes : j # k => Undisturbed(dq, dq', Words(j)) /\ Undisturbed(ioq, ioq', Tasks(j))
  <2>1. \A j \in Probes : j # k => e \notin Words(j) /\ t \notin Tasks(j)
    BY <1>2, <1>3, TaskKinds
  <2>2. <<t>> \in Seq(IoEntries) /\ \A A : t \notin A => ~Has(<<t>>, A)
    BY Made
  <2>3. \A j \in Probes : j # k => Undisturbed(dq, dq', Words(j))
    BY <1>2, <1>4, <2>1, TakenElsewhere
  <2>4. \A j \in Probes : j # k => Undisturbed(ioq, ioq', Tasks(j))
    BY <1>3, <1>4, <2>1, <2>2, SentElsewhere
  <2>5. QED
    BY <2>3, <2>4
<1>7. /\ t \notin Expiries(k) /\ t \notin Connects(k)
      /\ t \in Failures(k) <=> e.what = "failed"
      /\ t \in Answers(k) <=> e.what = "answer"
      /\ e \in Signals("failed", k) <=> e.what = "failed"
      /\ e \in Signals("answer", k) <=> e.what = "answer"
  BY <1>2, <1>3, TaskKinds
<1>8. \A A, B \in SUBSET Words(k) :
        /\ Has(dq, A) <=> e \in A \/ Has(dq', A)
        /\ NotBefore(dq, A, B) => NotBefore(dq', A, B) /\ ~(e \in A /\ Has(dq', B))
  <2>1. \A A, B \in SUBSET Words(k) :
          /\ Has(dq, A) <=> Head(dq) \in A \/ Has(Tail(dq) \o <<>>, A)
          /\ NotBefore(dq, A, B) => /\ NotBefore(Tail(dq) \o <<>>, A, B)
                                   /\ ~(Head(dq) \in A /\ Has(Tail(dq) \o <<>>, B))
    BY <1>4, FirstTaken
  <2>2. QED
    BY <1>2, <1>4, <2>1
<1>9. /\ \A A : Has(ioq \o <<t>>, A) <=> Has(ioq, A) \/ t \in A
      /\ \A A, B : NotBefore(ioq \o <<t>>, A, B) <=> NotBefore(ioq, A, B) /\ ~(Has(ioq, A) /\ t \in B)
  BY <1>3, <1>4, OneSent
<1>10. Judged(k)
  BY DEF AllJudged
<1>11. ioq \o <<>> = ioq
  BY <1>4
<1> DEFINE sf == Signals("failed", k)
           sa == Signals("answer", k)
<1>12. /\ Has(dq, sf) <=> e \in sf \/ Has(dq', sf)
       /\ Has(dq, sa) <=> e \in sa \/ Has(dq', sa)
       /\ NotBefore(dq, sf, sa) => NotBefore(dq', sf, sa) /\ ~(e \in sf /\ Has(dq', sa))
  BY <1>8, TaskParts
<1>13. CASE ioq' = ioq /\ ~(life = "live" /\ IsCurrent(probes[k].token))
  <2>1. ~(probe = k /\ probes[k].token = generation)
    BY <1>13, CurrentProbe
  <2>2. Judged(k)'
    BY <1>5, <1>10, <1>12, <1>13, <2>1 DEF Judged
  <2>3. QED
    BY <1>5, <1>6, <2>2, OneProbe
<1>14. CASE ioq' = ioq \o <<t>>
  <2>1. /\ Has(ioq', Expiries(k)) <=> Has(ioq, Expiries(k))
        /\ Has(ioq', Connects(k)) <=> Has(ioq, Connects(k))
        /\ Has(ioq', Failures(k)) <=> Has(ioq, Failures(k)) \/ e.what = "failed"
        /\ Has(ioq', Answers(k)) <=> Has(ioq, Answers(k)) \/ e.what = "answer"
        /\ NotBefore(ioq, Connects(k), Connects(k)) => NotBefore(ioq', Connects(k), Connects(k))
        /\ NotBefore(ioq', Failures(k), Answers(k)) <=>
             NotBefore(ioq, Failures(k), Answers(k)) /\ ~(Has(ioq, Failures(k)) /\ e.what = "answer")
    BY <1>7, <1>9, <1>14
  <2>2. Judged(k)'
    BY <1>2, <1>5, <1>7, <1>10, <1>12, <2>1 DEF Judged
  <2>3. QED
    BY <1>5, <1>6, <2>2, OneProbe
<1>15. QED
  BY <1>3, <1>11, <1>13, <1>14

LEMMA JudgedInit == Init => AllJudged
<1> SUFFICES ASSUME Init, NEW k \in Probes PROVE Judged(k)
  BY DEF AllJudged
<1>1. /\ dq = <<>> /\ ioq = <<>> /\ probe = None /\ None \notin Probes
      /\ probes[k].state = "free" /\ ~probes[k].timer
  BY Names DEF Init
<1>2. \A A, B : ~Has(<<>>, A) /\ NotBefore(<<>>, A, B)
  BY Literals
<1>3. QED
  BY <1>1, <1>2 DEF Judged

LEMMA JudgedStep == Safe /\ AllJudged /\ [Next]_vars => AllJudged'
<1> SUFFICES ASSUME Typed, Ordered, Sessions, AllJudged, [Next]_vars PROVE AllJudged'
  BY DEF Safe
<1>1. CASE UNCHANGED vars
  <2>1. Bystanding
    BY <1>1, QueuesJudged DEF vars, probeVars, scopeVars, Bystanding
  <2>2. QED
    BY <2>1, BystandersJudged
<1>2. CASE \/ \E op \in {"start", "stop"} : Call(op)
           \/ \E id \in Peers : AsyncClosePeer(id)
           \/ Retry \/ WatchFires \/ Detach
  BY <1>2, BystandersJudged, CallBystanding, AsyncClosePeerBystanding, RetryBystanding,
     WatchFiresBystanding, DetachBystanding
<1>3. CASE DispatcherStep
  <2>1. CASE \/ Start \/ PostStop \/ Notify \/ \E answer \in {"verified", "refused"} : NotifyReady(answer)
             \/ Report \/ PeerClosed \/ Debounce \/ Timer \/ Check
    BY <2>1, BystandersJudged, StartBystanding, PostStopBystanding, NotifyBystanding,
       NotifyReadyBystanding, ReportBystanding, PeerClosedBystanding, DebounceBystanding,
       TimerBystanding, CheckBystanding
  <2>2. CASE EndSession \/ PostShutdown
    BY <2>2, EndSessionJudged, PostShutdownJudged
  <2>3. CASE DispatchSignal
    <3>1. E.who \in Peers \/ E.who \in Probes
      BY <2>3, Heads, DqRead DEF DispatchSignal, Dispatching, E
    <3>2. QED
      BY <2>3, <3>1, PeerSignalJudged, ProbeSignalJudged
  <2>4. QED
    BY <1>3, <2>1, <2>2, <2>3 DEF DispatcherStep
<1>4. CASE IoStep
  <2>1. CASE \/ \E outcome \in {"bound", "bind_failed", "ignored"} : Bind(outcome)
             \/ Accepted \/ Erase \/ ClosePeer \/ RunPeerClose \/ ProbeIgnored \/ KeepAlive
    BY <2>1, BystandersJudged, BindBystanding, AcceptedBystanding, EraseBystanding,
       ClosePeerBystanding, RunPeerCloseBystanding, ProbeIgnoredBystanding, KeepAliveBystanding
  <2>2. CASE \/ \E k \in Probes : ProbeBegins(k)
             \/ ProbeConnected \/ ProbeFailed \/ ProbeAnswered \/ RunProbeClose \/ Stop \/ Shutdown
    BY <2>2, ProbeBeginsJudged, ProbeConnectedJudged, ProbeFailedJudged, ProbeAnsweredJudged,
       RunProbeCloseJudged, StopJudged, ShutdownJudged
  <2>3. QED
    BY <1>4, <2>1, <2>2 DEF IoStep
<1>5. CASE Destroy \/ \E outcome \in {"ok", "error"} : AcceptCompletes(outcome)
  BY <1>5, BystandersJudged, DestroyBystanding, AcceptCompletesBystanding
<1>6. CASE \E id \in Peers : \/ PeerReady(id) \/ PeerReports(id) \/ Release(id)
                            \/ \E failed \in BOOLEAN : PeerEnds(id, failed)
  BY <1>6, BystandersJudged, PeerReadyBystanding, PeerReportsBystanding, ReleaseBystanding,
     PeerEndsBystanding
<1>7. CASE \E k \in Probes : \/ \E outcome \in {"ok", "failed"} : ProbeConnects(k, outcome)
                             \/ ProbeTimerExpires(k) \/ ProbeAnswers(k) \/ ProbeEnds(k)
                             \/ ReleaseProbe(k)
  BY <1>7, ProbeConnectsJudged, ProbeTimerExpiresJudged, ProbeAnswersJudged, ProbeEndsJudged,
     ReleaseProbeJudged
<1>8. QED
  BY <1>1, <1>2, <1>3, <1>4, <1>5, <1>6, <1>7 DEF Next, Destroyed

LEMMA AlwaysJudged == Spec => [](Safe /\ AllJudged)
<1>1. Init => Safe /\ AllJudged
  BY TypedInit, SoundInit, OwnedInit, JudgedInit DEF Safe
<1>2. Safe /\ AllJudged /\ [Next]_vars => (Safe /\ AllJudged)'
  <2>1. Safe /\ [Next]_vars => Safe'
    BY TypedStep, SoundStep, OwnedStep DEF Safe
  <2>2. QED
    BY <2>1, JudgedStep
<1>3. QED
  BY <1>1, <1>2, PTL DEF Spec

\* The first handler, if it is one that may end a probe, has a verdict on the current one.
LEMMA VerdictFound ==
    ASSUME Safe, AllJudged, ioq # <<>>, H.op \in ProbeHandlers, NEW k \in Probes, H.who = k, probe = k
    PROVE  /\ H.op = "probeTimeout" => ~probes[k].timer
           /\ H.op = "probeFailed" => probes[k].state = "closed" \/ ~Current(k)
           /\ H.op = "probeConnected" => probes[k].state = "connected"
           /\ H.op = "probeAnswer" => probes[k].state \in {"answered", "done"}
<1>1. PICK t \in IoEntries : t = H /\ t.who = k /\ t = Head(ioq)
  BY Heads DEF Safe, H
<1>2. /\ t.op = "probeTimeout" => t \in Expiries(k)
      /\ t.op = "probeConnected" => t \in Connects(k)
      /\ t.op = "probeFailed" => t \in Failures(k) /\ t \notin Answers(k)
      /\ t.op = "probeAnswer" => t \in Answers(k)
  BY <1>1, TaskKinds
<1>3. ioq \in Seq(IoEntries)
  BY DEF Safe, Typed, IoTyped
<1>4. \A A : t \in A => Has(ioq, A)
  BY <1>1, <1>3, TakenHas
<1>5. Judged(k)
  BY DEF AllJudged
<1>6. /\ t.op = "probeTimeout" => ~probes[k].timer
      /\ t.op = "probeConnected" => probes[k].state = "connected"
      /\ t.op = "probeAnswer" => probes[k].state \in {"answered", "done"}
      /\ t.op = "probeFailed" => Has(ioq, Failures(k)) /\ probes[k].state \in {"closed", "done"}
  BY <1>2, <1>4, <1>5 DEF Judged
<1>7. ASSUME t.op = "probeFailed", Current(k)
      PROVE  probes[k].state # "done"
  <2>1. SUFFICES ASSUME probes[k].state = "done" PROVE FALSE
    OBVIOUS
  <2>2. probes[k].token = generation
    BY <1>7 DEF Current, IsCurrent
  <2>3. Has(ioq, Answers(k)) \/ Has(dq, Signals("answer", k))
    BY <1>5, <2>1, <2>2 DEF Judged
  <2>4. ~Has(dq, Signals("answer", k)) /\ NotBefore(ioq, Failures(k), Answers(k))
    BY <1>5, <1>6, <1>7 DEF Judged
  <2>5. \A A, B : /\ Has(ioq, A) <=> Head(ioq) \in A \/ Has(Tail(ioq), A)
                  /\ NotBefore(ioq, A, B) => ~(Head(ioq) \in A /\ Has(Tail(ioq), B))
    BY <1>3, Popped
  <2>6. QED
    BY <1>1, <1>2, <1>7, <2>3, <2>4, <2>5
<1>8. QED
  BY <1>1, <1>6, <1>7

\* The acceptor is closed, and a probe is over, by a verdict on the current probe itself: late
\* callbacks of an earlier one change nothing, whatever is queued of it, and the end of a
\* connection whose response arrived brings nothing down.
THEOREM Verdict == Spec => ProbeVerdict
<1> DEFINE A == ioq # <<>> /\ H.op \in ProbeHandlers
             => /\ acceptor' # acceptor => ProbeHasFailed
                /\ probe' # probe => ProbeHasFailed \/ ProbeHasAnswer
<1>1. ASSUME Safe, AllJudged, Next, ioq # <<>>, H.op \in ProbeHandlers
      PROVE  /\ acceptor' # acceptor => ProbeHasFailed
             /\ probe' # probe => ProbeHasFailed \/ ProbeHasAnswer
  <2>1. PICK k \in Probes : H.who = k
    BY <1>1, Heads, IoRead DEF Safe, ProbeHandlers
  <2>2. None \notin Probes
    BY Names
  <2>3. Current(k) => probe = k
    BY DEF Current
  <2>4. CASE ProbeConnected
    <3>1. CASE Current(k) /\ H.what = "ok"
      BY <2>1, <2>4, <3>1 DEF ProbeConnected, acceptorVars
    <3>2. CASE Current(k) /\ H.what # "ok"
      <4>1. H.op = "probeConnected" /\ H.what = "failed"
        BY <1>1, <2>4, <3>2, Heads, IoRead DEF ProbeConnected, Running, H, Safe
      <4>2. QED
        BY <1>1, <2>1, <2>2, <2>3, <3>2, <4>1, VerdictFound DEF ProbeHasFailed
    <3>3. CASE ~Current(k)
      BY <2>1, <2>4, <3>3 DEF ProbeConnected, HandleFailed, acceptorVars
    <3>4. QED
      BY <3>1, <3>2, <3>3
  <2>5. CASE ProbeFailed
    <3>1. CASE Current(k)
      <4>1. H.op \in {"probeTimeout", "probeFailed"}
        BY <2>5 DEF ProbeFailed
      <4>2. QED
        BY <1>1, <2>1, <2>2, <2>3, <3>1, <4>1, VerdictFound DEF ProbeHasFailed
    <3>2. CASE ~Current(k)
      BY <2>1, <2>5, <3>2 DEF ProbeFailed, HandleFailed, acceptorVars, probeVars
    <3>3. QED
      BY <3>1, <3>2
  <2>6. CASE ProbeAnswered
    <3>1. CASE Current(k)
      <4>1. H.op = "probeAnswer" /\ UNCHANGED acceptorVars
        BY <2>6 DEF ProbeAnswered, Running, H
      <4>2. QED
        BY <1>1, <2>1, <2>2, <2>3, <3>1, <4>1, VerdictFound DEF ProbeHasAnswer, acceptorVars
    <3>2. CASE ~Current(k)
      BY <2>1, <2>6, <3>2 DEF ProbeAnswered, acceptorVars, probeVars
    <3>3. QED
      BY <3>1, <3>2
  <2>7. CASE UNCHANGED <<acceptor, probe>>
    BY <2>7
  <2>8. \/ ProbeConnected \/ ProbeFailed \/ ProbeAnswered \/ UNCHANGED <<acceptor, probe>>
    <3>1. CASE DispatcherStep
      BY <3>1 DEF DispatcherStep, Start, EndSession, PostStop, Notify, NotifyReady, DispatchSignal,
         Report, PeerClosed, Debounce, Timer, Check, PostShutdown, acceptorVars, probeVars
    <3>2. CASE IoStep
      <4>1. H.op \notin {"bind", "accepted", "probe", "stop", "shutdown"}
        BY <1>1 DEF ProbeHandlers
      <4>2. QED
        BY <3>2, <4>1 DEF IoStep, Running, H, Bind, Accepted, Erase, ClosePeer, RunPeerClose,
           ProbeIgnored, ProbeBegins, RunProbeClose, Stop, Shutdown, KeepAlive, acceptorVars, probeVars
    <3>3. CASE \/ \E op \in {"start", "stop"} : Call(op)
               \/ \E id \in Peers : AsyncClosePeer(id)
               \/ Retry \/ WatchFires \/ Detach \/ Destroy
      BY <3>3 DEF Call, AsyncClosePeer, Retry, WatchFires, Detach, Destroy, acceptorVars, probeVars
    <3>4. CASE \/ \E outcome \in {"ok", "error"} : AcceptCompletes(outcome)
               \/ \E id \in Peers : \/ PeerReady(id) \/ PeerReports(id) \/ Release(id)
                                    \/ \E failed \in BOOLEAN : PeerEnds(id, failed)
      BY <3>4 DEF AcceptCompletes, PeerReady, PeerReports, Release, PeerEnds, acceptorVars, probeVars
    <3>5. CASE \E k1 \in Probes : \/ \E outcome \in {"ok", "failed"} : ProbeConnects(k1, outcome)
                                 \/ ProbeTimerExpires(k1) \/ ProbeAnswers(k1) \/ ProbeEnds(k1)
                                 \/ ReleaseProbe(k1)
      BY <3>5 DEF ProbeConnects, ProbeTimerExpires, ProbeAnswers, ProbeEnds, ReleaseProbe, acceptorVars
    <3>6. CASE Destroyed
      BY <3>6 DEF Destroyed, vars, acceptorVars, probeVars
    <3>7. QED
      BY <1>1, <3>1, <3>2, <3>3, <3>4, <3>5, <3>6 DEF Next
  <2>9. QED
    BY <2>4, <2>5, <2>6, <2>7, <2>8
<1>2. Safe /\ AllJudged /\ [Next]_vars => [A]_vars
  BY <1>1
<1>3. QED
  BY <1>2, AlwaysJudged, PTL DEF Spec, ProbeVerdict

-----------------------------------------------------------------------------
\* The acceptor: what the application is told of it, and what watches over it.

Watched == Bindings /\ Busy

DqFrame == Undisturbed(dq, dq', Crucial(generation))
IoFrame ==
    /\ Has(ioq', Enders) <=> Has(ioq, Enders)
    /\ Has(ioq', Binds(generation)) <=> Has(ioq, Binds(generation))

LEMMA CrucialParts ==
    ASSUME NEW g
    PROVE  /\ BoundNotes(g) \in SUBSET Crucial(g) /\ ClosedNotes(g) \in SUBSET Crucial(g)
           /\ \A op \in {"stop", "cancel", "debounce", "timerStart", "timerStop"} :
                Dq(op) \in SUBSET Crucial(g)
           /\ Dq("debounce") \cup ClosedNotes(g) \in SUBSET Crucial(g)
           /\ BoundNotes(g) \cap ClosedNotes(g) = {} /\ BindNotes(g) \cap LostNotes(g) = {}
           /\ LostNotes(g) \in SUBSET ClosedNotes(g) /\ BoundNotes(g) \in SUBSET BindNotes(g)
           /\ BindNotes(g) \in SUBSET (BoundNotes(g) \cup ClosedNotes(g))
BY DEF Crucial, BoundNotes, ClosedNotes, BindNotes, LostNotes, Dq

\* Of a queue that reports nothing.
LEMMA Bare ==
    ASSUME NEW q, NEW g, ~Has(q, BoundNotes(g)), ~Has(q, ClosedNotes(g))
    PROVE  \A a : Preceded(q, g, a)
<1> DEFINE B == BoundNotes(g)
           C == ClosedNotes(g)
           X == BindNotes(g)
<1>1. X \subseteq B \cup C
  BY CrucialParts
<1> HIDE DEF B, C, X
<1>2. \A j \in DOMAIN q : q[j] \notin X
  BY <1>1 DEF Has, B, C
<1>3. QED
  BY <1>2 DEF Preceded, Follows, X

\* Of what is heard, and of what is added.
LEMMA PrecededPopped ==
    ASSUME NEW q \in Seq(DqEntries), q # <<>>, NEW g, NEW a, Preceded(q, g, a)
    PROVE  /\ Head(q) \in BindNotes(g) => ~a
           /\ Head(q) \in BoundNotes(g) => Preceded(Tail(q), g, TRUE)
           /\ Head(q) \in LostNotes(g) => Preceded(Tail(q), g, FALSE)
           /\ Head(q) \notin BoundNotes(g) \cup LostNotes(g) => Preceded(Tail(q), g, a)
<1> DEFINE X == BindNotes(g)
           B == BoundNotes(g)
           L == LostNotes(g)
           free == IF a THEN {} ELSE X
<1>1. X \cap L = {} /\ B \subseteq X /\ Follows(q, X, free, L, B)
  BY CrucialParts DEF Preceded
<1> HIDE DEF X, B, L
<1>2. Head(q) \in B => Head(q) \in B \ L
  BY <1>1
<1> HIDE DEF free
<1>3. /\ Head(q) \in X => Head(q) \in free
      /\ Head(q) \in L => Follows(Tail(q), X, X, L, B)
      /\ Head(q) \in B \ L => Follows(Tail(q), X, {}, L, B)
      /\ Head(q) \notin B \cup L => Follows(Tail(q), X, free, L, B)
  <2>1. (X \cap DqEntries) \subseteq X
    OBVIOUS
  <2>2. QED
    BY <1>1, <2>1, FollowsPopped
<1>4. QED
  BY <1>2, <1>3 DEF Preceded, X, B, L, free

LEMMA PrecededJoined ==
    ASSUME NEW q \in Seq(DqEntries), NEW g, NEW a, Preceded(q, g, a)
    PROVE  /\ \A x \in Seq(DqEntries) : ~Has(x, BindNotes(g)) => Preceded(q \o x, g, a)
           /\ \A e \in BindNotes(g) : (a \/ Has(q, BoundNotes(g)) => Lost(q, g))
                                        => Preceded(q \o <<e>>, g, a)
<1> DEFINE X == BindNotes(g)
           B == BoundNotes(g)
           L == LostNotes(g)
           free == IF a THEN {} ELSE X
<1>1. Follows(q, X, free, L, B) /\ X \subseteq DqEntries
  BY DEF Preceded, BindNotes
<1> HIDE DEF X, B, L
<1>2. \A e \in X : (a \/ Has(q, B) => Lost(q, g)) => Outlasts(q, L, B) \/ (e \in free /\ ~Has(q, B))
  BY DEF Lost, L, B
<1> HIDE DEF free
<1>3. /\ \A x \in Seq(DqEntries) : ~Has(x, X) => Follows(q \o x, X, free, L, B)
      /\ \A e \in DqEntries : Outlasts(q, L, B) \/ (e \in free /\ ~Has(q, B))
                             => Follows(q \o <<e>>, X, free, L, B)
  BY <1>1, FollowsJoined
<1>4. /\ \A x \in Seq(DqEntries) : ~Has(x, X) => Follows(q \o x, X, free, L, B)
      /\ \A e \in X : (a \/ Has(q, B) => Lost(q, g)) => Follows(q \o <<e>>, X, free, L, B)
  BY <1>1, <1>2, <1>3
<1>5. QED
  BY <1>4 DEF Preceded, X, B, L, free

LEMMA BindingsKept ==
    ASSUME Bindings, Undisturbed(dq, dq', BoundNotes(generation) \cup ClosedNotes(generation)),
           UNCHANGED <<app, generation, attached, acceptor>>,
           Stopping' \/ ~running' => Stopping \/ ~running
    PROVE  Bindings'
<1> DEFINE g == generation
           B == BoundNotes(g)
           C == ClosedNotes(g)
           X == BindNotes(g)
           L == LostNotes(g)
           W == B \cup C
<1>1. B \in SUBSET W /\ C \in SUBSET W /\ X \in SUBSET W /\ L \in SUBSET W
  BY CrucialParts
<1> HIDE DEF B, C, X, L, W
<1>2. /\ Has(dq', B) <=> Has(dq, B)
      /\ Has(dq', C) <=> Has(dq, C)
      /\ Outlasts(dq, L, B) => Outlasts(dq', L, B)
      /\ \A free : Follows(dq, X, free, L, B) => Follows(dq', X, free, L, B)
  <2>1. Undisturbed(dq, dq', W)
    BY DEF W, B, C
  <2>2. QED
    BY <1>1, <2>1 DEF Undisturbed
<1>3. Preceded(dq, g, app) => Preceded(dq', g, app)
  BY <1>2 DEF Preceded, X, L, B
<1>4. Lost(dq, g) => Lost(dq', g)
  BY <1>2 DEF Lost, L, B
<1>5. /\ Stopping \/ ~running => ~app /\ ~Has(dq, B) /\ ~Has(dq, C)
      /\ Preceded(dq, g, app)
      /\ attached /\ ~acceptor /\ (app \/ Has(dq, B)) => Lost(dq, g)
  BY DEF Bindings, B, C
<1>6. /\ Stopping' \/ ~running' => ~app' /\ ~Has(dq', B) /\ ~Has(dq', C)
      /\ Preceded(dq', g, app')
      /\ attached' /\ ~acceptor' /\ (app' \/ Has(dq', B)) => Lost(dq', g)
  BY <1>2, <1>3, <1>4, <1>5
<1>7. QED
  BY <1>6 DEF Bindings, B, C

\* What WillBind and WillCheck speak of.
BindOps(g) == Dq("debounce") \cup ClosedNotes(g) \cup Dq("cancel") \cup Dq("stop")
CheckOps(g) == BoundNotes(g) \cup ClosedNotes(g) \cup Dq("timerStart") \cup Dq("timerStop") \cup Dq("stop")

LEMMA WillBindKept ==
    ASSUME WillBind, Undisturbed(dq, dq', BindOps(generation)),
           Has(ioq, Binds(generation)) => Has(ioq', Binds(generation)),
           UNCHANGED <<generation, retry>>
    PROVE  WillBind'
<1> DEFINE A == Dq("debounce") \cup ClosedNotes(generation)
           C == Dq("cancel")
           S == Dq("stop")
           W == BindOps(generation)
<1>1. A \in SUBSET W /\ C \in SUBSET W /\ S \in SUBSET W
  BY DEF BindOps
<1> HIDE DEF A, C, S, W
<1>2. /\ Has(dq', C) <=> Has(dq, C)
      /\ Has(dq', S) <=> Has(dq, S)
      /\ Outlasts(dq, A, C) => Outlasts(dq', A, C)
  BY <1>1 DEF Undisturbed, W
<1>3. QED
  BY <1>2 DEF WillBind, A, C, S

LEMMA WillCheckKept ==
    ASSUME WillCheck, Undisturbed(dq, dq', CheckOps(generation)), UNCHANGED <<generation, watch>>
    PROVE  WillCheck'
<1> DEFINE B == BoundNotes(generation)
           C == ClosedNotes(generation)
           T == Dq("timerStart")
           U == Dq("timerStop")
           S == Dq("stop")
           W == CheckOps(generation)
<1>1. /\ B \in SUBSET W /\ C \in SUBSET W /\ T \in SUBSET W /\ U \in SUBSET W /\ S \in SUBSET W
  BY DEF CheckOps
<1> HIDE DEF B, C, T, U, S, W
<1>2. /\ Has(dq', C) <=> Has(dq, C)
      /\ Has(dq', U) <=> Has(dq, U)
      /\ Has(dq', S) <=> Has(dq, S)
      /\ Outlasts(dq, B, C) => Outlasts(dq', B, C)
      /\ Outlasts(dq, T, U) => Outlasts(dq', T, U)
  BY <1>1 DEF Undisturbed, W
<1>3. QED
  BY <1>2 DEF WillCheck, B, C, T, U, S

LEMMA WatchedKept ==
    ASSUME Watched, DqFrame, IoFrame,
           UNCHANGED <<running, generation, attached, dpc, acceptor, retry, watch, app>>
    PROVE  Watched'
<1>1. Stopping' <=> Stopping
  BY DEF Stopping, IoFrame
<1>2. Bindings'
  <2>1. BoundNotes(generation) \cup ClosedNotes(generation) \subseteq Crucial(generation)
    BY DEF Crucial
  <2>2. Undisturbed(dq, dq', BoundNotes(generation) \cup ClosedNotes(generation))
    BY <2>1 DEF DqFrame, Undisturbed
  <2>3. QED
    BY <1>1, <2>2, BindingsKept DEF Watched
<1>3. (WillBind => WillBind') /\ (WillCheck => WillCheck')
  <2>1. BindOps(generation) \subseteq Crucial(generation) /\ CheckOps(generation) \subseteq Crucial(generation)
    BY DEF Crucial, BindOps, CheckOps, Dq
  <2>2. Undisturbed(dq, dq', BindOps(generation)) /\ Undisturbed(dq, dq', CheckOps(generation))
    BY <2>1, Narrowed DEF DqFrame
  <2>3. QED
    BY <2>2, WillBindKept, WillCheckKept DEF IoFrame
<1>4. Busy'
  BY <1>1, <1>3 DEF Busy, Watched
<1>5. QED
  BY <1>2, <1>4 DEF Watched

LEMMA DqFrameOthers ==
    ASSUME NEW ops, Undisturbed(dq, dq', Others(ops)),
           \A op \in {"stop", "cancel", "debounce", "timerStart", "timerStop", "note"} : op \notin ops
    PROVE  DqFrame
<1>1. Crucial(generation) \subseteq Others(ops)
  BY DEF Crucial, BoundNotes, ClosedNotes, Others
<1>2. QED
  BY <1>1 DEF DqFrame, Undisturbed

LEMMA IoFrameOthers ==
    ASSUME NEW ops, Undisturbed(ioq, ioq', Others(ops)), "stop" \notin ops, "shutdown" \notin ops
    PROVE  /\ Has(ioq', Enders) <=> Has(ioq, Enders)
           /\ "bind" \notin ops => IoFrame
<1>1. Enders \in SUBSET Others(ops) /\ ("bind" \notin ops => Binds(generation) \in SUBSET Others(ops))
  BY DEF Enders, Binds, Others
<1>2. \A A \in SUBSET Others(ops) : Has(ioq', A) <=> Has(ioq, A)
  BY DEF Undisturbed
<1>3. QED
  BY <1>1, <1>2 DEF IoFrame

LEMMA FrameSame ==
    /\ dq' = dq => DqFrame
    /\ ioq' = ioq => IoFrame
BY Untouched DEF DqFrame, IoFrame

LEMMA AsyncClosePeerWatched ==
    ASSUME Typed, Watched, NEW id \in Peers, AsyncClosePeer(id)
    PROVE  Watched'
<1>1. DqFrame
  BY FrameSame DEF AsyncClosePeer, Post, scopeVars, taskVars, acceptorVars, peerVars, probeVars,
     appVars
<1>2. IoFrame
  BY AsyncClosePeerTyped, IoFrameOthers
<1>3. UNCHANGED <<running, generation, attached, dpc, acceptor, retry, watch, app>>
  BY DEF AsyncClosePeer, Post, scopeVars, taskVars, acceptorVars, peerVars, probeVars, appVars
<1>4. QED
  BY <1>1, <1>2, <1>3, WatchedKept

LEMMA ReportWatched ==
    ASSUME Typed, Watched, Report
    PROVE  Watched'
<1>1. DqFrame
  BY ReportTyped, DqFrameOthers
<1>2. IoFrame
  BY FrameSame DEF Report, Dispatching, Dispatched, scopeVars, taskVars, acceptorVars, peerVars,
     probeVars, appVars
<1>3. UNCHANGED <<running, generation, attached, dpc, acceptor, retry, watch, app>>
  BY DEF Report, Dispatching, Dispatched, scopeVars, taskVars, acceptorVars, peerVars, probeVars,
     appVars
<1>4. QED
  BY <1>1, <1>2, <1>3, WatchedKept

LEMMA PeerClosedWatched ==
    ASSUME Typed, Watched, PeerClosed
    PROVE  Watched'
<1>1. DqFrame
  BY PeerClosedTyped, DqFrameOthers
<1>2. IoFrame
  BY FrameSame DEF PeerClosed, Dispatching, Over, Dispatched, scopeVars, taskVars, acceptorVars,
     peerVars, probeVars
<1>3. UNCHANGED <<running, generation, attached, dpc, acceptor, retry, watch, app>>
  BY DEF PeerClosed, Dispatching, Over, Dispatched, scopeVars, taskVars, acceptorVars, peerVars,
     probeVars
<1>4. QED
  BY <1>1, <1>2, <1>3, WatchedKept

LEMMA WatchFiresWatched ==
    ASSUME Typed, Watched, WatchFires
    PROVE  Watched'
<1>1. DqFrame
  BY WatchFiresTyped, DqFrameOthers
<1>2. IoFrame
  BY FrameSame DEF WatchFires, Enqueue, scopeVars, taskVars, acceptorVars, peerVars, probeVars,
     appVars
<1>3. UNCHANGED <<running, generation, attached, dpc, acceptor, retry, watch, app>>
  BY DEF WatchFires, Enqueue, scopeVars, taskVars, acceptorVars, peerVars, probeVars, appVars
<1>4. QED
  BY <1>1, <1>2, <1>3, WatchedKept

LEMMA CheckWatched ==
    ASSUME Typed, Watched, Check
    PROVE  Watched'
<1>1. DqFrame
  BY CheckTyped, DqFrameOthers
<1>2. IoFrame
  BY CheckTyped, IoFrameOthers
<1>3. UNCHANGED <<running, generation, attached, dpc, acceptor, retry, watch, app>>
  BY DEF Check, Dispatching, Post, Dispatched, scopeVars, taskVars, acceptorVars, peerVars,
     probeVars, appVars
<1>4. QED
  BY <1>1, <1>2, <1>3, WatchedKept

LEMMA AcceptCompletesWatched ==
    ASSUME Typed, Watched, NEW outcome \in {"ok", "error"}, AcceptCompletes(outcome)
    PROVE  Watched'
<1>1. DqFrame
  BY FrameSame DEF AcceptCompletes, Post, peerVars, probeVars, DispatcherUnchanged, scopeVars,
     taskVars, appVars
<1>2. IoFrame
  BY AcceptCompletesTouches, IoFrameOthers
<1>3. UNCHANGED <<running, generation, attached, dpc, acceptor, retry, watch, app>>
  BY DEF AcceptCompletes, Post, peerVars, probeVars, DispatcherUnchanged, scopeVars, taskVars,
     appVars
<1>4. QED
  BY <1>1, <1>2, <1>3, WatchedKept

LEMMA PeerReadyWatched ==
    ASSUME Typed, Watched, NEW id \in Peers, PeerReady(id)
    PROVE  Watched'
<1>1. DqFrame
  BY PeerReadyTyped, DqFrameOthers
<1>2. IoFrame
  BY FrameSame DEF PeerReady, acceptorVars, probeVars, IoUnchanged, DispatcherUnchanged,
     scopeVars, taskVars, appVars
<1>3. UNCHANGED <<running, generation, attached, dpc, acceptor, retry, watch, app>>
  BY DEF PeerReady, acceptorVars, probeVars, IoUnchanged, DispatcherUnchanged, scopeVars,
     taskVars, appVars
<1>4. QED
  BY <1>1, <1>2, <1>3, WatchedKept

LEMMA PeerReportsWatched ==
    ASSUME Typed, Watched, NEW id \in Peers, PeerReports(id)
    PROVE  Watched'
<1>1. DqFrame
  BY PeerReportsTyped, DqFrameOthers
<1>2. IoFrame
  BY FrameSame DEF PeerReports, acceptorVars, peerVars, probeVars, DispatcherUnchanged,
     scopeVars, taskVars, appVars
<1>3. UNCHANGED <<running, generation, attached, dpc, acceptor, retry, watch, app>>
  BY DEF PeerReports, acceptorVars, peerVars, probeVars, DispatcherUnchanged, scopeVars,
     taskVars, appVars
<1>4. QED
  BY <1>1, <1>2, <1>3, WatchedKept

LEMMA EraseWatched ==
    ASSUME Typed, Watched, Erase
    PROVE  Watched'
<1>1. DqFrame
  BY FrameSame DEF Erase, Running, Locked, Posting, acceptorVars, probeVars, IoUnchanged,
     DispatcherUnchanged, scopeVars, taskVars, appVars
<1>2. IoFrame
  BY EraseTyped, IoFrameOthers
<1>3. UNCHANGED <<running, generation, attached, dpc, acceptor, retry, watch, app>>
  BY DEF Erase, Running, Locked, Posting, acceptorVars, probeVars, IoUnchanged,
     DispatcherUnchanged, scopeVars, taskVars, appVars
<1>4. QED
  BY <1>1, <1>2, <1>3, WatchedKept

LEMMA ClosePeerWatched ==
    ASSUME Typed, Watched, ClosePeer
    PROVE  Watched'
<1>1. DqFrame
  BY FrameSame DEF ClosePeer, Running, Locked, AsyncClose, Posting, acceptorVars, probeVars,
     IoUnchanged, DispatcherUnchanged, scopeVars, taskVars, appVars
<1>2. IoFrame
  BY ClosePeerTyped, IoFrameOthers
<1>3. UNCHANGED <<running, generation, attached, dpc, acceptor, retry, watch, app>>
  BY DEF ClosePeer, Running, Locked, AsyncClose, Posting, acceptorVars, probeVars, IoUnchanged,
     DispatcherUnchanged, scopeVars, taskVars, appVars
<1>4. QED
  BY <1>1, <1>2, <1>3, WatchedKept

LEMMA ProbeIgnoredWatched ==
    ASSUME Typed, Watched, ProbeIgnored
    PROVE  Watched'
<1>1. DqFrame
  BY FrameSame DEF ProbeIgnored, Running, MayProbe, Posting, acceptorVars, peerVars, probeVars,
     IoUnchanged, Locked, DispatcherUnchanged, scopeVars, taskVars, appVars
<1>2. IoFrame
  BY ProbeIgnoredTyped, IoFrameOthers
<1>3. UNCHANGED <<running, generation, attached, dpc, acceptor, retry, watch, app>>
  BY DEF ProbeIgnored, Running, MayProbe, Posting, acceptorVars, peerVars, probeVars,
     IoUnchanged, Locked, DispatcherUnchanged, scopeVars, taskVars, appVars
<1>4. QED
  BY <1>1, <1>2, <1>3, WatchedKept

LEMMA ProbeBeginsWatched ==
    ASSUME Typed, Watched, NEW k \in Probes, ProbeBegins(k)
    PROVE  Watched'
<1>1. DqFrame
  BY FrameSame DEF ProbeBegins, Running, MayProbe, Posting, acceptorVars, peerVars,
     DispatcherUnchanged, Locked, scopeVars, taskVars, appVars
<1>2. IoFrame
  BY ProbeBeginsTyped, IoFrameOthers
<1>3. UNCHANGED <<running, generation, attached, dpc, acceptor, retry, watch, app>>
  BY DEF ProbeBegins, Running, MayProbe, Posting, acceptorVars, peerVars, DispatcherUnchanged,
     Locked, scopeVars, taskVars, appVars
<1>4. QED
  BY <1>1, <1>2, <1>3, WatchedKept

LEMMA ProbeConnectsWatched ==
    ASSUME Typed, Watched, NEW k \in Probes, NEW outcome \in {"ok", "failed"}, ProbeConnects(k, outcome)
    PROVE  Watched'
<1>1. DqFrame
  BY FrameSame DEF ProbeConnects, Post, acceptorVars, peerVars, DispatcherUnchanged, scopeVars,
     taskVars, appVars
<1>2. IoFrame
  BY ProbeConnectsTouches, IoFrameOthers
<1>3. UNCHANGED <<running, generation, attached, dpc, acceptor, retry, watch, app>>
  BY DEF ProbeConnects, Post, acceptorVars, peerVars, DispatcherUnchanged, scopeVars, taskVars,
     appVars
<1>4. QED
  BY <1>1, <1>2, <1>3, WatchedKept

LEMMA ProbeAnsweredWatched ==
    ASSUME Typed, Watched, ProbeAnswered
    PROVE  Watched'
<1>1. DqFrame
  BY FrameSame DEF ProbeAnswered, Running, Locked, CloseProbe, Posting, probeVars, acceptorVars,
     peerVars, IoUnchanged, TimerOff, DispatcherUnchanged, scopeVars, taskVars, appVars
<1>2. IoFrame
  BY ProbeAnsweredTouches, IoFrameOthers
<1>3. UNCHANGED <<running, generation, attached, dpc, acceptor, retry, watch, app>>
  BY DEF ProbeAnswered, Running, Locked, CloseProbe, Posting, probeVars, acceptorVars, peerVars,
     IoUnchanged, TimerOff, DispatcherUnchanged, scopeVars, taskVars, appVars
<1>4. QED
  BY <1>1, <1>2, <1>3, WatchedKept

LEMMA ProbeTimerExpiresWatched ==
    ASSUME Typed, Watched, NEW k \in Probes, ProbeTimerExpires(k)
    PROVE  Watched'
<1>1. DqFrame
  BY FrameSame DEF ProbeTimerExpires, Post, acceptorVars, peerVars, DispatcherUnchanged,
     scopeVars, taskVars, appVars
<1>2. IoFrame
  BY ProbeTimerExpiresTyped, IoFrameOthers
<1>3. UNCHANGED <<running, generation, attached, dpc, acceptor, retry, watch, app>>
  BY DEF ProbeTimerExpires, Post, acceptorVars, peerVars, DispatcherUnchanged, scopeVars,
     taskVars, appVars
<1>4. QED
  BY <1>1, <1>2, <1>3, WatchedKept

LEMMA ProbeAnswersWatched ==
    ASSUME Typed, Watched, NEW k \in Probes, ProbeAnswers(k)
    PROVE  Watched'
<1>1. DqFrame
  BY ProbeAnswersTyped, DqFrameOthers
<1>2. IoFrame
  BY FrameSame DEF ProbeAnswers, acceptorVars, peerVars, IoUnchanged, DispatcherUnchanged,
     scopeVars, taskVars, appVars
<1>3. UNCHANGED <<running, generation, attached, dpc, acceptor, retry, watch, app>>
  BY DEF ProbeAnswers, acceptorVars, peerVars, IoUnchanged, DispatcherUnchanged, scopeVars,
     taskVars, appVars
<1>4. QED
  BY <1>1, <1>2, <1>3, WatchedKept

LEMMA ProbeEndsWatched ==
    ASSUME Typed, Watched, NEW k \in Probes, ProbeEnds(k)
    PROVE  Watched'
<1>1. DqFrame
  BY ProbeEndsTyped, DqFrameOthers
<1>2. IoFrame
  BY FrameSame DEF ProbeEnds, acceptorVars, peerVars, DispatcherUnchanged, scopeVars, taskVars,
     appVars
<1>3. UNCHANGED <<running, generation, attached, dpc, acceptor, retry, watch, app>>
  BY DEF ProbeEnds, acceptorVars, peerVars, DispatcherUnchanged, scopeVars, taskVars, appVars
<1>4. QED
  BY <1>1, <1>2, <1>3, WatchedKept

LEMMA RunProbeCloseWatched ==
    ASSUME Typed, Watched, RunProbeClose
    PROVE  Watched'
<1>1. DqFrame
  BY RunProbeCloseTyped, DqFrameOthers
<1>2. IoFrame
  BY RunProbeCloseTyped, IoFrameOthers
<1>3. UNCHANGED <<running, generation, attached, dpc, acceptor, retry, watch, app>>
  BY DEF RunProbeClose, Running, Posting, acceptorVars, peerVars, IoUnchanged,
     DispatcherUnchanged, scopeVars, taskVars, appVars
<1>4. QED
  BY <1>1, <1>2, <1>3, WatchedKept

LEMMA DestroyWatched ==
    ASSUME Typed, Watched, Destroy
    PROVE  Watched'
<1>1. DqFrame
  BY FrameSame DEF Destroy, acceptorVars, peerVars, probeVars, IoUnchanged, DispatcherUnchanged,
     scopeVars, taskVars, appVars
<1>2. IoFrame
  BY FrameSame DEF Destroy, acceptorVars, peerVars, probeVars, IoUnchanged, DispatcherUnchanged,
     scopeVars, taskVars, appVars
<1>3. UNCHANGED <<running, generation, attached, dpc, acceptor, retry, watch, app>>
  BY DEF Destroy, acceptorVars, peerVars, probeVars, IoUnchanged, DispatcherUnchanged, scopeVars,
     taskVars, appVars
<1>4. QED
  BY <1>1, <1>2, <1>3, WatchedKept

LEMMA KeepAliveWatched ==
    ASSUME Typed, Watched, KeepAlive
    PROVE  Watched'
<1>1. DqFrame
  BY FrameSame DEF KeepAlive, Running, Posting, acceptorVars, peerVars, probeVars, IoUnchanged,
     DispatcherUnchanged, scopeVars, taskVars, appVars
<1>2. IoFrame
  BY KeepAliveTyped, IoFrameOthers
<1>3. UNCHANGED <<running, generation, attached, dpc, acceptor, retry, watch, app>>
  BY DEF KeepAlive, Running, Posting, acceptorVars, peerVars, probeVars, IoUnchanged,
     DispatcherUnchanged, scopeVars, taskVars, appVars
<1>4. QED
  BY <1>1, <1>2, <1>3, WatchedKept

\* What is not crucial.
LEMMA NotCrucial ==
    ASSUME NEW g
    PROVE  /\ \A w, k : Signal(w, k) \notin Crucial(g)
           /\ \A k, n : Note("ready", k, n) \notin Crucial(g)
           /\ \A k, w : Entry("peerClosed", k, 0, w) \notin Crucial(g)
           /\ \A k, w : Entry("report", k, 0, w) \notin Crucial(g) /\ About("peerClosed", k) \notin Crucial(g)
           /\ \A e \in Crucial(g) : e.op # "signal" /\ e.who = None
           /\ Do("start") \notin Crucial(g) /\ Do("check") \notin Crucial(g)
<1>1. \A e \in Crucial(g) : /\ e.op \in {"stop", "cancel", "debounce", "timerStart", "timerStop", "note"}
                            /\ e.op = "note" => e.what # "ready"
  BY DEF Crucial, BoundNotes, ClosedNotes
<1>2. \A e \in Crucial(g) : e.who = None
  <2>1. \A e \in Crucial(g) : e \in DqEntries
    BY DEF Crucial, BoundNotes, ClosedNotes
  <2>2. QED
    BY <1>1, <2>1, DqRead
<1>3. QED
  BY <1>1, <1>2 DEF Signal, Note, About, Do, Entry

LEMMA DqFrameMoved ==
    ASSUME Typed, NEW x \in Seq(DqEntries), ~Has(x, Crucial(generation)),
           \/ dq' = dq \o x
           \/ dq # <<>> /\ E \notin Crucial(generation) /\ dq' = Tail(dq) \o x
    PROVE  DqFrame
BY SentElsewhere, TakenElsewhere DEF DqFrame, Typed, DqTyped, E

LEMMA NotifyReadyWatched ==
    ASSUME Typed, Watched, NEW answer \in {"verified", "refused"}, NotifyReady(answer)
    PROVE  Watched'
<1>1. dq # <<>> /\ E \in DqEntries /\ E.op = "note" /\ E.what = "ready" /\ dq' = Tail(dq) \o <<>>
  BY Heads DEF NotifyReady, Dispatching, Dispatched, E
<1>2. E \notin Crucial(generation)
  BY <1>1 DEF Crucial, BoundNotes, ClosedNotes
<1>3. DqFrame
  BY <1>1, <1>2, DqFrameMoved, Made
<1>4. IoFrame
  BY NotifyReadyTyped, IoFrameOthers
<1>5. UNCHANGED <<running, generation, attached, dpc, acceptor, retry, watch, app>>
  BY DEF NotifyReady, scopeVars, taskVars, acceptorVars
<1>6. QED
  BY <1>3, <1>4, <1>5, WatchedKept

LEMMA DispatchSignalWatched ==
    ASSUME Typed, Watched, DispatchSignal
    PROVE  Watched'
<1>1. PICK x \in Seq(DqEntries), y \in Seq(IoEntries) :
             /\ dq # <<>> /\ E.op = "signal" /\ dq' = Tail(dq) \o x
             /\ \/ x = <<>>
                \/ E.who \in Peers /\ E.what = "ready" /\ x = <<Note("ready", E.who, session[E.who])>>
                \/ E.who \in Peers /\ E.what = "closed" /\ x = <<Entry("peerClosed", E.who, 0, "slot")>>
                \/ E.who \in Peers /\ E.what \in {"report", "late"} /\ x = <<Entry("report", E.who, 0, E.what)>>
  BY SignalDispatched
<1>2. \A e, A : ~Has(<<>>, A) /\ (Has(<<e>>, A) <=> e \in A)
  BY Literals
<1>3. ~Has(x, Crucial(generation)) /\ E \notin Crucial(generation)
  <2> DEFINE W == Crucial(generation)
  <2>1. /\ \A k, n : Note("ready", k, n) \notin W
        /\ \A k, w : Entry("peerClosed", k, 0, w) \notin W /\ Entry("report", k, 0, w) \notin W
        /\ \A e \in W : e.op # "signal"
    BY NotCrucial
  <2> HIDE DEF W
  <2>2. ~Has(x, W)
    <3>1. \A e : x = <<e>> /\ e \notin W => ~Has(x, W)
      BY <1>2
    <3>2. x = <<>> => ~Has(x, W)
      BY <1>2
    <3>3. QED
      BY <1>1, <2>1, <3>1, <3>2
  <2>3. QED
    BY <1>1, <2>1, <2>2 DEF W
<1>4. DqFrame
  BY <1>1, <1>3, DqFrameMoved
<1>5. IoFrame
  BY DispatchSignalTouches, IoFrameOthers
<1>6. UNCHANGED <<running, generation, attached, dpc, acceptor, retry, watch, app>>
  BY DEF DispatchSignal, scopeVars, taskVars, acceptorVars, appVars
<1>7. QED
  BY <1>4, <1>5, <1>6, WatchedKept

LEMMA PeerEndsWatched ==
    ASSUME Typed, Watched, NEW id \in Peers, NEW failed \in BOOLEAN, PeerEnds(id, failed)
    PROVE  Watched'
<1> DEFINE c == Signal("closed", id)
           r == Signal("report", id)
<1>1. c \in DqEntries /\ r \in DqEntries /\ c \notin Crucial(generation) /\ r \notin Crucial(generation)
  BY DqMade, NotCrucial
<1>2. dq' = dq \o <<r, c>> \/ dq' = Append(dq, c)
  BY DEF PeerEnds, LastWords
<1> HIDE DEF c, r
<1>3. dq' = dq \o <<r, c>> \/ dq' = dq \o <<c>>
  BY <1>1, <1>2, Plain DEF Typed, DqTyped
<1>4. DqFrame
  BY <1>1, <1>3, Made, DqFrameMoved
<1>5. IoFrame
  BY FrameSame DEF PeerEnds
<1>6. UNCHANGED <<running, generation, attached, dpc, acceptor, retry, watch, app>>
  BY DEF PeerEnds, DispatcherUnchanged, scopeVars, taskVars, acceptorVars, appVars
<1>7. QED
  BY <1>4, <1>5, <1>6, WatchedKept

LEMMA RunPeerCloseWatched ==
    ASSUME Typed, Watched, RunPeerClose
    PROVE  Watched'
<1> DEFINE id == H.who
           c == Signal("closed", id)
           p == About("peerClosed", id)
           a == IF sock[id] = "open" THEN <<c>> ELSE <<>>
           b == IF H.what = "notify" /\ Locked /\ attached THEN <<p>> ELSE <<>>
<1>1. /\ ioq # <<>> /\ H.op = "peerClose" /\ id \in Peers
      /\ ioq' = Tail(ioq) \o <<>> /\ dq' = dq \o a \o b
  BY Heads, IoRead DEF RunPeerClose, Running, H, Posting
<1>2. c \in DqEntries /\ p \in DqEntries /\ c \notin Crucial(generation) /\ p \notin Crucial(generation)
  BY <1>1, DqMade, NotCrucial DEF About
<1> HIDE DEF id, c, p
<1>3. /\ a \in Seq(DqEntries) /\ ~Has(a, Crucial(generation))
      /\ b \in Seq(DqEntries) /\ ~Has(b, Crucial(generation))
  BY <1>2, Made
<1> HIDE DEF a, b
<1>4. a \o b \in Seq(DqEntries) /\ ~Has(a \o b, Crucial(generation)) /\ dq' = dq \o (a \o b)
  <2>1. a \o b \in Seq(DqEntries) /\ ~Has(a \o b, Crucial(generation))
    BY <1>3, SentHas
  <2>2. dq \o a \o b = dq \o (a \o b)
    BY <1>3 DEF Typed, DqTyped
  <2>3. QED
    BY <1>1, <2>1, <2>2
<1>5. DqFrame
  BY <1>4, DqFrameMoved
<1>6. IoFrame
  <2>1. Undisturbed(ioq, ioq', Others({"peerClose"}))
    BY <1>1, Made, IoTouch
  <2>2. QED
    BY <2>1, IoFrameOthers
<1>7. UNCHANGED <<running, generation, attached, dpc, acceptor, retry, watch, app>>
  BY DEF RunPeerClose, IoUnchanged, DispatcherUnchanged, scopeVars, taskVars, acceptorVars, appVars
<1>8. QED
  BY <1>5, <1>6, <1>7, WatchedKept

LEMMA ReleaseWatched ==
    ASSUME Typed, Watched, NEW id \in Peers, Release(id)
    PROVE  Watched'
<1> DEFINE I == {i \in DOMAIN dq : ~(dq[i].op = "signal" /\ dq[i].who = id)}
<1>1. /\ I \in SUBSET DOMAIN dq /\ dq' = Selected(dq, I)
      /\ \A i \in DOMAIN dq : dq[i] \in Crucial(generation) => i \in I
  BY NotCrucial DEF Release
<1> HIDE DEF I
<1>2. DqFrame
  BY <1>1, ErasedElsewhere DEF DqFrame, Typed, DqTyped
<1>3. IoFrame
  BY FrameSame DEF Release
<1>4. UNCHANGED <<running, generation, attached, dpc, acceptor, retry, watch, app>>
  BY DEF Release, IoUnchanged, DispatcherUnchanged, scopeVars, taskVars, acceptorVars, appVars
<1>5. QED
  BY <1>2, <1>3, <1>4, WatchedKept

LEMMA ReleaseProbeWatched ==
    ASSUME Typed, Watched, NEW k \in Probes, ReleaseProbe(k)
    PROVE  Watched'
<1> DEFINE I == {i \in DOMAIN dq : dq[i].who # k}
<1>1. /\ I \in SUBSET DOMAIN dq /\ dq' = Selected(dq, I)
      /\ \A i \in DOMAIN dq : dq[i] \in Crucial(generation) => i \in I
  BY NotCrucial, Names DEF ReleaseProbe
<1> HIDE DEF I
<1>2. DqFrame
  BY <1>1, ErasedElsewhere DEF DqFrame, Typed, DqTyped
<1>3. IoFrame
  BY FrameSame DEF ReleaseProbe
<1>4. UNCHANGED <<running, generation, attached, dpc, acceptor, retry, watch, app>>
  BY DEF ReleaseProbe, IoUnchanged, DispatcherUnchanged, scopeVars, taskVars, acceptorVars, appVars
<1>5. QED
  BY <1>2, <1>3, <1>4, WatchedKept

\* The steps that touch what is crucial.  None of them matters without a session:
LEMMA NoSession ==
    ASSUME ~running' \/ dpc' # "idle"
    PROVE  Busy'
BY DEF Busy

\* and a session is attached.
LEMMA SessionAttached ==
    ASSUME Ordered, running, dpc = "idle"
    PROVE  attached
BY DEF Ordered

LEMMA CallWatched ==
    ASSUME Typed, Watched, NEW op \in {"start", "stop"}, Call(op)
    PROVE  Watched'
<1>1. /\ Do(op) \in DqEntries /\ dq' = Append(dq, Do(op)) /\ dq \in Seq(DqEntries)
      /\ UNCHANGED <<running, generation, attached, dpc, acceptor, retry, watch, app, ioq>>
  BY DqMade DEF Call, scopeVars, taskVars, acceptorVars, appVars, Typed, DqTyped
<1> DEFINE e == Do(op)
<1>2. /\ <<e>> \in Seq(DqEntries) /\ dq' = dq \o <<e>>
      /\ \A A : Has(<<e>>, A) <=> e \in A
  <2>1. <<e>> \in Seq(DqEntries) /\ dq' = dq \o <<e>>
    BY <1>1, Made, Plain
  <2>2. \A A : Has(<<e>>, A) <=> e \in A
    BY Literals
  <2>3. QED
    BY <2>1, <2>2
<1>3. IoFrame
  BY <1>1, FrameSame
<1>4. CASE op = "start"
  <2>1. e \notin Crucial(generation)
    BY <1>4, NotCrucial
  <2> HIDE DEF e
  <2>2. DqFrame
    BY <1>2, <2>1, DqFrameMoved
  <2>3. QED
    BY <1>1, <1>3, <2>2, WatchedKept
<1>5. CASE op = "stop"
  <2>1. e \in Dq("stop") /\ e \notin BoundNotes(generation) \cup ClosedNotes(generation)
    BY <1>1, <1>5 DEF Dq, Do, Entry, BoundNotes, ClosedNotes
  <2> DEFINE S == Dq("stop")
             W == BoundNotes(generation) \cup ClosedNotes(generation)
  <2>2. e \in S /\ e \notin W
    BY <2>1
  <2> HIDE DEF e, S, W
  <2>3. Has(dq', S)
    <3>1. \A A : Has(dq \o <<e>>, A) <=> Has(dq, A) \/ Has(<<e>>, A)
      BY <1>1, <1>2, SentHas
    <3>2. QED
      BY <1>2, <2>2, <3>1
  <2>4. Busy'
    BY <2>3 DEF Busy, WillBind, WillCheck, S
  <2>5. Undisturbed(dq, dq', W)
    BY <1>1, <1>2, <2>2, SentElsewhere
  <2>6. Stopping' <=> Stopping
    BY <1>1 DEF Stopping
  <2>7. Bindings'
    BY <1>1, <2>5, <2>6, BindingsKept DEF Watched, W
  <2>8. QED
    BY <2>4, <2>7 DEF Watched
<1>6. QED
  BY <1>4, <1>5

\* A session begins, or one ends.
LEMMA StartWatched ==
    ASSUME Typed, Ordered, Sessions, Watched, Start
    PROVE  Watched'
<1> DEFINE t == With("bind", generation)
<1>1. /\ dq # <<>> /\ E.op = "start" /\ dq' = Tail(dq) \o <<>>
      /\ ioq' = ioq \o <<t>> /\ running' = TRUE
      /\ UNCHANGED <<generation, attached, dpc, acceptor, retry, watch, app>>
  BY DEF Start, Dispatching, Dispatched, E, Post, taskVars, acceptorVars, appVars
<1>2. t \in IoEntries /\ t \in Binds(generation) /\ t \notin Enders
  <2>1. t \in IoEntries
    BY IoMade DEF Typed, StateTyped, ScopeTyped
  <2>2. QED
    BY <2>1 DEF With, Entry, Binds, Enders
<1>3. DqFrame
  <2>1. E \notin Crucial(generation)
    BY <1>1 DEF Crucial, BoundNotes, ClosedNotes
  <2>2. QED
    BY <1>1, <2>1, DqFrameMoved, Made
<1> HIDE DEF t
<1>4. Has(ioq', Binds(generation)) /\ (Has(ioq', Enders) <=> Has(ioq, Enders))
  <2>1. ioq \in Seq(IoEntries) /\ <<t>> \in Seq(IoEntries)
    BY <1>2 DEF Typed, IoTyped
  <2>2. \A A : Has(ioq \o <<t>>, A) <=> Has(ioq, A) \/ Has(<<t>>, A)
    BY <2>1, SentHas
  <2>3. \A A : Has(<<t>>, A) <=> t \in A
    BY Literals
  <2>4. QED
    BY <1>1, <1>2, <2>2, <2>3
<1>5. Stopping' <=> Stopping
  BY <1>1, <1>4 DEF Stopping
<1>6. Undisturbed(dq, dq', BoundNotes(generation) \cup ClosedNotes(generation))
      /\ Undisturbed(dq, dq', CheckOps(generation))
  BY <1>3, Narrowed DEF DqFrame, Crucial, CheckOps, Dq
<1>7. Bindings'
  BY <1>1, <1>5, <1>6, BindingsKept DEF Watched
<1>8. WillBind'
  BY <1>1, <1>4 DEF WillBind
<1>9. running /\ dpc = "idle" /\ acceptor /\ ~Stopping => WillCheck'
  BY <1>1, <1>6, WillCheckKept DEF Watched, Busy
<1>10. Busy'
  BY <1>1, <1>5, <1>8, <1>9 DEF Busy, Sessions
<1>11. QED
  BY <1>7, <1>10 DEF Watched

\* None of its successor is reported when a session ends.
LEMMA EndedWatched ==
    ASSUME Typed, generation' = generation + 1, running' = FALSE, app' = FALSE,
           dq' \in Seq(DqEntries), \A A : Has(dq', A) => Has(dq, A)
    PROVE  Watched'
<1> DEFINE B == BoundNotes(generation + 1)
           C == ClosedNotes(generation + 1)
           Y == Beyond(generation, next)
<1>1. generation \in Nat /\ dq \in Seq(DqEntries) /\ ~Has(dq, Y)
  BY DEF Typed, DqTyped, StateTyped, ScopeTyped
<1>2. B \subseteq Y /\ C \subseteq Y
  BY <1>1 DEF BoundNotes, ClosedNotes, Beyond
<1> HIDE DEF B, C, Y
<1>3. ~Has(dq', B) /\ ~Has(dq', C)
  BY <1>1, <1>2, Widened
<1>4. \A a : Preceded(dq', generation + 1, a)
  BY <1>3, Bare DEF B, C
<1>5. /\ ~app' /\ ~Has(dq', B) /\ ~Has(dq', C)
      /\ Preceded(dq', generation + 1, app')
      /\ ~(app' \/ Has(dq', B))
  BY <1>3, <1>4
<1>6. Bindings'
  BY <1>5 DEF Bindings, B, C
<1>7. QED
  BY <1>6, NoSession DEF Watched

LEMMA EndSessionWatched ==
    ASSUME Typed, EndSession
    PROVE  Watched'
<1>1. /\ dq # <<>> /\ dq' = Tail(dq) \o <<>> /\ <<>> \in Seq(DqEntries) /\ dq \in Seq(DqEntries)
      /\ generation' = generation + 1 /\ running' = FALSE /\ app' = FALSE
  BY DEF EndSession, SessionEnded, Dispatching, Dispatched, Typed, DqTyped
<1>2. dq' \in Seq(DqEntries) /\ \A A : Has(dq', A) => Has(dq, A)
  BY <1>1, TakenHas, Made
<1>3. QED
  BY <1>1, <1>2, EndedWatched

LEMMA PostShutdownWatched ==
    ASSUME Typed, PostShutdown
    PROVE  Watched'
BY EndedWatched DEF PostShutdown, SessionEnded, Typed, DqTyped

LEMMA PostStopWatched ==
    ASSUME Typed, Ordered, Watched, PostStop
    PROVE  Watched'
<1> DEFINE e == Do("cancel")
           f == Do("timerStop")
           W == BoundNotes(generation) \cup ClosedNotes(generation)
<1>1. e \in DqEntries /\ f \in DqEntries /\ e \notin W /\ f \notin W
  BY DqMade DEF Do, Entry, BoundNotes, ClosedNotes
<1>2. dpc = "stop" /\ UNCHANGED <<running, generation, attached, acceptor, app>>
      /\ (dq' = dq \o <<e, f>> \/ dq' = dq)
  BY DEF PostStop, Enqueue, scopeVars, acceptorVars, appVars
<1>3. ~running /\ ~running'
  BY <1>2 DEF Ordered
<1> HIDE DEF e, f, W
<1>4. Undisturbed(dq, dq', W)
  <2>1. dq \in Seq(DqEntries) /\ <<e, f>> \in Seq(DqEntries) /\ ~Has(<<e, f>>, W)
    BY <1>1, Made DEF Typed, DqTyped
  <2>2. QED
    BY <1>2, <2>1, SentElsewhere, Untouched
<1>5. Bindings'
  BY <1>2, <1>3, <1>4, BindingsKept DEF Watched, W
<1>6. QED
  BY <1>3, <1>5, NoSession DEF Watched

LEMMA DetachWatched ==
    ASSUME Typed, Watched, Detach
    PROVE  Watched'
<1> DEFINE I == {i \in DOMAIN dq : dq[i].op = "signal"}
           B == BoundNotes(generation)
           C == ClosedNotes(generation)
<1>1. /\ dpc = "idle" /\ dpc' = "shutdown" /\ attached' = FALSE
      /\ dq' = Selected(dq, I) /\ I \in SUBSET DOMAIN dq /\ dq \in Seq(DqEntries)
      /\ UNCHANGED <<running, generation, acceptor, app, ioq>>
  BY DEF Detach, acceptorVars, appVars, Typed, DqTyped
<1>2. \A i \in I : dq[i] \notin B /\ dq[i] \notin C
  BY DEF BoundNotes, ClosedNotes
<1> HIDE DEF I, B, C
<1>3. ~Has(dq', B) /\ ~Has(dq', C)
  BY <1>1, <1>2, ErasedHas
<1>4. \A a : Preceded(dq', generation, a)
  BY <1>3, Bare DEF B, C
<1>5. Stopping' <=> Stopping
  BY <1>1 DEF Stopping
<1>6. /\ Stopping' \/ ~running' => ~app' /\ ~Has(dq', B) /\ ~Has(dq', C)
      /\ Preceded(dq', generation, app')
      /\ ~attached'
  BY <1>1, <1>3, <1>4, <1>5 DEF Watched, Bindings
<1>7. Bindings'
  BY <1>1, <1>6 DEF Bindings, B, C
<1>8. QED
  BY <1>1, <1>7, NoSession DEF Watched

\* The head of the dispatcher's queue is taken and x appended, in terms of what the
\* queue held.
LEMMA DqTaken ==
    ASSUME Typed, dq # <<>>, NEW x \in Seq(DqEntries), dq' = Tail(dq) \o x, NEW A, NEW B
    PROVE  /\ Has(dq, A) <=> E \in A \/ Has(Tail(dq), A)
           /\ Has(dq', A) <=> Has(Tail(dq), A) \/ Has(x, A)
           /\ Has(dq', B) <=> Has(Tail(dq), B) \/ Has(x, B)
           /\ Outlasts(dq, A, B) <=> Outlasts(Tail(dq), A, B) \/ (E \in A /\ ~Has(Tail(dq), B))
           /\ Outlasts(dq', A, B) <=> Outlasts(x, A, B) \/ (Outlasts(Tail(dq), A, B) /\ ~Has(x, B))
BY Taken DEF Typed, DqTyped, E

\* A notification of another session.
LEMMA NotifyDiscarded ==
    ASSUME Typed, Watched, Notify, ~IsCurrent(E.token)
    PROVE  Watched'
<1>1. /\ dq # <<>> /\ E.op = "note" /\ dq' = Tail(dq) \o <<>>
      /\ UNCHANGED <<running, generation, attached, dpc, acceptor, retry, watch, app, ioq>>
  BY DEF Notify, Dispatching, Dispatched, E, scopeVars, taskVars, acceptorVars
<1>2. E \notin Crucial(generation)
  <2>1. CASE running
    <3>1. E.token # generation
      BY <2>1 DEF IsCurrent
    <3>2. QED
      BY <1>1, <3>1 DEF Crucial, BoundNotes, ClosedNotes
  <2>2. CASE ~running
    <3> DEFINE B == BoundNotes(generation)
               C == ClosedNotes(generation)
    <3>1. ~Has(dq, B) /\ ~Has(dq, C)
      BY <2>2 DEF Watched, Bindings
    <3> HIDE DEF B, C
    <3>2. E \notin B /\ E \notin C
      BY <1>1, <3>1, DqTaken, Made
    <3>3. QED
      BY <1>1, <3>2 DEF Crucial, B, C
  <2>3. QED
    BY <2>1, <2>2
<1>3. DqFrame
  BY <1>1, <1>2, DqFrameMoved, Made
<1>4. QED
  BY <1>1, <1>3, FrameSame, WatchedKept

LEMMA NotifyBound ==
    ASSUME Typed, Ordered, Watched, Notify, IsCurrent(E.token), E.what = "bound"
    PROVE  Watched'
<1> DEFINE e == Do("timerStart")
           B == BoundNotes(generation)
           C == ClosedNotes(generation)
           T == Dq("timerStart")
           U == Dq("timerStop")
           S == Dq("stop")
           W == B \cup C
           V == BindOps(generation)
           L == LostNotes(generation)
           X == BindNotes(generation)
<1>1. /\ dq # <<>> /\ E \in DqEntries /\ E.op = "note" /\ E.token = generation /\ running
      /\ app' = TRUE
      /\ UNCHANGED <<running, generation, attached, dpc, acceptor, retry, watch, ioq>>
  BY Heads DEF TellsBinding, Notify, Dispatching, E, IsCurrent, scopeVars, taskVars, acceptorVars
<1>2. attached /\ dq' = Tail(dq) \o <<e>>
  <2>1. E \in Scheduled
    BY <1>1 DEF Scheduled
  <2>2. Has(dq, Scheduled)
    BY <1>1, <2>1, TakenHas, Made DEF Typed, DqTyped, E
  <2>3. attached
    BY <2>2 DEF Ordered
  <2>4. Followups(E.what) = <<e>>
    BY DEF Followups, Retried
  <2>5. QED
    BY <1>1, <2>3, <2>4 DEF Notify, Dispatched
<1>3. E \in B /\ E \notin C /\ E \notin V /\ B \cap C = {} /\ X \subseteq B \cup C /\ L \subseteq C
  BY <1>1, CrucialParts DEF BoundNotes, ClosedNotes, BindOps, Dq
<1>4. e \in DqEntries /\ e \in T /\ e \notin U /\ e \notin B /\ e \notin C /\ e \notin V
  <2>1. e \in DqEntries
    BY DqMade
  <2>2. QED
    BY <2>1 DEF Do, Entry, Dq, BoundNotes, ClosedNotes, BindOps
<1>5. /\ Stopping \/ ~running => ~app /\ ~Has(dq, B) /\ ~Has(dq, C)
      /\ Preceded(dq, generation, app)
      /\ attached /\ ~acceptor /\ (app \/ Has(dq, B)) => Lost(dq, generation)
  BY DEF Watched, Bindings
<1> HIDE DEF e, B, C, V, L, X
<1>6. <<e>> \in Seq(DqEntries) /\ dq \in Seq(DqEntries) /\ Tail(dq) \in Seq(DqEntries)
  BY <1>1, <1>4, TakenHas DEF Typed, DqTyped
<1>7. /\ \A A : Has(<<e>>, A) <=> e \in A
      /\ \A A, D : Outlasts(<<e>>, A, D) <=> e \in A
  BY Literals
<1>8. Has(dq, B) /\ ~Stopping
  BY <1>1, <1>2, <1>3, <1>5, <1>6, DqTaken
<1>9. Preceded(Tail(dq), generation, TRUE)
  BY <1>1, <1>3, <1>5, <1>6, PrecededPopped DEF E, B
<1>10. Preceded(dq', generation, app')
  <2>1. ~Has(<<e>>, X)
    BY <1>3, <1>4, <1>7
  <2>2. QED
    BY <1>1, <1>2, <1>6, <1>9, <2>1, PrecededJoined DEF X
<1>11. attached /\ ~acceptor => Lost(dq', generation)
  <2>1. Outlasts(dq, L, B) => Outlasts(Tail(dq), L, B)
    BY <1>1, <1>2, <1>3, <1>6, DqTaken
  <2>2. Outlasts(Tail(dq), L, B) => Outlasts(dq', L, B)
    BY <1>1, <1>2, <1>4, <1>6, <1>7, DqTaken
  <2>3. QED
    BY <1>5, <1>8, <2>1, <2>2 DEF Lost, L, B
<1>12. ~Stopping' /\ running'
  BY <1>1, <1>8 DEF Stopping
<1>13. Bindings'
  BY <1>1, <1>10, <1>11, <1>12 DEF Bindings, B, C
<1>14. WillBind => WillBind'
  <2>1. Undisturbed(dq, dq', V)
    BY <1>1, <1>2, <1>3, <1>4, <1>6, <1>7, TakenElsewhere DEF E
  <2>2. QED
    BY <1>1, <2>1, WillBindKept DEF V
<1>15. WillCheck => WillCheck'
  <2>1. e \notin S /\ E \notin S
    BY <1>3, <1>4 DEF V, BindOps
  <2> HIDE DEF S, T, U
  <2>2. Has(dq, S) => Has(dq', S)
    BY <1>1, <1>2, <1>6, <2>1, DqTaken
  <2>3. Outlasts(dq, B, C) => Outlasts(dq', B, C) \/ ~Has(dq', C)
    BY <1>1, <1>2, <1>3, <1>4, <1>6, <1>7, DqTaken
  <2>4. ~Has(dq, C) => ~Has(dq', C)
    BY <1>1, <1>2, <1>3, <1>4, <1>6, <1>7, DqTaken
  <2>5. Outlasts(dq', T, U)
    BY <1>1, <1>2, <1>4, <1>6, <1>7, DqTaken
  <2>6. QED
    BY <1>1, <2>2, <2>3, <2>4, <2>5 DEF WillCheck, B, C, S, T, U
<1>16. Busy'
  BY <1>1, <1>8, <1>12, <1>14, <1>15 DEF Watched, Busy
<1>17. QED
  BY <1>13, <1>16 DEF Watched

LEMMA NotifyClosed ==
    ASSUME Typed, Ordered, Watched, Notify, IsCurrent(E.token), E.what \in Retried
    PROVE  Watched'
<1> DEFINE e == Do("timerStop")
           f == Do("debounce")
           x == <<e, f>>
           B == BoundNotes(generation)
           C == ClosedNotes(generation)
           D == Dq("debounce") \cup C
           N == Dq("cancel")
           S == Dq("stop")
           L == LostNotes(generation)
           X == BindNotes(generation)
<1>1. /\ dq # <<>> /\ E \in DqEntries /\ E.op = "note" /\ E.token = generation /\ running
      /\ app' = (IF E.what = "closed" THEN FALSE ELSE app)
      /\ UNCHANGED <<running, generation, attached, dpc, acceptor, retry, watch, ioq>>
  BY Heads DEF TellsBinding, Notify, Dispatching, E, IsCurrent, scopeVars, taskVars, acceptorVars, Retried
<1>2. attached /\ dq' = Tail(dq) \o x
  <2>1. E \in Scheduled
    BY <1>1 DEF Scheduled
  <2>2. Has(dq, Scheduled)
    BY <1>1, <2>1, TakenHas, Made DEF Typed, DqTyped, E
  <2>3. attached
    BY <2>2 DEF Ordered
  <2>4. Followups(E.what) = x
    BY DEF Followups, Retried
  <2>5. QED
    BY <1>1, <2>3, <2>4 DEF Notify, Dispatched, Retried
<1>3. /\ E \in C /\ E \notin B /\ E \notin S /\ B \cap C = {} /\ X \subseteq B \cup C /\ L \subseteq C
      /\ E.what = "closed" <=> E \in L
  BY <1>1, CrucialParts DEF BoundNotes, ClosedNotes, LostNotes, Dq, Retried
<1>4. /\ e \in DqEntries /\ e \notin B /\ e \notin C /\ e \notin S
      /\ f \in DqEntries /\ f \notin B /\ f \notin C /\ f \notin S /\ f \in D
  <2>1. e \in DqEntries /\ f \in DqEntries
    BY DqMade
  <2>2. QED
    BY <2>1 DEF Do, Entry, Dq, BoundNotes, ClosedNotes
<1>5. /\ Stopping \/ ~running => ~app /\ ~Has(dq, B) /\ ~Has(dq, C)
      /\ Preceded(dq, generation, app)
      /\ attached /\ ~acceptor /\ (app \/ Has(dq, B)) => Lost(dq, generation)
  BY DEF Watched, Bindings
<1> HIDE DEF e, f, B, C, D, N, S, L, X
<1>6. /\ x \in Seq(DqEntries)
      /\ dq \in Seq(DqEntries) /\ Tail(dq) \in Seq(DqEntries)
      /\ ~Has(x, B) /\ ~Has(x, C) /\ ~Has(x, S) /\ Outlasts(x, D, N)
  <2>1. dq \in Seq(DqEntries) /\ Tail(dq) \in Seq(DqEntries)
    BY <1>1, TakenHas, Made DEF Typed, DqTyped
  <2>2. x \in Seq(DqEntries) /\ ~Has(x, B) /\ ~Has(x, C) /\ ~Has(x, S)
    BY <1>4, Made
  <2>3. Outlasts(x, D, N)
    BY <1>4, Literals
  <2>4. QED
    BY <2>1, <2>2, <2>3
<1> HIDE DEF x
<1>7. Has(dq, C) /\ ~Stopping
  BY <1>1, <1>2, <1>3, <1>5, <1>6, DqTaken
<1>8. Preceded(Tail(dq), generation, app')
  <2>1. CASE E.what = "closed"
    BY <1>1, <1>3, <1>5, <1>6, <2>1, PrecededPopped DEF E, L
  <2>2. CASE E.what # "closed"
    <3>1. E \notin BoundNotes(generation) \cup LostNotes(generation)
      BY <1>3, <2>2 DEF B, L
    <3>2. QED
      BY <1>1, <1>5, <1>6, <2>2, <3>1, PrecededPopped DEF E
  <2>3. QED
    BY <2>1, <2>2
<1>9. Preceded(dq', generation, app')
  <2>1. ~Has(x, X)
    BY <1>3, <1>6 DEF Has
  <2>2. QED
    BY <1>2, <1>6, <1>8, <2>1, PrecededJoined DEF X
<1>10. attached /\ ~acceptor /\ (app' \/ Has(dq', B)) => Lost(dq', generation)
  <2>1. app' \/ Has(dq', B) => app' \/ (Has(Tail(dq), B) /\ Has(dq, B))
    BY <1>1, <1>2, <1>6, DqTaken
  <2>2. Outlasts(dq, L, B) => Outlasts(Tail(dq), L, B) \/ (E \in L /\ ~Has(Tail(dq), B))
    BY <1>1, <1>2, <1>6, DqTaken
  <2>3. Outlasts(Tail(dq), L, B) => Outlasts(dq', L, B)
    BY <1>1, <1>2, <1>6, DqTaken
  <2>4. app' => app /\ E \notin L
    BY <1>1, <1>3
  <2>5. QED
    BY <1>5, <2>1, <2>2, <2>3, <2>4 DEF Lost, L, B
<1>11. ~Stopping' /\ running'
  BY <1>1, <1>7 DEF Stopping
<1>12. Bindings'
  BY <1>1, <1>9, <1>10, <1>11 DEF Bindings, B, C
<1>13. WillBind'
  <2>1. Outlasts(dq', D, N)
    BY <1>1, <1>2, <1>6, DqTaken
  <2>2. QED
    BY <1>1, <2>1 DEF WillBind, D, N, C
<1>14. WillCheck => WillCheck'
  <2>1. Has(dq, S) => Has(dq', S)
    BY <1>1, <1>2, <1>3, <1>6, DqTaken
  <2>2. Outlasts(dq, B, C) => Outlasts(dq', B, C)
    BY <1>1, <1>2, <1>3, <1>6, DqTaken
  <2>3. QED
    BY <1>1, <1>7, <2>1, <2>2 DEF WillCheck, B, C, S
<1>15. Busy'
  BY <1>1, <1>7, <1>11, <1>13, <1>14 DEF Watched, Busy
<1>16. QED
  BY <1>12, <1>15 DEF Watched

LEMMA NotifyWatched ==
    ASSUME Typed, Ordered, Watched, Notify
    PROVE  Watched'
<1>1. CASE ~IsCurrent(E.token)
  BY <1>1, NotifyDiscarded
<1>2. CASE IsCurrent(E.token)
  <2>1. dq # <<>> /\ E \in DqEntries /\ E.op = "note" /\ E.what # "ready"
    BY <1>2, Heads DEF Notify, Dispatching, E
  <2>2. E.what = "bound" \/ E.what \in Retried
    BY <2>1, DqRead DEF Retried
  <2>3. QED
    BY <1>2, <2>2, NotifyBound, NotifyClosed
<1>3. QED
  BY <1>1, <1>2

LEMMA DebounceWatched ==
    ASSUME Typed, Watched, Debounce
    PROVE  Watched'
<1> DEFINE W == BoundNotes(generation) \cup ClosedNotes(generation)
           V == CheckOps(generation)
           D == Dq("debounce") \cup ClosedNotes(generation)
           N == Dq("cancel")
           S == Dq("stop")
<1>1. /\ dq # <<>> /\ E \in DqEntries /\ E.op \in {"cancel", "debounce"} /\ dq' = Tail(dq) \o <<>>
      /\ retry' = (E.op = "debounce")
      /\ UNCHANGED <<running, generation, attached, dpc, acceptor, watch, app, ioq>>
  BY Heads DEF Debounce, Dispatched, E, scopeVars, acceptorVars, appVars
<1>2. /\ E \notin W /\ E \notin V /\ E \notin S
      /\ E \in D => E.op = "debounce" /\ E \notin N
      /\ E \notin N => E.op = "debounce"
  BY <1>1 DEF BoundNotes, ClosedNotes, CheckOps, Dq
<1> HIDE DEF W, V, D, N, S
<1>3. Undisturbed(dq, dq', W) /\ Undisturbed(dq, dq', V)
  BY <1>1, <1>2, TakenElsewhere, Made DEF Typed, DqTyped, E
<1>4. Stopping' <=> Stopping
  BY <1>1 DEF Stopping
<1>5. Bindings'
  BY <1>1, <1>3, <1>4, BindingsKept DEF Watched, W
<1>6. WillBind => WillBind'
  <2>1. <<>> \in Seq(DqEntries) /\ ~Has(<<>>, D) /\ ~Has(<<>>, N)
    BY Made
  <2>2. Has(dq, S) => Has(dq', S)
    BY <1>1, <1>2, <2>1, DqTaken
  <2>3. Outlasts(dq, D, N) => Outlasts(dq', D, N) \/ (retry' /\ ~Has(dq', N))
    BY <1>1, <1>2, <2>1, DqTaken
  <2>4. ~Has(dq, N) => retry' /\ ~Has(dq', N)
    BY <1>1, <1>2, <2>1, DqTaken
  <2>5. QED
    BY <1>1, <2>2, <2>3, <2>4 DEF WillBind, D, N, S
<1>7. WillCheck => WillCheck'
  BY <1>1, <1>3, WillCheckKept DEF V
<1>8. Busy'
  BY <1>1, <1>4, <1>6, <1>7 DEF Watched, Busy
<1>9. QED
  BY <1>5, <1>8 DEF Watched

LEMMA RetryWatched ==
    ASSUME Typed, Watched, Retry
    PROVE  Watched'
<1> DEFINE t == With("bind", generation)
<1>1. /\ ioq' = ioq \o (IF running THEN <<t>> ELSE <<>>)
      /\ UNCHANGED <<running, generation, attached, dpc, dq, acceptor, watch, app>>
  BY DEF Retry, Post, scopeVars, acceptorVars, appVars
<1>2. t \in IoEntries /\ t \in Binds(generation) /\ t \notin Enders
  <2>1. t \in IoEntries
    BY IoMade DEF Typed, StateTyped, ScopeTyped
  <2>2. QED
    BY <2>1 DEF With, Entry, Binds, Enders
<1> HIDE DEF t
<1>3. (running => Has(ioq', Binds(generation))) /\ (Has(ioq', Enders) <=> Has(ioq, Enders))
  <2>1. ioq \in Seq(IoEntries) /\ <<t>> \in Seq(IoEntries)
    BY <1>2 DEF Typed, IoTyped
  <2>2. \A A : Has(ioq \o <<t>>, A) <=> Has(ioq, A) \/ Has(<<t>>, A)
    BY <2>1, SentHas
  <2>3. \A A : Has(<<t>>, A) <=> t \in A
    BY Literals
  <2>4. ioq \o <<>> = ioq
    BY <2>1, Plain
  <2>5. QED
    BY <1>1, <1>2, <2>2, <2>3, <2>4
<1>4. Stopping' <=> Stopping
  BY <1>1, <1>3 DEF Stopping
<1>5. Bindings'
  BY <1>1, <1>4 DEF Watched, Bindings
<1>6. running => WillBind'
  BY <1>1, <1>3 DEF WillBind
<1>7. WillCheck => WillCheck'
  BY <1>1 DEF WillCheck
<1>8. Busy'
  BY <1>1, <1>4, <1>6, <1>7 DEF Watched, Busy
<1>9. QED
  BY <1>5, <1>8 DEF Watched

LEMMA TimerWatched ==
    ASSUME Typed, Watched, Timer
    PROVE  Watched'
<1> DEFINE e == Do("check")
           W == BoundNotes(generation) \cup ClosedNotes(generation)
           V == BindOps(generation)
           B == BoundNotes(generation)
           C == ClosedNotes(generation)
           T == Dq("timerStart")
           U == Dq("timerStop")
           S == Dq("stop")
<1>1. /\ dq # <<>> /\ E \in DqEntries /\ E.op \in {"timerStart", "timerStop"}
      /\ watch' = (E.op = "timerStart")
      /\ (dq' = Tail(dq) \o <<e>> \/ dq' = Tail(dq) \o <<>>)
      /\ UNCHANGED <<running, generation, attached, dpc, acceptor, retry, app, ioq>>
  BY Heads DEF Timer, Dispatched, E, scopeVars, acceptorVars, appVars
<1>2. /\ E \notin W /\ E \notin V /\ E \notin S /\ E \notin B /\ E \notin C
      /\ E \in T => watch'
      /\ E \notin U => watch'
  BY <1>1 DEF BoundNotes, ClosedNotes, BindOps, Dq
<1>3. e \in DqEntries /\ e \notin W /\ e \notin V /\ e \notin S /\ e \notin B /\ e \notin C /\ e \notin U
  <2>1. e \in DqEntries
    BY DqMade
  <2>2. QED
    BY <2>1 DEF Do, Entry, BoundNotes, ClosedNotes, BindOps, Dq
<1> HIDE DEF e, W, V, B, C, T, U, S
<1>4. PICK x \in Seq(DqEntries) :
             /\ dq' = Tail(dq) \o x
             /\ ~Has(x, W) /\ ~Has(x, V) /\ ~Has(x, B) /\ ~Has(x, C) /\ ~Has(x, U)
  <2>1. <<e>> \in Seq(DqEntries)
        /\ ~Has(<<e>>, W) /\ ~Has(<<e>>, V) /\ ~Has(<<e>>, B) /\ ~Has(<<e>>, C) /\ ~Has(<<e>>, U)
    BY <1>3, Made
  <2>2. <<>> \in Seq(DqEntries)
        /\ ~Has(<<>>, W) /\ ~Has(<<>>, V) /\ ~Has(<<>>, B) /\ ~Has(<<>>, C) /\ ~Has(<<>>, U)
    BY Made
  <2>3. QED
    BY <1>1, <2>1, <2>2
<1>5. Undisturbed(dq, dq', W) /\ Undisturbed(dq, dq', V)
  BY <1>1, <1>2, <1>4, TakenElsewhere DEF Typed, DqTyped, E
<1>6. Stopping' <=> Stopping
  BY <1>1 DEF Stopping
<1>7. Bindings'
  BY <1>1, <1>5, <1>6, BindingsKept DEF Watched, W
<1>8. WillBind => WillBind'
  BY <1>1, <1>5, WillBindKept DEF V
<1>9. WillCheck => WillCheck'
  <2>1. Has(dq, S) => Has(dq', S)
    BY <1>1, <1>2, <1>4, DqTaken
  <2>2. Outlasts(dq, B, C) => Outlasts(dq', B, C)
    BY <1>1, <1>2, <1>4, DqTaken
  <2>3. ~Has(dq, C) => ~Has(dq', C)
    BY <1>1, <1>2, <1>4, DqTaken
  <2>4. Outlasts(dq, T, U) => Outlasts(dq', T, U) \/ (watch' /\ ~Has(dq', U))
    BY <1>1, <1>2, <1>4, DqTaken
  <2>5. ~Has(dq, U) => watch' /\ ~Has(dq', U)
    BY <1>1, <1>2, <1>4, DqTaken
  <2>6. QED
    BY <1>1, <2>1, <2>2, <2>3, <2>4, <2>5 DEF WillCheck, B, C, S, T, U
<1>10. Busy'
  BY <1>1, <1>6, <1>8, <1>9 DEF Watched, Busy
<1>11. QED
  BY <1>7, <1>10 DEF Watched

\* The acceptor reports: it is bound, or it is closed.
LEMMA Reported ==
    ASSUME Typed, Ordered, Watched, running, ~Stopping, ~Stopping',
           UNCHANGED <<running, generation, attached, dpc, app>>,
           NEW w \in {"bound", "bind_failed", "closed"}, Enqueue(<<Note(w, None, generation)>>),
           w # "closed" => ~acceptor,
           IF w = "bound" THEN acceptor' = TRUE ELSE acceptor' = FALSE
    PROVE  Watched'
<1> DEFINE e == Note(w, None, generation)
           B == BoundNotes(generation)
           C == ClosedNotes(generation)
           D == Dq("debounce") \cup C
           N == Dq("cancel")
           L == LostNotes(generation)
           X == BindNotes(generation)
<1>1. /\ e \in DqEntries /\ e \notin N /\ B \cap C = {}
      /\ w = "bound" => e \in B /\ e \notin C
      /\ w # "bound" => e \in C /\ e \in D /\ e \notin B
      /\ w = "closed" => e \in L /\ e \notin X
      /\ w # "closed" => e \in X
  <2>1. e \in DqEntries
    BY DqMade DEF Typed, StateTyped, ScopeTyped
  <2>2. QED
    BY <2>1, CrucialParts DEF Note, Entry, BoundNotes, ClosedNotes, BindNotes, LostNotes, Dq
<1>2. /\ Preceded(dq, generation, app)
      /\ attached /\ ~acceptor /\ (app \/ Has(dq, B)) => Lost(dq, generation)
  BY DEF Watched, Bindings
<1>3. IF attached THEN dq' = dq \o <<e>> ELSE dq' = dq
  BY DEF Enqueue
<1> HIDE DEF e, B, C, D, N, L, X
<1>4. dq \in Seq(DqEntries) /\ <<e>> \in Seq(DqEntries)
  BY <1>1 DEF Typed, DqTyped
<1>5. CASE attached
  <2>1. dq' = dq \o <<e>>
    BY <1>3, <1>5
  <2>2. /\ \A A : Has(<<e>>, A) <=> e \in A
        /\ \A A, F : Outlasts(<<e>>, A, F) <=> e \in A
    BY Literals
  <2>3. Preceded(dq', generation, app)
    <3>1. CASE w # "closed"
      <4>1. e \in BindNotes(generation) /\ (app \/ Has(dq, BoundNotes(generation)) => Lost(dq, generation))
        BY <1>1, <1>2, <1>5, <3>1 DEF X, B
      <4>2. QED
        BY <1>2, <1>4, <2>1, <4>1, PrecededJoined
    <3>2. CASE w = "closed"
      <4>1. ~Has(<<e>>, BindNotes(generation))
        BY <1>1, <2>2, <3>2 DEF X
      <4>2. QED
        BY <1>2, <1>4, <2>1, <4>1, PrecededJoined
    <3>3. QED
      BY <3>1, <3>2
  <2>4. w # "bound" => Outlasts(dq', D, N)
    BY <1>1, <1>4, <2>1, <2>2, Joined
  <2>5. w = "bound" => Outlasts(dq', B, C)
    BY <1>1, <1>4, <2>1, <2>2, Joined
  <2>6. Bindings'
    <3>9. /\ Has(dq', B) <=> Has(dq, B) \/ Has(<<e>>, B)
          /\ Outlasts(dq', L, B) <=> Outlasts(<<e>>, L, B) \/ (Outlasts(dq, L, B) /\ ~Has(<<e>>, B))
      BY <1>4, <2>1, Joined
    <3>2. w = "closed" => Outlasts(dq', L, B)
      BY <1>1, <2>2, <3>9
    <3>3. w = "bind_failed" => /\ Has(dq', B) => Has(dq, B)
                               /\ Outlasts(dq, L, B) => Outlasts(dq', L, B)
      BY <1>1, <2>2, <3>9
    <3>4. w # "bound" /\ (app \/ Has(dq', B)) => Lost(dq', generation)
      BY <1>2, <1>5, <3>2, <3>3 DEF Lost, L, B
    <3>5. QED
      BY <2>3, <3>4 DEF Bindings, B
  <2>7. Busy'
    BY <2>4, <2>5 DEF Busy, WillBind, WillCheck, B, C, D, N
  <2>8. QED
    BY <2>6, <2>7 DEF Watched
<1>6. CASE ~attached
  <2>1. dq' = dq /\ dpc' # "idle"
    BY <1>3, <1>6 DEF Ordered
  <2>2. Bindings'
    BY <1>2, <1>6, <2>1 DEF Bindings, B, C
  <2>3. QED
    BY <2>1, <2>2, NoSession DEF Watched
<1>7. QED
  BY <1>5, <1>6

LEMMA BindWatched ==
    ASSUME Typed, Ordered, Watched, NEW outcome \in {"bound", "bind_failed", "ignored"}, Bind(outcome)
    PROVE  Watched'
<1>1. /\ ioq # <<>> /\ H.op = "bind" /\ H \in IoEntries /\ ioq' = Tail(ioq) \o <<>>
      /\ UNCHANGED <<running, generation, attached, dpc, retry, watch, app>>
  BY Heads DEF Bind, Running, Posting, H, DispatcherUnchanged, scopeVars, taskVars, appVars
<1>2. Has(ioq', Enders) <=> Has(ioq, Enders)
  BY BindTouches, IoFrameOthers
<1>3. Stopping' <=> Stopping
  BY <1>1, <1>2 DEF Stopping
<1>4. CASE MayBind /\ outcome # "ignored"
  <2>1. running /\ ~Stopping /\ H.token = generation /\ ~acceptor
    BY <1>1, <1>4, FreshHead DEF MayBind
  <2>2. /\ outcome \in {"bound", "bind_failed"} /\ Enqueue(<<Note(outcome, None, generation)>>)
        /\ IF outcome = "bound" THEN acceptor' = TRUE ELSE acceptor' = FALSE
    BY <1>4, <2>1 DEF Bind, CloseAcceptor
  <2>3. QED
    BY <1>1, <1>3, <2>1, <2>2, Reported
<1>5. CASE ~MayBind /\ UNCHANGED <<acceptorVars, dq>>
  <2>1. UNCHANGED <<dq, acceptor>>
    BY <1>5 DEF acceptorVars
  <2>2. Bindings'
    BY <1>1, <1>3, <2>1, Untouched, BindingsKept DEF Watched
  <2>3. WillCheck => WillCheck'
    BY <1>1, <2>1 DEF WillCheck
  <2>4. running /\ dpc = "idle" /\ (acceptor => Stopping) /\ WillBind => WillBind'
    <3>1. CASE H \in Binds(generation)
      <4>1. H.token = generation
        BY <3>1 DEF Binds
      <4>2. CASE running /\ acceptor
        BY <1>1, <4>1, <4>2, FreshHead DEF IsCurrent
      <4>3. CASE running /\ ~Locked
        BY <4>3 DEF Locked, Ordered
      <4>4. QED
        BY <1>5, <4>1, <4>2, <4>3 DEF MayBind, IsCurrent
    <3>2. CASE H \notin Binds(generation)
      <4> DEFINE A == Binds(generation)
      <4>1. H \notin A /\ ioq \in Seq(IoEntries) /\ <<>> \in Seq(IoEntries)
        BY <3>2 DEF Typed, IoTyped
      <4> HIDE DEF A
      <4>2. Has(ioq, A) => Has(ioq', A)
        BY <1>1, <4>1, TakenHas DEF H
      <4>3. QED
        BY <1>1, <2>1, <4>2 DEF WillBind, A
    <3>3. QED
      BY <3>1, <3>2
  <2>5. Busy'
    BY <1>1, <1>3, <2>1, <2>3, <2>4 DEF Watched, Busy
  <2>6. QED
    BY <2>2, <2>5 DEF Watched
<1>6. QED
  BY <1>4, <1>5 DEF Bind

LEMMA AcceptedWatched ==
    ASSUME Typed, Ordered, Watched, Accepted
    PROVE  Watched'
<1>1. /\ ioq # <<>> /\ H.op = "accepted"
      /\ UNCHANGED <<running, generation, attached, dpc, retry, watch>>
  BY DEF Accepted, Running, H, scopeVars, taskVars
<1>2. (Has(ioq', Enders) <=> Has(ioq, Enders)) /\ IoFrame
  BY AcceptedTouches, IoFrameOthers
<1>3. CASE UNCHANGED <<dq, acceptor, app>>
  BY <1>1, <1>2, <1>3, FrameSame, WatchedKept
<1>4. CASE IsCurrent(H.token) /\ CloseAcceptor /\ Enqueue(<<Note("closed", None, H.token)>>) /\ UNCHANGED appVars
  <2>1. running /\ ~Stopping /\ H.token = generation
    BY <1>1, <1>4, FreshHead
  <2>2. ~Stopping' /\ acceptor' = FALSE /\ app' = app
    BY <1>1, <1>2, <1>4, <2>1 DEF Stopping, CloseAcceptor, appVars
  <2>3. QED
    BY <1>1, <1>4, <2>1, <2>2, Reported
<1>5. QED
  BY <1>3, <1>4 DEF Accepted, acceptorVars, appVars

LEMMA HandleFailedWatched ==
    ASSUME Typed, Ordered, Sessions, Watched, NEW k \in Probes, NEW f, HandleFailed(k, f),
           ioq # <<>>, H.op \in {"probeConnected", "probeTimeout", "probeFailed"},
           UNCHANGED <<running, generation, attached, dpc, retry, watch, app>>
    PROVE  Watched'
<1>1. IoFrame
  <2>1. Undisturbed(ioq, ioq', Others({H.op, "probeClose"}))
    BY HandleFailedTouches
  <2>2. QED
    BY <2>1, IoFrameOthers
<1>2. CASE Current(k)
  <2>1. /\ running /\ ~Stopping /\ probes[k].token = generation
    BY <1>2, Names DEF Current, IsCurrent, Sessions
  <2>2. /\ Enqueue(<<Note("closed", None, generation)>>) /\ acceptor' = FALSE
    BY <1>2, <2>1 DEF HandleFailed, CloseAcceptor
  <2>3. ~Stopping'
    BY <1>1, <2>1 DEF Stopping, IoFrame
  <2>4. QED
    BY <2>1, <2>2, <2>3, Reported
<1>3. CASE ~Current(k)
  BY <1>1, <1>3, FrameSame, WatchedKept DEF HandleFailed, acceptorVars
<1>4. QED
  BY <1>2, <1>3

LEMMA ProbeConnectedWatched ==
    ASSUME Typed, Ordered, Sessions, Watched, ProbeConnected
    PROVE  Watched'
<1>1. /\ ioq # <<>> /\ H.op = "probeConnected" /\ H.who \in Probes
      /\ UNCHANGED <<running, generation, attached, dpc, retry, watch, app>>
  BY Heads, IoRead DEF ProbeConnected, Running, H, IoUnchanged, DispatcherUnchanged, scopeVars,
     taskVars, appVars
<1>2. CASE UNCHANGED <<dq, acceptorVars>>
  <2>1. IoFrame
    BY ProbeConnectedTouches, IoFrameOthers
  <2>2. QED
    BY <1>1, <1>2, <2>1, FrameSame, WatchedKept DEF acceptorVars
<1>3. CASE \E f : HandleFailed(H.who, f)
  BY <1>1, <1>3, HandleFailedWatched
<1>4. QED
  BY <1>2, <1>3 DEF ProbeConnected

LEMMA ProbeFailedWatched ==
    ASSUME Typed, Ordered, Sessions, Watched, ProbeFailed
    PROVE  Watched'
<1>1. /\ ioq # <<>> /\ H.op \in {"probeTimeout", "probeFailed"} /\ H.who \in Probes
      /\ UNCHANGED <<running, generation, attached, dpc, retry, watch, app>>
  BY Heads, IoRead DEF ProbeFailed, H, IoUnchanged, DispatcherUnchanged, scopeVars,
     taskVars, appVars
<1>2. CASE UNCHANGED <<dq, acceptorVars>>
  <2>1. IoFrame
    BY ProbeFailedTouches, IoFrameOthers
  <2>2. QED
    BY <1>1, <1>2, <2>1, FrameSame, WatchedKept DEF acceptorVars
<1>3. CASE HandleFailed(H.who, probes)
  BY <1>1, <1>3, HandleFailedWatched
<1>4. QED
  BY <1>2, <1>3 DEF ProbeFailed

LEMMA StopWatched ==
    ASSUME Typed, Ordered, Watched, Stop
    PROVE  Watched'
<1>1. ioq # <<>> /\ H \in Enders /\ H = Head(ioq)
  BY Heads DEF Stop, Running, H, Enders
<1>2. Has(ioq, Enders)
  <2>1. ioq \in Seq(IoEntries)
    BY DEF Typed, IoTyped
  <2>2. QED
    BY <1>1, <2>1, TakenHas, Made
<1>3. Locked /\ Stopping
  BY <1>2 DEF Ordered, Locked, Stopping
<1>4. UNCHANGED <<running, generation, attached, dpc, dq, retry, watch, app>> /\ acceptor' = FALSE
  BY <1>3 DEF Stop, CloseEverything, CloseAcceptor, IoUnchanged, DispatcherUnchanged, scopeVars,
     taskVars, appVars
<1>5. Has(ioq', Binds(generation)) <=> Has(ioq, Binds(generation))
  <2>1. Binds(generation) \in SUBSET Others({"stop", "peerClose", "probeClose"})
    BY DEF Binds, Others
  <2>2. QED
    BY <2>1, StopTouches DEF Undisturbed
<1>6. Bindings'
  <2> DEFINE B == BoundNotes(generation)
             C == ClosedNotes(generation)
  <2>1. ~app /\ ~Has(dq, B) /\ ~Has(dq, C) /\ Preceded(dq, generation, app)
    BY <1>3 DEF Watched, Bindings
  <2>2. QED
    BY <1>4, <2>1 DEF Bindings
<1>7. WillBind => WillBind'
  BY <1>4, <1>5 DEF WillBind
<1>8. Busy'
  BY <1>3, <1>4, <1>7 DEF Watched, Busy
<1>9. QED
  BY <1>6, <1>8 DEF Watched

LEMMA ShutdownWatched ==
    ASSUME Typed, Ordered, Watched, Shutdown
    PROVE  Watched'
<1>1. ioq # <<>> /\ H \in Io("shutdown") /\ H = Head(ioq)
  BY Heads DEF Shutdown, Running, H, Io
<1>2. Has(ioq, Io("shutdown"))
  <2>1. ioq \in Seq(IoEntries)
    BY DEF Typed, IoTyped
  <2>2. QED
    BY <1>1, <2>1, TakenHas, Made
<1>3. ~attached /\ ~running
  BY <1>2 DEF Ordered, Typed, StateTyped, ScopeTyped
<1>4. UNCHANGED <<running, generation, attached, dpc, dq, app>>
  BY DEF Shutdown, CloseEverything, IoUnchanged, DispatcherUnchanged, scopeVars, appVars
<1>5. Bindings'
  <2> DEFINE B == BoundNotes(generation)
             C == ClosedNotes(generation)
  <2>1. ~app /\ ~Has(dq, B) /\ ~Has(dq, C) /\ Preceded(dq, generation, app)
    BY <1>3 DEF Watched, Bindings
  <2>2. QED
    BY <1>3, <1>4, <2>1 DEF Bindings
<1>6. QED
  BY <1>3, <1>4, <1>5, NoSession DEF Watched

LEMMA WatchedInit == Init => Watched
<1> SUFFICES ASSUME Init PROVE Watched
  OBVIOUS
<1>1. dq = <<>> /\ ioq = <<>> /\ ~running /\ ~app /\ generation = 0
  BY DEF Init
<1>2. /\ \A A : ~Has(<<>>, A)
      /\ \A a : Preceded(<<>>, generation, a)
  BY DEF Has, Preceded, Follows
<1>3. Bindings
  <2> DEFINE B == BoundNotes(generation)
             C == ClosedNotes(generation)
  <2> HIDE DEF B, C
  <2>1. ~app /\ ~Has(dq, B) /\ ~Has(dq, C) /\ Preceded(dq, generation, app)
    BY <1>1, <1>2
  <2>2. QED
    BY <2>1 DEF Bindings, B, C
<1>4. QED
  BY <1>1, <1>3 DEF Watched, Busy

LEMMA WatchedStep == Safe /\ Watched /\ [Next]_vars => Watched'
<1> SUFFICES ASSUME Safe, Watched, [Next]_vars PROVE Watched'
  OBVIOUS
<1>1. Typed /\ Ordered /\ Sessions
  BY DEF Safe
<1>2. CASE UNCHANGED vars
  BY <1>2, FrameSame, WatchedKept DEF vars, scopeVars, taskVars, acceptorVars, appVars
<1>3. CASE \/ \E op \in {"start", "stop"} : Call(op)
           \/ \E id \in Peers : AsyncClosePeer(id)
           \/ Retry \/ WatchFires \/ Detach
  BY <1>1, <1>3, CallWatched, AsyncClosePeerWatched, RetryWatched, WatchFiresWatched, DetachWatched
<1>4. CASE DispatcherStep
  BY <1>1, <1>4, StartWatched, EndSessionWatched, PostStopWatched, NotifyWatched, NotifyReadyWatched,
     DispatchSignalWatched, ReportWatched, PeerClosedWatched, DebounceWatched, TimerWatched,
     CheckWatched, PostShutdownWatched DEF DispatcherStep
<1>5. CASE IoStep
  BY <1>1, <1>5, BindWatched, AcceptedWatched, EraseWatched, ClosePeerWatched, RunPeerCloseWatched,
     ProbeIgnoredWatched, ProbeBeginsWatched, ProbeConnectedWatched, ProbeFailedWatched,
     ProbeAnsweredWatched, RunProbeCloseWatched, StopWatched, ShutdownWatched, KeepAliveWatched
     DEF IoStep
<1>6. CASE Destroy \/ \E outcome \in {"ok", "error"} : AcceptCompletes(outcome)
  BY <1>1, <1>6, DestroyWatched, AcceptCompletesWatched
<1>7. CASE \E id \in Peers : \/ PeerReady(id) \/ PeerReports(id) \/ Release(id)
                            \/ \E failed \in BOOLEAN : PeerEnds(id, failed)
  BY <1>1, <1>7, PeerReadyWatched, PeerReportsWatched, ReleaseWatched, PeerEndsWatched
<1>8. CASE \E k \in Probes : \/ \E outcome \in {"ok", "failed"} : ProbeConnects(k, outcome)
                             \/ ProbeTimerExpires(k) \/ ProbeAnswers(k) \/ ProbeEnds(k)
                             \/ ReleaseProbe(k)
  BY <1>1, <1>8, ProbeConnectsWatched, ProbeTimerExpiresWatched, ProbeAnswersWatched,
     ProbeEndsWatched, ReleaseProbeWatched
<1>9. QED
  BY <1>2, <1>3, <1>4, <1>5, <1>6, <1>7, <1>8 DEF Next, Destroyed

LEMMA AlwaysWatched == Spec => [](Safe /\ Watched)
<1>1. Init => Safe /\ Watched
  BY TypedInit, SoundInit, OwnedInit, WatchedInit DEF Safe
<1>2. Safe /\ Watched /\ [Next]_vars => Safe' /\ Watched'
  BY TypedStep, SoundStep, OwnedStep, WatchedStep DEF Safe
<1>3. QED
  BY <1>1, <1>2, PTL DEF Spec

\* Whether an accept or a probe failed, the application was told that the acceptor before is
\* closed when it is told that one is bound.
THEOREM Bound == Spec => []BoundThenClosed
<1>1. Safe /\ Watched => BoundThenClosed
  <2> SUFFICES ASSUME Safe, Watched, Dispatching("note"), IsCurrent(E.token),
                      E.what \in {"bound", "bind_failed"}
               PROVE  ~app
    BY DEF BoundThenClosed
  <2>1. dq # <<>> /\ E \in DqEntries /\ E.op = "note" /\ E.token = generation
    BY Heads DEF Safe, Dispatching, E, IsCurrent
  <2>2. E \in BindNotes(generation)
    BY <2>1 DEF BindNotes
  <2>3. Preceded(dq, generation, app) /\ dq \in Seq(DqEntries)
    BY DEF Watched, Bindings, Safe, Typed, DqTyped
  <2>4. QED
    BY <2>1, <2>2, <2>3, PrecededPopped DEF E
<1>2. QED
  BY <1>1, AlwaysWatched, PTL

\* A running server that does not listen is about to bind, and one that listens has its path
\* checked, whatever the two threads have done to the retry task and to the timer since.
THEOREM Alive == Spec => []NeverIdle
<1>1. Safe /\ Watched => NeverIdle
  <2> SUFFICES ASSUME Safe, Watched PROVE NeverIdle
    OBVIOUS
  <2>1. \A A : Has(dq, A) <=> \E e \in ToSet(dq) : e \in A
    BY Elements
  <2>2. \A A : Has(ioq, A) <=> \E t \in ToSet(ioq) : t \in A
    BY Elements
  <2>3. \A A, B : Outlasts(dq, A, B) => Has(dq, A)
    BY DEF Outlasts, Has
  <2>4. ASSUME running, WillBind
        PROVE  AboutToBind
    <3>1. \A t \in Binds(generation) : t.op = "bind" /\ IsCurrent(t.token)
      BY <2>4 DEF Binds, IsCurrent
    <3>2. \A e \in Dq("stop") \cup Dq("debounce") : e.op \in {"debounce", "stop"}
      BY DEF Dq
    <3>3. \A e \in ClosedNotes(generation) : /\ e.op = "note" /\ e.what \in {"bind_failed", "closed"}
                                             /\ IsCurrent(e.token)
      BY <2>4 DEF ClosedNotes, IsCurrent
    <3>4. CASE Has(ioq, Binds(generation))
      BY <2>2, <3>1, <3>4 DEF AboutToBind
    <3>5. CASE Has(dq, Dq("stop")) \/ Has(dq, Dq("debounce") \cup ClosedNotes(generation))
      BY <2>1, <3>2, <3>3, <3>5 DEF AboutToBind
    <3>6. CASE retry
      BY <3>6 DEF AboutToBind
    <3>7. QED
      BY <2>3, <2>4, <3>4, <3>5, <3>6 DEF WillBind
  <2>5. ASSUME running, WillCheck
        PROVE  AboutToCheck
    <3>1. \A e \in Dq("stop") \cup Dq("timerStart") : e.op \in {"timerStart", "stop"}
      BY DEF Dq
    <3>2. \A e \in BoundNotes(generation) : e.op = "note" /\ e.what = "bound" /\ IsCurrent(e.token)
      BY <2>5 DEF BoundNotes, IsCurrent
    <3>3. CASE Has(dq, Dq("stop")) \/ Has(dq, Dq("timerStart")) \/ Has(dq, BoundNotes(generation))
      BY <2>1, <3>1, <3>2, <3>3 DEF AboutToCheck
    <3>4. CASE watch
      BY <3>4 DEF AboutToCheck
    <3>5. QED
      BY <2>3, <2>5, <3>3, <3>4 DEF WillCheck
  <2>6. Stopping => Ending
    <3>1. Has(ioq, Enders) => \E t \in ToSet(ioq) : t.op \in {"stop", "shutdown"}
      BY DEF Has, Enders, ToSet
    <3>2. QED
      BY <3>1 DEF Stopping, Ending
  <2>7. dpc = "idle" /\ running /\ ~acceptor => WillBind
    BY DEF Watched, Busy
  <2>8. running /\ acceptor /\ ~Ending => WillCheck
    BY <2>6 DEF Watched, Busy, Ending
  <2>9. QED
    BY <2>4, <2>5, <2>7, <2>8 DEF NeverIdle
<1>2. QED
  BY <1>1, AlwaysWatched, PTL

=============================================================================
