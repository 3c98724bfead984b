------------------------------ MODULE ClientProofs ------------------------------
(***************************************************************************)
(* The safety of Client.tla, for any connections, requests and bounds.     *)
(***************************************************************************)
EXTENDS Client, QueueProofs

-----------------------------------------------------------------------------
\* The entries of the two queues.

Orders == [op : {"start", "stop", "invalidate", "cancel", "debounce"}, conn : {None},
           token : {0}, what : {""}, req : {None}]
AttemptNotes == [op : {"note"}, conn : {None}, token : Nat,
                 what : {"connect_failed", "verification_failed", "reconnect"}, req : {None}]
PeerNotes == [op : {"note"}, conn : Conns, token : Nat,
              what : {"connected", "received", "error", "closed"}, req : {None}]
Verifications == [op : {"verify"}, conn : Conns, token : Nat, what : {""}, req : {None}]
PeerSignals == [op : {"signal"}, conn : Conns, token : {0}, what : Signals,
                req : Requests \cup {None}]
CallBacks == [op : {"callback"}, conn : {None}, token : {0}, what : {""}, req : Requests]

DqEntries == UNION {Orders, AttemptNotes, PeerNotes, Verifications, PeerSignals, CallBacks}

Commands == [op : {"shutdown", "keepAlive"}, conn : {None}, token : {0}, what : {""}, req : {None}]
Attempts == [op : {"connect", "stop", "invalidate"}, conn : {None}, token : Nat, what : {""},
             req : {None}]
Completions == [op : {"connectDone"}, conn : Conns, token : Nat, what : {"connected", "failed"},
                req : {None}]
Answers == [op : {"verified"}, conn : Conns, token : Nat, what : {"verified", "refused"},
            req : {None}]
PeerOrders == [op : {"peerStart", "peerClose"}, conn : Conns, token : {0}, what : {""}, req : {None}]
Announcements == [op : {"announce"}, conn : Conns, token : Nat, what : {""}, req : {None}]
Forwards == [op : {"forward"}, conn : Conns, token : Nat, what : Signals, req : Requests \cup {None}]
Calls == [op : {"request", "timeout"}, conn : {None}, token : {0}, what : {""}, req : Requests]

IoEntries == UNION {Commands, Attempts, Completions, Answers, PeerOrders, Announcements,
                    Forwards, Calls}

Io(op) == {t \in IoEntries : t.op = op}
Scheduled == {e \in DqEntries : e.op # "signal"}
Beyond(g) == {e \in DqEntries \cup IoEntries : e.token > g}

\* About a connection.
DqAbout(c) == {e \in DqEntries : e.conn = c}
Handlers(op, c) == {t \in IoEntries : t.op = op /\ t.conn = c}
Attempting(c) == {t \in IoEntries : t.op \in {"connectDone", "verified"} /\ t.conn = c}
Verifies(c) == {e \in DqEntries : e.op = "verify" /\ e.conn = c}
OfPeer(c) == {t \in IoEntries : t.op \in {"peerStart", "peerClose", "announce", "forward"}
                               /\ t.conn = c}
Words(c) == {e \in DqEntries : e.op \in {"signal", "note"} /\ e.conn = c}
SignalsOf(c) == {e \in DqEntries : e.op = "signal" /\ e.conn = c}
EndsOf(c) == {e \in SignalsOf(c) : e.what = "closed"}
EndsForwarded(c) == {t \in Handlers("forward", c) : t.what = "closed"}

\* Of the client's life.
Enders == {t \in IoEntries : t.op \in {"stop", "shutdown"}}
Lasting == {t \in IoEntries : t.op \in {"keepAlive", "peerClose", "timeout"}}

-----------------------------------------------------------------------------

DqTyped == dq \in Seq(DqEntries) /\ ~Has(dq, Beyond(generation))
IoTyped == ioq \in Seq(IoEntries) /\ ~Has(ioq, Beyond(generation))
ScopeTyped ==
    /\ validPath \in BOOLEAN
    /\ running \in BOOLEAN /\ attached \in BOOLEAN /\ reconnect \in BOOLEAN
    /\ generation \in Nat
    /\ dpc \in {"idle", "stop", "invalidate", "shutdown"}
    /\ app \in Conns \cup {None}
    /\ life \in {"live", "closing", "releasing", "destroyed"}
    /\ left \in [{"calls", "reads"} -> Nat]
ConnTyped ==
    /\ connecting \in Conns \cup {None} /\ peer \in Conns \cup {None}
    /\ sock \in [Conns -> SockStates]
    /\ session \in [Conns -> 0..generation]
RequestTyped ==
    /\ pending \subseteq Requests /\ IsFiniteSet(pending)
    /\ request \in [Requests -> RequestStates]
    /\ requestToken \in [Requests -> 0..generation]
    /\ requestConn \in [Requests -> Conns \cup {None}]

Typed == DqTyped /\ IoTyped /\ ScopeTyped /\ ConnTyped /\ RequestTyped

\* The life of the client: what async_shutdown, its handlers and stop leave behind.
Ordered ==
    /\ attached => life = "live" /\ ~Has(ioq, Io("shutdown")) /\ dpc # "shutdown"
    /\ ~attached => ~Has(dq, Scheduled) /\ ~reconnect /\ dpc \notin {"stop", "invalidate"}
    /\ dpc = "shutdown" => life = "live" /\ ~Has(ioq, Io("shutdown"))
    /\ ~attached /\ dpc = "idle" => ~running
    /\ NotBefore(ioq, Io("shutdown"), Io("shutdown"))
    /\ life # "live" => ~Has(ioq, Io("shutdown")) /\ connecting = None /\ peer = None
    /\ life = "live" => ~Has(ioq, Io("keepAlive"))
    /\ NotBefore(ioq, Io("keepAlive"), Lasting)
    /\ life \in {"releasing", "destroyed"} => ~Has(ioq, Lasting)
    /\ life = "destroyed" => \A c \in Conns : sock[c] # "connecting" /\ ~Has(ioq, Attempting(c))
    /\ ~running /\ (peer # None \/ connecting # None) =>
         dpc \in {"stop", "shutdown"} \/ Has(ioq, Enders)

\* A connection from its attempt, which is one entry after another,
Waiting(c) == Has(ioq, Attempting(c)) \/ Has(dq, Verifies(c))
Young(c) == connecting = c \/ sock[c] \in {"free", "connecting", "closed"} \/ Waiting(c)
Begun(c) ==
    /\ sock[c] \in {"free", "connecting"} => ~Waiting(c)
    /\ Waiting(c) => sock[c] \in {"done", "closed"}
    /\ Waiting(c) /\ connecting = c => sock[c] = "done"
    /\ NotBefore(ioq, Attempting(c), Attempting(c))
    /\ NotBefore(dq, Verifies(c), Verifies(c))
    /\ ~(Has(ioq, Attempting(c)) /\ Has(dq, Verifies(c)))
    /\ connecting = c => sock[c] \in {"connecting", "done", "closed"}
    /\ Young(c) => ~Has(ioq, OfPeer(c)) /\ ~Has(dq, Words(c)) /\ peer # c
\* by its peer, which starts before it closes,
Started(c) ==
    /\ Has(ioq, Handlers("peerStart", c)) => sock[c] = "done"
    /\ NotBefore(ioq, Handlers("peerStart", c), Handlers("peerStart", c))
    /\ NotBefore(ioq, Handlers("peerClose", c), Handlers("peerStart", c))
    /\ Has(ioq, EndsForwarded(c)) \/ Has(dq, EndsOf(c)) => sock[c] = "ended"
    /\ Has(ioq, Handlers("forward", c)) \/ Has(dq, SignalsOf(c)) => sock[c] \in {"open", "ended"}
\* to its end, which is on its way when nobody has the connection.
Kept(c) ==
    /\ sock[c] = "done" => \/ c \in {connecting, peer}
                           \/ Has(ioq, Handlers("peerClose", c)) \/ Has(ioq, Attempting(c))
    /\ sock[c] = "open" => c = peer \/ Has(ioq, Handlers("peerClose", c))
Tracked(c) == Begun(c) /\ Started(c) /\ Kept(c)

Tracks == (\A c \in Conns : Tracked(c)) /\ (connecting # None => peer = None)

-----------------------------------------------------------------------------
\* The entries that the actions make.

LEMMA Names == None \notin Conns /\ None \notin Requests
BY ClientAssumption

\* Entries for the dispatcher.
LEMMA DqMade ==
    /\ \A op \in {"start", "stop", "invalidate", "cancel", "debounce"} : Do(op) \in DqEntries
    /\ \A n \in Nat : \A w \in {"connect_failed", "verification_failed", "reconnect"} :
         Note(w, None, n) \in DqEntries
    /\ \A n \in Nat, c \in Conns :
         /\ \A w \in {"connected", "received", "error", "closed"} : Note(w, c, n) \in DqEntries
         /\ Conn("verify", c, n, "") \in DqEntries
    /\ \A c \in Conns, r \in Requests \cup {None}, w \in Signals : Signal(w, c, r) \in DqEntries
    /\ \A r \in Requests : Request("callback", r) \in DqEntries
BY DEF DqEntries, Orders, AttemptNotes, PeerNotes, Verifications, PeerSignals, CallBacks,
       Do, Note, Conn, Signal, Request, Entry

\* Handlers for the I/O thread.
LEMMA IoMade ==
    /\ \A op \in {"shutdown", "keepAlive"} : Do(op) \in IoEntries
    /\ \A n \in Nat : \A op \in {"connect", "stop", "invalidate"} :
         Conn(op, None, n, "") \in IoEntries
    /\ \A n \in Nat, c \in Conns :
         /\ \A w \in {"connected", "failed"} : Conn("connectDone", c, n, w) \in IoEntries
         /\ \A w \in {"verified", "refused"} : Conn("verified", c, n, w) \in IoEntries
         /\ Conn("announce", c, n, "") \in IoEntries
         /\ \A w \in Signals, r \in Requests \cup {None} : Entry("forward", c, n, w, r) \in IoEntries
    /\ \A c \in Conns : \A op \in {"peerStart", "peerClose"} : Conn(op, c, 0, "") \in IoEntries
    /\ \A r \in Requests : \A op \in {"request", "timeout"} : Request(op, r) \in IoEntries
BY DEF IoEntries, Commands, Attempts, Completions, Answers, PeerOrders, Announcements, Forwards,
       Calls, Do, Conn, Request, Entry

\* What an entry is, by its operation.
LEMMA DqRead ==
    ASSUME NEW e \in DqEntries
    PROVE  /\ e.token \in Nat /\ e.conn \in Conns \cup {None} /\ e.req \in Requests \cup {None}
           /\ e.op \in {"start", "stop", "invalidate", "cancel", "debounce", "note", "verify",
                        "signal", "callback"}
           /\ e.op = "note" => /\ e.what \in Notes
                               /\ e.what \in {"connected", "received", "error", "closed"} => e.conn \in Conns
                               /\ e.what \notin {"connected", "received", "error", "closed"} => e.conn = None
           /\ e.op \notin {"note", "verify"} => e.token = 0
           /\ e.op \in {"verify", "signal"} => e.conn \in Conns
           /\ e.op \notin {"verify", "signal", "note"} => e.conn = None
           /\ e.op = "signal" => e.what \in Signals
           /\ e.op = "callback" => e.req \in Requests
<1>1. CASE e \in Orders
  <2>1. e.op \in {"start", "stop", "invalidate", "cancel", "debounce"} /\ e.conn = None /\ e.token = 0 /\ e.req = None
    BY <1>1 DEF Orders
  <2>2. QED
    BY <2>1, Names
<1>2. CASE e \in AttemptNotes
  BY <1>2, Names DEF AttemptNotes, Notes
<1>3. CASE e \in PeerNotes
  BY <1>3, Names DEF PeerNotes, Notes
<1>4. CASE e \in Verifications
  BY <1>4, Names DEF Verifications
<1>5. CASE e \in PeerSignals
  BY <1>5, Names DEF PeerSignals
<1>6. CASE e \in CallBacks
  <2>1. e.op = "callback" /\ e.conn = None /\ e.token = 0 /\ e.req \in Requests
    BY <1>6 DEF CallBacks
  <2>2. QED
    BY <2>1, Names
<1>7. QED
  BY <1>1, <1>2, <1>3, <1>4, <1>5, <1>6 DEF DqEntries

LEMMA IoRead ==
    ASSUME NEW t \in IoEntries
    PROVE  /\ t.token \in Nat /\ t.conn \in Conns \cup {None} /\ t.req \in Requests \cup {None}
           /\ t.op \in {"shutdown", "keepAlive", "connect", "stop", "invalidate", "connectDone",
                        "verified", "peerStart", "peerClose", "announce", "forward", "request", "timeout"}
           /\ t.op \in {"connectDone", "verified", "peerStart", "peerClose", "announce", "forward"} =>
                t.conn \in Conns
           /\ t.op \in {"shutdown", "keepAlive", "connect", "stop", "invalidate", "request", "timeout"} =>
                t.conn = None
           /\ t.op = "connectDone" => t.what \in {"connected", "failed"}
           /\ t.op = "verified" => t.what \in {"verified", "refused"}
           /\ t.op = "forward" => t.what \in Signals
           /\ t.op \in {"request", "timeout"} => t.req \in Requests
           /\ t.op \notin {"note", "signal", "verify", "callback"}
<1>1. CASE t \in Commands
  <2>1. t.op \in {"shutdown", "keepAlive"} /\ t.conn = None /\ t.token = 0 /\ t.req = None
    BY <1>1 DEF Commands
  <2>2. QED
    BY <2>1, Names
<1>2. CASE t \in Attempts
  BY <1>2, Names DEF Attempts
<1>3. CASE t \in Completions
  BY <1>3, Names DEF Completions
<1>4. CASE t \in Answers
  BY <1>4, Names DEF Answers
<1>5. CASE t \in PeerOrders
  <2>1. t.op \in {"peerStart", "peerClose"} /\ t.conn \in Conns /\ t.token = 0 /\ t.req = None
    BY <1>5 DEF PeerOrders
  <2>2. QED
    BY <2>1, Names
<1>6. CASE t \in Announcements
  BY <1>6, Names DEF Announcements
<1>7. CASE t \in Forwards
  BY <1>7, Names DEF Forwards
<1>8. CASE t \in Calls
  <2>1. t.op \in {"request", "timeout"} /\ t.conn = None /\ t.token = 0 /\ t.req \in Requests
    BY <1>8 DEF Calls
  <2>2. QED
    BY <2>1, Names
<1>9. QED
  BY <1>1, <1>2, <1>3, <1>4, <1>5, <1>6, <1>7, <1>8 DEF IoEntries

LEMMA NextGeneration ==
    ASSUME NEW g \in Nat, NEW S, NEW q \in Seq(S), ~Has(q, Beyond(g))
    PROVE  ~Has(q, Beyond(g + 1))
<1>1. \A e \in DqEntries \cup IoEntries : e.token \in Nat
  BY DqRead, IoRead
<1>2. (Beyond(g + 1) \cap S) \subseteq Beyond(g)
  BY <1>1 DEF Beyond
<1>3. QED
  BY <1>2, Widened

\* Of what the queues hold.
LEMMA Heads ==
    ASSUME Typed
    PROVE  /\ dq # <<>> => E \in DqEntries /\ E.token \in 0..generation
           /\ ioq # <<>> => H \in IoEntries /\ H.token \in 0..generation
<1>1. generation \in Nat
  BY DEF Typed, ScopeTyped
<1>2. ASSUME dq # <<>>
      PROVE  E \in DqEntries /\ E.token \in 0..generation
  <2>1. E \in DqEntries /\ E \notin Beyond(generation)
    BY <1>2, TakenHas, Made DEF Typed, DqTyped, E
  <2>2. E.token \in Nat
    BY <2>1, DqRead
  <2>3. QED
    BY <1>1, <2>1, <2>2 DEF Beyond
<1>3. ASSUME ioq # <<>>
      PROVE  H \in IoEntries /\ H.token \in 0..generation
  <2>1. H \in IoEntries /\ H \notin Beyond(generation)
    BY <1>3, TakenHas, Made DEF Typed, IoTyped, H
  <2>2. H.token \in Nat
    BY <2>1, IoRead
  <2>3. QED
    BY <1>1, <2>1, <2>2 DEF Beyond
<1>4. QED
  BY <1>2, <1>3

LEMMA NotBeyond ==
    ASSUME NEW g \in Nat, NEW h \in {g, g + 1}, NEW S \in SUBSET (DqEntries \cup IoEntries),
           NEW q \in Seq(S), ~Has(q, Beyond(g)), NEW D \in SUBSET S,
           \A e \in D : e.token \in 0..h, NEW x \in Seq(D), NEW r,
           \A A : Has(r, A) => Has(q, A) \/ Has(x, A)
    PROVE  ~Has(r, Beyond(h))
<1>1. ~Has(q, Beyond(h))
  BY NextGeneration
<1>2. D \cap Beyond(h) = {}
  <2>1. ASSUME NEW e \in D, e \in Beyond(h)
        PROVE  FALSE
    BY <2>1 DEF Beyond
  <2>2. QED
    BY <2>1
<1>3. ~Has(x, Beyond(h))
  BY <1>2 DEF Has
<1>4. QED
  BY <1>1, <1>3

LEMMA DqStays ==
    ASSUME Typed, generation' \in {generation, generation + 1}, dq' = dq
    PROVE  DqTyped'
<1>1. generation \in Nat /\ dq \in Seq(DqEntries) /\ ~Has(dq, Beyond(generation))
  BY DEF Typed, DqTyped, ScopeTyped
<1>2. ~Has(dq, Beyond(generation'))
  BY <1>1, NextGeneration
<1>3. QED
  BY <1>1, <1>2 DEF DqTyped, Beyond

LEMMA DqMoves ==
    ASSUME Typed, generation' \in {generation, generation + 1},
           NEW D \in SUBSET DqEntries, \A e \in D : e.token \in 0..generation',
           \/ dq' = dq
           \/ \E x \in Seq(D) :
                (dq' = dq \o x) \/ (dq # <<>> /\ E \in D /\ dq' = Tail(dq) \o x)
    PROVE  DqTyped' /\ Spares(dq, dq', D)
<1>1. generation \in Nat /\ dq \in Seq(DqEntries) /\ ~Has(dq, Beyond(generation))
  BY DEF Typed, DqTyped, ScopeTyped
<1>2. CASE dq' = dq
  BY <1>2, DqStays, SparesAll
<1>3. ASSUME NEW x \in Seq(D),
             (dq' = dq \o x) \/ (dq # <<>> /\ E \in D /\ dq' = Tail(dq) \o x)
      PROVE  DqTyped' /\ Spares(dq, dq', D)
  <2>1. /\ dq' \in Seq(DqEntries) /\ Spares(dq, dq', D)
        /\ \A A : Has(dq', A) => Has(dq, A) \/ Has(x, A)
    BY <1>1, <1>3, Moves DEF E
  <2>2. ~Has(dq', Beyond(generation'))
    BY <1>1, <2>1, NotBeyond
  <2>3. Beyond(generation') = Beyond(generation)'
    BY DEF Beyond
  <2>4. QED
    BY <2>1, <2>2, <2>3 DEF DqTyped
<1>4. QED
  BY <1>2, <1>3

LEMMA IoStays ==
    ASSUME Typed, generation' \in {generation, generation + 1}, ioq' = ioq
    PROVE  IoTyped'
<1>1. generation \in Nat /\ ioq \in Seq(IoEntries) /\ ~Has(ioq, Beyond(generation))
  BY DEF Typed, IoTyped, ScopeTyped
<1>2. ~Has(ioq, Beyond(generation'))
  BY <1>1, NextGeneration
<1>3. QED
  BY <1>1, <1>2 DEF IoTyped, Beyond

LEMMA IoMoves ==
    ASSUME Typed, generation' \in {generation, generation + 1},
           NEW D \in SUBSET IoEntries, \A e \in D : e.token \in 0..generation',
           \/ ioq' = ioq
           \/ \E x \in Seq(D) :
                (ioq' = ioq \o x) \/ (ioq # <<>> /\ H \in D /\ ioq' = Tail(ioq) \o x)
    PROVE  IoTyped' /\ Spares(ioq, ioq', D)
<1>1. generation \in Nat /\ ioq \in Seq(IoEntries) /\ ~Has(ioq, Beyond(generation))
  BY DEF Typed, IoTyped, ScopeTyped
<1>2. CASE ioq' = ioq
  BY <1>2, IoStays, SparesAll
<1>3. ASSUME NEW x \in Seq(D),
             (ioq' = ioq \o x) \/ (ioq # <<>> /\ H \in D /\ ioq' = Tail(ioq) \o x)
      PROVE  IoTyped' /\ Spares(ioq, ioq', D)
  <2>1. /\ ioq' \in Seq(IoEntries) /\ Spares(ioq, ioq', D)
        /\ \A A : Has(ioq', A) => Has(ioq, A) \/ Has(x, A)
    BY <1>1, <1>3, Moves DEF H
  <2>2. ~Has(ioq', Beyond(generation'))
    BY <1>1, <2>1, NotBeyond
  <2>3. Beyond(generation') = Beyond(generation)'
    BY DEF Beyond
  <2>4. QED
    BY <2>1, <2>2, <2>3 DEF IoTyped
<1>4. QED
  BY <1>2, <1>3

\* What an action may say when it has nothing, one thing or two to say.
LEMMA Said ==
    ASSUME NEW D
    PROVE  /\ <<>> \in Seq(D)
           /\ \A e \in D : <<e>> \in Seq(D)
           /\ \A e, f \in D : <<e, f>> \in Seq(D)
OBVIOUS

LEMMA Numbers ==
    ASSUME Typed
    PROVE  /\ generation \in Nat /\ generation + 1 \in Nat
           /\ generation \in 0..generation /\ 0 \in 0..generation
           /\ generation + 1 \in 0..(generation + 1) /\ 0 \in 0..(generation + 1)
           /\ 0..generation \subseteq 0..(generation + 1) /\ 0..generation \subseteq Nat
           /\ \A c \in Conns : session[c] \in 0..generation
           /\ \A r \in Requests : requestToken[r] \in 0..generation
<1>1. /\ generation \in Nat /\ \A c \in Conns : session[c] \in 0..generation
      /\ \A r \in Requests : requestToken[r] \in 0..generation
  BY DEF Typed, ScopeTyped, ConnTyped, RequestTyped
<1>2. QED
  BY <1>1

LEMMA Spent ==
    ASSUME Typed
    PROVE  /\ left.calls > 0 => [left EXCEPT !.calls = @ - 1] \in [{"calls", "reads"} -> Nat]
           /\ left.reads > 0 => [left EXCEPT !.reads = @ - 1] \in [{"calls", "reads"} -> Nat]
BY DEF Typed, ScopeTyped

-----------------------------------------------------------------------------
\* What each action leaves: the types, and the entries that it is not about.

LEMMA CallTyped ==
    ASSUME Typed, NEW op \in {"start", "stop", "invalidate"}, Call(op)
    PROVE  /\ Typed'
           /\ Spares(dq, dq', {Do(op)})
<1>1. /\ generation' = generation /\ generation' \in {generation, generation + 1}
      /\ 0 \in 0..generation' /\ generation \in 0..generation'
      /\ left' \in [{"calls", "reads"} -> Nat]
  BY Numbers, Spent DEF Call, IoUnchanged, scopeVars, connVars, requestVars
<1>2. DqTyped' /\ Spares(dq, dq', {Do(op)})
  <2> DEFINE D == {Do(op)}
  <2>1. D \in SUBSET DqEntries
    BY <1>1, Numbers, DqMade
  <2>6. /\ Do(op).token = 0
    BY DEF Do, Request, Note, Signal, Conn, Entry
  <2>0. \A e \in D : e.token \in 0..generation'
    BY <1>1, Numbers, <2>6
  <2>5. \A e \in D : <<e>> \in Seq(D) /\ Append(dq, e) = dq \o <<e>>
    BY <2>1, Said, Plain DEF Typed, DqTyped
  <2>2. \/ dq' = dq
        \/ \E x \in Seq(D) :
             (dq' = dq \o x) \/ (dq # <<>> /\ E \in D /\ dq' = Tail(dq) \o x)
    BY <1>1, <2>5, Said, Plain DEF Call, IoUnchanged, scopeVars, connVars, requestVars
  <2> HIDE DEF D
  <2>3. DqTyped' /\ Spares(dq, dq', D)
    BY <1>1, <2>0, <2>1, <2>2, DqMoves
  <2>4. QED
    BY <2>3 DEF D
<1>3. IoTyped'
  BY <1>1, IoStays DEF Call, IoUnchanged, scopeVars, connVars, requestVars
<1>4. ScopeTyped' /\ ConnTyped' /\ RequestTyped'
  BY <1>1, Numbers DEF Typed, ScopeTyped, ConnTyped, RequestTyped, Call, IoUnchanged, scopeVars, connVars, requestVars
<1>5. QED
  BY <1>2, <1>3, <1>4 DEF Typed

LEMMA AsyncRequestTyped ==
    ASSUME Typed, NEW r \in Requests, AsyncRequest(r)
    PROVE  /\ Typed'
           /\ Spares(ioq, ioq', {Request("request", r)})
<1>1. /\ generation' = generation /\ generation' \in {generation, generation + 1}
      /\ 0 \in 0..generation' /\ generation \in 0..generation'
  BY Numbers, Heads, Names DEF AsyncRequest, IoUnchanged, scopeVars, connVars, requestVars
<1>2. DqTyped'
  BY <1>1, DqStays DEF AsyncRequest, IoUnchanged, scopeVars, connVars, requestVars
<1>3. IoTyped' /\ Spares(ioq, ioq', {Request("request", r)})
  <2> DEFINE D == {Request("request", r)}
  <2>1. D \in SUBSET IoEntries
    BY <1>1, Numbers, IoMade
  <2>6. /\ Request("request", r).token = 0
    BY DEF Do, Request, Note, Signal, Conn, Entry
  <2>0. \A e \in D : e.token \in 0..generation'
    BY <1>1, Numbers, <2>6
  <2>5. \A e \in D : <<e>> \in Seq(D) /\ Append(ioq, e) = ioq \o <<e>>
    BY <2>1, Said, Plain DEF Typed, IoTyped
  <2>2. \/ ioq' = ioq
        \/ \E x \in Seq(D) :
             (ioq' = ioq \o x) \/ (ioq # <<>> /\ H \in D /\ ioq' = Tail(ioq) \o x)
    BY <1>1, <2>5, Said, Plain DEF AsyncRequest, IoUnchanged, scopeVars, connVars, requestVars, Post
  <2> HIDE DEF D
  <2>3. IoTyped' /\ Spares(ioq, ioq', D)
    BY <1>1, <2>0, <2>1, <2>2, IoMoves
  <2>4. QED
    BY <2>3 DEF D
<1>4. ScopeTyped' /\ ConnTyped' /\ RequestTyped'
  BY <1>1, Numbers DEF Typed, ScopeTyped, ConnTyped, RequestTyped, AsyncRequest, IoUnchanged, scopeVars, connVars, requestVars, RequestStates
<1>5. QED
  BY <1>2, <1>3, <1>4 DEF Typed

LEMMA StartTyped ==
    ASSUME Typed, Start
    PROVE  /\ Typed'
           /\ Spares(dq, dq', {E})
           /\ Spares(ioq, ioq', {Conn("connect", None, generation, "")})
<1>1. /\ generation' = generation /\ generation' \in {generation, generation + 1}
      /\ 0 \in 0..generation' /\ generation \in 0..generation'
      /\ E \in DqEntries
      /\ E.token \in 0..generation
  BY Numbers, Heads, Names DEF Start, IoUnchanged, scopeVars, connVars, requestVars, Dispatching
<1>2. DqTyped' /\ Spares(dq, dq', {E})
  <2> DEFINE D == {E}
  <2>1. D \in SUBSET DqEntries
    BY <1>1, Numbers, DqMade
  <2>0. \A e \in D : e.token \in 0..generation'
    BY <1>1, Numbers
  <2>5. \A e \in D : <<e>> \in Seq(D) /\ Append(dq, e) = dq \o <<e>>
    BY <2>1, Said, Plain DEF Typed, DqTyped
  <2>2. \/ dq' = dq
        \/ \E x \in Seq(D) :
             (dq' = dq \o x) \/ (dq # <<>> /\ E \in D /\ dq' = Tail(dq) \o x)
    BY <1>1, <2>5, Said, Plain DEF Start, IoUnchanged, scopeVars, connVars, requestVars, Dispatching, Dispatched, Post
  <2> HIDE DEF D
  <2>3. DqTyped' /\ Spares(dq, dq', D)
    BY <1>1, <2>0, <2>1, <2>2, DqMoves
  <2>4. QED
    BY <2>3 DEF D
<1>3. IoTyped' /\ Spares(ioq, ioq', {Conn("connect", None, generation, "")})
  <2> DEFINE D == {Conn("connect", None, generation, "")}
  <2>1. D \in SUBSET IoEntries
    BY <1>1, Numbers, IoMade
  <2>6. /\ Conn("connect", None, generation, "").token = generation
    BY DEF Do, Request, Note, Signal, Conn, Entry
  <2>0. \A e \in D : e.token \in 0..generation'
    BY <1>1, Numbers, <2>6
  <2>5. \A e \in D : <<e>> \in Seq(D) /\ Append(ioq, e) = ioq \o <<e>>
    BY <2>1, Said, Plain DEF Typed, IoTyped
  <2>2. \/ ioq' = ioq
        \/ \E x \in Seq(D) :
             (ioq' = ioq \o x) \/ (ioq # <<>> /\ H \in D /\ ioq' = Tail(ioq) \o x)
    BY <1>1, <2>5, Said, Plain DEF Start, IoUnchanged, scopeVars, connVars, requestVars, Dispatching, Dispatched, Post
  <2> HIDE DEF D
  <2>3. IoTyped' /\ Spares(ioq, ioq', D)
    BY <1>1, <2>0, <2>1, <2>2, IoMoves
  <2>4. QED
    BY <2>3 DEF D
<1>4. ScopeTyped' /\ ConnTyped' /\ RequestTyped'
  BY <1>1, Numbers DEF Typed, ScopeTyped, ConnTyped, RequestTyped, Start, IoUnchanged, scopeVars, connVars, requestVars
<1>5. QED
  BY <1>2, <1>3, <1>4 DEF Typed

LEMMA EndSessionTyped ==
    ASSUME Typed, NEW op \in {"stop", "invalidate"}, EndSession(op)
    PROVE  /\ Typed'
           /\ Spares(dq, dq', {E})
<1>1. /\ generation' = generation + 1 /\ generation' \in {generation, generation + 1}
      /\ 0 \in 0..generation' /\ generation \in 0..generation'
      /\ E \in DqEntries
      /\ E.token \in 0..generation
      /\ E.token \in 0..generation'
  BY Numbers, Heads, Names DEF EndSession, IoUnchanged, scopeVars, connVars, requestVars, Dispatching
<1>2. DqTyped' /\ Spares(dq, dq', {E})
  <2> DEFINE D == {E}
  <2>1. D \in SUBSET DqEntries
    BY <1>1, Numbers, DqMade
  <2>0. \A e \in D : e.token \in 0..generation'
    BY <1>1, Numbers
  <2>5. \A e \in D : <<e>> \in Seq(D) /\ Append(dq, e) = dq \o <<e>>
    BY <2>1, Said, Plain DEF Typed, DqTyped
  <2>2. \/ dq' = dq
        \/ \E x \in Seq(D) :
             (dq' = dq \o x) \/ (dq # <<>> /\ E \in D /\ dq' = Tail(dq) \o x)
    BY <1>1, <2>5, Said, Plain DEF EndSession, IoUnchanged, scopeVars, connVars, requestVars, Dispatching, Dispatched, Post
  <2> HIDE DEF D
  <2>3. DqTyped' /\ Spares(dq, dq', D)
    BY <1>1, <2>0, <2>1, <2>2, DqMoves
  <2>4. QED
    BY <2>3 DEF D
<1>3. IoTyped'
  BY <1>1, IoStays DEF EndSession, IoUnchanged, scopeVars, connVars, requestVars
<1>4. ScopeTyped' /\ ConnTyped' /\ RequestTyped'
  BY <1>1, Numbers DEF Typed, ScopeTyped, ConnTyped, RequestTyped, EndSession, IoUnchanged, scopeVars, connVars, requestVars
<1>5. QED
  BY <1>2, <1>3, <1>4 DEF Typed

LEMMA PostEndOfSessionTyped ==
    ASSUME Typed, PostEndOfSession
    PROVE  /\ Typed'
           /\ Spares(dq, dq', {Do("cancel")})
           /\ Spares(ioq, ioq', {Conn(dpc, None, generation, "")})
<1>1. /\ generation' = generation /\ generation' \in {generation, generation + 1}
      /\ 0 \in 0..generation' /\ generation \in 0..generation'
      /\ dpc \in {"stop", "invalidate"}
  BY Numbers, Heads, Names DEF PostEndOfSession, IoUnchanged, scopeVars, connVars, requestVars
<1>2. DqTyped' /\ Spares(dq, dq', {Do("cancel")})
  <2> DEFINE D == {Do("cancel")}
  <2>1. D \in SUBSET DqEntries
    BY <1>1, Numbers, DqMade
  <2>6. /\ Do("cancel").token = 0
    BY DEF Do, Request, Note, Signal, Conn, Entry
  <2>0. \A e \in D : e.token \in 0..generation'
    BY <1>1, Numbers, <2>6
  <2>5. \A e \in D : <<e>> \in Seq(D) /\ Append(dq, e) = dq \o <<e>>
    BY <2>1, Said, Plain DEF Typed, DqTyped
  <2>2. \/ dq' = dq
        \/ \E x \in Seq(D) :
             (dq' = dq \o x) \/ (dq # <<>> /\ E \in D /\ dq' = Tail(dq) \o x)
    BY <1>1, <2>5, Said, Plain DEF PostEndOfSession, IoUnchanged, scopeVars, connVars, requestVars, Enqueue, Do
  <2> HIDE DEF D
  <2>3. DqTyped' /\ Spares(dq, dq', D)
    BY <1>1, <2>0, <2>1, <2>2, DqMoves
  <2>4. QED
    BY <2>3 DEF D
<1>3. IoTyped' /\ Spares(ioq, ioq', {Conn(dpc, None, generation, "")})
  <2> DEFINE D == {Conn(dpc, None, generation, "")}
  <2>1. D \in SUBSET IoEntries
    BY <1>1, Numbers, IoMade
  <2>6. /\ Conn(dpc, None, generation, "").token = generation
    BY DEF Do, Request, Note, Signal, Conn, Entry
  <2>0. \A e \in D : e.token \in 0..generation'
    BY <1>1, Numbers, <2>6
  <2>5. \A e \in D : <<e>> \in Seq(D) /\ Append(ioq, e) = ioq \o <<e>>
    BY <2>1, Said, Plain DEF Typed, IoTyped
  <2>2. \/ ioq' = ioq
        \/ \E x \in Seq(D) :
             (ioq' = ioq \o x) \/ (ioq # <<>> /\ H \in D /\ ioq' = Tail(ioq) \o x)
    BY <1>1, <2>5, Said, Plain DEF PostEndOfSession, IoUnchanged, scopeVars, connVars, requestVars, Post
  <2> HIDE DEF D
  <2>3. IoTyped' /\ Spares(ioq, ioq', D)
    BY <1>1, <2>0, <2>1, <2>2, IoMoves
  <2>4. QED
    BY <2>3 DEF D
<1>4. ScopeTyped' /\ ConnTyped' /\ RequestTyped'
  BY <1>1, Numbers DEF Typed, ScopeTyped, ConnTyped, RequestTyped, PostEndOfSession, IoUnchanged, scopeVars, connVars, requestVars
<1>5. QED
  BY <1>2, <1>3, <1>4 DEF Typed

LEMMA NotifyTyped ==
    ASSUME Typed, Notify
    PROVE  /\ Typed'
           /\ Spares(dq, dq', {E, Do("debounce")})
<1>0. dq # <<>> /\ E \in DqEntries /\ E.token \in 0..generation /\ E.op \in {"note"}
  BY Heads DEF Notify, Dispatching, Running, E, H
<1>1. /\ generation' = generation /\ generation' \in {generation, generation + 1}
      /\ 0 \in 0..generation' /\ generation \in 0..generation'
      /\ E \in DqEntries
      /\ E.token \in 0..generation
      /\ E.what = "connected" => E.conn \in Conns
  BY <1>0, Numbers, DqRead DEF Notify, IoUnchanged, scopeVars, connVars, requestVars, Dispatching
<1>2. DqTyped' /\ Spares(dq, dq', {E, Do("debounce")})
  <2> DEFINE D == {E, Do("debounce")}
  <2>1. D \in SUBSET DqEntries
    BY <1>1, Numbers, DqMade
  <2>6. /\ Do("debounce").token = 0
    BY DEF Do, Request, Note, Signal, Conn, Entry
  <2>0. \A e \in D : e.token \in 0..generation'
    BY <1>1, Numbers, <2>6
  <2>5. \A e \in D : <<e>> \in Seq(D) /\ Append(dq, e) = dq \o <<e>>
    BY <2>1, Said, Plain DEF Typed, DqTyped
  <2>2. \/ dq' = dq
        \/ \E x \in Seq(D) :
             (dq' = dq \o x) \/ (dq # <<>> /\ E \in D /\ dq' = Tail(dq) \o x)
    BY <1>1, <2>5, Said, Plain DEF Notify, IoUnchanged, scopeVars, connVars, requestVars, Dispatching, Dispatched, Post
  <2> HIDE DEF D
  <2>3. DqTyped' /\ Spares(dq, dq', D)
    BY <1>1, <2>0, <2>1, <2>2, DqMoves
  <2>4. QED
    BY <2>3 DEF D
<1>3. IoTyped'
  BY <1>1, IoStays DEF Notify, IoUnchanged, scopeVars, connVars, requestVars
<1>4. ScopeTyped' /\ ConnTyped' /\ RequestTyped'
  BY <1>1, Numbers DEF Typed, ScopeTyped, ConnTyped, RequestTyped, Notify, IoUnchanged, scopeVars, connVars, requestVars, Dispatching
<1>5. QED
  BY <1>2, <1>3, <1>4 DEF Typed

LEMMA VerifyTyped ==
    ASSUME Typed, Verify
    PROVE  /\ Typed'
           /\ Spares(dq, dq', {E})
           /\ Spares(ioq, ioq', {Conn("verified", E.conn, E.token, "verified"), Conn("verified", E.conn, E.token, "refused")})
<1>0. dq # <<>> /\ E \in DqEntries /\ E.token \in 0..generation /\ E.op \in {"verify"}
  BY Heads DEF Verify, Dispatching, Running, E, H
<1>1. /\ generation' = generation /\ generation' \in {generation, generation + 1}
      /\ 0 \in 0..generation' /\ generation \in 0..generation'
      /\ E \in DqEntries
      /\ E.token \in 0..generation
      /\ E.conn \in Conns
  BY <1>0, Numbers, DqRead DEF Verify, IoUnchanged, scopeVars, connVars, requestVars, Dispatching
<1>2. DqTyped' /\ Spares(dq, dq', {E})
  <2> DEFINE D == {E}
  <2>1. D \in SUBSET DqEntries
    BY <1>1, Numbers, DqMade
  <2>0. \A e \in D : e.token \in 0..generation'
    BY <1>1, Numbers
  <2>5. \A e \in D : <<e>> \in Seq(D) /\ Append(dq, e) = dq \o <<e>>
    BY <2>1, Said, Plain DEF Typed, DqTyped
  <2>2. \/ dq' = dq
        \/ \E x \in Seq(D) :
             (dq' = dq \o x) \/ (dq # <<>> /\ E \in D /\ dq' = Tail(dq) \o x)
    BY <1>1, <2>5, Said, Plain DEF Verify, IoUnchanged, scopeVars, connVars, requestVars, Dispatching, Dispatched, Post
  <2> HIDE DEF D
  <2>3. DqTyped' /\ Spares(dq, dq', D)
    BY <1>1, <2>0, <2>1, <2>2, DqMoves
  <2>4. QED
    BY <2>3 DEF D
<1>3. IoTyped' /\ Spares(ioq, ioq', {Conn("verified", E.conn, E.token, "verified"), Conn("verified", E.conn, E.token, "refused")})
  <2> DEFINE D == {Conn("verified", E.conn, E.token, "verified"), Conn("verified", E.conn, E.token, "refused")}
  <2>1. D \in SUBSET IoEntries
    BY <1>1, Numbers, IoMade
  <2>6. /\ Conn("verified", E.conn, E.token, "verified").token = E.token
        /\ Conn("verified", E.conn, E.token, "refused").token = E.token
    BY DEF Do, Request, Note, Signal, Conn, Entry
  <2>0. \A e \in D : e.token \in 0..generation'
    BY <1>1, Numbers, <2>6
  <2>5. \A e \in D : <<e>> \in Seq(D) /\ Append(ioq, e) = ioq \o <<e>>
    BY <2>1, Said, Plain DEF Typed, IoTyped
  <2>2. \/ ioq' = ioq
        \/ \E x \in Seq(D) :
             (ioq' = ioq \o x) \/ (ioq # <<>> /\ H \in D /\ ioq' = Tail(ioq) \o x)
    BY <1>1, <2>5, Said, Plain DEF Verify, IoUnchanged, scopeVars, connVars, requestVars, Dispatching, Dispatched, Post
  <2> HIDE DEF D
  <2>3. IoTyped' /\ Spares(ioq, ioq', D)
    BY <1>1, <2>0, <2>1, <2>2, IoMoves
  <2>4. QED
    BY <2>3 DEF D
<1>4. ScopeTyped' /\ ConnTyped' /\ RequestTyped'
  BY <1>1, Numbers DEF Typed, ScopeTyped, ConnTyped, RequestTyped, Verify, IoUnchanged, scopeVars, connVars, requestVars
<1>5. QED
  BY <1>2, <1>3, <1>4 DEF Typed

LEMMA DispatchSignalTyped ==
    ASSUME Typed, DispatchSignal
    PROVE  /\ Typed'
           /\ Spares(dq, dq', {E})
           /\ Spares(ioq, ioq', {Entry("forward", E.conn, session[E.conn], E.what, E.req)})
<1>0. dq # <<>> /\ E \in DqEntries /\ E.token \in 0..generation /\ E.op \in {"signal"}
  BY Heads DEF DispatchSignal, Dispatching, Running, E, H
<1>1. /\ generation' = generation /\ generation' \in {generation, generation + 1}
      /\ 0 \in 0..generation' /\ generation \in 0..generation'
      /\ E \in DqEntries
      /\ E.token \in 0..generation
      /\ E.conn \in Conns /\ E.what \in Signals /\ E.req \in Requests \cup {None}
      /\ session[E.conn] \in 0..generation /\ session[E.conn] \in Nat
  BY <1>0, Numbers, DqRead DEF DispatchSignal, IoUnchanged, scopeVars, connVars, requestVars, Dispatching
<1>2. DqTyped' /\ Spares(dq, dq', {E})
  <2> DEFINE D == {E}
  <2>1. D \in SUBSET DqEntries
    BY <1>1, Numbers, DqMade
  <2>0. \A e \in D : e.token \in 0..generation'
    BY <1>1, Numbers
  <2>5. \A e \in D : <<e>> \in Seq(D) /\ Append(dq, e) = dq \o <<e>>
    BY <2>1, Said, Plain DEF Typed, DqTyped
  <2>2. \/ dq' = dq
        \/ \E x \in Seq(D) :
             (dq' = dq \o x) \/ (dq # <<>> /\ E \in D /\ dq' = Tail(dq) \o x)
    BY <1>1, <2>5, Said, Plain DEF DispatchSignal, IoUnchanged, scopeVars, connVars, requestVars, Dispatching, Dispatched, Post
  <2> HIDE DEF D
  <2>3. DqTyped' /\ Spares(dq, dq', D)
    BY <1>1, <2>0, <2>1, <2>2, DqMoves
  <2>4. QED
    BY <2>3 DEF D
<1>3. IoTyped' /\ Spares(ioq, ioq', {Entry("forward", E.conn, session[E.conn], E.what, E.req)})
  <2> DEFINE D == {Entry("forward", E.conn, session[E.conn], E.what, E.req)}
  <2>1. D \in SUBSET IoEntries
    BY <1>1 DEF IoEntries, Forwards, Entry
  <2>6. /\ Entry("forward", E.conn, session[E.conn], E.what, E.req).token = session[E.conn]
    BY DEF Do, Request, Note, Signal, Conn, Entry
  <2>0. \A e \in D : e.token \in 0..generation'
    BY <1>1, Numbers, <2>6
  <2>5. \A e \in D : <<e>> \in Seq(D) /\ Append(ioq, e) = ioq \o <<e>>
    BY <2>1, Said, Plain DEF Typed, IoTyped
  <2>2. \/ ioq' = ioq
        \/ \E x \in Seq(D) :
             (ioq' = ioq \o x) \/ (ioq # <<>> /\ H \in D /\ ioq' = Tail(ioq) \o x)
    BY <1>1, <2>5, Said, Plain DEF DispatchSignal, IoUnchanged, scopeVars, connVars, requestVars, Dispatching, Dispatched, Post
  <2> HIDE DEF D
  <2>3. IoTyped' /\ Spares(ioq, ioq', D)
    BY <1>1, <2>0, <2>1, <2>2, IoMoves
  <2>4. QED
    BY <2>3 DEF D
<1>4. ScopeTyped' /\ ConnTyped' /\ RequestTyped'
  BY <1>1, Numbers DEF Typed, ScopeTyped, ConnTyped, RequestTyped, DispatchSignal, IoUnchanged, scopeVars, connVars, requestVars
<1>5. QED
  BY <1>2, <1>3, <1>4 DEF Typed

LEMMA DebounceTyped ==
    ASSUME Typed, Debounce
    PROVE  /\ Typed'
           /\ Spares(dq, dq', {E})
<1>1. /\ generation' = generation /\ generation' \in {generation, generation + 1}
      /\ 0 \in 0..generation' /\ generation \in 0..generation'
      /\ E \in DqEntries
      /\ E.token \in 0..generation
  BY Numbers, Heads, Names DEF Debounce, IoUnchanged, scopeVars, connVars, requestVars
<1>2. DqTyped' /\ Spares(dq, dq', {E})
  <2> DEFINE D == {E}
  <2>1. D \in SUBSET DqEntries
    BY <1>1, Numbers, DqMade
  <2>0. \A e \in D : e.token \in 0..generation'
    BY <1>1, Numbers
  <2>5. \A e \in D : <<e>> \in Seq(D) /\ Append(dq, e) = dq \o <<e>>
    BY <2>1, Said, Plain DEF Typed, DqTyped
  <2>2. \/ dq' = dq
        \/ \E x \in Seq(D) :
             (dq' = dq \o x) \/ (dq # <<>> /\ E \in D /\ dq' = Tail(dq) \o x)
    BY <1>1, <2>5, Said, Plain DEF Debounce, IoUnchanged, scopeVars, connVars, requestVars, Dispatching, Dispatched, Post
  <2> HIDE DEF D
  <2>3. DqTyped' /\ Spares(dq, dq', D)
    BY <1>1, <2>0, <2>1, <2>2, DqMoves
  <2>4. QED
    BY <2>3 DEF D
<1>3. IoTyped'
  BY <1>1, IoStays DEF Debounce, IoUnchanged, scopeVars, connVars, requestVars
<1>4. ScopeTyped' /\ ConnTyped' /\ RequestTyped'
  BY <1>1, Numbers DEF Typed, ScopeTyped, ConnTyped, RequestTyped, Debounce, IoUnchanged, scopeVars, connVars, requestVars
<1>5. QED
  BY <1>2, <1>3, <1>4 DEF Typed

LEMMA ReconnectTyped ==
    ASSUME Typed, Reconnect
    PROVE  /\ Typed'
           /\ Spares(ioq, ioq', {Conn("connect", None, generation, "")})
<1>1. /\ generation' = generation /\ generation' \in {generation, generation + 1}
      /\ 0 \in 0..generation' /\ generation \in 0..generation'
  BY Numbers, Heads, Names DEF Reconnect, IoUnchanged, scopeVars, connVars, requestVars
<1>2. DqTyped'
  BY <1>1, DqStays DEF Reconnect, IoUnchanged, scopeVars, connVars, requestVars
<1>3. IoTyped' /\ Spares(ioq, ioq', {Conn("connect", None, generation, "")})
  <2> DEFINE D == {Conn("connect", None, generation, "")}
  <2>1. D \in SUBSET IoEntries
    BY <1>1, Numbers, IoMade
  <2>6. /\ Conn("connect", None, generation, "").token = generation
    BY DEF Do, Request, Note, Signal, Conn, Entry
  <2>0. \A e \in D : e.token \in 0..generation'
    BY <1>1, Numbers, <2>6
  <2>5. \A e \in D : <<e>> \in Seq(D) /\ Append(ioq, e) = ioq \o <<e>>
    BY <2>1, Said, Plain DEF Typed, IoTyped
  <2>2. \/ ioq' = ioq
        \/ \E x \in Seq(D) :
             (ioq' = ioq \o x) \/ (ioq # <<>> /\ H \in D /\ ioq' = Tail(ioq) \o x)
    BY <1>1, <2>5, Said, Plain DEF Reconnect, IoUnchanged, scopeVars, connVars, requestVars
  <2> HIDE DEF D
  <2>3. IoTyped' /\ Spares(ioq, ioq', D)
    BY <1>1, <2>0, <2>1, <2>2, IoMoves
  <2>4. QED
    BY <2>3 DEF D
<1>4. ScopeTyped' /\ ConnTyped' /\ RequestTyped'
  BY <1>1, Numbers DEF Typed, ScopeTyped, ConnTyped, RequestTyped, Reconnect, IoUnchanged, scopeVars, connVars, requestVars
<1>5. QED
  BY <1>2, <1>3, <1>4 DEF Typed

LEMMA CallBackTyped ==
    ASSUME Typed, CallBack
    PROVE  /\ Typed'
           /\ Spares(dq, dq', {E})
<1>0. dq # <<>> /\ E \in DqEntries /\ E.token \in 0..generation /\ E.op \in {"callback"}
  BY Heads DEF CallBack, Dispatching, Running, E, H
<1>1. /\ generation' = generation /\ generation' \in {generation, generation + 1}
      /\ 0 \in 0..generation' /\ generation \in 0..generation'
      /\ E \in DqEntries
      /\ E.token \in 0..generation
      /\ E.req \in Requests
  BY <1>0, Numbers, DqRead DEF CallBack, IoUnchanged, scopeVars, connVars, requestVars, Dispatching
<1>2. DqTyped' /\ Spares(dq, dq', {E})
  <2> DEFINE D == {E}
  <2>1. D \in SUBSET DqEntries
    BY <1>1, Numbers, DqMade
  <2>0. \A e \in D : e.token \in 0..generation'
    BY <1>1, Numbers
  <2>5. \A e \in D : <<e>> \in Seq(D) /\ Append(dq, e) = dq \o <<e>>
    BY <2>1, Said, Plain DEF Typed, DqTyped
  <2>2. \/ dq' = dq
        \/ \E x \in Seq(D) :
             (dq' = dq \o x) \/ (dq # <<>> /\ E \in D /\ dq' = Tail(dq) \o x)
    BY <1>1, <2>5, Said, Plain DEF CallBack, IoUnchanged, scopeVars, connVars, requestVars, Dispatching, Dispatched, Post
  <2> HIDE DEF D
  <2>3. DqTyped' /\ Spares(dq, dq', D)
    BY <1>1, <2>0, <2>1, <2>2, DqMoves
  <2>4. QED
    BY <2>3 DEF D
<1>3. IoTyped'
  BY <1>1, IoStays DEF CallBack, IoUnchanged, scopeVars, connVars, requestVars
<1>4. ScopeTyped' /\ ConnTyped' /\ RequestTyped'
  BY <1>1, Numbers DEF Typed, ScopeTyped, ConnTyped, RequestTyped, CallBack, IoUnchanged, scopeVars, connVars, requestVars, RequestStates
<1>5. QED
  BY <1>2, <1>3, <1>4 DEF Typed

LEMMA PostShutdownTyped ==
    ASSUME Typed, PostShutdown
    PROVE  /\ Typed'
           /\ Spares(ioq, ioq', {Do("shutdown")})
<1>1. /\ generation' = generation + 1 /\ generation' \in {generation, generation + 1}
      /\ 0 \in 0..generation' /\ generation \in 0..generation'
  BY Numbers, Heads, Names DEF PostShutdown, IoUnchanged, scopeVars, connVars, requestVars
<1>2. DqTyped'
  BY <1>1, DqStays DEF PostShutdown, IoUnchanged, scopeVars, connVars, requestVars
<1>3. IoTyped' /\ Spares(ioq, ioq', {Do("shutdown")})
  <2> DEFINE D == {Do("shutdown")}
  <2>1. D \in SUBSET IoEntries
    BY <1>1, Numbers, IoMade
  <2>6. /\ Do("shutdown").token = 0
    BY DEF Do, Request, Note, Signal, Conn, Entry
  <2>0. \A e \in D : e.token \in 0..generation'
    BY <1>1, Numbers, <2>6
  <2>5. \A e \in D : <<e>> \in Seq(D) /\ Append(ioq, e) = ioq \o <<e>>
    BY <2>1, Said, Plain DEF Typed, IoTyped
  <2>2. \/ ioq' = ioq
        \/ \E x \in Seq(D) :
             (ioq' = ioq \o x) \/ (ioq # <<>> /\ H \in D /\ ioq' = Tail(ioq) \o x)
    BY <1>1, <2>5, Said, Plain DEF PostShutdown, IoUnchanged, scopeVars, connVars, requestVars, Post
  <2> HIDE DEF D
  <2>3. IoTyped' /\ Spares(ioq, ioq', D)
    BY <1>1, <2>0, <2>1, <2>2, IoMoves
  <2>4. QED
    BY <2>3 DEF D
<1>4. ScopeTyped' /\ ConnTyped' /\ RequestTyped'
  BY <1>1, Numbers DEF Typed, ScopeTyped, ConnTyped, RequestTyped, PostShutdown, IoUnchanged, scopeVars, connVars, requestVars
<1>5. QED
  BY <1>2, <1>3, <1>4 DEF Typed

LEMMA ConnectIgnoredTyped ==
    ASSUME Typed, ConnectIgnored
    PROVE  /\ Typed'
           /\ Spares(ioq, ioq', {H})
<1>1. /\ generation' = generation /\ generation' \in {generation, generation + 1}
      /\ 0 \in 0..generation' /\ generation \in 0..generation'
      /\ H \in IoEntries
      /\ H.token \in 0..generation
  BY Numbers, Heads, Names DEF ConnectIgnored, IoUnchanged, scopeVars, connVars, requestVars, Running
<1>2. DqTyped'
  BY <1>1, DqStays DEF ConnectIgnored, IoUnchanged, scopeVars, connVars, requestVars
<1>3. IoTyped' /\ Spares(ioq, ioq', {H})
  <2> DEFINE D == {H}
  <2>1. D \in SUBSET IoEntries
    BY <1>1, Numbers, IoMade
  <2>0. \A e \in D : e.token \in 0..generation'
    BY <1>1, Numbers
  <2>5. \A e \in D : <<e>> \in Seq(D) /\ Append(ioq, e) = ioq \o <<e>>
    BY <2>1, Said, Plain DEF Typed, IoTyped
  <2>2. \/ ioq' = ioq
        \/ \E x \in Seq(D) :
             (ioq' = ioq \o x) \/ (ioq # <<>> /\ H \in D /\ ioq' = Tail(ioq) \o x)
    BY <1>1, <2>5, Said, Plain DEF ConnectIgnored, IoUnchanged, scopeVars, connVars, requestVars, Running, Posting, Enqueue
  <2> HIDE DEF D
  <2>3. IoTyped' /\ Spares(ioq, ioq', D)
    BY <1>1, <2>0, <2>1, <2>2, IoMoves
  <2>4. QED
    BY <2>3 DEF D
<1>4. ScopeTyped' /\ ConnTyped' /\ RequestTyped'
  BY <1>1, Numbers DEF Typed, ScopeTyped, ConnTyped, RequestTyped, ConnectIgnored, IoUnchanged, scopeVars, connVars, requestVars
<1>5. QED
  BY <1>2, <1>3, <1>4 DEF Typed

LEMMA ConnectBadPathTyped ==
    ASSUME Typed, ConnectBadPath
    PROVE  /\ Typed'
           /\ Spares(dq, dq', {Note("connect_failed", None, H.token)})
           /\ Spares(ioq, ioq', {H})
<1>1. /\ generation' = generation /\ generation' \in {generation, generation + 1}
      /\ 0 \in 0..generation' /\ generation \in 0..generation'
      /\ H \in IoEntries
      /\ H.token \in 0..generation
  BY Numbers, Heads, Names DEF ConnectBadPath, IoUnchanged, scopeVars, connVars, requestVars, Running
<1>2. DqTyped' /\ Spares(dq, dq', {Note("connect_failed", None, H.token)})
  <2> DEFINE D == {Note("connect_failed", None, H.token)}
  <2>1. D \in SUBSET DqEntries
    BY <1>1, Numbers, DqMade
  <2>6. /\ Note("connect_failed", None, H.token).token = H.token
    BY DEF Do, Request, Note, Signal, Conn, Entry
  <2>0. \A e \in D : e.token \in 0..generation'
    BY <1>1, Numbers, <2>6
  <2>5. \A e \in D : <<e>> \in Seq(D) /\ Append(dq, e) = dq \o <<e>>
    BY <2>1, Said, Plain DEF Typed, DqTyped
  <2>2. \/ dq' = dq
        \/ \E x \in Seq(D) :
             (dq' = dq \o x) \/ (dq # <<>> /\ E \in D /\ dq' = Tail(dq) \o x)
    BY <1>1, <2>5, Said, Plain DEF ConnectBadPath, IoUnchanged, scopeVars, connVars, requestVars, Running, Posting, Enqueue
  <2> HIDE DEF D
  <2>3. DqTyped' /\ Spares(dq, dq', D)
    BY <1>1, <2>0, <2>1, <2>2, DqMoves
  <2>4. QED
    BY <2>3 DEF D
<1>3. IoTyped' /\ Spares(ioq, ioq', {H})
  <2> DEFINE D == {H}
  <2>1. D \in SUBSET IoEntries
    BY <1>1, Numbers, IoMade
  <2>0. \A e \in D : e.token \in 0..generation'
    BY <1>1, Numbers
  <2>5. \A e \in D : <<e>> \in Seq(D) /\ Append(ioq, e) = ioq \o <<e>>
    BY <2>1, Said, Plain DEF Typed, IoTyped
  <2>2. \/ ioq' = ioq
        \/ \E x \in Seq(D) :
             (ioq' = ioq \o x) \/ (ioq # <<>> /\ H \in D /\ ioq' = Tail(ioq) \o x)
    BY <1>1, <2>5, Said, Plain DEF ConnectBadPath, IoUnchanged, scopeVars, connVars, requestVars, Running, Posting, Enqueue
  <2> HIDE DEF D
  <2>3. IoTyped' /\ Spares(ioq, ioq', D)
    BY <1>1, <2>0, <2>1, <2>2, IoMoves
  <2>4. QED
    BY <2>3 DEF D
<1>4. ScopeTyped' /\ ConnTyped' /\ RequestTyped'
  BY <1>1, Numbers DEF Typed, ScopeTyped, ConnTyped, RequestTyped, ConnectBadPath, IoUnchanged, scopeVars, connVars, requestVars
<1>5. QED
  BY <1>2, <1>3, <1>4 DEF Typed

LEMMA ConnectBeginsTyped ==
    ASSUME Typed, NEW c \in Conns, ConnectBegins(c)
    PROVE  /\ Typed'
           /\ Spares(ioq, ioq', {H})
<1>1. /\ generation' = generation /\ generation' \in {generation, generation + 1}
      /\ 0 \in 0..generation' /\ generation \in 0..generation'
      /\ H \in IoEntries
      /\ H.token \in 0..generation
  BY Numbers, Heads, Names DEF ConnectBegins, IoUnchanged, scopeVars, connVars, requestVars, Running
<1>2. DqTyped'
  BY <1>1, DqStays DEF ConnectBegins, IoUnchanged, scopeVars, connVars, requestVars
<1>3. IoTyped' /\ Spares(ioq, ioq', {H})
  <2> DEFINE D == {H}
  <2>1. D \in SUBSET IoEntries
    BY <1>1, Numbers, IoMade
  <2>0. \A e \in D : e.token \in 0..generation'
    BY <1>1, Numbers
  <2>5. \A e \in D : <<e>> \in Seq(D) /\ Append(ioq, e) = ioq \o <<e>>
    BY <2>1, Said, Plain DEF Typed, IoTyped
  <2>2. \/ ioq' = ioq
        \/ \E x \in Seq(D) :
             (ioq' = ioq \o x) \/ (ioq # <<>> /\ H \in D /\ ioq' = Tail(ioq) \o x)
    BY <1>1, <2>5, Said, Plain DEF ConnectBegins, IoUnchanged, scopeVars, connVars, requestVars, Running, Posting, Enqueue
  <2> HIDE DEF D
  <2>3. IoTyped' /\ Spares(ioq, ioq', D)
    BY <1>1, <2>0, <2>1, <2>2, IoMoves
  <2>4. QED
    BY <2>3 DEF D
<1>4. ScopeTyped' /\ ConnTyped' /\ RequestTyped'
  BY <1>1, Numbers DEF Typed, ScopeTyped, ConnTyped, RequestTyped, ConnectBegins, IoUnchanged, scopeVars, connVars, requestVars, SockStates
<1>5. QED
  BY <1>2, <1>3, <1>4 DEF Typed

LEMMA ConnectsTyped ==
    ASSUME Typed, NEW c \in Conns, NEW outcome \in {"connected", "failed"}, Connects(c, outcome)
    PROVE  /\ Typed'
           /\ Spares(ioq, ioq', {Conn("connectDone", c, session[c], outcome)})
<1>1. /\ generation' = generation /\ generation' \in {generation, generation + 1}
      /\ 0 \in 0..generation' /\ generation \in 0..generation'
      /\ session[c] \in 0..generation
  BY Numbers, Heads, Names DEF Connects, IoUnchanged, scopeVars, connVars, requestVars
<1>2. DqTyped'
  BY <1>1, DqStays DEF Connects, IoUnchanged, scopeVars, connVars, requestVars
<1>3. IoTyped' /\ Spares(ioq, ioq', {Conn("connectDone", c, session[c], outcome)})
  <2> DEFINE D == {Conn("connectDone", c, session[c], outcome)}
  <2>1. D \in SUBSET IoEntries
    BY <1>1, Numbers, IoMade
  <2>6. /\ Conn("connectDone", c, session[c], outcome).token = session[c]
    BY DEF Do, Request, Note, Signal, Conn, Entry
  <2>0. \A e \in D : e.token \in 0..generation'
    BY <1>1, Numbers, <2>6
  <2>5. \A e \in D : <<e>> \in Seq(D) /\ Append(ioq, e) = ioq \o <<e>>
    BY <2>1, Said, Plain DEF Typed, IoTyped
  <2>2. \/ ioq' = ioq
        \/ \E x \in Seq(D) :
             (ioq' = ioq \o x) \/ (ioq # <<>> /\ H \in D /\ ioq' = Tail(ioq) \o x)
    BY <1>1, <2>5, Said, Plain DEF Connects, IoUnchanged, scopeVars, connVars, requestVars, Post
  <2> HIDE DEF D
  <2>3. IoTyped' /\ Spares(ioq, ioq', D)
    BY <1>1, <2>0, <2>1, <2>2, IoMoves
  <2>4. QED
    BY <2>3 DEF D
<1>4. ScopeTyped' /\ ConnTyped' /\ RequestTyped'
  BY <1>1, Numbers DEF Typed, ScopeTyped, ConnTyped, RequestTyped, Connects, IoUnchanged, scopeVars, connVars, requestVars, SockStates
<1>5. QED
  BY <1>2, <1>3, <1>4 DEF Typed

LEMMA ConnectDoneTyped ==
    ASSUME Typed, ConnectDone
    PROVE  /\ Typed'
           /\ Spares(dq, dq', {Note("connect_failed", None, H.token), Conn("verify", H.conn, H.token, "")})
           /\ Spares(ioq, ioq', {H})
<1>0. ioq # <<>> /\ H \in IoEntries /\ H.token \in 0..generation /\ H.op = "connectDone"
  BY Heads DEF ConnectDone, Dispatching, Running, E, H
<1>1. /\ generation' = generation /\ generation' \in {generation, generation + 1}
      /\ 0 \in 0..generation' /\ generation \in 0..generation'
      /\ H \in IoEntries
      /\ H.token \in 0..generation
      /\ H.conn \in Conns
  BY <1>0, Numbers, IoRead DEF ConnectDone, IoUnchanged, scopeVars, connVars, requestVars, Running
<1>2. DqTyped' /\ Spares(dq, dq', {Note("connect_failed", None, H.token), Conn("verify", H.conn, H.token, "")})
  <2> DEFINE D == {Note("connect_failed", None, H.token), Conn("verify", H.conn, H.token, "")}
  <2>1. D \in SUBSET DqEntries
    BY <1>1, Numbers, DqMade
  <2>6. /\ Note("connect_failed", None, H.token).token = H.token
        /\ Conn("verify", H.conn, H.token, "").token = H.token
    BY DEF Do, Request, Note, Signal, Conn, Entry
  <2>0. \A e \in D : e.token \in 0..generation'
    BY <1>1, Numbers, <2>6
  <2>5. \A e \in D : <<e>> \in Seq(D) /\ Append(dq, e) = dq \o <<e>>
    BY <2>1, Said, Plain DEF Typed, DqTyped
  <2>2. \/ dq' = dq
        \/ \E x \in Seq(D) :
             (dq' = dq \o x) \/ (dq # <<>> /\ E \in D /\ dq' = Tail(dq) \o x)
    BY <1>1, <2>5, Said, Plain DEF ConnectDone, IoUnchanged, scopeVars, connVars, requestVars, Running, Posting, Enqueue
  <2> HIDE DEF D
  <2>3. DqTyped' /\ Spares(dq, dq', D)
    BY <1>1, <2>0, <2>1, <2>2, DqMoves
  <2>4. QED
    BY <2>3 DEF D
<1>3. IoTyped' /\ Spares(ioq, ioq', {H})
  <2> DEFINE D == {H}
  <2>1. D \in SUBSET IoEntries
    BY <1>1, Numbers, IoMade
  <2>0. \A e \in D : e.token \in 0..generation'
    BY <1>1, Numbers
  <2>5. \A e \in D : <<e>> \in Seq(D) /\ Append(ioq, e) = ioq \o <<e>>
    BY <2>1, Said, Plain DEF Typed, IoTyped
  <2>2. \/ ioq' = ioq
        \/ \E x \in Seq(D) :
             (ioq' = ioq \o x) \/ (ioq # <<>> /\ H \in D /\ ioq' = Tail(ioq) \o x)
    BY <1>1, <2>5, Said, Plain DEF ConnectDone, IoUnchanged, scopeVars, connVars, requestVars, Running, Posting, Enqueue
  <2> HIDE DEF D
  <2>3. IoTyped' /\ Spares(ioq, ioq', D)
    BY <1>1, <2>0, <2>1, <2>2, IoMoves
  <2>4. QED
    BY <2>3 DEF D
<1>4. ScopeTyped' /\ ConnTyped' /\ RequestTyped'
  BY <1>1, Numbers DEF Typed, ScopeTyped, ConnTyped, RequestTyped, ConnectDone, IoUnchanged, scopeVars, connVars, requestVars, SockStates
<1>5. QED
  BY <1>2, <1>3, <1>4 DEF Typed

LEMMA HandleConnectedSocketTyped ==
    ASSUME Typed, HandleConnectedSocket
    PROVE  /\ Typed'
           /\ Spares(dq, dq', {Note("verification_failed", None, H.token)})
           /\ Spares(ioq, ioq', {H, Conn("peerStart", H.conn, 0, ""), Conn("announce", H.conn, H.token, "")})
<1>0. ioq # <<>> /\ H \in IoEntries /\ H.token \in 0..generation /\ H.op = "verified"
  BY Heads DEF HandleConnectedSocket, Dispatching, Running, E, H
<1>1. /\ generation' = generation /\ generation' \in {generation, generation + 1}
      /\ 0 \in 0..generation' /\ generation \in 0..generation'
      /\ H \in IoEntries
      /\ H.token \in 0..generation
      /\ H.conn \in Conns
  BY <1>0, Numbers, IoRead DEF HandleConnectedSocket, IoUnchanged, scopeVars, connVars, requestVars, Running
<1>2. DqTyped' /\ Spares(dq, dq', {Note("verification_failed", None, H.token)})
  <2> DEFINE D == {Note("verification_failed", None, H.token)}
  <2>1. D \in SUBSET DqEntries
    BY <1>1, Numbers, DqMade
  <2>6. /\ Note("verification_failed", None, H.token).token = H.token
    BY DEF Do, Request, Note, Signal, Conn, Entry
  <2>0. \A e \in D : e.token \in 0..generation'
    BY <1>1, Numbers, <2>6
  <2>5. \A e \in D : <<e>> \in Seq(D) /\ Append(dq, e) = dq \o <<e>>
    BY <2>1, Said, Plain DEF Typed, DqTyped
  <2>2. \/ dq' = dq
        \/ \E x \in Seq(D) :
             (dq' = dq \o x) \/ (dq # <<>> /\ E \in D /\ dq' = Tail(dq) \o x)
    BY <1>1, <2>5, Said, Plain DEF HandleConnectedSocket, IoUnchanged, scopeVars, connVars, requestVars, Running, Posting, Enqueue
  <2> HIDE DEF D
  <2>3. DqTyped' /\ Spares(dq, dq', D)
    BY <1>1, <2>0, <2>1, <2>2, DqMoves
  <2>4. QED
    BY <2>3 DEF D
<1>3. IoTyped' /\ Spares(ioq, ioq', {H, Conn("peerStart", H.conn, 0, ""), Conn("announce", H.conn, H.token, "")})
  <2> DEFINE D == {H, Conn("peerStart", H.conn, 0, ""), Conn("announce", H.conn, H.token, "")}
  <2>1. D \in SUBSET IoEntries
    BY <1>1, Numbers, IoMade
  <2>6. /\ Conn("peerStart", H.conn, 0, "").token = 0
        /\ Conn("announce", H.conn, H.token, "").token = H.token
    BY DEF Do, Request, Note, Signal, Conn, Entry
  <2>0. \A e \in D : e.token \in 0..generation'
    BY <1>1, Numbers, <2>6
  <2>5. \A e \in D : <<e>> \in Seq(D) /\ Append(ioq, e) = ioq \o <<e>>
    BY <2>1, Said, Plain DEF Typed, IoTyped
  <2>2. \/ ioq' = ioq
        \/ \E x \in Seq(D) :
             (ioq' = ioq \o x) \/ (ioq # <<>> /\ H \in D /\ ioq' = Tail(ioq) \o x)
    BY <1>1, <2>5, Said, Plain DEF HandleConnectedSocket, IoUnchanged, scopeVars, connVars, requestVars, Running, Posting, Enqueue
  <2> HIDE DEF D
  <2>3. IoTyped' /\ Spares(ioq, ioq', D)
    BY <1>1, <2>0, <2>1, <2>2, IoMoves
  <2>4. QED
    BY <2>3 DEF D
<1>4. ScopeTyped' /\ ConnTyped' /\ RequestTyped'
  BY <1>1, Numbers DEF Typed, ScopeTyped, ConnTyped, RequestTyped, HandleConnectedSocket, IoUnchanged, scopeVars, connVars, requestVars, SockStates
<1>5. QED
  BY <1>2, <1>3, <1>4 DEF Typed

LEMMA AnnounceTyped ==
    ASSUME Typed, Announce
    PROVE  /\ Typed'
           /\ Spares(dq, dq', {Note("connected", H.conn, H.token)})
           /\ Spares(ioq, ioq', {H})
<1>0. ioq # <<>> /\ H \in IoEntries /\ H.token \in 0..generation /\ H.op = "announce"
  BY Heads DEF Announce, Dispatching, Running, E, H
<1>1. /\ generation' = generation /\ generation' \in {generation, generation + 1}
      /\ 0 \in 0..generation' /\ generation \in 0..generation'
      /\ H \in IoEntries
      /\ H.token \in 0..generation
      /\ H.conn \in Conns
  BY <1>0, Numbers, IoRead DEF Announce, IoUnchanged, scopeVars, connVars, requestVars, Running
<1>2. DqTyped' /\ Spares(dq, dq', {Note("connected", H.conn, H.token)})
  <2> DEFINE D == {Note("connected", H.conn, H.token)}
  <2>1. D \in SUBSET DqEntries
    BY <1>1, Numbers, DqMade
  <2>6. /\ Note("connected", H.conn, H.token).token = H.token
    BY DEF Do, Request, Note, Signal, Conn, Entry
  <2>0. \A e \in D : e.token \in 0..generation'
    BY <1>1, Numbers, <2>6
  <2>5. \A e \in D : <<e>> \in Seq(D) /\ Append(dq, e) = dq \o <<e>>
    BY <2>1, Said, Plain DEF Typed, DqTyped
  <2>2. \/ dq' = dq
        \/ \E x \in Seq(D) :
             (dq' = dq \o x) \/ (dq # <<>> /\ E \in D /\ dq' = Tail(dq) \o x)
    BY <1>1, <2>5, Said, Plain DEF Announce, IoUnchanged, scopeVars, connVars, requestVars, Running, Posting, Enqueue
  <2> HIDE DEF D
  <2>3. DqTyped' /\ Spares(dq, dq', D)
    BY <1>1, <2>0, <2>1, <2>2, DqMoves
  <2>4. QED
    BY <2>3 DEF D
<1>3. IoTyped' /\ Spares(ioq, ioq', {H})
  <2> DEFINE D == {H}
  <2>1. D \in SUBSET IoEntries
    BY <1>1, Numbers, IoMade
  <2>0. \A e \in D : e.token \in 0..generation'
    BY <1>1, Numbers
  <2>5. \A e \in D : <<e>> \in Seq(D) /\ Append(ioq, e) = ioq \o <<e>>
    BY <2>1, Said, Plain DEF Typed, IoTyped
  <2>2. \/ ioq' = ioq
        \/ \E x \in Seq(D) :
             (ioq' = ioq \o x) \/ (ioq # <<>> /\ H \in D /\ ioq' = Tail(ioq) \o x)
    BY <1>1, <2>5, Said, Plain DEF Announce, IoUnchanged, scopeVars, connVars, requestVars, Running, Posting, Enqueue
  <2> HIDE DEF D
  <2>3. IoTyped' /\ Spares(ioq, ioq', D)
    BY <1>1, <2>0, <2>1, <2>2, IoMoves
  <2>4. QED
    BY <2>3 DEF D
<1>4. ScopeTyped' /\ ConnTyped' /\ RequestTyped'
  BY <1>1, Numbers DEF Typed, ScopeTyped, ConnTyped, RequestTyped, Announce, IoUnchanged, scopeVars, connVars, requestVars
<1>5. QED
  BY <1>2, <1>3, <1>4 DEF Typed

LEMMA PeerStartTyped ==
    ASSUME Typed, PeerStart
    PROVE  /\ Typed'
           /\ Spares(ioq, ioq', {H})
<1>0. ioq # <<>> /\ H \in IoEntries /\ H.token \in 0..generation /\ H.op = "peerStart"
  BY Heads DEF PeerStart, Dispatching, Running, E, H
<1>1. /\ generation' = generation /\ generation' \in {generation, generation + 1}
      /\ 0 \in 0..generation' /\ generation \in 0..generation'
      /\ H \in IoEntries
      /\ H.token \in 0..generation
      /\ H.conn \in Conns
  BY <1>0, Numbers, IoRead DEF PeerStart, IoUnchanged, scopeVars, connVars, requestVars, Running
<1>2. DqTyped'
  BY <1>1, DqStays DEF PeerStart, IoUnchanged, scopeVars, connVars, requestVars
<1>3. IoTyped' /\ Spares(ioq, ioq', {H})
  <2> DEFINE D == {H}
  <2>1. D \in SUBSET IoEntries
    BY <1>1, Numbers, IoMade
  <2>0. \A e \in D : e.token \in 0..generation'
    BY <1>1, Numbers
  <2>5. \A e \in D : <<e>> \in Seq(D) /\ Append(ioq, e) = ioq \o <<e>>
    BY <2>1, Said, Plain DEF Typed, IoTyped
  <2>2. \/ ioq' = ioq
        \/ \E x \in Seq(D) :
             (ioq' = ioq \o x) \/ (ioq # <<>> /\ H \in D /\ ioq' = Tail(ioq) \o x)
    BY <1>1, <2>5, Said, Plain DEF PeerStart, IoUnchanged, scopeVars, connVars, requestVars, Running, Posting, Enqueue
  <2> HIDE DEF D
  <2>3. IoTyped' /\ Spares(ioq, ioq', D)
    BY <1>1, <2>0, <2>1, <2>2, IoMoves
  <2>4. QED
    BY <2>3 DEF D
<1>4. ScopeTyped' /\ ConnTyped' /\ RequestTyped'
  BY <1>1, Numbers DEF Typed, ScopeTyped, ConnTyped, RequestTyped, PeerStart, IoUnchanged, scopeVars, connVars, requestVars, SockStates
<1>5. QED
  BY <1>2, <1>3, <1>4 DEF Typed

LEMMA PeerCloseTyped ==
    ASSUME Typed, PeerClose
    PROVE  /\ Typed'
           /\ Spares(dq, dq', {Signal("closed", H.conn, None)})
           /\ Spares(ioq, ioq', {H})
<1>0. ioq # <<>> /\ H \in IoEntries /\ H.token \in 0..generation /\ H.op = "peerClose"
  BY Heads DEF PeerClose, Dispatching, Running, E, H
<1>1. /\ generation' = generation /\ generation' \in {generation, generation + 1}
      /\ 0 \in 0..generation' /\ generation \in 0..generation'
      /\ H \in IoEntries
      /\ H.token \in 0..generation
      /\ H.conn \in Conns
  BY <1>0, Numbers, IoRead DEF PeerClose, IoUnchanged, scopeVars, connVars, requestVars, Running
<1>2. DqTyped' /\ Spares(dq, dq', {Signal("closed", H.conn, None)})
  <2> DEFINE D == {Signal("closed", H.conn, None)}
  <2>1. D \in SUBSET DqEntries
    BY <1>1, Numbers, DqMade DEF Signals
  <2>6. /\ Signal("closed", H.conn, None).token = 0
    BY DEF Do, Request, Note, Signal, Conn, Entry
  <2>0. \A e \in D : e.token \in 0..generation'
    BY <1>1, Numbers, <2>6
  <2>5. \A e \in D : <<e>> \in Seq(D) /\ Append(dq, e) = dq \o <<e>>
    BY <2>1, Said, Plain DEF Typed, DqTyped
  <2>2. \/ dq' = dq
        \/ \E x \in Seq(D) :
             (dq' = dq \o x) \/ (dq # <<>> /\ E \in D /\ dq' = Tail(dq) \o x)
    BY <1>1, <2>5, Said, Plain DEF PeerClose, IoUnchanged, scopeVars, connVars, requestVars, Signals
  <2> HIDE DEF D
  <2>3. DqTyped' /\ Spares(dq, dq', D)
    BY <1>1, <2>0, <2>1, <2>2, DqMoves
  <2>4. QED
    BY <2>3 DEF D
<1>3. IoTyped' /\ Spares(ioq, ioq', {H})
  <2> DEFINE D == {H}
  <2>1. D \in SUBSET IoEntries
    BY <1>1, Numbers, IoMade DEF Signals
  <2>0. \A e \in D : e.token \in 0..generation'
    BY <1>1, Numbers
  <2>5. \A e \in D : <<e>> \in Seq(D) /\ Append(ioq, e) = ioq \o <<e>>
    BY <2>1, Said, Plain DEF Typed, IoTyped
  <2>2. \/ ioq' = ioq
        \/ \E x \in Seq(D) :
             (ioq' = ioq \o x) \/ (ioq # <<>> /\ H \in D /\ ioq' = Tail(ioq) \o x)
    BY <1>1, <2>5, Said, Plain DEF PeerClose, IoUnchanged, scopeVars, connVars, requestVars, Running, Posting, Enqueue
  <2> HIDE DEF D
  <2>3. IoTyped' /\ Spares(ioq, ioq', D)
    BY <1>1, <2>0, <2>1, <2>2, IoMoves
  <2>4. QED
    BY <2>3 DEF D
<1>4. ScopeTyped' /\ ConnTyped' /\ RequestTyped'
  BY <1>1, Numbers DEF Typed, ScopeTyped, ConnTyped, RequestTyped, PeerClose, IoUnchanged, scopeVars, connVars, requestVars, SockStates
<1>5. QED
  BY <1>2, <1>3, <1>4 DEF Typed

LEMMA PeerEndsTyped ==
    ASSUME Typed, NEW c \in Conns, PeerEnds(c)
    PROVE  /\ Typed'
           /\ Spares(dq, dq', {Signal("error", c, None), Signal("closed", c, None)})
<1>1. /\ generation' = generation /\ generation' \in {generation, generation + 1}
      /\ 0 \in 0..generation' /\ generation \in 0..generation'
  BY Numbers, Heads, Names DEF PeerEnds, IoUnchanged, scopeVars, connVars, requestVars
<1>2. DqTyped' /\ Spares(dq, dq', {Signal("error", c, None), Signal("closed", c, None)})
  <2> DEFINE D == {Signal("error", c, None), Signal("closed", c, None)}
  <2>1. D \in SUBSET DqEntries
    BY <1>1, Numbers, DqMade DEF Signals
  <2>6. /\ Signal("error", c, None).token = 0
        /\ Signal("closed", c, None).token = 0
    BY DEF Do, Request, Note, Signal, Conn, Entry
  <2>0. \A e \in D : e.token \in 0..generation'
    BY <1>1, Numbers, <2>6
  <2>5. PICK errors \in {<<>>, <<Signal("error", c, None)>>} :
          dq' = dq \o errors \o <<Signal("closed", c, None)>>
    BY DEF PeerEnds
  <2>10. Signal("error", c, None) \in D /\ Signal("closed", c, None) \in D
    OBVIOUS
  <2> HIDE DEF D
  <2>7. /\ dq \in Seq(DqEntries) /\ errors \in Seq(D) /\ <<Signal("closed", c, None)>> \in Seq(D)
        /\ errors \o <<Signal("closed", c, None)>> \in Seq(D)
    <3>1. dq \in Seq(DqEntries)
      BY DEF Typed, DqTyped
    <3>2. errors \in Seq(D) /\ <<Signal("closed", c, None)>> \in Seq(D)
      BY <2>5, <2>10, Said
    <3>3. QED
      BY <3>1, <3>2
  <2>8. errors \in Seq(DqEntries) /\ <<Signal("closed", c, None)>> \in Seq(DqEntries)
    BY <2>1, <2>7
  <2>9. dq' = dq \o (errors \o <<Signal("closed", c, None)>>)
    BY <2>5, <2>7, <2>8, Plain
  <2>2. \/ dq' = dq
        \/ \E x \in Seq(D) :
             (dq' = dq \o x) \/ (dq # <<>> /\ E \in D /\ dq' = Tail(dq) \o x)
    BY <2>7, <2>9
  <2>3. DqTyped' /\ Spares(dq, dq', D)
    BY <1>1, <2>0, <2>1, <2>2, DqMoves
  <2>4. QED
    BY <2>3 DEF D
<1>3. IoTyped'
  BY <1>1, IoStays DEF PeerEnds, IoUnchanged, scopeVars, connVars, requestVars
<1>4. ScopeTyped' /\ ConnTyped' /\ RequestTyped'
  BY <1>1, Numbers DEF Typed, ScopeTyped, ConnTyped, RequestTyped, PeerEnds, IoUnchanged, scopeVars, connVars, requestVars, SockStates
<1>5. QED
  BY <1>2, <1>3, <1>4 DEF Typed

LEMMA TimerExpiresTyped ==
    ASSUME Typed, NEW r \in Requests, TimerExpires(r)
    PROVE  /\ Typed'
           /\ Spares(ioq, ioq', {Request("timeout", r)})
<1>1. /\ generation' = generation /\ generation' \in {generation, generation + 1}
      /\ 0 \in 0..generation' /\ generation \in 0..generation'
  BY Numbers, Heads, Names DEF TimerExpires, IoUnchanged, scopeVars, connVars, requestVars
<1>2. DqTyped'
  BY <1>1, DqStays DEF TimerExpires, IoUnchanged, scopeVars, connVars, requestVars
<1>3. IoTyped' /\ Spares(ioq, ioq', {Request("timeout", r)})
  <2> DEFINE D == {Request("timeout", r)}
  <2>1. D \in SUBSET IoEntries
    BY <1>1, Numbers, IoMade
  <2>6. /\ Request("timeout", r).token = 0
    BY DEF Do, Request, Note, Signal, Conn, Entry
  <2>0. \A e \in D : e.token \in 0..generation'
    BY <1>1, Numbers, <2>6
  <2>5. \A e \in D : <<e>> \in Seq(D) /\ Append(ioq, e) = ioq \o <<e>>
    BY <2>1, Said, Plain DEF Typed, IoTyped
  <2>2. \/ ioq' = ioq
        \/ \E x \in Seq(D) :
             (ioq' = ioq \o x) \/ (ioq # <<>> /\ H \in D /\ ioq' = Tail(ioq) \o x)
    BY <1>1, <2>5, Said, Plain DEF TimerExpires, IoUnchanged, scopeVars, connVars, requestVars, Post
  <2> HIDE DEF D
  <2>3. IoTyped' /\ Spares(ioq, ioq', D)
    BY <1>1, <2>0, <2>1, <2>2, IoMoves
  <2>4. QED
    BY <2>3 DEF D
<1>4. ScopeTyped' /\ ConnTyped' /\ RequestTyped'
  BY <1>1, Numbers DEF Typed, ScopeTyped, ConnTyped, RequestTyped, TimerExpires, IoUnchanged, scopeVars, connVars, requestVars
<1>5. QED
  BY <1>2, <1>3, <1>4 DEF Typed

LEMMA KeepAliveTyped ==
    ASSUME Typed, KeepAlive
    PROVE  /\ Typed'
           /\ Spares(ioq, ioq', {H})
<1>1. /\ generation' = generation /\ generation' \in {generation, generation + 1}
      /\ 0 \in 0..generation' /\ generation \in 0..generation'
      /\ H \in IoEntries
      /\ H.token \in 0..generation
  BY Numbers, Heads, Names DEF KeepAlive, IoUnchanged, scopeVars, connVars, requestVars, Running
<1>2. DqTyped'
  BY <1>1, DqStays DEF KeepAlive, IoUnchanged, scopeVars, connVars, requestVars
<1>3. IoTyped' /\ Spares(ioq, ioq', {H})
  <2> DEFINE D == {H}
  <2>1. D \in SUBSET IoEntries
    BY <1>1, Numbers, IoMade
  <2>0. \A e \in D : e.token \in 0..generation'
    BY <1>1, Numbers
  <2>5. \A e \in D : <<e>> \in Seq(D) /\ Append(ioq, e) = ioq \o <<e>>
    BY <2>1, Said, Plain DEF Typed, IoTyped
  <2>2. \/ ioq' = ioq
        \/ \E x \in Seq(D) :
             (ioq' = ioq \o x) \/ (ioq # <<>> /\ H \in D /\ ioq' = Tail(ioq) \o x)
    BY <1>1, <2>5, Said, Plain DEF KeepAlive, IoUnchanged, scopeVars, connVars, requestVars, Running, Posting, Enqueue
  <2> HIDE DEF D
  <2>3. IoTyped' /\ Spares(ioq, ioq', D)
    BY <1>1, <2>0, <2>1, <2>2, IoMoves
  <2>4. QED
    BY <2>3 DEF D
<1>4. ScopeTyped' /\ ConnTyped' /\ RequestTyped'
  BY <1>1, Numbers DEF Typed, ScopeTyped, ConnTyped, RequestTyped, KeepAlive, IoUnchanged, scopeVars, connVars, requestVars
<1>5. QED
  BY <1>2, <1>3, <1>4 DEF Typed

LEMMA DestroyTyped ==
    ASSUME Typed, Destroy
    PROVE  Typed'
<1>1. /\ generation' = generation /\ generation' \in {generation, generation + 1}
      /\ 0 \in 0..generation' /\ generation \in 0..generation'
  BY Numbers, Heads, Names DEF Destroy, IoUnchanged, scopeVars, connVars, requestVars
<1>2. DqTyped'
  BY <1>1, DqStays DEF Destroy, IoUnchanged, scopeVars, connVars, requestVars
<1>3. IoTyped'
  BY <1>1, IoStays DEF Destroy, IoUnchanged, scopeVars, connVars, requestVars
<1>4. ScopeTyped' /\ ConnTyped' /\ RequestTyped'
  BY <1>1, Numbers DEF Typed, ScopeTyped, ConnTyped, RequestTyped, Destroy, IoUnchanged, scopeVars, connVars, requestVars
<1>5. QED
  BY <1>2, <1>3, <1>4 DEF Typed

\* The requests that are completed, and what the dispatcher gets.
NotesOf(c, n) == {e \in PeerNotes : e.conn = c /\ e.token = n}

LEMMA Listed ==
    ASSUME Typed
    PROVE  /\ AllPending \in Seq(Requests) /\ ToSet(AllPending) = pending
           /\ PendingOfPeer \in Seq(Requests)
           /\ \A r \in Requests : /\ SetToSeq(pending \ {r}) \in Seq(Requests)
                                  /\ ToSet(SetToSeq(pending \ {r})) = pending \ {r}
                                  /\ <<r>> \in Seq(Requests) /\ ToSet(<<r>>) = {r}
           /\ <<>> \in Seq(Requests) /\ ToSet(<<>>) = {}
<1>1. pending \subseteq Requests /\ IsFiniteSet(pending)
  BY DEF Typed, RequestTyped
<1>2. ASSUME NEW S \in SUBSET Requests, IsFiniteSet(S)
      PROVE  SetToSeq(S) \in Seq(Requests) /\ ToSet(SetToSeq(S)) = S
  <2> DEFINE f == SetToSeq(S)
  <2>1. /\ f \in Seq(S) /\ DOMAIN f = 1..Len(f)
        /\ \A s \in S : \E i \in DOMAIN f : f[i] = s
    BY <1>2, Enumerated
  <2> HIDE DEF f
  <2>2. f \in Seq(Requests)
    BY <2>1
  <2>3. \A i \in DOMAIN f : f[i] \in S
    BY <2>1
  <2>4. QED
    BY <2>1, <2>2, <2>3 DEF f, ToSet
<1>3. AllPending \in Seq(Requests) /\ ToSet(AllPending) = pending
  BY <1>1, <1>2 DEF AllPending
<1>4. ASSUME NEW r \in Requests
      PROVE  /\ SetToSeq(pending \ {r}) \in Seq(Requests)
             /\ ToSet(SetToSeq(pending \ {r})) = pending \ {r}
  <2>1. IsFiniteSet(pending \ {r})
    BY <1>1, FS_Subset
  <2>2. QED
    BY <1>1, <1>2, <2>1
<1>5. /\ <<>> \in Seq(Requests) /\ ToSet(<<>>) = {}
      /\ \A r \in Requests : <<r>> \in Seq(Requests) /\ ToSet(<<r>>) = {r}
  BY DEF ToSet
<1>6. PendingOfPeer \in Seq(Requests)
  BY <1>3, <1>5 DEF PendingOfPeer
<1>7. QED
  BY <1>3, <1>4, <1>5, <1>6

LEMMA ToSetJoined ==
    ASSUME NEW S, NEW q \in Seq(S), NEW e \in S
    PROVE  ToSet(<<e>> \o q) = {e} \cup ToSet(q)
<1> DEFINE r == <<e>> \o q
<1>1. /\ DOMAIN q = 1..Len(q) /\ DOMAIN r = 1..(Len(q) + 1) /\ Len(q) \in Nat /\ r[1] = e
      /\ \A i \in DOMAIN q : r[i + 1] = q[i]
  OBVIOUS
<1> HIDE DEF r
<1>2. \A i \in DOMAIN r : i # 1 => r[i] = q[i - 1] /\ i - 1 \in DOMAIN q
  <2>1. \A i \in DOMAIN r : i # 1 => i - 1 \in DOMAIN q /\ (i - 1) + 1 = i
    BY <1>1
  <2>2. QED
    BY <1>1, <2>1
<1>3. \A i \in DOMAIN q : i + 1 \in DOMAIN r
  BY <1>1
<1>4. 1 \in DOMAIN r
  BY <1>1
<1>5. QED
  BY <1>1, <1>2, <1>3, <1>4 DEF ToSet, r

LEMMA Completed ==
    ASSUME Typed, NEW reqs \in Seq(Requests), NEW D \in SUBSET DqEntries, NEW entries \in Seq(D),
           Completing(reqs, entries)
    PROVE  /\ attached => \E cbs \in Seq(CallBacks) : dq' = (dq \o cbs) \o entries
           /\ dq' = dq \/ \E x \in Seq(CallBacks \cup D) : dq' = dq \o x
           /\ ~attached => dq' = dq
           /\ generation' = generation => RequestTyped'
<1> DEFINE cbs == [i \in DOMAIN reqs |-> Request("callback", reqs[i])]
<1>1. cbs \in Seq(CallBacks)
  <2>1. DOMAIN reqs = 1..Len(reqs) /\ Len(reqs) \in Nat /\ \A i \in DOMAIN reqs : reqs[i] \in Requests
    OBVIOUS
  <2>2. \A r \in Requests : Request("callback", r) \in CallBacks
    BY DEF CallBacks, Request, Entry
  <2>3. QED
    BY <2>1, <2>2
<1>2. dq' = IF attached THEN dq \o (cbs \o entries) ELSE dq
  BY DEF Completing, Enqueue
<1>3. CallBacks \subseteq DqEntries
  BY DEF DqEntries
<1> HIDE DEF cbs
<1>4. /\ cbs \in Seq(DqEntries) /\ entries \in Seq(DqEntries) /\ dq \in Seq(DqEntries)
      /\ cbs \o entries \in Seq(CallBacks \cup D)
  <2>1. /\ cbs \in Seq(DqEntries) /\ entries \in Seq(DqEntries)
        /\ cbs \in Seq(CallBacks \cup D) /\ entries \in Seq(CallBacks \cup D)
    BY <1>1, <1>3
  <2>2. QED
    BY <2>1 DEF Typed, DqTyped
<1>5. dq \o (cbs \o entries) = (dq \o cbs) \o entries
  BY <1>4, Plain
<1>6. ASSUME generation' = generation
      PROVE  RequestTyped'
  <2>1. /\ pending \subseteq Requests /\ IsFiniteSet(pending)
        /\ request \in [Requests -> RequestStates]
    BY DEF Typed, RequestTyped
  <2>2. pending' \subseteq pending /\ pending' \subseteq Requests
    BY <2>1 DEF Completing
  <2>3. IsFiniteSet(pending')
    BY <2>1, <2>2, FS_Subset
  <2>4. request' \in [Requests -> RequestStates]
    BY <2>1 DEF Completing, RequestStates
  <2>5. QED
    BY <1>6, <2>2, <2>3, <2>4 DEF Typed, RequestTyped, Completing
<1>7. QED
  BY <1>1, <1>2, <1>4, <1>5, <1>6

LEMMA NotesMade ==
    ASSUME NEW c \in Conns, NEW n \in Nat
    PROVE  /\ NotesOf(c, n) \in SUBSET DqEntries /\ CallBacks \in SUBSET DqEntries
           /\ \A e \in NotesOf(c, n) : e.token = n /\ e.op = "note" /\ e.conn = c
           /\ \A e \in CallBacks : e.token = 0 /\ e.op = "callback"
           /\ \A w \in {"connected", "received", "error", "closed"} :
                Note(w, c, n) \in NotesOf(c, n)
<1>1. /\ NotesOf(c, n) \in SUBSET DqEntries /\ CallBacks \in SUBSET DqEntries
      /\ \A e \in NotesOf(c, n) : e.token = n /\ e.conn = c
  BY DEF NotesOf, DqEntries
<1>2. \A e \in NotesOf(c, n) : e.op = "note"
  BY DEF NotesOf, PeerNotes
<1>3. \A e \in CallBacks : e.token = 0 /\ e.op = "callback"
  BY DEF CallBacks
<1>4. \A w \in {"connected", "received", "error", "closed"} : Note(w, c, n) \in NotesOf(c, n)
  BY DEF NotesOf, PeerNotes, Note, Conn, Entry
<1>5. QED
  BY <1>1, <1>2, <1>3, <1>4

LEMMA ForwardTyped ==
    ASSUME Typed, Forward
    PROVE  /\ Typed'
           /\ Spares(dq, dq', CallBacks \cup NotesOf(H.conn, H.token))
           /\ Spares(ioq, ioq', {H})
<1>0. /\ ioq # <<>> /\ H \in IoEntries /\ H.token \in 0..generation /\ H.op = "forward"
      /\ ioq' = Tail(ioq) \o <<>>
  BY Heads DEF Forward, Running, Posting, H
<1>1. /\ H.conn \in Conns /\ H.what \in Signals /\ H.token \in Nat
      /\ UNCHANGED <<scopeVars, dpc, reconnect, app, left, connecting, sock, session, life>>
      /\ generation' = generation /\ generation' \in {generation, generation + 1}
      /\ 0 \in 0..generation
  BY <1>0, IoRead, Numbers DEF Forward, IoUnchanged, scopeVars
<1>2. IoTyped' /\ Spares(ioq, ioq', {H})
  <2> DEFINE D == {H}
  <2>1. D \in SUBSET IoEntries /\ (\A t \in D : t.token \in 0..generation') /\ <<>> \in Seq(D) /\ H \in D
    BY <1>0, <1>1, Said
  <2> HIDE DEF D
  <2>2. IoTyped' /\ Spares(ioq, ioq', D)
    BY <1>0, <1>1, <2>1, IoMoves
  <2>3. QED
    BY <2>2 DEF D
<1>3. DqTyped' /\ Spares(dq, dq', CallBacks \cup NotesOf(H.conn, H.token)) /\ RequestTyped'
  <2> DEFINE D == NotesOf(H.conn, H.token)
             reqs == CASE H.what = "received" -> <<>>
                       [] H.what = "response" -> IF H.req \in pending THEN <<H.req>> ELSE <<>>
                       [] OTHER -> AllPending
             entries == IF H.what \in Forwarded THEN <<Note(H.what, H.conn, H.token)>> ELSE <<>>
  <2>1. /\ D \in SUBSET DqEntries /\ CallBacks \in SUBSET DqEntries
        /\ \A e \in CallBacks \cup D : e.token \in 0..generation'
    BY <1>0, <1>1, NotesMade
  <2>2. entries \in Seq(D)
    <3>1. H.what \in Forwarded => Note(H.what, H.conn, H.token) \in D
      BY <1>1, NotesMade DEF Forwarded
    <3> HIDE DEF D
    <3>2. QED
      BY <3>1, Said
  <2>3. reqs \in Seq(Requests)
    <3>1. pending \subseteq Requests
      BY DEF Typed, RequestTyped
    <3>2. QED
      BY <3>1, Listed
  <2>4. Completing(reqs, entries) \/ UNCHANGED <<dq, requestVars>>
    BY DEF Forward
  <2> HIDE DEF D, reqs, entries
  <2>5. CASE Completing(reqs, entries)
    <3>1. (dq' = dq \/ \E x \in Seq(CallBacks \cup D) : dq' = dq \o x) /\ RequestTyped'
      BY <1>1, <2>1, <2>2, <2>3, <2>5, Completed
    <3>2. DqTyped' /\ Spares(dq, dq', CallBacks \cup D)
      BY <1>1, <2>1, <3>1, DqMoves
    <3>3. QED
      BY <3>1, <3>2 DEF D
  <2>6. CASE UNCHANGED <<dq, requestVars>>
    <3>1. DqTyped' /\ Spares(dq, dq', CallBacks \cup D)
      BY <1>1, <2>6, DqStays, SparesAll
    <3>2. RequestTyped'
      BY <1>1, <2>6 DEF Typed, RequestTyped, requestVars
    <3>3. QED
      BY <3>1, <3>2 DEF D
  <2>7. QED
    BY <2>4, <2>5, <2>6
<1>4. ScopeTyped' /\ ConnTyped'
  BY <1>1 DEF Typed, ScopeTyped, ConnTyped, scopeVars, Forward
<1>5. QED
  BY <1>2, <1>3, <1>4 DEF Typed

LEMMA SendRequestTyped ==
    ASSUME Typed, SendRequest
    PROVE  /\ Typed'
           /\ Spares(dq, dq', CallBacks)
           /\ Spares(ioq, ioq', {H})
<1>0. /\ ioq # <<>> /\ H \in IoEntries /\ H.token \in 0..generation /\ H.op = "request"
      /\ ioq' = Tail(ioq) \o <<>>
  BY Heads DEF SendRequest, Running, Posting, H
<1>1. /\ H.req \in Requests
      /\ UNCHANGED <<scopeVars, dpc, reconnect, app, left, connVars, life>>
      /\ generation' = generation /\ generation' \in {generation, generation + 1}
      /\ generation \in 0..generation /\ 0 \in 0..generation
  BY <1>0, IoRead, Numbers DEF SendRequest, IoUnchanged, scopeVars
<1>2. IoTyped' /\ Spares(ioq, ioq', {H})
  <2> DEFINE D == {H}
  <2>1. D \in SUBSET IoEntries /\ (\A t \in D : t.token \in 0..generation') /\ <<>> \in Seq(D) /\ H \in D
    BY <1>0, <1>1, Said
  <2> HIDE DEF D
  <2>2. IoTyped' /\ Spares(ioq, ioq', D)
    BY <1>0, <1>1, <2>1, IoMoves
  <2>3. QED
    BY <2>2 DEF D
<1>3. DqTyped' /\ Spares(dq, dq', CallBacks)
  <2>1. Request("callback", H.req) \in CallBacks
    BY <1>1 DEF CallBacks, Request, Entry
  <2>2. CallBacks \in SUBSET DqEntries
    BY DEF DqEntries
  <2>3. \A e \in CallBacks : e.token = 0
    BY DEF CallBacks
  <2>4. \A e \in CallBacks : e.token \in 0..generation'
    BY <1>1, <2>3
  <2>5. dq' = dq \/ \E x \in Seq(CallBacks) : dq' = dq \o x
    BY <2>1, Said DEF SendRequest, Enqueue
  <2>6. QED
    BY <1>1, <2>2, <2>4, <2>5, DqMoves
<1>4. ScopeTyped' /\ ConnTyped'
  BY <1>1 DEF Typed, ScopeTyped, ConnTyped, scopeVars, connVars
<1>5. RequestTyped'
  <2>1. IsFiniteSet(pending')
    <3>1. IsFiniteSet(pending) /\ (pending' = pending \/ pending' = pending \cup {H.req})
      BY DEF Typed, RequestTyped, SendRequest
    <3>2. QED
      BY <3>1, FS_AddElement
  <2>2. /\ pending \subseteq Requests /\ request \in [Requests -> RequestStates]
        /\ requestToken \in [Requests -> 0..generation] /\ requestConn \in [Requests -> Conns \cup {None}]
        /\ peer \in Conns \cup {None}
    BY DEF Typed, RequestTyped, ConnTyped
  <2>3. pending' \subseteq Requests /\ request' \in [Requests -> RequestStates]
    BY <1>1, <2>2 DEF SendRequest, RequestStates
  <2>4. /\ requestToken' \in [Requests -> 0..generation']
        /\ requestConn' \in [Requests -> Conns \cup {None}]
    BY <1>1, <2>2 DEF SendRequest
  <2>5. QED
    BY <2>1, <2>3, <2>4 DEF RequestTyped
<1>6. QED
  BY <1>2, <1>3, <1>4, <1>5 DEF Typed

LEMMA PeerOrdered ==
    ASSUME Typed
    PROVE  /\ ClosedPeer \in Seq(Handlers("peerClose", peer))
           /\ Handlers("peerClose", peer) \in SUBSET IoEntries
           /\ \A t \in Handlers("peerClose", peer) : t.token = 0 /\ t.op = "peerClose" /\ t.conn = peer
<1>1. peer # None => Conn("peerClose", peer, 0, "") \in Handlers("peerClose", peer)
  <2>1. peer \in Conns \cup {None}
    BY DEF Typed, ConnTyped
  <2>2. peer # None => Conn("peerClose", peer, 0, "") \in IoEntries
    BY <2>1, IoMade
  <2>3. Conn("peerClose", peer, 0, "").op = "peerClose" /\ Conn("peerClose", peer, 0, "").conn = peer
    BY DEF Conn, Entry
  <2>4. QED
    BY <2>2, <2>3 DEF Handlers
<1>2. ClosedPeer \in Seq(Handlers("peerClose", peer))
  BY <1>1, Said DEF ClosedPeer
<1>3. \A t \in IoEntries : t.op = "peerClose" => t.token = 0
  <2>1. ASSUME NEW t \in IoEntries, t.op = "peerClose"
        PROVE  t.token = 0
    <3>1. /\ t \notin Commands /\ t \notin Attempts /\ t \notin Completions /\ t \notin Answers
          /\ t \notin Announcements /\ t \notin Forwards /\ t \notin Calls
      BY <2>1 DEF Commands, Attempts, Completions, Answers, Announcements, Forwards, Calls
    <3>2. t \in PeerOrders
      BY <3>1 DEF IoEntries
    <3>3. QED
      BY <3>2 DEF PeerOrders
  <2>2. QED
    BY <2>1
<1>4. QED
  BY <1>2, <1>3 DEF Handlers

LEMMA PeerClosing ==
    ASSUME Typed, NEW D \in SUBSET IoEntries, NEW x \in Seq(D), H \in D, ioq # <<>>,
           Handlers("peerClose", peer) \subseteq D, \A t \in D : t.token \in 0..generation,
           generation' = generation,
           \/ ioq' = Tail(ioq) \o <<>> \/ ioq' = Tail(ioq) \o ClosedPeer
           \/ ioq' = Tail(ioq) \o (ClosedPeer \o x)
    PROVE  IoTyped' /\ Spares(ioq, ioq', D)
<1>1. ClosedPeer \in Seq(D)
  BY PeerOrdered
<1>2. <<>> \in Seq(D) /\ ClosedPeer \o x \in Seq(D)
  BY <1>1
<1>3. generation' \in {generation, generation + 1} /\ \A t \in D : t.token \in 0..generation'
  OBVIOUS
<1>4. \E y \in Seq(D) : ioq' = Tail(ioq) \o y
  BY <1>1, <1>2
<1>5. QED
  BY <1>3, <1>4, IoMoves

LEMMA SocketClosed ==
    ASSUME Typed, generation' = generation, UNCHANGED session,
           \/ CloseConnecting /\ peer' = None
           \/ UNCHANGED <<connecting, sock>> /\ peer' \in {peer, None}
    PROVE  ConnTyped'
BY DEF Typed, ConnTyped, CloseConnecting, SockStates

LEMMA EndConnectionTyped ==
    ASSUME Typed, EndConnection
    PROVE  /\ Typed'
           /\ Spares(dq, dq', CallBacks \cup {Note("reconnect", None, H.token)})
           /\ Spares(ioq, ioq', {H} \cup Handlers("peerClose", peer))
<1>0. /\ ioq # <<>> /\ H \in IoEntries /\ H.token \in 0..generation
      /\ ioq' = Tail(ioq) \o <<>> \/ ioq' = Tail(ioq) \o ClosedPeer
  BY Heads DEF EndConnection, Posting
<1>1. /\ UNCHANGED <<scopeVars, dpc, reconnect, app, left, session, life>>
      /\ generation' = generation /\ generation' \in {generation, generation + 1}
      /\ 0 \in 0..generation /\ H.token \in Nat
  BY <1>0, Numbers DEF EndConnection, IoUnchanged, scopeVars
<1>2. IoTyped' /\ Spares(ioq, ioq', {H} \cup Handlers("peerClose", peer))
  <2> DEFINE D == {H} \cup Handlers("peerClose", peer)
  <2>1. /\ D \in SUBSET IoEntries /\ \A t \in D : t.token \in 0..generation
        /\ H \in D /\ Handlers("peerClose", peer) \subseteq D /\ <<>> \in Seq(D)
    BY <1>0, <1>1, PeerOrdered, Said
  <2> HIDE DEF D
  <2>2. IoTyped' /\ Spares(ioq, ioq', D)
    BY <1>0, <1>1, <2>1, PeerClosing
  <2>3. QED
    BY <2>2 DEF D
<1>3. DqTyped' /\ Spares(dq, dq', CallBacks \cup {Note("reconnect", None, H.token)}) /\ RequestTyped'
  <2> DEFINE D == {Note("reconnect", None, H.token)}
             reqs == PendingOfPeer
             entries == IF H.op = "invalidate" THEN <<Note("reconnect", None, H.token)>> ELSE <<>>
  <2>1. D \in SUBSET DqEntries /\ CallBacks \in SUBSET DqEntries
    BY <1>1, DqMade DEF DqEntries
  <2>2. \A e \in CallBacks \cup D : e.token \in 0..generation'
    <3>1. Note("reconnect", None, H.token).token = H.token /\ \A e \in CallBacks : e.token = 0
      BY DEF CallBacks, Note, Conn, Entry
    <3>2. QED
      BY <1>0, <1>1, <3>1
  <2>3. entries \in Seq(D) /\ reqs \in Seq(Requests)
    BY Listed, Said
  <2>4. Completing(reqs, entries) \/ UNCHANGED <<dq, requestVars>>
    BY DEF EndConnection
  <2> HIDE DEF D, reqs, entries
  <2>5. CASE Completing(reqs, entries)
    <3>1. (dq' = dq \/ \E x \in Seq(CallBacks \cup D) : dq' = dq \o x) /\ RequestTyped'
      BY <1>1, <2>1, <2>3, <2>5, Completed
    <3>2. DqTyped' /\ Spares(dq, dq', CallBacks \cup D)
      BY <1>1, <2>1, <2>2, <3>1, DqMoves
    <3>3. QED
      BY <3>1, <3>2 DEF D
  <2>6. CASE UNCHANGED <<dq, requestVars>>
    <3>1. DqTyped' /\ Spares(dq, dq', CallBacks \cup D)
      BY <1>1, <2>6, DqStays, SparesAll
    <3>2. RequestTyped'
      BY <1>1, <2>6 DEF Typed, RequestTyped, requestVars
    <3>3. QED
      BY <3>1, <3>2 DEF D
  <2>7. QED
    BY <2>4, <2>5, <2>6
<1>4. ScopeTyped'
  BY <1>1 DEF Typed, ScopeTyped, scopeVars
<1>5. ConnTyped'
  BY <1>1, SocketClosed DEF EndConnection
<1>6. QED
  BY <1>2, <1>3, <1>4, <1>5 DEF Typed

LEMMA ShutdownTyped ==
    ASSUME Typed, Shutdown
    PROVE  /\ Typed'
           /\ Spares(dq, dq', CallBacks)
           /\ Spares(ioq, ioq', {H, Do("keepAlive")} \cup Handlers("peerClose", peer))
<1>0. /\ ioq # <<>> /\ H \in IoEntries /\ H.token \in 0..generation /\ H.op = "shutdown"
      /\ ioq' = Tail(ioq) \o (ClosedPeer \o <<Do("keepAlive")>>)
  BY Heads DEF Shutdown, Posting, Running, H
<1>1. /\ UNCHANGED <<scopeVars, dpc, reconnect, app, left, session>>
      /\ generation' = generation /\ generation' \in {generation, generation + 1}
      /\ 0 \in 0..generation
  BY <1>0, Numbers DEF Shutdown, IoUnchanged, scopeVars
<1>2. IoTyped' /\ Spares(ioq, ioq', {H, Do("keepAlive")} \cup Handlers("peerClose", peer))
  <2> DEFINE D == {H, Do("keepAlive")} \cup Handlers("peerClose", peer)
  <2>1. Do("keepAlive") \in IoEntries /\ Do("keepAlive").token = 0
    BY IoMade DEF Do, Entry
  <2>2. /\ D \in SUBSET IoEntries /\ \A t \in D : t.token \in 0..generation
        /\ H \in D /\ Handlers("peerClose", peer) \subseteq D /\ <<Do("keepAlive")>> \in Seq(D)
    BY <1>0, <1>1, <2>1, PeerOrdered, Said
  <2> HIDE DEF D
  <2>3. IoTyped' /\ Spares(ioq, ioq', D)
    BY <1>0, <1>1, <2>2, PeerClosing
  <2>4. QED
    BY <2>3 DEF D
<1>3. DqTyped' /\ Spares(dq, dq', CallBacks) /\ RequestTyped'
  <2>1. {} \in SUBSET DqEntries /\ CallBacks \in SUBSET DqEntries /\ CallBacks \cup {} = CallBacks
    BY DEF DqEntries
  <2>2. \A e \in CallBacks : e.token \in 0..generation'
    <3>1. \A e \in CallBacks : e.token = 0
      BY DEF CallBacks
    <3>2. QED
      BY <1>1, <3>1
  <2>3. <<>> \in Seq({}) /\ PendingOfPeer \in Seq(Requests)
    BY Listed
  <2>4. Completing(PendingOfPeer, <<>>)
    BY DEF Shutdown
  <2>5. (dq' = dq \/ \E x \in Seq(CallBacks) : dq' = dq \o x) /\ RequestTyped'
    <3>1. \A D : D = {} => CallBacks \cup D = CallBacks
      OBVIOUS
    <3>2. (dq' = dq \/ \E x \in Seq(CallBacks \cup {}) : dq' = dq \o x) /\ RequestTyped'
      BY <1>1, <2>1, <2>3, <2>4, Completed
    <3>3. QED
      BY <2>1, <3>2
  <2>6. DqTyped' /\ Spares(dq, dq', CallBacks)
    BY <1>1, <2>1, <2>2, <2>5, DqMoves
  <2>7. QED
    BY <2>5, <2>6
<1>4. ScopeTyped'
  BY <1>1 DEF Typed, ScopeTyped, scopeVars, Shutdown
<1>5. ConnTyped'
  BY <1>1, SocketClosed DEF Shutdown
<1>6. QED
  BY <1>2, <1>3, <1>4, <1>5 DEF Typed

LEMMA RequestTimeoutTyped ==
    ASSUME Typed, RequestTimeout
    PROVE  /\ Typed'
           /\ Spares(dq, dq', CallBacks \cup NotesOf(peer, requestToken[H.req]))
           /\ Spares(ioq, ioq', {H} \cup Handlers("peerClose", peer))
<1>0. /\ ioq # <<>> /\ H \in IoEntries /\ H.token \in 0..generation /\ H.op = "timeout"
      /\ ioq' = Tail(ioq) \o <<>> \/ ioq' = Tail(ioq) \o ClosedPeer
  BY Heads DEF RequestTimeout, Posting, Running, H
<1>1. /\ UNCHANGED <<scopeVars, dpc, reconnect, app, left, session, life>>
      /\ generation' = generation /\ generation' \in {generation, generation + 1}
      /\ 0 \in 0..generation /\ H.req \in Requests /\ requestToken[H.req] \in 0..generation
      /\ requestToken[H.req] \in Nat
  BY <1>0, Numbers, IoRead DEF RequestTimeout, IoUnchanged, scopeVars
<1>2. IoTyped' /\ Spares(ioq, ioq', {H} \cup Handlers("peerClose", peer))
  <2> DEFINE D == {H} \cup Handlers("peerClose", peer)
  <2>1. /\ D \in SUBSET IoEntries /\ \A t \in D : t.token \in 0..generation
        /\ H \in D /\ Handlers("peerClose", peer) \subseteq D /\ <<>> \in Seq(D)
    BY <1>0, <1>1, PeerOrdered, Said
  <2> HIDE DEF D
  <2>2. IoTyped' /\ Spares(ioq, ioq', D)
    BY <1>0, <1>1, <2>1, PeerClosing
  <2>3. QED
    BY <2>2 DEF D
<1>3. /\ DqTyped' /\ Spares(dq, dq', CallBacks \cup NotesOf(peer, requestToken[H.req]))
      /\ RequestTyped'
  <2> DEFINE n == requestToken[H.req]
             D == NotesOf(peer, n)
             closes == InvalidateOnError /\ peer # None
             reqs == <<H.req>> \o (IF closes THEN SetToSeq(pending \ {H.req}) ELSE <<>>)
             entries == IF closes THEN <<Note("closed", peer, requestToken[H.req])>> ELSE <<>>
  <2>0. peer \in Conns \cup {None}
    BY DEF Typed, ConnTyped
  <2>1. D \in SUBSET DqEntries /\ CallBacks \in SUBSET DqEntries
    BY DEF NotesOf, DqEntries
  <2>2. \A e \in CallBacks \cup D : e.token \in 0..generation'
    <3>1. (\A e \in D : e.token = requestToken[H.req]) /\ \A e \in CallBacks : e.token = 0
      BY DEF CallBacks, NotesOf
    <3>2. QED
      BY <1>0, <1>1, <3>1
  <2>3. entries \in Seq(D)
    <3>1. closes => Note("closed", peer, n) \in D
      BY <1>1, <2>0, NotesMade
    <3> HIDE DEF D
    <3>2. QED
      BY <3>1, Said
  <2>4. reqs \in Seq(Requests)
    <3>1. <<H.req>> \in Seq(Requests) /\ SetToSeq(pending \ {H.req}) \in Seq(Requests) /\ <<>> \in Seq(Requests)
      BY <1>1, Listed
    <3>2. QED
      BY <3>1
  <2>5. Completing(reqs, entries) \/ UNCHANGED <<dq, requestVars>>
    BY DEF RequestTimeout
  <2> HIDE DEF D, reqs, entries
  <2>6. CASE Completing(reqs, entries)
    <3>1. (dq' = dq \/ \E x \in Seq(CallBacks \cup D) : dq' = dq \o x) /\ RequestTyped'
      BY <1>1, <2>1, <2>3, <2>4, <2>6, Completed
    <3>2. DqTyped' /\ Spares(dq, dq', CallBacks \cup D)
      BY <1>1, <2>1, <2>2, <3>1, DqMoves
    <3>3. QED
      BY <3>1, <3>2 DEF D
  <2>7. CASE UNCHANGED <<dq, requestVars>>
    <3>1. DqTyped' /\ Spares(dq, dq', CallBacks \cup D)
      BY <1>1, <2>7, DqStays, SparesAll
    <3>2. RequestTyped'
      BY <1>1, <2>7 DEF Typed, RequestTyped, requestVars
    <3>3. QED
      BY <3>1, <3>2 DEF D
  <2>8. QED
    BY <2>5, <2>6, <2>7
<1>4. ScopeTyped'
  BY <1>1 DEF Typed, ScopeTyped, scopeVars
<1>5. ConnTyped'
  <2>1. UNCHANGED <<connecting, sock>> /\ peer' \in {peer, None}
    BY DEF RequestTimeout
  <2>2. QED
    BY <1>1, <2>1, SocketClosed
<1>6. QED
  BY <1>2, <1>3, <1>4, <1>5 DEF Typed

LEMMA Erased ==
    ASSUME Typed, generation' = generation, NEW D \in SUBSET DqEntries,
           NEW I \in SUBSET DOMAIN dq, \A i \in DOMAIN dq : i \in I <=> dq[i] \notin D,
           dq' = Selected(dq, I)
    PROVE  DqTyped' /\ Spares(dq, dq', D) /\ ~Has(dq', D) /\ \A A : Has(dq', A) => Has(dq, A)
<1>1. dq \in Seq(DqEntries) /\ ~Has(dq, Beyond(generation))
  BY DEF Typed, DqTyped
<1>2. dq' \in Seq(DqEntries) /\ (\A A : Has(dq', A) => Has(dq, A)) /\ ~Has(dq', D)
  BY <1>1, ErasedHas
<1>3. ASSUME NEW W, W \cap D = {}
      PROVE  Undisturbed(dq, dq', W)
  <2>1. \A i \in DOMAIN dq : dq[i] \in W => i \in I
    BY <1>3
  <2>2. QED
    BY <1>1, <2>1, ErasedElsewhere
<1>4. QED
  BY <1>1, <1>2, <1>3 DEF DqTyped, Spares, Beyond

LEMMA DetachTyped ==
    ASSUME Typed, Detach
    PROVE  /\ Typed'
           /\ Spares(dq, dq', Scheduled) /\ ~Has(dq', Scheduled)
           /\ \A A : Has(dq', A) => Has(dq, A)
<1>1. generation' = generation /\ generation' \in {generation, generation + 1} /\ ioq' = ioq
  BY DEF Detach
<1>2. DqTyped' /\ Spares(dq, dq', Scheduled) /\ ~Has(dq', Scheduled) /\ \A A : Has(dq', A) => Has(dq, A)
  <2> DEFINE I == {i \in DOMAIN dq : dq[i].op = "signal"}
  <2>1. dq \in Seq(DqEntries) /\ dq' = Selected(dq, I)
    BY DEF Detach, Typed, DqTyped
  <2>2. I \in SUBSET DOMAIN dq /\ \A i \in DOMAIN dq : i \in I <=> dq[i] \notin Scheduled
    BY <2>1 DEF Scheduled
  <2>3. Scheduled \in SUBSET DqEntries
    BY DEF Scheduled
  <2> HIDE DEF I
  <2>4. QED
    BY <1>1, <2>1, <2>2, <2>3, Erased
<1>3. IoTyped'
  BY <1>1, IoStays
<1>4. ScopeTyped' /\ ConnTyped'
  BY DEF Typed, ScopeTyped, ConnTyped, Detach, connVars
<1>5. RequestTyped'
  BY DEF Typed, RequestTyped, RequestStates, Detach
<1>6. QED
  BY <1>2, <1>3, <1>4, <1>5 DEF Typed

LEMMA ReleaseTyped ==
    ASSUME Typed, NEW c \in Conns, Release(c)
    PROVE  /\ Typed'
           /\ Spares(dq, dq', DqAbout(c)) /\ ~Has(dq', DqAbout(c))
           /\ \A A : Has(dq', A) => Has(dq, A)
<1>1. /\ generation' = generation /\ generation' \in {generation, generation + 1} /\ ioq' = ioq
      /\ UNCHANGED <<scopeVars, dpc, reconnect, app, left, life>>
  BY DEF Release, IoUnchanged, scopeVars
<1>2. DqTyped' /\ Spares(dq, dq', DqAbout(c)) /\ ~Has(dq', DqAbout(c)) /\ \A A : Has(dq', A) => Has(dq, A)
  <2> DEFINE I == {i \in DOMAIN dq : dq[i].conn # c}
  <2>1. dq \in Seq(DqEntries) /\ dq' = Selected(dq, I)
    BY DEF Release, Typed, DqTyped
  <2>2. I \in SUBSET DOMAIN dq /\ \A i \in DOMAIN dq : i \in I <=> dq[i] \notin DqAbout(c)
    BY <2>1 DEF DqAbout
  <2>3. DqAbout(c) \in SUBSET DqEntries
    BY DEF DqAbout
  <2> HIDE DEF I
  <2>4. QED
    BY <1>1, <2>1, <2>2, <2>3, Erased
<1>3. IoTyped'
  BY <1>1, IoStays
<1>4. ScopeTyped'
  BY <1>1 DEF Typed, ScopeTyped, scopeVars
<1>5. ConnTyped' /\ RequestTyped'
  BY <1>1, Numbers DEF Typed, ConnTyped, RequestTyped, SockStates, Release
<1>6. QED
  BY <1>2, <1>3, <1>4, <1>5 DEF Typed

LEMMA PeerReadsTyped ==
    ASSUME Typed, NEW c \in Conns, PeerReads(c)
    PROVE  Typed' /\ Spares(dq, dq', SignalsOf(c) \ EndsOf(c))
<1>1. /\ generation' = generation /\ generation' \in {generation, generation + 1} /\ ioq' = ioq
      /\ UNCHANGED <<scopeVars, dpc, reconnect, connVars, requestVars, app, life>>
      /\ 0 \in 0..generation
  BY Numbers DEF PeerReads, scopeVars
<1>2. DqTyped' /\ Spares(dq, dq', SignalsOf(c) \ EndsOf(c))
  <2> DEFINE D == SignalsOf(c) \ EndsOf(c)
  <2>1. D \in SUBSET DqEntries
    BY DEF SignalsOf
  <2>2. \A e \in D : e.token \in 0..generation'
    <3>1. \A e \in DqEntries : e.op = "signal" => e.token = 0
      BY DqRead
    <3>2. QED
      BY <1>1, <3>1 DEF SignalsOf
  <2>3. \A w \in {"received", "response", "error"}, r \in Requests \cup {None} : Signal(w, c, r) \in D
    <3>1. ASSUME NEW w \in {"received", "response", "error"}, NEW r \in Requests \cup {None}
          PROVE  Signal(w, c, r) \in D
      <4>1. Signal(w, c, r) \in DqEntries
        BY DqMade DEF Signals
      <4>2. Signal(w, c, r).op = "signal" /\ Signal(w, c, r).conn = c /\ Signal(w, c, r).what = w
        BY DEF Signal, Entry
      <4>3. QED
        BY <4>1, <4>2 DEF SignalsOf, EndsOf
    <3>2. QED
      BY <3>1
  <2>4. \E e \in D : dq' = Append(dq, e)
    BY <2>3 DEF PeerReads
  <2> HIDE DEF D
  <2>5. \E x \in Seq(D) : dq' = dq \o x
    <3>1. dq \in Seq(DqEntries)
      BY DEF Typed, DqTyped
    <3>2. \A e \in D : <<e>> \in Seq(D) /\ Append(dq, e) = dq \o <<e>>
      BY <2>1, <3>1, Said, Plain
    <3>3. QED
      BY <2>4, <3>2
  <2>6. DqTyped' /\ Spares(dq, dq', D)
    BY <1>1, <2>1, <2>2, <2>5, DqMoves
  <2>7. QED
    BY <2>6 DEF D
<1>3. IoTyped'
  BY <1>1, IoStays
<1>4. ScopeTyped'
  BY <1>1, Spent DEF Typed, ScopeTyped, scopeVars, PeerReads
<1>5. ConnTyped' /\ RequestTyped'
  BY <1>1 DEF Typed, ConnTyped, RequestTyped, connVars, requestVars
<1>6. QED
  BY <1>2, <1>3, <1>4, <1>5 DEF Typed

LEMMA IdleTyped ==
    ASSUME Typed, UNCHANGED vars
    PROVE  Typed'
BY DEF Typed, DqTyped, IoTyped, ScopeTyped, ConnTyped, RequestTyped, Beyond, vars, scopeVars,
       connVars, requestVars

LEMMA TypedInit == Init => Typed
<1> SUFFICES ASSUME Init
             PROVE  Typed
  OBVIOUS
<1>1. DqTyped /\ IoTyped
  BY Made DEF Init, DqTyped, IoTyped
<1>2. ScopeTyped
  <2>1. left \in [{"calls", "reads"} -> Nat]
    BY ClientAssumption DEF Init
  <2>2. QED
    BY <2>1 DEF Init, ScopeTyped
<1>3. ConnTyped
  BY DEF Init, ConnTyped, SockStates
<1>4. IsFiniteSet(pending)
  BY FS_EmptySet DEF Init
<1>5. RequestTyped
  BY <1>4 DEF Init, RequestTyped, RequestStates
<1>6. QED
  BY <1>1, <1>2, <1>3, <1>5 DEF Typed

LEMMA DispatcherTyped == Typed /\ (DispatcherStep \/ Reconnect \/ Detach) => Typed'
BY StartTyped, EndSessionTyped, PostEndOfSessionTyped, NotifyTyped, VerifyTyped,
   DispatchSignalTyped, DebounceTyped, CallBackTyped, PostShutdownTyped, ReconnectTyped, DetachTyped
   DEF DispatcherStep

LEMMA IoStepTyped == Typed /\ (IoStep \/ Destroy) => Typed'
BY ConnectIgnoredTyped, ConnectBadPathTyped, ConnectBeginsTyped, ConnectDoneTyped,
   HandleConnectedSocketTyped, AnnounceTyped, PeerStartTyped, PeerCloseTyped, ForwardTyped,
   SendRequestTyped, RequestTimeoutTyped, EndConnectionTyped, ShutdownTyped, KeepAliveTyped,
   DestroyTyped DEF IoStep

LEMMA TypedStep == Typed /\ [Next]_vars => Typed'
<1> SUFFICES ASSUME Typed, [Next]_vars
             PROVE  Typed'
  OBVIOUS
<1>1. CASE \E op \in {"start", "stop", "invalidate"} : Call(op)
  BY <1>1, CallTyped
<1>2. CASE \E r \in Requests : AsyncRequest(r) \/ TimerExpires(r)
  BY <1>2, AsyncRequestTyped, TimerExpiresTyped
<1>3. CASE \E c \in Conns : \E outcome \in {"connected", "failed"} : Connects(c, outcome)
  BY <1>3, ConnectsTyped
<1>4. CASE \E c \in Conns : PeerReads(c) \/ PeerEnds(c) \/ Release(c)
  BY <1>4, PeerReadsTyped, PeerEndsTyped, ReleaseTyped
<1>5. CASE UNCHANGED vars
  BY <1>5, IdleTyped
<1>6. QED
  BY <1>1, <1>2, <1>3, <1>4, <1>5, DispatcherTyped, IoStepTyped DEF Next, Destroyed

\* The variables and both queues hold what the code puts there, whatever the two threads do:
\* among it that no entry carries the token of a session that has not begun.
THEOREM Types == Spec => []TypeOK
<1>1. Typed => TypeOK
  <2> SUFFICES ASSUME Typed
               PROVE  TypeOK
    OBVIOUS
  <2>1. generation \in Nat
    BY DEF Typed, ScopeTyped
  <2>2. ASSUME NEW e \in ToSet(dq) \cup ToSet(ioq)
        PROVE  /\ e.conn \in Conns \cup {None} /\ e.req \in Requests \cup {None}
               /\ e.token \in 0..generation
               /\ e.op = "note" => e.what \in Notes
               /\ e.op = "signal" => e.what \in Signals
    <3>1. CASE e \in ToSet(dq)
      <4>1. e \in DqEntries /\ e \notin Beyond(generation)
        BY <3>1 DEF Typed, DqTyped, ToSet, Has
      <4>2. e.token \in Nat
        BY <4>1, DqRead
      <4>3. e.token \in 0..generation
        BY <2>1, <4>1, <4>2 DEF Beyond
      <4>4. QED
        BY <4>1, <4>3, DqRead
    <3>2. CASE e \in ToSet(ioq)
      <4>1. e \in IoEntries /\ e \notin Beyond(generation)
        BY <3>2 DEF Typed, IoTyped, ToSet, Has
      <4>2. e.token \in Nat
        BY <4>1, IoRead
      <4>3. e.token \in 0..generation
        BY <2>1, <4>1, <4>2 DEF Beyond
      <4>4. QED
        BY <4>1, <4>3, IoRead
    <3>3. QED
      BY <3>1, <3>2
  <2>3. QED
    BY <2>2 DEF Typed, ScopeTyped, ConnTyped, RequestTyped, TypeOK
<1>2. QED
  BY <1>1, TypedInit, TypedStep, PTL DEF Spec

-----------------------------------------------------------------------------
\* The life of the client.

LifeOps == {"shutdown", "keepAlive", "peerClose", "timeout", "stop"}

\* A step that is not about the life of the client leaves the I/O thread's part of it,
IoCalm ==
    /\ Has(ioq', Io("shutdown")) => Has(ioq, Io("shutdown"))
    /\ Has(ioq', Io("keepAlive")) => Has(ioq, Io("keepAlive"))
    /\ NotBefore(ioq', Io("shutdown"), Io("shutdown"))
    /\ NotBefore(ioq', Io("keepAlive"), Lasting)
    /\ Has(ioq', Lasting) => Has(ioq, Lasting) \/ life = "live"
\* the dispatcher's,
DqCalm == attached \/ (Has(dq', Scheduled) => Has(dq, Scheduled))
\* and begins no attempt for a client that is gone.
Buried == life = "destroyed" =>
    \A c \in Conns : /\ sock'[c] = "connecting" => sock[c] = "connecting"
                     /\ Has(ioq', Attempting(c)) => Has(ioq, Attempting(c))

LEMMA OrderKept ==
    ASSUME Ordered, IoCalm, DqCalm, Buried,
           UNCHANGED <<running, attached, dpc, life>>, reconnect' => reconnect \/ attached,
           connecting' # None => connecting # None \/ (life = "live" /\ running),
           peer' # None => peer # None \/ connecting # None \/ (life = "live" /\ running),
           (connecting' = None /\ peer' = None) \/ (Has(ioq, Enders) => Has(ioq', Enders))
    PROVE  Ordered'
<1>1. /\ attached' => life' = "live" /\ ~Has(ioq', Io("shutdown")) /\ dpc' # "shutdown"
      /\ ~attached' => ~Has(dq', Scheduled) /\ ~reconnect' /\ dpc' \notin {"stop", "invalidate"}
      /\ dpc' = "shutdown" => life' = "live" /\ ~Has(ioq', Io("shutdown"))
      /\ ~attached' /\ dpc' = "idle" => ~running'
      /\ life' # "live" => ~Has(ioq', Io("shutdown")) /\ connecting' = None /\ peer' = None
      /\ life' = "live" => ~Has(ioq', Io("keepAlive"))
      /\ life' \in {"releasing", "destroyed"} => ~Has(ioq', Lasting)
  BY DEF Ordered, IoCalm, DqCalm
<1>2. life' = "destroyed" => \A c \in Conns : sock'[c] # "connecting" /\ ~Has(ioq', Attempting(c))
  BY DEF Ordered, Buried
<1>3. ~running' /\ (peer' # None \/ connecting' # None) => dpc' \in {"stop", "shutdown"} \/ Has(ioq', Enders)
  BY DEF Ordered
<1>4. NotBefore(ioq', Io("shutdown"), Io("shutdown")) /\ NotBefore(ioq', Io("keepAlive"), Lasting)
  BY DEF IoCalm
<1>5. QED
  BY <1>1, <1>2, <1>3, <1>4 DEF Ordered, Io, Scheduled, Lasting, Attempting, Enders

LEMMA IoSparedCalm ==
    ASSUME Ordered, NEW D, Spares(ioq, ioq', D), \A t \in D : t.op \notin LifeOps
    PROVE  IoCalm /\ (Has(ioq, Enders) => Has(ioq', Enders))
<1> DEFINE W == {t \in IoEntries : t.op \in LifeOps}
           S == Io("shutdown")
           K == Io("keepAlive")
           L == Lasting
           N == Enders
<1>1. W \cap D = {} /\ S \in SUBSET W /\ K \in SUBSET W /\ L \in SUBSET W /\ N \in SUBSET W
  BY DEF LifeOps, Io, Lasting, Enders
<1>2. Undisturbed(ioq, ioq', W)
  BY <1>1 DEF Spares
<1>3. NotBefore(ioq, S, S) /\ NotBefore(ioq, K, L)
  BY DEF Ordered
<1> HIDE DEF W, S, K, L, N
<1>4. /\ Has(ioq', S) <=> Has(ioq, S)
      /\ Has(ioq', K) <=> Has(ioq, K)
      /\ Has(ioq', L) <=> Has(ioq, L)
      /\ Has(ioq', N) <=> Has(ioq, N)
      /\ NotBefore(ioq', S, S) /\ NotBefore(ioq', K, L)
  BY <1>1, <1>2, <1>3 DEF Undisturbed
<1>5. QED
  BY <1>4 DEF IoCalm, S, K, L, N

LEMMA IoPoppedCalm ==
    ASSUME Typed, Ordered, ioq # <<>>, ioq' = Tail(ioq) \o <<>>
    PROVE  IoCalm
<1>1. ioq \in Seq(IoEntries)
  BY DEF Typed, IoTyped
<1>2. ioq' = Tail(ioq)
  BY <1>1
<1>3. \A A, B : (Has(ioq', A) => Has(ioq, A)) /\ (NotBefore(ioq, A, B) => NotBefore(ioq', A, B))
  BY <1>1, <1>2, Popped
<1>4. NotBefore(ioq, Io("shutdown"), Io("shutdown")) /\ NotBefore(ioq, Io("keepAlive"), Lasting)
  BY DEF Ordered
<1>5. QED
  BY <1>3, <1>4 DEF IoCalm

\* While it is live, handlers may come.
LEMMA IoLiveCalm ==
    ASSUME Typed, Ordered, life = "live", NEW x \in Seq(IoEntries),
           ~Has(x, Io("shutdown")), ~Has(x, Io("keepAlive")),
           ioq' = ioq \o x \/ (ioq # <<>> /\ ioq' = Tail(ioq) \o x)
    PROVE  IoCalm
<1> DEFINE S == Io("shutdown")
           K == Io("keepAlive")
<1>1. ioq \in Seq(IoEntries)
  BY DEF Typed, IoTyped
<1>2. /\ NotBefore(ioq, S, S) /\ ~Has(ioq, K) /\ ~Has(x, S) /\ ~Has(x, K)
  BY DEF Ordered
<1> HIDE DEF S, K
<1>0. NotBefore(x, S, S)
  BY <1>2 DEF Has, NotBefore
<1>3. /\ Has(ioq', S) => Has(ioq, S)
      /\ ~Has(ioq', K)
      /\ NotBefore(ioq', S, S)
  <2>1. CASE ioq' = ioq \o x
    <3>1. \A A : Has(ioq', A) <=> Has(ioq, A) \/ Has(x, A)
      BY <1>1, <2>1, SentHas
    <3>2. NotBefore(ioq', S, S)
      BY <1>0, <1>1, <1>2, <2>1, Joined
    <3>3. QED
      BY <1>2, <3>1, <3>2
  <2>2. CASE ioq # <<>> /\ ioq' = Tail(ioq) \o x
    <3>1. Tail(ioq) \in Seq(IoEntries) /\ NotBefore(Tail(ioq), S, S) /\ ~Has(Tail(ioq), K)
          /\ (Has(Tail(ioq), S) => Has(ioq, S))
      BY <1>1, <1>2, <2>2, Popped
    <3>2. \A A : Has(ioq', A) <=> Has(Tail(ioq), A) \/ Has(x, A)
      BY <2>2, <3>1, SentHas
    <3>3. NotBefore(ioq', S, S)
      BY <1>0, <1>2, <2>2, <3>1, Joined
    <3>4. QED
      BY <1>2, <3>1, <3>2, <3>3
  <2>3. QED
    BY <2>1, <2>2
<1>4. \A B : NotBefore(ioq', K, B)
  BY <1>3 DEF Has, NotBefore
<1>5. QED
  BY <1>3, <1>4 DEF IoCalm, S, K

LEMMA DqPoppedCalm ==
    ASSUME Typed, dq # <<>>, dq' = Tail(dq) \o <<>>
    PROVE  DqCalm
<1>1. Has(dq', Scheduled) => Has(dq, Scheduled)
  <2>1. dq \in Seq(DqEntries) /\ ~Has(<<>>, Scheduled) /\ <<>> \in Seq(DqEntries)
    BY Made DEF Typed, DqTyped
  <2>2. QED
    BY <2>1, TakenHas
<1>2. QED
  BY <1>1 DEF DqCalm

LEMMA DqSparedCalm ==
    ASSUME NEW D, Spares(dq, dq', D), \A e \in D : e.op = "signal"
    PROVE  DqCalm
<1>1. Scheduled \cap D = {}
  BY DEF Scheduled
<1>2. Undisturbed(dq, dq', Scheduled)
  BY <1>1 DEF Spares
<1>3. QED
  BY <1>2 DEF Undisturbed, DqCalm

\* An entry of the client itself is run for a client that is attached.
LEMMA Attended ==
    ASSUME Typed, Ordered, dq # <<>>, E.op # "signal"
    PROVE  attached /\ life = "live"
<1>1. E \in DqEntries
  BY Heads
<1>2. E \in Scheduled
  BY <1>1 DEF Scheduled
<1>3. Has(dq, Scheduled)
  <2>1. dq \in Seq(DqEntries)
    BY DEF Typed, DqTyped
  <2>2. 1 \in DOMAIN dq /\ dq[1] = E
    BY <2>1 DEF E
  <2>3. QED
    BY <1>2, <2>2 DEF Has
<1>4. QED
  BY <1>3 DEF Ordered

\* Something the I/O thread is to do is in its queue.
LEMMA HeadHas ==
    ASSUME Typed
    PROVE  /\ ioq # <<>> => \A A : H \in A => Has(ioq, A)
           /\ dq # <<>> => \A A : E \in A => Has(dq, A)
<1>1. ASSUME ioq # <<>>, NEW A, H \in A
      PROVE  Has(ioq, A)
  <2>1. 1 \in DOMAIN ioq /\ ioq[1] = H
    BY <1>1 DEF Typed, IoTyped, H
  <2>2. QED
    BY <1>1, <2>1 DEF Has
<1>2. ASSUME dq # <<>>, NEW A, E \in A
      PROVE  Has(dq, A)
  <2>1. 1 \in DOMAIN dq /\ dq[1] = E
    BY <1>2 DEF Typed, DqTyped, E
  <2>2. QED
    BY <1>2, <2>1 DEF Has
<1>3. QED
  BY <1>1, <1>2

LEMMA NoAttempt ==
    ASSUME NEW D, Spares(ioq, ioq', D), \A t \in D : t.op \notin {"connectDone", "verified"},
           \A c \in Conns : sock'[c] = "connecting" => sock[c] = "connecting"
    PROVE  Buried
<1>1. ASSUME NEW c \in Conns
      PROVE  Has(ioq', Attempting(c)) => Has(ioq, Attempting(c))
  <2>1. Attempting(c) \cap D = {}
    BY DEF Attempting
  <2>2. Undisturbed(ioq, ioq', Attempting(c))
    BY <2>1 DEF Spares
  <2>3. QED
    BY <2>2 DEF Undisturbed
<1>2. QED
  BY <1>1 DEF Buried

LEMMA CallOrdered ==
    ASSUME Typed, Ordered, NEW op \in {"start", "stop", "invalidate"}, Call(op)
    PROVE  Ordered'
<1>1. IoCalm /\ (Has(ioq, Enders) => Has(ioq', Enders)) /\ Buried
  <2> DEFINE D == {}
  <2>1. Spares(ioq, ioq', D)
    BY SparesAll DEF Call, IoUnchanged, scopeVars, connVars, requestVars
  <2>2. \A t \in D : t.op \notin LifeOps \cup {"connectDone", "verified"}
    BY DEF Call, Running, H, LifeOps, Conn, Request, Do, Entry
  <2>3. \A k \in Conns : sock'[k] = "connecting" => sock[k] = "connecting"
    BY Heads DEF Typed, ConnTyped, Call, IoUnchanged, scopeVars, connVars, requestVars
  <2> HIDE DEF D
  <2>4. QED
    BY <2>1, <2>2, <2>3, IoSparedCalm, NoAttempt
<1>2. DqCalm
  BY DEF DqCalm, Call
<1>3. /\ UNCHANGED <<running, attached, dpc, life>>
      /\ reconnect' => reconnect \/ attached
      /\ connecting' # None => connecting # None \/ (life = "live" /\ running)
      /\ peer' # None => peer # None \/ connecting # None \/ (life = "live" /\ running)
  BY DEF Call, IoUnchanged, scopeVars, connVars, requestVars
<1>4. QED
  BY <1>1, <1>2, <1>3, OrderKept

LEMMA AsyncRequestOrdered ==
    ASSUME Typed, Ordered, NEW r \in Requests, AsyncRequest(r)
    PROVE  Ordered'
<1>1. IoCalm /\ (Has(ioq, Enders) => Has(ioq', Enders)) /\ Buried
  <2> DEFINE D == {Request("request", r)}
  <2>1. Spares(ioq, ioq', D)
    BY AsyncRequestTyped, SparesAll DEF AsyncRequest, IoUnchanged, scopeVars, connVars, requestVars
  <2>2. \A t \in D : t.op \notin LifeOps \cup {"connectDone", "verified"}
    <3>1. Request("request", r).op = "request"
      BY DEF AsyncRequest, Running, H, Conn, Request, Entry
    <3>2. QED
      BY <3>1 DEF LifeOps
  <2>3. \A k \in Conns : sock'[k] = "connecting" => sock[k] = "connecting"
    BY Heads DEF Typed, ConnTyped, AsyncRequest, IoUnchanged, scopeVars, connVars, requestVars
  <2> HIDE DEF D
  <2>4. QED
    BY <2>1, <2>2, <2>3, IoSparedCalm, NoAttempt
<1>2. DqCalm
  BY DEF DqCalm, AsyncRequest, IoUnchanged, scopeVars, connVars, requestVars
<1>3. /\ UNCHANGED <<running, attached, dpc, life>>
      /\ reconnect' => reconnect \/ attached
      /\ connecting' # None => connecting # None \/ (life = "live" /\ running)
      /\ peer' # None => peer # None \/ connecting # None \/ (life = "live" /\ running)
  BY DEF AsyncRequest, IoUnchanged, scopeVars, connVars, requestVars
<1>4. QED
  BY <1>1, <1>2, <1>3, OrderKept

LEMMA NotifyOrdered ==
    ASSUME Typed, Ordered, Notify
    PROVE  Ordered'
<1>0. attached /\ life = "live" /\ dq # <<>>
  BY Attended DEF Notify, Dispatching, E
<1>1. IoCalm /\ (Has(ioq, Enders) => Has(ioq', Enders)) /\ Buried
  <2> DEFINE D == {}
  <2>1. Spares(ioq, ioq', D)
    BY SparesAll DEF Notify, IoUnchanged, scopeVars, connVars, requestVars
  <2>2. \A t \in D : t.op \notin LifeOps \cup {"connectDone", "verified"}
    BY DEF Notify, Running, H, LifeOps, Conn, Request, Do, Entry
  <2>3. \A k \in Conns : sock'[k] = "connecting" => sock[k] = "connecting"
    BY <1>0 DEF Typed, ConnTyped, Notify, IoUnchanged, scopeVars, connVars, requestVars
  <2> HIDE DEF D
  <2>4. QED
    BY <2>1, <2>2, <2>3, IoSparedCalm, NoAttempt
<1>2. DqCalm
  BY <1>0 DEF DqCalm
<1>3. /\ UNCHANGED <<running, attached, dpc, life>>
      /\ reconnect' => reconnect \/ attached
      /\ connecting' # None => connecting # None \/ (life = "live" /\ running)
      /\ peer' # None => peer # None \/ connecting # None \/ (life = "live" /\ running)
  BY <1>0 DEF Notify, IoUnchanged, scopeVars, connVars, requestVars
<1>4. QED
  BY <1>1, <1>2, <1>3, OrderKept

LEMMA VerifyOrdered ==
    ASSUME Typed, Ordered, Verify
    PROVE  Ordered'
<1>0. attached /\ life = "live" /\ dq # <<>>
  BY Attended DEF Verify, Dispatching, E
<1>1. IoCalm /\ (Has(ioq, Enders) => Has(ioq', Enders))
  <2> DEFINE D == {Conn("verified", E.conn, E.token, "verified"), Conn("verified", E.conn, E.token, "refused")}
  <2>1. Spares(ioq, ioq', D)
    BY VerifyTyped, SparesAll DEF Verify, IoUnchanged, scopeVars, connVars, requestVars
  <2>2. \A t \in D : t.op \notin LifeOps
    BY DEF Verify, Running, H, LifeOps, Conn, Request, Do, Entry
  <2> HIDE DEF D
  <2>4. QED
    BY <2>1, <2>2, IoSparedCalm
<1>2. DqCalm
  BY <1>0 DEF DqCalm
<1>3. /\ UNCHANGED <<running, attached, dpc, life>>
      /\ reconnect' => reconnect \/ attached
      /\ connecting' # None => connecting # None \/ (life = "live" /\ running)
      /\ peer' # None => peer # None \/ connecting # None \/ (life = "live" /\ running)
  BY <1>0 DEF Verify, IoUnchanged, scopeVars, connVars, requestVars
<1>4. Buried
  BY <1>0 DEF Buried
<1>5. QED
  BY <1>1, <1>2, <1>3, <1>4, OrderKept

LEMMA DispatchSignalOrdered ==
    ASSUME Typed, Ordered, DispatchSignal
    PROVE  Ordered'
<1>1. IoCalm /\ (Has(ioq, Enders) => Has(ioq', Enders)) /\ Buried
  <2> DEFINE D == {Entry("forward", E.conn, session[E.conn], E.what, E.req)}
  <2>1. Spares(ioq, ioq', D)
    BY DispatchSignalTyped, SparesAll DEF DispatchSignal, IoUnchanged, scopeVars, connVars, requestVars
  <2>2. \A t \in D : t.op \notin LifeOps \cup {"connectDone", "verified"}
    BY DEF DispatchSignal, Running, H, LifeOps, Conn, Request, Do, Entry
  <2>3. \A k \in Conns : sock'[k] = "connecting" => sock[k] = "connecting"
    BY Heads DEF Typed, ConnTyped, DispatchSignal, IoUnchanged, scopeVars, connVars, requestVars
  <2> HIDE DEF D
  <2>4. QED
    BY <2>1, <2>2, <2>3, IoSparedCalm, NoAttempt
<1>2. DqCalm
  BY DqPoppedCalm DEF DispatchSignal, Dispatching, Dispatched
<1>3. /\ UNCHANGED <<running, attached, dpc, life>>
      /\ reconnect' => reconnect \/ attached
      /\ connecting' # None => connecting # None \/ (life = "live" /\ running)
      /\ peer' # None => peer # None \/ connecting # None \/ (life = "live" /\ running)
  BY DEF DispatchSignal, IoUnchanged, scopeVars, connVars, requestVars
<1>4. QED
  BY <1>1, <1>2, <1>3, OrderKept

LEMMA DebounceOrdered ==
    ASSUME Typed, Ordered, Debounce
    PROVE  Ordered'
<1>0. attached /\ life = "live" /\ dq # <<>>
  BY Attended DEF Debounce, Dispatching, E
<1>1. IoCalm /\ (Has(ioq, Enders) => Has(ioq', Enders)) /\ Buried
  <2> DEFINE D == {}
  <2>1. Spares(ioq, ioq', D)
    BY SparesAll DEF Debounce, IoUnchanged, scopeVars, connVars, requestVars
  <2>2. \A t \in D : t.op \notin LifeOps \cup {"connectDone", "verified"}
    BY DEF Debounce, Running, H, LifeOps, Conn, Request, Do, Entry
  <2>3. \A k \in Conns : sock'[k] = "connecting" => sock[k] = "connecting"
    BY <1>0 DEF Typed, ConnTyped, Debounce, IoUnchanged, scopeVars, connVars, requestVars
  <2> HIDE DEF D
  <2>4. QED
    BY <2>1, <2>2, <2>3, IoSparedCalm, NoAttempt
<1>2. DqCalm
  BY <1>0 DEF DqCalm
<1>3. /\ UNCHANGED <<running, attached, dpc, life>>
      /\ reconnect' => reconnect \/ attached
      /\ connecting' # None => connecting # None \/ (life = "live" /\ running)
      /\ peer' # None => peer # None \/ connecting # None \/ (life = "live" /\ running)
  BY <1>0 DEF Debounce, IoUnchanged, scopeVars, connVars, requestVars
<1>4. QED
  BY <1>1, <1>2, <1>3, OrderKept

LEMMA ReconnectOrdered ==
    ASSUME Typed, Ordered, Reconnect
    PROVE  Ordered'
<1>1. IoCalm /\ (Has(ioq, Enders) => Has(ioq', Enders)) /\ Buried
  <2> DEFINE D == {Conn("connect", None, generation, "")}
  <2>1. Spares(ioq, ioq', D)
    BY ReconnectTyped, SparesAll DEF Reconnect, IoUnchanged, scopeVars, connVars, requestVars
  <2>2. \A t \in D : t.op \notin LifeOps \cup {"connectDone", "verified"}
    <3>1. Conn("connect", None, generation, "").op = "connect"
      BY DEF Reconnect, Running, H, Conn, Request, Entry
    <3>2. QED
      BY <3>1 DEF LifeOps
  <2>3. \A k \in Conns : sock'[k] = "connecting" => sock[k] = "connecting"
    BY Heads DEF Typed, ConnTyped, Reconnect, IoUnchanged, scopeVars, connVars, requestVars
  <2> HIDE DEF D
  <2>4. QED
    BY <2>1, <2>2, <2>3, IoSparedCalm, NoAttempt
<1>2. DqCalm
  BY DEF DqCalm, Reconnect, IoUnchanged, scopeVars, connVars, requestVars
<1>3. /\ UNCHANGED <<running, attached, dpc, life>>
      /\ reconnect' => reconnect \/ attached
      /\ connecting' # None => connecting # None \/ (life = "live" /\ running)
      /\ peer' # None => peer # None \/ connecting # None \/ (life = "live" /\ running)
  BY DEF Reconnect, IoUnchanged, scopeVars, connVars, requestVars
<1>4. QED
  BY <1>1, <1>2, <1>3, OrderKept

LEMMA CallBackOrdered ==
    ASSUME Typed, Ordered, CallBack
    PROVE  Ordered'
<1>0. attached /\ life = "live" /\ dq # <<>>
  BY Attended DEF CallBack, Dispatching, E
<1>1. IoCalm /\ (Has(ioq, Enders) => Has(ioq', Enders)) /\ Buried
  <2> DEFINE D == {}
  <2>1. Spares(ioq, ioq', D)
    BY SparesAll DEF CallBack, IoUnchanged, scopeVars, connVars, requestVars
  <2>2. \A t \in D : t.op \notin LifeOps \cup {"connectDone", "verified"}
    BY DEF CallBack, Running, H, LifeOps, Conn, Request, Do, Entry
  <2>3. \A k \in Conns : sock'[k] = "connecting" => sock[k] = "connecting"
    BY <1>0 DEF Typed, ConnTyped, CallBack, IoUnchanged, scopeVars, connVars, requestVars
  <2> HIDE DEF D
  <2>4. QED
    BY <2>1, <2>2, <2>3, IoSparedCalm, NoAttempt
<1>2. DqCalm
  BY <1>0 DEF DqCalm
<1>3. /\ UNCHANGED <<running, attached, dpc, life>>
      /\ reconnect' => reconnect \/ attached
      /\ connecting' # None => connecting # None \/ (life = "live" /\ running)
      /\ peer' # None => peer # None \/ connecting # None \/ (life = "live" /\ running)
  BY <1>0 DEF CallBack, IoUnchanged, scopeVars, connVars, requestVars
<1>4. QED
  BY <1>1, <1>2, <1>3, OrderKept

LEMMA ConnectIgnoredOrdered ==
    ASSUME Typed, Ordered, ConnectIgnored
    PROVE  Ordered'
<1>1. IoCalm /\ (Has(ioq, Enders) => Has(ioq', Enders)) /\ Buried
  <2> DEFINE D == {H}
  <2>1. Spares(ioq, ioq', D)
    BY ConnectIgnoredTyped, SparesAll DEF ConnectIgnored, IoUnchanged, scopeVars, connVars, requestVars
  <2>2. \A t \in D : t.op \notin LifeOps \cup {"connectDone", "verified"}
    BY DEF ConnectIgnored, Running, H, LifeOps, Conn, Request, Do, Entry
  <2>3. \A k \in Conns : sock'[k] = "connecting" => sock[k] = "connecting"
    BY Heads DEF Typed, ConnTyped, ConnectIgnored, IoUnchanged, scopeVars, connVars, requestVars
  <2> HIDE DEF D
  <2>4. QED
    BY <2>1, <2>2, <2>3, IoSparedCalm, NoAttempt
<1>2. DqCalm
  BY DEF DqCalm, ConnectIgnored, IoUnchanged, scopeVars, connVars, requestVars
<1>3. /\ UNCHANGED <<running, attached, dpc, life>>
      /\ reconnect' => reconnect \/ attached
      /\ connecting' # None => connecting # None \/ (life = "live" /\ running)
      /\ peer' # None => peer # None \/ connecting # None \/ (life = "live" /\ running)
  BY DEF ConnectIgnored, IoUnchanged, scopeVars, connVars, requestVars
<1>4. QED
  BY <1>1, <1>2, <1>3, OrderKept

LEMMA ConnectBadPathOrdered ==
    ASSUME Typed, Ordered, ConnectBadPath
    PROVE  Ordered'
<1>1. IoCalm /\ (Has(ioq, Enders) => Has(ioq', Enders)) /\ Buried
  <2> DEFINE D == {H}
  <2>1. Spares(ioq, ioq', D)
    BY ConnectBadPathTyped, SparesAll DEF ConnectBadPath, IoUnchanged, scopeVars, connVars, requestVars
  <2>2. \A t \in D : t.op \notin LifeOps \cup {"connectDone", "verified"}
    BY DEF ConnectBadPath, Running, H, LifeOps, Conn, Request, Do, Entry
  <2>3. \A k \in Conns : sock'[k] = "connecting" => sock[k] = "connecting"
    BY Heads DEF Typed, ConnTyped, ConnectBadPath, IoUnchanged, scopeVars, connVars, requestVars
  <2> HIDE DEF D
  <2>4. QED
    BY <2>1, <2>2, <2>3, IoSparedCalm, NoAttempt
<1>2. DqCalm
  BY DEF DqCalm, ConnectBadPath, Enqueue
<1>3. /\ UNCHANGED <<running, attached, dpc, life>>
      /\ reconnect' => reconnect \/ attached
      /\ connecting' # None => connecting # None \/ (life = "live" /\ running)
      /\ peer' # None => peer # None \/ connecting # None \/ (life = "live" /\ running)
  BY DEF ConnectBadPath, IoUnchanged, scopeVars, connVars, requestVars
<1>4. QED
  BY <1>1, <1>2, <1>3, OrderKept

LEMMA ConnectBeginsOrdered ==
    ASSUME Typed, Ordered, NEW c \in Conns, ConnectBegins(c)
    PROVE  Ordered'
<1>0. life = "live" /\ running
  <2>1. running /\ dpc \in {"idle", "stop", "invalidate", "shutdown"}
    BY DEF ConnectBegins, MayConnect, IsCurrent, Typed, ScopeTyped
  <2>2. QED
    BY <2>1 DEF Ordered
<1>1. IoCalm /\ (Has(ioq, Enders) => Has(ioq', Enders))
  <2> DEFINE D == {H}
  <2>1. Spares(ioq, ioq', D)
    BY ConnectBeginsTyped, SparesAll DEF ConnectBegins, IoUnchanged, scopeVars, connVars, requestVars
  <2>2. \A t \in D : t.op \notin LifeOps
    BY DEF ConnectBegins, Running, H, LifeOps, Conn, Request, Do, Entry
  <2> HIDE DEF D
  <2>4. QED
    BY <2>1, <2>2, IoSparedCalm
<1>2. DqCalm
  BY DEF DqCalm, ConnectBegins, IoUnchanged, scopeVars, connVars, requestVars
<1>3. /\ UNCHANGED <<running, attached, dpc, life>>
      /\ reconnect' => reconnect \/ attached
      /\ connecting' # None => connecting # None \/ (life = "live" /\ running)
      /\ peer' # None => peer # None \/ connecting # None \/ (life = "live" /\ running)
  BY <1>0 DEF ConnectBegins, IoUnchanged, scopeVars, connVars, requestVars
<1>4. Buried
  BY <1>0 DEF Buried
<1>5. QED
  BY <1>1, <1>2, <1>3, <1>4, OrderKept

LEMMA ConnectsOrdered ==
    ASSUME Typed, Ordered, NEW c \in Conns, NEW outcome \in {"connected", "failed"}, Connects(c, outcome)
    PROVE  Ordered'
<1>0. life # "destroyed"
  BY DEF Ordered, Connects
<1>1. IoCalm /\ (Has(ioq, Enders) => Has(ioq', Enders))
  <2> DEFINE D == {Conn("connectDone", c, session[c], outcome)}
  <2>1. Spares(ioq, ioq', D)
    BY ConnectsTyped, SparesAll DEF Connects, IoUnchanged, scopeVars, connVars, requestVars
  <2>2. \A t \in D : t.op \notin LifeOps
    BY DEF Connects, Running, H, LifeOps, Conn, Request, Do, Entry
  <2> HIDE DEF D
  <2>4. QED
    BY <2>1, <2>2, IoSparedCalm
<1>2. DqCalm
  BY DEF DqCalm, Connects, IoUnchanged, scopeVars, connVars, requestVars
<1>3. /\ UNCHANGED <<running, attached, dpc, life>>
      /\ reconnect' => reconnect \/ attached
      /\ connecting' # None => connecting # None \/ (life = "live" /\ running)
      /\ peer' # None => peer # None \/ connecting # None \/ (life = "live" /\ running)
  BY <1>0 DEF Connects, IoUnchanged, scopeVars, connVars, requestVars
<1>4. Buried
  BY <1>0 DEF Buried
<1>5. QED
  BY <1>1, <1>2, <1>3, <1>4, OrderKept

LEMMA ConnectDoneOrdered ==
    ASSUME Typed, Ordered, ConnectDone
    PROVE  Ordered'
<1>0. life # "destroyed"
  <2>1. ioq # <<>> /\ H \in IoEntries /\ H.op = "connectDone"
    BY Heads DEF ConnectDone, Running, H
  <2>2. H.conn \in Conns /\ H \in Attempting(H.conn)
    BY <2>1, IoRead DEF Attempting
  <2>3. QED
    BY <2>1, <2>2, HeadHas DEF Ordered
<1>1. IoCalm /\ (Has(ioq, Enders) => Has(ioq', Enders))
  <2> DEFINE D == {H}
  <2>1. Spares(ioq, ioq', D)
    BY ConnectDoneTyped, SparesAll DEF ConnectDone, IoUnchanged, scopeVars, connVars, requestVars
  <2>2. \A t \in D : t.op \notin LifeOps
    BY DEF ConnectDone, Running, H, LifeOps, Conn, Request, Do, Entry
  <2> HIDE DEF D
  <2>4. QED
    BY <2>1, <2>2, IoSparedCalm
<1>2. DqCalm
  BY DEF DqCalm, ConnectDone, Enqueue
<1>3. /\ UNCHANGED <<running, attached, dpc, life>>
      /\ reconnect' => reconnect \/ attached
      /\ connecting' # None => connecting # None \/ (life = "live" /\ running)
      /\ peer' # None => peer # None \/ connecting # None \/ (life = "live" /\ running)
  BY <1>0 DEF ConnectDone, IoUnchanged, scopeVars, connVars, requestVars
<1>4. Buried
  BY <1>0 DEF Buried
<1>5. QED
  BY <1>1, <1>2, <1>3, <1>4, OrderKept

LEMMA HandleConnectedSocketOrdered ==
    ASSUME Typed, Ordered, HandleConnectedSocket
    PROVE  Ordered'
<1>0. life # "destroyed"
  <2>1. ioq # <<>> /\ H \in IoEntries /\ H.op = "verified"
    BY Heads DEF HandleConnectedSocket, Running, H
  <2>2. H.conn \in Conns /\ H \in Attempting(H.conn)
    BY <2>1, IoRead DEF Attempting
  <2>3. QED
    BY <2>1, <2>2, HeadHas DEF Ordered
<1>1. IoCalm /\ (Has(ioq, Enders) => Has(ioq', Enders))
  <2> DEFINE D == {H, Conn("peerStart", H.conn, 0, ""), Conn("announce", H.conn, H.token, "")}
  <2>1. Spares(ioq, ioq', D)
    BY HandleConnectedSocketTyped, SparesAll DEF HandleConnectedSocket, IoUnchanged, scopeVars, connVars, requestVars
  <2>2. \A t \in D : t.op \notin LifeOps
    <3>1. /\ H.op = "verified" /\ Conn("peerStart", H.conn, 0, "").op = "peerStart"
          /\ Conn("announce", H.conn, H.token, "").op = "announce"
      BY DEF HandleConnectedSocket, Running, H, Conn, Request, Entry
    <3>2. QED
      BY <3>1 DEF LifeOps
  <2> HIDE DEF D
  <2>4. QED
    BY <2>1, <2>2, IoSparedCalm
<1>2. DqCalm
  BY DEF DqCalm, HandleConnectedSocket, Enqueue
<1>3. /\ UNCHANGED <<running, attached, dpc, life>>
      /\ reconnect' => reconnect \/ attached
      /\ connecting' # None => connecting # None \/ (life = "live" /\ running)
      /\ peer' # None => peer # None \/ connecting # None \/ (life = "live" /\ running)
  BY <1>0 DEF HandleConnectedSocket, IoUnchanged, scopeVars, connVars, requestVars
<1>4. Buried
  BY <1>0 DEF Buried
<1>5. QED
  BY <1>1, <1>2, <1>3, <1>4, OrderKept

LEMMA AnnounceOrdered ==
    ASSUME Typed, Ordered, Announce
    PROVE  Ordered'
<1>1. IoCalm /\ (Has(ioq, Enders) => Has(ioq', Enders)) /\ Buried
  <2> DEFINE D == {H}
  <2>1. Spares(ioq, ioq', D)
    BY AnnounceTyped, SparesAll DEF Announce, IoUnchanged, scopeVars, connVars, requestVars
  <2>2. \A t \in D : t.op \notin LifeOps \cup {"connectDone", "verified"}
    BY DEF Announce, Running, H, LifeOps, Conn, Request, Do, Entry
  <2>3. \A k \in Conns : sock'[k] = "connecting" => sock[k] = "connecting"
    BY Heads DEF Typed, ConnTyped, Announce, IoUnchanged, scopeVars, connVars, requestVars
  <2> HIDE DEF D
  <2>4. QED
    BY <2>1, <2>2, <2>3, IoSparedCalm, NoAttempt
<1>2. DqCalm
  BY DEF DqCalm, Announce, Enqueue
<1>3. /\ UNCHANGED <<running, attached, dpc, life>>
      /\ reconnect' => reconnect \/ attached
      /\ connecting' # None => connecting # None \/ (life = "live" /\ running)
      /\ peer' # None => peer # None \/ connecting # None \/ (life = "live" /\ running)
  BY DEF Announce, IoUnchanged, scopeVars, connVars, requestVars
<1>4. QED
  BY <1>1, <1>2, <1>3, OrderKept

LEMMA PeerStartOrdered ==
    ASSUME Typed, Ordered, PeerStart
    PROVE  Ordered'
<1>1. IoCalm /\ (Has(ioq, Enders) => Has(ioq', Enders)) /\ Buried
  <2> DEFINE D == {H}
  <2>1. Spares(ioq, ioq', D)
    BY PeerStartTyped, SparesAll DEF PeerStart, IoUnchanged, scopeVars, connVars, requestVars
  <2>2. \A t \in D : t.op \notin LifeOps \cup {"connectDone", "verified"}
    BY DEF PeerStart, Running, H, LifeOps, Conn, Request, Do, Entry
  <2>3. \A k \in Conns : sock'[k] = "connecting" => sock[k] = "connecting"
    BY Heads DEF Typed, ConnTyped, PeerStart, IoUnchanged, scopeVars, connVars, requestVars
  <2> HIDE DEF D
  <2>4. QED
    BY <2>1, <2>2, <2>3, IoSparedCalm, NoAttempt
<1>2. DqCalm
  BY DEF DqCalm, PeerStart, IoUnchanged, scopeVars, connVars, requestVars
<1>3. /\ UNCHANGED <<running, attached, dpc, life>>
      /\ reconnect' => reconnect \/ attached
      /\ connecting' # None => connecting # None \/ (life = "live" /\ running)
      /\ peer' # None => peer # None \/ connecting # None \/ (life = "live" /\ running)
  BY DEF PeerStart, IoUnchanged, scopeVars, connVars, requestVars
<1>4. QED
  BY <1>1, <1>2, <1>3, OrderKept

LEMMA PeerReadsOrdered ==
    ASSUME Typed, Ordered, NEW c \in Conns, PeerReads(c)
    PROVE  Ordered'
<1>1. IoCalm /\ (Has(ioq, Enders) => Has(ioq', Enders)) /\ Buried
  <2> DEFINE D == {}
  <2>1. Spares(ioq, ioq', D)
    BY SparesAll DEF PeerReads, IoUnchanged, scopeVars, connVars, requestVars
  <2>2. \A t \in D : t.op \notin LifeOps \cup {"connectDone", "verified"}
    BY DEF PeerReads, Running, H, LifeOps, Conn, Request, Do, Entry
  <2>3. \A k \in Conns : sock'[k] = "connecting" => sock[k] = "connecting"
    BY Heads DEF Typed, ConnTyped, PeerReads, IoUnchanged, scopeVars, connVars, requestVars
  <2> HIDE DEF D
  <2>4. QED
    BY <2>1, <2>2, <2>3, IoSparedCalm, NoAttempt
<1>2. DqCalm
  <2>1. Spares(dq, dq', SignalsOf(c) \ EndsOf(c))
    BY PeerReadsTyped
  <2>2. \A e \in SignalsOf(c) \ EndsOf(c) : e.op = "signal"
    BY DEF SignalsOf, Signal, Entry
  <2>3. QED
    BY <2>1, <2>2, DqSparedCalm
<1>3. /\ UNCHANGED <<running, attached, dpc, life>>
      /\ reconnect' => reconnect \/ attached
      /\ connecting' # None => connecting # None \/ (life = "live" /\ running)
      /\ peer' # None => peer # None \/ connecting # None \/ (life = "live" /\ running)
  BY DEF PeerReads, IoUnchanged, scopeVars, connVars, requestVars
<1>4. QED
  BY <1>1, <1>2, <1>3, OrderKept

LEMMA PeerEndsOrdered ==
    ASSUME Typed, Ordered, NEW c \in Conns, PeerEnds(c)
    PROVE  Ordered'
<1>1. IoCalm /\ (Has(ioq, Enders) => Has(ioq', Enders)) /\ Buried
  <2> DEFINE D == {}
  <2>1. Spares(ioq, ioq', D)
    BY SparesAll DEF PeerEnds, IoUnchanged, scopeVars, connVars, requestVars
  <2>2. \A t \in D : t.op \notin LifeOps \cup {"connectDone", "verified"}
    BY DEF PeerEnds, Running, H, LifeOps, Conn, Request, Do, Entry
  <2>3. \A k \in Conns : sock'[k] = "connecting" => sock[k] = "connecting"
    BY Heads DEF Typed, ConnTyped, PeerEnds, IoUnchanged, scopeVars, connVars, requestVars
  <2> HIDE DEF D
  <2>4. QED
    BY <2>1, <2>2, <2>3, IoSparedCalm, NoAttempt
<1>2. DqCalm
  <2>1. Spares(dq, dq', {Signal("error", c, None), Signal("closed", c, None)})
    BY PeerEndsTyped
  <2>2. \A e \in {Signal("error", c, None), Signal("closed", c, None)} : e.op = "signal"
    BY DEF SignalsOf, Signal, Entry
  <2>3. QED
    BY <2>1, <2>2, DqSparedCalm
<1>3. /\ UNCHANGED <<running, attached, dpc, life>>
      /\ reconnect' => reconnect \/ attached
      /\ connecting' # None => connecting # None \/ (life = "live" /\ running)
      /\ peer' # None => peer # None \/ connecting # None \/ (life = "live" /\ running)
  BY DEF PeerEnds, IoUnchanged, scopeVars, connVars, requestVars
<1>4. QED
  BY <1>1, <1>2, <1>3, OrderKept

LEMMA ReleaseOrdered ==
    ASSUME Typed, Ordered, NEW c \in Conns, Release(c)
    PROVE  Ordered'
<1>1. IoCalm /\ (Has(ioq, Enders) => Has(ioq', Enders)) /\ Buried
  <2> DEFINE D == {}
  <2>1. Spares(ioq, ioq', D)
    BY SparesAll DEF Release, IoUnchanged, scopeVars, connVars, requestVars
  <2>2. \A t \in D : t.op \notin LifeOps \cup {"connectDone", "verified"}
    BY DEF Release, Running, H, LifeOps, Conn, Request, Do, Entry
  <2>3. \A k \in Conns : sock'[k] = "connecting" => sock[k] = "connecting"
    BY Heads DEF Typed, ConnTyped, Release, IoUnchanged, scopeVars, connVars, requestVars
  <2> HIDE DEF D
  <2>4. QED
    BY <2>1, <2>2, <2>3, IoSparedCalm, NoAttempt
<1>2. DqCalm
  <2>1. \A A : Has(dq', A) => Has(dq, A)
    BY ReleaseTyped
  <2>2. QED
    BY <2>1 DEF DqCalm
<1>3. /\ UNCHANGED <<running, attached, dpc, life>>
      /\ reconnect' => reconnect \/ attached
      /\ connecting' # None => connecting # None \/ (life = "live" /\ running)
      /\ peer' # None => peer # None \/ connecting # None \/ (life = "live" /\ running)
  BY DEF Release, IoUnchanged, scopeVars, connVars, requestVars
<1>4. QED
  BY <1>1, <1>2, <1>3, OrderKept

LEMMA SendRequestOrdered ==
    ASSUME Typed, Ordered, SendRequest
    PROVE  Ordered'
<1>1. IoCalm /\ (Has(ioq, Enders) => Has(ioq', Enders)) /\ Buried
  <2> DEFINE D == {H}
  <2>1. Spares(ioq, ioq', D)
    BY SendRequestTyped, SparesAll DEF SendRequest, IoUnchanged, scopeVars, connVars, requestVars
  <2>2. \A t \in D : t.op \notin LifeOps \cup {"connectDone", "verified"}
    BY DEF SendRequest, Running, H, LifeOps, Conn, Request, Do, Entry
  <2>3. \A k \in Conns : sock'[k] = "connecting" => sock[k] = "connecting"
    BY Heads DEF Typed, ConnTyped, SendRequest, IoUnchanged, scopeVars, connVars, requestVars
  <2> HIDE DEF D
  <2>4. QED
    BY <2>1, <2>2, <2>3, IoSparedCalm, NoAttempt
<1>2. DqCalm
  BY DEF DqCalm, SendRequest, Enqueue
<1>3. /\ UNCHANGED <<running, attached, dpc, life>>
      /\ reconnect' => reconnect \/ attached
      /\ connecting' # None => connecting # None \/ (life = "live" /\ running)
      /\ peer' # None => peer # None \/ connecting # None \/ (life = "live" /\ running)
  BY DEF SendRequest, IoUnchanged, scopeVars, connVars, requestVars
<1>4. QED
  BY <1>1, <1>2, <1>3, OrderKept

-----------------------------------------------------------------------------
\* Requests wait for a peer.

LEMMA WaitsForward == Typed /\ PendingHasPeer /\ Forward => PendingHasPeer'
<1> SUFFICES ASSUME Typed, PendingHasPeer, Forward
             PROVE  PendingHasPeer'
  OBVIOUS
<1>1. CASE UNCHANGED <<dq, requestVars, peer>>
  BY <1>1 DEF PendingHasPeer, requestVars
<1>2. CASE peer' = peer /\ pending' \subseteq pending
  BY <1>2 DEF PendingHasPeer
<1>3. CASE H.what = "closed" /\ pending' = pending \ ToSet(AllPending)
  <2>1. pending' = {}
    BY <1>3, Listed
  <2>2. QED
    BY <2>1 DEF PendingHasPeer
<1>4. QED
  BY <1>1, <1>2, <1>3 DEF Forward, Completing

LEMMA WaitsRequestTimeout == Typed /\ PendingHasPeer /\ RequestTimeout => PendingHasPeer'
<1> SUFFICES ASSUME Typed, PendingHasPeer, RequestTimeout
             PROVE  PendingHasPeer'
  OBVIOUS
<1>1. CASE peer' = peer /\ pending' \subseteq pending
  BY <1>1 DEF PendingHasPeer
<1>2. CASE H.req \in pending /\ pending' = pending \ ToSet(<<H.req>> \o SetToSeq(pending \ {H.req}))
  <2> DEFINE s == SetToSeq(pending \ {H.req})
  <2>1. /\ H.req \in Requests
        /\ s \in Seq(Requests) /\ ToSet(s) = pending \ {H.req}
    BY <1>2, Listed DEF Typed, RequestTyped
  <2> HIDE DEF s
  <2>2. ToSet(<<H.req>> \o s) = {H.req} \cup ToSet(s)
    BY <2>1, ToSetJoined
  <2>3. pending' = {}
    BY <1>2, <2>1, <2>2 DEF s
  <2>4. QED
    BY <2>3 DEF PendingHasPeer
<1>3. CASE UNCHANGED <<requestVars, peer>>
  BY <1>3 DEF PendingHasPeer, requestVars
<1>4. QED
  BY <1>1, <1>2, <1>3 DEF RequestTimeout, Completing, requestVars

LEMMA WaitsEnd == Typed /\ PendingHasPeer /\ (EndConnection \/ Shutdown) => PendingHasPeer'
<1> SUFFICES ASSUME Typed, PendingHasPeer, EndConnection \/ Shutdown
             PROVE  PendingHasPeer'
  OBVIOUS
<1>1. CASE pending' = pending \ ToSet(PendingOfPeer)
  <2>1. pending' = {}
    BY <1>1, Listed DEF PendingOfPeer, PendingHasPeer
  <2>2. QED
    BY <2>1 DEF PendingHasPeer
<1>2. CASE UNCHANGED <<pending, peer>>
  BY <1>2 DEF PendingHasPeer
<1>3. QED
  BY <1>1, <1>2 DEF EndConnection, Shutdown, Completing, requestVars

LEMMA WaitsStep == Typed /\ PendingHasPeer /\ [Next]_vars => PendingHasPeer'
<1> SUFFICES ASSUME Typed, PendingHasPeer, [Next]_vars
             PROVE  PendingHasPeer'
  OBVIOUS
<1>0. CASE UNCHANGED <<pending, peer>>
  BY <1>0 DEF PendingHasPeer
<1>1. CASE \E op \in {"start", "stop", "invalidate"} : Call(op)
  BY <1>1, <1>0 DEF Call, requestVars, connVars
<1>2. CASE \E r \in Requests : AsyncRequest(r) \/ TimerExpires(r)
  BY <1>2, <1>0 DEF AsyncRequest, TimerExpires, requestVars, connVars
<1>3. CASE DispatcherStep \/ Reconnect \/ Detach
  BY <1>3, <1>0 DEF DispatcherStep, Reconnect, Detach, Start, EndSession, PostEndOfSession, Notify,
     Verify, DispatchSignal, Debounce, CallBack, PostShutdown, requestVars, connVars
<1>4. CASE IoStep \/ Destroy
  <2>1. CASE \/ ConnectIgnored \/ ConnectBadPath \/ Announce \/ PeerStart \/ PeerClose \/ KeepAlive
             \/ ConnectDone \/ Destroy \/ \E c \in Conns : ConnectBegins(c)
    BY <2>1, <1>0 DEF ConnectIgnored, ConnectBadPath, Announce, PeerStart, PeerClose, KeepAlive,
       ConnectDone, Destroy, ConnectBegins, requestVars, connVars
  <2>2. CASE HandleConnectedSocket
    <3>1. H.conn # None
      BY <2>2, Heads, IoRead, Names DEF HandleConnectedSocket, Running, H
    <3>2. pending' = pending /\ peer' \in {peer, H.conn}
      BY <2>2 DEF HandleConnectedSocket, requestVars
    <3>3. QED
      BY <3>1, <3>2 DEF PendingHasPeer
  <2>3. CASE SendRequest
    <3>1. peer' = peer /\ (peer = None => pending' = pending)
      BY <2>3 DEF SendRequest, connVars
    <3>2. QED
      BY <3>1 DEF PendingHasPeer
  <2>4. QED
    BY <1>4, <2>1, <2>2, <2>3, WaitsForward, WaitsRequestTimeout, WaitsEnd DEF IoStep
<1>5. CASE \E c \in Conns : \/ \E outcome \in {"connected", "failed"} : Connects(c, outcome)
                            \/ PeerReads(c) \/ PeerEnds(c) \/ Release(c)
  BY <1>5, <1>0 DEF Connects, PeerReads, PeerEnds, Release, requestVars, connVars
<1>6. CASE UNCHANGED vars
  BY <1>6, <1>0 DEF vars, requestVars, connVars
<1>7. QED
  BY <1>1, <1>2, <1>3, <1>4, <1>5, <1>6 DEF Next, Destroyed

\* A request waits only while there is a peer: whatever ends the peer (its end, stop, invalidate,
\* a timeout with invalidate_connection_on_request_error, the shutdown) completes the requests.
THEOREM Waits == Spec => []PendingHasPeer
<1>1. Init => PendingHasPeer
  BY DEF Init, PendingHasPeer
<1>2. QED
  BY <1>1, TypedInit, TypedStep, WaitsStep, PTL DEF Spec

-----------------------------------------------------------------------------
\* The steps that are about the life of the client.

LEMMA StartOrdered ==
    ASSUME Typed, Ordered, Start
    PROVE  Ordered'
<1>0. attached /\ life = "live" /\ dq # <<>> /\ dpc = "idle"
  BY Attended DEF Start, Dispatching, E
<1>1. IoCalm
  <2> DEFINE D == {Conn("connect", None, generation, "")}
  <2>1. Spares(ioq, ioq', D)
    BY StartTyped
  <2>2. \A t \in D : t.op \notin LifeOps
    <3>1. Conn("connect", None, generation, "").op = "connect"
      BY DEF Conn, Entry
    <3>2. QED
      BY <3>1 DEF LifeOps
  <2> HIDE DEF D
  <2>3. QED
    BY <2>1, <2>2, IoSparedCalm
<1>2. attached' /\ life' = "live" /\ dpc' = "idle" /\ running'
  BY <1>0 DEF Start, scopeVars
<1>3. QED
  BY <1>0, <1>1, <1>2 DEF Ordered, IoCalm, Io, Lasting

LEMMA EndSessionOrdered ==
    ASSUME Typed, Ordered, NEW op \in {"stop", "invalidate"}, EndSession(op)
    PROVE  Ordered'
<1>0. attached /\ life = "live" /\ dq # <<>> /\ dpc = "idle"
  BY Attended DEF EndSession, Dispatching, E
<1>1. /\ attached' /\ life' = "live" /\ dpc' = op /\ ioq' = ioq /\ connecting' = connecting /\ peer' = peer
      /\ op = "invalidate" => running' = running
  BY <1>0 DEF EndSession, connVars
<1>2. ~running' /\ (peer' # None \/ connecting' # None) => dpc' = "stop" \/ Has(ioq', Enders)
  <2>1. CASE op = "stop"
    BY <1>1, <2>1
  <2>2. CASE op = "invalidate"
    BY <1>0, <1>1, <2>2 DEF Ordered
  <2>3. QED
    BY <2>1, <2>2
<1>3. dpc' # "shutdown"
  BY <1>1
<1>4. QED
  BY <1>0, <1>1, <1>2, <1>3 DEF Ordered, Io, Lasting, Enders

LEMMA PostEndOfSessionOrdered ==
    ASSUME Typed, Ordered, PostEndOfSession
    PROVE  Ordered'
<1>0. attached /\ life = "live" /\ dpc \in {"stop", "invalidate"} /\ dpc' = "idle"
      /\ UNCHANGED <<attached, life, running, connecting, peer>>
  BY DEF PostEndOfSession, Ordered, scopeVars, connVars
<1> DEFINE e == Conn(dpc, None, generation, "")
<1>1. e.op = dpc /\ e \in IoEntries /\ <<e>> \in Seq(IoEntries) /\ ioq' = ioq \o <<e>>
  <2>1. e \in IoEntries
    BY <1>0, IoMade, Numbers
  <2>2. e.op = dpc /\ ioq' = ioq \o <<e>>
    BY DEF Conn, Entry, PostEndOfSession, Post
  <2> HIDE DEF e
  <2>3. QED
    BY <2>1, <2>2, Said
<1> HIDE DEF e
<1>2. ioq \in Seq(IoEntries)
  BY DEF Typed, IoTyped
<1>3. \A A : (Has(<<e>>, A) <=> e \in A) /\ (Has(ioq', A) <=> Has(ioq, A) \/ e \in A)
  <2>1. \A A : Has(<<e>>, A) <=> e \in A
    BY Literals
  <2>2. \A A : Has(ioq', A) <=> Has(ioq, A) \/ Has(<<e>>, A)
    BY <1>1, <1>2, SentHas
  <2>3. QED
    BY <2>1, <2>2
<1>4. IoCalm
  <2>1. e \notin Io("shutdown") /\ e \notin Io("keepAlive")
    BY <1>0, <1>1 DEF Io
  <2>2. QED
    BY <1>0, <1>1, <1>3, <2>1, IoLiveCalm
<1>5. ~running' /\ (peer' # None \/ connecting' # None) => Has(ioq', Enders)
  <2>1. CASE dpc = "stop"
    <3>1. e \in Enders
      BY <1>1, <2>1 DEF Enders
    <3>2. QED
      BY <1>3, <3>1
  <2>2. CASE dpc = "invalidate"
    BY <1>0, <1>3, <2>2 DEF Ordered
  <2>3. QED
    BY <1>0, <2>1, <2>2
<1>6. QED
  BY <1>0, <1>4, <1>5 DEF Ordered, IoCalm, Io, Lasting, Enders

LEMMA DetachOrdered ==
    ASSUME Typed, Ordered, Detach
    PROVE  Ordered'
<1>0. /\ life' = "live" /\ life = "live" /\ attached /\ ~attached' /\ ~Has(dq', Scheduled) /\ ~reconnect'
      /\ dpc' = "shutdown" /\ UNCHANGED <<ioq, running, connecting, peer, sock>>
  BY DetachTyped DEF Detach, Ordered, connVars
<1>1. QED
  BY <1>0 DEF Ordered, Io, Scheduled, Lasting, Enders

LEMMA PostShutdownOrdered ==
    ASSUME Typed, Ordered, PostShutdown
    PROVE  Ordered'
<1> DEFINE e == Do("shutdown")
           S == Io("shutdown")
           K == Io("keepAlive")
<1>0. /\ life = "live" /\ ~attached /\ ~Has(ioq, S) /\ ~Has(ioq, K) /\ dpc' = "idle" /\ ~running'
      /\ UNCHANGED <<attached, life, dq, reconnect, connecting, peer, sock>>
  BY DEF PostShutdown, Ordered, connVars
<1>1. e.op = "shutdown" /\ e \in IoEntries /\ <<e>> \in Seq(IoEntries) /\ ioq' = ioq \o <<e>>
  <2>1. e \in IoEntries
    BY IoMade
  <2>2. e.op = "shutdown" /\ ioq' = ioq \o <<e>>
    BY DEF Do, Entry, PostShutdown, Post
  <2> HIDE DEF e
  <2>3. QED
    BY <2>1, <2>2, Said
<1>2. ioq \in Seq(IoEntries) /\ e \notin K /\ e \in Enders
  BY <1>1 DEF Typed, IoTyped, Io, Enders
<1> HIDE DEF e, S, K
<1>3. \A A : (Has(<<e>>, A) <=> e \in A) /\ (Has(ioq', A) <=> Has(ioq, A) \/ e \in A)
  <2>1. \A A : Has(<<e>>, A) <=> e \in A
    BY Literals
  <2>2. \A A : Has(ioq', A) <=> Has(ioq, A) \/ Has(<<e>>, A)
    BY <1>1, <1>2, SentHas
  <2>3. QED
    BY <2>1, <2>2
<1>4. NotBefore(ioq', S, S)
  <2>1. NotBefore(<<e>>, S, S) /\ NotBefore(ioq, S, S)
    BY <1>0, Literals DEF NotBefore, Has
  <2>2. QED
    BY <1>0, <1>1, <1>2, <2>1, Joined
<1>5. ~Has(ioq', K) /\ NotBefore(ioq', K, Lasting)
  <2>1. ~Has(ioq', K)
    BY <1>0, <1>2, <1>3
  <2>2. QED
    BY <2>1 DEF Has, NotBefore
<1>6. Has(ioq', Enders)
  BY <1>2, <1>3
<1>7. ~Has(dq', Scheduled) /\ ~reconnect'
  BY <1>0 DEF Ordered
<1>8. QED
  BY <1>0, <1>4, <1>5, <1>6, <1>7 DEF Ordered, Io, Lasting, Enders, Scheduled, S, K

LEMMA PeerCloseOrdered ==
    ASSUME Typed, Ordered, PeerClose
    PROVE  Ordered'
<1>0. /\ ioq # <<>> /\ H.op = "peerClose" /\ ioq' = Tail(ioq) \o <<>>
      /\ H.conn \in Conns
      /\ UNCHANGED <<connecting, peer, life>> /\ IoUnchanged
  BY Heads, IoRead DEF PeerClose, Running, Posting, H
<1>1. IoCalm
  BY <1>0, IoPoppedCalm
<1>2. Has(ioq, Enders) => Has(ioq', Enders)
  <2>1. Spares(ioq, ioq', {H})
    BY PeerCloseTyped
  <2>2. Enders \cap {H} = {}
    BY <1>0 DEF Enders
  <2>3. QED
    BY <2>1, <2>2, Spared
<1>3. DqCalm
  <2>1. Spares(dq, dq', {Signal("closed", H.conn, None)})
    BY PeerCloseTyped
  <2>2. Signal("closed", H.conn, None).op = "signal"
    BY DEF Signal, Entry
  <2>3. QED
    BY <2>1, <2>2, DqSparedCalm
<1>4. Buried
  <2>1. Spares(ioq, ioq', {H})
    BY PeerCloseTyped
  <2>2. \A k \in Conns : sock'[k] = "connecting" => sock[k] = "connecting"
    BY DEF Typed, ConnTyped, PeerClose
  <2>3. \A t \in {H} : t.op \notin {"connectDone", "verified"}
    BY <1>0
  <2>4. QED
    BY <2>1, <2>2, <2>3, NoAttempt
<1>5. QED
  BY <1>0, <1>1, <1>2, <1>3, <1>4, OrderKept DEF IoUnchanged, scopeVars

LEMMA ForwardOrdered ==
    ASSUME Typed, Ordered, Forward
    PROVE  Ordered'
<1>0. /\ ioq # <<>> /\ H.op = "forward"
      /\ UNCHANGED <<connecting, sock, life>> /\ IoUnchanged /\ peer' \in {peer, None}
  BY DEF Forward, Running, H
<1>1. IoCalm /\ (Has(ioq, Enders) => Has(ioq', Enders)) /\ Buried
  <2>1. Spares(ioq, ioq', {H})
    BY ForwardTyped
  <2>2. \A t \in {H} : t.op \notin LifeOps \cup {"connectDone", "verified"}
    BY <1>0 DEF LifeOps
  <2>3. \A k \in Conns : sock'[k] = "connecting" => sock[k] = "connecting"
    BY <1>0
  <2>4. QED
    BY <2>1, <2>2, <2>3, IoSparedCalm, NoAttempt
<1>2. DqCalm
  BY DEF DqCalm, Forward, Completing, Enqueue
<1>3. QED
  BY <1>0, <1>1, <1>2, OrderKept DEF IoUnchanged, scopeVars

LEMMA TimerExpiresOrdered ==
    ASSUME Typed, Ordered, PendingHasPeer, NEW r \in Requests, TimerExpires(r)
    PROVE  Ordered'
<1> DEFINE e == Request("timeout", r)
<1>0. /\ life = "live"
      /\ UNCHANGED <<dq, connVars, requestVars, life>> /\ IoUnchanged
  BY DEF TimerExpires, PendingHasPeer, Ordered
<1>1. e \in IoEntries /\ e.op = "timeout" /\ ioq' = ioq \o <<e>>
  BY IoMade DEF Request, Entry, TimerExpires, Post
<1>2. Spares(ioq, ioq', {e})
  BY TimerExpiresTyped
<1> HIDE DEF e
<1>3. IoCalm
  <2>1. <<e>> \in Seq(IoEntries)
    BY <1>1, Said
  <2>2. ~Has(<<e>>, Io("shutdown")) /\ ~Has(<<e>>, Io("keepAlive"))
    BY <1>1, Literals DEF Io
  <2>3. QED
    BY <1>0, <1>1, <2>1, <2>2, IoLiveCalm
<1>4. Has(ioq, Enders) => Has(ioq', Enders)
  <2>1. Enders \cap {e} = {}
    BY <1>1 DEF Enders
  <2>2. QED
    BY <1>2, <2>1, Spared
<1>5. Buried
  BY <1>0 DEF Buried
<1>6. DqCalm
  BY <1>0 DEF DqCalm
<1>7. QED
  BY <1>0, <1>3, <1>4, <1>5, <1>6, OrderKept DEF IoUnchanged, scopeVars, connVars

LEMMA ClosedPeerPosted ==
    ASSUME Typed
    PROVE  /\ ClosedPeer \in Seq(IoEntries)
           /\ \A A : A \cap Handlers("peerClose", peer) = {} => ~Has(ClosedPeer, A)
           /\ peer = None => ClosedPeer = <<>>
           /\ peer # None => /\ ClosedPeer = <<Conn("peerClose", peer, 0, "")>>
                             /\ Conn("peerClose", peer, 0, "") \in Handlers("peerClose", peer)
<1> DEFINE e == Conn("peerClose", peer, 0, "")
<1>1. peer # None => e \in Handlers("peerClose", peer)
  <2>1. ClosedPeer \in Seq(Handlers("peerClose", peer))
    BY PeerOrdered
  <2>2. peer # None => ClosedPeer = <<e>>
    BY DEF ClosedPeer
  <2>3. <<e>>[1] = e /\ 1 \in DOMAIN <<e>>
    OBVIOUS
  <2> HIDE DEF e
  <2>4. QED
    BY <2>1, <2>2, <2>3
<1>2. ClosedPeer = IF peer = None THEN <<>> ELSE <<e>>
  BY DEF ClosedPeer
<1> HIDE DEF e
<1>3. ClosedPeer \in Seq(IoEntries)
  BY PeerOrdered
<1>4. ASSUME NEW A, A \cap Handlers("peerClose", peer) = {}
      PROVE  ~Has(ClosedPeer, A)
  <2>1. peer # None => e \notin A
    BY <1>1, <1>4
  <2>2. QED
    BY <1>2, <2>1, Literals
<1>5. QED
  BY <1>1, <1>2, <1>3, <1>4 DEF e

LEMMA PeerClosedCalm ==
    ASSUME Typed, Ordered, ioq # <<>>,
           \/ ioq' = Tail(ioq) \o <<>>
           \/ ioq' = Tail(ioq) \o ClosedPeer
    PROVE  IoCalm
<1>1. CASE ioq' = Tail(ioq) \o <<>>
  BY <1>1, IoPoppedCalm
<1>2. CASE peer = None
  BY <1>2, IoPoppedCalm, ClosedPeerPosted
<1>3. CASE peer # None /\ ioq' = Tail(ioq) \o ClosedPeer
  <2>1. life = "live"
    BY <1>3 DEF Ordered
  <2>2. ~Has(ClosedPeer, Io("shutdown")) /\ ~Has(ClosedPeer, Io("keepAlive"))
    <3>1. /\ Io("shutdown") \cap Handlers("peerClose", peer) = {}
          /\ Io("keepAlive") \cap Handlers("peerClose", peer) = {}
      BY DEF Io, Handlers
    <3>2. QED
      BY <3>1, ClosedPeerPosted
  <2>3. QED
    BY <1>3, <2>1, <2>2, ClosedPeerPosted, IoLiveCalm
<1>4. QED
  BY <1>1, <1>2, <1>3

LEMMA RequestTimeoutOrdered ==
    ASSUME Typed, Ordered, RequestTimeout
    PROVE  Ordered'
<1>0. /\ ioq # <<>> /\ H.op = "timeout" /\ (ioq' = Tail(ioq) \o <<>> \/ ioq' = Tail(ioq) \o ClosedPeer)
      /\ UNCHANGED <<connecting, sock, life>> /\ IoUnchanged /\ peer' \in {peer, None}
  BY DEF RequestTimeout, Running, Posting, H
<1>1. IoCalm
  BY <1>0, PeerClosedCalm
<1>2. (Has(ioq, Enders) => Has(ioq', Enders)) /\ Buried
  <2> DEFINE D == {H} \cup Handlers("peerClose", peer)
  <2>1. Spares(ioq, ioq', D)
    BY RequestTimeoutTyped
  <2>2. /\ Enders \cap D = {}
        /\ \A t \in D : t.op \notin {"connectDone", "verified"}
    BY <1>0 DEF Enders, Handlers
  <2>3. \A k \in Conns : sock'[k] = "connecting" => sock[k] = "connecting"
    BY <1>0
  <2> HIDE DEF D
  <2>4. QED
    BY <2>1, <2>2, <2>3, Spared, NoAttempt
<1>3. DqCalm
  BY DEF DqCalm, RequestTimeout, Completing, Enqueue
<1>4. QED
  BY <1>0, <1>1, <1>2, <1>3, OrderKept DEF IoUnchanged, scopeVars

LEMMA EndConnectionOrdered ==
    ASSUME Typed, Ordered, EndConnection
    PROVE  Ordered'
<1>0. /\ ioq # <<>> /\ H.op \in {"stop", "invalidate"} /\ UNCHANGED life /\ IoUnchanged
      /\ \/ ioq' = Tail(ioq) \o <<>>
         \/ ioq' = Tail(ioq) \o ClosedPeer
  BY DEF EndConnection, Posting
<1>1. IoCalm
  BY <1>0, PeerClosedCalm
<1>2. connecting' = None /\ peer' = None
  BY DEF EndConnection, CloseConnecting, Locked, Ordered
<1>3. Buried
  <2> DEFINE D == {H} \cup Handlers("peerClose", peer)
  <2>1. Spares(ioq, ioq', D)
    BY EndConnectionTyped
  <2>2. \A t \in D : t.op \notin {"connectDone", "verified"}
    BY <1>0 DEF Handlers
  <2>3. \A k \in Conns : sock'[k] = "connecting" => sock[k] = "connecting"
    BY DEF EndConnection, CloseConnecting, Typed, ConnTyped
  <2> HIDE DEF D
  <2>4. QED
    BY <2>1, <2>2, <2>3, NoAttempt
<1>4. DqCalm
  BY DEF DqCalm, EndConnection, Completing, Enqueue
<1>5. QED
  BY <1>0, <1>1, <1>2, <1>3, <1>4, OrderKept DEF IoUnchanged, scopeVars

LEMMA ShutdownOrdered ==
    ASSUME Typed, Ordered, Shutdown
    PROVE  Ordered'
<1> DEFINE k == Do("keepAlive")
           x == ClosedPeer \o <<k>>
           t == Tail(ioq)
           S == Io("shutdown")
           K == Io("keepAlive")
           L == Lasting
<1>1. /\ ioq # <<>> /\ ioq \in Seq(IoEntries) /\ H \in S /\ ioq' = t \o x
      /\ IoUnchanged /\ life' = "closing" /\ connecting' = None /\ peer' = None
  BY Heads DEF Shutdown, Running, H, Io, Posting, CloseConnecting, Typed, IoTyped
<1>2. Has(ioq, S)
  BY <1>1, HeadHas
<1>3. life = "live" /\ ~attached /\ dpc = "idle" /\ ~running
  <2>1. life = "live" /\ ~attached /\ dpc # "shutdown"
    BY <1>2 DEF Ordered
  <2>2. dpc \in {"idle", "stop", "invalidate", "shutdown"}
    BY DEF Typed, ScopeTyped
  <2>3. QED
    BY <2>1, <2>2 DEF Ordered
<1>4. k \in IoEntries /\ k \in K /\ k \notin S
  BY IoMade DEF Do, Entry, Io
<1>5. /\ ClosedPeer \in Seq(IoEntries) /\ ~Has(ClosedPeer, S) /\ ~Has(ClosedPeer, K)
      /\ NotBefore(ClosedPeer, K, L)
  <2>1. S \cap Handlers("peerClose", peer) = {} /\ K \cap Handlers("peerClose", peer) = {}
    BY DEF Io, Handlers
  <2>2. ClosedPeer \in Seq(IoEntries) /\ ~Has(ClosedPeer, S) /\ ~Has(ClosedPeer, K)
    BY <2>1, ClosedPeerPosted
  <2>3. QED
    BY <2>2 DEF Has, NotBefore
<1>6. /\ NotBefore(ioq, S, S) /\ ~Has(ioq, K)
  BY <1>3 DEF Ordered
<1>7. t \in Seq(IoEntries) /\ ~Has(t, S) /\ ~Has(t, K) /\ NotBefore(t, K, L)
  <2> HIDE DEF S, K, L
  <2>1. t \in Seq(IoEntries) /\ ~Has(t, S) /\ ~Has(t, K)
    BY <1>1, <1>6, Popped DEF H
  <2>2. QED
    BY <2>1 DEF Has, NotBefore
<1> HIDE DEF S, K, L, k, t
<1>8. x \in Seq(IoEntries) /\ ~Has(x, S) /\ NotBefore(x, K, L)
  <2>1. /\ <<k>> \in Seq(IoEntries) /\ ~Has(<<k>>, S) /\ NotBefore(<<k>>, K, L)
    BY <1>4, Said, Literals
  <2>2. QED
    BY <1>5, <2>1, Joined
<1> HIDE DEF x
<1>9. ~Has(ioq', S) /\ NotBefore(ioq', K, L)
  BY <1>1, <1>7, <1>8, Joined
<1>10. NotBefore(ioq', S, S)
  BY <1>9 DEF Has, NotBefore
<1>11. ~Has(dq', Scheduled) /\ ~reconnect
  BY <1>3 DEF Shutdown, Completing, Enqueue, Ordered
<1>12. QED
  BY <1>1, <1>3, <1>9, <1>10, <1>11 DEF Ordered, Io, Scheduled, Lasting, Enders, S, K, L, IoUnchanged, scopeVars

LEMMA KeepAliveOrdered ==
    ASSUME Typed, Ordered, KeepAlive
    PROVE  Ordered'
<1> DEFINE S == Io("shutdown")
           K == Io("keepAlive")
           L == Lasting
<1>1. /\ ioq # <<>> /\ ioq \in Seq(IoEntries) /\ H \in K /\ ioq' = Tail(ioq)
      /\ IoUnchanged /\ life' = "releasing" /\ UNCHANGED <<dq, connVars>>
  BY Heads, Plain, Popped DEF KeepAlive, Running, H, Io, Posting, Typed, IoTyped
<1>2. Has(ioq, K)
  BY <1>1, HeadHas
<1>3. life # "live"
  BY <1>2 DEF Ordered
<1>4. /\ NotBefore(ioq, S, S) /\ NotBefore(ioq, K, L) /\ ~Has(ioq, S)
      /\ connecting = None /\ peer = None /\ ~attached /\ dpc # "shutdown"
  BY <1>3 DEF Ordered
<1> HIDE DEF S, K, L
<1>5. /\ NotBefore(ioq', S, S) /\ NotBefore(ioq', K, L) /\ ~Has(ioq', S) /\ ~Has(ioq', L)
  BY <1>1, <1>4, Popped DEF H
<1>6. QED
  BY <1>1, <1>4, <1>5 DEF Ordered, Io, Scheduled, Lasting, Enders, S, K, L, IoUnchanged, scopeVars, connVars

LEMMA DestroyOrdered ==
    ASSUME Typed, Ordered, Destroy
    PROVE  Ordered'
<1>1. /\ life = "releasing" /\ life' = "destroyed" /\ IoUnchanged
      /\ UNCHANGED <<dq, ioq, connVars>>
  BY DEF Destroy
<1>2. \A c \in Conns : sock[c] # "connecting" /\ ~Has(ioq, Attempting(c))
  BY DEF Destroy, Attempting, Has, ToSet
<1>3. QED
  BY <1>1, <1>2 DEF Ordered, Io, Scheduled, Lasting, Enders, Attempting, IoUnchanged, scopeVars, connVars

LEMMA IdleOrdered ==
    ASSUME Ordered, UNCHANGED vars
    PROVE  Ordered'
BY DEF Ordered, Io, Scheduled, Lasting, Enders, Attempting, vars, scopeVars, connVars

LEMMA OrderedInit == Init => Ordered
BY DEF Init, Ordered, Has, NotBefore

LEMMA OrderedStep == Typed /\ PendingHasPeer /\ Ordered /\ [Next]_vars => Ordered'
<1> SUFFICES ASSUME Typed, PendingHasPeer, Ordered, [Next]_vars
             PROVE  Ordered'
  OBVIOUS
<1>1. CASE \E op \in {"start", "stop", "invalidate"} : Call(op)
  BY <1>1, CallOrdered
<1>2. CASE \E r \in Requests : AsyncRequest(r) \/ TimerExpires(r)
  BY <1>2, AsyncRequestOrdered, TimerExpiresOrdered
<1>3. CASE DispatcherStep \/ Reconnect \/ Detach
  BY <1>3, StartOrdered, EndSessionOrdered, PostEndOfSessionOrdered, NotifyOrdered, VerifyOrdered,
     DispatchSignalOrdered, DebounceOrdered, CallBackOrdered, PostShutdownOrdered, ReconnectOrdered,
     DetachOrdered DEF DispatcherStep
<1>4. CASE IoStep \/ Destroy
  BY <1>4, ConnectIgnoredOrdered, ConnectBadPathOrdered, ConnectBeginsOrdered, ConnectDoneOrdered,
     HandleConnectedSocketOrdered, AnnounceOrdered, PeerStartOrdered, PeerCloseOrdered, ForwardOrdered,
     SendRequestOrdered, RequestTimeoutOrdered, EndConnectionOrdered, ShutdownOrdered, KeepAliveOrdered,
     DestroyOrdered DEF IoStep
<1>5. CASE \E c \in Conns : \E outcome \in {"connected", "failed"} : Connects(c, outcome)
  BY <1>5, ConnectsOrdered
<1>6. CASE \E c \in Conns : PeerReads(c) \/ PeerEnds(c) \/ Release(c)
  BY <1>6, PeerReadsOrdered, PeerEndsOrdered, ReleaseOrdered
<1>7. CASE UNCHANGED vars
  BY <1>7, IdleOrdered
<1>8. QED
  BY <1>1, <1>2, <1>3, <1>4, <1>5, <1>6, <1>7 DEF Next, Destroyed

-----------------------------------------------------------------------------
\* Connections: a step that does not concern one.

IoStill(c) ==
    /\ Has(ioq', Attempting(c)) <=> Has(ioq, Attempting(c))
    /\ NotBefore(ioq', Attempting(c), Attempting(c))
    /\ Has(ioq', OfPeer(c)) => Has(ioq, OfPeer(c)) \/ ~Young(c)
    /\ Has(ioq', Handlers("peerStart", c)) => Has(ioq, Handlers("peerStart", c))
    /\ NotBefore(ioq', Handlers("peerStart", c), Handlers("peerStart", c))
    /\ NotBefore(ioq', Handlers("peerClose", c), Handlers("peerStart", c))
    /\ Has(ioq', EndsForwarded(c)) => Has(ioq, EndsForwarded(c)) \/ sock[c] = "ended"
    /\ Has(ioq', Handlers("forward", c)) => Has(ioq, Handlers("forward", c)) \/ sock[c] \in {"open", "ended"}
    /\ Has(ioq, Handlers("peerClose", c)) => Has(ioq', Handlers("peerClose", c))
DqStill(c) ==
    /\ Has(dq', Verifies(c)) <=> Has(dq, Verifies(c))
    /\ NotBefore(dq', Verifies(c), Verifies(c))
    /\ Has(dq', Words(c)) => Has(dq, Words(c)) \/ ~Young(c)
    /\ Has(dq', EndsOf(c)) => Has(dq, EndsOf(c)) \/ sock[c] = "ended"
    /\ Has(dq', SignalsOf(c)) => Has(dq, SignalsOf(c)) \/ sock[c] \in {"open", "ended"}

LEMMA TrackKept ==
    ASSUME NEW c \in Conns, Tracked(c), IoStill(c), DqStill(c), sock'[c] = sock[c],
           connecting' = c <=> connecting = c, peer' = c => peer = c,
           peer' = peer \/ peer # c \/ Has(ioq', Handlers("peerClose", c)) \/ sock[c] \notin {"done", "open"}
    PROVE  Tracked(c)'
<1>1. /\ Has(ioq', Attempting(c)) \/ Has(dq', Verifies(c)) <=> Waiting(c)
      /\ Waiting(c)' <=> Has(ioq', Attempting(c)) \/ Has(dq', Verifies(c))
      /\ Young(c)' <=> connecting' = c \/ sock'[c] \in {"free", "connecting", "closed"} \/ Waiting(c)'
      /\ Young(c)' <=> Young(c)
  BY DEF IoStill, DqStill, Waiting, Young, Attempting, Verifies
<1>2. Begun(c)'
  BY <1>1 DEF IoStill, DqStill, Tracked, Begun, Attempting, Verifies, OfPeer, Words
<1>3. Started(c)'
  BY DEF IoStill, DqStill, Tracked, Started, Handlers, EndsForwarded, EndsOf, SignalsOf
<1>4. Kept(c)'
  <2>1. Kept(c)
    BY DEF Tracked
  <2>2. sock'[c] = "done" => \/ c \in {connecting', peer'}
                             \/ Has(ioq', Handlers("peerClose", c)) \/ Has(ioq', Attempting(c))
    BY <2>1 DEF Kept, IoStill
  <2>3. sock'[c] = "open" => c = peer' \/ Has(ioq', Handlers("peerClose", c))
    BY <2>1 DEF Kept, IoStill
  <2>4. QED
    BY <2>2, <2>3 DEF Kept, Handlers, Attempting
<1>5. QED
  BY <1>2, <1>3, <1>4 DEF Tracked

LEMMA IoSparedStill ==
    ASSUME NEW c, Tracked(c), NEW D, Spares(ioq, ioq', D), \A t \in D : t.conn # c
    PROVE  IoStill(c)
<1> DEFINE A == Attempting(c)
           P == OfPeer(c)
           PS == Handlers("peerStart", c)
           PC == Handlers("peerClose", c)
           EF == EndsForwarded(c)
           F == Handlers("forward", c)
<1>1. A \cap D = {} /\ P \cap D = {} /\ PS \cap D = {} /\ PC \cap D = {} /\ EF \cap D = {} /\ F \cap D = {}
  BY DEF Attempting, OfPeer, Handlers, EndsForwarded
<1>2. NotBefore(ioq, A, A) /\ NotBefore(ioq, PS, PS) /\ NotBefore(ioq, PC, PS)
  BY DEF Tracked, Begun, Started
<1> HIDE DEF A, P, PS, PC, EF, F
<1>3. /\ Has(ioq', A) <=> Has(ioq, A)
      /\ Has(ioq', P) <=> Has(ioq, P)
      /\ Has(ioq', PS) <=> Has(ioq, PS)
      /\ Has(ioq', PC) <=> Has(ioq, PC)
      /\ Has(ioq', EF) <=> Has(ioq, EF)
      /\ Has(ioq', F) <=> Has(ioq, F)
  BY <1>1, Spared
<1>4. NotBefore(ioq', A, A) /\ NotBefore(ioq', PS, PS) /\ NotBefore(ioq', PC, PS)
  BY <1>1, <1>2, Spared
<1>5. QED
  BY <1>3, <1>4 DEF IoStill, A, P, PS, PC, EF, F

LEMMA DqSparedStill ==
    ASSUME NEW c, Tracked(c), NEW D, Spares(dq, dq', D),
           \A e \in D : e.conn = c => e.op = "note",
           (\A e \in D : e.conn # c) \/ ~Young(c) \/ (Has(dq', Words(c)) => Has(dq, Words(c)))
    PROVE  DqStill(c)
<1> DEFINE V == Verifies(c)
           W == Words(c)
           S == SignalsOf(c)
           N == EndsOf(c)
<1>1. /\ V \cap D = {} /\ S \cap D = {} /\ N \cap D = {}
      /\ (\A e \in D : e.conn # c) => W \cap D = {}
  BY DEF Verifies, SignalsOf, EndsOf, Words
<1>2. NotBefore(dq, V, V)
  BY DEF Tracked, Begun
<1> HIDE DEF V, W, S, N
<1>3. /\ Has(dq', V) <=> Has(dq, V)
      /\ Has(dq', S) <=> Has(dq, S)
      /\ Has(dq', N) <=> Has(dq, N)
      /\ (\A e \in D : e.conn # c) => (Has(dq', W) <=> Has(dq, W))
  BY <1>1, Spared
<1>4. NotBefore(dq', V, V)
  BY <1>1, <1>2, Spared
<1>5. QED
  BY <1>3, <1>4 DEF DqStill, V, W, S, N

LEMMA Elsewhere ==
    ASSUME NEW c \in Conns, Tracked(c), NEW D1, NEW D2, Spares(ioq, ioq', D1), Spares(dq, dq', D2),
           \A t \in D1 : t.conn # c, \A e \in D2 : e.conn # c, sock'[c] = sock[c],
           connecting' = c <=> connecting = c, peer' = c <=> peer = c
    PROVE  Tracked(c)'
<1>1. IoStill(c)
  BY IoSparedStill
<1>2. DqStill(c)
  BY DqSparedStill
<1>3. QED
  BY <1>1, <1>2, TrackKept

LEMMA Elder ==
    ASSUME NEW c \in Conns, Tracked(c)
    PROVE  /\ Has(ioq, OfPeer(c)) => ~Young(c)
           /\ Has(dq, Words(c)) => ~Young(c)
           /\ peer = c => ~Young(c)
           /\ sock[c] \in {"open", "ended"} => ~Young(c)
           /\ Waiting(c) => Young(c)
           /\ Young(c) => ~Has(ioq, OfPeer(c)) /\ ~Has(dq, Words(c)) /\ peer # c
BY DEF Tracked, Begun, Young

LEMMA Unconcerned ==
    ASSUME Tracks, NEW D1, NEW D2, Spares(ioq, ioq', D1), Spares(dq, dq', D2),
           \A t \in D1 : t.conn = None, \A e \in D2 : e.conn = None,
           UNCHANGED <<connecting, peer, sock>>
    PROVE  Tracks'
<1>1. ASSUME NEW c \in Conns
      PROVE  Tracked(c)'
  <2>1. /\ Tracked(c) /\ c # None /\ sock'[c] = sock[c]
        /\ (connecting' = c <=> connecting = c) /\ (peer' = c <=> peer = c)
    BY Names DEF Tracks
  <2>2. (\A t \in D1 : t.conn # c) /\ (\A e \in D2 : e.conn # c)
    BY <2>1
  <2>3. QED
    BY <2>1, <2>2, Elsewhere
<1>2. QED
  BY <1>1 DEF Tracks

LEMMA CallTracked ==
    ASSUME Typed, Tracks, NEW op \in {"start", "stop", "invalidate"}, Call(op)
    PROVE  Tracks'
<1> DEFINE D1 == {}
           D2 == {Do(op)}
<1>1. Spares(ioq, ioq', D1) /\ Spares(dq, dq', D2)
  BY CallTyped, SparesAll DEF Call, IoUnchanged, scopeVars, connVars, requestVars
<1>2. (\A t \in D1 : t.conn = None) /\ (\A e \in D2 : e.conn = None)
  <2>1. QED
    BY DEF Do, Conn, Note, Request, Entry, CallBacks
<1>3. UNCHANGED <<connecting, peer, sock>>
  BY DEF Call, IoUnchanged, scopeVars, connVars, requestVars
<1> HIDE DEF D1, D2
<1>4. QED
  BY <1>1, <1>2, <1>3, Unconcerned

LEMMA AsyncRequestTracked ==
    ASSUME Typed, Tracks, NEW r \in Requests, AsyncRequest(r)
    PROVE  Tracks'
<1> DEFINE D1 == {Request("request", r)}
           D2 == {}
<1>1. Spares(ioq, ioq', D1) /\ Spares(dq, dq', D2)
  BY AsyncRequestTyped, SparesAll DEF AsyncRequest, IoUnchanged, scopeVars, connVars, requestVars
<1>2. (\A t \in D1 : t.conn = None) /\ (\A e \in D2 : e.conn = None)
  <2>1. QED
    BY DEF Do, Conn, Note, Request, Entry, CallBacks
<1>3. UNCHANGED <<connecting, peer, sock>>
  BY DEF AsyncRequest, IoUnchanged, scopeVars, connVars, requestVars
<1> HIDE DEF D1, D2
<1>4. QED
  BY <1>1, <1>2, <1>3, Unconcerned

LEMMA StartTracked ==
    ASSUME Typed, Tracks, Start
    PROVE  Tracks'
<1> DEFINE D1 == {Conn("connect", None, generation, "")}
           D2 == {E}
<1>1. Spares(ioq, ioq', D1) /\ Spares(dq, dq', D2)
  BY StartTyped, SparesAll DEF Start, IoUnchanged, scopeVars, connVars, requestVars
<1>2. (\A t \in D1 : t.conn = None) /\ (\A e \in D2 : e.conn = None)
  <2>1. E.conn = None
    BY Heads, DqRead DEF Start, Dispatching, Running, E, H
  <2>2. QED
    BY <2>1 DEF Do, Conn, Note, Request, Entry, CallBacks
<1>3. UNCHANGED <<connecting, peer, sock>>
  BY DEF Start, IoUnchanged, scopeVars, connVars, requestVars
<1> HIDE DEF D1, D2
<1>4. QED
  BY <1>1, <1>2, <1>3, Unconcerned

LEMMA EndSessionTracked ==
    ASSUME Typed, Tracks, NEW op \in {"stop", "invalidate"}, EndSession(op)
    PROVE  Tracks'
<1> DEFINE D1 == {}
           D2 == {E}
<1>1. Spares(ioq, ioq', D1) /\ Spares(dq, dq', D2)
  BY EndSessionTyped, SparesAll DEF EndSession, IoUnchanged, scopeVars, connVars, requestVars
<1>2. (\A t \in D1 : t.conn = None) /\ (\A e \in D2 : e.conn = None)
  <2>1. E.conn = None
    BY Heads, DqRead DEF EndSession, Dispatching, Running, E, H
  <2>2. QED
    BY <2>1 DEF Do, Conn, Note, Request, Entry, CallBacks
<1>3. UNCHANGED <<connecting, peer, sock>>
  BY DEF EndSession, IoUnchanged, scopeVars, connVars, requestVars
<1> HIDE DEF D1, D2
<1>4. QED
  BY <1>1, <1>2, <1>3, Unconcerned

LEMMA PostEndOfSessionTracked ==
    ASSUME Typed, Tracks, PostEndOfSession
    PROVE  Tracks'
<1> DEFINE D1 == {Conn(dpc, None, generation, "")}
           D2 == {Do("cancel")}
<1>1. Spares(ioq, ioq', D1) /\ Spares(dq, dq', D2)
  BY PostEndOfSessionTyped, SparesAll DEF PostEndOfSession, IoUnchanged, scopeVars, connVars, requestVars
<1>2. (\A t \in D1 : t.conn = None) /\ (\A e \in D2 : e.conn = None)
  <2>1. QED
    BY DEF Do, Conn, Note, Request, Entry, CallBacks
<1>3. UNCHANGED <<connecting, peer, sock>>
  BY DEF PostEndOfSession, IoUnchanged, scopeVars, connVars, requestVars
<1> HIDE DEF D1, D2
<1>4. QED
  BY <1>1, <1>2, <1>3, Unconcerned

LEMMA DebounceTracked ==
    ASSUME Typed, Tracks, Debounce
    PROVE  Tracks'
<1> DEFINE D1 == {}
           D2 == {E}
<1>1. Spares(ioq, ioq', D1) /\ Spares(dq, dq', D2)
  BY DebounceTyped, SparesAll DEF Debounce, IoUnchanged, scopeVars, connVars, requestVars
<1>2. (\A t \in D1 : t.conn = None) /\ (\A e \in D2 : e.conn = None)
  <2>1. E.conn = None
    BY Heads, DqRead DEF Debounce, Dispatching, Running, E, H
  <2>2. QED
    BY <2>1 DEF Do, Conn, Note, Request, Entry, CallBacks
<1>3. UNCHANGED <<connecting, peer, sock>>
  BY DEF Debounce, IoUnchanged, scopeVars, connVars, requestVars
<1> HIDE DEF D1, D2
<1>4. QED
  BY <1>1, <1>2, <1>3, Unconcerned

LEMMA ReconnectTracked ==
    ASSUME Typed, Tracks, Reconnect
    PROVE  Tracks'
<1> DEFINE D1 == {Conn("connect", None, generation, "")}
           D2 == {}
<1>1. Spares(ioq, ioq', D1) /\ Spares(dq, dq', D2)
  BY ReconnectTyped, SparesAll DEF Reconnect, IoUnchanged, scopeVars, connVars, requestVars
<1>2. (\A t \in D1 : t.conn = None) /\ (\A e \in D2 : e.conn = None)
  <2>1. QED
    BY DEF Do, Conn, Note, Request, Entry, CallBacks
<1>3. UNCHANGED <<connecting, peer, sock>>
  BY DEF Reconnect, IoUnchanged, scopeVars, connVars, requestVars
<1> HIDE DEF D1, D2
<1>4. QED
  BY <1>1, <1>2, <1>3, Unconcerned

LEMMA CallBackTracked ==
    ASSUME Typed, Tracks, CallBack
    PROVE  Tracks'
<1> DEFINE D1 == {}
           D2 == {E}
<1>1. Spares(ioq, ioq', D1) /\ Spares(dq, dq', D2)
  BY CallBackTyped, SparesAll DEF CallBack, IoUnchanged, scopeVars, connVars, requestVars
<1>2. (\A t \in D1 : t.conn = None) /\ (\A e \in D2 : e.conn = None)
  <2>1. E.conn = None
    BY Heads, DqRead DEF CallBack, Dispatching, Running, E, H
  <2>2. QED
    BY <2>1 DEF Do, Conn, Note, Request, Entry, CallBacks
<1>3. UNCHANGED <<connecting, peer, sock>>
  BY DEF CallBack, IoUnchanged, scopeVars, connVars, requestVars
<1> HIDE DEF D1, D2
<1>4. QED
  BY <1>1, <1>2, <1>3, Unconcerned

LEMMA PostShutdownTracked ==
    ASSUME Typed, Tracks, PostShutdown
    PROVE  Tracks'
<1> DEFINE D1 == {Do("shutdown")}
           D2 == {}
<1>1. Spares(ioq, ioq', D1) /\ Spares(dq, dq', D2)
  BY PostShutdownTyped, SparesAll DEF PostShutdown, IoUnchanged, scopeVars, connVars, requestVars
<1>2. (\A t \in D1 : t.conn = None) /\ (\A e \in D2 : e.conn = None)
  <2>1. QED
    BY DEF Do, Conn, Note, Request, Entry, CallBacks
<1>3. UNCHANGED <<connecting, peer, sock>>
  BY DEF PostShutdown, IoUnchanged, scopeVars, connVars, requestVars
<1> HIDE DEF D1, D2
<1>4. QED
  BY <1>1, <1>2, <1>3, Unconcerned

LEMMA ConnectIgnoredTracked ==
    ASSUME Typed, Tracks, ConnectIgnored
    PROVE  Tracks'
<1> DEFINE D1 == {H}
           D2 == {}
<1>1. Spares(ioq, ioq', D1) /\ Spares(dq, dq', D2)
  BY ConnectIgnoredTyped, SparesAll DEF ConnectIgnored, IoUnchanged, scopeVars, connVars, requestVars
<1>2. (\A t \in D1 : t.conn = None) /\ (\A e \in D2 : e.conn = None)
  <2>1. H.conn = None
    BY Heads, IoRead DEF ConnectIgnored, Dispatching, Running, E, H
  <2>2. QED
    BY <2>1 DEF Do, Conn, Note, Request, Entry, CallBacks
<1>3. UNCHANGED <<connecting, peer, sock>>
  BY DEF ConnectIgnored, IoUnchanged, scopeVars, connVars, requestVars
<1> HIDE DEF D1, D2
<1>4. QED
  BY <1>1, <1>2, <1>3, Unconcerned

LEMMA ConnectBadPathTracked ==
    ASSUME Typed, Tracks, ConnectBadPath
    PROVE  Tracks'
<1> DEFINE D1 == {H}
           D2 == {Note("connect_failed", None, H.token)}
<1>1. Spares(ioq, ioq', D1) /\ Spares(dq, dq', D2)
  BY ConnectBadPathTyped, SparesAll DEF ConnectBadPath, IoUnchanged, scopeVars, connVars, requestVars
<1>2. (\A t \in D1 : t.conn = None) /\ (\A e \in D2 : e.conn = None)
  <2>1. H.conn = None
    BY Heads, IoRead DEF ConnectBadPath, Dispatching, Running, E, H
  <2>2. QED
    BY <2>1 DEF Do, Conn, Note, Request, Entry, CallBacks
<1>3. UNCHANGED <<connecting, peer, sock>>
  BY DEF ConnectBadPath, IoUnchanged, scopeVars, connVars, requestVars
<1> HIDE DEF D1, D2
<1>4. QED
  BY <1>1, <1>2, <1>3, Unconcerned

LEMMA SendRequestTracked ==
    ASSUME Typed, Tracks, SendRequest
    PROVE  Tracks'
<1> DEFINE D1 == {H}
           D2 == CallBacks
<1>1. Spares(ioq, ioq', D1) /\ Spares(dq, dq', D2)
  BY SendRequestTyped, SparesAll DEF SendRequest, IoUnchanged, scopeVars, connVars, requestVars
<1>2. (\A t \in D1 : t.conn = None) /\ (\A e \in D2 : e.conn = None)
  <2>1. H.conn = None
    BY Heads, IoRead DEF SendRequest, Dispatching, Running, E, H
  <2>2. QED
    BY <2>1 DEF Do, Conn, Note, Request, Entry, CallBacks
<1>3. UNCHANGED <<connecting, peer, sock>>
  BY DEF SendRequest, IoUnchanged, scopeVars, connVars, requestVars
<1> HIDE DEF D1, D2
<1>4. QED
  BY <1>1, <1>2, <1>3, Unconcerned

LEMMA TimerExpiresTracked ==
    ASSUME Typed, Tracks, NEW r \in Requests, TimerExpires(r)
    PROVE  Tracks'
<1> DEFINE D1 == {Request("timeout", r)}
           D2 == {}
<1>1. Spares(ioq, ioq', D1) /\ Spares(dq, dq', D2)
  BY TimerExpiresTyped, SparesAll DEF TimerExpires, IoUnchanged, scopeVars, connVars, requestVars
<1>2. (\A t \in D1 : t.conn = None) /\ (\A e \in D2 : e.conn = None)
  <2>1. QED
    BY DEF Do, Conn, Note, Request, Entry, CallBacks
<1>3. UNCHANGED <<connecting, peer, sock>>
  BY DEF TimerExpires, IoUnchanged, scopeVars, connVars, requestVars
<1> HIDE DEF D1, D2
<1>4. QED
  BY <1>1, <1>2, <1>3, Unconcerned

LEMMA KeepAliveTracked ==
    ASSUME Typed, Tracks, KeepAlive
    PROVE  Tracks'
<1> DEFINE D1 == {H}
           D2 == {}
<1>1. Spares(ioq, ioq', D1) /\ Spares(dq, dq', D2)
  BY KeepAliveTyped, SparesAll DEF KeepAlive, IoUnchanged, scopeVars, connVars, requestVars
<1>2. (\A t \in D1 : t.conn = None) /\ (\A e \in D2 : e.conn = None)
  <2>1. H.conn = None
    BY Heads, IoRead DEF KeepAlive, Dispatching, Running, E, H
  <2>2. QED
    BY <2>1 DEF Do, Conn, Note, Request, Entry, CallBacks
<1>3. UNCHANGED <<connecting, peer, sock>>
  BY DEF KeepAlive, IoUnchanged, scopeVars, connVars, requestVars
<1> HIDE DEF D1, D2
<1>4. QED
  BY <1>1, <1>2, <1>3, Unconcerned

LEMMA DestroyTracked ==
    ASSUME Typed, Tracks, Destroy
    PROVE  Tracks'
<1> DEFINE D1 == {}
           D2 == {}
<1>1. Spares(ioq, ioq', D1) /\ Spares(dq, dq', D2)
  BY DestroyTyped, SparesAll DEF Destroy, IoUnchanged, scopeVars, connVars, requestVars
<1>2. (\A t \in D1 : t.conn = None) /\ (\A e \in D2 : e.conn = None)
  <2>1. QED
    BY DEF Do, Conn, Note, Request, Entry, CallBacks
<1>3. UNCHANGED <<connecting, peer, sock>>
  BY DEF Destroy, IoUnchanged, scopeVars, connVars, requestVars
<1> HIDE DEF D1, D2
<1>4. QED
  BY <1>1, <1>2, <1>3, Unconcerned

-----------------------------------------------------------------------------
\* The attempt, one entry after another.

\* A connection without a peer.
LEMMA YoungKept ==
    ASSUME NEW c \in Conns, ~Has(ioq', OfPeer(c)), ~Has(dq', Words(c)), peer' # c,
           NotBefore(ioq', Attempting(c), Attempting(c)), NotBefore(dq', Verifies(c), Verifies(c)),
           ~(Has(ioq', Attempting(c)) /\ Has(dq', Verifies(c))),
           Has(ioq', Attempting(c)) \/ Has(dq', Verifies(c)) =>
             sock'[c] \in {"done", "closed"} /\ (connecting' = c => sock'[c] = "done"),
           connecting' = c => sock'[c] \in {"connecting", "done", "closed"},
           sock'[c] \notin {"open", "ended"},
           sock'[c] = "done" => connecting' = c \/ Has(ioq', Attempting(c))
    PROVE  Tracked(c)'
<1> DEFINE P == OfPeer(c)
           PS == Handlers("peerStart", c)
           PC == Handlers("peerClose", c)
           EF == EndsForwarded(c)
           F == Handlers("forward", c)
           W == Words(c)
           S == SignalsOf(c)
           N == EndsOf(c)
<1>1. PS \subseteq P /\ PC \subseteq P /\ EF \subseteq P /\ F \subseteq P /\ S \subseteq W /\ N \subseteq W
  BY DEF Handlers, OfPeer, EndsForwarded, Words, SignalsOf, EndsOf
<1> HIDE DEF P, PS, PC, EF, F, W, S, N
<1>2. \A A, B, q : A \subseteq B /\ ~Has(q, B) => ~Has(q, A)
  BY DEF Has
<1>3. /\ ~Has(ioq', PS) /\ ~Has(ioq', PC) /\ ~Has(ioq', EF) /\ ~Has(ioq', F)
      /\ ~Has(dq', S) /\ ~Has(dq', N)
  BY <1>1, <1>2 DEF P, W
<1>4. NotBefore(ioq', PS, PS) /\ NotBefore(ioq', PC, PS)
  BY <1>3, Nothing
<1>5. Begun(c)'
  BY DEF Begun, Waiting, Attempting, Verifies, OfPeer, Words
<1>6. Started(c)'
  BY <1>3, <1>4 DEF Started, PS, PC, EF, F, S, N, Handlers, EndsForwarded, SignalsOf, EndsOf
<1>7. Kept(c)'
  BY DEF Kept, Attempting, Handlers
<1>8. QED
  BY <1>5, <1>6, <1>7 DEF Tracked

\* What such a connection has to begin with, when it waits or not.
LEMMA YoungHas ==
    ASSUME NEW c \in Conns, Tracked(c), Young(c)
    PROVE  /\ ~Has(ioq, OfPeer(c)) /\ ~Has(dq, Words(c)) /\ peer # c
           /\ sock[c] \notin {"open", "ended"}
           /\ sock[c] = "done" => connecting = c \/ Has(ioq, Attempting(c))
           /\ Has(dq, Verifies(c)) => ~Has(ioq, Attempting(c)) /\ sock[c] \in {"done", "closed"}
           /\ Has(ioq, Attempting(c)) => ~Has(dq, Verifies(c)) /\ sock[c] \in {"done", "closed"}
           /\ Waiting(c) /\ connecting = c => sock[c] = "done"
           /\ connecting = c => sock[c] \in {"connecting", "done", "closed"}
           /\ NotBefore(ioq, Attempting(c), Attempting(c)) /\ NotBefore(dq, Verifies(c), Verifies(c))
<1>1. ~Has(ioq, OfPeer(c)) /\ ~Has(dq, Words(c)) /\ peer # c
  BY DEF Tracked, Begun
<1>2. ~Has(ioq, Handlers("peerClose", c))
  BY <1>1 DEF Has, OfPeer, Handlers
<1>3. sock[c] \notin {"open", "ended"}
  BY Elder
<1>4. QED
  BY <1>1, <1>2, <1>3 DEF Tracked, Begun, Kept, Waiting

LEMMA VerifyTracked ==
    ASSUME Typed, Tracks, Verify
    PROVE  Tracks'
<1>0. PICK c \in Conns : c = E.conn
  BY Heads, DqRead DEF Verify, Dispatching, E
<1> DEFINE D == {Conn("verified", E.conn, E.token, "verified"), Conn("verified", E.conn, E.token, "refused")}
           V == Verifies(c)
           A == Attempting(c)
<1>1. /\ dq # <<>> /\ dq \in Seq(DqEntries) /\ E \in V /\ c \in Conns /\ dq' = Tail(dq) \o <<>>
      /\ Has(dq, V)
  <2>1. /\ dq # <<>> /\ dq \in Seq(DqEntries) /\ E \in DqEntries /\ E.op = "verify" /\ dq' = Tail(dq) \o <<>>
    BY Heads DEF Verify, Dispatching, Dispatched, E, Typed, DqTyped
  <2>2. E \in V /\ c \in Conns
    BY <1>0, <2>1, DqRead DEF Verifies
  <2> HIDE DEF V
  <2>3. QED
    BY <2>1, <2>2, HeadHas
<1>2. Tracked(c) /\ Young(c)
  BY <1>1 DEF Tracks, Young, Waiting
<1>3. Spares(dq, dq', {E}) /\ Spares(ioq, ioq', D)
  BY VerifyTyped
<1>4. UNCHANGED <<connecting, peer, sock>>
  BY DEF Verify, connVars
<1>5. (\A t \in D : t.conn = c /\ t.op = "verified") /\ D \in SUBSET IoEntries
  <2>1. E.token \in Nat
    BY <1>1, Heads, DqRead
  <2>2. D \in SUBSET IoEntries
    BY <1>0, <2>1, IoMade
  <2>3. QED
    BY <1>0, <2>2 DEF Conn, Entry
<1>6. ioq \in Seq(IoEntries) /\ (ioq' = ioq \/ \E e \in D : ioq' = ioq \o <<e>>)
  BY DEF Verify, Post, Typed, IoTyped
<1> HIDE DEF D
<1>7. Tracked(c)'
  <2>1. OfPeer(c) \cap D = {}
    BY <1>5 DEF OfPeer
  <2>2. ~Has(ioq', OfPeer(c))
    BY <1>1, <1>2, <1>3, <2>1, YoungHas, Spared
  <2>3. ~Has(dq', Words(c))
    <3>1. Words(c) \cap {E} = {}
      BY <1>1 DEF Words, Verifies
    <3>2. QED
      BY <1>1, <1>2, <1>3, <3>1, YoungHas, Spared
  <2>4. /\ NotBefore(dq, V, V) /\ NotBefore(ioq, A, A) /\ ~Has(ioq, A)
    BY <1>1, <1>2, YoungHas
  <2>5. ~Has(dq', V)
    <3> HIDE DEF V
    <3>1. ~Has(<<>>, V) /\ <<>> \in Seq(DqEntries)
      BY Made
    <3>2. QED
      BY <1>1, <2>4, <3>1, HeadGone DEF E
  <2>6. NotBefore(dq', V, V)
    BY <2>5, Nothing
  <2>7. NotBefore(ioq', A, A)
    <3> HIDE DEF A
    <3>1. ASSUME NEW e \in D, ioq' = ioq \o <<e>>
          PROVE  NotBefore(ioq', A, A)
      <4>1. NotBefore(<<e>>, A, A) /\ <<e>> \in Seq(IoEntries)
        BY <1>5, Literals, Said
      <4>2. QED
        BY <1>6, <2>4, <3>1, <4>1, Joined
    <3>2. QED
      BY <1>6, <2>4, <3>1
  <2>8. sock[c] \in {"done", "closed"} /\ (connecting = c => sock[c] = "done")
    BY <1>1, <1>2, YoungHas DEF Waiting
  <2>9. sock[c] = "done" => connecting = c
    BY <1>1, <1>2, <2>4, YoungHas
  <2>10. peer # c
    BY <1>1, <1>2, YoungHas
  <2>11. /\ sock'[c] = sock[c] /\ connecting' = connecting /\ peer' # c
         /\ (connecting = c => sock[c] \in {"connecting", "done", "closed"})
    BY <1>4, <2>8, <2>10
  <2>12. QED
    BY <2>2, <2>3, <2>5, <2>6, <2>7, <2>8, <2>9, <2>11, YoungKept
<1>8. ASSUME NEW k \in Conns, k # c
      PROVE  Tracked(k)'
  <2>1. \A e \in {E} : e.conn # k
    BY <1>0, <1>8
  <2>2. \A t \in D : t.conn # k
    BY <1>5, <1>8
  <2>3. Tracked(k)
    BY DEF Tracks
  <2>4. QED
    BY <1>3, <1>4, <2>1, <2>2, <2>3, Elsewhere
<1>9. QED
  BY <1>4, <1>7, <1>8 DEF Tracks

LEMMA ConnectBeginsTracked ==
    ASSUME Typed, Tracks, NEW c \in Conns, ConnectBegins(c)
    PROVE  Tracks'
<1>1. /\ ioq # <<>> /\ H.conn = None
      /\ sock[c] = "free" /\ connecting = None /\ peer = None
      /\ connecting' = c /\ sock' = [sock EXCEPT ![c] = "connecting"] /\ UNCHANGED <<dq, peer>>
  BY Heads, IoRead DEF ConnectBegins, MayConnect, Running, H
<1>2. Spares(ioq, ioq', {H}) /\ Spares(dq, dq', {})
  BY <1>1, ConnectBeginsTyped, SparesAll
<1>3. c # None /\ sock'[c] = "connecting" /\ \A k \in Conns : k # c => sock'[k] = sock[k]
  BY <1>1, Names DEF Typed, ConnTyped
<1>4. \A t \in {H} : \A k \in Conns : t.conn # k
  BY <1>1, Names
<1>5. Tracked(c)'
  <2>1. Tracked(c) /\ Young(c) /\ ~Waiting(c)
    BY <1>1 DEF Tracks, Tracked, Begun, Young
  <2>2. OfPeer(c) \cap {H} = {} /\ Attempting(c) \cap {H} = {}
    BY <1>4 DEF OfPeer, Attempting
  <2>3. /\ ~Has(ioq', OfPeer(c)) /\ ~Has(dq', Words(c)) /\ ~Has(ioq', Attempting(c))
        /\ ~Has(dq', Verifies(c)) /\ peer # c
    BY <1>1, <1>2, <2>1, <2>2, YoungHas, Spared DEF Waiting
  <2>4. NotBefore(ioq', Attempting(c), Attempting(c)) /\ NotBefore(dq', Verifies(c), Verifies(c))
    BY <2>3, Nothing
  <2>5. QED
    BY <1>1, <1>3, <2>3, <2>4, YoungKept
<1>6. ASSUME NEW k \in Conns, k # c
      PROVE  Tracked(k)'
  <2>1. /\ Tracked(k) /\ sock'[k] = sock[k] /\ (connecting' = k <=> connecting = k)
        /\ (peer' = k <=> peer = k)
    BY <1>1, <1>3, <1>6, Names DEF Tracks
  <2>2. (\A t \in {H} : t.conn # k) /\ \A e \in {} : e.conn # k
    BY <1>4
  <2>3. QED
    BY <1>2, <2>1, <2>2, Elsewhere
<1>7. QED
  BY <1>1, <1>5, <1>6 DEF Tracks

LEMMA ConnectsTracked ==
    ASSUME Typed, Tracks, NEW c \in Conns, NEW outcome \in {"connected", "failed"}, Connects(c, outcome)
    PROVE  Tracks'
<1> DEFINE e == Conn("connectDone", c, session[c], outcome)
           A == Attempting(c)
<1>1. /\ sock[c] = "connecting" /\ sock' = [sock EXCEPT ![c] = "done"] /\ UNCHANGED <<connecting, peer, dq>>
      /\ ioq' = ioq \o <<e>> /\ ioq \in Seq(IoEntries)
  BY DEF Connects, Post, Typed, IoTyped
<1>2. Spares(ioq, ioq', {e}) /\ Spares(dq, dq', {})
  BY <1>1, ConnectsTyped, SparesAll
<1>3. e \in IoEntries /\ e.conn = c /\ e.op = "connectDone"
  <2>1. session[c] \in Nat
    BY Numbers
  <2>2. e \in IoEntries
    BY <2>1, IoMade
  <2>3. QED
    BY <2>2 DEF Conn, Entry
<1>4. sock'[c] = "done" /\ \A k \in Conns : k # c => sock'[k] = sock[k]
  BY <1>1 DEF Typed, ConnTyped
<1> HIDE DEF e
<1>5. Tracked(c)'
  <2>1. Tracked(c) /\ Young(c) /\ ~Waiting(c)
    BY <1>1 DEF Tracks, Tracked, Begun, Young
  <2>2. OfPeer(c) \cap {e} = {} /\ e \in A
    BY <1>3 DEF OfPeer, Attempting
  <2>3. /\ ~Has(ioq', OfPeer(c)) /\ ~Has(dq', Words(c)) /\ ~Has(ioq, A)
        /\ ~Has(dq', Verifies(c)) /\ peer # c /\ NotBefore(dq', Verifies(c), Verifies(c))
    BY <1>1, <1>2, <2>1, <2>2, YoungHas, Spared DEF Waiting
  <2>4. NotBefore(ioq', A, A) /\ Has(ioq', A)
    <3> HIDE DEF A
    <3>1. /\ NotBefore(<<e>>, A, A) /\ <<e>> \in Seq(IoEntries) /\ NotBefore(ioq, A, A) /\ Has(<<e>>, A)
          /\ ~Has(ioq, A)
      BY <1>3, <2>2, <2>3, Literals, Said, Nothing
    <3>2. ioq' = ioq \o <<e>> /\ ioq \in Seq(IoEntries)
      BY <1>1
    <3>3. QED
      BY <3>1, <3>2, Joined
  <2>5. QED
    BY <1>1, <1>4, <2>3, <2>4, YoungKept
<1>6. ASSUME NEW k \in Conns, k # c
      PROVE  Tracked(k)'
  <2>1. /\ Tracked(k) /\ sock'[k] = sock[k] /\ (connecting' = k <=> connecting = k)
        /\ (peer' = k <=> peer = k)
    BY <1>1, <1>4, <1>6 DEF Tracks
  <2>2. (\A t \in {e} : t.conn # k) /\ \A x \in {} : x.conn # k
    BY <1>3, <1>6
  <2>3. QED
    BY <1>2, <2>1, <2>2, Elsewhere
<1>7. QED
  BY <1>1, <1>5, <1>6 DEF Tracks

\* Entries of the dispatcher about a connection.
LEMMA NotifyTracked ==
    ASSUME Typed, Tracks, Notify
    PROVE  Tracks'
<1> DEFINE D == {E, Do("debounce")}
<1>1. /\ dq # <<>> /\ dq \in Seq(DqEntries) /\ E \in DqEntries /\ E.op = "note"
      /\ UNCHANGED <<ioq, connecting, peer, sock>>
  BY Heads DEF Notify, Dispatching, E, Typed, DqTyped, connVars
<1>2. Spares(dq, dq', D) /\ Spares(ioq, ioq', {})
  BY <1>1, NotifyTyped, SparesAll
<1>3. \A W : Do("debounce") \notin W => (Has(dq', W) => Has(dq, W))
  <2>1. /\ Do("debounce") \in DqEntries
        /\ dq' = Tail(dq) \o <<>> \/ dq' = Tail(dq) \o <<Do("debounce")>>
    BY DqMade DEF Notify, Dispatched
  <2> DEFINE b == Do("debounce")
  <2> HIDE DEF b
  <2>2. <<>> \in Seq(DqEntries) /\ <<b>> \in Seq(DqEntries)
    BY <2>1, Said DEF b
  <2>3. \A W : (b \notin W => ~Has(<<b>>, W)) /\ ~Has(<<>>, W)
    BY Literals
  <2>4. PICK x \in Seq(DqEntries) : dq' = Tail(dq) \o x /\ \A W : b \notin W => ~Has(x, W)
    BY <2>1, <2>2, <2>3 DEF b
  <2>5. \A W : b \notin W => (Has(dq', W) => Has(dq, W))
    BY <1>1, <2>4, TakenHas
  <2>6. QED
    BY <2>5 DEF b
<1>4. \A k \in Conns : Do("debounce") \notin Words(k) /\ Do("debounce").conn # k
  <2>1. Do("debounce").op = "debounce" /\ Do("debounce").conn = None
    BY DEF Do, Entry
  <2>2. QED
    BY <2>1, Names DEF Words
<1>5. ASSUME NEW k \in Conns
      PROVE  Tracked(k)'
  <2>1. Tracked(k)
    BY DEF Tracks
  <2>2. IoStill(k)
    <3>1. \A t \in {} : t.conn # k
      OBVIOUS
    <3>2. QED
      BY <1>2, <2>1, <3>1, IoSparedStill
  <2>3. DqStill(k)
    <3>1. \A e \in D : e.conn = k => e.op = "note"
      BY <1>1, <1>4
    <3>2. Has(dq', Words(k)) => Has(dq, Words(k))
      BY <1>3, <1>4
    <3> HIDE DEF D
    <3>3. QED
      BY <1>2, <2>1, <3>1, <3>2, DqSparedStill
  <2>4. QED
    BY <1>1, <2>1, <2>2, <2>3, TrackKept
<1>6. QED
  BY <1>1, <1>5 DEF Tracks

LEMMA DispatchSignalTracked ==
    ASSUME Typed, Tracks, DispatchSignal
    PROVE  Tracks'
<1>0. PICK c \in Conns : c = E.conn
  BY Heads, DqRead DEF DispatchSignal, Dispatching, E
<1> DEFINE f == Entry("forward", c, session[c], E.what, E.req)
<1>1. /\ dq # <<>> /\ dq \in Seq(DqEntries) /\ E \in DqEntries /\ E.op = "signal" /\ E.what \in Signals
      /\ dq' = Tail(dq) \o <<>>
      /\ UNCHANGED <<connecting, peer, sock>>
      /\ ioq \in Seq(IoEntries)
      /\ ioq' = ioq \/ ioq' = Append(ioq, f)
  BY <1>0, Heads, DqRead DEF DispatchSignal, Dispatching, Dispatched, E, Typed, DqTyped, IoTyped, connVars
<1>2. Spares(dq, dq', {E}) /\ Spares(ioq, ioq', {f})
  BY <1>0, DispatchSignalTyped
<1>3. f \in IoEntries /\ f.op = "forward" /\ f.conn = c /\ f.what = E.what
  <2>1. session[c] \in Nat /\ E.req \in Requests \cup {None}
    BY <1>1, DqRead, Numbers
  <2>2. f \in IoEntries
    BY <1>1, <2>1, IoMade
  <2>3. QED
    BY <2>2 DEF Entry
<1> HIDE DEF f
<1>4. /\ Tracked(c) /\ E \in Words(c) /\ E \in SignalsOf(c) /\ (E.what = "closed" => E \in EndsOf(c))
  BY <1>0, <1>1 DEF Tracks, Words, SignalsOf, EndsOf
<1>5. /\ sock[c] \in {"open", "ended"} /\ (E.what = "closed" => sock[c] = "ended")
  <2>1. /\ Has(dq, SignalsOf(c)) /\ (E.what = "closed" => Has(dq, EndsOf(c)))
    BY <1>1, <1>4, HeadHas
  <2>2. QED
    BY <1>4, <2>1 DEF Tracked, Started
<1>6. ~Young(c)
  BY <1>4, <1>5, Elder
<1>7. \A W : Has(dq', W) => Has(dq, W)
  <2>1. \A W : ~Has(<<>>, W) /\ <<>> \in Seq(DqEntries)
    BY Made
  <2>2. QED
    BY <1>1, <2>1, TakenHas
<1>8. Tracked(c)'
  <2> DEFINE A == Attempting(c)
             PS == Handlers("peerStart", c)
             PC == Handlers("peerClose", c)
             V == Verifies(c)
  <2>1. /\ A \cap {f} = {} /\ PS \cap {f} = {} /\ PC \cap {f} = {} /\ V \cap {E} = {}
        /\ f.what # "closed" => EndsForwarded(c) \cap {f} = {}
    BY <1>1, <1>3 DEF Attempting, Handlers, EndsForwarded, Verifies
  <2>2. NotBefore(ioq, A, A) /\ NotBefore(ioq, PS, PS) /\ NotBefore(ioq, PC, PS) /\ NotBefore(dq, V, V)
    BY <1>4 DEF Tracked, Begun, Started
  <2> HIDE DEF A, PS, PC, V
  <2>3. /\ Has(ioq', A) <=> Has(ioq, A)
        /\ Has(ioq', PS) <=> Has(ioq, PS)
        /\ Has(ioq', PC) <=> Has(ioq, PC)
        /\ Has(dq', V) <=> Has(dq, V)
        /\ NotBefore(ioq', A, A) /\ NotBefore(ioq', PS, PS) /\ NotBefore(ioq', PC, PS) /\ NotBefore(dq', V, V)
        /\ f.what # "closed" => (Has(ioq', EndsForwarded(c)) <=> Has(ioq, EndsForwarded(c)))
    BY <1>2, <2>1, <2>2, Spared
  <2>4. IoStill(c)
    BY <1>3, <1>5, <1>6, <2>3 DEF IoStill, A, PS, PC
  <2>5. DqStill(c)
    BY <1>7, <2>3 DEF DqStill, V
  <2>6. QED
    BY <1>1, <1>4, <2>4, <2>5, TrackKept
<1>9. ASSUME NEW k \in Conns, k # c
      PROVE  Tracked(k)'
  <2>1. (\A e \in {E} : e.conn # k) /\ (\A t \in {f} : t.conn # k) /\ Tracked(k)
    BY <1>0, <1>3, <1>9 DEF Tracks
  <2>2. QED
    BY <1>1, <1>2, <2>1, Elsewhere
<1>10. QED
  BY <1>1, <1>8, <1>9 DEF Tracks

LEMMA DetachTracked ==
    ASSUME Typed, Tracks, Detach
    PROVE  Tracks'
<1>1. /\ ~Has(dq', Scheduled) /\ (\A A : Has(dq', A) => Has(dq, A))
      /\ UNCHANGED <<ioq, connecting, peer, sock>>
  BY DetachTyped DEF Detach, connVars
<1>2. Spares(ioq, ioq', {})
  BY <1>1, SparesAll
<1>3. ASSUME NEW k \in Conns
      PROVE  Tracked(k)'
  <2>1. Tracked(k)
    BY DEF Tracks
  <2>2. ~Has(dq', Verifies(k)) /\ NotBefore(dq', Verifies(k), Verifies(k))
    <3>1. Verifies(k) \subseteq Scheduled
      BY DEF Verifies, Scheduled
    <3>2. ~Has(dq', Verifies(k))
      BY <1>1, <3>1 DEF Has
    <3>3. QED
      BY <3>2, Nothing
  <2>3. CASE Young(k)
    <3>1. /\ ~Has(dq', Words(k))
      BY <1>1, <2>1, <2>3, YoungHas
    <3>2. /\ sock[k] = "done" => connecting = k \/ Has(ioq, Attempting(k))
          /\ Has(ioq, Attempting(k)) => sock[k] \in {"done", "closed"} /\ (connecting = k => sock[k] = "done")
      BY <2>1, <2>3, YoungHas DEF Waiting
    <3>3. /\ ~Has(ioq, OfPeer(k)) /\ peer # k /\ sock[k] \notin {"open", "ended"}
          /\ NotBefore(ioq, Attempting(k), Attempting(k))
          /\ connecting = k => sock[k] \in {"connecting", "done", "closed"}
      BY <2>1, <2>3, YoungHas
    <3>4. QED
      BY <1>1, <2>2, <3>1, <3>2, <3>3, YoungKept
  <2>4. CASE ~Young(k)
    <3>1. IoStill(k)
      <4>1. \A t \in {} : t.conn # k
        OBVIOUS
      <4>2. QED
        BY <1>2, <2>1, <4>1, IoSparedStill
    <3>2. DqStill(k)
      BY <1>1, <2>2, <2>4 DEF DqStill, Young, Waiting
    <3>3. QED
      BY <1>1, <2>1, <3>1, <3>2, TrackKept
  <2>5. QED
    BY <2>3, <2>4
<1>4. QED
  BY <1>1, <1>3 DEF Tracks

LEMMA ConnectDoneTracked ==
    ASSUME Typed, Tracks, ConnectDone
    PROVE  Tracks'
<1>0. PICK c \in Conns : c = H.conn
  BY Heads, IoRead DEF ConnectDone, Running, H
<1> DEFINE v == Conn("verify", c, H.token, "")
           n == Note("connect_failed", None, H.token)
           A == Attempting(c)
           V == Verifies(c)
<1>1. /\ ioq # <<>> /\ ioq \in Seq(IoEntries) /\ H \in A /\ ioq' = Tail(ioq) \o <<>> /\ Has(ioq, A)
      /\ dq \in Seq(DqEntries) /\ peer' = peer
  <2>1. /\ ioq # <<>> /\ ioq \in Seq(IoEntries) /\ H \in IoEntries /\ H.op = "connectDone"
        /\ ioq' = Tail(ioq) \o <<>> /\ dq \in Seq(DqEntries) /\ peer' = peer
    BY Heads DEF ConnectDone, Running, Posting, H, Typed, IoTyped, DqTyped
  <2>2. H \in A
    BY <1>0, <2>1 DEF Attempting
  <2> HIDE DEF A
  <2>3. QED
    BY <2>1, <2>2, HeadHas
<1>2. Tracked(c) /\ Young(c)
  BY <1>1 DEF Tracks, Young, Waiting
<1>3. Spares(ioq, ioq', {H}) /\ Spares(dq, dq', {n, v})
  BY <1>0, ConnectDoneTyped
<1>4. /\ v \in DqEntries /\ n \in DqEntries /\ v.conn = c /\ v.op = "verify" /\ n.conn = None /\ n.op = "note"
  <2>1. H.token \in Nat
    BY <1>1, Heads, IoRead
  <2>2. v \in DqEntries /\ n \in DqEntries
    BY <2>1, DqMade
  <2>3. QED
    BY <2>2 DEF Conn, Note, Entry
<1>5. c # None /\ H.conn = c
  BY <1>0, Names
<1>6. \/ /\ connecting = c /\ connecting' = c /\ sock' = sock /\ dq' = dq \o <<v>>
      \/ /\ sock' = [sock EXCEPT ![c] = "closed"]
         /\ dq' = dq \/ dq' = dq \o <<n>>
         /\ connecting' = connecting \/ (connecting = c /\ connecting' = None)
  BY <1>0, <1>5 DEF ConnectDone, Enqueue
<1>7. /\ \A k \in Conns : k # c => sock'[k] = sock[k] /\ (connecting' = k <=> connecting = k)
      /\ sock' = sock \/ sock'[c] = "closed"
      /\ connecting' # None => connecting # None
  BY <1>5, <1>6, Names DEF Typed, ConnTyped
<1> HIDE DEF v, n
<1>8. Tracked(c)'
  <2>1. /\ ~Has(ioq, OfPeer(c)) /\ ~Has(dq, Words(c)) /\ peer # c /\ ~Has(dq, V)
        /\ NotBefore(ioq, A, A)
        /\ sock[c] \in {"done", "closed"} /\ (connecting = c => sock[c] = "done")
    BY <1>1, <1>2, YoungHas DEF Waiting
  <2>2. OfPeer(c) \cap {H} = {} /\ Words(c) \cap {n, v} = {}
    BY <1>1, <1>4, Names DEF OfPeer, Words, Attempting
  <2>3. ~Has(ioq', OfPeer(c)) /\ ~Has(dq', Words(c))
    BY <1>3, <2>1, <2>2, Spared
  <2>4. ~Has(ioq', A) /\ NotBefore(ioq', A, A)
    <3> HIDE DEF A
    <3>1. ~Has(<<>>, A) /\ <<>> \in Seq(IoEntries) /\ Head(ioq) = H
      BY Made DEF H
    <3>2. ~Has(ioq', A)
      BY <1>1, <2>1, <3>1, HeadGone
    <3>3. QED
      BY <3>2, Nothing
  <2>5. ASSUME connecting' = c, sock' = sock, connecting = c, dq' = dq \o <<v>>
        PROVE  Tracked(c)'
    <3>1. NotBefore(dq', V, V)
      <4> HIDE DEF V
      <4>1. NotBefore(dq, V, V) /\ NotBefore(<<v>>, V, V) /\ <<v>> \in Seq(DqEntries)
        BY <1>4, <2>1, Nothing, Literals, Said
      <4>2. dq' = dq \o <<v>> /\ dq \in Seq(DqEntries) /\ ~Has(dq, V)
        BY <1>1, <2>1, <2>5
      <4>3. QED
        BY <4>1, <4>2, Joined
    <3>2. sock'[c] = "done" /\ peer' # c /\ connecting' = c
      BY <1>1, <2>1, <2>5
    <3>3. QED
      BY <2>3, <2>4, <3>1, <3>2, YoungKept
  <2>6. ASSUME sock' = [sock EXCEPT ![c] = "closed"], dq' = dq \/ dq' = dq \o <<n>>
        PROVE  Tracked(c)'
    <3>1. ~Has(dq', V) /\ NotBefore(dq', V, V)
      <4>1. n \notin V
        BY <1>4 DEF Verifies
      <4> HIDE DEF V
      <4>2. <<n>> \in Seq(DqEntries) /\ ~Has(<<n>>, V)
        BY <1>4, <4>1, Said, Literals
      <4>3. dq \in Seq(DqEntries) /\ ~Has(dq, V)
        BY <1>1, <2>1
      <4>4. ~Has(dq \o <<n>>, V)
        BY <4>2, <4>3, SentHas
      <4>5. ~Has(dq', V)
        BY <2>6, <4>3, <4>4
      <4>6. QED
        BY <4>5, Nothing
    <3>2. sock'[c] = "closed" /\ peer' # c
      BY <1>1, <2>1, <2>6 DEF Typed, ConnTyped
    <3>3. QED
      BY <2>3, <2>4, <3>1, <3>2, YoungKept
  <2>7. QED
    BY <1>6, <2>5, <2>6
<1>9. ASSUME NEW k \in Conns, k # c
      PROVE  Tracked(k)'
  <2>1. (\A t \in {H} : t.conn # k) /\ (\A e \in {n, v} : e.conn # k) /\ Tracked(k)
    BY <1>4, <1>5, <1>9, Names DEF Tracks
  <2>2. /\ sock'[k] = sock[k] /\ (connecting' = k <=> connecting = k) /\ (peer' = k <=> peer = k)
    BY <1>1, <1>7, <1>9
  <2>3. QED
    BY <1>3, <2>1, <2>2, Elsewhere
<1>10. QED
  BY <1>1, <1>7, <1>8, <1>9 DEF Tracks

LEMMA HandleConnectedSocketTracked ==
    ASSUME Typed, Tracks, HandleConnectedSocket
    PROVE  Tracks'
<1>0. PICK c \in Conns : c = H.conn
  BY Heads, IoRead DEF HandleConnectedSocket, Running, H
<1> DEFINE s == Conn("peerStart", c, 0, "")
           a == Conn("announce", c, H.token, "")
           n == Note("verification_failed", None, H.token)
           A == Attempting(c)
           V == Verifies(c)
<1>1. /\ ioq # <<>> /\ ioq \in Seq(IoEntries) /\ H \in A /\ Has(ioq, A) /\ H.op = "verified"
  <2>1. /\ ioq # <<>> /\ ioq \in Seq(IoEntries) /\ H \in IoEntries /\ H.op = "verified"
    BY Heads DEF HandleConnectedSocket, Running, H, Typed, IoTyped
  <2>2. H \in A
    BY <1>0, <2>1 DEF Attempting
  <2> HIDE DEF A
  <2>3. QED
    BY <2>1, <2>2, HeadHas
<1>2. Tracked(c) /\ Young(c)
  BY <1>1 DEF Tracks, Young, Waiting
<1>3. Spares(ioq, ioq', {H, s, a}) /\ Spares(dq, dq', {n})
  BY <1>0, HandleConnectedSocketTyped
<1>4. /\ s \in IoEntries /\ s.conn = c /\ s.op = "peerStart"
      /\ a \in IoEntries /\ a.conn = c /\ a.op = "announce"
      /\ n.conn = None /\ n.op = "note"
  <2>1. H.token \in Nat
    BY <1>1, Heads, IoRead
  <2>2. s \in IoEntries /\ a \in IoEntries
    BY <2>1, IoMade
  <2>3. QED
    BY <2>2 DEF Conn, Note, Entry
<1>5. c # None /\ H.conn = c
  BY <1>0, Names
<1>6. \/ /\ connecting' # c /\ sock' = [sock EXCEPT ![c] = "closed"] /\ peer' = peer
         /\ connecting' = connecting \/ (connecting = c /\ connecting' = None)
         /\ ioq' = Tail(ioq) \o <<>>
      \/ /\ connecting = c /\ connecting' = None /\ peer' = c /\ sock' = sock
         /\ ioq' = Tail(ioq) \o <<s, a>>
  BY <1>0, <1>5 DEF HandleConnectedSocket, Posting
<1>7. /\ \A k \in Conns : k # c => /\ sock'[k] = sock[k] /\ (connecting' = k <=> connecting = k)
                                   /\ peer' = k <=> peer = k
      /\ sock' = sock \/ sock'[c] = "closed"
      /\ connecting' # None => connecting # None /\ peer' = peer
  <2>1. connecting # None => peer = None
    BY DEF Tracks
  <2>2. QED
    BY <1>5, <1>6, <2>1, Names DEF Typed, ConnTyped
<1> HIDE DEF s, a, n
<1>8. /\ ~Has(ioq, OfPeer(c)) /\ ~Has(dq, Words(c)) /\ peer # c /\ ~Has(dq, V)
      /\ NotBefore(ioq, A, A)
      /\ sock[c] \in {"done", "closed"} /\ (connecting = c => sock[c] = "done")
  BY <1>1, <1>2, YoungHas DEF Waiting
<1>9. ~Has(dq', Words(c)) /\ ~Has(dq', V) /\ NotBefore(dq', V, V)
  <2>1. Words(c) \cap {n} = {} /\ V \cap {n} = {}
    BY <1>4, <1>5 DEF Words, Verifies
  <2> HIDE DEF V
  <2>2. ~Has(dq', Words(c)) /\ ~Has(dq', V)
    BY <1>3, <1>8, <2>1, Spared
  <2>3. QED
    BY <2>2, Nothing
<1>10. ASSUME ioq' = Tail(ioq) \o <<>>, connecting' # c, peer' = peer, sock' = [sock EXCEPT ![c] = "closed"]
       PROVE  Tracked(c)'
  <2>1. ~Has(ioq', A) /\ NotBefore(ioq', A, A)
    <3> HIDE DEF A
    <3>1. ~Has(<<>>, A) /\ <<>> \in Seq(IoEntries) /\ Head(ioq) = H
      BY Made DEF H
    <3>2. ~Has(ioq', A)
      BY <1>1, <1>8, <1>10, <3>1, HeadGone
    <3>3. QED
      BY <3>2, Nothing
  <2>2. ~Has(ioq', OfPeer(c))
    <3>1. <<>> \in Seq(IoEntries) /\ ~Has(<<>>, OfPeer(c))
      BY Made
    <3>2. QED
      BY <1>1, <1>8, <1>10, <3>1, TakenHas
  <2>3. sock'[c] = "closed"
    BY <1>10 DEF Typed, ConnTyped
  <2>4. QED
    BY <1>8, <1>9, <1>10, <2>1, <2>2, <2>3, YoungKept
<1>11. ASSUME ioq' = Tail(ioq) \o <<s, a>>, connecting' = None, connecting = c, peer' = c, sock' = sock
       PROVE  Tracked(c)'
  <2> DEFINE x == <<s, a>>
             PS == Handlers("peerStart", c)
             PC == Handlers("peerClose", c)
             EF == EndsForwarded(c)
             F == Handlers("forward", c)
  <2>1. x \in Seq(IoEntries)
    BY <1>4, Said
  <2>2. /\ s \notin A /\ a \notin A /\ s \notin PC /\ a \notin PC /\ s \notin EF /\ a \notin EF
        /\ s \notin F /\ a \notin F /\ a \notin PS
    BY <1>4 DEF Attempting, Handlers, EndsForwarded
  <2>3. /\ PS \subseteq OfPeer(c) /\ PC \subseteq OfPeer(c) /\ EF \subseteq OfPeer(c) /\ F \subseteq OfPeer(c)
    BY DEF Handlers, OfPeer, EndsForwarded
  <2> HIDE DEF A, PS, PC, EF, F
  <2>4. /\ ~Has(x, A) /\ ~Has(x, PC) /\ ~Has(x, EF) /\ ~Has(x, F) /\ NotBefore(x, PS, PS)
    BY <2>2, Literals
  <2>5. ~Has(ioq, PS) /\ ~Has(ioq, PC) /\ ~Has(ioq, EF) /\ ~Has(ioq, F)
    BY <1>8, <2>3 DEF Has
  <2> HIDE DEF x
  <2>6. ~Has(ioq', A)
    <3>1. Head(ioq) = H /\ ioq' = Tail(ioq) \o x
      BY <1>11 DEF H, x
    <3>2. QED
      BY <1>1, <1>8, <2>1, <2>4, <3>1, HeadGone
  <2>7. ~Has(ioq', PC) /\ ~Has(ioq', EF) /\ ~Has(ioq', F)
    <3>1. ioq' = Tail(ioq) \o x
      BY <1>11 DEF x
    <3>2. QED
      BY <1>1, <2>1, <2>4, <2>5, <3>1, TakenHas
  <2>8. NotBefore(ioq', PS, PS) /\ NotBefore(ioq', PC, PS) /\ NotBefore(ioq', A, A)
    <3>1. ioq' = Tail(ioq) \o x
      BY <1>11 DEF x
    <3>2. ~Has(Tail(ioq), PS)
      BY <1>1, <2>1, <2>5, TakenHas
    <3>3. NotBefore(Tail(ioq), PS, PS) /\ Tail(ioq) \in Seq(IoEntries)
      BY <1>1, <3>2, Nothing, Popped
    <3>4. NotBefore(ioq', PS, PS)
      BY <2>1, <2>4, <3>1, <3>2, <3>3, Joined
    <3>5. QED
      BY <2>6, <2>7, <3>4, Nothing
  <2>9. sock[c] = "done" /\ sock' = sock
    BY <1>8, <1>11
  <2>10. ~Has(dq', SignalsOf(c)) /\ ~Has(dq', EndsOf(c))
    BY <1>9 DEF Has, SignalsOf, EndsOf, Words
  <2>11. Begun(c)' /\ ~Young(c)'
    BY <1>5, <1>9, <1>11, <2>6, <2>8, <2>9 DEF Begun, Young, Waiting, Attempting, Verifies, A, V
  <2>12. Started(c)'
    BY <2>7, <2>8, <2>9, <2>10 DEF Started, PS, PC, EF, F, Handlers, EndsForwarded, SignalsOf, EndsOf
  <2>13. Kept(c)'
    BY <1>11, <2>9 DEF Kept
  <2>14. QED
    BY <2>11, <2>12, <2>13 DEF Tracked
<1>12. ASSUME NEW k \in Conns, k # c
      PROVE  Tracked(k)'
  <2>1. (\A t \in {H, s, a} : t.conn # k) /\ (\A e \in {n} : e.conn # k) /\ Tracked(k)
    BY <1>4, <1>5, <1>12, Names DEF Tracks
  <2>2. /\ sock'[k] = sock[k] /\ (connecting' = k <=> connecting = k) /\ (peer' = k <=> peer = k)
    BY <1>7, <1>12
  <2>3. QED
    BY <1>3, <2>1, <2>2, Elsewhere
<1>13. QED
  BY <1>6, <1>7, <1>10, <1>11, <1>12 DEF Tracks

-----------------------------------------------------------------------------
\* The peer of a connection.

LEMMA OldHas ==
    ASSUME NEW c \in Conns, Tracked(c), ~Young(c), Typed
    PROVE  /\ ~Has(ioq, Attempting(c)) /\ ~Has(dq, Verifies(c)) /\ connecting # c
           /\ sock[c] \in {"done", "open", "ended"}
           /\ sock[c] \in {"done", "open"} => c = peer \/ Has(ioq, Handlers("peerClose", c))
BY DEF Tracked, Young, Waiting, Kept, Typed, ConnTyped, SockStates

LEMMA OldKept ==
    ASSUME NEW c \in Conns, connecting' # c, sock'[c] \in {"done", "open", "ended"},
           ~Has(ioq', Attempting(c)), ~Has(dq', Verifies(c)), Started(c)',
           sock'[c] \in {"done", "open"} => c = peer' \/ Has(ioq', Handlers("peerClose", c))
    PROVE  Tracked(c)'
<1>1. /\ NotBefore(ioq', Attempting(c), Attempting(c)) /\ NotBefore(dq', Verifies(c), Verifies(c))
  BY Nothing
<1>2. Begun(c)'
  BY <1>1 DEF Begun, Waiting, Young, Attempting, Verifies
<1>3. Kept(c)'
  BY DEF Kept, Handlers
<1>4. QED
  BY <1>2, <1>3 DEF Tracked

\* Its handler goes that is neither its start nor its close.
LEMMA IoHeardStill ==
    ASSUME Typed, NEW c \in Conns, Tracked(c), ioq # <<>>, H.op \in {"announce", "forward"},
           ~Young(c), Spares(ioq, ioq', {H}), ioq' = Tail(ioq) \o <<>>
    PROVE  IoStill(c)
<1> DEFINE A == Attempting(c)
           PS == Handlers("peerStart", c)
           PC == Handlers("peerClose", c)
<1>1. A \cap {H} = {} /\ PS \cap {H} = {} /\ PC \cap {H} = {}
  BY DEF Attempting, Handlers
<1>2. NotBefore(ioq, A, A) /\ NotBefore(ioq, PS, PS) /\ NotBefore(ioq, PC, PS)
  BY DEF Tracked, Begun, Started
<1> HIDE DEF A, PS, PC
<1>3. /\ Has(ioq', A) <=> Has(ioq, A)
      /\ Has(ioq', PS) <=> Has(ioq, PS)
      /\ Has(ioq', PC) <=> Has(ioq, PC)
      /\ NotBefore(ioq', A, A) /\ NotBefore(ioq', PS, PS) /\ NotBefore(ioq', PC, PS)
  BY <1>1, <1>2, Spared
<1>4. \A B : Has(ioq', B) => Has(ioq, B)
  <2>1. ioq \in Seq(IoEntries) /\ <<>> \in Seq(IoEntries) /\ \A B : ~Has(<<>>, B)
    BY Made DEF Typed, IoTyped
  <2>2. QED
    BY <2>1, TakenHas
<1>5. QED
  BY <1>3, <1>4 DEF IoStill, A, PS, PC

LEMMA AnnounceTracked ==
    ASSUME Typed, Tracks, Announce
    PROVE  Tracks'
<1>0. PICK c \in Conns : c = H.conn
  BY Heads, IoRead DEF Announce, Running, H
<1> DEFINE n == Note("connected", H.conn, H.token)
<1>1. /\ ioq # <<>> /\ H \in IoEntries /\ H.op = "announce" /\ ioq' = Tail(ioq) \o <<>>
      /\ UNCHANGED <<connecting, peer, sock>>
  BY Heads DEF Announce, Running, Posting, H, connVars
<1>2. Spares(ioq, ioq', {H}) /\ Spares(dq, dq', {n})
  BY AnnounceTyped
<1>3. n.conn = c /\ n.op = "note" /\ H.conn = c
  BY <1>0 DEF Note, Conn, Entry
<1> HIDE DEF n
<1>4. Tracked(c) /\ ~Young(c)
  <2>1. Tracked(c) /\ H \in OfPeer(c)
    BY <1>1, <1>3 DEF OfPeer, Tracks
  <2>2. Has(ioq, OfPeer(c))
    BY <1>1, <2>1, HeadHas
  <2>3. QED
    BY <2>1, <2>2, Elder
<1>5. Tracked(c)'
  <2>1. IoStill(c)
    BY <1>1, <1>2, <1>4, IoHeardStill
  <2>2. DqStill(c)
    BY <1>2, <1>3, <1>4, DqSparedStill
  <2>3. QED
    BY <1>1, <1>4, <2>1, <2>2, TrackKept
<1>6. ASSUME NEW k \in Conns, k # c
      PROVE  Tracked(k)'
  <2>1. (\A t \in {H} : t.conn # k) /\ (\A e \in {n} : e.conn # k) /\ Tracked(k)
    BY <1>3, <1>6 DEF Tracks
  <2>2. QED
    BY <1>1, <1>2, <2>1, Elsewhere
<1>7. QED
  BY <1>1, <1>5, <1>6 DEF Tracks

LEMMA ForwardTracked ==
    ASSUME Typed, Tracks, Forward
    PROVE  Tracks'
<1>0. PICK c \in Conns : c = H.conn
  BY Heads, IoRead DEF Forward, Running, H
<1> DEFINE D == CallBacks \cup NotesOf(H.conn, H.token)
<1>1. /\ ioq # <<>> /\ H \in IoEntries /\ H.op = "forward" /\ ioq' = Tail(ioq) \o <<>>
      /\ UNCHANGED <<connecting, sock>> /\ H.conn = c
      /\ peer' = peer \/ (peer = c /\ peer' = None /\ H.what = "closed")
  BY <1>0, Heads DEF Forward, Running, Posting, H
<1>2. Spares(ioq, ioq', {H}) /\ Spares(dq, dq', D)
  BY ForwardTyped
<1>3. \A e \in D : (e.conn = c /\ e.op = "note") \/ e.conn = None
  BY <1>1 DEF CallBacks, NotesOf, PeerNotes
<1> HIDE DEF D
<1>4. Tracked(c) /\ ~Young(c) /\ (H.what = "closed" => sock[c] = "ended") /\ c # None
  <2>1. /\ Tracked(c) /\ H \in OfPeer(c) /\ c # None
        /\ (H.what = "closed" => H \in EndsForwarded(c))
    BY <1>1, Names DEF OfPeer, EndsForwarded, Handlers, Tracks
  <2>2. Has(ioq, OfPeer(c)) /\ (H.what = "closed" => Has(ioq, EndsForwarded(c)))
    BY <1>1, <2>1, HeadHas
  <2>3. QED
    BY <2>1, <2>2, Elder DEF Tracked, Started
<1>5. Tracked(c)'
  <2>1. IoStill(c)
    BY <1>1, <1>2, <1>4, IoHeardStill
  <2>2. DqStill(c)
    BY <1>2, <1>3, <1>4, DqSparedStill
  <2>3. /\ sock'[c] = sock[c] /\ (connecting' = c <=> connecting = c) /\ (peer' = c => peer = c)
        /\ peer' = peer \/ sock[c] \notin {"done", "open"}
    BY <1>1, <1>4
  <2>4. QED
    BY <1>4, <2>1, <2>2, <2>3, TrackKept
<1>6. ASSUME NEW k \in Conns, k # c
      PROVE  Tracked(k)'
  <2>1. (\A t \in {H} : t.conn # k) /\ (\A e \in D : e.conn # k) /\ Tracked(k)
    BY <1>1, <1>3, <1>6, Names DEF Tracks
  <2>2. sock'[k] = sock[k] /\ (connecting' = k <=> connecting = k) /\ (peer' = k <=> peer = k)
    BY <1>1, <1>6, Names
  <2>3. QED
    BY <1>2, <2>1, <2>2, Elsewhere
<1>7. connecting' # None => peer' = None
  BY <1>1 DEF Tracks
<1>8. QED
  BY <1>5, <1>6, <1>7 DEF Tracks

LEMMA PeerStartTracked ==
    ASSUME Typed, Tracks, PeerStart
    PROVE  Tracks'
<1>0. PICK c \in Conns : c = H.conn
  BY Heads, IoRead DEF PeerStart, Running, H
<1> DEFINE PS == Handlers("peerStart", c)
           PC == Handlers("peerClose", c)
           EF == EndsForwarded(c)
           A == Attempting(c)
<1>1. /\ ioq # <<>> /\ H \in IoEntries /\ H.op = "peerStart" /\ ioq' = Tail(ioq) \o <<>>
      /\ UNCHANGED <<connecting, peer, dq>> /\ sock' = [sock EXCEPT ![c] = "open"] /\ H.conn = c
      /\ ioq \in Seq(IoEntries)
  BY <1>0, Heads DEF PeerStart, Running, Posting, H, Typed, IoTyped
<1>2. Spares(ioq, ioq', {H}) /\ Spares(dq, dq', {})
  BY <1>1, PeerStartTyped, SparesAll
<1>3. sock'[c] = "open" /\ \A k \in Conns : k # c => sock'[k] = sock[k]
  BY <1>1 DEF Typed, ConnTyped
<1>4. Tracked(c) /\ ~Young(c) /\ sock[c] = "done" /\ H \in PS
  <2>1. Tracked(c) /\ H \in OfPeer(c) /\ H \in PS
    BY <1>1 DEF OfPeer, Handlers, Tracks
  <2> HIDE DEF PS
  <2>2. Has(ioq, OfPeer(c)) /\ Has(ioq, PS)
    BY <1>1, <2>1, HeadHas
  <2>3. QED
    BY <2>1, <2>2, Elder DEF Tracked, Started, PS
<1>5. Tracked(c)'
  <2>1. /\ A \cap {H} = {} /\ PC \cap {H} = {} /\ EF \cap {H} = {}
        /\ NotBefore(ioq, PS, PS) /\ ~Has(ioq, EF) /\ ~Has(dq, EndsOf(c))
    BY <1>1, <1>4 DEF Attempting, Handlers, EndsForwarded, Tracked, Started
  <2> HIDE DEF A, PC, EF, PS
  <2>2. ~Has(ioq', PS)
    <3>1. Head(ioq) = H /\ <<>> \in Seq(IoEntries) /\ ~Has(<<>>, PS)
      BY Made DEF H
    <3>2. QED
      BY <1>1, <1>4, <2>1, <3>1, HeadGone
  <2>3. /\ Has(ioq', A) <=> Has(ioq, A)
        /\ Has(ioq', PC) <=> Has(ioq, PC)
        /\ ~Has(ioq', EF)
    BY <1>2, <2>1, Spared
  <2>4. NotBefore(ioq', PS, PS) /\ NotBefore(ioq', PC, PS)
    BY <2>2, Nothing
  <2>5. Started(c)'
    BY <1>1, <1>3, <2>1, <2>2, <2>3, <2>4
       DEF Started, PS, PC, EF, Handlers, EndsForwarded, EndsOf, SignalsOf
  <2>6. /\ ~Has(ioq', A) /\ ~Has(dq', Verifies(c)) /\ connecting' # c
        /\ c = peer' \/ Has(ioq', PC)
    BY <1>1, <1>4, <2>3, OldHas DEF A, PC
  <2>7. QED
    BY <1>3, <2>5, <2>6, OldKept DEF A, PC
<1>6. ASSUME NEW k \in Conns, k # c
      PROVE  Tracked(k)'
  <2>1. (\A t \in {H} : t.conn # k) /\ (\A e \in {} : e.conn # k) /\ Tracked(k) /\ sock'[k] = sock[k]
    BY <1>1, <1>3, <1>6 DEF Tracks
  <2>2. QED
    BY <1>1, <1>2, <2>1, Elsewhere
<1>7. QED
  BY <1>1, <1>5, <1>6 DEF Tracks

LEMMA PeerCloseTracked ==
    ASSUME Typed, Tracks, PeerClose
    PROVE  Tracks'
<1>0. PICK c \in Conns : c = H.conn
  BY Heads, IoRead DEF PeerClose, Running, H
<1> DEFINE PS == Handlers("peerStart", c)
           PC == Handlers("peerClose", c)
           A == Attempting(c)
           n == Signal("closed", H.conn, None)
<1>1. /\ ioq # <<>> /\ H \in IoEntries /\ H.op = "peerClose" /\ ioq' = Tail(ioq) \o <<>>
      /\ UNCHANGED <<connecting, peer>> /\ sock' = [sock EXCEPT ![c] = "ended"] /\ H.conn = c
      /\ ioq \in Seq(IoEntries)
  BY <1>0, Heads DEF PeerClose, Running, Posting, H, Typed, IoTyped
<1>2. Spares(ioq, ioq', {H}) /\ Spares(dq, dq', {n})
  BY PeerCloseTyped
<1>3. sock'[c] = "ended" /\ \A k \in Conns : k # c => sock'[k] = sock[k]
  BY <1>1 DEF Typed, ConnTyped
<1>4. Tracked(c) /\ ~Young(c) /\ H \in PC
  <2>1. Tracked(c) /\ H \in OfPeer(c) /\ H \in PC
    BY <1>1 DEF OfPeer, Handlers, Tracks
  <2>2. Has(ioq, OfPeer(c))
    BY <1>1, <2>1, HeadHas
  <2>3. QED
    BY <2>1, <2>2, Elder
<1>5. n.conn = c /\ n.op = "signal"
  BY <1>1 DEF Signal, Entry
<1> HIDE DEF n
<1>6. Tracked(c)'
  <2>1. A \cap {H} = {} /\ Verifies(c) \cap {n} = {} /\ NotBefore(ioq, PC, PS)
    BY <1>1, <1>4, <1>5 DEF Attempting, Verifies, Tracked, Started
  <2> HIDE DEF A, PC, PS
  <2>2. ~Has(ioq', PS)
    <3>1. Head(ioq) = H /\ <<>> \in Seq(IoEntries) /\ ~Has(<<>>, PS)
      BY Made DEF H
    <3>2. QED
      BY <1>1, <1>4, <2>1, <3>1, HeadGone
  <2>3. ~Has(ioq, A) /\ ~Has(dq, Verifies(c)) /\ connecting # c
    BY <1>4, OldHas DEF A
  <2>4. ~Has(ioq', A) /\ ~Has(dq', Verifies(c))
    BY <1>2, <2>1, <2>3, Spared
  <2>5. NotBefore(ioq', PS, PS) /\ NotBefore(ioq', PC, PS)
    BY <2>2, Nothing
  <2>6. Started(c)'
    BY <1>3, <2>2, <2>5
       DEF Started, PS, PC, Handlers, EndsForwarded, EndsOf, SignalsOf
  <2>7. QED
    BY <1>1, <1>3, <2>3, <2>4, <2>6, OldKept DEF A
<1>7. ASSUME NEW k \in Conns, k # c
      PROVE  Tracked(k)'
  <2>1. (\A t \in {H} : t.conn # k) /\ (\A e \in {n} : e.conn # k) /\ Tracked(k) /\ sock'[k] = sock[k]
    BY <1>1, <1>3, <1>5, <1>7 DEF Tracks
  <2>2. QED
    BY <1>1, <1>2, <2>1, Elsewhere
<1>8. QED
  BY <1>1, <1>6, <1>7 DEF Tracks

LEMMA PeerReadsTracked ==
    ASSUME Typed, Tracks, NEW c \in Conns, PeerReads(c)
    PROVE  Tracks'
<1> DEFINE D == SignalsOf(c) \ EndsOf(c)
           V == Verifies(c)
           N == EndsOf(c)
<1>1. sock[c] \in {"open", "ended"} /\ UNCHANGED <<ioq, connecting, peer, sock>>
  BY DEF PeerReads, connVars
<1>2. Spares(ioq, ioq', {}) /\ Spares(dq, dq', D)
  BY <1>1, PeerReadsTyped, SparesAll
<1>3. Tracked(c) /\ ~Young(c)
  BY <1>1, Elder DEF Tracks
<1>4. Tracked(c)'
  <2>1. V \cap D = {} /\ N \cap D = {} /\ NotBefore(dq, V, V)
    BY <1>3 DEF Verifies, SignalsOf, Tracked, Begun
  <2> HIDE DEF V, N, D
  <2>2. /\ Has(dq', V) <=> Has(dq, V)
        /\ Has(dq', N) <=> Has(dq, N)
        /\ NotBefore(dq', V, V)
    BY <1>2, <2>1, Spared
  <2>3. DqStill(c)
    BY <1>1, <1>3, <2>2 DEF DqStill, V, N
  <2>4. IoStill(c)
    <3>1. \A t \in {} : t.conn # c
      OBVIOUS
    <3>2. QED
      BY <1>2, <1>3, <3>1, IoSparedStill
  <2>5. QED
    BY <1>1, <1>3, <2>3, <2>4, TrackKept
<1>5. ASSUME NEW k \in Conns, k # c
      PROVE  Tracked(k)'
  <2>1. (\A t \in {} : t.conn # k) /\ (\A e \in D : e.conn # k) /\ Tracked(k)
    BY <1>5 DEF Tracks, SignalsOf
  <2> HIDE DEF D
  <2>2. QED
    BY <1>1, <1>2, <2>1, Elsewhere
<1>6. QED
  BY <1>1, <1>4, <1>5 DEF Tracks

LEMMA PeerEndsTracked ==
    ASSUME Typed, Tracks, NEW c \in Conns, PeerEnds(c)
    PROVE  Tracks'
<1> DEFINE D == {Signal("error", c, None), Signal("closed", c, None)}
           V == Verifies(c)
           PS == Handlers("peerStart", c)
<1>1. /\ sock[c] = "open" /\ UNCHANGED <<ioq, connecting, peer>> /\ sock' = [sock EXCEPT ![c] = "ended"]
  BY DEF PeerEnds
<1>2. Spares(ioq, ioq', {}) /\ Spares(dq, dq', D)
  BY <1>1, PeerEndsTyped, SparesAll
<1>3. Tracked(c) /\ ~Young(c) /\ ~Has(ioq, PS)
  <2>1. Tracked(c)
    BY DEF Tracks
  <2>2. QED
    BY <1>1, <2>1, Elder DEF Tracked, Started
<1>4. sock'[c] = "ended" /\ \A k \in Conns : k # c => sock'[k] = sock[k]
  BY <1>1 DEF Typed, ConnTyped
<1>5. \A e \in D : e.conn = c /\ e.op = "signal"
  BY DEF Signal, Entry
<1>6. Tracked(c)'
  <2>1. V \cap D = {}
    BY <1>5 DEF Verifies
  <2> HIDE DEF V, D, PS
  <2>2. ~Has(ioq, Attempting(c)) /\ ~Has(dq, V) /\ connecting # c
    BY <1>3, OldHas DEF V
  <2>3. ~Has(dq', V)
    BY <1>2, <2>1, <2>2, Spared
  <2>4. NotBefore(ioq', PS, PS) /\ NotBefore(ioq', Handlers("peerClose", c), PS)
    BY <1>1, <1>3, Nothing
  <2>5. Started(c)'
    BY <1>1, <1>3, <1>4, <2>4 DEF Started, PS, Handlers, EndsForwarded, EndsOf, SignalsOf
  <2>6. QED
    BY <1>1, <1>4, <2>2, <2>3, <2>5, OldKept DEF V
<1>7. ASSUME NEW k \in Conns, k # c
      PROVE  Tracked(k)'
  <2>1. (\A t \in {} : t.conn # k) /\ (\A e \in D : e.conn # k) /\ Tracked(k) /\ sock'[k] = sock[k]
    BY <1>4, <1>5, <1>7 DEF Tracks
  <2> HIDE DEF D
  <2>2. QED
    BY <1>1, <1>2, <2>1, Elsewhere
<1>8. QED
  BY <1>1, <1>6, <1>7 DEF Tracks

LEMMA ReleaseTracked ==
    ASSUME Typed, Tracks, NEW c \in Conns, Release(c)
    PROVE  Tracks'
<1>1. /\ UNCHANGED <<ioq, connecting, peer>> /\ sock' = [sock EXCEPT ![c] = "free"]
      /\ connecting # c /\ peer # c
      /\ \A t \in ToSet(ioq) : t.conn # c
  BY DEF Release
<1>2. Spares(ioq, ioq', {}) /\ Spares(dq, dq', DqAbout(c)) /\ ~Has(dq', DqAbout(c))
  BY <1>1, ReleaseTyped, SparesAll
<1>3. sock'[c] = "free" /\ \A k \in Conns : k # c => sock'[k] = sock[k]
  BY <1>1 DEF Typed, ConnTyped
<1>4. Tracked(c)'
  <2>1. ~Has(ioq', OfPeer(c)) /\ ~Has(ioq', Attempting(c))
    <3>1. \A t \in OfPeer(c) \cup Attempting(c) : t.conn = c
      BY DEF OfPeer, Attempting
    <3>2. \A t \in ToSet(ioq) : t \notin OfPeer(c) /\ t \notin Attempting(c)
      BY <1>1, <3>1
    <3>3. QED
      BY <1>1, <3>2, Elements
  <2>2. ~Has(dq', Words(c)) /\ ~Has(dq', Verifies(c))
    BY <1>2 DEF Has, Words, Verifies, DqAbout
  <2>3. NotBefore(ioq', Attempting(c), Attempting(c)) /\ NotBefore(dq', Verifies(c), Verifies(c))
    BY <2>1, <2>2, Nothing
  <2>4. QED
    BY <1>1, <1>3, <2>1, <2>2, <2>3, YoungKept
<1>5. ASSUME NEW k \in Conns, k # c
      PROVE  Tracked(k)'
  <2>1. (\A t \in {} : t.conn # k) /\ (\A e \in DqAbout(c) : e.conn # k) /\ Tracked(k) /\ sock'[k] = sock[k]
    BY <1>3, <1>5 DEF Tracks, DqAbout
  <2>2. QED
    BY <1>1, <1>2, <2>1, Elsewhere
<1>6. QED
  BY <1>1, <1>4, <1>5 DEF Tracks

-----------------------------------------------------------------------------
\* The end of the connection, whoever asks for it.

LEMMA IoPoppedSpares ==
    ASSUME Typed, ioq # <<>>, ioq' = Tail(ioq) \o <<>>
    PROVE  Spares(ioq, ioq', {H})
<1> DEFINE D == {H}
<1>1. D \in SUBSET IoEntries /\ H \in D /\ <<>> \in Seq(D) /\ ioq \in Seq(IoEntries)
  BY Heads DEF Typed, IoTyped
<1> HIDE DEF D
<1>2. Spares(ioq, ioq', D)
  BY <1>1, Moves DEF H
<1>3. QED
  BY <1>2 DEF D

LEMMA PeerCloseSent ==
    ASSUME Typed, Tracks, ioq # <<>>, peer # None, NEW x \in Seq(IoEntries),
           \A c \in Conns : ~Has(x, Handlers("peerStart", c)), ioq' = Tail(ioq) \o (ClosedPeer \o x)
    PROVE  /\ Has(ioq', Handlers("peerClose", peer))
           /\ NotBefore(ioq', Handlers("peerClose", peer), Handlers("peerStart", peer))
<1>0. PICK c \in Conns : c = peer
  BY DEF Typed, ConnTyped
<1> DEFINE PC == Handlers("peerClose", c)
           PS == Handlers("peerStart", c)
           y == ClosedPeer \o x
           t == Tail(ioq)
<1>1. ClosedPeer \in Seq(IoEntries) /\ ~Has(ClosedPeer, PS) /\ Has(ClosedPeer, PC) /\ ioq \in Seq(IoEntries)
  <2>1. PS \cap Handlers("peerClose", peer) = {}
    BY DEF Handlers
  <2> DEFINE e == Conn("peerClose", peer, 0, "")
  <2>2. ClosedPeer \in Seq(IoEntries) /\ ~Has(ClosedPeer, PS) /\ ClosedPeer = <<e>> /\ e \in PC
    BY <1>0, <2>1, ClosedPeerPosted
  <2> HIDE DEF e, PS, PC
  <2>3. QED
    BY <2>2, Literals DEF Typed, IoTyped
<1>2. NotBefore(ioq, PC, PS) /\ ~Has(x, PS)
  BY DEF Tracks, Tracked, Started
<1> HIDE DEF PC, PS
<1>3. y \in Seq(IoEntries) /\ Has(y, PC) /\ ~Has(y, PS)
  BY <1>1, <1>2, SentHas
<1>4. t \in Seq(IoEntries) /\ NotBefore(t, PC, PS)
  BY <1>1, <1>2, Popped
<1> HIDE DEF y, t
<1>5. NotBefore(y, PC, PS)
  BY <1>3, Nothing
<1>6. /\ t \in Seq(IoEntries) /\ NotBefore(t, PC, PS)
      /\ y \in Seq(IoEntries) /\ Has(y, PC) /\ ~Has(y, PS) /\ NotBefore(y, PC, PS)
  BY <1>3, <1>4, <1>5
<1>7. Has(t \o y, PC) /\ NotBefore(t \o y, PC, PS)
  BY <1>6, Joined
<1>8. QED
  BY <1>0, <1>7 DEF PC, PS, t, y

LEMMA ConnectionEnds ==
    ASSUME Typed, Tracks, CloseConnecting, peer' = None,
           NEW D1, NEW D2, Spares(ioq, ioq', D1), Spares(dq, dq', D2),
           \A t \in D1 : t.conn = None \/ (t.conn = peer /\ t.op = "peerClose"),
           \A e \in D2 : e.conn = None \/ (e.conn = peer /\ e.op = "note"),
           peer # None => /\ Has(ioq', Handlers("peerClose", peer))
                          /\ NotBefore(ioq', Handlers("peerClose", peer), Handlers("peerStart", peer))
    PROVE  Tracks'
<1>1. /\ connecting' = None
      /\ \A k \in Conns : k # connecting => sock'[k] = sock[k]
      /\ \A k \in Conns : k = connecting => sock'[k] = IF sock[k] = "done" THEN "closed" ELSE sock[k]
  BY Names DEF CloseConnecting, Typed, ConnTyped
<1>2. ASSUME NEW k \in Conns, k = peer
      PROVE  Tracked(k)'
  <2> DEFINE A == Attempting(k)
             PS == Handlers("peerStart", k)
             PC == Handlers("peerClose", k)
             EF == EndsForwarded(k)
             F == Handlers("forward", k)
  <2>1. Tracked(k) /\ ~Young(k)
    BY <1>2, Elder DEF Tracks
  <2>2. /\ k # None /\ connecting # k /\ sock'[k] = sock[k] /\ Has(ioq', PC) /\ NotBefore(ioq', PC, PS)
    <3>1. k # None /\ connecting # k
      BY <1>2, Names DEF Tracks
    <3>2. QED
      BY <1>1, <1>2, <3>1
  <2>3. A \cap D1 = {} /\ PS \cap D1 = {} /\ EF \cap D1 = {} /\ F \cap D1 = {}
    BY <2>2 DEF Attempting, Handlers, EndsForwarded
  <2>4. NotBefore(ioq, A, A) /\ NotBefore(ioq, PS, PS)
    BY <2>1 DEF Tracked, Begun, Started
  <2>5. DqStill(k)
    BY <2>1, <2>2, DqSparedStill
  <2> HIDE DEF A, PS, PC, EF, F
  <2>6. /\ Has(ioq', A) <=> Has(ioq, A)
        /\ Has(ioq', PS) <=> Has(ioq, PS)
        /\ Has(ioq', EF) <=> Has(ioq, EF)
        /\ Has(ioq', F) <=> Has(ioq, F)
        /\ NotBefore(ioq', A, A) /\ NotBefore(ioq', PS, PS)
    BY <2>3, <2>4, Spared
  <2>7. IoStill(k)
    BY <2>1, <2>2, <2>6 DEF IoStill, A, PS, PC, EF, F
  <2>8. (connecting' = k <=> connecting = k) /\ peer' # k /\ Has(ioq', Handlers("peerClose", k))
    BY <1>1, <2>2 DEF PC
  <2>9. QED
    BY <2>1, <2>2, <2>5, <2>7, <2>8, TrackKept
<1>3. ASSUME NEW k \in Conns, k = connecting
      PROVE  Tracked(k)'
  <2>1. Tracked(k) /\ Young(k) /\ k # None /\ peer = None
    BY <1>3, Names DEF Young, Tracks
  <2>2. /\ OfPeer(k) \cap D1 = {} /\ Attempting(k) \cap D1 = {}
        /\ Words(k) \cap D2 = {} /\ Verifies(k) \cap D2 = {}
    BY <2>1 DEF OfPeer, Attempting, Words, Verifies
  <2>3. /\ ~Has(ioq, OfPeer(k)) /\ ~Has(dq, Words(k))
        /\ NotBefore(ioq, Attempting(k), Attempting(k)) /\ NotBefore(dq, Verifies(k), Verifies(k))
        /\ ~(Has(ioq, Attempting(k)) /\ Has(dq, Verifies(k)))
        /\ Has(ioq, Attempting(k)) \/ Has(dq, Verifies(k)) => sock[k] = "done"
        /\ sock[k] \in {"connecting", "done", "closed"}
    BY <1>3, <2>1, YoungHas DEF Waiting
  <2>4. /\ ~Has(ioq', OfPeer(k)) /\ ~Has(dq', Words(k))
        /\ NotBefore(ioq', Attempting(k), Attempting(k)) /\ NotBefore(dq', Verifies(k), Verifies(k))
        /\ Has(ioq', Attempting(k)) <=> Has(ioq, Attempting(k))
        /\ Has(dq', Verifies(k)) <=> Has(dq, Verifies(k))
    BY <2>2, <2>3, Spared
  <2>5. /\ connecting' # k /\ peer' # k /\ sock'[k] \in {"connecting", "closed"}
        /\ sock[k] = "done" => sock'[k] = "closed"
    BY <1>1, <1>3, <2>1, <2>3
  <2>6. QED
    BY <2>3, <2>4, <2>5, YoungKept
<1>4. ASSUME NEW k \in Conns, k # peer, k # connecting
      PROVE  Tracked(k)'
  <2>1. k # None /\ Tracked(k)
    BY Names DEF Tracks
  <2>2. (\A t \in D1 : t.conn # k) /\ (\A e \in D2 : e.conn # k)
    BY <1>4, <2>1
  <2>3. sock'[k] = sock[k] /\ (connecting' = k <=> connecting = k) /\ (peer' = k <=> peer = k)
    BY <1>1, <1>4, <2>1
  <2>4. QED
    BY <2>1, <2>2, <2>3, Elsewhere
<1>5. QED
  BY <1>1, <1>2, <1>3, <1>4 DEF Tracks

LEMMA RequestTimeoutTracked ==
    ASSUME Typed, Tracks, RequestTimeout
    PROVE  Tracks'
<1>1. /\ ioq # <<>> /\ H \in IoEntries /\ H.op = "timeout" /\ H.conn = None
      /\ UNCHANGED <<connecting, sock>> /\ ioq \in Seq(IoEntries)
  <2>1. ioq # <<>> /\ H \in IoEntries /\ H.op = "timeout"
    BY Heads DEF RequestTimeout, Running, H
  <2>2. QED
    BY <2>1, IoRead DEF RequestTimeout, Typed, IoTyped
<1>2. CASE peer' = None /\ peer # None /\ ioq' = Tail(ioq) \o ClosedPeer
  <2> DEFINE D1 == {H} \cup Handlers("peerClose", peer)
             D2 == CallBacks \cup NotesOf(peer, requestToken[H.req])
  <2>1. Spares(ioq, ioq', D1) /\ Spares(dq, dq', D2)
    BY RequestTimeoutTyped
  <2>2. /\ \A t \in D1 : t.conn = None \/ (t.conn = peer /\ t.op = "peerClose")
        /\ \A e \in D2 : e.conn = None \/ (e.conn = peer /\ e.op = "note")
    BY <1>1 DEF Handlers, CallBacks, NotesOf, PeerNotes
  <2> HIDE DEF D1, D2
  <2>3. ClosedPeer \o <<>> = ClosedPeer /\ <<>> \in Seq(IoEntries)
        /\ \A c \in Conns : ~Has(<<>>, Handlers("peerStart", c))
    BY ClosedPeerPosted, Plain, Made
  <2>4. /\ Has(ioq', Handlers("peerClose", peer))
        /\ NotBefore(ioq', Handlers("peerClose", peer), Handlers("peerStart", peer))
    BY <1>1, <1>2, <2>3, PeerCloseSent
  <2>5. CloseConnecting
    BY <1>1, <1>2 DEF CloseConnecting, Tracks
  <2>6. QED
    BY <1>2, <2>1, <2>2, <2>4, <2>5, ConnectionEnds
<1>3. ASSUME peer' = peer, ioq' = Tail(ioq) \o <<>>, dq' = dq \/ \E x \in Seq(CallBacks) : dq' = dq \o x
      PROVE  Tracks'
  <2>1. Spares(ioq, ioq', {H})
    BY <1>1, <1>3, IoPoppedSpares
  <2>2. Spares(dq, dq', CallBacks)
    <3>1. CallBacks \in SUBSET DqEntries /\ dq \in Seq(DqEntries)
      BY DEF DqEntries, Typed, DqTyped
    <3>2. QED
      BY <1>3, <3>1, Moves, SparesAll
  <2>3. (\A t \in {H} : t.conn = None) /\ \A e \in CallBacks : e.conn = None
    BY <1>1 DEF CallBacks
  <2>4. QED
    BY <1>1, <1>3, <2>1, <2>2, <2>3, Unconcerned
<1>4. \/ peer' = None /\ peer # None /\ ioq' = Tail(ioq) \o ClosedPeer
      \/ peer' = peer /\ ioq' = Tail(ioq) \o <<>> /\ dq' = dq
      \/ peer' = peer /\ ioq' = Tail(ioq) \o <<>> /\ H.req \in pending /\ Completing(<<H.req>> \o <<>>, <<>>)
  BY DEF RequestTimeout, Posting
<1>5. Completing(<<H.req>> \o <<>>, <<>>) /\ H.req \in pending =>
        (dq' = dq \/ \E x \in Seq(CallBacks) : dq' = dq \o x)
  <2>1. H.req \in pending => H.req \in Requests /\ <<H.req>> \o <<>> \in Seq(Requests)
    BY DEF Typed, RequestTyped
  <2>2. {} \in SUBSET DqEntries /\ <<>> \in Seq({}) /\ CallBacks \cup {} = CallBacks
    OBVIOUS
  <2>3. QED
    BY <2>1, <2>2, Completed
<1>6. QED
  BY <1>2, <1>3, <1>4, <1>5

LEMMA EndConnectionTracked ==
    ASSUME Typed, Tracks, EndConnection
    PROVE  Tracks'
<1>1. /\ ioq # <<>> /\ H \in IoEntries /\ H.op \in {"stop", "invalidate"} /\ H.conn = None
  <2>1. ioq # <<>> /\ H \in IoEntries /\ H.op \in {"stop", "invalidate"}
    BY Heads DEF EndConnection
  <2>2. QED
    BY <2>1, IoRead
<1>2. CASE Locked
  <2> DEFINE D1 == {H} \cup Handlers("peerClose", peer)
             D2 == CallBacks \cup {Note("reconnect", None, H.token)}
  <2>0. CloseConnecting /\ peer' = None /\ ioq' = Tail(ioq) \o ClosedPeer
    BY <1>2 DEF EndConnection, Posting
  <2>1. Spares(ioq, ioq', D1) /\ Spares(dq, dq', D2)
    BY EndConnectionTyped
  <2>2. /\ \A t \in D1 : t.conn = None \/ (t.conn = peer /\ t.op = "peerClose")
        /\ \A e \in D2 : e.conn = None \/ (e.conn = peer /\ e.op = "note")
    <3>1. Note("reconnect", None, H.token).conn = None
      BY DEF Note, Conn, Entry
    <3>2. QED
      BY <1>1, <3>1 DEF Handlers, CallBacks
  <2> HIDE DEF D1, D2
  <2>3. /\ ClosedPeer \o <<>> = ClosedPeer /\ <<>> \in Seq(IoEntries)
        /\ \A c \in Conns : ~Has(<<>>, Handlers("peerStart", c))
    BY ClosedPeerPosted, Plain, Made
  <2>4. peer # None => /\ Has(ioq', Handlers("peerClose", peer))
                       /\ NotBefore(ioq', Handlers("peerClose", peer), Handlers("peerStart", peer))
    BY <1>1, <2>0, <2>3, PeerCloseSent
  <2>5. QED
    BY <2>0, <2>1, <2>2, <2>4, ConnectionEnds
<1>3. CASE ~Locked
  <2>1. ioq' = Tail(ioq) \o <<>> /\ UNCHANGED <<connecting, sock, peer, dq>>
    BY <1>3 DEF EndConnection, Posting
  <2>2. Spares(ioq, ioq', {H}) /\ Spares(dq, dq', {})
    BY <1>1, <2>1, IoPoppedSpares, SparesAll
  <2>3. (\A t \in {H} : t.conn = None) /\ \A e \in {} : e.conn = None
    BY <1>1
  <2>4. QED
    BY <2>1, <2>2, <2>3, Unconcerned
<1>4. QED
  BY <1>2, <1>3

LEMMA ShutdownTracked ==
    ASSUME Typed, Tracks, Shutdown
    PROVE  Tracks'
<1> DEFINE k == Do("keepAlive")
           D1 == {H, k} \cup Handlers("peerClose", peer)
<1>1. /\ ioq # <<>> /\ H \in IoEntries /\ H.op = "shutdown" /\ H.conn = None
      /\ CloseConnecting /\ peer' = None /\ ioq' = Tail(ioq) \o (ClosedPeer \o <<k>>)
  <2>1. ioq # <<>> /\ H \in IoEntries /\ H.op = "shutdown"
    BY Heads DEF Shutdown, Running, H
  <2>2. QED
    BY <2>1, IoRead DEF Shutdown, Posting
<1>2. Spares(ioq, ioq', D1) /\ Spares(dq, dq', CallBacks)
  BY ShutdownTyped
<1>3. k \in IoEntries /\ k.conn = None /\ k.op = "keepAlive"
  BY IoMade DEF Do, Entry
<1> HIDE DEF k
<1>4. /\ \A t \in D1 : t.conn = None \/ (t.conn = peer /\ t.op = "peerClose")
      /\ \A e \in CallBacks : e.conn = None \/ (e.conn = peer /\ e.op = "note")
  BY <1>1, <1>3 DEF Handlers, CallBacks
<1> HIDE DEF D1
<1>5. <<k>> \in Seq(IoEntries) /\ \A c \in Conns : ~Has(<<k>>, Handlers("peerStart", c))
  <2>1. \A c \in Conns : k \notin Handlers("peerStart", c)
    BY <1>3 DEF Handlers
  <2>2. QED
    BY <1>3, <2>1, Said, Literals
<1>6. peer # None => /\ Has(ioq', Handlers("peerClose", peer))
                     /\ NotBefore(ioq', Handlers("peerClose", peer), Handlers("peerStart", peer))
  BY <1>1, <1>5, PeerCloseSent
<1>7. QED
  BY <1>1, <1>2, <1>4, <1>6, ConnectionEnds

LEMMA TracksInit == Init => Tracks
<1> SUFFICES ASSUME Init
             PROVE  Tracks
  OBVIOUS
<1>1. /\ dq = <<>> /\ ioq = <<>> /\ connecting = None /\ peer = None
      /\ \A c \in Conns : sock[c] = "free"
  BY DEF Init
<1>2. \A A, B : ~Has(dq, A) /\ ~Has(ioq, A) /\ NotBefore(dq, A, B) /\ NotBefore(ioq, A, B)
  BY <1>1 DEF Has, NotBefore
<1>3. QED
  BY <1>1, <1>2, Names DEF Tracks, Tracked, Begun, Started, Kept, Waiting, Young

LEMMA IdleTracked ==
    ASSUME Tracks, UNCHANGED vars
    PROVE  Tracks'
<1>1. UNCHANGED <<dq, ioq, connecting, peer, sock>>
  BY DEF vars, connVars
<1>2. Spares(dq, dq', {}) /\ Spares(ioq, ioq', {})
  BY <1>1, SparesAll
<1>3. (\A t \in {} : t.conn = None) /\ \A e \in {} : e.conn = None
  OBVIOUS
<1>4. QED
  BY <1>1, <1>2, <1>3, Unconcerned

LEMMA TracksStep == Typed /\ Tracks /\ [Next]_vars => Tracks'
<1> SUFFICES ASSUME Typed, Tracks, [Next]_vars
             PROVE  Tracks'
  OBVIOUS
<1>1. CASE \E op \in {"start", "stop", "invalidate"} : Call(op)
  BY <1>1, CallTracked
<1>2. CASE \E r \in Requests : AsyncRequest(r) \/ TimerExpires(r)
  BY <1>2, AsyncRequestTracked, TimerExpiresTracked
<1>3. CASE DispatcherStep \/ Reconnect \/ Detach
  BY <1>3, StartTracked, EndSessionTracked, PostEndOfSessionTracked, NotifyTracked, VerifyTracked,
     DispatchSignalTracked, DebounceTracked, CallBackTracked, PostShutdownTracked, ReconnectTracked,
     DetachTracked DEF DispatcherStep
<1>4. CASE IoStep \/ Destroy
  BY <1>4, ConnectIgnoredTracked, ConnectBadPathTracked, ConnectBeginsTracked, ConnectDoneTracked,
     HandleConnectedSocketTracked, AnnounceTracked, PeerStartTracked, PeerCloseTracked, ForwardTracked,
     SendRequestTracked, RequestTimeoutTracked, EndConnectionTracked, ShutdownTracked, KeepAliveTracked,
     DestroyTracked DEF IoStep
<1>5. CASE \E c \in Conns : \E outcome \in {"connected", "failed"} : Connects(c, outcome)
  BY <1>5, ConnectsTracked
<1>6. CASE \E c \in Conns : PeerReads(c) \/ PeerEnds(c) \/ Release(c)
  BY <1>6, PeerReadsTracked, PeerEndsTracked, ReleaseTracked
<1>7. CASE UNCHANGED vars
  BY <1>7, IdleTracked
<1>8. QED
  BY <1>1, <1>2, <1>3, <1>4, <1>5, <1>6, <1>7 DEF Next, Destroyed

-----------------------------------------------------------------------------
\* What follows for the sockets.

Owned == Typed /\ PendingHasPeer /\ Ordered /\ Tracks

LEMMA Owning == Init => Owned
BY TypedInit, OrderedInit, TracksInit DEF Owned, Init, PendingHasPeer

LEMMA OwnedStep == Owned /\ [Next]_vars => Owned'
BY TypedStep, WaitsStep, OrderedStep, TracksStep DEF Owned

LEMMA HasEntry ==
    ASSUME NEW op, NEW c, Has(ioq, Handlers(op, c))
    PROVE  \E t \in ToSet(ioq) : t.op = op /\ t.conn = c
<1>1. PICK t \in ToSet(ioq) : t \in Handlers(op, c)
  BY Elements
<1>2. QED
  BY <1>1 DEF Handlers

\* The client never has two connections, or an attempt next to one: connect() looks at both
\* pointers and handle_connected_socket() exchanges one for the other; an open socket that is not
\* the peer's is about to be closed.
THEOREM Single == Spec => []OneConnection
<1>1. Owned => OneConnection
  <2> SUFFICES ASSUME Owned
               PROVE  OneConnection
    OBVIOUS
  <2>1. ASSUME NEW c \in Conns, sock[c] = "open", c # peer
        PROVE  \E t \in ToSet(ioq) : t.op = "peerClose" /\ t.conn = c
    <3>1. Has(ioq, Handlers("peerClose", c))
      BY <2>1 DEF Owned, Tracks, Tracked, Kept
    <3>2. QED
      BY <3>1, HasEntry
  <2>2. QED
    BY <2>1 DEF Owned, Tracks, OneConnection
<1>2. QED
  BY <1>1, Owning, OwnedStep, PTL DEF Spec

\* No socket is lost between stop, invalidate_connection, a late completion of async_connect and
\* the end of a peer: it is the client's, or the handler that closes it is queued; and none is
\* left when a stop or the shutdown has run to its end on both threads.
THEOREM Sockets == Spec => []NoLostSocket
<1>1. Owned => NoLostSocket
  <2> SUFFICES ASSUME Owned
               PROVE  NoLostSocket
    OBVIOUS
  <2>1. ASSUME NEW c \in Conns, sock[c] \in {"done", "open"}, c \notin {connecting, peer}
        PROVE  \E t \in ToSet(ioq) : t.op \in ClosesTasks /\ t.conn = c
    <3>1. Has(ioq, Handlers("peerClose", c)) \/ Has(ioq, Attempting(c))
      BY <2>1 DEF Owned, Tracks, Tracked, Kept
    <3>2. CASE Has(ioq, Handlers("peerClose", c))
      BY <3>2, HasEntry DEF ClosesTasks
    <3>3. CASE Has(ioq, Attempting(c))
      <4>1. PICK t \in ToSet(ioq) : t \in Attempting(c)
        BY <3>3, Elements
      <4>2. QED
        BY <4>1 DEF Attempting, ClosesTasks
    <3>4. QED
      BY <3>1, <3>2, <3>3
  <2>2. ASSUME ~running, dpc = "idle", ioq = <<>>
        PROVE  peer = None /\ connecting = None
    <3>1. ~Has(ioq, Enders)
      BY <2>2 DEF Has
    <3>2. QED
      BY <2>2, <3>1 DEF Owned, Ordered
  <2>3. QED
    BY <2>1, <2>2 DEF NoLostSocket
<1>2. QED
  BY <1>1, Owning, OwnedStep, PTL DEF Spec

\* A callback is dropped for a client that was destroyed, only.
Dropped == \A r \in Requests : request[r] = "dropped" => ~attached

LEMMA DroppedCompleting ==
    ASSUME Dropped, NEW reqs, NEW entries, Completing(reqs, entries), attached' = attached
    PROVE  Dropped'
BY DEF Completing, Dropped

LEMMA DroppedStep == Typed /\ Ordered /\ Dropped /\ [Next]_vars => Dropped'
<1> SUFFICES ASSUME Typed, Ordered, Dropped, [Next]_vars
             PROVE  Dropped'
  OBVIOUS
<1>0. CASE UNCHANGED <<request, attached>>
  BY <1>0 DEF Dropped
<1>1. CASE \E op \in {"start", "stop", "invalidate"} : Call(op)
  BY <1>1, <1>0 DEF Call, requestVars, scopeVars
<1>2. CASE \E r \in Requests : AsyncRequest(r) \/ TimerExpires(r)
  <2>1. ASSUME NEW r \in Requests, AsyncRequest(r)
        PROVE  Dropped'
    BY <2>1 DEF AsyncRequest, Dropped, Typed, RequestTyped, scopeVars
  <2>2. QED
    BY <1>2, <1>0, <2>1 DEF TimerExpires, requestVars, scopeVars, IoUnchanged
<1>3. CASE DispatcherStep \/ Reconnect
  <2>1. CASE CallBack
    BY <2>1 DEF CallBack, Dropped, Typed, RequestTyped, scopeVars
  <2>2. CASE Start \/ Notify \/ Verify \/ DispatchSignal \/ Debounce \/ Reconnect
    BY <2>2, <1>0 DEF Start, Notify, Verify, DispatchSignal, Debounce, Reconnect, requestVars, scopeVars
  <2>3. CASE EndSession("stop") \/ EndSession("invalidate") \/ PostEndOfSession \/ PostShutdown
    BY <2>3, <1>0 DEF EndSession, PostEndOfSession, PostShutdown, requestVars, scopeVars
  <2>4. QED
    BY <1>3, <2>1, <2>2, <2>3 DEF DispatcherStep
<1>4. CASE Detach
  BY <1>4 DEF Detach, Dropped
<1>5. CASE IoStep \/ Destroy
  <2>1. CASE \/ ConnectIgnored \/ ConnectBadPath \/ Announce \/ PeerStart \/ PeerClose \/ KeepAlive
             \/ ConnectDone \/ HandleConnectedSocket \/ Destroy \/ \E c \in Conns : ConnectBegins(c)
    BY <2>1, <1>0 DEF ConnectIgnored, ConnectBadPath, Announce, PeerStart, PeerClose, KeepAlive,
       ConnectDone, HandleConnectedSocket, Destroy, ConnectBegins, requestVars, scopeVars, IoUnchanged
  <2>2. CASE SendRequest
    <3>1. ~Locked => ~attached
      BY DEF Locked, Ordered
    <3>2. H.req \in Requests
      BY <2>2, Heads, IoRead DEF SendRequest, Running, H
    <3>3. request \in [Requests -> RequestStates] /\ attached' = attached
      BY <2>2 DEF Typed, RequestTyped, SendRequest, IoUnchanged, scopeVars
    <3>4. \/ request' = [request EXCEPT ![H.req] = "dropped"] /\ ~attached
          \/ request' = [request EXCEPT ![H.req] = IF attached THEN "completed" ELSE "dropped"]
          \/ request' = [request EXCEPT ![H.req] = "pending"]
      BY <2>2, <3>1 DEF SendRequest
    <3>5. QED
      BY <3>2, <3>3, <3>4 DEF Dropped
  <2>3. CASE Forward
    BY <2>3, <1>0, DroppedCompleting DEF Forward, requestVars, IoUnchanged, scopeVars
  <2>4. CASE RequestTimeout
    BY <2>4, <1>0, DroppedCompleting DEF RequestTimeout, requestVars, IoUnchanged, scopeVars
  <2>5. CASE EndConnection \/ Shutdown
    BY <2>5, <1>0, DroppedCompleting DEF EndConnection, Shutdown, requestVars, IoUnchanged, scopeVars
  <2>6. QED
    BY <1>5, <2>1, <2>2, <2>3, <2>4, <2>5 DEF IoStep
<1>6. CASE \E c \in Conns : \/ \E outcome \in {"connected", "failed"} : Connects(c, outcome)
                            \/ PeerReads(c) \/ PeerEnds(c) \/ Release(c)
  BY <1>6, <1>0 DEF Connects, PeerReads, PeerEnds, Release, requestVars, scopeVars, IoUnchanged
<1>7. CASE UNCHANGED vars
  BY <1>7, <1>0 DEF vars, requestVars, scopeVars
<1>8. QED
  BY <1>1, <1>2, <1>3, <1>4, <1>5, <1>6, <1>7 DEF Next, Destroyed

\* The destroyed state leaves no socket open and no timer handler queued that would use it, though
\* it is destroyed as soon as no completion holds it; callbacks are dropped for a client that was
\* destroyed, only.
THEOREM Releasing == Spec => []Released
<1>1. Owned /\ Dropped => Released
  <2> SUFFICES ASSUME Owned, Dropped
               PROVE  Released
    OBVIOUS
  <2>1. ASSUME life = "destroyed"
        PROVE  \A t \in ToSet(ioq) : t.op # "timeout"
    <3>1. ~Has(ioq, Lasting) /\ ioq \in Seq(IoEntries)
      BY <2>1 DEF Owned, Ordered, Typed, IoTyped
    <3>2. \A t \in ToSet(ioq) : t \notin Lasting /\ t \in IoEntries
      BY <3>1, Elements DEF ToSet
    <3>3. QED
      BY <3>2 DEF Lasting
  <2>2. ASSUME life = "destroyed", NEW c \in Conns
        PROVE  sock[c] \in {"free", "closed", "ended"}
    <3>1. /\ ~Has(ioq, Lasting) /\ connecting = None /\ peer = None
          /\ sock[c] # "connecting" /\ ~Has(ioq, Attempting(c)) /\ c # None
      BY <2>2, Names DEF Owned, Ordered
    <3>2. ~Has(ioq, Handlers("peerClose", c))
      BY <3>1 DEF Has, Lasting, Handlers
    <3>3. sock[c] \notin {"done", "open"}
      BY <3>1, <3>2 DEF Owned, Tracks, Tracked, Kept
    <3>4. QED
      BY <3>1, <3>3 DEF Owned, Typed, ConnTyped, SockStates
  <2>3. QED
    BY <2>1, <2>2 DEF Released, Dropped
<1>2. Init => Dropped
  BY DEF Init, Dropped
<1>3. Owned /\ Dropped /\ [Next]_vars => Dropped'
  BY DroppedStep DEF Owned
<1>4. QED
  BY <1>1, <1>2, <1>3, Owning, OwnedStep, PTL DEF Spec

-----------------------------------------------------------------------------
\* The sessions, and what the application is told of them.

\* The entries of a connection with another token than it has, and of a session's beginning and end.
Astray(c, n) == {t \in IoEntries : /\ t.op \in {"connectDone", "verified", "announce", "forward"}
                                   /\ t.conn = c /\ t.token # n}
VerifiesAstray(c, n) == {e \in Verifies(c) : e.token # n}
Fresh(g) == {t \in IoEntries : t.op = "connect" /\ t.token = g}
Movers == {t \in IoEntries : t.op \in {"stop", "invalidate", "shutdown"}}

\* About a request.
Timeouts(r) == {t \in IoEntries : t.op = "timeout" /\ t.req = r}
Sends(r) == {t \in IoEntries : t.op = "request" /\ t.req = r}
CallBacksOf(r) == {e \in CallBacks : e.req = r}

\* What a session tells the application (the reconnect of invalidate_connection tells it nothing):
\* of a connection or its end,
Notices(g) == {e \in DqEntries : e.op = "note" /\ e.token = g /\ e.what # "reconnect"}
Opening(g) == {e \in Notices(g) : e.what = "connected"}
Closing(g) == {e \in Notices(g) : e.what = "closed"}
Turning(g) == Opening(g) \cup Closing(g)
OpeningOf(c, g) == {e \in Opening(g) : e.conn = c}
ClosingOf(c, g) == {e \in Closing(g) : e.conn = c}
\* what comes when there is no connection, and what is about one.
Trials(g) == {e \in Notices(g) : e.what \in {"connected", "connect_failed", "verification_failed"}}
DataOf(c, g) == {e \in Notices(g) : e.conn = c /\ e.what \in {"received", "error"}}

\* A connection of the current session belongs to a client that runs and is not being stopped,
\* since whatever moves the session on is still to come when an attempt of it begins.
Stopping == dpc \in {"stop", "invalidate"} \/ Has(ioq, Movers)
Current(c) == c # None /\ session[c] = generation
Dated(c) == ~Has(ioq, Astray(c, session[c])) /\ ~Has(dq, VerifiesAstray(c, session[c]))
Underway ==
    /\ Current(connecting) => running /\ ~Stopping
    /\ Current(peer) => running /\ ~Stopping
    /\ dpc \in {"stop", "invalidate"} => ~Has(ioq, Fresh(generation))
    /\ NotBefore(ioq, Fresh(generation), Movers)
Sessions == (\A c \in Conns : Dated(c)) /\ Underway

\* A request is sent once, to the peer, and its timeout follows the announcement of that peer.
Asked(r) ==
    /\ r \in pending => request[r] = "pending"
    /\ r \in pending /\ peer # None => /\ requestToken[r] >= session[peer]
                                       /\ NotBefore(ioq, Timeouts(r), Handlers("announce", peer))
    /\ Has(ioq, Timeouts(r)) => request[r] \notin {"idle", "posted"}
    /\ Has(ioq, Sends(r)) => request[r] = "posted"
    /\ NotBefore(ioq, Sends(r), Sends(r))
    /\ Has(dq, CallBacksOf(r)) => request[r] \in {"completed", "called"}
Questions == \A r \in Requests : Asked(r)

\* The notifications in the queue q take the application from `a', what it was told last in session g,
\* one turn after another,
Free(b) == {e \in DqEntries : b}
TurnsIn(q, a, g) ==
    /\ Follows(q, Trials(g), Free(a = None), Closing(g), Turning(g))
    /\ \A c \in Conns :
         /\ Follows(q, DataOf(c, g), Free(a = c), OpeningOf(c, g), Turning(g))
         /\ ~InvalidateOnError => Follows(q, ClosingOf(c, g), Free(a = c), OpeningOf(c, g), Turning(g))
KnowsOf(q, a, g, c) == (a = c /\ ~Has(q, Turning(g))) \/ Outlasts(q, OpeningOf(c, g), Turning(g))
KnowsNone(q, a, g) == (a = None /\ ~Has(q, Turning(g))) \/ Outlasts(q, Closing(g), Turning(g))
Turns == TurnsIn(dq, app, generation)
ToldOf(c) == KnowsOf(dq, app, generation, c)
ToldOfNone == KnowsNone(dq, app, generation)
\* to what the client has.
Announced(c) == peer = c /\ session[c] = generation /\ ~Has(ioq, Handlers("announce", c))
UpToDate ==
    /\ \A c \in Conns : Announced(c) => ToldOf(c)
    /\ (\A c \in Conns : ~Announced(c)) => ToldOfNone
Heard(c) == /\ NotBefore(ioq, Handlers("announce", c), Handlers("announce", c))
            /\ NotBefore(ioq, Handlers("forward", c), Handlers("announce", c))
Untold == ~running => app = None /\ ~Has(dq, Opening(generation))
Told ==
    /\ Turns
    /\ attached => UpToDate
    /\ \A c \in Conns : Heard(c)
    /\ Untold

DatedOps == {"connectDone", "verified", "announce", "forward"}

\* What the next entry says of its connection is of the connection's session.
LEMMA HeadDated ==
    ASSUME Typed, Sessions
    PROVE  /\ ioq # <<>> /\ H.op \in DatedOps => H.conn \in Conns /\ H.token = session[H.conn]
           /\ dq # <<>> /\ E.op = "verify" => E.conn \in Conns /\ E.token = session[E.conn]
<1>1. ASSUME ioq # <<>>, H.op \in DatedOps
      PROVE  H.conn \in Conns /\ H.token = session[H.conn]
  <2>1. H \in IoEntries /\ H.conn \in Conns
    BY <1>1, Heads, IoRead DEF DatedOps
  <2>2. ~Has(ioq, Astray(H.conn, session[H.conn]))
    BY <2>1 DEF Sessions, Dated
  <2>3. H \notin Astray(H.conn, session[H.conn])
    BY <1>1, <2>2, HeadHas
  <2>4. QED
    BY <1>1, <2>1, <2>3 DEF Astray, DatedOps
<1>2. ASSUME dq # <<>>, E.op = "verify"
      PROVE  E.conn \in Conns /\ E.token = session[E.conn]
  <2>1. E \in DqEntries /\ E.conn \in Conns
    BY <1>2, Heads, DqRead
  <2>2. ~Has(dq, VerifiesAstray(E.conn, session[E.conn]))
    BY <2>1 DEF Sessions, Dated
  <2>3. E \notin VerifiesAstray(E.conn, session[E.conn])
    BY <1>2, <2>2, HeadHas
  <2>4. QED
    BY <1>2, <2>1, <2>3 DEF VerifiesAstray, Verifies
<1>3. QED
  BY <1>1, <1>2

LEMMA DatedKept ==
    ASSUME NEW c \in Conns, Dated(c), session'[c] = session[c],
           NEW D1, NEW D2, Spares(ioq, ioq', D1), Spares(dq, dq', D2),
           \A t \in D1 : t.op \in DatedOps /\ t.conn = c => t.token = session[c],
           \A e \in D2 : e.op = "verify" /\ e.conn = c => e.token = session[c]
    PROVE  Dated(c)'
<1> DEFINE A == Astray(c, session[c])
           V == VerifiesAstray(c, session[c])
<1>1. A \cap D1 = {} /\ V \cap D2 = {}
  BY DEF Astray, VerifiesAstray, Verifies, DatedOps
<1>2. ~Has(ioq, A) /\ ~Has(dq, V)
  BY DEF Dated
<1>3. Astray(c, session'[c]) = A /\ VerifiesAstray(c, session'[c]) = V
  OBVIOUS
<1> HIDE DEF A, V
<1>4. ~Has(ioq', A) /\ ~Has(dq', V)
  BY <1>1, <1>2, Spared
<1>5. QED
  BY <1>3, <1>4 DEF Dated

\* No session ends or begins with the handlers that this step takes and posts.
IoEven ==
    /\ Has(ioq', Movers) => Has(ioq, Movers)
    /\ Has(ioq', Fresh(generation)) => Has(ioq, Fresh(generation))
    /\ NotBefore(ioq', Fresh(generation), Movers)

LEMMA IoSparedEven ==
    ASSUME Underway, NEW D, Spares(ioq, ioq', D),
           \A t \in D : t.op \notin {"connect", "stop", "invalidate", "shutdown"}
    PROVE  IoEven
<1> DEFINE F == Fresh(generation)
<1>1. F \cap D = {} /\ Movers \cap D = {}
  BY DEF Fresh, Movers
<1>2. NotBefore(ioq, F, Movers)
  BY DEF Underway
<1> HIDE DEF F
<1>3. /\ Has(ioq', Movers) => Has(ioq, Movers)
      /\ Has(ioq', F) => Has(ioq, F)
      /\ NotBefore(ioq', F, Movers)
  BY <1>1, <1>2, Spared
<1>4. QED
  BY <1>3 DEF IoEven, F

LEMMA IoTakenEven ==
    ASSUME Typed, Underway, ioq # <<>>, NEW x \in Seq(IoEntries), ioq' = Tail(ioq) \o x,
           ~Has(x, Movers), ~Has(x, Fresh(generation))
    PROVE  IoEven
<1> DEFINE F == Fresh(generation)
<1>1. NotBefore(ioq, F, Movers) /\ ioq \in Seq(IoEntries) /\ ~Has(x, F)
  BY DEF Underway, Typed, IoTyped
<1> HIDE DEF F
<1>2. NotBefore(x, F, Movers)
  BY <1>1, Nothing
<1>3. /\ Has(ioq', Movers) => Has(ioq, Movers)
      /\ Has(ioq', F) => Has(ioq, F)
  BY <1>1, TakenHas
<1>4. NotBefore(ioq', F, Movers)
  BY <1>1, <1>2, Taken
<1>5. QED
  BY <1>3, <1>4 DEF IoEven, F

\* A step that begins no session and ends none.
LEMMA SessionsKept ==
    ASSUME Sessions, UNCHANGED <<running, generation, session>>, dpc' = dpc \/ dpc' = "shutdown",
           connecting' \in {connecting, None}, peer' \in {peer, None}, IoEven,
           NEW D1, NEW D2, Spares(ioq, ioq', D1), Spares(dq, dq', D2),
           \A t \in D1 : t.op \in DatedOps => t.token = session[t.conn],
           \A e \in D2 : e.op = "verify" => e.token = session[e.conn]
    PROVE  Sessions'
<1>1. ASSUME NEW c \in Conns
      PROVE  Dated(c)'
  <2>1. Dated(c) /\ session'[c] = session[c]
    BY DEF Sessions
  <2>2. /\ \A t \in D1 : t.op \in DatedOps /\ t.conn = c => t.token = session[c]
        /\ \A e \in D2 : e.op = "verify" /\ e.conn = c => e.token = session[c]
    OBVIOUS
  <2>3. QED
    BY <2>1, <2>2, DatedKept
<1>2. /\ Current(connecting)' => Current(connecting)
      /\ Current(peer)' => Current(peer)
      /\ Stopping' => Stopping
  BY DEF Current, Stopping, IoEven
<1>3. Underway'
  BY <1>2 DEF Sessions, Underway, IoEven
<1>4. QED
  BY <1>1, <1>3 DEF Sessions

LEMMA CallSessions ==
    ASSUME Typed, Sessions, NEW op \in {"start", "stop", "invalidate"}, Call(op)
    PROVE  Sessions'
<1> DEFINE D1 == {}
           D2 == {Do(op)}
<1>1. Spares(ioq, ioq', D1) /\ Spares(dq, dq', D2)
  BY CallTyped, SparesAll DEF Call, IoUnchanged, scopeVars, connVars, requestVars
<1>3. \A e \in D2 : e.op = "verify" => e.token = session[e.conn]
  <2>1. Do(op).op = op
    BY DEF Do, Entry
  <2>2. QED
    BY <2>1
<1>4. \A t \in D1 : (t.op \in DatedOps => t.token = session[t.conn]) /\ t.op \notin {"connect", "stop", "invalidate", "shutdown"}
  BY DEF Do, Conn, Note, Request, Signal, Entry, CallBacks, DatedOps
<1>5. /\ UNCHANGED <<running, generation, session>> /\ (dpc' = dpc \/ dpc' = "shutdown")
      /\ connecting' \in {connecting, None} /\ peer' \in {peer, None}
  BY DEF Call, IoUnchanged, scopeVars, connVars, requestVars
<1> HIDE DEF D1, D2
<1>6. IoEven
  BY <1>1, <1>4, IoSparedEven DEF Sessions
<1>7. QED
  BY <1>1, <1>3, <1>4, <1>5, <1>6, SessionsKept

LEMMA AsyncRequestSessions ==
    ASSUME Typed, Sessions, NEW r \in Requests, AsyncRequest(r)
    PROVE  Sessions'
<1> DEFINE D1 == {Request("request", r)}
           D2 == {}
<1>1. Spares(ioq, ioq', D1) /\ Spares(dq, dq', D2)
  BY AsyncRequestTyped, SparesAll DEF AsyncRequest, IoUnchanged, scopeVars, connVars, requestVars
<1>3. \A e \in D2 : e.op = "verify" => e.token = session[e.conn]
  BY DEF Do, Conn, Note, Request, Signal, Entry, CallBacks, DatedOps
<1>4. \A t \in D1 : (t.op \in DatedOps => t.token = session[t.conn]) /\ t.op \notin {"connect", "stop", "invalidate", "shutdown"}
  <2>1. Request("request", r).op = "request"
    BY DEF Request, Entry
  <2>2. QED
    BY <2>1 DEF DatedOps
<1>5. /\ UNCHANGED <<running, generation, session>> /\ (dpc' = dpc \/ dpc' = "shutdown")
      /\ connecting' \in {connecting, None} /\ peer' \in {peer, None}
  BY DEF AsyncRequest, IoUnchanged, scopeVars, connVars, requestVars
<1> HIDE DEF D1, D2
<1>6. IoEven
  BY <1>1, <1>4, IoSparedEven DEF Sessions
<1>7. QED
  BY <1>1, <1>3, <1>4, <1>5, <1>6, SessionsKept

LEMMA NotifySessions ==
    ASSUME Typed, Sessions, Notify
    PROVE  Sessions'
<1> DEFINE D1 == {}
           D2 == {E, Do("debounce")}
<1>1. Spares(ioq, ioq', D1) /\ Spares(dq, dq', D2)
  BY NotifyTyped, SparesAll DEF Notify, IoUnchanged, scopeVars, connVars, requestVars
<1>2. dq # <<>> /\ E.op = "note"
  BY DEF Notify, Dispatching, E
<1>3. \A e \in D2 : e.op = "verify" => e.token = session[e.conn]
  <2>1. Do("debounce").op = "debounce"
    BY DEF Do, Entry
  <2>2. QED
    BY <1>2, <2>1
<1>4. \A t \in D1 : (t.op \in DatedOps => t.token = session[t.conn]) /\ t.op \notin {"connect", "stop", "invalidate", "shutdown"}
  BY <1>2, HeadDated DEF Do, Conn, Note, Request, Signal, Entry, CallBacks, DatedOps
<1>5. /\ UNCHANGED <<running, generation, session>> /\ (dpc' = dpc \/ dpc' = "shutdown")
      /\ connecting' \in {connecting, None} /\ peer' \in {peer, None}
  BY DEF Notify, IoUnchanged, scopeVars, connVars, requestVars
<1> HIDE DEF D1, D2
<1>6. IoEven
  BY <1>1, <1>4, IoSparedEven DEF Sessions
<1>7. QED
  BY <1>1, <1>3, <1>4, <1>5, <1>6, SessionsKept

LEMMA VerifySessions ==
    ASSUME Typed, Sessions, Verify
    PROVE  Sessions'
<1> DEFINE D1 == {Conn("verified", E.conn, E.token, "verified"), Conn("verified", E.conn, E.token, "refused")}
           D2 == {E}
<1>1. Spares(ioq, ioq', D1) /\ Spares(dq, dq', D2)
  BY VerifyTyped, SparesAll DEF Verify, IoUnchanged, scopeVars, connVars, requestVars
<1>2. dq # <<>> /\ E.op = "verify"
  BY DEF Verify, Dispatching, E
<1>3. \A e \in D2 : e.op = "verify" => e.token = session[e.conn]
  BY <1>2, HeadDated DEF Do, Conn, Note, Request, Signal, Entry, CallBacks, DatedOps
<1>4. \A t \in D1 : (t.op \in DatedOps => t.token = session[t.conn]) /\ t.op \notin {"connect", "stop", "invalidate", "shutdown"}
  BY <1>2, HeadDated DEF Do, Conn, Note, Request, Signal, Entry, CallBacks, DatedOps
<1>5. /\ UNCHANGED <<running, generation, session>> /\ (dpc' = dpc \/ dpc' = "shutdown")
      /\ connecting' \in {connecting, None} /\ peer' \in {peer, None}
  BY DEF Verify, IoUnchanged, scopeVars, connVars, requestVars
<1> HIDE DEF D1, D2
<1>6. IoEven
  BY <1>1, <1>4, IoSparedEven DEF Sessions
<1>7. QED
  BY <1>1, <1>3, <1>4, <1>5, <1>6, SessionsKept

LEMMA DispatchSignalSessions ==
    ASSUME Typed, Sessions, DispatchSignal
    PROVE  Sessions'
<1> DEFINE D1 == {Entry("forward", E.conn, session[E.conn], E.what, E.req)}
           D2 == {E}
<1>1. Spares(ioq, ioq', D1) /\ Spares(dq, dq', D2)
  BY DispatchSignalTyped, SparesAll DEF DispatchSignal, IoUnchanged, scopeVars, connVars, requestVars
<1>2. dq # <<>> /\ E.op = "signal"
  BY DEF DispatchSignal, Dispatching, E
<1>3. \A e \in D2 : e.op = "verify" => e.token = session[e.conn]
  BY <1>2, HeadDated DEF Do, Conn, Note, Request, Signal, Entry, CallBacks, DatedOps
<1>4. \A t \in D1 : (t.op \in DatedOps => t.token = session[t.conn]) /\ t.op \notin {"connect", "stop", "invalidate", "shutdown"}
  BY <1>2, HeadDated DEF Do, Conn, Note, Request, Signal, Entry, CallBacks, DatedOps
<1>5. /\ UNCHANGED <<running, generation, session>> /\ (dpc' = dpc \/ dpc' = "shutdown")
      /\ connecting' \in {connecting, None} /\ peer' \in {peer, None}
  BY DEF DispatchSignal, IoUnchanged, scopeVars, connVars, requestVars
<1> HIDE DEF D1, D2
<1>6. IoEven
  BY <1>1, <1>4, IoSparedEven DEF Sessions
<1>7. QED
  BY <1>1, <1>3, <1>4, <1>5, <1>6, SessionsKept

LEMMA DebounceSessions ==
    ASSUME Typed, Sessions, Debounce
    PROVE  Sessions'
<1> DEFINE D1 == {}
           D2 == {E}
<1>1. Spares(ioq, ioq', D1) /\ Spares(dq, dq', D2)
  BY DebounceTyped, SparesAll DEF Debounce, IoUnchanged, scopeVars, connVars, requestVars
<1>2. dq # <<>> /\ E.op \in {"cancel", "debounce"}
  BY DEF Debounce, Dispatching, E
<1>3. \A e \in D2 : e.op = "verify" => e.token = session[e.conn]
  BY <1>2, HeadDated DEF Do, Conn, Note, Request, Signal, Entry, CallBacks, DatedOps
<1>4. \A t \in D1 : (t.op \in DatedOps => t.token = session[t.conn]) /\ t.op \notin {"connect", "stop", "invalidate", "shutdown"}
  BY <1>2, HeadDated DEF Do, Conn, Note, Request, Signal, Entry, CallBacks, DatedOps
<1>5. /\ UNCHANGED <<running, generation, session>> /\ (dpc' = dpc \/ dpc' = "shutdown")
      /\ connecting' \in {connecting, None} /\ peer' \in {peer, None}
  BY DEF Debounce, IoUnchanged, scopeVars, connVars, requestVars
<1> HIDE DEF D1, D2
<1>6. IoEven
  BY <1>1, <1>4, IoSparedEven DEF Sessions
<1>7. QED
  BY <1>1, <1>3, <1>4, <1>5, <1>6, SessionsKept

LEMMA CallBackSessions ==
    ASSUME Typed, Sessions, CallBack
    PROVE  Sessions'
<1> DEFINE D1 == {}
           D2 == {E}
<1>1. Spares(ioq, ioq', D1) /\ Spares(dq, dq', D2)
  BY CallBackTyped, SparesAll DEF CallBack, IoUnchanged, scopeVars, connVars, requestVars
<1>2. dq # <<>> /\ E.op = "callback"
  BY DEF CallBack, Dispatching, E
<1>3. \A e \in D2 : e.op = "verify" => e.token = session[e.conn]
  BY <1>2, HeadDated DEF Do, Conn, Note, Request, Signal, Entry, CallBacks, DatedOps
<1>4. \A t \in D1 : (t.op \in DatedOps => t.token = session[t.conn]) /\ t.op \notin {"connect", "stop", "invalidate", "shutdown"}
  BY <1>2, HeadDated DEF Do, Conn, Note, Request, Signal, Entry, CallBacks, DatedOps
<1>5. /\ UNCHANGED <<running, generation, session>> /\ (dpc' = dpc \/ dpc' = "shutdown")
      /\ connecting' \in {connecting, None} /\ peer' \in {peer, None}
  BY DEF CallBack, IoUnchanged, scopeVars, connVars, requestVars
<1> HIDE DEF D1, D2
<1>6. IoEven
  BY <1>1, <1>4, IoSparedEven DEF Sessions
<1>7. QED
  BY <1>1, <1>3, <1>4, <1>5, <1>6, SessionsKept

LEMMA DetachSessions ==
    ASSUME Typed, Sessions, Detach
    PROVE  Sessions'
<1>1. ASSUME NEW c \in Conns
      PROVE  Dated(c)'
  <2>1. ~Has(dq', VerifiesAstray(c, session[c])) /\ ~Has(ioq, Astray(c, session[c]))
    BY DetachTyped DEF Sessions, Dated
  <2>2. QED
    BY <2>1 DEF Dated, Detach, connVars
<1>2. Underway'
  BY DEF Sessions, Underway, Current, Stopping, Detach, connVars
<1>3. QED
  BY <1>1, <1>2 DEF Sessions

LEMMA ConnectIgnoredSessions ==
    ASSUME Typed, Sessions, ConnectIgnored
    PROVE  Sessions'
<1> DEFINE D1 == {H}
           D2 == {}
<1>1. Spares(ioq, ioq', D1) /\ Spares(dq, dq', D2)
  BY ConnectIgnoredTyped, SparesAll DEF ConnectIgnored, IoUnchanged, scopeVars, connVars, requestVars
<1>2. ioq # <<>> /\ H.op = "connect"
  BY DEF ConnectIgnored, Running, H
<1>3. \A e \in D2 : e.op = "verify" => e.token = session[e.conn]
  BY <1>2, HeadDated DEF Do, Conn, Note, Request, Signal, Entry, CallBacks, DatedOps
<1>4. \A t \in D1 : (t.op \in DatedOps => t.token = session[t.conn])
  BY <1>2, HeadDated DEF Do, Conn, Note, Request, Signal, Entry, CallBacks, DatedOps
<1>5. /\ UNCHANGED <<running, generation, session>> /\ (dpc' = dpc \/ dpc' = "shutdown")
      /\ connecting' \in {connecting, None} /\ peer' \in {peer, None}
  BY DEF ConnectIgnored, IoUnchanged, scopeVars, connVars, requestVars
<1> HIDE DEF D1, D2
<1>6. IoEven
  <2>1. /\ ioq # <<>> /\ ioq' = Tail(ioq) \o <<>> /\ Underway
        /\ <<>> \in Seq(IoEntries) /\ \A A : ~Has(<<>>, A)
    BY Made DEF ConnectIgnored, Running, Posting, Sessions
  <2>2. QED
    BY <2>1, IoTakenEven
<1>7. QED
  BY <1>1, <1>3, <1>4, <1>5, <1>6, SessionsKept

LEMMA ConnectBadPathSessions ==
    ASSUME Typed, Sessions, ConnectBadPath
    PROVE  Sessions'
<1> DEFINE D1 == {H}
           D2 == {Note("connect_failed", None, H.token)}
<1>1. Spares(ioq, ioq', D1) /\ Spares(dq, dq', D2)
  BY ConnectBadPathTyped, SparesAll DEF ConnectBadPath, IoUnchanged, scopeVars, connVars, requestVars
<1>2. ioq # <<>> /\ H.op = "connect"
  BY DEF ConnectBadPath, Running, H
<1>3. \A e \in D2 : e.op = "verify" => e.token = session[e.conn]
  BY <1>2, HeadDated DEF Do, Conn, Note, Request, Signal, Entry, CallBacks, DatedOps
<1>4. \A t \in D1 : (t.op \in DatedOps => t.token = session[t.conn])
  BY <1>2, HeadDated DEF Do, Conn, Note, Request, Signal, Entry, CallBacks, DatedOps
<1>5. /\ UNCHANGED <<running, generation, session>> /\ (dpc' = dpc \/ dpc' = "shutdown")
      /\ connecting' \in {connecting, None} /\ peer' \in {peer, None}
  BY DEF ConnectBadPath, IoUnchanged, scopeVars, connVars, requestVars
<1> HIDE DEF D1, D2
<1>6. IoEven
  <2>1. /\ ioq # <<>> /\ ioq' = Tail(ioq) \o <<>> /\ Underway
        /\ <<>> \in Seq(IoEntries) /\ \A A : ~Has(<<>>, A)
    BY Made DEF ConnectBadPath, Running, Posting, Sessions
  <2>2. QED
    BY <2>1, IoTakenEven
<1>7. QED
  BY <1>1, <1>3, <1>4, <1>5, <1>6, SessionsKept

LEMMA ConnectsSessions ==
    ASSUME Typed, Sessions, NEW c \in Conns, NEW outcome \in {"connected", "failed"}, Connects(c, outcome)
    PROVE  Sessions'
<1> DEFINE D1 == {Conn("connectDone", c, session[c], outcome)}
           D2 == {}
<1>1. Spares(ioq, ioq', D1) /\ Spares(dq, dq', D2)
  BY ConnectsTyped, SparesAll DEF Connects, IoUnchanged, scopeVars, connVars, requestVars
<1>3. \A e \in D2 : e.op = "verify" => e.token = session[e.conn]
  BY DEF Do, Conn, Note, Request, Signal, Entry, CallBacks, DatedOps
<1>4. \A t \in D1 : (t.op \in DatedOps => t.token = session[t.conn]) /\ t.op \notin {"connect", "stop", "invalidate", "shutdown"}
  BY DEF Do, Conn, Note, Request, Signal, Entry, CallBacks, DatedOps
<1>5. /\ UNCHANGED <<running, generation, session>> /\ (dpc' = dpc \/ dpc' = "shutdown")
      /\ connecting' \in {connecting, None} /\ peer' \in {peer, None}
  BY DEF Connects, IoUnchanged, scopeVars, connVars, requestVars
<1> HIDE DEF D1, D2
<1>6. IoEven
  BY <1>1, <1>4, IoSparedEven DEF Sessions
<1>7. QED
  BY <1>1, <1>3, <1>4, <1>5, <1>6, SessionsKept

LEMMA ConnectDoneSessions ==
    ASSUME Typed, Sessions, ConnectDone
    PROVE  Sessions'
<1> DEFINE D1 == {H}
           D2 == {Note("connect_failed", None, H.token), Conn("verify", H.conn, H.token, "")}
<1>1. Spares(ioq, ioq', D1) /\ Spares(dq, dq', D2)
  BY ConnectDoneTyped, SparesAll DEF ConnectDone, IoUnchanged, scopeVars, connVars, requestVars
<1>2. ioq # <<>> /\ H.op = "connectDone"
  BY DEF ConnectDone, Running, H
<1>3. \A e \in D2 : e.op = "verify" => e.token = session[e.conn]
  <2>1. /\ Note("connect_failed", None, H.token).op = "note"
        /\ Conn("verify", H.conn, H.token, "").token = H.token
        /\ Conn("verify", H.conn, H.token, "").conn = H.conn
    BY DEF Note, Conn, Entry
  <2>2. H.token = session[H.conn]
    BY <1>2, HeadDated DEF DatedOps
  <2>3. QED
    BY <2>1, <2>2
<1>4. \A t \in D1 : (t.op \in DatedOps => t.token = session[t.conn]) /\ t.op \notin {"connect", "stop", "invalidate", "shutdown"}
  BY <1>2, HeadDated DEF Do, Conn, Note, Request, Signal, Entry, CallBacks, DatedOps
<1>5. /\ UNCHANGED <<running, generation, session>> /\ (dpc' = dpc \/ dpc' = "shutdown")
      /\ connecting' \in {connecting, None} /\ peer' \in {peer, None}
  BY DEF ConnectDone, IoUnchanged, scopeVars, connVars, requestVars
<1> HIDE DEF D1, D2
<1>6. IoEven
  BY <1>1, <1>4, IoSparedEven DEF Sessions
<1>7. QED
  BY <1>1, <1>3, <1>4, <1>5, <1>6, SessionsKept

LEMMA AnnounceSessions ==
    ASSUME Typed, Sessions, Announce
    PROVE  Sessions'
<1> DEFINE D1 == {H}
           D2 == {Note("connected", H.conn, H.token)}
<1>1. Spares(ioq, ioq', D1) /\ Spares(dq, dq', D2)
  BY AnnounceTyped, SparesAll DEF Announce, IoUnchanged, scopeVars, connVars, requestVars
<1>2. ioq # <<>> /\ H.op = "announce"
  BY DEF Announce, Running, H
<1>3. \A e \in D2 : e.op = "verify" => e.token = session[e.conn]
  BY <1>2, HeadDated DEF Do, Conn, Note, Request, Signal, Entry, CallBacks, DatedOps
<1>4. \A t \in D1 : (t.op \in DatedOps => t.token = session[t.conn]) /\ t.op \notin {"connect", "stop", "invalidate", "shutdown"}
  BY <1>2, HeadDated DEF Do, Conn, Note, Request, Signal, Entry, CallBacks, DatedOps
<1>5. /\ UNCHANGED <<running, generation, session>> /\ (dpc' = dpc \/ dpc' = "shutdown")
      /\ connecting' \in {connecting, None} /\ peer' \in {peer, None}
  BY DEF Announce, IoUnchanged, scopeVars, connVars, requestVars
<1> HIDE DEF D1, D2
<1>6. IoEven
  BY <1>1, <1>4, IoSparedEven DEF Sessions
<1>7. QED
  BY <1>1, <1>3, <1>4, <1>5, <1>6, SessionsKept

LEMMA PeerStartSessions ==
    ASSUME Typed, Sessions, PeerStart
    PROVE  Sessions'
<1> DEFINE D1 == {H}
           D2 == {}
<1>1. Spares(ioq, ioq', D1) /\ Spares(dq, dq', D2)
  BY PeerStartTyped, SparesAll DEF PeerStart, IoUnchanged, scopeVars, connVars, requestVars
<1>2. ioq # <<>> /\ H.op = "peerStart"
  BY DEF PeerStart, Running, H
<1>3. \A e \in D2 : e.op = "verify" => e.token = session[e.conn]
  BY <1>2, HeadDated DEF Do, Conn, Note, Request, Signal, Entry, CallBacks, DatedOps
<1>4. \A t \in D1 : (t.op \in DatedOps => t.token = session[t.conn]) /\ t.op \notin {"connect", "stop", "invalidate", "shutdown"}
  BY <1>2, HeadDated DEF Do, Conn, Note, Request, Signal, Entry, CallBacks, DatedOps
<1>5. /\ UNCHANGED <<running, generation, session>> /\ (dpc' = dpc \/ dpc' = "shutdown")
      /\ connecting' \in {connecting, None} /\ peer' \in {peer, None}
  BY DEF PeerStart, IoUnchanged, scopeVars, connVars, requestVars
<1> HIDE DEF D1, D2
<1>6. IoEven
  BY <1>1, <1>4, IoSparedEven DEF Sessions
<1>7. QED
  BY <1>1, <1>3, <1>4, <1>5, <1>6, SessionsKept

LEMMA PeerCloseSessions ==
    ASSUME Typed, Sessions, PeerClose
    PROVE  Sessions'
<1> DEFINE D1 == {H}
           D2 == {Signal("closed", H.conn, None)}
<1>1. Spares(ioq, ioq', D1) /\ Spares(dq, dq', D2)
  BY PeerCloseTyped, SparesAll DEF PeerClose, IoUnchanged, scopeVars, connVars, requestVars
<1>2. ioq # <<>> /\ H.op = "peerClose"
  BY DEF PeerClose, Running, H
<1>3. \A e \in D2 : e.op = "verify" => e.token = session[e.conn]
  BY <1>2, HeadDated DEF Do, Conn, Note, Request, Signal, Entry, CallBacks, DatedOps
<1>4. \A t \in D1 : (t.op \in DatedOps => t.token = session[t.conn]) /\ t.op \notin {"connect", "stop", "invalidate", "shutdown"}
  BY <1>2, HeadDated DEF Do, Conn, Note, Request, Signal, Entry, CallBacks, DatedOps
<1>5. /\ UNCHANGED <<running, generation, session>> /\ (dpc' = dpc \/ dpc' = "shutdown")
      /\ connecting' \in {connecting, None} /\ peer' \in {peer, None}
  BY DEF PeerClose, IoUnchanged, scopeVars, connVars, requestVars
<1> HIDE DEF D1, D2
<1>6. IoEven
  BY <1>1, <1>4, IoSparedEven DEF Sessions
<1>7. QED
  BY <1>1, <1>3, <1>4, <1>5, <1>6, SessionsKept

LEMMA PeerReadsSessions ==
    ASSUME Typed, Sessions, NEW c \in Conns, PeerReads(c)
    PROVE  Sessions'
<1> DEFINE D1 == {}
           D2 == SignalsOf(c) \ EndsOf(c)
<1>1. Spares(ioq, ioq', D1) /\ Spares(dq, dq', D2)
  BY PeerReadsTyped, SparesAll DEF PeerReads, IoUnchanged, scopeVars, connVars, requestVars
<1>3. \A e \in D2 : e.op = "verify" => e.token = session[e.conn]
  BY DEF Do, Conn, Note, Request, Signal, Entry, CallBacks, DatedOps, SignalsOf, EndsOf
<1>4. \A t \in D1 : (t.op \in DatedOps => t.token = session[t.conn]) /\ t.op \notin {"connect", "stop", "invalidate", "shutdown"}
  BY DEF Do, Conn, Note, Request, Signal, Entry, CallBacks, DatedOps, SignalsOf, EndsOf
<1>5. /\ UNCHANGED <<running, generation, session>> /\ (dpc' = dpc \/ dpc' = "shutdown")
      /\ connecting' \in {connecting, None} /\ peer' \in {peer, None}
  BY DEF PeerReads, IoUnchanged, scopeVars, connVars, requestVars
<1> HIDE DEF D1, D2
<1>6. IoEven
  BY <1>1, <1>4, IoSparedEven DEF Sessions
<1>7. QED
  BY <1>1, <1>3, <1>4, <1>5, <1>6, SessionsKept

LEMMA PeerEndsSessions ==
    ASSUME Typed, Sessions, NEW c \in Conns, PeerEnds(c)
    PROVE  Sessions'
<1> DEFINE D1 == {}
           D2 == {Signal("error", c, None), Signal("closed", c, None)}
<1>1. Spares(ioq, ioq', D1) /\ Spares(dq, dq', D2)
  BY PeerEndsTyped, SparesAll DEF PeerEnds, IoUnchanged, scopeVars, connVars, requestVars
<1>3. \A e \in D2 : e.op = "verify" => e.token = session[e.conn]
  BY DEF Do, Conn, Note, Request, Signal, Entry, CallBacks, DatedOps
<1>4. \A t \in D1 : (t.op \in DatedOps => t.token = session[t.conn]) /\ t.op \notin {"connect", "stop", "invalidate", "shutdown"}
  BY DEF Do, Conn, Note, Request, Signal, Entry, CallBacks, DatedOps
<1>5. /\ UNCHANGED <<running, generation, session>> /\ (dpc' = dpc \/ dpc' = "shutdown")
      /\ connecting' \in {connecting, None} /\ peer' \in {peer, None}
  BY DEF PeerEnds, IoUnchanged, scopeVars, connVars, requestVars
<1> HIDE DEF D1, D2
<1>6. IoEven
  BY <1>1, <1>4, IoSparedEven DEF Sessions
<1>7. QED
  BY <1>1, <1>3, <1>4, <1>5, <1>6, SessionsKept

LEMMA ForwardSessions ==
    ASSUME Typed, Sessions, Forward
    PROVE  Sessions'
<1> DEFINE D1 == {H}
           D2 == CallBacks \cup NotesOf(H.conn, H.token)
<1>1. Spares(ioq, ioq', D1) /\ Spares(dq, dq', D2)
  BY ForwardTyped, SparesAll DEF Forward, IoUnchanged, scopeVars, connVars, requestVars
<1>2. ioq # <<>> /\ H.op = "forward"
  BY DEF Forward, Running, H
<1>3. \A e \in D2 : e.op = "verify" => e.token = session[e.conn]
  BY <1>2, HeadDated DEF Do, Conn, Note, Request, Signal, Entry, CallBacks, DatedOps, NotesOf, PeerNotes
<1>4. \A t \in D1 : (t.op \in DatedOps => t.token = session[t.conn]) /\ t.op \notin {"connect", "stop", "invalidate", "shutdown"}
  BY <1>2, HeadDated DEF Do, Conn, Note, Request, Signal, Entry, CallBacks, DatedOps, NotesOf, PeerNotes
<1>5. /\ UNCHANGED <<running, generation, session>> /\ (dpc' = dpc \/ dpc' = "shutdown")
      /\ connecting' \in {connecting, None} /\ peer' \in {peer, None}
  BY DEF Forward, IoUnchanged, scopeVars, connVars, requestVars
<1> HIDE DEF D1, D2
<1>6. IoEven
  BY <1>1, <1>4, IoSparedEven DEF Sessions
<1>7. QED
  BY <1>1, <1>3, <1>4, <1>5, <1>6, SessionsKept

LEMMA SendRequestSessions ==
    ASSUME Typed, Sessions, SendRequest
    PROVE  Sessions'
<1> DEFINE D1 == {H}
           D2 == CallBacks
<1>1. Spares(ioq, ioq', D1) /\ Spares(dq, dq', D2)
  BY SendRequestTyped, SparesAll DEF SendRequest, IoUnchanged, scopeVars, connVars, requestVars
<1>2. ioq # <<>> /\ H.op = "request"
  BY DEF SendRequest, Running, H
<1>3. \A e \in D2 : e.op = "verify" => e.token = session[e.conn]
  BY <1>2, HeadDated DEF Do, Conn, Note, Request, Signal, Entry, CallBacks, DatedOps
<1>4. \A t \in D1 : (t.op \in DatedOps => t.token = session[t.conn]) /\ t.op \notin {"connect", "stop", "invalidate", "shutdown"}
  BY <1>2, HeadDated DEF Do, Conn, Note, Request, Signal, Entry, CallBacks, DatedOps
<1>5. /\ UNCHANGED <<running, generation, session>> /\ (dpc' = dpc \/ dpc' = "shutdown")
      /\ connecting' \in {connecting, None} /\ peer' \in {peer, None}
  BY DEF SendRequest, IoUnchanged, scopeVars, connVars, requestVars
<1> HIDE DEF D1, D2
<1>6. IoEven
  BY <1>1, <1>4, IoSparedEven DEF Sessions
<1>7. QED
  BY <1>1, <1>3, <1>4, <1>5, <1>6, SessionsKept

LEMMA TimerExpiresSessions ==
    ASSUME Typed, Sessions, NEW r \in Requests, TimerExpires(r)
    PROVE  Sessions'
<1> DEFINE D1 == {Request("timeout", r)}
           D2 == {}
<1>1. Spares(ioq, ioq', D1) /\ Spares(dq, dq', D2)
  BY TimerExpiresTyped, SparesAll DEF TimerExpires, IoUnchanged, scopeVars, connVars, requestVars
<1>3. \A e \in D2 : e.op = "verify" => e.token = session[e.conn]
  BY DEF Do, Conn, Note, Request, Signal, Entry, CallBacks, DatedOps
<1>4. \A t \in D1 : (t.op \in DatedOps => t.token = session[t.conn]) /\ t.op \notin {"connect", "stop", "invalidate", "shutdown"}
  <2>1. Request("timeout", r).op = "timeout"
    BY DEF Request, Entry
  <2>2. QED
    BY <2>1 DEF DatedOps
<1>5. /\ UNCHANGED <<running, generation, session>> /\ (dpc' = dpc \/ dpc' = "shutdown")
      /\ connecting' \in {connecting, None} /\ peer' \in {peer, None}
  BY DEF TimerExpires, IoUnchanged, scopeVars, connVars, requestVars
<1> HIDE DEF D1, D2
<1>6. IoEven
  BY <1>1, <1>4, IoSparedEven DEF Sessions
<1>7. QED
  BY <1>1, <1>3, <1>4, <1>5, <1>6, SessionsKept

LEMMA KeepAliveSessions ==
    ASSUME Typed, Sessions, KeepAlive
    PROVE  Sessions'
<1> DEFINE D1 == {H}
           D2 == {}
<1>1. Spares(ioq, ioq', D1) /\ Spares(dq, dq', D2)
  BY KeepAliveTyped, SparesAll DEF KeepAlive, IoUnchanged, scopeVars, connVars, requestVars
<1>2. ioq # <<>> /\ H.op = "keepAlive"
  BY DEF KeepAlive, Running, H
<1>3. \A e \in D2 : e.op = "verify" => e.token = session[e.conn]
  BY <1>2, HeadDated DEF Do, Conn, Note, Request, Signal, Entry, CallBacks, DatedOps
<1>4. \A t \in D1 : (t.op \in DatedOps => t.token = session[t.conn]) /\ t.op \notin {"connect", "stop", "invalidate", "shutdown"}
  BY <1>2, HeadDated DEF Do, Conn, Note, Request, Signal, Entry, CallBacks, DatedOps
<1>5. /\ UNCHANGED <<running, generation, session>> /\ (dpc' = dpc \/ dpc' = "shutdown")
      /\ connecting' \in {connecting, None} /\ peer' \in {peer, None}
  BY DEF KeepAlive, IoUnchanged, scopeVars, connVars, requestVars
<1> HIDE DEF D1, D2
<1>6. IoEven
  BY <1>1, <1>4, IoSparedEven DEF Sessions
<1>7. QED
  BY <1>1, <1>3, <1>4, <1>5, <1>6, SessionsKept

LEMMA DestroySessions ==
    ASSUME Typed, Sessions, Destroy
    PROVE  Sessions'
<1> DEFINE D1 == {}
           D2 == {}
<1>1. Spares(ioq, ioq', D1) /\ Spares(dq, dq', D2)
  BY DestroyTyped, SparesAll DEF Destroy, IoUnchanged, scopeVars, connVars, requestVars
<1>3. \A e \in D2 : e.op = "verify" => e.token = session[e.conn]
  BY DEF Do, Conn, Note, Request, Signal, Entry, CallBacks, DatedOps
<1>4. \A t \in D1 : (t.op \in DatedOps => t.token = session[t.conn]) /\ t.op \notin {"connect", "stop", "invalidate", "shutdown"}
  BY DEF Do, Conn, Note, Request, Signal, Entry, CallBacks, DatedOps
<1>5. /\ UNCHANGED <<running, generation, session>> /\ (dpc' = dpc \/ dpc' = "shutdown")
      /\ connecting' \in {connecting, None} /\ peer' \in {peer, None}
  BY DEF Destroy, IoUnchanged, scopeVars, connVars, requestVars
<1> HIDE DEF D1, D2
<1>6. IoEven
  BY <1>1, <1>4, IoSparedEven DEF Sessions
<1>7. QED
  BY <1>1, <1>3, <1>4, <1>5, <1>6, SessionsKept

LEMMA RequestTimeoutSessions ==
    ASSUME Typed, Sessions, RequestTimeout
    PROVE  Sessions'
<1> DEFINE D1 == {H} \cup Handlers("peerClose", peer)
           D2 == CallBacks \cup NotesOf(peer, requestToken[H.req])
<1>1. Spares(ioq, ioq', D1) /\ Spares(dq, dq', D2)
  BY RequestTimeoutTyped
<1>2. H.op = "timeout"
  BY DEF RequestTimeout, Running, H
<1>3. \A e \in D2 : e.op = "verify" => e.token = session[e.conn]
  BY DEF CallBacks, NotesOf, PeerNotes
<1>4. \A t \in D1 : t.op \notin DatedOps /\ t.op \notin {"connect", "stop", "invalidate", "shutdown"}
  BY <1>2 DEF Handlers, DatedOps
<1>5. /\ UNCHANGED <<running, generation, session, dpc>>
      /\ connecting' \in {connecting, None} /\ peer' \in {peer, None}
  BY DEF RequestTimeout, IoUnchanged, scopeVars
<1> HIDE DEF D1, D2
<1>6. IoEven
  BY <1>1, <1>4, IoSparedEven DEF Sessions
<1>7. QED
  BY <1>1, <1>3, <1>4, <1>5, <1>6, SessionsKept

LEMMA EndConnectionSessions ==
    ASSUME Typed, Sessions, EndConnection
    PROVE  Sessions'
<1> DEFINE D1 == {H} \cup Handlers("peerClose", peer)
           D2 == CallBacks \cup {Note("reconnect", None, H.token)}
<1>1. Spares(ioq, ioq', D1) /\ Spares(dq, dq', D2)
  BY EndConnectionTyped
<1>2. H.op \in {"stop", "invalidate"} /\ ioq # <<>>
  BY DEF EndConnection
<1>3. \A e \in D2 : e.op # "verify"
  <2>1. Note("reconnect", None, H.token).op = "note"
    BY DEF Note, Conn, Entry
  <2>2. QED
    BY <2>1 DEF CallBacks
<1>4. \A t \in D1 : t.op \notin DatedOps
  BY <1>2 DEF Handlers, DatedOps
<1>5. /\ UNCHANGED <<running, generation, session, dpc>>
      /\ connecting' \in {connecting, None} /\ peer' \in {peer, None}
  BY DEF EndConnection, IoUnchanged, scopeVars, CloseConnecting
<1>6. IoEven
  <2>1. Movers \cap Handlers("peerClose", peer) = {} /\ Fresh(generation) \cap Handlers("peerClose", peer) = {}
    BY DEF Movers, Fresh, Handlers
  <2>2. PICK x \in Seq(IoEntries) : ioq' = Tail(ioq) \o x /\ ~Has(x, Movers) /\ ~Has(x, Fresh(generation))
    <3>1. ioq' = Tail(ioq) \o ClosedPeer \/ ioq' = Tail(ioq) \o <<>>
      BY DEF EndConnection, Posting
    <3>2. ClosedPeer \in Seq(IoEntries) /\ ~Has(ClosedPeer, Movers) /\ ~Has(ClosedPeer, Fresh(generation))
      BY <2>1, ClosedPeerPosted
    <3>3. <<>> \in Seq(IoEntries) /\ ~Has(<<>>, Movers) /\ ~Has(<<>>, Fresh(generation))
      BY Made
    <3>4. QED
      BY <3>1, <3>2, <3>3
  <2>3. QED
    BY <1>2, <2>2, IoTakenEven DEF Sessions
<1> HIDE DEF D1, D2
<1>7. QED
  BY <1>1, <1>3, <1>4, <1>5, <1>6, SessionsKept

LEMMA ShutdownSessions ==
    ASSUME Typed, Sessions, Shutdown
    PROVE  Sessions'
<1> DEFINE D1 == {H, Do("keepAlive")} \cup Handlers("peerClose", peer)
           D2 == CallBacks
<1>1. Spares(ioq, ioq', D1) /\ Spares(dq, dq', D2)
  BY ShutdownTyped
<1>2. H.op = "shutdown" /\ ioq # <<>> /\ Do("keepAlive").op = "keepAlive"
  BY DEF Shutdown, Running, H, Do, Entry
<1>3. \A e \in D2 : e.op # "verify"
  BY DEF CallBacks
<1>4. \A t \in D1 : t.op \notin DatedOps
  BY <1>2 DEF Handlers, DatedOps
<1>5. /\ UNCHANGED <<running, generation, session, dpc>>
      /\ connecting' \in {connecting, None} /\ peer' \in {peer, None}
  BY DEF Shutdown, IoUnchanged, scopeVars, CloseConnecting
<1>6. IoEven
  <2> DEFINE k == Do("keepAlive")
             x == ClosedPeer \o <<k>>
             F == Fresh(generation)
  <2>1. Movers \cap Handlers("peerClose", peer) = {} /\ F \cap Handlers("peerClose", peer) = {}
    BY DEF Movers, Fresh, Handlers
  <2>2. k \in IoEntries /\ k \notin Movers /\ k \notin F
    BY <1>2, IoMade DEF Movers, Fresh
  <2>3. ClosedPeer \in Seq(IoEntries) /\ ~Has(ClosedPeer, Movers) /\ ~Has(ClosedPeer, F)
    BY <2>1, ClosedPeerPosted
  <2>4. ioq' = Tail(ioq) \o x
    BY DEF Shutdown, Posting
  <2> HIDE DEF k, F
  <2>5. <<k>> \in Seq(IoEntries) /\ ~Has(<<k>>, Movers) /\ ~Has(<<k>>, F)
    BY <2>2, Made
  <2>6. x \in Seq(IoEntries) /\ ~Has(x, Movers) /\ ~Has(x, F)
    BY <2>3, <2>5, SentHas
  <2> HIDE DEF x
  <2>7. QED
    BY <1>2, <2>4, <2>6, IoTakenEven DEF Sessions, F
<1> HIDE DEF D1, D2
<1>7. QED
  BY <1>1, <1>3, <1>4, <1>5, <1>6, SessionsKept

\* A session is begun after what ended the one before.
LEMMA FreshSent ==
    ASSUME Typed, Underway, ioq' = ioq \o <<Conn("connect", None, generation, "")>>
    PROVE  NotBefore(ioq', Fresh(generation), Movers) /\ (Has(ioq', Movers) => Has(ioq, Movers))
<1> DEFINE f == Conn("connect", None, generation, "")
           F == Fresh(generation)
<1>1. NotBefore(ioq, F, Movers) /\ ioq \in Seq(IoEntries) /\ f \in IoEntries /\ f \notin Movers
  <2>1. f.op = "connect" /\ generation \in Nat
    BY DEF Conn, Entry, Typed, ScopeTyped
  <2>2. QED
    BY <2>1, IoMade DEF Underway, Typed, IoTyped, Movers
<1>0. ioq' = ioq \o <<f>>
  OBVIOUS
<1> HIDE DEF F, f
<1>2. <<f>> \in Seq(IoEntries) /\ ~Has(<<f>>, Movers) /\ NotBefore(<<f>>, F, Movers)
  <2>1. <<f>> \in Seq(IoEntries) /\ ~Has(<<f>>, Movers)
    BY <1>1, Made
  <2>2. QED
    BY <2>1, Nothing
<1>3. Has(ioq \o <<f>>, Movers) => Has(ioq, Movers)
  BY <1>1, <1>2, SentHas
<1>4. NotBefore(ioq \o <<f>>, F, Movers)
  BY <1>1, <1>2, Joined
<1>5. QED
  BY <1>0, <1>3, <1>4 DEF F

LEMMA StartSessions ==
    ASSUME Typed, Sessions, Start
    PROVE  Sessions'
<1> DEFINE D1 == {Conn("connect", None, generation, "")}
           D2 == {E}
<1>1. Spares(ioq, ioq', D1) /\ Spares(dq, dq', D2)
  BY StartTyped
<1>2. (\A t \in D1 : t.op \notin DatedOps) /\ (\A e \in D2 : e.op # "verify")
  <2>1. Conn("connect", None, generation, "").op = "connect" /\ E.op = "start"
    BY DEF Start, Dispatching, E, Conn, Entry
  <2>2. QED
    BY <2>1 DEF DatedOps
<1>3. UNCHANGED <<generation, session, connecting, peer, dpc>> /\ running' = TRUE /\ dpc = "idle"
  BY DEF Start, connVars, Dispatching
<1>4. NotBefore(ioq', Fresh(generation), Movers) /\ (Has(ioq', Movers) => Has(ioq, Movers))
  BY FreshSent DEF Start, Post, Sessions
<1> HIDE DEF D1, D2
<1>5. ASSUME NEW c \in Conns
      PROVE  Dated(c)'
  <2>1. QED
    BY <1>1, <1>2, <1>3, DatedKept DEF Sessions
<1>6. Underway'
  BY <1>3, <1>4 DEF Sessions, Underway, Current, Stopping
<1>7. QED
  BY <1>5, <1>6 DEF Sessions

LEMMA ReconnectSessions ==
    ASSUME Typed, Sessions, Reconnect
    PROVE  Sessions'
<1> DEFINE D1 == {Conn("connect", None, generation, "")}
<1>1. Spares(ioq, ioq', D1) /\ Spares(dq, dq', {})
  BY ReconnectTyped, SparesAll DEF Reconnect
<1>2. \A t \in D1 : t.op \notin DatedOps
  <2>1. Conn("connect", None, generation, "").op = "connect"
    BY DEF Conn, Entry
  <2>2. QED
    BY <2>1 DEF DatedOps
<1>3. UNCHANGED <<generation, session, connecting, peer, dpc, running>> /\ dpc = "idle"
  BY DEF Reconnect, connVars, scopeVars
<1>4. NotBefore(ioq', Fresh(generation), Movers) /\ (Has(ioq', Movers) => Has(ioq, Movers))
  <2>1. CASE ioq' = ioq
    BY <2>1 DEF Sessions, Underway
  <2>2. CASE ioq' = Append(ioq, Conn("connect", None, generation, ""))
    <3>1. /\ ioq \in Seq(IoEntries) /\ generation \in Nat
      BY DEF Typed, IoTyped, ScopeTyped
    <3>2. ioq' = ioq \o <<Conn("connect", None, generation, "")>>
      BY <2>2, <3>1, IoMade, Plain
    <3>3. QED
      BY <3>2, FreshSent DEF Sessions
  <2>3. QED
    BY <2>1, <2>2 DEF Reconnect
<1> HIDE DEF D1
<1>5. ASSUME NEW c \in Conns
      PROVE  Dated(c)'
  <2>1. QED
    BY <1>1, <1>2, <1>3, DatedKept DEF Sessions
<1>6. Underway'
  BY <1>3, <1>4 DEF Sessions, Underway, Current, Stopping
<1>7. QED
  BY <1>5, <1>6 DEF Sessions

\* The next session has no entry yet.
LEMMA Unborn ==
    ASSUME Typed
    PROVE  /\ ~Has(ioq, Fresh(generation + 1)) /\ ~Has(dq, Notices(generation + 1))
           /\ \A c \in Conns : session[c] # generation + 1
<1>1. generation \in Nat /\ \A c \in Conns : session[c] \in 0..generation
  BY Numbers
<1>2. /\ ioq \in Seq(IoEntries) /\ dq \in Seq(DqEntries)
      /\ ~Has(ioq, Beyond(generation)) /\ ~Has(dq, Beyond(generation))
  BY DEF Typed, IoTyped, DqTyped
<1>3. Fresh(generation + 1) \subseteq Beyond(generation) /\ Notices(generation + 1) \subseteq Beyond(generation)
  BY <1>1 DEF Fresh, Notices, Beyond
<1>4. ~Has(ioq, Fresh(generation + 1)) /\ ~Has(dq, Notices(generation + 1))
  BY <1>2, <1>3 DEF Has
<1>5. QED
  BY <1>1, <1>4

LEMMA EndSessionSessions ==
    ASSUME Typed, Sessions, NEW op \in {"stop", "invalidate"}, EndSession(op)
    PROVE  Sessions'
<1>1. Spares(ioq, ioq', {}) /\ Spares(dq, dq', {E}) /\ E.op # "verify"
  BY EndSessionTyped, SparesAll DEF EndSession, Dispatching, E
<1>2. UNCHANGED <<session, connecting, peer, ioq>> /\ generation' = generation + 1
  BY DEF EndSession, connVars
<1>3. ASSUME NEW c \in Conns
      PROVE  Dated(c)'
  <2>1. Dated(c) /\ session'[c] = session[c]
    BY <1>2 DEF Sessions
  <2>2. QED
    BY <1>1, <2>1, DatedKept
<1>4. ~Has(ioq, Fresh(generation + 1)) /\ \A c \in Conns : session[c] # generation + 1
  BY Unborn
<1>5. Underway'
  <2>1. ~Current(connecting)' /\ ~Current(peer)'
    BY <1>2, <1>4 DEF Typed, ConnTyped, Current
  <2>2. NotBefore(ioq, Fresh(generation + 1), Movers)
    BY <1>4, Nothing
  <2>3. QED
    BY <1>2, <1>4, <2>1, <2>2 DEF Underway
<1>6. QED
  BY <1>3, <1>5 DEF Sessions

LEMMA PostEndOfSessionSessions ==
    ASSUME Typed, Sessions, PostEndOfSession
    PROVE  Sessions'
<1> DEFINE m == Conn(dpc, None, generation, "")
<1>1. /\ Spares(ioq, ioq', {m}) /\ Spares(dq, dq', {Do("cancel")})
      /\ m.op \in {"stop", "invalidate"} /\ Do("cancel").op = "cancel" /\ dpc \in {"stop", "invalidate"}
  BY PostEndOfSessionTyped DEF PostEndOfSession, Conn, Do, Entry
<1>2. UNCHANGED <<session, connecting, peer, generation, running>> /\ dpc' = "idle" /\ ioq' = ioq \o <<m>>
  BY DEF PostEndOfSession, connVars, scopeVars, Post
<1>3. ASSUME NEW c \in Conns
      PROVE  Dated(c)'
  <2>1. Dated(c) /\ session'[c] = session[c]
    BY <1>2 DEF Sessions
  <2>2. (\A t \in {m} : t.op \notin DatedOps) /\ \A e \in {Do("cancel")} : e.op # "verify"
    BY <1>1 DEF DatedOps
  <2> HIDE DEF m
  <2>3. QED
    BY <1>1, <2>1, <2>2, DatedKept
<1>4. ~Current(connecting) /\ ~Current(peer) /\ ~Has(ioq, Fresh(generation))
  BY <1>1 DEF Sessions, Underway, Stopping
<1>5. NotBefore(ioq', Fresh(generation), Movers)
  <2> DEFINE F == Fresh(generation)
  <2>1. m \in IoEntries /\ m \notin F /\ ioq \in Seq(IoEntries)
    <3>1. generation \in Nat
      BY DEF Typed, ScopeTyped
    <3>2. m \in IoEntries
      BY <1>1, <3>1, IoMade
    <3>3. QED
      BY <1>1, <3>2 DEF Typed, IoTyped, Fresh
  <2> HIDE DEF F, m
  <2>2. <<m>> \in Seq(IoEntries) /\ ~Has(<<m>>, F)
    BY <2>1, Made
  <2>3. ~Has(ioq', F)
    BY <1>2, <1>4, <2>1, <2>2, SentHas DEF F
  <2>4. NotBefore(ioq', F, Movers)
    BY <2>3, Nothing
  <2>5. QED
    BY <2>4 DEF F
<1>6. ~Current(connecting)' /\ ~Current(peer)'
  BY <1>2, <1>4 DEF Current
<1>7. Underway'
  BY <1>2, <1>5, <1>6 DEF Underway
<1>8. QED
  BY <1>3, <1>7 DEF Sessions

LEMMA PostShutdownSessions ==
    ASSUME Typed, Sessions, PostShutdown
    PROVE  Sessions'
<1> DEFINE s == Do("shutdown")
<1>1. /\ Spares(ioq, ioq', {s}) /\ Spares(dq, dq', {}) /\ s.op = "shutdown"
  BY PostShutdownTyped, SparesAll DEF PostShutdown, Do, Entry
<1>2. UNCHANGED <<session, connecting, peer>> /\ generation' = generation + 1 /\ dpc' = "idle" /\ ioq' = ioq \o <<s>>
  BY DEF PostShutdown, connVars, Post
<1>3. ASSUME NEW c \in Conns
      PROVE  Dated(c)'
  <2>1. Dated(c) /\ session'[c] = session[c]
    BY <1>2 DEF Sessions
  <2>2. (\A t \in {s} : t.op \notin DatedOps)
    BY <1>1 DEF DatedOps
  <2> HIDE DEF s
  <2>3. QED
    BY <1>1, <2>1, <2>2, DatedKept
<1>4. ~Has(ioq, Fresh(generation + 1)) /\ \A c \in Conns : session[c] # generation + 1
  BY Unborn
<1>5. NotBefore(ioq', Fresh(generation + 1), Movers)
  <2> DEFINE F == Fresh(generation + 1)
  <2>1. s \in IoEntries /\ s \notin F /\ ioq \in Seq(IoEntries)
    BY <1>1, IoMade DEF Typed, IoTyped, Fresh
  <2> HIDE DEF F, s
  <2>2. <<s>> \in Seq(IoEntries) /\ ~Has(<<s>>, F)
    BY <2>1, Made
  <2>3. ~Has(ioq', F)
    BY <1>2, <1>4, <2>1, <2>2, SentHas DEF F
  <2>4. NotBefore(ioq', F, Movers)
    BY <2>3, Nothing
  <2>5. QED
    BY <2>4 DEF F
<1>6. ~Current(connecting)' /\ ~Current(peer)'
  BY <1>2, <1>4 DEF Current, Typed, ConnTyped
<1>7. Underway'
  BY <1>2, <1>5, <1>6 DEF Underway
<1>8. QED
  BY <1>3, <1>7 DEF Sessions

LEMMA ConnectBeginsSessions ==
    ASSUME Typed, Tracks, Sessions, NEW c \in Conns, ConnectBegins(c)
    PROVE  Sessions'
<1> DEFINE F == Fresh(generation)
<1>1. /\ ioq # <<>> /\ ioq \in Seq(IoEntries) /\ H \in F /\ H = Head(ioq) /\ H.op = "connect"
      /\ ioq' = Tail(ioq) \o <<>> /\ NotBefore(ioq, F, Movers)
  <2>1. ioq # <<>> /\ H.op = "connect" /\ H.token = generation /\ ioq' = Tail(ioq) \o <<>>
    BY DEF ConnectBegins, Running, Posting, H, MayConnect, IsCurrent
  <2>2. H \in F
    BY <2>1, Heads DEF Fresh
  <2>3. QED
    BY <2>1, <2>2 DEF H, Typed, IoTyped, Sessions, Underway
<1>2. /\ running /\ H.token = generation /\ UNCHANGED <<peer, dq, running, generation, dpc>>
      /\ session' = [session EXCEPT ![c] = H.token] /\ connecting' = c /\ peer = None
  BY DEF ConnectBegins, MayConnect, IsCurrent, IoUnchanged, scopeVars
<1>3. Spares(ioq, ioq', {H}) /\ Spares(dq, dq', {})
  BY <1>2, ConnectBeginsTyped, SparesAll
<1>4. ASSUME NEW k \in Conns, k # c
      PROVE  Dated(k)'
  <2>1. Dated(k) /\ session'[k] = session[k]
    BY <1>2, <1>4 DEF Sessions, Typed, ConnTyped
  <2>2. \A t \in {H} : t.op \notin DatedOps
    BY <1>1 DEF DatedOps
  <2>3. QED
    BY <1>3, <2>1, <2>2, DatedKept
<1>5. Dated(c)'
  <2>1. Tracked(c) /\ Young(c) /\ ~Waiting(c)
    BY DEF Tracks, ConnectBegins, Young, Tracked, Begun
  <2>2. ~Has(ioq, OfPeer(c)) /\ ~Has(ioq, Attempting(c)) /\ ~Has(dq, Verifies(c))
    BY <2>1 DEF Tracked, Begun, Waiting
  <2>3. \A n : ~Has(ioq, Astray(c, n)) /\ ~Has(dq, VerifiesAstray(c, n))
    BY <2>2 DEF Has, Astray, VerifiesAstray, OfPeer, Attempting
  <2>4. \A A : Has(ioq', A) => Has(ioq, A)
    BY <1>1, Made, TakenHas
  <2>5. QED
    BY <1>2, <2>3, <2>4 DEF Dated
<1>6. Underway'
  <2>1. Has(ioq, F)
    BY <1>1, HeadHas
  <2>2. dpc \notin {"stop", "invalidate"}
    BY <2>1 DEF Sessions, Underway
  <2> HIDE DEF F
  <2>3. ~Has(<<>>, Movers) /\ <<>> \in Seq(IoEntries)
    BY Made
  <2>4. ~Has(ioq', Movers)
    BY <1>1, <2>3, HeadGone
  <2>5. NotBefore(ioq', F, Movers)
    BY <2>4, Nothing
  <2>6. QED
    BY <1>2, <2>2, <2>4, <2>5 DEF Underway, Current, Stopping, F
<1>7. QED
  BY <1>4, <1>5, <1>6 DEF Sessions

LEMMA HandleConnectedSocketSessions ==
    ASSUME Typed, Sessions, HandleConnectedSocket
    PROVE  Sessions'
<1> DEFINE s == Conn("peerStart", H.conn, 0, "")
           a == Conn("announce", H.conn, H.token, "")
           n == Note("verification_failed", None, H.token)
<1>1. Spares(ioq, ioq', {H, s, a}) /\ Spares(dq, dq', {n})
  BY HandleConnectedSocketTyped
<1>2. /\ H.op = "verified" /\ s.op = "peerStart" /\ a.op = "announce" /\ a.conn = H.conn
      /\ a.token = H.token /\ n.op = "note"
  BY DEF HandleConnectedSocket, Running, H, Conn, Note, Entry
<1>3. H.conn \in Conns /\ H.token = session[H.conn]
  BY <1>2, HeadDated DEF DatedOps, HandleConnectedSocket, Running
<1>4. /\ UNCHANGED <<running, generation, session, dpc>>
      /\ connecting' \in {connecting, None}
      /\ peer' = peer \/ (connecting = H.conn /\ peer' = H.conn)
  BY DEF HandleConnectedSocket, IoUnchanged, scopeVars
<1> HIDE DEF s, a, n
<1>5. ASSUME NEW c \in Conns
      PROVE  Dated(c)'
  <2>1. Dated(c) /\ session'[c] = session[c]
    BY <1>4 DEF Sessions
  <2>2. \A t \in {H, s, a} : t.op \in DatedOps /\ t.conn = c => t.token = session[c]
    BY <1>2, <1>3 DEF DatedOps
  <2>3. \A e \in {n} : e.op = "verify" /\ e.conn = c => e.token = session[c]
    BY <1>2
  <2>4. QED
    BY <1>1, <2>1, <2>2, <2>3, DatedKept
<1>6. IoEven
  <2>1. \A t \in {H, s, a} : t.op \notin {"connect", "stop", "invalidate", "shutdown"}
    BY <1>2
  <2>2. QED
    BY <1>1, <2>1, IoSparedEven DEF Sessions
<1>7. /\ Current(connecting)' => Current(connecting)
      /\ Current(peer)' => Current(peer) \/ Current(connecting)
      /\ Stopping' => Stopping
  BY <1>4, <1>6 DEF Current, Stopping, IoEven
<1>8. Underway'
  BY <1>4, <1>6, <1>7 DEF Sessions, Underway, IoEven
<1>9. QED
  BY <1>5, <1>8 DEF Sessions

LEMMA ReleaseSessions ==
    ASSUME Typed, Sessions, NEW c \in Conns, Release(c)
    PROVE  Sessions'
<1>1. /\ Spares(ioq, ioq', {}) /\ Spares(dq, dq', DqAbout(c)) /\ ~Has(dq', DqAbout(c))
  BY ReleaseTyped, SparesAll DEF Release
<1>2. /\ UNCHANGED <<running, generation, connecting, peer, dpc, ioq>> /\ connecting # c /\ peer # c
      /\ session' = [session EXCEPT ![c] = 0] /\ session \in [Conns -> 0..generation]
  BY DEF Release, IoUnchanged, scopeVars, Typed, ConnTyped
<1>3. ASSUME NEW k \in Conns, k # c
      PROVE  Dated(k)'
  <2>1. Dated(k) /\ session'[k] = session[k]
    BY <1>2, <1>3 DEF Sessions
  <2>2. \A e \in DqAbout(c) : e.conn # k
    BY <1>3 DEF DqAbout
  <2>3. QED
    BY <1>1, <2>1, <2>2, DatedKept
<1>4. Dated(c)'
  <2>1. \A n : ~Has(ioq, Astray(c, n))
    <3>1. \A t \in ToSet(ioq) : t.conn # c
      BY DEF Release
    <3>2. \A n : \A t \in ToSet(ioq) : t \notin Astray(c, n)
      BY <3>1 DEF Astray
    <3>3. QED
      BY <3>2, Elements
  <2>2. \A n : ~Has(dq', VerifiesAstray(c, n))
    <3>1. \A n : VerifiesAstray(c, n) \subseteq DqAbout(c)
      BY DEF VerifiesAstray, Verifies, DqAbout
    <3>2. QED
      BY <1>1, <3>1 DEF Has
  <2>3. QED
    BY <1>2, <2>1, <2>2 DEF Dated
<1>5. Underway'
  <2>1. (Current(connecting)' => Current(connecting)) /\ (Current(peer)' => Current(peer))
    BY <1>2 DEF Current, Typed, ConnTyped
  <2>2. QED
    BY <1>2, <2>1 DEF Sessions, Underway, Stopping
<1>6. QED
  BY <1>3, <1>4, <1>5 DEF Sessions

LEMMA SessionsInit == Init => Sessions
<1> SUFFICES ASSUME Init
             PROVE  Sessions
  OBVIOUS
<1>1. ioq = <<>> /\ dq = <<>> /\ connecting = None /\ peer = None /\ dpc = "idle"
  BY DEF Init
<1>2. \A A : ~Has(ioq, A) /\ ~Has(dq, A)
  BY <1>1 DEF Has
<1>3. \A A, B : NotBefore(ioq, A, B)
  BY <1>1 DEF NotBefore
<1>4. QED
  BY <1>1, <1>2, <1>3 DEF Sessions, Dated, Underway, Current, Stopping

LEMMA IdleSessions ==
    ASSUME Sessions, UNCHANGED vars
    PROVE  Sessions'
BY DEF vars, connVars, scopeVars, Sessions, Dated, Underway, Current, Stopping

LEMMA SessionsStep == Typed /\ Tracks /\ Sessions /\ [Next]_vars => Sessions'
<1> SUFFICES ASSUME Typed, Tracks, Sessions, [Next]_vars
             PROVE  Sessions'
  OBVIOUS
<1>1. CASE \E op \in {"start", "stop", "invalidate"} : Call(op)
  BY <1>1, CallSessions
<1>2. CASE \E r \in Requests : AsyncRequest(r) \/ TimerExpires(r)
  BY <1>2, AsyncRequestSessions, TimerExpiresSessions
<1>3. CASE DispatcherStep \/ Reconnect \/ Detach
  BY <1>3, StartSessions, EndSessionSessions, PostEndOfSessionSessions, NotifySessions, VerifySessions,
     DispatchSignalSessions, DebounceSessions, CallBackSessions, PostShutdownSessions, ReconnectSessions,
     DetachSessions DEF DispatcherStep
<1>4. CASE IoStep \/ Destroy
  BY <1>4, ConnectIgnoredSessions, ConnectBadPathSessions, ConnectBeginsSessions, ConnectDoneSessions,
     HandleConnectedSocketSessions, AnnounceSessions, PeerStartSessions, PeerCloseSessions,
     ForwardSessions, SendRequestSessions, RequestTimeoutSessions, EndConnectionSessions,
     ShutdownSessions, KeepAliveSessions, DestroySessions DEF IoStep
<1>5. CASE \E c \in Conns : \E outcome \in {"connected", "failed"} : Connects(c, outcome)
  BY <1>5, ConnectsSessions
<1>6. CASE \E c \in Conns : PeerReads(c) \/ PeerEnds(c) \/ Release(c)
  BY <1>6, PeerReadsSessions, PeerEndsSessions, ReleaseSessions
<1>7. CASE UNCHANGED vars
  BY <1>7, IdleSessions
<1>8. QED
  BY <1>1, <1>2, <1>3, <1>4, <1>5, <1>6, <1>7 DEF Next, Destroyed

-----------------------------------------------------------------------------
\* The requests.

Quiet == {t \in IoEntries : t.op \notin {"request", "timeout", "announce"}}

\* Neither a request nor its timeout comes with this step, and no announcement while it waits.
AskedIo(r) ==
    /\ Has(ioq', Timeouts(r)) => Has(ioq, Timeouts(r))
    /\ Has(ioq', Sends(r)) => Has(ioq, Sends(r))
    /\ NotBefore(ioq', Sends(r), Sends(r))
    /\ r \in pending /\ peer # None => NotBefore(ioq', Timeouts(r), Handlers("announce", peer))

LEMMA AskedIoSpared ==
    ASSUME NEW r \in Requests, Asked(r), NEW D, Spares(ioq, ioq', D),
           \A t \in D : t.op \notin {"request", "timeout"},
           (\A t \in D : t.op # "announce") \/ r \notin pending \/ peer = None
    PROVE  AskedIo(r)
<1> DEFINE T == Timeouts(r)
           S == Sends(r)
           A == Handlers("announce", peer)
<1>1. T \cap D = {} /\ S \cap D = {} /\ (r \in pending /\ peer # None => A \cap D = {})
  BY DEF Timeouts, Sends, Handlers
<1>2. NotBefore(ioq, S, S) /\ (r \in pending /\ peer # None => NotBefore(ioq, T, A))
  BY DEF Asked
<1> HIDE DEF T, S, A
<1>3. /\ Has(ioq', T) => Has(ioq, T)
      /\ Has(ioq', S) => Has(ioq, S)
      /\ NotBefore(ioq', S, S)
  BY <1>1, <1>2, Spared
<1>4. r \in pending /\ peer # None => NotBefore(ioq', T, A)
  BY <1>1, <1>2, Spared
<1>5. QED
  BY <1>3, <1>4 DEF AskedIo, T, S, A

LEMMA AskedIoTaken ==
    ASSUME Typed, NEW r \in Requests, Asked(r), ioq # <<>>, NEW x \in Seq(Quiet), ioq' = Tail(ioq) \o x
    PROVE  AskedIo(r)
<1> DEFINE T == Timeouts(r)
           S == Sends(r)
           A == Handlers("announce", peer)
<1>1. ~Has(x, T) /\ ~Has(x, S) /\ ~Has(x, A) /\ x \in Seq(IoEntries) /\ ioq \in Seq(IoEntries)
  <2>1. \A i \in DOMAIN x : x[i] \in Quiet
    OBVIOUS
  <2>2. \A t \in Quiet : t \in IoEntries /\ t \notin T /\ t \notin S /\ t \notin A
    BY DEF Quiet, Timeouts, Sends, Handlers
  <2>3. x \in Seq(IoEntries)
    BY <2>2
  <2>4. QED
    BY <2>1, <2>2, <2>3 DEF Has, Typed, IoTyped
<1>2. NotBefore(ioq, S, S) /\ (r \in pending /\ peer # None => NotBefore(ioq, T, A))
  BY DEF Asked
<1> HIDE DEF T, S, A
<1>3. NotBefore(x, S, S) /\ NotBefore(x, T, A)
  BY <1>1, Nothing
<1>4. /\ Has(ioq', T) => Has(ioq, T)
      /\ Has(ioq', S) => Has(ioq, S)
  BY <1>1, TakenHas
<1>5. NotBefore(ioq', S, S)
  BY <1>1, <1>2, <1>3, Taken
<1>6. r \in pending /\ peer # None => NotBefore(ioq', T, A)
  BY <1>1, <1>2, <1>3, Taken
<1>7. QED
  BY <1>4, <1>5, <1>6 DEF AskedIo, T, S, A

\* A step that is about no request.
LEMMA AskedKept ==
    ASSUME NEW r \in Requests, Asked(r), AskedIo(r), r \in pending' => r \in pending,
           request'[r] = request[r], requestToken'[r] = requestToken[r],
           Has(dq', CallBacksOf(r)) => Has(dq, CallBacksOf(r)),
           peer' \in {peer, None} \/ r \notin pending, peer # None => session'[peer] = session[peer]
    PROVE  Asked(r)'
<1>1. r \in pending' => request'[r] = "pending"
  BY DEF Asked
<1>2. r \in pending' /\ peer' # None =>
        requestToken'[r] >= session'[peer'] /\ NotBefore(ioq', Timeouts(r), Handlers("announce", peer'))
  <2> SUFFICES ASSUME r \in pending', peer' # None
               PROVE  requestToken'[r] >= session'[peer'] /\ NotBefore(ioq', Timeouts(r), Handlers("announce", peer'))
    OBVIOUS
  <2>1. r \in pending /\ peer' = peer /\ peer # None
    OBVIOUS
  <2>2. requestToken[r] >= session[peer] /\ NotBefore(ioq', Timeouts(r), Handlers("announce", peer))
    BY <2>1 DEF Asked, AskedIo
  <2>3. QED
    BY <2>1, <2>2
<1>3. /\ Has(ioq', Timeouts(r)) => request'[r] \notin {"idle", "posted"}
      /\ Has(ioq', Sends(r)) => request'[r] = "posted"
      /\ NotBefore(ioq', Sends(r), Sends(r))
      /\ Has(dq', CallBacksOf(r)) => request'[r] \in {"completed", "called"}
  BY DEF Asked, AskedIo
<1>4. QED
  BY <1>1, <1>2, <1>3 DEF Asked

LEMMA QuestionsKept ==
    ASSUME Questions, UNCHANGED <<pending, request, requestToken>>,
           NEW D1, NEW D2, Spares(ioq, ioq', D1), Spares(dq, dq', D2),
           \A t \in D1 : t.op \notin {"request", "timeout"}, \A e \in D2 : e.op # "callback",
           \/ pending = {}
           \/ (\A t \in D1 : t.op # "announce") /\ peer' \in {peer, None},
           peer # None => session'[peer] = session[peer]
    PROVE  Questions'
<1> SUFFICES ASSUME NEW r \in Requests
             PROVE  Asked(r)'
  BY DEF Questions
<1>1. Asked(r)
  BY DEF Questions
<1>2. AskedIo(r)
  BY <1>1, AskedIoSpared
<1>3. Has(dq', CallBacksOf(r)) => Has(dq, CallBacksOf(r))
  <2>1. CallBacksOf(r) \cap D2 = {}
    BY DEF CallBacksOf, CallBacks
  <2>2. QED
    BY <2>1, Spared
<1>4. QED
  BY <1>1, <1>2, <1>3, AskedKept

LEMMA CallAsked ==
    ASSUME Typed, Questions, NEW op \in {"start", "stop", "invalidate"}, Call(op)
    PROVE  Questions'
<1> DEFINE D1 == {}
           D2 == {Do(op)}
<1>1. Spares(ioq, ioq', D1) /\ Spares(dq, dq', D2)
  BY CallTyped, SparesAll DEF Call, IoUnchanged, scopeVars, connVars, requestVars
<1>2. /\ Do(op).op = op
  BY DEF Call, Running, Dispatching, E, H, Do, Conn, Note, Signal, Entry
<1>3. (\A t \in D1 : t.op \notin {"request", "timeout"} /\ t.op # "announce") /\ \A e \in D2 : e.op # "callback"
  BY <1>2
<1>4. /\ UNCHANGED <<pending, request, requestToken>> /\ peer' \in {peer, None}
      /\ peer # None => session'[peer] = session[peer]
  BY DEF Call, IoUnchanged, scopeVars, connVars, requestVars
<1> HIDE DEF D1, D2
<1>5. QED
  BY <1>1, <1>3, <1>4, QuestionsKept

LEMMA StartAsked ==
    ASSUME Typed, Questions, Start
    PROVE  Questions'
<1> DEFINE D1 == {Conn("connect", None, generation, "")}
           D2 == {E}
<1>1. Spares(ioq, ioq', D1) /\ Spares(dq, dq', D2)
  BY StartTyped, SparesAll DEF Start, IoUnchanged, scopeVars, connVars, requestVars
<1>2. /\ Conn("connect", None, generation, "").op = "connect"
      /\ E.op = "start"
  BY DEF Start, Running, Dispatching, E, H, Do, Conn, Note, Signal, Entry
<1>3. (\A t \in D1 : t.op \notin {"request", "timeout"} /\ t.op # "announce") /\ \A e \in D2 : e.op # "callback"
  BY <1>2
<1>4. /\ UNCHANGED <<pending, request, requestToken>> /\ peer' \in {peer, None}
      /\ peer # None => session'[peer] = session[peer]
  BY DEF Start, IoUnchanged, scopeVars, connVars, requestVars
<1> HIDE DEF D1, D2
<1>5. QED
  BY <1>1, <1>3, <1>4, QuestionsKept

LEMMA EndSessionAsked ==
    ASSUME Typed, Questions, NEW op \in {"stop", "invalidate"}, EndSession(op)
    PROVE  Questions'
<1> DEFINE D1 == {}
           D2 == {E}
<1>1. Spares(ioq, ioq', D1) /\ Spares(dq, dq', D2)
  BY EndSessionTyped, SparesAll DEF EndSession, IoUnchanged, scopeVars, connVars, requestVars
<1>2. /\ E.op = op
  BY DEF EndSession, Running, Dispatching, E, H, Do, Conn, Note, Signal, Entry
<1>3. (\A t \in D1 : t.op \notin {"request", "timeout"} /\ t.op # "announce") /\ \A e \in D2 : e.op # "callback"
  BY <1>2
<1>4. /\ UNCHANGED <<pending, request, requestToken>> /\ peer' \in {peer, None}
      /\ peer # None => session'[peer] = session[peer]
  BY DEF EndSession, IoUnchanged, scopeVars, connVars, requestVars
<1> HIDE DEF D1, D2
<1>5. QED
  BY <1>1, <1>3, <1>4, QuestionsKept

LEMMA PostEndOfSessionAsked ==
    ASSUME Typed, Questions, PostEndOfSession
    PROVE  Questions'
<1> DEFINE D1 == {Conn(dpc, None, generation, "")}
           D2 == {Do("cancel")}
<1>1. Spares(ioq, ioq', D1) /\ Spares(dq, dq', D2)
  BY PostEndOfSessionTyped, SparesAll DEF PostEndOfSession, IoUnchanged, scopeVars, connVars, requestVars
<1>2. /\ Conn(dpc, None, generation, "").op = dpc
      /\ Do("cancel").op = "cancel"
      /\ dpc \in {"stop", "invalidate"}
  BY DEF PostEndOfSession, Running, Dispatching, E, H, Do, Conn, Note, Signal, Entry
<1>3. (\A t \in D1 : t.op \notin {"request", "timeout"} /\ t.op # "announce") /\ \A e \in D2 : e.op # "callback"
  BY <1>2
<1>4. /\ UNCHANGED <<pending, request, requestToken>> /\ peer' \in {peer, None}
      /\ peer # None => session'[peer] = session[peer]
  BY DEF PostEndOfSession, IoUnchanged, scopeVars, connVars, requestVars
<1> HIDE DEF D1, D2
<1>5. QED
  BY <1>1, <1>3, <1>4, QuestionsKept

LEMMA NotifyAsked ==
    ASSUME Typed, Questions, Notify
    PROVE  Questions'
<1> DEFINE D1 == {}
           D2 == {E, Do("debounce")}
<1>1. Spares(ioq, ioq', D1) /\ Spares(dq, dq', D2)
  BY NotifyTyped, SparesAll DEF Notify, IoUnchanged, scopeVars, connVars, requestVars
<1>2. /\ Do("debounce").op = "debounce"
      /\ E.op = "note"
  BY DEF Notify, Running, Dispatching, E, H, Do, Conn, Note, Signal, Entry
<1>3. (\A t \in D1 : t.op \notin {"request", "timeout"} /\ t.op # "announce") /\ \A e \in D2 : e.op # "callback"
  BY <1>2
<1>4. /\ UNCHANGED <<pending, request, requestToken>> /\ peer' \in {peer, None}
      /\ peer # None => session'[peer] = session[peer]
  BY DEF Notify, IoUnchanged, scopeVars, connVars, requestVars
<1> HIDE DEF D1, D2
<1>5. QED
  BY <1>1, <1>3, <1>4, QuestionsKept

LEMMA VerifyAsked ==
    ASSUME Typed, Questions, Verify
    PROVE  Questions'
<1> DEFINE D1 == {Conn("verified", E.conn, E.token, "verified"), Conn("verified", E.conn, E.token, "refused")}
           D2 == {E}
<1>1. Spares(ioq, ioq', D1) /\ Spares(dq, dq', D2)
  BY VerifyTyped, SparesAll DEF Verify, IoUnchanged, scopeVars, connVars, requestVars
<1>2. /\ Conn("verified", E.conn, E.token, "verified").op = "verified"
      /\ Conn("verified", E.conn, E.token, "refused").op = "verified"
      /\ E.op = "verify"
  BY DEF Verify, Running, Dispatching, E, H, Do, Conn, Note, Signal, Entry
<1>3. (\A t \in D1 : t.op \notin {"request", "timeout"} /\ t.op # "announce") /\ \A e \in D2 : e.op # "callback"
  BY <1>2
<1>4. /\ UNCHANGED <<pending, request, requestToken>> /\ peer' \in {peer, None}
      /\ peer # None => session'[peer] = session[peer]
  BY DEF Verify, IoUnchanged, scopeVars, connVars, requestVars
<1> HIDE DEF D1, D2
<1>5. QED
  BY <1>1, <1>3, <1>4, QuestionsKept

LEMMA DispatchSignalAsked ==
    ASSUME Typed, Questions, DispatchSignal
    PROVE  Questions'
<1> DEFINE D1 == {Entry("forward", E.conn, session[E.conn], E.what, E.req)}
           D2 == {E}
<1>1. Spares(ioq, ioq', D1) /\ Spares(dq, dq', D2)
  BY DispatchSignalTyped, SparesAll DEF DispatchSignal, IoUnchanged, scopeVars, connVars, requestVars
<1>2. /\ Entry("forward", E.conn, session[E.conn], E.what, E.req).op = "forward"
      /\ E.op = "signal"
  BY DEF DispatchSignal, Running, Dispatching, E, H, Do, Conn, Note, Signal, Entry
<1>3. (\A t \in D1 : t.op \notin {"request", "timeout"} /\ t.op # "announce") /\ \A e \in D2 : e.op # "callback"
  BY <1>2
<1>4. /\ UNCHANGED <<pending, request, requestToken>> /\ peer' \in {peer, None}
      /\ peer # None => session'[peer] = session[peer]
  BY DEF DispatchSignal, IoUnchanged, scopeVars, connVars, requestVars
<1> HIDE DEF D1, D2
<1>5. QED
  BY <1>1, <1>3, <1>4, QuestionsKept

LEMMA DebounceAsked ==
    ASSUME Typed, Questions, Debounce
    PROVE  Questions'
<1> DEFINE D1 == {}
           D2 == {E}
<1>1. Spares(ioq, ioq', D1) /\ Spares(dq, dq', D2)
  BY DebounceTyped, SparesAll DEF Debounce, IoUnchanged, scopeVars, connVars, requestVars
<1>2. /\ E.op \in {"cancel", "debounce"}
  BY DEF Debounce, Running, Dispatching, E, H, Do, Conn, Note, Signal, Entry
<1>3. (\A t \in D1 : t.op \notin {"request", "timeout"} /\ t.op # "announce") /\ \A e \in D2 : e.op # "callback"
  BY <1>2
<1>4. /\ UNCHANGED <<pending, request, requestToken>> /\ peer' \in {peer, None}
      /\ peer # None => session'[peer] = session[peer]
  BY DEF Debounce, IoUnchanged, scopeVars, connVars, requestVars
<1> HIDE DEF D1, D2
<1>5. QED
  BY <1>1, <1>3, <1>4, QuestionsKept

LEMMA ReconnectAsked ==
    ASSUME Typed, Questions, Reconnect
    PROVE  Questions'
<1> DEFINE D1 == {Conn("connect", None, generation, "")}
           D2 == {}
<1>1. Spares(ioq, ioq', D1) /\ Spares(dq, dq', D2)
  BY ReconnectTyped, SparesAll DEF Reconnect, IoUnchanged, scopeVars, connVars, requestVars
<1>2. /\ Conn("connect", None, generation, "").op = "connect"
  BY DEF Reconnect, Running, Dispatching, E, H, Do, Conn, Note, Signal, Entry
<1>3. (\A t \in D1 : t.op \notin {"request", "timeout"} /\ t.op # "announce") /\ \A e \in D2 : e.op # "callback"
  BY <1>2
<1>4. /\ UNCHANGED <<pending, request, requestToken>> /\ peer' \in {peer, None}
      /\ peer # None => session'[peer] = session[peer]
  BY DEF Reconnect, IoUnchanged, scopeVars, connVars, requestVars
<1> HIDE DEF D1, D2
<1>5. QED
  BY <1>1, <1>3, <1>4, QuestionsKept

LEMMA PostShutdownAsked ==
    ASSUME Typed, Questions, PostShutdown
    PROVE  Questions'
<1> DEFINE D1 == {Do("shutdown")}
           D2 == {}
<1>1. Spares(ioq, ioq', D1) /\ Spares(dq, dq', D2)
  BY PostShutdownTyped, SparesAll DEF PostShutdown, IoUnchanged, scopeVars, connVars, requestVars
<1>2. /\ Do("shutdown").op = "shutdown"
  BY DEF PostShutdown, Running, Dispatching, E, H, Do, Conn, Note, Signal, Entry
<1>3. (\A t \in D1 : t.op \notin {"request", "timeout"} /\ t.op # "announce") /\ \A e \in D2 : e.op # "callback"
  BY <1>2
<1>4. /\ UNCHANGED <<pending, request, requestToken>> /\ peer' \in {peer, None}
      /\ peer # None => session'[peer] = session[peer]
  BY DEF PostShutdown, IoUnchanged, scopeVars, connVars, requestVars
<1> HIDE DEF D1, D2
<1>5. QED
  BY <1>1, <1>3, <1>4, QuestionsKept

LEMMA ConnectIgnoredAsked ==
    ASSUME Typed, Questions, ConnectIgnored
    PROVE  Questions'
<1> DEFINE D1 == {H}
           D2 == {}
<1>1. Spares(ioq, ioq', D1) /\ Spares(dq, dq', D2)
  BY ConnectIgnoredTyped, SparesAll DEF ConnectIgnored, IoUnchanged, scopeVars, connVars, requestVars
<1>2. /\ H.op = "connect"
  BY DEF ConnectIgnored, Running, Dispatching, E, H, Do, Conn, Note, Signal, Entry
<1>3. (\A t \in D1 : t.op \notin {"request", "timeout"} /\ t.op # "announce") /\ \A e \in D2 : e.op # "callback"
  BY <1>2
<1>4. /\ UNCHANGED <<pending, request, requestToken>> /\ peer' \in {peer, None}
      /\ peer # None => session'[peer] = session[peer]
  BY DEF ConnectIgnored, IoUnchanged, scopeVars, connVars, requestVars
<1> HIDE DEF D1, D2
<1>5. QED
  BY <1>1, <1>3, <1>4, QuestionsKept

LEMMA ConnectBadPathAsked ==
    ASSUME Typed, Questions, ConnectBadPath
    PROVE  Questions'
<1> DEFINE D1 == {H}
           D2 == {Note("connect_failed", None, H.token)}
<1>1. Spares(ioq, ioq', D1) /\ Spares(dq, dq', D2)
  BY ConnectBadPathTyped, SparesAll DEF ConnectBadPath, IoUnchanged, scopeVars, connVars, requestVars
<1>2. /\ H.op = "connect"
      /\ Note("connect_failed", None, H.token).op = "note"
  BY DEF ConnectBadPath, Running, Dispatching, E, H, Do, Conn, Note, Signal, Entry
<1>3. (\A t \in D1 : t.op \notin {"request", "timeout"} /\ t.op # "announce") /\ \A e \in D2 : e.op # "callback"
  BY <1>2
<1>4. /\ UNCHANGED <<pending, request, requestToken>> /\ peer' \in {peer, None}
      /\ peer # None => session'[peer] = session[peer]
  BY DEF ConnectBadPath, IoUnchanged, scopeVars, connVars, requestVars
<1> HIDE DEF D1, D2
<1>5. QED
  BY <1>1, <1>3, <1>4, QuestionsKept

LEMMA ConnectBeginsAsked ==
    ASSUME Typed, Questions, NEW c \in Conns, ConnectBegins(c)
    PROVE  Questions'
<1> DEFINE D1 == {H}
           D2 == {}
<1>1. Spares(ioq, ioq', D1) /\ Spares(dq, dq', D2)
  BY ConnectBeginsTyped, SparesAll DEF ConnectBegins, IoUnchanged, scopeVars, connVars, requestVars
<1>2. /\ H.op = "connect"
  BY DEF ConnectBegins, Running, Dispatching, E, H, Do, Conn, Note, Signal, Entry
<1>3. (\A t \in D1 : t.op \notin {"request", "timeout"} /\ t.op # "announce") /\ \A e \in D2 : e.op # "callback"
  BY <1>2
<1>4. /\ UNCHANGED <<pending, request, requestToken>> /\ peer' \in {peer, None}
      /\ peer # None => session'[peer] = session[peer]
  BY DEF ConnectBegins, IoUnchanged, scopeVars, connVars, requestVars, MayConnect
<1> HIDE DEF D1, D2
<1>5. QED
  BY <1>1, <1>3, <1>4, QuestionsKept

LEMMA ConnectsAsked ==
    ASSUME Typed, Questions, NEW c \in Conns, NEW outcome \in {"connected", "failed"}, Connects(c, outcome)
    PROVE  Questions'
<1> DEFINE D1 == {Conn("connectDone", c, session[c], outcome)}
           D2 == {}
<1>1. Spares(ioq, ioq', D1) /\ Spares(dq, dq', D2)
  BY ConnectsTyped, SparesAll DEF Connects, IoUnchanged, scopeVars, connVars, requestVars
<1>2. /\ Conn("connectDone", c, session[c], outcome).op = "connectDone"
  BY DEF Connects, Running, Dispatching, E, H, Do, Conn, Note, Signal, Entry
<1>3. (\A t \in D1 : t.op \notin {"request", "timeout"} /\ t.op # "announce") /\ \A e \in D2 : e.op # "callback"
  BY <1>2
<1>4. /\ UNCHANGED <<pending, request, requestToken>> /\ peer' \in {peer, None}
      /\ peer # None => session'[peer] = session[peer]
  BY DEF Connects, IoUnchanged, scopeVars, connVars, requestVars
<1> HIDE DEF D1, D2
<1>5. QED
  BY <1>1, <1>3, <1>4, QuestionsKept

LEMMA ConnectDoneAsked ==
    ASSUME Typed, Questions, ConnectDone
    PROVE  Questions'
<1> DEFINE D1 == {H}
           D2 == {Note("connect_failed", None, H.token), Conn("verify", H.conn, H.token, "")}
<1>1. Spares(ioq, ioq', D1) /\ Spares(dq, dq', D2)
  BY ConnectDoneTyped, SparesAll DEF ConnectDone, IoUnchanged, scopeVars, connVars, requestVars
<1>2. /\ H.op = "connectDone"
      /\ Note("connect_failed", None, H.token).op = "note"
      /\ Conn("verify", H.conn, H.token, "").op = "verify"
  BY DEF ConnectDone, Running, Dispatching, E, H, Do, Conn, Note, Signal, Entry
<1>3. (\A t \in D1 : t.op \notin {"request", "timeout"} /\ t.op # "announce") /\ \A e \in D2 : e.op # "callback"
  BY <1>2
<1>4. /\ UNCHANGED <<pending, request, requestToken>> /\ peer' \in {peer, None}
      /\ peer # None => session'[peer] = session[peer]
  BY DEF ConnectDone, IoUnchanged, scopeVars, connVars, requestVars
<1> HIDE DEF D1, D2
<1>5. QED
  BY <1>1, <1>3, <1>4, QuestionsKept

LEMMA PeerStartAsked ==
    ASSUME Typed, Questions, PeerStart
    PROVE  Questions'
<1> DEFINE D1 == {H}
           D2 == {}
<1>1. Spares(ioq, ioq', D1) /\ Spares(dq, dq', D2)
  BY PeerStartTyped, SparesAll DEF PeerStart, IoUnchanged, scopeVars, connVars, requestVars
<1>2. /\ H.op = "peerStart"
  BY DEF PeerStart, Running, Dispatching, E, H, Do, Conn, Note, Signal, Entry
<1>3. (\A t \in D1 : t.op \notin {"request", "timeout"} /\ t.op # "announce") /\ \A e \in D2 : e.op # "callback"
  BY <1>2
<1>4. /\ UNCHANGED <<pending, request, requestToken>> /\ peer' \in {peer, None}
      /\ peer # None => session'[peer] = session[peer]
  BY DEF PeerStart, IoUnchanged, scopeVars, connVars, requestVars
<1> HIDE DEF D1, D2
<1>5. QED
  BY <1>1, <1>3, <1>4, QuestionsKept

LEMMA PeerCloseAsked ==
    ASSUME Typed, Questions, PeerClose
    PROVE  Questions'
<1> DEFINE D1 == {H}
           D2 == {Signal("closed", H.conn, None)}
<1>1. Spares(ioq, ioq', D1) /\ Spares(dq, dq', D2)
  BY PeerCloseTyped, SparesAll DEF PeerClose, IoUnchanged, scopeVars, connVars, requestVars
<1>2. /\ H.op = "peerClose"
      /\ Signal("closed", H.conn, None).op = "signal"
  BY DEF PeerClose, Running, Dispatching, E, H, Do, Conn, Note, Signal, Entry
<1>3. (\A t \in D1 : t.op \notin {"request", "timeout"} /\ t.op # "announce") /\ \A e \in D2 : e.op # "callback"
  BY <1>2
<1>4. /\ UNCHANGED <<pending, request, requestToken>> /\ peer' \in {peer, None}
      /\ peer # None => session'[peer] = session[peer]
  BY DEF PeerClose, IoUnchanged, scopeVars, connVars, requestVars
<1> HIDE DEF D1, D2
<1>5. QED
  BY <1>1, <1>3, <1>4, QuestionsKept

LEMMA PeerReadsAsked ==
    ASSUME Typed, Questions, NEW c \in Conns, PeerReads(c)
    PROVE  Questions'
<1> DEFINE D1 == {}
           D2 == SignalsOf(c) \ EndsOf(c)
<1>1. Spares(ioq, ioq', D1) /\ Spares(dq, dq', D2)
  BY PeerReadsTyped, SparesAll DEF PeerReads, IoUnchanged, scopeVars, connVars, requestVars
<1>2. /\ \A e \in D2 : e.op = "signal"
  BY DEF PeerReads, Running, Dispatching, E, H, Do, Conn, Note, Signal, Entry, SignalsOf
<1>3. (\A t \in D1 : t.op \notin {"request", "timeout"} /\ t.op # "announce") /\ \A e \in D2 : e.op # "callback"
  BY <1>2
<1>4. /\ UNCHANGED <<pending, request, requestToken>> /\ peer' \in {peer, None}
      /\ peer # None => session'[peer] = session[peer]
  BY DEF PeerReads, IoUnchanged, scopeVars, connVars, requestVars
<1> HIDE DEF D1, D2
<1>5. QED
  BY <1>1, <1>3, <1>4, QuestionsKept

LEMMA PeerEndsAsked ==
    ASSUME Typed, Questions, NEW c \in Conns, PeerEnds(c)
    PROVE  Questions'
<1> DEFINE D1 == {}
           D2 == {Signal("error", c, None), Signal("closed", c, None)}
<1>1. Spares(ioq, ioq', D1) /\ Spares(dq, dq', D2)
  BY PeerEndsTyped, SparesAll DEF PeerEnds, IoUnchanged, scopeVars, connVars, requestVars
<1>2. /\ Signal("error", c, None).op = "signal"
      /\ Signal("closed", c, None).op = "signal"
  BY DEF PeerEnds, Running, Dispatching, E, H, Do, Conn, Note, Signal, Entry
<1>3. (\A t \in D1 : t.op \notin {"request", "timeout"} /\ t.op # "announce") /\ \A e \in D2 : e.op # "callback"
  BY <1>2
<1>4. /\ UNCHANGED <<pending, request, requestToken>> /\ peer' \in {peer, None}
      /\ peer # None => session'[peer] = session[peer]
  BY DEF PeerEnds, IoUnchanged, scopeVars, connVars, requestVars
<1> HIDE DEF D1, D2
<1>5. QED
  BY <1>1, <1>3, <1>4, QuestionsKept

LEMMA ReleaseAsked ==
    ASSUME Typed, Questions, NEW c \in Conns, Release(c)
    PROVE  Questions'
<1> DEFINE D1 == {}
           D2 == DqAbout(c)
<1>1. Spares(ioq, ioq', D1) /\ Spares(dq, dq', D2)
  BY ReleaseTyped, SparesAll DEF Release, IoUnchanged, scopeVars, connVars, requestVars
<1>2. /\ \A e \in D2 : e.conn = c /\ e \in DqEntries
  BY DEF Release, Running, Dispatching, E, H, Do, Conn, Note, Signal, Entry, DqAbout
<1>3. (\A t \in D1 : t.op \notin {"request", "timeout"} /\ t.op # "announce") /\ \A e \in D2 : e.op # "callback"
  BY <1>2, DqRead, Names
<1>4. /\ UNCHANGED <<pending, request, requestToken>> /\ peer' \in {peer, None}
      /\ peer # None => session'[peer] = session[peer]
  BY DEF Release, IoUnchanged, scopeVars, connVars, requestVars, Typed, ConnTyped
<1> HIDE DEF D1, D2
<1>5. QED
  BY <1>1, <1>3, <1>4, QuestionsKept

LEMMA KeepAliveAsked ==
    ASSUME Typed, Questions, KeepAlive
    PROVE  Questions'
<1> DEFINE D1 == {H}
           D2 == {}
<1>1. Spares(ioq, ioq', D1) /\ Spares(dq, dq', D2)
  BY KeepAliveTyped, SparesAll DEF KeepAlive, IoUnchanged, scopeVars, connVars, requestVars
<1>2. /\ H.op = "keepAlive"
  BY DEF KeepAlive, Running, Dispatching, E, H, Do, Conn, Note, Signal, Entry
<1>3. (\A t \in D1 : t.op \notin {"request", "timeout"} /\ t.op # "announce") /\ \A e \in D2 : e.op # "callback"
  BY <1>2
<1>4. /\ UNCHANGED <<pending, request, requestToken>> /\ peer' \in {peer, None}
      /\ peer # None => session'[peer] = session[peer]
  BY DEF KeepAlive, IoUnchanged, scopeVars, connVars, requestVars
<1> HIDE DEF D1, D2
<1>5. QED
  BY <1>1, <1>3, <1>4, QuestionsKept

LEMMA DestroyAsked ==
    ASSUME Typed, Questions, Destroy
    PROVE  Questions'
<1> DEFINE D1 == {}
           D2 == {}
<1>1. Spares(ioq, ioq', D1) /\ Spares(dq, dq', D2)
  BY DestroyTyped, SparesAll DEF Destroy, IoUnchanged, scopeVars, connVars, requestVars
<1>3. (\A t \in D1 : t.op \notin {"request", "timeout"} /\ t.op # "announce") /\ \A e \in D2 : e.op # "callback"
  OBVIOUS
<1>4. /\ UNCHANGED <<pending, request, requestToken>> /\ peer' \in {peer, None}
      /\ peer # None => session'[peer] = session[peer]
  BY DEF Destroy, IoUnchanged, scopeVars, connVars, requestVars
<1> HIDE DEF D1, D2
<1>5. QED
  BY <1>1, <1>3, <1>4, QuestionsKept

LEMMA HandleConnectedSocketAsked ==
    ASSUME Typed, PendingHasPeer, Tracks, Questions, HandleConnectedSocket
    PROVE  Questions'
<1> SUFFICES ASSUME NEW r \in Requests
             PROVE  Asked(r)'
  BY DEF Questions
<1> DEFINE s == Conn("peerStart", H.conn, 0, "")
           a == Conn("announce", H.conn, H.token, "")
           n == Note("verification_failed", None, H.token)
<1>1. Asked(r) /\ UNCHANGED <<pending, request, requestToken, session>> /\ ioq # <<>>
  BY DEF HandleConnectedSocket, requestVars, Questions, Running
<1>2. \/ ioq' = Tail(ioq) \o <<>> /\ peer' = peer
      \/ pending = {}
  <2>1. CASE connecting = H.conn
    <3>1. H.conn # None
      BY Heads, IoRead, Names DEF HandleConnectedSocket, Running, H
    <3>2. QED
      BY <2>1, <3>1 DEF Tracks, PendingHasPeer
  <2>2. CASE connecting # H.conn
    BY <2>2 DEF HandleConnectedSocket, Posting
  <2>3. QED
    BY <2>1, <2>2
<1>3. Spares(ioq, ioq', {H, s, a}) /\ Spares(dq, dq', {n})
  BY HandleConnectedSocketTyped
<1>4. H.op = "verified" /\ s.op = "peerStart" /\ a.op = "announce" /\ n.op = "note"
  BY DEF HandleConnectedSocket, Running, H, Conn, Note, Entry
<1> HIDE DEF s, a, n
<1>5. AskedIo(r)
  <2>1. CASE pending = {}
    <3>1. \A t \in {H, s, a} : t.op \notin {"request", "timeout"}
      BY <1>4
    <3>2. QED
      BY <1>1, <1>3, <2>1, <3>1, AskedIoSpared
  <2>2. CASE ioq' = Tail(ioq) \o <<>>
    BY <1>1, <2>2, Said, AskedIoTaken
  <2>3. QED
    BY <1>2, <2>1, <2>2
<1>6. Has(dq', CallBacksOf(r)) => Has(dq, CallBacksOf(r))
  <2>1. CallBacksOf(r) \cap {n} = {}
    BY <1>4 DEF CallBacksOf, CallBacks
  <2>2. QED
    BY <1>3, <2>1, Spared
<1>7. QED
  BY <1>1, <1>2, <1>5, <1>6, AskedKept

LEMMA AnnounceAsked ==
    ASSUME Typed, Questions, Announce
    PROVE  Questions'
<1> SUFFICES ASSUME NEW r \in Requests
             PROVE  Asked(r)'
  BY DEF Questions
<1>1. /\ Asked(r) /\ UNCHANGED <<pending, request, requestToken, session, peer>> /\ ioq # <<>>
      /\ ioq' = Tail(ioq) \o <<>>
  BY DEF Announce, requestVars, connVars, Questions, Running, Posting
<1>2. AskedIo(r)
  BY <1>1, Said, AskedIoTaken
<1>3. Has(dq', CallBacksOf(r)) => Has(dq, CallBacksOf(r))
  <2> DEFINE n == Note("connected", H.conn, H.token)
  <2>1. Spares(dq, dq', {n}) /\ n.op = "note"
    BY AnnounceTyped DEF Note, Conn, Entry
  <2> HIDE DEF n
  <2>2. CallBacksOf(r) \cap {n} = {}
    BY <2>1 DEF CallBacksOf, CallBacks
  <2>3. QED
    BY <2>1, <2>2, Spared
<1>4. QED
  BY <1>1, <1>2, <1>3, AskedKept

LEMMA AsyncRequestAsked ==
    ASSUME Typed, Questions, NEW r \in Requests, AsyncRequest(r)
    PROVE  Questions'
<1> DEFINE m == Request("request", r)
           S == Sends(r)
           T == Timeouts(r)
<1>1. /\ m.op = "request" /\ m.req = r /\ m \in IoEntries /\ ioq \in Seq(IoEntries)
      /\ ioq' = ioq \o <<m>> /\ Spares(ioq, ioq', {m}) /\ dq' = dq
  <2>1. m.op = "request" /\ m.req = r
    BY DEF Request, Entry
  <2>2. m \in IoEntries /\ Spares(ioq, ioq', {m})
    BY AsyncRequestTyped, IoMade
  <2>3. ioq \in Seq(IoEntries) /\ ioq' = ioq \o <<m>> /\ dq' = dq
    BY DEF AsyncRequest, Post, Typed, IoTyped
  <2>4. QED
    BY <2>1, <2>2, <2>3
<1>2. /\ UNCHANGED <<pending, requestToken, session, peer>> /\ request[r] = "idle"
      /\ request' = [request EXCEPT ![r] = "posted"] /\ request \in [Requests -> RequestStates]
  BY DEF AsyncRequest, connVars, Typed, RequestTyped
<1>3. m \notin T /\ m \notin Handlers("announce", peer)
  BY <1>1 DEF Timeouts, Handlers
<1> HIDE DEF m
<1>4. Asked(r)'
  <2>1. Asked(r)
    BY DEF Questions
  <2>2. ~Has(ioq, S) /\ ~Has(ioq, T) /\ r \notin pending /\ ~Has(dq, CallBacksOf(r))
    BY <1>2, <2>1 DEF Asked
  <2> HIDE DEF S, T
  <2>3. <<m>> \in Seq(IoEntries) /\ ~Has(<<m>>, T) /\ NotBefore(<<m>>, S, S)
    BY <1>1, <1>3, Made, Literals
  <2>4. ~Has(ioq', T)
    BY <1>1, <2>2, <2>3, SentHas
  <2>5. NotBefore(ioq, S, S)
    BY <2>2, Nothing
  <2>6. NotBefore(ioq', S, S)
    BY <1>1, <2>2, <2>3, <2>5, Joined
  <2>7. QED
    BY <1>1, <1>2, <2>2, <2>4, <2>6 DEF Asked, S, T
<1>5. ASSUME NEW k \in Requests, k # r
      PROVE  Asked(k)'
  <2>1. Asked(k) /\ request'[k] = request[k] /\ dq' = dq /\ UNCHANGED <<pending, requestToken, session, peer>>
    BY <1>1, <1>2, <1>5 DEF Questions
  <2> DEFINE A == Handlers("announce", peer)
             S2 == Sends(k)
             T2 == Timeouts(k)
  <2>2. {m} \cap S2 = {} /\ {m} \cap T2 = {} /\ {m} \cap A = {}
    BY <1>1, <1>5 DEF Sends, Timeouts, Handlers
  <2>3. NotBefore(ioq, S2, S2) /\ (k \in pending /\ peer # None => NotBefore(ioq, T2, A))
    BY <2>1 DEF Asked
  <2> HIDE DEF A, S2, T2
  <2>4. /\ Has(ioq', S2) => Has(ioq, S2)
        /\ Has(ioq', T2) => Has(ioq, T2)
        /\ NotBefore(ioq', S2, S2)
    BY <1>1, <2>2, <2>3, Spared
  <2>5. k \in pending /\ peer # None => NotBefore(ioq', T2, A)
    BY <1>1, <2>2, <2>3, Spared
  <2>6. AskedIo(k)
    BY <2>4, <2>5 DEF AskedIo, A, S2, T2
  <2>7. QED
    BY <2>1, <2>6, AskedKept
<1>6. QED
  BY <1>4, <1>5 DEF Questions

LEMMA TimerExpiresAsked ==
    ASSUME Typed, Questions, NEW r \in Requests, TimerExpires(r)
    PROVE  Questions'
<1> DEFINE m == Request("timeout", r)
           T == Timeouts(r)
           A == Handlers("announce", peer)
<1>1. /\ m.op = "timeout" /\ m.req = r /\ m \in IoEntries /\ ioq \in Seq(IoEntries)
      /\ ioq' = ioq \o <<m>> /\ Spares(ioq, ioq', {m}) /\ dq' = dq /\ r \in pending
  <2>1. m.op = "timeout" /\ m.req = r
    BY DEF Request, Entry
  <2>2. m \in IoEntries /\ Spares(ioq, ioq', {m})
    BY TimerExpiresTyped, IoMade
  <2>3. ioq \in Seq(IoEntries) /\ ioq' = ioq \o <<m>> /\ dq' = dq /\ r \in pending
    BY DEF TimerExpires, Post, Typed, IoTyped
  <2>4. QED
    BY <2>1, <2>2, <2>3
<1>2. UNCHANGED <<pending, requestToken, request, session, peer>>
  BY DEF TimerExpires, connVars, requestVars
<1>3. m \notin A /\ \A k \in Requests : m \notin Sends(k) /\ (k # r => m \notin Timeouts(k))
  BY <1>1 DEF Timeouts, Handlers, Sends
<1> HIDE DEF m
<1>4. ASSUME NEW k \in Requests
      PROVE  /\ Has(ioq', Sends(k)) => Has(ioq, Sends(k))
             /\ NotBefore(ioq', Sends(k), Sends(k))
             /\ k # r => (Has(ioq', Timeouts(k)) => Has(ioq, Timeouts(k)))
  <2> DEFINE S2 == Sends(k)
             T2 == Timeouts(k)
  <2>1. {m} \cap S2 = {} /\ (k # r => {m} \cap T2 = {}) /\ NotBefore(ioq, S2, S2)
    BY <1>3 DEF Questions, Asked
  <2> HIDE DEF S2, T2
  <2>2. /\ Has(ioq', S2) => Has(ioq, S2)
        /\ NotBefore(ioq', S2, S2)
        /\ k # r => (Has(ioq', T2) => Has(ioq, T2))
    BY <1>1, <2>1, Spared
  <2>3. QED
    BY <2>2 DEF S2, T2
<1>5. ASSUME NEW k \in Requests, k \in pending, peer # None
      PROVE  NotBefore(ioq', Timeouts(k), A)
  <2> DEFINE T2 == Timeouts(k)
  <2>1. NotBefore(ioq, T2, A)
    BY <1>5 DEF Questions, Asked
  <2> HIDE DEF A, T2
  <2>2. <<m>> \in Seq(IoEntries) /\ ~Has(<<m>>, A)
    BY <1>1, <1>3, Made DEF A
  <2>3. NotBefore(<<m>>, T2, A)
    BY <2>2, Nothing
  <2>4. NotBefore(ioq', T2, A)
    BY <1>1, <2>1, <2>2, <2>3, Joined
  <2>5. QED
    BY <2>4 DEF T2
<1>6. request[r] = "pending"
  BY <1>1 DEF Questions, Asked
<1>7. ASSUME NEW k \in Requests
      PROVE  Asked(k)'
  <2>1. Asked(k)
    BY DEF Questions
  <2>2. k \in pending' /\ peer' # None =>
          /\ requestToken'[k] >= session'[peer']
          /\ NotBefore(ioq', Timeouts(k), Handlers("announce", peer'))
    BY <1>2, <1>5, <2>1 DEF Asked
  <2>3. /\ k \in pending' => request'[k] = "pending"
        /\ Has(ioq', Timeouts(k)) => request'[k] \notin {"idle", "posted"}
        /\ Has(ioq', Sends(k)) => request'[k] = "posted"
        /\ NotBefore(ioq', Sends(k), Sends(k))
        /\ Has(dq', CallBacksOf(k)) => request'[k] \in {"completed", "called"}
    BY <1>1, <1>2, <1>4, <1>6, <2>1 DEF Asked
  <2>4. QED
    BY <2>2, <2>3 DEF Asked
<1>8. QED
  BY <1>7 DEF Questions

LEMMA CompletedCalls ==
    ASSUME Typed, NEW r \in Requests, NEW reqs \in Seq(Requests), NEW entries \in Seq(DqEntries),
           ~Has(entries, CallBacks), Completing(reqs, entries), Has(dq', CallBacksOf(r))
    PROVE  Has(dq, CallBacksOf(r)) \/ (attached /\ r \in ToSet(reqs))
<1> DEFINE cbs == [i \in DOMAIN reqs |-> Request("callback", reqs[i])]
           A == CallBacksOf(r)
<1>1. /\ \A i \in DOMAIN reqs : reqs[i] \in Requests
      /\ DOMAIN reqs = 1..Len(reqs) /\ Len(reqs) \in Nat
  OBVIOUS
<1>2. \A k \in Requests : Request("callback", k) \in DqEntries /\ Request("callback", k).req = k
  BY DqMade DEF Request, Entry
<1>3. cbs \in Seq(DqEntries)
  BY <1>1, <1>2
<1>4. Has(cbs, A) => r \in ToSet(reqs)
  <2> SUFFICES ASSUME NEW i \in DOMAIN reqs, Request("callback", reqs[i]) \in A
               PROVE  r \in ToSet(reqs)
    BY DEF Has
  <2>1. Request("callback", reqs[i]).req = r
    BY DEF CallBacksOf
  <2>2. reqs[i] = r
    BY <1>1, <1>2, <2>1
  <2>3. QED
    BY <2>2 DEF ToSet
<1>5. ~Has(entries, A)
  BY DEF Has, CallBacksOf
<1>6. dq \in Seq(DqEntries) /\ Has(dq', A) /\ dq' = IF attached THEN dq \o (cbs \o entries) ELSE dq
  BY DEF Typed, DqTyped, Completing, Enqueue
<1> HIDE DEF cbs, A
<1>7. CASE attached
  <2>1. cbs \o entries \in Seq(DqEntries) /\ (Has(cbs \o entries, A) <=> Has(cbs, A) \/ Has(entries, A))
    BY <1>3, SentHas
  <2>2. Has(dq \o (cbs \o entries), A) <=> Has(dq, A) \/ Has(cbs \o entries, A)
    BY <1>6, <2>1, SentHas
  <2>3. QED
    BY <1>4, <1>5, <1>6, <1>7, <2>1, <2>2 DEF A
<1>8. CASE ~attached
  BY <1>6, <1>8 DEF A
<1>9. QED
  BY <1>7, <1>8

LEMMA CompletingAsked ==
    ASSUME Typed, NEW r \in Requests, Asked(r), AskedIo(r), NEW reqs \in Seq(Requests),
           ToSet(reqs) \subseteq pending, NEW entries \in Seq(DqEntries), ~Has(entries, CallBacks),
           Completing(reqs, entries), peer' \in {peer, None}, session' = session
    PROVE  Asked(r)'
<1>1. Has(dq', CallBacksOf(r)) => Has(dq, CallBacksOf(r)) \/ (attached /\ r \in ToSet(reqs))
  BY CompletedCalls
<1>2. /\ pending' = pending \ ToSet(reqs) /\ requestToken' = requestToken
      /\ request' = [k \in Requests |->
                       IF k \notin ToSet(reqs) THEN request[k]
                       ELSE IF attached THEN "completed" ELSE "dropped"]
  BY DEF Completing
<1>3. CASE r \notin ToSet(reqs)
  BY <1>1, <1>2, <1>3, AskedKept
<1>4. CASE r \in ToSet(reqs)
  <2>1. r \in pending /\ r \notin pending' /\ request[r] = "pending"
    BY <1>2, <1>4 DEF Asked
  <2>2. ~Has(ioq', Sends(r)) /\ ~Has(dq, CallBacksOf(r)) /\ NotBefore(ioq', Sends(r), Sends(r))
    BY <2>1 DEF Asked, AskedIo
  <2>3. request'[r] = IF attached THEN "completed" ELSE "dropped"
    BY <1>2, <1>4
  <2>4. QED
    BY <1>1, <2>1, <2>2, <2>3 DEF Asked
<1>5. QED
  BY <1>3, <1>4

\* What is posted when a peer is closed.
LEMMA ClosedPeerQuiet ==
    ASSUME Typed
    PROVE  /\ <<>> \in Seq(Quiet) /\ ClosedPeer \in Seq(Quiet)
           /\ ClosedPeer \o <<Do("keepAlive")>> \in Seq(Quiet)
<1>1. Handlers("peerClose", peer) \subseteq Quiet
  BY DEF Handlers, Quiet
<1>2. Do("keepAlive") \in Quiet
  <2>1. Do("keepAlive") \in IoEntries /\ Do("keepAlive").op = "keepAlive"
    BY IoMade DEF Do, Entry
  <2>2. QED
    BY <2>1 DEF Quiet
<1>3. ClosedPeer \in Seq(Quiet)
  BY <1>1, PeerOrdered
<1>4. <<Do("keepAlive")>> \in Seq(Quiet) /\ <<>> \in Seq(Quiet)
  BY <1>2, Said
<1>5. QED
  BY <1>3, <1>4

LEMMA NotesNoCall ==
    ASSUME NEW w, NEW c, NEW n, Note(w, c, n) \in DqEntries
    PROVE  /\ <<Note(w, c, n)>> \in Seq(DqEntries) /\ ~Has(<<Note(w, c, n)>>, CallBacks)
           /\ <<>> \in Seq(DqEntries) /\ ~Has(<<>>, CallBacks)
<1>1. Note(w, c, n).op = "note"
  BY DEF Note, Conn, Entry
<1>2. Note(w, c, n) \notin CallBacks
  BY <1>1 DEF CallBacks
<1> DEFINE e == Note(w, c, n)
<1> HIDE DEF e
<1>3. e \in DqEntries /\ e \notin CallBacks
  BY <1>2 DEF e
<1>4. QED
  BY <1>3, Made DEF e

LEMMA ForwardAsked ==
    ASSUME Typed, Questions, Forward
    PROVE  Questions'
<1> SUFFICES ASSUME NEW r \in Requests
             PROVE  Asked(r)'
  BY DEF Questions
<1>1. /\ Asked(r) /\ session' = session /\ ioq # <<>> /\ peer' \in {peer, None}
      /\ ioq' = Tail(ioq) \o <<>> /\ H \in IoEntries /\ H.token \in Nat /\ H.op = "forward"
  BY Heads, IoRead DEF Forward, Questions, Running, Posting, H
<1>2. AskedIo(r)
  BY <1>1, Said, AskedIoTaken
<1>3. CASE UNCHANGED <<dq, requestVars, peer>>
  BY <1>1, <1>2, <1>3, AskedKept DEF requestVars
<1>4. CASE ~UNCHANGED <<dq, requestVars, peer>>
  <2> DEFINE reqs == CASE H.what = "received" -> <<>>
                       [] H.what = "response" -> IF H.req \in pending THEN <<H.req>> ELSE <<>>
                       [] OTHER -> AllPending
             entries == IF H.what \in Forwarded THEN <<Note(H.what, H.conn, H.token)>> ELSE <<>>
  <2>1. Completing(reqs, entries)
    BY <1>4 DEF Forward
  <2>2. reqs \in Seq(Requests) /\ ToSet(reqs) \subseteq pending
    <3>1. pending \subseteq Requests
      BY DEF Typed, RequestTyped
    <3>2. CASE H.what = "received"
      <4>1. reqs = <<>>
        BY <3>2
      <4>2. QED
        BY <4>1, Listed
    <3>3. CASE H.what = "response"
      <4>1. \/ H.req \in pending /\ reqs = <<H.req>>
            \/ reqs = <<>>
        BY <3>3
      <4> HIDE DEF reqs
      <4>2. /\ H.req \in pending => <<H.req>> \in Seq(Requests) /\ ToSet(<<H.req>>) = {H.req}
            /\ <<>> \in Seq(Requests) /\ ToSet(<<>>) = {}
        BY <3>1, Listed
      <4>3. QED
        BY <4>1, <4>2
    <3>4. CASE H.what \notin {"received", "response"}
      <4>1. reqs = AllPending
        BY <3>4
      <4>2. QED
        BY <4>1, Listed
    <3>5. QED
      BY <3>2, <3>3, <3>4
  <2>3. entries \in Seq(DqEntries) /\ ~Has(entries, CallBacks)
    <3>1. CASE H.what \in Forwarded
      <4>1. Note(H.what, H.conn, H.token) \in DqEntries
        BY <1>1, <3>1, IoRead, DqMade DEF Forwarded
      <4>2. QED
        BY <3>1, <4>1, NotesNoCall
    <3>2. CASE H.what \notin Forwarded
      <4>1. entries = <<>>
        BY <3>2
      <4>2. QED
        BY <4>1, Made
    <3>3. QED
      BY <3>1, <3>2
  <2> HIDE DEF reqs, entries
  <2>4. QED
    BY <1>1, <1>2, <2>1, <2>2, <2>3, CompletingAsked
<1>5. QED
  BY <1>3, <1>4

LEMMA RequestTimeoutAsked ==
    ASSUME Typed, Questions, RequestTimeout
    PROVE  Questions'
<1> SUFFICES ASSUME NEW r \in Requests
             PROVE  Asked(r)'
  BY DEF Questions
<1>1. /\ Asked(r) /\ session' = session /\ ioq # <<>> /\ peer' \in {peer, None}
      /\ ioq' = Tail(ioq) \o <<>> \/ ioq' = Tail(ioq) \o ClosedPeer
      /\ H \in IoEntries /\ H.op = "timeout"
  BY Heads DEF RequestTimeout, Questions, Running, Posting, H
<1>2. AskedIo(r)
  BY <1>1, ClosedPeerQuiet, AskedIoTaken
<1>3. CASE H.req \notin pending
  <2>1. UNCHANGED <<dq, requestVars, peer>>
    BY <1>3 DEF RequestTimeout
  <2>2. QED
    BY <1>1, <1>2, <2>1, AskedKept DEF requestVars
<1>4. CASE H.req \in pending
  <2> DEFINE k == H.req
             closes == InvalidateOnError /\ peer # None
             s == IF closes THEN SetToSeq(pending \ {k}) ELSE <<>>
             reqs == <<k>> \o s
             entries == IF closes THEN <<Note("closed", peer, requestToken[k])>> ELSE <<>>
  <2>1. Completing(reqs, entries)
    BY <1>4 DEF RequestTimeout
  <2>2. reqs \in Seq(Requests) /\ ToSet(reqs) \subseteq pending
    <3>1. k \in Requests /\ k \in pending
      BY <1>4 DEF Typed, RequestTyped
    <3>2. s \in Seq(Requests) /\ ToSet(s) \subseteq pending
      BY <3>1, Listed
    <3> HIDE DEF s, k
    <3>3. ToSet(<<k>> \o s) = {k} \cup ToSet(s) /\ <<k>> \o s \in Seq(Requests)
      BY <3>1, <3>2, ToSetJoined
    <3>4. QED
      BY <3>1, <3>2, <3>3
  <2>3. entries \in Seq(DqEntries) /\ ~Has(entries, CallBacks)
    <3>1. CASE closes
      <4>1. Note("closed", peer, requestToken[k]) \in DqEntries
        BY <1>1, <3>1, IoRead, DqMade, Numbers DEF Typed, ConnTyped
      <4>2. QED
        BY <3>1, <4>1, NotesNoCall
    <3>2. CASE ~closes
      <4>1. entries = <<>>
        BY <3>2
      <4>2. QED
        BY <4>1, Made
    <3>3. QED
      BY <3>1, <3>2
  <2> HIDE DEF reqs, entries
  <2>4. QED
    BY <1>1, <1>2, <2>1, <2>2, <2>3, CompletingAsked
<1>5. QED
  BY <1>3, <1>4

LEMMA EndConnectionAsked ==
    ASSUME Typed, PendingHasPeer, Questions, EndConnection
    PROVE  Questions'
<1> SUFFICES ASSUME NEW r \in Requests
             PROVE  Asked(r)'
  BY DEF Questions
<1>1. /\ Asked(r) /\ session' = session /\ ioq # <<>> /\ peer' \in {peer, None}
      /\ ioq' = Tail(ioq) \o <<>> \/ ioq' = Tail(ioq) \o ClosedPeer
      /\ H \in IoEntries /\ H.token \in Nat
  BY Heads, IoRead DEF EndConnection, Questions, Posting, H
<1>2. AskedIo(r)
  BY <1>1, ClosedPeerQuiet, AskedIoTaken
<1>3. CASE ~Locked
  <2>1. UNCHANGED <<dq, requestVars, peer>>
    BY <1>3 DEF EndConnection
  <2>2. QED
    BY <1>1, <1>2, <2>1, AskedKept DEF requestVars
<1>4. CASE Locked
  <2> DEFINE reqs == PendingOfPeer
             entries == IF H.op = "invalidate" THEN <<Note("reconnect", None, H.token)>> ELSE <<>>
  <2>1. Completing(reqs, entries)
    BY <1>4 DEF EndConnection
  <2>2. reqs \in Seq(Requests) /\ ToSet(reqs) \subseteq pending
    BY Listed DEF PendingOfPeer
  <2>3. entries \in Seq(DqEntries) /\ ~Has(entries, CallBacks)
    <3>1. CASE H.op = "invalidate"
      <4>1. Note("reconnect", None, H.token) \in DqEntries
        BY <1>1, DqMade
      <4>2. QED
        BY <3>1, <4>1, NotesNoCall
    <3>2. CASE H.op # "invalidate"
      <4>1. entries = <<>>
        BY <3>2
      <4>2. QED
        BY <4>1, Made
    <3>3. QED
      BY <3>1, <3>2
  <2> HIDE DEF reqs, entries
  <2>4. QED
    BY <1>1, <1>2, <2>1, <2>2, <2>3, CompletingAsked
<1>5. QED
  BY <1>3, <1>4

LEMMA ShutdownAsked ==
    ASSUME Typed, Questions, Shutdown
    PROVE  Questions'
<1> SUFFICES ASSUME NEW r \in Requests
             PROVE  Asked(r)'
  BY DEF Questions
<1>1. /\ Asked(r) /\ session' = session /\ ioq # <<>> /\ peer' \in {peer, None}
      /\ ioq' = Tail(ioq) \o (ClosedPeer \o <<Do("keepAlive")>>)
  BY DEF Shutdown, Questions, Posting, Running
<1>2. AskedIo(r)
  BY <1>1, ClosedPeerQuiet, AskedIoTaken
<1>3. /\ PendingOfPeer \in Seq(Requests) /\ ToSet(PendingOfPeer) \subseteq pending
      /\ Completing(PendingOfPeer, <<>>)
  BY Listed DEF PendingOfPeer, Shutdown
<1>4. <<>> \in Seq(DqEntries) /\ ~Has(<<>>, CallBacks)
  BY Made
<1>5. QED
  BY <1>1, <1>2, <1>3, <1>4, CompletingAsked

LEMMA CallBackAsked ==
    ASSUME Typed, Questions, CallBack
    PROVE  Questions'
<1>1. /\ UNCHANGED <<pending, requestToken, session, peer, ioq>> /\ dq # <<>>
      /\ request' = [request EXCEPT ![E.req] = "called"] /\ request \in [Requests -> RequestStates]
      /\ E \in CallBacksOf(E.req) /\ E.op = "callback" /\ E.req \in Requests
  <2>1. /\ E \in DqEntries /\ E.op = "callback" /\ dq # <<>> /\ E.req \in Requests
    BY Heads, DqRead DEF CallBack, Dispatching, E
  <2>2. E \in CallBacks
    <3>1. E \notin Orders /\ E \notin AttemptNotes /\ E \notin PeerNotes
      BY <2>1 DEF Orders, AttemptNotes, PeerNotes
    <3>2. E \notin Verifications /\ E \notin PeerSignals
      BY <2>1 DEF Verifications, PeerSignals
    <3>3. QED
      BY <2>1, <3>1, <3>2 DEF DqEntries
  <2>3. QED
    BY <2>1, <2>2 DEF CallBack, connVars, CallBacksOf, Typed, RequestTyped
<1>2. Has(dq, CallBacksOf(E.req))
  BY <1>1, HeadHas
<1>3. \A r \in Requests : Has(dq', CallBacksOf(r)) => Has(dq, CallBacksOf(r))
  <2>1. dq' = Tail(dq) \o <<>> /\ dq \in Seq(DqEntries) /\ <<>> \in Seq(DqEntries)
    BY DEF CallBack, Dispatched, Typed, DqTyped
  <2>2. \A A : Has(dq', A) => Has(dq, A)
    BY <1>1, <2>1, TakenHas, Made
  <2>3. QED
    BY <2>2
<1>4. ASSUME NEW r \in Requests
      PROVE  Asked(r)'
  <2>1. Asked(r) /\ AskedIo(r)
    BY <1>1 DEF Questions, Asked, AskedIo
  <2>2. CASE r # E.req
    <3>1. request'[r] = request[r]
      BY <1>1, <2>2
    <3>2. QED
      BY <1>1, <1>3, <2>1, <3>1, AskedKept
  <2>3. CASE r = E.req
    <3>1. request[r] \in {"completed", "called"} /\ request'[r] = "called"
      BY <1>1, <1>2, <2>1, <2>3 DEF Asked
    <3>2. r \notin pending /\ ~Has(ioq, Sends(r)) /\ NotBefore(ioq, Sends(r), Sends(r))
      BY <2>1, <3>1 DEF Asked
    <3>3. QED
      BY <1>1, <3>1, <3>2 DEF Asked
  <2>4. QED
    BY <2>2, <2>3
<1>5. QED
  BY <1>4 DEF Questions

LEMMA DetachAsked ==
    ASSUME Typed, Questions, Detach
    PROVE  Questions'
<1>1. /\ UNCHANGED <<pending, requestToken, session, peer, ioq>>
      /\ request' = [r \in Requests |-> IF request[r] = "completed" THEN "dropped" ELSE request[r]]
      /\ ~Has(dq', Scheduled)
  BY DetachTyped DEF Detach, connVars
<1>2. \A r \in Requests : ~Has(dq', CallBacksOf(r))
  BY <1>1 DEF Has, CallBacksOf, CallBacks, Scheduled, DqEntries
<1>3. ASSUME NEW r \in Requests
      PROVE  Asked(r)'
  <2>1. Asked(r) /\ (request[r] # "completed" => request'[r] = request[r])
        /\ (request[r] = "completed" => request'[r] = "dropped")
    BY <1>1 DEF Questions
  <2>2. QED
    BY <1>1, <1>2, <2>1 DEF Asked
<1>4. QED
  BY <1>3 DEF Questions

LEMMA SendRequestAsked ==
    ASSUME Typed, Questions, SendRequest
    PROVE  Questions'
<1>0. PICK k \in Requests : k = H.req
  BY Heads, IoRead DEF SendRequest, Running, H
<1>1. /\ ioq # <<>> /\ H.op = "request" /\ H \in IoEntries /\ ioq' = Tail(ioq) \o <<>>
      /\ UNCHANGED <<session, peer>> /\ ioq \in Seq(IoEntries) /\ H \in Sends(k)
  <2>1. ioq # <<>> /\ H.op = "request" /\ H \in IoEntries
    BY Heads DEF SendRequest, Running, H
  <2>2. QED
    BY <1>0, <2>1 DEF SendRequest, Posting, connVars, Typed, IoTyped, Sends
<1>2. Asked(k) /\ request[k] = "posted" /\ ~Has(ioq, Timeouts(k)) /\ ~Has(dq, CallBacksOf(k)) /\ k \notin pending
  <2>1. Asked(k) /\ Has(ioq, Sends(k))
    BY <1>1, HeadHas DEF Questions
  <2>2. QED
    BY <2>1 DEF Asked
<1>3. ~Has(ioq', Sends(k)) /\ ~Has(ioq', Timeouts(k))
  <2> DEFINE S == Sends(k)
             T == Timeouts(k)
  <2>1. NotBefore(ioq, S, S) /\ ~Has(ioq, T) /\ Head(ioq) \in S
    BY <1>1, <1>2 DEF Asked, H
  <2> HIDE DEF S, T
  <2>2. <<>> \in Seq(IoEntries) /\ ~Has(<<>>, S) /\ ~Has(<<>>, T)
    BY Made
  <2>3. ~Has(ioq', S)
    BY <1>1, <2>1, <2>2, HeadGone
  <2>4. ~Has(ioq', T)
    BY <1>1, <2>1, <2>2, TakenHas
  <2>5. QED
    BY <2>3, <2>4 DEF S, T
<1>4. /\ \A r \in Requests : r # k => /\ request'[r] = request[r] /\ requestToken'[r] = requestToken[r]
                                      /\ r \in pending' => r \in pending
      /\ \/ k \notin pending' /\ request'[k] = "dropped" /\ dq' = dq
         \/ k \notin pending' /\ request'[k] = "completed" /\ attached
         \/ k \notin pending' /\ request'[k] = "dropped" /\ ~attached /\ dq' = dq
         \/ request'[k] = "pending" /\ requestToken'[k] = generation /\ dq' = dq
  <2>1. request \in [Requests -> RequestStates] /\ requestToken \in [Requests -> 0..generation]
    BY DEF Typed, RequestTyped
  <2>2. CASE ~Locked
    BY <1>0, <1>1, <1>2, <2>1, <2>2 DEF SendRequest
  <2>3. CASE Locked /\ peer = None
    BY <1>1, <1>2, <2>1, <2>3, <1>0 DEF SendRequest, Enqueue
  <2>4. CASE Locked /\ peer # None
    BY <1>1, <1>2, <2>1, <2>4, <1>0 DEF SendRequest
  <2>5. QED
    BY <2>2, <2>3, <2>4
<1>5. \A r \in Requests : r # k => (Has(dq', CallBacksOf(r)) => Has(dq, CallBacksOf(r)))
  <2> DEFINE e == Request("callback", k)
  <2>1. e.req = k /\ e \in DqEntries
    BY <1>1, DqMade DEF Request, Entry
  <2>2. dq' = dq \/ dq' = dq \o <<e>>
    BY <1>0 DEF SendRequest, Enqueue
  <2> HIDE DEF e
  <2>3. ASSUME NEW r \in Requests, r # k, Has(dq', CallBacksOf(r))
        PROVE  Has(dq, CallBacksOf(r))
    <3> DEFINE A == CallBacksOf(r)
    <3>1. e \notin A
      BY <2>1, <2>3 DEF CallBacksOf
    <3>2. Has(dq', A)
      BY <2>3
    <3> HIDE DEF A
    <3>3. <<e>> \in Seq(DqEntries) /\ ~Has(<<e>>, A) /\ dq \in Seq(DqEntries)
      BY <2>1, <3>1, Made DEF Typed, DqTyped
    <3>4. Has(dq, A)
      BY <2>2, <3>2, <3>3, SentHas
    <3>5. QED
      BY <3>4 DEF A
  <2>4. QED
    BY <2>3
<1>6. ASSUME NEW r \in Requests
      PROVE  Asked(r)'
  <2>1. CASE r # k
    <3>1. Asked(r)
      BY DEF Questions
    <3>2. AskedIo(r)
      BY <1>1, <3>1, Said, AskedIoTaken
    <3>3. QED
      BY <1>1, <1>4, <1>5, <2>1, <3>1, <3>2, AskedKept
  <2>2. CASE r = k
    <3>1. NotBefore(ioq', Sends(k), Sends(k)) /\ \A c : NotBefore(ioq', Timeouts(k), Handlers("announce", c))
      BY <1>3, Nothing
    <3>2. peer' # None => generation >= session'[peer']
      BY <1>1, Numbers DEF Typed, ConnTyped
    <3>3. Has(dq', CallBacksOf(k)) => request'[k] \in {"completed", "called"}
      BY <1>2, <1>4
    <3>4. /\ k \in pending' => request'[k] = "pending" /\ requestToken'[k] = generation
      BY <1>4
    <3>5. Asked(k)'
      BY <1>3, <3>1, <3>2, <3>3, <3>4 DEF Asked
    <3>6. QED
      BY <2>2, <3>5
  <2>3. QED
    BY <2>1, <2>2
<1>7. QED
  BY <1>6 DEF Questions

LEMMA QuestionsInit == Init => Questions
BY DEF Init, Questions, Asked, Has, NotBefore

LEMMA IdleQuestions ==
    ASSUME Questions, UNCHANGED vars
    PROVE  Questions'
BY DEF vars, requestVars, connVars, Questions, Asked

LEMMA QuestionsStep == Typed /\ PendingHasPeer /\ Tracks /\ Questions /\ [Next]_vars => Questions'
<1> SUFFICES ASSUME Typed, PendingHasPeer, Tracks, Questions, [Next]_vars
             PROVE  Questions'
  OBVIOUS
<1>1. CASE \E op \in {"start", "stop", "invalidate"} : Call(op)
  BY <1>1, CallAsked
<1>2. CASE \E r \in Requests : AsyncRequest(r) \/ TimerExpires(r)
  BY <1>2, AsyncRequestAsked, TimerExpiresAsked
<1>3. CASE DispatcherStep \/ Reconnect \/ Detach
  BY <1>3, StartAsked, EndSessionAsked, PostEndOfSessionAsked, NotifyAsked, VerifyAsked,
     DispatchSignalAsked, DebounceAsked, CallBackAsked, PostShutdownAsked, ReconnectAsked, DetachAsked
     DEF DispatcherStep
<1>4. CASE IoStep \/ Destroy
  BY <1>4, ConnectIgnoredAsked, ConnectBadPathAsked, ConnectBeginsAsked, ConnectDoneAsked,
     HandleConnectedSocketAsked, AnnounceAsked, PeerStartAsked, PeerCloseAsked, ForwardAsked,
     SendRequestAsked, RequestTimeoutAsked, EndConnectionAsked, ShutdownAsked, KeepAliveAsked,
     DestroyAsked DEF IoStep
<1>5. CASE \E c \in Conns : \/ \E outcome \in {"connected", "failed"} : Connects(c, outcome)
                            \/ PeerReads(c) \/ PeerEnds(c) \/ Release(c)
  BY <1>5, ConnectsAsked, PeerReadsAsked, PeerEndsAsked, ReleaseAsked
<1>6. CASE UNCHANGED vars
  BY <1>6, IdleQuestions
<1>7. QED
  BY <1>1, <1>2, <1>3, <1>4, <1>5, <1>6 DEF Next, Destroyed

-----------------------------------------------------------------------------
\* What the application is told.

LEMMA Subjects ==
    ASSUME NEW g, NEW c
    PROVE  /\ Trials(g) \subseteq Notices(g) /\ Closing(g) \subseteq Notices(g) /\ Opening(g) \subseteq Notices(g)
           /\ Turning(g) \subseteq Notices(g) /\ OpeningOf(c, g) \subseteq Notices(g)
           /\ ClosingOf(c, g) \subseteq Notices(g) /\ DataOf(c, g) \subseteq Notices(g)
           /\ OpeningOf(c, g) \subseteq Turning(g) /\ Closing(g) \subseteq Turning(g)
           /\ Notices(g) \subseteq DqEntries
BY DEF Trials, Closing, Opening, Turning, OpeningOf, ClosingOf, DataOf, Notices

\* A step of the queue that is about no notification of the session.
LEMMA Mute ==
    ASSUME NEW q, NEW r, NEW a, NEW g, Undisturbed(q, r, Notices(g))
    PROVE  /\ TurnsIn(q, a, g) => TurnsIn(r, a, g)
           /\ \A c : KnowsOf(q, a, g, c) => KnowsOf(r, a, g, c)
           /\ KnowsNone(q, a, g) => KnowsNone(r, a, g)
           /\ Has(r, Opening(g)) => Has(q, Opening(g))
<1>1. \A A, B, C \in SUBSET Notices(g) : \A free : Follows(q, A, free, B, C) => Follows(r, A, free, B, C)
  BY DEF Undisturbed
<1>2. \A A, B \in SUBSET Notices(g) : (Has(r, A) <=> Has(q, A)) /\ (Outlasts(q, A, B) => Outlasts(r, A, B))
  BY DEF Undisturbed
<1>3. TurnsIn(q, a, g) => TurnsIn(r, a, g)
  BY <1>1, Subjects DEF TurnsIn
<1>4. /\ \A c : KnowsOf(q, a, g, c) => KnowsOf(r, a, g, c)
      /\ KnowsNone(q, a, g) => KnowsNone(r, a, g)
  BY <1>2, Subjects DEF KnowsOf, KnowsNone
<1>5. Has(r, Opening(g)) => Has(q, Opening(g))
  BY <1>2, Subjects
<1>6. QED
  BY <1>3, <1>4, <1>5

\* Nothing is said.
LEMMA Speechless ==
    ASSUME NEW q, NEW a, NEW g, ~Has(q, Notices(g))
    PROVE  TurnsIn(q, a, g) /\ (a = None => KnowsNone(q, a, g)) /\ ~Has(q, Opening(g))
<1>1. \A A \in SUBSET Notices(g) : ~Has(q, A) /\ \A free, B, C : Follows(q, A, free, B, C)
  BY DEF Has, Follows
<1>2. QED
  BY <1>1, Subjects DEF TurnsIn, KnowsNone

\* One more notification, said to an application that knows where it stands.
LEMMA OneMore ==
    ASSUME NEW q \in Seq(DqEntries), NEW e \in DqEntries, NEW a, NEW g, TurnsIn(q, a, g),
           e \in Trials(g) => KnowsNone(q, a, g),
           \A c \in Conns : e \in DataOf(c, g) => KnowsOf(q, a, g, c),
           ~InvalidateOnError => \A c \in Conns : e \in ClosingOf(c, g) => KnowsOf(q, a, g, c)
    PROVE  /\ TurnsIn(q \o <<e>>, a, g)
           /\ \A c : e \in OpeningOf(c, g) \/ (e \notin Turning(g) /\ KnowsOf(q, a, g, c)) =>
                       KnowsOf(q \o <<e>>, a, g, c)
           /\ e \in Closing(g) \/ (e \notin Turning(g) /\ KnowsNone(q, a, g)) =>
                KnowsNone(q \o <<e>>, a, g)
           /\ Has(q \o <<e>>, Opening(g)) => Has(q, Opening(g)) \/ e \in Opening(g)
<1>1. <<e>> \in Seq(DqEntries) /\ \A A : Has(<<e>>, A) <=> e \in A
  BY Said, Literals
<1>2. ASSUME NEW X, NEW Y, NEW O, NEW free, Follows(q, X, free, Y, O),
             e \in X => Outlasts(q, Y, O) \/ (e \in free /\ ~Has(q, O))
      PROVE  Follows(q \o <<e>>, X, free, Y, O)
  BY <1>1, <1>2, FollowsJoined
<1>3. TurnsIn(q \o <<e>>, a, g)
  <2>1. Follows(q \o <<e>>, Trials(g), Free(a = None), Closing(g), Turning(g))
    <3>1. e \in Trials(g) => Outlasts(q, Closing(g), Turning(g)) \/ (e \in Free(a = None) /\ ~Has(q, Turning(g)))
      BY DEF KnowsNone, Free
    <3>2. Follows(q, Trials(g), Free(a = None), Closing(g), Turning(g))
      BY DEF TurnsIn
    <3>3. QED
      BY <1>2, <3>1, <3>2
  <2>2. ASSUME NEW c \in Conns
        PROVE  /\ Follows(q \o <<e>>, DataOf(c, g), Free(a = c), OpeningOf(c, g), Turning(g))
               /\ ~InvalidateOnError =>
                    Follows(q \o <<e>>, ClosingOf(c, g), Free(a = c), OpeningOf(c, g), Turning(g))
    <3>1. e \in DataOf(c, g) => Outlasts(q, OpeningOf(c, g), Turning(g)) \/ (e \in Free(a = c) /\ ~Has(q, Turning(g)))
      BY DEF KnowsOf, Free
    <3>2. ~InvalidateOnError /\ e \in ClosingOf(c, g) =>
            Outlasts(q, OpeningOf(c, g), Turning(g)) \/ (e \in Free(a = c) /\ ~Has(q, Turning(g)))
      BY DEF KnowsOf, Free
    <3>3. /\ Follows(q, DataOf(c, g), Free(a = c), OpeningOf(c, g), Turning(g))
          /\ ~InvalidateOnError => Follows(q, ClosingOf(c, g), Free(a = c), OpeningOf(c, g), Turning(g))
      BY DEF TurnsIn
    <3>4. QED
      BY <1>2, <3>1, <3>2, <3>3
  <2>3. QED
    BY <2>1, <2>2 DEF TurnsIn
<1>4. ASSUME NEW A, NEW B
      PROVE  /\ Has(q \o <<e>>, A) <=> Has(q, A) \/ e \in A
             /\ Outlasts(q \o <<e>>, A, B) <=> e \in A \/ (Outlasts(q, A, B) /\ e \notin B)
  <2>1. Outlasts(<<e>>, A, B) <=> e \in A
    BY Literals
  <2>2. /\ Has(q \o <<e>>, A) <=> Has(q, A) \/ Has(<<e>>, A)
        /\ Outlasts(q \o <<e>>, A, B) <=> \/ Outlasts(<<e>>, A, B)
                                          \/ Outlasts(q, A, B) /\ ~Has(<<e>>, B)
    BY <1>1, Joined
  <2>3. QED
    BY <1>1, <2>1, <2>2
<1>5. QED
  BY <1>3, <1>4 DEF KnowsOf, KnowsNone

\* The next notification is heard.
AppAfter(a, g, e) == IF e \in Opening(g) THEN e.conn ELSE IF e \in Closing(g) THEN None ELSE a

LEMMA OneLess ==
    ASSUME NEW q \in Seq(DqEntries), q # <<>>, NEW a, NEW g, TurnsIn(q, a, g),
           NEW b, b = AppAfter(a, g, Head(q))
    PROVE  /\ TurnsIn(Tail(q), b, g)
           /\ \A c : KnowsOf(q, a, g, c) => KnowsOf(Tail(q), b, g, c)
           /\ KnowsNone(q, a, g) => KnowsNone(Tail(q), b, g)
           /\ Has(Tail(q), Opening(g)) => Has(q, Opening(g))
           /\ Head(q) \in Trials(g) => a = None
           /\ \A c \in Conns : Head(q) \in DataOf(c, g) => a = c
           /\ ~InvalidateOnError => \A c \in Conns : Head(q) \in ClosingOf(c, g) => a = c
<1> DEFINE e == Head(q)
           t == Tail(q)
<1>1. \A X, Y, O, free : Follows(q, X, free, Y, O) =>
        /\ e \in X => e \in free
        /\ e \in Y => \A wide : X \subseteq wide => Follows(t, X, wide, Y, O)
        /\ e \in O \ Y => \A wide : Follows(t, X, wide, Y, O)
        /\ e \notin O \cup Y => Follows(t, X, free, Y, O)
  <2> SUFFICES ASSUME NEW X, NEW Y, NEW O, NEW free, Follows(q, X, free, Y, O)
               PROVE  /\ e \in X => e \in free
                      /\ e \in Y => \A wide : X \subseteq wide => Follows(t, X, wide, Y, O)
                      /\ e \in O \ Y => \A wide : Follows(t, X, wide, Y, O)
                      /\ e \notin O \cup Y => Follows(t, X, free, Y, O)
    OBVIOUS
  <2>1. /\ e \in X => e \in free
        /\ e \in Y => \A wide : (X \cap DqEntries) \subseteq wide => Follows(t, X, wide, Y, O)
        /\ e \in O \ Y => Follows(t, X, {}, Y, O)
        /\ e \notin O \cup Y => Follows(t, X, free, Y, O)
    BY FollowsPopped
  <2>2. Follows(t, X, {}, Y, O) => \A wide : Follows(t, X, wide, Y, O)
    BY DEF Follows
  <2>3. QED
    BY <2>1, <2>2
<1>2. \A A, B : /\ Has(q, A) <=> e \in A \/ Has(t, A)
                /\ Outlasts(q, A, B) <=> Outlasts(t, A, B) \/ (e \in A /\ ~Has(t, B))
  <2> SUFFICES ASSUME NEW A, NEW B
               PROVE  /\ Has(q, A) <=> e \in A \/ Has(t, A)
                      /\ Outlasts(q, A, B) <=> Outlasts(t, A, B) \/ (e \in A /\ ~Has(t, B))
    OBVIOUS
  <2>1. QED
    BY Popped
<1>3. e \in DqEntries
  OBVIOUS
<1> HIDE DEF e, t
<1>4. /\ Follows(q, Trials(g), Free(a = None), Closing(g), Turning(g))
      /\ \A c \in Conns :
           /\ Follows(q, DataOf(c, g), Free(a = c), OpeningOf(c, g), Turning(g))
           /\ ~InvalidateOnError => Follows(q, ClosingOf(c, g), Free(a = c), OpeningOf(c, g), Turning(g))
  BY DEF TurnsIn
<1>5. b = AppAfter(a, g, e)
  BY DEF e
<1>7. Follows(t, Trials(g), Free(b = None), Closing(g), Turning(g))
  <2>1. CASE e \in Closing(g)
    <3>1. b = None
      BY <1>5, <2>1 DEF AppAfter, Opening, Closing
    <3>2. Trials(g) \subseteq Free(b = None)
      BY <3>1, Subjects DEF Free
    <3>3. QED
      BY <1>1, <1>4, <2>1, <3>2
  <2>2. CASE e \in Opening(g)
    <3>1. e \in Turning(g) \ Closing(g)
      BY <2>2 DEF Turning, Opening, Closing
    <3>2. QED
      BY <1>1, <1>4, <3>1
  <2>3. CASE e \notin Turning(g)
    <3>1. b = a /\ e \notin Turning(g) \cup Closing(g)
      BY <1>5, <2>3 DEF AppAfter, Turning
    <3>2. QED
      BY <1>1, <1>4, <3>1
  <2>4. QED
    BY <2>1, <2>2, <2>3 DEF Turning
<1>8. ASSUME NEW c \in Conns, NEW X \in SUBSET Notices(g),
             Follows(q, X, Free(a = c), OpeningOf(c, g), Turning(g))
      PROVE  Follows(t, X, Free(b = c), OpeningOf(c, g), Turning(g))
  <2>1. CASE e \in OpeningOf(c, g)
    <3>1. b = c
      BY <1>5, <2>1 DEF AppAfter, OpeningOf
    <3>2. X \subseteq Free(b = c)
      BY <3>1, Subjects DEF Free
    <3>3. QED
      BY <1>1, <1>8, <2>1, <3>2
  <2>2. CASE e \in Turning(g) \ OpeningOf(c, g)
    BY <1>1, <1>8, <2>2
  <2>3. CASE e \notin Turning(g)
    <3>1. b = a /\ e \notin Turning(g) \cup OpeningOf(c, g)
      BY <1>5, <2>3, Subjects DEF AppAfter, Turning
    <3>2. QED
      BY <1>1, <1>8, <3>1
  <2>4. QED
    BY <2>1, <2>2, <2>3
<1>9. TurnsIn(t, b, g)
  <2>1. \A c \in Conns : DataOf(c, g) \in SUBSET Notices(g) /\ ClosingOf(c, g) \in SUBSET Notices(g)
    BY Subjects
  <2>2. \A c \in Conns : Follows(t, DataOf(c, g), Free(b = c), OpeningOf(c, g), Turning(g))
    BY <1>4, <1>8, <2>1
  <2>3. ~InvalidateOnError =>
          \A c \in Conns : Follows(t, ClosingOf(c, g), Free(b = c), OpeningOf(c, g), Turning(g))
    BY <1>4, <1>8, <2>1
  <2>4. QED
    BY <1>7, <2>2, <2>3 DEF TurnsIn
<1>10. \A c : KnowsOf(q, a, g, c) => KnowsOf(t, b, g, c)
  <2> SUFFICES ASSUME NEW c, KnowsOf(q, a, g, c)
               PROVE  KnowsOf(t, b, g, c)
    OBVIOUS
  <2>1. CASE e \in OpeningOf(c, g)
    <3>1. b = c /\ e \in Turning(g)
      BY <1>5, <2>1, Subjects DEF AppAfter, OpeningOf
    <3>2. QED
      BY <1>2, <3>1 DEF KnowsOf
  <2>2. CASE e \notin OpeningOf(c, g)
    <3>1. e \notin Turning(g) => b = a
      BY <1>5 DEF AppAfter, Turning
    <3>2. QED
      BY <1>2, <2>2, <3>1 DEF KnowsOf
  <2>3. QED
    BY <2>1, <2>2
<1>11. KnowsNone(q, a, g) => KnowsNone(t, b, g)
  <2>1. e \notin Turning(g) => b = a
    BY <1>5 DEF AppAfter, Turning
  <2>2. e \in Closing(g) => b = None
    BY <1>5 DEF AppAfter, Opening, Closing
  <2>3. QED
    BY <1>2, <2>1, <2>2 DEF KnowsNone
<1>12. /\ e \in Trials(g) => a = None
       /\ \A c \in Conns : e \in DataOf(c, g) => a = c
       /\ ~InvalidateOnError => \A c \in Conns : e \in ClosingOf(c, g) => a = c
  <2>1. \A X, Y, O, free : Follows(q, X, free, Y, O) => (e \in X => e \in free)
    BY <1>1
  <2>2. /\ e \in Trials(g) => e \in Free(a = None)
        /\ \A c \in Conns : e \in DataOf(c, g) => e \in Free(a = c)
    BY <1>4, <2>1
  <2>3. ~InvalidateOnError => \A c \in Conns : e \in ClosingOf(c, g) => e \in Free(a = c)
    BY <1>4, <2>1
  <2>4. QED
    BY <2>2, <2>3 DEF Free
<1>13. Has(t, Opening(g)) => Has(q, Opening(g))
  BY <1>2
<1>14. QED
  BY <1>9, <1>10, <1>11, <1>12, <1>13 DEF e, t

\* A step that tells the application nothing, of a connection that stays what it is.
LEMMA ToldKept ==
    ASSUME Told, UNCHANGED <<generation, app, attached>>, running => running',
           Undisturbed(dq, dq', Notices(generation)), \A c \in Conns : Heard(c)',
           attached => \A c \in Conns : Announced(c)' <=> Announced(c)
    PROVE  Told'
<1> DEFINE g == generation
<1>1. /\ TurnsIn(dq, app, g) => TurnsIn(dq', app, g)
      /\ \A c : KnowsOf(dq, app, g, c) => KnowsOf(dq', app, g, c)
      /\ KnowsNone(dq, app, g) => KnowsNone(dq', app, g)
      /\ Has(dq', Opening(g)) => Has(dq, Opening(g))
  BY Mute
<1>2. TurnsIn(dq, app, g)
  BY DEF Told, Turns
<1>3. attached => /\ \A c \in Conns : Announced(c) => KnowsOf(dq, app, g, c)
                  /\ (\A c \in Conns : ~Announced(c)) => KnowsNone(dq, app, g)
  BY DEF Told, UpToDate, ToldOf, ToldOfNone
<1>4. ~running => app = None /\ ~Has(dq, Opening(g))
  BY DEF Told, Untold
<1>5. Turns' /\ Untold'
  BY <1>1, <1>2, <1>4 DEF Turns, Untold
<1>6. attached' => UpToDate'
  BY <1>1, <1>3 DEF UpToDate, ToldOf, ToldOfNone
<1>7. QED
  BY <1>5, <1>6 DEF Told

\* A step that tells it one thing.
LEMMA ToldMore ==
    ASSUME Told, UNCHANGED <<generation, app, running, attached>>,
           NEW q \in Seq(DqEntries), Undisturbed(dq, q, Notices(generation)),
           NEW e \in DqEntries, dq' = q \o <<e>>, \A c \in Conns : Heard(c)',
           e \in Trials(generation) => ToldOfNone,
           \A c \in Conns : e \in DataOf(c, generation) => ToldOf(c),
           ~InvalidateOnError => \A c \in Conns : e \in ClosingOf(c, generation) => ToldOf(c),
           e \in Opening(generation) => running,
           \A c \in Conns : Announced(c)' =>
             e \in OpeningOf(c, generation) \/ (e \notin Turning(generation) /\ ToldOf(c)),
           (\A c \in Conns : ~Announced(c)') =>
             e \in Closing(generation) \/ (e \notin Turning(generation) /\ ToldOfNone)
    PROVE  Told'
<1> DEFINE g == generation
<1>1. /\ TurnsIn(dq, app, g) => TurnsIn(q, app, g)
      /\ \A c : KnowsOf(dq, app, g, c) => KnowsOf(q, app, g, c)
      /\ KnowsNone(dq, app, g) => KnowsNone(q, app, g)
      /\ Has(q, Opening(g)) => Has(dq, Opening(g))
  BY Mute
<1>2. TurnsIn(q, app, g)
  BY <1>1 DEF Told, Turns
<1>3. /\ e \in Trials(g) => KnowsNone(q, app, g)
      /\ \A c \in Conns : e \in DataOf(c, g) => KnowsOf(q, app, g, c)
      /\ ~InvalidateOnError => \A c \in Conns : e \in ClosingOf(c, g) => KnowsOf(q, app, g, c)
  BY <1>1 DEF ToldOf, ToldOfNone
<1>4. /\ TurnsIn(q \o <<e>>, app, g)
      /\ \A c : e \in OpeningOf(c, g) \/ (e \notin Turning(g) /\ KnowsOf(q, app, g, c)) =>
                  KnowsOf(q \o <<e>>, app, g, c)
      /\ e \in Closing(g) \/ (e \notin Turning(g) /\ KnowsNone(q, app, g)) =>
           KnowsNone(q \o <<e>>, app, g)
      /\ Has(q \o <<e>>, Opening(g)) => Has(q, Opening(g)) \/ e \in Opening(g)
  BY <1>2, <1>3, OneMore
<1>5. /\ \A c \in Conns : Announced(c)' => KnowsOf(dq', app, g, c)
      /\ (\A c \in Conns : ~Announced(c)') => KnowsNone(dq', app, g)
  BY <1>1, <1>4 DEF ToldOf, ToldOfNone
<1>6. Turns' /\ UpToDate'
  BY <1>4, <1>5 DEF Turns, UpToDate, ToldOf, ToldOfNone
<1>7. Untold'
  BY <1>1, <1>4 DEF Told, Untold
<1>8. QED
  BY <1>6, <1>7 DEF Told

\* The announcements and forwards that wait for the I/O thread.
LEMMA HeardSpared ==
    ASSUME Told, NEW D, Spares(ioq, ioq', D), \A t \in D : t.op \notin {"announce", "forward"}
    PROVE  \A c \in Conns : /\ Heard(c)'
                            /\ Has(ioq', Handlers("announce", c)) <=> Has(ioq, Handlers("announce", c))
<1> SUFFICES ASSUME NEW c \in Conns
             PROVE  /\ Heard(c)'
                    /\ Has(ioq', Handlers("announce", c)) <=> Has(ioq, Handlers("announce", c))
  OBVIOUS
<1> DEFINE A == Handlers("announce", c)
           F == Handlers("forward", c)
<1>1. A \cap D = {} /\ F \cap D = {}
  BY DEF Handlers
<1>2. NotBefore(ioq, A, A) /\ NotBefore(ioq, F, A)
  BY DEF Told, Heard
<1> HIDE DEF A, F
<1>3. NotBefore(ioq', A, A) /\ NotBefore(ioq', F, A) /\ (Has(ioq', A) <=> Has(ioq, A))
  BY <1>1, <1>2, Spared
<1>4. QED
  BY <1>3 DEF Heard, A, F

LEMMA HeardTaken ==
    ASSUME Typed, Told, ioq # <<>>, ioq' = Tail(ioq) \o <<>>
    PROVE  \A c \in Conns :
             /\ Heard(c)'
             /\ H \notin Handlers("announce", c) =>
                  (Has(ioq', Handlers("announce", c)) <=> Has(ioq, Handlers("announce", c)))
             /\ H \in Handlers("announce", c) \cup Handlers("forward", c) =>
                  ~Has(ioq', Handlers("announce", c))
<1> SUFFICES ASSUME NEW c \in Conns
             PROVE  /\ Heard(c)'
                    /\ H \notin Handlers("announce", c) =>
                         (Has(ioq', Handlers("announce", c)) <=> Has(ioq, Handlers("announce", c)))
                    /\ H \in Handlers("announce", c) \cup Handlers("forward", c) =>
                         ~Has(ioq', Handlers("announce", c))
  OBVIOUS
<1> DEFINE A == Handlers("announce", c)
           F == Handlers("forward", c)
<1>1. NotBefore(ioq, A, A) /\ NotBefore(ioq, F, A) /\ ioq \in Seq(IoEntries)
  BY DEF Told, Heard, Typed, IoTyped
<1> HIDE DEF A, F
<1>2. <<>> \in Seq(IoEntries) /\ ~Has(<<>>, A) /\ ~Has(<<>>, F) /\ NotBefore(<<>>, A, A) /\ NotBefore(<<>>, F, A)
  BY Made, Literals
<1>3. NotBefore(ioq', A, A) /\ NotBefore(ioq', F, A)
  BY <1>1, <1>2, Taken
<1>4. H \notin A => (Has(ioq', A) <=> Has(ioq, A))
  BY <1>1, <1>2, TakenHas DEF H
<1>5. H \in A \cup F => ~Has(ioq', A)
  BY <1>1, <1>2, HeadGone DEF H
<1>6. QED
  BY <1>3, <1>4, <1>5 DEF Heard, A, F

\* A step that is about neither.
LEMMA ToldElsewhere ==
    ASSUME Told, UNCHANGED <<generation, app, attached, peer>>, running => running',
           peer # None => session'[peer] = session[peer],
           NEW D1, NEW D2, Spares(ioq, ioq', D1), Spares(dq, dq', D2),
           \A t \in D1 : t.op \notin {"announce", "forward"}, \A e \in D2 : e.op # "note"
    PROVE  Told'
<1>1. Notices(generation) \cap D2 = {}
  BY DEF Notices
<1>2. Undisturbed(dq, dq', Notices(generation))
  BY <1>1 DEF Spares
<1>3. \A c \in Conns : /\ Heard(c)'
                       /\ Has(ioq', Handlers("announce", c)) <=> Has(ioq, Handlers("announce", c))
  BY HeardSpared
<1>4. \A c \in Conns : Announced(c)' <=> Announced(c)
  BY <1>3, Names DEF Announced
<1>5. QED
  BY <1>2, <1>3, <1>4, ToldKept

LEMMA NoneAnnounced ==
    ASSUME peer = None \/ session[peer] # generation
    PROVE  /\ \A c \in Conns : ~Announced(c)
           /\ Told => (attached => ToldOfNone)
BY Names DEF Announced, Told, UpToDate

LEMMA CallTold ==
    ASSUME Typed, Told, NEW op \in {"start", "stop", "invalidate"}, Call(op)
    PROVE  Told'
<1> DEFINE D1 == {}
           D2 == {Do(op)}
<1>1. Spares(ioq, ioq', D1) /\ Spares(dq, dq', D2)
  BY CallTyped, SparesAll DEF Call, IoUnchanged, scopeVars, connVars, requestVars
<1>2. /\ Do(op).op = op
  BY DEF Call, Do, Entry
<1>3. (\A t \in D1 : t.op \notin {"announce", "forward"}) /\ \A e \in D2 : e.op # "note"
  BY <1>2
<1>4. /\ UNCHANGED <<generation, app, attached, peer>> /\ (running => running')
      /\ peer # None => session'[peer] = session[peer]
  BY DEF Call, IoUnchanged, scopeVars, connVars
<1> HIDE DEF D1, D2
<1>5. QED
  BY <1>1, <1>3, <1>4, ToldElsewhere

LEMMA AsyncRequestTold ==
    ASSUME Typed, Told, NEW r \in Requests, AsyncRequest(r)
    PROVE  Told'
<1> DEFINE D1 == {Request("request", r)}
           D2 == {}
<1>1. Spares(ioq, ioq', D1) /\ Spares(dq, dq', D2)
  BY AsyncRequestTyped, SparesAll DEF AsyncRequest, IoUnchanged, scopeVars, connVars
<1>2. /\ Request("request", r).op = "request"
  BY DEF AsyncRequest, Request, Entry
<1>3. (\A t \in D1 : t.op \notin {"announce", "forward"}) /\ \A e \in D2 : e.op # "note"
  BY <1>2
<1>4. /\ UNCHANGED <<generation, app, attached, peer>> /\ (running => running')
      /\ peer # None => session'[peer] = session[peer]
  BY DEF AsyncRequest, IoUnchanged, scopeVars, connVars
<1> HIDE DEF D1, D2
<1>5. QED
  BY <1>1, <1>3, <1>4, ToldElsewhere

LEMMA StartTold ==
    ASSUME Typed, Told, Start
    PROVE  Told'
<1> DEFINE D1 == {Conn("connect", None, generation, "")}
           D2 == {E}
<1>1. Spares(ioq, ioq', D1) /\ Spares(dq, dq', D2)
  BY StartTyped, SparesAll DEF Start, IoUnchanged, scopeVars, connVars, requestVars
<1>2. /\ Conn("connect", None, generation, "").op = "connect"
      /\ E.op = "start"
  BY DEF Start, Dispatching, E, Conn, Entry
<1>3. (\A t \in D1 : t.op \notin {"announce", "forward"}) /\ \A e \in D2 : e.op # "note"
  BY <1>2
<1>4. /\ UNCHANGED <<generation, app, attached, peer>> /\ (running => running')
      /\ peer # None => session'[peer] = session[peer]
  BY DEF Start, IoUnchanged, scopeVars, connVars
<1> HIDE DEF D1, D2
<1>5. QED
  BY <1>1, <1>3, <1>4, ToldElsewhere

LEMMA PostEndOfSessionTold ==
    ASSUME Typed, Told, PostEndOfSession
    PROVE  Told'
<1> DEFINE D1 == {Conn(dpc, None, generation, "")}
           D2 == {Do("cancel")}
<1>1. Spares(ioq, ioq', D1) /\ Spares(dq, dq', D2)
  BY PostEndOfSessionTyped, SparesAll DEF PostEndOfSession, IoUnchanged, scopeVars, connVars, requestVars
<1>2. /\ Conn(dpc, None, generation, "").op = dpc
      /\ Do("cancel").op = "cancel"
      /\ dpc \in {"stop", "invalidate"}
  BY DEF PostEndOfSession, Do, Conn, Entry
<1>3. (\A t \in D1 : t.op \notin {"announce", "forward"}) /\ \A e \in D2 : e.op # "note"
  BY <1>2
<1>4. /\ UNCHANGED <<generation, app, attached, peer>> /\ (running => running')
      /\ peer # None => session'[peer] = session[peer]
  BY DEF PostEndOfSession, IoUnchanged, scopeVars, connVars
<1> HIDE DEF D1, D2
<1>5. QED
  BY <1>1, <1>3, <1>4, ToldElsewhere

LEMMA VerifyTold ==
    ASSUME Typed, Told, Verify
    PROVE  Told'
<1> DEFINE D1 == {Conn("verified", E.conn, E.token, "verified"), Conn("verified", E.conn, E.token, "refused")}
           D2 == {E}
<1>1. Spares(ioq, ioq', D1) /\ Spares(dq, dq', D2)
  BY VerifyTyped, SparesAll DEF Verify, IoUnchanged, scopeVars, connVars, requestVars
<1>2. /\ Conn("verified", E.conn, E.token, "verified").op = "verified"
      /\ Conn("verified", E.conn, E.token, "refused").op = "verified"
      /\ E.op = "verify"
  BY DEF Verify, Dispatching, E, Conn, Entry
<1>3. (\A t \in D1 : t.op \notin {"announce", "forward"}) /\ \A e \in D2 : e.op # "note"
  BY <1>2
<1>4. /\ UNCHANGED <<generation, app, attached, peer>> /\ (running => running')
      /\ peer # None => session'[peer] = session[peer]
  BY DEF Verify, IoUnchanged, scopeVars, connVars
<1> HIDE DEF D1, D2
<1>5. QED
  BY <1>1, <1>3, <1>4, ToldElsewhere

LEMMA DebounceTold ==
    ASSUME Typed, Told, Debounce
    PROVE  Told'
<1> DEFINE D1 == {}
           D2 == {E}
<1>1. Spares(ioq, ioq', D1) /\ Spares(dq, dq', D2)
  BY DebounceTyped, SparesAll DEF Debounce, IoUnchanged, scopeVars, connVars, requestVars
<1>2. /\ E.op \in {"cancel", "debounce"}
  BY DEF Debounce, Dispatching, E, Entry
<1>3. (\A t \in D1 : t.op \notin {"announce", "forward"}) /\ \A e \in D2 : e.op # "note"
  BY <1>2
<1>4. /\ UNCHANGED <<generation, app, attached, peer>> /\ (running => running')
      /\ peer # None => session'[peer] = session[peer]
  BY DEF Debounce, IoUnchanged, scopeVars, connVars
<1> HIDE DEF D1, D2
<1>5. QED
  BY <1>1, <1>3, <1>4, ToldElsewhere

LEMMA ReconnectTold ==
    ASSUME Typed, Told, Reconnect
    PROVE  Told'
<1> DEFINE D1 == {Conn("connect", None, generation, "")}
           D2 == {}
<1>1. Spares(ioq, ioq', D1) /\ Spares(dq, dq', D2)
  BY ReconnectTyped, SparesAll DEF Reconnect, IoUnchanged, scopeVars, connVars, requestVars
<1>2. /\ Conn("connect", None, generation, "").op = "connect"
  BY DEF Reconnect, Conn, Entry
<1>3. (\A t \in D1 : t.op \notin {"announce", "forward"}) /\ \A e \in D2 : e.op # "note"
  BY <1>2
<1>4. /\ UNCHANGED <<generation, app, attached, peer>> /\ (running => running')
      /\ peer # None => session'[peer] = session[peer]
  BY DEF Reconnect, IoUnchanged, scopeVars, connVars
<1> HIDE DEF D1, D2
<1>5. QED
  BY <1>1, <1>3, <1>4, ToldElsewhere

LEMMA CallBackTold ==
    ASSUME Typed, Told, CallBack
    PROVE  Told'
<1> DEFINE D1 == {}
           D2 == {E}
<1>1. Spares(ioq, ioq', D1) /\ Spares(dq, dq', D2)
  BY CallBackTyped, SparesAll DEF CallBack, IoUnchanged, scopeVars, connVars
<1>2. /\ E.op = "callback"
  BY DEF CallBack, Dispatching, E, Entry
<1>3. (\A t \in D1 : t.op \notin {"announce", "forward"}) /\ \A e \in D2 : e.op # "note"
  BY <1>2
<1>4. /\ UNCHANGED <<generation, app, attached, peer>> /\ (running => running')
      /\ peer # None => session'[peer] = session[peer]
  BY DEF CallBack, IoUnchanged, scopeVars, connVars
<1> HIDE DEF D1, D2
<1>5. QED
  BY <1>1, <1>3, <1>4, ToldElsewhere

LEMMA ConnectIgnoredTold ==
    ASSUME Typed, Told, ConnectIgnored
    PROVE  Told'
<1> DEFINE D1 == {H}
           D2 == {}
<1>1. Spares(ioq, ioq', D1) /\ Spares(dq, dq', D2)
  BY ConnectIgnoredTyped, SparesAll DEF ConnectIgnored, IoUnchanged, scopeVars, connVars, requestVars
<1>2. /\ H.op = "connect"
  BY DEF ConnectIgnored, Running, H, Entry
<1>3. (\A t \in D1 : t.op \notin {"announce", "forward"}) /\ \A e \in D2 : e.op # "note"
  BY <1>2
<1>4. /\ UNCHANGED <<generation, app, attached, peer>> /\ (running => running')
      /\ peer # None => session'[peer] = session[peer]
  BY DEF ConnectIgnored, IoUnchanged, scopeVars, connVars
<1> HIDE DEF D1, D2
<1>5. QED
  BY <1>1, <1>3, <1>4, ToldElsewhere

LEMMA ConnectBeginsTold ==
    ASSUME Typed, Told, NEW c \in Conns, ConnectBegins(c)
    PROVE  Told'
<1> DEFINE D1 == {H}
           D2 == {}
<1>1. Spares(ioq, ioq', D1) /\ Spares(dq, dq', D2)
  BY ConnectBeginsTyped, SparesAll DEF ConnectBegins, IoUnchanged, scopeVars, connVars, requestVars
<1>2. /\ H.op = "connect"
  BY DEF ConnectBegins, Running, H, Entry
<1>3. (\A t \in D1 : t.op \notin {"announce", "forward"}) /\ \A e \in D2 : e.op # "note"
  BY <1>2
<1>4. /\ UNCHANGED <<generation, app, attached, peer>> /\ (running => running')
      /\ peer # None => session'[peer] = session[peer]
  BY DEF ConnectBegins, IoUnchanged, scopeVars, connVars, MayConnect
<1> HIDE DEF D1, D2
<1>5. QED
  BY <1>1, <1>3, <1>4, ToldElsewhere

LEMMA ConnectsTold ==
    ASSUME Typed, Told, NEW c \in Conns, NEW outcome \in {"connected", "failed"}, Connects(c, outcome)
    PROVE  Told'
<1> DEFINE D1 == {Conn("connectDone", c, session[c], outcome)}
           D2 == {}
<1>1. Spares(ioq, ioq', D1) /\ Spares(dq, dq', D2)
  BY ConnectsTyped, SparesAll DEF Connects, IoUnchanged, scopeVars, connVars, requestVars
<1>2. /\ Conn("connectDone", c, session[c], outcome).op = "connectDone"
  BY DEF Connects, Conn, Entry
<1>3. (\A t \in D1 : t.op \notin {"announce", "forward"}) /\ \A e \in D2 : e.op # "note"
  BY <1>2
<1>4. /\ UNCHANGED <<generation, app, attached, peer>> /\ (running => running')
      /\ peer # None => session'[peer] = session[peer]
  BY DEF Connects, IoUnchanged, scopeVars, connVars
<1> HIDE DEF D1, D2
<1>5. QED
  BY <1>1, <1>3, <1>4, ToldElsewhere

LEMMA PeerStartTold ==
    ASSUME Typed, Told, PeerStart
    PROVE  Told'
<1> DEFINE D1 == {H}
           D2 == {}
<1>1. Spares(ioq, ioq', D1) /\ Spares(dq, dq', D2)
  BY PeerStartTyped, SparesAll DEF PeerStart, IoUnchanged, scopeVars, connVars, requestVars
<1>2. /\ H.op = "peerStart"
  BY DEF PeerStart, Running, H, Entry
<1>3. (\A t \in D1 : t.op \notin {"announce", "forward"}) /\ \A e \in D2 : e.op # "note"
  BY <1>2
<1>4. /\ UNCHANGED <<generation, app, attached, peer>> /\ (running => running')
      /\ peer # None => session'[peer] = session[peer]
  BY DEF PeerStart, IoUnchanged, scopeVars, connVars
<1> HIDE DEF D1, D2
<1>5. QED
  BY <1>1, <1>3, <1>4, ToldElsewhere

LEMMA PeerCloseTold ==
    ASSUME Typed, Told, PeerClose
    PROVE  Told'
<1> DEFINE D1 == {H}
           D2 == {Signal("closed", H.conn, None)}
<1>1. Spares(ioq, ioq', D1) /\ Spares(dq, dq', D2)
  BY PeerCloseTyped, SparesAll DEF PeerClose, IoUnchanged, scopeVars, connVars, requestVars
<1>2. /\ H.op = "peerClose"
      /\ Signal("closed", H.conn, None).op = "signal"
  BY DEF PeerClose, Running, H, Signal, Entry
<1>3. (\A t \in D1 : t.op \notin {"announce", "forward"}) /\ \A e \in D2 : e.op # "note"
  BY <1>2
<1>4. /\ UNCHANGED <<generation, app, attached, peer>> /\ (running => running')
      /\ peer # None => session'[peer] = session[peer]
  BY DEF PeerClose, IoUnchanged, scopeVars, connVars
<1> HIDE DEF D1, D2
<1>5. QED
  BY <1>1, <1>3, <1>4, ToldElsewhere

LEMMA PeerReadsTold ==
    ASSUME Typed, Told, NEW c \in Conns, PeerReads(c)
    PROVE  Told'
<1> DEFINE D1 == {}
           D2 == SignalsOf(c) \ EndsOf(c)
<1>1. Spares(ioq, ioq', D1) /\ Spares(dq, dq', D2)
  BY PeerReadsTyped, SparesAll DEF PeerReads, IoUnchanged, scopeVars, connVars, requestVars
<1>2. /\ \A e \in D2 : e.op = "signal"
  BY DEF SignalsOf
<1>3. (\A t \in D1 : t.op \notin {"announce", "forward"}) /\ \A e \in D2 : e.op # "note"
  BY <1>2
<1>4. /\ UNCHANGED <<generation, app, attached, peer>> /\ (running => running')
      /\ peer # None => session'[peer] = session[peer]
  BY DEF PeerReads, IoUnchanged, scopeVars, connVars
<1> HIDE DEF D1, D2
<1>5. QED
  BY <1>1, <1>3, <1>4, ToldElsewhere

LEMMA PeerEndsTold ==
    ASSUME Typed, Told, NEW c \in Conns, PeerEnds(c)
    PROVE  Told'
<1> DEFINE D1 == {}
           D2 == {Signal("error", c, None), Signal("closed", c, None)}
<1>1. Spares(ioq, ioq', D1) /\ Spares(dq, dq', D2)
  BY PeerEndsTyped, SparesAll DEF PeerEnds, IoUnchanged, scopeVars, connVars, requestVars
<1>2. /\ Signal("error", c, None).op = "signal"
      /\ Signal("closed", c, None).op = "signal"
  BY DEF PeerEnds, Signal, Entry
<1>3. (\A t \in D1 : t.op \notin {"announce", "forward"}) /\ \A e \in D2 : e.op # "note"
  BY <1>2
<1>4. /\ UNCHANGED <<generation, app, attached, peer>> /\ (running => running')
      /\ peer # None => session'[peer] = session[peer]
  BY DEF PeerEnds, IoUnchanged, scopeVars, connVars
<1> HIDE DEF D1, D2
<1>5. QED
  BY <1>1, <1>3, <1>4, ToldElsewhere

LEMMA SendRequestTold ==
    ASSUME Typed, Told, SendRequest
    PROVE  Told'
<1> DEFINE D1 == {H}
           D2 == CallBacks
<1>1. Spares(ioq, ioq', D1) /\ Spares(dq, dq', D2)
  BY SendRequestTyped, SparesAll DEF SendRequest, IoUnchanged, scopeVars, connVars
<1>2. /\ H.op = "request"
      /\ \A e \in D2 : e.op = "callback"
  BY DEF SendRequest, Running, H, Entry, CallBacks
<1>3. (\A t \in D1 : t.op \notin {"announce", "forward"}) /\ \A e \in D2 : e.op # "note"
  BY <1>2
<1>4. /\ UNCHANGED <<generation, app, attached, peer>> /\ (running => running')
      /\ peer # None => session'[peer] = session[peer]
  BY DEF SendRequest, IoUnchanged, scopeVars, connVars
<1> HIDE DEF D1, D2
<1>5. QED
  BY <1>1, <1>3, <1>4, ToldElsewhere

LEMMA TimerExpiresTold ==
    ASSUME Typed, Told, NEW r \in Requests, TimerExpires(r)
    PROVE  Told'
<1> DEFINE D1 == {Request("timeout", r)}
           D2 == {}
<1>1. Spares(ioq, ioq', D1) /\ Spares(dq, dq', D2)
  BY TimerExpiresTyped, SparesAll DEF TimerExpires, IoUnchanged, scopeVars, connVars, requestVars
<1>2. /\ Request("timeout", r).op = "timeout"
  BY DEF TimerExpires, Request, Entry
<1>3. (\A t \in D1 : t.op \notin {"announce", "forward"}) /\ \A e \in D2 : e.op # "note"
  BY <1>2
<1>4. /\ UNCHANGED <<generation, app, attached, peer>> /\ (running => running')
      /\ peer # None => session'[peer] = session[peer]
  BY DEF TimerExpires, IoUnchanged, scopeVars, connVars
<1> HIDE DEF D1, D2
<1>5. QED
  BY <1>1, <1>3, <1>4, ToldElsewhere

LEMMA KeepAliveTold ==
    ASSUME Typed, Told, KeepAlive
    PROVE  Told'
<1> DEFINE D1 == {H}
           D2 == {}
<1>1. Spares(ioq, ioq', D1) /\ Spares(dq, dq', D2)
  BY KeepAliveTyped, SparesAll DEF KeepAlive, IoUnchanged, scopeVars, connVars, requestVars
<1>2. /\ H.op = "keepAlive"
  BY DEF KeepAlive, Running, H, Entry
<1>3. (\A t \in D1 : t.op \notin {"announce", "forward"}) /\ \A e \in D2 : e.op # "note"
  BY <1>2
<1>4. /\ UNCHANGED <<generation, app, attached, peer>> /\ (running => running')
      /\ peer # None => session'[peer] = session[peer]
  BY DEF KeepAlive, IoUnchanged, scopeVars, connVars
<1> HIDE DEF D1, D2
<1>5. QED
  BY <1>1, <1>3, <1>4, ToldElsewhere

LEMMA DestroyTold ==
    ASSUME Typed, Told, Destroy
    PROVE  Told'
<1> DEFINE D1 == {}
           D2 == {}
<1>1. Spares(ioq, ioq', D1) /\ Spares(dq, dq', D2)
  BY DestroyTyped, SparesAll DEF Destroy, IoUnchanged, scopeVars, connVars, requestVars
<1>3. (\A t \in D1 : t.op \notin {"announce", "forward"}) /\ \A e \in D2 : e.op # "note"
  OBVIOUS
<1>4. /\ UNCHANGED <<generation, app, attached, peer>> /\ (running => running')
      /\ peer # None => session'[peer] = session[peer]
  BY DEF Destroy, IoUnchanged, scopeVars, connVars
<1> HIDE DEF D1, D2
<1>5. QED
  BY <1>1, <1>3, <1>4, ToldElsewhere

LEMMA NotifyTold ==
    ASSUME Typed, Told, Notify
    PROVE  Told'
<1> DEFINE g == generation
           b == AppAfter(app, g, E)
<1>1. /\ dq # <<>> /\ dq \in Seq(DqEntries) /\ E \in DqEntries /\ E.op = "note"
      /\ UNCHANGED <<running, generation, attached, peer, session, ioq>>
  BY Heads DEF Notify, Dispatching, Typed, DqTyped, scopeVars, connVars, E
<1>2. /\ TurnsIn(dq, app, g) /\ (~running => app = None /\ ~Has(dq, Opening(g)))
      /\ attached => UpToDate
  BY DEF Told, Turns, Untold
<1>3. app' = b
  <2>1. CASE IsCurrent(E.token)
    <3>1. running /\ E.token = g
      BY <2>1 DEF IsCurrent
    <3>2. (E \in Opening(g) <=> E.what = "connected") /\ (E \in Closing(g) <=> E.what = "closed")
      BY <1>1, <3>1 DEF Opening, Closing, Notices
    <3>3. app' = CASE E.what = "connected" -> E.conn [] E.what = "closed" -> None [] OTHER -> app
      BY <2>1 DEF Notify
    <3>4. QED
      BY <3>2, <3>3 DEF AppAfter
  <2>2. CASE ~IsCurrent(E.token)
    <3>1. app' = app
      BY <2>2 DEF Notify
    <3>2. CASE E.token # g
      <4>1. E \notin Opening(g) /\ E \notin Closing(g)
        BY <3>2 DEF Opening, Closing, Notices
      <4>2. QED
        BY <3>1, <4>1 DEF AppAfter
    <3>3. CASE ~running
      <4>1. app = None /\ E \notin Opening(g)
        BY <1>1, <1>2, <3>3, HeadHas
      <4>2. QED
        BY <3>1, <4>1 DEF AppAfter
    <3>4. QED
      BY <2>2, <3>2, <3>3 DEF IsCurrent
  <2>3. QED
    BY <2>1, <2>2
<1>4. /\ TurnsIn(Tail(dq), b, g)
      /\ \A c : KnowsOf(dq, app, g, c) => KnowsOf(Tail(dq), b, g, c)
      /\ KnowsNone(dq, app, g) => KnowsNone(Tail(dq), b, g)
      /\ Has(Tail(dq), Opening(g)) => Has(dq, Opening(g))
  BY <1>1, <1>2, OneLess DEF E
<1>5. Undisturbed(Tail(dq), dq', Notices(g))
  <2> DEFINE e == Do("debounce")
             N == Notices(g)
  <2>1. e \in DqEntries /\ e \notin N
    BY DqMade DEF Do, Entry, Notices
  <2>2. \E x \in {<<>>, <<e>>} : dq' = Tail(dq) \o x
    BY DEF Notify, Dispatched
  <2> HIDE DEF e, N
  <2>3. \A x \in {<<>>, <<e>>} : x \in Seq(DqEntries) /\ ~Has(x, N)
    BY <2>1, Made
  <2>4. Tail(dq) \in Seq(DqEntries)
    BY <1>1, TakenHas, Made
  <2>5. QED
    BY <2>2, <2>3, <2>4, SentElsewhere DEF N
<1> HIDE DEF b
<1>6. /\ TurnsIn(dq', b, g)
      /\ \A c : KnowsOf(dq, app, g, c) => KnowsOf(dq', b, g, c)
      /\ KnowsNone(dq, app, g) => KnowsNone(dq', b, g)
      /\ Has(dq', Opening(g)) => Has(dq, Opening(g))
  BY <1>4, <1>5, Mute
<1>7. Turns'
  BY <1>1, <1>3, <1>6 DEF Turns
<1>8. Untold'
  <2>1. ~running => b = None
    BY <1>1, <1>2, HeadHas DEF b, AppAfter
  <2>2. QED
    BY <1>1, <1>2, <1>3, <1>6, <2>1 DEF Untold
<1>9. attached' => UpToDate'
  <2>1. \A c \in Conns : Announced(c)' <=> Announced(c)
    BY <1>1 DEF Announced
  <2>2. attached => /\ \A c \in Conns : Announced(c) => KnowsOf(dq, app, g, c)
                    /\ (\A c \in Conns : ~Announced(c)) => KnowsNone(dq, app, g)
    BY <1>2 DEF UpToDate, ToldOf, ToldOfNone
  <2>3. QED
    BY <1>1, <1>3, <1>6, <2>1, <2>2 DEF UpToDate, ToldOf, ToldOfNone
<1>10. \A c \in Conns : Heard(c)'
  BY <1>1 DEF Told, Heard
<1>11. QED
  BY <1>7, <1>8, <1>9, <1>10 DEF Told

\* The scope moves on.
LEMMA NextSessionTold ==
    ASSUME Typed, generation' = generation + 1, app' = None, UNCHANGED <<peer, session>>,
           ~Has(dq', Notices(generation + 1)), \A c \in Conns : Heard(c)'
    PROVE  Told'
<1> DEFINE g == generation + 1
<1>1. TurnsIn(dq', None, g) /\ KnowsNone(dq', None, g) /\ ~Has(dq', Opening(g))
  BY Speechless
<1>2. \A c \in Conns : ~Announced(c)'
  <2>1. \A c \in Conns : session[c] # generation + 1
    BY Unborn
  <2>2. QED
    BY <2>1 DEF Announced
<1> HIDE DEF g
<1>3. generation' = g
  BY DEF g
<1>4. QED
  BY <1>1, <1>2, <1>3 DEF Told, Turns, UpToDate, ToldOfNone, Untold

LEMMA EndSessionTold ==
    ASSUME Typed, Told, NEW op \in {"stop", "invalidate"}, EndSession(op)
    PROVE  Told'
<1>1. /\ generation' = generation + 1 /\ app' = None /\ UNCHANGED <<peer, session, ioq>>
      /\ dq # <<>> /\ dq' = Tail(dq) \o <<>> /\ dq \in Seq(DqEntries) /\ <<>> \in Seq(DqEntries)
  BY DEF EndSession, Dispatching, Dispatched, connVars, Typed, DqTyped
<1>2. ~Has(dq', Notices(generation + 1))
  <2> DEFINE N == Notices(generation + 1)
  <2>1. ~Has(dq, N)
    BY Unborn
  <2> HIDE DEF N
  <2>2. ~Has(<<>>, N)
    BY Made
  <2>3. ~Has(dq', N)
    BY <1>1, <2>1, <2>2, TakenHas
  <2>4. QED
    BY <2>3 DEF N
<1>3. \A c \in Conns : Heard(c)'
  BY <1>1 DEF Told, Heard
<1>4. QED
  BY <1>1, <1>2, <1>3, NextSessionTold

LEMMA PostShutdownTold ==
    ASSUME Typed, Told, PostShutdown
    PROVE  Told'
<1>1. generation' = generation + 1 /\ app' = None /\ UNCHANGED <<peer, session, dq>>
  BY DEF PostShutdown, connVars
<1>2. ~Has(dq', Notices(generation + 1))
  BY <1>1, Unborn
<1>3. Spares(ioq, ioq', {Do("shutdown")}) /\ Do("shutdown").op = "shutdown"
  BY PostShutdownTyped DEF Do, Entry
<1>4. \A c \in Conns : Heard(c)'
  BY <1>3, HeardSpared
<1>5. QED
  BY <1>1, <1>2, <1>4, NextSessionTold

LEMMA DetachTold ==
    ASSUME Typed, Told, Detach
    PROVE  Told'
<1>1. UNCHANGED <<running, generation, app, ioq>> /\ attached' = FALSE /\ ~Has(dq', Scheduled)
  BY DetachTyped DEF Detach
<1>2. ~Has(dq', Notices(generation))
  BY <1>1 DEF Has, Scheduled, Notices
<1>3. TurnsIn(dq', app, generation) /\ ~Has(dq', Opening(generation))
  BY <1>2, Speechless
<1>4. Turns' /\ Untold'
  BY <1>1, <1>3 DEF Turns, Untold, Told
<1>5. \A c \in Conns : Heard(c)'
  BY <1>1 DEF Told, Heard
<1>6. QED
  BY <1>1, <1>4, <1>5 DEF Told

LEMMA ReleaseTold ==
    ASSUME Typed, Told, NEW c \in Conns, Release(c)
    PROVE  Told'
<1>1. /\ UNCHANGED <<running, generation, app, attached, peer, ioq>> /\ peer # c
      /\ \A d \in Conns : d # c => session'[d] = session[d]
  BY DEF Release, IoUnchanged, scopeVars, Typed, ConnTyped
<1>2. Undisturbed(dq, dq', Notices(generation))
  <2> DEFINE I == {i \in DOMAIN dq : dq[i].conn # c}
             N == Notices(generation)
  <2>1. dq \in Seq(DqEntries) /\ dq' = Selected(dq, I) /\ I \in SUBSET DOMAIN dq
    BY DEF Release, Typed, DqTyped
  <2>2. \A i \in DOMAIN dq : dq[i] \in N => i \in I
    BY DEF Release, Notices, ToSet
  <2> HIDE DEF I, N
  <2>3. Undisturbed(dq, dq', N)
    BY <2>1, <2>2, ErasedElsewhere
  <2>4. QED
    BY <2>3 DEF N
<1>3. \A d \in Conns : Heard(d)' /\ (Announced(d)' <=> Announced(d))
  BY <1>1 DEF Told, Heard, Announced
<1>4. QED
  BY <1>1, <1>2, <1>3, ToldKept

LEMMA DispatchSignalTold ==
    ASSUME Typed, Told, DispatchSignal
    PROVE  Told'
<1> DEFINE f == Entry("forward", E.conn, session[E.conn], E.what, E.req)
<1>1. /\ UNCHANGED <<running, generation, app, attached, peer, session>>
      /\ ioq' = ioq \/ ioq' = ioq \o <<f>>
      /\ Spares(ioq, ioq', {f}) /\ Spares(dq, dq', {E}) /\ f.op = "forward" /\ E.op = "signal"
  <2>1. ioq \in Seq(IoEntries)
    BY DEF Typed, IoTyped
  <2>2. UNCHANGED <<running, generation, app, attached, peer, session>> /\ (ioq' = ioq \/ ioq' = Append(ioq, f))
    BY DEF DispatchSignal, scopeVars, connVars
  <2>3. f.op = "forward" /\ E.op = "signal"
    BY DEF Entry, DispatchSignal, Dispatching, E
  <2>4. Spares(ioq, ioq', {f}) /\ Spares(dq, dq', {E})
    BY DispatchSignalTyped
  <2> HIDE DEF f
  <2>5. Append(ioq, f) = ioq \o <<f>>
    BY <2>1
  <2>6. QED
    BY <2>2, <2>3, <2>4, <2>5
<1>2. ioq \in Seq(IoEntries) /\ f \in IoEntries
  <2>1. ioq \in Seq(IoEntries) /\ E \in DqEntries /\ E.op = "signal"
    BY Heads DEF Typed, IoTyped, DispatchSignal, Dispatching, E
  <2>2. E.conn \in Conns /\ E.what \in Signals /\ E.req \in Requests \cup {None}
    BY <2>1, DqRead
  <2>3. session[E.conn] \in Nat
    BY <2>2, Numbers
  <2>4. QED
    BY <2>1, <2>2, <2>3, IoMade
<1> HIDE DEF f
<1>3. ASSUME NEW c \in Conns
      PROVE  Heard(c)' /\ (Has(ioq', Handlers("announce", c)) <=> Has(ioq, Handlers("announce", c)))
  <2> DEFINE A == Handlers("announce", c)
             F == Handlers("forward", c)
  <2>1. f \notin A /\ NotBefore(ioq, A, A) /\ NotBefore(ioq, F, A)
    BY <1>1 DEF Handlers, Told, Heard
  <2> HIDE DEF A, F
  <2>2. <<f>> \in Seq(IoEntries) /\ ~Has(<<f>>, A)
    BY <1>2, <2>1, Made
  <2>3. NotBefore(<<f>>, A, A) /\ NotBefore(<<f>>, F, A)
    BY <2>2, Nothing
  <2>4. NotBefore(ioq', A, A) /\ NotBefore(ioq', F, A) /\ (Has(ioq', A) <=> Has(ioq, A))
    <3>1. LET r == ioq \o <<f>>
          IN  NotBefore(r, A, A) /\ NotBefore(r, F, A) /\ (Has(r, A) <=> Has(ioq, A))
      BY <1>2, <2>1, <2>2, <2>3, Joined
    <3>2. QED
      BY <1>1, <2>1, <3>1
  <2>5. QED
    BY <2>4 DEF Heard, A, F
<1>4. Undisturbed(dq, dq', Notices(generation))
  BY <1>1 DEF Spares, Notices
<1>5. \A c \in Conns : Announced(c)' <=> Announced(c)
  BY <1>1, <1>3 DEF Announced
<1>6. QED
  BY <1>1, <1>3, <1>4, <1>5, ToldKept

\* stop, invalidate_connection and the shutdown end the connection of an earlier session.
LEMMA ConnectionEndsTold ==
    ASSUME Typed, Sessions, Told, ioq # <<>>, H \in Movers,
           UNCHANGED <<running, generation, app, attached, session>>, peer' \in {peer, None},
           NEW D1, NEW D2, Spares(ioq, ioq', D1), Spares(dq, dq', D2),
           \A t \in D1 : t.op \notin {"announce", "forward"},
           \A e \in D2 : e.op # "note" \/ e.what = "reconnect"
    PROVE  Told'
<1>1. ~Current(peer)
  <2>1. Has(ioq, Movers)
    BY HeadHas
  <2>2. QED
    BY <2>1 DEF Sessions, Underway, Stopping
<1>2. (\A c \in Conns : ~Announced(c)) /\ \A c \in Conns : ~Announced(c)'
  BY <1>1, Names DEF Current, Announced
<1>3. \A c \in Conns : Heard(c)'
  BY HeardSpared
<1>4. Notices(generation) \cap D2 = {}
  BY DEF Notices
<1>5. Undisturbed(dq, dq', Notices(generation))
  BY <1>4 DEF Spares
<1>6. QED
  BY <1>2, <1>3, <1>5, ToldKept

LEMMA EndConnectionTold ==
    ASSUME Typed, Sessions, Told, EndConnection
    PROVE  Told'
<1> DEFINE n == Note("reconnect", None, H.token)
           D1 == {H} \cup Handlers("peerClose", peer)
           D2 == CallBacks \cup {n}
<1>1. Spares(ioq, ioq', D1) /\ Spares(dq, dq', D2)
  BY EndConnectionTyped
<1>2. /\ ioq # <<>> /\ H \in IoEntries /\ H.op \in {"stop", "invalidate"}
      /\ UNCHANGED <<running, generation, app, attached, session>> /\ peer' \in {peer, None}
  BY Heads DEF EndConnection, IoUnchanged, scopeVars
<1>3. (\A t \in D1 : t.op \notin {"announce", "forward"}) /\ H \in Movers
  BY <1>2 DEF Handlers, Movers
<1>4. \A e \in D2 : e.op # "note" \/ e.what = "reconnect"
  <2>1. n.what = "reconnect" /\ \A e \in CallBacks : e.op = "callback"
    BY DEF Note, Conn, Entry, CallBacks
  <2>2. QED
    BY <2>1
<1> HIDE DEF D1, D2
<1>5. QED
  BY <1>1, <1>2, <1>3, <1>4, ConnectionEndsTold

LEMMA ShutdownTold ==
    ASSUME Typed, Sessions, Told, Shutdown
    PROVE  Told'
<1> DEFINE D1 == {H, Do("keepAlive")} \cup Handlers("peerClose", peer)
           D2 == CallBacks
<1>1. Spares(ioq, ioq', D1) /\ Spares(dq, dq', D2)
  BY ShutdownTyped
<1>2. /\ ioq # <<>> /\ H \in IoEntries /\ H.op = "shutdown"
      /\ UNCHANGED <<running, generation, app, attached, session>> /\ peer' \in {peer, None}
  BY Heads DEF Shutdown, Running, H, IoUnchanged, scopeVars
<1>3. (\A t \in D1 : t.op \notin {"announce", "forward"}) /\ H \in Movers
  <2>1. Do("keepAlive").op = "keepAlive"
    BY DEF Do, Entry
  <2>2. QED
    BY <1>2, <2>1 DEF Handlers, Movers
<1>4. \A e \in D2 : e.op # "note" \/ e.what = "reconnect"
  BY DEF CallBacks
<1> HIDE DEF D1, D2
<1>5. QED
  BY <1>1, <1>2, <1>3, <1>4, ConnectionEndsTold

\* An attempt that failed.
LEMMA TrialTold ==
    ASSUME Typed, Told, peer = None, NEW w \in {"connect_failed", "verification_failed"},
           NEW n \in 0..generation, Enqueue(<<Note(w, None, n)>>),
           UNCHANGED <<generation, app, running, attached, peer>>, \A c \in Conns : Heard(c)'
    PROVE  Told'
<1>1. /\ \A c \in Conns : ~Announced(c)
      /\ \A c \in Conns : ~Announced(c)'
  BY Names DEF Announced
<1>2. CASE attached
  <2> DEFINE e == Note(w, None, n)
             g == generation
  <2>1. e \in DqEntries /\ e.conn = None /\ e.what = w
    BY Numbers, DqMade DEF Note, Conn, Entry
  <2>2. ToldOfNone
    BY <1>1, <1>2 DEF Told, UpToDate
  <2>3. dq' = dq \o <<e>> /\ dq \in Seq(DqEntries) /\ Undisturbed(dq, dq, Notices(g))
    BY <1>2, Untouched DEF Enqueue, Typed, DqTyped
  <2> HIDE DEF e
  <2>4. /\ e \notin Turning(g) /\ e \notin Opening(g)
        /\ \A c \in Conns : e \notin DataOf(c, g) /\ e \notin ClosingOf(c, g)
    BY <2>1 DEF Turning, Opening, Closing, ClosingOf, DataOf
  <2>5. QED
    BY <1>1, <2>1, <2>2, <2>3, <2>4, ToldMore
<1>3. CASE ~attached
  <2>1. dq' = dq
    BY <1>3 DEF Enqueue
  <2>2. Undisturbed(dq, dq', Notices(generation))
    BY <2>1, Untouched
  <2>3. QED
    BY <1>3, <2>2, ToldKept
<1>4. QED
  BY <1>2, <1>3

LEMMA ConnectBadPathTold ==
    ASSUME Typed, Told, ConnectBadPath
    PROVE  Told'
<1>1. /\ ioq # <<>> /\ ioq' = Tail(ioq) \o <<>> /\ peer = None /\ H.token \in 0..generation
      /\ Enqueue(<<Note("connect_failed", None, H.token)>>)
      /\ UNCHANGED <<generation, app, running, attached, peer>>
  BY Heads DEF ConnectBadPath, MayConnect, Running, Posting, IoUnchanged, scopeVars, connVars
<1>2. \A c \in Conns : Heard(c)'
  BY <1>1, HeardTaken
<1>3. QED
  BY <1>1, <1>2, TrialTold

LEMMA ConnectDoneTold ==
    ASSUME Typed, Tracks, Told, ConnectDone
    PROVE  Told'
<1>1. /\ ioq # <<>> /\ ioq' = Tail(ioq) \o <<>> /\ H.token \in 0..generation /\ H.op = "connectDone"
      /\ UNCHANGED <<generation, app, running, attached, peer, session>>
  BY Heads DEF ConnectDone, Running, H, Posting, IoUnchanged, scopeVars
<1>2. H \in IoEntries /\ H.conn \in Conns /\ H.token \in Nat
  BY <1>1, Heads, IoRead
<1>3. \A c \in Conns : /\ Heard(c)'
                       /\ Has(ioq', Handlers("announce", c)) <=> Has(ioq, Handlers("announce", c))
  <2>1. \A c \in Conns : H \notin Handlers("announce", c)
    BY <1>1 DEF Handlers
  <2>2. QED
    BY <1>1, <2>1, HeardTaken
<1>4. CASE connecting = H.conn /\ Enqueue(<<Note("connect_failed", None, H.token)>>)
  <2>1. peer = None
    BY <1>2, <1>4, Names DEF Tracks
  <2>2. QED
    BY <1>1, <1>3, <1>4, <2>1, TrialTold
<1>5. CASE dq' = dq \/ Enqueue(<<Conn("verify", H.conn, H.token, "")>>)
  <2> DEFINE e == Conn("verify", H.conn, H.token, "")
             N == Notices(generation)
  <2>1. e \in DqEntries /\ e \notin N
    BY <1>2, DqMade DEF Notices, Conn, Entry
  <2>2. dq \in Seq(DqEntries) /\ (dq' = dq \/ dq' = dq \o <<e>>)
    BY <1>5 DEF Enqueue, Typed, DqTyped
  <2> HIDE DEF e, N
  <2>3. <<e>> \in Seq(DqEntries) /\ ~Has(<<e>>, N)
    BY <2>1, Made
  <2>4. Undisturbed(dq, dq', N)
    BY <2>2, <2>3, SentElsewhere, Untouched
  <2>5. \A c \in Conns : Announced(c)' <=> Announced(c)
    BY <1>1, <1>3 DEF Announced
  <2>6. QED
    BY <1>1, <1>3, <2>4, <2>5, ToldKept DEF N
<1>6. QED
  BY <1>4, <1>5 DEF ConnectDone

LEMMA HandleConnectedSocketTold ==
    ASSUME Typed, Tracks, Told, HandleConnectedSocket
    PROVE  Told'
<1>1. /\ ioq # <<>> /\ H.token \in 0..generation /\ H.op = "verified"
      /\ UNCHANGED <<generation, app, running, attached, session>> /\ ioq \in Seq(IoEntries)
  BY Heads DEF HandleConnectedSocket, Running, H, IoUnchanged, scopeVars, Typed, IoTyped
<1>2. H \in IoEntries /\ H.conn \in Conns /\ H.token \in Nat
  BY <1>1, Heads, IoRead
<1>3. connecting = H.conn => peer = None
  BY <1>2, Names DEF Tracks
<1>4. ASSUME ioq' = Tail(ioq) \o <<>>
      PROVE  \A c \in Conns :
               /\ Heard(c)'
               /\ Has(ioq', Handlers("announce", c)) <=> Has(ioq, Handlers("announce", c))
  <2>1. \A c \in Conns : H \notin Handlers("announce", c)
    BY <1>1 DEF Handlers
  <2>2. QED
    BY <1>1, <1>4, <2>1, HeardTaken
<1>5. CASE ioq' = Tail(ioq) \o <<>> /\ UNCHANGED <<peer, dq>>
  <2>1. \A c \in Conns : Announced(c)' <=> Announced(c)
    BY <1>1, <1>4, <1>5 DEF Announced
  <2>2. Undisturbed(dq, dq', Notices(generation))
    BY <1>5, Untouched
  <2>3. QED
    BY <1>1, <1>4, <1>5, <2>1, <2>2, ToldKept
<1>6. CASE /\ ioq' = Tail(ioq) \o <<>> /\ peer' = peer /\ connecting = H.conn
           /\ Enqueue(<<Note("verification_failed", None, H.token)>>)
  BY <1>1, <1>3, <1>4, <1>6, TrialTold
<1>7. CASE /\ connecting = H.conn /\ peer' = H.conn /\ dq' = dq
           /\ Posting(<<Conn("peerStart", H.conn, 0, ""), Conn("announce", H.conn, H.token, "")>>)
  <2> DEFINE s == Conn("peerStart", H.conn, 0, "")
             a == Conn("announce", H.conn, H.token, "")
             t == Tail(ioq)
             x == <<s, a>>
  <2>1. PICK c \in Conns : c = H.conn
    BY <1>2
  <2>2. /\ s \in IoEntries /\ s.op = "peerStart" /\ s.conn = c
        /\ a \in IoEntries /\ a.op = "announce" /\ a.conn = c
    BY <1>2, <2>1, IoMade DEF Conn, Entry
  <2>3. ioq' = t \o x /\ t \in Seq(IoEntries)
    BY <1>1, <1>7, TakenHas, Made DEF Posting
  <2> HIDE DEF s, a
  <2>4. x \in Seq(IoEntries)
    BY <2>2, Said
  <2>5. ASSUME NEW d \in Conns
        PROVE  Heard(d)' /\ (d = c => Has(ioq', Handlers("announce", d)))
    <3> DEFINE A == Handlers("announce", d)
               F == Handlers("forward", d)
    <3>1. NotBefore(ioq, A, A) /\ NotBefore(ioq, F, A)
      BY DEF Told, Heard
    <3>2. /\ s \notin A /\ s \notin F /\ a \notin F /\ (a \in A <=> d = c)
      BY <2>2 DEF Handlers
    <3>3. d = c => ~Has(t, A) /\ ~Has(t, F)
      <4> SUFFICES ASSUME d = c
                   PROVE  ~Has(t, A) /\ ~Has(t, F)
        OBVIOUS
      <4>1. ~Has(ioq, OfPeer(c))
        BY <1>7, <2>1 DEF Tracks, Tracked, Begun, Young
      <4>2. A \subseteq OfPeer(c) /\ F \subseteq OfPeer(c)
        BY DEF Handlers, OfPeer
      <4>3. ~Has(ioq, A) /\ ~Has(ioq, F)
        BY <4>1, <4>2 DEF Has
      <4> HIDE DEF A, F
      <4>4. QED
        BY <1>1, <2>3, <4>3, TakenHas, Made
    <3> HIDE DEF A, F, x
    <3>4. (Has(x, A) <=> s \in A \/ a \in A) /\ ~Has(x, F) /\ NotBefore(x, A, A) /\ NotBefore(x, F, A)
      BY <3>2, Literals DEF x
    <3>5. NotBefore(t, A, A) /\ NotBefore(t, F, A)
      BY <1>1, <2>4, <3>1, Taken
    <3>6. NotBefore(ioq', A, A) /\ NotBefore(ioq', F, A) /\ (Has(ioq', A) <=> Has(t, A) \/ Has(x, A))
      BY <2>3, <2>4, <3>2, <3>3, <3>4, <3>5, Joined
    <3>7. QED
      BY <3>2, <3>4, <3>6 DEF Heard, A, F
  <2>6. Undisturbed(dq, dq', Notices(generation))
    BY <1>7, Untouched
  <2>7. \A d \in Conns : ~Announced(d)' /\ ~Announced(d)
    BY <1>3, <1>7, <2>1, <2>5, Names DEF Announced
  <2>8. QED
    BY <1>1, <2>5, <2>6, <2>7, ToldKept
<1>8. QED
  <2>1. \/ Posting(<<>>) /\ UNCHANGED <<peer, dq>>
        \/ /\ Posting(<<>>) /\ peer' = peer /\ connecting = H.conn
           /\ Enqueue(<<Note("verification_failed", None, H.token)>>)
        \/ /\ connecting = H.conn /\ peer' = H.conn /\ dq' = dq
           /\ Posting(<<Conn("peerStart", H.conn, 0, ""), Conn("announce", H.conn, H.token, "")>>)
    BY DEF HandleConnectedSocket
  <2>2. QED
    BY <1>5, <1>6, <1>7, <2>1 DEF Posting

LEMMA AnnounceTold ==
    ASSUME Typed, Ordered, Sessions, Told, Announce
    PROVE  Told'
<1>1. PICK c \in Conns : c = H.conn
  BY Heads, IoRead DEF Announce, Running, H
<1>2. /\ ioq # <<>> /\ ioq' = Tail(ioq) \o <<>> /\ H.op = "announce" /\ H.token \in 0..generation
      /\ UNCHANGED <<generation, app, running, attached, peer, session>>
      /\ H \in Handlers("announce", c) /\ H.token = session[c] /\ H.token \in Nat
  <2>1. /\ ioq # <<>> /\ ioq' = Tail(ioq) \o <<>> /\ H.op = "announce" /\ H.token \in 0..generation
        /\ UNCHANGED <<generation, app, running, attached, peer, session>>
    BY Heads DEF Announce, Running, H, Posting, IoUnchanged, scopeVars, connVars
  <2>2. H \in IoEntries /\ H.token \in Nat
    BY <2>1, Heads, IoRead
  <2>3. H.token = session[c]
    BY <1>1, <2>1, HeadDated DEF DatedOps
  <2>4. QED
    BY <1>1, <2>1, <2>2, <2>3 DEF Handlers
<1>3. \A d \in Conns :
        /\ Heard(d)'
        /\ d # c => (Has(ioq', Handlers("announce", d)) <=> Has(ioq, Handlers("announce", d)))
        /\ d = c => ~Has(ioq', Handlers("announce", d))
  <2>1. \A d \in Conns : d # c => H \notin Handlers("announce", d)
    BY <1>1 DEF Handlers
  <2>2. QED
    BY <1>2, <2>1, HeardTaken
<1>4. Has(ioq, Handlers("announce", c))
  BY <1>2, HeadHas
<1> DEFINE e == Note("connected", c, H.token)
           g == generation
<1>5. e \in DqEntries /\ e.what = "connected" /\ e.token = session[c] /\ e.conn = c /\ e.op = "note"
  BY <1>2, DqMade DEF Note, Conn, Entry
<1>6. /\ attached /\ peer = c => dq' = dq \o <<e>>
      /\ ~attached => dq' = dq
      /\ peer # c => dq' = dq \o <<>> \/ dq' = dq
  <2>1. attached => Locked
    BY DEF Ordered, Locked
  <2>2. QED
    BY <1>1, <2>1 DEF Announce, Enqueue
<1> HIDE DEF e
<1>7. dq \in Seq(DqEntries)
  BY DEF Typed, DqTyped
<1>8. CASE ~attached
  BY <1>2, <1>3, <1>6, <1>8, Untouched, ToldKept
<1>9. CASE peer # c
  <2>1. dq' = dq
    BY <1>6, <1>7, <1>9
  <2>2. \A d \in Conns : Announced(d)' <=> Announced(d)
    BY <1>2, <1>3, <1>9 DEF Announced
  <2>3. QED
    BY <1>2, <1>3, <2>1, <2>2, Untouched, ToldKept
<1>10. CASE attached /\ peer = c /\ session[c] # g
  <2>1. \A d \in Conns : ~Announced(d)' /\ ~Announced(d)
    BY <1>2, <1>10 DEF Announced
  <2>2. e \notin Notices(g)
    BY <1>5, <1>10 DEF Notices
  <2> DEFINE N == Notices(g)
  <2> HIDE DEF N
  <2>3. <<e>> \in Seq(DqEntries) /\ ~Has(<<e>>, N)
    BY <1>5, <2>2, Made DEF N
  <2>4. Undisturbed(dq, dq', N)
    BY <1>6, <1>7, <1>10, <2>3, SentElsewhere
  <2>5. QED
    BY <1>2, <1>3, <2>1, <2>4, ToldKept DEF N
<1>11. CASE attached /\ peer = c /\ session[c] = g
  <2>1. \A d \in Conns : ~Announced(d)
    BY <1>4, <1>11 DEF Announced
  <2>2. ToldOfNone
    BY <1>11, <2>1 DEF Told, UpToDate
  <2>3. running
    BY <1>11, Names DEF Sessions, Underway, Current
  <2>4. Announced(c)' /\ \A d \in Conns : Announced(d)' => d = c
    BY <1>2, <1>3, <1>11 DEF Announced
  <2>5. e \in OpeningOf(c, g) /\ \A d \in Conns : e \notin DataOf(d, g) /\ e \notin ClosingOf(d, g)
    BY <1>5, <1>11 DEF OpeningOf, Opening, Notices, DataOf, ClosingOf, Closing
  <2>6. dq' = dq \o <<e>> /\ Undisturbed(dq, dq, Notices(g))
    BY <1>6, <1>11, Untouched
  <2>7. QED
    BY <1>2, <1>3, <1>5, <1>7, <2>2, <2>3, <2>4, <2>5, <2>6, ToldMore
<1>12. QED
  BY <1>8, <1>9, <1>10, <1>11

\* Callbacks first, and then the notification.
LEMMA CompletingTold ==
    ASSUME Typed, NEW reqs \in Seq(Requests), NEW entries \in Seq(DqEntries), Completing(reqs, entries)
    PROVE  /\ ~attached => dq' = dq
           /\ attached => \E q \in Seq(DqEntries) : /\ Undisturbed(dq, q, Notices(generation))
                                                    /\ dq' = q \o entries
<1>1. /\ attached => \E cbs \in Seq(CallBacks) : dq' = (dq \o cbs) \o entries
      /\ ~attached => dq' = dq
  <2>1. DqEntries \in SUBSET DqEntries
    OBVIOUS
  <2>2. QED
    BY <2>1, Completed
<1>2. ASSUME NEW cbs \in Seq(CallBacks)
      PROVE  dq \o cbs \in Seq(DqEntries) /\ Undisturbed(dq, dq \o cbs, Notices(generation))
  <2> DEFINE N == Notices(generation)
  <2>1. CallBacks \subseteq DqEntries /\ \A e \in CallBacks : e \notin N
    BY DEF DqEntries, Notices, CallBacks
  <2> HIDE DEF N
  <2>2. cbs \in Seq(DqEntries) /\ ~Has(cbs, N) /\ dq \in Seq(DqEntries)
    BY <2>1 DEF Has, Typed, DqTyped
  <2>3. dq \o cbs \in Seq(DqEntries)
    BY <2>2
  <2>4. Undisturbed(dq, dq \o cbs, N)
    BY <2>2, SentElsewhere
  <2>5. QED
    BY <2>3, <2>4 DEF N
<1>3. QED
  BY <1>1, <1>2

\* A peer goes, and an application that has to know is told.
LEMMA ForwardTold ==
    ASSUME Typed, Sessions, Told, Forward
    PROVE  Told'
<1>1. PICK c \in Conns : c = H.conn
  BY Heads, IoRead DEF Forward, Running, H
<1>2. /\ ioq # <<>> /\ ioq' = Tail(ioq) \o <<>> /\ H.op = "forward" /\ H.token \in 0..generation
      /\ UNCHANGED <<generation, app, running, attached, session>>
      /\ H \in Handlers("forward", c) /\ H.token = session[c] /\ H.token \in Nat /\ H.what \in Signals
  <2>1. /\ ioq # <<>> /\ ioq' = Tail(ioq) \o <<>> /\ H.op = "forward" /\ H.token \in 0..generation
        /\ UNCHANGED <<generation, app, running, attached, session>>
    BY Heads DEF Forward, Running, H, Posting, IoUnchanged, scopeVars
  <2>2. H \in IoEntries /\ H.token \in Nat /\ H.what \in Signals
    BY <2>1, Heads, IoRead
  <2>3. H.token = session[c]
    BY <1>1, <2>1, HeadDated DEF DatedOps
  <2>4. QED
    BY <1>1, <2>1, <2>2, <2>3 DEF Handlers
<1>3. \A d \in Conns : /\ Heard(d)'
                       /\ Has(ioq', Handlers("announce", d)) <=> Has(ioq, Handlers("announce", d))
                       /\ d = c => ~Has(ioq, Handlers("announce", d))
  <2>1. \A d \in Conns : H \notin Handlers("announce", d)
    BY <1>2 DEF Handlers
  <2>2. QED
    BY <1>2, <2>1, HeardTaken
<1> DEFINE n == Note(H.what, c, H.token)
           entries == IF H.what \in Forwarded THEN <<n>> ELSE <<>>
           g == generation
<1>4. H.what \in Forwarded => /\ n \in DqEntries /\ n.what = H.what /\ n.token = session[c] /\ n.conn = c
                              /\ H.what \in {"received", "error", "closed"}
  BY <1>2, DqMade DEF Note, Conn, Entry, Forwarded
<1> HIDE DEF n
<1>5. CASE ~(Locked /\ peer = c)
  <2>1. UNCHANGED <<dq, peer>>
    BY <1>1, <1>5 DEF Forward
  <2>2. \A d \in Conns : Announced(d)' <=> Announced(d)
    BY <1>2, <1>3, <2>1 DEF Announced
  <2>3. QED
    BY <1>2, <1>3, <2>1, <2>2, Untouched, ToldKept
<1>6. CASE Locked /\ peer = c
  <2> DEFINE reqs == CASE H.what = "received" -> <<>>
                       [] H.what = "response" -> IF H.req \in pending THEN <<H.req>> ELSE <<>>
                       [] OTHER -> AllPending
  <2>1. Completing(reqs, entries) /\ peer' = IF H.what = "closed" THEN None ELSE peer
    BY <1>1, <1>6 DEF Forward, n
  <2>2. reqs \in Seq(Requests) /\ entries \in Seq(DqEntries)
    <3>1. pending \subseteq Requests
      BY DEF Typed, RequestTyped
    <3>2. reqs \in Seq(Requests)
      BY <3>1, Listed
    <3>3. entries \in Seq(DqEntries)
      BY <1>4, Said
    <3>4. QED
      BY <3>2, <3>3
  <2> HIDE DEF reqs
  <2>3. /\ ~attached => dq' = dq
        /\ attached => \E q \in Seq(DqEntries) : Undisturbed(dq, q, Notices(g)) /\ dq' = q \o entries
    BY <2>1, <2>2, CompletingTold
  <2>4. CASE ~attached
    BY <1>2, <1>3, <2>3, <2>4, Untouched, ToldKept
  <2>5. ASSUME attached
        PROVE  Told'
    <3>1. PICK q \in Seq(DqEntries) : Undisturbed(dq, q, Notices(g)) /\ dq' = q \o entries
      BY <2>3, <2>5
    <3>2. CASE H.what \notin Forwarded
      <4>1. dq' = q
        BY <3>1, <3>2
      <4>2. \A d \in Conns : Announced(d)' <=> Announced(d)
        BY <1>2, <1>3, <2>1, <3>2 DEF Announced, Forwarded
      <4>3. QED
        BY <1>2, <1>3, <3>1, <4>1, <4>2, ToldKept
    <3>3. CASE H.what \in Forwarded /\ session[c] # g
      <4>1. \A d \in Conns : ~Announced(d)' /\ ~Announced(d)
        BY <1>2, <1>6, <2>1, <3>3, Names DEF Announced
      <4>2. n \notin Opening(g) /\ n \notin Turning(g) /\ n \notin Trials(g)
            /\ \A d \in Conns : n \notin DataOf(d, g) /\ n \notin ClosingOf(d, g)
        <5>1. n \notin Notices(g)
          BY <1>4, <3>3 DEF Notices
        <5>2. QED
          BY <5>1, Subjects
      <4>3. ToldOfNone
        BY <2>5, <4>1 DEF Told, UpToDate
      <4>4. dq' = q \o <<n>>
        BY <3>1, <3>3
      <4>5. QED
        BY <1>2, <1>3, <1>4, <3>1, <3>3, <4>1, <4>2, <4>3, <4>4, ToldMore
    <3>4. CASE H.what \in Forwarded /\ session[c] = g
      <4>1. Announced(c) /\ ToldOf(c) /\ \A d \in Conns : Announced(d) => d = c
        BY <1>3, <1>6, <2>5, <3>4 DEF Announced, Told, UpToDate
      <4>2. dq' = q \o <<n>>
        BY <3>1, <3>4
      <4>3. /\ n \notin Opening(g) /\ n \notin Trials(g)
            /\ \A d \in Conns : n \in DataOf(d, g) \/ n \in ClosingOf(d, g) => d = c
            /\ n \in Turning(g) <=> H.what = "closed"
            /\ n \in Closing(g) <=> H.what = "closed"
        <5>1. n.op = "note" /\ n.token = g /\ n.what = H.what /\ n.conn = c /\ n \in DqEntries
          BY <1>4, <3>4 DEF Note, Conn, Entry, n
        <5>2. H.what \in {"received", "error", "closed"}
          BY <1>4, <3>4
        <5>3. QED
          BY <5>1, <5>2 DEF Opening, Trials, DataOf, ClosingOf, Turning, Closing, Notices
      <4>4. CASE H.what = "closed"
        <5>1. \A d \in Conns : ~Announced(d)'
          BY <2>1, <4>4, Names DEF Announced
        <5>2. QED
          BY <1>2, <1>3, <1>4, <3>1, <3>4, <4>1, <4>2, <4>3, <4>4, <5>1, ToldMore
      <4>5. CASE H.what # "closed"
        <5>1. \A d \in Conns : Announced(d)' <=> Announced(d)
          BY <1>2, <1>3, <2>1, <4>5 DEF Announced
        <5>2. QED
          BY <1>2, <1>3, <1>4, <3>1, <3>4, <4>1, <4>2, <4>3, <4>5, <5>1, ToldMore
      <4>6. QED
        BY <4>4, <4>5
    <3>5. QED
      BY <3>2, <3>3, <3>4
  <2>6. QED
    BY <2>4, <2>5
<1>7. QED
  BY <1>5, <1>6

LEMMA RequestTimeoutTold ==
    ASSUME Typed, PendingHasPeer, Sessions, Questions, Told, RequestTimeout
    PROVE  Told'
<1>1. /\ ioq # <<>> /\ H.op = "timeout" /\ H \in IoEntries /\ H.req \in Requests
      /\ UNCHANGED <<generation, app, running, attached, session>>
  <2>1. /\ ioq # <<>> /\ H.op = "timeout" /\ H \in IoEntries
        /\ UNCHANGED <<generation, app, running, attached, session>>
    BY Heads DEF RequestTimeout, Running, H, IoUnchanged, scopeVars
  <2>2. QED
    BY <2>1, IoRead
<1>2. \A c \in Conns : /\ Heard(c)'
                       /\ Has(ioq', Handlers("announce", c)) <=> Has(ioq, Handlers("announce", c))
  <2> DEFINE D == {H} \cup Handlers("peerClose", peer)
  <2>1. Spares(ioq, ioq', D)
    BY RequestTimeoutTyped
  <2>2. \A t \in D : t.op \notin {"announce", "forward"}
    BY <1>1 DEF Handlers
  <2> HIDE DEF D
  <2>3. QED
    BY <2>1, <2>2, HeardSpared
<1>3. ASSUME peer' = peer
      PROVE  \A c \in Conns : Announced(c)' <=> Announced(c)
  BY <1>1, <1>2, <1>3 DEF Announced
<1>4. CASE H.req \notin pending
  <2>1. UNCHANGED <<dq, peer>>
    BY <1>4 DEF RequestTimeout
  <2>2. QED
    BY <1>1, <1>2, <1>3, <2>1, Untouched, ToldKept
<1>5. ASSUME H.req \in pending
      PROVE  Told'
  <2>1. PICK r \in Requests : r = H.req
    BY <1>1
  <2>2. PICK c \in Conns : c = peer
    BY <1>5 DEF PendingHasPeer, Typed, ConnTyped
  <2> DEFINE n == Note("closed", c, requestToken[r])
             closes == InvalidateOnError
             s == IF closes THEN SetToSeq(pending \ {r}) ELSE <<>>
             reqs == <<r>> \o s
             entries == IF closes THEN <<n>> ELSE <<>>
             g == generation
  <2>3. Completing(reqs, entries) /\ peer' = IF closes THEN None ELSE peer
    BY <1>5, <2>1, <2>2, Names DEF RequestTimeout
  <2>4. /\ n \in DqEntries /\ n.what = "closed" /\ n.token = requestToken[r] /\ n.op = "note"
        /\ requestToken[r] \in 0..g /\ g \in Nat
    BY Numbers, DqMade DEF Note, Conn, Entry
  <2> HIDE DEF n
  <2>5. reqs \in Seq(Requests) /\ entries \in Seq(DqEntries)
    <3>1. <<r>> \in Seq(Requests) /\ SetToSeq(pending \ {r}) \in Seq(Requests) /\ <<>> \in Seq(Requests)
      BY Listed
    <3>2. QED
      BY <2>4, <3>1, Said
  <2> HIDE DEF reqs
  <2>6. /\ ~attached => dq' = dq
        /\ attached => \E q \in Seq(DqEntries) : Undisturbed(dq, q, Notices(g)) /\ dq' = q \o entries
    BY <2>3, <2>5, CompletingTold
  <2>7. CASE ~attached
    BY <1>1, <1>2, <2>6, <2>7, Untouched, ToldKept
  <2>8. ASSUME attached, ~closes
        PROVE  Told'
    <3>1. PICK q \in Seq(DqEntries) : Undisturbed(dq, q, Notices(g)) /\ dq' = q \o entries
      BY <2>6, <2>8
    <3>2. dq' = q /\ peer' = peer
      BY <2>3, <2>8, <3>1
    <3>3. QED
      BY <1>1, <1>2, <1>3, <3>1, <3>2, ToldKept
  <2>9. ASSUME attached, closes
        PROVE  Told'
    <3>1. PICK q \in Seq(DqEntries) : Undisturbed(dq, q, Notices(g)) /\ dq' = q \o <<n>>
      BY <2>6, <2>9
    <3>2. \A d \in Conns : ~Announced(d)'
      BY <2>3, <2>9, Names DEF Announced
    <3>3. /\ n \notin Opening(g) /\ n \notin Trials(g)
          /\ (\A d \in Conns : n \notin DataOf(d, g))
          /\ requestToken[r] = g => n \in Closing(g)
          /\ requestToken[r] # g => n \notin Turning(g)
      BY <2>4 DEF Opening, Trials, DataOf, Closing, Turning, Notices
    <3>4. requestToken[r] # g => ToldOfNone
      <4> SUFFICES ASSUME requestToken[r] # g
                   PROVE  ToldOfNone
        OBVIOUS
      <4>1. requestToken[r] >= session[c]
        BY <1>5, <2>1, <2>2, Names DEF Questions, Asked
      <4>2. session[c] \in 0..g
        BY Numbers
      <4>3. session[peer] # g
        BY <2>2, <2>4, <4>1, <4>2
      <4>4. QED
        BY <2>9, <4>3, NoneAnnounced
    <3>5. QED
      BY <1>1, <1>2, <2>4, <2>9, <3>1, <3>2, <3>3, <3>4, ToldMore
  <2>10. QED
    BY <2>7, <2>8, <2>9
<1>6. QED
  BY <1>4, <1>5

LEMMA ToldInit == Init => Told
<1> SUFFICES ASSUME Init
             PROVE  Told
  OBVIOUS
<1>1. dq = <<>> /\ ioq = <<>> /\ app = None /\ peer = None
  BY DEF Init
<1>2. ~Has(dq, Notices(generation))
  BY <1>1, Made
<1>3. Turns /\ ToldOfNone /\ Untold
  BY <1>1, <1>2, Speechless DEF Turns, ToldOfNone, Untold
<1>4. \A c \in Conns : ~Announced(c) /\ Heard(c)
  BY <1>1, Literals, Names DEF Announced, Heard
<1>5. QED
  BY <1>3, <1>4 DEF Told, UpToDate

LEMMA IdleTold ==
    ASSUME Told, UNCHANGED vars
    PROVE  Told'
<1>1. UNCHANGED <<dq, ioq, app, generation, running, attached, peer, session>>
  BY DEF vars, scopeVars, connVars
<1>2. \A c \in Conns : Heard(c)' /\ (Announced(c)' <=> Announced(c))
  BY <1>1 DEF Told, Heard, Announced
<1>3. QED
  BY <1>1, <1>2, Untouched, ToldKept

Notified == Sessions /\ Questions /\ Told

LEMMA NotifiedStep == Owned /\ Notified /\ [Next]_vars => Notified'
<1> SUFFICES ASSUME Owned, Notified, [Next]_vars
             PROVE  Notified'
  OBVIOUS
<1>0. Typed /\ PendingHasPeer /\ Ordered /\ Tracks /\ Sessions /\ Questions /\ Told
  BY DEF Owned, Notified
<1>1. Sessions' /\ Questions'
  BY <1>0, SessionsStep, QuestionsStep
<1>2. CASE \E op \in {"start", "stop", "invalidate"} : Call(op)
  BY <1>0, <1>1, <1>2, CallTold DEF Notified
<1>3. CASE \E r \in Requests : AsyncRequest(r) \/ TimerExpires(r)
  BY <1>0, <1>1, <1>3, AsyncRequestTold, TimerExpiresTold DEF Notified
<1>4. CASE DispatcherStep \/ Reconnect \/ Detach
  BY <1>0, <1>1, <1>4, StartTold, EndSessionTold, PostEndOfSessionTold, NotifyTold, VerifyTold,
     DispatchSignalTold, DebounceTold, CallBackTold, PostShutdownTold, ReconnectTold, DetachTold
     DEF DispatcherStep, Notified
<1>5. CASE IoStep \/ Destroy
  BY <1>0, <1>1, <1>5, ConnectIgnoredTold, ConnectBadPathTold, ConnectBeginsTold, ConnectDoneTold,
     HandleConnectedSocketTold, AnnounceTold, PeerStartTold, PeerCloseTold, ForwardTold,
     SendRequestTold, RequestTimeoutTold, EndConnectionTold, ShutdownTold, KeepAliveTold,
     DestroyTold DEF IoStep, Notified
<1>6. CASE \E c \in Conns : \/ \E outcome \in {"connected", "failed"} : Connects(c, outcome)
                            \/ PeerReads(c) \/ PeerEnds(c) \/ Release(c)
  BY <1>0, <1>1, <1>6, ConnectsTold, PeerReadsTold, PeerEndsTold, ReleaseTold DEF Notified
<1>7. CASE UNCHANGED vars
  BY <1>0, <1>1, <1>7, IdleTold DEF Notified
<1>8. QED
  BY <1>2, <1>3, <1>4, <1>5, <1>6, <1>7 DEF Next, Destroyed

\* What is delivered next, to an application that was told of `app'.
LEMMA NextTold ==
    ASSUME Typed, Told
    PROVE  ToldOfOneAtATime /\ (~InvalidateOnError => ClosedOnlyWhileConnected)
<1> DEFINE g == generation
<1>1. ASSUME NEW whats \in SUBSET (Notes \ {"reconnect"}), Delivers(whats)
      PROVE  /\ dq # <<>> /\ E \in Notices(g) /\ E \in DqEntries
             /\ E.what \in {"connected", "received", "error", "closed"} => E.conn \in Conns
  <2>1. /\ dq # <<>> /\ E.op = "note" /\ E.token = g /\ E \in DqEntries /\ E.what \in whats
    BY <1>1, Heads DEF Delivers, Dispatching, IsCurrent, E
  <2>2. QED
    BY <2>1, DqRead DEF Notices
<1>2. ASSUME dq # <<>>
      PROVE  /\ E \in Trials(g) => app = None
             /\ \A c \in Conns : E \in DataOf(c, g) => app = c
             /\ ~InvalidateOnError => \A c \in Conns : E \in ClosingOf(c, g) => app = c
  <2>1. dq \in Seq(DqEntries) /\ TurnsIn(dq, app, g)
    BY DEF Typed, DqTyped, Told, Turns
  <2>2. QED
    BY <1>2, <2>1, OneLess DEF E
<1>3. Delivers({"connected", "connect_failed", "verification_failed"}) => app = None
  <2> SUFFICES ASSUME Delivers({"connected", "connect_failed", "verification_failed"})
               PROVE  app = None
    OBVIOUS
  <2>1. E \in Trials(g)
    BY <1>1 DEF Delivers, Trials, Notes
  <2>2. QED
    BY <1>1, <1>2, <2>1 DEF Notes
<1>4. Delivers({"received", "error"}) => app = E.conn
  <2> SUFFICES ASSUME Delivers({"received", "error"})
               PROVE  app = E.conn
    OBVIOUS
  <2>1. E.what \in {"received", "error"} /\ dq # <<>> /\ E \in Notices(g) /\ E.conn \in Conns
    BY <1>1 DEF Delivers, Notes
  <2>2. E \in DataOf(E.conn, g)
    BY <2>1 DEF DataOf
  <2>3. QED
    BY <1>2, <2>1, <2>2
<1>5. ~InvalidateOnError /\ Delivers({"closed"}) => app = E.conn
  <2> SUFFICES ASSUME ~InvalidateOnError, Delivers({"closed"})
               PROVE  app = E.conn
    OBVIOUS
  <2>1. E.what = "closed" /\ dq # <<>> /\ E \in Notices(g) /\ E.conn \in Conns
    BY <1>1 DEF Delivers, Notes
  <2>2. E \in ClosingOf(E.conn, g)
    BY <2>1 DEF ClosingOf, Closing
  <2>3. QED
    BY <1>2, <2>1, <2>2
<1>6. QED
  BY <1>3, <1>4, <1>5 DEF ToldOfOneAtATime, ClosedOnlyWhileConnected

LEMMA Notifying == Init => Notified
BY SessionsInit, QuestionsInit, ToldInit DEF Notified

\* The application is told of one connection at a time, whatever stop, invalidate_connection and
\* a reconnect do to the notifications that are queued (notification_scope's token and its check,
\* and the posts that keep their order).
THEOREM Telling == Spec => []ToldOfOneAtATime
<1>1. Owned => Typed
  BY DEF Owned
<1>2. Notified => Told
  BY DEF Notified
<1>3. QED
  BY <1>1, <1>2, Owning, OwnedStep, Notifying, NotifiedStep, NextTold, PTL DEF Spec

\* Without invalidate_connection_on_request_error, closed is told of the connection that was
\* announced, and once (handle_closed() and the session tokens of the peer's slots).
THEOREM ClosingOnce ==
    ASSUME ~InvalidateOnError
    PROVE  Spec => []ClosedOnlyWhileConnected
<1>1. Owned => Typed
  BY DEF Owned
<1>2. Notified => Told
  BY DEF Notified
<1>3. Typed /\ Told => ClosedOnlyWhileConnected
  BY NextTold
<1>4. QED
  BY <1>1, <1>2, <1>3, Owning, OwnedStep, Notifying, NotifiedStep, PTL DEF Spec

=============================================================================
