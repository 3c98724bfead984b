--------------------------- MODULE SocketPathProofs ---------------------------
(***************************************************************************)
(* Proofs about SocketPath, for any number of servers and of paths.        *)
(***************************************************************************)
EXTENDS SocketPath, TLAPS

\* Owned is inductive relative to the types; for the closing handlers it is the
\* comparison of the owner that carries it.
Inv == TypeOK /\ Owned

\* The initial state satisfies the inductive invariant.
LEMMA InitInv == Init => Inv
  BY SocketPathAssumption DEF Init, Inv, TypeOK, Owned, Statuses

\* What close_acceptor() leaves behind: the ownership is as exact as before, and
\* the server that closed has no path, so it may end.
LEMMA CloseKeeps ==
    ASSUME Inv, NEW s \in Servers, Close(s)
    PROVE  /\ bound' = [bound EXCEPT ![s] = None]
           /\ owner' \in [Keys -> Servers \cup {None}]
           /\ file' \in [Keys -> Servers \cup {None, Stale, Other}]
           /\ Owned'
  <1> USE SocketPathAssumption DEF Inv, TypeOK
  <1>1. bound' = [bound EXCEPT ![s] = None]
    BY DEF Close
  <1>2. owner' \in [Keys -> Servers \cup {None}] /\ file' \in [Keys -> Servers \cup {None, Stale, Other}]
    BY DEF Close
  <1>3. ASSUME NEW k \in Keys, NEW t \in Servers, owner'[k] = t
        PROVE  bound'[t] = k
    BY <1>3 DEF Close, Owned
  <1>4. ASSUME NEW k \in Keys, NEW t \in Servers, file'[k] = t
        PROVE  owner'[k] = t
    BY <1>4 DEF Close, Owned
  <1> QED
    BY <1>1, <1>2, <1>3, <1>4 DEF Owned

\* Every step keeps the inductive invariant: one case per handler, call and
\* interference.
LEMMA StepInv == Inv /\ [Next]_vars => Inv'
  <1> SUFFICES ASSUME Inv, [Next]_vars PROVE Inv'
    OBVIOUS
  <1> USE SocketPathAssumption DEF Inv
  <1>1. ASSUME NEW s \in Servers, Start(s) \/ Stop(s) \/ Shutdown(s) PROVE Inv'
    <2>1. TypeOK'
      BY <1>1 DEF Start, Stop, Shutdown, Becomes, TypeOK, Statuses
    <2>2. Owned'
      BY <1>1 DEF Start, Stop, Shutdown, Owned
    <2> QED BY <2>1, <2>2
  <1>2. ASSUME NEW s \in Servers, RunStop(s) \/ RunShutdown(s) PROVE Inv'
    <2>1. Close(s)
      BY <1>2 DEF RunStop, RunShutdown
    <2>2. TypeOK'
      BY <1>2, <2>1, CloseKeeps DEF RunStop, RunShutdown, Becomes, TypeOK, Statuses
    <2> QED BY <2>1, <2>2, CloseKeeps
  <1>3. ASSUME NEW s \in Servers, AcceptFails(s) \/ HealthCheckFails(s) PROVE Inv'
    <2>1. Close(s)
      BY <1>3 DEF AcceptFails, HealthCheckFails
    <2>2. TypeOK'
      BY <1>3, <2>1, CloseKeeps DEF AcceptFails, HealthCheckFails, TypeOK
    <2> QED BY <2>1, <2>2, CloseKeeps
  <1>4. ASSUME NEW s \in Servers, BindSucceeds(s) PROVE Inv'
    <2>1. TypeOK'
      BY <1>4 DEF BindSucceeds, TypeOK
    <2>2. Owned'
      BY <1>4 DEF BindSucceeds, TypeOK, Owned
    <2> QED BY <2>1, <2>2
  <1>5. ASSUME NEW s \in Servers, BindFails(s) PROVE Inv'
    <2>1. TypeOK'
      BY <1>5 DEF BindFails, TypeOK
    <2>2. Owned'
      BY <1>5 DEF BindFails, TypeOK, Owned
    <2> QED BY <2>1, <2>2
  <1>6. ASSUME NEW s \in Servers, NEW k \in Keys, Create(s, k) \/ Relink(s, k) PROVE Inv'
    <2>1. TypeOK'
      BY <1>6 DEF Create, Relink, Becomes, TypeOK, Statuses
    <2>2. Owned'
      BY <1>6 DEF Create, Relink, Owned
    <2> QED BY <2>1, <2>2
  <1>7. ASSUME NEW k \in Keys, Meddle(k) PROVE Inv'
    <2>1. TypeOK'
      BY <1>7 DEF Meddle, TypeOK
    <2>2. Owned'
      BY <1>7 DEF Meddle, TypeOK, Owned
    <2> QED BY <2>1, <2>2
  <1>8. CASE Crash
    <2>1. TypeOK'
      BY <1>8 DEF Crash, TypeOK, Statuses
    <2>2. Owned'
      BY <1>8 DEF Crash, TypeOK, Owned
    <2> QED BY <2>1, <2>2
  <1>9. CASE UNCHANGED vars
    BY <1>9 DEF vars, TypeOK, Owned
  <1> QED
    BY <1>1, <1>2, <1>3, <1>4, <1>5, <1>6, <1>7, <1>8, <1>9 DEF Next, ServerStep

\* The inductive invariant holds in every state.
THEOREM Invariance == Spec => []Inv
  BY InitInv, StepInv, PTL DEF Spec

\* The types of the state, and that only a server whose session has not ended
\* remembers a path.
THEOREM TypeCorrect == Spec => []TypeOK
  <1>1. Inv => TypeOK
    BY DEF Inv
  <1> QED BY <1>1, Invariance, PTL

\* runtime's owner map and the socket files of the process match, whoever binds,
\* closes, is destroyed or meddles with the files.
THEOREM OwnersAreExact == Spec => []Owned
  <1>1. Inv => Owned
    BY DEF Inv
  <1> QED BY <1>1, Invariance, PTL

\* A server that closes leaves the file of every server that listens: the entry
\* of that path in the owner map is not its own.
LEMMA StepRemoves ==
    ASSUME Inv, Next, NEW s \in Servers, NEW t \in Servers,
           bound[s] # None, bound'[s] = None,
           bound[t] # None, bound'[t] = bound[t], file[bound[t]] = t
    PROVE  file'[bound[t]] = t
  <1> USE SocketPathAssumption DEF Inv, TypeOK, Owned
  <1>1. bound[t] \in Keys /\ owner[bound[t]] = t /\ s # t
    OBVIOUS
  <1>2. ASSUME NEW r \in Servers, Close(r) PROVE file'[bound[t]] = t
    <2>1. r # t
      BY <1>2 DEF Close
    <2> QED BY <1>1, <1>2, <2>1 DEF Close
  <1>3. ASSUME NEW r \in Servers, ServerStep(r) PROVE Close(r)
    <2>1. bound' # bound
      OBVIOUS
    <2>2. ~BindSucceeds(r)
      BY DEF BindSucceeds
    <2> QED
      BY <1>3, <2>1, <2>2 DEF ServerStep, Start, Stop, RunStop, Shutdown, RunShutdown, BindFails,
                              AcceptFails, HealthCheckFails
  <1>4. bound' # bound /\ bound' # [r \in Servers |-> None]
    OBVIOUS
  <1> QED
    BY <1>2, <1>3, <1>4 DEF Next, Create, Relink, Meddle, Crash

\* old_server_shutdown_does_not_remove_new_server_socket_path, for every way a
\* server closes.
THEOREM ClosingRemovesOnlyItsOwn == Spec => RemovesOnlyItsOwn
  <1> DEFINE Step == \A s, t \in Servers :
         /\ bound[s] # None /\ bound'[s] = None
         /\ bound[t] # None /\ bound'[t] = bound[t] /\ file[bound[t]] = t
         => file'[bound[t]] = t
  <1>1. Inv /\ [Next]_vars => [Step]_vars
    BY StepRemoves
  <1>2. RemovesOnlyItsOwn <=> [][Step]_vars
    BY DEF RemovesOnlyItsOwn
  <1> HIDE DEF Step
  <1> QED BY <1>1, <1>2, Invariance, PTL DEF Spec

=============================================================================
