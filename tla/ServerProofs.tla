---------------------------- MODULE ServerProofs ----------------------------
(***************************************************************************)
(* Theorems about Server for every number of listeners, connections and    *)
(* callers of Shutdown and Close, with their proofs.                       *)
(***************************************************************************)
EXTENDS Server, TLAPS

-----------------------------------------------------------------------------
(* Type correctness.                                                       *)

LEMMA InitType == Init => TypeOK
<1> SUFFICES ASSUME Init PROVE TypeOK
  OBVIOUS
<1>1. requests \in [Conns -> 0 .. MaxRequests]
  BY ServerAssumption DEF Init
<1>2. \A l \in Listeners : serve[l] = "start" /\ hand[l] = NoConn
  BY DEF Init
<1> QED
  BY <1>1, <1>2 DEF Init, TypeOK

LEMMA ServeType ==
  ASSUME TypeOK, NEW l \in Listeners, ServeStart(l) \/ ServeStep(l) \/ ListenerBreaks(l)
  PROVE  TypeOK'
<1> USE DEF TypeOK, connVars, registryVars, serveVars
<1>1. CASE ServeStart(l) \/ AcceptFails(l) \/ ServeReturns(l) \/ ListenerBreaks(l)
  BY <1>1 DEF ServeStart, AcceptFails, ServeReturns, ListenerBreaks, ServeTo
<1>2. ASSUME NEW c \in Conns, Accept(l, c) PROVE TypeOK'
  BY <1>2, ServerAssumption DEF Accept, ServeTo
<1>3. CASE Handshake(l)
  BY <1>3, ServerAssumption DEF Handshake, ServeTo, Release
<1>4. CASE NewConn(l)
  BY <1>4, ServerAssumption DEF NewConn, ServeTo, Release
<1>5. CASE Launch(l)
  BY <1>5, ServerAssumption DEF Launch, ServeTo, Release
<1> QED
  BY <1>1, <1>2, <1>3, <1>4, <1>5 DEF ServeStep

LEMMA StopType ==
  ASSUME TypeOK, NEW d \in Shutdowns \cup Closers,
         ShutdownStart(d) \/ ShutdownStep(d) \/ ShutdownCtxDone(d) \/ Close(d)
  PROVE  TypeOK'
<1> USE DEF TypeOK, connVars, registryVars, serveVars, StopTo, CloseConns, CloseListeners
<1>1. CASE ShutdownStart(d) \/ Close(d)
  BY <1>1 DEF ShutdownStart, Close
<1>2. CASE ShutdownStep(d) \/ ShutdownCtxDone(d)
  BY <1>2 DEF ShutdownStep, Sweep, CountConnections, Tick, ShutdownCtxDone
<1> QED
  BY <1>1, <1>2

ConnStep(c) == \/ RequestArrives(c) \/ RequestEnds(c) \/ UpdateState(c)
               \/ DelConnection(c) \/ RunClosesConn(c)

LEMMA ConnType ==
  ASSUME TypeOK, NEW c \in Conns, ConnStep(c) \/ Dial(c)
  PROVE  TypeOK'
<1> USE ServerAssumption DEF TypeOK, connVars, registryVars, serveVars, runOnly
<1>1. CASE Dial(c) \/ DelConnection(c) \/ RunClosesConn(c)
  BY <1>1 DEF Dial, DelConnection, RunClosesConn
<1>2. CASE RequestArrives(c) \/ RequestEnds(c)
  BY <1>2 DEF RequestArrives, RequestEnds
<1>3. CASE UpdateState(c)
  BY <1>3 DEF UpdateState, NewState
<1> QED
  BY <1>1, <1>2, <1>3 DEF ConnStep

\* The kinds of steps the proofs distinguish.
LEMMA NextCases ==
  ASSUME [Next]_vars
  PROVE  \/ \E l \in Listeners : ServeStart(l) \/ ServeStep(l) \/ ListenerBreaks(l)
         \/ \E d \in Shutdowns \cup Closers :
              ShutdownStart(d) \/ ShutdownStep(d) \/ ShutdownCtxDone(d) \/ Close(d)
         \/ \E c \in Conns : ConnStep(c) \/ Dial(c)
         \/ UNCHANGED vars
  BY DEF Next, RunStep, RunShutsDown, RunFails, ConnStep

LEMMA TypeNext == TypeOK /\ [Next]_vars => TypeOK'
<1> SUFFICES ASSUME TypeOK, [Next]_vars PROVE TypeOK'
  OBVIOUS
<1>1. CASE UNCHANGED vars
  BY <1>1 DEF TypeOK, vars, registryVars, serveVars, connVars
<1> QED
  BY <1>1, NextCases, ServeType, StopType, ConnType

\* Every variable of the server has its type.
THEOREM ServerTypeCorrect == Spec => []TypeOK
  BY InitType, TypeNext, PTL DEF Spec

-----------------------------------------------------------------------------
(* Listeners.                                                              *)

\* The strengthening: a listener that accepts and whose Serve has begun is
\* registered, so that Shutdown and Close find it.
ListenerInv ==
  /\ DoneStopsAccepting
  /\ \A l \in open : serve[l] # "start" => l \in listeners

LEMMA ListenerInvNext == TypeOK /\ ListenerInv /\ [Next]_vars => ListenerInv'
<1> SUFFICES ASSUME TypeOK, ListenerInv, [Next]_vars PROVE ListenerInv'
  OBVIOUS
<1> USE DEF ListenerInv, DoneStopsAccepting, TypeOK
<1>1. ASSUME NEW l \in Listeners, ServeStart(l) \/ ServeStep(l) \/ ListenerBreaks(l)
      PROVE  ListenerInv'
  <2>1. CASE ServeStart(l)
    BY <2>1 DEF ServeStart, ServeTo, ServeRefused
  <2>2. CASE ServeReturns(l) \/ ListenerBreaks(l)
    BY <2>2 DEF ServeReturns, ListenerBreaks, ServeTo, serveVars
  <2>3. ASSUME serve[l] \notin {"start", "returning", "returned"}, UNCHANGED registryVars,
               NEW to \in {"accept", "handshake", "newConn", "launch", "returning"},
               ServeTo(l, to), to = "returning" => l \notin open
        PROVE  ListenerInv'
    BY <2>3 DEF ServeTo, registryVars
  <2>4. CASE \E c \in Conns : Accept(l, c)
    BY <2>3, <2>4 DEF Accept
  <2>5. CASE AcceptFails(l)
    BY <2>3, <2>5 DEF AcceptFails
  <2>6. CASE Handshake(l) \/ Launch(l)
    BY <2>3, <2>6 DEF Handshake, Launch
  <2>7. CASE NewConn(l)
    BY <2>7 DEF NewConn, ServeTo
  <2> QED
    BY <1>1, <2>1, <2>2, <2>4, <2>5, <2>6, <2>7 DEF ServeStep
<1>2. ASSUME NEW d \in Shutdowns \cup Closers,
             ShutdownStart(d) \/ ShutdownStep(d) \/ ShutdownCtxDone(d) \/ Close(d)
      PROVE  ListenerInv'
  BY <1>2 DEF ShutdownStart, Close, CloseListeners, ShutdownStep, Sweep, CountConnections, Tick,
              ShutdownCtxDone, registryVars, serveVars
<1>3. ASSUME NEW c \in Conns, ConnStep(c) \/ Dial(c) PROVE ListenerInv'
  BY <1>3 DEF ConnStep, RequestArrives, RequestEnds, UpdateState, DelConnection, RunClosesConn,
              Dial, runOnly, registryVars, serveVars
<1>4. CASE UNCHANGED vars
  BY <1>4 DEF vars, registryVars, serveVars
<1> QED
  BY <1>1, <1>2, <1>3, <1>4, NextCases

\* A server that is done accepts on no listener, however Serve overlaps with
\* Shutdown and Close.
THEOREM DoneServerStopsAccepting == Spec => []DoneStopsAccepting
<1>1. Init => ListenerInv
  BY DEF Init, ListenerInv, DoneStopsAccepting
<1>2. ListenerInv => DoneStopsAccepting
  BY DEF ListenerInv
<1> QED
  BY <1>1, <1>2, ListenerInvNext, ServerTypeCorrect, PTL DEF Spec

-----------------------------------------------------------------------------
(* Connections.                                                            *)

\* A connection has one owner: it is dialed, or in the hand of one Serve, or
\* its run was started.
OwnerInv ==
  /\ \A c \in dialed : run[c] = "none"
  /\ \A l \in Listeners : hand[l] # NoConn => run[hand[l]] = "none" /\ hand[l] \notin dialed
  /\ \A l, m \in Listeners : hand[l] = hand[m] /\ hand[l] # NoConn => l = m

LEMMA OwnerInvNext == TypeOK /\ OwnerInv /\ [Next]_vars => OwnerInv'
<1> SUFFICES ASSUME TypeOK, OwnerInv, [Next]_vars PROVE OwnerInv'
  OBVIOUS
<1> USE ServerAssumption DEF OwnerInv, TypeOK
<1>1. ASSUME NEW l \in Listeners, ServeStart(l) \/ ServeStep(l) \/ ListenerBreaks(l)
      PROVE  OwnerInv'
  <2>1. CASE ServeStart(l) \/ AcceptFails(l) \/ ServeReturns(l) \/ ListenerBreaks(l)
    BY <2>1 DEF ServeStart, AcceptFails, ServeReturns, ListenerBreaks, serveVars, connVars
  <2>2. ASSUME NEW c \in Conns, Accept(l, c) PROVE OwnerInv'
    BY <2>2 DEF Accept, connVars
  <2>3. CASE Handshake(l) \/ NewConn(l)
    BY <2>3 DEF Handshake, NewConn, Release, connVars
  <2>4. CASE Launch(l)
    <3>1. hand[l] \in Conns /\ hand[l] \notin dialed
      BY <2>4 DEF Launch
    <3> QED
      BY <2>4, <3>1 DEF Launch, Release
  <2> QED
    BY <1>1, <2>1, <2>2, <2>3, <2>4 DEF ServeStep
<1>2. ASSUME NEW d \in Shutdowns \cup Closers,
             ShutdownStart(d) \/ ShutdownStep(d) \/ ShutdownCtxDone(d) \/ Close(d)
      PROVE  OwnerInv'
  BY <1>2 DEF ShutdownStart, Close, ShutdownStep, Sweep, CountConnections, Tick,
              ShutdownCtxDone, serveVars, connVars
<1>3. ASSUME NEW c \in Conns, ConnStep(c) \/ Dial(c) PROVE OwnerInv'
  BY <1>3 DEF ConnStep, RequestArrives, RequestEnds, UpdateState, DelConnection, RunClosesConn,
              Dial, runOnly, serveVars, connVars
<1>4. CASE UNCHANGED vars
  BY <1>4 DEF vars, serveVars, connVars
<1> QED
  BY <1>1, <1>2, <1>3, <1>4, NextCases

LEMMA OwnerInvHolds == Spec => []OwnerInv
<1>1. Init => OwnerInv
  BY DEF Init, OwnerInv
<1> QED
  BY <1>1, OwnerInvNext, ServerTypeCorrect, PTL DEF Spec

\* The strengthening: a Shutdown or Close that has begun has closed done, and
\* after one that finished no connection is registered.
ReachInv ==
  /\ NoConnOutOfReach
  /\ \A d \in Shutdowns \cup Closers : stop[d] # "start" => done
  /\ \A d \in Shutdowns \cup Closers : stop[d] = "finished" => connections = {}

LEMMA ServeReach ==
  ASSUME TypeOK, ReachInv, NEW l \in Listeners,
         ServeStart(l) \/ ServeStep(l) \/ ListenerBreaks(l)
  PROVE  ReachInv'
<1> USE ServerAssumption DEF ReachInv, NoConnOutOfReach, Admitted, TypeOK
<1>1. CASE ServeStart(l) \/ AcceptFails(l) \/ ServeReturns(l) \/ ListenerBreaks(l)
  BY <1>1 DEF ServeStart, AcceptFails, ServeReturns, ListenerBreaks, ServeTo, registryVars,
              serveVars, connVars
<1>2. CASE \E c \in Conns : Accept(l, c)
  BY <1>2 DEF Accept, ServeTo, registryVars, connVars
<1>3. CASE Handshake(l)
  BY <1>3 DEF Handshake, ServeTo, Release, registryVars, connVars
<1>4. CASE NewConn(l)
  <2>1. CASE AddRefused
    BY <1>4, <2>1 DEF NewConn, ServeTo, Release, connVars
  <2>2. CASE ~AddRefused
    BY <1>4, <2>2 DEF NewConn, ServeTo, AddRefused, connVars
  <2> QED
    BY <2>1, <2>2
<1>5. CASE Launch(l)
  BY <1>5 DEF Launch, ServeTo, Release, registryVars
<1> QED
  BY <1>1, <1>2, <1>3, <1>4, <1>5 DEF ServeStep

LEMMA StopReach ==
  ASSUME TypeOK, ReachInv, NEW d \in Shutdowns \cup Closers,
         ShutdownStart(d) \/ ShutdownStep(d) \/ ShutdownCtxDone(d) \/ Close(d)
  PROVE  ReachInv'
<1> USE DEF ReachInv, NoConnOutOfReach, Admitted, TypeOK, StopTo, serveVars, connVars
<1>1. CASE ShutdownStart(d)
  BY <1>1 DEF ShutdownStart
<1>2. CASE Sweep(d) \/ Close(d)
  BY <1>2 DEF Sweep, Close, CloseConns
<1>3. CASE CountConnections(d)
  BY <1>3 DEF CountConnections, registryVars
<1>4. CASE Tick(d) \/ ShutdownCtxDone(d)
  BY <1>4 DEF Tick, ShutdownCtxDone, registryVars
<1> QED
  BY <1>1, <1>2, <1>3, <1>4 DEF ShutdownStep

LEMMA ConnReach ==
  ASSUME TypeOK, OwnerInv, ReachInv, NEW c \in Conns, ConnStep(c) \/ Dial(c)
  PROVE  ReachInv'
<1> USE ServerAssumption DEF ReachInv, NoConnOutOfReach, Admitted, TypeOK, runOnly
<1>1. CASE Dial(c) \/ RequestArrives(c) \/ RequestEnds(c) \/ UpdateState(c)
  BY <1>1 DEF Dial, RequestArrives, RequestEnds, UpdateState, registryVars, serveVars, connVars
\* No Serve has a connection whose run is under way in its hand.
<1>2. CASE DelConnection(c)
  BY <1>2 DEF DelConnection, OwnerInv, serveVars
<1>3. CASE RunClosesConn(c)
  BY <1>3 DEF RunClosesConn, serveVars
<1> QED
  BY <1>1, <1>2, <1>3 DEF ConnStep

LEMMA ReachInvHolds == Spec => []ReachInv
<1>1. Init => ReachInv
  BY DEF Init, ReachInv, NoConnOutOfReach, Admitted
<1>2. TypeOK /\ OwnerInv /\ ReachInv /\ [Next]_vars => ReachInv'
  <2> SUFFICES ASSUME TypeOK, OwnerInv, ReachInv, [Next]_vars PROVE ReachInv'
    OBVIOUS
  <2>1. CASE UNCHANGED vars
    BY <2>1 DEF ReachInv, NoConnOutOfReach, Admitted, vars, registryVars, serveVars, connVars
  <2> QED
    BY <2>1, NextCases, ServeReach, StopReach, ConnReach
<1> QED
  BY <1>1, <1>2, OwnerInvHolds, ServerTypeCorrect, PTL DEF Spec

\* A connection that newConn admitted is registered until its run is over or
\* it has been told to shut down.
THEOREM ConnsInReach == Spec => []NoConnOutOfReach
<1>1. ReachInv => NoConnOutOfReach
  BY DEF ReachInv
<1> QED
  BY <1>1, ReachInvHolds, PTL

\* A Shutdown that returned without error has reached every connection, also
\* the one that Serve was just admitting.
THEOREM ShutdownComplete == Spec => []ShutdownReachesAll
<1>1. ReachInv => ShutdownReachesAll
  BY DEF ReachInv, NoConnOutOfReach, ShutdownReachesAll
<1> QED
  BY <1>1, ReachInvHolds, PTL
=============================================================================
