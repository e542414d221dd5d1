------------------------------- MODULE Server -------------------------------
(***************************************************************************)
(* The ttrpc server around its connections (Server in server.go): Serve    *)
(* accepting connections on a listener, Shutdown, Close, and the sets of   *)
(* listeners and connections they share under Server.mu.  A connection is  *)
(* reduced to what these see of it: its state, its shutdown channel, and   *)
(* when its run starts and returns; ServerConn has the inside of run.      *)
(*                                                                         *)
(* Each section under mu is one step.                                      *)
(***************************************************************************)
EXTENDS Integers, FiniteSets

CONSTANTS
  Listeners,    \* one Serve is called on each
  Conns,        \* connections the clients may make
  Shutdowns,    \* goroutines that call Shutdown
  Closers,      \* goroutines that call Close
  NoConn,       \* no connection
  MaxRequests   \* bound: requests outstanding on one connection

ASSUME ServerAssumption ==
  NoConn \notin Conns /\ MaxRequests \in Nat \ {0} /\ Shutdowns \cap Closers = {}

VARIABLES
  done,         \* Server.done is closed
  listeners,    \* Server.listeners
  connections,  \* Server.connections
  open,         \* the listeners that accept
  dialed,       \* connections waiting to be accepted
  serve,        \* where each Serve is
  hand,         \* the connection it is working on
  stop,         \* where each Shutdown and Close is
  run,          \* where serverConn.run is, per connection
  state,        \* serverConn.state
  shutdown,     \* the connections whose shutdown channel is closed
  listening,    \* the connections whose receiver will take another frame
  requests,     \* outstanding requests, per connection
  closed        \* the connections the server closed

registryVars == <<done, listeners, connections, open>>
serveVars == <<serve, hand, dialed>>
connVars == <<run, state, listening, requests>>
vars == <<registryVars, serveVars, stop, connVars, shutdown, closed>>

Init ==
  /\ done = FALSE /\ listeners = {} /\ connections = {} /\ open = Listeners
  /\ serve = [l \in Listeners |-> "start"] /\ hand = [l \in Listeners |-> NoConn]
  /\ dialed = {}
  /\ stop = [d \in Shutdowns \cup Closers |-> "start"]
  /\ run = [c \in Conns |-> "none"] /\ state = [c \in Conns |-> "idle"]
  /\ shutdown = {} /\ listening = {} /\ requests = [c \in Conns |-> 0] /\ closed = {}

-----------------------------------------------------------------------------
(* Serve.                                                                  *)

ServeTo(l, to) == serve' = [serve EXCEPT ![l] = to]

\* Faulty: Serve works on a connection it has given away.
KeepHand(l) == UNCHANGED hand
\* Serve is through with a connection.
Release(l) == hand' = [hand EXCEPT ![l] = NoConn]

\* Faulty: Serve accepts on a server that is done.
NeverDone == FALSE
ServeRefused == done

\* Register the listener, then look at done, in one section.
ServeStart(l) ==
  /\ serve[l] = "start" /\ listeners' = listeners \cup {l}
  /\ ServeTo(l, IF ServeRefused THEN "returning" ELSE "accept")
  /\ UNCHANGED <<done, connections, open, hand, dialed, stop, connVars, shutdown, closed>>

Accept(l, c) ==
  /\ serve[l] = "accept" /\ l \in open /\ c \in dialed
  /\ dialed' = dialed \ {c} /\ hand' = [hand EXCEPT ![l] = c]
  /\ ServeTo(l, "handshake")
  /\ UNCHANGED <<registryVars, stop, connVars, shutdown, closed>>

\* Accept fails for good: the listener is closed.  After a temporary error
\* Serve sleeps and accepts again, which changes nothing here.
AcceptFails(l) ==
  /\ serve[l] = "accept" /\ l \notin open /\ ServeTo(l, "returning")
  /\ UNCHANGED <<registryVars, hand, dialed, stop, connVars, shutdown, closed>>

Handshake(l) ==
  /\ serve[l] = "handshake"
  /\ \/ ServeTo(l, "newConn") /\ UNCHANGED <<hand, closed>>
     \/ /\ ServeTo(l, "accept") /\ closed' = closed \cup {hand[l]}
        /\ Release(l)
  /\ UNCHANGED <<registryVars, dialed, stop, connVars, shutdown>>

\* Faulty: addConnection does not look at done.
NeverRefused == FALSE
AddRefused == done

\* newConn: addConnection, and when it refuses close the connection.
NewConn(l) ==
  /\ serve[l] = "newConn"
  /\ \/ /\ ~AddRefused /\ connections' = connections \cup {hand[l]}
        /\ ServeTo(l, "launch") /\ UNCHANGED <<hand, shutdown, closed>>
     \/ /\ AddRefused /\ shutdown' = shutdown \cup {hand[l]}
        /\ closed' = closed \cup {hand[l]} /\ UNCHANGED connections
        /\ ServeTo(l, "accept") /\ Release(l)
  /\ UNCHANGED <<done, listeners, open, dialed, stop, connVars>>

\* go sc.run.  Its receiver exits at once if shutdown is already closed.
Launch(l) ==
  /\ serve[l] = "launch"
  /\ run' = [run EXCEPT ![hand[l]] = "running"]
  /\ listening' = IF hand[l] \in shutdown THEN listening ELSE listening \cup {hand[l]}
  /\ ServeTo(l, "accept") /\ Release(l)
  /\ UNCHANGED <<registryVars, dialed, stop, state, requests, shutdown, closed>>

\* The deferred closeListener.
ServeReturns(l) ==
  /\ serve[l] = "returning" /\ ServeTo(l, "returned")
  /\ open' = open \ {l} /\ listeners' = listeners \ {l}
  /\ UNCHANGED <<done, connections, hand, dialed, stop, connVars, shutdown, closed>>

-----------------------------------------------------------------------------
(* Shutdown and Close.                                                     *)

StopTo(d, from, to) == stop[d] = from /\ stop' = [stop EXCEPT ![d] = to]

\* Faulty: the listeners are forgotten without being closed.
ListenersForgotten == UNCHANGED open /\ listeners' = {}
CloseListeners == open' = open \ listeners /\ listeners' = {}

ShutdownStart(d) ==
  /\ StopTo(d, "start", "sweep") /\ done' = TRUE /\ CloseListeners
  /\ UNCHANGED <<connections, serveVars, connVars, shutdown, closed>>

\* Faulty: the connections are removed but not told.
Forget(cs) == connections' = connections \ cs /\ UNCHANGED shutdown
CloseConns(cs) == connections' = connections \ cs /\ shutdown' = shutdown \cup cs

\* closeIdleConns.  The state it reads may be out of date.
Sweep(d) ==
  /\ StopTo(d, "sweep", "count")
  /\ CloseConns({c \in connections : state[c] = "idle"})
  /\ UNCHANGED <<done, listeners, open, serveVars, connVars, closed>>

CountConnections(d) ==
  /\ StopTo(d, "count", IF connections = {} THEN "finished" ELSE "wait")
  /\ UNCHANGED <<registryVars, serveVars, connVars, shutdown, closed>>

Tick(d) ==
  /\ StopTo(d, "wait", "sweep")
  /\ UNCHANGED <<registryVars, serveVars, connVars, shutdown, closed>>

ShutdownCtxDone(d) ==
  /\ StopTo(d, "wait", "gaveUp")
  /\ UNCHANGED <<registryVars, serveVars, connVars, shutdown, closed>>

Close(k) ==
  /\ StopTo(k, "start", "finished") /\ done' = TRUE /\ CloseListeners
  /\ CloseConns(connections)
  /\ UNCHANGED <<serveVars, connVars, closed>>

-----------------------------------------------------------------------------
(* serverConn.run, from outside.                                           *)

runOnly == UNCHANGED <<done, listeners, open, serveVars, stop, shutdown>>

\* The receiver accepts a request.  It looks at shutdown before it takes the
\* next frame, so one more may come after shutdown was closed.
RequestArrives(c) ==
  /\ run[c] = "running" /\ c \in listening /\ requests[c] < MaxRequests
  /\ requests' = [requests EXCEPT ![c] = @ + 1]
  /\ listening' = IF c \in shutdown THEN listening \ {c} ELSE listening
  /\ runOnly /\ UNCHANGED <<connections, run, state, closed>>

RequestEnds(c) ==
  /\ run[c] = "running" /\ requests[c] > 0
  /\ requests' = [requests EXCEPT ![c] = @ - 1]
  /\ runOnly /\ UNCHANGED <<connections, run, state, listening, closed>>

\* Faulty: run does not go back to idle.
ActiveForGood(c) == IF requests[c] > 0 THEN "active" ELSE state[c]
NewState(c) == IF requests[c] > 0 THEN "active" ELSE "idle"

\* The top of run's loop.
UpdateState(c) ==
  /\ run[c] = "running" /\ state' = [state EXCEPT ![c] = NewState(c)]
  /\ runOnly /\ UNCHANGED <<connections, run, listening, requests, closed>>

\* run returns, first calling delConnection ...
DelConnection(c) ==
  /\ run[c] = "running" /\ run' = [run EXCEPT ![c] = "closing"]
  /\ connections' = connections \ {c} /\ listening' = listening \ {c}
  /\ requests' = [requests EXCEPT ![c] = 0]
  /\ runOnly /\ UNCHANGED <<state, closed>>

\* ... because it is told to in idle mode, or because the client is gone.
RunShutsDown(c) == c \in shutdown /\ state[c] = "idle" /\ DelConnection(c)
RunFails(c) == DelConnection(c)

\* ... and at last closing the connection.
RunClosesConn(c) ==
  /\ run[c] = "closing" /\ run' = [run EXCEPT ![c] = "returned"]
  /\ closed' = closed \cup {c}
  /\ runOnly /\ UNCHANGED <<connections, state, listening, requests>>

-----------------------------------------------------------------------------
(* The environment: clients connect, a listener stops accepting.           *)

Dial(c) ==
  /\ open # {} /\ run[c] = "none" /\ c \notin dialed \cup closed
  /\ \A l \in Listeners : hand[l] # c
  /\ dialed' = dialed \cup {c}
  /\ UNCHANGED <<registryVars, serve, hand, stop, connVars, shutdown, closed>>

ListenerBreaks(l) ==
  /\ l \in open /\ open' = open \ {l}
  /\ UNCHANGED <<done, listeners, connections, serveVars, stop, connVars, shutdown, closed>>

-----------------------------------------------------------------------------
ServeStep(l) ==
  \/ \E c \in Conns : Accept(l, c)
  \/ AcceptFails(l) \/ Handshake(l) \/ NewConn(l) \/ Launch(l) \/ ServeReturns(l)

ShutdownStep(d) == Sweep(d) \/ CountConnections(d) \/ Tick(d)

RunStep(c) == RunShutsDown(c) \/ RunClosesConn(c)

Next ==
  \/ \E l \in Listeners : ServeStart(l) \/ ServeStep(l) \/ ListenerBreaks(l)
  \/ \E d \in Shutdowns : ShutdownStart(d) \/ ShutdownStep(d) \/ ShutdownCtxDone(d)
  \/ \E k \in Closers : Close(k)
  \/ \E c \in Conns : \/ Dial(c) \/ RequestArrives(c) \/ RequestEnds(c)
                      \/ UpdateState(c) \/ RunStep(c) \/ RunFails(c)

Spec == Init /\ [][Next]_vars

(***************************************************************************)
(* Fairness.  Goroutines that can run do, the ticker of Shutdown ticks,    *)
(* and a handshake ends.  Nothing is assumed of the handlers and clients.  *)
(***************************************************************************)
Fairness ==
  /\ \A l \in Listeners : WF_vars(ServeStep(l))
  /\ \A d \in Shutdowns : WF_vars(ShutdownStep(d))
  /\ \A c \in Conns : WF_vars(RunStep(c)) /\ WF_vars(UpdateState(c))

FairSpec == Spec /\ Fairness

-----------------------------------------------------------------------------
(* Properties.                                                             *)

\* Every variable has its type.
TypeOK ==
  /\ done \in BOOLEAN /\ listeners \subseteq Listeners /\ open \subseteq Listeners
  /\ connections \subseteq Conns /\ dialed \subseteq Conns
  /\ serve \in [Listeners -> {"start", "accept", "handshake", "newConn", "launch",
                              "returning", "returned"}]
  /\ hand \in [Listeners -> Conns \cup {NoConn}]
  /\ \A l \in Listeners : serve[l] \in {"handshake", "newConn", "launch"} <=> hand[l] # NoConn
  /\ stop \in [Shutdowns \cup Closers ->
                 {"start", "sweep", "count", "wait", "finished", "gaveUp"}]
  /\ run \in [Conns -> {"none", "running", "closing", "returned"}]
  /\ state \in [Conns -> {"idle", "active"}]
  /\ shutdown \subseteq Conns /\ listening \subseteq Conns /\ closed \subseteq Conns
  /\ requests \in [Conns -> 0 .. MaxRequests]

\* The connection has been admitted by newConn and its run is not over.
Admitted(c) == run[c] = "running" \/ \E l \in Listeners : serve[l] = "launch" /\ hand[l] = c

\* No connection is out of reach: one that is admitted can be found by a later
\* Shutdown or Close, or has been told to shut down already.
NoConnOutOfReach == \A c \in Conns : Admitted(c) => c \in connections \cup shutdown

\* Once a Shutdown has returned without error every connection that is left,
\* or that Serve was just admitting, has been told to shut down.
ShutdownReachesAll ==
  (\E d \in Shutdowns : stop[d] = "finished") =>
    connections = {} /\ \A c \in Conns : Admitted(c) => c \in shutdown

\* However Serve and Shutdown or Close overlap, a server that is done has no
\* listener that accepts, except in a Serve that has not looked at done yet or
\* is about to close it.
DoneStopsAccepting ==
  done => \A l \in open : serve[l] \in {"start", "returning"}

\* After Shutdown or Close every Serve returns.
ServeEnds ==
  \A l \in Listeners :
    done /\ serve[l] # "start" ~> serve[l] = "returned"

\* Shutdown returns if the clients leave the server alone at last: connections
\* that were active when it looked first are closed in a later round.
ShutdownEnds ==
  <>[](\A c \in Conns : requests[c] = 0) =>
    \A d \in Shutdowns : stop[d] = "sweep" ~> stop[d] \in {"finished", "gaveUp"}
=============================================================================
