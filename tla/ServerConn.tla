----------------------------- MODULE ServerConn -----------------------------
(***************************************************************************)
(* One connection of a ttrpc server (serverConn.run of server.go, handle   *)
(* and streamHandler of services.go).  Its goroutines are the receiver,    *)
(* the main loop, and one handler per accepted request; they meet on the   *)
(* unbuffered channel responses, on the recv channel of each stream, on    *)
(* the map streams and on the counter active.  The client is an            *)
(* environment that sends frames, and Server.Shutdown and Server.Close are *)
(* seen as the calls they make on the connection.                          *)
(*                                                                         *)
(* A handler is named by the id of its request: an id is accepted once.    *)
(***************************************************************************)
EXTENDS Integers, Sequences, FiniteSets, SequencesExt

CONSTANTS
  Unary,            \* ids the client uses for requests of unary methods
  Streams,          \* ids it uses for requests of streaming methods
  Unserved,         \* ids of requests that cannot be decoded or routed
  StreamingClient,  \* the streams whose method has StreamingClient
  StreamingServer,  \* the streams whose method has StreamingServer
  WithPayload,      \* the streams whose request has a payload
  Oversized,        \* ids whose handler may answer with more than messageLengthMax
  RecvBuf,          \* streamRecvBufferSize, 64 in the code
  ClientKinds,      \* bound: the kinds of frames the client sends
  MaxIn,            \* bound: frames the client sends
  MaxInFlight,      \* bound: frames sent and not yet received
  MaxSends,         \* bound: messages a handler sends before it returns
  ShutdownBy        \* bound: who shuts the connection down

Sids == Unary \cup Streams \cup Unserved
Kinds == {"request", "data", "dataClose", "close", "big", "other"}

ASSUME SidsAssumption ==
  /\ Sids \subseteq Nat /\ 0 \notin Sids
  /\ Unary \cap Streams = {} /\ Unserved \cap (Unary \cup Streams) = {}
  /\ StreamingClient \subseteq Streams /\ StreamingServer \subseteq Streams
  /\ WithPayload \subseteq Streams
ASSUME BoundsAssumption ==
  /\ RecvBuf \in Nat \ {0} /\ MaxSends \in Nat
  /\ MaxIn \in Nat /\ MaxInFlight \in Nat
  /\ ClientKinds \subseteq Kinds /\ ShutdownBy \subseteq {"idle", "forced"}

VARIABLES
  inbox,         \* frames in flight from the client
  peer,          \* "open"; "eof": the client went away; "broken": another read error
  outbox,        \* history: the frames written to the client, in order
  rpc,           \* where the receiver goroutine is
  cur,           \* the frame it works on
  lastStreamID,  \* lastStreamID
  stored,        \* the ids in the map streams
  active,        \* the counter active
  mpc,           \* where the main loop is
  state,         \* serverConn.state, and the state run compares it with
  mresp,         \* the response the main loop took from responses
  recvErr,       \* channel recvErr: what it holds, "taken" once it is nil
  shutdown,      \* channel shutdown: "open", or who closed it
  sawIdle,       \* closeIdleConns has read an idle state and not acted on it yet
  done,          \* channel done is closed
  hpc,           \* where each handler is
  out,           \* the frame the handler offers on responses
  recvq,         \* streamHandler.recv
  remoteClosed,  \* the streams with streamHandler.remoteClosed: recv is closed
  ctxDone,       \* the handlers whose context is done
  sentIn,        \* history: per id, the frames the client sent
  read,          \* history: per stream, the frames RecvMsg returned
  sawEOF,        \* history: the streams whose RecvMsg returned io.EOF
  refused,       \* history: the ids on which a frame was answered by a status
  started        \* history: the ids of the accepted requests, in order

recvVars == <<rpc, cur, lastStreamID, refused, started>>
mapVars == <<stored, active>>
mainVars == <<mpc, state, mresp>>
closeVars == <<shutdown, sawIdle>>
streamVars == <<recvq, remoteClosed>>
handlerVars == <<hpc, out, read, sawEOF>>
netVars == <<inbox, sentIn, peer>>
vars == <<recvVars, mapVars, mainVars, recvErr, closeVars, done, streamVars, handlerVars,
          ctxDone, netVars, outbox>>

(***************************************************************************)
(* Frames from the client, by what the receiver tells apart:               *)
(*   request                                                               *)
(*   data       Data with a message                                        *)
(*   dataClose  Data with a message and the remote closed flag             *)
(*   close      Data with the flags remote closed and no data              *)
(*   big        any frame longer than messageLengthMax                     *)
(*   other      a message type the server does not know                    *)
(* The protocol has Data only "on an already initialized stream" and not   *)
(* on a unary one: the client sends none before the request of a stream    *)
(* and none on a unary id.                                                 *)
(***************************************************************************)
DataKinds == {"data", "dataClose", "close"}
HasMessage(f) == f.kind \in {"data", "dataClose"}
HasRemoteClosed(f) == f.kind \in {"dataClose", "close"}
Frames == [sid : Sids, kind : Kinds, n : Nat \ {0}]

\* The request itself carries the first message of a stream.
Pushed(s) == s \in Streams /\ (s \in WithPayload \/ s \notin StreamingClient)
Capacity(s) == IF s \in StreamingClient THEN RecvBuf ELSE 1

\* Frames to the client: data, the last Data of a stream, or a Response, which
\* comes from the handler ("response") or from sendStatus ("status").
Terminal == {"response", "status", "dataClose"}
Responses == [sid : Sids, kind : {"data"} \cup Terminal]

NoFrame == [kind |-> "none"]

Init ==
  /\ inbox = <<>> /\ peer = "open" /\ outbox = <<>>
  /\ rpc = "top" /\ cur = NoFrame /\ lastStreamID = 0
  /\ stored = {} /\ active = 0
  /\ mpc = "top" /\ state = "idle" /\ mresp = NoFrame /\ recvErr = "empty"
  /\ shutdown = "open" /\ sawIdle = FALSE /\ done = FALSE
  /\ hpc = [s \in Sids |-> "none"] /\ out = [s \in Sids |-> NoFrame]
  /\ recvq = [s \in Sids |-> <<>>] /\ remoteClosed = {} /\ ctxDone = {}
  /\ sentIn = [s \in Sids |-> <<>>] /\ read = [s \in Sids |-> <<>>]
  /\ sawEOF = {} /\ refused = {} /\ started = <<>>

Stopped == shutdown # "open" \/ done

-----------------------------------------------------------------------------
(* The receiver goroutine.                                                 *)

\* The deferred close of recvErr: an error it already holds stays.
ReceiverExits == /\ rpc' = "exited"
                 /\ recvErr' = IF recvErr = "empty" THEN "closed" ELSE recvErr

\* Answer the frame with a status: sendStatus comes next.
Refuse(s) == rpc' = "status" /\ refused' = refused \cup {s}
Proceed == rpc' = "top" /\ UNCHANGED refused

ReceiverTop ==
  /\ rpc = "top"
  /\ \/ Stopped /\ ReceiverExits
     \/ ~Stopped /\ rpc' = "recv" /\ UNCHANGED recvErr
  /\ UNCHANGED <<cur, lastStreamID, refused, started, mapVars, mainVars, closeVars, done,
                 streamVars, handlerVars, ctxDone, netVars, outbox>>

\* Frames that are refused whatever the state is: too long, or an even id.
Malformed(f) == f.kind = "big" \/ f.sid % 2 # 1

\* Faulty: the id of the last request may be used again.
IdReused(s) == s < lastStreamID
IdRefused(s) == s <= lastStreamID

TakeFrame(f) ==
  /\ rpc = "recv" /\ inbox # <<>>
  /\ inbox' = Tail(inbox) /\ cur' = f
  /\ UNCHANGED <<mapVars, mainVars, recvErr, closeVars, done, ctxDone, sentIn, peer, outbox>>

ReceiveMalformed ==
  LET f == Head(inbox) IN
    /\ TakeFrame(f) /\ Malformed(f) /\ Refuse(f.sid)
    /\ UNCHANGED <<lastStreamID, started, streamVars, handlerVars>>

\* Data: look the stream up.  A message goes on to streamHandler.data, a
\* close without a message is done at once.
ReceiveData ==
  LET f == Head(inbox) IN
    /\ TakeFrame(f) /\ ~Malformed(f) /\ f.kind \in DataKinds
    /\ \/ f.sid \notin stored /\ Refuse(f.sid) /\ UNCHANGED remoteClosed
       \/ /\ f.sid \in stored /\ HasMessage(f) /\ UNCHANGED remoteClosed
          /\ IF f.sid \in remoteClosed
               THEN Refuse(f.sid)
               ELSE rpc' = "data" /\ UNCHANGED refused
       \/ /\ f.sid \in stored /\ ~HasMessage(f)
          /\ remoteClosed' = remoteClosed \cup {f.sid} /\ Proceed
    /\ UNCHANGED <<lastStreamID, started, recvq, handlerVars>>

\* handle starts the goroutine of the handler, then delivers the payload.
StartHandler(s) ==
  /\ hpc' = [hpc EXCEPT ![s] = "running"] /\ started' = Append(started, s)
  /\ rpc' = IF Pushed(s) THEN "data" ELSE "store"

\* A request: check its id, decode and route it, start its handler.
ReceiveRequest ==
  LET f == Head(inbox) IN
    /\ TakeFrame(f) /\ ~Malformed(f) /\ f.kind = "request"
    /\ \/ IdRefused(f.sid) /\ Refuse(f.sid) /\ UNCHANGED <<lastStreamID, started, hpc>>
       \/ /\ ~IdRefused(f.sid) /\ f.sid \in Unserved
          /\ lastStreamID' = f.sid /\ Refuse(f.sid) /\ UNCHANGED <<started, hpc>>
       \/ /\ ~IdRefused(f.sid) /\ f.sid \notin Unserved
          /\ lastStreamID' = f.sid /\ StartHandler(f.sid) /\ UNCHANGED refused
    /\ UNCHANGED <<streamVars, out, read, sawEOF>>

ReceiveOther ==
  LET f == Head(inbox) IN
    /\ TakeFrame(f) /\ ~Malformed(f) /\ f.kind = "other" /\ Proceed
    /\ UNCHANGED <<lastStreamID, started, streamVars, handlerVars>>

\* streamHandler.data, called for a Data frame and, in handle, for the
\* payload of a request.  A message that also closes the stream is delivered
\* first and refused afterwards, unless its encoding is empty.
\* Faulty: the message is sent to the channel whether it has room or not.
RoomIgnored(s) == TRUE
HasRoom(s) == Len(recvq[s]) < Capacity(s)

DataAccepted ==
  /\ rpc \in {"data", "wait"} /\ HasRoom(cur.sid)
  /\ recvq' = [recvq EXCEPT ![cur.sid] = Append(@, cur)]
  /\ IF cur.kind = "request" THEN rpc' = "store" /\ UNCHANGED <<remoteClosed, refused>>
     ELSE IF cur.kind = "data" THEN Proceed /\ UNCHANGED remoteClosed
     ELSE (Refuse(cur.sid) \/ Proceed) /\ remoteClosed' = remoteClosed \cup {cur.sid}
  /\ UNCHANGED <<cur, lastStreamID, started, mapVars, mainVars, recvErr, closeVars, done,
                 handlerVars, ctxDone, netVars, outbox>>

receiverOnly == UNCHANGED <<cur, lastStreamID, started, mainVars, closeVars, done, streamVars,
                            handlerVars, ctxDone, netVars, outbox>>

DataAborted ==
  /\ rpc \in {"data", "wait"} /\ cur.sid \in ctxDone /\ Refuse(cur.sid)
  /\ receiverOnly /\ UNCHANGED <<mapVars, recvErr>>

DataWaits ==
  /\ rpc = "data" /\ ~HasRoom(cur.sid) /\ cur.sid \notin ctxDone
  /\ rpc' = "wait" /\ UNCHANGED refused
  /\ receiverOnly /\ UNCHANGED <<mapVars, recvErr>>

\* Faulty: the message is dropped and the client not told.
FullDropped(s) == Proceed
FullRefused(s) == Refuse(s)

\* Faulty: the receiver waits for room without a timer.
NoTimer == FALSE
TimerFires == rpc = "wait"

\* The second is over: ErrStreamFull.
DataFull ==
  /\ TimerFires /\ FullRefused(cur.sid)
  /\ receiverOnly /\ UNCHANGED <<mapVars, recvErr>>

\* After handle returned: streams.Store, then the increment of active.
StoreStream ==
  /\ rpc = "store" /\ rpc' = "count" /\ stored' = stored \cup {cur.sid}
  /\ receiverOnly /\ UNCHANGED <<active, refused, recvErr>>

CountStream ==
  /\ rpc = "count" /\ Proceed /\ active' = active + 1
  /\ receiverOnly /\ UNCHANGED <<stored, recvErr>>

\* sendStatus gives up.
StatusAborted ==
  /\ rpc = "status" /\ Stopped /\ ReceiverExits
  /\ receiverOnly /\ UNCHANGED <<mapVars, refused>>

\* ch.recv fails: the client is gone, or run has closed the connection.
ReceiveFails ==
  /\ rpc = "recv"
  /\ \/ inbox = <<>> /\ peer # "open" /\ recvErr' = peer
     \/ done /\ recvErr' = "broken"
  /\ rpc' = "exited"
  /\ receiverOnly /\ UNCHANGED <<mapVars, refused>>

-----------------------------------------------------------------------------
(* The main loop.                                                          *)

mainOnly == UNCHANGED <<recvVars, closeVars, streamVars, netVars>>

MainTop ==
  /\ mpc = "top" /\ mpc' = "select"
  /\ state' = IF active > 0 THEN "active" ELSE "idle"
  /\ mainOnly /\ UNCHANGED <<mapVars, mresp, recvErr, done, handlerVars, ctxDone, outbox>>

\* The rendezvous on responses with the receiver's sendStatus ...
TakeStatus ==
  /\ mpc = "select" /\ rpc = "status"
  /\ mresp' = [sid |-> cur.sid, kind |-> "status"]
  /\ mpc' = "write" /\ rpc' = "top"
  /\ UNCHANGED <<cur, lastStreamID, refused, started, mapVars, state, recvErr, closeVars, done,
                 streamVars, handlerVars, ctxDone, netVars, outbox>>

\* ... and with a handler's respond.
TakeResponse(s) ==
  /\ mpc = "select" /\ hpc[s] = "responding"
  /\ mresp' = out[s] /\ mpc' = "write"
  /\ hpc' = [hpc EXCEPT ![s] = IF out[s].kind \in Terminal THEN "returned" ELSE "running"]
  /\ mainOnly /\ UNCHANGED <<mapVars, state, recvErr, done, out, read, sawEOF, ctxDone, outbox>>

\* run returns: its deferred calls remove and close the connection, close
\* done and cancel the context every request context derives from.
Return == mpc' = "returned" /\ done' = TRUE /\ ctxDone' = Sids

\* A terminal response finishes its stream.  A send that fails, because the
\* client is gone or the response too long, ends the whole connection.
WriteResponse ==
  /\ mpc = "write"
  /\ \/ /\ outbox' = Append(outbox, mresp)
        /\ mpc' = IF mresp.kind \in Terminal THEN "finish" ELSE "top"
        /\ UNCHANGED <<done, ctxDone>>
     \/ /\ peer # "open" \/ (mresp.sid \in Oversized /\ mresp.kind # "status")
        /\ Return /\ UNCHANGED outbox
  /\ mainOnly /\ UNCHANGED <<mapVars, state, mresp, recvErr, handlerVars>>

\* Faulty: only a stream that is in the map is counted down.
CountDownIfStored(s) == active' = IF s \in stored THEN active - 1 ELSE active
CountDown(s) == active' = active - 1

FinishStream ==
  /\ mpc = "finish" /\ mpc' = "top"
  /\ stored' = stored \ {mresp.sid} /\ CountDown(mresp.sid)
  /\ mainOnly /\ UNCHANGED <<state, mresp, recvErr, done, handlerVars, ctxDone, outbox>>

\* Faulty: run goes on after the client went away.
GoneIgnored == FALSE
ClientGone == recvErr = "eof"

\* recvErr is received, or found closed; from then on it is nil.
TakeRecvErr ==
  /\ mpc = "select" /\ recvErr \in {"eof", "broken", "closed"}
  /\ recvErr' = "taken"
  /\ IF ClientGone THEN Return ELSE mpc' = "top" /\ UNCHANGED <<done, ctxDone>>
  /\ mainOnly /\ UNCHANGED <<mapVars, state, mresp, handlerVars, outbox>>

\* The shutdown case, enabled in idle mode only.
MainShutdown ==
  /\ mpc = "select" /\ state = "idle" /\ shutdown # "open"
  /\ Return
  /\ mainOnly /\ UNCHANGED <<mapVars, state, mresp, recvErr, handlerVars, outbox>>

-----------------------------------------------------------------------------
(* Handlers.  What a handler does is the application's choice: it may call *)
(* RecvMsg and SendMsg if it has a stream, and it returns.                 *)

handlerOnly == UNCHANGED <<recvVars, mapVars, mainVars, recvErr, closeVars, done,
                           remoteClosed, ctxDone, netVars, outbox>>

Move(s, from, to) == hpc[s] = from /\ hpc' = [hpc EXCEPT ![s] = to]

RecvMsg(s) ==
  /\ s \in Streams /\ s \notin sawEOF /\ Move(s, "running", "receiving")
  /\ handlerOnly /\ UNCHANGED <<out, recvq, read, sawEOF>>

RecvMsgTakes(s) ==
  /\ Move(s, "receiving", "running") /\ recvq[s] # <<>>
  /\ read' = [read EXCEPT ![s] = Append(@, Head(recvq[s]))]
  /\ recvq' = [recvq EXCEPT ![s] = Tail(@)]
  /\ handlerOnly /\ UNCHANGED <<out, sawEOF>>

\* Faulty: RecvMsg looks at remoteClosed instead of at the closed channel.
RemoteClosedIsEOF(s) == s \in remoteClosed
\* A receive from a closed channel fails once it is empty.
ChannelDrained(s) == s \in remoteClosed /\ recvq[s] = <<>>

RecvMsgEOF(s) ==
  /\ Move(s, "receiving", "running") /\ ChannelDrained(s)
  /\ sawEOF' = sawEOF \cup {s}
  /\ handlerOnly /\ UNCHANGED <<out, recvq, read>>

RecvMsgCancelled(s) ==
  /\ Move(s, "receiving", "running") /\ s \in ctxDone
  /\ handlerOnly /\ UNCHANGED <<out, recvq, read, sawEOF>>

Respond(s, kind) ==
  /\ Move(s, "running", "responding")
  /\ out' = [out EXCEPT ![s] = [sid |-> s, kind |-> kind]]
  /\ handlerOnly /\ UNCHANGED <<recvq, read, sawEOF>>

SendMsg(s) ==
  /\ s \in Streams
  /\ Cardinality({i \in DOMAIN outbox : outbox[i] = [sid |-> s, kind |-> "data"]}) < MaxSends
  /\ Respond(s, "data")

\* The handler returns a result, which a streaming server sends as its last
\* Data, or an error, which is always a Response.
HandlerReturns(s) ==
  \/ Respond(s, "response")
  \/ s \in StreamingServer /\ Respond(s, "dataClose")

\* Faulty: respond waits for the main loop only.
RespondWaits == FALSE
RespondGivesUp == done

RespondAborted(s) ==
  /\ RespondGivesUp
  /\ Move(s, "responding", IF out[s].kind \in Terminal THEN "returned" ELSE "running")
  /\ handlerOnly /\ UNCHANGED <<out, recvq, read, sawEOF>>

\* The deadline of the request expires, or the deferred cancel runs.
ContextDone(s) ==
  /\ hpc[s] # "none" /\ s \notin ctxDone
  /\ ctxDone' = ctxDone \cup {s}
  /\ UNCHANGED <<recvVars, mapVars, mainVars, recvErr, closeVars, done, streamVars,
                 handlerVars, netVars, outbox>>

-----------------------------------------------------------------------------
(* The environment.                                                        *)

envOnly == UNCHANGED <<recvVars, mapVars, mainVars, recvErr, done, streamVars, handlerVars,
                       ctxDone, outbox>>

\* closeIdleConns reads the state, then closes.
SeeIdle ==
  /\ "idle" \in ShutdownBy
  /\ ~sawIdle /\ shutdown = "open" /\ state = "idle" /\ sawIdle' = TRUE
  /\ envOnly /\ UNCHANGED <<shutdown, netVars>>

CloseIdle ==
  /\ sawIdle /\ sawIdle' = FALSE
  /\ shutdown' = IF shutdown = "open" THEN "idle" ELSE shutdown
  /\ envOnly /\ UNCHANGED netVars

\* Server.Close.
ServerClose ==
  /\ "forced" \in ShutdownBy
  /\ shutdown = "open" /\ shutdown' = "forced"
  /\ envOnly /\ UNCHANGED <<sawIdle, netVars>>

FramesIn == Cardinality(UNION {{s} \X DOMAIN sentIn[s] : s \in Sids})

\* A frame enters the connection, which holds MaxInFlight of them.
FrameArrives(s, k) ==
  /\ Len(inbox) < MaxInFlight
  /\ LET f == [sid |-> s, kind |-> k, n |-> Len(sentIn[s]) + 1]
     IN inbox' = Append(inbox, f) /\ sentIn' = [sentIn EXCEPT ![s] = Append(@, f)]

ClientSends(s, k) ==
  /\ peer = "open" /\ FramesIn < MaxIn
  /\ k \in DataKinds => s \notin Unary /\ \E i \in DOMAIN sentIn[s] : sentIn[s][i].kind = "request"
  /\ FrameArrives(s, k)
  /\ envOnly /\ UNCHANGED <<closeVars, peer>>

ClientGoes ==
  /\ peer = "open" /\ peer' \in {"eof", "broken"}
  /\ envOnly /\ UNCHANGED <<closeVars, inbox, sentIn>>

-----------------------------------------------------------------------------
Receiver ==
  \/ ReceiverTop \/ ReceiveMalformed \/ ReceiveData \/ ReceiveRequest \/ ReceiveOther
  \/ DataAccepted \/ DataAborted \/ DataWaits \/ DataFull
  \/ StoreStream \/ CountStream \/ StatusAborted \/ ReceiveFails

Main ==
  \/ MainTop \/ TakeStatus \/ (\E s \in Sids : TakeResponse(s))
  \/ WriteResponse \/ FinishStream \/ TakeRecvErr \/ MainShutdown

\* The steps of a handler that do not depend on the application.
HandlerStep(s) ==
  RecvMsgTakes(s) \/ RecvMsgEOF(s) \/ RecvMsgCancelled(s) \/ RespondAborted(s)

Environment ==
  \/ SeeIdle \/ CloseIdle \/ ServerClose \/ ClientGoes
  \/ \E s \in Sids, k \in ClientKinds : ClientSends(s, k)

Next ==
  \/ Receiver \/ Main \/ Environment
  \/ \E s \in Sids : \/ HandlerStep(s) \/ RecvMsg(s) \/ SendMsg(s) \/ HandlerReturns(s)
                     \/ ContextDone(s)

Spec == Init /\ [][Next]_vars

(***************************************************************************)
(* Fairness.  The Go scheduler runs every goroutine that can run, the one  *)
(* second timer fires, and the client reads what it is sent or goes away,  *)
(* so that a write returns.  A handler that is not inside RecvMsg or       *)
(* SendMsg returns sooner or later.  The client need not send anything.    *)
(***************************************************************************)
Fairness ==
  /\ WF_vars(Receiver) /\ WF_vars(Main)
  /\ \A s \in Sids : /\ WF_vars(HandlerStep(s))
                     /\ SF_vars(HandlerReturns(s))

FairSpec == Spec /\ Fairness

-----------------------------------------------------------------------------
(* Properties.                                                             *)

Running(s) == hpc[s] \in {"running", "receiving", "responding"}

NetTypeOK ==
  /\ inbox \in Seq(Frames) /\ sentIn \in [Sids -> Seq(Frames)]
  /\ peer \in {"open", "eof", "broken"}
ReceiverTypeOK ==
  /\ rpc \in {"top", "recv", "data", "wait", "store", "count", "status", "exited"}
  /\ cur \in Frames \cup {NoFrame} /\ (rpc \notin {"top", "recv", "exited"} => cur # NoFrame)
  /\ lastStreamID \in Sids \cup {0}
  /\ refused \subseteq Sids /\ started \in Seq(Sids)
MapTypeOK == stored \subseteq Sids /\ active \in Int
MainTypeOK ==
  /\ mpc \in {"top", "select", "write", "finish", "returned"}
  /\ state \in {"idle", "active"}
  /\ mresp \in Responses \cup {NoFrame} /\ (mpc \in {"write", "finish"} => mresp # NoFrame)
  /\ outbox \in Seq(Responses)
CloseTypeOK ==
  /\ recvErr \in {"empty", "eof", "broken", "closed", "taken"}
  /\ shutdown \in {"open", "idle", "forced"} /\ sawIdle \in BOOLEAN /\ done \in BOOLEAN
StreamTypeOK ==
  /\ recvq \in [Sids -> Seq(Frames)] /\ \A s \in Sids : Len(recvq[s]) <= Capacity(s)
  /\ remoteClosed \subseteq Sids
HandlerTypeOK ==
  /\ hpc \in [Sids -> {"none", "running", "receiving", "responding", "returned"}]
  /\ out \in [Sids -> Responses \cup {NoFrame}]
  /\ \A s \in Sids : hpc[s] = "responding" => out[s] # NoFrame
  /\ read \in [Sids -> Seq(Frames)] /\ sawEOF \subseteq Sids
  /\ ctxDone \subseteq Sids

\* Every variable has its type, and no recv channel holds more than it can.
TypeOK ==
  /\ NetTypeOK /\ ReceiverTypeOK /\ MapTypeOK /\ MainTypeOK /\ CloseTypeOK
  /\ StreamTypeOK /\ HandlerTypeOK

\* The messages among the first k frames the client sent on a stream, the one
\* in its request included.
IsMessage(s, f) == HasMessage(f) \/ (f.kind = "request" /\ Pushed(s))
Messages(s, k) == {sentIn[s][i] : i \in {j \in 1 .. k : IsMessage(s, sentIn[s][j])}}

\* What the handler of a stream has read and what it will read next.
Got(s) == read[s] \o recvq[s]

\* A handler reads the messages of its stream in the order they were sent and
\* without a gap, as long as the client was not told that one was refused:
\* also when the buffer stays full, when the handler returns, or when its
\* context ends while the receiver is delivering.
HandlerReadsInOrder ==
  \A s \in Streams \ refused :
    /\ \A i, j \in DOMAIN Got(s) : i < j => Got(s)[i].n < Got(s)[j].n
    /\ \E k \in 0 .. Len(sentIn[s]) : ToSet(Got(s)) = Messages(s, k)

\* A handler gets io.EOF only when it has read everything the client sent on
\* the stream before it closed its side, and nothing else.
EOFAfterLastMessage ==
  \A s \in sawEOF \ refused :
    \E k \in DOMAIN sentIn[s] :
      HasRemoteClosed(sentIn[s][k]) /\ ToSet(read[s]) = Messages(s, k)

\* Handlers are started in increasing order of stream ids, so one at most for
\* an id, whatever requests the client repeats or sends out of order.
HandlersStartInIdOrder ==
  \A i, j \in DOMAIN started : i < j => started[i] < started[j]

\* active never counts a request that is over: what it counts still runs or
\* has its last response on the way.  Otherwise the connection would never be
\* idle again, and Shutdown would never end.
NoPhantomActivity ==
  mpc # "returned" =>
    active <= Cardinality({s \in Sids : Running(s)})
              + (IF mpc \in {"write", "finish"} /\ mresp.kind \in Terminal THEN 1 ELSE 0)

\* Once run has returned, none of the goroutines it started is left.
ReturnReleasesGoroutines ==
  mpc = "returned" ~> rpc = "exited" /\ \A s \in Sids : ~Running(s)

\* A handler that does not read does not block the connection: a request that
\* has arrived is looked at, unless the connection is being shut down.
NoHeadOfLineBlocking ==
  \A s \in Sids :
    (\E i \in DOMAIN inbox : inbox[i].sid = s /\ inbox[i].kind = "request")
      ~> Stopped \/ \A i \in DOMAIN inbox : inbox[i].sid # s \/ inbox[i].kind # "request"

\* "The client went away and we should stop processing requests": run returns
\* even when handlers wait for messages that will not come, unless a shutdown
\* ended the receiver first.
ClientGoneEndsRun == peer = "eof" ~> mpc = "returned" \/ shutdown # "open"

\* A shutdown ends run, unless a handler waits for the client for ever:
\* requests that came and went, refused frames and early answers do not keep
\* the connection open.
ShutdownEndsRun ==
  []<>(\A s \in Sids : hpc[s] # "receiving") => (shutdown # "open" ~> mpc = "returned")

\* Claimed by the comments on connStateActive ("outstanding requests") and
\* connStateIdle ("no requests"): between two frames, an active that makes the
\* connection idle means that no handler is at work.  Here for a client all of
\* whose requests were accepted.
IdleMeansNoRequest ==
  /\ mpc # "returned" /\ rpc \in {"top", "recv"} /\ active <= 0
  /\ Len(started) = Cardinality(UNION {{s} \X {i \in DOMAIN sentIn[s] :
                                               sentIn[s][i].kind = "request"} : s \in Sids})
  => \A s \in Sids : ~Running(s)
=============================================================================
