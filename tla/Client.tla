------------------------------- MODULE Client -------------------------------
(***************************************************************************)
(* The ttrpc client (client.go, stream.go): application goroutines that    *)
(* open streams and exchange messages on them, the receive loop that hands *)
(* every incoming frame to its stream, and Close.  The server is an        *)
(* environment that sends frames on the streams it was asked to open.      *)
(*                                                                         *)
(* One member of Unary is one Client.Call (dispatch); one member of        *)
(* Streams is one NewStream with the goroutines that then use the          *)
(* ClientStream.  A call owns exactly one stream object, so a stream       *)
(* object is named by the call that made it.                               *)
(***************************************************************************)
EXTENDS Integers, Sequences, FiniteSets, SequencesExt

CONSTANTS
  Unary,            \* unary calls
  Streams,          \* streaming calls
  StreamingClient,  \* the streaming calls with StreamDesc.StreamingClient
  StreamingServer,  \* the streaming calls with StreamDesc.StreamingServer
  Oversized,        \* the calls whose encoded request exceeds messageLengthMax
  NoCall,           \* no call: a free lock, an id not in Client.streams
  SidLimit,         \* 2^32 in the code: streamID is a uint32
  RecvBuf,          \* streamRecvBufferSize, 64 in the code
  ServerKinds,      \* bound: the kinds of frames the server sends
  MaxFrames,        \* bound: frames the server sends, all streams together
  MaxInFlight,      \* bound: frames the server sent and the client has not received
  MaxSends          \* bound: data messages the application sends on a stream

Calls == Unary \cup Streams

ASSUME CallsAssumption ==
  /\ Unary \cap Streams = {}
  /\ StreamingClient \subseteq Streams
  /\ StreamingServer \subseteq Streams
  /\ NoCall \notin Calls
ASSUME SizeAssumption ==
  /\ SidLimit \in Nat /\ SidLimit > 2
  /\ RecvBuf \in Nat \ {0}
  /\ MaxFrames \in Nat /\ MaxInFlight \in Nat /\ MaxSends \in Nat

VARIABLES
  ctxDone,       \* Client.ctx is cancelled
  closeOnce,     \* Client.closeOnce: "unused", "running" or "used"
  connClosed,    \* Client.conn was closed by Close
  sendLock,      \* holder of Client.sendLock between two steps of createStream
  streams,       \* Client.streams
  nextStreamID,  \* Client.nextStreamID
  pc,            \* where each call is
  sid,           \* stream.id (0: no stream yet)
  recv,          \* stream.recv, a buffered channel
  recvErr,       \* stream.recvErr; "none" while recvClose is open
  callCtxDone,   \* the context the application passed is done
  localClosed,   \* clientStream.localClosed
  remoteClosed,  \* clientStream.remoteClosed
  ret,           \* the error (or result) the call ended with
  got,           \* history: the frames the call took from recv
  wire,          \* history: the frames the client wrote, in order
  rl,            \* where the receive loop goroutine (Client.run) is
  cur,           \* its current message and the stream it looked up
  rlErr,         \* the error receiveLoop returned
  inbox,         \* frames in flight from the server
  sent,          \* history: per stream id, the frames the server sent
  peer           \* "open", "eof" (server hung up) or "truncated" (mid-frame)

closeVars == <<ctxDone, closeOnce, connClosed>>
registryVars == <<sendLock, streams, nextStreamID>>
appVars == <<pc, sid, callCtxDone, localClosed, remoteClosed, ret, got>>
loopVars == <<rl, cur, rlErr>>
netVars == <<inbox, sent, peer>>
vars == <<closeVars, registryVars, appVars, recv, recvErr, wire, loopVars, netVars>>

(***************************************************************************)
(* Frames.  A frame from the server is abstracted to what the client's     *)
(* control flow tells apart:                                               *)
(*   ok        Response with status OK                                     *)
(*   err       Response with another status                                *)
(*   data      Data                                                        *)
(*   dataClose Data with the remote closed flag and a message              *)
(*   close     Data with the flags remote closed and no data               *)
(*   big       any frame longer than messageLengthMax                      *)
(* and n, its position among the frames of its stream id.                  *)
(***************************************************************************)
Kinds == {"ok", "err", "data", "dataClose", "close", "big"}
ASSUME KindsAssumption == ServerKinds \subseteq Kinds
Sids == 0 .. SidLimit - 1
Frames == [sid : Sids, kind : Kinds, n : Nat \ {0}]

Responses == {"ok", "err"}
RemoteClosedFlag == {"dataClose", "close"}

WireKinds == {"request", "data", "close"}
Messages == [sid : Sids, kind : WireKinds]

\* The capacity createStream is called with.
Capacity(c) == IF c \in Unary THEN 1 ELSE RecvBuf

Init ==
  /\ ctxDone = FALSE /\ closeOnce = "unused" /\ connClosed = FALSE
  /\ sendLock = NoCall
  /\ streams = [i \in Sids |-> NoCall]
  /\ nextStreamID = 1
  /\ pc = [c \in Calls |-> "start"]
  /\ sid = [c \in Calls |-> 0]
  /\ recv = [c \in Calls |-> <<>>]
  /\ recvErr = [c \in Calls |-> "none"]
  /\ callCtxDone = [c \in Calls |-> FALSE]
  /\ localClosed = [c \in Calls |-> FALSE]
  /\ remoteClosed = [c \in Calls |-> FALSE]
  /\ ret = [c \in Calls |-> "none"]
  /\ got = [c \in Calls |-> <<>>]
  /\ wire = <<>>
  /\ rl = "top" /\ cur = [call |-> NoCall] /\ rlErr = "none"
  /\ inbox = <<>> /\ sent = [i \in Sids |-> <<>>] /\ peer = "open"

-----------------------------------------------------------------------------
(* Stream objects: stream.go, and deleteStream, getStream of client.go.    *)

\* closeWithError on one stream: only the first call has an effect.
CloseWithError(errs, c, e) == [errs EXCEPT ![c] = IF @ = "none" THEN e ELSE @]

\* deleteStream: unregister the stream's id, then closeWithError(nil).
DeleteStream(c) ==
  /\ streams' = [streams EXCEPT ![sid[c]] = NoCall]
  /\ recvErr' = CloseWithError(recvErr, c, "closed")

-----------------------------------------------------------------------------
(* createStream, in the three steps other goroutines can interleave with.  *)
(* sendLock is held from the first to the last.                            *)

\* Faulty: createStream does not wait for sendLock.
SendLockIgnored == TRUE
SendLockFree == sendLock = NoCall

\* Take sendLock, then the first check of Client.ctx.
AcquireSendLock(c) ==
  /\ pc[c] = "start" /\ SendLockFree
  /\ \/ /\ ctxDone
        /\ pc' = [pc EXCEPT ![c] = "done"]
        /\ ret' = [ret EXCEPT ![c] = "closed"]
        /\ UNCHANGED sendLock
     \/ /\ ~ctxDone
        /\ sendLock' = c
        /\ pc' = [pc EXCEPT ![c] = "locked"]
        /\ UNCHANGED ret
  /\ UNCHANGED <<closeVars, streams, nextStreamID, sid, callCtxDone, localClosed,
                 remoteClosed, got, recv, recvErr, wire, loopVars, netVars>>

\* Faulty: the id is registered without the check under streamLock.
NeverRefused == FALSE
\* Whether the check under streamLock refuses to register a stream.
CreateRefused == ctxDone

\* The section under streamLock: second check, allocate the id, register.
RegisterStream(c) ==
  /\ pc[c] = "locked"
  /\ \/ /\ CreateRefused
        /\ pc' = [pc EXCEPT ![c] = "done"]
        /\ ret' = [ret EXCEPT ![c] = "closed"]
        /\ sendLock' = NoCall
        /\ UNCHANGED <<streams, nextStreamID, sid>>
     \/ /\ ~CreateRefused
        /\ sid' = [sid EXCEPT ![c] = nextStreamID]
        /\ streams' = [streams EXCEPT ![nextStreamID] = c]
        /\ nextStreamID' = (nextStreamID + 2) % SidLimit
        /\ pc' = [pc EXCEPT ![c] = "registered"]
        /\ UNCHANGED <<sendLock, ret>>
  /\ UNCHANGED <<closeVars, callCtxDone, localClosed, remoteClosed, got, recv,
                 recvErr, wire, loopVars, netVars>>

\* channel.send succeeds: dispatch goes on to wait for the response, NewStream
\* hands the stream to the application.
RequestWritten(c) ==
  /\ c \notin Oversized /\ ~connClosed
  /\ wire' = Append(wire, [sid |-> sid[c], kind |-> "request"])
  /\ pc' = [pc EXCEPT ![c] = IF c \in Unary THEN "waiting" ELSE "open"]
  /\ UNCHANGED ret

\* channel.send fails: the message is too long or the connection is gone.
\* createStream's caller returns the error; the stream stays registered.
RequestFailed(c) ==
  /\ c \in Oversized \/ connClosed \/ peer # "open"
  /\ pc' = [pc EXCEPT ![c] = "done"]
  /\ ret' = [ret EXCEPT ![c] = "sendFailed"]
  /\ UNCHANGED wire

SendRequest(c) ==
  /\ pc[c] = "registered"
  /\ RequestWritten(c) \/ RequestFailed(c)
  /\ sendLock' = NoCall
  /\ UNCHANGED <<closeVars, streams, nextStreamID, sid, callCtxDone, localClosed,
                 remoteClosed, got, recv, recvErr, loopVars, netVars>>

-----------------------------------------------------------------------------
(* dispatch: a unary call waits in one select.  When several cases are     *)
(* ready Go picks any of them.                                             *)

\* A message is in recv: taken in the recv case, and in the recvClose case
\* because that one looks at recv first.
UnaryReceive(c) ==
  /\ c \in Unary /\ pc[c] = "waiting" /\ recv[c] # <<>>
  /\ got' = [got EXCEPT ![c] = Append(@, Head(recv[c]))]
  /\ recv' = [recv EXCEPT ![c] = Tail(@)]
  /\ ret' = [ret EXCEPT ![c] =
               IF Head(recv[c]).kind \in Responses THEN "response" ELSE "protocol"]
  /\ pc' = [pc EXCEPT ![c] = "deleting"]
  /\ UNCHANGED <<closeVars, registryVars, sid, callCtxDone, localClosed, remoteClosed,
                 recvErr, wire, loopVars, netVars>>

\* Faulty: the recvClose case returns without looking at recv.
ErrorWins(c) == recvErr[c] # "none"
\* recvErr is returned: recvClose is closed and nothing is pending in recv.
RecvErrReady(c) == recvErr[c] # "none" /\ recv[c] = <<>>

\* The reasons for which dispatch gives up.
UnaryGivesUp(c, e) ==
  \/ callCtxDone[c] /\ e = "ctx"
  \/ ctxDone /\ e = "closed"
  \/ RecvErrReady(c) /\ e = recvErr[c]

UnaryFail(c) ==
  /\ c \in Unary /\ pc[c] = "waiting"
  /\ \E e \in {"ctx", "closed", recvErr[c]} :
       UnaryGivesUp(c, e) /\ ret' = [ret EXCEPT ![c] = e]
  /\ pc' = [pc EXCEPT ![c] = "deleting"]
  /\ UNCHANGED <<closeVars, registryVars, sid, callCtxDone, localClosed, remoteClosed,
                 got, recv, recvErr, wire, loopVars, netVars>>

\* Faulty: dispatch forgets to unregister its stream.
KeepStream(c) == UNCHANGED <<streams, recvErr>>
\* What dispatch defers.
DeferredDelete(c) == DeleteStream(c)

UnaryReturn(c) ==
  /\ c \in Unary /\ pc[c] = "deleting"
  /\ DeferredDelete(c)
  /\ pc' = [pc EXCEPT ![c] = "done"]
  /\ UNCHANGED <<closeVars, sendLock, nextStreamID, sid, callCtxDone, localClosed,
                 remoteClosed, ret, got, recv, wire, loopVars, netVars>>

-----------------------------------------------------------------------------
(* ClientStream.  pc is "open" outside RecvMsg and "recving" inside it.    *)
(* The application stops receiving when RecvMsg returns an error.  It may  *)
(* send, from another goroutine, as long as the stream exists.             *)

StreamOpened(c) == c \in Streams /\ sid[c] # 0
                   /\ pc[c] # "registered" /\ ret[c] # "sendFailed"

RecvMsgBegin(c) ==
  /\ c \in Streams /\ pc[c] = "open"
  /\ \/ /\ remoteClosed[c]
        /\ pc' = [pc EXCEPT ![c] = "done"]
        /\ ret' = [ret EXCEPT ![c] = "eof"]
     \/ /\ ~remoteClosed[c]
        /\ pc' = [pc EXCEPT ![c] = "recving"]
        /\ UNCHANGED ret
  /\ UNCHANGED <<closeVars, registryVars, sid, callCtxDone, localClosed, remoteClosed,
                 got, recv, recvErr, wire, loopVars, netVars>>

\* RecvMsg returns without a message: the context is done, or recvErr.
RecvMsgFail(c) ==
  /\ c \in Streams /\ pc[c] = "recving"
  /\ \/ callCtxDone[c] /\ ret' = [ret EXCEPT ![c] = "ctx"]
     \/ RecvErrReady(c) /\ ret' = [ret EXCEPT ![c] = recvErr[c]]
  /\ pc' = [pc EXCEPT ![c] = "done"]
  /\ UNCHANGED <<closeVars, registryVars, sid, callCtxDone, localClosed, remoteClosed,
                 got, recv, recvErr, wire, loopVars, netVars>>

\* What a message means to RecvMsg:
\*   final: the stream is finished, RecvMsg unregisters it
\*   error: what RecvMsg returns, "none" when it fills in the message
IsFinal(c, f) == \/ f.kind = "ok"
                 \/ f.kind \notin Responses /\ c \notin StreamingServer
                 \/ f.kind \in RemoteClosedFlag
RecvMsgError(c, f) ==
  IF f.kind = "err" THEN "status"
  ELSE IF f.kind = "ok" THEN "none"
  ELSE IF c \notin StreamingServer THEN "protocol"
  ELSE IF f.kind = "close" THEN "eof" ELSE "none"

RecvMsgTake(c) ==
  /\ c \in Streams /\ pc[c] = "recving" /\ recv[c] # <<>>
  /\ LET f == Head(recv[c])
         e == RecvMsgError(c, f)
     IN /\ got' = [got EXCEPT ![c] = Append(@, f)]
        /\ ret' = [ret EXCEPT ![c] = e]
        /\ pc' = [pc EXCEPT ![c] = IF e = "none" THEN "open" ELSE "done"]
        /\ IF IsFinal(c, f)
             THEN DeleteStream(c) /\ remoteClosed' = [remoteClosed EXCEPT ![c] = TRUE]
             ELSE UNCHANGED <<streams, recvErr, remoteClosed>>
  /\ recv' = [recv EXCEPT ![c] = Tail(@)]
  /\ UNCHANGED <<closeVars, sendLock, nextStreamID, sid, callCtxDone, localClosed, wire,
                 loopVars, netVars>>

\* Faulty: SendMsg and CloseSend do not look at localClosed.
LocalClosedIgnored(c) == TRUE
MaySend(c) == ~localClosed[c]

\* SendMsg and CloseSend are called from one goroutine, one after the other;
\* both send with Client.send, under sendLock.  A send that fails changes no
\* state.
Send(c, kind) ==
  /\ StreamOpened(c) /\ c \in StreamingClient /\ MaySend(c)
  /\ SendLockFree /\ ~connClosed
  /\ wire' = Append(wire, [sid |-> sid[c], kind |-> kind])

SendMsg(c) ==
  /\ Send(c, "data")
  /\ Cardinality({i \in DOMAIN wire : wire[i] = [sid |-> sid[c], kind |-> "data"]}) < MaxSends
  /\ UNCHANGED <<closeVars, registryVars, appVars, recv, recvErr, loopVars, netVars>>

CloseSend(c) ==
  /\ Send(c, "close")
  /\ localClosed' = [localClosed EXCEPT ![c] = TRUE]
  /\ UNCHANGED <<closeVars, registryVars, pc, sid, callCtxDone, remoteClosed, ret, got,
                 recv, recvErr, loopVars, netVars>>

\* The context the application passed ends (deadline or cancellation).
CallCtxDone(c) ==
  /\ pc[c] \in {"waiting", "open", "recving"} /\ ~callCtxDone[c]
  /\ callCtxDone' = [callCtxDone EXCEPT ![c] = TRUE]
  /\ UNCHANGED <<closeVars, registryVars, pc, sid, localClosed, remoteClosed, ret, got,
                 recv, recvErr, wire, loopVars, netVars>>

-----------------------------------------------------------------------------
(* Close, called by the application and by run.  closeOnce makes a second  *)
(* caller wait for the first.                                              *)

CancelCtx ==
  /\ closeOnce = "unused"
  /\ closeOnce' = "running" /\ ctxDone' = TRUE
  /\ UNCHANGED <<connClosed, registryVars, appVars, recv, recvErr, wire, loopVars, netVars>>

UserClose == CancelCtx
RunClose == rl = "closing" /\ CancelCtx

CloseConn ==
  /\ closeOnce = "running"
  /\ closeOnce' = "used" /\ connClosed' = TRUE
  /\ UNCHANGED <<ctxDone, registryVars, appVars, recv, recvErr, wire, loopVars, netVars>>

-----------------------------------------------------------------------------
(* run and receiveLoop.                                                    *)

loopUnchanged == UNCHANGED <<closeVars, registryVars, appVars, wire>>

\* Top of the loop: leave when the client is closed.
LoopTop ==
  /\ rl = "top"
  /\ \/ ctxDone /\ rl' = "closing" /\ rlErr' = "closed"
     \/ ~ctxDone /\ rl' = "recv" /\ UNCHANGED rlErr
  /\ loopUnchanged /\ UNCHANGED <<recv, recvErr, cur, netVars>>

\* channel.recv returns a frame and getStream looks its stream up.  A frame
\* for an unknown id is dropped; a frame that was too long closes its stream.
\* Frames the reader has buffered are still returned after conn.Close.
ReceiveFrame ==
  /\ rl = "recv" /\ inbox # <<>>
  /\ LET f == Head(inbox)
         s == streams[f.sid]
     IN \/ /\ s = NoCall
           /\ rl' = "top" /\ UNCHANGED <<cur, recvErr>>
        \/ /\ s # NoCall /\ f.kind = "big"
           /\ recvErr' = CloseWithError(recvErr, s, "exhausted")
           /\ rl' = "top" /\ UNCHANGED cur
        \/ /\ s # NoCall /\ f.kind # "big"
           /\ cur' = [call |-> s, frame |-> f]
           /\ rl' = "check" /\ UNCHANGED recvErr
  /\ inbox' = Tail(inbox)
  /\ loopUnchanged /\ UNCHANGED <<recv, rlErr, sent, peer>>

\* filterCloseErr: every way a connection ends is ErrClosed, except in the
\* middle of a frame.
FilterCloseErr(e) == IF e = "truncated" THEN "unexpectedEOF" ELSE "closed"

\* channel.recv fails: end of file, a truncated frame, or a closed connection.
ReceiveError ==
  /\ rl = "recv"
  /\ \/ connClosed /\ rlErr' = FilterCloseErr("closed")
     \/ inbox = <<>> /\ peer # "open" /\ rlErr' = FilterCloseErr(peer)
  /\ rl' = "closing"
  /\ loopUnchanged /\ UNCHANGED <<recv, recvErr, cur, netVars>>

\* Faulty: stream.receive goes straight to its select.
SkipClosedCheck == rl' = "select"
\* stream.receive first looks whether the stream is closed.
ClosedCheck == rl' = IF recvErr[cur.call] # "none" THEN "top" ELSE "select"

ReceiveCheck ==
  /\ rl = "check" /\ ClosedCheck
  /\ loopUnchanged /\ UNCHANGED <<recv, recvErr, cur, rlErr, netVars>>

\* Faulty: the frame is sent to the channel whether it has room or not.
RoomIgnored(c) == TRUE
HasRoom(c) == Len(recv[c]) < Capacity(c)

\* The select of stream.receive, and the one inside its default case.
Deliver ==
  /\ rl \in {"select", "wait"} /\ HasRoom(cur.call)
  /\ recv' = [recv EXCEPT ![cur.call] = Append(@, cur.frame)]
  /\ rl' = "top"
  /\ loopUnchanged /\ UNCHANGED <<recvErr, cur, rlErr, netVars>>

Drop ==
  /\ rl \in {"select", "wait"} /\ (recvErr[cur.call] # "none" \/ ctxDone)
  /\ rl' = "top"
  /\ loopUnchanged /\ UNCHANGED <<recv, recvErr, cur, rlErr, netVars>>

\* No case is ready: wait up to a second.
WaitForRoom ==
  /\ rl = "select" /\ ~HasRoom(cur.call) /\ recvErr[cur.call] = "none" /\ ~ctxDone
  /\ rl' = "wait"
  /\ loopUnchanged /\ UNCHANGED <<recv, recvErr, cur, rlErr, netVars>>

\* Faulty: the receive loop waits for room without a timer.
NoTimer == FALSE
TimerFires == rl = "wait"

\* The second is over: ErrStreamFull.
ReceiveTimeout ==
  /\ TimerFires
  /\ recvErr' = CloseWithError(recvErr, cur.call, "full")
  /\ rl' = "top"
  /\ loopUnchanged /\ UNCHANGED <<recv, cur, rlErr, netVars>>

\* Faulty: the streams are unregistered but not closed.
CleanupSilent == recvErr' = recvErr /\ streams' = [i \in Sids |-> NoCall]
\* What cleanupStreams does to the registered streams.
CloseAllStreams ==
  /\ recvErr' = [c \in Calls |-> IF \E i \in Sids : streams[i] = c
                                 THEN CloseWithError(recvErr, c, rlErr)[c] ELSE recvErr[c]]
  /\ streams' = [i \in Sids |-> NoCall]

\* After Close returned, run calls cleanupStreams with streamLock held.
CleanupStreams ==
  /\ rl = "closing" /\ closeOnce = "used"
  /\ CloseAllStreams
  /\ rl' = "callback"
  /\ UNCHANGED <<closeVars, sendLock, nextStreamID, appVars, recv, wire, cur, rlErr, netVars>>

\* userCloseFunc returns and userCloseWaitCh is closed.
CallbackReturns ==
  /\ rl = "callback"
  /\ rl' = "exited"
  /\ loopUnchanged /\ UNCHANGED <<recv, recvErr, cur, rlErr, netVars>>

-----------------------------------------------------------------------------
(* The server, as far as the client can tell: frames on the streams it was *)
(* asked for, then possibly the end of the connection.                     *)

FramesSent == Cardinality(UNION {{i} \X DOMAIN sent[i] : i \in Sids})

\* A frame enters the connection, which holds MaxInFlight of them.
FrameArrives(i, k) ==
  /\ Len(inbox) < MaxInFlight
  /\ LET f == [sid |-> i, kind |-> k, n |-> Len(sent[i]) + 1]
     IN /\ inbox' = Append(inbox, f)
        /\ sent' = [sent EXCEPT ![i] = Append(@, f)]

ServerSends(i, k) ==
  /\ peer = "open" /\ ~connClosed /\ FramesSent < MaxFrames
  /\ \E j \in DOMAIN wire : wire[j].sid = i
  /\ FrameArrives(i, k)
  /\ UNCHANGED <<closeVars, registryVars, appVars, recv, recvErr, wire, loopVars, peer>>

ServerHangsUp ==
  /\ peer = "open" /\ ~connClosed
  /\ peer' \in {"eof", "truncated"}
  /\ UNCHANGED <<closeVars, registryVars, appVars, recv, recvErr, wire, loopVars, inbox, sent>>

-----------------------------------------------------------------------------

\* The steps of one call that its goroutine takes by itself.
CallStep(c) ==
  \/ RegisterStream(c)
  \/ UnaryReceive(c) \/ UnaryFail(c) \/ UnaryReturn(c)
  \/ RecvMsgFail(c) \/ RecvMsgTake(c)

\* What the application decides to do.
AppStep(c) ==
  \/ AcquireSendLock(c) \/ RecvMsgBegin(c) \/ SendMsg(c) \/ CloseSend(c)
  \/ CallCtxDone(c)

LoopStep ==
  \/ LoopTop \/ ReceiveFrame \/ ReceiveError \/ ReceiveCheck
  \/ Deliver \/ Drop \/ WaitForRoom \/ ReceiveTimeout
  \/ RunClose \/ CleanupStreams \/ CallbackReturns

Server == ServerHangsUp \/ \E i \in Sids, k \in ServerKinds : ServerSends(i, k)

Next ==
  \/ \E c \in Calls : CallStep(c) \/ AppStep(c) \/ SendRequest(c)
  \/ LoopStep \/ CloseConn \/ UserClose
  \/ Server

Spec == Init /\ [][Next]_vars

(***************************************************************************)
(* Fairness.  The Go scheduler runs every goroutine that can run, time     *)
(* passes (the one second timer of stream.receive), and the on-close       *)
(* callback returns.  A write may block for as long as the server does not *)
(* read, so it must return only once the connection is gone.  Nothing is   *)
(* assumed of the application and of the server.                           *)
(***************************************************************************)
SendOnDeadConn(c) == (connClosed \/ peer # "open") /\ SendRequest(c)

Fairness ==
  /\ WF_vars(LoopStep) /\ WF_vars(CloseConn)
  /\ \A c \in Calls : WF_vars(CallStep(c)) /\ WF_vars(SendOnDeadConn(c))

FairSpec == Spec /\ Fairness

-----------------------------------------------------------------------------
(* Properties.                                                             *)

CallStates == {"start", "locked", "registered", "waiting", "deleting", "open",
               "recving", "done"}
Errors == {"none", "closed", "full", "exhausted", "unexpectedEOF"}
Results == Errors \cup {"sendFailed", "response", "protocol", "ctx", "status", "eof"}
LoopStates == {"top", "recv", "check", "select", "wait", "closing", "callback", "exited"}

CloseTypeOK ==
  /\ ctxDone \in BOOLEAN /\ connClosed \in BOOLEAN
  /\ closeOnce \in {"unused", "running", "used"}
RegistryTypeOK ==
  /\ sendLock \in Calls \cup {NoCall}
  /\ streams \in [Sids -> Calls \cup {NoCall}]
  /\ nextStreamID \in Sids
CallTypeOK ==
  /\ pc \in [Calls -> CallStates]
  /\ sid \in [Calls -> Sids]
  /\ callCtxDone \in [Calls -> BOOLEAN]
  /\ localClosed \in [Calls -> BOOLEAN] /\ remoteClosed \in [Calls -> BOOLEAN]
  /\ ret \in [Calls -> Results]
  /\ got \in [Calls -> Seq(Frames)]
StreamTypeOK ==
  /\ recv \in [Calls -> Seq(Frames)] /\ \A c \in Calls : Len(recv[c]) <= Capacity(c)
  /\ recvErr \in [Calls -> Errors]
LoopTypeOK ==
  /\ rl \in LoopStates /\ rlErr \in Errors
  /\ cur \in [call : {NoCall}] \cup [call : Calls, frame : Frames]
  /\ rl \in {"check", "select", "wait"} => cur.call # NoCall
NetTypeOK ==
  /\ inbox \in Seq(Frames)
  /\ sent \in [Sids -> Seq(Frames)]
  /\ peer \in {"open", "eof", "truncated"}

\* Every variable has its type, and the channel of a stream never holds more
\* than the capacity it was made with.
TypeOK ==
  /\ CloseTypeOK /\ RegistryTypeOK /\ CallTypeOK /\ StreamTypeOK
  /\ LoopTypeOK /\ NetTypeOK
  /\ wire \in Seq(Messages)

\* By the time the user's on-close callback runs the client is closed for
\* good: the context is cancelled, the connection closed, and no stream is
\* registered, nor is one ever registered afterwards by a createStream that
\* was already under way ("to prevent adding anything after cleanup completes").
CallbackSeesClosedClient ==
  rl \in {"callback", "exited"} =>
    ctxDone /\ connClosed /\ \A i \in Sids : streams[i] = NoCall

\* No call is forgotten: as long as the stream of an unfinished call has not
\* been closed it is registered under its id, so that a frame, a receive
\* error or cleanupStreams can still wake the goroutine that waits on it.
NoCallForgotten ==
  \A c \in Calls :
    pc[c] \in {"registered", "waiting", "open", "recving"} /\ recvErr[c] = "none"
      => streams[sid[c]] = c

\* A finished unary call leaves nothing in Client.streams, unless its request
\* could not be sent: then createStream returns an error before dispatch
\* defers deleteStream, and the entry stays until the client closes.
FinishedUnaryUnregistered ==
  \A c \in Unary :
    pc[c] = "done" /\ (\E i \in Sids : streams[i] = c) => ret[c] = "sendFailed"

\* "New stream IDs sent on the wire are always increasing" (createStream).
WireIdsIncrease ==
  \A i, j \in DOMAIN wire :
    i < j /\ wire[i].kind = "request" /\ wire[j].kind = "request"
      => wire[i].sid < wire[j].sid

\* On the wire a stream is its request, then data, then at most one close:
\* whatever the goroutines of the application do, no message precedes the
\* request of its stream and none follows the message that closes it.
WireWellFormed ==
  \A j \in DOMAIN wire :
    /\ wire[j].kind # "request" =>
         \E i \in 1 .. j - 1 : wire[i] = [sid |-> wire[j].sid, kind |-> "request"]
    /\ \A i \in 1 .. j - 1 : wire[i].sid = wire[j].sid =>
         wire[i].kind # "close" /\ wire[j].kind # "request"

\* What a call has received and has buffered is a prefix of what the server
\* sent on its stream: a frame may be lost only together with all that follow
\* it, also when frames are dropped because the buffer stayed full, because
\* the stream is being deleted, or because one frame was too long.
DeliveredIsPrefix ==
  \A c \in Calls : sid[c] # 0 => IsPrefix(got[c] \o recv[c], sent[sid[c]])

\* An error that closes a stream is reported only after every frame that was
\* buffered before it was consumed; in particular ErrStreamFull follows at
\* least a full buffer of messages, and a unary call never fails with it.
BufferedBeforeError ==
  \A c \in Calls :
    /\ ret[c] \in {"full", "exhausted", "unexpectedEOF"} => recv[c] = <<>>
    /\ ret[c] = "full" => c \in Streams /\ Len(got[c]) >= RecvBuf

\* Close, a lost connection or a receive error releases every goroutine that
\* waits in Call or in RecvMsg, and the on-close callback runs.
CloseReleasesCallers ==
  ctxDone ~> /\ rl = "exited"
             /\ \A c \in Calls : pc[c] \notin {"locked", "registered", "waiting",
                                              "deleting", "recving"}

\* The end of the connection, whole or in the middle of a frame, closes the
\* client even if the application never receives again.
HangUpClosesClient == peer # "open" ~> ctxDone

\* A stream nobody reads does not block the connection: a frame that has
\* arrived for a waiting unary call ends that call, whatever precedes it.
NoHeadOfLineBlocking ==
  \A u \in Unary :
    pc[u] = "waiting" /\ (\E i \in DOMAIN inbox : inbox[i].sid = sid[u])
      ~> pc[u] = "done"

\* Claimed by PROTOCOL.md: a Response terminates its stream.  A stream whose
\* application has received the Response is no longer registered.
ResponseTerminatesStream ==
  \A c \in Streams :
    (\E i \in DOMAIN got[c] : got[c][i].kind \in Responses) =>
      \A i \in Sids : streams[i] # c
=============================================================================
