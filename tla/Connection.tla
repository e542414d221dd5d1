------------------------------ MODULE Connection ------------------------------
(***************************************************************************)
(* A client and the server's side of its connection, joined: what one of   *)
(* them writes is what the other receives, both byte streams are bounded,  *)
(* so that a write waits for the reader, and closing one end is seen at    *)
(* the other.  Client and ServerConn are taken as they are; each supplies  *)
(* the environment of the other.  Left to the runs of the parts are the    *)
(* events that only concern one end: Client.Close by the application, a    *)
(* context that is done, and a shutdown of the server.                     *)
(*                                                                         *)
(* ServerConn names the requests by stream ids, which the client hands out *)
(* as it goes.  SidOf says which call gets which: the calls begin in the   *)
(* order of their ids, and run concurrently from then on.                  *)
(***************************************************************************)
EXTENDS Integers, Sequences, FiniteSets, SequencesExt

CONSTANTS
  Unary, Streams, StreamingClient, StreamingServer, Oversized, NoCall, SidLimit,
  RecvBuf, MaxInFlight, MaxSends,  \* as in Client and ServerConn
  SidOf,         \* the stream id of each call
  WithPayload,   \* the streams whose request has a payload
  LongAnswers,   \* the calls whose handler may answer with too long a message
  MaxReplies     \* bound: messages a handler sends before it returns

Calls == Unary \cup Streams

ASSUME CallsAssumption ==
  /\ IsFiniteSet(Calls) /\ Unary \cap Streams = {} /\ NoCall \notin Calls
  /\ StreamingClient \subseteq Streams /\ StreamingServer \subseteq Streams
  /\ WithPayload \subseteq Streams
ASSUME SizeAssumption ==
  /\ SidLimit \in Nat /\ SidLimit > 3
  /\ RecvBuf \in Nat \ {0}
  /\ MaxInFlight \in Nat /\ MaxSends \in Nat /\ MaxReplies \in Nat

\* Ids are odd, each call has its own, and they are not used up: SidLimit is
\* 2^32 in the code.
ASSUME SidOfAssumption ==
  /\ SidOf \in [Calls -> Nat]
  /\ \A c \in Calls : SidOf[c] % 2 = 1 /\ SidOf[c] + 4 < SidLimit
  /\ \A c, d \in Calls : c # d => SidOf[c] # SidOf[d]

VARIABLES
  ctxDone, closeOnce, connClosed, sendLock, streams, nextStreamID,
  pc, sid, recv, recvErr, callCtxDone, localClosed, remoteClosed, ret, got, wire,
  rl, cur, rlErr, inbox, sent, peer,           \* the client's, by their names
  sInbox, sPeer, outbox, rpc, sCur, lastStreamID, stored, active, mpc, state, mresp,
  sRecvErr, shutdown, sawIdle, done, hpc, out, recvq, sRemoteClosed, sCtxDone,
  sentIn, read, sawEOF, refused, started       \* the server's, "s" where names meet

clientOwn == <<ctxDone, closeOnce, connClosed, sendLock, streams, nextStreamID, pc, sid,
               recv, recvErr, callCtxDone, localClosed, remoteClosed, ret, got, wire, rl,
               cur, rlErr>>
clientVars == <<clientOwn, inbox, sent, peer>>
serverOwn == <<outbox, rpc, sCur, lastStreamID, stored, active, mpc, state, mresp, sRecvErr,
               shutdown, sawIdle, done, hpc, out, recvq, sRemoteClosed, sCtxDone, read,
               sawEOF, refused, started>>
serverVars == <<serverOwn, sInbox, sentIn, sPeer>>
vars == <<clientVars, serverVars>>

SidsOf(cs) == {SidOf[c] : c \in cs}
\* A bound nobody reaches: the request, data and close of a call, its answers,
\* of which one may be on the way when MaxReplies are written, and a status
\* for each frame the server refuses.
MaxFrames == Cardinality(Calls) * (MaxReplies + MaxSends + 4)

C == INSTANCE Client WITH ServerKinds <- {"ok", "err", "data", "dataClose", "close"}

S == INSTANCE ServerConn WITH
       Unary <- SidsOf(Unary), Streams <- SidsOf(Streams), Unserved <- {},
       StreamingClient <- SidsOf(StreamingClient), StreamingServer <- SidsOf(StreamingServer),
       WithPayload <- SidsOf(WithPayload), Oversized <- SidsOf(LongAnswers),
       ClientKinds <- {"request", "data", "close"},
       MaxIn <- MaxFrames, MaxSends <- MaxReplies, ShutdownBy <- {},
       inbox <- sInbox, peer <- sPeer, cur <- sCur, recvErr <- sRecvErr,
       remoteClosed <- sRemoteClosed, ctxDone <- sCtxDone

Init == C!Init /\ S!Init

-----------------------------------------------------------------------------
(* The two byte streams.  A write to an end that is gone is lost.          *)

ServerGone == done \/ sPeer # "open"
ClientGone == connClosed \/ peer # "open"

\* What a step of the client adds to wire enters the server's inbox.
CarriedToServer ==
  \/ wire' = wire /\ UNCHANGED serverVars
  \/ wire' # wire /\ ServerGone /\ UNCHANGED serverVars
  \/ /\ wire' # wire /\ ~ServerGone
     /\ S!FrameArrives(Last(wire').sid, Last(wire').kind)
     /\ UNCHANGED <<serverOwn, sPeer>>

\* How the client sees a frame of the server.
SeenAs(kind) ==
  CASE kind = "response"  -> {"ok", "err"}
    [] kind = "status"    -> {"err"}
    [] kind = "data"      -> {"data"}
    [] kind = "dataClose" -> {"dataClose", "close"}

\* What a step of run adds to outbox enters the client's inbox, and when run
\* returns the client's connection ends.
CarriedToClient ==
  \/ outbox' = outbox /\ done' = done /\ UNCHANGED clientVars
  \/ (outbox' # outbox \/ done' # done) /\ ClientGone /\ UNCHANGED clientVars
  \/ /\ outbox' # outbox /\ ~ClientGone
     /\ \E k \in SeenAs(Last(outbox').kind) : C!FrameArrives(Last(outbox').sid, k)
     /\ UNCHANGED <<clientOwn, peer>>
  \/ done' # done /\ ~ClientGone /\ peer' = "eof" /\ UNCHANGED <<clientOwn, inbox, sent>>

-----------------------------------------------------------------------------
ClientWrites(c) == (C!SendRequest(c) \/ C!SendMsg(c) \/ C!CloseSend(c)) /\ CarriedToServer

\* Calls begin in the order of their ids.
CallBegins(c) == nextStreamID = SidOf[c] /\ C!AcquireSendLock(c) /\ UNCHANGED serverVars

CallStep(c) == C!CallStep(c) /\ UNCHANGED serverVars
AppStep(c) == C!RecvMsgBegin(c) /\ UNCHANGED serverVars
ClientLoop == C!LoopStep /\ UNCHANGED serverVars

\* The server reads what was written before, then the end of file.
ClientCloses ==
  /\ C!CloseConn
  /\ sPeer' = IF ServerGone THEN sPeer ELSE "eof"
  /\ UNCHANGED <<serverOwn, sInbox, sentIn>>

Receiver == S!Receiver /\ UNCHANGED clientVars
Main == S!Main /\ CarriedToClient
HandlerStep(c) == S!HandlerStep(SidOf[c]) /\ UNCHANGED clientVars
HandlerReturns(c) == S!HandlerReturns(SidOf[c]) /\ UNCHANGED clientVars
HandlerActs(c) ==
  (S!RecvMsg(SidOf[c]) \/ S!SendMsg(SidOf[c])) /\ UNCHANGED clientVars

Next ==
  \/ \E c \in Calls : \/ ClientWrites(c) \/ CallBegins(c) \/ CallStep(c) \/ AppStep(c)
                      \/ HandlerStep(c) \/ HandlerReturns(c) \/ HandlerActs(c)
  \/ ClientLoop \/ ClientCloses
  \/ Receiver \/ Main

Spec == Init /\ [][Next]_vars

(***************************************************************************)
(* Fairness: the three loops run when they can, which includes their       *)
(* timers and a write that finds room.  Nothing is assumed of the          *)
(* applications: a caller may never receive, a handler never read.         *)
(***************************************************************************)
Fairness == WF_vars(ClientLoop) /\ WF_vars(Receiver) /\ WF_vars(Main)
FairSpec == Spec /\ Fairness

-----------------------------------------------------------------------------
(* The abstract calls this implements.                                     *)

OnWire(c, kind) == {i \in DOMAIN wire : wire[i] = [sid |-> SidOf[c], kind |-> kind]}
Answers(c) == {i \in DOMAIN outbox : outbox[i].sid = SidOf[c] /\ outbox[i].kind # "status"}

\* The messages for the handler among the first n frames of a stream: the
\* request if it is one, and data, which only a close follows.
MessagesUpTo(c, n) == IF S!Pushed(SidOf[c]) THEN n ELSE n - 1

PhaseOf(c) ==
  IF \E i \in Answers(c) : outbox[i].kind \in S!Terminal THEN "answered"
  ELSE IF \E i \in DOMAIN started : started[i] = SidOf[c] THEN "running"
  ELSE IF OnWire(c, "request") # {} THEN "requested" ELSE "new"

\* What the caller was told: a response with status OK, or the end of the stream.
ResultOf(c) ==
  IF c \in Unary /\ ret[c] = "response" /\ Last(got[c]).kind = "ok" THEN "ok"
  ELSE IF c \in Streams /\ remoteClosed[c] /\ ret[c] \in {"none", "eof"} THEN "ok"
  ELSE IF ret[c] # "none" THEN "failed" ELSE "none"

Abstract == INSTANCE Rpc WITH
  phase <- [c \in Calls |-> PhaseOf(c)],
  result <- [c \in Calls |-> ResultOf(c)],
  upSent <- [c \in Calls |->
               IF OnWire(c, "request") = {} THEN 0
               ELSE MessagesUpTo(c, 1 + Cardinality(OnWire(c, "data")))],
  upRead <- [c \in Calls |-> IF read[SidOf[c]] = <<>> THEN 0
                             ELSE MessagesUpTo(c, Last(read[SidOf[c]]).n)],
  refused <- [c \in Calls |-> SidOf[c] \in refused],
  upClosed <- localClosed,
  eof <- [c \in Calls |-> SidOf[c] \in sawEOF],
  downSent <- [c \in Calls |-> Cardinality(Answers(c))],
  downGot <- [c \in Calls |-> Cardinality({i \in DOMAIN got[c] : got[c][i].kind # "err"})]

\* Client and ServerConn together keep what Rpc promises: a request runs at
\* most one handler, messages arrive in order and without a gap unless the
\* caller is told, and success means that the handler ran to its end and the
\* caller received all that it sent.
ImplementsRpc == Abstract!Spec

\* Nothing is under way: every frame was read and every answer a handler
\* offered was taken, unless that end is gone.
AtRest ==
  /\ inbox = <<>> \/ ClientGone
  /\ sInbox = <<>> \/ ServerGone
  /\ done \/ \A s \in SidsOf(Calls) : hpc[s] # "responding"

\* The two ends never wait for each other for ever.  Both byte streams are
\* bounded, a write keeps the main loop of run or a sender of the client where
\* it is until the reader makes room, the receiver of the server waits for the
\* main loop to tell of a refused message, and each reader waits for a buffer
\* nobody may be emptying: yet the connection comes to rest again and again.
NoMutualWait == []<>AtRest
=============================================================================
