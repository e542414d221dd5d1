--------------------------- MODULE ConnectionProofs ---------------------------
(***************************************************************************)
(* The invariant of a client and a server joined, for any number of calls, *)
(* any size of the buffers and any interleaving of the two ends.           *)
(*                                                                         *)
(* The invariants of the parts hold of the whole, since each end is to the *)
(* other one of the peers its own proofs allow (ClientInv, ServerInv).     *)
(* JointInv relates the two: what is on one side's wire and what the other *)
(* side has of it.                                                         *)
(***************************************************************************)
EXTENDS Connection, FiniteSetTheorems, TLAPS

\* The two ends with the invariants proved of each.
CD == INSTANCE ClientStreamProofs WITH ServerKinds <- {"ok", "err", "data", "dataClose", "close"}

SD == INSTANCE ServerConnProofs WITH
       Unary <- SidsOf(Unary), Streams <- SidsOf(Streams), Unserved <- {},
       StreamingClient <- SidsOf(StreamingClient), StreamingServer <- SidsOf(StreamingServer),
       WithPayload <- SidsOf(WithPayload), Oversized <- SidsOf(LongAnswers),
       ClientKinds <- {"request", "data", "close"},
       MaxIn <- MaxFrames, MaxSends <- MaxReplies, ShutdownBy <- {},
       inbox <- sInbox, peer <- sPeer, cur <- sCur, recvErr <- sRecvErr,
       remoteClosed <- sRemoteClosed, ctxDone <- sCtxDone

-----------------------------------------------------------------------------
(* The theorems of the parts apply: their constants have what they ask.    *)

LEMMA BoundType == MaxFrames \in Nat
<1>1. Cardinality(Calls) \in Nat
  BY CallsAssumption, FS_CardinalityType
<1>2. MaxReplies + MaxSends + 4 \in Nat
  BY SizeAssumption
<1>3. \A m, n \in Nat : m * n \in Nat
  OBVIOUS
<1> QED
  BY <1>1, <1>2, <1>3 DEF MaxFrames

LEMMA ClientAssumptions ==
  CD!CallsAssumption /\ CD!SizeAssumption /\ CD!KindsAssumption
<1>1. CD!CallsAssumption
  BY CallsAssumption DEF CD!CallsAssumption, CD!Calls, Calls
<1>2. CD!SizeAssumption
  BY SizeAssumption, BoundType DEF CD!SizeAssumption
<1>3. CD!KindsAssumption
  BY DEF CD!KindsAssumption, CD!Kinds
<1> QED
  BY <1>1, <1>2, <1>3

LEMMA SidsOfCalls ==
  /\ \A cs \in SUBSET Calls : SidsOf(cs) \subseteq Nat /\ 0 \notin SidsOf(cs)
  /\ \A cs, ds \in SUBSET Calls : /\ cs \cap ds = {} => SidsOf(cs) \cap SidsOf(ds) = {}
                                  /\ cs \subseteq ds => SidsOf(cs) \subseteq SidsOf(ds)
<1>1. \A n \in Nat : n % 2 = 1 => n # 0
  OBVIOUS
<1>2. \A c \in Calls : SidOf[c] \in Nat /\ SidOf[c] # 0
  BY <1>1, SidOfAssumption
<1> QED
  BY <1>2, SidOfAssumption DEF SidsOf

LEMMA ServerAssumptions == SD!SidsAssumption /\ SD!BoundsAssumption
<1>1. Unary \in SUBSET Calls /\ Streams \in SUBSET Calls
  BY DEF Calls
<1>2. SD!SidsAssumption
  <2>1. StreamingClient \in SUBSET Calls /\ StreamingServer \in SUBSET Calls
        /\ WithPayload \in SUBSET Calls
    BY <1>1, CallsAssumption
  <2> QED
    BY <1>1, <2>1, SidsOfCalls, CallsAssumption DEF SD!SidsAssumption, SD!Sids
<1>3. SD!BoundsAssumption
  BY SizeAssumption, BoundType DEF SD!BoundsAssumption, SD!Kinds
<1> QED
  BY <1>2, <1>3

LEMMA SameCreate ==
  /\ \A c : C!AcquireSendLock(c) <=> CD!AcquireSendLock(c)
  /\ \A c : C!RegisterStream(c) <=> CD!RegisterStream(c)
  /\ \A c : C!SendRequest(c) <=> CD!SendRequest(c)
  BY DEF C!AcquireSendLock, CD!AcquireSendLock, C!SendLockFree, CD!SendLockFree,
       C!RegisterStream, CD!RegisterStream, C!CreateRefused, CD!CreateRefused, C!SendRequest,
       CD!SendRequest, C!RequestWritten, CD!RequestWritten, C!RequestFailed, CD!RequestFailed,
       C!closeVars, CD!closeVars, C!loopVars, CD!loopVars, C!netVars, CD!netVars

LEMMA SameUnary ==
  /\ \A c : C!UnaryReceive(c) <=> CD!UnaryReceive(c)
  /\ \A c : C!UnaryFail(c) <=> CD!UnaryFail(c)
  /\ \A c : C!UnaryReturn(c) <=> CD!UnaryReturn(c)
  BY DEF C!UnaryReceive, CD!UnaryReceive, C!UnaryFail, CD!UnaryFail, C!UnaryGivesUp,
       CD!UnaryGivesUp, C!RecvErrReady, CD!RecvErrReady, C!UnaryReturn, CD!UnaryReturn,
       C!DeferredDelete, CD!DeferredDelete, C!DeleteStream, CD!DeleteStream, C!CloseWithError,
       CD!CloseWithError, C!Responses, CD!Responses, C!closeVars, CD!closeVars, C!registryVars,
       CD!registryVars, C!loopVars, CD!loopVars, C!netVars, CD!netVars

LEMMA SameReceive ==
  /\ \A c : C!RecvMsgBegin(c) <=> CD!RecvMsgBegin(c)
  /\ \A c : C!RecvMsgFail(c) <=> CD!RecvMsgFail(c)
  /\ \A c : C!RecvMsgTake(c) <=> CD!RecvMsgTake(c)
  BY DEF C!RecvMsgBegin, CD!RecvMsgBegin, C!RecvMsgFail, CD!RecvMsgFail, C!RecvErrReady,
       CD!RecvErrReady, C!RecvMsgTake, CD!RecvMsgTake, C!IsFinal, CD!IsFinal, C!RecvMsgError,
       CD!RecvMsgError, C!RemoteClosedFlag, CD!RemoteClosedFlag, C!DeleteStream, CD!DeleteStream,
       C!CloseWithError, CD!CloseWithError, C!Responses, CD!Responses, C!closeVars, CD!closeVars,
       C!registryVars, CD!registryVars, C!loopVars, CD!loopVars, C!netVars, CD!netVars

LEMMA SameSend ==
  /\ \A c : C!SendMsg(c) <=> CD!SendMsg(c)
  /\ \A c : C!CloseSend(c) <=> CD!CloseSend(c)
  BY DEF C!SendMsg, CD!SendMsg, C!CloseSend, CD!CloseSend, C!Send, CD!Send, C!StreamOpened,
       CD!StreamOpened, C!MaySend, CD!MaySend, C!SendLockFree, CD!SendLockFree, C!Cardinality,
       CD!Cardinality, C!IsFiniteSet, CD!IsFiniteSet, C!closeVars, CD!closeVars, C!registryVars,
       CD!registryVars, C!appVars, CD!appVars, C!loopVars, CD!loopVars, C!netVars, CD!netVars

LEMMA SameLoopTop ==
  /\ C!LoopTop <=> CD!LoopTop
  /\ C!ReceiveError <=> CD!ReceiveError
  /\ C!CallbackReturns <=> CD!CallbackReturns
  /\ C!RunClose <=> CD!RunClose
  /\ C!CloseConn <=> CD!CloseConn
  BY DEF C!LoopTop, CD!LoopTop, C!ReceiveError, CD!ReceiveError, C!FilterCloseErr,
       CD!FilterCloseErr, C!CallbackReturns, CD!CallbackReturns, C!RunClose, CD!RunClose,
       C!CancelCtx, CD!CancelCtx, C!CloseConn, CD!CloseConn, C!closeVars, CD!closeVars,
       C!registryVars, CD!registryVars, C!appVars, CD!appVars, C!loopVars, CD!loopVars,
       C!netVars, CD!netVars, C!loopUnchanged, CD!loopUnchanged

LEMMA SameLoopRead ==
  /\ C!ReceiveFrame <=> CD!ReceiveFrame
  /\ C!ReceiveCheck <=> CD!ReceiveCheck
  /\ C!Deliver <=> CD!Deliver
  /\ C!Drop <=> CD!Drop
  BY DEF C!ReceiveFrame, CD!ReceiveFrame, C!CloseWithError, CD!CloseWithError, C!ReceiveCheck,
       CD!ReceiveCheck, C!ClosedCheck, CD!ClosedCheck, C!Deliver, CD!Deliver, C!HasRoom,
       CD!HasRoom, C!Capacity, CD!Capacity, C!Drop, CD!Drop, C!closeVars, CD!closeVars,
       C!registryVars, CD!registryVars, C!appVars, CD!appVars, C!loopVars, CD!loopVars,
       C!netVars, CD!netVars, C!loopUnchanged, CD!loopUnchanged

LEMMA SameLoopWait ==
  /\ C!WaitForRoom <=> CD!WaitForRoom
  /\ C!ReceiveTimeout <=> CD!ReceiveTimeout
  /\ C!CleanupStreams <=> CD!CleanupStreams
  BY DEF C!WaitForRoom, CD!WaitForRoom, C!HasRoom, CD!HasRoom, C!Capacity, CD!Capacity,
       C!ReceiveTimeout, CD!ReceiveTimeout, C!TimerFires, CD!TimerFires, C!CloseWithError,
       CD!CloseWithError, C!CleanupStreams, CD!CleanupStreams, C!CloseAllStreams,
       CD!CloseAllStreams, C!Sids, CD!Sids, C!Calls, CD!Calls, C!closeVars, CD!closeVars,
       C!registryVars, CD!registryVars, C!appVars, CD!appVars, C!loopVars, CD!loopVars,
       C!netVars, CD!netVars, C!loopUnchanged, CD!loopUnchanged

LEMMA SameArrival ==
  /\ \A i, k : C!FrameArrives(i, k) <=> CD!FrameArrives(i, k)
  BY DEF C!FrameArrives, CD!FrameArrives

LEMMA SameTaking ==
  /\ S!ReceiverTop <=> SD!ReceiverTop
  /\ S!ReceiveMalformed <=> SD!ReceiveMalformed
  /\ S!ReceiveData <=> SD!ReceiveData
  /\ S!ReceiveRequest <=> SD!ReceiveRequest
  /\ S!ReceiveOther <=> SD!ReceiveOther
  BY DEF S!ReceiverTop, SD!ReceiverTop, S!Stopped, SD!Stopped, S!ReceiverExits, SD!ReceiverExits,
       S!ReceiveMalformed, SD!ReceiveMalformed, S!TakeFrame, SD!TakeFrame, S!Malformed,
       SD!Malformed, S!Refuse, SD!Refuse, S!Proceed, SD!Proceed, S!ReceiveData, SD!ReceiveData,
       S!DataKinds, SD!DataKinds, S!HasMessage, SD!HasMessage, S!ReceiveRequest,
       SD!ReceiveRequest, S!IdRefused, SD!IdRefused, S!StartHandler, SD!StartHandler, S!Pushed,
       SD!Pushed, S!ReceiveOther, SD!ReceiveOther, S!recvVars, SD!recvVars, S!mapVars,
       SD!mapVars, S!mainVars, SD!mainVars, S!closeVars, SD!closeVars, S!streamVars,
       SD!streamVars, S!handlerVars, SD!handlerVars, S!netVars, SD!netVars

LEMMA SameDelivery ==
  /\ S!DataAccepted <=> SD!DataAccepted
  /\ S!DataAborted <=> SD!DataAborted
  /\ S!DataWaits <=> SD!DataWaits
  /\ S!DataFull <=> SD!DataFull
  BY DEF S!DataAccepted, SD!DataAccepted, S!HasRoom, SD!HasRoom, S!Capacity, SD!Capacity,
       S!Refuse, SD!Refuse, S!Proceed, SD!Proceed, S!DataAborted, SD!DataAborted, S!DataWaits,
       SD!DataWaits, S!DataFull, SD!DataFull, S!TimerFires, SD!TimerFires, S!FullRefused,
       SD!FullRefused, S!receiverOnly, SD!receiverOnly, S!recvVars, SD!recvVars, S!mapVars,
       SD!mapVars, S!mainVars, SD!mainVars, S!closeVars, SD!closeVars, S!streamVars,
       SD!streamVars, S!handlerVars, SD!handlerVars, S!netVars, SD!netVars

LEMMA SameReceiver ==
  /\ S!StoreStream <=> SD!StoreStream
  /\ S!CountStream <=> SD!CountStream
  /\ S!StatusAborted <=> SD!StatusAborted
  /\ S!ReceiveFails <=> SD!ReceiveFails
  BY DEF S!StoreStream, SD!StoreStream, S!CountStream, SD!CountStream, S!Proceed, SD!Proceed,
       S!StatusAborted, SD!StatusAborted, S!Stopped, SD!Stopped, S!ReceiverExits,
       SD!ReceiverExits, S!ReceiveFails, SD!ReceiveFails, S!receiverOnly, SD!receiverOnly,
       S!recvVars, SD!recvVars, S!mapVars, SD!mapVars, S!mainVars, SD!mainVars, S!closeVars,
       SD!closeVars, S!streamVars, SD!streamVars, S!handlerVars, SD!handlerVars, S!netVars,
       SD!netVars

LEMMA SameMain ==
  /\ S!MainTop <=> SD!MainTop
  /\ S!TakeStatus <=> SD!TakeStatus
  /\ S!FinishStream <=> SD!FinishStream
  /\ S!TakeRecvErr <=> SD!TakeRecvErr
  /\ S!MainShutdown <=> SD!MainShutdown
  BY DEF S!MainTop, SD!MainTop, S!TakeStatus, SD!TakeStatus, S!FinishStream, SD!FinishStream,
       S!CountDown, SD!CountDown, S!TakeRecvErr, SD!TakeRecvErr, S!ClientGone, SD!ClientGone,
       S!MainShutdown, SD!MainShutdown, S!Return, SD!Return, S!Sids, SD!Sids, S!mainOnly,
       SD!mainOnly, S!recvVars, SD!recvVars, S!mapVars, SD!mapVars, S!mainVars, SD!mainVars,
       S!closeVars, SD!closeVars, S!streamVars, SD!streamVars, S!handlerVars, SD!handlerVars,
       S!netVars, SD!netVars

LEMMA SameResponses ==
  /\ \A s : S!TakeResponse(s) <=> SD!TakeResponse(s)
  /\ S!WriteResponse <=> SD!WriteResponse
  BY DEF S!TakeResponse, SD!TakeResponse, S!WriteResponse, SD!WriteResponse, S!Terminal,
       SD!Terminal, S!Return, SD!Return, S!Sids, SD!Sids, S!mainOnly, SD!mainOnly, S!recvVars,
       SD!recvVars, S!mapVars, SD!mapVars, S!mainVars, SD!mainVars, S!closeVars, SD!closeVars,
       S!streamVars, SD!streamVars, S!handlerVars, SD!handlerVars, S!netVars, SD!netVars

LEMMA SameHandler ==
  /\ \A s : S!RecvMsg(s) <=> SD!RecvMsg(s)
  /\ \A s : S!RecvMsgTakes(s) <=> SD!RecvMsgTakes(s)
  /\ \A s : S!RecvMsgEOF(s) <=> SD!RecvMsgEOF(s)
  /\ \A s : S!RecvMsgCancelled(s) <=> SD!RecvMsgCancelled(s)
  /\ \A s : S!RespondAborted(s) <=> SD!RespondAborted(s)
  BY DEF S!RecvMsg, SD!RecvMsg, S!RecvMsgTakes, SD!RecvMsgTakes, S!RecvMsgEOF, SD!RecvMsgEOF,
       S!ChannelDrained, SD!ChannelDrained, S!RecvMsgCancelled, SD!RecvMsgCancelled,
       S!RespondAborted, SD!RespondAborted, S!RespondGivesUp, SD!RespondGivesUp, S!Move, SD!Move,
       S!Terminal, SD!Terminal, S!handlerOnly, SD!handlerOnly, S!recvVars, SD!recvVars,
       S!mapVars, SD!mapVars, S!mainVars, SD!mainVars, S!closeVars, SD!closeVars, S!streamVars,
       SD!streamVars, S!handlerVars, SD!handlerVars, S!netVars, SD!netVars

LEMMA SameAnswer ==
  /\ \A s : S!SendMsg(s) <=> SD!SendMsg(s)
  /\ \A s : S!HandlerReturns(s) <=> SD!HandlerReturns(s)
  BY DEF S!SendMsg, SD!SendMsg, S!HandlerReturns, SD!HandlerReturns, S!Respond, SD!Respond,
       S!Move, SD!Move, S!Cardinality, SD!Cardinality, S!IsFiniteSet, SD!IsFiniteSet,
       S!handlerOnly, SD!handlerOnly, S!recvVars, SD!recvVars, S!mapVars, SD!mapVars, S!mainVars,
       SD!mainVars, S!closeVars, SD!closeVars, S!streamVars, SD!streamVars, S!handlerVars,
       SD!handlerVars, S!netVars, SD!netVars

LEMMA SameFrames ==
  /\ \A i, k : S!FrameArrives(i, k) <=> SD!FrameArrives(i, k)
  BY DEF S!FrameArrives, SD!FrameArrives

LEMMA SameSteps ==
  /\ \A c : C!CallStep(c) <=> CD!CallStep(c)
  /\ C!LoopStep <=> CD!LoopStep
  /\ S!Receiver <=> SD!Receiver
  /\ S!Main <=> SD!Main
  /\ \A s : S!HandlerStep(s) <=> SD!HandlerStep(s)
<1>1. \A c : C!CallStep(c) <=> CD!CallStep(c)
  BY SameCreate, SameUnary, SameReceive DEF C!CallStep, CD!CallStep
<1>2. C!LoopStep <=> CD!LoopStep
  BY SameLoopTop, SameLoopRead, SameLoopWait DEF C!LoopStep, CD!LoopStep
<1>3. S!Receiver <=> SD!Receiver
  BY SameTaking, SameDelivery, SameReceiver DEF S!Receiver, SD!Receiver
<1>4. S!Main <=> SD!Main
  <2>1. S!Sids = SD!Sids
    BY DEF S!Sids, SD!Sids
  <2> QED
    BY <2>1, SameMain, SameResponses DEF S!Main, SD!Main
<1>5. \A s : S!HandlerStep(s) <=> SD!HandlerStep(s)
  BY SameHandler DEF S!HandlerStep, SD!HandlerStep
<1> QED
  BY <1>1, <1>2, <1>3, <1>4, <1>5

LEMMA SameSets ==
  /\ CD!Calls = Calls
  /\ SD!Sids = SidsOf(Calls)
  /\ S!Terminal = SD!Terminal
  /\ \A s : S!Pushed(s) <=> SD!Pushed(s)
  BY DEF CD!Calls, Calls, SD!Sids, SidsOf, S!Terminal, SD!Terminal, S!Pushed, SD!Pushed

LEMMA SameInit == Init => CD!Init /\ SD!Init
  BY DEF Init, C!Init, CD!Init, S!Init, SD!Init, C!Sids, CD!Sids, C!Calls, CD!Calls, S!Sids,
       SD!Sids, S!NoFrame, SD!NoFrame

-----------------------------------------------------------------------------
(* What relates the two ends.                                              *)

Asked(c) == OnWire(c, "request") # {}
DataSent(c) == Cardinality(OnWire(c, "data"))
FromClient(c) == sentIn[SidOf[c]]

\* The calls that have begun have their ids, and one id at most comes after
\* the last of them.
Ids ==
  /\ nextStreamID = 1 \/ \E c \in Calls : nextStreamID = SidOf[c] + 2
  /\ \A c \in Calls : /\ sid[c] \in {0, SidOf[c]}
                      /\ pc[c] = "locked" => nextStreamID = SidOf[c]

\* What the server's end has of a call: the request, then data, then the close
\* that follows all data, and all of it as long as that end is not gone.
UpOf(c) ==
  /\ FromClient(c) # <<>> => Asked(c)
  /\ \A n \in DOMAIN FromClient(c) :
       /\ FromClient(c)[n].kind \in (IF n = 1 THEN {"request"} ELSE {"data", "close"})
       /\ FromClient(c)[n].kind = "close" =>
            n = Len(FromClient(c)) /\ n = DataSent(c) + 2 /\ localClosed[c]
       /\ FromClient(c)[n].kind # "close" => n <= DataSent(c) + 1
  /\ ~ServerGone /\ Asked(c) /\ ~localClosed[c] => Len(FromClient(c)) = DataSent(c) + 1

Answered(c) == \E i \in Answers(c) : outbox[i].kind \in S!Terminal
FromServer(c) == sent[SidOf[c]]
NoErrors(q, n) == {i \in 1 .. n : q[i].kind # "err"}

\* What the client's end has of a call: no more than was written, no less
\* either as long as that end is not gone, and everything by the time the end
\* of the call is among it.
DownOf(c) ==
  /\ Cardinality(NoErrors(FromServer(c), Len(FromServer(c)))) <= Cardinality(Answers(c))
  /\ ~ClientGone /\ ~Answered(c) =>
       Cardinality(NoErrors(FromServer(c), Len(FromServer(c)))) = Cardinality(Answers(c))
  /\ \A n \in DOMAIN FromServer(c) : FromServer(c)[n].kind \in {"ok", "dataClose", "close"} =>
       Answered(c) /\ Cardinality(NoErrors(FromServer(c), n)) = Cardinality(Answers(c))

\* A call that is under way was told nothing.
ToldOf(c) ==
  /\ pc[c] \in {"start", "locked", "registered", "waiting", "open", "recving"} => ret[c] = "none"
  /\ pc[c] \in {"start", "locked", "registered", "recving"} => ~remoteClosed[c]
  /\ remoteClosed[c] => c \in Streams

JointInv == Ids /\ \A c \in Calls : UpOf(c) /\ DownOf(c) /\ ToldOf(c)

ClientInv ==
  /\ CD!TypeOK /\ CD!IdInv /\ CD!WakeInv /\ CD!RegisteredInv /\ CD!WireInv /\ CD!DeliveryInv
ServerInv ==
  /\ SD!TypeOK /\ SD!OrderInv /\ SD!StreamsInv /\ SD!RiseInv /\ SD!AnswerInv /\ SD!SourceInv
Inv == ClientInv /\ ServerInv /\ JointInv
-----------------------------------------------------------------------------
(* A step of the whole is a step of each end, or leaves it alone.          *)

LEMMA LastAppended == ASSUME NEW T, NEW q \in Seq(T), NEW x PROVE Last(Append(q, x)) = x
  BY DEF Last

LEMMA EndsUnchanged ==
  /\ UNCHANGED clientVars => UNCHANGED CD!vars
  /\ UNCHANGED serverVars => UNCHANGED SD!vars
  BY DEF clientVars, clientOwn, CD!vars, CD!closeVars, CD!registryVars, CD!appVars, CD!loopVars,
       CD!netVars, serverVars, serverOwn, SD!vars, SD!recvVars, SD!mapVars, SD!mainVars,
       SD!closeVars, SD!streamVars, SD!handlerVars, SD!netVars

LEMMA OnTheWire ==
  ASSUME NEW c \in Calls, NEW k
  PROVE  /\ OnWire(c, k) \subseteq DOMAIN wire
         /\ \A j \in OnWire(c, k) : wire[j].sid = SidOf[c] /\ wire[j].kind = k
         /\ OnWire(c, k) # {} => \E j \in DOMAIN wire : wire[j].sid = SidOf[c]
  BY DEF OnWire

LEMMA SidIsSid == \A c \in Calls : SidOf[c] \in CD!Sids /\ SidOf[c] # 0
<1>1. \A n \in Nat : n + 4 < SidLimit => n \in 0 .. SidLimit - 1
  BY SizeAssumption
<1>2. \A n \in Nat : n % 2 = 1 => n # 0
  OBVIOUS
<1> QED
  BY <1>1, <1>2, SidOfAssumption DEF CD!Sids

\* What run writes answers a request.
LEMMA RunWrites ==
  ASSUME Inv, SD!Main
  PROVE  \/ outbox' = outbox
         \/ /\ outbox' = Append(outbox, mresp) /\ Last(outbox') = mresp
            /\ SD!WriteResponse /\ done' = done /\ mresp \in SD!Responses
            /\ \E c \in Calls : mresp.sid = SidOf[c] /\ Asked(c)
<1>1. CASE ~SD!WriteResponse
  BY <1>1 DEF SD!Main, SD!MainTop, SD!TakeStatus, SD!TakeResponse, SD!FinishStream,
       SD!TakeRecvErr, SD!MainShutdown
<1>2. CASE SD!WriteResponse
  <2>1. mresp \in SD!Responses /\ mresp # SD!NoFrame /\ outbox \in Seq(SD!Responses)
    BY <1>2, SD!FrameIsSome, ServerAssumptions
    DEF SD!WriteResponse, Inv, ServerInv, SD!TypeOK, SD!MainTypeOK
  <2>2. PICK c \in Calls : mresp.sid = SidOf[c]
    BY <2>1, SameSets DEF SD!Responses, SidsOf
  <2>3. Asked(c)
    BY <2>1, <2>2 DEF Inv, ServerInv, JointInv, UpOf, FromClient, SD!SourceInv, SD!Asked
  <2>4. \/ outbox' = Append(outbox, mresp) /\ done' = done
        \/ outbox' = outbox
    BY <1>2 DEF SD!WriteResponse
  <2> QED
    BY <1>2, <2>1, <2>2, <2>3, <2>4, LastAppended
<1> QED
  BY <1>1, <1>2

\* How the client sees what run does.
LEMMA RunIsServer ==
  ASSUME Inv, SD!Main, CarriedToClient
  PROVE  CD!ServerActs \/ UNCHANGED CD!vars
<1>1. CASE UNCHANGED clientVars
  BY <1>1, EndsUnchanged
<1>2. CASE /\ outbox' # outbox /\ ~ClientGone
           /\ \E k \in SeenAs(Last(outbox').kind) : C!FrameArrives(Last(outbox').sid, k)
           /\ UNCHANGED <<clientOwn, peer>>
  <2>1. PICK k \in SeenAs(mresp.kind) : CD!FrameArrives(mresp.sid, k)
    BY <1>2, RunWrites, SameArrival
  <2>2. mresp \in SD!Responses /\ \E c \in Calls : mresp.sid = SidOf[c] /\ Asked(c)
    BY <1>2, RunWrites
  <2>3. k \in {"ok", "err", "data", "dataClose", "close"}
    BY <2>1, <2>2 DEF SeenAs, SD!Responses, SD!Terminal
  <2>4. \E j \in DOMAIN wire : wire[j].sid = mresp.sid
    BY <2>2, OnTheWire DEF Asked
  <2>5. mresp.sid \in CD!Sids
    BY <2>2, SidIsSid
  <2>6. CD!ServerWrites(mresp.sid, k)
    BY <1>2, <2>1, <2>4 DEF CD!ServerWrites, clientOwn, CD!closeVars, CD!registryVars, CD!appVars,
         CD!loopVars
  <2> QED
    BY <2>3, <2>5, <2>6 DEF CD!ServerActs
<1>3. CASE /\ done' # done /\ ~ClientGone /\ peer' = "eof"
           /\ UNCHANGED <<clientOwn, inbox, sent>>
  BY <1>3 DEF ClientGone, CD!ServerActs, CD!ServerHangsUp, clientOwn, CD!closeVars,
       CD!registryVars, CD!appVars, CD!loopVars
<1> QED
  BY <1>1, <1>2, <1>3 DEF CarriedToClient

LEMMA ClientMoves ==
  ASSUME Inv, [Next]_vars
  PROVE  [CD!Moves]_CD!vars
<1>1. ASSUME NEW c \in Calls, ClientWrites(c) \/ CallBegins(c) \/ CallStep(c) \/ AppStep(c)
      PROVE  CD!Moves
  <2>1. CD!CallStep(c) \/ CD!AppStep(c) \/ CD!SendRequest(c)
    BY <1>1, SameSteps, SameCreate, SameSend, SameReceive
    DEF ClientWrites, CallBegins, CallStep, AppStep, CD!AppStep
  <2> QED
    BY <2>1, SameSets DEF CD!Moves
<1>2. CASE ClientLoop \/ ClientCloses
  BY <1>2, SameSteps, SameLoopTop DEF ClientLoop, ClientCloses, CD!Moves
<1>3. CASE Main
  BY <1>3, SameSteps, RunIsServer DEF Main, CD!Moves
<1>4. CASE UNCHANGED clientVars
  BY <1>4, EndsUnchanged
<1> QED
  BY <1>1, <1>2, <1>3, <1>4
  DEF Next, Receiver, HandlerStep, HandlerReturns, HandlerActs, vars

LEMMA InvTypes ==
  ASSUME Inv
  PROVE  /\ wire \in Seq(CD!Messages) /\ Len(wire) \in Nat /\ DOMAIN wire = 1 .. Len(wire)
         /\ outbox \in Seq(SD!Responses) /\ Len(outbox) \in Nat
         /\ DOMAIN outbox = 1 .. Len(outbox)
         /\ DOMAIN sid = Calls /\ DOMAIN pc = Calls /\ DOMAIN ret = Calls /\ DOMAIN got = Calls
         /\ DOMAIN localClosed = Calls /\ DOMAIN remoteClosed = Calls
         /\ \A c \in Calls : got[c] \in Seq(CD!Frames) /\ SidOf[c] \in SD!Sids
         /\ \A c \in Calls : SidOf[c] \in CD!Sids /\ SidOf[c] # 0
  BY SidIsSid, SameSets
  DEF Inv, ClientInv, ServerInv, CD!TypeOK, CD!CallTypeOK, SD!TypeOK, SD!MainTypeOK, SidsOf

\* What a step of the client writes.
LEMMA ClientWritesOne ==
  ASSUME Inv, NEW c \in Calls, CD!SendRequest(c) \/ CD!SendMsg(c) \/ CD!CloseSend(c)
  PROVE  \/ wire' = wire /\ CD!SendRequest(c) /\ CD!RequestFailed(c)
         \/ /\ sid[c] = SidOf[c]
            /\ \E k \in {"request", "data", "close"} :
                 LET m == [sid |-> SidOf[c], kind |-> k]
                 IN wire' = Append(wire, m) /\ Last(wire') = m /\ wire' # wire
<1>1. CASE CD!SendRequest(c) /\ CD!RequestFailed(c)
  BY <1>1 DEF CD!RequestFailed
<1>2. CASE ~(CD!SendRequest(c) /\ CD!RequestFailed(c))
  <2>1. PICK k \in {"request", "data", "close"} : wire' = Append(wire, [sid |-> sid[c], kind |-> k])
    BY <1>2 DEF CD!SendRequest, CD!RequestWritten, CD!SendMsg, CD!CloseSend, CD!Send
  <2>2. sid[c] # 0
    BY <1>2, SameSets DEF CD!SendRequest, CD!SendMsg, CD!CloseSend, CD!Send, CD!StreamOpened, Inv,
         ClientInv, CD!IdInv
  <2>3. sid[c] = SidOf[c]
    BY <2>2 DEF Inv, JointInv, Ids
  <2> PICK m : m = [sid |-> SidOf[c], kind |-> k]
    OBVIOUS
  <2>4. wire' = Append(wire, m) /\ m \in CD!Messages
    BY <2>1, <2>3, InvTypes DEF CD!Messages, CD!WireKinds
  <2>5. Last(wire') = m
    BY <2>4, LastAppended, InvTypes
  <2>6. wire' # wire
    <3>1. Len(wire') = Len(wire) + 1
      BY <2>4, InvTypes
    <3>2. \A n \in Nat : n + 1 # n
      OBVIOUS
    <3> QED
      BY <3>1, <3>2, InvTypes
  <2> QED
    BY <2>3, <2>4, <2>5, <2>6
<1> QED
  BY <1>1, <1>2

LEMMA ServerMoves ==
  ASSUME Inv, [Next]_vars
  PROVE  [SD!Moves]_SD!vars
<1>1. ASSUME NEW c \in Calls, ClientWrites(c) PROVE [SD!Moves]_SD!vars
  <2>1. CASE UNCHANGED serverVars
    BY <2>1, EndsUnchanged
  <2>2. CASE ~(UNCHANGED serverVars)
    <3>1. /\ wire' # wire /\ S!FrameArrives(Last(wire').sid, Last(wire').kind)
          /\ UNCHANGED <<serverOwn, sPeer>>
      BY <1>1, <2>2 DEF ClientWrites, CarriedToServer
    <3>2. PICK k \in {"request", "data", "close"} : Last(wire') = [sid |-> SidOf[c], kind |-> k]
      BY <1>1, <3>1, SameCreate, SameSend, ClientWritesOne DEF ClientWrites
    <3>3. SD!FrameSent(SidOf[c], k)
      BY <3>1, <3>2, SameFrames DEF SD!FrameSent, SD!envOnly, SD!recvVars, SD!mapVars,
           SD!mainVars, SD!closeVars, SD!streamVars, SD!handlerVars, serverOwn
    <3> QED
      BY <3>3, InvTypes DEF SD!Moves, SD!AnyEnvironment
  <2> QED
    BY <2>1, <2>2
<1>2. ASSUME NEW c \in Calls, HandlerStep(c) \/ HandlerReturns(c) \/ HandlerActs(c)
      PROVE  [SD!Moves]_SD!vars
  BY <1>2, SameSteps, SameHandler, SameAnswer, InvTypes
  DEF HandlerStep, HandlerReturns, HandlerActs, SD!Moves, SD!HandlerActs
<1>3. CASE ClientCloses
  BY <1>3, EndsUnchanged
  DEF ClientCloses, ServerGone, SD!Moves, SD!AnyEnvironment, SD!ClientGoes, SD!envOnly,
      SD!recvVars, SD!mapVars, SD!mainVars, SD!closeVars, SD!streamVars, SD!handlerVars,
      serverOwn, serverVars
<1>4. CASE Receiver \/ Main
  BY <1>4, SameSteps DEF Receiver, Main, SD!Moves
<1>5. CASE UNCHANGED serverVars
  BY <1>5, EndsUnchanged
<1> QED
  BY <1>1, <1>2, <1>3, <1>4, <1>5 DEF Next, CallBegins, CallStep, AppStep, ClientLoop, vars
-----------------------------------------------------------------------------
(* Each end keeps its own invariants.                                      *)

LEMMA IdsRemain == Inv => CD!IdsLeft
<1>1. \A n \in Nat : n + 4 < SidLimit => (n + 2) + 2 < SidLimit
  BY SizeAssumption
<1> QED
  BY <1>1, SizeAssumption, SidOfAssumption DEF Inv, JointInv, Ids, CD!IdsLeft

LEMMA ClientInvNext == Inv /\ [Next]_vars => ClientInv'
<1> SUFFICES ASSUME Inv, [Next]_vars PROVE ClientInv'
  OBVIOUS
<1> USE ClientAssumptions
<1>1. ClientInv /\ CD!IdsLeft /\ [CD!Moves]_CD!vars
  BY IdsRemain, ClientMoves DEF Inv
<1>2. CD!TypeOK' /\ CD!IdInv'
  BY <1>1, CD!NextType, CD!IdInvNext DEF ClientInv
<1>3. CD!WakeInv' /\ CD!RegisteredInv'
  BY <1>1, CD!WakeInvNext, CD!RegisteredNext DEF ClientInv
<1>4. CD!WireInv'
  BY <1>1, CD!WireNext DEF ClientInv
<1>5. CD!DeliveryInv'
  BY <1>1, CD!DeliveryNext DEF ClientInv
<1> QED
  BY <1>2, <1>3, <1>4, <1>5 DEF ClientInv

LEMMA ServerInvNext == Inv /\ [Next]_vars => ServerInv'
<1> SUFFICES ASSUME Inv, [Next]_vars PROVE ServerInv'
  OBVIOUS
<1> USE ServerAssumptions
<1>1. ServerInv /\ SD!FlightInv /\ [SD!Moves]_SD!vars
  BY ServerMoves DEF Inv, ServerInv, SD!StreamsInv
<1>2. SD!TypeOK' /\ SD!OrderInv'
  BY <1>1, SD!TypeNext, SD!OrderNext DEF ServerInv
<1>3. SD!StreamsInv' /\ SD!RiseInv'
  BY <1>1, SD!StreamsNext, SD!RiseNext DEF ServerInv
<1>4. SD!AnswerInv'
  BY <1>1, SD!AnswerNext DEF ServerInv
<1>5. SD!SourceInv'
  BY <1>1, SD!SourceNext DEF ServerInv
<1> QED
  BY <1>2, <1>3, <1>4, <1>5 DEF ServerInv
-----------------------------------------------------------------------------
(* Counting frames.                                                        *)

LEMMA PartOfInterval ==
  ASSUME NEW n \in Nat, NEW I \in SUBSET (1 .. n)
  PROVE  /\ IsFiniteSet(I) /\ Cardinality(I) \in Nat
         /\ Cardinality(I \cup {n + 1}) = Cardinality(I) + 1
         /\ \A J \in SUBSET I : Cardinality(J) <= Cardinality(I)
<1>1. IsFiniteSet(1 .. n)
  BY FS_Interval
<1>2. IsFiniteSet(I) /\ Cardinality(I) \in Nat
  BY <1>1, FS_Subset, FS_CardinalityType
<1>3. n + 1 \notin I
  OBVIOUS
<1>4. \A J \in SUBSET I : Cardinality(J) <= Cardinality(I)
  BY <1>2, FS_Subset
<1> QED
  BY <1>2, <1>3, <1>4, FS_AddElement

LEMMA NoErrorsCount ==
  ASSUME NEW q, NEW n \in Nat
  PROVE  /\ Cardinality(NoErrors(q, n)) \in Nat
         /\ Cardinality(NoErrors(q, n + 1)) =
              Cardinality(NoErrors(q, n)) + (IF q[n + 1].kind # "err" THEN 1 ELSE 0)
         /\ \A m \in 0 .. n : Cardinality(NoErrors(q, m)) <= Cardinality(NoErrors(q, n))
         /\ \A r : (\A i \in 1 .. n : r[i] = q[i]) => NoErrors(r, n) = NoErrors(q, n)
<1>1. NoErrors(q, n) \in SUBSET (1 .. n)
  BY DEF NoErrors
<1>2. NoErrors(q, n + 1) =
        IF q[n + 1].kind # "err" THEN NoErrors(q, n) \cup {n + 1} ELSE NoErrors(q, n)
  <2>1. 1 .. n + 1 = (1 .. n) \cup {n + 1}
    OBVIOUS
  <2> QED
    BY <2>1 DEF NoErrors
<1>3. \A m \in 0 .. n : NoErrors(q, m) \in SUBSET NoErrors(q, n)
  BY DEF NoErrors
<1>4. \A r : (\A i \in 1 .. n : r[i] = q[i]) => NoErrors(r, n) = NoErrors(q, n)
  BY DEF NoErrors
<1>5. /\ Cardinality(NoErrors(q, n)) \in Nat
      /\ Cardinality(NoErrors(q, n) \cup {n + 1}) = Cardinality(NoErrors(q, n)) + 1
      /\ \A J \in SUBSET NoErrors(q, n) : Cardinality(J) <= Cardinality(NoErrors(q, n))
  BY <1>1, PartOfInterval
<1> QED
  BY <1>2, <1>3, <1>4, <1>5

\* What a frame of call c on the wire adds to what is there.
LEMMA WireGrows ==
  ASSUME Inv, NEW c \in Calls, NEW k \in {"request", "data", "close"},
         wire' = Append(wire, [sid |-> SidOf[c], kind |-> k])
  PROVE  /\ \A d \in Calls : \A j : d # c \/ j # k => OnWire(d, j)' = OnWire(d, j)
         /\ OnWire(c, k)' = OnWire(c, k) \cup {Len(wire) + 1}
         /\ Cardinality(OnWire(c, k))' = Cardinality(OnWire(c, k)) + 1
<1> PICK m : m = [sid |-> SidOf[c], kind |-> k]
  OBVIOUS
<1>1. m \in CD!Messages
  BY InvTypes DEF CD!Messages, CD!WireKinds
<1>2. /\ DOMAIN wire' = (1 .. Len(wire)) \cup {Len(wire) + 1} /\ wire'[Len(wire) + 1] = m
      /\ \A i \in 1 .. Len(wire) : wire'[i] = wire[i]
      /\ DOMAIN wire = 1 .. Len(wire) /\ Len(wire) \in Nat
  BY <1>1, InvTypes
<1>3. \A d \in Calls : \A j : m = [sid |-> SidOf[d], kind |-> j] <=> d = c /\ j = k
  BY SidOfAssumption
<1>4. OnWire(c, k)' = OnWire(c, k) \cup {Len(wire) + 1}
  BY <1>2, <1>3 DEF OnWire
<1>5. \A d \in Calls : \A j : d # c \/ j # k => OnWire(d, j)' = OnWire(d, j)
  BY <1>2, <1>3 DEF OnWire
<1>6. OnWire(c, k) \in SUBSET (1 .. Len(wire))
  BY <1>2 DEF OnWire
<1> QED
  BY <1>2, <1>4, <1>5, <1>6, PartOfInterval

\* What a frame to the client adds to the answers of the calls.
LEMMA AnswersGrow ==
  ASSUME Inv, NEW c \in Calls, NEW m \in SD!Responses, m.sid = SidOf[c],
         outbox' = Append(outbox, m)
  PROVE  /\ \A d \in Calls : d # c => Answers(d)' = Answers(d) /\ (Answered(d)' <=> Answered(d))
         /\ m.kind = "status" =>
              Answers(c)' = Answers(c) /\ (Answered(c)' <=> Answered(c))
         /\ m.kind # "status" =>
              /\ Cardinality(Answers(c))' = Cardinality(Answers(c)) + 1
              /\ Answered(c)' <=> Answered(c) \/ m.kind \in S!Terminal
         /\ Cardinality(Answers(c)) \in Nat
<1>1. /\ DOMAIN outbox' = (1 .. Len(outbox)) \cup {Len(outbox) + 1}
      /\ outbox'[Len(outbox) + 1] = m
      /\ \A i \in 1 .. Len(outbox) : outbox'[i] = outbox[i]
      /\ DOMAIN outbox = 1 .. Len(outbox) /\ Len(outbox) \in Nat
  BY InvTypes
<1>2. \A d \in Calls : d # c => m.sid # SidOf[d]
  BY SidOfAssumption
<1>3. \A d \in Calls : d # c => Answers(d)' = Answers(d)
  BY <1>1, <1>2 DEF Answers
<1>4. /\ m.kind = "status" => Answers(c)' = Answers(c)
      /\ m.kind # "status" => Answers(c)' = Answers(c) \cup {Len(outbox) + 1}
  BY <1>1 DEF Answers
<1>5. \A d \in Calls : \A i \in Answers(d) : outbox'[i] = outbox[i]
  BY <1>1 DEF Answers
<1>6. \A d \in Calls : Answers(d) \in SUBSET (1 .. Len(outbox))
  BY <1>1 DEF Answers
<1>7. /\ Cardinality(Answers(c)) \in Nat
      /\ Cardinality(Answers(c) \cup {Len(outbox) + 1}) = Cardinality(Answers(c)) + 1
  BY <1>1, <1>6, PartOfInterval
<1>8. \A d \in Calls : d # c => (Answered(d)' <=> Answered(d))
  BY <1>3, <1>5 DEF Answered, S!Terminal
<1>9. m.kind = "status" => (Answered(c)' <=> Answered(c))
  BY <1>4, <1>5 DEF Answered, S!Terminal
<1>10. m.kind # "status" => (Answered(c)' <=> Answered(c) \/ m.kind \in S!Terminal)
  BY <1>1, <1>4, <1>5 DEF Answered, S!Terminal
<1>11. m.kind # "status" => Cardinality(Answers(c))' = Cardinality(Answers(c)) + 1
  BY <1>4, <1>7
<1> QED
  BY <1>3, <1>4, <1>7, <1>8, <1>9, <1>10, <1>11
-----------------------------------------------------------------------------
(* What a step of one call leaves alone.                                   *)

StepOf(c) == ClientWrites(c) \/ CallBegins(c) \/ CallStep(c) \/ AppStep(c)

\* What the calls see of a client.
CallsUnchanged ==
  UNCHANGED <<nextStreamID, pc, sid, ret, got, localClosed, remoteClosed, wire>>

\* The call is as it was, what it wrote left aside.
SameCall(c) ==
  /\ pc'[c] = pc[c] /\ sid'[c] = sid[c] /\ ret'[c] = ret[c] /\ got'[c] = got[c]
  /\ localClosed'[c] = localClosed[c] /\ remoteClosed'[c] = remoteClosed[c]

LEMMA StepOfCall ==
  ASSUME Inv, NEW c \in Calls, StepOf(c)
  PROVE  \A d \in Calls : d # c => SameCall(d)
<1> USE InvTypes
<1>1. CASE C!AcquireSendLock(c) \/ C!RegisterStream(c) \/ C!SendRequest(c)
  BY <1>1 DEF C!AcquireSendLock, C!RegisterStream, C!SendRequest, C!RequestWritten,
     C!RequestFailed, SameCall
<1>2. CASE C!UnaryReceive(c) \/ C!UnaryFail(c) \/ C!UnaryReturn(c)
  BY <1>2 DEF C!UnaryReceive, C!UnaryFail, C!UnaryReturn, SameCall
<1>3. CASE C!RecvMsgBegin(c) \/ C!RecvMsgFail(c) \/ C!RecvMsgTake(c)
  BY <1>3 DEF C!RecvMsgBegin, C!RecvMsgFail, C!RecvMsgTake, SameCall
<1>4. CASE C!SendMsg(c) \/ C!CloseSend(c)
  BY <1>4 DEF C!SendMsg, C!CloseSend, C!appVars, SameCall
<1> QED
  BY <1>1, <1>2, <1>3, <1>4
  DEF StepOf, ClientWrites, CallBegins, CallStep, AppStep, C!CallStep

LEMMA StepOfNoCall ==
  ASSUME [Next]_vars, \A c \in Calls : ~StepOf(c)
  PROVE  CallsUnchanged
<1>1. CASE ClientLoop
  BY <1>1 DEF ClientLoop, C!LoopStep, C!LoopTop, C!ReceiveFrame, C!ReceiveError, C!ReceiveCheck,
     C!Deliver, C!Drop, C!WaitForRoom, C!ReceiveTimeout, C!RunClose, C!CancelCtx,
     C!CleanupStreams, C!CallbackReturns, C!loopUnchanged, C!registryVars, C!appVars,
     CallsUnchanged
<1>2. CASE ClientCloses
  BY <1>2 DEF ClientCloses, C!CloseConn, C!registryVars, C!appVars, CallsUnchanged
<1>3. CASE Main
  BY <1>3 DEF Main, CarriedToClient, clientVars, clientOwn, CallsUnchanged
<1>4. CASE UNCHANGED clientVars
  BY <1>4 DEF clientVars, clientOwn, CallsUnchanged
<1> QED
  BY <1>1, <1>2, <1>3, <1>4
  DEF Next, Receiver, HandlerStep, HandlerReturns, HandlerActs, StepOf, vars

LEMMA IdsNext ==
  ASSUME Inv, [Next]_vars
  PROVE  Ids'
<1> USE InvTypes
<1>1. ASSUME NEW c \in Calls, C!AcquireSendLock(c), nextStreamID = SidOf[c]
      PROVE  Ids'
  BY <1>1 DEF C!AcquireSendLock, Inv, JointInv, Ids
<1>2. ASSUME NEW c \in Calls, C!RegisterStream(c)
      PROVE  Ids'
  <2>1. CASE C!CreateRefused
    BY <1>2, <2>1 DEF C!RegisterStream, Inv, JointInv, Ids
  <2>2. CASE ~C!CreateRefused
    <3>1. nextStreamID = SidOf[c] /\ pc[c] = "locked"
      BY <1>2 DEF C!RegisterStream, Inv, JointInv, Ids
    <3>2. \A d \in Calls : d # c => pc[d] # "locked"
      BY <3>1, SameSets DEF Inv, ClientInv, CD!IdInv
    <3>3. (nextStreamID + 2) % SidLimit = nextStreamID + 2
      BY IdsRemain, ClientAssumptions, CD!NextIdNoWrap
      DEF Inv, ClientInv, CD!TypeOK, CD!RegistryTypeOK, CD!IdsLeft
    <3>4. nextStreamID' = SidOf[c] + 2
      BY <1>2, <2>2, <3>1, <3>3 DEF C!RegisterStream
    <3>5. /\ sid' = [sid EXCEPT ![c] = SidOf[c]]
          /\ pc' = [pc EXCEPT ![c] = "registered"]
      BY <1>2, <2>2, <3>1 DEF C!RegisterStream
    <3> QED
      BY <3>2, <3>4, <3>5 DEF Inv, JointInv, Ids
  <2> QED
    BY <2>1, <2>2
<1>3. ASSUME UNCHANGED <<nextStreamID, sid>>,
             \A c \in Calls : pc'[c] = "locked" => pc[c] = "locked"
      PROVE  Ids'
  BY <1>3 DEF Inv, JointInv, Ids
<1>4. ASSUME NEW c \in Calls, C!SendRequest(c) \/ C!SendMsg(c) \/ C!CloseSend(c)
      PROVE  Ids'
  BY <1>3, <1>4 DEF C!SendRequest, C!RequestWritten, C!RequestFailed, C!SendMsg, C!CloseSend,
     C!registryVars, C!appVars
<1>5. ASSUME NEW c \in Calls, C!UnaryReceive(c) \/ C!UnaryFail(c) \/ C!UnaryReturn(c)
      PROVE  Ids'
  BY <1>3, <1>5 DEF C!UnaryReceive, C!UnaryFail, C!UnaryReturn, C!registryVars
<1>6. ASSUME NEW c \in Calls, C!RecvMsgBegin(c) \/ C!RecvMsgFail(c) \/ C!RecvMsgTake(c)
      PROVE  Ids'
  BY <1>3, <1>6 DEF C!RecvMsgBegin, C!RecvMsgFail, C!RecvMsgTake, C!registryVars
<1>7. ASSUME CallsUnchanged
      PROVE  Ids'
  BY <1>3, <1>7 DEF CallsUnchanged
<1>8. ASSUME NEW c \in Calls, StepOf(c)
      PROVE  Ids'
  BY <1>1, <1>2, <1>4, <1>5, <1>6, <1>8
  DEF StepOf, ClientWrites, CallBegins, CallStep, AppStep, C!CallStep
<1> QED
  BY <1>7, <1>8, StepOfNoCall
-----------------------------------------------------------------------------
(* What the server's end has of a call.                                    *)

LEMMA UpTypes ==
  ASSUME Inv, NEW c \in Calls
  PROVE  /\ FromClient(c) \in Seq(SD!Frames) /\ Len(FromClient(c)) \in Nat
         /\ DOMAIN FromClient(c) = 1 .. Len(FromClient(c))
         /\ DataSent(c) \in Nat /\ DOMAIN sentIn = SD!Sids
<1>1. FromClient(c) \in Seq(SD!Frames) /\ DOMAIN sentIn = SD!Sids
  BY InvTypes DEF Inv, ServerInv, SD!TypeOK, SD!NetTypeOK, FromClient
<1>2. OnWire(c, "data") \in SUBSET (1 .. Len(wire)) /\ Len(wire) \in Nat
  BY InvTypes DEF OnWire
<1>3. DataSent(c) \in Nat
  BY <1>2, PartOfInterval DEF DataSent
<1>4. Len(FromClient(c)) \in Nat /\ DOMAIN FromClient(c) = 1 .. Len(FromClient(c))
  BY <1>1
<1> QED
  BY <1>1, <1>3, <1>4

LEMMA UpKept ==
  ASSUME NEW c \in Calls, UpOf(c), \A k : OnWire(c, k)' = OnWire(c, k),
         sentIn'[SidOf[c]] = sentIn[SidOf[c]], localClosed'[c] = localClosed[c],
         ServerGone => ServerGone'
  PROVE  UpOf(c)'
<1>1. FromClient(c)' = FromClient(c)
  BY DEF FromClient
<1>2. DataSent(c)' = DataSent(c) /\ (Asked(c)' <=> Asked(c))
  BY DEF DataSent, Asked
<1> QED
  BY <1>1, <1>2 DEF UpOf

\* What the server's end gets of a frame the client writes.
LEMMA CarriedOne ==
  ASSUME Inv, NEW c \in Calls, NEW k \in {"request", "data", "close"}, CarriedToServer,
         wire' # wire, Last(wire') = [sid |-> SidOf[c], kind |-> k]
  PROVE  /\ ServerGone' <=> ServerGone
         /\ \A d \in Calls : d # c => sentIn'[SidOf[d]] = sentIn[SidOf[d]]
         /\ \/ ServerGone /\ FromClient(c)' = FromClient(c)
            \/ /\ ~ServerGone /\ Len(FromClient(c)') = Len(FromClient(c)) + 1
               /\ FromClient(c)'[Len(FromClient(c)) + 1].kind = k
               /\ \A n \in DOMAIN FromClient(c) : FromClient(c)'[n] = FromClient(c)[n]
               /\ FromClient(c)' # <<>>
               /\ DOMAIN FromClient(c)' = 1 .. Len(FromClient(c)) + 1
<1>1. CASE ServerGone /\ UNCHANGED serverVars
  BY <1>1 DEF serverVars, serverOwn, ServerGone, FromClient
<1>2. CASE /\ ~ServerGone /\ S!FrameArrives(Last(wire').sid, Last(wire').kind)
           /\ UNCHANGED <<serverOwn, sPeer>>
  <2> DEFINE f == [sid |-> SidOf[c], kind |-> k, n |-> Len(sentIn[SidOf[c]]) + 1]
  <2>1. sentIn' = [sentIn EXCEPT ![SidOf[c]] = Append(@, f)]
    BY <1>2 DEF S!FrameArrives
  <2>2. f \in SD!Frames /\ f.kind = k
    BY UpTypes, InvTypes DEF SD!Frames, SD!Kinds, FromClient
  <2> HIDE DEF f
  <2>3. FromClient(c)' = Append(FromClient(c), f)
    BY <2>1, InvTypes, UpTypes DEF FromClient
  <2>4. \A d \in Calls : d # c => sentIn'[SidOf[d]] = sentIn[SidOf[d]]
    BY <2>1, SidOfAssumption, InvTypes, UpTypes
  <2>5. ServerGone' <=> ServerGone
    BY <1>2 DEF ServerGone, serverOwn
  <2>6. /\ Len(FromClient(c)') = Len(FromClient(c)) + 1
        /\ FromClient(c)'[Len(FromClient(c)) + 1] = f
        /\ \A n \in DOMAIN FromClient(c) : FromClient(c)'[n] = FromClient(c)[n]
        /\ DOMAIN FromClient(c)' = 1 .. Len(FromClient(c)) + 1
    BY <2>2, <2>3, UpTypes
  <2>7. FromClient(c)' # <<>>
    BY <2>6, UpTypes
  <2> QED
    BY <1>2, <2>2, <2>4, <2>5, <2>6, <2>7
<1> QED
  BY <1>1, <1>2 DEF CarriedToServer

LEMMA UpRequest ==
  ASSUME Inv, NEW c \in Calls, CD!RequestWritten(c), CD!SendRequest(c), CarriedToServer
  PROVE  \A d \in Calls : UpOf(d)'
<1>1. /\ sid[c] = SidOf[c] /\ wire' # wire
      /\ wire' = Append(wire, [sid |-> SidOf[c], kind |-> "request"])
      /\ Last(wire') = [sid |-> SidOf[c], kind |-> "request"]
  <2>1. sid[c] = SidOf[c]
    BY SameSets DEF CD!SendRequest, Inv, ClientInv, JointInv, CD!IdInv, Ids
  <2>2. wire' = Append(wire, [sid |-> SidOf[c], kind |-> "request"])
    BY <2>1 DEF CD!RequestWritten
  <2> PICK m : m = [sid |-> SidOf[c], kind |-> "request"]
    OBVIOUS
  <2>3. wire' = Append(wire, m) /\ m \in CD!Messages
    BY <2>2, InvTypes DEF CD!Messages, CD!WireKinds
  <2>4. Last(wire') = m /\ Len(wire') = Len(wire) + 1
    BY <2>3, LastAppended, InvTypes
  <2>5. wire' # wire
    BY <2>4, InvTypes
  <2> QED
    BY <2>1, <2>2, <2>4, <2>5
<1>2. \A k : OnWire(c, k) = {}
  BY <1>1, SameSets DEF CD!SendRequest, Inv, ClientInv, CD!WireInv, OnWire
<1>3. FromClient(c) = <<>>
  BY <1>2 DEF Inv, JointInv, UpOf, Asked
<1>4. DataSent(c)' = 0 /\ Asked(c)'
  <2>1. /\ OnWire(c, "request")' = OnWire(c, "request") \cup {Len(wire) + 1}
        /\ OnWire(c, "data")' = OnWire(c, "data")
    <3> PICK k \in {"request", "data", "close"} : k = "request"
      OBVIOUS
    <3>1. wire' = Append(wire, [sid |-> SidOf[c], kind |-> k])
      BY <1>1
    <3> QED
      BY <3>1, WireGrows
  <2> QED
    BY <1>2, <2>1, FS_EmptySet DEF DataSent, Asked
<1>5. localClosed' = localClosed
  BY DEF CD!SendRequest
<1>6. ASSUME NEW d \in Calls, d # c PROVE UpOf(d)'
  <2>1. \A j : OnWire(d, j)' = OnWire(d, j)
    <3> PICK k \in {"request", "data", "close"} : k = "request"
      OBVIOUS
    <3>1. wire' = Append(wire, [sid |-> SidOf[c], kind |-> k])
      BY <1>1
    <3>2. \A e \in Calls : \A j : e # c \/ j # k => OnWire(e, j)' = OnWire(e, j)
      BY <3>1, WireGrows, Zenon
    <3> QED
      BY <1>6, <3>2
  <2> QED
    BY <1>1, <1>5, <1>6, <2>1, CarriedOne, UpKept DEF Inv, JointInv
<1>7. UpOf(c)'
  <2>1. CASE ServerGone /\ FromClient(c)' = FromClient(c)
    <3>1. ServerGone' /\ FromClient(c)' = <<>>
      BY <1>1, <1>3, <2>1, CarriedOne
    <3> QED
      BY <1>4, <3>1 DEF UpOf
  <2>2. CASE ~ServerGone
    <3> PICK q : q = FromClient(c)
      OBVIOUS
    <3>3. /\ Len(FromClient(c)') = Len(q) + 1 /\ FromClient(c)'[Len(q) + 1].kind = "request"
          /\ DOMAIN FromClient(c)' = 1 .. Len(q) + 1
      BY <1>1, <2>2, CarriedOne
    <3>4. Len(q) + 1 = 1
      BY <1>3
    <3>1. /\ Len(FromClient(c)') = 1 /\ FromClient(c)'[1].kind = "request"
          /\ DOMAIN FromClient(c)' = 1 .. 1
      BY <3>3, <3>4
    <3>2. \A n \in DOMAIN FromClient(c)' : n = 1
      BY <3>1
    <3> QED
      BY <1>4, <3>1, <3>2 DEF UpOf
  <2> QED
    BY <1>1, <2>1, <2>2, CarriedOne
<1> QED
  BY <1>6, <1>7

\* A message of an application follows the request of its stream.
LEMMA SendsMessage ==
  ASSUME Inv, NEW c \in Calls, NEW k \in {"data", "close"}, CD!Send(c, k)
  PROVE  /\ sid[c] = SidOf[c] /\ wire' # wire /\ Asked(c) /\ ~localClosed[c] /\ c \in Streams
         /\ wire' = Append(wire, [sid |-> SidOf[c], kind |-> k])
         /\ Last(wire') = [sid |-> SidOf[c], kind |-> k]
<1>1. sid[c] = SidOf[c]
  BY DEF CD!Send, CD!StreamOpened, Inv, JointInv, Ids
<1>2. Asked(c)
  <2>1. PICK j \in DOMAIN wire : wire[j] = [sid |-> sid[c], kind |-> "request"]
    BY SameSets DEF CD!Send, Inv, ClientInv, CD!WireInv, CD!Written, CD!Request
  <2> QED
    BY <1>1, <2>1 DEF Asked, OnWire
<1> PICK m : m = [sid |-> SidOf[c], kind |-> k]
  OBVIOUS
<1>3. wire' = Append(wire, m) /\ m \in CD!Messages
  BY <1>1, InvTypes DEF CD!Send, CD!Messages, CD!WireKinds
<1>4. Last(wire') = m /\ Len(wire') = Len(wire) + 1
  BY <1>3, LastAppended, InvTypes
<1>5. wire' # wire
  BY <1>4, InvTypes
<1> QED
  BY <1>1, <1>2, <1>3, <1>4, <1>5 DEF CD!Send, CD!MaySend, CD!StreamOpened

LEMMA UpSend ==
  ASSUME Inv, NEW c \in Calls, NEW k \in {"data", "close"}, CD!Send(c, k), CarriedToServer,
         localClosed' = IF k = "close" THEN [localClosed EXCEPT ![c] = TRUE] ELSE localClosed
  PROVE  \A d \in Calls : UpOf(d)'
<1>1. /\ wire' # wire /\ Asked(c) /\ ~localClosed[c]
      /\ wire' = Append(wire, [sid |-> SidOf[c], kind |-> k])
      /\ Last(wire') = [sid |-> SidOf[c], kind |-> k]
  BY SendsMessage
<1>2. /\ \A d \in Calls : \A j : d # c \/ j # k => OnWire(d, j)' = OnWire(d, j)
      /\ Cardinality(OnWire(c, k))' = Cardinality(OnWire(c, k)) + 1
  <2>1. k \in {"request", "data", "close"}
    OBVIOUS
  <2>2. \A d \in Calls : \A j : d # c \/ j # k => OnWire(d, j)' = OnWire(d, j)
    BY <1>1, <2>1, WireGrows, Zenon
  <2>3. Cardinality(OnWire(c, k))' = Cardinality(OnWire(c, k)) + 1
    BY <1>1, <2>1, WireGrows, Zenon
  <2> QED
    BY <2>2, <2>3
<1>3. /\ ServerGone' <=> ServerGone
      /\ \A d \in Calls : d # c => sentIn'[SidOf[d]] = sentIn[SidOf[d]]
  BY <1>1, CarriedOne
<1>4. ASSUME NEW d \in Calls, d # c PROVE UpOf(d)'
  <2>1. \A j : OnWire(d, j)' = OnWire(d, j)
    BY <1>2, <1>4
  <2>2. localClosed'[d] = localClosed[d]
    BY <1>4, InvTypes
  <2> QED
    BY <1>3, <1>4, <2>1, <2>2, UpKept DEF Inv, JointInv
<1>5. Asked(c)'
  BY <1>1, <1>2 DEF Asked
<1>6. /\ k = "data" => DataSent(c)' = DataSent(c) + 1 /\ ~localClosed'[c]
      /\ k = "close" => DataSent(c)' = DataSent(c) /\ localClosed'[c]
  BY <1>1, <1>2, InvTypes DEF DataSent
<1>7. /\ \A n \in DOMAIN FromClient(c) : FromClient(c)[n].kind # "close" /\ n <= DataSent(c) + 1
      /\ ~ServerGone => Len(FromClient(c)) = DataSent(c) + 1
  BY <1>1 DEF Inv, JointInv, UpOf
<1>8. \A n \in DOMAIN FromClient(c) :
        FromClient(c)[n].kind \in (IF n = 1 THEN {"request"} ELSE {"data", "close"})
  BY DEF Inv, JointInv, UpOf
<1>9. UpOf(c)'
  <2> PICK q : q = FromClient(c)
    OBVIOUS
  <2> PICK D \in Nat : D = DataSent(c)
    BY UpTypes
  <2>1. CASE ServerGone /\ FromClient(c)' = FromClient(c)
    <3>1. ServerGone' /\ FromClient(c)' = q
      BY <1>3, <2>1
    <3>2. \A n \in DOMAIN q : n <= DataSent(c)' + 1 /\ q[n].kind # "close"
      <4>1. D <= DataSent(c)' /\ DataSent(c)' \in Nat
        BY <1>6
      <4> QED
        BY <1>7, <4>1, UpTypes
    <3> QED
      BY <1>5, <1>8, <3>1, <3>2 DEF UpOf
  <2>2. CASE ~ServerGone
    <3>1. /\ Len(FromClient(c)') = D + 2 /\ FromClient(c)'[D + 2].kind = k
          /\ \A n \in DOMAIN q : FromClient(c)'[n] = q[n]
          /\ FromClient(c)' # <<>> /\ DOMAIN FromClient(c)' = 1 .. D + 2
          /\ DOMAIN q = 1 .. D + 1
      <4>1. Len(q) = D + 1 /\ DOMAIN q = 1 .. D + 1
        BY <1>7, <2>2, UpTypes
      <4>2. /\ Len(FromClient(c)') = Len(q) + 1 /\ FromClient(c)'[Len(q) + 1].kind = k
            /\ \A n \in DOMAIN q : FromClient(c)'[n] = q[n]
            /\ FromClient(c)' # <<>> /\ DOMAIN FromClient(c)' = 1 .. Len(q) + 1
        BY <1>1, <2>2, CarriedOne
      <4>3. D + 1 + 1 = D + 2
        OBVIOUS
      <4> QED
        BY <4>1, <4>2, <4>3
    <3>2. \A n \in 1 .. D + 2 : n = D + 2 \/ n \in 1 .. D + 1
      OBVIOUS
    <3>3. D + 2 # 1 /\ \A n \in 1 .. D + 1 : n <= D + 1 /\ n <= D + 2
      OBVIOUS
    <3>4. CASE k = "data"
      <4>1. DataSent(c)' + 1 = D + 2 /\ ~localClosed'[c]
        BY <1>6, <3>4
      <4> QED
        BY <1>5, <1>7, <1>8, <3>1, <3>2, <3>3, <3>4, <4>1 DEF UpOf
    <3>5. CASE k = "close"
      <4>1. DataSent(c)' + 2 = D + 2 /\ localClosed'[c] /\ DataSent(c)' + 1 = D + 1
        BY <1>6, <3>5
      <4> QED
        BY <1>5, <1>7, <1>8, <3>1, <3>2, <3>3, <3>5, <4>1 DEF UpOf
    <3> QED
      BY <3>4, <3>5
  <2> QED
    BY <1>1, <2>1, <2>2, CarriedOne
<1> QED
  BY <1>4, <1>9

\* The server's end only goes, and gets frames only from the client.
LEMMA ServerStays ==
  ASSUME [Next]_vars, UNCHANGED <<wire, localClosed>>, Inv
  PROVE  UNCHANGED sentIn /\ (ServerGone => ServerGone')
<1>1. CASE UNCHANGED serverVars
  BY <1>1 DEF serverVars, serverOwn, ServerGone
<1>2. ASSUME NEW c \in Calls, ClientWrites(c) PROVE UNCHANGED serverVars
  BY <1>2 DEF ClientWrites, CarriedToServer
<1>3. CASE ClientCloses
  BY <1>3 DEF ClientCloses, serverOwn, ServerGone
<1>4. CASE Receiver
  BY <1>4 DEF Receiver, S!Receiver, S!ReceiverTop, S!ReceiveMalformed, S!ReceiveData, S!TakeFrame,
     S!ReceiveRequest, S!ReceiveOther, S!DataAccepted, S!DataAborted, S!DataWaits, S!DataFull,
     S!StoreStream, S!CountStream, S!StatusAborted, S!ReceiveFails, S!receiverOnly, S!netVars,
     ServerGone
<1>5. CASE Main
  BY <1>5 DEF Main, S!Main, S!MainTop, S!TakeStatus, S!TakeResponse, S!WriteResponse,
     S!FinishStream, S!TakeRecvErr, S!MainShutdown, S!Return, S!mainOnly, S!netVars, ServerGone
<1>6. ASSUME NEW c \in Calls, HandlerStep(c) \/ HandlerReturns(c) \/ HandlerActs(c)
      PROVE  UNCHANGED sentIn /\ (ServerGone => ServerGone')
  BY <1>6 DEF HandlerStep, HandlerReturns, HandlerActs, S!HandlerStep, S!RecvMsgTakes,
     S!RecvMsgEOF, S!RecvMsgCancelled, S!RespondAborted, S!HandlerReturns, S!RecvMsg, S!SendMsg,
     S!Respond, S!handlerOnly, S!netVars, ServerGone
<1> QED
  BY <1>1, <1>2, <1>3, <1>4, <1>5, <1>6 DEF Next, CallBegins, CallStep, AppStep, ClientLoop, vars

LEMMA UpNext ==
  ASSUME Inv, [Next]_vars
  PROVE  \A c \in Calls : UpOf(c)'
<1>1. CASE UNCHANGED <<wire, localClosed>>
  BY <1>1, ServerStays, UpKept DEF Inv, JointInv, OnWire
<1>2. ASSUME NEW c \in Calls, ClientWrites(c)
      PROVE  UNCHANGED <<wire, localClosed>> \/ \A d \in Calls : UpOf(d)'
  <2>1. CASE C!SendRequest(c)
    BY <1>2, <2>1, UpRequest, SameCreate
    DEF ClientWrites, CD!SendRequest, CD!RequestFailed
  <2>2. CASE C!SendMsg(c)
    BY <1>2, <2>2, UpSend, SameSend DEF ClientWrites, CD!SendMsg, CD!appVars
  <2>3. CASE C!CloseSend(c)
    BY <1>2, <2>3, UpSend, SameSend DEF ClientWrites, CD!CloseSend
  <2> QED
    BY <1>2, <2>1, <2>2, <2>3 DEF ClientWrites
<1>3. ASSUME NEW c \in Calls, CallBegins(c) \/ CallStep(c) \/ AppStep(c)
      PROVE  UNCHANGED <<wire, localClosed>>
  BY <1>3 DEF CallBegins, CallStep, AppStep, C!AcquireSendLock, C!CallStep, C!RegisterStream,
     C!UnaryReceive, C!UnaryFail, C!UnaryReturn, C!RecvMsgFail, C!RecvMsgTake, C!RecvMsgBegin
<1>4. CASE CallsUnchanged
  BY <1>1, <1>4 DEF CallsUnchanged
<1> QED
  BY <1>1, <1>2, <1>3, <1>4, StepOfNoCall DEF StepOf
-----------------------------------------------------------------------------
(* What the client's end has of a call.                                    *)

LEMMA AnsweredIsEnded ==
  \A c \in Calls : Answered(c) <=> SD!Ended(SidOf[c])
  BY DEF Answered, Answers, S!Terminal, SD!Ended, SD!Finals

LEMMA DownTypes ==
  ASSUME Inv, NEW c \in Calls
  PROVE  /\ FromServer(c) \in Seq(CD!Frames) /\ Len(FromServer(c)) \in Nat
         /\ DOMAIN FromServer(c) = 1 .. Len(FromServer(c))
         /\ Cardinality(Answers(c)) \in Nat /\ DOMAIN sent = CD!Sids
<1>1. FromServer(c) \in Seq(CD!Frames) /\ DOMAIN sent = CD!Sids
  BY InvTypes DEF Inv, ClientInv, CD!TypeOK, CD!NetTypeOK, FromServer
<1>2. Answers(c) \in SUBSET (1 .. Len(outbox)) /\ Len(outbox) \in Nat
  BY InvTypes DEF Answers
<1>3. Cardinality(Answers(c)) \in Nat
  BY <1>2, PartOfInterval
<1>4. Len(FromServer(c)) \in Nat /\ DOMAIN FromServer(c) = 1 .. Len(FromServer(c))
  BY <1>1
<1> QED
  BY <1>1, <1>3, <1>4

LEMMA DownKept ==
  ASSUME NEW c \in Calls, DownOf(c), sent'[SidOf[c]] = sent[SidOf[c]],
         Answers(c)' = Answers(c), Answered(c)' <=> Answered(c), ClientGone => ClientGone'
  PROVE  DownOf(c)'
<1>1. FromServer(c)' = FromServer(c)
  BY DEF FromServer
<1> QED
  BY <1>1 DEF DownOf, NoErrors

\* What the client's end gets of a frame run writes.
LEMMA CarriedBack ==
  ASSUME Inv, SD!Main, CarriedToClient, outbox' # outbox, NEW c \in Calls, mresp.sid = SidOf[c]
  PROVE  /\ ClientGone => ClientGone'
         /\ \A d \in Calls : d # c => sent'[SidOf[d]] = sent[SidOf[d]]
         /\ \/ ClientGone /\ FromServer(c)' = FromServer(c)
            \/ /\ ~ClientGone /\ Len(FromServer(c)') = Len(FromServer(c)) + 1
               /\ FromServer(c)'[Len(FromServer(c)) + 1].kind \in SeenAs(mresp.kind)
               /\ \A n \in 1 .. Len(FromServer(c)) : FromServer(c)'[n] = FromServer(c)[n]
               /\ DOMAIN FromServer(c)' = 1 .. Len(FromServer(c)) + 1
<1>1. CASE ClientGone /\ UNCHANGED clientVars
  BY <1>1 DEF clientVars, clientOwn, ClientGone, FromServer
<1>2. CASE /\ ~ClientGone /\ UNCHANGED <<clientOwn, peer>>
           /\ \E k \in SeenAs(Last(outbox').kind) : C!FrameArrives(Last(outbox').sid, k)
  <2>1. mresp \in SD!Responses /\ Last(outbox') = mresp
    BY RunWrites
  <2>2. PICK k \in SeenAs(mresp.kind) : C!FrameArrives(SidOf[c], k)
    BY <1>2, <2>1
  <2> DEFINE f == [sid |-> SidOf[c], kind |-> k, n |-> Len(sent[SidOf[c]]) + 1]
  <2>3. sent' = [sent EXCEPT ![SidOf[c]] = Append(@, f)]
    BY <2>2 DEF C!FrameArrives
  <2>4. k \in CD!Kinds
    BY <2>1, <2>2 DEF SeenAs, SD!Responses, SD!Terminal, CD!Kinds
  <2>5. f \in CD!Frames /\ f.kind = k
    BY <2>4, DownTypes, InvTypes DEF CD!Frames, FromServer
  <2> HIDE DEF f
  <2>6. FromServer(c)' = Append(FromServer(c), f)
    BY <2>3, InvTypes, DownTypes DEF FromServer
  <2>7. \A d \in Calls : d # c => sent'[SidOf[d]] = sent[SidOf[d]]
    BY <2>3, SidOfAssumption, InvTypes, DownTypes
  <2>8. ClientGone' <=> ClientGone
    BY <1>2 DEF ClientGone, clientOwn
  <2>9. /\ Len(FromServer(c)') = Len(FromServer(c)) + 1
        /\ FromServer(c)'[Len(FromServer(c)) + 1] = f
        /\ \A n \in 1 .. Len(FromServer(c)) : FromServer(c)'[n] = FromServer(c)[n]
        /\ DOMAIN FromServer(c)' = 1 .. Len(FromServer(c)) + 1
    BY <2>5, <2>6, DownTypes
  <2> QED
    BY <1>2, <2>2, <2>5, <2>7, <2>8, <2>9
<1> QED
  BY <1>1, <1>2, RunWrites DEF CarriedToClient

\* The main loop never writes for a call that was answered.
LEMMA NoSecondAnswer ==
  ASSUME Inv, SD!WriteResponse, NEW c \in Calls, mresp.sid = SidOf[c], mresp.kind # "status"
  PROVE  ~Answered(c)
  BY AnsweredIsEnded, InvTypes
  DEF SD!WriteResponse, Inv, ServerInv, SD!AnswerInv, SD!AnswerOK, SD!Writing

LEMMA DownWrites ==
  ASSUME Inv, SD!Main, CarriedToClient, outbox' # outbox
  PROVE  \A c \in Calls : DownOf(c)'
<1>1. /\ mresp \in SD!Responses /\ SD!WriteResponse /\ outbox' = Append(outbox, mresp)
      /\ \E c \in Calls : mresp.sid = SidOf[c]
  BY RunWrites
<1>2. PICK c \in Calls : mresp.sid = SidOf[c]
  BY <1>1
<1>3. /\ \A d \in Calls : d # c => Answers(d)' = Answers(d) /\ (Answered(d)' <=> Answered(d))
      /\ mresp.kind = "status" => Answers(c)' = Answers(c) /\ (Answered(c)' <=> Answered(c))
      /\ mresp.kind # "status" =>
           /\ Cardinality(Answers(c))' = Cardinality(Answers(c)) + 1
           /\ Answered(c)' <=> Answered(c) \/ mresp.kind \in S!Terminal
      /\ Cardinality(Answers(c)) \in Nat
  BY <1>1, <1>2, AnswersGrow
<1>4. ASSUME NEW d \in Calls, d # c PROVE DownOf(d)'
  BY <1>2, <1>3, <1>4, CarriedBack, DownKept DEF Inv, JointInv
<1>5. DownOf(c)
  BY DEF Inv, JointInv
<1> PICK q : q = FromServer(c)
  OBVIOUS
<1> PICK A \in Nat : A = Cardinality(Answers(c))
  BY <1>3
<1>6. Len(q) \in Nat /\ DOMAIN q = 1 .. Len(q)
  BY DownTypes
<1> PICK l \in Nat : l = Len(q)
  BY <1>6
<1>7. ASSUME ClientGone, FromServer(c)' = FromServer(c) PROVE DownOf(c)'
  <2>1. CASE mresp.kind = "status"
    <3>1. sent'[SidOf[c]] = sent[SidOf[c]] /\ ClientGone'
      BY <1>2, <1>7, CarriedBack DEF FromServer
    <3> QED
      BY <1>3, <1>5, <2>1, <3>1, DownKept
  <2>2. CASE mresp.kind # "status"
    <3>1. \A n \in DOMAIN q : q[n].kind \notin {"ok", "dataClose", "close"}
      BY <1>1, <1>2, <1>5, <2>2, NoSecondAnswer DEF DownOf
    <3>2. Cardinality(NoErrors(q, Len(q))) <= A /\ Cardinality(NoErrors(q, Len(q))) \in Nat
      BY <1>5, <1>6, NoErrorsCount DEF DownOf
    <3>3. Cardinality(Answers(c))' = A + 1 /\ ClientGone'
      BY <1>2, <1>3, <1>7, <2>2, CarriedBack
    <3>4. Cardinality(NoErrors(q, Len(q))) <= A + 1
      BY <3>2
    <3> QED
      BY <1>7, <3>1, <3>3, <3>4 DEF DownOf, NoErrors
  <2> QED
    BY <2>1, <2>2
<1>8. ASSUME ~ClientGone PROVE DownOf(c)'
  <2> PICK r : r = FromServer(c)'
    OBVIOUS
  <2>1. /\ Len(r) = l + 1 /\ r[l + 1].kind \in SeenAs(mresp.kind)
        /\ \A n \in 1 .. l : r[n] = q[n]
        /\ DOMAIN r = 1 .. l + 1
    BY <1>2, <1>8, CarriedBack
  <2>3. \A n \in 0 .. l : NoErrors(r, n) = NoErrors(q, n)
    BY <2>1 DEF NoErrors
  <2>2. /\ Cardinality(NoErrors(r, l + 1)) =
             Cardinality(NoErrors(q, l)) + (IF r[l + 1].kind # "err" THEN 1 ELSE 0)
        /\ Cardinality(NoErrors(q, l)) \in Nat
    <3>1. NoErrors(r, l) = NoErrors(q, l)
      BY <2>3
    <3> QED
      BY <3>1, NoErrorsCount
  <2>4. CASE mresp.kind = "status"
    <3>1. r[l + 1].kind = "err"
      BY <2>1, <2>4 DEF SeenAs
    <3>2. Cardinality(NoErrors(r, l + 1)) = Cardinality(NoErrors(q, l))
      BY <2>2, <3>1
    <3>3. \A n \in 1 .. l + 1 : r[n].kind # "err" => n \in DOMAIN q /\ n \in 1 .. l
      BY <1>6, <3>1
    <3>4. Answers(c)' = Answers(c) /\ (Answered(c)' <=> Answered(c))
      BY <1>3, <2>4
    <3>5. \A n \in DOMAIN r : r[n].kind \in {"ok", "dataClose", "close"} =>
            Answered(c) /\ Cardinality(NoErrors(r, n)) = A
      BY <1>5, <2>1, <2>3, <3>3 DEF DownOf
    <3>6. DownOf(c)' <=>
            /\ Cardinality(NoErrors(r, Len(r))) <= Cardinality(Answers(c)')
            /\ ~ClientGone' /\ ~Answered(c)' =>
                 Cardinality(NoErrors(r, Len(r))) = Cardinality(Answers(c)')
            /\ \A n \in DOMAIN r : r[n].kind \in {"ok", "dataClose", "close"} =>
                 Answered(c)' /\ Cardinality(NoErrors(r, n)) = Cardinality(Answers(c)')
      BY DEF DownOf, NoErrors
    <3> QED
      BY <1>5, <1>8, <2>1, <3>2, <3>4, <3>5, <3>6 DEF DownOf
  <2>5. CASE mresp.kind # "status"
    <3>1. ~Answered(c)
      BY <1>1, <1>2, <2>5, NoSecondAnswer
    <3>2. \A n \in 1 .. l : q[n].kind \notin {"ok", "dataClose", "close"}
      BY <1>5, <1>6, <3>1 DEF DownOf
    <3>3. Cardinality(NoErrors(q, l)) = A
      BY <1>5, <1>8, <3>1 DEF DownOf
    <3>4. /\ Cardinality(Answers(c))' = A + 1
          /\ Answered(c)' <=> mresp.kind \in S!Terminal
      BY <1>3, <2>5, <3>1
    <3>5. /\ mresp.kind \in S!Terminal \/ mresp.kind = "data"
          /\ r[l + 1].kind \in {"ok", "err", "data", "dataClose", "close"}
          /\ mresp.kind = "data" => r[l + 1].kind = "data"
          /\ mresp.kind \in S!Terminal => r[l + 1].kind # "data"
      BY <1>1, <2>1, <2>5 DEF SeenAs, SD!Responses, SD!Terminal, S!Terminal
    <3>6. Cardinality(NoErrors(r, l + 1)) <= A + 1
      BY <2>2, <3>3
    <3>7. r[l + 1].kind # "err" => Cardinality(NoErrors(r, l + 1)) = A + 1
      BY <2>2, <3>3
    <3>8. \A n \in DOMAIN r : r[n].kind \in {"ok", "dataClose", "close"} =>
            n = l + 1 /\ Answered(c)' /\ Cardinality(NoErrors(r, n)) = A + 1
      <4>1. \A n \in 1 .. l + 1 : n \in 1 .. l \/ n = l + 1
        OBVIOUS
      <4>2. r[l + 1].kind \in {"ok", "dataClose", "close"} => Answered(c)'
        BY <3>4, <3>5
      <4> QED
        BY <2>1, <3>2, <3>7, <4>1, <4>2
    <3>9. ~Answered(c)' => Cardinality(NoErrors(r, l + 1)) = A + 1
      BY <3>4, <3>5, <3>7
    <3> QED
      BY <2>1, <3>4, <3>6, <3>8, <3>9 DEF DownOf, NoErrors
  <2> QED
    BY <2>4, <2>5
<1>9. DownOf(c)'
  BY <1>2, <1>7, <1>8, CarriedBack
<1> QED
  BY <1>4, <1>9

\* Only what run writes reaches the client, which never comes back.
LEMMA ClientStays ==
  ASSUME [Next]_vars, outbox' = outbox
  PROVE  UNCHANGED sent /\ (ClientGone => ClientGone')
<1>1. CASE UNCHANGED clientVars
  BY <1>1 DEF clientVars, clientOwn, ClientGone
<1>2. ASSUME NEW c \in Calls, StepOf(c) PROVE UNCHANGED <<sent, connClosed, peer>>
  BY <1>2 DEF StepOf, ClientWrites, CallBegins, CallStep, AppStep, C!CallStep,
     C!AcquireSendLock, C!RegisterStream, C!SendRequest, C!UnaryReceive, C!UnaryFail,
     C!UnaryReturn, C!RecvMsgFail, C!RecvMsgTake, C!RecvMsgBegin, C!SendMsg, C!CloseSend,
     C!netVars, C!closeVars
<1>3. CASE ClientLoop
  BY <1>3 DEF ClientLoop, C!LoopStep, C!LoopTop, C!ReceiveFrame, C!ReceiveError, C!ReceiveCheck,
     C!Deliver, C!Drop, C!WaitForRoom, C!ReceiveTimeout, C!RunClose, C!CancelCtx,
     C!CleanupStreams, C!CallbackReturns, C!loopUnchanged, C!closeVars, C!netVars, ClientGone
<1>4. CASE ClientCloses
  BY <1>4 DEF ClientCloses, C!CloseConn, C!netVars, ClientGone
<1>5. CASE Main
  BY <1>5 DEF Main, CarriedToClient, clientVars, clientOwn, ClientGone
<1> QED
  BY <1>1, <1>2, <1>3, <1>4, <1>5
  DEF Next, Receiver, HandlerStep, HandlerReturns, HandlerActs, StepOf, vars, ClientGone

\* Only run writes to the client.
LEMMA OthersWriteNothing ==
  ASSUME [Next]_vars, ~Main
  PROVE  outbox' = outbox
<1>1. CASE Receiver
  BY <1>1 DEF Receiver, S!Receiver, S!ReceiverTop, S!ReceiveMalformed, S!ReceiveData, S!TakeFrame,
     S!ReceiveRequest, S!ReceiveOther, S!DataAccepted, S!DataAborted, S!DataWaits, S!DataFull,
     S!StoreStream, S!CountStream, S!StatusAborted, S!ReceiveFails, S!receiverOnly
<1>2. ASSUME NEW c \in Calls, HandlerStep(c) \/ HandlerReturns(c) \/ HandlerActs(c)
      PROVE  outbox' = outbox
  BY <1>2 DEF HandlerStep, HandlerReturns, HandlerActs, S!HandlerStep, S!RecvMsgTakes,
     S!RecvMsgEOF, S!RecvMsgCancelled, S!RespondAborted, S!HandlerReturns, S!RecvMsg, S!SendMsg,
     S!Respond, S!handlerOnly
<1>3. ASSUME NEW c \in Calls, StepOf(c)
      PROVE  outbox' = outbox
  BY <1>3 DEF StepOf, ClientWrites, CallBegins, CallStep, AppStep, CarriedToServer, serverVars,
     serverOwn
<1> QED
  BY <1>1, <1>2, <1>3
  DEF Next, ClientLoop, ClientCloses, StepOf, vars, serverVars, serverOwn

LEMMA DownNext ==
  ASSUME Inv, [Next]_vars
  PROVE  \A c \in Calls : DownOf(c)'
<1>1. CASE outbox' = outbox
  <2>1. \A c \in Calls : Answers(c)' = Answers(c) /\ (Answered(c)' <=> Answered(c))
    BY <1>1 DEF Answers, Answered, S!Terminal
  <2> QED
    BY <1>1, <2>1, ClientStays, DownKept DEF Inv, JointInv
<1>2. CASE outbox' # outbox
  BY <1>2, OthersWriteNothing, DownWrites, SameSteps DEF Main
<1> QED
  BY <1>1, <1>2
-----------------------------------------------------------------------------
(* What the callers were told.                                             *)

LEMMA ToldStep ==
  ASSUME Inv, NEW c \in Calls, StepOf(c)
  PROVE  ToldOf(c)'
<1> USE InvTypes
<1>1. ToldOf(c)
  BY DEF Inv, JointInv
<1>2. CASE C!AcquireSendLock(c) \/ C!RegisterStream(c)
  BY <1>1, <1>2 DEF C!AcquireSendLock, C!RegisterStream, ToldOf
<1>3. CASE C!SendRequest(c)
  BY <1>1, <1>3 DEF C!SendRequest, C!RequestWritten, C!RequestFailed, ToldOf
<1>4. CASE C!UnaryReceive(c) \/ C!UnaryFail(c) \/ C!UnaryReturn(c)
  BY <1>1, <1>4 DEF C!UnaryReceive, C!UnaryFail, C!UnaryReturn, ToldOf
<1>5. CASE C!RecvMsgBegin(c) \/ C!RecvMsgFail(c)
  BY <1>1, <1>5 DEF C!RecvMsgBegin, C!RecvMsgFail, ToldOf
<1>6. CASE C!RecvMsgTake(c)
  BY <1>1, <1>6 DEF C!RecvMsgTake, ToldOf
<1>7. CASE C!SendMsg(c) \/ C!CloseSend(c)
  BY <1>1, <1>7 DEF C!SendMsg, C!CloseSend, C!appVars, ToldOf
<1> QED
  BY <1>2, <1>3, <1>4, <1>5, <1>6, <1>7
  DEF StepOf, ClientWrites, CallBegins, CallStep, AppStep, C!CallStep

LEMMA ToldNext ==
  ASSUME Inv, [Next]_vars
  PROVE  \A c \in Calls : ToldOf(c)'
<1>1. ASSUME NEW c \in Calls, SameCall(c) PROVE ToldOf(c)'
  BY <1>1 DEF Inv, JointInv, SameCall, ToldOf
<1>2. ASSUME NEW c \in Calls, StepOf(c) PROVE \A d \in Calls : ToldOf(d)'
  BY <1>1, <1>2, StepOfCall, ToldStep
<1>3. CASE CallsUnchanged
  BY <1>1, <1>3 DEF CallsUnchanged, SameCall
<1> QED
  BY <1>2, <1>3, StepOfNoCall

-----------------------------------------------------------------------------
(* The invariant of the whole.                                             *)

LEMMA InvNext == Inv /\ [Next]_vars => Inv'
  BY ClientInvNext, ServerInvNext, IdsNext, UpNext, DownNext, ToldNext DEF Inv, JointInv

LEMMA JointInit == Init => JointInv
<1> SUFFICES ASSUME Init PROVE JointInv
  OBVIOUS
<1>1. SidOf \in [Calls -> Nat] /\ \A c \in Calls : SidOf[c] \in C!Sids /\ SidOf[c] \in S!Sids
  BY SidIsSid, SidOfAssumption DEF C!Sids, CD!Sids, S!Sids, SidsOf, Calls
<1>2. Ids
  BY DEF Init, C!Init, C!Calls, Calls, Ids
<1>3. ASSUME NEW c \in Calls
      PROVE  FromClient(c) = <<>> /\ FromServer(c) = <<>> /\ ~localClosed[c]
  BY <1>1 DEF Init, C!Init, S!Init, FromClient, FromServer, C!Calls, Calls
<1>4. ASSUME NEW c \in Calls PROVE ~Asked(c) /\ Answers(c) = {}
  BY DEF Init, C!Init, S!Init, Asked, OnWire, Answers
<1>5. ASSUME NEW c \in Calls PROVE UpOf(c)
  BY <1>3, <1>4 DEF UpOf
<1>6. ASSUME NEW c \in Calls PROVE DownOf(c)
  <2>1. NoErrors(<<>>, Len(<<>>)) = {}
    BY DEF NoErrors
  <2>2. Cardinality(Answers(c)) = 0 /\ Cardinality(NoErrors(<<>>, Len(<<>>))) = 0
    BY <1>4, <2>1, FS_EmptySet
  <2> QED
    BY <1>3, <2>2 DEF DownOf
<1>7. ASSUME NEW c \in Calls PROVE ToldOf(c)
  BY DEF Init, C!Init, C!Calls, Calls, ToldOf
<1> QED
  BY <1>2, <1>5, <1>6, <1>7 DEF JointInv

LEMMA InitInv == Init => Inv
<1> SUFFICES ASSUME Init PROVE Inv
  OBVIOUS
<1> USE ClientAssumptions, ServerAssumptions
<1>1. CD!Init /\ SD!Init
  BY SameInit
<1>2. CD!TypeOK /\ CD!IdInv
  BY <1>1, CD!InitType, CD!IdInvInit
<1>3. CD!WakeInv /\ CD!RegisteredInv
  BY <1>1, CD!WakeInvInit, CD!RegisteredInit
<1>4. CD!WireInv /\ CD!DeliveryInv
  BY <1>1, CD!WireInit, CD!DeliveryInit
<1>5. SD!TypeOK /\ SD!StreamsInv
  BY <1>1, SD!InitType, SD!InitStreams
<1>6. SD!OrderInv
  BY <1>1 DEF SD!Init, SD!OrderInv, SD!HandlersStartInIdOrder
<1>7. SD!RiseInv /\ SD!AnswerInv /\ SD!SourceInv
  BY <1>1, SD!RiseInit, SD!AnswerInit, SD!SourceInit
<1> QED
  BY <1>2, <1>3, <1>4, <1>5, <1>6, <1>7, JointInit DEF Inv, ClientInv, ServerInv

LEMMA InvHolds == Spec => []Inv
<1>1. Init => Inv
  BY InitInv
<1>2. Inv /\ [Next]_vars => Inv'
  BY InvNext
<1> QED
  BY <1>1, <1>2, PTL DEF Spec
-----------------------------------------------------------------------------
\* What is proved of each end by itself, whatever its peer does, holds of the two
\* of them joined, where the one is all that the other meets: the client registers
\* every call that waits, writes its requests with increasing ids and each stream
\* as request, data, close (client.go, stream.go); the server starts handlers in
\* the order of the ids, and a handler that was told of no refused message gets
\* all of its stream in order (server.go).  The ids of the client are not used up
\* here: what the client's theorems assume is proved.
THEOREM EndsKeepTheirPromises ==
  Spec => [](/\ CD!NoCallForgotten /\ CD!WireIdsIncrease /\ CD!WireWellFormed
             /\ SD!HandlersStartInIdOrder /\ SD!HandlerReadsInOrder)
<1>1. ASSUME Inv
      PROVE  CD!NoCallForgotten /\ CD!WireIdsIncrease /\ CD!WireWellFormed
  BY <1>1 DEF Inv, ClientInv, CD!WakeInv, CD!IdInv, CD!WireInv
<1>2. ASSUME Inv PROVE SD!HandlersStartInIdOrder
  BY <1>2 DEF Inv, ServerInv, SD!OrderInv
<1>3. ASSUME Inv PROVE SD!HandlerReadsInOrder
  <2>1. SD!ReadInv
    BY <1>3 DEF Inv, ServerInv, SD!StreamsInv
  <2>2. ASSUME NEW s \in SidsOf(Streams) \ refused PROVE SD!ReadOK(s)
    BY <2>1, <2>2 DEF SD!ReadInv
  <2> QED
    BY <2>2 DEF SD!HandlerReadsInOrder, SD!ReadOK, SD!GotUpTo, SD!InOrder
<1> QED
  BY <1>1, <1>2, <1>3, InvHolds, PTL
=============================================================================
