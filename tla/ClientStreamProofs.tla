------------------------- MODULE ClientStreamProofs -------------------------
(***************************************************************************)
(* Theorems about the streams of a Client: what stays registered, which    *)
(* error a call ends with, what the client writes, and that what a call    *)
(* receives is a prefix of what the server sent on its stream.             *)
(***************************************************************************)
EXTENDS ClientProofs

-----------------------------------------------------------------------------
(* Registered streams.                                                     *)

\* A stream is registered under its own id only, by a call that has got past
\* createStream's critical section.
RegisteredInv ==
  \A i \in Sids : streams[i] # NoCall =>
    /\ sid[streams[i]] = i
    /\ pc[streams[i]] \notin {"start", "locked"}
    /\ streams[i] \in Unary /\ pc[streams[i]] = "done" => ret[streams[i]] = "sendFailed"

LEMMA RegisteredInit == Init => RegisteredInv
  BY DEF Init, RegisteredInv

\* Steps that register nothing and end no unary call.
LEMMA RegisteredFrame ==
  ASSUME TypeOK, RegisteredInv, UNCHANGED sid,
         \A i \in Sids : streams'[i] \in {streams[i], NoCall},
         \A c \in Calls : /\ pc'[c] \in {"start", "locked"} => pc[c] \in {"start", "locked"}
                          /\ c \in Unary /\ pc'[c] = "done" =>
                               \/ pc[c] \in {"start", "locked"} \/ ret'[c] = "sendFailed"
                               \/ pc[c] = "done" /\ ret'[c] = ret[c]
  PROVE  RegisteredInv'
  BY CallsAssumption DEF RegisteredInv, TypeOK, RegistryTypeOK, CallTypeOK

LEMMA RegisterStreamRegistered ==
  ASSUME TypeOK, RegisteredInv, NEW c \in Calls, RegisterStream(c)
  PROVE  RegisteredInv'
<1> USE DEF TypeOK, CallTypeOK, RegistryTypeOK
<1>1. CASE CreateRefused
  BY <1>1, RegisteredFrame DEF RegisterStream
<1>2. CASE ~CreateRefused
  <2>1. /\ \A d \in Calls : sid'[d] = IF d = c THEN nextStreamID ELSE sid[d]
        /\ \A d \in Calls : pc'[d] = IF d = c THEN "registered" ELSE pc[d]
        /\ \A i \in Sids : streams'[i] = IF i = nextStreamID THEN c ELSE streams[i]
        /\ UNCHANGED ret /\ pc[c] = "locked"
    BY <1>2 DEF RegisterStream
  <2>2. \A i \in Sids : streams[i] # c
    BY <2>1, CallsAssumption DEF RegisteredInv
  <2>3. ASSUME NEW i \in Sids, streams'[i] # NoCall
        PROVE  /\ sid'[streams'[i]] = i /\ pc'[streams'[i]] \notin {"start", "locked"}
               /\ streams'[i] \in Unary /\ pc'[streams'[i]] = "done" =>
                    ret'[streams'[i]] = "sendFailed"
    <3>1. CASE i = nextStreamID
      BY <2>1, <3>1
    <3>2. CASE i # nextStreamID
      <4>1. streams'[i] = streams[i] /\ streams[i] \in Calls /\ streams[i] # c
        BY <2>1, <2>2, <2>3, <3>2
      <4> QED
        BY <2>1, <2>3, <4>1 DEF RegisteredInv
    <3> QED
      BY <3>1, <3>2
  <2> QED
    BY <2>3 DEF RegisteredInv
<1> QED
  BY <1>1, <1>2

LEMMA DeleteStreamRegistered ==
  ASSUME TypeOK, RegisteredInv, NEW c \in Calls, UNCHANGED <<sid, ret>>,
         UnaryReturn(c)
  PROVE  RegisteredInv'
<1> USE DEF TypeOK, CallTypeOK, RegistryTypeOK
<1>1. /\ \A i \in Sids : streams'[i] = IF i = sid[c] THEN NoCall ELSE streams[i]
      /\ \A d \in Calls : d # c => pc'[d] = pc[d]
  BY DEF UnaryReturn, DeferredDelete, DeleteStream
<1>2. \A i \in Sids : streams'[i] # c
  BY <1>1, CallsAssumption DEF RegisteredInv
<1> QED
  BY <1>1, <1>2, CallsAssumption DEF RegisteredInv

LEMMA RegisteredNext == TypeOK /\ RegisteredInv /\ [Moves]_vars => RegisteredInv'
<1> SUFFICES ASSUME TypeOK, RegisteredInv, [Moves]_vars PROVE RegisteredInv'
  OBVIOUS
<1> USE DEF TypeOK, CallTypeOK, RegistryTypeOK, registryVars, appVars
<1>1. ASSUME NEW c \in Calls, AcquireSendLock(c) PROVE RegisteredInv'
  BY <1>1, RegisteredFrame DEF AcquireSendLock
<1>2. ASSUME NEW c \in Calls, RegisterStream(c) PROVE RegisteredInv'
  BY <1>2, RegisterStreamRegistered
<1>3. ASSUME NEW c \in Calls, SendRequest(c) PROVE RegisteredInv'
  BY <1>3, RegisteredFrame DEF SendRequest, RequestWritten, RequestFailed
<1>4. ASSUME NEW c \in Calls, UnaryReceive(c) \/ UnaryFail(c) PROVE RegisteredInv'
  BY <1>4, RegisteredFrame DEF UnaryReceive, UnaryFail
<1>5. ASSUME NEW c \in Calls, UnaryReturn(c) PROVE RegisteredInv'
  BY <1>5, DeleteStreamRegistered DEF UnaryReturn
<1>6. ASSUME NEW c \in Calls, RecvMsgBegin(c) \/ RecvMsgFail(c) PROVE RegisteredInv'
  BY <1>6, RegisteredFrame, CallsAssumption DEF RecvMsgBegin, RecvMsgFail
<1>7. ASSUME NEW c \in Calls, RecvMsgTake(c) PROVE RegisteredInv'
  BY <1>7, RegisteredFrame, CallsAssumption DEF RecvMsgTake, DeleteStream
<1>8. ASSUME NEW c \in Calls, SendMsg(c) \/ CloseSend(c) \/ CallCtxDone(c) PROVE RegisteredInv'
  BY <1>8, RegisteredFrame DEF SendMsg, CloseSend, CallCtxDone
<1>9. CASE LoopStep
  BY <1>9, RegisteredFrame
  DEF LoopStep, loopUnchanged, LoopTop, ReceiveFrame, ReceiveError, ReceiveCheck, Deliver, Drop,
      WaitForRoom, ReceiveTimeout, RunClose, CancelCtx, CleanupStreams, CloseAllStreams,
      CallbackReturns
<1>10. CASE CloseConn \/ UserClose
  BY <1>10, RegisteredFrame DEF CloseConn, UserClose, CancelCtx
<1>11. CASE ServerActs
  BY <1>11, RegisteredFrame DEF ServerActs, ServerWrites, FrameArrives, ServerHangsUp
<1>12. CASE UNCHANGED vars
  BY <1>12, RegisteredFrame DEF vars
<1> QED
  BY <1>1, <1>2, <1>3, <1>4, <1>5, <1>6, <1>7, <1>8, <1>9, <1>10, <1>11, <1>12
  DEF Moves, CallStep, AppStep

LEMMA RegisteredHolds == Spec => []RegisteredInv
  BY RegisteredInit, RegisteredNext, TypeCorrect, SpecMoves, PTL

\* A unary call that is over leaves nothing in Client.streams, unless its
\* request could not be sent.
THEOREM UnaryUnregistered == Spec => []FinishedUnaryUnregistered
<1>1. RegisteredInv => FinishedUnaryUnregistered
  BY CallsAssumption DEF RegisteredInv, FinishedUnaryUnregistered, Calls
<1> QED
  BY <1>1, RegisteredHolds, PTL

-----------------------------------------------------------------------------
(* Errors and what was buffered before them.                               *)

\* The errors that receiveLoop closes a stream with.
LoopErrors == {"full", "exhausted", "unexpectedEOF"}
Arrived(c) == Len(got[c]) + Len(recv[c])
BeforeResponse == {"start", "locked", "registered", "waiting"}
Delivering(c) == rl \in {"select", "wait"} /\ cur.call = c

\* When receiveLoop closes a stream it has nothing left to deliver to it, and
\* ErrStreamFull follows as many frames as the channel holds.
CallErrorInv(c) ==
  /\ recvErr[c] \in LoopErrors => ~Delivering(c)
  /\ recvErr[c] = "full" => Arrived(c) >= Capacity(c)
  /\ c \in Unary /\ pc[c] \in BeforeResponse => got[c] = <<>>
  /\ ret[c] \in LoopErrors => recvErr[c] = ret[c] /\ recv[c] = <<>>
  /\ ret[c] = "full" => c \in Streams /\ Len(got[c]) >= RecvBuf
LoopErrorInv ==
  /\ rlErr \in {"none", "closed", "unexpectedEOF"}
  /\ rl = "wait" => Arrived(cur.call) >= Capacity(cur.call)
ErrorInv == LoopErrorInv /\ \A c \in Calls : CallErrorInv(c)

LEMMA NatSum ==
  \A a, b \in Nat : a + b \in Nat /\ \A k \in Nat : b >= k => a + b >= k
  OBVIOUS

LEMMA ArrivedType ==
  ASSUME TypeOK, NEW c \in Calls
  PROVE  /\ Len(got[c]) \in Nat /\ Len(recv[c]) \in Nat /\ Arrived(c) \in Nat
         /\ Capacity(c) \in Nat
  BY CapacityType DEF TypeOK, CallTypeOK, StreamTypeOK, Arrived

LEMMA ErrorInit == Init => ErrorInv
  BY DEF Init, ErrorInv, LoopErrorInv, CallErrorInv, LoopErrors, Delivering

\* Steps that move no frame, close no stream and end no call with LoopErrors.
LEMMA ErrorFrame ==
  ASSUME TypeOK, ErrorInv, UNCHANGED <<got, recv, recvErr, cur>>,
         rlErr' \in {"none", "closed", "unexpectedEOF"},
         rl' \in {"select", "wait"} => rl' = rl,
         \A c \in Calls : /\ pc'[c] \in BeforeResponse => pc[c] \in BeforeResponse
                          /\ ret'[c] \in LoopErrors => ret'[c] = ret[c]
  PROVE  ErrorInv'
<1>1. LoopErrorInv'
  BY DEF ErrorInv, LoopErrorInv, Arrived, Capacity
<1>2. ASSUME NEW c \in Calls PROVE CallErrorInv(c)'
  BY <1>2 DEF ErrorInv, CallErrorInv, Arrived, Capacity, Delivering, LoopErrors
<1> QED
  BY <1>1, <1>2 DEF ErrorInv

\* A call takes a frame from its channel.
LEMMA TakeKeepsArrived ==
  ASSUME TypeOK, NEW c \in Calls, recv[c] # <<>>,
         got' = [got EXCEPT ![c] = Append(@, Head(recv[c]))],
         recv' = [recv EXCEPT ![c] = Tail(@)]
  PROVE  \A d \in Calls : /\ Arrived(d)' = Arrived(d) /\ Len(got'[d]) >= Len(got[d])
                          /\ d # c => got'[d] = got[d] /\ recv'[d] = recv[d]
<1>1. got[c] \in Seq(Frames) /\ recv[c] \in Seq(Frames) /\ DOMAIN got = Calls /\ DOMAIN recv = Calls
  BY DEF TypeOK, CallTypeOK, StreamTypeOK
<1>2. \A d \in Calls : d # c => got'[d] = got[d] /\ recv'[d] = recv[d]
  BY <1>1
<1>3. Len(got'[c]) = Len(got[c]) + 1 /\ Len(recv'[c]) = Len(recv[c]) - 1
  BY <1>1
<1>4. \A d \in Calls : Len(got[d]) \in Nat /\ Len(recv[d]) \in Nat
  BY ArrivedType
<1>5. \A d \in Calls : Len(got'[d]) >= Len(got[d])
  BY <1>2, <1>3, <1>4
<1>6. \A d \in Calls : Len(got'[d]) + Len(recv'[d]) = Len(got[d]) + Len(recv[d])
  <2>1. \A a, b \in Nat : (a + 1) + (b - 1) = a + b
    OBVIOUS
  <2>2. Len(got'[c]) + Len(recv'[c]) = Len(got[c]) + Len(recv[c])
    BY <1>3, <1>4, <2>1
  <2> QED
    BY <1>2, <2>2
<1> QED
  BY <1>2, <1>5, <1>6 DEF Arrived

LEMMA TakeErrors ==
  ASSUME TypeOK, ErrorInv, NEW c \in Calls, UnaryReceive(c) \/ RecvMsgTake(c)
  PROVE  ErrorInv'
<1>1. /\ recv[c] # <<>> /\ UNCHANGED <<rl, cur, rlErr>>
      /\ got' = [got EXCEPT ![c] = Append(@, Head(recv[c]))] /\ recv' = [recv EXCEPT ![c] = Tail(@)]
  BY DEF UnaryReceive, RecvMsgTake, loopVars
<1>2. /\ \A d \in Calls : d # c => pc'[d] = pc[d] /\ ret'[d] = ret[d]
      /\ ret'[c] \notin LoopErrors /\ (c \in Unary => pc'[c] \notin BeforeResponse)
  BY CallsAssumption DEF UnaryReceive, RecvMsgTake, RecvMsgError, TypeOK, CallTypeOK, LoopErrors,
       BeforeResponse
<1>3. \A d \in Calls : recvErr'[d] \in LoopErrors => recvErr'[d] = recvErr[d]
  BY DEF UnaryReceive, RecvMsgTake, DeleteStream, CloseWithError, TypeOK, StreamTypeOK, LoopErrors
<1>4. \A d \in Calls : d # c => recvErr'[d] = recvErr[d]
  BY DEF UnaryReceive, RecvMsgTake, DeleteStream, CloseWithError, TypeOK, StreamTypeOK
<1>5. \A d \in Calls : /\ Arrived(d)' = Arrived(d) /\ Len(got'[d]) >= Len(got[d])
                       /\ d # c => got'[d] = got[d] /\ recv'[d] = recv[d]
  BY <1>1, TakeKeepsArrived
<1>6. LoopErrorInv'
  BY <1>1, <1>5 DEF ErrorInv, LoopErrorInv, TypeOK, LoopTypeOK, Capacity
<1>7. ASSUME NEW d \in Calls PROVE CallErrorInv(d)'
  <2>1. CASE d = c
    BY <1>1, <1>2, <1>3, <1>5, <2>1
    DEF ErrorInv, CallErrorInv, Delivering, Capacity, LoopErrors
  <2>2. CASE d # c
    BY <1>1, <1>2, <1>4, <1>5, <2>2
    DEF ErrorInv, CallErrorInv, Delivering, Capacity
  <2> QED
    BY <2>1, <2>2
<1> QED
  BY <1>6, <1>7 DEF ErrorInv

\* A call ends because it gives up, possibly with the error of its stream.
LEMMA FailErrors ==
  ASSUME TypeOK, ErrorInv, NEW c \in Calls, UnaryFail(c) \/ RecvMsgFail(c)
  PROVE  ErrorInv'
<1>1. /\ UNCHANGED <<rl, cur, rlErr, got, recv, recvErr>>
      /\ \A d \in Calls : d # c => pc'[d] = pc[d] /\ ret'[d] = ret[d]
      /\ pc'[c] \notin BeforeResponse
  BY DEF UnaryFail, RecvMsgFail, loopVars, TypeOK, CallTypeOK, BeforeResponse
<1>2. ret'[c] \in LoopErrors => ret'[c] = recvErr[c] /\ recv[c] = <<>>
  BY DEF UnaryFail, UnaryGivesUp, RecvMsgFail, RecvErrReady, TypeOK, CallTypeOK, LoopErrors
<1>3. ret'[c] = "full" => c \in Streams /\ Len(got[c]) >= RecvBuf
  <2> SUFFICES ASSUME ret'[c] = "full" PROVE c \in Streams /\ Len(got[c]) >= RecvBuf
    OBVIOUS
  <2>1. recvErr[c] = "full" /\ recv[c] = <<>>
    BY <1>2 DEF LoopErrors
  <2>2. Len(got[c]) >= Capacity(c) /\ Len(got[c]) \in Nat
    <3>1. Arrived(c) >= Capacity(c) /\ Len(recv[c]) = 0
      BY <2>1 DEF ErrorInv, CallErrorInv
    <3> QED
      BY <3>1, ArrivedType DEF Arrived
  <2>3. c \notin Unary
    <3>1. c \in Unary => got[c] = <<>> /\ Capacity(c) = 1
      BY CallsAssumption DEF UnaryFail, RecvMsgFail, ErrorInv, CallErrorInv, BeforeResponse, Capacity
    <3> QED
      BY <2>2, <3>1
  <2> QED
    BY <2>2, <2>3 DEF Calls, Capacity
<1>4. LoopErrorInv'
  BY <1>1 DEF ErrorInv, LoopErrorInv, Arrived, Capacity
<1>5. ASSUME NEW d \in Calls PROVE CallErrorInv(d)'
  BY <1>1, <1>2, <1>3 DEF ErrorInv, CallErrorInv, Arrived, Capacity, Delivering, LoopErrors
<1> QED
  BY <1>4, <1>5 DEF ErrorInv

\* Steps that close streams, when receiveLoop is not delivering to them.
LEMMA CloseErrors ==
  ASSUME TypeOK, ErrorInv, UNCHANGED <<got, recv, ret, cur, rlErr>>,
         rl' \in {"select", "wait"} => rl' = rl,
         \A c \in Calls :
           /\ pc'[c] \in BeforeResponse => pc[c] \in BeforeResponse
           /\ recvErr'[c] # recvErr[c] =>
                /\ recvErr[c] = "none"
                /\ recvErr'[c] \in LoopErrors => ~Delivering(c)'
                /\ recvErr'[c] = "full" => Arrived(c) >= Capacity(c)
  PROVE  ErrorInv'
<1>1. LoopErrorInv'
  BY DEF ErrorInv, LoopErrorInv, Arrived, Capacity
<1>2. ASSUME NEW c \in Calls PROVE CallErrorInv(c)'
  BY <1>2 DEF ErrorInv, CallErrorInv, Arrived, Capacity, Delivering, LoopErrors
<1> QED
  BY <1>1, <1>2 DEF ErrorInv

LEMMA DeliverErrors ==
  ASSUME TypeOK, ErrorInv, Deliver
  PROVE  ErrorInv'
<1>1. /\ UNCHANGED <<got, recvErr, ret, pc, cur, rlErr>> /\ rl' = "top"
      /\ Delivering(cur.call) /\ cur.call \in Calls
      /\ \A d \in Calls : d # cur.call => recv'[d] = recv[d]
  BY DEF Deliver, loopUnchanged, appVars, Delivering, TypeOK, LoopTypeOK, StreamTypeOK
<1>2. Len(recv'[cur.call]) = Len(recv[cur.call]) + 1
  BY <1>1 DEF Deliver, TypeOK, StreamTypeOK, LoopTypeOK
<1>3. \A d \in Calls : Arrived(d)' >= Arrived(d)
  <2>1. \A d \in Calls : Len(got[d]) \in Nat /\ Len(recv[d]) \in Nat
    BY ArrivedType
  <2> QED
    BY <1>1, <1>2, <2>1 DEF Arrived
<1>4. LoopErrorInv'
  BY <1>1 DEF ErrorInv, LoopErrorInv
<1>5. ASSUME NEW d \in Calls PROVE CallErrorInv(d)'
  <2>1. Arrived(d) \in Nat /\ Arrived(d)' \in Nat /\ Capacity(d) \in Nat
    <3>1. TypeOK'
      BY NextType DEF Moves, LoopStep
    <3>2. Len(got'[d]) \in Nat /\ Len(recv'[d]) \in Nat
      BY <3>1 DEF TypeOK, CallTypeOK, StreamTypeOK
    <3>3. Arrived(d)' \in Nat
      BY <3>2, NatSum DEF Arrived
    <3> QED
      BY <3>3, ArrivedType
  <2>2. recvErr'[d] = "full" => Arrived(d)' >= Capacity(d)
    BY <1>1, <1>3, <2>1 DEF ErrorInv, CallErrorInv
  <2> QED
    BY <1>1, <2>2 DEF ErrorInv, CallErrorInv, Delivering, Capacity, LoopErrors
<1> QED
  BY <1>4, <1>5 DEF ErrorInv

LEMMA LoopErrorsKept ==
  ASSUME TypeOK, ErrorInv, LoopStep
  PROVE  ErrorInv'
<1> USE DEF loopUnchanged, appVars
<1>1. CASE LoopTop \/ ReceiveError \/ Drop \/ RunClose \/ CallbackReturns
  BY <1>1, ErrorFrame DEF LoopTop, ReceiveError, FilterCloseErr, Drop, RunClose, CancelCtx,
       CallbackReturns, loopVars, ErrorInv, LoopErrorInv
<1>2. CASE Deliver
  BY <1>2, DeliverErrors
<1>3. CASE ReceiveFrame
  <2>1. UNCHANGED <<got, recv, ret, pc, rlErr>> /\ rl' \notin {"select", "wait"}
    BY <1>3 DEF ReceiveFrame
  <2>2. CASE UNCHANGED recvErr
    <3>1. \A c \in Calls : recvErr'[c] \in LoopErrors => ~Delivering(c)'
      BY <2>1 DEF Delivering
    <3> QED
      BY <2>1, <2>2, <3>1 DEF ErrorInv, LoopErrorInv, CallErrorInv, Arrived, Capacity, LoopErrors
  <2>3. CASE UNCHANGED cur
    BY <1>3, <2>1, <2>3, CloseErrors DEF ReceiveFrame, CloseWithError, Delivering, TypeOK, StreamTypeOK
  <2> QED
    BY <1>3, <2>2, <2>3 DEF ReceiveFrame
<1>4. CASE ReceiveCheck \/ WaitForRoom
  <2>1. UNCHANGED <<got, recv, recvErr, ret, pc, rlErr, cur>>
    BY <1>4 DEF ReceiveCheck, WaitForRoom
  <2>2. cur.call \in Calls
    BY <1>4 DEF ReceiveCheck, WaitForRoom, TypeOK, LoopTypeOK
  <2>3. rl' \in {"select", "wait"} => recvErr[cur.call] = "none"
    BY <1>4 DEF ReceiveCheck, ClosedCheck, WaitForRoom
  <2>4. rl' = "wait" => Arrived(cur.call) >= Capacity(cur.call)
    <3>1. rl' = "wait" => Len(recv[cur.call]) >= Capacity(cur.call)
      BY <1>4, <2>2, ArrivedType DEF ReceiveCheck, ClosedCheck, WaitForRoom, HasRoom
    <3>2. \A c \in Calls : Len(got[c]) \in Nat /\ Len(recv[c]) \in Nat /\ Capacity(c) \in Nat
      BY ArrivedType
    <3>3. \A c \in Calls : Len(recv[c]) >= Capacity(c) => Arrived(c) >= Capacity(c)
      BY <3>2, NatSum DEF Arrived
    <3> QED
      BY <2>2, <3>1, <3>3
  <2>5. LoopErrorInv'
    BY <2>1, <2>4 DEF ErrorInv, LoopErrorInv, Arrived, Capacity
  <2>6. ASSUME NEW c \in Calls PROVE CallErrorInv(c)'
    BY <2>1, <2>3 DEF ErrorInv, CallErrorInv, Arrived, Capacity, Delivering, LoopErrors
  <2> QED
    BY <2>5, <2>6 DEF ErrorInv
<1>5. CASE ReceiveTimeout
  <2>1. Arrived(cur.call) >= Capacity(cur.call) /\ rl' = "top" /\ UNCHANGED rlErr
    BY <1>5 DEF ReceiveTimeout, TimerFires, ErrorInv, LoopErrorInv
  <2> QED
    BY <1>5, <2>1, CloseErrors
    DEF ReceiveTimeout, CloseWithError, Delivering, TypeOK, StreamTypeOK
<1>6. CASE CleanupStreams
  <2>1. \A c \in Calls : recvErr'[c] # recvErr[c] => recvErr[c] = "none" /\ recvErr'[c] = rlErr
    BY <1>6 DEF CleanupStreams, CloseAllStreams, CloseWithError, TypeOK, StreamTypeOK
  <2> QED
    BY <1>6, <2>1, CloseErrors DEF CleanupStreams, Delivering, ErrorInv, LoopErrorInv
<1> QED
  BY <1>1, <1>2, <1>3, <1>4, <1>5, <1>6 DEF LoopStep

LEMMA ErrorNext == TypeOK /\ ErrorInv /\ [Moves]_vars => ErrorInv'
<1> SUFFICES ASSUME TypeOK, ErrorInv, [Moves]_vars PROVE ErrorInv'
  OBVIOUS
<1> USE DEF TypeOK, CallTypeOK, BeforeResponse, LoopErrors
<1>1. rlErr \in {"none", "closed", "unexpectedEOF"}
  BY DEF ErrorInv, LoopErrorInv
<1>2. ASSUME NEW c \in Calls, AcquireSendLock(c) \/ RegisterStream(c) PROVE ErrorInv'
  BY <1>1, <1>2, ErrorFrame DEF AcquireSendLock, RegisterStream, loopVars
<1>3. ASSUME NEW c \in Calls, SendRequest(c) PROVE ErrorInv'
  BY <1>1, <1>3, ErrorFrame DEF SendRequest, RequestWritten, RequestFailed, loopVars
<1>4. ASSUME NEW c \in Calls, UnaryReceive(c) \/ RecvMsgTake(c) PROVE ErrorInv'
  BY <1>4, TakeErrors
<1>5. ASSUME NEW c \in Calls, UnaryFail(c) \/ RecvMsgFail(c) PROVE ErrorInv'
  BY <1>5, FailErrors
<1>6. ASSUME NEW c \in Calls, UnaryReturn(c) PROVE ErrorInv'
  BY <1>6, CloseErrors DEF UnaryReturn, DeferredDelete, DeleteStream, CloseWithError, StreamTypeOK,
       loopVars
<1>7. ASSUME NEW c \in Calls, RecvMsgBegin(c) \/ SendMsg(c) \/ CloseSend(c) \/ CallCtxDone(c)
      PROVE ErrorInv'
  BY <1>1, <1>7, ErrorFrame DEF RecvMsgBegin, SendMsg, CloseSend, CallCtxDone, appVars, loopVars
<1>8. CASE CloseConn \/ UserClose
  BY <1>1, <1>8, ErrorFrame DEF CloseConn, UserClose, CancelCtx, appVars, loopVars
<1>9. CASE ServerActs
  BY <1>1, <1>9, ErrorFrame DEF ServerActs, ServerWrites, FrameArrives, ServerHangsUp, appVars, loopVars
<1>10. CASE UNCHANGED vars
  BY <1>1, <1>10, ErrorFrame DEF vars, appVars, loopVars
<1> QED
  BY <1>2, <1>3, <1>4, <1>5, <1>6, <1>7, <1>8, <1>9, <1>10, LoopErrorsKept
  DEF Moves, CallStep, AppStep

\* Whatever closes a stream, its call reports it only after the frames that
\* were buffered before; a unary call never fails with ErrStreamFull, and a
\* stream only after a full buffer of messages.
THEOREM ErrorsComeLast == Spec => []BufferedBeforeError
<1>1. ErrorInv => BufferedBeforeError
  BY DEF ErrorInv, CallErrorInv, BufferedBeforeError, LoopErrors
<1> QED
  BY <1>1, ErrorInit, ErrorNext, TypeCorrect, SpecMoves, PTL

-----------------------------------------------------------------------------
(* What the client writes.                                                 *)

Written(m) == \E j \in DOMAIN wire : wire[j] = m
Request(c) == [sid |-> sid[c], kind |-> "request"]
Close(c) == [sid |-> sid[c], kind |-> "close"]

\* An id is not on the wire before its request, a stream that the application
\* may use has its request on the wire, and one that may send has no close.
WireInv ==
  /\ WireWellFormed
  /\ \A j \in DOMAIN wire : wire[j].sid # 0 /\ wire[j].sid < nextStreamID
  /\ \A c \in Calls :
       /\ pc[c] \in {"start", "locked"} => sid[c] = 0
       /\ ret[c] = "sendFailed" => pc[c] = "done"
       /\ pc[c] = "registered" => \A j \in DOMAIN wire : wire[j].sid # sid[c]
       /\ StreamOpened(c) => Written(Request(c))
       /\ ~localClosed[c] => ~Written(Close(c))

LEMMA WireInit == Init => WireInv
  BY DEF Init, WireInv, WireWellFormed, StreamOpened, Written

\* Steps that write nothing and give no id.
LEMMA WireFrame ==
  ASSUME TypeOK, WireInv, UNCHANGED <<wire, sid, nextStreamID, localClosed>>,
         \A c \in Calls :
           /\ pc'[c] \in {"start", "locked"} => pc[c] \in {"start", "locked"}
           /\ pc'[c] = "registered" <=> pc[c] = "registered"
           /\ pc[c] = "done" => pc'[c] = "done"
           /\ ret'[c] = "sendFailed" <=> ret[c] = "sendFailed"
  PROVE  WireInv'
  BY DEF WireInv, WireWellFormed, StreamOpened, Written, Request, Close

LEMMA RegisterStreamWire ==
  ASSUME TypeOK, IdInv, IdsLeft, WireInv, NEW c \in Calls, RegisterStream(c)
  PROVE  WireInv'
<1> USE DEF TypeOK, CallTypeOK, RegistryTypeOK
<1>1. CASE CreateRefused
  <2>1. /\ UNCHANGED <<wire, sid, nextStreamID, localClosed>>
        /\ \A d \in Calls : d # c => pc'[d] = pc[d] /\ ret'[d] = ret[d]
        /\ pc[c] = "locked" /\ pc'[c] = "done" /\ ret'[c] = "closed" /\ sid[c] = 0
    BY <1>1 DEF RegisterStream, WireInv
  <2> QED
    BY <2>1, WireFrame DEF WireInv
<1>2. CASE ~CreateRefused
  <2>1. nextStreamID' = nextStreamID + 2 /\ nextStreamID \in Nat /\ nextStreamID # 0
    BY <1>2, NextIdNoWrap, SidsNat DEF RegisterStream, IdsLeft, IdInv
  <2>2. /\ \A d \in Calls : sid'[d] = IF d = c THEN nextStreamID ELSE sid[d]
        /\ \A d \in Calls : pc'[d] = IF d = c THEN "registered" ELSE pc[d]
        /\ UNCHANGED <<wire, localClosed, ret>> /\ pc[c] = "locked"
    BY <1>2 DEF RegisterStream
  <2>3. \A j \in DOMAIN wire : wire[j].sid \in Nat /\ wire[j].sid < nextStreamID
    BY WireElements DEF WireInv
  <2>4. \A j \in DOMAIN wire : wire[j].sid < nextStreamID' /\ wire[j].sid # nextStreamID
    BY <2>1, <2>3
  <2>5. WireWellFormed'
    BY <2>2 DEF WireInv, WireWellFormed
  <2> QED
    BY <2>1, <2>2, <2>4, <2>5 DEF WireInv, StreamOpened, Written, Request, Close
<1> QED
  BY <1>1, <1>2

\* Appending a message to the wire.
LEMMA AppendWellFormed ==
  ASSUME wire \in Seq(Messages), WireWellFormed, NEW m \in Messages, wire' = Append(wire, m),
         m.kind # "request" => Written([sid |-> m.sid, kind |-> "request"]),
         \A i \in DOMAIN wire : wire[i].sid = m.sid => wire[i].kind # "close" /\ m.kind # "request"
  PROVE  WireWellFormed'
<1>1. /\ Len(wire) \in Nat /\ DOMAIN wire = 1 .. Len(wire) /\ DOMAIN wire' = 1 .. Len(wire) + 1
      /\ wire'[Len(wire) + 1] = m /\ \A j \in DOMAIN wire : wire'[j] = wire[j]
  OBVIOUS
<1>2. ASSUME NEW j \in DOMAIN wire'
      PROVE  /\ wire'[j].kind # "request" =>
                  \E i \in 1 .. j - 1 : wire'[i] = [sid |-> wire'[j].sid, kind |-> "request"]
             /\ \A i \in 1 .. j - 1 : wire'[i].sid = wire'[j].sid =>
                  wire'[i].kind # "close" /\ wire'[j].kind # "request"
  <2>1. CASE j \in DOMAIN wire
    <3>1. 1 .. j - 1 \subseteq DOMAIN wire
      BY <1>1, <2>1
    <3> QED
      BY <1>1, <2>1, <3>1 DEF WireWellFormed
  <2>2. CASE j = Len(wire) + 1
    <3>1. 1 .. j - 1 = DOMAIN wire
      BY <1>1, <2>2
    <3> QED
      BY <1>1, <2>2, <3>1 DEF Written
  <2> QED
    BY <1>1, <2>1, <2>2
<1> QED
  BY <1>2 DEF WireWellFormed

\* Writing a message of a call that has an id.
LEMMA AppendWire ==
  ASSUME TypeOK, IdInv, WireInv, NEW c \in Calls, NEW k \in WireKinds, sid[c] # 0,
         wire' = Append(wire, [sid |-> sid[c], kind |-> k]), UNCHANGED <<sid, nextStreamID>>,
         IF k = "request" THEN pc[c] = "registered"
                          ELSE StreamOpened(c) /\ ~localClosed[c],
         k = "close" => localClosed'[c],
         pc'[c] # "registered",
         pc'[c] \notin {"start", "locked"},
         ret'[c] = "sendFailed" => k # "request" /\ ret[c] = "sendFailed" /\ pc'[c] = "done",
         \A d \in Calls : d # c => pc'[d] = pc[d] /\ ret'[d] = ret[d] /\ localClosed'[d] = localClosed[d],
         localClosed[c] => localClosed'[c]
  PROVE  WireInv'
<1> DEFINE m == [sid |-> sid[c], kind |-> k]
<1>1. m \in Messages /\ wire \in Seq(Messages) /\ m.sid = sid[c] /\ m.kind = k
  BY DEF TypeOK, CallTypeOK, Messages
<1>2. wire' = Append(wire, m)
  OBVIOUS
<1> HIDE DEF m
<1>3. /\ \A j \in DOMAIN wire' : (j \in DOMAIN wire /\ wire'[j] = wire[j]) \/ wire'[j] = m
      /\ \A j \in DOMAIN wire : j \in DOMAIN wire' /\ wire'[j] = wire[j]
      /\ \E j \in DOMAIN wire' : wire'[j] = m
  BY <1>1, <1>2
<1>4. \A d \in Calls : d # c => sid[d] # sid[c]
  BY DEF IdInv
<1>5. WireWellFormed'
  <2>1. k # "request" => Written([sid |-> sid[c], kind |-> "request"])
    BY DEF WireInv, Request
  <2>2. \A i \in DOMAIN wire : wire[i].sid = sid[c] => wire[i].kind # "close" /\ k # "request"
    <3> SUFFICES ASSUME NEW i \in DOMAIN wire, wire[i].sid = sid[c]
                 PROVE  wire[i].kind # "close" /\ k # "request"
      OBVIOUS
    <3>1. k # "request"
      BY DEF WireInv
    <3>2. wire[i] \in Messages
      BY <1>1
    <3>3. wire[i].kind = "close" => wire[i] = Close(c)
      BY <3>2 DEF Close, Messages
    <3> QED
      BY <3>1, <3>3 DEF WireInv, Written
  <2> QED
    BY <1>1, <1>2, <2>1, <2>2, AppendWellFormed DEF WireInv
<1>6. \A j \in DOMAIN wire' : wire'[j].sid # 0 /\ wire'[j].sid < nextStreamID'
  BY <1>1, <1>3 DEF WireInv, IdInv
<1>7. ASSUME NEW d \in Calls
      PROVE  /\ pc'[d] \in {"start", "locked"} => sid'[d] = 0
             /\ ret'[d] = "sendFailed" => pc'[d] = "done"
             /\ pc'[d] = "registered" => \A j \in DOMAIN wire' : wire'[j].sid # sid'[d]
             /\ StreamOpened(d)' => Written(Request(d))'
             /\ ~localClosed'[d] => ~Written(Close(d))'
  <2>1. CASE d = c
    <3>1. StreamOpened(c)' => Written(Request(c))'
      <4>1. CASE k = "request"
        BY <1>3, <4>1 DEF Written, Request, m
      <4>2. CASE k # "request"
        BY <1>3, <4>2 DEF WireInv, Written, Request
      <4> QED
        BY <4>1, <4>2
    <3>2. ~localClosed'[c] => ~Written(Close(c))'
      BY <1>1, <1>3 DEF WireInv, Written, Close
    <3> QED
      BY <2>1, <3>1, <3>2
  <2>2. CASE d # c
    <3>1. StreamOpened(d)' => StreamOpened(d)
      BY <2>2 DEF StreamOpened
    <3>2. StreamOpened(d)' => Written(Request(d))'
      BY <1>3, <3>1 DEF WireInv, Written, Request
    <3>3. ~localClosed'[d] => ~Written(Close(d))'
      BY <1>1, <1>3, <1>4, <2>2 DEF WireInv, Written, Close
    <3>4. pc'[d] = "registered" => \A j \in DOMAIN wire' : wire'[j].sid # sid'[d]
      BY <1>1, <1>3, <1>4, <2>2 DEF WireInv
    <3> QED
      BY <2>2, <3>2, <3>3, <3>4 DEF WireInv
  <2> QED
    BY <2>1, <2>2
<1> QED
  BY <1>5, <1>6, <1>7 DEF WireInv

LEMMA SendRequestWire ==
  ASSUME TypeOK, IdInv, WireInv, NEW c \in Calls, SendRequest(c)
  PROVE  WireInv'
<1>1. /\ UNCHANGED <<sid, nextStreamID, localClosed>> /\ pc[c] = "registered" /\ sid[c] # 0
      /\ \A d \in Calls : d # c => pc'[d] = pc[d] /\ ret'[d] = ret[d]
      /\ ret[c] # "sendFailed"
  BY DEF SendRequest, RequestWritten, RequestFailed, IdInv, WireInv, TypeOK, CallTypeOK
<1>2. CASE RequestWritten(c)
  BY <1>1, <1>2, AppendWire DEF RequestWritten, WireKinds, TypeOK, CallTypeOK
<1>3. CASE RequestFailed(c)
  <2>1. UNCHANGED wire /\ pc'[c] = "done" /\ ret'[c] = "sendFailed"
    BY <1>3 DEF RequestFailed, TypeOK, CallTypeOK
  <2> QED
    BY <1>1, <2>1 DEF WireInv, WireWellFormed, StreamOpened, Written, Request, Close
<1> QED
  BY <1>2, <1>3 DEF SendRequest

LEMMA WireNext == TypeOK /\ IdInv /\ IdsLeft /\ WireInv /\ [Moves]_vars => WireInv'
<1> SUFFICES ASSUME TypeOK, IdInv, IdsLeft, WireInv, [Moves]_vars PROVE WireInv'
  OBVIOUS
<1> USE DEF TypeOK, CallTypeOK, registryVars, appVars
<1>1. ASSUME NEW c \in Calls, AcquireSendLock(c) PROVE WireInv'
  <2>1. ret[c] # "sendFailed"
    BY <1>1 DEF AcquireSendLock, WireInv
  <2> QED
    BY <1>1, <2>1, WireFrame DEF AcquireSendLock
<1>2. ASSUME NEW c \in Calls, RegisterStream(c) \/ SendRequest(c) PROVE WireInv'
  BY <1>2, RegisterStreamWire, SendRequestWire
<1>3. ASSUME NEW c \in Calls, UnaryReceive(c) \/ UnaryFail(c) \/ RecvMsgBegin(c) \/ RecvMsgFail(c)
      PROVE WireInv'
  <2>1. ret[c] # "sendFailed"
    BY <1>3 DEF UnaryReceive, UnaryFail, RecvMsgBegin, RecvMsgFail, WireInv
  <2> QED
    BY <1>3, <2>1, WireFrame
    DEF UnaryReceive, UnaryFail, UnaryGivesUp, RecvErrReady, RecvMsgBegin, RecvMsgFail, StreamTypeOK,
        Errors
<1>4. ASSUME NEW c \in Calls, UnaryReturn(c) PROVE WireInv'
  BY <1>4, WireFrame DEF UnaryReturn
<1>5. ASSUME NEW c \in Calls, RecvMsgTake(c) PROVE WireInv'
  <2>1. ret[c] # "sendFailed"
    BY <1>5 DEF RecvMsgTake, WireInv
  <2> QED
    BY <1>5, <2>1, WireFrame DEF RecvMsgTake, RecvMsgError
<1>6. ASSUME NEW c \in Calls, SendMsg(c) PROVE WireInv'
  <2>1. /\ StreamOpened(c) /\ ~localClosed[c] /\ UNCHANGED <<pc, sid, nextStreamID, ret, localClosed>>
        /\ wire' = Append(wire, [sid |-> sid[c], kind |-> "data"])
    BY <1>6 DEF SendMsg, Send, MaySend
  <2>2. pc[c] \notin {"registered", "start", "locked"} /\ sid[c] # 0 /\ ret[c] # "sendFailed"
    BY <2>1 DEF StreamOpened, WireInv
  <2> QED
    BY <2>1, <2>2, AppendWire DEF WireKinds
<1>7. ASSUME NEW c \in Calls, CloseSend(c) PROVE WireInv'
  <2>1. /\ StreamOpened(c) /\ ~localClosed[c] /\ UNCHANGED <<pc, sid, nextStreamID, ret>>
        /\ \A d \in Calls : localClosed'[d] = IF d = c THEN TRUE ELSE localClosed[d]
        /\ wire' = Append(wire, [sid |-> sid[c], kind |-> "close"])
    BY <1>7 DEF CloseSend, Send, MaySend
  <2>2. pc[c] \notin {"registered", "start", "locked"} /\ sid[c] # 0 /\ ret[c] # "sendFailed"
    BY <2>1 DEF StreamOpened, WireInv
  <2> QED
    BY <2>1, <2>2, AppendWire DEF WireKinds
<1>8. ASSUME NEW c \in Calls, CallCtxDone(c) PROVE WireInv'
  BY <1>8, WireFrame DEF CallCtxDone
<1>9. CASE LoopStep
  BY <1>9, WireFrame
  DEF LoopStep, loopUnchanged, LoopTop, ReceiveFrame, ReceiveError, ReceiveCheck, Deliver, Drop,
      WaitForRoom, ReceiveTimeout, RunClose, CancelCtx, CleanupStreams, CallbackReturns
<1>10. CASE CloseConn \/ UserClose \/ ServerActs \/ UNCHANGED vars
  BY <1>10, WireFrame DEF CloseConn, UserClose, CancelCtx, ServerActs, ServerWrites, FrameArrives,
      ServerHangsUp, vars
<1> QED
  BY <1>1, <1>2, <1>3, <1>4, <1>5, <1>6, <1>7, <1>8, <1>9, <1>10 DEF Moves, CallStep, AppStep

\* Until the ids are used up, what the client writes on a stream is its
\* request, then data, then at most one close, whatever its goroutines do.
THEOREM ClientWritesProtocol == Spec /\ []IdsLeft => []WireWellFormed
<1>1. WireInv => WireWellFormed
  BY DEF WireInv
<1> QED
  BY <1>1, WireInit, WireNext, IdInvHolds, TypeCorrect, SpecMoves, PTL

-----------------------------------------------------------------------------
(* Delivery, until the ids are used up.                                    *)

\* The frames in flight, the one receiveLoop holds and those a call received
\* are, in this order and without a gap, what was sent on the stream, as long
\* as the stream is open and receiveLoop reads.
InFlight ==
  /\ \A j \in DOMAIN inbox : /\ inbox[j].n <= Len(sent[inbox[j].sid])
                             /\ sent[inbox[j].sid][inbox[j].n] = inbox[j]
  /\ \A j, k \in DOMAIN inbox : j < k /\ inbox[j].sid = inbox[k].sid => inbox[j].n < inbox[k].n

\* The frames of stream i in flight are those after the m-th.
Pending(i, m) ==
  /\ m <= Len(sent[i])
  /\ \A j \in DOMAIN inbox : inbox[j].sid = i => m < inbox[j].n
  /\ \A n \in Nat : m < n /\ n <= Len(sent[i]) =>
       \E j \in DOMAIN inbox : inbox[j].sid = i /\ inbox[j].n = n

Reading == rl \in {"recv", "check", "select", "wait"} \/ (rl = "top" /\ ~ctxDone)
Held(c) == rl \in {"check", "select", "wait"} /\ cur.call = c
\* receiveLoop may still deliver the frame it holds.
Deliverable(c) == Held(c) /\ (rl # "check" \/ recvErr[c] = "none")

Prefix(c) ==
  /\ Arrived(c) <= Len(sent[sid[c]])
  /\ \A k \in 1 .. Len(got[c]) : got[c][k] = sent[sid[c]][k]
  /\ \A k \in 1 .. Len(recv[c]) : recv[c][k] = sent[sid[c]][Len(got[c]) + k]
HeldIsNext(c) ==
  Deliverable(c) => /\ Arrived(c) + 1 <= Len(sent[sid[c]])
                    /\ cur.frame = sent[sid[c]][Arrived(c) + 1]
NoneLost(c) ==
  recvErr[c] = "none" /\ Reading =>
    IF Held(c) THEN Pending(sid[c], Arrived(c) + 1) ELSE Pending(sid[c], Arrived(c))

CallDelivery(c) ==
  IF sid[c] = 0 THEN got[c] = <<>> /\ recv[c] = <<>> /\ ~Held(c)
  ELSE /\ Prefix(c) /\ HeldIsNext(c) /\ NoneLost(c)
       /\ recvErr[c] = "none" => streams[sid[c]] = c
DeliveryInv ==
  /\ InFlight
  /\ \A i \in Sids : sent[i] # <<>> => i # 0 /\ i < nextStreamID
  /\ \A c \in Calls : CallDelivery(c)

LEMMA DeliveryInit == Init => DeliveryInv
  BY DEF Init, DeliveryInv, InFlight, CallDelivery, Held

LEMMA CallIds == TypeOK => \A c \in Calls : sid[c] \in Sids
  BY DEF TypeOK, CallTypeOK

\* Steps that move no frame, except that receiveLoop may let go of the frame
\* it holds when the stream is closed or receiveLoop is about to end.
LEMMA DeliveryFrame ==
  ASSUME DeliveryInv, UNCHANGED <<sid, got, recv, inbox, sent, cur, nextStreamID>>,
         \A c \in Calls :
           /\ Held(c)' => Held(c)
           /\ Deliverable(c)' => Deliverable(c)
           /\ sid[c] # 0 /\ recvErr'[c] = "none" =>
                /\ recvErr[c] = "none" /\ streams'[sid[c]] = streams[sid[c]]
                /\ Reading' => Reading /\ (Held(c)' <=> Held(c))
  PROVE  DeliveryInv'
<1>1. InFlight'
  BY DEF DeliveryInv, InFlight
<1>2. \A i, m : Pending(i, m)' <=> Pending(i, m)
  BY DEF Pending
<1>3. \A c : Arrived(c)' = Arrived(c)
  BY DEF Arrived
<1>4. ASSUME NEW c \in Calls PROVE CallDelivery(c)'
  <2>1. CallDelivery(c)
    BY DEF DeliveryInv
  <2>2. CASE sid[c] = 0
    BY <2>1, <2>2 DEF CallDelivery
  <2>3. CASE sid[c] # 0
    <3>1. Prefix(c)'
      BY <1>3, <2>1, <2>3 DEF CallDelivery, Prefix
    <3>2. HeldIsNext(c)'
      BY <1>3, <2>1, <2>3 DEF CallDelivery, HeldIsNext
    <3>3. NoneLost(c)'
      BY <1>2, <1>3, <2>1, <2>3 DEF CallDelivery, NoneLost
    <3> QED
      BY <2>1, <2>3, <3>1, <3>2, <3>3 DEF CallDelivery
  <2> QED
    BY <2>2, <2>3
<1> QED
  BY <1>1, <1>4 DEF DeliveryInv

-----------------------------------------------------------------------------
(* A call takes a frame from its channel, and may close its stream.        *)

LEMMA TakePrefix ==
  ASSUME NEW g \in Seq(Frames), NEW r \in Seq(Frames), NEW t \in Seq(Frames), r # <<>>,
         Len(g) + Len(r) <= Len(t),
         \A k \in 1 .. Len(g) : g[k] = t[k],
         \A k \in 1 .. Len(r) : r[k] = t[Len(g) + k]
  PROVE  /\ \A k \in 1 .. Len(Append(g, Head(r))) : Append(g, Head(r))[k] = t[k]
         /\ \A k \in 1 .. Len(Tail(r)) : Tail(r)[k] = t[Len(Append(g, Head(r))) + k]
<1>1. Len(Append(g, Head(r))) = Len(g) + 1 /\ Len(g) \in Nat /\ Len(r) \in Nat
  OBVIOUS
<1>2. Head(r) = t[Len(g) + 1]
  OBVIOUS
<1>3. Len(Tail(r)) = Len(r) - 1 /\ \A k \in 1 .. Len(Tail(r)) : Tail(r)[k] = r[k + 1]
  OBVIOUS
<1>4. ASSUME NEW k \in 1 .. Len(Tail(r)) PROVE Tail(r)[k] = t[Len(g) + 1 + k]
  <2>1. k + 1 \in 1 .. Len(r) /\ Len(g) + (k + 1) = Len(g) + 1 + k
    BY <1>1, <1>3
  <2> QED
    BY <1>3, <2>1
<1>5. \A k \in 1 .. Len(g) + 1 : Append(g, Head(r))[k] = t[k]
  BY <1>1, <1>2
<1> QED
  BY <1>1, <1>4, <1>5

LEMMA TakeDelivery ==
  ASSUME TypeOK, IdInv, DeliveryInv, NEW c \in Calls, UnaryReceive(c) \/ RecvMsgTake(c),
         sid[c] # 0
  PROVE  DeliveryInv'
<1>1. /\ recv[c] # <<>> /\ UNCHANGED <<rl, cur, ctxDone, sid, inbox, sent, nextStreamID>>
      /\ got' = [got EXCEPT ![c] = Append(@, Head(recv[c]))] /\ recv' = [recv EXCEPT ![c] = Tail(@)]
  BY DEF UnaryReceive, RecvMsgTake, loopVars, closeVars, netVars, registryVars
<1>2. \A d \in Calls : /\ Arrived(d)' = Arrived(d)
                       /\ d # c => got'[d] = got[d] /\ recv'[d] = recv[d]
  BY <1>1, TakeKeepsArrived
<1>3. \A d \in Calls : recvErr'[d] = "none" => recvErr[d] = "none"
  BY DEF UnaryReceive, RecvMsgTake, DeleteStream, CloseWithError, TypeOK, StreamTypeOK
<1>4. \A d \in Calls : recvErr'[d] = "none" => streams'[sid[d]] = streams[sid[d]]
  <2>1. CASE UNCHANGED streams
    BY <2>1
  <2>2. CASE DeleteStream(c)
    <3>1. recvErr'[c] # "none"
      BY <2>2 DEF DeleteStream, CloseWithError, TypeOK, StreamTypeOK
    <3>2. \A d \in Calls : d # c => streams'[sid[d]] = streams[sid[d]]
      BY <2>2, CallIds DEF DeleteStream, IdInv, TypeOK, RegistryTypeOK
    <3> QED
      BY <3>1, <3>2
  <2> QED
    BY <2>1, <2>2 DEF UnaryReceive, RecvMsgTake, registryVars
<1>5. \A i, m : Pending(i, m)' <=> Pending(i, m)
  BY <1>1 DEF Pending
<1>6. \A d \in Calls : /\ Held(d)' <=> Held(d)
                       /\ Deliverable(d)' => Deliverable(d)
  BY <1>1, <1>3 DEF Held, Deliverable
<1>7. Reading' <=> Reading
  BY <1>1 DEF Reading
<1>8. ASSUME NEW d \in Calls, sid[d] # 0 PROVE Prefix(d)'
  <2>1. Prefix(d)
    BY <1>8 DEF DeliveryInv, CallDelivery
  <2>2. CASE d # c
    BY <1>1, <1>2, <2>1, <2>2 DEF Prefix
  <2>3. CASE d = c
    <3>1. /\ got[c] \in Seq(Frames) /\ recv[c] \in Seq(Frames) /\ sent[sid[c]] \in Seq(Frames)
          /\ got'[c] = Append(got[c], Head(recv[c])) /\ recv'[c] = Tail(recv[c])
      BY <1>1, CallIds DEF TypeOK, CallTypeOK, StreamTypeOK, NetTypeOK
    <3> DEFINE g == got[c]  r == recv[c]  t == sent[sid[c]]
    <3>2. /\ g \in Seq(Frames) /\ r \in Seq(Frames) /\ t \in Seq(Frames) /\ r # <<>>
          /\ Len(g) + Len(r) <= Len(t)
          /\ \A k \in 1 .. Len(g) : g[k] = t[k]
          /\ \A k \in 1 .. Len(r) : r[k] = t[Len(g) + k]
      BY <1>1, <2>1, <2>3, <3>1 DEF Prefix, Arrived
    <3>3. got'[c] = Append(g, Head(r)) /\ recv'[c] = Tail(r) /\ sent[sid[c]] = t
      BY <3>1
    <3> HIDE DEF g, r, t
    <3>4. /\ \A k \in 1 .. Len(got'[c]) : got'[c][k] = sent[sid[c]][k]
          /\ \A k \in 1 .. Len(recv'[c]) : recv'[c][k] = sent[sid[c]][Len(got'[c]) + k]
      BY <3>2, <3>3, TakePrefix
    <3> QED
      BY ZenonT(40), <1>1, <1>2, <2>1, <2>3, <3>4 DEF Prefix
  <2> QED
    BY <2>2, <2>3
<1>9. ASSUME NEW d \in Calls PROVE CallDelivery(d)'
  <2>1. CallDelivery(d)
    BY DEF DeliveryInv
  <2>2. CASE sid[d] = 0
    BY <1>1, <1>2, <1>6, <2>1, <2>2 DEF CallDelivery
  <2>3. CASE sid[d] # 0
    <3>1. HeldIsNext(d)'
      BY <1>1, <1>2, <1>6, <2>1, <2>3 DEF CallDelivery, HeldIsNext
    <3>2. NoneLost(d)'
      BY <1>1, <1>2, <1>3, <1>5, <1>6, <1>7, <2>1, <2>3 DEF CallDelivery, NoneLost
    <3> QED
      BY <1>1, <1>3, <1>4, <1>8, <2>1, <2>3, <3>1, <3>2 DEF CallDelivery
  <2> QED
    BY <2>2, <2>3
<1>10. InFlight'
  BY <1>1 DEF DeliveryInv, InFlight
<1> QED
  BY <1>1, <1>9, <1>10 DEF DeliveryInv

-----------------------------------------------------------------------------
(* receiveLoop takes a frame from the connection.                          *)

LEMMA FrameNumber ==
  ASSUME NetTypeOK, NEW j \in DOMAIN inbox
  PROVE  inbox[j] \in Frames /\ inbox[j].sid \in Sids /\ inbox[j].n \in Nat /\ 0 < inbox[j].n
<1>1. inbox[j] \in Frames
  BY DEF NetTypeOK
<1> QED
  BY <1>1 DEF Frames

LEMMA TailInFlight ==
  ASSUME TypeOK, InFlight, inbox # <<>>, inbox' = Tail(inbox), UNCHANGED sent
  PROVE  InFlight'
<1>1. inbox \in Seq(Frames)
  BY DEF TypeOK, NetTypeOK
<1>2. /\ Len(inbox') = Len(inbox) - 1 /\ Len(inbox) \in Nat
      /\ \A j \in DOMAIN inbox' : j + 1 \in DOMAIN inbox /\ inbox'[j] = inbox[j + 1] /\ j \in Nat
  BY <1>1
<1> QED
  BY <1>2 DEF InFlight

\* The first frame is the one its stream waits for, and leaves the others.
LEMMA HeadIsNext ==
  ASSUME TypeOK, InFlight, inbox # <<>>, inbox' = Tail(inbox), UNCHANGED sent,
         NEW i \in Sids, NEW m \in Nat, Pending(i, m)
  PROVE  /\ Head(inbox).sid # i => Pending(i, m)'
         /\ Head(inbox).sid = i =>
              m + 1 <= Len(sent[i]) /\ Head(inbox) = sent[i][m + 1] /\ Pending(i, m + 1)'
<1>1. inbox \in Seq(Frames) /\ 1 \in DOMAIN inbox /\ Head(inbox) = inbox[1]
  BY DEF TypeOK, NetTypeOK
<1>2. \A j \in DOMAIN inbox : inbox[j].n \in Nat /\ (1 < j \/ j = 1) /\ j \in Nat
  BY <1>1, FrameNumber DEF TypeOK
<1>3. /\ \A j \in DOMAIN inbox' : j + 1 \in DOMAIN inbox /\ inbox'[j] = inbox[j + 1]
      /\ \A j \in DOMAIN inbox : 1 < j => j - 1 \in DOMAIN inbox' /\ inbox'[j - 1] = inbox[j]
  BY <1>1
<1>4. Len(sent[i]) \in Nat
  BY DEF TypeOK, NetTypeOK
<1>5. CASE inbox[1].sid # i
  <2>1. \A j \in DOMAIN inbox' : inbox'[j].sid = i => m < inbox'[j].n
    BY <1>3 DEF Pending
  <2>2. \A n \in Nat : m < n /\ n <= Len(sent[i]) =>
          \E j \in DOMAIN inbox' : inbox'[j].sid = i /\ inbox'[j].n = n
    <3> SUFFICES ASSUME NEW n \in Nat, m < n, n <= Len(sent[i])
                 PROVE  \E j \in DOMAIN inbox' : inbox'[j].sid = i /\ inbox'[j].n = n
      OBVIOUS
    <3>1. PICK k \in DOMAIN inbox : inbox[k].sid = i /\ inbox[k].n = n
      BY DEF Pending
    <3>2. 1 < k
      BY <1>2, <1>5, <3>1
    <3> QED
      BY <1>3, <3>1, <3>2
  <2> QED
    BY <1>1, <1>5, <2>1, <2>2 DEF Pending
<1>6. CASE inbox[1].sid = i
  <2>1. m < inbox[1].n /\ inbox[1].n <= Len(sent[i]) /\ inbox[1].n \in Nat
    BY <1>1, <1>2, <1>6 DEF Pending, InFlight
  <2>2. m + 1 <= Len(sent[i]) /\ m + 1 \in Nat /\ m < m + 1
    BY <1>4, <2>1
  <2>3. PICK j \in DOMAIN inbox : inbox[j].sid = i /\ inbox[j].n = m + 1
    BY <2>2 DEF Pending
  <2>4. j = 1
    <3>1. 1 < j => inbox[1].n < m + 1
      BY <1>1, <1>6, <2>3 DEF InFlight
    <3> QED
      BY <1>2, <2>1, <3>1
  <2>5. inbox[1].n = m + 1 /\ inbox[1] = sent[i][m + 1]
    BY <1>1, <1>6, <2>3, <2>4 DEF InFlight
  <2>6. \A k \in DOMAIN inbox' : inbox'[k].sid = i => m + 1 < inbox'[k].n
    <3> SUFFICES ASSUME NEW k \in DOMAIN inbox', inbox'[k].sid = i PROVE m + 1 < inbox'[k].n
      OBVIOUS
    <3>1. k + 1 \in DOMAIN inbox /\ inbox'[k] = inbox[k + 1] /\ 1 < k + 1
      BY <1>1, <1>3
    <3> QED
      BY <1>1, <1>6, <2>5, <3>1 DEF InFlight
  <2>7. \A n \in Nat : m + 1 < n /\ n <= Len(sent[i]) =>
          \E k \in DOMAIN inbox' : inbox'[k].sid = i /\ inbox'[k].n = n
    <3> SUFFICES ASSUME NEW n \in Nat, m + 1 < n, n <= Len(sent[i])
                 PROVE  \E k \in DOMAIN inbox' : inbox'[k].sid = i /\ inbox'[k].n = n
      OBVIOUS
    <3>1. PICK k \in DOMAIN inbox : inbox[k].sid = i /\ inbox[k].n = n
      BY <2>2 DEF Pending
    <3>2. 1 < k
      BY <1>2, <2>5, <3>1
    <3> QED
      BY <1>3, <3>1, <3>2
  <2> QED
    BY <1>1, <1>6, <2>2, <2>5, <2>6, <2>7 DEF Pending
<1> QED
  BY <1>1, <1>5, <1>6

LEMMA ReceiveDelivery ==
  ASSUME TypeOK, RegisteredInv, DeliveryInv, ReceiveFrame
  PROVE  DeliveryInv'
<1> DEFINE f == Head(inbox)
           s == streams[f.sid]
<1>1. /\ rl = "recv" /\ inbox # <<>> /\ inbox' = Tail(inbox)
      /\ UNCHANGED <<sid, got, recv, sent, streams, nextStreamID, ctxDone>>
      /\ rl' \in {"top", "check"}
  BY DEF ReceiveFrame, loopUnchanged, closeVars, registryVars, appVars
<1>2. f \in Frames /\ f.sid \in Sids /\ s \in Calls \cup {NoCall}
  BY <1>1, InboxHead DEF TypeOK, RegistryTypeOK
<1>3. InFlight'
  BY <1>1, TailInFlight DEF DeliveryInv
<1>4. f.sid # 0
  <2>1. 1 \in DOMAIN inbox /\ f = inbox[1] /\ sent[f.sid] \in Seq(Frames)
    BY <1>1, <1>2 DEF TypeOK, NetTypeOK
  <2>2. f.n \in Nat /\ 0 < f.n /\ f.n <= Len(sent[f.sid])
    BY <2>1, FrameNumber DEF TypeOK, DeliveryInv, InFlight
  <2>3. sent[f.sid] # <<>>
    BY <2>1, <2>2
  <2> QED
    BY <1>2, <2>3 DEF DeliveryInv
<1>5. s # NoCall => sid[s] = f.sid /\ s \in Calls
  BY <1>2 DEF RegisteredInv
<1>6. /\ s = NoCall => rl' = "top" /\ recvErr' = recvErr
      /\ s # NoCall /\ rl' = "top" => recvErr'[s] # "none"
      /\ rl' = "check" => s # NoCall /\ cur' = [call |-> s, frame |-> f] /\ recvErr' = recvErr
      /\ \A c \in Calls : c # s => recvErr'[c] = recvErr[c]
      /\ \A c \in Calls : recvErr'[c] = "none" => recvErr[c] = "none"
  BY <1>2 DEF ReceiveFrame, CloseWithError, TypeOK, StreamTypeOK
<1>7. \A c \in Calls : ~Held(c) /\ (Held(c)' <=> rl' = "check" /\ c = s)
  BY <1>1, <1>6 DEF Held
<1>8. Reading
  BY <1>1 DEF Reading
<1>9. \A c \in Calls : Arrived(c)' = Arrived(c) /\ Arrived(c) \in Nat
  BY <1>1, ArrivedType DEF Arrived
<1> HIDE DEF f, s
<1>10. ASSUME NEW c \in Calls PROVE CallDelivery(c)'
  <2>1. CallDelivery(c) /\ sid'[c] = sid[c]
    BY <1>1 DEF DeliveryInv
  <2>2. CASE sid[c] = 0
    BY <1>1, <1>4, <1>5, <1>6, <1>7, <2>1, <2>2 DEF CallDelivery
  <2>3. CASE sid[c] # 0
    <3>1. Prefix(c)'
      BY <1>1, <1>9, <2>1, <2>3 DEF CallDelivery, Prefix
    <3>2. recvErr[c] = "none" => Pending(sid[c], Arrived(c)) /\ streams[sid[c]] = c
      BY <1>7, <1>8, <2>1, <2>3 DEF CallDelivery, NoneLost
    <3>3. recvErr[c] = "none" =>
            /\ f.sid # sid[c] => Pending(sid[c], Arrived(c))'
            /\ f.sid = sid[c] => /\ Arrived(c) + 1 <= Len(sent[sid[c]])
                                 /\ f = sent[sid[c]][Arrived(c) + 1]
                                 /\ Pending(sid[c], Arrived(c) + 1)'
      BY <1>1, <1>9, <3>2, HeadIsNext, CallIds DEF DeliveryInv, f
    <3>4. recvErr[c] = "none" /\ f.sid = sid[c] => s = c
      BY <3>2 DEF s
    <3>5. HeldIsNext(c)'
      BY <1>1, <1>5, <1>6, <1>7, <1>9, <3>3 DEF HeldIsNext, Deliverable
    <3>6. NoneLost(c)'
      BY <1>1, <1>2, <1>5, <1>6, <1>7, <1>9, <3>3, <3>4, CallsAssumption DEF NoneLost
    <3> QED
      BY <1>1, <1>6, <2>1, <2>3, <3>1, <3>2, <3>5, <3>6 DEF CallDelivery
  <2> QED
    BY <2>2, <2>3
<1> QED
  BY <1>1, <1>3, <1>10 DEF DeliveryInv

-----------------------------------------------------------------------------
(* receiveLoop delivers the frame it holds.                                *)

LEMMA AppendPrefix ==
  ASSUME NEW g \in Seq(Frames), NEW r \in Seq(Frames), NEW t \in Seq(Frames), NEW f \in Frames,
         Len(g) + Len(r) + 1 <= Len(t), f = t[Len(g) + Len(r) + 1],
         \A k \in 1 .. Len(r) : r[k] = t[Len(g) + k]
  PROVE  /\ Len(Append(r, f)) = Len(r) + 1
         /\ Len(g) + Len(Append(r, f)) = Len(g) + Len(r) + 1
         /\ \A k \in 1 .. Len(Append(r, f)) : Append(r, f)[k] = t[Len(g) + k]
<1>1. Len(g) \in Nat /\ Len(r) \in Nat
  OBVIOUS
<1>2. Len(g) + (Len(r) + 1) = Len(g) + Len(r) + 1
  BY <1>1
<1>3. Len(Append(r, f)) = Len(r) + 1
  OBVIOUS
<1>4. ASSUME NEW k \in 1 .. Len(r) + 1 PROVE Append(r, f)[k] = t[Len(g) + k]
  <2>1. CASE k = Len(r) + 1
    BY <1>1, <1>2, <2>1
  <2>2. CASE k \in 1 .. Len(r)
    BY <2>2
  <2> QED
    BY <1>1, <2>1, <2>2
<1> QED
  BY <1>2, <1>3, <1>4

LEMMA DeliverDelivery ==
  ASSUME TypeOK, DeliveryInv, Deliver
  PROVE  DeliveryInv'
<1>0. PICK c \in Calls : c = cur.call
  BY DEF Deliver, TypeOK, LoopTypeOK
<1>1. /\ rl \in {"select", "wait"} /\ rl' = "top" /\ cur.frame \in Frames
      /\ UNCHANGED <<sid, got, recvErr, inbox, sent, streams, nextStreamID, ctxDone>>
      /\ recv' = [recv EXCEPT ![c] = Append(@, cur.frame)]
  BY <1>0 DEF Deliver, loopUnchanged, closeVars, registryVars, appVars, netVars, TypeOK, LoopTypeOK
<1>2. /\ Held(c) /\ Deliverable(c) /\ \A d \in Calls : d # c => ~Held(d)
      /\ Reading /\ \A d \in Calls : ~Held(d)'
  BY <1>0, <1>1 DEF Held, Deliverable, Reading
<1>3. sid[c] # 0 /\ Prefix(c) /\ HeldIsNext(c) /\ NoneLost(c)
  BY <1>1, <1>2 DEF DeliveryInv, CallDelivery
<1>4. /\ got[c] \in Seq(Frames) /\ recv[c] \in Seq(Frames) /\ sent[sid[c]] \in Seq(Frames)
      /\ recv'[c] = Append(recv[c], cur.frame) /\ \A d \in Calls : d # c => recv'[d] = recv[d]
  BY <1>1, CallIds DEF TypeOK, CallTypeOK, StreamTypeOK, NetTypeOK
<1>5. /\ Len(got[c]) + Len(recv'[c]) = Len(got[c]) + Len(recv[c]) + 1
      /\ \A k \in 1 .. Len(recv'[c]) : recv'[c][k] = sent[sid[c]][Len(got[c]) + k]
  <2> DEFINE g == got[c]  r == recv[c]  t == sent[sid[c]]  f == cur.frame
  <2>1. /\ g \in Seq(Frames) /\ r \in Seq(Frames) /\ t \in Seq(Frames) /\ f \in Frames
        /\ Len(g) + Len(r) + 1 <= Len(t) /\ f = t[Len(g) + Len(r) + 1]
        /\ \A k \in 1 .. Len(r) : r[k] = t[Len(g) + k]
    BY <1>1, <1>2, <1>3, <1>4 DEF HeldIsNext, Prefix, Arrived
  <2>2. recv'[c] = Append(r, f) /\ got[c] = g /\ sent[sid[c]] = t /\ recv[c] = r
    BY <1>4
  <2> HIDE DEF g, r, t, f
  <2> QED
    BY <2>1, <2>2, AppendPrefix
<1>6. Arrived(c)' = Arrived(c) + 1 /\ \A d \in Calls : d # c => Arrived(d)' = Arrived(d)
  BY <1>1, <1>4, <1>5 DEF Arrived
<1>7. Prefix(c)'
  BY <1>1, <1>2, <1>3, <1>5, <1>6 DEF Prefix, HeldIsNext
<1>8. \A i, m : Pending(i, m)' <=> Pending(i, m)
  BY <1>1 DEF Pending
<1>9. NoneLost(c)'
  BY <1>1, <1>2, <1>3, <1>6, <1>8 DEF NoneLost
<1>10. ASSUME NEW d \in Calls PROVE CallDelivery(d)'
  <2>1. CallDelivery(d)
    BY DEF DeliveryInv
  <2>2. HeldIsNext(d)'
    BY <1>2 DEF HeldIsNext, Deliverable
  <2>3. CASE d = c
    BY <1>1, <1>3, <1>7, <1>9, <2>1, <2>2, <2>3 DEF CallDelivery
  <2>4. CASE d # c /\ sid[d] = 0
    BY <1>1, <1>2, <1>4, <2>1, <2>4 DEF CallDelivery
  <2>5. CASE d # c /\ sid[d] # 0
    <3>1. Prefix(d)'
      BY <1>1, <1>4, <1>6, <2>1, <2>5 DEF CallDelivery, Prefix
    <3>2. NoneLost(d)'
      BY <1>1, <1>2, <1>6, <1>8, <2>1, <2>5 DEF CallDelivery, NoneLost
    <3> QED
      BY <1>1, <2>1, <2>2, <2>5, <3>1, <3>2 DEF CallDelivery
  <2> QED
    BY <2>3, <2>4, <2>5
<1>11. InFlight'
  BY <1>1 DEF DeliveryInv, InFlight
<1> QED
  BY <1>1, <1>10, <1>11 DEF DeliveryInv

-----------------------------------------------------------------------------
(* The server sends a frame.                                               *)

LEMMA SendsDelivery ==
  ASSUME TypeOK, WireInv, DeliveryInv, NEW i \in Sids, NEW k \in ServerKinds, ServerWrites(i, k)
  PROVE  DeliveryInv'
<1> DEFINE f == [sid |-> i, kind |-> k, n |-> Len(sent[i]) + 1]
<1>1. /\ UNCHANGED <<sid, got, recv, recvErr, streams, nextStreamID, rl, cur, ctxDone>>
      /\ inbox' = Append(inbox, f) /\ sent' = [sent EXCEPT ![i] = Append(@, f)]
  BY DEF ServerWrites, FrameArrives, closeVars, registryVars, appVars, loopVars
<1>2. /\ inbox \in Seq(Frames) /\ sent[i] \in Seq(Frames) /\ DOMAIN sent = Sids
      /\ f.sid = i /\ f.n = Len(sent[i]) + 1 /\ Len(sent[i]) \in Nat
      /\ \A l \in Sids : Len(sent[l]) \in Nat /\ sent[l] \in Seq(Frames)
  BY DEF TypeOK, NetTypeOK
<1>3. i # 0 /\ i < nextStreamID
  BY DEF ServerWrites, WireInv
<1> HIDE DEF f
<1>4. /\ \A l \in Sids : l # i => sent'[l] = sent[l]
      /\ sent'[i] = Append(sent[i], f) /\ Len(sent'[i]) = Len(sent[i]) + 1
      /\ sent'[i][Len(sent[i]) + 1] = f
      /\ \A l \in Sids : \A n \in Nat : 0 < n /\ n <= Len(sent[l]) =>
           n <= Len(sent'[l]) /\ sent'[l][n] = sent[l][n]
  BY <1>1, <1>2
<1>5. /\ Len(inbox) \in Nat /\ DOMAIN inbox = 1 .. Len(inbox) /\ DOMAIN inbox' = 1 .. Len(inbox) + 1
      /\ inbox'[Len(inbox) + 1] = f /\ \A j \in DOMAIN inbox : inbox'[j] = inbox[j]
  BY <1>1, <1>2
<1>6. \A j \in DOMAIN inbox :
        inbox[j].sid \in Sids /\ inbox[j].n \in Nat /\ 0 < inbox[j].n /\ inbox[j].n <= Len(sent[inbox[j].sid])
  BY FrameNumber DEF TypeOK, DeliveryInv, InFlight
<1>7. InFlight'
  <2>1. ASSUME NEW j \in DOMAIN inbox'
        PROVE  inbox'[j].n <= Len(sent'[inbox'[j].sid]) /\ sent'[inbox'[j].sid][inbox'[j].n] = inbox'[j]
    <3>1. CASE j \in DOMAIN inbox
      BY <1>4, <1>5, <1>6, <3>1 DEF DeliveryInv, InFlight
    <3>2. CASE j = Len(inbox) + 1
      BY <1>2, <1>4, <1>5, <3>2
    <3> QED
      BY <1>5, <3>1, <3>2
  <2>2. ASSUME NEW j \in DOMAIN inbox', NEW l \in DOMAIN inbox', j < l, inbox'[j].sid = inbox'[l].sid
        PROVE  inbox'[j].n < inbox'[l].n
    <3>1. j \in DOMAIN inbox
      BY <1>5, <2>2
    <3>2. CASE l \in DOMAIN inbox
      BY <1>5, <2>2, <3>1, <3>2 DEF DeliveryInv, InFlight
    <3>3. CASE l = Len(inbox) + 1
      BY <1>2, <1>5, <1>6, <2>2, <3>1, <3>3
    <3> QED
      BY <1>5, <3>2, <3>3
  <2> QED
    BY <2>1, <2>2 DEF InFlight
<1>8. ASSUME NEW l \in Sids, NEW m \in Nat, Pending(l, m) PROVE Pending(l, m)'
  <2>1. m <= Len(sent'[l])
    <3>1. m <= Len(sent[l]) /\ Len(sent[l]) \in Nat
      BY <1>2, <1>8 DEF Pending
    <3>2. CASE l = i
      BY <1>4, <3>1, <3>2
    <3>3. CASE l # i
      BY <1>4, <3>1, <3>3
    <3> QED
      BY <3>2, <3>3
  <2>2. \A j \in DOMAIN inbox' : inbox'[j].sid = l => m < inbox'[j].n
    BY <1>2, <1>5, <1>8 DEF Pending
  <2>3. ASSUME NEW n \in Nat, m < n, n <= Len(sent'[l])
        PROVE  \E j \in DOMAIN inbox' : inbox'[j].sid = l /\ inbox'[j].n = n
    <3>1. CASE n <= Len(sent[l])
      BY <1>5, <1>8, <2>3, <3>1 DEF Pending
    <3>2. CASE ~(n <= Len(sent[l]))
      <4>1. l = i /\ n = Len(sent[i]) + 1
        BY <1>2, <1>4, <2>3, <3>2
      <4> QED
        BY <1>2, <1>5, <4>1
    <3> QED
      BY <3>1, <3>2
  <2> QED
    BY <2>1, <2>2, <2>3 DEF Pending
<1>9. \A c \in Calls : Arrived(c)' = Arrived(c) /\ Arrived(c) \in Nat /\ Len(got[c]) \in Nat
                       /\ Len(recv[c]) \in Nat
  BY <1>1, ArrivedType DEF Arrived
<1>10. /\ Reading' <=> Reading
       /\ \A c : (Held(c)' <=> Held(c)) /\ (Deliverable(c)' <=> Deliverable(c))
  BY <1>1 DEF Reading, Held, Deliverable
<1>11. ASSUME NEW c \in Calls PROVE CallDelivery(c)'
  <2>1. CallDelivery(c) /\ sid[c] \in Sids /\ sid'[c] = sid[c]
    BY <1>1, CallIds DEF DeliveryInv
  <2>2. CASE sid[c] = 0
    BY <1>1, <1>10, <2>1, <2>2 DEF CallDelivery
  <2>3. CASE sid[c] # 0
    <3> DEFINE t == sent[sid[c]]
               t2 == sent'[sid[c]]
    <3>1. /\ Len(t) <= Len(t2) /\ Len(t) \in Nat /\ Len(t2) \in Nat
          /\ \A n \in Nat : 0 < n /\ n <= Len(t) => t2[n] = t[n]
      BY <1>2, <1>4, <2>1
    <3>2. Prefix(c)'
      <4>1. Prefix(c)
        BY <2>1, <2>3 DEF CallDelivery
      <4>2. Arrived(c)' <= Len(t2)
        BY <1>9, <3>1, <4>1 DEF Prefix
      <4> DEFINE g == Len(got[c])
                 r == Len(recv[c])
                 u == Len(t)
      <4>3. g \in Nat /\ r \in Nat /\ u \in Nat /\ g + r <= u
        BY <1>9, <3>1, <4>1 DEF Prefix, Arrived
      <4> HIDE DEF g, r, u
      <4>4. /\ \A n \in 1 .. g : n \in Nat /\ 0 < n /\ n <= u
            /\ \A n \in 1 .. r : g + n \in Nat /\ 0 < g + n /\ g + n <= u
        BY <4>3
      <4>5. \A n \in 1 .. Len(got[c]) : got[c][n] = t2[n]
        BY <3>1, <4>1, <4>4 DEF Prefix, g, u
      <4>6. \A n \in 1 .. Len(recv[c]) : recv[c][n] = t2[Len(got[c]) + n]
        BY <3>1, <4>1, <4>4 DEF Prefix, g, r, u
      <4> QED
        BY <1>1, <4>2, <4>5, <4>6 DEF Prefix
    <3>3. HeldIsNext(c)'
      BY <1>1, <1>9, <1>10, <2>1, <2>3, <3>1 DEF CallDelivery, HeldIsNext
    <3>4. NoneLost(c)'
      BY <1>1, <1>8, <1>9, <1>10, <2>1, <2>3 DEF CallDelivery, NoneLost
    <3> QED
      BY <1>1, <2>1, <2>3, <3>2, <3>3, <3>4 DEF CallDelivery
  <2> QED
    BY <2>2, <2>3
<1>12. \A l \in Sids : sent'[l] # <<>> => l # 0 /\ l < nextStreamID'
  BY <1>1, <1>3, <1>4 DEF DeliveryInv
<1> QED
  BY <1>7, <1>11, <1>12 DEF DeliveryInv
-----------------------------------------------------------------------------
(* A call gets its id: nothing was sent on it yet.                         *)

LEMMA RegisterStreamDelivery ==
  ASSUME TypeOK, IdInv, IdsLeft, WireInv, DeliveryInv, NEW c \in Calls, RegisterStream(c)
  PROVE  DeliveryInv'
<1>1. UNCHANGED <<got, recv, recvErr, inbox, sent, cur, rl, ctxDone>>
  BY DEF RegisterStream, loopVars, netVars, closeVars
<1>2. CASE CreateRefused
  <2>1. UNCHANGED <<sid, streams, nextStreamID>>
    BY <1>2 DEF RegisterStream
  <2> QED
    BY <1>1, <2>1, DeliveryFrame DEF Held, Deliverable, Reading
<1>3. CASE ~CreateRefused
  <2> DEFINE i == nextStreamID
  <2>1. /\ i \in Sids /\ i \in Nat /\ i # 0 /\ nextStreamID' = i + 2
        /\ \A d \in Calls : sid'[d] = IF d = c THEN i ELSE sid[d]
        /\ \A l \in Sids : streams'[l] = IF l = i THEN c ELSE streams[l]
    BY <1>3, NextIdNoWrap, SidsNat DEF RegisterStream, IdsLeft, IdInv, TypeOK, RegistryTypeOK, CallTypeOK
  <2>2. \A d \in Calls : sid[d] # i /\ sid[d] \in Sids
    <3>1. \A d \in Calls : sid[d] \in Sids /\ sid[d] \in Nat /\ sid[d] < i
      BY CallIds, SidsNat DEF IdInv
    <3> QED
      BY <2>1, <3>1
  <2>3. sent[i] = <<>> /\ Len(sent[i]) = 0
    BY <2>1 DEF DeliveryInv
  <2>4. \A j \in DOMAIN inbox : inbox[j].sid # i
    BY <2>3, FrameNumber DEF TypeOK, DeliveryInv, InFlight
  <2>5. sid[c] = 0
    BY DEF RegisterStream, WireInv
  <2>6. got[c] = <<>> /\ recv[c] = <<>> /\ ~Held(c)
    BY <2>5 DEF DeliveryInv, CallDelivery
  <2>7. /\ \A l, m : Pending(l, m)' <=> Pending(l, m)
        /\ \A d : Arrived(d)' = Arrived(d)
        /\ Reading' <=> Reading
        /\ \A d : (Held(d)' <=> Held(d)) /\ (Deliverable(d)' <=> Deliverable(d))
    BY <1>1 DEF Pending, Arrived, Reading, Held, Deliverable
  <2>8. CallDelivery(c)'
    <3>1. sid'[c] = i /\ i # 0 /\ streams'[i] = c
      BY <2>1
    <3>2. Arrived(c) = 0
      BY <2>6 DEF Arrived
    <3>3. Pending(i, 0)
      BY <2>3, <2>4 DEF Pending
    <3> HIDE DEF i
    <3>4. Prefix(c)'
      BY <1>1, <2>3, <2>6, <2>7, <3>1, <3>2 DEF Prefix
    <3>5. HeldIsNext(c)'
      BY <2>6, <2>7 DEF HeldIsNext, Deliverable
    <3>6. NoneLost(c)'
      BY <2>6, <2>7, <3>1, <3>2, <3>3 DEF NoneLost
    <3> QED
      BY <3>1, <3>4, <3>5, <3>6 DEF CallDelivery
  <2>9. ASSUME NEW d \in Calls, d # c PROVE CallDelivery(d)'
    <3>1. CallDelivery(d) /\ sid'[d] = sid[d] /\ streams'[sid[d]] = streams[sid[d]]
      BY <2>1, <2>2, <2>9 DEF DeliveryInv
    <3>2. Prefix(d)' <=> Prefix(d)
      BY <1>1, <2>7, <3>1 DEF Prefix
    <3>3. HeldIsNext(d)' <=> HeldIsNext(d)
      BY <1>1, <2>7, <3>1 DEF HeldIsNext
    <3>4. NoneLost(d)' <=> NoneLost(d)
      BY <1>1, <2>7, <3>1 DEF NoneLost
    <3> QED
      BY <1>1, <2>7, <3>1, <3>2, <3>3, <3>4 DEF CallDelivery
  <2>10. InFlight'
    BY <1>1 DEF DeliveryInv, InFlight
  <2>11. \A l \in Sids : sent'[l] # <<>> => l # 0 /\ l < nextStreamID'
    <3>1. \A l \in Sids : l \in Nat /\ (sent'[l] # <<>> => l # 0 /\ l < i)
      BY <1>1, SidsNat DEF DeliveryInv
    <3> HIDE DEF i
    <3>2. \A l \in Nat : l < i => l < i + 2
      BY <2>1
    <3> QED
      BY <2>1, <3>1, <3>2
  <2> QED
    BY <2>8, <2>9, <2>10, <2>11 DEF DeliveryInv
<1> QED
  BY <1>2, <1>3

-----------------------------------------------------------------------------
(* Streams that are closed.                                                *)

LEMMA UnaryReturnDelivery ==
  ASSUME TypeOK, IdInv, DeliveryInv, NEW c \in Calls, UnaryReturn(c)
  PROVE  DeliveryInv'
<1>1. /\ UNCHANGED <<sid, got, recv, inbox, sent, cur, rl, ctxDone, nextStreamID>>
      /\ DeleteStream(c)
  BY DEF UnaryReturn, DeferredDelete, loopVars, netVars, closeVars
<1>2. /\ recvErr'[c] # "none"
      /\ \A d \in Calls : recvErr'[d] = "none" => recvErr[d] = "none"
  BY <1>1 DEF DeleteStream, CloseWithError, TypeOK, StreamTypeOK
<1>3. \A d \in Calls : d # c /\ sid[d] # 0 => streams'[sid[d]] = streams[sid[d]]
  BY <1>1, CallIds DEF DeleteStream, IdInv, TypeOK, RegistryTypeOK
<1>4. \A d \in Calls : (Held(d)' <=> Held(d)) /\ (Deliverable(d)' => Deliverable(d))
  BY <1>1, <1>2 DEF Held, Deliverable
<1>5. Reading' <=> Reading
  BY <1>1 DEF Reading
<1> QED
  BY <1>1, <1>2, <1>3, <1>4, <1>5, DeliveryFrame

LEMMA TimeoutDelivery ==
  ASSUME TypeOK, DeliveryInv, ReceiveTimeout
  PROVE  DeliveryInv'
<1>1. /\ UNCHANGED <<sid, got, recv, inbox, sent, cur, streams, ctxDone, nextStreamID>>
      /\ rl = "wait" /\ rl' = "top" /\ recvErr' = CloseWithError(recvErr, cur.call, "full")
  BY DEF ReceiveTimeout, TimerFires, loopUnchanged, netVars, registryVars, appVars, closeVars
<1>2. \A d \in Calls : recvErr'[d] = "none" => recvErr[d] = "none" /\ d # cur.call
  BY <1>1 DEF CloseWithError, TypeOK, StreamTypeOK
<1>3. \A d \in Calls : ~Held(d)' /\ ~Deliverable(d)' /\ (Held(d) <=> d = cur.call)
  BY <1>1 DEF Held, Deliverable
<1>4. Reading
  BY <1>1 DEF Reading
<1> QED
  BY <1>1, <1>2, <1>3, <1>4, DeliveryFrame

LEMMA CleanupDelivery ==
  ASSUME TypeOK, WakeInv, DeliveryInv, CleanupStreams
  PROVE  DeliveryInv'
<1>1. /\ UNCHANGED <<sid, got, recv, inbox, sent, cur, ctxDone, nextStreamID>>
      /\ rl' = "callback" /\ rlErr # "none"
  BY DEF CleanupStreams, WakeInv, netVars, appVars, closeVars
<1>2. \A d \in Calls : sid[d] # 0 => recvErr'[d] # "none"
  <2> SUFFICES ASSUME NEW d \in Calls, sid[d] # 0 PROVE recvErr'[d] # "none"
    OBVIOUS
  <2>1. CASE recvErr[d] = "none"
    <3>1. streams[sid[d]] = d /\ sid[d] \in Sids
      BY <2>1, CallIds DEF DeliveryInv, CallDelivery
    <3> QED
      BY <1>1, <2>1, <3>1 DEF CleanupStreams, CloseAllStreams, CloseWithError, TypeOK, StreamTypeOK
  <2>2. CASE recvErr[d] # "none"
    BY <2>2 DEF CleanupStreams, CloseAllStreams, CloseWithError, TypeOK, StreamTypeOK
  <2> QED
    BY <2>1, <2>2
<1>3. \A d \in Calls : ~Held(d)' /\ ~Deliverable(d)'
  BY <1>1 DEF Held, Deliverable
<1> QED
  BY <1>1, <1>2, <1>3, DeliveryFrame

-----------------------------------------------------------------------------
(* All steps.                                                              *)

LEMMA DeliveryNext ==
  TypeOK /\ IdInv /\ IdsLeft /\ WakeInv /\ RegisteredInv /\ WireInv /\ DeliveryInv /\ [Moves]_vars
    => DeliveryInv'
<1> SUFFICES ASSUME TypeOK, IdInv, IdsLeft, WakeInv, RegisteredInv, WireInv, DeliveryInv, [Moves]_vars
             PROVE  DeliveryInv'
  OBVIOUS
<1>1. ASSUME NEW c \in Calls, RegisterStream(c) \/ UnaryReturn(c) PROVE DeliveryInv'
  BY <1>1, RegisterStreamDelivery, UnaryReturnDelivery
<1>2. ASSUME NEW c \in Calls, UnaryReceive(c) \/ RecvMsgTake(c) PROVE DeliveryInv'
  <2>1. sid[c] # 0
    BY <1>2 DEF UnaryReceive, RecvMsgTake, IdInv
  <2> QED
    BY <1>2, <2>1, TakeDelivery
<1>3. CASE ReceiveFrame \/ Deliver \/ ReceiveTimeout \/ CleanupStreams
  BY <1>3, ReceiveDelivery, DeliverDelivery, TimeoutDelivery, CleanupDelivery
<1>4. ASSUME NEW i \in Sids, NEW k \in ServerKinds, ServerWrites(i, k) PROVE DeliveryInv'
  BY <1>4, SendsDelivery
<1> USE DeliveryFrame DEF Held, Deliverable, Reading, closeVars, registryVars, appVars, loopVars, netVars
<1>5. ASSUME NEW c \in Calls, AcquireSendLock(c) \/ SendRequest(c) \/ CallCtxDone(c)
      PROVE DeliveryInv'
  BY <1>5 DEF AcquireSendLock, SendRequest, CallCtxDone
<1>6. ASSUME NEW c \in Calls, UnaryFail(c) \/ RecvMsgBegin(c) \/ RecvMsgFail(c) PROVE DeliveryInv'
  BY <1>6 DEF UnaryFail, RecvMsgBegin, RecvMsgFail
<1>7. ASSUME NEW c \in Calls, SendMsg(c) \/ CloseSend(c) PROVE DeliveryInv'
  BY <1>7 DEF SendMsg, CloseSend
<1>8. CASE CancelCtx \/ CloseConn
  BY <1>8 DEF CancelCtx, CloseConn
<1>9. CASE LoopTop \/ ReceiveError \/ CallbackReturns
  BY <1>9 DEF LoopTop, ReceiveError, CallbackReturns, loopUnchanged
<1>10. CASE ReceiveCheck
  BY <1>10 DEF ReceiveCheck, ClosedCheck, loopUnchanged
<1>11. CASE Drop \/ WaitForRoom
  BY <1>11 DEF Drop, WaitForRoom, loopUnchanged
<1>12. CASE ServerHangsUp \/ UNCHANGED vars
  BY <1>12 DEF ServerHangsUp, vars
<1> QED
  BY <1>1, <1>2, <1>3, <1>4, <1>5, <1>6, <1>7, <1>8, <1>9, <1>10, <1>11, <1>12
  DEF Moves, CallStep, AppStep, LoopStep, ServerActs, RunClose, UserClose

LEMMA PrefixOfSent ==
  ASSUME NEW g \in Seq(Frames), NEW r \in Seq(Frames), NEW t \in Seq(Frames),
         Len(g) + Len(r) <= Len(t),
         \A k \in 1 .. Len(g) : g[k] = t[k],
         \A k \in 1 .. Len(r) : r[k] = t[Len(g) + k]
  PROVE  IsPrefix(g \o r, t)
<1> DEFINE s == g \o r
<1>1. s \in Seq(Frames) /\ Len(s) = Len(g) + Len(r) /\ Len(s) <= Len(t)
  OBVIOUS
<1>2. ASSUME NEW k \in 1 .. Len(s) PROVE s[k] = t[k]
  <2>1. CASE k <= Len(g)
    BY <1>1, <2>1
  <2>2. CASE ~(k <= Len(g))
    <3>1. k - Len(g) \in 1 .. Len(r) /\ Len(g) + (k - Len(g)) = k
      BY <1>1, <2>2
    <3>2. s[k] = r[k - Len(g)]
      BY <1>1, <2>2
    <3> QED
      BY <3>1, <3>2
  <2> QED
    BY <2>1, <2>2
<1> HIDE DEF s
<1>3. SubSeq(s, 1, Len(s)) = SubSeq(t, 1, Len(s))
  <2>1. Len(SubSeq(s, 1, Len(s))) = Len(s) /\ Len(SubSeq(t, 1, Len(s))) = Len(s)
    BY <1>1
  <2>2. \A k \in 1 .. Len(s) : SubSeq(s, 1, Len(s))[k] = SubSeq(t, 1, Len(s))[k]
    BY <1>1, <1>2
  <2>3. SubSeq(s, 1, Len(s)) \in Seq(Frames) /\ SubSeq(t, 1, Len(s)) \in Seq(Frames)
    BY <1>1
  <2> QED
    BY <2>1, <2>2, <2>3
<1> QED
  BY <1>1, <1>3 DEF IsPrefix, s

\* Until the ids are used up, a call loses no frame but with all that follow
\* it: what it took and what its channel holds is a prefix of what the server
\* sent on its stream, whichever way streams are closed.
THEOREM DeliveredInOrder == Spec /\ []IdsLeft => []DeliveredIsPrefix
<1>1. TypeOK /\ DeliveryInv => DeliveredIsPrefix
  <2> SUFFICES ASSUME TypeOK, DeliveryInv, NEW c \in Calls, sid[c] # 0
               PROVE  IsPrefix(got[c] \o recv[c], sent[sid[c]])
    BY DEF DeliveredIsPrefix
  <2>1. Prefix(c)
    BY DEF DeliveryInv, CallDelivery
  <2>2. got[c] \in Seq(Frames) /\ recv[c] \in Seq(Frames) /\ sent[sid[c]] \in Seq(Frames)
    BY CallIds DEF TypeOK, CallTypeOK, StreamTypeOK, NetTypeOK
  <2> QED
    BY <2>1, <2>2, PrefixOfSent DEF Prefix, Arrived
<1> QED
  BY <1>1, DeliveryInit, DeliveryNext, WireInit, WireNext, WakeInvInit, WakeInvNext,
     RegisteredHolds, IdInvHolds, TypeCorrect, SpecMoves, PTL
=============================================================================
