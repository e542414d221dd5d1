---------------------------- MODULE ClientProofs ----------------------------
(***************************************************************************)
(* Theorems about Client for every set of calls, every buffer size and     *)
(* every bound, with their proofs.                                         *)
(***************************************************************************)
EXTENDS Client, TLAPS

-----------------------------------------------------------------------------
(* Type correctness.                                                       *)

LEMMA SidsNat == Sids \subseteq Nat /\ 0 \in Sids /\ 1 \in Sids
  BY SizeAssumption DEF Sids

LEMMA NextIdType ==
  ASSUME NEW i \in Sids
  PROVE  (i + 2) % SidLimit \in Sids
  BY SizeAssumption, SidsNat DEF Sids

\* As long as it does not wrap around, the next id is two more.
LEMMA NextIdNoWrap ==
  ASSUME NEW i \in Sids, i + 2 < SidLimit
  PROVE  (i + 2) % SidLimit = i + 2
  BY SizeAssumption, SidsNat

LEMMA CapacityType == \A c \in Calls : Capacity(c) \in Nat \ {0}
  BY SizeAssumption DEF Capacity

LEMMA InitType == Init => TypeOK
<1> SUFFICES ASSUME Init PROVE TypeOK
  OBVIOUS
<1> USE SidsNat DEF Init
<1>1. CloseTypeOK
  BY DEF CloseTypeOK
<1>2. RegistryTypeOK
  BY DEF RegistryTypeOK
<1>3. CallTypeOK
  BY DEF CallTypeOK, CallStates, Results, Errors
<1>4. StreamTypeOK
  BY CapacityType DEF StreamTypeOK, Errors
<1>5. LoopTypeOK
  BY DEF LoopTypeOK, LoopStates, Errors
<1>6. NetTypeOK
  BY DEF NetTypeOK
<1> QED
  BY <1>1, <1>2, <1>3, <1>4, <1>5, <1>6 DEF TypeOK

\* A step keeps the type of the variables it leaves alone.
LEMMA UnchangedType ==
  ASSUME TypeOK
  PROVE  /\ UNCHANGED closeVars => CloseTypeOK'
         /\ UNCHANGED registryVars => RegistryTypeOK'
         /\ UNCHANGED appVars => CallTypeOK'
         /\ UNCHANGED <<recv, recvErr>> => StreamTypeOK'
         /\ UNCHANGED loopVars => LoopTypeOK'
         /\ UNCHANGED netVars => NetTypeOK'
         /\ UNCHANGED wire => (wire \in Seq(Messages))'
<1> USE DEF TypeOK
<1>1. UNCHANGED closeVars => CloseTypeOK'
  BY DEF CloseTypeOK, closeVars
<1>2. UNCHANGED registryVars => RegistryTypeOK'
  BY DEF RegistryTypeOK, registryVars
<1>3. UNCHANGED appVars => CallTypeOK'
  BY DEF CallTypeOK, appVars
<1>4. UNCHANGED <<recv, recvErr>> => StreamTypeOK'
  BY DEF StreamTypeOK
<1>5. UNCHANGED loopVars => LoopTypeOK'
  BY DEF LoopTypeOK, loopVars
<1>6. UNCHANGED netVars => NetTypeOK'
  BY DEF NetTypeOK, netVars
<1> QED
  BY <1>1, <1>2, <1>3, <1>4, <1>5, <1>6

\* What the head and the tail of a stream's buffer are.
LEMMA RecvHead ==
  ASSUME StreamTypeOK, NEW c \in Calls, recv[c] # <<>>
  PROVE  /\ Head(recv[c]) \in Frames
         /\ Tail(recv[c]) \in Seq(Frames)
         /\ Len(Tail(recv[c])) <= Capacity(c)
<1>1. recv[c] \in Seq(Frames) /\ Len(recv[c]) <= Capacity(c)
  BY DEF StreamTypeOK
<1>2. Len(Tail(recv[c])) = Len(recv[c]) - 1 /\ Len(recv[c]) \in Nat
  BY <1>1
<1> QED
  BY <1>1, <1>2, CapacityType

LEMMA InboxHead ==
  ASSUME NetTypeOK, inbox # <<>>
  PROVE  Head(inbox) \in Frames /\ Head(inbox).sid \in Sids /\ Tail(inbox) \in Seq(Frames)
<1>1. Head(inbox) \in Frames /\ Tail(inbox) \in Seq(Frames)
  BY DEF NetTypeOK
<1> QED
  BY <1>1 DEF Frames

\* Writing a message of a call that has an id keeps the type of wire.
LEMMA WireAppend ==
  ASSUME TypeOK, NEW c \in Calls, NEW k \in WireKinds
  PROVE  Append(wire, [sid |-> sid[c], kind |-> k]) \in Seq(Messages)
<1>1. [sid |-> sid[c], kind |-> k] \in Messages
  BY DEF TypeOK, CallTypeOK, Messages
<1> QED
  BY <1>1 DEF TypeOK

\* A step of the client, or of a server that sends as many frames as it likes:
\* no theorem depends on the bound on them.
ServerWrites(i, k) ==
  /\ \E j \in DOMAIN wire : wire[j].sid = i
  /\ FrameArrives(i, k)
  /\ UNCHANGED <<closeVars, registryVars, appVars, recv, recvErr, wire, loopVars, peer>>
ServerActs == ServerHangsUp \/ \E i \in Sids, k \in ServerKinds : ServerWrites(i, k)
Moves ==
  \/ \E c \in Calls : CallStep(c) \/ AppStep(c) \/ SendRequest(c)
  \/ LoopStep \/ CloseConn \/ UserClose
  \/ ServerActs

LEMMA SpecMoves == Spec => Init /\ [][Moves]_vars
<1>1. [Next]_vars => [Moves]_vars
  BY DEF Next, Moves, Server, ServerActs, ServerSends, ServerWrites
<1> QED
  BY <1>1, PTL DEF Spec

LEMMA NextType == TypeOK /\ [Moves]_vars => TypeOK'
<1> SUFFICES ASSUME TypeOK, [Moves]_vars PROVE TypeOK'
  OBVIOUS
<1> USE DEF TypeOK
<1>1. ASSUME NEW c \in Calls, AcquireSendLock(c) PROVE TypeOK'
  <2>1. RegistryTypeOK'
    BY <1>1 DEF AcquireSendLock, RegistryTypeOK
  <2>2. CallTypeOK'
    BY <1>1 DEF AcquireSendLock, CallTypeOK, CallStates, Results, Errors
  <2> QED
    BY <1>1, <2>1, <2>2, UnchangedType DEF AcquireSendLock
<1>2. ASSUME NEW c \in Calls, RegisterStream(c) PROVE TypeOK'
  <2>1. RegistryTypeOK'
    BY <1>2, NextIdType DEF RegisterStream, RegistryTypeOK
  <2>2. CallTypeOK'
    <3>1. sid' \in [Calls -> Sids]
      BY <1>2 DEF RegisterStream, RegistryTypeOK, CallTypeOK
    <3>2. pc' \in [Calls -> CallStates]
      BY <1>2 DEF RegisterStream, CallTypeOK, CallStates
    <3>3. ret' \in [Calls -> Results]
      BY <1>2 DEF RegisterStream, CallTypeOK, Results, Errors
    <3> QED
      BY <1>2, <3>1, <3>2, <3>3 DEF RegisterStream, CallTypeOK
  <2> QED
    BY <1>2, <2>1, <2>2, UnchangedType DEF RegisterStream
<1>3. ASSUME NEW c \in Calls, SendRequest(c) PROVE TypeOK'
  <2>1. RegistryTypeOK'
    BY <1>3 DEF SendRequest, RequestWritten, RequestFailed, RegistryTypeOK
  <2>2. CallTypeOK'
    BY <1>3 DEF SendRequest, RequestWritten, RequestFailed, CallTypeOK, CallStates, Results, Errors
  <2>3. (wire \in Seq(Messages))'
    BY <1>3, WireAppend DEF SendRequest, RequestWritten, RequestFailed, WireKinds
  <2> QED
    BY <1>3, <2>1, <2>2, <2>3, UnchangedType DEF SendRequest, RequestWritten, RequestFailed
<1>4. ASSUME NEW c \in Calls, UnaryReceive(c) PROVE TypeOK'
  <2>1. CallTypeOK'
    BY <1>4, RecvHead DEF UnaryReceive, CallTypeOK, CallStates, Results, Errors
  <2>2. StreamTypeOK'
    BY <1>4, RecvHead DEF UnaryReceive, StreamTypeOK, Errors
  <2> QED
    BY <1>4, <2>1, <2>2, UnchangedType DEF UnaryReceive
<1>5. ASSUME NEW c \in Calls, UnaryFail(c) PROVE TypeOK'
  <2>1. CallTypeOK'
    BY <1>5 DEF UnaryFail, UnaryGivesUp, RecvErrReady, CallTypeOK, CallStates, Results, Errors, StreamTypeOK
  <2> QED
    BY <1>5, <2>1, UnchangedType DEF UnaryFail, UnaryGivesUp, RecvErrReady
<1>6. ASSUME NEW c \in Calls, UnaryReturn(c) PROVE TypeOK'
  <2>1. RegistryTypeOK'
    BY <1>6 DEF UnaryReturn, DeferredDelete, DeleteStream, CloseWithError, RegistryTypeOK, CallTypeOK
  <2>2. CallTypeOK'
    BY <1>6 DEF UnaryReturn, DeferredDelete, DeleteStream, CloseWithError, CallTypeOK, CallStates, Results, Errors
  <2>3. StreamTypeOK'
    BY <1>6 DEF UnaryReturn, DeferredDelete, DeleteStream, CloseWithError, StreamTypeOK, Errors
  <2> QED
    BY <1>6, <2>1, <2>2, <2>3, UnchangedType DEF UnaryReturn, DeferredDelete, DeleteStream, CloseWithError
<1>7. ASSUME NEW c \in Calls, RecvMsgBegin(c) PROVE TypeOK'
  <2>1. CallTypeOK'
    BY <1>7 DEF RecvMsgBegin, CallTypeOK, CallStates, Results, Errors
  <2> QED
    BY <1>7, <2>1, UnchangedType DEF RecvMsgBegin
<1>8. ASSUME NEW c \in Calls, RecvMsgFail(c) PROVE TypeOK'
  <2>1. CallTypeOK'
    BY <1>8 DEF RecvMsgFail, RecvErrReady, CallTypeOK, CallStates, Results, Errors, StreamTypeOK
  <2> QED
    BY <1>8, <2>1, UnchangedType DEF RecvMsgFail, RecvErrReady
<1>9. ASSUME NEW c \in Calls, RecvMsgTake(c) PROVE TypeOK'
  <2>1. RegistryTypeOK'
    BY <1>9 DEF RecvMsgTake, DeleteStream, CloseWithError, RegistryTypeOK, CallTypeOK
  <2>2. CallTypeOK'
    <3> DEFINE e == RecvMsgError(c, Head(recv[c]))
    <3>1. got' \in [Calls -> Seq(Frames)]
      BY <1>9, RecvHead DEF RecvMsgTake, CallTypeOK
    <3>2. e \in Results
      BY DEF RecvMsgError, Results, Errors
    <3>3. ret' \in [Calls -> Results]
      BY <1>9, <3>2 DEF RecvMsgTake, CallTypeOK
    <3>4. pc' \in [Calls -> CallStates]
      BY <1>9 DEF RecvMsgTake, CallTypeOK, CallStates
    <3>5. remoteClosed' \in [Calls -> BOOLEAN]
      BY <1>9 DEF RecvMsgTake, CallTypeOK
    <3> QED
      BY <1>9, <3>1, <3>3, <3>4, <3>5 DEF RecvMsgTake, CallTypeOK
  <2>3. StreamTypeOK'
    BY <1>9, RecvHead DEF RecvMsgTake, DeleteStream, CloseWithError, StreamTypeOK, Errors
  <2> QED
    BY <1>9, <2>1, <2>2, <2>3, UnchangedType DEF RecvMsgTake, DeleteStream, CloseWithError
<1>10. ASSUME NEW c \in Calls, SendMsg(c) PROVE TypeOK'
  <2>1. (wire \in Seq(Messages))'
    BY <1>10, WireAppend DEF SendMsg, Send, WireKinds
  <2> QED
    BY <1>10, <2>1, UnchangedType DEF SendMsg, Send
<1>11. ASSUME NEW c \in Calls, CloseSend(c) PROVE TypeOK'
  <2>1. CallTypeOK'
    BY <1>11 DEF CloseSend, Send, CallTypeOK, CallStates, Results, Errors
  <2>2. (wire \in Seq(Messages))'
    BY <1>11, WireAppend DEF CloseSend, Send, WireKinds
  <2> QED
    BY <1>11, <2>1, <2>2, UnchangedType DEF CloseSend, Send
<1>12. ASSUME NEW c \in Calls, CallCtxDone(c) PROVE TypeOK'
  <2>1. CallTypeOK'
    BY <1>12 DEF CallCtxDone, CallTypeOK, CallStates, Results, Errors
  <2> QED
    BY <1>12, <2>1, UnchangedType DEF CallCtxDone
<1>13. ASSUME CancelCtx PROVE TypeOK'
  <2>1. CloseTypeOK'
    BY <1>13 DEF CancelCtx, CloseTypeOK
  <2> QED
    BY <1>13, <2>1, UnchangedType DEF CancelCtx
<1>14. ASSUME CloseConn PROVE TypeOK'
  <2>1. CloseTypeOK'
    BY <1>14 DEF CloseConn, CloseTypeOK
  <2> QED
    BY <1>14, <2>1, UnchangedType DEF CloseConn
<1>15. ASSUME LoopTop PROVE TypeOK'
  <2>1. LoopTypeOK'
    BY <1>15 DEF LoopTop, loopUnchanged, LoopTypeOK, LoopStates, Errors
  <2> QED
    BY <1>15, <2>1, UnchangedType DEF LoopTop, loopUnchanged
<1>16. ASSUME ReceiveFrame PROVE TypeOK'
  <2>1. StreamTypeOK'
    BY <1>16 DEF ReceiveFrame, loopUnchanged, CloseWithError, StreamTypeOK, Errors, RegistryTypeOK, NetTypeOK, Frames
  <2>2. LoopTypeOK'
    <3> DEFINE s == streams[Head(inbox).sid]
    <3>1. Head(inbox) \in Frames /\ s \in Calls \cup {NoCall}
      BY <1>16, InboxHead DEF ReceiveFrame, RegistryTypeOK
    <3>2. CASE rl' = "top" /\ cur' = cur
      BY <1>16, <3>2 DEF ReceiveFrame, LoopTypeOK, LoopStates
    <3>3. CASE s # NoCall /\ rl' = "check" /\ cur' = [call |-> s, frame |-> Head(inbox)]
      BY <1>16, <3>1, <3>3 DEF ReceiveFrame, LoopTypeOK, LoopStates
    <3> QED
      BY <1>16, <3>2, <3>3 DEF ReceiveFrame
  <2>3. NetTypeOK'
    BY <1>16 DEF ReceiveFrame, loopUnchanged, CloseWithError, NetTypeOK
  <2> QED
    BY <1>16, <2>1, <2>2, <2>3, UnchangedType DEF ReceiveFrame, loopUnchanged, CloseWithError
<1>17. ASSUME ReceiveError PROVE TypeOK'
  <2>1. LoopTypeOK'
    BY <1>17 DEF ReceiveError, FilterCloseErr, loopUnchanged, LoopTypeOK, LoopStates, Errors
  <2> QED
    BY <1>17, <2>1, UnchangedType DEF ReceiveError, loopUnchanged
<1>18. ASSUME ReceiveCheck PROVE TypeOK'
  <2>1. LoopTypeOK'
    BY <1>18 DEF ReceiveCheck, ClosedCheck, loopUnchanged, LoopTypeOK, LoopStates, Errors
  <2> QED
    BY <1>18, <2>1, UnchangedType DEF ReceiveCheck, ClosedCheck, loopUnchanged
<1>19. ASSUME Deliver PROVE TypeOK'
  <2>1. StreamTypeOK'
    BY <1>19, CapacityType DEF Deliver, HasRoom, loopUnchanged, StreamTypeOK, Errors, LoopTypeOK
  <2>2. LoopTypeOK'
    BY <1>19 DEF Deliver, HasRoom, loopUnchanged, LoopTypeOK, LoopStates, Errors
  <2> QED
    BY <1>19, <2>1, <2>2, UnchangedType DEF Deliver, HasRoom, loopUnchanged
<1>20. ASSUME Drop PROVE TypeOK'
  <2>1. LoopTypeOK'
    BY <1>20 DEF Drop, loopUnchanged, LoopTypeOK, LoopStates, Errors
  <2> QED
    BY <1>20, <2>1, UnchangedType DEF Drop, loopUnchanged
<1>21. ASSUME WaitForRoom PROVE TypeOK'
  <2>1. LoopTypeOK'
    BY <1>21 DEF WaitForRoom, loopUnchanged, LoopTypeOK, LoopStates, Errors
  <2> QED
    BY <1>21, <2>1, UnchangedType DEF WaitForRoom, loopUnchanged
<1>22. ASSUME ReceiveTimeout PROVE TypeOK'
  <2>1. StreamTypeOK'
    BY <1>22 DEF ReceiveTimeout, CloseWithError, loopUnchanged, StreamTypeOK, Errors
  <2>2. LoopTypeOK'
    BY <1>22 DEF ReceiveTimeout, CloseWithError, loopUnchanged, LoopTypeOK, LoopStates, Errors
  <2> QED
    BY <1>22, <2>1, <2>2, UnchangedType DEF ReceiveTimeout, CloseWithError, loopUnchanged
<1>23. ASSUME CleanupStreams PROVE TypeOK'
  <2>1. RegistryTypeOK'
    BY <1>23 DEF CleanupStreams, CloseAllStreams, CloseWithError, RegistryTypeOK
  <2>2. StreamTypeOK'
    BY <1>23 DEF CleanupStreams, CloseAllStreams, CloseWithError, StreamTypeOK, Errors, LoopTypeOK
  <2>3. LoopTypeOK'
    BY <1>23 DEF CleanupStreams, CloseAllStreams, CloseWithError, LoopTypeOK, LoopStates, Errors
  <2> QED
    BY <1>23, <2>1, <2>2, <2>3, UnchangedType DEF CleanupStreams, CloseAllStreams, CloseWithError
<1>24. ASSUME CallbackReturns PROVE TypeOK'
  <2>1. LoopTypeOK'
    BY <1>24 DEF CallbackReturns, loopUnchanged, LoopTypeOK, LoopStates, Errors
  <2> QED
    BY <1>24, <2>1, UnchangedType DEF CallbackReturns, loopUnchanged
<1>25. ASSUME NEW i \in Sids, NEW k \in ServerKinds, ServerWrites(i, k) PROVE TypeOK'
  <2> DEFINE f == [sid |-> i, kind |-> k, n |-> Len(sent[i]) + 1]
  <2>1. f \in Frames
    BY KindsAssumption DEF Frames, NetTypeOK
  <2>2. inbox' = Append(inbox, f) /\ sent' = [sent EXCEPT ![i] = Append(@, f)]
    BY <1>25 DEF ServerWrites, FrameArrives
  <2> HIDE DEF f
  <2>3. NetTypeOK'
    BY <1>25, <2>1, <2>2 DEF ServerWrites, FrameArrives, NetTypeOK
  <2> QED
    BY <1>25, <2>3, UnchangedType DEF ServerWrites, FrameArrives
<1>26. ASSUME ServerHangsUp PROVE TypeOK'
  <2>1. NetTypeOK'
    BY <1>26 DEF ServerHangsUp, NetTypeOK
  <2> QED
    BY <1>26, <2>1, UnchangedType DEF ServerHangsUp
<1>27. ASSUME UNCHANGED vars PROVE TypeOK'
  BY <1>27, UnchangedType DEF vars
<1> QED
  BY <1>1, <1>2, <1>3, <1>4, <1>5, <1>6, <1>7, <1>8, <1>9, <1>10, <1>11, <1>12, <1>13,
     <1>14, <1>15, <1>16, <1>17, <1>18, <1>19, <1>20, <1>21, <1>22, <1>23, <1>24, <1>25,
     <1>26, <1>27
  DEF Moves, CallStep, AppStep, LoopStep, ServerActs, RunClose, UserClose

\* In every behaviour every variable has its type, and a stream never buffers
\* more frames than the capacity it was made with.
THEOREM TypeCorrect == Spec => []TypeOK
  BY InitType, NextType, SpecMoves, PTL

-----------------------------------------------------------------------------
(* The client is closed for good before the on-close callback runs.        *)

\* The strengthening: what Close has done by each stage of closeOnce, and
\* that run passes it before it cleans up.
CloseInv ==
  /\ closeOnce # "unused" => ctxDone
  /\ closeOnce = "used" => connClosed
  /\ rl \in {"callback", "exited"} =>
       closeOnce = "used" /\ \A i \in Sids : streams[i] = NoCall

LEMMA CloseInvInit == Init => CloseInv
  BY DEF Init, CloseInv

\* What the steps of calls do that matters to CloseInv: a stream is registered
\* only while the client is open, and any other change unregisters one.
LEMMA CallsKeepClosed ==
  ASSUME TypeOK, NEW c \in Calls,
         CallStep(c) \/ AppStep(c) \/ SendRequest(c)
  PROVE  /\ UNCHANGED <<ctxDone, closeOnce, connClosed, rl>>
         /\ ctxDone => \A i \in Sids : streams'[i] \in {streams[i], NoCall}
<1> USE DEF closeVars, loopVars, registryVars, appVars, DeleteStream
<1>1. CASE AcquireSendLock(c)
  BY <1>1 DEF AcquireSendLock
<1>2. CASE RegisterStream(c)
  BY <1>2 DEF RegisterStream, CreateRefused
<1>3. CASE SendRequest(c)
  BY <1>3 DEF SendRequest
<1>4. CASE UnaryReceive(c) \/ UnaryFail(c)
  BY <1>4 DEF UnaryReceive, UnaryFail
<1>5. CASE UnaryReturn(c)
  BY <1>5 DEF UnaryReturn, DeferredDelete, TypeOK, RegistryTypeOK, CallTypeOK
<1>6. CASE RecvMsgBegin(c) \/ RecvMsgFail(c)
  BY <1>6 DEF RecvMsgBegin, RecvMsgFail
<1>7. CASE RecvMsgTake(c)
  BY <1>7 DEF RecvMsgTake, TypeOK, RegistryTypeOK, CallTypeOK
<1>8. CASE SendMsg(c) \/ CloseSend(c) \/ CallCtxDone(c)
  BY <1>8 DEF SendMsg, CloseSend, CallCtxDone
<1> QED
  BY <1>1, <1>2, <1>3, <1>4, <1>5, <1>6, <1>7, <1>8 DEF CallStep, AppStep

LEMMA CloseInvNext == TypeOK /\ CloseInv /\ [Moves]_vars => CloseInv'
<1> SUFFICES ASSUME TypeOK, CloseInv, [Moves]_vars PROVE CloseInv'
  OBVIOUS
<1> USE DEF CloseInv
<1>1. ASSUME NEW c \in Calls, CallStep(c) \/ AppStep(c) \/ SendRequest(c) PROVE CloseInv'
  BY <1>1, CallsKeepClosed
<1>2. CASE CancelCtx
  BY <1>2 DEF CancelCtx, registryVars, loopVars
<1>3. CASE CloseConn
  BY <1>3 DEF CloseConn, registryVars, loopVars
<1> USE DEF loopUnchanged, closeVars, registryVars
<1>4. CASE LoopTop \/ ReceiveError \/ ReceiveCheck \/ Deliver
  BY <1>4 DEF LoopTop, ReceiveError, ReceiveCheck, ClosedCheck, Deliver
<1>5. CASE ReceiveFrame \/ Drop \/ WaitForRoom \/ ReceiveTimeout
  BY <1>5 DEF ReceiveFrame, Drop, WaitForRoom, ReceiveTimeout, TimerFires
<1>6. CASE CleanupStreams
  BY <1>6 DEF CleanupStreams, CloseAllStreams
<1>7. CASE CallbackReturns
  BY <1>7 DEF CallbackReturns
<1>8. CASE ServerActs
  BY <1>8 DEF ServerActs, ServerWrites, FrameArrives, ServerHangsUp, loopVars
<1>9. CASE UNCHANGED vars
  BY <1>9 DEF vars, loopVars
<1> QED
  BY <1>1, <1>2, <1>3, <1>4, <1>5, <1>6, <1>7, <1>8, <1>9
  DEF Moves, LoopStep, RunClose, UserClose

LEMMA CloseInvHolds == Spec => []CloseInv
  BY CloseInvInit, CloseInvNext, TypeCorrect, SpecMoves, PTL

\* Whatever calls are under way, when the on-close callback runs the context
\* is cancelled, the connection closed and no stream registered, for ever.
THEOREM CallbackAfterClose == Spec => []CallbackSeesClosedClient
<1>1. CloseInv => CallbackSeesClosedClient
  BY DEF CloseInv, CallbackSeesClosedClient
<1> QED
  BY <1>1, CloseInvHolds, PTL

-----------------------------------------------------------------------------
(* Stream ids.  The results hold as long as nextStreamID does not wrap     *)
(* around: a client that opens 2^31 streams starts again with id 1.        *)

IdsLeft == nextStreamID + 2 < SidLimit

\* The strengthening: sendLock is held from the allocation of an id until its
\* request is written, and every id is below nextStreamID and given once.
IdInv ==
  /\ 0 < nextStreamID
  /\ \A c \in Calls :
       /\ sid[c] < nextStreamID
       /\ pc[c] \in {"locked", "registered"} => sendLock = c
       /\ pc[c] \in {"registered", "waiting", "open", "recving"} => sid[c] # 0
  /\ \A c, d \in Calls : c # d /\ sid[c] # 0 => sid[c] # sid[d]
  /\ \A j \in DOMAIN wire : wire[j].kind = "request" =>
       /\ wire[j].sid < nextStreamID
       /\ \A c \in Calls : pc[c] = "registered" => wire[j].sid < sid[c]
  /\ WireIdsIncrease

LEMMA IdInvInit == Init => IdInv
  BY DEF Init, IdInv, WireIdsIncrease

\* Steps that write nothing and give no id.
LEMMA IdInvFrame ==
  ASSUME TypeOK, IdInv, UNCHANGED <<nextStreamID, sid, wire>>,
         \A d \in Calls : /\ pc'[d] \in {"locked", "registered"}
                               => pc'[d] = pc[d] /\ sendLock' = sendLock
                          /\ pc'[d] \in {"waiting", "open", "recving"}
                               => pc[d] \in {"waiting", "open", "recving"}
  PROVE  IdInv'
  BY DEF IdInv, WireIdsIncrease

LEMMA AcquireSendLockIds ==
  ASSUME TypeOK, IdInv, NEW c \in Calls, AcquireSendLock(c) PROVE IdInv'
<1>1. UNCHANGED <<nextStreamID, sid, wire>>
  BY DEF AcquireSendLock
<1>2. \A d \in Calls : pc[d] \notin {"locked", "registered"}
  BY CallsAssumption DEF AcquireSendLock, SendLockFree, IdInv
<1>3. \A d \in Calls : pc'[d] = pc[d] \/ (d = c /\ (pc'[d] = "done" \/ (pc'[d] = "locked" /\ sendLock' = c)))
  BY DEF AcquireSendLock, TypeOK, CallTypeOK
<1> QED
  BY <1>1, <1>2, <1>3 DEF IdInv, WireIdsIncrease

LEMMA WireElements ==
  ASSUME TypeOK PROVE \A j \in DOMAIN wire : wire[j].sid \in Nat
<1>1. wire \in Seq(Messages)
  BY DEF TypeOK
<1>2. ASSUME NEW j \in DOMAIN wire PROVE wire[j] \in Messages
  BY <1>1
<1> QED
  BY <1>2, SidsNat DEF Messages

LEMMA RegisterStreamIds ==
  ASSUME TypeOK, IdInv, IdsLeft, NEW c \in Calls, RegisterStream(c) PROVE IdInv'
<1> USE DEF TypeOK, CallTypeOK, RegistryTypeOK
<1>1. CASE CreateRefused
  <2>1. UNCHANGED <<nextStreamID, sid, wire>> /\ sendLock = c
        /\ \A d \in Calls : pc'[d] = IF d = c THEN "done" ELSE pc[d]
    BY <1>1 DEF RegisterStream, IdInv
  <2>2. \A d \in Calls : d # c => pc[d] \notin {"locked", "registered"}
    BY <2>1 DEF IdInv
  <2> QED
    BY <2>1, <2>2 DEF IdInv, WireIdsIncrease
<1>2. CASE ~CreateRefused
  <2>1. nextStreamID' = nextStreamID + 2 /\ nextStreamID \in Nat
    BY <1>2, NextIdNoWrap, SidsNat DEF RegisterStream, IdsLeft
  <2>2. /\ \A d \in Calls : sid'[d] = IF d = c THEN nextStreamID ELSE sid[d]
        /\ \A d \in Calls : pc'[d] = IF d = c THEN "registered" ELSE pc[d]
        /\ UNCHANGED <<wire, sendLock>> /\ sendLock = c
    BY <1>2 DEF RegisterStream, IdInv
  <2>3. \A d \in Calls : d # c => pc[d] \notin {"locked", "registered"}
    BY <2>2 DEF IdInv
  <2>4. \A d \in Calls : sid[d] \in Nat /\ sid[d] < nextStreamID
    BY SidsNat DEF IdInv
  <2>5. \A j \in DOMAIN wire : wire[j].sid \in Nat
    BY WireElements
  <2>6. \A a, b \in Calls : a # b /\ sid'[a] # 0 => sid'[a] # sid'[b]
    <3> SUFFICES ASSUME NEW a \in Calls, NEW b \in Calls, a # b, sid'[a] # 0
                 PROVE  sid'[a] # sid'[b]
      OBVIOUS
    <3>1. sid[a] < nextStreamID /\ sid[b] < nextStreamID /\ sid[a] \in Nat /\ sid[b] \in Nat
      BY <2>4
    <3>2. CASE a = c \/ b = c
      BY <2>1, <2>2, <3>1, <3>2
    <3>3. CASE a # c /\ b # c
      BY <2>2, <3>3 DEF IdInv
    <3> QED
      BY <3>2, <3>3
  <2>7. \A j \in DOMAIN wire' : wire'[j].kind = "request" =>
          /\ wire'[j].sid < nextStreamID'
          /\ \A d \in Calls : pc'[d] = "registered" => wire'[j].sid < sid'[d]
    <3> SUFFICES ASSUME NEW j \in DOMAIN wire, wire[j].kind = "request"
                 PROVE  /\ wire[j].sid < nextStreamID'
                        /\ \A d \in Calls : pc'[d] = "registered" => wire[j].sid < sid'[d]
      BY <2>2
    <3>1. wire[j].sid < nextStreamID /\ wire[j].sid \in Nat
      BY <2>5 DEF IdInv
    <3>2. \A d \in Calls : pc'[d] = "registered" => d = c /\ sid'[d] = nextStreamID
      BY <2>2, <2>3
    <3> QED
      BY <2>1, <3>1, <3>2
  <2>8. \A d \in Calls :
          /\ sid'[d] < nextStreamID'
          /\ pc'[d] \in {"locked", "registered"} => sendLock' = d
          /\ pc'[d] \in {"registered", "waiting", "open", "recving"} => sid'[d] # 0
    BY <2>1, <2>2, <2>3, <2>4 DEF IdInv
  <2> QED
    BY <2>1, <2>2, <2>6, <2>7, <2>8 DEF IdInv, WireIdsIncrease
<1> QED
  BY <1>1, <1>2

\* Appending a message that is not a request.
LEMMA OtherMessageIds ==
  ASSUME TypeOK, IdInv, NEW c \in Calls, NEW k \in WireKinds, k # "request",
         wire' = Append(wire, [sid |-> sid[c], kind |-> k]),
         UNCHANGED <<nextStreamID, sendLock, pc, sid>>
  PROVE  IdInv'
<1>1. wire \in Seq(Messages)
  BY DEF TypeOK
<1>2. \A j \in DOMAIN wire' : wire'[j].kind = "request" => j \in DOMAIN wire /\ wire'[j] = wire[j]
  BY <1>1
<1> QED
  BY <1>2 DEF IdInv, WireIdsIncrease

LEMMA SendRequestIds ==
  ASSUME TypeOK, IdInv, NEW c \in Calls, SendRequest(c) PROVE IdInv'
<1>1. UNCHANGED <<nextStreamID, sid>> /\ pc[c] = "registered" /\ sendLock = c /\ sid[c] # 0
  BY DEF SendRequest, IdInv
<1>2. \A d \in Calls : d # c => pc[d] \notin {"locked", "registered"}
  BY <1>1 DEF IdInv
<1>3. \A d \in Calls : pc'[d] = pc[d] \/ (d = c /\ pc'[d] \in {"waiting", "open", "done"})
  BY DEF SendRequest, RequestWritten, RequestFailed, TypeOK, CallTypeOK
<1>4. \A d \in Calls : pc'[d] \notin {"locked", "registered"}
  BY <1>1, <1>2, <1>3 DEF SendRequest, RequestWritten, RequestFailed, TypeOK, CallTypeOK
<1>5. CASE UNCHANGED wire
  BY <1>1, <1>3, <1>4, <1>5 DEF IdInv, WireIdsIncrease
<1>6. CASE wire' = Append(wire, [sid |-> sid[c], kind |-> "request"])
  <2>1. wire \in Seq(Messages)
    BY DEF TypeOK
  <2>2. Len(wire) \in Nat /\ DOMAIN wire = 1 .. Len(wire) /\ DOMAIN wire' = 1 .. Len(wire) + 1
    BY <1>6, <2>1
  <2>3. \A j \in DOMAIN wire' :
          \/ j \in DOMAIN wire /\ wire'[j] = wire[j]
          \/ j = Len(wire) + 1 /\ wire'[j] = [sid |-> sid[c], kind |-> "request"]
    BY <1>6, <2>1, <2>2
  <2>4. \A j \in DOMAIN wire : wire[j].kind = "request" => wire[j].sid < sid[c]
    BY <1>1 DEF IdInv
  <2>5. \A j \in DOMAIN wire' : wire'[j].kind = "request" => wire'[j].sid < nextStreamID'
    BY <1>1, <2>3 DEF IdInv
  <2>6. WireIdsIncrease'
    BY <2>2, <2>3, <2>4 DEF IdInv, WireIdsIncrease
  <2> QED
    BY <1>1, <1>3, <1>4, <2>5, <2>6 DEF IdInv
<1> QED
  BY <1>5, <1>6 DEF SendRequest, RequestWritten, RequestFailed

LEMMA IdInvNext == TypeOK /\ IdInv /\ IdsLeft /\ [Moves]_vars => IdInv'
<1> SUFFICES ASSUME TypeOK, IdInv, IdsLeft, [Moves]_vars PROVE IdInv'
  OBVIOUS
<1> USE DEF TypeOK, CallTypeOK, registryVars, appVars
<1>1. ASSUME NEW c \in Calls, AcquireSendLock(c) \/ RegisterStream(c) \/ SendRequest(c)
      PROVE  IdInv'
  BY <1>1, AcquireSendLockIds, RegisterStreamIds, SendRequestIds
<1>2. ASSUME NEW c \in Calls, SendMsg(c) PROVE IdInv'
  BY <1>2, OtherMessageIds DEF SendMsg, Send, WireKinds
<1>3. ASSUME NEW c \in Calls, CloseSend(c) PROVE IdInv'
  BY <1>3, OtherMessageIds DEF CloseSend, Send, WireKinds
<1>4. ASSUME NEW c \in Calls, UnaryReceive(c) \/ UnaryFail(c) PROVE IdInv'
  BY <1>4, IdInvFrame DEF UnaryReceive, UnaryFail
<1>5. ASSUME NEW c \in Calls, UnaryReturn(c) PROVE IdInv'
  BY <1>5, IdInvFrame DEF UnaryReturn
<1>6. ASSUME NEW c \in Calls, RecvMsgBegin(c) \/ RecvMsgFail(c) PROVE IdInv'
  BY <1>6, IdInvFrame DEF RecvMsgBegin, RecvMsgFail
<1>7. ASSUME NEW c \in Calls, RecvMsgTake(c) PROVE IdInv'
  BY <1>7, IdInvFrame DEF RecvMsgTake
<1>8. ASSUME NEW c \in Calls, CallCtxDone(c) PROVE IdInv'
  BY <1>8, IdInvFrame DEF CallCtxDone
<1>9. CASE LoopStep
  BY <1>9, IdInvFrame
  DEF LoopStep, loopUnchanged, LoopTop, ReceiveFrame, ReceiveError, ReceiveCheck, Deliver, Drop,
      WaitForRoom, ReceiveTimeout, RunClose, CancelCtx, CleanupStreams, CallbackReturns
<1>10. CASE CloseConn \/ UserClose
  BY <1>10, IdInvFrame DEF CloseConn, UserClose, CancelCtx
<1>11. CASE ServerActs
  BY <1>11, IdInvFrame DEF ServerActs, ServerWrites, FrameArrives, ServerHangsUp
<1>12. CASE UNCHANGED vars
  BY <1>12, IdInvFrame DEF vars
<1> QED
  BY <1>1, <1>2, <1>3, <1>4, <1>5, <1>6, <1>7, <1>8, <1>9, <1>10, <1>11, <1>12
  DEF Moves, CallStep, AppStep

LEMMA IdInvHolds == Spec /\ []IdsLeft => []IdInv
  BY IdInvInit, IdInvNext, TypeCorrect, SpecMoves, PTL

\* However many goroutines open streams at the same time, the ids of the
\* requests on the wire increase, until the ids are used up.
THEOREM RequestIdsIncrease == Spec /\ []IdsLeft => []WireIdsIncrease
<1>1. IdInv => WireIdsIncrease
  BY DEF IdInv
<1> QED
  BY <1>1, IdInvHolds, PTL

-----------------------------------------------------------------------------
(* No call is forgotten.                                                   *)

Live(c) == pc[c] \in {"registered", "waiting", "open", "recving"}

\* The strengthening: when run cleans up, it has an error to close streams with.
WakeInv ==
  /\ NoCallForgotten
  /\ rl = "closing" => rlErr # "none"

LEMMA WakeInvInit == Init => WakeInv
  BY DEF Init, WakeInv, NoCallForgotten

\* Steps that leave the registry alone and make no call live.
LEMMA WakeInvFrame ==
  ASSUME WakeInv, UNCHANGED <<streams, sid>>,
         rl' = "closing" => rlErr' # "none",
         \A d \in Calls : /\ recvErr'[d] = "none" => recvErr[d] = "none"
                          /\ Live(d)' => Live(d)
  PROVE  WakeInv'
  BY DEF WakeInv, NoCallForgotten, Live

LEMMA RegisterStreamWake ==
  ASSUME TypeOK, IdInv, WakeInv, NEW c \in Calls, RegisterStream(c) PROVE WakeInv'
<1> USE DEF TypeOK, CallTypeOK, RegistryTypeOK
<1>1. UNCHANGED <<recvErr, rl, rlErr>>
  BY DEF RegisterStream, loopVars
<1>2. CASE CreateRefused
  <2>1. \A d \in Calls : Live(d)' => Live(d)
    BY <1>2 DEF RegisterStream, Live
  <2> QED
    BY <1>1, <1>2, <2>1, WakeInvFrame DEF RegisterStream, WakeInv
<1>3. CASE ~CreateRefused
  <2>1. /\ \A d \in Calls : sid'[d] = IF d = c THEN nextStreamID ELSE sid[d]
        /\ \A d \in Calls : d # c => pc'[d] = pc[d]
        /\ \A i \in Sids : streams'[i] = IF i = nextStreamID THEN c ELSE streams[i]
    BY <1>3 DEF RegisterStream
  <2>2. \A d \in Calls : sid[d] # nextStreamID /\ sid[d] \in Sids
    BY SidsNat DEF IdInv
  <2>3. ASSUME NEW d \in Calls, Live(d)', recvErr'[d] = "none" PROVE streams'[sid'[d]] = d
    BY SMTT(30), <1>1, <2>1, <2>2, <2>3 DEF WakeInv, NoCallForgotten, Live
  <2> QED
    BY <1>1, <2>3 DEF WakeInv, NoCallForgotten, Live
<1> QED
  BY <1>2, <1>3

\* deleteStream unregisters the id of its own stream, and closes that stream.
LEMMA DeleteStreamWake ==
  ASSUME TypeOK, IdInv, WakeInv, NEW c \in Calls, DeleteStream(c),
         UNCHANGED <<sid, rl, rlErr>>, \A d \in Calls : Live(d)' => Live(d)
  PROVE  WakeInv'
<1> USE DEF TypeOK, CallTypeOK, RegistryTypeOK
<1>1. /\ \A i \in Sids : streams'[i] = IF i = sid[c] THEN NoCall ELSE streams[i]
      /\ recvErr'[c] # "none" /\ \A d \in Calls : d # c => recvErr'[d] = recvErr[d]
  BY DEF DeleteStream, CloseWithError, StreamTypeOK
<1>2. ASSUME NEW d \in Calls, Live(d)', recvErr'[d] = "none" PROVE streams'[sid'[d]] = d
  <2>1. d # c /\ Live(d) /\ recvErr[d] = "none" /\ sid[d] # 0
    BY <1>1, <1>2 DEF IdInv, Live
  <2>2. sid[d] # sid[c] /\ streams[sid[d]] = d
    BY <2>1 DEF IdInv, WakeInv, NoCallForgotten, Live
  <2> QED
    BY <1>1, <2>2
<1> QED
  BY <1>2 DEF WakeInv, NoCallForgotten, Live

LEMMA CleanupWake ==
  ASSUME TypeOK, WakeInv, CleanupStreams PROVE WakeInv'
<1>1. UNCHANGED <<pc, sid>> /\ rlErr # "none" /\ rl' = "callback"
  BY DEF CleanupStreams, appVars, WakeInv
<1>2. ASSUME NEW d \in Calls, Live(d), recvErr[d] = "none" PROVE recvErr'[d] # "none"
  <2>1. streams[sid[d]] = d /\ sid[d] \in Sids
    BY <1>2 DEF WakeInv, NoCallForgotten, Live, TypeOK, CallTypeOK
  <2>2. recvErr'[d] = rlErr
    BY <1>2, <2>1 DEF CleanupStreams, CloseAllStreams, CloseWithError, TypeOK, StreamTypeOK
  <2> QED
    BY <1>1, <2>2
<1>3. ASSUME NEW d \in Calls, recvErr[d] # "none" PROVE recvErr'[d] # "none"
  BY <1>3 DEF CleanupStreams, CloseAllStreams, CloseWithError, TypeOK, StreamTypeOK
<1> QED
  BY <1>1, <1>2, <1>3 DEF WakeInv, NoCallForgotten, Live

LEMMA WakeInvNext == TypeOK /\ IdInv /\ IdsLeft /\ WakeInv /\ [Moves]_vars => WakeInv'
<1> SUFFICES ASSUME TypeOK, IdInv, WakeInv, [Moves]_vars PROVE WakeInv'
  OBVIOUS
<1> USE DEF TypeOK, CallTypeOK, StreamTypeOK, Live, WakeInv, registryVars, appVars, loopVars
<1>1. ASSUME NEW c \in Calls, AcquireSendLock(c) PROVE WakeInv'
  BY <1>1, WakeInvFrame DEF AcquireSendLock
<1>2. ASSUME NEW c \in Calls, RegisterStream(c) PROVE WakeInv'
  BY <1>2, RegisterStreamWake
<1>3. ASSUME NEW c \in Calls, SendRequest(c) PROVE WakeInv'
  BY <1>3, WakeInvFrame DEF SendRequest, RequestWritten, RequestFailed
<1>4. ASSUME NEW c \in Calls, UnaryReceive(c) \/ UnaryFail(c) PROVE WakeInv'
  BY <1>4, WakeInvFrame DEF UnaryReceive, UnaryFail
<1>5. ASSUME NEW c \in Calls, UnaryReturn(c) PROVE WakeInv'
  BY <1>5, DeleteStreamWake DEF UnaryReturn, DeferredDelete
<1>6. ASSUME NEW c \in Calls, RecvMsgBegin(c) \/ RecvMsgFail(c) PROVE WakeInv'
  BY <1>6, WakeInvFrame DEF RecvMsgBegin, RecvMsgFail
<1>7. ASSUME NEW c \in Calls, RecvMsgTake(c) PROVE WakeInv'
  <2>1. \A d \in Calls : Live(d)' => Live(d)
    BY <1>7 DEF RecvMsgTake
  <2>2. CASE DeleteStream(c)
    BY <1>7, <2>1, <2>2, DeleteStreamWake DEF RecvMsgTake
  <2>3. CASE UNCHANGED <<streams, recvErr>>
    BY <1>7, <2>1, <2>3, WakeInvFrame DEF RecvMsgTake
  <2> QED
    BY <1>7, <2>2, <2>3 DEF RecvMsgTake
<1>8. ASSUME NEW c \in Calls, SendMsg(c) \/ CloseSend(c) \/ CallCtxDone(c) PROVE WakeInv'
  BY <1>8, WakeInvFrame DEF SendMsg, CloseSend, CallCtxDone
<1>9. CASE CleanupStreams
  BY <1>9, CleanupWake
<1> USE DEF loopUnchanged, CloseWithError
<1>10. CASE ReceiveFrame
  BY <1>10, WakeInvFrame DEF ReceiveFrame
<1>11. CASE ReceiveTimeout
  BY <1>11, WakeInvFrame DEF ReceiveTimeout
<1>12. CASE LoopTop \/ ReceiveError \/ ReceiveCheck \/ Deliver
  BY <1>12, WakeInvFrame DEF LoopTop, ReceiveError, FilterCloseErr, ReceiveCheck,
      ClosedCheck, Deliver
<1>13. CASE Drop \/ WaitForRoom \/ CallbackReturns
  BY <1>13, WakeInvFrame DEF Drop, WaitForRoom, CallbackReturns
<1>14. CASE CancelCtx \/ CloseConn
  BY <1>14, WakeInvFrame DEF CancelCtx, CloseConn
<1>15. CASE ServerActs
  BY <1>15, WakeInvFrame DEF ServerActs, ServerWrites, FrameArrives, ServerHangsUp
<1>16. CASE UNCHANGED vars
  BY <1>16, WakeInvFrame DEF vars
<1> QED
  BY <1>1, <1>2, <1>3, <1>4, <1>5, <1>6, <1>7, <1>8, <1>9, <1>10, <1>11, <1>12, <1>13, <1>14,
     <1>15, <1>16
  DEF Moves, CallStep, AppStep, LoopStep, RunClose, UserClose

\* As long as ids are left, the stream of every unfinished call is registered
\* under its own id or closed: nobody waits for a frame that cannot come.
THEOREM CallsReachable == Spec /\ []IdsLeft => []NoCallForgotten
<1>1. WakeInv => NoCallForgotten
  BY DEF WakeInv
<1> QED
  BY <1>1, WakeInvInit, WakeInvNext, IdInvHolds, TypeCorrect, SpecMoves, PTL

\* So nothing waits on an open stream once run has cleaned up.
THEOREM CleanupWakesEveryCall ==
  Spec /\ []IdsLeft =>
    [](rl \in {"callback", "exited"} => \A c \in Calls : Live(c) => recvErr[c] # "none")
<1>1. TypeOK /\ NoCallForgotten /\ CallbackSeesClosedClient =>
        (rl \in {"callback", "exited"} => \A c \in Calls : Live(c) => recvErr[c] # "none")
  BY CallsAssumption
  DEF NoCallForgotten, CallbackSeesClosedClient, Live, TypeOK, CallTypeOK
<1> QED
  BY <1>1, TypeCorrect, CallsReachable, CallbackAfterClose, PTL
=============================================================================
