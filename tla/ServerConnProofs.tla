-------------------------- MODULE ServerConnProofs --------------------------
(***************************************************************************)
(* Theorems about ServerConn for every set of ids, every buffer size and   *)
(* every bound, with their proofs.                                         *)
(***************************************************************************)
EXTENDS ServerConn, FiniteSetTheorems, TLAPS

-----------------------------------------------------------------------------
(* Type correctness.                                                       *)

LEMMA CapacityType == \A s \in Sids : Capacity(s) \in Nat \ {0}
  BY BoundsAssumption DEF Capacity

LEMMA FrameIsSome == NoFrame \notin Frames /\ NoFrame \notin Responses
<1>1. \A f \in Frames : f.kind # "none"
  BY DEF Frames, Kinds
<1>2. \A f \in Responses : f.kind # "none"
  BY DEF Responses, Terminal
<1> QED
  BY <1>1, <1>2 DEF NoFrame

LEMMA InitType == Init => TypeOK
<1> SUFFICES ASSUME Init PROVE TypeOK
  OBVIOUS
<1> USE DEF Init
<1>1. NetTypeOK
  BY DEF NetTypeOK
<1>2. ReceiverTypeOK
  BY DEF ReceiverTypeOK
<1>3. MapTypeOK
  BY DEF MapTypeOK
<1>4. MainTypeOK
  BY DEF MainTypeOK
<1>5. CloseTypeOK
  BY DEF CloseTypeOK
<1>6. StreamTypeOK
  BY CapacityType DEF StreamTypeOK
<1>7. HandlerTypeOK
  BY DEF HandlerTypeOK
<1> QED
  BY <1>1, <1>2, <1>3, <1>4, <1>5, <1>6, <1>7 DEF TypeOK

\* A step keeps the type of the variables it leaves alone.
LEMMA UnchangedType ==
  ASSUME TypeOK
  PROVE  /\ UNCHANGED netVars => NetTypeOK'
         /\ UNCHANGED recvVars => ReceiverTypeOK'
         /\ UNCHANGED mapVars => MapTypeOK'
         /\ UNCHANGED <<mainVars, outbox>> => MainTypeOK'
         /\ UNCHANGED <<closeVars, recvErr, done>> => CloseTypeOK'
         /\ UNCHANGED streamVars => StreamTypeOK'
         /\ UNCHANGED <<handlerVars, ctxDone>> => HandlerTypeOK'
<1> USE DEF TypeOK
<1>1. UNCHANGED netVars => NetTypeOK'
  BY DEF NetTypeOK, netVars
<1>2. UNCHANGED recvVars => ReceiverTypeOK'
  BY DEF ReceiverTypeOK, recvVars
<1>3. UNCHANGED mapVars => MapTypeOK'
  BY DEF MapTypeOK, mapVars
<1>4. UNCHANGED <<mainVars, outbox>> => MainTypeOK'
  BY DEF MainTypeOK, mainVars
<1>5. UNCHANGED <<closeVars, recvErr, done>> => CloseTypeOK'
  BY DEF CloseTypeOK, closeVars
<1>6. UNCHANGED streamVars => StreamTypeOK'
  BY DEF StreamTypeOK, streamVars
<1>7. UNCHANGED <<handlerVars, ctxDone>> => HandlerTypeOK'
  BY DEF HandlerTypeOK, handlerVars
<1> QED
  BY <1>1, <1>2, <1>3, <1>4, <1>5, <1>6, <1>7

\* What TakeFrame takes from the inbox.
LEMMA HeadType ==
  ASSUME TypeOK, inbox # <<>>
  PROVE  Head(inbox) \in Frames /\ Tail(inbox) \in Seq(Frames)
  BY DEF TypeOK, NetTypeOK

\* The receiver takes a frame and looks at it.
LEMMA ReceiveType ==
  ASSUME TypeOK, ReceiveMalformed \/ ReceiveData \/ ReceiveRequest \/ ReceiveOther
  PROVE  TypeOK'
<1> DEFINE f == Head(inbox)
<1>1. TakeFrame(f)
  BY DEF ReceiveMalformed, ReceiveData, ReceiveRequest, ReceiveOther
<1>2. f \in Frames /\ Tail(inbox) \in Seq(Frames) /\ f # NoFrame
  BY <1>1, HeadType, FrameIsSome DEF TakeFrame
<1>3. f.sid \in Sids
  BY <1>2 DEF Frames
<1> HIDE DEF f
<1>4. NetTypeOK'
  BY <1>1, <1>2 DEF TakeFrame, NetTypeOK, TypeOK
<1>5. cur' = f
  BY <1>1 DEF TakeFrame
<1>6. ReceiverTypeOK'
  <2> USE <1>2, <1>3, <1>5 DEF TypeOK, ReceiverTypeOK, Refuse, Proceed
  <2>1. CASE ReceiveMalformed
    BY <2>1 DEF ReceiveMalformed, f
  <2>2. CASE ReceiveData
    BY <2>2 DEF ReceiveData, f
  <2>3. CASE ReceiveRequest
    BY SMTT(30), <2>3 DEF ReceiveRequest, StartHandler, f
  <2>4. CASE ReceiveOther
    BY <2>4 DEF ReceiveOther, f
  <2> QED
    BY <2>1, <2>2, <2>3, <2>4
<1>7. MapTypeOK' /\ MainTypeOK' /\ CloseTypeOK'
  BY <1>1, UnchangedType DEF TakeFrame
<1>8. StreamTypeOK'
  BY <1>3 DEF TypeOK, StreamTypeOK, streamVars, f,
       ReceiveMalformed, ReceiveData, ReceiveRequest, ReceiveOther
<1>9. HandlerTypeOK'
  BY <1>1, <1>3 DEF TypeOK, HandlerTypeOK, handlerVars, f, TakeFrame, StartHandler,
       ReceiveMalformed, ReceiveData, ReceiveRequest, ReceiveOther
<1> QED
  BY <1>4, <1>6, <1>7, <1>8, <1>9 DEF TypeOK

\* The receiver delivers a message, and its other steps.
LEMMA DeliverType ==
  ASSUME TypeOK, DataAccepted
  PROVE  TypeOK'
<1>1. cur \in Frames /\ cur.sid \in Sids
  BY DEF DataAccepted, TypeOK, ReceiverTypeOK, Frames
<1>2. ReceiverTypeOK'
  BY <1>1 DEF DataAccepted, Refuse, Proceed, TypeOK, ReceiverTypeOK
<1>3. StreamTypeOK'
  <2>1. recvq[cur.sid] \in Seq(Frames) /\ Capacity(cur.sid) \in Nat
    BY <1>1, CapacityType DEF TypeOK, StreamTypeOK
  <2>2. /\ Append(recvq[cur.sid], cur) \in Seq(Frames)
        /\ Len(Append(recvq[cur.sid], cur)) <= Capacity(cur.sid)
    BY <1>1, <2>1 DEF DataAccepted, HasRoom
  <2>3. recvq' = [recvq EXCEPT ![cur.sid] = Append(@, cur)]
    BY DEF DataAccepted
  <2>4. recvq' \in [Sids -> Seq(Frames)] /\ \A s \in Sids : Len(recvq'[s]) <= Capacity(s)
    BY <1>1, <2>2, <2>3 DEF TypeOK, StreamTypeOK
  <2>5. remoteClosed' \subseteq Sids
    BY <1>1 DEF DataAccepted, TypeOK, StreamTypeOK
  <2> QED
    BY <2>4, <2>5 DEF StreamTypeOK, Capacity
<1> QED
  BY <1>2, <1>3, UnchangedType DEF TypeOK, DataAccepted

LEMMA ReceiverType ==
  ASSUME TypeOK, Receiver
  PROVE  TypeOK'
<1>1. CASE ReceiverTop \/ ReceiveFails
  <2>1. ReceiverTypeOK' /\ CloseTypeOK'
    BY <1>1 DEF ReceiverTop, ReceiveFails, ReceiverExits, receiverOnly, closeVars,
         TypeOK, ReceiverTypeOK, CloseTypeOK, NetTypeOK
  <2> QED
    BY <1>1, <2>1, UnchangedType DEF TypeOK, ReceiverTop, ReceiveFails, receiverOnly
<1>2. CASE DataAborted \/ DataWaits \/ DataFull
  <2>1. ReceiverTypeOK'
    BY <1>2 DEF DataAborted, DataWaits, DataFull, TimerFires, FullRefused, Refuse,
         receiverOnly, TypeOK, ReceiverTypeOK, Frames
  <2> QED
    BY <1>2, <2>1, UnchangedType DEF TypeOK, DataAborted, DataWaits, DataFull, receiverOnly
<1>3. CASE StoreStream \/ CountStream
  <2>1. ReceiverTypeOK' /\ MapTypeOK'
    BY <1>3 DEF StoreStream, CountStream, Proceed, receiverOnly, TypeOK, ReceiverTypeOK,
         MapTypeOK, Frames
  <2> QED
    BY <1>3, <2>1, UnchangedType DEF TypeOK, StoreStream, CountStream, receiverOnly
<1>4. CASE StatusAborted
  <2>1. ReceiverTypeOK' /\ CloseTypeOK'
    BY <1>4 DEF StatusAborted, ReceiverExits, receiverOnly, closeVars, TypeOK,
         ReceiverTypeOK, CloseTypeOK
  <2> QED
    BY <1>4, <2>1, UnchangedType DEF TypeOK, StatusAborted, receiverOnly
<1> QED
  BY <1>1, <1>2, <1>3, <1>4, ReceiveType, DeliverType DEF Receiver

LEMMA MainType ==
  ASSUME TypeOK, Main
  PROVE  TypeOK'
<1> USE DEF mainOnly
<1>1. CASE MainTop
  <2>1. MainTypeOK'
    BY <1>1 DEF MainTop, TypeOK, MainTypeOK
  <2> QED
    BY <1>1, <2>1, UnchangedType DEF TypeOK, MainTop
<1>2. CASE TakeStatus
  <2>1. cur.sid \in Sids
    BY <1>2 DEF TakeStatus, TypeOK, ReceiverTypeOK, Frames
  <2>2. mresp' \in Responses /\ mresp' # NoFrame
    BY <1>2, <2>1, FrameIsSome DEF TakeStatus, Responses, Terminal
  <2>3. MainTypeOK' /\ ReceiverTypeOK'
    BY <1>2, <2>2 DEF TakeStatus, TypeOK, MainTypeOK, ReceiverTypeOK
  <2> QED
    BY <1>2, <2>3, UnchangedType DEF TypeOK, TakeStatus
<1>3. ASSUME NEW s \in Sids, TakeResponse(s) PROVE TypeOK'
  <2>1. out[s] \in Responses /\ out[s] # NoFrame
    BY <1>3, FrameIsSome DEF TakeResponse, TypeOK, HandlerTypeOK
  <2>2. MainTypeOK'
    BY <1>3, <2>1 DEF TakeResponse, TypeOK, MainTypeOK
  <2>3. HandlerTypeOK'
    BY <1>3 DEF TakeResponse, TypeOK, HandlerTypeOK
  <2> QED
    BY <1>3, <2>2, <2>3, UnchangedType DEF TypeOK, TakeResponse
<1>4. CASE WriteResponse
  <2>1. MainTypeOK'
    <3>1. mresp \in Responses
      BY <1>4 DEF WriteResponse, TypeOK, MainTypeOK
    <3>2. outbox' \in Seq(Responses)
      BY <1>4, <3>1 DEF WriteResponse, TypeOK, MainTypeOK
    <3> QED
      BY <1>4, <3>2 DEF WriteResponse, Return, TypeOK, MainTypeOK
  <2>2. CloseTypeOK'
    BY <1>4 DEF WriteResponse, Return, TypeOK, CloseTypeOK, closeVars
  <2>3. HandlerTypeOK'
    BY <1>4 DEF WriteResponse, Return, TypeOK, HandlerTypeOK, handlerVars
  <2> QED
    BY <1>4, <2>1, <2>2, <2>3, UnchangedType DEF TypeOK, WriteResponse
<1>5. CASE FinishStream
  <2>1. MainTypeOK' /\ MapTypeOK'
    BY <1>5 DEF FinishStream, CountDown, TypeOK, MainTypeOK, MapTypeOK
  <2> QED
    BY <1>5, <2>1, UnchangedType DEF TypeOK, FinishStream
<1>6. CASE TakeRecvErr \/ MainShutdown
  <2>1. MainTypeOK' /\ CloseTypeOK' /\ HandlerTypeOK'
    BY <1>6 DEF TakeRecvErr, MainShutdown, Return, TypeOK, MainTypeOK, CloseTypeOK,
         HandlerTypeOK, closeVars, handlerVars
  <2> QED
    BY <1>6, <2>1, UnchangedType DEF TypeOK, TakeRecvErr, MainShutdown
<1> QED
  BY <1>1, <1>2, <1>3, <1>4, <1>5, <1>6 DEF Main

HandlerActs(s) ==
  HandlerStep(s) \/ RecvMsg(s) \/ SendMsg(s) \/ HandlerReturns(s) \/ ContextDone(s)

LEMMA HandlerType ==
  ASSUME TypeOK, NEW s \in Sids, HandlerActs(s)
  PROVE  TypeOK'
<1> USE DEF handlerOnly, Move
<1>1. CASE RecvMsgTakes(s)
  <2>1. /\ recvq[s] \in Seq(Frames) /\ recvq[s] # <<>> /\ read[s] \in Seq(Frames)
        /\ Capacity(s) \in Nat /\ Len(recvq[s]) <= Capacity(s)
    BY <1>1, CapacityType DEF RecvMsgTakes, TypeOK, StreamTypeOK, HandlerTypeOK
  <2>2. /\ Head(recvq[s]) \in Frames /\ Tail(recvq[s]) \in Seq(Frames)
        /\ Len(Tail(recvq[s])) <= Capacity(s) /\ Append(read[s], Head(recvq[s])) \in Seq(Frames)
    BY <2>1
  <2>3. StreamTypeOK'
    BY <1>1, <2>2 DEF RecvMsgTakes, TypeOK, StreamTypeOK
  <2>4. HandlerTypeOK'
    BY <1>1, <2>2 DEF RecvMsgTakes, TypeOK, HandlerTypeOK
  <2> QED
    BY <1>1, <2>3, <2>4, UnchangedType DEF TypeOK, RecvMsgTakes
<1>2. CASE RecvMsgEOF(s) \/ RecvMsgCancelled(s) \/ RecvMsg(s) \/ RespondAborted(s)
  <2>1. HandlerTypeOK'
    BY <1>2 DEF RecvMsgEOF, RecvMsgCancelled, RecvMsg, RespondAborted, TypeOK, HandlerTypeOK
  <2> QED
    BY <1>2, <2>1, UnchangedType
    DEF TypeOK, RecvMsgEOF, RecvMsgCancelled, RecvMsg, RespondAborted, streamVars
<1>3. ASSUME NEW k \in {"data"} \cup Terminal, Respond(s, k) PROVE TypeOK'
  <2>1. [sid |-> s, kind |-> k] \in Responses /\ [sid |-> s, kind |-> k] # NoFrame
    BY <1>3, FrameIsSome DEF Responses
  <2>2. HandlerTypeOK'
    BY <1>3, <2>1 DEF Respond, TypeOK, HandlerTypeOK
  <2> QED
    BY <1>3, <2>2, UnchangedType DEF TypeOK, Respond, streamVars
<1>4. CASE ContextDone(s)
  <2>1. HandlerTypeOK'
    BY <1>4 DEF ContextDone, TypeOK, HandlerTypeOK, handlerVars
  <2> QED
    BY <1>4, <2>1, UnchangedType DEF TypeOK, ContextDone
<1> QED
  BY <1>1, <1>2, <1>3, <1>4 DEF HandlerActs, HandlerStep, SendMsg, HandlerReturns, Terminal

\* A step of the connection, or of a client that sends what it likes when it
\* likes: no theorem depends on the bound on its frames, nor on their order.
FrameSent(s, k) == FrameArrives(s, k) /\ envOnly /\ UNCHANGED <<closeVars, peer>>
AnyEnvironment ==
  \/ SeeIdle \/ CloseIdle \/ ServerClose \/ ClientGoes
  \/ \E s \in Sids, k \in ClientKinds : FrameSent(s, k)
Moves == Receiver \/ Main \/ AnyEnvironment \/ \E s \in Sids : HandlerActs(s)

LEMMA SpecMoves == Spec => Init /\ [][Moves]_vars
<1>1. [Next]_vars => [Moves]_vars
  BY DEF Next, Moves, Environment, AnyEnvironment, ClientSends, FrameSent, HandlerActs
<1> QED
  BY <1>1, PTL DEF Spec

LEMMA EnvironmentType ==
  ASSUME TypeOK, AnyEnvironment
  PROVE  TypeOK'
<1> USE DEF envOnly
<1>1. CASE SeeIdle \/ CloseIdle \/ ServerClose
  <2>1. CloseTypeOK'
    BY <1>1 DEF SeeIdle, CloseIdle, ServerClose, TypeOK, CloseTypeOK
  <2> QED
    BY <1>1, <2>1, UnchangedType DEF TypeOK, SeeIdle, CloseIdle, ServerClose
<1>2. CASE ClientGoes
  <2>1. NetTypeOK'
    BY <1>2 DEF ClientGoes, TypeOK, NetTypeOK
  <2> QED
    BY <1>2, <2>1, UnchangedType DEF TypeOK, ClientGoes
<1>3. ASSUME NEW s \in Sids, NEW k \in ClientKinds, FrameSent(s, k) PROVE TypeOK'
  <2> DEFINE f == [sid |-> s, kind |-> k, n |-> Len(sentIn[s]) + 1]
  <2>1. f \in Frames
    BY BoundsAssumption DEF Frames, TypeOK, NetTypeOK
  <2>2. /\ inbox' = Append(inbox, f) /\ sentIn' = [sentIn EXCEPT ![s] = Append(@, f)]
        /\ peer' = peer
    BY <1>3 DEF FrameSent, FrameArrives
  <2> HIDE DEF f
  <2>3. NetTypeOK'
    BY <2>1, <2>2 DEF TypeOK, NetTypeOK
  <2> QED
    BY <1>3, <2>3, UnchangedType DEF TypeOK, FrameSent
<1> QED
  BY <1>1, <1>2, <1>3 DEF AnyEnvironment

LEMMA TypeNext == TypeOK /\ [Moves]_vars => TypeOK'
<1> SUFFICES ASSUME TypeOK, [Moves]_vars PROVE TypeOK'
  OBVIOUS
<1>1. CASE UNCHANGED vars
  BY <1>1, UnchangedType DEF vars, TypeOK
<1> QED
  BY <1>1, ReceiverType, MainType, HandlerType, EnvironmentType DEF Moves, HandlerActs

\* Every variable of a connection has its type, and a stream never buffers
\* more than the capacity its channel was made with.
THEOREM ConnTypeCorrect == Spec => []TypeOK
  BY InitType, TypeNext, SpecMoves, PTL

-----------------------------------------------------------------------------
(* Handlers start in the order of their ids.                               *)

\* No handler, started now or before, has an id above lastStreamID.
OrderInv ==
  /\ HandlersStartInIdOrder
  /\ \A i \in DOMAIN started : started[i] <= lastStreamID
  /\ \A s \in Sids : hpc[s] # "none" => s <= lastStreamID

LEMMA IdsAreNumbers ==
  /\ \A s \in Sids : s \in Nat
  /\ TypeOK => /\ lastStreamID \in Nat /\ started \in Seq(Sids)
               /\ \A i \in DOMAIN started : started[i] \in Nat
<1>1. Sids \subseteq Nat
  BY SidsAssumption
<1>2. ASSUME TypeOK PROVE started \in Seq(Sids)
  BY <1>2 DEF TypeOK, ReceiverTypeOK
<1>3. ASSUME TypeOK PROVE \A i \in DOMAIN started : started[i] \in Sids
  BY <1>2, <1>3
<1>4. ASSUME TypeOK PROVE lastStreamID \in Nat
  BY <1>1, <1>4 DEF TypeOK, ReceiverTypeOK
<1> QED
  BY <1>1, <1>2, <1>3, <1>4

\* A request that is accepted has a new id, above all those before it.
LEMMA AcceptedIsNew ==
  ASSUME TypeOK, OrderInv, NEW s \in Sids, ~IdRefused(s)
  PROVE  hpc[s] = "none" /\ \A i \in DOMAIN started : started[i] < s
<1>1. s \in Nat /\ lastStreamID \in Nat /\ s > lastStreamID
  BY IdsAreNumbers DEF IdRefused
<1>2. \A i \in DOMAIN started : started[i] \in Nat
  BY IdsAreNumbers
<1> QED
  BY <1>1, <1>2 DEF OrderInv

LEMMA OrderRequest ==
  ASSUME TypeOK, OrderInv, ReceiveRequest
  PROVE  OrderInv'
<1> DEFINE f == Head(inbox)
<1>1. f.sid \in Sids
  BY HeadType DEF ReceiveRequest, TakeFrame, Frames
<1> HIDE DEF f
<1>2. f.sid \in Nat /\ lastStreamID \in Nat
  BY <1>1, IdsAreNumbers
<1>3. started \in Seq(Sids) /\ \A i \in DOMAIN started : started[i] \in Nat
  BY IdsAreNumbers
<1>4. \A s \in Sids : s \in Nat
  BY IdsAreNumbers
<1>5. hpc \in [Sids -> {"none", "running", "receiving", "responding", "returned"}]
  BY DEF TypeOK, HandlerTypeOK
<1>6. CASE IdRefused(f.sid)
  BY <1>6 DEF ReceiveRequest, OrderInv, HandlersStartInIdOrder, f
<1>7. CASE ~IdRefused(f.sid)
  <2>1. lastStreamID' = f.sid /\ f.sid > lastStreamID
    BY <1>2, <1>7 DEF ReceiveRequest, IdRefused, f
  <2>2. CASE f.sid \in Unserved
    <3>1. UNCHANGED <<started, hpc>>
      BY <1>7, <2>2 DEF ReceiveRequest, f
    <3> QED
      BY <1>2, <1>3, <1>4, <2>1, <3>1 DEF OrderInv, HandlersStartInIdOrder
  <2>3. CASE f.sid \notin Unserved
    <3>1. started' = Append(started, f.sid) /\ hpc' = [hpc EXCEPT ![f.sid] = "running"]
      BY <1>7, <2>3 DEF ReceiveRequest, StartHandler, f
    <3>2. \A i \in DOMAIN started : started[i] < f.sid
      BY <1>1, <1>7, AcceptedIsNew
    <3>3. HandlersStartInIdOrder' /\ \A i \in DOMAIN started' : started'[i] <= f.sid
      BY <1>1, <1>2, <1>3, <3>1, <3>2 DEF OrderInv, HandlersStartInIdOrder
    <3>4. \A s \in Sids : hpc'[s] # "none" => s <= f.sid
      BY <1>1, <1>2, <1>4, <1>5, <2>1, <3>1 DEF OrderInv
    <3> QED
      BY <2>1, <3>3, <3>4 DEF OrderInv
  <2> QED
    BY <2>2, <2>3
<1> QED
  BY <1>6, <1>7

\* No other step starts a handler.
LEMMA OnlyRequestsStart ==
  ASSUME TypeOK, [Moves]_vars, ~ReceiveRequest
  PROVE  /\ UNCHANGED <<started, lastStreamID>>
         /\ \A s \in Sids : hpc'[s] # "none" => hpc[s] # "none"
<1>1. CASE UNCHANGED vars
  BY <1>1 DEF vars, recvVars, handlerVars
<1>2. CASE Receiver
  BY <1>2 DEF Receiver, ReceiverTop, ReceiveMalformed, ReceiveData, ReceiveOther, DataAccepted,
       DataAborted, DataWaits, DataFull, StoreStream, CountStream, StatusAborted, ReceiveFails,
       receiverOnly, handlerVars
<1>3. CASE AnyEnvironment
  BY <1>3 DEF AnyEnvironment, SeeIdle, CloseIdle, ServerClose, ClientGoes, FrameSent, envOnly,
       recvVars, handlerVars
<1>4. CASE Main
  BY <1>4 DEF Main, MainTop, TakeStatus, TakeResponse, WriteResponse, FinishStream, TakeRecvErr,
       MainShutdown, mainOnly, recvVars, handlerVars, TypeOK, HandlerTypeOK
<1>5. ASSUME NEW s \in Sids, HandlerActs(s)
      PROVE  /\ UNCHANGED <<started, lastStreamID>>
             /\ \A t \in Sids : hpc'[t] # "none" => hpc[t] # "none"
  BY <1>5 DEF HandlerActs, HandlerStep, RecvMsgTakes, RecvMsgEOF, RecvMsgCancelled,
       RespondAborted, RecvMsg, SendMsg, HandlerReturns, Respond, ContextDone, Move, handlerOnly,
       recvVars, handlerVars, TypeOK, HandlerTypeOK
<1> QED
  BY <1>1, <1>2, <1>3, <1>4, <1>5 DEF Moves, HandlerActs

LEMMA OrderNext == TypeOK /\ OrderInv /\ [Moves]_vars => OrderInv'
<1> SUFFICES ASSUME TypeOK, OrderInv, [Moves]_vars PROVE OrderInv'
  OBVIOUS
<1>1. CASE ReceiveRequest
  BY <1>1, OrderRequest
<1>2. CASE ~ReceiveRequest
  BY <1>2, OnlyRequestsStart DEF OrderInv, HandlersStartInIdOrder
<1> QED
  BY <1>1, <1>2

LEMMA OrderInvariant == Spec => []OrderInv
<1>1. Init => OrderInv
  BY DEF Init, OrderInv, HandlersStartInIdOrder
<1> QED
  BY <1>1, OrderNext, ConnTypeCorrect, SpecMoves, PTL

\* Handlers start in increasing order of stream ids, one at most for an id,
\* whatever requests the client repeats or sends out of order.
THEOREM HandlersInIdOrder == Spec => []HandlersStartInIdOrder
<1>1. OrderInv => HandlersStartInIdOrder
  BY DEF OrderInv
<1> QED
  BY <1>1, OrderInvariant, PTL

-----------------------------------------------------------------------------
(* The counter active.                                                     *)

Working == {s \in Sids : Running(s)}

\* The request that has been started and is not counted yet.
Uncounted ==
  IF rpc \in {"store", "count"} \/ (rpc \in {"data", "wait"} /\ cur.kind = "request")
  THEN 1 ELSE 0

\* The request whose last response the main loop is writing.
Ending == IF mpc \in {"write", "finish"} /\ mresp.kind \in Terminal THEN 1 ELSE 0

\* NoPhantomActivity, strengthened by the request that is about to be counted.
\* Only a connection that is done with lets a handler go without its response.
ActivityInv ==
  /\ done => mpc = "returned"
  /\ IsFiniteSet(Working)
  /\ mpc # "returned" => active + Uncounted <= Cardinality(Working) + Ending

LEMMA ActivityTypes ==
  ASSUME IsFiniteSet(Working)
  PROVE  Cardinality(Working) \in Nat /\ Uncounted \in {0, 1} /\ Ending \in {0, 1}
  BY FS_CardinalityType DEF Uncounted, Ending

LEMMA SameWorking ==
  ASSUME UNCHANGED hpc
  PROVE  Working' = Working
  BY DEF Working, Running

LEMMA InitActivity == Init => ActivityInv
<1> SUFFICES ASSUME Init PROVE ActivityInv
  OBVIOUS
<1>1. Working = {}
  BY DEF Init, Working, Running
<1>2. IsFiniteSet(Working) /\ Cardinality(Working) = 0
  BY <1>1, FS_EmptySet
<1>3. Uncounted = 0 /\ Ending = 0 /\ active = 0 /\ done = FALSE
  BY DEF Init, Uncounted, Ending
<1> QED
  BY <1>2, <1>3 DEF ActivityInv

\* What the bound of ActivityInv needs of the integers.
LEMMA SumBounds ==
  \A a, b, u, v, e \in Int : b + v <= a + u => b + v + e <= a + u + e
  OBVIOUS

\* A step that starts or ends no handler, and counts no more than it owed.
LEMMA ActivityKept ==
  ASSUME ActivityInv, Working' = Working, active \in Int, active' \in Int,
         mpc' # "returned" => active' + Uncounted' + Ending <= active + Uncounted + Ending',
         mpc = "returned" => mpc' = "returned", done' => mpc' = "returned"
  PROVE  ActivityInv'
<1>1. /\ Uncounted \in {0, 1} /\ Ending \in {0, 1} /\ Uncounted' \in {0, 1} /\ Ending' \in {0, 1}
      /\ Cardinality(Working) \in Nat
  BY ActivityTypes DEF ActivityInv, Uncounted, Ending
<1>2. CASE mpc' = "returned"
  BY <1>2 DEF ActivityInv
<1>3. CASE mpc' # "returned"
  <2>1. active + Uncounted <= Cardinality(Working) + Ending
    BY <1>3 DEF ActivityInv
  <2>2. /\ Uncounted \in Int /\ Ending \in Int /\ Uncounted' \in Int /\ Ending' \in Int
        /\ Cardinality(Working) \in Int
    BY <1>1
  <2>3. active' + Uncounted' + Ending <= active + Uncounted + Ending'
    BY <1>3
  <2> DEFINE a == active  b == active'
             u == Uncounted  v == Uncounted'  e == Ending  f == Ending'  c == Cardinality(Working)
  <2>4. /\ a \in Int /\ b \in Int /\ u \in Int /\ v \in Int /\ e \in Int /\ f \in Int /\ c \in Int
        /\ a + u <= c + e /\ b + v + e <= a + u + f
    BY <2>1, <2>2, <2>3
  <2> HIDE DEF a, b, u, v, e, f, c
  <2>5. b + v <= c + f
    BY <2>4
  <2> QED
    BY <1>3, <2>5 DEF ActivityInv, b, v, f, c
<1> QED
  BY <1>2, <1>3

\* A request that is accepted is owed to active from then on.
LEMMA ActivityStarts ==
  ASSUME TypeOK, OrderInv, ActivityInv, ReceiveRequest, active' \in Int
  PROVE  ActivityInv'
<1> DEFINE s == Head(inbox).sid
<1>1. s \in Sids
  BY HeadType DEF ReceiveRequest, TakeFrame, Frames
<1>2. /\ active' = active /\ done' = done /\ mpc' = mpc /\ Ending' = Ending
      /\ rpc = "recv" /\ active \in Int
  BY DEF ReceiveRequest, TakeFrame, mapVars, mainVars, Ending, TypeOK, MapTypeOK
<1>3. CASE IdRefused(s) \/ s \in Unserved
  <2>1. rpc' = "status" /\ UNCHANGED hpc
    BY <1>3 DEF ReceiveRequest, Refuse
  <2>2. Uncounted' = 0 /\ Uncounted = 0
    BY <1>2, <2>1 DEF Uncounted
  <2> QED
    BY <1>2, <2>1, <2>2, SameWorking, ActivityKept DEF ActivityInv, Ending
<1>4. CASE ~IdRefused(s) /\ s \notin Unserved
  <2>1. hpc' = [hpc EXCEPT ![s] = "running"]
    BY <1>4 DEF ReceiveRequest, StartHandler
  <2>2. hpc[s] = "none" /\ DOMAIN hpc = Sids
    BY <1>1, <1>4, AcceptedIsNew DEF TypeOK, HandlerTypeOK
  <2> HIDE DEF s
  <2>3. Working' = Working \cup {s} /\ s \notin Working
    BY <1>1, <2>1, <2>2 DEF Working, Running
  <2>4. IsFiniteSet(Working') /\ Cardinality(Working') = Cardinality(Working) + 1
    BY <2>3, FS_AddElement DEF ActivityInv
  <2>5. Uncounted' \in {0, 1} /\ Uncounted = 0 /\ Ending \in {0, 1} /\ Cardinality(Working) \in Nat
    BY <1>2, ActivityTypes DEF Uncounted, ActivityInv
  <2> QED
    BY <1>2, <2>4, <2>5 DEF ActivityInv
<1> QED
  BY <1>3, <1>4

\* The other steps of the receiver: a request that is owed is counted.
LEMMA ActivityReceiver ==
  ASSUME TypeOK, ActivityInv, Receiver, ~ReceiveRequest, active' \in Int
  PROVE  ActivityInv'
<1>1. UNCHANGED <<done, mpc, hpc>> /\ Ending' = Ending
  BY DEF Receiver, ReceiverTop, ReceiveMalformed, ReceiveData, ReceiveOther,
       TakeFrame, DataAccepted, DataAborted, DataWaits, DataFull, StoreStream, CountStream,
       StatusAborted, ReceiveFails, receiverOnly, mainVars, handlerVars, Ending
<1>2. active \in Int /\ Ending \in Int
  BY DEF TypeOK, MapTypeOK, Ending
<1>3. active' + Uncounted' <= active + Uncounted
  <2>1. CASE CountStream
    BY <1>2, <2>1 DEF CountStream, Proceed, Uncounted
  <2>2. CASE ~CountStream
    <3>1. active' = active
      BY <2>2 DEF Receiver, ReceiverTop, ReceiveMalformed, ReceiveData, ReceiveOther,
           TakeFrame, DataAccepted, DataAborted, DataWaits, DataFull, StoreStream,
           StatusAborted, ReceiveFails, receiverOnly, mapVars
    <3>2. Uncounted' <= Uncounted
      BY <2>2 DEF Receiver, ReceiverTop, ReceiverExits, ReceiveMalformed, ReceiveData,
           ReceiveOther, TakeFrame, DataAccepted, DataAborted, DataWaits, DataFull, TimerFires,
           FullRefused, StoreStream, StatusAborted, ReceiveFails, receiverOnly, Refuse, Proceed,
           DataKinds, Uncounted
    <3> QED
      BY <1>2, <3>1, <3>2 DEF Uncounted
  <2> QED
    BY <2>1, <2>2
<1>4. Uncounted \in Int /\ Uncounted' \in Int
  BY DEF Uncounted
<1>5. active' + Uncounted' + Ending <= active + Uncounted + Ending'
  BY <1>1, <1>2, <1>3, <1>4, SumBounds
<1>6. mpc = "returned" => mpc' = "returned"
  BY <1>1
<1>7. done' => mpc' = "returned"
  BY <1>1 DEF ActivityInv
<1> QED
  BY <1>1, <1>2, <1>5, <1>6, <1>7, SameWorking, ActivityKept

\* The main loop: a handler whose last response it takes goes from Working to
\* Ending, and from there out of active.
LEMMA ActivityResponse ==
  ASSUME TypeOK, ActivityInv, NEW s \in Sids, TakeResponse(s), active' \in Int
  PROVE  ActivityInv'
<1>1. /\ UNCHANGED <<active, done, rpc, cur>> /\ mpc = "select" /\ mpc' = "write"
      /\ mresp' = out[s] /\ Ending = 0 /\ hpc[s] = "responding"
  BY DEF TakeResponse, mapVars, mainOnly, recvVars, Ending
<1>2. Uncounted' = Uncounted /\ active \in Int
  BY <1>1 DEF Uncounted, TypeOK, MapTypeOK
<1>3. DOMAIN hpc = Sids
  BY DEF TypeOK, HandlerTypeOK
<1>4. CASE out[s].kind \in Terminal
  <2>1. hpc' = [hpc EXCEPT ![s] = "returned"] /\ Ending' = 1
    BY <1>1, <1>4 DEF TakeResponse, Ending
  <2>2. Working' = Working \ {s} /\ s \in Working
    BY <1>1, <1>3, <2>1 DEF Working, Running
  <2>3. IsFiniteSet(Working') /\ Cardinality(Working') = Cardinality(Working) - 1
    BY <2>2, FS_RemoveElement DEF ActivityInv
  <2>4. Uncounted \in {0, 1} /\ Cardinality(Working) \in Nat
    BY ActivityTypes DEF ActivityInv
  <2> QED
    BY <1>1, <1>2, <2>1, <2>3, <2>4 DEF ActivityInv
<1>5. CASE out[s].kind \notin Terminal
  <2>1. hpc' = [hpc EXCEPT ![s] = "running"] /\ Ending' = 0
    BY <1>1, <1>5 DEF TakeResponse, Ending
  <2>2. Working' = Working
    BY <1>1, <1>3, <2>1 DEF Working, Running
  <2> QED
    BY <1>1, <1>2, <2>1, <2>2, ActivityKept DEF ActivityInv
<1> QED
  BY <1>4, <1>5

LEMMA ActivityMain ==
  ASSUME TypeOK, ActivityInv, Main, active' \in Int
  PROVE  ActivityInv'
<1> USE DEF mainOnly, recvVars, mapVars, handlerVars
<1>1. active \in Int
  BY DEF TypeOK, MapTypeOK
<1>2. CASE MainTop \/ WriteResponse \/ TakeRecvErr \/ MainShutdown
  <2>1. UNCHANGED <<active, hpc, rpc, cur, mresp>>
    BY <1>2 DEF MainTop, WriteResponse, TakeRecvErr, MainShutdown
  <2>2. /\ mpc = "returned" => mpc' = "returned"
        /\ done' => mpc' = "returned"
    BY <1>2 DEF MainTop, WriteResponse, TakeRecvErr, MainShutdown, Return, ActivityInv
  <2>3. Uncounted' = Uncounted /\ (mpc' # "returned" => Ending' = Ending)
    BY <1>2, <2>1 DEF Uncounted, Ending, MainTop, WriteResponse, TakeRecvErr, MainShutdown, Return
  <2> QED
    BY <1>1, <2>1, <2>2, <2>3, SameWorking, ActivityKept DEF Uncounted, Ending
<1>3. CASE TakeStatus
  <2>1. /\ UNCHANGED <<active, hpc, done>> /\ mpc = "select" /\ mpc' = "write"
        /\ Uncounted = 0 /\ Uncounted' = 0 /\ Ending = 0 /\ Ending' = 1
    BY <1>3 DEF TakeStatus, Uncounted, Ending, Terminal
  <2> QED
    BY <1>1, <2>1, SameWorking, ActivityKept DEF ActivityInv
<1>4. CASE FinishStream
  <2>1. /\ UNCHANGED <<hpc, done, rpc, cur>> /\ mpc = "finish" /\ mpc' = "top"
        /\ active' = active - 1 /\ Ending \in {0, 1} /\ Ending' = 0
    BY <1>4 DEF FinishStream, CountDown, Ending
  <2>2. Uncounted' = Uncounted
    BY <2>1 DEF Uncounted
  <2> QED
    BY <1>1, <2>1, <2>2, SameWorking, ActivityKept DEF ActivityInv, Uncounted
<1> QED
  BY <1>2, <1>3, <1>4, ActivityResponse DEF Main

\* Handlers and the environment leave the count alone.  A handler that gives
\* up its response does so after run returned.
LEMMA ActivityOthers ==
  ASSUME TypeOK, ActivityInv, active' \in Int,
         AnyEnvironment \/ UNCHANGED vars \/ \E s \in Sids : HandlerActs(s)
  PROVE  ActivityInv'
<1>1. active \in Int
  BY DEF TypeOK, MapTypeOK
<1>2. UNCHANGED <<active, done, rpc, cur, mpc, mresp>>
  BY DEF AnyEnvironment, SeeIdle, CloseIdle, ServerClose, ClientGoes, FrameSent, envOnly,
       HandlerActs, HandlerStep, RecvMsgTakes, RecvMsgEOF, RecvMsgCancelled,
       RespondAborted, RecvMsg, SendMsg, HandlerReturns, Respond, ContextDone, handlerOnly,
       recvVars, mapVars, mainVars, vars
<1>3. Uncounted' = Uncounted /\ Ending' = Ending
  BY <1>2 DEF Uncounted, Ending
<1>4. CASE Working' = Working
  BY <1>1, <1>2, <1>3, <1>4, ActivityKept DEF ActivityInv, Uncounted, Ending
<1>5. CASE AnyEnvironment \/ UNCHANGED vars
  <2>1. UNCHANGED hpc
    BY <1>5 DEF AnyEnvironment, SeeIdle, CloseIdle, ServerClose, ClientGoes, FrameSent, envOnly,
         handlerVars, vars
  <2> QED
    BY <1>4, <2>1, SameWorking
<1>6. ASSUME NEW s \in Sids, RespondAborted(s) PROVE ActivityInv'
  <2>1. done /\ hpc[s] = "responding" /\ DOMAIN hpc = Sids
    BY <1>6 DEF RespondAborted, RespondGivesUp, Move, TypeOK, HandlerTypeOK
  <2>2. \A t \in Sids : hpc'[t] = hpc[t] \/ t = s
    BY <1>6, <2>1 DEF RespondAborted, Move
  <2>3. Working' \subseteq Working
    BY <2>1, <2>2 DEF Working, Running
  <2>4. IsFiniteSet(Working')
    BY <2>3, FS_Subset DEF ActivityInv
  <2> QED
    BY <1>2, <2>1, <2>4 DEF ActivityInv
<1>7. ASSUME NEW s \in Sids, HandlerActs(s), ~RespondAborted(s) PROVE Working' = Working
  <2>1. hpc' = hpc \/ \E from, to \in {"running", "receiving", "responding"} : Move(s, from, to)
    BY <1>7 DEF HandlerActs, HandlerStep, RecvMsgTakes, RecvMsgEOF, RecvMsgCancelled,
         RecvMsg, SendMsg, HandlerReturns, Respond, ContextDone, handlerVars
  <2>2. DOMAIN hpc = Sids
    BY DEF TypeOK, HandlerTypeOK
  <2> QED
    BY <2>1, <2>2 DEF Move, Working, Running
<1> QED
  BY <1>4, <1>5, <1>6, <1>7

LEMMA ActivityNext == TypeOK /\ OrderInv /\ ActivityInv /\ [Moves]_vars => ActivityInv'
<1> SUFFICES ASSUME TypeOK, OrderInv, ActivityInv, [Moves]_vars PROVE ActivityInv'
  OBVIOUS
<1>1. active' \in Int
  BY TypeNext DEF TypeOK, MapTypeOK
<1> QED
  BY <1>1, ActivityStarts, ActivityReceiver, ActivityMain, ActivityOthers DEF Moves, HandlerActs

\* active never counts a request that is over: what it counts still runs or
\* has its last response on the way, so that a connection whose requests are
\* all answered becomes idle and Shutdown can close it.
THEOREM ActiveCountsRequests == Spec => []NoPhantomActivity
<1>1. TypeOK /\ ActivityInv => NoPhantomActivity
  <2> SUFFICES ASSUME TypeOK, ActivityInv, mpc # "returned"
               PROVE  active <= Cardinality(Working) + Ending
    BY DEF NoPhantomActivity, Working, Ending
  <2>1. active \in Int
    BY DEF TypeOK, MapTypeOK
  <2> QED
    BY <2>1, ActivityTypes DEF ActivityInv
<1> QED
  BY <1>1, InitActivity, ActivityNext, OrderInvariant, ConnTypeCorrect, SpecMoves, PTL

-----------------------------------------------------------------------------
(* Frames in flight.                                                       *)

\* A frame knows its stream and its number, and what is in flight of a stream
\* is in order.
FlightInv ==
  /\ \A s \in Sids : \A n \in DOMAIN sentIn[s] : sentIn[s][n].sid = s /\ sentIn[s][n].n = n
  /\ \A i \in DOMAIN inbox : /\ inbox[i].n \in DOMAIN sentIn[inbox[i].sid]
                             /\ inbox[i] = sentIn[inbox[i].sid][inbox[i].n]
  /\ \A i, j \in DOMAIN inbox :
       i < j /\ inbox[i].sid = inbox[j].sid => inbox[i].n < inbox[j].n

\* What is in flight of a stream is what was sent after its first k frames.
InFlightAfter(s, k) ==
  /\ \A i \in DOMAIN inbox : inbox[i].sid = s => inbox[i].n > k
  /\ \A n \in k + 1 .. Len(sentIn[s]) : \E i \in DOMAIN inbox : inbox[i] = sentIn[s][n]

LEMMA NetTypes ==
  ASSUME TypeOK
  PROVE  /\ inbox \in Seq(Frames) /\ DOMAIN inbox = 1 .. Len(inbox) /\ Len(inbox) \in Nat
         /\ \A i \in DOMAIN inbox : /\ inbox[i] \in Frames /\ inbox[i].sid \in Sids
                                    /\ inbox[i].n \in Nat \ {0}
         /\ sentIn \in [Sids -> Seq(Frames)]
         /\ \A s \in Sids : /\ sentIn[s] \in Seq(Frames) /\ Len(sentIn[s]) \in Nat
                            /\ DOMAIN sentIn[s] = 1 .. Len(sentIn[s])
                            /\ \A n \in DOMAIN sentIn[s] : sentIn[s][n] \in Frames
<1>1. inbox \in Seq(Frames) /\ sentIn \in [Sids -> Seq(Frames)]
  BY DEF TypeOK, NetTypeOK
<1>2. \A i \in DOMAIN inbox : inbox[i] \in Frames
  BY <1>1
<1>3. \A s \in Sids : sentIn[s] \in Seq(Frames)
  BY <1>1
<1>4. \A s \in Sids : \A n \in DOMAIN sentIn[s] : sentIn[s][n] \in Frames
  BY <1>3
<1>5. \A f \in Frames : f.sid \in Sids /\ f.n \in Nat \ {0}
  BY DEF Frames
<1>6. \A i \in DOMAIN inbox : inbox[i].sid \in Sids /\ inbox[i].n \in Nat \ {0}
  BY <1>2, <1>5
<1>7. DOMAIN inbox = 1 .. Len(inbox) /\ Len(inbox) \in Nat
  BY <1>1
<1>8. \A s \in Sids : Len(sentIn[s]) \in Nat /\ DOMAIN sentIn[s] = 1 .. Len(sentIn[s])
  BY <1>3
<1> QED
  BY <1>1, <1>2, <1>3, <1>4, <1>6, <1>7, <1>8

\* A frame is sent: the sequences grow at their ends.
LEMMA SentGrows ==
  ASSUME TypeOK, FlightInv, NEW s \in Sids, NEW k, FrameArrives(s, k), k \in Kinds
  PROVE  /\ FlightInv'
         /\ \A t \in Sids, n \in Nat :
              n <= Len(sentIn[t]) /\ InFlightAfter(t, n) => InFlightAfter(t, n)'
         /\ \A t \in Sids : /\ Len(sentIn'[t]) \in Nat /\ Len(sentIn'[t]) >= Len(sentIn[t])
                            /\ \A n \in DOMAIN sentIn[t] : sentIn'[t][n] = sentIn[t][n]
<1> DEFINE l == Len(sentIn[s]) + 1  f == [sid |-> s, kind |-> k, n |-> l]
<1>1. f \in Frames /\ f.sid = s /\ f.n = l /\ l \in Nat /\ l = Len(sentIn[s]) + 1
  BY NetTypes DEF Frames
<1>2. inbox' = Append(inbox, f) /\ sentIn' = [sentIn EXCEPT ![s] = Append(@, f)]
  BY DEF FrameArrives
<1> HIDE DEF f, l
<1> DEFINE b == Len(inbox) + 1
<1>3. /\ DOMAIN inbox' = 1 .. b /\ inbox'[b] = f /\ b \in Nat /\ b \in 1 .. b
      /\ \A i \in DOMAIN inbox : inbox'[i] = inbox[i] /\ i \in 1 .. b - 1
      /\ DOMAIN inbox = 1 .. b - 1
  BY <1>1, <1>2, NetTypes
<1> HIDE DEF b
<1>4. /\ Len(sentIn'[s]) = l /\ sentIn'[s][l] = f
      /\ DOMAIN sentIn'[s] = 1 .. l /\ DOMAIN sentIn[s] = 1 .. l - 1
      /\ \A n \in DOMAIN sentIn[s] : sentIn'[s][n] = sentIn[s][n]
  BY <1>1, <1>2, NetTypes
<1>5. \A t \in Sids : t # s => sentIn'[t] = sentIn[t]
  BY <1>2, NetTypes
<1>6. \A t \in Sids : /\ Len(sentIn'[t]) \in Nat /\ Len(sentIn'[t]) >= Len(sentIn[t])
                      /\ \A n \in DOMAIN sentIn[t] : sentIn'[t][n] = sentIn[t][n]
                      /\ DOMAIN sentIn[t] \subseteq DOMAIN sentIn'[t]
  <2> TAKE t \in Sids
  <2>1. CASE t = s
    BY <1>1, <1>4, <2>1
  <2>2. CASE t # s
    BY <1>5, <2>2, NetTypes
  <2> QED
    BY <2>1, <2>2
<1>7. \A t \in Sids : \A n \in DOMAIN sentIn'[t] : sentIn'[t][n].sid = t /\ sentIn'[t][n].n = n
  <2> TAKE t \in Sids
  <2> TAKE n \in DOMAIN sentIn'[t]
  <2>1. CASE n \in DOMAIN sentIn[t]
    BY <1>6, <2>1 DEF FlightInv
  <2>2. CASE n \notin DOMAIN sentIn[t]
    BY <1>1, <1>4, <1>5, <2>2
  <2> QED
    BY <2>1, <2>2
<1>8. \A i \in DOMAIN inbox' : /\ inbox'[i].n \in DOMAIN sentIn'[inbox'[i].sid]
                               /\ inbox'[i] = sentIn'[inbox'[i].sid][inbox'[i].n]
  <2> TAKE i \in DOMAIN inbox'
  <2>1. CASE i = b
    BY <1>1, <1>3, <1>4, <2>1
  <2>2. CASE i # b
    <3>1. i \in DOMAIN inbox /\ inbox'[i] = inbox[i] /\ inbox[i].sid \in Sids
      BY <1>3, <2>2, NetTypes
    <3> QED
      BY <3>1, <1>6 DEF FlightInv
  <2> QED
    BY <2>1, <2>2
<1>9. \A i, j \in DOMAIN inbox' :
        i < j /\ inbox'[i].sid = inbox'[j].sid => inbox'[i].n < inbox'[j].n
  <2> SUFFICES ASSUME NEW i \in DOMAIN inbox', NEW j \in DOMAIN inbox', i < j,
                      inbox'[i].sid = inbox'[j].sid
               PROVE  inbox'[i].n < inbox'[j].n
    OBVIOUS
  <2>1. i \in DOMAIN inbox /\ inbox'[i] = inbox[i]
    BY <1>3
  <2>2. CASE j = b
    <3>1. inbox[i].sid = s
      BY <1>1, <1>3, <2>1, <2>2
    <3>2. inbox[i].n \in DOMAIN sentIn[s]
      BY <2>1, <3>1 DEF FlightInv
    <3> QED
      BY <1>1, <1>3, <1>4, <2>1, <2>2, <3>2
  <2>3. CASE j # b
    <3>1. j \in DOMAIN inbox /\ inbox'[j] = inbox[j]
      BY <1>3, <2>3
    <3> QED
      BY <2>1, <3>1 DEF FlightInv
  <2> QED
    BY <2>2, <2>3
<1>10. ASSUME NEW t \in Sids, NEW n \in Nat, n <= Len(sentIn[t]), InFlightAfter(t, n)
       PROVE  InFlightAfter(t, n)'
  <2>1. \A i \in DOMAIN inbox' : inbox'[i].sid = t => inbox'[i].n > n
    <3> TAKE i \in DOMAIN inbox'
    <3>1. CASE i = b
      BY <1>1, <1>3, <1>10, <3>1, NetTypes
    <3>2. CASE i # b
      BY <1>3, <1>10, <3>2 DEF InFlightAfter
    <3> QED
      BY <3>1, <3>2
  <2>2. ASSUME NEW m \in n + 1 .. Len(sentIn'[t])
        PROVE  \E i \in DOMAIN inbox' : inbox'[i] = sentIn'[t][m]
    <3>1. CASE m \in DOMAIN sentIn[t]
      <4>1. m \in n + 1 .. Len(sentIn[t]) /\ sentIn'[t][m] = sentIn[t][m]
        BY <1>6, <2>2, <3>1, NetTypes
      <4>2. PICK i \in DOMAIN inbox : inbox[i] = sentIn[t][m]
        BY <1>10, <4>1 DEF InFlightAfter
      <4>3. i \in DOMAIN inbox' /\ inbox'[i] = inbox[i]
        BY <1>3, <4>2
      <4> QED
        BY <4>1, <4>2, <4>3
    <3>2. CASE m \notin DOMAIN sentIn[t]
      <4>1. t = s
        BY <1>5, <2>2, <3>2, NetTypes
      <4>2. m = l
        BY <1>1, <1>4, <2>2, <3>2, <4>1
      <4>3. b \in DOMAIN inbox'
        BY <1>3
      <4> QED
        BY <1>3, <1>4, <4>1, <4>2, <4>3
    <3> QED
      BY <3>1, <3>2
  <2> QED
    BY <2>1, <2>2 DEF InFlightAfter
<1>11. FlightInv'
  BY <1>7, <1>8, <1>9 DEF FlightInv
<1> QED
  BY <1>6, <1>10, <1>11

\* A frame is taken: it is the next one of its stream, whose others follow.
LEMMA HeadTaken ==
  ASSUME TypeOK, FlightInv, inbox # <<>>, inbox' = Tail(inbox), sentIn' = sentIn
  PROVE  /\ FlightInv'
         /\ Head(inbox) \in Frames
         /\ \A t \in Sids, n \in Nat :
              /\ Head(inbox).sid # t /\ InFlightAfter(t, n) => InFlightAfter(t, n)'
              /\ Head(inbox).sid = t /\ InFlightAfter(t, n) /\ n <= Len(sentIn[t]) =>
                   /\ n < Len(sentIn[t]) /\ Head(inbox) = sentIn[t][n + 1]
                   /\ InFlightAfter(t, n + 1)'
<1> DEFINE f == Head(inbox)
<1>1. /\ 1 \in DOMAIN inbox /\ f = inbox[1] /\ Len(inbox) \in Nat \ {0}
      /\ DOMAIN inbox' = 1 .. Len(inbox) - 1
      /\ \A i \in DOMAIN inbox' : inbox'[i] = inbox[i + 1] /\ i + 1 \in DOMAIN inbox /\ i \in Nat
      /\ \A i \in DOMAIN inbox : i # 1 => i - 1 \in DOMAIN inbox' /\ inbox'[i - 1] = inbox[i]
      /\ DOMAIN inbox = 1 .. Len(inbox)
  <2>1. /\ inbox \in Seq(Frames) /\ Len(inbox) \in Nat \ {0} /\ DOMAIN inbox = 1 .. Len(inbox)
    BY NetTypes
  <2>2. /\ Len(Tail(inbox)) = Len(inbox) - 1
        /\ \A i \in 1 .. Len(inbox) - 1 : Tail(inbox)[i] = inbox[i + 1]
    BY <2>1
  <2>3. DOMAIN inbox' = 1 .. Len(inbox) - 1
    BY <2>1, <2>2
  <2> QED
    BY <2>1, <2>2, <2>3
<1>2. f \in Frames /\ f.sid \in Sids /\ f.n \in Nat \ {0}
  BY <1>1, NetTypes DEF Frames
<1> HIDE DEF f
<1>3. f.n \in DOMAIN sentIn[f.sid] /\ f = sentIn[f.sid][f.n]
  BY <1>1 DEF FlightInv
<1>4. FlightInv'
  <2>1. \A i \in DOMAIN inbox' : /\ inbox'[i].n \in DOMAIN sentIn[inbox'[i].sid]
                                 /\ inbox'[i] = sentIn[inbox'[i].sid][inbox'[i].n]
    BY <1>1 DEF FlightInv
  <2>2. \A i, j \in DOMAIN inbox' :
          i < j /\ inbox'[i].sid = inbox'[j].sid => inbox'[i].n < inbox'[j].n
    BY <1>1 DEF FlightInv
  <2> QED
    BY <2>1, <2>2 DEF FlightInv
<1>5. ASSUME NEW t \in Sids, NEW n \in Nat, f.sid # t, InFlightAfter(t, n)
      PROVE  InFlightAfter(t, n)'
  <2>1. \A i \in DOMAIN inbox' : inbox'[i].sid = t => inbox'[i].n > n
    BY <1>1, <1>5 DEF InFlightAfter
  <2>2. ASSUME NEW m \in n + 1 .. Len(sentIn[t])
        PROVE  \E i \in DOMAIN inbox' : inbox'[i] = sentIn[t][m]
    <3>1. PICK i \in DOMAIN inbox : inbox[i] = sentIn[t][m]
      BY <1>5, <2>2 DEF InFlightAfter
    <3>2. sentIn[t][m].sid = t
      BY <1>5, <2>2, NetTypes DEF FlightInv
    <3>3. i # 1
      BY <1>1, <1>5, <3>1, <3>2
    <3> QED
      BY <1>1, <3>1, <3>3
  <2> QED
    BY <2>1, <2>2 DEF InFlightAfter
<1>6. ASSUME NEW t \in Sids, NEW n \in Nat, f.sid = t, InFlightAfter(t, n), n <= Len(sentIn[t])
      PROVE  n < Len(sentIn[t]) /\ f = sentIn[t][n + 1] /\ InFlightAfter(t, n + 1)'
  <2>1. f.n > n /\ f.n <= Len(sentIn[t]) /\ Len(sentIn[t]) \in Nat
    BY <1>1, <1>2, <1>3, <1>6, NetTypes DEF InFlightAfter
  <2>2. PICK i \in DOMAIN inbox : inbox[i] = sentIn[t][n + 1]
    BY <1>6, <2>1, <1>2 DEF InFlightAfter
  <2>3. sentIn[t][n + 1].n = n + 1 /\ sentIn[t][n + 1].sid = t
    BY <1>2, <1>6, <2>1, NetTypes DEF FlightInv
  <2>4. i = 1
    <3> SUFFICES ASSUME i # 1 PROVE FALSE
      OBVIOUS
    <3>1. 1 < i /\ inbox[1].sid = inbox[i].sid
      BY <1>1, <1>6, <2>2, <2>3
    <3>2. inbox[1].n < inbox[i].n
      BY <1>1, <3>1 DEF FlightInv
    <3> QED
      BY <1>1, <1>2, <2>1, <2>2, <2>3, <3>2
  <2>5. f = sentIn[t][n + 1]
    BY <1>1, <2>2, <2>4
  <2>6. ASSUME NEW j \in DOMAIN inbox', inbox'[j].sid = t PROVE inbox'[j].n > n + 1
    <3>1. j + 1 \in DOMAIN inbox /\ 1 < j + 1 /\ inbox'[j] = inbox[j + 1]
      BY <1>1
    <3>2. inbox[1].n < inbox[j + 1].n
      BY <1>1, <1>6, <2>6, <3>1 DEF FlightInv
    <3> QED
      BY <1>1, <2>3, <2>5, <3>1, <3>2
  <2>7. ASSUME NEW m \in n + 2 .. Len(sentIn[t])
        PROVE  \E j \in DOMAIN inbox' : inbox'[j] = sentIn[t][m]
    <3>1. m \in n + 1 .. Len(sentIn[t]) /\ m # n + 1 /\ m \in DOMAIN sentIn[t]
      BY <2>7, <2>1, <1>6, NetTypes
    <3>2. PICK j \in DOMAIN inbox : inbox[j] = sentIn[t][m]
      BY <1>6, <3>1 DEF InFlightAfter
    <3>3. sentIn[t][m].n = m
      BY <1>6, <3>1 DEF FlightInv
    <3>4. j # 1
      <4>1. inbox[1].n = n + 1
        BY <1>1, <2>3, <2>5
      <4> QED
        BY <3>1, <3>2, <3>3, <4>1
    <3> QED
      BY <1>1, <3>2, <3>4
  <2>8. n + 1 + 1 = n + 2
    OBVIOUS
  <2> QED
    BY <2>1, <2>5, <2>6, <2>7, <2>8, <1>2 DEF InFlightAfter
<1> QED
  BY <1>2, <1>4, <1>5, <1>6 DEF f
-----------------------------------------------------------------------------
(* Streams are read in order.                                              *)

\* The receiver is delivering a message of the stream.
Delivering(s) == rpc \in {"data", "wait"} /\ cur.sid = s

\* The handler of the stream got what the first k frames hold; then comes the
\* message that is being delivered, if there is one, then what is in flight.
GotUpTo(s, k) ==
  /\ ToSet(Got(s)) = Messages(s, k)
  /\ ~Delivering(s) => InFlightAfter(s, k)
  /\ Delivering(s) => /\ k < Len(sentIn[s]) /\ cur = sentIn[s][k + 1] /\ IsMessage(s, cur)
                      /\ InFlightAfter(s, k + 1)

InOrder(s) == \A i, j \in DOMAIN Got(s) : i < j => Got(s)[i].n < Got(s)[j].n

ReadOK(s) == InOrder(s) /\ \E k \in 0 .. Len(sentIn[s]) : GotUpTo(s, k)

\* HandlerReadsInOrder, with where the connection is on the stream.
ReadInv == \A s \in Streams \ refused : ReadOK(s)

\* What moves from recv to the handler, and what is added at the end.
LEMMA QueueMoves ==
  ASSUME NEW r \in Seq(Frames), NEW q \in Seq(Frames)
  PROVE  /\ q # <<>> => Append(r, Head(q)) \o Tail(q) = r \o q
         /\ \A f \in Frames : r \o Append(q, f) = Append(r \o q, f)
         /\ r \o q \in Seq(Frames)
<1>1. ASSUME q # <<>> PROVE Append(r, Head(q)) \o Tail(q) = r \o q
  <2> DEFINE u == Append(r, Head(q)) \o Tail(q)  v == r \o q
  <2>1. /\ Head(q) \in Frames /\ Tail(q) \in Seq(Frames) /\ Len(Tail(q)) = Len(q) - 1
        /\ \A i \in 1 .. Len(q) - 1 : Tail(q)[i] = q[i + 1]
        /\ Len(q) \in Nat \ {0} /\ Len(r) \in Nat /\ Head(q) = q[1]
    BY <1>1
  <2>2. /\ Append(r, Head(q)) \in Seq(Frames) /\ Len(Append(r, Head(q))) = Len(r) + 1
        /\ \A i \in 1 .. Len(r) : Append(r, Head(q))[i] = r[i]
        /\ Append(r, Head(q))[Len(r) + 1] = q[1]
    BY <2>1
  <2>3. u \in Seq(Frames) /\ v \in Seq(Frames) /\ Len(u) = Len(v) /\ Len(v) = Len(r) + Len(q)
    BY <2>1, <2>2
  <2>4. ASSUME NEW i \in 1 .. Len(v) PROVE u[i] = v[i]
    <3>1. CASE i <= Len(r)
      BY <2>1, <2>2, <2>3, <3>1
    <3>2. CASE i = Len(r) + 1
      BY <2>1, <2>2, <2>3, <3>2
    <3>3. CASE i > Len(r) + 1
      <4>1. u[i] = Tail(q)[i - (Len(r) + 1)]
        BY <2>1, <2>2, <2>3, <3>3
      <4>2. v[i] = q[i - Len(r)]
        BY <2>1, <2>3, <3>3
      <4> QED
        BY <2>1, <2>3, <3>3, <4>1, <4>2
    <3> QED
      BY <2>1, <2>3, <3>1, <3>2, <3>3
  <2> HIDE DEF u, v
  <2>5. u = v
    BY <2>3, <2>4
  <2> QED
    BY <2>5 DEF u, v
<1>2. ASSUME NEW f \in Frames PROVE r \o Append(q, f) = Append(r \o q, f)
  OBVIOUS
<1>3. r \o q \in Seq(Frames)
  OBVIOUS
<1> QED
  BY <1>1, <1>2, <1>3

\* An appended element comes last and joins the set of the others.
LEMMA AppendedLast ==
  ASSUME NEW g \in Seq(Frames), NEW f \in Frames
  PROVE  /\ DOMAIN Append(g, f) = 1 .. Len(g) + 1 /\ DOMAIN g = 1 .. Len(g) /\ Len(g) \in Nat
         /\ \A i \in DOMAIN g : Append(g, f)[i] = g[i]
         /\ Append(g, f)[Len(g) + 1] = f
         /\ ToSet(Append(g, f)) = ToSet(g) \cup {f}
<1>1. /\ DOMAIN Append(g, f) = 1 .. Len(g) + 1 /\ DOMAIN g = 1 .. Len(g) /\ Len(g) \in Nat
      /\ \A i \in DOMAIN g : Append(g, f)[i] = g[i]
      /\ Append(g, f)[Len(g) + 1] = f
  OBVIOUS
<1>2. Len(g) + 1 \in DOMAIN Append(g, f) /\ \A i \in DOMAIN g : i \in DOMAIN Append(g, f)
  BY <1>1
<1>3. \A i \in DOMAIN Append(g, f) : i \in DOMAIN g \/ i = Len(g) + 1
  BY <1>1
<1>4. ToSet(Append(g, f)) = ToSet(g) \cup {f}
  BY <1>1, <1>2, <1>3 DEF ToSet
<1> QED
  BY <1>1, <1>4

\* The frames of a stream and what was got of it have their types.
LEMMA GotType ==
  ASSUME TypeOK, NEW s \in Sids
  PROVE  read[s] \in Seq(Frames) /\ recvq[s] \in Seq(Frames) /\ Got(s) \in Seq(Frames)
  BY DEF TypeOK, HandlerTypeOK, StreamTypeOK, Got

\* The messages among the first frames do not change when more are sent.
LEMMA SameMessages ==
  ASSUME NEW s, NEW k, k <= Len(sentIn[s]), k \in Nat,
         \A n \in 1 .. k : sentIn'[s][n] = sentIn[s][n]
  PROVE  Messages(s, k)' = Messages(s, k)
  BY DEF Messages, IsMessage, HasMessage

\* What the next frame adds to them.
LEMMA NextMessage ==
  ASSUME NEW s, NEW k \in Nat
  PROVE  Messages(s, k + 1) =
           Messages(s, k)
             \cup (IF IsMessage(s, sentIn[s][k + 1]) THEN {sentIn[s][k + 1]} ELSE {})
<1>1. 1 .. k + 1 = (1 .. k) \cup {k + 1}
  OBVIOUS
<1> QED
  BY <1>1 DEF Messages

\* A step that delivers nothing to the stream and takes no frame of it.
LEMMA ReadKept ==
  ASSUME NEW s \in Sids, ReadOK(s), Got(s)' = Got(s),
         Delivering(s)' <=> Delivering(s), Delivering(s) => cur' = cur,
         Len(sentIn[s]) \in Nat, Len(sentIn'[s]) \in Nat, Len(sentIn'[s]) >= Len(sentIn[s]),
         \A n \in 1 .. Len(sentIn[s]) : sentIn'[s][n] = sentIn[s][n],
         \A n \in Nat : n <= Len(sentIn[s]) /\ InFlightAfter(s, n) => InFlightAfter(s, n)'
  PROVE  ReadOK(s)'
<1>1. PICK k \in 0 .. Len(sentIn[s]) : GotUpTo(s, k)
  BY DEF ReadOK
<1>2. Messages(s, k)' = Messages(s, k)
  BY SameMessages
<1>3. k \in 0 .. Len(sentIn'[s]) /\ k \in Nat /\ k + 1 \in Nat
  OBVIOUS
<1>4. ToSet(Got(s)') = ToSet(Got(s))
  OBVIOUS
<1>5. CASE Delivering(s)
  <2>1. /\ k + 1 <= Len(sentIn[s]) /\ cur = sentIn[s][k + 1] /\ IsMessage(s, cur)
        /\ InFlightAfter(s, k + 1)
    BY <1>1, <1>5 DEF GotUpTo
  <2>2. InFlightAfter(s, k + 1)' /\ sentIn'[s][k + 1] = sentIn[s][k + 1] /\ k < Len(sentIn'[s])
    BY <1>3, <2>1
  <2>3. IsMessage(s, cur)'
    BY <1>5, <2>1 DEF IsMessage, HasMessage
  <2>4. GotUpTo(s, k)'
    BY <1>1, <1>2, <1>4, <1>5, <2>1, <2>2, <2>3 DEF GotUpTo
  <2> QED
    BY <1>3, <2>4 DEF ReadOK, InOrder
<1>6. CASE ~Delivering(s)
  <2>1. GotUpTo(s, k)'
    BY <1>1, <1>2, <1>3, <1>4, <1>6 DEF GotUpTo
  <2> QED
    BY <1>3, <2>1 DEF ReadOK, InOrder
<1> QED
  BY <1>5, <1>6

\* The receiver takes a frame of the stream: a message is delivered next,
\* another frame is past.
LEMMA OwnFrameTaken ==
  ASSUME TypeOK, FlightInv, NEW s \in Sids, ReadOK(s), rpc = "recv", inbox # <<>>,
         inbox' = Tail(inbox), UNCHANGED <<sentIn, read, recvq>>,
         cur' = Head(inbox), Head(inbox).sid = s,
         Delivering(s)' <=> IsMessage(s, Head(inbox))
  PROVE  /\ ReadOK(s)'
         /\ \E k \in 0 .. Len(sentIn[s]) :
              /\ k < Len(sentIn[s]) /\ Head(inbox) = sentIn[s][k + 1]
              /\ ToSet(Got(s)) = Messages(s, k)
<1> DEFINE f == Head(inbox)
<1>1. PICK k \in 0 .. Len(sentIn[s]) : GotUpTo(s, k)
  BY DEF ReadOK
<1>2. k \in Nat /\ Len(sentIn[s]) \in Nat
  BY NetTypes
<1>3. InFlightAfter(s, k) /\ ToSet(Got(s)) = Messages(s, k)
  BY <1>1 DEF GotUpTo, Delivering
<1>4. k < Len(sentIn[s]) /\ f = sentIn[s][k + 1] /\ InFlightAfter(s, k + 1)'
  BY <1>2, <1>3, HeadTaken
<1>5. Got(s)' = Got(s) /\ InOrder(s)'
  <2>1. Got(s)' = Got(s)
    BY DEF Got
  <2> QED
    BY <2>1 DEF ReadOK, InOrder
<1>6. Messages(s, k)' = Messages(s, k) /\ Messages(s, k + 1)' = Messages(s, k + 1)
  BY <1>2, <1>4, SameMessages
<1> HIDE DEF f
<1>7. CASE IsMessage(s, f)
  <2>1. GotUpTo(s, k)'
    BY <1>3, <1>4, <1>5, <1>6, <1>7 DEF GotUpTo, f, IsMessage, HasMessage
  <2> QED
    BY <1>2, <1>3, <1>4, <1>5, <2>1 DEF ReadOK, f
<1>8. CASE ~IsMessage(s, f)
  <2>1. Messages(s, k + 1) = Messages(s, k)
    <3>1. ~IsMessage(s, sentIn[s][k + 1])
      BY <1>4, <1>8
    <3>2. Messages(s, k + 1) = Messages(s, k) \cup {}
      BY <1>2, <3>1, NextMessage
    <3> QED
      BY <3>2
  <2>2. GotUpTo(s, k + 1)'
    BY <1>3, <1>4, <1>5, <1>6, <1>8, <2>1 DEF GotUpTo, f
  <2>3. k + 1 \in 0 .. Len(sentIn[s])
    BY <1>2, <1>4
  <2> QED
    BY <1>2, <1>3, <1>4, <1>5, <2>2, <2>3 DEF ReadOK, f
<1> QED
  BY <1>7, <1>8
\* A stream that is in the map or closed is one of a request that was accepted,
\* and no message is delivered to a closed one.
IdInv ==
  /\ \A s \in stored \cup remoteClosed : s <= lastStreamID
  /\ rpc \in {"data", "wait", "store", "count"} => cur.sid <= lastStreamID
  /\ rpc \in {"data", "wait"} => cur.sid \notin remoteClosed

\* The handler has, read or waiting, what was sent before the frame that
\* closed its stream.
ClosedOK(s) ==
  \E k \in DOMAIN sentIn[s] : HasRemoteClosed(sentIn[s][k]) /\ ToSet(Got(s)) = Messages(s, k)
ClosedInv == \A s \in remoteClosed \ refused : s \in Streams => ClosedOK(s)

\* Only a stream that is closed and drained gives io.EOF.
EOFInv ==
  /\ \A s \in Sids : hpc[s] = "receiving" => s \in Streams
  /\ \A s \in sawEOF : s \in Streams /\ s \in remoteClosed /\ recvq[s] = <<>>

StreamsInv == FlightInv /\ ReadInv /\ IdInv /\ ClosedInv /\ EOFInv

LEMMA ReceiverTypes ==
  ASSUME TypeOK
  PROVE  /\ lastStreamID \in Nat /\ \A s \in Sids : s \in Nat
         /\ stored \subseteq Sids /\ remoteClosed \subseteq Sids /\ refused \subseteq Sids
         /\ sawEOF \subseteq Sids
         /\ rpc \in {"data", "wait", "store", "count", "status"} =>
              cur \in Frames /\ cur.sid \in Sids
  BY IdsAreNumbers DEF TypeOK, ReceiverTypeOK, MapTypeOK, StreamTypeOK, HandlerTypeOK, Frames

\* The receiver takes a frame and looks at it.
TakesFrame == ReceiveMalformed \/ ReceiveData \/ ReceiveRequest \/ ReceiveOther

LEMMA Taken ==
  ASSUME TypeOK, TakesFrame
  PROVE  /\ rpc = "recv" /\ inbox # <<>> /\ inbox' = Tail(inbox) /\ cur' = Head(inbox)
         /\ UNCHANGED <<sentIn, read, recvq, stored, sawEOF>>
         /\ Head(inbox) \in Frames /\ Head(inbox).sid \in Sids
  BY HeadType DEF TakesFrame, ReceiveMalformed, ReceiveData, ReceiveRequest, ReceiveOther,
       TakeFrame, mapVars, handlerVars, streamVars, Frames

LEMMA IdTaken ==
  ASSUME TypeOK, IdInv, TakesFrame
  PROVE  IdInv'
<1> DEFINE f == Head(inbox)
<1>1. f \in Frames /\ f.sid \in Sids /\ cur' = f /\ stored' = stored
  BY Taken
<1>2. lastStreamID \in Nat /\ \A s \in Sids : s \in Nat
  BY ReceiverTypes
<1>3. stored \subseteq Sids /\ remoteClosed \subseteq Sids
  BY ReceiverTypes
<1> HIDE DEF f
<1>4. CASE ReceiveMalformed \/ ReceiveOther
  BY <1>1, <1>4 DEF ReceiveMalformed, ReceiveOther, IdInv, Refuse, Proceed, streamVars
<1>5. CASE ReceiveData
  <2>1. lastStreamID' = lastStreamID
    BY <1>5 DEF ReceiveData
  <2>2. CASE rpc' \in {"top", "status"}
    <3>1. /\ remoteClosed' \subseteq remoteClosed \cup {f.sid}
          /\ remoteClosed' # remoteClosed => f.sid \in stored
      BY <1>5 DEF ReceiveData, f
    <3> QED
      BY <1>1, <2>1, <2>2, <3>1 DEF IdInv
  <2>3. CASE rpc' = "data"
    <3>1. f.sid \in stored /\ remoteClosed' = remoteClosed /\ f.sid \notin remoteClosed
      BY <1>5, <2>3 DEF ReceiveData, Refuse, Proceed, f
    <3> QED
      BY <1>1, <2>1, <2>3, <3>1 DEF IdInv
  <2> QED
    BY <1>5, <2>2, <2>3 DEF ReceiveData, Refuse, Proceed
<1>6. CASE ReceiveRequest
  <2>1. remoteClosed' = remoteClosed
    BY <1>6 DEF ReceiveRequest, streamVars
  <2>2. CASE IdRefused(f.sid)
    BY <1>1, <1>6, <2>1, <2>2 DEF ReceiveRequest, Refuse, IdInv, f
  <2>3. CASE ~IdRefused(f.sid)
    <3>1. lastStreamID' = f.sid /\ f.sid > lastStreamID /\ f.sid \in Nat
      BY <1>1, <1>2, <1>6, <2>3 DEF ReceiveRequest, IdRefused, f
    <3>2. \A s \in stored \cup remoteClosed : s <= lastStreamID /\ s \in Nat
      BY <1>2, <1>3 DEF IdInv
    <3>3. \A s \in stored \cup remoteClosed : s < f.sid
      BY <1>2, <3>1, <3>2
    <3>4. f.sid \notin remoteClosed
      BY <3>1, <3>3
    <3> QED
      BY <1>1, <2>1, <3>1, <3>2, <3>3, <3>4 DEF IdInv
  <2> QED
    BY <2>2, <2>3
<1> QED
  BY <1>4, <1>5, <1>6 DEF TakesFrame

LEMMA ReadTaken ==
  ASSUME TypeOK, FlightInv, ReadInv, IdInv, ClosedInv, TakesFrame
  PROVE  ReadInv' /\ ClosedInv'
<1> PICK f : f = Head(inbox)
  OBVIOUS
<1>1. /\ rpc = "recv" /\ inbox # <<>> /\ inbox' = Tail(inbox) /\ cur' = f
      /\ UNCHANGED <<sentIn, read, recvq, stored>> /\ f \in Frames /\ f.sid \in Sids
  BY Taken
<1>2. \A s \in Sids : Got(s)' = Got(s) /\ ~Delivering(s)
  BY <1>1 DEF Got, Delivering
<1>3. refused \subseteq refused'
  BY DEF TakesFrame, ReceiveMalformed, ReceiveData, ReceiveRequest, ReceiveOther, Refuse, Proceed
<1>4. ASSUME NEW s \in Streams \ refused', s # f.sid PROVE ReadOK(s)'
  <2>1. s \in Sids /\ ReadOK(s) /\ Len(sentIn[s]) \in Nat
    BY <1>3, <1>4, NetTypes DEF ReadInv, Sids
  <2>2. ~Delivering(s)'
    BY <1>1, <1>4 DEF Delivering
  <2>3. \A n \in Nat : InFlightAfter(s, n) => InFlightAfter(s, n)'
    BY <1>1, <1>4, <2>1, HeadTaken
  <2> QED
    BY <1>1, <1>2, <2>1, <2>2, <2>3, ReadKept
<1>5. ASSUME f.sid \in Streams \ refused' PROVE rpc' = "data" <=> IsMessage(f.sid, f)
  <2>1. ~ReceiveMalformed
    BY <1>5 DEF ReceiveMalformed, Refuse
  <2>2. CASE ReceiveData
    BY <1>5, <2>2 DEF ReceiveData, DataKinds, IsMessage, HasMessage, Refuse, Proceed
  <2>3. CASE ReceiveRequest
    <3>1. rpc' = "data" <=> Pushed(f.sid)
      BY <1>5, <2>3 DEF ReceiveRequest, StartHandler, Refuse
    <3>2. f.kind = "request"
      BY <2>3 DEF ReceiveRequest
    <3> QED
      BY <3>1, <3>2 DEF IsMessage, HasMessage
  <2>4. CASE ReceiveOther
    BY <2>4 DEF ReceiveOther, Proceed, IsMessage, HasMessage
  <2> QED
    BY <2>1, <2>2, <2>3, <2>4 DEF TakesFrame
<1>6. ASSUME f.sid \in Streams \ refused'
      PROVE  /\ ReadOK(f.sid)'
             /\ \E k \in 0 .. Len(sentIn[f.sid]) :
                  /\ k < Len(sentIn[f.sid]) /\ f = sentIn[f.sid][k + 1]
                  /\ ToSet(Got(f.sid)) = Messages(f.sid, k)
  <2>1. ReadOK(f.sid)
    BY <1>3, <1>6 DEF ReadInv
  <2>2. Delivering(f.sid)' <=> rpc' \in {"data", "wait"}
    BY <1>1 DEF Delivering
  <2>3. rpc' # "wait"
    BY DEF TakesFrame, ReceiveMalformed, ReceiveData, ReceiveRequest, ReceiveOther, Refuse,
         Proceed, StartHandler
  <2>4. Delivering(f.sid)' <=> IsMessage(f.sid, f)
    BY <1>5, <1>6, <2>2, <2>3
  <2> QED
    BY <1>1, <2>1, <2>4, OwnFrameTaken
<1>7. ReadInv'
  BY <1>4, <1>6 DEF ReadInv
<1>8. ASSUME NEW s \in remoteClosed' \ refused', s \in Streams PROVE ClosedOK(s)'
  <2>1. \A k \in DOMAIN sentIn[s] : Messages(s, k)' = Messages(s, k)
    BY <1>1 DEF Messages, IsMessage, HasMessage
  <2>2. s \in Sids
    BY <1>8 DEF Sids
  <2>3. CASE s \in remoteClosed
    <3>1. ClosedOK(s)
      BY <1>3, <1>8, <2>3 DEF ClosedInv
    <3> QED
      BY <1>1, <1>2, <2>1, <2>2, <3>1 DEF ClosedOK, HasRemoteClosed
  <2>4. CASE s \notin remoteClosed
    <3>1. ReceiveData /\ s = f.sid /\ ~HasMessage(f) /\ f.kind \in DataKinds
      BY <1>8, <2>4 DEF TakesFrame, ReceiveMalformed, ReceiveData, ReceiveRequest, ReceiveOther,
           streamVars
    <3>2. HasRemoteClosed(f) /\ ~IsMessage(s, f)
      BY <3>1 DEF DataKinds, HasMessage, HasRemoteClosed, IsMessage
    <3>3. PICK k \in 0 .. Len(sentIn[s]) : /\ k < Len(sentIn[s]) /\ f = sentIn[s][k + 1]
                                           /\ ToSet(Got(s)) = Messages(s, k)
      BY <1>6, <1>8, <3>1
    <3>4. k \in Nat /\ k + 1 \in DOMAIN sentIn[s]
      BY <2>2, <3>3, NetTypes
    <3>5. Messages(s, k + 1) = Messages(s, k)
      <4>1. Messages(s, k + 1) = Messages(s, k) \cup {}
        BY <3>2, <3>3, <3>4, NextMessage
      <4> QED
        BY <4>1
    <3>6. ToSet(Got(s))' = Messages(s, k + 1)'
      BY <1>2, <2>1, <2>2, <3>3, <3>4, <3>5
    <3> QED
      BY <1>1, <3>2, <3>3, <3>4, <3>6 DEF ClosedOK, HasRemoteClosed
  <2> QED
    BY <2>3, <2>4
<1> QED
  BY <1>7, <1>8 DEF ClosedInv
\* The message that was being delivered is in recv: the next frame is reached.
LEMMA StreamsAccepted ==
  ASSUME TypeOK, StreamsInv, DataAccepted
  PROVE  StreamsInv'
<1>0. FlightInv /\ ReadInv /\ IdInv /\ ClosedInv /\ EOFInv
  BY DEF StreamsInv
<1> PICK c : c = cur.sid
  OBVIOUS
<1>1. /\ rpc \in {"data", "wait"} /\ cur \in Frames /\ c \in Sids
      /\ UNCHANGED <<cur, lastStreamID, inbox, sentIn, stored, read, hpc, sawEOF>>
      /\ recvq' = [recvq EXCEPT ![c] = Append(@, cur)]
      /\ rpc' \in {"store", "status", "top"} /\ refused \subseteq refused'
  BY ReceiverTypes DEF DataAccepted, mapVars, handlerVars, netVars, Refuse, Proceed
<1>a. c \in Sids /\ cur \in Frames
  BY <1>1
<1>b. Len(sentIn[c]) \in Nat /\ DOMAIN sentIn[c] = 1 .. Len(sentIn[c])
  BY <1>a, NetTypes
<1>2. /\ \/ remoteClosed' = remoteClosed
         \/ remoteClosed' = remoteClosed \cup {c} /\ cur.kind \notin {"request", "data"}
      /\ rpc' = "store" \/ rpc' \in {"status", "top"}
  BY DEF DataAccepted, Refuse, Proceed
<1>3. c <= lastStreamID /\ c \notin remoteClosed
  BY <1>0, <1>1 DEF IdInv
<1>4. FlightInv'
  BY <1>0, <1>1 DEF FlightInv
<1>5. \A s \in Sids : s # c => Got(s)' = Got(s) /\ recvq'[s] = recvq[s]
  BY <1>1 DEF Got, TypeOK, StreamTypeOK
<1>6. Got(c)' = Append(Got(c), cur)
  <2>1. recvq'[c] = Append(recvq[c], cur)
    BY <1>1 DEF TypeOK, StreamTypeOK
  <2>2. Got(c)' = read[c] \o Append(recvq[c], cur)
    BY <1>1, <2>1 DEF Got
  <2>3. read[c] \in Seq(Frames) /\ recvq[c] \in Seq(Frames)
    BY <1>1, GotType
  <2>4. read[c] \o Append(recvq[c], cur) = Append(read[c] \o recvq[c], cur)
    BY <1>1, <2>3, QueueMoves
  <2> QED
    BY <2>2, <2>4 DEF Got
<1>7. \A s \in Sids : ~Delivering(s)' /\ (s # c => ~Delivering(s)) /\ Delivering(c)
  BY <1>1 DEF Delivering
<1>8. \A s \in Sids, k \in Nat : Messages(s, k)' = Messages(s, k)
  BY <1>1 DEF Messages, IsMessage, HasMessage
<1>9. \A s, k : InFlightAfter(s, k)' = InFlightAfter(s, k)
  BY <1>1 DEF InFlightAfter
<1>10. ASSUME NEW s \in Streams \ refused', s # c PROVE ReadOK(s)'
  <2>1. s \in Sids /\ ReadOK(s)
    BY <1>0, <1>1, <1>10 DEF ReadInv, Sids
  <2> QED
    BY <1>1, <1>5, <1>7, <1>9, <1>10, <2>1, ReadKept, NetTypes
<1>11. ASSUME c \in Streams \ refused'
       PROVE  /\ ReadOK(c)'
              /\ \E k \in 0 .. Len(sentIn[c]) :
                   /\ k < Len(sentIn[c]) /\ cur = sentIn[c][k + 1]
                   /\ ToSet(Got(c))' = Messages(c, k + 1)
  <2>1. ReadOK(c)
    BY <1>0, <1>1, <1>11 DEF ReadInv
  <2>2. PICK k \in 0 .. Len(sentIn[c]) : GotUpTo(c, k)
    BY <2>1 DEF ReadOK
  <2>3. /\ k \in Nat /\ k < Len(sentIn[c]) /\ Len(sentIn[c]) \in Nat /\ cur = sentIn[c][k + 1]
        /\ IsMessage(c, sentIn[c][k + 1]) /\ InFlightAfter(c, k + 1)
        /\ ToSet(Got(c)) = Messages(c, k)
    BY <1>1, <1>7, <2>2, NetTypes DEF GotUpTo
  <2>k. k \in Nat /\ Len(sentIn[c]) \in Nat /\ k < Len(sentIn[c])
    BY <2>3
  <2>4. Messages(c, k + 1) = Messages(c, k) \cup {cur}
    BY <2>3, NextMessage
  <2>5. Got(c) \in Seq(Frames)
    BY <1>1, GotType
  <2>6. ToSet(Append(Got(c), cur)) = ToSet(Got(c)) \cup {cur}
    BY <1>1, <2>5, AppendedLast
  <2>7. ToSet(Got(c))' = Messages(c, k + 1)
    <3>1. ToSet(Got(c))' = ToSet(Append(Got(c), cur))
      BY <1>6
    <3> QED
      BY <2>3, <2>4, <2>6, <3>1
  <2>8. GotUpTo(c, k + 1)'
    <3>1. k + 1 \in Nat
      BY <2>k
    <3>2. ~Delivering(c)'
      BY <1>7, <1>a
    <3>3. InFlightAfter(c, k + 1)'
      BY <1>9, <2>3
    <3>4. Messages(c, k + 1)' = Messages(c, k + 1)
      BY <1>8, <1>a, <3>1
    <3> QED
      BY <2>7, <3>2, <3>3, <3>4 DEF GotUpTo
  <2>9. \A i \in DOMAIN Got(c) : Got(c)[i].n <= k /\ Got(c)[i].n \in Nat
    <3> TAKE i \in DOMAIN Got(c)
    <3>1. Got(c)[i] \in Messages(c, k)
      BY <2>3 DEF ToSet
    <3>2. PICK j \in 1 .. k : Got(c)[i] = sentIn[c][j]
      BY <3>1 DEF Messages
    <3>3. j \in DOMAIN sentIn[c] /\ j \in Nat /\ j <= k
      BY <1>b, <2>k
    <3>4. sentIn[c][j].n = j
      BY <1>0, <1>a, <3>3 DEF FlightInv
    <3> QED
      BY <3>2, <3>3, <3>4
  <2>10. cur.n = k + 1
    <3>1. k + 1 \in DOMAIN sentIn[c]
      BY <1>b, <2>k
    <3>2. sentIn[c][k + 1].n = k + 1
      BY <1>0, <1>a, <3>1 DEF FlightInv
    <3> QED
      BY <2>3, <3>2
  <2>11. InOrder(c)'
    <3> DEFINE g == Got(c)  l == Len(Got(c)) + 1
    <3>1. /\ DOMAIN Append(g, cur) = 1 .. l /\ DOMAIN g = 1 .. l - 1 /\ l \in Nat
          /\ \A i \in DOMAIN g : Append(g, cur)[i] = g[i]
          /\ Append(g, cur)[l] = cur
      BY <1>1, <2>5, AppendedLast
    <3>2. \A i, j \in DOMAIN g : i < j => g[i].n < g[j].n
      BY <2>1 DEF ReadOK, InOrder
    <3>3. \A i \in DOMAIN g : g[i].n < cur.n
      <4> TAKE i \in DOMAIN g
      <4>1. g[i].n <= k /\ g[i].n \in Nat
        BY <2>9
      <4> QED
        BY <2>k, <2>10, <4>1
    <3> HIDE DEF g, l
    <3>4. \A i, j \in 1 .. l : i < j => Append(g, cur)[i].n < Append(g, cur)[j].n
      <4> SUFFICES ASSUME NEW i \in 1 .. l, NEW j \in 1 .. l, i < j
                   PROVE  Append(g, cur)[i].n < Append(g, cur)[j].n
        OBVIOUS
      <4>1. i \in DOMAIN g /\ Append(g, cur)[i] = g[i]
        BY <3>1
      <4>2. CASE j = l
        BY <3>1, <3>3, <4>1, <4>2
      <4>3. CASE j # l
        <5>1. j \in DOMAIN g /\ Append(g, cur)[j] = g[j]
          BY <3>1, <4>3
        <5> QED
          BY <3>2, <4>1, <5>1
      <4> QED
        BY <4>2, <4>3
    <3>5. \A i, j \in DOMAIN Append(g, cur) : i < j => Append(g, cur)[i].n < Append(g, cur)[j].n
      BY <3>1, <3>4
    <3> QED
      BY <1>6, <3>5 DEF InOrder, g
  <2>12. k + 1 \in 0 .. Len(sentIn[c])
    BY <2>3
  <2>13. ReadOK(c)'
    BY <1>1, <2>8, <2>11, <2>12 DEF ReadOK
  <2> QED
    BY <2>3, <2>7, <2>13
<1>12. ReadInv'
  BY <1>0, <1>10, <1>11 DEF ReadInv
<1>13. IdInv'
  <2>1. \A s \in stored' \cup remoteClosed' : s <= lastStreamID
    BY <1>0, <1>1, <1>2, <1>3 DEF IdInv
  <2> QED
    BY <1>0, <1>1, <1>3, <2>1 DEF IdInv
<1>14. ASSUME NEW s \in remoteClosed' \ refused', s \in Streams PROVE ClosedOK(s)'
  <2>1. s \in Sids
    BY <1>14 DEF Sids
  <2>2. CASE s \in remoteClosed
    <3>1. ClosedOK(s) /\ Got(s)' = Got(s)
      BY <1>0, <1>1, <1>3, <1>5, <1>14, <2>1, <2>2 DEF ClosedInv
    <3>2. PICK k \in DOMAIN sentIn[s] :
            HasRemoteClosed(sentIn[s][k]) /\ ToSet(Got(s)) = Messages(s, k)
      BY <3>1 DEF ClosedOK
    <3>3. k \in Nat
      BY <2>1, NetTypes
    <3> QED
      BY <1>1, <1>8, <2>1, <3>1, <3>2, <3>3 DEF ClosedOK, HasRemoteClosed
  <2>3. CASE s \notin remoteClosed
    <3>1. s = c /\ cur.kind = "dataClose"
      <4>1. s = c /\ cur.kind \notin {"request", "data"}
        BY <1>2, <1>14, <2>3
      <4>2. IsMessage(c, cur)
        BY <1>0, <1>1, <1>7, <1>14, <4>1 DEF ReadInv, ReadOK, GotUpTo
      <4> QED
        BY <4>1, <4>2 DEF IsMessage, HasMessage
    <3>2. PICK k \in 0 .. Len(sentIn[c]) : /\ k < Len(sentIn[c]) /\ cur = sentIn[c][k + 1]
                                           /\ ToSet(Got(c))' = Messages(c, k + 1)
      BY <1>11, <1>14, <3>1
    <3>3. k + 1 \in DOMAIN sentIn[c] /\ k + 1 \in Nat
      BY <1>1, <3>2, NetTypes
    <3> QED
      BY <1>1, <1>8, <3>1, <3>2, <3>3 DEF ClosedOK, HasRemoteClosed
  <2> QED
    BY <2>2, <2>3
<1>15. EOFInv'
  <2>1. \A s \in sawEOF : s \in Sids /\ s # c
    BY <1>0, <1>3, ReceiverTypes DEF EOFInv
  <2> QED
    BY <1>0, <1>1, <1>2, <1>5, <2>1 DEF EOFInv
<1> QED
  BY <1>4, <1>12, <1>13, <1>14, <1>15 DEF ClosedInv, StreamsInv
\* A step that takes, sends and delivers nothing: messages may move from recv
\* to the handler, and the stream that is being delivered to may be refused.
LEMMA StreamsKept ==
  ASSUME TypeOK, StreamsInv, UNCHANGED <<inbox, sentIn, cur, lastStreamID, remoteClosed>>,
         \A s \in Sids : Got(s)' = Got(s), refused \subseteq refused',
         \A s \in Streams \ refused' : Delivering(s)' <=> Delivering(s),
         rpc' \in {"data", "wait"} => rpc \in {"data", "wait"},
         rpc' \in {"store", "count"} => rpc \in {"store", "count"},
         \A s \in stored' \ stored : s = cur.sid /\ rpc = "store",
         EOFInv'
  PROVE  StreamsInv'
<1> USE DEF StreamsInv
<1>1. FlightInv'
  BY DEF FlightInv
<1>2. \A s, k : InFlightAfter(s, k)' = InFlightAfter(s, k)
  BY DEF InFlightAfter
<1>3. ASSUME NEW s \in Streams \ refused' PROVE ReadOK(s)'
  <2>1. s \in Sids /\ ReadOK(s)
    BY <1>3 DEF ReadInv, Sids
  <2> QED
    BY <1>2, <1>3, <2>1, ReadKept, NetTypes
<1>4. IdInv'
  <2>1. \A s \in stored' \cup remoteClosed' : s <= lastStreamID
    BY DEF IdInv
  <2> QED
    BY <2>1 DEF IdInv
<1>5. ClosedInv'
  BY DEF ClosedInv, ClosedOK, Sids, HasRemoteClosed, Messages, IsMessage, HasMessage
<1> QED
  BY <1>1, <1>3, <1>4, <1>5 DEF ReadInv

LEMMA StreamsSent ==
  ASSUME TypeOK, StreamsInv, NEW s \in Sids, NEW k \in ClientKinds, FrameSent(s, k)
  PROVE  StreamsInv'
<1> USE DEF StreamsInv
<1>1. /\ UNCHANGED <<rpc, cur, lastStreamID, refused, stored, remoteClosed, read, recvq,
                    hpc, sawEOF>>
      /\ FrameArrives(s, k) /\ k \in Kinds
  BY BoundsAssumption DEF FrameSent, envOnly, recvVars, mapVars, streamVars, handlerVars
<1>2. /\ FlightInv'
      /\ \A t \in Sids, n \in Nat :
           n <= Len(sentIn[t]) /\ InFlightAfter(t, n) => InFlightAfter(t, n)'
      /\ \A t \in Sids : /\ Len(sentIn'[t]) \in Nat /\ Len(sentIn'[t]) >= Len(sentIn[t])
                         /\ \A n \in DOMAIN sentIn[t] : sentIn'[t][n] = sentIn[t][n]
  BY <1>1, SentGrows
<1>3. \A t \in Sids : Got(t)' = Got(t) /\ (Delivering(t)' <=> Delivering(t))
  BY <1>1 DEF Got, Delivering
<1>4. ASSUME NEW t \in Streams \ refused' PROVE ReadOK(t)'
  <2>1. t \in Sids /\ ReadOK(t)
    BY <1>1, <1>4 DEF ReadInv, Sids
  <2> QED
    BY <1>1, <1>2, <1>3, <2>1, ReadKept, NetTypes
<1>5. IdInv' /\ EOFInv'
  BY <1>1 DEF IdInv, EOFInv
<1>6. ASSUME NEW t \in remoteClosed' \ refused', t \in Streams PROVE ClosedOK(t)'
  <2>1. ClosedOK(t) /\ t \in Sids
    BY <1>1, <1>6 DEF ClosedInv, Sids
  <2>2. PICK n \in DOMAIN sentIn[t] :
          HasRemoteClosed(sentIn[t][n]) /\ ToSet(Got(t)) = Messages(t, n)
    BY <2>1 DEF ClosedOK
  <2>3. n \in Nat /\ n <= Len(sentIn[t]) /\ 1 .. n \subseteq DOMAIN sentIn[t]
    BY <2>1, NetTypes
  <2>4. Messages(t, n)' = Messages(t, n)
    BY <1>2, <2>1, <2>3, SameMessages
  <2>5. sentIn'[t][n] = sentIn[t][n] /\ Len(sentIn'[t]) \in Nat /\ Len(sentIn'[t]) >= n
    BY <1>2, <2>1, <2>3, NetTypes
  <2>6. n \in DOMAIN sentIn'[t]
    <3>1. sentIn' \in [Sids -> Seq(Frames)]
      BY TypeNext DEF TypeOK, NetTypeOK, Moves, AnyEnvironment
    <3> QED
      BY <2>1, <2>3, <2>5, <3>1
  <2> QED
    BY <1>3, <2>1, <2>2, <2>4, <2>5, <2>6 DEF ClosedOK, HasRemoteClosed
<1> QED
  BY <1>2, <1>4, <1>5, <1>6 DEF ReadInv, ClosedInv
LEMMA StreamsTaken ==
  ASSUME TypeOK, StreamsInv, TakesFrame
  PROVE  StreamsInv'
<1>1. FlightInv'
  BY Taken, HeadTaken DEF StreamsInv
<1>2. IdInv' /\ ReadInv' /\ ClosedInv'
  BY IdTaken, ReadTaken DEF StreamsInv
<1>3. UNCHANGED <<sawEOF, recvq>> /\ remoteClosed \subseteq remoteClosed'
  BY DEF TakesFrame, ReceiveMalformed, ReceiveData, ReceiveRequest, ReceiveOther, handlerVars,
       streamVars
<1>4. \A s \in Sids : hpc'[s] = "receiving" => hpc[s] = "receiving"
  BY DEF TakesFrame, ReceiveMalformed, ReceiveData, ReceiveRequest, ReceiveOther, handlerVars,
       StartHandler, TypeOK, HandlerTypeOK
<1>5. EOFInv'
  BY <1>3, <1>4 DEF StreamsInv, EOFInv
<1> QED
  BY <1>1, <1>2, <1>5 DEF StreamsInv

\* The other steps of the receiver: what it was delivering is refused, or goes
\* on being delivered.
LEMMA StreamsReceiver ==
  ASSUME TypeOK, StreamsInv, Receiver, ~TakesFrame, ~DataAccepted
  PROVE  StreamsInv'
<1> USE DEF receiverOnly, streamVars, handlerVars, netVars, mapVars
<1>1. /\ UNCHANGED <<inbox, sentIn, cur, lastStreamID, remoteClosed, read, recvq, hpc, sawEOF>>
      /\ refused \subseteq refused'
      /\ \A s \in stored' \ stored : s = cur.sid /\ rpc = "store"
  BY DEF Receiver, TakesFrame, ReceiverTop, DataAborted, DataWaits, DataFull, TimerFires,
       FullRefused, Refuse, Proceed, StoreStream, CountStream, StatusAborted, ReceiveFails
<1>2. /\ rpc' \in {"data", "wait"} => rpc \in {"data", "wait"}
      /\ rpc' \in {"store", "count"} => rpc \in {"store", "count"}
      /\ rpc \in {"data", "wait"} => rpc' \in {"data", "wait"} \/ cur.sid \in refused'
  BY DEF Receiver, TakesFrame, ReceiverTop, DataAborted, DataWaits, DataFull, TimerFires,
       FullRefused, Refuse, Proceed, StoreStream, CountStream, StatusAborted, ReceiveFails,
       ReceiverExits
<1>3. \A s \in Sids : Got(s)' = Got(s)
  BY <1>1 DEF Got
<1>4. \A s \in Streams \ refused' : Delivering(s)' <=> Delivering(s)
  BY <1>1, <1>2 DEF Delivering
<1>5. EOFInv'
  BY <1>1 DEF StreamsInv, EOFInv
<1> QED
  BY <1>1, <1>2, <1>3, <1>4, <1>5, StreamsKept

\* Steps that leave the receiver and the map alone, but for a status that is
\* taken and a stream that is removed.
LEMMA StreamsAside ==
  ASSUME TypeOK, StreamsInv,
         UNCHANGED <<inbox, sentIn, cur, lastStreamID, remoteClosed, refused>>,
         rpc' = rpc \/ (rpc = "status" /\ rpc' = "top"), stored' \subseteq stored,
         \A s \in Sids : Got(s)' = Got(s), EOFInv'
  PROVE  StreamsInv'
<1>1. \A s \in Streams \ refused' : Delivering(s)' <=> Delivering(s)
  BY DEF Delivering
<1> QED
  BY <1>1, StreamsKept

LEMMA StreamsMain ==
  ASSUME TypeOK, StreamsInv, Main
  PROVE  StreamsInv'
<1>1. /\ UNCHANGED <<inbox, sentIn, cur, lastStreamID, remoteClosed, refused, read, recvq, sawEOF>>
      /\ rpc' = rpc \/ (rpc = "status" /\ rpc' = "top")
      /\ stored' \subseteq stored
      /\ \A s \in Sids : hpc'[s] = "receiving" => hpc[s] = "receiving"
  BY DEF Main, MainTop, TakeStatus, TakeResponse, WriteResponse, FinishStream, TakeRecvErr,
       MainShutdown, mainOnly, recvVars, mapVars, streamVars, handlerVars, netVars, TypeOK,
       HandlerTypeOK
<1>2. \A s \in Sids : Got(s)' = Got(s)
  BY <1>1 DEF Got
<1>3. EOFInv'
  BY <1>1 DEF StreamsInv, EOFInv
<1> QED
  BY <1>1, <1>2, <1>3, StreamsAside

LEMMA StreamsHandler ==
  ASSUME TypeOK, StreamsInv, NEW s \in Sids, HandlerActs(s)
  PROVE  StreamsInv'
<1>1. /\ UNCHANGED <<inbox, sentIn, rpc, cur, lastStreamID, remoteClosed, refused, stored>>
      /\ s \in sawEOF' => s \in sawEOF \/ RecvMsgEOF(s)
      /\ \A t \in Sids : t # s => (t \in sawEOF' <=> t \in sawEOF)
  BY DEF HandlerActs, HandlerStep, RecvMsgTakes, RecvMsgEOF, RecvMsgCancelled,
       RespondAborted, RecvMsg, SendMsg, HandlerReturns, Respond, ContextDone, handlerOnly,
       recvVars, mapVars, netVars, streamVars, handlerVars
<1>2. sawEOF' \subseteq Sids /\ DOMAIN hpc = Sids
  <2>1. sawEOF \subseteq Sids /\ DOMAIN hpc = Sids
    BY ReceiverTypes DEF TypeOK, HandlerTypeOK
  <2>2. sawEOF' = sawEOF \/ sawEOF' = sawEOF \cup {s}
    BY DEF HandlerActs, HandlerStep, RecvMsgTakes, RecvMsgEOF, RecvMsgCancelled,
       RespondAborted, RecvMsg, SendMsg, HandlerReturns, Respond, ContextDone, handlerOnly,
       handlerVars
  <2> QED
    BY <2>1, <2>2
<1>3. \A t \in Sids : hpc'[t] = "receiving" => t \in Streams
  BY <1>2 DEF HandlerActs, HandlerStep, RecvMsgTakes, RecvMsgEOF, RecvMsgCancelled,
       RespondAborted, RecvMsg, SendMsg, HandlerReturns, Respond, ContextDone, Move, handlerVars,
       StreamsInv, EOFInv
<1>4. CASE RecvMsgTakes(s)
  <2>1. /\ recvq[s] # <<>> /\ UNCHANGED sawEOF
        /\ read' = [read EXCEPT ![s] = Append(@, Head(recvq[s]))]
        /\ recvq' = [recvq EXCEPT ![s] = Tail(@)]
    BY <1>4 DEF RecvMsgTakes
  <2>2. read \in [Sids -> Seq(Frames)] /\ recvq \in [Sids -> Seq(Frames)]
    BY DEF TypeOK, HandlerTypeOK, StreamTypeOK
  <2>3. \A t \in Sids : t # s => read'[t] = read[t] /\ recvq'[t] = recvq[t]
    BY <2>1, <2>2
  <2>4. read'[s] = Append(read[s], Head(recvq[s])) /\ recvq'[s] = Tail(recvq[s])
    BY <2>1, <2>2
  <2>5. read'[s] \o recvq'[s] = read[s] \o recvq[s]
    BY <2>1, <2>2, <2>4, QueueMoves
  <2>6. \A t \in Sids : Got(t)' = Got(t)
    BY <2>3, <2>5 DEF Got
  <2>7. EOFInv'
    BY <1>1, <1>2, <1>3, <2>1, <2>3 DEF StreamsInv, EOFInv
  <2> QED
    BY <1>1, <2>6, <2>7, StreamsAside
<1>5. CASE ~RecvMsgTakes(s)
  <2>1. UNCHANGED <<read, recvq>>
    BY <1>5 DEF HandlerActs, HandlerStep, RecvMsgEOF, RecvMsgCancelled,
         RespondAborted, RecvMsg, SendMsg, HandlerReturns, Respond, ContextDone, handlerOnly,
         streamVars, handlerVars
  <2>2. \A t \in Sids : Got(t)' = Got(t)
    BY <2>1 DEF Got
  <2>3. RecvMsgEOF(s) => s \in Streams /\ s \in remoteClosed /\ recvq[s] = <<>>
    BY DEF RecvMsgEOF, Move, ChannelDrained, StreamsInv, EOFInv
  <2>4. EOFInv'
    BY <1>1, <1>2, <1>3, <2>1, <2>3 DEF StreamsInv, EOFInv
  <2> QED
    BY <1>1, <2>2, <2>4, StreamsAside
<1> QED
  BY <1>4, <1>5

LEMMA StreamsNext == TypeOK /\ StreamsInv /\ [Moves]_vars => StreamsInv'
<1> SUFFICES ASSUME TypeOK, StreamsInv, [Moves]_vars PROVE StreamsInv'
  OBVIOUS
<1>1. ASSUME UNCHANGED vars \/ SeeIdle \/ CloseIdle \/ ServerClose \/ ClientGoes
      PROVE  StreamsInv'
  <2>1. UNCHANGED <<inbox, sentIn, rpc, cur, lastStreamID, remoteClosed, refused, stored, read,
                    recvq, hpc, sawEOF>>
    BY <1>1 DEF SeeIdle, CloseIdle, ServerClose, ClientGoes, envOnly, recvVars, mapVars, netVars,
         streamVars, handlerVars, vars
  <2>2. \A t \in Sids : Got(t)' = Got(t)
    BY <2>1 DEF Got
  <2>3. EOFInv'
    BY <2>1 DEF StreamsInv, EOFInv
  <2> QED
    BY <2>1, <2>2, <2>3, StreamsAside
<1> QED
  BY <1>1, StreamsTaken, StreamsAccepted, StreamsReceiver, StreamsMain, StreamsHandler, StreamsSent
  DEF Moves, AnyEnvironment, HandlerActs

LEMMA InitStreams == Init => StreamsInv
<1> SUFFICES ASSUME Init PROVE StreamsInv
  OBVIOUS
<1>1. FlightInv /\ IdInv /\ ClosedInv /\ EOFInv
  BY DEF Init, FlightInv, IdInv, ClosedInv, EOFInv
<1>2. ASSUME NEW s \in Streams PROVE ReadOK(s)
  <2>1. s \in Sids
    BY DEF Sids
  <2>2. Got(s) = <<>> /\ sentIn[s] = <<>> /\ inbox = <<>> /\ ~Delivering(s)
    BY <2>1 DEF Init, Got, Delivering
  <2>3. ToSet(Got(s)) = {} /\ Messages(s, 0) = {} /\ Len(sentIn[s]) = 0
    BY <2>2 DEF ToSet, Messages
  <2>4. InFlightAfter(s, 0)
    BY <2>2 DEF InFlightAfter
  <2>5. GotUpTo(s, 0)
    BY <2>2, <2>3, <2>4 DEF GotUpTo
  <2> QED
    BY <2>2, <2>3, <2>5 DEF ReadOK, InOrder
<1> QED
  BY <1>1, <1>2 DEF StreamsInv, ReadInv

LEMMA StreamsInvariant == Spec => []StreamsInv
  BY InitStreams, StreamsNext, ConnTypeCorrect, SpecMoves, PTL

\* Whatever the handler, its context and the size of its buffer do, it reads
\* the messages of its stream in the order they were sent and without a gap,
\* unless the client is told that one was refused.
THEOREM ReadsInOrder == Spec => []HandlerReadsInOrder
<1>1. StreamsInv => HandlerReadsInOrder
  BY DEF StreamsInv, ReadInv, ReadOK, InOrder, GotUpTo, HandlerReadsInOrder
<1> QED
  BY <1>1, StreamsInvariant, PTL

\* io.EOF comes after the last message the client sent before it closed the
\* stream, never instead of one.
THEOREM EOFComesLast == Spec => []EOFAfterLastMessage
<1>1. TypeOK /\ StreamsInv => EOFAfterLastMessage
  <2> SUFFICES ASSUME TypeOK, StreamsInv, NEW s \in sawEOF \ refused
               PROVE  \E k \in DOMAIN sentIn[s] :
                        HasRemoteClosed(sentIn[s][k]) /\ ToSet(read[s]) = Messages(s, k)
    BY DEF EOFAfterLastMessage
  <2>1. s \in Streams /\ s \in remoteClosed /\ recvq[s] = <<>> /\ s \in Sids
    BY DEF StreamsInv, EOFInv, Sids
  <2>2. ClosedOK(s)
    BY <2>1 DEF StreamsInv, ClosedInv
  <2>3. Got(s) = read[s]
    BY <2>1, GotType DEF Got
  <2> QED
    BY <2>2, <2>3 DEF ClosedOK
<1> QED
  BY <1>1, StreamsInvariant, ConnTypeCorrect, PTL
-----------------------------------------------------------------------------
(* Streams are read in order, also after a message was refused.            *)

\* The frame is one of those the client sent on the stream, and a message.
MessageOf(s, f) ==
  f.n \in DOMAIN sentIn[s] /\ f = sentIn[s][f.n] /\ IsMessage(s, f)

\* What is in flight of a stream is above the number k.
FlightAbove(s, k) == \A j \in DOMAIN inbox : inbox[j].sid = s => k < inbox[j].n

\* A handler got messages of its stream only, in increasing order, and what
\* is being delivered and in flight is above them.
Rises(s) ==
  /\ InOrder(s)
  /\ \A i \in DOMAIN Got(s) : MessageOf(s, Got(s)[i]) /\ FlightAbove(s, Got(s)[i].n)
  /\ Delivering(s) => /\ MessageOf(s, cur) /\ FlightAbove(s, cur.n)
                      /\ \A i \in DOMAIN Got(s) : Got(s)[i].n < cur.n
RiseInv == \A s \in Sids : Rises(s)

LEMMA RiseInit == Init => RiseInv
<1> SUFFICES ASSUME Init, NEW s \in Sids PROVE Rises(s)
  BY DEF RiseInv
<1>1. Got(s) = <<>> /\ ~Delivering(s)
  BY DEF Init, Got, Delivering
<1> QED
  BY <1>1 DEF Rises, InOrder

\* A step that takes, sends and delivers nothing on the stream.
LEMMA RiseKept ==
  ASSUME NEW s, Rises(s), Got(s)' = Got(s), sentIn'[s] = sentIn[s],
         Delivering(s)' => Delivering(s) /\ cur' = cur,
         \A k : FlightAbove(s, k) => FlightAbove(s, k)'
  PROVE  Rises(s)'
<1>1. \A f : MessageOf(s, f)' <=> MessageOf(s, f)
  BY DEF MessageOf, IsMessage, HasMessage
<1> QED
  BY <1>1 DEF Rises, InOrder

\* A frame that is sent comes after those that were.
LEMMA FlightSent ==
  ASSUME TypeOK, NEW s \in Sids, NEW k, FrameArrives(s, k), NEW t \in Sids, NEW n \in Nat,
         n <= Len(sentIn[t]), FlightAbove(t, n)
  PROVE  FlightAbove(t, n)'
<1>1. inbox' = Append(inbox, [sid |-> s, kind |-> k, n |-> Len(sentIn[s]) + 1])
  BY DEF FrameArrives
<1>2. /\ DOMAIN inbox' = 1 .. Len(inbox) + 1 /\ DOMAIN inbox = 1 .. Len(inbox)
      /\ \A i \in DOMAIN inbox : inbox'[i] = inbox[i]
      /\ inbox'[Len(inbox) + 1] = [sid |-> s, kind |-> k, n |-> Len(sentIn[s]) + 1]
      /\ Len(inbox) \in Nat
  BY <1>1, NetTypes
<1>3. \A j \in DOMAIN inbox' : j \in DOMAIN inbox \/ j = Len(inbox) + 1
  BY <1>2
<1>4. inbox'[Len(inbox) + 1].sid = t => n < inbox'[Len(inbox) + 1].n
  BY <1>2, NetTypes
<1> QED
  BY <1>2, <1>3, <1>4 DEF FlightAbove

LEMMA RiseSent ==
  ASSUME TypeOK, FlightInv, RiseInv, NEW s \in Sids, NEW k \in ClientKinds, FrameSent(s, k)
  PROVE  RiseInv'
<1> SUFFICES ASSUME NEW t \in Sids PROVE Rises(t)'
  BY DEF RiseInv
<1>1. /\ UNCHANGED <<rpc, cur, read, recvq>> /\ FrameArrives(s, k) /\ k \in Kinds
  BY BoundsAssumption DEF FrameSent, envOnly, recvVars, mapVars, streamVars, handlerVars
<1>2. /\ Len(sentIn'[t]) \in Nat /\ Len(sentIn'[t]) >= Len(sentIn[t])
      /\ \A n \in DOMAIN sentIn[t] : sentIn'[t][n] = sentIn[t][n]
  BY <1>1, SentGrows
<1>3. Rises(t) /\ Got(t)' = Got(t) /\ (Delivering(t)' <=> Delivering(t))
  BY <1>1 DEF RiseInv, Got, Delivering
<1>4. sentIn' \in [Sids -> Seq(Frames)]
  BY TypeNext DEF TypeOK, NetTypeOK, Moves, AnyEnvironment
<1>5. DOMAIN sentIn[t] \subseteq DOMAIN sentIn'[t] /\ DOMAIN sentIn[t] \subseteq Nat
      /\ Len(sentIn[t]) \in Nat /\ DOMAIN sentIn[t] = 1 .. Len(sentIn[t])
  BY <1>2, <1>4, NetTypes
<1>6. ASSUME NEW f, MessageOf(t, f) PROVE MessageOf(t, f)'
  BY <1>2, <1>5, <1>6 DEF MessageOf, IsMessage, HasMessage
<1>7. ASSUME NEW n \in DOMAIN sentIn[t], FlightAbove(t, n) PROVE FlightAbove(t, n)'
  BY <1>1, <1>5, <1>7, FlightSent
<1>8. \A f : MessageOf(t, f) /\ FlightAbove(t, f.n) => FlightAbove(t, f.n)'
  BY <1>7 DEF MessageOf
<1> QED
  BY <1>1, <1>3, <1>6, <1>8 DEF Rises, InOrder

LEMMA InboxTail ==
  ASSUME TypeOK, inbox # <<>>, inbox' = Tail(inbox)
  PROVE  /\ Head(inbox) = inbox[1] /\ 1 \in DOMAIN inbox
         /\ \A j \in DOMAIN inbox' : j + 1 \in DOMAIN inbox /\ inbox'[j] = inbox[j + 1] /\ 1 < j + 1
<1>1. inbox \in Seq(Frames) /\ Len(inbox) \in Nat \ {0} /\ DOMAIN inbox = 1 .. Len(inbox)
  BY NetTypes
<1>2. /\ Len(Tail(inbox)) = Len(inbox) - 1 /\ Head(inbox) = inbox[1]
      /\ DOMAIN Tail(inbox) = 1 .. Len(inbox) - 1
      /\ \A i \in 1 .. Len(inbox) - 1 : Tail(inbox)[i] = inbox[i + 1]
  BY <1>1
<1> QED
  BY <1>1, <1>2

LEMMA RiseTaken ==
  ASSUME TypeOK, FlightInv, RiseInv, TakesFrame
  PROVE  RiseInv'
<1> PICK f : f = Head(inbox)
  OBVIOUS
<1>1. /\ rpc = "recv" /\ inbox # <<>> /\ inbox' = Tail(inbox) /\ cur' = f
      /\ UNCHANGED <<sentIn, read, recvq>> /\ f \in Frames /\ f.sid \in Sids
  BY Taken
<1>2. /\ f = inbox[1] /\ 1 \in DOMAIN inbox
      /\ \A j \in DOMAIN inbox' : j + 1 \in DOMAIN inbox /\ inbox'[j] = inbox[j + 1] /\ 1 < j + 1
  BY <1>1, InboxTail
<1>3. \A s, k : FlightAbove(s, k) => FlightAbove(s, k)'
  BY <1>2 DEF FlightAbove
<1>4. \A s \in Sids : Got(s)' = Got(s) /\ ~Delivering(s)
  BY <1>1 DEF Got, Delivering
<1>5. rpc' \in {"data", "wait"} => IsMessage(f.sid, f)
  BY DEF TakesFrame, ReceiveMalformed, ReceiveData, ReceiveRequest, ReceiveOther, Refuse, Proceed,
         StartHandler, IsMessage
<1>6. ASSUME NEW s \in Sids PROVE Rises(s)'
  <2>1. Rises(s)
    BY DEF RiseInv
  <2>2. CASE ~Delivering(s)'
    BY <1>1, <1>3, <1>4, <2>1, <2>2, RiseKept
  <2>3. CASE Delivering(s)'
    <3>1. f.sid = s /\ IsMessage(s, f)
      BY <1>1, <1>5, <2>3 DEF Delivering
    <3>2. f.n \in DOMAIN sentIn[s] /\ f = sentIn[s][f.n]
      BY <1>2, <3>1 DEF FlightInv
    <3>3. FlightAbove(s, f.n)'
      BY <1>2, <3>1 DEF FlightAbove, FlightInv
    <3>4. \A i \in DOMAIN Got(s) : Got(s)[i].n < f.n
      BY <1>2, <2>1, <3>1 DEF Rises, FlightAbove
    <3>5. \A g : MessageOf(s, g)' <=> MessageOf(s, g)
      BY <1>1 DEF MessageOf, IsMessage, HasMessage
    <3>6. MessageOf(s, f)
      BY <3>1, <3>2 DEF MessageOf
    <3> QED
      BY <1>1, <1>3, <1>4, <2>1, <3>3, <3>4, <3>5, <3>6 DEF Rises, InOrder
  <2> QED
    BY <2>2, <2>3
<1> QED
  BY <1>6 DEF RiseInv

\* What a handler got and will read stays, whoever holds it.
LEMMA HandlerGot ==
  ASSUME TypeOK, NEW s \in Sids, HandlerActs(s)
  PROVE  \A t \in Sids : Got(t)' = Got(t)
<1>1. CASE RecvMsgTakes(s)
  <2>1. /\ recvq[s] # <<>>
        /\ read' = [read EXCEPT ![s] = Append(@, Head(recvq[s]))]
        /\ recvq' = [recvq EXCEPT ![s] = Tail(@)]
    BY <1>1 DEF RecvMsgTakes
  <2>2. read \in [Sids -> Seq(Frames)] /\ recvq \in [Sids -> Seq(Frames)]
    BY DEF TypeOK, HandlerTypeOK, StreamTypeOK
  <2>3. \A t \in Sids : t # s => read'[t] = read[t] /\ recvq'[t] = recvq[t]
    BY <2>1, <2>2
  <2>4. read'[s] = Append(read[s], Head(recvq[s])) /\ recvq'[s] = Tail(recvq[s])
    BY <2>1, <2>2
  <2>5. read'[s] \o recvq'[s] = read[s] \o recvq[s]
    BY <2>1, <2>2, <2>4, QueueMoves
  <2> QED
    BY <2>3, <2>5 DEF Got
<1>2. CASE ~RecvMsgTakes(s)
  <2>1. UNCHANGED <<read, recvq>>
    BY <1>2 DEF HandlerActs, HandlerStep, RecvMsgEOF, RecvMsgCancelled,
         RespondAborted, RecvMsg, SendMsg, HandlerReturns, Respond, ContextDone, handlerOnly,
         streamVars, handlerVars
  <2> QED
    BY <2>1 DEF Got
<1> QED
  BY <1>1, <1>2

\* The message that was being delivered is in recv, above all before it.
LEMMA RiseAccepted ==
  ASSUME TypeOK, RiseInv, DataAccepted
  PROVE  RiseInv'
<1> PICK c : c = cur.sid
  OBVIOUS
<1>1. /\ rpc \in {"data", "wait"} /\ cur \in Frames /\ c \in Sids
      /\ UNCHANGED <<cur, inbox, sentIn, read>>
      /\ recvq' = [recvq EXCEPT ![c] = Append(@, cur)] /\ rpc' \notin {"data", "wait"}
  BY ReceiverTypes DEF DataAccepted, handlerVars, netVars, Refuse, Proceed
<1>2. \A s, k : FlightAbove(s, k) => FlightAbove(s, k)'
  BY <1>1 DEF FlightAbove
<1>3. \A s \in Sids : ~Delivering(s)' /\ (s # c => Got(s)' = Got(s))
  BY <1>1 DEF Delivering, Got, TypeOK, StreamTypeOK
<1>4. Got(c)' = Append(Got(c), cur)
  <2>1. read[c] \in Seq(Frames) /\ recvq[c] \in Seq(Frames) /\ recvq'[c] = Append(recvq[c], cur)
    BY <1>1, GotType DEF TypeOK, StreamTypeOK
  <2>2. read[c] \o Append(recvq[c], cur) = Append(read[c] \o recvq[c], cur)
    BY <1>1, <2>1, QueueMoves
  <2> QED
    BY <1>1, <2>1, <2>2 DEF Got
<1>5. ASSUME NEW s \in Sids, s # c PROVE Rises(s)'
  BY <1>1, <1>2, <1>3, <1>5, RiseKept DEF RiseInv
<1>6. Rises(c)'
  <2>1. Rises(c) /\ Delivering(c)
    BY <1>1 DEF RiseInv, Delivering
  <2> PICK g : g = Append(Got(c), cur)
    OBVIOUS
  <2>2. /\ DOMAIN g = 1 .. Len(Got(c)) + 1 /\ DOMAIN Got(c) = 1 .. Len(Got(c))
        /\ Len(Got(c)) \in Nat /\ g[Len(Got(c)) + 1] = cur
        /\ \A i \in DOMAIN Got(c) : g[i] = Got(c)[i]
    BY <1>1, <1>4, GotType, AppendedLast
  <2>3. \A f : MessageOf(c, f)' <=> MessageOf(c, f)
    BY <1>1 DEF MessageOf, IsMessage, HasMessage
  <2>4. \A i \in DOMAIN g : i \in DOMAIN Got(c) \/ i = Len(Got(c)) + 1
    BY <2>2
  <2>5. \A i \in DOMAIN g : MessageOf(c, g[i])' /\ FlightAbove(c, g[i].n)'
    BY <1>2, <2>1, <2>2, <2>3, <2>4 DEF Rises
  <2>6. \A i, j \in DOMAIN g : i < j => g[i].n < g[j].n
    BY <2>1, <2>2, <2>4 DEF Rises, InOrder
  <2> QED
    BY <1>1, <1>3, <1>4, <2>5, <2>6 DEF Rises, InOrder
<1> QED
  BY <1>5, <1>6 DEF RiseInv

\* The other steps: messages may move from recv to the handler.
LEMMA RiseAside ==
  ASSUME RiseInv, UNCHANGED <<inbox, sentIn, cur>>,
         rpc' \in {"data", "wait"} => rpc \in {"data", "wait"},
         \A s \in Sids : Got(s)' = Got(s)
  PROVE  RiseInv'
<1>1. \A s, k : FlightAbove(s, k) => FlightAbove(s, k)'
  BY DEF FlightAbove
<1>2. \A s \in Sids : Delivering(s)' => Delivering(s)
  BY DEF Delivering
<1> QED
  BY <1>1, <1>2, RiseKept DEF RiseInv

LEMMA RiseNext == TypeOK /\ FlightInv /\ RiseInv /\ [Moves]_vars => RiseInv'
<1> SUFFICES ASSUME TypeOK, FlightInv, RiseInv, [Moves]_vars PROVE RiseInv'
  OBVIOUS
<1>1. ASSUME Receiver, ~TakesFrame, ~DataAccepted PROVE RiseInv'
  <2>1. UNCHANGED <<inbox, sentIn, cur, read, recvq>>
    BY <1>1 DEF Receiver, TakesFrame, ReceiverTop, DataAborted, DataWaits, DataFull, StoreStream,
         CountStream, StatusAborted, ReceiveFails, receiverOnly, streamVars, handlerVars, netVars
  <2>2. rpc' \in {"data", "wait"} => rpc \in {"data", "wait"}
    BY <1>1 DEF Receiver, TakesFrame, ReceiverTop, DataAborted, DataWaits, DataFull, TimerFires,
         FullRefused, Refuse, Proceed, StoreStream, CountStream, StatusAborted, ReceiveFails,
         ReceiverExits
  <2>3. \A s \in Sids : Got(s)' = Got(s)
    BY <2>1 DEF Got
  <2> QED
    BY <2>1, <2>2, <2>3, RiseAside
<1>2. ASSUME Main \/ SeeIdle \/ CloseIdle \/ ServerClose \/ ClientGoes \/ UNCHANGED vars
      PROVE  RiseInv'
  <2>1. /\ UNCHANGED <<inbox, sentIn, cur, read, recvq>>
        /\ rpc' \in {"data", "wait"} => rpc \in {"data", "wait"}
    BY <1>2 DEF Main, MainTop, TakeStatus, TakeResponse, WriteResponse, FinishStream, TakeRecvErr,
         MainShutdown, mainOnly, recvVars, streamVars, handlerVars, netVars, SeeIdle, CloseIdle,
         ServerClose, ClientGoes, envOnly, vars
  <2>2. \A s \in Sids : Got(s)' = Got(s)
    BY <2>1 DEF Got
  <2> QED
    BY <2>1, <2>2, RiseAside
<1>3. ASSUME NEW s \in Sids, HandlerActs(s) PROVE RiseInv'
  <2>1. UNCHANGED <<inbox, sentIn, cur, rpc>>
    BY <1>3 DEF HandlerActs, HandlerStep, RecvMsgTakes, RecvMsgEOF, RecvMsgCancelled,
         RespondAborted, RecvMsg, SendMsg, HandlerReturns, Respond, ContextDone, handlerOnly,
         recvVars, netVars
  <2>2. \A t \in Sids : Got(t)' = Got(t)
    BY <1>3, HandlerGot
  <2> QED
    BY <2>1, <2>2, RiseAside
<1> QED
  BY <1>1, <1>2, <1>3, RiseSent, RiseTaken, RiseAccepted DEF Moves, AnyEnvironment, HandlerActs

\* Also after a message was refused: the handler reads what follows in order.
LEMMA RiseInvariant == Spec => []RiseInv
<1>1. StreamsInv => FlightInv
  BY DEF StreamsInv
<1> QED
  BY <1>1, RiseInit, RiseNext, ConnTypeCorrect, StreamsInvariant, SpecMoves, PTL

-----------------------------------------------------------------------------
(* Answers: a handler's last frame is its answer.                          *)

\* A handler of the stream has its answer on the wire.
Finals == {"response", "dataClose"}
Ended(s) == \E i \in DOMAIN outbox : outbox[i].sid = s /\ outbox[i].kind \in Finals
\* The main loop is about to write a frame of the handler.
Writing(s) == mpc = "write" /\ mresp.sid = s /\ mresp.kind # "status"

\* A handler is started by its request, offers its own frames, waits while
\* one of them is written, and is over with its answer.
AnswerOK(s) ==
  /\ hpc[s] # "none" <=> \E i \in DOMAIN started : started[i] = s
  /\ hpc[s] = "responding" => out[s].sid = s /\ out[s].kind # "status"
  /\ Writing(s) => IF mresp.kind = "data" THEN Running(s) ELSE hpc[s] = "returned"
  /\ Ended(s) => hpc[s] = "returned" /\ ~Writing(s)
AnswerInv == (done => mpc = "returned") /\ \A s \in Sids : AnswerOK(s)

LEMMA AnswerInit == Init => AnswerInv
  BY DEF Init, AnswerInv, AnswerOK, Ended, Writing

\* A step that starts, writes and takes no answer of the handler.
LEMMA AnswerKept ==
  ASSUME NEW s, AnswerOK(s), started' = started, outbox' = outbox, out'[s] = out[s],
         Writing(s)' => Writing(s) /\ mresp' = mresp,
         hpc'[s] = hpc[s] \/ (Running(s) /\ hpc'[s] \in {"running", "receiving"})
  PROVE  AnswerOK(s)'
  BY DEF AnswerOK, Ended, Running

LEMMA AnswerReceiver ==
  ASSUME TypeOK, OrderInv, AnswerInv, Receiver
  PROVE  AnswerInv'
<1>1. UNCHANGED <<outbox, out, mpc, mresp, done>>
  BY DEF Receiver, ReceiverTop, ReceiveMalformed, ReceiveData, ReceiveRequest, ReceiveOther,
       TakeFrame, DataAccepted, DataAborted, DataWaits, DataFull, StoreStream, CountStream,
       StatusAborted, ReceiveFails, receiverOnly, mainVars, handlerVars
<1>2. CASE UNCHANGED <<hpc, started>>
  BY <1>1, <1>2, AnswerKept DEF AnswerInv, Writing
<1>3. ASSUME ~UNCHANGED <<hpc, started>> PROVE AnswerInv'
  <2>1. ReceiveRequest /\ Head(inbox).sid \in Sids /\ inbox # <<>>
    <3>1. ReceiveRequest
      BY <1>3 DEF Receiver, ReceiverTop, ReceiveMalformed, ReceiveData, ReceiveOther,
         DataAccepted, DataAborted, DataWaits, DataFull, StoreStream, CountStream,
         StatusAborted, ReceiveFails, receiverOnly, mainVars, handlerVars
    <3> QED
      BY <3>1, Taken DEF TakesFrame
  <2> PICK s \in Sids : s = Head(inbox).sid
    BY <2>1
  <2>2. /\ hpc' = [hpc EXCEPT ![s] = "running"] /\ started' = Append(started, s)
        /\ ~IdRefused(s)
    BY <1>3, <2>1 DEF ReceiveRequest, StartHandler
  <2>3. /\ hpc[s] = "none"
        /\ hpc \in [Sids -> {"none", "running", "receiving", "responding", "returned"}]
    <3>1. s \in Nat /\ lastStreamID \in Nat
      BY IdsAreNumbers
    <3>2. hpc[s] # "none" => s <= lastStreamID
      BY DEF OrderInv
    <3> QED
      BY <2>2, <3>1, <3>2 DEF IdRefused, TypeOK, HandlerTypeOK
  <2>4. /\ DOMAIN started' = 1 .. Len(started) + 1 /\ DOMAIN started = 1 .. Len(started)
        /\ Len(started) \in Nat /\ started'[Len(started) + 1] = s
        /\ \A i \in DOMAIN started : started'[i] = started[i]
    BY <2>2, IdsAreNumbers
  <2>5. ASSUME NEW t \in Sids, t # s PROVE AnswerOK(t)'
    <3>1. (\E i \in DOMAIN started' : started'[i] = t) <=> \E i \in DOMAIN started : started[i] = t
      BY <2>4, <2>5
    <3>2. hpc'[t] = hpc[t] /\ AnswerOK(t)
      BY <2>2, <2>3, <2>5 DEF AnswerInv
    <3> QED
      BY <1>1, <3>1, <3>2 DEF AnswerOK, Ended, Writing, Running
  <2>6. AnswerOK(s)'
    <3>1. hpc'[s] = "running" /\ \E i \in DOMAIN started' : started'[i] = s
      BY <2>2, <2>3, <2>4
    <3>2. ~Ended(s) /\ ~Writing(s)
      BY <2>3 DEF AnswerInv, AnswerOK, Running
    <3> QED
      BY <1>1, <3>1, <3>2 DEF AnswerOK, Ended, Writing
  <2> QED
    BY <1>1, <2>5, <2>6 DEF AnswerInv
<1> QED
  BY <1>2, <1>3

\* A frame is taken from a handler.
LEMMA AnswerTaken ==
  ASSUME TypeOK, AnswerInv, NEW s \in Sids, TakeResponse(s)
  PROVE  AnswerInv'
<1>1. /\ mpc = "select" /\ hpc[s] = "responding" /\ mresp' = out[s] /\ mpc' = "write"
      /\ hpc' = [hpc EXCEPT ![s] = IF out[s].kind \in Terminal THEN "returned" ELSE "running"]
      /\ UNCHANGED <<started, outbox, out, done>>
  BY DEF TakeResponse, mainOnly, recvVars
<1>2. out[s].sid = s /\ out[s].kind # "status" /\ out[s].kind \in {"data"} \cup Terminal
  BY <1>1 DEF AnswerInv, AnswerOK, TypeOK, HandlerTypeOK, Responses
<1>3. ASSUME NEW t \in Sids, t # s PROVE AnswerOK(t)'
  <2>1. hpc'[t] = hpc[t] /\ AnswerOK(t) /\ ~Writing(t)'
    BY <1>1, <1>2, <1>3 DEF AnswerInv, Writing, TypeOK, HandlerTypeOK
  <2> QED
    BY <1>1, <2>1 DEF AnswerOK, Ended, Running
<1>4. AnswerOK(s)'
  <2>1. hpc'[s] = IF out[s].kind = "data" THEN "running" ELSE "returned"
    BY <1>1, <1>2 DEF TypeOK, HandlerTypeOK, Terminal
  <2>2. AnswerOK(s) /\ ~Ended(s)
    BY <1>1 DEF AnswerInv, AnswerOK
  <2> QED
    BY <1>1, <2>1, <2>2 DEF AnswerOK, Ended, Running
<1> QED
  BY <1>1, <1>3, <1>4 DEF AnswerInv

\* What the main loop took is written.
LEMMA AnswerWritten ==
  ASSUME TypeOK, AnswerInv, WriteResponse
  PROVE  AnswerInv'
<1>1. /\ mpc = "write" /\ mpc' # "write" /\ UNCHANGED <<started, out, hpc, mresp>>
      /\ (done => mpc = "returned")'
  BY DEF WriteResponse, mainOnly, recvVars, handlerVars, Return, AnswerInv
<1>2. CASE outbox' = outbox
  BY <1>1, <1>2, AnswerKept DEF AnswerInv, Writing
<1>3. CASE outbox' = Append(outbox, mresp)
  <2>1. /\ DOMAIN outbox' = 1 .. Len(outbox) + 1 /\ DOMAIN outbox = 1 .. Len(outbox)
        /\ Len(outbox) \in Nat /\ outbox'[Len(outbox) + 1] = mresp
        /\ \A i \in DOMAIN outbox : outbox'[i] = outbox[i]
    BY <1>3 DEF TypeOK, MainTypeOK
  <2>2. \A t : Ended(t)' <=> Ended(t) \/ (mresp.sid = t /\ mresp.kind \in Finals)
    <3> TAKE t
    <3>1. \A i \in DOMAIN outbox' : i \in DOMAIN outbox \/ i = Len(outbox) + 1
      BY <2>1
    <3>2. Len(outbox) + 1 \in DOMAIN outbox' /\ \A i \in DOMAIN outbox : i \in DOMAIN outbox'
      BY <2>1
    <3> QED
      BY <2>1, <3>1, <3>2 DEF Ended
  <2>3. ASSUME NEW t \in Sids PROVE AnswerOK(t)'
    <3>1. AnswerOK(t) /\ ~Writing(t)'
      BY <1>1 DEF AnswerInv, Writing
    <3>2. Ended(t)' => hpc[t] = "returned"
      BY <1>1, <2>2, <3>1 DEF AnswerOK, Writing, Finals
    <3> QED
      BY <1>1, <3>1, <3>2 DEF AnswerOK, Running
  <2> QED
    BY <1>1, <2>3 DEF AnswerInv
<1> QED
  BY <1>2, <1>3 DEF WriteResponse

LEMMA AnswerMain ==
  ASSUME TypeOK, AnswerInv, Main
  PROVE  AnswerInv'
<1>1. ASSUME MainTop \/ TakeStatus \/ FinishStream \/ TakeRecvErr \/ MainShutdown PROVE AnswerInv'
  <2>1. UNCHANGED <<started, outbox, out, hpc>> /\ (done => mpc = "returned")'
    BY <1>1 DEF MainTop, TakeStatus, FinishStream, TakeRecvErr, MainShutdown, mainOnly, recvVars,
         handlerVars, Return, AnswerInv
  <2>2. \A s \in Sids : Writing(s)' => Writing(s) /\ mresp' = mresp
    BY <1>1 DEF MainTop, TakeStatus, FinishStream, TakeRecvErr, MainShutdown, Return, Writing
  <2> QED
    BY <2>1, <2>2, AnswerKept DEF AnswerInv
<1> QED
  BY <1>1, AnswerTaken, AnswerWritten DEF Main

LEMMA AnswerHandler ==
  ASSUME TypeOK, AnswerInv, NEW s \in Sids, HandlerActs(s)
  PROVE  AnswerInv'
<1>1. UNCHANGED <<started, outbox, mpc, mresp, done>>
  BY DEF HandlerActs, HandlerStep, RecvMsgTakes, RecvMsgEOF, RecvMsgCancelled, RespondAborted,
       RecvMsg, SendMsg, HandlerReturns, Respond, ContextDone, handlerOnly, recvVars, mainVars
<1>2. ASSUME NEW t \in Sids, t # s PROVE AnswerOK(t)'
  <2>1. hpc'[t] = hpc[t] /\ out'[t] = out[t]
    BY <1>2 DEF HandlerActs, HandlerStep, RecvMsgTakes, RecvMsgEOF, RecvMsgCancelled,
         RespondAborted, RecvMsg, SendMsg, HandlerReturns, Respond, ContextDone, Move, handlerVars,
         TypeOK, HandlerTypeOK
  <2> QED
    BY <1>1, <2>1, AnswerKept DEF AnswerInv, Writing
<1>3. AnswerOK(s)'
  <2>1. CASE \E k \in {"data"} \cup Finals : Respond(s, k)
    <3>1. PICK k \in {"data"} \cup Finals : Respond(s, k)
      BY <2>1
    <3>2. /\ hpc[s] = "running" /\ hpc'[s] = "responding" /\ out'[s] = [sid |-> s, kind |-> k]
          /\ k # "status"
      BY <3>1 DEF Respond, Move, TypeOK, HandlerTypeOK, Finals
    <3> QED
      BY <1>1, <3>2 DEF AnswerInv, AnswerOK, Ended, Writing, Running
  <2>2. CASE RespondAborted(s)
    <3>1. done /\ mpc = "returned"
      BY <2>2 DEF RespondAborted, RespondGivesUp, AnswerInv
    <3>2. hpc[s] = "responding" /\ hpc'[s] \in {"returned", "running"} /\ out'[s] = out[s]
      BY <2>2 DEF RespondAborted, Move, TypeOK, HandlerTypeOK
    <3> QED
      BY <1>1, <3>1, <3>2 DEF AnswerInv, AnswerOK, Ended, Writing
  <2>3. CASE RecvMsgTakes(s) \/ RecvMsgEOF(s) \/ RecvMsgCancelled(s) \/ RecvMsg(s) \/ ContextDone(s)
    <3>1. /\ hpc'[s] = hpc[s] \/ (Running(s) /\ hpc'[s] \in {"running", "receiving"})
          /\ out'[s] = out[s]
      BY <2>3 DEF RecvMsgTakes, RecvMsgEOF, RecvMsgCancelled, RecvMsg, ContextDone, Move,
           handlerVars, Running, TypeOK, HandlerTypeOK
    <3> QED
      BY <1>1, <3>1, AnswerKept DEF AnswerInv, Writing
  <2> QED
    BY <2>1, <2>2, <2>3 DEF HandlerActs, HandlerStep, SendMsg, HandlerReturns, Finals
<1> QED
  BY <1>1, <1>2, <1>3 DEF AnswerInv

LEMMA AnswerNext == TypeOK /\ OrderInv /\ AnswerInv /\ [Moves]_vars => AnswerInv'
<1> SUFFICES ASSUME TypeOK, OrderInv, AnswerInv, [Moves]_vars PROVE AnswerInv'
  OBVIOUS
<1>1. ASSUME AnyEnvironment \/ UNCHANGED vars PROVE AnswerInv'
  <2>1. UNCHANGED <<started, outbox, out, hpc, mpc, mresp, done>>
    BY <1>1 DEF AnyEnvironment, SeeIdle, CloseIdle, ServerClose, ClientGoes, FrameSent, envOnly,
         recvVars, mainVars, handlerVars, vars
  <2> QED
    BY <2>1, AnswerKept DEF AnswerInv, Writing
<1> QED
  BY <1>1, AnswerReceiver, AnswerMain, AnswerHandler DEF Moves, HandlerActs

LEMMA AnswerInvariant == Spec => []AnswerInv
  BY AnswerInit, AnswerNext, ConnTypeCorrect, OrderInvariant, SpecMoves, PTL

-----------------------------------------------------------------------------
(* Where the frames and the handlers of a stream come from.                *)

\* The client sent something on the stream.
Asked(s) == sentIn[s] # <<>>

\* Whatever the connection does about a stream, the client sent on it before.
SourceInv ==
  /\ cur # NoFrame => Asked(cur.sid)
  /\ mresp # NoFrame => Asked(mresp.sid)
  /\ \A s \in Sids : hpc[s] # "none" => Asked(s)
  /\ \A s \in refused : Asked(s)
  /\ \A i \in DOMAIN outbox : Asked(outbox[i].sid)

LEMMA SourceInit == Init => SourceInv
  BY DEF Init, SourceInv

LEMMA SourceKept ==
  ASSUME TypeOK, SourceInv, \A s \in Sids : Asked(s) => sentIn'[s] # <<>>,
         cur' = cur \/ sentIn'[cur'.sid] # <<>>, mresp' = mresp \/ sentIn'[mresp'.sid] # <<>>,
         \A s \in Sids : hpc'[s] # "none" => hpc[s] # "none" \/ sentIn'[s] # <<>>,
         \A s \in refused' : s \in refused \/ sentIn'[s] # <<>>,
         outbox' = outbox \/ (outbox' = Append(outbox, mresp) /\ mresp # NoFrame)
  PROVE  SourceInv'
<1>1. cur # NoFrame => cur.sid \in Sids
  BY DEF TypeOK, ReceiverTypeOK, Frames
<1>2. mresp # NoFrame => mresp.sid \in Sids
  BY DEF TypeOK, MainTypeOK, Responses
<1>3. refused \subseteq Sids
  BY DEF TypeOK, ReceiverTypeOK
<1>4. ASSUME NEW i \in DOMAIN outbox' PROVE sentIn'[outbox'[i].sid] # <<>>
  <2>1. outbox \in Seq(Responses)
    BY DEF TypeOK, MainTypeOK
  <2>2. \A j \in DOMAIN outbox : outbox[j].sid \in Sids
    <3>1. \A j \in DOMAIN outbox : outbox[j] \in Responses
      BY <2>1
    <3> QED
      BY <3>1 DEF Responses
  <2>3. outbox' = Append(outbox, mresp) =>
          (i \in DOMAIN outbox /\ outbox'[i] = outbox[i]) \/ outbox'[i] = mresp
    BY <2>1
  <2> QED
    BY <1>2, <2>2, <2>3 DEF SourceInv
<1> QED
  BY <1>1, <1>2, <1>3, <1>4 DEF SourceInv, Asked

LEMMA SourceReceiver ==
  ASSUME TypeOK, FlightInv, SourceInv, Receiver
  PROVE  SourceInv'
<1>1. UNCHANGED <<sentIn, mresp, outbox>>
  BY DEF Receiver, ReceiverTop, ReceiveMalformed, ReceiveData, ReceiveRequest, ReceiveOther,
       TakeFrame, DataAccepted, DataAborted, DataWaits, DataFull, StoreStream, CountStream,
       StatusAborted, ReceiveFails, receiverOnly, mainVars, netVars
<1>2. \A s \in Sids : Asked(s) => sentIn'[s] # <<>>
  BY <1>1 DEF Asked
<1>3. CASE TakesFrame
  <2>1. /\ inbox # <<>> /\ cur' = Head(inbox) /\ Head(inbox) \in Frames
    BY <1>3, Taken
  <2>2. /\ \A s \in Sids : hpc'[s] # "none" => hpc[s] # "none" \/ s = Head(inbox).sid
        /\ \A s \in refused' : s \in refused \/ s = Head(inbox).sid
    BY <1>3 DEF TakesFrame, ReceiveMalformed, ReceiveData, ReceiveRequest, ReceiveOther, Refuse,
         Proceed, StartHandler, handlerVars, TypeOK, HandlerTypeOK
  <2>3. sentIn'[Head(inbox).sid] # <<>>
    <3>1. 1 \in DOMAIN inbox /\ Head(inbox) = inbox[1]
      BY <2>1, NetTypes
    <3>2. inbox[1].n \in DOMAIN sentIn[inbox[1].sid]
      BY <3>1 DEF FlightInv
    <3>3. sentIn[inbox[1].sid] # <<>>
      BY <3>2
    <3> QED
      BY <1>1, <3>1, <3>3 DEF Asked
  <2> QED
    BY <1>1, <1>2, <2>1, <2>2, <2>3, SourceKept
<1>4. CASE ~TakesFrame
  <2>1. UNCHANGED <<cur, hpc>>
    BY <1>4 DEF Receiver, TakesFrame, ReceiverTop, DataAccepted, DataAborted, DataWaits, DataFull,
         StoreStream, CountStream, StatusAborted, ReceiveFails, receiverOnly, handlerVars
  <2>2. \A s \in refused' : s \in refused \/ (s = cur.sid /\ cur # NoFrame)
    BY <1>4 DEF Receiver, TakesFrame, ReceiverTop, DataAccepted, DataAborted, DataWaits, DataFull,
         TimerFires, FullRefused, Refuse, Proceed, StoreStream, CountStream, StatusAborted,
         ReceiveFails, receiverOnly, TypeOK, ReceiverTypeOK
  <2>3. cur # NoFrame => sentIn'[cur.sid] # <<>>
    BY <1>1 DEF SourceInv, Asked
  <2> QED
    BY <1>1, <1>2, <2>1, <2>2, <2>3, SourceKept
<1> QED
  BY <1>3, <1>4

LEMMA SourceMain ==
  ASSUME TypeOK, AnswerInv, SourceInv, Main
  PROVE  SourceInv'
<1>1. UNCHANGED <<sentIn, cur, refused>>
  BY DEF Main, MainTop, TakeStatus, TakeResponse, WriteResponse, FinishStream, TakeRecvErr,
       MainShutdown, mainOnly, recvVars, netVars
<1>2. \A s \in Sids : sentIn'[s] # <<>> <=> Asked(s)
  BY <1>1 DEF Asked
<1>3. \A s \in Sids : hpc'[s] # "none" => hpc[s] # "none"
  BY DEF Main, MainTop, TakeStatus, TakeResponse, WriteResponse, FinishStream, TakeRecvErr,
       MainShutdown, handlerVars, TypeOK, HandlerTypeOK
<1>4. outbox' = outbox \/ (outbox' = Append(outbox, mresp) /\ mresp # NoFrame)
  BY DEF Main, MainTop, TakeStatus, TakeResponse, WriteResponse, FinishStream, TakeRecvErr,
       MainShutdown, Return, TypeOK, MainTypeOK
<1>5. mresp' = mresp \/ sentIn'[mresp'.sid] # <<>>
  <2>1. CASE TakeStatus
    BY <1>1, <2>1 DEF TakeStatus, SourceInv, TypeOK, ReceiverTypeOK, Asked
  <2>2. ASSUME NEW s \in Sids, TakeResponse(s) PROVE sentIn'[mresp'.sid] # <<>>
    <3>1. hpc[s] = "responding" /\ mresp' = out[s]
      BY <2>2 DEF TakeResponse
    <3>2. out[s].sid = s /\ Asked(s)
      BY <3>1 DEF AnswerInv, AnswerOK, SourceInv
    <3> QED
      BY <1>2, <3>1, <3>2
  <2> QED
    BY <2>1, <2>2 DEF Main, MainTop, WriteResponse, FinishStream, TakeRecvErr, MainShutdown
<1> QED
  BY <1>1, <1>2, <1>3, <1>4, <1>5, SourceKept

LEMMA SourceNext == TypeOK /\ FlightInv /\ AnswerInv /\ SourceInv /\ [Moves]_vars => SourceInv'
<1> SUFFICES ASSUME TypeOK, FlightInv, AnswerInv, SourceInv, [Moves]_vars PROVE SourceInv'
  OBVIOUS
<1>1. CASE AnyEnvironment \/ UNCHANGED vars
  <2>1. UNCHANGED <<cur, refused, mresp, outbox, hpc>>
    BY <1>1 DEF AnyEnvironment, SeeIdle, CloseIdle, ServerClose, ClientGoes, FrameSent, envOnly,
         recvVars, mainVars, handlerVars, vars
  <2>2. ASSUME NEW s \in Sids, Asked(s) PROVE sentIn'[s] # <<>>
    <3>1. CASE sentIn' = sentIn
      BY <2>2, <3>1 DEF Asked
    <3>2. ASSUME NEW t \in Sids, NEW k \in ClientKinds, FrameSent(t, k) PROVE sentIn'[s] # <<>>
      BY <2>2, <3>2, NetTypes DEF FrameSent, FrameArrives, Asked
    <3> QED
      BY <1>1, <3>1, <3>2
      DEF AnyEnvironment, SeeIdle, CloseIdle, ServerClose, ClientGoes, netVars, vars
  <2> QED
    BY <2>1, <2>2, SourceKept
<1>2. ASSUME NEW s \in Sids, HandlerActs(s) PROVE SourceInv'
  <2>1. UNCHANGED <<sentIn, cur, refused, mresp, outbox>>
    BY <1>2 DEF HandlerActs, HandlerStep, RecvMsgTakes, RecvMsgEOF, RecvMsgCancelled,
         RespondAborted, RecvMsg, SendMsg, HandlerReturns, Respond, ContextDone, handlerOnly,
         recvVars, mainVars, netVars
  <2>2. \A t \in Sids : hpc'[t] # "none" => hpc[t] # "none"
    BY <1>2 DEF HandlerActs, HandlerStep, RecvMsgTakes, RecvMsgEOF, RecvMsgCancelled,
         RespondAborted, RecvMsg, SendMsg, HandlerReturns, Respond, ContextDone, Move,
         handlerVars, TypeOK, HandlerTypeOK
  <2>3. \A t \in Sids : Asked(t) => sentIn'[t] # <<>>
    BY <2>1 DEF Asked
  <2> QED
    BY <2>1, <2>2, <2>3, SourceKept
<1> QED
  BY <1>1, <1>2, SourceReceiver, SourceMain DEF Moves
=============================================================================
