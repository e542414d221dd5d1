--------------------------- MODULE UnaryCallProofs ---------------------------
(***************************************************************************)
(* Proofs about UnaryCall: what becomes of the deadline, of the result and *)
(* of the metadata of a call, and which interceptors are around its        *)
(* method.                                                                 *)
(***************************************************************************)
EXTENDS UnaryCall, TLAPS, WellFoundedInduction, FiniteSetTheorems

-----------------------------------------------------------------------------
(* Sequences whose elements are of no type in particular.                  *)

IsSeq(s) == s \in Seq(ToSet(s))

\* A sequence over any set is one over the set of its elements.
LEMMA SeqIsSeq ==
  ASSUME NEW S, NEW s \in Seq(S)
  PROVE  IsSeq(s)
<1>1. s \in [1 .. Len(s) -> ToSet(s)] /\ Len(s) \in Nat
  BY DEF ToSet
<1> QED
  BY <1>1 DEF IsSeq

\* What is appended comes last, and all else stays.
LEMMA Appended ==
  ASSUME NEW s, IsSeq(s), NEW e
  PROVE  /\ IsSeq(Append(s, e)) /\ Len(Append(s, e)) = Len(s) + 1
         /\ Append(s, e)[Len(s) + 1] = e
         /\ \A n \in 1 .. Len(s) : Append(s, e)[n] = s[n]
<1> DEFINE T == ToSet(s) \cup {e}
<1>1. s \in Seq(T) /\ e \in T
  <2>1. s \in [1 .. Len(s) -> ToSet(s)] /\ Len(s) \in Nat
    BY DEF IsSeq
  <2>2. s \in [1 .. Len(s) -> T]
    BY <2>1
  <2> QED
    BY <2>1, <2>2
<1> HIDE DEF T
<1>2. Append(s, e) \in Seq(T)
  BY <1>1
<1>3. IsSeq(Append(s, e))
  BY <1>2, SeqIsSeq
<1> QED
  BY <1>1, <1>3

\* Front takes the last element away, and nothing else.
LEMMA Shortened ==
  ASSUME NEW s, IsSeq(s), s # <<>>
  PROVE  /\ IsSeq(Front(s)) /\ Len(Front(s)) = Len(s) - 1 /\ Len(s) \in Nat /\ Len(s) > 0
         /\ \A n \in 1 .. Len(s) - 1 : Front(s)[n] = s[n]
<1>1. s \in Seq(ToSet(s)) /\ Len(s) \in Nat /\ Len(s) > 0
  BY DEF IsSeq
<1>2. Front(s) \in Seq(ToSet(s))
  BY <1>1 DEF Front
<1>3. IsSeq(Front(s))
  BY <1>2, SeqIsSeq
<1>4. PICK m \in 0 .. Len(s) : m = Len(s) - 1
  <2>1. Len(s) - 1 \in 0 .. Len(s)
    BY <1>1
  <2> QED
    BY <2>1
<1>5. Len(SubSeq(s, 1, m)) = m /\ \A n \in 1 .. m : SubSeq(s, 1, m)[n] = s[n]
  BY <1>1
<1>6. Front(s) = SubSeq(s, 1, m)
  BY <1>4 DEF Front
<1> QED
  BY <1>1, <1>3, <1>4, <1>5, <1>6

-----------------------------------------------------------------------------
(* Where a call is: the frames of the client's interceptors, the           *)
(* connection once the request is on its way, and then the frames of the   *)
(* server's.                                                               *)

\* The client's frames are the first w; the connection, if any, comes next.
Split(w) ==
  /\ \A n \in 1 .. w : stack[n].side = "client"
  /\ w < Len(stack) => stack[w + 1].side = "wire"
  /\ \A n \in w + 2 .. Len(stack) : stack[n].side = "server"

\* The frames agree with where the call is.
Placed(w) ==
  /\ Split(w)
  /\ pc = "client" => w = Len(stack)
  /\ pc \in {"server", "method"} => w < Len(stack)
  /\ pc = "route" => w + 1 = Len(stack)

Places == {"noServer", "panic", "build", "client", "route", "server", "method", "into",
           "result", "done"}
StackInv ==
  /\ pc \in Places /\ IsSeq(stack)
  /\ pc \in {"noServer", "panic", "build"} => stack = <<>>
  /\ pc = "into" => stack # <<>> /\ Last(stack).side # "wire"
  /\ \E w \in 0 .. Len(stack) : Placed(w)

\* Pushing a frame: from which side to where, and that it belongs there.
Pushes(side, frame) ==
  /\ pc = side /\ stack' = Append(stack, frame) /\ frame.side \in {side, "wire"}
  /\ frame.side = "wire" => side = "client"
  /\ pc' = IF frame.side = "wire" THEN "route" ELSE "into"

LEMMA PushKeepsStack ==
  ASSUME StackInv, NEW side \in {"client", "server"}, NEW frame, Pushes(side, frame)
  PROVE  StackInv'
<1>1. IsSeq(stack) /\ Len(stack) \in Nat
  BY DEF StackInv, IsSeq
<1>2. /\ IsSeq(stack') /\ Len(stack') = Len(stack) + 1 /\ stack'[Len(stack) + 1] = frame
      /\ \A n \in 1 .. Len(stack) : stack'[n] = stack[n]
  BY <1>1, Appended DEF Pushes
<1>3. stack' # <<>> /\ Last(stack') = frame
  BY <1>1, <1>2 DEF Last
<1>4. PICK w \in 0 .. Len(stack) : Placed(w)
  BY DEF StackInv
<1>5. side = "client" => w = Len(stack)
  BY <1>4 DEF Placed, Pushes
<1>6. side = "server" => w < Len(stack)
  BY <1>4 DEF Placed, Pushes
<1>7. CASE frame.side = "client"
  <2>1. Placed(w + 1)' /\ w + 1 \in 0 .. Len(stack')
    BY <1>1, <1>2, <1>4, <1>5, <1>7 DEF Placed, Split, Pushes
  <2> QED
    BY <1>2, <1>3, <1>7, <2>1 DEF StackInv, Places, Pushes
<1>8. CASE frame.side \in {"wire", "server"}
  <2>1. Placed(w)' /\ w \in 0 .. Len(stack')
    BY <1>1, <1>2, <1>4, <1>5, <1>6, <1>8 DEF Placed, Split, Pushes
  <2> QED
    BY <1>2, <1>3, <1>8, <2>1 DEF StackInv, Places, Pushes
<1> QED
  BY <1>7, <1>8 DEF Pushes

\* A frame is popped when the interceptor or the connection is done with.
LEMMA PopKeepsStack ==
  ASSUME StackInv, stack # <<>>, stack' = Front(stack), pc' = "result"
  PROVE  StackInv'
<1>1. /\ IsSeq(stack') /\ Len(stack') = Len(stack) - 1 /\ Len(stack) \in Nat /\ Len(stack) > 0
      /\ \A n \in 1 .. Len(stack) - 1 : stack'[n] = stack[n]
  BY Shortened DEF StackInv
<1>2. PICK w \in 0 .. Len(stack) : Placed(w)
  BY DEF StackInv
<1>3. CASE w = Len(stack)
  <2>1. Placed(w - 1)' /\ w - 1 \in 0 .. Len(stack')
    BY <1>1, <1>2, <1>3 DEF Placed, Split
  <2> QED
    BY <1>1, <2>1 DEF StackInv, Places
<1>4. CASE w < Len(stack)
  <2>1. Placed(w)' /\ w \in 0 .. Len(stack')
    BY <1>1, <1>2, <1>4 DEF Placed, Split
  <2> QED
    BY <1>1, <2>1 DEF StackInv, Places
<1> QED
  BY <1>1, <1>2, <1>3, <1>4

\* The call begins or ends, or nothing moves.
LEMMA StackAside ==
  ASSUME StackInv, UNCHANGED stack,
         \/ pc' = pc
         \/ pc = "build" /\ pc' \in {"panic", "client", "done"}
         \/ pc' = "result" /\ pc \in {"client", "method", "result"}
         \/ pc' = "method" /\ pc = "server"
         \/ pc' = "done" /\ pc = "result"
  PROVE  StackInv'
<1>1. PICK w \in 0 .. Len(stack) : Placed(w)
  BY DEF StackInv
<1>2. pc = "build" => stack = <<>> /\ w = Len(stack)
  BY <1>1 DEF StackInv
<1>3. Placed(w)'
  BY <1>1, <1>2 DEF Placed, Split
<1> QED
  BY <1>1, <1>2, <1>3 DEF StackInv, Places

LEMMA StackGoOn ==
  ASSUME StackInv, GoOn
  PROVE  StackInv'
<1>1. UNCHANGED stack /\ stack # <<>> /\ Last(stack).side # "wire" /\ pc' = Last(stack).side
  BY DEF GoOn, StackInv
<1>2. stack \in Seq(ToSet(stack)) /\ Len(stack) \in Nat /\ Len(stack) > 0
  BY <1>1 DEF StackInv, IsSeq
<1>3. PICK w \in 0 .. Len(stack) : Placed(w)
  BY DEF StackInv
<1>4. Last(stack) = stack[Len(stack)]
  BY DEF Last
<1>5. CASE w = Len(stack)
  <2>1. pc' = "client"
    BY <1>1, <1>2, <1>3, <1>4, <1>5 DEF Placed, Split
  <2>2. Placed(w)'
    BY <1>1, <1>3, <1>5, <2>1 DEF Placed, Split
  <2> QED
    BY <1>1, <1>3, <2>1, <2>2 DEF StackInv, Places
<1>6. CASE w < Len(stack)
  <2>1. pc' = "server"
    BY <1>1, <1>2, <1>3, <1>4, <1>6 DEF Placed, Split
  <2>2. Placed(w)'
    BY <1>1, <1>3, <1>6, <2>1 DEF Placed, Split
  <2> QED
    BY <1>1, <1>3, <2>1, <2>2 DEF StackInv, Places
<1> QED
  BY <1>2, <1>3, <1>5, <1>6

LEMMA StackContinue ==
  ASSUME StackInv, Continue
  PROVE  StackInv'
<1>1. CASE Head(k).kind = "one"
  <2>1. PICK frame : frame = [side |-> pc, i |-> Head(k).i, next |-> Tail(k)]
    OBVIOUS
  <2>2. pc \in {"client", "server"} /\ Pushes(pc, frame)
    BY <1>1, <2>1 DEF Continue, Pushes
  <2> QED
    BY <2>2, PushKeepsStack
<1>2. CASE Head(k).kind # "one"
  BY <1>2, StackAside DEF Continue
<1> QED
  BY <1>1, <1>2

LEMMA StackDispatch ==
  ASSUME StackInv, Dispatch
  PROVE  StackInv'
<1>1. PICK frame : frame = [side |-> "wire"]
  OBVIOUS
<1>2. Pushes("client", frame)
  BY <1>1 DEF Dispatch, Pushes
<1> QED
  BY <1>2, PushKeepsStack

LEMMA StackHandle ==
  ASSUME StackInv, Handle
  PROVE  StackInv'
<1>1. PICK w \in 0 .. Len(stack) : Placed(w)
  BY DEF StackInv
<1>2. UNCHANGED stack /\ pc = "route" /\ pc' = "server"
  BY DEF Handle
<1>3. w + 1 = Len(stack)
  BY <1>1, <1>2 DEF Placed
<1>4. Placed(w)'
  BY <1>1, <1>2, <1>3 DEF Placed, Split
<1> QED
  BY <1>1, <1>2, <1>4 DEF StackInv, Places

LEMMA StackPops ==
  ASSUME StackInv, Refuse \/ PassOn \/ Unimplemented \/ Respond
  PROVE  StackInv' /\ stack # <<>>
<1>1. stack # <<>>
  <2>1. PICK w \in 0 .. Len(stack) : Placed(w)
    BY DEF StackInv
  <2>2. CASE Unimplemented
    <3>1. w + 1 = Len(stack)
      BY <2>1, <2>2 DEF Unimplemented, Placed
    <3> QED
      BY <2>1, <3>1
  <2> QED
    BY <2>2 DEF StackInv, Refuse, PassOn, Respond
<1>2. stack' = Front(stack) /\ pc' = "result"
  BY DEF Refuse, PassOn, Unimplemented, Respond
<1> QED
  BY <1>1, <1>2, PopKeepsStack

LEMMA StackNext ==
  ASSUME StackInv, [CallNext]_<<vars, configVars, callVars>>
  PROVE  StackInv'
<1>1. CASE Continue
  BY <1>1, StackContinue
<1>2. CASE GoOn
  BY <1>2, StackGoOn
<1>3. CASE Dispatch
  BY <1>3, StackDispatch
<1>4. CASE Handle
  BY <1>4, StackHandle
<1>5. CASE Refuse \/ PassOn \/ Unimplemented \/ Respond
  BY <1>5, StackPops
<1>6. CASE Prepare \/ Register \/ CallUnmarshalable \/ UNCHANGED <<vars, configVars, callVars>>
  BY <1>6, StackAside DEF Prepare, Register, CallUnmarshalable, callVars
<1>7. ASSUME NEW h \in Handles, NEW until \in Untils, Call(h, until) PROVE StackInv'
  BY <1>7, StackAside DEF Call
<1>8. CASE DispatchFails \/ Begin \/ MethodReturns
  BY <1>8, StackAside DEF DispatchFails, Begin, MethodReturns
<1>9. ASSUME NEW typed \in BOOLEAN, CallReturns(typed) PROVE StackInv'
  BY <1>9, StackAside DEF CallReturns
<1> QED
  BY <1>1, <1>2, <1>3, <1>4, <1>5, <1>6, <1>7, <1>8, <1>9 DEF CallNext

LEMMA InitStack ==
  ASSUME CallInit
  PROVE  StackInv
<1>1. stack = <<>> /\ pc \in {"noServer", "build"}
  BY DEF CallInit
<1>2. IsSeq(stack)
  <2>1. <<>> \in Seq({})
    OBVIOUS
  <2> QED
    BY <1>1, <2>1, SeqIsSeq
<1>3. Placed(0) /\ 0 \in 0 .. Len(stack)
  BY <1>1 DEF Placed, Split
<1> QED
  BY <1>1, <1>2, <1>3 DEF StackInv, Places

-----------------------------------------------------------------------------
(* The deadline.  What the request carries is what the caller had left;    *)
(* once the server has made a deadline of it, that one is still there when *)
(* an interceptor of the server calls its next again.                      *)

DeadlineKept ==
  IF asked.deadline \in {NoDeadline, 0} THEN hctx.deadline = NoDeadline
  ELSE hctx.deadline # NoDeadline /\ hctx.deadline >= asked.deadline

OnServer == pc \in {"server", "method"} \/ \E n \in 1 .. Len(stack) : stack[n].side = "server"

TimesInv ==
  /\ now \in Nat
  /\ pc \in {"client", "route", "server", "method", "into", "result"} =>
       asked.deadline \in Untils /\ creq.timeout = TimeoutNano(asked.deadline)
  /\ OnServer => DeadlineKept

\* What no more than passes the call on changes none of it.
LEMMA TimesAside ==
  ASSUME TimesInv, UNCHANGED <<now, creq, asked, hctx>>, OnServer' => OnServer,
         \/ pc \in {"client", "route", "server", "method", "into", "result"}
         \/ pc' \in {"panic", "build", "done"}
  PROVE  TimesInv'
BY DEF TimesInv, DeadlineKept

LEMMA OnServerAfter ==
  ASSUME StackInv, Continue \/ GoOn \/ Refuse \/ PassOn \/ Respond \/ Unimplemented
  PROVE  OnServer' => OnServer
<1>0. IsSeq(stack) /\ Len(stack) \in Nat
  BY DEF StackInv, IsSeq
<1>1. CASE Continue
  <2>1. CASE Head(k).kind = "one"
    <3>1. PICK frame : frame = [side |-> pc, i |-> Head(k).i, next |-> Tail(k)]
      OBVIOUS
    <3>2. stack' = Append(stack, frame) /\ frame.side = pc /\ pc' = "into"
      BY <1>1, <2>1, <3>1 DEF Continue
    <3>3. /\ Len(stack') = Len(stack) + 1 /\ stack'[Len(stack) + 1] = frame
          /\ \A n \in 1 .. Len(stack) : stack'[n] = stack[n]
      BY <1>0, <3>2, Appended
    <3> QED
      BY <1>0, <3>2, <3>3 DEF OnServer
  <2> QED
    BY <1>1, <2>1 DEF Continue, OnServer
<1>2. CASE GoOn
  <2>1. UNCHANGED stack /\ stack # <<>> /\ pc' = stack[Len(stack)].side
    BY <1>2 DEF GoOn, StackInv, Last
  <2>2. Len(stack) \in 1 .. Len(stack)
    BY <2>1 DEF StackInv, IsSeq
  <2>3. pc' \in {"server", "method"} => \E n \in 1 .. Len(stack) : stack[n].side = "server"
    <3>1. PICK w \in 0 .. Len(stack) : Placed(w)
      BY DEF StackInv
    <3>2. stack[Len(stack)].side \in {"client", "wire", "server"}
      BY <1>0, <2>2, <3>1 DEF Placed, Split
    <3> QED
      BY <2>1, <2>2, <3>2
  <2> QED
    BY <2>1, <2>3 DEF OnServer
<1>3. CASE Refuse \/ PassOn \/ Respond \/ Unimplemented
  <2>1. stack' = Front(stack) /\ pc' = "result" /\ stack # <<>>
    BY <1>3, StackPops DEF Refuse, PassOn, Unimplemented, Respond
  <2>2. Len(stack') = Len(stack) - 1 /\ \A n \in 1 .. Len(stack) - 1 : stack'[n] = stack[n]
    BY <1>0, <2>1, Shortened
  <2> QED
    BY <1>0, <2>1, <2>2 DEF OnServer
<1> QED
  BY <1>1, <1>2, <1>3

LEMMA TimesNext ==
  ASSUME StackInv, TimesInv, [CallNext]_<<vars, configVars, callVars>>
  PROVE  TimesInv'
<1>1. CASE Continue \/ GoOn \/ Refuse \/ PassOn \/ Respond \/ Unimplemented
  <2>1. UNCHANGED <<now, creq, asked, hctx>>
    BY <1>1 DEF Continue, GoOn, Refuse, PassOn, Respond, Unimplemented, quiet
  <2>2. pc \in {"client", "route", "server", "into", "result"}
    BY <1>1 DEF Continue, GoOn, Refuse, PassOn, Respond, Unimplemented
  <2> QED
    BY <1>1, <2>1, <2>2, OnServerAfter, TimesAside
<1>2. CASE Prepare \/ Register \/ CallUnmarshalable
  <2>1. UNCHANGED <<now, creq, asked, hctx, stack>> /\ pc = "build"
    BY <1>2 DEF Prepare, Register, CallUnmarshalable, callVars
  <2>2. pc' \in {"build", "panic", "done"}
    BY <1>2 DEF Prepare, Register, CallUnmarshalable, callVars
  <2> QED
    BY <2>1, <2>2, TimesAside DEF OnServer
<1>3. ASSUME NEW h \in Handles, NEW until \in Untils, Call(h, until) PROVE TimesInv'
  <2>1. stack = <<>> /\ UNCHANGED <<now, stack>> /\ pc' = "client"
    BY <1>3 DEF Call, StackInv
  <2>2. asked'.deadline = until /\ creq'.timeout = TimeoutNano(until)
    BY <1>3 DEF Call
  <2> QED
    BY <2>1, <2>2 DEF TimesInv, OnServer, TimeoutNano
<1>4. CASE Dispatch
  <2>1. PICK d \in Delays : now' = now + d
    BY <1>4 DEF Dispatch
  <2>2. now' \in Nat
    BY <2>1, TimesAssumption DEF TimesInv
  <2>3. /\ UNCHANGED <<creq, asked, hctx>> /\ pc = "client" /\ pc' = "route"
        /\ stack' = Append(stack, [side |-> "wire"])
    BY <1>4 DEF Dispatch
  <2>4. PICK frame : frame = [side |-> "wire"]
    OBVIOUS
  <2>5. IsSeq(stack) /\ Len(stack) \in Nat /\ stack' = Append(stack, frame)
    BY <2>3, <2>4 DEF StackInv, IsSeq
  <2>6. /\ Len(stack') = Len(stack) + 1 /\ stack'[Len(stack) + 1] = frame
        /\ \A n \in 1 .. Len(stack) : stack'[n] = stack[n]
    BY <2>5, Appended
  <2>7. OnServer' => OnServer
    BY <2>3, <2>4, <2>5, <2>6 DEF OnServer
  <2> QED
    BY <2>2, <2>3, <2>7 DEF TimesInv, DeadlineKept
<1>5. CASE DispatchFails \/ Begin \/ MethodReturns
  <2>1. UNCHANGED <<now, creq, asked, hctx, stack>> /\ pc \in {"client", "server", "method"}
    BY <1>5 DEF DispatchFails, Begin, MethodReturns, quiet
  <2>2. pc' \in {"server", "method"} => pc = "server"
    BY <1>5 DEF DispatchFails, Begin, MethodReturns
  <2> QED
    BY <2>1, <2>2, TimesAside DEF OnServer
<1>6. CASE Handle
  <2>1. UNCHANGED <<now, creq, asked>> /\ pc = "route" /\ hctx'.deadline = DeadlineOf(creq.timeout)
    BY <1>6 DEF Handle, quiet
  <2>2. /\ now \in Nat /\ asked.deadline \in Int \cup {NoDeadline} /\ NoDeadline \notin Int
        /\ creq.timeout = TimeoutNano(asked.deadline) /\ asked.deadline \in Untils
    BY <2>1, TimesAssumption DEF TimesInv
  <2>3. DeadlineKept'
    BY <2>1, <2>2 DEF DeadlineKept, DeadlineOf, TimeoutNano
  <2> QED
    BY <2>1, <2>2, <2>3 DEF TimesInv
<1>7. ASSUME NEW typed \in BOOLEAN, CallReturns(typed) PROVE TimesInv'
  BY <1>7, TimesAside DEF CallReturns, quiet, OnServer
<1>8. CASE UNCHANGED <<vars, configVars, callVars>>
  BY <1>8 DEF callVars, TimesInv, OnServer, DeadlineKept
<1> QED
  BY <1>1, <1>2, <1>3, <1>4, <1>5, <1>6, <1>7, <1>8 DEF CallNext

\* The method is under a deadline no earlier than the caller's, however late
\* the request and however often it is sent again (getRequestContext).
THEOREM DeadlineKeptOnTheWay == CallSpec => []DeadlineArrives
<1>1. CallInit => StackInv /\ TimesInv
  <2> SUFFICES ASSUME CallInit PROVE StackInv /\ TimesInv
    OBVIOUS
  <2>1. stack = <<>> /\ pc \in {"noServer", "build"} /\ now = 0
    BY DEF CallInit
  <2> QED
    BY <2>1, InitStack DEF TimesInv, OnServer
<1>2. StackInv /\ TimesInv /\ [CallNext]_<<vars, configVars, callVars>> => StackInv' /\ TimesInv'
  BY StackNext, TimesNext
<1>3. StackInv /\ TimesInv => DeadlineArrives
  BY DEF TimesInv, OnServer, DeadlineKept, DeadlineArrives
<1> QED
  BY <1>1, <1>2, <1>3, PTL DEF CallSpec

-----------------------------------------------------------------------------
(* The result.  On the server it is what the method or an interceptor      *)
(* returned last; on the client it is an error of the client's own, or the *)
(* status of the response tells of what the server returned.               *)

CallPassed == \E n \in 1 .. Len(stack) : stack[n].side = "wire"
FromServer(r) == r \in Returns \/ r = Failure("refused")

ResultInv ==
  /\ pc = "result" =>
       IF CallPassed THEN res = origin /\ FromServer(origin)
       ELSE \/ res = origin /\ origin \in {Failure("refused"), Failure("transport")}
            \/ res = Nothing /\ cresp = StatusOf(origin) /\ FromServer(origin)
            \/ res = Nothing /\ cresp = "Unimplemented" /\ origin = Failure("unimplemented")
  /\ ResultArrives

\* The status is OK for a message and nothing else, and keeps the errors that
\* carry a status and those of the context.
LEMMA StatusTells ==
  ASSUME NEW r, FromServer(r)
  PROVE  /\ StatusOf(r) = "OK" <=> r = [resp |-> "message", err |-> "none"]
         /\ StatusOf(r) # "ok" /\ r.err # "transport"
         /\ r.err \in StatusErrors \cup {"Canceled", "DeadlineExceeded"} => StatusOf(r) = r.err
<1>1. /\ r = [resp |-> r.resp, err |-> r.err] /\ r.err # "transport"
  BY ReturnsAssumption DEF FromServer, Failure
<1>2. CASE r.err \in StatusErrors
  <2>1. r.err \notin {"none", "OK", "ok", "transport"}
    BY <1>2 DEF StatusErrors
  <2>2. StatusOf(r) = r.err
    BY <1>2, <2>1 DEF StatusOf, CodeOf
  <2>3. r # [resp |-> "message", err |-> "none"]
    BY <2>1
  <2> QED
    BY <2>1, <2>2, <2>3
<1>3. CASE r.err = "none"
  <2>1. StatusOf(r) = IF r.resp = "nil" THEN "Unknown"
                      ELSE IF r.resp = "message" THEN "OK" ELSE "Internal"
    BY <1>3 DEF StatusOf, ConvertCode
  <2>2. r = [resp |-> "message", err |-> "none"] <=> r.resp = "message"
    BY <1>1, <1>3
  <2>3. r.err \notin StatusErrors \cup {"Canceled", "DeadlineExceeded", "transport"}
    BY <1>3 DEF StatusErrors
  <2> QED
    BY <2>1, <2>2, <2>3
<1>4. CASE r.err \notin StatusErrors \cup {"none"}
  <2>1. StatusOf(r) = ConvertCode(r.err)
    BY <1>4 DEF StatusOf, CodeOf
  <2>2. /\ ConvertCode(r.err) \notin {"OK", "ok"}
        /\ r.err \in {"Canceled", "DeadlineExceeded"} => ConvertCode(r.err) = r.err
    BY DEF ConvertCode
  <2> QED
    BY <1>1, <1>4, <2>1, <2>2
<1> QED
  BY <1>2, <1>3, <1>4

LEMMA ResultReturned ==
  ASSUME StackInv, ResultInv, NEW typed \in BOOLEAN, CallReturns(typed)
  PROVE  ResultInv'
<1>1. /\ pc = "result" /\ stack = <<>> /\ pc' = "done" /\ UNCHANGED origin
      /\ ret' = IF res.err = "none" /\ ~typed THEN "unmarshal" ELSE Outcome
  BY DEF CallReturns
<1>2. ~CallPassed
  BY <1>1 DEF CallPassed
<1>3. SUFFICES ASSUME ret' # "unmarshal" PROVE ResultArrives'
  BY <1>1 DEF ResultInv, ResultArrives
<1>4. ret' = IF res.err # "none" THEN res.err ELSE IF cresp # "OK" THEN cresp ELSE "ok"
  BY <1>1, <1>3 DEF Outcome
<1>5. CASE res = origin /\ origin \in {Failure("refused"), Failure("transport")}
  BY <1>1, <1>4, <1>5 DEF Failure, ResultArrives
<1>6. CASE res = Nothing /\ cresp = StatusOf(origin) /\ FromServer(origin)
  <2>1. ret' = IF cresp # "OK" THEN cresp ELSE "ok"
    BY <1>4, <1>6 DEF Nothing
  <2>2. /\ cresp = "OK" <=> origin = [resp |-> "message", err |-> "none"]
        /\ cresp # "ok" /\ origin.err # "transport"
        /\ origin.err \in StatusErrors \cup {"Canceled", "DeadlineExceeded"} => cresp = origin.err
    BY <1>6, StatusTells
  <2>3. origin = [resp |-> "message", err |-> "none"] =>
          origin.err \notin StatusErrors \cup {"Canceled", "DeadlineExceeded", "transport"}
    BY DEF StatusErrors
  <2> QED
    BY <1>1, <2>1, <2>2, <2>3 DEF ResultArrives
<1>7. CASE res = Nothing /\ cresp = "Unimplemented" /\ origin = Failure("unimplemented")
  BY <1>1, <1>4, <1>7 DEF Failure, Nothing, StatusErrors, ResultArrives
<1> QED
  BY <1>1, <1>2, <1>5, <1>6, <1>7 DEF ResultInv

LEMMA ResultNext ==
  ASSUME StackInv, ResultInv, [CallNext]_<<vars, configVars, callVars>>
  PROVE  ResultInv'
<1>0. IsSeq(stack) /\ Len(stack) \in Nat
  BY DEF StackInv, IsSeq
<1>w. PICK w \in 0 .. Len(stack) : Placed(w)
  BY DEF StackInv
<1>1. CASE Prepare \/ Register \/ Continue \/ GoOn \/ Dispatch \/ Handle \/ Begin
  <2>1. pc' \notin {"result", "done"}
    <3>1. CASE GoOn
      BY <1>0, <1>w, <3>1 DEF GoOn, Last, Placed, Split, StackInv
    <3>2. CASE Prepare
      BY <3>2 DEF Prepare, callVars
    <3> QED
      BY <1>1, <3>1, <3>2 DEF Register, Continue, Dispatch, Handle, Begin
  <2> QED
    BY <2>1 DEF ResultInv, ResultArrives
<1>2. CASE CallUnmarshalable
  BY <1>2 DEF CallUnmarshalable, ResultInv, ResultArrives
<1>3. ASSUME NEW h \in Handles, NEW until \in Untils, Call(h, until) PROVE ResultInv'
  BY <1>3 DEF Call, ResultInv, ResultArrives
<1>4. CASE Refuse \/ PassOn \/ Unimplemented \/ Respond
  <2>1. stack' = Front(stack) /\ pc' = "result" /\ stack # <<>>
    BY <1>4, StackPops DEF Refuse, PassOn, Unimplemented, Respond
  <2>2. /\ Len(stack') = Len(stack) - 1 /\ Len(stack) > 0
        /\ \A n \in 1 .. Len(stack) - 1 : stack'[n] = stack[n]
    BY <1>0, <2>1, Shortened
  <2>3. Last(stack) = stack[Len(stack)] /\ ResultArrives'
    BY <2>1 DEF Last, ResultArrives
  <2>4. CASE Refuse
    BY <2>1, <2>3, <2>4 DEF Refuse, ResultInv, FromServer
  <2>5. CASE PassOn
    <3>1. CallPassed' <=> CallPassed
      BY <1>0, <2>2, <2>3, <2>5 DEF PassOn, CallPassed
    <3>2. pc = "result" /\ UNCHANGED <<res, origin, cresp>>
      BY <2>5 DEF PassOn
    <3> QED
      BY <2>3, <3>1, <3>2 DEF ResultInv
  <2>6. CASE Unimplemented
    <3>1. w + 1 = Len(stack)
      BY <1>w, <2>6 DEF Unimplemented, Placed
    <3>2. ~CallPassed'
      BY <1>0, <1>w, <2>2, <3>1 DEF CallPassed, Placed, Split
    <3> QED
      BY <2>3, <2>6, <3>2 DEF Unimplemented, ResultInv
  <2>7. CASE Respond
    <3>1. stack[Len(stack)].side = "wire" /\ pc = "result"
      BY <2>3, <2>7 DEF Respond
    <3>2. w + 1 = Len(stack)
      BY <1>0, <1>w, <2>2, <3>1 DEF Placed, Split
    <3>3. ~CallPassed'
      BY <1>0, <1>w, <2>2, <3>2 DEF CallPassed, Placed, Split
    <3>4. CallPassed
      BY <1>0, <2>2, <3>1 DEF CallPassed
    <3>5. res = origin /\ FromServer(origin)
      BY <3>1, <3>4 DEF ResultInv
    <3> QED
      BY <2>3, <2>7, <3>3, <3>5 DEF Respond, ResultInv
  <2> QED
    BY <1>4, <2>4, <2>5, <2>6, <2>7
<1>5. CASE DispatchFails
  <2>1. /\ pc = "client" /\ pc' = "result" /\ res' = Failure("transport")
        /\ origin' = res' /\ UNCHANGED stack
    BY <1>5 DEF DispatchFails
  <2>2. ~CallPassed'
    BY <1>w, <2>1 DEF CallPassed, Placed, Split
  <2> QED
    BY <2>1, <2>2 DEF ResultInv, ResultArrives
<1>6. CASE MethodReturns
  <2>1. pc = "method" /\ pc' = "result" /\ res' \in Returns /\ origin' = res' /\ UNCHANGED stack
    BY <1>6 DEF MethodReturns
  <2>2. CallPassed'
    BY <1>w, <2>1 DEF CallPassed, Placed, Split
  <2> QED
    BY <2>1, <2>2 DEF ResultInv, ResultArrives, FromServer
<1>7. ASSUME NEW typed \in BOOLEAN, CallReturns(typed) PROVE ResultInv'
  BY <1>7, ResultReturned
<1>8. CASE UNCHANGED <<vars, configVars, callVars>>
  BY <1>8 DEF callVars, ResultInv, CallPassed, ResultArrives
<1> QED
  BY <1>1, <1>2, <1>3, <1>4, <1>5, <1>6, <1>7, <1>8 DEF CallNext

\* Call returns nil only for a message of the method, and the errors that mean
\* something to the caller keep their code (Call, unaryCall, convertCode).
THEOREM ResultsKeepTheirCode == CallSpec => []ResultArrives
<1>1. CallInit => StackInv /\ ResultInv
  <2> SUFFICES ASSUME CallInit PROVE StackInv /\ ResultInv
    OBVIOUS
  <2>1. pc \in {"noServer", "build"}
    BY DEF CallInit
  <2> QED
    BY <2>1, InitStack DEF ResultInv, ResultArrives
<1>2. StackInv /\ ResultInv /\ [CallNext]_<<vars, configVars, callVars>> => StackInv' /\ ResultInv'
  BY StackNext, ResultNext
<1>3. ResultInv => ResultArrives
  BY DEF ResultInv
<1> QED
  BY <1>1, <1>2, <1>3, PTL DEF CallSpec


-----------------------------------------------------------------------------
(* Induction over the naturals, as the provers can use it: over a set.     *)

LEMMA LeastElement ==
  ASSUME NEW T \in SUBSET Nat, T # {}
  PROVE  \E x \in T : \A y \in T : x <= y
<1>1. IsWellFoundedOn(OpToRel(<, Nat), Nat)
  BY NatLessThanWellFounded
<1>2. PICK x \in T : \A y \in T : <<y, x>> \notin OpToRel(<, Nat)
  BY <1>1, WFMin
<1>3. ASSUME NEW y \in T PROVE x <= y
  <2>1. <<y, x>> \notin OpToRel(<, Nat)
    BY <1>2
  <2>2. ~(y < x)
    BY <2>1 DEF OpToRel
  <2> QED
    BY <2>2
<1> QED
  BY <1>3

LEMMA SetInduction ==
  ASSUME NEW S, 0 \in S, \A n \in Nat : n \in S => n + 1 \in S
  PROVE  Nat \subseteq S
<1> SUFFICES ASSUME Nat \ S # {} PROVE FALSE
  OBVIOUS
<1>1. PICK x \in Nat \ S : \A y \in Nat \ S : x <= y
  BY LeastElement
<1>2. x # 0 /\ x - 1 \in Nat
  BY <1>1
<1>3. x - 1 \in S
  BY <1>1, <1>2
<1> QED
  BY <1>1, <1>2, <1>3

-----------------------------------------------------------------------------
(* Ranging over a map.                                                     *)

\* The order has every key of the map, each once.
Listed(content, order) ==
  /\ Len(order) \in Nat /\ order = [i \in 1 .. Len(order) |-> order[i]]
  /\ \A i \in 1 .. Len(order) : order[i] \in DOMAIN content
  /\ \A i, j \in 1 .. Len(order) : order[i] = order[j] => i = j
  /\ \A x \in DOMAIN content : \E i \in 1 .. Len(order) : order[i] = x
  /\ \A x \in DOMAIN content : IsSeq(content[x])

LEMMA OrdersList ==
  ASSUME NEW md, IsFiniteSet(DOMAIN md), NEW order \in Orders(md),
         NEW content, DOMAIN content = DOMAIN md, \A x \in DOMAIN content : IsSeq(content[x])
  PROVE  Listed(content, order)
<1>1. PICK D : D = 1 .. Cardinality(DOMAIN md)
  OBVIOUS
<1>2. Cardinality(DOMAIN md) \in Nat
  BY FS_CardinalityType
<1>3. order \in [D -> DOMAIN md] /\ \A i, j \in D : i # j => order[i] # order[j]
  BY <1>1 DEF Orders, SetToSeqs
<1>4. order \in Injection(D, DOMAIN md)
  BY <1>3 DEF Injection, IsInjective
<1>5. IsFiniteSet(D) /\ Cardinality(D) = Cardinality(DOMAIN md)
  BY <1>1, <1>2, FS_Interval
<1>6. order \in Surjection(D, DOMAIN md)
  BY <1>4, <1>5, FS_Injection
<1>7. \A x \in DOMAIN md : \E i \in D : order[i] = x
  BY <1>6 DEF Surjection
<1>8. order \in Seq(DOMAIN md) /\ Len(order) = Cardinality(DOMAIN md)
  BY <1>1, <1>2, <1>3
<1> QED
  BY <1>1, <1>2, <1>3, <1>7, <1>8 DEF Listed

LEMMA EndsAre ==
  ASSUME NEW content, NEW order, Len(order) \in Nat
  PROVE  Ends(content, order) =
           [i \in 0 .. Len(order) |->
              IF i = 0 THEN 0 ELSE Ends(content, order)[i - 1] + Len(content[order[i]])]
<1> DEFINE T == {n \in Nat : \E f : f = [i \in 0 .. n |->
                   IF i = 0 THEN 0 ELSE f[i - 1] + Len(content[order[i]])]}
<1>1. 0 \in T
  <2> DEFINE f == [i \in 0 .. 0 |-> 0]
  <2>1. f = [i \in 0 .. 0 |-> IF i = 0 THEN 0 ELSE f[i - 1] + Len(content[order[i]])]
    OBVIOUS
  <2> HIDE DEF f
  <2> QED
    BY <2>1
<1>2. ASSUME NEW n \in Nat, n \in T PROVE n + 1 \in T
  <2>1. PICK f : f = [i \in 0 .. n |-> IF i = 0 THEN 0 ELSE f[i - 1] + Len(content[order[i]])]
    BY <1>2
  <2> DEFINE g == [i \in 0 .. n + 1 |->
                     IF i = n + 1 THEN f[n] + Len(content[order[i]]) ELSE f[i]]
  <2>2. ASSUME NEW i \in 0 .. n + 1
        PROVE  g[i] = IF i = 0 THEN 0 ELSE g[i - 1] + Len(content[order[i]])
    BY <2>1
  <2>3. g = [i \in 0 .. n + 1 |-> IF i = 0 THEN 0 ELSE g[i - 1] + Len(content[order[i]])]
    BY <2>2
  <2> HIDE DEF g
  <2> QED
    BY <2>3
<1>3. Len(order) \in T
  <2> HIDE DEF T
  <2> QED
    BY <1>1, <1>2, SetInduction
<1>4. \E f : f = [i \in 0 .. Len(order) |->
                    IF i = 0 THEN 0 ELSE f[i - 1] + Len(content[order[i]])]
  BY <1>3
<1> QED
  BY <1>4, Zenon DEF Ends

\* The values of the keys lie one after the other, without a gap.
LEMMA EndsRise ==
  ASSUME NEW content, NEW order, Listed(content, order)
  PROVE  /\ Ends(content, order)[0] = 0
         /\ \A i \in 1 .. Len(order) :
              /\ Ends(content, order)[i] =
                   Ends(content, order)[i - 1] + Len(content[order[i]])
              /\ Len(content[order[i]]) \in Nat
         /\ \A i \in 0 .. Len(order) : Ends(content, order)[i] \in Nat
         /\ \A i, j \in 0 .. Len(order) :
              i <= j => Ends(content, order)[i] <= Ends(content, order)[j]
<1> DEFINE N == Len(order)
<1>1. PICK end : end = Ends(content, order)
  OBVIOUS
<1>2. N \in Nat /\ end = [i \in 0 .. N |-> IF i = 0 THEN 0 ELSE end[i - 1] + Len(content[order[i]])]
  BY <1>1, EndsAre DEF Listed
<1>3. end[0] = 0 /\ \A i \in 1 .. N : end[i] = end[i - 1] + Len(content[order[i]])
  BY <1>2
<1>4. \A i \in 1 .. N : Len(content[order[i]]) \in Nat
  BY DEF Listed, IsSeq
<1> HIDE DEF N
<1>5. ASSUME NEW i \in 0 .. N PROVE end[i] \in Nat
  <2> DEFINE T == {n \in Nat : n <= N => end[n] \in Nat}
  <2>1. 0 \in T
    BY <1>3
  <2>2. ASSUME NEW n \in Nat, n \in T PROVE n + 1 \in T
    BY <1>2, <1>3, <1>4, <2>2
  <2>3. i \in T
    <3>1. i \in Nat
      BY <1>2
    <3> HIDE DEF T
    <3> QED
      BY <2>1, <2>2, <3>1, SetInduction
  <2> QED
    BY <1>2, <2>3
<1>6. ASSUME NEW i \in 0 .. N, NEW j \in 0 .. N, i <= j PROVE end[i] <= end[j]
  <2> DEFINE T == {n \in Nat : i + n <= N => end[i] <= end[i + n]}
  <2>1. 0 \in T
    BY <1>5
  <2>2. ASSUME NEW n \in Nat, n \in T PROVE n + 1 \in T
    <3>1. SUFFICES ASSUME i + n + 1 <= N PROVE end[i] <= end[i + (n + 1)]
      OBVIOUS
    <3>2. /\ i + n \in 0 .. N /\ i + n + 1 \in 1 .. N
          /\ i + (n + 1) = i + n + 1 /\ i + n + 1 - 1 = i + n
      BY <1>2, <3>1
    <3>3. end[i] <= end[i + n]
      BY <1>2, <2>2, <3>2
    <3>4. end[i] \in Nat /\ end[i + n] \in Nat
      BY <1>5, <3>2
    <3>5. end[i + n + 1] = end[i + n] + Len(content[order[i + n + 1]])
      BY <1>3, <3>2
    <3>6. Len(content[order[i + n + 1]]) \in Nat
      BY <1>4, <3>2
    <3> QED
      BY <3>2, <3>3, <3>4, <3>5, <3>6
  <2>3. j - i \in T
    <3>1. j - i \in Nat
      BY <1>2, <1>6
    <3> HIDE DEF T
    <3> QED
      BY <2>1, <2>2, <3>1, SetInduction
  <2>4. i + (j - i) = j
    BY <1>2
  <2> QED
    BY <1>2, <2>3, <2>4
<1> QED
  BY <1>1, <1>3, <1>4, <1>5, <1>6 DEF N

\* A function whose domain is 1 .. m is a sequence of length m.
LEMMA FunctionIsSeq ==
  ASSUME NEW m \in Nat, NEW s, s = [n \in 1 .. m |-> s[n]]
  PROVE  IsSeq(s) /\ Len(s) = m
<1> DEFINE T == {s[n] : n \in 1 .. m}
<1>1. s \in [1 .. m -> T]
  OBVIOUS
<1> HIDE DEF T
<1>2. s \in Seq(T) /\ Len(s) = m
  BY <1>1
<1> QED
  BY <1>2, SeqIsSeq

\* The n-th value is one of one key only.
LEMMA OneKey ==
  ASSUME NEW content, NEW order, Listed(content, order),
         NEW i \in 1 .. Len(order), NEW j \in 1 .. Len(order), NEW n \in Nat,
         Ends(content, order)[i - 1] < n, n <= Ends(content, order)[i],
         Ends(content, order)[j - 1] < n, n <= Ends(content, order)[j]
  PROVE  i = j
<1>1. PICK end : end = Ends(content, order)
  OBVIOUS
<1>2. /\ \A x \in 0 .. Len(order) : end[x] \in Nat
      /\ \A x, y \in 0 .. Len(order) : x <= y => end[x] <= end[y]
  BY <1>1, EndsRise
<1>3. Len(order) \in Nat
  BY DEF Listed
<1>4. {i, j, i - 1, j - 1} \subseteq 0 .. Len(order)
  BY <1>3
<1>5. i < j => end[i] <= end[j - 1]
  BY <1>2, <1>4
<1>6. j < i => end[j] <= end[i - 1]
  BY <1>2, <1>4
<1>7. end[i] \in Nat /\ end[j] \in Nat /\ end[i - 1] \in Nat /\ end[j - 1] \in Nat
  BY <1>2, <1>4
<1> QED
  BY <1>1, <1>3, <1>5, <1>6, <1>7

\* And it is one of some key.
LEMMA SomeKey ==
  ASSUME NEW content, NEW order, Listed(content, order),
         NEW n \in 1 .. Ends(content, order)[Len(order)]
  PROVE  \E i \in 1 .. Len(order) :
           Ends(content, order)[i - 1] < n /\ n <= Ends(content, order)[i]
<1>1. PICK end : end = Ends(content, order)
  OBVIOUS
<1>2. end[0] = 0 /\ Len(order) \in Nat /\ \A x \in 0 .. Len(order) : end[x] \in Nat
  BY <1>1, EndsRise DEF Listed
<1>3. PICK T \in SUBSET Nat : T = {x \in 0 .. Len(order) : n <= end[x]}
  <2>1. {x \in 0 .. Len(order) : n <= end[x]} \subseteq Nat
    BY <1>2
  <2> QED
    BY <2>1
<1>4. Len(order) \in T
  BY <1>1, <1>2, <1>3
<1>5. PICK i \in T : \A y \in T : i <= y
  BY <1>4, LeastElement
<1>6. i # 0 /\ i \in 1 .. Len(order) /\ n <= end[i] /\ n \in Nat /\ n > 0
  BY <1>1, <1>2, <1>3, <1>5
<1>7. i - 1 \in 0 .. Len(order) /\ i - 1 \notin T
  BY <1>2, <1>5, <1>6
<1> QED
  BY <1>1, <1>2, <1>3, <1>6, <1>7

LEMMA PairsAre ==
  ASSUME NEW content, NEW order, Listed(content, order)
  PROVE  /\ IsSeq(Pairs(content, order))
         /\ Len(Pairs(content, order)) = Ends(content, order)[Len(order)]
         /\ \A i \in 1 .. Len(order) : \A m \in 1 .. Len(content[order[i]]) :
              Pairs(content, order)[Ends(content, order)[i - 1] + m] =
                [key |-> order[i], value |-> content[order[i]][m]]
<1>1. PICK end : end = Ends(content, order)
  OBVIOUS
<1>2. /\ Len(order) \in Nat /\ DOMAIN order = 1 .. Len(order)
      /\ \A x \in 0 .. Len(order) : end[x] \in Nat
  BY <1>1, EndsRise DEF Listed
<1>3. PICK m \in Nat : m = end[Len(order)]
  BY <1>2
<1>4. PICK At : At = [n \in 1 .. m |->
                        CHOOSE i \in 1 .. Len(order) : end[i - 1] < n /\ n <= end[i]]
  OBVIOUS
<1>5. PICK s : s = [n \in 1 .. m |->
                      [key |-> order[At[n]], value |-> content[order[At[n]]][n - end[At[n] - 1]]]]
  OBVIOUS
<1>6. Pairs(content, order) = s
  BY <1>1, <1>2, <1>3, <1>4, <1>5, Zenon DEF Pairs
<1>7. IsSeq(s) /\ Len(s) = m
  BY <1>5, FunctionIsSeq
<1>8. ASSUME NEW i \in 1 .. Len(order), NEW x \in 1 .. Len(content[order[i]])
      PROVE  s[end[i - 1] + x] = [key |-> order[i], value |-> content[order[i]][x]]
  <2>1. /\ end[i] = end[i - 1] + Len(content[order[i]]) /\ Len(content[order[i]]) \in Nat
        /\ end[i] <= m
    BY <1>1, <1>2, <1>3, EndsRise
  <2>2. end[i - 1] \in Nat /\ end[i] \in Nat
    BY <1>2
  <2>3. PICK n \in 1 .. m : n = end[i - 1] + x
    <3>1. end[i - 1] + x \in 1 .. m
      BY <2>1, <2>2
    <3> QED
      BY <3>1
  <2>4. end[i - 1] < n /\ n <= end[i] /\ n - end[i - 1] = x
    BY <2>1, <2>2, <2>3
  <2>5. At[n] \in 1 .. Len(order) /\ end[At[n] - 1] < n /\ n <= end[At[n]]
    BY <1>4, <2>4
  <2>6. At[n] = i
    BY <1>1, <2>4, <2>5, OneKey
  <2> QED
    BY <1>5, <2>3, <2>4, <2>6
<1> QED
  BY <1>1, <1>3, <1>6, <1>7, <1>8

-----------------------------------------------------------------------------
(* What the server makes of the pairs of a request.                        *)

LEMMA SameElements ==
  ASSUME NEW s, NEW t, IsSeq(s), IsSeq(t), Len(s) = Len(t),
         \A n \in 1 .. Len(s) : s[n] = t[n]
  PROVE  s = t
<1>1. s \in Seq(ToSet(s)) /\ t \in Seq(ToSet(t))
  BY DEF IsSeq
<1>2. DOMAIN s = 1 .. Len(s) /\ DOMAIN t = 1 .. Len(s)
  BY <1>1
<1>3. s = [n \in 1 .. Len(s) |-> s[n]]
  BY <1>1, <1>2
<1>4. t = [n \in 1 .. Len(s) |-> t[n]]
  BY <1>1, <1>2
<1>5. [n \in 1 .. Len(s) |-> s[n]] = [n \in 1 .. Len(s) |-> t[n]]
  OBVIOUS
<1> QED
  BY <1>3, <1>4, <1>5

LEMMA ValuesWith ==
  ASSUME NEW md, NEW x, NEW s, NEW y
  PROVE  Values(With(md, x, s), y) = IF y = x THEN s ELSE Values(md, y)
BY DEF Values, With

LEMMA FilledAre ==
  ASSUME NEW pairs, Len(pairs) \in Nat
  PROVE  Filled(pairs) =
           [n \in 0 .. Len(pairs) |->
              IF n = 0 THEN Empty
              ELSE With(Filled(pairs)[n - 1], pairs[n].key,
                        Append(Values(Filled(pairs)[n - 1], pairs[n].key), pairs[n].value))]
<1> DEFINE Fill(md, n) == With(md, pairs[n].key,
                               Append(Values(md, pairs[n].key), pairs[n].value))
           T == {n \in Nat : \E f : f = [i \in 0 .. n |->
                               IF i = 0 THEN Empty ELSE Fill(f[i - 1], i)]}
<1> HIDE DEF Fill
<1>1. 0 \in T
  <2> DEFINE f == [i \in 0 .. 0 |-> Empty]
  <2>1. f = [i \in 0 .. 0 |-> IF i = 0 THEN Empty ELSE Fill(f[i - 1], i)]
    OBVIOUS
  <2> HIDE DEF f
  <2> QED
    BY <2>1
<1>2. ASSUME NEW n \in Nat, n \in T PROVE n + 1 \in T
  <2>1. PICK f : f = [i \in 0 .. n |-> IF i = 0 THEN Empty ELSE Fill(f[i - 1], i)]
    BY <1>2
  <2> DEFINE g == [i \in 0 .. n + 1 |-> IF i = n + 1 THEN Fill(f[n], i) ELSE f[i]]
  <2>2. ASSUME NEW i \in 0 .. n + 1
        PROVE  g[i] = IF i = 0 THEN Empty ELSE Fill(g[i - 1], i)
    BY <2>1
  <2>3. g = [i \in 0 .. n + 1 |-> IF i = 0 THEN Empty ELSE Fill(g[i - 1], i)]
    BY <2>2
  <2> HIDE DEF g
  <2> QED
    BY <2>3
<1>3. Len(pairs) \in T
  <2> HIDE DEF T
  <2> QED
    BY <1>1, <1>2, SetInduction
<1>4. \E f : f = [i \in 0 .. Len(pairs) |-> IF i = 0 THEN Empty ELSE Fill(f[i - 1], i)]
  BY <1>3
<1> QED
  BY <1>4, Zenon DEF Filled, Fill

\* How many values of order[i] are among the first n pairs.
Came(content, order, i, n) ==
  IF n <= Ends(content, order)[i - 1] THEN 0
  ELSE IF n >= Ends(content, order)[i] THEN Len(content[order[i]])
  ELSE n - Ends(content, order)[i - 1]

\* After n pairs a key has those of its values that came, and no others.
FilledUpTo(content, order, n) ==
  /\ \A i \in 1 .. Len(order) :
       Values(Filled(Pairs(content, order))[n], order[i]) =
         [m \in 1 .. Came(content, order, i, n) |-> content[order[i]][m]]
  /\ \A x : x \notin DOMAIN content => Values(Filled(Pairs(content, order))[n], x) = <<>>

LEMMA FillOne ==
  ASSUME NEW content, NEW order, Listed(content, order),
         NEW n \in Nat, n + 1 <= Len(Pairs(content, order)), FilledUpTo(content, order, n)
  PROVE  FilledUpTo(content, order, n + 1)
<1>1. PICK end : end = Ends(content, order)
  OBVIOUS
<1>2. PICK pairs : pairs = Pairs(content, order)
  OBVIOUS
<1>3. PICK md : md = Filled(pairs)
  OBVIOUS
<1>4. PICK N \in Nat : N = Len(order)
  BY DEF Listed
<1>5. /\ \A x \in 0 .. N : end[x] \in Nat
      /\ \A x, y \in 0 .. N : x <= y => end[x] <= end[y]
      /\ \A x \in 1 .. N : /\ end[x] = end[x - 1] + Len(content[order[x]])
                           /\ Len(content[order[x]]) \in Nat
  BY <1>1, <1>4, EndsRise
<1>6. Len(pairs) = end[N] /\ Len(pairs) \in Nat
  BY <1>1, <1>2, <1>4, <1>5, PairsAre
<1>7. n + 1 \in 1 .. Len(pairs)
  BY <1>2, <1>6
<1>8. PICK j \in 1 .. N : end[j - 1] < n + 1 /\ n + 1 <= end[j]
  BY <1>1, <1>4, <1>6, <1>7, SomeKey
<1>9. j \in 0 .. N /\ j - 1 \in 0 .. N /\ end[j] \in Nat /\ end[j - 1] \in Nat
  BY <1>5
<1>10. PICK c \in Nat : c = n - end[j - 1]
  BY <1>8, <1>9
<1>11. c + 1 \in 1 .. Len(content[order[j]]) /\ end[j - 1] + (c + 1) = n + 1
  <2>1. PICK a, len \in Nat : /\ a = end[j - 1] /\ len = Len(content[order[j]])
                              /\ end[j] = a + len
    BY <1>5, <1>9
  <2>2. c = n - a /\ n + 1 <= a + len
    BY <1>8, <1>10, <2>1
  <2>3. c + 1 \in 1 .. len /\ a + (c + 1) = n + 1
    <3>1. n = a + c
      BY <2>2
    <3>2. c + 1 <= len
      BY <2>2, <3>1
    <3> QED
      BY <3>1, <3>2
  <2> QED
    BY <2>1, <2>3
<1>12. pairs[n + 1] = [key |-> order[j], value |-> content[order[j]][c + 1]]
  <2>1. pairs[end[j - 1] + (c + 1)] = [key |-> order[j], value |-> content[order[j]][c + 1]]
    BY <1>1, <1>2, <1>4, <1>11, PairsAre
  <2> QED
    BY <1>11, <2>1
<1>13. md[n + 1] = With(md[n], order[j], Append(Values(md[n], order[j]), content[order[j]][c + 1]))
  <2>1. md[n + 1] = With(md[n + 1 - 1], pairs[n + 1].key,
                         Append(Values(md[n + 1 - 1], pairs[n + 1].key), pairs[n + 1].value))
    BY <1>3, <1>6, <1>7, FilledAre
  <2> QED
    BY <1>12, <2>1
<1>14. Values(md[n], order[j]) = [m \in 1 .. c |-> content[order[j]][m]]
  <2>1. Came(content, order, j, n) = c
    BY <1>1, <1>5, <1>8, <1>9, <1>10 DEF Came
  <2> QED
    BY <1>2, <1>3, <1>4, <2>1 DEF FilledUpTo
<1>15. Append(Values(md[n], order[j]), content[order[j]][c + 1]) =
         [m \in 1 .. c + 1 |-> content[order[j]][m]]
  <2>1. PICK s : s = [m \in 1 .. c |-> content[order[j]][m]]
    OBVIOUS
  <2>2. PICK t : t = [m \in 1 .. c + 1 |-> content[order[j]][m]]
    OBVIOUS
  <2>3. IsSeq(s) /\ Len(s) = c
    BY <2>1, FunctionIsSeq
  <2>4. IsSeq(t) /\ Len(t) = c + 1
    BY <2>2, FunctionIsSeq
  <2>5. PICK e : e = content[order[j]][c + 1]
    OBVIOUS
  <2>6. /\ IsSeq(Append(s, e)) /\ Len(Append(s, e)) = c + 1 /\ Append(s, e)[c + 1] = e
        /\ \A m \in 1 .. c : Append(s, e)[m] = s[m]
    BY <2>3, Appended
  <2>7. \A m \in 1 .. c + 1 : Append(s, e)[m] = t[m]
    BY <2>1, <2>2, <2>5, <2>6
  <2>8. PICK r : r = Append(s, e)
    OBVIOUS
  <2>9. IsSeq(r) /\ Len(r) = Len(t) /\ \A m \in 1 .. Len(r) : r[m] = t[m]
    BY <2>4, <2>6, <2>7, <2>8
  <2>10. r = t
    BY <2>4, <2>9, SameElements
  <2> QED
    BY <1>14, <2>1, <2>2, <2>5, <2>8, <2>10
<1>16. ASSUME NEW i \in 1 .. N
       PROVE  Values(md[n + 1], order[i]) =
                [m \in 1 .. Came(content, order, i, n + 1) |-> content[order[i]][m]]
  <2>1. CASE i = j
    <3>1. Came(content, order, j, n + 1) = c + 1
      <4>1. end[j] = end[j - 1] + Len(content[order[j]]) /\ Len(content[order[j]]) \in Nat
        BY <1>5
      <4>2. Came(content, order, j, n + 1) =
              IF n + 1 >= end[j] THEN Len(content[order[j]]) ELSE n + 1 - end[j - 1]
        BY <1>1, <1>8, <1>9 DEF Came
      <4> QED
        BY <1>8, <1>9, <1>10, <4>1, <4>2
    <3> QED
      BY <1>13, <1>15, <2>1, <3>1, ValuesWith
  <2>2. CASE i # j
    <3>1. order[i] # order[j]
      BY <1>4, <2>2 DEF Listed
    <3>2. Values(md[n + 1], order[i]) = Values(md[n], order[i])
      BY <1>13, <3>1, ValuesWith
    <3>3. i \in 0 .. N /\ i - 1 \in 0 .. N /\ end[i] \in Nat /\ end[i - 1] \in Nat
      BY <1>5
    <3>4. i < j => end[i] <= end[j - 1] /\ end[i - 1] <= end[i]
      BY <1>5, <1>9, <3>3
    <3>5. i > j => end[j] <= end[i - 1]
      BY <1>5, <1>9, <3>3
    <3>6. end[i] = end[i - 1] + Len(content[order[i]]) /\ Len(content[order[i]]) \in Nat
      BY <1>5
    <3>7. Came(content, order, i, n + 1) = Came(content, order, i, n)
      <4>1. PICK a, b, len \in Nat : /\ a = end[i - 1] /\ b = end[i] /\ b = a + len
                                     /\ len = Len(content[order[i]])
        BY <3>3, <3>6
      <4>2. \A m : Came(content, order, i, m) =
                     IF m <= a THEN 0 ELSE IF m >= b THEN len ELSE m - a
        BY <1>1, <4>1 DEF Came
      <4>3. CASE i < j
        <5>1. b <= n /\ b = a + len
          BY <1>8, <1>9, <3>4, <4>1, <4>3
        <5>2. ~(n + 1 <= a) /\ n + 1 >= b
          BY <5>1
        <5>3. Came(content, order, i, n + 1) = len
          BY <4>2, <5>2
        <5>4. n <= a => len = 0
          BY <5>1
        <5>5. Came(content, order, i, n) = len
          BY <4>2, <5>1, <5>4
        <5> QED
          BY <5>3, <5>5
      <4>4. CASE i > j
        <5>1. n + 1 <= a
          BY <1>8, <1>9, <3>5, <4>1, <4>4
        <5>2. Came(content, order, i, n) = 0 /\ Came(content, order, i, n + 1) = 0
          BY <4>2, <5>1
        <5> QED
          BY <5>2
      <4> QED
        BY <2>2, <4>3, <4>4
    <3> QED
      BY <1>2, <1>3, <1>4, <3>2, <3>7 DEF FilledUpTo
  <2> QED
    BY <2>1, <2>2
<1>17. ASSUME NEW x, x \notin DOMAIN content PROVE Values(md[n + 1], x) = <<>>
  <2>1. x # order[j]
    BY <1>4, <1>17 DEF Listed
  <2>2. Values(md[n], x) = <<>>
    BY <1>2, <1>3, <1>17 DEF FilledUpTo
  <2> QED
    BY <1>13, <2>1, <2>2, ValuesWith
<1> QED
  BY <1>2, <1>3, <1>4, <1>16, <1>17 DEF FilledUpTo

\* fromRequest gets back what setRequest took apart, whatever the order of the keys.
LEMMA RequestKeepsValues ==
  ASSUME NEW content, NEW order, Listed(content, order), NEW x
  PROVE  Values(FromRequest(Pairs(content, order)), x) = Values(content, x)
<1>1. PICK pairs : pairs = Pairs(content, order)
  OBVIOUS
<1>2. PICK end : end = Ends(content, order)
  OBVIOUS
<1>3. Len(order) \in Nat /\ \A i \in 0 .. Len(order) : end[i] \in Nat
  BY <1>2, EndsRise DEF Listed
<1>4. Len(pairs) = end[Len(order)] /\ Len(pairs) \in Nat
  BY <1>1, <1>2, <1>3, PairsAre
<1> DEFINE T == {n \in Nat : n <= Len(pairs) => FilledUpTo(content, order, n)}
<1>5. 0 \in T
  <2>1. Filled(pairs)[0] = Empty
    BY <1>4, FilledAre
  <2>2. \A y : Values(Filled(pairs)[0], y) = <<>>
    BY <2>1 DEF Values, Empty
  <2>3. ASSUME NEW i \in 1 .. Len(order)
        PROVE  [m \in 1 .. Came(content, order, i, 0) |-> content[order[i]][m]] = <<>>
    <3>1. end[i - 1] \in Nat
      BY <1>3
    <3>2. Came(content, order, i, 0) = 0
      BY <1>2, <3>1 DEF Came
    <3> QED
      BY <3>2
  <2> QED
    BY <1>1, <2>2, <2>3 DEF FilledUpTo
<1>6. ASSUME NEW n \in Nat, n \in T PROVE n + 1 \in T
  BY <1>1, <1>4, <1>6, FillOne
<1>7. FilledUpTo(content, order, Len(pairs))
  <2>1. Len(pairs) \in T
    <3> HIDE DEF T
    <3> QED
      BY <1>4, <1>5, <1>6, SetInduction
  <2> QED
    BY <1>4, <2>1
<1>8. CASE x \notin DOMAIN content
  BY <1>1, <1>7, <1>8 DEF FilledUpTo, FromRequest, Values
<1>9. CASE x \in DOMAIN content
  <2>1. PICK i \in 1 .. Len(order) : order[i] = x
    BY <1>9 DEF Listed
  <2>2. /\ end[i] <= end[Len(order)] /\ end[i] = end[i - 1] + Len(content[x])
        /\ Len(content[x]) \in Nat
    BY <1>2, <1>3, <2>1, EndsRise
  <2>3. end[i] \in Nat /\ end[i - 1] \in Nat
    BY <1>3
  <2>4. Came(content, order, i, Len(pairs)) = Len(content[x])
    BY <1>2, <1>4, <2>1, <2>2, <2>3 DEF Came
  <2>5. content[x] = [m \in 1 .. Len(content[x]) |-> content[x][m]]
    BY <1>9 DEF Listed, IsSeq
  <2>6. Values(Filled(pairs)[Len(pairs)], x) = content[x]
    BY <1>1, <1>7, <2>1, <2>4, <2>5 DEF FilledUpTo
  <2> QED
    BY <1>1, <1>9, <2>6 DEF FromRequest, Values
<1> QED
  BY <1>8, <1>9

-----------------------------------------------------------------------------
(* The arrays behind the MDs.  Each slice has the part of its array that   *)
(* it may come to fill for itself, so that what append writes in place no  *)
(* other slice shows.                                                      *)

SliceOK(mem, s) ==
  /\ s = Slice(s.arr, s.from, s.len, s.cap)
  /\ s.arr \in 1 .. Len(mem) /\ s.from \in Nat /\ s.len \in Nat /\ s.cap \in Nat
  /\ s.len <= s.cap /\ s.from + s.cap <= Len(mem[s.arr])

Apart(s, t) == s.arr # t.arr \/ s.from + s.cap <= t.from \/ t.from + t.cap <= s.from

MemoryOK(mem) == IsSeq(mem) /\ \A a \in 1 .. Len(mem) : IsSeq(mem[a])

\* One MD: it is a finite map, its slices are within their arrays, and show
\* what they should.
MDOK(mem, md, content) ==
  /\ IsFiniteSet(DOMAIN md) /\ md = [x \in DOMAIN md |-> md[x]]
  /\ content = [x \in DOMAIN md |-> View(mem, md[x])]
  /\ \A x \in DOMAIN md : SliceOK(mem, md[x])

\* No two slices, of one MD or of two, share a place.
AllApart(m) ==
  \A h, g \in Handles : m[h] # NoMD /\ m[g] # NoMD =>
    \A x \in DOMAIN m[h], y \in DOMAIN m[g] :
      h # g \/ x # y => Apart(m[h][x], m[g][y])

HeapInv ==
  /\ MemoryOK(arrays)
  /\ mds = [h \in Handles |-> mds[h]] /\ ideal = [h \in Handles |-> ideal[h]]
  /\ \A h \in Handles : Exists(h) => MDOK(arrays, mds[h], ideal[h])
  /\ AllApart(mds)

LEMMA SubSeqAt ==
  ASSUME NEW s, IsSeq(s), NEW from \in Nat, NEW len \in Nat, from + len <= Len(s)
  PROVE  /\ IsSeq(SubSeq(s, from + 1, from + len)) /\ Len(SubSeq(s, from + 1, from + len)) = len
         /\ \A n \in 1 .. len : SubSeq(s, from + 1, from + len)[n] = s[from + n]
<1>1. s \in Seq(ToSet(s)) /\ Len(s) \in Nat
  BY DEF IsSeq
<1>2. PICK a \in Int : a = from + 1
  OBVIOUS
<1>3. PICK b \in Int : b = from + len
  OBVIOUS
<1>4. \A i \in a .. b : s[i] \in ToSet(s)
  BY <1>1, <1>2, <1>3
<1>5. /\ SubSeq(s, a, b) \in Seq(ToSet(s))
      /\ Len(SubSeq(s, a, b)) = len
  BY <1>1, <1>2, <1>3, <1>4
<1>6. \A n \in 1 .. len : SubSeq(s, a, b)[n] = s[from + n]
  BY <1>1, <1>2, <1>3, <1>4
<1>7. IsSeq(SubSeq(s, a, b))
  BY <1>5, SeqIsSeq
<1> QED
  BY <1>2, <1>3, <1>5, <1>6, <1>7

\* What a slice shows, and that it shows the same while its own part of the
\* array is left alone.
LEMMA ViewIs ==
  ASSUME NEW mem, MemoryOK(mem), NEW s, SliceOK(mem, s)
  PROVE  /\ IsSeq(View(mem, s)) /\ Len(View(mem, s)) = s.len
         /\ \A n \in 1 .. s.len : View(mem, s)[n] = mem[s.arr][s.from + n]
<1>1. PICK a : a = mem[s.arr]
  OBVIOUS
<1>2. IsSeq(a) /\ s.from \in Nat /\ s.len \in Nat /\ s.from + s.len <= Len(a)
  <2>1. /\ s.from \in Nat /\ s.len \in Nat /\ s.cap \in Nat /\ s.len <= s.cap
        /\ s.from + s.cap <= Len(a) /\ IsSeq(a)
    BY <1>1 DEF SliceOK, MemoryOK
  <2>2. Len(a) \in Nat
    BY <2>1 DEF IsSeq
  <2> QED
    BY <2>1, <2>2
<1> QED
  BY <1>1, <1>2, SubSeqAt DEF View

LEMMA ViewKept ==
  ASSUME NEW mem, MemoryOK(mem), NEW s, SliceOK(mem, s), NEW new, MemoryOK(new), SliceOK(new, s),
         \A n \in 1 .. s.len : new[s.arr][s.from + n] = mem[s.arr][s.from + n]
  PROVE  View(new, s) = View(mem, s)
<1>1. PICK v : v = View(mem, s)
  OBVIOUS
<1>2. PICK w : w = View(new, s)
  OBVIOUS
<1>3. IsSeq(v) /\ Len(v) = s.len /\ \A n \in 1 .. s.len : v[n] = mem[s.arr][s.from + n]
  BY <1>1, ViewIs
<1>4. IsSeq(w) /\ Len(w) = s.len /\ \A n \in 1 .. s.len : w[n] = new[s.arr][s.from + n]
  BY <1>2, ViewIs
<1>5. w = v
  BY <1>3, <1>4, SameElements
<1> QED
  BY <1>1, <1>2, <1>5

\* A new array leaves the slices of the others as they are.
Extended(mem, a, new) ==
  /\ MemoryOK(new) /\ Len(mem) \in Nat /\ Len(new) = Len(mem) + 1 /\ new[Len(mem) + 1] = a
  /\ \A s : SliceOK(mem, s) =>
       SliceOK(new, s) /\ View(new, s) = View(mem, s) /\ s.arr # Len(mem) + 1

LEMMA NewArray ==
  ASSUME NEW mem, MemoryOK(mem), NEW a, IsSeq(a), NEW new, new = Append(mem, a)
  PROVE  Extended(mem, a, new)
<1>1. IsSeq(mem) /\ Len(mem) \in Nat /\ \A i \in 1 .. Len(mem) : IsSeq(mem[i])
  BY DEF MemoryOK, IsSeq
<1>2. /\ IsSeq(new) /\ Len(new) = Len(mem) + 1 /\ new[Len(mem) + 1] = a
      /\ \A n \in 1 .. Len(mem) : new[n] = mem[n]
  BY <1>1, Appended
<1>3. MemoryOK(new)
  <2>1. ASSUME NEW i \in 1 .. Len(new) PROVE IsSeq(new[i])
    <3>1. CASE i = Len(mem) + 1
      BY <1>2, <3>1
    <3>2. CASE i \in 1 .. Len(mem)
      BY <1>1, <1>2, <3>2
    <3> QED
      BY <1>1, <1>2, <3>1, <3>2
  <2> QED
    BY <1>2, <2>1 DEF MemoryOK
<1>4. ASSUME NEW s, SliceOK(mem, s)
      PROVE  SliceOK(new, s) /\ View(new, s) = View(mem, s) /\ s.arr # Len(mem) + 1
  <2>1. s.arr \in 1 .. Len(mem) /\ new[s.arr] = mem[s.arr]
    BY <1>1, <1>2, <1>4 DEF SliceOK
  <2>2. SliceOK(new, s) /\ s.arr # Len(mem) + 1
    BY <1>1, <1>2, <1>4, <2>1 DEF SliceOK
  <2> QED
    BY <1>3, <1>4, <2>1, <2>2, ViewKept
<1> QED
  BY <1>1, <1>2, <1>3, <1>4 DEF Extended

\* A slice of a new array, and that it is apart from those of all others.
LEMMA NewSlice ==
  ASSUME NEW mem, Len(mem) \in Nat, NEW new, Len(new) = Len(mem) + 1,
         NEW from \in Nat, NEW len \in Nat, NEW cap \in Nat, len <= cap,
         from + cap <= Len(new[Len(mem) + 1])
  PROVE  /\ SliceOK(new, Slice(Len(mem) + 1, from, len, cap))
         /\ \A s : s.arr # Len(mem) + 1 => Apart(Slice(Len(mem) + 1, from, len, cap), s)
BY DEF SliceOK, Slice, Apart

\* The slice of one key is replaced, or the key added, and all others show
\* what they did.
Puts(h, x, s, v, md, content) ==
  /\ \/ Exists(h) /\ md = mds[h] /\ content = ideal[h]
     \/ ~Exists(h) /\ md = Empty /\ content = Empty
  /\ MemoryOK(arrays') /\ SliceOK(arrays', s) /\ View(arrays', s) = v
  /\ \A g \in Handles : Exists(g) => \A y \in DOMAIN mds[g] : g # h \/ y # x =>
       /\ SliceOK(arrays', mds[g][y]) /\ View(arrays', mds[g][y]) = View(arrays, mds[g][y])
       /\ Apart(s, mds[g][y])
  /\ mds' = [mds EXCEPT ![h] = With(md, x, s)]
  /\ ideal' = [ideal EXCEPT ![h] = With(content, x, v)]

LEMMA PutKeeps ==
  ASSUME HeapInv, NEW h \in Handles, NEW x, NEW s, NEW v, NEW md, NEW content,
         Puts(h, x, s, v, md, content)
  PROVE  HeapInv'
<1>0. /\ \/ Exists(h) /\ md = mds[h] /\ content = ideal[h]
         \/ ~Exists(h) /\ md = Empty /\ content = Empty
      /\ MemoryOK(arrays') /\ SliceOK(arrays', s) /\ View(arrays', s) = v
      /\ mds' = [mds EXCEPT ![h] = With(md, x, s)]
      /\ ideal' = [ideal EXCEPT ![h] = With(content, x, v)]
  BY DEF Puts
<1>a. ASSUME NEW g \in Handles, Exists(g), NEW y \in DOMAIN mds[g], g # h \/ y # x
      PROVE  /\ SliceOK(arrays', mds[g][y]) /\ View(arrays', mds[g][y]) = View(arrays, mds[g][y])
             /\ Apart(s, mds[g][y])
  BY <1>a DEF Puts
<1>1. /\ mds' = [g \in Handles |-> mds'[g]] /\ mds'[h] = With(md, x, s)
      /\ ideal' = [g \in Handles |-> ideal'[g]] /\ ideal'[h] = With(content, x, v)
      /\ \A g \in Handles : g # h => mds'[g] = mds[g] /\ ideal'[g] = ideal[g]
  BY <1>0 DEF HeapInv
<1>2. ASSUME NEW g \in Handles, g # h, Exists(g)' PROVE MDOK(arrays, mds[g], ideal[g])'
  <2>1. Exists(g) /\ MDOK(arrays, mds[g], ideal[g]) /\ mds'[g] = mds[g] /\ ideal'[g] = ideal[g]
    BY <1>1, <1>2 DEF Exists, HeapInv
  <2>2. \A y \in DOMAIN mds[g] :
          SliceOK(arrays', mds[g][y]) /\ View(arrays', mds[g][y]) = View(arrays, mds[g][y])
    BY <1>2, <2>1, <1>a
  <2>3. [y \in DOMAIN mds[g] |-> View(arrays', mds[g][y])] =
        [y \in DOMAIN mds[g] |-> View(arrays, mds[g][y])]
    BY <2>2
  <2> QED
    BY <2>1, <2>2, <2>3 DEF MDOK
<1>3. MDOK(arrays, mds[h], ideal[h])'
  <2>1. /\ IsFiniteSet(DOMAIN md)
        /\ content = [y \in DOMAIN md |-> View(arrays, md[y])]
    <3>1. CASE Exists(h) /\ md = mds[h] /\ content = ideal[h]
      BY <3>1 DEF HeapInv, MDOK
    <3>2. CASE md = Empty /\ content = Empty
      BY <3>2, FS_EmptySet DEF Empty
    <3> QED
      BY <1>0, <3>1, <3>2
  <2>2. \A y \in DOMAIN md : y # x =>
          SliceOK(arrays', md[y]) /\ View(arrays', md[y]) = View(arrays, md[y])
    <3>1. CASE Exists(h) /\ md = mds[h]
      BY <1>a, <3>1
    <3>2. CASE md = Empty
      BY <3>2 DEF Empty
    <3> QED
      BY <1>0, <3>1, <3>2
  <2>3. PICK new : new = With(md, x, s)
    OBVIOUS
  <2>4. /\ DOMAIN new = DOMAIN md \cup {x} /\ new = [y \in DOMAIN new |-> new[y]]
        /\ new[x] = s /\ \A y \in DOMAIN md : y # x => new[y] = md[y]
    BY <2>3 DEF With
  <2>5. IsFiniteSet(DOMAIN new)
    BY <2>1, <2>4, FS_AddElement
  <2>6. \A y \in DOMAIN new : SliceOK(arrays', new[y])
    BY <1>0, <2>2, <2>4
  <2>7. With(content, x, v) = [y \in DOMAIN new |-> View(arrays', new[y])]
    <3>1. DOMAIN content = DOMAIN md
      BY <2>1
    <3>2. ASSUME NEW y \in DOMAIN md \cup {x}
          PROVE  (IF y = x THEN v ELSE content[y]) = View(arrays', new[y])
      <4>1. CASE y = x
        BY <1>0, <2>4, <4>1
      <4>2. CASE y # x
        <5>1. y \in DOMAIN md /\ content[y] = View(arrays, md[y])
          BY <2>1, <3>2, <4>2
        <5> QED
          BY <2>2, <2>4, <4>2, <5>1
      <4> QED
        BY <4>1, <4>2
    <3> QED
      BY <2>4, <3>1, <3>2 DEF With
  <2> QED
    BY <1>1, <2>3, <2>4, <2>5, <2>6, <2>7 DEF MDOK
<1>4. AllApart(mds')
  <2>1. SUFFICES ASSUME NEW g \in Handles, NEW f \in Handles, mds'[g] # NoMD, mds'[f] # NoMD,
                        NEW y \in DOMAIN mds'[g], NEW z \in DOMAIN mds'[f], g # f \/ y # z
                 PROVE  Apart(mds'[g][y], mds'[f][z])
    BY DEF AllApart
  <2>2. ASSUME NEW e \in Handles, NEW w \in DOMAIN mds'[e], mds'[e] # NoMD
        PROVE  \/ e = h /\ w = x /\ mds'[e][w] = s
               \/ /\ e # h \/ w # x
                  /\ Exists(e) /\ w \in DOMAIN mds[e] /\ mds'[e][w] = mds[e][w]
    <3>1. CASE e # h
      BY <1>1, <2>2, <3>1 DEF Exists
    <3>2. CASE e = h
      <4>1. mds'[e] = With(md, x, s)
        BY <1>1, <3>2
      <4>2. CASE w = x
        BY <3>2, <4>1, <4>2 DEF With
      <4>3. CASE w # x
        <5>1. w \in DOMAIN md /\ mds'[e][w] = md[w]
          BY <2>2, <4>1, <4>3 DEF With
        <5>2. md # Empty
          BY <5>1 DEF Empty
        <5> QED
          BY <1>0, <3>2, <4>3, <5>1, <5>2
      <4> QED
        BY <4>2, <4>3
    <3> QED
      BY <3>1, <3>2
  <2>3. \A a, b : Apart(a, b) => Apart(b, a)
    BY DEF Apart
  <2>4. CASE g = h /\ y = x
    BY <1>a, <2>1, <2>2, <2>4
  <2>5. CASE f = h /\ z = x
    BY <1>a, <2>1, <2>2, <2>3, <2>5
  <2>6. CASE (g # h \/ y # x) /\ (f # h \/ z # x)
    <3>1. mds[g] # NoMD /\ y \in DOMAIN mds[g] /\ mds'[g][y] = mds[g][y]
      BY <2>1, <2>2, <2>6 DEF Exists
    <3>2. mds[f] # NoMD /\ z \in DOMAIN mds[f] /\ mds'[f][z] = mds[f][z]
      BY <2>1, <2>2, <2>6 DEF Exists
    <3>3. Apart(mds[g][y], mds[f][z])
      BY <2>1, <3>1, <3>2 DEF HeapInv, AllApart
    <3> QED
      BY <3>1, <3>2, <3>3
  <2> QED
    BY <2>4, <2>5, <2>6
<1>5. ASSUME NEW g \in Handles, Exists(g)' PROVE MDOK(arrays, mds[g], ideal[g])'
  BY <1>2, <1>3, <1>5
<1> QED
  BY <1>0, <1>1, <1>4, <1>5 DEF HeapInv

LEMMA HeapSetTo ==
  ASSUME HeapInv, NEW h \in Handles, Exists(h), NEW name, NEW values, IsSeq(values),
         SetTo(h, name, values)
  PROVE  HeapInv'
<1>1. PICK s : s = Slice(Len(arrays) + 1, 0, Len(values), Len(values))
  OBVIOUS
<1>2. /\ arrays' = Append(arrays, values)
      /\ mds' = [mds EXCEPT ![h] = With(mds[h], Lower[name], s)]
      /\ ideal' = [ideal EXCEPT ![h] = With(ideal[h], Lower[name], values)]
  BY <1>1 DEF SetTo
<1>3. MemoryOK(arrays) /\ Len(values) \in Nat
  BY DEF HeapInv, IsSeq
<1>4. /\ MemoryOK(arrays') /\ Len(arrays) \in Nat /\ Len(arrays') = Len(arrays) + 1
      /\ arrays'[Len(arrays) + 1] = values
      /\ \A t : SliceOK(arrays, t) =>
           SliceOK(arrays', t) /\ View(arrays', t) = View(arrays, t) /\ t.arr # Len(arrays) + 1
  <2>1. Extended(arrays, values, arrays')
    BY <1>2, <1>3, NewArray
  <2> QED
    BY <2>1 DEF Extended
<1>5. SliceOK(arrays', s) /\ \A t : t.arr # Len(arrays) + 1 => Apart(s, t)
  BY <1>1, <1>3, <1>4, NewSlice
<1>6. View(arrays', s) = values
  <2>1. s.arr = Len(arrays) + 1 /\ s.from = 0 /\ s.len = Len(values)
    BY <1>1 DEF Slice
  <2>2. PICK v : v = View(arrays', s)
    OBVIOUS
  <2>3. IsSeq(v) /\ Len(v) = Len(values) /\ \A n \in 1 .. Len(values) : v[n] = values[0 + n]
    BY <1>4, <1>5, <2>1, <2>2, ViewIs
  <2>4. v = values
    BY <1>3, <2>3, SameElements
  <2> QED
    BY <2>2, <2>4
<1>7. ASSUME NEW g \in Handles, Exists(g), NEW y \in DOMAIN mds[g]
      PROVE  /\ SliceOK(arrays', mds[g][y]) /\ View(arrays', mds[g][y]) = View(arrays, mds[g][y])
             /\ Apart(s, mds[g][y])
  <2>1. SliceOK(arrays, mds[g][y])
    BY <1>7 DEF HeapInv, MDOK
  <2> QED
    BY <1>4, <1>5, <2>1
<1> QED
  <2>1. Puts(h, Lower[name], s, values, mds[h], ideal[h])
    BY <1>2, <1>4, <1>5, <1>6, <1>7 DEF Puts
  <2> QED
    BY <2>1, PutKeeps

LEMMA OneValue ==
  ASSUME NEW v
  PROVE  IsSeq(<<v>>) /\ Len(<<v>>) = 1 /\ <<v>>[1] = v
<1>1. <<v>> \in Seq({v})
  OBVIOUS
<1> QED
  BY <1>1, SeqIsSeq

LEMMA HeapLiteral ==
  ASSUME HeapInv, NEW h \in Handles, NEW name, Literal(h, name)
  PROVE  HeapInv'
<1>1. PICK s : s = Slice(Len(arrays) + 1, 0, 1, 1)
  OBVIOUS
<1>2. PICK values : values = <<ops'>>
  OBVIOUS
<1>3. /\ ~Exists(h) /\ arrays' = Append(arrays, values)
      /\ mds' = [mds EXCEPT ![h] = With(Empty, name, s)]
      /\ ideal' = [ideal EXCEPT ![h] = With(Empty, name, values)]
  BY <1>1, <1>2 DEF Literal
<1>4. MemoryOK(arrays) /\ IsSeq(values) /\ Len(values) = 1
  BY <1>2, OneValue DEF HeapInv
<1>5. /\ MemoryOK(arrays') /\ Len(arrays) \in Nat /\ Len(arrays') = Len(arrays) + 1
      /\ arrays'[Len(arrays) + 1] = values
      /\ \A t : SliceOK(arrays, t) =>
           SliceOK(arrays', t) /\ View(arrays', t) = View(arrays, t) /\ t.arr # Len(arrays) + 1
  <2>1. Extended(arrays, values, arrays')
    BY <1>3, <1>4, NewArray
  <2> QED
    BY <2>1 DEF Extended
<1>6. SliceOK(arrays', s) /\ \A t : t.arr # Len(arrays) + 1 => Apart(s, t)
  <2>1. /\ s.arr = Len(arrays) + 1 /\ s.from = 0 /\ s.len = 1 /\ s.cap = 1
        /\ s = Slice(s.arr, s.from, s.len, s.cap)
    BY <1>1 DEF Slice
  <2> QED
    <3>1. \A t : t.arr # Len(arrays) + 1 => Apart(s, t)
      BY <2>1 DEF Apart
    <3>2. arrays'[s.arr] = values /\ s.arr \in 1 .. Len(arrays')
      BY <1>5, <2>1
    <3>3. SliceOK(arrays', s)
      <4>1. s.from \in Nat /\ s.len \in Nat /\ s.cap \in Nat /\ s.len <= s.cap
        BY <2>1
      <4>2. s.from + s.cap <= Len(arrays'[s.arr])
        <5>1. Len(arrays'[s.arr]) = 1
          BY <1>4, <3>2
        <5>2. s.from + s.cap = 1
          BY <2>1
        <5> QED
          BY <5>1, <5>2
      <4> QED
        BY <2>1, <3>2, <4>1, <4>2 DEF SliceOK
    <3> QED
      BY <3>1, <3>3
<1>7. View(arrays', s) = values
  <2>1. s.arr = Len(arrays) + 1 /\ s.from = 0 /\ s.len = 1
    BY <1>1 DEF Slice
  <2>2. PICK v : v = View(arrays', s)
    OBVIOUS
  <2>3. IsSeq(v) /\ Len(v) = Len(values) /\ \A n \in 1 .. Len(values) : v[n] = values[0 + n]
    <3>1. /\ IsSeq(v) /\ Len(v) = s.len
          /\ \A n \in 1 .. s.len : v[n] = arrays'[s.arr][s.from + n]
      BY <1>5, <1>6, <2>2, ViewIs
    <3> QED
      BY <1>4, <1>5, <2>1, <3>1
  <2>4. v = values
    BY <1>4, <2>3, SameElements
  <2> QED
    BY <2>2, <2>4
<1>8. ASSUME NEW g \in Handles, Exists(g), NEW y \in DOMAIN mds[g]
      PROVE  /\ SliceOK(arrays', mds[g][y]) /\ View(arrays', mds[g][y]) = View(arrays, mds[g][y])
             /\ Apart(s, mds[g][y])
  <2>1. SliceOK(arrays, mds[g][y])
    BY <1>8 DEF HeapInv, MDOK
  <2> QED
    BY <1>5, <1>6, <2>1
<1> QED
  <2>1. Puts(h, name, s, values, Empty, Empty)
    BY <1>3, <1>5, <1>6, <1>7, <1>8 DEF Puts
  <2> QED
    BY <2>1, PutKeeps

LEMMA GrownEnough ==
  ASSUME NEW s, s.len \in Nat, s.cap \in Nat
  PROVE  Grown(s, 1) \in Nat /\ Grown(s, 1) >= s.len + 1
<1>1. PICK S : S = {2 * s.cap, s.len + 1}
  OBVIOUS
<1>2. \E m \in S : \A n \in S : m >= n
  BY <1>1
<1>3. Max(S) \in S /\ \A n \in S : Max(S) >= n
  BY <1>2 DEF Max
<1> QED
  BY <1>1, <1>3 DEF Grown

\* append of one value: the slice then shows the value last, and no slice that
\* was apart from it shows anything else than before.
AppendedTo(mem, s, v, r) ==
  /\ MemoryOK(r.mem) /\ SliceOK(r.mem, r.slice)
  /\ View(r.mem, r.slice) = Append(View(mem, s), v)
  /\ \A t : SliceOK(mem, t) /\ Apart(s, t) =>
       SliceOK(r.mem, t) /\ View(r.mem, t) = View(mem, t) /\ Apart(r.slice, t)

LEMMA AppendToKeeps ==
  ASSUME NEW mem, MemoryOK(mem), NEW s, SliceOK(mem, s), NEW v, NEW r, r = AppendTo(mem, s, <<v>>)
  PROVE  AppendedTo(mem, s, v, r)
<1>1. Len(<<v>>) = 1 /\ <<v>>[1] = v
  OBVIOUS
<1>2. /\ s.arr \in 1 .. Len(mem) /\ s.from \in Nat /\ s.len \in Nat /\ s.cap \in Nat
      /\ s.len <= s.cap /\ s.from + s.cap <= Len(mem[s.arr])
      /\ s = Slice(s.arr, s.from, s.len, s.cap)
  BY DEF SliceOK
<1>3. PICK old : old = View(mem, s)
  OBVIOUS
<1>4. PICK shown : shown = Append(old, v)
  OBVIOUS
<1>5. /\ IsSeq(old) /\ Len(old) = s.len
      /\ \A n \in 1 .. s.len : old[n] = mem[s.arr][s.from + n]
  BY <1>3, ViewIs
<1>6. /\ IsSeq(shown) /\ Len(shown) = s.len + 1 /\ shown[s.len + 1] = v
      /\ \A n \in 1 .. s.len : shown[n] = old[n]
  BY <1>4, <1>5, Appended
<1>7. CASE Room(s, 1)
  <2>1. PICK a : a = mem[s.arr]
    OBVIOUS
  <2>2. IsSeq(a) /\ Len(a) \in Nat /\ DOMAIN a = 1 .. Len(a)
    BY <1>2, <2>1 DEF MemoryOK, IsSeq
  <2>3. PICK b : b = [i \in DOMAIN a |-> IF i - s.from - s.len \in 1 .. 1
                                          THEN <<v>>[i - s.from - s.len] ELSE a[i]]
    OBVIOUS
  <2>4. r.mem = [mem EXCEPT ![s.arr] = b] /\ r.slice = [s EXCEPT !.len = s.len + 1]
    BY <1>1, <1>7, <2>1, <2>3 DEF AppendTo
  <2>5. IsSeq(b) /\ Len(b) = Len(a)
    <3>1. b = [i \in 1 .. Len(a) |-> b[i]]
      BY <2>2, <2>3
    <3> QED
      BY <2>2, <3>1, FunctionIsSeq
  <2>6. s.len + 1 <= s.cap
    BY <1>7 DEF Room
  <2>7. \A i \in 1 .. Len(a) : b[i] = IF i = s.from + s.len + 1 THEN v ELSE a[i]
    BY <1>1, <1>2, <2>2, <2>3
  <2>8. PICK new : new = r.mem
    OBVIOUS
  <2>9. /\ IsSeq(new) /\ Len(new) = Len(mem) /\ new[s.arr] = b
        /\ \A i \in 1 .. Len(mem) : i # s.arr => new[i] = mem[i]
    <3>1. /\ Len(mem) \in Nat /\ DOMAIN mem = 1 .. Len(mem)
      BY DEF MemoryOK, IsSeq
    <3>2. new = [i \in 1 .. Len(mem) |-> new[i]]
      BY <2>4, <2>8, <3>1
    <3> QED
      BY <1>2, <2>4, <2>8, <3>1, <3>2, FunctionIsSeq
  <2>10. MemoryOK(new)
    BY <2>5, <2>9 DEF MemoryOK
  <2>11. PICK q : q = r.slice
    OBVIOUS
  <2>12. q.arr = s.arr /\ q.from = s.from /\ q.len = s.len + 1 /\ q.cap = s.cap
    BY <1>2, <2>4, <2>11 DEF Slice
  <2>13. SliceOK(new, q)
    <3>1. q = Slice(q.arr, q.from, q.len, q.cap)
      BY <1>2, <2>4, <2>11, <2>12 DEF Slice
    <3> QED
      BY <1>2, <2>1, <2>5, <2>6, <2>9, <2>12, <3>1 DEF SliceOK
  <2>14. View(new, q) = shown
    <3>1. PICK w : w = View(new, q)
      OBVIOUS
    <3>2. IsSeq(w) /\ Len(w) = s.len + 1 /\ \A n \in 1 .. s.len + 1 : w[n] = b[s.from + n]
      BY <2>9, <2>10, <2>12, <2>13, <3>1, ViewIs
    <3>3. \A n \in 1 .. s.len + 1 : w[n] = shown[n]
      <4>1. ASSUME NEW n \in 1 .. s.len + 1 PROVE w[n] = shown[n]
        <5>1. s.from + n \in 1 .. Len(a)
          BY <1>2, <2>1, <2>2, <2>6
        <5>2. w[n] = IF s.from + n = s.from + s.len + 1 THEN v ELSE a[s.from + n]
          BY <2>7, <3>2, <5>1
        <5>3. CASE n = s.len + 1
          BY <1>2, <1>6, <5>2, <5>3
        <5>4. CASE n \in 1 .. s.len
          BY <1>2, <1>5, <1>6, <2>1, <5>2, <5>4
        <5> QED
          BY <1>2, <5>3, <5>4
      <4> QED
        BY <4>1
    <3>4. w = shown
      BY <1>6, <3>2, <3>3, SameElements
    <3> QED
      BY <3>1, <3>4
  <2>15. ASSUME NEW t, SliceOK(mem, t), Apart(s, t)
         PROVE  SliceOK(new, t) /\ View(new, t) = View(mem, t) /\ Apart(q, t)
    <3>1. /\ t.arr \in 1 .. Len(mem) /\ t.from \in Nat /\ t.len \in Nat /\ t.cap \in Nat
          /\ t.len <= t.cap /\ t.from + t.cap <= Len(mem[t.arr])
      BY <2>15 DEF SliceOK
    <3>2. SliceOK(new, t)
      BY <2>1, <2>5, <2>9, <2>15 DEF SliceOK
    <3>3. \A n \in 1 .. t.len : new[t.arr][t.from + n] = mem[t.arr][t.from + n]
      <4>1. CASE t.arr # s.arr
        BY <2>9, <3>1, <4>1
      <4>2. CASE t.arr = s.arr
        <5>1. ASSUME NEW n \in 1 .. t.len PROVE b[t.from + n] = a[t.from + n]
          <6>1. t.from + n \in 1 .. Len(a)
            BY <2>1, <2>2, <3>1, <4>2
          <6>2. t.from + n # s.from + s.len + 1
            <7>1. s.from + s.cap <= t.from \/ t.from + t.cap <= s.from
              BY <2>15, <4>2 DEF Apart
            <7>2. n \in Nat /\ n >= 1 /\ n <= t.len
              BY <3>1
            <7>3. /\ s.from \in Nat /\ s.len \in Nat /\ s.cap \in Nat /\ s.len + 1 <= s.cap
                  /\ t.from \in Nat /\ t.len \in Nat /\ t.cap \in Nat /\ t.len <= t.cap
              BY <1>2, <2>6, <3>1
            <7>4. s.from + s.cap <= t.from => t.from + n > s.from + s.len + 1
              BY <7>2, <7>3
            <7>5. t.from + t.cap <= s.from => t.from + n < s.from + s.len + 1
              BY <7>2, <7>3
            <7> QED
              BY <7>1, <7>2, <7>3, <7>4, <7>5
          <6> QED
            BY <2>7, <6>1, <6>2
        <5> QED
          BY <2>1, <2>9, <4>2, <5>1
      <4> QED
        BY <4>1, <4>2
    <3>4. View(new, t) = View(mem, t)
      BY <2>10, <2>15, <3>2, <3>3, ViewKept
    <3>5. Apart(q, t)
      BY <2>12, <2>15 DEF Apart
    <3> QED
      BY <3>2, <3>4, <3>5
  <2> QED
    BY <1>3, <1>4, <2>8, <2>10, <2>11, <2>13, <2>14, <2>15 DEF AppendedTo
<1>8. CASE ~Room(s, 1)
  <2>1. PICK cap \in Nat : cap = Grown(s, 1) /\ cap >= s.len + 1
    BY <1>2, GrownEnough
  <2>2. old \o <<v>> = shown
    <3>1. PICK T : T = ToSet(old) \cup {v}
      OBVIOUS
    <3>2. old \in [1 .. Len(old) -> ToSet(old)] /\ Len(old) \in Nat
      BY <1>5 DEF IsSeq
    <3>3. old \in [1 .. Len(old) -> T]
      BY <3>1, <3>2
    <3>4. old \in Seq(T) /\ v \in T
      BY <3>1, <3>2, <3>3
    <3> QED
      BY <1>4, <3>4
  <2>3. PICK a : a = [i \in 1 .. cap |-> IF i <= Len(shown) THEN shown[i] ELSE 0]
    OBVIOUS
  <2>4. IsSeq(a) /\ Len(a) = cap
    BY <2>3, FunctionIsSeq
  <2>5. PICK q : q = Slice(Len(mem) + 1, 0, s.len + 1, cap)
    OBVIOUS
  <2>6. r = [mem |-> Append(mem, a), slice |-> q]
    BY <1>1, <1>3, <1>6, <1>8, <2>1, <2>2, <2>3, <2>5, Zenon DEF AppendTo
  <2>7. PICK new : new = r.mem
    OBVIOUS
  <2>8. new = Append(mem, a) /\ r.slice = q
    BY <2>6, <2>7
  <2>9. /\ MemoryOK(new) /\ Len(mem) \in Nat /\ Len(new) = Len(mem) + 1 /\ new[Len(mem) + 1] = a
        /\ \A t : SliceOK(mem, t) =>
             SliceOK(new, t) /\ View(new, t) = View(mem, t) /\ t.arr # Len(mem) + 1
    <3>1. Extended(mem, a, new)
      BY <2>4, <2>8, NewArray
    <3> QED
      BY <3>1 DEF Extended
  <2>10. SliceOK(new, q) /\ \A t : t.arr # Len(mem) + 1 => Apart(q, t)
    <3>1. PICK len \in Nat : len = s.len + 1
      BY <1>2
    <3>2. len <= cap /\ 0 + cap <= Len(new[Len(mem) + 1])
      BY <2>1, <2>4, <2>9, <3>1
    <3>3. q = Slice(Len(mem) + 1, 0, len, cap)
      BY <2>5, <3>1
    <3> QED
      BY <2>9, <3>2, <3>3, NewSlice
  <2>11. View(new, q) = shown
    <3>1. q.arr = Len(mem) + 1 /\ q.from = 0 /\ q.len = s.len + 1
      BY <2>5 DEF Slice
    <3>2. PICK w : w = View(new, q)
      OBVIOUS
    <3>3. IsSeq(w) /\ Len(w) = s.len + 1 /\ \A n \in 1 .. s.len + 1 : w[n] = a[0 + n]
      BY <2>9, <2>10, <3>1, <3>2, ViewIs
    <3>4. \A n \in 1 .. s.len + 1 : w[n] = shown[n]
      <4>1. ASSUME NEW n \in 1 .. s.len + 1 PROVE w[n] = shown[n]
        <5>1. n \in 1 .. cap /\ n <= Len(shown) /\ 0 + n = n
          BY <1>2, <1>6, <2>1
        <5> QED
          BY <2>3, <3>3, <5>1
      <4> QED
        BY <4>1
    <3>5. w = shown
      BY <1>6, <3>3, <3>4, SameElements
    <3> QED
      BY <3>2, <3>5
  <2> QED
    BY <1>3, <1>4, <2>7, <2>8, <2>9, <2>10, <2>11 DEF AppendedTo
<1> QED
  BY <1>7, <1>8

LEMMA HeapAppend ==
  ASSUME HeapInv, NEW h \in Handles, NEW name, AppendValue(h, name)
  PROVE  HeapInv'
<1>1. Exists(h)
  BY DEF AppendValue
<1>2. CASE ~Has(h, name) /\ SetTo(h, name, <<ops'>>)
  <2>1. IsSeq(<<ops'>>)
    BY OneValue
  <2> QED
    BY <1>1, <1>2, <2>1, HeapSetTo
<1>3. CASE Has(h, name)
  <2>1. PICK x \in DOMAIN mds[h] : x = Lower[name]
    BY <1>3 DEF Has
  <2>2. PICK s : s = mds[h][x]
    OBVIOUS
  <2>3. PICK v : v = ops'
    OBVIOUS
  <2>4. PICK r : r = AppendTo(arrays, s, <<v>>)
    OBVIOUS
  <2>5. /\ arrays' = r.mem /\ mds' = [mds EXCEPT ![h] = [mds[h] EXCEPT ![x] = r.slice]]
        /\ ideal' = [ideal EXCEPT ![h] = [ideal[h] EXCEPT ![x] = Append(ideal[h][x], v)]]
    BY <1>3, <2>1, <2>2, <2>3, <2>4 DEF AppendValue
  <2>6. MemoryOK(arrays) /\ MDOK(arrays, mds[h], ideal[h]) /\ AllApart(mds)
    BY <1>1 DEF HeapInv
  <2>7. SliceOK(arrays, s) /\ ideal[h][x] = View(arrays, s)
    BY <2>1, <2>2, <2>6 DEF MDOK
  <2>8. /\ MemoryOK(arrays') /\ SliceOK(arrays', r.slice)
        /\ View(arrays', r.slice) = Append(ideal[h][x], v)
        /\ \A t : SliceOK(arrays, t) /\ Apart(s, t) =>
             SliceOK(arrays', t) /\ View(arrays', t) = View(arrays, t) /\ Apart(r.slice, t)
    <3>1. AppendedTo(arrays, s, v, r)
      BY <2>4, <2>6, <2>7, AppendToKeeps
    <3> QED
      BY <2>5, <2>7, <3>1 DEF AppendedTo
  <2>9. ASSUME NEW g \in Handles, Exists(g), NEW y \in DOMAIN mds[g], g # h \/ y # x
        PROVE  /\ SliceOK(arrays', mds[g][y]) /\ View(arrays', mds[g][y]) = View(arrays, mds[g][y])
               /\ Apart(r.slice, mds[g][y])
    <3>1. SliceOK(arrays, mds[g][y])
      BY <2>9 DEF HeapInv, MDOK
    <3>2. Apart(s, mds[g][y])
      BY <1>1, <2>1, <2>2, <2>6, <2>9 DEF AllApart, Exists
    <3> QED
      BY <2>8, <3>1, <3>2
  <2>10. [mds[h] EXCEPT ![x] = r.slice] = With(mds[h], x, r.slice)
    BY <2>1, <2>6 DEF MDOK, With
  <2>11. [ideal[h] EXCEPT ![x] = Append(ideal[h][x], v)] = With(ideal[h], x, Append(ideal[h][x], v))
    <3>1. ideal[h] = [y \in DOMAIN ideal[h] |-> ideal[h][y]] /\ x \in DOMAIN ideal[h]
      BY <2>1, <2>6 DEF MDOK
    <3> QED
      BY <3>1 DEF With
  <2>12. /\ mds' = [mds EXCEPT ![h] = With(mds[h], x, r.slice)]
         /\ ideal' = [ideal EXCEPT ![h] = With(ideal[h], x, Append(ideal[h][x], v))]
    BY <2>5, <2>10, <2>11
  <2>13. Puts(h, x, r.slice, Append(ideal[h][x], v), mds[h], ideal[h])
    BY <1>1, <2>8, <2>9, <2>12 DEF Puts
  <2> QED
    BY <2>13, PutKeeps
<1> QED
  BY <1>2, <1>3 DEF AppendValue

\* An MD is made without a slice, or loses one.
LEMMA HeapShrinks ==
  ASSUME HeapInv, NEW h \in Handles, NEW md, NEW content, MDOK(arrays, md, content),
         \A x \in DOMAIN md : Exists(h) /\ x \in DOMAIN mds[h] /\ md[x] = mds[h][x],
         UNCHANGED arrays, mds' = [mds EXCEPT ![h] = md], ideal' = [ideal EXCEPT ![h] = content]
  PROVE  HeapInv'
<1>1. /\ mds' = [g \in Handles |-> mds'[g]] /\ mds'[h] = md
      /\ ideal' = [g \in Handles |-> ideal'[g]] /\ ideal'[h] = content
      /\ \A g \in Handles : g # h => mds'[g] = mds[g] /\ ideal'[g] = ideal[g]
  BY DEF HeapInv
<1>2. ASSUME NEW g \in Handles, Exists(g)' PROVE MDOK(arrays, mds[g], ideal[g])'
  <2>1. CASE g = h
    <3>1. MDOK(arrays', mds'[h], ideal'[h])
      BY <1>1
    <3> QED
      BY <2>1, <3>1
  <2>2. CASE g # h
    <3>1. MDOK(arrays, mds[g], ideal[g]) /\ mds'[g] = mds[g] /\ ideal'[g] = ideal[g]
      BY <1>1, <1>2, <2>2 DEF HeapInv, Exists
    <3>2. MDOK(arrays', mds'[g], ideal'[g])
      BY <3>1
    <3> QED
      BY <3>2
  <2> QED
    BY <2>1, <2>2
<1>3. AllApart(mds')
  <2>1. SUFFICES ASSUME NEW g \in Handles, NEW f \in Handles, mds'[g] # NoMD, mds'[f] # NoMD,
                        NEW y \in DOMAIN mds'[g], NEW z \in DOMAIN mds'[f], g # f \/ y # z
                 PROVE  Apart(mds'[g][y], mds'[f][z])
    BY DEF AllApart
  <2>2. ASSUME NEW e \in Handles, NEW w \in DOMAIN mds'[e], mds'[e] # NoMD
        PROVE  mds[e] # NoMD /\ w \in DOMAIN mds[e] /\ mds'[e][w] = mds[e][w]
    <3>1. CASE e # h
      BY <1>1, <2>2, <3>1
    <3>2. CASE e = h
      BY <1>1, <2>2, <3>2 DEF Exists
    <3> QED
      BY <3>1, <3>2
  <2>3. /\ mds[g] # NoMD /\ y \in DOMAIN mds[g] /\ mds'[g][y] = mds[g][y]
        /\ mds[f] # NoMD /\ z \in DOMAIN mds[f] /\ mds'[f][z] = mds[f][z]
    BY <2>1, <2>2
  <2>4. Apart(mds[g][y], mds[f][z])
    BY <2>1, <2>3 DEF HeapInv, AllApart
  <2> QED
    BY <2>3, <2>4
<1> QED
  BY <1>1, <1>2, <1>3 DEF HeapInv

LEMMA HeapMake ==
  ASSUME HeapInv, NEW h \in Handles, Make(h)
  PROVE  HeapInv'
<1>1. MDOK(arrays, Empty, Empty) /\ DOMAIN Empty = {}
  BY FS_EmptySet DEF MDOK, Empty
<1>2. /\ UNCHANGED arrays /\ mds' = [mds EXCEPT ![h] = Empty]
      /\ ideal' = [ideal EXCEPT ![h] = Empty]
  BY DEF Make
<1> QED
  BY <1>1, <1>2, HeapShrinks

LEMMA HeapDelete ==
  ASSUME HeapInv, NEW h \in Handles, NEW name, Delete(h, name)
  PROVE  HeapInv'
<1>1. PICK x : x = Lower[name]
  OBVIOUS
<1>2. PICK md : md = Without(mds[h], x)
  OBVIOUS
<1>3. PICK content : content = Without(ideal[h], x)
  OBVIOUS
<1>4. /\ Exists(h) /\ UNCHANGED arrays /\ mds' = [mds EXCEPT ![h] = md]
      /\ ideal' = [ideal EXCEPT ![h] = content]
  BY <1>1, <1>2, <1>3 DEF Delete, Has
<1>5. MDOK(arrays, mds[h], ideal[h])
  BY <1>4 DEF HeapInv
<1>6. IsFiniteSet(DOMAIN mds[h] \ {x})
  BY <1>5, FS_RemoveElement DEF MDOK
<1>7. /\ DOMAIN md = DOMAIN mds[h] \ {x} /\ md = [y \in DOMAIN md |-> md[y]]
      /\ \A y \in DOMAIN md : y \in DOMAIN mds[h] /\ md[y] = mds[h][y]
  BY <1>2 DEF Without
<1>8. content = [y \in DOMAIN md |-> View(arrays, md[y])]
  <2>1. ideal[h] = [y \in DOMAIN mds[h] |-> View(arrays, mds[h][y])]
    BY <1>5 DEF MDOK
  <2> QED
    BY <1>3, <1>7, <2>1 DEF Without
<1>9. MDOK(arrays, md, content)
  BY <1>5, <1>6, <1>7, <1>8 DEF MDOK
<1> QED
  BY <1>4, <1>7, <1>9, HeapShrinks

\* A clone has its windows in a new array, one after the other: they are apart
\* from all slices there were, and from each other.
LEMMA HeapCloneInto ==
  ASSUME HeapInv, NEW h \in Handles, NEW g \in Handles, Exists(h), h # g,
         NEW order \in Orders(mds[h]), CloneInto(h, g, order),
         ideal' = [ideal EXCEPT ![g] = ideal[h]]
  PROVE  HeapInv'
<1>1. PICK md : md = mds[h]
  OBVIOUS
<1>2. PICK content : content = ideal[h]
  OBVIOUS
<1>3. MDOK(arrays, md, content) /\ MemoryOK(arrays)
  BY <1>1, <1>2 DEF HeapInv
<1>4. /\ content = [x \in DOMAIN md |-> View(arrays, md[x])] /\ DOMAIN content = DOMAIN md
      /\ IsFiniteSet(DOMAIN md)
  BY <1>3 DEF MDOK
<1>5. Contents(arrays, mds[h]) = content
  BY <1>1, <1>4 DEF Contents
<1>6. \A x \in DOMAIN content : IsSeq(content[x])
  BY <1>3, <1>4, ViewIs DEF MDOK
<1>7. Listed(content, order)
  BY <1>1, <1>4, <1>6, OrdersList
<1>8. PICK pairs : pairs = Pairs(content, order)
  OBVIOUS
<1>9. PICK end : end = Ends(content, order)
  OBVIOUS
<1>10. PICK N \in Nat : N = Len(order)
  BY <1>7 DEF Listed
<1>11. /\ IsSeq(pairs) /\ Len(pairs) = end[N]
       /\ \A i \in 1 .. N : \A m \in 1 .. Len(content[order[i]]) :
            pairs[end[i - 1] + m] = [key |-> order[i], value |-> content[order[i]][m]]
  BY <1>7, <1>8, <1>9, <1>10, PairsAre
<1>12. /\ \A i \in 1 .. N : end[i] = end[i - 1] + Len(content[order[i]])
                            /\ Len(content[order[i]]) \in Nat
       /\ \A i \in 0 .. N : end[i] \in Nat
       /\ \A i, j \in 0 .. N : i <= j => end[i] <= end[j]
  BY <1>7, <1>9, <1>10, EndsRise
<1>13. PICK L \in Nat : L = Len(pairs)
  BY <1>10, <1>11, <1>12
<1>14. PICK flat : flat = [n \in DOMAIN pairs |-> pairs[n].value]
  OBVIOUS
<1>15. DOMAIN pairs = 1 .. L
  BY <1>11, <1>13 DEF IsSeq
<1>16. IsSeq(flat) /\ Len(flat) = L /\ \A n \in 1 .. L : flat[n] = pairs[n].value
  <2>1. flat = [n \in 1 .. L |-> flat[n]]
    BY <1>14, <1>15
  <2> QED
    BY <1>14, <1>15, <2>1, FunctionIsSeq
<1>17. PICK A : A = Len(arrays) + 1
  OBVIOUS
<1>18. DOMAIN order = 1 .. N /\ \A x \in DOMAIN md : \E i \in 1 .. N : order[i] = x
  BY <1>4, <1>7, <1>10 DEF Listed
<1>19. PICK at : at = [x \in DOMAIN md |-> CHOOSE i \in 1 .. N : order[i] = x]
  OBVIOUS
<1>20. \A x \in DOMAIN md : at[x] \in 1 .. N /\ order[at[x]] = x
  BY <1>18, <1>19
<1>21. PICK new : new = [x \in DOMAIN md |->
                           Slice(A, end[at[x] - 1], Len(content[x]), Len(content[x]))]
  OBVIOUS
<1>22. arrays' = Append(arrays, flat) /\ mds' = [mds EXCEPT ![g] = new]
  <2>1. PICK c : c = Contents(arrays, mds[h])
    OBVIOUS
  <2>2. /\ arrays' = Append(arrays, [n \in DOMAIN Pairs(c, order) |-> Pairs(c, order)[n].value])
        /\ mds' = [mds EXCEPT ![g] = [x \in DOMAIN mds[h] |->
             Window(Ends(c, order)[(CHOOSE i \in DOMAIN order : order[i] = x) - 1],
                    Len(c[x]), Len(Pairs(c, order)))]]
    BY <2>1 DEF CloneInto
  <2>3. c = content
    BY <1>5, <2>1
  <2>4. PICK F : F = [x \in DOMAIN mds[h] |->
             Window(Ends(c, order)[(CHOOSE i \in DOMAIN order : order[i] = x) - 1],
                    Len(c[x]), Len(Pairs(c, order)))]
    OBVIOUS
  <2>5. ASSUME NEW x \in DOMAIN md PROVE F[x] = new[x]
    <3>1. at[x] = CHOOSE i \in DOMAIN order : order[i] = x
      BY <1>18, <1>19
    <3>2. new[x] = Slice(A, end[at[x] - 1], Len(content[x]), Len(content[x]))
      BY <1>21
    <3>3. Window(end[at[x] - 1], Len(content[x]), Len(pairs)) = new[x]
      BY <1>17, <3>2 DEF Window
    <3>4. F[x] = Window(Ends(c, order)[(CHOOSE i \in DOMAIN order : order[i] = x) - 1],
                        Len(c[x]), Len(Pairs(c, order)))
      BY <1>1, <2>4
    <3>5. F[x] = Window(Ends(c, order)[at[x] - 1], Len(c[x]), Len(Pairs(c, order)))
      BY <3>1, <3>4
    <3> QED
      BY <1>8, <1>9, <2>3, <3>3, <3>5
  <2>6. F = new
    BY <1>1, <1>21, <2>4, <2>5
  <2>7. arrays' = Append(arrays, flat)
    BY <1>8, <1>14, <2>2, <2>3
  <2>8. mds' = [mds EXCEPT ![g] = F]
    BY <2>2, <2>4, Zenon
  <2> QED
    BY <2>6, <2>7, <2>8
<1>23. /\ MemoryOK(arrays') /\ Len(arrays) \in Nat /\ Len(arrays') = A /\ arrays'[A] = flat
       /\ \A t : SliceOK(arrays, t) =>
            SliceOK(arrays', t) /\ View(arrays', t) = View(arrays, t) /\ t.arr # A
  <2>1. Extended(arrays, flat, arrays')
    BY <1>3, <1>16, <1>22, NewArray
  <2> QED
    BY <1>17, <2>1 DEF Extended
<1>24. ASSUME NEW x \in DOMAIN md
       PROVE  /\ new[x].arr = A /\ new[x].from = end[at[x] - 1]
              /\ new[x].len = Len(content[x]) /\ new[x].cap = Len(content[x])
              /\ new[x] = Slice(A, end[at[x] - 1], Len(content[x]), Len(content[x]))
              /\ end[at[x]] = end[at[x] - 1] + Len(content[x]) /\ Len(content[x]) \in Nat
              /\ end[at[x] - 1] \in Nat /\ end[at[x]] <= L
  <2>1. new[x] = Slice(A, end[at[x] - 1], Len(content[x]), Len(content[x]))
    BY <1>21
  <2>2. at[x] \in 1 .. N /\ order[at[x]] = x
    BY <1>20
  <2>3. end[at[x]] = end[at[x] - 1] + Len(content[x]) /\ Len(content[x]) \in Nat
    BY <1>12, <2>2
  <2>4. at[x] - 1 \in 0 .. N /\ at[x] \in 0 .. N /\ N \in 0 .. N /\ at[x] <= N
    BY <1>10, <2>2
  <2>5. end[at[x] - 1] \in Nat /\ end[at[x]] <= L
    BY <1>11, <1>12, <1>13, <2>4
  <2> QED
    BY <2>1, <2>3, <2>5 DEF Slice
<1>25. ASSUME NEW x \in DOMAIN md PROVE SliceOK(arrays', new[x])
  <2>1. A \in 1 .. Len(arrays')
    BY <1>17, <1>23
  <2>2. Len(arrays'[A]) = L
    BY <1>16, <1>23
  <2> QED
    BY <1>13, <1>24, <2>1, <2>2 DEF SliceOK
<1>26. ASSUME NEW x \in DOMAIN md PROVE View(arrays', new[x]) = content[x]
  <2>1. PICK w : w = View(arrays', new[x])
    OBVIOUS
  <2>2. PICK l \in Nat : l = Len(content[x])
    BY <1>24
  <2>3. PICK from \in Nat : from = end[at[x] - 1]
    BY <1>24
  <2>4. IsSeq(w) /\ Len(w) = l /\ \A n \in 1 .. l : w[n] = flat[from + n]
    <3>1. new[x].arr = A /\ new[x].from = from /\ new[x].len = l
      BY <1>24, <2>2, <2>3
    <3> QED
      BY <1>23, <1>25, <2>1, <3>1, ViewIs
  <2>5. ASSUME NEW n \in 1 .. l PROVE w[n] = content[x][n]
    <3>1. from + n \in 1 .. L
      BY <1>13, <1>24, <2>2, <2>3
    <3>2. at[x] \in 1 .. N /\ order[at[x]] = x
      BY <1>20
    <3>3. pairs[from + n] = [key |-> x, value |-> content[x][n]]
      BY <1>11, <2>2, <2>3, <3>2
    <3> QED
      BY <1>16, <2>4, <3>1, <3>3
  <2>6. IsSeq(content[x])
    BY <1>4, <1>6
  <2>7. w = content[x]
    BY <2>2, <2>4, <2>5, <2>6, SameElements
  <2> QED
    BY <2>1, <2>7
<1>27. ASSUME NEW x \in DOMAIN md, NEW y \in DOMAIN md, x # y PROVE Apart(new[x], new[y])
  <2>1. PICK i \in 1 .. N : i = at[x]
    BY <1>20
  <2>2. PICK j \in 1 .. N : j = at[y]
    BY <1>20
  <2>3. i # j
    BY <1>20, <1>27, <2>1, <2>2
  <2>4. {i, j, i - 1, j - 1} \subseteq 0 .. N
    BY <1>10
  <2>5. i < j => end[i] <= end[j - 1]
    BY <1>12, <2>4
  <2>6. j < i => end[j] <= end[i - 1]
    BY <1>12, <2>4
  <2>7. /\ new[x].from = end[i - 1] /\ new[x].from + new[x].cap = end[i]
        /\ new[y].from = end[j - 1] /\ new[y].from + new[y].cap = end[j]
    BY <1>24, <2>1, <2>2
  <2> QED
    BY <1>10, <2>3, <2>5, <2>6, <2>7 DEF Apart
<1>28. /\ mds' = [f \in Handles |-> mds'[f]] /\ mds'[g] = new
       /\ ideal' = [f \in Handles |-> ideal'[f]] /\ ideal'[g] = content
       /\ \A f \in Handles : f # g => mds'[f] = mds[f] /\ ideal'[f] = ideal[f]
  BY <1>2, <1>22 DEF HeapInv
<1>29. ASSUME NEW f \in Handles, Exists(f)' PROVE MDOK(arrays, mds[f], ideal[f])'
  <2>1. CASE f = g
    <3>1. DOMAIN new = DOMAIN md /\ new = [x \in DOMAIN new |-> new[x]]
      BY <1>21
    <3>2. content = [x \in DOMAIN new |-> View(arrays', new[x])]
      BY <1>4, <1>26, <3>1
    <3>3. MDOK(arrays', new, content)
      BY <1>4, <1>25, <3>1, <3>2 DEF MDOK
    <3> QED
      BY <1>28, <2>1, <3>3
  <2>2. CASE f # g
    <3>1. MDOK(arrays, mds[f], ideal[f]) /\ mds'[f] = mds[f] /\ ideal'[f] = ideal[f]
      BY <1>28, <1>29, <2>2 DEF HeapInv, Exists
    <3>2. \A x \in DOMAIN mds[f] :
            SliceOK(arrays', mds[f][x]) /\ View(arrays', mds[f][x]) = View(arrays, mds[f][x])
      BY <1>23, <3>1 DEF MDOK
    <3>3. [x \in DOMAIN mds[f] |-> View(arrays', mds[f][x])] =
          [x \in DOMAIN mds[f] |-> View(arrays, mds[f][x])]
      BY <3>2
    <3>4. MDOK(arrays', mds[f], ideal[f])
      BY <3>1, <3>2, <3>3 DEF MDOK
    <3> QED
      BY <3>1, <3>4
  <2> QED
    BY <2>1, <2>2
<1>30. AllApart(mds')
  <2>1. SUFFICES ASSUME NEW e \in Handles, NEW f \in Handles, mds'[e] # NoMD, mds'[f] # NoMD,
                        NEW y \in DOMAIN mds'[e], NEW z \in DOMAIN mds'[f], e # f \/ y # z
                 PROVE  Apart(mds'[e][y], mds'[f][z])
    BY DEF AllApart
  <2>2. ASSUME NEW d \in Handles, NEW w \in DOMAIN mds'[d], mds'[d] # NoMD, d # g
        PROVE  /\ mds[d] # NoMD /\ w \in DOMAIN mds[d] /\ mds'[d][w] = mds[d][w]
               /\ mds'[d][w].arr # A
    <3>1. mds[d] # NoMD /\ w \in DOMAIN mds[d] /\ mds'[d][w] = mds[d][w]
      BY <1>28, <2>2
    <3>2. SliceOK(arrays, mds[d][w])
      BY <3>1 DEF HeapInv, Exists, MDOK
    <3> QED
      BY <1>23, <3>1, <3>2
  <2>3. ASSUME NEW w \in DOMAIN mds'[g] PROVE mds'[g][w].arr = A /\ w \in DOMAIN md
    <3>1. w \in DOMAIN md
      BY <1>21, <1>28
    <3> QED
      BY <1>24, <1>28, <3>1
  <2>4. CASE e = g /\ f = g
    BY <1>27, <1>28, <2>1, <2>3, <2>4
  <2>5. CASE e = g /\ f # g
    <3>1. mds'[e][y].arr = A /\ mds'[f][z].arr # A
      BY <2>1, <2>2, <2>3, <2>5
    <3> QED
      BY <3>1 DEF Apart
  <2>6. CASE e # g /\ f = g
    <3>1. mds'[f][z].arr = A /\ mds'[e][y].arr # A
      BY <2>1, <2>2, <2>3, <2>6
    <3> QED
      BY <3>1 DEF Apart
  <2>7. CASE e # g /\ f # g
    <3>1. /\ mds[e] # NoMD /\ y \in DOMAIN mds[e] /\ mds'[e][y] = mds[e][y]
          /\ mds[f] # NoMD /\ z \in DOMAIN mds[f] /\ mds'[f][z] = mds[f][z]
      BY <2>1, <2>2, <2>7
    <3>2. Apart(mds[e][y], mds[f][z])
      BY <2>1, <3>1 DEF HeapInv, AllApart
    <3> QED
      BY <3>1, <3>2
  <2> QED
    BY <2>4, <2>5, <2>6, <2>7
<1> QED
  BY <1>23, <1>28, <1>29, <1>30 DEF HeapInv

LEMMA HeapNext ==
  ASSUME HeapInv, Next
  PROVE  HeapInv'
<1>1. PICK h \in Handles :
        \/ Make(h) \/ \E g \in Handles : Clone(h, g)
        \/ \E name \in Names : \/ Literal(h, name) \/ Set(h, name)
                               \/ Delete(h, name) \/ AppendValue(h, name)
  BY DEF Next
<1>2. CASE Make(h)
  BY <1>2, HeapMake
<1>3. ASSUME NEW g \in Handles, Clone(h, g) PROVE HeapInv'
  <2>1. PICK order \in Orders(mds[h]) : CloneInto(h, g, order)
    BY <1>3 DEF Clone
  <2>2. Exists(h) /\ h # g /\ ideal' = [ideal EXCEPT ![g] = ideal[h]]
    BY <1>3 DEF Clone
  <2> QED
    BY <2>1, <2>2, HeapCloneInto
<1>4. ASSUME NEW name \in Names, Literal(h, name) PROVE HeapInv'
  BY <1>4, HeapLiteral
<1>5. ASSUME NEW name \in Names, Set(h, name) PROVE HeapInv'
  <2>1. Exists(h) /\ SetTo(h, name, <<ops'>>) /\ IsSeq(<<ops'>>)
    BY <1>5, OneValue DEF Set
  <2> QED
    BY <2>1, HeapSetTo
<1>6. ASSUME NEW name \in Names, Delete(h, name) PROVE HeapInv'
  BY <1>6, HeapDelete
<1>7. ASSUME NEW name \in Names, AppendValue(h, name) PROVE HeapInv'
  BY <1>7, HeapAppend
<1> QED
  BY <1>1, <1>2, <1>3, <1>4, <1>5, <1>6, <1>7

LEMMA HeapKept ==
  ASSUME HeapInv, [CallNext]_<<vars, configVars, callVars>>
  PROVE  HeapInv'
<1>1. CASE Prepare
  BY <1>1, HeapNext DEF Prepare
<1>2. ASSUME NEW h \in Handles, NEW until \in Untils, Call(h, until) PROVE HeapInv'
  <2>1. /\ arrays' = <<>> /\ mds' = [g \in Handles |-> NoMD] /\ ideal' = mds'
    BY <1>2 DEF Call
  <2>2. MemoryOK(arrays')
    <3>1. <<>> \in Seq({})
      OBVIOUS
    <3>2. IsSeq(<<>>)
      BY <3>1, SeqIsSeq
    <3> QED
      BY <2>1, <3>2 DEF MemoryOK
  <2>3. \A g \in Handles : mds'[g] = NoMD
    BY <2>1
  <2>4. AllApart(mds')
    BY <2>3 DEF AllApart
  <2> QED
    BY <2>1, <2>2, <2>3, <2>4 DEF HeapInv, Exists
<1>3. CASE UNCHANGED <<arrays, mds, ideal>>
  BY <1>3 DEF HeapInv, Exists
<1>4. CASE CallNext /\ ~Prepare /\ ~(\E h \in Handles, until \in Untils : Call(h, until))
  <2>1. UNCHANGED vars
    BY <1>4 DEF CallNext, Register, CallUnmarshalable, Continue, GoOn, Refuse, PassOn, Dispatch,
             DispatchFails, Unimplemented, Handle, Begin, MethodReturns, Respond, CallReturns, quiet
  <2> QED
    BY <1>3, <2>1 DEF vars
<1>5. CASE UNCHANGED <<vars, configVars, callVars>>
  BY <1>3, <1>5 DEF vars
<1> QED
  BY <1>1, <1>2, <1>4, <1>5

LEMMA InitHeap ==
  ASSUME CallInit
  PROVE  HeapInv
<1>1. arrays = <<>> /\ mds = [h \in Handles |-> NoMD] /\ ideal = [h \in Handles |-> NoMD]
  BY DEF CallInit, Init
<1>2. MemoryOK(arrays)
  <2>1. <<>> \in Seq({})
    OBVIOUS
  <2>2. IsSeq(<<>>)
    BY <2>1, SeqIsSeq
  <2> QED
    BY <1>1, <2>2 DEF MemoryOK
<1>3. \A h \in Handles : mds[h] = NoMD
  BY <1>1
<1>4. AllApart(mds)
  BY <1>3 DEF AllApart
<1> QED
  BY <1>1, <1>2, <1>3, <1>4 DEF HeapInv, Exists

\* Set, Append and Clone of metadata.go never let an MD or a key show what was
\* written through another, though they keep and share arrays.
THEOREM MDsStayValues == CallSpec => []MDsAreValues
<1>1. CallInit => HeapInv
  BY InitHeap
<1>2. HeapInv /\ [CallNext]_<<vars, configVars, callVars>> => HeapInv'
  BY HeapKept
<1>3. HeapInv => MDsAreValues
  BY DEF HeapInv, MDOK, MDsAreValues, Contents
<1> QED
  BY <1>1, <1>2, <1>3, PTL DEF CallSpec

-----------------------------------------------------------------------------
(* The metadata of a call: its request holds the pairs of what was         *)
(* attached, and the context on the server what fromRequest makes of them. *)

MetadataKept == \A name \in Names : Get(hctx.metadata, name) = Get(asked.metadata, name)

RequestInv ==
  /\ pc \in {"client", "route", "server", "method", "into", "result"} =>
       \E order : /\ Listed(asked.metadata, order)
                  /\ creq.metadata = Pairs(asked.metadata, order)
  /\ OnServer => MetadataKept

LEMMA RequestAside ==
  ASSUME RequestInv, UNCHANGED <<creq, asked, hctx>>, OnServer' => OnServer,
         \/ pc \in {"client", "route", "server", "method", "into", "result"}
         \/ pc' \in {"panic", "build", "done"}
  PROVE  RequestInv'
BY DEF RequestInv, MetadataKept

LEMMA RequestHandled ==
  ASSUME RequestInv, Handle
  PROVE  RequestInv'
<1>1. /\ UNCHANGED <<creq, asked>> /\ pc = "route" /\ pc' = "server"
      /\ hctx'.metadata = IF creq.metadata = <<>> THEN Empty ELSE FromRequest(creq.metadata)
  BY DEF Handle, quiet
<1>2. PICK content : content = asked.metadata
  OBVIOUS
<1>3. PICK order : Listed(content, order) /\ creq.metadata = Pairs(content, order)
  BY <1>1, <1>2 DEF RequestInv
<1>4. FromRequest(<<>>) = Empty
  <2>1. Filled(<<>>)[0] = Empty
    <3>1. PICK s : s = <<>>
      OBVIOUS
    <3>2. Len(s) \in Nat /\ Len(s) = 0
      BY <3>1
    <3>3. Filled(s)[0] = Empty
      BY <3>2, FilledAre
    <3> QED
      BY <3>1, <3>3
  <2> QED
    BY <2>1 DEF FromRequest
<1>5. hctx'.metadata = FromRequest(Pairs(content, order))
  BY <1>1, <1>3, <1>4
<1>6. \A x : Values(hctx'.metadata, x) = Values(content, x)
  BY <1>3, <1>5, RequestKeepsValues
<1>7. MetadataKept'
  BY <1>1, <1>2, <1>6 DEF MetadataKept, Get
<1> QED
  BY <1>1, <1>7 DEF RequestInv

LEMMA RequestMade ==
  ASSUME HeapInv, StackInv, NEW h \in Handles, NEW until \in Untils, Call(h, until)
  PROVE  RequestInv'
<1>1. PICK content : content = Attached(h)
  OBVIOUS
<1>2. IsFiniteSet(DOMAIN content) /\ \A x \in DOMAIN content : IsSeq(content[x])
  <2>1. CASE Exists(h)
    <3>1. content = [x \in DOMAIN mds[h] |-> View(arrays, mds[h][x])]
      BY <1>1, <2>1 DEF Attached, Contents
    <3>2. /\ IsFiniteSet(DOMAIN mds[h]) /\ MemoryOK(arrays)
          /\ \A x \in DOMAIN mds[h] : SliceOK(arrays, mds[h][x])
      BY <2>1 DEF HeapInv, MDOK
    <3>3. \A x \in DOMAIN mds[h] : IsSeq(View(arrays, mds[h][x]))
      BY <3>2, ViewIs
    <3> QED
      BY <3>1, <3>2, <3>3
  <2>2. CASE ~Exists(h)
    BY <1>1, <2>2, FS_EmptySet DEF Attached, Empty
  <2> QED
    BY <2>1, <2>2
<1>3. PICK order \in Orders(content) :
        creq' = [metadata |-> Pairs(content, order), timeout |-> TimeoutNano(until)]
  BY <1>1 DEF Call
<1>4. Listed(content, order)
  BY <1>2, <1>3, OrdersList
<1>5. asked'.metadata = content /\ creq'.metadata = Pairs(content, order)
  BY <1>1, <1>3 DEF Call
<1>6. pc' = "client" /\ stack' = <<>>
  BY DEF Call, StackInv
<1> QED
  BY <1>4, <1>5, <1>6 DEF RequestInv, OnServer

LEMMA RequestNext ==
  ASSUME HeapInv, StackInv, RequestInv, [CallNext]_<<vars, configVars, callVars>>
  PROVE  RequestInv'
<1>1. CASE Continue \/ GoOn \/ Refuse \/ PassOn \/ Respond \/ Unimplemented
  <2>1. UNCHANGED <<creq, asked, hctx>>
    BY <1>1 DEF Continue, GoOn, Refuse, PassOn, Respond, Unimplemented, quiet
  <2>2. pc \in {"client", "route", "server", "into", "result"}
    BY <1>1 DEF Continue, GoOn, Refuse, PassOn, Respond, Unimplemented
  <2> QED
    BY <1>1, <2>1, <2>2, OnServerAfter, RequestAside
<1>2. CASE Prepare \/ Register \/ CallUnmarshalable
  <2>1. UNCHANGED <<creq, asked, hctx, stack>> /\ pc' \in {"build", "panic", "done"}
    BY <1>2 DEF Prepare, Register, CallUnmarshalable, callVars
  <2> QED
    BY <2>1, RequestAside DEF OnServer
<1>3. ASSUME NEW h \in Handles, NEW until \in Untils, Call(h, until) PROVE RequestInv'
  BY <1>3, RequestMade
<1>4. CASE Dispatch
  <2>1. /\ UNCHANGED <<creq, asked, hctx>> /\ pc = "client" /\ pc' = "route"
        /\ stack' = Append(stack, [side |-> "wire"])
    BY <1>4 DEF Dispatch
  <2>2. PICK frame : frame = [side |-> "wire"]
    OBVIOUS
  <2>3. IsSeq(stack) /\ Len(stack) \in Nat /\ stack' = Append(stack, frame)
    BY <2>1, <2>2 DEF StackInv, IsSeq
  <2>4. /\ Len(stack') = Len(stack) + 1 /\ stack'[Len(stack) + 1] = frame
        /\ \A n \in 1 .. Len(stack) : stack'[n] = stack[n]
    BY <2>3, Appended
  <2>5. OnServer' => OnServer
    BY <2>1, <2>2, <2>3, <2>4 DEF OnServer
  <2> QED
    BY <2>1, <2>5, RequestAside
<1>5. CASE DispatchFails \/ Begin \/ MethodReturns
  <2>1. UNCHANGED <<creq, asked, hctx, stack>> /\ pc \in {"client", "server", "method"}
    BY <1>5 DEF DispatchFails, Begin, MethodReturns, quiet
  <2>2. pc' \in {"server", "method"} => pc = "server"
    BY <1>5 DEF DispatchFails, Begin, MethodReturns
  <2> QED
    BY <2>1, <2>2, RequestAside DEF OnServer
<1>6. CASE Handle
  BY <1>6, RequestHandled
<1>7. ASSUME NEW typed \in BOOLEAN, CallReturns(typed) PROVE RequestInv'
  BY <1>7, RequestAside DEF CallReturns, quiet, OnServer
<1>8. CASE UNCHANGED <<vars, configVars, callVars>>
  BY <1>8 DEF callVars, RequestInv, OnServer, MetadataKept
<1> QED
  BY <1>1, <1>2, <1>3, <1>4, <1>5, <1>6, <1>7, <1>8 DEF CallNext

\* The method finds under every name the values the caller had attached, in
\* their order, in whatever order setRequest ranged over the map.
THEOREM MetadataKeptOnTheWay == CallSpec => []MetadataArrives
<1>1. CallInit => HeapInv /\ StackInv /\ RequestInv
  <2> SUFFICES ASSUME CallInit PROVE HeapInv /\ StackInv /\ RequestInv
    OBVIOUS
  <2>1. stack = <<>> /\ pc \in {"noServer", "build"}
    BY DEF CallInit
  <2> QED
    BY <2>1, InitHeap, InitStack DEF RequestInv, OnServer
<1>2. /\ HeapInv /\ StackInv /\ RequestInv
      /\ [CallNext]_<<vars, configVars, callVars>>
      => HeapInv' /\ StackInv' /\ RequestInv'
  BY HeapKept, StackNext, RequestNext
<1>3. RequestInv => MetadataArrives
  BY DEF RequestInv, OnServer, MetadataKept, MetadataArrives
<1> QED
  BY <1>1, <1>2, <1>3, PTL DEF CallSpec

-----------------------------------------------------------------------------
(* Concatenation.                                                          *)

LEMMA CommonSet ==
  ASSUME NEW s, NEW t, IsSeq(s), IsSeq(t)
  PROVE  \E T : s \in Seq(T) /\ t \in Seq(T)
<1>1. PICK T : T = ToSet(s) \cup ToSet(t)
  OBVIOUS
<1>2. s \in [1 .. Len(s) -> ToSet(s)] /\ Len(s) \in Nat
  BY DEF IsSeq
<1>3. t \in [1 .. Len(t) -> ToSet(t)] /\ Len(t) \in Nat
  BY DEF IsSeq
<1>4. s \in [1 .. Len(s) -> T] /\ t \in [1 .. Len(t) -> T]
  BY <1>1, <1>2, <1>3
<1>5. s \in Seq(T)
  BY <1>2, <1>4
<1>6. t \in Seq(T)
  BY <1>3, <1>4
<1> QED
  BY <1>5, <1>6

IsJoin(s, t, u) ==
  /\ IsSeq(u) /\ Len(u) = Len(s) + Len(t) /\ Len(s) \in Nat /\ Len(t) \in Nat
  /\ \A n \in 1 .. Len(s) : u[n] = s[n]
  /\ \A n \in 1 .. Len(t) : u[Len(s) + n] = t[n]

LEMMA Joined ==
  ASSUME NEW s, NEW t, IsSeq(s), IsSeq(t)
  PROVE  IsJoin(s, t, s \o t)
<1>1. PICK T : s \in Seq(T) /\ t \in Seq(T)
  BY CommonSet
<1>2. s \o t \in Seq(T)
  BY <1>1
<1>3. IsSeq(s \o t)
  BY <1>2, SeqIsSeq
<1>4. Len(s \o t) = Len(s) + Len(t) /\ Len(s) \in Nat /\ Len(t) \in Nat
  BY <1>1
<1>5. \A n \in 1 .. Len(s) : (s \o t)[n] = s[n]
  BY <1>1
<1>6. \A n \in 1 .. Len(t) : (s \o t)[Len(s) + n] = t[n]
  BY <1>1
<1> QED
  BY <1>3, <1>4, <1>5, <1>6 DEF IsJoin

LEMMA TailIs ==
  ASSUME NEW s, IsSeq(s), s # <<>>
  PROVE  /\ IsSeq(Tail(s)) /\ Len(Tail(s)) = Len(s) - 1 /\ Len(s) \in Nat /\ Len(s) > 0
         /\ Head(s) = s[1] /\ \A n \in 1 .. Len(s) - 1 : Tail(s)[n] = s[n + 1]
<1>1. s \in Seq(ToSet(s)) /\ Len(s) \in Nat /\ Len(s) > 0
  BY DEF IsSeq
<1>2. Tail(s) \in Seq(ToSet(s))
  BY <1>1
<1>3. IsSeq(Tail(s))
  BY <1>2, SeqIsSeq
<1> QED
  BY <1>1, <1>3

LEMMA EmptyIsSeq == IsSeq(<<>>) /\ Len(<<>>) = 0
<1>1. <<>> \in Seq({})
  OBVIOUS
<1> QED
  BY <1>1, SeqIsSeq

LEMMA NoLength ==
  ASSUME NEW s, IsSeq(s)
  PROVE  s = <<>> <=> Len(s) = 0
<1>1. s \in Seq(ToSet(s))
  BY DEF IsSeq
<1> QED
  BY <1>1

LEMMA JoinEmpty ==
  ASSUME NEW s, IsSeq(s)
  PROVE  <<>> \o s = s /\ s \o <<>> = s
<1>1. s \in Seq(ToSet(s))
  BY DEF IsSeq
<1> QED
  BY <1>1

\* What a concatenation begins with is what its first part begins with.
LEMMA JoinedTail ==
  ASSUME NEW s, NEW t, IsSeq(s), IsSeq(t), s # <<>>
  PROVE  s \o t # <<>> /\ Head(s \o t) = Head(s) /\ Tail(s \o t) = Tail(s) \o t
<1>1. PICK u : u = s \o t
  OBVIOUS
<1>2. /\ IsSeq(u) /\ Len(u) = Len(s) + Len(t) /\ Len(s) \in Nat /\ Len(t) \in Nat
      /\ \A n \in 1 .. Len(s) : u[n] = s[n]
      /\ \A n \in 1 .. Len(t) : u[Len(s) + n] = t[n]
  <2>1. IsJoin(s, t, u)
    BY <1>1, Joined
  <2> QED
    BY <2>1 DEF IsJoin
<1>3. Len(s) > 0
  BY TailIs
<1>4. u # <<>>
  BY <1>2, <1>3, NoLength
<1>5. PICK v : v = Tail(u)
  OBVIOUS
<1>6. /\ IsSeq(v) /\ Len(v) = Len(u) - 1 /\ Head(u) = u[1]
      /\ \A n \in 1 .. Len(u) - 1 : v[n] = u[n + 1]
  BY <1>2, <1>4, <1>5, TailIs
<1>7. PICK r : r = Tail(s)
  OBVIOUS
<1>8. /\ IsSeq(r) /\ Len(r) = Len(s) - 1 /\ Head(s) = s[1]
      /\ \A n \in 1 .. Len(s) - 1 : r[n] = s[n + 1]
  BY <1>7, TailIs
<1>9. PICK w : w = r \o t
  OBVIOUS
<1>10. /\ IsSeq(w) /\ Len(w) = Len(r) + Len(t)
       /\ \A n \in 1 .. Len(r) : w[n] = r[n]
       /\ \A n \in 1 .. Len(t) : w[Len(r) + n] = t[n]
  <2>1. IsJoin(r, t, w)
    BY <1>8, <1>9, Joined
  <2> QED
    BY <2>1 DEF IsJoin
<1>11. ASSUME NEW n \in 1 .. Len(v) PROVE v[n] = w[n]
  <2>1. n \in 1 .. Len(u) - 1 /\ n + 1 \in 1 .. Len(u)
    BY <1>2, <1>6
  <2>2. CASE n <= Len(s) - 1
    <3>1. n \in 1 .. Len(r) /\ n + 1 \in 1 .. Len(s)
      BY <1>2, <1>8, <2>1, <2>2
    <3> QED
      BY <1>2, <1>6, <1>8, <1>10, <2>1, <3>1
  <2>3. CASE n > Len(s) - 1
    <3>1. PICK m \in 1 .. Len(t) : m = n - (Len(s) - 1)
      <4>1. n - (Len(s) - 1) \in 1 .. Len(t)
        BY <1>2, <1>6, <2>1, <2>3
      <4> QED
        BY <4>1
    <3>2. n + 1 = Len(s) + m /\ n = Len(r) + m
      BY <1>2, <1>8, <3>1
    <3> QED
      BY <1>2, <1>6, <1>10, <2>1, <3>2
  <2> QED
    BY <1>2, <2>1, <2>2, <2>3
<1>12. v = w
  BY <1>2, <1>3, <1>6, <1>8, <1>10, <1>11, SameElements
<1>13. Head(u) = Head(s)
  BY <1>2, <1>3, <1>6, <1>8
<1> QED
  BY <1>1, <1>4, <1>5, <1>7, <1>9, <1>12, <1>13

LEMMA JoinThree ==
  ASSUME NEW s, NEW t, NEW u, IsSeq(s), IsSeq(t), IsSeq(u)
  PROVE  (s \o t) \o u = s \o (t \o u)
<1>1. PICK st : st = s \o t
  OBVIOUS
<1>2. PICK tu : tu = t \o u
  OBVIOUS
<1>3. PICK x : x = st \o u
  OBVIOUS
<1>4. PICK y : y = s \o tu
  OBVIOUS
<1>5. /\ IsSeq(st) /\ Len(st) = Len(s) + Len(t) /\ Len(s) \in Nat /\ Len(t) \in Nat
      /\ \A n \in 1 .. Len(s) : st[n] = s[n]
      /\ \A n \in 1 .. Len(t) : st[Len(s) + n] = t[n]
  <2>1. IsJoin(s, t, st)
    BY <1>1, Joined
  <2> QED
    BY <2>1 DEF IsJoin
<1>6. /\ IsSeq(tu) /\ Len(tu) = Len(t) + Len(u) /\ Len(u) \in Nat
      /\ \A n \in 1 .. Len(t) : tu[n] = t[n]
      /\ \A n \in 1 .. Len(u) : tu[Len(t) + n] = u[n]
  <2>1. IsJoin(t, u, tu)
    BY <1>2, Joined
  <2> QED
    BY <2>1 DEF IsJoin
<1>7. /\ IsSeq(x) /\ Len(x) = Len(st) + Len(u)
      /\ \A n \in 1 .. Len(st) : x[n] = st[n]
      /\ \A n \in 1 .. Len(u) : x[Len(st) + n] = u[n]
  <2>1. IsJoin(st, u, x)
    BY <1>3, <1>5, Joined
  <2> QED
    BY <2>1 DEF IsJoin
<1>8. /\ IsSeq(y) /\ Len(y) = Len(s) + Len(tu)
      /\ \A n \in 1 .. Len(s) : y[n] = s[n]
      /\ \A n \in 1 .. Len(tu) : y[Len(s) + n] = tu[n]
  <2>1. IsJoin(s, tu, y)
    BY <1>4, <1>6, Joined
  <2> QED
    BY <2>1 DEF IsJoin
<1>9. ASSUME NEW n \in 1 .. Len(x) PROVE x[n] = y[n]
  <2>1. CASE n <= Len(s)
    <3>1. n \in 1 .. Len(s) /\ n \in 1 .. Len(st)
      BY <1>5, <2>1
    <3> QED
      BY <1>5, <1>7, <1>8, <3>1
  <2>2. CASE n > Len(s) /\ n <= Len(st)
    <3>1. PICK m \in 1 .. Len(t) : m = n - Len(s)
      <4>1. n - Len(s) \in 1 .. Len(t)
        BY <1>5, <2>2
      <4> QED
        BY <4>1
    <3>2. n = Len(s) + m /\ m \in 1 .. Len(tu) /\ n \in 1 .. Len(st)
      BY <1>5, <1>6, <2>2, <3>1
    <3>3. x[n] = t[m]
      BY <1>5, <1>7, <3>2
    <3>4. y[n] = t[m]
      BY <1>6, <1>8, <3>2
    <3> QED
      BY <3>3, <3>4
  <2>3. CASE n > Len(st)
    <3>1. PICK m \in 1 .. Len(u) : m = n - Len(st)
      <4>1. n - Len(st) \in 1 .. Len(u)
        BY <1>5, <1>6, <1>7, <2>3
      <4> QED
        BY <4>1
    <3>2. n = Len(st) + m /\ n = Len(s) + (Len(t) + m) /\ Len(t) + m \in 1 .. Len(tu)
      BY <1>5, <1>6, <3>1
    <3>3. x[n] = u[m]
      BY <1>7, <3>2
    <3>4. y[n] = u[m]
      BY <1>6, <1>8, <3>2
    <3> QED
      BY <3>3, <3>4
  <2> QED
    BY <1>5, <1>6, <1>7, <2>1, <2>2, <2>3
<1>10. Len(x) = Len(y)
  BY <1>5, <1>6, <1>7, <1>8
<1>11. x = y
  BY <1>7, <1>8, <1>9, <1>10, SameElements
<1> QED
  BY <1>1, <1>2, <1>3, <1>4, <1>11

-----------------------------------------------------------------------------
(* What a continuation comes to: the application's functions that calling  *)
(* it calls, one inside the other.                                         *)

\* One step of calling c, whose functions are to be those of order: the first
\* of them begins, or what is at the head gives way to what it consists of.
Unrolls(c, order, R) ==
  /\ IsSeq(c) /\ IsSeq(order)
  /\ c = <<>> => order = <<>>
  /\ c # <<>> =>
       IF Head(c).kind = "one"
         THEN /\ order # <<>> /\ Head(order) = Head(c).i
              /\ <<Tail(c), Tail(order)>> \in R
         ELSE /\ Head(c).kind = "chain" => IsSeq(Head(c).of) /\ Head(c).of # <<>>
              /\ <<Unfold(c), order>> \in R
Unrolling(R) == \A p \in R : Unrolls(p[1], p[2], R)
Calls(c, order) == \E R : Unrolling(R) /\ <<c, order>> \in R

LEMMA CallsStep ==
  ASSUME NEW c, NEW order, Calls(c, order)
  PROVE  /\ IsSeq(c) /\ IsSeq(order)
         /\ c = <<>> => order = <<>>
         /\ c # <<>> =>
              IF Head(c).kind = "one"
                THEN order # <<>> /\ Head(order) = Head(c).i /\ Calls(Tail(c), Tail(order))
                ELSE Calls(Unfold(c), order)
<1>1. PICK R : Unrolling(R) /\ <<c, order>> \in R
  BY DEF Calls
<1>2. Unrolls(c, order, R)
  BY <1>1 DEF Unrolling
<1>3. \A d, o : <<d, o>> \in R => Calls(d, o)
  BY <1>1 DEF Calls
<1> QED
  BY <1>2, <1>3 DEF Unrolls

LEMMA CallsShape ==
  ASSUME NEW c, NEW order, Calls(c, order)
  PROVE  IsSeq(c) /\ IsSeq(order) /\ (c = <<>> => order = <<>>)
<1>1. PICK R : Unrolling(R) /\ <<c, order>> \in R
  BY DEF Calls
<1>2. Unrolls(c, order, R)
  BY <1>1 DEF Unrolling
<1> QED
  BY <1>2 DEF Unrolls

LEMMA CallsNothing == Calls(<<>>, <<>>)
<1> DEFINE R == {<<<<>>, <<>>>>}
<1>1. Unrolls(<<>>, <<>>, R)
  BY EmptyIsSeq DEF Unrolls
<1>2. Unrolling(R)
  BY <1>1 DEF Unrolling
<1> QED
  BY <1>2 DEF Calls

\* What comes after the head of a continuation is not disturbed by its unfolding.
LEMMA UnfoldJoined ==
  ASSUME NEW s, NEW t, IsSeq(s), IsSeq(t), s # <<>>,
         Head(s).kind = "chain" => IsSeq(Head(s).of) /\ Head(s).of # <<>>
  PROVE  Unfold(s \o t) = Unfold(s) \o t
<1>1. PICK h, r, u : h = Head(s) /\ r = Tail(s) /\ u = s \o t
  OBVIOUS
<1>2. IsSeq(r)
  BY <1>1, TailIs
<1>3. Head(u) = h /\ Tail(u) = r \o t
  BY <1>1, JoinedTail
<1>4. CASE h.kind = "chain"
  <2>1. PICK f, q : f = <<Head(h.of)>> /\ q = Remaining(h.of)
    OBVIOUS
  <2>2. IsSeq(f)
    <3>1. f \in Seq({Head(h.of)})
      BY <2>1
    <3> QED
      BY <3>1, SeqIsSeq
  <2>3. IsSeq(q)
    BY <1>1, <1>4, <2>1, TailIs DEF Remaining
  <2>4. PICK v : v = f \o q
    OBVIOUS
  <2>5. IsSeq(v)
    <3>1. IsJoin(f, q, v)
      BY <2>2, <2>3, <2>4, Joined
    <3> QED
      BY <3>1 DEF IsJoin
  <2>6. (v \o r) \o t = v \o (r \o t)
    BY <1>2, <2>5, JoinThree
  <2>7. Unfold(s) = v \o r
    BY <1>1, <1>4, <2>1, <2>4 DEF Unfold
  <2>8. Unfold(u) = v \o (r \o t)
    BY <1>3, <1>4, <2>1, <2>4 DEF Unfold
  <2> QED
    BY <1>1, <2>6, <2>7, <2>8
<1>5. CASE h.kind # "chain"
  BY <1>1, <1>3, <1>5 DEF Unfold
<1> QED
  BY <1>4, <1>5

LEMMA JoinIsSeq ==
  ASSUME NEW s, NEW t, IsSeq(s), IsSeq(t)
  PROVE  IsSeq(s \o t)
BY Joined DEF IsJoin

\* Two continuations one after the other call what each calls.
LEMMA CallsBoth ==
  ASSUME NEW c1, NEW c2, NEW o1, NEW o2, Calls(c1, o1), Calls(c2, o2)
  PROVE  Calls(c1 \o c2, o1 \o o2)
<1>1. PICK R1 : Unrolling(R1) /\ <<c1, o1>> \in R1
  BY DEF Calls
<1>2. PICK R2 : Unrolling(R2) /\ <<c2, o2>> \in R2
  BY DEF Calls
<1> DEFINE R == {<<p[1] \o c2, p[2] \o o2>> : p \in R1} \cup R2
<1>3. \A d, o : <<d, o>> \in R1 => <<d \o c2, o \o o2>> \in R
  <2>1. ASSUME NEW d, NEW o, <<d, o>> \in R1 PROVE <<d \o c2, o \o o2>> \in R
    <3>1. PICK p : p = <<d, o>>
      OBVIOUS
    <3>2. p[1] = d /\ p[2] = o /\ p \in R1
      BY <2>1, <3>1
    <3> QED
      BY <3>2
  <2> QED
    BY <2>1
<1>4. \A x : x \in R2 => x \in R
  OBVIOUS
<1>5. \A x : x \in R => x \in R2 \/ \E p \in R1 : x = <<p[1] \o c2, p[2] \o o2>>
  OBVIOUS
<1> HIDE DEF R
<1>6. IsSeq(c2) /\ IsSeq(o2)
  BY CallsStep
<1>7. ASSUME NEW c, NEW order, Unrolls(c, order, R2) PROVE Unrolls(c, order, R)
  BY <1>4, <1>7 DEF Unrolls
<1>8. ASSUME NEW d, NEW o, Unrolls(d, o, R1), d # <<>>
      PROVE  Unrolls(d \o c2, o \o o2, R)
  <2>1. PICK c, order : c = d \o c2 /\ order = o \o o2
    OBVIOUS
  <2>2. IsSeq(d) /\ IsSeq(o)
    BY <1>8 DEF Unrolls
  <2>3. IsSeq(c) /\ IsSeq(order)
    BY <1>6, <2>1, <2>2, JoinIsSeq
  <2>4. c # <<>> /\ Head(c) = Head(d) /\ Tail(c) = Tail(d) \o c2
    BY <1>6, <1>8, <2>1, <2>2, JoinedTail
  <2>5. CASE Head(d).kind = "one"
    <3>1. o # <<>> /\ Head(o) = Head(d).i /\ <<Tail(d), Tail(o)>> \in R1
      BY <1>8, <2>5 DEF Unrolls
    <3>2. order # <<>> /\ Head(order) = Head(o) /\ Tail(order) = Tail(o) \o o2
      BY <1>6, <2>1, <2>2, <3>1, JoinedTail
    <3>3. <<Tail(c), Tail(order)>> \in R
      BY <1>3, <2>4, <3>1, <3>2
    <3>4. Unrolls(c, order, R)
      BY <2>3, <2>4, <2>5, <3>1, <3>2, <3>3 DEF Unrolls
    <3> QED
      BY <2>1, <3>4
  <2>6. CASE Head(d).kind # "one"
    <3>1. /\ Head(d).kind = "chain" => IsSeq(Head(d).of) /\ Head(d).of # <<>>
          /\ <<Unfold(d), o>> \in R1
      BY <1>8, <2>6 DEF Unrolls
    <3>2. Unfold(c) = Unfold(d) \o c2
      BY <1>6, <1>8, <2>1, <2>2, <3>1, UnfoldJoined
    <3>3. <<Unfold(c), order>> \in R
      BY <1>3, <2>1, <3>1, <3>2
    <3>4. Unrolls(c, order, R)
      BY <2>3, <2>4, <2>6, <3>1, <3>3 DEF Unrolls
    <3> QED
      BY <2>1, <3>4
  <2> QED
    BY <2>5, <2>6
<1>9. ASSUME NEW d, NEW o, Unrolls(d, o, R1), d = <<>>
      PROVE  Unrolls(d \o c2, o \o o2, R)
  <2>1. o = <<>>
    BY <1>9 DEF Unrolls
  <2>2. d \o c2 = c2 /\ o \o o2 = o2
    BY <1>6, <1>9, <2>1, JoinEmpty
  <2>3. Unrolls(c2, o2, R2)
    BY <1>2 DEF Unrolling
  <2>4. Unrolls(c2, o2, R)
    BY <1>7, <2>3
  <2> QED
    BY <2>2, <2>4
<1>10. Unrolling(R)
  <2>1. ASSUME NEW x \in R, x \in R2 PROVE Unrolls(x[1], x[2], R)
    BY <1>2, <1>7, <2>1 DEF Unrolling
  <2>2. ASSUME NEW x \in R, NEW p \in R1, x = <<p[1] \o c2, p[2] \o o2>>
        PROVE  Unrolls(x[1], x[2], R)
    <3>1. PICK d, o : d = p[1] /\ o = p[2]
      OBVIOUS
    <3>2. Unrolls(d, o, R1)
      BY <1>1, <3>1 DEF Unrolling
    <3>3. Unrolls(d \o c2, o \o o2, R)
      BY <1>8, <1>9, <3>2
    <3>4. x[1] = d \o c2 /\ x[2] = o \o o2
      BY <2>2, <3>1
    <3> QED
      BY <3>3, <3>4
  <2> QED
    BY <1>5, <2>1, <2>2 DEF Unrolling
<1>11. <<c1 \o c2, o1 \o o2>> \in R
  BY <1>1, <1>3
<1> QED
  BY <1>10, <1>11 DEF Calls

\* Before a step that unfolds it, a continuation calls what it calls after it.
LEMMA CallsUnfolded ==
  ASSUME NEW c, NEW order, IsSeq(c), c # <<>>, Head(c).kind # "one",
         Head(c).kind = "chain" => IsSeq(Head(c).of) /\ Head(c).of # <<>>,
         Calls(Unfold(c), order)
  PROVE  Calls(c, order)
<1>1. PICK R : Unrolling(R) /\ <<Unfold(c), order>> \in R
  BY DEF Calls
<1> DEFINE S == R \cup {<<c, order>>}
<1>2. \A x : x \in R => x \in S
  OBVIOUS
<1>3. <<c, order>> \in S /\ \A x \in S : x \in R \/ x = <<c, order>>
  OBVIOUS
<1> HIDE DEF S
<1>4. IsSeq(order)
  BY CallsStep
<1>5. Unrolls(c, order, S)
  BY <1>1, <1>2, <1>4 DEF Unrolls
<1>6. ASSUME NEW d, NEW o, Unrolls(d, o, R) PROVE Unrolls(d, o, S)
  BY <1>2, <1>6 DEF Unrolls
<1>7. \A x \in S : Unrolls(x[1], x[2], S)
  <2>1. ASSUME NEW x \in S, x \in R PROVE Unrolls(x[1], x[2], S)
    BY <1>1, <1>6, <2>1 DEF Unrolling
  <2>2. ASSUME NEW x \in S, x = <<c, order>> PROVE Unrolls(x[1], x[2], S)
    BY <1>5, <2>2
  <2> QED
    BY <1>3, <2>1, <2>2
<1> QED
  BY <1>3, <1>7 DEF Calls, Unrolling

\* A sequence of one element.
LEMMA Alone ==
  ASSUME NEW h
  PROVE  /\ IsSeq(<<h>>) /\ <<h>> # <<>> /\ Len(<<h>>) = 1 /\ <<h>>[1] = h
         /\ Head(<<h>>) = h /\ Tail(<<h>>) = <<>>
<1>1. PICK T : h \in T
  <2>1. h \in {h}
    OBVIOUS
  <2> QED
    BY <2>1
<1>2. PICK u \in Seq(T) : u = <<h>>
  <2>1. <<h>> \in Seq(T)
    BY <1>1
  <2> QED
    BY <2>1
<1>3. Len(u) = 1 /\ u[1] = h /\ u # <<>>
  BY <1>2
<1>4. IsSeq(u)
  BY SeqIsSeq
<1>5. IsSeq(Tail(u)) /\ Len(Tail(u)) = 0 /\ Head(u) = h
  BY <1>3, <1>4, TailIs
<1>6. Tail(u) = <<>>
  BY <1>5, NoLength
<1> QED
  BY <1>2, <1>3, <1>4, <1>5, <1>6

\* The default interceptor calls what follows it, and nothing else.
LEMMA CallsDefault == Calls(<<Default>>, <<>>)
<1>1. PICK h : h = Default
  OBVIOUS
<1>2. h.kind = "default"
  BY <1>1 DEF Default
<1>4. IsSeq(<<h>>) /\ <<h>> # <<>> /\ Head(<<h>>) = h /\ Tail(<<h>>) = <<>>
  BY Alone
<1>5. Unfold(<<h>>) = <<>>
  BY <1>2, <1>4 DEF Unfold
<1>6. Calls(<<h>>, <<>>)
  BY <1>2, <1>4, <1>5, CallsNothing, CallsUnfolded
<1> QED
  BY <1>1, <1>6

\* A chain of what is not empty calls all of it.
LEMMA CallsChain ==
  ASSUME NEW cs, NEW order, cs # <<>>, Calls(cs, order)
  PROVE  Calls(<<Chain(cs)>>, order)
<1>1. PICK h : h = Chain(cs)
  OBVIOUS
<1>2. h.kind = "chain" /\ h.of = cs
  BY <1>1 DEF Chain
<1>4. IsSeq(<<h>>) /\ <<h>> # <<>> /\ Head(<<h>>) = h /\ Tail(<<h>>) = <<>>
  BY Alone
<1>5. IsSeq(cs)
  BY CallsStep
<1>6. Unfold(<<h>>) = cs
  <2>1. PICK f, q : f = <<Head(cs)>> /\ q = Tail(cs)
    OBVIOUS
  <2>2. Unfold(<<h>>) = (f \o q) \o <<>>
    BY <1>2, <1>4, <2>1 DEF Unfold, Remaining
  <2>3. cs \in Seq(ToSet(cs))
    BY <1>5 DEF IsSeq
  <2>4. IsSeq(f) /\ IsSeq(q) /\ Len(f) = 1 /\ f[1] = Head(cs)
    <3>1. IsSeq(f) /\ Len(f) = 1 /\ f[1] = Head(cs)
      BY <2>1, Alone
    <3>2. IsSeq(q)
      BY <1>5, <2>1, TailIs
    <3> QED
      BY <3>1, <3>2
  <2>5. PICK u : u = f \o q
    OBVIOUS
  <2>6. IsSeq(u) /\ Len(u) = Len(cs) /\ \A n \in 1 .. Len(u) : u[n] = cs[n]
    <3>1. IsJoin(f, q, u)
      BY <2>4, <2>5, Joined
    <3>2. /\ Len(q) = Len(cs) - 1 /\ Len(cs) \in Nat /\ Len(cs) > 0
          /\ Head(cs) = cs[1] /\ \A n \in 1 .. Len(cs) - 1 : q[n] = cs[n + 1]
      BY <1>5, <2>1, TailIs
    <3>3. /\ IsSeq(u) /\ Len(u) = Len(cs) /\ u[1] = cs[1]
          /\ \A n \in 1 .. Len(cs) - 1 : u[1 + n] = cs[n + 1]
      <4>1. /\ IsSeq(u) /\ Len(u) = 1 + Len(q) /\ \A n \in 1 .. 1 : u[n] = f[n]
            /\ \A n \in 1 .. Len(q) : u[1 + n] = q[n]
        BY <2>4, <3>1 DEF IsJoin
      <4> QED
        BY <2>4, <3>2, <4>1
    <3>4. ASSUME NEW n \in 1 .. Len(u) PROVE u[n] = cs[n]
      <4>1. CASE n = 1
        BY <3>3, <4>1
      <4>2. CASE n # 1
        <5>1. PICK m \in 1 .. Len(cs) - 1 : n = 1 + m
          <6>1. n - 1 \in 1 .. Len(cs) - 1 /\ n = 1 + (n - 1)
            BY <3>2, <3>3, <4>2
          <6> QED
            BY <6>1
        <5> QED
          BY <3>3, <5>1
      <4> QED
        BY <4>1, <4>2
    <3> QED
      BY <3>3, <3>4
  <2>7. u = cs
    BY <1>5, <2>6, SameElements
  <2>8. cs \o <<>> = cs
    BY <1>5, JoinEmpty
  <2> QED
    BY <2>2, <2>5, <2>7, <2>8
<1>7. Calls(<<h>>, order)
  BY <1>2, <1>4, <1>5, <1>6, CallsUnfolded
<1> QED
  BY <1>1, <1>7

\* The application's functions, as they are, call themselves.
LEMMA CallsOnes ==
  ASSUME NEW is, IsSeq(is)
  PROVE  Calls(Ones(is), is)
<1> DEFINE R == {<<Ones(s), s>> : s \in Seq(ToSet(is))}
<1>1. \A s \in Seq(ToSet(is)) : <<Ones(s), s>> \in R
  OBVIOUS
<1>2. \A x \in R : \E s \in Seq(ToSet(is)) : x = <<Ones(s), s>>
  OBVIOUS
<1> HIDE DEF R
<1>3. ASSUME NEW s \in Seq(ToSet(is)) PROVE Unrolls(Ones(s), s, R)
  <2>1. IsSeq(s) /\ Len(s) \in Nat /\ DOMAIN s = 1 .. Len(s)
    BY SeqIsSeq
  <2>2. PICK c : c = Ones(s)
    OBVIOUS
  <2>3. c = [n \in 1 .. Len(s) |-> One(s[n])]
    BY <2>1, <2>2 DEF Ones
  <2>4. IsSeq(c) /\ Len(c) = Len(s)
    <3>1. c = [n \in 1 .. Len(s) |-> c[n]]
      BY <2>3
    <3> QED
      BY <2>1, <3>1, FunctionIsSeq
  <2>5. CASE s = <<>>
    <3>1. c = <<>>
      BY <2>1, <2>4, <2>5, NoLength
    <3> QED
      BY <2>1, <2>2, <2>4, <2>5, <3>1 DEF Unrolls
  <2>6. CASE s # <<>>
    <3>1. c # <<>>
      BY <2>1, <2>4, <2>6, NoLength
    <3>2. PICK t : t = Tail(s)
      OBVIOUS
    <3>3. /\ IsSeq(t) /\ Len(t) = Len(s) - 1 /\ Len(s) > 0 /\ Head(s) = s[1]
          /\ \A n \in 1 .. Len(s) - 1 : t[n] = s[n + 1]
      BY <2>1, <2>6, <3>2, TailIs
    <3>4. PICK d : d = Tail(c)
      OBVIOUS
    <3>5. /\ IsSeq(d) /\ Len(d) = Len(c) - 1 /\ Head(c) = c[1]
          /\ \A n \in 1 .. Len(c) - 1 : d[n] = c[n + 1]
      BY <2>4, <3>1, <3>4, TailIs
    <3>6. PICK o : o = Ones(t)
      OBVIOUS
    <3>7. t \in Seq(ToSet(is))
      BY <2>6, <3>2
    <3>8. DOMAIN t = 1 .. Len(t) /\ Len(t) \in Nat
      BY <3>7
    <3>9. o = [n \in 1 .. Len(t) |-> One(t[n])]
      BY <3>6, <3>8 DEF Ones
    <3>10. IsSeq(o) /\ Len(o) = Len(t)
      <4>1. o = [n \in 1 .. Len(t) |-> o[n]]
        BY <3>9
      <4> QED
        BY <3>8, <4>1, FunctionIsSeq
    <3>11. ASSUME NEW n \in 1 .. Len(d) PROVE d[n] = o[n]
      <4>1. n \in 1 .. Len(t) /\ n \in 1 .. Len(s) - 1 /\ n + 1 \in 1 .. Len(s)
        BY <2>1, <2>4, <3>3, <3>5
      <4>2. d[n] = c[n + 1] /\ c[n + 1] = One(s[n + 1])
        BY <2>3, <2>4, <3>5, <4>1
      <4>3. o[n] = One(t[n]) /\ t[n] = s[n + 1]
        BY <3>3, <3>9, <4>1
      <4> QED
        BY <4>2, <4>3
    <3>12. d = o
      BY <2>4, <3>3, <3>5, <3>10, <3>11, SameElements
    <3>13. Head(c) = One(Head(s))
      BY <2>1, <2>3, <3>3, <3>5
    <3>14. Head(c).kind = "one" /\ Head(c).i = Head(s)
      BY <3>13 DEF One
    <3>15. <<Tail(c), Tail(s)>> \in R
      BY <1>1, <3>2, <3>4, <3>6, <3>7, <3>12
    <3>16. Unrolls(c, s, R)
      BY <2>1, <2>4, <2>6, <3>1, <3>14, <3>15 DEF Unrolls
    <3> QED
      BY <2>2, <3>16
  <2> QED
    BY <2>5, <2>6
<1>4. Unrolling(R)
  <2>1. ASSUME NEW x \in R PROVE Unrolls(x[1], x[2], R)
    <3>1. PICK s \in Seq(ToSet(is)) : x = <<Ones(s), s>>
      BY <1>2
    <3>2. x[1] = Ones(s) /\ x[2] = s
      BY <3>1
    <3> QED
      BY <1>3, <3>2
  <2> QED
    BY <2>1 DEF Unrolling
<1>5. is \in Seq(ToSet(is))
  BY DEF IsSeq
<1> QED
  BY <1>1, <1>4, <1>5 DEF Calls

-----------------------------------------------------------------------------
(* What the options of a side come to.                                     *)

\* An interceptor made of the options that configure the functions of order.
Configured(interceptor, order) ==
  IF interceptor = None THEN order = <<>> ELSE Calls(<<interceptor>>, order)

LEMMA OnesNotEmpty ==
  ASSUME NEW is, IsSeq(is), is # <<>>
  PROVE  Ones(is) # <<>>
<1>1. Len(is) \in Nat /\ Len(is) > 0 /\ DOMAIN is = 1 .. Len(is)
  BY TailIs DEF IsSeq
<1>2. PICK c : c = Ones(is)
  OBVIOUS
<1>3. c = [n \in 1 .. Len(is) |-> One(is[n])]
  BY <1>1, <1>2 DEF Ones
<1>4. c = [n \in 1 .. Len(is) |-> c[n]]
  BY <1>3
<1>5. IsSeq(c) /\ Len(c) = Len(is)
  BY <1>1, <1>4, FunctionIsSeq
<1> QED
  BY <1>1, <1>2, <1>5, NoLength

\* A chain goes after what was configured before it.
LEMMA ConfiguredChain ==
  ASSUME NEW before, NEW order, NEW is, IsSeq(is), Configured(before, order)
  PROVE  Configured(WithChain(before, is), order \o is)
<1>1. IsSeq(order)
  BY EmptyIsSeq, CallsStep DEF Configured
<1>2. CASE is = <<>>
  BY <1>1, <1>2, JoinEmpty DEF WithChain
<1>3. CASE is # <<>>
  <2>1. PICK c : c = Ones(is)
    OBVIOUS
  <2>2. Calls(c, is) /\ c # <<>>
    BY <1>3, <2>1, CallsOnes, OnesNotEmpty
  <2>3. \A x : Chain(x) # None
    BY DEF Chain, None
  <2>4. WithChain(before, is) = IF before = None THEN Chain(c) ELSE Chain(<<before>> \o c)
    BY <1>3, <2>1 DEF WithChain, ChainAfter
  <2>5. CASE before = None
    <3>1. order \o is = is
      BY <2>5, JoinEmpty DEF Configured
    <3>2. Calls(<<Chain(c)>>, is)
      BY <2>2, CallsChain
    <3> QED
      BY <2>3, <2>4, <2>5, <3>1, <3>2 DEF Configured
  <2>6. CASE before # None
    <3>1. Calls(<<before>>, order)
      BY <2>6 DEF Configured
    <3>2. Calls(<<before>> \o c, order \o is)
      BY <2>2, <3>1, CallsBoth
    <3>3. IsSeq(c)
      BY <2>2, CallsStep
    <3>4. <<before>> \o c # <<>>
      BY <3>3, Alone, JoinedTail
    <3>5. PICK cs, o : cs = <<before>> \o c /\ o = order \o is
      OBVIOUS
    <3>6. Calls(<<Chain(cs)>>, o)
      BY <3>2, <3>4, <3>5, CallsChain
    <3> QED
      BY <2>3, <2>4, <2>6, <3>5, <3>6 DEF Configured
  <2> QED
    BY <2>5, <2>6
<1> QED
  BY <1>2, <1>3

\* The interceptor of an option that sets it.
LEMMA ConfiguredOne ==
  ASSUME NEW is, IsSeq(is), Len(is) = 1
  PROVE  Configured(One(is[1]), is)
<1>1. PICK c : c = Ones(is)
  OBVIOUS
<1>2. DOMAIN is = 1 .. 1
  BY DEF IsSeq
<1>3. c = [n \in 1 .. 1 |-> One(is[n])]
  BY <1>1, <1>2 DEF Ones
<1>4. c = [n \in 1 .. 1 |-> c[n]]
  BY <1>3
<1>5. IsSeq(c) /\ Len(c) = 1
  BY <1>4, FunctionIsSeq
<1>6. PICK h : h = One(is[1])
  OBVIOUS
<1>7. IsSeq(<<h>>) /\ Len(<<h>>) = 1 /\ <<h>>[1] = h
  BY Alone
<1>8. ASSUME NEW n \in 1 .. Len(c) PROVE c[n] = <<h>>[n]
  BY <1>3, <1>5, <1>6, <1>7
<1>9. c = <<h>>
  BY <1>5, <1>7, <1>8, SameElements
<1>10. Calls(<<h>>, is)
  BY <1>1, <1>9, CallsOnes
<1>11. h # None
  BY <1>6 DEF One, None
<1> QED
  BY <1>6, <1>10, <1>11 DEF Configured

OptionsOK(opts) ==
  /\ IsSeq(opts)
  /\ \A n \in 1 .. Len(opts) :
       IsSeq(opts[n].of) /\ (opts[n].kind = "set" => Len(opts[n].of) = 1)

LEMMA ClientAppliedAre ==
  ASSUME NEW opts, Len(opts) \in Nat
  PROVE  ClientApplied(opts) =
           [n \in 0 .. Len(opts) |->
              IF n = 0 THEN None
              ELSE IF opts[n].kind = "set" THEN One(opts[n].of[1])
              ELSE WithChain(ClientApplied(opts)[n - 1], opts[n].of)]
<1> DEFINE Apply(before, n) == IF opts[n].kind = "set" THEN One(opts[n].of[1])
                               ELSE WithChain(before, opts[n].of)
           T == {n \in Nat : \E f : f = [i \in 0 .. n |->
                               IF i = 0 THEN None ELSE Apply(f[i - 1], i)]}
<1> HIDE DEF Apply
<1>1. 0 \in T
  <2> DEFINE f == [i \in 0 .. 0 |-> None]
  <2>1. f = [i \in 0 .. 0 |-> IF i = 0 THEN None ELSE Apply(f[i - 1], i)]
    OBVIOUS
  <2> HIDE DEF f
  <2> QED
    BY <2>1
<1>2. ASSUME NEW n \in Nat, n \in T PROVE n + 1 \in T
  <2>1. PICK f : f = [i \in 0 .. n |-> IF i = 0 THEN None ELSE Apply(f[i - 1], i)]
    BY <1>2
  <2> DEFINE g == [i \in 0 .. n + 1 |-> IF i = n + 1 THEN Apply(f[n], i) ELSE f[i]]
  <2>2. ASSUME NEW i \in 0 .. n + 1
        PROVE  g[i] = IF i = 0 THEN None ELSE Apply(g[i - 1], i)
    BY <2>1
  <2>3. g = [i \in 0 .. n + 1 |-> IF i = 0 THEN None ELSE Apply(g[i - 1], i)]
    BY <2>2
  <2> HIDE DEF g
  <2> QED
    BY <2>3
<1>3. Len(opts) \in T
  <2> HIDE DEF T
  <2> QED
    BY <1>1, <1>2, SetInduction
<1>4. \E f : f = [i \in 0 .. Len(opts) |-> IF i = 0 THEN None ELSE Apply(f[i - 1], i)]
  BY <1>3
<1> QED
  BY <1>4, Zenon DEF ClientApplied, Apply

LEMMA ClientOrdersAre ==
  ASSUME NEW opts, Len(opts) \in Nat
  PROVE  ClientOrders(opts) =
           [n \in 0 .. Len(opts) |->
              IF n = 0 THEN <<>>
              ELSE IF opts[n].kind = "set" THEN opts[n].of
              ELSE ClientOrders(opts)[n - 1] \o opts[n].of]
<1> DEFINE Apply(before, n) == IF opts[n].kind = "set" THEN opts[n].of
                               ELSE before \o opts[n].of
           T == {n \in Nat : \E f : f = [i \in 0 .. n |->
                               IF i = 0 THEN <<>> ELSE Apply(f[i - 1], i)]}
<1> HIDE DEF Apply
<1>1. 0 \in T
  <2> DEFINE f == [i \in 0 .. 0 |-> <<>>]
  <2>1. f = [i \in 0 .. 0 |-> IF i = 0 THEN <<>> ELSE Apply(f[i - 1], i)]
    OBVIOUS
  <2> HIDE DEF f
  <2> QED
    BY <2>1
<1>2. ASSUME NEW n \in Nat, n \in T PROVE n + 1 \in T
  <2>1. PICK f : f = [i \in 0 .. n |-> IF i = 0 THEN <<>> ELSE Apply(f[i - 1], i)]
    BY <1>2
  <2> DEFINE g == [i \in 0 .. n + 1 |-> IF i = n + 1 THEN Apply(f[n], i) ELSE f[i]]
  <2>2. ASSUME NEW i \in 0 .. n + 1
        PROVE  g[i] = IF i = 0 THEN <<>> ELSE Apply(g[i - 1], i)
    BY <2>1
  <2>3. g = [i \in 0 .. n + 1 |-> IF i = 0 THEN <<>> ELSE Apply(g[i - 1], i)]
    BY <2>2
  <2> HIDE DEF g
  <2> QED
    BY <2>3
<1>3. Len(opts) \in T
  <2> HIDE DEF T
  <2> QED
    BY <1>1, <1>2, SetInduction
<1>4. \E f : f = [i \in 0 .. Len(opts) |-> IF i = 0 THEN <<>> ELSE Apply(f[i - 1], i)]
  BY <1>3
<1> QED
  BY <1>4, Zenon DEF ClientOrders, Apply

\* After every option the interceptor calls what was configured until then.
LEMMA ClientConfigured ==
  ASSUME NEW opts, OptionsOK(opts)
  PROVE  \A n \in 0 .. Len(opts) : Configured(ClientApplied(opts)[n], ClientOrders(opts)[n])
<1>1. Len(opts) \in Nat
  BY DEF OptionsOK, IsSeq
<1>2. PICK f : f = ClientApplied(opts)
  OBVIOUS
<1>3. PICK g : g = ClientOrders(opts)
  OBVIOUS
<1>4. f = [n \in 0 .. Len(opts) |->
             IF n = 0 THEN None
             ELSE IF opts[n].kind = "set" THEN One(opts[n].of[1])
             ELSE WithChain(f[n - 1], opts[n].of)]
  BY <1>1, <1>2, ClientAppliedAre
<1>5. g = [n \in 0 .. Len(opts) |->
             IF n = 0 THEN <<>>
             ELSE IF opts[n].kind = "set" THEN opts[n].of
             ELSE g[n - 1] \o opts[n].of]
  BY <1>1, <1>3, ClientOrdersAre
<1> DEFINE T == {n \in Nat : n <= Len(opts) => Configured(f[n], g[n])}
<1>6. 0 \in T
  BY <1>1, <1>4, <1>5 DEF Configured
<1>7. ASSUME NEW n \in Nat, n \in T PROVE n + 1 \in T
  <2> SUFFICES ASSUME n + 1 <= Len(opts) PROVE Configured(f[n + 1], g[n + 1])
    OBVIOUS
  <2>1. Configured(f[n], g[n]) /\ n + 1 \in 1 .. Len(opts)
    BY <1>1, <1>7
  <2>2. PICK opt : opt = opts[n + 1]
    OBVIOUS
  <2>3. IsSeq(opt.of) /\ (opt.kind = "set" => Len(opt.of) = 1)
    BY <2>1, <2>2 DEF OptionsOK
  <2>4. f[n + 1] = IF opt.kind = "set" THEN One(opt.of[1]) ELSE WithChain(f[n], opt.of)
    BY <1>1, <1>4, <2>1, <2>2
  <2>5. g[n + 1] = IF opt.kind = "set" THEN opt.of ELSE g[n] \o opt.of
    <3>1. PICK m \in 0 .. Len(opts) : m = n + 1
      BY <1>1, <2>1
    <3>2. m # 0 /\ m - 1 = n
      BY <3>1
    <3>3. g[m] = IF opts[m].kind = "set" THEN opts[m].of ELSE g[m - 1] \o opts[m].of
      BY <1>5, <3>2, Zenon
    <3> QED
      BY <2>2, <3>1, <3>2, <3>3
  <2>6. CASE opt.kind = "set"
    BY <2>3, <2>4, <2>5, <2>6, ConfiguredOne
  <2>7. CASE opt.kind # "set"
    BY <2>1, <2>3, <2>4, <2>5, <2>7, ConfiguredChain
  <2> QED
    BY <2>6, <2>7
<1>8. Nat \subseteq T
  <2> HIDE DEF T
  <2> QED
    BY <1>6, <1>7, SetInduction
<1>9. \A n \in 0 .. Len(opts) : Configured(f[n], g[n])
  BY <1>1, <1>8
<1> QED
  BY <1>2, <1>3, <1>9

\* The client's interceptor calls all that are configured, in their order.
LEMMA ClientCalls ==
  ASSUME NEW opts, OptionsOK(opts)
  PROVE  Calls(<<ClientInterceptor(opts)>>, ClientOrder(opts))
<1>1. PICK last : last = ClientApplied(opts)[Len(opts)]
  OBVIOUS
<1>2. Len(opts) \in 0 .. Len(opts)
  BY DEF OptionsOK, IsSeq
<1>3. Configured(last, ClientOrder(opts))
  BY <1>1, <1>2, ClientConfigured DEF ClientOrder
<1>4. ClientInterceptor(opts) = IF last = None THEN Default ELSE last
  BY <1>1 DEF ClientInterceptor
<1> QED
  BY <1>3, <1>4, CallsDefault DEF Configured
LEMMA ServerAppliedAre ==
  ASSUME NEW opts, Len(opts) \in Nat
  PROVE  ServerApplied(opts) =
           [n \in 0 .. Len(opts) |->
              IF n = 0 THEN [interceptor |-> None, handshaker |-> FALSE, failed |-> FALSE]
              ELSE ServerApply(opts[n], ServerApplied(opts)[n - 1])]
<1> DEFINE NoOption == [interceptor |-> None, handshaker |-> FALSE, failed |-> FALSE]
           T == {n \in Nat : \E f : f = [i \in 0 .. n |->
                   IF i = 0 THEN NoOption ELSE ServerApply(opts[i], f[i - 1])]}
<1> HIDE DEF NoOption
<1>1. 0 \in T
  <2> DEFINE f == [i \in 0 .. 0 |-> NoOption]
  <2>1. f = [i \in 0 .. 0 |-> IF i = 0 THEN NoOption ELSE ServerApply(opts[i], f[i - 1])]
    OBVIOUS
  <2> HIDE DEF f
  <2> QED
    BY <2>1
<1>2. ASSUME NEW n \in Nat, n \in T PROVE n + 1 \in T
  <2>1. PICK f : f = [i \in 0 .. n |->
                        IF i = 0 THEN NoOption ELSE ServerApply(opts[i], f[i - 1])]
    BY <1>2
  <2> DEFINE g == [i \in 0 .. n + 1 |->
                     IF i = n + 1 THEN ServerApply(opts[i], f[n]) ELSE f[i]]
  <2>2. ASSUME NEW i \in 0 .. n + 1
        PROVE  g[i] = IF i = 0 THEN NoOption ELSE ServerApply(opts[i], g[i - 1])
    BY <2>1
  <2>3. g = [i \in 0 .. n + 1 |->
               IF i = 0 THEN NoOption ELSE ServerApply(opts[i], g[i - 1])]
    BY <2>2
  <2> HIDE DEF g
  <2> QED
    BY <2>3
<1>3. Len(opts) \in T
  <2> HIDE DEF T
  <2> QED
    BY <1>1, <1>2, SetInduction
<1>4. \E f : f = [i \in 0 .. Len(opts) |->
                    IF i = 0 THEN NoOption ELSE ServerApply(opts[i], f[i - 1])]
  BY <1>3
<1> QED
  BY <1>4, Zenon DEF ServerApplied, NoOption

LEMMA ServerOrdersAre ==
  ASSUME NEW opts, Len(opts) \in Nat
  PROVE  ServerOrders(opts) =
           [n \in 0 .. Len(opts) |->
              IF n = 0 THEN <<>>
              ELSE IF opts[n].kind = "handshaker" THEN ServerOrders(opts)[n - 1]
              ELSE ServerOrders(opts)[n - 1] \o opts[n].of]
<1> DEFINE Apply(before, n) == IF opts[n].kind = "handshaker" THEN before
                               ELSE before \o opts[n].of
           T == {n \in Nat : \E f : f = [i \in 0 .. n |->
                               IF i = 0 THEN <<>> ELSE Apply(f[i - 1], i)]}
<1> HIDE DEF Apply
<1>1. 0 \in T
  <2> DEFINE f == [i \in 0 .. 0 |-> <<>>]
  <2>1. f = [i \in 0 .. 0 |-> IF i = 0 THEN <<>> ELSE Apply(f[i - 1], i)]
    OBVIOUS
  <2> HIDE DEF f
  <2> QED
    BY <2>1
<1>2. ASSUME NEW n \in Nat, n \in T PROVE n + 1 \in T
  <2>1. PICK f : f = [i \in 0 .. n |-> IF i = 0 THEN <<>> ELSE Apply(f[i - 1], i)]
    BY <1>2
  <2> DEFINE g == [i \in 0 .. n + 1 |-> IF i = n + 1 THEN Apply(f[n], i) ELSE f[i]]
  <2>2. ASSUME NEW i \in 0 .. n + 1
        PROVE  g[i] = IF i = 0 THEN <<>> ELSE Apply(g[i - 1], i)
    BY <2>1
  <2>3. g = [i \in 0 .. n + 1 |-> IF i = 0 THEN <<>> ELSE Apply(g[i - 1], i)]
    BY <2>2
  <2> HIDE DEF g
  <2> QED
    BY <2>3
<1>3. Len(opts) \in T
  <2> HIDE DEF T
  <2> QED
    BY <1>1, <1>2, SetInduction
<1>4. \E f : f = [i \in 0 .. Len(opts) |-> IF i = 0 THEN <<>> ELSE Apply(f[i - 1], i)]
  BY <1>3
<1> QED
  BY <1>4, Zenon DEF ServerOrders, Apply

\* A configuration of the server, up to the first option that fails.
ConfigOK(config, order) ==
  /\ config = [interceptor |-> config.interceptor, handshaker |-> config.handshaker,
               failed |-> config.failed]
  /\ ~config.failed => Configured(config.interceptor, order)

\* One more option: NewServer refuses what the chain cannot hold.
LEMMA ConfigApplied ==
  ASSUME NEW config, NEW order, ConfigOK(config, order), NEW opt, IsSeq(opt.of),
         opt.kind = "set" => Len(opt.of) = 1
  PROVE  ConfigOK(ServerApply(opt, config),
                  IF opt.kind = "handshaker" THEN order ELSE order \o opt.of)
<1>1. PICK a, b, c : config = [interceptor |-> a, handshaker |-> b, failed |-> c]
  BY DEF ConfigOK
<1>2. config.interceptor = a /\ config.handshaker = b /\ config.failed = c
  BY <1>1
<1>3. CASE c \/ OptionFails(config, opt)
  <2>1. ServerApply(opt, config) = [interceptor |-> a, handshaker |-> b, failed |-> TRUE]
    BY <1>1, <1>2, <1>3 DEF ServerApply
  <2> QED
    BY <2>1 DEF ConfigOK
<1>4. CASE ~c /\ ~OptionFails(config, opt) /\ opt.kind = "handshaker"
  <2>1. ServerApply(opt, config) = [interceptor |-> a, handshaker |-> TRUE, failed |-> c]
    BY <1>1, <1>2, <1>4 DEF ServerApply
  <2> QED
    BY <1>2, <1>4, <2>1 DEF ConfigOK
<1>5. CASE ~c /\ ~OptionFails(config, opt) /\ opt.kind # "handshaker"
  <2>1. PICK d : d = IF opt.kind = "set" THEN One(opt.of[1]) ELSE WithChain(a, opt.of)
    OBVIOUS
  <2>2. ServerApply(opt, config) = [interceptor |-> d, handshaker |-> b, failed |-> c]
    BY <1>1, <1>2, <1>5, <2>1 DEF ServerApply
  <2>3. Configured(a, order)
    BY <1>2, <1>5 DEF ConfigOK
  <2>4. CASE opt.kind = "set"
    <3>1. a = None
      BY <1>2, <1>5, <2>4 DEF OptionFails
    <3>2. order \o opt.of = opt.of
      BY <2>3, <3>1, JoinEmpty DEF Configured
    <3>3. Configured(d, order \o opt.of)
      BY <2>1, <2>4, <3>2, ConfiguredOne
    <3> QED
      BY <1>5, <2>2, <3>3 DEF ConfigOK
  <2>5. CASE opt.kind # "set"
    <3>1. Configured(d, order \o opt.of)
      BY <2>1, <2>3, <2>5, ConfiguredChain
    <3> QED
      BY <1>5, <2>2, <3>1 DEF ConfigOK
  <2> QED
    BY <2>4, <2>5
<1> QED
  BY <1>3, <1>4, <1>5

LEMMA ServerConfigured ==
  ASSUME NEW opts, OptionsOK(opts)
  PROVE  \A n \in 0 .. Len(opts) : ConfigOK(ServerApplied(opts)[n], ServerOrders(opts)[n])
<1>1. Len(opts) \in Nat
  BY DEF OptionsOK, IsSeq
<1>2. PICK f : f = ServerApplied(opts)
  OBVIOUS
<1>3. PICK g : g = ServerOrders(opts)
  OBVIOUS
<1>4. f = [n \in 0 .. Len(opts) |->
             IF n = 0 THEN [interceptor |-> None, handshaker |-> FALSE, failed |-> FALSE]
             ELSE ServerApply(opts[n], f[n - 1])]
  BY <1>1, <1>2, ServerAppliedAre
<1>5. g = [n \in 0 .. Len(opts) |->
             IF n = 0 THEN <<>>
             ELSE IF opts[n].kind = "handshaker" THEN g[n - 1]
             ELSE g[n - 1] \o opts[n].of]
  BY <1>1, <1>3, ServerOrdersAre
<1> DEFINE T == {n \in Nat : n <= Len(opts) => ConfigOK(f[n], g[n])}
<1>6. 0 \in T
  BY <1>1, <1>4, <1>5 DEF ConfigOK, Configured
<1>7. ASSUME NEW n \in Nat, n \in T PROVE n + 1 \in T
  <2> SUFFICES ASSUME n + 1 <= Len(opts) PROVE ConfigOK(f[n + 1], g[n + 1])
    OBVIOUS
  <2>1. ConfigOK(f[n], g[n]) /\ n + 1 \in 1 .. Len(opts)
    BY <1>1, <1>7
  <2>2. PICK m \in 0 .. Len(opts) : m = n + 1
    BY <1>1, <2>1
  <2>3. m # 0 /\ m - 1 = n
    BY <2>2
  <2>4. PICK opt : opt = opts[m]
    OBVIOUS
  <2>5. IsSeq(opt.of) /\ (opt.kind = "set" => Len(opt.of) = 1)
    BY <2>1, <2>2, <2>4 DEF OptionsOK
  <2>6. f[m] = ServerApply(opts[m], f[m - 1])
    BY <1>4, <2>3, Zenon
  <2>7. g[m] = IF opts[m].kind = "handshaker" THEN g[m - 1] ELSE g[m - 1] \o opts[m].of
    BY <1>5, <2>3, Zenon
  <2>8. ConfigOK(ServerApply(opt, f[n]),
                 IF opt.kind = "handshaker" THEN g[n] ELSE g[n] \o opt.of)
    BY <2>1, <2>5, ConfigApplied
  <2> QED
    BY <2>2, <2>3, <2>4, <2>6, <2>7, <2>8
<1>8. Nat \subseteq T
  <2> HIDE DEF T
  <2> QED
    BY <1>6, <1>7, SetInduction
<1>9. \A n \in 0 .. Len(opts) : ConfigOK(f[n], g[n])
  BY <1>1, <1>8
<1> QED
  BY <1>2, <1>3, <1>9

\* The interceptor of a server that NewServer returned calls all that are
\* configured, in their order.
LEMMA ServerCalls ==
  ASSUME NEW opts, OptionsOK(opts), ~ServerConfig(opts).failed
  PROVE  Calls(<<ServerConfig(opts).interceptor>>, ServerOrder(opts))
<1>1. PICK last : last = ServerApplied(opts)[Len(opts)]
  OBVIOUS
<1>2. Len(opts) \in 0 .. Len(opts)
  BY DEF OptionsOK, IsSeq
<1>3. ConfigOK(last, ServerOrder(opts))
  BY <1>1, <1>2, ServerConfigured DEF ServerOrder
<1>4. ServerConfig(opts) =
        IF last.interceptor = None THEN [last EXCEPT !.interceptor = Default] ELSE last
  BY <1>1 DEF ServerConfig
<1>5. PICK a, b, c : last = [interceptor |-> a, handshaker |-> b, failed |-> c]
  BY <1>3 DEF ConfigOK
<1>6. ServerConfig(opts) =
        [interceptor |-> IF a = None THEN Default ELSE a, handshaker |-> b, failed |-> c]
  BY <1>4, <1>5
<1>7. ~c
  BY <1>6
<1>8. Configured(a, ServerOrder(opts))
  BY <1>3, <1>5, <1>7 DEF ConfigOK
<1> QED
  BY <1>6, <1>8, CallsDefault DEF Configured
-----------------------------------------------------------------------------
(* Where a call is in the two chains.                                      *)

\* Calling c calls all but the first n functions of order.
CallsRest(c, order, n) ==
  \E rest : /\ Calls(c, rest) /\ n + Len(rest) = Len(order)
            /\ \A m \in 1 .. Len(rest) : rest[m] = order[n + m]

LEMMA RestAll ==
  ASSUME NEW c, NEW order, Calls(c, order)
  PROVE  CallsRest(c, order, 0)
<1>1. Len(order) \in Nat
  BY CallsStep DEF IsSeq
<1>2. 0 + Len(order) = Len(order) /\ \A m \in 1 .. Len(order) : order[m] = order[0 + m]
  BY <1>1
<1> QED
  BY <1>2 DEF CallsRest

LEMMA RestNone ==
  ASSUME NEW c, NEW order, NEW n \in Nat, CallsRest(c, order, n), c = <<>>
  PROVE  n = Len(order)
<1>1. PICK rest : Calls(c, rest) /\ n + Len(rest) = Len(order)
  BY DEF CallsRest
<1>2. rest = <<>> /\ IsSeq(rest)
  <2>1. Calls(c, rest)
    BY <1>1
  <2> QED
    BY <2>1, CallsShape
<1>3. Len(rest) = 0
  BY <1>2, NoLength
<1>4. n + 0 = Len(order)
  BY <1>1, <1>3
<1> QED
  BY <1>4

LEMMA RestStep ==
  ASSUME NEW c, NEW order, NEW n \in Nat, CallsRest(c, order, n), c # <<>>
  PROVE  IF Head(c).kind = "one"
           THEN /\ n + 1 <= Len(order) /\ Head(c).i = order[n + 1]
                /\ CallsRest(Tail(c), order, n + 1)
           ELSE CallsRest(Unfold(c), order, n)
<1>1. PICK rest : /\ Calls(c, rest) /\ n + Len(rest) = Len(order)
                  /\ \A m \in 1 .. Len(rest) : rest[m] = order[n + m]
  BY DEF CallsRest
<1>2. CASE Head(c).kind = "one"
  <2>1. IsSeq(rest) /\ rest # <<>> /\ Head(rest) = Head(c).i /\ Calls(Tail(c), Tail(rest))
    BY <1>1, <1>2, CallsStep
  <2>2. PICK t : t = Tail(rest)
    OBVIOUS
  <2>3. /\ Len(t) = Len(rest) - 1 /\ Len(rest) \in Nat /\ Len(rest) > 0
        /\ Head(rest) = rest[1] /\ \A m \in 1 .. Len(rest) - 1 : t[m] = rest[m + 1]
    BY <2>1, <2>2, TailIs
  <2>4. n + 1 <= Len(order) /\ Head(c).i = order[n + 1]
    BY <1>1, <2>1, <2>3
  <2>5. n + 1 + Len(t) = Len(order)
    <3>1. PICK a \in Nat : a = Len(rest)
      BY <2>3
    <3>2. n + 1 + (a - 1) = n + a /\ Len(t) = a - 1
      BY <2>3, <3>1
    <3>3. n + a = Len(order)
      BY <1>1, <3>1
    <3> QED
      BY <3>2, <3>3
  <2>6. ASSUME NEW m \in 1 .. Len(t) PROVE t[m] = order[n + 1 + m]
    <3>1. m + 1 \in 1 .. Len(rest) /\ m \in 1 .. Len(rest) - 1 /\ n + (m + 1) = n + 1 + m
      BY <2>3
    <3> QED
      BY <1>1, <2>3, <3>1
  <2>8. CallsRest(Tail(c), order, n + 1)
    BY <2>1, <2>2, <2>5, <2>6 DEF CallsRest
  <2> QED
    BY <1>2, <2>4, <2>8
<1>3. CASE Head(c).kind # "one"
  <2>1. Calls(Unfold(c), rest)
    BY <1>1, <1>3, CallsStep
  <2> QED
    BY <1>1, <1>3, <2>1 DEF CallsRest
<1> QED
  BY <1>2, <1>3

\* The frames of st are the first of cs, the connection, and the first of ss;
\* what each still has to call is what comes after it.
Framed(st, w, cs, ss) ==
  /\ \A n \in 1 .. w : /\ n <= Len(cs) /\ st[n].i = cs[n]
                       /\ CallsRest(st[n].next, cs, n)
  /\ w < Len(st) => w = Len(cs)
  /\ \A n \in w + 2 .. Len(st) : /\ n - w - 1 <= Len(ss) /\ st[n].i = ss[n - w - 1]
                                 /\ CallsRest(st[n].next, ss, n - w - 1)

\* So does the continuation about to be called; the method comes after all.
Going(w, cs, ss) ==
  /\ pc = "client" => CallsRest(k, cs, w)
  /\ pc = "server" => CallsRest(k, ss, Len(stack) - w - 1)
  /\ pc = "method" => Len(stack) - w - 1 = Len(ss)

OrderInv ==
  /\ plan \in Plans /\ (pc # "noServer" => ~ServerConfig(plan.server).failed)
  /\ \E w \in 0 .. Len(stack) :
       /\ Split(w)
       /\ Framed(stack, w, ClientOrder(plan.client), ServerOrder(plan.server))
       /\ Going(w, ClientOrder(plan.client), ServerOrder(plan.server))

\* There is one place only for the connection between the frames.
LEMMA SplitOnce ==
  ASSUME IsSeq(stack), NEW v \in 0 .. Len(stack), NEW w \in 0 .. Len(stack), Split(v), Split(w)
  PROVE  v = w
<1>1. Len(stack) \in Nat
  BY DEF IsSeq
<1>2. ASSUME NEW a \in 0 .. Len(stack), NEW b \in 0 .. Len(stack), Split(a), Split(b), a < b
      PROVE  FALSE
  <2>1. a + 1 \in 1 .. b /\ a < Len(stack)
    BY <1>1, <1>2
  <2>2. stack[a + 1].side = "client"
    BY <1>2, <2>1 DEF Split
  <2>3. stack[a + 1].side = "wire"
    BY <1>2, <2>1 DEF Split
  <2> QED
    BY <2>2, <2>3
<1>3. ~(v < w)
  BY <1>2
<1>4. ~(w < v)
  BY <1>2
<1> QED
  BY <1>1, <1>3, <1>4

\* The one place, and all that is known of it.
LEMMA OrderPlaced ==
  ASSUME StackInv, OrderInv
  PROVE  /\ IsSeq(stack) /\ Len(stack) \in Nat
         /\ \E w \in 0 .. Len(stack) :
              /\ Placed(w)
              /\ Framed(stack, w, ClientOrder(plan.client), ServerOrder(plan.server))
              /\ Going(w, ClientOrder(plan.client), ServerOrder(plan.server))
<1>1. PICK v \in 0 .. Len(stack) : Placed(v)
  BY DEF StackInv
<1>2. PICK w \in 0 .. Len(stack) :
        /\ Split(w)
        /\ Framed(stack, w, ClientOrder(plan.client), ServerOrder(plan.server))
        /\ Going(w, ClientOrder(plan.client), ServerOrder(plan.server))
  BY DEF OrderInv
<1>3. IsSeq(stack) /\ Len(stack) \in Nat
  BY DEF StackInv, IsSeq
<1>4. v = w
  BY <1>1, <1>2, <1>3, SplitOnce DEF Placed
<1> QED
  BY <1>1, <1>2, <1>3, <1>4

LEMMA PushFramed ==
  ASSUME NEW st, IsSeq(st), NEW w \in 0 .. Len(st), NEW cs, NEW ss, Framed(st, w, cs, ss),
         NEW frame, NEW v \in {w, w + 1},
         v = w + 1 => /\ w = Len(st) /\ w + 1 <= Len(cs) /\ frame.i = cs[w + 1]
                      /\ CallsRest(frame.next, cs, w + 1),
         v = w /\ w = Len(st) => w = Len(cs),
         v = w /\ w < Len(st) => /\ Len(st) - w <= Len(ss) /\ frame.i = ss[Len(st) - w]
                                 /\ CallsRest(frame.next, ss, Len(st) - w)
  PROVE  Framed(Append(st, frame), v, cs, ss)
<1>1. PICK u : u = Append(st, frame)
  OBVIOUS
<1>2. /\ Len(u) = Len(st) + 1 /\ u[Len(st) + 1] = frame /\ Len(st) \in Nat
      /\ \A n \in 1 .. Len(st) : u[n] = st[n]
  BY <1>1, Appended DEF IsSeq
<1>3. CASE v = w + 1
  <2>1. ASSUME NEW n \in 1 .. w + 1
        PROVE  n <= Len(cs) /\ u[n].i = cs[n] /\ CallsRest(u[n].next, cs, n)
    <3>1. CASE n = w + 1
      BY <1>2, <1>3, <3>1
    <3>2. CASE n # w + 1
      <4>1. n \in 1 .. w /\ n \in 1 .. Len(st)
        BY <1>2, <3>2
      <4> QED
        BY <1>2, <4>1 DEF Framed
    <3> QED
      BY <3>1, <3>2
  <2>2. Framed(u, w + 1, cs, ss)
    BY <1>2, <1>3, <2>1 DEF Framed
  <2> QED
    BY <1>1, <1>3, <2>2
<1>4. CASE v = w
  <2>1. ASSUME NEW n \in 1 .. w
        PROVE  n <= Len(cs) /\ u[n].i = cs[n] /\ CallsRest(u[n].next, cs, n)
    <3>1. n \in 1 .. Len(st)
      BY <1>2
    <3> QED
      BY <1>2, <3>1 DEF Framed
  <2>2. w = Len(cs)
    BY <1>2, <1>4 DEF Framed
  <2>3. ASSUME NEW n \in w + 2 .. Len(u)
        PROVE  /\ n - w - 1 <= Len(ss) /\ u[n].i = ss[n - w - 1]
               /\ CallsRest(u[n].next, ss, n - w - 1)
    <3>1. CASE n = Len(st) + 1
      <4>1. w < Len(st) /\ n - w - 1 = Len(st) - w
        BY <1>2, <3>1
      <4> QED
        BY <1>2, <1>4, <3>1, <4>1
    <3>2. CASE n # Len(st) + 1
      <4>1. n \in w + 2 .. Len(st) /\ n \in 1 .. Len(st)
        BY <1>2, <3>2
      <4> QED
        BY <1>2, <4>1 DEF Framed
    <3> QED
      BY <3>1, <3>2
  <2>4. Framed(u, w, cs, ss)
    BY <2>1, <2>2, <2>3 DEF Framed
  <2> QED
    BY <1>1, <1>4, <2>4
<1> QED
  BY <1>3, <1>4

LEMMA PopFramed ==
  ASSUME NEW st, IsSeq(st), st # <<>>, NEW w \in 0 .. Len(st), NEW cs, NEW ss,
         Framed(st, w, cs, ss), NEW v \in 0 .. Len(st) - 1,
         IF w = Len(st) THEN v = w - 1 ELSE v = w
  PROVE  Framed(Front(st), v, cs, ss)
<1>1. PICK u : u = Front(st)
  OBVIOUS
<1>2. /\ Len(u) = Len(st) - 1 /\ Len(st) \in Nat /\ Len(st) > 0
      /\ \A n \in 1 .. Len(st) - 1 : u[n] = st[n]
  BY <1>1, Shortened
<1>3. ASSUME NEW n \in 1 .. v
      PROVE  n <= Len(cs) /\ u[n].i = cs[n] /\ CallsRest(u[n].next, cs, n)
  <2>1. n \in 1 .. w /\ n \in 1 .. Len(st) - 1
    BY <1>2
  <2> QED
    BY <1>2, <2>1 DEF Framed
<1>4. v < Len(u) => v = Len(cs)
  BY <1>2 DEF Framed
<1>5. ASSUME NEW n \in v + 2 .. Len(u)
      PROVE  /\ n - v - 1 <= Len(ss) /\ u[n].i = ss[n - v - 1]
             /\ CallsRest(u[n].next, ss, n - v - 1)
  <2>1. v = w /\ n \in w + 2 .. Len(st) /\ n \in 1 .. Len(st) - 1
    BY <1>2
  <2> QED
    BY <1>2, <2>1 DEF Framed
<1>6. Framed(u, v, cs, ss)
  BY <1>3, <1>4, <1>5 DEF Framed
<1> QED
  BY <1>1, <1>6
\* What the plan says of the options of both sides.
LEMMA PlanCalls ==
  ASSUME NEW p \in Plans
  PROVE  /\ Calls(<<ClientInterceptor(p.client)>>, ClientOrder(p.client))
         /\ ~ServerConfig(p.server).failed =>
              Calls(<<ServerConfig(p.server).interceptor>>, ServerOrder(p.server))
<1>1. ASSUME NEW opts \in {p.client, p.server} PROVE OptionsOK(opts)
  <2>1. /\ opts \in Seq(ToSet(opts))
        /\ \A opt \in ToSet(opts) :
             opt.of \in Seq(ToSet(opt.of)) /\ (opt.kind = "set" => Len(opt.of) = 1)
    BY PlansAssumption
  <2>2. \A n \in 1 .. Len(opts) : opts[n] \in ToSet(opts)
    BY <2>1
  <2> QED
    BY <2>1, <2>2 DEF OptionsOK, IsSeq
<1>2. OptionsOK(p.client) /\ OptionsOK(p.server)
  BY <1>1
<1> QED
  BY <1>2, ClientCalls, ServerCalls

\* The frames stay as they are.
LEMMA OrderKept ==
  ASSUME StackInv, OrderInv, UNCHANGED <<plan, stack>>, pc # "noServer",
         NEW w \in 0 .. Len(stack), Placed(w),
         Framed(stack, w, ClientOrder(plan.client), ServerOrder(plan.server)),
         Going(w, ClientOrder(plan.client), ServerOrder(plan.server))'
  PROVE  OrderInv'
<1>1. Split(w)'
  BY DEF Placed, Split
<1> QED
  BY <1>1 DEF OrderInv

\* No chain is called.
LEMMA OrderAside ==
  ASSUME StackInv, OrderInv, UNCHANGED <<plan, stack>>, pc # "noServer",
         pc' \notin {"client", "server", "method"}
  PROVE  OrderInv'
<1>1. PICK w \in 0 .. Len(stack) :
        /\ Placed(w)
        /\ Framed(stack, w, ClientOrder(plan.client), ServerOrder(plan.server))
  BY OrderPlaced
<1>2. Going(w, ClientOrder(plan.client), ServerOrder(plan.server))'
  BY DEF Going
<1> QED
  BY <1>1, <1>2, OrderKept

LEMMA OrderCall ==
  ASSUME StackInv, OrderInv, NEW h \in Handles, NEW until \in Untils, Call(h, until)
  PROVE  OrderInv'
<1>1. /\ pc = "build" /\ pc' = "client" /\ UNCHANGED <<plan, stack>>
      /\ k' = <<ClientInterceptor(plan.client)>>
  BY DEF Call, configVars
<1>2. PICK w \in 0 .. Len(stack) :
        /\ Placed(w)
        /\ Framed(stack, w, ClientOrder(plan.client), ServerOrder(plan.server))
  BY OrderPlaced
<1>3. stack = <<>> /\ w = 0
  BY <1>1, <1>2 DEF StackInv
<1>4. CallsRest(k', ClientOrder(plan.client), 0)
  <2>1. Calls(<<ClientInterceptor(plan.client)>>, ClientOrder(plan.client))
    BY PlanCalls DEF OrderInv
  <2> QED
    BY <1>1, <2>1, RestAll
<1>5. Going(w, ClientOrder(plan.client), ServerOrder(plan.server))'
  BY <1>1, <1>3, <1>4 DEF Going
<1> QED
  BY <1>1, <1>2, <1>5, OrderKept

LEMMA OrderHandle ==
  ASSUME StackInv, OrderInv, Handle
  PROVE  OrderInv'
<1>1. /\ pc = "route" /\ pc' = "server" /\ UNCHANGED <<plan, stack>>
      /\ k' = <<ServerConfig(plan.server).interceptor>>
  BY DEF Handle, quiet, configVars
<1>2. PICK w \in 0 .. Len(stack) :
        /\ Placed(w)
        /\ Framed(stack, w, ClientOrder(plan.client), ServerOrder(plan.server))
  BY OrderPlaced
<1>3. Len(stack) - w - 1 = 0
  BY <1>1, <1>2, OrderPlaced DEF Placed
<1>4. CallsRest(k', ServerOrder(plan.server), 0)
  <2>1. Calls(<<ServerConfig(plan.server).interceptor>>, ServerOrder(plan.server))
    BY <1>1, PlanCalls DEF OrderInv
  <2> QED
    BY <1>1, <2>1, RestAll
<1>5. Going(w, ClientOrder(plan.client), ServerOrder(plan.server))'
  BY <1>1, <1>3, <1>4 DEF Going
<1> QED
  BY <1>1, <1>2, <1>5, OrderKept

LEMMA OrderBegin ==
  ASSUME StackInv, OrderInv, Begin
  PROVE  OrderInv'
<1>1. pc = "server" /\ pc' = "method" /\ UNCHANGED <<plan, stack>> /\ k = <<>>
  BY DEF Begin, quiet, configVars
<1>2. PICK w \in 0 .. Len(stack) :
        /\ Placed(w)
        /\ Framed(stack, w, ClientOrder(plan.client), ServerOrder(plan.server))
        /\ Going(w, ClientOrder(plan.client), ServerOrder(plan.server))
  BY OrderPlaced
<1>3. Len(stack) - w - 1 \in Nat
  BY <1>1, <1>2, OrderPlaced DEF Placed
<1>4. CallsRest(k, ServerOrder(plan.server), Len(stack) - w - 1)
  BY <1>1, <1>2 DEF Going
<1>5. Len(stack) - w - 1 = Len(ServerOrder(plan.server))
  BY <1>1, <1>3, <1>4, RestNone
<1>6. Going(w, ClientOrder(plan.client), ServerOrder(plan.server))'
  BY <1>1, <1>5 DEF Going
<1> QED
  BY <1>1, <1>2, <1>6, OrderKept

\* An interceptor calls its next again: what it still had to call, it still has.
LEMMA OrderGoOn ==
  ASSUME StackInv, OrderInv, GoOn
  PROVE  OrderInv'
<1>1. /\ stack # <<>> /\ Last(stack).side # "wire" /\ UNCHANGED <<plan, stack>>
      /\ pc' = Last(stack).side /\ k' = Last(stack).next /\ pc # "noServer"
  BY DEF GoOn, StackInv, quiet, configVars
<1>2. PICK w \in 0 .. Len(stack) :
        /\ Placed(w)
        /\ Framed(stack, w, ClientOrder(plan.client), ServerOrder(plan.server))
  BY OrderPlaced
<1>3. IsSeq(stack) /\ Len(stack) \in Nat /\ Len(stack) > 0
  BY <1>1, TailIs DEF StackInv
<1>4. Last(stack) = stack[Len(stack)]
  BY DEF Last
<1>5. CASE w = Len(stack)
  <2>1. pc' = "client"
    BY <1>1, <1>2, <1>3, <1>4, <1>5 DEF Placed, Split
  <2>2. CallsRest(k', ClientOrder(plan.client), w)
    BY <1>1, <1>2, <1>3, <1>4, <1>5 DEF Framed
  <2>3. Going(w, ClientOrder(plan.client), ServerOrder(plan.server))'
    BY <1>1, <2>1, <2>2 DEF Going
  <2> QED
    BY <1>1, <1>2, <2>3, OrderKept
<1>6. CASE w < Len(stack)
  <2>1. w + 1 # Len(stack)
    BY <1>1, <1>2, <1>4, <1>6 DEF Placed, Split
  <2>2. Len(stack) \in w + 2 .. Len(stack)
    BY <1>3, <1>6, <2>1
  <2>3. pc' = "server"
    BY <1>1, <1>2, <1>4, <2>2 DEF Placed, Split
  <2>4. CallsRest(k', ServerOrder(plan.server), Len(stack) - w - 1)
    BY <1>1, <1>2, <1>4, <2>2 DEF Framed
  <2>5. Going(w, ClientOrder(plan.client), ServerOrder(plan.server))'
    BY <1>1, <2>3, <2>4 DEF Going
  <2> QED
    BY <1>1, <1>2, <2>5, OrderKept
<1> QED
  BY <1>3, <1>2, <1>5, <1>6

\* A frame is pushed: that of the function whose turn it is, or the connection.
LEMMA OrderPush ==
  ASSUME StackInv, OrderInv, UNCHANGED plan, NEW side \in {"client", "server"}, NEW frame,
         Pushes(side, frame), NEW w \in 0 .. Len(stack), Placed(w),
         NEW cs, cs = ClientOrder(plan.client), NEW ss, ss = ServerOrder(plan.server),
         Framed(stack, w, cs, ss),
         frame.side = "client" => /\ w + 1 <= Len(cs) /\ frame.i = cs[w + 1]
                                  /\ CallsRest(frame.next, cs, w + 1),
         frame.side = "wire" => w = Len(cs),
         frame.side = "server" => /\ Len(stack) - w <= Len(ss) /\ frame.i = ss[Len(stack) - w]
                                  /\ CallsRest(frame.next, ss, Len(stack) - w)
  PROVE  OrderInv'
<1>1. IsSeq(stack) /\ Len(stack) \in Nat /\ pc # "noServer"
  BY DEF StackInv, IsSeq, Pushes
<1>2. PICK v \in {w, w + 1} : v = IF frame.side = "client" THEN w + 1 ELSE w
  <2>1. (IF frame.side = "client" THEN w + 1 ELSE w) \in {w, w + 1}
    OBVIOUS
  <2> QED
    BY <2>1
<1>3. IF side = "client" THEN w = Len(stack) ELSE w < Len(stack)
  BY DEF Placed, Pushes
<1>4. frame.side \in {"client", "server", "wire"} /\ (frame.side = "client" => side = "client")
      /\ (frame.side = "server" => side = "server") /\ (frame.side = "wire" => side = "client")
  BY DEF Pushes
<1>5. /\ Len(stack') = Len(stack) + 1 /\ stack'[Len(stack) + 1] = frame
      /\ \A n \in 1 .. Len(stack) : stack'[n] = stack[n]
  BY <1>1, Appended DEF Pushes
<1>6. v \in 0 .. Len(stack')
  BY <1>1, <1>2, <1>5
<1>7. Framed(Append(stack, frame), v, cs, ss)
  BY <1>1, <1>2, <1>3, <1>4, PushFramed
<1>8. Split(v)'
  <2>1. CASE frame.side = "client"
    <3>1. v = w + 1 /\ w = Len(stack)
      BY <1>2, <1>3, <1>4, <2>1
    <3> QED
      BY <1>1, <1>5, <2>1, <3>1 DEF Placed, Split
  <2>2. CASE frame.side = "wire"
    <3>1. v = w /\ w = Len(stack)
      BY <1>2, <1>3, <1>4, <2>2
    <3> QED
      BY <1>1, <1>5, <2>2, <3>1 DEF Placed, Split
  <2>3. CASE frame.side = "server"
    <3>1. v = w /\ w < Len(stack)
      BY <1>2, <1>3, <1>4, <2>3
    <3>2. \A n \in 1 .. v : stack'[n].side = "client"
      BY <1>1, <1>5, <3>1 DEF Placed, Split
    <3>3. stack'[v + 1].side = "wire"
      BY <1>1, <1>5, <3>1 DEF Placed, Split
    <3>4. ASSUME NEW n \in v + 2 .. Len(stack') PROVE stack'[n].side = "server"
      <4>1. CASE n = Len(stack) + 1
        BY <1>5, <2>3, <4>1
      <4>2. CASE n # Len(stack) + 1
        <5>1. n \in w + 2 .. Len(stack) /\ n \in 1 .. Len(stack)
          BY <1>1, <1>5, <3>1, <4>2
        <5> QED
          BY <1>5, <5>1 DEF Placed, Split
      <4> QED
        BY <4>1, <4>2
    <3> QED
      BY <3>2, <3>3, <3>4 DEF Split
  <2> QED
    BY <1>4, <2>1, <2>2, <2>3
<1>9. pc' \in {"into", "route"}
  BY DEF Pushes
<1>10. Framed(stack', v, cs, ss)
  BY <1>7 DEF Pushes
<1>11. Going(v, cs, ss)'
  BY <1>9 DEF Going
<1>12. plan' \in Plans /\ ~ServerConfig(plan'.server).failed
  BY <1>1 DEF OrderInv
<1>13. cs = ClientOrder(plan'.client) /\ ss = ServerOrder(plan'.server)
  OBVIOUS
<1> QED
  BY <1>6, <1>8, <1>10, <1>11, <1>12, <1>13 DEF OrderInv

LEMMA OrderContinue ==
  ASSUME StackInv, OrderInv, Continue
  PROVE  OrderInv'
<1>1. pc \in {"client", "server"} /\ k # <<>> /\ UNCHANGED plan
  BY DEF Continue, quiet, configVars
<1>2. PICK cs, ss : cs = ClientOrder(plan.client) /\ ss = ServerOrder(plan.server)
  OBVIOUS
<1>3. PICK w \in 0 .. Len(stack) : Placed(w) /\ Framed(stack, w, cs, ss) /\ Going(w, cs, ss)
  BY <1>2, OrderPlaced
<1>4. Len(stack) \in Nat
  BY OrderPlaced
<1>5. IF pc = "client" THEN w = Len(stack) ELSE w < Len(stack)
  BY <1>1, <1>3 DEF Placed
<1>6. CASE Head(k).kind = "one"
  <2>1. PICK frame : frame = [side |-> pc, i |-> Head(k).i, next |-> Tail(k)]
    OBVIOUS
  <2>2. Pushes(pc, frame) /\ frame.side = pc /\ frame.i = Head(k).i /\ frame.next = Tail(k)
    BY <1>1, <1>6, <2>1 DEF Continue, Pushes
  <2>3. CASE pc = "client"
    <3>1. CallsRest(k, cs, w) /\ w \in Nat
      BY <1>3, <2>3 DEF Going
    <3>2. w + 1 <= Len(cs) /\ Head(k).i = cs[w + 1] /\ CallsRest(Tail(k), cs, w + 1)
      BY <1>1, <1>6, <3>1, RestStep
    <3> QED
      BY <1>1, <1>2, <1>3, <2>2, <2>3, <3>2, OrderPush
  <2>4. CASE pc = "server"
    <3>1. PICK n \in Nat : n = Len(stack) - w - 1
      <4>1. Len(stack) - w - 1 \in Nat
        BY <1>4, <1>5, <2>4
      <4> QED
        BY <4>1
    <3>2. CallsRest(k, ss, n)
      BY <1>3, <2>4, <3>1 DEF Going
    <3>3. n + 1 <= Len(ss) /\ Head(k).i = ss[n + 1] /\ CallsRest(Tail(k), ss, n + 1)
      BY <1>1, <1>6, <3>2, RestStep
    <3>4. n + 1 = Len(stack) - w
      BY <1>4, <3>1
    <3> QED
      BY <1>1, <1>2, <1>3, <2>2, <2>4, <3>3, <3>4, OrderPush
  <2> QED
    BY <1>1, <2>3, <2>4
<1>7. CASE Head(k).kind # "one"
  <2>1. k' = Unfold(k) /\ UNCHANGED <<stack, pc>>
    BY <1>7 DEF Continue
  <2>2. CASE pc = "client"
    <3>1. CallsRest(k, cs, w) /\ w \in Nat
      BY <1>3, <2>2 DEF Going
    <3>2. CallsRest(Unfold(k), cs, w)
      BY <1>1, <1>7, <3>1, RestStep
    <3>3. Going(w, ClientOrder(plan.client), ServerOrder(plan.server))'
      BY <1>1, <1>2, <2>1, <2>2, <3>2 DEF Going
    <3> QED
      BY <1>1, <1>2, <1>3, <2>1, <3>3, OrderKept
  <2>3. CASE pc = "server"
    <3>1. PICK n \in Nat : n = Len(stack) - w - 1
      <4>1. Len(stack) - w - 1 \in Nat
        BY <1>4, <1>5, <2>3
      <4> QED
        BY <4>1
    <3>2. CallsRest(k, ss, n)
      BY <1>3, <2>3, <3>1 DEF Going
    <3>3. CallsRest(Unfold(k), ss, n)
      BY <1>1, <1>7, <3>2, RestStep
    <3>4. Going(w, ClientOrder(plan.client), ServerOrder(plan.server))'
      BY <1>1, <1>2, <2>1, <2>3, <3>1, <3>3 DEF Going
    <3> QED
      BY <1>1, <1>2, <1>3, <2>1, <3>4, OrderKept
  <2> QED
    BY <1>1, <2>2, <2>3
<1> QED
  BY <1>6, <1>7

LEMMA OrderDispatch ==
  ASSUME StackInv, OrderInv, Dispatch
  PROVE  OrderInv'
<1>1. pc = "client" /\ k = <<>> /\ UNCHANGED plan
  BY DEF Dispatch, configVars
<1>2. PICK cs, ss : cs = ClientOrder(plan.client) /\ ss = ServerOrder(plan.server)
  OBVIOUS
<1>3. PICK w \in 0 .. Len(stack) : Placed(w) /\ Framed(stack, w, cs, ss) /\ Going(w, cs, ss)
  BY <1>2, OrderPlaced
<1>4. CallsRest(k, cs, w) /\ w \in Nat
  BY <1>1, <1>3 DEF Going
<1>5. w = Len(cs)
  BY <1>1, <1>4, RestNone
<1>6. PICK frame : frame = [side |-> "wire"]
  OBVIOUS
<1>7. Pushes("client", frame) /\ frame.side = "wire"
  BY <1>6 DEF Dispatch, Pushes
<1> QED
  BY <1>1, <1>2, <1>3, <1>5, <1>7, OrderPush

LEMMA OrderPops ==
  ASSUME StackInv, OrderInv, Refuse \/ PassOn \/ Unimplemented \/ Respond
  PROVE  OrderInv'
<1>1. /\ stack # <<>> /\ stack' = Front(stack) /\ pc' = "result" /\ UNCHANGED plan
      /\ pc # "noServer"
  <2>1. stack # <<>>
    BY StackPops
  <2> QED
    BY <2>1 DEF Refuse, PassOn, Unimplemented, Respond, quiet, configVars
<1>2. PICK cs, ss : cs = ClientOrder(plan.client) /\ ss = ServerOrder(plan.server)
  OBVIOUS
<1>3. PICK w \in 0 .. Len(stack) : Placed(w) /\ Framed(stack, w, cs, ss)
  BY <1>2, OrderPlaced
<1>4. /\ IsSeq(stack) /\ Len(stack') = Len(stack) - 1 /\ Len(stack) \in Nat /\ Len(stack) > 0
      /\ \A n \in 1 .. Len(stack) - 1 : stack'[n] = stack[n]
  BY <1>1, Shortened DEF StackInv
<1>5. PICK v \in 0 .. Len(stack) - 1 : IF w = Len(stack) THEN v = w - 1 ELSE v = w
  <2>1. (IF w = Len(stack) THEN w - 1 ELSE w) \in 0 .. Len(stack) - 1
    BY <1>4
  <2> QED
    BY <2>1
<1>6. Framed(stack', v, cs, ss)
  BY <1>1, <1>3, <1>4, <1>5, PopFramed
<1>7. Split(v)'
  <2>1. CASE w = Len(stack)
    <3>1. v = w - 1 /\ Len(stack') = v
      BY <1>4, <1>5, <2>1
    <3> QED
      BY <1>3, <1>4, <2>1, <3>1 DEF Placed, Split
  <2>2. CASE w # Len(stack)
    <3>1. v = w
      BY <1>5, <2>2
    <3> QED
      BY <1>3, <1>4, <2>2, <3>1 DEF Placed, Split
  <2> QED
    BY <2>1, <2>2
<1>8. Going(v, cs, ss)'
  BY <1>1 DEF Going
<1>9. plan' \in Plans /\ ~ServerConfig(plan'.server).failed
  BY <1>1 DEF OrderInv
<1>10. cs = ClientOrder(plan'.client) /\ ss = ServerOrder(plan'.server)
  BY <1>1, <1>2
<1> QED
  BY <1>4, <1>6, <1>7, <1>8, <1>9, <1>10 DEF OrderInv

LEMMA OrderNext ==
  ASSUME StackInv, OrderInv, [CallNext]_<<vars, configVars, callVars>>
  PROVE  OrderInv'
<1>1. CASE Prepare \/ Register \/ CallUnmarshalable
  <2>1. UNCHANGED <<plan, stack>> /\ pc = "build" /\ pc' \in {"build", "panic", "done"}
    BY <1>1 DEF Prepare, Register, CallUnmarshalable, configVars, callVars
  <2> QED
    BY <2>1, OrderAside
<1>2. ASSUME NEW h \in Handles, NEW until \in Untils, Call(h, until) PROVE OrderInv'
  BY <1>2, OrderCall
<1>3. CASE Continue
  BY <1>3, OrderContinue
<1>4. CASE GoOn
  BY <1>4, OrderGoOn
<1>5. CASE Refuse \/ PassOn \/ Unimplemented \/ Respond
  BY <1>5, OrderPops
<1>6. CASE Dispatch
  BY <1>6, OrderDispatch
<1>7. CASE DispatchFails \/ MethodReturns
  <2>1. UNCHANGED <<plan, stack>> /\ pc # "noServer" /\ pc' = "result"
    BY <1>7 DEF DispatchFails, MethodReturns, quiet, configVars
  <2> QED
    BY <2>1, OrderAside
<1>8. CASE Handle
  BY <1>8, OrderHandle
<1>9. CASE Begin
  BY <1>9, OrderBegin
<1>10. ASSUME NEW typed \in BOOLEAN, CallReturns(typed) PROVE OrderInv'
  <2>1. UNCHANGED <<plan, stack>> /\ pc # "noServer" /\ pc' = "done"
    BY <1>10 DEF CallReturns, quiet, configVars
  <2> QED
    BY <2>1, OrderAside
<1>11. CASE UNCHANGED <<vars, configVars, callVars>>
  <2>1. UNCHANGED <<plan, stack, pc, k>>
    BY <1>11 DEF configVars, callVars
  <2> QED
    BY <2>1 DEF OrderInv, Split, Going
<1> QED
  BY <1>1, <1>2, <1>3, <1>4, <1>5, <1>6, <1>7, <1>8, <1>9, <1>10, <1>11 DEF CallNext
\* All that is in progress when the method runs.
LEMMA MethodInside ==
  ASSUME StackInv, OrderInv
  PROVE  MethodInsideInterceptors
<1> SUFFICES ASSUME pc = "method"
             PROVE  Running = Inside("client", ClientOrder(plan.client)) \o <<<<"wire">>>>
                                \o Inside("server", ServerOrder(plan.server))
  BY DEF MethodInsideInterceptors
<1>1. PICK cs, ss : cs = ClientOrder(plan.client) /\ ss = ServerOrder(plan.server)
  OBVIOUS
<1>2. PICK w \in 0 .. Len(stack) : Placed(w) /\ Framed(stack, w, cs, ss) /\ Going(w, cs, ss)
  BY <1>1, OrderPlaced
<1>3. IsSeq(stack) /\ Len(stack) \in Nat
  BY OrderPlaced
<1>4. w < Len(stack) /\ w = Len(cs) /\ Len(stack) = w + 1 + Len(ss)
  <2>1. w < Len(stack) /\ Len(stack) - w - 1 = Len(ss)
    BY <1>2 DEF Placed, Going
  <2> QED
    BY <1>2, <1>3, <2>1 DEF Framed
<1>5. IsSeq(cs) /\ IsSeq(ss)
  <2>1. /\ Calls(<<ClientInterceptor(plan.client)>>, cs)
        /\ Calls(<<ServerConfig(plan.server).interceptor>>, ss)
    BY <1>1, PlanCalls DEF OrderInv
  <2> QED
    BY <2>1, CallsShape
<1>6. ASSUME NEW side, NEW order, IsSeq(order), NEW u, u = Inside(side, order)
      PROVE  /\ IsSeq(u) /\ Len(u) = Len(order)
             /\ \A n \in 1 .. Len(order) : u[n] = <<side, order[n]>>
  <2>1. DOMAIN order = 1 .. Len(order) /\ Len(order) \in Nat
    BY <1>6 DEF IsSeq
  <2>2. u = [n \in 1 .. Len(order) |-> <<side, order[n]>>]
    BY <1>6, <2>1 DEF Inside
  <2>3. u = [n \in 1 .. Len(order) |-> u[n]]
    BY <2>2
  <2>4. IsSeq(u) /\ Len(u) = Len(order)
    BY <2>1, <2>3, FunctionIsSeq
  <2> QED
    BY <2>2, <2>4
<1>7. PICK a : a = Inside("client", cs)
  OBVIOUS
<1>8. PICK b : b = Inside("server", ss)
  OBVIOUS
<1>9. IsSeq(a) /\ Len(a) = Len(cs) /\ \A n \in 1 .. Len(cs) : a[n] = <<"client", cs[n]>>
  BY <1>5, <1>6, <1>7
<1>10. IsSeq(b) /\ Len(b) = Len(ss) /\ \A n \in 1 .. Len(ss) : b[n] = <<"server", ss[n]>>
  BY <1>5, <1>6, <1>8
<1>11. PICK z : z = <<"wire">>
  OBVIOUS
<1>12. PICK x : x = a \o <<z>>
  OBVIOUS
<1>13. PICK y : y = x \o b
  OBVIOUS
<1>14. /\ IsSeq(x) /\ Len(x) = Len(cs) + 1 /\ x[Len(cs) + 1] = z
       /\ \A n \in 1 .. Len(cs) : x[n] = <<"client", cs[n]>>
  <2>1. IsSeq(<<z>>) /\ Len(<<z>>) = 1 /\ <<z>>[1] = z
    BY Alone
  <2>2. IsJoin(a, <<z>>, x)
    BY <1>9, <1>12, <2>1, Joined
  <2> QED
    BY <1>9, <2>1, <2>2 DEF IsJoin
<1>15. /\ IsSeq(y) /\ Len(y) = Len(x) + Len(ss)
       /\ \A n \in 1 .. Len(x) : y[n] = x[n]
       /\ \A n \in 1 .. Len(ss) : y[Len(x) + n] = <<"server", ss[n]>>
  <2>1. IsJoin(x, b, y)
    BY <1>10, <1>13, <1>14, Joined
  <2> QED
    BY <1>10, <2>1 DEF IsJoin
<1>16. PICK r : r = Running
  OBVIOUS
<1>17. r = [n \in 1 .. Len(stack) |->
              IF stack[n].side = "wire" THEN <<"wire">> ELSE <<stack[n].side, stack[n].i>>]
  <2>1. DOMAIN stack = 1 .. Len(stack)
    BY <1>3 DEF IsSeq
  <2> QED
    BY <1>16, <2>1 DEF Running
<1>18. IsSeq(r) /\ Len(r) = Len(stack)
  <2>1. r = [n \in 1 .. Len(stack) |-> r[n]]
    BY <1>17
  <2> QED
    BY <1>3, <2>1, FunctionIsSeq
<1>19. Len(cs) \in Nat /\ Len(ss) \in Nat /\ Len(r) = Len(y)
  BY <1>3, <1>4, <1>5, <1>14, <1>15, <1>18 DEF IsSeq
<1>20. ASSUME NEW n \in 1 .. Len(r) PROVE r[n] = y[n]
  <2>1. CASE n <= w
    <3>1. n \in 1 .. w /\ n \in 1 .. Len(stack) /\ n \in 1 .. Len(cs) /\ n \in 1 .. Len(x)
      BY <1>3, <1>4, <1>14, <1>18, <2>1
    <3>2. stack[n].side = "client" /\ stack[n].i = cs[n]
      BY <1>2, <3>1 DEF Placed, Split, Framed
    <3>3. r[n] = <<"client", cs[n]>>
      BY <1>17, <3>1, <3>2
    <3> QED
      BY <1>14, <1>15, <3>1, <3>3
  <2>2. CASE n = w + 1
    <3>1. n \in 1 .. Len(stack) /\ n = Len(cs) + 1 /\ n \in 1 .. Len(x)
      BY <1>3, <1>4, <1>14, <1>18, <2>2
    <3>2. stack[n].side = "wire"
      BY <1>2, <1>4, <2>2 DEF Placed, Split
    <3>3. r[n] = z
      BY <1>11, <1>17, <3>1, <3>2
    <3> QED
      BY <1>14, <1>15, <3>1, <3>3
  <2>3. CASE n > w + 1
    <3>1. n \in w + 2 .. Len(stack) /\ n \in 1 .. Len(stack)
      BY <1>3, <1>18, <2>3
    <3>2. PICK m \in 1 .. Len(ss) : m = n - w - 1
      <4>1. n - w - 1 \in 1 .. Len(ss)
        BY <1>4, <1>19, <3>1
      <4> QED
        BY <4>1
    <3>3. stack[n].side = "server" /\ stack[n].i = ss[m]
      BY <1>2, <3>1, <3>2 DEF Placed, Split, Framed
    <3>4. r[n] = <<"server", ss[m]>>
      BY <1>17, <3>1, <3>3
    <3>5. n = Len(x) + m
      BY <1>4, <1>14, <1>19, <3>2
    <3> QED
      BY <1>15, <3>4, <3>5
  <2> QED
    BY <1>3, <1>18, <2>1, <2>2, <2>3
<1>21. r = y
  BY <1>15, <1>18, <1>19, <1>20, SameElements
<1> QED
  BY <1>1, <1>7, <1>8, <1>11, <1>12, <1>13, <1>16, <1>21

\* The method runs inside all interceptors the two sides were configured with,
\* in their order, whatever the options and however interceptors retry.
THEOREM InterceptorsAroundMethod == CallSpec => []MethodInsideInterceptors
<1>1. CallInit => StackInv /\ OrderInv
  <2> SUFFICES ASSUME CallInit PROVE OrderInv
    BY InitStack
  <2>1. /\ stack = <<>> /\ pc \in {"noServer", "build"} /\ plan \in Plans
        /\ pc # "noServer" => ~ServerConfig(plan.server).failed
    BY DEF CallInit
  <2>2. Len(stack) = 0
    BY <2>1, EmptyIsSeq
  <2>3. PICK cs, ss : cs = ClientOrder(plan.client) /\ ss = ServerOrder(plan.server)
    OBVIOUS
  <2>4. Split(0) /\ Framed(stack, 0, cs, ss) /\ Going(0, cs, ss)
    BY <2>1, <2>2 DEF Split, Framed, Going
  <2>5. 0 \in 0 .. Len(stack)
    BY <2>2
  <2> QED
    BY <2>1, <2>3, <2>4, <2>5 DEF OrderInv
<1>2. /\ StackInv /\ OrderInv /\ [CallNext]_<<vars, configVars, callVars>>
      => StackInv' /\ OrderInv'
  BY StackNext, OrderNext
<1>3. StackInv /\ OrderInv => MethodInsideInterceptors
  BY MethodInside
<1> QED
  BY <1>1, <1>2, <1>3, PTL DEF CallSpec
=============================================================================
