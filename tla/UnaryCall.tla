------------------------------ MODULE UnaryCall ------------------------------
(***************************************************************************)
(* One Client.Call from end to end: what the application, the interceptors *)
(* of both sides and the method of the service can tell of it.  The        *)
(* metadata is built first, then the call goes down through the chain of   *)
(* the client, over the connection (see Connection for that), through the  *)
(* chain of the server to the method, and all the way back.                *)
(*                                                                         *)
(* An interceptor may refuse a call, pass it on, and call again (a retry)  *)
(* when it has the result; it hands on the last result it got.             *)
(***************************************************************************)
EXTENDS Metadata, Interceptors

CONSTANTS
  Plans,      \* bound: the options of both sides, and the operations on metadata
  Untils,     \* bound: the values of time.Until(deadline), NoDeadline among them
  NoDeadline,
  Delays,     \* bound: how long a request is on its way
  Returns,    \* bound: what the method returns, [resp, err]
  MaxNexts    \* bound: how often interceptors go on to the next

ASSUME TimesAssumption ==
  Untils \subseteq Int \cup {NoDeadline} /\ NoDeadline \notin Int /\ Delays \subseteq Nat

\* "transport" names the failures of dispatch, which are no errors of a method.
ASSUME ReturnsAssumption == Returns \subseteq [resp : STRING, err : STRING \ {"transport"}]

\* WithUnaryClientInterceptor and WithUnaryServerInterceptor set one function.
ASSUME PlansAssumption ==
  \A p \in Plans : \A opts \in {p.client, p.server} :
    /\ opts \in Seq(ToSet(opts))
    /\ \A opt \in ToSet(opts) :
         opt.of \in Seq(ToSet(opt.of)) /\ (opt.kind = "set" => Len(opt.of) = 1)

VARIABLES
  plan,        \* how the two sides are configured
  registered,  \* the service is registered
  pc,          \* "build", then where the call is: see below
  now,         \* time since the call began
  creq,        \* the Request: its metadata and TimeoutNano
  cresp,       \* the status of the Response, "unset" before there is one
  k,           \* the continuation about to be called
  stack,       \* the interceptors that wait for their next, outermost first
  res,         \* the result on its way back
  hctx,        \* the context of the method: its metadata and deadline
  ret,         \* what Call returned
  asked,       \* history: the metadata and the deadline Call was given
  origin,      \* history: where the last result came from
  nexts        \* history: how often interceptors went on

configVars == <<plan, registered>>
callVars == <<pc, now, creq, cresp, k, stack, res, hctx, ret, asked, origin, nexts>>

(***************************************************************************)
(* pc: "client" and "server" call the continuation k of that side, "into"  *)
(* is an interceptor that begins, "result" one whose next has returned (or *)
(* the end of the stack), "route" is handle, "method" the method.          *)
(***************************************************************************)
Nothing == [resp |-> "none", err |-> "none"]
Failure(e) == [resp |-> "none", err |-> e]

CallInit ==
  /\ Init
  /\ plan \in Plans /\ registered = FALSE
  /\ pc = IF ServerConfig(plan.server).failed THEN "noServer" ELSE "build"
  /\ now = 0 /\ creq = NoMD /\ cresp = "unset" /\ k = <<>> /\ stack = <<>>
  /\ res = Nothing /\ hctx = NoMD /\ ret = "none" /\ asked = NoMD /\ origin = Nothing
  /\ nexts = 0

-----------------------------------------------------------------------------
Prepare == /\ pc = "build" /\ ops < plan.ops /\ Next
           /\ UNCHANGED <<configVars, callVars>>

\* register panics when the name is taken.
Register ==
  /\ pc = "build" /\ UNCHANGED vars
  /\ registered' = TRUE /\ pc' = IF registered THEN "panic" ELSE pc
  /\ UNCHANGED <<plan, now, creq, cresp, k, stack, res, hctx, ret, asked, origin, nexts>>

TimeoutNano(until) == IF until = NoDeadline THEN 0 ELSE until
Attached(h) == IF Exists(h) THEN Contents(arrays, mds[h]) ELSE Empty

\* Call up to the interceptor: marshal, copy the metadata of the context and
\* what is left until its deadline.  The request holds copies: from here on
\* the MDs of the application are of no concern.
Call(h, until) ==
  /\ pc = "build"
  /\ \E order \in Orders(Attached(h)) :
       creq' = [metadata |-> Pairs(Attached(h), order), timeout |-> TimeoutNano(until)]
  /\ asked' = [metadata |-> Attached(h), deadline |-> until]
  /\ pc' = "client" /\ k' = <<ClientInterceptor(plan.client)>>
  /\ arrays' = <<>> /\ mds' = [g \in Handles |-> NoMD] /\ ideal' = mds' /\ ops' = 0
  /\ UNCHANGED <<configVars, now, cresp, stack, res, hctx, ret, origin, nexts>>

\* codec.Marshal refuses what is not a message.
CallUnmarshalable ==
  /\ pc = "build" /\ pc' = "done" /\ ret' = "marshal"
  /\ UNCHANGED <<vars, configVars, now, creq, cresp, k, stack, res, hctx, asked, origin, nexts>>

-----------------------------------------------------------------------------
(* The chains.                                                             *)

quiet == UNCHANGED <<vars, configVars, now, creq, asked>>

Continue ==
  /\ pc \in {"client", "server"} /\ k # <<>>
  /\ IF Head(k).kind = "one"
       THEN /\ stack' = Append(stack, [side |-> pc, i |-> Head(k).i, next |-> Tail(k)])
            /\ pc' = "into" /\ k' = <<>>
       ELSE k' = Unfold(k) /\ UNCHANGED <<stack, pc>>
  /\ quiet /\ UNCHANGED <<cresp, res, hctx, ret, origin, nexts>>

\* An interceptor calls its next, for the first time or again.
GoOn ==
  /\ pc = "into" \/ (pc = "result" /\ stack # <<>>)
  /\ Last(stack).side # "wire" /\ nexts < MaxNexts
  /\ pc' = Last(stack).side /\ k' = Last(stack).next /\ nexts' = nexts + 1
  /\ quiet /\ UNCHANGED <<cresp, stack, res, hctx, ret, origin>>

\* It returns an error of its own.
Refuse ==
  /\ pc = "into" /\ pc' = "result"
  /\ stack' = Front(stack) /\ res' = Failure("refused") /\ origin' = res'
  /\ quiet /\ UNCHANGED <<cresp, k, hctx, ret, nexts>>

\* It returns what its next returned.
PassOn ==
  /\ pc = "result" /\ stack # <<>> /\ Last(stack).side # "wire"
  /\ stack' = Front(stack)
  /\ quiet /\ UNCHANGED <<pc, cresp, k, res, hctx, ret, origin, nexts>>

-----------------------------------------------------------------------------
(* dispatch, and the server.                                               *)

\* The request reaches the server after some delay.
Dispatch ==
  /\ pc = "client" /\ k = <<>>
  /\ pc' = "route" /\ \E d \in Delays : now' = now + d
  /\ stack' = Append(stack, [side |-> "wire"])
  /\ UNCHANGED <<vars, configVars, creq, asked, cresp, k, res, hctx, ret, origin, nexts>>

\* Or dispatch fails: ctx is done, the client is closed, the connection lost.
DispatchFails ==
  /\ pc = "client" /\ k = <<>>
  /\ pc' = "result" /\ res' = Failure("transport") /\ origin' = res'
  /\ quiet /\ UNCHANGED <<cresp, k, stack, hctx, ret, nexts>>

\* handle finds no such service or method: sendStatus.
Unimplemented ==
  /\ pc = "route" /\ ~registered
  /\ pc' = "result" /\ cresp' = "Unimplemented"
  /\ stack' = Front(stack) /\ res' = Nothing /\ origin' = Failure("unimplemented")
  /\ quiet /\ UNCHANGED <<k, hctx, ret, nexts>>

\* Faulty: only a timeout that is left makes a deadline.
PositiveTimeout(t) == IF t <= 0 THEN NoDeadline ELSE now + t
DeadlineOf(t) == IF t = 0 THEN NoDeadline ELSE now + t

\* getRequestContext, then unaryCall calls the interceptor.
Handle ==
  /\ pc = "route" /\ registered
  /\ hctx' = [metadata |-> IF creq.metadata = <<>> THEN Empty ELSE FromRequest(creq.metadata),
              deadline |-> DeadlineOf(creq.timeout)]
  /\ pc' = "server" /\ k' = <<ServerConfig(plan.server).interceptor>>
  /\ quiet /\ UNCHANGED <<cresp, stack, res, ret, origin, nexts>>

\* The method begins ...
Begin ==
  /\ pc = "server" /\ k = <<>> /\ pc' = "method"
  /\ quiet /\ UNCHANGED <<cresp, k, stack, res, hctx, ret, origin, nexts>>

\* ... and returns, to an interceptor or to unaryCall.
MethodReturns ==
  /\ pc = "method" /\ pc' = "result"
  /\ res' \in Returns /\ origin' = res'
  /\ quiet /\ UNCHANGED <<cresp, k, stack, hctx, ret, nexts>>

\* convertCode, for errors that carry no status; UnexpectedEOF stands for the
\* five errors of io that make a failed precondition.
ConvertCode(err) ==
  CASE err = "EOF"              -> "OutOfRange"
    [] err = "UnexpectedEOF"    -> "FailedPrecondition"
    [] err = "Invalid"          -> "InvalidArgument"
    [] err = "Canceled"         -> "Canceled"
    [] err = "DeadlineExceeded" -> "DeadlineExceeded"
    [] err = "Exist"            -> "AlreadyExists"
    [] err = "NotExist"         -> "NotFound"
    [] err = "Permission"       -> "PermissionDenied"
    [] OTHER                    -> "Unknown"

\* status.FromError: these errors carry the status of their name.
StatusErrors == {"PermissionDenied", "ResourceExhausted", "refused"}
CodeOf(err) == IF err = "none" THEN "OK" ELSE IF err \in StatusErrors THEN err
               ELSE ConvertCode(err)

\* unaryCall: what becomes of the response and the error of the chain.
StatusOf(r) ==
  IF r.err # "none" THEN CodeOf(r.err)
  ELSE IF r.resp = "nil" THEN ConvertCode("marshal called with nil")
  ELSE IF r.resp = "message" THEN "OK" ELSE "Internal"

\* The response arrives and dispatch fills in resp, whatever its status.
Respond ==
  /\ pc = "result" /\ stack # <<>> /\ Last(stack).side = "wire"
  /\ cresp' = StatusOf(res) /\ res' = Nothing
  /\ stack' = Front(stack)
  /\ quiet /\ UNCHANGED <<pc, k, hctx, ret, origin, nexts>>

\* Faulty: the status is looked at only if the interceptors failed.
ErrorOnly == IF res.err # "none" THEN res.err ELSE "ok"
\* Call, back from the chain: the error, the response, then its status.
Outcome == IF res.err # "none" THEN res.err ELSE IF cresp # "OK" THEN cresp ELSE "ok"

CallReturns(typed) ==
  /\ pc = "result" /\ stack = <<>> /\ pc' = "done"
  /\ ret' = IF res.err = "none" /\ ~typed THEN "unmarshal" ELSE Outcome
  /\ quiet /\ UNCHANGED <<cresp, k, stack, res, hctx, origin, nexts>>

-----------------------------------------------------------------------------
CallNext ==
  \/ Prepare \/ Register \/ CallUnmarshalable
  \/ \E h \in Handles, until \in Untils : Call(h, until)
  \/ Continue \/ GoOn \/ Refuse \/ PassOn
  \/ Dispatch \/ DispatchFails \/ Unimplemented \/ Handle
  \/ Begin \/ MethodReturns \/ Respond
  \/ \E typed \in BOOLEAN : CallReturns(typed)

CallSpec == CallInit /\ [][CallNext]_<<vars, configVars, callVars>>

-----------------------------------------------------------------------------
(* Properties.                                                             *)

\* The interceptors of one side, and all that is in progress with the
\* connection between the two sides, outermost first.
Inside(side, order) == [n \in DOMAIN order |-> <<side, order[n]>>]
Running == [n \in DOMAIN stack |->
              IF stack[n].side = "wire" THEN <<"wire">> ELSE <<stack[n].side, stack[n].i>>]

\* No interceptor is passed by and none is called twice: whatever options the
\* two sides were built with, and however interceptors retry, the method runs
\* inside all of those configured, in the order of configuration.
MethodInsideInterceptors ==
  pc = "method" =>
    Running = Inside("client", ClientOrder(plan.client)) \o <<<<"wire">>>>
                \o Inside("server", ServerOrder(plan.server))

\* The method finds under every name the values, in order, that the caller
\* had attached under it, wherever keys were lowered and the map was taken
\* apart for the request.
MetadataArrives ==
  pc = "method" => \A name \in Names :
    Get(hctx.metadata, name) = Get(asked.metadata, name)

\* The method is under a deadline when the caller is, also one that has passed
\* already, and its deadline does not come before the caller's: a request that
\* is late or retried is never cut short on the way.  (Exactly zero left is no
\* deadline: TimeoutNano is 0.)
DeadlineArrives ==
  pc = "method" =>
    IF asked.deadline \in {NoDeadline, 0} THEN hctx.deadline = NoDeadline
    ELSE hctx.deadline # NoDeadline /\ hctx.deadline >= asked.deadline

\* Call returns nil only when the last attempt ran the method and it returned
\* a message; an error with a status, or one that means a cancelled or expired
\* context, reaches the caller with its code, through any retries before it.
ResultArrives ==
  pc = "done" /\ ret \notin {"marshal", "unmarshal"} =>
    /\ ret = "ok" <=> origin = [resp |-> "message", err |-> "none"]
    /\ origin.err \in StatusErrors \cup {"Canceled", "DeadlineExceeded", "transport"}
         => ret = origin.err
=============================================================================
