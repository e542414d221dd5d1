----------------------------- MODULE Interceptors -----------------------------
(***************************************************************************)
(* How a client and a server come to their one interceptor from the list   *)
(* of options they are built with (client.go, config.go, NewServer).       *)
(*                                                                         *)
(* The functions the code builds are modelled by what they hold: a chain   *)
(* is the closure over the slice interceptors, a continuation (an Invoker, *)
(* a Method) is the list of interceptors still to be called before what    *)
(* the chain is for.                                                       *)
(***************************************************************************)
EXTENDS Integers, Sequences, SequencesExt

\* An interceptor is one of the application's, the default one, or a chain.
One(i) == [kind |-> "one", i |-> i]
Chain(is) == [kind |-> "chain", of |-> is]
Default == [kind |-> "default"]
None == [kind |-> "none"]

\* Options.  "set" is WithUnaryClientInterceptor and WithUnaryServerInterceptor,
\* "chain" the two WithChain options, "handshaker" WithServerHandshaker.
Ones(is) == [n \in DOMAIN is |-> One(is[n])]

\* Faulty: a chain replaces what was configured before it.
ForgetsConfigured(before, is) == Chain(is)
\* What was configured before comes first.
ChainAfter(before, is) == IF before = None THEN Chain(is) ELSE Chain(<<before>> \o is)

WithChain(before, is) == IF is = <<>> THEN before ELSE ChainAfter(before, Ones(is))

\* NewClient: a later option replaces the interceptor, a chain extends it.
ClientApplied(opts) ==
  LET after[n \in 0 .. Len(opts)] ==
        IF n = 0 THEN None
        ELSE IF opts[n].kind = "set" THEN One(opts[n].of[1])
        ELSE WithChain(after[n - 1], opts[n].of)
  IN after
ClientInterceptor(opts) ==
  LET last == ClientApplied(opts)[Len(opts)] IN IF last = None THEN Default ELSE last

\* NewServer: the first option that fails ends it, "set" after an interceptor
\* and a second handshaker.
OptionFails(config, opt) ==
  \/ opt.kind = "set" /\ config.interceptor # None
  \/ opt.kind = "handshaker" /\ config.handshaker

ServerApply(opt, config) ==
  IF config.failed \/ OptionFails(config, opt) THEN [config EXCEPT !.failed = TRUE]
  ELSE IF opt.kind = "handshaker" THEN [config EXCEPT !.handshaker = TRUE]
  ELSE [config EXCEPT !.interceptor =
          IF opt.kind = "set" THEN One(opt.of[1]) ELSE WithChain(@, opt.of)]
ServerApplied(opts) ==
  LET config[n \in 0 .. Len(opts)] ==
        IF n = 0 THEN [interceptor |-> None, handshaker |-> FALSE, failed |-> FALSE]
        ELSE ServerApply(opts[n], config[n - 1])
  IN config
ServerConfig(opts) ==
  LET last == ServerApplied(opts)[Len(opts)]
  IN IF last.interceptor = None THEN [last EXCEPT !.interceptor = Default] ELSE last

\* interceptors[1:], what remains for the function passed to interceptors[0].
Remaining(is) == Tail(is)

\* A call of the chain at the head of a continuation calls its first member;
\* chainUnaryInterceptors and chainUnaryServerInterceptors put the others
\* before the rest.  The default interceptor calls what follows.
Unfold(k) ==
  LET h == Head(k) IN
  IF h.kind = "chain" THEN <<Head(h.of)>> \o Remaining(h.of) \o Tail(k) ELSE Tail(k)

-----------------------------------------------------------------------------
\* The order in which the application's functions ought to be called: as they
\* were configured, on the client those after the last that was set alone.
ClientOrders(opts) ==
  LET order[n \in 0 .. Len(opts)] ==
        IF n = 0 THEN <<>>
        ELSE IF opts[n].kind = "set" THEN opts[n].of ELSE order[n - 1] \o opts[n].of
  IN order
ClientOrder(opts) == ClientOrders(opts)[Len(opts)]
ServerOrders(opts) ==
  LET order[n \in 0 .. Len(opts)] ==
        IF n = 0 THEN <<>>
        ELSE IF opts[n].kind = "handshaker" THEN order[n - 1] ELSE order[n - 1] \o opts[n].of
  IN order
ServerOrder(opts) == ServerOrders(opts)[Len(opts)]
=============================================================================
