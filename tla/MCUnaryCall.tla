----------------------------- MODULE MCUnaryCall -----------------------------
(* Instances of UnaryCall for TLC.                                         *)
EXTENDS UnaryCall

CONSTANTS a, b, c

MCLower == [x \in Names |-> IF x = "Foo" THEN "foo" ELSE x]

Set1(i) == [kind |-> "set", of |-> <<i>>]
ChainOf(is) == [kind |-> "chain", of |-> is]
Shake == [kind |-> "handshaker", of |-> <<>>]

\* Option lists: each kind alone, chains after a single interceptor and after a
\* chain, an empty chain, an override, and lists that NewServer refuses.
ClientOptions ==
  { <<ChainOf(<<>>)>>, <<ChainOf(<<a, b>>)>>, <<Set1(a), ChainOf(<<b, c>>)>>,
    <<ChainOf(<<a>>), ChainOf(<<b>>), ChainOf(<<c>>)>>, <<ChainOf(<<a, b>>), Set1(c)>> }
ServerOptions ==
  { <<>>, <<Set1(a)>>, <<ChainOf(<<a, b>>), Shake>>, <<Set1(a), ChainOf(<<b, c>>)>>,
    <<ChainOf(<<a>>), Set1(b)>>, <<Shake, Shake>> }

\* Either a call with metadata and no interceptors, or interceptors and no
\* metadata: neither depends on the other.
MCPlans ==
  [client : {<<>>}, server : {<<>>}, ops : {MaxOps}]
  \cup [client : ClientOptions, server : ServerOptions, ops : {0}]

MCUntils == {NoDeadline, 0 - 1, 0, 2}
MCReturns ==
  [resp : {"message", "nil", "other"}, err : {"none"}]
  \cup [resp : {"none"}, err : {"PermissionDenied", "Canceled", "DeadlineExceeded", "EOF",
                                "UnexpectedEOF", "Invalid", "Exist", "NotExist",
                                "Permission", "wrapped"}]
=============================================================================
