---------------------------- MODULE MCConnection ----------------------------
(* Instances of Connection for TLC: the calls take the odd ids, s1 first.  *)
EXTENDS Connection

CONSTANTS s1

MCSidOf == [c \in Calls |-> IF c = s1 THEN 1 ELSE 3]

\* Steps of one goroutine that no other can tell from their absence are taken
\* at once: the top of a loop only looks at ctx, at shutdown and done, or at
\* active, and only a shutdown looks at what active makes of the state.
LocalStepsFirst ==
  LET client == rl = "top"   /\ rl' # "top"
      main   == mpc = "top"  /\ mpc' # "top"
      recvr  == rpc \in {"top", "count"} /\ rpc' # rpc
  IN /\ rl = "top" => client
     /\ rl # "top" /\ mpc = "top" => main
     /\ rl # "top" /\ mpc # "top" /\ rpc \in {"top", "count"} => recvr
=============================================================================
