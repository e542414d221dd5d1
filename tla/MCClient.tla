------------------------------ MODULE MCClient ------------------------------
(* Instances of Client for TLC: u1 and u2 are unary calls, s1 and s2       *)
(* streams; each configuration says in which directions they stream.       *)
EXTENDS Client

CONSTANTS u1, u2, s1, s2
=============================================================================
