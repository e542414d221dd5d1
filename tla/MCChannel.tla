------------------------------ MODULE MCChannel ------------------------------
(* Instances of Channel for TLC.                                           *)
EXTENDS Channel

CONSTANTS c1, c2, m1, m2, m3, m4, m5

\* m2 is too long for its receiver, m5 for its sender already, m3 is empty.
MCChannelOf == [m \in Messages |-> IF m = m4 THEN c2 ELSE c1]
MCSizeOf == [m \in Messages |->
  CASE m = m1 -> 1 [] m = m2 -> 3 [] m = m3 -> 0 [] m = m4 -> 2 [] m = m5 -> 3]
=============================================================================
