------------------------------ MODULE MCServer ------------------------------
(* Instances of Server for TLC.                                            *)
EXTENDS Server

CONSTANTS l1, c1, c2, d1, d2, k1
=============================================================================
