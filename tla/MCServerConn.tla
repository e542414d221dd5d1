---------------------------- MODULE MCServerConn ----------------------------
(* Instances of ServerConn for TLC.  Ids are small numbers; the            *)
(* configurations say what each is used for, and number the clients' even  *)
(* ids among those that are not served.                                    *)
EXTENDS ServerConn
=============================================================================
