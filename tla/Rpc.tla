--------------------------------- MODULE Rpc ---------------------------------
(***************************************************************************)
(* What ttrpc promises of its calls, whatever happens in between: an       *)
(* abstract specification that Connection (a client and a server at the    *)
(* two ends of a byte stream) implements.  Nothing here knows of streams,  *)
(* frames, locks, buffers or goroutines.                                   *)
(*                                                                         *)
(* Messages of a call are numbered, in either direction, by their order    *)
(* of sending.  The request counts as the first message to the handler if  *)
(* the handler reads it as one, and the answer as the last to the caller.  *)
(***************************************************************************)
EXTENDS Integers

CONSTANT Calls

VARIABLES
  phase,     \* "new", "requested", "running" (its handler), "answered"
  result,    \* what the caller was told: "none" yet, "ok", "failed"
  upSent,    \* messages the caller sent
  upRead,    \* the last of them the handler has read
  refused,   \* the caller is told that a message was not delivered
  upClosed,  \* the caller has closed its direction
  eof,       \* the handler was told that no message follows
  downSent,  \* messages the handler sent, its answer included
  downGot    \* messages the caller received

vars == <<phase, result, upSent, upRead, refused, upClosed, eof, downSent, downGot>>
upVars == <<upSent, upRead, refused, upClosed, eof>>
downVars == <<downSent, downGot>>

Init ==
  /\ phase = [c \in Calls |-> "new"] /\ result = [c \in Calls |-> "none"]
  /\ upSent = [c \in Calls |-> 0] /\ upRead = [c \in Calls |-> 0]
  /\ refused = [c \in Calls |-> FALSE]
  /\ upClosed = [c \in Calls |-> FALSE] /\ eof = [c \in Calls |-> FALSE]
  /\ downSent = [c \in Calls |-> 0] /\ downGot = [c \in Calls |-> 0]

Becomes(c, from, to) == phase[c] = from /\ phase' = [phase EXCEPT ![c] = to]

\* The request is sent; it may carry the first message.
Request(c) ==
  /\ Becomes(c, "new", "requested")
  /\ upSent' \in {upSent, [upSent EXCEPT ![c] = 1]}
  /\ UNCHANGED <<result, upRead, refused, upClosed, eof, downVars>>

\* A request starts at most one handler.
Start(c) == Becomes(c, "requested", "running") /\ UNCHANGED <<result, upVars, downVars>>

ClientSend(c) ==
  /\ phase[c] # "new" /\ ~upClosed[c]
  /\ upSent' = [upSent EXCEPT ![c] = @ + 1]
  /\ UNCHANGED <<phase, result, upRead, refused, upClosed, eof, downVars>>

ClientClose(c) ==
  /\ phase[c] # "new" /\ ~upClosed[c]
  /\ upClosed' = [upClosed EXCEPT ![c] = TRUE]
  /\ UNCHANGED <<phase, result, upSent, upRead, refused, eof, downVars>>

Refuse(c) ==
  /\ phase[c] # "new" /\ ~refused[c] /\ refused' = [refused EXCEPT ![c] = TRUE]
  /\ UNCHANGED <<phase, result, upSent, upRead, upClosed, eof, downVars>>

\* The handler reads the next message, or a later one if one was refused.
HandlerRead(c) ==
  /\ phase[c] = "running" /\ ~eof[c]
  /\ \E n \in upRead[c] + 1 .. upSent[c] :
       /\ refused[c] \/ n = upRead[c] + 1
       /\ upRead' = [upRead EXCEPT ![c] = n]
  /\ UNCHANGED <<phase, result, upSent, refused, upClosed, eof, downVars>>

\* The handler learns of the end after the last message only.
HandlerEOF(c) ==
  /\ phase[c] = "running"
  /\ ~eof[c] /\ (refused[c] \/ (upClosed[c] /\ upRead[c] = upSent[c]))
  /\ eof' = [eof EXCEPT ![c] = TRUE]
  /\ UNCHANGED <<phase, result, upSent, upRead, refused, upClosed, downVars>>

HandlerSend(c) ==
  /\ phase[c] = "running" /\ downSent' = [downSent EXCEPT ![c] = @ + 1]
  /\ UNCHANGED <<phase, result, upVars, downGot>>

\* The answer, one per request, is the last message.
Answer(c) ==
  /\ Becomes(c, "running", "answered") /\ downSent' = [downSent EXCEPT ![c] = @ + 1]
  /\ UNCHANGED <<result, upVars, downGot>>

\* The caller receives messages in order and without a gap.
Receive(c) ==
  /\ downGot[c] < downSent[c] /\ downGot' = [downGot EXCEPT ![c] = @ + 1]

Fail(c) == result[c] = "none" /\ result' = [result EXCEPT ![c] = "failed"]

\* Success, or the end of a stream, comes with the answer: the handler has
\* run to its end and the caller has received everything that it sent.
Succeed(c) ==
  /\ result[c] = "none" /\ result' = [result EXCEPT ![c] = "ok"]
  /\ phase[c] = "answered" /\ downGot'[c] = downSent[c]

ClientReceives(c) ==
  /\ Receive(c) /\ (Fail(c) \/ Succeed(c) \/ UNCHANGED result)
  /\ UNCHANGED <<phase, upVars, downSent>>

ClientEnds(c) ==
  /\ UNCHANGED downGot /\ (Fail(c) \/ Succeed(c))
  /\ UNCHANGED <<phase, upVars, downSent>>

Next ==
  \E c \in Calls :
    \/ Request(c) \/ Start(c) \/ Answer(c)
    \/ ClientSend(c) \/ ClientClose(c) \/ Refuse(c)
    \/ HandlerRead(c) \/ HandlerEOF(c) \/ HandlerSend(c)
    \/ ClientReceives(c) \/ ClientEnds(c)

Spec == Init /\ [][Next]_vars
=============================================================================
