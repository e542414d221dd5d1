------------------------------ MODULE RpcProofs ------------------------------
(***************************************************************************)
(* Connection implements Rpc.  The proof takes one call at a time: a step  *)
(* of one call changes the values Abstract is given for that call only     *)
(* (SameAll), and what it does to them is a step of Abstract.              *)
(***************************************************************************)
EXTENDS ConnectionProofs

-----------------------------------------------------------------------------
(* The abstract calls, one at a time.                                      *)

UpSent(c) ==
  IF OnWire(c, "request") = {} THEN 0
  ELSE MessagesUpTo(c, 1 + Cardinality(OnWire(c, "data")))
UpRead(c) ==
  IF read[SidOf[c]] = <<>> THEN 0 ELSE MessagesUpTo(c, Last(read[SidOf[c]]).n)
Refused(c) == SidOf[c] \in refused
SawEOF(c) == SidOf[c] \in sawEOF
DownSent(c) == Cardinality(Answers(c))
DownGot(c) == Cardinality({i \in DOMAIN got[c] : got[c][i].kind # "err"})

SameUp(c) ==
  /\ UpSent(c)' = UpSent(c) /\ UpRead(c)' = UpRead(c) /\ (Refused(c)' <=> Refused(c))
  /\ localClosed'[c] = localClosed[c] /\ (SawEOF(c)' <=> SawEOF(c))
SameDown(c) == DownSent(c)' = DownSent(c) /\ DownGot(c)' = DownGot(c)
SameView(c) ==
  PhaseOf(c)' = PhaseOf(c) /\ ResultOf(c)' = ResultOf(c) /\ SameUp(c) /\ SameDown(c)
\* The other calls stay as they are.
Alone(c) == \A d \in Calls : d # c => SameView(d)

ClosedTypes == localClosed \in [Calls -> BOOLEAN] /\ localClosed' \in [Calls -> BOOLEAN]

\* The values Abstract is given.
phases == [c \in Calls |-> PhaseOf(c)]
results == [c \in Calls |-> ResultOf(c)]
upsSent == [c \in Calls |-> UpSent(c)]
upsRead == [c \in Calls |-> UpRead(c)]
upsRefused == [c \in Calls |-> Refused(c)]
ends == [c \in Calls |-> SawEOF(c)]
downsSent == [c \in Calls |-> DownSent(c)]
downsGot == [c \in Calls |-> DownGot(c)]

\* Every value but those of v, and of call c those but v.
LEMMA Functions ==
  ASSUME ClosedTypes
  PROVE  /\ (\A d \in Calls : PhaseOf(d)' = PhaseOf(d)) => phases' = phases
         /\ (\A d \in Calls : ResultOf(d)' = ResultOf(d)) => results' = results
         /\ (\A d \in Calls : UpSent(d)' = UpSent(d)) => upsSent' = upsSent
         /\ (\A d \in Calls : UpRead(d)' = UpRead(d)) => upsRead' = upsRead
         /\ (\A d \in Calls : Refused(d)' <=> Refused(d)) => upsRefused' = upsRefused
         /\ (\A d \in Calls : localClosed'[d] = localClosed[d]) => localClosed' = localClosed
         /\ (\A d \in Calls : SawEOF(d)' <=> SawEOF(d)) => ends' = ends
         /\ (\A d \in Calls : DownSent(d)' = DownSent(d)) => downsSent' = downsSent
         /\ (\A d \in Calls : DownGot(d)' = DownGot(d)) => downsGot' = downsGot
<1>1. (\A d \in Calls : PhaseOf(d)' = PhaseOf(d)) => phases' = phases
  BY DEF phases
<1>2. (\A d \in Calls : ResultOf(d)' = ResultOf(d)) => results' = results
  BY DEF results
<1>3. (\A d \in Calls : UpSent(d)' = UpSent(d)) => upsSent' = upsSent
  BY DEF upsSent
<1>4. (\A d \in Calls : UpRead(d)' = UpRead(d)) => upsRead' = upsRead
  BY DEF upsRead
<1>5. (\A d \in Calls : Refused(d)' <=> Refused(d)) => upsRefused' = upsRefused
  BY DEF upsRefused, Refused
<1>6. (\A d \in Calls : localClosed'[d] = localClosed[d]) => localClosed' = localClosed
  BY DEF ClosedTypes
<1>7. (\A d \in Calls : SawEOF(d)' <=> SawEOF(d)) => ends' = ends
  BY DEF ends, SawEOF
<1>8. (\A d \in Calls : DownSent(d)' = DownSent(d)) => downsSent' = downsSent
  BY DEF downsSent
<1>9. (\A d \in Calls : DownGot(d)' = DownGot(d)) => downsGot' = downsGot
  BY DEF downsGot
<1> QED
  BY <1>1, <1>2, <1>3, <1>4, <1>5, <1>6, <1>7, <1>8, <1>9

\* What changes of one call changes in the functions.
LEMMA OneChanges ==
  ASSUME ClosedTypes, NEW c \in Calls, Alone(c)
  PROVE  /\ phases' = [phases EXCEPT ![c] = PhaseOf(c)']
         /\ results' = [results EXCEPT ![c] = ResultOf(c)']
         /\ upsSent' = [upsSent EXCEPT ![c] = UpSent(c)']
         /\ upsRead' = [upsRead EXCEPT ![c] = UpRead(c)']
         /\ Refused(c)' => upsRefused' = [upsRefused EXCEPT ![c] = TRUE]
         /\ localClosed'[c] => localClosed' = [localClosed EXCEPT ![c] = TRUE]
         /\ SawEOF(c)' => ends' = [ends EXCEPT ![c] = TRUE]
         /\ downsSent' = [downsSent EXCEPT ![c] = DownSent(c)']
         /\ downsGot' = [downsGot EXCEPT ![c] = DownGot(c)']
<1>1. phases' = [phases EXCEPT ![c] = PhaseOf(c)']
  BY DEF phases, Alone, SameView
<1>2. results' = [results EXCEPT ![c] = ResultOf(c)']
  BY DEF results, Alone, SameView
<1>3. upsSent' = [upsSent EXCEPT ![c] = UpSent(c)']
  BY DEF upsSent, Alone, SameView, SameUp
<1>4. upsRead' = [upsRead EXCEPT ![c] = UpRead(c)']
  BY DEF upsRead, Alone, SameView, SameUp
<1>5. Refused(c)' => upsRefused' = [upsRefused EXCEPT ![c] = TRUE]
  <2> SUFFICES ASSUME Refused(c)' PROVE upsRefused' = [upsRefused EXCEPT ![c] = TRUE]
    OBVIOUS
  <2>1. \A d \in Calls : d # c => (SidOf[d] \in refused') = (SidOf[d] \in refused)
    BY DEF Alone, SameView, SameUp, Refused
  <2>2. (SidOf[c] \in refused') = TRUE
    BY DEF Refused
  <2>3. \A d \in Calls : (SidOf[d] \in refused') = (IF d = c THEN TRUE ELSE SidOf[d] \in refused)
    BY <2>1, <2>2
  <2> QED
    BY <2>3 DEF upsRefused, Refused
<1>6. localClosed'[c] => localClosed' = [localClosed EXCEPT ![c] = TRUE]
  <2>1. \A d \in Calls : d # c => localClosed'[d] = localClosed[d]
    BY DEF Alone, SameView, SameUp
  <2> QED
    BY <2>1 DEF ClosedTypes
<1>7. SawEOF(c)' => ends' = [ends EXCEPT ![c] = TRUE]
  <2> SUFFICES ASSUME SawEOF(c)' PROVE ends' = [ends EXCEPT ![c] = TRUE]
    OBVIOUS
  <2>1. \A d \in Calls : d # c => (SidOf[d] \in sawEOF') = (SidOf[d] \in sawEOF)
    BY DEF Alone, SameView, SameUp, SawEOF
  <2>2. (SidOf[c] \in sawEOF') = TRUE
    BY DEF SawEOF
  <2>3. \A d \in Calls : (SidOf[d] \in sawEOF') = (IF d = c THEN TRUE ELSE SidOf[d] \in sawEOF)
    BY <2>1, <2>2
  <2> QED
    BY <2>3 DEF ends, SawEOF
<1>8. downsSent' = [downsSent EXCEPT ![c] = DownSent(c)']
  BY DEF downsSent, Alone, SameView, SameDown
<1>9. downsGot' = [downsGot EXCEPT ![c] = DownGot(c)']
  BY DEF downsGot, Alone, SameView, SameDown
<1> QED
  BY <1>1, <1>2, <1>3, <1>4, <1>5, <1>6, <1>7, <1>8, <1>9

\* The values of one call.
LEMMA Values ==
  ASSUME ClosedTypes, NEW c \in Calls
  PROVE  /\ phases[c] = PhaseOf(c) /\ results[c] = ResultOf(c)
         /\ upsSent[c] = UpSent(c) /\ upsRead[c] = UpRead(c)
         /\ (upsRefused[c] <=> Refused(c)) /\ (ends[c] <=> SawEOF(c))
         /\ downsSent[c] = DownSent(c) /\ downsGot[c] = DownGot(c)
         /\ downsGot'[c] = DownGot(c)'
  BY DEF phases, results, upsSent, upsRead, upsRefused, ends, downsSent, downsGot

\* Abstract is given these values.
AM == INSTANCE Rpc WITH
  phase <- phases, result <- results, upSent <- upsSent, upRead <- upsRead,
  refused <- upsRefused, upClosed <- localClosed, eof <- ends, downSent <- downsSent,
  downGot <- downsGot

LEMMA SameStart ==
  /\ Abstract!Init <=> AM!Init
  /\ UNCHANGED Abstract!vars <=> UNCHANGED AM!vars
  BY DEF Abstract!Init, AM!Init, Abstract!vars, AM!vars, Abstract!upVars, AM!upVars,
     Abstract!downVars, AM!downVars, phases, results, upsSent, UpSent, upsRead, UpRead,
     upsRefused, Refused, ends, SawEOF, downsSent, DownSent, downsGot, DownGot

LEMMA SameAsking ==
  /\ \A c : Abstract!Request(c) <=> AM!Request(c)
  /\ \A c : Abstract!Start(c) <=> AM!Start(c)
  /\ \A c : Abstract!Answer(c) <=> AM!Answer(c)
  BY DEF Abstract!Request, AM!Request, Abstract!Start, AM!Start, Abstract!Answer, AM!Answer,
     Abstract!Becomes, AM!Becomes, Abstract!upVars, AM!upVars, Abstract!downVars,
     AM!downVars, phases, results, upsSent, UpSent, upsRead, UpRead, upsRefused, Refused,
     ends, SawEOF, downsSent, DownSent, downsGot, DownGot

LEMMA SameUpward ==
  /\ \A c : Abstract!ClientSend(c) <=> AM!ClientSend(c)
  /\ \A c : Abstract!ClientClose(c) <=> AM!ClientClose(c)
  /\ \A c : Abstract!Refuse(c) <=> AM!Refuse(c)
  BY DEF Abstract!ClientSend, AM!ClientSend, Abstract!ClientClose, AM!ClientClose,
     Abstract!Refuse, AM!Refuse, Abstract!upVars, AM!upVars, Abstract!downVars, AM!downVars,
     phases, results, upsSent, UpSent, upsRead, UpRead, upsRefused, Refused, ends, SawEOF,
     downsSent, DownSent, downsGot, DownGot

LEMMA SameHandling ==
  /\ \A c : Abstract!HandlerRead(c) <=> AM!HandlerRead(c)
  /\ \A c : Abstract!HandlerEOF(c) <=> AM!HandlerEOF(c)
  /\ \A c : Abstract!HandlerSend(c) <=> AM!HandlerSend(c)
  BY DEF Abstract!HandlerRead, AM!HandlerRead, Abstract!HandlerEOF, AM!HandlerEOF,
     Abstract!HandlerSend, AM!HandlerSend, Abstract!upVars, AM!upVars, Abstract!downVars,
     AM!downVars, phases, results, upsSent, UpSent, upsRead, UpRead, upsRefused, Refused,
     ends, SawEOF, downsSent, DownSent, downsGot, DownGot

LEMMA SameReceiving ==
  /\ \A c : Abstract!ClientReceives(c) <=> AM!ClientReceives(c)
  /\ \A c : Abstract!ClientEnds(c) <=> AM!ClientEnds(c)
  BY DEF Abstract!ClientReceives, AM!ClientReceives, Abstract!ClientEnds, AM!ClientEnds,
     Abstract!Receive, AM!Receive, Abstract!Fail, AM!Fail, Abstract!Succeed, AM!Succeed,
     Abstract!upVars, AM!upVars, Abstract!downVars, AM!downVars, phases, results, upsSent,
     UpSent, upsRead, UpRead, upsRefused, Refused, ends, SawEOF, downsSent, DownSent,
     downsGot, DownGot

LEMMA SameNext == Abstract!Next <=> AM!Next
  BY SameAsking, SameUpward, SameHandling, SameReceiving DEF Abstract!Next, AM!Next
-----------------------------------------------------------------------------
(* What a change of one call is to the abstract specification.             *)

SameAll(c) == Alone(c) /\ ClosedTypes

LEMMA Kept ==
  ASSUME NEW c \in Calls, SameAll(c)
  PROVE  /\ PhaseOf(c)' = PhaseOf(c) => phases' = phases
         /\ ResultOf(c)' = ResultOf(c) => results' = results
         /\ UpSent(c)' = UpSent(c) => upsSent' = upsSent
         /\ UpRead(c)' = UpRead(c) => upsRead' = upsRead
         /\ (Refused(c)' <=> Refused(c)) => upsRefused' = upsRefused
         /\ localClosed'[c] = localClosed[c] => localClosed' = localClosed
         /\ (SawEOF(c)' <=> SawEOF(c)) => ends' = ends
         /\ DownSent(c)' = DownSent(c) => downsSent' = downsSent
         /\ DownGot(c)' = DownGot(c) => downsGot' = downsGot
<1>1. \A d \in Calls : d # c =>
        /\ PhaseOf(d)' = PhaseOf(d) /\ ResultOf(d)' = ResultOf(d) /\ UpSent(d)' = UpSent(d)
        /\ UpRead(d)' = UpRead(d) /\ (Refused(d)' <=> Refused(d))
        /\ localClosed'[d] = localClosed[d] /\ (SawEOF(d)' <=> SawEOF(d))
        /\ DownSent(d)' = DownSent(d) /\ DownGot(d)' = DownGot(d)
  BY DEF SameAll, Alone, SameView, SameUp, SameDown
<1>2. ClosedTypes
  BY DEF SameAll
<1>3. /\ PhaseOf(c)' = PhaseOf(c) => phases' = phases
      /\ ResultOf(c)' = ResultOf(c) => results' = results
      /\ UpSent(c)' = UpSent(c) => upsSent' = upsSent
      /\ UpRead(c)' = UpRead(c) => upsRead' = upsRead
  BY <1>1, <1>2, Functions
<1>4. /\ (Refused(c)' <=> Refused(c)) => upsRefused' = upsRefused
      /\ localClosed'[c] = localClosed[c] => localClosed' = localClosed
      /\ (SawEOF(c)' <=> SawEOF(c)) => ends' = ends
  BY <1>1, <1>2, Functions
<1>5. /\ DownSent(c)' = DownSent(c) => downsSent' = downsSent
      /\ DownGot(c)' = DownGot(c) => downsGot' = downsGot
  BY <1>1, <1>2, Functions
<1> QED
  BY <1>3, <1>4, <1>5

LEMMA KeptUp ==
  ASSUME NEW c \in Calls, SameAll(c), SameUp(c)
  PROVE  UNCHANGED AM!upVars
  BY Kept DEF SameUp, AM!upVars

LEMMA Stutters ==
  ASSUME ClosedTypes, \A d \in Calls : SameView(d)
  PROVE  UNCHANGED AM!vars
<1>1. /\ phases' = phases /\ results' = results /\ upsSent' = upsSent /\ upsRead' = upsRead
  BY Functions DEF SameView, SameUp
<1>2. upsRefused' = upsRefused /\ localClosed' = localClosed /\ ends' = ends
  BY Functions DEF SameView, SameUp
<1>3. downsSent' = downsSent /\ downsGot' = downsGot
  BY Functions DEF SameView, SameDown
<1> QED
  BY <1>1, <1>2, <1>3 DEF AM!vars

LEMMA IsRequest ==
  ASSUME NEW c \in Calls, SameAll(c), PhaseOf(c) = "new", PhaseOf(c)' = "requested",
         ResultOf(c)' = ResultOf(c), UpSent(c)' = UpSent(c) \/ UpSent(c)' = 1,
         UpRead(c)' = UpRead(c), Refused(c)' <=> Refused(c), localClosed'[c] = localClosed[c],
         SawEOF(c)' <=> SawEOF(c), SameDown(c)
  PROVE  AM!Request(c)
  BY Kept, OneChanges, Values DEF SameAll, SameDown, AM!Request, AM!Becomes, AM!downVars

LEMMA IsStart ==
  ASSUME NEW c \in Calls, SameAll(c), PhaseOf(c) = "requested", PhaseOf(c)' = "running",
         ResultOf(c)' = ResultOf(c), SameUp(c), SameDown(c)
  PROVE  AM!Start(c)
  BY Kept, KeptUp, OneChanges, Values DEF SameAll, SameDown, AM!Start, AM!Becomes, AM!downVars

LEMMA IsAnswer ==
  ASSUME NEW c \in Calls, SameAll(c), PhaseOf(c) = "running", PhaseOf(c)' = "answered",
         ResultOf(c)' = ResultOf(c), SameUp(c), DownSent(c)' = DownSent(c) + 1,
         DownGot(c)' = DownGot(c)
  PROVE  AM!Answer(c)
  BY Kept, KeptUp, OneChanges, Values DEF SameAll, AM!Answer, AM!Becomes

LEMMA IsClientSend ==
  ASSUME NEW c \in Calls, SameAll(c), PhaseOf(c) # "new", ~localClosed[c],
         PhaseOf(c)' = PhaseOf(c), ResultOf(c)' = ResultOf(c), UpSent(c)' = UpSent(c) + 1,
         UpRead(c)' = UpRead(c), Refused(c)' <=> Refused(c), localClosed'[c] = localClosed[c],
         SawEOF(c)' <=> SawEOF(c), SameDown(c)
  PROVE  AM!ClientSend(c)
  BY Kept, OneChanges, Values DEF SameAll, SameDown, AM!ClientSend, AM!downVars

LEMMA IsClientClose ==
  ASSUME NEW c \in Calls, SameAll(c), PhaseOf(c) # "new", ~localClosed[c],
         PhaseOf(c)' = PhaseOf(c), ResultOf(c)' = ResultOf(c), UpSent(c)' = UpSent(c),
         UpRead(c)' = UpRead(c), Refused(c)' <=> Refused(c), localClosed'[c],
         SawEOF(c)' <=> SawEOF(c), SameDown(c)
  PROVE  AM!ClientClose(c)
  BY Kept, OneChanges, Values DEF SameAll, SameDown, AM!ClientClose, AM!downVars

LEMMA IsRefuse ==
  ASSUME NEW c \in Calls, SameAll(c), PhaseOf(c) # "new", ~Refused(c), Refused(c)',
         PhaseOf(c)' = PhaseOf(c), ResultOf(c)' = ResultOf(c), UpSent(c)' = UpSent(c),
         UpRead(c)' = UpRead(c), localClosed'[c] = localClosed[c],
         SawEOF(c)' <=> SawEOF(c), SameDown(c)
  PROVE  AM!Refuse(c)
  BY Kept, OneChanges, Values DEF SameAll, SameDown, AM!Refuse, AM!downVars

LEMMA IsHandlerRead ==
  ASSUME NEW c \in Calls, SameAll(c), PhaseOf(c) = "running", ~SawEOF(c),
         UpRead(c)' \in UpRead(c) + 1 .. UpSent(c), Refused(c) \/ UpRead(c)' = UpRead(c) + 1,
         PhaseOf(c)' = PhaseOf(c), ResultOf(c)' = ResultOf(c), UpSent(c)' = UpSent(c),
         Refused(c)' <=> Refused(c), localClosed'[c] = localClosed[c],
         SawEOF(c)' <=> SawEOF(c), SameDown(c)
  PROVE  AM!HandlerRead(c)
  BY Kept, OneChanges, Values DEF SameAll, SameDown, AM!HandlerRead, AM!downVars

LEMMA IsHandlerEOF ==
  ASSUME NEW c \in Calls, SameAll(c), PhaseOf(c) = "running", ~SawEOF(c), SawEOF(c)',
         Refused(c) \/ (localClosed[c] /\ UpRead(c) = UpSent(c)),
         PhaseOf(c)' = PhaseOf(c), ResultOf(c)' = ResultOf(c), UpSent(c)' = UpSent(c),
         UpRead(c)' = UpRead(c), Refused(c)' <=> Refused(c), localClosed'[c] = localClosed[c],
         SameDown(c)
  PROVE  AM!HandlerEOF(c)
  BY Kept, OneChanges, Values DEF SameAll, SameDown, AM!HandlerEOF, AM!downVars

LEMMA IsHandlerSend ==
  ASSUME NEW c \in Calls, SameAll(c), PhaseOf(c) = "running", PhaseOf(c)' = PhaseOf(c),
         ResultOf(c)' = ResultOf(c), SameUp(c), DownSent(c)' = DownSent(c) + 1,
         DownGot(c)' = DownGot(c)
  PROVE  AM!HandlerSend(c)
  BY Kept, KeptUp, OneChanges, Values DEF SameAll, AM!HandlerSend

\* What the caller is told by a step.
Told(c) ==
  \/ ResultOf(c) = "none" /\ ResultOf(c)' = "failed"
  \/ ResultOf(c) = "none" /\ ResultOf(c)' = "ok" /\ PhaseOf(c) = "answered"
     /\ DownGot(c)' = DownSent(c)

LEMMA IsTold ==
  ASSUME NEW c \in Calls, SameAll(c), Told(c)
  PROVE  AM!Fail(c) \/ AM!Succeed(c)
<1>1. results[c] = "none" /\ results' = [results EXCEPT ![c] = ResultOf(c)']
  BY OneChanges, Values DEF SameAll, Told
<1>2. CASE ResultOf(c)' = "failed"
  BY <1>1, <1>2 DEF AM!Fail
<1>3. CASE ResultOf(c)' # "failed"
  <2>1. ResultOf(c)' = "ok" /\ phases[c] = "answered" /\ downsGot'[c] = downsSent[c]
    BY <1>3, Values DEF SameAll, Told
  <2> QED
    BY <1>1, <2>1 DEF AM!Succeed
<1> QED
  BY <1>2, <1>3

LEMMA IsClientReceives ==
  ASSUME NEW c \in Calls, SameAll(c), DownGot(c) < DownSent(c), DownGot(c)' = DownGot(c) + 1,
         Told(c) \/ ResultOf(c)' = ResultOf(c),
         PhaseOf(c)' = PhaseOf(c), SameUp(c), DownSent(c)' = DownSent(c)
  PROVE  AM!ClientReceives(c)
<1>1. AM!Receive(c)
  BY OneChanges, Values DEF SameAll, AM!Receive
<1>2. AM!Fail(c) \/ AM!Succeed(c) \/ UNCHANGED results
  BY IsTold, Kept
<1> QED
  BY <1>1, <1>2, Kept, KeptUp DEF AM!ClientReceives

LEMMA IsClientEnds ==
  ASSUME NEW c \in Calls, SameAll(c), Told(c), PhaseOf(c)' = PhaseOf(c), SameUp(c), SameDown(c)
  PROVE  AM!ClientEnds(c)
  BY IsTold, Kept, KeptUp DEF SameDown, AM!ClientEnds
-----------------------------------------------------------------------------
(* What the values of a call depend on.                                    *)

serverSide == <<outbox, started, read, refused, sawEOF>>

LEMMA ServerView ==
  ASSUME UNCHANGED serverSide, NEW c \in Calls
  PROVE  /\ DownSent(c)' = DownSent(c) /\ UpRead(c)' = UpRead(c)
         /\ (Refused(c)' <=> Refused(c)) /\ (SawEOF(c)' <=> SawEOF(c))
         /\ (Answered(c)' <=> Answered(c))
<1>1. outbox' = outbox /\ read' = read /\ refused' = refused /\ sawEOF' = sawEOF
  BY DEF serverSide
<1>2. Answers(c)' = Answers(c)
  BY <1>1 DEF Answers
<1> QED
  BY <1>1, <1>2 DEF DownSent, UpRead, Refused, SawEOF, Answered, MessagesUpTo, S!Pushed, S!Terminal

LEMMA PhaseIs ==
  ASSUME NEW c \in Calls
  PROVE  /\ PhaseOf(c) = IF Answered(c) THEN "answered"
                         ELSE IF \E i \in DOMAIN started : started[i] = SidOf[c] THEN "running"
                         ELSE IF Asked(c) THEN "requested" ELSE "new"
         /\ PhaseOf(c)' = IF Answered(c)' THEN "answered"
                          ELSE IF \E i \in DOMAIN started' : started'[i] = SidOf[c] THEN "running"
                          ELSE IF Asked(c)' THEN "requested" ELSE "new"
  BY DEF PhaseOf, Answered, Asked

LEMMA ServerPhase ==
  ASSUME UNCHANGED serverSide, NEW c \in Calls, Asked(c)' <=> Asked(c)
  PROVE  PhaseOf(c)' = PhaseOf(c)
  BY ServerView, PhaseIs DEF serverSide

LEMMA WireView ==
  ASSUME NEW c \in Calls, \A k : OnWire(c, k)' = OnWire(c, k)
  PROVE  UpSent(c)' = UpSent(c) /\ (Asked(c)' <=> Asked(c))
  BY DEF UpSent, Asked, MessagesUpTo, S!Pushed

LEMMA ClientView ==
  ASSUME NEW c \in Calls, SameCall(c)
  PROVE  ResultOf(c)' = ResultOf(c) /\ DownGot(c)' = DownGot(c)
         /\ localClosed'[c] = localClosed[c]
  BY DEF SameCall, ResultOf, DownGot

LEMMA InvClosed ==
  ASSUME Inv, Inv'
  PROVE  ClosedTypes
  BY SameSets DEF Inv, ClientInv, CD!TypeOK, CD!CallTypeOK, ClosedTypes, CD!Calls, Calls

\* A step of one call leaves the server's end, but for its inbox, and the
\* other calls alone.
LEMMA StepAside ==
  ASSUME NEW c \in Calls, StepOf(c)
  PROVE  UNCHANGED serverSide
  BY DEF StepOf, ClientWrites, CallBegins, CallStep, AppStep, CarriedToServer, serverVars,
     serverOwn, serverSide

LEMMA StepWire ==
  ASSUME Inv, NEW c \in Calls, StepOf(c)
  PROVE  \/ wire' = wire
         \/ \E k \in {"request", "data", "close"} :
              wire' = Append(wire, [sid |-> SidOf[c], kind |-> k])
<1>1. CASE ClientWrites(c)
  BY <1>1, SameCreate, SameSend, ClientWritesOne DEF ClientWrites
<1>2. CASE CallBegins(c) \/ CallStep(c) \/ AppStep(c)
  BY <1>2 DEF CallBegins, CallStep, AppStep, C!AcquireSendLock, C!CallStep, C!RegisterStream,
     C!UnaryReceive, C!UnaryFail, C!UnaryReturn, C!RecvMsgFail, C!RecvMsgTake, C!RecvMsgBegin
<1> QED
  BY <1>1, <1>2 DEF StepOf

LEMMA StepAlone ==
  ASSUME Inv, Inv', NEW c \in Calls, StepOf(c)
  PROVE  SameAll(c)
<1>1. ASSUME NEW d \in Calls, d # c PROVE SameView(d)
  <2>1. \A k : OnWire(d, k)' = OnWire(d, k)
    <3>1. CASE wire' = wire
      BY <3>1 DEF OnWire
    <3>2. ASSUME NEW j \in {"request", "data", "close"},
                 wire' = Append(wire, [sid |-> SidOf[c], kind |-> j])
          PROVE  \A k : OnWire(d, k)' = OnWire(d, k)
      <4>1. \A e \in Calls : \A k : e # c \/ k # j => OnWire(e, k)' = OnWire(e, k)
        BY <3>2, WireGrows
      <4> QED
        BY <1>1, <4>1
    <3> QED
      BY <3>1, <3>2, StepWire
  <2>2. SameCall(d)
    BY <1>1, StepOfCall
  <2> QED
    BY <2>1, <2>2, StepAside, ServerView, ServerPhase, WireView, ClientView
    DEF SameView, SameUp, SameDown
<1> QED
  BY <1>1, InvClosed DEF SameAll, Alone

LEMMA NobodySteps ==
  ASSUME Inv, Inv', CallsUnchanged, UNCHANGED serverSide
  PROVE  UNCHANGED AM!vars
<1>1. ASSUME NEW d \in Calls PROVE SameView(d)
  <2>1. \A k : OnWire(d, k)' = OnWire(d, k)
    BY DEF CallsUnchanged, OnWire
  <2>2. SameCall(d)
    BY DEF CallsUnchanged, SameCall
  <2> QED
    BY <2>1, <2>2, ServerView, ServerPhase, WireView, ClientView DEF SameView, SameUp, SameDown
<1> QED
  BY <1>1, InvClosed, Stutters

\* What a step of a call leaves of the values of the call itself.
LEMMA StepKeeps ==
  ASSUME NEW c \in Calls, StepOf(c), wire' = wire
  PROVE  /\ PhaseOf(c)' = PhaseOf(c) /\ DownSent(c)' = DownSent(c)
         /\ UpSent(c)' = UpSent(c) /\ UpRead(c)' = UpRead(c)
         /\ (Refused(c)' <=> Refused(c)) /\ (SawEOF(c)' <=> SawEOF(c))
         /\ localClosed' = localClosed => SameUp(c)
<1>1. \A k : OnWire(c, k)' = OnWire(c, k)
  BY DEF OnWire
<1> QED
  BY <1>1, StepAside, ServerView, ServerPhase, WireView DEF SameUp

LEMMA StepTells ==
  ASSUME Inv, Inv', NEW c \in Calls, StepOf(c), UNCHANGED <<wire, localClosed, got>>,
         Told(c) \/ ResultOf(c)' = ResultOf(c)
  PROVE  AM!ClientEnds(c) \/ UNCHANGED AM!vars
<1>1. DownGot(c)' = DownGot(c)
  BY DEF DownGot
<1>2. SameAll(c) /\ PhaseOf(c)' = PhaseOf(c) /\ SameUp(c) /\ SameDown(c)
  BY <1>1, StepAlone, StepKeeps DEF SameDown
<1>3. CASE Told(c)
  BY <1>2, <1>3, IsClientEnds
<1>4. CASE ResultOf(c)' = ResultOf(c)
  BY <1>2, <1>4, Stutters DEF SameAll, Alone, SameView
<1> QED
  BY <1>3, <1>4
-----------------------------------------------------------------------------
(* The steps of the calls implement those of Abstract.                     *)

\* A call that is under way, and not yet at the end of its stream, was told
\* nothing.
LEMMA NothingTold ==
  ASSUME Inv, NEW c \in Calls, ret[c] = "none", ~remoteClosed[c]
  PROVE  ResultOf(c) = "none"
  BY DEF ResultOf

LEMMA UnderWay ==
  ASSUME Inv, NEW c \in Calls,
         \/ pc[c] \in {"start", "locked", "registered", "recving"}
         \/ c \in Unary /\ pc[c] = "waiting"
  PROVE  ret[c] = "none" /\ ~remoteClosed[c] /\ ResultOf(c) = "none"
<1>1. ret[c] = "none" /\ ~remoteClosed[c]
  BY CallsAssumption DEF Inv, JointInv, ToldOf
<1> QED
  BY <1>1, NothingTold

LEMMA IsFailed ==
  ASSUME Inv, NEW c \in Calls, ResultOf(c) = "none",
         ret'[c] \notin {"none", "response"}, ~remoteClosed'[c]
  PROVE  Told(c)
  BY DEF Told, ResultOf

LEMMA CreateStep ==
  ASSUME Inv, Inv', NEW c \in Calls, StepOf(c), C!AcquireSendLock(c) \/ C!RegisterStream(c)
  PROVE  AM!ClientEnds(c) \/ UNCHANGED AM!vars
<1> USE InvTypes
<1>1. ResultOf(c) = "none" /\ ret[c] = "none" /\ ~remoteClosed[c]
  BY UnderWay DEF C!AcquireSendLock, C!RegisterStream
<1>2. UNCHANGED <<wire, localClosed, got, remoteClosed>>
  BY DEF C!AcquireSendLock, C!RegisterStream
<1>3. CASE ret' = ret
  BY <1>2, <1>3, StepTells DEF ResultOf
<1>4. CASE ret' # ret
  <2>1. ret'[c] = "closed"
    BY <1>4 DEF C!AcquireSendLock, C!RegisterStream
  <2>2. Told(c)
    BY <1>1, <1>2, <2>1, IsFailed
  <2> QED
    BY <1>2, <2>2, StepTells
<1> QED
  BY <1>3, <1>4

LEMMA FailStep ==
  ASSUME Inv, Inv', NEW c \in Calls, StepOf(c), C!UnaryFail(c) \/ C!RecvMsgFail(c)
  PROVE  AM!ClientEnds(c) \/ UNCHANGED AM!vars
<1> USE InvTypes
<1>1. ResultOf(c) = "none" /\ ret[c] = "none" /\ ~remoteClosed[c]
  BY UnderWay DEF C!UnaryFail, C!RecvMsgFail
<1>2. UNCHANGED <<wire, localClosed, got, remoteClosed>>
  BY DEF C!UnaryFail, C!RecvMsgFail
<1>3. recvErr[c] \in CD!Errors
  BY SameSets DEF Inv, ClientInv, CD!TypeOK, CD!StreamTypeOK
<1>4. ret'[c] \notin {"none", "response"}
  <2>1. CASE C!UnaryFail(c)
    <3>1. PICK e \in {"ctx", "closed", recvErr[c]} : C!UnaryGivesUp(c, e) /\ ret'[c] = e
      BY <2>1 DEF C!UnaryFail
    <3> QED
      BY <1>3, <3>1 DEF C!UnaryGivesUp, C!RecvErrReady, CD!Errors
  <2>2. CASE C!RecvMsgFail(c)
    BY <1>3, <2>2 DEF C!RecvMsgFail, C!RecvErrReady, CD!Errors
  <2> QED
    BY <2>1, <2>2
<1>5. Told(c)
  BY <1>1, <1>2, <1>4, IsFailed
<1> QED
  BY <1>2, <1>5, StepTells

\* The application learns the end of a stream once.
LEMMA BeginStep ==
  ASSUME Inv, Inv', NEW c \in Calls, StepOf(c), C!UnaryReturn(c) \/ C!RecvMsgBegin(c)
  PROVE  AM!ClientEnds(c) \/ UNCHANGED AM!vars
<1> USE InvTypes
<1>1. UNCHANGED <<wire, localClosed, got, remoteClosed>>
  BY DEF C!UnaryReturn, C!RecvMsgBegin
<1>2. ResultOf(c)' = ResultOf(c)
  <2>1. CASE ret' = ret
    BY <1>1, <2>1 DEF ResultOf
  <2>2. CASE ret' # ret
    <3>1. pc[c] = "open" /\ c \in Streams /\ remoteClosed[c] /\ ret' = [ret EXCEPT ![c] = "eof"]
      BY <2>2 DEF C!UnaryReturn, C!RecvMsgBegin
    <3>2. ret[c] = "none" /\ c \notin Unary
      BY <3>1, CallsAssumption DEF Inv, JointInv, ToldOf
    <3> QED
      BY <1>1, <3>1, <3>2 DEF ResultOf
  <2> QED
    BY <2>1, <2>2
<1> QED
  BY <1>1, <1>2, StepTells

\* Before its request is on the wire a call is unknown to the server.
LEMMA NotAsked ==
  ASSUME Inv, NEW c \in Calls, ~Asked(c)
  PROVE  /\ PhaseOf(c) = "new" /\ ~Answered(c)
         /\ \A i \in DOMAIN started : started[i] # SidOf[c]
<1>1. ~SD!Asked(SidOf[c])
  BY DEF Inv, JointInv, UpOf, FromClient, SD!Asked
<1>2. hpc[SidOf[c]] = "none" /\ SidOf[c] \in SD!Sids
  BY <1>1, InvTypes DEF Inv, ServerInv, SD!SourceInv
<1>3. \A i \in DOMAIN started : started[i] # SidOf[c]
  BY <1>2 DEF Inv, ServerInv, SD!AnswerInv, SD!AnswerOK
<1>4. ~Answered(c)
  BY <1>2, AnsweredIsEnded DEF Inv, ServerInv, SD!AnswerInv, SD!AnswerOK
<1> QED
  BY <1>3, <1>4, PhaseIs

LEMMA RequestStep ==
  ASSUME Inv, Inv', NEW c \in Calls, ClientWrites(c), C!SendRequest(c)
  PROVE  AM!Request(c) \/ AM!ClientEnds(c) \/ UNCHANGED AM!vars
<1> USE InvTypes
<1>1. ResultOf(c) = "none" /\ ret[c] = "none" /\ ~remoteClosed[c] /\ pc[c] = "registered"
  BY UnderWay DEF C!SendRequest
<1>2. UNCHANGED <<localClosed, got, remoteClosed>> /\ StepOf(c)
  BY DEF C!SendRequest, StepOf
<1>3. CASE C!RequestFailed(c)
  <2>1. wire' = wire /\ ret'[c] = "sendFailed"
    BY <1>3 DEF C!RequestFailed
  <2>2. Told(c)
    BY <1>1, <1>2, <2>1, IsFailed
  <2> QED
    BY <1>2, <2>1, <2>2, StepTells
<1>4. CASE C!RequestWritten(c)
  <2>1. /\ sid[c] = SidOf[c] /\ ret' = ret
        /\ wire' = Append(wire, [sid |-> SidOf[c], kind |-> "request"])
    <3>1. sid[c] = SidOf[c]
      BY <1>1, SameSets DEF Inv, ClientInv, JointInv, CD!IdInv, Ids
    <3> QED
      BY <1>4, <3>1 DEF C!RequestWritten
  <2>2. \A k : OnWire(c, k) = {}
    BY <1>1, <2>1, SameSets DEF Inv, ClientInv, CD!WireInv, OnWire
  <2>3. OnWire(c, "request")' # {} /\ OnWire(c, "data")' = {}
    <3> PICK k \in {"request", "data", "close"} : k = "request"
      OBVIOUS
    <3>1. wire' = Append(wire, [sid |-> SidOf[c], kind |-> k])
      BY <2>1
    <3>2. /\ OnWire(c, k)' = OnWire(c, k) \cup {Len(wire) + 1}
          /\ \A d \in Calls : \A j : d # c \/ j # k => OnWire(d, j)' = OnWire(d, j)
      BY <3>1, WireGrows
    <3> QED
      BY <2>2, <3>2
  <2>4. UpSent(c) = 0 /\ (UpSent(c)' = 0 \/ UpSent(c)' = 1)
    <3>1. Cardinality(OnWire(c, "data"))' = 0
      BY <2>3, FS_EmptySet
    <3>2. UpSent(c)' = IF S!Pushed(SidOf[c]) THEN 1 + 0 ELSE 1 + 0 - 1
      BY <2>3, <3>1 DEF UpSent, MessagesUpTo, S!Pushed
    <3> QED
      BY <2>2, <3>2 DEF UpSent
  <2>5. PhaseOf(c) = "new" /\ PhaseOf(c)' = "requested"
    <3>1. ~Answered(c) /\ (\A i \in DOMAIN started : started[i] # SidOf[c])
          /\ PhaseOf(c) = "new"
      BY <2>2, NotAsked DEF Asked
    <3>2. ~Answered(c)' /\ started' = started /\ Asked(c)'
      BY <1>2, <2>3, <3>1, StepAside, ServerView DEF serverSide, Asked
    <3> QED
      BY <3>1, <3>2, PhaseIs
  <2>6. ResultOf(c)' = ResultOf(c) /\ DownGot(c)' = DownGot(c)
    BY <1>2, <2>1 DEF ResultOf, DownGot
  <2>7. /\ SameAll(c) /\ UpRead(c)' = UpRead(c) /\ (Refused(c)' <=> Refused(c))
        /\ (SawEOF(c)' <=> SawEOF(c)) /\ SameDown(c) /\ localClosed'[c] = localClosed[c]
    BY <1>2, <2>6, StepAlone, StepAside, ServerView DEF SameDown
  <2> QED
    BY <2>4, <2>5, <2>6, <2>7, IsRequest
<1> QED
  BY <1>3, <1>4 DEF C!SendRequest

LEMMA UpToRises ==
  ASSUME NEW c \in Calls, NEW n \in Nat
  PROVE  MessagesUpTo(c, n) \in Int /\ MessagesUpTo(c, n + 1) = MessagesUpTo(c, n) + 1
<1>1. CASE S!Pushed(SidOf[c])
  BY <1>1 DEF MessagesUpTo
<1>2. CASE ~S!Pushed(SidOf[c])
  BY <1>2 DEF MessagesUpTo
<1> QED
  BY <1>1, <1>2

LEMMA SendStep ==
  ASSUME Inv, Inv', NEW c \in Calls, ClientWrites(c), C!SendMsg(c) \/ C!CloseSend(c)
  PROVE  AM!ClientSend(c) \/ AM!ClientClose(c)
<1> PICK k \in {"data", "close"} : k = IF C!SendMsg(c) THEN "data" ELSE "close"
  OBVIOUS
<1>1. /\ CD!Send(c, k)
      /\ localClosed' = IF k = "close" THEN [localClosed EXCEPT ![c] = TRUE] ELSE localClosed
      /\ UNCHANGED <<ret, got, remoteClosed>>
  <2>1. CASE C!SendMsg(c)
    BY <2>1, SameSend DEF CD!SendMsg, CD!appVars
  <2>2. CASE ~C!SendMsg(c)
    BY <2>2, SameSend DEF CD!CloseSend
  <2> QED
    BY <2>1, <2>2
<1>2. /\ Asked(c) /\ ~localClosed[c] /\ wire' = Append(wire, [sid |-> SidOf[c], kind |-> k])
  BY <1>1, SendsMessage
<1>3. /\ OnWire(c, "request")' = OnWire(c, "request")
      /\ Cardinality(OnWire(c, k))' = Cardinality(OnWire(c, k)) + 1
      /\ k # "data" => OnWire(c, "data")' = OnWire(c, "data")
  BY <1>2, WireGrows
<1>4. Asked(c)' /\ PhaseOf(c) # "new"
  BY <1>2, <1>3, PhaseIs DEF Asked
<1>5. StepOf(c)
  BY DEF StepOf
<1>6. PhaseOf(c)' = PhaseOf(c)
  BY <1>2, <1>4, <1>5, StepAside, ServerPhase
<1>7. ResultOf(c)' = ResultOf(c) /\ DownGot(c)' = DownGot(c)
  BY <1>1 DEF ResultOf, DownGot
<1>8. /\ SameAll(c) /\ UpRead(c)' = UpRead(c) /\ (Refused(c)' <=> Refused(c))
      /\ (SawEOF(c)' <=> SawEOF(c)) /\ SameDown(c)
  BY <1>5, <1>7, StepAlone, StepAside, ServerView DEF SameDown
<1>9. CASE k = "data"
  <2>1. DataSent(c) \in Nat /\ Cardinality(OnWire(c, "data"))' = DataSent(c) + 1
    BY <1>3, <1>9, UpTypes DEF DataSent
  <2>2. UpSent(c)' = UpSent(c) + 1
    <3>1. UpSent(c)' = MessagesUpTo(c, (1 + DataSent(c)) + 1)
      <4>1. UpSent(c)' = MessagesUpTo(c, 1 + (DataSent(c) + 1))
        BY <1>4, <2>1 DEF UpSent, MessagesUpTo, Asked, S!Pushed
      <4>2. 1 + (DataSent(c) + 1) = (1 + DataSent(c)) + 1
        BY <2>1
      <4> QED
        BY <4>1, <4>2
    <3>2. UpSent(c) = MessagesUpTo(c, 1 + DataSent(c)) /\ 1 + DataSent(c) \in Nat
      BY <1>2, <2>1 DEF UpSent, Asked, DataSent
    <3> PICK m \in Nat : m = 1 + DataSent(c)
      BY <3>2
    <3>3. UpSent(c)' = MessagesUpTo(c, m + 1) /\ UpSent(c) = MessagesUpTo(c, m)
      BY <3>1, <3>2
    <3>4. MessagesUpTo(c, m + 1) = MessagesUpTo(c, m) + 1
      BY UpToRises, Zenon
    <3> QED
      BY <3>3, <3>4
  <2> QED
    BY <1>1, <1>2, <1>4, <1>6, <1>7, <1>8, <1>9, <2>2, IsClientSend
<1>10. CASE k = "close"
  <2>1. UpSent(c)' = UpSent(c)
    BY <1>3, <1>10 DEF UpSent, MessagesUpTo, S!Pushed
  <2>2. localClosed'[c]
    BY <1>1, <1>10, InvTypes
  <2> QED
    BY <1>2, <1>4, <1>6, <1>7, <1>8, <2>1, <2>2, IsClientClose
<1> QED
  BY <1>9, <1>10

\* What a call receives is what comes next of what its handler sent.
LEMMA Received ==
  ASSUME Inv, NEW c \in Calls, recv[c] # <<>>, NEW f, f = Head(recv[c]),
         got' = [got EXCEPT ![c] = Append(@, f)]
  PROVE  /\ Last(got'[c]) = f /\ f \in CD!Frames
         /\ f.kind = "err" => DownGot(c)' = DownGot(c)
         /\ f.kind # "err" => DownGot(c)' = DownGot(c) + 1 /\ DownGot(c) < DownSent(c)
         /\ f.kind \in {"ok", "dataClose", "close"} => Answered(c) /\ DownGot(c)' = DownSent(c)
<1> USE InvTypes
<1>1. /\ CD!CallDelivery(c) /\ recv[c] \in Seq(CD!Frames) /\ got[c] \in Seq(CD!Frames)
  BY SameSets DEF Inv, ClientInv, CD!DeliveryInv, CD!TypeOK, CD!StreamTypeOK
<1>2. sid[c] = SidOf[c] /\ CD!Prefix(c)
  BY <1>1 DEF CD!CallDelivery, Inv, JointInv, Ids
<1> PICK q : q = FromServer(c)
  OBVIOUS
<1> PICK g \in Seq(CD!Frames) : g = got[c]
  BY <1>1
<1> PICK l \in Nat : l = Len(g)
  OBVIOUS
<1>3. f \in CD!Frames /\ Len(recv[c]) \in Nat /\ Len(recv[c]) >= 1 /\ f = recv[c][1]
  BY <1>1
<1>4. /\ l + Len(recv[c]) <= Len(q) /\ \A k \in 1 .. l : g[k] = q[k]
      /\ \A k \in 1 .. Len(recv[c]) : recv[c][k] = q[l + k]
  BY <1>2 DEF CD!Prefix, CD!Arrived, FromServer
<1>5. f = q[l + 1] /\ l + 1 <= Len(q) /\ Len(q) \in Nat /\ DOMAIN q = 1 .. Len(q)
  <2>1. Len(q) \in Nat /\ DOMAIN q = 1 .. Len(q)
    BY DownTypes
  <2>2. 1 \in 1 .. Len(recv[c]) /\ l + 1 <= Len(q)
    BY <1>3, <1>4, <2>1
  <2> QED
    BY <1>3, <1>4, <2>1, <2>2
<1>6. got'[c] = Append(g, f)
  OBVIOUS
<1>7. Last(got'[c]) = f
  BY <1>3, <1>6, LastAppended
<1>8. /\ DOMAIN g = 1 .. l /\ DOMAIN got'[c] = 1 .. l + 1
      /\ \A k \in 1 .. l + 1 : got'[c][k] = q[k]
  <2>1. /\ DOMAIN g = 1 .. l /\ DOMAIN got'[c] = 1 .. l + 1 /\ got'[c][l + 1] = f
        /\ \A k \in 1 .. l : got'[c][k] = g[k]
    BY <1>3, <1>6
  <2>2. \A k \in 1 .. l + 1 : k \in 1 .. l \/ k = l + 1
    OBVIOUS
  <2> QED
    BY <1>4, <1>5, <2>1, <2>2
<1>9. DownGot(c) = Cardinality(NoErrors(q, l)) /\ DownGot(c)' = Cardinality(NoErrors(q, l + 1))
  <2>1. {i \in DOMAIN got[c] : got[c][i].kind # "err"} = NoErrors(q, l)
    BY <1>4, <1>8 DEF NoErrors
  <2>2. {i \in DOMAIN got'[c] : got'[c][i].kind # "err"} = NoErrors(q, l + 1)
    <3>1. DOMAIN got'[c] = 1 .. l + 1 /\ \A i \in 1 .. l + 1 : got'[c][i].kind = q[i].kind
      BY <1>8
    <3> QED
      BY <3>1 DEF NoErrors
  <2> QED
    BY <2>1, <2>2 DEF DownGot
<1>10. /\ Cardinality(NoErrors(q, l)) \in Nat
       /\ Cardinality(NoErrors(q, l + 1)) =
            Cardinality(NoErrors(q, l)) + (IF f.kind # "err" THEN 1 ELSE 0)
  <2>1. /\ Cardinality(NoErrors(q, l)) \in Nat
        /\ Cardinality(NoErrors(q, l + 1)) =
             Cardinality(NoErrors(q, l)) + (IF q[l + 1].kind # "err" THEN 1 ELSE 0)
    BY NoErrorsCount
  <2> QED
    BY <1>5, <2>1
<1>11. Cardinality(NoErrors(q, l + 1)) <= DownSent(c) /\ DownSent(c) \in Nat
  <2>1. Cardinality(NoErrors(q, l + 1)) <= Cardinality(NoErrors(q, Len(q)))
        /\ Cardinality(NoErrors(q, Len(q))) \in Nat
    <3>1. l + 1 \in 0 .. Len(q)
      BY <1>5
    <3> QED
      BY <1>5, <3>1, NoErrorsCount
  <2>2. Cardinality(NoErrors(q, Len(q))) <= DownSent(c) /\ DownSent(c) \in Nat
    BY DownTypes DEF Inv, JointInv, DownOf, DownSent
  <2>3. Cardinality(NoErrors(q, l + 1)) \in Nat
    BY <1>10
  <2> QED
    BY <2>1, <2>2, <2>3
<1>12. f.kind \in {"ok", "dataClose", "close"} =>
         Answered(c) /\ Cardinality(NoErrors(q, l + 1)) = DownSent(c)
  <2>1. l + 1 \in DOMAIN q
    BY <1>5
  <2> QED
    BY <1>5, <2>1 DEF Inv, JointInv, DownOf, DownSent
<1>13. f.kind = "err" => DownGot(c)' = DownGot(c)
  BY <1>9, <1>10
<1>14. f.kind # "err" => DownGot(c)' = DownGot(c) + 1 /\ DownGot(c) < DownSent(c)
  <2> SUFFICES ASSUME f.kind # "err"
               PROVE  DownGot(c)' = DownGot(c) + 1 /\ DownGot(c) < DownSent(c)
    OBVIOUS
  <2>1. Cardinality(NoErrors(q, l + 1)) = Cardinality(NoErrors(q, l)) + 1
    BY <1>10
  <2> QED
    BY <1>9, <1>10, <1>11, <2>1
<1> QED
  BY <1>3, <1>7, <1>9, <1>12, <1>13, <1>14

\* A call takes a frame: what it is told follows from the kind of the frame.
LEMMA TakeStep ==
  ASSUME Inv, Inv', NEW c \in Calls, StepOf(c), recv[c] # <<>>, NEW f, f = Head(recv[c]),
         got' = [got EXCEPT ![c] = Append(@, f)], UNCHANGED <<wire, localClosed>>,
         ResultOf(c) = "none",
         ResultOf(c)' = "failed" \/ (ResultOf(c)' = "none" /\ f.kind # "err")
           \/ (ResultOf(c)' = "ok" /\ f.kind \in {"ok", "dataClose", "close"})
  PROVE  AM!ClientReceives(c) \/ AM!ClientEnds(c)
<1>1. /\ SameAll(c) /\ PhaseOf(c)' = PhaseOf(c) /\ SameUp(c) /\ DownSent(c)' = DownSent(c)
  BY StepAlone, StepKeeps
<1>2. /\ f.kind = "err" => DownGot(c)' = DownGot(c)
      /\ f.kind # "err" => DownGot(c)' = DownGot(c) + 1 /\ DownGot(c) < DownSent(c)
      /\ f.kind \in {"ok", "dataClose", "close"} => Answered(c) /\ DownGot(c)' = DownSent(c)
  BY Received
<1>3. ResultOf(c)' = "none" \/ Told(c)
  BY <1>2, PhaseIs DEF Told
<1>4. CASE f.kind = "err"
  <2>1. Told(c) /\ SameDown(c)
    BY <1>1, <1>2, <1>3, <1>4 DEF SameDown
  <2> QED
    BY <1>1, <2>1, IsClientEnds
<1>5. CASE f.kind # "err"
  BY <1>1, <1>2, <1>3, <1>5, IsClientReceives
<1> QED
  BY <1>4, <1>5

LEMMA ReceiveStep ==
  ASSUME Inv, Inv', NEW c \in Calls, StepOf(c), C!UnaryReceive(c) \/ C!RecvMsgTake(c)
  PROVE  AM!ClientReceives(c) \/ AM!ClientEnds(c)
<1> USE InvTypes
<1>1. ResultOf(c) = "none" /\ ret[c] = "none" /\ ~remoteClosed[c]
  BY UnderWay DEF C!UnaryReceive, C!RecvMsgTake
<1> PICK f : f = Head(recv[c])
  OBVIOUS
<1>2. /\ recv[c] # <<>> /\ got' = [got EXCEPT ![c] = Append(@, f)]
      /\ UNCHANGED <<wire, localClosed>>
  BY DEF C!UnaryReceive, C!RecvMsgTake
<1>3. Last(got'[c]) = f /\ f \in CD!Frames
  BY <1>2, Received
<1>4. \/ ResultOf(c)' = "failed" \/ (ResultOf(c)' = "none" /\ f.kind # "err")
      \/ (ResultOf(c)' = "ok" /\ f.kind \in {"ok", "dataClose", "close"})
  <2>1. CASE C!UnaryReceive(c)
    <3>1. /\ c \in Unary /\ c \notin Streams
          /\ ret'[c] = IF f.kind \in {"ok", "err"} THEN "response" ELSE "protocol"
      BY <2>1, CallsAssumption DEF C!UnaryReceive, C!Responses
    <3>2. CASE f.kind = "ok"
      BY <1>3, <3>1, <3>2 DEF ResultOf
    <3>3. CASE f.kind # "ok"
      BY <1>3, <3>1, <3>3 DEF ResultOf
    <3> QED
      BY <3>2, <3>3
  <2>2. CASE C!RecvMsgTake(c)
    <3>1. c \in Streams /\ c \notin Unary
      BY <2>2, CallsAssumption DEF C!RecvMsgTake
    <3>2. /\ ret'[c] = C!RecvMsgError(c, f)
          /\ remoteClosed'[c] <=> C!IsFinal(c, f)
      BY <1>1, <2>2 DEF C!RecvMsgTake
    <3>3. CASE f.kind = "err"
      BY <1>3, <3>1, <3>2, <3>3 DEF C!RecvMsgError, C!IsFinal, C!Responses, C!RemoteClosedFlag,
         ResultOf
    <3>4. CASE f.kind = "ok"
      BY <1>3, <3>1, <3>2, <3>4 DEF C!RecvMsgError, C!IsFinal, C!Responses, C!RemoteClosedFlag,
         ResultOf
    <3>5. CASE f.kind \notin {"ok", "err"} /\ c \notin StreamingServer
      BY <1>3, <3>1, <3>2, <3>5 DEF C!RecvMsgError, C!IsFinal, C!Responses, C!RemoteClosedFlag,
         ResultOf
    <3>6. CASE f.kind \notin {"ok", "err"} /\ c \in StreamingServer
      <4>1. CASE f.kind \in {"dataClose", "close"}
        BY <1>3, <3>1, <3>2, <3>6, <4>1 DEF C!RecvMsgError, C!IsFinal, C!Responses,
           C!RemoteClosedFlag, ResultOf
      <4>2. CASE f.kind \notin {"dataClose", "close"}
        BY <1>3, <3>1, <3>2, <3>6, <4>2 DEF C!RecvMsgError, C!IsFinal, C!Responses,
           C!RemoteClosedFlag, ResultOf
      <4> QED
        BY <4>1, <4>2
    <3> QED
      BY <3>3, <3>4, <3>5, <3>6
  <2> QED
    BY <2>1, <2>2
<1> QED
  BY <1>1, <1>2, <1>4, TakeStep

\* Whatever a call does.
LEMMA CallImplements ==
  ASSUME Inv, Inv', NEW c \in Calls, StepOf(c)
  PROVE  AM!Next \/ UNCHANGED AM!vars
<1>1. CASE ClientWrites(c)
  <2>1. AM!Request(c) \/ AM!ClientEnds(c) \/ AM!ClientSend(c) \/ AM!ClientClose(c)
        \/ UNCHANGED AM!vars
    BY <1>1, RequestStep, SendStep DEF ClientWrites
  <2> QED
    BY <2>1 DEF AM!Next
<1>2. CASE CallBegins(c) \/ CallStep(c) \/ AppStep(c)
  <2>1. \/ C!AcquireSendLock(c) \/ C!RegisterStream(c) \/ C!UnaryFail(c) \/ C!RecvMsgFail(c)
        \/ C!UnaryReturn(c) \/ C!RecvMsgBegin(c) \/ C!UnaryReceive(c) \/ C!RecvMsgTake(c)
    BY <1>2 DEF CallBegins, CallStep, AppStep, C!CallStep
  <2>2. AM!ClientReceives(c) \/ AM!ClientEnds(c) \/ UNCHANGED AM!vars
    BY <2>1, CreateStep, FailStep, BeginStep, ReceiveStep
  <2> QED
    BY <2>2 DEF AM!Next
<1> QED
  BY <1>1, <1>2 DEF StepOf
-----------------------------------------------------------------------------
(* The steps of the server's end implement those of Abstract.              *)

LEMMA CallsAside ==
  ASSUME CallsUnchanged, NEW c \in Calls
  PROVE  /\ ResultOf(c)' = ResultOf(c) /\ DownGot(c)' = DownGot(c) /\ UpSent(c)' = UpSent(c)
         /\ localClosed' = localClosed /\ (Asked(c)' <=> Asked(c))
<1>1. SameCall(c) /\ \A k : OnWire(c, k)' = OnWire(c, k)
  BY DEF CallsUnchanged, SameCall, OnWire
<1> QED
  BY <1>1, WireView, ClientView DEF CallsUnchanged

LEMMA ClientAside ==
  ASSUME UNCHANGED clientVars, NEW c \in Calls
  PROVE  /\ ResultOf(c)' = ResultOf(c) /\ DownGot(c)' = DownGot(c) /\ UpSent(c)' = UpSent(c)
         /\ localClosed' = localClosed /\ (Asked(c)' <=> Asked(c)) /\ CallsUnchanged
<1>1. CallsUnchanged
  BY DEF clientVars, clientOwn, CallsUnchanged
<1> QED
  BY <1>1, CallsAside

\* A step that only changes what the server has of one stream.
LEMMA ServerAlone ==
  ASSUME Inv, Inv', UNCHANGED <<clientVars, outbox>>, NEW c \in Calls,
         \A s : s # SidOf[c] =>
           /\ read'[s] = read[s] /\ (s \in refused' <=> s \in refused)
           /\ (s \in sawEOF' <=> s \in sawEOF)
           /\ (\E i \in DOMAIN started' : started'[i] = s)
                <=> (\E i \in DOMAIN started : started[i] = s)
  PROVE  SameAll(c)
<1>1. ASSUME NEW d \in Calls, d # c PROVE SameView(d)
  <2>1. SidOf[d] # SidOf[c]
    BY <1>1, SidOfAssumption
  <2>2. Answers(d)' = Answers(d)
    BY DEF Answers
  <2>3. DownSent(d)' = DownSent(d) /\ (Answered(d)' <=> Answered(d))
    BY <2>2 DEF DownSent, Answered, S!Terminal
  <2>4. read'[SidOf[d]] = read[SidOf[d]]
    BY <2>1
  <2>5. UpRead(d)' = UpRead(d)
    BY <2>4 DEF UpRead, MessagesUpTo, S!Pushed
  <2>6. (Refused(d)' <=> Refused(d)) /\ (SawEOF(d)' <=> SawEOF(d))
    BY <2>1 DEF Refused, SawEOF
  <2>7. PhaseOf(d)' = PhaseOf(d)
    BY <2>1, <2>3, ClientAside, PhaseIs
  <2> QED
    BY <2>3, <2>5, <2>6, <2>7, ClientAside DEF SameView, SameUp, SameDown
<1> QED
  BY <1>1, InvClosed DEF SameAll, Alone

LEMMA ReceiverChanges ==
  ASSUME S!Receiver
  PROVE  /\ UNCHANGED <<outbox, read, sawEOF>>
         /\ \/ UNCHANGED <<refused, started>>
            \/ started' = started /\ \E s : refused' = refused \cup {s}
            \/ /\ refused' = refused
               /\ \E s : /\ started' = Append(started, s) /\ ~(s <= lastStreamID)
                         /\ hpc' = [hpc EXCEPT ![s] = "running"]
<1>1. CASE S!ReceiverTop
  BY <1>1 DEF S!ReceiverTop, S!handlerVars
<1>2. CASE S!ReceiveMalformed \/ S!ReceiveOther
  BY <1>2 DEF S!ReceiveMalformed, S!ReceiveOther, S!TakeFrame, S!Refuse, S!Proceed, S!handlerVars
<1>3. CASE S!ReceiveData
  BY <1>3 DEF S!ReceiveData, S!TakeFrame, S!Refuse, S!Proceed, S!handlerVars
<1>4. CASE S!ReceiveRequest
  BY <1>4 DEF S!ReceiveRequest, S!TakeFrame, S!IdRefused, S!StartHandler, S!Refuse
<1>5. CASE S!DataAccepted
  BY <1>5 DEF S!DataAccepted, S!Refuse, S!Proceed, S!handlerVars
<1>6. CASE S!DataAborted \/ S!DataWaits \/ S!DataFull
  BY <1>6 DEF S!DataAborted, S!DataWaits, S!DataFull, S!FullRefused, S!Refuse, S!receiverOnly,
     S!handlerVars
<1>7. CASE S!StoreStream \/ S!CountStream \/ S!StatusAborted \/ S!ReceiveFails
  BY <1>7 DEF S!StoreStream, S!CountStream, S!StatusAborted, S!ReceiveFails, S!Proceed,
     S!receiverOnly, S!handlerVars
<1> QED
  BY <1>1, <1>2, <1>3, <1>4, <1>5, <1>6, <1>7 DEF S!Receiver

\* Whatever the connection does about a call, its request was sent.
LEMMA AskedFirst ==
  ASSUME Inv, NEW c \in Calls, SidOf[c] \in refused \/ hpc[SidOf[c]] # "none"
  PROVE  Asked(c)
<1>1. SD!Asked(SidOf[c])
  BY InvTypes DEF Inv, ServerInv, SD!SourceInv
<1> QED
  BY <1>1 DEF SD!Asked, Inv, JointInv, UpOf, FromClient

LEMMA ReceiverImplements ==
  ASSUME Inv, Inv', Receiver
  PROVE  AM!Next \/ UNCHANGED AM!vars
<1> USE InvTypes
<1>1. UNCHANGED clientVars /\ S!Receiver /\ UNCHANGED <<outbox, read, sawEOF>>
  BY ReceiverChanges DEF Receiver
<1>2. CASE UNCHANGED <<refused, started>>
  BY <1>1, <1>2, NobodySteps, ClientAside DEF serverSide, clientVars, clientOwn, CallsUnchanged
<1>3. ASSUME NEW s, refused' = refused \cup {s}, started' = started
      PROVE  AM!Next \/ UNCHANGED AM!vars
  <2>1. CASE s \in refused
    <3>1. refused' = refused
      BY <1>3, <2>1
    <3> QED
      BY <1>2, <1>3, <3>1
  <2>2. CASE s \notin refused
    <3>1. s \in SD!Sids
      BY <1>3 DEF Inv, ServerInv, SD!TypeOK, SD!ReceiverTypeOK
    <3>2. PICK c \in Calls : s = SidOf[c]
      BY <3>1, SameSets DEF SidsOf
    <3>3. SameAll(c)
      BY <1>1, <1>3, <3>2, ServerAlone
    <3>4. Asked(c)'
      <4>1. SD!Asked(SidOf[c])'
        BY <1>3, <3>2 DEF Inv, ServerInv, SD!SourceInv
      <4> QED
        BY <4>1 DEF SD!Asked, Inv, JointInv, UpOf, FromClient
    <3>5. PhaseOf(c) # "new"
      BY <1>1, <3>4, ClientAside, PhaseIs
    <3>6. Answers(c)' = Answers(c)
      BY <1>1 DEF Answers
    <3>7. DownSent(c)' = DownSent(c) /\ (Answered(c)' <=> Answered(c))
      BY <1>1, <3>6 DEF DownSent, Answered, S!Terminal
    <3>8. PhaseOf(c)' = PhaseOf(c) /\ SameDown(c)
      BY <1>1, <1>3, <3>7, ClientAside, PhaseIs DEF SameDown
    <3>9. UpRead(c)' = UpRead(c) /\ (SawEOF(c)' <=> SawEOF(c))
      BY <1>1 DEF UpRead, SawEOF, MessagesUpTo, S!Pushed
    <3>10. ~Refused(c) /\ Refused(c)'
      BY <1>3, <2>2, <3>2 DEF Refused
    <3>11. AM!Refuse(c)
      BY <1>1, <3>3, <3>5, <3>8, <3>9, <3>10, ClientAside, IsRefuse
    <3> QED
      BY <3>11 DEF AM!Next
  <2> QED
    BY <2>1, <2>2
<1>4. ASSUME NEW s, refused' = refused, started' = Append(started, s), ~(s <= lastStreamID),
             hpc' = [hpc EXCEPT ![s] = "running"]
      PROVE  AM!Next
  <2>1. started \in Seq(SD!Sids) /\ Append(started, s) \in Seq(SD!Sids)
    BY <1>4 DEF Inv, ServerInv, SD!TypeOK, SD!ReceiverTypeOK
  <2>2. /\ Len(started) \in Nat /\ DOMAIN started' = 1 .. Len(started) + 1
        /\ started'[Len(started) + 1] = s /\ DOMAIN started = 1 .. Len(started)
        /\ \A i \in 1 .. Len(started) : started'[i] = started[i]
    BY <1>4, <2>1
  <2>3. s \in SD!Sids
    <3>1. started' \in Seq(SD!Sids) /\ Len(started) + 1 \in DOMAIN started'
      BY <1>4, <2>1, <2>2
    <3> QED
      BY <2>2, <3>1
  <2>4. PICK c \in Calls : s = SidOf[c]
    BY <2>3, SameSets DEF SidsOf
  <2>5. SameAll(c)
    <3>1. \A t : t # s => ((\E i \in DOMAIN started' : started'[i] = t)
                            <=> (\E i \in DOMAIN started : started[i] = t))
      <4>1. \A i \in 1 .. Len(started) + 1 : i \in 1 .. Len(started) \/ i = Len(started) + 1
        BY <2>2
      <4>2. \A i \in 1 .. Len(started) : i \in 1 .. Len(started) + 1
        BY <2>2
      <4> QED
        BY <2>2, <4>1, <4>2
    <3> QED
      BY <1>1, <1>4, <2>4, <3>1, ServerAlone
  <2>6. \A i \in DOMAIN started : started[i] # s
    BY <1>4 DEF Inv, ServerInv, SD!OrderInv
  <2>7. ~Answered(c)
    <3>1. hpc[s] = "none"
      BY <2>3, <2>6 DEF Inv, ServerInv, SD!AnswerInv, SD!AnswerOK
    <3> QED
      BY <2>3, <2>4, <3>1, AnsweredIsEnded DEF Inv, ServerInv, SD!AnswerInv, SD!AnswerOK
  <2>8. Asked(c)
    <3>1. hpc'[s] = "running"
      BY <1>4, <2>3 DEF Inv, ServerInv, SD!TypeOK, SD!HandlerTypeOK
    <3>2. SD!Asked(s)'
      BY <2>3, <3>1 DEF Inv, ServerInv, SD!SourceInv
    <3>3. Asked(c)'
      BY <2>4, <3>2 DEF SD!Asked, Inv, JointInv, UpOf, FromClient
    <3> QED
      BY <1>1, <3>3, ClientAside
  <2>9. Answers(c)' = Answers(c)
    BY <1>1 DEF Answers
  <2>10. DownSent(c)' = DownSent(c) /\ (Answered(c)' <=> Answered(c))
    BY <1>1, <2>9 DEF DownSent, Answered, S!Terminal
  <2>11. PhaseOf(c) = "requested" /\ PhaseOf(c)' = "running"
    <3>1. \E i \in DOMAIN started' : started'[i] = SidOf[c]
      BY <2>2, <2>4
    <3> QED
      BY <2>4, <2>6, <2>7, <2>8, <2>10, <3>1, PhaseIs
  <2>12. SameUp(c)
    BY <1>1, <1>4, ClientAside DEF SameUp, UpRead, Refused, SawEOF, MessagesUpTo, S!Pushed
  <2>13. AM!Start(c)
    BY <1>1, <2>5, <2>10, <2>11, <2>12, ClientAside, IsStart DEF SameDown
  <2> QED
    BY <2>13 DEF AM!Next
<1> QED
  BY <1>1, <1>2, <1>3, <1>4, ReceiverChanges

LEMMA MainChanges ==
  ASSUME Main
  PROVE  CallsUnchanged /\ UNCHANGED <<read, sawEOF, refused, started>>
<1>1. CallsUnchanged
  BY DEF Main, CarriedToClient, clientVars, clientOwn, CallsUnchanged
<1>2. UNCHANGED <<read, sawEOF, refused, started>>
  BY DEF Main, S!Main, S!MainTop, S!TakeStatus, S!TakeResponse, S!WriteResponse, S!FinishStream,
     S!TakeRecvErr, S!MainShutdown, S!mainOnly, S!recvVars, S!handlerVars
<1> QED
  BY <1>1, <1>2

LEMMA MainImplements ==
  ASSUME Inv, Inv', Main
  PROVE  AM!Next \/ UNCHANGED AM!vars
<1>1. SD!Main /\ CarriedToClient
  BY SameSteps DEF Main
<1>2. CASE outbox' = outbox
  BY <1>2, MainChanges, NobodySteps DEF serverSide
<1>3. CASE outbox' # outbox
  <2>1. /\ outbox' = Append(outbox, mresp) /\ mresp \in SD!Responses /\ SD!WriteResponse
        /\ \E c \in Calls : mresp.sid = SidOf[c]
    BY <1>1, <1>3, RunWrites
  <2>2. PICK c \in Calls : mresp.sid = SidOf[c]
    BY <2>1
  <2>3. /\ \A d \in Calls : d # c => Answers(d)' = Answers(d) /\ (Answered(d)' <=> Answered(d))
        /\ mresp.kind = "status" => Answers(c)' = Answers(c) /\ (Answered(c)' <=> Answered(c))
        /\ mresp.kind # "status" =>
             /\ Cardinality(Answers(c))' = Cardinality(Answers(c)) + 1
             /\ Answered(c)' <=> Answered(c) \/ mresp.kind \in S!Terminal
    BY <2>1, <2>2, AnswersGrow
  <2>4. ASSUME NEW d \in Calls
        PROVE  /\ ResultOf(d)' = ResultOf(d) /\ DownGot(d)' = DownGot(d) /\ SameUp(d)
               /\ (Answered(d)' <=> Answered(d)) => PhaseOf(d)' = PhaseOf(d)
    <3>1. /\ ResultOf(d)' = ResultOf(d) /\ DownGot(d)' = DownGot(d) /\ UpSent(d)' = UpSent(d)
          /\ localClosed' = localClosed /\ (Asked(d)' <=> Asked(d))
      BY MainChanges, CallsAside
    <3>2. UpRead(d)' = UpRead(d) /\ (Refused(d)' <=> Refused(d)) /\ (SawEOF(d)' <=> SawEOF(d))
      BY MainChanges DEF UpRead, Refused, SawEOF, MessagesUpTo, S!Pushed
    <3>3. (Answered(d)' <=> Answered(d)) => PhaseOf(d)' = PhaseOf(d)
      BY <3>1, MainChanges, PhaseIs
    <3> QED
      BY <3>1, <3>2, <3>3 DEF SameUp
  <2>5. ASSUME NEW d \in Calls, Answers(d)' = Answers(d), Answered(d)' <=> Answered(d)
        PROVE  SameView(d)
    BY <2>4, <2>5 DEF SameView, SameDown, DownSent
  <2>6. SameAll(c)
    BY <2>3, <2>5, InvClosed DEF SameAll, Alone
  <2>7. CASE mresp.kind = "status"
    <3>1. \A d \in Calls : SameView(d)
      BY <2>3, <2>5, <2>7
    <3> QED
      BY <3>1, InvClosed, Stutters
  <2>8. CASE mresp.kind # "status"
    <3>1. ~Answered(c)
      BY <2>1, <2>2, <2>8, NoSecondAnswer
    <3>2. \E i \in DOMAIN started : started[i] = SidOf[c]
      <4>1. SidOf[c] \in SD!Sids /\ SD!Writing(SidOf[c])
        BY <2>1, <2>2, <2>8, InvTypes DEF SD!WriteResponse, SD!Writing
      <4>2. hpc[SidOf[c]] # "none"
        BY <4>1 DEF Inv, ServerInv, SD!AnswerInv, SD!AnswerOK, SD!Running
      <4> QED
        BY <4>1, <4>2 DEF Inv, ServerInv, SD!AnswerInv, SD!AnswerOK
    <3>3. PhaseOf(c) = "running"
      BY <3>1, <3>2, PhaseIs
    <3>4. DownSent(c)' = DownSent(c) + 1
      BY <2>3, <2>8 DEF DownSent
    <3>5. CASE mresp.kind \in S!Terminal
      <4>1. Answered(c)'
        BY <2>3, <2>8, <3>5
      <4>2. PhaseOf(c)' = "answered"
        BY <4>1, PhaseIs
      <4>3. AM!Answer(c)
        BY <2>4, <2>6, <3>3, <3>4, <4>2, IsAnswer
      <4> QED
        BY <4>3 DEF AM!Next
    <3>6. CASE mresp.kind \notin S!Terminal
      <4>1. Answered(c)' <=> Answered(c)
        BY <2>3, <2>8, <3>1, <3>6
      <4>2. PhaseOf(c)' = PhaseOf(c)
        BY <2>4, <4>1
      <4>3. AM!HandlerSend(c)
        BY <2>4, <2>6, <3>3, <3>4, <4>2, IsHandlerSend
      <4> QED
        BY <4>3 DEF AM!Next
    <3> QED
      BY <3>5, <3>6
  <2> QED
    BY <2>7, <2>8
<1> QED
  BY <1>2, <1>3

\* A handler that receives is that of a request that is not answered.
LEMMA ReceiverRuns ==
  ASSUME Inv, NEW c \in Calls, hpc[SidOf[c]] = "receiving"
  PROVE  PhaseOf(c) = "running" /\ Asked(c) /\ SidOf[c] \in SidsOf(Streams)
<1>1. SidOf[c] \in SD!Sids
  BY InvTypes
<1>2. ~Answered(c)
  BY <1>1, AnsweredIsEnded DEF Inv, ServerInv, SD!AnswerInv, SD!AnswerOK
<1>3. \E i \in DOMAIN started : started[i] = SidOf[c]
  BY <1>1 DEF Inv, ServerInv, SD!AnswerInv, SD!AnswerOK
<1>4. SidOf[c] \in SidsOf(Streams)
  BY <1>1 DEF Inv, ServerInv, SD!StreamsInv, SD!EOFInv
<1> QED
  BY <1>2, <1>3, <1>4, AskedFirst, PhaseIs

\* What a step of the handler leaves of its own call.
LEMMA HandlerKeeps ==
  ASSUME UNCHANGED <<clientVars, outbox, refused, started>>, NEW c \in Calls
  PROVE  /\ PhaseOf(c)' = PhaseOf(c) /\ ResultOf(c)' = ResultOf(c) /\ UpSent(c)' = UpSent(c)
         /\ (Refused(c)' <=> Refused(c)) /\ localClosed'[c] = localClosed[c] /\ SameDown(c)
<1>1. Answers(c)' = Answers(c)
  BY DEF Answers
<1>2. DownSent(c)' = DownSent(c) /\ (Answered(c)' <=> Answered(c))
  BY <1>1 DEF DownSent, Answered, S!Terminal
<1>3. PhaseOf(c)' = PhaseOf(c)
  BY <1>2, ClientAside, PhaseIs
<1> QED
  BY <1>2, <1>3, ClientAside DEF SameDown, Refused

\* Which frames of a stream are messages for its handler.
LEMMA MessageFrames ==
  ASSUME Inv, NEW c \in Calls, NEW n \in DOMAIN FromClient(c)
  PROVE  /\ SD!IsMessage(SidOf[c], FromClient(c)[n]) <=>
              IF n = 1 THEN S!Pushed(SidOf[c]) ELSE FromClient(c)[n].kind = "data"
         /\ FromClient(c)[n].n = n
         /\ SD!IsMessage(SidOf[c], FromClient(c)[n]) => n <= DataSent(c) + 1
<1>1. /\ FromClient(c)[n].kind \in (IF n = 1 THEN {"request"} ELSE {"data", "close"})
      /\ FromClient(c)[n].kind # "close" => n <= DataSent(c) + 1
  BY DEF Inv, JointInv, UpOf
<1>2. FromClient(c)[n].n = n
  BY InvTypes DEF Inv, ServerInv, SD!StreamsInv, SD!FlightInv, FromClient
<1> QED
  BY <1>1, <1>2, SameSets DEF SD!IsMessage, SD!HasMessage

\* What a handler got, by the numbers of the frames.
LEMMA GotNumbers ==
  ASSUME Inv, NEW c \in Calls, NEW q, q = SD!Got(SidOf[c])
  PROVE  /\ q \in Seq(SD!Frames) /\ Len(q) \in Nat /\ DOMAIN q = 1 .. Len(q)
         /\ \A i, j \in 1 .. Len(q) : i < j => q[i].n < q[j].n
         /\ \A i \in 1 .. Len(q) :
              /\ q[i].n \in DOMAIN FromClient(c) /\ q[i] = FromClient(c)[q[i].n]
              /\ SD!IsMessage(SidOf[c], q[i])
<1>1. q \in Seq(SD!Frames)
  BY InvTypes, SD!GotType, ServerAssumptions DEF Inv, ServerInv
<1>2. Len(q) \in Nat /\ DOMAIN q = 1 .. Len(q)
  BY <1>1
<1>3. SD!Rises(SidOf[c])
  BY InvTypes DEF Inv, ServerInv, SD!RiseInv
<1> QED
  BY <1>1, <1>2, <1>3 DEF SD!Rises, SD!InOrder, SD!MessageOf, FromClient

\* No message is missing before one that a handler got.
LEMMA NoneMissing ==
  ASSUME Inv, NEW c \in Calls, SidOf[c] \in SidsOf(Streams), ~Refused(c),
         NEW q, q = SD!Got(SidOf[c]), NEW i \in 1 .. Len(q),
         NEW j \in 1 .. Len(FromClient(c)), j < q[i].n,
         SD!IsMessage(SidOf[c], FromClient(c)[j])
  PROVE  \E h \in 1 .. Len(q) : h < i /\ q[h].n = j
<1> DEFINE s == SidOf[c]
<1>1. PICK k \in 0 .. Len(sentIn[s]) : SD!ToSet(SD!Got(s)) = SD!Messages(s, k)
  BY DEF Inv, ServerInv, SD!StreamsInv, SD!ReadInv, SD!ReadOK, SD!GotUpTo, Refused
<1>2. /\ Len(q) \in Nat /\ DOMAIN q = 1 .. Len(q)
      /\ \A g, h \in 1 .. Len(q) : g < h => q[g].n < q[h].n
      /\ \A h \in 1 .. Len(q) : q[h].n \in DOMAIN FromClient(c)
  BY GotNumbers
<1>3. DOMAIN FromClient(c) = 1 .. Len(FromClient(c)) /\ Len(FromClient(c)) \in Nat
  BY UpTypes
<1>4. PICK m \in 1 .. k : q[i] = sentIn[s][m]
  <2>1. q[i] \in SD!Messages(s, k)
    BY <1>1, <1>2 DEF SD!ToSet
  <2> QED
    BY <2>1 DEF SD!Messages
<1>5. q[i].n = m
  <2>1. m \in DOMAIN FromClient(c) /\ FromClient(c)[m] = q[i]
    BY <1>3, <1>4 DEF FromClient
  <2>2. FromClient(c)[m].n = m
    BY <2>1, MessageFrames
  <2> QED
    BY <2>1, <2>2
<1>6. sentIn[s][j] \in SD!Messages(s, k)
  BY <1>3, <1>5 DEF SD!Messages, FromClient
<1>7. PICK h \in 1 .. Len(q) : q[h] = sentIn[s][j]
  BY <1>1, <1>2, <1>6 DEF SD!ToSet
<1>8. q[h].n = j
  <2>1. j \in DOMAIN FromClient(c) /\ FromClient(c)[j] = q[h]
    BY <1>3, <1>7 DEF FromClient
  <2>2. FromClient(c)[j].n = j
    BY <2>1, MessageFrames
  <2> QED
    BY <2>1, <2>2
<1>9. ~(i = h) /\ ~(i < h)
  BY <1>2, <1>3, <1>8
<1> QED
  BY <1>2, <1>8, <1>9

LEMMA UpToOrder ==
  ASSUME NEW c \in Calls, NEW m \in Int, NEW n \in Int
  PROVE  /\ MessagesUpTo(c, m) \in Int
         /\ m < n => MessagesUpTo(c, m) < MessagesUpTo(c, n)
         /\ m <= n => MessagesUpTo(c, m) <= MessagesUpTo(c, n)
         /\ n = m + 1 => MessagesUpTo(c, n) = MessagesUpTo(c, m) + 1
<1>1. CASE S!Pushed(SidOf[c])
  BY <1>1 DEF MessagesUpTo
<1>2. CASE ~S!Pushed(SidOf[c])
  BY <1>2 DEF MessagesUpTo
<1> QED
  BY <1>1, <1>2

\* The frame before the first message, or the number of the message before.
Before(c, q, i) ==
  IF i = 1 THEN (IF S!Pushed(SidOf[c]) THEN 0 ELSE 1) ELSE q[i - 1].n

\* A message comes after the one before it, and right after it if none was
\* refused.
LEMMA NextGot ==
  ASSUME Inv, NEW c \in Calls, SidOf[c] \in SidsOf(Streams),
         NEW q, q = SD!Got(SidOf[c]), NEW i \in 1 .. Len(q)
  PROVE  /\ Before(c, q, i) \in Nat /\ q[i].n \in Nat
         /\ Before(c, q, i) < q[i].n /\ q[i].n <= DataSent(c) + 1
         /\ Refused(c) \/ q[i].n = Before(c, q, i) + 1
<1>1. /\ Len(q) \in Nat
      /\ \A g, h \in 1 .. Len(q) : g < h => q[g].n < q[h].n
      /\ \A h \in 1 .. Len(q) : q[h].n \in DOMAIN FromClient(c)
  BY GotNumbers
<1>2. DOMAIN FromClient(c) = 1 .. Len(FromClient(c)) /\ Len(FromClient(c)) \in Nat
  BY UpTypes
<1>3. /\ q[i].n \in 1 .. Len(FromClient(c)) /\ q[i].n <= DataSent(c) + 1
      /\ q[i].n = 1 => S!Pushed(SidOf[c])
  <2> PICK n \in DOMAIN FromClient(c) : n = q[i].n
    BY <1>1
  <2>1. SD!IsMessage(SidOf[c], FromClient(c)[n])
    <3>1. SD!IsMessage(SidOf[c], q[i]) /\ q[i] = FromClient(c)[q[i].n]
      BY GotNumbers
    <3> QED
      BY <3>1
  <2> QED
    BY <1>2, <2>1, MessageFrames
<1>4. Before(c, q, i) \in Nat /\ Before(c, q, i) < q[i].n
  <2>1. CASE i = 1
    BY <1>3, <2>1 DEF Before
  <2>2. CASE i # 1
    <3>1. i - 1 \in 1 .. Len(q) /\ i - 1 < i
      BY <1>1, <2>2
    <3>2. q[i - 1].n < q[i].n /\ q[i - 1].n \in 1 .. Len(FromClient(c))
      BY <1>1, <1>2, <3>1
    <3> QED
      BY <1>2, <2>2, <3>2 DEF Before
  <2> QED
    BY <2>1, <2>2
<1>5. ASSUME ~Refused(c), q[i].n # Before(c, q, i) + 1 PROVE FALSE
  <2> PICK j \in Nat : j = Before(c, q, i) + 1
    BY <1>4
  <2>1. j \in 1 .. Len(FromClient(c)) /\ j < q[i].n /\ j < Len(FromClient(c))
    BY <1>2, <1>3, <1>4, <1>5
  <2>2. SD!IsMessage(SidOf[c], FromClient(c)[j])
    <3>1. j = 1 => S!Pushed(SidOf[c])
      <4>1. CASE i = 1
        BY <4>1 DEF Before
      <4>2. CASE i # 1
        <5>1. q[i - 1].n \in 1 .. Len(FromClient(c))
          BY <1>1, <1>2, <4>2
        <5> QED
          BY <1>2, <4>2, <5>1 DEF Before
      <4> QED
        BY <4>1, <4>2
    <3>2. j # 1 => FromClient(c)[j].kind = "data"
      BY <1>2, <2>1 DEF Inv, JointInv, UpOf
    <3> QED
      BY <1>2, <2>1, <3>1, <3>2, MessageFrames
  <2>3. PICK h \in 1 .. Len(q) : h < i /\ q[h].n = j
    BY <1>5, <2>1, <2>2, NoneMissing
  <2>4. i # 1 /\ i - 1 \in 1 .. Len(q) /\ Before(c, q, i) = q[i - 1].n
    BY <1>1, <2>3 DEF Before
  <2>5. h < i - 1 \/ h = i - 1
    BY <1>1, <2>3
  <2> QED
    BY <1>1, <1>2, <1>4, <2>3, <2>4, <2>5
<1> QED
  BY <1>2, <1>3, <1>4, <1>5

\* What a step of one handler leaves alone.
LEMMA HandlerAlone ==
  ASSUME Inv, Inv', UNCHANGED <<clientVars, outbox, refused, started>>, NEW c \in Calls,
         \A s : s # SidOf[c] => read'[s] = read[s] /\ (s \in sawEOF' <=> s \in sawEOF)
  PROVE  SameAll(c)
  BY ServerAlone

LEMMA UpReadIs ==
  ASSUME NEW c \in Calls
  PROVE  /\ UpRead(c) = IF read[SidOf[c]] = <<>> THEN 0
                        ELSE MessagesUpTo(c, Last(read[SidOf[c]]).n)
         /\ UpRead(c)' = IF read'[SidOf[c]] = <<>> THEN 0
                         ELSE MessagesUpTo(c, Last(read'[SidOf[c]]).n)
  BY DEF UpRead, MessagesUpTo, S!Pushed

\* What comes after r in a sequence that begins with r.
Extended(r, t, q) ==
  /\ Len(r) \in Nat /\ Len(r) + 1 \in 1 .. Len(q)
  /\ q[Len(r) + 1] = Head(t)
  /\ \A i \in 1 .. Len(r) : q[i] = r[i]
  /\ (r = <<>> <=> Len(r) = 0)

LEMMA Concatenated ==
  ASSUME NEW T, NEW r \in Seq(T), NEW t \in Seq(T), t # <<>>
  PROVE  Extended(r, t, r \o t)
<1>1. Len(t) \in Nat \ {0} /\ Len(r) \in Nat /\ Head(t) = t[1] /\ (r = <<>> <=> Len(r) = 0)
  OBVIOUS
<1>2. Len(r \o t) = Len(r) + Len(t)
  OBVIOUS
<1>3. Len(r) + 1 \in 1 .. Len(r) + Len(t)
  BY <1>1
<1>4. (r \o t)[Len(r) + 1] = t[Len(r) + 1 - Len(r)] /\ Len(r) + 1 - Len(r) = 1
  BY <1>1, <1>3
<1>5. \A i \in 1 .. Len(r) : (r \o t)[i] = r[i]
  BY <1>1
<1> QED
  BY <1>1, <1>2, <1>3, <1>4, <1>5 DEF Extended

\* The handler takes the next message.
LEMMA HandlerTakes ==
  ASSUME Inv, Inv', NEW c \in Calls, S!RecvMsgTakes(SidOf[c]), UNCHANGED clientVars
  PROVE  AM!HandlerRead(c)
<1> DEFINE s == SidOf[c]
           q == SD!Got(s)
           m == Len(read[s])
<1>1. /\ hpc[s] = "receiving" /\ recvq[s] # <<>>
      /\ read' = [read EXCEPT ![s] = Append(@, Head(recvq[s]))]
      /\ UNCHANGED <<outbox, refused, started, sawEOF>>
  BY DEF S!RecvMsgTakes, S!Move, S!handlerOnly, S!recvVars
<1>2. /\ read \in [SD!Sids -> Seq(SD!Frames)] /\ read[s] \in Seq(SD!Frames)
      /\ recvq[s] \in Seq(SD!Frames) /\ s \in SD!Sids
  BY InvTypes, SD!GotType, ServerAssumptions DEF Inv, ServerInv, SD!TypeOK, SD!HandlerTypeOK
<1>3. /\ read'[s] = Append(read[s], Head(recvq[s])) /\ \A t : t # s => read'[t] = read[t]
  BY <1>1, <1>2
<1>4. Head(recvq[s]) = recvq[s][1] /\ Head(recvq[s]) \in SD!Frames /\ Len(recvq[s]) \in Nat \ {0}
  BY <1>1, <1>2
<1>5. /\ m \in Nat /\ m + 1 \in 1 .. Len(q) /\ q[m + 1] = Head(recvq[s])
      /\ \A i \in 1 .. m : q[i] = read[s][i]
      /\ (read[s] = <<>> <=> m = 0)
  <2> HIDE DEF q
  <2>1. q = read[s] \o recvq[s]
    BY DEF SD!Got, q
  <2>2. Extended(read[s], recvq[s], read[s] \o recvq[s])
    BY <1>1, <1>2, Concatenated, Zenon
  <2> QED
    BY <2>1, <2>2, Zenon DEF Extended
<1>6. /\ SameAll(c) /\ PhaseOf(c)' = PhaseOf(c) /\ ResultOf(c)' = ResultOf(c)
      /\ UpSent(c)' = UpSent(c) /\ (Refused(c)' <=> Refused(c))
      /\ localClosed'[c] = localClosed[c] /\ SameDown(c)
  BY <1>1, <1>3, HandlerAlone, HandlerKeeps
<1>7. PhaseOf(c) = "running" /\ Asked(c) /\ s \in SidsOf(Streams)
  BY <1>1, ReceiverRuns
<1>8. ~SawEOF(c) /\ (SawEOF(c)' <=> SawEOF(c))
  BY <1>1 DEF SawEOF, Inv, ServerInv, SD!StreamsInv, SD!EOFInv
<1> PICK b : b = Before(c, q, m + 1)
  OBVIOUS
<1> PICK f : f = q[m + 1]
  OBVIOUS
<1>9. /\ b \in Nat /\ f.n \in Nat /\ b < f.n /\ f.n <= DataSent(c) + 1
      /\ Refused(c) \/ f.n = b + 1
  BY <1>5, <1>7, NextGot
<1>10. UpRead(c) = MessagesUpTo(c, b)
  <2>1. CASE m = 0
    <3>1. b = IF S!Pushed(SidOf[c]) THEN 0 ELSE 1
      BY <2>1 DEF Before
    <3>2. MessagesUpTo(c, b) = 0
      BY <3>1 DEF MessagesUpTo
    <3> QED
      BY <1>5, <2>1, <3>2, UpReadIs
  <2>2. CASE m # 0
    <3>1. b = q[m].n /\ q[m] = read[s][m]
      BY <1>5, <2>2 DEF Before
    <3>2. Last(read[s]) = read[s][m] /\ read[s] # <<>>
      BY <1>5, <2>2 DEF Last
    <3> QED
      BY <3>1, <3>2, UpReadIs
  <2> QED
    BY <2>1, <2>2
<1>11. UpRead(c)' = MessagesUpTo(c, f.n)
  <2>1. Last(read'[s]) = f
    BY <1>2, <1>3, <1>4, <1>5, LastAppended
  <2>2. read'[s] # <<>>
    <3>1. Len(Append(read[s], Head(recvq[s]))) = m + 1
      BY <1>2, <1>4
    <3> QED
      BY <1>3, <1>5, <3>1
  <2> QED
    BY <2>1, <2>2, UpReadIs
<1>12. UpSent(c) = MessagesUpTo(c, DataSent(c) + 1) /\ DataSent(c) \in Nat
  <2>1. DataSent(c) \in Nat
    BY UpTypes
  <2>2. UpSent(c) = MessagesUpTo(c, 1 + DataSent(c))
    BY <1>7 DEF UpSent, Asked, DataSent
  <2>3. 1 + DataSent(c) = DataSent(c) + 1
    BY <2>1
  <2> QED
    BY <2>1, <2>2, <2>3
<1>13. /\ UpRead(c) \in Int /\ UpRead(c)' \in Int /\ UpSent(c) \in Int
       /\ UpRead(c) < UpRead(c)' /\ UpRead(c)' <= UpSent(c)
       /\ f.n = b + 1 => UpRead(c)' = UpRead(c) + 1
  <2> PICK x \in Int : x = b
    BY <1>9
  <2> PICK y \in Int : y = f.n
    BY <1>9
  <2> PICK z \in Int : z = DataSent(c) + 1
    BY <1>12
  <2>1. /\ MessagesUpTo(c, x) \in Int /\ MessagesUpTo(c, y) \in Int /\ MessagesUpTo(c, z) \in Int
        /\ x < y => MessagesUpTo(c, x) < MessagesUpTo(c, y)
        /\ y <= z => MessagesUpTo(c, y) <= MessagesUpTo(c, z)
        /\ y = x + 1 => MessagesUpTo(c, y) = MessagesUpTo(c, x) + 1
    BY UpToOrder, Zenon
  <2> QED
    BY <1>9, <1>10, <1>11, <1>12, <2>1
<1>14. UpRead(c)' \in UpRead(c) + 1 .. UpSent(c) /\ (Refused(c) \/ UpRead(c)' = UpRead(c) + 1)
  BY <1>9, <1>13
<1> QED
  BY <1>6, <1>7, <1>8, <1>14, IsHandlerRead

\* A handler that learns of the end of its stream has read all of it.
LEMMA AllRead ==
  ASSUME Inv, NEW c \in Calls, SidOf[c] \in SidsOf(Streams), SidOf[c] \in SD!Sids,
         ~Refused(c), SidOf[c] \in sRemoteClosed, recvq[SidOf[c]] = <<>>, Asked(c)
  PROVE  localClosed[c] /\ UpRead(c) = UpSent(c)
<1> DEFINE s == SidOf[c]
           q == SD!Got(s)
<1>1. PICK k \in DOMAIN sentIn[s] :
         SD!HasRemoteClosed(sentIn[s][k]) /\ SD!ToSet(SD!Got(s)) = SD!Messages(s, k)
  BY DEF Inv, ServerInv, SD!StreamsInv, SD!ClosedInv, SD!ClosedOK, Refused
<1>2. /\ DOMAIN FromClient(c) = 1 .. Len(FromClient(c)) /\ Len(FromClient(c)) \in Nat
      /\ DataSent(c) \in Nat
  BY UpTypes
<1>3. k \in DOMAIN FromClient(c) /\ FromClient(c)[k].kind \in {"close", "dataClose"}
  BY <1>1 DEF SD!HasRemoteClosed, FromClient
<1>4. FromClient(c)[k].kind = "close" /\ k = DataSent(c) + 2 /\ localClosed[c]
  BY <1>3 DEF Inv, JointInv, UpOf
<1>5. q = read[s] /\ q \in Seq(SD!Frames)
  BY SD!GotType, ServerAssumptions DEF Inv, ServerInv, SD!Got
<1>6. /\ Len(q) \in Nat /\ DOMAIN q = 1 .. Len(q)
      /\ \A g, h \in 1 .. Len(q) : g < h => q[g].n < q[h].n
      /\ \A h \in 1 .. Len(q) : q[h].n \in DOMAIN FromClient(c)
      /\ \A h \in 1 .. Len(q) : q[h].n <= DataSent(c) + 1
  <2>1. ASSUME NEW h \in 1 .. Len(q) PROVE q[h].n <= DataSent(c) + 1
    <3>1. q[h].n \in DOMAIN FromClient(c) /\ q[h] = FromClient(c)[q[h].n]
          /\ SD!IsMessage(SidOf[c], q[h])
      BY GotNumbers
    <3> PICK n \in DOMAIN FromClient(c) : n = q[h].n
      BY <3>1
    <3>2. SD!IsMessage(SidOf[c], FromClient(c)[n])
      BY <3>1
    <3> QED
      BY <3>2, MessageFrames
  <2> QED
    BY <2>1, GotNumbers
<1> PICK d \in 1 .. k : d = DataSent(c) + 1 /\ d < k
  BY <1>2, <1>4
<1>7. UpSent(c) = MessagesUpTo(c, d)
  <2>1. UpSent(c) = MessagesUpTo(c, 1 + DataSent(c))
    BY DEF UpSent, Asked, DataSent
  <2>2. 1 + DataSent(c) = d
    BY <1>2
  <2> QED
    BY <2>1, <2>2
<1>8. d \in DOMAIN FromClient(c) /\ FromClient(c)[d].kind # "close"
  <2>1. d \in DOMAIN FromClient(c)
    BY <1>2, <1>3
  <2>2. FromClient(c)[d].kind = "close" => d = DataSent(c) + 2
    BY <2>1 DEF Inv, JointInv, UpOf
  <2> QED
    BY <1>2, <2>1, <2>2
<1>9. CASE SD!IsMessage(SidOf[c], FromClient(c)[d])
  <2>1. FromClient(c)[d] \in SD!Messages(s, k)
    BY <1>9 DEF SD!Messages, FromClient
  <2>2. PICK h \in 1 .. Len(q) : q[h] = FromClient(c)[d]
    BY <1>1, <1>6, <2>1 DEF SD!ToSet
  <2>3. q[h].n = d
    BY <1>8, <2>2, MessageFrames
  <2>4. h = Len(q)
    <3>1. ASSUME h # Len(q) PROVE FALSE
      <4>1. Len(q) \in 1 .. Len(q) /\ h < Len(q)
        BY <1>6, <3>1
      <4>2. q[h].n < q[Len(q)].n /\ q[Len(q)].n <= DataSent(c) + 1
            /\ q[Len(q)].n \in DOMAIN FromClient(c)
        BY <1>6, <4>1
      <4> QED
        BY <1>2, <2>3, <4>2
    <3> QED
      BY <3>1
  <2>5. read[s] # <<>> /\ Last(read[s]) = q[h]
    BY <1>5, <2>2, <2>4 DEF Last
  <2> QED
    BY <1>4, <1>7, <2>3, <2>5, UpReadIs
<1>10. CASE ~SD!IsMessage(SidOf[c], FromClient(c)[d])
  <2>1. d = 1 /\ ~S!Pushed(SidOf[c])
    <3>1. FromClient(c)[d].kind \in (IF d = 1 THEN {"request"} ELSE {"data", "close"})
      BY <1>8 DEF Inv, JointInv, UpOf
    <3> QED
      BY <1>8, <1>10, <3>1, MessageFrames
  <2>2. q = <<>>
    <3>1. ASSUME q # <<>> PROVE FALSE
      <4>1. 1 \in 1 .. Len(q)
        BY <1>5, <3>1
      <4>2. q[1].n \in DOMAIN FromClient(c) /\ q[1].n <= d
        BY <1>2, <1>6, <4>1
      <4>3. q[1].n = 1
        BY <1>2, <2>1, <4>2
      <4>4. q[1] = FromClient(c)[q[1].n] /\ SD!IsMessage(SidOf[c], q[1])
        BY <4>1, GotNumbers
      <4>5. SD!IsMessage(SidOf[c], FromClient(c)[d])
        BY <2>1, <4>3, <4>4
      <4> QED
        BY <1>10, <4>5
    <3> QED
      BY <3>1
  <2>3. UpRead(c) = 0
    BY <1>5, <2>2, UpReadIs
  <2>4. MessagesUpTo(c, d) = 0
    BY <2>1 DEF MessagesUpTo
  <2> QED
    BY <1>4, <1>7, <2>3, <2>4
<1> QED
  BY <1>9, <1>10

\* The handler is told of the end of its stream.
LEMMA HandlerLearns ==
  ASSUME Inv, Inv', NEW c \in Calls, S!RecvMsgEOF(SidOf[c]), UNCHANGED clientVars
  PROVE  AM!HandlerEOF(c) \/ UNCHANGED AM!vars
<1>1. /\ hpc[SidOf[c]] = "receiving" /\ SidOf[c] \in sRemoteClosed /\ recvq[SidOf[c]] = <<>>
      /\ sawEOF' = sawEOF \cup {SidOf[c]}
      /\ UNCHANGED <<outbox, refused, started, read>>
  BY DEF S!RecvMsgEOF, S!Move, S!ChannelDrained, S!handlerOnly, S!recvVars
<1>2. CASE SidOf[c] \in sawEOF
  <2>1. sawEOF' = sawEOF
    BY <1>1, <1>2
  <2> QED
    BY <1>1, <2>1, NobodySteps, ClientAside DEF serverSide
<1>3. CASE SidOf[c] \notin sawEOF
  <2>1. /\ SameAll(c) /\ PhaseOf(c)' = PhaseOf(c) /\ ResultOf(c)' = ResultOf(c)
        /\ UpSent(c)' = UpSent(c) /\ (Refused(c)' <=> Refused(c))
        /\ localClosed'[c] = localClosed[c] /\ SameDown(c)
    BY <1>1, HandlerAlone, HandlerKeeps
  <2>2. PhaseOf(c) = "running" /\ Asked(c) /\ SidOf[c] \in SidsOf(Streams)
    BY <1>1, ReceiverRuns
  <2>3. ~SawEOF(c) /\ SawEOF(c)'
    BY <1>1, <1>3 DEF SawEOF
  <2>4. UpRead(c)' = UpRead(c)
    BY <1>1, UpReadIs
  <2>5. Refused(c) \/ (localClosed[c] /\ UpRead(c) = UpSent(c))
    BY <1>1, <2>2, InvTypes, AllRead
  <2> QED
    BY <2>1, <2>2, <2>3, <2>4, <2>5, IsHandlerEOF
<1> QED
  BY <1>2, <1>3

\* The other steps of a handler only matter within the server.
LEMMA HandlerAside ==
  ASSUME Inv, Inv', NEW c \in Calls, UNCHANGED clientVars,
         \/ S!RecvMsgCancelled(SidOf[c]) \/ S!RespondAborted(SidOf[c])
         \/ S!HandlerReturns(SidOf[c]) \/ S!RecvMsg(SidOf[c]) \/ S!SendMsg(SidOf[c])
  PROVE  UNCHANGED AM!vars
<1>1. UNCHANGED serverSide
  BY DEF S!RecvMsgCancelled, S!RespondAborted, S!HandlerReturns, S!RecvMsg, S!SendMsg, S!Respond,
     S!handlerOnly, S!recvVars, serverSide
<1>2. CallsUnchanged
  BY ClientAside
<1> QED
  BY <1>1, <1>2, NobodySteps

LEMMA HandlerImplements ==
  ASSUME Inv, Inv', NEW c \in Calls, HandlerStep(c) \/ HandlerReturns(c) \/ HandlerActs(c)
  PROVE  AM!Next \/ UNCHANGED AM!vars
<1>1. UNCHANGED clientVars
  BY DEF HandlerStep, HandlerReturns, HandlerActs
<1>2. CASE S!RecvMsgTakes(SidOf[c])
  <2>1. AM!HandlerRead(c)
    BY <1>1, <1>2, HandlerTakes
  <2> QED
    BY <2>1 DEF AM!Next
<1>3. CASE S!RecvMsgEOF(SidOf[c])
  <2>1. AM!HandlerEOF(c) \/ UNCHANGED AM!vars
    BY <1>1, <1>3, HandlerLearns
  <2> QED
    BY <2>1 DEF AM!Next
<1>4. CASE \/ S!RecvMsgCancelled(SidOf[c]) \/ S!RespondAborted(SidOf[c])
           \/ S!HandlerReturns(SidOf[c]) \/ S!RecvMsg(SidOf[c]) \/ S!SendMsg(SidOf[c])
  BY <1>1, <1>4, HandlerAside
<1> QED
  BY <1>2, <1>3, <1>4 DEF HandlerStep, S!HandlerStep, HandlerReturns, HandlerActs

\* The client's loop and its end of the connection are no part of a call.
LEMMA LoopImplements ==
  ASSUME Inv, Inv', [Next]_vars, ClientLoop \/ ClientCloses \/ UNCHANGED vars
  PROVE  UNCHANGED AM!vars
<1>1. UNCHANGED serverSide
  BY DEF ClientLoop, ClientCloses, vars, serverVars, serverOwn, serverSide
<1>2. CallsUnchanged
  <2>1. CASE ClientLoop
    BY <2>1 DEF ClientLoop, C!LoopStep, C!LoopTop, C!ReceiveFrame, C!ReceiveError,
       C!ReceiveCheck, C!Deliver, C!Drop, C!WaitForRoom, C!ReceiveTimeout, C!RunClose,
       C!CancelCtx, C!CleanupStreams, C!CallbackReturns, C!loopUnchanged, C!registryVars,
       C!appVars, CallsUnchanged
  <2>2. CASE ClientCloses
    BY <2>2 DEF ClientCloses, C!CloseConn, C!registryVars, C!appVars, CallsUnchanged
  <2>3. CASE UNCHANGED vars
    BY <2>3 DEF vars, clientVars, clientOwn, CallsUnchanged
  <2> QED
    BY <2>1, <2>2, <2>3
<1> QED
  BY <1>1, <1>2, NobodySteps
-----------------------------------------------------------------------------
\* Every step of the whole is a step of Abstract or leaves it where it is.
LEMMA NextImplements ==
  ASSUME Inv, Inv', [Next]_vars
  PROVE  [Abstract!Next]_Abstract!vars
<1>1. ASSUME NEW c \in Calls, StepOf(c) PROVE AM!Next \/ UNCHANGED AM!vars
  BY <1>1, CallImplements
<1>2. ASSUME NEW c \in Calls, HandlerStep(c) \/ HandlerReturns(c) \/ HandlerActs(c)
      PROVE  AM!Next \/ UNCHANGED AM!vars
  BY <1>2, HandlerImplements
<1>3. ASSUME Receiver PROVE AM!Next \/ UNCHANGED AM!vars
  BY <1>3, ReceiverImplements
<1>4. ASSUME Main PROVE AM!Next \/ UNCHANGED AM!vars
  BY <1>4, MainImplements
<1>5. ASSUME ClientLoop \/ ClientCloses \/ UNCHANGED vars PROVE UNCHANGED AM!vars
  BY <1>5, LoopImplements
<1>6. AM!Next \/ UNCHANGED AM!vars
  BY <1>1, <1>2, <1>3, <1>4, <1>5 DEF Next, StepOf
<1> QED
  BY <1>6, SameStart, SameNext

\* Every call begins as a new one.
LEMMA InitImplements ==
  ASSUME Init
  PROVE  Abstract!Init
<1>1. Inv
  BY InitInv
<1>2. ASSUME NEW c \in Calls
      PROVE  /\ PhaseOf(c) = "new" /\ ResultOf(c) = "none" /\ UpSent(c) = 0 /\ UpRead(c) = 0
             /\ ~Refused(c) /\ ~localClosed[c] /\ ~SawEOF(c)
             /\ DownSent(c) = 0 /\ DownGot(c) = 0
  <2>1. SidOf[c] \in S!Sids /\ c \in C!Calls
    BY DEF S!Sids, SidsOf, Calls, C!Calls
  <2>2. ~Asked(c) /\ Answers(c) = {}
    BY DEF Init, C!Init, S!Init, Asked, OnWire, Answers
  <2>3. PhaseOf(c) = "new" /\ UpSent(c) = 0
    BY <1>1, <2>2, NotAsked DEF UpSent, Asked
  <2>4. ret[c] = "none" /\ ~remoteClosed[c] /\ ~localClosed[c] /\ got[c] = <<>>
    BY <2>1 DEF Init, C!Init
  <2>5. ResultOf(c) = "none"
    BY <2>4 DEF ResultOf
  <2>6. DownSent(c) = 0
    BY <2>2, FS_EmptySet DEF DownSent
  <2>7. {i \in DOMAIN got[c] : got[c][i].kind # "err"} = {}
    BY <2>4
  <2>8. DownGot(c) = 0
    BY <2>7, FS_EmptySet, Zenon DEF DownGot
  <2>9. read[SidOf[c]] = <<>> /\ sawEOF = {} /\ refused = {}
    BY <2>1 DEF Init, S!Init
  <2>10. UpRead(c) = 0 /\ ~Refused(c) /\ ~SawEOF(c)
    BY <2>9, UpReadIs DEF Refused, SawEOF
  <2> QED
    BY <2>3, <2>4, <2>5, <2>6, <2>8, <2>10
<1>3. /\ phases = [c \in Calls |-> "new"] /\ results = [c \in Calls |-> "none"]
      /\ upsSent = [c \in Calls |-> 0] /\ upsRead = [c \in Calls |-> 0]
  BY <1>2 DEF phases, results, upsSent, upsRead
<1>4. /\ upsRefused = [c \in Calls |-> FALSE] /\ ends = [c \in Calls |-> FALSE]
  <2>1. \A c \in Calls : (Refused(c) = FALSE) /\ (SawEOF(c) = FALSE)
    <3>1. ASSUME NEW c \in Calls
          PROVE  SidOf[c] \notin refused /\ SidOf[c] \notin sawEOF
      BY <1>2 DEF Refused, SawEOF
    <3> QED
      BY <3>1 DEF Refused, SawEOF
  <2> QED
    BY <2>1, Zenon DEF upsRefused, ends
<1>5. localClosed = [c \in Calls |-> FALSE]
  BY DEF Init, C!Init, C!Calls, Calls
<1>6. downsSent = [c \in Calls |-> 0] /\ downsGot = [c \in Calls |-> 0]
  BY <1>2 DEF downsSent, downsGot
<1>7. AM!Init
  BY <1>3, <1>4, <1>5, <1>6 DEF AM!Init
<1> QED
  BY <1>7, SameStart

\* A client and a server at the two ends of a connection keep what Rpc promises
\* of every call (client.go, stream.go, server.go): a request runs at most one
\* handler and gets at most one answer, messages arrive in the order of sending
\* and without a gap unless the caller is told that one was refused, the handler
\* sees the end of its stream after the last message only, and a caller that is
\* told of success has received all that the handler sent.  For any number of
\* calls, any sizes of the buffers and any interleaving of the two ends.
THEOREM ConnectionImplementsRpc == Spec => ImplementsRpc
<1>1. Init => Abstract!Init
  BY InitImplements
<1>2. Inv /\ Inv' /\ [Next]_vars => [Abstract!Next]_Abstract!vars
  BY NextImplements
<1> QED
  BY <1>1, <1>2, InvHolds, PTL DEF Spec, ImplementsRpc, Abstract!Spec
=============================================================================
