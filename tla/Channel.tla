------------------------------- MODULE Channel -------------------------------
(***************************************************************************)
(* Framing (channel.go): messages written to a byte stream and read from   *)
(* it in pieces, and the pool of message buffers, which all the channels   *)
(* of a process share.  A channel is one direction of a connection, with   *)
(* one goroutine that reads and any number that write, under a lock        *)
(* (sendLock of the client; the server has a single writer).               *)
(*                                                                         *)
(* A byte is the message it belongs to and its position in the frame; the  *)
(* reader uses what it read of a header and no more.                       *)
(***************************************************************************)
EXTENDS Integers, Sequences, FiniteSets, SequencesExt

CONSTANTS
  Channels,
  Messages,      \* the messages sent
  ChannelOf,     \* the channel each is sent on
  SizeOf,        \* the length of its payload
  Unchecked,     \* the messages whose sender does not look at the length: a
                 \* peer with another limit
  HeaderLength,  \* messageHeaderLength, 10 in the code
  LengthMax,     \* messageLengthMax, 4 MiB in the code
  Buffers,       \* buffers make() hands out
  Fragile,       \* bound: the channels whose connection may go
  NoOne          \* no writer, no message, no buffer

ASSUME ChannelAssumption ==
  /\ ChannelOf \in [Messages -> Channels] /\ SizeOf \in [Messages -> Nat]
  /\ Unchecked \subseteq Messages /\ Fragile \subseteq Channels
  /\ HeaderLength \in Nat \ {0} /\ LengthMax \in Nat
  /\ NoOne \notin Messages \cup Buffers

VARIABLES
  lock,     \* per channel, the message whose writer holds the lock
  wpc,      \* where the writer of each message is
  hwbuf,    \* channel.hwbuf: the message whose header it holds
  bw,       \* what is buffered in channel.bw
  net,      \* bytes on their way
  broken,   \* the channels whose connection is gone
  rpc,      \* where the reader of each channel is
  taken,    \* what it has read of the header or of the payload
  head,     \* the message whose header it has read
  rbuf,     \* the buffer the payload is read into
  pool,     \* buffers: what was put and not taken again
  cap,      \* the capacity of each buffer, 0 before it is made
  content,  \* what was read into each buffer
  holding,  \* the buffer each message was received in
  putBack,  \* the messages whose buffer was put back
  order,    \* history: per channel, the messages written, in order
  received, \* history: per channel, what recv returned, in order
  decoded   \* history: what each message was unmarshalled from

writerVars == <<lock, wpc, hwbuf, bw, order>>
readerVars == <<rpc, taken, head, rbuf, received>>
poolVars == <<pool, cap, content, holding, putBack, decoded>>
vars == <<writerVars, net, broken, readerVars, poolVars>>

Header(m) == [i \in 1 .. HeaderLength |-> <<m, i>>]
Payload(m) == [i \in 1 .. SizeOf[m] |-> <<m, HeaderLength + i>>]
TooLong(m) == SizeOf[m] > LengthMax

Init ==
  /\ lock = [ch \in Channels |-> NoOne] /\ wpc = [m \in Messages |-> "start"]
  /\ hwbuf = [ch \in Channels |-> NoOne] /\ bw = [ch \in Channels |-> <<>>]
  /\ net = [ch \in Channels |-> <<>>] /\ broken = {}
  /\ rpc = [ch \in Channels |-> "header"] /\ taken = [ch \in Channels |-> <<>>]
  /\ head = [ch \in Channels |-> NoOne] /\ rbuf = [ch \in Channels |-> NoOne]
  /\ pool = {} /\ cap = [b \in Buffers |-> 0] /\ content = [b \in Buffers |-> <<>>]
  /\ holding = [m \in Messages |-> NoOne] /\ putBack = {}
  /\ order = [ch \in Channels |-> <<>>] /\ received = [ch \in Channels |-> <<>>]
  /\ decoded = [m \in Messages |-> NoOne]

-----------------------------------------------------------------------------
(* send, with the lock its callers take.                                   *)

Goes(m, from, to) == wpc[m] = from /\ wpc' = [wpc EXCEPT ![m] = to]
writeOnly == UNCHANGED <<broken, readerVars, poolVars>>

\* Faulty: the writers of a channel do not exclude each other.
LockIgnored(ch) == TRUE
LockFree(ch) == lock[ch] = NoOne

Refused(m) == TooLong(m) /\ m \notin Unchecked

SendBegins(m) ==
  LET ch == ChannelOf[m] IN
  /\ LockFree(ch)
  /\ \/ Refused(m) /\ Goes(m, "start", "refused") /\ UNCHANGED lock
     \/ ~Refused(m) /\ Goes(m, "start", "locked") /\ lock' = [lock EXCEPT ![ch] = m]
  /\ writeOnly /\ UNCHANGED <<hwbuf, bw, order, net>>

\* writeMessageHeader: fill in hwbuf ...
FillHeader(m) ==
  /\ Goes(m, "locked", "filled") /\ hwbuf' = [hwbuf EXCEPT ![ChannelOf[m]] = m]
  /\ writeOnly /\ UNCHANGED <<lock, bw, order, net>>

\* ... and write it, then write the payload.
WriteHeader(m) ==
  LET ch == ChannelOf[m] IN
  /\ Goes(m, "filled", "headed") /\ bw' = [bw EXCEPT ![ch] = @ \o Header(hwbuf[ch])]
  /\ writeOnly /\ UNCHANGED <<lock, hwbuf, order, net>>

WritePayload(m) ==
  LET ch == ChannelOf[m] IN
  /\ Goes(m, "headed", "written") /\ bw' = [bw EXCEPT ![ch] = @ \o Payload(m)]
  /\ order' = [order EXCEPT ![ch] = Append(@, m)]
  /\ writeOnly /\ UNCHANGED <<lock, hwbuf, net>>

\* Flush hands the bytes to the connection, all or, if it breaks, some of
\* them; bufio keeps the error, so that nothing is written after it.  The
\* bytes a connection took before it went away are still read.
Flush(m) ==
  LET ch == ChannelOf[m] IN
  /\ lock' = [lock EXCEPT ![ch] = NoOne]
  /\ \/ /\ ch \notin broken /\ Goes(m, "written", "sent")
        /\ net' = [net EXCEPT ![ch] = @ \o bw[ch]] /\ UNCHANGED broken
     \/ /\ ch \in Fragile /\ Goes(m, "written", "failed") /\ broken' = broken \cup {ch}
        /\ IF ch \in broken THEN UNCHANGED net
           ELSE \E n \in 0 .. Len(bw[ch]) - 1 : net' = [net EXCEPT ![ch] = @ \o SubSeq(bw[ch], 1, n)]
  /\ bw' = [bw EXCEPT ![ch] = <<>>]
  /\ UNCHANGED <<readerVars, poolVars, hwbuf, order>>

-----------------------------------------------------------------------------
(* recv.  ReadFull takes what there is until it has what it wants.         *)

Wanted(ch) ==
  IF rpc[ch] = "header" THEN HeaderLength - Len(taken[ch])
  ELSE SizeOf[head[ch]] - Len(taken[ch])

Read(ch) ==
  /\ rpc[ch] \in {"header", "payload", "discard"}
  /\ \E n \in 1 .. Len(net[ch]) :
       /\ n <= Wanted(ch)
       /\ taken' = [taken EXCEPT ![ch] = @ \o SubSeq(net[ch], 1, n)]
       /\ net' = [net EXCEPT ![ch] = SubSeq(@, n + 1, Len(@))]
  /\ content' = IF rpc[ch] # "payload" THEN content
                ELSE [content EXCEPT ![rbuf[ch]] = taken'[ch]]
  /\ UNCHANGED <<writerVars, broken, rpc, head, rbuf, received, pool, cap, holding, putBack,
                 decoded>>

\* The header is complete.  Bytes that are no header mean that reader and
\* writer no longer agree where a frame begins.
HeaderRead(ch) ==
  LET m == taken[ch][1][1] IN
  /\ rpc[ch] = "header" /\ Wanted(ch) = 0
  /\ taken' = [taken EXCEPT ![ch] = <<>>]
  /\ IF taken[ch] = Header(m)
       THEN /\ head' = [head EXCEPT ![ch] = m]
            /\ rpc' = [rpc EXCEPT ![ch] =
                 IF TooLong(m) THEN "discard" ELSE IF SizeOf[m] > 0 THEN "get" ELSE "deliver"]
       ELSE rpc' = [rpc EXCEPT ![ch] = "lost"] /\ UNCHANGED head
  /\ UNCHANGED <<writerVars, net, broken, rbuf, received, poolVars>>

\* Faulty: an oversized payload is left in the stream.
NotDiscarded(ch) == rpc[ch] = "discard"
Discarded(ch) == rpc[ch] = "discard" /\ Wanted(ch) = 0

Returns(ch, what) ==
  /\ received' = [received EXCEPT ![ch] = Append(@, <<head[ch], what>>)]
  /\ rpc' = [rpc EXCEPT ![ch] = "header"] /\ taken' = [taken EXCEPT ![ch] = <<>>]
  /\ head' = [head EXCEPT ![ch] = NoOne] /\ rbuf' = [rbuf EXCEPT ![ch] = NoOne]

Oversized(ch) ==
  /\ Discarded(ch) /\ Returns(ch, "oversized")
  /\ UNCHANGED <<writerVars, net, broken, poolVars>>

\* getmbuf: Get returns any buffer of the pool or, as it likes, none.  One that
\* is too small is dropped and a new one made.
NewBuffer(b) == cap[b] = 0
GetBuffer(ch) ==
  /\ rpc[ch] = "get"
  /\ \E b \in Buffers, old \in pool \cup {NoOne} :
       /\ IF old # NoOne /\ cap[old] >= SizeOf[head[ch]]
            THEN b = old /\ UNCHANGED cap
            ELSE NewBuffer(b) /\ cap' = [cap EXCEPT ![b] = SizeOf[head[ch]]]
       /\ rbuf' = [rbuf EXCEPT ![ch] = b] /\ pool' = pool \ {old}
  /\ rpc' = [rpc EXCEPT ![ch] = "payload"]
  /\ UNCHANGED <<writerVars, net, broken, taken, head, received, content, holding,
                 putBack, decoded>>

\* The payload is complete and handed on in its buffer.
PayloadRead(ch) ==
  /\ rpc[ch] = "payload" /\ Wanted(ch) = 0
  /\ holding' = [holding EXCEPT ![head[ch]] = rbuf[ch]]
  /\ Returns(ch, "message")
  /\ UNCHANGED <<writerVars, net, broken, pool, cap, content, putBack, decoded>>

\* A message without payload has no buffer.
DeliverEmpty(ch) ==
  /\ rpc[ch] = "deliver" /\ Returns(ch, "message")
  /\ decoded' = [decoded EXCEPT ![head[ch]] = <<>>]
  /\ UNCHANGED <<writerVars, net, broken, pool, cap, content, holding, putBack>>

\* ReadFull or Discard meets the end of the connection.
RecvFails(ch) ==
  /\ rpc[ch] \in {"header", "payload", "discard"} /\ Wanted(ch) > 0
  /\ ch \in broken /\ net[ch] = <<>>
  /\ rpc' = [rpc EXCEPT ![ch] = IF rpc[ch] = "header" /\ taken[ch] = <<>> THEN "eof" ELSE "cut"]
  /\ UNCHANGED <<writerVars, net, broken, taken, head, rbuf, received, poolVars>>

-----------------------------------------------------------------------------
(* Whoever takes the message unmarshals it, then puts the buffer back; a   *)
(* message that nobody takes keeps its buffer from the pool for good.      *)

consumeOnly == UNCHANGED <<writerVars, net, broken, readerVars, cap, content, holding>>

Unmarshal(m) ==
  /\ holding[m] # NoOne /\ decoded[m] = NoOne
  /\ decoded' = [decoded EXCEPT ![m] = content[holding[m]]]
  /\ consumeOnly /\ UNCHANGED <<pool, putBack>>

\* Faulty: the buffer is put back before the message is unmarshalled.
PutAtOnce(m) == TRUE
PutReady(m) == decoded[m] # NoOne

PutBuffer(m) ==
  /\ holding[m] # NoOne /\ m \notin putBack /\ PutReady(m)
  /\ pool' = pool \cup {holding[m]} /\ putBack' = putBack \cup {m}
  /\ consumeOnly /\ UNCHANGED decoded

-----------------------------------------------------------------------------
\* Either end closes the connection, possibly before a frame is whole.
ConnGoes(ch) ==
  /\ ch \in Fragile \ broken /\ broken' = broken \cup {ch}
  /\ UNCHANGED <<writerVars, net, readerVars, poolVars>>

Write(m) == SendBegins(m) \/ FillHeader(m) \/ WriteHeader(m) \/ WritePayload(m) \/ Flush(m)

Recv(ch) ==
  \/ Read(ch) \/ HeaderRead(ch) \/ Oversized(ch) \/ GetBuffer(ch) \/ PayloadRead(ch)
  \/ DeliverEmpty(ch) \/ RecvFails(ch)

Next ==
  \/ \E m \in Messages : Write(m) \/ Unmarshal(m) \/ PutBuffer(m)
  \/ \E ch \in Channels : Recv(ch) \/ ConnGoes(ch)

Spec == Init /\ [][Next]_vars

\* The reader runs when it can; nobody need send or take a message.
FairSpec == Spec /\ \A ch \in Channels : WF_vars(Recv(ch))

-----------------------------------------------------------------------------
(* Properties.                                                             *)

\* What the writers of a channel wrote, as recv ought to return it.
Expected(ch) ==
  [n \in DOMAIN order[ch] |->
     <<order[ch][n], IF TooLong(order[ch][n]) THEN "oversized" ELSE "message">>]

\* The reader finds every frame where it begins: recv returns what was written,
\* in order, however the bytes are split, whoever else writes, and also after a
\* frame that was too long and thrown away.
FramesInOrder ==
  \A ch \in Channels : rpc[ch] # "lost" /\ IsPrefix(received[ch], Expected(ch))

\* A message is unmarshalled from its own bytes, although buffers go from one
\* message, channel and goroutine to the next while others still wait.
MessagesIntact ==
  \A m \in Messages : decoded[m] \in {NoOne, Payload(m)}

Received(m) == \E n \in DOMAIN received[ChannelOf[m]] : received[ChannelOf[m]][n][1] = m

\* A frame that was sent whole is received, whatever its length and whatever
\* the pool holds, and also when its sender goes away afterwards: again and
\* again nothing that was sent is outstanding.
SentIsReceived == []<>(\A m \in Messages : wpc[m] = "sent" => Received(m))
=============================================================================
