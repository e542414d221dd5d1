---------------------------- MODULE ChannelProofs ----------------------------
(***************************************************************************)
(* Theorems about Channel for any channels, messages and buffers and any   *)
(* lengths, with their proofs: frames stay whole and in order, and a       *)
(* message keeps its bytes although buffers are used again.  WriterInv     *)
(* says what is buffered while a frame is written, ReaderInv that the      *)
(* bytes on their way are the rest of the frame the reader is at and whole *)
(* frames after it, PoolInv that a buffer never has two users.             *)
(***************************************************************************)
EXTENDS Channel, TLAPS

Whole(m) == HeaderLength + SizeOf[m]
Bytes == Messages \X Nat
Frame(m) == Header(m) \o Payload(m)

LEMMA FrameBytes ==
  ASSUME NEW m \in Messages
  PROVE  /\ SizeOf[m] \in Nat /\ HeaderLength \in Nat /\ 0 < HeaderLength /\ Whole(m) \in Nat
         /\ HeaderLength <= Whole(m) /\ ChannelOf[m] \in Channels
         /\ Header(m) \in Seq(Bytes) /\ Payload(m) \in Seq(Bytes) /\ Frame(m) \in Seq(Bytes)
         /\ Len(Header(m)) = HeaderLength /\ Len(Payload(m)) = SizeOf[m] /\ Len(Frame(m)) = Whole(m)
         /\ \A i \in 1 .. HeaderLength : Header(m)[i] = <<m, i>>
         /\ \A i \in 1 .. SizeOf[m] : Payload(m)[i] = <<m, HeaderLength + i>>
         /\ \A i \in 1 .. Whole(m) : Frame(m)[i] = <<m, i>>
<1>1. /\ SizeOf[m] \in Nat /\ HeaderLength \in Nat /\ 0 < HeaderLength /\ ChannelOf[m] \in Channels
  BY ChannelAssumption
<1>2. Whole(m) \in Nat /\ HeaderLength <= Whole(m)
  BY <1>1 DEF Whole
<1>3. /\ Header(m) \in Seq(Bytes) /\ Len(Header(m)) = HeaderLength
      /\ \A i \in 1 .. HeaderLength : Header(m)[i] = <<m, i>>
  BY <1>1 DEF Header, Bytes
<1>4. /\ Payload(m) \in Seq(Bytes) /\ Len(Payload(m)) = SizeOf[m]
      /\ \A i \in 1 .. SizeOf[m] : Payload(m)[i] = <<m, HeaderLength + i>>
  <2>1. \A i \in 1 .. SizeOf[m] : HeaderLength + i \in Nat
    BY <1>1
  <2> QED
    BY <1>1, <2>1 DEF Payload, Bytes
<1>5. Frame(m) \in Seq(Bytes) /\ Len(Frame(m)) = Whole(m)
  <2>1. ASSUME NEW s \in Seq(Bytes), NEW t \in Seq(Bytes)
        PROVE  s \o t \in Seq(Bytes) /\ Len(s \o t) = Len(s) + Len(t)
    OBVIOUS
  <2> QED
    BY <1>3, <1>4, <2>1 DEF Frame, Whole
<1>6. \A i \in 1 .. Whole(m) : Frame(m)[i] = <<m, i>>
  <2> SUFFICES ASSUME NEW i \in 1 .. Whole(m) PROVE Frame(m)[i] = <<m, i>>
    OBVIOUS
  <2>1. CASE i <= HeaderLength
    BY <1>1, <1>3, <1>4, <2>1 DEF Frame, Whole
  <2>2. CASE ~(i <= HeaderLength)
    <3>1. i - HeaderLength \in 1 .. SizeOf[m] /\ HeaderLength + (i - HeaderLength) = i
      BY <1>1, <1>2, <2>2 DEF Whole
    <3>2. Frame(m)[i] = Payload(m)[i - HeaderLength]
      BY <1>1, <1>3, <1>4, <2>2, <3>1 DEF Frame, Whole
    <3> QED
      BY <1>4, <3>1, <3>2
  <2> QED
    BY <2>1, <2>2
<1> QED
  BY <1>1, <1>2, <1>3, <1>4, <1>5, <1>6

-----------------------------------------------------------------------------
(* The writers of a channel.                                               *)

InLock == {"locked", "filled", "headed", "written"}
WriterTypeOK ==
  /\ lock \in [Channels -> Messages \cup {NoOne}]
  /\ wpc \in [Messages -> InLock \cup {"start", "refused", "sent", "failed"}]
  /\ hwbuf \in [Channels -> Messages \cup {NoOne}]
  /\ bw \in [Channels -> Seq(Bytes)]
  /\ order \in [Channels -> Seq(Messages)]

\* The lock is held while a frame is written.
LockInv ==
  /\ \A m \in Messages : wpc[m] \in InLock => lock[ChannelOf[m]] = m
  /\ \A ch \in Channels : lock[ch] # NoOne => ChannelOf[lock[ch]] = ch /\ wpc[lock[ch]] \in InLock

\* What is buffered is what the holder of the lock has written so far.
Buffered(ch) ==
  IF lock[ch] = NoOne \/ wpc[lock[ch]] \in {"locked", "filled"} THEN <<>>
  ELSE IF wpc[lock[ch]] = "headed" THEN Header(lock[ch]) ELSE Frame(lock[ch])
BufferedInv ==
  \A ch \in Channels :
    /\ lock[ch] # NoOne /\ wpc[lock[ch]] = "filled" => hwbuf[ch] = lock[ch]
    /\ bw[ch] = Buffered(ch)

\* A message is written once.
OrderInv ==
  \A ch \in Channels :
    /\ \A n \in DOMAIN order[ch] : /\ wpc[order[ch][n]] \in {"written", "sent", "failed"}
                                   /\ ChannelOf[order[ch][n]] = ch
    /\ \A i, j \in DOMAIN order[ch] : order[ch][i] = order[ch][j] => i = j
    /\ lock[ch] # NoOne /\ wpc[lock[ch]] = "written" =>
         order[ch] # <<>> /\ order[ch][Len(order[ch])] = lock[ch]
WriterInv == WriterTypeOK /\ LockInv /\ BufferedInv /\ OrderInv

LEMMA WriterInit == Init => WriterInv
  BY DEF Init, WriterInv, WriterTypeOK, LockInv, BufferedInv, Buffered, OrderInv, InLock

\* A step of a writer changes its own channel only.
LEMMA WriterFrame ==
  ASSUME WriterInv, NEW m \in Messages, NEW from, NEW to, Goes(m, from, to)
  PROVE  /\ wpc[m] = from /\ wpc'[m] = to
         /\ \A k \in Messages : k # m => wpc'[k] = wpc[k]
         /\ from \in InLock =>
              /\ lock[ChannelOf[m]] = m
              /\ \A ch \in Channels : ch # ChannelOf[m] /\ lock[ch] # NoOne =>
                   lock[ch] # m /\ wpc'[lock[ch]] = wpc[lock[ch]]
  BY ChannelAssumption DEF Goes, WriterInv, WriterTypeOK, LockInv

LEMMA SendBeginsWriter ==
  ASSUME WriterInv, NEW m \in Messages, SendBegins(m) PROVE WriterInv'
<1> DEFINE ch == ChannelOf[m]
<1>1. /\ ch \in Channels /\ m # NoOne /\ lock[ch] = NoOne /\ UNCHANGED <<hwbuf, bw, order>>
      /\ NoOne \notin Messages
  BY ChannelAssumption DEF SendBegins, LockFree
<1>2. PICK to \in {"refused", "locked"} : Goes(m, "start", to)
  BY DEF SendBegins
<1>3. /\ to = "refused" => UNCHANGED lock
      /\ to = "locked" => lock' = [lock EXCEPT ![ch] = m]
  BY <1>2, WriterFrame DEF SendBegins
<1>4. /\ wpc[m] = "start" /\ wpc'[m] = to /\ \A k \in Messages : k # m => wpc'[k] = wpc[k]
  BY <1>2, WriterFrame
<1>5. WriterTypeOK'
  BY <1>1, <1>2, <1>3 DEF WriterInv, WriterTypeOK, Goes, InLock
<1>6. \A c \in Channels : lock[c] # m
  BY <1>1, <1>4 DEF WriterInv, LockInv, InLock
<1>7. LockInv'
  <2>1. CASE to = "refused"
    BY <1>3, <1>4, <1>6, <2>1 DEF WriterInv, LockInv, InLock, WriterTypeOK
  <2>2. CASE to = "locked"
    <3>1. \A c \in Channels : lock'[c] = IF c = ch THEN m ELSE lock[c]
      BY <1>3, <2>2 DEF WriterInv, WriterTypeOK
    <3>2. \A k \in Messages : wpc'[k] \in InLock => lock'[ChannelOf[k]] = k
      BY <1>1, <1>4, <3>1, ChannelAssumption DEF WriterInv, LockInv
    <3>3. \A c \in Channels : lock'[c] # NoOne => ChannelOf[lock'[c]] = c /\ wpc'[lock'[c]] \in InLock
      <4> SUFFICES ASSUME NEW c \in Channels, lock'[c] # NoOne
                   PROVE  ChannelOf[lock'[c]] = c /\ wpc'[lock'[c]] \in InLock
        OBVIOUS
      <4>1. CASE c = ch
        BY <1>4, <2>2, <3>1, <4>1 DEF InLock
      <4>2. CASE c # ch
        BY <1>4, <1>6, <3>1, <4>2 DEF WriterInv, WriterTypeOK, LockInv
      <4> QED
        BY <4>1, <4>2
    <3> QED
      BY <3>2, <3>3 DEF LockInv
  <2> QED
    BY <1>2, <2>1, <2>2
<1>8. BufferedInv'
  BY <1>1, <1>3, <1>4, <1>6 DEF WriterInv, WriterTypeOK, BufferedInv, Buffered
<1>9. OrderInv'
  <2> SUFFICES ASSUME NEW c \in Channels
               PROVE  /\ \A n \in DOMAIN order[c] : /\ wpc'[order[c][n]] \in {"written", "sent", "failed"}
                                                     /\ ChannelOf[order[c][n]] = c
                      /\ lock'[c] # NoOne /\ wpc'[lock'[c]] = "written" =>
                           order[c] # <<>> /\ order[c][Len(order[c])] = lock'[c]
    BY <1>1 DEF WriterInv, OrderInv
  <2>1. \A n \in DOMAIN order[c] : order[c][n] \in Messages /\ order[c][n] # m
    <3>1. order[c] \in Seq(Messages)
      BY DEF WriterInv, WriterTypeOK
    <3>2. \A n \in DOMAIN order[c] : order[c][n] \in Messages
      BY <3>1
    <3>3. \A n \in DOMAIN order[c] : wpc[order[c][n]] # "start"
      BY DEF WriterInv, OrderInv
    <3> QED
      BY <1>4, <3>2, <3>3
  <2>2. lock'[c] = m => wpc'[lock'[c]] # "written"
    BY <1>2, <1>4
  <2>3. lock'[c] # m => lock'[c] = lock[c]
    BY <1>2, <1>3 DEF WriterInv, WriterTypeOK
  <2> QED
    BY <1>4, <2>1, <2>2, <2>3 DEF WriterInv, WriterTypeOK, OrderInv
<1> QED
  BY <1>5, <1>7, <1>8, <1>9 DEF WriterInv

LEMMA HolderStep ==
  ASSUME WriterInv, NEW m \in Messages, NEW from \in InLock, NEW to \in InLock, Goes(m, from, to),
         UNCHANGED lock
  PROVE  /\ LockInv' /\ lock[ChannelOf[m]] = m /\ m # NoOne /\ wpc[m] = from /\ wpc'[m] = to
         /\ wpc' \in [Messages -> InLock \cup {"start", "refused", "sent", "failed"}]
         /\ \A c \in Channels : c # ChannelOf[m] =>
              /\ Buffered(c)' = Buffered(c) /\ lock[c] # m
              /\ lock[c] # NoOne => wpc'[lock[c]] = wpc[lock[c]]
<1>1. /\ wpc[m] = from /\ wpc'[m] = to /\ lock[ChannelOf[m]] = m /\ m # NoOne
      /\ \A k \in Messages : k # m => wpc'[k] = wpc[k]
      /\ \A c \in Channels : c # ChannelOf[m] /\ lock[c] # NoOne =>
           lock[c] # m /\ wpc'[lock[c]] = wpc[lock[c]]
  BY WriterFrame, ChannelAssumption
<1>2. wpc' \in [Messages -> InLock \cup {"start", "refused", "sent", "failed"}]
  BY DEF Goes, WriterInv, WriterTypeOK
<1>3. LockInv'
  <2>1. \A k \in Messages : wpc'[k] \in InLock => lock[ChannelOf[k]] = k
    BY <1>1 DEF WriterInv, LockInv
  <2>2. \A c \in Channels : lock[c] # NoOne => ChannelOf[lock[c]] = c /\ wpc'[lock[c]] \in InLock
    BY <1>1 DEF WriterInv, LockInv
  <2> QED
    BY <2>1, <2>2 DEF LockInv
<1>4. ASSUME NEW c \in Channels, c # ChannelOf[m] PROVE Buffered(c)' = Buffered(c)
  BY <1>1, <1>4 DEF Buffered
<1> QED
  BY <1>1, <1>2, <1>3, <1>4

\* The order of writing does not change, nor does a frame become complete.
LEMMA SameOrder ==
  ASSUME WriterInv, NEW m \in Messages, UNCHANGED order,
         wpc[m] \notin {"written", "sent", "failed"} \/ wpc'[m] \in {"sent", "failed"},
         \A k \in Messages : k # m => wpc'[k] = wpc[k],
         \A c \in Channels : lock'[c] # NoOne /\ wpc'[lock'[c]] = "written" =>
           lock[c] = lock'[c] /\ wpc[lock[c]] = "written"
  PROVE  OrderInv'
<1> SUFFICES ASSUME NEW c \in Channels
             PROVE  /\ \A n \in DOMAIN order[c] : /\ wpc'[order[c][n]] \in {"written", "sent", "failed"}
                                                   /\ ChannelOf[order[c][n]] = c
                    /\ lock'[c] # NoOne /\ wpc'[lock'[c]] = "written" =>
                         order[c] # <<>> /\ order[c][Len(order[c])] = lock'[c]
  BY DEF WriterInv, OrderInv
<1>1. \A n \in DOMAIN order[c] : order[c][n] \in Messages
  BY DEF WriterInv, WriterTypeOK
<1>2. \A n \in DOMAIN order[c] : wpc[order[c][n]] \in {"written", "sent", "failed"}
  BY DEF WriterInv, OrderInv
<1>3. \A n \in DOMAIN order[c] : wpc'[order[c][n]] \in {"written", "sent", "failed"}
  BY <1>1, <1>2
<1> QED
  BY <1>3 DEF WriterInv, OrderInv

LEMMA FillHeaderWriter ==
  ASSUME WriterInv, NEW m \in Messages, FillHeader(m) PROVE WriterInv'
<1> DEFINE ch == ChannelOf[m]
<1>1. /\ Goes(m, "locked", "filled") /\ UNCHANGED <<lock, bw, order>>
      /\ hwbuf' = [hwbuf EXCEPT ![ch] = m] /\ ch \in Channels
  BY ChannelAssumption DEF FillHeader
<1>2. /\ LockInv' /\ lock[ch] = m /\ m # NoOne /\ wpc[m] = "locked" /\ wpc'[m] = "filled"
      /\ wpc' \in [Messages -> InLock \cup {"start", "refused", "sent", "failed"}]
      /\ \A c \in Channels : c # ch => /\ Buffered(c)' = Buffered(c) /\ lock[c] # m
                                       /\ lock[c] # NoOne => wpc'[lock[c]] = wpc[lock[c]]
  BY <1>1, HolderStep DEF InLock
<1>3. WriterTypeOK'
  BY <1>1, <1>2 DEF WriterInv, WriterTypeOK
<1>4. Buffered(ch)' = Buffered(ch)
  BY <1>1, <1>2 DEF Buffered
<1>5. BufferedInv'
  BY <1>1, <1>2, <1>4 DEF WriterInv, WriterTypeOK, BufferedInv
<1>6. OrderInv'
  BY <1>1, <1>2, WriterFrame, SameOrder
<1> QED
  BY <1>2, <1>3, <1>5, <1>6 DEF WriterInv

LEMMA WriteHeaderWriter ==
  ASSUME WriterInv, NEW m \in Messages, WriteHeader(m) PROVE WriterInv'
<1> DEFINE ch == ChannelOf[m]
<1>1. /\ Goes(m, "filled", "headed") /\ UNCHANGED <<lock, hwbuf, order>>
      /\ bw' = [bw EXCEPT ![ch] = @ \o Header(hwbuf[ch])] /\ ch \in Channels
  BY ChannelAssumption DEF WriteHeader
<1>2. /\ LockInv' /\ lock[ch] = m /\ m # NoOne /\ wpc[m] = "filled" /\ wpc'[m] = "headed"
      /\ wpc' \in [Messages -> InLock \cup {"start", "refused", "sent", "failed"}]
      /\ \A c \in Channels : c # ch => /\ Buffered(c)' = Buffered(c) /\ lock[c] # m
                                       /\ lock[c] # NoOne => wpc'[lock[c]] = wpc[lock[c]]
  BY <1>1, HolderStep DEF InLock
<1>3. bw[ch] = <<>> /\ hwbuf[ch] = m
  BY <1>1, <1>2 DEF WriterInv, BufferedInv, Buffered
<1>4. bw'[ch] = Header(m) /\ Header(m) \in Seq(Bytes)
  BY <1>1, <1>3, FrameBytes DEF WriterInv, WriterTypeOK
<1>5. Buffered(ch)' = Header(m)
  BY <1>1, <1>2 DEF Buffered
<1>6. WriterTypeOK'
  BY <1>1, <1>2, <1>3, <1>4 DEF WriterInv, WriterTypeOK
<1>7. BufferedInv'
  BY <1>1, <1>2, <1>4, <1>5 DEF WriterInv, WriterTypeOK, BufferedInv
<1>8. OrderInv'
  BY <1>1, <1>2, WriterFrame, SameOrder
<1> QED
  BY <1>2, <1>6, <1>7, <1>8 DEF WriterInv

LEMMA WritePayloadWriter ==
  ASSUME WriterInv, NEW m \in Messages, WritePayload(m) PROVE WriterInv'
<1> DEFINE ch == ChannelOf[m]
<1>1. /\ Goes(m, "headed", "written") /\ UNCHANGED <<lock, hwbuf>>
      /\ bw' = [bw EXCEPT ![ch] = @ \o Payload(m)] /\ ch \in Channels
      /\ order' = [order EXCEPT ![ch] = Append(@, m)]
  BY ChannelAssumption DEF WritePayload
<1>2. /\ LockInv' /\ lock[ch] = m /\ m # NoOne /\ wpc[m] = "headed" /\ wpc'[m] = "written"
      /\ wpc' \in [Messages -> InLock \cup {"start", "refused", "sent", "failed"}]
      /\ \A c \in Channels : c # ch => /\ Buffered(c)' = Buffered(c) /\ lock[c] # m
                                       /\ lock[c] # NoOne => wpc'[lock[c]] = wpc[lock[c]]
  BY <1>1, HolderStep DEF InLock
<1>3. bw[ch] = Header(m)
  BY <1>1, <1>2 DEF WriterInv, BufferedInv, Buffered
<1>4. bw'[ch] = Frame(m) /\ Frame(m) \in Seq(Bytes)
  BY <1>1, <1>3, FrameBytes DEF WriterInv, WriterTypeOK, Frame
<1>5. Buffered(ch)' = Frame(m)
  BY <1>1, <1>2 DEF Buffered
<1>6. WriterTypeOK'
  <2>1. order' \in [Channels -> Seq(Messages)]
    BY <1>1 DEF WriterInv, WriterTypeOK
  <2>2. bw' \in [Channels -> Seq(Bytes)]
    BY <1>1, <1>4 DEF WriterInv, WriterTypeOK
  <2> QED
    BY <1>1, <1>2, <2>1, <2>2 DEF WriterInv, WriterTypeOK
<1>7. BufferedInv'
  BY <1>1, <1>2, <1>4, <1>5 DEF WriterInv, WriterTypeOK, BufferedInv
<1>8. OrderInv'
  <2> SUFFICES ASSUME NEW c \in Channels
               PROVE  /\ \A n \in DOMAIN order'[c] : /\ wpc'[order'[c][n]] \in {"written", "sent", "failed"}
                                                     /\ ChannelOf[order'[c][n]] = c
                      /\ \A i, j \in DOMAIN order'[c] : order'[c][i] = order'[c][j] => i = j
                      /\ lock[c] # NoOne /\ wpc'[lock[c]] = "written" =>
                           order'[c] # <<>> /\ order'[c][Len(order'[c])] = lock[c]
    BY <1>1 DEF OrderInv
  <2>1. /\ order[c] \in Seq(Messages)
        /\ \A n \in DOMAIN order[c] : order[c][n] \in Messages
        /\ \A k \in Messages : k # m => wpc'[k] = wpc[k]
    BY <1>1, WriterFrame DEF WriterInv, WriterTypeOK
  <2>2. \A n \in DOMAIN order[c] : /\ wpc[order[c][n]] \in {"written", "sent", "failed"}
                                   /\ ChannelOf[order[c][n]] = c
    BY DEF WriterInv, OrderInv
  <2>3. \A n \in DOMAIN order[c] : /\ order[c][n] # m
                                   /\ wpc'[order[c][n]] \in {"written", "sent", "failed"}
    BY <1>2, <2>1, <2>2
  <2>4. CASE c # ch
    <3>1. order'[c] = order[c]
      BY <1>1, <2>4 DEF WriterInv, WriterTypeOK
    <3> QED
      BY <1>2, <2>2, <2>3, <2>4, <3>1 DEF WriterInv, OrderInv
  <2>5. CASE c = ch
    <3>1. /\ Len(order[c]) \in Nat /\ DOMAIN order[c] = 1 .. Len(order[c])
          /\ DOMAIN order'[c] = 1 .. Len(order[c]) + 1 /\ Len(order'[c]) = Len(order[c]) + 1
          /\ order'[c][Len(order[c]) + 1] = m
          /\ \A n \in DOMAIN order[c] : order'[c][n] = order[c][n]
      BY <1>1, <2>1, <2>5 DEF WriterInv, WriterTypeOK
    <3>2. \A n \in DOMAIN order'[c] : n \in DOMAIN order[c] \/ n = Len(order[c]) + 1
      BY <3>1
    <3>3. \A i, j \in DOMAIN order'[c] : order'[c][i] = order'[c][j] => i = j
      BY <2>3, <3>1, <3>2 DEF WriterInv, OrderInv
    <3> QED
      BY <1>2, <2>2, <2>3, <2>5, <3>1, <3>2, <3>3
  <2> QED
    BY <2>4, <2>5
<1> QED
  BY <1>2, <1>6, <1>7, <1>8 DEF WriterInv

LEMMA FlushWriter ==
  ASSUME WriterInv, NEW m \in Messages, Flush(m) PROVE WriterInv'
<1> DEFINE ch == ChannelOf[m]
<1>1. /\ lock' = [lock EXCEPT ![ch] = NoOne] /\ bw' = [bw EXCEPT ![ch] = <<>>]
      /\ UNCHANGED <<hwbuf, order>> /\ ch \in Channels
  BY ChannelAssumption DEF Flush
<1>2. PICK to \in {"sent", "failed"} : Goes(m, "written", to)
  BY DEF Flush
<1>3. /\ lock[ch] = m /\ wpc[m] = "written" /\ wpc'[m] = to
      /\ \A k \in Messages : k # m => wpc'[k] = wpc[k]
      /\ \A c \in Channels : c # ch /\ lock[c] # NoOne => lock[c] # m /\ wpc'[lock[c]] = wpc[lock[c]]
  BY <1>2, WriterFrame DEF InLock
<1>4. \A c \in Channels : /\ lock'[c] = IF c = ch THEN NoOne ELSE lock[c]
                          /\ bw'[c] = IF c = ch THEN <<>> ELSE bw[c]
  BY <1>1 DEF WriterInv, WriterTypeOK
<1>5. WriterTypeOK'
  BY <1>1, <1>2 DEF WriterInv, WriterTypeOK, Goes
<1>6. LockInv'
  <2>1. ASSUME NEW k \in Messages, wpc'[k] \in InLock PROVE lock'[ChannelOf[k]] = k
    <3>1. k # m
      BY <1>2, <1>3, <2>1 DEF InLock
    <3>2. lock[ChannelOf[k]] = k /\ ChannelOf[k] \in Channels
      BY <1>3, <2>1, <3>1, ChannelAssumption DEF WriterInv, LockInv
    <3> QED
      BY <1>3, <1>4, <3>1, <3>2
  <2>2. ASSUME NEW c \in Channels, lock'[c] # NoOne
        PROVE  ChannelOf[lock'[c]] = c /\ wpc'[lock'[c]] \in InLock
    BY <1>3, <1>4, <2>2 DEF WriterInv, LockInv
  <2> QED
    BY <2>1, <2>2 DEF LockInv
<1>7. BufferedInv'
  <2> SUFFICES ASSUME NEW c \in Channels
               PROVE  /\ lock'[c] # NoOne /\ wpc'[lock'[c]] = "filled" => hwbuf[c] = lock'[c]
                      /\ bw'[c] = Buffered(c)'
    BY <1>1 DEF BufferedInv
  <2>1. CASE c = ch
    BY <1>4, <2>1 DEF Buffered
  <2>2. CASE c # ch
    <3>1. Buffered(c)' = Buffered(c)
      BY <1>3, <1>4, <2>2 DEF Buffered
    <3> QED
      BY <1>3, <1>4, <2>2, <3>1 DEF WriterInv, BufferedInv
  <2> QED
    BY <2>1, <2>2
<1>8. OrderInv'
  <2>1. \A c \in Channels : lock'[c] # NoOne /\ wpc'[lock'[c]] = "written" =>
          lock[c] = lock'[c] /\ wpc[lock[c]] = "written"
    BY <1>3, <1>4
  <2> QED
    BY <1>1, <1>2, <1>3, <2>1, SameOrder
<1> QED
  BY <1>5, <1>6, <1>7, <1>8 DEF WriterInv

LEMMA WriterNext == WriterInv /\ [Next]_vars => WriterInv'
<1> SUFFICES ASSUME WriterInv, [Next]_vars PROVE WriterInv'
  OBVIOUS
<1>1. ASSUME NEW m \in Messages, Write(m) PROVE WriterInv'
  BY <1>1, SendBeginsWriter, FillHeaderWriter, WriteHeaderWriter, WritePayloadWriter, FlushWriter
  DEF Write
<1>2. UNCHANGED writerVars => WriterInv'
  BY DEF writerVars, WriterInv, WriterTypeOK, LockInv, BufferedInv, Buffered, OrderInv
<1>3. ASSUME NEW m \in Messages, Unmarshal(m) \/ PutBuffer(m) PROVE UNCHANGED writerVars
  BY <1>3 DEF Unmarshal, PutBuffer, consumeOnly
<1>4. ASSUME NEW ch \in Channels, Recv(ch) \/ ConnGoes(ch) PROVE UNCHANGED writerVars
  BY <1>4 DEF Recv, ConnGoes, Read, HeaderRead, Oversized, GetBuffer, PayloadRead, DeliverEmpty,
     RecvFails
<1>5. CASE UNCHANGED vars
  BY <1>2, <1>5 DEF vars
<1> QED
  BY <1>1, <1>2, <1>3, <1>4, <1>5 DEF Next

-----------------------------------------------------------------------------
(* What is on its way and the frame the reader is at.                      *)

ReaderTypeOK ==
  /\ net \in [Channels -> Seq(Bytes)] /\ broken \subseteq Channels
  /\ rpc \in [Channels -> {"header", "discard", "get", "payload", "deliver", "eof", "cut"}]
  /\ taken \in [Channels -> Seq(Bytes)]
  /\ head \in [Channels -> Messages \cup {NoOne}]
  /\ received \in [Channels -> Seq(Messages \X {"message", "oversized"})]

\* The frame the reader is at and how many of its bytes it has read.
Number(ch) == Len(received[ch]) + 1
Offset(ch) == (IF rpc[ch] = "header" THEN 0 ELSE HeaderLength) + Len(taken[ch])

ReadingFrame(ch) ==
  /\ rpc[ch] # "header" \/ taken[ch] # <<>> => Number(ch) \in DOMAIN order[ch]
  /\ rpc[ch] = "header" =>
       /\ Len(taken[ch]) <= HeaderLength
       /\ \A j \in DOMAIN taken[ch] : taken[ch][j] = <<order[ch][Number(ch)], j>>
  /\ rpc[ch] # "header" =>
       /\ head[ch] = order[ch][Number(ch)] /\ Len(taken[ch]) <= SizeOf[head[ch]]
       /\ \A j \in DOMAIN taken[ch] : taken[ch][j] = <<head[ch], HeaderLength + j>>
  /\ rpc[ch] = "discard" => TooLong(head[ch])
  /\ rpc[ch] \in {"get", "payload"} => ~TooLong(head[ch]) /\ SizeOf[head[ch]] > 0
  /\ rpc[ch] = "deliver" => ~TooLong(head[ch]) /\ SizeOf[head[ch]] = 0
  /\ rpc[ch] \in {"get", "deliver"} => taken[ch] = <<>>

\* In s no frame is interrupted, and frames follow each other in order.
Framed(ch, s) ==
  /\ \A j, k \in DOMAIN s : j <= k /\ s[j][2] + (k - j) <= Whole(s[j][1]) =>
       s[k] = <<s[j][1], s[j][2] + (k - j)>>
  /\ \A j \in DOMAIN s : j + 1 \in DOMAIN s /\ s[j][2] = Whole(s[j][1]) =>
       \E n \in DOMAIN order[ch] : /\ n + 1 \in DOMAIN order[ch] /\ order[ch][n] = s[j][1]
                                   /\ s[j + 1] = <<order[ch][n + 1], 1>>

\* Byte b comes after the first i bytes of the n-th frame.
Follows(ch, n, i, b) ==
  IF i = 0 \/ i < Whole(order[ch][n])
  THEN n \in DOMAIN order[ch] /\ b = <<order[ch][n], i + 1>>
  ELSE n + 1 \in DOMAIN order[ch] /\ b = <<order[ch][n + 1], 1>>

\* The frame that is handed to the connection next.
NextFrame(ch) ==
  IF lock[ch] # NoOne /\ wpc[lock[ch]] = "written" THEN Len(order[ch]) ELSE Len(order[ch]) + 1
\* Nothing is missing between the reader and that frame.
EndsAt(ch, s) ==
  /\ NextFrame(ch) - 1 \in DOMAIN order[ch]
  /\ s[Len(s)] = <<order[ch][NextFrame(ch) - 1], Whole(order[ch][NextFrame(ch) - 1])>>
AtEnd(ch, n, i) ==
  IF i = 0 THEN n = NextFrame(ch) ELSE n + 1 = NextFrame(ch) /\ i = Whole(order[ch][n])

Going(ch) == rpc[ch] \notin {"eof", "cut"}
StartsRight(ch) == net[ch] # <<>> => Follows(ch, Number(ch), Offset(ch), net[ch][1])
EndsRight(ch) ==
  ch \notin broken => IF net[ch] = <<>> THEN AtEnd(ch, Number(ch), Offset(ch)) ELSE EndsAt(ch, net[ch])
Delivered(ch) ==
  /\ Len(received[ch]) <= Len(order[ch])
  /\ \A n \in DOMAIN received[ch] : received[ch][n] = Expected(ch)[n]
StreamInv(ch) ==
  /\ Going(ch) => ReadingFrame(ch) /\ Framed(ch, net[ch]) /\ StartsRight(ch) /\ EndsRight(ch)
  /\ Delivered(ch)
ReaderInv == ReaderTypeOK /\ \A ch \in Channels : StreamInv(ch)

LEMMA ReaderInit == Init => ReaderInv
<1> SUFFICES ASSUME Init PROVE ReaderInv
  OBVIOUS
<1>1. ReaderTypeOK
  BY DEF Init, ReaderTypeOK
<1>2. ASSUME NEW ch \in Channels PROVE StreamInv(ch)
  <2>1. /\ net[ch] = <<>> /\ received[ch] = <<>> /\ rpc[ch] = "header" /\ taken[ch] = <<>>
        /\ order[ch] = <<>> /\ lock[ch] = NoOne
    BY DEF Init
  <2>2. Number(ch) = 1 /\ Offset(ch) = 0 /\ NextFrame(ch) = 1
    BY <2>1 DEF Number, Offset, NextFrame
  <2>3. ReadingFrame(ch)
    BY <2>1, ChannelAssumption DEF ReadingFrame
  <2>4. Framed(ch, net[ch]) /\ StartsRight(ch) /\ EndsRight(ch)
    BY <2>1, <2>2 DEF Framed, StartsRight, EndsRight, AtEnd
  <2> QED
    BY <2>1, <2>3, <2>4 DEF StreamInv, Delivered
<1> QED
  BY <1>1, <1>2 DEF ReaderInv

LEMMA ReaderNumbers ==
  ASSUME ReaderTypeOK, WriterTypeOK, NEW ch \in Channels
  PROVE  /\ Number(ch) \in Nat /\ Number(ch) > 0 /\ Offset(ch) \in Nat /\ Len(taken[ch]) \in Nat
         /\ Len(received[ch]) \in Nat
         /\ net[ch] \in Seq(Bytes) /\ taken[ch] \in Seq(Bytes) /\ order[ch] \in Seq(Messages)
         /\ received[ch] \in Seq(Messages \X {"message", "oversized"})
         /\ Len(order[ch]) \in Nat /\ DOMAIN order[ch] = 1 .. Len(order[ch])
         /\ \A n \in DOMAIN order[ch] : order[ch][n] \in Messages
<1>1. /\ net[ch] \in Seq(Bytes) /\ taken[ch] \in Seq(Bytes) /\ order[ch] \in Seq(Messages)
      /\ received[ch] \in Seq(Messages \X {"message", "oversized"})
  BY DEF ReaderTypeOK, WriterTypeOK
<1>2. Len(received[ch]) \in Nat /\ Len(taken[ch]) \in Nat /\ HeaderLength \in Nat
  BY <1>1, ChannelAssumption
<1>3. Number(ch) \in Nat /\ Number(ch) > 0
  BY <1>2 DEF Number
<1>4. Offset(ch) \in Nat
  <2>1. CASE rpc[ch] = "header"
    BY <1>2, <2>1 DEF Offset
  <2>2. CASE rpc[ch] # "header"
    BY <1>2, <2>2 DEF Offset
  <2> QED
    BY <2>1, <2>2
<1>5. /\ Len(order[ch]) \in Nat /\ DOMAIN order[ch] = 1 .. Len(order[ch])
      /\ \A n \in DOMAIN order[ch] : order[ch][n] \in Messages
  BY <1>1
<1> QED
  BY <1>1, <1>2, <1>3, <1>4, <1>5

\* A step that changes nothing of a channel, except that it may break.
LEMMA SameStream ==
  ASSUME NEW ch \in Channels, StreamInv(ch), ch \in broken => ch \in broken',
         net'[ch] = net[ch], rpc'[ch] = rpc[ch], taken'[ch] = taken[ch], head'[ch] = head[ch],
         received'[ch] = received[ch], order'[ch] = order[ch], NextFrame(ch)' = NextFrame(ch)
  PROVE  StreamInv(ch)'
<1>1. Number(ch)' = Number(ch) /\ Offset(ch)' = Offset(ch)
  BY DEF Number, Offset
<1>2. Delivered(ch)'
  BY DEF StreamInv, Delivered, Expected
<1>3. ASSUME Going(ch) PROVE ReadingFrame(ch)' /\ Framed(ch, net[ch])' /\ StartsRight(ch)' /\ EndsRight(ch)'
  <2>1. ReadingFrame(ch)'
    BY <1>1, <1>3 DEF StreamInv, ReadingFrame
  <2>2. Framed(ch, net[ch])'
    BY <1>3 DEF StreamInv, Framed
  <2>3. StartsRight(ch)'
    BY <1>1, <1>3 DEF StreamInv, StartsRight, Follows
  <2>4. EndsRight(ch)'
    BY <1>1, <1>3 DEF StreamInv, EndsRight, AtEnd, EndsAt
  <2> QED
    BY <2>1, <2>2, <2>3, <2>4
<1> QED
  BY <1>2, <1>3 DEF StreamInv, Going

\* A step of the reader of a channel changes nothing of the others.
LEMMA OtherStreams ==
  ASSUME NEW ch \in Channels, ReaderInv, UNCHANGED writerVars, broken \subseteq broken',
         \A c \in Channels : c # ch =>
           /\ net'[c] = net[c] /\ rpc'[c] = rpc[c] /\ taken'[c] = taken[c] /\ head'[c] = head[c]
           /\ received'[c] = received[c],
         StreamInv(ch)'
  PROVE  \A c \in Channels : StreamInv(c)'
<1> SUFFICES ASSUME NEW c \in Channels, c # ch PROVE StreamInv(c)'
  OBVIOUS
<1>1. NextFrame(c)' = NextFrame(c) /\ order'[c] = order[c]
  BY DEF writerVars, NextFrame
<1> QED
  BY <1>1, SameStream DEF ReaderInv

-----------------------------------------------------------------------------
(* Reading.                                                                *)

\* Bytes of s up to the end of a frame.
LEMMA ReadBytes ==
  ASSUME NEW ch, NEW s \in Seq(Bytes), Framed(ch, s), NEW n \in 1 .. Len(s), NEW m \in Messages,
         NEW o \in Nat, s[1] = <<m, o + 1>>, o + n <= Whole(m)
  PROVE  \A k \in 1 .. n : s[k] = <<m, o + k>>
<1> SUFFICES ASSUME NEW k \in 1 .. n PROVE s[k] = <<m, o + k>>
  OBVIOUS
<1>1. 1 \in DOMAIN s /\ k \in DOMAIN s /\ 1 <= k
  OBVIOUS
<1>2. s[1][1] = m /\ s[1][2] = o + 1 /\ (o + 1) + (k - 1) = o + k /\ Whole(m) \in Nat
  BY FrameBytes
<1>3. s[1][2] + (k - 1) <= Whole(s[1][1])
  BY <1>2
<1>4. s[k] = <<s[1][1], s[1][2] + (k - 1)>>
  BY <1>1, <1>3 DEF Framed
<1> QED
  BY <1>2, <1>4

LEMMA FramedSuffix ==
  ASSUME NEW ch, NEW s \in Seq(Bytes), Framed(ch, s), NEW n \in 1 .. Len(s)
  PROVE  Framed(ch, SubSeq(s, n + 1, Len(s)))
<1> DEFINE t == SubSeq(s, n + 1, Len(s))
<1>1. /\ t \in Seq(Bytes) /\ Len(t) = Len(s) - n /\ DOMAIN t = 1 .. Len(s) - n
      /\ \A j \in DOMAIN t : j + n \in DOMAIN s /\ t[j] = s[j + n]
  OBVIOUS
<1> HIDE DEF t
<1>2. ASSUME NEW j \in DOMAIN t, NEW k \in DOMAIN t, j <= k,
             t[j][2] + (k - j) <= Whole(t[j][1])
      PROVE  t[k] = <<t[j][1], t[j][2] + (k - j)>>
  <2>1. /\ j + n \in DOMAIN s /\ k + n \in DOMAIN s /\ j + n <= k + n
        /\ (k + n) - (j + n) = k - j /\ t[j] = s[j + n] /\ t[k] = s[k + n]
    BY <1>1, <1>2
  <2> QED
    BY <1>2, <2>1 DEF Framed
<1>3. ASSUME NEW j \in DOMAIN t, j + 1 \in DOMAIN t, t[j][2] = Whole(t[j][1])
      PROVE  \E i \in DOMAIN order[ch] : /\ i + 1 \in DOMAIN order[ch] /\ order[ch][i] = t[j][1]
                                         /\ t[j + 1] = <<order[ch][i + 1], 1>>
  <2>1. /\ j + n \in DOMAIN s /\ (j + n) + 1 \in DOMAIN s /\ t[j] = s[j + n]
        /\ t[j + 1] = s[(j + n) + 1]
    BY <1>1, <1>3
  <2> QED
    BY <1>3, <2>1 DEF Framed
<1>4. Framed(ch, t)
  BY <1>2, <1>3 DEF Framed
<1> QED
  BY <1>4 DEF t

-----------------------------------------------------------------------------
(* A frame is handed to the connection.                                    *)

\* The first bytes of the frame of m, the next one, come after those of net.
LEMMA FramedAppend ==
  ASSUME WriterTypeOK, ReaderTypeOK, NEW ch \in Channels, NEW m \in Messages,
         NEW p \in Seq(Bytes), Len(p) <= Whole(m), \A i \in DOMAIN p : p[i] = <<m, i>>,
         NextFrame(ch) \in DOMAIN order[ch], order[ch][NextFrame(ch)] = m,
         Framed(ch, net[ch]), net[ch] # <<>> => EndsAt(ch, net[ch])
  PROVE  Framed(ch, net[ch] \o p)
<1> DEFINE s == net[ch] \o p
           l == Len(net[ch])
<1>1. /\ net[ch] \in Seq(Bytes) /\ order[ch] \in Seq(Messages) /\ l \in Nat /\ Len(p) \in Nat
      /\ DOMAIN order[ch] = 1 .. Len(order[ch]) /\ \A n \in DOMAIN order[ch] : order[ch][n] \in Messages
  BY ReaderNumbers
<1>2. /\ s \in Seq(Bytes) /\ DOMAIN s = 1 .. l + Len(p)
      /\ \A j \in DOMAIN s : j <= l => j \in DOMAIN net[ch] /\ s[j] = net[ch][j]
      /\ \A j \in DOMAIN s : ~(j <= l) => j - l \in DOMAIN p /\ s[j] = p[j - l]
  BY <1>1
<1>3. \A j \in DOMAIN s : ~(j <= l) => s[j][1] = m /\ s[j][2] = j - l /\ s[j] = <<m, j - l>>
  BY <1>2
<1>4. \A j \in DOMAIN s : s[j][1] \in Messages /\ s[j][2] \in Nat
  BY <1>2 DEF Bytes
<1>5. Whole(m) \in Nat /\ Len(order[ch]) \in Nat
  BY <1>1, FrameBytes
<1> HIDE DEF s, l
<1>6. ASSUME NEW j \in DOMAIN s, NEW k \in DOMAIN s, j <= k, s[j][2] + (k - j) <= Whole(s[j][1])
      PROVE  s[k] = <<s[j][1], s[j][2] + (k - j)>>
  <2>1. CASE k <= l
    <3>1. j <= l
      BY <1>1, <1>2, <1>6, <2>1
    <3>2. /\ j \in DOMAIN net[ch] /\ k \in DOMAIN net[ch]
          /\ s[j] = net[ch][j] /\ s[k] = net[ch][k]
      BY <1>2, <2>1, <3>1
    <3> QED
      BY <1>6, <3>2 DEF Framed
  <2>2. CASE ~(j <= l)
    <3>1. ~(k <= l) /\ (j - l) + (k - j) = k - l
      <4>1. j \in Nat /\ k \in Nat /\ l \in Nat
        BY <1>1, <1>2
      <4>2. \A a, b, c \in Nat : (a - c) + (b - a) = b - c /\ (a <= b /\ ~(a <= c) => ~(b <= c))
        OBVIOUS
      <4> QED
        BY <1>6, <2>2, <4>1, <4>2
    <3> QED
      BY <1>3, <2>2, <3>1
  <2>3. CASE j <= l /\ ~(k <= l)
    <3>1. /\ l \in DOMAIN net[ch] /\ l \in DOMAIN s /\ j \in DOMAIN net[ch] /\ s[j] = net[ch][j]
          /\ net[ch] # <<>>
      BY <1>1, <1>2, <2>3 DEF l
    <3>2. PICK q \in Messages : net[ch][l] = <<q, Whole(q)>> /\ Whole(q) \in Nat
      BY <1>1, <3>1, FrameBytes DEF EndsAt, l
    <3>3. s[j][2] \in Nat /\ s[j][1] \in Messages /\ Whole(s[j][1]) \in Nat /\ j \in Nat /\ k \in Nat
      BY <1>2, <1>4, FrameBytes
    <3>4. s[j][2] + (l - j) <= Whole(s[j][1])
      BY <1>1, <1>6, <2>3, <3>3
    <3>5. net[ch][l] = <<s[j][1], s[j][2] + (l - j)>>
      BY <2>3, <3>1, <3>4 DEF Framed
    <3>6. Whole(s[j][1]) = s[j][2] + (l - j)
      BY <3>2, <3>5
    <3> QED
      BY <1>1, <1>6, <2>3, <3>3, <3>6
  <2> QED
    BY <2>1, <2>2, <2>3
<1>7. ASSUME NEW j \in DOMAIN s, j + 1 \in DOMAIN s, s[j][2] = Whole(s[j][1])
      PROVE  \E n \in DOMAIN order[ch] : /\ n + 1 \in DOMAIN order[ch] /\ order[ch][n] = s[j][1]
                                         /\ s[j + 1] = <<order[ch][n + 1], 1>>
  <2>1. CASE j < l
    <3>1. j \in DOMAIN net[ch] /\ j + 1 \in DOMAIN net[ch] /\ s[j] = net[ch][j] /\ s[j + 1] = net[ch][j + 1]
      BY <1>1, <1>2, <1>7, <2>1
    <3> QED
      BY <1>7, <3>1 DEF Framed
  <2>2. CASE j = l
    <3>1. j \in DOMAIN net[ch] /\ s[j] = net[ch][j] /\ net[ch] # <<>>
      <4>1. j <= l
        BY <1>1, <2>2
      <4>2. j \in DOMAIN net[ch] /\ s[j] = net[ch][j]
        BY <1>2, <4>1
      <4> QED
        BY <4>2
    <3>2. NextFrame(ch) - 1 \in DOMAIN order[ch] /\ s[j][1] = order[ch][NextFrame(ch) - 1]
      BY <2>2, <3>1 DEF EndsAt, l
    <3>3. s[j + 1] = <<m, 1>>
      <4>1. ~(l + 1 <= l) /\ (l + 1) - l = 1
        BY <1>1
      <4> QED
        BY <1>3, <1>7, <2>2, <4>1
    <3>4. (NextFrame(ch) - 1) + 1 = NextFrame(ch)
      BY <1>1
    <3> QED
      BY <3>2, <3>3, <3>4
  <2>3. CASE ~(j <= l)
    <3>1. s[j][1] = m /\ s[j][2] = j - l
      BY <1>3, <2>3
    <3>2. j + 1 <= l + Len(p)
      BY <1>2, <1>7
    <3>3. j \in Nat
      BY <1>2
    <3> QED
      BY <1>1, <1>5, <1>7, <3>1, <3>2, <3>3
  <2> QED
    BY <1>1, <1>2, <2>1, <2>2, <2>3
<1>8. Framed(ch, s)
  BY <1>6, <1>7 DEF Framed
<1> QED
  BY <1>8 DEF s

\* What the reader of a channel has, when only the writers do something.
LEMMA SameReader ==
  ASSUME WriterTypeOK, WriterTypeOK', NEW ch \in Channels, StreamInv(ch),
         rpc'[ch] = rpc[ch], taken'[ch] = taken[ch], head'[ch] = head[ch], received'[ch] = received[ch],
         Len(order[ch]) <= Len(order'[ch]), \A n \in DOMAIN order[ch] : order'[ch][n] = order[ch][n]
  PROVE  /\ Number(ch)' = Number(ch) /\ Offset(ch)' = Offset(ch) /\ Delivered(ch)'
         /\ Going(ch) => ReadingFrame(ch)'
         /\ Going(ch)' = Going(ch)
<1>1. Number(ch)' = Number(ch) /\ Offset(ch)' = Offset(ch) /\ Going(ch)' = Going(ch)
  BY DEF Number, Offset, Going
<1>2. /\ order[ch] \in Seq(Messages) /\ order'[ch] \in Seq(Messages)
      /\ DOMAIN order[ch] \subseteq DOMAIN order'[ch]
  BY DEF WriterTypeOK
<1>3. Delivered(ch)'
  <2>1. Len(received[ch]) <= Len(order'[ch])
    BY <1>2 DEF StreamInv, Delivered
  <2>2. ASSUME NEW n \in DOMAIN received[ch] PROVE received[ch][n] = Expected(ch)[n]'
    <3>1. received[ch][n] = Expected(ch)[n]
      BY DEF StreamInv, Delivered
    <3>2. n \in DOMAIN order[ch]
      BY <1>2 DEF StreamInv, Delivered
    <3> QED
      BY <1>2, <3>1, <3>2 DEF Expected
  <2> QED
    BY <2>1, <2>2 DEF Delivered
<1>4. ASSUME Going(ch) PROVE ReadingFrame(ch)'
  BY <1>1, <1>2, <1>4 DEF StreamInv, ReadingFrame
<1> QED
  BY <1>1, <1>3, <1>4

\* Past the first byte of a frame the reader is at a frame that was written.
LEMMA OffsetInFrame ==
  ASSUME WriterTypeOK, ReaderTypeOK, NEW ch \in Channels, ReadingFrame(ch), Offset(ch) # 0
  PROVE  Number(ch) \in DOMAIN order[ch]
<1>1. CASE rpc[ch] = "header"
  <2>1. Len(taken[ch]) # 0
    BY <1>1, ReaderNumbers DEF Offset
  <2>2. taken[ch] # <<>>
    BY <2>1
  <2> QED
    BY <2>2 DEF ReadingFrame
<1>2. CASE rpc[ch] # "header"
  BY <1>2 DEF ReadingFrame
<1> QED
  BY <1>1, <1>2

\* Another message is written, and not yet handed to the connection.
LEMMA GrownStream ==
  ASSUME WriterTypeOK, WriterTypeOK', ReaderTypeOK, NEW ch \in Channels, StreamInv(ch),
         UNCHANGED <<net, broken, readerVars>>, NextFrame(ch)' = NextFrame(ch),
         Len(order[ch]) <= Len(order'[ch]), \A n \in DOMAIN order[ch] : order'[ch][n] = order[ch][n]
  PROVE  StreamInv(ch)'
<1>1. /\ Number(ch)' = Number(ch) /\ Offset(ch)' = Offset(ch) /\ Delivered(ch)'
      /\ Going(ch) => ReadingFrame(ch)'
      /\ Going(ch)' = Going(ch)
  BY SameReader DEF readerVars
<1>2. /\ order[ch] \in Seq(Messages) /\ order'[ch] \in Seq(Messages)
      /\ DOMAIN order[ch] = 1 .. Len(order[ch]) /\ DOMAIN order'[ch] = 1 .. Len(order'[ch])
      /\ DOMAIN order[ch] \subseteq DOMAIN order'[ch]
  BY DEF WriterTypeOK
<1>3. ASSUME Going(ch) PROVE Framed(ch, net[ch])' /\ StartsRight(ch)' /\ EndsRight(ch)'
  <2>1. /\ ReadingFrame(ch) /\ Framed(ch, net[ch]) /\ StartsRight(ch) /\ EndsRight(ch)
        /\ net'[ch] = net[ch] /\ broken' = broken
    BY <1>3 DEF StreamInv
  <2>2. Framed(ch, net[ch])'
    BY <1>2, <2>1 DEF Framed
  <2>3. Offset(ch) # 0 => Number(ch) \in DOMAIN order[ch]
    BY <2>1, OffsetInFrame
  <2>4. StartsRight(ch)'
    <3> SUFFICES ASSUME net[ch] # <<>> PROVE Follows(ch, Number(ch), Offset(ch), net[ch][1])'
      BY <2>1 DEF StartsRight
    <3>1. Follows(ch, Number(ch), Offset(ch), net[ch][1])
      BY <2>1 DEF StartsRight
    <3>2. Offset(ch) # 0 => order'[ch][Number(ch)] = order[ch][Number(ch)]
      BY <2>3
    <3> QED
      BY <1>1, <1>2, <2>1, <3>1, <3>2 DEF Follows
  <2>5. EndsRight(ch)'
    BY <1>1, <1>2, <2>1, <2>3 DEF EndsRight, AtEnd, EndsAt
  <2> QED
    BY <2>2, <2>4, <2>5
<1> QED
  BY <1>1, <1>3 DEF StreamInv

\* A prefix of the frame of m goes after what is in net; unless it is the whole
\* frame, the connection is gone.
LEMMA FlushStream ==
  ASSUME WriterTypeOK, WriterTypeOK', ReaderTypeOK, NEW ch \in Channels, StreamInv(ch), NEW m \in Messages,
         UNCHANGED <<readerVars, order>>, ch \notin broken,
         NextFrame(ch) \in DOMAIN order[ch], order[ch][NextFrame(ch)] = m,
         NextFrame(ch)' = NextFrame(ch) + 1,
         NEW p \in Seq(Bytes), Len(p) <= Whole(m), \A i \in DOMAIN p : p[i] = <<m, i>>,
         net'[ch] = net[ch] \o p, ch \notin broken' => Len(p) = Whole(m)
  PROVE  StreamInv(ch)'
<1>1. /\ Number(ch)' = Number(ch) /\ Offset(ch)' = Offset(ch) /\ Delivered(ch)'
      /\ Going(ch) => ReadingFrame(ch)'
      /\ Going(ch)' = Going(ch)
  BY SameReader DEF readerVars
<1>2. /\ order[ch] \in Seq(Messages) /\ DOMAIN order[ch] = 1 .. Len(order[ch]) /\ Len(order[ch]) \in Nat
      /\ net[ch] \in Seq(Bytes)
  BY ReaderNumbers
<1>3. ASSUME Going(ch) PROVE Framed(ch, net[ch])' /\ StartsRight(ch)' /\ EndsRight(ch)'
  <2>1. /\ ReadingFrame(ch) /\ Framed(ch, net[ch]) /\ StartsRight(ch)
        /\ IF net[ch] = <<>> THEN AtEnd(ch, Number(ch), Offset(ch)) ELSE EndsAt(ch, net[ch])
    BY <1>3 DEF StreamInv, EndsRight
  <2>2. Framed(ch, net[ch] \o p)
    BY <2>1, FramedAppend
  <2>3. Framed(ch, net[ch])'
    BY <2>2 DEF Framed
  <2>4. Whole(m) \in Nat /\ Whole(m) > 0
    BY FrameBytes DEF Whole
  <2>5. StartsRight(ch)'
    <3> SUFFICES ASSUME net'[ch] # <<>> PROVE Follows(ch, Number(ch), Offset(ch), net[ch][1])'
      BY DEF StartsRight
    <3>1. CASE net[ch] # <<>>
      <4>1. net'[ch][1] = net[ch][1]
        BY <1>2, <3>1
      <4> QED
        BY <1>1, <2>1, <3>1, <4>1 DEF StartsRight, Follows
    <3>2. CASE net[ch] = <<>>
      <4>1. net'[ch] = p /\ p # <<>>
        BY <3>2
      <4>2. net'[ch][1] = <<m, 1>>
        BY <4>1
      <4>3. AtEnd(ch, Number(ch), Offset(ch))
        BY <2>1, <3>2
      <4>4. CASE Offset(ch) = 0
        BY <1>1, <4>2, <4>3, <4>4 DEF Follows, AtEnd
      <4>5. CASE Offset(ch) # 0
        <5>1. Number(ch) + 1 = NextFrame(ch) /\ Offset(ch) = Whole(order[ch][Number(ch)])
          BY <4>3, <4>5 DEF AtEnd
        <5>2. Offset(ch) \in Nat /\ ~(Offset(ch) < Whole(order[ch][Number(ch)]))
          BY <5>1, ReaderNumbers
        <5> QED
          BY <1>1, <4>2, <4>5, <5>1, <5>2 DEF Follows
      <4> QED
        BY <4>4, <4>5
    <3> QED
      BY <3>1, <3>2
  <2>6. EndsRight(ch)'
    <3> SUFFICES ASSUME ch \notin broken' PROVE net'[ch] # <<>> /\ EndsAt(ch, net[ch])'
      BY DEF EndsRight
    <3>1. Len(p) = Whole(m) /\ Len(p) > 0 /\ p[Len(p)] = <<m, Whole(m)>>
      BY <2>4
    <3>2. net'[ch] # <<>> /\ net'[ch][Len(net'[ch])] = p[Len(p)]
      BY <1>2, <2>4, <3>1
    <3>3. NextFrame(ch)' - 1 = NextFrame(ch)
      BY <1>2
    <3> QED
      BY <3>1, <3>2, <3>3 DEF EndsAt
  <2> QED
    BY <2>3, <2>5, <2>6
<1> QED
  BY <1>1, <1>3 DEF StreamInv

\* A writer moves the frames of its own channel only.
LEMMA OtherFrames ==
  ASSUME WriterInv, NEW m \in Messages, NEW from, NEW to, Goes(m, from, to),
         NEW c \in Channels, c # ChannelOf[m], lock'[c] = lock[c], order'[c] = order[c]
  PROVE  NextFrame(c)' = NextFrame(c)
<1>1. lock[c] # NoOne => lock[c] \in Messages /\ lock[c] # m
  BY DEF WriterInv, WriterTypeOK, LockInv
<1>2. lock[c] # NoOne => wpc'[lock[c]] = wpc[lock[c]]
  BY <1>1, WriterFrame
<1> QED
  BY <1>2 DEF NextFrame

LEMMA WriteReader ==
  ASSUME WriterInv, WriterInv', ReaderInv, NEW m \in Messages,
         SendBegins(m) \/ FillHeader(m) \/ WriteHeader(m) \/ WritePayload(m)
  PROVE  ReaderInv'
<1> DEFINE ch == ChannelOf[m]
<1>1. /\ UNCHANGED <<net, broken, readerVars>> /\ ch \in Channels /\ m # NoOne
      /\ WriterTypeOK /\ WriterTypeOK' /\ ReaderTypeOK
  BY ChannelAssumption DEF SendBegins, FillHeader, WriteHeader, WritePayload, writeOnly,
     ReaderInv, WriterInv
<1>2. ReaderTypeOK'
  BY <1>1 DEF ReaderTypeOK, readerVars
<1>3. SUFFICES ASSUME NEW c \in Channels
               PROVE  /\ Len(order[c]) <= Len(order'[c])
                      /\ \A n \in DOMAIN order[c] : order'[c][n] = order[c][n]
                      /\ NextFrame(c)' = NextFrame(c)
  BY <1>1, <1>2, GrownStream DEF ReaderInv
<1>4. order[c] \in Seq(Messages) /\ Len(order[c]) \in Nat
  BY <1>1 DEF WriterTypeOK
<1>5. CASE SendBegins(m)
  <2>1. UNCHANGED order
    BY <1>5 DEF SendBegins
  <2>2. PICK to \in {"refused", "locked"} : Goes(m, "start", to)
    BY <1>5 DEF SendBegins
  <2>3. CASE c # ch
    <3>1. lock'[c] = lock[c]
      BY <1>1, <1>5, <2>3 DEF SendBegins, WriterTypeOK
    <3> QED
      BY <1>4, <2>1, <2>2, <2>3, <3>1, OtherFrames
  <2>4. CASE c = ch
    <3>1. wpc'[m] = to /\ lock[c] = NoOne /\ lock'[c] \in {m, NoOne}
      BY <1>1, <1>5, <2>2, <2>4, WriterFrame DEF SendBegins, LockFree, WriterTypeOK
    <3>2. NextFrame(c)' = NextFrame(c)
      BY <2>1, <2>2, <3>1 DEF NextFrame
    <3> QED
      BY <1>4, <2>1, <3>2
  <2> QED
    BY <2>3, <2>4
<1>6. CASE FillHeader(m) \/ WriteHeader(m)
  <2>1. UNCHANGED <<order, lock>>
    BY <1>6 DEF FillHeader, WriteHeader
  <2>2. PICK from \in {"locked", "filled"}, to \in {"filled", "headed"} : Goes(m, from, to)
    BY <1>6 DEF FillHeader, WriteHeader
  <2>3. CASE c # ch
    BY <1>4, <2>1, <2>2, <2>3, OtherFrames
  <2>4. CASE c = ch
    <3>1. wpc[m] = from /\ wpc'[m] = to /\ lock[c] = m
      BY <2>2, <2>4, WriterFrame DEF InLock
    <3>2. NextFrame(c)' = NextFrame(c)
      BY <2>1, <2>2, <3>1 DEF NextFrame
    <3> QED
      BY <1>4, <2>1, <3>2
  <2> QED
    BY <2>3, <2>4
<1>7. CASE WritePayload(m)
  <2>1. UNCHANGED lock /\ Goes(m, "headed", "written") /\ order' = [order EXCEPT ![ch] = Append(@, m)]
    BY <1>7 DEF WritePayload
  <2>2. CASE c # ch
    <3>1. order'[c] = order[c]
      BY <1>1, <2>1, <2>2 DEF WriterTypeOK
    <3> QED
      BY <1>4, <2>1, <2>2, <3>1, OtherFrames
  <2>3. CASE c = ch
    <3>1. wpc[m] = "headed" /\ wpc'[m] = "written" /\ lock[c] = m
      BY <2>1, <2>3, WriterFrame DEF InLock
    <3>2. order'[c] = Append(order[c], m)
      BY <1>1, <2>1, <2>3 DEF WriterTypeOK
    <3>3. /\ Len(order'[c]) = Len(order[c]) + 1
          /\ \A n \in DOMAIN order[c] : order'[c][n] = order[c][n]
      BY <1>4, <3>2
    <3>4. NextFrame(c)' = NextFrame(c)
      BY <1>1, <2>1, <3>1, <3>3 DEF NextFrame
    <3> QED
      BY <1>4, <3>3, <3>4
  <2> QED
    BY <2>2, <2>3
<1> QED
  BY <1>5, <1>6, <1>7

LEMMA FlushReader ==
  ASSUME WriterInv, WriterInv', ReaderInv, NEW m \in Messages, Flush(m)
  PROVE  ReaderInv'
<1> DEFINE ch == ChannelOf[m]
<1>1. /\ UNCHANGED <<readerVars, order>> /\ ch \in Channels /\ m # NoOne
      /\ WriterTypeOK /\ WriterTypeOK' /\ ReaderTypeOK
      /\ lock' = [lock EXCEPT ![ch] = NoOne]
  BY ChannelAssumption DEF Flush, ReaderInv, WriterInv
<1>2. PICK to \in {"sent", "failed"} : Goes(m, "written", to)
  BY DEF Flush
<1>3. wpc[m] = "written" /\ lock[ch] = m
  BY <1>2, WriterFrame DEF InLock
<1>4. /\ bw[ch] = Frame(m) /\ Len(order[ch]) \in Nat /\ order[ch] # <<>>
      /\ order[ch][Len(order[ch])] = m /\ DOMAIN order[ch] = 1 .. Len(order[ch])
  <2>1. bw[ch] = Frame(m)
    BY <1>1, <1>3 DEF WriterInv, BufferedInv, Buffered
  <2>2. order[ch] # <<>> /\ order[ch][Len(order[ch])] = m
    BY <1>1, <1>3 DEF WriterInv, OrderInv
  <2>3. order[ch] \in Seq(Messages)
    BY <1>1 DEF WriterTypeOK
  <2> QED
    BY <2>1, <2>2, <2>3
<1>5. /\ NextFrame(ch) = Len(order[ch]) /\ NextFrame(ch)' = NextFrame(ch) + 1
      /\ NextFrame(ch) \in DOMAIN order[ch]
  <2>1. NextFrame(ch) = Len(order[ch])
    BY <1>1, <1>3 DEF NextFrame
  <2>2. lock'[ch] = NoOne
    BY <1>1 DEF WriterTypeOK
  <2>3. NextFrame(ch)' = Len(order[ch]) + 1
    BY <1>1, <2>2 DEF NextFrame
  <2>4. order[ch] \in Seq(Messages)
    BY <1>1 DEF WriterTypeOK
  <2> QED
    BY <1>4, <2>1, <2>3, <2>4
<1>6. /\ broken \subseteq broken' /\ broken' \subseteq Channels
      /\ net' \in [Channels -> Seq(Bytes)]
      /\ \A c \in Channels : c # ch => net'[c] = net[c]
      /\ \/ ch \in broken /\ net'[ch] = net[ch] /\ broken' = broken \cup {ch}
         \/ \E n \in 0 .. Len(Frame(m)) : /\ ch \notin broken /\ net'[ch] = net[ch] \o SubSeq(Frame(m), 1, n)
                                          /\ ch \in broken' \/ n = Len(Frame(m))
  <2>1. /\ Frame(m) \in Seq(Bytes) /\ Len(Frame(m)) \in Nat
        /\ SubSeq(Frame(m), 1, Len(Frame(m))) = Frame(m) /\ net[ch] \in Seq(Bytes)
    BY <1>1, FrameBytes DEF ReaderTypeOK
  <2>2. ASSUME NEW n \in 0 .. Len(Frame(m)), net' = [net EXCEPT ![ch] = @ \o SubSeq(Frame(m), 1, n)]
        PROVE  /\ net' \in [Channels -> Seq(Bytes)] /\ net'[ch] = net[ch] \o SubSeq(Frame(m), 1, n)
               /\ \A c \in Channels : c # ch => net'[c] = net[c]
    <3>1. SubSeq(Frame(m), 1, n) \in Seq(Bytes)
      BY <2>1
    <3>2. net[ch] \o SubSeq(Frame(m), 1, n) \in Seq(Bytes)
      BY <2>1, <3>1
    <3> QED
      BY <1>1, <2>2, <3>2 DEF ReaderTypeOK
  <2>3. CASE ch \notin broken /\ net' = [net EXCEPT ![ch] = @ \o bw[ch]] /\ UNCHANGED broken
    <3>1. Len(Frame(m)) \in 0 .. Len(Frame(m))
      BY <2>1
    <3>2. net' = [net EXCEPT ![ch] = @ \o SubSeq(Frame(m), 1, Len(Frame(m)))]
      BY <1>4, <2>1, <2>3
    <3> QED
      BY <1>1, <2>2, <2>3, <3>1, <3>2 DEF ReaderTypeOK
  <2>4. CASE ch \in broken /\ UNCHANGED net /\ broken' = broken \cup {ch}
    BY <1>1, <2>4 DEF ReaderTypeOK
  <2>5. CASE /\ ch \notin broken /\ broken' = broken \cup {ch}
             /\ \E n \in 0 .. Len(bw[ch]) - 1 : net' = [net EXCEPT ![ch] = @ \o SubSeq(bw[ch], 1, n)]
    <3>1. PICK n \in 0 .. Len(Frame(m)) - 1 : net' = [net EXCEPT ![ch] = @ \o SubSeq(Frame(m), 1, n)]
      BY <1>4, <2>5
    <3>2. n \in 0 .. Len(Frame(m))
      BY <2>1
    <3> QED
      BY <1>1, <2>2, <2>5, <3>1, <3>2 DEF ReaderTypeOK
  <2> QED
    BY <2>3, <2>4, <2>5 DEF Flush
<1>7. ReaderTypeOK'
  BY <1>1, <1>6 DEF ReaderTypeOK, readerVars
<1>8. ASSUME NEW c \in Channels, c # ch PROVE StreamInv(c)'
  <2>1. lock'[c] = lock[c]
    BY <1>1, <1>8 DEF WriterTypeOK
  <2>2. NextFrame(c)' = NextFrame(c)
    BY <1>1, <1>2, <1>8, <2>1, OtherFrames
  <2> QED
    BY <1>1, <1>6, <1>8, <2>2, SameStream DEF ReaderInv, readerVars
<1>9. StreamInv(ch)'
  <2>1. CASE ch \in broken /\ net'[ch] = net[ch] /\ broken' = broken \cup {ch}
    <3>1. /\ Number(ch)' = Number(ch) /\ Offset(ch)' = Offset(ch) /\ Delivered(ch)'
          /\ Going(ch) => ReadingFrame(ch)'
          /\ Going(ch)' = Going(ch)
      BY <1>1, SameReader DEF readerVars, ReaderInv, WriterTypeOK
    <3>2. Going(ch) => Framed(ch, net[ch])' /\ StartsRight(ch)' /\ EndsRight(ch)'
      BY <1>1, <2>1, <3>1 DEF ReaderInv, StreamInv, Framed, StartsRight, Follows, EndsRight
    <3> QED
      BY <3>1, <3>2 DEF StreamInv
  <2>2. ASSUME NEW n \in 0 .. Len(Frame(m)), ch \notin broken,
               net'[ch] = net[ch] \o SubSeq(Frame(m), 1, n), ch \in broken' \/ n = Len(Frame(m))
        PROVE  StreamInv(ch)'
    <3> DEFINE p == SubSeq(Frame(m), 1, n)
    <3>1. /\ Frame(m) \in Seq(Bytes) /\ Len(Frame(m)) = Whole(m) /\ Whole(m) \in Nat
          /\ \A i \in 1 .. Whole(m) : Frame(m)[i] = <<m, i>>
      BY FrameBytes
    <3>2. p \in Seq(Bytes) /\ Len(p) = n /\ n <= Whole(m) /\ \A i \in DOMAIN p : p[i] = <<m, i>>
      BY <3>1
    <3>3. ch \notin broken' => Len(p) = Whole(m)
      BY <2>2, <3>1, <3>2
    <3> HIDE DEF p
    <3>4. net'[ch] = net[ch] \o p
      BY <2>2 DEF p
    <3> QED
      BY <1>1, <1>4, <1>5, <2>2, <3>2, <3>3, <3>4, FlushStream DEF ReaderInv
  <2> QED
    BY <1>6, <2>1, <2>2
<1> QED
  BY <1>7, <1>8, <1>9 DEF ReaderInv

-----------------------------------------------------------------------------
(* The reader of a channel takes some of the bytes it wants.               *)

\* The bytes it may take are of the frame it is at.
LEMMA TakeFromFrame ==
  ASSUME WriterInv, ReaderInv, NEW ch \in Channels, rpc[ch] \in {"header", "payload", "discard"},
         NEW n \in 1 .. Len(net[ch]), n <= Wanted(ch)
  PROVE  /\ Number(ch) \in DOMAIN order[ch] /\ order[ch][Number(ch)] \in Messages
         /\ Offset(ch) + n <= Whole(order[ch][Number(ch)])
         /\ \A k \in 1 .. n : net[ch][k] = <<order[ch][Number(ch)], Offset(ch) + k>>
<1>1. /\ net[ch] \in Seq(Bytes) /\ taken[ch] \in Seq(Bytes) /\ Len(taken[ch]) \in Nat /\ Offset(ch) \in Nat
      /\ \A i \in DOMAIN order[ch] : order[ch][i] \in Messages
  BY ReaderNumbers DEF WriterInv, ReaderInv
<1>2. net[ch] # <<>>
  BY <1>1
<1>3. /\ Going(ch) /\ ReadingFrame(ch) /\ Framed(ch, net[ch])
      /\ Follows(ch, Number(ch), Offset(ch), net[ch][1])
  BY <1>2 DEF ReaderInv, StreamInv, Going, StartsRight
<1>4. Offset(ch) # 0 => Number(ch) \in DOMAIN order[ch]
  BY <1>3, OffsetInFrame DEF WriterInv, ReaderInv
<1>5. Number(ch) \in DOMAIN order[ch] /\ order[ch][Number(ch)] \in Messages
  <2>1. Offset(ch) = 0 => Number(ch) \in DOMAIN order[ch]
    BY <1>3 DEF Follows
  <2> QED
    BY <1>1, <1>4, <2>1
<1> DEFINE m == order[ch][Number(ch)]
<1>6. /\ SizeOf[m] \in Nat /\ HeaderLength \in Nat /\ Whole(m) = HeaderLength + SizeOf[m]
  BY <1>5, FrameBytes DEF Whole
<1>7. Offset(ch) + n <= Whole(m)
  <2>1. CASE rpc[ch] = "header"
    <3>1. Offset(ch) = Len(taken[ch]) /\ n <= HeaderLength - Len(taken[ch])
      BY <1>1, <2>1 DEF Offset, Wanted
    <3>2. \A a, b, c, d \in Nat : a <= b - c => c + a <= b + d
      OBVIOUS
    <3>3. n \in Nat
      BY <1>1
    <3> QED
      BY <1>1, <1>6, <3>1, <3>2, <3>3
  <2>2. CASE rpc[ch] # "header"
    <3>1. Offset(ch) = HeaderLength + Len(taken[ch]) /\ n <= SizeOf[m] - Len(taken[ch])
      BY <1>3, <2>2 DEF Offset, Wanted, ReadingFrame
    <3>2. \A a, b, c, d \in Nat : a <= b - c => (d + c) + a <= d + b
      OBVIOUS
    <3>3. n \in Nat
      BY <1>1
    <3> QED
      BY <1>1, <1>6, <3>1, <3>2, <3>3
  <2> QED
    BY <2>1, <2>2
<1>8. net[ch][1] = <<m, Offset(ch) + 1>>
  <2>1. Offset(ch) < Whole(m)
    BY <1>1, <1>6, <1>7
  <2> QED
    BY <1>3, <2>1 DEF Follows
<1>9. \A k \in 1 .. n : net[ch][k] = <<m, Offset(ch) + k>>
  BY <1>1, <1>3, <1>5, <1>7, <1>8, ReadBytes
<1> QED
  BY <1>5, <1>7, <1>9

LEMMA ReadReader ==
  ASSUME WriterInv, ReaderInv, NEW ch \in Channels, Read(ch) PROVE ReaderInv'
<1>1. /\ UNCHANGED <<writerVars, broken, rpc, head, received>>
      /\ rpc[ch] \in {"header", "payload", "discard"}
  BY DEF Read
<1>2. PICK n \in 1 .. Len(net[ch]) :
        /\ n <= Wanted(ch)
        /\ taken' = [taken EXCEPT ![ch] = @ \o SubSeq(net[ch], 1, n)]
        /\ net' = [net EXCEPT ![ch] = SubSeq(@, n + 1, Len(@))]
  BY DEF Read
<1>3. PICK m \in Messages, r \in Nat, o \in Nat :
        /\ r = Number(ch) /\ o = Offset(ch) /\ r \in DOMAIN order[ch] /\ order[ch][r] = m
        /\ o + n <= Whole(m) /\ \A k \in 1 .. n : net[ch][k] = <<m, o + k>>
  <2>1. /\ Number(ch) \in DOMAIN order[ch] /\ order[ch][Number(ch)] \in Messages
        /\ Offset(ch) + n <= Whole(order[ch][Number(ch)])
        /\ \A k \in 1 .. n : net[ch][k] = <<order[ch][Number(ch)], Offset(ch) + k>>
    BY <1>1, <1>2, TakeFromFrame
  <2>2. Number(ch) \in Nat /\ Offset(ch) \in Nat
    BY ReaderNumbers DEF WriterInv, ReaderInv
  <2> QED
    BY <2>1, <2>2
<1>4. /\ net[ch] \in Seq(Bytes) /\ taken[ch] \in Seq(Bytes) /\ Len(taken[ch]) \in Nat
      /\ HeaderLength \in Nat /\ SizeOf[m] \in Nat /\ Whole(m) = HeaderLength + SizeOf[m]
      /\ \A i \in DOMAIN order[ch] : order[ch][i] \in Messages /\ i \in Nat
      /\ n \in Nat /\ n > 0 /\ Len(net[ch]) \in Nat /\ n <= Len(net[ch]) /\ DOMAIN net[ch] = 1 .. Len(net[ch])
  BY ReaderNumbers, FrameBytes DEF WriterInv, ReaderInv, Whole
<1>5. /\ Going(ch) /\ ReadingFrame(ch) /\ Framed(ch, net[ch]) /\ EndsRight(ch) /\ Delivered(ch)
  BY <1>1 DEF ReaderInv, StreamInv, Going
<1>6. /\ taken'[ch] = taken[ch] \o SubSeq(net[ch], 1, n)
      /\ net'[ch] = SubSeq(net[ch], n + 1, Len(net[ch]))
      /\ \A c \in Channels : c # ch => taken'[c] = taken[c] /\ net'[c] = net[c]
  BY <1>2 DEF ReaderInv, ReaderTypeOK
<1>7. /\ taken'[ch] \in Seq(Bytes) /\ Len(taken'[ch]) = Len(taken[ch]) + n
      /\ \A j \in DOMAIN taken'[ch] :
           \/ j \in DOMAIN taken[ch] /\ taken'[ch][j] = taken[ch][j]
           \/ j - Len(taken[ch]) \in 1 .. n /\ taken'[ch][j] = net[ch][j - Len(taken[ch])]
  <2> DEFINE q == SubSeq(net[ch], 1, n)
  <2>1. q \in Seq(Bytes) /\ Len(q) = n /\ \A k \in 1 .. n : q[k] = net[ch][k]
    BY <1>4
  <2>2. taken'[ch] = taken[ch] \o q
    BY <1>6
  <2>3. ASSUME NEW s \in Seq(Bytes), NEW t \in Seq(Bytes)
        PROVE  /\ s \o t \in Seq(Bytes) /\ Len(s \o t) = Len(s) + Len(t)
               /\ \A j \in DOMAIN (s \o t) :
                    \/ j \in DOMAIN s /\ (s \o t)[j] = s[j]
                    \/ j - Len(s) \in 1 .. Len(t) /\ (s \o t)[j] = t[j - Len(s)]
    OBVIOUS
  <2> HIDE DEF q
  <2>4. /\ taken[ch] \o q \in Seq(Bytes) /\ Len(taken[ch] \o q) = Len(taken[ch]) + n
        /\ \A j \in DOMAIN (taken[ch] \o q) :
             \/ j \in DOMAIN taken[ch] /\ (taken[ch] \o q)[j] = taken[ch][j]
             \/ j - Len(taken[ch]) \in 1 .. n /\ (taken[ch] \o q)[j] = q[j - Len(taken[ch])]
    BY <1>4, <2>1, <2>3
  <2> QED
    BY <2>1, <2>2, <2>4
<1>8. /\ net'[ch] \in Seq(Bytes) /\ Len(net'[ch]) = Len(net[ch]) - n
      /\ \A j \in 1 .. Len(net[ch]) - n : net'[ch][j] = net[ch][n + j]
  BY <1>4, <1>6
<1>9. ReaderTypeOK'
  BY <1>1, <1>2, <1>6, <1>7, <1>8 DEF ReaderInv, ReaderTypeOK
<1>10. Number(ch)' = r /\ Offset(ch)' = o + n /\ Going(ch)' /\ NextFrame(ch)' = NextFrame(ch)
  <2>1. Offset(ch)' = o + n
    <3>1. CASE rpc[ch] = "header"
      BY <1>1, <1>3, <1>4, <1>7, <3>1 DEF Offset
    <3>2. CASE rpc[ch] # "header"
      BY <1>1, <1>3, <1>4, <1>7, <3>2 DEF Offset
    <3> QED
      BY <3>1, <3>2
  <2> QED
    BY <1>1, <1>3, <1>5, <2>1 DEF Number, Going, NextFrame, writerVars
<1>11. ReadingFrame(ch)'
  <2>1. CASE rpc[ch] = "header"
    <3>1. o = Len(taken[ch]) /\ n <= HeaderLength - Len(taken[ch])
      BY <1>2, <1>3, <1>4, <2>1 DEF Offset, Wanted
    <3>2. Len(taken'[ch]) <= HeaderLength
      BY <1>4, <1>7, <3>1
    <3>3. ASSUME NEW j \in DOMAIN taken'[ch] PROVE taken'[ch][j] = <<m, j>>
      <4>1. CASE j \in DOMAIN taken[ch] /\ taken'[ch][j] = taken[ch][j]
        BY <1>3, <1>5, <2>1, <4>1 DEF ReadingFrame
      <4>2. CASE j - Len(taken[ch]) \in 1 .. n /\ taken'[ch][j] = net[ch][j - Len(taken[ch])]
        <5>1. j \in Nat /\ o + (j - Len(taken[ch])) = j
          BY <1>4, <1>7, <3>1
        <5> QED
          BY <1>3, <4>2, <5>1
      <4> QED
        BY <1>7, <4>1, <4>2
    <3> QED
      BY <1>1, <1>3, <1>10, <2>1, <3>2, <3>3 DEF ReadingFrame, writerVars
  <2>2. CASE rpc[ch] # "header"
    <3>1. o = HeaderLength + Len(taken[ch]) /\ head[ch] = m /\ n <= SizeOf[m] - Len(taken[ch])
      BY <1>2, <1>3, <1>5, <2>2 DEF Offset, Wanted, ReadingFrame
    <3>2. Len(taken'[ch]) <= SizeOf[m]
      BY <1>4, <1>7, <3>1
    <3>3. ASSUME NEW j \in DOMAIN taken'[ch] PROVE taken'[ch][j] = <<m, HeaderLength + j>>
      <4>1. CASE j \in DOMAIN taken[ch] /\ taken'[ch][j] = taken[ch][j]
        BY <1>5, <2>2, <3>1, <4>1 DEF ReadingFrame
      <4>2. CASE j - Len(taken[ch]) \in 1 .. n /\ taken'[ch][j] = net[ch][j - Len(taken[ch])]
        <5>1. j \in Nat
          BY <1>7
        <5>2. o + (j - Len(taken[ch])) = HeaderLength + j
          <6>1. \A a, b, c \in Nat : (a + b) + (c - b) = a + c
            OBVIOUS
          <6>2. Len(taken[ch]) \in Nat /\ HeaderLength \in Nat
            BY <1>4
          <6> QED
            BY <3>1, <5>1, <6>1, <6>2
        <5> QED
          BY <1>3, <4>2, <5>2
      <4> QED
        BY <1>7, <4>1, <4>2
    <3> QED
      BY <1>1, <1>3, <1>5, <1>10, <2>2, <3>1, <3>2, <3>3 DEF ReadingFrame, writerVars
  <2> QED
    BY <2>1, <2>2
<1>12. Framed(ch, net[ch])'
  <2>1. Framed(ch, SubSeq(net[ch], n + 1, Len(net[ch])))
    BY <1>4, <1>5, FramedSuffix
  <2>2. PICK t : t = net'[ch] /\ Framed(ch, t)
    BY <1>6, <2>1
  <2>3. UNCHANGED order
    BY <1>1 DEF writerVars
  <2> QED
    BY <2>2, <2>3 DEF Framed
<1>13. n \in DOMAIN net[ch] /\ net[ch][n] = <<m, o + n>>
  BY <1>3, <1>4
<1>14. \A i, j \in DOMAIN order[ch] : order[ch][i] = order[ch][j] => i = j
  BY DEF WriterInv, OrderInv
<1>15. StartsRight(ch)'
  <2> SUFFICES ASSUME net'[ch] # <<>> PROVE Follows(ch, Number(ch), Offset(ch), net[ch][1])'
    BY DEF StartsRight
  <2>1. /\ n + 1 \in DOMAIN net[ch] /\ net'[ch][1] = net[ch][n + 1] /\ o + n # 0
    BY <1>4, <1>8
  <2>2. CASE o + n < Whole(m)
    <3>1. 1 \in DOMAIN net[ch] /\ net[ch][1] = <<m, o + 1>> /\ (o + 1) + ((n + 1) - 1) = o + n + 1
      <4>1. 1 \in 1 .. n /\ 1 \in DOMAIN net[ch] /\ (o + 1) + ((n + 1) - 1) = o + n + 1
        BY <1>4
      <4> QED
        BY <1>3, <4>1
    <3>2. net[ch][1][2] + ((n + 1) - 1) <= Whole(net[ch][1][1]) /\ 1 <= n + 1
      <4>1. net[ch][1][1] = m /\ net[ch][1][2] = o + 1
        BY <3>1
      <4>2. Whole(m) \in Nat /\ n \in Nat
        BY <1>4
      <4> QED
        BY <2>2, <4>1, <4>2
    <3>3. net[ch][n + 1] = <<net[ch][1][1], net[ch][1][2] + ((n + 1) - 1)>>
      BY <1>5, <2>1, <3>1, <3>2 DEF Framed
    <3>4. net[ch][n + 1] = <<m, o + n + 1>>
      BY <3>1, <3>3
    <3> QED
      BY <1>1, <1>3, <1>10, <2>1, <2>2, <3>4 DEF Follows, writerVars
  <2>3. CASE ~(o + n < Whole(m))
    <3>1. o + n = Whole(m)
      <4>1. o + n \in Nat /\ Whole(m) \in Nat /\ o + n <= Whole(m)
        BY <1>3, <1>4
      <4>2. \A a, b \in Nat : a <= b /\ ~(a < b) => a = b
        OBVIOUS
      <4> QED
        BY <2>3, <4>1, <4>2
    <3>2. PICK i \in DOMAIN order[ch] : /\ i + 1 \in DOMAIN order[ch] /\ order[ch][i] = m
                                        /\ net[ch][n + 1] = <<order[ch][i + 1], 1>>
      BY <1>5, <1>13, <2>1, <3>1 DEF Framed
    <3>3. i = r
      BY <1>3, <1>14, <3>2
    <3> QED
      BY <1>1, <1>3, <1>10, <2>1, <2>3, <3>2, <3>3 DEF Follows, writerVars
  <2> QED
    BY <2>2, <2>3
<1>16. EndsRight(ch)'
  <2> SUFFICES ASSUME ch \notin broken
               PROVE  IF net'[ch] = <<>> THEN AtEnd(ch, Number(ch), Offset(ch))' ELSE EndsAt(ch, net[ch])'
    BY <1>1 DEF EndsRight
  <2>1. net[ch] # <<>> /\ EndsAt(ch, net[ch])
    BY <1>5, <1>13 DEF EndsRight
  <2>2. CASE net'[ch] # <<>>
    <3>1. net'[ch][Len(net'[ch])] = net[ch][Len(net[ch])]
      <4>1. Len(net'[ch]) # 0
        BY <1>8, <2>2
      <4>2. Len(net'[ch]) \in 1 .. Len(net[ch]) - n /\ n + Len(net'[ch]) = Len(net[ch])
        BY <1>4, <1>8, <4>1
      <4> QED
        BY <1>8, <4>2
    <3> QED
      BY <1>1, <1>10, <2>1, <2>2, <3>1 DEF EndsAt, writerVars
  <2>3. CASE net'[ch] = <<>>
    <3>1. Len(net[ch]) = n
      BY <1>4, <1>8, <2>3
    <3>2. /\ NextFrame(ch) - 1 \in DOMAIN order[ch] /\ m = order[ch][NextFrame(ch) - 1]
          /\ o + n = Whole(m)
      BY <1>13, <2>1, <3>1 DEF EndsAt
    <3>3. NextFrame(ch) - 1 = r
      BY <1>3, <1>14, <3>2
    <3>4. NextFrame(ch) = r + 1 /\ o + n # 0
      <4>1. NextFrame(ch) \in Int
        BY ReaderNumbers DEF NextFrame, WriterInv, ReaderInv
      <4> QED
        BY <3>3, <4>1
    <3> QED
      BY <1>1, <1>3, <1>10, <2>3, <3>2, <3>4 DEF AtEnd, writerVars
  <2> QED
    BY <2>2, <2>3
<1>17. Delivered(ch)'
  BY <1>1, <1>5 DEF Delivered, Expected, writerVars
<1>18. \A c \in Channels : StreamInv(c)'
  <2>1. StreamInv(ch)'
    BY <1>11, <1>12, <1>15, <1>16, <1>17 DEF StreamInv
  <2> QED
    BY <1>1, <1>6, <2>1, OtherStreams
<1> QED
  BY <1>9, <1>18 DEF ReaderInv

\* The reader goes on at the same place.
LEMMA SamePlace ==
  ASSUME ReaderInv, NEW ch \in Channels, Going(ch), UNCHANGED <<writerVars, net, broken>>,
         Number(ch)' = Number(ch), Offset(ch)' = Offset(ch), ReadingFrame(ch)',
         received'[ch] = received[ch]
  PROVE  StreamInv(ch)'
<1>1. /\ Framed(ch, net[ch]) /\ StartsRight(ch) /\ EndsRight(ch) /\ Delivered(ch)
  BY DEF ReaderInv, StreamInv
<1>2. NextFrame(ch)' = NextFrame(ch)
  BY DEF NextFrame, writerVars
<1>3. Delivered(ch)'
  BY <1>1 DEF Delivered, Expected, writerVars
<1>4. Framed(ch, net[ch])'
  BY <1>1 DEF Framed, writerVars
<1>5. StartsRight(ch)'
  BY <1>1 DEF StartsRight, Follows, writerVars
<1>6. EndsRight(ch)'
  BY <1>1, <1>2 DEF EndsRight, AtEnd, EndsAt, writerVars
<1> QED
  BY <1>3, <1>4, <1>5, <1>6 DEF StreamInv

\* What was read of a header is one: reader and writer agree.
LEMMA HeaderReadReader ==
  ASSUME WriterInv, ReaderInv, NEW ch \in Channels, HeaderRead(ch) PROVE ReaderInv'
<1>1. /\ rpc[ch] = "header" /\ Wanted(ch) = 0 /\ UNCHANGED <<writerVars, net, broken, received>>
      /\ taken' = [taken EXCEPT ![ch] = <<>>]
  BY DEF HeaderRead
<1>2. /\ taken[ch] \in Seq(Bytes) /\ Len(taken[ch]) \in Nat /\ HeaderLength \in Nat /\ HeaderLength > 0
  BY ReaderNumbers, ChannelAssumption DEF WriterInv, ReaderInv
<1>3. Len(taken[ch]) = HeaderLength
  BY <1>1, <1>2 DEF Wanted
<1>4. taken[ch] # <<>> /\ DOMAIN taken[ch] = 1 .. HeaderLength /\ 1 \in DOMAIN taken[ch]
  BY <1>2, <1>3
<1>5. Going(ch) /\ ReadingFrame(ch)
  BY <1>1 DEF ReaderInv, StreamInv, Going
<1>6. PICK m \in Messages :
        /\ Number(ch) \in DOMAIN order[ch] /\ m = order[ch][Number(ch)]
        /\ \A j \in 1 .. HeaderLength : taken[ch][j] = <<m, j>>
  <2>1. Number(ch) \in DOMAIN order[ch]
    BY <1>4, <1>5 DEF ReadingFrame
  <2>2. order[ch][Number(ch)] \in Messages
    BY <2>1, ReaderNumbers DEF WriterInv, ReaderInv
  <2> QED
    BY <1>1, <1>4, <1>5, <2>1, <2>2 DEF ReadingFrame
<1>7. taken[ch][1][1] = m
  BY <1>4, <1>6
<1>8. taken[ch] = Header(m)
  <2>1. taken[ch] = [j \in 1 .. HeaderLength |-> taken[ch][j]]
    BY <1>2, <1>4
  <2> QED
    BY <1>6, <2>1 DEF Header
<1>9. /\ head' = [head EXCEPT ![ch] = m]
      /\ rpc' = [rpc EXCEPT ![ch] =
           IF TooLong(m) THEN "discard" ELSE IF SizeOf[m] > 0 THEN "get" ELSE "deliver"]
  BY <1>7, <1>8 DEF HeaderRead
<1>10. /\ head'[ch] = m /\ taken'[ch] = <<>>
       /\ rpc'[ch] = IF TooLong(m) THEN "discard" ELSE IF SizeOf[m] > 0 THEN "get" ELSE "deliver"
       /\ \A c \in Channels : c # ch => head'[c] = head[c] /\ taken'[c] = taken[c] /\ rpc'[c] = rpc[c]
  BY <1>1, <1>9 DEF ReaderInv, ReaderTypeOK
<1>11. ReaderTypeOK'
  <2>1. taken' \in [Channels -> Seq(Bytes)]
    BY <1>1 DEF ReaderInv, ReaderTypeOK
  <2>2. head' \in [Channels -> Messages \cup {NoOne}]
    BY <1>9 DEF ReaderInv, ReaderTypeOK
  <2>3. rpc' \in [Channels -> {"header", "discard", "get", "payload", "deliver", "eof", "cut"}]
    BY <1>9 DEF ReaderInv, ReaderTypeOK
  <2> QED
    BY <1>1, <2>1, <2>2, <2>3 DEF ReaderInv, ReaderTypeOK
<1>12. Number(ch)' = Number(ch) /\ Offset(ch)' = Offset(ch)
  <2>1. Offset(ch) = HeaderLength
    BY <1>1, <1>2, <1>3 DEF Offset
  <2>2. Offset(ch)' = HeaderLength
    BY <1>2, <1>10 DEF Offset
  <2> QED
    BY <1>1, <2>1, <2>2 DEF Number
<1>13. ReadingFrame(ch)'
  <2>1. SizeOf[m] \in Nat /\ Len(<<>>) = 0
    BY FrameBytes
  <2> QED
    BY <1>1, <1>6, <1>10, <1>12, <2>1 DEF ReadingFrame, writerVars, TooLong
<1>14. StreamInv(ch)'
  BY <1>1, <1>5, <1>12, <1>13, SamePlace
<1> QED
  BY <1>1, <1>10, <1>11, <1>14, OtherStreams DEF ReaderInv

LEMMA GetBufferReader ==
  ASSUME WriterInv, ReaderInv, NEW ch \in Channels, GetBuffer(ch) PROVE ReaderInv'
<1>1. /\ rpc[ch] = "get" /\ UNCHANGED <<writerVars, net, broken, received, taken, head>>
      /\ rpc' = [rpc EXCEPT ![ch] = "payload"]
  BY DEF GetBuffer
<1>2. rpc'[ch] = "payload" /\ \A c \in Channels : c # ch => rpc'[c] = rpc[c]
  BY <1>1 DEF ReaderInv, ReaderTypeOK
<1>3. ReaderTypeOK'
  BY <1>1 DEF ReaderInv, ReaderTypeOK
<1>4. Going(ch) /\ ReadingFrame(ch)
  BY <1>1 DEF ReaderInv, StreamInv, Going
<1>5. Number(ch)' = Number(ch) /\ Offset(ch)' = Offset(ch)
  BY <1>1, <1>2 DEF Number, Offset
<1>6. ReadingFrame(ch)'
  BY <1>1, <1>2, <1>4, <1>5 DEF ReadingFrame, writerVars, TooLong
<1>7. StreamInv(ch)'
  BY <1>1, <1>4, <1>5, <1>6, SamePlace
<1> QED
  BY <1>1, <1>2, <1>3, <1>7, OtherStreams DEF ReaderInv

LEMMA AppendFacts ==
  ASSUME NEW S, NEW s \in Seq(S), NEW e \in S
  PROVE  /\ Append(s, e) \in Seq(S) /\ Len(Append(s, e)) = Len(s) + 1
         /\ DOMAIN Append(s, e) = 1 .. Len(s) + 1 /\ Append(s, e)[Len(s) + 1] = e
         /\ \A n \in 1 .. Len(s) + 1 :
              n = Len(s) + 1 \/ (n \in DOMAIN s /\ Append(s, e)[n] = s[n])
<1>1. /\ Append(s, e) \in Seq(S) /\ Len(Append(s, e)) = Len(s) + 1
      /\ DOMAIN Append(s, e) = 1 .. Len(s) + 1
  OBVIOUS
<1>2. Append(s, e)[Len(s) + 1] = e
  OBVIOUS
<1>3. \A n \in 1 .. Len(s) + 1 : n = Len(s) + 1 \/ (n \in DOMAIN s /\ Append(s, e)[n] = s[n])
  OBVIOUS
<1> QED
  BY <1>1, <1>2, <1>3, Zenon

\* recv returns: the next frame is expected.
LEMMA ReturnsReader ==
  ASSUME WriterInv, ReaderInv, NEW ch \in Channels, NEW what, Returns(ch, what),
         UNCHANGED <<writerVars, net, broken>>, rpc[ch] \in {"discard", "payload", "deliver"},
         what = IF TooLong(head[ch]) THEN "oversized" ELSE "message",
         Len(taken[ch]) = SizeOf[head[ch]]
  PROVE  ReaderInv'
<1>1. /\ Going(ch) /\ ReadingFrame(ch) /\ Framed(ch, net[ch])
      /\ StartsRight(ch) /\ EndsRight(ch) /\ Delivered(ch)
  BY DEF ReaderInv, StreamInv, Going
<1>2. /\ Len(order[ch]) \in Nat /\ DOMAIN order[ch] = 1 .. Len(order[ch]) /\ Number(ch) \in Nat
      /\ \A n \in DOMAIN order[ch] : order[ch][n] \in Messages
      /\ received[ch] \in Seq(Messages \X {"message", "oversized"}) /\ Len(received[ch]) \in Nat
  BY ReaderNumbers DEF WriterInv, ReaderInv
<1>3. PICK m \in Messages, r \in Nat :
        r = Number(ch) /\ r \in DOMAIN order[ch] /\ order[ch][r] = m /\ head[ch] = m
  BY <1>1, <1>2 DEF ReadingFrame
<1>4. Offset(ch) = Whole(m) /\ Whole(m) \in Nat /\ Whole(m) # 0
  BY <1>3, FrameBytes DEF Offset, Whole
<1>5. /\ received' = [received EXCEPT ![ch] = Append(@, <<m, what>>)]
      /\ rpc' = [rpc EXCEPT ![ch] = "header"] /\ taken' = [taken EXCEPT ![ch] = <<>>]
      /\ head' = [head EXCEPT ![ch] = NoOne]
  BY <1>3 DEF Returns
<1>6. /\ received'[ch] = Append(received[ch], <<m, what>>) /\ rpc'[ch] = "header" /\ taken'[ch] = <<>>
      /\ \A c \in Channels : c # ch => /\ received'[c] = received[c] /\ rpc'[c] = rpc[c]
                                       /\ taken'[c] = taken[c] /\ head'[c] = head[c]
  BY <1>5 DEF ReaderInv, ReaderTypeOK
<1>7. /\ Len(received'[ch]) = r /\ DOMAIN received'[ch] = 1 .. r /\ received'[ch][r] = <<m, what>>
      /\ \A n \in DOMAIN received'[ch] : n = r \/ (n \in DOMAIN received[ch] /\ received'[ch][n] = received[ch][n])
      /\ received'[ch] \in Seq(Messages \X {"message", "oversized"})
  <2>1. <<m, what>> \in Messages \X {"message", "oversized"}
    OBVIOUS
  <2>2. r = Len(received[ch]) + 1
    BY <1>3 DEF Number
  <2> DEFINE t == Append(received[ch], <<m, what>>)
  <2>4. /\ t \in Seq(Messages \X {"message", "oversized"}) /\ Len(t) = Len(received[ch]) + 1
        /\ DOMAIN t = 1 .. Len(received[ch]) + 1 /\ t[Len(received[ch]) + 1] = <<m, what>>
        /\ \A n \in 1 .. Len(received[ch]) + 1 :
             n = Len(received[ch]) + 1 \/ (n \in DOMAIN received[ch] /\ t[n] = received[ch][n])
    BY <1>2, <2>1, AppendFacts
  <2> HIDE DEF t
  <2>5. received'[ch] = t
    BY <1>6 DEF t
  <2> QED
    BY <2>2, <2>4, <2>5, Zenon
<1>8. ReaderTypeOK'
  <2>1. taken' \in [Channels -> Seq(Bytes)]
    BY <1>5 DEF ReaderInv, ReaderTypeOK
  <2>2. received' \in [Channels -> Seq(Messages \X {"message", "oversized"})]
    BY <1>5, <1>6, <1>7 DEF ReaderInv, ReaderTypeOK
  <2> QED
    BY <1>5, <2>1, <2>2 DEF ReaderInv, ReaderTypeOK
<1>9. Number(ch)' = r + 1 /\ Offset(ch)' = 0 /\ NextFrame(ch)' = NextFrame(ch)
  BY <1>6, <1>7 DEF Number, Offset, NextFrame, writerVars
<1>10. ReadingFrame(ch)'
  BY <1>6, ChannelAssumption DEF ReadingFrame
<1>11. Framed(ch, net[ch])'
  BY <1>1 DEF Framed, writerVars
<1>12. StartsRight(ch)'
  BY <1>1, <1>3, <1>4, <1>9 DEF StartsRight, Follows, writerVars
<1>13. EndsRight(ch)'
  BY <1>1, <1>3, <1>4, <1>9 DEF EndsRight, AtEnd, EndsAt, writerVars
<1>14. Delivered(ch)'
  <2>1. Len(received'[ch]) <= Len(order[ch])
    BY <1>2, <1>3, <1>7
  <2>2. Expected(ch)' = Expected(ch)
    BY DEF Expected, writerVars
  <2>3. Expected(ch)[r] = <<m, what>>
    BY <1>3 DEF Expected
  <2>4. \A n \in DOMAIN received'[ch] : received'[ch][n] = Expected(ch)[n]
    BY <1>1, <1>7, <2>3 DEF Delivered
  <2> QED
    BY <2>1, <2>2, <2>4 DEF Delivered, writerVars
<1>15. StreamInv(ch)'
  BY <1>10, <1>11, <1>12, <1>13, <1>14 DEF StreamInv
<1> QED
  BY <1>6, <1>8, <1>15, OtherStreams DEF ReaderInv

\* recv returns when all that it wanted is there.
LEMMA ReturnReader ==
  ASSUME WriterInv, ReaderInv, NEW ch \in Channels, Oversized(ch) \/ PayloadRead(ch) \/ DeliverEmpty(ch)
  PROVE  ReaderInv'
<1>1. rpc[ch] \in {"discard", "payload", "deliver"} /\ UNCHANGED <<writerVars, net, broken>>
  BY DEF Oversized, Discarded, PayloadRead, DeliverEmpty, poolVars
<1>2. ReadingFrame(ch)
  BY <1>1 DEF ReaderInv, StreamInv, Going
<1>3. head[ch] \in Messages /\ SizeOf[head[ch]] \in Nat /\ Len(taken[ch]) \in Nat
  <2>1. Number(ch) \in DOMAIN order[ch] /\ head[ch] = order[ch][Number(ch)]
    BY <1>1, <1>2 DEF ReadingFrame
  <2>2. head[ch] \in Messages /\ Len(taken[ch]) \in Nat
    BY <2>1, ReaderNumbers DEF WriterInv, ReaderInv
  <2> QED
    BY <2>2, FrameBytes
<1>4. CASE Oversized(ch)
  <2>1. Returns(ch, "oversized") /\ rpc[ch] = "discard" /\ Wanted(ch) = 0
    BY <1>4 DEF Oversized, Discarded
  <2>2. Len(taken[ch]) = SizeOf[head[ch]] /\ TooLong(head[ch])
    BY <1>2, <1>3, <2>1 DEF Wanted, ReadingFrame
  <2> QED
    BY <1>1, <2>1, <2>2, ReturnsReader
<1>5. CASE PayloadRead(ch)
  <2>1. Returns(ch, "message") /\ rpc[ch] = "payload" /\ Wanted(ch) = 0
    BY <1>5 DEF PayloadRead
  <2>2. Len(taken[ch]) = SizeOf[head[ch]] /\ ~TooLong(head[ch])
    BY <1>2, <1>3, <2>1 DEF Wanted, ReadingFrame
  <2> QED
    BY <1>1, <2>1, <2>2, ReturnsReader
<1>6. CASE DeliverEmpty(ch)
  <2>1. Returns(ch, "message") /\ rpc[ch] = "deliver"
    BY <1>6 DEF DeliverEmpty
  <2>2. taken[ch] = <<>> /\ SizeOf[head[ch]] = 0 /\ ~TooLong(head[ch])
    BY <1>2, <2>1 DEF ReadingFrame
  <2>3. Len(taken[ch]) = SizeOf[head[ch]]
    BY <2>2
  <2> QED
    BY <1>1, <2>1, <2>2, <2>3, ReturnsReader
<1> QED
  BY <1>4, <1>5, <1>6

LEMMA RecvFailsReader ==
  ASSUME ReaderInv, NEW ch \in Channels, RecvFails(ch) PROVE ReaderInv'
<1>1. PICK w \in {"eof", "cut"} : rpc' = [rpc EXCEPT ![ch] = w]
  BY DEF RecvFails
<1>2. UNCHANGED <<writerVars, net, broken, taken, head, received>>
  BY DEF RecvFails
<1>3. ~Going(ch)' /\ \A c \in Channels : c # ch => rpc'[c] = rpc[c]
  BY <1>1 DEF Going, ReaderInv, ReaderTypeOK
<1>4. ReaderTypeOK'
  BY <1>1, <1>2 DEF ReaderInv, ReaderTypeOK
<1>5. StreamInv(ch)'
  <2>1. Delivered(ch)'
    <3>1. Delivered(ch)
      BY DEF ReaderInv, StreamInv
    <3> QED
      BY <1>2, <3>1 DEF Delivered, Expected, writerVars
  <2> QED
    BY <1>3, <2>1 DEF StreamInv
<1> QED
  BY <1>2, <1>3, <1>4, <1>5, OtherStreams DEF ReaderInv

\* Steps that leave readers, writers and bytes alone, while connections may go.
LEMMA IdleReader ==
  ASSUME ReaderInv, UNCHANGED <<writerVars, net, readerVars>>,
         broken \subseteq broken', broken' \subseteq Channels
  PROVE  ReaderInv'
<1>1. ReaderTypeOK'
  BY DEF ReaderInv, ReaderTypeOK, readerVars
<1>2. ASSUME NEW ch \in Channels PROVE StreamInv(ch)'
  <2>1. NextFrame(ch)' = NextFrame(ch)
    BY DEF NextFrame, writerVars
  <2> QED
    BY <2>1, SameStream DEF ReaderInv, readerVars, writerVars
<1> QED
  BY <1>1, <1>2 DEF ReaderInv

LEMMA ReaderNext == WriterInv /\ WriterInv' /\ ReaderInv /\ [Next]_vars => ReaderInv'
<1> SUFFICES ASSUME WriterInv, WriterInv', ReaderInv, [Next]_vars PROVE ReaderInv'
  OBVIOUS
<1>1. ASSUME NEW m \in Messages, Write(m) PROVE ReaderInv'
  BY <1>1, WriteReader, FlushReader DEF Write
<1>2. ASSUME NEW m \in Messages, Unmarshal(m) \/ PutBuffer(m) PROVE ReaderInv'
  <2>1. UNCHANGED <<writerVars, net, readerVars, broken>>
    BY <1>2 DEF Unmarshal, PutBuffer, consumeOnly
  <2>2. broken \subseteq broken' /\ broken' \subseteq Channels
    BY <2>1 DEF ReaderInv, ReaderTypeOK
  <2> QED
    BY <2>1, <2>2, IdleReader
<1>3. ASSUME NEW ch \in Channels, Recv(ch) PROVE ReaderInv'
  BY <1>3, ReadReader, HeaderReadReader, GetBufferReader, ReturnReader, RecvFailsReader DEF Recv
<1>4. ASSUME NEW ch \in Channels, ConnGoes(ch) PROVE ReaderInv'
  <2>1. UNCHANGED <<writerVars, net, readerVars>> /\ broken' = broken \cup {ch}
    BY <1>4 DEF ConnGoes
  <2>2. broken \subseteq broken' /\ broken' \subseteq Channels
    BY <2>1 DEF ReaderInv, ReaderTypeOK
  <2> QED
    BY <2>1, <2>2, IdleReader
<1>5. CASE UNCHANGED vars
  <2>1. UNCHANGED <<writerVars, net, readerVars, broken>>
    BY <1>5 DEF vars
  <2>2. broken \subseteq broken' /\ broken' \subseteq Channels
    BY <2>1 DEF ReaderInv, ReaderTypeOK
  <2> QED
    BY <2>1, <2>2, IdleReader
<1> QED
  BY <1>1, <1>2, <1>3, <1>4, <1>5 DEF Next

LEMMA PrefixByElements ==
  ASSUME NEW S, NEW s \in Seq(S), NEW t \in Seq(S), Len(s) <= Len(t),
         \A k \in 1 .. Len(s) : s[k] = t[k]
  PROVE  IsPrefix(s, t)
<1>1. Len(SubSeq(s, 1, Len(s))) = Len(s) /\ Len(SubSeq(t, 1, Len(s))) = Len(s)
  OBVIOUS
<1>2. \A k \in 1 .. Len(s) : SubSeq(s, 1, Len(s))[k] = SubSeq(t, 1, Len(s))[k]
  OBVIOUS
<1>3. SubSeq(s, 1, Len(s)) \in Seq(S) /\ SubSeq(t, 1, Len(s)) \in Seq(S)
  OBVIOUS
<1>4. SubSeq(s, 1, Len(s)) = SubSeq(t, 1, Len(s))
  BY <1>1, <1>2, <1>3
<1> QED
  BY <1>4 DEF IsPrefix

\* On every channel recv returns what was written, in order, and finds each
\* frame where it begins: for all lengths and limits, however bytes are split,
\* with frames thrown away between and connections that break.
THEOREM FramesStayWhole == Spec => []FramesInOrder
<1>1. WriterInv /\ ReaderInv => FramesInOrder
  <2> SUFFICES ASSUME WriterInv, ReaderInv, NEW ch \in Channels
               PROVE  rpc[ch] # "lost" /\ IsPrefix(received[ch], Expected(ch))
    BY DEF FramesInOrder
  <2> DEFINE S == Messages \X {"message", "oversized"}
  <2>1. rpc[ch] # "lost"
    BY DEF ReaderInv, ReaderTypeOK
  <2>2. /\ received[ch] \in Seq(S) /\ DOMAIN order[ch] = 1 .. Len(order[ch])
        /\ Len(order[ch]) \in Nat /\ \A n \in DOMAIN order[ch] : order[ch][n] \in Messages
    BY ReaderNumbers DEF WriterInv, ReaderInv
  <2>3. Expected(ch) \in Seq(S) /\ Len(Expected(ch)) = Len(order[ch])
    BY <2>2 DEF Expected
  <2>4. /\ Len(received[ch]) <= Len(order[ch])
        /\ \A k \in 1 .. Len(received[ch]) : received[ch][k] = Expected(ch)[k]
    BY <2>2 DEF ReaderInv, StreamInv, Delivered
  <2> QED
    BY <2>1, <2>2, <2>3, <2>4, PrefixByElements
<1> QED
  BY <1>1, WriterInit, WriterNext, ReaderInit, ReaderNext, PTL DEF Spec

-----------------------------------------------------------------------------
(* The buffers: each is in the pool, filled by one channel, kept by one    *)
(* message that waits to be unmarshalled, or lost.                         *)

PoolTypeOK ==
  /\ rbuf \in [Channels -> Buffers \cup {NoOne}] /\ pool \subseteq Buffers
  /\ cap \in [Buffers -> Nat] /\ content \in [Buffers -> Seq(Bytes)]
  /\ holding \in [Messages -> Buffers \cup {NoOne}] /\ putBack \subseteq Messages
  /\ decoded \in [Messages -> Seq(Bytes) \cup {NoOne}]

Filling(ch) == rpc[ch] = "payload"
Waits(m) == holding[m] # NoOne /\ m \notin putBack

FillInv ==
  \A ch \in Channels : Filling(ch) =>
    /\ rbuf[ch] \in Buffers \ pool /\ cap[rbuf[ch]] # 0
    /\ \A d \in Channels : Filling(d) /\ rbuf[d] = rbuf[ch] => d = ch
    /\ taken[ch] # <<>> => content[rbuf[ch]] = taken[ch]
WaitInv ==
  \A m \in Messages : Waits(m) =>
    /\ holding[m] \notin pool /\ cap[holding[m]] # 0 /\ content[holding[m]] = Payload(m)
    /\ \A k \in Messages : Waits(k) /\ holding[k] = holding[m] => k = m
    /\ \A ch \in Channels : Filling(ch) => rbuf[ch] # holding[m]
BackInv ==
  /\ \A b \in pool : cap[b] # 0
  /\ \A m \in Messages : holding[m] # NoOne => SizeOf[m] > 0
  /\ \A m \in putBack : holding[m] # NoOne /\ decoded[m] # NoOne
PoolInv == PoolTypeOK /\ FillInv /\ WaitInv /\ BackInv /\ MessagesIntact

LEMMA PoolInit == Init => PoolInv
<1> SUFFICES ASSUME Init PROVE PoolInv
  OBVIOUS
<1>1. PoolTypeOK
  BY DEF Init, PoolTypeOK
<1>2. FillInv /\ WaitInv /\ BackInv /\ MessagesIntact
  BY DEF Init, FillInv, WaitInv, BackInv, MessagesIntact, Filling, Waits
<1> QED
  BY <1>1, <1>2 DEF PoolInv

\* Nobody begins to fill a buffer or gives one up that is waited for.
LEMMA SameOwners ==
  ASSUME PoolInv, UNCHANGED <<pool, cap, content, holding, putBack>>, PoolTypeOK', MessagesIntact',
         \A ch \in Channels : Filling(ch)' =>
           Filling(ch) /\ rbuf'[ch] = rbuf[ch] /\ taken'[ch] = taken[ch],
         \A m \in putBack : decoded'[m] # NoOne
  PROVE  PoolInv'
<1>1. \A m \in Messages : Waits(m)' = Waits(m)
  BY DEF Waits
<1>2. FillInv'
  BY DEF PoolInv, FillInv
<1>3. WaitInv'
  BY <1>1 DEF PoolInv, WaitInv
<1>4. BackInv'
  BY DEF PoolInv, BackInv
<1> QED
  BY <1>2, <1>3, <1>4 DEF PoolInv

\* Steps that leave the pool and the readers' buffers alone.
LEMMA IdlePool ==
  ASSUME PoolInv, UNCHANGED <<poolVars, rpc, taken, rbuf>>
  PROVE  PoolInv'
<1>1. PoolTypeOK' /\ MessagesIntact' /\ UNCHANGED <<pool, cap, content, holding, putBack, decoded>>
  BY DEF poolVars, PoolInv, PoolTypeOK, MessagesIntact
<1>2. \A m \in putBack : decoded'[m] # NoOne
  BY <1>1 DEF PoolInv, BackInv
<1>3. \A ch \in Channels : Filling(ch)' = Filling(ch)
  BY DEF Filling
<1> QED
  BY <1>1, <1>2, <1>3, SameOwners

LEMMA ReadPool ==
  ASSUME PoolInv, ReaderInv, ReaderInv', NEW ch \in Channels, Read(ch) PROVE PoolInv'
<1>1. /\ UNCHANGED <<rpc, rbuf, pool, cap, holding, putBack, decoded>>
      /\ \A c \in Channels : c # ch => taken'[c] = taken[c]
      /\ taken'[ch] \in Seq(Bytes)
  BY DEF Read, ReaderInv, ReaderTypeOK
<1>2. CASE ~Filling(ch)
  <2>1. UNCHANGED content
    BY <1>2 DEF Read, Filling
  <2>2. PoolTypeOK' /\ MessagesIntact'
    BY <1>1, <2>1 DEF PoolInv, PoolTypeOK, MessagesIntact
  <2>3. \A m \in putBack : decoded'[m] # NoOne
    BY <1>1 DEF PoolInv, BackInv
  <2>4. \A c \in Channels : Filling(c)' => Filling(c) /\ rbuf'[c] = rbuf[c] /\ taken'[c] = taken[c]
    BY <1>1, <1>2 DEF Filling
  <2> QED
    BY <1>1, <2>1, <2>2, <2>3, <2>4, SameOwners
<1>3. CASE Filling(ch)
  <2>1. content' = [content EXCEPT ![rbuf[ch]] = taken'[ch]]
    BY <1>3 DEF Read, Filling
  <2>2. rbuf[ch] \in Buffers
    BY <1>3 DEF PoolInv, FillInv
  <2>3. content'[rbuf[ch]] = taken'[ch] /\ \A b \in Buffers : b # rbuf[ch] => content'[b] = content[b]
    BY <2>1, <2>2 DEF PoolInv, PoolTypeOK
  <2>4. PoolTypeOK'
    BY <1>1, <2>1, <2>2 DEF PoolInv, PoolTypeOK
  <2>5. \A c \in Channels : Filling(c)' = Filling(c)
    BY <1>1 DEF Filling
  <2>6. \A m \in Messages : Waits(m)' = Waits(m)
    BY <1>1 DEF Waits
  <2>7. FillInv'
    <3> SUFFICES ASSUME NEW c \in Channels, Filling(c), taken'[c] # <<>>
                 PROVE  content'[rbuf[c]] = taken'[c]
      BY <1>1, <2>5 DEF PoolInv, FillInv
    <3>1. CASE c = ch
      BY <2>3, <3>1
    <3>2. CASE c # ch
      BY <1>1, <1>3, <2>3, <3>2 DEF PoolInv, FillInv
    <3> QED
      BY <3>1, <3>2
  <2>8. WaitInv'
    <3>1. ASSUME NEW m \in Messages, Waits(m) PROVE content'[holding[m]] = content[holding[m]]
      <4>1. holding[m] \in Buffers /\ holding[m] # rbuf[ch]
        BY <1>3, <3>1 DEF PoolInv, WaitInv, PoolTypeOK, Waits
      <4> QED
        BY <2>3, <4>1
    <3> QED
      BY <1>1, <2>5, <2>6, <3>1 DEF PoolInv, WaitInv
  <2>9. BackInv' /\ MessagesIntact'
    BY <1>1 DEF PoolInv, BackInv, MessagesIntact
  <2> QED
    BY <2>4, <2>7, <2>8, <2>9 DEF PoolInv
<1> QED
  BY <1>2, <1>3

\* A buffer that is taken from the pool or made is nobody else's.
LEMMA GetBufferPool ==
  ASSUME WriterInv, ReaderInv, PoolInv, NEW ch \in Channels, GetBuffer(ch) PROVE PoolInv'
<1>1. /\ rpc[ch] = "get" /\ rpc' = [rpc EXCEPT ![ch] = "payload"]
      /\ UNCHANGED <<taken, head, content, holding, putBack, decoded>>
  BY DEF GetBuffer
<1>2. PICK b \in Buffers, old \in pool \cup {NoOne} :
        /\ IF old # NoOne /\ cap[old] >= SizeOf[head[ch]]
             THEN b = old /\ UNCHANGED cap
             ELSE NewBuffer(b) /\ cap' = [cap EXCEPT ![b] = SizeOf[head[ch]]]
        /\ rbuf' = [rbuf EXCEPT ![ch] = b] /\ pool' = pool \ {old}
  BY DEF GetBuffer
<1>3. taken[ch] = <<>> /\ SizeOf[head[ch]] \in Nat /\ SizeOf[head[ch]] # 0
  <2>1. ReadingFrame(ch)
    BY <1>1 DEF ReaderInv, StreamInv, Going
  <2>2. head[ch] = order[ch][Number(ch)] /\ Number(ch) \in DOMAIN order[ch]
    BY <1>1, <2>1 DEF ReadingFrame
  <2>3. head[ch] \in Messages
    BY <2>2, ReaderNumbers DEF WriterInv, ReaderInv
  <2> QED
    BY <1>1, <2>1, <2>3, FrameBytes DEF ReadingFrame
<1>4. /\ PoolTypeOK' /\ rbuf'[ch] = b
      /\ \A c \in Channels : c # ch => rbuf'[c] = rbuf[c]
      /\ \A c \in Channels : c # ch => Filling(c)' = Filling(c)
  <2>1. cap' \in [Buffers -> Nat]
    BY <1>2, <1>3 DEF PoolInv, PoolTypeOK
  <2> QED
    BY <1>1, <1>2, <2>1 DEF PoolInv, PoolTypeOK, Filling, ReaderInv, ReaderTypeOK
<1>5. /\ ~Filling(ch) /\ Filling(ch)' /\ \A m \in Messages : Waits(m)' = Waits(m)
  BY <1>1 DEF Filling, Waits, ReaderInv, ReaderTypeOK
<1>6. /\ b \notin pool' /\ cap'[b] # 0
      /\ \A x \in Buffers : x # b => cap'[x] = cap[x]
      /\ b \in pool \/ cap[b] = 0
  <2>1. CASE old # NoOne /\ cap[old] >= SizeOf[head[ch]]
    BY <1>2, <2>1 DEF PoolInv, BackInv
  <2>2. CASE ~(old # NoOne /\ cap[old] >= SizeOf[head[ch]])
    <3>1. cap[b] = 0 /\ cap' = [cap EXCEPT ![b] = SizeOf[head[ch]]]
      BY <1>2, <2>2 DEF NewBuffer
    <3>2. cap'[b] = SizeOf[head[ch]] /\ \A x \in Buffers : x # b => cap'[x] = cap[x]
      BY <3>1 DEF PoolInv, PoolTypeOK
    <3>3. b \notin pool
      BY <3>1 DEF PoolInv, BackInv
    <3> QED
      BY <1>2, <1>3, <3>1, <3>2, <3>3
  <2> QED
    BY <2>1, <2>2
<1>7. \A c \in Channels : Filling(c) => rbuf[c] # b
  BY <1>6 DEF PoolInv, FillInv
<1>8. \A m \in Messages : Waits(m) => holding[m] # b /\ holding[m] \in Buffers
  BY <1>6 DEF PoolInv, WaitInv, Waits, PoolTypeOK
<1>9. FillInv'
  <2> SUFFICES ASSUME NEW c \in Channels, Filling(c)'
               PROVE  /\ rbuf'[c] \in Buffers \ pool' /\ cap'[rbuf'[c]] # 0
                      /\ \A d \in Channels : Filling(d)' /\ rbuf'[d] = rbuf'[c] => d = c
                      /\ taken'[c] # <<>> => content'[rbuf'[c]] = taken'[c]
    BY DEF FillInv
  <2>1. CASE c = ch
    BY <1>1, <1>3, <1>4, <1>6, <1>7, <2>1
  <2>2. CASE c # ch
    <3>1. Filling(c) /\ rbuf'[c] = rbuf[c] /\ rbuf[c] # b
      BY <1>4, <1>7, <2>2
    <3>2. /\ rbuf[c] \in Buffers \ pool /\ cap[rbuf[c]] # 0
          /\ \A d \in Channels : Filling(d) /\ rbuf[d] = rbuf[c] => d = c
          /\ taken[c] # <<>> => content[rbuf[c]] = taken[c]
      BY <3>1 DEF PoolInv, FillInv
    <3>3. \A d \in Channels : Filling(d)' /\ rbuf'[d] = rbuf[c] => d = c
      BY <1>4, <3>1, <3>2
    <3> QED
      BY <1>1, <1>2, <1>6, <3>1, <3>2, <3>3
  <2> QED
    BY <2>1, <2>2
<1>10. WaitInv'
  <2> SUFFICES ASSUME NEW m \in Messages, Waits(m)
               PROVE  /\ holding[m] \notin pool' /\ cap'[holding[m]] # 0 /\ content[holding[m]] = Payload(m)
                      /\ \A k \in Messages : Waits(k) /\ holding[k] = holding[m] => k = m
                      /\ \A c \in Channels : Filling(c)' => rbuf'[c] # holding[m]
    BY <1>1, <1>5 DEF WaitInv
  <2>1. /\ holding[m] \notin pool /\ cap[holding[m]] # 0 /\ content[holding[m]] = Payload(m)
        /\ \A k \in Messages : Waits(k) /\ holding[k] = holding[m] => k = m
        /\ \A c \in Channels : Filling(c) => rbuf[c] # holding[m]
    BY DEF PoolInv, WaitInv
  <2>2. \A c \in Channels : Filling(c)' => rbuf'[c] # holding[m]
    BY <1>4, <1>8, <2>1
  <2> QED
    BY <1>2, <1>6, <1>8, <2>1, <2>2
<1>11. BackInv' /\ MessagesIntact'
  <2>1. \A x \in pool' : cap'[x] # 0
    BY <1>2, <1>6 DEF PoolInv, BackInv, PoolTypeOK
  <2> QED
    BY <1>1, <2>1 DEF PoolInv, BackInv, MessagesIntact
<1> QED
  BY <1>4, <1>9, <1>10, <1>11 DEF PoolInv

\* The payload that is handed on is the message's, in a buffer of its own.
LEMMA PayloadReadPool ==
  ASSUME WriterInv, ReaderInv, PoolInv, NEW ch \in Channels, PayloadRead(ch) PROVE PoolInv'
<1>1. /\ rpc[ch] = "payload" /\ Wanted(ch) = 0 /\ UNCHANGED <<pool, cap, content, putBack, decoded>>
      /\ rpc' = [rpc EXCEPT ![ch] = "header"] /\ rbuf' = [rbuf EXCEPT ![ch] = NoOne]
      /\ taken' = [taken EXCEPT ![ch] = <<>>]
      /\ holding' = [holding EXCEPT ![head[ch]] = rbuf[ch]]
  BY DEF PayloadRead, Returns
<1>2. ReadingFrame(ch)
  BY <1>1 DEF ReaderInv, StreamInv, Going
<1>3. PICK m \in Messages : head[ch] = m /\ SizeOf[m] \in Nat /\ SizeOf[m] > 0
  <2>1. head[ch] = order[ch][Number(ch)] /\ Number(ch) \in DOMAIN order[ch]
    BY <1>1, <1>2 DEF ReadingFrame
  <2>2. head[ch] \in Messages
    BY <2>1, ReaderNumbers DEF WriterInv, ReaderInv
  <2>3. SizeOf[head[ch]] \in Nat
    BY <2>2, FrameBytes
  <2> QED
    BY <1>1, <1>2, <2>2, <2>3 DEF ReadingFrame
<1>4. taken[ch] = Payload(m) /\ taken[ch] # <<>>
  <2>1. taken[ch] \in Seq(Bytes) /\ Len(taken[ch]) \in Nat
    BY ReaderNumbers DEF WriterInv, ReaderInv
  <2>2. Len(taken[ch]) = SizeOf[m]
    BY <1>1, <1>3, <2>1 DEF Wanted
  <2>3. DOMAIN taken[ch] = 1 .. SizeOf[m] /\ taken[ch] = [j \in 1 .. SizeOf[m] |-> taken[ch][j]]
    BY <2>1, <2>2
  <2>4. \A j \in 1 .. SizeOf[m] : taken[ch][j] = <<m, HeaderLength + j>>
    BY <1>1, <1>2, <1>3, <2>3 DEF ReadingFrame
  <2>5. taken[ch] # <<>>
    BY <1>3, <2>2
  <2> QED
    BY <2>3, <2>4, <2>5 DEF Payload
<1>5. PICK b \in Buffers :
        /\ b = rbuf[ch] /\ b \notin pool /\ cap[b] # 0 /\ content[b] = Payload(m)
        /\ \A c \in Channels : Filling(c) /\ rbuf[c] = b => c = ch
        /\ \A k \in Messages : Waits(k) => holding[k] # b
  BY <1>1, <1>4 DEF PoolInv, FillInv, WaitInv, Filling
<1>6. /\ b # NoOne /\ holding'[m] = b /\ \A k \in Messages : k # m => holding'[k] = holding[k]
      /\ \A c \in Channels : c # ch => rbuf'[c] = rbuf[c] /\ taken'[c] = taken[c] /\ rpc'[c] = rpc[c]
      /\ rpc'[ch] = "header"
  BY <1>1, <1>3, <1>5, ChannelAssumption DEF PoolInv, PoolTypeOK, ReaderInv, ReaderTypeOK
<1>7. PoolTypeOK'
  BY <1>1, <1>3, <1>5 DEF PoolInv, PoolTypeOK
<1>8. \A c \in Channels : Filling(c)' => /\ c # ch /\ Filling(c) /\ rbuf'[c] = rbuf[c] /\ rbuf[c] # b
                                         /\ taken'[c] = taken[c]
  BY <1>5, <1>6 DEF Filling
<1>9. FillInv'
  <2> SUFFICES ASSUME NEW c \in Channels, Filling(c)'
               PROVE  /\ rbuf'[c] \in Buffers \ pool /\ cap[rbuf'[c]] # 0
                      /\ \A d \in Channels : Filling(d)' /\ rbuf'[d] = rbuf'[c] => d = c
                      /\ taken'[c] # <<>> => content[rbuf'[c]] = taken'[c]
    BY <1>1 DEF FillInv
  <2> QED
    BY <1>8 DEF PoolInv, FillInv
<1>10. \A k \in Messages : k # m => (Waits(k)' <=> Waits(k))
  BY <1>1, <1>6 DEF Waits
<1>11. WaitInv'
  <2> SUFFICES ASSUME NEW k \in Messages, Waits(k)'
               PROVE  /\ holding'[k] \notin pool /\ cap[holding'[k]] # 0 /\ content[holding'[k]] = Payload(k)
                      /\ \A i \in Messages : Waits(i)' /\ holding'[i] = holding'[k] => i = k
                      /\ \A c \in Channels : Filling(c)' => rbuf'[c] # holding'[k]
    BY <1>1 DEF WaitInv
  <2>1. CASE k = m
    <3>1. \A i \in Messages : Waits(i)' /\ holding'[i] = b => i = m
      BY <1>5, <1>6, <1>10
    <3> QED
      BY <1>5, <1>6, <1>8, <2>1, <3>1
  <2>2. CASE k # m
    <3>1. Waits(k) /\ holding'[k] = holding[k] /\ holding[k] # b
      BY <1>5, <1>6, <1>10, <2>2
    <3>2. /\ holding[k] \notin pool /\ cap[holding[k]] # 0 /\ content[holding[k]] = Payload(k)
          /\ \A i \in Messages : Waits(i) /\ holding[i] = holding[k] => i = k
          /\ \A c \in Channels : Filling(c) => rbuf[c] # holding[k]
      BY <3>1 DEF PoolInv, WaitInv
    <3>3. \A i \in Messages : Waits(i)' /\ holding'[i] = holding[k] => i = k
      BY <1>6, <1>10, <3>1, <3>2
    <3> QED
      BY <1>8, <3>1, <3>2, <3>3
  <2> QED
    BY <2>1, <2>2
<1>12. BackInv' /\ MessagesIntact'
  BY <1>1, <1>3, <1>6 DEF PoolInv, BackInv, MessagesIntact, PoolTypeOK
<1> QED
  BY <1>7, <1>9, <1>11, <1>12 DEF PoolInv

LEMMA DeliverEmptyPool ==
  ASSUME WriterInv, ReaderInv, PoolInv, NEW ch \in Channels, DeliverEmpty(ch) PROVE PoolInv'
<1>1. /\ rpc[ch] = "deliver" /\ UNCHANGED <<pool, cap, content, holding, putBack>>
      /\ rpc' = [rpc EXCEPT ![ch] = "header"] /\ rbuf' = [rbuf EXCEPT ![ch] = NoOne]
      /\ taken' = [taken EXCEPT ![ch] = <<>>]
      /\ decoded' = [decoded EXCEPT ![head[ch]] = <<>>]
  BY DEF DeliverEmpty, Returns
<1>2. PICK m \in Messages : head[ch] = m /\ SizeOf[m] = 0
  <2>1. ReadingFrame(ch)
    BY <1>1 DEF ReaderInv, StreamInv, Going
  <2>2. head[ch] = order[ch][Number(ch)] /\ Number(ch) \in DOMAIN order[ch] /\ SizeOf[head[ch]] = 0
    BY <1>1, <2>1 DEF ReadingFrame
  <2> QED
    BY <2>2, ReaderNumbers DEF WriterInv, ReaderInv
<1>3. /\ decoded'[m] = <<>> /\ Payload(m) = <<>>
      /\ \A k \in Messages : k # m => decoded'[k] = decoded[k]
  <2>1. Payload(m) \in Seq(Bytes) /\ Len(Payload(m)) = 0
    BY <1>2, FrameBytes
  <2> QED
    BY <1>1, <1>2, <2>1 DEF PoolInv, PoolTypeOK
<1>4. PoolTypeOK'
  BY <1>1, <1>2 DEF PoolInv, PoolTypeOK
<1>5. MessagesIntact'
  BY <1>3 DEF PoolInv, MessagesIntact
<1>6. \A c \in Channels : Filling(c)' => Filling(c) /\ rbuf'[c] = rbuf[c] /\ taken'[c] = taken[c]
  BY <1>1 DEF PoolInv, PoolTypeOK, ReaderInv, ReaderTypeOK, Filling
<1>7. \A k \in putBack : decoded'[k] # NoOne
  <2>1. m \notin putBack
    BY <1>2 DEF PoolInv, BackInv
  <2> QED
    BY <1>3, <2>1 DEF PoolInv, BackInv, PoolTypeOK
<1> QED
  BY <1>1, <1>4, <1>5, <1>6, <1>7, SameOwners

\* The other steps of a reader neither fill a buffer nor hand one on.
LEMMA PassPool ==
  ASSUME ReaderInv, PoolInv, NEW ch \in Channels, HeaderRead(ch) \/ Oversized(ch) \/ RecvFails(ch)
  PROVE  PoolInv'
<1>1. UNCHANGED <<pool, cap, content, holding, putBack, decoded>>
  BY DEF HeaderRead, Oversized, RecvFails, poolVars
<1>2. PICK w \in {"header", "lost", "discard", "get", "deliver", "eof", "cut"} :
        rpc' = [rpc EXCEPT ![ch] = w]
  <2>1. CASE HeaderRead(ch)
    <3> DEFINE m == taken[ch][1][1]
    <3>1. \/ rpc' = [rpc EXCEPT ![ch] =
                IF TooLong(m) THEN "discard" ELSE IF SizeOf[m] > 0 THEN "get" ELSE "deliver"]
          \/ rpc' = [rpc EXCEPT ![ch] = "lost"]
      BY <2>1 DEF HeaderRead
    <3> QED
      BY <3>1
  <2>2. CASE Oversized(ch)
    BY <2>2 DEF Oversized, Returns
  <2>3. CASE RecvFails(ch)
    BY <2>3 DEF RecvFails
  <2> QED
    BY <2>1, <2>2, <2>3
<1>3. \A c \in Channels : c # ch => rbuf'[c] = rbuf[c] /\ taken'[c] = taken[c]
  BY DEF HeaderRead, Oversized, RecvFails, Returns, PoolInv, PoolTypeOK, ReaderInv, ReaderTypeOK
<1>4. rbuf' \in [Channels -> Buffers \cup {NoOne}]
  BY DEF HeaderRead, Oversized, RecvFails, Returns, PoolInv, PoolTypeOK
<1>5. PoolTypeOK' /\ MessagesIntact'
  BY <1>1, <1>4 DEF PoolInv, PoolTypeOK, MessagesIntact
<1>6. \A c \in Channels : Filling(c)' => Filling(c) /\ rbuf'[c] = rbuf[c] /\ taken'[c] = taken[c]
  BY <1>2, <1>3 DEF ReaderInv, ReaderTypeOK, Filling
<1>7. \A k \in putBack : decoded'[k] # NoOne
  BY <1>1 DEF PoolInv, BackInv
<1> QED
  BY <1>1, <1>5, <1>6, <1>7, SameOwners

\* A message whose buffer was not put back finds its own bytes in it.
LEMMA UnmarshalPool ==
  ASSUME PoolInv, NEW m \in Messages, Unmarshal(m) PROVE PoolInv'
<1>1. /\ holding[m] # NoOne /\ decoded[m] = NoOne /\ decoded' = [decoded EXCEPT ![m] = content[holding[m]]]
      /\ UNCHANGED <<pool, cap, content, holding, putBack, rpc, rbuf, taken>>
  BY DEF Unmarshal, consumeOnly, readerVars
<1>2. Waits(m)
  BY <1>1 DEF PoolInv, BackInv, Waits
<1>3. holding[m] \in Buffers /\ content[holding[m]] = Payload(m) /\ Payload(m) \in Seq(Bytes)
  BY <1>2, FrameBytes DEF PoolInv, WaitInv, PoolTypeOK, Waits
<1>4. decoded'[m] = Payload(m) /\ \A k \in Messages : k # m => decoded'[k] = decoded[k]
  BY <1>1, <1>3 DEF PoolInv, PoolTypeOK
<1>5. PoolTypeOK'
  BY <1>1, <1>3 DEF PoolInv, PoolTypeOK
<1>6. MessagesIntact'
  BY <1>4 DEF PoolInv, MessagesIntact
<1>7. \A c \in Channels : Filling(c)' = Filling(c)
  BY <1>1 DEF Filling
<1>8. \A k \in putBack : decoded'[k] # NoOne
  BY <1>2, <1>4 DEF PoolInv, BackInv, PoolTypeOK, Waits
<1> QED
  BY <1>1, <1>5, <1>6, <1>7, <1>8, SameOwners

LEMMA PutBufferPool ==
  ASSUME PoolInv, NEW m \in Messages, PutBuffer(m) PROVE PoolInv'
<1>1. /\ Waits(m) /\ decoded[m] # NoOne /\ pool' = pool \cup {holding[m]} /\ putBack' = putBack \cup {m}
      /\ UNCHANGED <<cap, content, holding, decoded, rpc, rbuf, taken>>
  BY DEF PutBuffer, PutReady, consumeOnly, readerVars, Waits
<1>2. /\ holding[m] \in Buffers /\ cap[holding[m]] # 0
      /\ \A k \in Messages : Waits(k) /\ holding[k] = holding[m] => k = m
      /\ \A c \in Channels : Filling(c) => rbuf[c] # holding[m]
  BY <1>1 DEF PoolInv, WaitInv, PoolTypeOK, Waits
<1>3. PoolTypeOK'
  BY <1>1, <1>2 DEF PoolInv, PoolTypeOK
<1>4. /\ \A c \in Channels : Filling(c)' = Filling(c)
      /\ \A k \in Messages : Waits(k)' <=> Waits(k) /\ k # m
  BY <1>1 DEF Filling, Waits
<1>5. FillInv'
  BY <1>1, <1>2, <1>4 DEF PoolInv, FillInv
<1>6. WaitInv'
  BY <1>1, <1>2, <1>4 DEF PoolInv, WaitInv
<1>7. BackInv' /\ MessagesIntact'
  <2>1. holding[m] # NoOne
    BY <1>1 DEF Waits
  <2> QED
    BY <1>1, <1>2, <2>1 DEF PoolInv, BackInv, MessagesIntact
<1> QED
  BY <1>3, <1>5, <1>6, <1>7 DEF PoolInv

LEMMA PoolNext ==
  WriterInv /\ ReaderInv /\ ReaderInv' /\ PoolInv /\ [Next]_vars => PoolInv'
<1> SUFFICES ASSUME WriterInv, ReaderInv, ReaderInv', PoolInv, [Next]_vars PROVE PoolInv'
  OBVIOUS
<1>1. ASSUME NEW m \in Messages, Write(m) PROVE PoolInv'
  <2>1. UNCHANGED <<poolVars, readerVars>>
    BY <1>1 DEF Write, SendBegins, FillHeader, WriteHeader, WritePayload, Flush, writeOnly
  <2> QED
    BY <2>1, IdlePool DEF readerVars
<1>2. ASSUME NEW m \in Messages, Unmarshal(m) \/ PutBuffer(m) PROVE PoolInv'
  BY <1>2, UnmarshalPool, PutBufferPool
<1>3. ASSUME NEW ch \in Channels, Recv(ch) PROVE PoolInv'
  BY <1>3, ReadPool, GetBufferPool, PayloadReadPool, DeliverEmptyPool, PassPool DEF Recv
<1>4. ASSUME NEW ch \in Channels, ConnGoes(ch) PROVE PoolInv'
  BY <1>4, IdlePool DEF ConnGoes, readerVars
<1>5. CASE UNCHANGED vars
  BY <1>5, IdlePool DEF vars, readerVars
<1> QED
  BY <1>1, <1>2, <1>3, <1>4, <1>5 DEF Next

\* A message is unmarshalled from its own bytes whatever buffers there are and
\* whoever takes them from the pool in between.
THEOREM MessagesKeepBytes == Spec => []MessagesIntact
<1>1. PoolInv => MessagesIntact
  BY DEF PoolInv
<1> QED
  BY <1>1, WriterInit, WriterNext, ReaderInit, ReaderNext, PoolInit, PoolNext, PTL DEF Spec
=============================================================================
