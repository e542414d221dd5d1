# ttrpc: specifications, model checking and proofs

ttrpc is an RPC protocol for Go programs that talk over a local connection: unary
calls and streams are multiplexed, as frames with a stream id, on one ordered byte
connection. This directory holds TLA+ models of the client, of the server's side of
a connection, of both joined, of the server around its connections, of the framing
below and of what happens to one call above; an abstract specification of the calls;
TLC configurations for small instances; and theorems about the client, the server's
side of a connection, both joined, the server, the framing and a call from end to end,
checked by TLAPS. Every invariant the passing runs check is also a theorem, and so is
the refinement: what is only model-checked is liveness.

## 1. The system

| Component | State | Operations | Talks to |
|---|---|---|---|
| Client (`client.go`, `stream.go`) | `ctx`, `closeOnce`, `streams` (under `streamLock`), `nextStreamID`, `sendLock`; per stream the buffered channel `recv`, `recvErr`, `recvClose` | `Call`/`dispatch`, `NewStream`, `createStream`, the receive loop (`run`, `receiveLoop`, `stream.receive`), `deleteStream`, `cleanupStreams`, `Close`, the on-close callback | callers through `recv`/`recvClose`; the server through the connection |
| ClientStream (`client.go`) | `localClosed`, `remoteClosed` | `SendMsg`, `CloseSend`, `RecvMsg` | its stream |
| Server connection (`server.go`, `serverConn.run`) | `streams`, `active`, `lastStreamID`, `state`; channels `responses` (unbuffered), `recvErr`, `shutdown`, `done` | the receiver goroutine (`sendStatus`), the main loop, `respond`, deferred calls | handlers, the client, `Server` through `state` and `shutdown` |
| Service dispatch, stream handlers (`services.go`) | per stream `recv`, `remoteClosed`, a context | `handle`, `data`, `closeSend`, `RecvMsg`, `SendMsg`, the answer of a handler | the receiver through `recv`, the main loop through `respond` |
| Server (`server.go`) | `listeners`, `connections`, `done` under `mu` | `Serve`, `Shutdown`, `Close`, `newConn`, `closeIdleConns`, `delConnection` | its connections |
| Channel (`channel.go`) | header buffers, `bw`, `br`, the pool all channels share | `send`, `recv`, `getmbuf`, `putmbuf`; frames above 4 MiB | both ends |
| Metadata (`metadata.go`) | a map of slices, whose arrays maps and keys may share | `Get`, `Set`, `Append`, `Clone`, `setRequest`, `fromRequest` | the application, requests |
| Interceptors, options (`interceptor.go`, `config.go`, `client.go`) | closures made once | the `With...` options, `NewClient`, `NewServer`, the chains | a call on its way down and back |
| Codec, errors (`codec.go`, `errors.go`) | none | what is refused, codes of errors | a call |
| Handshake, credentials | none | system calls | `Serve` |
| Generator, generated code, example, integration service | none | | |

What is hard in it:

* *Concurrency in the client.* Callers allocate ids and send under `sendLock`, the
  registry is under `streamLock`, the receive loop looks a stream up under one lock
  and delivers to it under none, and `Close` can come from two sides while a
  `createStream` is under way.
* *One receive loop for all streams*, on both sides: a full buffer holds it for up to
  a second, then the stream (client) or the message (server) is given up.
* *The server's goroutines meet on one unbuffered channel*; the map `streams`, the
  counter `active` and the connection state are updated at different moments by
  different goroutines.
* *Shutdown* decides by a state that another goroutine computes, and must neither
  lose a connection that Serve is admitting nor wait for ever.
* *Two bounded byte streams join the ends*: every write may wait for the other end to
  read, and the loop that reads may itself be waiting.
* *Buffers are shared*: a message buffer passes through a pool from one message,
  channel and goroutine to another; appends write in place into arrays that other
  keys and clones of a metadata map may see.
* *Interceptors may retry*, so that one closure is entered again after it returned.
* *Failure*: either end may vanish between frames or inside one, a message may be too
  long in either direction, contexts end at any time.

Correctness of each part, in words: callers get the frames of their stream, in order,
and are released whatever happens; ids on the wire increase; a closed client
registers nothing; handlers start once per id and read what was sent; the counters
of a connection do not drift upwards; `run`, `Serve` and `Shutdown` end; the two ends
never wait for each other for ever; frames stay whole and messages keep their bytes;
metadata, deadline and result of a call arrive, through every interceptor. The hazards
that make these hard, each at its line, are listed in `PROJECT.json`.

## 2. Modules

| Module | What it is |
|---|---|
| `Client` | the client and its streams; the server is an environment |
| `ServerConn` | `serverConn.run` with the handlers and stream handlers; the client, and Shutdown/Close, are an environment |
| `Rpc` | abstract specification: what ttrpc promises of its calls |
| `Connection` | a `Client` and a `ServerConn` joined by two bounded byte streams; implements `Rpc` |
| `Server` | `Serve`, `Shutdown`, `Close` and the two registries; a connection is reduced to its state and its life |
| `Channel` | framing on a byte stream, and the pool of buffers |
| `Metadata` | `MD` with the arrays behind its slices |
| `Interceptors` | what a list of options makes of the interceptors, and the chains |
| `UnaryCall` | one `Client.Call` from the application through both chains to the method and back; extends the two above |
| `ClientProofs`, `ClientStreamProofs` | theorems about `Client`; the second extends the first |
| `ServerConnProofs` | theorems about `ServerConn` |
| `ConnectionProofs` | the invariant of `Connection`, from those of its two ends |
| `RpcProofs` | `Connection` implements `Rpc`; extends `ConnectionProofs` |
| `ServerProofs` | theorems about `Server` |
| `ChannelProofs` | theorems about `Channel` |
| `UnaryCallProofs` | theorems about `UnaryCall`, and what they need of `Metadata` and `Interceptors` |
| `MCClient`, `MCServerConn`, `MCConnection`, `MCServer`, `MCChannel`, `MCUnaryCall` | instances for TLC: model values, functions a `.cfg` cannot write, and the reduction of `connection` |

### Client

One member of `Unary` is one `Call`, one member of `Streams` one `NewStream` with the
goroutines that then use the stream. A call makes at most one stream object, so the
object is named by the call. `pc[c]` is where its goroutine is:

    start -> locked -> registered -> waiting -> deleting -> done          (unary)
                                  -> open <-> recving -> done             (stream)

* `createStream` is three actions, `AcquireSendLock`, `RegisterStream`,
  `SendRequest`, because other goroutines run between them; `sendLock` is held from
  the first to the last.
* A `select` with several ready cases is a disjunction: `UnaryReceive` and
  `UnaryFail`, `RecvMsgTake` and `RecvMsgFail`, `Deliver` and `Drop`.
  The case of `recvClose` looks at `recv` first, which is the guard `RecvErrReady`.
* The receive loop is `LoopTop`, `ReceiveFrame` (receive and look up), `ReceiveCheck`
  and `Deliver`/`Drop`/`WaitForRoom`/`ReceiveTimeout` (the steps of
  `stream.receive`), then `RunClose`, `CleanupStreams`, `CallbackReturns`.
* `Close` is `CancelCtx` and `CloseConn`; `closeOnce` says who is inside.
* A frame is its stream id, its kind (by what the client tells apart) and its number.
  `got`, `wire` and `sent` are history variables.

The environment sends Responses and Data on ids that were requested, in every order
and number, also after a stream was finished; it may hang up between or inside frames.
Frames the reader has buffered are still received after the connection is closed.

### ServerConn

The receiver is `ReceiverTop`, one action per kind of frame, the steps of
`streamHandler.data` (`DataAccepted`, `DataAborted`, `DataWaits`, `DataFull`), and for
a request `StoreStream` and `CountStream`, which come *after* the handler was started.
`rpc = "status"` is the receiver inside `sendStatus`. The main loop is `MainTop`
(compute the state), the four cases of its select (`TakeStatus`, `TakeResponse`,
`TakeRecvErr`, `MainShutdown`), `WriteResponse` and `FinishStream`. A rendezvous on
`responses` is one action of both parties. A handler calls `RecvMsg` and `SendMsg` in
any order, from one goroutine, and returns; `ContextDone` is its deadline or the
deferred cancel.

`SeeIdle` and `CloseIdle` are the two halves of `closeIdleConns` that a connection can
move between, `ServerClose` is the part of `Server.Close` a connection sees.

The client of this model repeats and reorders requests, uses even and unknown ids and
sends frames that are too long, but sends Data only on ids of streams that it has
requested: PROTOCOL.md does not allow it elsewhere ("on an already initialized
stream", "not allowed on a unary stream"), and the code gives it no meaning there.

### Server

Each section under `mu` is one action. `Serve` is `ServeStart`, `Accept`,
`Handshake`, `NewConn` (with `addConnection`), `Launch` (`go sc.run`) and
`ServeReturns` (the deferred `closeListener`). `Shutdown` is `ShutdownStart` and then
rounds of `Sweep`, `CountConnections` and `Tick`. A connection has its stored state,
which is brought up to date by `UpdateState` only, so that `Sweep` may read an old
one. That race inside the connection is `ServerConn`'s subject, and its counter
`active` is `requests` here, without the negative values `ServerConn` finds.

### Rpc and Connection

`Rpc` says what a caller and a handler may rely on, in counters of messages: a request
starts at most one handler, the handler reads the caller's messages in order and
without a gap unless the caller was told that one was refused, it learns of the end
after the last message only, the caller receives in order, and success (or the end of
the stream) is reported only after the handler has ended and all it sent was received.

`Connection` instantiates `Client` and `ServerConn` as they are. A step of the client
that adds to its history `wire` puts that frame into the server's inbox in the same
step (`CarriedToServer`), a step of the server that adds to `outbox` puts one into
the client's (`CarriedToClient`); an inbox holds `MaxInFlight` frames, so that a
write is disabled until there is room. Closing one end ends the other's stream,
after what is in it. `SidOf` fixes which call gets which id, because `ServerConn`
names handlers by id. `Client.Close` by the application, contexts that end and the
server's shutdown are left to the runs of the parts, which need no other end for them.

The refinement mapping (`Abstract`) reads the abstract state off the histories:
`phase` from `wire`, `started` and `outbox`, `upSent` and `downSent` by counting,
`upRead` from the number of the last frame read, `result` from what the caller was
returned. `ServerConn` alone assumes that its client sends Data only on streams it has
requested and not closed; `WireWellFormed` of `Client` is that assumption, proved.
`MaxFrames` is there because `Client` and `ServerConn` have a bound on what their
environments send; `Connection` gives both a value that its own bounds do not let
anybody reach.

### Channel

One channel is one direction of a connection. A writer takes the lock, fills the
shared header buffer, writes header and payload to `bw` and flushes (`SendBegins`,
`FillHeader`, `WriteHeader`, `WritePayload`, `Flush`), each an action because the
lock is what keeps others out. The reader gets its bytes in pieces of any size
(`Read`), looks at a complete header, discards or reads the payload into a buffer from
the pool (`GetBuffer`: any pooled buffer, or none, as `sync.Pool` likes), and
hands it on; whoever takes the message unmarshals it and puts the buffer back, or
never does. A byte is its message and its position, so that a reader that loses
track of the frames is seen (`rpc = "lost"`). A connection in `Fragile` may go at any
time, also inside a flush.

### Metadata, Interceptors, UnaryCall

A slice of `Metadata` is a window on an array (`arr`, `from`, `len`, `cap`), and
`AppendTo` is Go's `append`, in place if there is room. `ideal` is the history of what
the maps would hold if they were values. `Clone` ranges over the keys in any order.

`Interceptors` applies the option lists of `NewClient` and `NewServer` one after the
other (`ClientApplied`, `ServerApplied`) until one interceptor is left; a chain holds its members, and a continuation (`Invoker`, `Method`)
is the list of what remains to be called, which `Unfold` expands one chain at a time.

`UnaryCall` starts with the application building metadata (the actions of
`Metadata`), then `Call` copies metadata and deadline into the request and walks down:
`Continue`, `GoOn`, `Refuse`, `PassOn` are an interceptor's choices, `Dispatch`
the wire (what happens there is `Connection`), `Handle` the server, `MethodReturns` the
method. Results carry what the code tells apart: a message, nil, something that is no
message, and the errors `convertCode` and `status.FromError` distinguish.

## 3. Runs

Every property of a passing run has a mutant in `PROJECT.json`: a plausible bug in
one definition of the model that makes TLC find the property violated. The faulty
variants stand before the definition they replace, under a comment "Faulty".

| Run | Checks |
|---|---|
| `client_stream` | one stream in both directions, every kind of frame: `TypeOK`, `DeliveredIsPrefix`, `BufferedBeforeError` |
| `client_calls` | two unary calls (one too long to send) and a stream: `CallbackSeesClosedClient`, `NoCallForgotten`, `FinishedUnaryUnregistered`, `WireIdsIncrease`, `WireWellFormed` |
| `client_live` | a unary call and a stream nobody need read: `CloseReleasesCallers`, `HangUpClosesClient`, `NoHeadOfLineBlocking` |
| `server_stream` | one stream, every kind of frame: `TypeOK`, `HandlerReadsInOrder`, `EOFAfterLastMessage` |
| `server_conn` | a stream, a unary id and two ids that are not served (one even), both kinds of shutdown: `HandlersStartInIdOrder`, `NoPhantomActivity` |
| `server_live` | a stream and an unserved id: `ReturnReleasesGoroutines`, `NoHeadOfLineBlocking`, `ClientGoneEndsRun`, `ShutdownEndsRun` |
| `server_registry` | one Serve, two connections, two Shutdowns, one Close: `TypeOK`, `NoConnOutOfReach`, `ShutdownReachesAll`, `DoneStopsAccepting`, `ServeEnds`, `ShutdownEnds` |
| `connection` | both ends with one stream, data both ways and an answer that may be too long: `ImplementsRpc` (the refinement), `NoMutualWait` |
| `channel` | two channels, five messages (one too long for the reader, one for the writer, one empty), two buffers, a channel that breaks: `FramesInOrder`, `MessagesIntact`, `SentIsReceived` |
| `unary_call` | five operations on two metadata maps, or interceptors on both sides: `MDsAreValues`, `MethodInsideInterceptors`, `MetadataArrives`, `DeadlineArrives`, `ResultArrives` |

Two runs expect a violation; each shows where the program does something else than
a comment or PROTOCOL.md says:

| Run | Statement | What the code does |
|---|---|---|
| `client_response` | a Response terminates its stream (`PROTOCOL.md:57`) | with an error status `RecvMsg` returns before it deletes the stream (`client.go:285`) |
| `server_count` | an idle connection has no requests (`server.go:268`) | every status counts a request down, also for refused messages and ids that were not counted (`server.go:546`), so a connection is idle while a handler works |

Three more differences were met and have no run of their own. Stream ids on the wire
increase (`client.go:390`) until the `uint32` wraps around after 2^31 streams, which
is `IdsLeft` below. The shutdown case of the main loop is enabled by a state computed
before the select, so also when a request was accepted since (`server.go:503-509`).
Data may follow a Response, when a refused message is answered with one while the
handler goes on sending (`server.go:427`, against `PROTOCOL.md:84`).

### Bounds

| Bound | Value | Why it is enough |
|---|---|---|
| `RecvBuf` | 1 (64 in the code) | the code compares the length with the capacity only; one frame fills the buffer, a second one waits, a third comes after the timeout. The theorems hold for every value. |
| `SidLimit` | 4 to 8 (2^32 in the code) | large enough for no wrap; in `connection` the call has id 1 and two more ids are left, as the theorems about it assume |
| `MaxFrames`, `MaxIn` | 1 to 3 | three frames: one buffered, one refused or dropped, one that must not be delivered after the gap |
| `MaxInFlight` | 1, 2 in `client_stream` | the connection is a FIFO read by one loop; a longer queue only delays. In `connection` 1 makes every second write wait, which is the hard case. |
| `MaxSends`, `MaxReplies` | 0 or 1 | one message before and one after the close would be enough to violate `WireWellFormed` |
| `MaxRequests` | 2 | a connection that stays active when one of its requests ends |
| calls, connections | 1 to 3 | every pair of goroutines that share a lock or a channel. `connection` has one call: calls meet in the loops only, which the runs of the parts have with several |
| `HeaderLength`, `LengthMax` | 2 (10 and 4 MiB) | a header can be split, a payload too long by one |
| `Buffers` | 2 | one buffer in a reader's hands while another waits to be unmarshalled |
| `Fragile` | one of two channels | the other shares the pool and must not suffer |
| `MaxOps` | 5 | set two keys, clone, append to two keys: an overlap needs four |
| `MaxNexts` | 6 | three interceptors and a retry of all |
| `Plans`, `Untils`, `Delays`, `Returns` | in `MCUnaryCall` | every option alone, after a single interceptor and after a chain; no deadline, one in the past, exactly now and ahead; every class of error |

`connection` uses an ACTION_CONSTRAINT, `LocalStepsFirst`: a loop at its top takes
its step before anything else happens. Those steps look only at what no other step of
this composition changes (nobody calls `Close` or shuts the server down from outside),
or compute a state that only a shutdown reads, so that every behaviour has an
equivalent one that obeys the constraint.

Runs set `CHECK_DEADLOCK FALSE`, since the systems stop: a client that is closed and
whose calls are done, a connection whose `run` has returned, a server that is shut
down, a call that has returned. That nothing stops too early is what the liveness runs
check.

### Fairness

The Go scheduler runs every goroutine that can run (weak fairness of the loop, of each
call's own steps, of the receiver, the main loop and the handlers' steps), and timers
and tickers fire. A write blocks while the other end does not read: in `Client` it must
return only when the connection is gone (`SendOnDeadConn`), in `ServerConn` the
client is assumed to read or to go away. In `ServerConn` a handler that is outside
RecvMsg and SendMsg returns some time (strong fairness of `HandlerReturns`, because
the handler may always choose to call RecvMsg again first). The on-close callback returns, a
handshake ends. Nothing is assumed of applications calling the client, of the frames
the other end sends, or of deadlines.

Premises are part of the properties: `ShutdownEndsRun` needs that no handler stays in
RecvMsg for ever, `ShutdownEnds` that the clients send no more requests at last.
A server whose connection always has a request outstanding does not shut down.

`Connection` needs less: weak fairness of the client's loop, the server's receiver and
its main loop, whose writes are disabled while the stream is full. That is enough for
`NoMutualWait` because no application and no handler has to move. `Channel` has
weak fairness of each reader only; nobody need write, unmarshal or return a buffer.

## 4. Theorems

`ClientProofs` proves, for every set of calls, every buffer size and every bound:

* `TypeCorrect`: `Spec => []TypeOK`, action by action; `TypeOK` is a conjunction of
  named parts so that an action's step shows only the parts it disturbs.
* `CallbackAfterClose`: `Spec => []CallbackSeesClosedClient`. The invariant alone is
  not inductive: a call that is past the first check could register. `CloseInv` adds
  that `closeOnce` agrees with `ctxDone` and `connClosed` and that the loop has
  closed before it cleans up; then the second check, under `streamLock`, refuses.
* `RequestIdsIncrease`: `Spec /\ []IdsLeft => []WireIdsIncrease`. `IdInv` adds
  that only the holder of `sendLock` is between allocating and sending, that every
  id on the wire is below `nextStreamID`, and that the holder's id is above all
  requests on the wire. `IdsLeft` (the next id does not wrap) is needed: with
  `SidLimit = 4` the second request of a client has id 3 and the third has 1 again.
* `CallsReachable`: `Spec /\ []IdsLeft => []NoCallForgotten`, by `WakeInv`: ids of
  different calls differ (`IdInv`), so deleting one stream unregisters no other, and
  the cleanup closes every stream it unregisters, with an error that is not empty.
* `CleanupWakesEveryCall`: no unfinished call has an open stream after the cleanup;
  it combines the two before.

`ClientStreamProofs`:

* `UnaryUnregistered`: `Spec => []FinishedUnaryUnregistered`. `RegisteredInv` adds that
  an id is registered for the call that has it, so that the deferred `deleteStream`,
  which goes by id, removes the call's own entry. No `IdsLeft` here: a wrapped id may
  overwrite an entry but never leaves one behind.
* `ErrorsComeLast`: `Spec => []BufferedBeforeError`. `ErrorInv` counts: the receive loop
  waits only for a stream whose channel was full, and frames move from the channel to
  the caller without getting lost, so at `ErrStreamFull` a full buffer has
  arrived; and a stream the loop closed has no frame in the loop's hand, so what is
  buffered can only shrink and the caller gets the error when it is empty. A unary call
  never gets `ErrStreamFull` because it takes the one frame before it ends.
* `ClientWritesProtocol`: `Spec /\ []IdsLeft => []WireWellFormed`. `WireInv` adds that a
  call which is registered and has not sent has nothing on the wire, that one which
  has opened its stream has its request there, and that a close on the wire means
  `localClosed`.

* `DeliveredInOrder`: `Spec /\ []IdsLeft => []DeliveredIsPrefix`. `DeliveryInv` places
  every frame the server sent on the stream of an open call: the first are in `got`,
  then those in `recv`, then the one in the receive loop's hand (`HeldIsNext`), then
  those in flight, in order and without a gap (`Pending`). A step that loses a frame
  must therefore close the stream or end the loop (`NoneLost` is only promised while
  `recvErr` is empty and the loop reads), and from then on nothing is delivered
  (`Deliverable`). It rests on four other invariants: ids are not shared (`IdInv`), a
  registered call has the id it is registered under (`RegisteredInv`), the server
  answers only ids that were handed out (`WireInv`), and a cleanup closes with an error
  (`WakeInv`).

`ServerConnProofs`, for every set of ids and methods, every buffer size and bound:

* `ConnTypeCorrect`: `Spec => []TypeOK`.
* `HandlersInIdOrder`: `Spec => []HandlersStartInIdOrder`. `OrderInv` adds that no
  handler that exists and no id in the history is above `lastStreamID`.
* `ActiveCountsRequests`: `Spec => []NoPhantomActivity`. `ActivityInv` adds to the bound
  the request whose handler has started and that is not yet counted, which would
  otherwise break it one step later, and the response the main loop has taken and not
  yet counted down. It needs that only a connection that is done lets a handler go
  without its response being taken, and facts on the cardinality of finite sets.
* `ReadsInOrder`: `Spec => []HandlerReadsInOrder`. `ReadInv` says where everything the
  client sent on a stream is, unless a message was refused: what the handler has read
  and has buffered are the messages of the first `k` frames, then comes the message
  that is being delivered, then what is in flight (`GotUpTo`), in order and without a
  gap. It needs that a frame knows its stream and its number (`FlightInv`) and that
  nothing is delivered to a stream that is closed or not yet accepted (`IdInv`).
* `EOFComesLast`: `Spec => []EOFAfterLastMessage`. `ClosedInv` says that a closed stream
  holds, read or buffered, the messages of all frames up to the one that closed it;
  `EOFInv` that only a closed and drained stream has given `io.EOF`. That nothing is
  added behind the close is again `IdInv`.

`ConnectionProofs`, for every set of calls, every buffer size and bound, and every
choice of ids, takes `Client` and `ServerConn` with their invariants as they are proved:

* `ClientInv` and `ServerInv` are conjunctions of the inductive invariants of the parts.
  They hold of the whole because a step of `Connection` is, seen from either end, a step
  of that end or of the peer it was proved against (`ClientMoves`, `ServerMoves`). For
  this the step lemmas of the parts are stated over `Moves`, which is `Next` without
  `MaxFrames` or `MaxIn`: the bounds are for TLC, and no invariant needs them.
  Three invariants of `ServerConn` serve here only: `RiseInv` (what a handler got goes
  up, also after a refusal), `AnswerInv` (a handler is answered once, by what the main
  loop took of it) and `SourceInv` (whatever the connection does about an id, a frame
  of it came in).
* `JointInv` relates the two ends, call by call. `UpOf`: what the server has of a call is
  its request, its data and its close, all that is on the client's wire while the server
  is there. `DownOf`: what the client has of a call is no more than what the server
  wrote, and all of it by the time the end of the call is among it. `ToldOf`: a call
  under way was told nothing. `Ids`: calls have the ids `SidOf` gives them.
* `EndsKeepTheirPromises`: `Spec` implies that `NoCallForgotten`, `WireIdsIncrease`,
  `WireWellFormed`, `HandlersStartInIdOrder` and `HandlerReadsInOrder` hold of the two
  ends joined. What `Client`'s theorems suppose (`IdsLeft`) and what `ServerConn` supposes
  of its client is discharged: `SidOfAssumption` leaves two ids after the last call.

`RpcProofs`:

* `ConnectionImplementsRpc`: `Spec => ImplementsRpc`, the refinement that the run
  `connection` checks for one call. Every value `Abstract` is given is a function of the
  calls, and a step of one call changes it for that call only (`SameAll`); one lemma per
  abstract action says which change of the values it is (`IsRequest` to `IsClientEnds`),
  and one per action of `Connection` which of these it makes, or none. The steps that
  need the invariant are those where one end believes what it was told: a handler that
  takes a message takes the next number (`NextGot`, from `ReadInv`, `RiseInv` and `UpOf`),
  one that gets `io.EOF` has read all that its caller sent before it closed (`AllRead`,
  from `ClosedInv` and `UpOf`), a response is written for a handler that runs and was not
  answered (`AnswerInv`), and a caller that is told of the end has received what was
  written (`Received`, from `DeliveryInv` and `DownOf`).

`ServerProofs`, for every number of listeners, connections and callers:

* `ServerTypeCorrect`: `Spec => []TypeOK`.
* `DoneServerStopsAccepting`: `Spec => []DoneStopsAccepting`. `ListenerInv` adds that a
  listener that accepts and whose Serve has begun is registered, which is why closing
  the registered ones is enough.
* `ConnsInReach`: `Spec => []NoConnOutOfReach`, and `ShutdownComplete`: `Spec =>
  []ShutdownReachesAll`. `OwnerInv` (a connection is dialed, in the hand of one Serve,
  or its run was started) is needed where `delConnection` unregisters a connection: no
  Serve is about to launch the same one. `ReachInv` adds that whoever began to stop the
  server closed `done`, and that the map stays empty after a stop that finished,
  because `addConnection` then refuses.

`ChannelProofs`, for every number of channels, messages and buffers, every length of a
payload and of the header and every limit:

* `FramesStayWhole`: `Spec => []FramesInOrder`. `WriterInv` says what is in `bw` while
  the lock is held and that a message is written once. `ReaderInv` relates the reader
  to the bytes on their way: what it took is the beginning of the frame after the last
  it returned (`ReadingFrame`), the next byte is the one that follows (`StartsRight`),
  the bytes after it go on without a gap from frame to frame (`Framed`), and unless the
  connection is gone they end where the frame begins that is handed on next
  (`EndsRight`). That a message is written once tells which frame follows a byte.
* `MessagesKeepBytes`: `Spec => []MessagesIntact`. `PoolInv` gives each buffer one user
  at most: a buffer that is being filled (`FillInv`), or whose message is not yet put
  back (`WaitInv`), is not in the pool, was made, has no other user and holds the bytes
  it should. It uses `ReaderInv`, for what was read into the buffer is the payload of
  the message only if the reader is at the frame it believes to be at.

`UnaryCallProofs`, for every set of plans, keys, metadata maps, deadlines, delays and
results, and any number of retries:

* `StackInv` is the ground of the rest: the frames of the client's interceptors come
  first on `stack`, then the connection, then the server's, and `pc` agrees with the
  last of them (`Placed`). A retry re-enters a closure, so this is what tells on which
  side of the connection it is.
* `DeadlineKeptOnTheWay`: `CallSpec => []DeadlineArrives`. `TimesInv` says that the
  request carries what was left when `Call` was made, that time only moves on, and
  that a deadline the server made stays while the call is on the server's side.
* `ResultsKeepTheirCode`: `CallSpec => []ResultArrives`. `ResultInv` relates what is on
  its way back to `origin`: on the server's side they are the same, on the client's
  the status stands for the error (`StatusTells`), also when an earlier attempt left
  another status in the response.
* `MDsStayValues`: `CallSpec => []MDsAreValues`. `HeapInv` says that the windows of two
  different keys or maps, with all of their capacity, share no place: they lie in
  different arrays, or one ends before the other begins (`Apart`). So an append in
  place writes where no one else looks, and a clone, whose keys share an array,
  keeps them apart because each window is capped at its length.
* `MetadataKeptOnTheWay`: `CallSpec => []MetadataArrives`, from `RequestKeepsValues`:
  for every map and every order of ranging over it, what `fromRequest` builds
  from the pairs of `setRequest` has under each key its values in order and nothing else.
* `InterceptorsAroundMethod`: `CallSpec => []MethodInsideInterceptors`. `Calls(c, order)`
  says that calling the continuation `c` calls the functions of `order`, one inside the
  other: there is a relation that holds of the two and is preserved when the head is
  called or unfolded. Chains, options and the defaults are shown to have it
  (`ClientCalls`, `ServerCalls`), and `OrderInv` says that each frame is the one whose
  turn it was and that its `next` still calls those that come after it.

What `fromRequest`, the options and the ends of the values compute are recursive
functions. The induction theorems of the library cannot be used, but the minimum of a
set of naturals can (`LeastElement`), and from it induction over a given set
(`SetInduction`); each recursive function is first shown to satisfy its equation.

The theorems use the assumptions on the constants (`CallsAssumption`,
`SizeAssumption` in `Client`; the same and `SidOfAssumption` in `Connection`, from which
the assumptions of its two parts are proved; `SidsAssumption`, `BoundsAssumption` in
`ServerConn`,
`ServerAssumption` in `Server`, `ChannelAssumption` in `Channel`, `LowerAssumption` in
`Metadata`, `TimesAssumption`, `ReturnsAssumption`, `PlansAssumption` in `UnaryCall`),
which TLC evaluates in every run. Strengthened invariants were checked with TLC on
the instances of the runs before they were proved, except those that TLC cannot
evaluate (`OrderInv` of `UnaryCallProofs` has an unbounded quantifier).

Model-checked only: the liveness properties (fairness and `ENABLED` are beyond the
prover): `CloseReleasesCallers`, `HangUpClosesClient`, `NoHeadOfLineBlocking` of
`Client`, `ReturnReleasesGoroutines`, `ClientGoneEndsRun`, `ShutdownEndsRun` of
`ServerConn`, `ServeEnds`, `ShutdownEnds` of `Server`, `SentIsReceived` of `Channel` and
`NoMutualWait` of `Connection`. `ImplementsRpc` is `Init` and a next-state relation, so
that its proof needs no fairness.

## 5. Not modelled

* Protobuf: the bytes of messages and of the header's four fields, the text of errors,
  logging.
* `streamCall`'s conversion of a handler's result to a status, which is that of
  `unaryCall` again.
* `Set` keeps the slice it is given: an application that passes one that it got from
  another `MD`, or changes it afterwards, shares it (`metadata.go:48`). The model's
  application passes values.
* The system calls behind the handshake and the peer's credentials.
* Two goroutines that receive on one ClientStream, or send on it, at a time: its
  flags are plain variables, and the models follow the usual contract of one of each.
* Stream interceptors: no option sets one, only the default runs.
* Retries, reconnection and persistence: the code has none.
* The generator, generated code, the example and the integration service.

## 6. Plan

Done: every module of section 2, and a theorem for every invariant and for the
refinement. What is left would go further in the same direction:

1. Two calls in `connection`, at the cost of a much longer run: the theorems cover any
   number for safety, but `NoMutualWait` is checked with one.
2. Shutdown in `Connection`: `MainShutdown` is left to the runs of `ServerConn`, so that
   `Rpc` does not say what a graceful shutdown promises to the calls under way.
