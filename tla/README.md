# A TLA+ model of grpchan

grpchan runs gRPC services over channels that are not gRPC's own: calls inside
one process (`inprocgrpc`) and calls over plain HTTP (`httpgrpc`). This
directory holds TLA+ modules for the parts of it in which several goroutines
work on one call and for the layouts, tables and chains they rely on, TLC
configurations that check them on small instances, and TLAPS proofs of
properties that must hold for any number of goroutines and any metadata.

## 1. The system

| Component | State it keeps | Operations | Interacts by |
|---|---|---|---|
| In-process stream, client side (`inProcessClientStream`) | `sendClosed` under `reqMu`; `state`, `last`, `headers`, `trailers`, `ended` under `respMu` | `SendMsg` `CloseSend` `Header` `RecvMsg` `Trailer` | Go channels `requests`, `responses` (one slot each), the client's context, `svrDoneCtx` |
| In-process stream, server side (`inProcessServerStream`, the goroutine of `NewStream`) | `state`, `headers`, `trailers` under `mu` | `SetHeader` `SendHeader` `SetTrailer` `SendMsg` `RecvMsg` `finish` | the same channels, `svrCtx` |
| In-process unary call (`Channel.Invoke`) | the Go channel `ch`, a local context | the goroutine runs the handler and writes up to four frames; `Invoke` reads them | `ch`, the context, `UnaryServerTransportStream` |
| `UnaryServerTransportStream` | `hdrs`, `tlrs`, `hdrsSent`, `tlrsSent` under `mu` | `SetHeader` `SendHeader` `SetTrailer` `Finish`, getters | called by the handler, its goroutines and both kinds of server |
| HTTP client stream (`clientStream`, `doHttpCall`) | `done`, `rErr`, `tr` under `rMu`; `wErr`, the pipe under `wMu`; `ready`, `hd`, `hdErr` | `SendMsg` `CloseSend` `Header` `RecvMsg` `Trailer`; the goroutine's round trip and read loop | unbuffered channel `rCh`, an `io.Pipe`, the HTTP transport, the context |
| HTTP server stream (`serverStream`, `handleStream`) | `recvd` under `rmu`; `headersSent`, `writeFailed`, `tr` under `wmu` | `SetHeader` `SendHeader` `SetTrailer` `SendMsg` `RecvMsg`; trailer at the end | request body, response writer |
| HTTP unary client (`Channel.Invoke`) | `respCh` with one slot, the error of the body read | round trip, the goroutine that reads the body, `setMetadata` | one HTTP exchange, the context |
| HTTP unary server (`handleMethod`) | none that outlives a call | decode, handler, copy of headers and trailers, status, body | the same exchange, `UnaryServerTransportStream` |
| Framing (`io.go`), SSE (`internal/sse`), JSON codec | none | encode, decode | byte streams |
| Status codes (`codes.go`), header conversions, deadlines | none | pure functions | HTTP status and headers |
| Interceptors (`intercept.go`) | chains that keep the slices they were made of | wrap, merge, `Unwrap` | function calls |
| Handler map (`server.go`) | a map | `RegisterService` `QueryService` `ForEach` | used by both servers |
| Configuration, cloners, call options, stats, code generator, test service | see `PROJECT.json` | | |

What is hard about it:

* *Concurrency on one call.* A client sends and receives from different
  goroutines; a handler may leave goroutines behind that go on using its stream
  after it has returned; the goroutine of the call ends at any time.
* *Cancellation.* It reaches the two sides at different times (the server's
  context hides the client's values, so a goroutine of the `context` package
  forwards it), and every `select` may take either ready case.
* *Backpressure.* The channels have one slot; both sides can wait for each
  other, and the end of a call needs room too.
* *Order and completeness.* Headers, messages, trailers and the error have to
  arrive in order and completely, or the caller must not be told of success.
* *Failure, for HTTP.* Replies are wrong, cut off or lost, or come from
  something between client and server that is not gRPC at all.
* *Aliasing.* A chain of interceptors keeps the slice it was built from, and a
  wrapped channel that is wrapped again is merged rather than nested.

## 2. Modules

| Module | Models |
|---|---|
| `InprocStream` | one streaming RPC of the in-process channel |
| `RpcStream` | what any channel promises of a streaming RPC, with no mechanism |
| `MCInprocStream` | instances of `InprocStream` for TLC |
| `InprocStreamProofs` | theorems about `InprocStream`: types, mutexes, closed Go channels, and its server's half: what the handler's goroutines and `finish` write |
| `InprocClientProofs` | theorems about its client's half and about the whole: nothing lost, complete and final ends, the refinement of `RpcStream` |
| `UnaryTransportStream` | the metadata object of a unary handler |
| `InprocUnary` | one unary RPC of the in-process channel, with that object |
| `HttpClientStream` | the client's half of a streaming RPC over HTTP |
| `HttpClientStreamProofs` | theorems about `HttpClientStream` |
| `HttpServerStream` | the server's half: `handleStream` and `serverStream` |
| `HttpServerBody` | `HttpServerStream` composed with `Framing`: what it writes and reads, in tokens |
| `HttpServerStreamProofs` | theorems about `HttpServerStream` and `HttpServerBody` |
| `Framing` | the layout of messages in a body and its readers: size prefaces, JSON, server-sent events |
| `FramingProofs` | theorems about the readers of `Framing` |
| `MCHttpServer` | an instance of `HttpServerBody` for TLC |
| `StatusCodes` | the two tables of `codes.go` |
| `HttpHeaders` | metadata and deadlines as HTTP headers |
| `HttpUnary` | one unary RPC over HTTP from end to end; composes the two modules above and `UnaryTransportStream` |
| `MCHttpUnary` | an instance of `HttpUnary` for TLC |
| `InprocUnaryProofs`, `HttpUnaryProofs` | theorems about `InprocUnary` and `HttpUnary` |
| `Interceptors` | wrapped channels and registrars, and the services registered through them |
| `MCInterceptors` | instances of `Interceptors` for TLC |
| `InterceptorsProofs` | theorems about `Interceptors` |

`PROJECT.json` maps every definition to the lines it stands for.

### InprocStream

The parameters are the sets of client and server goroutines, the metadata keys,
whether the method streams responses, whether a copy may fail, and bounds on
the frames written. State corresponds to the code as follows.

| Variables | Code |
|---|---|
| `ctxDone` `svrDone` `rpcDone` | the client's context, `svrCtx`, `svrDoneCtx` |
| `reqSent` `reqRcvd` `reqClosed` | the channel `requests`: numbered messages |
| `respLog` `respRd` `respClosed` | the channel `responses`: all frames ever written and how many were taken; the channel holds the difference |
| `reqMu` `sendClosed` | sending side of the client stream |
| `respMu` `cState` `last` `cliHeaders` `cliTrailers` `ended` | receiving side |
| `mu` `sState` `headers` `trailers` | server stream |
| `cpc` `spc` `taken` `todo` `hret` | where each goroutine is, and its locals |
| `consumed` `handled` `result` `headersSet` `trailersSet` `hdrFrames` `respSent` | histories for the properties and the bounds |

A call that takes a mutex and returns without waiting is one action. A call
that waits on a channel is an action for its start, which takes the mutex, and
one for each way the wait ends, which releases it. A channel operation and
the `ctx.Err()` that follows it in `readMessage` are two steps; a context can end
between them. `writeMessage` is one step per ready case of its `select`; its
final `ctx.Err()` matters only to the write of a headers frame, which therefore
has a step of its own. Waiting for a mutex is waiting to start: every call takes its only
mutex first. `finish` is the exception, since it runs `onDone` before it takes `mu`,
and has a step for each. Metadata is the set of its keys, messages are numbers.

`svrCancel` ends `svrCtx` and its child `svrDoneCtx` in one step; in Go the child
follows at once, within the same call.

### RpcStream

The promise counts requests and responses and knows what the handler
returned. A client learns of the end (`End`) only when nothing can be added and
everything was received; a cancelled call may stop at any point (`Abort`).
`InprocStream` implements it under the mapping `Promise`: the
mechanism (mutexes, frames, metadata, peeking) is invisible, a client's `RecvMsg`
is `Receive`, the moment `finish` holds `mu` is `Complete`.

### InprocUnary and UnaryTransportStream

The goroutine's program counter runs through the kinds of frame it may have to
write; `Pending` says whether there is one. The metadata frames carry the
transport stream's own maps, so what the client sees is `hdrs` and `tlrs`
themselves. Returning from `Invoke` runs the deferred `cancel`.

### HttpClientStream

`hpc` is the place of `doHttpCall`: the round trip, the reply's checks, reading,
offering a message on the unbuffered `rCh` (a step it takes together with the
receiver), the trailer, the drain of the reply, and the steps of the deferred
function: it takes `rMu` and reports the end (`ReportsEnd`), closes the pipe, closes
`rCh`, releases `rMu`. `rMu` is true while `doHttpCall` holds the lock, from the trailer
or from `ReportsEnd` to the end; calls that find it held wait in state `check`. A `RecvMsg`
that finds `rCh` closed (`RecvMsgSeesClosed`) goes on to `readErrorIfDone` in a step of its
own (`RecvMsgGetsEnd`), and panics there if `done` is not set, as in the code.
`consumed` has the messages taken from `rCh`; for a method with one response, `inHand`
has those of the `RecvMsg` that runs and `given` those of the calls that succeeded. `wMu` is held exactly while the sender
is `writing`. `ready` is the counter of the WaitGroup, and -1 its panic. The
application uses the stream from one sender and one receiver, which is what
gRPC allows. `respStream` never changes; an instance has the kinds of method in
`ResponseStreams`.

The peer is everything beyond the transport. It answers well or badly, sends
messages, ends with a trailer or without one, and breaks at any time; after its
handler has returned, the reply ends only when the request has been read to
its end, as `drainAndClose` does. The transport takes a request from the pipe
when it likes (`RequestTaken`), which stands for room on the way to the
handler: a `SendMsg` may have to wait for as long as the handler reads nothing.

### HttpServerStream

| Variables | Code |
|---|---|
| `phase` `hret` | `handleStream`: before the handler, in it, after it, writing the trailer, in the deferred drain; the handler's error |
| `spc` `result` | where each goroutine is inside a call; what the last `RecvMsg` returned |
| `rmu` `recvd` `reqRd` | `rmu`, whether `recvd > 0`, how many messages were read from the body |
| `wmu` `headersSent` `writeFailed` `tr` | the fields of the same name |
| `hdrs` `committed` `wireHdrs` | `w.Header()`, and the copy net/http takes of it at the first byte |
| `wire` `trailer` | the parts written to the reply, the `HttpTrailer` |
| `connected` `bodyClosed` | the connection; has net/http closed the request's body? |
| `req` `reqBad` `reqEnd` | the client: its messages, whether one follows that no reader takes, the end of its body |
| `handled` `sent` | histories for the properties and the bounds |

`Main` is the goroutine of net/http that runs `handleStream` and the handler; the others
are started by the handler. `Outlive` says whether they may go on after it. A frame is
written in two parts, its size and its bytes, in two steps (`WriteSize`, `WriteBytes`),
and a write may fail at either; that is where two writers could mix. A read of a frame is
one step, since nothing else reads the body while `rmu` is held and nothing looks at it in
between; the second read of a method with one request is a step of its own (`more`). A
read fails on a broken connection, at a message that is malformed, too large or cut short
(`reqBad`), and once net/http has closed the body, which it may do as soon as the reply
has begun (`BodyCloses`, after `doc.go:27-29`). What a reader does behind a message it has
refused is left out. The trailer is written by the same steps, by `Main` in phase
`trailer`, without `wmu`. The steps are the same for a reply in JSON, which is a stream of
events; what the two parts are in each format is in `Framing`. A panic of the handler and
a torn read of `tr` by `handleStream`, while a goroutine appends to it, are left out.

### Framing and HttpServerBody

A body is a sequence of tokens, a token being the least a cut can separate as far as a
reader can tell: half of a size preface, a byte of data, the prefix of a line, its end,
a brace. The writers (`ProtoParts`, `JSONParts`, `SSEParts`) give the two parts in which
a message goes out; the readers (`ReadProto`, `ReadJSON`, `DecodeLines`) are what one
call of a `streamReader` returns, and `ReadAll` what calling it until the end does. Loops
are functions of the number of turns (`DecodeTurns`, `ReadCalls`), so that they can be
proved about. `HttpServerBody` lays out what `HttpServerStream` has written, cuts it off
at every place, and reads it back. In `MCHttpServer` message 1 is empty and message 2 of
the maximal size; message 0 is the trailer, whose size is negative.

### HttpUnary, HttpHeaders and StatusCodes

| Variables | Code |
|---|---|
| `ctxDone` `call` | the caller's context; the time left, the metadata and the credentials' metadata |
| `pc` `outcome` `wants` `gotHdrs` `gotTlrs` | `Invoke`: where it is, what it returned, whether the call options ask for metadata, what they got |
| `reader` | the goroutine of `Invoke` that reads the body |
| `connected` `request` `reply` `whole` | the exchange: the connection, the request's headers, the reply's status and headers, whether its body has been written |
| `spc` `svrMD` `svrTimeout` `hret` `names` | `handleMethod`: where it is, the handler's context, its result, `w.Header()` |
| `hdrs` `tlrs` `hdrsSent` `tlrsSent` | the handler's `UnaryServerTransportStream` |

`call` is one of `Calls`; its field `timeout` is the value that the key `grpc-timeout`
has, if the metadata or the credentials have that key. It is not a reserved key, so it
becomes the header of the deadline (`TimeoutInMetadata`), which the deadline of the
context replaces, and the header is part of the handler's metadata either way. `Invoke` is
one step up to the round trip; its goroutine starts with the reply, before the status is
looked at, and may be left behind. `handleMethod` copies headers and trailers in two
steps, since a goroutine of the handler can set more between them. A reply whose origin is
`foreign` is from a proxy or another server: some status, no gRPC code, headers that may
not decode. A key is the sequence of the parts of its name, so that the trailer prefix is
put in front of it and taken off as in the code. A millisecond has `Milli` ticks and a
`Duration` goes from `-Half` to `Half - 1`, with Go's division and two's complement, so
that the rounding of the timeout and its overflow are those of the code at a scale TLC can
handle.

### Interceptors

`heap` is the memory behind Go's slices: the application's arrays, one after the other, and
behind them those that calls and `append` make. A slice is an address, a length and a
capacity, and a chain keeps the address and length it was made of. `views` are the channels or
registrars made so far, `services` what was registered. The four functions that wrap
one, for unary and streaming calls on either side, are the same code on different types
and one action here, with a slice of the application's (`InterceptSlice`) or a list in
the call (`InterceptList`). `Appended` is Go's `append`: in place if the array has room,
otherwise in a new one; the room the new one may have is left out, since no one but the
chain has that slice.

`asked` records what each view should call, `plain` whether a registrar is of grpchan
alone, and `ClientCalls` and `ServerCalls` compute what is called, following slices as
they are now; a server with an interceptor of its own and one without it are two values of
`Owns`. They are recursive functions, on the views and on how many chains are followed
inside each other: with more than memory has cells, a chain contains itself, and the call
never ends ("for ever" stands for that).

## 3. Runs

| Run | Checks | Instance |
|---|---|---|
| `stream` | `TypeOK` `NoWriteAfterClose` `FramesInOrder` `NothingLostOrRepeated` `EndIsComplete` `EndIsFinal` `KeepsPromise` | 2 client goroutines, the handler's and one helper; 1 request, 2 responses, 1 headers frame besides that of `finish`, 1 key |
| `stream_single` | `OneResponse` `CancelReleasesClient` `ReturnReleasesClient` `ServerGoroutineExits` `KeepsPromise` | a method with one response; 1 client goroutine, the handler's and one helper; 2 requests, 2 responses, no metadata, copies succeed |
| `unary` | `TypeOK` `OutcomeIsHandlers` `MetadataIsComplete` `MetadataIsFinal` `InvokeReturns` `GoroutineExits` | 2 keys; unbounded otherwise |
| `http_stream` | `TypeOK` `EndIsComplete` `ClosedMeansDone` `OneResponse` `EndIsFinal` `HttpGoroutineExits` `ReceiverIsReleased` `SenderIsReleased` | methods with one response and with many; any number of requests, 2 responses |
| `http_server` | `TypeOK` `WireIsWhole` `TrailerIsHonest` `HeadersAreSent` `OneRequest` `WriterIsAlone` `StreamsDecode` `ClientGoneReleasesServer` | a method with one request; the handler and one helper that ends with it; up to 2 requests, 2 responses, 1 key; sizes 0 and 3, the maximum, and 2 for the trailer |
| `http_unary` | `OutcomeIsHandlers` `RequestArrives` `MetadataArrives` `InvokeEnds` | 4 keys: a plain one, a reserved one, `x-grpc-status`, one that looks like a trailer; 5 calls: no deadline, a past one, one less than a millisecond away, the latest a `Duration` has, the first and the last also with a `grpc-timeout` in the credentials that wraps around; 4 ticks a millisecond, `Half` = 128 |
| `interceptors` | `CallsPassAllInterceptors` `ServicesKeepInterceptors` | slices of 2 unary interceptors and of 1 streaming interceptor, cut to their length (`[:2:2]`); lists of 1 and 2; 2 services, 4 views; a server with and one without an interceptor |

`stream` and `http_stream` answer what a caller may believe: which frames it gets, in
which order, and what an end means. `stream_single` puts the in-process machine
to the case in which the client has to look behind the one message it wants, and
asks under fairness who may wait for ever; `http_stream` does both for HTTP. `unary` and
`http_unary` ask the same of a single exchange, and of what goes with it: metadata in both
directions, the deadline, the status code through both tables.

`http_server` is the other end of `http_stream`: what its peer may write, and when, and
that a reader finds it again wherever it is cut off. `interceptors` asks which functions
a call passes, after any sequence of wrapping and registering.

Each property is stated, with the code it is about, above its definition. For
each one `PROJECT.json` names a plausible mistake in the code (`Xxx_Yyy`
definitions, which no specification uses) under which TLC finds it violated.

*Why the bounds are enough.* The in-process channels hold one frame. Two frames in one
direction fill a channel and make a writer wait; two responses are also the fewest that
can be out of order, or too many for a method with one. Two goroutines on a side give
every pair of calls that can meet there, because no call waits for more than one other
through a mutex. The liveness run has two requests, so that a client can be caught waiting
for room in `requests` while a server waits for room in `responses`, and one client
goroutine, which is how an application uses a unary or a half-duplex call; its `Keys` is
empty because metadata is never waited for (headers frames are written all the same), and
a failed copy, which makes a call return early, is left to `stream`. The client goroutines
are interchangeable, and the safety run uses that symmetry. The server of HTTP has two
requests, one more than the method takes, and two responses, which are the fewest frames
whose parts can mix. `http_stream` has two responses: one to take and one too many, which
is also the fewest that can be lost or out of step with the trailer. In `http_unary`
nothing counts: the bounds are the metadata and the calls, chosen so that each branch of
the conversions is taken. Four views are three wrappings, the fewest in which two views
share a third that was itself merged; a service's duplicate and one service each of two
views need two names. `MaxHdr` bounds the headers frames a handler can write again and
again after a cancelled write.

*Fairness.* A goroutine that is inside a call runs on (weak fairness of `ClientStep(t)`,
`ServerStep(t)`, `FinishStep`, `Propagate`, and of the steps of the other modules
likewise): Go's scheduler is preemptive, and a `select` with a ready case proceeds.
`FinishLock` is strongly fair: a goroutine waiting for a `sync.Mutex` gets it after a
millisecond of starvation, even if others lock it again and again. The applications owe
nothing: no one has to call, to return from a handler or to cancel. In
`HttpClientStream` the server has to drain the request once its handler has returned,
which is code of `server.go`; the network owes nothing, and may break. In
`HttpServerStream` a read proceeds once there is data, an end or a broken connection; a
write may wait for a client that does not read and is owed an outcome only when the
connection is gone; `handleStream` goes on to the trailer and the drain. In `HttpUnary`
the steps of `Invoke`, of its goroutine and of `handleMethod` after the handler are
weakly fair; handler, network and whatever answers in front of the server owe nothing.
`Interceptors` has no fairness, and its runs do not look for deadlocks: a behaviour ends
at the bound, or when `RegisterService` has panicked.

### Disagreements the runs show

Each is a run whose single property states a comment of the repository, and
which TLC finds violated; the traces are a few steps long.

| Run | What happens |
|---|---|
| `stream_late_header_call` | `Header` after a first message waits for a second frame |
| `stream_failure_masked` | `RecvMsg` of a method with one response drops the handler's error after the message |
| `http_panic_bad_type` | a reply with an unknown content type panics the client |
| `http_send_hangs` | client and server wait for each other when the handler returns first |
| `interceptors_shared` | a channel wrapped with a slice that has spare capacity: a second use of the slice overwrites the first channel's chain, or makes a chain that contains itself |

Other behaviour met while modelling, which the properties allow for:

* A cancellation between the write of the headers frame and the `ctx.Err()` that
  follows makes `finish` write the headers again (`FramesInOrder` puts them all before
  the messages and does not count them). No client reads the second frame.
* A cancelled `Invoke` of the in-process channel can return a bare `io.EOF`, and a
  cancelled `RecvMsg` of the HTTP client the bare error of its context
  (`rawCtx`), where other paths return a status.
* Between the write of a metadata frame and `Finish`, a goroutine the handler left
  behind can change the maps the client was given; `MetadataIsFinal` therefore speaks of
  a call that succeeded, which is after `Finish`.
* The in-process handler decodes the request when it asks for it, also after
  a cancelled `Invoke` has returned. Message contents are not modelled.
* A trailer that `doHttpCall` is still reading overwrites the error "server sent >1"
  that `RecvMsg` has already returned; `EndIsFinal` of `HttpClientStream` excepts it.
* With `Outlive`, a goroutine the handler left behind can be inside `SendMsg` while
  `handleStream` writes the trailer without `wmu`; the two frames then mix on the wire.
  gRPC does not allow such a use of the stream, and the run is without it.
* `RecvMsg` of the HTTP server stream, for a method with one request, takes every error of
  its second read but `io.EOF` for another message, where `server.go:558` has only "client
  tried to send >1 message!" in mind. `OneRequest` says when it may: there is another
  message, one that no reader takes, or the connection or the body is lost.
* What is set as a header under the prefix of trailers changes sides: a header
  `x-grpc-trailer-a` reaches the caller as the trailer `a`, though by `doc.go:65-66` clients
  recover the two "independently, as the server handler intended them". `MetadataArrives`
  says that these keys do, and that no other does.
* Metadata with the key `grpc-timeout` sets a deadline of the handler, if the caller has
  none. `RequestArrives` says nothing of its value, which may wrap around.
* `handleMethod` does not call `Finish`: metadata that is set after it has copied the
  maps is accepted without an error and lost. `MetadataArrives` promises what was set
  when the handler returned.
* A handler that sets `x-grpc-status` itself and returns a message makes the caller see an
  error with code Unknown. `OutcomeIsHandlers` of `HttpUnary` excepts it.
* The deadline a client of grpchan writes never overflows the server's `Duration`; a
  `GRPC-Timeout` that something else wrote, `99999999H` for instance, does
  (`server.go:600`).
* The JSON writer puts nothing between two values (`io.go:237`), so that two numbers, which
  no generated message is, could not be told apart. The model's values have an end.
* An event of a cut-off reply can be a trailer without data; the decoder hands it on and
  the codec refuses it. `StreamsDecode` admits exactly this case.
* A body read of a cancelled HTTP `Invoke` may fail with the bare error of the context
  (`rawCtx`), if it wins the `select` against the context itself.
* Behind an application's own wrapper around an intercepted registrar, the order of
  interceptors is that of the wrappers inside out; `ServicesKeepInterceptors` asks for
  the order only where there is no such wrapper. `Unwrap` of a merged channel gives what
  lies under the merged wrapper and not the channel that was passed (`intercept.go:44`,
  `intercept.go:56`), and a streaming interceptor gets its `*grpc.ClientConn` from that
  channel alone, where a unary one gets it from under all wrappers (134, 122).

## 4. Proofs

### InprocStream

Two modules, the second extending the first, prove of `Spec`, for every set of client
and server goroutines, every set of keys, methods with one response or many, copies that
fail or not, and all bounds:

| Theorem | Property | Module |
|---|---|---|
| `TypeSafe` | `TypeOK`; no Go channel ever holds more than its one slot | `InprocStreamProofs` |
| `ClosedChannelsStayClosed` | `NoWriteAfterClose` | `InprocStreamProofs` |
| `ResponseFramesInOrder` | `FramesInOrder` | `InprocStreamProofs` |
| `NothingIsLost` | `NothingLostOrRepeated` | `InprocClientProofs` |
| `EndOfStreamIsComplete` | `EndIsComplete` | `InprocClientProofs` |
| `OneResponseOnly` | `OneResponse` | `InprocClientProofs` |
| `EndOfStreamIsFinal` | `EndIsFinal` | `InprocClientProofs` |
| `StreamKeepsPromise` | `KeepsPromise`, the refinement of `RpcStream` | `InprocClientProofs` |

They use `ThreadsAssumption` (the two kinds of goroutine are disjoint, `Unlocked` is
neither), `FlagsAssumption` and `BoundsAssumption`, no more.

*Mutexes and closing.* `NoWriteAfterClose` is not inductive alone. Closing `requests` is
safe because the closer can take `reqMu`, which every sender holds while it waits;
closing `responses` is safe because `finish` holds `mu`, which every writer holds, and
because no writer starts once the state is closed. The invariant `Inv` therefore adds who
holds each mutex (`RequestSide`, `ResponseSide`) and what a closed channel says about the
state; `TypeCorrect` is the same step for the types.

*What the server writes* (`ServerInv`, theorem `ServerInvariant`). The frames are
in order because what is still to come may follow what is there, so the invariant speaks of
both: `StageInv` says how far the goroutine of `NewStream` is; `WrittenInv` which kinds
of frame can be there in which state of the server stream; `TodoInv` that each frame
`finish` has left to write may follow the log. `CountInv` is the number a message
has, which is how many there are up to it. Without a cancellation the log and `todo`
together carry all the metadata the server stream accepted and the handler's error
(`PendingInv`, `MetadataInv`), which is where a goroutine that sets a trailer while the
handler returns could have lost it. `RequestInv` says that a request taken from
`requests` is in the hand of one goroutine or was handled.

*What the client makes of it* (`ClientInv`, theorem `ClientInvariant`). A client takes a
frame from the channel in one step and looks at it in another, so `GotInv`, what it
has, is a function of the frames it has *processed*: all but the one in its hand. That
there is only one hand is `PlaceInv`, from `respMu`. `SettledInv` is the heart of the matter: once
the client stream has seen the end, and not one of its own making, the server has written
all it ever will, the client has taken all of it, and nobody holds a frame; that
gives completeness, and since nothing of it can change, finality. It needs the
cancellation to be read as the code reads it: an end seen before the context ended stays
complete, while one that a cancellation brought about is no `Settled` end. `OneInv` adds
the look behind the message of a method with one response, whose `ended` or "sent more
than one" is decided while `respMu` is held.

*The refinement.* Each action of `InprocStream` is mapped to one of `RpcStream` or to a
step it does not see, by a lemma for each group (`PromiseServer`, `PromiseMain`,
`PromiseClient`, `PromiseStutters`):

| `InprocStream` | `RpcStream` |
|---|---|
| `Cancel` | `Cancel` |
| `SendMsgWrites`, `CloseSend` | `SendRequest`, `HalfClose` |
| `ServerRecvMsgReturns` | `HandleRequest` |
| `ServerSendMsgWrites` | `Respond` |
| `HandlerReturns`, `FinishLock` | `Return`, `Complete` |
| a `RecvMsg` that consumes a message | `Receive` |
| a `RecvMsg` that reports `io.EOF` or the error | `End` |
| a `RecvMsg` that reports the context's error | `Abort` |
| every other step, among them the frames of `finish` | stutters |

The enabling condition of `End`, nothing more to add and everything received, is
`SettledInv`; that of `Receive`, no more received than was sent, is `GotInv`.

### HttpClientStream

`HttpClientStreamProofs` proves of `Spec`, for any number of messages and for any peer
that a proxy, a broken connection or a bad reply can make:

| Theorem | Property | Argument |
|---|---|---|
| `ClientTypeSafe` | `TypeOK` | with the bounds of `ready`, from `PlaceInv` |
| `ClientClosedMeansDone` | `ClosedMeansDone` | `ClosedInv`: a `RecvMsg` that has seen `rCh` closed can only go on once `rMu` is free, which it is not between `ReportsEnd` and `ReleasesRMu` |
| `ClientEndIsComplete` | `EndIsComplete` | `HandedOver`: each message read was handed over, but the one on offer; `LogInv`: a trailer is the last frame |
| `ClientOneResponse` | `OneResponse` | `GivenInv`: a call that succeeds has seen `rCh` closed with one message in hand, after which nothing is offered; with the trailer it has waited for |
| `ClientEndIsFinal` | `EndIsFinal` | `ResultInv`: an end is only reported once `doHttpCall` is gone |

The invariant (`ClientInvariant`) says what `doHttpCall` has in hand at each place and what
the fields under `rMu` mean before and after `ReportsEnd`: until then only a `RecvMsg` that
met a second message sets `done`, and `rErr` says so (`EndInv`). The number of messages
in the reply is a cardinality, of which `DataCount` gives the value for a log whose
trailer can only be last. `ClosedInv` follows the receiver from the closed `rCh` to `rMu`
and says that it never panics; `GivenInv` says that its message is the last one taken, and
that a call succeeds only after `doHttpCall` is gone, so that none can follow it.

### HttpServerStream

`HttpServerStreamProofs` proves, for any goroutines, keys and bounds, `ServerTypeSafe`
(`Spec => []TypeOK`), and, assuming `~Outlive`, that is, a handler that waits for the
goroutines it has started:

| Theorem | Property | Argument |
|---|---|---|
| `OneWriter` | `WriterIsAlone` | `WriterInv`: who writes a message holds `wmu`, and once the handler has returned only `Main`, at the trailer, is not idle |
| `HeadersReachClient` | `HeadersAreSent` | `HeaderInv`: nothing goes out before `headersSent` is set, and no header is accepted after it |
| `OneRequestOnly` | `OneRequest` | `RequestInv`: who reads holds `rmu` and has set `recvd`, so that the first read happens once, and the body is untouched before it; who reads behind the message has it in `handled` |
| `TrailerTellsTheTruth` | `TrailerIsHonest` | `TrailerInv`: the trailer is made from `hret` and `tr` after their last change, and only if no write failed |
| `ReplyIsWhole` | `WireIsWhole` | `WireInv`: the length of `wire` is twice the number of calls, less what the one writer still has to write; after a failed write nobody writes |

| `BodiesDecode` | `StreamsDecode`, also assuming `SizesFit` | `LengthInv`: no more is written than the messages of the `SendMsg` calls and one trailer; with `WireIsWhole` the reply is then the beginning of a stream, and `ReadsPrefix` says how that is read |

The assumption is needed: with `Outlive` TLC finds `WriterIsAlone` violated within a few
steps. `SizesFit` says that no message is longer than `maxMessageSize`; the writers do not
look at it, and a reader refuses a longer message, so that a complete reply that holds one is
not read to its trailer.

### Framing

`FramingProofs` proves, for any number and sizes of messages and each of the three
formats, `ReadsPrefix`: of a stream of `c` messages and the trailer that is cut anywhere,
the calls of a reader find the messages that are whole and then what `StreamsDecode` allows.
The argument has three layers.

* *One frame.* A reader whose input begins with a whole frame returns its message and
  what lies behind the frame (`WholeRead`); one whose input is a frame cut short fails,
  except for the two cases of an event at the end of the input (`CutRead`). For
  server-sent events this goes line by line: the `Line...` lemmas say what a turn of the
  decoder's loop does, `EventDecoded` what the two turns of an event do.
* *The body.* Frame `j` begins where message `j - 1` ends (`FramesFollow`), and the ends
  grow (`EndsGrow`).
* *The calls.* After `j` calls the data are those of the first `j` messages and what is
  left begins where they end (`CallsGo`), as long as the cut lies behind that; the next call
  is then one of `CutRead`'s (`CutIsRight`) or finds the trailer (`WholeIsRight`).

Recursion is taken apart as in `InterceptorsProofs`: `Induction` gives that each recursive
function satisfies its equation (`TurnsEquation`, `CallsEquation`, `BodyGrows`), and `UpTo`
goes from one number to the next.

### InprocUnary

`InprocUnaryProofs` proves, for any set of keys and everything the handler may set:

| Theorem | Property | Argument |
|---|---|---|
| `UnaryTypeSafe` | `TypeOK` | inductive as it stands; `ch` gains a frame only where there is room |
| `UnaryOutcome` | `OutcomeIsHandlers` | `OutcomeInv`, below |
| `UnaryMetadata` | `MetadataIsComplete` | the same |
| `MetadataStays` | `MetadataIsFinal` | `SentInv`: a result of success is read from a closed `ch`, so that `Finish` has run and the maps accept nothing more |

What `Invoke` knows it knows from the frames it took, so the invariant goes from one end
to the other: `LogInv` says which frames the log has at each place of the goroutine,
each at most once; `TakenInv` that `Invoke` has exactly what it took; `WrittenInv` that,
unless the call was cancelled, a frame that was owed was written, since nothing ends the
context while `Invoke` still reads.

### HttpUnary and its conversions

`HttpUnaryProofs` proves, for any keys, metadata, calls and units of time:

| Theorem | Property | Argument |
|---|---|---|
| `HttpUnaryOutcome` | `OutcomeIsHandlers` | `OutcomeInv`: `ReplyInv` and `InvokeInv`, below |
| `HttpUnaryRequest` | `RequestArrives` | `RequestInv`, with `DeadlineAndBack` for a caller with a deadline |
| `HttpUnaryMetadata` | `MetadataArrives` | `NamesInv` and `GotInv`, with `PrefixAndBack` |
| `ErrorsStayErrors` | | the two tables of `codes.go` agree on what is an error |

`ReplyInv` says what a reply says of the handler: its status and code are those of
`hret`, or, without a handler, those of a rejection or of a foreign reply; nothing is
written before the status is chosen. `InvokeInv` says why `Invoke` is where it is: it
waits for the body only behind a status OK, and each outcome has its cause. The tables
of `StatusCodes` enter only through the values the server writes (`CodesOfReplies`).

Metadata is set by goroutines that may still be running while `handleMethod` copies
it, so `NamesInv` bounds what the reply carries from both sides, at each place of
`handleMethod`: no less than was set when the handler returned, no more than is set by
now. `GotInv` says that the caller has what the reply carries whenever it has a
code, since `Invoke` hands metadata out before it looks at the status. Headers and
trailers travel in one header map and must come apart again: `PrefixAndBack`
says that the prefix of `toHeaders` is found by `setMetadata` and leaves the key. The
deadline of a context goes through a division, a minimum, a multiplication and a wrap;
`DeadlineAndBack` says what is left of it, and that nothing overflows. Of a `grpc-timeout` that
comes from metadata nothing is proved but that the handler has no deadline without it.

The assumptions: a key is a sequence of parts of a name, and not empty, since net/http
sends no header without a name (`MetadataAssumption`, `CallsAssumption`); the time left is a
`Duration`, which is what `time.Until` gives, saturated; and a `Duration` can hold a
millisecond (`UnitAssumption`).

### Interceptors

`InterceptorsProofs` proves, for any interceptors, slices, lists and number of wrappings,
assuming `Full`, that is, that no slice of the application's has room behind it:

| Theorem | Property | Argument |
|---|---|---|
| `CallsPass` | `CallsPassAllInterceptors` | `Inv`, view by view |
| `ServicesKeep` | `ServicesKeepInterceptors` | the same, with the registrars' interceptors counted and, on the root, in order |

The assumption is needed: it is all that the run `interceptors_shared` lacks. A slice has
no room if its length is its capacity, as in a list in the call and as `ints[:n:n]` makes
it; the repository's own callers pass lists.

The invariant (`InterceptorsInvariant`) has two halves. `MemoryInv`: memory is only added
to, the application's arrays stay, and each chain follows a slice of *older* cells
(`Ordered`). `ViewInv`: what a view was asked for is what its own functions call, followed
by what was asked of the view below, and that one is never another intercepted view, since
those are merged. Wrapping keeps the second half because of the first: a chain whose cells
are all old calls what it always did when memory is added (`SlicesStay`, `CallsStay`), and
the one that `append` has made longer calls the new interceptors and then the old chain
(`LongerChainCalls`).

The recursive functions are taken apart by complete induction, which `Induction` states
without an operator as a parameter: a set of numbers that contains each number whose
predecessors it contains is all of `Nat`, since the least one outside of it could not be.
It gives that a recursive definition has a solution (`SlicesEquation`,
`DescribedEquation`) and what the solution is. For `ClientCalls` the invariant itself
names one, the values of `asked`.

### Only model-checked

Every invariant and every action property of a passing run is proved. Liveness stays with
TLC: TLAPS proves no temporal formula with fairness and `ENABLED`. The five disagreements
are counterexamples and need no proof.

## 5. What is not modelled, and the plan

Left out for good: the code generator and the test service (no state), the contents of
messages, stats payloads, peer values, URLs and log texts, and the channel
configuration, which is set once before any call.

Modelled in part:

* Cloners and codecs: that a copy or an encoding may fail, not what is copied.
* The server context of an in-process call: how a cancellation reaches it, not the
  values it hides or carries.
* Protocol versions: the layouts, and that a type may be unknown, not the choice among them.
* The handler map: registering and a duplicate; `QueryService` and `ForEach` only read.
* Call options and credentials: headers, trailers, and the metadata of per-call
  credentials, not the peer.

Worth adding, in this order:

1. Both halves of an HTTP stream composed, and shown to implement `RpcStream` extended
   with a broken connection.
2. Stats events of the in-process client, which must report exactly one end.
