# jasonrpc: a verification development in TLA+

jasonrpc is a JSON-RPC 2.0 library: a client over pluggable transports, a
server-side router, framings for byte streams, and adapters for HTTP and
WebSocket servers. This directory holds TLA+ modules that model its concurrent
and stateful parts, TLC configurations that check them on small instances, and
TLAPS proofs of the safety properties that are checked. Paths below are relative
to the repository; `PROJECT.json` maps every modelling definition to its lines.

Check a run with `tlc -config X.cfg M`, the proofs of a component with
`tlapm XProofs.tla`.

## 1. Inventory

| Component | State | Operations | Talks to |
|---|---|---|---|
| `Transport` (src/client/mod.rs) | none | `round_trip`, `send_notification` | the contract all client transports share |
| `Client`, codec (src/client/mod.rs) | `IdGen` counter, timeout | `call`, `notify`, `round_trip_raw`, `send_raw_notification`, `encode_call`, `decode_result` | awaits a transport's future, and drops it on a timeout |
| `MultiplexTransport` (src/client/multiplex.rs) | pending map id -> oneshot sender, writer lock, `connected` flag, reader task | `new`, `round_trip`, `send_notification`, `reader_loop`, `PendingGuard::drop` | one framed connection shared by all clones |
| `ReconnectingUds` (src/client/uds.rs) | current transport, reconnect gate, retry policy | `connect`, `ensure_connected`, `reconnect`, `round_trip` | replaces its `MultiplexTransport` when that has died |
| `HttpTransport`, `Authorizer` (src/client/http.rs, examples/oauth_client_credentials.rs) | cached token, refresh lock | `authorize`, `on_unauthorized`, `round_trip`, `read_body` | authorization server, resource server |
| Framings, `ReadCore`, `FramedReader/Writer/Conn` (src/transport.rs) | read buffer, write buffer | `encode`, `decode`, `take_on_eof`, `recv`, `fill`, `send` | the socket; used by `MultiplexTransport` and by servers |
| `Router` (src/server.rs) | method table, batch limit, one future per message | `register`, `handle_bytes`, `handle_request`, batch dispatch | handlers |
| WebSocket adapter (src/integration/websocket.rs) | the serving loop | `serve`, `serve_with_shutdown` and their context variants | `Router`, the peer, the shutdown future |
| HTTP adapters (src/integration/{http,hyper,tower}.rs) | one future per HTTP request | `dispatch_with_context`, `serve_request`, `RpcService::call` | `Router` |
| Protocol types, JSON, errors (src/protocol.rs, json.rs, error.rs) | none | read and write ids, requests, responses, error objects | everything |
| Gateway (examples/gateway_demo.rs) | id counter, upstream client | `gateway_handle`, `proxy_one`, `run_upstream` | HTTP clients, a multiplexed upstream |
| Socket server (examples/uds_demo.rs, the pattern of src/transport.rs:361-403) | accept task, one task per connection | accept loop, drain, `serve_conn` | `FramedConn`, `Router`, peers, a shutdown signal |

What is hard in it:

* **Interleaving.** Tasks of a multi-threaded runtime share the pending map,
  the `connected` flag, the writer lock, the reconnect gate and the token
  cache. Each is protected on its own, and several are used in sequence without
  a lock around the sequence.
* **Cancellation.** Any future may be dropped at any await, by a timeout or by
  its caller. Guards, locks and half-written frames are left to their `Drop`.
* **Ends and failures.** Connections end at any byte, half or whole; servers
  crash and come back; tokens expire, are revoked, and fail to be fetched.
* **Order.** Replies overtake each other, arrive twice or too late; frames and
  reads do not line up; batch responses must line up with batch elements.
* **Limits.** Socket buffers, frame size caps, batch limits, back-off bounds,
  the width of an id.
* **Shutdown.** A signal arrives while connections are accepted, read, served
  and written to.

`PROJECT.json` lists each such hazard at its line with the properties about it.

What makes each component correct:

* a transport executes a request at most once and gives its caller the answer
  to that request, or an error, once;
* the multiplexer loses no waiter, leaks no map entry, tears no frame, and
  every call returns;
* a reconnecting transport dials once per death, and recovers;
* a reader returns the payloads that were sent and nothing else, in a bounded
  buffer;
* a router answers every call of a batch once, in order, and no notification,
  with the methods it had when it was cloned;
* a caller over HTTP, through any number of hops, is told what became of its
  request, and gets no one else's result;
* a server that drains answers what it has read, and comes to an end;
* a WebSocket loop that is told to stop answers what it has taken, and what can
  be read by then, and stops;
* an authorized transport retries with a newer token, and shares refreshes.

## 2. Modules

| Module | Models | Uses |
|---|---|---|
| `CallContract` | the abstract specification of a transport | |
| `Multiplex`, `MultiplexInv`, `MultiplexProofs` | src/client/multiplex.rs | `CallContract` |
| `Framing` | the codecs of src/transport.rs | |
| `FramedRead`, `FramedReadProofs` | `ReadCore` of src/transport.rs | `Framing` |
| `ReconnectingUds`, `ReconnectingProofs` | src/client/uds.rs | `CallContract` |
| `HttpAuth`, `HttpAuthProofs` | src/client/http.rs with the OAuth example | `CallContract` |
| `Codec` | src/protocol.rs, json.rs and the codec of client/mod.rs | |
| `HttpRpc` | `Client` over HTTP and the HTTP adapters | `Codec` |
| `Gateway`, `GatewayProofs` | examples/gateway_demo.rs between such clients and an upstream | `HttpRpc`, `CallContract` |
| `Router`, `RouterProofs` | src/server.rs | `Enumeration` |
| `WebSocketServe`, `WebSocketProofs` | src/integration/websocket.rs | `Router`, `RouterProofs`, `Enumeration` |
| `UdsServer`, `UdsServerProofs` | examples/uds_demo.rs | `Enumeration` |
| `Enumeration` | what "each once, in order" means | |

`CallContract` says: a call is issued, executed at most once, and settled with
its own answer or an error. `Multiplex`, `ReconnectingUds`, `HttpAuth` and
`Gateway` instantiate it with a refinement mapping (`phase`, `answer`, `execs`)
and have `ImplementsContract` as a property. `WebSocketServe` composes with
`Router` by `R == INSTANCE Router WITH ...`, for a router that is already built.

### Multiplex (src/client/multiplex.rs)

A task is one future of `round_trip` or `send_notification`. Code between two
accesses to shared state is one action: `Check` (load of `connected`; together
with `StartCall`, `StartRaw` and `StartNote`, which say where the id comes
from), `Register` (insert and guard), `Acquire` (writer lock), `WritePart` (one
write of `write_all`), `Written`, `WriteFail`, `ReturnReply`, `ReturnClosed`,
`Cancel`. `GuardDrop` is part of every exit that drops an armed guard. The
reader task takes a frame and its sender out of the map (`ReaderTake`), sends
outside the lock (`ReaderDeliver`), and ends in two steps, the flag
(`ReaderStop`) and the map (`ReaderClear`), as the code does. The map is the
set of calls whose sender is in it, keyed by `idOf`; a frame is its id and,
as a history variable, the call it answers (`for`). A frame is written in
`FrameParts` parts, so that it can be torn.

The peer is the environment: it decodes frames with the same framing, answers
in any order, may send duplicates and unattributable frames, and ends the
connection by closing it, by closing its sending direction, or with an error.
What a torn write leaves on the wire is decoded as one bad message and answered
with a null-id error. The two buffers are bounded, so that back-pressure is
real.

`MultiplexInv` has the inductive invariants, `MultiplexProofs` the proofs. The
other proof modules have both.

### Framing and FramedRead (src/transport.rs)

`Framing` has encode and decode of the four framings as operators on sequences
of bytes: length prefixes with their digits, an optional plus sign and overflow
of `usize`, header blocks with several lines, half-arrived frames, errors. A
header's name is one byte. `MaxPrefix`, `MaxHeader` and `MaxUsize` are scaled
down from 20, 8192 and 2^64 - 1.

`FramedRead` is `ReadCore::recv` and `fill` on a stream of payloads that a
`FramedWriter` has framed, and a rest that is no complete frame. The buffer is
grown by `ChunkSize` zero bytes, read into, and truncated, in the order of the
code; timeouts, dropped futures and I/O errors happen in between, each once.
`Tolerated` says after which errors the caller calls `recv` again.

`PeerAssumption` is what the peer keeps to: payloads of a delimiter framing have
no delimiter in them ("Requires that messages never contain the delimiter",
src/transport.rs:81), and `rest`, what it writes after its last payload, has no
complete frame at its front.

### ReconnectingUds (src/client/uds.rs)

A connection is a number. `Snapshot`, `CheckAlive`, the gate, the dialing loop
with its back-off and the install are one action each. The multiplexer below is
taken at the grain of its contract: fail-fast, write, reply, or closed once the
reader notices. Delays are numbers; time itself is not modelled. The calls in
`Notes` are `send_notification` and end with their write.

### HttpAuth (src/client/http.rs, examples/oauth_client_credentials.rs)

`round_trip` with the caching authorizer. Tokens are numbered in the order they
are minted. Fast path, lock, second look, fetch, store, request, 401,
`on_unauthorized`, retry and body are separate steps. A token comes due or is
revoked at any time. The authorizer is an example; the library's own code
here is the `round_trip` around it. `OneFetchPerExpiry` speaks of expiry only:
it bounds the fetches while no token has been revoked, since a revoked token may
be fetched for twice (section 4, *Late 401*).

### Codec, HttpRpc and Gateway

`Codec` is what becomes of values between Rust and JSON, as operators: a JSON
value is a type and what tells it from others; a member of an object is a set
with at most one value, so that absent, null and present are three things.
`SignBit` is the weight of the sign bit of an `i64`, 2^63 in the code, so that
`i64` is `-SignBit..SignBit - 1` and `u64` is `0..2 * SignBit - 1`: `NextId`
casts, `Increment` wraps, `ReadId` turns a number that only `u64` holds into a
string, as `visit_u64` does.
`EncodeCall` and `DecodeResult` are the client's half.

`HttpRpc` has an exchange for every HTTP request: a client takes an id, encodes,
sends and waits; the adapter collects the body, dispatches and answers with a
status; either side may fail or give up in between. The router in it handles
one request per body, `Router` has the batches. `ran` records what the handlers
made of each exchange. `DataAssumption` is what may come in: programs pass and
return JSON values or values whose `Serialize` fails, handlers fail with error
objects, and other programs send an object or something that is none.

`Gateway` extends it with the other server that may stand behind the clients:
`gateway_handle` checks the token, `proxy_one` rewrites the id, and all
exchanges share one upstream connection, which is two queues of frames and a
map of pending ids, at the grain at which `Multiplex` shows it to work. The
upstream stops at any time, is dialed again by the next request
(`EnsureConnected`), or does not answer; late replies find nobody or, if ids
wrapped, somebody.

### Router (src/server.rs)

`heap` holds the method tables, as `Arc` does: `register` writes to the table
if nobody shares it and to a copy otherwise, `Clone` shares it, a second
registration of a name panics and takes its router with it. `promised` keeps
what the serving clone could do when it was made.

One future per message. A body is what the dispatch tells apart: blank, not
JSON, JSON but no request, one request, an array. An element is valid or not,
with an id, a null id or none, and a known or unknown method. Handlers run
between `CallHandler` and `HandlerReturns`, where other messages interleave and
the future may be dropped.

### WebSocketServe (src/integration/websocket.rs)

The serving loop between a socket of bounded capacity each way, a peer that
sends, pings, closes, vanishes and reads, and a shutdown that resolves at any
time. `read_frame` answers a ping or a Close frame itself before it goes on or
returns: `ReadPing` and `ReadClose` take the frame, `WritePong` and `WriteEcho`
write the answer when there is room, `ObligedWriteFails` is the error when the
peer is gone. The bias of the `select!` is the guard `ReadPending` of
`HonourShutdown`: nothing to read, or no room for what `read_frame` must write.
Once that branch is taken the loop is `"closing"` and does not read again;
`WriteClose` waits for room, as the code's `await` does. `cut` is a history
variable: it says whether the branch dropped `read_frame` in such a write.

### UdsServer (examples/uds_demo.rs)

The accept task is accepting, draining, or ended; a connection's `serve_conn` is
reading, handling or sending. Frames are whole (`FramedRead` has their bytes):
a call, a notification, or one that ends the loop with an error. Peers dial,
also during the drain, since the listener lives until the accept task ends;
they send, stay silent, do not read, half-close, vanish. The socket holds
`Room` replies.

### Definitions marked as faults

Each modelling module has a few definitions that are not used by its
specification (`Register_Late`, `ReadFail_NoTruncate`, ...): plausible bugs
("Fault", "Plausible bug", "Not the code"), placed before the definition they vary. Replacing the one by the other must
violate a property; `PROJECT.json` pairs them. They show that the properties
depend on the code.

## 3. Runs

Passing runs, each with the bounds that make the interesting case happen:

| Run | Checks | Instance |
|---|---|---|
| `MCMultiplexSafety` | `TypeOK`, `ReplyIsOwn`, `RegisteredBeforeWritten`, `ClosedMeansClosed`, `ImplementsContract` | two calls and a notification, all cancellable, frames of two writes, room for a frame and a half, every ending, one stray frame |
| `MCMultiplexShared` | `ReplyHasOwnId`, `PendingIsInFlight`, `WholeFrames`, `EveryTaskReturns` | two calls with ids of their own or colliding, missing and null ones, and a notification; one-frame buffers each way, no cancellation, the peer may close, one stray frame |
| `MCFramedRead` | `TypeOK`, `NothingLostOrAdded`, `SentIsReceived`, `CapHolds`, `EveryFrameReturned` | payloads of up to four bytes, those the framing is made of among them; frames at the cap and one byte over it; streams that end inside a frame, a prefix or a header; reads of up to four bytes, cut in every way; a timeout, a drop and an I/O error, after which the caller reads on |
| `MCReconnectingUds` | `TypeOK`, `OneConnection`, `ImplementsContract`, `EveryCallReturns`, `NextCallRecovers` | two calls, one cancellable, and a notification; three attempts with delays 2 and 3 under bound 3; two crashes |
| `MCHttpAuth` | `TypeOK`, `TokensMoveForward`, `OneFetchPerExpiry`, `ImplementsContract`, `EveryCallReturns` | three calls, one cancellable, two tokens spoilt, one failure |
| `MCRouter` | `TypeOK`, `AnswersEveryCall`, `RunsInOrder`, `EveryMessageHandled` | two method names and three registrations, before and after the clone; two messages at a time, one of them droppable; bodies that cannot be dispatched, single requests, every batch of one or two elements of six kinds, some of three, one of four under a limit of three |
| `MCWebSocketServe` | `TypeOK`, `TakenIsAnswered`, `RepliesInOrder`, `ShutdownReturns` | three messages, one frame more (a ping, or one of them again), two frames in, one out |
| `MCGateway` | `TypeOK`, `RepliesMatchRequests`, `OutcomeExplained`, `ImplementsContract`, `EveryExchangeReturns` | two exchanges, through either server, with and without a token; `SignBit` 4, so that both id counters wrap, ids are negative, and one is over the signed range; parameters that do not serialise, a body that is no request, results that are null, errors with null data |
| `MCUdsServer` | `TypeOK`, `AnsweredInOrder`, `DrainEnds` | two peers, two frames each, room for one reply |

Why small instances are enough here: the hazards take two or three actors (one
that acts, one that is surprised, one that arrives late), one or two failures,
and buffers that can be full, half full and empty. More calls add copies of
these. Where a width or a limit matters it is scaled down so that both sides of
it are reached (`SignBit`, `MaxUsize`, `MaxPrefix`, `MaxHeader`, the caps). For
all safety properties of these runs the proofs remove the bounds altogether
(section 6).

Runs in which TLC must find a violation. Each records a place where the code
does not do what a doc or a comment of the repository says, with an effect on
what the system can be relied on for:

| Run | Property | What happens |
|---|---|---|
| `MCMultiplexHang` | `EveryTaskReturns` | a call checks `connected`, the reader exits and clears the map, the call registers: on a half-closed socket it waits for ever |
| `MCMultiplexTornFrame` | `WholeFrames` | a call dropped in mid-write leaves half a frame, the next frame follows |
| `MCGatewayNull` | `ServedIsUnderstood` | a handler returns null; the client reads the null result as none, and reports a malformed response |

Deadlock is checked in every passing run: the systems end in an explicit `Rest`
(all futures returned), so that a task that waits for nothing is an error.
`MCMultiplexHang` and `MCMultiplexTornFrame` switch it off, because what they
show does stop the system.

## 4. Other divergences met while modelling

Smaller places where the code and a sentence about it differ. The models have
the code's behaviour; most of the states named here are reachable in them, and
the properties are stated so as not to claim the sentence.

Multiplexer:

* *A raw id in use* (src/client/multiplex.rs:47, 263): a `round_trip_raw` that
  reuses an id in flight drops the other call's sender, which then reports
  `ConnectionClosed` on a live connection. `ClosedMeansClosed` fails with
  `RawIds <- CollidingIds`; it is proved for `RawIds = {}`.
* *Null ids* (src/client/multiplex.rs:218-219): "a frame with no id (e.g. a
  parse-error response with null id [...]) is dropped", but `parse_id` accepts
  null, so that a raw call sent with a null id is handed such a frame: with
  `NullId \in RawIds`, `got[c].for = NoCall` for a call that returned a reply.

Framed reading:

* *Pipelined frames* (src/transport.rs:513, 567-568): "frames larger than this
  will be rejected", but the cap is on the buffer: several small frames that
  arrive in one read are rejected together.
* *After a size error* (src/transport.rs:513): the oversized bytes stay in the
  buffer; a caller that called `recv` again would be handed the oversized frame,
  so that `CapHolds` bounds frames only if `"too_big"` is not in `Tolerated`;
  it bounds the buffer for every caller. The callers in the repository stop.
* *A timeout, a dropped `recv`* (src/transport.rs:490-491, 499): "then shrink
  back to what actually arrived", but the `?` of a timeout returns before the
  buffer is truncated, and a dropped future does not come back to do it. The
  zero-filled tail is then part of the stream: with a delimiter framing the
  next message has the zeros in it, with a prefix framing the next decode fails
  or the cap is reached. `NothingLostOrAdded` tells the two cases apart. The
  serving loops in the repository end after a timeout.
* *The cap after such a read* (src/transport.rs:482, 490): `recv` decodes before
  `fill` looks at the cap, and the zeros count as payload, so that a frame over
  the cap can be returned whose missing bytes the peer never sent. The attempt
  to prove that frames stay within the cap led here; TLC has it for a
  Content-Length header that announces 9, a cap of 8, and `ChunkSize = 9`.
  `CapHolds` bounds frames while `broken` is a subset of `{"io"}`.

Reconnecting:

* *Shared failures* (src/client/uds.rs:146): "only one task dials at a time;
  others reuse its result" is true of a success. After a failed reconnect each
  task queued at the gate finds the connection dead and goes through all its
  attempts in turn.
* *The first delay* (src/client/uds.rs:51, 161): `max_backoff` is applied to the
  doubled delays, not to `base_backoff` itself.
* *No retries* (src/client/uds.rs:66-67, 159): `RetryPolicy::none` still dials
  once for every call that finds the connection dead.

HTTP:

* *Late 401* (examples/oauth_client_credentials.rs:82, 159): two calls are
  refused for one token; the first drops it and fetches a new one; the second
  then drops the new token and fetches another, where "concurrent stale-token
  callers share one fetch".

Messages:

* *Empty bodies* (src/protocol.rs:20, src/server.rs:400): blank space is not
  JSON, and is answered with Invalid Request, not Parse error.
* *Large ids* (src/protocol.rs:72, 125-127): an id over `i64::MAX` becomes a
  string, and is echoed as one, where "the original wire type is preserved".
* *Generated ids* (src/client/mod.rs:59-62): the comment expects that the
  2^63rd id "would be a String"; the cast makes it a negative number.
* *A result that does not serialise* (src/protocol.rs:550-558): the doc promises
  null; the reply has no `result` member at all.
* *Null results* are `MCGatewayNull`'s subject. *Null ids*: the reply to a body
  that is no JSON has a null id, so that a client that sent one is told
  `IdMismatch`, not what the error was.

Shutdown:

* *WebSocket, pings* (src/integration/websocket.rs:264, 480): "A request already
  on the wire when shutdown fires is still answered", but not one behind a ping
  whose pong finds no room: `read_frame` waits to write it and is Pending, so
  that the shutdown branch is taken, and the peer is sent Close instead of the
  answer. TLC shows it in 13 states of `MCWebSocketServe` for the invariant
  `result = "shutdown" /\ peer # "gone" => \A m \in owed : Done(m)`: `m1` is answered, the reply
  fills the socket, a ping is read, `m2` arrives, the shutdown resolves.
  `TakenIsAnswered` claims what remains: every owed message that `read_frame`
  has returned is answered, and all of them are unless the shutdown cut a write
  of `read_frame` short. Where a socket takes part of a frame, the
  cut pong is followed by the Close frame in mid-frame, so that the peer cannot
  read it; the model's socket takes frames whole, and no property is about the
  Close frame.
* *WebSocket, slow peers* (src/integration/websocket.rs:293): the shutdown is
  not polled while a reply is written, and there is no write timeout, so that a
  peer that does not read holds it for ever. `ShutdownReturns` assumes a peer
  that reads.
* *WebSocket* (src/integration/websocket.rs:176, 261): the `select!` is biased
  towards the socket, so that a peer that always has a frame ready starves the
  shutdown. `ShutdownReturns` is checked for peers that send finitely much.
* *Drain* (examples/uds_demo.rs:125): connections do not "finish their current
  work" and end: each goes on until its peer hangs up or is silent for the
  30 s of the read timeout. In the example itself the client is still alive, so
  that the drain takes that long. A peer that never stops sending, or never
  reads (there is no write timeout), holds it for ever; and a peer can connect
  during the drain, but is not accepted.

## 5. Fairness

Weak fairness stands for three things only: the runtime polls a future whose
next step is possible; a background reader runs; and, where a liveness property
needs it, the other side reads and answers. Nothing obliges a caller to start or
drop a future, a server to restart, a connection to end, a token to be refused
or a peer to send. Writer lock, gate and refresh lock are FIFO in tokio; with
finitely many tasks weak fairness on "this task takes a step" is enough and
assumes less. `HttpAuth` and `ReconnectingUds` are
bounded in failures, so their liveness is about systems in which failures stop
at some time; a retry loop that never ends by itself is still caught
(`Unauthorized_Loop`, `DialGiveUp_Forever`). `ShutdownReturns` holds for a peer
that sends finitely many frames (`MaxExtras` is a number)
and reads what it is sent.

In `Gateway` adapters, handlers, the gateway's timeout and the reader make
progress, and nothing is assumed of the upstream: it may be silent for ever,
which is what the timeout is for. In `UdsServer` the accept task and
every accepted connection make progress; nothing is assumed of the signal. What
it does need of the peers is written into the property: `DrainEnds` is about
peers that read what they are sent.

## 6. Proofs

Each theorem holds for every value of the constants that the module's `ASSUME`s
allow: any sets of tasks, calls, peers or messages (also infinite ones), any
bounds, any endings, any futures that may be dropped. The last column names what
is assumed beyond that.

| Theorem | Statement | Assumes |
|---|---|---|
| `MultiplexProofs` | | |
| `TypeCorrect` | `Spec => []TypeOK` | |
| `PendingBounded` | `Spec => []PendingIsInFlight` | |
| `WaiterIsRegistered` | `Spec => []RegisteredBeforeWritten` | |
| `RoutedById` | `Spec => []ReplyHasOwnId` | |
| `Correlated` | `Spec => []ReplyIsOwn` | `RawIds = {}` |
| `ClosedIsTrue` | `Spec => []ClosedMeansClosed` | `RawIds = {}` |
| `Implements` | `Spec => ImplementsContract` | `RawIds = {}` |
| `WholeUnlessTorn` | `Spec => [](NoneTorn => WholeFrames)` | |
| `FramesStayWhole` | `Spec => []WholeFrames` | `Cancellable = {}` |
| `ReconnectingProofs` | | |
| `ReconnectingTypes` | `Spec => []TypeOK` | |
| `OneConnectionAtATime` | `Spec => []OneConnection` | |
| `ReconnectingImplements` | `Spec => ImplementsContract` | |
| `HttpAuthProofs` | | |
| `HttpAuthTypes` | `Spec => []TypeOK` | |
| `TokensOnlyGetNewer` | `Spec => []TokensMoveForward` | |
| `RefreshesAreShared` | `Spec => []OneFetchPerExpiry` | |
| `HttpAuthImplements` | `Spec => ImplementsContract` | |
| `UdsServerProofs` | | |
| `ServerTypeCorrect` | `Spec => []TypeOK` | |
| `AnsweredInOrderAlways` | `Spec => []AnsweredInOrder` | |
| `RouterProofs` | | |
| `RouterTypeCorrect` | `Spec => []TypeOK` | |
| `EveryCallAnswered` | `Spec => []AnswersEveryCall` | |
| `HandlersRunInOrder` | `Spec => []RunsInOrder` | |
| `WebSocketProofs` | | |
| `WebSocketTypes` | `Spec => []TypeOK` | |
| `ShutdownAnswersWhatWasTaken` | `Spec => []TakenIsAnswered` | |
| `RepliesWrittenInOrder` | `Spec => []RepliesInOrder` | |
| `WebSocketRoutes` | `Spec => [](R!AnswersEveryCall /\ R!RunsInOrder)` | |
| `FramedReadProofs` | | |
| `ReadTypes` | `Spec => []TypeOK` | |
| `BytesNeitherLostNorAdded` | `Spec => []NothingLostOrAdded` | |
| `CapBoundsFrames` | `Spec => []CapHolds` | |
| `FramesArriveAsSent` | `Spec => []SentIsReceived` | |
| `GatewayProofs` | | |
| `RequestRoundTrip` | what `WriteRequest` writes, `ReadRequest` reads, but for null parameters | an `i64` id, or none |
| `ResponseRoundTrip` | what `WriteResponse` writes, `ReadResponse` reads, but for nulls | an `i64` id, or null |
| `TypeCorrect` | `Spec => []TypeOK` | |
| `RepliesCorrect` | `Spec => []RepliesMatchRequests` | |
| `OutcomesCorrect` | `Spec => []OutcomeExplained` | `EnoughIds` |
| `Implements` | `Spec => ImplementsContract` | `EnoughIds` |

`RawIds = {}` says that ids come from `IdGen` only, that is, that callers use
`Client::call`. Without it the three theorems are false: section 4 has the
scenario of one of them. `Cancellable = {}` is more than `WholeFrames` needs:
`NoneTorn`, no future dropped between two writes of its frame, is enough, and
`MCMultiplexTornFrame` shows that this much is needed. The `ASSUME`s of
`FramedRead` include `PeerAssumption`, those of `HttpRpc` `DataAssumption`
(section 2).

`EnoughIds` says that there are no more exchanges than ids, `2 * SignBit` of
them, 2^64 in the code. The two theorems need it, and no less would do: with
`SignBit = 1`, that is, two ids, and three exchanges TLC finds a reply that
outlives the gateway's patience, waits in the connection until the counter has
come round, and is handed to a third exchange that has the same id upstream, as
its own result. The types and `RepliesMatchRequests` hold all the same, since
the gateway puts the caller's id into whatever it relays. The clients' own
counters may wrap freely: over HTTP an id is not what a reply is found by.

The other theorems of the proof modules (`ReadInvariant`, `RouterInvariant`,
...) say that the inductive invariants hold. None of the properties above is
inductive by itself; the invariants are these.

**Multiplex** (`MultiplexInv`), each an induction over the steps:

* `MapInv`: where the sender of a waiting call is. It is in the map under its
  own id, in the reader's hand, sent, or dropped; an entry belongs to a call in
  flight; what was sent has the call's id. This gives `PendingIsInFlight`,
  `RegisteredBeforeWritten` and `ReplyHasOwnId` for any ids.
* `OnceInv`: no part of a frame is on the wire twice, or after its request has
  been executed, so that a request is executed once, and only when it has been
  written to its end. It holds with torn frames too.
* `FrameInv`: only the holder of the writer lock writes, and the last part on
  the wire is the latest of its frame or the end of one.
* `RouteInv` (no raw ids): ids are handed out in order and never twice, so that
  a frame whose id is that of a call answers that call. With `MapInv` this
  gives `ReplyIsOwn`.
* `ClosedInv` (no raw ids): only the reader's end drops the sender of a call
  that is still waiting.

`Implements` combines them: each step of `Multiplex` is mapped to `Issue`,
`Execute`, `Answer`, `Fail` or to a stutter.

**ReconnectingUds.** `ConnectionInv`: only the gate's holder dials or sleeps;
while the gate is held the current connection is known to be dead; every
connection but the first has a crash before it; and a sleeping call is at the
delay of its attempt (`Delay`, the back-off of the policy as a recursive
function). `RequestInv`: a request is written once, is in one of the places
between caller and server, and is executed there once; this gives the
refinement.

**HttpAuth.** `TokenInv`: while the refresh lock is held there is no valid token
in the cache; a fetched token is the newest until it is stored; a call that was
refused finds only newer ones. `FetchInv` counts: what has been minted is
accounted for by a token that came due, a fetch that was lost, or the first one;
`ExecutedOnce`: a request that is sent again has not been executed.

**UdsServer.** `Progress`: at each place of a task, what it has written is what
it has taken, in order, but for the frame in its hands. Shutdown and drain leave
all of this alone, which is the point.

**Router.** `Progress` of a message: its table is the one promised to its clone
(copy on write), the handlers due so far have run, once each and in order, and
the responses so far answer the elements so far. `AnsweredTo` and `RanTo` speak
of the elements before `next`, so that a step adds one element to each.

**WebSocketServe.** The dispatch of one message is a step of `Router`, so the
invariant is `RouterInv` by `INSTANCE RouterProofs`, whose step lemmas are used
as they are, together with: no message in the socket has been overtaken by a
later one (`Queued`, `NoneOvertaken`), each message is in one place (`Place`),
the replies written are those of the messages done (`Listed`), and from the
moment the shutdown branch is taken either no owed message is unread or a write
of `read_frame` was cut (`Ends`).

**FramedRead.** `ReadInv` follows the bytes: a pending read has grown the buffer
by zeros behind `Kept` (`Growing`), a full buffer is not grown (`Bounded`), and
what was drained and what is kept is what was read. For this `DecodeFits` proves
of every framing, on any bytes, that a frame found is cut out of the buffer.
`FramesInv` follows the frames: while no read was cut off, the bytes drained are
whole frames of the peer, and a read is pending only when what is kept has none.
It rests on `RoundTrip`: of the bytes of an encoded payload and whatever follows,
however much of it is there, `Decode` finds nothing or the payload. That is
proved for each framing: digits written by `Decimal` are read by `Parse` as the
same number, a delimiter that the payload does not have is first met at its end,
and the one header line that is written announces the length.

**Gateway.** An action moves one exchange, so the invariants speak of an
exchange as a record `View(e)`, and each action is first shown to be a step of
such records (`Step`, `Delivers`, `RunsUpstream`) that leaves the others alone.
`TypeInv` has the types, with what is fixed by the place a future is at.
`Replies`: a reply is a 401, an answer with a null id to what could not be read,
a 204 to a notification, or a response with the caller's id (`Fits`); it needs
no more than the types, and gives `RepliesMatchRequests`. `Further` says where a
result is on its way. `Accounts`: a handler has run once at most, a request is
answered with what its run left, a failure upstream or a refusal, and the caller
returned what the reply says or an error of its own (`Settled`). `Frames`: a
frame to the upstream asks for a run that has not been (`Asks`), of each
exchange there is one, and a frame from it tells of the run (`Reports`).
`Correlated`: a reply with the id of a pending call is that call's. This is what
wrapping ids could break, so `Numbered` bounds how old an id in use can be: no
older than the number of exchanges that may have taken one. With `EnoughIds` the
next id is then not in use. On the codec's side, the lemmas from `IdRoundTrip`
to `RelayedFacts` prove that what is written is read as it was, apart from null
results and null data, also through the gateway, which reads and writes twice.

How the proofs get around what the provers do not do:

* The library's induction theorems take a predicate as a parameter. `Induction`
  is about a subset of `Nat` instead, and follows from the well-foundedness of
  `<` by `WFMin`. The modules that need it, or the facts about `Enumerates`, each
  prove them in a section of their own.
* A recursive function is a `CHOOSE`. `Recursion` and `Iterate` prove that a
  course-of-values recursion has a solution; `Delay`, `Decimal`, `Data`, the
  digits of `Parse` and the folds under `FlattenSeq` are unfolded with them. The
  functions are written in the modules in this form, and no module that is
  proved about reaches a `RECURSIVE` operator.
* "Each once, in order" is `Enumerates`, which says so by two quantifiers
  instead of `SelectSeq` or `Cardinality`: its members are the set's, and they
  increase.
* The prover's arithmetic has no exponents: `Codec` has `SignBit`, any positive
  number, where the code has 2^63.

Only model-checked is liveness, everywhere (`EveryTaskReturns`,
`EveryFrameReturned`, `EveryCallReturns`, `NextCallRecovers`,
`EveryMessageHandled`, `ShutdownReturns`, `EveryExchangeReturns`, `DrainEnds`):
fairness and ENABLED are outside the prover. Every other property of a passing
run, its refinements included, is proved.

## 7. Not modelled

* Formatting and parsing of JSON text: a body is what the dispatch tells apart,
  or a JSON value. `internal_error_body` of the HTTP adapters, which is sent when
  an `Output` does not serialise: every `Output` the router builds does.
* Batches over HTTP: the router behind `HttpRpc` takes one request per body;
  `Router` has the batches.
* Typed parameters of handlers beyond their being present or not, handler code,
  and contexts (`RequestContext` is handed through).
* `Display`, `source` and `From` of the error types (src/error.rs): no state and
  no control. Their variants are the outcomes of `FramedRead` and `Codec`.
* Memory orderings: `connected` and the id counter are sequentially consistent
  here. The flag is stored with Release and loaded with Acquire and guards no
  other data; the counter is only ever incremented atomically.
* TLS, DNS, the runtime, and the libraries that parse HTTP and WebSocket frames.
* What happens between the two polls of one `select!` in the WebSocket loop: a
  poll is one step, so that a frame and a shutdown that both come after the read
  was polled, and before the shutdown is, count as coming after both. Likewise
  the runtime's cooperative budget, which can make a socket Pending that has
  frames.
* Real time: a timeout or a delay may end at any moment.
* The remaining examples, the benches and the conformance tests: callers of the
  library without state of their own.

## 8. Plan

Done: every module of section 2, with the proofs of section 6.

Next proof: `OneConnection` and `ImplementsContract` of `ReconnectingUds` on top
of `Multiplex` itself instead of its contract.

Next modules: a server loop over `FramedConn` composed with `FramedRead` and
`Router`, that is, `UdsServer` with the bytes of its frames and the batches of
its bodies. It would take the place of `MCUdsServer` in the list of runs, so
that the list stays one of distinct questions.
