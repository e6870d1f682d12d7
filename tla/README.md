# A TLA+ model of php-grpc-lite

php-grpc-lite is a PHP extension in C: a gRPC client (unary and server
streaming) over nghttp2, with a per-process cache of persistent HTTP/2
connections. These modules model its connection and call life cycle, how a
connection is set up and how its bytes are sent and received, how a request is
built, how HTTP/2 frames become messages, metadata and a status, and what the
PHP objects Call, Channel, ChannelCredentials and Timeval make of it. TLC checks
them on small instances; TLAPS proves for instances of any size the ownership of
connections, that a call gets a connection that is ready and has the settings of
its channel, that no handle of a setup leaks, that the wire carries what nghttp2
counts as sent, that operations time out by their own deadlines only (with two
exceptions of the code, below), and the arithmetic of timeouts.

## The system

| part | source | state | operations | talks to |
|---|---|---|---|---|
| connection cache | `src/transport.c`, `grpc.c` | key -> connection, at most 128 | get, evict, discard, detach, shutdown | connections, channels |
| connection setup | `src/transport.c`, `src/tls_config.c` | socket, SSL_CTX, SSL, session, setup deadline | resolve, connect, handshake, first send | cache, channels |
| connection I/O | `src/transport.c` | write buffer, write deadline, receive scratch | send pending frames, receive, poll, preflight drain | nghttp2, socket |
| connection | `src/transport.c`, `src/transport.h` | dead, draining, detached, owner and stream counts, error detail, nghttp2 session | create, preflight, send, receive, destroy | calls, nghttp2 |
| nghttp2 callbacks | `src/transport.c` | stream user data, data source | on_header, on_data_chunk_recv, on_frame_recv, on_stream_close, data source | the calls of all streams |
| unary call | `src/unary_call.c` | a `grpc_call` on the stack | perform | connection, retry loop |
| server stream | `src/server_streaming_call.c` | a `grpc_call` in a PHP resource | open, next, cancel, destroy | connection, retry loop |
| response parser | `src/transport.c` | header bytes, payload in progress, queue | process data, enqueue, limits | callbacks, next |
| status and retry | `src/status_core.c` | none | status of a call, retry outcome | calls |
| Call object | `src/wrapper_adapter.c`, `src/surface.c` | request, status, flags | startBatch, cancel, retry loops | calls |
| Channel, credentials | `src/surface.c` | configuration, default roots, connection key | constructors, close | cache |
| deadlines and timeouts | `src/surface.c`, `src/protocol_core.c` | none | Timeval, saturating sums, grpc-timeout | calls, headers |
| request headers, metadata | `src/transport.c` | header array | validate, append, grow, decode | calls, nghttp2 |
| tracing, fault injection, bench | the rest | - | reporting | - |

PHP runs one thread and no PHP code runs while a call does I/O; the one PHP
callback, the plugin of call credentials, runs in a batch before it. What makes the
system hard is that calls share connections. A server stream stays open between
two pulls; whichever call runs a send or receive loop meanwhile drives the
session for all of them, so callbacks change, close, refuse or kill streams
whose own operations are not running. On top of that come deadlines that reset
one stream and keep the connection, failed flushes that kill it for everybody,
GOAWAY, the transparent retry of refused streams, cached connections that die or
are replaced, and message bytes that arrive cut anywhere.

Properties wanted per part: the cache and connections are neither leaked nor
used after they are destroyed, and the counters that decide it are exact; nghttp2
never holds a pointer to a freed call; a dead connection is never driven; a call
with a deadline returns; the parser is exact; PHP sees whole messages in order
and one status; a retry repeats only what the server cannot have processed, with
the same content and a new timeout; the bytes on the wire are the ones nghttp2
counts as sent; only the deadline of the running operation ends it; a failed
setup gives everything back, and channels with different settings never share a
connection.
`PROJECT.json` lists the components, the hazards with the line where each bites,
and which definition stands for which lines.

## Modules

**`ConnectionOwnership`** is the core. `heap` has one field per struct member
(a boolean member is the set of objects that have it); `thread` says which
operation runs and where it is. Addresses of freed connections and calls are
reused, so a stale pointer shows as a pointer to something else. The helpers of
`transport.c` are operators from heap to heap under their own names. Each
operation is split where nghttp2 or the peer can do different things: one action
per frame sent or received, one per outcome of a send or receive, one for each
stretch of C between two of them. `pc` values follow the code: `get`/`create`
(get_persistent_connection), `submit`, `send`, `recv`, `frames`
(nghttp2_session_mem_recv), `goaway` (the walk over active_streams), `loop` and
`finish` (next), `terminate`, `flush`/`termflush` (the flush of
cancel_grpc_call_stream), `result`/`returned` (the end of a unary attempt),
`destroy`/`free`. Of a response it keeps only what steers control: nothing yet,
something, a queued message, a broken rule, refused.

**`ResponseStream`** is one call in detail: every flag of `grpc_call` that
status, retry or parsing looks at, the bytes of its messages, the queue, and both
receive loops. The stream's connection is shared: `OtherReads` is another call
receiving while this one is not in next. `peer` is a server that sends any header
fields, cuts its bytes anywhere and stops in any way. `Parse` is one round of the
parser's loop. `FinalStatus` applies `StatusRules`, the early returns of
grpc_lite_status_code_from_call in their order.

**`CallContract`** is what PHP is promised: the messages in order, then one
status. `ResponseStream` implements it (`MeetsContract`); the messages of the
contract are the well-formed ones at the front of what the server tries to send.

**`CallAdapter`** is one Call object. PHP runs batches (`StartBatch` with any set
of operations), `Cancel` and `SetCredentials` in any order. `frame` is the C
stack of the batch: `pc` says where startBatch is, and `callers` holds the
batches that wait for a plugin which uses the same call; `cancelling` remembers
which batches were under way at the last cancel. The unary and the
streaming attempt are steps with all the outcomes the transport can return, and
`attempts` records each request that was sent, with its payload and metadata.

**`ConnectionIO`** is what `ConnectionOwnership` takes as one step: the bytes of
one connection. `session` is how far nghttp2 has serialised each frame, `conn`
the write buffer with its flags, `socket` the kernel buffers and the peer, which
may leave (`PeerLeaves`) or be given up by the kernel (`PeerLost`: ETIMEDOUT once
all is read, and nothing can be sent), `wire` how many bytes were handed to the
kernel and whether in order. `task` is the
operation that runs: setup, call or pull, preflight, cancel, each with its deadline against a clock that
`Tick` moves whenever the kernel or the scheduler takes time.

**`ConnectionSetup`** has the default roots, the credentials objects, the
channels with their keys, the cache, and `task`, the one setup that can be in
progress, with one step per call that can fail (getaddrinfo, socket, connect,
SSL_CTX_new to SSL_connect, verification, ALPN, the session and its first send).
`open` counts the handles of each kind that the process holds, apart from who
refers to them.

**`Timeouts`** has the integer operations of deadlines as operators, with the
range of zend_long and the units as constants. **`RequestHeaders`** uses them: it
builds the header array of a request field by field, for the first attempt and
the retry, and turns metadata that the peer sends back into the PHP array.

**`MCConnectionOwnership`**, **`MCResponseStream`**, **`MCCallAdapter`**,
**`MCConnectionIO`**, **`MCConnectionSetup`**, **`MCRequestHeaders`** give the
constants for TLC. **`ConnectionHeapProofs`**, **`ConnectionOwnershipProofs`**,
**`ConnectionSetupProofs`**, **`HandleProofs`**, **`ConnectionIOProofs`**,
**`TimeoutsProofs`** hold the proofs.

How they fit together: `ConnectionSetup` says what connection a call is given,
`ConnectionOwnership` who holds it and when it goes, `ConnectionIO` what one send
or receive on it does, `ResponseStream` what the received frames mean for one
call, `RequestHeaders` what is submitted for it, and `CallAdapter` what PHP asks
for and gets. Each takes the others as steps with all their outcomes.

nghttp2 is external. What is used of it: RST_STREAM is sent before HEADERS and
HEADERS in order; a submitted RST_STREAM makes it ignore new frames of the stream
but not the rest of a frame in progress; END_STREAM from the server closes the
stream only once the request has been sent; on GOAWAY it calls on_frame_recv
first and then closes the open streams above last_stream_id, and closes queued
requests unsent; trailers without END_STREAM are rejected after their fields were
delivered; after a fatal error only nghttp2_session_del is allowed.

## Runs

| run | instance | checks |
|---|---|---|
| `MCSharedConnection` | 1 key, 1 connection address, 2 calls, 2 stream ids | counters, user data and data sources exact, dead never driven, no stale error text, nothing unusable stays in the cache, streams open only on usable connections |
| `MCReplacedConnection` | 2 keys, 2 connections, 2 calls, 1 place in the cache, 1 stream id | nothing dangles or leaks |
| `MCDeadline` | 1 key, 1 connection, 2 calls, one with a deadline | that call returns |
| `MCDelivery` | five scripts of up to three messages, chunks of up to 13 bytes, read-ahead of 2 messages and 1 byte | exact parser, bounded queue, OK means whole, the contract |
| `MCClassification` | one message, all eight header fields in any order, room for 2 metadata entries, `:status` 503 | classification of metadata, retry only of unprocessed requests |
| `MCCallAdapter` | 3 batches, 2 of them nested at most, 2 payloads (one too long), 3 kinds of metadata (one invalid), 2 messages per stream | only refused requests are repeated, and unchanged; processed at most once; credentials merged once; messages in order; status and cancellation final; every batch returns |
| `MCConnectionIO` | write buffer of 2 bytes, requests of frames of 1 to 3 bytes, scratch of 2, drain budget of 3 bytes and 2 rounds, deadlines none and 3, clock up to 4, 2 frames, 3 bytes received | wire agrees with the session, no timeout but one's own and two named exceptions, verdict of preflight, operations end |
| `MCConnectionSetup` | 2 channels, 2 credentials objects, 4 kinds of credentials, 3 of options, 2 cached connections, 2 addresses | settings match, no handle leaks, what is served is ready |
| `MCRequestHeaders` | integers up to 63, units 1, 2, 4, 8, 16, at most 3 in a unit, 9 inline headers, 11 metadata values, clock up to 3 | headers exact, timeout matches the deadline, metadata round trip |
| `MCFramingErrors`, `MCInvalidContentType`, `MCCompressed` | as the two above | one stated behaviour each that the code does not have (below) |

Bounds. Two calls suffice to have one drive the session of the other, to detach a
connection that is still owned, and to reuse an address; two connections and one
place in the cache make replacement under the same key and a full cache happen.
Two stream ids give a connection two owners, or a second stream after GOAWAY;
`MCReplacedConnection` has one stream per connection instead.
`MaxStreamId` bounds the streams of a session: reaching it is the code's own
exhaustion of stream ids. 13 bytes hold two whole messages and more, so a chunk
may be cut inside any header or payload or contain several messages; the scripts
have empty, full-size, too large, compressed and malformed messages.
`last = MaxStreamId` of a GOAWAY stands for its INT32_MAX. In the two safety runs
of `ConnectionOwnership` connections and calls are interchangeable, and TLC uses
that symmetry; every call has a deadline there, which only adds behaviours.
`MCDeadline` tells its calls apart and uses none.

Three batches let PHP mix reading a message, reading to the status and a unary
batch on one call, or try again after an exception; depth two is a plugin that
starts a batch on its own call. In `MCConnectionIO` a frame may fit in the
buffer, need a flush first or be longer than the buffer, the budget of the drain
ends in the middle of a read, a millisecond has two ticks, so rounding matters,
and a poll is cut at one millisecond, so a wait that begins at 0 is longer than
poll can be told and one that begins later is not. The clock runs past the
deadline, so the flush of a reset has its grace after a deadline that passed. `MCConnectionSetup` has as many cached connections as channels, so the
limit of the cache is reached and left again; channels and credentials objects
are interchangeable (symmetry). The metadata of `MCRequestHeaders` is below, at
and above both the inline capacity and the limit, and the timeouts lie on both
sides of every unit and at the ends of the integers. `MCClassification` has one
value of `:status` to keep the run short: only the final status depends on the
value, neither of its two properties does, and with 200 in place of 503 TLC finds
as many states (3,766,562) and no error.

Deadlock is checked except in `MCConnectionIO`, where a dead connection is not
used any more, and `MCRequestHeaders`, where a request that was answered or
refused is the end.

Fairness. In `MCDeadline` the thread keeps running, so every step that is ready
is taken, and a chunk holds finitely many frames, hence strong fairness of the
step that ends it. connection_recv looks at the deadline each time it is entered,
and poll never waits past it: strong fairness of `RecvTimesOut`. Nothing is
assumed of the peer, and a call without a deadline may wait for ever.
`MCConnectionIO` shows the part that `MCDeadline` assumes, from less: the thread
takes a step when it has one and the clock goes on (weak fairness of `Step` and
`Tick`); the kernel and the peer owe nothing. In `MCCallAdapter` the attempts and
the reads of a batch return (which the two runs above are about), and so does the
plugin: weak fairness of `UnaryStep`, `StreamStep` and `PluginStep`.

Three disagreements with what the repository says of itself:

- `MCFramingErrors`: a comment says that framing errors of a unary response
  surface as INTERNAL. A response cut inside a message can end OK without a
  message, if its trailers arrive before the request has been sent and the
  connection then breaks or the server resets the stream.
- `MCInvalidContentType`: the design document says that an invalid content-type
  resets the stream. A unary call only sets flags and goes on waiting.
- `MCCompressed`: the design document still says UNIMPLEMENTED for a compressed
  message; the code, and the newer specification, say INTERNAL.

Further observations, which the models show and no run states as a disagreement:

- `connect_tcp` reports through errno only. getaddrinfo does not set it, and the
  kernel's own connect timeout is ETIMEDOUT as well, so a call without a deadline
  may end DEADLINE_EXCEEDED (`ResolveFails`, `ConnectFails`), where the
  compatibility checklist has UNAVAILABLE for a failed connection.
- A write that times out during setup sets current_write_timed_out, and
  create_h2_connection looks at setup_timed_out: the text is that of a failed
  send. The status is right, because callers look at the clock again.
- `TimeoutIsOwn` has two exceptions. A poll cut at INT_MAX milliseconds (24 days)
  is taken for the deadline when it is over (cause `cut`). In plaintext, recv that
  fails with the kernel's ETIMEDOUT is taken for the deadline by a call that has
  one (cause `kernel`, `RecvLost`): the call ends DEADLINE_EXCEEDED early and does
  not mark the connection dead, but cancels its stream. Nothing can be sent on such
  a connection, so the flush of the reset fails and the connection is dead after
  all. A TLS connection reports ECONNRESET, and sends never report a timeout that
  is not a poll's or the clock's.
- A batch that throws after its request was sent leaves the call as if it had
  not been performed, and another batch sends again; metadata that the plugin
  merged before an exception stays (`threw` in the properties of `CallAdapter`).
- A batch looks at `cancelled` only when it starts. A plugin that cancels the call
  it is asked for does not stop its batch: that batch sends its request and the
  retry, leaves the stream it opens alive, and stores the status that the server
  answers. `CancelIsFinal` allows this to that batch alone, and
  `StatusFinal` holds for it as for all others.
- A plugin that starts a batch on the very call it is asked for may have the
  request sent twice and the status overwritten, and an opened call may be left
  without a resource. These behaviours, and only these, are excluded from
  `StatusFinal` and the other properties that name `reentered`.
- `Timeval::subtract` is one microsecond low for a negative time minus the least
  integer; a test expects it.

## Proofs

For every value of the constants that satisfies `ConstantsAssumption` (finite
sets of keys, connections and calls, positive bounds),
`ConnectionOwnershipProofs` proves

- `TypeCorrect`: `Spec => []TypeOK`,
- `OwnershipExact`: `Spec => []OwnershipInv`,
- `NeverDangling`: `Spec => []NoDanglingConnection`.

None of the three is inductive alone. The inductive invariant is
`Inv == HeapInv(heap) /\ ThreadInv(heap, thread)`. `HeapInv` says that a call
that has a connection owns it and that the connection is live, that the three
counters of a connection are the cardinalities they stand for, and that the cache
holds live, undetached connections under one key each. `ThreadInv` says what the
operation in progress may rely on: from the lookup to the registration of the
stream it is the cache entry that keeps the connection alive, from then on the
call, and for a unary call that has returned the cache again. That is the reason
why `h2` may be used after the call in grpc_lite_perform_call_unary, and why every
failing branch has to detach before it returns. `ConnectionHeapProofs` shows that
each helper preserves `HeapInv`, as lemmas on a heap alone;
`ConnectionOwnershipProofs` has one step per action over them.

`ConnectionSetupProofs` proves, for any channels, credentials objects, texts,
arguments and limits that satisfy the three assumptions of `ConnectionSetup`,

- `SettingsAlwaysMatch`: `Spec => []SettingsMatch`,
- `AlwaysServedReady`: `Spec => []ServedReady`.

Both speak only of the moment a connection is handed out. The inductive invariant
`SetupInv` (`SetupInvariant`) has three parts: `SurfaceInv`, that the key of an
initialized channel is the one its fields give, which holds because neither
credentials objects nor channels change once they are built; `CacheInv`, that a
cached connection was finished, and that its settings are those of every channel
with its key; `PhaseInv`, what the connection under construction has reached at
each `pc`. The lemma `SettingsFollowKey` is the heart of it: equal keys mean
equal settings. It rests on the digest having no collisions, and on the key
having every field that setup reads.

`HandleProofs` proves, over the same invariant and for any number of addresses,

- `HandlesNeverLeak`: `Spec => []NoHandleLeak`.

`HandleInv` is the property with what it needs to be inductive (`Exact`): a setup
step takes a handle that the connection under way does not have yet, and the key
of an attempt is free in the cache, so that a finished connection displaces none.
destroy_h2_connection then gives back what the connection holds, no more and no
less, at whatever step the setup failed.

`ConnectionIOProofs` proves, for every capacity of the buffer, all requests,
budgets, deadlines and units of time that satisfy the three assumptions of
`ConnectionIO`,

- `BufferNeverOverflows`: `Spec => []TypeOK`,
- `WireFollowsSession`: `Spec => []WireMatchesSession`,
- `TimeoutsAreOwn`: `Spec => []TimeoutIsOwn`,
- `PreflightIsRight`: `Spec => []PreflightVerdict`.

None of the last three is inductive: each speaks of the end of an operation. The
invariant `IOInv` (`IOInvariant`) says what is true inside one. `TaskInv`: which
operation can be at which place, and that its connection is not dead. `WireInv`:
what nghttp2 has handed out and the socket has not taken is the buffer, or the
rest of the write under way and the chunk that waits for it, and these follow one
another and the wire without a gap. `DeadlineInv`: the deadline of the connection
is that of the operation, a setup deadline does not outlive the setup, a timed_out
flag is set only on the way to the failure it explains, a poll under way ends no
earlier than the deadline unless it was cut, and an operation on the way to a
timeout is `Due`, by the clock or by one of the two exceptions. That poll's timeout is long enough
is the lemma `PollTimeout`, on the rounding up of the division.

`TimeoutsProofs` proves for every width of integers and all units

- `SaturatingAdd`: the sum is the exact one clamped to the range, and the
  comparisons that decide it do not overflow themselves,
- `SaturatingSubtract`: the same for differences, with the one exception above,
- `FormatTimeout`: grpc-timeout covers the time left by less than a unit, in at
  most `MaxValue`, or is the largest value there is.

Only model-checked: the other safety properties, everything about
`ResponseStream`, `CallAdapter` and `RequestHeaders`, and liveness. Liveness under
fairness and induction over sequences are out of reach of the provers used.

## Not modelled

- The identity check of a cache entry: in a model with keys as values an entry
  always matches its key.
- Characters: percent coding, base64, the syntax of names, hosts and PEM texts,
  status texts. A value is of a kind that a check accepts or refuses, base64 is
  inverted by its decoder, certificates parse or do not (`src/tls_config.c`).
- Argument parsing and the registration of classes, constants and INI entries;
  the clamps of INI values are the constants of the models.
- 1xx responses; requests with more than one message, which the extension does
  not make.
- A PHP fatal error that unwinds out of an nghttp2 callback.
- Memory that runs out: PHP's allocator does not return.
- The modules are checked side by side, each against all outcomes of the others;
  their product is out of TLC's reach.
- Tracing, fault injection, diagnostics and the bench client report what happened
  and take no part in it.

## Plan

1. Proofs: `NoLeakedConnection`, `UnusableEvicted`, `DeadNeverDriven`,
   `SessionAgrees` and `SourceLifetime` from an extended `Inv`; for
   `ResponseStream` the bounds of the queue, `RetryOnlyUnprocessed` and
   `NoMessageAfterViolation`.
2. A refinement from `ConnectionIO` to the one-step sends and receives of
   `ConnectionOwnership`, which needs an abstraction of the latter to a single
   connection.
