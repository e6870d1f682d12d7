------------------------ MODULE ConnectionOwnership ------------------------
(***************************************************************************)
(* Who owns an h2_connection, and for how long: the per-process persistent *)
(* connection cache, the connections, the grpc_calls whose streams run on  *)
(* them and the nghttp2 session underneath (transport.c, unary_call.c,     *)
(* server_streaming_call.c, the retry loop of wrapper_adapter.c and        *)
(* Channel::close of surface.c).                                           *)
(*                                                                         *)
(* PHP runs one thread, so one operation executes at a time; "thread" says *)
(* which one and where it is.  The hard part is that EVERY receive or send *)
(* loop drives the shared session, and nghttp2 then calls back for the     *)
(* streams of every other call that owns the connection.                   *)
(*                                                                         *)
(* "heap" holds the C objects, one field per struct member.  A boolean     *)
(* member is the set of the objects that have it set.  Freed objects are   *)
(* cleared and their address may be allocated again, so a pointer that     *)
(* survives its object is visible as a pointer to something else.          *)
(***************************************************************************)
EXTENDS Integers, FiniteSets

CONSTANTS
    Keys,           \* connection keys of the channels in use
    Conns,          \* addresses an h2_connection can be allocated at
    Calls,          \* addresses a grpc_call can be allocated at
    Deadlined,      \* the calls made with a deadline
    NULL,
    MaxPersistent,  \* GRPC_LITE_MAX_PERSISTENT_CONNECTIONS
    MaxStreamId     \* number of streams a session can open in its lifetime

ASSUME ConstantsAssumption ==
    /\ IsFiniteSet(Keys) /\ IsFiniteSet(Conns) /\ IsFiniteSet(Calls)
    /\ Deadlined \subseteq Calls
    /\ NULL \notin Conns \cup Calls \cup Keys
    /\ MaxPersistent \in Nat \ {0}
    /\ MaxStreamId \in Nat \ {0}

VARIABLES heap, thread

vars == <<heap, thread>>

Ids == 1 .. MaxStreamId
Streams == Conns \X Ids

(***************************************************************************)
(* Types and the initial state.                                            *)
(***************************************************************************)
\* What the receive path has recorded of the response, as far as it steers
\* control: nothing, something (grpc_lite_call_response_started), a message in
\* the queue, a response policy flag (next then drops the queue), or that the
\* stream was refused before any response.
Responses == {"none", "started", "queued", "policy", "goaway", "rst"}

Heap ==
    [cache : [Keys -> Conns \cup {NULL}],
     \* h2_connection
     live : SUBSET Conns, dead : SUBSET Conns, draining : SUBSET Conns,
     detached_from_cache : SUBSET Conns, last_error_detail : SUBSET Conns,
     active_streams : [Conns -> SUBSET Calls],
     active_stream_count : [Conns -> Nat],
     stream_owner_count : [Conns -> Nat],
     \* nghttp2_session: HEADERS still queued, open streams, RST_STREAM
     \* submitted, stream user data, DATA source
     next_id : [Conns -> 1 .. MaxStreamId + 1],
     pending : SUBSET Streams, open : SUBSET Streams,
     rst : SUBSET Streams,
     user_data : [Streams -> Calls \cup {NULL}],
     source : [Streams -> Calls \cup {NULL}],
     \* grpc_call and server_streaming_call_state
     alloc : SUBSET Calls,
     channel_key : [Calls -> Keys \cup {NULL}],
     connection : [Calls -> Conns \cup {NULL}],
     stream_id : [Calls -> 0 .. MaxStreamId],
     stream_registered : SUBSET Calls, connection_owned : SUBSET Calls,
     stream_closed : SUBSET Calls, completed : SUBSET Calls,
     retried : SUBSET Calls,    \* retry_attempt = 1
     response : [Calls -> Responses]]

Ops == {"none", "unary", "open", "reopen", "next", "cancel", "destroy"}
Sending == {"send", "flush", "termflush"}
PCs == Sending \cup {"idle", "get", "create", "submit", "loop", "recv",
                     "frames", "goaway", "terminate", "finish",
                     "destroy", "free", "cancelled", "terminated",
                     "result", "returned"}

Thread ==
    [op : Ops, pc : PCs, call : Calls \cup {NULL}, conn : Conns \cup {NULL},
     key : Keys \cup {NULL}, attempt : {0, 1},
     refused : {"no", "goaway", "rst"}, last : 0 .. MaxStreamId]

Idle == [op |-> "none", pc |-> "idle", call |-> NULL, conn |-> NULL,
         key |-> NULL, attempt |-> 0, refused |-> "no", last |-> 0]

EmptyHeap ==
    [cache |-> [key \in Keys |-> NULL],
     live |-> {}, dead |-> {}, draining |-> {}, detached_from_cache |-> {},
     last_error_detail |-> {},
     active_streams |-> [k \in Conns |-> {}],
     active_stream_count |-> [k \in Conns |-> 0],
     stream_owner_count |-> [k \in Conns |-> 0],
     next_id |-> [k \in Conns |-> 1],
     pending |-> {}, open |-> {}, rst |-> {},
     user_data |-> [s \in Streams |-> NULL],
     source |-> [s \in Streams |-> NULL],
     alloc |-> {}, channel_key |-> [c \in Calls |-> NULL],
     connection |-> [c \in Calls |-> NULL],
     stream_id |-> [c \in Calls |-> 0],
     stream_registered |-> {}, connection_owned |-> {}, stream_closed |-> {},
     completed |-> {}, retried |-> {}, response |-> [c \in Calls |-> "none"]]

Init == heap = EmptyHeap /\ thread = Idle

(***************************************************************************)
(* Helpers of transport.c, as functions of the heap h.                     *)
(***************************************************************************)
connection_usable(h, k) == k # NULL /\ k \notin h.dead \cup h.draining

\* Mutant: a dead connection may still be driven.
MutantIoAllowedWhenDead(h, k) == k # NULL

connection_io_allowed(h, k) == k # NULL /\ k \notin h.dead

StreamOf(h, c) == <<h.connection[c], h.stream_id[c]>>
StreamsOn(k) == {k} \X Ids

\* nghttp2 permits nothing but nghttp2_session_del on the session of a dead
\* connection, so its streams are no longer represented.
ForgetSession(h, k) ==
    [h EXCEPT !.next_id[k] = 1,
              !.pending = @ \ StreamsOn(k), !.open = @ \ StreamsOn(k),
              !.rst = @ \ StreamsOn(k),
              !.user_data = [s \in Streams |-> IF s[1] = k THEN NULL ELSE @[s]],
              !.source = [s \in Streams |-> IF s[1] = k THEN NULL ELSE @[s]]]

mark_connection_dead(h, k) ==
    [ForgetSession(h, k) EXCEPT !.dead = @ \cup {k},
                                !.last_error_detail = @ \cup {k}]

destroy_h2_connection(h, k) ==
    [ForgetSession(h, k) EXCEPT
        !.live = @ \ {k}, !.dead = @ \ {k}, !.draining = @ \ {k},
        !.detached_from_cache = @ \ {k}, !.last_error_detail = @ \ {k},
        !.active_streams[k] = {}, !.active_stream_count[k] = 0,
        !.stream_owner_count[k] = 0]

\* Mutant: destroyed when its last owner but one leaves.
MutantDestroyWithOneOwner(h, k) ==
    IF k \in h.detached_from_cache /\ h.stream_owner_count[k] <= 1
    THEN destroy_h2_connection(h, k)
    ELSE h

destroy_detached_connection_if_unowned(h, k) ==
    IF k \in h.detached_from_cache /\ h.stream_owner_count[k] = 0
    THEN destroy_h2_connection(h, k)
    ELSE h

\* Mutant: removed from the cache, but not marked detached_from_cache.
MutantDetachUnmarked(h, k) ==
    [h EXCEPT !.cache = [key \in Keys |-> IF @[key] = k THEN NULL ELSE @[key]]]

\* The cache maps at most one key to a connection, so removing the first
\* entry that holds it removes all of them.
detach_persistent_connection_by_ptr(h, k) ==
    IF k # NULL /\ \E key \in Keys : h.cache[key] = k
    THEN [h EXCEPT !.cache = [key \in Keys |-> IF @[key] = k THEN NULL ELSE @[key]],
                   !.detached_from_cache = @ \cup {k}]
    ELSE h

\* discard_persistent_connection, and remove_unusable_persistent_connection
\* once it knows that the connection is unusable: the two have one body.
discard_persistent_connection(h, key, k) ==
    IF h.cache[key] # k
    THEN destroy_detached_connection_if_unowned(
             [h EXCEPT !.detached_from_cache = @ \cup {k}], k)
    ELSE LET uncached == [h EXCEPT !.cache[key] = NULL]
         IN  IF h.stream_owner_count[k] > 0
             THEN [uncached EXCEPT !.detached_from_cache = @ \cup {k}]
             ELSE destroy_h2_connection(uncached, k)

remove_unusable_persistent_connection(h, key, k) ==
    IF connection_usable(h, k) THEN h ELSE discard_persistent_connection(h, key, k)

\* Mutant: only dead connections are detached, not draining ones.
MutantDetachIfDead(h, k) ==
    IF connection_io_allowed(h, k) THEN h ELSE detach_persistent_connection_by_ptr(h, k)

DetachIfUnusable(h, k) ==
    IF connection_usable(h, k) THEN h ELSE detach_persistent_connection_by_ptr(h, k)

\* create_h2_connection succeeds and get_persistent_connection caches the result.
AddConnection(h, key, k) == [h EXCEPT !.live = @ \cup {k}, !.cache[key] = k]

\* The grpc_call is set up for its attempt.
AllocCall(h, c, id, key, attempt) ==
    [h EXCEPT !.alloc = @ \cup {c}, !.channel_key[c] = key, !.stream_id[c] = id,
              !.retried = IF attempt = 1 THEN @ \cup {c} ELSE @]

\* nghttp2_submit_request queues the HEADERS; register_grpc_call_stream then
\* ties the stream to the call.
SubmitRequest(h, k, c) ==
    LET s == <<k, h.next_id[k]>>
    IN  [h EXCEPT !.next_id[k] = @ + 1, !.pending = @ \cup {s},
                  !.source[s] = c]

register_grpc_call_stream(h, k, c, id) ==
    [h EXCEPT !.connection[c] = k,
              !.user_data[<<k, id>>] = c,
              !.stream_registered = @ \cup {c},
              !.connection_owned = @ \cup {c},
              !.active_streams[k] = @ \cup {c},
              !.active_stream_count[k] = @ + 1,
              !.stream_owner_count[k] = @ + 1]

\* Mutant: a stream that is already unregistered is counted down again.
MutantUnregisterTwice(h, c) ==
    LET k == h.connection[c]
    IN  IF k = NULL \/ h.stream_id[c] <= 0 THEN h
        ELSE [h EXCEPT !.user_data[StreamOf(h, c)] = NULL,
                       !.active_streams[k] = @ \ {c},
                       !.stream_registered = @ \ {c},
                       !.active_stream_count[k] = @ - 1]

\* Mutant: the stream user data survives the registration.
MutantUnregisterKeepsUserData(h, c) ==
    LET k == h.connection[c]
    IN  IF c \notin h.stream_registered \/ k = NULL THEN h
        ELSE [h EXCEPT !.active_streams[k] = @ \ {c},
                       !.stream_registered = @ \ {c},
                       !.active_stream_count[k] = @ - 1]

unregister_grpc_call_stream(h, c) ==
    LET k == h.connection[c]
        s == StreamOf(h, c)
    IN  IF c \notin h.stream_registered \/ k = NULL \/ h.stream_id[c] <= 0
        THEN h
        ELSE [h EXCEPT !.user_data[s] = NULL,
                       !.active_streams[k] = @ \ {c},
                       !.stream_registered = @ \ {c},
                       !.active_stream_count[k] = IF @ > 0 THEN @ - 1 ELSE @]

\* Mutant: the owner leaves without counting itself out.
MutantReleaseUncounted(h, k, c) == [h EXCEPT !.connection_owned = @ \ {c}]

ReleaseOwner(h, k, c) ==
    [h EXCEPT !.stream_owner_count[k] =
                  IF c \in h.connection_owned /\ @ > 0 THEN @ - 1 ELSE @,
              !.connection_owned = @ \ {c}]

\* Mutant: a unary call leaves the connection with its stream registered.
clear_connection_call_owner(h, k, c) ==
    IF h.connection[c] # k THEN h
    ELSE ReleaseOwner(unregister_grpc_call_stream(h, c), k, c)

clear_connection_server_streaming_call_state_owner(h, c) ==
    LET k == h.connection[c]
        released == ReleaseOwner(
                        unregister_grpc_call_stream(DetachIfUnusable(h, k), c), k, c)
    IN  IF k = NULL THEN h
        ELSE destroy_detached_connection_if_unowned(
                 [released EXCEPT !.connection[c] = NULL], k)

\* The memory of the grpc_call goes away: efree(state), or the return of the
\* function whose stack frame holds it.
FreeCall(h, c) ==
    [h EXCEPT !.alloc = @ \ {c}, !.channel_key[c] = NULL,
              !.connection[c] = NULL, !.stream_id[c] = 0,
              !.stream_registered = @ \ {c}, !.connection_owned = @ \ {c},
              !.stream_closed = @ \ {c}, !.completed = @ \ {c},
              !.retried = @ \ {c}, !.response[c] = "none"]

on_stream_close_callback(h, s) ==
    LET c == h.user_data[s]
    IN  IF c = NULL THEN h
        ELSE IF h.stream_id[c] # s[2] THEN h
        ELSE unregister_grpc_call_stream(
                 [h EXCEPT !.stream_closed = @ \cup {c}], c)

\* nghttp2 closes stream s: the callback first, then the stream and its
\* outbound DATA item are gone.
CloseStream(h, s) ==
    [on_stream_close_callback(h, s) EXCEPT
        !.pending = @ \ {s}, !.open = @ \ {s}, !.rst = @ \ {s},
        !.user_data[s] = NULL, !.source[s] = NULL]

\* nghttp2_submit_rst_stream: an RST_STREAM to send for an open stream, a
\* cancelled HEADERS item for a request that is still queued.
SubmitRst(h, s) ==
    IF s \in h.pending \cup h.open THEN [h EXCEPT !.rst = @ \cup {s}] ELSE h

retryable(h, c) ==
    c \notin h.retried /\ h.response[c] \in {"goaway", "rst"}

\* The first response observed on a stream hides a later refusal of it.
Refused(h, c, how) ==
    [h EXCEPT !.response[c] = IF @ = "none" THEN how ELSE @]

Started(h, c) ==
    [h EXCEPT !.response[c] = IF @ = "none" THEN "started" ELSE @]

TakeQueue(h, c) ==
    [h EXCEPT !.response[c] = IF @ = "queued" THEN "started" ELSE @]

(***************************************************************************)
(* get_persistent_connection, the start of every call attempt.             *)
(***************************************************************************)
At(pc) == thread.pc = pc
Goto(pc) == thread' = [thread EXCEPT !.pc = pc]
Return == thread' = Idle

\* Call::startBatch starts a unary call or opens a server stream.
StartAttempt(op, c, key) ==
    /\ At("idle") /\ c \notin heap.alloc
    /\ thread' = [Idle EXCEPT !.op = op, !.pc = "get", !.call = c, !.key = key]
    /\ UNCHANGED heap

\* The cached connection is known to be unusable: evict it.
EvictUnusable ==
    LET k == heap.cache[thread.key]
    IN  /\ At("get") /\ k # NULL /\ ~connection_usable(heap, k)
        /\ heap' = remove_unusable_persistent_connection(heap, thread.key, k)
        /\ Goto("create")

\* preflight_persistent_connection finds, before reuse, that the peer closed
\* an idle connection, sent GOAWAY on it or left more bytes than the drain cap.
PreflightFails ==
    LET k == heap.cache[thread.key]
        drained == [heap EXCEPT !.draining = @ \cup {k}]
    IN  /\ At("get") /\ connection_usable(heap, k)
        /\ heap.active_stream_count[k] = 0
        /\ \E seen \in {mark_connection_dead(heap, k), drained,
                        [drained EXCEPT !.last_error_detail = @ \cup {k}]} :
               heap' = remove_unusable_persistent_connection(seen, thread.key, k)
        /\ Goto("create")

\* Mutant: a draining connection is reused.
MutantReuseDraining ==
    LET k == heap.cache[thread.key]
    IN  /\ At("get") /\ connection_io_allowed(heap, k)
        /\ thread' = [thread EXCEPT !.pc = "submit", !.conn = k]
        /\ UNCHANGED heap

ReuseConnection ==
    LET k == heap.cache[thread.key]
    IN  /\ At("get") /\ connection_usable(heap, k)
        /\ thread' = [thread EXCEPT !.pc = "submit", !.conn = k]
        /\ UNCHANGED heap

CacheMiss ==
    /\ At("get") /\ heap.cache[thread.key] = NULL
    /\ Goto("create")
    /\ UNCHANGED heap

Cached == {key \in Keys : heap.cache[key] # NULL}

\* The cache is full, or create_h2_connection fails: the call ends with a
\* setup failure and no grpc_call was registered.
CreateFails ==
    /\ At("create")
    /\ Return
    /\ UNCHANGED heap

CreateConnection(k) ==
    /\ At("create") /\ k \notin heap.live
    /\ Cardinality(Cached) < MaxPersistent
    /\ heap' = AddConnection(heap, thread.key, k)
    /\ thread' = [thread EXCEPT !.pc = "submit", !.conn = k]

(***************************************************************************)
(* Submitting the request.                                                 *)
(***************************************************************************)
\* The deadline passed, the metadata is invalid, or the session has no stream
\* id left (a non-fatal submit error): the attempt ends, the connection stays.
AbandonAttempt ==
    /\ At("submit")
    /\ Return
    /\ UNCHANGED heap

\* A fatal nghttp2_submit_request, or a failed registration of the stream just
\* submitted: dead, out of the cache, destroyed once unowned.
SubmitFails ==
    LET k == thread.conn
    IN  /\ At("submit")
        /\ heap' = destroy_detached_connection_if_unowned(
                       detach_persistent_connection_by_ptr(
                           mark_connection_dead(heap, k), k), k)
        /\ Return

Submit ==
    LET k == thread.conn
        c == thread.call
    IN  /\ At("submit") /\ heap.next_id[k] \in Ids
        /\ heap' = register_grpc_call_stream(
                       SubmitRequest(AllocCall(heap, c, heap.next_id[k], thread.key,
                                               thread.attempt), k, c),
                       k, c, heap.next_id[k])
        /\ Goto("send")

(***************************************************************************)
(* cancel_grpc_call_stream: submit RST_STREAM, then flush the session.     *)
(***************************************************************************)
\* Mutant: no RST_STREAM on a draining connection.
MutantCancelOnlyUsable(h, c) ==
    /\ connection_usable(h, h.connection[c])
    /\ h.stream_id[c] > 0 /\ c \notin h.stream_closed

Cancellable(h, c) ==
    /\ connection_io_allowed(h, h.connection[c])
    /\ h.stream_id[c] > 0 /\ c \notin h.stream_closed

\* Either the submit fails and the connection is dead, or the session is
\* flushed; the caller goes on at "cancelled" or "terminated".
BeginCancel(h, c, flushing) ==
    \/ /\ heap' = mark_connection_dead(h, h.connection[c])
       /\ Goto(IF flushing = "flush" THEN "cancelled" ELSE "terminated")
    \/ /\ heap' = SubmitRst(h, StreamOf(h, c))
       /\ Goto(flushing)

\* The receive loop of next is over; a response that broke a rule is first
\* terminated with RST_STREAM.
LeaveLoop(h) ==
    /\ heap' = h
    /\ Goto(IF h.response[thread.call] = "policy" THEN "terminate" ELSE "finish")

CompleteAndLeaveLoop(h) ==
    LeaveLoop([h EXCEPT !.completed = @ \cup {thread.call}])

(***************************************************************************)
(* nghttp2_session_send: RST_STREAM first, then queued HEADERS in order,   *)
(* then DATA.  One action per frame; partial DATA frames change nothing.   *)
(***************************************************************************)
RstToSend(k) == StreamsOn(k) \cap heap.open \cap heap.rst

SendRstFrame(s) ==
    /\ thread.pc \in Sending /\ s \in RstToSend(thread.conn)
    /\ heap' = CloseStream(heap, s)
    /\ UNCHANGED thread

\* A cancelled request is never sent, nor is any request after GOAWAY.  (Only
\* GOAWAY makes a connection that still sends draining.)  Whether a queued
\* request leaves the queue is up to the peer's MAX_CONCURRENT_STREAMS.
SendHeadersFrame(s) ==
    /\ thread.pc \in Sending /\ s \in StreamsOn(thread.conn) \cap heap.pending
    /\ RstToSend(thread.conn) = {}
    /\ \A id \in 1 .. s[2] - 1 : <<s[1], id>> \notin heap.pending
    /\ heap' = IF s \in heap.rst \/ s[1] \in heap.draining
               THEN CloseStream(heap, s)
               ELSE [heap EXCEPT !.pending = @ \ {s}, !.open = @ \cup {s}]
    /\ UNCHANGED thread

\* The last DATA frame of the request: h2_send_data_callback reads source.  The
\* stream closes at once if the peer has already ended its side.
SendLastDataFrame(s) ==
    /\ thread.pc \in Sending /\ s \in StreamsOn(thread.conn) \cap heap.open
    /\ RstToSend(thread.conn) = {} /\ heap.source[s] # NULL
    /\ heap' \in {CloseStream(heap, s), [heap EXCEPT !.source[s] = NULL]}
    /\ UNCHANGED thread

\* Mutant: the error text of the cancelled stream stays on the connection.
MutantKeepErrorDetail(h, k) == h

WipeErrorDetail(h, k) == [h EXCEPT !.last_error_detail = @ \ {k}]

\* nghttp2_session_send and the flush of the write buffer succeeded.
SendSucceeds ==
    LET k == thread.conn
        wiped == WipeErrorDetail(heap, k)
    IN  /\ thread.pc \in Sending /\ RstToSend(k) = {}
        /\ \/ /\ At("send") /\ thread.op = "unary"
              /\ Goto(IF thread.call \in heap.stream_closed THEN "result" ELSE "recv")
              /\ UNCHANGED heap
           \/ At("send") /\ thread.op = "open" /\ Return /\ UNCHANGED heap
           \/ /\ At("send") /\ thread.op = "reopen"
              /\ thread' = [thread EXCEPT !.op = "next", !.pc = "loop"]
              /\ UNCHANGED heap
           \/ At("send") /\ thread.op = "next" /\ Goto("loop") /\ UNCHANGED heap
           \/ At("flush") /\ Goto("cancelled") /\ heap' = wiped
           \/ At("termflush") /\ Goto("terminated") /\ heap' = wiped

\* A failed or timed out write marks the connection dead.
SendFails ==
    LET c == thread.call
        died == mark_connection_dead(heap, thread.conn)
    IN  /\ thread.pc \in Sending
        /\ \/ At("send") /\ thread.op = "unary" /\ heap' = died /\ Goto("result")
           \/ /\ At("send") /\ thread.op \in {"open", "reopen"}
              /\ heap' = FreeCall(
                     clear_connection_server_streaming_call_state_owner(died, c), c)
              /\ Return
           \/ At("send") /\ thread.op = "next" /\ CompleteAndLeaveLoop(died)
           \/ At("flush") /\ Goto("cancelled") /\ heap' = died
           \/ At("termflush") /\ Goto("terminated") /\ heap' = died

(***************************************************************************)
(* connection_recv and nghttp2_session_mem_recv: the frames of any stream  *)
(* of the connection arrive while one call runs its receive loop.          *)
(***************************************************************************)
\* Mutant: the receive loop of a unary call ignores the deadline.
MutantUnaryNeverTimesOut ==
    /\ At("recv") /\ thread.call \in Deadlined /\ thread.op = "next"
    /\ heap' = heap /\ Goto("cancelled")

\* The deadline expires in connection_recv: only this stream is reset.
RecvTimesOut ==
    LET c == thread.call
        noted == [heap EXCEPT !.last_error_detail = @ \cup {thread.conn}]
    IN  /\ At("recv") /\ c \in Deadlined
        /\ \/ Cancellable(heap, c) /\ BeginCancel(noted, c, "flush")
           \/ ~Cancellable(heap, c) /\ heap' = noted /\ Goto("cancelled")

\* EOF or a socket/TLS error.
RecvFails ==
    LET died == mark_connection_dead(heap, thread.conn)
    IN  /\ At("recv")
        /\ \/ thread.op = "unary" /\ heap' = died /\ Goto("result")
           \/ thread.op = "next" /\ CompleteAndLeaveLoop(died)

RecvChunk == At("recv") /\ Goto("frames") /\ UNCHANGED heap

\* Streams the peer may send a frame on; nghttp2 ignores frames of a stream
\* that is being reset, RST_STREAM excepted.
Receiving(s) ==
    At("frames") /\ s \in (StreamsOn(thread.conn) \cap heap.open) \ heap.rst

RecvHeaders(s) ==
    /\ Receiving(s) /\ heap.user_data[s] # NULL
    /\ heap' = Started(heap, heap.user_data[s])
    /\ UNCHANGED thread

RecvMessage(s) ==
    LET c == heap.user_data[s]
    IN  /\ Receiving(s) /\ c # NULL
        /\ heap.response[c] = "started"
        /\ heap' = [heap EXCEPT !.response[c] = "queued"]
        /\ UNCHANGED thread

\* A header or DATA chunk breaks a response rule: the callback sets a policy
\* flag, submits RST_STREAM, or both.
RecvInvalid(s) ==
    LET c == heap.user_data[s]
        flagged == [heap EXCEPT !.response[c] = "policy"]
    IN  /\ Receiving(s) /\ c # NULL
        /\ heap' \in {flagged, SubmitRst(flagged, s), SubmitRst(Started(heap, c), s)}
        /\ UNCHANGED thread

\* END_STREAM closes the stream if the request has been sent; if not, the
\* stream stays open until it has (SendLastDataFrame).
RecvEndStream(s) ==
    LET c == heap.user_data[s]
        ended == IF c = NULL THEN heap ELSE Started(heap, c)
    IN  /\ Receiving(s)
        /\ heap' = IF heap.source[s] = NULL THEN CloseStream(ended, s) ELSE ended
        /\ UNCHANGED thread

\* RST_STREAM, with REFUSED_STREAM or any other code.
RecvRst(s) ==
    LET c == heap.user_data[s]
    IN  /\ At("frames") /\ s \in StreamsOn(thread.conn) \cap heap.open
        /\ \/ heap' = CloseStream(heap, s)
           \/ c # NULL /\ heap' = CloseStream(Refused(heap, c, "rst"), s)
        /\ UNCHANGED thread

(***************************************************************************)
(* GOAWAY: on_frame_recv_callback walks active_streams and unregisters the *)
(* refused ones; nghttp2 then closes the refused streams itself.           *)
(* last = MaxStreamId stands for the INT32_MAX of a two-stage GOAWAY.      *)
(***************************************************************************)
RecvGoaway(last) ==
    /\ At("frames")
    /\ heap' = [heap EXCEPT !.draining = @ \cup {thread.conn}]
    /\ thread' = [thread EXCEPT !.pc = "goaway", !.last = last]

RefusedOn(k) ==
    {c \in heap.active_streams[k] :
        heap.stream_id[c] > 0 /\ thread.last < heap.stream_id[c]}

RefuseStream(c) ==
    /\ At("goaway") /\ c \in RefusedOn(thread.conn)
    /\ heap' = unregister_grpc_call_stream(
                   [Refused(heap, c, "goaway") EXCEPT
                       !.stream_closed = @ \cup {c}], c)
    /\ UNCHANGED thread

RefusedStreams(k) ==
    {s \in StreamsOn(k) \cap heap.open : thread.last < s[2]}

CloseRefusedStream(s) ==
    /\ At("goaway") /\ RefusedOn(thread.conn) = {}
    /\ s \in RefusedStreams(thread.conn)
    /\ heap' = CloseStream(heap, s)
    /\ UNCHANGED thread

GoawayDone ==
    /\ At("goaway")
    /\ RefusedOn(thread.conn) = {} /\ RefusedStreams(thread.conn) = {}
    /\ thread' = [thread EXCEPT !.pc = "frames", !.last = 0]
    /\ UNCHANGED heap

FramesDone == At("frames") /\ Goto("send") /\ UNCHANGED heap

\* nghttp2_session_mem_recv returns an error, a policy RST_STREAM submitted by
\* a callback being fatal among the causes.  A unary call throws.
MemRecvFails ==
    LET k == thread.conn
        c == thread.call
    IN  /\ At("frames")
        /\ \E flagged \in {{}} \cup {{a} : a \in heap.active_streams[k]} :
               LET died == mark_connection_dead(
                               [heap EXCEPT !.response = [a \in Calls |->
                                   IF a \in flagged THEN "policy" ELSE @[a]]], k)
               IN  \/ /\ thread.op = "unary"
                      /\ heap' = destroy_detached_connection_if_unowned(
                             FreeCall(clear_connection_call_owner(
                                 detach_persistent_connection_by_ptr(died, k),
                                 k, c), c), k)
                      /\ Return
                   \/ thread.op = "next" /\ CompleteAndLeaveLoop(died)

(***************************************************************************)
(* The end of a unary attempt and the retry loop around it.                *)
(***************************************************************************)
UnaryResult ==
    LET k == thread.conn
        c == thread.call
    IN  /\ At("result")
        /\ thread' = [thread EXCEPT !.pc = "returned",
                         !.refused = IF retryable(heap, c)
                                     THEN heap.response[c] ELSE "no"]
        /\ heap' = destroy_detached_connection_if_unowned(
                       FreeCall(clear_connection_call_owner(heap, k, c), c), k)

\* grpc_lite_perform_call_unary looks at the connection again.
UnaryReturned ==
    LET k == thread.conn
        evicted == remove_unusable_persistent_connection(heap, thread.key, k)
    IN  /\ At("returned")
        /\ heap' = IF thread.refused = "rst" THEN heap ELSE evicted
        /\ thread' = IF thread.refused = "no" THEN Idle
                     ELSE [thread EXCEPT !.pc = "get", !.conn = NULL,
                                         !.attempt = 1, !.refused = "no"]

(***************************************************************************)
(* Server streaming: next, cancel and destroy of the resource.             *)
(***************************************************************************)
StartOnCall(op, pc, c) ==
    /\ At("idle") /\ c \in heap.alloc
    /\ thread' = [Idle EXCEPT !.op = op, !.pc = pc, !.call = c,
                              !.conn = heap.connection[c],
                              !.key = heap.channel_key[c]]

\* Once the status is there or the call was cancelled, which is when it gave up
\* its connection, startBatch answers from the Call object.
StartNext(c) ==
    /\ heap.connection[c] # NULL
    /\ StartOnCall("next", "loop", c)
    /\ UNCHANGED heap

LoopExits(c) ==
    \/ heap.response[c] \in {"queued", "policy"}
    \/ c \in heap.stream_closed \cup heap.completed

\* Every receive is followed by a send of all that it made sendable, so the send
\* at the head of the loop of next finds no frame to send.
NextLoop ==
    LET c == thread.call
        io == connection_io_allowed(heap, heap.connection[c])
    IN  /\ At("loop")
        /\ \/ LoopExits(c) /\ LeaveLoop(heap)
           \/ ~LoopExits(c) /\ ~io /\ CompleteAndLeaveLoop(heap)
           \/ ~LoopExits(c) /\ io /\ Goto("recv") /\ UNCHANGED heap
           \/ /\ ~LoopExits(c) /\ io
              /\ CompleteAndLeaveLoop(mark_connection_dead(heap, thread.conn))
           \/ /\ ~LoopExits(c) /\ io /\ c \in Deadlined
              /\ BeginCancel(heap, c, "flush")

\* server_streaming_call_terminate_with_cancel, up to the flush ...
Terminate ==
    LET c == thread.call
        emptied == TakeQueue(heap, c)
    IN  /\ At("terminate")
        /\ \/ Cancellable(heap, c) /\ BeginCancel(emptied, c, "termflush")
           \/ ~Cancellable(heap, c) /\ heap' = emptied /\ Goto("terminated")

\* ... and from there, with what its two callers do next.
Terminated ==
    LET c == thread.call
        completed == [DetachIfUnusable(heap, heap.connection[c]) EXCEPT
                         !.completed = @ \cup {c}]
    IN  /\ At("terminated")
        /\ \/ thread.op = "next" /\ heap' = completed /\ Goto("finish")
           \/ /\ thread.op = "cancel"
              /\ heap' = clear_connection_server_streaming_call_state_owner(completed, c)
              /\ Return

\* One message, or the final status: the call gives the connection up, and is
\* opened once more if the server cannot have processed it.
NextFinish ==
    LET c == thread.call
        finished == clear_connection_server_streaming_call_state_owner(
                        [heap EXCEPT !.completed = @ \cup {c}], c)
    IN  /\ At("finish")
        /\ \/ /\ heap.response[c] = "queued"
              /\ heap' \in {heap, TakeQueue(heap, c)}
              /\ Return
           \/ /\ heap.response[c] # "queued" /\ ~retryable(heap, c)
              /\ heap' = finished
              /\ Return
           \/ /\ retryable(heap, c)
              /\ heap' = FreeCall(finished, c)
              /\ thread' = [thread EXCEPT !.op = "reopen", !.pc = "get",
                                          !.conn = NULL, !.attempt = 1]

\* Call::cancel on an open stream; otherwise it only sets a flag.
StartCancel(c) ==
    /\ c \notin heap.completed
    /\ connection_io_allowed(heap, heap.connection[c])
    /\ StartOnCall("cancel", "terminate", c)
    /\ UNCHANGED heap

\* The resource goes away with its Call object or at the end of the request.
StartDestroy(c) == StartOnCall("destroy", "destroy", c) /\ UNCHANGED heap

DestroyCall ==
    LET c == thread.call
    IN  /\ At("destroy")
        /\ \/ /\ c \notin heap.completed /\ Cancellable(heap, c)
              /\ BeginCancel(heap, c, "flush")
           \/ /\ c \in heap.completed \/ ~Cancellable(heap, c)
              /\ Goto("free") /\ UNCHANGED heap

FreeDestroyedCall ==
    /\ At("free")
    /\ heap' = FreeCall(clear_connection_server_streaming_call_state_owner(
                            heap, thread.call), thread.call)
    /\ Return

\* cancel_grpc_call_stream returned to its caller.
Cancelled ==
    /\ At("cancelled")
    /\ \/ thread.op = "unary" /\ Goto("result") /\ UNCHANGED heap
       \/ thread.op = "next" /\ CompleteAndLeaveLoop(heap)
       \/ /\ thread.op = "destroy"
          /\ heap' = DetachIfUnusable(heap, heap.connection[thread.call])
          /\ Goto("free")

ChannelClose(key) ==
    /\ At("idle") /\ heap.cache[key] # NULL
    /\ heap' = discard_persistent_connection(heap, key, heap.cache[key])
    /\ UNCHANGED thread

\* PHP_GSHUTDOWN destroys every cached connection, after the last request of
\* the process has destroyed its resources.
Shutdown ==
    /\ At("idle") /\ heap.alloc = {} /\ Cached # {}
    /\ heap' = EmptyHeap
    /\ UNCHANGED thread

(***************************************************************************)
(* The specification.                                                      *)
(***************************************************************************)
GetConnection ==
    \/ EvictUnusable \/ PreflightFails \/ ReuseConnection \/ CacheMiss
    \/ CreateFails \/ \E k \in Conns : CreateConnection(k)

SubmitStep == AbandonAttempt \/ SubmitFails \/ Submit

SendStep ==
    \/ \E s \in Streams :
           SendRstFrame(s) \/ SendHeadersFrame(s) \/ SendLastDataFrame(s)
    \/ SendSucceeds \/ SendFails

RecvStep ==
    \/ RecvTimesOut \/ RecvFails \/ RecvChunk
    \/ \E s \in Streams :
           \/ RecvHeaders(s) \/ RecvMessage(s) \/ RecvInvalid(s)
           \/ RecvEndStream(s) \/ RecvRst(s) \/ CloseRefusedStream(s)
    \/ \E last \in 0 .. MaxStreamId : RecvGoaway(last)
    \/ \E c \in Calls : RefuseStream(c)
    \/ GoawayDone \/ FramesDone \/ MemRecvFails

FinishStep ==
    \/ UnaryResult \/ UnaryReturned \/ NextLoop \/ NextFinish
    \/ Terminate \/ Terminated \/ DestroyCall \/ FreeDestroyedCall \/ Cancelled

StartStep ==
    \/ \E c \in Calls, key \in Keys :
           StartAttempt("unary", c, key) \/ StartAttempt("open", c, key)
    \/ \E c \in Calls : StartNext(c) \/ StartCancel(c) \/ StartDestroy(c)
    \/ \E key \in Keys : ChannelClose(key)
    \/ Shutdown

Next ==
    StartStep \/ GetConnection \/ SubmitStep \/ SendStep \/ RecvStep \/ FinishStep

Spec == Init /\ [][Next]_vars

(***************************************************************************)
(* Fairness: the thread keeps running, a chunk holds finitely many frames, *)
(* and connection_recv looks at the deadline each time it is entered.  The *)
(* receive of a call without a deadline may wait for ever.                 *)
(***************************************************************************)
Fairness ==
    /\ WF_vars(GetConnection) /\ WF_vars(SubmitStep) /\ WF_vars(FinishStep)
    /\ WF_vars(\E s \in Streams : SendRstFrame(s) \/ CloseRefusedStream(s))
    /\ WF_vars(\E c \in Calls : RefuseStream(c))
    /\ WF_vars(SendSucceeds \/ SendFails) /\ WF_vars(GoawayDone)
    /\ SF_vars(FramesDone \/ MemRecvFails) /\ SF_vars(RecvTimesOut)

FairSpec == Spec /\ Fairness

(***************************************************************************)
(* Properties.                                                             *)
(***************************************************************************)
\* Every field of the heap and of the thread has its type.
TypeOK == heap \in Heap /\ thread \in Thread

Owners(k) == {c \in heap.connection_owned : heap.connection[c] = k}

\* register_grpc_call_stream, unregister_grpc_call_stream and the two
\* clear_..._owner functions keep the counters of an h2_connection exact:
\* stream_owner_count is the number of calls that own it, active_stream_count
\* and the active_streams list are the registered ones of these.
OwnershipInv ==
    /\ heap.stream_registered \subseteq heap.connection_owned
    /\ heap.connection_owned \subseteq heap.alloc
    /\ \A k \in Conns :
           /\ heap.stream_owner_count[k] = Cardinality(Owners(k))
           /\ heap.active_streams[k] = Owners(k) \cap heap.stream_registered
           /\ heap.active_stream_count[k] = Cardinality(heap.active_streams[k])

\* No h2_connection pointer outlives its connection: not the cache's, not that
\* of a call, not the h2 of the operation in progress (the SUCCESS half of the
\* lifetime contract of unary_call.c).  A connection is in the cache under one
\* key and not marked detached_from_cache while it is.
NoDanglingConnection ==
    /\ \A key \in Keys : heap.cache[key] # NULL =>
           /\ heap.cache[key] \in heap.live \ heap.detached_from_cache
           /\ \A other \in Keys \ {key} : heap.cache[other] # heap.cache[key]
    /\ \A c \in heap.alloc : heap.connection[c] # NULL =>
           heap.connection[c] \in heap.live /\ c \in heap.connection_owned
    /\ thread.conn # NULL => thread.conn \in heap.live

\* No connection is lost: between operations, a connection that exists is in the
\* cache or has an owner whose clear_..._owner will destroy it.
NoLeakedConnection ==
    At("idle") => \A k \in heap.live :
        Owners(k) # {} \/ \E key \in Keys : heap.cache[key] = k

\* Unusable connections do not pile up in the cache: between operations, a dead
\* or draining connection is cached only while a call still owns it.
UnusableEvicted ==
    At("idle") => \A key \in Keys :
        LET k == heap.cache[key]
        IN  k # NULL /\ ~connection_usable(heap, k) => Owners(k) # {}

\* The session and the calls agree: the user data of a stream nghttp2 still
\* holds is the registered call of that stream, and every registered call of a
\* connection that is not dead is found by its stream id.
SessionAgrees ==
    /\ \A s \in Streams : heap.user_data[s] # NULL =>
           /\ s \in heap.pending \cup heap.open
           /\ heap.user_data[s] \in heap.stream_registered
    /\ \A c \in heap.stream_registered : heap.connection[c] \notin heap.dead =>
           heap.user_data[StreamOf(heap, c)] = c

\* The lifetime invariant above h2_send_data_callback: whenever nghttp2 can still
\* ask for DATA of a stream, the grpc_call its data source points at exists and
\* is the call of that stream.  (The source of a queued request is not read if
\* the request was reset or the peer sent GOAWAY: it is closed unsent.)
SourceLifetime ==
    \A s \in heap.pending \cup heap.open :
        LET c == heap.source[s]
            unsendable == s \in heap.rst \/ (s \in heap.pending /\ s[1] \in heap.draining)
        IN  c # NULL /\ ~unsendable => c \in heap.alloc /\ StreamOf(heap, c) = s

\* Dead is terminal for every owner: no send or receive loop drives the session
\* of a dead connection, whoever killed it.
DeadNeverDriven ==
    thread.pc \in Sending \cup {"recv", "frames", "goaway"} =>
        thread.conn \in heap.live \ heap.dead

\* A kept connection carries no error text of a call that is over: cancelling
\* a timed out stream wipes last_error_detail again.
NoStaleErrorDetail ==
    At("idle") => \A k \in heap.live :
        connection_usable(heap, k) => k \notin heap.last_error_detail

\* A stream is only ever opened on a connection that the cache holds for the
\* key of the call and that is neither dead nor draining: what cached, checked
\* and preflighted connection the call got is still so when it submits.
NewStreamsOnlyOnUsable ==
    [][\A k \in Conns :
          heap'.stream_owner_count[k] > heap.stream_owner_count[k] =>
              /\ k \notin heap.dead \cup heap.draining \cup heap.detached_from_cache
              /\ heap.cache[thread.key] = k]_vars

\* An operation of a call with a deadline returns, whatever the peer, the other
\* calls on the connection and the retry loop do.
DeadlinedCallReturns == \A c \in Deadlined : thread.call = c ~> At("idle")
=============================================================================
