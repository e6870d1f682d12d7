--------------------------- MODULE ResponseStream ---------------------------
(***************************************************************************)
(* The response of one call: the HEADERS, DATA, RST_STREAM and GOAWAY that *)
(* nghttp2 hands to the callbacks of transport.c, the incremental parser   *)
(* of Length-Prefixed-Messages, the queue of decoded messages, the         *)
(* receive loops of unary_call.c and server_streaming_call.c that drain    *)
(* it, the status taxonomy of status_core.c and the transparent retry of   *)
(* wrapper_adapter.c.                                                      *)
(*                                                                         *)
(* The stream shares its connection with other calls.  Whoever runs a      *)
(* receive loop reads the frames of all of them, so the response of a      *)
(* server stream also arrives while another call is the reader.            *)
(***************************************************************************)
EXTENDS Integers, Sequences, SequencesExt

CONSTANTS
    Scripts,         \* message sequences the server may try to send
    Fields,          \* header fields the server may send after :status
    HttpStatuses,    \* values of :status
    ResetCodes,      \* error codes of a RST_STREAM from the server
    MaxChunk,        \* bytes of a DATA frame one receive can hold
    MaxReceive,      \* max_receive_message_bytes
    MaxMetadata,     \* entries max_response_metadata_bytes has room for
    MaxReadAheadMessages,
    MaxReadAheadBytes

ASSUME BoundsAssumption ==
    /\ MaxChunk \in Nat \ {0} /\ MaxReceive \in Nat /\ MaxMetadata \in Nat
    /\ MaxReadAheadMessages \in Nat \ {0} /\ MaxReadAheadBytes \in Nat \ {0}

VARIABLES
    call,      \* the grpc_call of the current attempt
    session,   \* the connection and its nghttp2 stream
    thread,    \* where the PHP thread is
    peer,      \* what the server has still to send
    app        \* what userland asked for and was given

vars == <<call, session, thread, peer, app>>

(***************************************************************************)
(* A message is [flag, payload].  On the wire it is a flag byte, a four    *)
(* byte big-endian length and the payload.                                 *)
(***************************************************************************)
Frame(m) == <<m.flag, 0, 0, 0, Len(m.payload)>> \o m.payload
Encode(messages) == FlattenSeq([i \in DOMAIN messages |-> Frame(messages[i])])
Plain(payloads) == [i \in DOMAIN payloads |-> [flag |-> 0, payload |-> payloads[i]]]

(***************************************************************************)
(* The grpc_call.  "flags" is the set of its boolean members that are set. *)
(***************************************************************************)
Codes == {"OK", "CANCELLED", "UNKNOWN", "DEADLINE_EXCEEDED", "NOT_FOUND",
          "PERMISSION_DENIED", "RESOURCE_EXHAUSTED", "UNIMPLEMENTED",
          "INTERNAL", "UNAVAILABLE", "UNAUTHENTICATED"}
NoStatus == "none"     \* grpc_status = -1
NoMessage == <<-1>>    \* response_payload = NULL

Policy == {"response_message_too_large", "compressed_response_seen",
           "malformed_response_frame", "invalid_content_type",
           "unsupported_response_encoding", "metadata_too_large",
           "response_queue_limit_exceeded"}
Flags == Policy \cup
    {"timed_out", "locally_cancelled", "connection_broken", "stream_closed",
     "stream_refused_seen", "stream_reset_seen", "grpc_status_seen",
     "initial_grpc_status_seen", "invalid_grpc_status", "grpc_message",
     "content_type_seen", "initial_headers_end_stream",
     "trailing_headers_seen", "discard_response_body"}

NewCall(attempt, max_messages) ==
    [retry_attempt |-> attempt, max_response_messages |-> max_messages,
     completed |-> FALSE, flags |-> {}, grpc_status |-> NoStatus,
     http_status |-> -1, grpc_encoding |-> "none", stream_error_code |-> "NO_ERROR",
     initial_metadata |-> 0, trailing_metadata |-> 0,
     header |-> <<>>, payload_len |-> 0, payload |-> NoMessage,
     message_count |-> 0, queue |-> <<>>]

Has(c, flag) == flag \in c.flags
Raise(c, flags) == [c EXCEPT !.flags = @ \cup flags]

(***************************************************************************)
(* status_core.c                                                           *)
(***************************************************************************)
HttpCode(http) ==
    CASE http = 400 -> "INTERNAL"
      [] http = 401 -> "UNAUTHENTICATED"
      [] http = 403 -> "PERMISSION_DENIED"
      [] http = 404 -> "UNIMPLEMENTED"
      [] http \in {429, 502, 503, 504} \/ http < 0 -> "UNAVAILABLE"
      [] OTHER -> "UNKNOWN"

ResetCode(code) ==
    CASE code = "CANCEL" -> "CANCELLED"
      [] code = "REFUSED_STREAM" -> "UNAVAILABLE"
      [] code = "ENHANCE_YOUR_CALM" -> "RESOURCE_EXHAUSTED"
      [] code = "INADEQUATE_SECURITY" -> "PERMISSION_DENIED"
      [] code = "UNASSIGNED" -> "UNKNOWN"
      [] OTHER -> "INTERNAL"

\* The result of the first of the rules <<condition, result>> that applies.
FirstOf(rules) ==
    rules[CHOOSE i \in DOMAIN rules :
              rules[i][1] /\ \A j \in 1 .. i - 1 : ~rules[j][1]][2]

\* The early returns of grpc_lite_status_code_from_call, in their order.
StatusRules(c, cancelled) ==
    LET any(flags) == c.flags \cap flags # {}
    IN  << <<any({"timed_out"}), "DEADLINE_EXCEEDED">>,
           <<cancelled, "CANCELLED">>,
           <<any({"invalid_grpc_status"}), "UNKNOWN">>,
           <<c.grpc_status = NoStatus /\ c.http_status # 200, HttpCode(c.http_status)>>,
           <<any({"invalid_content_type"}), "UNKNOWN">>,
           <<any({"response_message_too_large", "metadata_too_large",
                  "response_queue_limit_exceeded"}), "RESOURCE_EXHAUSTED">>,
           <<any({"malformed_response_frame", "compressed_response_seen",
                  "unsupported_response_encoding"}), "INTERNAL">>,
           <<c.grpc_status # NoStatus, c.grpc_status>>,
           <<any({"stream_refused_seen"}), "UNAVAILABLE">>,
           <<any({"stream_reset_seen"}), ResetCode(c.stream_error_code)>>,
           <<any({"connection_broken"}), "UNAVAILABLE">>,
           <<any({"stream_closed"}) /\ c.stream_error_code = "NO_ERROR"
               /\ c.http_status = 200
               /\ ~any({"initial_headers_end_stream", "trailing_headers_seen"}),
             "INTERNAL">>,
           <<TRUE, "UNKNOWN">> >>

grpc_lite_status_code_from_call(c, cancelled) == FirstOf(StatusRules(c, cancelled))

\* Mutant: only messages count as a response.
MutantResponseStartedByMessage(c) ==
    c.message_count > 0 \/ c.queue # <<>> \/ c.header # <<>> \/ c.payload # NoMessage

grpc_lite_call_response_started(c) ==
    \/ c.http_status >= 0 \/ c.initial_metadata + c.trailing_metadata > 0
    \/ c.grpc_status # NoStatus
    \/ c.flags \cap {"grpc_status_seen", "initial_grpc_status_seen",
                     "metadata_too_large", "content_type_seen",
                     "invalid_content_type", "unsupported_response_encoding",
                     "invalid_grpc_status", "response_queue_limit_exceeded",
                     "grpc_message"} # {}
    \/ c.message_count > 0 \/ c.queue # <<>>
    \/ c.header # <<>> \/ c.payload_len # 0 \/ c.payload # NoMessage

\* transparent_retryable_unprocessed of grpc_lite_attempt_outcome_from_call.
transparent_retryable_unprocessed(c, observed) ==
    /\ \/ Has(c, "stream_refused_seen")
       \/ Has(c, "stream_reset_seen") /\ c.stream_error_code = "REFUSED_STREAM"
    /\ c.retry_attempt = 0
    /\ ~grpc_lite_call_response_started(c)
    /\ ~observed

(***************************************************************************)
(* on_header_callback: one header field of a block of category cat.        *)
(***************************************************************************)
\* Mutant: one entry more than fits.
MutantOverflowsLate(c) ==
    Has(c, "metadata_too_large") \/ c.initial_metadata + c.trailing_metadata > MaxMetadata

\* A field that does not fit is dropped, and the stream reset.
Overflows(c) ==
    Has(c, "metadata_too_large") \/ c.initial_metadata + c.trailing_metadata >= MaxMetadata

AddMetadata(c, trailing) ==
    IF Overflows(c) THEN Raise(c, {"metadata_too_large", "discard_response_body"})
    ELSE IF trailing THEN [c EXCEPT !.trailing_metadata = @ + 1]
    ELSE [c EXCEPT !.initial_metadata = @ + 1]

\* Mutant: entries seen before grpc-status stay initial metadata.
MutantKeepInitial(c) == c

mark_response_metadata_as_trailing(c) ==
    [c EXCEPT !.trailing_metadata = @ + c.initial_metadata, !.initial_metadata = 0]

\* grpc-status: value is the code, or NoStatus if it is not a number.
GrpcStatusField(c, cat, value) ==
    LET seen == [Raise(c, {"grpc_status_seen"}) EXCEPT !.grpc_status = value]
        flagged == IF Has(c, "grpc_status_seen") \/ value = NoStatus
                   THEN Raise(seen, {"invalid_grpc_status"}) ELSE seen
    IN  IF cat = "response"
        THEN mark_response_metadata_as_trailing(Raise(flagged, {"initial_grpc_status_seen"}))
        ELSE flagged

InitialStatusSeen(c, cat) ==
    IF cat = "response" THEN Raise(c, {"initial_grpc_status_seen"}) ELSE c

on_header_callback(c, cat, f) ==
    LET trailing == cat # "response" \/ c.grpc_status # NoStatus
    IN  CASE f.name = "grpc-status" -> GrpcStatusField(c, cat, f.value)
          [] f.name = "grpc-message" -> InitialStatusSeen(Raise(c, {"grpc_message"}), cat)
          [] f.name = "grpc-status-details-bin" ->
                 AddMetadata(InitialStatusSeen(c, cat), TRUE)
          [] f.name = "content-type" ->
                 AddMetadata(Raise(c, IF f.value = "application/grpc"
                                      THEN {"content_type_seen"}
                                      ELSE {"content_type_seen", "invalid_content_type",
                                            "discard_response_body"}), trailing)
          [] f.name = "grpc-encoding" ->
                 AddMetadata([c EXCEPT !.grpc_encoding = f.value], trailing)
          [] f.name = "custom" -> AddMetadata(c, trailing)

(***************************************************************************)
(* on_frame_recv_callback for a complete HEADERS frame.                    *)
(***************************************************************************)
HeadersComplete(c, cat, end_stream) ==
    LET ended == IF end_stream THEN Raise(c, {"initial_headers_end_stream"}) ELSE c
        untyped == /\ ~Has(c, "content_type_seen")
                   /\ ~(Has(c, "grpc_status_seen") /\ end_stream)
        typed == IF untyped
                 THEN Raise(ended, {"invalid_content_type", "discard_response_body"})
                 ELSE ended
    IN  IF cat = "trailers"
        THEN IF end_stream THEN Raise(c, {"trailing_headers_seen"}) ELSE c
        ELSE IF Has(c, "initial_grpc_status_seen") /\ ~end_stream
             THEN Raise(typed, {"invalid_grpc_status", "discard_response_body"})
             ELSE typed
(***************************************************************************)
(* grpc_protocol_process_response_data_direct: the incremental parser.     *)
(***************************************************************************)
unary(c) == c.max_response_messages = 1

QueueBytes(c) == Len(FlattenSeq(c.queue))

server_streaming_read_ahead_limit_would_exceed(c, len, reader) ==
    /\ reader = "other"
    /\ \/ Len(c.queue) >= MaxReadAheadMessages
       \/ len > MaxReadAheadBytes
       \/ QueueBytes(c) > MaxReadAheadBytes - len

Reject(c, flag) ==
    [Raise(c, {flag, "discard_response_body"}) EXCEPT !.header = <<>>, !.payload_len = 0]

\* Mutant: the limit is only looked at when a message begins.
MutantEnqueueUnchecked(c, payload, reader) == [c EXCEPT !.queue = Append(@, payload)]

enqueue_response_payload(c, payload, reader) ==
    IF server_streaming_read_ahead_limit_would_exceed(c, Len(payload), reader)
    THEN Reject(c, "response_queue_limit_exceeded")
    ELSE [c EXCEPT !.queue = Append(@, payload)]

\* What is wrong with the message whose header is complete, if anything.
HeaderVerdict(c, len, reader) ==
    LET declared == c.grpc_encoding \notin {"none", "identity"}
    IN  FirstOf(<< <<unary(c) /\ c.message_count > 1, "malformed_response_frame">>,
                   <<len > MaxReceive, "response_message_too_large">>,
                   <<c.header[1] > 1, "malformed_response_frame">>,
                   <<c.header[1] = 1 /\ declared, "unsupported_response_encoding">>,
                   <<c.header[1] = 1, "compressed_response_seen">>,
                   <<server_streaming_read_ahead_limit_would_exceed(c, len, reader),
                     "response_queue_limit_exceeded">>,
                   <<TRUE, "none">> >>)

OpenMessage(c, reader) ==
    LET len == 2^24 * c.header[2] + 2^16 * c.header[3] + 2^8 * c.header[4] + c.header[5]
        counted == IF unary(c) THEN [c EXCEPT !.message_count = @ + 1] ELSE c
        verdict == HeaderVerdict(counted, len, reader)
    IN  IF verdict # "none" THEN Reject(counted, verdict)
        ELSE [counted EXCEPT !.payload_len = len, !.payload = <<>>]

Smaller(a, b) == IF a < b THEN a ELSE b
Drop(s, n) == SubSeq(s, n + 1, Len(s))

\* Mutant: response_header_len is not reset at the end of a message.
MutantTakePayload(c, bytes, reader) ==
    LET k == Smaller(c.payload_len - Len(c.payload), Len(bytes))
        got == c.payload \o SubSeq(bytes, 1, k)
    IN  IF Len(got) < c.payload_len THEN [c EXCEPT !.payload = got]
        ELSE enqueue_response_payload(
                 [c EXCEPT !.payload = NoMessage, !.payload_len = 0], got, reader)

\* Payload bytes up to the end of the message or of the chunk.
TakePayload(c, bytes, reader) ==
    LET k == Smaller(c.payload_len - Len(c.payload), Len(bytes))
        got == c.payload \o SubSeq(bytes, 1, k)
    IN  IF Len(got) < c.payload_len THEN [c EXCEPT !.payload = got]
        ELSE enqueue_response_payload(
                 [c EXCEPT !.header = <<>>, !.payload_len = 0, !.payload = NoMessage],
                 got, reader)

\* One round of the parser's loop over a chunk: the call after it, how many bytes
\* it used, and whether it rejected a message, which ends the loop.
ParseRound(c, chunk, reader) ==
    LET head == Smaller(5 - Len(c.header), Len(chunk))
        read == [c EXCEPT !.header = @ \o SubSeq(chunk, 1, head)]
        opened == IF Len(c.header) < 5 /\ Len(read.header) = 5
                  THEN OpenMessage(read, reader) ELSE read
        body == Drop(chunk, head)
        used == head + Smaller(opened.payload_len - Len(opened.payload), Len(body))
    IN  IF opened.payload = NoMessage
        THEN [call |-> opened, used |-> head, stop |-> Len(read.header) = 5]
        ELSE [call |-> TakePayload(opened, body, reader), used |-> used, stop |-> FALSE]

(***************************************************************************)
(* Types and the initial state.                                            *)
(***************************************************************************)
PCs == {"open", "send", "idle", "loop", "recv", "frames", "headers", "parse",
        "result", "pull", "status", "ended"}
Readers == {"open", "self", "other"}
Final == Codes \cup {"EXCEPTION"}

NewSession == [alive |-> TRUE, open |-> TRUE, rst |-> "no",
               local_end |-> FALSE, remote_end |-> FALSE]
NewThread == [pc |-> "open", reader |-> "open", cat |-> "response", chunk |-> <<>>]
NewPeer(script) == [script |-> script, wire |-> Encode(script),
                    stage |-> "headers", heard |-> FALSE]

\* A unary call admits one response message, a server stream any number (0).
Init ==
    \E max_messages \in {0, 1}, script \in Scripts :
        /\ call = NewCall(0, max_messages)
        /\ session = NewSession
        /\ thread = NewThread
        /\ peer = NewPeer(script)
        /\ app = [delivered |-> <<>>, status |-> "pending"]

At(pc) == thread.pc = pc
Goto(pc) == thread' = [thread EXCEPT !.pc = pc]
Finish(code) == app' = [app EXCEPT !.status = code] /\ Goto("ended")
Closed(c, code) == [Raise(c, {"stream_closed"}) EXCEPT !.stream_error_code = code]
Completed(c) == [c EXCEPT !.completed = TRUE]
Dead == session' = [session EXCEPT !.alive = FALSE]

(***************************************************************************)
(* Opening an attempt.  Getting a connection and submitting the request    *)
(* may fail: a status, or an exception (invalid metadata, and a fatal      *)
(* submit of a unary call).                                                *)
(***************************************************************************)
OpenFails ==
    /\ At("open")
    /\ \E code \in {"UNAVAILABLE", "DEADLINE_EXCEEDED", "EXCEPTION"} : Finish(code)
    /\ UNCHANGED <<call, session, peer>>

OpenAttempt ==
    /\ At("open") /\ Goto("send")
    /\ UNCHANGED <<call, session, peer, app>>

(***************************************************************************)
(* send_pending_h2_frames: RST_STREAM if one was submitted, else request   *)
(* DATA, all of it or as much as flow control admits.                      *)
(***************************************************************************)
AfterSend ==
    CASE thread.reader = "other" -> "idle"
      [] thread.reader = "open" /\ ~unary(call) /\ call.retry_attempt = 0 -> "idle"
      [] OTHER -> "loop"

SendSucceeds(all_sent) ==
    LET ends == session.local_end \/ (all_sent /\ session.rst = "no")
        closes == session.open /\ (session.rst # "no" \/ (ends /\ session.remote_end))
    IN  /\ At("send")
        /\ session' = [session EXCEPT !.local_end = ends, !.rst = "no",
                                      !.open = @ /\ ~closes]
        /\ call' = IF closes
                   THEN Closed(call, IF session.rst = "no" THEN "NO_ERROR" ELSE session.rst)
                   ELSE call
        /\ Goto(AfterSend)
        /\ UNCHANGED <<peer, app>>

\* The connection is dead.  A stream that was being opened ends with a setup
\* failure; the others note a broken connection, or that the deadline passed.
SendFails ==
    /\ At("send") /\ Dead
    /\ \E why \in {"connection_broken", "timed_out"} :
           IF thread.reader = "other"
           THEN Goto("idle") /\ UNCHANGED <<call, app>>
           ELSE IF thread.reader = "open" /\ ~unary(call)
           THEN /\ Finish(IF why = "timed_out" THEN "DEADLINE_EXCEEDED" ELSE "UNAVAILABLE")
                /\ UNCHANGED call
           ELSE /\ call' = Completed(Raise(call, {why}))
                /\ Goto("result") /\ UNCHANGED app
    /\ UNCHANGED peer

(***************************************************************************)
(* cancel_grpc_call_stream: RST_STREAM closes the stream, or the flush     *)
(* fails and the connection is dead.                                       *)
(***************************************************************************)
CancelStream(c) ==
    LET cancellable == session.alive /\ ~Has(c, "stream_closed")
        cancelled == Raise(c, {"locally_cancelled"})
    IN  \/ /\ cancellable
           /\ call' = Closed(cancelled, "CANCEL")
           /\ session' = [session EXCEPT !.open = FALSE, !.rst = "no"]
        \/ cancellable /\ call' = cancelled /\ Dead
        \/ ~cancellable /\ call' = c /\ UNCHANGED session

(***************************************************************************)
(* The receive loops.                                                      *)
(***************************************************************************)
StartNext ==
    /\ At("idle") /\ Goto("loop")
    /\ UNCHANGED <<call, session, peer, app>>

LoopExits ==
    \/ Has(call, "stream_closed")
    \/ ~unary(call) /\ (call.queue # <<>> \/ call.completed \/ call.flags \cap Policy # {})

LeaveLoop ==
    /\ At("loop") /\ LoopExits /\ Goto("result")
    /\ UNCHANGED <<call, session, peer, app>>

\* Another owner killed the connection between two pulls.
FindDead ==
    /\ At("loop") /\ ~LoopExits /\ ~session.alive
    /\ call' = Completed(Raise(call, {"connection_broken"}))
    /\ Goto("result")
    /\ UNCHANGED <<session, peer, app>>

EnterRecv ==
    /\ At("loop") /\ ~LoopExits /\ session.alive
    /\ thread' = [thread EXCEPT !.pc = "recv", !.reader = "self"]
    /\ UNCHANGED <<call, session, peer, app>>

\* The deadline has passed, at the head of the loop of next or in connection_recv.
TimesOut ==
    /\ At("recv")
    /\ CancelStream(Completed(Raise(call, {"timed_out"})))
    /\ Goto("result")
    /\ UNCHANGED <<peer, app>>

\* EOF or a socket error.
RecvFails ==
    /\ At("recv") /\ Dead
    /\ call' = Completed(Raise(call, {"connection_broken"}))
    /\ Goto("result")
    /\ UNCHANGED <<peer, app>>

RecvBytes ==
    /\ At("recv") /\ Goto("frames")
    /\ UNCHANGED <<call, session, peer, app>>

\* Another call on the connection receives; userland is not in next.
OtherReads ==
    /\ At("idle") /\ session.alive /\ session.open
    /\ thread' = [thread EXCEPT !.pc = "frames", !.reader = "other"]
    /\ UNCHANGED <<call, session, peer, app>>

FramesDone ==
    /\ At("frames") /\ Goto("send")
    /\ UNCHANGED <<call, session, peer, app>>

\* nghttp2_session_mem_recv fails.  If this call is the reader, a unary call
\* throws and a server stream ends without noting a broken connection.
MemRecvFails ==
    /\ At("frames") /\ Dead
    /\ \/ thread.reader = "other" /\ Goto("idle") /\ UNCHANGED <<call, app>>
       \/ thread.reader # "other" /\ unary(call) /\ Finish("EXCEPTION") /\ UNCHANGED call
       \/ /\ thread.reader # "other" /\ ~unary(call)
          /\ call' = Completed(call) /\ Goto("result") /\ UNCHANGED app
    /\ UNCHANGED peer

(***************************************************************************)
(* The frames of the stream.  A stream that is being reset may still get   *)
(* the rest of a frame that nghttp2 had begun to deliver.                  *)
(***************************************************************************)
Receiving(stage) == At("frames") /\ session.open /\ peer.stage = stage

\* Of several RST_STREAM submitted for a stream the first is sent.
SubmitRstIf(condition, code) ==
    session' = [session EXCEPT !.rst = IF condition /\ @ = "no" THEN code ELSE @]

Heard(stage) == peer' = [peer EXCEPT !.stage = stage, !.heard = TRUE]

\* nghttp2 insists on :status as the first field of a response.
RecvResponseHeaders(http) ==
    /\ Receiving("headers") /\ session.rst = "no"
    /\ call' = [call EXCEPT !.http_status = http]
    /\ thread' = [thread EXCEPT !.pc = "headers", !.cat = "response"]
    /\ Heard("body")
    /\ UNCHANGED <<session, app>>

RecvTrailers ==
    /\ Receiving("body") /\ session.rst = "no"
    /\ thread' = [thread EXCEPT !.pc = "headers", !.cat = "trailers"]
    /\ UNCHANGED <<call, session, peer, app>>

RecvField(f) ==
    /\ At("headers")
    /\ call' = on_header_callback(call, thread.cat, f)
    /\ SubmitRstIf(Has(call', "metadata_too_large"), "CANCEL")
    /\ Heard(peer.stage)
    /\ UNCHANGED <<thread, app>>

\* The server ends its side: the stream is closed if ours has ended too.
EndRemote(c) ==
    /\ call' = IF session.local_end THEN Closed(c, "NO_ERROR") ELSE c
    /\ session' = [session EXCEPT !.remote_end = TRUE, !.open = ~session.local_end]

\* Trailers without END_STREAM never reach on_frame_recv_callback: nghttp2 resets
\* the stream, although the fields have been delivered.
HeadersDone(end_stream) ==
    LET c == HeadersComplete(call, thread.cat, end_stream)
    IN  /\ At("headers") /\ Goto("frames")
        /\ \/ end_stream /\ EndRemote(c) /\ Heard("ended")
           \/ ~end_stream /\ thread.cat = "response" /\ call' = c /\ UNCHANGED <<session, peer>>
           \/ /\ ~end_stream /\ thread.cat = "trailers"
              /\ SubmitRstIf(TRUE, "PROTOCOL_ERROR")
              /\ Heard("ended") /\ UNCHANGED call
        /\ UNCHANGED app

\* on_data_chunk_recv_callback, up to the loop of the parser.
RecvData(n) ==
    LET late == Has(call, "grpc_status_seen")
    IN  /\ Receiving("body") /\ n \in 1 .. Len(peer.wire)
        /\ peer' = [peer EXCEPT !.wire = Drop(@, n), !.heard = TRUE]
        /\ call' = IF late
                   THEN Raise(call, {"invalid_grpc_status", "discard_response_body"})
                   ELSE call
        /\ SubmitRstIf(late, "CANCEL")
        /\ thread' = IF late \/ Has(call, "discard_response_body") THEN thread
                     ELSE [thread EXCEPT !.pc = "parse", !.chunk = SubSeq(peer.wire, 1, n)]
        /\ UNCHANGED app

Parse ==
    LET round == ParseRound(call, thread.chunk, thread.reader)
        rest == IF round.stop THEN <<>> ELSE Drop(thread.chunk, round.used)
    IN  /\ At("parse")
        /\ call' = round.call
        /\ SubmitRstIf(round.call.flags \cap Policy # {}, "CANCEL")
        /\ thread' = [thread EXCEPT !.chunk = rest,
                                    !.pc = IF rest = <<>> THEN "frames" ELSE "parse"]
        /\ UNCHANGED <<peer, app>>

RecvDataEndStream ==
    /\ Receiving("body") /\ session.rst = "no"
    /\ EndRemote(call) /\ Heard("ended")
    /\ UNCHANGED <<thread, app>>

RecvRst(code) ==
    /\ At("frames") /\ session.open
    /\ call' = Closed(Raise(call, {"stream_reset_seen"}), code)
    /\ session' = [session EXCEPT !.open = FALSE, !.rst = "no"]
    /\ peer' = [peer EXCEPT !.stage = "ended"]
    /\ UNCHANGED <<thread, app>>

\* Only a server that has not yet seen the SETTINGS of this client can push.
RecvPushPromise ==
    /\ At("frames") /\ session.open /\ session.rst = "no" /\ ~session.remote_end
    /\ call' = Raise(call, {"malformed_response_frame", "discard_response_body"})
    /\ SubmitRstIf(TRUE, "PROTOCOL_ERROR")
    /\ UNCHANGED <<thread, peer, app>>

\* GOAWAY with a last_stream_id below this stream.
RecvGoaway ==
    /\ At("frames") /\ session.open
    /\ call' = Closed(Raise(call, {"stream_refused_seen"}), "REFUSED_STREAM")
    /\ session' = [session EXCEPT !.open = FALSE, !.rst = "no"]
    /\ peer' = [peer EXCEPT !.stage = "ended"]
    /\ UNCHANGED <<thread, app>>

(***************************************************************************)
(* The result of a pull or of a unary call, and the transparent retry.     *)
(***************************************************************************)
\* Mutant: the queued messages of a terminated stream survive.
MutantTerminateKeepsQueue ==
    /\ At("result") /\ ~unary(call) /\ call.flags \cap Policy # {}
    /\ CancelStream(Completed(call))
    /\ Goto("pull")
    /\ UNCHANGED <<peer, app>>

\* server_streaming_call_terminate_with_cancel: no queued message survives.
Terminate ==
    /\ At("result") /\ ~unary(call) /\ call.flags \cap Policy # {}
    /\ CancelStream([Completed(call) EXCEPT !.queue = <<>>])
    /\ Goto("pull")
    /\ UNCHANGED <<peer, app>>

Pulling ==
    At("pull") \/ (At("result") /\ ~unary(call) /\ call.flags \cap Policy = {})

\* Mutant: the newest message is taken from the queue.
MutantDeliverNewest ==
    /\ Pulling /\ call.queue # <<>>
    /\ app' = [app EXCEPT !.delivered = Append(@, Last(call.queue))]
    /\ call' = [call EXCEPT !.queue = Front(@)]
    /\ Goto("idle")
    /\ UNCHANGED <<session, peer>>

Deliver ==
    /\ Pulling /\ call.queue # <<>>
    /\ app' = [app EXCEPT !.delivered = Append(@, Head(call.queue))]
    /\ call' = [call EXCEPT !.queue = Tail(@)]
    /\ Goto("idle")
    /\ UNCHANGED <<session, peer>>

NothingQueued ==
    /\ (Pulling /\ call.queue = <<>>) \/ (At("result") /\ unary(call))
    /\ Goto("status")
    /\ UNCHANGED <<call, session, peer, app>>

\* Mutant: a stream that ends in a message header is not truncated.
MutantTruncatedPayload(c) ==
    c.payload # NoMessage /\ ~Has(c, "stream_reset_seen") /\ ~Has(c, "connection_broken")

\* The stream ended cleanly inside a message.
Truncated(c) ==
    LET excused == {"response_message_too_large", "compressed_response_seen",
                    "stream_reset_seen", "locally_cancelled"}
    IN  /\ c.header # <<>> \/ c.payload # NoMessage
        /\ c.flags \cap excused = {}
        /\ IF unary(c) THEN Has(c, "stream_closed") ELSE ~Has(c, "connection_broken")

CheckTruncated(c) ==
    IF Truncated(c) THEN Raise(c, {"malformed_response_frame"}) ELSE c

\* A refused first attempt without any response is made again, unseen by userland.
RetryAttempt ==
    /\ At("status")
    /\ transparent_retryable_unprocessed(CheckTruncated(call), app.delivered # <<>>)
    /\ call' = NewCall(1, call.max_response_messages)
    /\ session' = NewSession /\ thread' = NewThread
    /\ peer' = NewPeer(peer.script)
    /\ UNCHANGED app

\* A unary call hands over its message with the status, if that is OK.
FinalStatus ==
    LET c == CheckTruncated(call)
        code == grpc_lite_status_code_from_call(c, FALSE)
    IN  /\ At("status")
        /\ ~transparent_retryable_unprocessed(c, app.delivered # <<>>)
        /\ call' = c
        /\ app' = [status |-> code,
                   delivered |-> IF unary(c) /\ code = "OK" /\ c.queue # <<>>
                                 THEN <<Head(c.queue)>> ELSE app.delivered]
        /\ Goto("ended")
        /\ UNCHANGED <<session, peer>>

\* Call::cancel on a server stream between two pulls: every later batch answers
\* CANCELLED, whatever became of the stream.
Cancel ==
    /\ At("idle")
    /\ IF ~call.completed /\ session.alive
       THEN CancelStream([Completed(call) EXCEPT !.queue = <<>>, !.grpc_status = "CANCELLED"])
       ELSE UNCHANGED <<call, session>>
    /\ Finish("CANCELLED")
    /\ UNCHANGED peer

(***************************************************************************)
(* The specification.                                                      *)
(***************************************************************************)
OpenStep == OpenFails \/ OpenAttempt

SendStep == (\E all_sent \in BOOLEAN : SendSucceeds(all_sent)) \/ SendFails

LoopStep ==
    \/ StartNext \/ LeaveLoop \/ FindDead \/ EnterRecv \/ TimesOut \/ RecvFails
    \/ RecvBytes \/ OtherReads \/ FramesDone \/ MemRecvFails

FrameStep ==
    \/ \E http \in HttpStatuses : RecvResponseHeaders(http)
    \/ \E f \in Fields : RecvField(f)
    \/ \E end_stream \in BOOLEAN : HeadersDone(end_stream)
    \/ \E n \in 1 .. MaxChunk : RecvData(n)
    \/ \E code \in ResetCodes : RecvRst(code)
    \/ RecvTrailers \/ Parse \/ RecvDataEndStream \/ RecvPushPromise \/ RecvGoaway

ResultStep ==
    Terminate \/ Deliver \/ NothingQueued \/ RetryAttempt \/ FinalStatus \/ Cancel

\* The call object has its status; startBatch only repeats it.
Answered == At("ended") /\ UNCHANGED vars

Next == OpenStep \/ SendStep \/ LoopStep \/ FrameStep \/ ResultStep \/ Answered

Spec == Init /\ [][Next]_vars

(***************************************************************************)
(* Properties.                                                             *)
(***************************************************************************)
Bytes == Seq(0 .. 255)

\* Every variable has its type; a call is retried at most once.
TypeOK ==
    /\ call.retry_attempt \in {0, 1} /\ call.max_response_messages \in {0, 1}
    /\ call.flags \subseteq Flags /\ call.completed \in BOOLEAN
    /\ call.grpc_status \in Codes \cup {NoStatus}
    /\ call.http_status \in HttpStatuses \cup {-1}
    /\ call.grpc_encoding \in {"none", "identity", "gzip"}
    /\ call.stream_error_code \in
           ResetCodes \cup {"NO_ERROR", "CANCEL", "REFUSED_STREAM", "PROTOCOL_ERROR"}
    /\ call.initial_metadata + call.trailing_metadata \in 0 .. MaxMetadata
    /\ call.header \in Bytes /\ Len(call.header) <= 5
    /\ call.payload_len \in 0 .. MaxReceive
    /\ call.payload # NoMessage =>
           call.payload \in Bytes /\ Len(call.payload) <= call.payload_len
    /\ call.message_count \in 0 .. 2 /\ call.queue \in Seq(Bytes)
    /\ session \in [alive : BOOLEAN, open : BOOLEAN,
                     rst : {"no", "CANCEL", "PROTOCOL_ERROR"},
                     local_end : BOOLEAN, remote_end : BOOLEAN]
    /\ thread \in [pc : PCs, reader : Readers, cat : {"response", "trailers"},
                    chunk : Bytes]
    /\ peer.script \in Scripts /\ peer.wire \in Bytes /\ peer.heard \in BOOLEAN
    /\ peer.stage \in {"headers", "body", "ended"}
    /\ app.delivered \in Seq(Bytes) /\ app.status \in Final \cup {"pending"}

\* The response bytes received on the current attempt.
Received ==
    LET all == Encode(peer.script)
    IN  SubSeq(all, 1, Len(all) - Len(peer.wire))

\* The parser loses, repeats and reorders nothing, however the bytes are cut into
\* chunks and whoever receives them: the messages given to userland, the queue,
\* the message in progress and the rest of the chunk are the bytes received,
\* until a rule is broken or the call is over.
ParserExact ==
    ~Has(call, "discard_response_body") /\ app.status = "pending" =>
        Received = Encode(Plain(app.delivered \o call.queue)) \o call.header
                   \o (IF call.payload = NoMessage THEN <<>> ELSE call.payload)
                   \o thread.chunk

\* A wire status OK is passed on only for a response that was received whole and
\* given to userland in full, on a stream that neither the server reset nor a
\* broken connection cut off.
OkMeansWhole ==
    /\ app.status = "OK"
    /\ ~Has(call, "stream_reset_seen") /\ ~Has(call, "connection_broken")
    => Received = Encode(Plain(app.delivered))

\* The metadata of a Trailers-Only response is trailing metadata, whether it came
\* before or after grpc-status.
TrailersOnlyMetadata ==
    /\ Has(call, "initial_headers_end_stream") /\ Has(call, "grpc_status_seen")
    /\ ~Has(call, "invalid_grpc_status")
    => call.initial_metadata = 0

\* The transparent retry is invisible and safe: the attempt it replaces was
\* refused, and neither a header field nor a byte of a response had arrived.
RetryOnlyUnprocessed ==
    [][call'.retry_attempt > call.retry_attempt =>
          /\ ~peer.heard /\ app.delivered = <<>>
          /\ call.stream_error_code = "REFUSED_STREAM"]_vars

\* A slow consumer's queue is bounded: it does not grow past the read-ahead limits
\* while another call is the reader, even if the message began before that.
ReadAheadBounded ==
    [][Len(call'.queue) > Len(call.queue) /\ thread.reader = "other" =>
          /\ Len(call'.queue) <= MaxReadAheadMessages
          /\ QueueBytes(call') <= MaxReadAheadBytes]_vars

\* A response that has broken a rule delivers no further message, not even one
\* that was decoded before.
NoMessageAfterViolation ==
    [][call.flags \cap Policy # {} => app'.delivered = app.delivered]_vars

\* The messages that may reach userland: the plain ones within the size limit
\* that come before any other, and of a unary call only the first.
Deliverable ==
    LET good(i) == peer.script[i].flag = 0 /\ Len(peer.script[i].payload) <= MaxReceive
        limit == IF unary(call) THEN 1 ELSE Len(peer.script)
        lengths == {n \in 0 .. Smaller(limit, Len(peer.script)) : \A i \in 1 .. n : good(i)}
    IN  [i \in 1 .. Max(lengths) |-> peer.script[i].payload]

Contract == INSTANCE CallContract WITH
    messages <- Deliverable, delivered <- app.delivered, status <- app.status

\* What the PHP application sees of a call, retries, other readers and chunks
\* included, is a behaviour of CallContract.
MeetsContract == Contract!Spec

\* Stated in grpc_lite_perform_call_unary: framing errors surface as INTERNAL,
\* so a unary call whose trailers came in and that is OK has received nothing but
\* whole messages.
FramingErrorsSurface ==
    unary(call) /\ Has(call, "trailing_headers_seen") /\ app.status = "OK" =>
        Received = Encode(Plain(app.delivered))

\* Stated in http2-transport-design.md: a stream with an invalid content-type is
\* reset, so no receive loop goes on waiting for it.
InvalidContentTypeReset == At("recv") => ~Has(call, "invalid_content_type")

\* Stated in http2-transport-design.md: a message with the compressed flag ends
\* the call with UNIMPLEMENTED, so not with INTERNAL.
CompressedIsUnimplemented ==
    app.status = "INTERNAL" =>
        call.flags \cap {"compressed_response_seen", "unsupported_response_encoding"} = {}
=============================================================================
