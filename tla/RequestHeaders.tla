--------------------------- MODULE RequestHeaders ---------------------------
(***************************************************************************)
(* The request headers of one call: the array that grows while they are    *)
(* appended, the metadata of the application, the grpc-timeout that is     *)
(* computed anew for a transparent retry, and the metadata map that the    *)
(* application gets when the peer sends its metadata back.                 *)
(*                                                                         *)
(* A metadata key stands for a class of names, a value for a class of PHP  *)
(* values.  The array is modelled by its length, its capacity and what was *)
(* written; the time that passes between two steps is Tick.                *)
(***************************************************************************)
EXTENDS Timeouts, SequencesExt

CONSTANTS
    Metadata,       \* the metadata arrays of the application
    UserAgents,     \* grpc.primary_user_agent, "" when there is none
    TimeoutArgs,    \* what the application adds to Timeval::now()
    MaxTime,        \* bound on the clock
    InlineCapacity, \* GRPC_LITE_REQUEST_HEADERS_INLINE_CAPACITY
    MaxMetadata     \* GRPC_LITE_MAX_REQUEST_METADATA_VALUES

\* "malformed": no string key, an empty one, a pseudo header or a character
\* that is_valid_custom_request_header_name_char refuses.
Keys == {"plain", "data-bin", "user-agent", "reserved", "malformed"}

\* "bytes": a string that is not printable ASCII.  "comma": one with a comma.
Values == {"text", "comma", "bytes", "not a string"}

ASSUME HeaderAssumption ==
    /\ Metadata \subseteq Seq([key: Keys, values: Seq(Values)])
    /\ TimeoutArgs \subseteq Long
    /\ MaxTime \in 1 .. LongMax
    /\ InlineCapacity \in Nat \ {0} /\ MaxMetadata \in Nat

VARIABLES
    call,           \* metadata, user agent and deadline of the call
    headers,        \* h2_request_headers of the current attempt
    todo,           \* the metadata values that are still to be appended
    pc,
    attempt,        \* retry_attempt
    now,            \* monotonic_us
    map             \* the metadata map of the response

vars == <<call, headers, todo, pc, attempt, now, map>>

\* GRPC_LITE_REQUEST_FIXED_HEADER_COUNT
FixedHeaderCount == 8

Header(name, value) == [name |-> name, value |-> value]

-----------------------------------------------------------------------------
(* h2_request_headers.                                                     *)

\* init_request_headers; sent_at is the clock when grpc-timeout was computed.
NoHeaders ==
    [capacity |-> InlineCapacity, nva |-> <<>>, name_count |-> 0,
     value_count |-> 0, custom_value_count |-> 0, sent_at |-> 0]

MutantGrow(h) ==
    LET cap == MaxMetadata
        new == IF 2 * h.capacity > cap THEN cap ELSE 2 * h.capacity
    IN  [h EXCEPT !.capacity = IF new <= @ THEN @ ELSE new]

\* The capacity doubles up to what the fixed headers and the most metadata
\* take.
grow_request_headers(h) ==
    LET cap == MaxMetadata + FixedHeaderCount
        new == IF 2 * h.capacity > cap THEN cap ELSE 2 * h.capacity
    IN  [h EXCEPT !.capacity = IF new <= @ THEN @ ELSE new]

append_request_header_unchecked(h, name, value) ==
    [h EXCEPT !.nva = Append(@, Header(name, value))]

\* A header for which there is no room even then is dropped.
append_request_header(h, name, value) ==
    LET g == IF Len(h.nva) >= h.capacity THEN grow_request_headers(h) ELSE h IN
    IF Len(g.nva) >= g.capacity
    THEN g ELSE append_request_header_unchecked(g, name, value)

\* The string of the value is kept until the headers are freed.
append_grpc_timeout_request_header(h, timeout_us) ==
    IF timeout_us <= 0 \/ h.value_count >= h.capacity
    THEN h
    ELSE append_request_header([h EXCEPT !.value_count = @ + 1], "grpc-timeout",
                               grpc_lite_format_timeout_us(timeout_us))

append_user_agent_request_header(h, user_agent) ==
    append_request_header(h, "user-agent",
                          IF user_agent = "" THEN "default" ELSE user_agent)

-----------------------------------------------------------------------------
(* Metadata of the application.                                            *)

is_binary_metadata_header(key) == key = "data-bin"

is_forbidden_custom_request_header(key) == key \in {"reserved", "malformed"}

\* A binary value is sent as base64, without a comma; others as they are.
Encoded(key, value) ==
    IF is_binary_metadata_header(key) THEN <<"base64", value>> ELSE <<"raw", value>>

\* Base64 always passes its check; other values have to be printable ASCII.
Sendable(key, value) == is_binary_metadata_header(key) \/ value # "bytes"

MutantRoom(h) ==
    /\ Len(h.nva) <= h.capacity
    /\ h.name_count < h.capacity
    /\ h.value_count < h.capacity

\* There is room for a name, a value and a header.
Room(h) ==
    /\ Len(h.nva) < h.capacity
    /\ h.name_count < h.capacity
    /\ h.value_count < h.capacity

\* append_custom_request_header_value when it does not throw.
append_custom_request_header_value(h, key, value) ==
    append_request_header_unchecked(
        [h EXCEPT !.name_count = @ + 1, !.value_count = @ + 1,
                  !.custom_value_count = @ + 1],
        key, Encoded(key, value))

\* The values of one entry, with their key; a key without values stays, as
\* the loop looks at the key all the same.
EntryValues(entry) ==
    IF entry.values = <<>>
    THEN <<[key |-> entry.key, none |-> TRUE, value |-> "text"]>>
    ELSE [i \in DOMAIN entry.values |->
            [key |-> entry.key, none |-> FALSE, value |-> entry.values[i]]]

\* What append_custom_request_headers visits, in the order of the array.
Visits(metadata) ==
    FlattenSeq([i \in DOMAIN metadata |-> EntryValues(metadata[i])])

-----------------------------------------------------------------------------
(* Building the headers, as unary_call.c and server_streaming_call.c do.   *)

deadline_abs_us == grpc_lite_call_deadline_abs_us(call.deadline_us)

Remaining == remaining_timeout_us_for_deadline(deadline_abs_us, now)

\* The pseudo headers, content-type and te.
FixedHeaders ==
    <<Header(":method", "POST"), Header(":scheme", "scheme"),
      Header(":authority", "authority"), Header(":path", "path"),
      Header("content-type", "application/grpc"), Header("te", "trailers")>>

AppendFixed(h) ==
    FoldLeft(LAMBDA g, f: append_request_header(g, f.name, f.value), h, FixedHeaders)

Finish(outcome) == pc' = outcome /\ todo' = <<>>

\* The attempt starts with the headers that never fail.
Start ==
    /\ pc = "start"
    /\ IF Remaining < 0
       THEN Finish("deadline") /\ UNCHANGED headers
       ELSE /\ headers' = AppendFixed(NoHeaders)
            /\ todo' = Visits(call.metadata)
            /\ pc' = "timeout"
    /\ UNCHANGED <<call, attempt, now, map>>

\* The time that is left is read again.
AppendTimeout ==
    /\ pc = "timeout"
    /\ IF Remaining < 0
       THEN Finish("deadline") /\ UNCHANGED headers
       ELSE /\ headers' = append_user_agent_request_header(
                    append_grpc_timeout_request_header(
                        [headers EXCEPT !.sent_at = now], Remaining),
                    call.user_agent)
            /\ pc' = "metadata"
            /\ UNCHANGED todo
    /\ UNCHANGED <<call, attempt, now, map>>

\* A value that the loop passes over: the user agent is the channel's alone.
Skipped(v) ==
    \/ v.key = "user-agent"
    \/ v.none /\ ~is_forbidden_custom_request_header(v.key)

\* A value that ends the call with an exception.
Refused(v, h) ==
    \/ is_forbidden_custom_request_header(v.key)
    \/ v.value = "not a string"
    \/ h.custom_value_count >= MaxMetadata
    \/ ~Room(h)
    \/ ~Sendable(v.key, v.value)

AppendMetadata ==
    /\ pc = "metadata"
    /\ todo # <<>>
    /\ LET v == Head(todo)
           h == IF Room(headers) THEN headers ELSE grow_request_headers(headers)
       IN  IF Skipped(v)
           THEN todo' = Tail(todo) /\ UNCHANGED <<headers, pc>>
           ELSE IF Refused(v, h)
           THEN Finish("exception") /\ UNCHANGED headers
           ELSE /\ headers' = append_custom_request_header_value(h, v.key, v.value)
                /\ todo' = Tail(todo)
                /\ UNCHANGED pc
    /\ UNCHANGED <<call, attempt, now, map>>

\* nghttp2_submit_request copies the headers.
Submit ==
    /\ pc = "metadata"
    /\ todo = <<>>
    /\ pc' = "submitted"
    /\ UNCHANGED <<call, headers, todo, attempt, now, map>>

\* The stream is refused unprocessed and the call is sent once more.
Retry ==
    /\ pc = "submitted"
    /\ attempt = 0
    /\ attempt' = 1
    /\ pc' = "start"
    /\ headers' = NoHeaders
    /\ UNCHANGED <<call, todo, now, map>>

-----------------------------------------------------------------------------
(* The peer, and the metadata of its response.                             *)

\* The custom headers that were sent.
Custom(h) == SelectSeq(h.nva, LAMBDA f: f.name \in {"plain", "data-bin"})

\* A wire value is a sequence of parts between commas.  A raw value with a
\* comma has two.
Wire(f) ==
    IF f.value = <<"raw", "comma">>
    THEN [key |-> f.name, parts |-> <<<<"raw", "com">>, <<"raw", "ma">>>>]
    ELSE [key |-> f.name, parts |-> <<f.value>>]

\* The values of one key in one header, joined with commas.
Joined(key, wires) ==
    LET own == SelectSeq(wires, LAMBDA w: w.key = key) IN
    IF own = <<>> THEN <<>>
    ELSE <<[key |-> key, parts |-> FlattenSeq([i \in DOMAIN own |-> own[i].parts])]>>

\* A raw value as a string again.
Text(parts) ==
    IF parts = <<<<"raw", "com">>, <<"raw", "ma">>>> THEN "comma"
    ELSE IF Len(parts) = 1 THEN parts[1][2] ELSE "joined"

add_metadata_value_to_map(m, key, value) == [m EXCEPT ![key] = Append(@, value)]

MutantAddBinary(m, key, parts) ==
    add_metadata_value_to_map(m, key, parts[1][2])

\* A binary value is split at its commas and every part decoded.
add_binary_metadata_values_to_map(m, key, parts) ==
    FoldLeft(LAMBDA n, p: add_metadata_value_to_map(n, key, p[2]), m, parts)

grpc_protocol_copy_metadata_map(entries) ==
    FoldLeft(LAMBDA m, e:
                 IF is_binary_metadata_header(e.key)
                 THEN add_binary_metadata_values_to_map(m, e.key, e.parts)
                 ELSE add_metadata_value_to_map(m, e.key, Text(e.parts)),
             [k \in {"plain", "data-bin"} |-> <<>>], entries)

\* A peer that sends the metadata back, each value in a header of its own or
\* the binary ones in one header, which HTTP/2 leaves to it.
Echo ==
    /\ pc = "submitted"
    /\ LET plain == [i \in DOMAIN Custom(headers) |-> Wire(Custom(headers)[i])]
           joined == SelectSeq(plain, LAMBDA w: w.key = "plain")
                         \o Joined("data-bin", plain)
       IN  \E entries \in {plain, joined}:
               map' = grpc_protocol_copy_metadata_map(entries)
    /\ pc' = "answered"
    /\ UNCHANGED <<call, headers, todo, attempt, now>>

-----------------------------------------------------------------------------
(* The specification.                                                      *)

Tick ==
    /\ pc \in {"start", "timeout", "submitted"}
    /\ now < MaxTime
    /\ now' = now + 1
    /\ UNCHANGED <<call, headers, todo, pc, attempt, map>>

\* The deadline is Timeval::now() plus the timeout, or infFuture.
Init ==
    /\ now = 1
    /\ \E m \in Metadata, u \in UserAgents, t \in TimeoutArgs:
        call = [metadata |-> m, user_agent |-> u,
                deadline_us |-> grpc_lite_saturating_add(now, t)]
    /\ headers = NoHeaders
    /\ todo = <<>>
    /\ pc = "start"
    /\ attempt = 0
    /\ map = [k \in {"plain", "data-bin"} |-> <<>>]

Next ==
    \/ Start \/ AppendTimeout \/ AppendMetadata \/ Submit \/ Retry \/ Echo \/ Tick

Spec == Init /\ [][Next]_vars

-----------------------------------------------------------------------------
(* Properties.                                                             *)

\* Types.  No append writes past the end of an array: headers, names and
\* values never outnumber the capacity, which append_request_header_unchecked
\* (transport.c:2525) does not look at.
TypeOK ==
    /\ pc \in {"start", "timeout", "metadata", "submitted", "answered",
               "deadline", "exception"}
    /\ attempt \in 0 .. 1
    /\ now \in 1 .. MaxTime
    /\ headers.capacity \in 1 .. InlineCapacity + MaxMetadata + FixedHeaderCount
    /\ Len(headers.nva) <= headers.capacity
    /\ headers.name_count <= headers.capacity
    /\ headers.value_count <= headers.capacity

\* The metadata that is to be sent: every value but those of user-agent.
ToSend(metadata) ==
    SelectSeq(Visits(metadata), LAMBDA v: v.key # "user-agent" /\ ~v.none)

Acceptable(metadata) ==
    /\ \A i \in DOMAIN metadata:
            ~is_forbidden_custom_request_header(metadata[i].key)
    /\ \A i \in DOMAIN ToSend(metadata):
            LET v == ToSend(metadata)[i] IN
            v.value # "not a string" /\ Sendable(v.key, v.value)
    /\ Len(ToSend(metadata)) <= MaxMetadata

\* A request carries exactly its headers, however often the array grew: the
\* fixed ones, grpc-timeout just for a call with a deadline, one user-agent,
\* and every metadata value in order.  None is dropped for lack of room, and
\* the call throws just when its metadata is not acceptable
\* (transport.c:2490, :2540, docs/SPEC.md:250).
HeadersExact ==
    /\ pc \in {"submitted", "answered"} =>
        LET sent == ToSend(call.metadata)
            timeout == SelectSeq(headers.nva, LAMBDA f: f.name = "grpc-timeout")
        IN
        /\ Acceptable(call.metadata)
        /\ Len(timeout) = (IF deadline_abs_us = 0 THEN 0 ELSE 1)
        /\ headers.nva =
               FixedHeaders \o timeout
               \o <<Header("user-agent", IF call.user_agent = ""
                                         THEN "default" ELSE call.user_agent)>>
               \o [i \in DOMAIN sent |->
                      Header(sent[i].key, Encoded(sent[i].key, sent[i].value))]
    /\ pc = "exception" => ~Acceptable(call.metadata)

\* In the first attempt and in the retry, the deadline that the peer derives
\* from grpc-timeout is never before the call's own, and later by less than
\* one unit, unless the header is capped (transport.c:2547, docs/SPEC.md:91).
TimeoutMatchesDeadline ==
    pc \in {"metadata", "submitted", "answered"} =>
        \A i \in DOMAIN headers.nva:
            headers.nva[i].name = "grpc-timeout" =>
                LET t == headers.nva[i].value
                    end == headers.sent_at + t.value * t.unit
                IN  /\ t.value <= MaxValue
                    /\ \/ end >= deadline_abs_us /\ end - t.unit < deadline_abs_us
                       \/ t = Timeout(MaxValue, HourUs) /\ end < deadline_abs_us

\* Metadata that the peer sends back reaches the application as it was given:
\* per key the same values in the same order, whether or not the peer joined
\* the binary ones (transport.c:2712, :3162).
MetadataRoundTrip ==
    pc = "answered" =>
        \A k \in {"plain", "data-bin"}:
            LET own == SelectSeq(ToSend(call.metadata), LAMBDA v: v.key = k) IN
            map[k] = [i \in DOMAIN own |-> own[i].value]

=============================================================================
