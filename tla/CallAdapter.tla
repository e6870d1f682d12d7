---------------------------- MODULE CallAdapter ----------------------------
(***************************************************************************)
(* Grpc\Call as PHP drives it: startBatch, cancel and setCredentials, and   *)
(* under startBatch the unary attempt loop, the opening of a server stream, *)
(* its reads and the transparent retry (wrapper_adapter.c, and the Call     *)
(* methods of surface.c).  What the transport does with an attempt is the   *)
(* subject of ConnectionOwnership and ResponseStream; here an attempt only  *)
(* has an outcome.                                                          *)
(*                                                                         *)
(* A batch runs to its end without interruption, with one exception: the    *)
(* CallCredentials plugin is PHP code, and it runs in the middle of the     *)
(* batch.  It may cancel the call or start a batch on the very call that    *)
(* is being prepared, so batches nest.                                      *)
(***************************************************************************)
EXTENDS Naturals, Sequences

CONSTANTS
    Payloads,     \* request messages
    TooLong,      \* the payloads whose length does not fit in 32 bits
    Metadata,     \* what OP_SEND_INITIAL_METADATA carries
    Invalid,      \* the metadata that append_custom_request_headers refuses
    NoMetadata,   \* the empty metadata of a new Call
    NULL,
    MaxBatches,   \* bound: startBatch calls of a behaviour
    MaxDepth,     \* bound: batches in progress at once
    MaxMessages   \* bound: messages of one response stream

ASSUME PayloadAssumption == TooLong \subseteq Payloads /\ NULL \notin Payloads
ASSUME MetadataAssumption == Invalid \subseteq Metadata /\ NoMetadata \in Metadata \ Invalid
ASSUME BoundAssumption == MaxBatches \in Nat /\ MaxDepth \in Nat /\ MaxMessages \in Nat

VARIABLES
    call,       \* the grpc_lite_call_obj
    secure,     \* the channel's credentials are not insecure
    frame,      \* the startBatch that is running, Idle when PHP code runs
    callers,    \* the startBatch calls that wait for their plugin, outermost first
    attempts,   \* history: the requests handed to the transport
    delivered,  \* history: the messages that events carried, as <<attempt, n>>
    batches,    \* history: number of startBatch calls
    threw,      \* history: "no", "unsent", or "sent" after a request had left
    reentered,  \* history: a plugin started a batch on the call it was preparing
    cancelling  \* history: the batches whose plugins were running at the last cancel

vars == <<call, secure, frame, callers, attempts, delivered, batches, threw,
          reentered, cancelling>>

Codes == {"OK", "ERROR", "UNAVAILABLE", "DEADLINE_EXCEEDED", "UNAUTHENTICATED", "CANCELLED"}

\* The metadata of a call: what PHP sent, then what each run of the plugin added.
CallMetadata == [user : Metadata, plugin : Seq({"valid", "invalid"})]

Stream ==
    [attempt : Nat, retry : 0 .. 1, delivered_messages : Nat,
     refused : BOOLEAN, live : BOOLEAN]

Call ==
    [metadata : CallMetadata,
     request_payload : Payloads \cup {NULL},
     credentials : BOOLEAN,
     unary_performed : BOOLEAN,
     server_streaming_opened : BOOLEAN,
     resource : Stream \cup {NULL},
     initial_metadata_ready : BOOLEAN,
     status_ready : BOOLEAN,
     status : [code : Codes, attempt : Nat] \cup {NULL},
     cancelled : BOOLEAN]

PCs == {"idle", "plugin", "unary", "open", "next"}

Frame ==
    [pc : PCs, kind : {"unary", "open"}, wants_status : BOOLEAN,
     wants_message : BOOLEAN, retry : 0 .. 1, batch : Nat]

Attempt ==
    [batch : Nat, retry : 0 .. 1, payload : Payloads, metadata : CallMetadata,
     credentials : BOOLEAN, refused : BOOLEAN]

Idle ==
    [pc |-> "idle", kind |-> "unary", wants_status |-> FALSE,
     wants_message |-> FALSE, retry |-> 0, batch |-> 0]

NewCall ==
    [metadata |-> [user |-> NoMetadata, plugin |-> <<>>],
     request_payload |-> NULL, credentials |-> FALSE,
     unary_performed |-> FALSE, server_streaming_opened |-> FALSE,
     resource |-> NULL, initial_metadata_ready |-> FALSE,
     status_ready |-> FALSE, status |-> NULL, cancelled |-> FALSE]

Init ==
    /\ call = NewCall
    /\ secure \in BOOLEAN
    /\ frame = Idle
    /\ callers = <<>>
    /\ attempts = <<>>
    /\ delivered = <<>>
    /\ batches = 0
    /\ threw = "no"
    /\ reentered = FALSE
    /\ cancelling = {}

----------------------------------------------------------------------------
(* The state changes of the call object that several operations share.      *)

Status(code) == [code |-> code, attempt |-> Len(attempts)]

MutantMarkCallFailedNotReady(c, code) ==
    [c EXCEPT !.status = Status(code), !.initial_metadata_ready = TRUE]

\* grpc_lite_mark_call_failed
MarkCallFailed(c, code) ==
    [c EXCEPT !.status = Status(code), !.initial_metadata_ready = TRUE,
              !.status_ready = TRUE]

\* grpc_lite_mark_unary_failed
MarkUnaryFailed(c, code) == [MarkCallFailed(c, code) EXCEPT !.unary_performed = TRUE]

MutantMarkCallCancelledAlways(c) ==
    [c EXCEPT !.status = Status("CANCELLED"), !.initial_metadata_ready = TRUE,
              !.status_ready = TRUE, !.unary_performed = TRUE]

\* grpc_lite_mark_call_cancelled
MarkCallCancelled(c) ==
    IF c.status_ready THEN c
    ELSE [c EXCEPT !.status = Status("CANCELLED"), !.initial_metadata_ready = TRUE,
                   !.status_ready = TRUE, !.unary_performed = TRUE]

\* A request with this metadata can be built: append_custom_request_headers
\* throws for an invalid entry, whoever supplied it.
HeadersValid(m) ==
    m.user \notin Invalid /\ \A i \in DOMAIN m.plugin : m.plugin[i] = "valid"

NewAttempt(refused) ==
    [batch |-> frame.batch, retry |-> frame.retry, payload |-> call.request_payload,
     metadata |-> call.metadata, credentials |-> call.credentials,
     refused |-> refused]

----------------------------------------------------------------------------
(* Entering and leaving a batch.                                            *)

\* PHP code runs between batches, and inside the credentials plugin.
PhpRuns == frame.pc \in {"idle", "plugin"}

\* Batches in progress.
Depth == IF frame.pc = "idle" THEN 0 ELSE Len(callers) + 1

Goto(pc) == frame' = [frame EXCEPT !.pc = pc] /\ UNCHANGED callers

\* The batch is over; the plugin that started it, if any, goes on.
Leave ==
    IF callers = <<>>
    THEN frame' = Idle /\ UNCHANGED callers
    ELSE /\ frame' = callers[Len(callers)]
         /\ callers' = SubSeq(callers, 1, Len(callers) - 1)

Returns == Leave /\ UNCHANGED threw

Throws(how) == Leave /\ threw' = IF threw = "sent" THEN threw ELSE how

\* grpc_lite_store_send_batch.  ops.message is a payload, NULL when the batch
\* has no OP_SEND_MESSAGE, or "malformed"; the metadata is stored first.
StoreSendBatch(c, ops) ==
    [c EXCEPT
        !.metadata = IF ops.metadata = NULL THEN @
                     ELSE [user |-> ops.metadata, plugin |-> <<>>],
        !.request_payload = IF ops.message \in Payloads THEN ops.message ELSE @]

\* Starts the batch's work at pc, suspending the plugin that called.
Enter(pc, kind, ops) ==
    /\ frame' = [pc |-> pc, kind |-> kind, wants_status |-> ops.wants_status,
                 wants_message |-> ops.wants_message, retry |-> 0,
                 batch |-> batches + 1]
    /\ callers' = IF frame.pc = "plugin" THEN Append(callers, frame) ELSE callers

\* The head of grpc_lite_perform_call_unary and of the first
\* grpc_lite_open_call_stream_attempt: the request must have been sent, call
\* credentials need a secure channel, and the plugin runs before anything else.
Prepare(c, kind, ops) ==
    \/ /\ c.request_payload = NULL
       /\ call' = c
       /\ threw' = IF threw = "sent" THEN threw ELSE "unsent"
       /\ UNCHANGED <<frame, callers>>
    \/ /\ c.request_payload # NULL /\ c.credentials /\ ~secure
       /\ call' = IF kind = "unary" THEN MarkUnaryFailed(c, "UNAUTHENTICATED")
                  ELSE MarkCallFailed(c, "UNAUTHENTICATED")
       /\ UNCHANGED <<frame, callers, threw>>
    \/ /\ c.request_payload # NULL /\ (c.credentials => secure)
       /\ call' = c
       /\ Enter(IF c.credentials THEN "plugin" ELSE kind, kind, ops)
       /\ UNCHANGED threw

MutantNeedsUnaryDuringStream(c, ops) == ops.wants_status /\ ~c.unary_performed

\* The batch performs the call as a unary one.
NeedsUnary(c, ops) ==
    ops.wants_status /\ ~c.unary_performed /\ ~c.server_streaming_opened

\* The batch reads the server stream, which it opens if need be.
NeedsStream(c, ops) ==
    ~NeedsUnary(c, ops)
        /\ IF ops.wants_status THEN c.server_streaming_opened
           ELSE ops.wants_message /\ ~c.unary_performed

\* What startBatch does for a call that is not cancelled.  With nothing to
\* fetch it only builds the event from what the call holds.
DispatchLive(c, ops) ==
    \/ /\ c.status_ready \/ ~(NeedsUnary(c, ops) \/ NeedsStream(c, ops))
       /\ call' = c
       /\ UNCHANGED <<frame, callers, threw>>
    \/ ~c.status_ready /\ NeedsUnary(c, ops) /\ Prepare(c, "unary", ops)
    \/ /\ ~c.status_ready /\ NeedsStream(c, ops) /\ ~c.server_streaming_opened
       /\ Prepare(c, "open", ops)
    \/ /\ ~c.status_ready /\ NeedsStream(c, ops) /\ c.server_streaming_opened
       /\ call' = c
       /\ Enter("next", "open", ops)
       /\ UNCHANGED threw

Dispatch(c, ops) ==
    \/ /\ c.cancelled
       /\ call' = MarkCallCancelled(c)
       /\ UNCHANGED <<frame, callers, threw>>
    \/ ~c.cancelled /\ DispatchLive(c, ops)

Ops ==
    [metadata : Metadata \cup {NULL}, message : Payloads \cup {NULL, "malformed"},
     wants_message : BOOLEAN, wants_status : BOOLEAN]

\* Call::startBatch, up to the first step that leaves the adapter.
StartBatch(ops) ==
    /\ PhpRuns
    /\ batches < MaxBatches /\ Depth < MaxDepth
    /\ batches' = batches + 1
    /\ reentered' = (reentered \/ frame.pc = "plugin")
    /\ \/ /\ ops.message = "malformed"
          /\ call' = StoreSendBatch(call, ops)
          /\ threw' = IF threw = "sent" THEN threw ELSE "unsent"
          /\ UNCHANGED <<frame, callers>>
       \/ ops.message # "malformed" /\ Dispatch(StoreSendBatch(call, ops), ops)
    /\ UNCHANGED <<secure, attempts, delivered, cancelling>>

----------------------------------------------------------------------------
(* The rest of PHP's operations, and the plugin's return.                    *)

\* The batches in progress while PHP code runs: each waits for its plugin.
UnderWay ==
    IF frame.pc = "idle" THEN {}
    ELSE {frame.batch} \cup {callers[i].batch : i \in DOMAIN callers}

MutantCancelForgetsStream ==
    /\ PhpRuns
    /\ call' = [call EXCEPT !.cancelled = TRUE]
    /\ cancelling' = UnderWay
    /\ UNCHANGED <<secure, frame, callers, attempts, delivered, batches, threw, reentered>>

\* Call::cancel, which also resets the stream of an opened call.  A batch that
\* waits for its plugin does not look at cancelled again.
Cancel ==
    /\ PhpRuns
    /\ call' = [call EXCEPT
                  !.cancelled = TRUE,
                  !.resource = IF call.server_streaming_opened /\ @ # NULL
                               THEN [@ EXCEPT !.live = FALSE] ELSE @]
    /\ cancelling' = UnderWay
    /\ UNCHANGED <<secure, frame, callers, attempts, delivered, batches, threw, reentered>>

\* Call::setCredentials
SetCredentials ==
    /\ PhpRuns
    /\ call' = [call EXCEPT !.credentials = TRUE]
    /\ UNCHANGED <<secure, frame, callers, attempts, delivered, batches, threw,
                   reentered, cancelling>>

\* grpc_lite_merge_call_credentials_metadata: the plugin returned an array,
\* which is appended to the metadata of the call.
PluginReturns ==
    /\ frame.pc = "plugin"
    /\ \E m \in {"valid", "invalid"} :
          call' = [call EXCEPT !.metadata.plugin = Append(@, m)]
    /\ Goto(frame.kind)
    /\ UNCHANGED <<secure, attempts, delivered, batches, threw, reentered, cancelling>>

\* The plugin threw, or returned something else than an array.
PluginThrows ==
    /\ frame.pc = "plugin"
    /\ Throws("unsent")
    /\ UNCHANGED <<call, secure, attempts, delivered, batches, reentered, cancelling>>

----------------------------------------------------------------------------
(* The attempt loop of grpc_lite_perform_call_unary.                         *)

\* get_persistent_connection returned NULL.
UnaryNoConnection ==
    /\ frame.pc = "unary"
    /\ \E code \in {"UNAVAILABLE", "DEADLINE_EXCEEDED"} :
          call' = MarkUnaryFailed(call, code)
    /\ Returns
    /\ UNCHANGED <<secure, attempts, delivered, batches, reentered, cancelling>>

\* The request cannot be built or submitted: an exception, and nothing is sent.
UnaryThrows ==
    /\ frame.pc = "unary"
    /\ Throws("unsent")
    /\ UNCHANGED <<call, secure, attempts, delivered, batches, reentered, cancelling>>

Sendable == call.request_payload \notin TooLong /\ HeadersValid(call.metadata)

\* nghttp2_session_mem_recv failed while the response was read.
UnaryThrowsAfterSend ==
    /\ frame.pc = "unary" /\ Sendable
    /\ attempts' = Append(attempts, NewAttempt(FALSE))
    /\ Throws("sent")
    /\ UNCHANGED <<call, secure, delivered, batches, reentered, cancelling>>

MutantRetryableAlways(retry, started) == ~started

\* grpc_lite_attempt_outcome_from_call, for an attempt the server refused.
RetryableUnprocessed(retry, started) == retry = 0 /\ ~started

\* The status and the payload are moved into the call, and the event carries
\* the payload when the batch asks for it.
UnaryFinish(code, message) ==
    /\ call' = [call EXCEPT !.status = [code |-> code, attempt |-> Len(attempts')],
                            !.initial_metadata_ready = TRUE,
                            !.status_ready = TRUE, !.unary_performed = TRUE]
    /\ delivered' = IF message /\ frame.wants_message
                    THEN Append(delivered, <<Len(attempts'), 1>>) ELSE delivered
    /\ Returns

\* GOAWAY or RST_STREAM(REFUSED_STREAM) refused the attempt.  A second refusal
\* is the status of the call; leaving the loop without a result would make
\* startBatch fail with no exception.
UnaryRefused ==
    /\ frame.pc = "unary" /\ Sendable
    /\ attempts' = Append(attempts, NewAttempt(TRUE))
    /\ IF ~RetryableUnprocessed(frame.retry, FALSE)
       THEN UnaryFinish("UNAVAILABLE", FALSE)
       ELSE IF frame.retry = 0
       THEN /\ frame' = [frame EXCEPT !.retry = 1]
            /\ UNCHANGED <<call, callers, delivered, threw>>
       ELSE Throws("silently") /\ UNCHANGED <<call, delivered>>
    /\ UNCHANGED <<secure, batches, reentered, cancelling>>

\* The attempt ended with a status; only OK keeps the payload.
UnaryAnswered ==
    /\ frame.pc = "unary" /\ Sendable
    /\ attempts' = Append(attempts, NewAttempt(FALSE))
    /\ \/ \E message \in BOOLEAN : UnaryFinish("OK", message)
       \/ \E code \in {"ERROR", "UNAVAILABLE", "DEADLINE_EXCEEDED"} : UnaryFinish(code, FALSE)
    /\ UNCHANGED <<secure, batches, reentered, cancelling>>

----------------------------------------------------------------------------
(* Server streaming: grpc_lite_open_call_stream_attempt and                   *)
(* grpc_lite_server_streaming_next_for_call.                                  *)

\* The request cannot be built: the old resource is gone and none replaces it.
OpenThrows ==
    /\ frame.pc = "open" /\ ~Sendable
    /\ call' = [call EXCEPT !.resource = NULL]
    /\ Throws("unsent")
    /\ UNCHANGED <<secure, attempts, delivered, batches, reentered, cancelling>>

\* No connection, or the request could not be submitted or sent in full: the
\* call is opened, with a status and without a resource.
OpenFails ==
    /\ frame.pc = "open"
    /\ call.request_payload \notin TooLong
    /\ \E code \in {"UNAVAILABLE", "DEADLINE_EXCEEDED"} :
          call' = [MarkCallFailed(call, code) EXCEPT !.resource = NULL,
                                                     !.server_streaming_opened = TRUE]
    /\ \/ UNCHANGED attempts
       \/ Sendable /\ attempts' = Append(attempts, NewAttempt(FALSE))
    /\ Goto("next")
    /\ UNCHANGED <<secure, delivered, batches, threw, reentered, cancelling>>

Open ==
    /\ frame.pc = "open" /\ Sendable
    /\ attempts' = Append(attempts, NewAttempt(FALSE))
    /\ call' = [call EXCEPT
                  !.resource = [attempt |-> Len(attempts'), retry |-> frame.retry,
                                delivered_messages |-> 0, refused |-> FALSE, live |-> TRUE],
                  !.server_streaming_opened = TRUE]
    /\ Goto("next")
    /\ UNCHANGED <<secure, delivered, batches, threw, reentered, cancelling>>

Reading == frame.pc = "next" /\ ~call.status_ready /\ call.resource # NULL

\* The stream is over; the event carries no message.
NextDone(code) ==
    /\ call' = [call EXCEPT !.status = [code |-> code, attempt |-> Len(attempts)],
                            !.initial_metadata_ready = TRUE, !.status_ready = TRUE,
                            !.resource.live = FALSE]
    /\ Returns

\* A setup failure has already set the status, which is returned as the end.
NextFailedAlready ==
    /\ frame.pc = "next" /\ call.status_ready
    /\ Returns
    /\ UNCHANGED <<call, secure, attempts, delivered, batches, reentered, cancelling>>

\* The zval holds no resource: zend_fetch_resource reads whatever the zval held
\* before.  At best it answers NULL, which is thrown; a crash ends the process.
NextWithoutResource ==
    /\ frame.pc = "next" /\ ~call.status_ready /\ call.resource = NULL
    /\ Throws("unsent")
    /\ UNCHANGED <<call, secure, attempts, delivered, batches, reentered, cancelling>>

\* A batch that wants the status reads on and drops the message; one that wants
\* the message returns it, and with the first one the initial metadata.
NextMessage ==
    /\ Reading /\ call.resource.live /\ ~call.resource.refused
    /\ call.resource.delivered_messages < MaxMessages
    /\ LET n == call.resource.delivered_messages + 1
       IN  /\ call' = [call EXCEPT !.resource.delivered_messages = n,
                                   !.initial_metadata_ready = @ \/ ~frame.wants_status]
           /\ IF frame.wants_status
              THEN UNCHANGED <<frame, callers, delivered, threw>>
              ELSE delivered' = Append(delivered, <<call.resource.attempt, n>>) /\ Returns
    /\ UNCHANGED <<secure, attempts, batches, reentered, cancelling>>

NextEnds ==
    /\ Reading /\ call.resource.live /\ ~call.resource.refused
    /\ \E code \in {"OK", "ERROR", "UNAVAILABLE", "DEADLINE_EXCEEDED"} : NextDone(code)
    /\ UNCHANGED <<secure, attempts, delivered, batches, reentered, cancelling>>

\* The server refuses the stream, which it can only do before it answers.
StreamRefused ==
    /\ Reading /\ call.resource.live /\ ~call.resource.refused
    /\ call.resource.delivered_messages = 0
    /\ call' = [call EXCEPT !.resource.refused = TRUE]
    /\ attempts' = [attempts EXCEPT ![call.resource.attempt].refused = TRUE]
    /\ UNCHANGED <<secure, frame, callers, delivered, batches, threw, reentered, cancelling>>

\* An open stream is not opened again, so the same stream is read again.
MutantRetryCallStreamStillOpened ==
    /\ frame' = [frame EXCEPT !.retry = 1]
    /\ UNCHANGED <<call, callers, threw>>

MutantRetryPreparesAgain ==
    /\ frame' = [frame EXCEPT !.pc = IF call.credentials THEN "plugin" ELSE "open", !.retry = 1]
    /\ call' = [call EXCEPT !.server_streaming_opened = FALSE]
    /\ UNCHANGED <<callers, threw>>

\* grpc_lite_retry_call_stream: the metadata is already prepared.
RetryCallStream ==
    /\ frame' = [frame EXCEPT !.pc = "open", !.retry = 1]
    /\ call' = [call EXCEPT !.server_streaming_opened = FALSE]
    /\ UNCHANGED <<callers, threw>>

\* next_resource reports the refusal.
NextRefused ==
    /\ Reading /\ call.resource.refused
    /\ IF RetryableUnprocessed(call.resource.retry, call.resource.delivered_messages > 0)
            /\ ~call.initial_metadata_ready
       THEN RetryCallStream
       ELSE NextDone("UNAVAILABLE")
    /\ UNCHANGED <<secure, attempts, delivered, batches, reentered, cancelling>>

----------------------------------------------------------------------------

UnaryStep ==
    UnaryNoConnection \/ UnaryThrows \/ UnaryThrowsAfterSend \/ UnaryRefused \/ UnaryAnswered

StreamStep ==
    \/ OpenThrows \/ OpenFails \/ Open \/ NextFailedAlready \/ NextWithoutResource
    \/ NextMessage \/ NextEnds \/ StreamRefused \/ NextRefused

PhpStep == (\E ops \in Ops : StartBatch(ops)) \/ Cancel \/ SetCredentials

PluginStep == PluginReturns \/ PluginThrows

Next == PhpStep \/ PluginStep \/ UnaryStep \/ StreamStep

Spec == Init /\ [][Next]_vars

\* The transport gives every attempt an outcome and every read a result, and
\* the plugin returns.
Fairness == WF_vars(UnaryStep) /\ WF_vars(StreamStep) /\ WF_vars(PluginStep)

FairSpec == Spec /\ Fairness

----------------------------------------------------------------------------

\* Types, and the one that C does not check: server_streaming_call_next_resource
\* fetches the resource without looking at the zval, so startBatch must reach it
\* only with a resource, whatever opening, failing, retrying and cancelling came
\* before (wrapper_adapter.c:670).  (A plugin that opens the stream of the call it
\* is preparing can break this: the outer open then throws away the resource, may
\* itself throw, and leaves an opened call without one.)
TypeOK ==
    /\ call \in Call
    /\ secure \in BOOLEAN
    /\ frame \in Frame
    /\ callers \in Seq(Frame)
    /\ attempts \in Seq(Attempt)
    /\ delivered \in Seq(Nat \X Nat)
    /\ batches \in Nat
    /\ threw \in {"no", "unsent", "sent", "silently"}
    /\ reentered \in BOOLEAN
    /\ cancelling \subseteq 1 .. batches
    /\ frame.pc = "next" /\ ~call.status_ready /\ ~reentered => call.resource # NULL

\* What the transparent retry sends again is exactly what the server refused:
\* the previous request, with its payload and its metadata, in the same batch.
\* No batch sends more than these two, and the loop over them always leaves with
\* a result: startBatch never fails without an exception.
RetryRepeatsRefused ==
    /\ threw # "silently"
    /\ \A i \in DOMAIN attempts : attempts[i].retry = 1 =>
          /\ i > 1
          /\ attempts[i - 1] = [attempts[i] EXCEPT !.retry = 0, !.refused = TRUE]
    /\ \A i, j \in DOMAIN attempts :
          i < j /\ attempts[i].batch = attempts[j].batch => attempts[j].retry = 1

\* The server is asked at most once to process the call: every request but one
\* was refused unprocessed.  The exception is a batch that threw after its
\* request was sent, which leaves the call as if it had never been performed.
ProcessedAtMostOnce ==
    reentered \/ threw = "sent"
        \/ \A i, j \in DOMAIN attempts :
              i # j => attempts[i].refused \/ attempts[j].refused

\* A request carries the plugin's metadata once if the call has credentials and
\* not at all otherwise, also when it is sent again.  The exception is a call
\* whose earlier batch threw: the metadata merged then is still there.
CredentialsMergedOnce ==
    reentered \/ threw # "no"
        \/ \A i \in DOMAIN attempts :
              Len(attempts[i].metadata.plugin) = IF attempts[i].credentials THEN 1 ELSE 0

\* Events carry the messages of one attempt, in order and without gaps or
\* repetitions, however RECV_MESSAGE and RECV_STATUS batches are mixed.
DeliveredInOrder ==
    reentered \/ \A i \in DOMAIN delivered : delivered[i] = <<delivered[1][1], i>>

\* Once a batch has seen the status of the call, no batch changes it, also when
\* the plugin cancels the call it is asked for.  (A plugin that starts a batch on
\* that call breaks this: the outer batch goes on and stores its own status.)
StatusFinal ==
    [][call.status_ready /\ ~reentered => call'.status_ready /\ call'.status = call.status]_vars

\* After cancel no batch that starts then sends anything, the stream is reset,
\* and a call without a status gets no other status than CANCELLED.  The one
\* exception is the batch whose own plugin cancelled the call, which looks at
\* cancelled only when it starts: it alone may still send its request and its
\* retry, leave the stream it opens alive and store what the server answers
\* (wrapper_adapter.c:472-516 and 595-641).
CancelIsFinal ==
    [][call.cancelled =>
          /\ \A i \in DOMAIN attempts' \ DOMAIN attempts : attempts'[i].batch \in cancelling
          /\ call.resource # NULL /\ call.resource.live =>
                attempts[call.resource.attempt].batch \in cancelling
          /\ call'.status # call.status =>
                call'.status.code = "CANCELLED" \/ frame.batch \in cancelling]_vars

\* Every batch returns or throws: neither the retry of a refused stream nor the
\* reading on to the status goes round for ever.
BatchReturns == (frame.pc # "idle") ~> (frame.pc = "idle")

============================================================================
