---------------------------- MODULE ConnectionIO ----------------------------
(***************************************************************************)
(* The bytes of one connection: how send_pending_h2_frames_with_deadline   *)
(* coalesces what nghttp2 hands out and writes it to the socket, how       *)
(* connection_recv and poll_fd_until_deadline wait, and how the preflight  *)
(* of a cached connection drains what the peer has sent meanwhile.         *)
(*                                                                         *)
(* PHP runs one operation at a time.  The clock, the peer and the kernel   *)
(* move between any two steps of it.  Outgoing bytes are numbered in the   *)
(* order in which nghttp2 produces them; a span is a run of such numbers.  *)
(* TLS and plaintext have the same shape: WANT_READ and WANT_WRITE are the *)
(* EAGAIN of a TLS connection.                                             *)
(***************************************************************************)
EXTENDS Naturals, Integers, Sequences

CONSTANTS
    Cap,            \* write_buffer_cap
    Requests,       \* frames of a request, as the lengths of their chunks
    ScratchLen,     \* recv_scratch_len
    DrainMax,       \* grpc_lite.preflight_drain_max_bytes
    MaxIterations,  \* GRPC_LITE_PREFLIGHT_DRAIN_MAX_ITERATIONS
    Grace,          \* GRPC_LITE_CANCEL_RST_WRITE_GRACE_US
    UsPerMs,        \* microseconds of a millisecond of poll
    PollMax,        \* INT_MAX, the longest timeout of poll in milliseconds
    Deadlines,      \* absolute deadlines of operations, 0 for none
    MaxTime,        \* the clock stops here: MaxTime is every later moment
    MaxFrames,      \* requests and answers nghttp2 produces at most
    MaxArrivals     \* bytes the peer sends at most

ASSUME SizeAssumption ==
    /\ {Cap, ScratchLen, DrainMax, MaxIterations} \subseteq Nat \ {0}
    /\ {Grace, UsPerMs, PollMax, MaxTime} \subseteq Nat \ {0}
    /\ {MaxFrames, MaxArrivals} \subseteq Nat

ASSUME RequestAssumption == Requests \subseteq Seq(Nat \ {0})

ASSUME DeadlineAssumption == Deadlines \subseteq 0 .. MaxTime

VARIABLES
    conn,     \* the fields of h2_connection that concern I/O
    session,  \* nghttp2: chunks not yet handed out, number of the next byte
    wire,     \* bytes on the wire, and whether they are in nghttp2's order
    socket,   \* bytes to be read, what the peer has done
    task,     \* the operation PHP is in, with its locals
    result,   \* how the last operation ended
    now       \* monotonic_us

vars == <<conn, session, wire, socket, task, result, now>>

Span == [first: Nat, len: Nat]
Empty == [first |-> 0, len |-> 0]

NoTask ==
    [op |-> "none", pc |-> "idle", deadline |-> 0, rest |-> Empty,
     after |-> "return", chunk |-> Empty, wakes |-> "write", since |-> 0,
     timeout |-> 0, cause |-> "deadline", last |-> FALSE, read |-> 0,
     iterations |-> 0]

Begin(op, pc, deadline) ==
    [NoTask EXCEPT !.op = op, !.pc = pc, !.deadline = deadline]

Smaller(a, b) == IF a < b THEN a ELSE b

Expired(deadline) == deadline > 0 /\ now >= deadline

-----------------------------------------------------------------------------
(* The connection.                                                         *)

connection_usable(c) == ~c.dead /\ ~c.draining

mark_connection_dead(c) == [c EXCEPT !.dead = TRUE]

\* mark_connection_draining of a connection that is not dead.
mark_connection_draining(c) == [c EXCEPT !.draining = TRUE]

\* The deadline and the flag that send_callback, h2_send_data_callback and
\* the final flush use.
WriteDeadline ==
    IF conn.write_deadline > 0 THEN conn.write_deadline
                               ELSE conn.setup_deadline

WriteTimesOut(c) ==
    IF c.write_deadline > 0 THEN [c EXCEPT !.write_timed_out = TRUE]
                            ELSE [c EXCEPT !.setup_timed_out = TRUE]

\* nghttp2 has more frames to send, as chunks of these lengths.
Produce(s, chunks) == [s EXCEPT !.queue = @ \o chunks, !.frames = @ + 1]

CanProduce == session.frames < MaxFrames

\* RST_STREAM, WINDOW_UPDATE or the acknowledgement of a frame.
Answer == <<1>>

\* What PHP learns of an operation.  expired is what the timed_out flags say,
\* unread and usable what preflight saw.  cause, which PHP does not learn, is
\* what was taken for the deadline: the deadline itself, a poll cut at INT_MAX,
\* or the kernel's ETIMEDOUT.
Result(op, ok, expired) ==
    [op |-> op, ok |-> ok, expired |-> expired,
     deadline |-> IF expired THEN task.deadline ELSE 0,
     cause |-> IF expired THEN task.cause ELSE "deadline",
     unread |-> 0, usable |-> FALSE]

NoResult ==
    [op |-> "none", ok |-> TRUE, expired |-> FALSE, deadline |-> 0,
     cause |-> "deadline", unread |-> 0, usable |-> FALSE]

-----------------------------------------------------------------------------
(* create_h2_connection from configure_callbacks on: the connection exists *)
(* and its preface, SETTINGS and WINDOW_UPDATE are to be sent under the    *)
(* deadline of the call that needs it.                                     *)

\* The fields set at the head of send_pending_h2_frames_with_deadline.
StartSend(c, deadline) ==
    [c EXCEPT !.write_deadline = deadline, !.write_timed_out = FALSE,
              !.buffer = Empty]

\* The fields reset at its end.
EndSend(c) ==
    [c EXCEPT !.write_deadline = 0, !.write_timed_out = FALSE,
              !.buffer = Empty]

Init ==
    \E d \in Deadlines, preface \in Requests:
        /\ conn = [dead |-> FALSE, draining |-> FALSE,
                   setup_deadline |-> d, setup_timed_out |-> FALSE,
                   write_deadline |-> d, write_timed_out |-> FALSE,
                   buffer |-> Empty, active |-> 0]
        /\ session = [queue |-> preface, frames |-> 0, next |-> 1]
        /\ wire = [len |-> 0, torn |-> FALSE]
        /\ socket = [inbox |-> 0, arrived |-> 0, peer |-> "open"]
        /\ task = Begin("setup", "session", d)
        /\ result = NoResult
        /\ now = 0

-----------------------------------------------------------------------------
(* The world outside.                                                      *)

Tick ==
    /\ now < MaxTime
    /\ now' = now + 1
    /\ UNCHANGED <<conn, session, wire, socket, task, result>>

\* The peer sends a byte, closes its side or resets the connection.
Arrive ==
    /\ socket.peer = "open"
    /\ socket.arrived < MaxArrivals
    /\ socket' = [socket EXCEPT !.inbox = @ + 1, !.arrived = @ + 1]
    /\ UNCHANGED <<conn, session, wire, task, result, now>>

PeerLeaves ==
    /\ socket.peer = "open"
    /\ socket' = [socket EXCEPT !.peer = "gone"]
    /\ UNCHANGED <<conn, session, wire, task, result, now>>

\* The kernel gives up a peer that acknowledges nothing any more: what was
\* received can still be read, then comes ETIMEDOUT, and nothing can be sent.
PeerLost ==
    /\ socket.peer = "open"
    /\ socket' = [socket EXCEPT !.peer = "lost"]
    /\ UNCHANGED <<conn, session, wire, task, result, now>>

-----------------------------------------------------------------------------
(* send_pending_h2_frames_with_deadline.                                   *)

Goto(pc) == [task EXCEPT !.pc = pc]

\* h2_connection_write_all(data): to write s and then go on at after.
WriteAll(s, after) ==
    [task EXCEPT !.pc = "enter", !.rest = s, !.after = after]

Join(buffer, s) ==
    IF buffer.len = 0 THEN s ELSE [buffer EXCEPT !.len = @ + s.len]

\* nghttp2_session_send hands the next chunk to send_callback or
\* h2_send_data_callback, which call h2_connection_buffer_or_write.
NextChunk ==
    [first |-> session.next, len |-> Head(session.queue)]

TakeChunk ==
    session' = [session EXCEPT !.queue = Tail(@), !.next = @ + Head(session.queue)]

MutantBufferOrWriteUnflushed ==
    /\ task.pc = "session"
    /\ session.queue # <<>>
    /\ TakeChunk
    /\ IF NextChunk.len > Cap
       THEN /\ task' = WriteAll(NextChunk, "session")
            /\ UNCHANGED conn
       ELSE /\ conn' = [conn EXCEPT !.buffer = Join(@, NextChunk)]
            /\ UNCHANGED task
    /\ UNCHANGED <<wire, socket, result, now>>

\* A chunk longer than the buffer is written directly, after what is
\* buffered; one that does not fit any more is buffered after a flush.
h2_connection_buffer_or_write ==
    /\ task.pc = "session"
    /\ session.queue # <<>>
    /\ TakeChunk
    /\ IF NextChunk.len > Cap /\ conn.buffer.len = 0
       THEN /\ task' = WriteAll(NextChunk, "session")
            /\ UNCHANGED conn
       ELSE IF conn.buffer.len + NextChunk.len > Cap
       THEN /\ task' = [WriteAll(conn.buffer,
                            IF NextChunk.len > Cap THEN "direct" ELSE "append")
                        EXCEPT !.chunk = NextChunk]
            /\ UNCHANGED conn
       ELSE /\ conn' = [conn EXCEPT !.buffer = Join(@, NextChunk)]
            /\ UNCHANGED task
    /\ UNCHANGED <<wire, socket, result, now>>

\* The flush has returned SUCCESS: write_buffer_len is 0 and the chunk that
\* waited for it is written or buffered.
AfterFlush ==
    /\ task.pc \in {"direct", "append"}
    /\ conn' = [conn EXCEPT !.buffer =
                   IF task.pc = "append" THEN task.chunk ELSE Empty]
    /\ task' = IF task.pc = "append" THEN Goto("session")
                                     ELSE WriteAll(task.chunk, "session")
    /\ UNCHANGED <<session, wire, socket, result, now>>

\* nghttp2_session_send has returned 0: flush what is buffered.
FinalFlush ==
    /\ task.pc = "session"
    /\ session.queue = <<>>
    /\ task' = IF conn.buffer.len = 0 THEN Goto("return")
                                      ELSE WriteAll(conn.buffer, "return")
    /\ UNCHANGED <<conn, session, wire, socket, result, now>>

\* h2_connection_send begins: the deadline is checked before the socket.
WriteEnter ==
    /\ task.pc = "enter"
    /\ IF Expired(WriteDeadline)
       THEN /\ conn' = WriteTimesOut(conn)
            /\ task' = Goto("fail")
       ELSE /\ task' = Goto("write")
            /\ UNCHANGED conn
    /\ UNCHANGED <<session, wire, socket, result, now>>

\* The kernel or OpenSSL takes n bytes of what is to be written.
Write(n) ==
    /\ task.pc = "write"
    /\ socket.peer # "lost"
    /\ n \in 1 .. task.rest.len
    /\ wire' = [len |-> wire.len + n,
                torn |-> wire.torn \/ task.rest.first # wire.len + 1]
    /\ task' = [task EXCEPT
                   !.rest = [first |-> @.first + n, len |-> @.len - n],
                   !.pc = IF n = task.rest.len THEN task.after ELSE "enter"]
    /\ UNCHANGED <<conn, session, socket, result, now>>

WriteBlocks ==
    /\ task.pc = "write"
    /\ socket.peer # "lost"
    /\ task' = [task EXCEPT !.pc = "poll", !.wakes = "write"]
    /\ UNCHANGED <<conn, session, wire, socket, result, now>>

\* send or SSL_write fails, or writes nothing: timed_out stays unset whatever
\* errno is.  nghttp2_session_send may also fail by itself.
WriteFails ==
    /\ task.pc \in {"write", "session"}
    /\ task' = Goto("fail")
    /\ UNCHANGED <<conn, session, wire, socket, result, now>>

-----------------------------------------------------------------------------
(* poll_fd_until_deadline, with the check of the deadline that follows it. *)

PollDeadline == IF task.wakes = "write" THEN WriteDeadline ELSE task.deadline

MutantPollTimeoutRoundsDown(deadline) ==
    IF deadline = 0 THEN -1
    ELSE IF now >= deadline THEN 0
    ELSE Smaller((deadline - now) \div UsPerMs, PollMax)

\* poll_timeout_ms_for_deadline
poll_timeout_ms_for_deadline(deadline) ==
    IF deadline = 0 THEN -1
    ELSE IF now >= deadline THEN 0
    ELSE Smaller((deadline - now + UsPerMs - 1) \div UsPerMs, PollMax)

\* errno is ETIMEDOUT: the caller of poll sets its timed_out flag.
TimesOut(cause) ==
    IF task.wakes = "write"
    THEN /\ conn' = WriteTimesOut(conn)
         /\ task' = [Goto("fail") EXCEPT !.cause = cause]
    ELSE /\ task' = [Goto("recvTimedOut") EXCEPT !.cause = cause]
         /\ UNCHANGED conn

PollStart ==
    /\ task.pc = "poll"
    /\ IF poll_timeout_ms_for_deadline(PollDeadline) = 0
       THEN TimesOut("deadline")
       ELSE /\ task' = [task EXCEPT !.pc = "polling", !.since = now,
                            !.timeout = poll_timeout_ms_for_deadline(PollDeadline)]
            /\ UNCHANGED conn
    /\ UNCHANGED <<session, wire, socket, result, now>>

\* The socket is writable or readable.  The deadline is checked once more.
PollReady ==
    /\ task.pc = "polling"
    /\ task.wakes = "recv" => socket.inbox > 0 \/ socket.peer # "open"
    /\ IF Expired(PollDeadline)
       THEN TimesOut("deadline")
       ELSE /\ task' = [task EXCEPT !.pc = task.wakes, !.since = 0, !.timeout = 0]
            /\ UNCHANGED conn
    /\ UNCHANGED <<session, wire, socket, result, now>>

PollInterrupted ==
    /\ task.pc = "polling"
    /\ task' = [task EXCEPT !.pc = "poll", !.since = 0, !.timeout = 0]
    /\ UNCHANGED <<conn, session, wire, socket, result, now>>

\* The remaining time was longer than INT_MAX milliseconds when poll began.
Cut ==
    /\ task.timeout = PollMax
    /\ PollDeadline > task.since + PollMax * UsPerMs

PollExpires ==
    /\ task.pc = "polling"
    /\ task.timeout > 0
    /\ now >= Smaller(task.since + task.timeout * UsPerMs, MaxTime)
    /\ TimesOut(IF Cut THEN "cut" ELSE "deadline")
    /\ UNCHANGED <<session, wire, socket, result, now>>

PollFails ==
    /\ task.pc = "polling"
    /\ task' = Goto(IF task.wakes = "write" THEN "fail" ELSE "recvFails")
    /\ UNCHANGED <<conn, session, wire, socket, result, now>>

-----------------------------------------------------------------------------
(* How send_pending_h2_frames_with_deadline returns to its callers.        *)

Returns(r) ==
    /\ result' = r
    /\ task' = NoTask

\* create_h2_connection clears the deadline of the setup.
EndSetup(c) == [EndSend(c) EXCEPT !.setup_deadline = 0]

\* The setup or the reset of a stream is done, or a call whose stream has
\* ended; else the receive loop or the drain goes on.
SendSucceeds ==
    /\ task.pc = "return"
    /\ conn' = IF task.op = "setup" THEN EndSetup(conn) ELSE EndSend(conn)
    /\ IF task.op \in {"setup", "cancel"} \/ task.last
       THEN Returns(Result(task.op, TRUE, FALSE))
       ELSE /\ task' = Goto(IF task.op = "call" THEN "recvEnter" ELSE "drain")
            /\ UNCHANGED result
    /\ UNCHANGED <<session, wire, socket, now>>

MutantDieInSendAlive(c) == EndSend(c)

\* A failed send leaves the session and the wire in disagreement.
DieInSend(c) == EndSend(mark_connection_dead(c))

SendFails ==
    /\ task.pc = "fail"
    /\ conn' = DieInSend(conn)
    /\ Returns(Result(task.op, FALSE,
                      conn.write_timed_out \/ conn.setup_timed_out))
    /\ UNCHANGED <<session, wire, socket, now>>

-----------------------------------------------------------------------------
(* A call: the request is submitted and sent, then the loop receives,      *)
(* feeds nghttp2 and sends until the stream is closed.                     *)

StartCall ==
    /\ task.op = "none"
    /\ connection_usable(conn)
    /\ CanProduce
    /\ \E d \in Deadlines, request \in Requests:
        /\ ~Expired(d)
        /\ session' = Produce(session, request)
        /\ conn' = StartSend(conn, d)
        /\ task' = Begin("call", "session", d)
    /\ UNCHANGED <<wire, socket, result, now>>

\* The next pull of a server stream: no request, but the deadline is checked.
PullStream ==
    /\ task.op = "none"
    /\ ~conn.dead
    /\ conn.active > 0
    /\ \E d \in Deadlines:
        IF Expired(d)
        THEN /\ task' = Begin("call", "recvTimedOut", d)
             /\ UNCHANGED conn
        ELSE /\ task' = Begin("call", "session", d)
             /\ conn' = StartSend(conn, d)
    /\ UNCHANGED <<session, wire, socket, result, now>>

RecvEnter ==
    /\ task.pc = "recvEnter"
    /\ task' = Goto(IF Expired(task.deadline) THEN "recvTimedOut" ELSE "recv")
    /\ UNCHANGED <<conn, session, wire, socket, result, now>>

RecvBlocks ==
    /\ task.pc = "recv"
    /\ socket.inbox = 0
    /\ socket.peer = "open"
    /\ task' = [task EXCEPT !.pc = "poll", !.wakes = "recv"]
    /\ UNCHANGED <<conn, session, wire, socket, result, now>>

\* nghttp2_session_mem_recv makes of the bytes frames for PHP, a GOAWAY that
\* drains the connection, something to answer.  last: the stream is closed,
\* or a server stream has a message for PHP and stays open.
Recv ==
    /\ task.pc = "recv"
    /\ \E n \in 1 .. Smaller(ScratchLen, socket.inbox),
          goaway, last \in BOOLEAN, active \in {0, 1}:
        LET c == [conn EXCEPT !.draining = @ \/ goaway, !.active = active] IN
        /\ socket' = [socket EXCEPT !.inbox = @ - n]
        /\ \/ /\ conn' = c
              /\ IF last THEN Returns(Result("call", TRUE, FALSE))
                         ELSE task' = Goto("recvEnter") /\ UNCHANGED result
              /\ UNCHANGED session
           \/ /\ CanProduce
              /\ session' = Produce(session, Answer)
              /\ conn' = StartSend(c, task.deadline)
              /\ task' = [Goto("session") EXCEPT !.last = last]
              /\ UNCHANGED result
    /\ UNCHANGED <<wire, now>>

\* The end of the stream of bytes, an error, or one nghttp2 finds in them.  A
\* TLS connection reports every error as ECONNRESET.
RecvFails ==
    /\ \/ task.pc = "recvFails"
       \/ task.pc = "recv" /\ (socket.inbox > 0 \/ socket.peer # "open")
    /\ conn' = mark_connection_dead(conn)
    /\ Returns(Result("call", FALSE, FALSE))
    /\ UNCHANGED <<session, wire, socket, now>>

\* recv itself fails with ETIMEDOUT, which only plaintext hands on: a call with
\* a deadline takes it for the deadline and does not mark the connection dead.
RecvLost ==
    /\ task.pc = "recv"
    /\ socket.inbox = 0
    /\ socket.peer = "lost"
    /\ task.deadline > 0
    /\ task' = [Goto("recvTimedOut") EXCEPT !.cause = "kernel"]
    /\ UNCHANGED <<conn, session, wire, socket, result, now>>

MutantCancelWithoutGrace == 0

\* The deadline of the flush in cancel_grpc_call_stream.
CancelDeadline == Smaller(now + Grace, MaxTime)

\* The call timed out while it received: its stream is reset under a deadline
\* of its own, unless nghttp2 cannot submit RST_STREAM.
RecvTimesOut ==
    /\ task.pc = "recvTimedOut"
    /\ result' = Result("call", FALSE, TRUE)
    /\ \E active \in {0, conn.active}:
        LET c == [conn EXCEPT !.active = active] IN
        \/ /\ CanProduce
           /\ session' = Produce(session, Answer)
           /\ conn' = StartSend(c, CancelDeadline)
           /\ task' = Begin("cancel", "session", CancelDeadline)
        \/ /\ conn' = mark_connection_dead(c)
           /\ task' = NoTask
           /\ UNCHANGED session
    /\ UNCHANGED <<wire, socket, now>>

-----------------------------------------------------------------------------
(* preflight_persistent_connection and                                     *)
(* drain_pending_connection_data_for_reuse.                                *)

Verdict(ok, c) ==
    [Result("preflight", ok, FALSE) EXCEPT
        !.usable = connection_usable(c),
        !.unread = IF conn.active > 0 THEN 0 ELSE socket.inbox]

\* One byte is peeked unless a stream is active: nothing there, the end or
\* an error, or data to drain.
Preflight ==
    /\ task.op = "none"
    /\ connection_usable(conn)
    /\ \E d \in Deadlines:
        IF conn.active > 0
        THEN /\ result' = Verdict(TRUE, conn)
             /\ UNCHANGED <<conn, task>>
        ELSE IF socket.inbox > 0
        THEN /\ task' = Begin("preflight", "drain", d)
             /\ UNCHANGED <<conn, result>>
        ELSE IF socket.peer = "open"
        THEN /\ result' = Verdict(TRUE, conn)
             /\ UNCHANGED <<conn, task>>
        ELSE /\ conn' = mark_connection_dead(conn)
             /\ result' = Verdict(FALSE, conn')
             /\ UNCHANGED task
    /\ UNCHANGED <<session, wire, socket, now>>

InBudget == task.iterations < MaxIterations /\ task.read < DrainMax

\* A read never goes past the budget.
ReadLen == Smaller(ScratchLen, DrainMax - task.read)

DrainRead ==
    /\ task.pc = "drain"
    /\ InBudget
    /\ \E n \in 1 .. Smaller(ReadLen, socket.inbox), goaway \in BOOLEAN:
        LET c == IF goaway THEN mark_connection_draining(conn) ELSE conn
            t == [task EXCEPT !.read = @ + n, !.iterations = @ + 1] IN
        /\ socket' = [socket EXCEPT !.inbox = @ - n]
        /\ IF goaway
           THEN /\ conn' = c
                /\ Returns(Verdict(FALSE, c))
                /\ UNCHANGED session
           ELSE \/ /\ task' = t
                   /\ UNCHANGED <<conn, session, result>>
                \/ /\ CanProduce
                   /\ session' = Produce(session, Answer)
                   /\ conn' = StartSend(conn, task.deadline)
                   /\ task' = [t EXCEPT !.pc = "session"]
                   /\ UNCHANGED result
    /\ UNCHANGED <<wire, now>>

\* EAGAIN, WANT_READ or WANT_WRITE: the read boundary.
DrainBoundary ==
    /\ task.pc = "drain"
    /\ InBudget
    /\ socket.inbox = 0
    /\ socket.peer = "open"
    /\ Returns(Verdict(TRUE, conn))
    /\ UNCHANGED <<conn, session, wire, socket, now>>

\* The end, an error, or bytes nghttp2 refuses.
DrainFails ==
    /\ task.pc = "drain"
    /\ InBudget
    /\ socket.inbox > 0 \/ socket.peer # "open"
    /\ conn' = mark_connection_dead(conn)
    /\ Returns(Verdict(FALSE, conn'))
    /\ UNCHANGED <<session, wire, socket, now>>

MutantOverBudgetUnmarked(c) == c

\* No read boundary within the budget.
OverBudget(c) == mark_connection_draining(c)

DrainLimit ==
    /\ task.pc = "drain"
    /\ ~InBudget
    /\ conn' = OverBudget(conn)
    /\ Returns(Verdict(FALSE, conn'))
    /\ UNCHANGED <<session, wire, socket, now>>

-----------------------------------------------------------------------------
SendStep ==
    \/ h2_connection_buffer_or_write
    \/ AfterFlush
    \/ FinalFlush
    \/ WriteEnter
    \/ \E n \in 1 .. task.rest.len: Write(n)
    \/ WriteBlocks
    \/ WriteFails
    \/ SendSucceeds
    \/ SendFails

PollStep ==
    \/ PollStart
    \/ PollReady
    \/ PollInterrupted
    \/ PollExpires
    \/ PollFails

RecvStep ==
    \/ RecvEnter
    \/ RecvBlocks
    \/ Recv
    \/ RecvFails
    \/ RecvLost
    \/ RecvTimesOut

DrainStep ==
    \/ DrainRead
    \/ DrainBoundary
    \/ DrainFails
    \/ DrainLimit

Step == SendStep \/ PollStep \/ RecvStep \/ DrainStep

Next ==
    \/ Step
    \/ StartCall
    \/ PullStream
    \/ Preflight
    \/ Tick
    \/ Arrive
    \/ PeerLeaves
    \/ PeerLost

Spec == Init /\ [][Next]_vars

\* PHP goes on with an operation it is in, and time passes.
FairSpec == Spec /\ WF_vars(Step) /\ WF_vars(Tick)

-----------------------------------------------------------------------------
(* Properties.                                                             *)

Locations ==
    {"idle", "session", "direct", "append", "return", "fail", "enter", "write",
     "poll", "polling", "recvEnter", "recv", "recvTimedOut", "recvFails",
     "drain"}

Causes == {"deadline", "cut", "kernel"}

Tasks ==
    [op: {"none", "setup", "call", "cancel", "preflight"}, pc: Locations,
     deadline: 0 .. MaxTime, rest: Span, after: Locations, chunk: Span,
     wakes: {"write", "recv"}, since: 0 .. MaxTime, timeout: -1 .. PollMax,
     cause: Causes, last: BOOLEAN, read: Nat, iterations: 0 .. MaxIterations]

Results ==
    [op: {"none", "setup", "call", "cancel", "preflight"}, ok: BOOLEAN,
     expired: BOOLEAN, deadline: 0 .. MaxTime, cause: Causes, unread: Nat,
     usable: BOOLEAN]

Connections ==
    [dead: BOOLEAN, draining: BOOLEAN, setup_deadline: 0 .. MaxTime,
     setup_timed_out: BOOLEAN, write_deadline: 0 .. MaxTime,
     write_timed_out: BOOLEAN, buffer: Span, active: {0, 1}]

\* Every field has its type, and memcpy never writes past the end of the
\* write buffer: h2_connection_buffer_or_write flushes before it would.
TypeOK ==
    /\ conn \in Connections
    /\ conn.buffer.len =< Cap
    /\ session \in [queue: Seq(Nat \ {0}), frames: 0 .. MaxFrames, next: Nat]
    /\ wire \in [len: Nat, torn: BOOLEAN]
    /\ socket \in [inbox: Nat, arrived: 0 .. MaxArrivals,
                   peer: {"open", "gone", "lost"}]
    /\ task \in Tasks
    /\ result \in Results
    /\ now \in 0 .. MaxTime

\* The bytes on the wire are a prefix of what nghttp2 produced, in its order
\* and without a gap, however they were buffered, written directly or in
\* parts.  Between two operations a connection that is not dead has sent all
\* that nghttp2 believes sent, although frames are counted as sent when they
\* are only coalesced (send_pending_h2_frames_with_deadline).
WireMatchesSession ==
    /\ ~wire.torn
    /\ task.op = "none" /\ ~conn.dead => wire.len = session.next - 1

\* The deadline of an operation has passed, or what the code mistakes for it
\* has happened: INT_MAX milliseconds are over, or the kernel has given up the
\* connection a call receives on.
Due(op, deadline, cause) ==
    \/ now >= deadline
    \/ cause = "cut" /\ now >= PollMax * UsPerMs
    \/ cause = "kernel" /\ op = "call" /\ socket.peer = "lost"

\* An operation that is reported as timed out had a deadline, and it has
\* passed: no wait ends early because milliseconds are coarser than the
\* clock, and no operation inherits the deadline of another, of the setup of
\* its connection above all.  The code has two exceptions, and no third.  A
\* poll cut at INT_MAX milliseconds is taken for the deadline when they are
\* over, not before (transport.c:1256).  In a call that receives in plaintext,
\* the ETIMEDOUT of a connection the kernel has given up is taken for the
\* deadline (transport.c:1686, unary_call.c:208, server_streaming_call.c:300).
TimeoutIsOwn ==
    result.expired =>
        /\ result.deadline > 0
        /\ Due(result.op, result.deadline, result.cause)

\* Preflight accepts a connection only if it is usable and there was nothing
\* left to read.  It refuses only one it leaves dead or draining: else
\* get_persistent_connection would not evict it and would overwrite its
\* entry.  The drain never reads more than its budget.
PreflightVerdict ==
    /\ result.op = "preflight" =>
        IF result.ok THEN result.usable /\ result.unread = 0
                     ELSE ~connection_usable(conn)
    /\ task.read =< DrainMax

\* A call with a deadline ends, whatever the peer does: the waits for the
\* socket, the loops around them and the reset of its stream are bounded.
OperationEnds ==
    (task.op = "call" /\ task.deadline > 0) ~> (task.op = "none")

=============================================================================
