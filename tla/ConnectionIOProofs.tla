------------------------- MODULE ConnectionIOProofs -------------------------
(***************************************************************************)
(* For buffers, budgets, requests and deadlines of any size: the write     *)
(* buffer never overflows, the bytes on the wire are those nghttp2 counts  *)
(* as sent, preflight's verdict is right, and an operation times out only  *)
(* because of its own deadline, but for a poll cut at INT_MAX and a        *)
(* connection the kernel has given up.                                     *)
(*                                                                         *)
(* The argument: TaskInv says which operation can be where; WireInv where  *)
(* in send_pending_h2_frames_with_deadline the bytes are that nghttp2 has  *)
(* handed out and the socket has not taken; DeadlineInv that every wait    *)
(* runs against the deadline of the operation, and ends not before it.     *)
(***************************************************************************)
EXTENDS ConnectionIO, TLAPS

Receiving == {"recvEnter", "recv", "recvTimedOut", "recvFails"}

Polling(wakes) == task.pc \in {"poll", "polling"} /\ task.wakes = wakes

\* In h2_connection_write_all.
Writing == task.pc \in {"enter", "write"} \/ Polling("write")

\* In send_pending_h2_frames_with_deadline.
InSend == task.pc \in {"session", "direct", "append", "return", "fail"} \/ Writing

TaskInv ==
    /\ task.op = "none" <=> task.pc = "idle"
    /\ task.op # "none" => ~conn.dead
    /\ task.op = "preflight" => ~conn.draining
    /\ task.pc \in Receiving \/ Polling("recv") => task.op = "call"
    /\ task.pc = "drain" => task.op = "preflight"
    /\ task.last => task.op = "call"
    /\ task.after \in {"session", "direct", "append", "return"}

\* len bytes from first on are the ones that follow those on the wire.
Follow(len, s) == s.len > 0 => s.first = len + 1

Unsent == session.next - 1 - wire.len

WireInv ==
    /\ ~wire.torn
    /\ ~conn.dead /\ ~InSend => Unsent = 0
    /\ task.pc = "return" => Unsent = 0
    /\ task.pc = "session" => /\ Unsent = conn.buffer.len
                              /\ Follow(wire.len, conn.buffer)
    /\ Writing =>
        /\ Follow(wire.len, task.rest)
        /\ IF task.after \in {"direct", "append"}
           THEN /\ Unsent = task.rest.len + task.chunk.len
                /\ task.chunk.first = wire.len + task.rest.len + 1
           ELSE Unsent = task.rest.len
        /\ task.after = "session" => conn.buffer.len = 0
        /\ task.after = "append" => task.chunk.len <= Cap
    /\ task.pc \in {"direct", "append"} =>
        /\ Unsent = task.chunk.len
        /\ task.chunk.first = wire.len + 1
        /\ task.pc = "append" => task.chunk.len <= Cap

\* The operation may be reported as timed out.
Waited == task.deadline > 0 /\ Due(task.op, task.deadline, task.cause)

\* A poll from since on with this timeout does not end before the deadline.
LongEnough(deadline, since, timeout) ==
    timeout > 0 =>
        /\ deadline > 0
        /\ timeout = PollMax \/ since + timeout * UsPerMs >= deadline

DeadlineInv ==
    /\ ~conn.dead /\ task.op # "setup" => conn.setup_deadline = 0
    /\ task.op = "setup" => conn.setup_deadline = task.deadline
    /\ InSend => conn.write_deadline = task.deadline
    /\ ~conn.dead /\ (conn.write_timed_out \/ conn.setup_timed_out) =>
        task.pc = "fail" /\ Waited
    /\ task.pc = "recvTimedOut" => Waited
    /\ task.pc = "polling" => LongEnough(task.deadline, task.since, task.timeout)

IOInv ==
    /\ TypeOK /\ TaskInv /\ WireInv /\ DeadlineInv
    /\ PreflightVerdict /\ TimeoutIsOwn

-----------------------------------------------------------------------------
(* Lemmas on the operators.                                                *)

\* What TypeOK says of the numbers.
LEMMA Numbers ==
    ASSUME TypeOK
    PROVE  /\ conn.buffer.first \in Nat /\ conn.buffer.len \in 0 .. Cap
           /\ task.rest.first \in Nat /\ task.rest.len \in Nat
           /\ task.chunk.first \in Nat /\ task.chunk.len \in Nat
           /\ session.next \in Nat /\ wire.len \in Nat /\ now \in 0 .. MaxTime
           /\ task.deadline \in 0 .. MaxTime /\ task.since \in 0 .. MaxTime
           /\ task.timeout \in -1 .. PollMax /\ task.read \in Nat
           /\ conn.setup_deadline \in 0 .. MaxTime
           /\ conn.write_deadline \in 0 .. MaxTime
           /\ socket.inbox \in Nat
<1>1. /\ conn.buffer \in Span /\ conn.buffer.len <= Cap
      /\ conn.setup_deadline \in 0 .. MaxTime /\ conn.write_deadline \in 0 .. MaxTime
  BY DEF TypeOK, Connections
<1>2. /\ task.rest \in Span /\ task.chunk \in Span
      /\ task.deadline \in 0 .. MaxTime /\ task.since \in 0 .. MaxTime
      /\ task.timeout \in -1 .. PollMax /\ task.read \in Nat
  BY DEF TypeOK, Tasks
<1>3. /\ session.next \in Nat /\ wire.len \in Nat /\ now \in 0 .. MaxTime
      /\ socket.inbox \in Nat
  BY DEF TypeOK
<1> QED BY <1>1, <1>2, <1>3, SizeAssumption DEF Span

\* t and u differ in pc and cause only.
OnlyPC(t, u) ==
    /\ u.op = t.op /\ u.deadline = t.deadline /\ u.rest = t.rest
    /\ u.after = t.after /\ u.chunk = t.chunk /\ u.wakes = t.wakes
    /\ u.since = t.since /\ u.timeout = t.timeout /\ u.last = t.last
    /\ u.read = t.read /\ u.iterations = t.iterations

\* The next place of the code.
LEMMA GotoTask ==
    ASSUME task \in Tasks, NEW pc \in Locations
    PROVE  /\ Goto(pc) \in Tasks /\ Goto(pc).pc = pc /\ OnlyPC(task, Goto(pc))
           /\ Goto(pc).cause = task.cause
BY DEF Goto, Tasks, OnlyPC

\* The same, with what was taken for the deadline.
LEMMA GotoTimedOut ==
    ASSUME task \in Tasks, NEW pc \in Locations, NEW cause \in Causes
    PROVE  LET u == [Goto(pc) EXCEPT !.cause = cause] IN
           u \in Tasks /\ u.pc = pc /\ OnlyPC(task, u) /\ u.cause = cause
BY DEF Goto, Tasks, OnlyPC

\* What h2_connection_write_all starts with.
LEMMA WriteAllTask ==
    ASSUME task \in Tasks, NEW s \in Span, NEW after \in Locations
    PROVE  LET u == WriteAll(s, after) IN
           /\ u \in Tasks /\ u.pc = "enter" /\ u.rest = s /\ u.after = after
           /\ u.op = task.op /\ u.deadline = task.deadline /\ u.chunk = task.chunk
           /\ u.timeout = task.timeout /\ u.last = task.last /\ u.read = task.read
BY ZenonT(60) DEF WriteAll, Tasks, Locations

\* No operation.
LEMMA IdleTask ==
    /\ NoTask \in Tasks /\ NoTask.op = "none" /\ NoTask.pc = "idle"
    /\ NoTask.after = "return" /\ NoTask.last = FALSE /\ NoTask.read = 0
    /\ NoTask.wakes = "write" /\ NoTask.timeout = 0
<1>1. Empty \in Span /\ 0 \in 0 .. MaxTime /\ 0 \in -1 .. PollMax
      /\ 0 \in 0 .. MaxIterations
  BY SizeAssumption DEF Empty, Span
<1> QED BY <1>1 DEF NoTask, Tasks, Locations, Causes

\* The connection at the head and at the end of
\* send_pending_h2_frames_with_deadline.
LEMMA SendConn ==
    ASSUME NEW c \in Connections, NEW d \in 0 .. MaxTime
    PROVE  /\ LET e == StartSend(c, d) IN
              /\ e \in Connections /\ e.dead = c.dead /\ e.draining = c.draining
              /\ e.setup_deadline = c.setup_deadline
              /\ e.setup_timed_out = c.setup_timed_out
              /\ e.write_deadline = d /\ e.write_timed_out = FALSE
              /\ e.buffer = Empty /\ e.active = c.active
           /\ LET e == EndSend(c) IN
              /\ e \in Connections /\ e.dead = c.dead /\ e.draining = c.draining
              /\ e.setup_deadline = c.setup_deadline
              /\ e.setup_timed_out = c.setup_timed_out
              /\ e.write_deadline = 0 /\ e.write_timed_out = FALSE
              /\ e.buffer = Empty /\ e.active = c.active
<1>1. Empty \in Span /\ 0 \in 0 .. MaxTime
  BY SizeAssumption DEF Empty, Span
<1> QED BY <1>1 DEF StartSend, EndSend, Connections

\* Only a timed_out flag is set.
LEMMA TimedOutConn ==
    ASSUME NEW c \in Connections
    PROVE  LET e == WriteTimesOut(c) IN
           /\ e \in Connections /\ e.dead = c.dead /\ e.draining = c.draining
           /\ e.setup_deadline = c.setup_deadline
           /\ e.write_deadline = c.write_deadline
           /\ e.buffer = c.buffer /\ e.active = c.active
BY DEF WriteTimesOut, Connections

\* The timeout of poll is rounded up, and cut only at PollMax.
LEMMA PollTimeout ==
    ASSUME now \in 0 .. MaxTime, NEW d \in 0 .. MaxTime
    PROVE  LET p == poll_timeout_ms_for_deadline(d) IN
           /\ p \in -1 .. PollMax
           /\ p = 0 => d > 0 /\ now >= d
           /\ p > 0 => d > 0 /\ (p = PollMax \/ now + p * UsPerMs >= d)
<1>1. CASE d = 0
  BY <1>1, SizeAssumption DEF poll_timeout_ms_for_deadline
<1>2. CASE d # 0 /\ now >= d
  BY <1>2, SizeAssumption DEF poll_timeout_ms_for_deadline
<1>3. CASE d # 0 /\ ~(now >= d)
  <2> DEFINE v == d - now + UsPerMs - 1
             q == v \div UsPerMs
             r == v % UsPerMs
  <2>1. UsPerMs \in Nat \ {0} /\ PollMax \in Nat \ {0} /\ v \in Nat /\ v >= UsPerMs
    BY <1>3, SizeAssumption
  <2>2. q \in Nat /\ r \in 0 .. UsPerMs - 1 /\ v = q * UsPerMs + r
    BY <2>1
  <2>3. q # 0
    BY <2>1, <2>2
  <2>4. now + q * UsPerMs >= d
    <3> DEFINE m == q * UsPerMs
    <3>1. m \in Nat /\ v = m + r
      BY <2>1, <2>2
    <3> HIDE DEF m, r, q
    <3>2. now + m >= d
      BY <3>1, <2>1, <2>2, <1>3
    <3> QED BY <3>2 DEF m
  <2>5. poll_timeout_ms_for_deadline(d) = Smaller(q, PollMax)
    BY <1>3 DEF poll_timeout_ms_for_deadline
  <2> HIDE DEF q
  <2> QED BY <1>3, <2>1, <2>2, <2>3, <2>4, <2>5 DEF Smaller
<1> QED BY <1>1, <1>2, <1>3

\* Only the buffer changes.
LEMMA BufferConn ==
    ASSUME NEW c \in Connections, NEW b \in Span
    PROVE  LET e == [c EXCEPT !.buffer = b] IN
           /\ e \in Connections /\ e.buffer = b
           /\ e.dead = c.dead /\ e.draining = c.draining
           /\ e.setup_deadline = c.setup_deadline
           /\ e.write_deadline = c.write_deadline
           /\ e.write_timed_out = c.write_timed_out
           /\ e.setup_timed_out = c.setup_timed_out
BY DEF Connections

\* What PHP is told.
LEMMA ResultFields ==
    ASSUME task \in Tasks, NEW op \in {"setup", "call", "cancel", "preflight"},
           NEW ok \in BOOLEAN, NEW expired \in BOOLEAN
    PROVE  LET r == Result(op, ok, expired) IN
           /\ r \in Results /\ r.op = op /\ r.ok = ok /\ r.expired = expired
           /\ r.deadline = IF expired THEN task.deadline ELSE 0
           /\ r.cause = IF expired THEN task.cause ELSE "deadline"
           /\ r.unread = 0 /\ r.usable = FALSE
<1>1. task.deadline \in 0 .. MaxTime /\ 0 \in 0 .. MaxTime
  BY SizeAssumption DEF Tasks
<1>2. task.cause \in Causes /\ "deadline" \in Causes
  BY DEF Tasks, Causes
<1> QED BY <1>1, <1>2 DEF Result, Results

\* The writes of an operation run against its own deadline.
LEMMA OwnDeadline ==
    ASSUME IOInv, InSend
    PROVE  WriteDeadline = task.deadline
<1>1. /\ conn.write_deadline = task.deadline /\ ~conn.dead
      /\ conn.setup_deadline = 0 \/ conn.setup_deadline = task.deadline
  BY DEF IOInv, TaskInv, DeadlineInv, InSend, Writing, Polling
<1>2. task.deadline \in Nat
  BY Numbers, SizeAssumption DEF IOInv
<1> QED BY <1>1, <1>2 DEF WriteDeadline

-----------------------------------------------------------------------------
(* The steps of send_pending_h2_frames_with_deadline.                      *)

\* What PHP was told of earlier operations stays true.
LEMMA SameResult ==
    ASSUME IOInv, result' = result, now' = now, socket'.peer = socket.peer,
           ~connection_usable(conn) => ~connection_usable(conn'),
           task'.read <= DrainMax
    PROVE  PreflightVerdict' /\ TimeoutIsOwn'
BY DEF IOInv, PreflightVerdict, TimeoutIsOwn, Due, connection_usable

\* The chunk that nghttp2 hands out next.
LEMMA NextChunkTaken ==
    ASSUME TypeOK, session.queue # <<>>, TakeChunk
    PROVE  /\ NextChunk \in Span /\ NextChunk.first = session.next
           /\ NextChunk.len \in Nat \ {0}
           /\ session' \in [queue: Seq(Nat \ {0}), frames: 0 .. MaxFrames, next: Nat]
           /\ session'.next = session.next + NextChunk.len
<1> DEFINE Q == Seq(Nat \ {0})
           n == Head(session.queue)
           rest == Tail(session.queue)
<1>1. session \in [queue: Q, frames: 0 .. MaxFrames, next: Nat]
  BY DEF TypeOK
<1>2. n \in Nat \ {0} /\ rest \in Q
  BY <1>1
<1>3. NextChunk = [first |-> session.next, len |-> n]
  BY DEF NextChunk
<1>4. session' = [session EXCEPT !.queue = rest, !.next = session.next + n]
  BY DEF TakeChunk
<1> HIDE DEF Q, n, rest
<1>5. NextChunk \in Span /\ NextChunk.first = session.next /\ NextChunk.len = n
  BY <1>1, <1>2, <1>3 DEF Span
<1> DEFINE m == session.next + n
<1>a. m \in Nat
  BY <1>1, <1>2
<1>b. session' = [session EXCEPT !.queue = rest, !.next = m]
  BY <1>4
<1> HIDE DEF m
<1>6. /\ session' \in [queue: Q, frames: 0 .. MaxFrames, next: Nat]
      /\ session'.next = m
  BY <1>1, <1>2, <1>a, <1>b
<1> QED BY <1>2, <1>5, <1>6 DEF Q, m

\* What nghttp2 hands out is buffered, or follows on the wire what is buffered.
LEMMA BufferOrWrite ==
    ASSUME IOInv, h2_connection_buffer_or_write
    PROVE  IOInv'
<1>1. /\ task \in Tasks /\ conn \in Connections /\ TypeOK
      /\ task.pc = "session" /\ UNCHANGED <<wire, socket, result, now>>
  BY DEF IOInv, TypeOK, h2_connection_buffer_or_write
<1>2. /\ NextChunk \in Span /\ NextChunk.first = session.next
      /\ NextChunk.len \in Nat \ {0}
      /\ session' \in [queue: Seq(Nat \ {0}), frames: 0 .. MaxFrames, next: Nat]
      /\ session'.next = session.next + NextChunk.len
  BY <1>1, NextChunkTaken DEF h2_connection_buffer_or_write
<1>3. /\ task.op # "none" /\ ~conn.dead /\ ~wire.torn
      /\ session.next - 1 - wire.len = conn.buffer.len
      /\ conn.buffer.len > 0 => conn.buffer.first = wire.len + 1
      /\ conn.write_deadline = task.deadline
  BY <1>1 DEF IOInv, TaskInv, WireInv, DeadlineInv, Unsent, Follow, InSend
<1>4. Cap \in Nat \ {0} /\ conn.buffer \in Span /\ conn.buffer.len \in 0 .. Cap
  BY <1>1, Numbers, SizeAssumption DEF Connections
<1>a. /\ session.next \in Nat /\ wire.len \in Nat
      /\ conn.buffer.first \in Nat /\ conn.buffer.len \in Nat
  BY <1>1, <1>4, Numbers
<1>b. /\ session'.next - 1 - wire.len = conn.buffer.len + NextChunk.len
      /\ NextChunk.first = wire.len + conn.buffer.len + 1
  <2> DEFINE next == session.next
             n == NextChunk.len
             b == conn.buffer.len
             w == wire.len
  <2>1. next \in Nat /\ n \in Nat /\ b \in Nat /\ w \in Nat /\ next - 1 - w = b
    BY <1>2, <1>3, <1>a
  <2> HIDE DEF next, n, b, w
  <2>2. next + n - 1 - w = b + n /\ next = w + b + 1
    BY <2>1
  <2>3. session'.next = next + n /\ NextChunk.first = next
    BY <1>2, Zenon DEF next, n
  <2>4. session'.next - 1 - w = b + n /\ NextChunk.first = w + b + 1
    BY <2>1, <2>2, <2>3
  <2> QED BY <2>4 DEF n, b, w
<1>5. \/ /\ NextChunk.len > Cap /\ conn.buffer.len = 0
         /\ task' = WriteAll(NextChunk, "session") /\ conn' = conn
      \/ /\ conn.buffer.len > 0 /\ NextChunk.len > Cap
         /\ task' = [WriteAll(conn.buffer, "direct") EXCEPT !.chunk = NextChunk]
         /\ conn' = conn
      \/ /\ conn.buffer.len > 0 /\ NextChunk.len <= Cap
         /\ task' = [WriteAll(conn.buffer, "append") EXCEPT !.chunk = NextChunk]
         /\ conn' = conn
      \/ /\ conn.buffer.len + NextChunk.len <= Cap
         /\ conn' = [conn EXCEPT !.buffer = Join(conn.buffer, NextChunk)]
         /\ task' = task
  BY <1>2, <1>4 DEF h2_connection_buffer_or_write
<1>6. ASSUME NEW rest \in Span, NEW after \in {"session", "direct", "append"},
             NEW chunk \in Span,
             task' = [WriteAll(rest, after) EXCEPT !.chunk = chunk], conn' = conn,
             rest.first = wire.len + 1,
             IF after = "session"
             THEN /\ rest.len = session'.next - 1 - wire.len
                  /\ conn.buffer.len = 0
             ELSE /\ rest.len + chunk.len = session'.next - 1 - wire.len
                  /\ chunk.first = wire.len + rest.len + 1,
             after = "append" => chunk.len <= Cap
      PROVE  IOInv'
  <2>1. /\ task' \in Tasks /\ task'.pc = "enter" /\ task'.rest = rest
        /\ task'.after = after /\ task'.chunk = chunk /\ task'.op = task.op
        /\ task'.deadline = task.deadline /\ task'.last = task.last
        /\ task'.read = task.read
    <3>1. /\ WriteAll(rest, after) \in Tasks /\ WriteAll(rest, after).pc = "enter"
          /\ WriteAll(rest, after).rest = rest /\ WriteAll(rest, after).after = after
          /\ WriteAll(rest, after).op = task.op
          /\ WriteAll(rest, after).deadline = task.deadline
          /\ WriteAll(rest, after).last = task.last
          /\ WriteAll(rest, after).read = task.read
      BY <1>1, <1>6, WriteAllTask DEF Locations
    <3> QED BY <1>6, <3>1 DEF Tasks
  <2>2. TypeOK'
    BY <1>1, <1>2, <1>6, <2>1 DEF TypeOK
  <2>3. TaskInv'
    BY <1>1, <1>3, <1>6, <2>1 DEF IOInv, TaskInv, Polling, Receiving
  <2>4. WireInv'
    BY <1>1, <1>3, <1>6, <2>1 DEF WireInv, Follow, Unsent, InSend, Writing, Polling
  <2>5. DeadlineInv'
    BY <1>1, <1>3, <1>6, <2>1 DEF IOInv, DeadlineInv, InSend, Writing, Polling, Waited
  <2>6. PreflightVerdict' /\ TimeoutIsOwn'
    BY <1>1, <1>6, <2>1, SameResult DEF IOInv, PreflightVerdict
  <2> QED BY <2>2, <2>3, <2>4, <2>5, <2>6 DEF IOInv
<1>7. ASSUME conn.buffer.len + NextChunk.len <= Cap,
             conn' = [conn EXCEPT !.buffer = Join(conn.buffer, NextChunk)],
             task' = task
      PROVE  IOInv'
  <2> DEFINE joined == Join(conn.buffer, NextChunk)
  <2>1. /\ joined \in Span /\ joined.len = conn.buffer.len + NextChunk.len
        /\ joined.first = wire.len + 1
    <3>1. NextChunk \in Span /\ NextChunk.len \in Nat /\ NextChunk.first \in Nat
      BY <1>2 DEF Span
    <3>2. CASE conn.buffer.len = 0
      <4>1. joined = NextChunk
        BY <3>2 DEF Join
      <4> QED BY <1>a, <1>b, <3>1, <3>2, <4>1
    <3>3. CASE conn.buffer.len # 0
      <4>1. joined = [conn.buffer EXCEPT !.len = conn.buffer.len + NextChunk.len]
        BY <3>3 DEF Join
      <4>2. /\ joined \in Span /\ joined.len = conn.buffer.len + NextChunk.len
            /\ joined.first = conn.buffer.first
        BY <1>4, <1>a, <3>1, <4>1 DEF Span
      <4>3. conn.buffer.first = wire.len + 1
        BY <1>3, <1>a, <3>3
      <4> QED BY <4>2, <4>3
    <3> QED BY <3>2, <3>3
  <2> HIDE DEF joined
  <2>2. /\ conn' \in Connections /\ conn'.buffer = joined
        /\ conn'.dead = conn.dead /\ conn'.draining = conn.draining
        /\ conn'.setup_deadline = conn.setup_deadline
        /\ conn'.write_deadline = conn.write_deadline
        /\ conn'.write_timed_out = conn.write_timed_out
        /\ conn'.setup_timed_out = conn.setup_timed_out
    BY <1>1, <1>7, <2>1 DEF Connections, joined
  <2>3. TypeOK'
    BY <1>1, <1>2, <1>7, <2>1, <2>2 DEF TypeOK
  <2>4. TaskInv'
    BY <1>1, <1>7, <2>2 DEF IOInv, TaskInv, Polling
  <2>5. WireInv'
    BY <1>1, <1>2, <1>3, <1>7, <1>a, <1>b, <2>1, <2>2
    DEF WireInv, Follow, Unsent, InSend, Writing, Polling
  <2>6. DeadlineInv'
    BY <1>1, <1>7, <2>2 DEF IOInv, DeadlineInv, InSend, Writing, Polling, Waited
  <2>7. PreflightVerdict' /\ TimeoutIsOwn'
    BY <1>1, <1>7, <2>2, SameResult DEF IOInv, PreflightVerdict, connection_usable
  <2> QED BY <2>3, <2>4, <2>5, <2>6, <2>7 DEF IOInv
<1>8. CASE /\ NextChunk.len > Cap /\ conn.buffer.len = 0
           /\ task' = WriteAll(NextChunk, "session") /\ conn' = conn
  <2>1. task' = [WriteAll(NextChunk, "session") EXCEPT !.chunk = task.chunk]
    BY <1>8 DEF WriteAll
  <2>2. task.chunk \in Span
    BY <1>1 DEF Tasks
  <2>3. NextChunk.first = wire.len + 1 /\ NextChunk.len = session'.next - 1 - wire.len
    BY <1>2, <1>8, <1>a, <1>b
  <2> QED BY <1>2, <1>6, <1>8, <2>1, <2>2, <2>3
<1>9. ASSUME NEW after \in {"direct", "append"}, conn.buffer.len > 0, conn' = conn,
             task' = [WriteAll(conn.buffer, after) EXCEPT !.chunk = NextChunk],
             after = "append" => NextChunk.len <= Cap
      PROVE  IOInv'
  <2>1. /\ conn.buffer.first = wire.len + 1
        /\ conn.buffer.len + NextChunk.len = session'.next - 1 - wire.len
        /\ NextChunk.first = wire.len + conn.buffer.len + 1
    BY <1>3, <1>9, <1>b
  <2> QED BY <1>2, <1>4, <1>6, <1>9, <2>1
<1> QED BY <1>5, <1>7, <1>8, <1>9

\* A flush is over: the chunk that waited for it is next.
LEMMA Flushed ==
    ASSUME IOInv, AfterFlush
    PROVE  IOInv'
<1>1. /\ task \in Tasks /\ conn \in Connections /\ TypeOK
      /\ task.pc \in {"direct", "append"}
      /\ UNCHANGED <<session, wire, socket, result, now>>
  BY DEF IOInv, TypeOK, AfterFlush
<1>2. /\ task.op # "none" /\ ~conn.dead /\ ~wire.torn
      /\ Unsent = task.chunk.len /\ task.chunk.first = wire.len + 1
      /\ task.pc = "append" => task.chunk.len <= Cap
      /\ conn.write_deadline = task.deadline
      /\ task.chunk \in Span
  BY <1>1 DEF IOInv, TaskInv, WireInv, DeadlineInv, InSend, Tasks
<1>3. Empty \in Span /\ Empty.len = 0 /\ 0 <= Cap
  BY SizeAssumption DEF Empty, Span
<1>4. Unsent' = Unsent
  BY <1>1 DEF Unsent
<1>5. CASE task.pc = "append"
  <2>1. conn' = [conn EXCEPT !.buffer = task.chunk] /\ task' = Goto("session")
    BY <1>5 DEF AfterFlush
  <2>2. /\ conn' \in Connections /\ conn'.buffer = task.chunk
        /\ conn'.dead = conn.dead /\ conn'.draining = conn.draining
        /\ conn'.setup_deadline = conn.setup_deadline
        /\ conn'.write_deadline = conn.write_deadline
        /\ conn'.write_timed_out = conn.write_timed_out
        /\ conn'.setup_timed_out = conn.setup_timed_out
    BY <1>1, <1>2, <2>1, BufferConn
  <2>3. task' \in Tasks /\ task'.pc = "session" /\ OnlyPC(task, task')
    BY <1>1, <2>1, GotoTask DEF Locations
  <2>4. TypeOK'
    BY <1>1, <1>2, <1>5, <2>2, <2>3 DEF TypeOK
  <2>5. TaskInv'
    BY <1>1, <1>2, <2>2, <2>3 DEF IOInv, TaskInv, Polling, Receiving, OnlyPC
  <2>6. WireInv'
    BY <1>1, <1>2, <1>4, <2>2, <2>3
    DEF WireInv, Follow, InSend, Writing, Polling
  <2>7. DeadlineInv'
    BY <1>1, <1>2, <2>2, <2>3
    DEF IOInv, DeadlineInv, InSend, Writing, Polling, Waited, OnlyPC
  <2>8. PreflightVerdict' /\ TimeoutIsOwn'
    BY <1>1, <2>2, <2>3, SameResult
    DEF IOInv, PreflightVerdict, connection_usable, OnlyPC
  <2> QED BY <2>4, <2>5, <2>6, <2>7, <2>8 DEF IOInv
<1>6. CASE task.pc = "direct"
  <2>1. /\ conn' = [conn EXCEPT !.buffer = Empty]
        /\ task' = WriteAll(task.chunk, "session")
    BY <1>6 DEF AfterFlush
  <2>2. /\ conn' \in Connections /\ conn'.buffer = Empty
        /\ conn'.dead = conn.dead /\ conn'.draining = conn.draining
        /\ conn'.setup_deadline = conn.setup_deadline
        /\ conn'.write_deadline = conn.write_deadline
        /\ conn'.write_timed_out = conn.write_timed_out
        /\ conn'.setup_timed_out = conn.setup_timed_out
    BY <1>1, <1>3, <2>1, BufferConn
  <2>3. /\ task' \in Tasks /\ task'.pc = "enter" /\ task'.rest = task.chunk
        /\ task'.after = "session" /\ task'.op = task.op /\ task'.last = task.last
        /\ task'.deadline = task.deadline /\ task'.read = task.read
    BY <1>1, <1>2, <2>1, WriteAllTask DEF Locations
  <2>4. TypeOK'
    BY <1>1, <1>3, <2>2, <2>3 DEF TypeOK
  <2>5. TaskInv'
    BY <1>1, <1>2, <2>2, <2>3 DEF IOInv, TaskInv, Polling, Receiving
  <2>6. WireInv'
    BY <1>1, <1>2, <1>3, <1>4, <2>2, <2>3
    DEF WireInv, Follow, InSend, Writing, Polling
  <2>7. DeadlineInv'
    BY <1>1, <1>2, <2>2, <2>3
    DEF IOInv, DeadlineInv, InSend, Writing, Polling, Waited
  <2>8. PreflightVerdict' /\ TimeoutIsOwn'
    BY <1>1, <2>2, <2>3, SameResult DEF IOInv, PreflightVerdict, connection_usable
  <2> QED BY <2>4, <2>5, <2>6, <2>7, <2>8 DEF IOInv
<1> QED BY <1>1, <1>5, <1>6

\* Steps that only change where the operation is.
LEMMA Moves ==
    ASSUME IOInv, UNCHANGED <<conn, session, wire, socket, result, now>>,
           task' \in Tasks, task'.read = task.read,
           TaskInv', WireInv', DeadlineInv'
    PROVE  IOInv'
<1>1. TypeOK'
  BY DEF IOInv, TypeOK
<1>2. PreflightVerdict' /\ TimeoutIsOwn'
  BY SameResult DEF IOInv, PreflightVerdict
<1> QED BY <1>1, <1>2 DEF IOInv

\* nghttp2 has nothing more: what is buffered is flushed.
LEMMA Flushes ==
    ASSUME IOInv, FinalFlush
    PROVE  IOInv'
<1>1. /\ task \in Tasks /\ conn \in Connections /\ TypeOK /\ task.pc = "session"
      /\ UNCHANGED <<conn, session, wire, socket, result, now>>
  BY DEF IOInv, TypeOK, FinalFlush
<1>2. /\ task.op # "none" /\ ~conn.dead /\ ~wire.torn
      /\ Unsent = conn.buffer.len /\ Follow(wire.len, conn.buffer)
      /\ conn.write_deadline = task.deadline /\ Unsent' = Unsent
  BY <1>1 DEF IOInv, TaskInv, WireInv, DeadlineInv, InSend, Unsent
<1>3. CASE conn.buffer.len = 0
  <2>1. task' \in Tasks /\ task'.pc = "return" /\ OnlyPC(task, task')
    BY <1>1, <1>3, GotoTask DEF FinalFlush, Locations
  <2>2. TaskInv'
    BY <1>1, <1>2, <2>1 DEF IOInv, TaskInv, Polling, Receiving, OnlyPC
  <2>3. WireInv'
    BY <1>1, <1>2, <1>3, <2>1 DEF WireInv, InSend, Writing, Polling
  <2>4. DeadlineInv'
    BY <1>1, <1>2, <2>1
    DEF IOInv, DeadlineInv, InSend, Writing, Polling, Waited, OnlyPC
  <2> QED BY <1>1, <2>1, <2>2, <2>3, <2>4, Moves DEF OnlyPC
<1>4. CASE conn.buffer.len # 0
  <2>1. /\ task' \in Tasks /\ task'.pc = "enter" /\ task'.rest = conn.buffer
        /\ task'.after = "return" /\ task'.op = task.op /\ task'.last = task.last
        /\ task'.deadline = task.deadline /\ task'.read = task.read
    BY <1>1, <1>4, WriteAllTask DEF FinalFlush, Locations, Connections
  <2>2. TaskInv'
    BY <1>1, <1>2, <2>1 DEF IOInv, TaskInv, Polling, Receiving
  <2>3. WireInv'
    BY <1>1, <1>2, <2>1 DEF WireInv, Follow, InSend, Writing, Polling
  <2>4. DeadlineInv'
    BY <1>1, <1>2, <2>1 DEF IOInv, DeadlineInv, InSend, Writing, Polling, Waited
  <2> QED BY <1>1, <2>1, <2>2, <2>3, <2>4, Moves
<1> QED BY <1>3, <1>4

\* A write fails, by itself or in nghttp2.
LEMMA SendBreaks ==
    ASSUME IOInv, InSend, UNCHANGED <<conn, session, wire, socket, result, now>>,
           task' = Goto("fail")
    PROVE  IOInv'
<1>1. /\ task' \in Tasks /\ task'.pc = "fail" /\ OnlyPC(task, task')
      /\ task'.cause = task.cause
      /\ task.op # "none" /\ ~conn.dead /\ ~wire.torn
      /\ conn.write_deadline = task.deadline
  BY GotoTask
  DEF IOInv, TypeOK, TaskInv, WireInv, DeadlineInv, InSend, Writing, Polling, Locations
<1>2. TaskInv'
  BY <1>1 DEF IOInv, TaskInv, Polling, Receiving, OnlyPC
<1>3. WireInv'
  BY <1>1 DEF WireInv, InSend, Writing, Polling
<1>4. DeadlineInv'
  BY <1>1 DEF IOInv, DeadlineInv, InSend, Writing, Polling, Waited, Due, OnlyPC
<1> QED BY <1>1, <1>2, <1>3, <1>4, Moves DEF OnlyPC

\* A write gives up at the deadline.
LEMMA SendExpires ==
    ASSUME IOInv, Writing, UNCHANGED <<session, wire, socket, result, now>>,
           conn' = WriteTimesOut(conn), task' \in Tasks, task'.pc = "fail",
           OnlyPC(task, task'), Waited'
    PROVE  IOInv'
<1>1. /\ task.op # "none" /\ ~conn.dead /\ ~wire.torn
      /\ conn.write_deadline = task.deadline
  BY DEF IOInv, TypeOK, TaskInv, WireInv, DeadlineInv, InSend, Writing, Polling, Locations
<1>2. /\ conn' \in Connections /\ conn'.dead = conn.dead
      /\ conn'.draining = conn.draining /\ conn'.buffer = conn.buffer
      /\ conn'.setup_deadline = conn.setup_deadline
      /\ conn'.write_deadline = conn.write_deadline
  BY TimedOutConn DEF IOInv, TypeOK
<1>3. TypeOK'
  BY <1>1, <1>2 DEF IOInv, TypeOK
<1>4. TaskInv'
  BY <1>1, <1>2 DEF IOInv, TaskInv, Polling, Receiving, OnlyPC
<1>5. WireInv'
  BY <1>1, <1>2 DEF WireInv, InSend, Writing, Polling
<1>6. DeadlineInv'
  BY <1>1, <1>2 DEF IOInv, DeadlineInv, InSend, Writing, Polling, OnlyPC
<1>7. PreflightVerdict' /\ TimeoutIsOwn'
  BY <1>1, <1>2, SameResult DEF IOInv, PreflightVerdict, connection_usable, OnlyPC
<1> QED BY <1>3, <1>4, <1>5, <1>6, <1>7 DEF IOInv

\* The operation stays in the same write, or in the wait for it.
LEMMA WritesOn ==
    ASSUME IOInv, Writing, UNCHANGED <<conn, session, wire, socket, result, now>>,
           task' \in Tasks,
           task'.pc \in {"enter", "write", "poll", "polling"},
           task'.pc \in {"poll", "polling"} => task'.wakes = "write",
           task'.op = task.op, task'.deadline = task.deadline,
           task'.rest = task.rest, task'.after = task.after,
           task'.chunk = task.chunk, task'.last = task.last, task'.read = task.read,
           task'.pc = "polling" =>
               LongEnough(task'.deadline, task'.since, task'.timeout)
    PROVE  IOInv'
<1>1. /\ task.op # "none" /\ task.pc # "idle" /\ ~conn.dead /\ task.pc # "fail"
      /\ conn.write_deadline = task.deadline /\ Writing' /\ InSend' /\ InSend
  BY DEF IOInv, TaskInv, DeadlineInv, InSend, Writing, Polling
<1>2. TaskInv'
  BY <1>1 DEF IOInv, TaskInv, Polling, Receiving
<1>3. WireInv'
  <2>1. Unsent' = Unsent
    BY DEF Unsent
  <2> QED BY <1>1, <2>1 DEF IOInv, WireInv, Follow
<1>4. DeadlineInv'
  BY <1>1 DEF IOInv, DeadlineInv, Waited
<1> QED BY <1>2, <1>3, <1>4, Moves

\* The deadline is checked before each write.
LEMMA WriteEntered ==
    ASSUME IOInv, WriteEnter
    PROVE  IOInv'
<1>1. /\ task \in Tasks /\ task.pc = "enter" /\ Writing /\ InSend
      /\ UNCHANGED <<session, wire, socket, result, now>>
  BY DEF IOInv, TypeOK, WriteEnter, Writing, InSend
<1>2. CASE Expired(WriteDeadline)
  <2>1. task' = Goto("fail") /\ conn' = WriteTimesOut(conn)
    BY <1>2 DEF WriteEnter
  <2>2. task' \in Tasks /\ task'.pc = "fail" /\ OnlyPC(task, task')
    BY <1>1, <2>1, GotoTask DEF Locations
  <2>3. Waited'
    BY <1>1, <1>2, <2>2, OwnDeadline DEF Expired, Waited, Due, OnlyPC
  <2> QED BY <1>1, <2>1, <2>2, <2>3, SendExpires
<1>3. CASE ~Expired(WriteDeadline)
  <2>1. task' = Goto("write") /\ conn' = conn
    BY <1>3 DEF WriteEnter
  <2>2. task' \in Tasks /\ task'.pc = "write" /\ OnlyPC(task, task')
    BY <1>1, <2>1, GotoTask DEF Locations
  <2> QED BY <1>1, <2>1, <2>2, WritesOn DEF OnlyPC
<1> QED BY <1>2, <1>3

\* Some of the bytes are taken, the next ones on the wire.
LEMMA Written ==
    ASSUME IOInv, NEW n \in 1 .. task.rest.len, Write(n)
    PROVE  IOInv'
<1> DEFINE rest == [first |-> task.rest.first + n, len |-> task.rest.len - n]
           pc == IF n = task.rest.len THEN task.after ELSE "enter"
<1>1. /\ task \in Tasks /\ TypeOK /\ task.pc = "write" /\ Writing /\ InSend
      /\ UNCHANGED <<conn, session, socket, result, now>>
      /\ task.op # "none" /\ ~conn.dead /\ conn.write_deadline = task.deadline
      /\ task.after \in {"session", "direct", "append", "return"}
  BY DEF IOInv, TypeOK, Write, Writing, InSend, TaskInv, DeadlineInv
<1>2. /\ wire.len \in Nat /\ session.next \in Nat /\ task.rest.len \in Nat
      /\ task.rest.first \in Nat /\ task.chunk.len \in Nat
      /\ conn.buffer.len \in Nat
  BY <1>1, Numbers
<1>3. n \in Nat \ {0} /\ n <= task.rest.len /\ rest \in Span
      /\ rest.len = task.rest.len - n /\ rest.first = task.rest.first + n
  BY <1>2 DEF Span
<1>4. task.rest.first = wire.len + 1 /\ ~wire.torn
  BY <1>1, <1>2, <1>3 DEF IOInv, WireInv, Follow
<1>5. wire' = [len |-> wire.len + n, torn |-> FALSE]
  BY <1>4 DEF Write
<1>6. wire'.len = wire.len + n /\ wire'.torn = FALSE
      /\ wire' \in [len: Nat, torn: BOOLEAN]
  BY <1>2, <1>3, <1>5
<1>7. pc \in {"enter", "session", "direct", "append", "return"} /\ pc \in Locations
  BY <1>1 DEF Locations
<1>8. task' = [task EXCEPT !.rest = rest, !.pc = pc]
  BY DEF Write
<1>9. Unsent' = Unsent - n /\ Unsent \in Int
  <2>1. Unsent' = session.next - 1 - wire'.len
    BY <1>1 DEF Unsent
  <2> QED BY <1>2, <1>3, <1>6, <2>1 DEF Unsent
<1>10. pc = "enter" \/ (n = task.rest.len /\ pc = task.after)
  OBVIOUS
<1> HIDE DEF rest, pc
<1>11. /\ task' \in Tasks /\ task'.rest = rest /\ task'.pc = pc
       /\ task'.op = task.op /\ task'.deadline = task.deadline
       /\ task'.after = task.after /\ task'.chunk = task.chunk
       /\ task'.last = task.last /\ task'.read = task.read
  <2>1. task \in Tasks /\ rest \in Span /\ pc \in Locations
    BY <1>1, <1>3, <1>7
  <2> QED BY <1>8, <2>1 DEF Tasks
<1>12. TypeOK'
  BY <1>1, <1>6, <1>11 DEF TypeOK
<1>13. TaskInv'
  BY <1>1, <1>7, <1>11 DEF IOInv, TaskInv, Polling, Receiving
<1>14. WireInv'
  <2>1. /\ IF task.after \in {"direct", "append"}
           THEN /\ Unsent = task.rest.len + task.chunk.len
                /\ task.chunk.first = wire.len + task.rest.len + 1
           ELSE Unsent = task.rest.len
        /\ task.after = "session" => conn.buffer.len = 0
        /\ task.after = "append" => task.chunk.len <= Cap
    BY <1>1 DEF IOInv, WireInv
  <2>2. CASE pc = "enter"
    BY <1>1, <1>2, <1>3, <1>4, <1>6, <1>9, <1>11, <2>1, <2>2
    DEF WireInv, Follow, InSend, Writing, Polling
  <2>3. CASE n = task.rest.len /\ pc = task.after
    <3>1. IF task.after \in {"direct", "append"}
          THEN Unsent' = task.chunk.len /\ task.chunk.first = wire'.len + 1
          ELSE Unsent' = 0
      <4>1. n = task.rest.len
        BY <2>3
      <4>2. CASE task.after \in {"direct", "append"}
        <5>1. /\ Unsent = task.rest.len + task.chunk.len
              /\ task.chunk.first = wire.len + task.rest.len + 1
          BY <2>1, <4>2
        <5>2. Unsent' = task.chunk.len
          BY <1>2, <1>9, <4>1, <5>1
        <5> QED BY <1>2, <1>6, <4>1, <4>2, <5>1, <5>2
      <4>3. CASE task.after \notin {"direct", "append"}
        <5>1. Unsent' = 0
          BY <1>2, <1>9, <2>1, <4>1, <4>3
        <5> QED BY <4>3, <5>1
      <4> QED BY <4>2, <4>3
    <3>2. /\ task'.pc = task.after /\ task'.chunk = task.chunk
          /\ conn' = conn /\ ~wire'.torn
      BY <1>1, <1>6, <1>11, <2>3
    <3>3. task'.pc \in {"session", "direct", "append", "return"}
      BY <1>1, <3>2
    <3>4. ~Writing' /\ InSend'
      BY <3>3 DEF InSend, Writing, Polling
    <3> QED BY <2>1, <3>1, <3>2, <3>3, <3>4 DEF WireInv, Follow
  <2> QED BY <1>10, <2>2, <2>3
<1>15. DeadlineInv'
  BY <1>1, <1>7, <1>11 DEF IOInv, DeadlineInv, Waited, InSend, Writing, Polling
<1>16. PreflightVerdict' /\ TimeoutIsOwn'
  BY <1>1, <1>11, SameResult DEF IOInv, PreflightVerdict
<1> QED BY <1>12, <1>13, <1>14, <1>15, <1>16 DEF IOInv

\* The other ends of a write.
LEMMA WriteOther ==
    ASSUME IOInv, WriteBlocks \/ WriteFails
    PROVE  IOInv'
<1>1. CASE WriteBlocks
  <2>1. /\ task' \in Tasks /\ task'.pc = "poll" /\ task'.wakes = "write"
        /\ task'.op = task.op /\ task'.deadline = task.deadline
        /\ task'.rest = task.rest /\ task'.after = task.after
        /\ task'.chunk = task.chunk /\ task'.last = task.last
        /\ task'.read = task.read
    BY <1>1 DEF IOInv, TypeOK, WriteBlocks, Tasks, Locations
  <2>2. Writing /\ UNCHANGED <<conn, session, wire, socket, result, now>>
    BY <1>1 DEF WriteBlocks, Writing
  <2> QED BY <2>1, <2>2, WritesOn
<1>2. CASE WriteFails
  BY <1>2, SendBreaks DEF WriteFails, InSend, Writing
<1> QED BY <1>1, <1>2

-----------------------------------------------------------------------------
(* The steps of poll_fd_until_deadline and of the receive loop.            *)

\* The operation stays in the receive loop, or in the wait for the peer.
LEMMA ReceivesOn ==
    ASSUME IOInv, task.pc \in Receiving \/ Polling("recv"),
           UNCHANGED <<conn, session, wire, socket, result, now>>,
           task' \in Tasks,
           \/ task'.pc \in Receiving
           \/ task'.pc \in {"poll", "polling"} /\ task'.wakes = "recv",
           task'.op = task.op, task'.deadline = task.deadline,
           task'.after = task.after, task'.last = task.last, task'.read = task.read,
           task'.pc = "recvTimedOut" => Waited',
           task'.pc = "polling" =>
               LongEnough(task'.deadline, task'.since, task'.timeout)
    PROVE  IOInv'
<1>1. /\ task.op = "call" /\ ~conn.dead /\ ~InSend /\ ~InSend' /\ ~Writing'
      /\ task'.pc \notin {"session", "direct", "append", "return", "idle", "drain"}
      /\ task.pc # "fail" /\ Unsent = 0 /\ Unsent' = Unsent /\ ~wire.torn
  BY DEF IOInv, TaskInv, WireInv, InSend, Writing, Polling, Receiving, Unsent
<1>2. TaskInv'
  BY <1>1 DEF IOInv, TaskInv, Polling
<1>3. WireInv'
  BY <1>1 DEF WireInv
<1>4. DeadlineInv'
  BY <1>1 DEF IOInv, DeadlineInv
<1> QED BY <1>2, <1>3, <1>4, Moves

\* A wait of an operation runs against its own deadline.
LEMMA OwnPollDeadline ==
    ASSUME IOInv, task.pc \in {"poll", "polling"}
    PROVE  PollDeadline = task.deadline /\ task.wakes \in {"write", "recv"}
<1>1. task.wakes \in {"write", "recv"}
  BY DEF IOInv, TypeOK, Tasks
<1>2. task.wakes = "write" => InSend
  BY DEF InSend, Writing, Polling
<1> QED BY <1>1, <1>2, OwnDeadline DEF PollDeadline

\* A wait is over because the deadline has passed, or was cut.
LEMMA PollTimesOut ==
    ASSUME IOInv, task.pc \in {"poll", "polling"}, NEW cause \in Causes,
           task.deadline > 0, Due(task.op, task.deadline, cause), TimesOut(cause),
           UNCHANGED <<session, wire, socket, result, now>>
    PROVE  IOInv'
<1> DEFINE pc == IF task.wakes = "write" THEN "fail" ELSE "recvTimedOut"
<1>1. task' = [Goto(pc) EXCEPT !.cause = cause] /\ pc \in Locations
  BY DEF TimesOut, Locations
<1>2. /\ task' \in Tasks /\ task'.pc = pc /\ OnlyPC(task, task')
      /\ task'.cause = cause
  BY <1>1, GotoTimedOut DEF IOInv, TypeOK
<1>3. Waited'
  BY <1>2 DEF Waited, Due, OnlyPC
<1>4. CASE task.wakes = "write"
  BY <1>2, <1>3, <1>4, SendExpires DEF TimesOut, Writing, Polling
<1>5. CASE task.wakes # "write"
  <2>1. task.wakes = "recv" /\ task'.pc = "recvTimedOut" /\ conn' = conn
    BY <1>2, <1>5, OwnPollDeadline DEF TimesOut
  <2> QED BY <1>2, <1>3, <2>1, ReceivesOn DEF Polling, Receiving, OnlyPC
<1> QED BY <1>4, <1>5

\* poll begins, is interrupted, or the socket is ready.
LEMMA PollsOn ==
    ASSUME IOInv, task.pc \in {"poll", "polling"},
           UNCHANGED <<conn, session, wire, socket, result, now>>,
           NEW pc \in {"poll", "polling", task.wakes},
           NEW since \in 0 .. MaxTime, NEW timeout \in -1 .. PollMax,
           task' = [task EXCEPT !.pc = pc, !.since = since, !.timeout = timeout],
           LongEnough(task.deadline, since, timeout)
    PROVE  IOInv'
<1>1. task \in Tasks /\ task.wakes \in {"write", "recv"} /\ pc \in Locations
  BY OwnPollDeadline DEF IOInv, TypeOK, Locations
<1>2. /\ task' \in Tasks /\ task'.pc = pc /\ task'.since = since
      /\ task'.timeout = timeout /\ task'.wakes = task.wakes
      /\ task'.op = task.op /\ task'.deadline = task.deadline
      /\ task'.rest = task.rest /\ task'.after = task.after
      /\ task'.chunk = task.chunk /\ task'.last = task.last
      /\ task'.read = task.read
  BY <1>1 DEF Tasks
<1>3. CASE task.wakes = "write"
  BY <1>2, <1>3, WritesOn DEF Writing, Polling
<1>4. CASE task.wakes = "recv"
  BY <1>2, <1>4, ReceivesOn DEF Polling, Receiving
<1> QED BY <1>1, <1>3, <1>4

\* poll_fd_until_deadline.
LEMMA Polls ==
    ASSUME IOInv, PollStep
    PROVE  IOInv'
<1>1. /\ now \in 0 .. MaxTime /\ task.deadline \in 0 .. MaxTime
      /\ task.since \in 0 .. MaxTime /\ task.timeout \in -1 .. PollMax
      /\ 0 \in 0 .. MaxTime /\ 0 \in -1 .. PollMax
  BY Numbers, SizeAssumption DEF IOInv
<1>a. LongEnough(task.deadline, 0, 0)
  BY DEF LongEnough
<1>2. CASE PollStart
  <2> DEFINE p == poll_timeout_ms_for_deadline(task.deadline)
  <2>1. /\ task.pc = "poll" /\ PollDeadline = task.deadline
        /\ UNCHANGED <<session, wire, socket, result, now>>
    BY <1>2, OwnPollDeadline DEF PollStart
  <2>2. /\ p \in -1 .. PollMax
        /\ p = 0 => task.deadline > 0 /\ Due(task.op, task.deadline, "deadline")
        /\ LongEnough(task.deadline, now, p)
    BY <1>1, PollTimeout DEF Due, LongEnough
  <2>3. IF p = 0 THEN TimesOut("deadline")
        ELSE /\ task' = [task EXCEPT !.pc = "polling", !.since = now, !.timeout = p]
             /\ conn' = conn
    BY <1>2, <2>1 DEF PollStart
  <2> HIDE DEF p
  <2>4. CASE p = 0
    BY <2>1, <2>2, <2>3, <2>4, PollTimesOut DEF Causes
  <2>5. CASE p # 0
    BY <1>1, <2>1, <2>2, <2>3, <2>5, PollsOn
  <2> QED BY <2>4, <2>5
<1>3. CASE PollReady
  <2>1. /\ task.pc = "polling" /\ PollDeadline = task.deadline
        /\ UNCHANGED <<session, wire, socket, result, now>>
    BY <1>3, OwnPollDeadline DEF PollReady
  <2>2. CASE Expired(PollDeadline)
    <3>1. /\ task.deadline > 0 /\ Due(task.op, task.deadline, "deadline")
          /\ TimesOut("deadline")
      BY <1>3, <2>1, <2>2 DEF PollReady, Expired, Due
    <3> QED BY <2>1, <3>1, PollTimesOut DEF Causes
  <2>3. CASE ~Expired(PollDeadline)
    <3>1. /\ conn' = conn
          /\ task' = [task EXCEPT !.pc = task.wakes, !.since = 0, !.timeout = 0]
      BY <1>3, <2>3 DEF PollReady
    <3> QED BY <1>1, <1>a, <2>1, <3>1, PollsOn
  <2> QED BY <2>2, <2>3
<1>4. CASE PollInterrupted
  BY <1>1, <1>a, <1>4, PollsOn DEF PollInterrupted
<1>5. CASE PollExpires
  <2> DEFINE cause == IF Cut THEN "cut" ELSE "deadline"
             m == task.timeout * UsPerMs
  <2>1. /\ task.pc = "polling" /\ task.timeout > 0 /\ TimesOut(cause)
        /\ now >= Smaller(task.since + m, MaxTime)
        /\ UNCHANGED <<session, wire, socket, result, now>>
        /\ PollDeadline = task.deadline /\ cause \in Causes
    BY <1>5, OwnPollDeadline DEF PollExpires, Causes
  <2>2. /\ task.deadline > 0
        /\ task.timeout = PollMax \/ task.since + m >= task.deadline
    BY <2>1 DEF IOInv, DeadlineInv, LongEnough
  <2>3. m \in Nat /\ (task.timeout = PollMax => m = PollMax * UsPerMs)
    BY <1>1, <2>1, SizeAssumption
  <2> HIDE DEF m
  <2>4. CASE Cut
    <3>1. m = PollMax * UsPerMs /\ task.deadline > task.since + m
      BY <2>1, <2>3, <2>4 DEF Cut
    <3>2. now >= m
      BY <1>1, <2>1, <2>3, <3>1, SizeAssumption DEF Smaller
    <3>3. Due(task.op, task.deadline, "cut")
      BY <3>1, <3>2 DEF Due
    <3> QED BY <2>1, <2>2, <2>4, <3>3, PollTimesOut
  <2>5. CASE ~Cut
    <3>1. task.since + m >= task.deadline
      BY <1>1, <2>1, <2>2, <2>3, <2>5 DEF Cut
    <3>2. now >= task.deadline
      BY <1>1, <2>1, <2>3, <3>1, SizeAssumption DEF Smaller
    <3>3. Due(task.op, task.deadline, "deadline")
      BY <3>2 DEF Due
    <3> QED BY <2>1, <2>2, <2>5, <3>3, PollTimesOut
  <2> QED BY <2>4, <2>5
<1>6. CASE PollFails
  <2>1. /\ task.pc = "polling" /\ task.wakes \in {"write", "recv"}
        /\ UNCHANGED <<conn, session, wire, socket, result, now>>
    BY <1>6, OwnPollDeadline DEF PollFails
  <2>2. CASE task.wakes = "write"
    BY <1>6, <2>1, <2>2, SendBreaks DEF PollFails, InSend, Writing, Polling
  <2>3. CASE task.wakes = "recv"
    <3>1. task' \in Tasks /\ task'.pc = "recvFails" /\ OnlyPC(task, task')
      BY <1>6, <2>3, GotoTask DEF PollFails, IOInv, TypeOK, Locations
    <3> QED BY <2>1, <2>3, <3>1, ReceivesOn DEF Polling, Receiving, OnlyPC
  <2> QED BY <2>1, <2>2, <2>3
<1> QED BY <1>2, <1>3, <1>4, <1>5, <1>6 DEF PollStep

-----------------------------------------------------------------------------
(* How operations and sends begin and end.                                 *)

\* nghttp2 gets something to send.
LEMMA Produced ==
    ASSUME TypeOK, CanProduce, NEW chunks \in Seq(Nat \ {0}),
           session' = Produce(session, chunks)
    PROVE  /\ session' \in [queue: Seq(Nat \ {0}), frames: 0 .. MaxFrames, next: Nat]
           /\ session'.next = session.next
<1> DEFINE Q == Seq(Nat \ {0})
           q == session.queue \o chunks
           f == session.frames + 1
<1>1. session \in [queue: Q, frames: 0 .. MaxFrames, next: Nat]
  BY DEF TypeOK
<1>2. q \in Q
  BY <1>1
<1>3. f \in 0 .. MaxFrames
  BY <1>1, SizeAssumption DEF CanProduce
<1>4. session' = [session EXCEPT !.queue = q, !.frames = f]
  BY DEF Produce
<1> HIDE DEF Q, q, f
<1>5. session' \in [queue: Q, frames: 0 .. MaxFrames, next: Nat]
      /\ session'.next = session.next
  BY <1>1, <1>2, <1>3, <1>4
<1> QED BY <1>5 DEF Q

\* An answer is one chunk.
LEMMA AnswerChunks == Answer \in Seq(Nat \ {0})
BY DEF Answer

\* Between sends all is sent, and no deadline but the operation's is left.
LEMMA Quiet ==
    ASSUME IOInv, ~conn.dead, ~InSend
    PROVE  /\ ~wire.torn /\ Unsent = 0 /\ conn.setup_deadline = 0
           /\ ~conn.write_timed_out /\ ~conn.setup_timed_out
           /\ task.op \in {"none", "call", "preflight"}
<1>1. task.pc \in {"idle", "drain"} \cup Receiving \/ Polling("recv")
  BY DEF IOInv, TypeOK, Tasks, Locations, InSend, Writing, Polling, Receiving
<1>2. task.op \in {"none", "call", "preflight"}
  BY <1>1 DEF IOInv, TaskInv
<1>3. task.pc # "fail"
  BY DEF InSend
<1> QED BY <1>2, <1>3 DEF IOInv, WireInv, DeadlineInv

\* What PHP is told of an operation that begins or ends is true.
TellsTruth ==
    /\ result' \in Results
    /\ result'.op = "preflight" =>
        IF result'.ok THEN result'.usable /\ result'.unread = 0
                      ELSE ~connection_usable(conn')
    /\ TimeoutIsOwn'

\* An operation ends: its connection is dead, or all is sent.
LEMMA OperationOver ==
    ASSUME IOInv, UNCHANGED <<session, wire, now>>,
           socket' \in [inbox: Nat, arrived: 0 .. MaxArrivals, peer: {"open", "gone", "lost"}],
           task' = NoTask, conn' \in Connections, conn'.buffer.len <= Cap,
           \/ conn'.dead
           \/ /\ Unsent = 0 /\ conn'.setup_deadline = 0
              /\ ~conn'.write_timed_out /\ ~conn'.setup_timed_out,
           TellsTruth
    PROVE  IOInv'
<1>1. /\ task' \in Tasks /\ task'.op = "none" /\ task'.pc = "idle"
      /\ task'.after = "return" /\ task'.last = FALSE /\ task'.read = 0
  BY IdleTask
<1>2. /\ ~InSend' /\ ~Writing' /\ Unsent' = Unsent /\ ~wire.torn
  BY <1>1 DEF IOInv, WireInv, InSend, Writing, Polling, Unsent
<1>3. TypeOK'
  BY <1>1 DEF IOInv, TypeOK, TellsTruth
<1>4. TaskInv'
  BY <1>1 DEF TaskInv, Polling, Receiving
<1>5. WireInv'
  BY <1>1, <1>2 DEF WireInv
<1>6. DeadlineInv'
  BY <1>1, <1>2 DEF DeadlineInv
<1>7. PreflightVerdict' /\ TimeoutIsOwn'
  BY <1>1, SizeAssumption DEF PreflightVerdict, TellsTruth
<1> QED BY <1>3, <1>4, <1>5, <1>6, <1>7 DEF IOInv

\* The head of send_pending_h2_frames_with_deadline.
LEMMA SendBegins ==
    ASSUME IOInv, ~conn.dead, ~InSend, UNCHANGED <<wire, now>>,
           session' \in [queue: Seq(Nat \ {0}), frames: 0 .. MaxFrames, next: Nat],
           session'.next = session.next,
           socket' \in [inbox: Nat, arrived: 0 .. MaxArrivals, peer: {"open", "gone", "lost"}],
           NEW c \in Connections, c.dead = conn.dead,
           c.setup_deadline = conn.setup_deadline,
           c.setup_timed_out = conn.setup_timed_out,
           conn' = StartSend(c, task'.deadline),
           task' \in Tasks, task'.pc = "session",
           task'.op \in {"call", "cancel", "preflight"},
           task'.op = "preflight" => ~c.draining,
           task'.last => task'.op = "call", task'.read <= DrainMax,
           task'.after \in {"session", "direct", "append", "return"},
           TellsTruth
    PROVE  IOInv'
<1>1. task'.deadline \in 0 .. MaxTime
  BY DEF Tasks
<1>2. /\ conn' \in Connections /\ conn'.dead = FALSE /\ conn'.draining = c.draining
      /\ conn'.setup_deadline = 0 /\ ~conn'.setup_timed_out
      /\ conn'.write_deadline = task'.deadline /\ ~conn'.write_timed_out
      /\ conn'.buffer = Empty /\ Unsent = 0 /\ ~wire.torn
  BY <1>1, SendConn, Quiet DEF Connections
<1>3. Empty.len = 0 /\ 0 <= Cap /\ Unsent' = Unsent
  BY SizeAssumption DEF Empty, Unsent
<1>4. TypeOK'
  BY <1>2, <1>3 DEF IOInv, TypeOK, TellsTruth
<1>5. TaskInv'
  BY <1>2 DEF TaskInv, Polling, Receiving
<1>6. WireInv'
  BY <1>2, <1>3 DEF WireInv, InSend, Writing, Polling, Follow
<1>7. DeadlineInv'
  BY <1>2 DEF DeadlineInv, InSend, Writing, Polling
<1>8. PreflightVerdict' /\ TimeoutIsOwn'
  BY DEF PreflightVerdict, TellsTruth
<1> QED BY <1>4, <1>5, <1>6, <1>7, <1>8 DEF IOInv

\* What PHP was told before is still true of a connection no better than it was.
LEMMA ToldBefore ==
    ASSUME IOInv, result' = result, now' = now, socket'.peer = socket.peer,
           ~connection_usable(conn) => ~connection_usable(conn')
    PROVE  TellsTruth
BY DEF IOInv, TypeOK, PreflightVerdict, TimeoutIsOwn, Due, TellsTruth

\* An operation other than preflight that did not time out.
LEMMA ToldNow ==
    ASSUME IOInv, NEW op \in {"setup", "call", "cancel"}, NEW ok \in BOOLEAN,
           result' = Result(op, ok, FALSE)
    PROVE  TellsTruth
<1>1. task \in Tasks /\ op \in {"setup", "call", "cancel", "preflight"}
  BY DEF IOInv, TypeOK
<1>2. result' \in Results /\ result'.op = op /\ result'.expired = FALSE
  <2>1. "deadline" \in Causes /\ 0 \in 0 .. MaxTime
    BY SizeAssumption DEF Causes
  <2> QED BY <1>1, <2>1 DEF Result, Results
<1> QED BY <1>2 DEF TimeoutIsOwn, TellsTruth

\* An operation that failed and left the connection unusable.
LEMMA ToldFailed ==
    ASSUME IOInv, NEW op \in {"setup", "call", "cancel", "preflight"},
           ~connection_usable(conn'), result' = Result(op, FALSE, FALSE)
    PROVE  TellsTruth
<1>1. /\ result' \in Results /\ result'.ok = FALSE /\ result'.expired = FALSE
  BY ResultFields, ZenonT(60) DEF IOInv, TypeOK
<1> QED BY <1>1 DEF TimeoutIsOwn, TellsTruth

\* An operation that timed out.
LEMMA ToldTimedOut ==
    ASSUME IOInv, Waited, UNCHANGED <<socket, now>>,
           NEW op \in {"setup", "call", "cancel", "preflight"}, task.op = op,
           ~connection_usable(conn') \/ op # "preflight",
           result' = Result(op, FALSE, TRUE)
    PROVE  TellsTruth
<1>1. /\ result' \in Results /\ result'.op = op /\ result'.ok = FALSE
      /\ result'.deadline = task.deadline
      /\ result'.cause = task.cause
  BY ResultFields, ZenonT(60) DEF IOInv, TypeOK
<1> QED BY <1>1 DEF TellsTruth, TimeoutIsOwn, Waited, Due

-----------------------------------------------------------------------------
(* The remaining steps.                                                    *)

\* All is sent: the operation is over, or receives or drains on.
LEMMA SendReturns ==
    ASSUME IOInv, SendSucceeds
    PROVE  IOInv'
<1>1. /\ task \in Tasks /\ conn \in Connections /\ task.pc = "return"
      /\ task.op \in {"setup", "call", "cancel", "preflight"}
      /\ ~conn.dead /\ ~wire.torn /\ Unsent = 0
      /\ ~conn.write_timed_out /\ ~conn.setup_timed_out
      /\ task.op # "setup" => conn.setup_deadline = 0
      /\ UNCHANGED <<session, wire, socket, now>> /\ Unsent' = Unsent
  BY DEF IOInv, TypeOK, TaskInv, WireInv, DeadlineInv, SendSucceeds, Tasks, Unsent
<1>2. Empty.len <= Cap /\ 0 \in 0 .. MaxTime
  BY SizeAssumption DEF Empty
<1>3. /\ conn' \in Connections /\ conn'.dead = FALSE
      /\ conn'.draining = conn.draining /\ conn'.setup_deadline = 0
      /\ ~conn'.setup_timed_out /\ ~conn'.write_timed_out
      /\ conn'.buffer.len <= Cap
  <2>1. LET e == EndSend(conn) IN
        /\ e \in Connections /\ e.dead = FALSE /\ e.draining = conn.draining
        /\ e.setup_deadline = conn.setup_deadline /\ ~e.setup_timed_out
        /\ ~e.write_timed_out /\ e.buffer.len <= Cap
    BY <1>1, <1>2, SendConn DEF Connections
  <2>2. CASE task.op = "setup"
    BY <1>2, <2>1, <2>2 DEF SendSucceeds, EndSetup, Connections
  <2>3. CASE task.op # "setup"
    BY <1>1, <2>1, <2>3 DEF SendSucceeds
  <2> QED BY <2>2, <2>3
<1>4. CASE task.op \in {"setup", "cancel"} \/ task.last
  <2>1. task.op \in {"setup", "call", "cancel"}
    BY <1>4 DEF IOInv, TaskInv
  <2>2. task' = NoTask /\ result' = Result(task.op, TRUE, FALSE)
    BY <1>4 DEF SendSucceeds, Returns
  <2>3. TellsTruth
    BY <2>1, <2>2, ToldNow
  <2>4. socket' \in [inbox: Nat, arrived: 0 .. MaxArrivals, peer: {"open", "gone", "lost"}]
    BY <1>1 DEF IOInv, TypeOK
  <2> QED BY <1>1, <1>3, <2>2, <2>3, <2>4, OperationOver
<1>5. CASE ~(task.op \in {"setup", "cancel"} \/ task.last)
  <2> DEFINE pc == IF task.op = "call" THEN "recvEnter" ELSE "drain"
  <2>1. /\ task.op \in {"call", "preflight"} /\ task' = Goto(pc) /\ result' = result
        /\ pc \in Locations
    BY <1>1, <1>5 DEF SendSucceeds, Locations
  <2>2. /\ task' \in Tasks /\ task'.pc = pc /\ OnlyPC(task, task')
    BY <1>1, <2>1, GotoTask
  <2>3. ~InSend' /\ ~Writing'
    BY <2>2 DEF InSend, Writing, Polling
  <2>4. TypeOK'
    BY <1>1, <1>3, <2>1, <2>2 DEF IOInv, TypeOK
  <2>5. TaskInv'
    BY <1>3, <2>1, <2>2 DEF IOInv, TaskInv, Polling, Receiving, OnlyPC
  <2>6. WireInv'
    BY <1>1, <2>2, <2>3 DEF WireInv
  <2>7. DeadlineInv'
    BY <1>3, <2>1, <2>2, <2>3 DEF DeadlineInv, OnlyPC
  <2>8. PreflightVerdict' /\ TimeoutIsOwn'
    BY <1>1, <1>3, <2>1, <2>2, SameResult
    DEF IOInv, PreflightVerdict, connection_usable, OnlyPC
  <2> QED BY <2>4, <2>5, <2>6, <2>7, <2>8 DEF IOInv
<1> QED BY <1>4, <1>5

\* A failed send: the connection is dead.
LEMMA SendGivesUp ==
    ASSUME IOInv, SendFails
    PROVE  IOInv'
<1> DEFINE expired == conn.write_timed_out \/ conn.setup_timed_out
<1>1. /\ task \in Tasks /\ conn \in Connections /\ task.pc = "fail"
      /\ task.op \in {"setup", "call", "cancel", "preflight"} /\ ~conn.dead
      /\ task' = NoTask /\ UNCHANGED <<session, wire, socket, now>>
      /\ conn' = DieInSend(conn) /\ result' = Result(task.op, FALSE, expired)
      /\ socket \in [inbox: Nat, arrived: 0 .. MaxArrivals, peer: {"open", "gone", "lost"}]
  BY DEF IOInv, TypeOK, TaskInv, SendFails, Returns, Tasks
<1>a. expired \in BOOLEAN
  BY <1>1 DEF Connections
<1>b. expired => Waited
  BY <1>1 DEF IOInv, DeadlineInv
<1> HIDE DEF expired
<1>2. Empty.len <= Cap /\ 0 \in 0 .. MaxTime
  BY SizeAssumption DEF Empty
<1>3. conn' \in Connections /\ conn'.dead = TRUE /\ conn'.buffer.len <= Cap
  <2>1. mark_connection_dead(conn) \in Connections /\ mark_connection_dead(conn).dead
    BY <1>1 DEF mark_connection_dead, Connections
  <2> QED BY <1>1, <1>2, <2>1, SendConn DEF DieInSend, Connections
<1>4. ~connection_usable(conn')
  BY <1>3 DEF connection_usable
<1>5. TellsTruth
  <2>1. CASE expired
    <3>1. expired = TRUE
      BY <1>a, <2>1
    <3>2. result' = Result(task.op, FALSE, TRUE)
      BY <1>1, <3>1
    <3> QED BY <1>1, <1>4, <1>b, <2>1, <3>2, ToldTimedOut
  <2>2. CASE ~expired
    <3>1. result' = Result(task.op, FALSE, FALSE)
      BY <1>1, <1>a, <2>2
    <3> QED BY <1>1, <1>4, <3>1, ToldFailed
  <2> QED BY <2>1, <2>2
<1> QED BY <1>1, <1>3, <1>5, OperationOver

\* The receive loop checks the deadline and waits.
LEMMA Receives ==
    ASSUME IOInv, RecvEnter \/ RecvBlocks \/ RecvLost
    PROVE  IOInv'
<1>1. task \in Tasks /\ UNCHANGED <<conn, session, wire, socket, result, now>>
  BY DEF IOInv, TypeOK, RecvEnter, RecvBlocks, RecvLost
<1>2. CASE RecvEnter
  <2> DEFINE pc == IF Expired(task.deadline) THEN "recvTimedOut" ELSE "recv"
  <2>1. task.pc = "recvEnter" /\ task' = Goto(pc) /\ pc \in Locations
    BY <1>2 DEF RecvEnter, Locations
  <2>2. task' \in Tasks /\ task'.pc = pc /\ OnlyPC(task, task')
    BY <1>1, <2>1, GotoTask
  <2>3. task'.pc = "recvTimedOut" => Waited'
    BY <1>1, <2>2 DEF Expired, Waited, Due, OnlyPC
  <2> QED BY <1>1, <2>1, <2>2, <2>3, ReceivesOn DEF Receiving, OnlyPC
<1>3. CASE RecvBlocks
  <2>1. /\ task' \in Tasks /\ task'.pc = "poll" /\ task'.wakes = "recv"
        /\ task'.op = task.op /\ task'.deadline = task.deadline
        /\ task'.after = task.after /\ task'.last = task.last
        /\ task'.read = task.read /\ task.pc = "recv"
    BY <1>1, <1>3, ZenonT(60) DEF RecvBlocks, Tasks, Locations
  <2> QED BY <1>1, <2>1, ReceivesOn DEF Receiving
<1>4. CASE RecvLost
  <2>1. /\ task.pc = "recv" /\ socket.peer = "lost" /\ task.deadline > 0
        /\ task' = [Goto("recvTimedOut") EXCEPT !.cause = "kernel"]
    BY <1>4 DEF RecvLost
  <2>2. /\ task' \in Tasks /\ task'.pc = "recvTimedOut" /\ OnlyPC(task, task')
        /\ task'.cause = "kernel"
    BY <1>1, <2>1, GotoTimedOut DEF Locations, Causes
  <2>3. task.op = "call"
    BY <2>1 DEF IOInv, TaskInv, Receiving
  <2>4. Waited'
    BY <1>1, <2>1, <2>2, <2>3 DEF Waited, Due, OnlyPC
  <2> QED BY <1>1, <2>1, <2>2, <2>4, ReceivesOn DEF Receiving, OnlyPC
<1> QED BY <1>2, <1>3, <1>4

\* Bytes are read from the socket.
LEMMA Taken ==
    ASSUME TypeOK, NEW n \in Nat, n <= socket.inbox,
           socket' = [socket EXCEPT !.inbox = @ - n]
    PROVE  /\ socket' \in [inbox: Nat, arrived: 0 .. MaxArrivals,
                            peer: {"open", "gone", "lost"}]
           /\ socket'.peer = socket.peer
<1> DEFINE left == socket.inbox - n
<1>1. left \in Nat
  BY Numbers
<1>2. socket' = [socket EXCEPT !.inbox = left]
  OBVIOUS
<1> HIDE DEF left
<1> QED BY <1>1, <1>2 DEF TypeOK

\* Frames are received: the call is over, receives on or answers.
LEMMA Received ==
    ASSUME IOInv, Recv
    PROVE  IOInv'
<1>1. /\ task \in Tasks /\ conn \in Connections /\ TypeOK /\ task.pc = "recv"
      /\ task.op = "call" /\ ~conn.dead /\ ~InSend /\ UNCHANGED <<wire, now>>
  BY DEF IOInv, TypeOK, TaskInv, Recv, Receiving, InSend, Writing, Polling
<1>2. /\ ~wire.torn /\ Unsent = 0 /\ conn.setup_deadline = 0
      /\ ~conn.write_timed_out /\ ~conn.setup_timed_out
  BY <1>1, Quiet
<1>3. conn.buffer.len <= Cap
  BY <1>1 DEF TypeOK
<1>4. PICK n \in 1 .. Smaller(ScratchLen, socket.inbox),
           goaway \in BOOLEAN, last \in BOOLEAN, active \in {0, 1}:
        LET c == [conn EXCEPT !.draining = @ \/ goaway, !.active = active] IN
        /\ socket' = [socket EXCEPT !.inbox = @ - n]
        /\ \/ /\ conn' = c
              /\ IF last THEN Returns(Result("call", TRUE, FALSE))
                         ELSE task' = Goto("recvEnter") /\ UNCHANGED result
              /\ UNCHANGED session
           \/ /\ CanProduce
              /\ session' = Produce(session, Answer)
              /\ conn' = StartSend(c, task.deadline)
              /\ task' = [Goto("session") EXCEPT !.last = last]
              /\ UNCHANGED result
  BY DEF Recv
<1> DEFINE c == [conn EXCEPT !.draining = @ \/ goaway, !.active = active]
<1>5. /\ c \in Connections /\ c.dead = conn.dead /\ c.buffer = conn.buffer
      /\ c.setup_deadline = conn.setup_deadline
      /\ c.write_deadline = conn.write_deadline
      /\ c.write_timed_out = conn.write_timed_out
      /\ c.setup_timed_out = conn.setup_timed_out
      /\ conn.draining => c.draining
  BY <1>1 DEF Connections
<1>6. /\ socket' \in [inbox: Nat, arrived: 0 .. MaxArrivals, peer: {"open", "gone", "lost"}]
      /\ socket'.peer = socket.peer
  <2>1. n \in Nat /\ n <= socket.inbox
    BY <1>1, Numbers, SizeAssumption DEF Smaller
  <2> QED BY <1>1, <1>4, <2>1, Taken
<1>7. \/ conn' = c /\ last /\ Returns(Result("call", TRUE, FALSE)) /\ session' = session
      \/ conn' = c /\ task' = Goto("recvEnter") /\ UNCHANGED <<result, session>>
      \/ /\ CanProduce /\ session' = Produce(session, Answer)
         /\ conn' = StartSend(c, task.deadline)
         /\ task' = [Goto("session") EXCEPT !.last = last] /\ result' = result
  BY <1>4
<1> HIDE DEF c
<1>8. CASE conn' = c /\ last /\ Returns(Result("call", TRUE, FALSE)) /\ session' = session
  <2>1. TellsTruth
    BY <1>8, ToldNow DEF Returns
  <2> QED BY <1>1, <1>2, <1>3, <1>5, <1>6, <1>8, <2>1, OperationOver DEF Returns
<1>9. CASE conn' = c /\ task' = Goto("recvEnter") /\ UNCHANGED <<result, session>>
  <2>1. /\ task' \in Tasks /\ task'.pc = "recvEnter" /\ OnlyPC(task, task')
    BY <1>1, <1>9, GotoTask DEF Locations
  <2>2. ~InSend' /\ ~Writing' /\ Unsent' = Unsent
    BY <1>1, <1>9, <2>1 DEF InSend, Writing, Polling, Unsent
  <2>3. TypeOK'
    BY <1>1, <1>5, <1>6, <1>9, <2>1 DEF TypeOK
  <2>4. TaskInv'
    BY <1>1, <1>5, <1>9, <2>1 DEF IOInv, TaskInv, Polling, Receiving, OnlyPC
  <2>5. WireInv'
    BY <1>1, <1>2, <2>1, <2>2 DEF WireInv
  <2>6. DeadlineInv'
    BY <1>1, <1>2, <1>5, <1>9, <2>1, <2>2 DEF DeadlineInv, OnlyPC
  <2>7. PreflightVerdict' /\ TimeoutIsOwn'
    BY <1>1, <1>5, <1>6, <1>9, <2>1, SameResult
    DEF IOInv, PreflightVerdict, connection_usable, OnlyPC
  <2> QED BY <2>3, <2>4, <2>5, <2>6, <2>7 DEF IOInv
<1>10. CASE /\ CanProduce /\ session' = Produce(session, Answer)
            /\ conn' = StartSend(c, task.deadline)
            /\ task' = [Goto("session") EXCEPT !.last = last] /\ result' = result
  <2>1. /\ session' \in [queue: Seq(Nat \ {0}), frames: 0 .. MaxFrames, next: Nat]
        /\ session'.next = session.next
    BY <1>1, <1>10, Produced, AnswerChunks
  <2>2. /\ task' \in Tasks /\ task'.pc = "session" /\ task'.op = "call"
        /\ task'.deadline = task.deadline /\ task'.read = task.read
        /\ task'.after = task.after
    BY <1>1, <1>4, <1>10 DEF Goto, Tasks, Locations
  <2>3. /\ task'.read <= DrainMax
        /\ task'.after \in {"session", "direct", "append", "return"}
    BY <2>2 DEF IOInv, PreflightVerdict, TaskInv
  <2>4. conn'.draining = c.draining /\ conn'.dead = c.dead
    BY <1>1, <1>5, <1>10, SendConn DEF Tasks
  <2>5. TellsTruth
    BY <1>1, <1>5, <1>6, <1>10, <2>4, ToldBefore DEF connection_usable
  <2> QED BY <1>1, <1>5, <1>6, <1>10, <2>1, <2>2, <2>3, <2>5, SendBegins
<1> QED BY <1>7, <1>8, <1>9, <1>10

\* Only dead and active change.
LEMMA DeadConn ==
    ASSUME NEW c \in Connections
    PROVE  LET e == mark_connection_dead(c) IN
           e \in Connections /\ e.dead = TRUE /\ e.buffer = c.buffer
BY DEF mark_connection_dead, Connections

\* Receiving fails: the connection is dead.
LEMMA ReceiveFails ==
    ASSUME IOInv, RecvFails
    PROVE  IOInv'
<1>1. /\ conn \in Connections /\ conn.buffer.len <= Cap
      /\ conn' = mark_connection_dead(conn) /\ task' = NoTask
      /\ result' = Result("call", FALSE, FALSE)
      /\ UNCHANGED <<session, wire, socket, now>>
      /\ socket \in [inbox: Nat, arrived: 0 .. MaxArrivals, peer: {"open", "gone", "lost"}]
  BY DEF IOInv, TypeOK, RecvFails, Returns
<1>2. conn' \in Connections /\ conn'.dead = TRUE /\ conn'.buffer = conn.buffer
  BY <1>1, DeadConn
<1>3. TellsTruth
  BY <1>1, ToldNow
<1> QED BY <1>1, <1>2, <1>3, OperationOver

\* A call times out while it receives: its stream is reset.
LEMMA ReceiveTimesOut ==
    ASSUME IOInv, RecvTimesOut
    PROVE  IOInv'
<1>1. /\ conn \in Connections /\ conn.buffer.len <= Cap /\ TypeOK
      /\ task.pc = "recvTimedOut" /\ task.op = "call" /\ ~conn.dead /\ ~InSend
      /\ Waited
      /\ result' = Result("call", FALSE, TRUE) /\ UNCHANGED <<wire, socket, now>>
      /\ socket \in [inbox: Nat, arrived: 0 .. MaxArrivals, peer: {"open", "gone", "lost"}]
  BY DEF IOInv, TypeOK, TaskInv, DeadlineInv, RecvTimesOut, Receiving, InSend,
         Writing, Polling
<1>2. TellsTruth
  BY <1>1, ToldTimedOut
<1>3. CancelDeadline \in 0 .. MaxTime
  BY <1>1, Numbers, SizeAssumption DEF CancelDeadline, Smaller
<1>4. PICK active \in {0, conn.active}:
        LET c == [conn EXCEPT !.active = active] IN
        \/ /\ CanProduce
           /\ session' = Produce(session, Answer)
           /\ conn' = StartSend(c, CancelDeadline)
           /\ task' = Begin("cancel", "session", CancelDeadline)
        \/ /\ conn' = mark_connection_dead(c)
           /\ task' = NoTask
           /\ UNCHANGED session
  BY DEF RecvTimesOut
<1> DEFINE c == [conn EXCEPT !.active = active]
<1>5. /\ c \in Connections /\ c.dead = conn.dead /\ c.buffer = conn.buffer
      /\ c.setup_deadline = conn.setup_deadline
      /\ c.setup_timed_out = conn.setup_timed_out
  BY <1>1 DEF Connections
<1>6. \/ /\ CanProduce /\ session' = Produce(session, Answer)
         /\ conn' = StartSend(c, CancelDeadline)
         /\ task' = Begin("cancel", "session", CancelDeadline)
      \/ conn' = mark_connection_dead(c) /\ task' = NoTask /\ session' = session
  BY <1>4
<1> HIDE DEF c
<1>7. CASE /\ CanProduce /\ session' = Produce(session, Answer)
           /\ conn' = StartSend(c, CancelDeadline)
           /\ task' = Begin("cancel", "session", CancelDeadline)
  <2>1. /\ session' \in [queue: Seq(Nat \ {0}), frames: 0 .. MaxFrames, next: Nat]
        /\ session'.next = session.next
    BY <1>1, <1>7, Produced, AnswerChunks
  <2>2. /\ task' \in Tasks /\ task'.op = "cancel" /\ task'.pc = "session"
        /\ task'.deadline = CancelDeadline /\ task'.after = "return"
        /\ task'.last = FALSE /\ task'.read = 0
    <3>1. task' = Begin("cancel", "session", CancelDeadline)
      BY <1>7
    <3> QED BY <1>3, <3>1, IdleTask DEF Begin, Tasks, Locations
  <2>3. task'.read <= DrainMax
    BY <2>2, SizeAssumption
  <2> QED BY <1>1, <1>2, <1>5, <1>7, <2>1, <2>2, <2>3, SendBegins
<1>8. CASE conn' = mark_connection_dead(c) /\ task' = NoTask /\ session' = session
  <2>1. c \in Connections /\ c.buffer = conn.buffer /\ conn' = mark_connection_dead(c)
    BY <1>5, <1>8
  <2>2. conn' \in Connections /\ conn'.dead = TRUE /\ conn'.buffer = c.buffer
    BY <2>1, DeadConn
  <2>3. conn'.buffer.len <= Cap
    BY <1>1, <2>1, <2>2
  <2> QED BY <1>1, <1>2, <1>8, <2>2, <2>3, OperationOver
<1> QED BY <1>6, <1>7, <1>8

\* What preflight tells of the connection c it leaves.
LEMMA ToldVerdict ==
    ASSUME IOInv, conn' \in Connections, NEW ok \in BOOLEAN,
           result' = Verdict(ok, conn'),
           IF ok THEN connection_usable(conn') /\ (conn.active > 0 \/ socket.inbox = 0)
                 ELSE ~connection_usable(conn')
    PROVE  TellsTruth
<1> DEFINE r == Result("preflight", ok, FALSE)
           usable == connection_usable(conn')
           unread == IF conn.active > 0 THEN 0 ELSE socket.inbox
<1>1. /\ r \in Results /\ r.op = "preflight" /\ r.ok = ok /\ r.expired = FALSE
  BY ResultFields DEF IOInv, TypeOK
<1>2. usable \in BOOLEAN /\ unread \in Nat
  BY Numbers DEF connection_usable, Connections, IOInv
<1>3. result' = [r EXCEPT !.usable = usable, !.unread = unread]
  BY DEF Verdict
<1>4. IF ok THEN usable /\ unread = 0 ELSE ~usable
  OBVIOUS
<1>5. usable <=> connection_usable(conn')
  OBVIOUS
<1> HIDE DEF r, usable, unread
<1>6. /\ result' \in Results /\ result'.op = "preflight" /\ result'.ok = ok
      /\ result'.expired = FALSE /\ result'.usable = usable /\ result'.unread = unread
  BY <1>1, <1>2, <1>3 DEF Results
<1> QED BY <1>4, <1>5, <1>6 DEF TimeoutIsOwn, TellsTruth

\* A connection that only becomes draining.
LEMMA DrainingConn ==
    ASSUME NEW c \in Connections
    PROVE  LET e == mark_connection_draining(c) IN
           /\ e \in Connections /\ e.draining = TRUE /\ e.dead = c.dead
           /\ e.buffer = c.buffer /\ e.setup_deadline = c.setup_deadline
           /\ e.write_timed_out = c.write_timed_out
           /\ e.setup_timed_out = c.setup_timed_out
BY DEF mark_connection_draining, Connections

\* Preflight drains.
LEMMA Drained ==
    ASSUME IOInv, DrainRead
    PROVE  IOInv'
<1>1. /\ task \in Tasks /\ conn \in Connections /\ TypeOK /\ task.pc = "drain"
      /\ task.op = "preflight" /\ connection_usable(conn) /\ ~conn.dead /\ ~InSend
      /\ ~conn.draining /\ conn.buffer.len <= Cap /\ InBudget /\ UNCHANGED <<wire, now>>
  BY DEF IOInv, TypeOK, TaskInv, DrainRead, connection_usable, InSend, Writing, Polling
<1>2. /\ ~wire.torn /\ Unsent = 0 /\ conn.setup_deadline = 0
      /\ ~conn.write_timed_out /\ ~conn.setup_timed_out
  BY <1>1, Quiet
<1>3. PICK n \in 1 .. Smaller(ReadLen, socket.inbox), goaway \in BOOLEAN:
        LET c == IF goaway THEN mark_connection_draining(conn) ELSE conn
            t == [task EXCEPT !.read = @ + n, !.iterations = @ + 1] IN
        /\ socket' = [socket EXCEPT !.inbox = @ - n]
        /\ IF goaway
           THEN /\ conn' = c
                /\ Returns(Verdict(FALSE, c))
                /\ UNCHANGED session
           ELSE \/ /\ task' = t
                   /\ UNCHANGED <<conn, session, result>>
                \/ /\ CanProduce
                   /\ session' = Produce(session, Answer)
                   /\ conn' = StartSend(conn, task.deadline)
                   /\ task' = [t EXCEPT !.pc = "session"]
                   /\ UNCHANGED result
  BY DEF DrainRead
<1> DEFINE read == task.read + n
           iterations == task.iterations + 1
           t == [task EXCEPT !.read = read, !.iterations = iterations]
<1>4. n \in Nat /\ n <= socket.inbox /\ read \in Nat /\ read <= DrainMax
  <2>1. /\ task.read \in Nat /\ task.read < DrainMax /\ socket.inbox \in Nat
        /\ DrainMax \in Nat /\ ScratchLen \in Nat
    BY <1>1, Numbers, SizeAssumption DEF InBudget
  <2> QED BY <2>1 DEF ReadLen, Smaller
<1>5. iterations \in 0 .. MaxIterations
  <2>1. task.iterations \in 0 .. MaxIterations /\ task.iterations < MaxIterations
    BY <1>1 DEF InBudget, Tasks
  <2>2. MaxIterations \in Nat
    BY SizeAssumption
  <2> QED BY <2>1, <2>2
<1>6. /\ socket' \in [inbox: Nat, arrived: 0 .. MaxArrivals, peer: {"open", "gone", "lost"}]
      /\ socket'.peer = socket.peer
  BY <1>1, <1>3, <1>4, Taken
<1>7. \/ /\ conn' = mark_connection_draining(conn) /\ session' = session
         /\ task' = NoTask /\ result' = Verdict(FALSE, conn')
      \/ task' = t /\ UNCHANGED <<conn, session, result>>
      \/ /\ CanProduce /\ session' = Produce(session, Answer)
         /\ conn' = StartSend(conn, task.deadline)
         /\ task' = [t EXCEPT !.pc = "session"] /\ result' = result
  BY <1>3 DEF Returns
<1> HIDE DEF read, iterations
<1>8. /\ t \in Tasks /\ t.op = task.op /\ t.pc = task.pc /\ t.deadline = task.deadline
      /\ t.after = task.after /\ t.last = task.last /\ t.read = read
  BY <1>1, <1>4, <1>5 DEF Tasks
<1> HIDE DEF t
<1>9. task.last = FALSE /\ task.after \in {"session", "direct", "append", "return"}
  BY <1>1 DEF IOInv, TaskInv, Tasks
<1>10. CASE /\ conn' = mark_connection_draining(conn) /\ session' = session
            /\ task' = NoTask /\ result' = Verdict(FALSE, conn')
  <2>1. /\ conn' \in Connections /\ conn'.draining = TRUE
        /\ conn'.buffer = conn.buffer /\ conn'.setup_deadline = 0
        /\ ~conn'.write_timed_out /\ ~conn'.setup_timed_out
    BY <1>1, <1>2, <1>10, DrainingConn
  <2>2. ~connection_usable(conn')
    BY <2>1 DEF connection_usable
  <2>3. TellsTruth
    BY <1>10, <2>1, <2>2, ToldVerdict
  <2> QED BY <1>1, <1>2, <1>6, <1>10, <2>1, <2>3, OperationOver
<1>11. CASE task' = t /\ UNCHANGED <<conn, session, result>>
  <2>1. ~InSend' /\ ~Writing' /\ Unsent' = Unsent
    BY <1>1, <1>8, <1>11 DEF InSend, Writing, Polling, Unsent
  <2>2. TypeOK'
    BY <1>1, <1>6, <1>8, <1>11 DEF TypeOK
  <2>3. TaskInv'
    BY <1>1, <1>8, <1>9, <1>11 DEF TaskInv, Polling, Receiving
  <2>4. WireInv'
    BY <1>1, <1>2, <1>8, <1>11, <2>1 DEF WireInv
  <2>5. DeadlineInv'
    BY <1>1, <1>2, <1>8, <1>11, <2>1 DEF DeadlineInv
  <2>6. PreflightVerdict' /\ TimeoutIsOwn'
    BY <1>1, <1>4, <1>6, <1>8, <1>11, SameResult
  <2> QED BY <2>2, <2>3, <2>4, <2>5, <2>6 DEF IOInv
<1>12. CASE /\ CanProduce /\ session' = Produce(session, Answer)
            /\ conn' = StartSend(conn, task.deadline)
            /\ task' = [t EXCEPT !.pc = "session"] /\ result' = result
  <2>1. /\ session' \in [queue: Seq(Nat \ {0}), frames: 0 .. MaxFrames, next: Nat]
        /\ session'.next = session.next
    BY <1>1, <1>12, Produced, AnswerChunks
  <2>2. /\ task' \in Tasks /\ task'.pc = "session" /\ task'.op = "preflight"
        /\ task'.deadline = task.deadline /\ task'.read = read
        /\ task'.after = task.after /\ task'.last = FALSE
    BY <1>1, <1>8, <1>9, <1>12 DEF Tasks, Locations
  <2>3. conn'.draining = conn.draining /\ conn'.dead = conn.dead
    BY <1>1, <1>12, SendConn DEF Tasks
  <2>4. TellsTruth
    BY <1>1, <1>6, <1>12, <2>3, ToldBefore DEF connection_usable
  <2> QED BY <1>1, <1>4, <1>6, <1>9, <1>12, <2>1, <2>2, <2>4, SendBegins
<1> QED BY <1>7, <1>10, <1>11, <1>12

\* The drain ends.
LEMMA DrainEnds ==
    ASSUME IOInv, DrainBoundary \/ DrainFails \/ DrainLimit
    PROVE  IOInv'
<1>1. /\ conn \in Connections /\ task.pc = "drain" /\ connection_usable(conn)
      /\ ~conn.dead /\ ~InSend /\ conn.buffer.len <= Cap /\ task' = NoTask
      /\ UNCHANGED <<session, wire, socket, now>>
      /\ socket \in [inbox: Nat, arrived: 0 .. MaxArrivals, peer: {"open", "gone", "lost"}]
  BY DEF IOInv, TypeOK, TaskInv, DrainBoundary, DrainFails, DrainLimit, Returns,
         connection_usable, InSend, Writing, Polling
<1>2. /\ Unsent = 0 /\ conn.setup_deadline = 0
      /\ ~conn.write_timed_out /\ ~conn.setup_timed_out
  BY <1>1, Quiet
<1>3. CASE DrainBoundary
  <2>1. conn' = conn /\ result' = Verdict(TRUE, conn') /\ socket.inbox = 0
    BY <1>3 DEF DrainBoundary, Returns
  <2>2. TellsTruth
    BY <1>1, <2>1, ToldVerdict
  <2> QED BY <1>1, <1>2, <2>1, <2>2, OperationOver
<1>4. CASE DrainFails
  <2>1. /\ conn' \in Connections /\ conn'.dead = TRUE /\ conn'.buffer = conn.buffer
        /\ result' = Verdict(FALSE, conn')
    BY <1>1, <1>4, DeadConn DEF DrainFails, Returns
  <2>2. TellsTruth
    BY <2>1, ToldVerdict DEF connection_usable
  <2> QED BY <1>1, <2>1, <2>2, OperationOver
<1>5. CASE DrainLimit
  <2>1. conn' = mark_connection_draining(conn) /\ result' = Verdict(FALSE, conn')
    BY <1>5 DEF DrainLimit, Returns, OverBudget
  <2>2. /\ conn' \in Connections /\ conn'.draining = TRUE
        /\ conn'.buffer = conn.buffer /\ conn'.setup_deadline = 0
        /\ ~conn'.write_timed_out /\ ~conn'.setup_timed_out
    BY <1>1, <1>2, <2>1, DrainingConn
  <2>3. TellsTruth
    BY <2>1, <2>2, ToldVerdict DEF connection_usable
  <2> QED BY <1>1, <1>2, <2>2, <2>3, OperationOver
<1> QED BY <1>3, <1>4, <1>5

\* A call begins, or the next pull of a stream.
LEMMA CallBegins ==
    ASSUME IOInv, StartCall \/ PullStream
    PROVE  IOInv'
<1>1. /\ conn \in Connections /\ TypeOK /\ task.op = "none" /\ task.pc = "idle"
      /\ ~conn.dead /\ ~InSend /\ UNCHANGED <<wire, socket, result, now>>
      /\ socket \in [inbox: Nat, arrived: 0 .. MaxArrivals, peer: {"open", "gone", "lost"}]
      /\ session \in [queue: Seq(Nat \ {0}), frames: 0 .. MaxFrames, next: Nat]
  BY DEF IOInv, TypeOK, TaskInv, StartCall, PullStream, connection_usable, InSend,
         Writing, Polling
<1>2. ASSUME NEW d \in Deadlines,
             session' \in [queue: Seq(Nat \ {0}), frames: 0 .. MaxFrames, next: Nat],
             session'.next = session.next,
             conn' = StartSend(conn, d), task' = Begin("call", "session", d)
      PROVE  IOInv'
  <2>1. d \in 0 .. MaxTime
    BY DeadlineAssumption
  <2>2. /\ task' \in Tasks /\ task'.op = "call" /\ task'.pc = "session"
        /\ task'.deadline = d /\ task'.after = "return"
        /\ task'.last = FALSE /\ task'.read = 0
    BY <1>2, <2>1, IdleTask DEF Begin, Tasks, Locations
  <2>3. conn'.draining = conn.draining /\ conn'.dead = conn.dead
    BY <1>1, <1>2, <2>1, SendConn
  <2>4. TellsTruth
    BY <1>1, <2>3, ToldBefore DEF connection_usable
  <2>5. task'.read <= DrainMax
    BY <2>2, SizeAssumption
  <2> QED BY <1>1, <1>2, <2>2, <2>4, <2>5, SendBegins
<1>3. CASE StartCall
  <2>1. PICK d \in Deadlines, request \in Requests:
          /\ session' = Produce(session, request) /\ conn' = StartSend(conn, d)
          /\ task' = Begin("call", "session", d)
    BY <1>3 DEF StartCall
  <2>2. CanProduce /\ request \in Seq(Nat \ {0})
    BY <1>3, RequestAssumption DEF StartCall
  <2>3. /\ session' \in [queue: Seq(Nat \ {0}), frames: 0 .. MaxFrames, next: Nat]
        /\ session'.next = session.next
    BY <1>1, <2>1, <2>2, Produced
  <2> QED BY <1>2, <2>1, <2>3
<1>4. CASE PullStream
  <2>1. session' = session
    BY <1>4 DEF PullStream
  <2>2. PICK d \in Deadlines:
          IF Expired(d)
          THEN task' = Begin("call", "recvTimedOut", d) /\ conn' = conn
          ELSE task' = Begin("call", "session", d) /\ conn' = StartSend(conn, d)
    BY <1>4 DEF PullStream
  <2>3. CASE ~Expired(d)
    BY <1>1, <1>2, <2>1, <2>2, <2>3
  <2>4. CASE Expired(d)
    <3>1. d \in 0 .. MaxTime /\ conn' = conn
      BY <2>2, <2>4, DeadlineAssumption
    <3>2. /\ task' \in Tasks /\ task'.op = "call" /\ task'.pc = "recvTimedOut"
          /\ task'.deadline = d /\ task'.after = "return"
          /\ task'.last = FALSE /\ task'.read = 0
      BY <2>2, <2>4, <3>1, IdleTask, ZenonT(60) DEF Begin, Tasks, Locations
    <3>3. Waited' /\ ~InSend' /\ ~Writing' /\ Unsent' = Unsent
      BY <1>1, <2>1, <2>4, <3>2
      DEF Waited, Due, Expired, InSend, Writing, Polling, Unsent
    <3>4. /\ ~wire.torn /\ Unsent = 0 /\ conn.setup_deadline = 0
          /\ ~conn.write_timed_out /\ ~conn.setup_timed_out
      BY <1>1, Quiet
    <3>5. TypeOK'
      BY <1>1, <2>1, <3>1, <3>2 DEF TypeOK
    <3>6. TaskInv'
      BY <1>1, <3>1, <3>2 DEF TaskInv, Polling, Receiving
    <3>7. WireInv'
      BY <1>1, <3>2, <3>3, <3>4 DEF WireInv
    <3>8. DeadlineInv'
      BY <1>1, <3>1, <3>2, <3>3, <3>4 DEF DeadlineInv
    <3>9. PreflightVerdict' /\ TimeoutIsOwn'
      <4>1. task'.read <= DrainMax
        BY <3>2, SizeAssumption
      <4> QED BY <1>1, <3>1, <4>1, SameResult
    <3> QED BY <3>5, <3>6, <3>7, <3>8, <3>9 DEF IOInv
  <2> QED BY <2>3, <2>4
<1> QED BY <1>3, <1>4

\* Preflight accepts, refuses or drains.
LEMMA Preflighted ==
    ASSUME IOInv, Preflight
    PROVE  IOInv'
<1>1. /\ conn \in Connections /\ TypeOK /\ task \in Tasks
      /\ task.op = "none" /\ task.pc = "idle" /\ connection_usable(conn)
      /\ ~conn.dead /\ ~conn.draining /\ ~InSend
      /\ UNCHANGED <<session, wire, socket, now>>
  BY DEF IOInv, TypeOK, TaskInv, Preflight, connection_usable, InSend, Writing, Polling
<1>2. /\ ~wire.torn /\ Unsent = 0 /\ conn.setup_deadline = 0
      /\ ~conn.write_timed_out /\ ~conn.setup_timed_out /\ Unsent' = Unsent
  BY <1>1, Quiet DEF Unsent
<1>a. PICK d \in Deadlines:
        IF conn.active > 0
        THEN result' = Verdict(TRUE, conn) /\ UNCHANGED <<conn, task>>
        ELSE IF socket.inbox > 0
        THEN task' = Begin("preflight", "drain", d) /\ UNCHANGED <<conn, result>>
        ELSE IF socket.peer = "open"
        THEN result' = Verdict(TRUE, conn) /\ UNCHANGED <<conn, task>>
        ELSE /\ conn' = mark_connection_dead(conn)
             /\ result' = Verdict(FALSE, conn') /\ UNCHANGED task
  BY DEF Preflight
<1>b. socket.inbox > 0 \/ socket.inbox = 0
  <2>1. socket.inbox \in Nat
    BY <1>1 DEF TypeOK
  <2> QED BY <2>1
<1>3. \/ /\ result' = Verdict(TRUE, conn') /\ conn' = conn /\ task' = task
         /\ conn.active > 0 \/ socket.inbox = 0
      \/ task' = Begin("preflight", "drain", d) /\ conn' = conn /\ result' = result
      \/ /\ conn' = mark_connection_dead(conn) /\ task' = task
         /\ result' = Verdict(FALSE, conn')
  BY <1>a, <1>b, Zenon
<1>4. ASSUME conn' \in Connections, conn'.buffer = conn.buffer, task' = task,
             conn'.dead \/ conn' = conn, TellsTruth
      PROVE  IOInv'
  <2>1. ~InSend' /\ ~Writing'
    BY <1>1, <1>4 DEF InSend, Writing, Polling
  <2>2. TypeOK'
    BY <1>1, <1>4 DEF TypeOK, TellsTruth
  <2>3. TaskInv'
    BY <1>1, <1>4 DEF IOInv, TaskInv, Polling, Receiving
  <2>4. WireInv'
    BY <1>1, <1>2, <1>4, <2>1 DEF WireInv
  <2>5. DeadlineInv'
    BY <1>1, <1>2, <1>4, <2>1 DEF DeadlineInv
  <2>6. PreflightVerdict' /\ TimeoutIsOwn'
    BY <1>1, <1>4 DEF IOInv, PreflightVerdict, TellsTruth
  <2> QED BY <2>2, <2>3, <2>4, <2>5, <2>6 DEF IOInv
<1>5. CASE /\ result' = Verdict(TRUE, conn') /\ conn' = conn /\ task' = task
           /\ conn.active > 0 \/ socket.inbox = 0
  <2>1. TellsTruth
    BY <1>1, <1>5, ToldVerdict
  <2> QED BY <1>1, <1>4, <1>5, <2>1
<1>6. CASE /\ conn' = mark_connection_dead(conn) /\ task' = task
           /\ result' = Verdict(FALSE, conn')
  <2>1. conn' \in Connections /\ conn'.dead = TRUE /\ conn'.buffer = conn.buffer
    BY <1>1, <1>6, DeadConn
  <2>2. TellsTruth
    BY <1>6, <2>1, ToldVerdict DEF connection_usable
  <2> QED BY <1>4, <1>6, <2>1, <2>2
<1>7. CASE task' = Begin("preflight", "drain", d) /\ conn' = conn /\ result' = result
  <2>1. d \in 0 .. MaxTime
    BY DeadlineAssumption
  <2>2. /\ task' \in Tasks /\ task'.op = "preflight" /\ task'.pc = "drain"
        /\ task'.deadline = d /\ task'.after = "return"
        /\ task'.last = FALSE /\ task'.read = 0
    BY <1>7, <2>1, IdleTask DEF Begin, Tasks, Locations
  <2>3. ~InSend' /\ ~Writing'
    BY <2>2 DEF InSend, Writing, Polling
  <2>4. TypeOK'
    BY <1>1, <1>7, <2>2 DEF TypeOK
  <2>5. TaskInv'
    BY <1>1, <1>7, <2>2 DEF TaskInv, Polling, Receiving
  <2>6. WireInv'
    BY <1>1, <1>2, <2>2, <2>3 DEF WireInv
  <2>7. DeadlineInv'
    BY <1>1, <1>2, <1>7, <2>2, <2>3 DEF DeadlineInv
  <2>8. PreflightVerdict' /\ TimeoutIsOwn'
    <3>1. task'.read <= DrainMax
      BY <2>2, SizeAssumption
    <3> QED BY <1>1, <1>7, <3>1, SameResult
  <2> QED BY <2>4, <2>5, <2>6, <2>7, <2>8 DEF IOInv
<1> QED BY <1>3, <1>5, <1>6, <1>7

\* The clock, the peer, and steps that change nothing.
LEMMA World ==
    ASSUME IOInv, Tick \/ Arrive \/ PeerLeaves \/ PeerLost \/ UNCHANGED vars
    PROVE  IOInv'
<1>1. /\ UNCHANGED <<conn, session, wire, task, result>>
      /\ now' \in 0 .. MaxTime /\ now' >= now /\ now \in 0 .. MaxTime
      /\ socket' \in [inbox: Nat, arrived: 0 .. MaxArrivals, peer: {"open", "gone", "lost"}]
      /\ socket.peer = "lost" => socket'.peer = "lost"
  <2>1. now \in 0 .. MaxTime /\ MaxTime \in Nat /\ MaxArrivals \in Nat
    BY SizeAssumption DEF IOInv, TypeOK
  <2>2. socket \in [inbox: Nat, arrived: 0 .. MaxArrivals, peer: {"open", "gone", "lost"}]
    BY DEF IOInv, TypeOK
  <2>3. CASE Tick
    BY <2>1, <2>2, <2>3 DEF Tick
  <2>4. CASE Arrive
    <3> DEFINE inbox == socket.inbox + 1
               arrived == socket.arrived + 1
    <3>1. inbox \in Nat /\ arrived \in 0 .. MaxArrivals
      BY <2>1, <2>2, <2>4 DEF Arrive
    <3>2. socket' = [socket EXCEPT !.inbox = inbox, !.arrived = arrived]
      BY <2>4 DEF Arrive
    <3>3. UNCHANGED <<conn, session, wire, task, result, now>> /\ socket.peer = "open"
      BY <2>4 DEF Arrive
    <3> HIDE DEF inbox, arrived
    <3>4. socket' \in [inbox: Nat, arrived: 0 .. MaxArrivals, peer: {"open", "gone", "lost"}]
      BY <2>2, <3>1, <3>2
    <3> QED BY <2>1, <3>3, <3>4
  <2>5. CASE PeerLeaves \/ PeerLost
    BY <2>1, <2>2, <2>5 DEF PeerLeaves, PeerLost
  <2>6. CASE UNCHANGED vars
    BY <2>1, <2>2, <2>6 DEF vars
  <2> QED BY <2>3, <2>4, <2>5, <2>6
<1>a. PollMax * UsPerMs \in Nat
  BY SizeAssumption
<1>2. Waited => Waited'
  <2>1. task.deadline \in 0 .. MaxTime
    BY DEF IOInv, TypeOK, Tasks
  <2> QED BY <1>1, <1>a, <2>1, SizeAssumption DEF Waited, Due
<1>3. /\ InSend' = InSend /\ Writing' = Writing /\ Unsent' = Unsent
      /\ Polling("recv")' = Polling("recv")
  BY <1>1 DEF InSend, Writing, Polling, Unsent
<1>4. TypeOK'
  BY <1>1 DEF IOInv, TypeOK
<1>5. TaskInv'
  BY <1>1, <1>3 DEF IOInv, TaskInv
<1>6. WireInv'
  BY <1>1, <1>3 DEF IOInv, WireInv, Follow
<1>7. DeadlineInv'
  BY <1>1, <1>2, <1>3 DEF IOInv, DeadlineInv
<1>8. PreflightVerdict' /\ TimeoutIsOwn'
  <2>1. result.deadline \in 0 .. MaxTime
    BY DEF IOInv, TypeOK, Results
  <2> QED BY <1>1, <1>a, <2>1, SizeAssumption
          DEF IOInv, PreflightVerdict, TimeoutIsOwn, Due, connection_usable
<1> QED BY <1>4, <1>5, <1>6, <1>7, <1>8 DEF IOInv

-----------------------------------------------------------------------------
(* The invariant and the theorems.                                         *)

\* The preface of a new connection is to be sent.
LEMMA Starts ==
    ASSUME Init
    PROVE  IOInv
<1>1. PICK d \in Deadlines, preface \in Requests:
        /\ conn = [dead |-> FALSE, draining |-> FALSE,
                   setup_deadline |-> d, setup_timed_out |-> FALSE,
                   write_deadline |-> d, write_timed_out |-> FALSE,
                   buffer |-> Empty, active |-> 0]
        /\ session = [queue |-> preface, frames |-> 0, next |-> 1]
        /\ wire = [len |-> 0, torn |-> FALSE]
        /\ socket = [inbox |-> 0, arrived |-> 0, peer |-> "open"]
        /\ task = Begin("setup", "session", d)
        /\ result = NoResult
        /\ now = 0
  BY DEF Init
<1>2. /\ d \in 0 .. MaxTime /\ preface \in Seq(Nat \ {0}) /\ 0 \in 0 .. MaxTime
      /\ Empty \in Span /\ Empty.len = 0 /\ 0 <= Cap /\ 0 <= DrainMax
      /\ 0 \in 0 .. MaxFrames /\ 0 \in 0 .. MaxArrivals
  BY DeadlineAssumption, RequestAssumption, SizeAssumption DEF Empty, Span
<1>3. /\ task \in Tasks /\ task.op = "setup" /\ task.pc = "session"
      /\ task.deadline = d /\ task.after = "return"
      /\ task.last = FALSE /\ task.read = 0
  BY <1>1, <1>2, IdleTask DEF Begin, Tasks, Locations
<1>4. /\ conn \in Connections /\ conn.dead = FALSE /\ conn.setup_deadline = d
      /\ conn.write_deadline = d /\ conn.write_timed_out = FALSE
      /\ conn.setup_timed_out = FALSE /\ conn.buffer = Empty
  BY <1>1, <1>2 DEF Connections
<1>5. /\ result \in Results /\ result.op = "none" /\ result.expired = FALSE
  BY <1>1, <1>2 DEF NoResult, Results, Causes
<1>6. session \in [queue: Seq(Nat \ {0}), frames: 0 .. MaxFrames, next: Nat]
  <2> DEFINE Q == Seq(Nat \ {0})
  <2>1. preface \in Q /\ 0 \in 0 .. MaxFrames
    BY <1>2
  <2> HIDE DEF Q
  <2>2. session \in [queue: Q, frames: 0 .. MaxFrames, next: Nat]
    BY <1>1, <2>1
  <2> QED BY <2>2 DEF Q
<1>7. /\ Unsent = 0 /\ wire \in [len: Nat, torn: BOOLEAN] /\ ~wire.torn
      /\ socket \in [inbox: Nat, arrived: 0 .. MaxArrivals, peer: {"open", "gone", "lost"}]
  <2>1. wire \in [len: Nat, torn: BOOLEAN] /\ wire.len = 0 /\ ~wire.torn
    BY <1>1
  <2>2. socket \in [inbox: Nat, arrived: 0 .. MaxArrivals, peer: {"open", "gone", "lost"}]
    BY <1>1, <1>2
  <2>3. session.next = 1
    BY <1>1
  <2> QED BY <2>1, <2>2, <2>3 DEF Unsent
<1>8. TypeOK
  BY <1>1, <1>2, <1>3, <1>4, <1>5, <1>6, <1>7 DEF TypeOK
<1>9. TaskInv
  BY <1>3, <1>4 DEF TaskInv, Polling, Receiving
<1>10. WireInv
  BY <1>2, <1>3, <1>4, <1>7 DEF WireInv, Follow, InSend, Writing, Polling
<1>11. DeadlineInv
  BY <1>3, <1>4 DEF DeadlineInv, InSend, Writing, Polling
<1>12. PreflightVerdict /\ TimeoutIsOwn
  BY <1>2, <1>3, <1>5 DEF PreflightVerdict, TimeoutIsOwn
<1> QED BY <1>8, <1>9, <1>10, <1>11, <1>12 DEF IOInv

\* IOInv holds in every state: the buffer, the bytes of a write under way and
\* the chunk that waits for it are together what nghttp2 has handed out and the
\* socket has not taken (h2_connection_buffer_or_write), and every wait is for
\* the deadline of the operation under way (poll_fd_until_deadline).
THEOREM IOInvariant == Spec => []IOInv
<1>1. Init => IOInv
  BY Starts
<1>2. IOInv /\ [Next]_vars => IOInv'
  <2> SUFFICES ASSUME IOInv, [Next]_vars PROVE IOInv'
    OBVIOUS
  <2>1. CASE SendStep
    <3>1. CASE \E n \in 1 .. task.rest.len: Write(n)
      BY <3>1, Written
    <3> QED BY <2>1, <3>1, BufferOrWrite, Flushed, Flushes, WriteEntered, WriteOther,
               SendReturns, SendGivesUp DEF SendStep
  <2>2. CASE PollStep
    BY <2>2, Polls
  <2>3. CASE RecvStep
    BY <2>3, Receives, Received, ReceiveFails, ReceiveTimesOut DEF RecvStep
  <2>4. CASE DrainStep
    BY <2>4, Drained, DrainEnds DEF DrainStep
  <2>5. CASE StartCall \/ PullStream
    BY <2>5, CallBegins
  <2>6. CASE Preflight
    BY <2>6, Preflighted
  <2>7. CASE Tick \/ Arrive \/ PeerLeaves \/ PeerLost \/ UNCHANGED vars
    BY <2>7, World
  <2> QED BY <2>1, <2>2, <2>3, <2>4, <2>5, <2>6, <2>7 DEF Next, Step
<1> QED BY <1>1, <1>2, PTL DEF Spec

\* The write buffer never holds more than its capacity, whatever the lengths of
\* the chunks nghttp2 hands out (h2_connection_buffer_or_write).
THEOREM BufferNeverOverflows == Spec => []TypeOK
<1>1. IOInv => TypeOK
  BY DEF IOInv
<1> QED BY <1>1, IOInvariant, PTL

\* The wire carries what nghttp2 produced, in its order and without a gap, and
\* between operations all of it, unless the connection is dead
\* (send_pending_h2_frames_with_deadline).
THEOREM WireFollowsSession == Spec => []WireMatchesSession
<1>1. IOInv => WireMatchesSession
  <2> SUFFICES ASSUME IOInv PROVE WireMatchesSession
    OBVIOUS
  <2>1. task.op = "none" => ~InSend
    BY DEF IOInv, TaskInv, InSend, Writing, Polling
  <2>2. ~wire.torn /\ (task.op = "none" /\ ~conn.dead => Unsent = 0)
    BY <2>1 DEF IOInv, WireInv
  <2>3. session.next \in Nat /\ wire.len \in Nat
    BY Numbers DEF IOInv
  <2> QED BY <2>2, <2>3 DEF WireMatchesSession, Unsent
<1> QED BY <1>1, IOInvariant, PTL

\* An operation that is reported as timed out had a deadline of its own that
\* has passed, or a poll cut at INT_MAX that has lasted so long, or is a call
\* that received on a connection the kernel has given up with ETIMEDOUT
\* (poll_timeout_ms_for_deadline, poll_fd_until_deadline, connection_recv,
\* h2_connection_send and the receive loops).
THEOREM TimeoutsAreOwn == Spec => []TimeoutIsOwn
<1>1. IOInv => TimeoutIsOwn
  BY DEF IOInv
<1> QED BY <1>1, IOInvariant, PTL

\* Preflight accepts only a usable connection with nothing to read, refuses
\* only one it leaves dead or draining, and stays within its budget
\* (drain_pending_connection_data_for_reuse).
THEOREM PreflightIsRight == Spec => []PreflightVerdict
<1>1. IOInv => PreflightVerdict
  BY DEF IOInv
<1> QED BY <1>1, IOInvariant, PTL

=============================================================================
