--------------------- MODULE ConnectionOwnershipProofs ---------------------
EXTENDS ConnectionHeapProofs

(***************************************************************************)
(* The inductive invariant, part two: what the operation in progress may   *)
(* rely on.  Between get_persistent_connection and the registration of the *)
(* stream the cache keeps its connection alive, from then on the call does *)
(* and, for a unary call, the cache as well, until it has returned.        *)
(***************************************************************************)
Bound == Sending \cup {"loop", "recv", "frames", "goaway", "terminate", "finish",
                       "destroy", "free", "cancelled", "terminated", "result"}

ThreadInv(h, t) ==
    /\ t \in Thread
    /\ t.pc = "idle" => t.conn = NULL
    /\ t.pc # "idle" => t.call \in Calls /\ t.key \in Keys
    /\ t.pc \in {"get", "create", "submit", "returned"} => t.call \notin h.alloc
    /\ t.pc \in {"get", "create"} => t.conn = NULL
    /\ t.pc \in Bound => t.call \in h.alloc /\ h.connection[t.call] = t.conn
    /\ t.pc \notin {"idle", "get", "create", "destroy", "free"} => t.conn \in Conns
    /\ (t.op = "unary" \/ t.pc = "submit") /\ t.conn # NULL => h.cache[t.key] = t.conn
    /\ t.pc \in {"result", "returned"} => t.op = "unary"

Inv == HeapInv(heap) /\ ThreadInv(heap, thread)

\* Between operations the thread relies on nothing.
LEMMA IdleInv ==
    ASSUME NEW h
    PROVE  ThreadInv(h, Idle)
  <1>1. Idle \in Thread
    BY ConstantsAssumption DEF Idle, Thread, Ops, PCs
  <1> QED
    BY <1>1 DEF ThreadInv, Idle, Bound, Sending

\* The operation in progress may move on as long as its call, its connection
\* and, for a unary call, the cache stay as they are.
LEMMA MoveInv ==
    ASSUME NEW h, NEW g, NEW t, ThreadInv(h, t), t.pc \in Bound, t.conn \in Conns,
           NEW pc \in Bound, pc = "result" => t.op = "unary",
           g.alloc = h.alloc, g.connection = h.connection,
           t.op = "unary" => g.cache = h.cache
    PROVE  ThreadInv(g, [t EXCEPT !.pc = pc])
  <1> DEFINE u == [t EXCEPT !.pc = pc]
  <1>1. t \in Thread /\ pc \in PCs
    BY DEF ThreadInv, Bound, PCs
  <1>2. /\ u \in Thread /\ u.pc = pc
        /\ u.op = t.op /\ u.call = t.call /\ u.conn = t.conn /\ u.key = t.key
    BY <1>1 DEF Thread
  <1> HIDE DEF u
  <1>3. pc \notin {"idle", "get", "create", "submit", "returned"}
    BY DEF Bound, Sending
  <1>4. t.pc # "idle"
    BY DEF Bound, Sending
  <1> QED
    BY <1>2, <1>3, <1>4 DEF ThreadInv, u

\* A step of the operation in progress that leaves the ownership alone.
LEMMA QuietMove ==
    ASSUME Inv, thread.pc \in Bound, thread.conn \in Conns,
           NEW pc \in Bound, pc = "result" => thread.op = "unary",
           Quiet(heap, heap'), Goto(pc)
    PROVE  HeapInv(heap') /\ ThreadInv(heap', thread')
  BY MoveInv DEF Inv, Quiet, Goto

\* The same for a step that does not move the thread.
LEMMA QuietStay ==
    ASSUME Inv, thread.pc \in Bound, Quiet(heap, heap'), UNCHANGED thread
    PROVE  HeapInv(heap') /\ ThreadInv(heap', thread')
  BY DEF Inv, Quiet, ThreadInv, Bound, Sending

\* The values of an idle thread's fields have their types.
LEMMA IdleFields ==
    /\ 0 \in 0 .. MaxStreamId /\ 0 \in {0, 1} /\ "no" \in {"no", "goaway", "rst"}
    /\ NULL \in Conns \cup {NULL}
  BY ConstantsAssumption

\* Starting an operation, Channel::close and the shutdown preserve the invariant.
LEMMA StartInv ==
    ASSUME Inv, StartStep
    PROVE  HeapInv(heap') /\ ThreadInv(heap', thread')
  <1>1. ASSUME NEW c \in Calls, NEW key \in Keys, NEW op \in {"unary", "open"},
               StartAttempt(op, c, key)
        PROVE  HeapInv(heap') /\ ThreadInv(heap', thread')
    <2>1. /\ thread'.op = op /\ thread'.pc = "get" /\ thread'.call = c
          /\ thread'.conn = NULL /\ thread'.key = key /\ thread' \in Thread
      <3>1. thread' = [Idle EXCEPT !.op = op, !.pc = "get", !.call = c, !.key = key]
        BY <1>1 DEF StartAttempt
      <3>2. op \in Ops /\ "get" \in PCs /\ NULL \in Conns \cup {NULL}
        BY DEF Ops, PCs
      <3> QED
        BY <3>1, <3>2, IdleFields, Zenon DEF Idle, Thread
    <2> QED
      BY <1>1, <2>1 DEF Inv, StartAttempt, ThreadInv, Bound, Sending
  <1>2. ASSUME NEW c \in Calls, NEW op \in Ops \ {"unary"},
               NEW pc \in {"loop", "terminate", "destroy"},
               StartOnCall(op, pc, c), UNCHANGED heap,
               pc # "destroy" => heap.connection[c] # NULL
        PROVE  HeapInv(heap') /\ ThreadInv(heap', thread')
    <2>1. /\ c \in heap.alloc /\ heap.channel_key[c] \in Keys
          /\ heap.connection[c] \in Conns \cup {NULL}
      BY <1>2 DEF Inv, StartOnCall, HeapInv, CallsOwn, Heap
    <2>2. thread' = [Idle EXCEPT !.op = op, !.pc = pc, !.call = c,
                                 !.conn = heap.connection[c],
                                 !.key = heap.channel_key[c]]
      BY <1>2 DEF StartOnCall
    <2>3. /\ thread' \in Thread /\ thread'.op = op /\ thread'.pc = pc
          /\ thread'.call = c /\ thread'.conn = heap.connection[c]
          /\ thread'.key = heap.channel_key[c]
      <3>1. op \in Ops /\ pc \in PCs
        BY DEF PCs
      <3> QED
        BY <2>1, <2>2, <3>1, IdleFields, Zenon DEF Idle, Thread
    <2> QED
      BY <1>2, <2>1, <2>3 DEF Inv, ThreadInv, Bound, Sending
  <1>3. ASSUME NEW key \in Keys, ChannelClose(key)
        PROVE  HeapInv(heap') /\ ThreadInv(heap', thread')
    <2>1. /\ heap.cache[key] \in heap.live
          /\ \A other \in Keys : heap.cache[other] = heap.cache[key] => other = key
      BY <1>3 DEF Inv, ChannelClose, HeapInv, CacheHolds
    <2>2. HeapInv(heap')
      BY <1>3, <2>1, DiscardInv DEF Inv, ChannelClose
    <2> QED
      BY <1>3, <2>2 DEF Inv, ChannelClose, At, ThreadInv, Bound, Sending
  <1>4. ASSUME Shutdown
        PROVE  HeapInv(heap') /\ ThreadInv(heap', thread')
    <2> QED
      BY <1>4, EmptyHeapInv DEF Inv, Shutdown, At, ThreadInv, Bound, Sending
  <1>5. ASSUME NEW c \in Calls, StartNext(c)
        PROVE  HeapInv(heap') /\ ThreadInv(heap', thread')
    BY <1>2, <1>5 DEF StartNext, Ops
  <1>6. ASSUME NEW c \in Calls, StartCancel(c)
        PROVE  HeapInv(heap') /\ ThreadInv(heap', thread')
    BY <1>2, <1>6 DEF StartCancel, Ops, connection_io_allowed
  <1>7. ASSUME NEW c \in Calls, StartDestroy(c)
        PROVE  HeapInv(heap') /\ ThreadInv(heap', thread')
    BY <1>2, <1>7 DEF StartDestroy, Ops
  <1> QED
    BY <1>1, <1>3, <1>4, <1>5, <1>6, <1>7 DEF StartStep

\* Every way through get_persistent_connection preserves the invariant.
LEMMA GetConnectionInv ==
    ASSUME Inv, GetConnection
    PROVE  HeapInv(heap') /\ ThreadInv(heap', thread')
  <1> DEFINE key == thread.key
             k == heap.cache[key]
  <1>0. /\ HeapInv(heap) /\ thread \in Thread /\ heap \in Heap
        /\ At("get") \/ At("create")
    BY DEF Inv, ThreadInv, HeapInv, GetConnection, EvictUnusable, PreflightFails,
           ReuseConnection, CacheMiss, CreateFails, CreateConnection
  <1>1. /\ thread.call \in Calls /\ key \in Keys /\ thread.call \notin heap.alloc
        /\ thread.conn = NULL
    BY <1>0 DEF Inv, ThreadInv, At
  <1>2. ASSUME HeapInv(heap'), heap'.alloc = heap.alloc, Goto("create")
        PROVE  HeapInv(heap') /\ ThreadInv(heap', thread')
    <2>1. /\ thread' \in Thread /\ thread'.pc = "create" /\ thread'.op = thread.op
          /\ thread'.call = thread.call /\ thread'.conn = thread.conn
          /\ thread'.key = thread.key
      <3>1. "create" \in PCs
        BY DEF PCs
      <3> QED
        BY <1>0, <1>2, <3>1, Zenon DEF Goto, Thread
    <2> QED
      BY <1>1, <1>2, <2>1 DEF ThreadInv, Bound, Sending
  <1>3. ASSUME HeapInv(heap'), heap'.alloc = heap.alloc,
               NEW j \in Conns, heap'.cache[key] = j,
               thread' = [thread EXCEPT !.pc = "submit", !.conn = j]
        PROVE  HeapInv(heap') /\ ThreadInv(heap', thread')
    <2>1. /\ thread' \in Thread /\ thread'.pc = "submit" /\ thread'.op = thread.op
          /\ thread'.call = thread.call /\ thread'.conn = j
          /\ thread'.key = thread.key
      <3>1. "submit" \in PCs
        BY DEF PCs
      <3> QED
        BY <1>0, <1>3, <3>1, Zenon DEF Thread
    <2> QED
      BY <1>1, <1>3, <2>1 DEF ThreadInv, Bound, Sending
  <1>4. CASE EvictUnusable
    <2>1. /\ k # NULL /\ Goto("create")
          /\ heap' = remove_unusable_persistent_connection(heap, key, k)
      BY <1>4 DEF EvictUnusable
    <2>2. HeapInv(heap') /\ heap'.alloc = heap.alloc
      BY <1>0, <1>1, <2>1, RemoveUnusableInv
    <2> QED
      BY <1>2, <2>1, <2>2
  <1>5. CASE PreflightFails
    <2> DEFINE drained == [heap EXCEPT !.draining = @ \cup {k}]
               noted == [drained EXCEPT !.last_error_detail = @ \cup {k}]
    <2>1. k # NULL /\ Goto("create")
      BY <1>5 DEF PreflightFails, connection_usable
    <2>2. PICK seen \in {mark_connection_dead(heap, k), drained, noted} :
              heap' = remove_unusable_persistent_connection(seen, key, k)
      BY <1>5 DEF PreflightFails
    <2>3. k \in Conns
      BY <1>0, <1>1, <2>1 DEF Heap
    <2>4. Quiet(heap, drained)
      <3>1. heap.draining \cup {k} \in SUBSET Conns
        BY <1>0, <2>3 DEF Heap
      <3> QED
        BY <1>0, <3>1, SetConnsQuiet
    <2> HIDE DEF drained
    <2>5. Quiet(heap, noted)
      <3>1. HeapInv(drained) /\ drained.last_error_detail \cup {k} \in SUBSET Conns
        BY <2>3, <2>4 DEF Quiet, HeapInv, Heap
      <3>2. Quiet(drained, noted)
        BY <3>1, SetConnsQuiet
      <3> QED
        BY <2>4, <3>2, QuietTransitive
    <2>6. Quiet(heap, seen)
      BY <1>0, <2>2, <2>3, <2>4, <2>5, MarkDeadQuiet
    <2>7. HeapInv(heap') /\ heap'.alloc = heap.alloc
      BY <1>1, <2>1, <2>2, <2>6, RemoveUnusableInv DEF Quiet
    <2> QED
      BY <1>2, <2>1, <2>7
  <1>6. CASE ReuseConnection
    <2>1. k \in Conns
      BY <1>0, <1>1, <1>6 DEF ReuseConnection, connection_usable, Heap
    <2> QED
      BY <1>0, <1>3, <1>6, <2>1 DEF ReuseConnection
  <1>7. CASE CacheMiss
    BY <1>0, <1>2, <1>7 DEF CacheMiss
  <1>8. CASE CreateFails
    BY <1>0, <1>8, IdleInv DEF CreateFails, Return
  <1>9. ASSUME NEW j \in Conns, CreateConnection(j)
        PROVE  HeapInv(heap') /\ ThreadInv(heap', thread')
    <2>1. HeapInv(heap') /\ heap'.alloc = heap.alloc /\ heap'.cache[key] = j
      <3>1. /\ j \in Conns \ heap.live
            /\ heap' = AddConnection(heap, key, j)
        BY <1>9 DEF CreateConnection
      <3> HIDE DEF key
      <3> QED
        BY <1>0, <1>1, <3>1, CreateInv
    <2> QED
      BY <1>3, <1>9, <2>1 DEF CreateConnection
  <1> QED
    BY <1>4, <1>5, <1>6, <1>7, <1>8, <1>9 DEF GetConnection

\* Submitting a request, or failing to, preserves the invariant.
LEMMA SubmitInv ==
    ASSUME Inv, SubmitStep
    PROVE  HeapInv(heap') /\ ThreadInv(heap', thread')
  <1> DEFINE k == thread.conn
             c == thread.call
  <1>0. HeapInv(heap) /\ thread \in Thread /\ At("submit")
    BY DEF Inv, ThreadInv, SubmitStep, AbandonAttempt, SubmitFails, Submit
  <1>1. /\ c \in Calls /\ thread.key \in Keys /\ c \notin heap.alloc
        /\ k \in Conns /\ k # NULL /\ heap.cache[thread.key] = k
    BY <1>0, ConstantsAssumption DEF Inv, ThreadInv, At
  <1>2. k \in heap.live
    BY <1>0, <1>1 DEF HeapInv, CacheHolds
  <1>3. CASE AbandonAttempt
    BY <1>0, <1>3, IdleInv DEF AbandonAttempt, Return
  <1>4. CASE SubmitFails
    <2> DEFINE died == mark_connection_dead(heap, k)
               detached == detach_persistent_connection_by_ptr(died, k)
    <2>1. HeapInv(died)
      BY <1>0, <1>1, MarkDeadQuiet DEF Quiet
    <2> HIDE DEF died
    <2>2. HeapInv(detached)
      BY <1>1, <2>1, DetachInv
    <2> HIDE DEF detached
    <2>3. HeapInv(destroy_detached_connection_if_unowned(detached, k))
      BY <1>1, <2>2, DestroyIfUnownedInv
    <2> QED
      BY <1>4, <2>3, IdleInv DEF SubmitFails, Return, detached, died
  <1>5. CASE Submit
    <2>1. /\ HeapInv(heap') /\ heap'.cache = heap.cache
          /\ heap'.alloc = heap.alloc \cup {c} /\ heap'.connection[c] = k
      <3>1. thread.attempt \in {0, 1}
        BY <1>0 DEF Thread
      <3>2. /\ heap.next_id[k] \in Ids
            /\ heap' = register_grpc_call_stream(
                           SubmitRequest(AllocCall(heap, c, heap.next_id[k], thread.key,
                                                   thread.attempt), k, c),
                           k, c, heap.next_id[k])
        BY <1>5 DEF Submit
      <3> HIDE DEF c, k
      <3> QED
        BY <1>0, <1>1, <1>2, <3>1, <3>2, RegisterInv
    <2>2. /\ thread' \in Thread /\ thread'.pc = "send" /\ thread'.op = thread.op
          /\ thread'.call = c /\ thread'.conn = k /\ thread'.key = thread.key
      <3>1. "send" \in PCs
        BY DEF PCs, Sending
      <3> QED
        BY <1>0, <1>5, <3>1, Zenon DEF Submit, Goto, Thread
    <2> HIDE DEF c, k
    <2> QED
      BY <1>1, <2>1, <2>2 DEF ThreadInv, Bound, Sending
  <1> QED
    BY <1>3, <1>4, <1>5 DEF SubmitStep

\* cancel_grpc_call_stream, up to the flush.
LEMMA BeginCancelInv ==
    ASSUME Inv, thread.pc \in Bound, thread.conn \in Conns,
           NEW h, Quiet(heap, h), NEW flushing \in {"flush", "termflush"},
           BeginCancel(h, thread.call, flushing)
    PROVE  HeapInv(heap') /\ ThreadInv(heap', thread')
  <1>1. HeapInv(h) /\ h.connection[thread.call] = thread.conn
    BY DEF Inv, ThreadInv, Quiet
  <1>2. Quiet(heap, mark_connection_dead(h, h.connection[thread.call]))
    BY <1>1, MarkDeadQuiet, QuietTransitive
  <1>3. Quiet(heap, SubmitRst(h, StreamOf(h, thread.call)))
    BY <1>1, SubmitRstQuiet, QuietTransitive
  <1>4. {"cancelled", "terminated", "flush", "termflush"} \subseteq Bound \ {"result"}
    BY DEF Bound, Sending
  <1>5. Quiet(heap, heap') /\ \E pc \in Bound \ {"result"} : Goto(pc)
    BY <1>2, <1>3, <1>4 DEF BeginCancel
  <1> QED
    BY <1>5, QuietMove

\* Leaving the receive loop of next preserves the invariant.
LEMMA LeaveLoopInv ==
    ASSUME Inv, thread.pc \in Bound, thread.conn \in Conns,
           NEW h, Quiet(heap, h), LeaveLoop(h)
    PROVE  HeapInv(heap') /\ ThreadInv(heap', thread')
  <1>1. {"terminate", "finish"} \subseteq Bound \ {"result"}
    BY DEF Bound, Sending
  <1>2. Quiet(heap, heap') /\ \E pc \in Bound \ {"result"} : Goto(pc)
    BY <1>1 DEF LeaveLoop
  <1> QED
    BY <1>2, QuietMove

\* So does leaving it with the call completed.
LEMMA CompleteAndLeaveLoopInv ==
    ASSUME Inv, thread.pc \in Bound, thread.conn \in Conns,
           NEW h, Quiet(heap, h), CompleteAndLeaveLoop(h)
    PROVE  HeapInv(heap') /\ ThreadInv(heap', thread')
  <1> DEFINE d == [h EXCEPT !.completed = @ \cup {thread.call}]
  <1>1. HeapInv(h) /\ thread.call \in Calls
    BY DEF Inv, ThreadInv, Quiet, Bound, Sending
  <1>2. h.completed \cup {thread.call} \in SUBSET Calls
    BY <1>1 DEF HeapInv, Heap
  <1>3. Quiet(heap, d)
    BY <1>1, <1>2, SetCallsQuiet, QuietTransitive
  <1>4. LeaveLoop(d)
    BY DEF CompleteAndLeaveLoop
  <1> HIDE DEF d
  <1> QED
    BY <1>3, <1>4, LeaveLoopInv

\* Every step of nghttp2_session_send preserves the invariant, on whatever
\* stream it acts.
LEMMA SendInv ==
    ASSUME Inv, SendStep
    PROVE  HeapInv(heap') /\ ThreadInv(heap', thread')
  <1> DEFINE k == thread.conn
             c == thread.call
             died == mark_connection_dead(heap, k)
  <1>0. HeapInv(heap) /\ heap \in Heap /\ thread \in Thread /\ thread.pc \in Sending
    BY DEF Inv, ThreadInv, HeapInv, SendStep, SendRstFrame, SendHeadersFrame,
           SendLastDataFrame, SendSucceeds, SendFails
  <1>1. thread.pc \in Bound /\ k \in Conns /\ c \in Calls
    BY <1>0 DEF Inv, ThreadInv, Bound, Sending
  <1>2. {"result", "recv", "loop", "cancelled", "terminated"} \subseteq Bound
    BY DEF Bound
  <1>3. Quiet(heap, died) /\ Quiet(heap, heap)
    BY <1>0, <1>1, MarkDeadQuiet DEF Quiet
  <1>4. ASSUME NEW s \in Streams, SendRstFrame(s)
        PROVE  HeapInv(heap') /\ ThreadInv(heap', thread')
    BY <1>0, <1>1, <1>4, CloseStreamQuiet, QuietStay DEF SendRstFrame
  <1>5. ASSUME NEW s \in Streams, SendHeadersFrame(s)
        PROVE  HeapInv(heap') /\ ThreadInv(heap', thread')
    <2> DEFINE opened == [heap EXCEPT !.pending = @ \ {s}, !.open = @ \cup {s}]
    <2>1. /\ heap.pending \ {s} \in SUBSET Streams
          /\ heap.open \cup {s} \in SUBSET Streams
      BY <1>0 DEF Heap
    <2>2. Quiet(heap, opened)
      BY <1>0, <2>1, SetSessionQuiet
    <2>3. Quiet(heap, CloseStream(heap, s))
      BY <1>0, CloseStreamQuiet
    <2>4. (heap' = CloseStream(heap, s) \/ heap' = opened) /\ UNCHANGED thread
      BY <1>5 DEF SendHeadersFrame
    <2> HIDE DEF opened
    <2> QED
      BY <1>1, <2>2, <2>3, <2>4, QuietStay
  <1>6. ASSUME NEW s \in Streams, SendLastDataFrame(s)
        PROVE  HeapInv(heap') /\ ThreadInv(heap', thread')
    <2> DEFINE sent == [heap EXCEPT !.source[s] = NULL]
    <2>1. Quiet(heap, sent)
      BY <1>0, SetSessionQuiet
    <2>2. Quiet(heap, CloseStream(heap, s))
      BY <1>0, CloseStreamQuiet
    <2>3. (heap' = CloseStream(heap, s) \/ heap' = sent) /\ UNCHANGED thread
      BY <1>6 DEF SendLastDataFrame
    <2> HIDE DEF sent
    <2> QED
      BY <1>1, <2>1, <2>2, <2>3, QuietStay
  <1>7. CASE SendSucceeds
    <2>1. Quiet(heap, WipeErrorDetail(heap, k))
      <3>1. heap.last_error_detail \ {k} \in SUBSET Conns
        BY <1>0 DEF Heap
      <3> QED
        BY <1>0, <3>1, SetConnsQuiet DEF WipeErrorDetail
    <2>2. CASE At("send") /\ thread.op = "reopen"
      <3>1. thread' = [thread EXCEPT !.op = "next", !.pc = "loop"] /\ UNCHANGED heap
        BY <1>7, <2>2 DEF SendSucceeds, At
      <3>2. /\ thread' \in Thread /\ thread'.pc = "loop" /\ thread'.op = "next"
            /\ thread'.call = c /\ thread'.conn = k /\ thread'.key = thread.key
        <4>1. "loop" \in PCs /\ "next" \in Ops
          BY DEF PCs, Ops
        <4> QED
          BY <1>0, <3>1, <4>1, Zenon DEF Thread
      <3> QED
        BY <1>0, <1>1, <3>1, <3>2 DEF Inv, ThreadInv, Bound, Sending
    <2>3. CASE At("send") /\ thread.op = "open"
      BY <1>0, <1>7, <2>3, IdleInv DEF SendSucceeds, At, Return
    <2>4. CASE At("send") /\ thread.op = "unary"
      <3>1. /\ UNCHANGED heap
            /\ \E pc \in {"result", "recv"} : Goto(pc)
        BY <1>7, <2>4 DEF SendSucceeds, At
      <3> QED
        BY <1>1, <1>2, <1>3, <2>4, <3>1, QuietMove
    <2>5. CASE ~(At("send") /\ thread.op \in {"unary", "open", "reopen"})
      <3>1. /\ heap' = heap \/ heap' = WipeErrorDetail(heap, k)
            /\ \E pc \in {"loop", "cancelled", "terminated"} : Goto(pc)
        BY <1>7, <2>5 DEF SendSucceeds, At
      <3>2. Quiet(heap, heap')
        BY <1>3, <2>1, <3>1
      <3> QED
        BY <1>1, <1>2, <3>1, <3>2, QuietMove
    <2> QED
      BY <2>2, <2>3, <2>4, <2>5
  <1>8. CASE SendFails
    <2> HIDE DEF died
    <2>1. CASE At("send") /\ thread.op = "next" /\ CompleteAndLeaveLoop(died)
      BY <1>1, <1>3, <2>1, CompleteAndLeaveLoopInv
    <2>2. CASE /\ At("send") /\ thread.op \in {"open", "reopen"} /\ Return
               /\ heap' = FreeCall(
                      clear_connection_server_streaming_call_state_owner(died, c), c)
      <3> DEFINE x == clear_connection_server_streaming_call_state_owner(died, c)
      <3>1. HeapInv(x) /\ x.connection[c] = NULL
        BY <1>1, <1>3, ClearStreamingInv DEF Quiet
      <3>2. heap' = FreeCall(x, c)
        BY <2>2
      <3> HIDE DEF x
      <3>3. HeapInv(heap')
        BY <1>1, <3>1, <3>2, FreeUnboundInv
      <3> QED
        BY <2>2, <3>3, IdleInv DEF Return
    <2>3. CASE At("send") /\ thread.op = "unary" /\ heap' = died /\ Goto("result")
      BY <1>1, <1>2, <1>3, <2>3, QuietMove
    <2>4. CASE heap' = died /\ (Goto("cancelled") \/ Goto("terminated"))
      BY <1>1, <1>2, <1>3, <2>4, QuietMove
    <2> QED
      BY <1>8, <2>1, <2>2, <2>3, <2>4 DEF SendFails, died
  <1> QED
    BY <1>4, <1>5, <1>6, <1>7, <1>8 DEF SendStep

\* Every step of a receive preserves the invariant: the frames of any stream,
\* the walk over active_streams on GOAWAY, and the failures.
LEMMA RecvInv ==
    ASSUME Inv, RecvStep
    PROVE  HeapInv(heap') /\ ThreadInv(heap', thread')
  <1> DEFINE k == thread.conn
             c == thread.call
             died == mark_connection_dead(heap, k)
  <1>0. /\ HeapInv(heap) /\ heap \in Heap /\ thread \in Thread
        /\ thread.pc \in {"recv", "frames", "goaway"}
    BY DEF Inv, ThreadInv, HeapInv, RecvStep, RecvTimesOut, RecvFails, RecvChunk,
           RecvHeaders, RecvMessage, RecvInvalid, RecvEndStream, RecvRst, Receiving,
           CloseRefusedStream, RecvGoaway, RefuseStream, GoawayDone, FramesDone,
           MemRecvFails, At
  <1>1. thread.pc \in Bound /\ k \in Conns /\ c \in Calls /\ heap.connection[c] = k
    BY <1>0 DEF Inv, ThreadInv, Bound, Sending
  <1>2. {"result", "send", "frames", "goaway", "cancelled"} \subseteq Bound
    BY DEF Bound, Sending
  <1>3. Quiet(heap, died) /\ Quiet(heap, heap)
    BY <1>0, <1>1, MarkDeadQuiet DEF Quiet
  <1>4. CASE RecvTimesOut
    <2> DEFINE noted == [heap EXCEPT !.last_error_detail = @ \cup {k}]
    <2>1. heap.last_error_detail \cup {k} \in SUBSET Conns
      BY <1>0, <1>1 DEF Heap
    <2>2. Quiet(heap, noted)
      BY <1>0, <2>1, SetConnsQuiet
    <2>3. BeginCancel(noted, c, "flush") \/ (heap' = noted /\ Goto("cancelled"))
      BY <1>4 DEF RecvTimesOut
    <2> HIDE DEF noted
    <2>4. CASE BeginCancel(noted, c, "flush")
      BY <1>1, <2>2, <2>4, BeginCancelInv
    <2>5. CASE heap' = noted /\ Goto("cancelled")
      BY <1>1, <1>2, <2>2, <2>5, QuietMove
    <2> QED
      BY <2>3, <2>4, <2>5
  <1>5. CASE RecvFails
    <2>1. \/ CompleteAndLeaveLoop(died)
          \/ thread.op = "unary" /\ heap' = died /\ Goto("result")
      BY <1>5 DEF RecvFails
    <2> HIDE DEF died
    <2> QED
      BY <1>1, <1>2, <1>3, <2>1, QuietMove, CompleteAndLeaveLoopInv
  <1>6. CASE RecvChunk
    BY <1>1, <1>2, <1>3, <1>6, QuietMove DEF RecvChunk
  <1>7. ASSUME NEW s \in Streams, RecvHeaders(s)
        PROVE  HeapInv(heap') /\ ThreadInv(heap', thread')
    <2>1. heap.user_data[s] \in Calls
      BY <1>0, <1>7 DEF RecvHeaders, Heap
    <2> QED
      BY <1>0, <1>1, <1>7, <2>1, ResponseQuiet, QuietStay DEF RecvHeaders
  <1>8. ASSUME NEW s \in Streams, RecvMessage(s)
        PROVE  HeapInv(heap') /\ ThreadInv(heap', thread')
    <2> DEFINE b == heap.user_data[s]
               queued == [heap EXCEPT !.response[b] = "queued"]
    <2>1. b \in Calls /\ "queued" \in Responses
      BY <1>0, <1>8 DEF RecvMessage, Heap, Responses
    <2>2. Quiet(heap, queued)
      BY <1>0, <2>1, ResponseQuiet
    <2>3. heap' = queued /\ UNCHANGED thread
      BY <1>8 DEF RecvMessage
    <2> HIDE DEF queued
    <2> QED
      BY <1>1, <2>2, <2>3, QuietStay
  <1>9. ASSUME NEW s \in Streams, RecvInvalid(s)
        PROVE  HeapInv(heap') /\ ThreadInv(heap', thread')
    <2> DEFINE b == heap.user_data[s]
               flagged == [heap EXCEPT !.response[b] = "policy"]
    <2>1. b \in Calls /\ "policy" \in Responses
      BY <1>0, <1>9 DEF RecvInvalid, Heap, Responses
    <2>2. Quiet(heap, flagged) /\ Quiet(heap, Started(heap, b))
      BY <1>0, <2>1, ResponseQuiet
    <2>3. /\ heap' \in {flagged, SubmitRst(flagged, s), SubmitRst(Started(heap, b), s)}
          /\ UNCHANGED thread
      BY <1>9 DEF RecvInvalid
    <2> HIDE DEF flagged, b
    <2>4. /\ Quiet(heap, SubmitRst(flagged, s))
          /\ Quiet(heap, SubmitRst(Started(heap, b), s))
      <3>1. HeapInv(flagged) /\ HeapInv(Started(heap, b))
        BY <2>2 DEF Quiet
      <3>2. /\ Quiet(flagged, SubmitRst(flagged, s))
            /\ Quiet(Started(heap, b), SubmitRst(Started(heap, b), s))
        BY <3>1, SubmitRstQuiet
      <3> QED
        BY <2>2, <3>2, QuietTransitive
    <2>5. Quiet(heap, heap') /\ UNCHANGED thread
      BY <2>2, <2>3, <2>4
    <2> QED
      BY <1>1, <2>5, QuietStay
  <1>10. ASSUME NEW s \in Streams, RecvEndStream(s)
         PROVE  HeapInv(heap') /\ ThreadInv(heap', thread')
    <2> DEFINE b == heap.user_data[s]
               ended == IF b = NULL THEN heap ELSE Started(heap, b)
    <2>1. b \in Calls \cup {NULL}
      BY <1>0 DEF Heap
    <2>2. Quiet(heap, ended)
      BY <1>0, <1>3, <2>1, ResponseQuiet
    <2>3. (heap' = CloseStream(ended, s) \/ heap' = ended) /\ UNCHANGED thread
      BY <1>10 DEF RecvEndStream
    <2> HIDE DEF ended
    <2>4. Quiet(heap, CloseStream(ended, s))
      BY <2>2, CloseStreamQuiet, QuietTransitive DEF Quiet
    <2> QED
      BY <1>1, <2>2, <2>3, <2>4, QuietStay
  <1>11. ASSUME NEW s \in Streams, RecvRst(s)
         PROVE  HeapInv(heap') /\ ThreadInv(heap', thread')
    <2> DEFINE b == heap.user_data[s]
               refused == Refused(heap, b, "rst")
    <2>1. b \in Calls \cup {NULL}
      BY <1>0 DEF Heap
    <2>2. b # NULL => Quiet(heap, refused)
      BY <1>0, <2>1, ResponseQuiet
    <2>3. /\ heap' = CloseStream(heap, s) \/ (b # NULL /\ heap' = CloseStream(refused, s))
          /\ UNCHANGED thread
      BY <1>11 DEF RecvRst
    <2> HIDE DEF b, refused
    <2>4. b # NULL => Quiet(refused, CloseStream(refused, s))
      BY <2>2, CloseStreamQuiet DEF Quiet
    <2>5. Quiet(heap, heap') /\ UNCHANGED thread
      BY <1>0, <2>2, <2>3, <2>4, CloseStreamQuiet, QuietTransitive
    <2> QED
      BY <1>1, <2>5, QuietStay
  <1>12. ASSUME NEW s \in Streams, CloseRefusedStream(s)
         PROVE  HeapInv(heap') /\ ThreadInv(heap', thread')
    BY <1>0, <1>1, <1>12, CloseStreamQuiet, QuietStay DEF CloseRefusedStream
  <1>13. ASSUME NEW last \in 0 .. MaxStreamId, RecvGoaway(last)
         PROVE  HeapInv(heap') /\ ThreadInv(heap', thread')
    <2> DEFINE drained == [heap EXCEPT !.draining = @ \cup {k}]
    <2>1. heap.draining \cup {k} \in SUBSET Conns
      BY <1>0, <1>1 DEF Heap
    <2>2. Quiet(heap, drained)
      BY <1>0, <2>1, SetConnsQuiet
    <2>3. heap' = drained /\ thread' = [thread EXCEPT !.pc = "goaway", !.last = last]
      BY <1>13 DEF RecvGoaway
    <2> HIDE DEF drained
    <2>4. /\ thread' \in Thread /\ thread'.pc = "goaway" /\ thread'.op = thread.op
          /\ thread'.call = c /\ thread'.conn = k /\ thread'.key = thread.key
      <3>1. "goaway" \in PCs
        BY DEF PCs
      <3> QED
        BY <1>0, <2>3, <3>1, Zenon DEF Thread
    <2> QED
      BY <1>0, <1>1, <2>2, <2>3, <2>4 DEF Inv, ThreadInv, Quiet, Bound, Sending
  <1>14. ASSUME NEW b \in Calls, RefuseStream(b)
         PROVE  HeapInv(heap') /\ ThreadInv(heap', thread')
    <2> DEFINE refused == Refused(heap, b, "goaway")
               closed == [refused EXCEPT !.stream_closed = @ \cup {b}]
    <2>1. Quiet(heap, refused)
      BY <1>0, ResponseQuiet
    <2>2. heap' = unregister_grpc_call_stream(closed, b) /\ UNCHANGED thread
      BY <1>14 DEF RefuseStream
    <2> HIDE DEF refused
    <2>3. HeapInv(refused) /\ refused.stream_closed \cup {b} \in SUBSET Calls
      BY <2>1 DEF Quiet, HeapInv, Heap
    <2>4. Quiet(refused, closed)
      BY <2>3, SetCallsQuiet
    <2> HIDE DEF closed
    <2>5. Quiet(closed, heap')
      BY <2>2, <2>4, UnregisterQuiet DEF Quiet
    <2>6. Quiet(heap, heap')
      BY <2>1, <2>4, <2>5, QuietTransitive
    <2> QED
      BY <1>1, <2>2, <2>6, QuietStay
  <1>15. CASE GoawayDone
    <2>1. UNCHANGED heap /\ thread' = [thread EXCEPT !.pc = "frames", !.last = 0]
      BY <1>15 DEF GoawayDone
    <2>2. /\ thread' \in Thread /\ thread'.pc = "frames" /\ thread'.op = thread.op
          /\ thread'.call = c /\ thread'.conn = k /\ thread'.key = thread.key
      <3>1. "frames" \in PCs
        BY DEF PCs
      <3> QED
        BY <1>0, <2>1, <3>1, IdleFields, Zenon DEF Thread
    <2> QED
      BY <1>0, <1>1, <2>1, <2>2 DEF Inv, ThreadInv, Bound, Sending
  <1>16. CASE FramesDone
    BY <1>1, <1>2, <1>3, <1>16, QuietMove DEF FramesDone
  <1>17. CASE MemRecvFails
    <2>1. PICK flagged \in {{}} \cup {{a} : a \in heap.active_streams[k]} :
            LET killed == mark_connection_dead(
                              [heap EXCEPT !.response = [a \in Calls |->
                                  IF a \in flagged THEN "policy" ELSE heap.response[a]]], k)
            IN  \/ /\ heap' = destroy_detached_connection_if_unowned(
                          FreeCall(clear_connection_call_owner(
                              detach_persistent_connection_by_ptr(killed, k),
                              k, c), c), k)
                   /\ Return
                \/ CompleteAndLeaveLoop(killed)
      BY <1>17 DEF MemRecvFails
    <2> DEFINE R == [a \in Calls |-> IF a \in flagged THEN "policy" ELSE heap.response[a]]
               f == [heap EXCEPT !.response = R]
               killed == mark_connection_dead(f, k)
               detached == detach_persistent_connection_by_ptr(killed, k)
               freed == FreeCall(clear_connection_call_owner(detached, k, c), c)
    <2>2. R \in [Calls -> Responses]
      BY <1>0 DEF Heap, Responses
    <2>3. \/ heap' = destroy_detached_connection_if_unowned(freed, k) /\ Return
          \/ CompleteAndLeaveLoop(killed)
      BY <2>1
    <2> HIDE DEF R
    <2>4. Quiet(heap, f)
      BY <1>0, <2>2, SetResponseQuiet
    <2> HIDE DEF f
    <2>5. Quiet(heap, killed)
      BY <1>1, <2>4, MarkDeadQuiet, QuietTransitive DEF Quiet
    <2> HIDE DEF killed
    <2>6. CASE CompleteAndLeaveLoop(killed)
      BY <1>1, <2>5, <2>6, CompleteAndLeaveLoopInv
    <2>7. CASE heap' = destroy_detached_connection_if_unowned(freed, k) /\ Return
      <3>1. HeapInv(detached) /\ detached.connection[c] = k
        BY <1>1, <2>5, DetachInv DEF Quiet, SameCalls
      <3> HIDE DEF detached
      <3>2. HeapInv(freed)
        BY <1>1, <3>1, ClearAndFreeInv
      <3> HIDE DEF freed
      <3> QED
        BY <1>1, <2>7, <3>2, DestroyIfUnownedInv, IdleInv DEF Return
    <2> QED
      BY <2>3, <2>6, <2>7
  <1> QED
    BY <1>4, <1>5, <1>6, <1>7, <1>8, <1>9, <1>10, <1>11, <1>12, <1>13, <1>14, <1>15,
       <1>16, <1>17 DEF RecvStep

\* The end of a call, its retry, cancel and destruction preserve the invariant.
LEMMA FinishInv ==
    ASSUME Inv, FinishStep
    PROVE  HeapInv(heap') /\ ThreadInv(heap', thread')
  <1> DEFINE k == thread.conn
             c == thread.call
             completed == [heap EXCEPT !.completed = @ \cup {c}]
  <1>0. /\ HeapInv(heap) /\ heap \in Heap /\ thread \in Thread
        /\ thread.pc \in {"result", "returned", "loop", "finish", "terminate",
                          "terminated", "destroy", "free", "cancelled"}
    BY DEF Inv, ThreadInv, HeapInv, FinishStep, UnaryResult, UnaryReturned, NextLoop,
           NextFinish, Terminate, Terminated, DestroyCall, FreeDestroyedCall, Cancelled, At
  <1>1. c \in Calls /\ thread.key \in Keys
    BY <1>0 DEF Inv, ThreadInv
  <1>2. thread.pc # "returned" => thread.pc \in Bound /\ heap.connection[c] = k
    BY <1>0 DEF Inv, ThreadInv, Bound, Sending
  <1>3. thread.pc \notin {"destroy", "free"} => k \in Conns
    BY <1>0 DEF Inv, ThreadInv
  <1>4. {"loop", "recv", "finish", "terminated", "cancelled", "free", "result"} \subseteq Bound
    BY DEF Bound, Sending
  <1>5. Quiet(heap, heap) /\ Quiet(heap, completed)
    <2>1. heap.completed \cup {c} \in SUBSET Calls
      BY <1>0, <1>1 DEF Heap
    <2> QED
      BY <1>0, <2>1, SetCallsQuiet DEF Quiet
  <1>6. ASSUME NEW h, HeapInv(h)
        PROVE  LET d == FreeCall(clear_connection_server_streaming_call_state_owner(h, c), c)
               IN  HeapInv(d) /\ d.alloc = h.alloc \ {c}
    <2> DEFINE x == clear_connection_server_streaming_call_state_owner(h, c)
    <2>1. HeapInv(x) /\ x.connection[c] = NULL /\ x.alloc = h.alloc
      BY <1>1, <1>6, ClearStreamingInv
    <2> HIDE DEF x
    <2>2. HeapInv(FreeCall(x, c)) /\ FreeCall(x, c).alloc = h.alloc \ {c}
      BY <1>1, <2>1, FreeUnboundInv
    <2> QED
      BY <2>2 DEF x
  <1>7. CASE UnaryResult
    <2> DEFINE freed == FreeCall(clear_connection_call_owner(heap, k, c), c)
    <2>1. At("result") /\ thread.pc \in Bound /\ k \in Conns /\ heap.connection[c] = k
      BY <1>2, <1>3, <1>7 DEF UnaryResult, At
    <2>2. thread.op = "unary" /\ k # NULL
      BY <2>1, ConstantsAssumption DEF Inv, ThreadInv, At
    <2>3. heap.cache[thread.key] = k
      BY <2>2 DEF Inv, ThreadInv
    <2>4. k \notin heap.detached_from_cache
      BY <1>0, <1>1, <2>2, <2>3 DEF HeapInv, CacheHolds
    <2>5. /\ HeapInv(freed) /\ freed.cache = heap.cache
          /\ freed.detached_from_cache = heap.detached_from_cache
          /\ freed.alloc = heap.alloc \ {c}
      BY <1>0, <1>1, <2>1, ClearAndFreeInv
    <2>6. heap' = destroy_detached_connection_if_unowned(freed, k)
      BY <1>7 DEF UnaryResult
    <2> HIDE DEF freed
    <2>7. heap' = freed
      BY <2>1, <2>4, <2>5, <2>6, DestroyIfUnownedInv
    <2>8. /\ thread' \in Thread /\ thread'.pc = "returned" /\ thread'.op = thread.op
          /\ thread'.call = c /\ thread'.conn = k /\ thread'.key = thread.key
      <3>1. "returned" \in PCs
        BY DEF PCs
      <3> DEFINE how == IF retryable(heap, c) THEN heap.response[c] ELSE "no"
      <3>2. how \in {"no", "goaway", "rst"}
        BY DEF retryable
      <3>3. thread' = [thread EXCEPT !.pc = "returned", !.refused = how]
        BY <1>7 DEF UnaryResult
      <3> HIDE DEF how
      <3> QED
        BY <1>0, <3>1, <3>2, <3>3, Zenon DEF Thread
    <2> QED
      BY <1>1, <2>1, <2>2, <2>3, <2>5, <2>7, <2>8 DEF ThreadInv, Bound, Sending
  <1>8. CASE UnaryReturned
    <2> DEFINE evicted == remove_unusable_persistent_connection(heap, thread.key, k)
    <2>1. At("returned") /\ k \in Conns /\ k # NULL /\ c \notin heap.alloc
      BY <1>0, <1>3, <1>8, ConstantsAssumption DEF Inv, ThreadInv, UnaryReturned, At
    <2>2. heap.cache[thread.key] = k
      BY <2>1 DEF Inv, ThreadInv, At
    <2>3. HeapInv(evicted) /\ evicted.alloc = heap.alloc
      BY <1>0, <1>1, <2>1, <2>2, RemoveUnusableInv
    <2>4. heap' = heap \/ heap' = evicted
      BY <1>8 DEF UnaryReturned
    <2> HIDE DEF evicted
    <2>5. HeapInv(heap') /\ heap'.alloc = heap.alloc
      BY <1>0, <2>3, <2>4
    <2>6. CASE thread' = Idle
      BY <2>5, <2>6, IdleInv
    <2>7. CASE thread' = [thread EXCEPT !.pc = "get", !.conn = NULL,
                                        !.attempt = 1, !.refused = "no"]
      <3>1. "get" \in PCs /\ 1 \in {0, 1}
        BY DEF PCs
      <3>2. /\ thread' \in Thread /\ thread'.pc = "get"
            /\ thread'.call = c /\ thread'.conn = NULL /\ thread'.key = thread.key
        BY <1>0, <2>7, <3>1, IdleFields, Zenon DEF Thread
      <3> QED
        BY <1>1, <2>1, <2>5, <3>2 DEF ThreadInv, Bound, Sending
    <2> QED
      BY <1>8, <2>6, <2>7 DEF UnaryReturned
  <1>9. CASE NextLoop
    <2> DEFINE died == mark_connection_dead(heap, k)
    <2>1. thread.pc \in Bound /\ k \in Conns
      BY <1>2, <1>3, <1>9 DEF NextLoop, At
    <2>2. Quiet(heap, died)
      BY <1>0, <2>1, MarkDeadQuiet
    <2>3. \/ LeaveLoop(heap) \/ CompleteAndLeaveLoop(heap)
          \/ Goto("recv") /\ UNCHANGED heap
          \/ CompleteAndLeaveLoop(died)
          \/ BeginCancel(heap, c, "flush")
      BY <1>9 DEF NextLoop
    <2> HIDE DEF died
    <2>4. CASE LeaveLoop(heap)
      BY <1>5, <2>1, <2>4, LeaveLoopInv
    <2>5. CASE CompleteAndLeaveLoop(heap) \/ CompleteAndLeaveLoop(died)
      BY <1>5, <2>1, <2>2, <2>5, CompleteAndLeaveLoopInv
    <2>6. CASE Goto("recv") /\ UNCHANGED heap
      BY <1>4, <1>5, <2>1, <2>6, QuietMove
    <2>7. CASE BeginCancel(heap, c, "flush")
      BY <1>5, <2>1, <2>7, BeginCancelInv
    <2> QED
      BY <2>3, <2>4, <2>5, <2>6, <2>7
  <1>10. CASE NextFinish
    <2> DEFINE finished == clear_connection_server_streaming_call_state_owner(completed, c)
    <2>0. HeapInv(completed) /\ completed.alloc = heap.alloc
      BY <1>5 DEF Quiet
    <2>1. \/ heap' \in {heap, TakeQueue(heap, c)} /\ Return
          \/ heap' = finished /\ Return
          \/ /\ heap' = FreeCall(finished, c)
             /\ thread' = [thread EXCEPT !.op = "reopen", !.pc = "get",
                                         !.conn = NULL, !.attempt = 1]
      BY <1>10 DEF NextFinish
    <2> HIDE DEF completed
    <2>2. CASE heap' \in {heap, TakeQueue(heap, c)} /\ Return
      BY <1>0, <1>1, <2>2, ResponseQuiet, IdleInv DEF Quiet, Return
    <2>3. CASE heap' = finished /\ Return
      BY <1>1, <2>0, <2>3, ClearStreamingInv, IdleInv DEF Return
    <2>4. CASE /\ heap' = FreeCall(finished, c)
               /\ thread' = [thread EXCEPT !.op = "reopen", !.pc = "get",
                                           !.conn = NULL, !.attempt = 1]
      <3>1. HeapInv(heap') /\ heap'.alloc = heap.alloc \ {c}
        BY <1>6, <2>0, <2>4
      <3>2. "get" \in PCs /\ "reopen" \in Ops /\ 1 \in {0, 1}
        BY DEF PCs, Ops
      <3>3. /\ thread' \in Thread /\ thread'.pc = "get"
            /\ thread'.call = c /\ thread'.conn = NULL /\ thread'.key = thread.key
        BY <1>0, <2>4, <3>2, IdleFields, Zenon DEF Thread
      <3> QED
        BY <1>1, <3>1, <3>3 DEF ThreadInv, Bound, Sending
    <2> QED
      BY <2>1, <2>2, <2>3, <2>4
  <1>11. CASE Terminate
    <2>1. thread.pc \in Bound /\ k \in Conns
      BY <1>2, <1>3, <1>11 DEF Terminate, At
    <2>2. Quiet(heap, TakeQueue(heap, c))
      BY <1>0, <1>1, ResponseQuiet
    <2>3. \/ BeginCancel(TakeQueue(heap, c), c, "termflush")
          \/ heap' = TakeQueue(heap, c) /\ Goto("terminated")
      BY <1>11 DEF Terminate
    <2> QED
      BY <1>4, <2>1, <2>2, <2>3, BeginCancelInv, QuietMove
  <1>12. CASE Terminated
    <2> DEFINE detached == DetachIfUnusable(heap, k)
               ended == [detached EXCEPT !.completed = @ \cup {c}]
    <2>1. thread.pc \in Bound /\ k \in Conns /\ heap.connection[c] = k
      BY <1>2, <1>3, <1>12 DEF Terminated, At
    <2>2. HeapInv(detached) /\ SameCalls(heap, detached)
      BY <1>0, <2>1, DetachIfUnusableInv
    <2>3. \/ thread.op = "next" /\ heap' = ended /\ Goto("finish")
          \/ /\ heap' = clear_connection_server_streaming_call_state_owner(ended, c)
             /\ Return
      BY <1>12, <2>1 DEF Terminated
    <2> HIDE DEF detached
    <2>4. Quiet(detached, ended)
      <3>1. detached.completed \cup {c} \in SUBSET Calls
        BY <1>1, <2>2 DEF HeapInv, Heap
      <3> QED
        BY <2>2, <3>1, SetCallsQuiet
    <2> HIDE DEF ended
    <2>5. CASE thread.op = "next" /\ heap' = ended /\ Goto("finish")
      <3>1. HeapInv(heap') /\ heap'.alloc = heap.alloc /\ heap'.connection = heap.connection
        BY <2>2, <2>4, <2>5 DEF Quiet, SameCalls
      <3>2. ThreadInv(heap', [thread EXCEPT !.pc = "finish"])
        BY <1>4, <2>1, <2>5, <3>1, MoveInv DEF Inv
      <3> QED
        BY <2>5, <3>1, <3>2 DEF Goto
    <2>6. CASE /\ heap' = clear_connection_server_streaming_call_state_owner(ended, c)
               /\ Return
      BY <1>1, <2>4, <2>6, ClearStreamingInv, IdleInv DEF Quiet, Return
    <2> QED
      BY <2>3, <2>5, <2>6
  <1>13. CASE DestroyCall
    <2>1. CASE Cancellable(heap, c) /\ BeginCancel(heap, c, "flush")
      <3>1. thread.pc \in Bound /\ heap.connection[c] = k
        BY <1>2, <1>13 DEF DestroyCall, At
      <3>2. k \in Conns
        BY <1>0, <1>1, <2>1, <3>1 DEF Cancellable, connection_io_allowed, Heap
      <3> QED
        BY <1>5, <2>1, <3>1, <3>2, BeginCancelInv
    <2>2. CASE Goto("free") /\ UNCHANGED heap
      <3>1. /\ thread' \in Thread /\ thread'.pc = "free" /\ thread'.op = thread.op
            /\ thread'.call = c /\ thread'.conn = k /\ thread'.key = thread.key
        <4>1. "free" \in PCs
          BY DEF PCs
        <4> QED
          BY <1>0, <2>2, <4>1, Zenon DEF Goto, Thread
      <3>2. thread.pc = "destroy"
        BY <1>13 DEF DestroyCall, At
      <3> QED
        BY <1>0, <1>1, <2>2, <3>1, <3>2 DEF Inv, ThreadInv, Bound, Sending
    <2> QED
      BY <1>13, <2>1, <2>2 DEF DestroyCall
  <1>14. CASE FreeDestroyedCall
    BY <1>0, <1>6, <1>14, IdleInv DEF FreeDestroyedCall, Return
  <1>15. CASE Cancelled
    <2>1. thread.pc \in Bound /\ k \in Conns /\ heap.connection[c] = k
      BY <1>2, <1>3, <1>15 DEF Cancelled, At
    <2>2. CASE thread.op = "unary" /\ Goto("result") /\ UNCHANGED heap
      BY <1>4, <1>5, <2>1, <2>2, QuietMove
    <2>3. CASE CompleteAndLeaveLoop(heap)
      BY <1>5, <2>1, <2>3, CompleteAndLeaveLoopInv
    <2>4. CASE /\ thread.op = "destroy" /\ Goto("free")
               /\ heap' = DetachIfUnusable(heap, heap.connection[c])
      <3>1. HeapInv(heap') /\ SameCalls(heap, heap')
        BY <1>0, <2>1, <2>4, DetachIfUnusableInv
      <3>2. ThreadInv(heap', [thread EXCEPT !.pc = "free"])
        BY <1>4, <2>1, <2>4, <3>1, MoveInv DEF Inv, SameCalls
      <3> QED
        BY <2>4, <3>1, <3>2 DEF Goto
    <2> QED
      BY <1>15, <2>2, <2>3, <2>4 DEF Cancelled
  <1> QED
    BY <1>7, <1>8, <1>9, <1>10, <1>11, <1>12, <1>13, <1>14, <1>15 DEF FinishStep

(***************************************************************************)
(* The theorems.                                                           *)
(***************************************************************************)
\* Inv holds initially and every step preserves it.
LEMMA InvInductive == Spec => []Inv
  <1>1. Init => Inv
    BY EmptyHeapInv, IdleInv DEF Init, Inv
  <1>2. Inv /\ [Next]_vars => Inv'
    <2> SUFFICES ASSUME Inv, [Next]_vars
                 PROVE  HeapInv(heap') /\ ThreadInv(heap', thread')
      BY DEF Inv
    <2>1. CASE Next
      BY <2>1, StartInv, GetConnectionInv, SubmitInv, SendInv, RecvInv, FinishInv DEF Next
    <2>2. CASE UNCHANGED vars
      BY <2>2 DEF vars, Inv
    <2> QED
      BY <2>1, <2>2
  <1> QED
    BY <1>1, <1>2, PTL DEF Spec

\* Every field of every h2_connection, grpc_call and nghttp2 session keeps its
\* type: in particular the unsigned counters of an h2_connection are never
\* counted below zero, by whatever sequence of opens, frames, cancels and frees.
THEOREM TypeCorrect == Spec => []TypeOK
  <1>1. Inv => TypeOK
    BY DEF Inv, HeapInv, ThreadInv, TypeOK
  <1> QED
    BY <1>1, InvInductive, PTL

\* For any number of keys, connections, calls and streams, the counters and the
\* stream list of an h2_connection agree with the calls that own it after every
\* step of register/unregister_grpc_call_stream and the clear_..._owner functions.
THEOREM OwnershipExact == Spec => []OwnershipInv
  <1>1. Inv => OwnershipInv
    BY DEF Inv, HeapInv, CallsOwn, Counted, OwnersIn, OwnershipInv, Owners
  <1> QED
    BY <1>1, InvInductive, PTL

\* For any number of keys, connections, calls and streams, neither the cache, nor
\* a call, nor the operation in progress ever points at a destroyed connection,
\* wherever destroy_h2_connection is called from.
THEOREM NeverDangling == Spec => []NoDanglingConnection
  <1>1. Inv => NoDanglingConnection
    <2> SUFFICES ASSUME Inv
                 PROVE  NoDanglingConnection
      OBVIOUS
    <2>1. \A key \in Keys : heap.cache[key] # NULL =>
              /\ heap.cache[key] \in heap.live \ heap.detached_from_cache
              /\ \A other \in Keys \ {key} : heap.cache[other] # heap.cache[key]
      BY DEF Inv, HeapInv, CacheHolds
    <2>2. \A c \in heap.alloc : heap.connection[c] # NULL =>
              heap.connection[c] \in heap.live /\ c \in heap.connection_owned
      BY DEF Inv, HeapInv, CallsOwn, Heap
    <2>3. thread.conn # NULL => thread.conn \in heap.live
      <3> SUFFICES ASSUME thread.conn # NULL
                   PROVE  thread.conn \in heap.live
        OBVIOUS
      <3>1. CASE thread.pc \in Bound
        <4>1. thread.call \in heap.alloc /\ heap.connection[thread.call] = thread.conn
          BY <3>1 DEF Inv, ThreadInv
        <4> QED
          BY <2>2, <4>1
      <3>2. CASE thread.pc \notin Bound
        <4>1. thread.pc \in {"submit", "returned"}
          BY <3>2 DEF Inv, ThreadInv, Thread, PCs, Bound
        <4>2. heap.cache[thread.key] = thread.conn /\ thread.key \in Keys
          BY <4>1 DEF Inv, ThreadInv
        <4> QED
          BY <2>1, <4>2
      <3> QED
        BY <3>1, <3>2
    <2> QED
      BY <2>1, <2>2, <2>3 DEF NoDanglingConnection
  <1> QED
    BY <1>1, InvInductive, PTL
=============================================================================
