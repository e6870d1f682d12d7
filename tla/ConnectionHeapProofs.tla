----------------------- MODULE ConnectionHeapProofs ------------------------
EXTENDS ConnectionOwnership, FiniteSetTheorems, TLAPS

(***************************************************************************)
(* The helpers of transport.c preserve the ownership of connections.       *)
(* HeapInv is the part of the inductive invariant that speaks of the heap; *)
(* each lemma says what one helper needs of it and what it leaves intact.  *)
(***************************************************************************)

\* The ownership part of the heap is the same in g and h.
SameOwnership(h, g) ==
    /\ g.cache = h.cache /\ g.live = h.live
    /\ g.detached_from_cache = h.detached_from_cache
    /\ g.active_streams = h.active_streams
    /\ g.active_stream_count = h.active_stream_count
    /\ g.stream_owner_count = h.stream_owner_count
    /\ g.alloc = h.alloc /\ g.channel_key = h.channel_key
    /\ g.connection = h.connection /\ g.stream_id = h.stream_id
    /\ g.stream_registered = h.stream_registered
    /\ g.connection_owned = h.connection_owned

\* Forgetting the session of a connection keeps the heap's type and touches no
\* field that says who owns what.
LEMMA ForgetSessionFields ==
    ASSUME NEW h \in Heap, NEW k \in Conns
    PROVE  /\ ForgetSession(h, k) \in Heap
           /\ SameOwnership(h, ForgetSession(h, k))
  <1>1. [h.next_id EXCEPT ![k] = 1] \in [Conns -> 1 .. MaxStreamId + 1]
    BY ConstantsAssumption DEF Heap
  <1>2. /\ [s \in Streams |-> IF s[1] = k THEN NULL ELSE h.user_data[s]]
              \in [Streams -> Calls \cup {NULL}]
        /\ [s \in Streams |-> IF s[1] = k THEN NULL ELSE h.source[s]]
              \in [Streams -> Calls \cup {NULL}]
    BY DEF Heap
  <1>3. /\ h.pending \ StreamsOn(k) \in SUBSET Streams
        /\ h.open \ StreamsOn(k) \in SUBSET Streams
        /\ h.rst \ StreamsOn(k) \in SUBSET Streams
    BY DEF Heap
  <1>4. ForgetSession(h, k) \in Heap
    BY <1>1, <1>2, <1>3, ZenonT(60) DEF Heap, ForgetSession
  <1> QED
    BY <1>4, ZenonT(60) DEF Heap, ForgetSession, SameOwnership

\* mark_connection_dead keeps the heap's type and changes no ownership.
LEMMA MarkDeadFields ==
    ASSUME NEW h \in Heap, NEW k \in Conns
    PROVE  /\ mark_connection_dead(h, k) \in Heap
           /\ SameOwnership(h, mark_connection_dead(h, k))
  <1> DEFINE f == ForgetSession(h, k)
  <1>1. f \in Heap /\ SameOwnership(h, f)
    BY ForgetSessionFields
  <1> HIDE DEF f
  <1>2. [f EXCEPT !.dead = @ \cup {k}, !.last_error_detail = @ \cup {k}] \in Heap
    BY <1>1, ZenonT(60) DEF Heap
  <1>3. SameOwnership(h, [f EXCEPT !.dead = @ \cup {k}, !.last_error_detail = @ \cup {k}])
    BY <1>1 DEF Heap, SameOwnership
  <1> QED
    BY <1>2, <1>3 DEF mark_connection_dead, f

(***************************************************************************)
(* The inductive invariant, part one: the heap.                            *)
(***************************************************************************)
OwnersIn(h, k) == {c \in h.connection_owned : h.connection[c] = k}

CallsOwn(h) ==
    /\ h.stream_registered \subseteq h.connection_owned
    /\ h.connection_owned \subseteq h.alloc
    /\ \A c \in Calls : h.connection[c] # NULL <=> c \in h.connection_owned
    /\ \A c \in h.connection_owned : h.connection[c] \in h.live
    /\ \A c \in h.stream_registered : h.stream_id[c] # 0
    /\ \A c \in h.alloc : h.channel_key[c] \in Keys

Counted(h) ==
    \A k \in Conns :
        /\ h.stream_owner_count[k] = Cardinality(OwnersIn(h, k))
        /\ h.active_streams[k] = OwnersIn(h, k) \cap h.stream_registered
        /\ h.active_stream_count[k] = Cardinality(h.active_streams[k])

CacheHolds(h) ==
    /\ h.detached_from_cache \subseteq h.live
    /\ \A key \in Keys : h.cache[key] # NULL =>
           h.cache[key] \in h.live \ h.detached_from_cache
    /\ \A key, other \in Keys :
           h.cache[key] # NULL /\ h.cache[other] = h.cache[key] => other = key

HeapInv(h) == h \in Heap /\ CallsOwn(h) /\ Counted(h) /\ CacheHolds(h)

\* The invariant speaks of ownership fields only.
LEMMA SameOwnershipInv ==
    ASSUME NEW h, NEW g \in Heap, HeapInv(h), SameOwnership(h, g)
    PROVE  HeapInv(g)
  BY DEF HeapInv, SameOwnership, CallsOwn, Counted, CacheHolds, OwnersIn

\* Counting a call in and out of a finite set of calls.
LEMMA CountCalls ==
    ASSUME NEW S \in SUBSET Calls, NEW c \in Calls
    PROVE  /\ Cardinality(S) \in Nat
           /\ Cardinality({}) = 0
           /\ Cardinality(S) = 0 <=> S = {}
           /\ c \notin S => Cardinality(S \cup {c}) = Cardinality(S) + 1
           /\ c \in S => Cardinality(S \ {c}) = Cardinality(S) - 1 /\ Cardinality(S) > 0
  <1>1. IsFiniteSet(S)
    BY ConstantsAssumption, FS_Subset
  <1>2. Cardinality(S) \in Nat /\ Cardinality({}) = 0 /\ (Cardinality(S) = 0 <=> S = {})
    BY <1>1, FS_CardinalityType, FS_EmptySet
  <1>3. c \notin S => Cardinality(S \cup {c}) = Cardinality(S) + 1
    BY <1>1, FS_AddElement
  <1>4. c \in S => Cardinality(S \ {c}) = Cardinality(S) - 1
    BY <1>1, FS_RemoveElement
  <1> QED
    BY <1>2, <1>3, <1>4

\* destroy_h2_connection is safe for a connection that no call owns and that
\* the cache does not hold.
LEMMA DestroyInv ==
    ASSUME NEW h, HeapInv(h), NEW k \in Conns,
           OwnersIn(h, k) = {}, \A key \in Keys : h.cache[key] # k
    PROVE  LET d == destroy_h2_connection(h, k)
           IN  /\ HeapInv(d)
               /\ d.live = h.live \ {k}
               /\ d.cache = h.cache /\ d.alloc = h.alloc
               /\ d.connection = h.connection
               /\ d.detached_from_cache = h.detached_from_cache \ {k}
  <1> DEFINE f == ForgetSession(h, k)
             d == destroy_h2_connection(h, k)
  <1>0. h \in Heap
    BY DEF HeapInv
  <1>1. f \in Heap /\ SameOwnership(h, f)
    BY <1>0, ForgetSessionFields
  <1> HIDE DEF f
  <1>2. /\ [f.active_streams EXCEPT ![k] = {}] \in [Conns -> SUBSET Calls]
        /\ [f.active_stream_count EXCEPT ![k] = 0] \in [Conns -> Nat]
        /\ [f.stream_owner_count EXCEPT ![k] = 0] \in [Conns -> Nat]
    BY <1>1 DEF Heap
  <1>3. d \in Heap
    <2>1. /\ f.live \ {k} \in SUBSET Conns /\ f.dead \ {k} \in SUBSET Conns
          /\ f.draining \ {k} \in SUBSET Conns
          /\ f.detached_from_cache \ {k} \in SUBSET Conns
          /\ f.last_error_detail \ {k} \in SUBSET Conns
      BY <1>1 DEF Heap
    <2> QED
      BY <1>1, <1>2, <2>1, ZenonT(60) DEF Heap, destroy_h2_connection, f
  <1>4. /\ d.live = h.live \ {k} /\ d.cache = h.cache /\ d.alloc = h.alloc
        /\ d.connection = h.connection /\ d.channel_key = h.channel_key
        /\ d.stream_id = h.stream_id
        /\ d.stream_registered = h.stream_registered
        /\ d.connection_owned = h.connection_owned
        /\ d.detached_from_cache = h.detached_from_cache \ {k}
        /\ d.active_streams = [h.active_streams EXCEPT ![k] = {}]
        /\ d.active_stream_count = [h.active_stream_count EXCEPT ![k] = 0]
        /\ d.stream_owner_count = [h.stream_owner_count EXCEPT ![k] = 0]
    BY <1>1, ZenonT(60) DEF Heap, destroy_h2_connection, f, SameOwnership
  <1> HIDE DEF d
  <1>5. CallsOwn(d)
    BY <1>0, <1>4 DEF HeapInv, CallsOwn, OwnersIn, Heap
  <1>6. Counted(d)
    <2> SUFFICES ASSUME NEW j \in Conns
                 PROVE  /\ d.stream_owner_count[j] = Cardinality(OwnersIn(d, j))
                        /\ d.active_streams[j] = OwnersIn(d, j) \cap d.stream_registered
                        /\ d.active_stream_count[j] = Cardinality(d.active_streams[j])
      BY DEF Counted
    <2>1. OwnersIn(d, j) = OwnersIn(h, j)
      BY <1>4 DEF OwnersIn
    <2>2. CASE j = k
      <3>1. OwnersIn(d, j) = {} /\ Cardinality({}) = 0
        BY <2>1, <2>2, FS_EmptySet
      <3>2. d.active_streams[j] = {} /\ d.active_stream_count[j] = 0
                /\ d.stream_owner_count[j] = 0
        BY <2>2, <1>0, <1>4 DEF Heap
      <3> QED
        BY <3>1, <3>2
    <2>3. CASE j # k
      BY <2>1, <2>3, <1>0, <1>4 DEF Heap, HeapInv, Counted
    <2> QED
      BY <2>2, <2>3
  <1>7. CacheHolds(d)
    BY <1>0, <1>4 DEF HeapInv, CacheHolds, Heap
  <1> QED
    BY <1>3, <1>4, <1>5, <1>6, <1>7 DEF HeapInv, d

\* What the thread relies on is the same in g and h.
SameBinding(h, g) ==
    /\ g.cache = h.cache /\ g.live = h.live
    /\ g.detached_from_cache = h.detached_from_cache
    /\ g.alloc = h.alloc /\ g.connection = h.connection

\* Only the cache and detached_from_cache differ.
SameCalls(h, g) ==
    /\ g.alloc = h.alloc /\ g.channel_key = h.channel_key
    /\ g.connection = h.connection /\ g.stream_id = h.stream_id
    /\ g.stream_registered = h.stream_registered
    /\ g.connection_owned = h.connection_owned
    /\ g.active_streams = h.active_streams
    /\ g.active_stream_count = h.active_stream_count
    /\ g.stream_owner_count = h.stream_owner_count
    /\ g.live = h.live

\* A change of the cache alone need only be checked against the cache.
LEMMA SameCallsInv ==
    ASSUME NEW h, NEW g \in Heap, HeapInv(h), SameCalls(h, g), CacheHolds(g)
    PROVE  HeapInv(g)
  <1>1. CallsOwn(g)
    BY DEF HeapInv, CallsOwn, SameCalls
  <1>2. Counted(g)
    BY DEF HeapInv, Counted, OwnersIn, SameCalls
  <1> QED
    BY <1>1, <1>2 DEF HeapInv

\* destroy_detached_connection_if_unowned may be called at any time: an exact
\* stream_owner_count of zero means that no call owns the connection, and a
\* detached connection is not cached.
LEMMA DestroyIfUnownedInv ==
    ASSUME NEW h, HeapInv(h), NEW k \in Conns
    PROVE  LET d == destroy_detached_connection_if_unowned(h, k)
           IN  /\ HeapInv(d)
               /\ d.cache = h.cache /\ d.alloc = h.alloc
               /\ d.connection = h.connection
               /\ k \notin h.detached_from_cache => d = h
  <1>1. CASE k \in h.detached_from_cache /\ h.stream_owner_count[k] = 0
    <2>1. OwnersIn(h, k) = {}
      <3>1. OwnersIn(h, k) \in SUBSET Calls
        BY DEF HeapInv, Heap, OwnersIn
      <3>2. Cardinality(OwnersIn(h, k)) = 0
        BY <1>1 DEF HeapInv, Counted
      <3> QED
        BY <3>1, <3>2, ConstantsAssumption, FS_Subset, FS_EmptySet
    <2>2. \A key \in Keys : h.cache[key] # k
      BY <1>1, ConstantsAssumption DEF HeapInv, CacheHolds
    <2> QED
      BY <1>1, <2>1, <2>2, DestroyInv DEF destroy_detached_connection_if_unowned
  <1>2. CASE ~(k \in h.detached_from_cache /\ h.stream_owner_count[k] = 0)
    BY <1>2 DEF destroy_detached_connection_if_unowned
  <1> QED
    BY <1>1, <1>2

\* detach_persistent_connection_by_ptr marks what it takes out of the cache.
LEMMA DetachInv ==
    ASSUME NEW h, HeapInv(h), NEW k \in Conns
    PROVE  LET d == detach_persistent_connection_by_ptr(h, k)
           IN  HeapInv(d) /\ SameCalls(h, d)
  <1> DEFINE cache == [key \in Keys |-> IF h.cache[key] = k THEN NULL ELSE h.cache[key]]
             d == [h EXCEPT !.cache = cache,
                            !.detached_from_cache = @ \cup {k}]
  <1>0. h \in Heap
    BY DEF HeapInv
  <1>1. CASE k # NULL /\ \E key \in Keys : h.cache[key] = k
    <2>1. cache \in [Keys -> Conns \cup {NULL}]
      BY <1>0 DEF Heap
    <2>2. /\ d \in Heap /\ SameCalls(h, d)
          /\ d.cache = cache /\ d.detached_from_cache = h.detached_from_cache \cup {k}
      BY <1>0, <2>1, ZenonT(60) DEF Heap, SameCalls
    <2>3. \A key \in Keys : d.cache[key] = IF h.cache[key] = k THEN NULL ELSE h.cache[key]
      BY <2>2
    <2>4. k \in h.live
      BY <1>1 DEF HeapInv, CacheHolds
    <2> HIDE DEF d, cache
    <2>6. CacheHolds(d)
      BY <2>2, <2>3, <2>4 DEF HeapInv, CacheHolds, SameCalls
    <2>7. HeapInv(d)
      BY <2>2, <2>6, SameCallsInv
    <2>8. detach_persistent_connection_by_ptr(h, k) = d
      BY <1>1 DEF detach_persistent_connection_by_ptr, d, cache
    <2> QED
      BY <2>2, <2>7, <2>8
  <1>2. CASE ~(k # NULL /\ \E key \in Keys : h.cache[key] = k)
    BY <1>2 DEF detach_persistent_connection_by_ptr, SameCalls
  <1> QED
    BY <1>1, <1>2

\* The same for the conditional detach of the streaming code.
LEMMA DetachIfUnusableInv ==
    ASSUME NEW h, HeapInv(h), NEW k \in Conns
    PROVE  LET d == DetachIfUnusable(h, k)
           IN  HeapInv(d) /\ SameCalls(h, d)
  BY DetachInv DEF DetachIfUnusable, SameCalls

\* discard_persistent_connection is safe for the key the connection is cached
\* under, if it is cached at all: with owners it is detached, without destroyed.
LEMMA DiscardInv ==
    ASSUME NEW h, HeapInv(h), NEW k \in h.live, NEW key \in Keys,
           \A other \in Keys : h.cache[other] = k => other = key
    PROVE  LET d == discard_persistent_connection(h, key, k)
           IN  HeapInv(d) /\ d.alloc = h.alloc /\ d.connection = h.connection
  <1>0. h \in Heap /\ k \in Conns /\ k # NULL
    BY ConstantsAssumption DEF HeapInv, Heap
  <1>1. CASE h.cache[key] # k
    <2> DEFINE d == [h EXCEPT !.detached_from_cache = @ \cup {k}]
    <2>1. /\ d \in Heap /\ SameCalls(h, d) /\ d.cache = h.cache
          /\ d.detached_from_cache = h.detached_from_cache \cup {k}
      BY <1>0, ZenonT(60) DEF Heap, SameCalls
    <2> HIDE DEF d
    <2>3. CacheHolds(d)
      BY <1>1, <2>1 DEF HeapInv, CacheHolds, SameCalls
    <2>4. HeapInv(d)
      BY <2>1, <2>3, SameCallsInv
    <2>5. discard_persistent_connection(h, key, k)
              = destroy_detached_connection_if_unowned(d, k)
      BY <1>1 DEF discard_persistent_connection, d
    <2> QED
      BY <1>0, <2>1, <2>4, <2>5, DestroyIfUnownedInv DEF SameCalls
  <1>2. CASE h.cache[key] = k
    <2> DEFINE u == [h EXCEPT !.cache[key] = NULL]
               d == [u EXCEPT !.detached_from_cache = @ \cup {k}]
    <2>1. [h.cache EXCEPT ![key] = NULL] \in [Keys -> Conns \cup {NULL}]
      BY <1>0 DEF Heap
    <2>2. /\ u \in Heap /\ SameCalls(h, u)
          /\ u.cache = [h.cache EXCEPT ![key] = NULL]
          /\ u.detached_from_cache = h.detached_from_cache
      BY <1>0, <2>1, ZenonT(60) DEF Heap, SameCalls
    <2>3. u.cache[key] = NULL /\ \A other \in Keys \ {key} : u.cache[other] = h.cache[other]
      BY <1>0, <2>2 DEF Heap
    <2> HIDE DEF u
    <2>5. CacheHolds(u)
      BY <1>2, <2>2, <2>3 DEF HeapInv, CacheHolds, SameCalls
    <2>6. HeapInv(u) /\ \A other \in Keys : u.cache[other] # k
      BY <1>0, <1>2, <2>2, <2>3, <2>5, SameCallsInv
    <2>7. CASE h.stream_owner_count[k] > 0
      <3>1. /\ d \in Heap /\ SameCalls(u, d) /\ d.cache = u.cache
            /\ d.detached_from_cache = u.detached_from_cache \cup {k}
        BY <1>0, <2>2, ZenonT(60) DEF Heap, SameCalls
      <3> HIDE DEF d
      <3>3. CacheHolds(d)
        BY <2>2, <2>6, <3>1 DEF HeapInv, CacheHolds, SameCalls
      <3>2. HeapInv(d)
        BY <2>6, <3>1, <3>3, SameCallsInv
      <3>4. discard_persistent_connection(h, key, k) = d
        BY <1>2, <2>7 DEF discard_persistent_connection, d, u
      <3> QED
        BY <2>2, <3>1, <3>2, <3>4 DEF SameCalls
    <2>8. CASE ~(h.stream_owner_count[k] > 0)
      <3>1. h.stream_owner_count[k] = 0
        BY <1>0, <2>8 DEF Heap
      <3>2. OwnersIn(h, k) \in SUBSET Calls /\ Cardinality(OwnersIn(h, k)) = 0
        BY <1>0, <3>1 DEF HeapInv, Heap, Counted, OwnersIn
      <3>3. OwnersIn(h, k) = {}
        BY <3>2, ConstantsAssumption, FS_Subset, FS_EmptySet
      <3>4. OwnersIn(u, k) = {}
        BY <2>2, <3>3 DEF OwnersIn, SameCalls
      <3>5. discard_persistent_connection(h, key, k) = destroy_h2_connection(u, k)
        BY <1>2, <2>8 DEF discard_persistent_connection, u
      <3> DEFINE x == destroy_h2_connection(u, k)
      <3>6. HeapInv(x) /\ x.alloc = u.alloc /\ x.connection = u.connection
        BY <1>0, <2>6, <3>4, DestroyInv
      <3> HIDE DEF x
      <3> QED
        BY <2>2, <3>5, <3>6 DEF SameCalls, x
    <2> QED
      BY <2>7, <2>8
  <1> QED
    BY <1>1, <1>2

(***************************************************************************)
(* Leaving a connection.                                                   *)
(***************************************************************************)
\* unregister_grpc_call_stream counts a registered stream out exactly once and
\* does nothing the second time.
LEMMA UnregisterInv ==
    ASSUME NEW h, HeapInv(h), NEW c \in Calls
    PROVE  LET d == unregister_grpc_call_stream(h, c)
           IN  HeapInv(d) /\ SameBinding(h, d) /\ c \notin d.stream_registered
  <1> DEFINE k == h.connection[c]
             s == StreamOf(h, c)
             a == [h.active_streams EXCEPT ![k] = @ \ {c}]
             n == [h.active_stream_count EXCEPT ![k] = IF @ > 0 THEN @ - 1 ELSE @]
             d == [h EXCEPT !.user_data[s] = NULL,
                            !.active_streams[k] = @ \ {c},
                            !.stream_registered = @ \ {c},
                            !.active_stream_count[k] = IF @ > 0 THEN @ - 1 ELSE @]
  <1>0. h \in Heap
    BY DEF HeapInv
  <1>1. CASE c \notin h.stream_registered \/ k = NULL \/ h.stream_id[c] <= 0
    <2>1. c \notin h.stream_registered
      BY <1>0, <1>1 DEF HeapInv, CallsOwn, Heap
    <2>2. unregister_grpc_call_stream(h, c) = h
      BY <1>1 DEF unregister_grpc_call_stream
    <2> QED
      BY <2>1, <2>2 DEF SameBinding
  <1>2. CASE ~(c \notin h.stream_registered \/ k = NULL \/ h.stream_id[c] <= 0)
    <2>0. /\ c \in h.stream_registered /\ c \in h.connection_owned
          /\ k \in Conns /\ c \in h.active_streams[k]
      BY <1>0, <1>2, ZenonT(60) DEF HeapInv, CallsOwn, Counted, OwnersIn, Heap
    <2>1. [h.user_data EXCEPT ![s] = NULL] \in [Streams -> Calls \cup {NULL}]
      BY <1>0, ZenonT(60) DEF Heap
    <2>a. a \in [Conns -> SUBSET Calls] /\ h.stream_registered \ {c} \in SUBSET Calls
      BY <1>0, <2>0 DEF Heap
    <2>b. n \in [Conns -> Nat]
      <3>1. h.active_stream_count \in [Conns -> Nat]
        BY <1>0 DEF Heap
      <3> QED
        BY <2>0, <3>1
    <2>2. d \in Heap
      BY <1>0, <2>1, <2>a, <2>b, ZenonT(60) DEF Heap
    <2>3. /\ SameBinding(h, d)
          /\ d.stream_registered = h.stream_registered \ {c}
          /\ d.connection_owned = h.connection_owned
          /\ d.channel_key = h.channel_key /\ d.stream_id = h.stream_id
          /\ d.stream_owner_count = h.stream_owner_count
          /\ d.active_streams = a /\ d.active_stream_count = n
      BY <1>0 DEF Heap, SameBinding
    <2>4. unregister_grpc_call_stream(h, c) = d
      BY <1>2 DEF unregister_grpc_call_stream
    <2> HIDE DEF d
    <2>5. CallsOwn(d) /\ CacheHolds(d)
      BY <2>3 DEF HeapInv, CallsOwn, CacheHolds, SameBinding
    <2>6. Counted(d)
      <3> SUFFICES ASSUME NEW j \in Conns
                   PROVE  /\ d.stream_owner_count[j] = Cardinality(OwnersIn(d, j))
                          /\ d.active_streams[j] = OwnersIn(d, j) \cap d.stream_registered
                          /\ d.active_stream_count[j] = Cardinality(d.active_streams[j])
        BY DEF Counted
      <3>1. OwnersIn(d, j) = OwnersIn(h, j)
        BY <2>3 DEF OwnersIn, SameBinding
      <3>2. /\ h.stream_owner_count[j] = Cardinality(OwnersIn(h, j))
            /\ h.active_streams[j] = OwnersIn(h, j) \cap h.stream_registered
            /\ h.active_stream_count[j] = Cardinality(h.active_streams[j])
        BY DEF HeapInv, Counted
      <3>3. CASE j = k
        <4>1. d.active_streams[j] = h.active_streams[j] \ {c}
          BY <1>0, <2>3, <3>3 DEF Heap
        <4>2. /\ h.active_streams[j] \in SUBSET Calls /\ c \in h.active_streams[j]
              /\ h.active_stream_count[j] \in Nat
          BY <1>0, <2>0, <3>3 DEF Heap
        <4>3. /\ Cardinality(h.active_streams[j] \ {c}) = Cardinality(h.active_streams[j]) - 1
              /\ Cardinality(h.active_streams[j]) > 0
          BY <4>2, CountCalls
        <4>4. d.active_stream_count[j] = h.active_stream_count[j] - 1
          BY <1>0, <2>3, <3>2, <3>3, <4>3 DEF Heap
        <4> QED
          BY <2>3, <3>1, <3>2, <4>1, <4>3, <4>4
      <3>4. CASE j # k
        <4>1. /\ d.active_streams[j] = h.active_streams[j]
              /\ d.active_stream_count[j] = h.active_stream_count[j]
          BY <1>0, <2>3, <3>4 DEF Heap
        <4>2. c \notin OwnersIn(h, j)
          BY <3>4 DEF OwnersIn
        <4> QED
          BY <2>3, <3>1, <3>2, <4>1, <4>2
      <3> QED
        BY <3>3, <3>4
    <2> QED
      BY <2>2, <2>3, <2>4, <2>5, <2>6 DEF HeapInv
  <1> QED
    BY <1>1, <1>2

\* g is h with the ownership of call c given up.
Left(h, g, c) ==
    /\ g.cache = h.cache /\ g.live = h.live
    /\ g.detached_from_cache = h.detached_from_cache
    /\ g.alloc = h.alloc /\ g.channel_key = h.channel_key
    /\ g.connection = [h.connection EXCEPT ![c] = NULL]
    /\ c \notin g.connection_owned

\* Giving up connection_owned and clearing call->connection keeps
\* stream_owner_count exact.
LEMMA ReleaseInv ==
    ASSUME NEW h, HeapInv(h), NEW c \in Calls, NEW k \in Conns,
           h.connection[c] = k, c \notin h.stream_registered
    PROVE  LET r == ReleaseOwner(h, k, c)
               d == [r EXCEPT !.connection[c] = NULL]
           IN  /\ r \in Heap
               /\ SameBinding(h, r)
               /\ HeapInv(d) /\ Left(h, d, c)
               /\ r.connection_owned = d.connection_owned
               /\ r.channel_key = d.channel_key /\ r.stream_id = d.stream_id
               /\ r.stream_registered = d.stream_registered
               /\ r.active_streams = d.active_streams
               /\ r.active_stream_count = d.active_stream_count
               /\ r.stream_owner_count = d.stream_owner_count
  <1> DEFINE n == [h.stream_owner_count EXCEPT ![k] =
                      IF c \in h.connection_owned /\ @ > 0 THEN @ - 1 ELSE @]
             r == ReleaseOwner(h, k, c)
             d == [r EXCEPT !.connection[c] = NULL]
  <1>0. h \in Heap /\ k # NULL /\ c \in h.connection_owned
    BY ConstantsAssumption DEF HeapInv, CallsOwn
  <1>1. /\ h.stream_owner_count \in [Conns -> Nat]
        /\ [h.connection EXCEPT ![c] = NULL] \in [Calls -> Conns \cup {NULL}]
        /\ h.connection_owned \ {c} \in SUBSET Calls
    BY <1>0 DEF Heap
  <1>a. n \in [Conns -> Nat]
    BY <1>1
  <1>b. r \in Heap
    BY <1>0, <1>1, <1>a, ZenonT(60) DEF Heap, ReleaseOwner
  <1>c. SameBinding(h, r)
    BY <1>0, ZenonT(60) DEF Heap, ReleaseOwner, SameBinding
  <1>2. /\ r.connection_owned = h.connection_owned \ {c}
        /\ r.stream_owner_count = n
        /\ r.channel_key = h.channel_key /\ r.stream_id = h.stream_id
        /\ r.stream_registered = h.stream_registered
        /\ r.active_streams = h.active_streams
        /\ r.active_stream_count = h.active_stream_count
    BY <1>0, ZenonT(60) DEF Heap, ReleaseOwner
  <1> HIDE DEF r
  <1>3. /\ d \in Heap
        /\ d.cache = r.cache /\ d.live = r.live
        /\ d.detached_from_cache = r.detached_from_cache
        /\ d.alloc = r.alloc
        /\ d.connection = [h.connection EXCEPT ![c] = NULL]
        /\ d.connection_owned = r.connection_owned
        /\ d.channel_key = r.channel_key /\ d.stream_id = r.stream_id
        /\ d.stream_registered = r.stream_registered
        /\ d.active_streams = r.active_streams
        /\ d.active_stream_count = r.active_stream_count
        /\ d.stream_owner_count = r.stream_owner_count
    BY <1>1, <1>b, <1>c, ZenonT(60) DEF Heap, SameBinding
  <1> HIDE DEF d
  <1>d. h.connection \in [Calls -> Conns \cup {NULL}] /\ h.connection_owned \in SUBSET Calls
    BY <1>0 DEF Heap
  <1>4. /\ d.connection[c] = NULL
        /\ \A b \in Calls \ {c} : d.connection[b] = h.connection[b]
    BY <1>3, <1>d
  <1>5. CallsOwn(d)
    BY <1>2, <1>3, <1>4, <1>c, <1>d DEF HeapInv, CallsOwn, SameBinding
  <1>6. CacheHolds(d)
    BY <1>3, <1>c DEF HeapInv, CacheHolds, SameBinding
  <1>7. Counted(d)
    <2> SUFFICES ASSUME NEW j \in Conns
                 PROVE  /\ d.stream_owner_count[j] = Cardinality(OwnersIn(d, j))
                        /\ d.active_streams[j] = OwnersIn(d, j) \cap d.stream_registered
                        /\ d.active_stream_count[j] = Cardinality(d.active_streams[j])
      BY DEF Counted
    <2>1. /\ h.stream_owner_count[j] = Cardinality(OwnersIn(h, j))
          /\ h.active_streams[j] = OwnersIn(h, j) \cap h.stream_registered
          /\ h.active_stream_count[j] = Cardinality(h.active_streams[j])
      BY DEF HeapInv, Counted
    <2>2. CASE j = k
      <3>1. OwnersIn(d, j) = OwnersIn(h, j) \ {c} /\ c \in OwnersIn(h, j)
        BY <1>0, <1>2, <1>3, <1>4, <1>d, <2>2 DEF OwnersIn
      <3>2. OwnersIn(h, j) \in SUBSET Calls
        BY <1>d DEF OwnersIn
      <3>3. /\ Cardinality(OwnersIn(h, j) \ {c}) = Cardinality(OwnersIn(h, j)) - 1
            /\ Cardinality(OwnersIn(h, j)) > 0
        BY <3>1, <3>2, CountCalls
      <3>4. d.stream_owner_count[j] = h.stream_owner_count[j] - 1
        BY <1>0, <1>1, <1>2, <1>3, <2>1, <2>2, <3>3
      <3> QED
        BY <1>2, <1>3, <2>1, <3>1, <3>3, <3>4
    <2>3. CASE j # k
      <3>1. OwnersIn(d, j) = OwnersIn(h, j)
        BY <1>2, <1>3, <1>4, <1>d, <2>3, ConstantsAssumption DEF OwnersIn
      <3>2. d.stream_owner_count[j] = h.stream_owner_count[j]
        BY <1>1, <1>2, <1>3, <2>3
      <3> QED
        BY <1>2, <1>3, <2>1, <3>1, <3>2
    <2> QED
      BY <2>2, <2>3
  <1>8. HeapInv(d) /\ Left(h, d, c)
    BY <1>2, <1>3, <1>c, <1>5, <1>6, <1>7 DEF HeapInv, Left, SameBinding
  <1> QED
    BY <1>2, <1>3, <1>b, <1>c, <1>8 DEF r, d

\* A call that has given up its connection can be freed: the heap after it is
\* that of g, where only the pointer to the connection was cleared.
LEMMA FreeInv ==
    ASSUME NEW h \in Heap, NEW c \in Calls, NEW g, HeapInv(g), Left(h, g, c),
           g.connection_owned = h.connection_owned, g.stream_id = h.stream_id,
           g.stream_registered = h.stream_registered,
           g.active_streams = h.active_streams,
           g.active_stream_count = h.active_stream_count,
           g.stream_owner_count = h.stream_owner_count
    PROVE  LET d == FreeCall(h, c)
           IN  /\ HeapInv(d)
               /\ d.cache = h.cache /\ d.live = h.live
               /\ d.detached_from_cache = h.detached_from_cache
               /\ d.alloc = h.alloc \ {c}
               /\ d.connection = [h.connection EXCEPT ![c] = NULL]
  <1> DEFINE d == FreeCall(h, c)
  <1>1. /\ [h.channel_key EXCEPT ![c] = NULL] \in [Calls -> Keys \cup {NULL}]
        /\ [h.connection EXCEPT ![c] = NULL] \in [Calls -> Conns \cup {NULL}]
        /\ [h.response EXCEPT ![c] = "none"] \in [Calls -> Responses]
    BY DEF Heap, Responses
  <1>2. [h.stream_id EXCEPT ![c] = 0] \in [Calls -> 0 .. MaxStreamId]
    BY ConstantsAssumption DEF Heap
  <1>3. /\ h.alloc \ {c} \in SUBSET Calls /\ h.stream_registered \ {c} \in SUBSET Calls
        /\ h.connection_owned \ {c} \in SUBSET Calls
        /\ h.stream_closed \ {c} \in SUBSET Calls
        /\ h.completed \ {c} \in SUBSET Calls /\ h.retried \ {c} \in SUBSET Calls
    BY DEF Heap
  <1>4. d \in Heap
    BY <1>1, <1>2, <1>3, ZenonT(60) DEF Heap, FreeCall
  <1>5. /\ d.cache = h.cache /\ d.live = h.live
        /\ d.detached_from_cache = h.detached_from_cache
        /\ d.alloc = h.alloc \ {c}
        /\ d.connection = [h.connection EXCEPT ![c] = NULL]
        /\ d.channel_key = [h.channel_key EXCEPT ![c] = NULL]
        /\ d.stream_id = [h.stream_id EXCEPT ![c] = 0]
        /\ d.stream_registered = h.stream_registered \ {c}
        /\ d.connection_owned = h.connection_owned \ {c}
        /\ d.active_streams = h.active_streams
        /\ d.active_stream_count = h.active_stream_count
        /\ d.stream_owner_count = h.stream_owner_count
    BY DEF Heap, FreeCall
  <1> HIDE DEF d
  <1>6. c \notin h.connection_owned /\ c \notin h.stream_registered
    BY DEF Left, HeapInv, CallsOwn
  <1>7. /\ d.connection = g.connection /\ d.connection_owned = g.connection_owned
        /\ d.stream_registered = g.stream_registered
        /\ d.cache = g.cache /\ d.live = g.live
        /\ d.detached_from_cache = g.detached_from_cache
    BY <1>5, <1>6 DEF Left
  <1>8. CacheHolds(d)
    BY <1>7 DEF HeapInv, CacheHolds
  <1>9. Counted(d)
    <2>1. \A k \in Conns : OwnersIn(d, k) = OwnersIn(g, k)
      BY <1>7 DEF OwnersIn
    <2>2. Counted(g)
      BY DEF HeapInv
    <2> QED
      BY <1>5, <1>7, <2>1, <2>2 DEF Counted
  <1>10. \A b \in Calls \ {c} : d.channel_key[b] = g.channel_key[b]
                                    /\ d.stream_id[b] = g.stream_id[b]
    BY <1>5 DEF Heap, Left
  <1>11. CallsOwn(d)
    <2>1. CallsOwn(g) /\ h.alloc = g.alloc /\ g.connection_owned \in SUBSET Calls
              /\ g.alloc \in SUBSET Calls
      BY DEF HeapInv, Left, Heap
    <2> QED
      BY <1>5, <1>6, <1>7, <1>10, <2>1 DEF CallsOwn
  <1> QED
    BY <1>4, <1>5, <1>8, <1>9, <1>11 DEF HeapInv, d

\* A call that owns no connection is freed.
LEMMA FreeUnboundInv ==
    ASSUME NEW h, HeapInv(h), NEW c \in Calls, h.connection[c] = NULL
    PROVE  LET d == FreeCall(h, c)
           IN  /\ HeapInv(d)
               /\ d.cache = h.cache /\ d.live = h.live
               /\ d.alloc = h.alloc \ {c}
               /\ d.connection = h.connection
  <1>1. h \in Heap
    BY DEF HeapInv
  <1>2. h.connection = [h.connection EXCEPT ![c] = NULL]
    BY <1>1 DEF Heap
  <1>3. Left(h, h, c)
    BY <1>2 DEF Left, HeapInv, CallsOwn
  <1> QED
    BY <1>1, <1>2, <1>3, FreeInv

\* clear_connection_server_streaming_call_state_owner, which may destroy the
\* connection, leaves the call without one.
LEMMA ClearStreamingInv ==
    ASSUME NEW h, HeapInv(h), NEW c \in Calls
    PROVE  LET d == clear_connection_server_streaming_call_state_owner(h, c)
           IN  HeapInv(d) /\ d.alloc = h.alloc /\ d.connection[c] = NULL
  <1> DEFINE k == h.connection[c]
             x == DetachIfUnusable(h, k)
             u == unregister_grpc_call_stream(x, c)
             r == ReleaseOwner(u, k, c)
             g == [r EXCEPT !.connection[c] = NULL]
             d == destroy_detached_connection_if_unowned(g, k)
  <1>1. CASE k = NULL
    BY <1>1 DEF clear_connection_server_streaming_call_state_owner
  <1>2. CASE k # NULL
    <2>1. k \in Conns /\ h \in Heap
      BY <1>2 DEF HeapInv, Heap
    <2>2. HeapInv(x) /\ SameCalls(h, x)
      BY <2>1, DetachIfUnusableInv
    <2> HIDE DEF x
    <2>3. HeapInv(u) /\ SameBinding(x, u) /\ c \notin u.stream_registered
      BY <2>2, UnregisterInv
    <2>4. u.connection[c] = k /\ u.alloc = h.alloc
      BY <2>2, <2>3 DEF SameBinding, SameCalls
    <2> HIDE DEF u
    <2> HIDE DEF k
    <2>5. HeapInv(g) /\ Left(u, g, c)
      BY <2>1, <2>3, <2>4, ReleaseInv
    <2> HIDE DEF g
    <2>6. HeapInv(d) /\ d.alloc = g.alloc /\ d.connection = g.connection
      BY <2>1, <2>5, DestroyIfUnownedInv
    <2> HIDE DEF d
    <2>7. d.connection[c] = NULL /\ d.alloc = h.alloc
      <3>1. u.connection \in [Calls -> Conns \cup {NULL}]
        BY <2>3 DEF HeapInv, Heap
      <3> QED
        BY <2>4, <2>5, <2>6, <3>1 DEF Left
    <2>8. clear_connection_server_streaming_call_state_owner(h, c) = d
      BY <1>2 DEF clear_connection_server_streaming_call_state_owner, d, g, u, x, k
    <2> QED
      BY <2>6, <2>7, <2>8
  <1> QED
    BY <1>1, <1>2

\* A unary call leaves its connection and its frame goes away.
LEMMA ClearAndFreeInv ==
    ASSUME NEW h, HeapInv(h), NEW c \in Calls, NEW k \in Conns, h.connection[c] = k
    PROVE  LET d == FreeCall(clear_connection_call_owner(h, k, c), c)
           IN  /\ HeapInv(d) /\ d.cache = h.cache /\ d.live = h.live
               /\ d.detached_from_cache = h.detached_from_cache
               /\ d.alloc = h.alloc \ {c}
  <1> DEFINE u == unregister_grpc_call_stream(h, c)
             r == ReleaseOwner(u, k, c)
             g == [r EXCEPT !.connection[c] = NULL]
             d == FreeCall(r, c)
  <1>1. HeapInv(u) /\ SameBinding(h, u) /\ c \notin u.stream_registered
    BY UnregisterInv
  <1>2. u.connection[c] = k
    BY <1>1 DEF SameBinding
  <1> HIDE DEF u
  <1>3. /\ r \in Heap /\ SameBinding(u, r) /\ HeapInv(g) /\ Left(u, g, c)
        /\ r.connection_owned = g.connection_owned
        /\ r.channel_key = g.channel_key /\ r.stream_id = g.stream_id
        /\ r.stream_registered = g.stream_registered
        /\ r.active_streams = g.active_streams
        /\ r.active_stream_count = g.active_stream_count
        /\ r.stream_owner_count = g.stream_owner_count
    BY <1>1, <1>2, ReleaseInv
  <1> HIDE DEF g, r
  <1>4. Left(r, g, c)
    BY <1>3 DEF SameBinding, Left
  <1>5. /\ HeapInv(d)
        /\ d.cache = r.cache /\ d.live = r.live
        /\ d.detached_from_cache = r.detached_from_cache
        /\ d.alloc = r.alloc \ {c}
    BY <1>3, <1>4, FreeInv
  <1>6. FreeCall(clear_connection_call_owner(h, k, c), c) = d
    BY DEF clear_connection_call_owner, r, u
  <1> HIDE DEF d
  <1> QED
    BY <1>1, <1>3, <1>5, <1>6 DEF SameBinding

(***************************************************************************)
(* Joining a connection.                                                   *)
(***************************************************************************)
\* Submitting a request on a live connection and registering its stream makes
\* the new call an owner that both counters count.
LEMMA RegisterInv ==
    ASSUME NEW h, HeapInv(h), NEW c \in Calls, NEW k \in h.live, NEW key \in Keys,
           NEW attempt \in {0, 1}, c \notin h.alloc, h.next_id[k] \in Ids
    PROVE  LET d == register_grpc_call_stream(
                        SubmitRequest(AllocCall(h, c, h.next_id[k], key, attempt), k, c),
                        k, c, h.next_id[k])
           IN  /\ HeapInv(d) /\ d.cache = h.cache
               /\ d.alloc = h.alloc \cup {c} /\ d.connection[c] = k
  <1> DEFINE id == h.next_id[k]
             a == AllocCall(h, c, id, key, attempt)
             b == SubmitRequest(a, k, c)
             d == register_grpc_call_stream(b, k, c, id)
  <1>0. h \in Heap /\ k \in Conns /\ k # NULL
    BY ConstantsAssumption DEF HeapInv, Heap
  <1>1. a \in Heap
    <2>1. [h.channel_key EXCEPT ![c] = key] \in [Calls -> Keys \cup {NULL}]
      BY <1>0 DEF Heap
    <2>2. [h.stream_id EXCEPT ![c] = id] \in [Calls -> 0 .. MaxStreamId]
      BY <1>0, ConstantsAssumption DEF Heap, Ids
    <2>3. /\ h.alloc \cup {c} \in SUBSET Calls
          /\ (IF attempt = 1 THEN h.retried \cup {c} ELSE h.retried) \in SUBSET Calls
      BY <1>0 DEF Heap
    <2> HIDE DEF id
    <2> QED
      BY <1>0, <2>1, <2>2, <2>3, ZenonT(60) DEF Heap, AllocCall
  <1>2. /\ a.cache = h.cache /\ a.live = h.live
        /\ a.detached_from_cache = h.detached_from_cache
        /\ a.alloc = h.alloc \cup {c}
        /\ a.connection = h.connection /\ a.next_id = h.next_id
    BY <1>0, ZenonT(60) DEF Heap, AllocCall
  <1>3. /\ a.channel_key = [h.channel_key EXCEPT ![c] = key]
        /\ a.stream_id = [h.stream_id EXCEPT ![c] = id]
        /\ a.stream_registered = h.stream_registered
        /\ a.connection_owned = h.connection_owned
        /\ a.active_streams = h.active_streams
        /\ a.active_stream_count = h.active_stream_count
        /\ a.stream_owner_count = h.stream_owner_count
    BY <1>0, ZenonT(60) DEF Heap, AllocCall
  <1> HIDE DEF a
  <1>4. b \in Heap
    <2>1. a.next_id[k] \in Ids
      BY <1>2
    <2>2. [a.next_id EXCEPT ![k] = a.next_id[k] + 1] \in [Conns -> 1 .. MaxStreamId + 1]
      BY <1>0, <1>1, <2>1, ConstantsAssumption DEF Heap, Ids
    <2>3. <<k, a.next_id[k]>> \in Streams
      BY <1>0, <2>1 DEF Streams
    <2>4. /\ a.pending \cup {<<k, a.next_id[k]>>} \in SUBSET Streams
          /\ [a.source EXCEPT ![<<k, a.next_id[k]>>] = c] \in [Streams -> Calls \cup {NULL}]
      BY <1>1, <2>3 DEF Heap
    <2> QED
      BY <1>1, <2>2, <2>4, ZenonT(60) DEF Heap, SubmitRequest
  <1>5. SameOwnership(a, b)
    BY <1>1, ZenonT(60) DEF Heap, SubmitRequest, SameOwnership
  <1> HIDE DEF b
  <1>6. d \in Heap
    <2>0. /\ b.active_streams \in [Conns -> SUBSET Calls]
          /\ b.active_stream_count \in [Conns -> Nat]
          /\ b.stream_owner_count \in [Conns -> Nat]
      BY <1>4 DEF Heap
    <2>1. /\ [b.active_streams EXCEPT ![k] = @ \cup {c}] \in [Conns -> SUBSET Calls]
          /\ [b.active_stream_count EXCEPT ![k] = @ + 1] \in [Conns -> Nat]
          /\ [b.stream_owner_count EXCEPT ![k] = @ + 1] \in [Conns -> Nat]
      BY <1>0, <2>0
    <2>2. /\ [b.connection EXCEPT ![c] = k] \in [Calls -> Conns \cup {NULL}]
          /\ b.stream_registered \cup {c} \in SUBSET Calls
          /\ b.connection_owned \cup {c} \in SUBSET Calls
      BY <1>0, <1>4 DEF Heap
    <2>3. [b.user_data EXCEPT ![<<k, id>>] = c] \in [Streams -> Calls \cup {NULL}]
      BY <1>4, ZenonT(60) DEF Heap
    <2> HIDE DEF id
    <2> QED
      BY <1>4, <2>1, <2>2, <2>3, ZenonT(60) DEF Heap, register_grpc_call_stream
  <1>7. /\ d.cache = b.cache /\ d.live = b.live
        /\ d.detached_from_cache = b.detached_from_cache
        /\ d.alloc = b.alloc
        /\ d.channel_key = b.channel_key /\ d.stream_id = b.stream_id
        /\ d.connection = [b.connection EXCEPT ![c] = k]
    BY <1>4, ZenonT(60) DEF Heap, register_grpc_call_stream
  <1>8. /\ d.stream_registered = b.stream_registered \cup {c}
        /\ d.connection_owned = b.connection_owned \cup {c}
        /\ d.active_streams = [b.active_streams EXCEPT ![k] = @ \cup {c}]
        /\ d.active_stream_count = [b.active_stream_count EXCEPT ![k] = @ + 1]
        /\ d.stream_owner_count = [b.stream_owner_count EXCEPT ![k] = @ + 1]
    BY <1>4, ZenonT(60) DEF Heap, register_grpc_call_stream
  <1> HIDE DEF d
  <1>9. /\ d.cache = h.cache /\ d.live = h.live
        /\ d.detached_from_cache = h.detached_from_cache
        /\ d.alloc = h.alloc \cup {c}
        /\ d.connection = [h.connection EXCEPT ![c] = k]
        /\ d.channel_key = [h.channel_key EXCEPT ![c] = key]
        /\ d.stream_id = [h.stream_id EXCEPT ![c] = id]
    BY <1>2, <1>3, <1>5, <1>7 DEF SameOwnership
  <1>a. /\ d.stream_registered = h.stream_registered \cup {c}
        /\ d.connection_owned = h.connection_owned \cup {c}
        /\ d.active_streams = [h.active_streams EXCEPT ![k] = @ \cup {c}]
        /\ d.active_stream_count = [h.active_stream_count EXCEPT ![k] = @ + 1]
        /\ d.stream_owner_count = [h.stream_owner_count EXCEPT ![k] = @ + 1]
    BY <1>3, <1>5, <1>8 DEF SameOwnership
  <1>b. /\ h.connection \in [Calls -> Conns \cup {NULL}]
        /\ h.channel_key \in [Calls -> Keys \cup {NULL}]
        /\ h.stream_id \in [Calls -> 0 .. MaxStreamId]
        /\ h.connection_owned \in SUBSET Calls
    BY <1>0 DEF Heap
  <1>c. /\ h.active_streams \in [Conns -> SUBSET Calls]
        /\ h.active_stream_count \in [Conns -> Nat]
        /\ h.stream_owner_count \in [Conns -> Nat]
    BY <1>0 DEF Heap
  <1> HIDE DEF id
  <1>10. /\ d.connection[c] = k /\ d.channel_key[c] = key /\ d.stream_id[c] = id
         /\ \A o \in Calls \ {c} : /\ d.connection[o] = h.connection[o]
                                   /\ d.channel_key[o] = h.channel_key[o]
                                   /\ d.stream_id[o] = h.stream_id[o]
    BY <1>9, <1>b
  <1>11. c \notin h.connection_owned /\ c \notin h.stream_registered
    BY DEF HeapInv, CallsOwn
  <1>12. id # 0
    BY ConstantsAssumption DEF id, Ids
  <1>13. CallsOwn(d)
    <2>1. CallsOwn(h) /\ h.alloc \in SUBSET Calls
      BY <1>0 DEF HeapInv, Heap
    <2> QED
      BY <1>0, <1>9, <1>a, <1>b, <1>10, <1>12, <2>1 DEF CallsOwn
  <1>14. CacheHolds(d)
    BY <1>9 DEF HeapInv, CacheHolds
  <1>15. Counted(d)
    <2> SUFFICES ASSUME NEW j \in Conns
                 PROVE  /\ d.stream_owner_count[j] = Cardinality(OwnersIn(d, j))
                        /\ d.active_streams[j] = OwnersIn(d, j) \cap d.stream_registered
                        /\ d.active_stream_count[j] = Cardinality(d.active_streams[j])
      BY DEF Counted
    <2>1. /\ h.stream_owner_count[j] = Cardinality(OwnersIn(h, j))
          /\ h.active_streams[j] = OwnersIn(h, j) \cap h.stream_registered
          /\ h.active_stream_count[j] = Cardinality(h.active_streams[j])
      BY DEF HeapInv, Counted
    <2>2. OwnersIn(h, j) \in SUBSET Calls /\ c \notin OwnersIn(h, j)
      BY <1>b, <1>11 DEF OwnersIn
    <2>3. CASE j = k
      <3>1. OwnersIn(d, j) = OwnersIn(h, j) \cup {c}
        BY <1>a, <1>b, <1>10, <1>11, <2>3 DEF OwnersIn
      <3>2. /\ d.active_streams[j] = h.active_streams[j] \cup {c}
            /\ d.active_stream_count[j] = h.active_stream_count[j] + 1
            /\ d.stream_owner_count[j] = h.stream_owner_count[j] + 1
        BY <1>a, <1>c, <2>3
      <3>3. /\ Cardinality(OwnersIn(h, j) \cup {c}) = Cardinality(OwnersIn(h, j)) + 1
            /\ Cardinality(h.active_streams[j] \cup {c})
                   = Cardinality(h.active_streams[j]) + 1
        BY <2>1, <2>2, CountCalls
      <3>4. h.active_streams[j] \cup {c} = OwnersIn(d, j) \cap d.stream_registered
        BY <1>a, <1>11, <2>1, <3>1
      <3> QED
        BY <2>1, <3>1, <3>2, <3>3, <3>4
    <2>4. CASE j # k
      <3>1. OwnersIn(d, j) = OwnersIn(h, j)
        BY <1>a, <1>b, <1>10, <1>11, <2>4 DEF OwnersIn
      <3>2. /\ d.active_streams[j] = h.active_streams[j]
            /\ d.active_stream_count[j] = h.active_stream_count[j]
            /\ d.stream_owner_count[j] = h.stream_owner_count[j]
        BY <1>a, <1>c, <2>4
      <3> QED
        BY <1>a, <2>1, <2>2, <3>1, <3>2
    <2> QED
      BY <2>3, <2>4
  <1>16. HeapInv(d) /\ d.cache = h.cache /\ d.alloc = h.alloc \cup {c} /\ d.connection[c] = k
    BY <1>6, <1>9, <1>10, <1>13, <1>14, <1>15 DEF HeapInv
  <1> QED
    BY <1>16 DEF d, b, a, id

\* A new connection enters the cache without an owner.
LEMMA CreateInv ==
    ASSUME NEW h, HeapInv(h), NEW key \in Keys, NEW k \in Conns \ h.live
    PROVE  LET d == AddConnection(h, key, k)
           IN  /\ HeapInv(d) /\ d.alloc = h.alloc /\ d.connection = h.connection
               /\ d.cache[key] = k
  <1> DEFINE d == AddConnection(h, key, k)
  <1>0. h \in Heap /\ k # NULL
    BY ConstantsAssumption DEF HeapInv
  <1>1. /\ [h.cache EXCEPT ![key] = k] \in [Keys -> Conns \cup {NULL}]
        /\ h.live \cup {k} \in SUBSET Conns
    BY <1>0 DEF Heap
  <1>2. d \in Heap
    BY <1>0, <1>1, ZenonT(60) DEF Heap, AddConnection
  <1>3. /\ d.live = h.live \cup {k} /\ d.cache = [h.cache EXCEPT ![key] = k]
        /\ d.detached_from_cache = h.detached_from_cache
        /\ d.alloc = h.alloc /\ d.channel_key = h.channel_key
        /\ d.connection = h.connection /\ d.stream_id = h.stream_id
    BY <1>0, ZenonT(60) DEF Heap, AddConnection
  <1>4. /\ d.stream_registered = h.stream_registered
        /\ d.connection_owned = h.connection_owned
        /\ d.active_streams = h.active_streams
        /\ d.active_stream_count = h.active_stream_count
        /\ d.stream_owner_count = h.stream_owner_count
    BY <1>0, ZenonT(60) DEF Heap, AddConnection
  <1> HIDE DEF d
  <1>5. CallsOwn(d)
    BY <1>3, <1>4 DEF HeapInv, CallsOwn
  <1>6. Counted(d)
    BY <1>3, <1>4 DEF HeapInv, Counted, OwnersIn
  <1>7. /\ d.cache[key] = k
        /\ \A other \in Keys \ {key} : d.cache[other] = h.cache[other]
    BY <1>0, <1>3 DEF Heap
  <1>8. CacheHolds(d)
    <2>1. CacheHolds(h)
      BY DEF HeapInv
    <2>2. \A other \in Keys : h.cache[other] # k
      BY <1>0, <2>1 DEF CacheHolds
    <2> QED
      BY <1>0, <1>3, <1>7, <2>1, <2>2 DEF CacheHolds
  <1> QED
    BY <1>2, <1>3, <1>5, <1>6, <1>7, <1>8 DEF HeapInv, d

(***************************************************************************)
(* Steps of the session that leave the ownership alone.                    *)
(***************************************************************************)
\* g owns what h owns: what the operation in progress relies on.
Quiet(h, g) ==
    HeapInv(g) /\ g.cache = h.cache /\ g.alloc = h.alloc /\ g.connection = h.connection

\* A step that changes no ownership is quiet.
LEMMA SameOwnershipQuiet ==
    ASSUME NEW h, NEW g \in Heap, HeapInv(h), SameOwnership(h, g)
    PROVE  Quiet(h, g)
  BY SameOwnershipInv DEF Quiet, SameOwnership

\* mark_connection_dead is quiet: owners keep a dead connection.
LEMMA MarkDeadQuiet ==
    ASSUME NEW h, HeapInv(h), NEW k \in Conns
    PROVE  Quiet(h, mark_connection_dead(h, k))
  BY MarkDeadFields, SameOwnershipQuiet DEF HeapInv

\* unregister_grpc_call_stream is quiet: it ends the stream, not the ownership.
LEMMA UnregisterQuiet ==
    ASSUME NEW h, HeapInv(h), NEW c \in Calls
    PROVE  Quiet(h, unregister_grpc_call_stream(h, c))
  BY UnregisterInv DEF Quiet, SameBinding

\* Quiet steps compose.
LEMMA QuietTransitive ==
    ASSUME NEW h, NEW g, NEW f, Quiet(h, g), Quiet(g, f)
    PROVE  Quiet(h, f)
  BY DEF Quiet

\* A change of fields that no ownership field depends on.
LEMMA SetCallsQuiet ==
    ASSUME NEW h, HeapInv(h), NEW S \in SUBSET Calls
    PROVE  /\ Quiet(h, [h EXCEPT !.stream_closed = S])
           /\ Quiet(h, [h EXCEPT !.completed = S])
  <1>0. h \in Heap
    BY DEF HeapInv
  <1>1. /\ [h EXCEPT !.stream_closed = S] \in Heap
        /\ SameOwnership(h, [h EXCEPT !.stream_closed = S])
    BY <1>0, ZenonT(60) DEF Heap, SameOwnership
  <1>2. /\ [h EXCEPT !.completed = S] \in Heap
        /\ SameOwnership(h, [h EXCEPT !.completed = S])
    BY <1>0, ZenonT(60) DEF Heap, SameOwnership
  <1> QED
    BY <1>1, <1>2, SameOwnershipQuiet

\* The same for draining and last_error_detail of an h2_connection.
LEMMA SetConnsQuiet ==
    ASSUME NEW h, HeapInv(h), NEW D \in SUBSET Conns
    PROVE  /\ Quiet(h, [h EXCEPT !.draining = D])
           /\ Quiet(h, [h EXCEPT !.last_error_detail = D])
  <1>0. h \in Heap
    BY DEF HeapInv
  <1>1. /\ [h EXCEPT !.draining = D] \in Heap
        /\ SameOwnership(h, [h EXCEPT !.draining = D])
    BY <1>0, ZenonT(60) DEF Heap, SameOwnership
  <1>2. /\ [h EXCEPT !.last_error_detail = D] \in Heap
        /\ SameOwnership(h, [h EXCEPT !.last_error_detail = D])
    BY <1>0, ZenonT(60) DEF Heap, SameOwnership
  <1> QED
    BY <1>1, <1>2, SameOwnershipQuiet

\* What the callbacks record of a response is no matter of ownership.
LEMMA SetResponseQuiet ==
    ASSUME NEW h, HeapInv(h), NEW R \in [Calls -> Responses]
    PROVE  Quiet(h, [h EXCEPT !.response = R])
  <1>0. h \in Heap
    BY DEF HeapInv
  <1>1. /\ [h EXCEPT !.response = R] \in Heap
        /\ SameOwnership(h, [h EXCEPT !.response = R])
    BY <1>0, ZenonT(60) DEF Heap, SameOwnership
  <1> QED
    BY <1>1, SameOwnershipQuiet

\* The fields of the nghttp2 session are no matter of ownership.
LEMMA SetSessionQuiet ==
    ASSUME NEW h, HeapInv(h), NEW P \in SUBSET Streams, NEW O \in SUBSET Streams,
           NEW s \in Streams
    PROVE  /\ Quiet(h, [h EXCEPT !.pending = P, !.open = O])
           /\ Quiet(h, [h EXCEPT !.rst = P])
           /\ Quiet(h, [h EXCEPT !.source[s] = NULL])
  <1>0. /\ h \in Heap
        /\ [h.source EXCEPT ![s] = NULL] \in [Streams -> Calls \cup {NULL}]
    BY DEF HeapInv, Heap
  <1>1. /\ [h EXCEPT !.pending = P, !.open = O] \in Heap
        /\ SameOwnership(h, [h EXCEPT !.pending = P, !.open = O])
    BY <1>0, ZenonT(60) DEF Heap, SameOwnership
  <1>2. [h EXCEPT !.rst = P] \in Heap /\ SameOwnership(h, [h EXCEPT !.rst = P])
    BY <1>0, ZenonT(60) DEF Heap, SameOwnership
  <1>3. /\ [h EXCEPT !.source[s] = NULL] \in Heap
        /\ SameOwnership(h, [h EXCEPT !.source[s] = NULL])
    BY <1>0, ZenonT(60) DEF Heap, SameOwnership
  <1> QED
    BY <1>1, <1>2, <1>3, SameOwnershipQuiet

\* Started, TakeQueue and Refused are quiet.
LEMMA ResponseQuiet ==
    ASSUME NEW h, HeapInv(h), NEW c \in Calls
    PROVE  /\ Quiet(h, Started(h, c)) /\ Quiet(h, TakeQueue(h, c))
           /\ \A how \in {"goaway", "rst"} : Quiet(h, Refused(h, c, how))
           /\ \A r \in Responses : Quiet(h, [h EXCEPT !.response[c] = r])
  <1>0. h.response \in [Calls -> Responses]
    BY DEF HeapInv, Heap
  <1>1. \A r \in Responses : Quiet(h, [h EXCEPT !.response[c] = r])
    <2> TAKE r \in Responses
    <2>1. [h.response EXCEPT ![c] = r] \in [Calls -> Responses]
      BY <1>0
    <2>2. Quiet(h, [h EXCEPT !.response = [h.response EXCEPT ![c] = r]])
      BY <2>1, SetResponseQuiet
    <2> QED
      BY <2>2
  <1>2. /\ (IF h.response[c] = "none" THEN "started" ELSE h.response[c]) \in Responses
        /\ (IF h.response[c] = "queued" THEN "started" ELSE h.response[c]) \in Responses
        /\ \A how \in {"goaway", "rst"} :
               (IF h.response[c] = "none" THEN how ELSE h.response[c]) \in Responses
    BY <1>0 DEF Responses
  <1> QED
    BY <1>1, <1>2 DEF Started, TakeQueue, Refused

\* nghttp2_submit_rst_stream is quiet.
LEMMA SubmitRstQuiet ==
    ASSUME NEW h, HeapInv(h), NEW s
    PROVE  Quiet(h, SubmitRst(h, s))
  <1>1. CASE s \in h.pending \cup h.open
    <2>1. s \in Streams /\ h.rst \cup {s} \in SUBSET Streams
      BY <1>1 DEF HeapInv, Heap
    <2> QED
      BY <1>1, <2>1, SetSessionQuiet DEF SubmitRst
  <1>2. CASE s \notin h.pending \cup h.open
    BY <1>2 DEF SubmitRst, Quiet
  <1> QED
    BY <1>1, <1>2

\* nghttp2 closing a stream, with on_stream_close_callback, is quiet.
LEMMA CloseStreamQuiet ==
    ASSUME NEW h, HeapInv(h), NEW s \in Streams
    PROVE  Quiet(h, CloseStream(h, s))
  <1> DEFINE b == on_stream_close_callback(h, s)
             d == CloseStream(h, s)
  <1>1. Quiet(h, b)
    <2> DEFINE c == h.user_data[s]
               x == [h EXCEPT !.stream_closed = @ \cup {c}]
    <2>1. CASE c = NULL \/ h.stream_id[c] # s[2]
      BY <2>1 DEF on_stream_close_callback, Quiet
    <2>2. CASE ~(c = NULL \/ h.stream_id[c] # s[2])
      <3>1. c \in Calls /\ h.stream_closed \cup {c} \in SUBSET Calls
        BY <2>2 DEF HeapInv, Heap
      <3> HIDE DEF c
      <3>2. Quiet(h, x)
        BY <3>1, SetCallsQuiet
      <3> HIDE DEF x
      <3>3. Quiet(x, unregister_grpc_call_stream(x, c))
        BY <3>1, <3>2, UnregisterQuiet DEF Quiet
      <3>4. b = unregister_grpc_call_stream(x, c)
        BY <2>2 DEF on_stream_close_callback, x, c
      <3> HIDE DEF b
      <3> QED
        BY <3>2, <3>3, <3>4, QuietTransitive
    <2> QED
      BY <2>1, <2>2
  <1> HIDE DEF b
  <1>2. b \in Heap /\ HeapInv(b)
    BY <1>1 DEF Quiet, HeapInv
  <1>3. /\ b.pending \ {s} \in SUBSET Streams /\ b.open \ {s} \in SUBSET Streams
        /\ b.rst \ {s} \in SUBSET Streams
        /\ [b.user_data EXCEPT ![s] = NULL] \in [Streams -> Calls \cup {NULL}]
        /\ [b.source EXCEPT ![s] = NULL] \in [Streams -> Calls \cup {NULL}]
    BY <1>2 DEF Heap
  <1>4. d \in Heap
    BY <1>2, <1>3, ZenonT(60) DEF Heap, CloseStream, b
  <1>5. SameOwnership(b, d)
    BY <1>2, ZenonT(60) DEF Heap, CloseStream, b, SameOwnership
  <1>6. Quiet(b, d)
    BY <1>2, <1>4, <1>5, SameOwnershipQuiet
  <1> QED
    BY <1>1, <1>6, QuietTransitive

\* remove_unusable_persistent_connection is as safe as the discard it ends in.
LEMMA RemoveUnusableInv ==
    ASSUME NEW h, HeapInv(h), NEW key \in Keys, NEW k, k # NULL, h.cache[key] = k
    PROVE  LET d == remove_unusable_persistent_connection(h, key, k)
           IN  HeapInv(d) /\ d.alloc = h.alloc /\ d.connection = h.connection
  <1>1. k \in h.live /\ \A other \in Keys : h.cache[other] = k => other = key
    BY DEF HeapInv, CacheHolds
  <1> QED
    BY <1>1, DiscardInv DEF remove_unusable_persistent_connection

\* The heap of a process that has just started, or shut down.
LEMMA EmptyHeapInv == HeapInv(EmptyHeap)
  <1> DEFINE h == EmptyHeap
  <1>1. /\ [key \in Keys |-> NULL] \in [Keys -> Conns \cup {NULL}]
        /\ [k \in Conns |-> {}] \in [Conns -> SUBSET Calls]
        /\ [k \in Conns |-> 0] \in [Conns -> Nat]
        /\ [k \in Conns |-> 1] \in [Conns -> 1 .. MaxStreamId + 1]
        /\ [s \in Streams |-> NULL] \in [Streams -> Calls \cup {NULL}]
    BY ConstantsAssumption
  <1>2. /\ [c \in Calls |-> NULL] \in [Calls -> Keys \cup {NULL}]
        /\ [c \in Calls |-> NULL] \in [Calls -> Conns \cup {NULL}]
        /\ [c \in Calls |-> 0] \in [Calls -> 0 .. MaxStreamId]
        /\ [c \in Calls |-> "none"] \in [Calls -> Responses]
    BY ConstantsAssumption DEF Responses
  <1>3. h \in Heap
    BY <1>1, <1>2 DEF EmptyHeap, Heap
  <1>4. /\ h.cache = [key \in Keys |-> NULL]
        /\ h.live = {} /\ h.detached_from_cache = {} /\ h.alloc = {}
        /\ h.connection = [c \in Calls |-> NULL]
        /\ h.stream_registered = {} /\ h.connection_owned = {}
    BY DEF EmptyHeap
  <1>5. /\ h.active_streams = [k \in Conns |-> {}]
        /\ h.active_stream_count = [k \in Conns |-> 0]
        /\ h.stream_owner_count = [k \in Conns |-> 0]
    BY DEF EmptyHeap
  <1> HIDE DEF h
  <1>6. CallsOwn(h) /\ CacheHolds(h)
    BY <1>4 DEF CallsOwn, CacheHolds
  <1>7. Counted(h)
    BY <1>4, <1>5, FS_EmptySet DEF Counted, OwnersIn
  <1> QED
    BY <1>3, <1>6, <1>7 DEF HeapInv, h
=============================================================================
