---------------------------- MODULE HandleProofs ----------------------------
(***************************************************************************)
(* For any number of channels, cached connections and addresses, and       *)
(* whatever step of a setup fails: the process holds just the handles of   *)
(* the cached connections and of the connection under way.                 *)
(*                                                                         *)
(* The argument: each step takes a handle that the connection under way    *)
(* does not have yet (Exact), destroy_h2_connection gives back what a      *)
(* connection holds, and a connection that is finished goes into the cache *)
(* under a key that is free (Exact, last conjunct), so it is not lost.     *)
(***************************************************************************)
EXTENDS ConnectionSetupProofs, FiniteSetTheorems

\* The connections in a cache that hold h.
Holders(ca, h) == {k \in DOMAIN ca: h \in ca[k].holds}

InSetup == Tls \cup Session \cup {"set_fd_nonblocking"}

\* How many handles of kind h belong to the attempt t.
Pending(t, h) ==
    IF \/ t.pc \in InSetup /\ h \in t.conn.holds
       \/ t.pc = "connect" /\ h = "fd"
    THEN 1 ELSE 0

Counted(o, ca, t) ==
    \A h \in Handles: o[h] = Cardinality(Holders(ca, h)) + Pending(t, h)

\* What the attempt has not got yet.
Lacks(pc, holds) ==
    /\ pc = "SSL_CTX_new" => "ssl_ctx" \notin holds
    /\ pc \in {"SSL_CTX_new", "configure", "SSL_new"} => "ssl" \notin holds
    /\ pc \notin {"session", "send"} => "callbacks" \notin holds
    /\ pc # "send" => "session" \notin holds

Exact ==
    /\ DOMAIN open = Handles
    /\ IsFiniteSet(DOMAIN cache)
    /\ task.pc \in Tcp => task.conn = NULL
    /\ task.pc \in InSetup => Lacks(task.pc, task.conn.holds)
    /\ task.pc \in Tcp \cup InSetup =>
        channel[task.ch].connection_key \notin DOMAIN cache

HandleInv == Exact /\ Counted(open, cache, task)

-----------------------------------------------------------------------------
(* Lemmas.                                                                 *)

\* The connections that hold a handle can be counted.
LEMMA HoldersFinite ==
    ASSUME NEW ca, IsFiniteSet(DOMAIN ca), NEW h
    PROVE  IsFiniteSet(Holders(ca, h)) /\ Cardinality(Holders(ca, h)) \in Nat
<1>1. Holders(ca, h) \in SUBSET DOMAIN ca
  BY DEF Holders
<1>2. IsFiniteSet(Holders(ca, h))
  BY <1>1, FS_Subset
<1> QED BY <1>2, FS_CardinalityType

\* Destroying a cached connection and removing its entry keeps the count.
LEMMA EvictCounts ==
    ASSUME SetupInv, Exact, NEW k \in DOMAIN cache, Counted(open, cache, task)
    PROVE  /\ Counted(destroy_h2_connection(cache[k]), Without(k), task)
           /\ DOMAIN destroy_h2_connection(cache[k]) = Handles
           /\ IsFiniteSet(DOMAIN Without(k))
<1>1. IsFiniteSet(DOMAIN Without(k)) /\ DOMAIN Without(k) = DOMAIN cache \ {k}
  <2>1. DOMAIN Without(k) = DOMAIN cache \ {k}
    BY DEF Without
  <2> QED BY <2>1, FS_RemoveElement DEF Exact
<1>2. ASSUME NEW h \in Handles
      PROVE  destroy_h2_connection(cache[k])[h] =
                 Cardinality(Holders(Without(k), h)) + Pending(task, h)
  <2>1. Holders(Without(k), h) = Holders(cache, h) \ {k}
    BY DEF Holders, Without
  <2>2. /\ IsFiniteSet(Holders(cache, h)) /\ Cardinality(Holders(cache, h)) \in Nat
        /\ Cardinality(Holders(cache, h) \ {k}) =
              IF k \in Holders(cache, h) THEN Cardinality(Holders(cache, h)) - 1
                                         ELSE Cardinality(Holders(cache, h))
    BY HoldersFinite, FS_RemoveElement DEF Exact
  <2>3. k \in Holders(cache, h) <=> h \in cache[k].holds
    BY DEF Holders
  <2>4. open[h] = Cardinality(Holders(cache, h)) + Pending(task, h)
        /\ Pending(task, h) \in {0, 1}
    BY DEF Counted, Pending
  <2>5. destroy_h2_connection(cache[k])[h] =
            IF h \in cache[k].holds THEN open[h] - 1 ELSE open[h]
    BY DEF destroy_h2_connection
  <2> QED BY <2>1, <2>2, <2>3, <2>4, <2>5
<1> QED BY <1>1, <1>2 DEF Counted, destroy_h2_connection

\* Steps that touch neither the cache nor a handle, and leave as many pending.
LEMMA SameCounts ==
    ASSUME Exact, Counted(open, cache, task), UNCHANGED <<cache, open>>,
           \A h \in Handles: Pending(task', h) = Pending(task, h)
    PROVE  Counted(open', cache', task')
BY DEF Counted

\* Nothing is pending before an attempt and after it.
LEMMA NonePending ==
    ASSUME NEW t, t.pc \in {"idle", "done", "resolve", "address"}, NEW h
    PROVE  Pending(t, h) = 0
BY DEF Pending, InSetup, Tls, Session

\* The methods of ChannelCredentials and Channel that leave the cache alone.
LEMMA ObjectsKeepHandles ==
    ASSUME SetupInv, HandleInv, task.pc = "idle",
           UNCHANGED <<cache, open, task>>
    PROVE  HandleInv'
<1>1. Counted(open', cache', task')
  BY SameCounts DEF HandleInv
<1>2. Exact'
  BY DEF HandleInv, Exact, Tcp, InSetup, Tls, Session
<1> QED BY <1>1, <1>2 DEF HandleInv, Counted, Holders, Pending

\* A connection that breaks holds what it held.
LEMMA BreakKeepsHandles ==
    ASSUME SetupInv, HandleInv, ConnectionBreaks
    PROVE  HandleInv'
<1>1. PICK k \in DOMAIN cache: cache' = [cache EXCEPT ![k].usable = FALSE]
  BY DEF ConnectionBreaks
<1>2. task.pc = "idle" /\ UNCHANGED <<open, task, channel>>
  BY DEF ConnectionBreaks, Idle
<1>3. DOMAIN cache' = DOMAIN cache
  BY <1>1
<1>4. ASSUME NEW x \in DOMAIN cache PROVE cache'[x].holds = cache[x].holds
  <2>1. cache[x] \in Connection
    BY DEF SetupInv, CacheInv
  <2>2. cache'[x] = cache[x] \/ cache'[x] = [cache[x] EXCEPT !.usable = FALSE]
    BY <1>1
  <2> QED BY <2>1, <2>2 DEF Connection
<1>5. \A h: Holders(cache', h) = Holders(cache, h)
  BY <1>3, <1>4 DEF Holders
<1>6. Counted(open', cache', task')
  BY <1>2, <1>5 DEF HandleInv, Counted
<1>7. Exact'
  BY <1>2, <1>3 DEF HandleInv, Exact, Tcp, InSetup, Tls, Session
<1> QED BY <1>6, <1>7 DEF HandleInv, Counted, Holders, Pending

\* Channel::close destroys the connection it takes out of the cache.
LEMMA CloseKeepsHandles ==
    ASSUME SetupInv, HandleInv, NEW ch \in Channels, Close(ch)
    PROVE  HandleInv'
<1> DEFINE k == channel[ch].connection_key
<1>1. /\ k \in DOMAIN cache /\ cache' = Without(k)
      /\ open' = destroy_h2_connection(cache[k])
      /\ task.pc = "idle" /\ task' = task
  BY DEF Close, Idle
<1> HIDE DEF k
<1>2. /\ Counted(open', cache', task') /\ DOMAIN open' = Handles
      /\ IsFiniteSet(DOMAIN cache')
  BY <1>1, EvictCounts DEF HandleInv
<1>3. Exact'
  BY <1>1, <1>2 DEF Exact, Tcp, InSetup, Tls, Session
<1> QED BY <1>2, <1>3 DEF HandleInv, Counted, Holders, Pending

\* An unusable connection is destroyed when its entry is removed, and its key
\* is free from then on.
LEMMA LookupKeepsHandles ==
    ASSUME SetupInv, HandleInv, NEW ch \in Channels, Reuse(ch) \/ Begin(ch)
    PROVE  HandleInv'
<1> DEFINE k == channel[ch].connection_key
<1>1. CASE Reuse(ch)
  <2>1. /\ task.pc = "idle" /\ task'.pc = "done" /\ UNCHANGED <<cache, open>>
    BY <1>1 DEF Reuse, Serve, Idle, NoTask
  <2>2. Counted(open', cache', task')
    BY <2>1, NonePending, SameCounts DEF HandleInv
  <2>3. Exact'
    BY <2>1 DEF HandleInv, Exact, Tcp, InSetup, Tls, Session
  <2> QED BY <2>2, <2>3 DEF HandleInv, Counted, Holders, Pending
<1>2. CASE Begin(ch)
  <2>1. /\ task.pc = "idle" /\ cache' = Without(k) /\ channel' = channel
        /\ open' = IF CachedUnder(k) = NULL THEN open
                   ELSE destroy_h2_connection(CachedUnder(k))
    BY <1>2 DEF Begin, Idle
  <2>2. task'.pc \in {"done", "resolve"} /\ task'.conn = NULL /\ task'.ch = ch
    BY <1>2 DEF Begin, NoTask
  <2>3. /\ Counted(open', cache', task) /\ DOMAIN open' = Handles
        /\ IsFiniteSet(DOMAIN cache')
    <3>1. CASE k \in DOMAIN cache
      <4>1. CachedUnder(k) = cache[k] /\ cache[k] # NULL
        BY <3>1, NullAssumption DEF CachedUnder, SetupInv, CacheInv
      <4> QED BY <2>1, <3>1, <4>1, EvictCounts DEF HandleInv
    <3>2. CASE k \notin DOMAIN cache
      <4>1. open' = open /\ DOMAIN cache' = DOMAIN cache
            /\ \A x \in DOMAIN cache: cache'[x] = cache[x]
        BY <2>1, <3>2 DEF CachedUnder, Without
      <4>2. \A h: Holders(cache', h) = Holders(cache, h)
        BY <4>1 DEF Holders
      <4> QED BY <4>1, <4>2 DEF HandleInv, Exact, Counted
    <3> QED BY <3>1, <3>2
  <2>4. Counted(open', cache', task')
    BY <2>1, <2>2, <2>3, NonePending DEF Counted
  <2>5. k \notin DOMAIN cache'
    BY <2>1 DEF Without
  <2>6. Exact'
    BY <2>1, <2>2, <2>3, <2>5 DEF Exact, Tcp, InSetup, Tls, Session
  <2> QED BY <2>4, <2>6 DEF HandleInv, Counted, Holders, Pending
<1> QED BY <1>1, <1>2

\* The caller returns, or the clock goes on.
LEMMA ReturnKeepsHandles ==
    ASSUME SetupInv, HandleInv, Return \/ DeadlinePasses
    PROVE  HandleInv'
<1>1. UNCHANGED <<cache, open, channel>>
  BY DEF Return, DeadlinePasses
<1>2. CASE Return
  <2>1. task.pc = "done" /\ task'.pc = "idle"
    BY <1>2 DEF Return, NoTask
  <2>2. Counted(open', cache', task')
    BY <1>1, <2>1, NonePending, SameCounts DEF HandleInv
  <2>3. Exact'
    BY <1>1, <2>1 DEF HandleInv, Exact, Tcp, InSetup, Tls, Session
  <2> QED BY <2>2, <2>3 DEF HandleInv, Counted, Holders, Pending
<1>3. CASE DeadlinePasses
  <2>1. task'.pc = task.pc /\ task'.conn = task.conn /\ task'.ch = task.ch
    BY <1>3 DEF DeadlinePasses, SetupInv, PhaseInv, Task
  <2>2. Counted(open', cache', task')
    BY <1>1, <2>1, SameCounts DEF HandleInv, Pending
  <2>3. Exact'
    BY <1>1, <2>1 DEF HandleInv, Exact
  <2> QED BY <2>2, <2>3 DEF HandleInv, Counted, Holders, Pending
<1> QED BY <1>2, <1>3 DEF Return, DeadlinePasses

\* An attempt is over, and what it held has been given back.
LEMMA GiveUpKeepsHandles ==
    ASSUME SetupInv, HandleInv, NEW message, GiveUp(message),
           UNCHANGED <<cache, channel>>, DOMAIN open' = Handles,
           \A h \in Handles: open'[h] = open[h] - Pending(task, h)
    PROVE  HandleInv'
<1>1. task'.pc = "done"
  BY DEF GiveUp, NoTask
<1>2. ASSUME NEW h \in Handles
      PROVE  open'[h] = Cardinality(Holders(cache', h)) + Pending(task', h)
  <2>1. Cardinality(Holders(cache, h)) \in Nat /\ Pending(task, h) \in {0, 1}
    BY HoldersFinite DEF HandleInv, Exact, Pending
  <2>2. open[h] = Cardinality(Holders(cache, h)) + Pending(task, h)
    BY DEF HandleInv, Counted
  <2>3. Pending(task', h) = 0 /\ Holders(cache', h) = Holders(cache, h)
    BY <1>1, NonePending
  <2> QED BY <2>1, <2>2, <2>3
<1>3. Counted(open', cache', task')
  BY <1>2 DEF Counted
<1>4. Exact'
  BY <1>1 DEF HandleInv, Exact, Tcp, InSetup, Tls, Session
<1> QED BY <1>3, <1>4 DEF HandleInv, Counted, Holders, Pending

\* Another address is tried, or the loop of connect_tcp is over.
LEMMA TryNextKeepsHandles ==
    ASSUME SetupInv, HandleInv, task.pc \in Tcp, NEW left, NEW errno,
           TryNext(left, errno), UNCHANGED <<cache, channel>>,
           DOMAIN open' = Handles,
           \A h \in Handles: open'[h] = open[h] - Pending(task, h)
    PROVE  HandleInv'
<1>1. CASE left = 0
  BY <1>1, GiveUpKeepsHandles DEF TryNext, ConnectFailed
<1>2. CASE left # 0
  <2>1. /\ task'.pc = "address" /\ task'.conn = task.conn /\ task'.ch = task.ch
    BY <1>2 DEF TryNext, SetupInv, PhaseInv, Task
  <2>2. ASSUME NEW h \in Handles
        PROVE  open'[h] = Cardinality(Holders(cache', h)) + Pending(task', h)
    <3>1. Cardinality(Holders(cache, h)) \in Nat /\ Pending(task, h) \in {0, 1}
      BY HoldersFinite DEF HandleInv, Exact, Pending
    <3>2. open[h] = Cardinality(Holders(cache, h)) + Pending(task, h)
      BY DEF HandleInv, Counted
    <3>3. Pending(task', h) = 0 /\ Holders(cache', h) = Holders(cache, h)
      BY <2>1, NonePending
    <3> QED BY <3>1, <3>2, <3>3
  <2>3. Counted(open', cache', task')
    BY <2>2 DEF Counted
  <2>4. Exact'
    BY <2>1 DEF HandleInv, Exact, Tcp, InSetup, Tls, Session
  <2> QED BY <2>3, <2>4 DEF HandleInv, Counted, Holders, Pending
<1> QED BY <1>1, <1>2

\* connect_tcp closes the socket of every address that fails, and hands the
\* one that is connected to the connection under way.
LEMMA TcpKeepsHandles ==
    ASSUME SetupInv, HandleInv, connect_tcp
    PROVE  HandleInv'
<1>1. task.pc \in Tcp /\ UNCHANGED <<cache, channel>> /\ task \in Task
  BY DEF connect_tcp, ResolveFails, Resolve, NoSocket, StartConnect, ConnectFails,
         Connect, Tcp, SetupInv, PhaseInv
<1>2. \A h \in Handles: open[h] = Cardinality(Holders(cache, h)) + Pending(task, h)
                        /\ Cardinality(Holders(cache, h)) \in Nat
                        /\ Pending(task, h) \in {0, 1}
  BY HoldersFinite DEF HandleInv, Exact, Counted, Pending
<1>3. ASSUME task.pc \in {"resolve", "address"}, open' = open
      PROVE  /\ DOMAIN open' = Handles
             /\ \A h \in Handles: open'[h] = open[h] - Pending(task, h)
  <2>1. \A h \in Handles: Pending(task, h) = 0
    BY <1>3, NonePending
  <2> QED BY <1>2, <1>3, <2>1 DEF HandleInv, Exact
<1>4. CASE ResolveFails
  BY <1>1, <1>3, <1>4, GiveUpKeepsHandles DEF ResolveFails, ConnectFailed
<1>5. CASE Resolve
  <2>1. CASE task.deadline = "passed"
    BY <1>1, <1>3, <1>5, <2>1, GiveUpKeepsHandles DEF Resolve, ConnectFailed
  <2>2. CASE task.deadline # "passed"
    <3>1. /\ task.pc = "resolve" /\ open' = open /\ task'.pc = "address"
          /\ task'.conn = task.conn /\ task'.ch = task.ch
      BY <1>1, <1>5, <2>2 DEF Resolve, Task
    <3>2. Counted(open', cache', task')
      BY <1>1, <3>1, NonePending, SameCounts DEF HandleInv
    <3>3. Exact'
      BY <1>1, <3>1 DEF HandleInv, Exact, Tcp, InSetup, Tls, Session
    <3> QED BY <3>2, <3>3 DEF HandleInv, Counted, Holders, Pending
  <2> QED BY <2>1, <2>2
<1>6. CASE NoSocket
  BY <1>1, <1>3, <1>6, TryNextKeepsHandles DEF NoSocket
<1>7. CASE StartConnect
  <2>1. /\ task.pc = "address" /\ open' = [open EXCEPT !["fd"] = open["fd"] + 1]
        /\ task'.pc = "connect" /\ task'.conn = task.conn /\ task'.ch = task.ch
    BY <1>1, <1>7 DEF StartConnect, Task
  <2>2. \A h \in Handles: /\ Pending(task, h) = 0
                          /\ Pending(task', h) = IF h = "fd" THEN 1 ELSE 0
    BY <2>1, NonePending DEF Pending, InSetup, Tls, Session
  <2>3. \A h \in Handles: open'[h] = IF h = "fd" THEN open[h] + 1 ELSE open[h]
    BY <2>1 DEF HandleInv, Exact
  <2>4. Counted(open', cache', task')
    BY <1>1, <1>2, <2>2, <2>3 DEF Counted
  <2>5. DOMAIN open' = Handles
    BY <2>1 DEF HandleInv, Exact
  <2>6. Exact'
    BY <1>1, <2>1, <2>5 DEF HandleInv, Exact, Tcp, InSetup, Tls, Session
  <2> QED BY <2>4, <2>6 DEF HandleInv, Counted, Holders, Pending
<1>8. CASE ConnectFails
  <2>1. PICK e \in {"ETIMEDOUT", "other"}:
          IF task.deadline = "passed" THEN ConnectFailed(e) ELSE TryNext(task.left, e)
    BY <1>8 DEF ConnectFails
  <2>2. task.pc = "connect" /\ open' = [open EXCEPT !["fd"] = open["fd"] - 1]
    BY <1>8 DEF ConnectFails, CloseSocket
  <2>3. \A h \in Handles: Pending(task, h) = IF h = "fd" THEN 1 ELSE 0
    BY <2>2 DEF Pending, InSetup, Tls, Session
  <2>4. \A h \in Handles: open'[h] = IF h = "fd" THEN open[h] - 1 ELSE open[h]
    BY <2>2 DEF HandleInv, Exact
  <2>5. /\ DOMAIN open' = Handles
        /\ \A h \in Handles: open'[h] = open[h] - Pending(task, h)
    BY <1>2, <2>2, <2>3, <2>4 DEF HandleInv, Exact
  <2> QED BY <1>1, <2>1, <2>5, GiveUpKeepsHandles, TryNextKeepsHandles DEF ConnectFailed
<1>9. CASE Connect
  <2>1. task.pc = "connect" /\ open' = open
    BY <1>9 DEF Connect
  <2>2. /\ task'.pc \in {"SSL_CTX_new", "set_fd_nonblocking"} /\ task'.ch = task.ch
        /\ task'.conn = NewConnection(channel[task.ch])
    BY <1>1, <1>9 DEF Connect, Task
  <2>3. task'.conn.holds = {"fd"}
    BY <2>2 DEF NewConnection
  <2>4. \A h \in Handles: Pending(task', h) = Pending(task, h)
    BY <2>1, <2>2, <2>3 DEF Pending, InSetup, Tls, Session
  <2>5. Counted(open', cache', task')
    BY <1>1, <2>1, <2>4, SameCounts DEF HandleInv
  <2>6. Exact'
    BY <1>1, <2>1, <2>2, <2>3
    DEF HandleInv, Exact, Lacks, Tcp, InSetup, Tls, Session
  <2> QED BY <2>5, <2>6 DEF HandleInv, Counted, Holders, Pending
<1> QED BY <1>4, <1>5, <1>6, <1>7, <1>8, <1>9 DEF connect_tcp

\* A step of create_h2_connection that takes no handle.
LEMMA StepKeepsHandles ==
    ASSUME SetupInv, HandleInv, NEW pc \in InSetup, NEW next \in InSetup, NEW c,
           Step(pc, next, c), UNCHANGED open, c.holds = task.conn.holds,
           Lacks(next, c.holds)
    PROVE  HandleInv'
<1>1. /\ task.pc = pc /\ task'.pc = next /\ task'.conn = c /\ task'.ch = task.ch
      /\ UNCHANGED <<cache, channel>>
  BY DEF Step, SetupInv, PhaseInv, Task
<1>2. \A h \in Handles: Pending(task', h) = Pending(task, h)
  BY <1>1 DEF Pending, InSetup, Tls, Session
<1>3. Counted(open', cache', task')
  BY <1>1, <1>2, SameCounts DEF HandleInv
<1>4. Exact'
  BY <1>1 DEF HandleInv, Exact, Tcp, InSetup, Tls, Session
<1> QED BY <1>3, <1>4 DEF HandleInv, Counted, Holders, Pending

\* The steps of the handshake.
LEMMA HandshakeKeepsHandles ==
    ASSUME SetupInv, HandleInv, ConfigureContext \/ StartHandshake \/ SSL_connect
                                \/ VerifyPeer \/ SetNonblocking
    PROVE  HandleInv'
<1>1. ASSUME NEW pc \in InSetup, NEW next \in InSetup, NEW c,
             Step(pc, next, c), open' = open,
             task.conn \in Connection => c.holds = task.conn.holds,
             \/ pc = "configure" /\ next = "SSL_new"
             \/ pc = "handshake" /\ next = "SSL_connect"
             \/ pc = "SSL_connect" /\ next = "verify"
             \/ pc = "verify" /\ next = "callbacks"
             \/ pc = "set_fd_nonblocking" /\ next = "callbacks"
      PROVE  HandleInv'
  <2>1. task.pc = pc
    BY <1>1 DEF Step
  <2>2. task.conn \in Connection
    BY <2>1, UnderWay DEF InSetup
  <2>3. Lacks(pc, task.conn.holds)
    BY <2>1 DEF HandleInv, Exact
  <2>4. Lacks(next, c.holds)
    BY <1>1, <2>2, <2>3 DEF Lacks
  <2> QED BY <1>1, <2>2, <2>4, StepKeepsHandles
<1>2. CASE ConfigureContext
  BY <1>1, <1>2 DEF ConfigureContext, InSetup, Tls, Session
<1>3. CASE StartHandshake
  <2> DEFINE c == [task.conn EXCEPT !.nonblocking = TRUE]
  <2>1. Step("handshake", "SSL_connect", c) /\ open' = open
    BY <1>3 DEF StartHandshake
  <2>2. task.conn \in Connection => c.holds = task.conn.holds
    BY DEF Connection
  <2> QED BY <1>1, <2>1, <2>2 DEF InSetup, Tls
<1>4. CASE SSL_connect
  <2>1. PICK v \in BOOLEAN, a \in {"h2", "other", NULL}:
          Step("SSL_connect", "verify", [task.conn EXCEPT !.verified = v, !.alpn = a])
    BY <1>4 DEF SSL_connect
  <2> DEFINE c == [task.conn EXCEPT !.verified = v, !.alpn = a]
  <2>2. task.conn \in Connection => c.holds = task.conn.holds
    BY DEF Connection
  <2>3. Step("SSL_connect", "verify", c) /\ open' = open
    BY <1>4, <2>1 DEF SSL_connect
  <2> QED BY <1>1, <2>2, <2>3 DEF InSetup, Tls
<1>5. CASE VerifyPeer
  <2> DEFINE c == [task.conn EXCEPT !.setup_deadline = task.deadline]
  <2>1. Step("verify", "callbacks", c) /\ open' = open
    BY <1>5 DEF VerifyPeer
  <2>2. task.conn \in Connection => c.holds = task.conn.holds
    BY DEF Connection
  <2> QED BY <1>1, <2>1, <2>2 DEF InSetup, Tls, Session
<1>6. CASE SetNonblocking
  <2> DEFINE c == [task.conn EXCEPT !.nonblocking = TRUE,
                                    !.setup_deadline = task.deadline]
  <2>1. Step("set_fd_nonblocking", "callbacks", c) /\ open' = open
    BY <1>6 DEF SetNonblocking
  <2>2. task.conn \in Connection => c.holds = task.conn.holds
    BY DEF Connection
  <2> QED BY <1>1, <2>1, <2>2 DEF InSetup, Session
<1> QED BY <1>2, <1>3, <1>4, <1>5, <1>6

\* A step of create_h2_connection that takes a handle, which the connection
\* did not have.
LEMMA GetKeepsHandles ==
    ASSUME SetupInv, HandleInv, SSL_CTX_new \/ SSL_new \/ configure_callbacks
                                \/ nghttp2_session_client_new
    PROVE  HandleInv'
<1>1. PICK pc \in InSetup, next \in InSetup, g \in Handles:
        /\ Get(pc, next, g)
        /\ \/ pc = "SSL_CTX_new" /\ next = "configure" /\ g = "ssl_ctx"
           \/ pc = "SSL_new" /\ next = "handshake" /\ g = "ssl"
           \/ pc = "callbacks" /\ next = "session" /\ g = "callbacks"
           \/ pc = "session" /\ next = "send" /\ g = "session"
  BY DEF SSL_CTX_new, SSL_new, configure_callbacks, nghttp2_session_client_new,
         InSetup, Tls, Session, Handles
<1>2. /\ task.pc = pc /\ task'.pc = next /\ task'.ch = task.ch
      /\ task'.conn = [task.conn EXCEPT !.holds = task.conn.holds \cup {g}]
      /\ UNCHANGED <<cache, channel>>
      /\ open' = [open EXCEPT ![g] = open[g] + 1]
  BY <1>1 DEF Get, Step, SetupInv, PhaseInv, Task
<1>3. task.conn \in Connection
  BY <1>2, UnderWay DEF InSetup
<1>4. task'.conn.holds = task.conn.holds \cup {g}
  BY <1>2, <1>3 DEF Connection
<1>5. Lacks(pc, task.conn.holds)
  BY <1>2 DEF HandleInv, Exact
<1>6. g \notin task.conn.holds /\ Lacks(next, task'.conn.holds)
  BY <1>1, <1>4, <1>5 DEF Lacks
<1>7. ASSUME NEW h \in Handles
      PROVE  open'[h] = Cardinality(Holders(cache', h)) + Pending(task', h)
  <2>1. /\ Cardinality(Holders(cache, h)) \in Nat
        /\ open[h] = Cardinality(Holders(cache, h)) + Pending(task, h)
    BY HoldersFinite DEF HandleInv, Exact, Counted
  <2>2. /\ Pending(task, h) = IF h \in task.conn.holds THEN 1 ELSE 0
        /\ Pending(task', h) = IF h \in task'.conn.holds THEN 1 ELSE 0
    BY <1>2 DEF Pending, InSetup, Tls, Session
  <2>3. open'[h] = IF h = g THEN open[h] + 1 ELSE open[h]
    BY <1>2 DEF HandleInv, Exact
  <2> QED BY <1>2, <1>4, <1>6, <2>1, <2>2, <2>3
<1>8. Counted(open', cache', task')
  BY <1>7 DEF Counted
<1>9. DOMAIN open' = Handles
  BY <1>2 DEF HandleInv, Exact
<1>10. Exact'
  BY <1>2, <1>6, <1>9 DEF HandleInv, Exact, Tcp, InSetup, Tls, Session
<1> QED BY <1>8, <1>10 DEF HandleInv, Counted, Holders, Pending

\* Every error of create_h2_connection gives back what there is.
LEMMA FailKeepsHandles ==
    ASSUME SetupInv, HandleInv, StepFails \/ HandshakeTimesOut \/ PeerRefused
    PROVE  HandleInv'
<1>1. /\ task.pc \in InSetup /\ UNCHANGED <<cache, channel>>
      /\ open' = destroy_h2_connection(task.conn)
  BY DEF StepFails, HandshakeTimesOut, PeerRefused, Fail, InSetup, Tls, Session
<1>2. DOMAIN open' = Handles
  BY <1>1 DEF destroy_h2_connection
<1>3. ASSUME NEW h \in Handles PROVE open'[h] = open[h] - Pending(task, h)
  <2>1. /\ Cardinality(Holders(cache, h)) \in Nat /\ Pending(task, h) \in {0, 1}
        /\ open[h] = Cardinality(Holders(cache, h)) + Pending(task, h)
    BY HoldersFinite DEF HandleInv, Exact, Counted, Pending
  <2>2. Pending(task, h) = IF h \in task.conn.holds THEN 1 ELSE 0
    BY <1>1 DEF Pending, InSetup, Tls, Session
  <2>3. open'[h] = IF h \in task.conn.holds THEN open[h] - 1 ELSE open[h]
    BY <1>1 DEF destroy_h2_connection
  <2> QED BY <2>1, <2>2, <2>3
<1>4. PICK message \in {"other", "deadline", "TLS verification or ALPN"}:
        GiveUp(message)
  BY DEF StepFails, HandshakeTimesOut, PeerRefused, Fail
<1> QED BY <1>1, <1>2, <1>3, <1>4, GiveUpKeepsHandles

\* A finished connection takes its handles into the cache: its key is free, so
\* that it gets an entry.
LEMMA FinishKeepsHandles ==
    ASSUME SetupInv, HandleInv, Finish
    PROVE  HandleInv'
<1> DEFINE c == [task.conn EXCEPT !.setup_deadline = "none"]
           k == channel[task.ch].connection_key
<1>1. /\ task.pc = "send" /\ task'.pc = "done" /\ open' = open
      /\ cache' = [x \in DOMAIN cache \cup {k} |->
                      IF x \in DOMAIN cache THEN cache[x] ELSE c]
  BY DEF Finish, Serve, NoTask
<1>2. task.conn \in Connection /\ k \notin DOMAIN cache
  BY <1>1, UnderWay DEF Session, InSetup, HandleInv, Exact
<1>3. c.holds = task.conn.holds
  BY <1>2 DEF Connection
<1> HIDE DEF c, k
<1>4. ASSUME NEW h \in Handles
      PROVE  open'[h] = Cardinality(Holders(cache', h)) + Pending(task', h)
  <2>1. /\ IsFiniteSet(Holders(cache, h)) /\ Cardinality(Holders(cache, h)) \in Nat
        /\ open[h] = Cardinality(Holders(cache, h)) + Pending(task, h)
    BY HoldersFinite DEF HandleInv, Exact, Counted
  <2>2. /\ Pending(task, h) = IF h \in task.conn.holds THEN 1 ELSE 0
        /\ Pending(task', h) = 0
    BY <1>1 DEF Pending, InSetup, Tls, Session
  <2>3. k \notin Holders(cache, h)
    BY <1>2 DEF Holders
  <2>4. Cardinality(Holders(cache, h) \cup {k}) = Cardinality(Holders(cache, h)) + 1
    BY <2>1, <2>3, FS_AddElement
  <2>5. Holders(cache', h) = IF h \in task.conn.holds THEN Holders(cache, h) \cup {k}
                                                       ELSE Holders(cache, h)
    BY <1>1, <1>2, <1>3 DEF Holders
  <2> QED BY <1>1, <2>1, <2>2, <2>4, <2>5
<1>5. Counted(open', cache', task')
  BY <1>4 DEF Counted
<1>6. IsFiniteSet(DOMAIN cache')
  <2>1. DOMAIN cache' = DOMAIN cache \cup {k}
    BY <1>1
  <2> QED BY <2>1, FS_AddElement DEF HandleInv, Exact
<1>7. Exact'
  BY <1>1, <1>6 DEF HandleInv, Exact, Tcp, InSetup, Tls, Session
<1> QED BY <1>5, <1>7 DEF HandleInv, Counted, Holders, Pending

-----------------------------------------------------------------------------
(* The theorem.                                                            *)

\* No failed step, no expired deadline and no eviction leaks a socket, an
\* SSL object or a session, and none is given back twice (connect_tcp,
\* create_h2_connection, configure_tls_connection, destroy_h2_connection).
THEOREM HandlesNeverLeak == Spec => []NoHandleLeak
<1>1. Init => HandleInv
  <2> SUFFICES ASSUME Init PROVE HandleInv
    OBVIOUS
  <2>1. task.pc = "idle" /\ open = [h \in Handles |-> 0] /\ DOMAIN cache = {}
    BY DEF Init, NoTask
  <2>2. Exact
    BY <2>1, FS_EmptySet DEF Exact, Tcp, InSetup, Tls, Session
  <2>3. \A h \in Handles: Holders(cache, h) = {} /\ Pending(task, h) = 0
    BY <2>1, NonePending DEF Holders
  <2>4. Counted(open, cache, task)
    BY <2>1, <2>3, FS_EmptySet DEF Counted
  <2> QED BY <2>2, <2>4 DEF HandleInv
<1>2. SetupInv /\ HandleInv /\ [Next]_vars => HandleInv'
  <2> SUFFICES ASSUME SetupInv, HandleInv, [Next]_vars PROVE HandleInv'
    OBVIOUS
  <2>1. CASE Surface
    <3>1. ASSUME \/ \E o \in CredObjects:
                       createInsecure(o) \/ createDefault(o) \/ createSsl(o)
                 \/ SetDefaultRoots
                 \/ \E ch \in Channels, o \in CredObjects: ConstructChannel(ch, o)
                 \/ \E ch \in Channels: FreeChannel(ch)
          PROVE  HandleInv'
      <4>1. task.pc = "idle" /\ UNCHANGED <<cache, open, task>>
        BY <3>1 DEF createInsecure, createDefault, createSsl,
                    grpc_lite_channel_credentials_init, SetDefaultRoots,
                    ConstructChannel, FreeChannel, Idle
      <4> QED BY <4>1, ObjectsKeepHandles
    <3> QED BY <2>1, <3>1, CloseKeepsHandles, LookupKeepsHandles, BreakKeepsHandles
            DEF Surface
  <2>2. CASE connect_tcp
    BY <2>2, TcpKeepsHandles
  <2>3. CASE configure_tls_connection
    BY <2>3, GetKeepsHandles, HandshakeKeepsHandles, FailKeepsHandles
    DEF configure_tls_connection
  <2>4. CASE SetNonblocking
    BY <2>4, HandshakeKeepsHandles
  <2>5. CASE configure_callbacks \/ nghttp2_session_client_new
    BY <2>5, GetKeepsHandles
  <2>6. CASE Finish
    BY <2>6, FinishKeepsHandles
  <2>7. CASE StepFails
    BY <2>7, FailKeepsHandles
  <2>8. CASE Return \/ DeadlinePasses
    BY <2>8, ReturnKeepsHandles
  <2>9. CASE UNCHANGED vars
    BY <2>9 DEF vars, HandleInv, Exact, Counted, Holders, Pending
  <2> QED BY <2>1, <2>2, <2>3, <2>4, <2>5, <2>6, <2>7, <2>8, <2>9 DEF Next
<1>3. SetupInv /\ HandleInv => NoHandleLeak
  <2> SUFFICES ASSUME SetupInv, HandleInv, NEW h \in Handles
               PROVE  open[h] =
                          Cardinality({k \in DOMAIN cache: h \in cache[k].holds})
                          + (IF \/ Building /\ h \in task.conn.holds
                                \/ task.pc = "connect" /\ h = "fd"
                             THEN 1 ELSE 0)
    BY DEF NoHandleLeak
  <2>1. task.pc \in InSetup => task.conn # NULL
    BY UnderWay, NullAssumption DEF InSetup
  <2>2. task.pc \in {"idle", "done"} \cup Tcp \cup InSetup
    BY DEF SetupInv, PhaseInv, Task, InSetup
  <2>3. Building <=> task.pc \in InSetup
    BY <2>1, <2>2
    DEF Building, HandleInv, Exact, InSetup, Tcp, Tls, Session
  <2> QED BY <2>3 DEF HandleInv, Counted, Holders, Pending
<1> QED BY <1>1, <1>2, <1>3, SetupInvariant, PTL DEF Spec

=============================================================================
