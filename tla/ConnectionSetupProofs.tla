------------------------ MODULE ConnectionSetupProofs ------------------------
(***************************************************************************)
(* For any number of channels, credentials objects, cached connections and *)
(* addresses: a call is only ever given a connection that was set up with  *)
(* the settings of its own channel, and that is ready for it.              *)
(*                                                                         *)
(* The argument: the settings of a channel are a function of its key       *)
(* (SettingsFollowKey), the cache holds under a key only connections with  *)
(* the settings of that key (CacheInv), and the connection under way has   *)
(* those of the channel it is made for, with whatever the steps so far     *)
(* have added (PhaseInv).                                                  *)
(***************************************************************************)
EXTENDS ConnectionSetup, TLAPS

Credential ==
    [type: {"insecure", "ssl", "default"}, root_certs: Strings,
     private_key: Strings, cert_chain: Strings]

Key ==
    [host: Texts, authority: Strings, tls_verify_name: Strings,
     type: {"insecure", "ssl", "default"}, root_certs: Strings,
     cert_chain: Strings, private_key: Strings]

\* A channel whose constructor has returned.
Initialized ==
    [initialized: {TRUE}, host: Texts, authority: Strings,
     tls_verify_name: Strings, credentials: CredObjects, connection_key: Key]

\* The settings that a key stands for.
SettingsOf(k) ==
    [host |-> k.host,
     authority |-> IF k.authority = EMPTY THEN k.host ELSE k.authority,
     use_tls |-> k.type # "insecure",
     verify_name |-> IF k.tls_verify_name = EMPTY
                     THEN k.host ELSE k.tls_verify_name,
     roots |-> k.root_certs, cert_chain |-> k.cert_chain,
     private_key |-> k.private_key]

\* What a connection has once it is set up; it may since have died.
Complete(c) ==
    /\ c.nonblocking
    /\ c.setup_deadline = "none"
    /\ {"fd", "callbacks", "session"} \subseteq c.holds
    /\ c.settings.use_tls =>
        {"ssl_ctx", "ssl"} \subseteq c.holds /\ c.verified /\ c.alpn = "h2"

SurfaceInv ==
    /\ default_roots \in Strings
    /\ credentials \in [CredObjects -> Credential \cup {NULL}]
    /\ channel \in [Channels -> Initialized \cup {Cleared}]
    /\ \A ch \in Channels: channel[ch].initialized =>
        /\ credentials[channel[ch].credentials] # NULL
        /\ channel[ch].connection_key = grpc_lite_build_connection_key(channel[ch])

CacheInv ==
    \A k \in DOMAIN cache:
        /\ cache[k] \in Connection
        /\ cache[k].settings = SettingsOf(k)
        /\ Complete(cache[k])

Tcp == {"resolve", "address", "connect"}

Tls == {"SSL_CTX_new", "configure", "SSL_new", "handshake", "SSL_connect",
        "verify"}

Session == {"callbacks", "session", "send"}

\* What the connection under way has at the steps of create_h2_connection.
Phase(pc, c) ==
    /\ "fd" \in c.holds
    /\ pc \in Tls => c.settings.use_tls
    /\ pc = "set_fd_nonblocking" => ~c.settings.use_tls
    /\ pc \in Tls \ {"SSL_CTX_new"} => "ssl_ctx" \in c.holds
    /\ pc \in {"handshake", "SSL_connect", "verify"} => "ssl" \in c.holds
    /\ pc \in {"SSL_connect", "verify"} \cup Session => c.nonblocking
    /\ pc \in Session /\ c.settings.use_tls =>
        {"ssl_ctx", "ssl"} \subseteq c.holds /\ c.verified /\ c.alpn = "h2"
    /\ pc \in {"session", "send"} => "callbacks" \in c.holds
    /\ pc = "send" => "session" \in c.holds

Task ==
    [pc: {"idle", "done", "set_fd_nonblocking"} \cup Tcp \cup Tls \cup Session,
     ch: Channels \cup {NULL},
     deadline: {"none", "ahead", "passed"}, left: Nat,
     errno: {"ETIMEDOUT", "other"}, conn: Connection \cup {NULL},
     status: {NULL, "OK", "UNAVAILABLE", "DEADLINE_EXCEEDED"}]

PhaseInv ==
    /\ task \in Task
    /\ task.pc = "address" => task.left # 0
    /\ task.pc # "idle" => task.ch \in Channels /\ channel[task.ch].initialized
    /\ task.pc \in Tls \cup Session \cup {"set_fd_nonblocking"} =>
        /\ task.conn \in Connection
        /\ task.conn.usable
        /\ task.conn.settings = Settings(channel[task.ch])
        /\ Phase(task.pc, task.conn)
    /\ task.pc = "done" /\ task.conn # NULL =>
        /\ task.conn.settings = Settings(channel[task.ch])
        /\ task.conn.usable
        /\ Complete(task.conn)

SetupInv == SurfaceInv /\ CacheInv /\ PhaseInv

-----------------------------------------------------------------------------
(* Lemmas.                                                                 *)

\* The key of a channel determines all that create_h2_connection takes from the
\* channel, so that two channels with one key have one set of settings.
LEMMA SettingsFollowKey ==
    ASSUME NEW c, c.host \in Texts, c.authority \in Strings,
           c.tls_verify_name \in Strings,
           credentials[c.credentials] \in Credential
    PROVE  /\ grpc_lite_build_connection_key(c) \in Key
           /\ Settings(c) \in Setting
           /\ Settings(c) = SettingsOf(grpc_lite_build_connection_key(c))
<1> DEFINE cred == credentials[c.credentials]
<1>1. cred.root_certs \in Strings /\ cred.private_key \in Strings
      /\ cred.cert_chain \in Strings /\ cred.type \in {"insecure", "ssl", "default"}
  BY DEF Credential
<1>2. \A t \in Strings: Bytes(t) \in Strings
                        /\ (Bytes(t) # EMPTY => Bytes(t) = t)
  BY DEF Bytes, Strings
<1>3. Texts \subseteq Strings
  BY DEF Strings
<1> HIDE DEF cred
<1>4. grpc_lite_build_connection_key(c) =
        [host |-> c.host, authority |-> Bytes(c.authority),
         tls_verify_name |-> Bytes(c.tls_verify_name), type |-> cred.type,
         root_certs |-> Bytes(cred.root_certs),
         cert_chain |-> Bytes(cred.cert_chain),
         private_key |-> Bytes(cred.private_key)]
  BY DEF grpc_lite_build_connection_key, cred
<1>5. Settings(c) =
        [host |-> c.host,
         authority |-> IF Bytes(c.authority) = EMPTY THEN c.host ELSE c.authority,
         use_tls |-> cred.type # "insecure",
         verify_name |-> IF Bytes(c.tls_verify_name) = EMPTY
                         THEN c.host ELSE c.tls_verify_name,
         roots |-> Bytes(cred.root_certs), cert_chain |-> Bytes(cred.cert_chain),
         private_key |-> Bytes(cred.private_key)]
  BY DEF Settings, cred
<1>6. grpc_lite_build_connection_key(c) \in Key
  BY <1>1, <1>2, <1>4 DEF Key
<1>7. Settings(c) \in Setting
  BY <1>1, <1>2, <1>3, <1>5 DEF Setting
<1>8. Settings(c) = SettingsOf(grpc_lite_build_connection_key(c))
  BY <1>2, <1>4, <1>5 DEF SettingsOf
<1> QED BY <1>6, <1>7, <1>8

\* An initialized channel has its fields, its credentials object and its key.
LEMMA InitializedChannel ==
    ASSUME SurfaceInv, NEW ch \in Channels, channel[ch].initialized
    PROVE  /\ channel[ch] \in Initialized
           /\ credentials[channel[ch].credentials] \in Credential
           /\ Settings(channel[ch]) \in Setting
           /\ Settings(channel[ch]) = SettingsOf(channel[ch].connection_key)
<1>1. channel[ch] \in Initialized
  BY DEF SurfaceInv, Cleared
<1>2. credentials[channel[ch].credentials] \in Credential
  BY <1>1 DEF SurfaceInv, Initialized
<1>3. channel[ch].connection_key = grpc_lite_build_connection_key(channel[ch])
  BY DEF SurfaceInv
<1>4. /\ channel[ch].host \in Texts /\ channel[ch].authority \in Strings
      /\ channel[ch].tls_verify_name \in Strings
  BY <1>1 DEF Initialized
<1> QED BY <1>1, <1>2, <1>3, <1>4, SettingsFollowKey

\* Steps that touch neither credentials nor channels.
LEMMA SurfaceStays ==
    ASSUME SurfaceInv, UNCHANGED <<default_roots, credentials, channel>>
    PROVE  /\ SurfaceInv'
           /\ \A c: Settings(c)' = Settings(c)
BY DEF SurfaceInv, grpc_lite_build_connection_key, Settings, Cleared

\* A key outlives the creation of other credentials objects, as an object never
\* changes once it is there.
LEMMA CreatePreserves ==
    ASSUME SetupInv, NEW o \in CredObjects,
           NEW type \in {"insecure", "ssl", "default"},
           NEW args \in [root_certs: Strings, private_key: Strings,
                         cert_chain: Strings],
           grpc_lite_channel_credentials_init(o, type, args)
    PROVE  SetupInv'
<1> DEFINE new == [type |-> type, root_certs |-> InitialRoots(type, args.root_certs),
                   private_key |-> args.private_key, cert_chain |-> args.cert_chain]
<1>1. new \in Credential
  BY DEF SetupInv, SurfaceInv, Credential, InitialRoots
<1>2. credentials' = [credentials EXCEPT ![o] = new]
  BY DEF grpc_lite_channel_credentials_init
<1> HIDE DEF new
<1>3. task.pc = "idle" /\ credentials[o] = NULL
      /\ UNCHANGED <<default_roots, channel, cache, task>>
  BY DEF grpc_lite_channel_credentials_init, Idle
<1>4. ASSUME NEW ch \in Channels, channel[ch].initialized
      PROVE  /\ credentials'[channel[ch].credentials] # NULL
             /\ grpc_lite_build_connection_key(channel[ch])' =
                    grpc_lite_build_connection_key(channel[ch])
  <2>1. channel[ch].credentials \in CredObjects
    BY <1>4, InitializedChannel DEF SetupInv, Initialized
  <2>2. credentials[channel[ch].credentials] # NULL
    BY <1>4 DEF SetupInv, SurfaceInv
  <2>3. credentials'[channel[ch].credentials] = credentials[channel[ch].credentials]
    BY <1>2, <1>3, <2>1, <2>2 DEF SetupInv, SurfaceInv
  <2> QED BY <1>3, <2>2, <2>3 DEF grpc_lite_build_connection_key
<1>5. SurfaceInv'
  <2>1. credentials' \in [CredObjects -> Credential \cup {NULL}]
    BY <1>1, <1>2 DEF SetupInv, SurfaceInv
  <2>2. default_roots' \in Strings /\ channel' \in [Channels -> Initialized \cup {Cleared}]
    BY <1>3 DEF SetupInv, SurfaceInv
  <2>3. \A ch \in Channels: channel'[ch].initialized =>
          /\ credentials'[channel'[ch].credentials] # NULL
          /\ channel'[ch].connection_key = grpc_lite_build_connection_key(channel[ch])'
    BY <1>3, <1>4 DEF SetupInv, SurfaceInv
  <2> QED BY <2>1, <2>2, <2>3 DEF SurfaceInv, Cleared
<1>6. CacheInv'
  BY <1>3 DEF SetupInv, CacheInv, SettingsOf, Complete
<1>7. PhaseInv'
  BY <1>3 DEF SetupInv, PhaseInv, Tcp, Tls, Session
<1> QED BY <1>5, <1>6, <1>7 DEF SetupInv

\* A constructor leaves a channel with its own key, or cleared.
LEMMA ConstructPreserves ==
    ASSUME SetupInv, NEW ch \in Channels, NEW o \in CredObjects,
           ConstructChannel(ch, o)
    PROVE  SetupInv'
<1>1. PICK opts \in ChannelOptions:
        channel' = [channel EXCEPT ![ch] = Constructed(
            [Cleared EXCEPT !.host = opts.host, !.authority = opts.authority,
                            !.tls_verify_name = opts.tls_verify_name,
                            !.credentials = o], opts.valid)]
  BY DEF ConstructChannel
<1> DEFINE fields == [Cleared EXCEPT
                         !.host = opts.host, !.authority = opts.authority,
                         !.tls_verify_name = opts.tls_verify_name,
                         !.credentials = o]
           full == [fields EXCEPT !.initialized = TRUE,
                       !.connection_key = grpc_lite_build_connection_key(fields)]
<1>2. /\ opts.host \in Texts /\ opts.authority \in Strings
      /\ opts.tls_verify_name \in Strings
  BY ArgumentAssumption
<1>3. /\ task.pc = "idle" /\ credentials[o] # NULL
      /\ UNCHANGED <<default_roots, credentials, cache, task>>
  BY DEF ConstructChannel, Idle
<1>4. credentials[o] \in Credential
  BY <1>3 DEF SetupInv, SurfaceInv
<1>5. /\ fields.host = opts.host /\ fields.authority = opts.authority
      /\ fields.tls_verify_name = opts.tls_verify_name /\ fields.credentials = o
  BY DEF Cleared
<1>6. grpc_lite_build_connection_key(fields) \in Key
  BY <1>2, <1>4, <1>5, SettingsFollowKey
<1>7. full \in Initialized /\ full.credentials = o
  BY <1>2, <1>6 DEF Cleared, Initialized
<1>8. full.connection_key = grpc_lite_build_connection_key(full)
  BY <1>5 DEF Cleared, grpc_lite_build_connection_key
<1>9. channel' = [channel EXCEPT ![ch] = full] \/ channel' = [channel EXCEPT ![ch] = Cleared]
  BY <1>1 DEF Constructed
<1> HIDE DEF full, fields
<1>10. SurfaceInv'
  <2>1. \A c: grpc_lite_build_connection_key(c)' = grpc_lite_build_connection_key(c)
    BY <1>3 DEF grpc_lite_build_connection_key
  <2>2. channel' \in [Channels -> Initialized \cup {Cleared}]
    BY <1>7, <1>9 DEF SetupInv, SurfaceInv
  <2>3. ASSUME NEW x \in Channels, channel'[x].initialized
        PROVE  /\ credentials[channel'[x].credentials] # NULL
               /\ channel'[x].connection_key = grpc_lite_build_connection_key(channel'[x])
    <3>1. CASE x = ch
      <4>1. ~Cleared.initialized
        BY DEF Cleared
      <4>2. channel'[x] = full
        BY <1>9, <2>3, <3>1, <4>1 DEF SetupInv, SurfaceInv
      <4> QED BY <4>2, <1>3, <1>7, <1>8
    <3>2. CASE x # ch
      <4>1. channel'[x] = channel[x]
        BY <1>9, <3>2 DEF SetupInv, SurfaceInv
      <4> QED BY <4>1, <2>3 DEF SetupInv, SurfaceInv
    <3> QED BY <3>1, <3>2
  <2>4. \A x \in Channels: channel'[x].initialized =>
          /\ credentials'[channel'[x].credentials] # NULL
          /\ channel'[x].connection_key = grpc_lite_build_connection_key(channel[x])'
    BY <1>3, <2>3 DEF grpc_lite_build_connection_key
  <2> QED BY <1>3, <2>2, <2>4 DEF SetupInv, SurfaceInv, Cleared
<1>11. CacheInv'
  BY <1>3 DEF SetupInv, CacheInv, SettingsOf, Complete
<1>12. PhaseInv'
  BY <1>3 DEF SetupInv, PhaseInv, Tcp, Tls, Session
<1> QED BY <1>10, <1>11, <1>12 DEF SetupInv

\* Steps that change nothing but task, and for which PhaseInv is shown.
LEMMA TaskStep ==
    ASSUME SetupInv, UNCHANGED <<default_roots, credentials, channel, cache>>,
           PhaseInv'
    PROVE  SetupInv'
<1>1. SurfaceInv'
  BY SurfaceStays DEF SetupInv
<1>2. CacheInv'
  BY DEF SetupInv, CacheInv, SettingsOf, Complete
<1> QED BY <1>1, <1>2 DEF SetupInv

\* An attempt may be given up at every step.
LEMMA GiveUpPreserves ==
    ASSUME SetupInv, task.pc # "idle", NEW message, GiveUp(message),
           UNCHANGED <<default_roots, credentials, channel, cache>>
    PROVE  SetupInv'
<1>1. task.ch \in Channels /\ channel[task.ch].initialized
  BY DEF SetupInv, PhaseInv
<1>2. PICK st \in {"DEADLINE_EXCEEDED", "UNAVAILABLE"}:
        task' = [NoTask EXCEPT !.pc = "done", !.ch = task.ch, !.status = st]
  BY DEF GiveUp
<1>a. task' = [pc |-> "done", ch |-> task.ch, deadline |-> "none", left |-> 0,
               errno |-> "other", conn |-> NULL, status |-> st]
  BY <1>2 DEF NoTask
<1>3. /\ task'.pc = "done" /\ task'.conn = NULL /\ task'.ch = task.ch
  BY <1>a
<1>b. task' \in Task
  BY <1>1, <1>a DEF Task, Tcp, Tls, Session
<1>4. PhaseInv'
  BY <1>1, <1>3, <1>b DEF PhaseInv, Tcp, Tls, Session
<1> QED BY <1>4, TaskStep

\* The methods of Channel and ChannelCredentials, but for the constructors.
LEMMA SurfacePreserves ==
    ASSUME SetupInv,
           \/ SetDefaultRoots \/ ConnectionBreaks
           \/ \E ch \in Channels: FreeChannel(ch) \/ Close(ch)
    PROVE  SetupInv'
<1>1. CASE SetDefaultRoots
  <2>1. default_roots' \in Strings
    BY <1>1, ArgumentAssumption DEF SetDefaultRoots, Strings
  <2>2. SurfaceInv'
    BY <1>1, <2>1
    DEF SetDefaultRoots, SetupInv, SurfaceInv, grpc_lite_build_connection_key, Cleared
  <2>3. CacheInv'
    BY <1>1 DEF SetDefaultRoots, SetupInv, CacheInv, SettingsOf, Complete
  <2>4. PhaseInv'
    BY <1>1 DEF SetDefaultRoots, Idle, SetupInv, PhaseInv, Tcp, Tls, Session
  <2> QED BY <2>2, <2>3, <2>4 DEF SetupInv
<1>2. CASE ConnectionBreaks
  <2>1. PICK k \in DOMAIN cache: cache' = [cache EXCEPT ![k].usable = FALSE]
    BY <1>2 DEF ConnectionBreaks
  <2>2. ASSUME NEW x \in DOMAIN cache'
        PROVE  /\ cache'[x] \in Connection
               /\ cache'[x].settings = SettingsOf(x)
               /\ Complete(cache'[x])
    <3>1. x \in DOMAIN cache /\ cache[x] \in Connection
          /\ cache[x].settings = SettingsOf(x) /\ Complete(cache[x])
      BY <2>1, <2>2 DEF SetupInv, CacheInv
    <3>2. cache'[x] = cache[x] \/ cache'[x] = [cache[x] EXCEPT !.usable = FALSE]
      BY <2>1, <3>1
    <3> QED BY <3>1, <3>2 DEF Connection, Complete
  <2>3. CacheInv'
    BY <2>2 DEF CacheInv, SettingsOf, Complete
  <2>4. SurfaceInv'
    BY <1>2, SurfaceStays DEF ConnectionBreaks, SetupInv
  <2>5. PhaseInv'
    BY <1>2 DEF ConnectionBreaks, Idle, SetupInv, PhaseInv, Tcp, Tls, Session
  <2> QED BY <2>3, <2>4, <2>5 DEF SetupInv
<1>3. ASSUME NEW ch \in Channels, FreeChannel(ch)
      PROVE  SetupInv'
  <2>1. channel' = [channel EXCEPT ![ch] = Cleared] /\ task.pc = "idle"
        /\ UNCHANGED <<default_roots, credentials, cache, task>>
    BY <1>3 DEF FreeChannel, Idle
  <2>2. SurfaceInv'
    BY <2>1 DEF SetupInv, SurfaceInv, grpc_lite_build_connection_key, Cleared
  <2>3. CacheInv'
    BY <2>1 DEF SetupInv, CacheInv, SettingsOf, Complete
  <2>4. PhaseInv'
    BY <2>1 DEF SetupInv, PhaseInv, Tcp, Tls, Session
  <2> QED BY <2>2, <2>3, <2>4 DEF SetupInv
<1>4. ASSUME NEW ch \in Channels, Close(ch)
      PROVE  SetupInv'
  <2>1. SurfaceInv'
    BY <1>4, SurfaceStays DEF Close, SetupInv
  <2>2. CacheInv'
    BY <1>4 DEF Close, Without, SetupInv, CacheInv, SettingsOf, Complete
  <2>3. PhaseInv'
    BY <1>4 DEF Close, Idle, SetupInv, PhaseInv, Tcp, Tls, Session
  <2> QED BY <2>1, <2>2, <2>3 DEF SetupInv
<1> QED BY <1>1, <1>2, <1>3, <1>4

\* get_persistent_connection up to create_h2_connection: a cached connection
\* has the settings of the channel whose key it is found under.
LEMMA LookupPreserves ==
    ASSUME SetupInv, NEW ch \in Channels, Reuse(ch) \/ Begin(ch)
    PROVE  SetupInv'
<1> DEFINE k == channel[ch].connection_key
<1>1. channel[ch].initialized /\ UNCHANGED <<default_roots, credentials, channel>>
  BY DEF Reuse, Begin
<1>2. Settings(channel[ch]) = SettingsOf(k)
  BY <1>1, InitializedChannel DEF SetupInv
<1>3. SurfaceInv' /\ \A c: Settings(c)' = Settings(c)
  BY <1>1, SurfaceStays DEF SetupInv
<1>4. CASE Reuse(ch)
  <2>1. k \in DOMAIN cache /\ cache[k].usable
        /\ task' = [NoTask EXCEPT !.pc = "done", !.ch = ch, !.conn = cache[k],
                        !.status = "OK"]
    BY <1>4 DEF Reuse, CachedUnder, Serve
  <2>2. cache[k] \in Connection /\ cache[k].settings = SettingsOf(k) /\ Complete(cache[k])
    BY <2>1 DEF SetupInv, CacheInv
  <2>a. task' = [pc |-> "done", ch |-> ch, deadline |-> "none", left |-> 0,
                 errno |-> "other", conn |-> cache[k], status |-> "OK"]
    BY <2>1 DEF NoTask
  <2>3. /\ task'.pc = "done" /\ task'.conn = cache[k] /\ task'.ch = ch
    BY <2>a
  <2>b. task' \in Task
    BY <2>a, <2>2 DEF Task, Tcp, Tls, Session
  <2> HIDE DEF k
  <2>4. task'.conn.settings = Settings(channel[task.ch])'
    BY <1>1, <1>2, <2>2, <2>3 DEF Settings, k
  <2>5. PhaseInv'
    BY <1>1, <2>1, <2>2, <2>3, <2>4, <2>b DEF PhaseInv, Tcp, Tls, Session, Complete
  <2> QED BY <1>4, <2>5, TaskStep DEF Reuse
<1>5. CASE Begin(ch)
  <2>1. CacheInv'
    BY <1>5 DEF Begin, Without, SetupInv, CacheInv, SettingsOf, Complete
  <2>2. \/ task' = [NoTask EXCEPT !.pc = "done", !.ch = ch, !.status = "UNAVAILABLE"]
        \/ \E d \in {"none", "ahead"}, e \in {"ETIMEDOUT", "other"}:
              task' = [NoTask EXCEPT !.pc = "resolve", !.ch = ch, !.deadline = d,
                           !.errno = e]
    BY <1>5 DEF Begin
  <2>a. PICK pc \in {"done", "resolve"}, d \in {"none", "ahead"},
             e \in {"ETIMEDOUT", "other"}, st \in {NULL, "UNAVAILABLE"}:
          task' = [pc |-> pc, ch |-> ch, deadline |-> d, left |-> 0, errno |-> e,
                   conn |-> NULL, status |-> st]
    BY <2>2 DEF NoTask
  <2>3. /\ task'.pc \in {"done", "resolve"} /\ task'.conn = NULL /\ task'.ch = ch
    BY <2>a
  <2>b. task' \in Task
    BY <2>a DEF Task, Tcp, Tls, Session
  <2>4. PhaseInv'
    BY <1>1, <2>3, <2>b DEF PhaseInv, Tcp, Tls, Session
  <2> QED BY <1>3, <2>1, <2>4 DEF SetupInv
<1> QED BY <1>4, <1>5

\* The caller returns, or the clock goes on.
LEMMA ReturnPreserves ==
    ASSUME SetupInv, Return \/ DeadlinePasses
    PROVE  SetupInv'
<1>1. CASE Return
  <2>1. task' \in Task /\ task'.pc = "idle"
    BY <1>1 DEF Return, NoTask, Task, Tcp, Tls, Session
  <2>2. PhaseInv'
    BY <2>1 DEF PhaseInv, Tcp, Tls, Session
  <2> QED BY <1>1, <2>2, TaskStep DEF Return
<1>2. CASE DeadlinePasses
  <2>1. task \in Task
    BY DEF SetupInv, PhaseInv
  <2>2. /\ task' = [task EXCEPT !.deadline = "passed"]
        /\ UNCHANGED <<credentials, channel>>
    BY <1>2 DEF DeadlinePasses
  <2>3. /\ task' \in Task /\ task'.pc = task.pc /\ task'.ch = task.ch
        /\ task'.conn = task.conn /\ task'.left = task.left
    BY <2>1, <2>2 DEF Task
  <2>4. PhaseInv'
    BY <2>2, <2>3
    DEF SetupInv, PhaseInv, Settings, Bytes, Phase, Complete
  <2> QED BY <1>2, <2>4, TaskStep DEF DeadlinePasses
<1> QED BY <1>1, <1>2

\* The loop of connect_tcp goes on, or is over.
LEMMA TryNextPreserves ==
    ASSUME SetupInv, task.pc # "idle", NEW left \in Nat,
           NEW errno \in {"ETIMEDOUT", "other"}, TryNext(left, errno),
           UNCHANGED <<default_roots, credentials, channel, cache>>
    PROVE  SetupInv'
<1>1. CASE left = 0
  BY <1>1, GiveUpPreserves DEF TryNext, ConnectFailed
<1>2. CASE left # 0
  <2>1. task \in Task /\ task.ch \in Channels /\ channel[task.ch].initialized
    BY DEF SetupInv, PhaseInv
  <2>2. task' = [task EXCEPT !.pc = "address", !.left = left, !.errno = errno]
    BY <1>2 DEF TryNext
  <2>3. /\ task' \in Task /\ task'.pc = "address" /\ task'.ch = task.ch
        /\ task'.left # 0
    BY <1>2, <2>1, <2>2 DEF Task, Tcp
  <2>4. PhaseInv'
    BY <2>1, <2>3 DEF PhaseInv, Tcp, Tls, Session
  <2> QED BY <2>4, TaskStep
<1> QED BY <1>1, <1>2

\* The steps of connect_tcp.  The connection that it ends in has the settings
\* of the channel.
LEMMA TcpPreserves ==
    ASSUME SetupInv, connect_tcp
    PROVE  SetupInv'
<1>1. /\ task \in Task /\ task.pc # "idle"
      /\ task.ch \in Channels /\ channel[task.ch].initialized
      /\ UNCHANGED <<default_roots, credentials, channel, cache>>
  BY DEF SetupInv, PhaseInv, connect_tcp, ResolveFails, Resolve, NoSocket,
         StartConnect, ConnectFails, Connect
<1>2. CASE ResolveFails
  BY <1>1, <1>2, GiveUpPreserves DEF ResolveFails, ConnectFailed
<1>3. CASE Resolve
  <2>1. CASE task.deadline = "passed"
    BY <1>1, <1>3, <2>1, GiveUpPreserves DEF Resolve, ConnectFailed
  <2>2. CASE task.deadline # "passed"
    <3>1. PICK n \in 1 .. MaxAddresses:
            task' = [task EXCEPT !.pc = "address", !.left = n]
      BY <1>3, <2>2 DEF Resolve
    <3>2. n \in Nat /\ n # 0
      BY SizeAssumption
    <3>3. /\ task' \in Task /\ task'.pc = "address" /\ task'.ch = task.ch
          /\ task'.left # 0
      BY <1>1, <3>1, <3>2 DEF Task, Tcp
    <3>4. PhaseInv'
      BY <1>1, <3>3 DEF PhaseInv, Tcp, Tls, Session
    <3> QED BY <1>1, <3>4, TaskStep
  <2> QED BY <2>1, <2>2
<1>4. CASE NoSocket
  <2>1. task.left - 1 \in Nat
    BY <1>1, <1>4 DEF SetupInv, PhaseInv, NoSocket, Task
  <2> QED BY <1>1, <1>4, <2>1, TryNextPreserves DEF NoSocket
<1>5. CASE StartConnect
  <2>1. task.left - 1 \in Nat
    BY <1>1, <1>5 DEF SetupInv, PhaseInv, StartConnect, Task
  <2>2. task' = [task EXCEPT !.pc = "connect", !.left = task.left - 1]
    BY <1>5 DEF StartConnect
  <2>3. task' \in Task /\ task'.pc = "connect" /\ task'.ch = task.ch
    BY <1>1, <2>1, <2>2 DEF Task, Tcp
  <2>4. PhaseInv'
    BY <1>1, <2>3 DEF PhaseInv, Tcp, Tls, Session
  <2> QED BY <1>1, <2>4, TaskStep
<1>6. CASE ConnectFails
  <2>1. PICK e \in {"ETIMEDOUT", "other"}:
          IF task.deadline = "passed" THEN ConnectFailed(e) ELSE TryNext(task.left, e)
    BY <1>6 DEF ConnectFails
  <2>2. task.left \in Nat
    BY <1>1 DEF Task
  <2>3. CASE task.deadline = "passed"
    BY <1>1, <2>1, <2>3, GiveUpPreserves DEF ConnectFailed
  <2>4. CASE task.deadline # "passed"
    BY <1>1, <2>1, <2>2, <2>4, TryNextPreserves
  <2> QED BY <2>3, <2>4
<1>7. CASE Connect
  <2> DEFINE c  == NewConnection(channel[task.ch])
             pc == IF c.settings.use_tls THEN "SSL_CTX_new" ELSE "set_fd_nonblocking"
  <2>1. Settings(channel[task.ch]) \in Setting
    BY <1>1, InitializedChannel DEF SetupInv
  <2>2. /\ c \in Connection /\ c.usable /\ "fd" \in c.holds
        /\ c.settings = Settings(channel[task.ch])
    BY <2>1 DEF NewConnection, Connection, Handles
  <2>3. task' = [task EXCEPT !.left = 0, !.errno = "other", !.conn = c, !.pc = pc]
    BY <1>7 DEF Connect
  <2> HIDE DEF c
  <2>4. /\ task' \in Task /\ task'.conn = c /\ task'.ch = task.ch
        /\ task'.pc = pc
    BY <1>1, <2>2, <2>3 DEF Task, Tls
  <2>5. Phase(task'.pc, c)
    BY <2>2, <2>4 DEF Phase, Tls, Session
  <2>6. Settings(channel[task.ch])' = Settings(channel[task.ch])
    BY <1>1, <2>4 DEF Settings
  <2>7. PhaseInv'
    BY <1>1, <2>2, <2>4, <2>5, <2>6 DEF PhaseInv
  <2> QED BY <1>1, <2>7, TaskStep
<1> QED BY <1>2, <1>3, <1>4, <1>5, <1>6, <1>7 DEF connect_tcp

\* A step of create_h2_connection that keeps the settings of the connection and
\* has what the next step relies on.
LEMMA StepPreserves ==
    ASSUME SetupInv,
           NEW pc \in Tls \cup Session \cup {"set_fd_nonblocking"},
           NEW next \in Tls \cup Session,
           NEW c \in Connection, Step(pc, next, c),
           c.settings = task.conn.settings, c.usable, Phase(next, c)
    PROVE  SetupInv'
<1>1. /\ task \in Task /\ task.pc # "idle"
      /\ task.ch \in Channels /\ channel[task.ch].initialized
      /\ task.conn.settings = Settings(channel[task.ch])
  BY DEF SetupInv, PhaseInv, Step, Tls, Session
<1>2. task' = [task EXCEPT !.pc = next, !.conn = c]
      /\ UNCHANGED <<default_roots, credentials, channel, cache>>
  BY DEF Step
<1>3. task' \in Task /\ task'.pc = next /\ task'.ch = task.ch /\ task'.conn = c
  BY <1>1, <1>2 DEF Task
<1>4. Settings(channel[task.ch])' = Settings(channel[task.ch])
  BY <1>2, <1>3 DEF Settings
<1>5. PhaseInv'
  BY <1>1, <1>2, <1>3, <1>4 DEF PhaseInv, Tls, Session, Phase
<1> QED BY <1>2, <1>5, TaskStep

\* What holds of the connection under way.
LEMMA UnderWay ==
    ASSUME SetupInv, task.pc \in Tls \cup Session \cup {"set_fd_nonblocking"}
    PROVE  /\ task.conn \in Connection /\ task.conn.usable
           /\ Phase(task.pc, task.conn)
           /\ task.deadline \in {"none", "ahead", "passed"}
           /\ task.pc # "idle"
BY DEF SetupInv, PhaseInv, Task, Tls, Session

\* A step that adds a handle.
LEMMA GetPreserves ==
    ASSUME SetupInv, SSL_CTX_new \/ SSL_new \/ configure_callbacks
                     \/ nghttp2_session_client_new
    PROVE  SetupInv'
<1>1. ASSUME NEW pc \in Tls \cup Session, NEW next \in Tls \cup Session,
             NEW h \in Handles, Get(pc, next, h),
             \/ pc = "SSL_CTX_new" /\ next = "configure" /\ h = "ssl_ctx"
             \/ pc = "SSL_new" /\ next = "handshake" /\ h = "ssl"
             \/ pc = "callbacks" /\ next = "session" /\ h = "callbacks"
             \/ pc = "session" /\ next = "send" /\ h = "session"
      PROVE  SetupInv'
  <2> DEFINE c == [task.conn EXCEPT !.holds = task.conn.holds \cup {h}]
  <2>1. Step(pc, next, c) /\ task.pc = pc
    BY <1>1 DEF Get, Step
  <2>2. task.conn \in Connection /\ task.conn.usable /\ Phase(pc, task.conn)
    BY <2>1, UnderWay
  <2>3. /\ c \in Connection /\ c.holds = task.conn.holds \cup {h} /\ c.usable
        /\ c.settings = task.conn.settings /\ c.nonblocking = task.conn.nonblocking
        /\ c.verified = task.conn.verified /\ c.alpn = task.conn.alpn
    BY <1>1, <2>2 DEF Connection
  <2> HIDE DEF c
  <2>4. Phase(next, c)
    BY <1>1, <2>2, <2>3 DEF Phase, Tls, Session
  <2> QED BY <1>1, <2>1, <2>3, <2>4, StepPreserves
<1>2. CASE SSL_CTX_new
  BY <1>1, <1>2 DEF SSL_CTX_new, Tls, Session, Handles
<1>3. CASE SSL_new
  BY <1>1, <1>3 DEF SSL_new, Tls, Session, Handles
<1>4. CASE configure_callbacks
  BY <1>1, <1>4 DEF configure_callbacks, Tls, Session, Handles
<1>5. CASE nghttp2_session_client_new
  BY <1>1, <1>5 DEF nghttp2_session_client_new, Tls, Session, Handles
<1> QED BY <1>2, <1>3, <1>4, <1>5

\* The other steps that succeed.  Only a peer that is verified and speaks
\* HTTP/2 is taken on to the session.
LEMMA HandshakePreserves ==
    ASSUME SetupInv, ConfigureContext \/ StartHandshake \/ SSL_connect
                     \/ VerifyPeer \/ SetNonblocking
    PROVE  SetupInv'
<1>1. CASE ConfigureContext
  <2>1. Step("configure", "SSL_new", task.conn) /\ task.pc = "configure"
    BY <1>1 DEF ConfigureContext
  <2>2. /\ task.conn \in Connection /\ task.conn.usable
        /\ Phase("configure", task.conn)
    BY <2>1, UnderWay DEF Tls
  <2>3. Phase("SSL_new", task.conn)
    BY <2>2 DEF Phase, Tls, Session
  <2> QED BY <2>1, <2>2, <2>3, StepPreserves DEF Tls
<1>2. CASE StartHandshake
  <2> DEFINE c == [task.conn EXCEPT !.nonblocking = TRUE]
  <2>1. Step("handshake", "SSL_connect", c) /\ task.pc = "handshake"
    BY <1>2 DEF StartHandshake, Step
  <2>2. /\ task.conn \in Connection /\ task.conn.usable
        /\ Phase("handshake", task.conn)
    BY <2>1, UnderWay DEF Tls
  <2>3. /\ c \in Connection /\ c.usable /\ c.nonblocking
        /\ c.settings = task.conn.settings /\ c.holds = task.conn.holds
    BY <2>2 DEF Connection
  <2> HIDE DEF c
  <2>4. Phase("SSL_connect", c)
    BY <2>2, <2>3 DEF Phase, Tls, Session
  <2> QED BY <2>1, <2>3, <2>4, StepPreserves DEF Tls
<1>3. CASE SSL_connect
  <2>1. PICK v \in BOOLEAN, a \in {"h2", "other", NULL}:
          Step("SSL_connect", "verify", [task.conn EXCEPT !.verified = v, !.alpn = a])
    BY <1>3 DEF SSL_connect
  <2> DEFINE c == [task.conn EXCEPT !.verified = v, !.alpn = a]
  <2>2. task.pc = "SSL_connect"
    BY <2>1 DEF Step
  <2>3. /\ task.conn \in Connection /\ task.conn.usable
        /\ Phase("SSL_connect", task.conn)
    BY <2>2, UnderWay DEF Tls
  <2>4. /\ c \in Connection /\ c.usable /\ c.nonblocking = task.conn.nonblocking
        /\ c.settings = task.conn.settings /\ c.holds = task.conn.holds
    BY <2>3 DEF Connection
  <2> HIDE DEF c
  <2>5. Phase("verify", c)
    BY <2>3, <2>4 DEF Phase, Tls, Session
  <2> QED BY <2>1, <2>4, <2>5, StepPreserves DEF Tls, c
<1>4. CASE VerifyPeer
  <2> DEFINE c == [task.conn EXCEPT !.setup_deadline = task.deadline]
  <2>1. /\ Step("verify", "callbacks", c) /\ task.pc = "verify"
        /\ task.conn.verified /\ task.conn.alpn = "h2"
    BY <1>4 DEF VerifyPeer, Accepted
  <2>2. /\ task.conn \in Connection /\ task.conn.usable
        /\ Phase("verify", task.conn) /\ task.deadline \in {"none", "ahead", "passed"}
    BY <2>1, UnderWay DEF Tls
  <2>3. /\ c \in Connection /\ c.usable /\ c.nonblocking = task.conn.nonblocking
        /\ c.settings = task.conn.settings /\ c.holds = task.conn.holds
        /\ c.verified = task.conn.verified /\ c.alpn = task.conn.alpn
    BY <2>2 DEF Connection
  <2> HIDE DEF c
  <2>4. Phase("callbacks", c)
    BY <2>1, <2>2, <2>3 DEF Phase, Tls, Session
  <2> QED BY <2>1, <2>3, <2>4, StepPreserves DEF Tls, Session
<1>5. CASE SetNonblocking
  <2> DEFINE c == [task.conn EXCEPT !.nonblocking = TRUE,
                                    !.setup_deadline = task.deadline]
  <2>1. Step("set_fd_nonblocking", "callbacks", c) /\ task.pc = "set_fd_nonblocking"
    BY <1>5 DEF SetNonblocking, Step
  <2>2. /\ task.conn \in Connection /\ task.conn.usable
        /\ Phase("set_fd_nonblocking", task.conn)
        /\ task.deadline \in {"none", "ahead", "passed"}
    BY <2>1, UnderWay
  <2>3. /\ c \in Connection /\ c.usable /\ c.nonblocking
        /\ c.settings = task.conn.settings /\ c.holds = task.conn.holds
    BY <2>2 DEF Connection
  <2> HIDE DEF c
  <2>4. Phase("callbacks", c)
    BY <2>2, <2>3 DEF Phase, Tls, Session
  <2> QED BY <2>1, <2>3, <2>4, StepPreserves DEF Session
<1> QED BY <1>1, <1>2, <1>3, <1>4, <1>5

\* Every error of create_h2_connection.
LEMMA FailPreserves ==
    ASSUME SetupInv, StepFails \/ HandshakeTimesOut \/ PeerRefused
    PROVE  SetupInv'
<1>1. PICK message \in {"other", "deadline", "TLS verification or ALPN"}:
        Fail(message)
  BY DEF StepFails, HandshakeTimesOut, PeerRefused
<1>2. task.pc # "idle"
  BY DEF StepFails, HandshakeTimesOut, PeerRefused
<1> QED BY <1>1, <1>2, GiveUpPreserves DEF Fail

\* A connection that is set up is cached under the key whose settings it has.
LEMMA FinishPreserves ==
    ASSUME SetupInv, Finish
    PROVE  SetupInv'
<1> DEFINE c == [task.conn EXCEPT !.setup_deadline = "none"]
           k == channel[task.ch].connection_key
<1>1. /\ task.pc = "send"
      /\ task' = [NoTask EXCEPT !.pc = "done", !.ch = task.ch, !.conn = c,
                     !.status = "OK"]
      /\ cache' = [x \in DOMAIN cache \cup {k} |->
                      IF x \in DOMAIN cache THEN cache[x] ELSE c]
      /\ UNCHANGED <<default_roots, credentials, channel>>
  BY DEF Finish, Serve
<1>2. /\ task.conn \in Connection /\ task.conn.usable /\ Phase("send", task.conn)
      /\ task.ch \in Channels /\ channel[task.ch].initialized
      /\ task.conn.settings = Settings(channel[task.ch])
  BY <1>1 DEF SetupInv, PhaseInv, Session
<1>3. /\ c \in Connection /\ c.usable /\ c.nonblocking = task.conn.nonblocking
      /\ c.settings = task.conn.settings /\ c.holds = task.conn.holds
      /\ c.verified = task.conn.verified /\ c.alpn = task.conn.alpn
      /\ c.setup_deadline = "none"
  BY <1>2 DEF Connection
<1>4. c.settings = SettingsOf(k)
  BY <1>2, <1>3, InitializedChannel DEF SetupInv
<1> HIDE DEF c, k
<1>5. Complete(c)
  BY <1>2, <1>3 DEF Phase, Complete, Tls, Session
<1>6. SurfaceInv'
  BY <1>1, SurfaceStays DEF SetupInv
<1>7. CacheInv'
  <2>1. ASSUME NEW x \in DOMAIN cache'
        PROVE  /\ cache'[x] \in Connection
               /\ cache'[x].settings = SettingsOf(x)
               /\ Complete(cache'[x])
    BY <1>1, <1>3, <1>4, <1>5, <2>1 DEF SetupInv, CacheInv
  <2> QED BY <2>1 DEF CacheInv, SettingsOf, Complete
<1>8. PhaseInv'
  <2>1. task' = [pc |-> "done", ch |-> task.ch, deadline |-> "none", left |-> 0,
                 errno |-> "other", conn |-> c, status |-> "OK"]
    BY <1>1 DEF NoTask
  <2>2. task'.pc = "done" /\ task'.conn = c /\ task'.ch = task.ch
    BY <2>1
  <2>3. task' \in Task
    BY <1>2, <1>3, <2>1 DEF Task, Tcp, Tls, Session
  <2>4. Settings(channel[task.ch])' = c.settings
    BY <1>1, <1>2, <1>3, <2>2 DEF Settings
  <2> QED BY <1>1, <1>2, <1>3, <1>5, <2>2, <2>3, <2>4
          DEF PhaseInv, Tcp, Tls, Session, Complete
<1> QED BY <1>6, <1>7, <1>8 DEF SetupInv

-----------------------------------------------------------------------------
(* The theorems.                                                           *)

\* SetupInv is an inductive invariant of the whole specification.
THEOREM SetupInvariant == Spec => []SetupInv
<1>1. Init => SetupInv
  <2> SUFFICES ASSUME Init PROVE SetupInv
    OBVIOUS
  <2>1. SurfaceInv
    BY DEF Init, SurfaceInv, Strings, Cleared
  <2>2. CacheInv
    BY DEF Init, CacheInv
  <2>3. PhaseInv
    BY DEF Init, PhaseInv, NoTask, Task, Tcp, Tls, Session
  <2> QED BY <2>1, <2>2, <2>3 DEF SetupInv
<1>2. SetupInv /\ [Next]_vars => SetupInv'
  <2> SUFFICES ASSUME SetupInv, [Next]_vars PROVE SetupInv'
    OBVIOUS
  <2>1. CASE Surface
    <3>1. ASSUME NEW o \in CredObjects,
                 createInsecure(o) \/ createDefault(o) \/ createSsl(o)
          PROVE  SetupInv'
      <4> DEFINE Arguments == [root_certs: Strings, private_key: Strings,
                               cert_chain: Strings]
      <4>1. NoArguments \in Arguments
        BY DEF NoArguments, Strings
      <4>2. PICK type \in {"insecure", "ssl", "default"}, args \in Arguments:
              grpc_lite_channel_credentials_init(o, type, args)
        BY <3>1, <4>1, ArgumentAssumption
        DEF createInsecure, createDefault, createSsl
      <4> QED BY <4>2, CreatePreserves
    <3>2. ASSUME NEW ch \in Channels, NEW o \in CredObjects, ConstructChannel(ch, o)
          PROVE  SetupInv'
      BY <3>2, ConstructPreserves
    <3> QED BY <2>1, <3>1, <3>2, SurfacePreserves, LookupPreserves DEF Surface
  <2>2. CASE connect_tcp
    BY <2>2, TcpPreserves
  <2>3. CASE configure_tls_connection
    BY <2>3, GetPreserves, HandshakePreserves, FailPreserves
    DEF configure_tls_connection
  <2>4. CASE SetNonblocking
    BY <2>4, HandshakePreserves
  <2>5. CASE configure_callbacks \/ nghttp2_session_client_new
    BY <2>5, GetPreserves
  <2>6. CASE Finish
    BY <2>6, FinishPreserves
  <2>7. CASE StepFails
    BY <2>7, FailPreserves
  <2>8. CASE Return \/ DeadlinePasses
    BY <2>8, ReturnPreserves
  <2>9. CASE UNCHANGED vars
    <3>1. /\ task' = task
          /\ UNCHANGED <<default_roots, credentials, channel, cache>>
      BY <2>9 DEF vars
    <3>2. PhaseInv'
      <4>1. Settings(channel[task.ch])' = Settings(channel[task.ch])
        BY <3>1, SMTT(30) DEF Settings
      <4>2. Phase(task.pc, task.conn)' = Phase(task.pc, task.conn)
        BY <3>1
      <4>3. Complete(task.conn)' = Complete(task.conn)
        BY <3>1
      <4> QED BY <3>1, <4>1, <4>2, <4>3 DEF SetupInv, PhaseInv
    <3> QED BY <3>1, <3>2, TaskStep
  <2> QED BY <2>1, <2>2, <2>3, <2>4, <2>5, <2>6, <2>7, <2>8, <2>9 DEF Next
<1> QED BY <1>1, <1>2, PTL DEF Spec

\* A call never gets a connection that was set up with other settings than its
\* channel's (get_persistent_connection, grpc_lite_build_connection_key).
THEOREM SettingsAlwaysMatch == Spec => []SettingsMatch
<1>1. SetupInv => SettingsMatch
  BY DEF SetupInv, PhaseInv, SettingsMatch
<1> QED BY <1>1, SetupInvariant, PTL

\* A connection that a call gets is set up completely: nonblocking, with a
\* session and no deadline left over, and with a verified HTTP/2 peer if it is
\* a TLS connection (create_h2_connection, configure_tls_connection).
THEOREM AlwaysServedReady == Spec => []ServedReady
<1>1. SetupInv => ServedReady
  BY DEF SetupInv, PhaseInv, ServedReady, Ready, Complete
<1> QED BY <1>1, SetupInvariant, PTL

=============================================================================
