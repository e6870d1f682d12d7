-------------------------- MODULE ConnectionSetup --------------------------
(***************************************************************************)
(* From ChannelCredentials and Channel objects to a connection: what a     *)
(* channel stores, the key under which its connection is cached, and how   *)
(* get_persistent_connection sets a new one up: getaddrinfo, one socket    *)
(* per address, TLS, the nghttp2 session and its first frames, with every  *)
(* way in which a step can fail.                                           *)
(*                                                                         *)
(* Setting up is one blocking call of PHP; its steps are separate because  *)
(* the deadline may pass between any two.  A host stands for host and      *)
(* port, PEM texts and names are model values, and a digest is the text it *)
(* is taken of (SHA-256 is assumed not to collide).  No call is open on a  *)
(* connection that is evicted here: the owners of a connection, and the    *)
(* ones a detached connection outlives, are those of ConnectionOwnership.  *)
(***************************************************************************)
EXTENDS Naturals, FiniteSets

CONSTANTS
    Channels,       \* Grpc\Channel objects
    CredObjects,    \* Grpc\ChannelCredentials objects
    Texts,          \* names and PEM texts other than the empty one
    NULL,           \* a string that is not given
    EMPTY,          \* the empty string
    SslArguments,   \* what createSsl is called with
    ChannelOptions, \* what Channel::__construct is called with
    MaxCached,      \* GRPC_LITE_MAX_PERSISTENT_CONNECTIONS
    MaxAddresses    \* how many addresses getaddrinfo returns at most

Strings == Texts \cup {NULL, EMPTY}

\* valid: the port parses, the options have their types and ranges, and
\* validate_channel_inputs accepts host, authority and verification name.
ASSUME ArgumentAssumption ==
    /\ NULL # EMPTY /\ Texts \cap {NULL, EMPTY} = {}
    /\ SslArguments \subseteq
           [root_certs: Strings, private_key: Strings, cert_chain: Strings]
    /\ ChannelOptions \subseteq
           [host: Texts, authority: Strings, tls_verify_name: Strings,
            valid: BOOLEAN]

ASSUME SizeAssumption == MaxCached \in Nat \ {0} /\ MaxAddresses \in Nat \ {0}

VARIABLES
    default_roots,  \* PHP_GRPC_LITE_G(default_roots_pem)
    credentials,    \* per object: its fields, NULL before it is created
    channel,        \* per object: the fields of grpc_lite_channel_obj
    cache,          \* PHP_GRPC_LITE_G(persistent_connections): key to connection
    open,           \* per kind of handle: how many the process holds
    task            \* the get_persistent_connection PHP is in, and its outcome

vars == <<default_roots, credentials, channel, cache, open, task>>

\* What a connection may hold of the operating system and the libraries.
Handles == {"fd", "ssl_ctx", "ssl", "callbacks", "session"}

\* What create_h2_connection takes from a channel.
Setting ==
    [host: Texts, authority: Strings, use_tls: BOOLEAN, verify_name: Strings,
     roots: Strings, cert_chain: Strings, private_key: Strings]

\* The fields of h2_connection that its setup fills in.
Connection ==
    [settings: Setting, holds: SUBSET Handles, nonblocking: BOOLEAN,
     verified: BOOLEAN, alpn: {"h2", "other", NULL},
     setup_deadline: {"none", "ahead", "passed"}, usable: BOOLEAN]

ASSUME NullAssumption == NULL \notin Connection

NoTask ==
    [pc |-> "idle", ch |-> NULL, deadline |-> "none", left |-> 0,
     errno |-> "other", conn |-> NULL, status |-> NULL]

\* PHP runs the methods of the surface one at a time.
Idle == task.pc = "idle"

-----------------------------------------------------------------------------
(* ChannelCredentials.                                                     *)

\* grpc_lite_channel_credentials_init: roots that are not given are copied
\* from the default when the object is created.
InitialRoots(type, roots) ==
    IF roots = NULL /\ type \in {"ssl", "default"} THEN default_roots ELSE roots

grpc_lite_channel_credentials_init(o, type, args) ==
    /\ Idle
    /\ credentials[o] = NULL
    /\ credentials' = [credentials EXCEPT ![o] =
            [type |-> type, root_certs |-> InitialRoots(type, args.root_certs),
             private_key |-> args.private_key, cert_chain |-> args.cert_chain]]
    /\ UNCHANGED <<default_roots, channel, cache, open, task>>

NoArguments ==
    [root_certs |-> NULL, private_key |-> NULL, cert_chain |-> NULL]

createInsecure(o) ==
    grpc_lite_channel_credentials_init(o, "insecure", NoArguments)

createDefault(o) ==
    grpc_lite_channel_credentials_init(o, "default", NoArguments)

createSsl(o) ==
    \E args \in SslArguments: grpc_lite_channel_credentials_init(o, "ssl", args)

\* setDefaultRootsPem and invalidateDefaultRootsPem: later objects see it.
SetDefaultRoots ==
    /\ Idle
    /\ default_roots' \in {args.root_certs: args \in SslArguments} \cup {NULL}
    /\ default_roots' # default_roots
    /\ UNCHANGED <<credentials, channel, cache, open, task>>

-----------------------------------------------------------------------------
(* Channel.                                                                *)

\* grpc_lite_channel_clear_fields
Cleared ==
    [initialized |-> FALSE, host |-> NULL, authority |-> NULL,
     tls_verify_name |-> NULL, credentials |-> NULL, connection_key |-> NULL]

\* A string that is not given has the length and the bytes of an empty one.
Bytes(text) == IF text = NULL THEN EMPTY ELSE text

MutantBuildConnectionKeyWithoutRoots(c) ==
    LET cred == credentials[c.credentials] IN
    [host |-> c.host, authority |-> Bytes(c.authority),
     tls_verify_name |-> Bytes(c.tls_verify_name), type |-> cred.type,
     cert_chain |-> Bytes(cred.cert_chain),
     private_key |-> Bytes(cred.private_key)]

\* The digest is over the length and the text of every field, and over the
\* lengths and digests of the three PEM texts.
grpc_lite_build_connection_key(c) ==
    LET cred == credentials[c.credentials] IN
    [host |-> c.host, authority |-> Bytes(c.authority),
     tls_verify_name |-> Bytes(c.tls_verify_name), type |-> cred.type,
     root_certs |-> Bytes(cred.root_certs),
     cert_chain |-> Bytes(cred.cert_chain),
     private_key |-> Bytes(cred.private_key)]

MutantConstructedDespiteError(fields, valid) ==
    IF valid THEN [fields EXCEPT !.initialized = TRUE,
                       !.connection_key = grpc_lite_build_connection_key(fields)]
             ELSE fields

\* The object when Channel::__construct is over: an error clears what was
\* stored before it, and the key is built last.
Constructed(fields, valid) ==
    IF valid THEN [fields EXCEPT !.initialized = TRUE,
                       !.connection_key = grpc_lite_build_connection_key(fields)]
             ELSE Cleared

\* A constructor that threw may be called again.  On an initialized channel it
\* throws and changes nothing.
ConstructChannel(ch, o) ==
    /\ Idle
    /\ ~channel[ch].initialized
    /\ credentials[o] # NULL
    /\ \E opts \in ChannelOptions:
        LET fields == [Cleared EXCEPT
                          !.host = opts.host, !.authority = opts.authority,
                          !.tls_verify_name = opts.tls_verify_name,
                          !.credentials = o]
        IN  channel' = [channel EXCEPT ![ch] = Constructed(fields, opts.valid)]
    /\ UNCHANGED <<default_roots, credentials, cache, open, task>>

\* grpc_lite_channel_free_object: the connection stays cached.
FreeChannel(ch) ==
    /\ Idle
    /\ channel[ch].initialized
    /\ channel' = [channel EXCEPT ![ch] = Cleared]
    /\ UNCHANGED <<default_roots, credentials, cache, open, task>>

-----------------------------------------------------------------------------
(* Connections.                                                            *)

\* What create_h2_connection and configure_tls_connection take from a channel.
\* Empty roots are the default paths of OpenSSL.
Settings(c) ==
    LET cred == credentials[c.credentials] IN
    [host |-> c.host,
     authority |-> IF Bytes(c.authority) = EMPTY THEN c.host ELSE c.authority,
     use_tls |-> cred.type # "insecure",
     verify_name |-> IF Bytes(c.tls_verify_name) = EMPTY
                     THEN c.host ELSE c.tls_verify_name,
     roots |-> Bytes(cred.root_certs), cert_chain |-> Bytes(cred.cert_chain),
     private_key |-> Bytes(cred.private_key)]

\* The object that create_h2_connection allocates, with the socket that
\* connect_tcp has made blocking again.
NewConnection(c) ==
    [settings |-> Settings(c), holds |-> {"fd"}, nonblocking |-> FALSE,
     verified |-> FALSE, alpn |-> NULL, setup_deadline |-> "none",
     usable |-> TRUE]

\* The handles that are left once the connection is destroyed.
destroy_h2_connection(c) ==
    [h \in Handles |-> IF h \in c.holds THEN open[h] - 1 ELSE open[h]]

Without(k) == [x \in DOMAIN cache \ {k} |-> cache[x]]

CachedUnder(k) == IF k \in DOMAIN cache THEN cache[k] ELSE NULL

\* Channel::close, through discard_persistent_connection.
Close(ch) ==
    /\ Idle
    /\ channel[ch].initialized
    /\ LET k == channel[ch].connection_key IN
        /\ k \in DOMAIN cache
        /\ cache' = Without(k)
        /\ open' = destroy_h2_connection(cache[k])
    /\ UNCHANGED <<default_roots, credentials, channel, task>>

\* A call ends the connection, or the peer does and preflight will notice.
ConnectionBreaks ==
    /\ Idle
    /\ \E k \in DOMAIN cache:
        /\ cache[k].usable
        /\ cache' = [cache EXCEPT ![k].usable = FALSE]
    /\ UNCHANGED <<default_roots, credentials, channel, open, task>>

-----------------------------------------------------------------------------
(* get_persistent_connection: its outcome is task with pc "done".          *)

Serve(ch, c) ==
    task' = [NoTask EXCEPT !.pc = "done", !.ch = ch, !.conn = c, !.status = "OK"]

\* The caller reads the clock once more to choose the status.
GiveUp(message) ==
    task' = [NoTask EXCEPT !.pc = "done", !.ch = task.ch, !.status =
        IF task.deadline = "passed" \/ message = "deadline"
        THEN "DEADLINE_EXCEEDED" ELSE "UNAVAILABLE"]

\* A cached connection that is usable and passes preflight.
Reuse(ch) ==
    LET c == CachedUnder(channel[ch].connection_key) IN
    /\ Idle
    /\ channel[ch].initialized
    /\ c # NULL /\ c.usable
    /\ Serve(ch, c)
    /\ UNCHANGED <<default_roots, credentials, channel, cache, open>>

\* None is cached, or one that is evicted.  errno is what earlier calls left.
Begin(ch) ==
    LET k == channel[ch].connection_key
        c == CachedUnder(k)
    IN
    /\ Idle
    /\ channel[ch].initialized
    /\ c # NULL => ~c.usable
    /\ cache' = Without(k)
    /\ open' = IF c = NULL THEN open ELSE destroy_h2_connection(c)
    /\ IF Cardinality(DOMAIN cache') >= MaxCached
       THEN task' = [NoTask EXCEPT !.pc = "done", !.ch = ch,
                         !.status = "UNAVAILABLE"]
       ELSE \E d \in {"none", "ahead"}, e \in {"ETIMEDOUT", "other"}:
            task' = [NoTask EXCEPT !.pc = "resolve", !.ch = ch, !.deadline = d,
                         !.errno = e]
    /\ UNCHANGED <<default_roots, credentials, channel>>

\* The call goes on with the connection, or fails with the status.
Return ==
    /\ task.pc = "done"
    /\ task' = NoTask
    /\ UNCHANGED <<default_roots, credentials, channel, cache, open>>

DeadlinePasses ==
    /\ task.deadline = "ahead"
    /\ task' = [task EXCEPT !.deadline = "passed"]
    /\ UNCHANGED <<default_roots, credentials, channel, cache, open>>

-----------------------------------------------------------------------------
(* connect_tcp.  Its caller learns only from errno why it returned -1.     *)

ConnectFailed(errno) ==
    GiveUp(IF errno = "ETIMEDOUT" THEN "deadline" ELSE "failed to connect")

\* getaddrinfo does not set errno when it fails.
ResolveFails ==
    /\ task.pc = "resolve"
    /\ ConnectFailed(task.errno)
    /\ UNCHANGED <<default_roots, credentials, channel, cache, open>>

Resolve ==
    /\ task.pc = "resolve"
    /\ IF task.deadline = "passed"
       THEN ConnectFailed("ETIMEDOUT")
       ELSE \E n \in 1 .. MaxAddresses:
            task' = [task EXCEPT !.pc = "address", !.left = n]
    /\ UNCHANGED <<default_roots, credentials, channel, cache, open>>

\* The loop goes on with the addresses that are left, or is over.
TryNext(left, errno) ==
    IF left = 0
    THEN ConnectFailed(errno)
    ELSE task' = [task EXCEPT !.pc = "address", !.left = left, !.errno = errno]

\* socket fails, or fcntl does and the new socket is closed.
NoSocket ==
    /\ task.pc = "address"
    /\ TryNext(task.left - 1, "other")
    /\ UNCHANGED <<default_roots, credentials, channel, cache, open>>

StartConnect ==
    /\ task.pc = "address"
    /\ open' = [open EXCEPT !["fd"] = @ + 1]
    /\ task' = [task EXCEPT !.pc = "connect", !.left = @ - 1]
    /\ UNCHANGED <<default_roots, credentials, channel, cache>>

MutantCloseSocket == IF task.deadline = "passed" THEN open
                     ELSE [open EXCEPT !["fd"] = @ - 1]

\* The socket of an address that failed is closed, whether or not another
\* address is tried.
CloseSocket == [open EXCEPT !["fd"] = @ - 1]

\* connect, poll or SO_ERROR report an error, which the kernel's own timeout
\* of the handshake may be.
ConnectFails ==
    /\ task.pc = "connect"
    /\ open' = CloseSocket
    /\ \E e \in {"ETIMEDOUT", "other"}:
        IF task.deadline = "passed" THEN ConnectFailed(e) ELSE TryNext(task.left, e)
    /\ UNCHANGED <<default_roots, credentials, channel, cache>>

Connect ==
    /\ task.pc = "connect"
    /\ LET c == NewConnection(channel[task.ch]) IN
        task' = [task EXCEPT !.left = 0, !.errno = "other", !.conn = c,
                    !.pc = IF c.settings.use_tls THEN "SSL_CTX_new"
                                                 ELSE "set_fd_nonblocking"]
    /\ UNCHANGED <<default_roots, credentials, channel, cache, open>>

-----------------------------------------------------------------------------
(* create_h2_connection once the socket is connected.                      *)

\* Every error destroys the connection with all it holds by then.
Fail(message) ==
    /\ open' = destroy_h2_connection(task.conn)
    /\ GiveUp(message)
    /\ UNCHANGED <<default_roots, credentials, channel, cache>>

\* A step that may be done: the connection is changed, and may get a handle.
Step(pc, next, c) ==
    /\ task.pc = pc
    /\ task' = [task EXCEPT !.pc = next, !.conn = c]
    /\ UNCHANGED <<default_roots, credentials, channel, cache>>

Get(pc, next, h) ==
    /\ Step(pc, next, [task.conn EXCEPT !.holds = @ \cup {h}])
    /\ open' = [open EXCEPT ![h] = @ + 1]

SSL_CTX_new == Get("SSL_CTX_new", "configure", "ssl_ctx")

\* Roots, chain and key parse, and a chain comes with its key.
ConfigureContext ==
    LET s == task.conn.settings IN
    /\ task.pc = "configure"
    /\ (s.cert_chain = EMPTY) = (s.private_key = EMPTY)
    /\ Step("configure", "SSL_new", task.conn)
    /\ UNCHANGED open

SSL_new == Get("SSL_new", "handshake", "ssl")

\* ALPN, peer name and socket are attached, and the socket is nonblocking.
StartHandshake ==
    /\ Step("handshake", "SSL_connect", [task.conn EXCEPT !.nonblocking = TRUE])
    /\ UNCHANGED open

\* SSL_connect has returned 1.
SSL_connect ==
    /\ \E verified \in BOOLEAN, alpn \in {"h2", "other", NULL}:
        Step("SSL_connect", "verify",
             [task.conn EXCEPT !.verified = verified, !.alpn = alpn])
    /\ UNCHANGED open

\* poll_fd_until_deadline has run out of time.
HandshakeTimesOut ==
    /\ task.pc = "SSL_connect"
    /\ task.deadline = "passed"
    /\ Fail("deadline")

MutantAccepted(c) == c.verified

\* The verification result and the protocol are checked after the handshake.
Accepted(c) == c.verified /\ c.alpn = "h2"

VerifyPeer ==
    /\ task.pc = "verify"
    /\ Accepted(task.conn)
    /\ Step("verify", "callbacks", [task.conn EXCEPT !.setup_deadline = task.deadline])
    /\ UNCHANGED open

PeerRefused ==
    /\ task.pc = "verify"
    /\ ~Accepted(task.conn)
    /\ Fail("TLS verification or ALPN")

SetNonblocking ==
    /\ Step("set_fd_nonblocking", "callbacks",
            [task.conn EXCEPT !.nonblocking = TRUE, !.setup_deadline = task.deadline])
    /\ UNCHANGED open

configure_callbacks == Get("callbacks", "session", "callbacks")

nghttp2_session_client_new == Get("session", "send", "session")

\* SETTINGS and the window update are submitted and sent, the setup deadline
\* is cleared and the connection is cached.
Finish ==
    LET c == [task.conn EXCEPT !.setup_deadline = "none"] IN
    /\ task.pc = "send"
    /\ cache' = [k \in DOMAIN cache \cup {channel[task.ch].connection_key} |->
                    IF k \in DOMAIN cache THEN cache[k] ELSE c]
    /\ Serve(task.ch, c)
    /\ UNCHANGED <<default_roots, credentials, channel, open>>

\* Any of these steps may fail.  A write that times out says so in
\* current_write_timed_out, which create_h2_connection does not read.
StepFails ==
    /\ task.pc \in {"SSL_CTX_new", "configure", "SSL_new", "handshake",
                    "SSL_connect", "set_fd_nonblocking", "callbacks", "session",
                    "send"}
    /\ Fail("other")

-----------------------------------------------------------------------------
(* The specification.                                                      *)

Init ==
    /\ default_roots = NULL
    /\ credentials = [o \in CredObjects |-> NULL]
    /\ channel = [ch \in Channels |-> Cleared]
    /\ cache = [k \in {} |-> NULL]
    /\ open = [h \in Handles |-> 0]
    /\ task = NoTask

Surface ==
    \/ \E o \in CredObjects: createInsecure(o) \/ createDefault(o) \/ createSsl(o)
    \/ SetDefaultRoots
    \/ \E ch \in Channels, o \in CredObjects: ConstructChannel(ch, o)
    \/ \E ch \in Channels: FreeChannel(ch) \/ Close(ch) \/ Reuse(ch) \/ Begin(ch)
    \/ ConnectionBreaks

connect_tcp ==
    \/ ResolveFails \/ Resolve \/ NoSocket \/ StartConnect \/ ConnectFails
    \/ Connect

configure_tls_connection ==
    \/ SSL_CTX_new \/ ConfigureContext \/ SSL_new \/ StartHandshake
    \/ SSL_connect \/ HandshakeTimesOut \/ VerifyPeer \/ PeerRefused

Next ==
    \/ Surface
    \/ connect_tcp
    \/ configure_tls_connection
    \/ SetNonblocking
    \/ configure_callbacks
    \/ nghttp2_session_client_new
    \/ Finish
    \/ StepFails
    \/ Return
    \/ DeadlinePasses

Spec == Init /\ [][Next]_vars

-----------------------------------------------------------------------------
(* Properties.                                                             *)

\* What belongs to the connection that is being set up or was just handed out.
Building == task.pc \notin {"idle", "done"} /\ task.conn # NULL

Ready(c) ==
    /\ c.usable
    /\ c.nonblocking
    /\ c.setup_deadline = "none"
    /\ {"fd", "callbacks", "session"} \subseteq c.holds
    /\ c.settings.use_tls =>
        {"ssl_ctx", "ssl"} \subseteq c.holds /\ c.verified /\ c.alpn = "h2"

\* Types.  A channel whose constructor threw has no field left of it, and one
\* that is initialized has a key, so that close, Call::__construct and the
\* calls find both or neither (surface.c:477, :552).
TypeOK ==
    /\ default_roots \in Strings
    /\ \A o \in CredObjects:
        credentials[o] # NULL =>
            credentials[o] \in [type: {"insecure", "ssl", "default"},
                root_certs: Strings, private_key: Strings, cert_chain: Strings]
    /\ \A ch \in Channels:
        IF channel[ch].initialized
        THEN channel[ch].connection_key = grpc_lite_build_connection_key(channel[ch])
        ELSE channel[ch] = Cleared
    /\ Cardinality(DOMAIN cache) <= MaxCached
    /\ open \in [Handles -> Nat]

\* A call never travels on a connection that was set up with other settings
\* than its channel's: same host, authority, TLS or not, verification name,
\* trust roots, chain and key, although the cache is shared by all channels,
\* channels are freed and the default roots change (surface.c:402).
SettingsMatch ==
    task.pc = "done" /\ task.conn # NULL =>
        task.conn.settings = Settings(channel[task.ch])

\* Whatever step fails, and whenever the deadline passes, the process holds
\* just the handles of the cached connections and of the one under way
\* (transport.c:1707 to :1775, :1931, destroy_h2_connection).
NoHandleLeak ==
    \A h \in Handles:
        open[h] =
            Cardinality({k \in DOMAIN cache: h \in cache[k].holds})
            + (IF \/ Building /\ h \in task.conn.holds
                  \/ task.pc = "connect" /\ h = "fd"
               THEN 1 ELSE 0)

\* A connection that a call is given is fit for it: not dead, nonblocking, with
\* a session, without a deadline left of its set-up, and, if the credentials
\* ask for TLS, with a verified peer and HTTP/2 negotiated (transport.c:1412,
\* :1420, :1783, :1803).
ServedReady ==
    task.pc = "done" /\ task.conn # NULL => Ready(task.conn)

=============================================================================
