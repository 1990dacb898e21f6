---------------------------- MODULE ServeSurfaces ----------------------------
(***************************************************************************)
(* vex serve (src/server.rs, server/util.rs, server/http.rs,               *)
(* server/socket.rs): the configuration is resolved, an HTTP and a Unix    *)
(* surface are bound, every HTTP request passes authorisation and the      *)
(* rate limiter, and Ctrl-C or the failure of one surface stops both.      *)
(*                                                                         *)
(* The process may be killed at any time; it leaves the socket file        *)
(* behind.  axum, hyper and the governor are modelled by what this code    *)
(* asks of them: graceful shutdown waits for open connections, a plain     *)
(* connection is dropped by the select on the token, a full bucket is      *)
(* refused and a bucket refills with time.                                 *)
(***************************************************************************)
EXTENDS Integers, FiniteSets

CONSTANTS Configs,      \* the configurations to try
          Burst,        \* LOCAL_API_RATE_LIMIT_BURST
          MaxStarts     \* bound: starts of the process

ASSUME SurfaceAssumption == Burst \in Nat /\ MaxStarts \in Nat

VARIABLES config,   \* the api section in effect
          process,  \* down, resolved, serving, stopping, exited, refused
          http,     \* HTTP surface: off, bound, done, error
          unix,     \* Unix surface: off, bound, done, error
          socket,   \* the file at the socket path: absent, socket, other
          conns,    \* open connections of a surface that never end by themselves
          bucket,   \* requests left to each key of the limiter
          last,     \* the last HTTP request and its answer
          shutdown, \* the cancellation token
          starts

surfaceVars == <<config, process, http, unix, socket, conns, bucket, last, shutdown, starts>>

NoRequestYet == [auth |-> "none", answer |-> "none"]
Keys == {"ip", "header"}
Full == [k \in Keys |-> Burst]

SurfaceInit ==
    /\ config \in Configs
    /\ process = "down" /\ http = "off" /\ unix = "off" /\ socket \in {"absent", "other"}
    /\ conns = {} /\ bucket = Full /\ last = NoRequestYet /\ shutdown = FALSE /\ starts = 0

(***************************************************************************)
(* resolve_serve_config: which surfaces there are, or an error.            *)
(***************************************************************************)
\* host: an address, the name localhost or another name; resolves: what the name stands for
IsStrictLoopbackHost(c) ==
    CASE c.host = "loopback" -> TRUE
      [] c.host = "localhost" -> c.resolves = "loopback"
      [] OTHER -> FALSE

HostError(c) == c.host = "localhost" /\ c.resolves = "nothing"

\* Mutant: TLS is left off whenever a file is missing.
TlsConfig_Lenient(c) ==
    IF c.cert = "good" /\ c.key = "good" THEN "on" ELSE "off"

TlsConfig(c) ==
    LET requested == c.cert # "absent" \/ c.key # "absent"
    IN  CASE c.ca = "bad" -> "error"
          [] c.ca # "bad" /\ ~requested ->
               IF IsStrictLoopbackHost(c) THEN "off" ELSE "error"
          [] c.ca # "bad" /\ requested ->
               IF c.cert = "good" /\ c.key = "good" THEN "on" ELSE "error"

HttpEnabled(c) == c.transport \in {"http", "both"}
UnixEnabled(c) == c.transport \in {"unix", "both"}

Resolves(c) ==
    /\ ~c.skipVerify /\ ~c.vpnTrust
    /\ HttpEnabled(c) => c.token = "set" /\ ~HostError(c) /\ TlsConfig(c) # "error"

Start ==
    /\ process \in {"down", "exited", "killed"} /\ starts < MaxStarts
    /\ starts' = starts + 1
    /\ process' = IF Resolves(config) THEN "resolved" ELSE "refused"
    /\ http' = IF Resolves(config) /\ HttpEnabled(config) THEN "starting" ELSE "off"
    /\ unix' = IF Resolves(config) /\ UnixEnabled(config) THEN "starting" ELSE "off"
    /\ conns' = {} /\ bucket' = Full /\ last' = NoRequestYet /\ shutdown' = FALSE
    /\ UNCHANGED <<config, socket>>

(***************************************************************************)
(* run_http_surface and run_unix_surface.                                  *)
(***************************************************************************)
BindHttp ==
    /\ process = "resolved" /\ http = "starting"
    /\ http' \in {"bound", "error"}
    /\ UNCHANGED <<config, process, unix, socket, conns, bucket, last, shutdown, starts>>

BindUnix ==
    /\ process = "resolved" /\ unix = "starting"
    /\ IF socket = "other" THEN unix' = "error" /\ UNCHANGED socket
       ELSE unix' = "bound" /\ socket' = "socket"
    /\ UNCHANGED <<config, process, http, conns, bucket, last, shutdown, starts>>

Open(surface) ==
    /\ ~shutdown
    /\ IF surface = "http" THEN http = "bound" ELSE unix = "bound"
    /\ conns' = conns \cup {surface}
    /\ UNCHANGED <<config, process, http, unix, socket, bucket, last, shutdown, starts>>

Close(surface) ==
    /\ surface \in conns /\ conns' = conns \ {surface}
    /\ UNCHANGED <<config, process, http, unix, socket, bucket, last, shutdown, starts>>

\* The key of AuthorizedClientKeyExtractor: a forwarded address, else the header's hash.
ClientKey(auth, forwarded) ==
    CASE forwarded -> "ip"
      [] ~forwarded /\ auth # "none" -> "header"
      [] ~forwarded /\ auth = "none" -> "unavailable"

\* The governor layer and governor_error_response.
Limited(key) ==
    CASE key = "unavailable" -> "no_key"
      [] key \in Keys /\ bucket[key] = 0 -> "too_many"
      [] OTHER -> "passed"

Charge(key) == IF Limited(key) = "passed" THEN [bucket EXCEPT ![key] = @ - 1] ELSE bucket

HttpRequest(auth, forwarded) ==
    /\ http = "bound" /\ ~shutdown
    /\ LET key == ClientKey(auth, forwarded)
       IN  IF auth # "expected"
           THEN last' = [auth |-> auth, answer |-> "unauthorized"] /\ UNCHANGED bucket
           ELSE last' = [auth |-> auth, answer |-> Limited(key)] /\ bucket' = Charge(key)
    /\ UNCHANGED <<config, process, http, unix, socket, conns, shutdown, starts>>

Refill(key) ==
    /\ process = "resolved" /\ bucket[key] < Burst /\ bucket' = [bucket EXCEPT ![key] = @ + 1]
    /\ UNCHANGED <<config, process, http, unix, socket, conns, last, shutdown, starts>>

(***************************************************************************)
(* Shutdown: Ctrl-C, the end of a surface, the process being killed.       *)
(***************************************************************************)
CtrlC ==
    /\ process = "resolved" /\ ~shutdown /\ shutdown' = TRUE
    /\ UNCHANGED <<config, process, http, unix, socket, conns, bucket, last, starts>>

\* Both accept loops select on the token and every connection does too.
HttpStops ==
    /\ http = "bound" /\ shutdown
    /\ http' = "done" /\ conns' = conns \ {"http"}
    /\ UNCHANGED <<config, process, unix, socket, bucket, last, shutdown, starts>>

\* with_graceful_shutdown waits for the open connections, then the file is removed.
UnixStops ==
    /\ unix = "bound" /\ shutdown /\ "unix" \notin conns
    /\ unix' = "done" /\ socket' = "absent"
    /\ UNCHANGED <<config, process, http, conns, bucket, last, shutdown, starts>>

JoinError ==
    /\ process = "resolved" /\ "error" \in {http, unix} /\ ~shutdown
    /\ shutdown' = TRUE
    /\ UNCHANGED <<config, process, http, unix, socket, conns, bucket, last, starts>>

Over(s) == s \in {"off", "done", "error"}

\* serve_local_api returns when the join set is empty.
Exit ==
    /\ process = "resolved" /\ Over(http) /\ Over(unix)
    /\ process' = "exited" /\ shutdown' = TRUE
    /\ UNCHANGED <<config, http, unix, socket, conns, bucket, last, starts>>

Killed ==
    /\ process = "resolved" /\ process' = "killed"
    /\ http' = "off" /\ unix' = "off" /\ conns' = {} /\ shutdown' = FALSE
    /\ UNCHANGED <<config, socket, bucket, last, starts>>

SurfaceNext ==
    \/ Start \/ BindHttp \/ BindUnix
    \/ \E s \in {"http", "unix"} : Open(s) \/ Close(s)
    \/ \E auth \in {"none", "wrong", "expected"}, forwarded \in BOOLEAN : HttpRequest(auth, forwarded)
    \/ \E k \in Keys : Refill(k)
    \/ CtrlC \/ HttpStops \/ UnixStops \/ JoinError \/ Exit \/ Killed

SurfaceFairness ==
    WF_surfaceVars(BindHttp \/ BindUnix \/ HttpStops \/ UnixStops \/ JoinError \/ Exit)

SurfaceTypeOK ==
    /\ process \in {"down", "resolved", "exited", "killed", "refused"}
    /\ {http, unix} \subseteq {"off", "starting", "bound", "done", "error"}
    /\ socket \in {"absent", "socket", "other"} /\ conns \subseteq {"http", "unix"}
    /\ bucket \in [Keys -> 0..Burst] /\ shutdown \in BOOLEAN /\ starts \in 0..MaxStarts

\* Whatever the configuration, a bound HTTP surface has a bearer token, and it has TLS
\* unless the host really resolves to loopback addresses only (resolve_serve_config).
BoundIsProtected ==
    http = "bound" =>
       /\ config.token = "set"
       /\ TlsConfig(config) = "on" \/ config.host = "loopback"
             \/ (config.host = "localhost" /\ config.resolves = "loopback")

\* A client without the token is told so and can not use up anybody's limit, and the
\* limiter always finds a key: authorisation is the outer layer (build_http_router).
StrangersCostNothing ==
    [][/\ last'.answer # "no_key"
       /\ last' # last /\ last'.auth \in {"none", "wrong"} /\ process' = process =>
             last'.answer = "unauthorized" /\ bucket' = bucket]_surfaceVars

\* A server that returned by itself, the first to use the path or the successor of a
\* killed one, leaves no socket behind (run_unix_surface).
SocketTidy == process = "exited" /\ UnixEnabled(config) => socket # "socket"

\* bind_unix_listener never replaces something that is not a socket.
ForeignFileKept == [][socket = "other" => socket' = "other"]_surfaceVars

\* A socket left by a killed process does not keep the next one from serving.
RestartsAfterKill ==
    (process = "resolved" /\ unix = "starting" /\ socket = "socket") ~>
       (unix = "bound" \/ process # "resolved" \/ shutdown)

\* Once the token is cancelled the server returns, if the Unix connections end: an open
\* watch stream on the socket is not cut (graceful shutdown), one over HTTP is.
ShutdownReturns == (shutdown /\ process = "resolved") ~> (process # "resolved" \/ "unix" \in conns)
=============================================================================
