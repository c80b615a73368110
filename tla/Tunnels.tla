------------------------------ MODULE Tunnels ------------------------------
(***************************************************************************)
(* The life of the client connections that become tunnels: lib/src/core.rs *)
(* (on_new_tls_connection, on_new_quic_connection, on_tunnel_request),     *)
(* lib/src/tunnel.rs (listen_inner and the request tasks it spawns), the   *)
(* registry-based authenticator, the connection limiter and the session    *)
(* metrics.                                                                *)
(*                                                                         *)
(* Connections and request tasks run in parallel.  A request task is       *)
(* spawned by its tunnel and may outlive it.                               *)
(***************************************************************************)
EXTENDS ConnectionLimiter, SessionMetrics, FiniteSets

CONSTANTS
    Creds,              \* credentials a client may present
    UserOf,             \* the user name the registry has for each client
    DecodeUsername,     \* the user name read from credentials, or NoName
    NoCreds,            \* the request or the server name carries none
    Malformed,          \* the authorization header cannot be read
    HasAuthenticator,   \* Context.authenticator is set
    HasLimiter,         \* Context.connection_limiter is set
    MaxRequests         \* bound: requests per tunnel

ASSUME CredsAssumption ==
    /\ Client \subseteq Creds
    /\ NoCreds \notin Creds /\ Malformed \notin Creds /\ NoCreds # Malformed
ASSUME UserAssumption ==
    UserOf \in [Client -> User] /\ DecodeUsername \in [Creds -> Label]
ASSUME FlagsAssumption == HasAuthenticator \in BOOLEAN /\ HasLimiter \in BOOLEAN
ASSUME MaxRequestsAssumption == MaxRequests \in Nat
ASSUME ConnAssumption == IsFiniteSet(Conn)

VARIABLES
    stage,      \* how far each connection is
    protocol,   \* its protocol
    sni,        \* the credentials in its server name, or NoCreds
    guard,      \* the client whose slot it holds, or NoCreds
    received,   \* how many requests its tunnel received
    task,       \* the state of each request task
    auth        \* the credentials each request carries, NoCreds or Malformed

tunnelVars == <<stage, protocol, sni, guard, received, task, auth>>
vars == <<count, metricsVars, tunnelVars>>

Request == 1 .. MaxRequests

Stage == {"absent", "registered", "counted", "recorded", "open", "closing",
          "dropped", "uncounted", "closed"}
TaskState == {"none", "spawned", "passed", "labelled", "serving", "done"}

Init ==
    /\ LimiterInit
    /\ MetricsInit(Protocol)
    /\ stage = [t \in Conn |-> "absent"]
    /\ protocol = [t \in Conn |-> "Http1"]
    /\ sni = [t \in Conn |-> NoCreds]
    /\ guard = [t \in Conn |-> NoCreds]
    /\ received = [t \in Conn |-> 0]
    /\ task = [t \in Conn |-> [i \in Request |-> "none"]]
    /\ auth = [t \in Conn |-> [i \in Request |-> NoCreds]]

Goto(t, s) == stage' = [stage EXCEPT ![t] = s]

-----------------------------------------------------------------------------
(* core.rs                                                                 *)

\* A connection routed to the tunnel channel: its metadata entry is seeded.
Accept(t, p, c) ==
    /\ stage[t] = "absent"
    /\ Goto(t, "registered")
    /\ protocol' = [protocol EXCEPT ![t] = p]
    /\ sni' = [sni EXCEPT ![t] = c]
    /\ RegisterConnection(t)
    /\ UNCHANGED <<count, guard, received, task, auth>>

\* Mutant: the metadata entry is left behind.
MutantCodecFails(t) ==
    /\ stage[t] = "registered" /\ protocol[t] = "Http2"
    /\ Goto(t, "closed")
    /\ UNCHANGED <<count, metricsVars, protocol, sni, guard, received, task, auth>>

\* The TCP codec could not be created.
CodecFails(t) ==
    /\ stage[t] = "registered" /\ protocol[t] = "Http2"
    /\ Goto(t, "closed")
    /\ UnregisterConnection(t)
    /\ UNCHANGED <<count, protocol, sni, guard, received, task, auth>>

\* RegistryBasedAuthenticator::username for the server name's credentials.
SniUser(t) ==
    IF HasAuthenticator /\ sni[t] \in Client THEN UserOf[sni[t]] ELSE NoName

CountTunnel(t) ==
    /\ stage[t] = "registered"
    /\ Goto(t, "counted")
    /\ CountSession(SniUser(t), protocol[t])
    /\ UNCHANGED <<count, protocol, sni, guard, received, task, auth>>

RecordTunnel(t) ==
    /\ stage[t] = "counted"
    /\ Goto(t, "recorded")
    /\ RecordSession(t, SniUser(t))
    /\ UNCHANGED <<count, protocol, sni, guard, received, task, auth>>

\* Credentials in the server name are checked only with an authenticator.
SniChecked(t) == HasAuthenticator /\ sni[t] # NoCreds

\* The tunnel starts, with a slot for an authenticated server name.
OpenTunnel(t) ==
    /\ stage[t] = "recorded"
    /\ SniChecked(t) => sni[t] \in Client
    /\ Goto(t, "open")
    /\ IF SniChecked(t) /\ HasLimiter
       THEN /\ CanAcquire(sni[t], protocol[t])
            /\ TryAcquire(sni[t], protocol[t])
            /\ guard' = [guard EXCEPT ![t] = sni[t]]
       ELSE UNCHANGED <<count, guard>>
    /\ UNCHANGED <<metricsVars, protocol, sni, received, task, auth>>

\* The server name's credentials are unknown, or their client has no slot left.
RefuseTunnel(t) ==
    /\ stage[t] = "recorded" /\ SniChecked(t)
    /\ sni[t] \in Client => HasLimiter /\ ~CanAcquire(sni[t], protocol[t])
    /\ Goto(t, "dropped")
    /\ UNCHANGED <<count, metricsVars, protocol, sni, guard, received, task, auth>>

-----------------------------------------------------------------------------
(* Tunnel::listen_inner                                                    *)

\* The slot a request makes its tunnel acquire: none when it has one.
NeedsSlot(t, r) ==
    guard[t] = NoCreds /\ HasLimiter /\ HasAuthenticator /\ r \in Client

Spawn(t, r) ==
    /\ received[t] < MaxRequests
    /\ received' = [received EXCEPT ![t] = @ + 1]
    /\ task' = [task EXCEPT ![t][received[t] + 1] = "spawned"]
    /\ auth' = [auth EXCEPT ![t][received[t] + 1] = r]

ReceiveRequest(t, r) ==
    /\ stage[t] = "open"
    /\ IF NeedsSlot(t, r)
       THEN /\ CanAcquire(r, protocol[t])
            /\ TryAcquire(r, protocol[t])
            /\ guard' = [guard EXCEPT ![t] = r]
       ELSE UNCHANGED <<count, guard>>
    /\ Spawn(t, r)
    /\ UNCHANGED <<metricsVars, stage, protocol, sni>>

\* The limit is exceeded: the request fails and the tunnel is closed.
ExceedLimit(t, r) ==
    /\ stage[t] = "open"
    /\ NeedsSlot(t, r) /\ ~CanAcquire(r, protocol[t])
    /\ Goto(t, "closing")
    /\ UNCHANGED <<count, metricsVars, protocol, sni, guard, received, task, auth>>

\* listen() returns: end of stream, error, listener timeout or shutdown.
EndTunnel(t) ==
    /\ stage[t] = "open"
    /\ Goto(t, "closing")
    /\ UNCHANGED <<count, metricsVars, protocol, sni, guard, received, task, auth>>

\* on_tunnel_request returns: the tunnel is dropped with its slot, then the
\* session counter.
DropTunnel(t) ==
    /\ stage[t] = "closing"
    /\ Goto(t, "dropped")
    /\ IF guard[t] # NoCreds THEN Release(guard[t], protocol[t]) ELSE UNCHANGED count
    /\ guard' = [guard EXCEPT ![t] = NoCreds]
    /\ UNCHANGED <<metricsVars, protocol, sni, received, task, auth>>

UncountTunnel(t) ==
    /\ stage[t] = "dropped"
    /\ Goto(t, "uncounted")
    /\ UncountSession(protocol[t])
    /\ UNCHANGED <<count, protocol, sni, guard, received, task, auth>>

ForgetTunnel(t) ==
    /\ stage[t] = "uncounted"
    /\ Goto(t, "closed")
    /\ ForgetSession(t, protocol[t])
    /\ UNCHANGED <<count, protocol, sni, guard, received, task, auth>>

-----------------------------------------------------------------------------
(* The request tasks.                                                      *)

SetTask(t, i, s) == task' = [task EXCEPT ![t][i] = s]

\* The match on the request's credentials, the policy and the authenticator.
Authorised(t, r) ==
    /\ r # Malformed
    /\ HasAuthenticator => \/ r \in Client
                           \/ r = NoCreds /\ sni[t] # NoCreds

AuthenticateRequest(t, i) ==
    /\ task[t][i] = "spawned"
    /\ SetTask(t, i, IF Authorised(t, auth[t][i]) THEN "passed" ELSE "done")
    /\ UNCHANGED <<count, metricsVars, stage, protocol, sni, guard, received, auth>>

\* The session is relabelled with the user of the request's credentials.
LabelRequest(t, i) ==
    /\ task[t][i] = "passed"
    /\ SetTask(t, i, "labelled")
    /\ IF auth[t][i] \in Creds /\ DecodeUsername[auth[t][i]] # NoName
       THEN TransferSessionUsername(t, DecodeUsername[auth[t][i]], protocol[t])
       ELSE UNCHANGED metricsVars
    /\ UNCHANGED <<count, stage, protocol, sni, guard, received, auth>>

\* promote_to_next_state; a health check, or a failure, ends the task.
PromoteRequest(t, i) ==
    /\ task[t][i] = "labelled"
    /\ \E s \in {"serving", "done"} : SetTask(t, i, s)
    /\ UNCHANGED <<count, metricsVars, stage, protocol, sni, guard, received, auth>>

\* The TCP connection or the datagram multiplexer ends.
EndRequest(t, i) ==
    /\ task[t][i] = "serving"
    /\ SetTask(t, i, "done")
    /\ UNCHANGED <<count, metricsVars, stage, protocol, sni, guard, received, auth>>

-----------------------------------------------------------------------------

\* Everything a connection does by itself once it was accepted, apart from
\* waiting for its client.
ConnStep(t) ==
    \/ CountTunnel(t) \/ RecordTunnel(t) \/ OpenTunnel(t) \/ RefuseTunnel(t)
    \/ DropTunnel(t) \/ UncountTunnel(t) \/ ForgetTunnel(t)

ClientStep(t) ==
    \/ \E p \in Protocol, c \in Creds \union {NoCreds} : Accept(t, p, c)
    \/ \E r \in Creds \union {NoCreds, Malformed} :
          ReceiveRequest(t, r) \/ ExceedLimit(t, r)
    \/ CodecFails(t) \/ EndTunnel(t)

TaskStep(t, i) ==
    AuthenticateRequest(t, i) \/ LabelRequest(t, i) \/ PromoteRequest(t, i)
        \/ EndRequest(t, i)

Next ==
    \E t \in Conn :
        ConnStep(t) \/ ClientStep(t) \/ \E i \in Request : TaskStep(t, i)

Spec == Init /\ [][Next]_vars

-----------------------------------------------------------------------------
(* Properties                                                              *)

TypeOK ==
    /\ count \in [Client -> [Class -> Nat]]
    /\ sessions \in [Protocol -> Int]
    /\ perUser \in [Label -> [Protocol -> Int]]
    /\ entries \subseteq Conn
    /\ label \in [Conn -> Label]
    /\ stage \in [Conn -> Stage]
    /\ protocol \in [Conn -> Protocol]
    /\ sni \in [Conn -> Creds \union {NoCreds}]
    /\ guard \in [Conn -> Client \union {NoCreds}]
    /\ received \in [Conn -> 0 .. MaxRequests]
    /\ task \in [Conn -> [Request -> TaskState]]
    /\ auth \in [Conn -> [Request -> Creds \union {NoCreds, Malformed}]]

Holders(c, k) == {t \in Conn : guard[t] = c /\ ClassOf(protocol[t]) = k}

\* The limiter's counters are exactly the slots in use: no slot is lost when a
\* tunnel ends in any way, and none is given back twice (the saturating
\* subtraction of release never saturates).
SlotsBalanced ==
    \A c \in Client, k \in Class : count[c][k] = Cardinality(Holders(c, k))

\* No client holds more slots than its limit (connection_limiter.rs 94-98).
LimitRespected ==
    \A c \in Client, k \in Class :
        LimitOf(c, k) # NoLimit => Cardinality(Holders(c, k)) <= LimitOf(c, k)

\* With a limiter and an authenticator, no tunnel that is still open serves a
\* request without holding a slot: the slot is taken before the task is spawned
\* (tunnel.rs 181-225) or when the server name was authenticated.
ServedTunnelHoldsSlot ==
    HasLimiter /\ HasAuthenticator =>
        \A t \in Conn, i \in Request :
            stage[t] = "open" /\ task[t][i] \in {"passed", "labelled", "serving"}
                => guard[t] # NoCreds

\* With an authenticator, a request is served only for a known client: the one
\* of its own credentials or the one of the server name.
ServedIsAuthenticated ==
    HasAuthenticator =>
        \A t \in Conn, i \in Request :
            task[t][i] \in {"passed", "labelled", "serving"} =>
                \/ auth[t][i] \in Client
                \/ auth[t][i] = NoCreds /\ sni[t] \in Client

InSession(t) == stage[t] \in {"counted", "recorded", "open", "closing", "dropped"}

\* The name a session is counted under: while it is counted but not recorded
\* yet, the label it was created with; from then on the one of its map entry.
CountedUnder(t) == IF stage[t] = "counted" THEN SniUser(t) ELSE label[t]

Counted(u, p) ==
    {t \in Conn : /\ stage[t] \in {"counted", "recorded", "open", "closing",
                                   "dropped", "uncounted"}
                  /\ protocol[t] = p /\ CountedUnder(t) = u}

\* The gauges stay balanced, whatever the order in which tunnels end and their
\* request tasks relabel them (the comment of transfer_session_username,
\* metrics.rs 206-210).
GaugesBalanced ==
    /\ \A p \in Protocol :
          sessions[p] = Cardinality({t \in Conn : InSession(t) /\ protocol[t] = p})
    /\ \A u \in Label, p \in Protocol :
          perUser[u][p] = IF PerClient THEN Cardinality(Counted(u, p)) ELSE 0

\* The clients map holds exactly the connections that are between their
\* registration and the end of their session: a request task that outlives its
\* tunnel brings no entry back.
EntriesMatchConnections ==
    entries = {t \in Conn : stage[t] \notin {"absent", "closed"}}
=============================================================================
