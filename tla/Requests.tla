------------------------------ MODULE Requests ------------------------------
(***************************************************************************)
(* The life of one request: lib/src/http_downstream.rs (routing, the       *)
(* promotions, the failure answers), lib/src/http_demultiplexer.rs, the    *)
(* task lib/src/tunnel.rs spawns for it, and the connectors of             *)
(* lib/src/tcp_forwarder.rs and lib/src/socks5_forwarder.rs.               *)
(*                                                                         *)
(* A path is abstracted to the set of configured routes it matches, an     *)
(* address to its class.  The pipes that serve an established request are  *)
(* TcpPipe, UdpPipe and SocksPipe; the handlers of the other routes are in *)
(* ServiceSession.                                                         *)
(***************************************************************************)
EXTENDS Naturals, Sequences

CONSTANTS
    RqConfigs,      \* the settings to check (see RqSettings)
    RqResolved,     \* what a host name may resolve to: sequences of addresses
    RqServer        \* what the SOCKS server may answer (see SocksAnswer)

RqRoute == {"subscription", "ping", "speedtest", "proxy"}
RqAddress == {"global4", "global6", "private4", "loop4", "loop6"}
IsGlobal(a) == a \in {"global4", "global6"}
IsLoopback(a) == a \in {"loop4", "loop6"}
IsV6(a) == a \in {"global6", "loop6"}

\* policy "sni": the connection was authenticated by its server name, which
\* takes an authenticator.  A code of 0 is a setting that is absent.
RqSettings ==
    {c \in [routes : SUBSET RqRoute, authenticator : BOOLEAN,
            policy : {"default", "sni"}, connectCode : {407, 405},
            otherCode : {0, 404}, private : BOOLEAN, ipv6 : BOOLEAN,
            icmp : BOOLEAN, socks : BOOLEAN] :
        c.policy = "sni" => c.authenticator}

ASSUME RqConfigsAssumption == RqConfigs \subseteq RqSettings
ASSUME RqResolvedAssumption == RqResolved \subseteq Seq(RqAddress)

RqError == {"Io", "Authentication", "Timeout", "HostUnreachable",
            "DnsNonroutable", "DnsLoopback", "Other"}

VARIABLES
    rqCfg,      \* the settings this behaviour runs with
    rqReq,      \* the request
    rqPc,       \* where its task is
    rqAuth,     \* forwarder_auth: "none", "basic" or "sni"
    rqPeer,     \* the address being connected to, or "none"
    rqUp,       \* the connection to the target: "none", "opening", "open"
    rqAnswers,  \* the final responses handed to the codec
    rqBroken,   \* the client's connection is lost: the codec refuses answers
    rqList,     \* the addresses the host name was resolved to
    rqLooked,   \* how many of them the loop has passed over
    rqStatus    \* `status` of the loop: "none", or the error for those

rqLook == <<rqList, rqLooked, rqStatus>>
rqVars == <<rqCfg, rqReq, rqPc, rqAuth, rqPeer, rqUp, rqAnswers, rqBroken, rqLook>>

\* An authority is absent, one of the three service names, an address with a
\* port, or a host name with or without one.  A CONNECT request has no path.
RqRequests ==
    {r \in [method : {"CONNECT", "GET"}, paths : SUBSET RqRoute,
            authority : {"none", "_check", "_udp2", "_icmp", "address",
                         "host", "host:port"},
            target : RqAddress, creds : {"none", "malformed", "good", "bad"},
            peerKnown : BOOLEAN] :
        /\ r.method = "CONNECT" => r.paths = {} /\ r.authority # "none"
        /\ r.paths # {} => r.authority = "none" /\ r.creds = "none"
        /\ r.authority # "address" => r.target = "global4"
        /\ ~r.peerKnown => r.creds = "good" /\ r.method = "CONNECT"}

RqNone == [method |-> "none"]

RqInit ==
    /\ rqCfg \in RqConfigs
    /\ rqReq = RqNone
    /\ rqPc = "listen"
    /\ rqAuth = "none"
    /\ rqPeer = "none"
    /\ rqUp = "none"
    /\ rqAnswers = <<>>
    /\ rqBroken = FALSE
    /\ rqList = <<>> /\ rqLooked = 0 /\ rqStatus = "none"

-----------------------------------------------------------------------------
(* Answers                                                                 *)

AuthFailureCode(c, r) ==
    IF r.method = "CONNECT" \/ c.otherCode = 0 THEN c.connectCode ELSE c.otherCode

StatusCode(error) ==
    IF error = "Authentication" THEN AuthFailureCode(rqCfg, rqReq) ELSE 502

WarnHeaders(error) ==
    CASE error \in {"Io", "Other"} -> {"300"}
      [] error = "Timeout" -> {"302"}
      [] error = "HostUnreachable" -> {"301"}
      [] error = "DnsNonroutable" -> {"310", "dns"}
      [] error = "DnsLoopback" -> {"311", "dns"}
      [] error = "Authentication" ->
            IF AuthFailureCode(rqCfg, rqReq) = 407 THEN {"challenge"} ELSE {}

Answer(status, headers) ==
    IF rqBroken THEN UNCHANGED rqAnswers
    ELSE rqAnswers' = Append(rqAnswers, [status |-> status, headers |-> headers])

\* fail_request_with_error; the task ends with it.
FailRequest(error) ==
    /\ Answer(StatusCode(error), WarnHeaders(error))
    /\ rqPc' = "done"

-----------------------------------------------------------------------------
(* HttpDownstream::listen                                                  *)

\* HttpDemux::select: the first route in this order that is enabled and whose
\* path matches.
Select(c, r) ==
    LET m == c.routes \intersect r.paths IN
    CASE "subscription" \in m -> "subscription"
      [] "subscription" \notin m /\ "ping" \in m -> "ping"
      [] m \intersect {"subscription", "ping"} = {} /\ "speedtest" \in m -> "speedtest"
      [] m = {"proxy"} -> "proxy"
      [] m = {} -> "tunnel"

RqListen ==
    /\ rqPc = "listen"
    /\ \E r \in RqRequests :
        /\ rqReq' = r
        /\ rqPc' = Select(rqCfg, r)
    /\ UNCHANGED <<rqCfg, rqAuth, rqPeer, rqUp, rqAnswers, rqBroken, rqLook>>

-----------------------------------------------------------------------------
(* The task of tunnel.rs listen_inner                                      *)

RqProceed(auth) ==
    /\ rqAuth' = auth
    /\ rqPc' = "promote"
    /\ UNCHANGED rqAnswers

\* Mutant: a request without credentials passes.
MutantAuthenticate ==
    /\ rqPc = "tunnel"
    /\ \/ rqReq.creds = "good" /\ RqProceed("basic")
       \/ rqReq.creds = "none" /\ RqProceed(IF rqCfg.policy = "sni" THEN "sni" ELSE "none")
       \/ rqReq.creds = "bad" /\ FailRequest("Authentication") /\ UNCHANGED rqAuth
       \/ rqReq.creds = "malformed" /\ FailRequest("Io") /\ UNCHANGED rqAuth
    /\ UNCHANGED <<rqCfg, rqReq, rqPeer, rqUp, rqBroken, rqLook>>

\* The match over the request's credentials, the connection's policy and the
\* authenticator.
RqAuthenticate ==
    /\ rqPc = "tunnel"
    /\ LET c == rqReq.creds
           sni == IF rqCfg.policy = "sni" THEN "sni" ELSE "none"
       IN
       \/ /\ rqCfg.authenticator /\ c = "good"
          /\ RqProceed("basic")
       \/ /\ rqCfg.authenticator /\ c = "none" /\ rqCfg.policy = "sni"
          /\ RqProceed("sni")
       \/ /\ ~rqCfg.authenticator /\ c # "malformed"
          /\ RqProceed(IF c = "none" THEN sni ELSE "basic")
       \/ /\ rqCfg.authenticator
          /\ c = "bad" \/ (c = "none" /\ rqCfg.policy = "default")
          /\ FailRequest("Authentication") /\ UNCHANGED rqAuth
       \/ /\ c = "malformed"
          /\ FailRequest("Io") /\ UNCHANGED rqAuth
    /\ UNCHANGED <<rqCfg, rqReq, rqPeer, rqUp, rqBroken, rqLook>>

Service == {"_check", "_udp2", "_icmp"}

\* PendingRequest::promote_to_next_state
RqPromote ==
    /\ rqPc = "promote"
    /\ \/ /\ rqReq.authority = "_check" /\ rqReq.method = "CONNECT"
          /\ Answer(200, {}) /\ rqPc' = "done"
       \/ /\ rqReq.authority \in {"_udp2", "_icmp"} /\ rqReq.method = "CONNECT"
          /\ rqPc' = "mux" /\ UNCHANGED rqAnswers
       \/ /\ rqReq.authority \in Service /\ rqReq.method # "CONNECT"
          /\ Answer(502, {}) /\ rqPc' = "done"
       \/ /\ rqReq.authority \notin Service
          /\ rqPc' = "tcp" /\ UNCHANGED rqAnswers
    /\ UNCHANGED <<rqCfg, rqReq, rqAuth, rqPeer, rqUp, rqBroken, rqLook>>

-----------------------------------------------------------------------------
(* on_tcp_connect_request                                                  *)

\* What is wrong with an address the settings do not allow, or "none".
Refusal(a) ==
    IF rqCfg.private \/ IsGlobal(a) THEN "none"
    ELSE IF IsLoopback(a) THEN "DnsLoopback" ELSE "DnsNonroutable"

\* destination(): a CONNECT names its port, another method has a default one.
HasDestination(r) ==
    r.authority # "none" /\ (r.authority = "host" => r.method # "CONNECT")

\* destination() and client_address(), then the connector starts.  The SOCKS
\* connector refuses addresses only: names are resolved by the server.
RqTcpStart ==
    /\ rqPc = "tcp"
    /\ IF ~HasDestination(rqReq) \/ ~rqReq.peerKnown
       THEN FailRequest("Io") /\ UNCHANGED <<rqPeer, rqUp>>
       ELSE IF rqReq.authority = "address" /\ Refusal(rqReq.target) # "none"
       THEN FailRequest(Refusal(rqReq.target)) /\ UNCHANGED <<rqPeer, rqUp>>
       ELSE /\ UNCHANGED rqAnswers
            /\ IF rqReq.authority = "address" \/ rqCfg.socks
               THEN /\ rqPc' = "connecting" /\ rqUp' = "opening"
                    /\ rqPeer' = IF rqReq.authority = "address" THEN rqReq.target
                                                               ELSE "none"
               ELSE rqPc' = "resolving" /\ UNCHANGED <<rqPeer, rqUp>>
    /\ UNCHANGED <<rqCfg, rqReq, rqAuth, rqBroken, rqLook>>

\* lookup_host answers, possibly with an error.
RqResolve ==
    /\ rqPc = "resolving"
    /\ \/ /\ \E e \in {"Io", "Timeout"} : FailRequest(e)
          /\ UNCHANGED rqLook
       \/ /\ rqPc' = "selecting" /\ UNCHANGED rqAnswers
          /\ rqList' \in RqResolved /\ rqLooked' = 0 /\ rqStatus' = "none"
    /\ UNCHANGED <<rqCfg, rqReq, rqAuth, rqPeer, rqUp, rqBroken>>

\* An iteration of the loop over the resolved addresses: the address is passed
\* over or taken; `status` stands for the ones that were refused.
RqSelectAddress ==
    /\ rqPc = "selecting" /\ rqLooked < Len(rqList)
    /\ LET a == rqList[rqLooked + 1]
           unusable == IsV6(a) /\ ~rqCfg.ipv6
       IN
       IF unusable \/ Refusal(a) # "none"
       THEN /\ rqLooked' = rqLooked + 1
            /\ rqStatus' = IF unusable THEN rqStatus
                           ELSE IF rqStatus = "none" /\ IsLoopback(a) THEN "DnsLoopback"
                           ELSE "DnsNonroutable"
            /\ UNCHANGED <<rqPc, rqPeer, rqUp>>
       ELSE /\ rqPeer' = a /\ rqPc' = "connecting" /\ rqUp' = "opening"
            /\ UNCHANGED <<rqLooked, rqStatus>>
    /\ UNCHANGED <<rqCfg, rqReq, rqAuth, rqAnswers, rqBroken, rqList>>

\* The match behind the loop, when no address was taken.
RqNoAddress ==
    /\ rqPc = "selecting" /\ rqLooked = Len(rqList)
    /\ FailRequest(IF rqStatus = "none" THEN "Io" ELSE rqStatus)
    /\ UNCHANGED <<rqCfg, rqReq, rqAuth, rqPeer, rqUp, rqBroken, rqLook>>

\* io_to_connection_error
ConnectErrors == {"HostUnreachable", "Timeout", "Io"}

\* What a reply code or an error of socks5_client::connect becomes.
SocksAnswer(r) ==
    CASE r \in {"HostUnreachable", "NetworkUnreachable"} -> "HostUnreachable"
      [] r = "TtlExpired" -> "Timeout"
      [] r \in {"ConnectionRefused", "Io"} -> "Io"
      [] r = "Authentication" -> "Authentication"
      [] r \in {"OtherReply", "Protocol", "BadCredentials"} -> "Other"

\* The same for check_auth.
MuxAnswer(r) ==
    CASE r \in {"Io", "BadCredentials"} -> "Io"
      [] r = "Authentication" -> "Authentication"
      [] OTHER -> "Other"

RqConnectFails ==
    /\ rqPc = "connecting"
    /\ \E e \in IF rqCfg.socks THEN {SocksAnswer(r) : r \in RqServer}
                               ELSE ConnectErrors :
        FailRequest(e)
    /\ rqUp' = "none"
    /\ UNCHANGED <<rqCfg, rqReq, rqAuth, rqPeer, rqBroken, rqLook>>

\* connection_establishment_timeout covers the whole connect call.
RqConnectTimeout ==
    /\ rqPc \in {"resolving", "connecting"}
    /\ FailRequest("Timeout")
    /\ rqUp' = "none"
    /\ UNCHANGED <<rqCfg, rqReq, rqAuth, rqPeer, rqBroken, rqLook>>

RqConnected ==
    /\ rqPc = "connecting"
    /\ rqPc' = "connected" /\ rqUp' = "open"
    /\ UNCHANGED <<rqCfg, rqReq, rqAuth, rqPeer, rqAnswers, rqBroken, rqLook>>

\* TcpConnection::promote_to_next_state: CONNECT is answered now, any other
\* method by the target, through into_forwarded (ForwardedStream), which may
\* reject the request's headers.
RqTcpPromote ==
    /\ rqPc = "connected"
    /\ \/ /\ rqReq.method = "CONNECT"
          /\ Answer(200, {})
          /\ IF rqBroken THEN rqPc' = "done" /\ rqUp' = "none"
                         ELSE rqPc' = "piping" /\ UNCHANGED rqUp
       \/ /\ rqReq.method # "CONNECT"
          /\ UNCHANGED rqAnswers
          /\ \/ rqPc' = "forwarding" /\ UNCHANGED rqUp
             \/ rqPc' = "dropped" /\ rqUp' = "none"
    /\ UNCHANGED <<rqCfg, rqReq, rqAuth, rqPeer, rqBroken, rqLook>>

-----------------------------------------------------------------------------
(* on_datagram_mux_request                                                 *)

RqMuxStart ==
    /\ rqPc = "mux"
    /\ IF ~rqReq.peerKnown
       THEN FailRequest("Io")
       ELSE /\ rqPc' = IF rqAuth = "none" THEN "muxPromote" ELSE "checkAuth"
            /\ UNCHANGED rqAnswers
    /\ UNCHANGED <<rqCfg, rqReq, rqAuth, rqPeer, rqUp, rqBroken, rqLook>>

\* check_auth: the direct forwarder accepts, the SOCKS one opens an
\* association to find out.
RqCheckAuth ==
    /\ rqPc = "checkAuth"
    /\ \/ rqPc' = "muxPromote" /\ UNCHANGED rqAnswers
       \/ /\ rqCfg.socks
          /\ \E r \in RqServer : FailRequest(MuxAnswer(r))
    /\ UNCHANGED <<rqCfg, rqReq, rqAuth, rqPeer, rqUp, rqBroken, rqLook>>

\* DatagramMultiplexer::promote_to_next_state answers before the multiplexer is
\* made.
RqMuxPromote ==
    /\ rqPc = "muxPromote"
    /\ Answer(200, {})
    /\ rqPc' = IF rqBroken THEN "done" ELSE "muxMake"
    /\ UNCHANGED <<rqCfg, rqReq, rqAuth, rqPeer, rqUp, rqBroken, rqLook>>

\* Mutant: the failure to make the multiplexer is answered too.
MutantMakeMux ==
    /\ rqPc = "muxMake"
    /\ \/ FailRequest("Other")
       \/ rqPc' = "piping" /\ UNCHANGED rqAnswers
    /\ UNCHANGED <<rqCfg, rqReq, rqAuth, rqPeer, rqUp, rqBroken, rqLook>>

\* The forwarder makes the multiplexer.  When ICMP is not set up, or making it
\* fails, the stream is dropped: its request was consumed by the promotion.
RqMakeMux ==
    /\ rqPc = "muxMake"
    /\ rqPc' \in IF rqReq.authority = "_icmp" /\ ~rqCfg.icmp THEN {"dropped"}
                 ELSE {"piping", "dropped"}
    /\ UNCHANGED <<rqCfg, rqReq, rqAuth, rqPeer, rqUp, rqAnswers, rqBroken, rqLook>>

\* The client's connection is lost.
RqClientLost ==
    /\ rqPc \notin {"listen", "done"} /\ ~rqBroken
    /\ rqBroken' = TRUE
    /\ UNCHANGED <<rqCfg, rqReq, rqPc, rqAuth, rqPeer, rqUp, rqAnswers, rqLook>>

RqOver == {"subscription", "ping", "speedtest", "proxy", "done", "dropped",
           "piping", "forwarding"}

RqServed ==
    /\ rqPc \in RqOver
    /\ UNCHANGED rqVars

\* What the task does without waiting for anybody, and the timer.
RqTaskStep ==
    \/ RqAuthenticate \/ RqPromote \/ RqTcpStart \/ RqSelectAddress \/ RqNoAddress
    \/ RqConnectTimeout \/ RqTcpPromote \/ RqMuxStart \/ RqMuxPromote \/ RqMakeMux

RqNext ==
    \/ RqListen \/ RqTaskStep \/ RqResolve \/ RqConnectFails \/ RqConnected
    \/ RqCheckAuth \/ RqClientLost \/ RqServed

RqSpec == RqInit /\ [][RqNext]_rqVars

-----------------------------------------------------------------------------
(* Properties                                                              *)

\* The type invariant.
RqTypeOK ==
    /\ rqCfg \in RqConfigs
    /\ rqReq = RqNone \/ rqReq \in RqRequests
    /\ rqPc \in RqOver \union {"listen", "tunnel", "promote", "tcp", "resolving",
                  "selecting", "connecting", "connected", "mux", "checkAuth", "muxPromote", "muxMake"}
    /\ rqAuth \in {"none", "basic", "sni"}
    /\ rqPeer \in RqAddress \union {"none"}
    /\ rqUp \in {"none", "opening", "open"}
    /\ rqAnswers \in Seq([status : {200, 404, 405, 407, 502},
                          headers : SUBSET {"300", "301", "302", "310", "311",
                                            "dns", "challenge"}])
    /\ rqBroken \in BOOLEAN
    /\ rqList \in RqResolved \union {<<>>} /\ rqLooked \in 0 .. Len(rqList)
    /\ rqStatus \in {"none", "DnsLoopback", "DnsNonroutable"}

\* The answers are true.  A request the tunnel took gets exactly one final
\* answer by the time its task is over, whichever of its steps failed, unless
\* the client's connection is lost (the request object is consumed by the
\* promotion that answered, so the error paths after it must not answer
\* again).  A CONNECT to a target is answered with success only while the
\* connection to the target is open (tunnel.rs connects first).
RqAnswerIsTrue ==
    /\ Len(rqAnswers) <= 1
    /\ rqPc \in {"done", "piping"} /\ ~rqBroken => Len(rqAnswers) = 1
    /\ rqReq # RqNone /\ rqReq.authority \notin Service /\ rqAnswers # <<>>
          /\ rqAnswers[1].status = 200
       => rqUp = "open"

\* The resolved addresses the settings allow.
Usable ==
    {i \in 1 .. Len(rqList) : /\ rqCfg.private \/ IsGlobal(rqList[i])
                              /\ rqCfg.ipv6 \/ ~IsV6(rqList[i])}

\* Nothing is done for a request that is not allowed.  Without authentication
\* (there is an authenticator, the request's own credentials do not pass, and
\* it has some or the connection was not authenticated by its server name) no
\* connection is opened and no success answered.  Without
\* allow_private_network_connections none is opened to an address that is not
\* global, given in the request or resolved from a name; and the loop over
\* resolved addresses takes the first that is allowed, failing only if none is.
RqOnlyWhatIsAllowed ==
    /\ \/ rqReq = RqNone
       \/ ~rqCfg.authenticator
       \/ rqReq.creds = "good"
       \/ rqReq.creds = "none" /\ rqCfg.policy = "sni"
       \/ /\ rqUp = "none" /\ rqPeer = "none"
          /\ \A i \in 1 .. Len(rqAnswers) : rqAnswers[i].status # 200
    /\ rqPeer # "none" => rqCfg.private \/ IsGlobal(rqPeer)
    /\ \A i \in 1 .. rqLooked : i \notin Usable
    /\ rqList # <<>> =>
          IF rqPeer = "none" THEN rqPc # "selecting" => Usable = {}
          ELSE rqLooked + 1 \in Usable /\ rqPeer = rqList[rqLooked + 1]

\* Every request task ends or starts serving although the target and the name
\* server may never answer: the timer covers all of it, except the SOCKS
\* server's verdict on a datagram multiplexer.
RqEnds ==
    WF_rqVars(RqTaskStep) =>
        (rqPc = "tunnel" ~> rqPc \in RqOver \/ rqPc = "checkAuth")
=============================================================================
