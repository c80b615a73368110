----------------------------- MODULE MCSessions -----------------------------
(***************************************************************************)
(* The sessions a client's connection may become, the request of a tunnel  *)
(* session, the services of the endpoint and the shutdown of them all, for *)
(* TLC: a behaviour is one of the chosen kind.                             *)
(***************************************************************************)
EXTENDS MCShutdown, Http1Session, Http2Session, QuicMux, Requests, ServiceSession, ReverseProxy

VARIABLE session

sessionVars == <<session, vars, h1Vars, h2Vars, qVars, rqVars, ssVars, rpVars>>

-----------------------------------------------------------------------------
(* Settings and name resolutions of a tunnel's requests.                   *)

RqBase == [routes |-> {}, authenticator |-> TRUE, policy |-> "default", connectCode |-> 407,
           otherCode |-> 0, private |-> FALSE, ipv6 |-> TRUE, icmp |-> FALSE, socks |-> FALSE]
MCConfigs ==
    {RqBase, [RqBase EXCEPT !.routes = RqRoute], [RqBase EXCEPT !.routes = {"speedtest", "proxy"}],
     [RqBase EXCEPT !.policy = "sni"], [RqBase EXCEPT !.authenticator = FALSE],
     [RqBase EXCEPT !.connectCode = 405, !.otherCode = 404],
     [RqBase EXCEPT !.private = TRUE, !.ipv6 = FALSE], [RqBase EXCEPT !.ipv6 = FALSE],
     [RqBase EXCEPT !.icmp = TRUE], [RqBase EXCEPT !.socks = TRUE],
     [RqBase EXCEPT !.socks = TRUE, !.policy = "sni", !.icmp = TRUE]}
MCResolved == {<<>>, <<"loop4">>, <<"loop6", "loop4">>, <<"private4", "global4">>,
               <<"global6", "global4">>, <<"loop4", "private4">>}
MCServer == {"HostUnreachable", "NetworkUnreachable", "TtlExpired", "ConnectionRefused", "Io",
             "Authentication", "OtherReply", "Protocol", "BadCredentials"}

(* Requests to the services: a download, uploads of too little and of too  *)
(* much, and what a subscription handler refuses.                          *)

SsMake(method, path, size, sends, found) ==
    [method |-> method, path |-> path, size |-> size, sends |-> sends, configured |-> found[1],
     host |-> found[2], known |-> found[3], enabled |-> found[4]]
MCPlans == {SsMake("GET", "mb.bin", 3, 0, <<TRUE, TRUE, TRUE, TRUE>>),
            SsMake("POST", "upload.html", 2, 1, <<TRUE, TRUE, TRUE, FALSE>>),
            SsMake("POST", "upload.html", 2, 3, <<TRUE, TRUE, TRUE, TRUE>>),
            SsMake("GET", "other", 0, 0, <<TRUE, TRUE, FALSE, TRUE>>),
            SsMake("PUT", "other", 0, 0, <<FALSE, FALSE, FALSE, FALSE>>)}

(* Exchanges of the reverse proxy.                                         *)

RpToken(kind, n, at) == [kind |-> kind, n |-> n, at |-> at]
RpBytes(from, to) == [i \in 1 .. to - from + 1 |-> RpToken("body", from + i - 1, 0)]
RpLine == <<RpToken("nl", 0, 0)>>
RpHead == <<RpToken("head", 0, 0), RpToken("end", 0, 0)>>
RpChunk(n, at) == <<RpToken("size", n, at)>> \o RpLine
                  \o (IF n = 0 THEN <<>> ELSE RpBytes(at + 1, at + n) \o RpLine)
RpMake(protocol, chunked, length, size, bytes, closes, waits) ==
    [protocol |-> protocol, length |-> length, chunked |-> chunked, size |-> size,
     bytes |-> bytes, closes |-> closes, waits |-> waits]
RpTwo == RpHead \o RpChunk(2, 0)
RpThree == RpTwo \o RpChunk(1, 2)
MCExchanges ==
    {RpMake(p, TRUE, -1, d[2], d[1] \o RpChunk(0, d[2]) \o e, closes, FALSE) :
       p \in {"Http1", "Http2"}, d \in {<<RpThree, 3>>, <<RpTwo, 2>>},
       e \in {RpLine, <<RpToken("trailer", 0, 0)>> \o RpLine \o RpLine}, closes \in BOOLEAN}
    \union {RpMake("Http2", TRUE, -1, 3, RpTwo, TRUE, FALSE)}
    \union {RpMake(p, FALSE, l, 2, RpHead \o RpBytes(1, 2), TRUE, waits) :
              p \in {"Http2", "Http3"}, l \in {2, -1}, waits \in BOOLEAN}
    \union {RpMake(p, FALSE, 3, 3, RpHead \o RpBytes(1, b), closes, FALSE) :
              p \in {"Http1", "Http3"}, b \in {2, 3}, closes \in BOOLEAN}
    \union {RpMake("Http3", FALSE, 2, 2, RpHead \o RpBytes(1, 1), TRUE, FALSE),
            RpMake("Http2", FALSE, -1, 0, <<RpToken("head", 0, 0)>>, TRUE, FALSE)}

-----------------------------------------------------------------------------
(* The request, service or exchange of a behaviour that is not about it is *)
(* over.                                                                   *)

RqIdle == /\ rqCfg = RqBase /\ rqReq = RqNone /\ rqPc = "done" /\ rqAuth = "none"
          /\ rqPeer = "none" /\ rqUp = "none" /\ rqAnswers = <<>> /\ rqBroken = TRUE
          /\ rqList = <<>> /\ rqLooked = 0 /\ rqStatus = "none"
SsIdle == /\ ssKind = "ping" /\ ssSingle = FALSE /\ ssPc = "closed"
          /\ ssPlan = [r \in SsRequest |-> CHOOSE p \in SsPlans : TRUE]
          /\ ssTask = [r \in SsRequest |-> "none"]
          /\ ssLeft = [r \in SsRequest |-> 0] /\ ssMoved = [r \in SsRequest |-> 0]
          /\ ssAnswer = [r \in SsRequest |-> 0] /\ ssEof = {} /\ ssActive = 0
RpIdle == /\ rpCase = (CHOOSE x \in RpExchanges : TRUE) /\ rpPc = "failed" /\ rpLeft = rpCase.bytes
          /\ rpBuffer = <<>> /\ rpSize = 0 /\ rpBody = <<>> /\ rpOut = <<>> /\ rpStatus = 0 /\ rpLength = -1
          /\ rpEof = FALSE /\ rpUploaded = FALSE

SessionInit ==
    /\ session \in {"http1", "http2", "quic", "request", "service", "proxy", "shutdown"}
    /\ Init /\ (session # "shutdown" => application = "endpoint")
    /\ H1Init /\ H2Init /\ QInit
    /\ IF session = "request" THEN RqInit ELSE RqIdle
    /\ IF session = "service" THEN SsInit ELSE SsIdle
    /\ IF session = "proxy" THEN RpInit ELSE RpIdle

\* A step of the component s leaves the others alone.
Only(s) ==
    /\ session = s /\ UNCHANGED session
    /\ s # "shutdown" => UNCHANGED vars
    /\ s # "http1" => UNCHANGED h1Vars
    /\ s # "http2" => UNCHANGED h2Vars
    /\ s # "quic" => UNCHANGED qVars
    /\ s # "request" => UNCHANGED rqVars
    /\ s # "service" => UNCHANGED ssVars
    /\ s # "proxy" => UNCHANGED rpVars

SessionNext ==
    \/ Only("shutdown") /\ Next
    \/ Only("http1") /\ H1Next
    \/ Only("http2") /\ H2Next
    \/ Only("quic") /\ QNext
    \/ Only("request") /\ RqNext
    \/ Only("service") /\ SsNext
    \/ Only("proxy") /\ RpNext

SessionSpec == SessionInit /\ [][SessionNext]_sessionVars

\* The types of the components' variables.
TypeOK == H1TypeOK /\ H2TypeOK /\ QTypeOK /\ RqTypeOK /\ SsTypeOK /\ RpTypeOK

\* What is told to end does end, or starts serving, whatever its peers do:
\* an HTTP/1 session, an HTTP/2 session in graceful shutdown, the task of a
\* removed QUIC connection, a request's task, a service session, and an exchange
\* whose origin server has closed.
SessionsEnd ==
    /\ H1SessionEnds /\ H2ShutdownEnds /\ QSocketEnds
    /\ RqEnds /\ SsSessionEnds /\ RpServerEndEndsExchange
=============================================================================
