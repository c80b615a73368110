------------------------------ MODULE MCStreams ------------------------------
(***************************************************************************)
(* The components that admit a connection, carry its streams and talk to   *)
(* the network, for TLC: a behaviour is one of the chosen component.       *)
(***************************************************************************)
EXTENDS Http3Session, ForwardedStream, MCDatagrams, SocksPipe, Socks5Client, Admission,
        IcmpForwarder, IcmpMessages, HttpMessages, TLC

VARIABLE part   \* the component that takes the steps

streamVars == <<part, h3Vars, fwVars, dcVars, spVars, scVars, adVars, icVars, imVars, hmVars>>

-----------------------------------------------------------------------------
(* Responses of a target: each framing, shorter and longer than announced, *)
(* and malformed ones.                                                     *)

FwByte(kind, n) == [kind |-> kind, n |-> n, at |-> 0]
FwHead == <<FwByte("head", 0), FwByte("final", 0)>>
FwBytes(n) == [i \in 1..n |-> FwByte("body", i)]
FwChunk(bytes, at) ==
    <<FwByte("size", 0), [kind |-> "line", n |-> Len(bytes), at |-> at]>> \o bytes
        \o <<FwByte("cr", 0), FwByte("lf", 0)>>
MCResponses ==
    {[len |-> n, bytes |-> FwHead \o FwBytes(m)] : n \in {Unknown, 0, 2}, m \in 0..3}
    \union {[len |-> 1, bytes |-> <<FwByte("head", 0), FwByte("interim", 0)>> \o FwHead \o FwBytes(1)],
            [len |-> Chunked, bytes |-> FwHead \o FwChunk(FwBytes(2), 0)
                                               \o FwChunk(<<FwByte("body", 3)>>, 2) \o FwChunk(<<>>, 3)],
            [len |-> Unknown, bytes |-> <<FwByte("head", 0), FwByte("bad", 0)>>],
            [len |-> Chunked, bytes |-> FwHead \o <<FwByte("size", 0), FwByte("bad", 0)>>]}

(* Clients, hosts and rule files of the admission.                         *)

AdMakeRule(cidr, prefix, key, action) ==
    [cidr |-> cidr, prefix |-> prefix, key |-> key, action |-> action]
AdMakeClient(transport, hello, valid, name, alpn, random, key) ==
    [transport |-> transport, hello |-> hello, valid |-> valid, sni |-> name, alpn |-> alpn,
     random |-> random, key |-> key, inside |-> key = AdNone]
AdMakeHosts(main, services, protocols) ==
    [main |-> main, proxy |-> services["p"], ping |-> services["i"], speedtest |-> services["s"],
     protocols |-> protocols]
AdNoServices == [s \in {"p", "i", "s"} |-> {}]
AdServices == [s \in {"p", "i", "s"} |-> {<<s>>}]
AdM == <<"m">>
AdN == <<"n">>
AdX == <<"x">>
AdEither == {<<{1}, {}>>, <<{}, {1}>>}
MCRules ==
    {<<>>, <<AdMakeRule("any", AdNone, AdNone, "deny")>>,
     <<AdMakeRule("any", [value |-> <<{1}>>, mask |-> AdNone], AdNone, "allow"),
       AdMakeRule("net", AdNone, AdNone, "deny")>>,
     <<AdMakeRule(AdBad, AdNone, AdNone, "deny"), AdMakeRule("any", AdNone, "k", "allow"),
       AdMakeRule("any", AdBad, AdNone, "deny"), AdMakeRule("any", AdNone, AdNone, "deny")>>}
MCMasks == {<<{1}>>, <<{}, {1}>>}
MCHosts == {AdMakeHosts(AdM :> {AdX}, AdServices, {"Http2", "Http3"}),
            AdMakeHosts((AdM :> {AdX}) @@ (AdN :> {AdX}), AdNoServices, {"Http2", "Http3"}),
            AdMakeHosts(AdM :> {}, AdNoServices, {"Http1"})}
MCClients ==
    {AdMakeClient("tls", hello, TRUE, name, {"Http2"}, r, AdNone) :
       hello \in {2, 4}, name \in {AdM, AdX}, r \in AdEither}
    \union {AdMakeClient("tls", 2, TRUE, name, alpn, <<{1}, {}>>, "k") :
              name \in {<<"p">>, <<"i">>, <<"s">>, <<"u", "m">>, <<>>},
              alpn \in {{}, {"Http2", "Http3"}, {"other"}}}
    \union {AdMakeClient("tls", 2, FALSE, AdM, {}, <<{}, {}>>, AdNone)}
    \union {AdMakeClient("quic", 1, TRUE, name, {"Http3"}, r, "k") :
              name \in {AdM, AdN, AdX, <<"p">>, <<>>, <<"z">>}, r \in AdEither}

(* ICMP packets around the lengths their checks name, and words whose sum  *)
(* carries.                                                                *)

MCLengths == {0, 1, 7, 8, 9, 10, 20, 35, 36, 37, 38, 41, 48, 49, 55, 56, 57, 58, 64}
MCTypes == {0, 1, 3, 5, 8, 11, 13, 15, 40, 128, 129}
MCExtensions == {<<>>, <<[kind |-> "options", length |-> 0]>>,
                 <<[kind |-> "options", length |-> 6], [kind |-> "fragment", length |-> 0]>>}
MCWords == UNION {[1 .. n -> {0, 1, 256, 65534, 65535}] : n \in 0 .. 3}
MCRequest == <<"a", "b", "c">>

\* Packets that are no error quote nothing; an IPv4 header has no extensions
\* and an IPv6 header one length.
MCPackets ==
    {p \in [version : {4, 6}, type : MCTypes, code : {0, 1, 6, 7}, len : MCLengths, echo : {ImEcho},
            quote : [words : {4, 5, 6, 15}, extensions : MCExtensions, proto : {1, 17, 58},
                     type : {0, 8, 128}]] :
       /\ p.type \notin ImErrorTypes(p.version)
          => p.quote = [words |-> 5, extensions |-> <<>>, proto |-> 1, type |-> 8]
       /\ p.version = 4 => p.quote.extensions = <<>>
       /\ p.version = 6 => p.quote.words = 5}

(* Headers of requests and responses.                                      *)

HmMake(name, value, names) == [name |-> name, value |-> value, names |-> names]
MCRequestHeaders ==
    {HmMake(name, value, {}) : name \in {"host", "content-length"}, value \in 1 .. 2}
    \union {HmMake("transfer-encoding", 1, {}), HmMake("transfer-encoding", 0, {}),
            HmMake("proxy-connection", 0, {}), HmMake("x", 0, {})}
MCResponseHeaders ==
    {HmMake("content-length", 1, {}), HmMake("transfer-encoding", 1, {}),
     HmMake("transfer-encoding", 0, {}), HmMake("connection", 0, {"close"}),
     HmMake("connection", 0, {"x", "content-length"}), HmMake("keep-alive", 0, {}), HmMake("x", 0, {})}
MCName ==
    {h.name : h \in MCRequestHeaders \union MCResponseHeaders}
    \union {"close", "proxy-authorization", "upgrade"}
MCHeader == MCRequestHeaders \union MCResponseHeaders
HmLists(headers) == UNION {[1 .. n -> headers] : n \in 0 .. 2}
HmRequests(authorities, headers) ==
    [version : {"1.1", "2"}, method : {"GET", "HEAD"}, authority : authorities, headers : headers]

\* A request with any headers, or a plain request whose response has any.
MCExchanges ==
    {[req |-> q, res |-> [code |-> 200, headers |-> <<>>]] :
        q \in {r \in HmRequests({HmNoHost, 1}, HmLists(MCRequestHeaders)) :
                 r.version = "2" => r.authority # HmNoHost}}
    \union {[req |-> q, res |-> s] :
        q \in HmRequests({1}, {<<>>}), s \in [code : {200, 204}, headers : HmLists(MCResponseHeaders)]}

-----------------------------------------------------------------------------
(* A component that is not the chosen one stays in one initial state.      *)

FwIdle == fsLen = Chunked /\ fkResponse = CHOOSE r \in Responses : TRUE
DcIdle == dcStream = CHOOSE s \in DcStreams : s.kind = "udp"
ScIdle == /\ scAsk = [command |-> "connect", auth |-> NoAuth]
          /\ scAnswer = (CHOOSE a \in ScAnswers : ScLikely(a))
          /\ scIn = <<>> /\ scStep = "start" /\ scSent = {}
AdIdle == /\ adHosts = (CHOOSE d \in AdBuild(CHOOSE h \in AdHosts : TRUE) : TRUE)
          /\ adRules = <<>> /\ adExported = AdNone /\ adClient = (CHOOSE c \in AdClients : TRUE)
          /\ adPc = "dropped" /\ adBuffered = 0 /\ adRandom = AdNone /\ adPos = 0 /\ adGiven = <<>>
          /\ adCert = AdNone /\ adMeta = AdNone /\ adStale = FALSE /\ adReloads = 0
ImIdle == /\ imPc = "done" /\ imIn = ImNoPacket /\ imOut = ImNone /\ imLeft = 0 /\ imPos = 1
          /\ imWords = <<>> /\ imTotal = 0 /\ imOnes = 0 /\ imSum = -1
HmIdle ==
    HmStart([req |-> [version |-> "1.1", method |-> "GET", authority |-> 1, headers |-> <<>>],
             res |-> [code |-> 200, headers |-> <<>>]])

StreamInit ==
    /\ part \in {"http3", "forwarded", "datagrams", "udp via socks", "socks5", "admission", "icmp",
                    "icmp packet", "headers"}
    /\ SpInit /\ IcInit
    /\ H3Init /\ (part # "http3" => h3Cap = [s \in H3Stream |-> "none"])
    /\ FwInit /\ (part # "forwarded" => FwIdle)
    /\ DcInit /\ (part # "datagrams" => DcIdle)
    /\ IF part = "socks5" THEN ScInit ELSE ScIdle
    /\ IF part = "admission" THEN AdInit ELSE AdIdle
    /\ IF part = "icmp packet" THEN ImInit ELSE ImIdle
    /\ IF part = "headers" THEN HmInit ELSE HmIdle

\* A step of the component s leaves the others alone.
Only(s) ==
    /\ part = s /\ UNCHANGED part
    /\ s # "http3" => UNCHANGED h3Vars
    /\ s # "forwarded" => UNCHANGED fwVars
    /\ s # "datagrams" => UNCHANGED dcVars
    /\ s # "udp via socks" => UNCHANGED spVars
    /\ s # "socks5" => UNCHANGED scVars
    /\ s # "admission" => UNCHANGED adVars
    /\ s # "icmp" => UNCHANGED icVars
    /\ s # "icmp packet" => UNCHANGED imVars
    /\ s # "headers" => UNCHANGED hmVars

StreamNext ==
    \/ Only("http3") /\ H3Next
    \/ Only("forwarded") /\ FwNext
    \/ Only("datagrams") /\ DcNext
    \/ Only("udp via socks") /\ SpNext
    \/ Only("socks5") /\ ScNext
    \/ Only("admission") /\ AdNext
    \/ Only("icmp") /\ IcNext
    \/ Only("icmp packet") /\ ImNext
    \/ Only("headers") /\ HmNext

StreamSpec == StreamInit /\ [][StreamNext]_streamVars

\* The types of the variables of the component that takes the steps; the others
\* keep the values of an initial state.
TypeOK ==
    /\ part = "http3" => H3TypeOK
    /\ part = "datagrams" => DcTypeOK
    /\ part = "udp via socks" => SpTypeOK
    /\ part = "socks5" => ScTypeOK
    /\ part = "admission" => AdTypeOK
    /\ part = "icmp" => IcTypeOK
    /\ part = "icmp packet" => ImTypeOK
    /\ part = "headers" => HmTypeOK
=============================================================================
