--------------------------- MODULE NetworkProofs ---------------------------
(***************************************************************************)
(* Proofs about Admission, IcmpForwarder, IcmpMessages and Socks5Client,   *)
(* for every hello, rule file and set of hosts, every set of clients,      *)
(* capacity and timeout, every packet and every length of an address.      *)
(***************************************************************************)
EXTENDS Admission, IcmpForwarder, IcmpMessages, Socks5Client, TLAPS

-----------------------------------------------------------------------------
(* The admission of a connection: Admission.                               *)

\* The prebuffered bytes are handed over first, then the ones that come; the
\* hello is not longer than what is buffered of it.
AdHelloInv ==
    /\ adClient \in AdClients
    /\ adBuffered \in Nat /\ adBuffered <= adClient.hello
    /\ adGiven \in Seq(Nat) /\ \A i \in DOMAIN adGiven : adGiven[i] = i
    /\ adPos = IF Len(adGiven) < adBuffered THEN Len(adGiven) ELSE adBuffered
    /\ adPc = "prebuffer" => adGiven = <<>>
    /\ adPc = "hello" /\ adClient.valid /\ adClient.hello < AdPrebuffer => adRandom = adClient.random

\* The rules are those of a file, perhaps behind the rule of a generated prefix.
AdRulesInv ==
    /\ adClient \in AdClients
    /\ adExported = AdNone \/
       \E file \in AdRules, m \in AdMasks : \E v \in AdGenerate(m) :
          adRules = AdAppendAllowRule(file, v, m) /\ adExported = [value |-> v, mask |-> m]

\* Appending a run of numbers to the run from 1.
LEMMA AdRunGrows ==
    ASSUME NEW s \in Seq(Nat), \A i \in DOMAIN s : s[i] = i, NEW n \in Nat
    PROVE  LET t == s \o [i \in 1 .. n |-> Len(s) + i] IN
           t \in Seq(Nat) /\ Len(t) = Len(s) + n /\ \A i \in DOMAIN t : t[i] = i
<1> DEFINE r == [i \in 1 .. n |-> Len(s) + i]
<1>1. r \in Seq(Nat) /\ Len(r) = n /\ \A i \in 1 .. n : r[i] = Len(s) + i
    OBVIOUS
<1> HIDE DEF r
<1>2. s \o r \in Seq(Nat) /\ Len(s \o r) = Len(s) + n
    BY <1>1
<1>3. \A i \in 1 .. Len(s) + n : (s \o r)[i] = i
    BY <1>1
<1> QED BY <1>2, <1>3 DEF r

\* Every step keeps AdHelloInv.
LEMMA AdHelloStep == AdHelloInv /\ [AdNext]_adVars => AdHelloInv'
<1> SUFFICES ASSUME AdHelloInv, [AdNext]_adVars PROVE AdHelloInv'
    BY Zenon
<1>0. adClient.hello \in Nat \ {0} /\ AdReadLen \in Nat /\ AdPrebuffer \in Nat /\ adClient.valid \in BOOLEAN
    BY AdAssumption, Zenon DEF AdHelloInv, AdClientOK
<1>1. CASE AdReadHello
    <2>1. /\ adPc = "prebuffer" /\ adGiven = <<>> /\ adPos = 0
          /\ UNCHANGED <<adClient, adGiven, adPos>>
        BY <1>1 DEF AdReadHello, AdHelloInv
    <2>2. CASE adPc' = "hello" /\ adBuffered' = adBuffered /\
               adRandom' = IF (adClient.valid /\ adBuffered = adClient.hello) /\ adBuffered # AdPrebuffer
                           THEN adClient.random ELSE AdNone
        <3>1. \/ adBuffered = AdPrebuffer \/ (adClient.valid /\ adBuffered = adClient.hello)
              \/ ~adClient.valid
            BY <1>1, <2>2, <2>1, Zenon DEF AdReadHello
        <3>2. adClient.valid /\ adClient.hello < AdPrebuffer => adRandom' = adClient.random
            BY <1>0, <2>2, <3>1 DEF AdHelloInv
        <3> QED BY <2>1, <2>2, <3>2, Zenon DEF AdHelloInv
    <2>3. CASE \E n \in 1 .. AdReadLen :
                  /\ adBuffered + n <= adClient.hello /\ adBuffered' = adBuffered + n
                  /\ adPc' = adPc
        BY <1>0, <2>1, <2>3 DEF AdHelloInv
    <2> QED BY <1>1, <2>1, <2>2, <2>3, Zenon DEF AdReadHello
<1>2. CASE AdPollRead
    <2>1. /\ adPc = "hello" /\ Len(adGiven) < adClient.hello
          /\ UNCHANGED <<adClient, adPc, adBuffered, adRandom>>
        BY <1>2, Zenon DEF AdPollRead
    <2>2. PICK room \in 1 .. AdReadLen :
                IF adPos < adBuffered
                THEN /\ adGiven' = adGiven \o [i \in 1 .. (IF adBuffered - adPos < room THEN adBuffered - adPos ELSE room) |-> adPos + i]
                     /\ adPos' = adPos + (IF adBuffered - adPos < room THEN adBuffered - adPos ELSE room)
                ELSE /\ adGiven' = adGiven \o [i \in 1 .. (IF adClient.hello - Len(adGiven) < room THEN adClient.hello - Len(adGiven) ELSE room) |-> Len(adGiven) + i]
                     /\ UNCHANGED adPos
        BY <1>2, Zenon DEF AdPollRead
    <2>3. CASE adPos < adBuffered
        <3>1. adPos = Len(adGiven) /\ Len(adGiven) < adBuffered
            BY <2>3 DEF AdHelloInv
        <3> DEFINE n == IF adBuffered - adPos < room THEN adBuffered - adPos ELSE room
        <3>2. n \in Nat /\ Len(adGiven) + n <= adBuffered
            BY <1>0, <3>1 DEF AdHelloInv
        <3>3. adGiven' = adGiven \o [i \in 1 .. n |-> Len(adGiven) + i] /\ adPos' = Len(adGiven) + n
            BY <2>2, <2>3, <3>1, Zenon
        <3> HIDE DEF n
        <3>4. adGiven' \in Seq(Nat) /\ Len(adGiven') = Len(adGiven) + n /\ \A i \in DOMAIN adGiven' : adGiven'[i] = i
            BY <3>2, <3>3, AdRunGrows, Zenon DEF AdHelloInv
        <3>5. adPos' = IF Len(adGiven') < adBuffered' THEN Len(adGiven') ELSE adBuffered'
            BY <2>1, <3>1, <3>2, <3>3, <3>4 DEF AdHelloInv
        <3> QED BY <2>1, <3>4, <3>5, Zenon DEF AdHelloInv
    <2>4. CASE ~(adPos < adBuffered)
        <3>1. adPos = adBuffered /\ Len(adGiven) >= adBuffered
            BY <2>4 DEF AdHelloInv
        <3> DEFINE n == IF adClient.hello - Len(adGiven) < room THEN adClient.hello - Len(adGiven) ELSE room
        <3>2. n \in Nat
            BY <1>0, <2>1 DEF AdHelloInv
        <3>3. adGiven' = adGiven \o [i \in 1 .. n |-> Len(adGiven) + i] /\ adPos' = adPos
            BY <2>2, <2>4, Zenon
        <3> HIDE DEF n
        <3>4. adGiven' \in Seq(Nat) /\ Len(adGiven') = Len(adGiven) + n /\ \A i \in DOMAIN adGiven' : adGiven'[i] = i
            BY <3>2, <3>3, AdRunGrows, Zenon DEF AdHelloInv
        <3>5. adPos' = IF Len(adGiven') < adBuffered' THEN Len(adGiven') ELSE adBuffered'
            BY <2>1, <3>1, <3>2, <3>3, <3>4 DEF AdHelloInv
        <3> QED BY <2>1, <3>4, <3>5, Zenon DEF AdHelloInv
    <2> QED BY <2>3, <2>4, Zenon
<1>3. CASE AdReload \/ AdGiveUp \/ AdOnNewTlsConnection \/ AdTlsAccepted \/ AdQuicHello
           \/ AdOnNewQuicConnection \/ UNCHANGED adVars
    <2>1. /\ UNCHANGED <<adClient, adBuffered, adGiven, adPos>>
          /\ adPc' \in {"prebuffer", "hello"} => UNCHANGED <<adPc, adRandom>>
        BY <1>3, Zenon DEF AdReload, AdGiveUp, AdOnNewTlsConnection, AdTlsAccepted, AdQuicHello,
                    AdOnNewQuicConnection, adVars
    <2> QED BY <2>1, Zenon DEF AdHelloInv
<1> QED BY <1>1, <1>2, <1>3, Zenon DEF AdNext

\* PrebufferedTcpStream loses, repeats and reorders no byte of the hello, for
\* every length of the hello, the prebuffer and the reads; and the rules see
\* the random of every hello that is shorter than the prebuffer.
THEOREM HelloIsWhole == AdSpec => []AdHelloIsWhole
<1>1. AdInit => AdHelloInv
    <2> SUFFICES ASSUME AdInit PROVE AdHelloInv
        BY Zenon
    <2>1. adClient \in AdClients /\ adBuffered = 0 /\ adGiven = <<>> /\ adPos = 0 /\ adPc # "hello"
        BY Zenon DEF AdInit
    <2>2. adClient.hello \in Nat
        BY <2>1, AdAssumption, Zenon DEF AdClientOK
    <2> QED BY <2>1, <2>2 DEF AdHelloInv
<1>2. AdHelloInv => AdHelloIsWhole
    BY Zenon DEF AdHelloInv, AdHelloIsWhole
<1> QED BY <1>1, <1>2, AdHelloStep, PTL DEF AdSpec

\* The rule of a generated prefix is the first to match a client that builds its
\* random from it.
LEMMA AdRulesAllow == AdRulesInv => AdGeneratedClientIsAllowed
<1> SUFFICES ASSUME AdRulesInv, adExported # AdNone, adClient.sni # <<>>,
                    AdMasked(adClient.random, adExported.value, adExported.mask)
             PROVE  AdEvaluate(adRules, adClient, adClient.random) = "allow"
    BY Zenon DEF AdGeneratedClientIsAllowed
<1>1. PICK file \in AdRules, m \in AdMasks : \E v \in AdGenerate(m) :
          adRules = AdAppendAllowRule(file, v, m) /\ adExported = [value |-> v, mask |-> m]
    BY Zenon DEF AdRulesInv
<1>2. PICK v \in AdGenerate(m) :
          adRules = AdAppendAllowRule(file, v, m) /\ adExported = [value |-> v, mask |-> m]
    BY <1>1, Zenon
<1> DEFINE p == [value |-> v, mask |-> m]
           r == [cidr |-> "any", prefix |-> p, key |-> AdNone, action |-> "allow"]
           R == {file[i] : i \in DOMAIN file}
<1>3. adExported = p /\ p.value = v /\ p.mask = m
    BY <1>2, Zenon
<1>4. r.cidr = "any" /\ r.prefix = p /\ r.key = AdNone /\ r.action = "allow"
    BY Zenon
<1>5. adRules = <<r>> \o file
    BY <1>2, Zenon DEF AdAppendAllowRule
<1>6. file \in Seq(R) /\ m # AdNone /\ p # AdBad /\ AdBad # "any" /\ adClient.random # AdNone
    BY AdValuesAssumption, Zenon DEF AdRulesInv
<1> HIDE DEF p, r, R
<1>7. DOMAIN adRules = 1 .. Len(file) + 1 /\ Len(file) \in Nat /\ adRules[1] = r
    BY <1>5, <1>6, SMTT(30)
<1>8. 1 \in DOMAIN adRules /\ \A j \in DOMAIN adRules : j \in Nat /\ 1 <= j
    BY <1>7, SMTT(30)
<1>9. AdMasked(adClient.random, p.value, p.mask)
    BY <1>3, Zenon
<1>10. AdPrefixMatches(r.prefix, adClient.random)
    BY <1>3, <1>4, <1>6, <1>9, Zenon DEF AdPrefixMatches
<1>11. "any" # "net"
    BY Zenon
<1>12. AdRuleMatches(r, adClient, adClient.random)
    BY <1>4, <1>6, <1>10, <1>11, Zenon DEF AdRuleMatches
<1> DEFINE M == {i \in DOMAIN adRules : AdRuleMatches(adRules[i], adClient, adClient.random)}
           least == CHOOSE i \in M : \A j \in M : i <= j
<1>13. 1 \in M /\ \A j \in M : j \in Nat /\ 1 <= j
    BY <1>7, <1>8, <1>12, Zenon
<1> HIDE DEF M
<1>14. least \in M /\ \A j \in M : least <= j
    BY <1>13, Zenon
<1> HIDE DEF least
<1>15. least = 1
    BY <1>13, <1>14, SMTT(30)
<1>16. AdEvaluate(adRules, adClient, adClient.random) = adRules[least].action
    BY <1>6, <1>13, Zenon DEF AdEvaluate, M, least
<1> QED BY <1>4, <1>7, <1>15, <1>16, Zenon

\* A client with a generated prefix is not turned away by the rules, whatever
\* file append_allow_rule found and whatever mask and value were generated.
THEOREM GeneratedClientIsAllowed == AdSpec => []AdGeneratedClientIsAllowed
<1>1. AdInit => AdRulesInv
    BY Zenon DEF AdInit, AdRulesInv
<1>2. AdRulesInv /\ [AdNext]_adVars => AdRulesInv'
    <2> SUFFICES ASSUME AdRulesInv, [AdNext]_adVars PROVE AdRulesInv'
        BY Zenon
    <2>1. UNCHANGED <<adClient, adRules, adExported>>
        BY Zenon DEF AdNext, AdReload, AdReadHello, AdPollRead, AdGiveUp, AdOnNewTlsConnection,
                     AdTlsAccepted, AdQuicHello, AdOnNewQuicConnection, adVars
    <2> QED BY <2>1, Zenon DEF AdRulesInv
<1> QED BY <1>1, <1>2, AdRulesAllow, PTL DEF AdSpec

\* A connection over QUIC has HTTP/3 enabled.  A TLS handshake goes on with the
\* host and the protocol that were chosen for it; a QUIC handshake, until a
\* reload, with the certificate and the bootstrap meta of the hosts in force.
AdServedInv ==
    /\ adClient \in AdClients
    /\ adClient.transport = "quic" => "Http3" \in adHosts.settings.protocols
    /\ adPc \in {"prebuffer", "hello", "handshake"} => adClient.transport = "tls"
    /\ adPc = "quic" => adClient.transport = "quic"
    /\ adPc = "handshake" =>
          /\ adCert = adMeta.host /\ adMeta.protocol # "Http3"
          /\ adMeta.channel = "tunnel" => adMeta.protocol \in adHosts.settings.protocols
    /\ adPc = "quic" /\ adCert # AdNone =>
          /\ adMeta.protocol = "Http3"
          /\ ~adStale => /\ adCert = AdSelectCertificate(adHosts, adClient.sni)
                         /\ adMeta = AdBootstrap(adHosts)
    /\ adPc = "served" => adCert # AdNone \/ adCert = adMeta.host
    /\ AdServedAsChosen

\* `max` of a set of protocols is one of them.
LEMMA AdHighestIsOne ==
    ASSUME NEW S \in SUBSET {"Http1", "Http2", "Http3"}, S # {}
    PROVE  AdHighest(S) \in S
<1>1. AdRank["Http1"] = 1 /\ AdRank["Http2"] = 2 /\ AdRank["Http3"] = 3
    <2>1. Protocols[1] = "Http1" /\ Protocols[2] = "Http2" /\ Protocols[3] = "Http3"
        BY Zenon DEF Protocols
    <2>2. \A i \in 1 .. 3 : i = 1 \/ i = 2 \/ i = 3
        OBVIOUS
    <2>3. (CHOOSE i \in 1 .. 3 : Protocols[i] = "Http1") = 1
        BY <2>1, <2>2
    <2>4. (CHOOSE i \in 1 .. 3 : Protocols[i] = "Http2") = 2
        BY <2>1, <2>2
    <2>5. (CHOOSE i \in 1 .. 3 : Protocols[i] = "Http3") = 3
        BY <2>1, <2>2
    <2> QED BY <2>3, <2>4, <2>5, Zenon DEF AdRank
<1>2. \E p \in S : \A q \in S : AdRank[q] <= AdRank[p]
    <2>1. CASE "Http3" \in S
        BY <1>1, <2>1
    <2>2. CASE "Http3" \notin S /\ "Http2" \in S
        BY <1>1, <2>2
    <2>3. CASE "Http3" \notin S /\ "Http2" \notin S
        <3>1. "Http1" \in S /\ \A q \in S : q = "Http1"
            BY <2>3, Zenon
        <3> QED BY <1>1, <3>1
    <2> QED BY <2>1, <2>2, <2>3, Zenon
<1> QED BY <1>2, Zenon DEF AdHighest

\* TlsDemux::select offers a tunnel only over an enabled protocol, and a client
\* that offers HTTP/3 alone nothing else.
LEMMA AdSelectIsEnabled ==
    ASSUME NEW d, NEW sni, NEW alpn, alpn \subseteq (DOMAIN AdRank \cup {"other"}),
           AdSelect(d, alpn, sni) # AdNone
    PROVE  /\ AdSelect(d, alpn, sni).channel = "tunnel"
                  => AdSelect(d, alpn, sni).protocol \in d.settings.protocols
           /\ alpn = {"Http3"} => AdSelect(d, alpn, sni).protocol = "Http3"
<1> DEFINE h == d.settings
           meta == AdSelect(d, alpn, sni)
           known == {"Http1", "Http2", "Http3"}
<1>1. DOMAIN AdRank = known
    BY Zenon DEF AdRank
<1>2. /\ (alpn \ {"other"}) \cap h.protocols \in SUBSET known
      /\ alpn \cap {"Http1", "Http3"} \in SUBSET known
      /\ alpn \ {"other"} \in SUBSET known
    BY <1>1, Zenon
<1>3. AdTunnelProtocol(h, alpn) # AdNone => AdTunnelProtocol(h, alpn) \in h.protocols
    BY <1>2, AdHighestIsOne, Zenon DEF AdTunnelProtocol
<1>4. ASSUME alpn = {"Http3"}
      PROVE  /\ AdTunnelProtocol(h, alpn) \in {AdNone, "Http3"}
             /\ AdProxyProtocol(alpn) = "Http3" /\ AdServiceProtocol(alpn) = "Http3"
    <2>1. alpn \cap {"Http1", "Http3"} = {"Http3"} /\ alpn \ {"other"} = {"Http3"} /\ alpn # {}
        BY <1>4, Zenon
    <2>2. AdTunnelProtocol(h, alpn) \in {AdNone, "Http3"}
        <3>1. (alpn \ {"other"}) \cap h.protocols # {}
                  => AdHighest((alpn \ {"other"}) \cap h.protocols) \in {"Http3"}
            BY <1>2, <2>1, AdHighestIsOne, Zenon
        <3> QED BY <2>1, <3>1, Zenon DEF AdTunnelProtocol
    <2>3. AdHighest({"Http3"}) = "Http3"
        BY AdHighestIsOne, Zenon
    <2>4. AdProxyProtocol(alpn) = "Http3"
        BY <2>1, <2>3, Zenon DEF AdProxyProtocol
    <2>5. AdServiceProtocol(alpn) = "Http3"
        BY <2>1, <2>3, Zenon DEF AdServiceProtocol
    <2> QED BY <2>2, <2>4, <2>5, Zenon
<1>5. \/ \E host, creds : meta = AdChosen("tunnel", host, creds, AdTunnelProtocol(h, alpn))
      \/ meta = AdChosen("proxy", sni, FALSE, AdProxyProtocol(alpn))
      \/ meta = AdChosen("ping", sni, FALSE, AdServiceProtocol(alpn))
      \/ meta = AdChosen("speedtest", sni, FALSE, AdServiceProtocol(alpn))
    BY Zenon DEF AdSelect
<1> HIDE DEF meta, h
<1>6. meta # AdNone
    BY Zenon DEF meta
<1>7. "proxy" # "tunnel" /\ "ping" # "tunnel" /\ "speedtest" # "tunnel"
    BY Zenon
<1>8. CASE \E host, creds : meta = AdChosen("tunnel", host, creds, AdTunnelProtocol(h, alpn))
    <2>1. AdTunnelProtocol(h, alpn) # AdNone /\ meta.protocol = AdTunnelProtocol(h, alpn)
        <3>1. PICK host, creds : meta = AdChosen("tunnel", host, creds, AdTunnelProtocol(h, alpn))
            BY <1>8, Zenon
        <3>2. /\ AdTunnelProtocol(h, alpn) # AdNone
              /\ meta = [channel |-> "tunnel", host |-> host, creds |-> creds,
                         protocol |-> AdTunnelProtocol(h, alpn)]
            BY <1>6, <3>1, Zenon DEF AdChosen
        <3> QED BY <3>2, Zenon
    <2> QED BY <1>3, <1>4, <2>1, Zenon DEF meta, h
<1>9. CASE \E channel \in {"proxy", "ping", "speedtest"}, protocol \in {AdProxyProtocol(alpn), AdServiceProtocol(alpn)} :
                meta = AdChosen(channel, sni, FALSE, protocol)
    <2>1. meta.channel # "tunnel" /\ meta.protocol \in {AdProxyProtocol(alpn), AdServiceProtocol(alpn)}
        <3>1. PICK channel \in {"proxy", "ping", "speedtest"}, protocol \in {AdProxyProtocol(alpn), AdServiceProtocol(alpn)} :
                  meta = AdChosen(channel, sni, FALSE, protocol)
            BY <1>9, Zenon
        <3>2. meta = [channel |-> channel, host |-> sni, creds |-> FALSE, protocol |-> protocol]
            BY <1>6, <3>1, Zenon DEF AdChosen
        <3>3. meta.channel = channel /\ meta.protocol = protocol
            BY <3>2, Zenon
        <3> QED BY <1>7, <3>3, Zenon
    <2> QED BY <1>4, <2>1, Zenon DEF meta, h
<1> QED BY <1>5, <1>8, <1>9, Zenon

\* Every step keeps AdServedInv.
LEMMA AdServedStep == AdServedInv /\ [AdNext]_adVars => AdServedInv'
<1> SUFFICES ASSUME AdServedInv, [AdNext]_adVars PROVE AdServedInv'
    BY Zenon
<1>0. adClient.alpn \subseteq (DOMAIN AdRank \cup {"other"}) /\ {"Http3"} \subseteq (DOMAIN AdRank \cup {"other"})
    <2>1. "Http3" \in DOMAIN AdRank
        BY Zenon DEF AdRank
    <2> QED BY <2>1, AdAssumption, Zenon DEF AdServedInv, AdClientOK
<1>1. CASE AdOnNewTlsConnection
    <2>1. /\ adPc = "hello" /\ adClient.transport = "tls"
          /\ UNCHANGED <<adClient, adHosts, adStale>>
        BY <1>1, Zenon DEF AdOnNewTlsConnection, AdServedInv
    <2>2. CASE adPc' = "dropped"
        BY <2>1, <2>2, Zenon DEF AdServedInv, AdServedAsChosen
    <2> DEFINE meta == AdSelect(adHosts, adClient.alpn, adClient.sni)
    <2>3. CASE /\ adPc' = "handshake" /\ adMeta' = meta /\ adCert' = meta.host
               /\ meta # AdNone /\ meta.protocol # "Http3"
        <3>1. meta.channel = "tunnel" => meta.protocol \in adHosts.settings.protocols
            BY <1>0, <2>3, AdSelectIsEnabled, Zenon
        <3> HIDE DEF meta
        <3> QED BY <2>1, <2>3, <3>1, Zenon DEF AdServedInv, AdServedAsChosen
    <2> QED BY <1>1, <2>2, <2>3, Zenon DEF AdOnNewTlsConnection
<1>2. CASE AdQuicHello
    <2>1. /\ adPc = "quic" /\ adMeta' = AdBootstrap(adHosts)
          /\ adCert' = AdSelectCertificate(adHosts, adClient.sni)
          /\ UNCHANGED <<adClient, adHosts, adPc, adStale>>
        BY <1>2, Zenon DEF AdQuicHello
    <2>2. adMeta'.protocol = "Http3"
        BY <2>1, Zenon DEF AdBootstrap
    <2> QED BY <2>1, <2>2, Zenon DEF AdServedInv, AdServedAsChosen
<1>3. CASE AdOnNewQuicConnection
    <2> DEFINE meta == AdSelect(adHosts, {"Http3"}, adClient.sni)
    <2>1. /\ adPc = "quic" /\ adCert # AdNone /\ adClient.transport = "quic"
          /\ adMeta' = IF meta = AdNone THEN adMeta ELSE meta
          /\ adPc' \in {"dropped", "served"}
          /\ UNCHANGED <<adClient, adHosts, adCert, adStale>>
        BY <1>3, Zenon DEF AdOnNewQuicConnection, AdServedInv
    <2>2. meta # AdNone => meta.protocol = "Http3"
        BY <1>0, AdSelectIsEnabled, Zenon
    <2>3. adMeta'.protocol = "Http3" /\ "Http3" \in adHosts.settings.protocols
        BY <2>1, <2>2, Zenon DEF AdServedInv
    <2>4. ~adStale => adCert = adMeta'.host
        <3>1. SUFFICES ASSUME ~adStale PROVE adCert = adMeta'.host
            BY Zenon
        <3>2. adCert = (IF meta = AdNone THEN adHosts.first ELSE meta.host) /\ adMeta = AdBootstrap(adHosts)
            BY <2>1, <3>1, Zenon DEF AdServedInv, AdSelectCertificate
        <3>3. adMeta.host = adHosts.first
            BY <3>2, Zenon DEF AdBootstrap
        <3> HIDE DEF meta
        <3> QED BY <2>1, <3>2, <3>3, Zenon
    <2> HIDE DEF meta
    <2> QED BY <2>1, <2>3, <2>4, Zenon DEF AdServedInv, AdServedAsChosen
<1>4. CASE AdReload
    <2>1. /\ adHosts'.settings.protocols = adHosts.settings.protocols
          /\ adCert # AdNone => adStale'
          /\ UNCHANGED <<adClient, adPc, adCert, adMeta>>
        BY <1>4, Zenon DEF AdReload
    <2> QED BY <2>1, Zenon DEF AdServedInv, AdServedAsChosen
<1>5. CASE AdReadHello
    <2>1. /\ adPc = "prebuffer" /\ adPc' \in {"prebuffer", "hello"}
          /\ UNCHANGED <<adClient, adHosts, adCert, adMeta, adStale>>
        BY <1>5, Zenon DEF AdReadHello
    <2> QED BY <2>1, Zenon DEF AdServedInv, AdServedAsChosen
<1>6. CASE AdTlsAccepted
    BY <1>6, Zenon DEF AdTlsAccepted, AdServedInv, AdServedAsChosen
<1>7. CASE AdGiveUp
    BY <1>7, Zenon DEF AdGiveUp, AdServedInv, AdServedAsChosen
<1>8. CASE AdPollRead \/ UNCHANGED adVars
    <2>1. UNCHANGED <<adClient, adHosts, adPc, adCert, adMeta, adStale>>
        BY <1>8, Zenon DEF AdPollRead, adVars
    <2> QED BY <2>1, Zenon DEF AdServedInv, AdServedAsChosen
<1> QED BY <1>1, <1>2, <1>3, <1>4, <1>5, <1>6, <1>7, <1>8, Zenon DEF AdNext

\* Whatever hosts, rules and clients there are: a connection is served on the
\* host whose certificate it was shown, TLS never as HTTP/3, and a tunnel only
\* over an enabled protocol.
THEOREM ServedAsChosen == AdSpec => []AdServedAsChosen
<1>1. AdInit => AdServedInv
    <2> SUFFICES ASSUME AdInit PROVE AdServedInv
        BY Zenon
    <2>1. adClient \in AdClients /\ adClient.transport \in {"tls", "quic"}
        BY AdAssumption, Zenon DEF AdInit, AdClientOK
    <2> QED BY <2>1, Zenon DEF AdInit, AdServedInv, AdServedAsChosen
<1>2. AdServedInv => AdServedAsChosen
    BY Zenon DEF AdServedInv
<1> QED BY <1>1, <1>2, AdServedStep, PTL DEF AdSpec

-----------------------------------------------------------------------------
(* The ICMP forwarder: IcmpForwarder.                                      *)

IcMessage == [data : IcData, reply : {"full", "short"}]

\* The deadline of a request for d is outstanding, at t.
IcPending(t, d) == t \in DOMAIN icDeadlines /\ d \in IcIn(icDeadlines[t])

\* What a waiter is: it was asked for by its client, its deadline is not further
\* away than a new one would be, and an earlier deadline would wake it only if
\* one was outstanding when it was registered.
IcWaiterOK(k) ==
    LET w == icWaiters[k] IN
    /\ w.due \in Nat /\ w.due <= icNow + IcTimeout
    /\ \E r \in icAsked : r.client = w.client /\ IcEq(k, r.data)
    /\ k = "" => \E r \in icAsked : r.data = ""
    /\ w.again \/ \A t, d : IcPending(t, d) /\ IcEq(k, d) => w.due <= t
    /\ \E t, d : IcPending(t, d) /\ t <= w.due /\ IcEq(k, d)

\* A queued message answers a request of its client.
IcMessageOK(c, m) ==
    \/ [client |-> c, data |-> m.data] \in icAsked
    \/ m.reply = "short" \/ \E r \in icAsked : r.data = ""
IcMessagesOK == \A c \in IcClient : \A i \in DOMAIN icQueue[c] : IcMessageOK(c, icQueue[c][i])

IcInv ==
    /\ icNow \in Nat
    /\ icAsked \subseteq [client : IcClient, data : IcData] /\ icSending \subseteq icAsked
    /\ icQueue \in [IcClient -> Seq(IcMessage)]
    /\ \A c \in IcClient : Len(icQueue[c]) <= IcQueueCap
    /\ IcMessagesOK
    /\ \A t \in DOMAIN icDeadlines : t \in Nat /\ icDeadlines[t] \in Seq(IcData)
    /\ \A k \in DOMAIN icWaiters : IcWaiterOK(k)
    /\ icMaintain = "notified" /\ DOMAIN icDeadlines # {} => icNotify

\* What a sequence holds once an element is appended.
LEMMA IcInAppend ==
    ASSUME NEW S, NEW q \in Seq(S), NEW x \in S
    PROVE  IcIn(Append(q, x)) = IcIn(q) \union {x}
<1>1. DOMAIN Append(q, x) = 1 .. Len(q) + 1 /\ DOMAIN q = 1 .. Len(q) /\ Len(q) \in Nat
    OBVIOUS
<1>2. Append(q, x)[Len(q) + 1] = x /\ \A i \in 1 .. Len(q) : Append(q, x)[i] = q[i]
    OBVIOUS
<1>3. \A i \in 1 .. Len(q) + 1 : i \in 1 .. Len(q) \/ i = Len(q) + 1
    BY <1>1
<1>4. Len(q) + 1 \in 1 .. Len(q) + 1 /\ \A i \in 1 .. Len(q) : i \in 1 .. Len(q) + 1
    BY <1>1
<1> QED BY <1>1, <1>2, <1>3, <1>4, Zenon DEF IcIn

\* A waiter stays as it is while the deadlines stay and the clock and the
\* requests grow.
LEMMA IcWaitersStay ==
    ASSUME IcInv, icNow' \in Nat, icNow <= icNow', icAsked \subseteq icAsked',
           icDeadlines' = icDeadlines, DOMAIN icWaiters' \subseteq DOMAIN icWaiters,
           \A k \in DOMAIN icWaiters' : icWaiters'[k] = icWaiters[k]
    PROVE  \A k \in DOMAIN icWaiters' : IcWaiterOK(k)'
<1> TAKE k \in DOMAIN icWaiters'
<1>1. IcWaiterOK(k) /\ icWaiters'[k] = icWaiters[k]
    BY Zenon DEF IcInv
<1>2. \A t, d : IcPending(t, d)' <=> IcPending(t, d)
    BY Zenon DEF IcPending
<1>3. icWaiters'[k].due \in Nat /\ icWaiters'[k].due <= icNow' + IcTimeout
    <2>1. icWaiters[k].due \in Nat /\ icWaiters[k].due <= icNow + IcTimeout /\ icNow \in Nat
        BY <1>1, Zenon DEF IcWaiterOK, IcInv
    <2> QED BY <1>1, <2>1, IcmpAssumption
<1> QED BY <1>1, <1>2, <1>3, Zenon DEF IcWaiterOK

\* A queued message stays an answer while the requests grow.
LEMMA IcMessagesStay ==
    ASSUME IcInv, icAsked \subseteq icAsked', icQueue' = icQueue
    PROVE  IcMessagesOK'
BY Zenon DEF IcInv, IcMessagesOK, IcMessageOK

\* The registration of a request keeps the invariant.
LEMMA IcRegisterStep ==
    ASSUME IcInv, NEW r \in icSending, IcRegister(r)
    PROVE  IcInv'
<1> DEFINE due == icNow + IcTimeout
           others == UNION {IcIn(icDeadlines[t]) : t \in DOMAIN icDeadlines}
<1>1. r \in icAsked /\ r.client \in IcClient /\ r.data \in IcData
    BY Zenon DEF IcInv
<1>2. due \in Nat
    BY IcmpAssumption DEF IcInv
<1>3. /\ icSending' = icSending \ {r}
      /\ UNCHANGED <<icNow, icMaintain, icAsked, icQueue, icGone>>
    BY Zenon DEF IcRegister
<1>4. PICK k \in (IF IcKeys(r.data) = {} THEN {r.data} ELSE IcKeys(r.data)) :
          icWaiters' = IcWith(icWaiters, k,
                              [client |-> r.client, due |-> due,
                               again |-> \E d \in others : IcEq(d, r.data) \/ IcEq(d, k)])
    BY Zenon DEF IcRegister
<1>5. IcEq(k, r.data) /\ (k = r.data \/ k \in DOMAIN icWaiters)
    BY <1>4, Zenon DEF IcKeys, IcEq
<1> DEFINE w == [client |-> r.client, due |-> due,
                 again |-> \E d \in others : IcEq(d, r.data) \/ IcEq(d, k)]
<1>6. /\ w.client = r.client /\ w.due = due
      /\ w.again = (\E d \in others : IcEq(d, r.data) \/ IcEq(d, k))
    BY Zenon
<1> HIDE DEF w
<1>7. /\ DOMAIN icWaiters' = DOMAIN icWaiters \union {k} /\ icWaiters'[k] = w
      /\ \A x \in DOMAIN icWaiters : x # k => icWaiters'[x] = icWaiters[x]
    BY <1>4, Zenon DEF IcWith, w
<1>8. /\ \A t \in DOMAIN icDeadlines' : t \in Nat /\ icDeadlines'[t] \in Seq(IcData)
      /\ \A t, d : IcPending(t, d)' <=> IcPending(t, d) \/ (t = due /\ d = r.data)
      /\ icMaintain' = "notified" /\ DOMAIN icDeadlines' # {} => icNotify'
    <2> HIDE DEF due
    <2>1. CASE due \in DOMAIN icDeadlines
        <3>1. icDeadlines' = [icDeadlines EXCEPT ![due] = Append(@, r.data)] /\ icNotify' = icNotify
            BY <2>1, Zenon DEF IcRegister, due
        <3>2. /\ DOMAIN icDeadlines' = DOMAIN icDeadlines
              /\ icDeadlines'[due] = Append(icDeadlines[due], r.data)
              /\ \A t \in DOMAIN icDeadlines : t # due => icDeadlines'[t] = icDeadlines[t]
            BY <2>1, <3>1, Zenon
        <3>3. icDeadlines[due] \in Seq(IcData)
            BY <2>1, Zenon DEF IcInv
        <3>4. /\ Append(icDeadlines[due], r.data) \in Seq(IcData)
              /\ IcIn(Append(icDeadlines[due], r.data)) = IcIn(icDeadlines[due]) \union {r.data}
            BY <1>1, <3>3, IcInAppend
        <3>5. \A t \in DOMAIN icDeadlines' : t \in Nat /\ icDeadlines'[t] \in Seq(IcData)
            BY <3>2, <3>4, Zenon DEF IcInv
        <3>6. \A t, d : IcPending(t, d)' <=> IcPending(t, d) \/ (t = due /\ d = r.data)
            BY <2>1, <3>2, <3>4, Zenon DEF IcPending
        <3> QED BY <1>3, <2>1, <3>1, <3>5, <3>6, Zenon DEF IcInv
    <2>2. CASE due \notin DOMAIN icDeadlines
        <3>1. /\ icDeadlines' = IcWith(icDeadlines, due, <<r.data>>)
              /\ icNotify' = (icNotify \/ DOMAIN icDeadlines' = {due})
            BY <2>2, Zenon DEF IcRegister, due
        <3>2. /\ DOMAIN icDeadlines' = DOMAIN icDeadlines \union {due}
              /\ icDeadlines'[due] = <<r.data>>
              /\ \A t \in DOMAIN icDeadlines : icDeadlines'[t] = icDeadlines[t]
            BY <2>2, <3>1, Zenon DEF IcWith
        <3>3. <<r.data>> \in Seq(IcData) /\ IcIn(<<r.data>>) = {r.data}
            <4>1. <<r.data>> \in Seq(IcData) /\ DOMAIN <<r.data>> = {1} /\ <<r.data>>[1] = r.data
                BY <1>1
            <4> QED BY <4>1, Zenon DEF IcIn
        <3>4. \A t \in DOMAIN icDeadlines' : t \in Nat /\ icDeadlines'[t] \in Seq(IcData)
            BY <1>2, <3>2, <3>3, Zenon DEF IcInv, due
        <3>5. \A t, d : IcPending(t, d)' <=> IcPending(t, d) \/ (t = due /\ d = r.data)
            BY <2>2, <3>2, <3>3, Zenon DEF IcPending
        <3>6. DOMAIN icDeadlines = {} => icNotify'
            BY <3>1, <3>2, Zenon
        <3>7. icNotify => icNotify'
            BY <3>1, Zenon
        <3> QED BY <1>3, <3>4, <3>5, <3>6, <3>7, Zenon DEF IcInv
    <2> QED BY <2>1, <2>2, Zenon
<1>9. \A t, d : IcPending(t, d) => d \in others
    BY Zenon DEF IcPending
<1>10. IcWaiterOK(k)'
    <2>1. icWaiters'[k].due \in Nat /\ icWaiters'[k].due <= icNow' + IcTimeout
        BY <1>2, <1>3, <1>6, <1>7
    <2>2. \E x \in icAsked' : x.client = icWaiters'[k].client /\ IcEq(k, x.data)
        BY <1>1, <1>3, <1>5, <1>6, <1>7, Zenon
    <2>3. k = "" => \E x \in icAsked' : x.data = ""
        <3>1. k \in DOMAIN icWaiters /\ k = "" => \E x \in icAsked : x.data = ""
            BY Zenon DEF IcInv, IcWaiterOK
        <3> QED BY <1>1, <1>3, <1>5, <3>1, Zenon
    <2>4. due <= due
        BY <1>2
    <2> HIDE DEF due
    <2>5. icWaiters'[k].again \/
             \A t, d : IcPending(t, d)' /\ IcEq(k, d) => icWaiters'[k].due <= t
        <3>1. SUFFICES ASSUME ~icWaiters'[k].again, NEW t, NEW d, IcPending(t, d)', IcEq(k, d)
                       PROVE  icWaiters'[k].due <= t
            BY Zenon
        <3>2. ~IcPending(t, d)
            BY <1>6, <1>7, <1>9, <3>1, Zenon DEF IcEq
        <3>3. t = due
            BY <1>8, <3>1, <3>2, Zenon
        <3> QED BY <1>6, <1>7, <2>4, <3>3, Zenon
    <2>6. \E t, d : IcPending(t, d)' /\ t <= icWaiters'[k].due /\ IcEq(k, d)
        BY <1>5, <1>6, <1>7, <1>8, <2>4, Zenon
    <2> QED BY <2>1, <2>2, <2>3, <2>5, <2>6, Zenon DEF IcWaiterOK
<1>11. ASSUME NEW x \in DOMAIN icWaiters, x # k
       PROVE  IcWaiterOK(x)'
    <2>1. IcWaiterOK(x) /\ icWaiters'[x] = icWaiters[x]
        BY <1>7, <1>11, Zenon DEF IcInv
    <2>2. icWaiters[x].due <= due
        BY <2>1, Zenon DEF IcWaiterOK
    <2> HIDE DEF due
    <2> QED BY <1>3, <1>8, <2>1, <2>2, Zenon DEF IcWaiterOK
<1>12. \A x \in DOMAIN icWaiters' : IcWaiterOK(x)'
    BY <1>7, <1>10, <1>11, Zenon
<1>13. IcMessagesOK'
    BY <1>3, IcMessagesStay, Zenon
<1>14. icSending' \subseteq icAsked'
    BY <1>3, Zenon DEF IcInv
<1> QED BY <1>3, <1>8, <1>12, <1>13, <1>14, Zenon DEF IcInv

\* What a queue is once a message is appended.
LEMMA IcAppended ==
    \A q \in Seq(IcMessage), x \in IcMessage : Len(q) < IcQueueCap =>
        /\ Append(q, x) \in Seq(IcMessage) /\ Len(Append(q, x)) <= IcQueueCap
        /\ \A i \in DOMAIN Append(q, x) :
              \/ i \in DOMAIN q /\ Append(q, x)[i] = q[i]
              \/ Append(q, x)[i] = x
BY IcmpAssumption, SMTT(30)

\* What the records of a request and of a message are made of.
LEMMA IcRecords ==
    /\ \A r \in [client : IcClient, data : IcData] : r = [client |-> r.client, data |-> r.data]
    /\ \A d \in IcData, a \in {"full", "short"} :
          LET m == [data |-> d, reply |-> a] IN m \in IcMessage /\ m.data = d /\ m.reply = a
BY SMTT(30) DEF IcMessage

\* A message that arrives keeps the invariant.
LEMMA IcReceiveStep ==
    ASSUME IcInv, NEW data \in IcData, NEW reply \in {"full", "short"}, IcReceive(data, reply)
    PROVE  IcInv'
<1> DEFINE quoted == IF reply = "short" THEN "" ELSE data
           m == [data |-> data, reply |-> reply]
<1>1. /\ \E r \in icAsked : r.data = data
      /\ icMaintain' = "start" /\ "start" # "notified"
      /\ UNCHANGED <<icNow, icDeadlines, icNotify, icSending, icAsked, icGone>>
    BY Zenon DEF IcReceive
<1>2. /\ icNow' \in Nat /\ icNow <= icNow'
    BY <1>1 DEF IcInv
<1>3. CASE icWaiters' = icWaiters /\ icQueue' = icQueue
    <2>1. \A k \in DOMAIN icWaiters' : IcWaiterOK(k)'
        BY <1>1, <1>2, <1>3, IcWaitersStay, Zenon
    <2> QED BY <1>1, <1>3, <2>1, IcMessagesStay, Zenon DEF IcInv
<1>4. CASE \E k \in IcKeys(quoted) : icWaiters' = IcWithout(icWaiters, {k}) /\ icQueue' = icQueue
    <2>1. /\ DOMAIN icWaiters' \subseteq DOMAIN icWaiters
          /\ \A k \in DOMAIN icWaiters' : icWaiters'[k] = icWaiters[k]
        BY <1>4, Zenon DEF IcWithout
    <2>2. \A k \in DOMAIN icWaiters' : IcWaiterOK(k)'
        BY <1>1, <1>2, <2>1, IcWaitersStay, Zenon
    <2> QED BY <1>1, <1>4, <2>2, IcMessagesStay, Zenon DEF IcInv
<1>5. ASSUME NEW k \in IcKeys(quoted), NEW c, c = icWaiters[k].client,
             Len(icQueue[c]) < IcQueueCap,
             icQueue' = [icQueue EXCEPT ![c] = Append(@, m)], icWaiters' = icWaiters
      PROVE  IcInv'
    <2>1. k \in DOMAIN icWaiters /\ IcEq(k, quoted) /\ IcWaiterOK(k)
        BY Zenon DEF IcKeys, IcInv
    <2>2. PICK r \in icAsked : r.client = c /\ IcEq(k, r.data)
        BY <1>5, <2>1, Zenon DEF IcWaiterOK
    <2>3. c \in IcClient /\ r \in [client : IcClient, data : IcData]
        BY <2>2, Zenon DEF IcInv
    <2>4. r = [client |-> c, data |-> r.data]
        BY <2>2, <2>3, IcRecords, Zenon
    <2>5. m.data = data /\ m.reply = reply /\ m \in IcMessage
        BY IcRecords, Zenon
    <2>6. IcMessageOK(c, m)
        <3>1. CASE reply = "short"
            BY <2>5, <3>1, Zenon DEF IcMessageOK
        <3>2. CASE reply # "short" /\ data = ""
            BY <1>1, <3>2, Zenon DEF IcMessageOK
        <3>3. CASE reply # "short" /\ k = ""
            BY <2>1, <3>3, Zenon DEF IcMessageOK, IcWaiterOK
        <3>4. CASE reply # "short" /\ data # "" /\ k # ""
            <4>1. k = data
                BY <2>1, <3>4, Zenon DEF IcEq
            <4>2. r.data = "" \/ r.data = data
                BY <2>2, <3>4, <4>1, Zenon DEF IcEq
            <4> QED BY <2>2, <2>4, <2>5, <4>2, Zenon DEF IcMessageOK
        <3> QED BY <3>1, <3>2, <3>3, <3>4, Zenon
    <2> HIDE DEF m
    <2>7. icQueue \in [IcClient -> Seq(IcMessage)] /\ icQueue[c] \in Seq(IcMessage)
        BY <2>3, Zenon DEF IcInv
    <2>8. /\ Append(icQueue[c], m) \in Seq(IcMessage) /\ Len(Append(icQueue[c], m)) <= IcQueueCap
          /\ \A i \in DOMAIN Append(icQueue[c], m) :
                 \/ i \in DOMAIN icQueue[c] /\ Append(icQueue[c], m)[i] = icQueue[c][i]
                 \/ Append(icQueue[c], m)[i] = m
        <3>1. Len(icQueue[c]) < IcQueueCap /\ m \in IcMessage /\ icQueue[c] \in Seq(IcMessage)
            BY <1>5, <2>5, <2>7, Zenon
        <3> QED BY <3>1, IcAppended, Zenon
    <2>9. /\ icQueue' \in [IcClient -> Seq(IcMessage)] /\ icQueue'[c] = Append(icQueue[c], m)
          /\ \A x \in IcClient : x # c => icQueue'[x] = icQueue[x]
        BY <1>5, <2>3, <2>7, <2>8, Zenon
    <2>10. IcMessagesOK'
        <3>1. \A i \in DOMAIN icQueue'[c] : IcMessageOK(c, icQueue'[c][i])
            BY <2>3, <2>6, <2>8, <2>9, Zenon DEF IcInv, IcMessagesOK
        <3>2. \A x \in IcClient : x # c => \A i \in DOMAIN icQueue'[x] : IcMessageOK(x, icQueue'[x][i])
            BY <2>9, Zenon DEF IcInv, IcMessagesOK
        <3> QED BY <1>1, <3>1, <3>2, Zenon DEF IcMessagesOK, IcMessageOK
    <2>11. \A x \in IcClient : Len(icQueue'[x]) <= IcQueueCap
        BY <2>8, <2>9, Zenon DEF IcInv
    <2>12. \A x \in DOMAIN icWaiters' : IcWaiterOK(x)'
        BY <1>1, <1>2, <1>5, IcWaitersStay, Zenon
    <2> QED BY <1>1, <2>9, <2>10, <2>11, <2>12, Zenon DEF IcInv
<1> QED BY <1>3, <1>4, <1>5, Zenon DEF IcReceive

\* The maintenance keeps the invariant.
LEMMA IcMaintainStep ==
    ASSUME IcInv, IcMaintainListeners
    PROVE  IcInv'
<1> DEFINE requests == UNION {IcIn(icDeadlines[t]) : t \in IcExpired}
<1>1. /\ icMaintain' = "start" /\ "start" # "notified"
      /\ icDeadlines' = IcWithout(icDeadlines, IcExpired)
      /\ icWaiters' = IcWithout(icWaiters, {k \in DOMAIN icWaiters : \E d \in requests : IcEq(k, d)})
      /\ UNCHANGED <<icNow, icSending, icAsked, icQueue, icGone>>
    BY Zenon DEF IcMaintainListeners
<1>2. /\ DOMAIN icDeadlines' = DOMAIN icDeadlines \ IcExpired
      /\ \A t \in DOMAIN icDeadlines' : icDeadlines'[t] = icDeadlines[t]
    BY <1>1, Zenon DEF IcWithout
<1>3. \A t, d : IcPending(t, d)' <=> IcPending(t, d) /\ t \notin IcExpired
    BY <1>2, Zenon DEF IcPending
<1>4. ASSUME NEW k \in DOMAIN icWaiters'
      PROVE  IcWaiterOK(k)'
    <2>1. /\ k \in DOMAIN icWaiters /\ icWaiters'[k] = icWaiters[k]
          /\ \A d \in requests : ~IcEq(k, d)
        BY <1>1, Zenon DEF IcWithout
    <2>2. IcWaiterOK(k)
        BY <2>1, Zenon DEF IcInv
    <2>3. \A t, d : IcPending(t, d) /\ IcEq(k, d) => t \notin IcExpired
        BY <2>1, Zenon DEF IcPending
    <2> QED BY <1>1, <1>3, <2>1, <2>2, <2>3, Zenon DEF IcWaiterOK
<1>5. \A t \in DOMAIN icDeadlines' : t \in Nat /\ icDeadlines'[t] \in Seq(IcData)
    BY <1>2, Zenon DEF IcInv
<1> QED BY <1>1, <1>4, <1>5, IcMessagesStay, Zenon DEF IcInv

\* Every step keeps the invariant.
LEMMA IcInvStep == IcInv /\ [IcNext]_icVars => IcInv'
<1> SUFFICES ASSUME IcInv, [IcNext]_icVars PROVE IcInv'
    BY Zenon
<1>1. ASSUME NEW c \in IcClient, NEW d \in IcData, IcSend(c, d) PROVE IcInv'
    <2>1. /\ icAsked \subseteq icAsked' /\ icSending' \subseteq icAsked'
          /\ icAsked' \subseteq icAsked \union {[client |-> c, data |-> d]}
          /\ UNCHANGED <<icNow, icTables, icMaintain, icQueue>>
        BY <1>1, Zenon DEF IcSend, IcInv
    <2>2. icAsked' \subseteq [client : IcClient, data : IcData]
        <3>1. [client |-> c, data |-> d] \in [client : IcClient, data : IcData]
            BY Zenon
        <3> QED BY <2>1, <3>1, Zenon DEF IcInv
    <2>3. icNow' \in Nat /\ icNow <= icNow'
        BY <2>1 DEF IcInv
    <2>4. icDeadlines' = icDeadlines /\ icWaiters' = icWaiters /\ icNotify' = icNotify
        BY <2>1, Zenon DEF icTables
    <2>5. \A k \in DOMAIN icWaiters' : IcWaiterOK(k)'
        BY <2>1, <2>3, <2>4, IcWaitersStay, Zenon
    <2> QED BY <2>1, <2>2, <2>4, <2>5, IcMessagesStay, Zenon DEF IcInv
<1>2. ASSUME NEW c \in IcClient, IcRead(c) \/ IcLeave(c) PROVE IcInv'
    <2>1. /\ UNCHANGED <<icNow, icTables, icMaintain, icSending, icAsked>>
          /\ \/ icQueue[c] # <<>> /\ icQueue' = [icQueue EXCEPT ![c] = Tail(@)]
             \/ icQueue' = [icQueue EXCEPT ![c] = <<>>]
        BY <1>2, Zenon DEF IcRead, IcLeave
    <2>2. icNow' \in Nat /\ icNow <= icNow'
        BY <2>1 DEF IcInv
    <2>3. icDeadlines' = icDeadlines /\ icWaiters' = icWaiters /\ icNotify' = icNotify
        BY <2>1, Zenon DEF icTables
    <2>4. \A k \in DOMAIN icWaiters' : IcWaiterOK(k)'
        BY <2>1, <2>2, <2>3, IcWaitersStay, Zenon
    <2>5. /\ icQueue \in [IcClient -> Seq(IcMessage)] /\ icQueue[c] \in Seq(IcMessage)
          /\ Len(icQueue[c]) <= IcQueueCap
        BY Zenon DEF IcInv
    <2>6. \E q \in Seq(IcMessage) :
              /\ icQueue' = [icQueue EXCEPT ![c] = q] /\ Len(q) <= IcQueueCap
              /\ \A i \in DOMAIN q : \E j \in DOMAIN icQueue[c] : q[i] = icQueue[c][j]
        <3>1. CASE icQueue[c] # <<>> /\ icQueue' = [icQueue EXCEPT ![c] = Tail(@)]
            <4> DEFINE q == Tail(icQueue[c])
            <4>1. /\ q \in Seq(IcMessage) /\ Len(q) <= IcQueueCap
                  /\ \A i \in DOMAIN q : i + 1 \in DOMAIN icQueue[c] /\ q[i] = icQueue[c][i + 1]
                BY <2>5, <3>1, IcmpAssumption, SMTT(30)
            <4>2. icQueue' = [icQueue EXCEPT ![c] = q]
                BY <3>1, Zenon
            <4> HIDE DEF q
            <4> QED BY <4>1, <4>2, Zenon
        <3>2. CASE icQueue' = [icQueue EXCEPT ![c] = <<>>]
            <4>1. <<>> \in Seq(IcMessage) /\ Len(<<>>) <= IcQueueCap /\ DOMAIN <<>> = {}
                BY IcmpAssumption
            <4> QED BY <3>2, <4>1, Zenon
        <3> QED BY <2>1, <3>1, <3>2, Zenon
    <2>7. PICK q \in Seq(IcMessage) :
              /\ icQueue' = [icQueue EXCEPT ![c] = q] /\ Len(q) <= IcQueueCap
              /\ \A i \in DOMAIN q : \E j \in DOMAIN icQueue[c] : q[i] = icQueue[c][j]
        BY <2>6, Zenon
    <2>8. /\ icQueue' \in [IcClient -> Seq(IcMessage)] /\ icQueue'[c] = q
          /\ \A x \in IcClient : x # c => icQueue'[x] = icQueue[x]
        BY <2>5, <2>7, Zenon
    <2>9. \A x \in IcClient : Len(icQueue'[x]) <= IcQueueCap
        BY <2>7, <2>8, Zenon DEF IcInv
    <2>10. IcMessagesOK'
        <3>1. \A i \in DOMAIN icQueue'[c] : IcMessageOK(c, icQueue'[c][i])
            <4>1. \A j \in DOMAIN icQueue[c] : IcMessageOK(c, icQueue[c][j])
                BY Zenon DEF IcInv, IcMessagesOK
            <4> QED BY <2>7, <2>8, <4>1, Zenon
        <3>2. \A x \in IcClient : x # c => \A i \in DOMAIN icQueue'[x] : IcMessageOK(x, icQueue'[x][i])
            BY <2>8, Zenon DEF IcInv, IcMessagesOK
        <3> QED BY <2>1, <3>1, <3>2, Zenon DEF IcMessagesOK, IcMessageOK
    <2> QED BY <2>1, <2>3, <2>4, <2>8, <2>9, <2>10, Zenon DEF IcInv
<1>3. ASSUME IcMaintainStart \/ IcTick \/ UNCHANGED icVars PROVE IcInv'
    <2>1. /\ icNow' \in Nat /\ icNow <= icNow'
        <3>1. icNow' = icNow \/ icNow' = icNow + 1
            BY <1>3, Zenon DEF IcMaintainStart, IcTick, icVars
        <3> QED BY <3>1 DEF IcInv
    <2>2. /\ UNCHANGED <<icTables, icSending, icAsked, icQueue>>
          /\ icMaintain' = "notified" => icMaintain = "notified" \/ DOMAIN icDeadlines = {}
        BY <1>3, Zenon DEF IcMaintainStart, IcTick, icVars
    <2>3. icDeadlines' = icDeadlines /\ icWaiters' = icWaiters /\ icNotify' = icNotify
        BY <2>2, Zenon DEF icTables
    <2>4. \A k \in DOMAIN icWaiters' : IcWaiterOK(k)'
        BY <2>1, <2>2, <2>3, IcWaitersStay, Zenon
    <2> QED BY <2>1, <2>2, <2>3, <2>4, IcMessagesStay, Zenon DEF IcInv
<1> QED BY <1>1, <1>2, <1>3, IcRegisterStep, IcReceiveStep, IcMaintainStep, Zenon DEF IcNext

\* A step drops a waiter only for a reason.
LEMMA IcDropStep ==
    ASSUME IcInv, [IcNext]_icVars, NEW k \in DOMAIN icWaiters \ DOMAIN icWaiters'
    PROVE  \/ icWaiters[k].due <= icNow \/ icWaiters[k].again
           \/ icWaiters[k].client \in icGone
           \/ Len(icQueue[icWaiters[k].client]) = IcQueueCap
<1>1. IcWaiterOK(k)
    BY Zenon DEF IcInv
<1>2. ASSUME NEW data \in IcData, NEW reply \in {"full", "short"}, IcReceive(data, reply)
      PROVE  icWaiters[k].client \in icGone \/ Len(icQueue[icWaiters[k].client]) = IcQueueCap
    <2>1. icWaiters' # icWaiters
        BY Zenon
    <2>2. PICK j : /\ icWaiters' = IcWithout(icWaiters, {j})
                   /\ ~(icWaiters[j].client \notin icGone /\ Len(icQueue[icWaiters[j].client]) < IcQueueCap)
        BY <1>2, <2>1, Zenon DEF IcReceive
    <2>3. j = k
        BY <2>2, Zenon DEF IcWithout
    <2>4. icWaiters[k].client \in IcClient
        BY <1>1, Zenon DEF IcWaiterOK, IcInv
    <2>5. icQueue[icWaiters[k].client] \in Seq(IcMessage) /\ Len(icQueue[icWaiters[k].client]) <= IcQueueCap
        BY <2>4, Zenon DEF IcInv
    <2> QED BY <2>2, <2>3, <2>5, IcmpAssumption, SMTT(30)
<1>3. ASSUME IcMaintainListeners
      PROVE  icWaiters[k].due <= icNow \/ icWaiters[k].again
    <2>1. \E d \in UNION {IcIn(icDeadlines[t]) : t \in IcExpired} : IcEq(k, d)
        BY <1>3, Zenon DEF IcMaintainListeners, IcWithout
    <2>2. PICK t \in IcExpired : \E d \in IcIn(icDeadlines[t]) : IcEq(k, d)
        BY <2>1, Zenon
    <2>3. t \in DOMAIN icDeadlines /\ t <= icNow /\ t \in Nat /\ icNow \in Nat /\ icWaiters[k].due \in Nat
        BY <1>1, Zenon DEF IcExpired, IcInv, IcWaiterOK
    <2>4. icWaiters[k].again \/ icWaiters[k].due <= t
        BY <1>1, <2>2, <2>3, Zenon DEF IcWaiterOK, IcPending
    <2>5. icWaiters[k].due <= t => icWaiters[k].due <= icNow
        BY <2>3, SMTT(30)
    <2> QED BY <2>4, <2>5, Zenon
<1>4. ASSUME NEW r \in icSending, IcRegister(r) PROVE FALSE
    BY <1>4, Zenon DEF IcRegister, IcWith
<1>5. ASSUME icWaiters' = icWaiters PROVE FALSE
    BY <1>5, Zenon
<1> QED BY <1>2, <1>3, <1>4, <1>5, Zenon
        DEF IcNext, icVars, icTables, IcRead, IcLeave, IcSend, IcMaintainStart, IcTick

\* Whatever the clients, the data, the timeout and the queues' capacity:
\* deadlines are watched, a reply reaches the client that sent the request, and
\* no waiter is dropped without a reason.
THEOREM WaitersAreServed == IcSpec => IcWaitersAreServed
<1> DEFINE P == /\ icMaintain = "notified" /\ DOMAIN icDeadlines # {} => icNotify
                /\ \A k \in DOMAIN icWaiters :
                      \E t \in DOMAIN icDeadlines :
                          t <= icWaiters[k].due /\ \E d \in IcIn(icDeadlines[t]) : IcEq(k, d)
                /\ \A c \in IcClient : \A i \in DOMAIN icQueue[c] :
                      LET m == icQueue[c][i] IN
                      \/ [client |-> c, data |-> m.data] \in icAsked
                      \/ m.reply = "short" \/ \E r \in icAsked : r.data = ""
           A == \A k \in DOMAIN icWaiters \ DOMAIN icWaiters' :
                   \/ icWaiters[k].due <= icNow \/ icWaiters[k].again
                   \/ icWaiters[k].client \in icGone
                   \/ Len(icQueue[icWaiters[k].client]) = IcQueueCap
<1>1. IcInit => IcInv
    <2> SUFFICES ASSUME IcInit PROVE IcInv
        BY Zenon
    <2>1. icNow \in Nat /\ <<>> \in Seq(IcMessage) /\ Len(<<>>) <= IcQueueCap /\ DOMAIN <<>> = {}
        BY IcmpAssumption DEF IcInit
    <2>2. DOMAIN icWaiters = {} /\ DOMAIN icDeadlines = {}
        BY Zenon DEF IcInit, IcNone
    <2>3. icAsked = {} /\ icSending = {} /\ icQueue = [c \in IcClient |-> <<>>]
        BY Zenon DEF IcInit
    <2>4. icQueue \in [IcClient -> Seq(IcMessage)] /\ \A c \in IcClient : icQueue[c] = <<>>
        BY <2>1, <2>3, Zenon
    <2>5. IcMessagesOK
        BY <2>1, <2>4, Zenon DEF IcMessagesOK
    <2> QED BY <2>1, <2>2, <2>3, <2>4, <2>5, Zenon DEF IcInv
<1>2. IcInv => P
    BY Zenon DEF IcInv, IcWaiterOK, IcPending, IcMessagesOK, IcMessageOK
<1>3. IcInv /\ [IcNext]_icVars => [A]_icVars
    BY IcDropStep, Zenon
<1> HIDE DEF P, A
<1>4. IcSpec => []P /\ [][A]_icVars
    BY <1>1, <1>2, <1>3, IcInvStep, PTL DEF IcSpec
<1> QED BY <1>4, Zenon DEF IcWaitersAreServed, P, A

-----------------------------------------------------------------------------
(* The SOCKS5 handshake: Socks5Client.                                     *)

\* How long the server's answer to the authentication is, and the length byte
\* of a name.
ScAuthLength(a) == IF a.method \in {UsernamePassword, ExtendedAuth} THEN 2 ELSE 0
ScNameByte(a) == IF a.atype = 3 THEN 1 ELSE 0

\* What is left to read: the stream w from its byte n + 1, cut somewhere.
ScLeft(s, n, w) ==
    /\ s \in Seq(Nat) /\ n + Len(s) <= Len(w)
    /\ \A i \in 1 .. Len(s) : s[i] = w[n + i]

ScGranted == scAnswer.method = NoAuth \/ (scAnswer.method = scAsk.auth /\ scAnswer.status = 0)

\* Every step of the handshake starts at the byte where the message it reads does.
ScInv ==
    /\ scAsk.auth \in {NoAuth, UsernamePassword, ExtendedAuth} /\ scAnswer \in ScAnswers
    /\ scSent \subseteq {scAsk.auth} \intersect {scAnswer.method}
    /\ scStep \in {"start", "selection"} => ScLeft(scIn, 0, ScWire(scAnswer))
    /\ scStep = "authentication" =>
          ScLeft(scIn, 2, ScWire(scAnswer)) /\ scAnswer.method # NoAuth /\ scAnswer.method = scAsk.auth
    /\ scStep \in {"request", "reply"} => ScLeft(scIn, 2 + ScAuthLength(scAnswer), ScWire(scAnswer)) /\ ScGranted
    /\ scStep = "tcp" => scIn \in {<<99>>, <<>>}
    /\ scStep \in {"tcp", "udp"} => scAnswer.code = 0 /\ ScGranted

\* The fields of an answer are numbers.
LEMMA ScFields ==
    ASSUME NEW a \in ScAnswers
    PROVE  /\ a.method \in Nat /\ a.version \in Nat /\ a.status \in {0, 1} /\ a.code \in Nat
           /\ a.reserved \in Nat /\ a.atype \in Nat /\ a.name \in Nat
           /\ ScAuthLength(a) \in {0, 2} /\ ScNameByte(a) \in {0, 1} /\ AddressLength(a) \in Nat
<1>1. /\ a.method \in Nat /\ a.version \in Nat /\ a.status \in {0, 1} /\ a.code \in Nat
      /\ a.reserved \in Nat /\ a.atype \in Nat
    BY SMTT(30) DEF ScAnswers, KnownMethods, NoAuth, UsernamePassword, ExtendedAuth, NoAcceptable
<1>2. a.name \in Nat
    BY ScLengthsAssumption, SMTT(30) DEF ScAnswers
<1>3. ScAuthLength(a) \in {0, 2} /\ ScNameByte(a) \in {0, 1}
    BY Zenon DEF ScAuthLength, ScNameByte
<1>4. AddressLength(a) \in Nat
    BY <1>2, ScLengthsAssumption, Zenon DEF AddressLength
<1> QED BY <1>1, <1>2, <1>3, <1>4, Zenon

\* Concatenation.
LEMMA ScConcat ==
    \A s, t \in Seq(Nat) :
        /\ s \o t \in Seq(Nat) /\ Len(s \o t) = Len(s) + Len(t)
        /\ \A i \in 1 .. Len(s) : (s \o t)[i] = s[i]
        /\ \A i \in 1 .. Len(t) : (s \o t)[Len(s) + i] = t[i]
OBVIOUS

\* Where the fields of the server's messages are in its stream.
LEMMA ScWireFields ==
    ASSUME NEW a \in ScAnswers
    PROVE  LET W == ScWire(a)
               n == ScAuthLength(a) IN
           /\ W \in Seq(Nat) /\ Len(W) = n + ScNameByte(a) + AddressLength(a) + 9
           /\ W[2] = a.method
           /\ n = 2 => W[4] = a.status
           /\ W[n + 4] = a.code /\ W[n + 6] = a.atype
           /\ a.atype = 3 => W[n + 7] = a.name
           /\ W[Len(W)] = 99
<1> DEFINE p1 == <<a.version, a.method>>
           p2 == IF a.method \in {UsernamePassword, ExtendedAuth} THEN <<1, a.status>> ELSE <<>>
           p3 == <<5, a.code, a.reserved, a.atype>>
           p4 == IF a.atype = 3 THEN <<a.name>> ELSE <<>>
           p5 == Zeros(AddressLength(a))
           p6 == Zeros(2)
           p7 == <<99>>
<1>0. ScWire(a) = p1 \o p2 \o p3 \o p4 \o p5 \o p6 \o p7
    BY Zenon DEF ScWire
<1>1. p1 \in Seq(Nat) /\ Len(p1) = 2 /\ p1[2] = a.method
    BY ScFields
<1>2. p2 \in Seq(Nat) /\ Len(p2) = ScAuthLength(a) /\ (Len(p2) = 2 => p2[2] = a.status)
    <2>1. a.status \in Nat
        BY ScFields
    <2>2. CASE a.method \in {UsernamePassword, ExtendedAuth}
        BY <2>1, <2>2 DEF ScAuthLength
    <2>3. CASE a.method \notin {UsernamePassword, ExtendedAuth}
        BY <2>3 DEF ScAuthLength
    <2> QED BY <2>2, <2>3, Zenon
<1>3. p3 \in Seq(Nat) /\ Len(p3) = 4 /\ p3[2] = a.code /\ p3[4] = a.atype
    BY ScFields
<1>4. p4 \in Seq(Nat) /\ Len(p4) = ScNameByte(a) /\ (a.atype = 3 => p4[1] = a.name)
    <2>1. a.name \in Nat
        BY ScFields, Zenon
    <2>2. CASE a.atype = 3
        BY <2>1, <2>2 DEF ScNameByte
    <2>3. CASE a.atype # 3
        BY <2>3 DEF ScNameByte
    <2> QED BY <2>2, <2>3, Zenon
<1>5. p5 \in Seq(Nat) /\ Len(p5) = AddressLength(a)
    <2>1. AddressLength(a) \in Nat
        BY ScFields, Zenon
    <2> QED BY <2>1 DEF Zeros
<1>6. p6 \in Seq(Nat) /\ Len(p6) = 2
    BY DEF Zeros
<1>7. p7 \in Seq(Nat) /\ Len(p7) = 1 /\ p7[1] = 99
    OBVIOUS
<1>8. ScAuthLength(a) \in {0, 2} /\ ScNameByte(a) \in {0, 1} /\ AddressLength(a) \in Nat
    BY ScFields, Zenon
<1> DEFINE n == ScAuthLength(a)
           b == ScNameByte(a)
           l == AddressLength(a)
           q2 == p1 \o p2
           q3 == q2 \o p3
           q4 == q3 \o p4
           q5 == q4 \o p5
           q6 == q5 \o p6
           q7 == q6 \o p7
<1> HIDE DEF p1, p2, p3, p4, p5, p6, p7, n, b, l
<1>9. n \in Nat /\ b \in Nat /\ l \in Nat /\ Len(p2) = n /\ Len(p4) = b /\ Len(p5) = l
    BY <1>2, <1>4, <1>5, <1>8 DEF n, b, l
<1>12. q2 \in Seq(Nat) /\ Len(q2) = n + 2 /\ q2[2] = a.method /\ (n = 2 => q2[4] = a.status)
    <2>1. /\ q2 \in Seq(Nat) /\ Len(q2) = Len(p1) + Len(p2)
          /\ \A i \in 1 .. Len(p1) : q2[i] = p1[i]
          /\ \A i \in 1 .. Len(p2) : q2[Len(p1) + i] = p2[i]
        BY <1>1, <1>2, ScConcat, Zenon
    <2> HIDE DEF q2
    <2>2. n = 2 => q2[Len(p1) + 2] = p2[2]
        BY <1>9, <2>1, SMTT(30)
    <2> QED BY <1>1, <1>2, <1>9, <2>1, <2>2, SMTT(30)
<1> HIDE DEF q2
<1>13. /\ q3 \in Seq(Nat) /\ Len(q3) = n + 6 /\ q3[2] = a.method /\ (n = 2 => q3[4] = a.status)
       /\ q3[n + 4] = a.code /\ q3[n + 6] = a.atype
    <2>1. /\ q3 \in Seq(Nat) /\ Len(q3) = Len(q2) + Len(p3)
          /\ \A i \in 1 .. Len(q2) : q3[i] = q2[i]
          /\ \A i \in 1 .. Len(p3) : q3[Len(q2) + i] = p3[i]
        BY <1>12, <1>3, ScConcat, Zenon
    <2> HIDE DEF q3
    <2>2. q3[Len(q2) + 2] = p3[2] /\ q3[Len(q2) + 4] = p3[4]
        BY <1>3, <2>1, SMTT(30)
    <2> QED BY <1>3, <1>9, <1>12, <2>1, <2>2, SMTT(30)
<1> HIDE DEF q3
<1>14. /\ q4 \in Seq(Nat) /\ Len(q4) = n + 6 + b /\ q4[2] = a.method /\ (n = 2 => q4[4] = a.status)
       /\ q4[n + 4] = a.code /\ q4[n + 6] = a.atype /\ (a.atype = 3 => q4[n + 7] = a.name /\ b = 1)
    <2>1. /\ q4 \in Seq(Nat) /\ Len(q4) = Len(q3) + Len(p4)
          /\ \A i \in 1 .. Len(q3) : q4[i] = q3[i]
          /\ \A i \in 1 .. Len(p4) : q4[Len(q3) + i] = p4[i]
        BY <1>13, <1>4, ScConcat, Zenon
    <2> HIDE DEF q4
    <2>2. a.atype = 3 => b = 1
        BY Zenon DEF b, ScNameByte
    <2>3. b = 1 => q4[Len(q3) + 1] = p4[1]
        BY <1>9, <2>1, SMTT(30)
    <2> QED BY <1>4, <1>9, <1>13, <2>1, <2>2, <2>3, SMTT(30)
<1> HIDE DEF q4
<1>15. /\ q5 \in Seq(Nat) /\ Len(q5) = n + 6 + b + l
       /\ \A i \in 1 .. n + 6 + b : q5[i] = q4[i]
    <2>1. /\ q5 \in Seq(Nat) /\ Len(q5) = Len(q4) + Len(p5)
          /\ \A i \in 1 .. Len(q4) : q5[i] = q4[i]
          /\ \A i \in 1 .. Len(p5) : q5[Len(q4) + i] = p5[i]
        BY <1>14, <1>5, ScConcat, Zenon
    <2> HIDE DEF q5
    <2> QED BY <1>9, <1>14, <2>1, Zenon
<1> HIDE DEF q5
<1>16. /\ q6 \in Seq(Nat) /\ Len(q6) = n + 8 + b + l
       /\ \A i \in 1 .. n + 6 + b : q6[i] = q4[i]
    <2>1. /\ q6 \in Seq(Nat) /\ Len(q6) = Len(q5) + Len(p6)
          /\ \A i \in 1 .. Len(q5) : q6[i] = q5[i]
          /\ \A i \in 1 .. Len(p6) : q6[Len(q5) + i] = p6[i]
        BY <1>15, <1>6, ScConcat, Zenon
    <2> HIDE DEF q6
    <2>2. Len(q6) = n + 8 + b + l
        BY <1>6, <1>9, <1>15, <2>1, SMTT(30)
    <2>3. \A i \in 1 .. n + 6 + b : i \in 1 .. Len(q5)
        BY <1>9, <1>15, SMTT(30)
    <2> QED BY <1>15, <2>1, <2>2, <2>3, Zenon
<1> HIDE DEF q6
<1>17. /\ q7 \in Seq(Nat) /\ Len(q7) = n + 9 + b + l /\ q7[Len(q7)] = 99
       /\ \A i \in 1 .. n + 6 + b : q7[i] = q4[i]
    <2>0. q6 \in Seq(Nat) /\ p7 \in Seq(Nat)
        BY <1>16, <1>7, Zenon
    <2>1. /\ q7 \in Seq(Nat) /\ Len(q7) = Len(q6) + Len(p7)
          /\ \A i \in 1 .. Len(q6) : q7[i] = q6[i]
          /\ \A i \in 1 .. Len(p7) : q7[Len(q6) + i] = p7[i]
        BY <2>0, ScConcat, Zenon
    <2> HIDE DEF q7
    <2>2. q7[Len(q6) + 1] = p7[1]
        BY <1>7, <2>1, SMTT(30)
    <2> QED BY <1>7, <1>9, <1>16, <2>1, <2>2, SMTT(30)
<1>18. ScWire(a) = q7
    BY <1>0, Zenon DEF q2, q3, q4, q5, q6
<1> HIDE DEF q7
<1>19. /\ q7[2] = a.method /\ (n = 2 => q7[4] = a.status)
       /\ q7[n + 4] = a.code /\ q7[n + 6] = a.atype /\ (a.atype = 3 => q7[n + 7] = a.name)
    BY <1>9, <1>14, <1>17, SMTT(30)
<1>20. Len(q7) = n + b + l + 9
    BY <1>9, <1>17
<1> QED BY <1>17, <1>18, <1>19, <1>20, Zenon DEF n, b, l

\* What stands behind the first n elements of a sequence.
LEMMA ScCutTail ==
    ASSUME NEW S, NEW s \in Seq(S), NEW n \in 0 .. Len(s)
    PROVE  /\ SubSeq(s, n + 1, Len(s)) \in Seq(S) /\ Len(SubSeq(s, n + 1, Len(s))) = Len(s) - n
           /\ \A i \in 1 .. Len(s) - n : SubSeq(s, n + 1, Len(s))[i] = s[n + i]
<1>1. SubSeq(s, n + 1, Len(s)) \in Seq(S) /\ Len(SubSeq(s, n + 1, Len(s))) = Len(s) - n
    BY SMTT(30)
<1>2. \A i \in 1 .. Len(s) - n : SubSeq(s, n + 1, Len(s))[i] = s[n + i]
    BY SMTT(30)
<1> QED BY <1>1, <1>2, Zenon

\* Reading a message whole moves to the byte behind it.
LEMMA ScReadOn ==
    ASSUME NEW s, NEW w \in Seq(Nat), NEW n \in Nat, NEW k \in Nat, ScLeft(s, n, w), k <= Len(s)
    PROVE  ScLeft(Drop(s, k), n + k, w)
<1> DEFINE t == Drop(s, k)
<1>1. /\ s \in Seq(Nat) /\ n + Len(s) <= Len(w)
      /\ \A i \in 1 .. Len(s) : s[i] = w[n + i]
    BY Zenon DEF ScLeft
<1>2. /\ t \in Seq(Nat) /\ Len(t) = Len(s) - k
      /\ \A i \in 1 .. Len(s) - k : k + i \in 1 .. Len(s) /\ t[i] = s[k + i]
    <2>1. t = SubSeq(s, k + 1, Len(s))
        BY Zenon DEF Drop
    <2> HIDE DEF t
    <2>2. k \in 0 .. Len(s)
        BY <1>1, SMTT(30)
    <2>3. /\ t \in Seq(Nat) /\ Len(t) = Len(s) - k
          /\ \A i \in 1 .. Len(s) - k : t[i] = s[k + i]
        BY <1>1, <2>1, <2>2, ScCutTail, Zenon
    <2>4. \A i \in 1 .. Len(s) - k : k + i \in 1 .. Len(s)
        BY <1>1, SMTT(30)
    <2> QED BY <2>3, <2>4, Zenon
<1> HIDE DEF t
<1>3. \A i \in 1 .. Len(t) : t[i] = w[n + (k + i)]
    BY <1>1, <1>2, Zenon
<1>4. n + k + Len(t) <= Len(w)
    BY <1>1, <1>2, SMTT(30)
<1>5. \A i \in 1 .. Len(t) : n + (k + i) = n + k + i
    BY <1>2, SMTT(30)
<1>6. \A i \in 1 .. Len(t) : t[i] = w[n + k + i]
    BY <1>3, <1>5, Zenon
<1> QED BY <1>2, <1>4, <1>6, Zenon DEF ScLeft, t

\* Every step keeps the invariant.
LEMMA ScInvStep == ScInv /\ [ScNext]_scVars => ScInv'
<1> SUFFICES ASSUME ScInv, [ScNext]_scVars PROVE ScInv'
    BY Zenon
<1> DEFINE W == ScWire(scAnswer)
           n == ScAuthLength(scAnswer)
<1>0. /\ W \in Seq(Nat) /\ Len(W) = n + ScNameByte(scAnswer) + AddressLength(scAnswer) + 9
      /\ W[2] = scAnswer.method /\ (n = 2 => W[4] = scAnswer.status)
      /\ W[n + 4] = scAnswer.code /\ W[n + 6] = scAnswer.atype
      /\ (scAnswer.atype = 3 => W[n + 7] = scAnswer.name) /\ W[Len(W)] = 99
    BY ScWireFields, Zenon DEF ScInv
<1>1. n \in {0, 2} /\ n \in Nat /\ AddressLength(scAnswer) \in Nat /\ scAnswer.name \in Nat
    BY ScFields, SMTT(30) DEF ScInv
<1>2. CASE ScSelect
    <2>1. /\ scStep = "start" /\ scStep' \in {"selection", "Io"}
          /\ UNCHANGED <<scAsk, scAnswer, scIn, scSent>>
        BY <1>2, Zenon DEF ScSelect
    <2>2. ScLeft(scIn', 0, W)
        BY <2>1, Zenon DEF ScInv
    <2> QED BY <2>1, <2>2, Zenon DEF ScInv
<1>3. CASE ScReadSelection
    <2>1. scStep = "selection" /\ ScLeft(scIn, 0, W) /\ UNCHANGED <<scAsk, scAnswer>>
        BY <1>3, Zenon DEF ScReadSelection, ScInv
    <2>2. CASE scStep' \in {"Protocol", "Io", "Authentication"} /\ scSent' = scSent
        BY <2>1, <2>2, Zenon DEF ScInv
    <2>3. CASE /\ ~(Len(scIn) < 2) /\ scIn' = Drop(scIn, 2)
               /\ \/ /\ scIn[2] = NoAuth
                     /\ scStep' = "request" /\ UNCHANGED scSent
                  \/ /\ scIn[2] # NoAuth /\ scIn[2] = scAsk.auth
                     /\ scStep' \in {"authentication", "Io"}
                     /\ scSent' = scSent \union {scIn[2]}
        <3>1. scIn \in Seq(Nat) /\ \A i \in 1 .. Len(scIn) : scIn[i] = W[0 + i]
            BY <2>1, Zenon DEF ScLeft
        <3>2. 2 <= Len(scIn) /\ 2 \in 1 .. Len(scIn) /\ 0 + 2 = 2 /\ 0 \in Nat /\ 2 \in Nat
            BY <2>3, <3>1, SMTT(30)
        <3>3. scIn[2] = scAnswer.method
            <4>1. scIn[2] = W[0 + 2]
                BY <3>1, <3>2, Zenon
            <4> QED BY <1>0, <3>2, <4>1, Zenon
        <3>4. ScLeft(scIn', 0 + 2, W)
            BY <1>0, <2>1, <2>3, <3>2, ScReadOn, Zenon
        <3>5. ScLeft(scIn', 2, W)
            BY <3>2, <3>4, Zenon
        <3>6. CASE scIn[2] = NoAuth /\ scStep' = "request" /\ UNCHANGED scSent
            <4>1. ScAuthLength(scAnswer) = 0 /\ 2 + 0 = 2
                BY <3>3, <3>6 DEF ScAuthLength, NoAuth, UsernamePassword, ExtendedAuth
            <4>2. ScLeft(scIn', 2 + ScAuthLength(scAnswer), W)
                BY <3>5, <4>1, Zenon
            <4> QED BY <2>1, <3>3, <3>6, <4>2, Zenon DEF ScInv, ScGranted
        <3>7. CASE /\ scIn[2] # NoAuth /\ scIn[2] = scAsk.auth
                   /\ scStep' \in {"authentication", "Io"} /\ scSent' = scSent \union {scIn[2]}
            BY <2>1, <3>3, <3>5, <3>7, Zenon DEF ScInv
        <3> QED BY <2>3, <3>6, <3>7, Zenon
    <2> QED BY <1>3, <2>2, <2>3, Zenon DEF ScReadSelection
<1>4. CASE ScReadAuthentication
    <2>1. /\ scStep = "authentication" /\ ScLeft(scIn, 2, W)
          /\ scAnswer.method # NoAuth /\ scAnswer.method = scAsk.auth
          /\ UNCHANGED <<scAsk, scAnswer, scSent>>
        BY <1>4, Zenon DEF ScReadAuthentication, ScInv
    <2>2. CASE scStep' \in {"Protocol", "Io", "Authentication"}
        BY <2>1, <2>2, Zenon DEF ScInv
    <2>3. CASE ~(Len(scIn) < 2) /\ scIn' = Drop(scIn, 2) /\ scIn[2] = 0 /\ scStep' = "request"
        <3>1. scIn \in Seq(Nat) /\ \A i \in 1 .. Len(scIn) : scIn[i] = W[2 + i]
            BY <2>1, Zenon DEF ScLeft
        <3>2. 2 <= Len(scIn) /\ 2 \in 1 .. Len(scIn) /\ 2 + 2 = 4 /\ 2 \in Nat
            BY <2>3, <3>1, SMTT(30)
        <3>3. ScAuthLength(scAnswer) = 2
            BY <2>1, Zenon DEF ScAuthLength, ScInv
        <3>4. scAnswer.status = 0
            <4>1. scIn[2] = W[2 + 2]
                BY <3>1, <3>2, Zenon
            <4>2. W[4] = scAnswer.status
                BY <1>0, <3>3, Zenon
            <4> QED BY <2>3, <3>2, <4>1, <4>2, Zenon
        <3>5. ScLeft(scIn', 2 + 2, W)
            BY <1>0, <2>1, <2>3, <3>2, ScReadOn, Zenon
        <3>6. ScLeft(scIn', 2 + ScAuthLength(scAnswer), W)
            BY <3>3, <3>5, Zenon
        <3> QED BY <2>1, <2>3, <3>4, <3>6, Zenon DEF ScInv, ScGranted
    <2> QED BY <1>4, <2>2, <2>3, Zenon DEF ScReadAuthentication
<1>5. CASE ScRequest
    <2>1. /\ scStep = "request" /\ scStep' \in {"reply", "Io", "Protocol"}
          /\ UNCHANGED <<scAsk, scAnswer, scIn, scSent>>
        BY <1>5, Zenon DEF ScRequest
    <2>2. ScLeft(scIn, 2 + ScAuthLength(scAnswer), W) /\ ScGranted
        BY <2>1, Zenon DEF ScInv
    <2>3. ScLeft(scIn', 2 + ScAuthLength(scAnswer), W)
        BY <2>1, <2>2, Zenon
    <2> QED BY <2>1, <2>2, <2>3, Zenon DEF ScInv, ScGranted
<1>6. CASE ScReadReply
    <2>1. /\ scStep = "reply" /\ ScLeft(scIn, 2 + n, W) /\ ScGranted
          /\ UNCHANGED <<scAsk, scAnswer, scSent>>
        BY <1>6, Zenon DEF ScReadReply, ScInv
    <2>2. CASE scStep' \in {"Protocol", "Io", "failure"}
        BY <2>1, <2>2, Zenon DEF ScInv
    <2>3. CASE /\ ~(Len(scIn) >= 4 /\ scIn[4] \notin {1, 3, 4})
               /\ ~(Len(scIn) < 4) /\ ~(Len(scIn) < ReplyLength(scIn))
               /\ scIn' = Drop(scIn, ReplyLength(scIn)) /\ scIn[2] = 0
               /\ scStep' \in {"tcp", "udp"}
        <3>1. /\ scIn \in Seq(Nat) /\ 2 + n + Len(scIn) <= Len(W)
              /\ \A i \in 1 .. Len(scIn) : scIn[i] = W[2 + n + i]
            BY <2>1, Zenon DEF ScLeft
        <3>2. scIn[2] = scAnswer.code /\ scIn[4] = scAnswer.atype
            <4>1. /\ Len(scIn) >= 4 /\ 2 \in 1 .. Len(scIn) /\ 4 \in 1 .. Len(scIn)
                  /\ 2 + n + 2 = n + 4 /\ 2 + n + 4 = n + 6
                BY <1>1, <2>3, <3>1, SMTT(30)
            <4>2. scIn[2] = W[2 + n + 2] /\ scIn[4] = W[2 + n + 4]
                BY <3>1, <4>1, Zenon
            <4>3. W[n + 4] = scAnswer.code /\ W[n + 6] = scAnswer.atype
                BY <1>0, Zenon
            <4> QED BY <4>1, <4>2, <4>3, Zenon
        <3> DEFINE R == ReplyLength(scIn)
        <3>3. R \in Nat /\ R <= Len(scIn) /\ Len(W) = 2 + n + R + 1
            <4> HIDE DEF n, W
            <4>0. /\ Len(scIn) \in Nat /\ ~(Len(scIn) < R) /\ n \in Nat
                  /\ Len(W) = n + ScNameByte(scAnswer) + AddressLength(scAnswer) + 9
                BY <1>0, <1>1, <2>3, <3>1
            <4>1. ScNameByte(scAnswer) = (IF scAnswer.atype = 3 THEN 1 ELSE 0)
                BY Zenon DEF ScNameByte
            <4>2. CASE scAnswer.atype = 1
                <5>1. R = 4 + ScLen4 + 2 /\ AddressLength(scAnswer) = ScLen4
                    BY <3>2, <4>2 DEF ReplyLength, AddressLength, R
                <5> HIDE DEF R
                <5> QED BY <4>0, <4>1, <4>2, <5>1, ScLengthsAssumption, SMTT(30)
            <4>3. CASE scAnswer.atype = 4
                <5>1. R = 4 + ScLen6 + 2 /\ AddressLength(scAnswer) = ScLen6
                    BY <3>2, <4>3 DEF ReplyLength, AddressLength, R
                <5> HIDE DEF R
                <5> QED BY <4>0, <4>1, <4>3, <5>1, ScLengthsAssumption, SMTT(30)
            <4>4. CASE scAnswer.atype = 3
                <5>1. R = 5 + (IF Len(scIn) > 4 THEN scIn[5] ELSE 0) + 2 /\ AddressLength(scAnswer) = scAnswer.name
                    BY <3>2, <4>4 DEF ReplyLength, AddressLength, R
                <5>2. Len(scIn) > 4
                    BY <2>3, <3>1, <5>1, SMTT(30)
                <5>3. 5 \in 1 .. Len(scIn) /\ 2 + n + 5 = n + 7
                    BY <1>1, <3>1, <5>2, SMTT(30)
                <5>4. scIn[5] = scAnswer.name
                    <6>1. scIn[5] = W[2 + n + 5]
                        BY <3>1, <5>3, Zenon
                    <6>2. W[n + 7] = scAnswer.name
                        BY <1>0, <4>4, Zenon
                    <6> QED BY <5>3, <6>1, <6>2, Zenon
                <5>5. R = 5 + scAnswer.name + 2
                    BY <5>1, <5>2, <5>4, Zenon
                <5> HIDE DEF R
                <5>6. Len(W) = n + 1 + scAnswer.name + 9
                    BY <4>0, <4>1, <4>4, <5>1, Zenon
                <5>7. scAnswer.name \in Nat /\ n \in Nat /\ Len(scIn) \in Nat /\ ~(Len(scIn) < R)
                    BY <1>1, <4>0, Zenon
                <5> QED BY <5>5, <5>6, <5>7, SMTT(30)
            <4>5. scAnswer.atype \in {1, 3, 4}
                BY <2>3, <3>1, <3>2, SMTT(30)
            <4> QED BY <4>2, <4>3, <4>4, <4>5, Zenon
        <3> HIDE DEF R
        <3>4. ScLeft(scIn', 2 + n + R, W)
            <4>1. 2 + n \in Nat
                BY <1>1
            <4> QED BY <1>0, <2>1, <2>3, <3>3, <4>1, ScReadOn, Zenon DEF R
        <3>5. scIn' \in {<<99>>, <<>>}
            <4> HIDE DEF n, W
            <4>1. /\ scIn' \in Seq(Nat) /\ 2 + n + R + Len(scIn') <= Len(W)
                  /\ \A i \in 1 .. Len(scIn') : scIn'[i] = W[2 + n + R + i]
                BY <3>4, Zenon DEF ScLeft
            <4>2. Len(scIn') \in Nat /\ 2 + n + R + Len(scIn') <= 2 + n + R + 1
                BY <3>3, <4>1
            <4>3. Len(scIn') = 0 \/ Len(scIn') = 1
                <5> DEFINE l == Len(scIn')
                <5> HIDE DEF l
                <5>1. l \in Nat /\ n \in Nat /\ R \in Nat /\ 2 + n + R + l <= 2 + n + R + 1
                    BY <1>1, <3>3, <4>2, Zenon DEF l
                <5>2. l = 0 \/ l = 1
                    BY <5>1, SMTT(30)
                <5> QED BY <5>2, Zenon DEF l
            <4>4. CASE Len(scIn') = 0
                BY <4>1, <4>4, SMTT(30)
            <4>5. CASE Len(scIn') = 1
                <5>1. 1 \in 1 .. Len(scIn') /\ 2 + n + R + 1 = Len(W)
                    BY <3>3, <4>5, SMTT(30)
                <5>2. scIn'[1] = 99
                    <6>1. scIn'[1] = W[2 + n + R + 1]
                        BY <4>1, <5>1, Zenon
                    <6> QED BY <1>0, <5>1, <6>1, ZenonT(30)
                <5> QED BY <4>1, <4>5, <5>2, SMTT(30)
            <4> QED BY <4>3, <4>4, <4>5, Zenon
        <3> QED BY <2>1, <2>3, <3>2, <3>5, Zenon DEF ScInv, ScGranted
    <2> QED BY <1>6, <2>2, <2>3, Zenon DEF ScReadReply
<1>7. CASE ScDone \/ UNCHANGED scVars
    <2>1. UNCHANGED <<scAsk, scAnswer, scIn, scStep, scSent>>
        BY <1>7, Zenon DEF ScDone, scVars
    <2> QED BY <2>1, Zenon DEF ScInv, ScGranted
<1> QED BY <1>2, <1>3, <1>4, <1>5, <1>6, <1>7, Zenon DEF ScNext

\* Whatever the lengths of the addresses and names, wherever the server's stream
\* ends and whatever it answers: a tunnel starts clean, success needs the whole
\* grant, and credentials leave only for the method they were offered for.
THEOREM HandshakeIsExact == ScSpec => []ScHandshakeIsExact
<1>1. ScInit => ScInv
    <2> SUFFICES ASSUME ScInit PROVE ScInv
        BY Zenon
    <2>1. /\ scAsk.auth \in {NoAuth, UsernamePassword, ExtendedAuth} /\ scAnswer \in ScAnswers
          /\ scStep = "start" /\ scSent = {}
        BY Zenon DEF ScInit
    <2>2. PICK cut \in 0 .. Len(ScWire(scAnswer)) : scIn = SubSeq(ScWire(scAnswer), 1, cut)
        BY Zenon DEF ScInit
    <2>3. ScWire(scAnswer) \in Seq(Nat)
        BY <2>1, ScWireFields, Zenon
    <2>4. ScLeft(scIn, 0, ScWire(scAnswer))
        <3> DEFINE W == ScWire(scAnswer)
        <3> HIDE DEF W
        <3>1. /\ scIn \in Seq(Nat) /\ 0 + Len(scIn) <= Len(W)
              /\ \A i \in 1 .. Len(scIn) : scIn[i] = W[0 + i]
            BY <2>2, <2>3, SMTT(30) DEF W
        <3> QED BY <3>1, Zenon DEF ScLeft, W
    <2> QED BY <2>1, <2>4, Zenon DEF ScInv
<1>2. ScInv => ScHandshakeIsExact
    <2>1. ASSUME NEW n \in 0 .. UdpHeader(ScLen6) + 1, NEW atype \in {1, 3, 4}
          PROVE  /\ RecvFrom(n, atype) # "panic"
                 /\ RecvFrom(n, atype) = "ok" =>
                       n >= UdpHeader(IF atype = 1 THEN ScLen4 ELSE ScLen6)
        BY ScLengthsAssumption, SMTT(30) DEF RecvFrom, UdpHeader
    <2> QED BY <2>1, Zenon DEF ScInv, ScGranted, ScHandshakeIsExact
<1> QED BY <1>1, <1>2, ScInvStep, PTL DEF ScSpec

-----------------------------------------------------------------------------
(* The packets of the ICMP listener: IcmpMessages.                         *)

\* skip_ipv6_header's loop runs behind the fixed header of an error message.
ImSkips ==
    /\ imIn.version = 6 /\ imIn.type \in ImErrorTypes(6)
    /\ imPos = 1 => imLeft = imIn.len - 48
    /\ imPos <= Len(imIn.quote.extensions) + 1

\* rfc1071_checksum's loop: the sum and the one's complement sum of the words
\* differ by carries only, and a one's complement sum is 0 only for zeros.
ImCarries(sum, ones) ==
    /\ \E q \in Nat : sum = ones + (ImBase - 1) * q
    /\ ones = 0 => sum = 0

ImInv ==
    /\ ImTypeOK
    /\ imPc = "skip" => ImSkips
    /\ imPc = "sum" => ImCarries(imTotal, imOnes)
    /\ imPc # "done" => imOut = ImNone /\ imSum = -1
    /\ imPc = "listen" => imPos = 1
    /\ ImAnswersAreKnown /\ ImChecksumIsRight

\* Adding a word to both sums.
LEMMA ImAdded ==
    ASSUME NEW t \in Nat, NEW a \in 0 .. (ImBase - 1), NEW w \in 0 .. (ImBase - 1), ImCarries(t, a)
    PROVE  ImOnesPlus(a, w) \in 0 .. (ImBase - 1) /\ ImCarries(t + w, ImOnesPlus(a, w))
<1>0. ImBase \in Nat /\ ImBase > 1
    BY IcmpMessageAssumption
<1>1. PICK q \in Nat : t = a + (ImBase - 1) * q
    BY DEF ImCarries
<1>2. CASE a + w >= ImBase
    <2>1. ImOnesPlus(a, w) = a + w - (ImBase - 1)
        BY <1>0, <1>2 DEF ImOnesPlus
    <2>2. t + w = (a + w - (ImBase - 1)) + (ImBase - 1) * (q + 1) /\ q + 1 \in Nat
        BY <1>0, <1>1
    <2>3. a + w - (ImBase - 1) \in 1 .. (ImBase - 1)
        BY <1>0, <1>2
    <2>4. ImCarries(t + w, a + w - (ImBase - 1))
        <3>1. a + w - (ImBase - 1) # 0
            BY <1>0, <2>3
        <3> QED BY <2>2, <3>1, Zenon DEF ImCarries
    <2>5. a + w - (ImBase - 1) \in 0 .. (ImBase - 1)
        BY <1>0, <2>3
    <2> QED BY <2>1, <2>4, <2>5, Zenon
<1>3. CASE a + w < ImBase
    <2>1. ImOnesPlus(a, w) = a + w
        BY <1>3 DEF ImOnesPlus
    <2>2. t + w = (a + w) + (ImBase - 1) * q
        BY <1>0, <1>1
    <2>3. a + w \in 0 .. (ImBase - 1) /\ (a + w = 0 => t + w = 0)
        BY <1>0, <1>3 DEF ImCarries
    <2> QED BY <2>1, <2>2, <2>3 DEF ImCarries
<1> QED BY <1>0, <1>2, <1>3

\* Quotient and remainder.
LEMMA DivMod ==
    ASSUME NEW B \in Nat, B > 1, NEW t \in Nat
    PROVE  t \div B \in Nat /\ t % B \in 0 .. (B - 1) /\ t = (B * (t \div B)) + (t % B)
OBVIOUS

\* The remainder of a multiple and a bit.
LEMMA ModOf ==
    ASSUME NEW B \in Nat, B > 1, NEW d \in Nat, NEW r \in 0 .. (B - 1)
    PROVE  ((B * d) + r) % B = r
OBVIOUS

\* Two numbers that differ by a multiple of c, neither above c, are equal or are
\* 0 and c.
LEMMA Congruent ==
    ASSUME NEW c \in Nat, c > 0, NEW d \in Nat, NEW q \in Nat, NEW a \in 0 .. c, NEW b \in 0 .. c,
           a + c * q = c * d + b, d > q
    PROVE  a = c /\ b = 0
<1>1. PICK k \in Nat : d = q + k /\ k >= 1
    OBVIOUS
<1>2. c * d = c * q + c * k
    BY <1>1
<1>3. c * k >= c
    BY <1>1
<1> QED BY <1>2, <1>3

\* One fold is enough when it makes no carry.
LEMMA ImFolded ==
    ASSUME NEW t \in Nat, NEW a \in 0 .. (ImBase - 1), ImCarries(t, a),
           (t % ImBase) + (t \div ImBase) < ImBase
    PROVE  Rfc1071Checksum(t) = ImBase - 1 - a
<1>0. ImBase \in Nat /\ ImBase > 1
    BY IcmpMessageAssumption
<1>1. PICK q \in Nat : t = a + (ImBase - 1) * q
    BY DEF ImCarries
<1> DEFINE d == t \div ImBase
           m == t % ImBase
           c == ImBase - 1
<1>2. d \in Nat /\ m \in 0 .. (ImBase - 1) /\ t = (ImBase * d) + m
    BY <1>0, DivMod, Zenon
<1>3. m + d < ImBase /\ c \in Nat /\ c > 0
    BY <1>0
<1>c. Rfc1071Checksum(t) = c - ((d + t) % ImBase)
    BY DEF Rfc1071Checksum
<1> HIDE DEF d, m
<1>4. d + t = (ImBase * d) + (m + d) /\ m + d \in 0 .. (ImBase - 1)
    BY <1>0, <1>2, <1>3
<1>5. (d + t) % ImBase = m + d
    BY <1>0, <1>2, <1>4, ModOf
<1>6. a + c * q = c * d + (m + d)
    BY <1>0, <1>1, <1>2
<1>7. a \in 0 .. c /\ m + d \in 0 .. c /\ (a = 0 => t = 0) /\ t = c * q + a /\ t = c * d + (m + d)
    <2>1. a \in 0 .. c /\ m + d \in 0 .. c
        BY <1>4
    <2>2. a = 0 => t = 0
        BY DEF ImCarries
    <2>3. t = a + c * q
        BY <1>1
    <2> HIDE DEF c
    <2>4. t = c * q + a /\ t = c * d + (m + d)
        BY <2>1, <2>3, <1>2, <1>3, <1>6
    <2> QED BY <2>1, <2>2, <2>4
<1> HIDE DEF c
<1>8. m + d = a
    <2>1. CASE d = q
        BY <2>1, <1>2, <1>3, <1>6
    <2>2. CASE d > q
        <3>1. a = c /\ m + d = 0
            BY <2>2, <1>2, <1>3, <1>6, <1>7, Congruent
        <3>2. d = 0
            BY <3>1, <1>2
        <3> QED BY <3>2, <2>2
    <2>3. CASE d < q
        <3>1. m + d = c /\ a = 0
            <4>1. (m + d) + c * d = c * q + a
                BY <1>2, <1>3, <1>6, <1>7
            <4> QED BY <4>1, <2>3, <1>2, <1>3, <1>7, Congruent
        <3>2. t = 0
            BY <3>1, <1>7
        <3>3. q >= 1 /\ c * q >= c
            BY <2>3, <1>2, <1>3
        <3> QED BY <3>1, <3>2, <3>3, <1>3, <1>7
    <2> QED BY <2>1, <2>2, <2>3, <1>2
<1> QED BY <1>c, <1>5, <1>8 DEF c

\* The parsers read what is there.
LEMMA ImParsersStay ==
    ASSUME NEW p \in ImPacket, Deserialize(p).kind = "message"
    PROVE  Deserialize(p).read <= p.len
<1>0. p.len \in Nat /\ p.type \in Nat /\ p.version \in {4, 6}
    BY SMTT(30) DEF ImPacket
<1>1. /\ ImLengthOK(p.version, p.type, p.len)
      /\ Deserialize(p).read = 4 + (IF p.version = 4 THEN V4Fields(p.type) ELSE V6Fields)
    BY DEF Deserialize, ImError
<1>2. CASE p.version = 4
    <2>1. V4LengthOK(p.type, p.len)
        BY <1>1, <1>2 DEF ImLengthOK
    <2>2. p.len >= 8 /\ (p.type \in {13, 14} => p.len = 20)
        BY <1>0, <2>1 DEF V4LengthOK, ImErrorTypes
    <2> QED BY <1>0, <1>1, <1>2, <2>2 DEF V4Fields
<1>3. CASE p.version = 6
    <2>1. V6LengthOK(p.type, p.len)
        BY <1>1, <1>3 DEF ImLengthOK
    <2>2. p.len >= 8
        BY <1>0, <2>1 DEF V6LengthOK, ImErrorTypes
    <2> QED BY <1>0, <1>1, <1>3, <2>2 DEF V6Fields
<1> QED BY <1>0, <1>2, <1>3

\* A packet is a record of these.
LEMMA ImPacketFields ==
    ASSUME NEW p \in ImPacket
    PROVE  /\ p.version \in {4, 6} /\ p.type \in Nat /\ p.len \in Nat /\ p.echo = ImEcho
           /\ p.quote.words \in Nat /\ p.quote.extensions \in Seq(ImExtension)
           /\ p.quote.proto \in Nat /\ p.quote.type \in Nat
BY DEF ImPacket

\* What ImAnswersAreKnown says of a packet and what is heard of it.
ImKnown(p, echo) ==
    LET replies == p.type = ImReplyType(p.version)
        header == IF p.version = 4 THEN 4 * p.quote.words ELSE 40
        data == p.len - 8 - (IF replies THEN 0 ELSE header + 8)
    IN /\ ImQuotes(p) \/ replies
          => echo = [kind |-> "echo", id |-> "ours", data |-> ImPrefix(ImRequest, data)]
       /\ echo.kind = "echo"
          => \/ replies
             \/ /\ p.type \in ImErrorTypes(p.version)
                /\ p.quote.proto = Icmp(p.version) /\ p.quote.type = ImEchoType(p.version)

\* An echo reply.
LEMMA ImReplyKnown ==
    ASSUME NEW p \in ImPacket, p.type = ImReplyType(p.version)
    PROVE  ImKnown(p, ParseEcho(p.echo, p.len))
<1>1. p.echo = ImEcho /\ p.len \in Nat
    BY ImPacketFields
<1>2. p.len - 8 - 0 = p.len - 8
    BY <1>1, SMTT(30)
<1>3. ParseEcho(p.echo, p.len) = [kind |-> "echo", id |-> "ours", data |-> ImPrefix(ImRequest, p.len - 8)]
    BY <1>1 DEF ParseEcho, ImEcho
<1> QED BY <1>2, <1>3, Zenon DEF ImKnown

\* A packet that is no reply and does not quote the request.
LEMMA ImUnknown ==
    ASSUME NEW p \in ImPacket, p.type # ImReplyType(p.version), ~ImQuotes(p),
           NEW echo, echo.kind # "echo"
    PROVE  ImKnown(p, echo)
BY Zenon DEF ImKnown

\* skip_ipv4_header refuses no packet that is long enough for an echo request
\* behind its header, and otherwise returns what is behind the header.
LEMMA ImSkipsFour ==
    ASSUME NEW n \in Nat, NEW w \in Nat
    PROVE  /\ SkipIpv4Header(n - 8, w) = -1 => ~(w >= 5 /\ n >= 8 + 4 * w + 8)
           /\ SkipIpv4Header(n - 8, w) # -1
              => SkipIpv4Header(n - 8, w) \in Nat /\ SkipIpv4Header(n - 8, w) = n - 8 - 4 * w
<1>1. CASE n - 8 < 20 \/ 4 * w < 20 \/ 4 * w > n - 8
    <2>1. SkipIpv4Header(n - 8, w) = -1
        BY <1>1, Zenon DEF SkipIpv4Header
    <2>2. ~(w >= 5 /\ n >= 8 + 4 * w + 8)
        BY <1>1, SMTT(30)
    <2> QED BY <2>1, <2>2, Zenon
<1>2. CASE ~(n - 8 < 20 \/ 4 * w < 20 \/ 4 * w > n - 8)
    <2>1. SkipIpv4Header(n - 8, w) = n - 8 - 4 * w
        BY <1>2, Zenon DEF SkipIpv4Header
    <2>2. n - 8 - 4 * w \in Nat /\ n - 8 - 4 * w # -1
        BY <1>2, SMTT(30)
    <2> QED BY <2>1, <2>2, Zenon
<1> QED BY <1>1, <1>2, Zenon

\* An error message whose quoted packet is matched.
LEMMA ImMatchKnown ==
    ASSUME NEW p \in ImPacket, p.type \in ImErrorTypes(p.version), NEW left \in Nat,
           ImQuotes(p) => left = p.len - 8 - (IF p.version = 4 THEN 4 * p.quote.words ELSE 40)
    PROVE  ImKnown(p, ImMatch(p, left))
<1>1. /\ p.version \in {4, 6} /\ p.echo = ImEcho /\ p.len \in Nat /\ p.quote.words \in Nat
    BY ImPacketFields
<1>2. p.type # ImReplyType(p.version)
    BY <1>1, SMTT(30) DEF ImErrorTypes, ImReplyType
<1>3. ASSUME ImMatch(p, left).kind = "echo"
      PROVE  p.quote.proto = Icmp(p.version) /\ p.quote.type = ImEchoType(p.version)
    BY <1>3 DEF ImMatch, ImNone
<1>4. ASSUME ImQuotes(p)
      PROVE  ImMatch(p, left) = [kind |-> "echo", id |-> "ours",
                 data |-> ImPrefix(ImRequest,
                            p.len - 8 - ((IF p.version = 4 THEN 4 * p.quote.words ELSE 40) + 8))]
    <2> DEFINE header == IF p.version = 4 THEN 4 * p.quote.words ELSE 40
    <2>1. header \in Nat
        BY <1>1, SMTT(30)
    <2>2. p.len >= 8 + header + 8 /\ p.quote.proto = Icmp(p.version) /\ p.quote.type = ImEchoType(p.version)
        BY <1>4 DEF ImQuotes
    <2>3. left = p.len - 8 - header
        BY <1>4, SMTT(30)
    <2> HIDE DEF header
    <2>4. left >= 8 /\ left # 0 /\ left - 8 = p.len - 8 - (header + 8)
        BY <1>1, <2>1, <2>2, <2>3, SMTT(30)
    <2>5. ImMatch(p, left) = ParseEcho(p.echo, left)
        BY <2>2, <2>4, SMTT(30) DEF ImMatch
    <2>6. ParseEcho(p.echo, left) = [kind |-> "echo", id |-> "ours", data |-> ImPrefix(ImRequest, left - 8)]
        BY <1>1 DEF ParseEcho, ImEcho
    <2> QED BY <2>4, <2>5, <2>6, Zenon DEF header
<1> QED BY <1>2, <1>3, <1>4, Zenon DEF ImKnown

\* The listener hears something of its packet.
LEMMA ImHeardKeeps ==
    ASSUME ImInv, NEW echo, ImHeard(echo), ImKnown(imIn, echo), imPc # "done",
           UNCHANGED <<imIn, imWords, imTotal, imOnes, imSum>>
    PROVE  ImInv'
<1>1. /\ imOut' = [kind |-> "heard", echo |-> echo] /\ imPc' = "done"
      /\ imLeft' = imLeft /\ imPos' = imPos /\ imIn' = imIn /\ imWords' = imWords
      /\ imTotal' = imTotal /\ imOnes' = imOnes /\ imSum' = imSum
    BY Zenon DEF ImHeard
<1>2. imOut'.kind = "heard" /\ imOut'.echo = echo
    BY <1>1
<1>3. ImTypeOK'
    <2>1. imOut'.kind \in {"none", "error", "heard"} /\ imPc' \in {"listen", "skip", "sum", "done"}
        BY <1>1, <1>2
    <2> QED BY <2>1, <1>1, Zenon DEF ImInv, ImTypeOK
<1>4. ImAnswersAreKnown'
    BY <1>1, <1>2, Zenon DEF ImAnswersAreKnown, ImKnown
<1>5. ImChecksumIsRight'
    BY <1>1, Zenon DEF ImInv, ImChecksumIsRight
<1>6. imPc' \notin {"listen", "skip", "sum"} /\ imPc' = "done"
    BY <1>1
<1> QED BY <1>3, <1>4, <1>5, <1>6, Zenon DEF ImInv

\* A step that hears nothing yet.
LEMMA ImSilentKeeps ==
    ASSUME ImInv, ImTypeOK', imPc # "done", imPc' # "done", imOut' = imOut, imSum' = imSum,
           (imPc = "skip" => ImSkips)', (imPc = "sum" => ImCarries(imTotal, imOnes))',
           imPc' # "listen"
    PROVE  ImInv'
<1>1. imOut' = ImNone /\ imSum' = -1
    BY Zenon DEF ImInv
<1>2. imOut'.kind # "heard"
    BY <1>1 DEF ImNone
<1>3. ImAnswersAreKnown'
    BY <1>2, Zenon DEF ImAnswersAreKnown
<1>4. ImChecksumIsRight'
    BY <1>1, Zenon DEF ImChecksumIsRight
<1> QED BY <1>1, <1>3, <1>4, Zenon DEF ImInv

\* The packet, and what is left alone while it is listened to.
LEMMA ImListenKeeps ==
    ASSUME ImInv, ImListen
    PROVE  ImInv'
<1>1. /\ imPc = "listen" /\ imIn \in ImPacket /\ ImTypeOK
      /\ imIn' = imIn /\ imWords' = imWords /\ imTotal' = imTotal /\ imOnes' = imOnes /\ imSum' = imSum
    BY Zenon DEF ImInv, ImTypeOK, ImListen
<1>2. imPc # "done" /\ UNCHANGED <<imIn, imWords, imTotal, imOnes, imSum>>
    BY <1>1
<1>f. imIn.version \in {4, 6} /\ imIn.len \in Nat /\ imIn.quote.words \in Nat
      /\ imIn.quote.extensions \in Seq(ImExtension)
    BY <1>1, ImPacketFields
<1>3. CASE Deserialize(imIn) = ImError
    <2>1. imOut' = ImError /\ imPc' = "done" /\ imLeft' = imLeft /\ imPos' = imPos
        BY <1>3, Zenon DEF ImListen
    <2>2. imOut'.kind = "error"
        BY <2>1 DEF ImError
    <2>3. /\ imOut'.kind \in {"none", "error", "heard"} /\ imOut'.kind # "heard"
          /\ imPc' \in {"listen", "skip", "sum", "done"} /\ imPc' \notin {"listen", "skip", "sum"}
        BY <2>1, <2>2
    <2>4. ImTypeOK'
        BY <1>1, <2>1, <2>3, Zenon DEF ImTypeOK
    <2>5. ImAnswersAreKnown' /\ ImChecksumIsRight'
        BY <1>1, <2>3, Zenon DEF ImAnswersAreKnown, ImChecksumIsRight, ImInv
    <2> QED BY <2>1, <2>3, <2>4, <2>5, Zenon DEF ImInv
<1>4. CASE Deserialize(imIn) # ImError
    <2>0. RespondedEchoRequest(imIn)
        BY <1>4, Zenon DEF ImListen
    <2>1. ASSUME imIn.type = ImReplyType(imIn.version), ImHeard(ParseEcho(imIn.echo, imIn.len))
          PROVE  ImInv'
        BY <2>1, <1>1, <1>2, ImReplyKnown, ImHeardKeeps, Zenon
    <2>2. ASSUME imIn.type \notin ImErrorTypes(imIn.version) \union {ImReplyType(imIn.version)},
                 ImHeard(ImNone)
          PROVE  ImInv'
        <3>1. imIn.type # ImReplyType(imIn.version) /\ ~ImQuotes(imIn)
            BY <2>2, Zenon DEF ImQuotes
        <3>2. ImNone.kind # "echo"
            BY DEF ImNone
        <3>3. ImKnown(imIn, ImNone)
            BY <3>1, <3>2, <1>1, ImUnknown, Zenon
        <3> QED BY <2>2, <3>3, <1>2, ImHeardKeeps, Zenon
    <2>3. ASSUME imIn.type \in ImErrorTypes(imIn.version), imIn.version = 4,
                 NEW left, left = SkipIpv4Header(imIn.len - 8, imIn.quote.words),
                 ImHeard(IF left = -1 THEN ImNone ELSE ImMatch(imIn, left))
          PROVE  ImInv'
        <3>r. imIn.type # ImReplyType(imIn.version)
            BY <2>3 DEF ImErrorTypes, ImReplyType
        <3>1. CASE left = -1
            <4>1. ~ImQuotes(imIn)
                BY <1>f, <2>3, <3>1, ImSkipsFour, Zenon DEF ImQuotes
            <4>2. ImNone.kind # "echo"
                BY DEF ImNone
            <4>3. ImKnown(imIn, ImNone)
                BY <3>r, <4>1, <4>2, <1>1, ImUnknown, Zenon
            <4> QED BY <2>3, <3>1, <4>3, <1>2, ImHeardKeeps, Zenon
        <3>2. CASE left # -1
            <4>1. left \in Nat /\ left = imIn.len - 8 - 4 * imIn.quote.words
                BY <1>f, <2>3, <3>2, ImSkipsFour, Zenon
            <4>2. left = imIn.len - 8 - (IF imIn.version = 4 THEN 4 * imIn.quote.words ELSE 40)
                BY <4>1, <2>3
            <4>3. ImKnown(imIn, ImMatch(imIn, left))
                BY <4>1, <4>2, <2>3, <1>1, ImMatchKnown, Zenon
            <4> QED BY <2>3, <3>2, <4>3, <1>2, ImHeardKeeps, Zenon
        <3> QED BY <3>1, <3>2, Zenon
    <2>4. ASSUME imIn.type \in ImErrorTypes(imIn.version), imIn.version = 6, imIn.len - 8 < 40,
                 ImHeard(ImNone)
          PROVE  ImInv'
        <3>1. imIn.type # ImReplyType(imIn.version)
            BY <2>4 DEF ImErrorTypes, ImReplyType
        <3>2. ~ImQuotes(imIn)
            BY <1>f, <2>4 DEF ImQuotes
        <3>3. ImNone.kind # "echo"
            BY DEF ImNone
        <3>4. ImKnown(imIn, ImNone)
            BY <3>1, <3>2, <3>3, <1>1, ImUnknown, Zenon
        <3> QED BY <2>4, <3>4, <1>2, ImHeardKeeps, Zenon
    <2>5. ASSUME imIn.type \in ImErrorTypes(imIn.version), imIn.version = 6, ~(imIn.len - 8 < 40),
                 imPc' = "skip", imLeft' = imIn.len - 8 - 40, imOut' = imOut, imPos' = imPos
          PROVE  ImInv'
        <3>1. imLeft' \in Nat /\ imLeft' = imIn.len - 48 /\ imPc' \in {"listen", "skip", "sum", "done"}
              /\ imPc' \notin {"done", "sum", "listen"}
            BY <1>f, <2>5
        <3>2. ImTypeOK'
            BY <1>1, <2>5, <3>1, Zenon DEF ImTypeOK
        <3>3. imPos = 1
            BY <1>1, Zenon DEF ImInv
        <3>4. 1 <= Len(imIn.quote.extensions) + 1
            BY <1>f
        <3>5. ImSkips'
            BY <1>1, <2>5, <3>1, <3>3, <3>4, Zenon DEF ImSkips
        <3> QED BY <1>1, <1>2, <2>5, <3>1, <3>2, <3>5, ImSilentKeeps, Zenon
    <2> QED BY <2>0, <2>1, <2>2, <2>3, <2>4, <2>5, Zenon DEF RespondedEchoRequest
<1> QED BY <1>3, <1>4, Zenon

\* skip_ipv6_header visits an extension header.
LEMMA ImSkipKeeps ==
    ASSUME ImInv, SkipIpv6Header
    PROVE  ImInv'
<1> DEFINE h == imIn.quote.extensions[imPos]
<1>1. /\ imPc = "skip" /\ imIn \in ImPacket /\ ImTypeOK /\ ImSkips
      /\ imIn' = imIn /\ imWords' = imWords /\ imTotal' = imTotal /\ imOnes' = imOnes /\ imSum' = imSum
    BY Zenon DEF ImInv, ImTypeOK, SkipIpv6Header
<1>2. imPc # "done" /\ UNCHANGED <<imIn, imWords, imTotal, imOnes, imSum>>
    BY <1>1, SMTT(30)
<1>f. imIn.quote.extensions \in Seq(ImExtension) /\ imPos \in 1 .. Len(imIn.quote.extensions)
    BY <1>1, ImPacketFields DEF SkipIpv6Header, ImTypeOK
<1>3. h.length \in Nat /\ imLeft \in Nat
    <2>1. h \in ImExtension
        BY <1>f
    <2> QED BY <2>1, <1>1 DEF ImExtension, ImTypeOK
<1>4. imIn.type # ImReplyType(imIn.version) /\ ~ImQuotes(imIn)
    BY <1>1, <1>f DEF ImSkips, ImErrorTypes, ImReplyType, ImQuotes
<1>5. \/ ImHeard(ImNone) \/ ImHeard(ImPanic)
      \/ imLeft >= 8 /\ ImSkipping(8)
      \/ imLeft >= 2 + h.length /\ ImSkipping(2 + h.length)
    <2> HIDE DEF h
    <2>1. (~(imLeft < 8) => imLeft >= 8) /\ (~(imLeft - 2 < h.length) => imLeft >= 2 + h.length)
        BY <1>3
    <2> QED BY <2>1, Zenon DEF SkipIpv6Header, h
<1>6. ImNone.kind # "echo" /\ ImPanic.kind # "echo"
    BY DEF ImNone, ImPanic
<1>7. ImKnown(imIn, ImNone) /\ ImKnown(imIn, ImPanic)
    BY <1>1, <1>4, <1>6, ImUnknown, Zenon
<1>8. ASSUME NEW n \in Nat, imLeft >= n, ImSkipping(n) PROVE ImInv'
    <2>1. imLeft' = imLeft - n /\ imPos' = imPos + 1 /\ imPc' = "skip" /\ imOut' = imOut
        BY <1>1, <1>8, Zenon DEF ImSkipping
    <2>2. imLeft' \in Nat /\ imPos' \in Nat \ {0} /\ imPos' # 1 /\ imPos' <= Len(imIn.quote.extensions) + 1
        BY <1>3, <1>8, <1>f, <2>1
    <2>3. imPc' \in {"listen", "skip", "sum", "done"} /\ imPc' \notin {"done", "sum", "listen"}
        BY <2>1
    <2>4. ImTypeOK'
        BY <1>1, <2>1, <2>2, <2>3, Zenon DEF ImTypeOK
    <2>5. ImSkips'
        BY <1>1, <2>2, Zenon DEF ImSkips
    <2> QED BY <1>1, <1>2, <2>1, <2>3, <2>4, <2>5, ImSilentKeeps, Zenon
<1>9. 8 \in Nat /\ 2 + h.length \in Nat
    BY <1>3
<1> HIDE DEF h
<1> QED BY <1>2, <1>5, <1>7, <1>8, <1>9, ImHeardKeeps, Zenon

\* The loop ends.
LEMMA ImSkippedKeeps ==
    ASSUME ImInv, ImSkipped
    PROVE  ImInv'
<1>1. /\ imPc = "skip" /\ imIn \in ImPacket /\ ImTypeOK /\ ImSkips /\ ImHeard(ImMatch(imIn, imLeft))
      /\ imIn' = imIn /\ imWords' = imWords /\ imTotal' = imTotal /\ imOnes' = imOnes /\ imSum' = imSum
    BY Zenon DEF ImInv, ImTypeOK, ImSkipped
<1>2. imPc # "done" /\ UNCHANGED <<imIn, imWords, imTotal, imOnes, imSum>>
    BY <1>1
<1>3. imLeft \in Nat /\ imIn.type \in ImErrorTypes(imIn.version)
    BY <1>1 DEF ImTypeOK, ImSkips
<1>4. ASSUME ImQuotes(imIn)
      PROVE  imLeft = imIn.len - 8 - (IF imIn.version = 4 THEN 4 * imIn.quote.words ELSE 40)
    <2>1. imPos = 1
        BY <1>1, <1>4 DEF ImQuotes, ImSkips, ImTypeOK, ImSkipped
    <2>2. imLeft = imIn.len - 48 /\ imIn.version = 6 /\ imIn.len \in Nat
        BY <1>1, <2>1, ImPacketFields, Zenon DEF ImSkips
    <2> QED BY <2>2, SMTT(30)
<1>5. ImKnown(imIn, ImMatch(imIn, imLeft))
    BY <1>1, <1>3, <1>4, ImMatchKnown, Zenon
<1> QED BY <1>1, <1>2, <1>5, ImHeardKeeps, Zenon

\* rfc1071_checksum visits a word.
LEMMA ImAddKeeps ==
    ASSUME ImInv, ImAddWord
    PROVE  ImInv'
<1>1. /\ ImTypeOK /\ imPc = "sum" /\ imPc' = "sum" /\ imIn' = imIn /\ imOut' = imOut /\ imLeft' = imLeft
      /\ imWords' = imWords /\ imSum' = imSum /\ imPos' = imPos + 1
      /\ imTotal' = imTotal + imWords[imPos] /\ imOnes' = ImOnesPlus(imOnes, imWords[imPos])
      /\ ImCarries(imTotal, imOnes)
    BY Zenon DEF ImInv, ImAddWord
<1>2. /\ imTotal \in Nat /\ imOnes \in 0 .. (ImBase - 1) /\ imWords[imPos] \in 0 .. (ImBase - 1)
      /\ imPos' \in Nat \ {0}
    <2> DEFINE W == 0 .. (ImBase - 1)
    <2>1. imTotal \in Nat /\ imOnes \in W /\ imWords \in Seq(W) /\ imPos \in Nat \ {0} /\ imPos <= Len(imWords)
        BY <1>1, Zenon DEF ImTypeOK, ImAddWord
    <2> HIDE DEF W
    <2>2. imWords[imPos] \in W /\ imPos + 1 \in Nat \ {0}
        BY <2>1
    <2> QED BY <1>1, <2>1, <2>2, Zenon DEF W
<1>3. imOnes' \in 0 .. (ImBase - 1) /\ ImCarries(imTotal', imOnes')
    BY <1>1, <1>2, ImAdded, Zenon
<1>4. imTotal' \in Nat
    BY <1>1, <1>2, IcmpMessageAssumption
<1>5. ImTypeOK'
    BY <1>1, <1>2, <1>3, <1>4, Zenon DEF ImTypeOK
<1>6. imPc' \notin {"skip", "done", "listen"} /\ imPc # "done"
    BY <1>1
<1> QED BY <1>1, <1>3, <1>5, <1>6, ImSilentKeeps, Zenon

\* The checksum is put into the message.
LEMMA ImSerializeKeeps ==
    ASSUME ImInv, ImSerialize
    PROVE  ImInv'
<1>1. /\ ImTypeOK /\ imPc = "sum" /\ imPc' = "done" /\ imIn' = imIn /\ imOut' = imOut /\ imLeft' = imLeft
      /\ imPos' = imPos /\ imWords' = imWords /\ imTotal' = imTotal /\ imOnes' = imOnes
      /\ imSum' = Rfc1071Checksum(imTotal) /\ ImCarries(imTotal, imOnes) /\ ImAnswersAreKnown
    BY Zenon DEF ImInv, ImSerialize
<1>2. imTotal \in Nat /\ imOnes \in 0 .. (ImBase - 1) /\ ImBase \in Nat /\ ImBase > 1
    BY <1>1, IcmpMessageAssumption DEF ImTypeOK
<1>3. imSum' \in -1 .. (ImBase - 1)
    <2> DEFINE d == imTotal \div ImBase
    <2>1. d \in Nat
        BY <1>2, DivMod
    <2>2. imSum' = ImBase - 1 - ((d + imTotal) % ImBase)
        BY <1>1, Zenon DEF Rfc1071Checksum
    <2> HIDE DEF d
    <2>3. d + imTotal \in Nat
        BY <1>2, <2>1
    <2>4. (d + imTotal) % ImBase \in 0 .. (ImBase - 1)
        BY <1>2, <2>3, DivMod
    <2> QED BY <1>2, <2>2, <2>4
<1>4. ImTypeOK'
    <2>1. imPc' \in {"listen", "skip", "sum", "done"}
        BY <1>1
    <2> QED BY <1>1, <1>3, <2>1, Zenon DEF ImTypeOK
<1>5. ImAnswersAreKnown'
    BY <1>1, Zenon DEF ImAnswersAreKnown
<1>6. ImChecksumIsRight'
    BY <1>1, <1>2, ImFolded, Zenon DEF ImChecksumIsRight
<1>7. imPc' \notin {"listen", "skip", "sum"} /\ imPc' = "done"
    BY <1>1
<1> QED BY <1>4, <1>5, <1>6, <1>7, Zenon DEF ImInv

\* What the listener makes of every packet, with any chain of extension
\* headers, and the checksum of every message: a packet is parsed within its
\* bounds, an answer to the request is known for one, nothing else is, and one
\* fold of the carries makes the one's complement sum.
THEOREM PacketsAreUnderstood == ImSpec => []ImPacketsAreUnderstood
<1>1. ImInit => ImInv
    <2> SUFFICES ASSUME ImInit PROVE ImInv
        OBVIOUS
    <2>1. /\ imOut = ImNone /\ imLeft = 0 /\ imPos = 1 /\ imTotal = 0 /\ imOnes = 0 /\ imSum = -1
          /\ imPc \in {"listen", "sum"}
        BY Zenon DEF ImInit
    <2>2. imIn \in ImPacket
        <3>1. ImNoPacket \in ImPacket
            BY DEF ImNoPacket, ImPacket
        <3> QED BY <3>1, IcmpMessageAssumption, Zenon DEF ImInit
    <2>3. imWords \in Seq(0 .. (ImBase - 1))
        <3>1. <<>> \in Seq(0 .. (ImBase - 1))
            OBVIOUS
        <3> QED BY <3>1, IcmpMessageAssumption, Zenon DEF ImInit
    <2>4. imOut.kind = "none" /\ imPc \in {"listen", "skip", "sum", "done"} /\ imPc # "skip"
        BY <2>1 DEF ImNone
    <2>5. 0 \in Nat /\ 1 \in Nat \ {0} /\ 0 \in 0 .. (ImBase - 1) /\ -1 \in -1 .. (ImBase - 1)
        BY IcmpMessageAssumption
    <2>6. ImTypeOK
        BY <2>1, <2>2, <2>3, <2>4, <2>5, Zenon DEF ImTypeOK
    <2>7. ImCarries(imTotal, imOnes)
        <3>1. 0 = 0 + (ImBase - 1) * 0 /\ 0 \in Nat
            BY IcmpMessageAssumption, SMTT(30)
        <3> QED BY <2>1, <3>1, Zenon DEF ImCarries
    <2>8. ImAnswersAreKnown /\ ImChecksumIsRight
        BY <2>1, <2>4 DEF ImAnswersAreKnown, ImChecksumIsRight
    <2> QED BY <2>1, <2>4, <2>6, <2>7, <2>8, Zenon DEF ImInv
<1>2. ImInv /\ [ImNext]_imVars => ImInv'
    <2>1. ASSUME ImInv, UNCHANGED imVars PROVE ImInv'
        <3>1. /\ imPc' = imPc /\ imIn' = imIn /\ imOut' = imOut /\ imLeft' = imLeft /\ imPos' = imPos
              /\ imWords' = imWords /\ imTotal' = imTotal /\ imOnes' = imOnes /\ imSum' = imSum
            BY <2>1, Zenon DEF imVars
        <3>2. ImTypeOK' /\ ImAnswersAreKnown' /\ ImChecksumIsRight'
            BY <2>1, <3>1, Zenon DEF ImInv, ImTypeOK, ImAnswersAreKnown, ImChecksumIsRight
        <3>3. imPc' = "skip" => ImSkips'
            BY <2>1, <3>1, Zenon DEF ImInv, ImSkips
        <3>4. imPc' = "sum" => ImCarries(imTotal', imOnes')
            BY <2>1, <3>1, Zenon DEF ImInv
        <3> QED BY <2>1, <3>1, <3>2, <3>3, <3>4, Zenon DEF ImInv
    <2> QED BY <2>1, ImListenKeeps, ImSkipKeeps, ImSkippedKeeps, ImAddKeeps, ImSerializeKeeps, Zenon
            DEF ImNext
<1>3. ImInv => ImPacketsAreUnderstood
    <2>1. ImInv => ImReadsWithin
        BY ImParsersStay, Zenon DEF ImInv, ImTypeOK, ImReadsWithin
    <2> QED BY <2>1, Zenon DEF ImInv, ImPacketsAreUnderstood
<1> QED BY <1>1, <1>2, <1>3, PTL DEF ImSpec
=============================================================================
