------------------------------ MODULE Admission ------------------------------
(***************************************************************************)
(* How a client's connection is admitted and routed: the prebuffered TLS   *)
(* client hello (lib/src/tls_listener.rs), the filtering rules (rules.rs), *)
(* the choice of host, channel and protocol (tls_demultiplexer.rs), the    *)
(* handlers of core.rs that put them together for TLS and for QUIC, and    *)
(* the hosts' reload.  The generator of client random prefixes             *)
(* (client_random_prefix.rs) and append_allow_rule of endpoint/src/main.rs *)
(* produce the rules that exported clients rely on.                        *)
(*                                                                         *)
(* A host name is a sequence of labels.  A byte of a client random, prefix *)
(* or mask is a set of bits, so that `&` is intersection.                  *)
(***************************************************************************)
EXTENDS Integers, Sequences, FiniteSets

CONSTANTS AdClients,     \* the clients explored: a set of AdClient records
          AdHosts,       \* the host settings explored: a set of AdHostSettings
          AdRules,       \* the rule files explored: a set of sequences of rules
          AdMasks,       \* the masks the generator may produce
          AdPrebuffer,   \* MAX_PREBUFFER_LEN
          AdReadLen,     \* READ_CHUNK_LEN
          AdMaxReloads,
          AdNone,        \* `None`, and what does not parse (model values)
          AdBad

VARIABLES
  adHosts,     \* the settings in force: tls_demux, as TlsDemux::new built it
  adRules,     \* rules_engine
  adExported,  \* the prefix that --generate-client-random-prefix added, or AdNone
  adClient,    \* the client
  adPc,        \* where its connection is
  adBuffered,  \* prebuffer: how many bytes of the hello it holds
  adRandom,    \* client_random as the rules see it, or AdNone
  adPos,       \* prebuffer_pos
  adGiven,     \* the hello's bytes as handed to the TLS library
  adCert,      \* the host whose certificate was presented, or AdNone
  adMeta,      \* tls_connection_meta, or AdNone
  adStale,     \* the hosts were reloaded after the certificate was chosen
  adReloads

adVars == <<adHosts, adRules, adExported, adClient, adPc, adBuffered, adRandom,
            adPos, adGiven, adCert, adMeta, adStale, adReloads>>

Protocols == <<"Http1", "Http2", "Http3">>      \* in the order of `max`
AdRank == [p \in {"Http1", "Http2", "Http3"} |-> CHOOSE i \in 1 .. 3 : Protocols[i] = p]

\* A client: the length of its hello and whether that is a TLS hello at all,
\* the SNI (<<>>: none), the ALPNs, its random and whether its address is
\* inside the network that rules name.
AdClientOK(c) ==
  /\ c.transport \in {"tls", "quic"} /\ c.hello \in Nat \ {0} /\ c.valid \in BOOLEAN
  /\ c.alpn \subseteq (DOMAIN AdRank \cup {"other"}) /\ c.inside \in BOOLEAN

ASSUME AdAssumption ==
  /\ \A c \in AdClients : AdClientOK(c)
  /\ \A h \in AdHosts : DOMAIN h.main # {}
  /\ {AdPrebuffer, AdReadLen} \subseteq Nat \ {0} /\ AdMaxReloads \in Nat

-----------------------------------------------------------------------------
(***************************************************************************)
(* rules.rs.  A rule has a cidr ("any", "net" or AdBad; no cidr is "any"), *)
(* a prefix (AdNone, AdBad, or a value with a mask, AdNone when there is   *)
(* none), an auth key (AdNone or the key) and an action.                   *)
(***************************************************************************)
\* starts_with
AdStartsWith(s, p) == Len(p) <= Len(s) /\ SubSeq(s, 1, Len(p)) = p

\* client_random & mask == prefix & mask, as far as all three reach.
AdMasked(random, value, mask) ==
  LET n == CHOOSE k \in {Len(random), Len(value), Len(mask)} :
             \A l \in {Len(random), Len(value), Len(mask)} : k <= l
  IN n > 0 /\ \A i \in 1 .. n : random[i] \cap mask[i] = value[i] \cap mask[i]

AdPrefixMatches(prefix, random) ==
  /\ random # AdNone /\ prefix # AdBad
  /\ IF prefix.mask = AdNone THEN AdStartsWith(random, prefix.value)
     ELSE AdMasked(random, prefix.value, prefix.mask)

\* Rule::matches.  The auth key goes before the prefix; whether a random was
\* made with a key is the client's `key` (the HKDF and AES steps).
AdRuleMatches(r, c, random) ==
  /\ r.cidr # AdBad /\ (r.cidr = "net" => c.inside)
  /\ IF r.key # AdNone THEN random # AdNone /\ c.sni # <<>> /\ c.key = r.key
     ELSE r.prefix = AdNone \/ AdPrefixMatches(r.prefix, random)

\* RulesEngine::evaluate
AdEvaluate(rules, c, random) ==
  LET prefixed == \E i \in DOMAIN rules : rules[i].prefix # AdNone
      keyed == \E i \in DOMAIN rules : rules[i].key # AdNone
      matching == {i \in DOMAIN rules : AdRuleMatches(rules[i], c, random)}
  IN IF (random = AdNone /\ (prefixed \/ keyed)) \/ (c.sni = <<>> /\ keyed)
     THEN "deny"
     ELSE IF matching = {} THEN "allow"
     ELSE rules[CHOOSE i \in matching : \A j \in matching : i <= j].action

\* generate_value: random bits under the mask.
AdGenerate(mask) == {v \in [1 .. Len(mask) -> UNION {SUBSET mask[i] : i \in 1 .. Len(mask)}] :
                       \A i \in 1 .. Len(mask) : v[i] \subseteq mask[i]}

\* A rule file is a sequence; every hello has a random; `None` and what does not
\* parse are no values.
ASSUME AdValuesAssumption ==
  /\ \A file \in AdRules : file \in Seq({file[i] : i \in DOMAIN file})
  /\ \A c \in AdClients : c.random # AdNone
  /\ AdNone \notin AdMasks /\ AdBad # "any"
  /\ \A m \in AdMasks : \A v \in AdGenerate(m) : [value |-> v, mask |-> m] # AdBad

\* Mutant: the rule goes behind the others.
MutantAdAppendAllowRule(rules, value, mask) ==
  Append(rules, [cidr |-> "any", prefix |-> [value |-> value, mask |-> mask],
                 key |-> AdNone, action |-> "allow"])

\* append_allow_rule: the new rule goes before all others.
AdAppendAllowRule(rules, value, mask) ==
  <<[cidr |-> "any", prefix |-> [value |-> value, mask |-> mask], key |-> AdNone,
     action |-> "allow"]>> \o rules

-----------------------------------------------------------------------------
(***************************************************************************)
(* tls_demultiplexer.rs                                                    *)
(***************************************************************************)
\* TlsDemux::new: of several main hosts that allow one SNI, and of several
\* first main hosts, the order of a hash map picks one.
AdBuild(h) ==
  LET allowed == UNION {h.main[m] : m \in DOMAIN h.main}
  IN {[settings |-> h, first |-> f, owner |-> o] :
        f \in DOMAIN h.main,
        o \in {o \in [allowed -> DOMAIN h.main] : \A s \in allowed : s \in h.main[o[s]]}}

AdHighest(protocols) == CHOOSE p \in protocols : \A q \in protocols : AdRank[q] <= AdRank[p]

\* select_tunnel_channel_protocol
AdTunnelProtocol(h, alpn) ==
  LET usable == (alpn \ {"other"}) \cap h.protocols
  IN IF usable # {} THEN AdHighest(usable)
     ELSE IF alpn = {} /\ "Http1" \in h.protocols THEN "Http1" ELSE AdNone

AdProxyProtocol(alpn) ==
  LET usable == alpn \cap {"Http1", "Http3"}
  IN IF usable # {} THEN AdHighest(usable) ELSE IF alpn = {} THEN "Http1" ELSE AdNone

AdServiceProtocol(alpn) == IF alpn \ {"other"} = {} THEN "Http1" ELSE AdHighest(alpn \ {"other"})

AdChosen(channel, host, creds, protocol) ==
  IF protocol = AdNone THEN AdNone
  ELSE [channel |-> channel, host |-> host, creds |-> creds, protocol |-> protocol]

\* TlsDemux::select; AdNone when it fails.
AdSelect(d, alpn, sni) ==
  LET h == d.settings
  IN IF alpn # {} /\ alpn \ {"other"} = {} THEN AdNone
     ELSE IF sni \in DOMAIN h.main
          THEN AdChosen("tunnel", sni, FALSE, AdTunnelProtocol(h, alpn))
     ELSE IF sni \in h.proxy THEN AdChosen("proxy", sni, FALSE, AdProxyProtocol(alpn))
     ELSE IF sni \in h.ping THEN AdChosen("ping", sni, FALSE, AdServiceProtocol(alpn))
     ELSE IF sni \in h.speedtest THEN AdChosen("speedtest", sni, FALSE, AdServiceProtocol(alpn))
     ELSE IF Len(sni) > 1 /\ Tail(sni) \in DOMAIN h.main
          THEN AdChosen("tunnel", Tail(sni), TRUE, AdTunnelProtocol(h, alpn))
     ELSE IF sni \in DOMAIN d.owner
          THEN AdChosen("tunnel", d.owner[sni], FALSE, AdTunnelProtocol(h, alpn))
     ELSE AdNone

\* get_quic_connection_bootstrap_meta
AdBootstrap(d) == [channel |-> "tunnel", host |-> d.first, creds |-> FALSE, protocol |-> "Http3"]

-----------------------------------------------------------------------------
AdPcs == {"prebuffer", "hello", "handshake", "quic", "served", "dropped"}

\* The type invariant.
AdTypeOK ==
  /\ adHosts.settings \in AdHosts
  /\ adClient \in AdClients /\ adPc \in AdPcs
  /\ adBuffered \in 0 .. AdPrebuffer /\ adPos \in 0 .. adBuffered
  /\ adRandom \in {AdNone, adClient.random}
  /\ adReloads \in 0 .. AdMaxReloads /\ adStale \in BOOLEAN

AdInit ==
  /\ \E h \in AdHosts : adHosts \in AdBuild(h)
  /\ \E file \in AdRules :
       \/ adRules = file /\ adExported = AdNone
       \/ \E m \in AdMasks : \E v \in AdGenerate(m) :
            /\ adRules = AdAppendAllowRule(file, v, m)
            /\ adExported = [value |-> v, mask |-> m]
  /\ adClient \in AdClients
  /\ adClient.transport = "quic" => "Http3" \in adHosts.settings.protocols
  /\ adPc = IF adClient.transport = "tls" THEN "prebuffer" ELSE "quic"
  /\ adBuffered = 0 /\ adRandom = AdNone /\ adPos = 0 /\ adGiven = <<>>
  /\ adCert = AdNone /\ adMeta = AdNone /\ adStale = FALSE /\ adReloads = 0

\* reload_tls_hosts_settings, when the new settings are valid.
AdReload ==
  /\ adReloads < AdMaxReloads /\ adReloads' = adReloads + 1
  /\ \E h \in AdHosts : adHosts' \in AdBuild(h)
  /\ adHosts'.settings.protocols = adHosts.settings.protocols
  /\ adStale' = (adCert # AdNone)
  /\ UNCHANGED <<adRules, adExported, adClient, adPc, adBuffered, adRandom, adPos, adGiven,
                 adCert, adMeta>>

\* Mutant: one read is taken for the whole hello.
MutantAdReadHello ==
  /\ adPc = "prebuffer"
  /\ \E n \in 1 .. AdReadLen :
       /\ n <= AdPrebuffer /\ n <= adClient.hello
       /\ adBuffered' = n
  /\ adRandom' = IF adClient.valid /\ adBuffered' = adClient.hello THEN adClient.random ELSE AdNone
  /\ adPc' = "hello"
  /\ UNCHANGED <<adHosts, adRules, adExported, adClient, adPos, adGiven, adCert, adMeta,
                 adStale, adReloads>>

\* One turn of read_client_random_and_wrap_stream: extract_client_random on
\* what is buffered, then perhaps another read.  A hello that is none is
\* found out at its first byte or at a later one.
AdReadHello ==
  /\ adPc = "prebuffer"
  /\ LET c == adClient
         full == adBuffered = AdPrebuffer
         known == c.valid /\ adBuffered = c.hello
         refuted == ~c.valid /\ adBuffered > 0
     IN \/ /\ full \/ known \/ refuted
           /\ adPc' = "hello"
           /\ adRandom' = IF known /\ ~full THEN c.random ELSE AdNone
           /\ UNCHANGED adBuffered
        \/ /\ ~full /\ ~known
           /\ \E n \in 1 .. AdReadLen :
                /\ adBuffered + n <= AdPrebuffer /\ adBuffered + n <= c.hello
                /\ adBuffered' = adBuffered + n
           /\ UNCHANGED <<adPc, adRandom>>
  /\ UNCHANGED <<adHosts, adRules, adExported, adClient, adPos, adGiven, adCert, adMeta,
                 adStale, adReloads>>

\* PrebufferedTcpStream::poll_read, called by the TLS library with any buffer.
AdPollRead ==
  /\ adPc = "hello" /\ Len(adGiven) < adClient.hello
  /\ \E room \in 1 .. AdReadLen :
       LET left == adBuffered - adPos
           copied == IF left < room THEN left ELSE room
           coming == adClient.hello - Len(adGiven)
           fresh == IF coming < room THEN coming ELSE room
       IN IF adPos < adBuffered
          THEN /\ adGiven' = adGiven \o [i \in 1 .. copied |-> adPos + i]
               /\ adPos' = adPos + copied
          ELSE /\ adGiven' = adGiven \o [i \in 1 .. fresh |-> Len(adGiven) + i]
               /\ UNCHANGED adPos
  /\ UNCHANGED <<adHosts, adRules, adExported, adClient, adPc, adBuffered, adRandom, adCert,
                 adMeta, adStale, adReloads>>

\* The connection is given up: the client leaves, the TLS library fails, a
\* timer expires.
AdGiveUp ==
  /\ adPc \notin {"served", "dropped"} /\ adPc' = "dropped"
  /\ UNCHANGED <<adHosts, adRules, adExported, adClient, adBuffered, adRandom, adPos, adGiven,
                 adCert, adMeta, adStale, adReloads>>

\* on_new_tls_connection up to the handshake: nothing is awaited between the
\* rules and the choice of the host.
AdOnNewTlsConnection ==
  /\ adPc = "hello" /\ adClient.valid /\ Len(adGiven) = adClient.hello
  /\ LET meta == AdSelect(adHosts, adClient.alpn, adClient.sni)
         refused == \/ adClient.sni = <<>>
                    \/ AdEvaluate(adRules, adClient, adRandom) = "deny"
                    \/ meta = AdNone
     IN IF refused THEN adPc' = "dropped" /\ UNCHANGED <<adMeta, adCert>>
        ELSE IF meta.protocol = "Http3"
        THEN adPc' = "dropped" /\ UNCHANGED <<adMeta, adCert>>
        ELSE adPc' = "handshake" /\ adMeta' = meta /\ adCert' = meta.host
  /\ UNCHANGED <<adHosts, adRules, adExported, adClient, adBuffered, adRandom, adPos, adGiven,
                 adStale, adReloads>>

\* The handshake is accepted and the channel's handler takes over.
AdTlsAccepted ==
  /\ adPc = "handshake" /\ adPc' = "served"
  /\ UNCHANGED <<adHosts, adRules, adExported, adClient, adBuffered, adRandom, adPos, adGiven,
                 adCert, adMeta, adStale, adReloads>>

\* The select_certificate callback of a QUIC handshake: the host of a known
\* SNI, the bootstrap host's certificate otherwise.
AdSelectCertificate(d, sni) ==
  LET meta == AdSelect(d, {"Http3"}, sni)
  IN IF meta = AdNone THEN d.first ELSE meta.host

\* on_new_connection, with the certificate its TLS callback chose.
AdQuicHello ==
  /\ adPc = "quic" /\ adCert = AdNone
  /\ adCert' = AdSelectCertificate(adHosts, adClient.sni)
  /\ adMeta' = AdBootstrap(adHosts)
  /\ UNCHANGED <<adHosts, adRules, adExported, adClient, adPc, adBuffered, adRandom, adPos,
                 adGiven, adStale, adReloads>>

\* Mutant: the bootstrap meta is kept.
MutantAdOnNewQuicConnection ==
  /\ adPc = "quic" /\ adCert # AdNone
  /\ adRandom' = adClient.random
  /\ adPc' = IF AdEvaluate(adRules, adClient, adClient.random) = "deny" THEN "dropped" ELSE "served"
  /\ UNCHANGED <<adHosts, adRules, adExported, adClient, adBuffered, adPos, adGiven, adCert,
                 adMeta, adStale, adReloads>>

\* finalize_established_connection and on_new_quic_connection: the host is
\* chosen again, a failure leaves the bootstrap meta; then the rules, with the
\* SNI of the meta (a key's random was made for the client's own SNI).
AdOnNewQuicConnection ==
  /\ adPc = "quic" /\ adCert # AdNone
  /\ LET meta == AdSelect(adHosts, {"Http3"}, adClient.sni)
         judged == IF meta # AdNone THEN adClient
                   ELSE [adClient EXCEPT !.sni = adMeta.host, !.key = AdNone]
     IN /\ adMeta' = IF meta = AdNone THEN adMeta ELSE meta
        /\ adPc' = IF AdEvaluate(adRules, judged, adClient.random) = "deny"
                   THEN "dropped" ELSE "served"
  /\ adRandom' = adClient.random
  /\ UNCHANGED <<adHosts, adRules, adExported, adClient, adBuffered, adPos, adGiven, adCert,
                 adStale, adReloads>>

AdNext ==
  \/ AdReload \/ AdReadHello \/ AdPollRead \/ AdGiveUp \/ AdOnNewTlsConnection
  \/ AdTlsAccepted \/ AdQuicHello \/ AdOnNewQuicConnection

AdSpec == AdInit /\ [][AdNext]_adVars

-----------------------------------------------------------------------------
\* The TLS library is given the client's bytes, each once and in order, although
\* the first of them were read ahead of it (PrebufferedTcpStream); and however
\* a hello is cut into reads, the rules see its client random, as long as it is
\* shorter than the prebuffer (tls_listener.rs:47).
AdHelloIsWhole ==
  /\ \A i \in DOMAIN adGiven : adGiven[i] = i
  /\ adPc = "hello" /\ adClient.valid /\ adClient.hello < AdPrebuffer => adRandom = adClient.random

\* A client that was given a generated prefix, and builds its random as the
\* mask says, is not turned away by the rules, whatever was in the file before
\* the prefix was added.  (A key rule asks every client for an SNI.)
AdGeneratedClientIsAllowed ==
  /\ adExported # AdNone /\ adClient.sni # <<>>
  /\ AdMasked(adClient.random, adExported.value, adExported.mask)
  => AdEvaluate(adRules, adClient, adClient.random) = "allow"

\* A connection is served on the host whose certificate it was shown, unless
\* the hosts were reloaded during its handshake.  One over TLS is never served
\* as HTTP/3 (make_tcp_http_codec would panic), and a tunnel only over a
\* protocol that is enabled.
AdServedAsChosen ==
  adPc = "served" =>
    /\ ~adStale => adCert = adMeta.host
    /\ adMeta.protocol = "Http3" <=> adClient.transport = "quic"
    /\ adMeta.channel = "tunnel" => adMeta.protocol \in adHosts.settings.protocols
=============================================================================
