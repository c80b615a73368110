---------------------------- MODULE HttpMessages ----------------------------
(***************************************************************************)
(* The translation of message heads between HTTP versions: decode_request  *)
(* and encode_request (http1_codec.rs), serialize_request and              *)
(* convert_response (http_forwarded_stream.rs), one step for each header   *)
(* their loops visit.  A header is a name, the number its value stands     *)
(* for, and the names a Connection header lists; a Content-Length is a     *)
(* number.                                                                 *)
(***************************************************************************)
EXTENDS Integers, Sequences

CONSTANTS
    HmName,         \* the names of headers
    HmHeader,       \* the headers a message may have
    HmExchanges     \* the requests explored, each with its response

\* A body length is a number or one of these.
HmChunked == -2
HmUnspecified == -1
HmNoHost == 0       \* the host of a request target that names none

HmField == [name : HmName, value : Nat, names : SUBSET HmName]

\* HTTP/2 and HTTP/3 requests have an :authority.
HmExchange(x) ==
    /\ x.req \in [version : {"1.1", "2"}, method : STRING, authority : Nat, headers : Seq(HmHeader)]
    /\ x.req.version = "2" => x.req.authority # HmNoHost
    /\ x.res \in [code : Nat, headers : Seq(HmHeader)]

\* A Host header without a host makes no URI.
ASSUME HeadsAssumption ==
    /\ {"host", "content-length", "transfer-encoding", "connection", "keep-alive", "upgrade",
        "proxy-authorization", "proxy-connection"} \subseteq HmName
    /\ HmHeader \subseteq HmField
    /\ \A h \in HmHeader : h.name = "host" => h.value # HmNoHost
    /\ \A x \in HmExchanges : HmExchange(x)

VARIABLES
    hmReq,          \* the request as the client sent it
    hmRes,          \* the response as the origin sent it
    hmPc,           \* the loop that runs, or the last result
    hmPos,          \* the header it visits
    hmHost,         \* the authority of the request's URI
    hmHeaders,      \* the HeaderMap of the request, in the order it is read
    hmHosted,       \* host_inserted
    hmLength,       \* body_length
    hmDrop,         \* drop_headers
    hmOut           \* the headers written

hmVars == <<hmReq, hmRes, hmPc, hmPos, hmHost, hmHeaders, hmHosted, hmLength, hmDrop, hmOut>>

HmStart(x) ==
    /\ hmReq = x.req /\ hmRes = x.res
    /\ hmPc = "decode" /\ hmPos = 1 /\ hmHost = x.req.authority /\ hmHeaders = <<>>
    /\ hmHosted = FALSE /\ hmLength = HmUnspecified /\ hmDrop = {} /\ hmOut = <<>>
HmInit == \E x \in HmExchanges : HmStart(x)

-----------------------------------------------------------------------------
\* http::HeaderMap yields the values of one name together, where the first
\* stood: a header goes behind the last one of its name, or to the end.
HmLast(headers, name, k) ==
    \/ k = Len(headers) /\ \A i \in 1..Len(headers) : headers[i].name # name
    \/ k \in 1..Len(headers) /\ headers[k].name = name
       /\ \A i \in (k + 1)..Len(headers) : headers[i].name # name
HmInserted(headers, k, h) ==
    [i \in 1..(Len(headers) + 1) |->
        IF i <= k THEN headers[i] ELSE IF i = k + 1 THEN h ELSE headers[i - 1]]

\* decode_request: the first Host header is the host of a target that has none
\* and is no header then, later ones stay.
DecodeHeader ==
    /\ hmPc = "decode" /\ hmPos <= Len(hmReq.headers) /\ hmPos' = hmPos + 1
    /\ LET h == hmReq.headers[hmPos] IN
       IF h.name = "host" /\ hmHost = HmNoHost THEN hmHost' = h.value /\ UNCHANGED hmHeaders
       ELSE /\ \E k \in 0..Len(hmHeaders) :
                  HmLast(hmHeaders, h.name, k) /\ hmHeaders' = HmInserted(hmHeaders, k, h)
            /\ UNCHANGED hmHost
    /\ UNCHANGED <<hmReq, hmRes, hmPc, hmHosted, hmLength, hmDrop, hmOut>>

HmDecoded == hmPc = "decode" /\ hmPos > Len(hmReq.headers)
HmHostHeader == [name |-> "host", value |-> hmHost, names |-> {}]

\* into_forwarded up to serialize_request's loop; a request it refuses is
\* answered 400.
HmForward ==
    /\ HmDecoded
    /\ hmPc' = IF hmHost = HmNoHost THEN "refused" ELSE "serialize"
    /\ hmPos' = 1
    /\ UNCHANGED <<hmReq, hmRes, hmHost, hmHeaders, hmHosted, hmLength, hmDrop, hmOut>>

\* encode_request, for the reverse proxy: the target's host, then the headers.
EncodeRequest ==
    /\ HmDecoded
    /\ hmOut' = (IF hmHost = HmNoHost THEN <<>> ELSE <<HmHostHeader>>) \o hmHeaders
    /\ hmPc' = "proxied"
    /\ UNCHANGED <<hmReq, hmRes, hmPos, hmHost, hmHeaders, hmHosted, hmLength, hmDrop>>

\* serialize_request's arm for Host: a second one is an error.
SerializeHost ==
    IF hmHosted THEN hmPc' = "refused" /\ UNCHANGED <<hmHosted, hmLength, hmOut>>
    ELSE /\ hmHosted' = TRUE /\ hmOut' = Append(hmOut, HmHostHeader)
         /\ UNCHANGED <<hmPc, hmLength>>

\* Mutant: the first of Content-Length and Transfer-Encoding counts.
MutantRequestLength(length, h) ==
    IF length # HmUnspecified THEN length
    ELSE IF h.name = "content-length" THEN h.value
    ELSE IF h.name = "transfer-encoding" /\ h.value = 1 THEN HmChunked ELSE length

\* Its body length: `chunked` counts wherever it stands.
RequestLength(length, h) ==
    IF h.name = "content-length" /\ length = HmUnspecified THEN h.value
    ELSE IF h.name = "transfer-encoding" /\ h.value = 1 THEN HmChunked
    ELSE length

\* Its other arm: a second Content-Length is an error.
SerializeOther(h) ==
    IF h.name = "content-length" /\ hmLength >= 0
    THEN hmPc' = "refused" /\ UNCHANGED <<hmHosted, hmLength, hmOut>>
    ELSE /\ hmLength' = RequestLength(hmLength, h) /\ hmOut' = Append(hmOut, h)
         /\ UNCHANGED <<hmPc, hmHosted>>

SerializeHeader ==
    /\ hmPc = "serialize" /\ hmPos <= Len(hmHeaders) /\ hmPos' = hmPos + 1
    /\ LET h == hmHeaders[hmPos] IN
       IF h.name \in {"proxy-authorization", "proxy-connection"}
       THEN UNCHANGED <<hmPc, hmHosted, hmLength, hmOut>>
       ELSE IF h.name = "host" THEN SerializeHost ELSE SerializeOther(h)
    /\ UNCHANGED <<hmReq, hmRes, hmHost, hmHeaders, hmDrop>>

SerializeRequest ==
    /\ hmPc = "serialize" /\ hmPos > Len(hmHeaders)
    /\ hmPc' = "sent"
    /\ hmOut' = IF hmHosted THEN hmOut ELSE Append(hmOut, HmHostHeader)
    /\ hmLength' = IF hmReq.method = "HEAD" THEN 0
                   ELSE IF hmLength # HmUnspecified THEN hmLength
                   ELSE IF hmReq.version = "2" THEN HmChunked ELSE 0
    /\ UNCHANGED <<hmReq, hmRes, hmPos, hmHost, hmHeaders, hmHosted, hmDrop>>

-----------------------------------------------------------------------------
\* parse_response of a complete head, up to convert_response's loop.
HmAnswered ==
    /\ hmPc = "sent" /\ hmPc' = "convert" /\ hmPos' = 1
    /\ hmDrop' = {"proxy-connection", "keep-alive", "upgrade"}
    /\ hmLength' = HmUnspecified /\ hmOut' = <<>>
    /\ UNCHANGED <<hmReq, hmRes, hmHost, hmHeaders, hmHosted>>

ConvertHeader ==
    /\ hmPc = "convert" /\ hmPos <= Len(hmRes.headers) /\ hmPos' = hmPos + 1
    /\ LET h == hmRes.headers[hmPos] IN
       IF h.name \in hmDrop THEN UNCHANGED <<hmLength, hmDrop, hmOut>>
       ELSE IF h.name = "connection"
       THEN hmDrop' = hmDrop \union (h.names \ {"close"}) /\ UNCHANGED <<hmLength, hmOut>>
       ELSE IF h.name = "transfer-encoding" /\ hmReq.version = "2"
       THEN /\ hmLength' = IF h.value = 1 THEN HmChunked ELSE hmLength
            /\ hmDrop' = hmDrop \union {"content-length", "transfer-encoding"}
            /\ UNCHANGED hmOut
       ELSE /\ hmLength' = IF hmLength = HmUnspecified /\ h.name = "content-length"
                           THEN h.value ELSE hmLength
            /\ hmOut' = Append(hmOut, h) /\ UNCHANGED hmDrop
    /\ UNCHANGED <<hmReq, hmRes, hmPc, hmHost, hmHeaders, hmHosted>>

HmNoBody == hmReq.method = "HEAD" \/ hmRes.code \in 100..199 \/ hmRes.code \in {204, 304}

ConvertResponse ==
    /\ hmPc = "convert" /\ hmPos > Len(hmRes.headers)
    /\ hmPc' = "answered"
    /\ hmLength' = IF HmNoBody THEN 0 ELSE hmLength
    /\ UNCHANGED <<hmReq, hmRes, hmPos, hmHost, hmHeaders, hmHosted, hmDrop, hmOut>>

HmNext ==
    \/ DecodeHeader \/ HmForward \/ EncodeRequest \/ SerializeHeader \/ SerializeRequest
    \/ HmAnswered \/ ConvertHeader \/ ConvertResponse
HmSpec == HmInit /\ [][HmNext]_hmVars

-----------------------------------------------------------------------------
(* Properties.                                                             *)

\* The type invariant.
HmTypeOK ==
    /\ HmExchange([req |-> hmReq, res |-> hmRes])
    /\ hmPc \in {"decode", "serialize", "sent", "refused", "proxied", "convert", "answered"}
    /\ hmPos \in Nat \ {0} /\ hmHost \in Nat /\ hmHeaders \in Seq(HmHeader)
    /\ hmHosted \in BOOLEAN /\ hmLength \in Nat \union {HmChunked, HmUnspecified}
    /\ hmDrop \subseteq HmName /\ hmOut \in Seq(HmField)

\* The body length the first n headers give a message: `chunked` before the
\* first Content-Length, and the given one for a message with neither.
HmIsChunked(h) == h.name = "transfer-encoding" /\ h.value = 1
HmIsSized(h) == h.name = "content-length"
HmMeans(headers, n, length, otherwise) ==
    \/ (\E i \in 1..n : HmIsChunked(headers[i])) /\ length = HmChunked
    \/ /\ \A i \in 1..n : ~HmIsChunked(headers[i])
       /\ \E i \in 1..n : /\ HmIsSized(headers[i]) /\ length = headers[i].value
                          /\ \A j \in 1..(i - 1) : ~HmIsSized(headers[j])
    \/ /\ \A i \in 1..n : ~HmIsChunked(headers[i]) /\ ~HmIsSized(headers[i])
       /\ length = otherwise

HmDeclares(headers) ==
    \E i \in 1..Len(headers) : HmIsChunked(headers[i]) \/ HmIsSized(headers[i])
HmNames(headers, name) == {i \in 1..Len(headers) : headers[i].name = name}

\* The origin reads as much of a body as ForwardedStreamSource sends it,
\* whatever the order and number of the headers that say so.  Left out are
\* HEAD, whose body is never sent, and an HTTP/2 request that declares no
\* length, whose body is sent although the head announces none.
\* A forwarded request has one Host, that of its target: requests with more
\* are refused.
HmRequestAgrees ==
    /\ hmReq.method # "HEAD" /\ (hmReq.version = "2" => HmDeclares(hmReq.headers))
       => HmMeans(hmOut, Len(hmOut), hmLength, 0)
    /\ \E i \in 1..Len(hmOut) : HmNames(hmOut, "host") = {i} /\ hmOut[i].value = hmHost

\* ForwardedStreamSink takes a response's body to end where the origin ends
\* it, whatever the order of the headers.  Left out are codings other than
\* `chunked` alone and, for an HTTP/1 client, responses with a length and a
\* coding: there the length wins.
\* No header of the HTTP/1 connection reaches an HTTP/2 or HTTP/3 client.
HmPlainHead ==
    \A i \in 1..Len(hmRes.headers) :
        LET h == hmRes.headers[i] IN
        /\ h.name = "transfer-encoding" => h.value = 1 /\ hmReq.version = "2"
        /\ h.names \intersect {"content-length", "transfer-encoding"} = {}
HmResponseAgrees ==
    /\ ~HmNoBody /\ HmPlainHead
       => HmMeans(hmRes.headers, Len(hmRes.headers), hmLength, HmUnspecified)
    /\ hmReq.version = "2" => \A i \in 1..Len(hmOut) :
          hmOut[i].name \notin {"connection", "keep-alive", "transfer-encoding"}

\* A request that names its host once, in the target or in a header, has one
\* Host header when the reverse proxy sends it on.
HmNamedOnce ==
    LET hosts == HmNames(hmReq.headers, "host") IN
    IF hmReq.authority = HmNoHost THEN \E i \in hosts : hosts = {i} ELSE hosts = {}
HmProxiedAgrees == HmNamedOnce => \E i \in 1..Len(hmOut) : HmNames(hmOut, "host") = {i}

\* Both sides of a converted head mean the same.
HmHeadsAgree ==
    /\ hmPc = "sent" => HmRequestAgrees
    /\ hmPc = "answered" => HmResponseAgrees
    /\ hmPc = "proxied" => HmProxiedAgrees
=============================================================================
