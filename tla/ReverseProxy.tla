----------------------------- MODULE ReverseProxy -----------------------------
(***************************************************************************)
(* handle_stream of lib/src/reverse_proxy.rs: one request is translated to *)
(* HTTP/1.1, sent to the origin server, and the response is translated     *)
(* back.  The state is that of the one task that serves the request; what  *)
(* is nondeterministic is how the server's bytes are cut into reads, and   *)
(* what fails.                                                             *)
(*                                                                         *)
(* The server's bytes are grouped into what the code tells apart: a CRLF   *)
(* is one (the code cannot tell its first half from nothing), and so is the *)
(* number of a chunk's size line.                                          *)
(***************************************************************************)
EXTENDS Integers, Sequences

CONSTANTS RpExchanges,  \* the exchanges explored: each as RpExchange says
          RpReadMax,    \* the most one read returns
          RpLimit       \* H3_BUFFERED_BODY_LIMIT

\* What the server sends: a part of the response's head ("head", and "end"
\* where it is complete), a byte of the body, a chunk's size, a CRLF ("nl"), a
\* trailer line without its CRLF.  n is the number of a byte of the body and
\* what a size says; at is the number of the last byte of the body before a size.
RpByte == [kind : {"head", "end", "body", "size", "nl", "trailer"}, n : Nat, at : Nat]

\* The n bytes behind p are bytes of the body, those behind the first `at`, and
\* what stands at p is a size behind them: as far as there are bytes.
RpBodyBehind(bytes, p, n, at) ==
  \A i \in 1 .. n : p + i <= Len(bytes) => bytes[p + i].kind = "body" /\ bytes[p + i].n = at + i
RpSizeAt(bytes, p, at) == p <= Len(bytes) => bytes[p].kind = "size" /\ bytes[p].at = at
RpLineEndsAt(bytes, p) == p <= Len(bytes) => bytes[p].kind = "nl"

\* protocol: of the client's session.  length: the Content-Length of the
\* response, -1 when it has none or an unusable one.  bytes: all the server
\* sends, which may be cut short; size: the bytes of the body it means.
\* closes: the server closes behind it.  waits: the server answers only after
\* the request's body.  A body follows the framing its head announces, of
\* which there is one; one that ends with the connection is all there.
RpExchange(e) ==
  /\ e.protocol \in {"Http1", "Http2", "Http3"}
  /\ e.chunked \in BOOLEAN /\ e.closes \in BOOLEAN /\ e.waits \in BOOLEAN
  /\ e.size \in Nat /\ e.length \in IF e.chunked THEN {-1} ELSE {-1, e.size}
  /\ e.bytes \in Seq(RpByte)
  /\ \A p \in DOMAIN e.bytes :
        LET b == e.bytes[p] IN
        /\ b.kind = "body" => b.n <= e.size
        /\ b.kind = "end" =>
              IF e.chunked THEN RpSizeAt(e.bytes, p + 1, 0)
              ELSE /\ RpBodyBehind(e.bytes, p, Len(e.bytes) - p, 0)
                   /\ e.length = -1 => Len(e.bytes) - p = e.size
        /\ b.kind = "size" =>
              /\ RpLineEndsAt(e.bytes, p + 1)
              /\ IF b.n = 0 THEN b.at = e.size
                 ELSE /\ RpBodyBehind(e.bytes, p + 1, b.n, b.at)
                      /\ RpLineEndsAt(e.bytes, p + b.n + 2)
                      /\ RpSizeAt(e.bytes, p + b.n + 3, b.at + b.n)

ASSUME ReverseProxyAssumption ==
  RpReadMax \in Nat /\ RpLimit \in Nat /\ \A e \in RpExchanges : RpExchange(e)

VARIABLES
  rpCase,      \* the exchange
  rpPc,        \* what the task awaits
  rpLeft,      \* what the server has not been read of
  rpBuffer,    \* `buffer`: read and not decoded
  rpSize,      \* `chunk_size`
  rpBody,      \* `body` or `buffered_body`: decoded and not written
  rpOut,       \* body bytes written to the client
  rpStatus,    \* the response head sent to the client; 0: none
  rpLength,    \* its Content-Length; -1: none
  rpEof,       \* the client's stream was ended
  rpUploaded   \* the request's body is being forwarded

rpVars == <<rpCase, rpPc, rpLeft, rpBuffer, rpSize, rpBody, rpOut, rpStatus,
            rpLength, rpEof, rpUploaded>>

RpPcs == {"connect", "request", "head", "buffer", "size", "trailers", "chunk",
          "first", "fixed", "pipe", "done", "failed"}

\* The type invariant.
RpTypeOK ==
  /\ rpCase \in RpExchanges /\ rpPc \in RpPcs
  /\ rpLeft \in Seq(RpByte) /\ rpBuffer \in Seq(RpByte)
  /\ rpBody \in Seq(RpByte) /\ rpOut \in Seq(RpByte)
  /\ rpSize \in Nat /\ rpStatus \in {0, 200, 502} /\ rpLength \in Nat \cup {-1}
  /\ rpEof \in BOOLEAN /\ rpUploaded \in BOOLEAN

RpInit ==
  /\ rpCase \in RpExchanges /\ rpPc = "connect"
  /\ rpLeft = rpCase.bytes
  /\ rpBuffer = <<>> /\ rpSize = 0 /\ rpBody = <<>> /\ rpOut = <<>>
  /\ rpStatus = 0 /\ rpLength = -1 /\ rpEof = FALSE /\ rpUploaded = FALSE

-----------------------------------------------------------------------------
\* The server's side of a read (external).
RpHasBytes == rpLeft # <<>> /\ (rpCase.waits => rpUploaded)
RpAtEof == rpLeft = <<>> /\ rpCase.closes

\* How much a read may return of what is left, what it returns, and the rest.
RpReads == {n \in 1 .. RpReadMax : RpHasBytes /\ n <= Len(rpLeft)}
RpData(n) == SubSeq(rpLeft, 1, n)
RpTakes(n) == rpLeft' = SubSeq(rpLeft, n + 1, Len(rpLeft))

\* A `?` of handle_stream: the task ends and `respond`, or the sink, is dropped.
RpFails ==
  /\ rpPc \notin {"done", "failed"}
  /\ rpPc' = "failed"
  /\ UNCHANGED <<rpCase, rpLeft, rpBuffer, rpSize, rpBody, rpOut, rpStatus, rpLength, rpEof, rpUploaded>>

\* Connecting to the configured server.
RpConnect ==
  /\ rpPc = "connect" /\ rpPc' = "request"
  /\ UNCHANGED <<rpCase, rpLeft, rpBuffer, rpSize, rpBody, rpOut, rpStatus, rpLength, rpEof, rpUploaded>>

\* The translated request line and headers are written; the request's body is
\* left where it is.
RpSendRequest ==
  /\ rpPc = "request" /\ rpPc' = "head"
  /\ UNCHANGED <<rpCase, rpLeft, rpBuffer, rpSize, rpBody, rpOut, rpStatus, rpLength, rpEof, rpUploaded>>

\* The way the body is handled, chosen when the head is complete.
RpMode ==
  IF rpCase.protocol = "Http3" /\ rpCase.length \in 0 .. RpLimit THEN "buffer"
  ELSE IF rpCase.chunked /\ rpCase.protocol # "Http1" THEN "size"
  ELSE "first"

\* send_bad_gateway.
RpBadGateway == rpStatus' = 502 /\ rpEof' = TRUE /\ rpPc' = "done"

\* The loop that reads the response's head: what is behind its end is `tail`.
\* The server's end is answered with 502.
RpReadHead ==
  /\ rpPc = "head"
  /\ \/ /\ \E n \in RpReads :
             LET all == rpBuffer \o RpData(n) IN
             /\ RpTakes(n)
             /\ \/ /\ \A i \in DOMAIN all : all[i].kind # "end"
                   /\ rpBuffer' = all /\ UNCHANGED <<rpPc, rpBody>>
                \/ \E p \in DOMAIN all :
                      /\ all[p].kind = "end" /\ \A i \in 1 .. p - 1 : all[i].kind # "end"
                      /\ rpPc' = RpMode
                      /\ LET tail == SubSeq(all, p + 1, Len(all)) IN
                         /\ rpBuffer' = IF RpMode = "buffer" THEN <<>> ELSE tail
                         /\ rpBody' = IF RpMode = "buffer" THEN tail ELSE <<>>
        /\ UNCHANGED <<rpStatus, rpEof>>
     \/ /\ RpAtEof
        /\ RpBadGateway
        /\ UNCHANGED <<rpLeft, rpBuffer, rpBody>>
  /\ UNCHANGED <<rpCase, rpSize, rpOut, rpLength, rpUploaded>>

\* The part of a read of n bytes that is taken when `have` of the announced
\* bytes are there.
RpToTake(n, have) == SubSeq(rpLeft, 1, IF n < rpCase.length - have THEN n ELSE rpCase.length - have)

\* HTTP/3 and a small Content-Length: the whole body is read first, and an
\* early end of the server fails the request.
RpReadBuffered ==
  /\ rpPc = "buffer"
  /\ \/ /\ Len(rpBody) < rpCase.length
        /\ \/ /\ \E n \in RpReads : RpTakes(n) /\ rpBody' = rpBody \o RpToTake(n, Len(rpBody))
              /\ UNCHANGED rpPc
           \/ RpAtEof /\ rpPc' = "failed" /\ UNCHANGED <<rpLeft, rpBody>>
        /\ UNCHANGED <<rpStatus, rpLength, rpOut, rpEof>>
     \/ /\ Len(rpBody) >= rpCase.length
        /\ rpStatus' = 200 /\ rpLength' = rpCase.length
        /\ rpOut' = rpBody /\ rpBody' = <<>> /\ rpEof' = TRUE /\ rpPc' = "done"
        /\ UNCHANGED rpLeft
  /\ UNCHANGED <<rpCase, rpBuffer, rpSize, rpUploaded>>

-----------------------------------------------------------------------------
(***************************************************************************)
(* Chunked responses to HTTP/2 and HTTP/3 clients.                         *)
(***************************************************************************)
\* need_more: another read goes to the end of the buffer.
RpNeedMore ==
  /\ \E n \in RpReads : RpTakes(n) /\ rpBuffer' = rpBuffer \o RpData(n)
  /\ UNCHANGED rpPc

\* The response is written whole, with its length, unless it was streamed.
RpFinishChunked ==
  /\ rpStatus' = 200
  /\ rpLength' = IF rpStatus = 0 THEN Len(rpBody) ELSE rpLength
  /\ rpOut' = rpOut \o rpBody /\ rpBody' = <<>>
  /\ rpEof' = TRUE /\ rpPc' = "done"

\* A size line.  Behind the size 0 a lone CRLF ends the response; anything
\* else in the buffer is taken for the beginning of trailers.
RpReadSize ==
  /\ rpPc = "size"
  /\ \/ /\ \A i \in DOMAIN rpBuffer : rpBuffer[i].kind # "nl"
        /\ \/ RpNeedMore
           \/ RpAtEof /\ rpPc' = "failed" /\ UNCHANGED <<rpLeft, rpBuffer>>
        /\ UNCHANGED <<rpSize, rpBody, rpOut, rpStatus, rpLength, rpEof>>
     \/ \E p \in DOMAIN rpBuffer :
          LET rest == SubSeq(rpBuffer, p + 1, Len(rpBuffer)) IN
          /\ p > 1 /\ rpBuffer[p].kind = "nl" /\ \A i \in 1 .. p - 1 : rpBuffer[i].kind # "nl"
          /\ rpSize' = rpBuffer[1].n /\ UNCHANGED rpLeft
          /\ IF rpSize' = 0 /\ rest # <<>> /\ rest[1].kind = "nl"
             THEN rpBuffer' = SubSeq(rest, 2, Len(rest)) /\ RpFinishChunked
             ELSE /\ rpBuffer' = rest
                  /\ rpPc' = IF rpSize' = 0 THEN "trailers" ELSE "chunk"
                  /\ UNCHANGED <<rpBody, rpOut, rpStatus, rpLength, rpEof>>
  /\ UNCHANGED <<rpCase, rpUploaded>>

RpEmptyLine == \E i \in 1 .. Len(rpBuffer) - 1 : rpBuffer[i].kind = "nl" /\ rpBuffer[i + 1].kind = "nl"

\* Trailers are read up to an empty line or the server's end.
RpReadTrailers ==
  /\ rpPc = "trailers"
  /\ \/ /\ RpEmptyLine
        /\ RpFinishChunked
        /\ UNCHANGED <<rpLeft, rpBuffer>>
     \/ /\ ~RpEmptyLine
        /\ \/ RpNeedMore /\ UNCHANGED <<rpBody, rpOut, rpStatus, rpLength, rpEof>>
           \/ RpAtEof /\ RpFinishChunked /\ UNCHANGED <<rpLeft, rpBuffer>>
  /\ UNCHANGED <<rpCase, rpSize, rpUploaded>>

\* Mutant: what was collected is not streamed before the chunk.
MutantRpReadChunk ==
  /\ rpPc = "chunk"
  /\ LET data == SubSeq(rpBuffer, 1, rpSize)
     IN \/ /\ Len(rpBuffer) < rpSize + 1
           /\ RpNeedMore
           /\ UNCHANGED <<rpBody, rpOut, rpStatus>>
        \/ /\ Len(rpBuffer) >= rpSize + 1
           /\ rpBuffer' = SubSeq(rpBuffer, rpSize + 2, Len(rpBuffer)) /\ rpPc' = "size"
           /\ IF rpStatus = 0 /\ Len(rpBody) + rpSize <= RpLimit
              THEN rpBody' = rpBody \o data /\ UNCHANGED <<rpOut, rpStatus>>
              ELSE rpStatus' = 200 /\ rpOut' = rpOut \o data /\ UNCHANGED rpBody
           /\ UNCHANGED rpLeft
  /\ UNCHANGED <<rpCase, rpSize, rpLength, rpEof, rpUploaded>>

\* A chunk and its CRLF; the data is collected while the response is not begun,
\* and beyond RpLimit all that is collected is streamed.
RpReadChunk ==
  /\ rpPc = "chunk"
  /\ LET body == rpBody \o SubSeq(rpBuffer, 1, rpSize)
     IN \/ /\ Len(rpBuffer) < rpSize + 1
           /\ \/ RpNeedMore
              \/ RpAtEof /\ rpPc' = "failed" /\ UNCHANGED <<rpLeft, rpBuffer>>
           /\ UNCHANGED <<rpBody, rpOut, rpStatus>>
        \/ /\ Len(rpBuffer) >= rpSize + 1
           /\ rpBuffer' = SubSeq(rpBuffer, rpSize + 2, Len(rpBuffer)) /\ rpPc' = "size"
           /\ IF rpStatus = 0 /\ Len(body) <= RpLimit
              THEN rpBody' = body /\ UNCHANGED <<rpOut, rpStatus>>
              ELSE rpStatus' = 200 /\ rpOut' = rpOut \o body /\ rpBody' = <<>>
           /\ UNCHANGED rpLeft
  /\ UNCHANGED <<rpCase, rpSize, rpLength, rpEof, rpUploaded>>

-----------------------------------------------------------------------------
\* The other responses: the head and what came with it are sent at once.  With
\* a Content-Length that is not exceeded yet the rest is counted, else a
\* DuplexPipe takes over, with the request's body in the other direction.
RpSendFirst ==
  /\ rpPc = "first"
  /\ rpStatus' = 200 /\ rpLength' = rpCase.length
  /\ rpOut' = rpBuffer /\ rpBuffer' = <<>>
  /\ IF rpCase.length >= Len(rpBuffer)
     THEN rpPc' = "fixed" /\ UNCHANGED rpUploaded
     ELSE rpPc' = "pipe" /\ rpUploaded' = TRUE
  /\ UNCHANGED <<rpCase, rpLeft, rpSize, rpBody, rpEof>>

\* The counted rest; an early end of the server ends the client's stream too.
RpReadFixed ==
  /\ rpPc = "fixed"
  /\ \/ /\ Len(rpOut) < rpCase.length
        /\ \/ /\ \E n \in RpReads : RpTakes(n) /\ rpOut' = rpOut \o RpToTake(n, Len(rpOut))
              /\ UNCHANGED <<rpPc, rpEof>>
           \/ RpAtEof /\ rpEof' = TRUE /\ rpPc' = "done" /\ UNCHANGED <<rpLeft, rpOut>>
     \/ /\ Len(rpOut) = rpCase.length
        /\ rpEof' = TRUE /\ rpPc' = "done" /\ UNCHANGED <<rpLeft, rpOut>>
  /\ UNCHANGED <<rpCase, rpBuffer, rpSize, rpBody, rpStatus, rpLength, rpUploaded>>

\* The DuplexPipe (TcpPipe has its steps): bytes pass, the server's end passes,
\* and a connection that is idle for tcp_connections_timeout is closed.
RpPipe ==
  /\ rpPc = "pipe"
  /\ \/ /\ \E n \in RpReads : RpTakes(n) /\ rpOut' = rpOut \o RpData(n)
        /\ UNCHANGED <<rpPc, rpEof>>
     \/ RpAtEof /\ rpEof' = TRUE /\ rpPc' = "done" /\ UNCHANGED <<rpLeft, rpOut>>
     \/ ~RpHasBytes /\ rpPc' = "failed" /\ UNCHANGED <<rpLeft, rpOut, rpEof>>
  /\ UNCHANGED <<rpCase, rpBuffer, rpSize, rpBody, rpStatus, rpLength, rpUploaded>>

RpStep ==
  \/ RpConnect \/ RpSendRequest \/ RpReadHead \/ RpReadBuffered \/ RpReadSize
  \/ RpReadTrailers \/ RpReadChunk \/ RpSendFirst \/ RpReadFixed \/ RpPipe

RpNext == RpStep \/ RpFails

RpSpec == RpInit /\ [][RpNext]_rpVars

-----------------------------------------------------------------------------
\* What the client is given is the body the server meant, byte by byte and in
\* order, and a response that was ended is complete, or announced a length
\* that shows it is not.  (An HTTP/1.1 client of a chunked response is given its
\* raw chunks.)  A Content-Length the proxy adds to a chunked response is the
\* length of the body, so only a response that was collected whole has one.
RpBodyIsExact ==
  rpStatus = 200 /\ ~(rpCase.chunked /\ rpCase.protocol = "Http1")
    => /\ \A i \in DOMAIN rpOut : rpOut[i].kind = "body" /\ rpOut[i].n = i
       /\ Len(rpOut) <= rpCase.size
       /\ rpEof => Len(rpOut) = rpCase.size \/ Len(rpOut) < rpLength
       /\ rpEof /\ rpCase.chunked /\ rpLength # -1 => rpLength = Len(rpOut)

\* When the server closes its connection behind the response, wherever that
\* is cut, the exchange comes to its end.
RpServerEndEndsExchange ==
  WF_rpVars(RpStep)
    => (rpCase.closes /\ ~rpCase.waits ~> rpPc \in {"done", "failed"})
=============================================================================
