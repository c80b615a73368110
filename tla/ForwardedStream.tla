-------------------------- MODULE ForwardedStream ---------------------------
(***************************************************************************)
(* lib/src/http_forwarded_stream.rs: a non-CONNECT request of a client,    *)
(* forwarded to its target as a plain HTTP/1 request.  The source puts the *)
(* serialized head before the client's body; the sink parses the target's  *)
(* response, answers the client with it and passes the decoded body on.    *)
(* Both are driven by a SimplexPipe (lib/src/pipe.rs): read, write,        *)
(* consume what was written, and wait_writable while something is unsent.  *)
(***************************************************************************)
EXTENDS Integers, Sequences

CONSTANTS
    HeadLen,        \* bytes of the serialized request
    BodySize,       \* bytes the client sends as the request's body
    ReadMax,        \* bound: bytes one read of the client's stream returns
    Responses       \* the responses of the target: what ConvertResponse makes of
                    \* the head, and the bytes, in order

Unknown == -1       \* no body length: the body ends with the connection
Chunked == -2       \* BodyLength::Chunked

\* std::cmp::min.
Least(a, b) == IF a <= b THEN a ELSE b

\* A byte of a response: of the head ("head", and "final" or "interim" where a
\* head is complete), of a chunk's size line ("size", and "line" where it is
\* complete), of the body, or of the CRLF after a chunk ("cr", "lf"); "bad" is
\* one its parser refuses.  n is the number of a byte of the body and the size a
\* line gives; at is the number of the last byte of the body before a line.
FkByte == [kind : {"head", "final", "interim", "size", "line", "body", "cr", "lf", "bad"},
           n : Nat, at : Nat]

\* A size line behind the first `at` bytes of the body, or as much of the line
\* as there is, stands at p.
FkSizeLineAt(bytes, p, at) ==
    \E q \in p .. Len(bytes) + 1 :
        /\ \A i \in p .. q - 1 : bytes[i].kind = "size"
        /\ q <= Len(bytes) => bytes[q].kind = "bad" \/ (bytes[q].kind = "line" /\ bytes[q].at = at)

\* A body of at most k bytes.
FkBodyWithin(bytes, k) == \A i \in DOMAIN bytes : bytes[i].kind = "body" => bytes[i].n <= k

\* What stands behind the size line that is complete at p: the chunk, its CRLF
\* and the next size line, cut anywhere; behind the size 0 there is no body.
FkChunkBehind(bytes, p) ==
    LET n == bytes[p].n
        at == bytes[p].at
        Is(i, kind) == i <= Len(bytes) => bytes[i].kind = kind
    IN IF n = 0 THEN FkBodyWithin(bytes, at)
       ELSE /\ \A i \in 1 .. n : p + i <= Len(bytes) => bytes[p + i].kind = "body" /\ bytes[p + i].n = at + i
            /\ Is(p + n + 1, "cr") /\ Is(p + n + 2, "lf") /\ FkSizeLineAt(bytes, p + n + 3, at + n)

\* A response follows the framing its head announces, as far as its bytes
\* go.  It may be cut short, and have more or less of a body than announced.
FkWellFormed(r) ==
    /\ r.len \in Nat \union {Unknown, Chunked} /\ r.bytes \in Seq(FkByte)
    /\ \A i \in DOMAIN r.bytes :
          /\ r.bytes[i].kind = "final" =>
                IF r.len = Chunked THEN FkSizeLineAt(r.bytes, i + 1, 0)
                ELSE \A j \in 1 .. Len(r.bytes) - i : r.bytes[i + j].kind = "body" /\ r.bytes[i + j].n = j
          /\ r.bytes[i].kind = "line" => FkChunkBehind(r.bytes, i)

ASSUME ForwardedAssumption ==
    /\ HeadLen \in Nat /\ BodySize \in Nat /\ ReadMax \in Nat
    /\ \A r \in Responses : FkWellFormed(r)

VARIABLES
    fsState,        \* ForwardedStreamSource.state
    fsLen,          \* body_length of the request
    fsSent,         \* sent_bytes
    fsSkip,         \* skip_consume_bytes
    fsLeft,         \* body bytes the client's stream has not returned yet
    fsWindow,       \* bytes it returned and that have not been consumed
    fsChunk,        \* the pipe's chunk: bytes read and not yet written
    fsEnd,          \* what the pipe has read: "open", "eof"
    fkState,        \* ForwardedStreamSink.state
    fkBuffer,       \* the buffer of the state
    fkRemaining,    \* remaining_chunk_size
    fkLast,         \* terminating_chunk
    fkSent,         \* sent_bytes
    fkFake,         \* fake_unsent
    fkResponse,     \* the response the target sends
    fkIn,           \* its bytes that have not been read from the target
    fkChunk,        \* the pipe's chunk
    fkPending,      \* the chunk is pending_chunk: wait_writable comes first
    fkOut,          \* bytes of body written to the client
    fkHeads,        \* responses sent to the client
    fkEnd           \* "open", or how the client's direction ended

fsVars == <<fsState, fsLen, fsSent, fsSkip, fsLeft, fsWindow, fsChunk, fsEnd>>
fkVars == <<fkState, fkBuffer, fkRemaining, fkLast, fkSent, fkFake, fkResponse, fkIn, fkChunk,
            fkPending, fkOut, fkHeads, fkEnd>>
fwVars == <<fsVars, fkVars>>

-----------------------------------------------------------------------------
(* The client's request.                                                   *)

FsInit ==
    /\ fsState = "want" /\ fsLen \in {Chunked} \union 0..BodySize
    /\ fsSent = 0 /\ fsSkip = 0 /\ fsLeft = BodySize /\ fsWindow = 0
    /\ fsChunk = 0 /\ fsEnd = "open"

FsOnReadRequest ==
    /\ fsState = "want"
    /\ fsSkip' = HeadLen /\ fsChunk' = HeadLen
    /\ fsState' = IF fsLen = 0 THEN "done" ELSE "body"
    /\ UNCHANGED <<fsLen, fsSent, fsLeft, fsWindow, fsEnd>>

\* read_body, the inner read having returned n bytes, or Eof (n = 0).
FsReadBody ==
    /\ fsState = "body" /\ fsChunk = 0 /\ fsEnd = "open"
    /\ \E n \in 0..Least(fsLeft, ReadMax) :
          /\ n = 0 => fsLeft = 0
          /\ fsLeft' = fsLeft - n /\ fsWindow' = fsWindow + n
          /\ IF n > 0 /\ (fsLen = Chunked \/ fsSent < fsLen)
             THEN /\ fsChunk' = IF fsLen = Chunked THEN n ELSE Least(n, fsLen - fsSent)
                  /\ fsSent' = fsSent + fsChunk'
                  /\ UNCHANGED <<fsState, fsEnd>>
             ELSE /\ fsState' = "done" /\ fsEnd' = "eof"
                  /\ UNCHANGED <<fsChunk, fsSent>>
    /\ UNCHANGED <<fsLen, fsSkip>>

FsReadDone ==
    /\ fsState = "done" /\ fsChunk = 0 /\ fsEnd = "open"
    /\ fsEnd' = "eof"
    /\ UNCHANGED <<fsState, fsLen, fsSent, fsSkip, fsLeft, fsWindow, fsChunk>>

\* The pipe's timer drops the future of read_body at its await: the state it
\* had taken out goes with it.
FsCancelRead ==
    /\ fsState = "body" /\ fsChunk = 0 /\ fsEnd = "open"
    /\ fsState' = "done"
    /\ UNCHANGED <<fsLen, fsSent, fsSkip, fsLeft, fsWindow, fsChunk, fsEnd>>

FsConsume(size) ==
    LET skipped == Least(fsSkip, size) IN
    /\ fsSkip' = fsSkip - skipped
    /\ fsWindow' = IF fsState = "body" THEN fsWindow - (size - skipped) ELSE fsWindow

\* The pipe writes part of its chunk to the target and consumes it.
FsPipeWrite ==
    /\ \E n \in 1..fsChunk : fsChunk' = fsChunk - n /\ FsConsume(n)
    /\ UNCHANGED <<fsState, fsLen, fsSent, fsLeft, fsEnd>>

FsNext == FsOnReadRequest \/ FsReadBody \/ FsReadDone \/ FsCancelRead \/ FsPipeWrite

-----------------------------------------------------------------------------
(* The target's response.                                                  *)

Suffix == <<"cr", "lf">>

FkInit ==
    /\ fkState = "waiting" /\ fkBuffer = <<>> /\ fkRemaining = 0 /\ fkLast = FALSE
    /\ fkSent = 0 /\ fkFake = FALSE
    /\ fkResponse \in Responses /\ fkIn = fkResponse.bytes
    /\ fkChunk = <<>> /\ fkPending = FALSE
    /\ fkOut = <<>> /\ fkHeads = <<>> /\ fkEnd = "open"

\* What the pipe does with the outcome of write: the unsent rest is pending.
FkUnsent(rest) == fkChunk' = rest /\ fkPending' = (rest # <<>>)

\* A failed write or wait ends the pipe, and the sink with it.
FkFails(why) ==
    /\ fkEnd' = why /\ fkState' = "idle" /\ fkChunk' = <<>> /\ fkPending' = FALSE
    /\ UNCHANGED <<fkBuffer, fkRemaining, fkLast, fkSent, fkFake, fkOut>>

FkDrop(bytes, n) == SubSeq(bytes, n + 1, Len(bytes))

\* The first of the bytes that has one of the kinds is at p.
FkFirst(bytes, kinds, p) ==
    bytes[p].kind \in kinds /\ \A i \in 1 .. p - 1 : bytes[i].kind \notin kinds

\* on_response_headers_chunk, with parse_response.
FkOnResponseHeadersChunk(data) ==
    LET all == fkBuffer \o data
        Ends == {"final", "interim", "bad"}
    IN
    /\ UNCHANGED <<fkRemaining, fkLast, fkSent, fkOut>>
    /\ \/ /\ \A i \in DOMAIN all : all[i].kind \notin Ends
          /\ fkBuffer' = all /\ FkUnsent(<<>>)
          /\ UNCHANGED <<fkState, fkFake, fkHeads, fkEnd>>
       \/ \E p \in DOMAIN all :
             /\ FkFirst(all, Ends, p)
             /\ \/ /\ all[p].kind = "bad"
                   /\ FkFails("bad_response") /\ fkHeads' = Append(fkHeads, "bad_gateway")
                \/ /\ all[p].kind = "interim"
                   /\ fkHeads' = Append(fkHeads, "interim")
                   /\ fkBuffer' = <<>> /\ FkUnsent(FkDrop(all, p))
                   /\ UNCHANGED <<fkState, fkFake, fkEnd>>
                \/ /\ all[p].kind = "final"
                   /\ fkHeads' = Append(fkHeads, "final")
                   /\ fkState' = IF fkResponse.len = Chunked THEN "prefix" ELSE "plain"
                   /\ fkEnd' = IF fkResponse.len = 0 THEN "complete" ELSE "open"
                   /\ fkBuffer' = <<>> /\ FkUnsent(FkDrop(all, p))
                   /\ fkFake' = (Len(all) > p)

\* on_non_encoded_chunk, the client's sink taking n bytes of what it is given.
FkOnNonEncodedChunk(data) ==
    LET size == IF fkResponse.len = Unknown THEN Len(data)
                ELSE Least(Len(data), fkResponse.len - fkSent)
    IN
    IF fkResponse.len # Unknown /\ fkResponse.len <= fkSent
    THEN FkFails("unexpected_eof") /\ UNCHANGED fkHeads
    ELSE \E n \in 0..size :
            LET sent == fkSent + Len(data) - (size - n) IN
            /\ fkSent' = sent
            /\ fkOut' = fkOut \o SubSeq(data, 1, n)
            /\ IF sent = fkResponse.len /\ (n < size \/ Len(data) # size)
               THEN /\ fkEnd' = "panic" /\ fkState' = "idle"
                    /\ fkChunk' = <<>> /\ fkPending' = FALSE
               ELSE /\ fkEnd' = IF sent = fkResponse.len THEN "complete" ELSE fkEnd
                    /\ FkUnsent(FkDrop(data, n)) /\ UNCHANGED fkState
            /\ UNCHANGED <<fkBuffer, fkRemaining, fkLast, fkFake, fkHeads>>

FkOnEncodedChunkPrefix(data) ==
    LET all == fkBuffer \o data
        Ends == {"line", "bad"}
    IN
    /\ UNCHANGED <<fkSent, fkOut, fkHeads>>
    /\ \/ /\ \A i \in DOMAIN all : all[i].kind \notin Ends
          /\ fkBuffer' = all /\ FkUnsent(<<>>)
          /\ UNCHANGED <<fkState, fkRemaining, fkLast, fkFake, fkEnd>>
       \/ \E p \in DOMAIN all :
             /\ FkFirst(all, Ends, p)
             /\ \/ all[p].kind = "bad" /\ FkFails("bad_chunk_size")
                \/ /\ all[p].kind = "line"
                   /\ fkState' = IF all[p].n = 0 THEN "suffix" ELSE "chunk"
                   /\ fkLast' = (all[p].n = 0) /\ fkRemaining' = all[p].n
                   /\ fkBuffer' = <<>> /\ fkFake' = (Len(all) > p) /\ FkUnsent(FkDrop(all, p))
                   /\ UNCHANGED fkEnd

\* Mutant: the whole chunk goes to the client, what follows the body included.
MutantFkOnEncodedChunk(data) ==
    LET size == Len(data) IN
    \E n \in 0..size :
       /\ fkOut' = fkOut \o SubSeq(data, 1, n)
       /\ fkRemaining' = IF size < fkRemaining THEN fkRemaining - size ELSE 0
       /\ fkState' = IF fkRemaining' > 0 THEN "idle" ELSE "suffix"
       /\ fkLast' = FALSE /\ fkBuffer' = <<>>
       /\ fkFake' = TRUE
       /\ FkUnsent(FkDrop(data, n))
       /\ UNCHANGED <<fkSent, fkHeads, fkEnd>>

\* on_encoded_chunk takes the state out and puts none back while some of the
\* chunk is still to come; what the client's sink did not take counts as sent.
FkOnEncodedChunk(data) ==
    LET size == Least(Len(data), fkRemaining) IN
    \E n \in 0..size :
       /\ fkOut' = fkOut \o SubSeq(data, 1, n)
       /\ fkRemaining' = fkRemaining - size
       /\ fkState' = IF fkRemaining' > 0 THEN "idle" ELSE "suffix"
       /\ fkLast' = FALSE /\ fkBuffer' = <<>>
       /\ fkFake' = TRUE
       /\ FkUnsent(FkDrop(data, n))
       /\ UNCHANGED <<fkSent, fkHeads, fkEnd>>

FkOnEncodedChunkSuffix(data) ==
    LET take == Least(Len(data), Len(Suffix) - Len(fkBuffer))
        suffix == fkBuffer \o SubSeq(data, 1, take)
        rest == FkDrop(data, take)
    IN
    /\ UNCHANGED fkHeads
    /\ IF \E i \in DOMAIN suffix : suffix[i].kind # Suffix[i]
       THEN FkFails("bad_suffix")
       ELSE /\ UNCHANGED <<fkRemaining, fkLast, fkSent, fkFake, fkOut>>
            /\ \/ /\ Len(suffix) < Len(Suffix)
                  /\ fkBuffer' = suffix /\ FkUnsent(rest) /\ UNCHANGED <<fkState, fkEnd>>
               \/ /\ Len(suffix) = Len(Suffix) /\ fkLast
                  /\ fkBuffer' = <<>> /\ fkState' = "idle" /\ fkEnd' = "complete"
                  /\ FkUnsent(<<>>)
               \/ /\ Len(suffix) = Len(Suffix) /\ ~fkLast
                  /\ fkBuffer' = <<>> /\ fkState' = "prefix" /\ FkUnsent(rest)
                  /\ UNCHANGED fkEnd

\* ForwardedStreamSink::write.
FkWrite ==
    /\ fkChunk # <<>> /\ ~fkPending
    /\ CASE fkState = "idle"    -> FkFails("invalid_state") /\ UNCHANGED fkHeads
         [] fkState = "waiting" -> FkOnResponseHeadersChunk(fkChunk)
         [] fkState = "plain"   -> FkOnNonEncodedChunk(fkChunk)
         [] fkState = "prefix"  -> FkOnEncodedChunkPrefix(fkChunk)
         [] fkState = "chunk"   -> FkOnEncodedChunk(fkChunk)
         [] fkState = "suffix"  -> FkOnEncodedChunkSuffix(fkChunk)
    /\ UNCHANGED <<fkResponse, fkIn>>

\* wait_writable; the client's sink becomes writable sooner or later.
FkWaitWritable ==
    /\ fkPending
    /\ IF ~fkFake /\ fkState \in {"idle", "waiting"}
       THEN FkFails("invalid_state")
       ELSE /\ fkFake' = FALSE /\ fkPending' = FALSE
            /\ UNCHANGED <<fkState, fkBuffer, fkRemaining, fkLast, fkSent, fkChunk, fkOut, fkEnd>>
    /\ UNCHANGED <<fkResponse, fkIn, fkHeads>>

\* The pipe reads the target: any run of the bytes that are left.
FkRead ==
    /\ fkChunk = <<>> /\ fkEnd \in {"open", "complete"}
    /\ \E n \in 1..Len(fkIn) : fkChunk' = SubSeq(fkIn, 1, n) /\ fkIn' = FkDrop(fkIn, n)
    /\ UNCHANGED <<fkState, fkBuffer, fkRemaining, fkLast, fkSent, fkFake, fkResponse, fkPending,
                   fkOut, fkHeads, fkEnd>>

\* The target closes, before or behind its last byte: ForwardedStreamSink::eof.
FkEof ==
    /\ fkChunk = <<>> /\ fkEnd \in {"open", "complete"}
    /\ fkIn' = <<>> /\ fkState' = "idle"
    /\ fkEnd' = IF fkEnd = "complete" THEN fkEnd ELSE IF fkState = "idle" THEN "lost" ELSE "eof"
    /\ fkHeads' = IF fkState = "waiting" THEN Append(fkHeads, "bad_gateway") ELSE fkHeads
    /\ UNCHANGED <<fkBuffer, fkRemaining, fkLast, fkSent, fkFake, fkResponse, fkChunk, fkPending, fkOut>>

FkNext == FkRead \/ FkWrite \/ FkWaitWritable \/ FkEof

-----------------------------------------------------------------------------
(* The two directions do not share state: a step is a step of one.         *)

FwInit == FsInit /\ FkInit
FwNext == \/ FsNext /\ UNCHANGED fkVars
          \/ FkNext /\ UNCHANGED fsVars
FwSpec == FwInit /\ [][FwNext]_fwVars

\* The exchange is forwarded faithfully.
\* What reaches the client is the body and nothing but the body, in order: no
\* byte of the chunked framing, none dropped, none repeated, however the
\* response is cut into reads and however little the client's sink takes.
\* The stream to the client is ended as complete only behind the last byte of
\* the body, and the client is answered once, behind any interim responses.
\* The assertions of on_non_encoded_chunk hold against a target that sends no
\* more than it announced.
\* The window of the client's stream is never slid by more than was read from
\* it: the bytes of the serialized head, which the pipe consumes like any
\* other, are not charged to it.  An HTTP/2 stream fails on such a consume.
FwIsFaithful ==
    /\ \A i \in DOMAIN fkOut : fkOut[i].kind = "body" /\ fkOut[i].n = i
    /\ fkEnd = "complete" =>
          IF fkResponse.len = Chunked THEN FkBodyWithin(fkResponse.bytes, Len(fkOut))
          ELSE Len(fkOut) = fkResponse.len
    /\ \A i \in DOMAIN fkHeads : fkHeads[i] # "interim" => i = Len(fkHeads)
    /\ fkEnd = "panic" => fkResponse.len >= 0 /\ ~FkBodyWithin(fkResponse.bytes, fkResponse.len)
    /\ fsWindow >= 0
=============================================================================
