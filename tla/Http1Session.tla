---------------------------- MODULE Http1Session ----------------------------
(***************************************************************************)
(* lib/src/http1_codec.rs: one HTTP/1 connection carries one stream.  The  *)
(* codec owns the transport; the stream's two ends reach it by two         *)
(* channels of one element and by the download_eof notification.           *)
(*                                                                         *)
(* listen() is a select over the transport, download_rx and download_eof:  *)
(* one action per branch, the handler of the branch included.  The client  *)
(* sends HeadParts pieces of a request head and then BodyParts pieces of   *)
(* body; a read returns any non-empty run of the pieces that have arrived. *)
(***************************************************************************)
EXTENDS Naturals, Sequences

CONSTANTS
    HeadParts,      \* pieces the request head arrives in
    HeadCap,        \* MAX_RAW_HEADERS_SIZE, in pieces
    BodyParts,      \* bound: pieces of request body
    ReplyParts      \* bound: pieces the stream's sink sends, response heads included

ASSUME Http1Assumption ==
    /\ {HeadParts, HeadCap, BodyParts, ReplyParts} \subseteq Nat
    /\ HeadParts > 0

VARIABLES
    h1Codec,        \* the codec's state, and where listen() stands
    h1Why,          \* why it ended or is ending
    h1Buffer,       \* State.buffer: pieces read and not passed on
    h1Sent,         \* pieces the client has sent
    h1Taken,        \* pieces read from the transport
    h1ClientEof,    \* the client has closed its direction
    h1Upload,       \* the message in the channel upload_tx -> upload_rx, or empty
    h1Source,       \* StreamSource
    h1Got,          \* what StreamSource::read has returned
    h1Download,     \* messages in the channel download_tx -> download_rx
    h1Sink,         \* StreamSink
    h1Accepted,     \* pieces the sink has put in the channel
    h1Permit,       \* the permit stored in download_eof
    h1Wire          \* pieces of the response written to the transport

h1Vars == <<h1Codec, h1Why, h1Buffer, h1Sent, h1Taken, h1ClientEof, h1Upload, h1Source,
            h1Got, h1Download, h1Sink, h1Accepted, h1Permit, h1Wire>>

h1Client == <<h1Sent, h1ClientEof>>
h1SourceVars == <<h1Source, h1Got>>
h1SinkVars == <<h1Sink, h1Accepted>>

H1Piece == 1..(HeadParts + BodyParts)
H1Alive == h1Codec \in {"waiting", "inProgress", "flushing", "draining"}
H1Listening == h1Codec \in {"waiting", "inProgress"}
H1Run(first, last) == [i \in 1..(last + 1 - first) |-> first + i - 1]

\* The type invariant.
H1TypeOK ==
    /\ h1Codec \in {"waiting", "inProgress", "flushing", "draining", "graceful", "failed"}
    /\ h1Buffer \in Seq(H1Piece) /\ h1Upload \in Seq(H1Piece) /\ h1Got \in Seq(H1Piece)
    /\ h1Download \in 0..1
    /\ h1Taken <= h1Sent /\ h1Sent \in 0..(HeadParts + BodyParts)
    /\ h1Source \in {"none", "held", "ended", "dropped"}
    /\ h1Sink \in {"none", "pending", "responded", "ended", "dropped"}
    /\ h1Wire <= h1Accepted

H1Init ==
    /\ h1Codec = "waiting" /\ h1Why = "running"
    /\ h1Buffer = <<>> /\ h1Sent = 0 /\ h1Taken = 0 /\ h1ClientEof = FALSE
    /\ h1Upload = <<>> /\ h1Source = "none" /\ h1Got = <<>>
    /\ h1Download = 0 /\ h1Sink = "none" /\ h1Accepted = 0 /\ h1Permit = FALSE
    /\ h1Wire = 0

-----------------------------------------------------------------------------
(* The client and the transport, external.                                 *)

H1ClientSends ==
    /\ ~h1ClientEof /\ h1Sent < HeadParts + BodyParts
    /\ h1Sent' = h1Sent + 1
    /\ UNCHANGED <<h1Codec, h1Why, h1Buffer, h1Taken, h1ClientEof, h1Upload, h1SourceVars,
                   h1Download, h1SinkVars, h1Permit, h1Wire>>

H1ClientCloses ==
    /\ ~h1ClientEof
    /\ h1ClientEof' = TRUE
    /\ UNCHANGED <<h1Codec, h1Why, h1Buffer, h1Sent, h1Taken, h1Upload, h1SourceVars,
                   h1Download, h1SinkVars, h1Permit, h1Wire>>

-----------------------------------------------------------------------------
(* The codec.                                                              *)

H1End(how, why) == h1Codec' = how /\ h1Why' = why

\* A read of the transport returns pieces up to k, or nothing at the end.
H1Reads(k) ==
    \/ k \in (h1Taken + 1)..h1Sent
    \/ k = h1Taken /\ h1Taken = h1Sent /\ h1ClientEof

\* on_request_headers_chunk of a buffer.  A complete CONNECT request with an
\* Expect header (expect) is answered 417 and ends the listening.
OnRequestHeadersChunk(buffer, expect) ==
    IF Len(buffer) >= HeadParts
    THEN IF expect
         THEN /\ H1End("graceful", "rejected")
              /\ UNCHANGED <<h1Buffer, h1Source, h1Sink>>
         ELSE /\ h1Codec' = "inProgress" /\ UNCHANGED h1Why
              /\ h1Buffer' = SubSeq(buffer, HeadParts + 1, Len(buffer))
              /\ h1Source' = "held" /\ h1Sink' = "pending"
    ELSE IF Len(buffer) < HeadCap
         THEN /\ h1Buffer' = buffer
              /\ UNCHANGED <<h1Codec, h1Why, h1Source, h1Sink>>
         ELSE /\ H1End("failed", "too long")
              /\ UNCHANGED <<h1Buffer, h1Source, h1Sink>>

\* The read branch while the head is awaited.  The end of the stream drops
\* what was buffered and shuts the session down.
H1ReadHead ==
    /\ h1Codec = "waiting"
    /\ \E k \in 0..h1Sent, expect \in BOOLEAN :
          /\ H1Reads(k)
          /\ h1Taken' = k
          /\ IF k = h1Taken
             THEN /\ H1End("flushing", "client eof") /\ h1Buffer' = <<>>
                  /\ UNCHANGED <<h1Source, h1Sink>>
             ELSE OnRequestHeadersChunk(h1Buffer \o H1Run(h1Taken + 1, k), expect)
    /\ UNCHANGED <<h1Client, h1Upload, h1Got, h1Download, h1Accepted, h1Permit, h1Wire>>

\* The read branch with bytes left from the head: no wait, they are sent up.
H1PassTail ==
    /\ h1Codec = "inProgress" /\ h1Buffer # <<>>
    /\ h1Buffer' = <<>>
    /\ IF h1Source = "held"
       THEN /\ h1Upload = <<>> /\ h1Upload' = h1Buffer /\ UNCHANGED <<h1Codec, h1Why>>
       ELSE H1End("failed", "source gone") /\ UNCHANGED h1Upload
    /\ UNCHANGED <<h1Client, h1Taken, h1SourceVars, h1Download, h1SinkVars, h1Permit, h1Wire>>

\* Mutant: the read does not wait for a slot, and an unread piece is replaced.
MutantH1ReadBody ==
    /\ h1Codec = "inProgress" /\ h1Buffer = <<>>
    /\ \E k \in (h1Taken + 1)..h1Sent :
          /\ h1Taken' = k
          /\ h1Upload' = H1Run(h1Taken + 1, k)
    /\ UNCHANGED <<h1Codec, h1Why, h1Buffer, h1Client, h1SourceVars, h1Download, h1SinkVars,
                   h1Permit, h1Wire>>

\* The read branch while a request is in progress: it waits for a slot of the
\* upload channel (a dropped receiver also ends the wait), then reads.
H1ReadBody ==
    /\ h1Codec = "inProgress" /\ h1Buffer = <<>>
    /\ h1Upload = <<>> \/ h1Source # "held"
    /\ \E k \in 0..h1Sent :
          /\ H1Reads(k)
          /\ h1Taken' = k
          /\ \/ /\ k = h1Taken
                /\ H1End("flushing", "client eof") /\ UNCHANGED h1Upload
             \/ /\ k > h1Taken /\ h1Source = "held"
                /\ h1Upload' = H1Run(h1Taken + 1, k) /\ UNCHANGED <<h1Codec, h1Why>>
             \/ /\ k > h1Taken /\ h1Source # "held"
                /\ H1End("failed", "source gone") /\ UNCHANGED h1Upload
    /\ UNCHANGED <<h1Buffer, h1Client, h1SourceVars, h1Download, h1SinkVars, h1Permit, h1Wire>>

\* What the cancelled read branch had taken out of the state is dropped with
\* it.  With a request in progress a non-empty buffer is ready at once, so
\* another branch can only win when the read was not polled.
H1CancelRead == h1Buffer' = IF h1Codec = "waiting" THEN <<>> ELSE h1Buffer

H1RecvPiece ==
    /\ H1Listening /\ h1Download = 1
    /\ h1Download' = 0 /\ h1Wire' = h1Wire + 1
    /\ H1CancelRead
    /\ UNCHANGED <<h1Codec, h1Why, h1Client, h1Taken, h1Upload, h1SourceVars, h1SinkVars, h1Permit>>

\* download_rx is closed: the sink is gone.  A stored permit makes it an
\* orderly end.
H1RecvClosed ==
    /\ H1Listening /\ h1Download = 0 /\ h1Sink = "dropped"
    /\ IF h1Permit THEN H1End("flushing", "sink eof") ELSE H1End("failed", "sink gone")
    /\ h1Permit' = FALSE
    /\ H1CancelRead
    /\ UNCHANGED <<h1Client, h1Taken, h1Upload, h1SourceVars, h1Download, h1SinkVars, h1Wire>>

H1EofNotified ==
    /\ H1Listening /\ h1Permit
    /\ h1Permit' = FALSE
    /\ H1End("flushing", "sink eof")
    /\ H1CancelRead
    /\ UNCHANGED <<h1Client, h1Taken, h1Upload, h1SourceVars, h1Download, h1SinkVars, h1Wire>>

\* The tunnel calls graceful_shutdown when the endpoint shuts down.
H1ShutDown ==
    /\ H1Listening
    /\ H1End("flushing", "shutdown")
    /\ H1CancelRead
    /\ UNCHANGED <<h1Client, h1Taken, h1Upload, h1SourceVars, h1Download, h1SinkVars, h1Permit, h1Wire>>

\* Mutant: graceful_shutdown flushes the transport and not the channel.
MutantH1Flush ==
    /\ h1Codec = "flushing"
    /\ h1Codec' = "draining"
    /\ UNCHANGED <<h1Download, h1Wire, h1Why, h1Buffer, h1Client, h1Taken, h1Upload, h1SourceVars,
                   h1SinkVars, h1Permit>>

\* graceful_shutdown writes the piece in the channel, if there is one ...
H1Flush ==
    /\ h1Codec = "flushing"
    /\ h1Codec' = "draining"
    /\ h1Download' = 0 /\ h1Wire' = h1Wire + h1Download
    /\ UNCHANGED <<h1Why, h1Buffer, h1Client, h1Taken, h1Upload, h1SourceVars, h1SinkVars, h1Permit>>

\* Mutant: the wait for a slot does not notice that the source is gone.
MutantH1Drain ==
    /\ h1Codec = "draining" /\ h1Upload = <<>>
    /\ h1Codec' = "graceful"
    /\ UNCHANGED <<h1Why, h1Buffer, h1Client, h1Taken, h1Upload, h1SourceVars, h1Download,
                   h1SinkVars, h1Permit, h1Wire>>

\* ... waits for a slot of the upload channel, and shuts the transport down.
H1Drain ==
    /\ h1Codec = "draining"
    /\ h1Upload = <<>> \/ h1Source = "dropped"
    /\ h1Codec' = "graceful"
    /\ UNCHANGED <<h1Why, h1Buffer, h1Client, h1Taken, h1Upload, h1SourceVars, h1Download,
                   h1SinkVars, h1Permit, h1Wire>>

\* A read, write, flush or shutdown of the transport fails, or the listener's
\* time is over: listen() is left and the codec dropped.
H1TransportFails ==
    /\ H1Alive
    /\ H1End("failed", "io")
    /\ UNCHANGED <<h1Buffer, h1Client, h1Taken, h1Upload, h1SourceVars, h1Download, h1SinkVars,
                   h1Permit, h1Wire>>

-----------------------------------------------------------------------------
(* The stream's ends, driven by a pipe.                                    *)

\* StreamSource::read: a piece, or Eof once the codec has dropped its end.
H1SourceRead ==
    /\ h1Source = "held"
    /\ \/ /\ h1Upload # <<>>
          /\ h1Got' = h1Got \o h1Upload /\ h1Upload' = <<>> /\ UNCHANGED h1Source
       \/ /\ h1Upload = <<>> /\ ~H1Alive
          /\ h1Source' = "ended" /\ UNCHANGED <<h1Got, h1Upload>>
    /\ UNCHANGED <<h1Codec, h1Why, h1Buffer, h1Client, h1Taken, h1Download, h1SinkVars, h1Permit, h1Wire>>

H1SourceDrop ==
    /\ h1Source \in {"held", "ended"}
    /\ h1Source' = "dropped"
    /\ UNCHANGED <<h1Codec, h1Why, h1Buffer, h1Client, h1Taken, h1Upload, h1Got, h1Download,
                   h1SinkVars, h1Permit, h1Wire>>

\* try_send of a piece: a full or a closed channel refuses it.
H1Put(accepted, refused) ==
    IF H1Alive /\ h1Download = 0
    THEN h1Download' = 1 /\ h1Accepted' = h1Accepted + 1 /\ h1Sink' = accepted
    ELSE h1Sink' = refused /\ UNCHANGED <<h1Download, h1Accepted>>

\* send_intermediate_response: a refused response is the caller's error,
\* which drops the sink.
H1SendIntermediateResponse ==
    /\ h1Sink = "pending" /\ h1Accepted < ReplyParts
    /\ H1Put("pending", "dropped")
    /\ UNCHANGED <<h1Codec, h1Why, h1Buffer, h1Client, h1Taken, h1Upload, h1SourceVars, h1Permit, h1Wire>>

\* send_response, with eof when the response has no body.
H1SendResponse ==
    /\ h1Sink = "pending" /\ h1Accepted < ReplyParts
    /\ \E eof \in BOOLEAN :
          /\ H1Put(IF eof THEN "ended" ELSE "responded", "dropped")
          /\ h1Permit' = (h1Permit \/ h1Sink' = "ended")
    /\ UNCHANGED <<h1Codec, h1Why, h1Buffer, h1Client, h1Taken, h1Upload, h1SourceVars, h1Wire>>

\* Sink::write and DroppingSink::write: a full channel takes nothing.
H1SinkWrite ==
    /\ h1Sink = "responded" /\ h1Accepted < ReplyParts
    /\ H1Put("responded", IF H1Alive THEN "responded" ELSE "dropped")
    /\ UNCHANGED <<h1Codec, h1Why, h1Buffer, h1Client, h1Taken, h1Upload, h1SourceVars, h1Permit, h1Wire>>

H1SinkEof ==
    /\ h1Sink = "responded"
    /\ h1Sink' = "ended" /\ h1Permit' = TRUE
    /\ UNCHANGED <<h1Codec, h1Why, h1Buffer, h1Client, h1Taken, h1Upload, h1SourceVars, h1Download,
                   h1Accepted, h1Wire>>

H1SinkDrop ==
    /\ h1Sink \in {"pending", "responded", "ended"}
    /\ h1Sink' = "dropped"
    /\ UNCHANGED <<h1Codec, h1Why, h1Buffer, h1Client, h1Taken, h1Upload, h1SourceVars, h1Download,
                   h1Accepted, h1Permit, h1Wire>>

H1Next ==
    \/ H1ClientSends \/ H1ClientCloses
    \/ H1ReadHead \/ H1PassTail \/ H1ReadBody
    \/ H1RecvPiece \/ H1RecvClosed \/ H1EofNotified
    \/ H1ShutDown \/ H1Flush \/ H1Drain \/ H1TransportFails
    \/ H1SourceRead \/ H1SourceDrop
    \/ H1SendIntermediateResponse \/ H1SendResponse \/ H1SinkWrite \/ H1SinkEof \/ H1SinkDrop

H1Spec == H1Init /\ [][H1Next]_h1Vars

-----------------------------------------------------------------------------
(* Properties.                                                             *)

\* When the session ends because the sink signalled its end, everything the
\* sink had put in the channel has been written to the client, whichever
\* branch of the select noticed the end.  This is about graceful_shutdown
\* taking one piece out of a channel of one piece.
H1EofFlushesResponse ==
    h1Codec = "graceful" /\ h1Why = "sink eof" => h1Wire = h1Accepted

\* A session is not reported as broken by its stream when the stream ended in
\* order: after eof() and a drop of the sink, the closed channel is never
\* taken for an error.  This is about the race the None branch arbitrates.
H1OrderlyEndIsNotAnError == [][h1Why' = "sink gone" => ~h1Permit]_h1Vars

\* No piece of the request body is lost, repeated or reordered on its way to
\* the stream's source, however the branches of the select interleave; and a
\* source that reads the end after the client closed has read all of it.
H1UploadIsIntact ==
    /\ h1Codec = "inProgress" =>
          \/ h1Got \o h1Upload \o h1Buffer = H1Run(HeadParts + 1, h1Taken)
          \/ h1Source # "held"
    /\ h1Source = "ended" /\ h1Why = "client eof" => h1Got = H1Run(HeadParts + 1, h1Sent)

\* A stream that signals its end ends the session, provided its source keeps
\* reading or is dropped: the graceful shutdown waits for the source to take
\* the last piece.
H1SessionEnds ==
    WF_h1Vars(H1EofNotified \/ H1RecvClosed \/ H1Flush \/ H1Drain \/ H1SourceRead)
    => (h1Sink = "ended" ~> ~H1Alive)
=============================================================================
