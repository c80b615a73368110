---------------------------- MODULE Http2Session ----------------------------
(***************************************************************************)
(* lib/src/http2_codec.rs: one HTTP/2 session over the h2 crate.  h2 is    *)
(* external: it drives the connection only while accept() is polled, hands *)
(* the connection's send window to the streams that reserved capacity, and *)
(* takes back what a stream no longer asks for.  Lengths count small units *)
(* of data.                                                                *)
(***************************************************************************)
EXTENDS Naturals, FiniteSets

CONSTANTS
    H2Stream,       \* the streams the client may open
    H2Chunk,        \* the longest chunk or datagram for the client
    H2Window,       \* the connection's send window
    H2Datagram,     \* the streams of datagrams; the others are piped
    H2Uploading,    \* bound: the streams with a request body
    H2Upload        \* bound: the length of a request body

ASSUME Http2Assumption ==
    /\ H2Chunk \in Nat \ {0} /\ H2Window \in Nat /\ H2Upload \in Nat
    /\ H2Datagram \subseteq H2Stream /\ H2Uploading \subseteq H2Stream

VARIABLES
    h2State,        \* "handshake", "established", "draining", or how it ended
    h2Told,         \* the end the client gave the connection: "", "none", "no error", "error", "io"
    h2Str,          \* each stream: "new", "open", "closed"
    h2Sink,         \* its RespondStream: "pending", "ready", "waiting", "ended"
    h2Rest,         \* what the pipe's current chunk, or the datagram, still has
    h2Req,          \* h2: capacity the stream asks for
    h2Avail,        \* h2: capacity it has
    h2Spare,        \* h2: what no stream has of the connection's window
    h2Sent,         \* whether a datagram was cut
    h2Body,         \* the request body: [wire, read, freed] lengths
    h2Read          \* how reading ended: "", "eof", "error"

h2Send == <<h2Rest, h2Req, h2Avail, h2Spare, h2Sent>>
h2Recv == <<h2Body, h2Read>>
h2Vars == <<h2State, h2Told, h2Str, h2Sink, h2Send, h2Recv>>

H2Ended == {"finished", "failed"}

\* The type invariant.
H2TypeOK ==
    /\ h2State \in {"handshake", "established", "draining"} \union H2Ended
    /\ \A s \in H2Stream : h2Avail[s] <= h2Req[s] /\ h2Rest[s] \in 0..H2Chunk
    /\ h2Spare \in 0..H2Window

H2Init ==
    /\ h2State = "handshake" /\ h2Told = ""
    /\ h2Str = [s \in H2Stream |-> "new"] /\ h2Sink = [s \in H2Stream |-> "pending"]
    /\ h2Rest = [s \in H2Stream |-> 0] /\ h2Req = [s \in H2Stream |-> 0]
    /\ h2Avail = [s \in H2Stream |-> 0] /\ h2Spare = H2Window
    /\ h2Sent = [s \in H2Stream |-> "whole"]
    /\ h2Body = [s \in H2Stream |-> [wire |-> 0, read |-> 0, freed |-> 0]]
    /\ h2Read = [s \in H2Stream |-> ""]

-----------------------------------------------------------------------------
(* h2 and the client (external).                                           *)

\* The client ends the connection: GOAWAY without or with an error, or it is lost.
H2ClientEnds ==
    /\ h2State \notin H2Ended /\ h2Told = ""
    /\ h2Told' \in {"none", "no error", "error", "io"}
    /\ UNCHANGED <<h2State, h2Str, h2Sink, h2Send, h2Recv>>

H2ClientSends(s) ==
    /\ h2Str[s] = "open" /\ h2Told = ""
    /\ s \in H2Uploading /\ h2Body[s].wire < H2Upload
    /\ h2Body' = [h2Body EXCEPT ![s].wire = @ + 1]
    /\ UNCHANGED <<h2State, h2Told, h2Str, h2Sink, h2Send, h2Read>>

\* The stream's end from the client, once its response has ended.
H2ClientCloses(s) ==
    /\ h2Str[s] = "open" /\ h2Sink[s] = "ended"
    /\ h2Str' = [h2Str EXCEPT ![s] = "closed"]
    /\ UNCHANGED <<h2State, h2Told, h2Sink, h2Send, h2Recv>>

\* While the connection is driven, spare window goes to a stream that asked.
H2Assign(s) ==
    /\ h2State \in {"established", "draining"} /\ h2Told # "io"
    /\ h2Avail[s] < h2Req[s] /\ h2Spare > 0
    /\ h2Avail' = [h2Avail EXCEPT ![s] = @ + 1]
    /\ h2Spare' = h2Spare - 1
    /\ UNCHANGED <<h2State, h2Told, h2Str, h2Sink, h2Rest, h2Req, h2Sent, h2Recv>>

\* A WINDOW_UPDATE of the client.
H2WindowUpdate ==
    /\ h2State \in {"established", "draining"} /\ h2Told = ""
    /\ \A s \in H2Stream : h2Avail[s] = 0
    /\ h2Spare = 0 /\ h2Spare' = H2Window
    /\ UNCHANGED <<h2State, h2Told, h2Str, h2Sink, h2Rest, h2Req, h2Avail, h2Sent, h2Recv>>

-----------------------------------------------------------------------------
(* Http2Codec.                                                             *)

\* The handshake of the first listen().
H2Handshake ==
    /\ h2State = "handshake"
    /\ h2State' = IF h2Told = "" THEN "established" ELSE "failed"
    /\ UNCHANGED <<h2Told, h2Str, h2Sink, h2Send, h2Recv>>

\* accept() in listen(): a stream, or the connection's end: None and an error
\* with NO_ERROR finish the session, an I/O error and any other fail it.
H2Listen ==
    /\ h2State = "established"
    /\ \/ \E s \in H2Stream :
             /\ h2Told = "" /\ h2Str[s] = "new"
             /\ h2Str' = [h2Str EXCEPT ![s] = "open"]
             /\ UNCHANGED h2State
       \/ /\ h2Told # ""
          /\ h2State' = IF h2Told \in {"none", "no error"} THEN "finished" ELSE "failed"
          /\ UNCHANGED h2Str
    /\ UNCHANGED <<h2Told, h2Sink, h2Send, h2Recv>>

\* graceful_shutdown: nothing to say before the handshake is over.
H2GracefulShutdown ==
    /\ h2State \in {"handshake", "established"}
    /\ h2State' = IF h2State = "handshake" THEN "finished" ELSE "draining"
    /\ UNCHANGED <<h2Told, h2Str, h2Sink, h2Send, h2Recv>>

\* Its loop over accept(): streams are dropped, errors that are not I/O are
\* passed over, None (no stream is left, or the client has gone) ends it.
H2Drain ==
    /\ h2State = "draining"
    /\ \/ \E s \in H2Stream :
             /\ h2Told = "" /\ h2Str[s] = "new"
             /\ h2Str' = [h2Str EXCEPT ![s] = "closed"] /\ UNCHANGED h2State
       \/ /\ h2Told \notin {"", "io"} \/ \A s \in H2Stream : h2Str[s] # "open"
          /\ h2State' = "finished" /\ UNCHANGED h2Str
       \/ /\ h2Told = "io" /\ h2State' = "failed" /\ UNCHANGED h2Str
    /\ UNCHANGED <<h2Told, h2Sink, h2Send, h2Recv>>

-----------------------------------------------------------------------------
(* RequestStream.                                                          *)

\* read: data, else the end.  An error without a reason or with NO_ERROR is
\* the end too: a lost connection has no reason.
H2ReadBody(s) ==
    /\ h2Str[s] # "new" /\ s \in H2Uploading /\ h2Read[s] = ""
    /\ LET b == h2Body[s] IN
       \/ /\ b.wire > b.read
          /\ h2Body' = [h2Body EXCEPT ![s].read = b.wire]
          /\ UNCHANGED h2Read
       \/ /\ b.wire = b.read /\ (h2Str[s] = "closed" \/ h2Told # "")
          /\ h2Read' = [h2Read EXCEPT ![s] = IF h2Told = "error" THEN "error" ELSE "eof"]
          /\ UNCHANGED h2Body
    /\ UNCHANGED <<h2State, h2Told, h2Str, h2Sink, h2Send>>

\* consume: release_capacity refuses more than was read.
H2Consume(s) ==
    /\ \E n \in 1..(h2Body[s].read - h2Body[s].freed) :
          h2Body' = [h2Body EXCEPT ![s].freed = @ + n]
    /\ UNCHANGED <<h2State, h2Told, h2Str, h2Sink, h2Send, h2Read>>

-----------------------------------------------------------------------------
(* Respond and RespondStream.                                              *)

H2SendResponse(s) ==
    /\ h2Str[s] = "open" /\ h2Sink[s] = "pending"
    /\ \E eof \in BOOLEAN : h2Sink' = [h2Sink EXCEPT ![s] = IF eof THEN "ended" ELSE "ready"]
    /\ UNCHANGED <<h2State, h2Told, h2Str, h2Send, h2Recv>>

\* reserve_capacity(n) gives what exceeds n back to the connection; the
\* capacity that is left.
H2Reserved(s, n) == IF h2Avail[s] > n THEN n ELSE h2Avail[s]
H2Reserve(s, n, sent) ==
    /\ h2Req' = [h2Req EXCEPT ![s] = n - sent]
    /\ h2Avail' = [h2Avail EXCEPT ![s] = H2Reserved(s, n) - sent]
    /\ h2Spare' = h2Spare + h2Avail[s] - H2Reserved(s, n)

\* The next chunk of the pipe, or the rest of the current one.
H2NextChunk(s) == IF h2Rest[s] = 0 THEN 1..H2Chunk ELSE {h2Rest[s]}

\* Mutant: only what can be sent at once is reserved.
MutantH2Write(s) ==
    /\ h2Sink[s] = "ready" /\ s \notin H2Datagram /\ h2State \notin H2Ended
    /\ \E n \in H2NextChunk(s) :
          LET sent == H2Reserved(s, n) IN
          /\ h2Rest' = [h2Rest EXCEPT ![s] = n - sent]
          /\ H2Reserve(s, sent, sent)
    /\ UNCHANGED <<h2State, h2Told, h2Str, h2Sink, h2Sent, h2Recv>>

\* pipe::Sink::write: what the capacity allows of the chunk is sent.
H2Write(s) ==
    /\ h2Sink[s] = "ready" /\ s \notin H2Datagram /\ h2State \notin H2Ended
    /\ \E n \in H2NextChunk(s) :
          LET sent == H2Reserved(s, n) IN
          /\ h2Rest' = [h2Rest EXCEPT ![s] = n - sent]
          /\ H2Reserve(s, n, sent)
    /\ UNCHANGED <<h2State, h2Told, h2Str, h2Sink, h2Sent, h2Recv>>

\* WaitWritable: ready with any capacity, at once or when it is assigned.
H2WaitWritable(s) ==
    /\ s \notin H2Datagram /\ h2Rest[s] > 0
    /\ \/ /\ h2Sink[s] = "ready" /\ h2Avail[s] = 0
          /\ h2Sink' = [h2Sink EXCEPT ![s] = "waiting"]
       \/ /\ h2Sink[s] = "waiting" /\ h2Avail[s] > 0
          /\ h2Sink' = [h2Sink EXCEPT ![s] = "ready"]
       \/ /\ h2Sink[s] = "waiting" /\ (h2State \in H2Ended \/ h2Told # "")
          /\ h2Sink' = [h2Sink EXCEPT ![s] = "ended"]
    /\ UNCHANGED <<h2State, h2Told, h2Str, h2Send, h2Recv>>

\* DroppingSink::write: all of the datagram or nothing.
H2WriteDatagram(s) ==
    /\ h2Sink[s] = "ready" /\ s \in H2Datagram /\ h2State \notin H2Ended
    /\ \E n \in 1..H2Chunk :
       LET sent == IF h2Avail[s] >= n THEN n ELSE 0 IN
       /\ H2Reserve(s, n, sent)
       /\ h2Sent' = [h2Sent EXCEPT ![s] = IF sent \in 1..(n - 1) THEN "cut" ELSE @]
    /\ UNCHANGED <<h2State, h2Told, h2Str, h2Sink, h2Rest, h2Recv>>

\* eof(), or the sink is dropped: h2 frees the stream's capacity.
H2Eof(s) ==
    /\ h2Str[s] = "open" /\ h2Sink[s] \in {"pending", "ready", "waiting"}
    /\ h2Sink' = [h2Sink EXCEPT ![s] = "ended"]
    /\ h2Rest' = [h2Rest EXCEPT ![s] = 0]
    /\ H2Reserve(s, 0, 0)
    /\ UNCHANGED <<h2State, h2Told, h2Str, h2Sent, h2Recv>>

H2Next ==
    \/ H2ClientEnds \/ H2WindowUpdate
    \/ H2Handshake \/ H2Listen \/ H2GracefulShutdown \/ H2Drain
    \/ \E s \in H2Stream :
          \/ H2ClientSends(s) \/ H2ClientCloses(s) \/ H2Assign(s)
          \/ H2ReadBody(s) \/ H2Consume(s)
          \/ H2SendResponse(s) \/ H2Write(s) \/ H2WaitWritable(s) \/ H2WriteDatagram(s) \/ H2Eof(s)
H2Spec == H2Init /\ [][H2Next]_h2Vars

-----------------------------------------------------------------------------
(* Properties.                                                             *)

\* Flow control is kept on every stream.  A sink that waits for capacity has
\* asked for it: h2 gives window only to streams that reserved some, so a wait
\* without a reservation never ends.  The client is given window back only for
\* what the other side has taken.  A datagram is sent whole or not at all,
\* whatever window is left: the client's decoder has no other way to find the
\* next one.
H2FlowControl ==
    \A s \in H2Stream :
        /\ h2Sink[s] = "waiting" => h2Req[s] > 0
        /\ h2Body[s].freed <= h2Body[s].read
        /\ h2Sent[s] = "whole"

\* A session that shuts down ends, once its streams' sinks and the client
\* let their streams end: streams the client still opens do not keep it.
H2ShutdownEnds ==
    WF_h2Vars(H2Drain \/ \E s \in H2Stream : H2Eof(s) \/ H2ClientCloses(s))
    => (h2State = "draining" ~> h2State \in H2Ended)
=============================================================================
