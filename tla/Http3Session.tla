---------------------------- MODULE Http3Session ----------------------------
(***************************************************************************)
(* lib/src/http3_codec.rs: one HTTP/3 session.  The codec owns the table   *)
(* of streams and listens to the QUIC socket and to an unbounded queue of  *)
(* messages from the streams' ends; it wakes them by two channels of one   *)
(* element per stream.  The ends call the socket directly.                 *)
(*                                                                         *)
(* quiche is external: the data, ends and capacities it knows of, and the  *)
(* events it reports.  A Data event is reported once, until the data has   *)
(* been read; Finished is reported once everything has been read.          *)
(***************************************************************************)
EXTENDS Naturals, Sequences

CONSTANTS
    H3Stream,       \* the streams
    H3Writer        \* bound: the streams whose sink is used

ASSUME Http3Assumption == H3Writer \subseteq H3Stream

\* The capacity of a stream: below MIN_USABLE_QUIC_STREAM_CAPACITY, less than
\* the headers or the next frame take, or enough for them; or the client has
\* stopped the stream.
H3Capacity == {"none", "small", "enough", "stopped"}
H3Usable(capacity) == capacity \in {"small", "enough"}

VARIABLES
    h3Codec,        \* "listening", or why listen() has ended
    h3Open,         \* the keys of `streams`
    h3Shut,         \* the directions of each that are shut down
    h3Queue,        \* codec_tx -> stream_rx
    h3Readable,     \* readable_event_tx -> readable_event_rx
    h3Writable,     \* writable_event_tx -> writable_event_rx
    h3Waiting,      \* QuicSocket.waiting_writable_streams
    h3Hand,         \* the streams of a Writable event that is being handled
    h3Source,       \* StreamSource
    h3Sink,         \* StreamSink
    h3Eof,          \* the deferred response has the eof flag
    h3Data,         \* quiche: unread data of the stream
    h3Fin,          \* quiche: the client has ended its direction
    h3Told,         \* quiche: the Data event was triggered and not all is read
    h3Report,       \* quiche: events of the stream to report
    h3Cap           \* quiche: stream_capacity

h3Quiche == <<h3Data, h3Fin, h3Told, h3Report>>
h3Ends == <<h3Source, h3Sink, h3Eof>>
h3Chans == <<h3Queue, h3Readable, h3Writable>>
h3Table == <<h3Codec, h3Open, h3Shut>>
h3Regs == <<h3Waiting, h3Hand>>
h3Vars == <<h3Table, h3Chans, h3Regs, h3Ends, h3Quiche, h3Cap>>

H3Listening == h3Codec = "listening"
H3Tx(m) == h3Queue' = IF H3Listening THEN Append(h3Queue, m) ELSE h3Queue
H3Msg(kind, s) == [kind |-> kind, stream |-> s]

\* The type invariant.
H3TypeOK ==
    /\ h3Codec \in {"listening", "not found", "source gone", "ended"}
    /\ h3Open \subseteq H3Stream /\ h3Waiting \subseteq H3Stream /\ h3Hand \subseteq H3Stream
    /\ h3Readable \in [H3Stream -> 0..1] /\ h3Writable \in [H3Stream -> 0..1]
    /\ \A s \in H3Stream : h3Shut[s] \in SUBSET {"read", "write"}
                           /\ (s \in h3Open => h3Shut[s] # {"read", "write"})
    /\ h3Cap \in [H3Stream -> H3Capacity]

H3Init ==
    /\ h3Codec = "listening" /\ h3Open = {} /\ h3Shut = [s \in H3Stream |-> {}]
    /\ h3Queue = <<>> /\ h3Readable = [s \in H3Stream |-> 0] /\ h3Writable = [s \in H3Stream |-> 0]
    /\ h3Waiting = {} /\ h3Hand = {}
    /\ h3Source = [s \in H3Stream |-> "none"] /\ h3Sink = [s \in H3Stream |-> "none"]
    /\ h3Eof = [s \in H3Stream |-> FALSE]
    /\ h3Data = [s \in H3Stream |-> FALSE] /\ h3Fin = [s \in H3Stream |-> FALSE]
    /\ h3Told = [s \in H3Stream |-> FALSE] /\ h3Report = [s \in H3Stream |-> {}]
    /\ h3Cap \in [H3Stream -> {"none", "enough"}]

-----------------------------------------------------------------------------
(* The client, as quiche shows it; the connection ends with the codec.      *)

H3ClientData(s) ==
    /\ H3Listening /\ h3Source[s] # "none" /\ "read" \notin h3Shut[s] /\ ~h3Fin[s] /\ ~h3Data[s]
    /\ h3Data' = [h3Data EXCEPT ![s] = TRUE]
    /\ h3Told' = [h3Told EXCEPT ![s] = TRUE]
    /\ h3Report' = [h3Report EXCEPT ![s] = IF h3Told[s] THEN @ ELSE @ \union {"data"}]
    /\ UNCHANGED <<h3Table, h3Chans, h3Regs, h3Ends, h3Fin, h3Cap>>

H3ClientFin(s) ==
    /\ H3Listening /\ h3Source[s] # "none" /\ "read" \notin h3Shut[s] /\ ~h3Fin[s]
    /\ h3Fin' = [h3Fin EXCEPT ![s] = TRUE]
    /\ h3Report' = [h3Report EXCEPT ![s] = IF h3Data[s] THEN @ ELSE @ \union {"finished"}]
    /\ UNCHANGED <<h3Table, h3Chans, h3Regs, h3Ends, h3Data, h3Told, h3Cap>>

\* A window update makes room, the other streams use up the connection's
\* window, or the client stops the stream.
H3ClientWindow(s) ==
    /\ H3Listening /\ s \in H3Writer /\ h3Source[s] # "none" /\ h3Cap[s] # "stopped"
    /\ \E c \in H3Capacity \ {h3Cap[s]} : h3Cap' = [h3Cap EXCEPT ![s] = c]
    /\ UNCHANGED <<h3Table, h3Chans, h3Regs, h3Ends, h3Quiche>>

-----------------------------------------------------------------------------
(* Http3Codec::listen: a select over the socket's events and, when the     *)
(* table is not empty, the streams' messages.                              *)

H3Ready == H3Listening /\ h3Hand = {}
H3Unreported == \A s \in H3Stream : h3Report[s] = {}

H3OnRequest(s) ==
    /\ H3Ready /\ h3Source[s] = "none"
    /\ h3Open' = h3Open \union {s}
    /\ h3Source' = [h3Source EXCEPT ![s] = "idle"]
    /\ h3Sink' = [h3Sink EXCEPT ![s] = "pending"]
    /\ UNCHANGED <<h3Codec, h3Shut, h3Chans, h3Regs, h3Eof, h3Quiche, h3Cap>>

\* on_stream_readable.  Both errors leave listen() by `?`: they end the
\* session, not the stream.
H3OnStreamReadable(s) ==
    /\ H3Ready /\ "data" \in h3Report[s]
    /\ h3Report' = [h3Report EXCEPT ![s] = @ \ {"data"}]
    /\ IF s \in h3Open /\ h3Source[s] # "dropped"
       THEN h3Readable' = [h3Readable EXCEPT ![s] = 1] /\ UNCHANGED h3Codec
       ELSE /\ h3Codec' = IF s \in h3Open THEN "source gone" ELSE "not found"
            /\ UNCHANGED h3Readable
    /\ UNCHANGED <<h3Open, h3Shut, h3Queue, h3Writable, h3Regs, h3Ends, h3Data, h3Fin, h3Told, h3Cap>>

\* Mutant: only a shutdown of both directions at once removes the stream.
MutantH3OnStreamShutdown(s, directions, report) ==
    /\ h3Shut' = [h3Shut EXCEPT ![s] = IF s \in h3Open THEN @ \union directions ELSE @]
    /\ h3Open' = IF directions = {"read", "write"} THEN h3Open \ {s} ELSE h3Open
    /\ h3Report' = report /\ UNCHANGED h3Data

\* on_stream_shutdown of a stream of the table; nothing for any other (its
\* error is logged or dropped by every caller).  A shutdown of reading
\* discards what quiche holds for the stream.
H3OnStreamShutdown(s, directions, report) ==
    IF s \in h3Open
    THEN /\ h3Shut' = [h3Shut EXCEPT ![s] = @ \union directions]
         /\ h3Open' = IF h3Shut'[s] = {"read", "write"} THEN h3Open \ {s} ELSE h3Open
         /\ IF "read" \in directions
            THEN /\ h3Data' = [h3Data EXCEPT ![s] = FALSE]
                 /\ h3Report' = [report EXCEPT ![s] = {}]
            ELSE h3Report' = report /\ UNCHANGED h3Data
    ELSE h3Report' = report /\ UNCHANGED <<h3Shut, h3Open, h3Data>>

\* The event Close: Finished or Reset of the client's direction.
H3OnClose(s) ==
    /\ H3Ready /\ "finished" \in h3Report[s]
    /\ H3OnStreamShutdown(s, {"read"}, [h3Report EXCEPT ![s] = @ \ {"finished"}])
    /\ UNCHANGED <<h3Codec, h3Chans, h3Regs, h3Ends, h3Fin, h3Told, h3Cap>>

\* QuicSocket::listen with nothing else to report: the waiting streams with
\* usable capacity, an error counting as such, are taken out of the set.
H3TakeWritable ==
    /\ H3Ready /\ H3Unreported
    /\ h3Hand' = {s \in h3Waiting : h3Cap[s] # "none"}
    /\ h3Hand' # {}
    /\ h3Waiting' = h3Waiting \ h3Hand'
    /\ UNCHANGED <<h3Table, h3Chans, h3Ends, h3Quiche, h3Cap>>

\* Mutant: a stream whose capacity is gone again is not registered anew.
MutantH3NotifyWritableStreams ==
    /\ H3Listening /\ h3Hand # {}
    /\ h3Hand' = {}
    /\ h3Writable' = [s \in H3Stream |-> IF s \in h3Hand \intersect h3Open /\ H3Usable(h3Cap[s])
                                         THEN 1 ELSE h3Writable[s]]
    /\ UNCHANGED <<h3Waiting, h3Table, h3Queue, h3Readable, h3Ends, h3Quiche, h3Cap>>

\* notify_writable_streams: the capacity is read anew; too little registers
\* the stream again, an error is only logged.
H3NotifyWritableStreams ==
    /\ H3Listening /\ h3Hand # {}
    /\ h3Hand' = {}
    /\ h3Waiting' = h3Waiting \union {s \in h3Hand \intersect h3Open : h3Cap[s] = "none"}
    /\ h3Writable' = [s \in H3Stream |->
                         IF s \in h3Hand \intersect h3Open /\ H3Usable(h3Cap[s])
                            /\ h3Sink[s] # "dropped"
                         THEN 1 ELSE h3Writable[s]]
    /\ UNCHANGED <<h3Table, h3Queue, h3Readable, h3Ends, h3Quiche, h3Cap>>

H3OnStreamMessage ==
    /\ H3Ready /\ h3Open # {} /\ h3Queue # <<>>
    /\ h3Queue' = Tail(h3Queue)
    /\ LET m == Head(h3Queue) IN
       IF m.kind = "waiting"
       THEN /\ h3Waiting' = h3Waiting \union {m.stream}
            /\ UNCHANGED <<h3Shut, h3Open, h3Data, h3Report>>
       ELSE /\ H3OnStreamShutdown(m.stream, IF m.kind = "both" THEN {"read", "write"} ELSE {m.kind},
                                  h3Report)
            /\ UNCHANGED h3Waiting
    /\ UNCHANGED <<h3Codec, h3Readable, h3Writable, h3Hand, h3Ends, h3Fin, h3Told, h3Cap>>

\* The table, the queue and the connection's events are dropped with the codec.
H3CodecDrop ==
    /\ h3Codec' = "ended" /\ h3Open' = {} /\ h3Shut' = [s \in H3Stream |-> {}]
    /\ h3Queue' = <<>> /\ h3Waiting' = {} /\ h3Report' = [s \in H3Stream |-> {}]
    /\ UNCHANGED <<h3Readable, h3Writable, h3Hand, h3Ends, h3Data, h3Fin, h3Told, h3Cap>>

\* The connection is closed, or the tunnel shuts the session down.
H3End == H3Ready /\ H3CodecDrop

\* A request that cannot be parsed is answered with 400 and its error is
\* returned by listen(): it ends the session, not the stream.
H3BadRequest(s) == H3Ready /\ h3Source[s] = "none" /\ H3CodecDrop

H3Listen ==
    \/ \E s \in H3Stream : H3OnRequest(s) \/ H3BadRequest(s) \/ H3OnStreamReadable(s) \/ H3OnClose(s)
    \/ H3TakeWritable \/ H3NotifyWritableStreams \/ H3OnStreamMessage

-----------------------------------------------------------------------------
(* StreamSource.  The codec's end of a channel is dropped with the stream's *)
(* entry, or with the codec.                                                *)

H3Gone(s) == s \notin h3Open \/ ~H3Listening

H3Read(s) ==
    /\ h3Source[s] = "idle"
    /\ \/ /\ h3Data[s]
          /\ h3Data' = [h3Data EXCEPT ![s] = FALSE]
          /\ h3Told' = [h3Told EXCEPT ![s] = FALSE]
          /\ h3Report' = [h3Report EXCEPT ![s] = IF h3Fin[s] THEN @ \union {"finished"} ELSE @]
          /\ UNCHANGED h3Source
       \/ /\ ~h3Data[s]
          /\ h3Source' = [h3Source EXCEPT ![s] = IF h3Fin[s] THEN "ended" ELSE "waiting"]
          /\ h3Told' = [h3Told EXCEPT ![s] = FALSE]
          /\ UNCHANGED <<h3Data, h3Report>>
    /\ UNCHANGED <<h3Table, h3Chans, h3Regs, h3Sink, h3Eof, h3Fin, h3Cap>>

\* A message wakes the reader; so does the end of the channel, as an error.
H3ReadWake(s) ==
    /\ h3Source[s] = "waiting"
    /\ \/ /\ h3Readable[s] = 1
          /\ h3Readable' = [h3Readable EXCEPT ![s] = 0]
          /\ h3Source' = [h3Source EXCEPT ![s] = "idle"]
       \/ /\ h3Readable[s] = 0 /\ H3Gone(s)
          /\ h3Source' = [h3Source EXCEPT ![s] = "ended"]
          /\ UNCHANGED h3Readable
    /\ UNCHANGED <<h3Table, h3Queue, h3Writable, h3Regs, h3Sink, h3Eof, h3Quiche, h3Cap>>

H3SourceDrop(s) ==
    /\ h3Source[s] \in {"idle", "waiting", "ended"}
    /\ h3Source' = [h3Source EXCEPT ![s] = "dropped"]
    /\ H3Tx(H3Msg("read", s))
    /\ UNCHANGED <<h3Table, h3Readable, h3Writable, h3Regs, h3Sink, h3Eof, h3Quiche, h3Cap>>

-----------------------------------------------------------------------------
(* StreamSink: "pending" (no response yet), "deferred" (the response was    *)
(* blocked), "flushing", "ready", "waiting", "ended" (eof) or "dropped".    *)

\* try_send_pending_response: blocked without enough capacity, refused on a stopped
\* stream (the error drops the sink), and with eof both directions are to be
\* shut down, an error when the codec is gone.
H3TrySend(s, eof) ==
    \/ /\ h3Cap[s] = "enough"
       /\ h3Sink' = [h3Sink EXCEPT ![s] = IF eof /\ ~H3Listening THEN "dropped" ELSE "ready"]
       /\ h3Eof' = [h3Eof EXCEPT ![s] = FALSE]
       /\ IF eof THEN H3Tx(H3Msg("both", s)) ELSE UNCHANGED h3Queue
    \/ /\ h3Cap[s] \in {"none", "small"}
       /\ h3Sink' = [h3Sink EXCEPT ![s] = "deferred"] /\ h3Eof' = [h3Eof EXCEPT ![s] = eof]
       /\ UNCHANGED h3Queue
    \/ /\ h3Cap[s] = "stopped"
       /\ h3Sink' = [h3Sink EXCEPT ![s] = "dropped"]
       /\ H3Tx(H3Msg("write", s)) /\ UNCHANGED h3Eof

H3SendResponse(s) ==
    /\ s \in H3Writer /\ h3Sink[s] = "pending"
    /\ \E eof \in BOOLEAN : H3TrySend(s, eof)
    /\ UNCHANGED <<h3Table, h3Readable, h3Writable, h3Regs, h3Source, h3Quiche, h3Cap>>

\* A registration for writability; the codec's end may be gone.
H3Register(s, waiting) ==
    /\ h3Sink' = [h3Sink EXCEPT ![s] = IF H3Listening THEN waiting ELSE "ended"]
    /\ H3Tx(H3Msg("waiting", s))

\* flush of a deferred response, up to its await.
H3Flush(s) ==
    /\ h3Sink[s] = "deferred"
    /\ H3Register(s, "flushing")
    /\ UNCHANGED <<h3Table, h3Readable, h3Writable, h3Regs, h3Source, h3Eof, h3Quiche, h3Cap>>

\* wait_body_capacity, up to its await.
H3WaitCapacity(s) ==
    /\ h3Sink[s] = "ready" /\ h3Cap[s] # "enough"
    /\ IF h3Cap[s] = "stopped"
       THEN h3Sink' = [h3Sink EXCEPT ![s] = "ended"] /\ UNCHANGED h3Queue
       ELSE H3Register(s, "waiting")
    /\ UNCHANGED <<h3Table, h3Readable, h3Writable, h3Regs, h3Source, h3Eof, h3Quiche, h3Cap>>

\* The sink is woken: a deferred response is tried again, a writer looks at
\* the capacity again.  The end of the channel is an error.
H3WriteWake(s) ==
    /\ h3Sink[s] \in {"flushing", "waiting"}
    /\ \/ /\ h3Writable[s] = 1
          /\ h3Writable' = [h3Writable EXCEPT ![s] = 0]
          /\ IF h3Sink[s] = "flushing" THEN H3TrySend(s, h3Eof[s])
             ELSE h3Sink' = [h3Sink EXCEPT ![s] = "ready"] /\ UNCHANGED <<h3Eof, h3Queue>>
       \/ /\ h3Writable[s] = 0 /\ H3Gone(s)
          /\ h3Sink' = [h3Sink EXCEPT ![s] = "ended"]
          /\ UNCHANGED <<h3Writable, h3Eof, h3Queue>>
    /\ UNCHANGED <<h3Table, h3Readable, h3Regs, h3Source, h3Quiche, h3Cap>>

\* The pipe's timer cancels both directions: the next iteration reads, flushes
\* or writes again, with the old registration still there.  The wait of a sink
\* is cancelled here only when its wake-up has arrived; before, the restart
\* would only repeat the registration.  Bound: a timeout is longer than the
\* codec takes to empty its queue.
H3Restart(s) ==
    /\ h3Queue = <<>>
    /\ h3Source[s] = "waiting" \/ (h3Sink[s] \in {"flushing", "waiting"} /\ h3Writable[s] = 1)
    /\ h3Source' = [h3Source EXCEPT ![s] = IF @ = "waiting" THEN "idle" ELSE @]
    /\ h3Sink' = [h3Sink EXCEPT ![s] = IF h3Writable[s] = 0 THEN @
                                       ELSE IF @ = "flushing" THEN "deferred"
                                       ELSE IF @ = "waiting" THEN "ready" ELSE @]
    /\ UNCHANGED <<h3Table, h3Chans, h3Regs, h3Eof, h3Quiche, h3Cap>>

\* A write uses up capacity.
H3Write(s) ==
    /\ h3Sink[s] = "ready" /\ h3Cap[s] \in {"small", "enough"}
    /\ h3Cap' = [h3Cap EXCEPT ![s] = "none"]
    /\ UNCHANGED <<h3Table, h3Chans, h3Regs, h3Ends, h3Quiche>>

\* A datagram that does not fit is dropped.  This write does not look at the
\* deferred response; quiche refuses a body before the headers.
H3WriteDatagram(s) ==
    /\ h3Sink[s] \in {"ready", "deferred"} /\ h3Cap[s] = "enough"
    /\ IF h3Sink[s] = "ready"
       THEN h3Cap' = [h3Cap EXCEPT ![s] = "none"] /\ UNCHANGED h3Sink
       ELSE h3Sink' = [h3Sink EXCEPT ![s] = "ended"] /\ UNCHANGED h3Cap
    /\ UNCHANGED <<h3Table, h3Chans, h3Regs, h3Source, h3Eof, h3Quiche>>

\* eof() ends the client's direction at once; the table is told by the drop,
\* as it is when a response is still to be sent.
H3SinkEof(s) ==
    /\ h3Sink[s] = "ready"
    /\ h3Sink' = [h3Sink EXCEPT ![s] = "ended"]
    /\ UNCHANGED <<h3Table, h3Chans, h3Regs, h3Source, h3Eof, h3Quiche, h3Cap>>

\* Mutant: dropping the sink tells nobody.
MutantH3SinkDrop(s) ==
    /\ h3Sink[s] \notin {"none", "dropped"}
    /\ h3Sink' = [h3Sink EXCEPT ![s] = "dropped"]
    /\ UNCHANGED <<h3Table, h3Chans, h3Regs, h3Source, h3Eof, h3Quiche, h3Cap>>

H3SinkDrop(s) ==
    /\ h3Sink[s] \notin {"none", "dropped"}
    /\ h3Sink' = [h3Sink EXCEPT ![s] = "dropped"]
    /\ H3Tx(H3Msg("write", s))
    /\ UNCHANGED <<h3Table, h3Readable, h3Writable, h3Regs, h3Source, h3Eof, h3Quiche, h3Cap>>

H3Next ==
    \/ H3Listen \/ H3End
    \/ \E s \in H3Stream :
          \/ H3ClientData(s) \/ H3ClientFin(s) \/ H3ClientWindow(s)
          \/ H3Read(s) \/ H3ReadWake(s) \/ H3SourceDrop(s)
          \/ H3SendResponse(s) \/ H3Flush(s) \/ H3WaitCapacity(s) \/ H3WriteWake(s) \/ H3Restart(s)
          \/ H3Write(s) \/ H3WriteDatagram(s) \/ H3SinkEof(s) \/ H3SinkDrop(s)
H3Spec == H3Init /\ [][H3Next]_h3Vars

-----------------------------------------------------------------------------
(* Properties.                                                             *)

\* No wait is forgotten.  While a sink waits for capacity its request is
\* queued, or registered, or being answered, or its wake-up is in the channel:
\* events that find the channel full are dropped, and capacity may vanish
\* between the socket's event and the notification.  The exception is a stream
\* the client has stopped, whose wait ends with the pipe's timer.  While a
\* source waits although data is there, the Data event is still to be
\* reported, or its message is in the channel.
H3WaiterIsKnown ==
    \A s \in h3Open :
        H3Listening =>
            /\ h3Sink[s] \in {"flushing", "waiting"} /\ h3Cap[s] # "stopped" =>
                  \/ h3Writable[s] = 1
                  \/ s \in h3Waiting \union h3Hand
                  \/ \E i \in DOMAIN h3Queue : h3Queue[i] = H3Msg("waiting", s)
            /\ h3Source[s] = "waiting" /\ h3Data[s] =>
                  h3Readable[s] = 1 \/ "data" \in h3Report[s]

\* No entry of the table is leaked: an end that was dropped has its direction
\* shut down, or the message that shuts it down is queued, whatever order the
\* ends' messages, the deferred response and the client's end come in.  With
\* both directions shut down the entry is removed.
H3StreamIsFreed ==
    \A s \in h3Open :
        LET queued == {h3Queue[i].kind : i \in {j \in DOMAIN h3Queue : h3Queue[j].stream = s}} IN
        H3Listening =>
            /\ h3Shut[s] # {"read", "write"}
            /\ h3Source[s] = "dropped" => "read" \in h3Shut[s] \/ queued \intersect {"read", "both"} # {}
            /\ h3Sink[s] = "dropped" => "write" \in h3Shut[s] \/ queued \intersect {"write", "both"} # {}
=============================================================================
