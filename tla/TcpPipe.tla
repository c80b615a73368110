------------------------------ MODULE TcpPipe ------------------------------
(***************************************************************************)
(* The duplex TCP pipe of lib/src/pipe.rs with the stream ends of          *)
(* lib/src/tcp_forwarder.rs.                                               *)
(*                                                                         *)
(* A DuplexPipe runs one SimplexPipe per direction inside one task.  The   *)
(* two exchange() futures interleave at their await points only: the flush *)
(* at the top of the loop, the read or the wait for writability, and the   *)
(* flush after the end of the stream.  Between two awaits an iteration is  *)
(* atomic.  When one direction's timer fires both futures are dropped      *)
(* wherever they are suspended; only pending_chunk and the state of the    *)
(* streams survive, and both directions start over.                        *)
(*                                                                         *)
(* The i-th byte of a stream is the number i.  Time is counted in ticks    *)
(* and "later than the timeout" is age > Timeout.                          *)
(***************************************************************************)
EXTENDS Naturals, Sequences

CONSTANTS
    MaxBytes,   \* bound: bytes a peer sends, per direction
    Room,       \* bound: free space of a receiving stream
    Timeout     \* the idle timeout, in ticks

Direction == {"Outgoing", "Incoming"}

Other(d) == CHOOSE e \in Direction : e # d

ASSUME MaxBytesAssumption == MaxBytes \in [Direction -> Nat]
ASSUME RoomAssumption == Room \in Nat \ {0}
ASSUME TimeoutAssumption == Timeout \in Nat \ {0}

IdleCap == 3 * (Timeout + 1)    \* bound: where the idle history saturates

VARIABLES
    sent, fin,      \* what the sending peer has written, and whether it ended
    unread,         \* bytes of the source not read yet
    pending,        \* pending_chunk: read but refused by the sink
    delivered,      \* bytes the sink accepted
    room,           \* space left in the sink
    eofPending,     \* StreamTx.eof_pending
    shut,           \* the sink was shut down for writing
    consumed,       \* total passed to Source::consume and to update_metrics
    stage,          \* where the exchange() future is suspended
    age,            \* ticks since last_activity (and since the timer was armed)
    outcome,        \* "open", or how DuplexPipe::exchange returned
    idle            \* history: ticks since a byte was last read or sent, in any direction

streams == <<sent, fin, unread, room>>
vars == <<sent, fin, unread, pending, delivered, room, eofPending, shut,
          consumed, stage, age, outcome, idle>>

Stage == {"flush", "transfer", "eofFlush", "finished"}

Init ==
    /\ sent = [d \in Direction |-> <<>>]
    /\ fin = [d \in Direction |-> FALSE]
    /\ unread = [d \in Direction |-> <<>>]
    /\ pending = [d \in Direction |-> <<>>]
    /\ delivered = [d \in Direction |-> <<>>]
    /\ room = [d \in Direction |-> Room]
    /\ eofPending = [d \in Direction |-> FALSE]
    /\ shut = [d \in Direction |-> FALSE]
    /\ consumed = [d \in Direction |-> 0]
    /\ stage = [d \in Direction |-> "flush"]
    /\ age = [d \in Direction |-> 0]
    /\ outcome = "open"
    /\ idle = 0

-----------------------------------------------------------------------------
(* The peers.                                                              *)

PeerSends(d) ==
    /\ outcome = "open" /\ ~fin[d]
    /\ Len(sent[d]) < MaxBytes[d]
    /\ sent' = [sent EXCEPT ![d] = Append(@, Len(@) + 1)]
    /\ unread' = [unread EXCEPT ![d] = Append(@, Len(sent[d]) + 1)]
    /\ UNCHANGED <<fin, pending, delivered, room, eofPending, shut, consumed,
                   stage, age, outcome, idle>>

PeerEnds(d) ==
    /\ outcome = "open" /\ ~fin[d]
    /\ fin' = [fin EXCEPT ![d] = TRUE]
    /\ UNCHANGED <<sent, unread, pending, delivered, room, eofPending, shut,
                   consumed, stage, age, outcome, idle>>

\* The receiving peer takes what the sink holds.
PeerDrains(d) ==
    /\ outcome = "open" /\ room[d] < Room
    /\ room' = [room EXCEPT ![d] = Room]
    /\ UNCHANGED <<sent, fin, unread, pending, delivered, eofPending, shut,
                   consumed, stage, age, outcome, idle>>

-----------------------------------------------------------------------------
(* SimplexPipe::exchange                                                   *)

\* StreamTx::flush: pushes what is buffered, and shuts the stream down when
\* the end was announced.
FlushSink(d) == shut' = [shut EXCEPT ![d] = eofPending[d] \/ @]

\* The flush at the top of the loop completes.
Flush(d) ==
    /\ outcome = "open" /\ stage[d] = "flush"
    /\ FlushSink(d)
    /\ stage' = [stage EXCEPT ![d] = "transfer"]
    /\ UNCHANGED <<streams, pending, delivered, eofPending, consumed, age,
                   outcome, idle>>

\* What StreamTx::write accepts of a chunk: it writes until the stream blocks.
Accepted(d, chunk) == IF Len(chunk) <= room[d] THEN Len(chunk) ELSE room[d]

\* Mutant: the part that was sent stays in the pending chunk.
MutantRest(d, chunk) == IF Accepted(d, chunk) = Len(chunk) THEN <<>> ELSE chunk

\* What is left of the chunk, to be kept as pending_chunk.
Rest(d, chunk) == SubSeq(chunk, Accepted(d, chunk) + 1, Len(chunk))

\* Mutant: the window slides by what was read instead of what was sent.
MutantConsume(d, chunk) ==
    LET n == Accepted(d, chunk) IN
    /\ delivered' = [delivered EXCEPT ![d] = @ \o SubSeq(chunk, 1, n)]
    /\ room' = [room EXCEPT ![d] = @ - n]
    /\ consumed' = [consumed EXCEPT ![d] = @ + Len(chunk)]
    /\ pending' = [pending EXCEPT ![d] = Rest(d, chunk)]
    /\ stage' = [stage EXCEPT ![d] = "flush"]
    /\ age' = [age EXCEPT ![d] = 0]
    /\ idle' = 0

\* The rest of the iteration that got a chunk: write, account for and consume
\* what was sent, keep the rest, go round the loop.
WriteChunk(d, chunk) ==
    LET n == Accepted(d, chunk) IN
    /\ delivered' = [delivered EXCEPT ![d] = @ \o SubSeq(chunk, 1, n)]
    /\ room' = [room EXCEPT ![d] = @ - n]
    /\ consumed' = [consumed EXCEPT ![d] = @ + n]
    /\ pending' = [pending EXCEPT ![d] = Rest(d, chunk)]
    /\ stage' = [stage EXCEPT ![d] = "flush"]
    /\ age' = [age EXCEPT ![d] = 0]
    /\ idle' = 0

\* Source::read yields any non-empty prefix of what has arrived.
ReadChunk(d) ==
    /\ outcome = "open" /\ stage[d] = "transfer"
    /\ pending[d] = <<>> /\ ~eofPending[d]
    /\ \E n \in 1 .. Len(unread[d]) :
          /\ WriteChunk(d, SubSeq(unread[d], 1, n))
          /\ unread' = [unread EXCEPT ![d] = SubSeq(@, n + 1, Len(@))]
    /\ UNCHANGED <<sent, fin, eofPending, shut, outcome>>

\* Mutant: the pending chunk waits for more to arrive.
MutantRetryPending(d) ==
    /\ outcome = "open" /\ stage[d] = "transfer"
    /\ pending[d] # <<>> /\ ~eofPending[d]
    /\ room[d] > 0 /\ unread[d] # <<>>
    /\ WriteChunk(d, pending[d])
    /\ UNCHANGED <<sent, fin, unread, eofPending, shut, outcome>>

\* wait_writable returned: the pending chunk is taken and written.
RetryPending(d) ==
    /\ outcome = "open" /\ stage[d] = "transfer"
    /\ pending[d] # <<>> /\ ~eofPending[d]
    /\ room[d] > 0
    /\ WriteChunk(d, pending[d])
    /\ UNCHANGED <<sent, fin, unread, eofPending, shut, outcome>>

\* Source::read yields Eof: StreamTx::eof only marks the end as pending.
ReadEof(d) ==
    /\ outcome = "open" /\ stage[d] = "transfer"
    /\ pending[d] = <<>> /\ unread[d] = <<>> /\ fin[d]
    /\ eofPending' = [eofPending EXCEPT ![d] = TRUE]
    /\ stage' = [stage EXCEPT ![d] = "eofFlush"]
    /\ UNCHANGED <<streams, pending, delivered, shut, consumed, age, outcome,
                   idle>>

\* The flush after the end of the stream, which no timer covers.  The duplex
\* pipe is finished once the second direction is.
FinishDirection(d) ==
    /\ outcome = "open" /\ stage[d] = "eofFlush"
    /\ FlushSink(d)
    /\ stage' = [stage EXCEPT ![d] = "finished"]
    /\ outcome' = IF stage[Other(d)] = "finished" THEN "finished" ELSE "open"
    /\ UNCHANGED <<streams, pending, delivered, eofPending, consumed, age, idle>>

\* A read, write, eof or flush of a stream fails: exchange() returns the error
\* and both directions are dropped.
StreamFails(d) ==
    /\ outcome = "open" /\ stage[d] # "finished"
    /\ outcome' = "error"
    /\ UNCHANGED <<streams, pending, delivered, eofPending, shut, consumed,
                   stage, age, idle>>

-----------------------------------------------------------------------------
(* Time and DuplexPipe::exchange                                           *)

\* The awaits the timer of a direction covers.
Armed(d) == stage[d] \in {"flush", "transfer"}
Expired(d) == age[d] > Timeout

\* Timers that are due are served before time goes on.
Tick ==
    /\ outcome = "open"
    /\ \A d \in Direction : Armed(d) => ~Expired(d)
    /\ age' = [d \in Direction |-> IF Expired(d) THEN age[d] ELSE age[d] + 1]
    /\ idle' = IF idle < IdleCap THEN idle + 1 ELSE idle
    /\ UNCHANGED <<streams, pending, delivered, eofPending, shut, consumed,
                   stage, outcome>>

\* Mutants: the pipe gives up only when half closed; it always gives up.
MutantNeverGivesUp(d) == stage[Other(d)] = "finished"
MutantGivesUp(d) == TRUE

\* The pipe gives up: the other direction is finished already, or neither
\* direction had an iteration later than the timeout.
GivesUp(d) ==
    stage[Other(d)] = "finished" \/ \A e \in Direction : Expired(e)

\* exchange() of direction d reports TimedOut.  Unless the pipe gives up, both
\* futures are dropped and created anew.
TimerFires(d) ==
    /\ outcome = "open" /\ Armed(d) /\ Expired(d)
    /\ IF GivesUp(d)
       THEN outcome' = "timedOut" /\ UNCHANGED <<stage, age>>
       ELSE /\ stage' = [e \in Direction |-> "flush"]
            /\ age' = [e \in Direction |-> 0]
            /\ UNCHANGED outcome
    /\ UNCHANGED <<streams, pending, delivered, eofPending, shut, consumed, idle>>

Closed ==
    /\ outcome # "open"
    /\ UNCHANGED vars

PipeStep(d) ==
    Flush(d) \/ ReadChunk(d) \/ RetryPending(d) \/ ReadEof(d)
        \/ FinishDirection(d) \/ TimerFires(d)

Next ==
    \/ \E d \in Direction :
          PeerSends(d) \/ PeerEnds(d) \/ PeerDrains(d) \/ PipeStep(d)
              \/ StreamFails(d)
    \/ Tick
    \/ Closed

Spec == Init /\ [][Next]_vars

\* The runtime polls a future that can make progress.
FairSpec == Spec /\ \A d \in Direction : WF_vars(PipeStep(d))

-----------------------------------------------------------------------------
(* Properties                                                              *)

TypeOK ==
    /\ sent \in [Direction -> Seq(Nat)]
    /\ fin \in [Direction -> BOOLEAN]
    /\ unread \in [Direction -> Seq(Nat)]
    /\ pending \in [Direction -> Seq(Nat)]
    /\ delivered \in [Direction -> Seq(Nat)]
    /\ room \in [Direction -> 0 .. Room]
    /\ eofPending \in [Direction -> BOOLEAN]
    /\ shut \in [Direction -> BOOLEAN]
    /\ consumed \in [Direction -> Nat]
    /\ stage \in [Direction -> Stage]
    /\ age \in [Direction -> Nat]
    /\ outcome \in {"open", "finished", "timedOut", "error"}
    /\ idle \in Nat

\* No byte is lost, duplicated or reordered, whatever await an exchange() is
\* cancelled at (pipe.rs: pending_chunk is taken only after wait_writable, and
\* survives the restart of exchange_once).
BytesConserved ==
    \A d \in Direction : sent[d] = (delivered[d] \o pending[d]) \o unread[d]

\* The receive window slides, and the traffic counters grow, by exactly the
\* bytes the sink accepted (pipe.rs 189-193).
WindowFollowsDelivery ==
    \A d \in Direction : consumed[d] = Len(delivered[d])

\* The end of the stream reaches the receiving peer only behind its last byte,
\* and nothing is left to write once it was announced (tcp_forwarder.rs fails
\* a write with "Already shut down").
EndBehindLastByte ==
    \A d \in Direction :
        eofPending[d] => fin[d] /\ delivered[d] = sent[d]

\* A pipe that reports success has forwarded both streams to their ends.
FinishedMeansComplete ==
    outcome = "finished" =>
        \A d \in Direction : shut[d] /\ fin[d] /\ delivered[d] = sent[d]

\* While some timer is armed, restarting both directions postpones the close of
\* an idle pipe at most once: it is closed within two timeouts of the last byte.
IdleBounded ==
    outcome = "open" /\ (\E d \in Direction : Armed(d))
        => idle <= 2 * (Timeout + 1)

\* While neither direction has ended, the idle timeout closes the pipe only
\* when no byte moved in either direction for longer than the timeout
\* (pipe.rs 241-249).
OnlyIdlePipesTimeOut ==
    [][outcome' = "timedOut" /\ (\A d \in Direction : stage[d] # "finished")
        => idle > Timeout]_vars

\* The same for every pipe, as the configuration file describes the timeout.
TimeoutMeansIdle ==
    [][outcome' = "timedOut" => idle > Timeout]_vars

\* When the receiving peers read what they are sent, every byte and every end
\* of stream gets through unless the pipe fails or times out.  Nothing forces
\* time to pass, so this does not hold merely because the pipe timed out.
Delivery ==
    (\A d \in Direction : WF_vars(PeerDrains(d))) =>
        \A d \in Direction :
            /\ \A n \in 1 .. MaxBytes[d] :
                  (outcome = "open" /\ Len(sent[d]) >= n)
                      ~> (outcome # "open" \/ Len(delivered[d]) >= n)
            /\ (outcome = "open" /\ fin[d]) ~> (outcome # "open" \/ shut[d])

\* When time passes, no pipe stays open forever once its peers stop talking.
IdlePipeCloses == WF_vars(Tick) => <>(outcome # "open")

\* Both kinds of progress of a pipe.
Progress == Delivery /\ IdlePipeCloses

Relay == INSTANCE StreamRelay WITH open <- outcome = "open"

\* The pipe implements the abstract relay of two byte streams.
ImplementsRelay == Relay!Spec
=============================================================================
