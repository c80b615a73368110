------------------------------ MODULE QuicMux -------------------------------
(***************************************************************************)
(* lib/src/quic_multiplexer.rs: QuicMultiplexer owns the UDP socket, the   *)
(* table of QUIC connections and their deadlines; each established         *)
(* connection is served by a QuicSocket in a task of its own.  They talk   *)
(* by a bounded queue (Close, RefreshDeadline) and, back, by a channel of  *)
(* one message (PollH3, Close) per connection.                             *)
(*                                                                         *)
(* The quiche connection is external: its state, its timer and the HTTP/3  *)
(* events it has not reported change as its interface allows.              *)
(***************************************************************************)
EXTENDS Integers, Sequences

CONSTANTS
    QConn,          \* the connection IDs
    QActive,        \* bound: the connections whose handshake may complete
    QueueCap,       \* message_queue_capacity
    MaxTime,        \* bound: the clock stops here
    MaxEvents       \* bound: unreported HTTP/3 events of a connection

ASSUME QuicAssumption == QActive \subseteq QConn /\ QueueCap \in Nat \ {0} /\ MaxTime \in Nat /\ MaxEvents \in Nat \ {0}

Never == 0          \* no deadline, no timer
QTime == 1..(MaxTime + 1)

VARIABLES
    qNow,           \* the clock
    qTable,         \* connections: "none", "handshake" or "established"
    qDeadlines,     \* deadlines
    qClosest,       \* closest_deadline
    qAt,            \* where listen() stands
    qBatch,         \* `pending` of read_udp_socket: connections that had a packet
    qPolls,         \* those of them with a PollH3 message
    qFresh,         \* the batch found a new socket
    qHeld,          \* the message the select received, as a sequence
    qQueue,         \* mux_tx -> socket_rx
    qChannel,       \* socket_tx -> conn_rx: "empty", "poll" or "close"
    qSocket,        \* QuicSocket: "none", "poll", "wait" or "ended"
    qSkipped,       \* its last poll returned a PriorityUpdate
    qState,         \* quiche: "absent", "handshaking", "established", "closing", "closed"
    qTimer,         \* quiche: when its timer is due
    qEvents         \* quiche: HTTP/3 events not reported yet

quicheVars == <<qState, qTimer, qEvents>>
qSocketVars == <<qSocket, qSkipped>>
qBatchVars == <<qBatch, qPolls, qFresh, qHeld>>
qTimes == <<qDeadlines, qClosest>>
qVars == <<qNow, qTable, qTimes, qAt, qBatchVars, qQueue, qChannel, qSocketVars, quicheVars>>

\* The type invariant.
QTypeOK ==
    /\ qTable \in [QConn -> {"none", "handshake", "established"}]
    /\ qDeadlines \in [QConn -> QTime \union {Never}] /\ qTimer \in [QConn -> QTime \union {Never}]
    /\ qClosest \in QTime \union {Never}
    /\ Len(qHeld) <= 1 /\ Len(qQueue) <= QueueCap
    /\ qChannel \in [QConn -> {"empty", "poll", "close"}]
    /\ \A c \in QConn : qState[c] \in {"absent", "closed"} <=> qTimer[c] = Never

QInit ==
    /\ qNow = 1 /\ qAt = "select"
    /\ qTable = [c \in QConn |-> "none"] /\ qDeadlines = [c \in QConn |-> Never] /\ qClosest = Never
    /\ qBatch = {} /\ qPolls = {} /\ qFresh = FALSE /\ qHeld = <<>>
    /\ qQueue = <<>> /\ qChannel = [c \in QConn |-> "empty"]
    /\ qSocket = [c \in QConn |-> "none"] /\ qSkipped = [c \in QConn |-> FALSE]
    /\ qState = [c \in QConn |-> "absent"] /\ qTimer = [c \in QConn |-> Never]
    /\ qEvents = [c \in QConn |-> 0]

QTick ==
    /\ qNow < MaxTime /\ qNow' = qNow + 1
    /\ UNCHANGED <<qTable, qTimes, qAt, qBatchVars, qQueue, qChannel, qSocketVars, quicheVars>>

-----------------------------------------------------------------------------
(* Deadlines.                                                              *)

QEarliest(deadlines) ==
    LET set == {deadlines[c] : c \in QConn} \ {Never} IN
    IF set = {} THEN Never ELSE CHOOSE t \in set : \A u \in set : t <= u

\* timeout() is a duration from now, zero when the timer is overdue.
QTimeout(timer) == IF timer # Never /\ timer < qNow THEN qNow ELSE timer

\* quiche's state and timer after a step of c that leaves it in `state`.
QBecomes(c, state, timer) ==
    /\ timer \in IF state = "closed" THEN {Never} ELSE {t \in QTime : t > qNow}
    /\ qState' = [qState EXCEPT ![c] = state]
    /\ qTimer' = [qTimer EXCEPT ![c] = timer]

\* What on_timeout makes of a connection.
QExpires(state) == IF state \in {"closing", "closed"} THEN {"closed"} ELSE {state, "closed"}

\* process_timeouts: every deadline that is due is taken out, on_timeout is
\* called on its connection if that is still in the table, and the new timer
\* is its next deadline.
QProcessTimeouts ==
    LET due == {c \in QConn : qDeadlines[c] # Never /\ qDeadlines[c] <= qNow}
        known == {c \in due : qTable[c] # "none"}
    IN
    /\ \E state \in [known -> {"handshaking", "established", "closing", "closed"}],
          timer \in [known -> QTime \union {Never}] :
          /\ \A c \in known :
                /\ state[c] \in QExpires(qState[c])
                /\ timer[c] \in IF state[c] = "closed" THEN {Never} ELSE {t \in QTime : t > qNow}
          /\ qState' = [c \in QConn |-> IF c \in known THEN state[c] ELSE qState[c]]
          /\ qTimer' = [c \in QConn |-> IF c \in known THEN timer[c] ELSE qTimer[c]]
          /\ qDeadlines' = [c \in QConn |-> IF c \in known THEN timer[c]
                                            ELSE IF c \in due THEN Never ELSE qDeadlines[c]]
    /\ qClosest' = QEarliest(qDeadlines')
    /\ UNCHANGED qEvents

\* Mutant: the deadline of a refresh replaces the closest one.
MutantQOnSocketMessage(m) ==
    /\ qTable' = IF m.kind = "close" THEN [qTable EXCEPT ![m.conn] = "none"] ELSE qTable
    /\ IF m.kind = "close" \/ qTable[m.conn] = "none"
       THEN UNCHANGED qTimes
       ELSE /\ qClosest' = QTimeout(qTimer[m.conn])
            /\ qDeadlines' = [qDeadlines EXCEPT ![m.conn] = QTimeout(qTimer[m.conn])]

\* on_socket_message.  Close leaves the deadline behind, which expires without
\* a connection; a refresh of no timer where there is no deadline does nothing.
QOnSocketMessage(m) ==
    /\ qTable' = IF m.kind = "close" THEN [qTable EXCEPT ![m.conn] = "none"] ELSE qTable
    /\ LET d == QTimeout(qTimer[m.conn]) IN
       IF m.kind = "close" \/ qTable[m.conn] = "none" \/ (d = Never /\ qDeadlines[m.conn] = Never)
       THEN UNCHANGED qTimes
       ELSE /\ qDeadlines' = [qDeadlines EXCEPT ![m.conn] = d]
            /\ qClosest' = QEarliest(qDeadlines')

-----------------------------------------------------------------------------
(* QuicMultiplexer::listen.                                                *)

\* The select, and process_timeouts behind it.
QSelectTimer ==
    /\ qAt = "select" /\ qClosest # Never /\ qClosest <= qNow
    /\ QProcessTimeouts
    /\ qAt' = "sweep"
    /\ UNCHANGED <<qNow, qTable, qBatchVars, qQueue, qChannel, qSocketVars>>

\* The received message is handled next, by QDrain.
QSelectMessage ==
    /\ qAt = "select" /\ qQueue # <<>>
    /\ QProcessTimeouts
    /\ qHeld' = <<Head(qQueue)>> /\ qQueue' = Tail(qQueue)
    /\ qAt' = "sweep"
    /\ UNCHANGED <<qNow, qTable, qBatch, qPolls, qFresh, qChannel, qSocketVars>>

QSelectPacket ==
    /\ qAt = "select"
    /\ QProcessTimeouts
    /\ qAt' = "read"
    /\ UNCHANGED <<qNow, qTable, qBatchVars, qQueue, qChannel, qSocketVars>>

\* finalize_established_connection of c, or its failure to open HTTP/3: the
\* connection is then in no table and closing.
QFinalize(c) ==
    /\ c \in QActive
    /\ \/ /\ qTable' = [qTable EXCEPT ![c] = "established"]
          /\ qSocket' = [qSocket EXCEPT ![c] = "poll"] /\ qFresh' = TRUE
          /\ \E t \in QTime : QBecomes(c, "established", t)
       \/ /\ qTable' = [qTable EXCEPT ![c] = "none"]
          /\ \E t \in QTime : QBecomes(c, "closing", t)
          /\ UNCHANGED <<qSocket, qFresh>>

\* A packet of no connection of the table.  Only an Initial packet with a
\* valid token opens one; any other is answered (version negotiation, retry)
\* or dropped without a trace here.
QUnknownPacket(c) ==
    /\ qTable[c] = "none" /\ qState[c] = "absent"
    /\ qBatch' = qBatch \union {c}
    /\ UNCHANGED <<qTimes, qPolls, qEvents>>
    /\ \/ QFinalize(c)
       \/ /\ qTable' = [qTable EXCEPT ![c] = "handshake"]
          /\ \E t \in QTime : QBecomes(c, "handshaking", t)
          /\ UNCHANGED <<qSocket, qFresh>>

\* A packet of a connection in its handshake.
QHandshakePacket(c) ==
    /\ qTable[c] = "handshake"
    /\ qBatch' = qBatch \union {c}
    /\ UNCHANGED <<qPolls, qEvents>>
    /\ \/ /\ qState[c] = "handshaking"
          /\ qDeadlines' = [qDeadlines EXCEPT ![c] = Never] /\ UNCHANGED qClosest
          /\ QFinalize(c)
       \/ /\ \E t \in QTime \union {Never}, s \in {qState[c], "closing"} :
                /\ qState[c] = "closed" => s = "closed"
                /\ QBecomes(c, s, t)
          /\ UNCHANGED <<qTable, qTimes, qSocket, qFresh>>

\* A packet of an established connection: received, with a PollH3 message to
\* come, or refused, which closes the connection.
QEstablishedPacket(c) ==
    /\ qTable[c] = "established"
    /\ qBatch' = qBatch \union {c}
    /\ \/ /\ qPolls' = qPolls \union {c}
          /\ qEvents' = [qEvents EXCEPT ![c] = IF @ < MaxEvents THEN @ + 1 ELSE @]
          /\ IF qState[c] = "closed" THEN UNCHANGED <<qState, qTimer>>
             ELSE \E t \in QTime, s \in {qState[c], "closing"} : QBecomes(c, s, t)
       \/ /\ qState[c] # "closed"
          /\ \E t \in QTime : QBecomes(c, "closing", t)
          /\ UNCHANGED <<qPolls, qEvents>>
    /\ UNCHANGED <<qTable, qTimes, qSocket, qFresh>>

\* read_udp_socket: packets, until there is none or one opened a socket.
QReadPacket ==
    /\ qAt = "read" /\ ~qFresh
    /\ \E c \in QConn \ qBatch : QUnknownPacket(c) \/ QHandshakePacket(c) \/ QEstablishedPacket(c)
    /\ UNCHANGED <<qNow, qAt, qHeld, qQueue, qChannel, qSkipped>>

\* Mutant: the deadlines are updated and the messages forgotten.
MutantQPostPolls ==
    /\ qAt = "read"
    /\ qBatch' = {} /\ qPolls' = {} /\ qFresh' = FALSE
    /\ qAt' = IF qFresh THEN "select" ELSE "sweep"
    /\ qDeadlines' = [c \in QConn |-> IF c \in qBatch THEN QTimeout(qTimer[c]) ELSE qDeadlines[c]]
    /\ qClosest' = QEarliest(qDeadlines')
    /\ UNCHANGED <<qNow, qTable, qHeld, qQueue, qChannel, qSocketVars, quicheVars>>

\* The rest of read_udp_socket: for each connection of the batch the message
\* is sent (a full channel has one already, a closed one closes the
\* connection), the deadline is updated, and then the connection is flushed,
\* which may set its timer anew.  With a new socket listen() returns it, and
\* is entered anew at the select.
QPost ==
    /\ qAt = "read"
    /\ qBatch' = {} /\ qPolls' = {} /\ qFresh' = FALSE
    /\ qAt' = IF qFresh THEN "select" ELSE "sweep"
    /\ LET orphans == {c \in qPolls : qSocket[c] = "ended" /\ qState[c] # "closed"} IN
       /\ qChannel' = [c \in QConn |->
                          IF c \in qPolls /\ qSocket[c] # "ended" /\ qChannel[c] = "empty"
                          THEN "poll" ELSE qChannel[c]]
       /\ qDeadlines' = [c \in QConn |-> IF c \in qBatch /\ qTimer[c] # Never
                                         THEN QTimeout(qTimer[c]) ELSE qDeadlines[c]]
       /\ qClosest' = IF \E c \in qBatch : qTimer[c] # Never THEN QEarliest(qDeadlines')
                      ELSE qClosest
       /\ qState' = [c \in QConn |-> IF c \in orphans THEN "closing" ELSE qState[c]]
    /\ \E sent \in SUBSET {c \in qBatch : qTimer[c] # Never}, t \in QTime :
          /\ t > qNow
          /\ qTimer' = [c \in QConn |-> IF c \in sent THEN t ELSE qTimer[c]]
    /\ UNCHANGED <<qNow, qTable, qHeld, qQueue, qSocketVars, qEvents>>

\* on_socket_message on the message of the select, then an iteration of
\* process_pending_socket_messages for each in the queue.
QDrain ==
    /\ qAt = "sweep"
    /\ \/ /\ qHeld # <<>> /\ qHeld' = <<>>
          /\ QOnSocketMessage(Head(qHeld))
          /\ UNCHANGED qQueue
       \/ /\ qHeld = <<>> /\ qQueue # <<>> /\ qQueue' = Tail(qQueue)
          /\ QOnSocketMessage(Head(qQueue))
          /\ UNCHANGED qHeld
    /\ UNCHANGED <<qNow, qAt, qBatch, qPolls, qFresh, qChannel, qSocketVars, quicheVars>>

\* The queue is found empty: remove_closed_connections.
QSweep ==
    LET closed == {c \in QConn : qTable[c] # "none" /\ qState[c] = "closed"} IN
    /\ qAt = "sweep" /\ qHeld = <<>> /\ qQueue = <<>>
    /\ qAt' = "select"
    /\ qTable' = [c \in QConn |-> IF c \in closed THEN "none" ELSE qTable[c]]
    /\ qDeadlines' = [c \in QConn |-> IF c \in closed THEN Never ELSE qDeadlines[c]]
    /\ qChannel' = [c \in QConn |-> IF c \in closed /\ qTable[c] = "established"
                                       /\ qChannel[c] = "empty" /\ qSocket[c] # "ended"
                                    THEN "close" ELSE qChannel[c]]
    /\ UNCHANGED <<qNow, qClosest, qBatchVars, qQueue, qSocketVars, quicheVars>>

-----------------------------------------------------------------------------
(* QuicSocket.                                                             *)

\* try_send on the bounded queue.
QSend(m) == qQueue' = IF Len(qQueue) < QueueCap THEN Append(qQueue, m) ELSE qQueue

\* The end of an iteration of QuicSocket::listen: a closed connection is
\* reported to the multiplexer and ends the listening.
QsReturn(c, next) ==
    IF qState[c] = "closed"
    THEN QSend([kind |-> "close", conn |-> c]) /\ qSocket' = [qSocket EXCEPT ![c] = "ended"]
    ELSE UNCHANGED qQueue /\ qSocket' = [qSocket EXCEPT ![c] = next]

\* process_pending_h3_events reports one event.  A PriorityUpdate is taken
\* for "no event": the socket waits, whatever else there is to report.
QsPoll(c) ==
    /\ qSocket[c] = "poll"
    /\ \/ /\ qEvents[c] > 0
          /\ qEvents' = [qEvents EXCEPT ![c] = @ - 1]
          /\ \/ QsReturn(c, "poll") /\ UNCHANGED qSkipped
             \/ /\ qSocket' = [qSocket EXCEPT ![c] = "wait"]
                /\ qSkipped' = [qSkipped EXCEPT ![c] = TRUE]
                /\ UNCHANGED qQueue
       \/ /\ qEvents[c] = 0
          /\ qSocket' = [qSocket EXCEPT ![c] = "wait"]
          /\ UNCHANGED <<qQueue, qSkipped, qEvents>>
    /\ UNCHANGED <<qNow, qTable, qTimes, qAt, qBatchVars, qChannel, qState, qTimer>>

\* The wait for a message of the multiplexer; a removed connection has dropped
\* the sender, and the channel's end ends the listening.
QsReceive(c) ==
    /\ qSocket[c] = "wait"
    /\ qSkipped' = [qSkipped EXCEPT ![c] = FALSE]
    /\ \/ /\ qChannel[c] = "poll"
          /\ qSocket' = [qSocket EXCEPT ![c] = "poll"] /\ UNCHANGED qQueue
       \/ qChannel[c] = "close" /\ QsReturn(c, "poll")
       \/ /\ qChannel[c] = "empty" /\ qTable[c] = "none"
          /\ qSocket' = [qSocket EXCEPT ![c] = "ended"] /\ UNCHANGED qQueue
    /\ qChannel' = [qChannel EXCEPT ![c] = "empty"]
    /\ UNCHANGED <<qNow, qTable, qTimes, qAt, qBatchVars, quicheVars>>

\* A read, write, response or shutdown of one of the session's streams: the
\* connection is flushed and the multiplexer told of its timer.
QsUse(c) ==
    /\ qSocket[c] \in {"poll", "wait"} /\ qState[c] # "closed"
    /\ \E t \in QTime, s \in {qState[c], "closing"} : QBecomes(c, s, t)
    /\ QSend([kind |-> "refresh", conn |-> c])
    /\ UNCHANGED <<qNow, qTable, qTimes, qAt, qBatchVars, qChannel, qSocketVars, qEvents>>

\* The session ends for a reason of its own and drops the socket.
QsDrop(c) ==
    /\ qSocket[c] \in {"poll", "wait"}
    /\ qSocket' = [qSocket EXCEPT ![c] = "ended"]
    /\ UNCHANGED <<qNow, qTable, qTimes, qAt, qBatchVars, qQueue, qChannel, qSkipped, quicheVars>>

QListen == QSelectTimer \/ QSelectMessage \/ QSelectPacket \/ QReadPacket \/ QPost
           \/ QDrain \/ QSweep
QNext == QTick \/ QListen
         \/ \E c \in QConn : QsPoll(c) \/ QsReceive(c) \/ QsUse(c) \/ QsDrop(c)
QSpec == QInit /\ [][QNext]_qVars

-----------------------------------------------------------------------------
(* Properties.                                                             *)

\* No timer is missed.  The sleep of the select is never too long:
\* closest_deadline is no later than any deadline of the table, through every
\* insertion, removal and update that recomputes it and the ones that do not.
\* And whenever the multiplexer sleeps, each connection of the table that
\* quiche has not closed has a deadline: none is kept for ever.
QDeadlinesAreKept ==
    \A c \in QConn :
        /\ qDeadlines[c] # Never => qClosest # Never /\ qClosest <= qDeadlines[c]
        /\ qAt = "select" /\ qTable[c] # "none" /\ qState[c] # "closed" => qDeadlines[c] # Never

\* A socket does not sleep on events it has not been told of, although a
\* message that finds the channel full is dropped: either a message waits in
\* the channel or the multiplexer is about to send one.  The exception is a
\* socket whose last poll returned a PriorityUpdate.
QNoLostWakeup ==
    \A c \in QConn :
        qSocket[c] = "wait" /\ qEvents[c] > 0 /\ qTable[c] = "established"
        => qChannel[c] # "empty" \/ c \in qPolls \/ qSkipped[c]

\* The task of a connection that was removed from the table ends, although
\* the Close message is dropped when the channel is full.
QSocketEnds ==
    (\A c \in QConn : WF_qVars(QsPoll(c) \/ QsReceive(c)))
    => \A c \in QConn : qTable[c] = "none" /\ qSocket[c] # "none" ~> qSocket[c] = "ended"
=============================================================================
