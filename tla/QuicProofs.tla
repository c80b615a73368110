----------------------------- MODULE QuicProofs -----------------------------
(***************************************************************************)
(* Proofs about the sessions over QUIC, for every set of connections and of *)
(* streams: the multiplexer QuicMux and the HTTP/3 session Http3Session.   *)
(***************************************************************************)
EXTENDS QuicMux, Http3Session, WellFoundedInduction, TLAPS

-----------------------------------------------------------------------------
(* The QUIC multiplexer: QuicMux.                                          *)

QMessages == [kind : {"close", "refresh"}, conn : QConn]
QStates == {"absent", "handshaking", "established", "closing", "closed"}

\* The types the arguments need.
QTypes ==
    /\ qNow \in Nat \ {0} /\ qClosest \in Nat /\ qAt \in {"select", "read", "sweep"}
    /\ qDeadlines \in [QConn -> Nat] /\ qTimer \in [QConn -> Nat] /\ qEvents \in [QConn -> Nat]
    /\ qTable \in [QConn -> {"none", "handshake", "established"}] /\ qState \in [QConn -> QStates]
    /\ qChannel \in [QConn -> {"empty", "poll", "close"}] /\ qSkipped \in [QConn -> BOOLEAN]
    /\ qSocket \in [QConn -> {"none", "poll", "wait", "ended"}]
    /\ qQueue \in Seq(QMessages) /\ qHeld \in Seq(QMessages)

\* A connection of the table, the batch or a socket exists, and has a timer until it is closed.
QTimed ==
    \A c \in QConn :
        /\ qState[c] \in {"absent", "closed"} <=> qTimer[c] = Never
        /\ qTable[c] # "none" \/ c \in qPolls \/ qSocket[c] # "none" => qState[c] # "absent"

\* closest_deadline is no later than any deadline.
QClosest == \A c \in QConn : qDeadlines[c] # Never => qClosest # Never /\ qClosest <= qDeadlines[c]

\* A connection of the table that is not closed has a deadline, or is in the
\* batch whose deadlines read_udp_socket sets at its end.
QWatched ==
    \A c \in QConn :
        qTable[c] # "none" /\ qState[c] # "closed"
        => qDeadlines[c] # Never \/ (qAt = "read" /\ c \in qBatch)

QInv == QTypes /\ QTimed /\ QClosest /\ QWatched /\ QNoLostWakeup

\* The least element of a set of naturals.
LEMMA QMinimum ==
    ASSUME NEW S \in SUBSET Nat, S # {}
    PROVE  \E x \in S : \A y \in S : x <= y
<1> DEFINE less == OpToRel(<, Nat)
<1>1. IsWellFoundedOn(less, Nat)
    BY NatLessThanWellFounded, Zenon
<1>2. \A a, b \in Nat : <<a, b>> \in less <=> a < b
    BY Zenon DEF OpToRel
<1> HIDE DEF less
<1>3. PICK x \in S : \A y \in S : ~(<<y, x>> \in less)
    <2>1. S \subseteq Nat
        BY Zenon
    <2> QED BY <1>1, <2>1, WFMin, Zenon
<1>4. x \in Nat /\ \A y \in S : y \in Nat /\ ~(y < x)
    BY <1>2, <1>3, Zenon
<1>5. \A y \in S : x <= y
    BY <1>4
<1> QED BY <1>5, Zenon

\* QEarliest is no later than any deadline.
LEMMA QEarliestIsLeast ==
    ASSUME NEW d \in [QConn -> Nat]
    PROVE  /\ QEarliest(d) \in Nat
           /\ \A c \in QConn : d[c] # Never => QEarliest(d) # Never /\ QEarliest(d) <= d[c]
<1> DEFINE set == {d[c] : c \in QConn} \ {Never}
<1>1. set \in SUBSET Nat /\ Never \notin set /\ \A c \in QConn : d[c] # Never => d[c] \in set
    BY Zenon
<1>2. QEarliest(d) = IF set = {} THEN Never ELSE CHOOSE t \in set : \A u \in set : t <= u
    BY Zenon DEF QEarliest
<1> HIDE DEF set
<1>3. CASE set = {}
    BY <1>1, <1>2, <1>3 DEF Never
<1>4. CASE set # {}
    <2>1. \E t \in set : \A u \in set : t <= u
        BY <1>1, <1>4, QMinimum, Zenon
    <2>2. QEarliest(d) \in set /\ \A y \in set : QEarliest(d) <= y
        BY <1>2, <1>4, <2>1, Zenon
    <2> QED BY <1>1, <2>2, Zenon
<1> QED BY <1>3, <1>4, Zenon

\* A timer that is set gives a deadline.
LEMMA QTimeoutIsTime ==
    ASSUME NEW t \in Nat, qNow \in Nat \ {0}
    PROVE  QTimeout(t) \in Nat /\ (QTimeout(t) = Never <=> t = Never)
BY Zenon DEF QTimeout, Never

\* process_timeouts keeps the timers and deadlines in order.
LEMMA QProcessed ==
    ASSUME QTypes, QTimed, QWatched, qAt = "select", QProcessTimeouts,
           UNCHANGED <<qTable, qPolls, qSocket>>
    PROVE  /\ qDeadlines' \in [QConn -> Nat] /\ qTimer' \in [QConn -> Nat]
           /\ qState' \in [QConn -> QStates] /\ qClosest' \in Nat
           /\ QTimed' /\ QClosest'
           /\ \A c \in QConn : qTable[c] # "none" /\ qState'[c] # "closed" => qDeadlines'[c] # Never
<1> DEFINE due == {c \in QConn : qDeadlines[c] # Never /\ qDeadlines[c] <= qNow}
           known == {c \in due : qTable[c] # "none"}
<1>1. PICK state \in [known -> {"handshaking", "established", "closing", "closed"}],
           timer \in [known -> QTime \union {Never}] :
          /\ \A c \in known :
                /\ state[c] \in QExpires(qState[c])
                /\ timer[c] \in IF state[c] = "closed" THEN {Never} ELSE {t \in QTime : t > qNow}
          /\ qState' = [c \in QConn |-> IF c \in known THEN state[c] ELSE qState[c]]
          /\ qTimer' = [c \in QConn |-> IF c \in known THEN timer[c] ELSE qTimer[c]]
          /\ qDeadlines' = [c \in QConn |-> IF c \in known THEN timer[c]
                                            ELSE IF c \in due THEN Never ELSE qDeadlines[c]]
    BY Zenon DEF QProcessTimeouts
<1>2. qClosest' = QEarliest(qDeadlines')
    BY Zenon DEF QProcessTimeouts
<1>3. QTime \subseteq Nat \ {0} /\ Never = 0
    BY QuicAssumption DEF QTime, Never
<1>4. \A c \in known :
        /\ state[c] \in QStates \ {"absent"} /\ timer[c] \in Nat
        /\ state[c] = "closed" <=> timer[c] = Never
    <2> SUFFICES ASSUME NEW c \in known
                 PROVE  /\ state[c] \in QStates \ {"absent"} /\ timer[c] \in Nat
                        /\ state[c] = "closed" <=> timer[c] = Never
        BY Zenon
    <2>1. state[c] \in {"handshaking", "established", "closing", "closed"}
        BY <1>1, Zenon
    <2>2. timer[c] \in IF state[c] = "closed" THEN {Never} ELSE {t \in QTime : t > qNow}
        BY <1>1, Zenon
    <2>3. CASE state[c] = "closed"
        BY <1>3, <2>2, <2>3 DEF QStates
    <2>4. CASE state[c] # "closed"
        <3>1. timer[c] \in QTime
            BY <2>2, <2>4, Zenon
        <3> QED BY <1>3, <2>1, <2>4, <3>1, Zenon DEF QStates
    <2> QED BY <2>3, <2>4, Zenon
<1>5. \A c \in QConn : c \in known => c \in due /\ qTable[c] # "none"
    BY Zenon
<1>6. \A c \in QConn : c \in due /\ qTable[c] # "none" => c \in known
    BY Zenon
<1> HIDE DEF due, known
<1>7. /\ qDeadlines' \in [QConn -> Nat] /\ qTimer' \in [QConn -> Nat]
      /\ qState' \in [QConn -> QStates]
    BY <1>1, <1>3, <1>4, Zenon DEF QTypes
<1>8. qClosest' \in Nat /\ QClosest'
    BY <1>2, <1>7, QEarliestIsLeast, Zenon DEF QClosest
<1>9. \A c \in QConn :
        /\ qState'[c] = IF c \in known THEN state[c] ELSE qState[c]
        /\ qTimer'[c] = IF c \in known THEN timer[c] ELSE qTimer[c]
        /\ qDeadlines'[c] = IF c \in known THEN timer[c]
                            ELSE IF c \in due THEN Never ELSE qDeadlines[c]
    BY <1>1, Zenon
<1>10. QTimed'
    BY <1>4, <1>9, Zenon DEF QTimed, QTypes, QStates
<1>11. \A c \in QConn : qTable[c] # "none" /\ qState'[c] # "closed" => qDeadlines'[c] # Never
    BY <1>4, <1>6, <1>9, Zenon DEF QWatched
<1> QED BY <1>7, <1>8, <1>10, <1>11, Zenon

\* A step of quiche on c keeps a timer exactly with a connection that is open.
LEMMA QBecame ==
    ASSUME QTypes, QTimed, NEW c \in QConn, NEW s \in QStates \ {"absent"}, NEW t, QBecomes(c, s, t)
    PROVE  /\ qTimer' \in [QConn -> Nat] /\ qState' \in [QConn -> QStates]
           /\ qState'[c] = s /\ \A d \in QConn \ {c} : qState'[d] = qState[d]
           /\ \A d \in QConn : qState'[d] \in {"absent", "closed"} <=> qTimer'[d] = Never
<1>1. t \in Nat /\ (s = "closed" <=> t = Never)
    <2>1. QTime \subseteq Nat \ {0} /\ Never = 0
        BY QuicAssumption DEF QTime, Never
    <2>2. t \in IF s = "closed" THEN {Never} ELSE {x \in QTime : x > qNow}
        BY Zenon DEF QBecomes
    <2>3. CASE s = "closed"
        BY <2>1, <2>2, <2>3
    <2>4. CASE s # "closed"
        <3>1. t \in QTime
            BY <2>2, <2>4, Zenon
        <3> QED BY <2>1, <2>4, <3>1, Zenon
    <2> QED BY <2>3, <2>4, Zenon
<1>2. /\ qState' = [qState EXCEPT ![c] = s] /\ qTimer' = [qTimer EXCEPT ![c] = t]
      /\ qState \in [QConn -> QStates] /\ qTimer \in [QConn -> Nat]
    BY Zenon DEF QBecomes, QTypes
<1>3. qTimer' \in [QConn -> Nat] /\ qState' \in [QConn -> QStates]
    BY <1>1, <1>2, Zenon
<1>4. /\ qState'[c] = s /\ qTimer'[c] = t
      /\ \A d \in QConn \ {c} : qState'[d] = qState[d] /\ qTimer'[d] = qTimer[d]
    BY <1>2, Zenon
<1>5. \A d \in QConn : qState'[d] \in {"absent", "closed"} <=> qTimer'[d] = Never
    BY <1>1, <1>4, Zenon DEF QTimed
<1> QED BY <1>3, <1>4, <1>5, Zenon

\* What a packet of c changes: c's entries, and c is in the batch.
QPacketOf(c) ==
    /\ qBatch' = qBatch \union {c} /\ UNCHANGED qClosest
    /\ qTable' \in [QConn -> {"none", "handshake", "established"}]
    /\ qSocket' \in [QConn -> {"none", "poll", "wait", "ended"}]
    /\ qTimer' \in [QConn -> Nat] /\ qState' \in [QConn -> QStates] /\ qEvents' \in [QConn -> Nat]
    /\ qDeadlines' \in [QConn -> Nat] /\ qDeadlines'[c] \in {qDeadlines[c], Never}
    /\ \A d \in QConn : qState'[d] \in {"absent", "closed"} <=> qTimer'[d] = Never
    /\ qState'[c] # "absent"
    /\ \A d \in QConn \ {c} :
          /\ qTable'[d] = qTable[d] /\ qState'[d] = qState[d] /\ qDeadlines'[d] = qDeadlines[d]
          /\ qSocket'[d] = qSocket[d] /\ qEvents'[d] = qEvents[d]
    /\ \/ qPolls' = qPolls \union {c}
       \/ /\ qPolls' = qPolls /\ qEvents'[c] = qEvents[c]
          /\ \/ qTable'[c] # "established" \/ qSocket'[c] = "poll"
             \/ qTable'[c] = qTable[c] /\ qSocket'[c] = qSocket[c]

\* finalize_established_connection of c.
LEMMA QFinalized ==
    ASSUME QTypes, QTimed, NEW c \in QConn, QFinalize(c), qBatch' = qBatch \union {c},
           UNCHANGED <<qClosest, qPolls, qEvents>>, qDeadlines' \in [QConn -> Nat],
           qDeadlines'[c] \in {qDeadlines[c], Never},
           \A d \in QConn \ {c} : qDeadlines'[d] = qDeadlines[d]
    PROVE  QPacketOf(c)
<1>1. PICK s \in {"established", "closing"}, t \in QTime : QBecomes(c, s, t)
    BY Zenon DEF QFinalize
<1>2. /\ qTimer' \in [QConn -> Nat] /\ qState' \in [QConn -> QStates]
      /\ qState'[c] = s /\ \A d \in QConn \ {c} : qState'[d] = qState[d]
      /\ \A d \in QConn : qState'[d] \in {"absent", "closed"} <=> qTimer'[d] = Never
    BY <1>1, QBecame, Zenon DEF QStates
<1>3. /\ qTable' \in [QConn -> {"none", "handshake", "established"}]
      /\ qSocket' \in [QConn -> {"none", "poll", "wait", "ended"}]
      /\ \A d \in QConn \ {c} : qTable'[d] = qTable[d] /\ qSocket'[d] = qSocket[d]
      /\ qTable'[c] # "established" \/ qSocket'[c] = "poll"
    BY Zenon DEF QFinalize, QTypes
<1>4. qEvents' \in [QConn -> Nat] /\ \A d \in QConn : qEvents'[d] = qEvents[d]
    BY Zenon DEF QTypes
<1> QED BY <1>2, <1>3, <1>4, Zenon DEF QPacketOf

\* The three kinds of packets.
LEMMA QPacket ==
    ASSUME QTypes, QTimed, NEW c \in QConn,
           QUnknownPacket(c) \/ QHandshakePacket(c) \/ QEstablishedPacket(c)
    PROVE  QPacketOf(c)
<1>1. CASE QUnknownPacket(c)
    <2>1. /\ qBatch' = qBatch \union {c} /\ UNCHANGED <<qClosest, qDeadlines, qPolls, qEvents>>
        BY <1>1, Zenon DEF QUnknownPacket, qTimes
    <2>2. qDeadlines' \in [QConn -> Nat] /\ qEvents' \in [QConn -> Nat]
        BY <2>1, Zenon DEF QTypes
    <2>3. CASE QFinalize(c)
        BY <2>1, <2>2, <2>3, QFinalized, Zenon
    <2>4. CASE /\ qTable' = [qTable EXCEPT ![c] = "handshake"]
               /\ \E t \in QTime : QBecomes(c, "handshaking", t)
               /\ UNCHANGED <<qSocket, qFresh>>
        <3>1. /\ qTimer' \in [QConn -> Nat] /\ qState' \in [QConn -> QStates]
              /\ qState'[c] = "handshaking" /\ \A d \in QConn \ {c} : qState'[d] = qState[d]
              /\ \A d \in QConn : qState'[d] \in {"absent", "closed"} <=> qTimer'[d] = Never
            BY <2>4, QBecame, Zenon DEF QStates
        <3>2. /\ qTable' \in [QConn -> {"none", "handshake", "established"}]
              /\ qSocket' \in [QConn -> {"none", "poll", "wait", "ended"}]
              /\ \A d \in QConn \ {c} : qTable'[d] = qTable[d] /\ qSocket'[d] = qSocket[d]
              /\ qTable'[c] # "established"
            BY <2>4, Zenon DEF QTypes
        <3> QED BY <2>1, <2>2, <3>1, <3>2, Zenon DEF QPacketOf
    <2> QED BY <1>1, <2>3, <2>4, Zenon DEF QUnknownPacket
<1>2. CASE QHandshakePacket(c)
    <2>1. /\ qBatch' = qBatch \union {c} /\ UNCHANGED <<qPolls, qEvents>> /\ qTable[c] = "handshake"
        BY <1>2, Zenon DEF QHandshakePacket
    <2>2. qEvents' \in [QConn -> Nat]
        BY <2>1, Zenon DEF QTypes
    <2>3. CASE /\ qDeadlines' = [qDeadlines EXCEPT ![c] = Never] /\ UNCHANGED qClosest
               /\ QFinalize(c)
        <3>1. /\ qDeadlines' \in [QConn -> Nat] /\ qDeadlines'[c] = Never
              /\ \A d \in QConn \ {c} : qDeadlines'[d] = qDeadlines[d]
            BY <2>3, Zenon DEF QTypes, Never
        <3> QED BY <2>1, <2>3, <3>1, QFinalized, Zenon
    <2>4. CASE /\ \E t \in QTime \union {Never}, s \in {qState[c], "closing"} : QBecomes(c, s, t)
               /\ UNCHANGED <<qTable, qTimes, qSocket, qFresh>>
        <3>1. PICK s \in {qState[c], "closing"}, t \in QTime \union {Never} : QBecomes(c, s, t)
            BY <2>4, Zenon
        <3>2. s \in QStates \ {"absent"}
            BY <2>1, Zenon DEF QTypes, QTimed, QStates
        <3>3. /\ qTimer' \in [QConn -> Nat] /\ qState' \in [QConn -> QStates]
              /\ qState'[c] = s /\ \A d \in QConn \ {c} : qState'[d] = qState[d]
              /\ \A d \in QConn : qState'[d] \in {"absent", "closed"} <=> qTimer'[d] = Never
            BY <3>1, <3>2, QBecame, Zenon
        <3>4. /\ qDeadlines' = qDeadlines /\ qClosest' = qClosest /\ qTable' = qTable
              /\ qSocket' = qSocket
            BY <2>4, Zenon DEF qTimes
        <3> QED BY <2>1, <2>2, <3>2, <3>3, <3>4 DEF QPacketOf, QTypes
    <2> QED BY <1>2, <2>3, <2>4, Zenon DEF QHandshakePacket
<1>3. CASE QEstablishedPacket(c)
    <2>1. /\ qBatch' = qBatch \union {c} /\ qTable[c] = "established"
          /\ qDeadlines' = qDeadlines /\ qClosest' = qClosest /\ qTable' = qTable
          /\ qSocket' = qSocket
        BY <1>3, Zenon DEF QEstablishedPacket, qTimes
    <2>2. qState[c] \in QStates \ {"absent"}
        BY <2>1, Zenon DEF QTypes, QTimed
    <2>3. /\ qTimer' \in [QConn -> Nat] /\ qState' \in [QConn -> QStates]
          /\ qState'[c] # "absent" /\ \A d \in QConn \ {c} : qState'[d] = qState[d]
          /\ \A d \in QConn : qState'[d] \in {"absent", "closed"} <=> qTimer'[d] = Never
        <3>1. CASE UNCHANGED <<qState, qTimer>>
            BY <2>2, <3>1, Zenon DEF QTypes, QTimed
        <3>2. CASE \E t \in QTime, s \in {qState[c], "closing"} : QBecomes(c, s, t)
            <4>1. PICK s \in {qState[c], "closing"}, t \in QTime : QBecomes(c, s, t)
                BY <3>2, Zenon
            <4>2. s \in QStates \ {"absent"}
                BY <2>2, Zenon DEF QStates
            <4> QED BY <4>1, <4>2, QBecame, Zenon
        <3> QED BY <1>3, <3>1, <3>2, Zenon DEF QEstablishedPacket
    <2>4. /\ qEvents' \in [QConn -> Nat] /\ \A d \in QConn \ {c} : qEvents'[d] = qEvents[d]
          /\ qPolls' = qPolls \union {c} \/ (qPolls' = qPolls /\ qEvents'[c] = qEvents[c])
        <3>1. CASE /\ qPolls' = qPolls \union {c}
                   /\ qEvents' = [qEvents EXCEPT ![c] = IF @ < MaxEvents THEN @ + 1 ELSE @]
            BY <3>1 DEF QTypes
        <3>2. CASE UNCHANGED <<qPolls, qEvents>>
            BY <3>2, Zenon DEF QTypes
        <3> QED BY <1>3, <3>1, <3>2, Zenon DEF QEstablishedPacket
    <2> QED BY <2>1, <2>3, <2>4, Zenon DEF QPacketOf, QTypes
<1> QED BY <1>1, <1>2, <1>3, Zenon

\* Every step keeps the invariant: the multiplexer's.
LEMMA QListenStep == QInv /\ QListen => QInv'
<1> SUFFICES ASSUME QInv, QListen PROVE QInv'
    BY Zenon
<1>0. QTypes /\ QTimed /\ QClosest /\ QWatched /\ QNoLostWakeup
    BY Zenon DEF QInv
<1>1. CASE QSelectTimer \/ QSelectMessage \/ QSelectPacket
    <2>1. /\ qAt = "select" /\ qAt' \in {"read", "sweep"} /\ QProcessTimeouts
          /\ UNCHANGED <<qNow, qTable, qPolls, qChannel, qSocket, qSkipped, qEvents>>
        BY <1>1, Zenon DEF QSelectTimer, QSelectMessage, QSelectPacket, QProcessTimeouts, qBatchVars, qSocketVars
    <2>2. qQueue' \in Seq(QMessages) /\ qHeld' \in Seq(QMessages)
        <3>1. qQueue \in Seq(QMessages) /\ qHeld \in Seq(QMessages)
            BY <1>0, Zenon DEF QTypes
        <3>2. CASE UNCHANGED <<qQueue, qHeld>>
            BY <3>1, <3>2, Zenon
        <3>3. CASE /\ qQueue # <<>> /\ qHeld' = <<Head(qQueue)>> /\ qQueue' = Tail(qQueue)
            <4> HIDE DEF QMessages
            <4> QED BY <3>1, <3>3
        <3> QED BY <1>1, <3>2, <3>3, Zenon DEF QSelectTimer, QSelectMessage, QSelectPacket, qBatchVars
    <2>3. /\ qDeadlines' \in [QConn -> Nat] /\ qTimer' \in [QConn -> Nat]
          /\ qState' \in [QConn -> QStates] /\ qClosest' \in Nat
          /\ QTimed' /\ QClosest'
          /\ \A c \in QConn : qTable[c] # "none" /\ qState'[c] # "closed" => qDeadlines'[c] # Never
        BY <1>0, <2>1, QProcessed, Zenon
    <2>4. QTypes'
        BY <1>0, <2>1, <2>2, <2>3, Zenon DEF QTypes
    <2>5. QWatched'
        BY <2>1, <2>3, Zenon DEF QWatched
    <2>6. QNoLostWakeup'
        BY <1>0, <2>1, Zenon DEF QNoLostWakeup
    <2> QED BY <2>3, <2>4, <2>5, <2>6, Zenon DEF QInv
<1>2. CASE QReadPacket
    <2>1. /\ qAt = "read" /\ UNCHANGED <<qNow, qAt, qHeld, qQueue, qChannel, qSkipped>>
          /\ \E c \in QConn : QUnknownPacket(c) \/ QHandshakePacket(c) \/ QEstablishedPacket(c)
        BY <1>2, Zenon DEF QReadPacket
    <2>2. PICK c \in QConn : QPacketOf(c)
        BY <1>0, <2>1, QPacket, Zenon
    <2>3. QTypes'
        BY <1>0, <2>1, <2>2, Zenon DEF QTypes, QPacketOf
    <2>4. QTimed'
        BY <1>0, <2>2 DEF QTimed, QPacketOf
    <2>5. QClosest'
        BY <1>0, <2>2 DEF QClosest, QPacketOf
    <2>6. QWatched'
        BY <1>0, <2>1, <2>2 DEF QWatched, QPacketOf
    <2>7. QNoLostWakeup'
        <3> SUFFICES ASSUME NEW d \in QConn, qSocket'[d] = "wait", qEvents'[d] > 0,
                            qTable'[d] = "established"
                     PROVE  qChannel'[d] # "empty" \/ d \in qPolls' \/ qSkipped'[d]
            BY Zenon DEF QNoLostWakeup
        <3>1. CASE d = c
            BY <1>0, <2>1, <2>2, <3>1, Zenon DEF QNoLostWakeup, QPacketOf
        <3>2. CASE d # c
            <4>1. /\ qSocket[d] = "wait" /\ qEvents[d] > 0 /\ qTable[d] = "established"
                  /\ d \in qPolls => d \in qPolls'
                BY <2>2, <3>2, Zenon DEF QPacketOf
            <4> QED BY <1>0, <2>1, <4>1, Zenon DEF QNoLostWakeup
        <3> QED BY <3>1, <3>2, Zenon
    <2> QED BY <2>3, <2>4, <2>5, <2>6, <2>7, Zenon DEF QInv
<1>3. CASE QPost
    <2> DEFINE orphans == {c \in qPolls : qSocket[c] = "ended" /\ qState[c] # "closed"}
    <2>1. /\ qAt = "read" /\ qPolls' = {} /\ qAt' \in {"select", "sweep"}
          /\ UNCHANGED <<qNow, qTable, qHeld, qQueue, qSocket, qSkipped, qEvents>>
          /\ qChannel' = [c \in QConn |->
                          IF c \in qPolls /\ qSocket[c] # "ended" /\ qChannel[c] = "empty"
                          THEN "poll" ELSE qChannel[c]]
          /\ qDeadlines' = [c \in QConn |-> IF c \in qBatch /\ qTimer[c] # Never
                                            THEN QTimeout(qTimer[c]) ELSE qDeadlines[c]]
          /\ qClosest' = IF \E c \in qBatch : qTimer[c] # Never THEN QEarliest(qDeadlines')
                         ELSE qClosest
          /\ qState' = [c \in QConn |-> IF c \in orphans THEN "closing" ELSE qState[c]]
        BY <1>3, Zenon DEF QPost, qSocketVars
    <2>2. PICK sent \in SUBSET {c \in qBatch : qTimer[c] # Never}, t \in QTime :
              qTimer' = [c \in QConn |-> IF c \in sent THEN t ELSE qTimer[c]]
        BY <1>3, Zenon DEF QPost
    <2>3. t \in Nat \ {0} /\ Never = 0
        BY QuicAssumption DEF QTime, Never
    <2>4. \A c \in QConn : /\ QTimeout(qTimer[c]) \in Nat
                           /\ QTimeout(qTimer[c]) = Never <=> qTimer[c] = Never
        BY <1>0, QTimeoutIsTime, Zenon DEF QTypes
    <2>5. qDeadlines' \in [QConn -> Nat]
        BY <1>0, <2>1, <2>4, Zenon DEF QTypes
    <2>6. qClosest' \in Nat /\ QClosest'
        <3>1. CASE \E c \in qBatch : qTimer[c] # Never
            BY <2>1, <2>5, <3>1, QEarliestIsLeast, Zenon DEF QClosest
        <3>2. CASE ~ \E c \in qBatch : qTimer[c] # Never
            BY <1>0, <2>1, <3>2, Zenon DEF QClosest, QTypes
        <3> QED BY <3>1, <3>2, Zenon
    <2>7. QTypes'
        <3>1. qTimer' \in [QConn -> Nat] /\ qState' \in [QConn -> QStates]
              /\ qChannel' \in [QConn -> {"empty", "poll", "close"}]
            BY <1>0, <2>1, <2>2, <2>3, Zenon DEF QTypes, QStates
        <3> QED BY <1>0, <2>1, <2>5, <2>6, <3>1, Zenon DEF QTypes
    <2>8. \A c \in QConn : /\ qState'[c] = IF c \in orphans THEN "closing" ELSE qState[c]
                           /\ qTimer'[c] = IF c \in sent THEN t ELSE qTimer[c]
                           /\ c \in orphans => qState[c] # "closed" /\ qTable[c] = qTable'[c]
                           /\ c \in sent => qTimer[c] # Never
        BY <2>1, <2>2, Zenon
    <2>9. QTimed'
        <3>1. \A c \in QConn : c \in orphans => qState[c] # "absent"
            BY <1>0, Zenon DEF QTimed
        <3> HIDE DEF orphans
        <3> QED BY <1>0, <2>1, <2>3, <2>8, <3>1, Zenon DEF QTimed
    <2>10. QWatched'
        BY <1>0, <2>1, <2>4, <2>8, Zenon DEF QWatched, QTimed
    <2>11. QNoLostWakeup'
        BY <1>0, <2>1, Zenon DEF QNoLostWakeup
    <2> QED BY <2>6, <2>7, <2>9, <2>10, <2>11, Zenon DEF QInv
<1>4. CASE QDrain
    <2>1. PICK m \in QMessages : QOnSocketMessage(m)
        <3>1. qQueue \in Seq(QMessages) /\ qHeld \in Seq(QMessages)
            BY <1>0, Zenon DEF QTypes
        <3> HIDE DEF QMessages
        <3>2. /\ qQueue # <<>> => Head(qQueue) \in QMessages
              /\ qHeld # <<>> => Head(qHeld) \in QMessages
            BY <3>1
        <3> QED BY <1>4, <3>2, Zenon DEF QDrain
    <2>2. /\ qAt = "sweep"
          /\ UNCHANGED <<qNow, qAt, qPolls, qChannel, qSocket, qSkipped, qState, qTimer, qEvents>>
        BY <1>4, Zenon DEF QDrain, qSocketVars, quicheVars
    <2>3. qQueue' \in Seq(QMessages) /\ qHeld' \in Seq(QMessages)
        <3>1. qQueue \in Seq(QMessages) /\ qHeld \in Seq(QMessages)
            BY <1>0, Zenon DEF QTypes
        <3>2. \/ qHeld' = <<>> /\ qQueue' = qQueue
              \/ qHeld' = qHeld /\ qQueue # <<>> /\ qQueue' = Tail(qQueue)
            BY <1>4, Zenon DEF QDrain
        <3> HIDE DEF QMessages
        <3>3. qHeld' \in Seq(QMessages)
            <4>1. <<>> \in Seq(QMessages)
                OBVIOUS
            <4> QED BY <3>1, <3>2, <4>1, Zenon
        <3>4. qQueue # <<>> => Tail(qQueue) \in Seq(QMessages)
            BY <3>1
        <3> QED BY <3>1, <3>2, <3>3, <3>4, Zenon
    <2> DEFINE d == QTimeout(qTimer[m.conn])
    <2>4. /\ m.conn \in QConn /\ d \in Nat /\ (d = Never <=> qTimer[m.conn] = Never)
        <3>1. m.conn \in QConn
            BY Zenon DEF QMessages
        <3> QED BY <1>0, <3>1, QTimeoutIsTime, Zenon DEF QTypes
    <2>5. /\ qTable' \in [QConn -> {"none", "handshake", "established"}]
          /\ \A c \in QConn : qTable'[c] \in {qTable[c], "none"}
        BY <1>0, <2>1, <2>4, Zenon DEF QOnSocketMessage, QTypes
    <2>6. \/ UNCHANGED <<qDeadlines, qClosest>>
          \/ /\ qDeadlines' = [qDeadlines EXCEPT ![m.conn] = d]
             /\ qClosest' = QEarliest(qDeadlines')
        BY <2>1, Zenon DEF QOnSocketMessage, qTimes
    <2> HIDE DEF d
    <2>7. /\ qDeadlines' \in [QConn -> Nat] /\ qClosest' \in Nat /\ QClosest'
          /\ \A c \in QConn : qDeadlines'[c] # qDeadlines[c] => c = m.conn /\ qDeadlines'[c] = d
        <3>1. CASE UNCHANGED <<qDeadlines, qClosest>>
            BY <1>0, <3>1, Zenon DEF QTypes, QClosest
        <3>2. CASE /\ qDeadlines' = [qDeadlines EXCEPT ![m.conn] = d]
                   /\ qClosest' = QEarliest(qDeadlines')
            <4>1. /\ qDeadlines' \in [QConn -> Nat]
                  /\ \A c \in QConn : qDeadlines'[c] # qDeadlines[c] => c = m.conn /\ qDeadlines'[c] = d
                BY <1>0, <2>4, <3>2, Zenon DEF QTypes
            <4> QED BY <3>2, <4>1, QEarliestIsLeast, Zenon DEF QClosest
        <3> QED BY <2>6, <3>1, <3>2, Zenon
    <2>8. QTypes'
        BY <1>0, <2>2, <2>3, <2>5, <2>7, Zenon DEF QTypes
    <2>9. QTimed'
        BY <1>0, <2>2, <2>5, Zenon DEF QTimed
    <2>10. QWatched'
        BY <1>0, <2>2, <2>4, <2>5, <2>7, Zenon DEF QWatched, QTimed
    <2>11. QNoLostWakeup'
        BY <1>0, <2>2, <2>5, Zenon DEF QNoLostWakeup
    <2> QED BY <2>7, <2>8, <2>9, <2>10, <2>11, Zenon DEF QInv
<1>5. CASE QSweep
    <2> DEFINE closed == {c \in QConn : qTable[c] # "none" /\ qState[c] = "closed"}
    <2>1. /\ UNCHANGED <<qNow, qClosest, qPolls, qHeld, qQueue, qSocket, qSkipped, qState, qTimer, qEvents>>
          /\ qAt = "sweep" /\ qAt' = "select"
          /\ qTable' = [c \in QConn |-> IF c \in closed THEN "none" ELSE qTable[c]]
          /\ qDeadlines' = [c \in QConn |-> IF c \in closed THEN Never ELSE qDeadlines[c]]
          /\ qChannel' = [c \in QConn |-> IF c \in closed /\ qTable[c] = "established"
                                             /\ qChannel[c] = "empty" /\ qSocket[c] # "ended"
                                          THEN "close" ELSE qChannel[c]]
        BY <1>5, Zenon DEF QSweep, qBatchVars, qSocketVars, quicheVars
    <2>2. \A c \in QConn : c \in closed => qState[c] = "closed"
        BY Zenon
    <2> HIDE DEF closed
    <2>3. \A c \in QConn :
            /\ qTable'[c] \in {qTable[c], "none"}
            /\ qDeadlines'[c] \in {qDeadlines[c], Never}
            /\ qState[c] # "closed" => qDeadlines'[c] = qDeadlines[c]
            /\ qChannel[c] # "empty" => qChannel'[c] # "empty"
        BY <2>1, <2>2, Zenon
    <2>4. QTypes'
        <3>1. /\ qTable' \in [QConn -> {"none", "handshake", "established"}]
              /\ qDeadlines' \in [QConn -> Nat] /\ qChannel' \in [QConn -> {"empty", "poll", "close"}]
            BY <1>0, <2>1, Zenon DEF QTypes, Never
        <3> QED BY <1>0, <2>1, <3>1, Zenon DEF QTypes
    <2>5. QTimed' /\ QClosest'
        BY <1>0, <2>1, <2>3, Zenon DEF QTimed, QClosest
    <2>6. QWatched'
        BY <1>0, <2>1, <2>3, Zenon DEF QWatched
    <2>7. QNoLostWakeup'
        BY <1>0, <2>1, <2>3, Zenon DEF QNoLostWakeup
    <2> QED BY <2>4, <2>5, <2>6, <2>7, Zenon DEF QInv
<1> QED BY <1>1, <1>2, <1>3, <1>4, <1>5, Zenon DEF QListen

\* The end of an iteration of QuicSocket::listen, and its messages.
LEMMA QReturned ==
    ASSUME QTypes, NEW c \in QConn, NEW next \in {"poll", "wait"}, QsReturn(c, next)
    PROVE  /\ qQueue' \in Seq(QMessages)
           /\ qSocket' \in [QConn -> {"none", "poll", "wait", "ended"}]
           /\ qSocket'[c] \in {next, "ended"} /\ \A d \in QConn \ {c} : qSocket'[d] = qSocket[d]
<1>1. qQueue \in Seq(QMessages) /\ [kind |-> "close", conn |-> c] \in QMessages
    BY Zenon DEF QTypes, QMessages
<1>2. qQueue' \in Seq(QMessages)
    <2> HIDE DEF QMessages
    <2> QED BY <1>1 DEF QsReturn, QSend
<1> QED BY <1>2, Zenon DEF QsReturn, QTypes

\* Every step keeps the invariant: the sockets' and the clock's.
LEMMA QInvStep == QInv /\ [QNext]_qVars => QInv'
<1> SUFFICES ASSUME QInv, [QNext]_qVars PROVE QInv'
    BY Zenon
<1>0. QTypes /\ QTimed /\ QClosest /\ QWatched /\ QNoLostWakeup
    BY Zenon DEF QInv
<1>1. CASE QListen
    BY <1>1, QListenStep, Zenon
<1>2. ASSUME NEW c \in QConn, QsPoll(c) \/ QsReceive(c) \/ QsDrop(c)
      PROVE  QInv'
    <2>1. /\ UNCHANGED <<qNow, qTable, qDeadlines, qClosest, qAt, qBatch, qPolls, qFresh, qHeld, qState, qTimer>>
          /\ qSocket[c] \in {"poll", "wait"}
        BY <1>2, Zenon DEF QsPoll, QsReceive, QsDrop, qTimes, qBatchVars, quicheVars
    <2>2. QClosest' /\ QWatched' /\ ((\A d \in QConn \ {c} : qSocket'[d] = qSocket[d]) => QTimed')
        BY <1>0, <2>1, Zenon DEF QTimed, QClosest, QWatched
    <2>3. CASE QsPoll(c)
        <3>1. /\ qQueue' \in Seq(QMessages)
              /\ qSocket' \in [QConn -> {"none", "poll", "wait", "ended"}]
              /\ \A d \in QConn \ {c} : qSocket'[d] = qSocket[d]
              /\ qSocket'[c] = "wait" => qEvents'[c] = 0 \/ qSkipped'[c]
            <4>1. CASE QsReturn(c, "poll")
                BY <1>0, <4>1, QReturned, Zenon
            <4>2. CASE /\ qSocket' = [qSocket EXCEPT ![c] = "wait"] /\ UNCHANGED qQueue
                       /\ qSkipped' = [qSkipped EXCEPT ![c] = TRUE]
                <5> HIDE DEF QMessages
                <5> QED BY <1>0, <4>2, Zenon DEF QTypes
            <4>3. CASE /\ qSocket' = [qSocket EXCEPT ![c] = "wait"] /\ UNCHANGED <<qQueue, qEvents>>
                       /\ qEvents[c] = 0
                <5> HIDE DEF QMessages
                <5> QED BY <1>0, <4>3, Zenon DEF QTypes
            <4> QED BY <2>3, <4>1, <4>2, <4>3, Zenon DEF QsPoll
        <3>2. /\ qSkipped' \in [QConn -> BOOLEAN] /\ qEvents' \in [QConn -> Nat]
              /\ UNCHANGED qChannel
              /\ \A d \in QConn \ {c} : qEvents'[d] = qEvents[d] /\ qSkipped'[d] = qSkipped[d]
            <4>1. /\ UNCHANGED qChannel
                  /\ UNCHANGED qEvents \/ (qEvents[c] > 0 /\ qEvents' = [qEvents EXCEPT ![c] = @ - 1])
                  /\ UNCHANGED qSkipped \/ qSkipped' = [qSkipped EXCEPT ![c] = TRUE]
                BY <2>3, Zenon DEF QsPoll
            <4>2. qEvents' \in [QConn -> Nat] /\ \A d \in QConn \ {c} : qEvents'[d] = qEvents[d]
                <5>1. qEvents \in [QConn -> Nat] /\ (qEvents[c] > 0 => qEvents[c] - 1 \in Nat)
                    BY <1>0 DEF QTypes
                <5>2. CASE UNCHANGED qEvents
                    BY <5>1, <5>2, Zenon
                <5>3. CASE qEvents[c] > 0 /\ qEvents' = [qEvents EXCEPT ![c] = @ - 1]
                    BY <5>1, <5>3, Zenon
                <5> QED BY <4>1, <5>2, <5>3, Zenon
            <4>3. /\ qSkipped' \in [QConn -> BOOLEAN]
                  /\ \A d \in QConn \ {c} : qSkipped'[d] = qSkipped[d]
                <5>1. CASE UNCHANGED qSkipped
                    BY <1>0, <5>1, Zenon DEF QTypes
                <5>2. CASE qSkipped' = [qSkipped EXCEPT ![c] = TRUE]
                    BY <1>0, <5>2, Zenon DEF QTypes
                <5> QED BY <4>1, <5>1, <5>2, Zenon
            <4> QED BY <4>1, <4>2, <4>3, Zenon
        <3>3. QTypes'
            BY <1>0, <2>1, <3>1, <3>2, Zenon DEF QTypes
        <3>4. QNoLostWakeup'
            <4>1. qSocket'[c] = "wait" /\ qEvents'[c] > 0 => qSkipped'[c]
                BY <3>1
            <4> QED BY <1>0, <2>1, <3>1, <3>2, <4>1 DEF QNoLostWakeup
        <3> QED BY <2>2, <3>1, <3>3, <3>4, Zenon DEF QInv
    <2>4. CASE QsReceive(c)
        <3>1. /\ qQueue' \in Seq(QMessages)
              /\ qSocket' \in [QConn -> {"none", "poll", "wait", "ended"}]
              /\ \A d \in QConn \ {c} : qSocket'[d] = qSocket[d]
              /\ qSocket'[c] \in {"poll", "ended"}
            <4>1. CASE QsReturn(c, "poll")
                BY <1>0, <4>1, QReturned, Zenon
            <4>2. CASE /\ UNCHANGED qQueue
                       /\ \E x \in {"poll", "ended"} : qSocket' = [qSocket EXCEPT ![c] = x]
                <5> HIDE DEF QMessages
                <5> QED BY <1>0, <4>2 DEF QTypes
            <4> QED BY <2>4, <4>1, <4>2, Zenon DEF QsReceive
        <3>2. /\ qSkipped' \in [QConn -> BOOLEAN] /\ UNCHANGED qEvents
              /\ qChannel' \in [QConn -> {"empty", "poll", "close"}]
              /\ \A d \in QConn \ {c} : qChannel'[d] = qChannel[d] /\ qSkipped'[d] = qSkipped[d]
            BY <1>0, <2>4 DEF QsReceive, QTypes, quicheVars
        <3>3. QTypes'
            BY <1>0, <2>1, <3>1, <3>2, Zenon DEF QTypes
        <3>4. QNoLostWakeup'
            BY <1>0, <2>1, <3>1, <3>2, Zenon DEF QNoLostWakeup
        <3> QED BY <2>2, <3>1, <3>3, <3>4, Zenon DEF QInv
    <2>5. CASE QsDrop(c)
        <3>1. /\ UNCHANGED <<qQueue, qChannel, qSkipped, qEvents>>
              /\ qSocket' = [qSocket EXCEPT ![c] = "ended"]
            BY <2>5, Zenon DEF QsDrop, quicheVars
        <3>2. QTypes'
            BY <1>0, <2>1, <3>1, Zenon DEF QTypes
        <3>3. QNoLostWakeup'
            BY <1>0, <2>1, <3>1 DEF QNoLostWakeup, QTypes
        <3>4. \A d \in QConn \ {c} : qSocket'[d] = qSocket[d]
            BY <1>0, <3>1, Zenon DEF QTypes
        <3> QED BY <2>2, <3>2, <3>3, <3>4, Zenon DEF QInv
    <2> QED BY <1>2, <2>3, <2>4, <2>5
<1>3. ASSUME NEW c \in QConn, QsUse(c)
      PROVE  QInv'
    <2>1. /\ UNCHANGED <<qNow, qTable, qDeadlines, qClosest, qAt, qBatch, qPolls, qHeld, qChannel, qSocket,
                         qSkipped, qEvents>>
          /\ qState[c] # "closed"
        BY <1>3, Zenon DEF QsUse, qTimes, qBatchVars, qSocketVars
    <2>2. PICK s \in {qState[c], "closing"}, t \in QTime : QBecomes(c, s, t)
        BY <1>3, Zenon DEF QsUse
    <2>3. s \in QStates \ {"absent"} /\ s # "closed"
        <3>1. qSocket[c] # "none"
            BY <1>3, Zenon DEF QsUse
        <3> QED BY <1>0, <2>1, <3>1, Zenon DEF QTypes, QTimed, QStates
    <2>4. /\ qTimer' \in [QConn -> Nat] /\ qState' \in [QConn -> QStates]
          /\ qState'[c] = s /\ \A d \in QConn \ {c} : qState'[d] = qState[d]
          /\ \A d \in QConn : qState'[d] \in {"absent", "closed"} <=> qTimer'[d] = Never
        BY <1>0, <2>2, <2>3, QBecame, Zenon
    <2>5. qQueue' \in Seq(QMessages)
        <3>1. qQueue \in Seq(QMessages) /\ [kind |-> "refresh", conn |-> c] \in QMessages
            BY <1>0, Zenon DEF QTypes, QMessages
        <3> HIDE DEF QMessages
        <3> QED BY <1>3, <3>1 DEF QsUse, QSend
    <2>6. QTypes'
        BY <1>0, <2>1, <2>4, <2>5, Zenon DEF QTypes
    <2>7. QTimed'
        BY <1>0, <2>1, <2>3, <2>4, Zenon DEF QTimed
    <2>8. QClosest' /\ QWatched' /\ QNoLostWakeup'
        BY <1>0, <2>1, <2>4, Zenon DEF QClosest, QWatched, QNoLostWakeup
    <2> QED BY <2>6, <2>7, <2>8, Zenon DEF QInv
<1>4. CASE QTick
    <2>1. /\ UNCHANGED <<qTable, qDeadlines, qClosest, qAt, qBatch, qPolls, qHeld, qQueue, qChannel,
                         qSocket, qSkipped, qState, qTimer, qEvents>>
          /\ qNow' = qNow + 1
        BY <1>4, Zenon DEF QTick, qTimes, qBatchVars, qSocketVars, quicheVars
    <2>2. QTypes'
        BY <1>0, <2>1 DEF QTypes
    <2> QED BY <1>0, <2>1, <2>2, Zenon DEF QInv, QTimed, QClosest, QWatched, QNoLostWakeup
<1>5. CASE UNCHANGED qVars
    BY <1>0, <1>5, Zenon DEF qVars, qTimes, qBatchVars, qSocketVars, quicheVars,
                      QInv, QTypes, QTimed, QClosest, QWatched, QNoLostWakeup
<1> QED BY <1>1, <1>2, <1>3, <1>4, <1>5, Zenon DEF QNext

\* No connection at first.
LEMMA QInvInit == QInit => QInv
<1> SUFFICES ASSUME QInit PROVE QInv
    BY Zenon
<1>1. QTypes
    BY DEF QInit, QTypes, QStates, Never
<1> QED BY <1>1, Zenon DEF QInit, QInv, QTimed, QClosest, QWatched, QNoLostWakeup

\* The invariant holds throughout.
LEMMA QInvariant == QSpec => []QInv
    BY QInvInit, QInvStep, PTL DEF QSpec

\* QDeadlinesAreKept for any number of connections, any queue, any clock and
\* whatever timers quiche asks for: the multiplexer never sleeps past a
\* deadline, and no connection that is open is left without one.
THEOREM DeadlinesAreKept == QSpec => []QDeadlinesAreKept
<1>1. QInv => QDeadlinesAreKept
    BY Zenon DEF QInv, QClosest, QWatched, QDeadlinesAreKept
<1> QED BY <1>1, QInvariant, PTL

\* QNoLostWakeup likewise, with the channel of one message that the
\* multiplexer's PollH3 may find full.
THEOREM NoLostWakeup == QSpec => []QNoLostWakeup
<1>1. QInv => QNoLostWakeup
    BY Zenon DEF QInv
<1> QED BY <1>1, QInvariant, PTL

-----------------------------------------------------------------------------
(* The HTTP/3 session: Http3Session.                                       *)

H3Messages == [kind : {"waiting", "read", "write", "both"}, stream : H3Stream]
H3Sources == {"none", "idle", "waiting", "ended", "dropped"}
H3Sinks == {"none", "pending", "deferred", "flushing", "ready", "waiting", "ended", "dropped"}

\* The message m is on its way to the codec.
H3Has(m) == \E i \in DOMAIN h3Queue : h3Queue[i] = m

H3TableTypes ==
    /\ h3Open \subseteq H3Stream /\ h3Shut \in [H3Stream -> SUBSET {"read", "write"}]
    /\ h3Queue \in Seq(H3Messages)
H3EndTypes ==
    /\ h3Source \in [H3Stream -> H3Sources] /\ h3Sink \in [H3Stream -> H3Sinks]
    /\ h3Readable \in [H3Stream -> {0, 1}] /\ h3Writable \in [H3Stream -> {0, 1}]
H3QuicheTypes ==
    /\ h3Data \in [H3Stream -> BOOLEAN] /\ h3Told \in [H3Stream -> BOOLEAN]
    /\ h3Report \in [H3Stream -> SUBSET {"data", "finished"}] /\ h3Cap \in [H3Stream -> H3Capacity]
H3Types == H3TableTypes /\ H3EndTypes /\ H3QuicheTypes

\* The wait of the sink of s is known, unless the client has stopped s.
H3SinkKnown(s) ==
    h3Sink[s] \in {"flushing", "waiting"} =>
        h3Cap[s] = "stopped" \/ h3Writable[s] = 1 \/ s \in h3Waiting \/ s \in h3Hand
        \/ H3Has(H3Msg("waiting", s))

\* The wait of the source of s is known; and while s can get data, quiche
\* reports the next that comes.
H3SourceKnown(s) ==
    h3Source[s] = "waiting" =>
        /\ h3Data[s] => h3Readable[s] = 1 \/ "data" \in h3Report[s]
        /\ h3Told[s] => h3Data[s] \/ "read" \in h3Shut[s]

\* The ends of s that were dropped are shut down, or will be.
H3Freed(s) ==
    /\ h3Shut[s] # {"read", "write"}
    /\ h3Source[s] = "dropped" =>
          "read" \in h3Shut[s] \/ H3Has(H3Msg("read", s)) \/ H3Has(H3Msg("both", s))
    /\ h3Sink[s] = "dropped" =>
          "write" \in h3Shut[s] \/ H3Has(H3Msg("write", s)) \/ H3Has(H3Msg("both", s))

\* What holds of the stream s.
H3StreamInv(s) ==
    /\ s \in h3Open => h3Source[s] # "none"
    /\ h3Source[s] = "none" => h3Shut[s] = {}
    /\ H3Listening => /\ H3SourceKnown(s)
                      /\ s \in h3Open => H3SinkKnown(s) /\ H3Freed(s)

H3Inv == H3Types /\ \A s \in H3Stream : H3StreamInv(s)

\* A message that is sent is on its way, and so are the ones before it.
LEMMA H3Sent ==
    ASSUME h3Queue \in Seq(H3Messages), NEW m \in H3Messages, H3Tx(m)
    PROVE  /\ h3Queue' \in Seq(H3Messages) /\ (H3Listening => H3Has(m)')
           /\ \A x : H3Has(x) => H3Has(x)'
<1>1. CASE H3Listening
    <2>1. h3Queue' = Append(h3Queue, m)
        BY <1>1, Zenon DEF H3Tx
    <2> HIDE DEF H3Messages
    <2>2. /\ h3Queue' \in Seq(H3Messages) /\ Len(h3Queue') = Len(h3Queue) + 1
          /\ h3Queue'[Len(h3Queue) + 1] = m
          /\ \A i \in DOMAIN h3Queue : i \in DOMAIN h3Queue' /\ h3Queue'[i] = h3Queue[i]
        BY <2>1
    <2>3. Len(h3Queue) + 1 \in DOMAIN h3Queue'
        BY <2>2
    <2> QED BY <2>2, <2>3, Zenon DEF H3Has
<1>2. CASE ~H3Listening
    BY <1>2, Zenon DEF H3Tx, H3Has
<1> QED BY <1>1, <1>2, Zenon

\* Of the messages on their way the codec takes the first.
LEMMA H3Taken ==
    ASSUME h3Queue \in Seq(H3Messages), h3Queue # <<>>, h3Queue' = Tail(h3Queue)
    PROVE  /\ Head(h3Queue) \in H3Messages /\ h3Queue' \in Seq(H3Messages)
           /\ \A x : H3Has(x) => x = Head(h3Queue) \/ H3Has(x)'
<1> HIDE DEF H3Messages
<1>1. /\ Head(h3Queue) \in H3Messages /\ h3Queue' \in Seq(H3Messages)
      /\ Len(h3Queue) \in Nat \ {0} /\ DOMAIN h3Queue = 1 .. Len(h3Queue)
      /\ Len(h3Queue') = Len(h3Queue) - 1 /\ DOMAIN h3Queue' = 1 .. Len(h3Queue')
      /\ Head(h3Queue) = h3Queue[1]
      /\ \A i \in 1 .. (Len(h3Queue) - 1) : h3Queue'[i] = h3Queue[i + 1]
    OBVIOUS
<1>2. ASSUME NEW x, H3Has(x), x # Head(h3Queue)
      PROVE  H3Has(x)'
    <2>1. PICK i \in 1 .. Len(h3Queue) : h3Queue[i] = x
        BY <1>1, <1>2, Zenon DEF H3Has
    <2>2. i - 1 \in 1 .. (Len(h3Queue) - 1)
        BY <1>1, <1>2, <2>1
    <2>3. h3Queue'[i - 1] = x /\ i - 1 \in DOMAIN h3Queue'
        BY <1>1, <2>1, <2>2
    <2> QED BY <2>3, Zenon DEF H3Has
<1> QED BY <1>1, <1>2, Zenon

\* A step leaves the stream r alone.
H3Same(r) ==
    /\ h3Shut'[r] = h3Shut[r] /\ (r \in h3Open' <=> r \in h3Open)
    /\ h3Source'[r] = h3Source[r] /\ h3Sink'[r] = h3Sink[r]
    /\ h3Readable'[r] = h3Readable[r] /\ h3Writable'[r] = h3Writable[r]
    /\ r \in h3Waiting => r \in h3Waiting'
    /\ r \in h3Hand => r \in h3Hand'
    /\ h3Data'[r] = h3Data[r] /\ h3Told'[r] = h3Told[r] /\ h3Report'[r] = h3Report[r]
    /\ h3Cap'[r] = h3Cap[r]

\* Then it keeps what holds of r, if the messages about r stay.
LEMMA H3SameKept ==
    ASSUME NEW r \in H3Stream, H3StreamInv(r), H3Same(r), H3Listening' => H3Listening,
           \A k \in {"waiting", "read", "write", "both"} : H3Has(H3Msg(k, r)) => H3Has(H3Msg(k, r))'
    PROVE  H3StreamInv(r)'
<1>1. /\ H3Has(H3Msg("waiting", r)) => H3Has(H3Msg("waiting", r))'
      /\ H3Has(H3Msg("read", r)) => H3Has(H3Msg("read", r))'
      /\ H3Has(H3Msg("write", r)) => H3Has(H3Msg("write", r))'
      /\ H3Has(H3Msg("both", r)) => H3Has(H3Msg("both", r))'
    BY Zenon
<1> HIDE DEF H3Has
<1>2. H3SourceKnown(r) => H3SourceKnown(r)'
    BY Zenon DEF H3SourceKnown, H3Same
<1>3. H3SinkKnown(r) => H3SinkKnown(r)'
    BY <1>1, Zenon DEF H3SinkKnown, H3Same
<1>4. H3Freed(r) => H3Freed(r)'
    BY <1>1, Zenon DEF H3Freed, H3Same
<1> QED BY <1>2, <1>3, <1>4, Zenon DEF H3StreamInv, H3Same

\* The ends and quiche's view of the streams other than s stay.
H3Elsewhere(s) ==
    \A r \in H3Stream \ {s} :
        /\ h3Source'[r] = h3Source[r] /\ h3Sink'[r] = h3Sink[r]
        /\ h3Readable'[r] = h3Readable[r] /\ h3Writable'[r] = h3Writable[r]
        /\ h3Data'[r] = h3Data[r] /\ h3Told'[r] = h3Told[r] /\ h3Report'[r] = h3Report[r]
        /\ h3Cap'[r] = h3Cap[r]

\* A step of an end of s, or of the client on s.
LEMMA H3EndStep ==
    ASSUME H3Inv, NEW s \in H3Stream, UNCHANGED <<h3Table, h3Regs>>, H3EndTypes', H3QuicheTypes',
           h3Queue' \in Seq(H3Messages), \A x : H3Has(x) => H3Has(x)', H3Elsewhere(s),
           h3Source[s] = "none" <=> h3Source'[s] = "none",
           H3Listening => H3SourceKnown(s)',
           H3Listening /\ s \in h3Open => H3SinkKnown(s)',
           H3Listening /\ h3Source'[s] = "dropped" =>
               h3Source[s] = "dropped" \/ H3Has(H3Msg("read", s))',
           H3Listening /\ h3Sink'[s] = "dropped" =>
               h3Sink[s] = "dropped" \/ H3Has(H3Msg("write", s))'
    PROVE  H3Inv'
<1>0. /\ UNCHANGED <<h3Codec, h3Open, h3Shut, h3Waiting, h3Hand>>
      /\ H3TableTypes /\ H3StreamInv(s)
    BY Zenon DEF h3Table, h3Regs, H3Inv, H3Types
<1>1. H3Types'
    BY <1>0, Zenon DEF H3Types, H3TableTypes
<1>2. \A r \in H3Stream \ {s} : H3StreamInv(r)'
    <2> TAKE r \in H3Stream \ {s}
    <2>1. H3Same(r)
        BY <1>0, Zenon DEF H3Same, H3Elsewhere
    <2>2. H3Listening' <=> H3Listening
        BY <1>0, Zenon DEF H3Listening
    <2> QED BY <2>1, <2>2, H3SameKept, Zenon DEF H3Inv
<1>3. H3StreamInv(s)'
    <2>1. /\ H3Has(H3Msg("read", s)) => H3Has(H3Msg("read", s))'
          /\ H3Has(H3Msg("write", s)) => H3Has(H3Msg("write", s))'
          /\ H3Has(H3Msg("both", s)) => H3Has(H3Msg("both", s))'
        BY Zenon
    <2> HIDE DEF H3Has, H3Msg
    <2>2. H3Listening /\ s \in h3Open /\ H3Freed(s) => H3Freed(s)'
        BY <1>0, <2>1, Zenon DEF H3Freed
    <2> QED BY <1>0, <2>2, Zenon DEF H3StreamInv, H3Listening
<1> QED BY <1>1, <1>2, <1>3, Zenon DEF H3Inv

\* The steps of the client and of the source.
LEMMA H3ReadingStep ==
    ASSUME H3Inv, NEW s \in H3Stream,
           H3ClientData(s) \/ H3ClientFin(s) \/ H3Read(s) \/ H3ReadWake(s) \/ H3SourceDrop(s)
    PROVE  H3Inv'
<1>0. H3EndTypes /\ H3QuicheTypes /\ h3Queue \in Seq(H3Messages) /\ H3StreamInv(s)
    BY Zenon DEF H3Inv, H3Types, H3TableTypes
<1>1. /\ UNCHANGED <<h3Table, h3Writable, h3Regs, h3Sink, h3Eof, h3Cap, h3Open, h3Shut, h3Waiting, h3Hand>>
      /\ h3Source[s] # "none"
    BY Zenon DEF H3ClientData, H3ClientFin, H3Read, H3ReadWake, H3SourceDrop, h3Chans, h3Ends, h3Quiche,
           h3Table, h3Regs
<1>2. ASSUME ~H3SourceDrop(s) PROVE UNCHANGED h3Queue
    BY <1>2, Zenon DEF H3ClientData, H3ClientFin, H3Read, H3ReadWake, h3Chans
<1>3. /\ h3Queue' \in Seq(H3Messages) /\ \A x : H3Has(x) => H3Has(x)'
      /\ H3SourceDrop(s) /\ H3Listening => H3Has(H3Msg("read", s))'
    <2>1. H3Msg("read", s) \in H3Messages
        BY Zenon DEF H3Msg, H3Messages
    <2>2. CASE H3SourceDrop(s)
        BY <1>0, <2>1, <2>2, H3Sent, Zenon DEF H3SourceDrop
    <2>3. CASE ~H3SourceDrop(s)
        BY <1>0, <1>2, <2>3, Zenon DEF H3Has
    <2> QED BY <2>2, <2>3, Zenon
<1>4. /\ H3EndTypes' /\ H3QuicheTypes' /\ H3Elsewhere(s) /\ h3Source'[s] # "none"
      /\ h3Source'[s] = "dropped" => h3Source[s] = "dropped" \/ H3SourceDrop(s)
    <2> USE <1>0, <1>1 DEF H3EndTypes, H3QuicheTypes, H3Elsewhere, H3Sources
    <2>1. CASE H3ClientData(s)
        BY <2>1 DEF H3ClientData, h3Chans, h3Ends
    <2>2. CASE H3ClientFin(s)
        BY <2>2, Zenon DEF H3ClientFin, h3Chans, h3Ends
    <2>3. CASE H3Read(s)
        <3>1. /\ h3Source[s] = "idle" /\ h3Told' = [h3Told EXCEPT ![s] = FALSE]
              /\ UNCHANGED <<h3Fin, h3Readable>>
            BY <2>3, Zenon DEF H3Read, h3Chans
        <3>2. CASE h3Data[s]
            <4>1. PICK e \in SUBSET {"data", "finished"} : h3Report' = [h3Report EXCEPT ![s] = e]
                BY <2>3, <3>2, Zenon DEF H3Read
            <4>2. h3Data' = [h3Data EXCEPT ![s] = FALSE] /\ UNCHANGED h3Source
                BY <2>3, <3>2, Zenon DEF H3Read
            <4> QED BY <3>1, <4>1, <4>2, Zenon
        <3>3. CASE ~h3Data[s]
            BY <2>3, <3>1, <3>3, Zenon DEF H3Read
        <3> QED BY <3>2, <3>3, Zenon
    <2>4. CASE H3ReadWake(s)
        BY <2>4 DEF H3ReadWake, h3Quiche
    <2>5. CASE H3SourceDrop(s)
        BY <2>5, Zenon DEF H3SourceDrop, h3Quiche
    <2> QED BY <2>1, <2>2, <2>3, <2>4, <2>5, Zenon
<1>5. H3Listening => H3SourceKnown(s)'
    <2> SUFFICES ASSUME H3Listening, h3Source'[s] = "waiting"
                 PROVE  /\ h3Data'[s] => h3Readable'[s] = 1 \/ "data" \in h3Report'[s]
                        /\ h3Told'[s] => h3Data'[s] \/ "read" \in h3Shut'[s]
        BY Zenon DEF H3SourceKnown
    <2>0. h3Source[s] = "waiting" =>
             /\ h3Data[s] => h3Readable[s] = 1 \/ "data" \in h3Report[s]
             /\ h3Told[s] => h3Data[s] \/ "read" \in h3Shut[s]
        BY <1>0, Zenon DEF H3StreamInv, H3SourceKnown
    <2> USE <1>0, <1>1, <2>0 DEF H3EndTypes, H3QuicheTypes
    <2>1. CASE H3ClientData(s)
        BY <2>1, Zenon DEF H3ClientData, h3Chans, h3Ends
    <2>2. CASE H3ClientFin(s)
        BY <2>2, Zenon DEF H3ClientFin, h3Chans, h3Ends
    <2>3. CASE H3Read(s)
        BY <2>3 DEF H3Read, h3Chans
    <2>4. CASE H3ReadWake(s)
        BY <2>4, Zenon DEF H3ReadWake, h3Quiche
    <2>5. CASE H3SourceDrop(s)
        BY <2>5, Zenon DEF H3SourceDrop, h3Quiche
    <2> QED BY <2>1, <2>2, <2>3, <2>4, <2>5, Zenon
<1>6. H3Listening /\ s \in h3Open => H3SinkKnown(s)'
    <2>1. H3Has(H3Msg("waiting", s)) => H3Has(H3Msg("waiting", s))'
        BY <1>3, Zenon
    <2> HIDE DEF H3Has, H3Msg
    <2> QED BY <1>0, <1>1, <2>1, Zenon DEF H3StreamInv, H3SinkKnown
<1> HIDE DEF H3Has, H3Messages, H3Msg
<1> QED BY <1>1, <1>3, <1>4, <1>5, <1>6, H3EndStep, Zenon

\* try_send_pending_response does not leave the sink waiting.
LEMMA H3Tried ==
    ASSUME h3Queue \in Seq(H3Messages), NEW s \in H3Stream, NEW eof, H3TrySend(s, eof)
    PROVE  /\ \E k \in {"ready", "deferred", "dropped"} :
                 /\ h3Sink' = [h3Sink EXCEPT ![s] = k]
                 /\ H3Listening /\ k = "dropped" => H3Has(H3Msg("write", s))'
           /\ h3Queue' \in Seq(H3Messages) /\ \A x : H3Has(x) => H3Has(x)'
<1>0. H3Msg("both", s) \in H3Messages /\ H3Msg("write", s) \in H3Messages
    BY Zenon DEF H3Msg, H3Messages
<1>1. CASE /\ h3Sink' = [h3Sink EXCEPT ![s] = IF eof /\ ~H3Listening THEN "dropped" ELSE "ready"]
           /\ IF eof THEN H3Tx(H3Msg("both", s)) ELSE UNCHANGED h3Queue
    <2>1. h3Queue' \in Seq(H3Messages) /\ \A x : H3Has(x) => H3Has(x)'
        <3>1. CASE eof
            BY <1>0, <1>1, <3>1, H3Sent, Zenon
        <3>2. CASE ~eof
            BY <1>0, <1>1, <3>2, Zenon DEF H3Has
        <3> QED BY <3>1, <3>2, Zenon
    <2> HIDE DEF H3Has, H3Msg
    <2>2. CASE eof /\ ~H3Listening
        BY <1>1, <2>1, <2>2, Zenon
    <2>3. CASE ~(eof /\ ~H3Listening)
        <3>1. h3Sink' = [h3Sink EXCEPT ![s] = "ready"]
            BY <1>1, <2>3, Zenon
        <3> QED BY <2>1, <3>1, Zenon
    <2> QED BY <2>2, <2>3, Zenon
<1>2. CASE h3Sink' = [h3Sink EXCEPT ![s] = "deferred"] /\ UNCHANGED h3Queue
    <2>1. h3Queue' \in Seq(H3Messages) /\ \A x : H3Has(x) => H3Has(x)'
        BY <1>0, <1>2, Zenon DEF H3Has
    <2> HIDE DEF H3Has, H3Msg
    <2> QED BY <1>2, <2>1, Zenon
<1>3. CASE h3Sink' = [h3Sink EXCEPT ![s] = "dropped"] /\ H3Tx(H3Msg("write", s))
    <2>1. /\ h3Queue' \in Seq(H3Messages) /\ (H3Listening => H3Has(H3Msg("write", s))')
          /\ \A x : H3Has(x) => H3Has(x)'
        BY <1>0, <1>3, H3Sent, Zenon
    <2> HIDE DEF H3Has, H3Msg
    <2> QED BY <1>3, <2>1, Zenon
<1> QED BY <1>1, <1>2, <1>3, Zenon DEF H3TrySend

\* A step of the sink of s, which waits only with a registration sent.
LEMMA H3SinkStep ==
    ASSUME H3Inv, NEW s \in H3Stream, UNCHANGED <<h3Table, h3Readable, h3Regs, h3Source, h3Quiche>>,
           NEW k \in H3Sinks, h3Sink' = [h3Sink EXCEPT ![s] = k],
           h3Writable' \in [H3Stream -> {0, 1}], h3Cap' \in [H3Stream -> H3Capacity],
           \A r \in H3Stream \ {s} : h3Writable'[r] = h3Writable[r] /\ h3Cap'[r] = h3Cap[r],
           h3Queue' \in Seq(H3Messages), \A x : H3Has(x) => H3Has(x)',
           H3Listening =>
               /\ k \in {"flushing", "waiting"} => H3Has(H3Msg("waiting", s))'
               /\ k = "dropped" => h3Sink[s] = "dropped" \/ H3Has(H3Msg("write", s))'
    PROVE  H3Inv'
<1>0. /\ UNCHANGED <<h3Codec, h3Open, h3Shut, h3Readable, h3Source, h3Data, h3Told, h3Report>>
      /\ H3EndTypes /\ H3QuicheTypes /\ H3StreamInv(s)
    BY Zenon DEF h3Table, h3Quiche, H3Inv, H3Types
<1>1. H3EndTypes' /\ H3QuicheTypes' /\ h3Sink'[s] = k
    BY <1>0, Zenon DEF H3EndTypes, H3QuicheTypes
<1>2. H3Elsewhere(s)
    BY <1>0, Zenon DEF H3Elsewhere, H3EndTypes
<1>3. H3Listening => H3SourceKnown(s)'
    BY <1>0, Zenon DEF H3StreamInv, H3SourceKnown
<1> HIDE DEF H3Has, H3Msg, H3Messages
<1>4. H3Listening /\ s \in h3Open => H3SinkKnown(s)'
    BY <1>0, <1>1, Zenon DEF H3StreamInv, H3SinkKnown
<1> QED BY <1>0, <1>1, <1>2, <1>3, <1>4, H3EndStep, Zenon

\* The steps of the sink, but for the pipe's restart.
LEMMA H3WritingStep ==
    ASSUME H3Inv, NEW s \in H3Stream,
           \/ H3SendResponse(s) \/ H3Flush(s) \/ H3WaitCapacity(s) \/ H3WriteWake(s)
           \/ H3Write(s) \/ H3WriteDatagram(s) \/ H3SinkEof(s) \/ H3SinkDrop(s)
    PROVE  H3Inv'
<1>0. H3EndTypes /\ H3QuicheTypes /\ h3Queue \in Seq(H3Messages)
    BY Zenon DEF H3Inv, H3Types, H3TableTypes
<1>1. UNCHANGED <<h3Table, h3Readable, h3Regs, h3Source, h3Quiche>>
    BY Zenon DEF H3SendResponse, H3Flush, H3WaitCapacity, H3WriteWake, H3Write, H3WriteDatagram, H3SinkEof,
           H3SinkDrop, h3Chans, h3Ends
<1>2. /\ h3Writable' \in [H3Stream -> {0, 1}] /\ h3Cap' \in [H3Stream -> H3Capacity]
      /\ \A r \in H3Stream \ {s} : h3Writable'[r] = h3Writable[r] /\ h3Cap'[r] = h3Cap[r]
    <2>1. \/ UNCHANGED <<h3Writable, h3Cap>>
          \/ h3Writable' = [h3Writable EXCEPT ![s] = 0] /\ UNCHANGED h3Cap
          \/ h3Cap' = [h3Cap EXCEPT ![s] = "none"] /\ UNCHANGED h3Writable
        BY Zenon DEF H3SendResponse, H3Flush, H3WaitCapacity, H3WriteWake, H3Write, H3WriteDatagram,
               H3SinkEof, H3SinkDrop, h3Chans, h3Ends
    <2> QED BY <1>0, <2>1 DEF H3EndTypes, H3QuicheTypes, H3Capacity
<1>3. /\ H3Msg("waiting", s) \in H3Messages /\ H3Msg("write", s) \in H3Messages
    BY Zenon DEF H3Msg, H3Messages
<1>4. CASE \E eof : H3TrySend(s, eof)
    <2>1. PICK eof : H3TrySend(s, eof)
        BY <1>4, Zenon
    <2>2. PICK k \in {"ready", "deferred", "dropped"} :
                 /\ h3Sink' = [h3Sink EXCEPT ![s] = k]
                 /\ H3Listening /\ k = "dropped" => H3Has(H3Msg("write", s))'
        BY <1>0, <2>1, H3Tried, Zenon
    <2>3. h3Queue' \in Seq(H3Messages) /\ \A x : H3Has(x) => H3Has(x)'
        BY <1>0, <2>1, H3Tried, Zenon
    <2>4. k \in H3Sinks
        BY Zenon DEF H3Sinks
    <2> HIDE DEF H3Has, H3Msg, H3Messages, H3Sinks
    <2> QED BY <1>1, <1>2, <2>2, <2>3, <2>4, H3SinkStep, Zenon
<1>5. CASE \E waiting \in {"flushing", "waiting"} : H3Register(s, waiting)
    <2>1. PICK k \in {"flushing", "waiting", "ended"} :
              h3Sink' = [h3Sink EXCEPT ![s] = k] /\ H3Tx(H3Msg("waiting", s))
        BY <1>5, Zenon DEF H3Register
    <2>2. /\ h3Queue' \in Seq(H3Messages) /\ (H3Listening => H3Has(H3Msg("waiting", s))')
          /\ \A x : H3Has(x) => H3Has(x)'
        BY <1>0, <1>3, <2>1, H3Sent, Zenon
    <2>3. k \in H3Sinks /\ k # "dropped"
        BY Zenon DEF H3Sinks
    <2> HIDE DEF H3Has, H3Msg, H3Messages, H3Sinks
    <2> QED BY <1>1, <1>2, <2>1, <2>2, <2>3, H3SinkStep, Zenon
<1>6. CASE H3SinkDrop(s)
    <2>1. h3Sink' = [h3Sink EXCEPT ![s] = "dropped"] /\ H3Tx(H3Msg("write", s))
        BY <1>6, Zenon DEF H3SinkDrop
    <2>2. /\ h3Queue' \in Seq(H3Messages) /\ (H3Listening => H3Has(H3Msg("write", s))')
          /\ \A x : H3Has(x) => H3Has(x)'
        BY <1>0, <1>3, <2>1, H3Sent, Zenon
    <2>3. "dropped" \in H3Sinks
        BY Zenon DEF H3Sinks
    <2> HIDE DEF H3Has, H3Msg, H3Messages, H3Sinks
    <2> QED BY <1>1, <1>2, <2>1, <2>2, <2>3, H3SinkStep, Zenon
<1>7. CASE UNCHANGED h3Queue /\ \E k \in {"ready", "ended"} : h3Sink' = [h3Sink EXCEPT ![s] = k]
    <2>1. h3Queue' \in Seq(H3Messages) /\ \A x : H3Has(x) => H3Has(x)'
        BY <1>0, <1>7, Zenon DEF H3Has
    <2>2. PICK k \in {"ready", "ended"} : h3Sink' = [h3Sink EXCEPT ![s] = k]
        BY <1>7, Zenon
    <2>3. k \in H3Sinks
        BY Zenon DEF H3Sinks
    <2> HIDE DEF H3Has, H3Msg, H3Messages, H3Sinks
    <2> QED BY <1>1, <1>2, <2>1, <2>2, <2>3, H3SinkStep, Zenon
<1>8. \/ \E eof : H3TrySend(s, eof)
      \/ \E waiting \in {"flushing", "waiting"} : H3Register(s, waiting)
      \/ H3SinkDrop(s)
      \/ UNCHANGED h3Queue /\ \E k \in {"ready", "ended"} : h3Sink' = [h3Sink EXCEPT ![s] = k]
    <2>1. CASE H3Write(s) \/ H3WriteDatagram(s)
        BY <1>0, <2>1, Zenon DEF H3Write, H3WriteDatagram, h3Ends, h3Chans, H3EndTypes
    <2>2. CASE H3SendResponse(s) \/ H3Flush(s) \/ H3WaitCapacity(s) \/ H3WriteWake(s) \/ H3SinkEof(s)
        <3> HIDE DEF H3TrySend, H3Register
        <3> QED BY <2>2, Zenon DEF H3SendResponse, H3Flush, H3WaitCapacity, H3WriteWake, H3SinkEof, h3Chans
    <2> QED BY <2>1, <2>2, Zenon
<1> QED BY <1>4, <1>5, <1>6, <1>7, <1>8, Zenon

\* The capacity changes, or the pipe starts anew.
LEMMA H3RestartStep ==
    ASSUME H3Inv, NEW s \in H3Stream, H3ClientWindow(s) \/ H3Restart(s)
    PROVE  H3Inv'
<1>0. H3EndTypes /\ H3QuicheTypes /\ h3Queue \in Seq(H3Messages) /\ H3StreamInv(s)
    BY Zenon DEF H3Inv, H3Types, H3TableTypes
<1>1. /\ UNCHANGED <<h3Table, h3Queue, h3Readable, h3Writable, h3Regs, h3Eof, h3Quiche, h3Shut, h3Waiting, h3Hand>>
      /\ UNCHANGED <<h3Data, h3Told, h3Report>>
    BY Zenon DEF H3ClientWindow, H3Restart, h3Chans, h3Ends, h3Quiche, h3Table, h3Regs
<1>2. h3Queue' \in Seq(H3Messages) /\ \A x : H3Has(x) <=> H3Has(x)'
    BY <1>0, <1>1, Zenon DEF H3Has
<1>3. /\ H3EndTypes' /\ H3QuicheTypes' /\ H3Elsewhere(s)
      /\ h3Cap[s] = "stopped" => h3Cap'[s] = "stopped"
      /\ h3Source'[s] = h3Source[s] \/ (h3Source[s] = "waiting" /\ h3Source'[s] = "idle")
      /\ h3Sink'[s] = h3Sink[s] \/ h3Sink'[s] \in {"ready", "deferred"}
    <2>1. CASE H3ClientWindow(s)
        BY <1>0, <1>1, <2>1 DEF H3ClientWindow, h3Ends, H3EndTypes, H3QuicheTypes, H3Elsewhere
    <2>2. CASE H3Restart(s)
        <3>1. h3Source' = [h3Source EXCEPT ![s] = IF h3Source[s] = "waiting" THEN "idle" ELSE h3Source[s]]
            BY <2>2, Zenon DEF H3Restart
        <3>2. PICK k \in H3Sinks : h3Sink' = [h3Sink EXCEPT ![s] = k] /\ (k = h3Sink[s] \/ k \in {"ready", "deferred"})
            BY <1>0, <2>2, Zenon DEF H3Restart, H3EndTypes, H3Sinks
        <3>3. UNCHANGED h3Cap
            BY <2>2, Zenon DEF H3Restart
        <3> QED BY <1>0, <1>1, <3>1, <3>2, <3>3, Zenon DEF H3EndTypes, H3QuicheTypes, H3Elsewhere, H3Sources
    <2> QED BY <2>1, <2>2, Zenon
<1> HIDE DEF H3Has, H3Messages, H3Msg
<1>5. H3Listening => H3SourceKnown(s)'
    BY <1>0, <1>1, <1>3, Zenon DEF H3StreamInv, H3SourceKnown
<1>6. H3Listening /\ s \in h3Open => H3SinkKnown(s)'
    BY <1>0, <1>1, <1>2, <1>3, Zenon DEF H3StreamInv, H3SinkKnown
<1>7. /\ h3Source'[s] = "dropped" => h3Source[s] = "dropped"
      /\ h3Sink'[s] = "dropped" => h3Sink[s] = "dropped"
      /\ h3Source[s] = "none" <=> h3Source'[s] = "none"
    BY <1>3, Zenon
<1> QED BY <1>1, <1>2, <1>3, <1>5, <1>6, <1>7, H3EndStep, Zenon

\* Directions of s are shut down; of the messages about s at most one that
\* asks for no more than that is taken from the queue.
LEMMA H3ShutdownStep ==
    ASSUME H3Inv, NEW s \in H3Stream, NEW directions \in SUBSET {"read", "write"},
           NEW report \in [H3Stream -> SUBSET {"data", "finished"}],
           H3OnStreamShutdown(s, directions, report),
           \A r \in H3Stream : "data" \in h3Report[r] <=> "data" \in report[r],
           UNCHANGED <<h3Codec, h3Readable, h3Writable, h3Regs, h3Ends, h3Fin, h3Told, h3Cap>>,
           h3Queue' \in Seq(H3Messages),
           \A kind \in {"waiting", "read", "write", "both"}, r \in H3Stream :
               H3Has(H3Msg(kind, r)) =>
                   \/ H3Has(H3Msg(kind, r))'
                   \/ /\ r = s /\ kind # "waiting"
                      /\ kind # "write" => "read" \in directions
                      /\ kind # "read" => "write" \in directions
    PROVE  H3Inv'
<1>0. /\ UNCHANGED <<h3Codec, h3Readable, h3Writable, h3Waiting, h3Hand, h3Source, h3Sink, h3Told, h3Cap>>
      /\ H3TableTypes /\ H3EndTypes /\ H3QuicheTypes
    BY Zenon DEF h3Regs, h3Ends, H3Inv, H3Types
<1> HIDE DEF H3Has, H3Messages, H3Msg
<1>1. /\ h3Shut' \in [H3Stream -> SUBSET {"read", "write"}]
      /\ h3Open' \subseteq h3Open
      /\ h3Data' \in [H3Stream -> BOOLEAN]
      /\ h3Report' \in [H3Stream -> SUBSET {"data", "finished"}]
    <2>1. CASE s \in h3Open
        <3>1. h3Shut' = [h3Shut EXCEPT ![s] = @ \union directions] /\ h3Open' \subseteq h3Open
            BY <2>1, Zenon DEF H3OnStreamShutdown
        <3>2. h3Data' \in [H3Stream -> BOOLEAN]
            BY <1>0, <2>1, Zenon DEF H3OnStreamShutdown, H3QuicheTypes
        <3>3. h3Report' \in [H3Stream -> SUBSET {"data", "finished"}]
            BY <1>0, <2>1, Zenon DEF H3OnStreamShutdown
        <3> QED BY <1>0, <3>1, <3>2, <3>3, Zenon DEF H3TableTypes
    <2>2. CASE s \notin h3Open
        BY <1>0, <2>2, Zenon DEF H3OnStreamShutdown, H3TableTypes, H3QuicheTypes
    <2> QED BY <2>1, <2>2, Zenon
<1>2. H3Types'
    BY <1>0, <1>1 DEF H3Types, H3TableTypes, H3EndTypes, H3QuicheTypes
<1>3. ASSUME NEW r \in H3Stream
      PROVE  /\ h3Shut[r] \subseteq h3Shut'[r]
             /\ r # s => h3Shut'[r] = h3Shut[r]
             /\ r = s /\ r \in h3Open' => directions \subseteq h3Shut'[r] /\ h3Shut'[r] # {"read", "write"}
             /\ r \notin h3Open => h3Shut'[r] = h3Shut[r]
             /\ r \in h3Open' => r \in h3Open
             /\ \/ h3Data'[r] = h3Data[r] /\ ("data" \in h3Report[r] => "data" \in h3Report'[r])
                \/ h3Data'[r] = FALSE /\ "read" \in h3Shut'[r]
    <2>1. CASE s \in h3Open
        <3>1. /\ h3Shut' = [h3Shut EXCEPT ![s] = @ \union directions]
              /\ h3Open' = IF h3Shut'[s] = {"read", "write"} THEN h3Open \ {s} ELSE h3Open
            BY <2>1, Zenon DEF H3OnStreamShutdown
        <3>2. CASE "read" \in directions
            <4>1. /\ h3Data' = [h3Data EXCEPT ![s] = FALSE] /\ h3Report' = [report EXCEPT ![s] = {}]
                BY <2>1, <3>2, Zenon DEF H3OnStreamShutdown
            <4> QED BY <1>0, <1>3, <2>1, <3>1, <3>2, <4>1, Zenon DEF H3TableTypes, H3QuicheTypes
        <3>3. CASE "read" \notin directions
            <4>1. h3Data' = h3Data /\ h3Report' = report
                BY <2>1, <3>3, Zenon DEF H3OnStreamShutdown
            <4> QED BY <1>0, <1>3, <2>1, <3>1, <3>3, <4>1, Zenon DEF H3TableTypes
        <3> QED BY <3>2, <3>3, Zenon
    <2>2. CASE s \notin h3Open
        BY <1>0, <1>3, <2>2 DEF H3OnStreamShutdown
    <2> QED BY <2>1, <2>2, Zenon
<1>4. ASSUME NEW r \in H3Stream
      PROVE  H3StreamInv(r)'
    <2>1. H3StreamInv(r)
        BY Zenon DEF H3Inv
    <2>2. H3Listening' <=> H3Listening
        BY <1>0, Zenon DEF H3Listening
    <2>3. H3SourceKnown(r) => H3SourceKnown(r)'
        BY <1>0, <1>3, Zenon DEF H3SourceKnown
    <2>4. H3SinkKnown(r) => H3SinkKnown(r)'
        BY <1>0, Zenon DEF H3SinkKnown
    <2>5. r \in h3Open' /\ H3Freed(r) => H3Freed(r)'
        <3>1. CASE r = s
            BY <1>0, <1>3, <3>1, Zenon DEF H3Freed
        <3>2. CASE r # s
            BY <1>0, <1>3, <3>2, Zenon DEF H3Freed
        <3> QED BY <3>1, <3>2, Zenon
    <2>6. r \in h3Open' => r \in h3Open
        BY <1>3, Zenon
    <2>7. h3Source'[r] = "none" => h3Shut'[r] = {}
        BY <1>0, <1>3, <2>1, Zenon DEF H3StreamInv
    <2> QED BY <1>0, <2>1, <2>2, <2>3, <2>4, <2>5, <2>6, <2>7, Zenon DEF H3StreamInv
<1> QED BY <1>2, <1>4, Zenon DEF H3Inv

\* The messages and the client's end that shut streams down.
LEMMA H3ShuttingStep ==
    ASSUME H3Inv, H3OnStreamMessage \/ \E s \in H3Stream : H3OnClose(s)
    PROVE  H3Inv'
<1>0. H3TableTypes /\ H3QuicheTypes
    BY Zenon DEF H3Inv, H3Types
<1>1. ASSUME NEW s \in H3Stream, H3OnClose(s) PROVE H3Inv'
    <2> DEFINE report == [h3Report EXCEPT ![s] = @ \ {"finished"}]
    <2>1. /\ report \in [H3Stream -> SUBSET {"data", "finished"}]
          /\ \A r \in H3Stream : "data" \in h3Report[r] <=> "data" \in report[r]
        BY <1>0, Zenon DEF H3QuicheTypes
    <2>2. /\ H3OnStreamShutdown(s, {"read"}, report)
          /\ UNCHANGED <<h3Codec, h3Readable, h3Writable, h3Regs, h3Ends, h3Fin, h3Told, h3Cap, h3Queue>>
        BY <1>1, Zenon DEF H3OnClose, h3Chans
    <2>3. h3Queue' \in Seq(H3Messages) /\ \A x : H3Has(x) => H3Has(x)'
        BY <1>0, <2>2, Zenon DEF H3TableTypes, H3Has
    <2>4. {"read"} \in SUBSET {"read", "write"}
        BY Zenon
    <2> HIDE DEF report, H3Has, H3Messages, H3Msg, H3OnStreamShutdown
    <2> QED BY <2>1, <2>2, <2>3, <2>4, H3ShutdownStep, Zenon
<1>2. CASE H3OnStreamMessage
    <2> DEFINE m == Head(h3Queue)
    <2>0. /\ h3Queue' = Tail(h3Queue) /\ h3Queue # <<>>
          /\ UNCHANGED <<h3Codec, h3Readable, h3Writable, h3Hand, h3Ends, h3Fin, h3Told, h3Cap>>
        BY <1>2, Zenon DEF H3OnStreamMessage
    <2>1. m \in H3Messages /\ h3Queue' \in Seq(H3Messages) /\ \A x : H3Has(x) => x = m \/ H3Has(x)'
        BY <1>0, <2>0, H3Taken, Zenon DEF H3TableTypes
    <2>2. /\ m.stream \in H3Stream /\ m.kind \in {"waiting", "read", "write", "both"}
          /\ \A kind \in {"waiting", "read", "write", "both"}, r \in H3Stream :
                H3Msg(kind, r) = m => kind = m.kind /\ r = m.stream
        BY <2>1 DEF H3Messages, H3Msg
    <2>3. CASE m.kind = "waiting"
        <3>1. h3Waiting' = h3Waiting \union {m.stream} /\ UNCHANGED <<h3Shut, h3Open, h3Data, h3Report>>
            BY <1>2, <2>3, Zenon DEF H3OnStreamMessage
        <3>2. UNCHANGED <<h3Source, h3Sink>>
            BY <2>0, Zenon DEF h3Ends
        <3> HIDE DEF m, H3Has, H3Messages, H3Msg
        <3>3. H3Types'
            BY <2>0, <2>1, <3>1, <3>2, Zenon DEF H3Inv, H3Types, H3TableTypes, H3EndTypes, H3QuicheTypes
        <3>4. ASSUME NEW r \in H3Stream PROVE H3StreamInv(r)'
            <4>1. H3StreamInv(r) /\ (H3Listening' <=> H3Listening)
                BY <2>0, Zenon DEF H3Inv, H3Listening
            <4>2. H3SourceKnown(r) => H3SourceKnown(r)'
                BY <2>0, <3>1, <3>2, Zenon DEF H3SourceKnown
            <4>3. H3Has(H3Msg("waiting", r)) => H3Has(H3Msg("waiting", r))' \/ r = m.stream
                BY <2>1, <2>2, Zenon
            <4>4. H3SinkKnown(r) => H3SinkKnown(r)'
                BY <2>0, <3>1, <3>2, <4>3, Zenon DEF H3SinkKnown
            <4>5. \A kind \in {"read", "write", "both"} :
                      H3Has(H3Msg(kind, r)) => H3Has(H3Msg(kind, r))'
                BY <2>1, <2>2, <2>3, Zenon
            <4>6. H3Freed(r) => H3Freed(r)'
                BY <3>1, <3>2, <4>5, Zenon DEF H3Freed
            <4> QED BY <3>1, <3>2, <4>1, <4>2, <4>4, <4>6, Zenon DEF H3StreamInv
        <3> QED BY <3>3, <3>4, Zenon DEF H3Inv
    <2>4. CASE m.kind # "waiting"
        <3> DEFINE directions == IF m.kind = "both" THEN {"read", "write"} ELSE {m.kind}
        <3>1. H3OnStreamShutdown(m.stream, directions, h3Report) /\ UNCHANGED h3Waiting
            BY <1>2, <2>4, Zenon DEF H3OnStreamMessage
        <3>2. UNCHANGED h3Regs
            BY <2>0, <3>1, Zenon DEF h3Regs
        <3>3. /\ directions \in SUBSET {"read", "write"}
              /\ m.kind # "write" => "read" \in directions
              /\ m.kind # "read" => "write" \in directions
            BY <2>2, <2>4, Zenon
        <3>4. h3Report \in [H3Stream -> SUBSET {"data", "finished"}]
            BY <1>0, Zenon DEF H3QuicheTypes
        <3> HIDE DEF m, directions, H3Has, H3Messages, H3Msg, H3OnStreamShutdown
        <3>5. \A kind \in {"waiting", "read", "write", "both"}, r \in H3Stream :
                 H3Has(H3Msg(kind, r)) =>
                   \/ H3Has(H3Msg(kind, r))'
                   \/ /\ r = m.stream /\ kind # "waiting"
                      /\ kind # "write" => "read" \in directions
                      /\ kind # "read" => "write" \in directions
            BY <2>1, <2>2, <2>4, <3>3, Zenon
        <3> QED BY <2>0, <2>1, <2>2, <3>1, <3>2, <3>3, <3>4, <3>5, H3ShutdownStep, Zenon
    <2> QED BY <2>3, <2>4, Zenon
<1> QED BY <1>1, <1>2, Zenon

\* What the codec does with a new stream, with readable data and with the
\* waiting writers.
LEMMA H3ListenStep ==
    ASSUME H3Inv,
           \/ \E s \in H3Stream : H3OnRequest(s) \/ H3OnStreamReadable(s)
           \/ H3TakeWritable \/ H3NotifyWritableStreams
    PROVE  H3Inv'
<1>0. /\ H3TableTypes /\ H3EndTypes /\ H3QuicheTypes /\ \A r \in H3Stream : H3StreamInv(r)
    BY Zenon DEF H3Inv, H3Types
<1>1. UNCHANGED <<h3Queue, h3Eof, h3Shut, h3Data, h3Told, h3Cap>>
    BY Zenon DEF H3OnRequest, H3OnStreamReadable, H3TakeWritable, H3NotifyWritableStreams, h3Table, h3Chans,
           h3Ends, h3Quiche
<1>2. \A x : H3Has(x) <=> H3Has(x)'
    BY <1>1, Zenon DEF H3Has
<1> HIDE DEF H3Has, H3Messages, H3Msg
<1>3. ASSUME NEW s \in H3Stream, H3OnRequest(s) PROVE H3Inv'
    <2>1. /\ h3Source[s] = "none" /\ h3Open' = h3Open \union {s}
          /\ h3Source' = [h3Source EXCEPT ![s] = "idle"] /\ h3Sink' = [h3Sink EXCEPT ![s] = "pending"]
          /\ UNCHANGED <<h3Codec, h3Readable, h3Writable, h3Waiting, h3Hand, h3Report>>
        BY <1>3, Zenon DEF H3OnRequest, h3Chans, h3Regs, h3Quiche
    <2>2. H3Types'
        BY <1>0, <1>1, <2>1, Zenon DEF H3Types, H3TableTypes, H3EndTypes, H3QuicheTypes, H3Sources, H3Sinks
    <2>3. ASSUME NEW r \in H3Stream \ {s} PROVE H3StreamInv(r)'
        <3>1. H3Same(r)
            BY <1>0, <1>1, <1>2, <2>1, Zenon DEF H3Same, H3EndTypes
        <3>2. H3StreamInv(r) /\ (H3Listening' => H3Listening)
            BY <1>0, <2>1, Zenon DEF H3Listening
        <3> QED BY <1>2, <3>1, <3>2, H3SameKept, Zenon
    <2>4. h3Source'[s] = "idle" /\ h3Sink'[s] = "pending" /\ h3Shut'[s] = {}
        BY <1>0, <1>1, <2>1, Zenon DEF H3EndTypes, H3StreamInv
    <2>5. H3StreamInv(s)'
        BY <2>4, Zenon DEF H3StreamInv, H3SourceKnown, H3SinkKnown, H3Freed
    <2> QED BY <2>2, <2>3, <2>5, Zenon DEF H3Inv
<1>4. ASSUME NEW s \in H3Stream, H3OnStreamReadable(s) PROVE H3Inv'
    <2>1. /\ h3Report' = [h3Report EXCEPT ![s] = @ \ {"data"}]
          /\ UNCHANGED <<h3Open, h3Writable, h3Waiting, h3Hand, h3Source, h3Sink>>
          /\ \/ h3Readable' = [h3Readable EXCEPT ![s] = 1] /\ UNCHANGED h3Codec
             \/ h3Codec' # "listening" /\ UNCHANGED h3Readable
        BY <1>4, Zenon DEF H3OnStreamReadable, h3Regs, h3Ends
    <2>2. H3Types'
        BY <1>0, <1>1, <2>1, Zenon DEF H3Types, H3TableTypes, H3EndTypes, H3QuicheTypes
    <2>3. ASSUME NEW r \in H3Stream PROVE H3StreamInv(r)'
        <3>1. H3StreamInv(r) /\ (H3Listening' => H3Listening)
            BY <1>0, <2>1, Zenon DEF H3Listening
        <3>2. H3Freed(r) => H3Freed(r)'
            BY <1>1, <1>2, <2>1, Zenon DEF H3Freed
        <3>3. H3SinkKnown(r) => H3SinkKnown(r)'
            BY <1>1, <1>2, <2>1, Zenon DEF H3SinkKnown
        <3>4. H3Listening' /\ H3SourceKnown(r) => H3SourceKnown(r)'
            BY <1>0, <1>1, <2>1, Zenon DEF H3SourceKnown, H3Listening, H3EndTypes, H3QuicheTypes
        <3> QED BY <1>1, <2>1, <3>1, <3>2, <3>3, <3>4, Zenon DEF H3StreamInv
    <2> QED BY <2>2, <2>3, Zenon DEF H3Inv
<1>5. CASE H3TakeWritable \/ H3NotifyWritableStreams
    <2>1. /\ UNCHANGED <<h3Codec, h3Open, h3Readable, h3Source, h3Sink, h3Report>>
        BY <1>5, Zenon DEF H3TakeWritable, H3NotifyWritableStreams, h3Table, h3Chans, h3Ends, h3Quiche
    <2>2. /\ h3Writable' \in [H3Stream -> {0, 1}]
          /\ \A r \in H3Stream : h3Writable[r] = 1 => h3Writable'[r] = 1
          /\ \A r \in h3Open : r \in h3Waiting \/ r \in h3Hand =>
                \/ r \in h3Waiting' \/ r \in h3Hand' \/ h3Writable'[r] = 1
                \/ h3Cap[r] = "stopped" \/ h3Sink[r] = "dropped"
        <3>1. CASE H3TakeWritable
            BY <1>0, <3>1, Zenon DEF H3TakeWritable, H3Ready, h3Chans, H3EndTypes
        <3>2. CASE H3NotifyWritableStreams
            <4>1. /\ h3Waiting' = h3Waiting \union {s \in h3Hand \intersect h3Open : h3Cap[s] = "none"}
                  /\ h3Writable' = [s \in H3Stream |->
                         IF s \in h3Hand \intersect h3Open /\ H3Usable(h3Cap[s]) /\ h3Sink[s] # "dropped"
                         THEN 1 ELSE h3Writable[s]]
                BY <3>2, Zenon DEF H3NotifyWritableStreams
            <4> QED BY <1>0, <4>1, Zenon DEF H3EndTypes, H3QuicheTypes, H3TableTypes, H3Capacity, H3Usable
        <3> QED BY <1>5, <3>1, <3>2, Zenon
    <2>3. H3Types'
        BY <1>0, <1>1, <2>1, <2>2, Zenon DEF H3Types, H3TableTypes, H3EndTypes, H3QuicheTypes
    <2>4. ASSUME NEW r \in H3Stream PROVE H3StreamInv(r)'
        <3>1. H3StreamInv(r) /\ (H3Listening' <=> H3Listening)
            BY <1>0, <2>1, Zenon DEF H3Listening
        <3>2. H3Freed(r) => H3Freed(r)'
            BY <1>1, <1>2, <2>1, Zenon DEF H3Freed
        <3>3. r \in h3Open /\ H3SinkKnown(r) => H3SinkKnown(r)'
            BY <1>1, <1>2, <2>1, <2>2, Zenon DEF H3SinkKnown
        <3>4. H3SourceKnown(r) => H3SourceKnown(r)'
            BY <1>1, <2>1, Zenon DEF H3SourceKnown
        <3> QED BY <1>1, <2>1, <3>1, <3>2, <3>3, <3>4, Zenon DEF H3StreamInv
    <2> QED BY <2>3, <2>4, Zenon DEF H3Inv
<1> QED BY <1>3, <1>4, <1>5, Zenon

\* The codec's end.
LEMMA H3DropStep ==
    ASSUME H3Inv, H3CodecDrop
    PROVE  H3Inv'
<1>1. /\ h3Open' = {} /\ h3Shut' = [s \in H3Stream |-> {}] /\ h3Queue' = <<>> /\ h3Codec' = "ended"
      /\ h3Report' = [s \in H3Stream |-> {}]
      /\ UNCHANGED <<h3Readable, h3Writable, h3Source, h3Sink, h3Data, h3Told, h3Cap>>
    BY Zenon DEF H3CodecDrop, h3Ends
<1>2. <<>> \in Seq(H3Messages)
    OBVIOUS
<1> HIDE DEF H3Messages
<1>3. H3Types'
    BY <1>1, <1>2, Zenon DEF H3Inv, H3Types, H3TableTypes, H3EndTypes, H3QuicheTypes
<1>4. \A r \in H3Stream : H3StreamInv(r)'
    BY <1>1, Zenon DEF H3StreamInv, H3Listening
<1> QED BY <1>3, <1>4, Zenon DEF H3Inv

\* Every step keeps the invariant.
LEMMA H3InvStep == H3Inv /\ [H3Next]_h3Vars => H3Inv'
<1> SUFFICES ASSUME H3Inv, [H3Next]_h3Vars PROVE H3Inv'
    BY Zenon
<1>1. CASE H3Listen
    BY <1>1, H3ListenStep, H3ShuttingStep, H3DropStep, Zenon DEF H3Listen, H3BadRequest
<1>2. CASE H3End
    BY <1>2, H3DropStep, Zenon DEF H3End
<1>3. CASE \E s \in H3Stream :
               H3ClientData(s) \/ H3ClientFin(s) \/ H3Read(s) \/ H3ReadWake(s) \/ H3SourceDrop(s)
    BY <1>3, H3ReadingStep, Zenon
<1>4. CASE \E s \in H3Stream :
               \/ H3SendResponse(s) \/ H3Flush(s) \/ H3WaitCapacity(s) \/ H3WriteWake(s)
               \/ H3Write(s) \/ H3WriteDatagram(s) \/ H3SinkEof(s) \/ H3SinkDrop(s)
    BY <1>4, H3WritingStep, Zenon
<1>5. CASE \E s \in H3Stream : H3ClientWindow(s) \/ H3Restart(s)
    BY <1>5, H3RestartStep, Zenon
<1>6. CASE UNCHANGED h3Vars
    <2>1. UNCHANGED <<h3Codec, h3Open, h3Shut, h3Queue, h3Readable, h3Writable, h3Waiting, h3Hand,
                      h3Source, h3Sink, h3Data, h3Told, h3Report, h3Cap>>
        BY <1>6, Zenon DEF h3Vars, h3Table, h3Chans, h3Regs, h3Ends, h3Quiche
    <2> QED BY <2>1, Zenon DEF H3Inv, H3Types, H3TableTypes, H3EndTypes, H3QuicheTypes, H3StreamInv,
                               H3SourceKnown, H3SinkKnown, H3Freed, H3Has, H3Listening
<1> HIDE DEF H3Inv
<1> QED BY <1>1, <1>2, <1>3, <1>4, <1>5, <1>6, Zenon DEF H3Next

\* The invariant holds of the first states.
LEMMA H3InvInit == H3Init => H3Inv
<1> SUFFICES ASSUME H3Init PROVE H3Inv
    BY Zenon
<1>1. <<>> \in Seq(H3Messages)
    OBVIOUS
<1> HIDE DEF H3Messages
<1>2. H3Types
    BY <1>1, Zenon DEF H3Init, H3Types, H3TableTypes, H3EndTypes, H3QuicheTypes, H3Sources, H3Sinks, H3Capacity
<1>3. \A s \in H3Stream : H3StreamInv(s)
    BY Zenon DEF H3Init, H3StreamInv, H3SourceKnown
<1> QED BY <1>2, <1>3, Zenon DEF H3Inv

\* H3Inv is an invariant of the HTTP/3 session.
LEMMA H3Invariant == H3Spec => []H3Inv
BY H3InvInit, H3InvStep, PTL DEF H3Spec

\* No wait for capacity or for data is forgotten, with any number of streams:
\* notify_writable_streams, the codec's table and the channels of one element
\* keep each waiter known until it is woken or its stream is stopped.
THEOREM WaiterIsKnown == H3Spec => []H3WaiterIsKnown
<1>1. H3Inv => H3WaiterIsKnown
    <2> SUFFICES ASSUME H3Inv, NEW s \in h3Open, H3Listening
                 PROVE  /\ h3Sink[s] \in {"flushing", "waiting"} /\ h3Cap[s] # "stopped" =>
                              \/ h3Writable[s] = 1
                              \/ s \in h3Waiting \union h3Hand
                              \/ \E i \in DOMAIN h3Queue : h3Queue[i] = H3Msg("waiting", s)
                        /\ h3Source[s] = "waiting" /\ h3Data[s] =>
                              h3Readable[s] = 1 \/ "data" \in h3Report[s]
        BY Zenon DEF H3WaiterIsKnown
    <2>1. H3SourceKnown(s) /\ H3SinkKnown(s)
        BY Zenon DEF H3Inv, H3Types, H3TableTypes, H3StreamInv
    <2> QED BY <2>1, Zenon DEF H3SourceKnown, H3SinkKnown, H3Has
<1> QED BY <1>1, H3Invariant, PTL

\* No entry of the codec's table is leaked, with any number of streams: an end
\* that was dropped is shut down in the table, or the message that shuts it
\* down is queued.
THEOREM StreamIsFreed == H3Spec => []H3StreamIsFreed
<1>1. H3Inv => H3StreamIsFreed
    <2> SUFFICES ASSUME H3Inv, NEW s \in h3Open, H3Listening
                 PROVE  LET queued == {h3Queue[i].kind : i \in {j \in DOMAIN h3Queue : h3Queue[j].stream = s}} IN
                        /\ h3Shut[s] # {"read", "write"}
                        /\ h3Source[s] = "dropped" => "read" \in h3Shut[s] \/ queued \intersect {"read", "both"} # {}
                        /\ h3Sink[s] = "dropped" => "write" \in h3Shut[s] \/ queued \intersect {"write", "both"} # {}
        BY Zenon DEF H3StreamIsFreed
    <2> DEFINE queued == {h3Queue[i].kind : i \in {j \in DOMAIN h3Queue : h3Queue[j].stream = s}}
    <2>1. H3Freed(s)
        BY Zenon DEF H3Inv, H3Types, H3TableTypes, H3StreamInv
    <2>2. ASSUME NEW kind, H3Has(H3Msg(kind, s)) PROVE kind \in queued
        <3>1. PICK i \in DOMAIN h3Queue : h3Queue[i] = H3Msg(kind, s)
            BY <2>2, Zenon DEF H3Has
        <3>2. h3Queue[i].stream = s /\ h3Queue[i].kind = kind
            BY <3>1 DEF H3Msg
        <3> QED BY <3>2, Zenon
    <2> HIDE DEF queued
    <2>3. /\ h3Shut[s] # {"read", "write"}
          /\ h3Source[s] = "dropped" => "read" \in h3Shut[s] \/ queued \intersect {"read", "both"} # {}
          /\ h3Sink[s] = "dropped" => "write" \in h3Shut[s] \/ queued \intersect {"write", "both"} # {}
        BY <2>1, <2>2, Zenon DEF H3Freed
    <2> QED BY <2>3, Zenon DEF queued
<1> QED BY <1>1, H3Invariant, PTL
=============================================================================
