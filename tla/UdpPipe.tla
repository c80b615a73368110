------------------------------- MODULE UdpPipe -------------------------------
(***************************************************************************)
(* The UDP pipe of lib/src/udp_pipe.rs over the direct multiplexer of      *)
(* UdpForwarder.                                                           *)
(*                                                                         *)
(* LeftPipe (client to targets) and RightPipe (targets to client) run in   *)
(* one task and interleave where they await: the left one while a datagram *)
(* is being sent, the right one while it polls the sockets and while a     *)
(* reply is being written to the client.  Every quarter of the idle        *)
(* timeout both futures are dropped wherever they are suspended, expired   *)
(* flows are closed, and the halves start over.                            *)
(***************************************************************************)
EXTENDS UdpForwarder

CONSTANTS
    PlainDns,       \* the flows whose target port is 53
    Quarters,       \* timer ticks in the idle timeout (4 in the code)
    MaxReplies,     \* bound: datagrams queued in a socket
    MaxUnsolicited  \* bound: datagrams that answer no query; none comes once
                    \* a socket got this many

ASSUME PlainDnsAssumption == PlainDns \subseteq Flow
ASSUME QuartersAssumption == Quarters \in Nat \ {0}
ASSUME MaxUnsolicitedAssumption == MaxUnsolicited \in Nat

VARIABLES
    tracked,    \* the keys of udp_connections
    age,        \* timer ticks since last_activity
    queries,    \* pending_queries of the plain DNS flows
    sending,    \* the <<flow, socket>> LeftPipe is sending on; {}: it reads
    right,      \* what RightPipe is suspended in
    replying,   \* the flow whose reply RightPipe is writing to the client
    outcome,    \* "open", or why the pipe ended
    datagrams,  \* datagrams received from the client so far
    asked,      \* history: unanswered datagrams sent from each socket
    unsolicited \* history: datagrams each socket got that answer no query

pipeVars ==
    <<tracked, age, queries, sending, right, replying, outcome, datagrams, asked,
      unsolicited>>
vars == <<forwarderVars, pipeVars>>

Init ==
    /\ ForwarderInit
    /\ tracked = {}
    /\ age = [m \in Flow |-> 0]
    /\ queries = [m \in Flow |-> 0]
    /\ sending = {}
    /\ right = "restarting"
    /\ replying = {}
    /\ outcome = "open"
    /\ datagrams = 0
    /\ asked = [s \in SocketId |-> 0]
    /\ unsolicited = [s \in SocketId |-> 0]

-----------------------------------------------------------------------------
(* LeftPipe::exchange                                                      *)

\* register_outgoing_packet
RegisterOutgoing(m, pending) ==
    /\ age' = [age EXCEPT ![m] = 0]
    /\ queries' = [queries EXCEPT ![m] = IF m \in PlainDns THEN pending + 1 ELSE 0]

TakeDatagram ==
    /\ outcome = "open" /\ sending = {}
    /\ datagrams < MaxDatagrams
    /\ datagrams' = datagrams + 1

\* A datagram of a known flow: the sink looks the socket up and starts sending,
\* or fails the whole pipe with NotFound.
LeftKnownFlow(m) ==
    /\ TakeDatagram
    /\ m \in tracked
    /\ RegisterOutgoing(m, queries[m])
    /\ IF socket[m] = NoSocket
       THEN outcome' = "notFound" /\ UNCHANGED sending
       ELSE sending' = {<<m, socket[m]>>} /\ UNCHANGED outcome
    /\ UNCHANGED <<forwarderVars, tracked, right, replying, asked, unsolicited>>

\* A datagram of a new flow.  The flow is recorded first; the forwarder then
\* opens a socket for it.
LeftNewFlow(m) ==
    /\ TakeDatagram
    /\ m \notin tracked /\ socket[m] = NoSocket
    /\ tracked' = tracked \union {m}
    /\ OnNewUdpConnection(m)
    /\ RegisterOutgoing(m, 0)
    /\ sending' = {<<m, created + 1>>}
    /\ UNCHANGED <<snapshot, wake, inbox, broken, right, replying, outcome, asked,
                   unsolicited>>

\* The same when on_new_udp_connection fails (a non-routable target, no
\* socket, or "Already present"): the datagram is dropped, the record stays.
LeftRefusedFlow(m) ==
    /\ TakeDatagram
    /\ m \notin tracked
    /\ m \in Refusable \/ socket[m] # NoSocket
    /\ tracked' = tracked \union {m}
    /\ age' = [age EXCEPT ![m] = 0]
    /\ queries' = [queries EXCEPT ![m] = 0]
    /\ UNCHANGED <<forwarderVars, sending, right, replying, outcome, asked,
                   unsolicited>>

\* The send completes, or reports the error queued in the socket, which ends
\* the pipe.
LeftSends(m, s) ==
    /\ outcome = "open" /\ <<m, s>> \in sending
    /\ IF broken[s]
       THEN /\ outcome' = "sendFailed"
            /\ UNCHANGED <<wake, beingListened, asked, sending>>
       ELSE /\ asked' = [asked EXCEPT ![s] = @ + 1]
            /\ WakeListener(m)
            /\ sending' = {}
            /\ UNCHANGED outcome
    /\ UNCHANGED <<socket, created, snapshot, inbox, broken, tracked, age,
                   queries, right, replying, datagrams, unsolicited>>

-----------------------------------------------------------------------------
(* RightPipe::exchange                                                     *)

\* The first poll of the future: it waits for the sockets open now.
RightStarts ==
    /\ outcome = "open" /\ right = "restarting"
    /\ PollEvents(socket)
    /\ right' = "polling"
    /\ UNCHANGED <<socket, beingListened, created, wake, inbox, broken>>
    /\ UNCHANGED <<tracked, age, queries, sending, replying, outcome, datagrams, asked,
                   unsolicited>>

RightWoken ==
    /\ outcome = "open" /\ right = "polling" /\ wake
    /\ wake' = FALSE
    /\ PollEvents(socket)
    /\ UNCHANGED <<socket, beingListened, created, inbox, broken, pipeVars>>

\* readable() returned for a socket of the snapshot; its flow's present socket
\* is read.
RightPicks(m) ==
    /\ outcome = "open" /\ right = "polling"
    /\ \E s \in SocketId : <<m, s>> \in snapshot

\* Mutant: the last datagram is left in the socket.
MutantRightReads(m) ==
    /\ RightPicks(m)
    /\ socket[m] # NoSocket /\ inbox[socket[m]] > 1
    /\ inbox' = [inbox EXCEPT ![socket[m]] = @ - 1]
    /\ right' = "replying"
    /\ replying' = {m}
    /\ snapshot' = {}
    /\ UNCHANGED <<socket, beingListened, created, wake, broken, tracked, age,
                   queries, sending, outcome, datagrams, asked, unsolicited>>

\* There is a datagram: it is being written to the client.
RightReads(m) ==
    /\ RightPicks(m)
    /\ socket[m] # NoSocket /\ inbox[socket[m]] > 0
    /\ inbox' = [inbox EXCEPT ![socket[m]] = @ - 1]
    /\ right' = "replying"
    /\ replying' = {m}
    /\ snapshot' = {}
    /\ UNCHANGED <<socket, beingListened, created, wake, broken, tracked, age,
                   queries, sending, outcome, datagrams, asked, unsolicited>>

\* There is an error: the socket is dropped, the closure queued and at once
\* handed to RightPipe, which forgets the flow.
RightSocketError(m) ==
    /\ RightPicks(m)
    /\ socket[m] # NoSocket /\ broken[socket[m]]
    /\ OnConnectionsClosed({Reversed(m)})
    /\ tracked' = tracked \ {m}
    /\ PollEvents(socket')
    /\ UNCHANGED <<beingListened, created, wake, inbox, broken, age, queries,
                   sending, right, replying, outcome, datagrams, asked,
                   unsolicited>>

\* There is nothing: readable() may return although a read would block.
RightSpuriousRead(m) ==
    /\ RightPicks(m)
    /\ socket[m] = NoSocket \/ ~Ready(socket[m])
    /\ PollEvents(socket)
    /\ UNCHANGED <<socket, beingListened, created, wake, inbox, broken, pipeVars>>

\* Mutant: every reply is the last one.
MutantLastReply(m) == m \in tracked /\ m \in PlainDns

\* register_incoming_packet on a plain DNS flow answers Done when no query is
\* left.
QueriesLeft(m) == IF queries[m] > 0 THEN queries[m] - 1 ELSE 0
LastReply(m) == m \in tracked /\ m \in PlainDns /\ QueriesLeft(m) = 0

\* The reply for flow m was written, or dropped by the client's flow control.
RightReplied(m) ==
    /\ outcome = "open" /\ m \in replying
    /\ IF m \in tracked
       THEN /\ age' = [age EXCEPT ![m] = 0]
            /\ queries' = [queries EXCEPT ![m] = QueriesLeft(m)]
       ELSE UNCHANGED <<age, queries>>
    /\ tracked' = IF LastReply(m) THEN tracked \ {m} ELSE tracked
    /\ IF LastReply(m) THEN OnConnectionsClosed({Reversed(m)}) ELSE UNCHANGED socket
    /\ PollEvents(socket')
    /\ right' = "polling"
    /\ replying' = {}
    /\ UNCHANGED <<beingListened, created, wake, inbox, broken, sending, outcome,
                   datagrams, asked, unsolicited>>

-----------------------------------------------------------------------------
(* DuplexPipe::exchange                                                    *)

\* A quarter of the timeout has passed: both halves are cancelled and the
\* expired flows are closed.
OnTimerTick ==
    /\ outcome = "open"
    /\ LET expired == {m \in tracked : age[m] >= Quarters} IN
       /\ tracked' = tracked \ expired
       /\ OnConnectionsClosed({Reversed(m) : m \in expired})
       /\ age' = [m \in Flow |-> IF m \in tracked \ expired THEN age[m] + 1 ELSE 0]
       /\ queries' = [m \in Flow |-> IF m \in expired THEN 0 ELSE queries[m]]
    /\ sending' = {}
    /\ right' = "restarting"
    /\ replying' = {}
    /\ snapshot' = {}
    /\ UNCHANGED <<beingListened, created, wake, inbox, broken, outcome,
                   datagrams, asked, unsolicited>>

\* The client's side of the multiplexer ends or fails.
ClientFails ==
    /\ outcome = "open"
    /\ sending = {} \/ right = "replying"
    /\ outcome' = "clientFailed"
    /\ UNCHANGED <<forwarderVars, tracked, age, queries, sending, right, replying,
                   datagrams, asked, unsolicited>>

-----------------------------------------------------------------------------
(* The targets.                                                            *)

Live(s) == \E m \in Flow : socket[m] = s \/ <<m, s>> \in snapshot

TargetReplies(s) ==
    /\ outcome = "open" /\ Live(s)
    /\ inbox[s] < MaxReplies
    /\ \/ /\ asked[s] > 0
          /\ asked' = [asked EXCEPT ![s] = @ - 1]
          /\ UNCHANGED unsolicited
       \/ /\ \A t \in SocketId : unsolicited[t] < MaxUnsolicited
          /\ unsolicited' = [unsolicited EXCEPT ![s] = @ + 1]
          /\ UNCHANGED asked
    /\ inbox' = [inbox EXCEPT ![s] = @ + 1]
    /\ UNCHANGED <<socket, beingListened, created, snapshot, wake, broken,
                   tracked, age, queries, sending, right, replying, outcome,
                   datagrams>>

\* A datagram comes back as "port unreachable".
TargetUnreachable(s) ==
    /\ outcome = "open" /\ Live(s)
    /\ asked[s] > 0
    /\ asked' = [asked EXCEPT ![s] = @ - 1]
    /\ broken' = [broken EXCEPT ![s] = TRUE]
    /\ UNCHANGED <<socket, beingListened, created, snapshot, wake, inbox,
                   tracked, age, queries, sending, right, replying, outcome,
                   datagrams, unsolicited>>

Closed ==
    /\ outcome # "open"
    /\ UNCHANGED vars

LeftStep ==
    \E m \in Flow :
        \/ LeftKnownFlow(m) \/ LeftNewFlow(m) \/ LeftRefusedFlow(m)
        \/ \E s \in SocketId : LeftSends(m, s)

RightStep ==
    \/ RightStarts
    \/ RightWoken
    \/ \E m \in Flow : RightReads(m) \/ RightSocketError(m)
                          \/ RightSpuriousRead(m) \/ RightReplied(m)

Next ==
    \/ LeftStep
    \/ RightStep
    \/ OnTimerTick
    \/ ClientFails
    \/ \E s \in SocketId : TargetReplies(s) \/ TargetUnreachable(s)
    \/ Closed

Spec == Init /\ [][Next]_vars

\* The runtime polls the halves; a send and a write to the client complete.
FairSpec ==
    /\ Spec
    /\ WF_vars(\E m \in Flow, s \in SocketId : LeftSends(m, s))
    /\ WF_vars(RightStep)

-----------------------------------------------------------------------------
(* Properties                                                              *)

TypeOK ==
    /\ socket \in [Flow -> 0 .. MaxDatagrams]
    /\ beingListened \in [Flow -> BOOLEAN]
    /\ created \in 0 .. MaxDatagrams
    /\ snapshot \subseteq Flow \X SocketId
    /\ wake \in BOOLEAN
    /\ inbox \in [SocketId -> Nat]
    /\ broken \in [SocketId -> BOOLEAN]
    /\ tracked \subseteq Flow
    /\ age \in [Flow -> Nat]
    /\ queries \in [Flow -> Nat]
    /\ sending \subseteq Flow \X SocketId
    /\ right \in {"restarting", "polling", "replying"}
    /\ replying \subseteq Flow
    /\ outcome \in {"open", "notFound", "sendFailed", "clientFailed"}
    /\ datagrams \in 0 .. MaxDatagrams
    /\ asked \in [SocketId -> Nat]
    /\ unsolicited \in [SocketId -> Nat]

\* No socket outlives its flow: every open socket belongs to a recorded flow,
\* which the timer or a reply will close (udp_forwarder.rs on_connection_closed
\* is called with the reversed meta on every path that forgets a flow).
NoLeakedSocket == OpenFlows \subseteq tracked

\* A recorded flow has its socket, unless the forwarder refused the flow.
RecordedFlowHasSocket ==
    tracked \ OpenFlows \subseteq Refusable

\* No reply is slept through: while the right half is suspended in a poll,
\* every connection the left half has sent on is waited for, or the wake
\* channel holds a message (udp_forwarder.rs 256-261, 147-160).
ListenedOrWoken ==
    right = "polling" =>
        \A m \in OpenFlows :
            beingListened[m] => wake \/ <<m, socket[m]>> \in snapshot

\* Closing a plain DNS flow on its last reply loses nothing when every query
\* is answered at most once: no query sent from the socket is unanswered and
\* no reply is queued in it.
EarlyCloseLosesNothing ==
    [][\A m \in Flow :
          m \in replying /\ right' = "polling"
              /\ socket[m] # NoSocket /\ socket'[m] = NoSocket
              /\ unsolicited[socket[m]] = 0
          => asked[socket[m]] = 0 /\ inbox[socket[m]] = 0]_vars

\* The sink misses the socket of a recorded flow, which ends the pipe, only if
\* the forwarder refused the flow (udp_forwarder.rs 252, udp_pipe.rs 98-113).
NotFoundMeansRefused ==
    outcome = "notFound" =>
        \E m \in Refusable : m \in tracked /\ socket[m] = NoSocket

\* A datagram that could not be forwarded is dropped and nothing else: the
\* pipe ends only with its client, or when a socket reports an error.
DroppingIsHarmless == outcome # "notFound"

\* A reply queued in a socket is read, unless its flow or the pipe is closed.
ReplyIsRead ==
    \A s \in SocketId :
        (outcome = "open" /\ inbox[s] = MaxReplies)
            ~> \/ outcome # "open"
               \/ inbox[s] < MaxReplies
               \/ \A m \in Flow : socket[m] # s

\* When time passes, a flow nobody uses any more is closed, and its socket with
\* it: a client sends finitely often, so every flow comes to that.
UnusedFlowsExpire ==
    WF_vars(OnTimerTick) =>
        \A m \in Flow :
            (m \in tracked)
                ~> (outcome # "open" \/ (m \notin tracked /\ socket[m] = NoSocket))

\* Both kinds of progress of a pipe: replies are read and unused flows closed.
Progress == ReplyIsRead /\ UnusedFlowsExpire
=============================================================================
