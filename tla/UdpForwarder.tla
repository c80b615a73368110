---------------------------- MODULE UdpForwarder ----------------------------
(***************************************************************************)
(* The direct UDP multiplexer of lib/src/udp_forwarder.rs: one connected   *)
(* socket per flow, a source that waits for any of the sockets it knew     *)
(* when it last polled, and a wake channel of capacity one through which   *)
(* the sink makes the source poll again.                                   *)
(*                                                                         *)
(* The multiplexer is driven by the two halves of the UDP pipe, which run  *)
(* in one task (UdpPipe composes the two).  A flow is forward-oriented:    *)
(* <<the client's address, the target's address>>.  Sockets are numbered   *)
(* in the order they are created and NoSocket is 0.                        *)
(***************************************************************************)
EXTENDS Naturals, FiniteSets

CONSTANTS
    Flow,           \* the flows the client uses
    Refusable,      \* flows for which on_new_udp_connection may fail
    MaxDatagrams    \* bound: datagrams the client sends, hence sockets

ASSUME RefusableAssumption == Refusable \subseteq Flow
ASSUME FlowAssumption == \A m \in Flow : m = <<m[1], m[2]>>
ASSUME MaxDatagramsAssumption == MaxDatagrams \in Nat

NoSocket == 0
SocketId == 1 .. MaxDatagrams

VARIABLES
    socket,         \* connections: the socket of each flow, or NoSocket
    beingListened,  \* Connection.being_listened
    created,        \* how many sockets were created so far
    snapshot,       \* the <<flow, socket>> pairs the suspended poll waits for
    wake,           \* whether the wake channel holds a message
    inbox,          \* datagrams queued in each socket
    broken          \* whether a socket has an error to report

forwarderVars ==
    <<socket, beingListened, created, snapshot, wake, inbox, broken>>

Reversed(meta) == <<meta[2], meta[1]>>

OpenFlows == {m \in Flow : socket[m] # NoSocket}

ForwarderInit ==
    /\ socket = [m \in Flow |-> NoSocket]
    /\ beingListened = [m \in Flow |-> FALSE]
    /\ created = 0
    /\ snapshot = {}
    /\ wake = FALSE
    /\ inbox = [s \in SocketId |-> 0]
    /\ broken = [s \in SocketId |-> FALSE]

\* on_new_udp_connection returns Ok: the flow gets a fresh socket.
OnNewUdpConnection(m) ==
    /\ socket' = [socket EXCEPT ![m] = created + 1]
    /\ beingListened' = [beingListened EXCEPT ![m] = FALSE]
    /\ created' = created + 1

\* Mutant: the meta is looked up as it is.
MutantConnectionsClosed(metas) ==
    socket' = [m \in Flow |-> IF m \in metas THEN NoSocket ELSE socket[m]]

\* The sockets of the connections stored under the reverse of each meta are
\* dropped.
OnConnectionsClosed(metas) ==
    socket' = [m \in Flow |->
                  IF \E meta \in metas : m = Reversed(meta) THEN NoSocket
                                                            ELSE socket[m]]

\* poll_events: the sockets to wait for are those present at this moment.
PollEvents(connections) ==
    snapshot' = {<<m, connections[m]>> :
                    m \in {n \in Flow : connections[n] # NoSocket}}

\* Mutant: the source is not woken.
MutantWakeListener(m) ==
    /\ beingListened' = [beingListened EXCEPT ![m] = TRUE]
    /\ UNCHANGED wake

\* MultiplexerSink::write after the send: the first datagram of a connection
\* makes the source poll again.
WakeListener(m) ==
    IF socket[m] # NoSocket /\ ~beingListened[m]
    THEN /\ wake' = TRUE
         /\ beingListened' = [beingListened EXCEPT ![m] = TRUE]
    ELSE UNCHANGED <<wake, beingListened>>

\* Readiness of a socket: readable() also returns when an error is queued.
Ready(s) == inbox[s] > 0 \/ broken[s]
=============================================================================
