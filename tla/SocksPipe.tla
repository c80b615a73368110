----------------------------- MODULE SocksPipe -----------------------------
(***************************************************************************)
(* The UDP pipe of lib/src/udp_pipe.rs over the SOCKS multiplexer of       *)
(* lib/src/socks5_forwarder.rs.                                            *)
(*                                                                         *)
(* Unlike the direct multiplexer (UdpForwarder) it has one association per *)
(* client address, shared by the flows to all its targets, and opening one *)
(* takes a handshake with the SOCKS server during which the left half is   *)
(* suspended and a timer tick may cancel it.  A flow is <<source, peer>>.  *)
(* Associations are numbered in the order they are opened.                 *)
(***************************************************************************)
EXTENDS Naturals

CONSTANTS
    SpSource,       \* client addresses
    SpPeer,         \* target addresses
    SpRefused,      \* targets on_new_udp_connection refuses
    SpDns,          \* targets with port 53
    SpQuarters,     \* timer ticks in the idle timeout (4 in the code)
    SpMaxSent,      \* bound: datagrams the client sends, hence associations
    SpMaxReplies    \* bound: datagrams the SOCKS server relays back

ASSUME SpPeerAssumption == SpRefused \subseteq SpPeer /\ SpDns \subseteq SpPeer
ASSUME SpBoundsAssumption ==
    SpQuarters \in Nat \ {0} /\ SpMaxSent \in Nat /\ SpMaxReplies \in Nat

SpFlow == SpSource \X SpPeer
SpId == 1 .. SpMaxSent
SpNone == [id |-> 0, peers |-> {}]

VARIABLES
    spTracked,  \* the keys of udp_connections
    spAge,      \* timer ticks since last_activity
    spQueries,  \* pending_queries
    spAssoc,    \* associations
    spOpened,   \* how many associations were opened
    spOpening,  \* the flow whose handshake the left half waits for, as a set
    spRight,    \* what the right half is suspended in
    spSnapshot, \* the <<source, association>> pairs the suspended poll watches
    spWake,     \* the wake channel holds a message
    spReading,  \* the <<source, association>> being received from, or the flow
                \* whose reply is being written, as a set
    spClosures, \* pending_closures: the peers of one association in the order of
                \* a hash set, all of them returned before the next poll
    spInbox,    \* datagrams queued in each association's socket
    spBroken,   \* whether it has an error to report
    spSent,     \* datagrams received from the client so far
    spRelayed,  \* datagrams relayed back so far
    spOutcome   \* "open", or why the pipe ended

spLeft == <<spTracked, spAge, spQueries, spOpening, spSent, spOutcome>>
spRead == <<spRight, spSnapshot, spReading, spClosures>>
spNet == <<spInbox, spBroken, spRelayed>>
spVars == <<spLeft, spRead, spNet, spAssoc, spOpened, spWake>>

SpInit ==
    /\ spTracked = {}
    /\ spAge = [m \in SpFlow |-> 0]
    /\ spQueries = [m \in SpFlow |-> 0]
    /\ spAssoc = [s \in SpSource |-> SpNone]
    /\ spOpened = 0
    /\ spOpening = {}
    /\ spRight = "restarting"
    /\ spSnapshot = {}
    /\ spWake = FALSE
    /\ spReading = {}
    /\ spClosures = {}
    /\ spInbox = [i \in SpId |-> 0]
    /\ spBroken = [i \in SpId |-> FALSE]
    /\ spSent = 0
    /\ spRelayed = 0
    /\ spOutcome = "open"

SpOpen(s) == spAssoc[s].id # 0

-----------------------------------------------------------------------------
(* LeftPipe::exchange                                                      *)

SpTake ==
    /\ spOutcome = "open" /\ spOpening = {}
    /\ spSent < SpMaxSent
    /\ spSent' = spSent + 1

\* register_outgoing_packet
SpRegister(m, pending) ==
    /\ spAge' = [spAge EXCEPT ![m] = 0]
    /\ spQueries' = [spQueries EXCEPT ![m] = IF m[2] \in SpDns THEN pending + 1 ELSE 0]

\* A datagram of a known flow is sent through the association of its source,
\* or fails the pipe with NotFound or the socket's error.
SpLeftKnown(m) ==
    /\ SpTake
    /\ m \in spTracked
    /\ SpRegister(m, spQueries[m])
    /\ spOutcome' = IF ~SpOpen(m[1]) THEN "notFound"
                    ELSE IF spBroken[spAssoc[m[1]].id] THEN "sendFailed" ELSE "open"
    /\ UNCHANGED <<spTracked, spOpening, spRead, spNet, spAssoc, spOpened, spWake>>

SpRecord(m) ==
    /\ SpTake
    /\ m \notin spTracked
    /\ spTracked' = spTracked \union {m}

\* on_new_udp_connection refuses the target: the datagram is dropped and the
\* record stays.
SpLeftRefused(m) ==
    /\ SpRecord(m)
    /\ m[2] \in SpRefused
    /\ spAge' = [spAge EXCEPT ![m] = 0]
    /\ spQueries' = [spQueries EXCEPT ![m] = 0]
    /\ UNCHANGED <<spOpening, spOutcome, spRead, spNet, spAssoc, spOpened, spWake>>

\* The source has an association: the flow joins it.
SpLeftJoins(m) ==
    /\ SpRecord(m)
    /\ m[2] \notin SpRefused /\ SpOpen(m[1])
    /\ spAssoc' = [spAssoc EXCEPT ![m[1]].peers = @ \union {m[2]}]
    /\ SpRegister(m, 0)
    /\ spOutcome' = IF spBroken[spAssoc[m[1]].id] THEN "sendFailed" ELSE "open"
    /\ UNCHANGED <<spOpening, spRead, spNet, spOpened, spWake>>

\* It has none: the handshake starts and the left half waits for it.
SpLeftOpens(m) ==
    /\ SpRecord(m)
    /\ m[2] \notin SpRefused /\ ~SpOpen(m[1])
    /\ spAge' = [spAge EXCEPT ![m] = 0]
    /\ spQueries' = [spQueries EXCEPT ![m] = 0]
    /\ spOpening' = {m}
    /\ UNCHANGED <<spOutcome, spRead, spNet, spAssoc, spOpened, spWake>>

\* The new flow's first datagram is registered if its record is still there.
SpRegisterNew(m) ==
    IF m \in spTracked THEN SpRegister(m, 0) ELSE UNCHANGED <<spAge, spQueries>>

\* Mutant: the reading half is not told of the new association.
MutantSpHandshake(m) ==
    /\ spOutcome = "open" /\ m \in spOpening
    /\ spAssoc' = [spAssoc EXCEPT ![m[1]] = [id |-> spOpened + 1, peers |-> {m[2]}]]
    /\ spOpened' = spOpened + 1
    /\ SpRegisterNew(m)
    /\ spOpening' = {}
    /\ UNCHANGED <<spTracked, spSent, spOutcome, spRead, spNet, spWake>>

\* The server grants the association, and the datagram is sent.
SpHandshake(m) ==
    /\ spOutcome = "open" /\ m \in spOpening
    /\ spAssoc' = [spAssoc EXCEPT ![m[1]] = [id |-> spOpened + 1, peers |-> {m[2]}]]
    /\ spOpened' = spOpened + 1
    /\ spWake' = TRUE
    /\ SpRegisterNew(m)
    /\ spOpening' = {}
    /\ UNCHANGED <<spTracked, spSent, spOutcome, spRead, spNet>>

\* The server cannot be reached, breaks the protocol or refuses.
SpHandshakeFails(m) ==
    /\ spOutcome = "open" /\ m \in spOpening
    /\ spOpening' = {}
    /\ UNCHANGED <<spTracked, spAge, spQueries, spSent, spOutcome, spRead, spNet,
                   spAssoc, spOpened, spWake>>

\* The server rejects the credentials: every association is dropped.
SpRejected(m) ==
    /\ spOutcome = "open" /\ m \in spOpening
    /\ spAssoc' = [s \in SpSource |-> SpNone]
    /\ spOpening' = {}
    /\ UNCHANGED <<spTracked, spAge, spQueries, spSent, spOutcome, spRead, spNet,
                   spOpened, spWake>>

-----------------------------------------------------------------------------
(* DatagramSource::read and RightPipe::exchange                            *)

\* poll_events: the associations present now are watched.
SpPoll(assoc) ==
    /\ spSnapshot' = {<<s, assoc[s].id>> : s \in {t \in SpSource : assoc[t].id # 0}}
    /\ spRight' = "polling"
    /\ spReading' = {}

SpRightStarts ==
    /\ spOutcome = "open" /\ spRight = "restarting" /\ spClosures = {}
    /\ SpPoll(spAssoc)
    /\ UNCHANGED <<spLeft, spClosures, spNet, spAssoc, spOpened, spWake>>

SpRightWoken ==
    /\ spOutcome = "open" /\ spRight = "polling" /\ spWake
    /\ spWake' = FALSE
    /\ SpPoll(spAssoc)
    /\ UNCHANGED <<spLeft, spClosures, spNet, spAssoc, spOpened>>

\* A watched socket is readable, perhaps spuriously: the association its source
\* has now is received from, unless there is none.
SpRightReady(s) ==
    /\ spOutcome = "open" /\ spRight = "polling"
    /\ \E i \in SpId : <<s, i>> \in spSnapshot
    /\ IF SpOpen(s)
       THEN /\ spRight' = "receiving"
            /\ spReading' = {<<s, spAssoc[s].id>>}
            /\ spSnapshot' = {}
       ELSE SpPoll(spAssoc)
    /\ UNCHANGED <<spLeft, spClosures, spNet, spAssoc, spOpened, spWake>>

\* recv_from returns a datagram of some peer, which is written to the client.
SpRightReceives(s, i) ==
    /\ spOutcome = "open" /\ spRight = "receiving" /\ <<s, i>> \in spReading
    /\ spInbox[i] > 0
    /\ spInbox' = [spInbox EXCEPT ![i] = @ - 1]
    /\ spRight' = "replying"
    /\ \E p \in SpPeer : spReading' = {<<s, p>>}
    /\ UNCHANGED <<spLeft, spSnapshot, spClosures, spBroken, spRelayed, spAssoc,
                   spOpened, spWake>>

\* on_socket_error: the association its source has now is dropped and a closure
\* queued for every peer, with the peer first.
SpSocketError(s) ==
    /\ spAssoc' = [spAssoc EXCEPT ![s] = SpNone]
    /\ spClosures' = spClosures \union {<<p, s>> : p \in spAssoc[s].peers}

\* readable() or recv_from reports an error, or the packet cannot be parsed.
SpRightFails(s, i) ==
    /\ spOutcome = "open"
    /\ \/ spRight = "polling" /\ <<s, i>> \in spSnapshot
       \/ spRight = "receiving" /\ <<s, i>> \in spReading
    /\ spBroken[i]
    /\ SpSocketError(s)
    /\ spRight' = "restarting"
    /\ spSnapshot' = {} /\ spReading' = {}
    /\ UNCHANGED <<spLeft, spNet, spOpened, spWake>>

\* RightPipe forgets the flow recorded under the meta it is given.
SpClosed(m) == spTracked' = spTracked \ {m}

\* A queued closure is returned from read and handled by RightPipe.
SpRightCloses(m) ==
    /\ spOutcome = "open" /\ spRight = "restarting" /\ m \in spClosures
    /\ SpClosed(m)
    /\ spClosures' = spClosures \ {m}
    /\ UNCHANGED <<spAge, spQueries, spOpening, spSent, spOutcome, spRight,
                   spSnapshot, spReading, spNet, spAssoc, spOpened, spWake>>

\* on_connection_closed for each of the flows: an association goes with its
\* last peer.
SpConnectionClosed(assoc, flows) ==
    [s \in SpSource |->
        LET left == assoc[s].peers \ {m[2] : m \in {n \in flows : n[1] = s}} IN
        IF left = {} THEN SpNone ELSE [assoc[s] EXCEPT !.peers = left]]

\* The reply was written; the last one of a DNS flow closes it.
SpRightReplied(m) ==
    /\ spOutcome = "open" /\ spRight = "replying" /\ m \in spReading
    /\ LET left == IF spQueries[m] > 0 THEN spQueries[m] - 1 ELSE 0
           done == m \in spTracked /\ m[2] \in SpDns /\ left = 0
       IN  /\ IF m \in spTracked
              THEN /\ spAge' = [spAge EXCEPT ![m] = 0]
                   /\ spQueries' = [spQueries EXCEPT ![m] = left]
              ELSE UNCHANGED <<spAge, spQueries>>
           /\ spTracked' = IF done THEN spTracked \ {m} ELSE spTracked
           /\ spAssoc' = IF done THEN SpConnectionClosed(spAssoc, {m}) ELSE spAssoc
    /\ spRight' = "restarting" /\ spReading' = {}
    /\ UNCHANGED <<spOpening, spSent, spOutcome, spSnapshot, spClosures, spNet,
                   spOpened, spWake>>

-----------------------------------------------------------------------------
(* DuplexPipe::exchange                                                    *)

\* A quarter of the timeout has passed: both halves are cancelled wherever they
\* are, the handshake included, and the expired flows are closed.
SpTick ==
    /\ spOutcome = "open"
    /\ LET expired == {m \in spTracked : spAge[m] >= SpQuarters} IN
       /\ spTracked' = spTracked \ expired
       /\ spAssoc' = SpConnectionClosed(spAssoc, expired)
       /\ spAge' = [m \in SpFlow |-> IF m \in spTracked \ expired THEN spAge[m] + 1 ELSE 0]
       /\ spQueries' = [m \in SpFlow |-> IF m \in expired THEN 0 ELSE spQueries[m]]
    /\ spOpening' = {}
    /\ spRight' = "restarting"
    /\ spSnapshot' = {} /\ spReading' = {}
    /\ UNCHANGED <<spSent, spOutcome, spClosures, spNet, spOpened, spWake>>

-----------------------------------------------------------------------------
(* The SOCKS server and the client.                                        *)

SpLive(i) == \E s \in SpSource : spAssoc[s].id = i

SpServerRelays(i) ==
    /\ spOutcome = "open" /\ SpLive(i)
    /\ spRelayed < SpMaxReplies
    /\ spRelayed' = spRelayed + 1
    /\ spInbox' = [spInbox EXCEPT ![i] = @ + 1]
    /\ UNCHANGED <<spLeft, spRead, spBroken, spAssoc, spOpened, spWake>>

\* The socket fails, or the server sends a packet that cannot be parsed.
SpServerFails(i) ==
    /\ spOutcome = "open" /\ SpLive(i) /\ ~spBroken[i]
    /\ spBroken' = [spBroken EXCEPT ![i] = TRUE]
    /\ UNCHANGED <<spLeft, spRead, spInbox, spRelayed, spAssoc, spOpened, spWake>>

SpClientFails ==
    /\ spOutcome = "open"
    /\ spOpening = {} \/ spRight = "replying"
    /\ spOutcome' = "clientFailed"
    /\ UNCHANGED <<spTracked, spAge, spQueries, spOpening, spSent, spRead, spNet,
                   spAssoc, spOpened, spWake>>

SpEnded ==
    /\ spOutcome # "open"
    /\ UNCHANGED spVars

SpLeftStep ==
    \E m \in SpFlow :
        \/ SpLeftKnown(m) \/ SpLeftRefused(m) \/ SpLeftJoins(m) \/ SpLeftOpens(m)
        \/ SpHandshake(m) \/ SpHandshakeFails(m) \/ SpRejected(m)

SpRightStep ==
    \/ SpRightStarts \/ SpRightWoken \/ \E m \in spClosures : SpRightCloses(m)
    \/ \E s \in SpSource : SpRightReady(s)
    \/ \E s \in SpSource, i \in SpId : SpRightReceives(s, i) \/ SpRightFails(s, i)
    \/ \E m \in SpFlow : SpRightReplied(m)

SpNext ==
    \/ SpLeftStep \/ SpRightStep \/ SpTick
    \/ \E i \in SpId : SpServerRelays(i) \/ SpServerFails(i)
    \/ SpClientFails \/ SpEnded

SpSpec == SpInit /\ [][SpNext]_spVars

-----------------------------------------------------------------------------
(* Properties                                                              *)

\* The type invariant.
SpTypeOK ==
    /\ spTracked \subseteq SpFlow
    /\ spAge \in [SpFlow -> Nat] /\ spQueries \in [SpFlow -> Nat]
    /\ spAssoc \in [SpSource -> [id : {0} \union SpId, peers : SUBSET SpPeer]]
    /\ spOpened \in 0 .. SpMaxSent
    /\ spOpening \subseteq SpFlow
    /\ spRight \in {"restarting", "polling", "receiving", "replying"}
    /\ spSnapshot \subseteq SpSource \X SpId
    /\ spWake \in BOOLEAN
    /\ spReading \subseteq (SpSource \X SpId) \union SpFlow
    /\ spClosures \subseteq SpPeer \X SpSource
    /\ spInbox \in [SpId -> Nat] /\ spBroken \in [SpId -> BOOLEAN]
    /\ spSent \in 0 .. SpMaxSent /\ spRelayed \in 0 .. SpMaxReplies
    /\ spOutcome \in {"open", "notFound", "sendFailed", "clientFailed"}

\* The peers of every association are recorded flows, which the timer or a last
\* reply closes (socks5_forwarder.rs on_connection_closed).
SpHaveFlows ==
    \A s \in SpSource : \A p \in spAssoc[s].peers : <<s, p>> \in spTracked

\* Associations and flows stay in step.
\* No reply is slept through: while the right half is suspended in a poll every
\* open association is watched, or the wake channel holds a message.  No
\* association is left without peers.
\* A record never goes before the association it uses: the only step after
\* which an association has a peer without a record is the end of a handshake
\* during which the record of its flow was closed.
SpAssociationsInStep ==
    /\ [](\A s \in SpSource :
             SpOpen(s) =>
                 /\ spAssoc[s].peers # {}
                 /\ spRight = "polling" => spWake \/ <<s, spAssoc[s].id>> \in spSnapshot)
    /\ [][SpHaveFlows /\ ~SpHaveFlows' =>
             \E m \in spOpening : m \notin spTracked /\ SpOpen(m[1])']_spVars

\* A flow that joins the association of its source is new to it, as the code's
\* debug_assert says (socks5_forwarder.rs 88).
SpJoinAddsPeer ==
    [][\A m \in SpFlow :
          SpLeftJoins(m) => m[2] \notin spAssoc[m[1]].peers]_spVars
=============================================================================
