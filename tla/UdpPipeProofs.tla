--------------------------- MODULE UdpPipeProofs ----------------------------
(***************************************************************************)
(* Proofs about UdpPipe and SocksPipe, for every set of flows, every number*)
(* of datagrams and every timeout.                                         *)
(*                                                                         *)
(* That closing a plain DNS flow on its last reply loses no answer rests on *)
(* a count: pending_queries of a flow is never less than what its queries  *)
(* have become, so when the last one is answered there is nothing else.    *)
(*                                                                         *)
(* Over SOCKS the argument looks at what a step may do to one association  *)
(* and to the half that polls them, and needs the closures to name a peer  *)
(* first.                                                                  *)
(***************************************************************************)
EXTENDS UdpPipe, SocksPipe, TLAPS

-----------------------------------------------------------------------------
(* The operators of the multiplexer.                                       *)

\* Reversing a meta twice gives it back, so the flow closed for a reversed
\* meta is the flow itself and no other.
LEMMA ReversedTwice ==
    ASSUME NEW m \in Flow, NEW n \in Flow
    PROVE  n = Reversed(Reversed(m)) <=> n = m
<1>1. m = <<m[1], m[2]>>
    BY FlowAssumption, Zenon
<1> QED BY <1>1, Zenon DEF Reversed

\* Closing one flow drops its socket and no other.
LEMMA CloseOne ==
    ASSUME NEW m \in Flow, OnConnectionsClosed({Reversed(m)})
    PROVE  socket' = [n \in Flow |-> IF n = m THEN NoSocket ELSE socket[n]]
    BY ReversedTwice DEF OnConnectionsClosed

\* Closing a set of flows drops their sockets and no other.
LEMMA CloseMany ==
    ASSUME NEW S \in SUBSET Flow, OnConnectionsClosed({Reversed(m) : m \in S})
    PROVE  socket' = [n \in Flow |-> IF n \in S THEN NoSocket ELSE socket[n]]
<1>1. \A n \in Flow : (\E meta \in {Reversed(m) : m \in S} : n = Reversed(meta)) <=> n \in S
    BY ReversedTwice
<1> QED BY <1>1, Zenon DEF OnConnectionsClosed

\* What a poll waits for are flows with their sockets.
LEMMA PollType ==
    ASSUME NEW f \in [Flow -> 0 .. MaxDatagrams], PollEvents(f)
    PROVE  /\ snapshot' \subseteq Flow \X SocketId
           /\ \A m \in Flow : f[m] # NoSocket => <<m, f[m]>> \in snapshot'
    BY MaxDatagramsAssumption DEF PollEvents, NoSocket, SocketId

-----------------------------------------------------------------------------
(* Types.  At most one socket is created per datagram.                     *)

SocketsCounted == created <= datagrams

\* Every step keeps the types, and creates no socket without a datagram.
LEMMA TypeStep == TypeOK /\ SocketsCounted /\ [Next]_vars => (TypeOK /\ SocketsCounted)'
<1> SUFFICES ASSUME TypeOK, SocketsCounted, [Next]_vars
             PROVE  (TypeOK /\ SocketsCounted)'
    BY Zenon
<1> USE MaxDatagramsAssumption
<1>1. ASSUME NEW m \in Flow, LeftKnownFlow(m) PROVE (TypeOK /\ SocketsCounted)'
    <2>1. age' \in [Flow -> Nat] /\ queries' \in [Flow -> Nat]
        BY <1>1 DEF LeftKnownFlow, RegisterOutgoing, TypeOK
    <2>2. datagrams' \in 0 .. MaxDatagrams /\ created <= datagrams'
        BY <1>1 DEF LeftKnownFlow, TakeDatagram, TypeOK, SocketsCounted
    <2>3. sending' \subseteq Flow \X SocketId
        BY <1>1 DEF LeftKnownFlow, TypeOK, NoSocket, SocketId
    <2>4. outcome' \in {"open", "notFound", "sendFailed", "clientFailed"}
        BY <1>1, Zenon DEF LeftKnownFlow, TypeOK
    <2> QED BY <1>1, <2>1, <2>2, <2>3, <2>4, Zenon
            DEF LeftKnownFlow, forwarderVars, TypeOK, SocketsCounted
<1>2. ASSUME NEW m \in Flow, LeftNewFlow(m) PROVE (TypeOK /\ SocketsCounted)'
    <2>1. /\ datagrams' \in 0 .. MaxDatagrams /\ created' <= datagrams'
          /\ created' = created + 1 /\ created + 1 \in 1 .. MaxDatagrams
        BY <1>2 DEF LeftNewFlow, TakeDatagram, OnNewUdpConnection, TypeOK, SocketsCounted
    <2>2. age' \in [Flow -> Nat] /\ queries' \in [Flow -> Nat]
        BY <1>2 DEF LeftNewFlow, RegisterOutgoing, TypeOK
    <2>3. socket' \in [Flow -> 0 .. MaxDatagrams] /\ beingListened' \in [Flow -> BOOLEAN]
        BY <1>2, <2>1 DEF LeftNewFlow, OnNewUdpConnection, TypeOK
    <2>4. sending' = {<<m, created + 1>>} /\ tracked' = tracked \union {m}
        BY <1>2, Zenon DEF LeftNewFlow
    <2>5. created + 1 \in SocketId
        BY <2>1, Zenon DEF SocketId
    <2>6. sending' \subseteq Flow \X SocketId
        BY <2>4, <2>5
    <2>7. tracked' \subseteq Flow
        BY <2>4, Zenon DEF TypeOK
    <2> QED BY <1>2, <2>1, <2>2, <2>3, <2>6, <2>7 DEF LeftNewFlow, TypeOK, SocketsCounted
<1>3. ASSUME NEW m \in Flow, LeftRefusedFlow(m) PROVE (TypeOK /\ SocketsCounted)'
    BY <1>3 DEF LeftRefusedFlow, TakeDatagram, forwarderVars, TypeOK, SocketsCounted
<1>4. ASSUME NEW m \in Flow, NEW s \in SocketId, LeftSends(m, s)
      PROVE (TypeOK /\ SocketsCounted)'
    <2>1. CASE broken[s]
        BY <1>4, <2>1, Zenon DEF LeftSends, TypeOK, SocketsCounted
    <2>2. CASE ~broken[s]
        <3>1. /\ asked' \in [SocketId -> Nat] /\ sending' = {} /\ outcome' = outcome
              /\ WakeListener(m)
            BY <1>4, <2>2 DEF LeftSends, TypeOK
        <3>2. wake' \in BOOLEAN /\ beingListened' \in [Flow -> BOOLEAN]
            BY <3>1, Zenon DEF WakeListener, TypeOK
        <3> QED BY <1>4, <3>1, <3>2, Zenon DEF LeftSends, TypeOK, SocketsCounted
    <2> QED BY <2>1, <2>2, Zenon
<1>5. CASE RightStarts
    <2>1. snapshot' \subseteq Flow \X SocketId
        BY <1>5, PollType, Zenon DEF RightStarts, TypeOK
    <2> QED BY <1>5, <2>1, Zenon DEF RightStarts, TypeOK, SocketsCounted
<1>6. CASE RightWoken
    <2>1. snapshot' \subseteq Flow \X SocketId
        BY <1>6, PollType, Zenon DEF RightWoken, TypeOK
    <2> QED BY <1>6, <2>1, Zenon DEF RightWoken, pipeVars, TypeOK, SocketsCounted
<1>7. ASSUME NEW m \in Flow, RightReads(m) PROVE (TypeOK /\ SocketsCounted)'
    <2>1. socket[m] \in SocketId
        BY <1>7 DEF RightReads, TypeOK, NoSocket, SocketId
    <2>2. inbox' \in [SocketId -> Nat]
        BY <1>7, <2>1 DEF RightReads, TypeOK
    <2> QED BY <1>7, <2>2, Zenon DEF RightReads, TypeOK, SocketsCounted
<1>8. ASSUME NEW m \in Flow, RightSocketError(m) PROVE (TypeOK /\ SocketsCounted)'
    <2>1. socket' = [n \in Flow |-> IF n = m THEN NoSocket ELSE socket[n]]
        BY <1>8, CloseOne, Zenon DEF RightSocketError
    <2>2. socket' \in [Flow -> 0 .. MaxDatagrams]
        BY <2>1 DEF NoSocket, TypeOK
    <2>3. snapshot' \subseteq Flow \X SocketId
        BY <1>8, <2>2, PollType, Zenon DEF RightSocketError
    <2> QED BY <1>8, <2>2, <2>3, Zenon DEF RightSocketError, TypeOK, SocketsCounted
<1>9. ASSUME NEW m \in Flow, RightSpuriousRead(m) PROVE (TypeOK /\ SocketsCounted)'
    <2>1. snapshot' \subseteq Flow \X SocketId
        BY <1>9, PollType, Zenon DEF RightSpuriousRead, TypeOK
    <2> QED BY <1>9, <2>1, Zenon DEF RightSpuriousRead, pipeVars, TypeOK, SocketsCounted
<1>10. ASSUME NEW m \in Flow, RightReplied(m) PROVE (TypeOK /\ SocketsCounted)'
    <2>1. socket' \in [Flow -> 0 .. MaxDatagrams]
        <3>1. CASE LastReply(m)
            <4>1. socket' = [n \in Flow |-> IF n = m THEN NoSocket ELSE socket[n]]
                BY <1>10, <3>1, CloseOne, Zenon DEF RightReplied
            <4> QED BY <4>1 DEF NoSocket, TypeOK
        <3>2. CASE ~LastReply(m)
            BY <1>10, <3>2, Zenon DEF RightReplied, TypeOK
        <3> QED BY <3>1, <3>2, Zenon
    <2>2. snapshot' \subseteq Flow \X SocketId
        BY <1>10, <2>1, PollType, Zenon DEF RightReplied
    <2>3. age' \in [Flow -> Nat] /\ queries' \in [Flow -> Nat]
        BY <1>10 DEF RightReplied, QueriesLeft, TypeOK
    <2>4. tracked' \subseteq Flow
        BY <1>10, Zenon DEF RightReplied, TypeOK
    <2> QED BY <1>10, <2>1, <2>2, <2>3, <2>4, Zenon DEF RightReplied, TypeOK, SocketsCounted
<1>11. CASE OnTimerTick
    <2> DEFINE expired == {m \in tracked : age[m] >= Quarters}
    <2>1. /\ tracked' = tracked \ expired
          /\ OnConnectionsClosed({Reversed(m) : m \in expired})
          /\ age' = [m \in Flow |-> IF m \in tracked \ expired THEN age[m] + 1 ELSE 0]
          /\ queries' = [m \in Flow |-> IF m \in expired THEN 0 ELSE queries[m]]
        BY <1>11, Zenon DEF OnTimerTick
    <2>2. expired \in SUBSET Flow
        BY Zenon DEF TypeOK
    <2> HIDE DEF expired
    <2>3. socket' = [n \in Flow |-> IF n \in expired THEN NoSocket ELSE socket[n]]
        BY <2>1, <2>2, CloseMany, Zenon
    <2>4. socket' \in [Flow -> 0 .. MaxDatagrams]
        BY <2>3 DEF NoSocket, TypeOK
    <2>5. /\ age' \in [Flow -> Nat] /\ queries' \in [Flow -> Nat]
          /\ tracked' \subseteq Flow
        BY <2>1 DEF TypeOK
    <2> QED BY <1>11, <2>4, <2>5, Zenon DEF OnTimerTick, TypeOK, SocketsCounted
<1>12. CASE ClientFails
    BY <1>12, Zenon DEF ClientFails, forwarderVars, TypeOK, SocketsCounted
<1>13. ASSUME NEW s \in SocketId, TargetReplies(s) PROVE (TypeOK /\ SocketsCounted)'
    BY <1>13 DEF TargetReplies, TypeOK, SocketsCounted
<1>14. ASSUME NEW s \in SocketId, TargetUnreachable(s) PROVE (TypeOK /\ SocketsCounted)'
    BY <1>14 DEF TargetUnreachable, TypeOK, SocketsCounted
<1>15. CASE UNCHANGED vars
    BY <1>15, Zenon DEF vars, forwarderVars, pipeVars, TypeOK, SocketsCounted
<1> QED
    BY <1>1, <1>2, <1>3, <1>4, <1>5, <1>6, <1>7, <1>8, <1>9, <1>10, <1>11, <1>12,
       <1>13, <1>14, <1>15, Zenon
       DEF Next, LeftStep, RightStep, Closed

\* The types hold initially.
LEMMA TypeInit == Init => TypeOK /\ SocketsCounted
<1> SUFFICES ASSUME Init PROVE TypeOK /\ SocketsCounted
    BY Zenon
<1>1. 0 \in 0 .. MaxDatagrams
    BY MaxDatagramsAssumption
<1>2. /\ socket \in [Flow -> 0 .. MaxDatagrams] /\ created \in 0 .. MaxDatagrams
      /\ beingListened \in [Flow -> BOOLEAN] /\ snapshot = {} /\ wake \in BOOLEAN
      /\ inbox \in [SocketId -> Nat] /\ broken \in [SocketId -> BOOLEAN]
    BY <1>1, Zenon DEF Init, ForwarderInit, NoSocket
<1>3. /\ age \in [Flow -> Nat] /\ queries \in [Flow -> Nat] /\ asked \in [SocketId -> Nat]
      /\ unsolicited \in [SocketId -> Nat]
      /\ datagrams \in 0 .. MaxDatagrams /\ created = 0 /\ datagrams = 0
    BY <1>1, Zenon DEF Init, ForwarderInit
<1> QED BY <1>2, <1>3 DEF Init, TypeOK, SocketsCounted

\* At most one socket is created per datagram, and the types hold.
LEMMA TypeInvariant == Spec => [](TypeOK /\ SocketsCounted)
    BY TypeInit, TypeStep, PTL DEF Spec

\* The variables of the UDP pipe and the multiplexer always have their types;
\* in particular the count of pending queries never underflows.
THEOREM TypeCorrect == Spec => []TypeOK
    BY TypeInvariant, PTL

-----------------------------------------------------------------------------
(* The flow table of the pipe and the sockets of the multiplexer.          *)

FlowInv == NoLeakedSocket /\ RecordedFlowHasSocket

\* Forgetting one flow and closing it keeps table and sockets in step.
LEMMA ForgetOne ==
    ASSUME TypeOK, FlowInv, NEW m \in Flow,
           tracked' = tracked \ {m}, OnConnectionsClosed({Reversed(m)})
    PROVE  FlowInv'
<1>1. socket' = [n \in Flow |-> IF n = m THEN NoSocket ELSE socket[n]]
    BY CloseOne, Zenon
<1> QED BY <1>1, Zenon DEF FlowInv, NoLeakedSocket, RecordedFlowHasSocket, OpenFlows

\* Every step keeps the flow table and the sockets in step.
LEMMA FlowStep == TypeOK /\ FlowInv /\ [Next]_vars => FlowInv'
<1> SUFFICES ASSUME TypeOK, FlowInv, [Next]_vars PROVE FlowInv'
    BY Zenon
<1> USE DEF FlowInv
<1>1. ASSUME UNCHANGED <<socket, tracked>> PROVE FlowInv'
    BY <1>1, Zenon DEF NoLeakedSocket, RecordedFlowHasSocket, OpenFlows
<1>2. ASSUME NEW m \in Flow, LeftNewFlow(m) PROVE FlowInv'
    <2>1. /\ tracked' = tracked \union {m}
          /\ socket' = [socket EXCEPT ![m] = created + 1]
          /\ created + 1 # NoSocket
        BY <1>2 DEF LeftNewFlow, OnNewUdpConnection, TypeOK, NoSocket
    <2>2. OpenFlows' = OpenFlows \union {m}
        BY <2>1, Zenon DEF OpenFlows, TypeOK
    <2> QED BY <2>1, <2>2, Zenon DEF NoLeakedSocket, RecordedFlowHasSocket
<1>3. ASSUME NEW m \in Flow, LeftRefusedFlow(m) PROVE FlowInv'
    <2>1. /\ tracked' = tracked \union {m} /\ OpenFlows' = OpenFlows
          /\ m \in Refusable \/ m \in OpenFlows
        BY <1>3, Zenon DEF LeftRefusedFlow, forwarderVars, OpenFlows
    <2> QED BY <2>1, Zenon DEF NoLeakedSocket, RecordedFlowHasSocket
<1>4. ASSUME NEW m \in Flow, RightSocketError(m) PROVE FlowInv'
    BY <1>4, ForgetOne, Zenon DEF RightSocketError
<1>5. ASSUME NEW m \in Flow, RightReplied(m) PROVE FlowInv'
    <2>1. CASE LastReply(m)
        BY <1>5, <2>1, ForgetOne, Zenon DEF RightReplied
    <2>2. CASE ~LastReply(m)
        BY <1>1, <1>5, <2>2, Zenon DEF RightReplied
    <2> QED BY <2>1, <2>2, Zenon
<1>6. CASE OnTimerTick
    <2> DEFINE expired == {m \in tracked : age[m] >= Quarters}
    <2>1. /\ tracked' = tracked \ expired
          /\ OnConnectionsClosed({Reversed(m) : m \in expired})
        BY <1>6, Zenon DEF OnTimerTick
    <2>2. expired \in SUBSET Flow
        BY Zenon DEF TypeOK
    <2> HIDE DEF expired
    <2>3. socket' = [n \in Flow |-> IF n \in expired THEN NoSocket ELSE socket[n]]
        BY <2>1, <2>2, CloseMany, Zenon
    <2> QED BY <2>1, <2>3, Zenon DEF NoLeakedSocket, RecordedFlowHasSocket, OpenFlows
<1>7. ASSUME NEW m \in Flow,
             LeftKnownFlow(m) \/ RightReads(m) \/ RightSpuriousRead(m)
                \/ \E s \in SocketId : LeftSends(m, s)
      PROVE  FlowInv'
    BY <1>1, <1>7, Zenon DEF LeftKnownFlow, RightReads, RightSpuriousRead, LeftSends,
                      forwarderVars, pipeVars
<1>8. CASE \/ RightStarts \/ RightWoken \/ ClientFails \/ UNCHANGED vars
           \/ \E s \in SocketId : TargetReplies(s) \/ TargetUnreachable(s)
    BY <1>1, <1>8, Zenon DEF RightStarts, RightWoken, ClientFails, TargetReplies,
                      TargetUnreachable, vars, forwarderVars, pipeVars
<1> QED
    BY <1>2, <1>3, <1>4, <1>5, <1>6, <1>7, <1>8, Zenon DEF Next, LeftStep, RightStep, Closed

\* There are no flows initially.
LEMMA FlowInit == Init => FlowInv
    BY Zenon DEF Init, ForwarderInit, FlowInv, NoLeakedSocket, RecordedFlowHasSocket, OpenFlows

\* Table and sockets are always in step.
LEMMA FlowInvariant == Spec => []FlowInv
    BY TypeCorrect, FlowInit, FlowStep, PTL DEF Spec

\* No socket outlives the record of its flow, on any path that forgets a flow.
THEOREM NoSocketLeaks == Spec => []NoLeakedSocket
<1>1. FlowInv => NoLeakedSocket
    BY Zenon DEF FlowInv
<1> QED BY <1>1, FlowInvariant, PTL

\* A recorded flow the forwarder did not refuse has its socket.
THEOREM RecordsHaveSockets == Spec => []RecordedFlowHasSocket
<1>1. FlowInv => RecordedFlowHasSocket
    BY Zenon DEF FlowInv
<1> QED BY <1>1, FlowInvariant, PTL

\* The pipe ends with NotFound only for a flow the forwarder refused, and the
\* record of that flow is the cause.
THEOREM NotFoundIsRefusal == Spec => []NotFoundMeansRefused
<1>1. Init => NotFoundMeansRefused
    BY Zenon DEF Init, NotFoundMeansRefused
<1>2. FlowInv /\ TypeOK /\ NotFoundMeansRefused /\ [Next]_vars => NotFoundMeansRefused'
    <2> SUFFICES ASSUME FlowInv, TypeOK, NotFoundMeansRefused, [Next]_vars
                 PROVE  NotFoundMeansRefused'
        BY Zenon
    <2>1. ASSUME NEW m \in Flow, LeftKnownFlow(m) PROVE NotFoundMeansRefused'
        <3>1. m \in tracked /\ UNCHANGED <<socket, tracked>>
            BY <2>1, Zenon DEF LeftKnownFlow, forwarderVars
        <3>2. CASE socket[m] = NoSocket
            <4>1. m \in Refusable
                BY <3>1, <3>2, Zenon DEF FlowInv, RecordedFlowHasSocket, OpenFlows
            <4> QED BY <3>1, <3>2, <4>1, Zenon DEF NotFoundMeansRefused
        <3>3. CASE socket[m] # NoSocket
            BY <2>1, <3>3, Zenon DEF LeftKnownFlow, TakeDatagram, NotFoundMeansRefused
        <3> QED BY <3>2, <3>3, Zenon
    <2>2. CASE UNCHANGED vars
        BY <2>2, Zenon DEF vars, forwarderVars, pipeVars, NotFoundMeansRefused
    <2>3. ASSUME outcome' # "notFound" PROVE NotFoundMeansRefused'
        BY <2>3, Zenon DEF NotFoundMeansRefused
    <2> QED
        BY <2>1, <2>2, <2>3, Zenon DEF Next, LeftStep, RightStep, Closed, LeftNewFlow,
           LeftRefusedFlow, TakeDatagram, LeftSends, RightStarts, RightWoken, RightPicks,
           RightReads, RightSocketError, RightSpuriousRead, RightReplied, OnTimerTick,
           ClientFails, TargetReplies, TargetUnreachable, pipeVars
<1> QED BY <1>1, <1>2, FlowInvariant, TypeCorrect, PTL DEF Spec

-----------------------------------------------------------------------------
(* Wake-ups.                                                               *)

\* Every step keeps the replies from being slept through.
LEMMA ListenStep == TypeOK /\ ListenedOrWoken /\ [Next]_vars => ListenedOrWoken'
<1> SUFFICES ASSUME TypeOK, ListenedOrWoken, [Next]_vars PROVE ListenedOrWoken'
    BY Zenon
<1>1. ASSUME UNCHANGED <<socket, beingListened, snapshot, wake, right>>
      PROVE  ListenedOrWoken'
    BY <1>1, Zenon DEF ListenedOrWoken, OpenFlows
<1>2. ASSUME PollEvents(socket'), socket' \in [Flow -> 0 .. MaxDatagrams]
      PROVE  ListenedOrWoken'
    BY <1>2, PollType, Zenon DEF ListenedOrWoken, OpenFlows
<1>3. ASSUME NEW m \in Flow, LeftNewFlow(m) PROVE ListenedOrWoken'
    <2>1. /\ ~beingListened'[m] /\ UNCHANGED <<snapshot, wake, right>>
          /\ \A n \in Flow : n # m =>
                beingListened'[n] = beingListened[n] /\ socket'[n] = socket[n]
        BY <1>3, Zenon DEF LeftNewFlow, OnNewUdpConnection, TypeOK
    <2> QED BY <2>1, Zenon DEF ListenedOrWoken, OpenFlows
<1>4. ASSUME NEW m \in Flow, NEW s \in SocketId, LeftSends(m, s) PROVE ListenedOrWoken'
    <2>1. CASE WakeListener(m) /\ socket[m] # NoSocket /\ ~beingListened[m]
        BY <1>4, <2>1, Zenon DEF LeftSends, WakeListener, ListenedOrWoken, OpenFlows
    <2>2. CASE UNCHANGED <<wake, beingListened>>
        BY <1>1, <1>4, <2>2, Zenon DEF LeftSends
    <2> QED BY <1>4, <2>1, <2>2, Zenon DEF LeftSends, WakeListener
<1>5. CASE RightStarts \/ RightWoken \/ \E m \in Flow : RightSpuriousRead(m)
    <2>1. UNCHANGED socket /\ PollEvents(socket)
        BY <1>5, Zenon DEF RightStarts, RightWoken, RightSpuriousRead
    <2> QED BY <1>2, <2>1, Zenon DEF TypeOK
<1>6. ASSUME NEW m \in Flow, RightSocketError(m) \/ RightReplied(m) PROVE ListenedOrWoken'
    <2>1. PollEvents(socket')
        BY <1>6, Zenon DEF RightSocketError, RightReplied
    <2>2. UNCHANGED socket \/ OnConnectionsClosed({Reversed(m)})
        BY <1>6, Zenon DEF RightSocketError, RightReplied
    <2>3. socket' \in [Flow -> 0 .. MaxDatagrams]
        BY <2>2, CloseOne, MaxDatagramsAssumption, SMTT(30) DEF TypeOK, NoSocket
    <2> QED BY <1>2, <2>1, <2>3, Zenon
<1>7. CASE OnTimerTick \/ \E m \in Flow : RightReads(m)
    BY <1>7, Zenon DEF OnTimerTick, RightReads, ListenedOrWoken
<1>8. ASSUME NEW m \in Flow, LeftKnownFlow(m) \/ LeftRefusedFlow(m) PROVE ListenedOrWoken'
    BY <1>1, <1>8, Zenon DEF LeftKnownFlow, LeftRefusedFlow, forwarderVars
<1>9. CASE \/ ClientFails \/ UNCHANGED vars
           \/ \E s \in SocketId : TargetReplies(s) \/ TargetUnreachable(s)
    BY <1>1, <1>9, Zenon DEF ClientFails, TargetReplies, TargetUnreachable, vars,
                      forwarderVars, pipeVars
<1> QED
    BY <1>3, <1>4, <1>5, <1>6, <1>7, <1>8, <1>9, Zenon DEF Next, LeftStep, RightStep, Closed

\* A suspended poll never sleeps through a connection that was sent on.
THEOREM NoLostWakeup == Spec => []ListenedOrWoken
<1>1. Init => ListenedOrWoken
    BY Zenon DEF Init, ForwarderInit, ListenedOrWoken
<1> QED BY <1>1, ListenStep, TypeCorrect, PTL DEF Spec

-----------------------------------------------------------------------------
(* The sockets: numbered in the order they are created, each of one flow.  *)

SocketInv ==
    /\ \A s \in SocketId : s > created => asked[s] = 0 /\ inbox[s] = 0
    /\ \A m \in Flow : socket[m] <= created
    /\ \A m \in Flow, s \in SocketId : <<m, s>> \in snapshot \union sending => s <= created
    /\ \A m, n \in Flow : socket[m] # NoSocket /\ socket[m] = socket[n] => m = n
    /\ \A m, n \in Flow, s \in SocketId : <<n, s>> \in sending /\ socket[m] = s => m = n

\* While a reply is being written its flow stays open.
ReplyInv ==
    /\ right # "replying" => replying = {}
    /\ \A m \in replying : socket[m] # NoSocket

\* What the queries of flow m have become: datagrams being sent, unanswered,
\* queued in the socket, being written to the client.
Outstanding(m) ==
    asked[socket[m]] + inbox[socket[m]] + (IF m \in replying THEN 1 ELSE 0)
      + (IF <<m, socket[m]>> \in sending THEN 1 ELSE 0)

\* Each of them is counted in pending_queries.
QueriesCounted ==
    \A m \in PlainDns :
        socket[m] # NoSocket /\ unsolicited[socket[m]] = 0 => Outstanding(m) <= queries[m]

-----------------------------------------------------------------------------
(* Sockets.                                                                *)

\* A poll waits only for sockets that exist.
LEMMA PollKnown ==
    ASSUME NEW f \in [Flow -> 0 .. MaxDatagrams], PollEvents(f), NEW k \in Nat,
           \A m \in Flow : f[m] <= k
    PROVE  \A m \in Flow, s \in SocketId : <<m, s>> \in snapshot' => s <= k
    BY Zenon DEF PollEvents

\* Closing flows leaves the sockets of the others alone.
LEMMA ClosedOrKept ==
    ASSUME TypeOK, NEW S \in SUBSET Flow, OnConnectionsClosed({Reversed(m) : m \in S})
    PROVE  /\ socket' \in [Flow -> 0 .. MaxDatagrams]
           /\ \A n \in Flow : socket'[n] = IF n \in S THEN NoSocket ELSE socket[n]
<1>1. socket' = [n \in Flow |-> IF n \in S THEN NoSocket ELSE socket[n]]
    BY CloseMany, Zenon
<1> QED BY <1>1, MaxDatagramsAssumption DEF TypeOK, NoSocket

\* The same for one flow.
LEMMA ClosedOne ==
    ASSUME TypeOK, NEW m \in Flow, OnConnectionsClosed({Reversed(m)})
    PROVE  /\ socket' \in [Flow -> 0 .. MaxDatagrams]
           /\ \A n \in Flow : socket'[n] = IF n = m THEN NoSocket ELSE socket[n]
<1>1. socket' = [n \in Flow |-> IF n = m THEN NoSocket ELSE socket[n]]
    BY CloseOne, Zenon
<1> QED BY <1>1, MaxDatagramsAssumption DEF TypeOK, NoSocket

\* Steps that create no socket and only close some keep SocketInv, if the poll
\* waits for existing sockets and nothing new is being sent.
LEMMA SocketKept ==
    ASSUME TypeOK, SocketInv, created' = created,
           asked' = asked, inbox' = inbox, sending' \subseteq sending,
           \A n \in Flow : socket'[n] \in {NoSocket, socket[n]},
           \A m \in Flow, s \in SocketId : <<m, s>> \in snapshot' => s <= created
    PROVE  SocketInv'
<1>1. \A m \in Flow : socket'[m] <= created
    BY DEF SocketInv, NoSocket, TypeOK
<1>2. \A m, n \in Flow : socket'[m] # NoSocket /\ socket'[m] = socket'[n] => m = n
    BY Zenon DEF SocketInv
<1>3. \A m, n \in Flow, s \in SocketId : <<n, s>> \in sending' /\ socket'[m] = s => m = n
    BY DEF SocketInv, SocketId, NoSocket
<1>4. \A m \in Flow, s \in SocketId : <<m, s>> \in snapshot' \union sending' => s <= created
    BY Zenon DEF SocketInv
<1> QED BY <1>1, <1>2, <1>3, <1>4, Zenon DEF SocketInv

\* Every step keeps the sockets apart.
LEMMA SocketStep == TypeOK /\ SocketsCounted /\ SocketInv /\ [Next]_vars => SocketInv'
<1> SUFFICES ASSUME TypeOK, SocketsCounted, SocketInv, [Next]_vars PROVE SocketInv'
    BY Zenon
<1>a. \A m \in Flow, s \in SocketId : <<m, s>> \in snapshot => s <= created
    BY Zenon DEF SocketInv
<1>b. created \in Nat /\ socket \in [Flow -> 0 .. MaxDatagrams] /\ \A m \in Flow : socket[m] <= created
    BY MaxDatagramsAssumption DEF TypeOK, SocketInv
<1>1. ASSUME NEW m \in Flow, LeftKnownFlow(m) PROVE SocketInv'
    <2>1. sending' = {<<m, socket[m]>>} \/ sending' = sending
        BY <1>1, Zenon DEF LeftKnownFlow
    <2>2. UNCHANGED <<socket, created, snapshot, asked, inbox>>
        BY <1>1, Zenon DEF LeftKnownFlow, forwarderVars
    <2>3. \A n \in Flow, s \in SocketId : <<n, s>> \in sending' =>
             <<n, s>> \in sending \/ (n = m /\ s = socket[m])
        BY <2>1
    <2> QED BY <2>2, <2>3, <1>b DEF SocketInv, SocketId, NoSocket
<1>2. ASSUME NEW m \in Flow, LeftNewFlow(m) PROVE SocketInv'
    <2>1. /\ socket' = [socket EXCEPT ![m] = created + 1] /\ created' = created + 1
          /\ sending' = {<<m, created + 1>>} /\ UNCHANGED <<snapshot, asked, inbox>>
        BY <1>2, Zenon DEF LeftNewFlow, OnNewUdpConnection
    <2>2. socket'[m] = created + 1 /\ \A n \in Flow : n # m => socket'[n] = socket[n]
        BY <2>1, Zenon DEF TypeOK
    <2>3. \A s \in SocketId : s > created' => asked'[s] = 0 /\ inbox'[s] = 0
        BY <2>1, <1>b DEF SocketInv, SocketId
    <2>4. \A n \in Flow : socket'[n] <= created'
        BY <2>1, <2>2, <1>b DEF TypeOK
    <2>5. \A n \in Flow, s \in SocketId : <<n, s>> \in snapshot' \union sending' => s <= created'
        BY <2>1, <1>a, <1>b DEF SocketId
    <2>6. \A k, n \in Flow : socket'[k] # NoSocket /\ socket'[k] = socket'[n] => k = n
        BY <2>2, <1>b DEF SocketInv, TypeOK
    <2>7. \A k, n \in Flow, s \in SocketId : <<n, s>> \in sending' /\ socket'[k] = s => k = n
        BY <2>1, <2>2, <1>b DEF TypeOK
    <2> QED BY <2>3, <2>4, <2>5, <2>6, <2>7, Zenon DEF SocketInv
<1>3. ASSUME NEW m \in Flow, LeftRefusedFlow(m) PROVE SocketInv'
    BY <1>3, <1>a, SocketKept, Zenon DEF LeftRefusedFlow, forwarderVars
<1>4. ASSUME NEW m \in Flow, NEW s \in SocketId, LeftSends(m, s) PROVE SocketInv'
    <2>1. UNCHANGED <<socket, created, snapshot, inbox>>
        BY <1>4, Zenon DEF LeftSends
    <2>2. CASE broken[s]
        BY <1>4, <2>1, <2>2, <1>a, SocketKept, Zenon DEF LeftSends
    <2>3. CASE ~broken[s]
        <3>1. sending' = {} /\ asked' = [asked EXCEPT ![s] = @ + 1] /\ s <= created
            BY <1>4, <2>3, Zenon DEF LeftSends, SocketInv
        <3>2. \A t \in SocketId : t > created => asked'[t] = asked[t]
            BY <3>1, <1>b DEF TypeOK, SocketId
        <3> QED BY <2>1, <3>1, <3>2, Zenon DEF SocketInv
    <2> QED BY <2>2, <2>3, Zenon
<1>5. CASE RightStarts \/ RightWoken \/ \E m \in Flow : RightSpuriousRead(m)
    <2>1. UNCHANGED <<socket, created, inbox, asked, sending>> /\ PollEvents(socket)
        BY <1>5, Zenon DEF RightStarts, RightWoken, RightSpuriousRead, pipeVars
    <2>2. \A m \in Flow, s \in SocketId : <<m, s>> \in snapshot' => s <= created
        BY <2>1, <1>b, PollKnown, Zenon
    <2> QED BY <2>1, <2>2, SocketKept, Zenon
<1>6. ASSUME NEW m \in Flow, RightReads(m) PROVE SocketInv'
    <2>1. /\ UNCHANGED <<socket, created, sending, asked>> /\ snapshot' = {}
          /\ socket[m] # NoSocket /\ inbox' = [inbox EXCEPT ![socket[m]] = @ - 1]
        BY <1>6, Zenon DEF RightReads
    <2>2. \A s \in SocketId : s > created => inbox'[s] = inbox[s]
        BY <2>1, <1>b DEF TypeOK, SocketId
    <2> QED BY <2>1, <2>2, Zenon DEF SocketInv
<1>7. ASSUME NEW m \in Flow, RightSocketError(m) \/ RightReplied(m) PROVE SocketInv'
    <2>1. UNCHANGED <<created, inbox, asked, sending>> /\ PollEvents(socket')
        BY <1>7, Zenon DEF RightSocketError, RightReplied
    <2>2. UNCHANGED socket \/ OnConnectionsClosed({Reversed(m)})
        BY <1>7, Zenon DEF RightSocketError, RightReplied
    <2>3. /\ socket' \in [Flow -> 0 .. MaxDatagrams]
          /\ \A n \in Flow : socket'[n] \in {NoSocket, socket[n]}
        BY <2>2, ClosedOne, Zenon DEF TypeOK
    <2>4. \A n \in Flow : socket'[n] <= created
        BY <2>3, <1>b DEF NoSocket
    <2>5. \A n \in Flow, s \in SocketId : <<n, s>> \in snapshot' => s <= created
        BY <2>1, <2>3, <2>4, <1>b, PollKnown, Zenon
    <2> QED BY <2>1, <2>3, <2>5, SocketKept, Zenon
<1>8. CASE OnTimerTick
    <2> DEFINE expired == {m \in tracked : age[m] >= Quarters}
    <2>1. /\ OnConnectionsClosed({Reversed(m) : m \in expired})
          /\ UNCHANGED <<created, inbox, asked>> /\ snapshot' = {} /\ sending' = {}
        BY <1>8, Zenon DEF OnTimerTick
    <2>2. expired \in SUBSET Flow
        BY Zenon DEF TypeOK
    <2> HIDE DEF expired
    <2>3. \A n \in Flow : socket'[n] \in {NoSocket, socket[n]}
        BY <2>1, <2>2, ClosedOrKept, Zenon
    <2> QED BY <2>1, <2>3, SocketKept, Zenon
<1>9. ASSUME NEW s \in SocketId, TargetReplies(s) \/ TargetUnreachable(s) PROVE SocketInv'
    <2>1. UNCHANGED <<socket, created, snapshot, sending>>
        BY <1>9, Zenon DEF TargetReplies, TargetUnreachable
    <2>2. s <= created
        <3>1. PICK m \in Flow : socket[m] = s \/ <<m, s>> \in snapshot
            BY <1>9, Zenon DEF TargetReplies, TargetUnreachable, Live
        <3> QED BY <3>1, <1>a, <1>b, Zenon
    <2>3. \A t \in SocketId : t # s => asked'[t] = asked[t] /\ inbox'[t] = inbox[t]
        BY <1>9, Zenon DEF TargetReplies, TargetUnreachable, TypeOK
    <2>4. \A t \in SocketId : t > created => asked'[t] = 0 /\ inbox'[t] = 0
        BY <2>2, <2>3, <1>b DEF SocketInv, SocketId
    <2> QED BY <2>1, <2>4, Zenon DEF SocketInv
<1>10. CASE ClientFails \/ UNCHANGED vars
    BY <1>10, <1>a, SocketKept, Zenon DEF ClientFails, vars, forwarderVars, pipeVars
<1> QED
    BY <1>1, <1>2, <1>3, <1>4, <1>5, <1>6, <1>7, <1>8, <1>9, <1>10, Zenon
       DEF Next, LeftStep, RightStep, Closed

-----------------------------------------------------------------------------
(* Replies.                                                                *)

\* Every step keeps the flow of a reply open until the reply is written.
LEMMA ReplyStep == TypeOK /\ ReplyInv /\ [Next]_vars => ReplyInv'
<1> SUFFICES ASSUME TypeOK, ReplyInv, [Next]_vars PROVE ReplyInv'
    BY Zenon
<1>1. ASSUME UNCHANGED <<right, replying, socket>> PROVE ReplyInv'
    BY <1>1, Zenon DEF ReplyInv
<1>2. ASSUME replying' = {} PROVE ReplyInv'
    BY <1>2, Zenon DEF ReplyInv
<1>3. ASSUME NEW m \in Flow, LeftNewFlow(m) PROVE ReplyInv'
    <2>1. /\ socket' = [socket EXCEPT ![m] = created + 1] /\ UNCHANGED <<right, replying>>
          /\ created + 1 # NoSocket
        BY <1>3 DEF LeftNewFlow, OnNewUdpConnection, TypeOK, NoSocket
    <2> QED BY <2>1, Zenon DEF ReplyInv, TypeOK
<1>4. ASSUME NEW m \in Flow, RightReads(m) PROVE ReplyInv'
    BY <1>4, Zenon DEF RightReads, ReplyInv
<1>5. CASE RightStarts \/ \E m \in Flow : RightSocketError(m)
    <2>1. right # "replying" /\ UNCHANGED replying
        BY <1>5, Zenon DEF RightStarts, RightSocketError, RightPicks
    <2> QED BY <1>2, <2>1, Zenon DEF ReplyInv
<1>6. CASE OnTimerTick \/ \E m \in Flow : RightReplied(m)
    BY <1>2, <1>6, Zenon DEF OnTimerTick, RightReplied
<1>7. ASSUME NEW m \in Flow,
             LeftKnownFlow(m) \/ LeftRefusedFlow(m) \/ RightSpuriousRead(m)
                \/ \E s \in SocketId : LeftSends(m, s)
      PROVE  ReplyInv'
    BY <1>1, <1>7, Zenon DEF LeftKnownFlow, LeftRefusedFlow, RightSpuriousRead, LeftSends,
                             forwarderVars, pipeVars
<1>8. CASE \/ RightWoken \/ ClientFails \/ UNCHANGED vars
           \/ \E s \in SocketId : TargetReplies(s) \/ TargetUnreachable(s)
    BY <1>1, <1>8, Zenon DEF RightWoken, ClientFails, TargetReplies, TargetUnreachable, vars,
                      forwarderVars, pipeVars
<1> QED
    BY <1>3, <1>4, <1>5, <1>6, <1>7, <1>8, Zenon DEF Next, LeftStep, RightStep, Closed

-----------------------------------------------------------------------------
(* Queries.                                                                *)

DnsInv == TypeOK /\ SocketsCounted /\ FlowInv /\ SocketInv /\ ReplyInv

\* One flow whose counters are left alone stays counted.
LEMMA CountKept ==
    ASSUME DnsInv, QueriesCounted, NEW n \in PlainDns, socket'[n] # NoSocket,
           socket'[n] = socket[n], unsolicited'[socket[n]] = 0 => unsolicited[socket[n]] = 0,
           asked'[socket[n]] = asked[socket[n]], inbox'[socket[n]] = inbox[socket[n]],
           n \in replying' => n \in replying,
           <<n, socket[n]>> \in sending' => <<n, socket[n]>> \in sending,
           queries'[n] >= queries[n], queries'[n] \in Nat,
           unsolicited'[socket'[n]] = 0
    PROVE  (Outstanding(n) <= queries[n])'
<1>1. n \in Flow /\ socket[n] \in SocketId
    BY PlainDnsAssumption DEF DnsInv, TypeOK, NoSocket, SocketId
<1>2. Outstanding(n) <= queries[n]
    BY <1>1, Zenon DEF QueriesCounted
<1>3. /\ asked[socket[n]] \in Nat /\ inbox[socket[n]] \in Nat /\ queries[n] \in Nat
    BY <1>1, Zenon DEF DnsInv, TypeOK
<1> QED BY <1>2, <1>3 DEF Outstanding

\* Every step keeps the queries counted.
LEMMA QueriesStep == DnsInv /\ QueriesCounted /\ [Next]_vars => QueriesCounted'
<1> SUFFICES ASSUME DnsInv, QueriesCounted, [Next]_vars,
                    NEW n \in PlainDns, socket'[n] # NoSocket, unsolicited'[socket'[n]] = 0
             PROVE  (Outstanding(n) <= queries[n])'
    BY Zenon DEF QueriesCounted
<1> DEFINE t == socket[n]
<1>t. TypeOK /\ SocketsCounted /\ FlowInv /\ SocketInv /\ ReplyInv /\ n \in Flow /\ queries[n] \in Nat
    BY PlainDnsAssumption, Zenon DEF DnsInv, TypeOK
<1>u. t # NoSocket => t \in SocketId /\ asked[t] \in Nat /\ inbox[t] \in Nat
    BY <1>t DEF TypeOK, NoSocket, SocketId
<1>v. t # NoSocket /\ unsolicited[t] = 0 => Outstanding(n) <= queries[n]
    BY Zenon DEF QueriesCounted
<1>w. \A m \in Flow : socket[m] # NoSocket /\ socket[m] = t => m = n
    BY <1>t, Zenon DEF SocketInv
<1> HIDE DEF t
<1>0. ASSUME UNCHANGED <<socket, asked, inbox, queries, unsolicited>>,
             replying' \subseteq replying, sending' \subseteq sending
      PROVE  (Outstanding(n) <= queries[n])'
    BY <1>0, <1>t, CountKept DEF Outstanding
<1>1. ASSUME NEW m \in Flow, LeftKnownFlow(m) PROVE (Outstanding(n) <= queries[n])'
    <2>1. UNCHANGED <<socket, asked, inbox, unsolicited, replying>> /\ sending = {}
        BY <1>1, Zenon DEF LeftKnownFlow, TakeDatagram, forwarderVars
    <2>2. queries' = [queries EXCEPT ![m] = IF m \in PlainDns THEN queries[m] + 1 ELSE 0]
        BY <1>1, Zenon DEF LeftKnownFlow, RegisterOutgoing
    <2>3. sending' = {<<m, socket[m]>>} \/ sending' = sending
        BY <1>1, Zenon DEF LeftKnownFlow
    <2>4. CASE m = n
        <3>1. queries'[n] = queries[n] + 1
            BY <2>2, <2>4, <1>t, Zenon DEF TypeOK
        <3> QED BY <2>1, <3>1, <1>t, <1>u, <1>v DEF Outstanding, t
    <2>5. CASE m # n
        <3>1. queries'[n] = queries[n]
            BY <2>2, <2>5, <1>t, Zenon DEF TypeOK
        <3>2. <<n, socket[n]>> \notin sending'
            BY <2>1, <2>3, <2>5
        <3> QED BY <2>1, <3>1, <3>2, <1>t, CountKept DEF Outstanding
    <2> QED BY <2>4, <2>5, Zenon
<1>2. ASSUME NEW m \in Flow, LeftNewFlow(m) PROVE (Outstanding(n) <= queries[n])'
    <2>1. /\ socket' = [socket EXCEPT ![m] = created + 1] /\ sending' = {<<m, created + 1>>}
          /\ UNCHANGED <<asked, inbox, unsolicited, replying>> /\ socket[m] = NoSocket
          /\ queries' = [queries EXCEPT ![m] = IF m \in PlainDns THEN 0 + 1 ELSE 0]
        BY <1>2, Zenon DEF LeftNewFlow, OnNewUdpConnection, RegisterOutgoing
    <2>2. CASE m = n
        <3>1. socket'[n] = created + 1 /\ queries'[n] = 1
            BY <2>1, <2>2, <1>t DEF TypeOK
        <3>2. created + 1 \in SocketId
            BY <1>2, <1>t, MaxDatagramsAssumption
               DEF LeftNewFlow, TakeDatagram, TypeOK, SocketsCounted, SocketId
        <3>3. asked[created + 1] = 0 /\ inbox[created + 1] = 0
            BY <3>2, <1>t DEF SocketInv, SocketId, TypeOK
        <3>4. n \notin replying
            BY <2>1, <2>2, <1>t, Zenon DEF ReplyInv
        <3> QED BY <2>1, <3>1, <3>3, <3>4 DEF Outstanding
    <2>3. CASE m # n
        <3>1. socket'[n] = socket[n] /\ queries'[n] = queries[n]
            BY <2>1, <2>3, <1>t, Zenon DEF TypeOK
        <3>2. <<n, socket[n]>> \notin sending'
            BY <2>1, <2>3, Zenon
        <3>3. UNCHANGED <<asked, inbox, unsolicited, replying>>
            BY <2>1, Zenon
        <3> QED BY <3>1, <3>2, <3>3, <1>t, <1>u, <1>v DEF Outstanding, t
    <2> QED BY <2>2, <2>3, Zenon
<1>3. ASSUME NEW m \in Flow, LeftRefusedFlow(m) PROVE (Outstanding(n) <= queries[n])'
    <2>1. /\ UNCHANGED <<socket, asked, inbox, unsolicited, replying, sending>>
          /\ m \notin tracked /\ queries' = [queries EXCEPT ![m] = 0]
        BY <1>3, Zenon DEF LeftRefusedFlow, forwarderVars
    <2>2. m # n
        BY <2>1, <1>t, Zenon DEF FlowInv, NoLeakedSocket, OpenFlows
    <2>3. queries'[n] = queries[n]
        BY <2>1, <2>2, <1>t, Zenon DEF TypeOK
    <2> QED BY <2>1, <2>3, <1>t, CountKept DEF Outstanding
<1>4. ASSUME NEW m \in Flow, NEW s \in SocketId, LeftSends(m, s)
      PROVE  (Outstanding(n) <= queries[n])'
    <2>1. UNCHANGED <<socket, inbox, queries, unsolicited, replying>> /\ <<m, s>> \in sending
        BY <1>4, Zenon DEF LeftSends
    <2>2. CASE broken[s]
        BY <1>4, <2>1, <2>2, <1>0, Zenon DEF LeftSends
    <2>3. CASE ~broken[s]
        <3>1. sending' = {} /\ asked' = [asked EXCEPT ![s] = @ + 1]
            BY <1>4, <2>3, Zenon DEF LeftSends
        <3>2. CASE s = t
            <4>1. m = n
                BY <2>1, <3>2, <1>t, Zenon DEF SocketInv, t
            <4>2. asked'[t] = asked[t] + 1 /\ <<n, t>> \in sending
                BY <2>1, <3>1, <3>2, <4>1, <1>t, Zenon DEF TypeOK
            <4> QED BY <2>1, <3>1, <4>2, <1>t, <1>u, <1>v DEF Outstanding, t
        <3>3. CASE s # t
            <4>1. asked'[t] = asked[t]
                BY <2>1, <3>1, <3>3, <1>t, <1>u, Zenon DEF TypeOK, t
            <4> QED BY <2>1, <3>1, <4>1, <1>t, CountKept DEF Outstanding, t
        <3> QED BY <3>2, <3>3, Zenon
    <2> QED BY <2>2, <2>3, Zenon
<1>5. ASSUME NEW m \in Flow, RightReads(m) PROVE (Outstanding(n) <= queries[n])'
    <2>1. /\ UNCHANGED <<socket, asked, queries, unsolicited, sending>> /\ replying' = {m}
          /\ socket[m] # NoSocket /\ inbox[socket[m]] > 0
          /\ inbox' = [inbox EXCEPT ![socket[m]] = @ - 1]
        BY <1>5, Zenon DEF RightReads
    <2>2. CASE m = n
        <3>1. inbox'[t] = inbox[t] - 1 /\ inbox[t] > 0
            BY <2>1, <2>2, <1>t, <1>u, Zenon DEF TypeOK, t
        <3> QED BY <2>1, <3>1, <1>t, <1>u, <1>v DEF Outstanding, t
    <2>3. CASE m # n
        <3>1. inbox'[t] = inbox[t] /\ n \notin replying'
            BY <2>1, <2>3, <1>t, <1>u, <1>w, Zenon DEF TypeOK, t
        <3> QED BY <2>1, <3>1, <1>t, CountKept DEF Outstanding, t
    <2> QED BY <2>2, <2>3, Zenon
<1>6. ASSUME NEW m \in Flow, RightSocketError(m) PROVE (Outstanding(n) <= queries[n])'
    <2>1. /\ UNCHANGED <<asked, inbox, queries, unsolicited, replying, sending>>
          /\ OnConnectionsClosed({Reversed(m)})
        BY <1>6, Zenon DEF RightSocketError
    <2>2. socket'[n] = socket[n]
        BY <2>1, <1>t, ClosedOne, Zenon
    <2> QED BY <2>1, <2>2, <1>t, CountKept DEF Outstanding
<1>7. ASSUME NEW m \in Flow, RightReplied(m) PROVE (Outstanding(n) <= queries[n])'
    <2>1. UNCHANGED <<asked, inbox, unsolicited, sending>> /\ replying' = {} /\ m \in replying
        BY <1>7, Zenon DEF RightReplied
    <2>2. socket' = socket \/ OnConnectionsClosed({Reversed(m)})
        BY <1>7, Zenon DEF RightReplied
    <2>3. socket'[n] = socket[n]
        BY <2>2, <1>t, ClosedOne, Zenon
    <2>4. CASE m = n
        <3>1. n \in tracked
            BY <2>3, <1>t, Zenon DEF FlowInv, NoLeakedSocket, OpenFlows
        <3>2. queries'[n] = QueriesLeft(n)
            BY <1>7, <2>4, <3>1, <1>t, Zenon DEF RightReplied, TypeOK
        <3> QED BY <2>1, <2>3, <2>4, <3>2, <1>t, <1>u, <1>v DEF Outstanding, QueriesLeft, t
    <2>5. CASE m # n
        <3>1. queries'[n] = queries[n]
            BY <1>7, <2>5, <1>t, Zenon DEF RightReplied, TypeOK
        <3> QED BY <2>1, <2>3, <3>1, <1>t, CountKept DEF Outstanding
    <2> QED BY <2>4, <2>5, Zenon
<1>8. CASE OnTimerTick
    <2> DEFINE expired == {m \in tracked : age[m] >= Quarters}
    <2>1. /\ OnConnectionsClosed({Reversed(m) : m \in expired})
          /\ queries' = [m \in Flow |-> IF m \in expired THEN 0 ELSE queries[m]]
          /\ UNCHANGED <<inbox, asked, unsolicited>> /\ replying' = {} /\ sending' = {}
        BY <1>8, Zenon DEF OnTimerTick
    <2>2. expired \in SUBSET Flow
        BY <1>t, Zenon DEF TypeOK
    <2> HIDE DEF expired
    <2>3. n \notin expired /\ socket'[n] = socket[n]
        BY <2>1, <2>2, <1>t, ClosedOrKept, Zenon
    <2>4. queries'[n] = queries[n]
        BY <2>1, <2>3, <1>t, Zenon
    <2> QED BY <2>1, <2>3, <2>4, <1>t, CountKept DEF Outstanding
<1>9. ASSUME NEW s \in SocketId, TargetReplies(s) PROVE (Outstanding(n) <= queries[n])'
    <2>1. UNCHANGED <<socket, queries, replying, sending>>
        BY <1>9, Zenon DEF TargetReplies
    <2>2. inbox' = [inbox EXCEPT ![s] = @ + 1]
        BY <1>9, Zenon DEF TargetReplies
    <2>3. CASE asked[s] > 0 /\ asked' = [asked EXCEPT ![s] = @ - 1] /\ UNCHANGED unsolicited
        <3>1. CASE s = t
            <4>1. asked'[t] = asked[t] - 1 /\ inbox'[t] = inbox[t] + 1 /\ asked[t] > 0
                BY <2>2, <2>3, <3>1, <1>t, Zenon DEF TypeOK
            <4> QED BY <2>1, <2>3, <4>1, <1>t, <1>u, <1>v DEF Outstanding, t
        <3>2. CASE s # t
            <4>1. asked'[t] = asked[t] /\ inbox'[t] = inbox[t]
                BY <2>1, <2>2, <2>3, <3>2, <1>t, <1>u, Zenon DEF TypeOK, t
            <4> QED BY <2>1, <2>3, <4>1, <1>t, CountKept DEF Outstanding, t
        <3> QED BY <3>1, <3>2, Zenon
    <2>4. CASE unsolicited' = [unsolicited EXCEPT ![s] = @ + 1] /\ UNCHANGED asked
        <3>1. s # t
            BY <2>1, <2>4, <1>t, <1>u DEF TypeOK, t
        <3>2. unsolicited'[t] = unsolicited[t] /\ inbox'[t] = inbox[t]
            BY <2>1, <2>2, <2>4, <3>1, <1>t, <1>u, Zenon DEF TypeOK, t
        <3> QED BY <2>1, <2>4, <3>2, <1>t, CountKept DEF Outstanding, t
    <2> QED BY <1>9, <2>3, <2>4, Zenon DEF TargetReplies
<1>10. ASSUME NEW s \in SocketId, TargetUnreachable(s) PROVE (Outstanding(n) <= queries[n])'
    <2>1. /\ UNCHANGED <<socket, inbox, queries, unsolicited, replying, sending>>
          /\ asked[s] > 0 /\ asked' = [asked EXCEPT ![s] = @ - 1]
        BY <1>10, Zenon DEF TargetUnreachable
    <2>2. asked'[t] = asked[t] \/ (asked'[t] = asked[t] - 1 /\ asked[t] > 0)
        BY <2>1, <1>t, <1>u, Zenon DEF TypeOK, t
    <2> QED BY <2>1, <2>2, <1>t, <1>u, <1>v DEF Outstanding, t
<1>11. CASE \/ RightStarts \/ RightWoken \/ ClientFails \/ UNCHANGED vars
            \/ \E m \in Flow : RightSpuriousRead(m)
    BY <1>0, <1>11, Zenon DEF RightStarts, RightWoken, RightSpuriousRead, ClientFails, vars,
                       forwarderVars, pipeVars
<1> QED
    BY <1>1, <1>2, <1>3, <1>4, <1>5, <1>6, <1>7, <1>8, <1>9, <1>10, <1>11, Zenon
       DEF Next, LeftStep, RightStep, Closed

\* The invariant holds initially, when there are no sockets.
LEMMA DnsInit == Init => DnsInv /\ QueriesCounted
<1> SUFFICES ASSUME Init PROVE DnsInv /\ QueriesCounted
    BY Zenon
<1>1. TypeOK /\ SocketsCounted /\ FlowInv
    BY TypeInit, FlowInit, Zenon
<1>2. /\ socket = [m \in Flow |-> NoSocket] /\ created = 0 /\ snapshot = {} /\ sending = {}
      /\ replying = {} /\ asked = [s \in SocketId |-> 0] /\ inbox = [s \in SocketId |-> 0]
    BY Zenon DEF Init, ForwarderInit
<1>3. SocketInv
    BY <1>2 DEF SocketInv, NoSocket, SocketId
<1>4. ReplyInv
    BY <1>2, Zenon DEF ReplyInv
<1>5. QueriesCounted
    BY <1>2, PlainDnsAssumption, Zenon DEF QueriesCounted
<1> QED BY <1>1, <1>3, <1>4, <1>5, Zenon DEF DnsInv

\* pending_queries of a plain DNS flow always counts everything its queries
\* have become.
THEOREM QueriesAreCounted == Spec => [](DnsInv /\ QueriesCounted)
<1>1. DnsInv /\ QueriesCounted /\ [Next]_vars => (DnsInv /\ QueriesCounted)'
    BY TypeStep, FlowStep, SocketStep, ReplyStep, QueriesStep, Zenon DEF DnsInv
<1> QED BY <1>1, DnsInit, PTL DEF Spec

\* The step that closes a flow while its reply is being written is the end of
\* that write, with no query pending.
LEMMA ClosingStep ==
    ASSUME DnsInv, [Next]_vars, NEW m \in Flow, m \in replying, right' = "polling",
           socket[m] # NoSocket, socket'[m] = NoSocket
    PROVE  m \in PlainDns /\ queries[m] <= 1
<1>1. TypeOK /\ ReplyInv /\ right = "replying"
    BY Zenon DEF DnsInv, ReplyInv
<1>2. ~OnTimerTick /\ ~RightStarts /\ ~RightWoken
    BY <1>1, Zenon DEF OnTimerTick, RightStarts, RightWoken
<1>3. ~UNCHANGED socket
    BY Zenon
<1>4. \A n \in Flow : ~RightReads(n) /\ ~RightSocketError(n) /\ ~RightSpuriousRead(n)
    BY <1>1, Zenon DEF RightReads, RightSocketError, RightSpuriousRead, RightPicks
<1>5. \A n \in Flow : ~LeftNewFlow(n)
    BY <1>1, Zenon DEF LeftNewFlow, OnNewUdpConnection, TypeOK, NoSocket
<1>6. \A n \in Flow : ~LeftKnownFlow(n) /\ ~LeftRefusedFlow(n)
    BY <1>3, Zenon DEF LeftKnownFlow, LeftRefusedFlow, forwarderVars
<1>7. \A n \in Flow, s \in SocketId : ~LeftSends(n, s)
    BY <1>3, Zenon DEF LeftSends
<1>8. \A s \in SocketId : ~TargetReplies(s) /\ ~TargetUnreachable(s)
    BY <1>3, Zenon DEF TargetReplies, TargetUnreachable
<1>9. ~ClientFails /\ ~UNCHANGED vars
    BY <1>3, Zenon DEF ClientFails, vars, forwarderVars
<1>10. PICK n \in Flow : RightReplied(n)
    BY <1>2, <1>4, <1>5, <1>6, <1>7, <1>8, <1>9, Zenon DEF Next, LeftStep, RightStep, Closed
<1>11. LastReply(n) /\ OnConnectionsClosed({Reversed(n)})
    BY <1>3, <1>10, Zenon DEF RightReplied
<1>12. n = m
    BY <1>1, <1>11, ClosedOne, Zenon
<1> QED BY <1>1, <1>11, <1>12 DEF LastReply, QueriesLeft, TypeOK

\* Closing a plain DNS flow on its last reply loses no answer: nothing was sent
\* from its socket that is unanswered, and nothing is queued in it.
THEOREM EarlyCloseIsSafe == Spec => EarlyCloseLosesNothing
<1> DEFINE A == \A m \in Flow :
          m \in replying /\ right' = "polling"
              /\ socket[m] # NoSocket /\ socket'[m] = NoSocket
              /\ unsolicited[socket[m]] = 0
          => asked[socket[m]] = 0 /\ inbox[socket[m]] = 0
<1>1. DnsInv /\ QueriesCounted /\ [Next]_vars => A
    <2> SUFFICES ASSUME DnsInv, QueriesCounted, [Next]_vars, NEW m \in Flow, m \in replying,
                        right' = "polling", socket[m] # NoSocket, socket'[m] = NoSocket,
                        unsolicited[socket[m]] = 0
                 PROVE  asked[socket[m]] = 0 /\ inbox[socket[m]] = 0
        BY Zenon
    <2>1. m \in PlainDns /\ queries[m] <= 1
        BY ClosingStep, Zenon
    <2>2. Outstanding(m) <= queries[m]
        BY <2>1, Zenon DEF QueriesCounted
    <2>3. asked[socket[m]] \in Nat /\ inbox[socket[m]] \in Nat /\ queries[m] \in Nat
        BY DEF DnsInv, TypeOK, NoSocket, SocketId
    <2>4. asked[socket[m]] + inbox[socket[m]] + 1
             + (IF <<m, socket[m]>> \in sending THEN 1 ELSE 0) <= 1
        BY <2>1, <2>2, <2>3 DEF Outstanding
    <2> QED BY <2>3, <2>4
<1>2. A => [A]_vars
    BY Zenon
<1>3. Spec => [][A]_vars
    <2>1. DnsInv /\ QueriesCounted /\ [Next]_vars => [A]_vars
        BY <1>1, Zenon
    <2> HIDE DEF A
    <2> QED BY <2>1, QueriesAreCounted, PTL DEF Spec
<1> QED BY <1>3, Zenon DEF EarlyCloseLosesNothing

-----------------------------------------------------------------------------
(* The UDP pipe over SOCKS: SocksPipe.                                     *)

\* While the right half is suspended in a poll every open association is watched
\* or announced.
SpWatched ==
    \A s \in SpSource :
        SpOpen(s) =>
            /\ spAssoc[s].peers # {}
            /\ spRight = "polling" => spWake \/ <<s, spAssoc[s].id>> \in spSnapshot

\* The inductive invariant: numbers are numbers, closures name a peer first, and
\* an association that is not there has no peers.
SpInv ==
    /\ spOpened \in Nat
    /\ spAssoc \in [SpSource -> [id : Nat, peers : SUBSET SpPeer]]
    /\ spOpening \subseteq SpFlow
    /\ spClosures \subseteq SpPeer \X SpSource
    /\ \A s \in SpSource : ~SpOpen(s) => spAssoc[s].peers = {}
    /\ SpWatched

\* Changing the peers of an association leaves its number.
LEMMA SpOtherPeers ==
    ASSUME NEW x \in [id : Nat, peers : SUBSET SpPeer], NEW ps \in SUBSET SpPeer,
           NEW y, y = [x EXCEPT !.peers = ps]
    PROVE  y \in [id : Nat, peers : SUBSET SpPeer] /\ y.id = x.id /\ y.peers = ps
  OBVIOUS

\* on_connection_closed leaves an association its other peers or removes it.
LEMMA SpClosedAssociations ==
    ASSUME NEW assoc \in [SpSource -> [id : Nat, peers : SUBSET SpPeer]], NEW flows,
           NEW f, f = SpConnectionClosed(assoc, flows)
    PROVE  /\ f \in [SpSource -> [id : Nat, peers : SUBSET SpPeer]]
           /\ \A s \in SpSource :
                 /\ \A p \in f[s].peers : p \in assoc[s].peers /\ <<s, p>> \notin flows
                 /\ f[s].id # 0 => f[s].id = assoc[s].id /\ f[s].peers # {}
                 /\ f[s].peers # {} => f[s].id = assoc[s].id
<1> DEFINE left(s) == assoc[s].peers \ {m[2] : m \in {n \in flows : n[1] = s}}
<1>1. \A s \in SpSource :
         /\ f[s] = IF left(s) = {} THEN SpNone ELSE [assoc[s] EXCEPT !.peers = left(s)]
         /\ left(s) \subseteq assoc[s].peers /\ left(s) \in SUBSET SpPeer
  BY Zenon DEF SpConnectionClosed
<1>2. \A s \in SpSource : \A p \in left(s) : <<s, p>> \notin flows
  OBVIOUS
<1> HIDE DEF left
<1>3. SpNone.id = 0 /\ SpNone.peers = {} /\ SpNone \in [id : Nat, peers : SUBSET SpPeer]
  BY Zenon DEF SpNone
<1>4. \A s \in SpSource :
         left(s) # {} =>
            /\ f[s] \in [id : Nat, peers : SUBSET SpPeer]
            /\ f[s].id = assoc[s].id /\ f[s].peers = left(s)
  <2>1. SUFFICES ASSUME NEW s \in SpSource, left(s) # {}
                 PROVE  /\ f[s] \in [id : Nat, peers : SUBSET SpPeer]
                        /\ f[s].id = assoc[s].id /\ f[s].peers = left(s)
    BY Zenon
  <2>2. assoc[s] \in [id : Nat, peers : SUBSET SpPeer] /\ left(s) \in SUBSET SpPeer
    BY <1>1, Zenon
  <2>3. f[s] = [assoc[s] EXCEPT !.peers = left(s)]
    BY <1>1, <2>1, Zenon
  <2> QED
    BY <2>2, <2>3, SpOtherPeers
<1>5. \A s \in SpSource :
         left(s) = {} => f[s] \in [id : Nat, peers : SUBSET SpPeer] /\ f[s].id = 0 /\ f[s].peers = {}
  BY <1>1, <1>3, Zenon
<1>6. f \in [SpSource -> [id : Nat, peers : SUBSET SpPeer]]
  BY <1>4, <1>5, Zenon DEF SpConnectionClosed
<1> QED
  BY <1>1, <1>2, <1>4, <1>5, <1>6, Zenon

\* What a step may do to the association of a source: nothing, remove it, leave
\* it some peers or give it a recorded one, or open it for a flow in its handshake;
\* the records of the peers it keeps are kept.
SpAssocStep(s) ==
    /\ \A p \in spAssoc[s].peers \intersect spAssoc'[s].peers :
          <<s, p>> \in spTracked => <<s, p>> \in spTracked'
    /\ \/ spAssoc'[s] = spAssoc[s]
       \/ spAssoc'[s].id = 0 /\ spAssoc'[s].peers = {}
       \/ /\ spAssoc'[s].id = spAssoc[s].id /\ spAssoc[s].id # 0 /\ spAssoc'[s].peers # {}
          /\ \A p \in spAssoc'[s].peers : p \in spAssoc[s].peers \/ <<s, p>> \in spTracked'
       \/ /\ spAssoc'[s].id # 0 /\ spWake' /\ spTracked' = spTracked
          /\ \E p \in SpPeer : <<s, p>> \in spOpening /\ spAssoc'[s].peers = {p}

\* What a step may do to the right half: leave it where it is without losing the
\* message of the wake channel, suspend it anew in a poll of the associations
\* there are, or take it out of the poll.
SpRightStepOK ==
    \/ spRight' # "polling"
    \/ spRight' = spRight /\ spSnapshot' = spSnapshot /\ (spWake => spWake')
    \/ /\ spAssoc' = spAssoc
       /\ \A s \in SpSource : SpOpen(s) => <<s, spAssoc[s].id>> \in spSnapshot'

\* The types of the variables the argument is about.
SpInvTypes ==
    /\ spOpened \in Nat
    /\ spAssoc \in [SpSource -> [id : Nat, peers : SUBSET SpPeer]]
    /\ spOpening \subseteq SpFlow
    /\ spClosures \subseteq SpPeer \X SpSource

\* Such steps keep the invariant.
LEMMA SpWatchedStays ==
    ASSUME SpInv, SpInvTypes', \A s \in SpSource : SpAssocStep(s), SpRightStepOK
    PROVE  SpInv'
<1>1. \A s \in SpSource : spAssoc'[s].id = 0 => spAssoc'[s].peers = {}
  BY Zenon DEF SpInv, SpOpen, SpAssocStep
<1>2. ASSUME NEW s \in SpSource, spAssoc'[s].id # 0
      PROVE  spAssoc'[s].peers # {}
  <2>1. SpAssocStep(s) /\ (spAssoc[s].id # 0 => spAssoc[s].peers # {})
    BY Zenon DEF SpInv, SpWatched, SpOpen
  <2> QED
    BY <1>2, <2>1, Zenon DEF SpAssocStep
<1>3. ASSUME NEW s \in SpSource, spAssoc'[s].id # 0, spRight' = "polling"
      PROVE  spWake' \/ <<s, spAssoc'[s].id>> \in spSnapshot'
  <2>1. spAssoc[s].id # 0 /\ spRight = "polling" => spWake \/ <<s, spAssoc[s].id>> \in spSnapshot
    BY Zenon DEF SpInv, SpWatched, SpOpen
  <2>2. spWake' \/ spAssoc'[s].id = spAssoc[s].id
    BY Zenon, <1>3 DEF SpAssocStep
  <2>3. CASE spRight' = spRight /\ spSnapshot' = spSnapshot /\ (spWake => spWake')
    BY Zenon, <1>3, <2>1, <2>2, <2>3
  <2>4. CASE /\ spAssoc' = spAssoc
             /\ \A t \in SpSource : SpOpen(t) => <<t, spAssoc[t].id>> \in spSnapshot'
    BY Zenon, <1>3, <2>4 DEF SpOpen
  <2> QED
    BY Zenon, <1>3, <2>3, <2>4 DEF SpRightStepOK
<1> QED
  BY Zenon, <1>1, <1>2, <1>3 DEF SpInv, SpInvTypes, SpWatched, SpOpen

\* Every step is such a step, as no client address is a target's.
LEMMA SpStepOK ==
    ASSUME SpSource \intersect SpPeer = {}, SpInv, [SpNext]_spVars
    PROVE  SpInvTypes' /\ (\A s \in SpSource : SpAssocStep(s)) /\ SpRightStepOK
<1>0. SpInvTypes
  BY Zenon DEF SpInv, SpInvTypes
<1>1. ASSUME spAssoc' = spAssoc, spTracked \subseteq spTracked'
      PROVE  \A s \in SpSource : SpAssocStep(s)
  BY Zenon, <1>1 DEF SpAssocStep
<1>2. ASSUME UNCHANGED <<spRight, spSnapshot, spWake>>
      PROVE  SpRightStepOK
  BY Zenon, <1>2 DEF SpRightStepOK
<1>3. CASE UNCHANGED spVars
  BY Zenon, <1>0, <1>1, <1>2, <1>3
     DEF spVars, spLeft, spRead, spNet, SpInvTypes
<1>4. ASSUME NEW m \in SpFlow, SpLeftKnown(m) \/ SpLeftRefused(m)
      PROVE  SpInvTypes' /\ (\A s \in SpSource : SpAssocStep(s)) /\ SpRightStepOK
  BY Zenon, <1>0, <1>1, <1>2, <1>4
     DEF SpLeftKnown, SpLeftRefused, SpTake, SpRecord, spRead, SpInvTypes
<1>5. ASSUME NEW m \in SpFlow, SpLeftOpens(m)
      PROVE  SpInvTypes' /\ (\A s \in SpSource : SpAssocStep(s)) /\ SpRightStepOK
  BY Zenon, <1>0, <1>1, <1>2, <1>5 DEF SpLeftOpens, SpRecord, spRead, SpInvTypes
<1>6. ASSUME NEW m \in SpFlow, SpLeftJoins(m)
      PROVE  SpInvTypes' /\ (\A s \in SpSource : SpAssocStep(s)) /\ SpRightStepOK
  <2>1. m[1] \in SpSource /\ m[2] \in SpPeer /\ m = <<m[1], m[2]>>
    BY DEF SpFlow
  <2>2. /\ spAssoc[m[1]].id # 0 /\ spTracked' = spTracked \union {m}
        /\ spAssoc' = [spAssoc EXCEPT ![m[1]].peers = @ \union {m[2]}]
        /\ UNCHANGED <<spOpened, spOpening, spClosures, spRight, spSnapshot, spWake>>
    BY Zenon, <1>6 DEF SpLeftJoins, SpRecord, SpOpen, spRead
  <2>3. spAssoc \in [SpSource -> [id : Nat, peers : SUBSET SpPeer]]
    BY Zenon, <1>0 DEF SpInvTypes
  <2>4. /\ spAssoc' \in [SpSource -> [id : Nat, peers : SUBSET SpPeer]]
        /\ \A s \in SpSource : s # m[1] => spAssoc'[s] = spAssoc[s]
        /\ spAssoc'[m[1]].id = spAssoc[m[1]].id
        /\ spAssoc'[m[1]].peers = spAssoc[m[1]].peers \union {m[2]}
    BY <2>1, <2>2, <2>3, Zenon
  <2>5. SpAssocStep(m[1])
    BY <2>1, <2>2, <2>4, Zenon DEF SpAssocStep
  <2>6. \A s \in SpSource : s # m[1] => SpAssocStep(s)
    BY <2>2, <2>4, Zenon DEF SpAssocStep
  <2> QED
    BY Zenon, <1>0, <1>2, <2>2, <2>4, <2>5, <2>6 DEF SpInvTypes
<1>7. ASSUME NEW m \in SpFlow, SpHandshake(m)
      PROVE  SpInvTypes' /\ (\A s \in SpSource : SpAssocStep(s)) /\ SpRightStepOK
  <2>1. m[1] \in SpSource /\ m[2] \in SpPeer /\ m = <<m[1], m[2]>>
    BY DEF SpFlow
  <2>2. /\ m \in spOpening
        /\ spAssoc' = [spAssoc EXCEPT ![m[1]] = [id |-> spOpened + 1, peers |-> {m[2]}]]
        /\ spOpened' = spOpened + 1 /\ spWake' = TRUE /\ spOpening' = {}
        /\ UNCHANGED <<spTracked, spClosures, spRight, spSnapshot>>
    BY Zenon, <1>7 DEF SpHandshake, spRead
  <2>3. spOpened \in Nat /\ spAssoc \in [SpSource -> [id : Nat, peers : SUBSET SpPeer]]
    BY Zenon, <1>0 DEF SpInvTypes
  <2>4. /\ spAssoc' \in [SpSource -> [id : Nat, peers : SUBSET SpPeer]]
        /\ \A s \in SpSource : s # m[1] => spAssoc'[s] = spAssoc[s]
        /\ spAssoc'[m[1]].id # 0 /\ spAssoc'[m[1]].peers = {m[2]}
        /\ spOpened' \in Nat
    BY <2>1, <2>2, <2>3
  <2>5. SpAssocStep(m[1])
    BY <2>1, <2>2, <2>4 DEF SpAssocStep
  <2>7. \A s \in SpSource : s # m[1] => SpAssocStep(s)
    BY <2>2, <2>4, Zenon DEF SpAssocStep
  <2>6. spWake' /\ SpRightStepOK
    BY Zenon, <2>2 DEF SpRightStepOK
  <2> QED
    BY Zenon, <1>0, <2>2, <2>4, <2>5, <2>6, <2>7 DEF SpInvTypes
<1>8. ASSUME NEW m \in SpFlow, SpHandshakeFails(m)
      PROVE  SpInvTypes' /\ (\A s \in SpSource : SpAssocStep(s)) /\ SpRightStepOK
  BY Zenon, <1>0, <1>1, <1>2, <1>8 DEF SpHandshakeFails, spRead, SpInvTypes
<1>9. SpNone.id = 0 /\ SpNone.peers = {} /\ SpNone \in [id : Nat, peers : SUBSET SpPeer]
  BY Zenon DEF SpNone
<1>10. ASSUME NEW m \in SpFlow, SpRejected(m)
       PROVE  SpInvTypes' /\ (\A s \in SpSource : SpAssocStep(s)) /\ SpRightStepOK
  <2>1. /\ spAssoc' = [s \in SpSource |-> SpNone] /\ spOpening' = {}
        /\ UNCHANGED <<spTracked, spOpened, spClosures, spRight, spSnapshot, spWake>>
    BY Zenon, <1>10 DEF SpRejected, spRead
  <2>2. spAssoc' \in [SpSource -> [id : Nat, peers : SUBSET SpPeer]]
    BY Zenon, <1>9, <2>1
  <2>3. \A s \in SpSource : spAssoc'[s] = SpNone
    BY Zenon, <2>1
  <2>4. \A s \in SpSource : SpAssocStep(s)
    BY Zenon, <1>9, <2>1, <2>3 DEF SpAssocStep
  <2> QED
    BY Zenon, <1>0, <1>2, <2>1, <2>2, <2>4 DEF SpInvTypes
<1>11. ASSUME SpPoll(spAssoc), UNCHANGED <<spAssoc, spTracked>>
       PROVE  SpRightStepOK
  <2>1. \A s \in SpSource : SpOpen(s) => <<s, spAssoc[s].id>> \in spSnapshot'
    BY Zenon, <1>11 DEF SpPoll, SpOpen
  <2> QED
    BY Zenon, <1>11, <2>1 DEF SpRightStepOK
<1>12. CASE SpRightStarts \/ SpRightWoken
  BY Zenon, <1>0, <1>1, <1>11, <1>12 DEF SpRightStarts, SpRightWoken, spLeft, SpInvTypes
<1>13. ASSUME NEW s \in SpSource, SpRightReady(s)
       PROVE  SpInvTypes' /\ (\A t \in SpSource : SpAssocStep(t)) /\ SpRightStepOK
  <2>1. UNCHANGED <<spTracked, spOpening, spClosures, spAssoc, spOpened>>
    BY Zenon, <1>13 DEF SpRightReady, spLeft
  <2>2. spRight' = "receiving" \/ SpPoll(spAssoc)
    BY Zenon, <1>13 DEF SpRightReady
  <2>3. SpRightStepOK
    BY <1>11, <2>1, <2>2, Zenon DEF SpRightStepOK
  <2> QED
    BY Zenon, <1>0, <1>1, <2>1, <2>3 DEF SpInvTypes
<1>14. ASSUME NEW s \in SpSource, NEW i \in SpId, SpRightReceives(s, i)
       PROVE  SpInvTypes' /\ (\A t \in SpSource : SpAssocStep(t)) /\ SpRightStepOK
  <2>1. /\ spRight' = "replying"
        /\ UNCHANGED <<spTracked, spOpening, spClosures, spAssoc, spOpened>>
    BY Zenon, <1>14 DEF SpRightReceives, spLeft
  <2>2. SpRightStepOK
    BY <2>1, Zenon DEF SpRightStepOK
  <2> QED
    BY Zenon, <1>0, <1>1, <2>1, <2>2 DEF SpInvTypes
<1>15. ASSUME NEW s \in SpSource, NEW i \in SpId, SpRightFails(s, i)
       PROVE  SpInvTypes' /\ (\A t \in SpSource : SpAssocStep(t)) /\ SpRightStepOK
  <2>1. /\ spAssoc' = [spAssoc EXCEPT ![s] = SpNone]
        /\ spClosures' = spClosures \union {<<p, s>> : p \in spAssoc[s].peers}
        /\ spRight' = "restarting" /\ UNCHANGED <<spTracked, spOpening, spOpened>>
    BY Zenon, <1>15 DEF SpRightFails, SpSocketError, spLeft
  <2>2. spAssoc \in [SpSource -> [id : Nat, peers : SUBSET SpPeer]]
    BY Zenon, <1>0 DEF SpInvTypes
  <2>3. spAssoc' \in [SpSource -> [id : Nat, peers : SUBSET SpPeer]]
    BY <1>9, <2>1, <2>2, Zenon
  <2>4. spAssoc'[s] = SpNone /\ \A t \in SpSource : t # s => spAssoc'[t] = spAssoc[t]
    BY <2>1, <2>2, Zenon
  <2>5. spAssoc[s].peers \subseteq SpPeer
    BY <2>2, Zenon
  <2>6. spClosures' \subseteq SpPeer \X SpSource
    BY <1>0, <2>1, <2>5 DEF SpInvTypes
  <2>7. \A t \in SpSource : SpAssocStep(t)
    BY <1>9, <2>1, <2>4, Zenon DEF SpAssocStep
  <2>8. SpRightStepOK
    BY <2>1, Zenon DEF SpRightStepOK
  <2> QED
    BY Zenon, <1>0, <2>1, <2>3, <2>6, <2>7, <2>8 DEF SpInvTypes
<1>16. ASSUME NEW m \in spClosures, SpRightCloses(m)
       PROVE  SpInvTypes' /\ (\A s \in SpSource : SpAssocStep(s)) /\ SpRightStepOK
  <2>1. /\ spTracked' = spTracked \ {m} /\ spClosures' = spClosures \ {m}
        /\ UNCHANGED <<spOpening, spRight, spSnapshot, spAssoc, spOpened, spWake>>
    BY Zenon, <1>16 DEF SpRightCloses, SpClosed
  <2>2. \A s \in SpSource : \A p : m # <<s, p>>
    BY <1>0 DEF SpInvTypes
  <2>3. \A s \in SpSource : SpAssocStep(s)
    BY Zenon, <2>1, <2>2 DEF SpAssocStep
  <2>4. spClosures' \subseteq SpPeer \X SpSource
    BY Zenon, <1>0, <2>1 DEF SpInvTypes
  <2> QED
    BY Zenon, <1>0, <1>2, <2>1, <2>3, <2>4 DEF SpInvTypes
<1>17. ASSUME NEW flows, spAssoc' = SpConnectionClosed(spAssoc, flows),
              spTracked' = spTracked \ flows
       PROVE  /\ spAssoc' \in [SpSource -> [id : Nat, peers : SUBSET SpPeer]]
              /\ \A s \in SpSource : SpAssocStep(s)
  <2>1. spAssoc \in [SpSource -> [id : Nat, peers : SUBSET SpPeer]]
    BY Zenon, <1>0 DEF SpInvTypes
  <2>2. /\ spAssoc' \in [SpSource -> [id : Nat, peers : SUBSET SpPeer]]
        /\ \A s \in SpSource :
              /\ \A p \in spAssoc'[s].peers : p \in spAssoc[s].peers /\ <<s, p>> \notin flows
              /\ spAssoc'[s].id # 0 => spAssoc'[s].id = spAssoc[s].id /\ spAssoc'[s].peers # {}
              /\ spAssoc'[s].peers # {} => spAssoc'[s].id = spAssoc[s].id
    BY <1>17, <2>1, SpClosedAssociations
  <2>3. \A s \in SpSource : spAssoc[s].id = 0 => spAssoc[s].peers = {}
    BY Zenon DEF SpInv, SpOpen
  <2>4. \A s \in SpSource : SpAssocStep(s)
    BY <1>17, <2>2, <2>3, Zenon DEF SpAssocStep
  <2> QED
    BY Zenon, <2>2, <2>4
<1>18. ASSUME NEW m \in SpFlow, SpRightReplied(m)
       PROVE  SpInvTypes' /\ (\A s \in SpSource : SpAssocStep(s)) /\ SpRightStepOK
  <2>1. /\ \/ spTracked' = spTracked \ {m} /\ spAssoc' = SpConnectionClosed(spAssoc, {m})
           \/ UNCHANGED <<spTracked, spAssoc>>
        /\ spRight' = "restarting" /\ UNCHANGED <<spOpening, spClosures, spOpened>>
    BY Zenon, <1>18 DEF SpRightReplied
  <2>2. SpRightStepOK
    BY <2>1, Zenon DEF SpRightStepOK
  <2>3. /\ spAssoc' \in [SpSource -> [id : Nat, peers : SUBSET SpPeer]]
        /\ \A s \in SpSource : SpAssocStep(s)
    BY Zenon, <1>0, <1>1, <1>17, <2>1 DEF SpInvTypes
  <2> QED
    BY Zenon, <1>0, <2>1, <2>2, <2>3 DEF SpInvTypes
<1>19. CASE SpTick
  <2>1. PICK flows : /\ spTracked' = spTracked \ flows
                     /\ spAssoc' = SpConnectionClosed(spAssoc, flows)
    BY Zenon, <1>19 DEF SpTick
  <2>2. spRight' = "restarting" /\ spOpening' = {} /\ UNCHANGED <<spClosures, spOpened>>
    BY Zenon, <1>19 DEF SpTick
  <2>3. SpRightStepOK
    BY <2>2, Zenon DEF SpRightStepOK
  <2> QED
    BY Zenon, <1>0, <1>17, <2>1, <2>2, <2>3 DEF SpInvTypes
<1>20. ASSUME NEW i \in SpId, SpServerRelays(i) \/ SpServerFails(i)
       PROVE  SpInvTypes' /\ (\A s \in SpSource : SpAssocStep(s)) /\ SpRightStepOK
  BY Zenon, <1>0, <1>1, <1>2, <1>20
     DEF SpServerRelays, SpServerFails, spLeft, spRead, SpInvTypes
<1>21. CASE SpClientFails
  BY Zenon, <1>0, <1>1, <1>2, <1>21 DEF SpClientFails, spRead, SpInvTypes
<1> QED
  BY Zenon, <1>3, <1>4, <1>5, <1>6, <1>7, <1>8, <1>10, <1>12, <1>13, <1>14, <1>15, <1>16, <1>18,
     <1>19, <1>20, <1>21
     DEF SpNext, SpLeftStep, SpRightStep, SpEnded

\* The invariant holds throughout.
LEMMA SpInvHolds ==
    ASSUME SpSource \intersect SpPeer = {}
    PROVE  SpSpec => []SpInv
<1>1. SpInit => SpInv
  <2>1. SpNone.id = 0 /\ SpNone.peers = {} /\ SpNone \in [id : Nat, peers : SUBSET SpPeer]
    BY Zenon DEF SpNone
  <2>2. SUFFICES ASSUME SpInit PROVE SpInv
    BY Zenon
  <2>3. spAssoc = [s \in SpSource |-> SpNone] /\ spOpened = 0 /\ spOpening = {} /\ spClosures = {}
    BY Zenon, <2>2 DEF SpInit
  <2>4. 0 \in Nat
    BY Zenon
  <2>5. /\ spAssoc \in [SpSource -> [id : Nat, peers : SUBSET SpPeer]]
        /\ \A s \in SpSource : spAssoc[s] = SpNone
    BY Zenon, <2>1, <2>3
  <2> QED
    BY Zenon, <2>1, <2>3, <2>4, <2>5 DEF SpInv, SpWatched, SpOpen
<1>2. SpInv /\ [SpNext]_spVars => SpInv'
  BY Zenon, SpStepOK, SpWatchedStays
<1> QED
  BY <1>1, <1>2, PTL DEF SpSpec

\* Only the end of a handshake gives an association a peer without a record.
LEMMA SpFlowsStep ==
    ASSUME SpSource \intersect SpPeer = {}, SpInv, [SpNext]_spVars, SpHaveFlows, ~SpHaveFlows'
    PROVE  \E m \in spOpening : m \notin spTracked /\ SpOpen(m[1])'
<1>1. PICK s \in SpSource : \E p \in spAssoc'[s].peers : <<s, p>> \notin spTracked'
  BY Zenon DEF SpHaveFlows
<1>0. PICK p \in spAssoc'[s].peers : <<s, p>> \notin spTracked'
  BY Zenon, <1>1
<1>2. SpAssocStep(s)
  BY Zenon, SpStepOK
<1>3. p \in spAssoc[s].peers => <<s, p>> \in spTracked
  BY Zenon DEF SpHaveFlows
<1>4. <<s, p>> \in spOpening /\ <<s, p>> \notin spTracked /\ spAssoc'[s].id # 0
  BY <1>0, <1>2, <1>3, Zenon DEF SpAssocStep
<1>5. <<s, p>>[1] = s
  BY Zenon
<1> QED
  BY Zenon, <1>4, <1>5 DEF SpOpen

\* Associations and flows stay in step (socks5_forwarder.rs, udp_pipe.rs): no
\* reply is slept through, and an association has a peer without a record only
\* after a handshake during which the record was closed.  No client address is a
\* target's: on_socket_error queues closures with the peer first, and RightPipe
\* would forget the flow in the opposite direction.
THEOREM AssociationsInStep ==
    ASSUME SpSource \intersect SpPeer = {}
    PROVE  SpSpec => SpAssociationsInStep
<1>1. SpInv => \A s \in SpSource :
                  SpOpen(s) =>
                      /\ spAssoc[s].peers # {}
                      /\ spRight = "polling" => spWake \/ <<s, spAssoc[s].id>> \in spSnapshot
  BY Zenon DEF SpInv, SpWatched
<1>2. SpInv /\ [SpNext]_spVars =>
         [SpHaveFlows /\ ~SpHaveFlows' =>
             \E m \in spOpening : m \notin spTracked /\ SpOpen(m[1])']_spVars
  BY Zenon, SpFlowsStep
<1> QED
  BY <1>1, <1>2, SpInvHolds, PTL DEF SpSpec, SpAssociationsInStep

\* While the server does not reject the credentials, no association outlives its
\* flows: the halves of the pipe never work for the same source at once, the one
\* in its handshake and the other in a datagram of its association.
SpApart ==
    /\ SpHaveFlows
    /\ \A m \in spOpening : m \in spTracked /\ ~SpOpen(m[1])
    /\ spRight \in {"receiving", "replying"} => \A x \in spReading : x[1] \in SpSource /\ SpOpen(x[1])

\* A step that keeps the left half where it was and closes no association keeps
\* the halves apart.
LEMMA SpApartStep ==
    ASSUME SpSource \intersect SpPeer = {}, SpInv, SpApart, [SpNext]_spVars,
           UNCHANGED spVars \/ \A m \in SpFlow : ~SpRejected(m)
    PROVE  SpApart'
<1> DEFINE Left == \A m \in spOpening : m \in spTracked /\ m[1] \in SpSource /\ spAssoc[m[1]].id = 0
           Right == spRight \in {"receiving", "replying"} =>
                       \A x \in spReading : x[1] \in SpSource /\ spAssoc[x[1]].id # 0
<1>1. Left /\ Right
  BY Zenon DEF SpInv, SpApart, SpOpen, SpFlow
<1>2. SpHaveFlows'
  BY Zenon, SpFlowsStep DEF SpApart
<1>3. SUFFICES Left' /\ Right'
  BY Zenon, <1>2 DEF SpApart, SpOpen
<1>4. SpInvTypes /\ SpInvTypes'
  BY Zenon, SpStepOK DEF SpInv, SpInvTypes
<1>5. ASSUME spOpening' \subseteq spOpening, spTracked \subseteq spTracked', UNCHANGED spAssoc
      PROVE  Left'
  BY Zenon, <1>1, <1>5
<1>6. ASSUME UNCHANGED <<spAssoc, spRight, spReading>>
      PROVE  Right'
  BY Zenon, <1>1, <1>6
<1>7. ASSUME spOpening' = {}
      PROVE  Left'
  BY Zenon, <1>7
<1>8. ASSUME spRight' \notin {"receiving", "replying"}
      PROVE  Right'
  BY Zenon, <1>8
<1>9. CASE UNCHANGED spVars
  BY Zenon, <1>5, <1>6, <1>9 DEF spVars, spLeft, spRead
<1>10. ASSUME NEW m \in SpFlow, SpLeftKnown(m) \/ SpLeftRefused(m)
       PROVE  Left' /\ Right'
  BY Zenon, <1>5, <1>6, <1>10 DEF SpLeftKnown, SpLeftRefused, SpTake, SpRecord, spRead
<1>11. ASSUME NEW m \in SpFlow, SpLeftOpens(m)
       PROVE  Left' /\ Right'
  <2>1. m[1] \in SpSource
    BY Zenon DEF SpFlow
  <2>2. /\ spOpening' = {m} /\ m \in spTracked' /\ spAssoc'[m[1]].id = 0
        /\ UNCHANGED <<spAssoc, spRight, spReading>>
    BY Zenon, <1>11 DEF SpLeftOpens, SpRecord, SpOpen, spRead
  <2> QED
    BY Zenon, <1>6, <2>1, <2>2
<1>12. ASSUME NEW m \in SpFlow, SpLeftJoins(m)
       PROVE  Left' /\ Right'
  <2>1. /\ spOpening' = {}
        /\ spAssoc' = [spAssoc EXCEPT ![m[1]].peers = @ \union {m[2]}]
        /\ UNCHANGED <<spRight, spReading>>
    BY Zenon, <1>12 DEF SpLeftJoins, SpRecord, SpTake, spRead
  <2>2. \A s \in SpSource : spAssoc'[s].id = spAssoc[s].id
    BY <1>4, <2>1, Zenon DEF SpInvTypes
  <2> QED
    BY Zenon, <1>1, <1>7, <2>1, <2>2
<1>13. ASSUME NEW m \in SpFlow, SpHandshake(m)
       PROVE  Left' /\ Right'
  <2>1. /\ spOpening' = {}
        /\ spAssoc' = [spAssoc EXCEPT ![m[1]] = [id |-> spOpened + 1, peers |-> {m[2]}]]
        /\ UNCHANGED <<spRight, spReading>>
    BY Zenon, <1>13 DEF SpHandshake, spRead
  <2>2. spOpened \in Nat /\ spAssoc \in [SpSource -> [id : Nat, peers : SUBSET SpPeer]]
    BY Zenon, <1>4 DEF SpInvTypes
  <2>3. \A s \in SpSource : spAssoc[s].id # 0 => spAssoc'[s].id # 0
    BY <2>1, <2>2
  <2> QED
    BY Zenon, <1>1, <1>7, <2>1, <2>3
<1>14. ASSUME NEW m \in SpFlow, SpHandshakeFails(m)
       PROVE  Left' /\ Right'
  BY Zenon, <1>6, <1>7, <1>14 DEF SpHandshakeFails, spRead
<1>15. CASE SpRightStarts \/ SpRightWoken
  <2>1. spRight' = "polling" /\ UNCHANGED <<spOpening, spTracked, spAssoc>>
    BY Zenon, <1>15 DEF SpRightStarts, SpRightWoken, SpPoll, spLeft
  <2>2. Right'
    BY <1>8, <2>1, Zenon
  <2> QED
    BY Zenon, <1>5, <2>1, <2>2
<1>16. ASSUME NEW s \in SpSource, SpRightReady(s)
       PROVE  Left' /\ Right'
  <2>1. UNCHANGED <<spOpening, spTracked, spAssoc>>
    BY Zenon, <1>16 DEF SpRightReady, spLeft
  <2>2. spRight' = "polling" \/ (spAssoc[s].id # 0 /\ spReading' = {<<s, spAssoc[s].id>>})
    BY Zenon, <1>16 DEF SpRightReady, SpPoll, SpOpen
  <2>3. Right'
    BY <1>8, <2>1, <2>2
  <2> QED
    BY Zenon, <1>5, <2>1, <2>3
<1>17. ASSUME NEW s \in SpSource, NEW i \in SpId, SpRightReceives(s, i)
       PROVE  Left' /\ Right'
  <2>1. UNCHANGED <<spOpening, spTracked, spAssoc>>
    BY Zenon, <1>17 DEF SpRightReceives, spLeft
  <2>2. <<s, i>> \in spReading /\ spRight = "receiving" /\ \E p \in SpPeer : spReading' = {<<s, p>>}
    BY Zenon, <1>17 DEF SpRightReceives
  <2>3. Right'
    BY <1>1, <2>1, <2>2
  <2> QED
    BY Zenon, <1>5, <2>1, <2>3
<1>18. ASSUME NEW s \in SpSource, NEW i \in SpId, SpRightFails(s, i)
       PROVE  Left' /\ Right'
  <2>1. /\ spAssoc' = [spAssoc EXCEPT ![s] = SpNone] /\ spRight' = "restarting"
        /\ UNCHANGED <<spTracked, spOpening>>
    BY Zenon, <1>18 DEF SpRightFails, SpSocketError, spLeft
  <2>2. SpNone.id = 0
    BY Zenon DEF SpNone
  <2>3. \A t \in SpSource : spAssoc[t].id = 0 => spAssoc'[t].id = 0
    BY <1>4, <2>1, <2>2, Zenon DEF SpInvTypes
  <2>4. Right'
    BY <1>8, <2>1, Zenon
  <2> QED
    BY Zenon, <1>1, <2>1, <2>3, <2>4
<1>19. ASSUME NEW m \in spClosures, SpRightCloses(m)
       PROVE  Left' /\ Right'
  <2>1. /\ spTracked' = spTracked \ {m}
        /\ UNCHANGED <<spOpening, spRight, spReading, spAssoc>>
    BY Zenon, <1>19 DEF SpRightCloses, SpClosed
  <2>2. \A n \in spOpening : m # n
    BY <1>4, Zenon DEF SpInvTypes, SpFlow
  <2> QED
    BY Zenon, <1>1, <1>6, <2>1, <2>2
<1>20. ASSUME NEW m \in SpFlow, SpRightReplied(m)
       PROVE  Left' /\ Right'
  <2>1. /\ spTracked \ {m} \subseteq spTracked'
        /\ spAssoc' = SpConnectionClosed(spAssoc, {m}) \/ spAssoc' = spAssoc
        /\ spRight' = "restarting" /\ UNCHANGED spOpening
        /\ m \in spReading /\ spRight = "replying"
    BY Zenon, <1>20 DEF SpRightReplied
  <2>2. spAssoc \in [SpSource -> [id : Nat, peers : SUBSET SpPeer]]
    BY Zenon, <1>4 DEF SpInvTypes
  <2>3. \A t \in SpSource : spAssoc[t].id = 0 => spAssoc'[t].id = 0
    BY <2>1, <2>2, SpClosedAssociations
  <2>4. spAssoc[m[1]].id # 0
    BY <1>1, <2>1, Zenon
  <2>5. Right'
    BY <1>8, <2>1, Zenon
  <2> QED
    BY Zenon, <1>1, <2>1, <2>3, <2>4, <2>5
<1>21. CASE SpTick
  <2>1. spRight' = "restarting" /\ spOpening' = {}
    BY Zenon, <1>21 DEF SpTick
  <2>2. Right'
    BY <1>8, <2>1, Zenon
  <2> QED
    BY Zenon, <1>7, <2>1, <2>2
<1>22. ASSUME NEW i \in SpId, SpServerRelays(i) \/ SpServerFails(i)
       PROVE  Left' /\ Right'
  BY Zenon, <1>5, <1>6, <1>22 DEF SpServerRelays, SpServerFails, spLeft, spRead
<1>23. CASE SpClientFails
  BY Zenon, <1>5, <1>6, <1>23 DEF SpClientFails, spRead
<1> QED
  BY Zenon, <1>9, <1>10, <1>11, <1>12, <1>13, <1>14, <1>15, <1>16, <1>17, <1>18, <1>19, <1>20,
     <1>21, <1>22, <1>23
     DEF SpNext, SpLeftStep, SpRightStep, SpEnded

\* No association outlives its flows, and a flow that joins one is new to it
\* (the debug_assert of socks5_forwarder.rs 88), as long as the SOCKS server does
\* not reject the credentials it accepted before.
THEOREM AssociationsHaveFlows ==
    ASSUME SpSource \intersect SpPeer = {}
    PROVE  SpSpec /\ [][\A m \in SpFlow : ~SpRejected(m)]_spVars => []SpHaveFlows /\ SpJoinAddsPeer
<1>1. SpInit => SpApart
  <2>1. SpNone.peers = {}
    BY Zenon DEF SpNone
  <2> QED
    BY <2>1, Zenon DEF SpInit, SpApart, SpHaveFlows
<1>2. SpInv /\ SpApart /\ [SpNext]_spVars /\ [\A m \in SpFlow : ~SpRejected(m)]_spVars => SpApart'
  BY Zenon, SpApartStep
<1>3. SpApart => SpHaveFlows
  BY Zenon DEF SpApart
<1>4. SpHaveFlows =>
         [\A m \in SpFlow : SpLeftJoins(m) => m[2] \notin spAssoc[m[1]].peers]_spVars
  <2>1. SUFFICES ASSUME SpHaveFlows, NEW m \in SpFlow, SpLeftJoins(m)
                 PROVE  m[2] \notin spAssoc[m[1]].peers
    BY Zenon
  <2>2. m[1] \in SpSource /\ m = <<m[1], m[2]>>
    BY DEF SpFlow
  <2>3. m \notin spTracked
    BY Zenon, <2>1 DEF SpLeftJoins, SpRecord
  <2> QED
    BY Zenon, <2>1, <2>2, <2>3 DEF SpHaveFlows
<1> QED
  BY <1>1, <1>2, <1>3, <1>4, SpInvHolds, PTL DEF SpSpec, SpJoinAddsPeer
=============================================================================
