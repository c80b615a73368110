--------------------------- MODULE TunnelsProofs ----------------------------
(***************************************************************************)
(* Proofs about Tunnels, for every finite set of connections, every        *)
(* configuration of clients and limits and every number of requests: types, *)
(* authentication, the connection limits, where the counters of            *)
(* ConnectionLimiter are the slots that the tunnels hold, and the session  *)
(* gauges, where what SessionMetrics counts is the sessions there are.     *)
(***************************************************************************)
EXTENDS Tunnels, FiniteSetTheorems, TLAPS

-----------------------------------------------------------------------------
(* Types.                                                                  *)

LimiterType == count \in [Client -> [Class -> Nat]]

MetricsType ==
    /\ sessions \in [Protocol -> Int]
    /\ perUser \in [Label -> [Protocol -> Int]]
    /\ entries \subseteq Conn
    /\ label \in [Conn -> Label]

TunnelType ==
    /\ stage \in [Conn -> Stage]
    /\ protocol \in [Conn -> Protocol]
    /\ sni \in [Conn -> Creds \union {NoCreds}]
    /\ guard \in [Conn -> Client \union {NoCreds}]
    /\ received \in [Conn -> 0 .. MaxRequests]
    /\ task \in [Conn -> [Request -> TaskState]]
    /\ auth \in [Conn -> [Request -> Creds \union {NoCreds, Malformed}]]

\* The type invariant, by component.
LEMMA TypeParts == TypeOK <=> LimiterType /\ MetricsType /\ TunnelType
    BY Zenon DEF TypeOK, LimiterType, MetricsType, TunnelType

\* Every protocol has a class.
LEMMA ClassType == \A p \in Protocol : ClassOf(p) \in Class
    BY Zenon DEF Protocol, Class, ClassOf

\* Acquiring and releasing a slot keep the counters natural.
LEMMA LimiterOps ==
    ASSUME LimiterType, NEW c \in Client, NEW p \in Protocol
    PROVE  /\ TryAcquire(c, p) => LimiterType'
           /\ Release(c, p) => LimiterType'
<1>1. ClassOf(p) \in Class
    BY ClassType, Zenon
<1>2. TryAcquire(c, p) => LimiterType'
    BY <1>1 DEF TryAcquire, LimiterType
<1>3. Release(c, p) => LimiterType'
    BY <1>1 DEF Release, LimiterType
<1> QED BY <1>2, <1>3, Zenon

\* A gauge stays a gauge.
LEMMA BumpType ==
    ASSUME NEW g \in [Label -> [Protocol -> Int]], NEW u \in Label,
           NEW p \in Protocol, NEW n \in Int
    PROVE  Bump(g, u, p, n) \in [Label -> [Protocol -> Int]]
    BY DEF Bump

\* The operations of the metrics keep their types.
LEMMA MetricsOps ==
    ASSUME MetricsType, NEW t \in Conn, NEW u \in Label, NEW p \in Protocol
    PROVE  /\ RegisterConnection(t) => MetricsType'
           /\ UnregisterConnection(t) => MetricsType'
           /\ CountSession(u, p) => MetricsType'
           /\ RecordSession(t, u) => MetricsType'
           /\ TransferSessionUsername(t, u, p) => MetricsType'
           /\ UncountSession(p) => MetricsType'
           /\ ForgetSession(t, p) => MetricsType'
<1> USE DEF MetricsType
<1>0. NoName \in Label /\ label[t] \in Label
    BY Zenon DEF Label
<1>b. \A g \in [Label -> [Protocol -> Int]], v \in Label :
        /\ Bump(g, v, p, 1) \in [Label -> [Protocol -> Int]]
        /\ Bump(g, v, p, -1) \in [Label -> [Protocol -> Int]]
    <2>1. 1 \in Int /\ -1 \in Int
        OBVIOUS
    <2> QED BY <2>1, BumpType, Zenon
<1>1. RegisterConnection(t) => MetricsType'
    BY <1>0, Zenon DEF RegisterConnection
<1>2. UnregisterConnection(t) => MetricsType'
    BY Zenon DEF UnregisterConnection
<1>3. CountSession(u, p) => MetricsType'
    <2>1. Bump(perUser, u, p, 1) \in [Label -> [Protocol -> Int]]
        BY <1>b, Zenon
    <2> QED BY <2>1 DEF CountSession
<1>4. RecordSession(t, u) => MetricsType'
    BY <1>0, Zenon DEF RecordSession
<1>5. TransferSessionUsername(t, u, p) => MetricsType'
    <2>1. Bump(perUser, label[t], p, -1) \in [Label -> [Protocol -> Int]]
        BY <1>0, <1>b, Zenon
    <2>2. Bump(Bump(perUser, label[t], p, -1), u, p, 1) \in [Label -> [Protocol -> Int]]
        BY <2>1, <1>b, Zenon
    <2> QED BY <2>2, Zenon DEF TransferSessionUsername, metricsVars
<1>6. UncountSession(p) => MetricsType'
    BY DEF UncountSession
<1>7. ForgetSession(t, p) => MetricsType'
    <2>1. Bump(perUser, label[t], p, -1) \in [Label -> [Protocol -> Int]]
        BY <1>0, <1>b, Zenon
    <2> QED BY <2>1, Zenon DEF ForgetSession, metricsVars
<1> QED BY <1>1, <1>2, <1>3, <1>4, <1>5, <1>6, <1>7

\* The user of a server name is a label.
LEMMA SniUserType == \A t \in Conn : SniUser(t) \in Label
    BY UserAssumption, Zenon DEF SniUser, Label

\* The variables of the tunnels keep their types.
LEMMA TunnelTypeStep ==
    ASSUME TunnelType, NEW t \in Conn,
           ConnStep(t) \/ ClientStep(t) \/ \E i \in Request : TaskStep(t, i)
    PROVE  TunnelType'
<1> USE DEF TunnelType, Goto, SetTask, Stage, TaskState
<1>1. ASSUME CountTunnel(t) \/ RecordTunnel(t) \/ RefuseTunnel(t)
             \/ UncountTunnel(t) \/ ForgetTunnel(t) \/ CodecFails(t) \/ EndTunnel(t)
      PROVE  TunnelType'
    BY <1>1, Zenon DEF CountTunnel, RecordTunnel, RefuseTunnel, UncountTunnel, ForgetTunnel,
                       CodecFails, EndTunnel
<1>2. ASSUME OpenTunnel(t) \/ DropTunnel(t) PROVE TunnelType'
    BY <1>2, Zenon DEF OpenTunnel, DropTunnel, CanAcquire
<1>3. ASSUME NEW p \in Protocol, NEW c \in Creds \union {NoCreds}, Accept(t, p, c)
      PROVE  TunnelType'
    BY <1>3, Zenon DEF Accept
<1>4. ASSUME NEW r \in Creds \union {NoCreds, Malformed}, ReceiveRequest(t, r)
      PROVE  TunnelType'
    <2>1. received[t] \in 0 .. MaxRequests /\ received[t] < MaxRequests
        BY <1>4, Zenon DEF ReceiveRequest, Spawn
    <2>2. received[t] + 1 \in Request
        BY <2>1, MaxRequestsAssumption DEF Request
    <2>3. received' \in [Conn -> 0 .. MaxRequests]
        BY <1>4, <2>2 DEF ReceiveRequest, Spawn, Request
    <2>4. task' \in [Conn -> [Request -> TaskState]]
        BY <1>4, <2>2, Zenon DEF ReceiveRequest, Spawn
    <2>5. auth' \in [Conn -> [Request -> Creds \union {NoCreds, Malformed}]]
        BY <1>4, <2>2, Zenon DEF ReceiveRequest, Spawn
    <2>6. guard' \in [Conn -> Client \union {NoCreds}]
        BY <1>4 DEF ReceiveRequest, NeedsSlot
    <2> QED BY <1>4, <2>3, <2>4, <2>5, <2>6 DEF ReceiveRequest
<1>5. ASSUME NEW r, ExceedLimit(t, r) PROVE TunnelType'
    BY <1>5, Zenon DEF ExceedLimit
<1>6. ASSUME NEW i \in Request, TaskStep(t, i) PROVE TunnelType'
    <2>1. \E s \in TaskState : SetTask(t, i, s)
        <3>1. ASSUME AuthenticateRequest(t, i) PROVE \E s \in TaskState : SetTask(t, i, s)
            BY <3>1, Zenon DEF AuthenticateRequest
        <3> QED BY <1>6, <3>1 DEF TaskStep, LabelRequest, PromoteRequest, EndRequest
    <2>2. task' \in [Conn -> [Request -> TaskState]]
        BY <2>1
    <2>3. UNCHANGED <<stage, protocol, sni, guard, received, auth>>
        BY <1>6, Zenon DEF TaskStep, AuthenticateRequest, LabelRequest, PromoteRequest, EndRequest
    <2> QED BY <2>2, <2>3, Zenon
<1> QED BY <1>1, <1>2, <1>3, <1>4, <1>5, <1>6, Zenon DEF ConnStep, ClientStep

\* Every step of a connection keeps the types.
LEMMA TypeStep ==
    ASSUME TypeOK, [Next]_vars
    PROVE  TypeOK'
<1>0. LimiterType /\ MetricsType /\ TunnelType
    BY TypeParts, Zenon
<1>1. CASE UNCHANGED vars
    BY <1>1, Zenon DEF TypeOK, vars, metricsVars, tunnelVars
<1>2. ASSUME NEW t \in Conn,
             ConnStep(t) \/ ClientStep(t) \/ \E i \in Request : TaskStep(t, i)
      PROVE  TypeOK'
    <2>1. TunnelType'
        BY <1>0, <1>2, TunnelTypeStep, Zenon
    <2>2. protocol[t] \in Protocol /\ guard[t] \in Client \union {NoCreds} /\ SniUser(t) \in Label
        BY <1>0, SniUserType, Zenon DEF TunnelType
    <2>3. LimiterType'
        <3>1. ASSUME NEW c \in Client, TryAcquire(c, protocol[t]) \/ Release(c, protocol[t])
              PROVE  LimiterType'
            BY <1>0, <2>2, <3>1, LimiterOps, Zenon
        <3>2. CASE UNCHANGED count
            BY <1>0, <3>2, Zenon DEF LimiterType
        <3> QED
            BY <1>2, <2>2, <3>1, <3>2, Zenon
            DEF ConnStep, ClientStep, TaskStep, CountTunnel, RecordTunnel, OpenTunnel,
                RefuseTunnel, DropTunnel, UncountTunnel, ForgetTunnel, Accept, CodecFails,
                ReceiveRequest, ExceedLimit, EndTunnel, AuthenticateRequest, LabelRequest,
                PromoteRequest, EndRequest, CanAcquire
    <2>4. MetricsType'
        <3>1. ASSUME NEW i \in Request, LabelRequest(t, i) PROVE MetricsType'
            <4>1. auth[t][i] \in Creds => DecodeUsername[auth[t][i]] \in Label
                BY UserAssumption, Zenon
            <4>2. CASE UNCHANGED metricsVars
                BY <1>0, <4>2, Zenon DEF MetricsType, metricsVars
            <4> QED BY <1>0, <2>2, <3>1, <4>1, <4>2, MetricsOps, Zenon DEF LabelRequest
        <3>2. CASE UNCHANGED metricsVars
            BY <1>0, <3>2, Zenon DEF MetricsType, metricsVars
        <3>3. CASE \/ RegisterConnection(t) \/ UnregisterConnection(t)
                   \/ CountSession(SniUser(t), protocol[t]) \/ RecordSession(t, SniUser(t))
                   \/ UncountSession(protocol[t]) \/ ForgetSession(t, protocol[t])
            BY <1>0, <2>2, <3>3, MetricsOps, Zenon
        <3> QED
            BY <1>2, <3>1, <3>2, <3>3, Zenon
            DEF ConnStep, ClientStep, TaskStep, CountTunnel, RecordTunnel, OpenTunnel,
                RefuseTunnel, DropTunnel, UncountTunnel, ForgetTunnel, Accept, CodecFails,
                ReceiveRequest, ExceedLimit, EndTunnel, AuthenticateRequest,
                PromoteRequest, EndRequest
    <2> QED BY <2>1, <2>3, <2>4, TypeParts, Zenon DEF LimiterType, MetricsType, TunnelType, TypeOK
<1> QED BY <1>1, <1>2, Zenon DEF Next

\* The initial values have their types.
LEMMA TypeInit == Init => TypeOK
    BY MaxRequestsAssumption
    DEF Init, LimiterInit, MetricsInit, TypeOK, Protocol, Label, Stage, TaskState, Request, Class

\* The counters, the gauges, the clients map and the state of every connection
\* and request task always have their types.
THEOREM TypeCorrect == Spec => []TypeOK
    BY TypeInit, TypeStep, PTL DEF Spec

-----------------------------------------------------------------------------
(* Who is served.                                                          *)

Running == {"passed", "labelled", "serving"}

\* Requests arrive only at an open tunnel, whose server name was vetted, and a
\* task runs only after its credentials were found good.
AuthInv ==
    /\ \A t \in Conn :
          stage[t] \in {"absent", "registered", "counted", "recorded"} => received[t] = 0
    /\ \A t \in Conn, i \in Request : i > received[t] => task[t][i] = "none"
    /\ \A t \in Conn :
          stage[t] = "open" \/ received[t] # 0 => (SniChecked(t) => sni[t] \in Client)
    /\ \A t \in Conn, i \in Request :
          task[t][i] \in Running => Authorised(t, auth[t][i])

\* Initially no request has been received.
LEMMA AuthInit == Init => AuthInv
    BY DEF Init, AuthInv, Running

\* Every step of a connection, of its client and of a request task keeps AuthInv.
LEMMA AuthStep ==
    ASSUME TypeOK, AuthInv, [Next]_vars
    PROVE  AuthInv'
<1>0. TunnelType
    BY TypeParts, Zenon
<1>1. CASE UNCHANGED vars
    BY <1>1, Zenon DEF AuthInv, vars, tunnelVars, SniChecked, Authorised
<1>2. ASSUME NEW t \in Conn,
             ConnStep(t) \/ ClientStep(t) \/ \E i \in Request : TaskStep(t, i)
      PROVE  AuthInv'
    <2> USE <1>0 DEF AuthInv, TunnelType, SniChecked, Authorised
    <2>1. ASSUME UNCHANGED <<sni, received, task, auth>>,
                 NEW s \in Stage, Goto(t, s),
                 \/ s \notin {"absent", "registered", "counted", "recorded", "open"}
                 \/ /\ stage[t] \in {"absent", "registered", "counted", "recorded"}
                    /\ s = "open" => (SniChecked(t) => sni[t] \in Client)
          PROVE  AuthInv'
        BY <2>1, SMTT(30) DEF Goto
    <2>2. CASE \/ CountTunnel(t) \/ RecordTunnel(t) \/ RefuseTunnel(t) \/ OpenTunnel(t)
               \/ DropTunnel(t) \/ UncountTunnel(t) \/ ForgetTunnel(t)
               \/ CodecFails(t) \/ EndTunnel(t)
               \/ \E r : ExceedLimit(t, r)
        <3> HIDE DEF AuthInv, TunnelType, SniChecked, Authorised
        <3> QED
            BY <2>1, <2>2, Zenon
            DEF CountTunnel, RecordTunnel, RefuseTunnel, OpenTunnel, DropTunnel,
                UncountTunnel, ForgetTunnel, CodecFails, EndTunnel, ExceedLimit, Stage
    <2>3. ASSUME NEW p, NEW c, Accept(t, p, c) PROVE AuthInv'
        <3>1. received[t] = 0 /\ \A i \in Request : task[t][i] = "none"
            BY <2>3, SMTT(30) DEF Accept, Request
        <3> QED BY <2>3, <3>1 DEF Accept, Goto, Running
    <2>4. ASSUME NEW r, ReceiveRequest(t, r) PROVE AuthInv'
        <3>1. received[t] \in 0 .. MaxRequests
            BY Zenon
        <3>2. received' = [received EXCEPT ![t] = received[t] + 1]
            BY <2>4, Zenon DEF ReceiveRequest, Spawn
        <3>3. \A u \in Conn, i \in Request :
                \/ u = t /\ i = received[t] + 1 /\ task'[u][i] = "spawned"
                \/ task'[u][i] = task[u][i] /\ auth'[u][i] = auth[u][i]
            BY <2>4, Zenon DEF ReceiveRequest, Spawn
        <3>4. UNCHANGED <<stage, sni>> /\ stage[t] = "open"
            BY <2>4, Zenon DEF ReceiveRequest
        <3>5. \A u \in Conn, i \in Request : i > received'[u] => task'[u][i] = "none"
            BY <3>1, <3>2, <3>3, SMTT(30) DEF Request
        <3>6. \A u \in Conn, i \in Request :
                task'[u][i] \in Running => Authorised(u, auth[u][i]) /\ auth'[u][i] = auth[u][i]
            BY <3>3 DEF Running
        <3> QED BY <3>1, <3>2, <3>4, <3>5, <3>6
    <2>5. ASSUME NEW i \in Request, TaskStep(t, i) PROVE AuthInv'
        <3>1. UNCHANGED <<stage, sni, received, auth>>
            BY <2>5, Zenon DEF TaskStep, AuthenticateRequest, LabelRequest, PromoteRequest, EndRequest
        <3>2. PICK s \in TaskState : SetTask(t, i, s) /\ (s \in Running => Authorised(t, auth[t][i]))
            <4>1. ASSUME AuthenticateRequest(t, i)
                  PROVE \E s \in TaskState : SetTask(t, i, s) /\ (s \in Running => Authorised(t, auth[t][i]))
                <5> HIDE DEF Authorised
                <5> QED BY <4>1, Zenon DEF AuthenticateRequest, Running, TaskState
            <4>2. task[t][i] \in Running => Authorised(t, auth[t][i])
                BY Zenon DEF Authorised
            <4> HIDE DEF Authorised, AuthInv
            <4> QED BY <2>5, <4>1, <4>2, Zenon
                    DEF TaskStep, LabelRequest, PromoteRequest, EndRequest, Running, TaskState
        <3>3. task[t][i] # "none"
            BY <2>5, Zenon DEF TaskStep, AuthenticateRequest, LabelRequest, PromoteRequest, EndRequest
        <3>4. \A u \in Conn, j \in Request :
                \/ u = t /\ j = i /\ task'[u][j] = s
                \/ task'[u][j] = task[u][j]
            BY <3>2, Zenon DEF SetTask
        <3>5. ASSUME NEW u \in Conn, NEW j \in Request, j > received'[u]
              PROVE  task'[u][j] = "none"
            <4>1. task[u][j] = "none"
                BY <3>1, <3>5, Zenon
            <4> HIDE DEF AuthInv, TunnelType
            <4> QED BY <3>3, <3>4, <4>1, Zenon
        <3>6. \A u \in Conn, j \in Request :
                task'[u][j] \in Running => Authorised(u, auth[u][j])
            BY <3>2, <3>4
        <3> QED BY <3>1, <3>5, <3>6, SMTT(30)
    <2> HIDE DEF AuthInv
    <2> QED BY <1>2, <2>2, <2>3, <2>4, <2>5, Zenon DEF ConnStep, ClientStep
<1> QED BY <1>1, <1>2, Zenon DEF Next

\* AuthInv holds in every reachable state.
LEMMA AuthInvariant == Spec => [](TypeOK /\ AuthInv)
    BY TypeInit, TypeStep, AuthInit, AuthStep, PTL DEF Spec

\* Whatever the configuration, a request is served only for a client the
\* registry knows (tunnel.rs 244-283, core.rs 767-797).
THEOREM OnlyKnownClientsServed == Spec => []ServedIsAuthenticated
<1>1. TypeOK /\ AuthInv => ServedIsAuthenticated
    <2> SUFFICES ASSUME TypeOK, AuthInv, HasAuthenticator,
                        NEW t \in Conn, NEW i \in Request, task[t][i] \in Running
                 PROVE  \/ auth[t][i] \in Client
                        \/ auth[t][i] = NoCreds /\ sni[t] \in Client
        BY Zenon DEF ServedIsAuthenticated, Running
    <2>1. received[t] # 0
        BY DEF AuthInv, Running, TypeOK, Request
    <2> QED BY <2>1, Zenon DEF AuthInv, Authorised, SniChecked
<1> QED BY <1>1, AuthInvariant, PTL

-----------------------------------------------------------------------------
(* Connection slots.                                                       *)

\* Only open and closing tunnels hold a slot, no counter is above its limit, and
\* an open tunnel that was authenticated in either way holds one.
SlotInv ==
    /\ \A t \in Conn : guard[t] # NoCreds => stage[t] \in {"open", "closing"}
    /\ \A c \in Client, k \in Class :
          LimitOf(c, k) # NoLimit => count[c][k] <= LimitOf(c, k)
    /\ SlotsBalanced
    /\ HasLimiter =>
          \A t \in Conn : stage[t] = "open" /\ guard[t] = NoCreds =>
              /\ ~SniChecked(t)
              /\ \A i \in Request :
                    HasAuthenticator /\ task[t][i] # "none" => auth[t][i] \notin Client

\* A limit is a natural number or NoLimit.
LEMMA LimitType == \A c \in Client, k \in Class : LimitOf(c, k) \in Nat \union {NoLimit}
    BY MaxConnsAssumption, DefaultMaxAssumption, Zenon DEF LimitOf

\* A set of holders is finite.
LEMMA HoldersFinite ==
    \A c, k : IsFiniteSet(Holders(c, k)) /\ Cardinality(Holders(c, k)) \in Nat
<1> TAKE c, k
<1>1. Holders(c, k) \in SUBSET Conn
    BY Zenon DEF Holders
<1>2. IsFiniteSet(Holders(c, k))
    BY <1>1, ConnAssumption, FS_Subset, Zenon
<1> QED BY <1>2, FS_CardinalityType, Zenon

\* Initially no slot is in use.
LEMMA SlotInit == Init => SlotInv
<1> SUFFICES ASSUME Init PROVE SlotInv
    BY Zenon
<1>1. \A c \in Client, k \in Class : count[c][k] = 0
    BY Zenon DEF Init, LimiterInit
<1>2. \A c \in Client, k \in Class : Holders(c, k) = {}
    BY CredsAssumption, Zenon DEF Init, Holders
<1>3. SlotsBalanced
    BY <1>1, <1>2, FS_EmptySet, Zenon DEF SlotsBalanced
<1>4. \A c \in Client, k \in Class : LimitOf(c, k) # NoLimit => count[c][k] <= LimitOf(c, k)
    BY <1>1, LimitType DEF NoLimit
<1> QED BY <1>3, <1>4 DEF Init, SlotInv

\* Taking a slot, as OpenTunnel and ReceiveRequest do.
LEMMA AcquireSlot ==
    ASSUME TypeOK, SlotsBalanced, NEW t \in Conn, NEW c \in Client,
           guard[t] = NoCreds, TryAcquire(c, protocol[t]),
           guard' = [guard EXCEPT ![t] = c], UNCHANGED protocol
    PROVE  SlotsBalanced'
<1>1. PICK k0 \in Class : k0 = ClassOf(protocol[t])
    BY ClassType, Zenon DEF TypeOK
<1>2. c # NoCreds
    BY CredsAssumption, Zenon
<1>3. Holders(c, k0)' = Holders(c, k0) \union {t}
    BY <1>1, <1>2 DEF Holders, TypeOK
<1>4. t \notin Holders(c, k0)
    BY <1>1, <1>2, Zenon DEF Holders
<1>5. Cardinality(Holders(c, k0)') = Cardinality(Holders(c, k0)) + 1
    BY <1>3, <1>4, HoldersFinite, FS_AddElement, Zenon
<1>6. \A d \in Client, k \in Class : ~(d = c /\ k = k0) => Holders(d, k)' = Holders(d, k)
    BY <1>1, CredsAssumption DEF Holders, TypeOK
<1>7. \A d \in Client, k \in Class :
        count'[d][k] = IF d = c /\ k = k0 THEN count[d][k] + 1 ELSE count[d][k]
    BY <1>1, Zenon DEF TryAcquire, TypeOK
<1>8. ASSUME NEW d \in Client, NEW k \in Class
      PROVE  count'[d][k] = Cardinality(Holders(d, k)')
    <2>1. count[d][k] = Cardinality(Holders(d, k))
        BY Zenon DEF SlotsBalanced
    <2>2. CASE d = c /\ k = k0
        BY <2>1, <2>2, <1>5, <1>7
    <2>3. CASE ~(d = c /\ k = k0)
        BY <2>1, <2>3, <1>6, <1>7
    <2> QED BY <2>2, <2>3, Zenon
<1> QED BY <1>8, Zenon DEF SlotsBalanced

\* Giving a slot back, as dropping the guard does.
LEMMA ReleaseSlot ==
    ASSUME TypeOK, SlotsBalanced, NEW t \in Conn, NEW c \in Client,
           guard[t] = c, Release(c, protocol[t]),
           guard' = [guard EXCEPT ![t] = NoCreds], UNCHANGED protocol
    PROVE  SlotsBalanced'
<1>1. PICK k0 \in Class : k0 = ClassOf(protocol[t])
    BY ClassType, Zenon DEF TypeOK
<1>2. c # NoCreds
    BY CredsAssumption, Zenon
<1>3. Holders(c, k0)' = Holders(c, k0) \ {t}
    BY <1>1, <1>2 DEF Holders, TypeOK
<1>4. t \in Holders(c, k0)
    BY <1>1, <1>2, Zenon DEF Holders
<1>5. Cardinality(Holders(c, k0)') = Cardinality(Holders(c, k0)) - 1
    <2>1. Cardinality(Holders(c, k0) \ {t}) = Cardinality(Holders(c, k0)) - 1
        BY <1>4, HoldersFinite, FS_RemoveElement, Zenon
    <2> QED BY <1>3, <2>1, Zenon
<1>6. \A d \in Client, k \in Class : ~(d = c /\ k = k0) => Holders(d, k)' = Holders(d, k)
    BY <1>1, CredsAssumption DEF Holders, TypeOK
<1>7. Cardinality(Holders(c, k0)) > 0
    BY <1>4, HoldersFinite, FS_EmptySet
<1>8. \A d \in Client, k \in Class :
        count'[d][k] = IF d = c /\ k = k0
                       THEN (IF count[d][k] > 0 THEN count[d][k] - 1 ELSE 0)
                       ELSE count[d][k]
    BY <1>1, Zenon DEF Release, TypeOK
<1>9. ASSUME NEW d \in Client, NEW k \in Class
      PROVE  count'[d][k] = Cardinality(Holders(d, k)')
    <2>1. count[d][k] = Cardinality(Holders(d, k))
        BY Zenon DEF SlotsBalanced
    <2>2. CASE d = c /\ k = k0
        BY <2>1, <2>2, <1>5, <1>7, <1>8
    <2>3. CASE ~(d = c /\ k = k0)
        BY <2>1, <2>3, <1>6, <1>8
    <2> QED BY <2>2, <2>3
<1> QED BY <1>9, Zenon DEF SlotsBalanced

\* Steps that leave the slots alone leave them balanced.
LEMMA SameSlots ==
    ASSUME TypeOK, SlotsBalanced, UNCHANGED <<count, guard>>,
           \A t \in Conn : guard[t] # NoCreds => protocol'[t] = protocol[t]
    PROVE  SlotsBalanced'
<1>1. \A c \in Client, k \in Class : Holders(c, k)' = Holders(c, k)
    BY CredsAssumption, Zenon DEF Holders
<1>2. ASSUME NEW c \in Client, NEW k \in Class
      PROVE  count'[c][k] = Cardinality(Holders(c, k)')
    <2>1. Holders(c, k)' = Holders(c, k)
        BY <1>1, Zenon
    <2> QED BY <2>1, Zenon DEF SlotsBalanced
<1> QED BY <1>2 DEF SlotsBalanced

\* try_acquire never takes a counter above its limit.
LEMMA AcquireWithinLimit ==
    ASSUME TypeOK, SlotInv, NEW c \in Client, NEW p \in Protocol,
           CanAcquire(c, p), TryAcquire(c, p), NEW d \in Client, NEW k \in Class,
           LimitOf(d, k) # NoLimit
    PROVE  count'[d][k] <= LimitOf(d, k)
<1>1. PICK k0 \in Class : k0 = ClassOf(p)
    BY ClassType, Zenon
<1>2. count'[d][k] = IF d = c /\ k = k0 THEN count[d][k] + 1 ELSE count[d][k]
    BY <1>1, Zenon DEF TryAcquire, TypeOK
<1>3. count[d][k] \in Nat /\ count[d][k] <= LimitOf(d, k)
    BY DEF TypeOK, SlotInv
<1>4. LimitOf(d, k) \in Nat
    BY LimitType, Zenon
<1>5. d = c /\ k = k0 => count[d][k] < LimitOf(d, k)
    BY <1>1, Zenon DEF CanAcquire
<1> QED BY <1>2, <1>3, <1>4, <1>5

\* release never takes a counter up.
LEMMA ReleaseWithinLimit ==
    ASSUME TypeOK, SlotInv, NEW c \in Client, NEW p \in Protocol,
           Release(c, p), NEW d \in Client, NEW k \in Class, LimitOf(d, k) # NoLimit
    PROVE  count'[d][k] <= LimitOf(d, k)
<1>1. ClassOf(p) \in Class
    BY ClassType, Zenon
<1>2. count'[d][k] = count[d][k] \/ count'[d][k] = count[d][k] - 1 \/ count'[d][k] = 0
    BY <1>1, Zenon DEF Release, TypeOK
<1>3. count[d][k] \in Nat /\ count[d][k] <= LimitOf(d, k)
    BY DEF TypeOK, SlotInv
<1>4. LimitOf(d, k) \in Nat
    BY LimitType, Zenon
<1> QED BY <1>2, <1>3, <1>4

\* Every step of a connection, of its client and of a request task keeps SlotInv.
LEMMA SlotStep ==
    ASSUME TypeOK, AuthInv, SlotInv, [Next]_vars
    PROVE  SlotInv'
<1> DEFINE Held == \A t \in Conn : guard[t] # NoCreds => stage[t] \in {"open", "closing"}
           Below == \A c \in Client, k \in Class :
                       LimitOf(c, k) # NoLimit => count[c][k] <= LimitOf(c, k)
           Bare(t) == /\ ~SniChecked(t)
                      /\ \A i \in Request :
                            HasAuthenticator /\ task[t][i] # "none" => auth[t][i] \notin Client
           Charged == HasLimiter =>
                         \A t \in Conn : stage[t] = "open" /\ guard[t] = NoCreds => Bare(t)
<1>0. /\ SlotInv <=> Held /\ Below /\ SlotsBalanced /\ Charged
      /\ SlotInv' <=> Held' /\ Below' /\ SlotsBalanced' /\ Charged'
    BY Zenon DEF SlotInv
<1>1. CASE UNCHANGED vars
    <2>1. SlotsBalanced'
        BY <1>1, SameSlots DEF SlotInv, vars, tunnelVars
    <2> QED BY <1>0, <1>1, <2>1, Zenon DEF vars, tunnelVars, SniChecked
<1>2. ASSUME NEW t \in Conn,
             ConnStep(t) \/ ClientStep(t) \/ \E i \in Request : TaskStep(t, i)
      PROVE  SlotInv'
    <2>0. TunnelType /\ protocol[t] \in Protocol
        BY Zenon DEF TunnelType, TypeOK
    <2>1. ASSUME UNCHANGED <<count, guard, protocol, sni, task, auth>>,
                 NEW s \in Stage, Goto(t, s), s # "open",
                 s = "closing" \/ stage[t] \notin {"open", "closing"}
          PROVE  SlotInv'
        <3>1. SlotsBalanced'
            BY <2>1, SameSlots, Zenon DEF SlotInv
        <3>2. Held' /\ Charged'
            BY <1>0, <2>0, <2>1, Zenon DEF Goto, TunnelType, SniChecked
        <3> QED BY <1>0, <2>1, <3>1, <3>2, Zenon
    <2>2. CASE \/ CountTunnel(t) \/ RecordTunnel(t) \/ RefuseTunnel(t)
               \/ UncountTunnel(t) \/ ForgetTunnel(t)
               \/ CodecFails(t) \/ EndTunnel(t)
               \/ \E r : ExceedLimit(t, r)
        <3> HIDE DEF Held, Below, Charged
        <3> QED
            BY <2>1, <2>2, Zenon
            DEF CountTunnel, RecordTunnel, RefuseTunnel, UncountTunnel, ForgetTunnel,
                CodecFails, EndTunnel, ExceedLimit, Stage
    <2>3. ASSUME NEW p, NEW c, Accept(t, p, c) PROVE SlotInv'
        <3>1. guard[t] = NoCreds
            BY <1>0, <2>3, Zenon DEF Accept
        <3>2. SlotsBalanced'
            BY <2>0, <2>3, <3>1, SameSlots, Zenon DEF SlotInv, Accept, TunnelType
        <3>3. Held' /\ Charged'
            BY <1>0, <2>0, <2>3, <3>1 DEF Accept, Goto, TunnelType, SniChecked
        <3> QED BY <1>0, <2>3, <3>2, <3>3, SMTT(30) DEF Accept
    <2>4. CASE OpenTunnel(t)
        <3>0. guard[t] = NoCreds /\ \A i \in Request : task[t][i] = "none"
            BY <1>0, <2>4, SMTT(30) DEF OpenTunnel, AuthInv, Request
        <3>1. CASE SniChecked(t) /\ HasLimiter
            <4>1. sni[t] \in Client /\ CanAcquire(sni[t], protocol[t])
                  /\ TryAcquire(sni[t], protocol[t])
                BY <2>4, <3>1, Zenon DEF OpenTunnel
            <4>2. guard' = [guard EXCEPT ![t] = sni[t]] /\ Goto(t, "open")
                  /\ UNCHANGED <<protocol, sni, task, auth>>
                BY <2>4, <3>1, Zenon DEF OpenTunnel
            <4>3. PICK c \in Client : c = sni[t]
                BY <4>1, Zenon
            <4>4. SlotsBalanced'
                BY <3>0, <4>1, <4>2, <4>3, AcquireSlot, Zenon DEF SlotInv
            <4>5. Below'
                BY <2>0, <4>1, <4>3, AcquireWithinLimit
            <4>6. Held' /\ Charged'
                BY <1>0, <2>0, <4>2, <4>3, CredsAssumption, Zenon DEF Goto, TunnelType, SniChecked
            <4> QED BY <1>0, <4>4, <4>5, <4>6
        <3>2. CASE ~(SniChecked(t) /\ HasLimiter)
            <4>1. Goto(t, "open") /\ UNCHANGED <<count, guard, protocol, sni, task, auth>>
                BY <2>4, <3>2 DEF OpenTunnel
            <4>2. SlotsBalanced'
                BY <4>1, SameSlots, Zenon DEF SlotInv
            <4>3. Held' /\ Charged'
                BY <1>0, <2>0, <3>0, <3>2, <4>1 DEF Goto, TunnelType, SniChecked
            <4> QED BY <1>0, <4>1, <4>2, <4>3, Zenon
        <3> QED BY <3>1, <3>2, Zenon
    <2>5. CASE DropTunnel(t)
        <3>1. guard' = [guard EXCEPT ![t] = NoCreds] /\ Goto(t, "dropped")
              /\ UNCHANGED <<protocol, sni, task, auth>>
            BY <2>5, Zenon DEF DropTunnel
        <3>2. Held' /\ Charged'
            BY <1>0, <2>0, <3>1, Zenon DEF Goto, TunnelType, SniChecked
        <3>3. CASE guard[t] # NoCreds
            <4>1. PICK c \in Client : c = guard[t]
                BY <2>0, <3>3, Zenon DEF TunnelType
            <4>2. Release(c, protocol[t])
                BY <2>5, <3>3, <4>1, Zenon DEF DropTunnel
            <4>3. SlotsBalanced'
                BY <3>1, <4>1, <4>2, ReleaseSlot, Zenon DEF SlotInv
            <4>4. Below'
                BY <2>0, <4>2, ReleaseWithinLimit, Zenon
            <4> QED BY <1>0, <3>2, <4>3, <4>4
        <3>4. CASE guard[t] = NoCreds
            <4>1. UNCHANGED <<count, guard>>
                BY <2>0, <2>5, <3>1, <3>4 DEF DropTunnel, TunnelType
            <4>2. SlotsBalanced'
                BY <3>1, <4>1, SameSlots DEF SlotInv
            <4> QED BY <1>0, <3>2, <4>1, <4>2, Zenon
        <3> QED BY <3>3, <3>4, Zenon
    <2>6. ASSUME NEW r \in Creds \union {NoCreds, Malformed}, ReceiveRequest(t, r)
          PROVE  SlotInv'
        <3>1. UNCHANGED <<stage, protocol, sni>> /\ stage[t] = "open"
            BY <2>6, Zenon DEF ReceiveRequest
        <3>2. \A u \in Conn, i \in Request :
                \/ u = t /\ auth'[u][i] = r
                \/ task'[u][i] = task[u][i] /\ auth'[u][i] = auth[u][i]
            BY <2>0, <2>6, Zenon DEF ReceiveRequest, Spawn, TunnelType
        <3>3. CASE NeedsSlot(t, r)
            <4>1. r \in Client /\ guard[t] = NoCreds
                BY <3>3, Zenon DEF NeedsSlot
            <4>2. /\ CanAcquire(r, protocol[t]) /\ TryAcquire(r, protocol[t])
                  /\ guard' = [guard EXCEPT ![t] = r]
                BY <2>6, <3>3, Zenon DEF ReceiveRequest
            <4>3. SlotsBalanced'
                BY <3>1, <4>1, <4>2, AcquireSlot, Zenon DEF SlotInv
            <4>4. Below'
                BY <2>0, <4>1, <4>2, AcquireWithinLimit, Zenon
            <4>5. Held'
                BY <1>0, <2>0, <3>1, <4>2, Zenon DEF TunnelType
            <4>6. ASSUME NEW u \in Conn, stage'[u] = "open", guard'[u] = NoCreds, HasLimiter
                  PROVE  Bare(u)'
                <5>1. u # t /\ guard[u] = NoCreds /\ stage[u] = "open"
                    BY <2>0, <3>1, <4>1, <4>2, <4>6, CredsAssumption, Zenon DEF TunnelType
                <5>2. Bare(u)
                    BY <1>0, <4>6, <5>1
                <5> QED BY <3>1, <3>2, <5>1, <5>2 DEF SniChecked
            <4> QED BY <1>0, <4>3, <4>4, <4>5, <4>6
        <3>4. CASE ~NeedsSlot(t, r)
            <4>1. UNCHANGED <<count, guard>>
                BY <2>6, <3>4, Zenon DEF ReceiveRequest
            <4>2. SlotsBalanced'
                BY <3>1, <4>1, SameSlots DEF SlotInv
            <4>3. ASSUME NEW u \in Conn, stage'[u] = "open", guard'[u] = NoCreds, HasLimiter
                  PROVE  Bare(u)'
                <5>1. Bare(u)
                    BY <1>0, <3>1, <4>1, <4>3
                <5>2. u = t => ~HasAuthenticator \/ r \notin Client
                    BY <3>4, <4>1, <4>3, Zenon DEF NeedsSlot
                <5> QED BY <3>1, <3>2, <5>1, <5>2, Zenon DEF SniChecked
            <4> QED BY <1>0, <3>1, <4>1, <4>2, <4>3
        <3> QED BY <3>3, <3>4, Zenon
    <2>7. ASSUME NEW i \in Request, TaskStep(t, i) PROVE SlotInv'
        <3>1. UNCHANGED <<count, stage, protocol, sni, guard, auth>>
            BY <2>7, Zenon DEF TaskStep, AuthenticateRequest, LabelRequest, PromoteRequest, EndRequest
        <3>2. \A u \in Conn, j \in Request : task[u][j] = "none" => task'[u][j] = "none"
            <4>1. task[t][i] # "none" /\ \E s : SetTask(t, i, s)
                BY <2>7, Zenon DEF TaskStep, AuthenticateRequest, LabelRequest, PromoteRequest, EndRequest
            <4> QED BY <2>0, <4>1, SMTT(30) DEF SetTask, TunnelType
        <3>3. SlotsBalanced'
            BY <3>1, SameSlots, Zenon DEF SlotInv
        <3>4. ASSUME NEW u \in Conn, stage'[u] = "open", guard'[u] = NoCreds, HasLimiter
              PROVE  Bare(u)'
            <4>1. Bare(u)
                BY <1>0, <3>1, <3>4, Zenon
            <4> QED BY <3>1, <3>2, <4>1, Zenon DEF SniChecked
        <3> QED BY <1>0, <3>1, <3>3, <3>4, Zenon
    <2> HIDE DEF Held, Below, Charged, Bare
    <2> QED BY <1>2, <2>2, <2>3, <2>4, <2>5, <2>6, <2>7, Zenon DEF ConnStep, ClientStep
<1> QED BY <1>1, <1>2 DEF Next

\* SlotInv holds in every reachable state.
LEMMA SlotInvariant == Spec => [](TypeOK /\ AuthInv /\ SlotInv)
    BY AuthInvariant, SlotInit, SlotStep, PTL DEF Spec

\* The limiter's counters are the slots in use, for any number of connections.
THEOREM SlotsAreCounted == Spec => []SlotsBalanced
<1>1. SlotInv => SlotsBalanced
    BY Zenon DEF SlotInv
<1> QED BY <1>1, SlotInvariant, PTL

\* No client ever holds more connections of a class than its limit.
THEOREM LimitsHold == Spec => []LimitRespected
<1>1. SlotInv => LimitRespected
    <2> SUFFICES ASSUME SlotInv, NEW c \in Client, NEW k \in Class, LimitOf(c, k) # NoLimit
                 PROVE  Cardinality(Holders(c, k)) <= LimitOf(c, k)
        BY Zenon DEF LimitRespected
    <2>1. count[c][k] = Cardinality(Holders(c, k)) /\ count[c][k] <= LimitOf(c, k)
        BY Zenon DEF SlotInv, SlotsBalanced
    <2> QED BY <2>1, Zenon
<1> QED BY <1>1, SlotInvariant, PTL

\* A tunnel that serves an authenticated request and is still open was charged
\* for.
THEOREM ServedIsCharged == Spec => []ServedTunnelHoldsSlot
<1>1. TypeOK /\ AuthInv /\ SlotInv => ServedTunnelHoldsSlot
    <2> SUFFICES ASSUME TypeOK, AuthInv, SlotInv, HasLimiter, HasAuthenticator,
                        NEW t \in Conn, NEW i \in Request, stage[t] = "open",
                        task[t][i] \in Running, guard[t] = NoCreds
                 PROVE  FALSE
        BY Zenon DEF ServedTunnelHoldsSlot, Running
    <2>1. Authorised(t, auth[t][i])
        BY Zenon DEF AuthInv
    <2>2. ~SniChecked(t) /\ auth[t][i] \notin Client
        BY Zenon DEF SlotInv, Running
    <2> QED BY <2>1, <2>2, Zenon DEF Authorised, SniChecked
<1> QED BY <1>1, SlotInvariant, PTL

-----------------------------------------------------------------------------
(* The session metrics.                                                    *)

One(b) == IF b THEN 1 ELSE 0

Sessions(p) == {t \in Conn : InSession(t) /\ protocol[t] = p}

\* The clients map follows the stages, and a session that has no entry of its own
\* in the gauges yet has no name in the map.
MetricsInv ==
    /\ EntriesMatchConnections
    /\ \A t \in Conn : stage[t] \in {"registered", "counted"} => label[t] = NoName
    /\ \A p \in Protocol : sessions[p] = Cardinality(Sessions(p))
    /\ \A u \in Label, p \in Protocol :
          perUser[u][p] = IF PerClient THEN Cardinality(Counted(u, p)) ELSE 0

\* Two sets that differ at most in one element.
LEMMA CardinalityByElement ==
    ASSUME NEW S, NEW T, NEW x, IsFiniteSet(S), IsFiniteSet(T), S \ {x} = T \ {x}
    PROVE  Cardinality(T) = Cardinality(S) + One(x \in T) - One(x \in S)
<1>1. Cardinality(S \ {x}) = Cardinality(S) - One(x \in S)
    BY FS_RemoveElement, FS_CardinalityType DEF One
<1>2. Cardinality(T \ {x}) = Cardinality(T) - One(x \in T)
    BY FS_RemoveElement, FS_CardinalityType DEF One
<1>3. Cardinality(S) \in Nat /\ Cardinality(T) \in Nat
    BY FS_CardinalityType, Zenon
<1> QED BY <1>1, <1>2, <1>3 DEF One

\* The sets the gauges count are finite.
LEMMA CountedFinite ==
    /\ \A p : IsFiniteSet(Sessions(p)) /\ IsFiniteSet(Sessions(p)')
    /\ \A u, p : IsFiniteSet(Counted(u, p)) /\ IsFiniteSet(Counted(u, p)')
<1>1. \A p : Sessions(p) \in SUBSET Conn /\ Sessions(p)' \in SUBSET Conn
    BY Zenon DEF Sessions
<1>2. \A u, p : Counted(u, p) \in SUBSET Conn /\ Counted(u, p)' \in SUBSET Conn
    BY Zenon DEF Counted
<1> QED BY <1>1, <1>2, ConnAssumption, FS_Subset, Zenon

\* What a step of connection t must do to the gauges.
LEMMA GaugesFollow ==
    ASSUME MetricsInv, NEW t \in Conn,
           \A x \in Conn \ {t} : /\ stage'[x] = stage[x] /\ protocol'[x] = protocol[x]
                                 /\ sni'[x] = sni[x] /\ label'[x] = label[x],
           \A p \in Protocol :
              sessions'[p] = sessions[p] + One(t \in Sessions(p)') - One(t \in Sessions(p)),
           \A u \in Label, p \in Protocol :
              perUser'[u][p] = IF PerClient
                               THEN perUser[u][p] + One(t \in Counted(u, p)')
                                                  - One(t \in Counted(u, p))
                               ELSE perUser[u][p]
    PROVE  /\ \A p \in Protocol : sessions'[p] = Cardinality(Sessions(p)')
           /\ \A u \in Label, p \in Protocol :
                perUser'[u][p] = IF PerClient THEN Cardinality(Counted(u, p)') ELSE 0
<1>1. ASSUME NEW p \in Protocol PROVE sessions'[p] = Cardinality(Sessions(p)')
    <2>1. Sessions(p)' \ {t} = Sessions(p) \ {t}
        BY Zenon DEF Sessions, InSession
    <2>2. Cardinality(Sessions(p)') =
            Cardinality(Sessions(p)) + One(t \in Sessions(p)') - One(t \in Sessions(p))
        BY <2>1, CountedFinite, CardinalityByElement
    <2> QED BY <2>2, Zenon DEF MetricsInv
<1>2. ASSUME NEW u \in Label, NEW p \in Protocol
      PROVE  perUser'[u][p] = IF PerClient THEN Cardinality(Counted(u, p)') ELSE 0
    <2>1. Counted(u, p)' \ {t} = Counted(u, p) \ {t}
        BY DEF Counted, CountedUnder, SniUser
    <2>2. Cardinality(Counted(u, p)') =
            Cardinality(Counted(u, p)) + One(t \in Counted(u, p)') - One(t \in Counted(u, p))
        BY <2>1, CountedFinite, CardinalityByElement
    <2> QED BY <2>2 DEF MetricsInv
<1> QED BY <1>1, <1>2, Zenon

\* Initially there is no session and the gauges are zero.
LEMMA MetricsInitially == Init => MetricsInv
<1> SUFFICES ASSUME Init PROVE MetricsInv
    BY Zenon
<1>1. \A p : Sessions(p) = {}
    BY Zenon DEF Init, Sessions, InSession
<1>2. \A u, p : Counted(u, p) = {}
    BY Zenon DEF Init, Counted
<1>3. EntriesMatchConnections
    BY Zenon DEF Init, MetricsInit, EntriesMatchConnections
<1> QED BY <1>1, <1>2, <1>3, FS_EmptySet, Zenon DEF Init, MetricsInit, MetricsInv

\* A step that changes no gauge and moves a connection in or out of no set the
\* gauges count.
LEMMA QuietStep ==
    ASSUME TypeOK, MetricsInv, NEW t \in Conn, NEW s \in Stage,
           stage' = [stage EXCEPT ![t] = s], UNCHANGED <<sessions, perUser>>,
           \A x \in Conn \ {t} : protocol'[x] = protocol[x] /\ sni'[x] = sni[x] /\ label'[x] = label[x],
           \A p \in Protocol : t \in Sessions(p)' <=> t \in Sessions(p),
           \A u \in Label, p \in Protocol : t \in Counted(u, p)' <=> t \in Counted(u, p),
           EntriesMatchConnections', s \in {"registered", "counted"} => label'[t] = NoName
    PROVE  MetricsInv'
<1>1. /\ \A p \in Protocol :
           sessions'[p] = sessions[p] + One(t \in Sessions(p)') - One(t \in Sessions(p))
      /\ \A u \in Label, p \in Protocol :
           perUser'[u][p] = IF PerClient
                            THEN perUser[u][p] + One(t \in Counted(u, p)')
                                               - One(t \in Counted(u, p))
                            ELSE perUser[u][p]
    <2>1. ASSUME NEW p \in Protocol
          PROVE  sessions'[p] = sessions[p] + One(t \in Sessions(p)') - One(t \in Sessions(p))
        <3>1. One(t \in Sessions(p)') = One(t \in Sessions(p)) /\ One(t \in Sessions(p)) \in Int
            BY DEF One
        <3>2. sessions[p] \in Int /\ sessions'[p] = sessions[p]
            BY Zenon DEF TypeOK
        <3> QED BY <3>1, <3>2
    <2>2. ASSUME NEW u \in Label, NEW p \in Protocol
          PROVE  perUser'[u][p] = IF PerClient
                                  THEN perUser[u][p] + One(t \in Counted(u, p)')
                                                     - One(t \in Counted(u, p))
                                  ELSE perUser[u][p]
        <3>1. /\ One(t \in Counted(u, p)') = One(t \in Counted(u, p))
              /\ One(t \in Counted(u, p)) \in Int
            BY DEF One
        <3>2. perUser[u][p] \in Int /\ perUser'[u][p] = perUser[u][p]
            BY Zenon DEF TypeOK
        <3> QED BY <3>1, <3>2
    <2> QED BY <2>1, <2>2, Zenon
<1>2. \A x \in Conn \ {t} : /\ stage'[x] = stage[x] /\ protocol'[x] = protocol[x]
                            /\ sni'[x] = sni[x] /\ label'[x] = label[x]
    BY Zenon DEF TypeOK
<1>3. /\ \A p \in Protocol : sessions'[p] = Cardinality(Sessions(p)')
      /\ \A u \in Label, p \in Protocol :
           perUser'[u][p] = IF PerClient THEN Cardinality(Counted(u, p)') ELSE 0
    BY <1>1, <1>2, GaugesFollow, Zenon
<1>4. \A x \in Conn : stage'[x] \in {"registered", "counted"} => label'[x] = NoName
    BY <1>2 DEF MetricsInv, TypeOK
<1> QED BY <1>3, <1>4, Zenon DEF MetricsInv

\* The sets the gauges count, for one connection.
LEMMA Membership ==
    ASSUME NEW t \in Conn
    PROVE  /\ \A p : t \in Sessions(p) <=>
                /\ stage[t] \in {"counted", "recorded", "open", "closing", "dropped"}
                /\ protocol[t] = p
           /\ \A u, p : t \in Counted(u, p) <=>
                /\ stage[t] \in {"counted", "recorded", "open", "closing", "dropped", "uncounted"}
                /\ protocol[t] = p
                /\ (IF stage[t] = "counted" THEN SniUser(t) ELSE label[t]) = u
    BY Zenon DEF Sessions, InSession, Counted, CountedUnder

\* The same sets after a step.
LEMMA MembershipNext ==
    ASSUME NEW t \in Conn
    PROVE  /\ \A p : t \in Sessions(p)' <=>
                /\ stage'[t] \in {"counted", "recorded", "open", "closing", "dropped"}
                /\ protocol'[t] = p
           /\ \A u, p : t \in Counted(u, p)' <=>
                /\ stage'[t] \in {"counted", "recorded", "open", "closing", "dropped", "uncounted"}
                /\ protocol'[t] = p
                /\ (IF stage'[t] = "counted" THEN SniUser(t)' ELSE label'[t]) = u
    BY Zenon DEF Sessions, InSession, Counted, CountedUnder

\* Every step of a connection, of its client and of a request task keeps MetricsInv.
LEMMA MetricsStep ==
    ASSUME TypeOK, TypeOK', AuthInv, MetricsInv, [Next]_vars
    PROVE  MetricsInv'
<1>1. CASE UNCHANGED vars
    BY <1>1 DEF MetricsInv, vars, metricsVars, tunnelVars, EntriesMatchConnections,
                Sessions, InSession, Counted, CountedUnder, SniUser
<1>2. ASSUME NEW t \in Conn,
             ConnStep(t) \/ ClientStep(t) \/ \E i \in Request : TaskStep(t, i)
      PROVE  MetricsInv'
    <2>0. /\ stage \in [Conn -> Stage] /\ protocol \in [Conn -> Protocol]
          /\ label \in [Conn -> Label] /\ sni \in [Conn -> Creds \union {NoCreds}]
          /\ sessions \in [Protocol -> Int] /\ perUser \in [Label -> [Protocol -> Int]]
        BY Zenon DEF TypeOK
    <2>e. entries = {x \in Conn : stage[x] \notin {"absent", "closed"}}
        BY Zenon DEF MetricsInv, EntriesMatchConnections
    <2>u. SniUser(t) \in Label /\ label[t] \in Label /\ protocol[t] \in Protocol
        BY <2>0, SniUserType, Zenon
    <2>1. ASSUME NEW s \in Stage, Goto(t, s), UNCHANGED <<metricsVars, protocol, sni>>,
                 \/ stage[t] \in {"recorded", "open", "closing"} /\ s \in {"open", "closing", "dropped"}
          PROVE  MetricsInv'
        <3>1. stage' = [stage EXCEPT ![t] = s] /\ stage'[t] = s
            BY <2>0, <2>1, Zenon DEF Goto
        <3>2. UNCHANGED <<sessions, perUser, entries, label, protocol, sni>>
            BY <2>1, Zenon DEF metricsVars
        <3>3. EntriesMatchConnections'
            BY <2>0, <2>1, <2>e, <3>1, <3>2, SMTT(30) DEF EntriesMatchConnections
        <3>4. \A p \in Protocol : t \in Sessions(p)' <=> t \in Sessions(p)
            BY <2>1, <3>1, <3>2, Membership, MembershipNext, SMTT(30)
        <3>5. \A u \in Label, p \in Protocol : t \in Counted(u, p)' <=> t \in Counted(u, p)
            BY <2>1, <3>1, <3>2, Membership, MembershipNext
        <3> QED BY <2>1, <3>1, <3>2, <3>3, <3>4, <3>5, QuietStep, Zenon
    <2>2. CASE \/ OpenTunnel(t) \/ RefuseTunnel(t) \/ DropTunnel(t) \/ EndTunnel(t)
               \/ \E r : ExceedLimit(t, r)
        BY <2>1, <2>2, Zenon
        DEF OpenTunnel, RefuseTunnel, DropTunnel, EndTunnel, ExceedLimit, Stage
    <2>3. ASSUME NEW p, NEW c, Accept(t, p, c) PROVE MetricsInv'
        <3>1. /\ stage[t] = "absent" /\ stage' = [stage EXCEPT ![t] = "registered"]
              /\ stage'[t] = "registered" /\ "registered" \in Stage
            BY <2>0, <2>3, Zenon DEF Accept, Goto, Stage
        <3>2. /\ entries' = entries \union {t} /\ UNCHANGED <<sessions, perUser>>
              /\ label' = [label EXCEPT ![t] = NoName]
              /\ protocol' = [protocol EXCEPT ![t] = p] /\ sni' = [sni EXCEPT ![t] = c]
            BY <2>3, <2>e, <3>1, Zenon DEF Accept, RegisterConnection
        <3>3. EntriesMatchConnections'
            BY <2>0, <2>e, <3>1, <3>2, Zenon DEF EntriesMatchConnections
        <3>4. /\ \A q \in Protocol : t \in Sessions(q)' <=> t \in Sessions(q)
              /\ \A u \in Label, q \in Protocol : t \in Counted(u, q)' <=> t \in Counted(u, q)
            BY <3>1, Membership, MembershipNext, Zenon
        <3>5. /\ label'[t] = NoName
              /\ \A x \in Conn \ {t} : protocol'[x] = protocol[x] /\ sni'[x] = sni[x] /\ label'[x] = label[x]
            BY <2>0, <3>2, Zenon
        <3> QED BY <3>1, <3>2, <3>3, <3>4, <3>5, QuietStep, Zenon
    <2>4. CASE CodecFails(t)
        <3>1. /\ stage[t] = "registered" /\ stage' = [stage EXCEPT ![t] = "closed"]
              /\ stage'[t] = "closed" /\ "closed" \in Stage
            BY <2>0, <2>4, Zenon DEF CodecFails, Goto, Stage
        <3>2. /\ entries' = entries \ {t} /\ UNCHANGED <<sessions, perUser, label, protocol, sni>>
            BY <2>4, Zenon DEF CodecFails, UnregisterConnection
        <3>3. EntriesMatchConnections'
            BY <2>0, <2>e, <3>1, <3>2, Zenon DEF EntriesMatchConnections
        <3>4. /\ \A q \in Protocol : t \in Sessions(q)' <=> t \in Sessions(q)
              /\ \A u \in Label, q \in Protocol : t \in Counted(u, q)' <=> t \in Counted(u, q)
            BY <3>1, Membership, MembershipNext
        <3> QED BY <3>1, <3>2, <3>3, <3>4, QuietStep, Zenon
    <2>5. CASE RecordTunnel(t)
        <3>1. /\ stage[t] = "counted" /\ stage' = [stage EXCEPT ![t] = "recorded"]
              /\ stage'[t] = "recorded" /\ "recorded" \in Stage
            BY <2>0, <2>5, Zenon DEF RecordTunnel, Goto, Stage
        <3>2. t \in entries /\ label[t] = NoName
            BY <2>e, <3>1, Zenon DEF MetricsInv
        <3>3. /\ entries' = entries \union {t}
              /\ UNCHANGED <<sessions, perUser, protocol, sni>>
              /\ label' = [label EXCEPT ![t] = SniUser(t)]
            BY <2>5, <3>2, Zenon DEF RecordTunnel, RecordSession
        <3>4. EntriesMatchConnections'
            BY <2>0, <2>e, <3>1, <3>3 DEF EntriesMatchConnections
        <3>5. /\ label'[t] = SniUser(t)
              /\ \A x \in Conn \ {t} : label'[x] = label[x]
            BY <2>0, <3>3, Zenon
        <3>6. /\ \A q \in Protocol : t \in Sessions(q)' <=> t \in Sessions(q)
              /\ \A u \in Label, q \in Protocol : t \in Counted(u, q)' <=> t \in Counted(u, q)
            BY <3>1, <3>3, <3>5, Membership, MembershipNext, SMTT(30)
        <3> QED BY <3>1, <3>3, <3>4, <3>5, <3>6, QuietStep, Zenon
    <2>6. ASSUME UNCHANGED <<metricsVars, stage, protocol, sni>> PROVE MetricsInv'
        BY <2>6, SMTT(30) DEF MetricsInv, metricsVars, EntriesMatchConnections,
                Sessions, InSession, Counted, CountedUnder, SniUser
    <2>7. ASSUME NEW i \in Request,
                 AuthenticateRequest(t, i) \/ PromoteRequest(t, i) \/ EndRequest(t, i)
          PROVE  MetricsInv'
        BY <2>6, <2>7, Zenon DEF AuthenticateRequest, PromoteRequest, EndRequest
    <2>8. ASSUME NEW r, ReceiveRequest(t, r) PROVE MetricsInv'
        BY <2>6, <2>8, Zenon DEF ReceiveRequest
    <2>9. ASSUME NEW s \in Stage, Goto(t, s), UNCHANGED <<protocol, sni>>,
                 s \notin {"registered", "counted"} \/ label'[t] = NoName,
                 EntriesMatchConnections',
                 \A x \in Conn \ {t} : label'[x] = label[x],
                 \A p \in Protocol :
                    sessions'[p] = sessions[p] + One(t \in Sessions(p)') - One(t \in Sessions(p)),
                 \A u \in Label, p \in Protocol :
                    perUser'[u][p] = IF PerClient
                                     THEN perUser[u][p] + One(t \in Counted(u, p)')
                                                        - One(t \in Counted(u, p))
                                     ELSE perUser[u][p]
          PROVE  MetricsInv'
        <3>1. \A x \in Conn \ {t} : /\ stage'[x] = stage[x] /\ protocol'[x] = protocol[x]
                                    /\ sni'[x] = sni[x] /\ label'[x] = label[x]
            BY <2>0, <2>9, SMTT(30) DEF Goto
        <3>2. /\ \A p \in Protocol : sessions'[p] = Cardinality(Sessions(p)')
              /\ \A u \in Label, p \in Protocol :
                   perUser'[u][p] = IF PerClient THEN Cardinality(Counted(u, p)') ELSE 0
            BY <2>9, <3>1, GaugesFollow, Zenon
        <3>3. stage'[t] = s
            BY <2>0, <2>9, SMTT(30) DEF Goto
        <3>4. \A x \in Conn : stage'[x] \in {"registered", "counted"} => label'[x] = NoName
            BY <2>9, <3>1, <3>3 DEF MetricsInv
        <3> QED BY <2>9, <3>2, <3>4, SMTT(30) DEF MetricsInv
    <2>b. 1 \in Int /\ -1 \in Int
        BY SMTT(30)
    <2>10. CASE CountTunnel(t)
        <3>1. /\ stage[t] = "registered" /\ stage' = [stage EXCEPT ![t] = "counted"]
              /\ stage'[t] = "counted" /\ "counted" \in Stage /\ Goto(t, "counted")
            BY <2>0, <2>10, Zenon DEF CountTunnel, Goto, Stage
        <3>2. /\ UNCHANGED <<entries, label, protocol, sni>>
              /\ sessions' = [sessions EXCEPT ![protocol[t]] = @ + 1]
              /\ perUser' = Bump(perUser, SniUser(t), protocol[t], 1)
            BY <2>10, Zenon DEF CountTunnel, CountSession
        <3>3. EntriesMatchConnections'
            BY <2>0, <2>e, <3>1, <3>2, SMTT(30) DEF EntriesMatchConnections
        <3>4. label'[t] = NoName /\ SniUser(t)' = SniUser(t)
            BY <3>1, <3>2, Zenon DEF MetricsInv, SniUser
        <3>5. ASSUME NEW p \in Protocol
              PROVE  sessions'[p] = sessions[p] + One(t \in Sessions(p)') - One(t \in Sessions(p))
            <4>1. One(t \in Sessions(p)) = 0
                BY <3>1, Membership, Zenon DEF One
            <4>2. One(t \in Sessions(p)') = IF protocol[t] = p THEN 1 ELSE 0
                BY <3>1, <3>2, MembershipNext, Zenon DEF One
            <4> QED BY <2>0, <3>2, <4>1, <4>2
        <3>6. ASSUME NEW u \in Label, NEW p \in Protocol
              PROVE  perUser'[u][p] = IF PerClient
                                      THEN perUser[u][p] + One(t \in Counted(u, p)')
                                                         - One(t \in Counted(u, p))
                                      ELSE perUser[u][p]
            <4>1. One(t \in Counted(u, p)) = 0
                BY <3>1, Membership, Zenon DEF One
            <4>3. t \in Counted(u, p)' <=> protocol[t] = p /\ SniUser(t) = u
                BY <3>1, <3>2, <3>4, MembershipNext
            <4>4. One(t \in Counted(u, p)') = IF protocol[t] = p /\ SniUser(t) = u THEN 1 ELSE 0
                BY <4>3, Zenon DEF One
            <4>5. perUser[u][p] \in Int
                BY <2>0, Zenon
            <4>2. perUser'[u][p] = IF PerClient /\ u = SniUser(t) /\ p = protocol[t]
                                   THEN perUser[u][p] + 1 ELSE perUser[u][p]
                BY <2>0, <2>u, <3>2, Zenon DEF Bump
            <4> QED BY <4>1, <4>2, <4>4, <4>5
        <3> QED BY <2>9, <3>1, <3>2, <3>3, <3>4, <3>5, <3>6, Zenon
    <2>11. CASE UncountTunnel(t)
        <3>1. /\ stage[t] = "dropped" /\ stage' = [stage EXCEPT ![t] = "uncounted"]
              /\ stage'[t] = "uncounted" /\ "uncounted" \in Stage /\ Goto(t, "uncounted")
            BY <2>0, <2>11, Zenon DEF UncountTunnel, Goto, Stage
        <3>2. /\ UNCHANGED <<entries, label, protocol, sni, perUser>>
              /\ sessions' = [sessions EXCEPT ![protocol[t]] = @ - 1]
            BY <2>11, Zenon DEF UncountTunnel, UncountSession
        <3>3. EntriesMatchConnections'
            BY <2>0, <2>e, <3>1, <3>2, Zenon DEF EntriesMatchConnections
        <3>4. ASSUME NEW p \in Protocol
              PROVE  sessions'[p] = sessions[p] + One(t \in Sessions(p)') - One(t \in Sessions(p))
            <4>1. One(t \in Sessions(p)') = 0
                BY <3>1, MembershipNext, Zenon DEF One
            <4>2. One(t \in Sessions(p)) = IF protocol[t] = p THEN 1 ELSE 0
                BY <3>1, Membership, Zenon DEF One
            <4> QED BY <2>0, <3>2, <4>1, <4>2
        <3>5. ASSUME NEW u \in Label, NEW p \in Protocol
              PROVE  perUser'[u][p] = IF PerClient
                                      THEN perUser[u][p] + One(t \in Counted(u, p)')
                                                         - One(t \in Counted(u, p))
                                      ELSE perUser[u][p]
            <4>1. t \in Counted(u, p)' <=> t \in Counted(u, p)
                BY <3>1, <3>2, Membership, MembershipNext
            <4>2. /\ One(t \in Counted(u, p)') = One(t \in Counted(u, p))
                  /\ One(t \in Counted(u, p)) \in Int
                BY <4>1 DEF One
            <4>3. perUser[u][p] \in Int /\ perUser'[u][p] = perUser[u][p]
                BY <2>0, <3>2, Zenon
            <4>4. \A n \in Int : perUser[u][p] = perUser[u][p] + n - n
                BY <4>3, SMTT(60)
            <4> QED BY <4>2, <4>3, <4>4, Zenon
        <3> QED BY <2>9, <3>1, <3>2, <3>3, <3>4, <3>5
    <2>12. CASE ForgetTunnel(t)
        <3>1. /\ stage[t] = "uncounted" /\ stage' = [stage EXCEPT ![t] = "closed"]
              /\ stage'[t] = "closed" /\ "closed" \in Stage /\ Goto(t, "closed")
            BY <2>0, <2>12, Zenon DEF ForgetTunnel, Goto, Stage
        <3>2. /\ UNCHANGED <<sessions, label, protocol, sni>> /\ entries' = entries \ {t}
              /\ perUser' = Bump(perUser, label[t], protocol[t], -1)
            BY <2>12, <2>e, <3>1, Zenon DEF ForgetTunnel, ForgetSession
        <3>3. EntriesMatchConnections'
            BY <2>0, <2>e, <3>1, <3>2, SMTT(30) DEF EntriesMatchConnections
        <3>4. ASSUME NEW p \in Protocol
              PROVE  sessions'[p] = sessions[p] + One(t \in Sessions(p)') - One(t \in Sessions(p))
            <4>1. One(t \in Sessions(p)') = 0
                BY <3>1, MembershipNext, Zenon DEF One
            <4>2. One(t \in Sessions(p)) = 0
                BY <3>1, Membership, Zenon DEF One
            <4> QED BY <2>0, <3>2, <4>1, <4>2, SMTT(30)
        <3>5. ASSUME NEW u \in Label, NEW p \in Protocol
              PROVE  perUser'[u][p] = IF PerClient
                                      THEN perUser[u][p] + One(t \in Counted(u, p)')
                                                         - One(t \in Counted(u, p))
                                      ELSE perUser[u][p]
            <4>1. One(t \in Counted(u, p)') = 0
                BY <3>1, MembershipNext, Zenon DEF One
            <4>3. t \in Counted(u, p) <=> protocol[t] = p /\ label[t] = u
                BY <3>1, Membership, Zenon
            <4>4. One(t \in Counted(u, p)) = IF protocol[t] = p /\ label[t] = u THEN 1 ELSE 0
                BY <4>3, Zenon DEF One
            <4>5. perUser[u][p] \in Int
                BY <2>0, Zenon
            <4>2. perUser'[u][p] = IF PerClient /\ u = label[t] /\ p = protocol[t]
                                   THEN perUser[u][p] + (-1) ELSE perUser[u][p]
                BY <2>0, <2>u, <3>2, Zenon DEF Bump
            <4> QED BY <4>1, <4>2, <4>4, <4>5, SMTT(30)
        <3> QED BY <2>9, <3>1, <3>2, <3>3, <3>4, <3>5, Zenon
    <2>13. ASSUME NEW i \in Request, LabelRequest(t, i) PROVE MetricsInv'
        <3>1. /\ task[t][i] = "passed" /\ UNCHANGED <<stage, protocol, sni>>
              /\ Goto(t, stage[t]) /\ stage[t] \in Stage
            BY <2>0, <2>13, Zenon DEF LabelRequest, Goto
        <3>2. CASE UNCHANGED metricsVars
            BY <2>6, <3>1, <3>2, Zenon
        <3>3. ASSUME ~ UNCHANGED metricsVars PROVE MetricsInv'
            <4>1. PICK v \in Label : /\ v # label[t] /\ t \in entries
                                     /\ perUser' = Bump(Bump(perUser, label[t], protocol[t], -1),
                                                        v, protocol[t], 1)
                                     /\ label' = [label EXCEPT ![t] = v]
                                     /\ UNCHANGED <<sessions, entries>>
                <5>1. auth[t][i] \in Creds => DecodeUsername[auth[t][i]] \in Label
                    BY UserAssumption, Zenon
                <5> QED BY <2>13, <3>3, <5>1 DEF LabelRequest, TransferSessionUsername
            <4>2. received[t] # 0
                <5>1. i > 0 /\ i \in Nat
                    BY MaxRequestsAssumption, SMTT(30) DEF Request
                <5>2. ~(i > received[t])
                    BY <3>1, Zenon DEF AuthInv
                <5> QED BY <5>1, <5>2, Zenon
            <4>3. stage[t] \in {"open", "closing", "dropped", "uncounted"}
                BY <2>0, <2>e, <4>1, <4>2, SMTT(20) DEF AuthInv, Stage
            <4>4. EntriesMatchConnections'
                BY <2>e, <3>1, <4>1, Zenon DEF EntriesMatchConnections
            <4>5. ASSUME NEW p \in Protocol
                  PROVE  sessions'[p] = sessions[p] + One(t \in Sessions(p)') - One(t \in Sessions(p))
                <5>1. t \in Sessions(p)' <=> t \in Sessions(p)
                    BY <3>1, Membership, MembershipNext
                <5>2. /\ One(t \in Sessions(p)') = One(t \in Sessions(p))
                      /\ One(t \in Sessions(p)) \in Int
                    BY <5>1 DEF One
                <5>3. sessions[p] \in Int /\ sessions'[p] = sessions[p]
                    BY <2>0, <4>1, Zenon
                <5>4. \A n \in Int : sessions[p] = sessions[p] + n - n
                    BY <5>3, SMTT(60)
                <5> QED BY <5>2, <5>3, <5>4, Zenon
            <4>6. ASSUME NEW u \in Label, NEW p \in Protocol
                  PROVE  perUser'[u][p] = IF PerClient
                                          THEN perUser[u][p] + One(t \in Counted(u, p)')
                                                             - One(t \in Counted(u, p))
                                          ELSE perUser[u][p]
                <5>1. /\ t \in Counted(u, p)' <=> protocol[t] = p /\ v = u
                      /\ t \in Counted(u, p) <=> protocol[t] = p /\ label[t] = u
                    BY <2>0, <3>1, <4>1, <4>3, Membership, MembershipNext
                <5>2. PICK g \in [Label -> [Protocol -> Int]] :
                        g = Bump(perUser, label[t], protocol[t], -1)
                    BY <2>0, <2>b, BumpType, Zenon
                <5>3. g[u][p] = IF PerClient /\ u = label[t] /\ p = protocol[t]
                                THEN perUser[u][p] + (-1) ELSE perUser[u][p]
                    BY <2>0, <2>u, <5>2, SMTT(30) DEF Bump
                <5>4. perUser'[u][p] = IF PerClient /\ u = v /\ p = protocol[t]
                                       THEN g[u][p] + 1 ELSE g[u][p]
                    BY <2>u, <4>1, <5>2 DEF Bump
                <5>5. perUser[u][p] \in Int
                    BY <2>0, SMTT(30)
                <5>6. One(t \in Counted(u, p)') = IF protocol[t] = p /\ v = u THEN 1 ELSE 0
                    BY <5>1, Zenon DEF One
                <5>7. One(t \in Counted(u, p)) = IF protocol[t] = p /\ label[t] = u THEN 1 ELSE 0
                    BY <5>1, Zenon DEF One
                <5> QED BY <4>1, <5>3, <5>4, <5>5, <5>6, <5>7, SMTT(20)
            <4>7. \A x \in Conn \ {t} : label'[x] = label[x]
                BY <2>0, <4>1
            <4> QED BY <2>9, <3>1, <4>3, <4>4, <4>5, <4>6, <4>7, SMTT(30)
        <3> QED BY <3>2, <3>3, Zenon
    <2> QED
        BY <1>2, <2>2, <2>3, <2>4, <2>5, <2>7, <2>8, <2>10, <2>11, <2>12, <2>13, SMTT(30)
        DEF ConnStep, ClientStep, TaskStep
<1> QED BY <1>1, <1>2 DEF Next

\* MetricsInv holds in every reachable state.
LEMMA MetricsInvariant == Spec => []MetricsInv
    BY AuthInvariant, TypeStep, MetricsInitially, MetricsStep, PTL DEF Spec

\* The gauges always show the sessions there are, whatever request tasks do to
\* the labels before and after their tunnel ends.
THEOREM GaugesAreExact == Spec => []GaugesBalanced
<1>1. MetricsInv => GaugesBalanced
    BY Zenon DEF MetricsInv, GaugesBalanced, Sessions
<1> QED BY <1>1, MetricsInvariant, PTL

\* The clients map holds exactly the tracked connections.
THEOREM EntriesAreExact == Spec => []EntriesMatchConnections
<1>1. MetricsInv => EntriesMatchConnections
    BY Zenon DEF MetricsInv
<1> QED BY <1>1, MetricsInvariant, PTL
=============================================================================
