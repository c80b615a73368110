----------------------------- MODULE CoreProofs -----------------------------
(***************************************************************************)
(* Proofs about what core.rs puts together, for every number of requests,  *)
(* tasks and workers: Shutdown, Requests and ServiceSession.               *)
(***************************************************************************)
EXTENDS Shutdown, Requests, ServiceSession, FiniteSetTheorems, TLAPS

-----------------------------------------------------------------------------
(* The shutdown of the endpoint: Shutdown.                                 *)

TaskStage == {"unborn", "spawned", "locking", "listening", "draining", "done"}

\* The guards are those of the parties at work from the start until completion()
\* has returned; afterwards completion_guard gives out none.
GuardInv ==
    /\ task \in [Task -> TaskStage]
    /\ core \in {"listening", "returned"}
    /\ app # "completed" =>
          /\ \A t \in Task : t \in guards <=> Graceful(t)
          /\ guards \subseteq Task \union {Core}
          /\ Core \in guards <=> core = "listening"

\* Only Core::listen holds a guard at first.
LEMMA GuardInit == Init => GuardInv
    BY CoreAssumption DEF Init, GuardInv, Graceful, TaskStage

\* A task that goes to stage s and takes or drops its guard accordingly.
LEMMA TaskMoves ==
    ASSUME GuardInv, NEW t \in Task, NEW s \in TaskStage, SetTask(t, s),
           UNCHANGED <<app, core>>,
           app # "completed" =>
              guards' = IF s \in {"listening", "draining"} THEN guards \union {t} ELSE guards \ {t}
    PROVE  GuardInv'
<1>1. task' \in [Task -> TaskStage]
    BY DEF GuardInv, SetTask
<1>2. \A u \in Task : task'[u] = IF u = t THEN s ELSE task[u]
    BY DEF GuardInv, SetTask
<1>3. ASSUME app # "completed" PROVE \A u \in Task : u \in guards' <=> Graceful(u)'
    BY <1>2, <1>3 DEF GuardInv, Graceful
<1>4. t # Core
    BY CoreAssumption
<1> QED BY <1>1, <1>3, <1>4 DEF GuardInv

\* Every step keeps guards and parties in step.
LEMMA GuardStep == GuardInv /\ [Next]_vars => GuardInv'
<1> SUFFICES ASSUME GuardInv, [Next]_vars PROVE GuardInv'
    OBVIOUS
<1>1. CASE Submit \/ BeginCompletion \/ CompletionReturns
    BY <1>1 DEF Submit, BeginCompletion, CompletionReturns, GuardInv, Graceful
<1>2. CASE CoreNotified \/ CoreFails
    BY <1>2, CoreAssumption DEF CoreNotified, CoreFails, CoreReturns, GuardInv, Graceful
<1>3. ASSUME NEW t \in Task, Spawn(t) \/ TaskRuns(t) \/ Ends(t) PROVE GuardInv'
    <2>0. app # "completed" => (t \in guards <=> Graceful(t))
        BY DEF GuardInv
    <2>1. CASE Spawn(t) \/ Lock(t)
        <3>1. app # "completed" => t \notin guards
            BY <2>0, <2>1 DEF Spawn, Lock, Graceful
        <3>2. guards' = guards /\ UNCHANGED <<app, core>>
              /\ (SetTask(t, "spawned") \/ SetTask(t, "locking"))
            BY <2>1 DEF Spawn, Lock
        <3> QED BY <3>1, <3>2, TaskMoves DEF TaskStage
    <2>2. CASE Subscribe(t)
        BY <2>2, TaskMoves DEF Subscribe, TaskStage
    <2>3. CASE Notified(t)
        <3>1. app # "completed" => guards' = guards \union {t}
            BY <2>0, <2>3 DEF Notified, Graceful
        <3> QED BY <2>3, <3>1, TaskMoves DEF Notified, TaskStage
    <2>4. CASE Drained(t) \/ Ends(t)
        BY <2>4, TaskMoves DEF Drained, Ends, Finish, TaskStage
    <2> QED BY <1>3, <2>1, <2>2, <2>3, <2>4 DEF TaskRuns
<1>4. CASE UNCHANGED vars
    BY <1>4 DEF vars, GuardInv, Graceful
<1> QED BY <1>1, <1>2, <1>3, <1>4 DEF Next, Terminated

\* The guards are always those of the parties at work.
LEMMA GuardInvariant == Spec => []GuardInv
    BY GuardInit, GuardStep, PTL DEF Spec

\* completion() waits for Core::listen and the open connections and for nothing
\* else.
THEOREM WaitIsExact == Spec => []WaitsForOpenConnections
<1>1. GuardInv => WaitsForOpenConnections
    BY CoreAssumption DEF GuardInv, WaitsForOpenConnections
<1> QED BY <1>1, GuardInvariant, PTL

\* completion() returns only when Core::listen returned and no connection that
\* subscribed is open.
THEOREM CompletionIsQuiet == Spec => CompletionMeansQuiet
<1>1. GuardInv /\ [Next]_vars =>
        [app # "completed" /\ app' = "completed" =>
            core = "returned" /\ \A t \in Task : ~Graceful(t)]_vars
    <2> SUFFICES ASSUME GuardInv, [Next]_vars, app # "completed", app' = "completed"
                 PROVE  core = "returned" /\ \A t \in Task : ~Graceful(t)
        BY Zenon
    <2>1. CompletionReturns
        BY DEF Next, vars, Submit, BeginCompletion, CoreNotified, CoreFails, Spawn, TaskRuns,
               Lock, Subscribe, Notified, Drained, Ends, Finish, Terminated
    <2>2. guards = {}
        BY <2>1 DEF CompletionReturns
    <2> QED BY <2>2 DEF GuardInv
<1> QED BY <1>1, GuardInvariant, PTL DEF Spec, CompletionMeansQuiet

-----------------------------------------------------------------------------
(* The life of a request: Requests.                                        *)

\* The request passes the match over credentials, policy and authenticator.
RqPasses ==
    \/ ~rqCfg.authenticator
    \/ rqReq.creds = "good"
    \/ rqReq.creds = "none" /\ rqCfg.policy = "sni"

\* The task before the step that answers, and while it handles datagrams.
RqUnanswered == {"listen", "tunnel", "promote", "tcp", "resolving", "selecting", "connecting",
                 "connected", "mux", "checkAuth", "muxPromote", "forwarding"}
RqMux == {"mux", "checkAuth", "muxPromote", "muxMake"}

\* Where the request and its answers are.
RqAnswersInv ==
    /\ rqPc = "listen" <=> rqReq = RqNone
    /\ rqPc \in RqUnanswered => rqAnswers = <<>>
    /\ rqAnswers = <<>> \/ Len(rqAnswers) = 1
    /\ rqPc \in {"done", "piping", "muxMake"} /\ ~rqBroken => Len(rqAnswers) = 1
    /\ rqPc \in RqMux => rqReq.authority \in Service
    /\ rqPc = "connected" => rqUp = "open"
    /\ rqReq # RqNone /\ rqReq.authority \notin Service /\ rqAnswers # <<>>
          /\ rqAnswers[1].status = 200
       => rqUp = "open"

\* What was done for the request, and whether it may have been.
RqAllowedInv ==
    /\ rqCfg \in RqSettings /\ rqReq \in RqRequests \union {RqNone}
    /\ rqPc \in {"listen", "tunnel"} => rqUp = "none"
    /\ rqReq # RqNone /\ ~RqPasses =>
          /\ rqPc \in RqRoute \union {"tunnel", "done"}
          /\ rqUp = "none" /\ rqPeer = "none"
          /\ rqAnswers # <<>> => rqAnswers[1].status # 200
    /\ rqPeer # "none" => rqCfg.private \/ IsGlobal(rqPeer)

\* What the loop over the resolved addresses has passed over and taken.
RqSelectInv ==
    /\ rqList \in Seq(RqAddress) /\ rqLooked \in Nat /\ rqLooked <= Len(rqList)
    /\ rqStatus \in {"none", "DnsLoopback", "DnsNonroutable"}
    /\ \A i \in 1 .. rqLooked : i \notin Usable
    /\ rqPc \in {"listen", "tunnel", "promote", "tcp", "resolving", "mux", "checkAuth",
                 "muxPromote", "muxMake"} => rqList = <<>>
    /\ rqPc \in {"listen", "tunnel", "promote", "tcp", "resolving", "selecting"} => rqPeer = "none"
    /\ rqList # <<>> =>
          IF rqPeer = "none" THEN rqPc # "selecting" => Usable = {}
          ELSE rqLooked + 1 \in Usable /\ rqPeer = rqList[rqLooked + 1]

RqInv == RqAnswersInv /\ RqAllowedInv /\ RqSelectInv

\* The first answer of a task.
LEMMA RqFirstAnswer ==
    ASSUME rqAnswers = <<>>, NEW status, NEW headers, Answer(status, headers)
    PROVE  /\ rqBroken => rqAnswers' = <<>>
           /\ ~rqBroken => Len(rqAnswers') = 1 /\ rqAnswers'[1].status = status
    BY DEF Answer

\* The answer to a failure is not a success.
LEMMA RqFailureCode ==
    ASSUME RqAllowedInv, NEW error
    PROVE  StatusCode(error) # 200
    BY DEF RqAllowedInv, RqSettings, StatusCode, AuthFailureCode

\* A task that fails before it answered.
LEMMA RqFailure ==
    ASSUME RqAllowedInv, rqAnswers = <<>>, NEW error, FailRequest(error)
    PROVE  /\ rqPc' = "done"
           /\ rqAnswers' = <<>> \/ Len(rqAnswers') = 1
           /\ ~rqBroken => Len(rqAnswers') = 1
           /\ rqAnswers' # <<>> => rqAnswers'[1].status # 200
    BY RqFirstAnswer, RqFailureCode DEF FailRequest

\* A step that changes neither the settings, the request nor what is listed,
\* and does not open a connection.
LEMMA RqStays ==
    ASSUME RqSelectInv, UNCHANGED <<rqCfg, rqPeer, rqLook>>,
           rqPc' \in {"listen", "tunnel", "promote", "tcp", "resolving", "mux", "checkAuth",
                      "muxPromote", "muxMake"} => rqList = <<>>,
           rqPc' \in {"listen", "tunnel", "promote", "tcp", "resolving", "selecting"} => rqPeer = "none",
           rqPc' = "selecting" => rqPc = "selecting",
           rqPc = "selecting" => rqPc' = "selecting" \/ Usable = {}
    PROVE  RqSelectInv'
<1>1. Usable' = Usable
    BY Zenon DEF Usable, rqLook
<1> QED BY <1>1, Zenon DEF RqSelectInv, rqLook

\* A task that fails before it answered keeps the invariant.
LEMMA RqFails ==
    ASSUME RqInv, rqPc \in RqUnanswered \ {"listen"}, NEW error, FailRequest(error),
           UNCHANGED <<rqCfg, rqReq, rqPeer, rqBroken, rqLook>>, rqUp' \in {rqUp, "none"},
           rqPc = "selecting" => Usable = {}
    PROVE  RqInv'
<1>0. RqAnswersInv /\ RqAllowedInv /\ RqSelectInv
    BY Zenon DEF RqInv
<1>1. rqAnswers = <<>> /\ rqReq # RqNone
    BY <1>0, Zenon DEF RqAnswersInv
<1>2. /\ rqPc' = "done" /\ (rqAnswers' = <<>> \/ Len(rqAnswers') = 1)
      /\ ~rqBroken => Len(rqAnswers') = 1
      /\ rqAnswers' # <<>> => rqAnswers'[1].status # 200
    BY <1>0, <1>1, RqFailure, Zenon
<1>3. RqAnswersInv'
    BY <1>1, <1>2, Zenon DEF RqAnswersInv, RqMux, RqUnanswered
<1>4. RqAllowedInv'
    BY <1>0, <1>1, <1>2, Zenon DEF RqAllowedInv, RqPasses
<1>5. RqSelectInv'
    BY <1>0, <1>2, RqStays, Zenon
<1> QED BY <1>3, <1>4, <1>5, Zenon DEF RqInv

\* Every step of the task keeps the invariant.
LEMMA RqInvStep == RqInv /\ [RqNext]_rqVars => RqInv'
<1> SUFFICES ASSUME RqInv, [RqNext]_rqVars PROVE RqInv'
    BY Zenon
<1>0. RqAnswersInv /\ RqAllowedInv /\ RqSelectInv
    BY Zenon DEF RqInv
<1>1. CASE RqListen
    <2>1. PICK r \in RqRequests : rqReq' = r /\ rqPc' = Select(rqCfg, r)
        BY <1>1, Zenon DEF RqListen
    <2>2. rqPc' \in RqRoute \union {"tunnel"}
        <3>1. rqCfg.routes \intersect r.paths \subseteq RqRoute
            BY <1>0, <2>1, Zenon DEF RqRequests
        <3> QED BY <2>1, <3>1, Zenon DEF Select, RqRoute
    <2>3. rqReq' # RqNone
        BY <2>1 DEF RqRequests, RqNone
    <2>4. rqPc = "listen" /\ UNCHANGED <<rqCfg, rqAuth, rqPeer, rqUp, rqAnswers, rqBroken, rqLook>>
        BY <1>1, Zenon DEF RqListen
    <2>5. rqReq = RqNone
        BY <1>0, <2>4, Zenon DEF RqAnswersInv
    <2>6. rqAnswers = <<>> /\ rqPeer = "none" /\ rqList = <<>>
        BY <1>0, <2>4, Zenon DEF RqAnswersInv, RqSelectInv, RqUnanswered
    <2>7. RqAnswersInv'
        BY <2>2, <2>3, <2>4, <2>6, Zenon DEF RqAnswersInv, RqMux, RqRoute
    <2>8. RqAllowedInv'
        BY <1>0, <2>1, <2>2, <2>4, <2>5, <2>6, Zenon DEF RqAllowedInv, RqPasses
    <2>9. RqSelectInv'
        BY <1>0, <2>2, <2>4, <2>6, RqStays, Zenon DEF RqRoute
    <2> QED BY <2>7, <2>8, <2>9, Zenon DEF RqInv
<1>2. CASE RqAuthenticate
    <2>1. /\ rqPc = "tunnel" /\ UNCHANGED <<rqCfg, rqReq, rqPeer, rqUp, rqBroken, rqLook>>
          /\ rqAnswers = <<>> /\ rqReq # RqNone /\ rqPeer = "none" /\ rqList = <<>> /\ rqUp = "none"
        BY <1>0, <1>2, Zenon DEF RqAuthenticate, RqAnswersInv, RqAllowedInv, RqSelectInv, RqUnanswered
    <2>2. \/ RqPasses /\ rqPc' = "promote" /\ rqAnswers' = rqAnswers
          \/ \E e : FailRequest(e)
        BY <1>2, Zenon DEF RqAuthenticate, RqProceed, RqPasses
    <2>3. CASE \E e : FailRequest(e)
        BY <2>1, <2>3, RqFails, Zenon DEF RqUnanswered
    <2>4. CASE RqPasses /\ rqPc' = "promote" /\ rqAnswers' = rqAnswers
        <3>1. RqAnswersInv'
            BY <2>1, <2>4, Zenon DEF RqAnswersInv, RqMux, RqUnanswered
        <3>2. RqAllowedInv'
            BY <1>0, <2>1, <2>4, Zenon DEF RqAllowedInv, RqPasses
        <3>3. RqSelectInv'
            BY <1>0, <2>1, <2>4, RqStays, Zenon
        <3> QED BY <3>1, <3>2, <3>3, Zenon DEF RqInv
    <2> QED BY <2>2, <2>3, <2>4, Zenon
<1>3. CASE RqPromote
    <2>1. /\ rqPc = "promote" /\ UNCHANGED <<rqCfg, rqReq, rqPeer, rqUp, rqBroken, rqLook>>
          /\ rqAnswers = <<>> /\ rqReq # RqNone /\ rqPeer = "none" /\ rqList = <<>>
        BY <1>0, <1>3, Zenon DEF RqPromote, RqAnswersInv, RqSelectInv, RqUnanswered
    <2>2. RqPasses
        BY <1>0, <2>1, Zenon DEF RqAllowedInv, RqRoute
    <2>3. \/ /\ rqPc' = "done" /\ rqReq.authority \in Service
             /\ rqAnswers' = <<>> \/ Len(rqAnswers') = 1
             /\ ~rqBroken => Len(rqAnswers') = 1
          \/ rqPc' = "mux" /\ rqReq.authority \in Service /\ rqAnswers' = <<>>
          \/ rqPc' = "tcp" /\ rqAnswers' = <<>>
        <3>1. CASE \E st, h : rqReq.authority \in Service /\ Answer(st, h) /\ rqPc' = "done"
            BY <2>1, <3>1, RqFirstAnswer, Zenon
        <3> QED BY <1>3, <2>1, <3>1 DEF RqPromote, Service
    <2>4. RqAnswersInv'
        BY <1>0, <2>1, <2>3, Zenon DEF RqAnswersInv, RqMux, RqUnanswered
    <2>5. RqAllowedInv'
        BY <1>0, <2>1, <2>2, <2>3, Zenon DEF RqAllowedInv, RqPasses
    <2>6. RqSelectInv'
        BY <1>0, <2>1, <2>3, RqStays, Zenon
    <2> QED BY <2>4, <2>5, <2>6, Zenon DEF RqInv
<1>4. CASE RqTcpStart
    <2>1. /\ rqPc = "tcp" /\ UNCHANGED <<rqCfg, rqReq, rqBroken, rqLook>>
          /\ rqAnswers = <<>> /\ rqReq # RqNone /\ rqPeer = "none" /\ rqList = <<>>
        BY <1>0, <1>4, Zenon DEF RqTcpStart, RqAnswersInv, RqSelectInv, RqUnanswered
    <2>2. RqPasses
        BY <1>0, <2>1, Zenon DEF RqAllowedInv, RqRoute
    <2>3. \/ (\E e : FailRequest(e)) /\ UNCHANGED <<rqPeer, rqUp>>
          \/ /\ rqPc' \in {"connecting", "resolving"} /\ UNCHANGED rqAnswers
             /\ \/ UNCHANGED rqPeer
                \/ /\ rqPc' = "connecting" /\ rqPeer' = rqReq.target
                   /\ Refusal(rqReq.target) = "none"
        BY <1>4, <2>1, Zenon DEF RqTcpStart
    <2>4. CASE (\E e : FailRequest(e)) /\ UNCHANGED <<rqPeer, rqUp>>
        BY <2>1, <2>4, RqFails, Zenon DEF RqUnanswered
    <2>5. CASE /\ rqPc' \in {"connecting", "resolving"} /\ UNCHANGED rqAnswers
               /\ \/ UNCHANGED rqPeer
                  \/ /\ rqPc' = "connecting" /\ rqPeer' = rqReq.target
                     /\ Refusal(rqReq.target) = "none"
        <3>1. RqAnswersInv'
            BY <2>1, <2>5, Zenon DEF RqAnswersInv, RqMux, RqUnanswered
        <3>2. RqAllowedInv'
            BY <1>0, <2>1, <2>2, <2>5, Zenon DEF RqAllowedInv, RqPasses, Refusal
        <3>3. Usable' = Usable
            BY <2>1, Zenon DEF Usable, rqLook
        <3>4. RqSelectInv'
            BY <1>0, <2>1, <2>5, <3>3, Zenon DEF RqSelectInv, rqLook
        <3> QED BY <3>1, <3>2, <3>4, Zenon DEF RqInv
    <2> QED BY <2>3, <2>4, <2>5, Zenon
<1>5. CASE RqResolve
    <2>1. /\ rqPc = "resolving" /\ UNCHANGED <<rqCfg, rqReq, rqPeer, rqUp, rqBroken>>
          /\ rqAnswers = <<>> /\ rqReq # RqNone /\ rqPeer = "none" /\ rqList = <<>>
        BY <1>0, <1>5, Zenon DEF RqResolve, RqAnswersInv, RqSelectInv, RqUnanswered
    <2>2. RqPasses
        BY <1>0, <2>1, Zenon DEF RqAllowedInv, RqRoute
    <2>3. CASE (\E e : FailRequest(e)) /\ UNCHANGED rqLook
        BY <2>1, <2>3, RqFails, Zenon DEF RqUnanswered
    <2>4. CASE /\ rqPc' = "selecting" /\ UNCHANGED rqAnswers
               /\ rqList' \in RqResolved /\ rqLooked' = 0 /\ rqStatus' = "none"
        <3>1. RqAnswersInv'
            BY <2>1, <2>4, Zenon DEF RqAnswersInv, RqMux, RqUnanswered
        <3>2. RqAllowedInv'
            BY <1>0, <2>1, <2>2, <2>4, Zenon DEF RqAllowedInv, RqPasses
        <3>3. rqList' \in Seq(RqAddress) /\ Len(rqList') \in Nat
            BY <2>4, RqResolvedAssumption
        <3>4. RqSelectInv'
            BY <2>1, <2>4, <3>3, SMTT(30) DEF RqSelectInv
        <3> QED BY <3>1, <3>2, <3>4, Zenon DEF RqInv
    <2> QED BY <1>5, <2>3, <2>4, Zenon DEF RqResolve
<1>6. CASE RqSelectAddress
    <2> DEFINE a == rqList[rqLooked + 1]
    <2>1. /\ rqPc = "selecting" /\ UNCHANGED <<rqCfg, rqReq, rqAnswers, rqBroken, rqList>>
          /\ rqLooked < Len(rqList)
          /\ rqAnswers = <<>> /\ rqReq # RqNone /\ rqPeer = "none"
        BY <1>0, <1>6, Zenon DEF RqSelectAddress, RqAnswersInv, RqSelectInv, RqUnanswered
    <2>2. RqPasses
        BY <1>0, <2>1, Zenon DEF RqAllowedInv, RqRoute
    <2>3. rqLooked \in Nat /\ rqLooked + 1 \in 1 .. Len(rqList) /\ Len(rqList) \in Nat
        BY <1>0, <2>1, SMTT(30) DEF RqSelectInv
    <2>4. rqLooked + 1 \in Usable <=> /\ rqCfg.private \/ IsGlobal(a)
                                      /\ rqCfg.ipv6 \/ ~IsV6(a)
        BY <2>3, Zenon DEF Usable
    <2>5. Usable' = Usable
        BY <2>1, Zenon DEF Usable
    <2>6. Refusal(a) = "none" <=> rqCfg.private \/ IsGlobal(a)
        BY Zenon DEF Refusal
    <2>7. CASE (IsV6(a) /\ ~rqCfg.ipv6) \/ Refusal(a) # "none"
        <3>1. /\ rqLooked' = rqLooked + 1 /\ UNCHANGED <<rqPc, rqPeer, rqUp>>
              /\ rqStatus' \in {rqStatus, "DnsLoopback", "DnsNonroutable"}
            BY <1>6, <2>7, Zenon DEF RqSelectAddress
        <3>2. rqLooked + 1 \notin Usable
            BY <2>4, <2>6, <2>7, Zenon
        <3>3. \A i \in 1 .. rqLooked' : i \notin Usable'
            <4>1. \A i \in 1 .. (rqLooked + 1) : i \in 1 .. rqLooked \/ i = rqLooked + 1
                BY <2>3, SMTT(30)
            <4> QED BY <1>0, <2>5, <3>1, <3>2, <4>1, Zenon DEF RqSelectInv
        <3>4. RqSelectInv'
            BY <1>0, <2>1, <2>3, <2>5, <3>1, <3>3, SMTT(30) DEF RqSelectInv
        <3>5. RqAnswersInv' /\ RqAllowedInv'
            BY <1>0, <2>1, <3>1, Zenon DEF RqAnswersInv, RqAllowedInv, RqPasses
        <3> QED BY <3>4, <3>5, Zenon DEF RqInv
    <2>8. CASE ~((IsV6(a) /\ ~rqCfg.ipv6) \/ Refusal(a) # "none")
        <3>1. rqPeer' = a /\ rqPc' = "connecting" /\ UNCHANGED <<rqLooked, rqStatus>>
            BY <1>6, <2>8, Zenon DEF RqSelectAddress
        <3>2. rqLooked + 1 \in Usable /\ (rqCfg.private \/ IsGlobal(a))
            BY <2>4, <2>6, <2>8, Zenon
        <3>3. a # "none"
            BY <1>0, <2>3 DEF RqSelectInv, RqAddress
        <3> HIDE DEF a
        <3>4. RqAnswersInv'
            BY <1>0, <2>1, <3>1, Zenon DEF RqAnswersInv, RqUnanswered, RqMux
        <3>5. RqAllowedInv'
            BY <1>0, <2>1, <2>2, <3>1, <3>2, Zenon DEF RqAllowedInv, RqPasses
        <3>6. RqSelectInv'
            BY <1>0, <2>1, <2>5, <3>1, <3>2, <3>3, Zenon DEF RqSelectInv, a
        <3> QED BY <3>4, <3>5, <3>6, Zenon DEF RqInv
    <2> QED BY <2>7, <2>8, Zenon
<1>7. CASE RqNoAddress
    <2>1. rqLooked = Len(rqList) /\ Len(rqList) \in Nat
        BY <1>0, <1>7, Zenon DEF RqNoAddress, RqSelectInv
    <2>2. Usable = {}
        BY <1>0, <2>1, Zenon DEF RqSelectInv, Usable
    <2> QED BY <1>7, <2>2, RqFails, Zenon DEF RqNoAddress, RqUnanswered
<1>8. CASE RqConnectFails \/ RqConnectTimeout
    <2>1. rqPc \in {"resolving", "connecting"} /\ (\E e : FailRequest(e)) /\ rqUp' = "none"
          /\ UNCHANGED <<rqCfg, rqReq, rqPeer, rqBroken, rqLook>>
        BY <1>8, Zenon DEF RqConnectFails, RqConnectTimeout
    <2> QED BY <2>1, RqFails, Zenon DEF RqUnanswered
<1>9. CASE RqConnected
    <2>1. /\ rqPc = "connecting" /\ rqPc' = "connected" /\ rqUp' = "open"
          /\ UNCHANGED <<rqCfg, rqReq, rqPeer, rqAnswers, rqBroken, rqLook>>
        BY <1>9, Zenon DEF RqConnected
    <2>2. RqAnswersInv'
        BY <1>0, <2>1, Zenon DEF RqAnswersInv, RqMux, RqUnanswered
    <2>3. RqAllowedInv'
        BY <1>0, <2>1, Zenon DEF RqAllowedInv, RqPasses, RqRoute, RqAnswersInv
    <2>4. RqSelectInv'
        BY <1>0, <2>1, RqStays, Zenon
    <2> QED BY <2>2, <2>3, <2>4, Zenon DEF RqInv
<1>10. CASE RqTcpPromote
    <2>1. /\ rqPc = "connected" /\ UNCHANGED <<rqCfg, rqReq, rqPeer, rqBroken, rqLook>>
          /\ rqAnswers = <<>> /\ rqReq # RqNone /\ rqUp = "open"
        BY <1>0, <1>10, Zenon DEF RqTcpPromote, RqAnswersInv, RqUnanswered
    <2>2. \/ /\ rqBroken /\ rqPc' = "done" /\ rqAnswers' = <<>>
          \/ /\ ~rqBroken /\ rqPc' = "piping" /\ rqUp' = rqUp /\ Len(rqAnswers') = 1
          \/ rqAnswers' = <<>> /\ rqPc' \in {"forwarding", "dropped"}
        <3>1. CASE Answer(200, {})
            BY <1>10, <2>1, <3>1, RqFirstAnswer, Zenon DEF RqTcpPromote
        <3> QED BY <1>10, <2>1, <3>1, Zenon DEF RqTcpPromote
    <2>3. RqPasses
        BY <1>0, <2>1, Zenon DEF RqAllowedInv, RqRoute
    <2>4. RqAnswersInv'
        BY <1>0, <2>1, <2>2, Zenon DEF RqAnswersInv, RqMux, RqUnanswered
    <2>5. RqAllowedInv'
        BY <1>0, <2>1, <2>2, <2>3, Zenon DEF RqAllowedInv, RqPasses
    <2>6. RqSelectInv'
        BY <1>0, <2>1, <2>2, RqStays, Zenon
    <2> QED BY <2>4, <2>5, <2>6, Zenon DEF RqInv
<1>11. CASE RqMuxStart \/ RqCheckAuth
    <2>1. /\ rqPc \in {"mux", "checkAuth"}
          /\ UNCHANGED <<rqCfg, rqReq, rqPeer, rqUp, rqBroken, rqLook>>
          /\ (\E e : FailRequest(e)) \/ (rqPc' \in {"muxPromote", "checkAuth"} /\ UNCHANGED rqAnswers)
        BY <1>11, Zenon DEF RqMuxStart, RqCheckAuth
    <2>2. CASE \E e : FailRequest(e)
        BY <2>1, <2>2, RqFails, Zenon DEF RqUnanswered
    <2>3. CASE rqPc' \in {"muxPromote", "checkAuth"} /\ UNCHANGED rqAnswers
        <3>1. RqAnswersInv'
            BY <1>0, <2>1, <2>3, Zenon DEF RqAnswersInv, RqMux, RqUnanswered
        <3>2. RqAllowedInv'
            BY <1>0, <2>1, <2>3, Zenon DEF RqAllowedInv, RqPasses, RqRoute, RqAnswersInv
        <3>3. RqSelectInv'
            <4>1. rqList = <<>>
                BY <1>0, <2>1, Zenon DEF RqSelectInv
            <4> QED BY <1>0, <2>1, <2>3, <4>1, RqStays, Zenon
        <3> QED BY <3>1, <3>2, <3>3, Zenon DEF RqInv
    <2> QED BY <2>1, <2>2, <2>3, Zenon
<1>12. CASE RqMuxPromote
    <2>1. /\ rqPc = "muxPromote" /\ UNCHANGED <<rqCfg, rqReq, rqPeer, rqUp, rqBroken, rqLook>>
          /\ rqAnswers = <<>> /\ rqReq # RqNone /\ rqReq.authority \in Service /\ rqList = <<>>
          /\ Answer(200, {}) /\ rqPc' = IF rqBroken THEN "done" ELSE "muxMake"
        BY <1>0, <1>12, Zenon DEF RqMuxPromote, RqAnswersInv, RqUnanswered, RqMux, RqSelectInv
    <2>2. RqPasses
        BY <1>0, <2>1, Zenon DEF RqAllowedInv, RqRoute
    <2>3. /\ rqBroken => rqAnswers' = <<>>
          /\ ~rqBroken => Len(rqAnswers') = 1
        BY <2>1, RqFirstAnswer
    <2>4. RqAnswersInv'
        BY <1>0, <2>1, <2>3, Zenon DEF RqAnswersInv, RqMux, RqUnanswered
    <2>5. RqAllowedInv'
        BY <1>0, <2>1, <2>2, <2>3, Zenon DEF RqAllowedInv, RqPasses
    <2>6. RqSelectInv'
        BY <1>0, <2>1, RqStays, Zenon
    <2> QED BY <2>4, <2>5, <2>6, Zenon DEF RqInv
<1>13. CASE RqMakeMux
    <2>1. /\ rqPc = "muxMake" /\ rqPc' \in {"piping", "dropped"}
          /\ UNCHANGED <<rqCfg, rqReq, rqPeer, rqUp, rqAnswers, rqBroken, rqLook>>
        BY <1>13, Zenon DEF RqMakeMux
    <2>2. RqAnswersInv'
        BY <1>0, <2>1, Zenon DEF RqAnswersInv, RqMux, RqUnanswered
    <2>3. RqAllowedInv'
        BY <1>0, <2>1, Zenon DEF RqAllowedInv, RqPasses, RqRoute, RqAnswersInv
    <2>4. RqSelectInv'
        BY <1>0, <2>1, RqStays, Zenon
    <2> QED BY <2>2, <2>3, <2>4, Zenon DEF RqInv
<1>14. CASE RqClientLost
    <2>1. rqBroken' = TRUE /\ UNCHANGED <<rqCfg, rqReq, rqPc, rqPeer, rqUp, rqAnswers, rqLook>>
        BY <1>14, Zenon DEF RqClientLost
    <2>2. RqAnswersInv' /\ RqAllowedInv'
        BY <1>0, <2>1 DEF RqAnswersInv, RqAllowedInv, RqPasses
    <2>3. RqSelectInv'
        <3>1. Usable' = Usable
            BY <2>1, Zenon DEF Usable, rqLook
        <3> QED BY <1>0, <2>1, <3>1, Zenon DEF RqSelectInv, rqLook
    <2> QED BY <2>2, <2>3, Zenon DEF RqInv
<1>15. CASE UNCHANGED rqVars
    <2>1. UNCHANGED <<rqCfg, rqReq, rqPc, rqPeer, rqUp, rqAnswers, rqBroken, rqLook>>
        BY <1>15, Zenon DEF rqVars
    <2>2. Usable' = Usable
        BY <2>1, Zenon DEF Usable, rqLook
    <2> QED BY <1>0, <2>1, <2>2
            DEF RqInv, RqAnswersInv, RqAllowedInv, RqSelectInv, RqPasses, rqLook
<1> QED BY <1>1, <1>2, <1>3, <1>4, <1>5, <1>6, <1>7, <1>8, <1>9, <1>10, <1>11, <1>12, <1>13,
           <1>14, <1>15, Zenon DEF RqNext, RqTaskStep, RqServed

\* No request, no answer and no address at first.
LEMMA RqInvInit == RqInit => RqInv
<1> SUFFICES ASSUME RqInit PROVE RqInv
    BY Zenon
<1>1. RqAnswersInv
    BY Zenon DEF RqInit, RqAnswersInv, RqUnanswered, RqMux
<1>2. RqAllowedInv
    BY RqConfigsAssumption, Zenon DEF RqInit, RqAllowedInv
<1>3. RqSelectInv
    BY SMTT(30) DEF RqInit, RqSelectInv, Usable
<1> QED BY <1>1, <1>2, <1>3, Zenon DEF RqInv

\* The invariant holds throughout.
LEMMA RqInvariant == RqSpec => []RqInv
    BY RqInvInit, RqInvStep, PTL DEF RqSpec

\* RqAnswerIsTrue for every configuration, every request and whatever names
\* resolve to and servers answer: the task gives one final answer, and a
\* success only while the target's connection is open.
THEOREM AnswerIsTrue == RqSpec => []RqAnswerIsTrue
<1>1. rqAnswers = <<>> => Len(rqAnswers) = 0
    OBVIOUS
<1>2. ASSUME RqInv PROVE RqAnswerIsTrue
    <2>1. Len(rqAnswers) \in {0, 1}
        BY <1>1, <1>2, Zenon DEF RqInv, RqAnswersInv
    <2>2. \A n \in {0, 1} : n <= 1
        OBVIOUS
    <2>3. Len(rqAnswers) <= 1
        BY <2>1, <2>2, Zenon
    <2> QED BY <1>2, <2>3, Zenon DEF RqInv, RqAnswersInv, RqAnswerIsTrue
<1> QED BY <1>2, RqInvariant, PTL

\* RqOnlyWhatIsAllowed likewise: without authentication no connection and no
\* success, without permission no private address, and of the resolved
\* addresses the first that is allowed.
THEOREM OnlyWhatIsAllowed == RqSpec => []RqOnlyWhatIsAllowed
<1>1. ASSUME RqInv PROVE RqOnlyWhatIsAllowed
    <2>1. \/ rqAnswers = <<>> /\ Len(rqAnswers) = 0
          \/ rqAnswers # <<>> /\ Len(rqAnswers) = 1
        BY <1>1 DEF RqInv, RqAnswersInv
    <2> QED BY <1>1, <2>1 DEF RqInv, RqAllowedInv, RqSelectInv, RqOnlyWhatIsAllowed, RqPasses
<1> QED BY <1>1, RqInvariant, PTL

-----------------------------------------------------------------------------
(* The sessions of the services: ServiceSession.                           *)

\* The tasks the counter stands for: a speed test counts once it is spawned,
\* a proxied stream once its task runs.
SsCounts(state) ==
    state \in {"download", "upload", "proxy"} \/ (ssKind = "speedtest" /\ state = "spawned")
SsCounted == {r \in SsRequest : SsCounts(ssTask[r])}
SsCountInv == IsFiniteSet(SsCounted) /\ ssActive = Cardinality(SsCounted)

SsTypes ==
    /\ ssTask \in [SsRequest -> SsTaskStates] /\ ssPlan \in [SsRequest -> SsPlans]
    /\ ssLeft \in [SsRequest -> Nat] /\ ssMoved \in [SsRequest -> Nat]

\* Which tasks a service has, and how far the request r is.
SsTaskOf(r) ==
    /\ ssTask[r] = "spawned" => ssKind \in {"speedtest", "proxy"}
    /\ ssTask[r] \in {"download", "upload"} => ssKind = "speedtest"
    /\ ssTask[r] = "proxy" => ssKind = "proxy"
    /\ ssTask[r] = "subscription" => ssKind = "subscription"
    /\ ssTask[r] = "spawned" /\ ssKind = "speedtest"
       => PrepareSpeedtest(ssPlan[r]) \in {"download", "upload"} /\ ssLeft[r] = ssPlan[r].size
    /\ ssTask[r] \in {"none", "spawned"} => ssMoved[r] = 0
    /\ ssTask[r] = "download" => ssMoved[r] + ssLeft[r] = ssPlan[r].size
    /\ r \in ssEof /\ ssKind = "speedtest" => ssTask[r] = "ended" /\ ssMoved[r] = ssPlan[r].size

SsInv == SsTypes /\ SsCountInv /\ \A r \in SsRequest : SsTaskOf(r)

\* The counter follows the tasks when the one of r changes.
LEMMA SsCounting ==
    ASSUME SsCountInv, ssTask \in [SsRequest -> SsTaskStates], NEW r \in SsRequest, NEW t,
           ssTask' = [ssTask EXCEPT ![r] = t], UNCHANGED ssKind,
           ssActive' = IF SsCounts(t) THEN IF SsCounts(ssTask[r]) THEN ssActive ELSE ssActive + 1
                       ELSE IF SsCounts(ssTask[r]) THEN ssActive - 1 ELSE ssActive
    PROVE  SsCountInv'
<1>1. SsCounted' = IF SsCounts(t) THEN SsCounted \union {r} ELSE SsCounted \ {r}
    <2>1. /\ ssTask'[r] = t /\ \A q \in SsRequest \ {r} : ssTask'[q] = ssTask[q]
        BY Zenon
    <2>2. \A q \in SsRequest : q \in SsCounted' <=> IF q = r THEN SsCounts(t) ELSE q \in SsCounted
        BY <2>1, Zenon DEF SsCounted, SsCounts
    <2>3. SsCounted \subseteq SsRequest /\ SsCounted' \subseteq SsRequest
        BY Zenon DEF SsCounted
    <2> HIDE DEF SsCounted, SsCounts
    <2> QED BY <2>2, <2>3, Zenon
<1>2. r \in SsCounted <=> SsCounts(ssTask[r])
    BY Zenon DEF SsCounted
<1>3. /\ IsFiniteSet(SsCounted \union {r})
      /\ Cardinality(SsCounted \union {r}) =
            IF r \in SsCounted THEN Cardinality(SsCounted) ELSE Cardinality(SsCounted) + 1
    BY FS_AddElement, Zenon DEF SsCountInv
<1>4. /\ IsFiniteSet(SsCounted \ {r})
      /\ Cardinality(SsCounted \ {r}) =
            IF r \in SsCounted THEN Cardinality(SsCounted) - 1 ELSE Cardinality(SsCounted)
    BY FS_RemoveElement, Zenon DEF SsCountInv
<1>5. CASE SsCounts(t)
    BY <1>1, <1>2, <1>3, <1>5, Zenon DEF SsCountInv
<1>6. CASE ~SsCounts(t)
    BY <1>1, <1>2, <1>4, <1>6, Zenon DEF SsCountInv
<1> QED BY <1>5, <1>6, Zenon

\* A step of the request r that keeps the plans and the other requests.
LEMMA SsStepOf ==
    ASSUME SsInv, NEW r \in SsRequest, NEW t \in SsTaskStates, UNCHANGED <<ssKind, ssPlan>>,
           ssTask' = [ssTask EXCEPT ![r] = t],
           ssActive' = IF SsCounts(t) THEN IF SsCounts(ssTask[r]) THEN ssActive ELSE ssActive + 1
                       ELSE IF SsCounts(ssTask[r]) THEN ssActive - 1 ELSE ssActive,
           NEW left \in Nat, ssLeft' = [ssLeft EXCEPT ![r] = left],
           NEW moved \in Nat, ssMoved' = [ssMoved EXCEPT ![r] = moved],
           ssEof \subseteq ssEof', ssEof' \subseteq ssEof \union {r},
           SsTaskOf(r)'
    PROVE  SsInv'
<1>1. SsCountInv'
    BY SsCounting, Zenon DEF SsInv, SsTypes
<1>2. SsTypes'
    BY Zenon DEF SsInv, SsTypes
<1>3. ASSUME NEW q \in SsRequest, q # r
      PROVE  SsTaskOf(q)'
    <2>1. /\ ssTask'[q] = ssTask[q] /\ ssLeft'[q] = ssLeft[q] /\ ssMoved'[q] = ssMoved[q]
          /\ q \in ssEof' <=> q \in ssEof
        BY <1>3, Zenon DEF SsInv, SsTypes
    <2> QED BY <2>1 DEF SsInv, SsTaskOf
<1> QED BY <1>1, <1>2, <1>3, Zenon DEF SsInv

\* Every step keeps the invariant.
LEMMA SsInvStep == SsInv /\ [SsNext]_ssVars => SsInv'
<1> SUFFICES ASSUME SsInv, [SsNext]_ssVars PROVE SsInv'
    BY Zenon
<1>0. SsTypes /\ SsCountInv /\ (\A r \in SsRequest : SsTaskOf(r))
      /\ \A p \in SsPlans : p.size \in Nat
    BY SsAssumption, Zenon DEF SsInv, SsPlan
<1>a. \A r \in SsRequest : /\ ssTask[r] \in SsTaskStates /\ ssLeft[r] \in Nat /\ ssMoved[r] \in Nat
                           /\ ssPlan[r] \in SsPlans
                           /\ ssTask = [ssTask EXCEPT ![r] = ssTask[r]]
                           /\ ssLeft = [ssLeft EXCEPT ![r] = ssLeft[r]]
                           /\ ssMoved = [ssMoved EXCEPT ![r] = ssMoved[r]]
    BY <1>0, Zenon DEF SsTypes
<1>1. ASSUME NEW r \in SsRequest, SsPing(r) PROVE SsInv'
    <2>1. /\ ssKind = "ping" /\ ssTask[r] = "none" /\ ssTask' = [ssTask EXCEPT ![r] = "ended"]
          /\ UNCHANGED <<ssKind, ssPlan, ssLeft, ssMoved, ssEof, ssActive>>
        BY <1>1, Zenon DEF SsPing, SsCanListen
    <2>2. SsTaskOf(r)'
        BY <1>0, <2>1, Zenon DEF SsTaskOf, SsTypes
    <2>3. ~SsCounts("ended") /\ ~SsCounts(ssTask[r]) /\ "ended" \in SsTaskStates
        BY <2>1, Zenon DEF SsCounts, SsTaskStates
    <2> QED BY <1>a, <2>1, <2>2, <2>3, SsStepOf, Zenon
<1>2. ASSUME NEW r \in SsRequest, SsSpeedtest(r) PROVE SsInv'
    <2>1. /\ ssKind = "speedtest" /\ ssTask[r] = "none"
          /\ UNCHANGED <<ssKind, ssPlan, ssMoved, ssEof>>
        BY <1>2 DEF SsSpeedtest, SsCanListen
    <2>2. CASE /\ PrepareSpeedtest(ssPlan[r]) # "invalid" /\ ssActive' = ssActive + 1
               /\ ssTask' = [ssTask EXCEPT ![r] = "spawned"]
               /\ ssLeft' = [ssLeft EXCEPT ![r] = ssPlan[r].size]
        <3>1. SsTaskOf(r)'
            <4>1. PrepareSpeedtest(ssPlan[r]) \in {"download", "upload"}
                BY <2>2, Zenon DEF PrepareSpeedtest
            <4>2. ssTask'[r] = "spawned" /\ ssLeft'[r] = ssPlan[r].size
                BY <1>0, <2>2, Zenon DEF SsTypes
            <4> QED BY <1>0, <2>1, <4>1, <4>2 DEF SsTaskOf
        <3>2. /\ SsCounts("spawned") /\ ~SsCounts(ssTask[r]) /\ "spawned" \in SsTaskStates
              /\ ssPlan[r].size \in Nat
            BY <1>0, <1>a, <2>1, Zenon DEF SsCounts, SsTaskStates
        <3> QED BY <1>a, <2>1, <2>2, <3>1, <3>2, SsStepOf, Zenon
    <2>3. CASE ssTask' = [ssTask EXCEPT ![r] = "ended"] /\ UNCHANGED <<ssActive, ssLeft>>
        <3>1. SsTaskOf(r)'
            BY <1>0, <2>1, <2>3, Zenon DEF SsTaskOf, SsTypes
        <3>2. ~SsCounts("ended") /\ ~SsCounts(ssTask[r]) /\ "ended" \in SsTaskStates
            BY <2>1, Zenon DEF SsCounts, SsTaskStates
        <3> QED BY <1>a, <2>1, <2>3, <3>1, <3>2, SsStepOf, Zenon
    <2> QED BY <1>2, <2>2, <2>3 DEF SsSpeedtest
<1>3. ASSUME NEW r \in SsRequest, SsSubscription(r) PROVE SsInv'
    <2>1. /\ ssKind = "subscription" /\ ssTask[r] = "none"
          /\ UNCHANGED <<ssKind, ssPlan, ssLeft, ssMoved, ssEof, ssActive>>
        BY <1>3, Zenon DEF SsSubscription, SsCanListen
    <2>2. PICK t \in {"subscription", "ended"} : ssTask' = [ssTask EXCEPT ![r] = t]
        BY <1>3, Zenon DEF SsSubscription
    <2>3. SsTaskOf(r)'
        BY <1>0, <2>1, <2>2, Zenon DEF SsTaskOf, SsTypes
    <2>4. ~SsCounts(t) /\ ~SsCounts(ssTask[r]) /\ t \in SsTaskStates
        BY <2>1, Zenon DEF SsCounts, SsTaskStates
    <2> QED BY <1>a, <2>1, <2>2, <2>3, <2>4, SsStepOf, Zenon
<1>4. ASSUME NEW r \in SsRequest, SsProxy(r) PROVE SsInv'
    <2>1. /\ ssKind = "proxy" /\ ssTask[r] = "none" /\ ssTask' = [ssTask EXCEPT ![r] = "spawned"]
          /\ UNCHANGED <<ssKind, ssPlan, ssLeft, ssMoved, ssEof, ssActive>>
        BY <1>4, Zenon DEF SsProxy, SsCanListen
    <2>2. SsTaskOf(r)'
        BY <1>0, <2>1, Zenon DEF SsTaskOf, SsTypes
    <2>3. ~SsCounts("spawned") /\ ~SsCounts(ssTask[r]) /\ "spawned" \in SsTaskStates
        BY <2>1, Zenon DEF SsCounts, SsTaskStates
    <2> QED BY <1>a, <2>1, <2>2, <2>3, SsStepOf, Zenon
<1>5. ASSUME NEW r \in SsRequest, SsSubscriptionBody(r) PROVE SsInv'
    <2>1. /\ ssTask[r] = "subscription" /\ ssTask' = [ssTask EXCEPT ![r] = "ended"]
          /\ ssKind = "subscription"
          /\ UNCHANGED <<ssKind, ssPlan, ssLeft, ssActive>>
          /\ ssEof \subseteq ssEof' /\ ssEof' \subseteq ssEof \union {r}
        BY <1>0, <1>5, Zenon DEF SsSubscriptionBody, SsTaskOf
    <2>2. PICK n \in {0, 1} : ssMoved' = [ssMoved EXCEPT ![r] = n]
        BY <1>5, Zenon DEF SsSubscriptionBody
    <2>3. SsTaskOf(r)'
        BY <1>0, <2>1, <2>2, Zenon DEF SsTaskOf, SsTypes
    <2>4. ~SsCounts("ended") /\ ~SsCounts(ssTask[r]) /\ "ended" \in SsTaskStates /\ n \in Nat
        BY <2>1 DEF SsCounts, SsTaskStates
    <2> QED BY <1>a, <2>1, <2>2, <2>3, <2>4, SsStepOf, Zenon
<1>6. ASSUME NEW r \in SsRequest, SsSendFails(r) \/ SsTaskFails(r) PROVE SsInv'
    <2>1. /\ ssTask[r] # "none" /\ SsCounts(ssTask[r]) /\ ssTask' = [ssTask EXCEPT ![r] = "ended"]
          /\ ssActive' = ssActive - 1
          /\ UNCHANGED <<ssKind, ssPlan, ssLeft, ssMoved, ssEof>>
        BY <1>6, Zenon DEF SsSendFails, SsTaskFails, SsTaskEnds, SsCounts
    <2>2. SsTaskOf(r)'
        BY <1>0, <2>1, Zenon DEF SsTaskOf, SsTypes
    <2>3. ~SsCounts("ended") /\ "ended" \in SsTaskStates
        BY Zenon DEF SsCounts, SsTaskStates
    <2> QED BY <1>a, <2>1, <2>2, <2>3, SsStepOf, Zenon
<1>7. ASSUME NEW r \in SsRequest, SsTaskStarts(r) PROVE SsInv'
    <2> DEFINE next == IF ssKind = "proxy" THEN "proxy" ELSE PrepareSpeedtest(ssPlan[r])
    <2>1. /\ ssTask[r] = "spawned" /\ ssTask' = [ssTask EXCEPT ![r] = next]
          /\ ssActive' = IF ssKind = "proxy" THEN ssActive + 1 ELSE ssActive
          /\ UNCHANGED <<ssKind, ssPlan, ssLeft, ssMoved, ssEof>>
        BY <1>7, Zenon DEF SsTaskStarts
    <2>2. \/ ssKind = "proxy" /\ next = "proxy" /\ ~SsCounts(ssTask[r])
          \/ ssKind = "speedtest" /\ next \in {"download", "upload"} /\ SsCounts(ssTask[r])
        BY <1>0, <2>1, Zenon DEF SsTaskOf, SsCounts
    <2> HIDE DEF next
    <2>3. SsTaskOf(r)'
        <3>1. ssTask'[r] = next
            BY <1>0, <2>1, Zenon DEF SsTypes
        <3>2. /\ ssMoved[r] = 0
              /\ r \in ssEof => ssKind # "speedtest"
              /\ ssKind = "speedtest" => ssLeft[r] = ssPlan[r].size /\ ssPlan[r].size \in Nat
            BY <1>0, <1>a, <2>1, Zenon DEF SsTaskOf
        <3>3. ssKind = "speedtest" => ssMoved[r] + ssLeft[r] = ssPlan[r].size
            BY <3>2
        <3> QED BY <2>1, <2>2, <3>1, <3>2, <3>3, Zenon DEF SsTaskOf
    <2>4. SsCounts(next) /\ next \in SsTaskStates
        BY <2>2, Zenon DEF SsCounts, SsTaskStates
    <2>5. ssActive' = IF SsCounts(ssTask[r]) THEN ssActive ELSE ssActive + 1
        BY <2>1, <2>2, Zenon
    <2> QED BY <1>a, <2>1, <2>3, <2>4, <2>5, SsStepOf, Zenon
<1>8. ASSUME NEW r \in SsRequest, SsDownload(r) PROVE SsInv'
    <2>1. /\ ssTask[r] = "download" /\ UNCHANGED <<ssKind, ssPlan, ssTask, ssEof, ssActive>>
        BY <1>8, Zenon DEF SsDownload
    <2>2. PICK sent \in 0 .. ssLeft[r] : /\ ssLeft' = [ssLeft EXCEPT ![r] = ssLeft[r] - sent]
                                         /\ ssMoved' = [ssMoved EXCEPT ![r] = ssMoved[r] + sent]
        <3>1. PICK sent \in 0 .. (IF ssLeft[r] < SsChunk THEN ssLeft[r] ELSE SsChunk) :
                 /\ ssLeft' = [ssLeft EXCEPT ![r] = ssLeft[r] - sent]
                 /\ ssMoved' = [ssMoved EXCEPT ![r] = ssMoved[r] + sent]
            BY <1>8, Zenon DEF SsDownload
        <3>2. sent \in 0 .. ssLeft[r]
            BY <1>a, SsAssumption
        <3> QED BY <3>1, <3>2, Zenon
    <2>3. /\ sent \in Nat /\ ssLeft[r] - sent \in Nat /\ ssMoved[r] + sent \in Nat
          /\ (ssMoved[r] + sent) + (ssLeft[r] - sent) = ssMoved[r] + ssLeft[r]
        BY <1>a
    <2>4. SsTaskOf(r)'
        <3>1. ssLeft'[r] = ssLeft[r] - sent /\ ssMoved'[r] = ssMoved[r] + sent
            BY <1>0, <2>2, Zenon DEF SsTypes
        <3> QED BY <1>0, <2>1, <2>3, <3>1, Zenon DEF SsTaskOf
    <2>5. ssActive' = IF SsCounts(ssTask[r]) THEN ssActive ELSE ssActive + 1
        BY <2>1, Zenon DEF SsCounts
    <2> QED BY <1>a, <2>1, <2>2, <2>3, <2>4, SsStepOf, Zenon DEF SsCounts
<1>9. ASSUME NEW r \in SsRequest, SsDownloadEof(r) PROVE SsInv'
    <2>1. /\ ssTask[r] = "download" /\ ssLeft[r] = 0 /\ ssTask' = [ssTask EXCEPT ![r] = "ended"]
          /\ ssActive' = ssActive - 1 /\ ssEof' = ssEof \union {r}
          /\ UNCHANGED <<ssKind, ssPlan, ssLeft, ssMoved>>
        BY <1>9, Zenon DEF SsDownloadEof, SsTaskEnds
    <2>2. SsTaskOf(r)'
        <3>1. ssMoved[r] = ssPlan[r].size
            BY <1>0, <1>a, <2>1 DEF SsTaskOf
        <3> QED BY <1>0, <2>1, <3>1, Zenon DEF SsTaskOf, SsTypes
    <2>3. ~SsCounts("ended") /\ SsCounts(ssTask[r]) /\ "ended" \in SsTaskStates
        BY <2>1, Zenon DEF SsCounts, SsTaskStates
    <2> QED BY <1>a, <2>1, <2>2, <2>3, SsStepOf, Zenon
<1>10. ASSUME NEW r \in SsRequest, SsUpload(r) PROVE SsInv'
    <2>1. /\ ssTask[r] = "upload" /\ UNCHANGED <<ssKind, ssPlan, ssTask, ssEof, ssActive>>
        BY <1>10, Zenon DEF SsUpload
    <2>2. PICK n \in 1 .. (ssPlan[r].sends - ssMoved[r]) :
             /\ ssMoved' = [ssMoved EXCEPT ![r] = ssMoved[r] + n]
             /\ ssLeft' = [ssLeft EXCEPT ![r] = IF ssLeft[r] < n THEN 0 ELSE ssLeft[r] - n]
        BY <1>10, Zenon DEF SsUpload
    <2>3. n \in Nat /\ ssMoved[r] + n \in Nat /\ (IF ssLeft[r] < n THEN 0 ELSE ssLeft[r] - n) \in Nat
        BY <1>a
    <2>4. SsTaskOf(r)'
        BY <1>0, <2>1, Zenon DEF SsTaskOf
    <2> QED BY <1>a, <2>1, <2>2, <2>3, <2>4, SsStepOf, Zenon DEF SsCounts
<1>11. ASSUME NEW r \in SsRequest, SsUploadDone(r) PROVE SsInv'
    <2>1. /\ ssTask[r] = "upload" /\ ssTask' = [ssTask EXCEPT ![r] = "ended"]
          /\ ssActive' = ssActive - 1
          /\ UNCHANGED <<ssKind, ssPlan, ssLeft, ssMoved, ssEof>>
        BY <1>11, Zenon DEF SsUploadDone, SsTaskEnds
    <2>2. SsTaskOf(r)'
        BY <1>0, <2>1, Zenon DEF SsTaskOf, SsTypes
    <2>3. ~SsCounts("ended") /\ SsCounts(ssTask[r]) /\ "ended" \in SsTaskStates
        BY <2>1, Zenon DEF SsCounts, SsTaskStates
    <2> QED BY <1>a, <2>1, <2>2, <2>3, SsStepOf, Zenon
<1>12. CASE SsClientGone \/ SsTimeout \/ UNCHANGED ssVars
    <2>1. UNCHANGED <<ssKind, ssPlan, ssTask, ssLeft, ssMoved, ssEof, ssActive>>
        BY <1>12, Zenon DEF SsClientGone, SsTimeout, ssVars
    <2> QED BY <2>1 DEF SsInv, SsTypes, SsCountInv, SsCounted, SsCounts, SsTaskOf
<1>13. CASE SsShutdown
    <2>1. /\ UNCHANGED <<ssKind, ssPlan, ssLeft, ssMoved, ssEof, ssActive>>
          /\ ssTask' = [r \in SsRequest |-> IF ssTask[r] = "subscription" THEN "ended" ELSE ssTask[r]]
        BY <1>13, Zenon DEF SsShutdown
    <2>2. SsTypes'
        BY <1>0, <2>1, Zenon DEF SsTypes, SsTaskStates
    <2>3. \A r \in SsRequest : \/ ssTask'[r] = ssTask[r]
                               \/ ssTask[r] = "subscription" /\ ssTask'[r] = "ended"
        BY <2>1, Zenon
    <2>4. SsCounted' = SsCounted
        BY <2>1, <2>3, Zenon DEF SsCounted, SsCounts
    <2>5. SsCountInv'
        BY <1>0, <2>1, <2>4, Zenon DEF SsCountInv
    <2>6. \A r \in SsRequest : SsTaskOf(r)'
        BY <1>0, <2>1, <2>3 DEF SsTaskOf
    <2> QED BY <2>2, <2>5, <2>6, Zenon DEF SsInv
<1>14. CASE SsClose
    <2>1. UNCHANGED <<ssKind, ssPlan, ssLeft, ssMoved, ssEof, ssActive>>
        BY <1>14, Zenon DEF SsClose
    <2>2. CASE \E r \in SsRequest : ssTask[r] = "none" /\ ssTask' = [ssTask EXCEPT ![r] = "ended"]
        <3>1. PICK r \in SsRequest : ssTask[r] = "none" /\ ssTask' = [ssTask EXCEPT ![r] = "ended"]
            BY <2>2, Zenon
        <3>2. SsTaskOf(r)'
            BY <1>0, <2>1, <3>1, Zenon DEF SsTaskOf, SsTypes
        <3>3. ~SsCounts("ended") /\ ~SsCounts(ssTask[r]) /\ "ended" \in SsTaskStates
            BY <3>1, Zenon DEF SsCounts, SsTaskStates
        <3> QED BY <1>a, <2>1, <3>1, <3>2, <3>3, SsStepOf, Zenon
    <2>3. CASE UNCHANGED ssTask
        BY <2>1, <2>3, Zenon DEF SsInv, SsTypes, SsCountInv, SsCounted, SsCounts, SsTaskOf
    <2> QED BY <1>14, <2>2, <2>3 DEF SsClose
<1> QED BY <1>1, <1>2, <1>3, <1>4, <1>5, <1>6, <1>7, <1>8, <1>9, <1>10, <1>11, <1>12, <1>13,
           <1>14, SMTT(30) DEF SsNext, SsProgress

\* No request and nothing counted at first.
LEMMA SsInvInit == SsInit => SsInv
<1> SUFFICES ASSUME SsInit PROVE SsInv
    BY Zenon
<1>1. SsCounted = {} /\ SsTypes
    BY Zenon DEF SsInit, SsCounted, SsCounts, SsTypes, SsTaskStates
<1>2. SsCountInv
    BY <1>1, FS_EmptySet, Zenon DEF SsInit, SsCountInv
<1> QED BY <1>1, <1>2, Zenon DEF SsInit, SsInv, SsTaskOf

\* The invariant holds throughout.
LEMMA SsInvariant == SsSpec => []SsInv
    BY SsInvInit, SsInvStep, PTL DEF SsSpec

\* SsDownloadIsExact for any number of requests, any sizes and chunks: a
\* download whose stream was ended carried exactly the bytes asked for.
THEOREM DownloadIsExact == SsSpec => []SsDownloadIsExact
<1>1. SsInv => SsDownloadIsExact
    BY Zenon DEF SsInv, SsTaskOf, SsDownloadIsExact
<1> QED BY <1>1, SsInvariant, PTL

\* SsTimeoutMeansIdle likewise: the counter that the timeout branch reads is
\* exactly the number of tests, spawned or running, and of running streams.
THEOREM TimeoutMeansIdle == SsSpec => SsTimeoutMeansIdle
<1>1. ASSUME SsInv, [SsNext]_ssVars, ssPc # "idle", ssPc' = "idle", NEW r \in SsRequest
      PROVE  ssTask[r] \notin {"download", "upload", "proxy"}
                              \cup (IF ssKind = "speedtest" THEN {"spawned"} ELSE {})
    <2>1. SsTimeout
        BY <1>1 DEF SsNext, SsProgress, ssVars, SsPing, SsSpeedtest, SsSubscription, SsProxy,
                    SsSubscriptionBody, SsSendFails, SsTaskFails, SsTaskStarts, SsDownload,
                    SsDownloadEof, SsUpload, SsUploadDone, SsClientGone, SsShutdown, SsClose
    <2>2. ssKind # "ping" /\ ssActive = 0
        BY <1>1, <2>1, Zenon DEF SsTimeout
    <2>3. SsCounted = {}
        BY <1>1, <2>2, FS_EmptySet, Zenon DEF SsInv, SsCountInv
    <2> QED BY <2>3, Zenon DEF SsCounted, SsCounts
<1>2. SsInv /\ [SsNext]_ssVars =>
        [ssPc # "idle" /\ ssPc' = "idle" =>
           \A r \in SsRequest :
             ssTask[r] \notin {"download", "upload", "proxy"}
                              \cup (IF ssKind = "speedtest" THEN {"spawned"} ELSE {})]_ssVars
    BY <1>1, Zenon
<1> QED BY <1>2, SsInvariant, PTL DEF SsSpec, SsTimeoutMeansIdle
=============================================================================
