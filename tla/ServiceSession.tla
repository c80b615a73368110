---------------------------- MODULE ServiceSession ----------------------------
(***************************************************************************)
(* A session of one of the endpoint's own HTTP services: the ping handler  *)
(* (lib/src/http_ping_handler.rs), the speed test                          *)
(* (http_speedtest_handler.rs), the subscription handler                   *)
(* (http_subscription_handler.rs) and the listening loop of the reverse    *)
(* proxy (reverse_proxy.rs; what it does with one request is in            *)
(* ReverseProxy).  The codec is either that of a whole TLS or QUIC session *)
(* or SingleRequestCodec (http_codec.rs), which wraps one request that a   *)
(* tunnel session routed to the service by its path.                       *)
(*                                                                         *)
(* A listening step and the task of a request are separate processes.  The *)
(* timer of `tokio::time::timeout(timeout, codec.listen())` may expire in  *)
(* any listening step; a shutdown may be submitted at any time.            *)
(***************************************************************************)
EXTENDS Integers, FiniteSets

CONSTANTS SsRequest,   \* the requests a client may send on the session
          SsPlans,     \* what they ask for: a set of SsPlan records
          SsChunk,     \* CHUNK_SIZE, in pieces
          SsKinds      \* the services explored

VARIABLES
  ssKind,     \* the service
  ssSingle,   \* the codec is a SingleRequestCodec
  ssPc,       \* "listening", "closing" (codec.graceful_shutdown is next), "idle"
              \* (the same, after the timeout branch), "closed"
  ssPlan,     \* what each request asks for
  ssTask,     \* where the handling of each request is
  ssLeft,     \* `n` of the speed tests
  ssMoved,    \* pieces of body written to or received from the client
  ssAnswer,   \* the status of each response; 0: none yet
  ssEof,      \* the responses that were ended with `eof`
  ssActive    \* running_tests_num, active_streams_num

ssVars == <<ssKind, ssSingle, ssPc, ssPlan, ssTask, ssLeft, ssMoved, ssAnswer,
            ssEof, ssActive>>

(***************************************************************************)
(* A request as the services tell it apart.  `size` is the number in the   *)
(* download path or the Content-Length of an upload; it is 0 when there is *)
(* none, it does not parse or it exceeds MAX_DOWNLOAD_MB / MAX_UPLOAD_MB.  *)
(* `sends` is what an uploading client really sends.  The last fields are  *)
(* what the subscription handler finds: is there a configuration, does its *)
(* hostname equal the SNI, are the credentials known, is it enabled.       *)
(***************************************************************************)
SsPlan == [method : {"GET", "POST", "PUT"}, path : {"mb.bin", "upload.html", "other"},
           size : Nat, sends : Nat, configured : BOOLEAN, host : BOOLEAN,
           known : BOOLEAN, enabled : BOOLEAN]

ASSUME SsAssumption == SsPlans \subseteq SsPlan /\ SsChunk \in Nat \ {0}

SsTaskStates == {"none",      \* not received
                 "spawned",   \* its task exists and was not polled yet
                 "download", "upload", "subscription", "proxy",
                 "ended"}     \* answered, failed or dropped

\* The type invariant.
SsTypeOK ==
  /\ ssKind \in SsKinds /\ ssSingle \in BOOLEAN
  /\ ssPc \in {"listening", "closing", "idle", "closed"}
  /\ ssPlan \in [SsRequest -> SsPlans]
  /\ ssTask \in [SsRequest -> SsTaskStates]
  /\ ssLeft \in [SsRequest -> Nat] /\ ssMoved \in [SsRequest -> Nat]
  /\ ssAnswer \in [SsRequest -> {0, 200, 400, 401, 403, 404, 405, 500}]
  /\ ssEof \subseteq SsRequest /\ ssActive \in 0 .. Cardinality(SsRequest)

SsInit ==
  /\ ssKind \in SsKinds /\ ssSingle \in BOOLEAN /\ ssPc = "listening"
  /\ ssPlan \in [SsRequest -> SsPlans]
  /\ ssTask = [r \in SsRequest |-> "none"]
  /\ ssLeft = [r \in SsRequest |-> 0] /\ ssMoved = [r \in SsRequest |-> 0]
  /\ ssAnswer = [r \in SsRequest |-> 0] /\ ssEof = {} /\ ssActive = 0

-----------------------------------------------------------------------------
\* prepare_speedtest: the test a request asks for, or "invalid".
PrepareSpeedtest(p) ==
  CASE p.method = "GET" /\ p.path = "mb.bin" /\ p.size > 0 -> "download"
    [] p.method = "POST" /\ p.path = "upload.html" /\ p.size > 0 -> "upload"
    [] OTHER -> "invalid"

\* The precedence of the subscription handler's refusals.
SubscriptionStatus(p) ==
  IF ~p.configured \/ ~p.host THEN 404
  ELSE IF ~p.known THEN 401
  ELSE IF ~p.enabled THEN 403
  ELSE IF p.method # "GET" THEN 405
  ELSE 200

\* codec.listen() can yield r: requests come one after another, a
\* SingleRequestCodec has only its own.
SsCanListen(r) ==
  /\ ssPc = "listening" /\ ssTask[r] = "none"
  /\ \A q \in SsRequest : ssTask[q] # "subscription"
  /\ ssSingle => \A q \in SsRequest : ssTask[q] = "none"

\* The ping handler answers its only request and leaves; sending may fail.
SsPing(r) ==
  /\ ssKind = "ping" /\ SsCanListen(r)
  /\ ssTask' = [ssTask EXCEPT ![r] = "ended"]
  /\ \E status \in {0, 200} : ssAnswer' = [ssAnswer EXCEPT ![r] = status]
  /\ ssPc' = "closing"
  /\ UNCHANGED <<ssKind, ssSingle, ssPlan, ssLeft, ssMoved, ssEof, ssActive>>

\* The speed test counts a test before it spawns its task.
SsSpeedtest(r) ==
  LET test == PrepareSpeedtest(ssPlan[r])
  IN /\ ssKind = "speedtest" /\ SsCanListen(r)
     /\ \/ /\ test # "invalid"
           /\ ssActive' = ssActive + 1
           /\ ssTask' = [ssTask EXCEPT ![r] = "spawned"]
           /\ ssLeft' = [ssLeft EXCEPT ![r] = ssPlan[r].size]
           /\ UNCHANGED ssAnswer
        \/ /\ test = "invalid"
           /\ ssTask' = [ssTask EXCEPT ![r] = "ended"]
           /\ \E status \in {0, 400} : ssAnswer' = [ssAnswer EXCEPT ![r] = status]
           /\ UNCHANGED <<ssActive, ssLeft>>
     /\ UNCHANGED <<ssKind, ssSingle, ssPc, ssPlan, ssMoved, ssEof>>

\* The subscription handler handles the request within its listening step.
SsSubscription(r) ==
  LET status == SubscriptionStatus(ssPlan[r])
  IN /\ ssKind = "subscription" /\ SsCanListen(r)
     /\ \/ /\ ssAnswer' = [ssAnswer EXCEPT ![r] = status]
           /\ ssTask' = [ssTask EXCEPT ![r] =
                            IF status = 200 THEN "subscription" ELSE "ended"]
        \/ /\ ssTask' = [ssTask EXCEPT ![r] = "ended"]     \* sending failed
           /\ UNCHANGED ssAnswer
     /\ UNCHANGED <<ssKind, ssSingle, ssPc, ssPlan, ssLeft, ssMoved, ssEof, ssActive>>

\* `write_all(body)` and `eof`.
SsSubscriptionBody(r) ==
  /\ ssTask[r] = "subscription" /\ ssPc = "listening"
  /\ ssTask' = [ssTask EXCEPT ![r] = "ended"]
  /\ ssEof' \in {ssEof, ssEof \cup {r}}
  /\ ssMoved' = [ssMoved EXCEPT ![r] = IF r \in ssEof' THEN 1 ELSE 0]
  /\ UNCHANGED <<ssKind, ssSingle, ssPc, ssPlan, ssLeft, ssAnswer, ssActive>>

\* Mutant: the stream is counted when its task is spawned, and by the task.
MutantSsProxy(r) ==
  /\ ssKind = "proxy" /\ SsCanListen(r)
  /\ ssTask' = [ssTask EXCEPT ![r] = "spawned"]
  /\ ssActive' = ssActive + 1
  /\ UNCHANGED <<ssKind, ssSingle, ssPc, ssPlan, ssLeft, ssMoved, ssAnswer, ssEof>>

\* The reverse proxy spawns the task; the task itself counts the stream.
SsProxy(r) ==
  /\ ssKind = "proxy" /\ SsCanListen(r)
  /\ ssTask' = [ssTask EXCEPT ![r] = "spawned"]
  /\ UNCHANGED <<ssKind, ssSingle, ssPc, ssPlan, ssLeft, ssMoved, ssAnswer, ssEof, ssActive>>

\* codec.listen() returns `None` or fails: the client is gone.  A
\* SingleRequestCodec never returns again after its request.
SsClientGone ==
  /\ ssPc = "listening" /\ ~ssSingle
  /\ \A q \in SsRequest : ssTask[q] # "subscription"
  /\ ssPc' = "closing"
  /\ UNCHANGED <<ssKind, ssSingle, ssPlan, ssTask, ssLeft, ssMoved, ssAnswer, ssEof, ssActive>>

\* Mutant: the timer closes the session whatever is counted.
MutantSsTimeout ==
  /\ ssPc = "listening" /\ ssKind # "subscription"
  /\ ssPc' = IF ssKind = "ping" THEN "closing" ELSE "idle"
  /\ UNCHANGED <<ssKind, ssSingle, ssPlan, ssTask, ssLeft, ssMoved, ssAnswer, ssEof, ssActive>>

\* The timer of the listening step expires: the loop goes on while streams are
\* counted, and shuts the codec down otherwise.  The ping handler's timer runs
\* over the whole session; the subscription handler has none.
SsTimeout ==
  /\ ssPc = "listening" /\ ssKind # "subscription"
  /\ ssKind # "ping" => ssActive = 0
  /\ ssPc' = IF ssKind = "ping" THEN "closing" ELSE "idle"
  /\ UNCHANGED <<ssKind, ssSingle, ssPlan, ssTask, ssLeft, ssMoved, ssAnswer, ssEof, ssActive>>

\* The shutdown notification ends the listening step, and with it the request
\* the subscription handler is working on.
SsShutdown ==
  /\ ssPc = "listening"
  /\ ssPc' = "closing"
  /\ ssTask' = [r \in SsRequest |-> IF ssTask[r] = "subscription" THEN "ended"
                                    ELSE ssTask[r]]
  /\ UNCHANGED <<ssKind, ssSingle, ssPlan, ssLeft, ssMoved, ssAnswer, ssEof, ssActive>>

\* codec.graceful_shutdown(): a SingleRequestCodec whose request was never
\* taken answers 500.
SsClose ==
  /\ ssPc \in {"closing", "idle"}
  /\ ssPc' = "closed"
  /\ IF ssSingle /\ \A r \in SsRequest : ssTask[r] = "none"
     THEN \E r \in SsRequest :
            /\ ssTask' = [ssTask EXCEPT ![r] = "ended"]
            /\ ssAnswer' = [ssAnswer EXCEPT ![r] = 500]
     ELSE UNCHANGED <<ssTask, ssAnswer>>
  /\ UNCHANGED <<ssKind, ssSingle, ssPlan, ssLeft, ssMoved, ssEof, ssActive>>

-----------------------------------------------------------------------------
\* The first poll of a spawned task: run_download_test sends its response
\* headers, run_upload_test begins to read, the proxy's task counts itself.
SsTaskStarts(r) ==
  /\ ssTask[r] = "spawned"
  /\ LET next == IF ssKind = "proxy" THEN "proxy" ELSE PrepareSpeedtest(ssPlan[r])
     IN /\ ssTask' = [ssTask EXCEPT ![r] = next]
        /\ ssAnswer' = [ssAnswer EXCEPT ![r] = IF next = "download" THEN 200 ELSE 0]
  /\ ssActive' = IF ssKind = "proxy" THEN ssActive + 1 ELSE ssActive
  /\ UNCHANGED <<ssKind, ssSingle, ssPc, ssPlan, ssLeft, ssMoved, ssEof>>

\* The task returns, for whatever reason, and takes itself off the counter.
SsTaskEnds(r) ==
  /\ ssTask[r] \in {"download", "upload", "proxy"}
  /\ ssTask' = [ssTask EXCEPT ![r] = "ended"]
  /\ ssActive' = ssActive - 1

\* run_download_test cannot send its response headers.
SsSendFails(r) ==
  /\ ssTask[r] = "spawned" /\ ssKind = "speedtest"
  /\ PrepareSpeedtest(ssPlan[r]) = "download"
  /\ ssTask' = [ssTask EXCEPT ![r] = "ended"]
  /\ ssActive' = ssActive - 1
  /\ UNCHANGED <<ssKind, ssSingle, ssPc, ssPlan, ssLeft, ssMoved, ssAnswer, ssEof>>

\* A write, a read or a consume fails; a proxied request comes to its end or
\* fails.
SsTaskFails(r) ==
  /\ SsTaskEnds(r)
  /\ UNCHANGED <<ssKind, ssSingle, ssPc, ssPlan, ssLeft, ssMoved, ssAnswer, ssEof>>

\* Mutant: the whole chunk is counted, whatever the sink leaves of it.
MutantSsDownload(r) ==
  /\ ssTask[r] = "download" /\ ssLeft[r] > 0
  /\ LET chunk == IF ssLeft[r] < SsChunk THEN ssLeft[r] ELSE SsChunk
     IN \E sent \in 0 .. chunk :
          /\ ssLeft' = [ssLeft EXCEPT ![r] = @ - chunk]
          /\ ssMoved' = [ssMoved EXCEPT ![r] = @ + sent]
  /\ UNCHANGED <<ssKind, ssSingle, ssPc, ssPlan, ssTask, ssAnswer, ssEof, ssActive>>

\* One turn of run_download_test: the sink takes some of a chunk.
SsDownload(r) ==
  /\ ssTask[r] = "download" /\ ssLeft[r] > 0
  /\ LET chunk == IF ssLeft[r] < SsChunk THEN ssLeft[r] ELSE SsChunk
     IN \E sent \in 0 .. chunk :
          /\ ssLeft' = [ssLeft EXCEPT ![r] = @ - sent]
          /\ ssMoved' = [ssMoved EXCEPT ![r] = @ + sent]
  /\ UNCHANGED <<ssKind, ssSingle, ssPc, ssPlan, ssTask, ssAnswer, ssEof, ssActive>>

\* The end of run_download_test.
SsDownloadEof(r) ==
  /\ ssTask[r] = "download" /\ ssLeft[r] = 0
  /\ SsTaskEnds(r)
  /\ ssEof' = ssEof \cup {r}
  /\ UNCHANGED <<ssKind, ssSingle, ssPc, ssPlan, ssLeft, ssMoved, ssAnswer>>

\* One turn of run_upload_test: a chunk arrives, of any length.
SsUpload(r) ==
  /\ ssTask[r] = "upload" /\ ssLeft[r] > 0
  /\ \E n \in 1 .. (ssPlan[r].sends - ssMoved[r]) :
       /\ ssMoved' = [ssMoved EXCEPT ![r] = @ + n]
       /\ ssLeft' = [ssLeft EXCEPT ![r] = IF @ < n THEN 0 ELSE @ - n]
  /\ UNCHANGED <<ssKind, ssSingle, ssPc, ssPlan, ssTask, ssAnswer, ssEof, ssActive>>

\* The end of run_upload_test: everything came, or the client ended the stream.
SsUploadDone(r) ==
  /\ ssTask[r] = "upload"
  /\ ssLeft[r] = 0 \/ ssMoved[r] = ssPlan[r].sends
  /\ SsTaskEnds(r)
  /\ \E status \in {0, 200} : ssAnswer' = [ssAnswer EXCEPT ![r] = status]
  /\ UNCHANGED <<ssKind, ssSingle, ssPc, ssPlan, ssLeft, ssMoved, ssEof>>

SsProgress(r) ==
  SsTaskStarts(r) \/ SsDownload(r) \/ SsDownloadEof(r) \/ SsUpload(r) \/ SsUploadDone(r)

SsNext ==
  \/ \E r \in SsRequest :
       \/ SsPing(r) \/ SsSpeedtest(r) \/ SsSubscription(r) \/ SsProxy(r)
       \/ SsSubscriptionBody(r) \/ SsSendFails(r) \/ SsTaskFails(r) \/ SsProgress(r)
  \/ SsClientGone \/ SsTimeout \/ SsShutdown \/ SsClose

SsSpec == SsInit /\ [][SsNext]_ssVars

-----------------------------------------------------------------------------
\* A session the idle timer closes has no speed test left, started or merely
\* spawned, and no proxied stream whose task has started: the counter the
\* timeout branch reads cannot miss a test (http_speedtest_handler.rs:110).
SsTimeoutMeansIdle ==
  [][ssPc # "idle" /\ ssPc' = "idle" =>
       \A r \in SsRequest :
         ssTask[r] \notin {"download", "upload", "proxy"}
                          \cup (IF ssKind = "speedtest" THEN {"spawned"} ELSE {})]_ssVars

\* A download test whose stream was ended carried exactly the bytes asked for,
\* however little of each chunk the sink took; a test that is under way has
\* written what is not left.
SsDownloadIsExact ==
  \A r \in SsRequest :
    /\ ssTask[r] = "download" => ssMoved[r] + ssLeft[r] = ssPlan[r].size
    /\ r \in ssEof /\ ssKind = "speedtest" => ssMoved[r] = ssPlan[r].size

\* A speed test session comes to its end when its tasks are scheduled and its
\* timer runs, for a client that sends less than it announced too (it is told
\* so by the end of the stream).  A turn of a download that writes nothing is
\* no progress: the sink is assumed to take something sooner or later.
SsSessionEnds ==
  WF_ssVars(SsTimeout \/ SsClose \/ \E r \in SsRequest : SsProgress(r))
  => (ssKind \in {"ping", "speedtest"} ~> ssPc = "closed")
=============================================================================
