---------------------------- MODULE IcmpForwarder ----------------------------
(***************************************************************************)
(* lib/src/icmp_forwarder.rs: one raw socket for the echo requests of all  *)
(* the clients.  A request is sent first and registered under its lock     *)
(* afterwards; the listening task matches what arrives with the registered *)
(* requests and drops the ones whose deadline has passed.                  *)
(*                                                                         *)
(* Requests are compared as icmp_utils::Echo is: the same identifier and   *)
(* sequence number, and one's data a prefix of the other's.  The data of a *)
(* request is random (http_icmp_codec.rs), so no two requests share it     *)
(* unless it is empty; an ICMP error may quote the request without data.   *)
(***************************************************************************)
EXTENDS Naturals, Sequences, FiniteSets

CONSTANTS
    IcClient,       \* the clients' ICMP streams
    IcData,         \* the data requests may carry; "" is none
    IcTimeout,      \* request_timeout
    IcQueueCap,     \* recv_message_queue_capacity
    IcMaxTime,      \* bound: how far the clock runs
    IcMaxRequests   \* bound: how many requests are sent

ASSUME IcmpAssumption ==
    IcTimeout \in Nat \ {0} /\ IcQueueCap \in Nat \ {0} /\ IcMaxTime \in Nat /\ IcMaxRequests \in Nat

VARIABLES
    icNow,          \* the clock
    icWaiters,      \* reply_waiters: a function from keys to waiters
    icDeadlines,    \* deadlines: a function from times to sequences of requests
    icNotify,       \* a stored permit of deadline_waker
    icMaintain,     \* maintain_listeners: "start", or what it awaits
    icSending,      \* requests sent and not registered yet
    icAsked,        \* every request sent so far, with its client
    icQueue,        \* each client's queue of replies
    icGone          \* the clients whose stream has ended

icTables == <<icWaiters, icDeadlines, icNotify>>
icVars == <<icNow, icTables, icMaintain, icSending, icAsked, icQueue, icGone>>

\* Echo's PartialEq, for one identifier and sequence number.
IcEq(a, b) == a = "" \/ b = "" \/ a = b

IcNone == [x \in {} |-> x]
IcWithout(f, keys) == [x \in DOMAIN f \ keys |-> f[x]]
IcWith(f, key, value) == [x \in DOMAIN f \union {key} |-> IF x = key THEN value ELSE f[x]]
IcIn(seq) == {seq[i] : i \in DOMAIN seq}

\* The type invariant.
IcTypeOK ==
    /\ icNow \in 0..IcMaxTime /\ icNotify \in BOOLEAN
    /\ DOMAIN icWaiters \subseteq IcData
    /\ \A t \in DOMAIN icDeadlines : icDeadlines[t] # <<>> /\ t <= icNow + IcTimeout
    /\ \A c \in IcClient : Len(icQueue[c]) <= IcQueueCap

IcInit ==
    /\ icNow = 0 /\ icWaiters = IcNone /\ icDeadlines = IcNone /\ icNotify = FALSE
    /\ icMaintain = "start" /\ icSending = {} /\ icAsked = {}
    /\ icQueue = [c \in IcClient |-> <<>>] /\ icGone = {}

-----------------------------------------------------------------------------
(* IcmpSink.                                                               *)

\* Before the request is on the wire: a destination that may not be reached,
\* a message that is no echo, or no socket of its family drops it; a failure
\* of send_to ends the client's stream.
IcSend(c, data) ==
    /\ c \notin icGone /\ \A r \in icSending : r.client # c
    /\ \A r \in icAsked : r.data = data => data = "" /\ r.client # c
    /\ Cardinality(icAsked) < IcMaxRequests
    /\ \/ /\ icSending' = icSending \union {[client |-> c, data |-> data]}
          /\ icAsked' = icAsked \union {[client |-> c, data |-> data]}
          /\ UNCHANGED icGone
       \/ icGone' = icGone \union {c} /\ UNCHANGED <<icSending, icAsked>>
    /\ UNCHANGED <<icNow, icTables, icMaintain, icQueue>>

\* The keys of the map that are equal to a request; HashMap::insert keeps the
\* key it finds.
IcKeys(data) == {k \in DOMAIN icWaiters : IcEq(k, data)}

\* The rest of write(), under the lock.  `again`: a deadline of an equal
\* request is outstanding.
IcRegister(r) ==
    LET due == icNow + IcTimeout
        others == UNION {IcIn(icDeadlines[t]) : t \in DOMAIN icDeadlines} IN
    /\ r \in icSending
    /\ icSending' = icSending \ {r}
    /\ \E k \in IF IcKeys(r.data) = {} THEN {r.data} ELSE IcKeys(r.data) :
          icWaiters' = IcWith(icWaiters, k,
                              [client |-> r.client, due |-> due,
                               again |-> \E d \in others : IcEq(d, r.data) \/ IcEq(d, k)])
    /\ IF due \in DOMAIN icDeadlines
       THEN /\ icDeadlines' = [icDeadlines EXCEPT ![due] = Append(@, r.data)]
            /\ UNCHANGED icNotify
       ELSE /\ icDeadlines' = IcWith(icDeadlines, due, <<r.data>>)
            /\ icNotify' = (icNotify \/ DOMAIN icDeadlines' = {due})
    /\ UNCHANGED <<icNow, icMaintain, icAsked, icQueue, icGone>>

-----------------------------------------------------------------------------
(* IcmpForwarder::listen.                                                  *)

\* A reply to a request that was sent, or an error that quotes it with or
\* without its data.  A waiter whose queue is full or closed is removed; one
\* that was served stays until its deadline.  The select starts anew.
IcReceive(data, reply) ==
    LET quoted == IF reply = "short" THEN "" ELSE data IN
    /\ \E r \in icAsked : r.data = data
    /\ \/ IcKeys(quoted) = {} /\ UNCHANGED <<icQueue, icWaiters>>
       \/ \E k \in IcKeys(quoted) :
             LET c == icWaiters[k].client IN
             IF c \notin icGone /\ Len(icQueue[c]) < IcQueueCap
             THEN /\ icQueue' = [icQueue EXCEPT ![c] = Append(@, [data |-> data, reply |-> reply])]
                  /\ UNCHANGED icWaiters
             ELSE icWaiters' = IcWithout(icWaiters, {k}) /\ UNCHANGED icQueue
    /\ icMaintain' = "start"
    /\ UNCHANGED <<icNow, icDeadlines, icNotify, icSending, icAsked, icGone>>

\* maintain_listeners up to its await.
IcMaintainStart ==
    /\ icMaintain = "start"
    /\ icMaintain' = IF DOMAIN icDeadlines = {} THEN "notified" ELSE "sleep"
    /\ UNCHANGED <<icNow, icTables, icSending, icAsked, icQueue, icGone>>

\* Mutant: every deadline counts as passed.
MutantIcExpired == DOMAIN icDeadlines

IcExpired == {t \in DOMAIN icDeadlines : t <= icNow}

\* The await is over: a permit, or the closest deadline has come.
IcMaintainListeners ==
    LET requests == UNION {IcIn(icDeadlines[t]) : t \in IcExpired} IN
    /\ \/ icMaintain = "notified" /\ icNotify /\ icNotify' = FALSE
       \/ icMaintain = "sleep" /\ (\E t \in DOMAIN icDeadlines : t <= icNow) /\ UNCHANGED icNotify
    /\ icMaintain' = "start"
    /\ icDeadlines' = IcWithout(icDeadlines, IcExpired)
    /\ icWaiters' = IcWithout(icWaiters, {k \in DOMAIN icWaiters : \E d \in requests : IcEq(k, d)})
    /\ UNCHANGED <<icNow, icSending, icAsked, icQueue, icGone>>

-----------------------------------------------------------------------------
(* IcmpSource, and the environment.                                        *)

IcRead(c) ==
    /\ icQueue[c] # <<>>
    /\ icQueue' = [icQueue EXCEPT ![c] = Tail(@)]
    /\ UNCHANGED <<icNow, icTables, icMaintain, icSending, icAsked, icGone>>

IcLeave(c) ==
    /\ c \notin icGone /\ \A r \in icSending : r.client # c
    /\ icGone' = icGone \union {c}
    /\ icQueue' = [icQueue EXCEPT ![c] = <<>>]
    /\ UNCHANGED <<icNow, icTables, icMaintain, icSending, icAsked>>

IcTick ==
    /\ icNow < IcMaxTime /\ icNow' = icNow + 1
    /\ UNCHANGED <<icTables, icMaintain, icSending, icAsked, icQueue, icGone>>

IcNext ==
    \/ \E c \in IcClient : IcRead(c) \/ IcLeave(c) \/ \E d \in IcData : IcSend(c, d)
    \/ \E r \in icSending : IcRegister(r)
    \/ \E d \in IcData, reply \in {"full", "short"} : IcReceive(d, reply)
    \/ IcMaintainStart \/ IcMaintainListeners \/ IcTick
IcSpec == IcInit /\ [][IcNext]_icVars

-----------------------------------------------------------------------------
(* Properties.                                                             *)

\* Waiters are served.
\* Deadlines are watched: a maintenance that waits for a notification has
\* one stored as soon as there is a deadline, and every waiter has a deadline
\* of an equal request.  Registrations and the maintenance race for the lock.
\* A reply reaches the client that sent the request, although requests of
\* different clients share the identifier and the sequence number: unless
\* one of those requests has no data.
\* A waiter is dropped before its deadline only for a queue that is full or
\* closed, or for the deadline of an equal request.
IcWaitersAreServed ==
    /\ []( /\ icMaintain = "notified" /\ DOMAIN icDeadlines # {} => icNotify
           /\ \A k \in DOMAIN icWaiters :
                 \E t \in DOMAIN icDeadlines :
                     t <= icWaiters[k].due /\ \E d \in IcIn(icDeadlines[t]) : IcEq(k, d)
           /\ \A c \in IcClient : \A i \in DOMAIN icQueue[c] :
                 LET m == icQueue[c][i] IN
                 \/ [client |-> c, data |-> m.data] \in icAsked
                 \/ m.reply = "short" \/ \E r \in icAsked : r.data = "" )
    /\ [][\A k \in DOMAIN icWaiters \ DOMAIN icWaiters' :
             \/ icWaiters[k].due <= icNow \/ icWaiters[k].again
             \/ icWaiters[k].client \in icGone
             \/ Len(icQueue[icWaiters[k].client]) = IcQueueCap]_icVars
=============================================================================
