--------------------------- MODULE SessionMetrics ---------------------------
(***************************************************************************)
(* The session accounting of lib/src/metrics.rs: a gauge of sessions per   *)
(* protocol, a gauge per user and protocol, and the clients map with the   *)
(* user name each tracked connection is labelled with.                     *)
(*                                                                         *)
(* The gauges are atomics; the map has a mutex.  Each operator below is    *)
(* one critical section, or the atomic updates between two of them.        *)
(***************************************************************************)
EXTENDS Integers

CONSTANTS
    Conn,           \* the connections
    User,           \* the user names
    PerClient       \* settings.metrics.per_client_metrics

NoName == "no name"     \* the label of a session whose user is not known

ASSUME NoNameAssumption == NoName \notin User
ASSUME PerClientAssumption == PerClient \in BOOLEAN

Label == User \union {NoName}

VARIABLES
    sessions,       \* client_sessions, per protocol
    perUser,        \* client_sessions_per_user, per label and protocol
    entries,        \* the keys of the clients map
    label           \* ClientInfo.username of each key

metricsVars == <<sessions, perUser, entries, label>>

MetricsInit(protocols) ==
    /\ sessions = [p \in protocols |-> 0]
    /\ perUser = [u \in Label |-> [p \in protocols |-> 0]]
    /\ entries = {}
    /\ label = [t \in Conn |-> NoName]

RegisterConnection(t) ==
    /\ entries' = entries \union {t}
    /\ label' = [label EXCEPT ![t] = IF t \in entries THEN @ ELSE NoName]
    /\ UNCHANGED <<sessions, perUser>>

UnregisterConnection(t) ==
    /\ entries' = entries \ {t}
    /\ UNCHANGED <<sessions, perUser, label>>

\* inc() or dec() of a per-user gauge; nothing when they are not enabled.
Bump(gauge, u, p, n) == IF PerClient THEN [gauge EXCEPT ![u][p] = @ + n] ELSE gauge

\* ClientSessionsCounter::new: first the gauges, then the map.
CountSession(u, p) ==
    /\ sessions' = [sessions EXCEPT ![p] = @ + 1]
    /\ perUser' = Bump(perUser, u, p, 1)
    /\ UNCHANGED <<entries, label>>

RecordSession(t, u) ==
    /\ entries' = entries \union {t}
    /\ label' = [label EXCEPT ![t] = IF u # NoName THEN u
                                     ELSE IF t \in entries THEN @ ELSE NoName]
    /\ UNCHANGED <<sessions, perUser>>

\* Mutant: the gauges move although the connection is not tracked.
MutantTransfer(t, u, p) ==
    IF label[t] # u
    THEN /\ perUser' = Bump(Bump(perUser, label[t], p, -1), u, p, 1)
         /\ label' = [label EXCEPT ![t] = u]
         /\ UNCHANGED <<sessions, entries>>
    ELSE UNCHANGED metricsVars

\* transfer_session_username does nothing for a connection that is not in the
\* map any more, and nothing when the label does not change.
TransferSessionUsername(t, u, p) ==
    IF t \in entries /\ label[t] # u
    THEN /\ perUser' = Bump(Bump(perUser, label[t], p, -1), u, p, 1)
         /\ label' = [label EXCEPT ![t] = u]
         /\ UNCHANGED <<sessions, entries>>
    ELSE UNCHANGED metricsVars

\* ClientSessionsCounter::drop: first the gauge, then the map.
UncountSession(p) ==
    /\ sessions' = [sessions EXCEPT ![p] = @ - 1]
    /\ UNCHANGED <<perUser, entries, label>>

ForgetSession(t, p) ==
    IF t \in entries
    THEN /\ entries' = entries \ {t}
         /\ perUser' = Bump(perUser, label[t], p, -1)
         /\ UNCHANGED <<sessions, label>>
    ELSE UNCHANGED metricsVars
=============================================================================
