------------------------- MODULE ConnectionLimiter -------------------------
(***************************************************************************)
(* The per-client connection limits of lib/src/connection_limiter.rs.      *)
(* HTTP/1 and HTTP/2 connections share one counter, HTTP/3 has its own.    *)
(* Every operation runs under the limiter's mutex and is one step.         *)
(***************************************************************************)
EXTENDS Integers

CONSTANTS
    Client,         \* the credentials of the configured clients
    MaxConns,       \* max_http2_conns and max_http3_conns of each client
    DefaultMax      \* the defaults of the main configuration

Protocol == {"Http1", "Http2", "Http3"}
Class == {"Http2", "Http3"}
NoLimit == -1       \* Option::None

ClassOf(p) == IF p = "Http3" THEN "Http3" ELSE "Http2"

ASSUME MaxConnsAssumption ==
    MaxConns \in [Client -> [Class -> Nat \union {NoLimit}]]
ASSUME DefaultMaxAssumption == DefaultMax \in [Class -> Nat \union {NoLimit}]

VARIABLE
    count           \* http2_count and http3_count of each client

LimiterInit == count = [c \in Client |-> [k \in Class |-> 0]]

LimitOf(c, k) == IF MaxConns[c][k] # NoLimit THEN MaxConns[c][k] ELSE DefaultMax[k]

\* Mutant: one connection too many.
MutantCanAcquire(c, p) ==
    /\ c \in Client
    /\ LimitOf(c, ClassOf(p)) = NoLimit
          \/ count[c][ClassOf(p)] <= LimitOf(c, ClassOf(p))

\* try_acquire returns a guard; it returns None for unknown credentials and
\* when the client's limit is reached.
CanAcquire(c, p) ==
    /\ c \in Client
    /\ LimitOf(c, ClassOf(p)) = NoLimit
          \/ count[c][ClassOf(p)] < LimitOf(c, ClassOf(p))

TryAcquire(c, p) == count' = [count EXCEPT ![c][ClassOf(p)] = @ + 1]

\* Mutant: an HTTP/3 slot is given back to the other counter.
MutantRelease(c, p) ==
    count' = [count EXCEPT ![c]["Http2"] = IF @ > 0 THEN @ - 1 ELSE 0]

\* ConnectionGuard::drop, with its saturating subtraction.
Release(c, p) ==
    count' = [count EXCEPT ![c][ClassOf(p)] = IF @ > 0 THEN @ - 1 ELSE 0]
=============================================================================
