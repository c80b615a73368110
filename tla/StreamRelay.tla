---------------------------- MODULE StreamRelay ----------------------------
(***************************************************************************)
(* What a relay of two byte streams promises its two peers, whatever its   *)
(* internal buffering, cancellation and timers are: in each direction the  *)
(* bytes handed to the receiving peer are a prefix of the bytes the other  *)
(* peer sent, the prefix only grows, and the end of the stream is          *)
(* forwarded only after the last byte.  lib/src/pipe.rs (TcpPipe) is shown *)
(* to implement this specification.                                        *)
(***************************************************************************)
EXTENDS Naturals, Sequences

CONSTANT Direction

VARIABLES
    sent,       \* the bytes the sending peer has written, per direction
    fin,        \* whether the sending peer has ended its stream
    delivered,  \* the bytes handed to the receiving peer
    shut,       \* whether the end of the stream was forwarded
    open        \* whether the relay is alive

vars == <<sent, fin, delivered, shut, open>>

Init ==
    /\ sent = [d \in Direction |-> <<>>]
    /\ fin = [d \in Direction |-> FALSE]
    /\ delivered = [d \in Direction |-> <<>>]
    /\ shut = [d \in Direction |-> FALSE]
    /\ open = TRUE

PeerSends(d) ==
    /\ open /\ ~fin[d]
    /\ sent' = [sent EXCEPT ![d] = Append(@, Len(@) + 1)]
    /\ UNCHANGED <<fin, delivered, shut, open>>

PeerEnds(d) ==
    /\ open /\ ~fin[d]
    /\ fin' = [fin EXCEPT ![d] = TRUE]
    /\ UNCHANGED <<sent, delivered, shut, open>>

\* Any number of further bytes, in the order they were sent.
Deliver(d) ==
    /\ open /\ ~shut[d]
    /\ \E n \in Len(delivered[d]) .. Len(sent[d]) :
          delivered' = [delivered EXCEPT ![d] = SubSeq(sent[d], 1, n)]
    /\ UNCHANGED <<sent, fin, shut, open>>

ForwardEnd(d) ==
    /\ open /\ fin[d] /\ delivered[d] = sent[d]
    /\ shut' = [shut EXCEPT ![d] = TRUE]
    /\ UNCHANGED <<sent, fin, delivered, open>>

\* The relay ends.  Finishing the last direction may be part of the same step.
Close ==
    /\ open
    /\ open' = FALSE
    /\ \E d \in Direction :
          \/ UNCHANGED shut
          \/ /\ fin[d] /\ delivered[d] = sent[d]
             /\ shut' = [shut EXCEPT ![d] = TRUE]
    /\ UNCHANGED <<sent, fin, delivered>>

Next ==
    \/ \E d \in Direction :
          PeerSends(d) \/ PeerEnds(d) \/ Deliver(d) \/ ForwardEnd(d)
    \/ Close

Spec == Init /\ [][Next]_vars
=============================================================================
