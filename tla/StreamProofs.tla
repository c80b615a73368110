---------------------------- MODULE StreamProofs ----------------------------
(***************************************************************************)
(* Proofs about the streams of bytes of a client.                          *)
(*   TcpPipe, for every number of bytes, every size of the receiving       *)
(*     streams and every timeout.                                          *)
(*   Http1Session, for every size of a head, a body and a response and     *)
(*     every way they are cut into pieces.                                 *)
(*   Http2Session, for every set of streams and every window.              *)
(***************************************************************************)
EXTENDS TcpPipe, Http1Session, Http2Session, TLAPS

-----------------------------------------------------------------------------
(* Sequences.                                                              *)

\* What the provers need of the concatenation of two sequences.
LEMMA Concat ==
    ASSUME NEW S, NEW p \in Seq(S), NEW q \in Seq(S)
    PROVE  /\ p \o q \in Seq(S)
           /\ Len(p \o q) = Len(p) + Len(q)
           /\ \A i \in 1..(Len(p) + Len(q)) : (p \o q)[i] = IF i <= Len(p) THEN p[i] ELSE q[i - Len(p)]
           /\ p \o <<>> = p /\ <<>> \o p = p
    OBVIOUS

\* Sequences that agree at every position are the same.
LEMMA SameSequence ==
    ASSUME NEW S, NEW p \in Seq(S), NEW q \in Seq(S), Len(p) = Len(q),
           \A i \in 1..Len(p) : p[i] = q[i]
    PROVE  p = q
    OBVIOUS

-----------------------------------------------------------------------------
(* The operators the pipe is built from.                                   *)

\* A chunk cut at any point is the concatenation of its two parts.
LEMMA CutChunk ==
    ASSUME NEW s \in Seq(Nat), NEW k \in 0 .. Len(s)
    PROVE  /\ SubSeq(s, 1, k) \in Seq(Nat)
           /\ SubSeq(s, k + 1, Len(s)) \in Seq(Nat)
           /\ Len(SubSeq(s, 1, k)) = k
           /\ SubSeq(s, 1, k) \o SubSeq(s, k + 1, Len(s)) = s
<1> DEFINE p == SubSeq(s, 1, k)
           q == SubSeq(s, k + 1, Len(s))
<1>1. p \in Seq(Nat) /\ Len(p) = k /\ \A i \in 1 .. k : p[i] = s[i]
    OBVIOUS
<1>2. q \in Seq(Nat) /\ Len(q) = Len(s) - k
    OBVIOUS
<1>3. \A i \in 1 .. Len(s) - k : q[i] = s[k + i]
    OBVIOUS
<1> HIDE DEF p, q
<1>4. /\ p \o q \in Seq(Nat) /\ Len(p \o q) = Len(p) + Len(q)
      /\ \A i \in 1 .. Len(p) + Len(q) : (p \o q)[i] = IF i <= Len(p) THEN p[i] ELSE q[i - Len(p)]
    BY <1>1, <1>2, Concat, Zenon
<1>5. k + (Len(s) - k) = Len(s)
    OBVIOUS
<1>6. Len(p \o q) = Len(s)
    BY <1>1, <1>2, <1>4, <1>5, Zenon
<1>7. ASSUME NEW i \in 1 .. Len(s) PROVE (p \o q)[i] = s[i]
    <2>1. (p \o q)[i] = IF i <= k THEN p[i] ELSE q[i - k]
        BY <1>1, <1>2, <1>4, <1>5, Zenon
    <2>2. i <= k => i \in 1 .. k
        OBVIOUS
    <2>3. ~(i <= k) => i - k \in 1 .. Len(s) - k /\ k + (i - k) = i
        OBVIOUS
    <2> QED BY <1>1, <1>3, <2>1, <2>2, <2>3, Zenon
<1>8. p \o q = s
    BY <1>4, <1>6, <1>7, SameSequence, Zenon
<1> QED BY <1>1, <1>2, <1>8, Zenon DEF p, q

\* A byte at the end.
Appends(s, x) == Append(s, x) = s \o <<x>>

LEMMA Appended ==
    ASSUME NEW s \in Seq(Nat), NEW x \in Nat
    PROVE  Appends(s, x)
<1>1. /\ Append(s, x) \in Seq(Nat) /\ s \o <<x>> \in Seq(Nat)
      /\ Len(Append(s, x)) = Len(s) + 1 /\ Len(s \o <<x>>) = Len(s) + 1
    OBVIOUS
<1>2. \A i \in 1 .. Len(s) + 1 : Append(s, x)[i] = (s \o <<x>>)[i]
    OBVIOUS
<1>3. Append(s, x) = s \o <<x>>
    BY <1>1, <1>2, SameSequence
<1> QED BY <1>3, Zenon DEF Appends

Associates(s, t, u) == (s \o t) \o u = s \o (t \o u)

\* Concatenation of byte strings is closed and associative.
LEMMA Regroup ==
    ASSUME NEW s \in Seq(Nat), NEW t \in Seq(Nat), NEW u \in Seq(Nat)
    PROVE  s \o t \in Seq(Nat) /\ Associates(s, t, u)
<1>1. /\ (s \o t) \o u \in Seq(Nat) /\ s \o (t \o u) \in Seq(Nat) /\ s \o t \in Seq(Nat)
      /\ Len((s \o t) \o u) = Len(s) + (Len(t) + Len(u))
      /\ Len(s \o (t \o u)) = Len(s) + (Len(t) + Len(u))
    OBVIOUS
<1>2. \A i \in 1 .. Len(s) + (Len(t) + Len(u)) : ((s \o t) \o u)[i] = (s \o (t \o u))[i]
    OBVIOUS
<1>3. (s \o t) \o u = s \o (t \o u)
    BY <1>1, <1>2, SameSequence, Zenon
<1> QED BY <1>1, <1>3, Zenon DEF Associates

\* The sink accepts no more than the chunk and no more than it has room for.
LEMMA AcceptedBound ==
    ASSUME TypeOK, NEW d \in Direction, NEW chunk \in Seq(Nat)
    PROVE  /\ Accepted(d, chunk) \in 0 .. Len(chunk)
           /\ Accepted(d, chunk) <= room[d]
<1>1. Len(chunk) \in Nat
    OBVIOUS
<1>2. room[d] \in 0 .. Room
    BY Zenon DEF TypeOK
<1> QED BY <1>1, <1>2, RoomAssumption DEF Accepted

\* Writing a chunk keeps the types, and cuts the chunk in two: what is appended
\* to the delivered bytes and what becomes the pending chunk.
LEMMA WriteChunkFacts ==
    ASSUME TypeOK, NEW d \in Direction, NEW chunk \in Seq(Nat),
           WriteChunk(d, chunk)
    PROVE  /\ delivered' \in [Direction -> Seq(Nat)]
           /\ pending' \in [Direction -> Seq(Nat)]
           /\ room' \in [Direction -> 0 .. Room]
           /\ consumed' \in [Direction -> Nat]
           /\ stage' \in [Direction -> Stage]
           /\ age' \in [Direction -> Nat]
           /\ idle' \in Nat
           /\ \A e \in Direction : e # d =>
                 /\ delivered'[e] = delivered[e]
                 /\ pending'[e] = pending[e]
                 /\ consumed'[e] = consumed[e]
                 /\ stage'[e] = stage[e]
           /\ stage'[d] = "flush"
           /\ \E a, b \in Seq(Nat) :
                 /\ a \o b = chunk
                 /\ delivered'[d] = delivered[d] \o a
                 /\ consumed'[d] = consumed[d] + Len(a)
                 /\ pending'[d] = b
<1> DEFINE n == Accepted(d, chunk)
           a == SubSeq(chunk, 1, n)
           b == SubSeq(chunk, n + 1, Len(chunk))
<1>1. n \in 0 .. Len(chunk) /\ n <= room[d]
    BY AcceptedBound, Zenon
<1>2. /\ a \in Seq(Nat) /\ b \in Seq(Nat)
      /\ Len(a) = n /\ a \o b = chunk
    BY <1>1, CutChunk, Zenon
<1>3. Len(chunk) \in Nat
    OBVIOUS
<1>4. n \in Nat
    BY <1>1, <1>3
<1>5. delivered[d] \o a \in Seq(Nat)
    BY <1>2, Concat, Zenon DEF TypeOK
<1>w. /\ delivered' = [delivered EXCEPT ![d] = delivered[d] \o a]
      /\ room' = [room EXCEPT ![d] = room[d] - n]
      /\ consumed' = [consumed EXCEPT ![d] = consumed[d] + n]
      /\ pending' = [pending EXCEPT ![d] = b]
      /\ stage' = [stage EXCEPT ![d] = "flush"]
      /\ age' = [age EXCEPT ![d] = 0]
      /\ idle' = 0
    BY Zenon DEF WriteChunk, Rest
<1> HIDE DEF n, a, b
<1>6. /\ delivered' \in [Direction -> Seq(Nat)]
      /\ pending' \in [Direction -> Seq(Nat)]
      /\ delivered'[d] = delivered[d] \o a
      /\ pending'[d] = b
    BY <1>w, <1>2, <1>5, Zenon DEF TypeOK
<1>7. room' \in [Direction -> 0 .. Room]
    BY <1>w, <1>1, <1>4, RoomAssumption, SMTT(30) DEF TypeOK
<1>8. /\ consumed' \in [Direction -> Nat] 
      /\ consumed'[d] = consumed[d] + Len(a)
    BY <1>w, <1>2, <1>4, SMTT(30) DEF TypeOK
<1>9. /\ stage' \in [Direction -> Stage] /\ stage'[d] = "flush"
      /\ age' \in [Direction -> Nat] /\ idle' \in Nat
    BY <1>w, Zenon DEF TypeOK, Stage
<1>10. \A e \in Direction : e # d =>
                 /\ delivered'[e] = delivered[e]
                 /\ pending'[e] = pending[e]
                 /\ consumed'[e] = consumed[e]
                 /\ stage'[e] = stage[e]
    BY <1>w, Zenon DEF TypeOK
<1> QED BY <1>2, <1>6, <1>7, <1>8, <1>9, <1>10, Zenon

-----------------------------------------------------------------------------
(* Types.                                                                  *)

\* The chunk a read yields, and what it leaves unread.
LEMMA ReadChunkFacts ==
    ASSUME TypeOK, NEW d \in Direction, ReadChunk(d)
    PROVE  \E chunk, rest \in Seq(Nat) :
               /\ chunk \o rest = unread[d]
               /\ WriteChunk(d, chunk)
               /\ unread' = [unread EXCEPT ![d] = rest]
<1>1. PICK n \in 1 .. Len(unread[d]) :
          /\ WriteChunk(d, SubSeq(unread[d], 1, n))
          /\ unread' = [unread EXCEPT ![d] = SubSeq(unread[d], n + 1, Len(unread[d]))]
    BY Zenon DEF ReadChunk
<1>2. unread[d] \in Seq(Nat)
    BY Zenon DEF TypeOK
<1>3. n \in 0 .. Len(unread[d])
    BY <1>2
<1> QED BY <1>1, <1>2, <1>3, CutChunk, Zenon

\* Every step keeps the types.
LEMMA TypeStep == TypeOK /\ [Next]_vars => TypeOK'
<1> SUFFICES ASSUME TypeOK, [Next]_vars PROVE TypeOK'
    BY Zenon
<1>1. ASSUME NEW d \in Direction, PeerSends(d) PROVE TypeOK'
    <2>1. /\ sent[d] \in Seq(Nat) /\ unread[d] \in Seq(Nat)
          /\ Len(sent[d]) + 1 \in Nat
        BY DEF TypeOK
    <2>2. /\ Append(sent[d], Len(sent[d]) + 1) \in Seq(Nat)
          /\ Append(unread[d], Len(sent[d]) + 1) \in Seq(Nat)
        BY <2>1
    <2> QED BY <1>1, <2>2, Zenon DEF PeerSends, TypeOK
<1>2. ASSUME NEW d \in Direction, PeerEnds(d) PROVE TypeOK'
    BY <1>2, Zenon DEF PeerEnds, TypeOK
<1>3. ASSUME NEW d \in Direction, PeerDrains(d) PROVE TypeOK'
    BY <1>3, RoomAssumption, SMTT(30) DEF PeerDrains, TypeOK
<1>4. ASSUME NEW d \in Direction, Flush(d) PROVE TypeOK'
    BY <1>4, Zenon DEF Flush, FlushSink, TypeOK, Stage, streams
<1>5. ASSUME NEW d \in Direction, ReadChunk(d) PROVE TypeOK'
    <2>1. PICK chunk, rest \in Seq(Nat) :
              /\ WriteChunk(d, chunk)
              /\ unread' = [unread EXCEPT ![d] = rest]
        BY <1>5, ReadChunkFacts, Zenon
    <2> QED BY <1>5, <2>1, WriteChunkFacts, Zenon DEF ReadChunk, TypeOK
<1>6. ASSUME NEW d \in Direction, RetryPending(d) PROVE TypeOK'
    <2>1. pending[d] \in Seq(Nat) /\ WriteChunk(d, pending[d])
        BY <1>6, Zenon DEF RetryPending, TypeOK
    <2> QED BY <1>6, <2>1, WriteChunkFacts, Zenon DEF RetryPending, TypeOK
<1>7. ASSUME NEW d \in Direction, ReadEof(d) PROVE TypeOK'
    BY <1>7, Zenon DEF ReadEof, TypeOK, Stage, streams
<1>8. ASSUME NEW d \in Direction, FinishDirection(d) PROVE TypeOK'
    BY <1>8, Zenon DEF FinishDirection, FlushSink, TypeOK, Stage, streams
<1>9. ASSUME NEW d \in Direction, TimerFires(d) PROVE TypeOK'
    <2>1. CASE GivesUp(d)
        BY <1>9, <2>1, Zenon DEF TimerFires, TypeOK, streams
    <2>2. CASE ~GivesUp(d)
        <3>1. /\ stage' = [e \in Direction |-> "flush"]
              /\ age' = [e \in Direction |-> 0]
            BY <1>9, <2>2, Zenon DEF TimerFires
        <3>2. stage' \in [Direction -> Stage] /\ age' \in [Direction -> Nat]
            BY <3>1, Zenon DEF Stage
        <3> QED BY <1>9, <2>2, <3>2, Zenon DEF TimerFires, TypeOK, streams
    <2> QED BY <2>1, <2>2, Zenon
<1>10. ASSUME NEW d \in Direction, StreamFails(d) PROVE TypeOK'
    BY <1>10, Zenon DEF StreamFails, TypeOK, streams
<1>11. CASE Tick
    BY <1>11 DEF Tick, TypeOK, streams
<1>12. CASE UNCHANGED vars
    BY <1>12, Zenon DEF vars, TypeOK
<1> QED
    BY <1>1, <1>2, <1>3, <1>4, <1>5, <1>6, <1>7, <1>8, <1>9, <1>10, <1>11, <1>12
       DEF Next, PipeStep, Closed

\* The initial state has the types.
LEMMA TypeInit == Init => TypeOK
<1>1. <<>> \in Seq(Nat)
    OBVIOUS
<1> QED BY <1>1, RoomAssumption DEF Init, TypeOK, Stage

\* The variables of the pipe always have their types.
THEOREM TypeCorrect == Spec => []TypeOK
    BY TypeInit, TypeStep, PTL DEF Spec

-----------------------------------------------------------------------------
(* The bytes.                                                              *)

\* How far a direction is tells what its sink was told: past the end of the
\* source the end is pending, a finished direction is shut down, and a restart
\* of a direction forgets neither.
StagesInOrder ==
    /\ \A d \in Direction :
          /\ stage[d] \in {"eofFlush", "finished"} => eofPending[d]
          /\ stage[d] = "finished" => shut[d]
          /\ shut[d] => eofPending[d]
    /\ outcome = "finished" => \A d \in Direction : stage[d] = "finished"

\* The inductive invariant behind the properties of the bytes.
ByteInv ==
    /\ BytesConserved
    /\ WindowFollowsDelivery
    /\ EndBehindLastByte
    /\ StagesInOrder

\* There are two directions.
LEMMA TwoDirections ==
    ASSUME NEW d \in Direction
    PROVE  Other(d) \in Direction /\ \A e \in Direction : e = d \/ e = Other(d)
<1>1. \E e \in Direction : e # d
    BY Zenon DEF Direction
<1>2. Other(d) \in Direction /\ Other(d) # d
    BY <1>1, Zenon DEF Other
<1> QED BY <1>2, Zenon DEF Direction

\* Writing a chunk that was the pending chunk, or the head of what was unread
\* when nothing was pending, conserves the bytes and slides the window by what
\* was delivered.
LEMMA WriteConserves ==
    ASSUME TypeOK, BytesConserved, WindowFollowsDelivery,
           NEW d \in Direction, NEW chunk \in Seq(Nat), NEW rest \in Seq(Nat),
           pending[d] \o unread[d] = chunk \o rest,
           WriteChunk(d, chunk),
           unread' = [unread EXCEPT ![d] = rest],
           UNCHANGED sent
    PROVE  BytesConserved' /\ WindowFollowsDelivery'
<1>1. PICK a, b \in Seq(Nat) :
          /\ a \o b = chunk
          /\ delivered'[d] = delivered[d] \o a
          /\ consumed'[d] = consumed[d] + Len(a)
          /\ pending'[d] = b
    BY WriteChunkFacts, Zenon
<1>2. /\ delivered[d] \in Seq(Nat) /\ pending[d] \in Seq(Nat)
      /\ unread[d] \in Seq(Nat) /\ unread'[d] = rest
    BY Zenon DEF TypeOK
<1>3. delivered[d] \o a \in Seq(Nat) /\ b \o rest \in Seq(Nat)
    BY <1>2, Regroup, Zenon
<1>4. /\ Associates(delivered[d], pending[d], unread[d])
      /\ Associates(a, b, rest)
      /\ Associates(delivered[d] \o a, b, rest)
      /\ Associates(delivered[d], a, b \o rest)
    BY <1>2, <1>3, Regroup, Zenon
<1>5. sent[d] = (delivered[d] \o pending[d]) \o unread[d]
    BY Zenon DEF BytesConserved
<1>6. sent[d] = ((delivered[d] \o a) \o b) \o rest
    BY <1>1, <1>4, <1>5, Zenon DEF Associates
<1>7. sent'[d] = (delivered'[d] \o pending'[d]) \o unread'[d]
    BY <1>1, <1>2, <1>6, Zenon
<1>8. consumed'[d] = Len(delivered'[d])
    BY <1>1, <1>2, Concat, SMTT(30) DEF WindowFollowsDelivery
<1>9. \A e \in Direction : e # d =>
          /\ delivered'[e] = delivered[e] /\ pending'[e] = pending[e]
          /\ consumed'[e] = consumed[e] /\ unread'[e] = unread[e]
    BY WriteChunkFacts, Zenon DEF TypeOK
<1> QED BY <1>7, <1>8, <1>9, Zenon DEF BytesConserved, WindowFollowsDelivery

\* Writing a chunk in a direction whose end is not announced disturbs neither
\* the order of the stages nor the ends of the streams.
LEMMA WriteKeepsEnds ==
    ASSUME TypeOK, EndBehindLastByte, StagesInOrder,
           NEW d \in Direction, NEW chunk \in Seq(Nat),
           WriteChunk(d, chunk), ~eofPending[d],
           UNCHANGED <<sent, fin, eofPending, shut, outcome>>, outcome = "open"
    PROVE  EndBehindLastByte' /\ StagesInOrder'
<1>1. /\ \A e \in Direction : e # d => delivered'[e] = delivered[e] /\ stage'[e] = stage[e]
      /\ stage'[d] = "flush"
    BY WriteChunkFacts, Zenon
<1>2. EndBehindLastByte'
    BY <1>1, Zenon DEF EndBehindLastByte
<1>3. StagesInOrder'
    BY <1>1, Zenon DEF StagesInOrder
<1> QED BY <1>2, <1>3, Zenon

\* A stream that was read to its end with nothing pending was delivered whole.
LEMMA NothingLeft ==
    ASSUME TypeOK, BytesConserved, NEW d \in Direction,
           pending[d] = <<>>, unread[d] = <<>>
    PROVE  delivered[d] = sent[d]
<1>1. delivered[d] \in Seq(Nat)
    BY Zenon DEF TypeOK
<1>2. delivered[d] \o <<>> = delivered[d]
    BY <1>1, Concat, Zenon
<1> QED BY <1>2, Zenon DEF BytesConserved

\* Every step keeps the invariant of the bytes.
LEMMA ByteStep == TypeOK /\ ByteInv /\ [Next]_vars => ByteInv'
<1> SUFFICES ASSUME TypeOK, ByteInv, [Next]_vars PROVE ByteInv'
    BY Zenon
<1> USE DEF ByteInv
<1>1. ASSUME NEW d \in Direction, PeerSends(d) PROVE ByteInv'
    <2>1. /\ sent[d] \in Seq(Nat) /\ unread[d] \in Seq(Nat)
          /\ delivered[d] \in Seq(Nat) /\ pending[d] \in Seq(Nat)
          /\ Len(sent[d]) + 1 \in Nat
        BY DEF TypeOK
    <2> DEFINE x == Len(sent[d]) + 1
               y == delivered[d] \o pending[d]
    <2>2. y \in Seq(Nat) /\ <<x>> \in Seq(Nat)
        BY <2>1, Regroup
    <2>3. Associates(y, unread[d], <<x>>)
        BY <2>1, <2>2, Regroup, Zenon
    <2>4. Append(sent[d], x) = sent[d] \o <<x>> /\ Append(unread[d], x) = unread[d] \o <<x>>
        BY <2>1, Appended, Zenon DEF Appends
    <2>5. sent'[d] = Append(sent[d], x) /\ unread'[d] = Append(unread[d], x)
        BY <1>1, Zenon DEF PeerSends, TypeOK
    <2>6. sent[d] = y \o unread[d]
        BY Zenon DEF BytesConserved
    <2>7. sent'[d] = y \o unread'[d]
        BY <2>3, <2>4, <2>5, <2>6, Zenon DEF Associates
    <2>8. BytesConserved'
        BY <1>1, <2>7, Zenon DEF PeerSends, TypeOK, BytesConserved
    <2>9. EndBehindLastByte'
        BY <1>1, Zenon DEF PeerSends, TypeOK, EndBehindLastByte
    <2> QED BY <1>1, <2>8, <2>9, Zenon DEF PeerSends, WindowFollowsDelivery, StagesInOrder
<1>2. ASSUME NEW d \in Direction, PeerEnds(d) PROVE ByteInv'
    BY <1>2, Zenon DEF PeerEnds, TypeOK, BytesConserved, WindowFollowsDelivery,
                EndBehindLastByte, StagesInOrder
<1>3. ASSUME NEW d \in Direction, PeerDrains(d) PROVE ByteInv'
    BY <1>3, Zenon DEF PeerDrains, BytesConserved, WindowFollowsDelivery,
                EndBehindLastByte, StagesInOrder
<1>4. ASSUME NEW d \in Direction, Flush(d) PROVE ByteInv'
    <2>1. StagesInOrder'
        BY <1>4, Zenon DEF Flush, FlushSink, TypeOK, StagesInOrder
    <2> QED BY <1>4, <2>1, Zenon DEF Flush, streams, BytesConserved, WindowFollowsDelivery,
                              EndBehindLastByte
<1>5. ASSUME NEW d \in Direction, ReadChunk(d) PROVE ByteInv'
    <2>1. PICK chunk, rest \in Seq(Nat) :
              /\ chunk \o rest = unread[d]
              /\ WriteChunk(d, chunk)
              /\ unread' = [unread EXCEPT ![d] = rest]
        BY <1>5, ReadChunkFacts, Zenon
    <2>2. /\ pending[d] = <<>> /\ ~eofPending[d] /\ outcome = "open"
          /\ UNCHANGED <<sent, fin, eofPending, shut, outcome>>
        BY <1>5, Zenon DEF ReadChunk
    <2>3. unread[d] \in Seq(Nat)
        BY Zenon DEF TypeOK
    <2>4. pending[d] \o unread[d] = chunk \o rest
        BY <2>1, <2>2, <2>3, Concat, Zenon
    <2>5. BytesConserved' /\ WindowFollowsDelivery'
        BY <2>1, <2>2, <2>4, WriteConserves, Zenon
    <2>6. EndBehindLastByte' /\ StagesInOrder'
        BY <2>1, <2>2, WriteKeepsEnds, Zenon
    <2> QED BY <2>5, <2>6, Zenon
<1>6. ASSUME NEW d \in Direction, RetryPending(d) PROVE ByteInv'
    <2>1. /\ WriteChunk(d, pending[d]) /\ ~eofPending[d] /\ outcome = "open"
          /\ UNCHANGED <<sent, fin, unread, eofPending, shut, outcome>>
        BY <1>6, Zenon DEF RetryPending
    <2>2. pending[d] \in Seq(Nat) /\ unread[d] \in Seq(Nat)
          /\ unread' = [unread EXCEPT ![d] = unread[d]]
        BY <2>1, Zenon DEF TypeOK
    <2>3. PICK chunk, rest \in Seq(Nat) : chunk = pending[d] /\ rest = unread[d]
        BY <2>2, Zenon
    <2>4. BytesConserved' /\ WindowFollowsDelivery'
        BY <2>1, <2>2, <2>3, WriteConserves, Zenon
    <2>5. EndBehindLastByte' /\ StagesInOrder'
        BY <2>1, <2>3, WriteKeepsEnds, Zenon
    <2> QED BY <2>4, <2>5, Zenon
<1>7. ASSUME NEW d \in Direction, ReadEof(d) PROVE ByteInv'
    <2>1. delivered[d] = sent[d]
        BY <1>7, NothingLeft, Zenon DEF ReadEof
    <2>2. EndBehindLastByte'
        BY <1>7, <2>1, Zenon DEF ReadEof, streams, TypeOK, EndBehindLastByte
    <2>3. StagesInOrder'
        BY <1>7, Zenon DEF ReadEof, TypeOK, StagesInOrder
    <2> QED BY <1>7, <2>2, <2>3, Zenon DEF ReadEof, streams, BytesConserved,
                                    WindowFollowsDelivery
<1>8. ASSUME NEW d \in Direction, FinishDirection(d) PROVE ByteInv'
    <2>1. /\ stage' = [stage EXCEPT ![d] = "finished"]
          /\ shut' = [shut EXCEPT ![d] = eofPending[d] \/ shut[d]]
          /\ eofPending[d] /\ UNCHANGED eofPending
        BY <1>8, Zenon DEF FinishDirection, FlushSink, StagesInOrder
    <2>2. outcome' = "finished" => stage[Other(d)] = "finished"
        BY <1>8, Zenon DEF FinishDirection
    <2>3. outcome' = "finished" => \A e \in Direction : stage'[e] = "finished"
        BY <2>1, <2>2, TwoDirections, Zenon DEF TypeOK
    <2>4. StagesInOrder'
        BY <2>1, <2>3, SMTT(30) DEF TypeOK, StagesInOrder
    <2> QED BY <1>8, <2>4, Zenon DEF FinishDirection, streams, BytesConserved,
                              WindowFollowsDelivery, EndBehindLastByte
<1>9. ASSUME NEW d \in Direction, TimerFires(d) PROVE ByteInv'
    <2>1. StagesInOrder'
        <3>1. CASE GivesUp(d)
            BY <1>9, <3>1, Zenon DEF TimerFires, StagesInOrder
        <3>2. CASE ~GivesUp(d)
            <4>1. /\ \A e \in Direction : stage'[e] = "flush"
                  /\ outcome' = "open" /\ UNCHANGED <<shut, eofPending>>
                BY <1>9, <3>2, Zenon DEF TimerFires
            <4> QED BY <4>1, Zenon DEF StagesInOrder
        <3> QED BY <3>1, <3>2, Zenon
    <2> QED BY <1>9, <2>1, Zenon DEF TimerFires, streams, BytesConserved,
                              WindowFollowsDelivery, EndBehindLastByte
<1>10. ASSUME NEW d \in Direction, StreamFails(d) PROVE ByteInv'
    BY <1>10, Zenon DEF StreamFails, streams, BytesConserved, WindowFollowsDelivery,
                 EndBehindLastByte, StagesInOrder
<1>11. CASE Tick
    BY <1>11, Zenon DEF Tick, streams, BytesConserved, WindowFollowsDelivery,
                 EndBehindLastByte, StagesInOrder
<1>12. CASE UNCHANGED vars
    BY <1>12, Zenon DEF vars, BytesConserved, WindowFollowsDelivery, EndBehindLastByte,
                 StagesInOrder
<1> QED
    BY <1>1, <1>2, <1>3, <1>4, <1>5, <1>6, <1>7, <1>8, <1>9, <1>10, <1>11, <1>12, Zenon
       DEF Next, PipeStep, Closed

\* The invariant of the bytes holds initially.
LEMMA ByteInit == Init => ByteInv
<1>1. Len(<<>>) = 0 /\ (<<>> \o <<>>) \o <<>> = <<>>
    OBVIOUS
<1> QED BY <1>1 DEF Init, ByteInv, BytesConserved, WindowFollowsDelivery,
                    EndBehindLastByte, StagesInOrder

\* The invariant of the bytes always holds.
LEMMA ByteInvariant == Spec => []ByteInv
    BY TypeCorrect, ByteInit, ByteStep, PTL DEF Spec

\* No byte is lost, duplicated or reordered between the two streams, wherever
\* an exchange() is cancelled.
THEOREM Conservation == Spec => []BytesConserved
<1>1. ByteInv => BytesConserved
    BY Zenon DEF ByteInv
<1> QED BY <1>1, ByteInvariant, PTL

\* Source::consume and the traffic counters account for exactly what the sink
\* accepted.
THEOREM WindowCorrect == Spec => []WindowFollowsDelivery
<1>1. ByteInv => WindowFollowsDelivery
    BY Zenon DEF ByteInv
<1> QED BY <1>1, ByteInvariant, PTL

\* The end of a stream is announced only behind its last byte.
THEOREM EndOrdered == Spec => []EndBehindLastByte
<1>1. ByteInv => EndBehindLastByte
    BY Zenon DEF ByteInv
<1> QED BY <1>1, ByteInvariant, PTL

\* exchange() returns success only when both streams were forwarded whole.
THEOREM SuccessIsComplete == Spec => []FinishedMeansComplete
<1>1. ByteInv => FinishedMeansComplete
    BY Zenon DEF ByteInv, FinishedMeansComplete, StagesInOrder, EndBehindLastByte
<1> QED BY <1>1, ByteInvariant, PTL

-----------------------------------------------------------------------------
(* Time.                                                                   *)

\* No timer runs past its due time; and since the last byte moved, either no
\* restart happened, and every direction is at least as old as the idle time,
\* or one did, and both directions are as old as the time since it, which was
\* at most one timeout after that byte.
TimeInv ==
    /\ \A d \in Direction : age[d] <= Timeout + 1
    /\ \E d \in Direction : age[d] <= idle
    /\ outcome = "open" /\ (\E d \in Direction : Armed(d)) =>
          \/ idle <= Timeout + 1 /\ \A d \in Direction : idle <= age[d]
          \/ \A d, e \in Direction :
                age[d] = age[e] /\ idle <= age[d] + (Timeout + 1)

\* Every step keeps the invariant of the timers.
LEMMA TimeStep == TypeOK /\ TimeInv /\ [Next]_vars => TimeInv'
<1> SUFFICES ASSUME TypeOK, TimeInv, [Next]_vars PROVE TimeInv'
    BY Zenon
<1> USE TimeoutAssumption
<1>1. ASSUME UNCHANGED <<age, idle>>,
             outcome' = "open" => outcome = "open",
             \A d \in Direction : Armed(d)' => Armed(d)
      PROVE  TimeInv'
    BY <1>1, Zenon DEF TimeInv
<1>2. ASSUME NEW d \in Direction, NEW chunk, WriteChunk(d, chunk) PROVE TimeInv'
    <2>1. age' = [age EXCEPT ![d] = 0] /\ idle' = 0
        BY <1>2, Zenon DEF WriteChunk
    <2>2. \A e \in Direction : age'[e] = (IF e = d THEN 0 ELSE age[e]) /\ age[e] \in Nat
        BY <2>1, Zenon DEF TypeOK
    <2>3. \A e \in Direction : age'[e] <= Timeout + 1 /\ idle' <= age'[e]
        BY <2>1, <2>2 DEF TimeInv
    <2>4. age'[d] <= idle' /\ idle' <= Timeout + 1
        BY <2>1, <2>2
    <2> QED BY <2>3, <2>4, Zenon DEF TimeInv
<1>3. ASSUME NEW d \in Direction, TimerFires(d) PROVE TimeInv'
    <2>1. CASE GivesUp(d)
        BY <1>1, <1>3, <2>1, Zenon DEF TimerFires, Armed
    <2>2. CASE ~GivesUp(d)
        <3>1. /\ age' = [e \in Direction |-> 0]
              /\ UNCHANGED <<idle, outcome>> /\ outcome = "open" /\ Armed(d)
              /\ age[d] > Timeout
            BY <1>3, <2>2, Zenon DEF TimerFires, Expired
        <3>2. PICK e \in Direction : ~(age[e] > Timeout)
            BY <2>2, Zenon DEF GivesUp, Expired
        <3>3. idle <= Timeout + 1
            BY <3>1, <3>2, Zenon DEF TimeInv, TypeOK
        <3>4. idle' \in Nat /\ idle' <= Timeout + 1 /\ \A f \in Direction : age'[f] = 0
            BY <3>1, <3>3, Zenon DEF TypeOK
        <3>5. age'[d] <= idle'
            BY <3>4
        <3> QED BY <3>4, <3>5 DEF TimeInv
    <2> QED BY <2>1, <2>2, Zenon
<1>4. CASE Tick
    <2>1. /\ \A e \in Direction : age'[e] = IF age[e] > Timeout THEN age[e] ELSE age[e] + 1
          /\ idle' = IF idle < 3 * (Timeout + 1) THEN idle + 1 ELSE idle
          /\ \A e \in Direction : Armed(e) => ~(age[e] > Timeout)
          /\ UNCHANGED <<outcome, stage>>
        BY <1>4, Zenon DEF Tick, Expired, IdleCap
    <2>2. \A e \in Direction : age[e] \in Nat /\ age[e] <= Timeout + 1
        BY Zenon DEF TypeOK, TimeInv
    <2>3. idle \in Nat
        BY Zenon DEF TypeOK
    <2>4. \A e \in Direction : age'[e] <= Timeout + 1
        BY <2>1, <2>2
    <2>5. \E e \in Direction : age'[e] <= idle'
        BY <2>1, <2>2, <2>3 DEF TimeInv
    <2>6. ASSUME outcome' = "open", NEW f \in Direction, Armed(f)'
          PROVE  \/ idle' <= Timeout + 1 /\ \A e \in Direction : idle' <= age'[e]
                 \/ \A d, e \in Direction :
                       age'[d] = age'[e] /\ idle' <= age'[d] + (Timeout + 1)
        <3>1. outcome = "open" /\ Armed(f) /\ age[f] <= Timeout
            BY <2>1, <2>2, <2>6 DEF Armed
        <3>2. CASE idle <= Timeout + 1 /\ \A e \in Direction : idle <= age[e]
            BY <2>1, <2>2, <2>3, <3>1, <3>2
        <3>3. CASE \A d, e \in Direction : age[d] = age[e] /\ idle <= age[d] + (Timeout + 1)
            BY <2>1, <2>2, <2>3, <3>1, <3>3
        <3> QED BY <3>1, <3>2, <3>3, Zenon DEF TimeInv
    <2> QED BY <2>4, <2>5, <2>6, Zenon DEF TimeInv
<1>5. ASSUME NEW d \in Direction,
             PeerSends(d) \/ PeerEnds(d) \/ PeerDrains(d) \/ Flush(d)
                \/ ReadEof(d) \/ FinishDirection(d) \/ StreamFails(d)
      PROVE  TimeInv'
    <2>1. UNCHANGED <<age, idle>> /\ (outcome' = "open" => outcome = "open")
        BY <1>5, Zenon DEF PeerSends, PeerEnds, PeerDrains, Flush, ReadEof,
                    FinishDirection, StreamFails
    <2>2. \A e \in Direction : Armed(e)' => Armed(e)
        BY <1>5, Zenon DEF PeerSends, PeerEnds, PeerDrains, Flush, ReadEof,
                    FinishDirection, StreamFails, Armed, TypeOK
    <2> QED BY <1>1, <2>1, <2>2, Zenon
<1>6. ASSUME NEW d \in Direction, ReadChunk(d) \/ RetryPending(d) PROVE TimeInv'
    BY <1>2, <1>6, Zenon DEF ReadChunk, RetryPending
<1>7. CASE UNCHANGED vars
    BY <1>7, Zenon DEF vars, TimeInv, Armed
<1> QED
    BY <1>3, <1>4, <1>5, <1>6, <1>7, Zenon DEF Next, PipeStep, Closed

\* The timers are consistent initially.
LEMMA TimeInit == Init => TimeInv
    BY TimeoutAssumption DEF Init, TimeInv, Direction

\* The timers always are.
LEMMA TimeInvariant == Spec => []TimeInv
    BY TypeCorrect, TimeInit, TimeStep, PTL DEF Spec

\* An idle pipe with an armed timer is closed within two timeouts.
THEOREM IdleTimeBounded == Spec => []IdleBounded
<1>1. TypeOK /\ TimeInv => IdleBounded
    <2> SUFFICES ASSUME TypeOK, TimeInv, outcome = "open", NEW d \in Direction, Armed(d)
                 PROVE  idle <= 2 * (Timeout + 1)
        BY Zenon DEF IdleBounded
    <2>1. idle \in Nat /\ age[d] \in Nat /\ age[d] <= Timeout + 1
        BY Zenon DEF TypeOK, TimeInv
    <2>2. idle <= Timeout + 1 \/ idle <= age[d] + (Timeout + 1)
        BY Zenon DEF TimeInv
    <2> QED BY <2>1, <2>2, TimeoutAssumption
<1> QED BY <1>1, TypeCorrect, TimeInvariant, PTL

\* While neither direction has ended, only an idle pipe is timed out.
THEOREM TimeoutsAreIdle == Spec => OnlyIdlePipesTimeOut
<1>1. TypeOK /\ TimeInv /\ [Next]_vars =>
          [outcome' = "timedOut" /\ (\A d \in Direction : stage[d] # "finished")
               => idle > Timeout]_vars
    <2> SUFFICES ASSUME TypeOK, TimeInv, Next, outcome' = "timedOut",
                        \A d \in Direction : stage[d] # "finished",
                        vars' # vars
                 PROVE  idle > Timeout
        BY Zenon
    <2>1. PICK d \in Direction : TimerFires(d) /\ GivesUp(d)
        <3>1. outcome # "timedOut"
            BY SMTT(30) DEF Next, PipeStep, PeerSends, PeerEnds, PeerDrains, Flush, ReadChunk,
                   RetryPending, ReadEof, FinishDirection, TimerFires, StreamFails,
                   Tick, Closed
        <3>2. \E d \in Direction : TimerFires(d)
            BY <3>1, Zenon DEF Next, PipeStep, PeerSends, PeerEnds, PeerDrains, Flush,
                   ReadChunk, RetryPending, ReadEof, FinishDirection, StreamFails,
                   Tick, Closed
        <3> QED BY <3>1, <3>2, Zenon DEF TimerFires
    <2>2. \A e \in Direction : age[e] > Timeout
        BY <2>1, TwoDirections, Zenon DEF GivesUp, Expired
    <2> QED BY <2>2, TimeoutAssumption, SMTT(30) DEF TimeInv, TypeOK
<1> QED BY <1>1, TypeCorrect, TimeInvariant, PTL DEF Spec, OnlyIdlePipesTimeOut

-----------------------------------------------------------------------------
(* Refinement: the pipe implements the abstract relay.                     *)

\* A prefix of a byte string is what it is the prefix by.
LEMMA PrefixOfConcat ==
    ASSUME NEW x \in Seq(Nat), NEW y \in Seq(Nat)
    PROVE  /\ SubSeq(x \o y, 1, Len(x)) = x
           /\ Len(x) \in Nat /\ Len(y) \in Nat
           /\ Len(x \o y) = Len(x) + Len(y)
<1> DEFINE p == SubSeq(x \o y, 1, Len(x))
<1>1. /\ Len(x) \in Nat /\ Len(y) \in Nat /\ Len(x \o y) = Len(x) + Len(y) /\ x \o y \in Seq(Nat)
      /\ \A i \in 1 .. Len(x) : (x \o y)[i] = x[i]
    OBVIOUS
<1>2. p \in Seq(Nat) /\ Len(p) = Len(x)
    BY <1>1
<1>3. \A i \in 1 .. Len(x) : p[i] = (x \o y)[i]
    BY <1>1
<1>4. \A i \in 1 .. Len(x) : p[i] = x[i]
    BY <1>1, <1>3, Zenon
<1> HIDE DEF p
<1>5. p = x
    BY <1>2, <1>4, SameSequence
<1> QED BY <1>1, <1>5, Zenon DEF p

\* Writing a chunk is a delivery of the relay.
LEMMA WriteDelivers ==
    ASSUME TypeOK, TypeOK', BytesConserved, BytesConserved', EndBehindLastByte, StagesInOrder,
           NEW d \in Direction, NEW chunk \in Seq(Nat),
           WriteChunk(d, chunk), outcome = "open", ~eofPending[d],
           UNCHANGED <<sent, fin, shut, outcome>>
    PROVE  Relay!Deliver(d)
<1>1. PICK a \in Seq(Nat) : delivered'[d] = delivered[d] \o a
    BY WriteChunkFacts, Zenon
<1>2. /\ delivered[d] \in Seq(Nat) /\ delivered'[d] \in Seq(Nat)
      /\ pending'[d] \in Seq(Nat) /\ unread'[d] \in Seq(Nat)
      /\ delivered \in [Direction -> Seq(Nat)]
    BY Zenon DEF TypeOK
<1> DEFINE tail == pending'[d] \o unread'[d]
           n == Len(delivered'[d])
<1>3. tail \in Seq(Nat) /\ Associates(delivered'[d], pending'[d], unread'[d])
    BY <1>2, Regroup, Zenon
<1>4. sent[d] = delivered'[d] \o tail
    BY <1>3, Zenon DEF BytesConserved, Associates
<1>5. PICK x, y \in Seq(Nat) : x = delivered'[d] /\ y = tail
    BY <1>2, <1>3, Zenon
<1>6. /\ SubSeq(sent[d], 1, n) = delivered'[d]
      /\ n \in Nat /\ Len(sent[d]) = n + Len(tail) /\ Len(tail) \in Nat
    BY <1>4, <1>5, PrefixOfConcat, Zenon
<1>7. /\ Len(delivered[d]) \in Nat
      /\ n = Len(delivered[d]) + Len(a) /\ Len(a) \in Nat
    BY <1>1, <1>2, PrefixOfConcat, Zenon
<1>8. n \in Len(delivered[d]) .. Len(sent[d])
    <2> HIDE DEF n, tail
    <2> QED BY <1>6, <1>7, SMTT(30)
<1>9. delivered' = [delivered EXCEPT ![d] = delivered'[d]]
    <2>1. \E v : delivered' = [delivered EXCEPT ![d] = v]
        BY Zenon DEF WriteChunk
    <2> QED BY <2>1, <1>2, Zenon
<1>10. ~shut[d]
    BY Zenon DEF StagesInOrder
<1> QED BY <1>6, <1>8, <1>9, <1>10, Zenon DEF Relay!Deliver

\* Every step of the pipe is a step of the relay or leaves its state alone.
LEMMA RelayStep ==
    /\ TypeOK /\ TypeOK' /\ ByteInv /\ ByteInv' /\ [Next]_vars
    => [Relay!Next]_(Relay!vars)
<1> SUFFICES ASSUME TypeOK, TypeOK', ByteInv, ByteInv', [Next]_vars
             PROVE  [Relay!Next]_(Relay!vars)
    BY Zenon
<1> USE DEF ByteInv
<1>1. ASSUME NEW d \in Direction, PeerSends(d) PROVE Relay!Next
    <2>1. Relay!PeerSends(d)
        BY <1>1, Zenon DEF PeerSends, Relay!PeerSends
    <2> QED BY <2>1, Zenon DEF Relay!Next
<1>2. ASSUME NEW d \in Direction, PeerEnds(d) PROVE Relay!Next
    <2>1. Relay!PeerEnds(d)
        BY <1>2, Zenon DEF PeerEnds, Relay!PeerEnds
    <2> QED BY <2>1, Zenon DEF Relay!Next
<1>3. ASSUME NEW d \in Direction, PeerDrains(d) PROVE UNCHANGED Relay!vars
    BY <1>3, Zenon DEF PeerDrains, Relay!vars
<1>4. ASSUME NEW d \in Direction, Flush(d) PROVE [Relay!Next]_(Relay!vars)
    <2>1. CASE eofPending[d]
        <3>1. Relay!ForwardEnd(d)
            BY <1>4, <2>1, Zenon DEF Flush, FlushSink, streams, EndBehindLastByte,
                              Relay!ForwardEnd
        <3> QED BY <3>1, Zenon DEF Relay!Next
    <2>2. CASE ~eofPending[d]
        <3>1. shut' = shut
            BY <1>4, <2>2, SMTT(30) DEF Flush, FlushSink, TypeOK
        <3> QED BY <1>4, <3>1, Zenon DEF Flush, streams, Relay!vars
    <2> QED BY <2>1, <2>2, Zenon
<1>5. ASSUME NEW d \in Direction, ReadChunk(d) PROVE Relay!Next
    <2>1. PICK chunk \in Seq(Nat) : WriteChunk(d, chunk)
        BY <1>5, ReadChunkFacts, Zenon
    <2>2. Relay!Deliver(d)
        BY <1>5, <2>1, WriteDelivers, Zenon DEF ReadChunk
    <2> QED BY <2>2, Zenon DEF Relay!Next
<1>6. ASSUME NEW d \in Direction, RetryPending(d) PROVE Relay!Next
    <2>1. PICK chunk \in Seq(Nat) : WriteChunk(d, chunk)
        BY <1>6, Zenon DEF RetryPending, TypeOK
    <2>2. Relay!Deliver(d)
        BY <1>6, <2>1, WriteDelivers, Zenon DEF RetryPending
    <2> QED BY <2>2, Zenon DEF Relay!Next
<1>7. ASSUME NEW d \in Direction, ReadEof(d) PROVE UNCHANGED Relay!vars
    BY <1>7, Zenon DEF ReadEof, streams, Relay!vars
<1>8. ASSUME NEW d \in Direction, FinishDirection(d) PROVE Relay!Next
    <2>1. /\ eofPending[d] /\ fin[d] /\ delivered[d] = sent[d]
          /\ shut' = [shut EXCEPT ![d] = TRUE]
          /\ outcome = "open" /\ UNCHANGED <<sent, fin, delivered>>
        BY <1>8, Zenon DEF FinishDirection, FlushSink, streams, StagesInOrder,
                    EndBehindLastByte
    <2>2. CASE outcome' = "open"
        <3>1. Relay!ForwardEnd(d)
            BY <2>1, <2>2, Zenon DEF Relay!ForwardEnd
        <3> QED BY <3>1, Zenon DEF Relay!Next
    <2>3. CASE outcome' # "open"
        <3>1. Relay!Close
            BY <2>1, <2>3, Zenon DEF Relay!Close
        <3> QED BY <3>1, Zenon DEF Relay!Next
    <2> QED BY <2>2, <2>3, Zenon
<1>9. ASSUME NEW d \in Direction, TimerFires(d) PROVE [Relay!Next]_(Relay!vars)
    <2>1. CASE GivesUp(d)
        <3>1. Relay!Close
            BY <1>9, <2>1, Zenon DEF TimerFires, streams, Relay!Close
        <3> QED BY <3>1, Zenon DEF Relay!Next
    <2>2. CASE ~GivesUp(d)
        BY <1>9, <2>2, Zenon DEF TimerFires, streams, Relay!vars
    <2> QED BY <2>1, <2>2, Zenon
<1>10. ASSUME NEW d \in Direction, StreamFails(d) PROVE Relay!Next
    <2>1. Relay!Close
        BY <1>10, Zenon DEF StreamFails, streams, Relay!Close
    <2> QED BY <2>1, Zenon DEF Relay!Next
<1>11. CASE Tick
    BY <1>11, Zenon DEF Tick, streams, Relay!vars
<1>12. CASE UNCHANGED vars
    BY <1>12, Zenon DEF vars, Relay!vars
<1> QED
    BY <1>1, <1>2, <1>3, <1>4, <1>5, <1>6, <1>7, <1>8, <1>9, <1>10, <1>11, <1>12, Zenon
       DEF Next, PipeStep, Closed

\* The duplex pipe implements the abstract relay of two byte streams.
THEOREM Refinement == Spec => ImplementsRelay
<1>1. Init => Relay!Init
    BY Zenon DEF Init, Relay!Init
<1> QED BY <1>1, RelayStep, TypeCorrect, ByteInvariant, PTL
        DEF Spec, ImplementsRelay, Relay!Spec

-----------------------------------------------------------------------------
(* HTTP/1.1: runs of pieces.                                               *)

\* A run is a sequence with one element per piece.
LEMMA RunType ==
    ASSUME NEW a \in Nat \ {0}, NEW b \in Nat, b + 1 >= a
    PROVE  /\ H1Run(a, b) \in Seq(Nat) /\ Len(H1Run(a, b)) = b + 1 - a
           /\ \A i \in 1..(b + 1 - a) : H1Run(a, b)[i] = a + i - 1
    BY DEF H1Run

\* Two runs that meet make one.
LEMMA RunConcat ==
    ASSUME NEW a \in Nat \ {0}, NEW b \in Nat, NEW c \in Nat, b + 1 >= a, c >= b
    PROVE  H1Run(a, b) \o H1Run(b + 1, c) = H1Run(a, c)
<1> DEFINE p == H1Run(a, b)
           q == H1Run(b + 1, c)
           r == H1Run(a, c)
<1>1. /\ p \in Seq(Nat) /\ Len(p) = b + 1 - a /\ \A i \in 1..(b + 1 - a) : p[i] = a + i - 1
      /\ q \in Seq(Nat) /\ Len(q) = c - b /\ \A i \in 1..(c - b) : q[i] = b + i
      /\ r \in Seq(Nat) /\ Len(r) = c + 1 - a /\ \A i \in 1..(c + 1 - a) : r[i] = a + i - 1
    BY RunType DEF H1Run
<1> HIDE DEF p, q, r
<1>2. /\ p \o q \in Seq(Nat) /\ Len(p \o q) = Len(p) + Len(q)
      /\ \A i \in 1..(Len(p) + Len(q)) : (p \o q)[i] = IF i <= Len(p) THEN p[i] ELSE q[i - Len(p)]
    BY <1>1, Concat, Zenon
<1>3. Len(p \o q) = Len(r) /\ \A i \in 1..Len(p \o q) : (p \o q)[i] = r[i]
    <2>1. Len(p) + Len(q) = c + 1 - a /\ Len(p \o q) = Len(r)
        BY <1>1, <1>2, SMTT(30)
    <2>2. ASSUME NEW i \in 1..(c + 1 - a)
          PROVE  (p \o q)[i] = r[i]
        <3>1. (p \o q)[i] = IF i <= Len(p) THEN p[i] ELSE q[i - Len(p)]
            BY <1>2, <2>1, Zenon
        <3>2. r[i] = a + i - 1
            BY <1>1, Zenon
        <3>3. CASE i <= Len(p)
            <4>1. i \in 1..(b + 1 - a)
                BY <1>1, <3>3, SMTT(30)
            <4> QED BY <1>1, <3>1, <3>2, <3>3, <4>1, Zenon
        <3>4. CASE ~(i <= Len(p))
            <4>1. i - Len(p) \in 1..(c - b) /\ b + (i - Len(p)) = a + i - 1
                BY <1>1, <3>4, SMTT(30)
            <4> QED BY <1>1, <3>1, <3>2, <3>4, <4>1, Zenon
        <3> QED BY <3>3, <3>4, Zenon
    <2> QED BY <1>1, <1>2, <2>1, <2>2, Zenon
<1>4. p \o q = r
    BY <1>1, <1>2, <1>3, SameSequence, Zenon
<1> QED BY <1>4, Zenon DEF p, q, r

\* What follows the head in a run from the start is a run.
LEMMA RunTail ==
    ASSUME NEW h \in Nat, NEW k \in Nat, k >= h
    PROVE  SubSeq(H1Run(1, k), h + 1, k) = H1Run(h + 1, k)
<1> DEFINE p == H1Run(1, k)
           r == H1Run(h + 1, k)
<1>1. /\ p \in Seq(Nat) /\ Len(p) = k /\ \A i \in 1..k : p[i] = i
      /\ r \in Seq(Nat) /\ Len(r) = k - h /\ \A i \in 1..(k - h) : r[i] = h + i
    BY RunType DEF H1Run
<1> HIDE DEF p, r
<1>2. /\ SubSeq(p, h + 1, k) \in Seq(Nat) /\ Len(SubSeq(p, h + 1, k)) = k - h
      /\ \A i \in 1..(k - h) : SubSeq(p, h + 1, k)[i] = p[h + i]
    BY <1>1
<1>3. SubSeq(p, h + 1, k) = r
    BY <1>1, <1>2
<1> QED BY <1>3, Zenon DEF p, r

-----------------------------------------------------------------------------
(* The inductive invariant.                                                *)

H1Typed ==
    /\ h1Buffer \in Seq(Nat) /\ h1Upload \in Seq(Nat) /\ h1Got \in Seq(Nat)
    /\ h1Sent \in Nat /\ h1Taken \in Nat /\ h1Taken <= h1Sent
    /\ h1Download \in 0..1 /\ h1Wire \in Nat /\ h1Accepted \in Nat
    /\ h1Permit \in BOOLEAN

\* What the sink put in the channel is in it or on the wire.
H1Counted == h1Wire + h1Download = h1Accepted

\* A permit, and an end for the sink's eof, come from a sink that called eof()
\* and writes no more; the channel is empty once the shutdown has flushed it.
H1SinkInv ==
    /\ h1Permit => h1Sink \in {"ended", "dropped"}
    /\ h1Why = "sink eof" => h1Sink \in {"ended", "dropped"}
    /\ h1Why = "sink eof" /\ h1Codec \in {"draining", "graceful"} => h1Download = 0
    /\ h1Codec = "waiting" => h1Sink = "none" /\ h1Download = 0
    /\ h1Why = "sink gone" => h1Sink = "dropped" /\ ~h1Permit
    /\ H1Listening => h1Why = "running"

\* Until the head is complete the buffer holds every piece read; then the
\* pieces after the head are, in order, with the source, in the channel and in
\* the buffer; the client's close is seen with the buffer empty and nothing
\* unread.
H1SourceInv ==
    /\ h1Codec = "waiting" => /\ h1Source = "none" /\ h1Got = <<>> /\ h1Upload = <<>>
                              /\ h1Buffer = H1Run(1, h1Taken)
    /\ h1Codec = "inProgress" /\ h1Source = "held" =>
          /\ h1Taken >= HeadParts
          /\ h1Got \o h1Upload \o h1Buffer = H1Run(HeadParts + 1, h1Taken)
    /\ h1Why = "client eof" /\ h1Source = "held" =>
          h1ClientEof /\ h1Got \o h1Upload = H1Run(HeadParts + 1, h1Sent)
    /\ h1Why = "client eof" /\ h1Source = "ended" =>
          h1ClientEof /\ h1Got = H1Run(HeadParts + 1, h1Sent)
    /\ h1Source = "ended" => ~H1Alive

H1Inv == H1Typed /\ H1Counted /\ H1SinkInv /\ H1SourceInv

\* A read gives a run of unread pieces.
LEMMA ReadsRun ==
    ASSUME H1Typed, NEW k \in 0..h1Sent, H1Reads(k)
    PROVE  /\ k \in Nat /\ h1Taken <= k /\ k <= h1Sent
           /\ H1Run(h1Taken + 1, k) \in Seq(Nat)
           /\ k = h1Taken => h1Taken = h1Sent /\ h1ClientEof
<1>1. k \in Nat /\ h1Taken <= k /\ k <= h1Sent
    BY DEF H1Typed, H1Reads
<1>2. k = h1Taken => h1Taken = h1Sent /\ h1ClientEof
    BY DEF H1Typed, H1Reads
<1>3. h1Taken + 1 \in Nat \ {0} /\ k + 1 >= h1Taken + 1
    BY <1>1 DEF H1Typed
<1>4. H1Run(h1Taken + 1, k) \in Seq(Nat)
    BY <1>1, <1>3, RunType, Zenon
<1> QED BY <1>1, <1>2, <1>4, Zenon

\* Every step keeps the types.
LEMMA TypedStep ==
    ASSUME H1Inv, [H1Next]_h1Vars
    PROVE  H1Typed'
<1> USE DEF H1Inv, H1Typed, h1Client, h1SourceVars, h1SinkVars
<1>0. <<>> \in Seq(Nat)
    OBVIOUS
<1>1. CASE H1ReadHead
  <2>1. PICK k \in 0..h1Sent, expect \in BOOLEAN :
          /\ H1Reads(k)
          /\ h1Taken' = k
          /\ IF k = h1Taken
             THEN /\ H1End("flushing", "client eof") /\ h1Buffer' = <<>>
                  /\ UNCHANGED <<h1Source, h1Sink>>
             ELSE OnRequestHeadersChunk(h1Buffer \o H1Run(h1Taken + 1, k), expect)
      BY <1>1, Zenon DEF H1ReadHead
  <2>2. k \in Nat /\ k <= h1Sent /\ H1Run(h1Taken + 1, k) \in Seq(Nat)
      BY <2>1, ReadsRun, Zenon
  <2>3. h1Buffer \o H1Run(h1Taken + 1, k) \in Seq(Nat)
      BY <2>2
  <2>4. h1Buffer' \in Seq(Nat)
    <3>1. CASE k = h1Taken
        BY <1>0, <2>1, <3>1, Zenon
    <3>2. CASE k # h1Taken
      <4> DEFINE b == h1Buffer \o H1Run(h1Taken + 1, k)
      <4>1. b \in Seq(Nat) /\ Len(b) \in Nat
          BY <2>3
      <4>2. h1Buffer' \in {h1Buffer, b, SubSeq(b, HeadParts + 1, Len(b))}
          BY <2>1, <3>2, Zenon DEF OnRequestHeadersChunk
      <4> HIDE DEF b
      <4>3. SubSeq(b, HeadParts + 1, Len(b)) \in Seq(Nat)
          BY <4>1, Http1Assumption, SMTT(30)
      <4> QED BY <4>1, <4>2, <4>3, Zenon
    <3> QED BY <3>1, <3>2, Zenon
  <2> QED BY <1>1, <2>1, <2>2, <2>4, Zenon DEF H1ReadHead
<1>2. CASE H1ReadBody
  <2>1. PICK k \in 0..h1Sent : H1Reads(k) /\ h1Taken' = k /\ h1Upload' \in {h1Upload, H1Run(h1Taken + 1, k)}
      BY <1>2, Zenon DEF H1ReadBody
  <2>2. k \in Nat /\ k <= h1Sent /\ H1Run(h1Taken + 1, k) \in Seq(Nat)
      BY <2>1, ReadsRun, Zenon
  <2> QED BY <1>2, <2>1, <2>2, Zenon DEF H1ReadBody
<1>3. CASE H1SourceRead
  <2>1. h1Got \o h1Upload \in Seq(Nat) /\ <<>> \in Seq(Nat)
      OBVIOUS
  <2> QED BY <1>3, <2>1, Zenon DEF H1SourceRead
<1>4. CASE H1ClientSends \/ H1ClientCloses
    BY <1>4, SMTT(30) DEF H1ClientSends, H1ClientCloses
<1>9. CASE H1PassTail
  <2>1. h1Buffer' \in Seq(Nat) /\ h1Upload' \in Seq(Nat)
      BY <1>0, <1>9, Zenon DEF H1PassTail
  <2> QED BY <1>9, <2>1, Zenon DEF H1PassTail
<1>5. CASE H1RecvPiece \/ H1RecvClosed \/ H1EofNotified \/ H1ShutDown
  <2>1. h1Buffer' \in Seq(Nat)
      BY <1>0, <1>5, Zenon DEF H1RecvPiece, H1RecvClosed, H1EofNotified, H1ShutDown, H1CancelRead
  <2>2. CASE H1RecvPiece
      BY <2>1, <2>2 DEF H1RecvPiece
  <2>3. CASE H1RecvClosed \/ H1EofNotified \/ H1ShutDown
      BY <2>1, <2>3, Zenon DEF H1RecvClosed, H1EofNotified, H1ShutDown
  <2> QED BY <1>5, <2>2, <2>3, Zenon
<1>6. CASE H1Flush \/ H1Drain \/ H1TransportFails \/ H1SourceDrop
    BY <1>6, SMTT(30) DEF H1Flush, H1Drain, H1TransportFails, H1SourceDrop
<1>7. CASE H1SendIntermediateResponse \/ H1SendResponse \/ H1SinkWrite
    BY <1>7, SMTT(30) DEF H1SendIntermediateResponse, H1SendResponse, H1SinkWrite, H1Put
<1>8. CASE H1SinkEof \/ H1SinkDrop \/ UNCHANGED h1Vars
    BY <1>8, Zenon DEF H1SinkEof, H1SinkDrop, h1Vars
<1> QED BY <1>1, <1>2, <1>3, <1>4, <1>5, <1>6, <1>7, <1>8, <1>9, Zenon DEF H1Next

\* Every step keeps the count of the response's pieces.
LEMMA CountedStep ==
    ASSUME H1Inv, [H1Next]_h1Vars
    PROVE  H1Counted'
<1> DEFINE n == <<h1Wire, h1Download, h1Accepted>>
<1>1. CASE H1RecvPiece
    BY <1>1 DEF H1RecvPiece, H1Inv, H1Typed, H1Counted, h1SinkVars
<1>2. CASE H1Flush
    BY <1>2 DEF H1Flush, H1Inv, H1Typed, H1Counted, h1SinkVars
<1>3. CASE H1SendIntermediateResponse \/ H1SendResponse \/ H1SinkWrite
  <2>1. \/ h1Wire' = h1Wire /\ h1Download = 0 /\ h1Download' = 1 /\ h1Accepted' = h1Accepted + 1
        \/ UNCHANGED n
      BY <1>3, Zenon DEF H1SendIntermediateResponse, H1SendResponse, H1SinkWrite, H1Put
  <2> QED BY <2>1 DEF H1Inv, H1Typed, H1Counted
<1>4. CASE H1ReadHead \/ H1PassTail \/ H1ReadBody \/ H1RecvClosed \/ H1EofNotified \/ H1ShutDown
  <2>1. UNCHANGED n
      BY <1>4, Zenon DEF H1ReadHead, H1PassTail, H1ReadBody, H1RecvClosed, H1EofNotified,
                         H1ShutDown, h1SinkVars
  <2> QED BY <2>1, Zenon DEF H1Inv, H1Counted
<1>5. CASE \/ H1Drain \/ H1TransportFails \/ H1SourceRead \/ H1SourceDrop \/ H1ClientSends
           \/ H1ClientCloses \/ H1SinkEof \/ H1SinkDrop \/ UNCHANGED h1Vars
  <2>1. UNCHANGED n
      BY <1>5, Zenon DEF H1Drain, H1TransportFails, H1SourceRead, H1SourceDrop, H1ClientSends,
                         H1ClientCloses, H1SinkEof, H1SinkDrop, h1SinkVars, h1Vars
  <2> QED BY <2>1, Zenon DEF H1Inv, H1Counted
<1> QED BY <1>1, <1>2, <1>3, <1>4, <1>5, Zenon DEF H1Next

\* Every step keeps the sink's part: the case to see is a piece put in the
\* channel, which the sink does only before its end.
LEMMA SinkStep ==
    ASSUME H1Inv, [H1Next]_h1Vars
    PROVE  H1SinkInv'
<1> USE DEF H1Inv, H1SinkInv, H1Listening, H1Alive, H1End, h1Client, h1SourceVars, h1SinkVars
<1>1. CASE H1ReadHead
  <2>1. /\ h1Codec = "waiting"
        /\ UNCHANGED <<h1Download, h1Accepted, h1Permit, h1Wire>>
        /\ \/ h1Codec' = "flushing" /\ h1Why' = "client eof" /\ h1Sink' = h1Sink
           \/ h1Codec' = "graceful" /\ h1Why' = "rejected" /\ h1Sink' = h1Sink
           \/ h1Codec' = "inProgress" /\ h1Why' = h1Why /\ h1Sink' = "pending"
           \/ h1Codec' = h1Codec /\ h1Why' = h1Why /\ h1Sink' = h1Sink
           \/ h1Codec' = "failed" /\ h1Why' = "too long" /\ h1Sink' = h1Sink
      BY <1>1, Zenon DEF H1ReadHead, OnRequestHeadersChunk
  <2> QED BY <2>1, Zenon
<1>2. CASE H1PassTail \/ H1ReadBody
  <2>1. /\ h1Codec = "inProgress"
        /\ UNCHANGED <<h1Download, h1Sink, h1Accepted, h1Permit, h1Wire>>
        /\ \/ h1Codec' = "flushing" /\ h1Why' = "client eof"
           \/ h1Codec' = "failed" /\ h1Why' = "source gone"
           \/ h1Codec' = h1Codec /\ h1Why' = h1Why
      BY <1>2, Zenon DEF H1PassTail, H1ReadBody
  <2> QED BY <2>1, Zenon
<1>3. CASE H1RecvPiece
    BY <1>3, Zenon DEF H1RecvPiece
<1>4. CASE H1RecvClosed
    BY <1>4, Zenon DEF H1RecvClosed
<1>5. CASE H1EofNotified
  <2>1. /\ h1Permit /\ h1Permit' = FALSE /\ h1Codec' = "flushing" /\ h1Why' = "sink eof"
        /\ UNCHANGED <<h1Download, h1Sink>>
      BY <1>5, Zenon DEF H1EofNotified
  <2> QED BY <2>1, Zenon
<1>6. CASE H1ShutDown
  <2>1. /\ h1Codec' = "flushing" /\ h1Why' = "shutdown"
        /\ UNCHANGED <<h1Download, h1Sink, h1Permit>>
      BY <1>6, Zenon DEF H1ShutDown
  <2> QED BY <2>1, Zenon
<1>7. CASE H1Flush
  <2>1. /\ h1Codec' = "draining" /\ h1Download' = 0
        /\ h1Codec = "flushing" /\ UNCHANGED <<h1Why, h1Sink, h1Permit>>
      BY <1>7, Zenon DEF H1Flush
  <2> QED BY <2>1, Zenon
<1>12. CASE H1Drain
  <2>1. /\ h1Codec' = "graceful" /\ h1Codec = "draining"
        /\ UNCHANGED <<h1Download, h1Why, h1Sink, h1Permit>>
      BY <1>12, Zenon DEF H1Drain
  <2> QED BY <2>1, Zenon
<1>8. CASE H1TransportFails
  <2>1. /\ h1Codec' = "failed" /\ h1Why' = "io"
        /\ UNCHANGED <<h1Download, h1Sink, h1Permit>>
      BY <1>8, Zenon DEF H1TransportFails
  <2> QED BY <2>1, Zenon
<1>9. CASE H1SourceRead \/ H1SourceDrop \/ H1ClientSends \/ H1ClientCloses \/ UNCHANGED h1Vars
  <2>1. UNCHANGED <<h1Codec, h1Why, h1Download, h1Sink, h1Permit>>
      BY <1>9, Zenon DEF H1SourceRead, H1SourceDrop, H1ClientSends, H1ClientCloses, h1Vars
  <2> QED BY <2>1, Zenon
<1>10. CASE H1SendIntermediateResponse \/ H1SendResponse \/ H1SinkWrite
  <2>1. h1Sink \in {"pending", "responded"} /\ UNCHANGED <<h1Codec, h1Why>>
      BY <1>10, Zenon DEF H1SendIntermediateResponse, H1SendResponse, H1SinkWrite
  <2>3. h1Permit' = h1Permit \/ h1Permit' = (h1Permit \/ h1Sink' = "ended")
      BY <1>10, Zenon DEF H1SendIntermediateResponse, H1SendResponse, H1SinkWrite
  <2>2. h1Codec # "waiting" /\ ~h1Permit /\ h1Why \notin {"sink eof", "sink gone"}
      BY <2>1, Zenon
  <2>4. h1Permit' => h1Sink' = "ended"
      BY <2>2, <2>3, Zenon
  <2> QED BY <2>1, <2>2, <2>4, Zenon
<1>11. CASE H1SinkEof \/ H1SinkDrop
  <2>1. /\ h1Sink \in {"pending", "responded", "ended"} /\ h1Sink' \in {"ended", "dropped"}
        /\ UNCHANGED <<h1Codec, h1Why, h1Download>>
      BY <1>11, Zenon DEF H1SinkEof, H1SinkDrop
  <2>2. h1Codec # "waiting" /\ h1Why # "sink gone"
      BY <2>1, Zenon
  <2> QED BY <2>1, <2>2, Zenon
<1> QED BY <1>1, <1>2, <1>3, <1>4, <1>5, <1>6, <1>7, <1>8, <1>9, <1>10, <1>11, <1>12, Zenon DEF H1Next

\* A request read from the transport: the head's part of the buffer goes, the
\* rest stays in order.
LEMMA SourceReadHead ==
    ASSUME H1Inv, H1ReadHead
    PROVE  H1SourceInv'
<1> USE DEF H1End, h1Client
<1>1. PICK k \in 0..h1Sent, expect \in BOOLEAN :
          /\ H1Reads(k)
          /\ h1Taken' = k
          /\ IF k = h1Taken
             THEN /\ H1End("flushing", "client eof") /\ h1Buffer' = <<>>
                  /\ UNCHANGED <<h1Source, h1Sink>>
             ELSE OnRequestHeadersChunk(h1Buffer \o H1Run(h1Taken + 1, k), expect)
    BY Zenon DEF H1ReadHead
<1>2. k \in Nat /\ h1Taken \in Nat /\ h1Taken <= k
    BY <1>1, ReadsRun, Zenon DEF H1Inv, H1Typed
<1>3. /\ h1Codec = "waiting" /\ h1Why = "running" /\ h1Source = "none"
      /\ h1Got = <<>> /\ h1Upload = <<>> /\ h1Buffer = H1Run(1, h1Taken)
      /\ h1Got' = <<>> /\ h1Upload' = <<>>
    BY Zenon DEF H1ReadHead, H1Inv, H1SinkInv, H1SourceInv, H1Listening
<1>4. h1Buffer \o H1Run(h1Taken + 1, k) = H1Run(1, k)
  <2>1. 1 \in Nat \ {0} /\ h1Taken + 1 >= 1 /\ k >= h1Taken
      BY <1>2
  <2> QED BY <1>2, <1>3, <2>1, RunConcat, Zenon
<1>5. Len(H1Run(1, k)) = k
    BY <1>2 DEF H1Run
<1>6. CASE \/ h1Codec' \notin {"waiting", "inProgress"} /\ h1Source' = "none"
           \/ /\ h1Codec' = "waiting" /\ h1Why' = "running" /\ h1Source' = "none"
              /\ h1Buffer' = H1Run(1, k)
    BY <1>1, <1>3, <1>6, Zenon DEF H1SourceInv, H1Alive
<1>7. CASE /\ h1Codec' = "inProgress" /\ h1Why' = "running" /\ h1Source' = "held"
           /\ k >= HeadParts /\ h1Buffer' = SubSeq(H1Run(1, k), HeadParts + 1, k)
  <2>1. h1Buffer' = H1Run(HeadParts + 1, k)
      BY <1>2, <1>7, RunTail, Http1Assumption, Zenon
  <2>2. HeadParts + 1 \in Nat \ {0} /\ k + 1 >= HeadParts + 1
      BY <1>2, <1>7, Http1Assumption
  <2>3. h1Buffer' \in Seq(Nat)
      BY <1>2, <2>1, <2>2, RunType, Zenon
  <2>4. (h1Got \o h1Upload \o h1Buffer)' = H1Run(HeadParts + 1, k)
      BY <1>3, <2>1, <2>3
  <2> QED BY <1>1, <1>7, <2>4, Zenon DEF H1SourceInv
<1>8. \/ h1Codec' \notin {"waiting", "inProgress"} /\ h1Source' = "none"
      \/ /\ h1Codec' = "waiting" /\ h1Why' = "running" /\ h1Source' = "none"
         /\ h1Buffer' = H1Run(1, k)
      \/ /\ h1Codec' = "inProgress" /\ h1Why' = "running" /\ h1Source' = "held"
         /\ k >= HeadParts /\ h1Buffer' = SubSeq(H1Run(1, k), HeadParts + 1, k)
    BY <1>1, <1>3, <1>4, <1>5, Zenon DEF OnRequestHeadersChunk
<1> QED BY <1>6, <1>7, <1>8, Zenon

\* What the source, the channel and the buffer hold when pieces move up.
LEMMA SourceMoves ==
    ASSUME H1Inv
    PROVE  /\ h1Upload = <<>> => /\ h1Got \o h1Upload = h1Got
                                 /\ h1Got \o h1Upload \o h1Buffer = h1Got \o h1Buffer
                                 /\ h1Got \o h1Buffer \o <<>> = h1Got \o h1Buffer
           /\ h1Buffer = <<>> => h1Got \o h1Upload \o h1Buffer = h1Got \o h1Upload
           /\ (h1Got \o h1Upload) \o <<>> = h1Got \o h1Upload
<1>1. h1Got \in Seq(Nat) /\ h1Upload \in Seq(Nat) /\ h1Buffer \in Seq(Nat)
    BY Zenon DEF H1Inv, H1Typed
<1>2. h1Got \o h1Upload \in Seq(Nat) /\ h1Got \o h1Buffer \in Seq(Nat)
    BY <1>1, Concat, Zenon
<1> QED BY <1>1, <1>2, Concat, Zenon

\* Every step keeps the source's part.
LEMMA SourceStep ==
    ASSUME H1Inv, [H1Next]_h1Vars
    PROVE  H1SourceInv'
<1> DEFINE body(n) == H1Run(HeadParts + 1, n)
<1> USE DEF H1End, h1Client, h1SourceVars
<1>1. CASE H1ReadHead
    BY <1>1, SourceReadHead, Zenon
<1>2. CASE H1PassTail
  <2>1. /\ h1Codec = "inProgress" /\ h1Why = "running" /\ h1Buffer' = <<>>
        /\ UNCHANGED <<h1Got, h1Source, h1Taken, h1Sent, h1ClientEof>>
        /\ \/ /\ h1Source = "held" /\ h1Upload = <<>> /\ h1Upload' = h1Buffer
              /\ UNCHANGED <<h1Codec, h1Why>>
           \/ h1Source # "held" /\ h1Codec' = "failed" /\ h1Why' = "source gone"
      BY <1>2, Zenon DEF H1PassTail, H1Inv, H1SinkInv, H1Listening
  <2>2. CASE h1Source # "held"
      BY <2>1, <2>2, Zenon DEF H1Inv, H1SourceInv, H1Alive
  <2>3. CASE h1Source = "held"
    <3>1. (h1Got \o h1Upload \o h1Buffer)' = h1Got \o h1Upload \o h1Buffer
        BY <2>1, <2>3, SourceMoves, Zenon
    <3> QED BY <2>1, <2>3, <3>1, Zenon DEF H1Inv, H1SourceInv, H1Alive
  <2> QED BY <2>2, <2>3, Zenon
<1>3. CASE H1ReadBody
  <2>1. PICK k \in 0..h1Sent :
          /\ H1Reads(k)
          /\ h1Taken' = k
          /\ \/ /\ k = h1Taken
                /\ H1End("flushing", "client eof") /\ UNCHANGED h1Upload
             \/ /\ k > h1Taken /\ h1Source = "held"
                /\ h1Upload' = H1Run(h1Taken + 1, k) /\ UNCHANGED <<h1Codec, h1Why>>
             \/ /\ k > h1Taken /\ h1Source # "held"
                /\ H1End("failed", "source gone") /\ UNCHANGED h1Upload
      BY <1>3, Zenon DEF H1ReadBody
  <2>2. /\ h1Codec = "inProgress" /\ h1Why = "running" /\ h1Buffer = <<>> /\ h1Buffer' = <<>>
        /\ h1Upload = <<>> \/ h1Source # "held"
        /\ UNCHANGED <<h1Got, h1Source, h1Sent, h1ClientEof>>
      BY <1>3, Zenon DEF H1ReadBody, H1Inv, H1SinkInv, H1Listening
  <2>3. k \in Nat /\ h1Taken \in Nat /\ h1Taken <= k /\ (k = h1Taken => h1Taken = h1Sent /\ h1ClientEof)
      BY <2>1, ReadsRun, Zenon DEF H1Inv, H1Typed
  <2>4. CASE h1Source # "held"
      BY <2>1, <2>2, <2>4, Zenon DEF H1Inv, H1SourceInv, H1Alive
  <2>5. CASE h1Source = "held"
    <3>1. h1Taken >= HeadParts /\ h1Got = body(h1Taken)
        BY <2>2, <2>5, SourceMoves, Zenon DEF H1Inv, H1SourceInv
    <3>2. CASE k = h1Taken
      <4>1. ~(k > h1Taken)
          BY <2>3, <3>2
      <4>2. h1Codec' = "flushing" /\ h1Why' = "client eof" /\ h1Upload' = <<>>
          BY <2>1, <2>2, <2>5, <4>1, Zenon
      <4>3. (h1Got \o h1Upload)' = body(h1Sent) /\ h1ClientEof'
          BY <2>2, <2>3, <2>5, <3>1, <3>2, <4>2, SourceMoves, Zenon
      <4> QED BY <2>2, <2>5, <4>2, <4>3, Zenon DEF H1SourceInv, H1Alive
    <3>3. CASE k > h1Taken
      <4>1. h1Codec' = "inProgress" /\ h1Why' = "running" /\ h1Upload' = H1Run(h1Taken + 1, k)
        <5>1. k # h1Taken
            BY <2>3, <3>3
        <5> QED BY <2>1, <2>2, <2>5, <5>1, Zenon
      <4>2. HeadParts + 1 \in Nat \ {0} /\ h1Taken + 1 >= HeadParts + 1 /\ k >= h1Taken
          BY <2>3, <3>1, Http1Assumption
      <4>3. (h1Got \o h1Upload)' = body(k)
          BY <2>2, <2>3, <3>1, <4>1, <4>2, RunConcat, Zenon
      <4>4. body(k) \in Seq(Nat)
        <5>1. k + 1 >= HeadParts + 1
            BY <2>3, <4>2, Http1Assumption
        <5> QED BY <2>3, <4>2, <5>1, RunType, Zenon
      <4>5. (h1Got \o h1Upload \o h1Buffer)' = body(k)
          BY <2>2, <4>3, <4>4, Concat, Zenon
      <4>6. k >= HeadParts
          BY <2>3, <3>1, Http1Assumption
      <4> QED BY <2>1, <2>2, <2>5, <4>1, <4>5, <4>6, Zenon DEF H1SourceInv, H1Alive
    <3> QED BY <2>3, <3>2, <3>3
  <2> QED BY <2>4, <2>5, Zenon
<1>4. CASE H1RecvPiece \/ H1RecvClosed \/ H1EofNotified
  <2>1. h1Codec = "inProgress"
    <3>1. /\ h1Codec \in {"waiting", "inProgress"}
          /\ h1Download = 1 \/ h1Sink = "dropped" \/ h1Permit
        BY <1>4, Zenon DEF H1RecvPiece, H1RecvClosed, H1EofNotified, H1Listening
    <3>2. h1Codec = "waiting" => h1Download = 0 /\ h1Sink # "dropped" /\ ~h1Permit
        BY Zenon DEF H1Inv, H1SinkInv
    <3> QED BY <3>1, <3>2
  <2>2. /\ UNCHANGED <<h1Buffer, h1Taken, h1Got, h1Upload, h1Source, h1Sent, h1ClientEof>>
        /\ \/ UNCHANGED <<h1Codec, h1Why>>
           \/ h1Codec' \in {"flushing", "failed"} /\ h1Why' \in {"sink eof", "sink gone"}
      BY <1>4, <2>1, Zenon DEF H1RecvPiece, H1RecvClosed, H1EofNotified, H1CancelRead
  <2> QED BY <2>1, <2>2, Zenon DEF H1Inv, H1SourceInv, H1Alive
<1>5. CASE H1ShutDown \/ H1TransportFails
  <2>1. /\ h1Codec' \in {"flushing", "failed"} /\ h1Why' \in {"shutdown", "io"} /\ H1Alive
        /\ h1Source' = h1Source
      BY <1>5, Zenon DEF H1ShutDown, H1TransportFails, H1Listening, H1Alive
  <2> QED BY <2>1, Zenon DEF H1Inv, H1SourceInv, H1Alive
<1>6. CASE H1Flush \/ H1Drain
  <2>1. /\ h1Codec' \in {"draining", "graceful"} /\ H1Alive
        /\ UNCHANGED <<h1Why, h1Got, h1Upload, h1Source, h1Sent, h1ClientEof>>
      BY <1>6, Zenon DEF H1Flush, H1Drain, H1Alive
  <2> QED BY <2>1, Zenon DEF H1Inv, H1SourceInv, H1Alive
<1>7. CASE H1SourceRead
  <2>1. /\ h1Source = "held"
        /\ UNCHANGED <<h1Codec, h1Why, h1Buffer, h1Taken, h1Sent, h1ClientEof>>
        /\ \/ h1Source' = "held" /\ h1Got' = h1Got \o h1Upload /\ h1Upload' = <<>>
           \/ h1Source' = "ended" /\ h1Got' = h1Got /\ h1Upload' = <<>> /\ h1Upload = <<>> /\ ~H1Alive
      BY <1>7, Zenon DEF H1SourceRead
  <2>2. h1Codec # "waiting"
      BY <2>1, Zenon DEF H1Inv, H1SourceInv
  <2>3. CASE h1Source' = "held"
    <3>1. (h1Got \o h1Upload)' = h1Got \o h1Upload
        BY <2>1, <2>3, SourceMoves, Zenon
    <3>2. (h1Got \o h1Upload \o h1Buffer)' = h1Got \o h1Upload \o h1Buffer
        BY <2>1, <3>1, Zenon
    <3> QED BY <2>1, <2>2, <2>3, <3>1, <3>2, Zenon DEF H1Inv, H1SourceInv
  <2>4. CASE h1Source' = "ended"
    <3>1. h1Got' = h1Got \o h1Upload /\ ~H1Alive
        BY <2>1, <2>4, SourceMoves, Zenon
    <3> QED BY <2>1, <2>4, <3>1, Zenon DEF H1Inv, H1SourceInv, H1Alive
  <2> QED BY <2>1, <2>3, <2>4, Zenon
<1>8. CASE H1SourceDrop
  <2>1. /\ h1Source \in {"held", "ended"} /\ h1Source' = "dropped" /\ h1Codec' = h1Codec
      BY <1>8, Zenon DEF H1SourceDrop
  <2> QED BY <2>1, Zenon DEF H1Inv, H1SourceInv, H1Alive
<1>9. CASE H1ClientSends \/ H1ClientCloses
  <2>1. /\ ~h1ClientEof
        /\ UNCHANGED <<h1Codec, h1Why, h1Buffer, h1Taken, h1Upload, h1Source, h1Got>>
      BY <1>9, Zenon DEF H1ClientSends, H1ClientCloses
  <2> QED BY <2>1, Zenon DEF H1Inv, H1SourceInv, H1Alive
<1>10. CASE \/ H1SendIntermediateResponse \/ H1SendResponse \/ H1SinkWrite \/ H1SinkEof
            \/ H1SinkDrop \/ UNCHANGED h1Vars
  <2>1. UNCHANGED <<h1Codec, h1Why, h1Buffer, h1Taken, h1Upload, h1Source, h1Got, h1Sent, h1ClientEof>>
      BY <1>10, Zenon DEF H1SendIntermediateResponse, H1SendResponse, H1SinkWrite, H1SinkEof,
                          H1SinkDrop, h1Vars
  <2> QED BY <2>1, Zenon DEF H1Inv, H1SourceInv, H1Alive
<1> QED BY <1>1, <1>2, <1>3, <1>4, <1>5, <1>6, <1>7, <1>8, <1>9, <1>10, Zenon DEF H1Next

-----------------------------------------------------------------------------
(* The theorems.                                                           *)

\* A session that was just accepted satisfies the invariant.
LEMMA H1Initially == H1Init => H1Inv
<1> SUFFICES ASSUME H1Init PROVE H1Inv
    BY Zenon
<1>1. H1Run(1, 0) = <<>>
    BY DEF H1Run
<1>2. H1Typed
  <2>1. <<>> \in Seq(Nat)
      OBVIOUS
  <2>2. 0 \in Nat /\ 0 <= 0 /\ 0 \in 0..1
      OBVIOUS
  <2> QED BY <2>1, <2>2, Zenon DEF H1Init, H1Typed
<1>3. H1Counted /\ H1SinkInv
    BY DEF H1Init, H1Counted, H1SinkInv, H1Listening
<1>4. H1SourceInv
    BY <1>1, Zenon DEF H1Init, H1SourceInv, H1Alive
<1> QED BY <1>2, <1>3, <1>4, Zenon DEF H1Inv

\* The invariant holds in every state of a session.
LEMMA H1Always == H1Spec => []H1Inv
<1>1. H1Inv /\ [H1Next]_h1Vars => H1Inv'
    BY TypedStep, CountedStep, SinkStep, SourceStep, Zenon DEF H1Inv
<1> QED BY H1Initially, <1>1, PTL DEF H1Spec

\* A session that ends because its sink signalled the end has written the
\* whole response, for every length of response and every interleaving of the
\* sink with listen() and graceful_shutdown.
THEOREM EofFlushesResponse == H1Spec => []H1EofFlushesResponse
<1>0. \A n \in Nat : n + 0 = n
    OBVIOUS
<1>1. H1Inv => H1EofFlushesResponse
  <2> SUFFICES ASSUME H1Inv, h1Codec = "graceful", h1Why = "sink eof"
               PROVE  h1Wire = h1Accepted
      BY Zenon DEF H1EofFlushesResponse
  <2>1. h1Download = 0
      BY Zenon DEF H1Inv, H1SinkInv
  <2>2. h1Wire \in Nat /\ h1Accepted \in Nat /\ h1Wire + h1Download = h1Accepted
      BY Zenon DEF H1Inv, H1Typed, H1Counted
  <2>3. h1Wire + 0 = h1Accepted
      BY <2>1, <2>2, Zenon
  <2> QED BY <1>0, <2>2, <2>3, Zenon
<1> QED BY H1Always, <1>1, PTL

\* Every piece of the request body reaches the source once and in order, for
\* every size of head and body and every cut of them into reads.
THEOREM UploadIsIntact == H1Spec => []H1UploadIsIntact
<1>1. H1Inv => H1UploadIsIntact
    BY Zenon DEF H1Inv, H1SourceInv, H1UploadIsIntact
<1> QED BY H1Always, <1>1, PTL

\* A closed channel is never taken for an error while the permit of eof() is
\* stored.
THEOREM OrderlyEndIsNotAnError == H1Spec => H1OrderlyEndIsNotAnError
<1>1. H1Inv /\ H1Inv' /\ [H1Next]_h1Vars => [h1Why' = "sink gone" => ~h1Permit]_h1Vars
  <2> SUFFICES ASSUME H1Inv, H1Inv', H1Next, h1Why' = "sink gone"
               PROVE  ~h1Permit
      BY Zenon
  <2>1. CASE h1Why = "sink gone"
      BY <2>1, Zenon DEF H1Inv, H1SinkInv
  <2>2. CASE h1Why # "sink gone"
    <3>1. H1RecvClosed
        BY <2>2, Zenon DEF H1Next, H1ClientSends, H1ClientCloses, H1ReadHead, H1PassTail, H1ReadBody,
           H1RecvPiece, H1EofNotified, H1ShutDown, H1Flush, H1Drain, H1TransportFails, H1SourceRead,
           H1SourceDrop, H1SendIntermediateResponse, H1SendResponse, H1SinkWrite, H1SinkEof,
           H1SinkDrop, H1End, OnRequestHeadersChunk
    <3> QED BY <3>1, Zenon DEF H1RecvClosed, H1End
  <2> QED BY <2>1, <2>2, Zenon
<1> QED BY H1Always, <1>1, PTL DEF H1Spec, H1OrderlyEndIsNotAnError

-----------------------------------------------------------------------------
(* HTTP/2: Http2Session.                                                   *)

H2Sinks == {"pending", "ready", "waiting", "ended"}

\* A sink's reservation is what its pipe has left to send, a wait is one for a
\* rest, and the pieces of a body are freed after they were read.
H2Inv ==
    /\ h2Sink \in [H2Stream -> H2Sinks]
    /\ h2Rest \in [H2Stream -> 0..H2Chunk]
    /\ h2Req \in [H2Stream -> Nat] /\ h2Avail \in [H2Stream -> Nat]
    /\ h2Body \in [H2Stream -> [wire : Nat, read : Nat, freed : Nat]]
    /\ h2Sent = [s \in H2Stream |-> "whole"]
    /\ \A s \in H2Stream :
          /\ h2Avail[s] <= h2Req[s]
          /\ s \notin H2Datagram => h2Req[s] = h2Rest[s]
          /\ h2Sink[s] = "waiting" => s \notin H2Datagram /\ h2Rest[s] > 0
          /\ h2Body[s].freed <= h2Body[s].read /\ h2Body[s].read <= h2Body[s].wire

\* Nothing is reserved, sent or read at first.
LEMMA H2InvInit == H2Init => H2Inv
<1> SUFFICES ASSUME H2Init PROVE H2Inv
    BY Zenon
<1> DEFINE none == [wire |-> 0, read |-> 0, freed |-> 0]
<1>1. none \in [wire : Nat, read : Nat, freed : Nat] /\ none.freed <= none.read /\ none.read <= none.wire
    OBVIOUS
<1>2. h2Body = [s \in H2Stream |-> none]
    BY Zenon DEF H2Init
<1> HIDE DEF none
<1>3. h2Body \in [H2Stream -> [wire : Nat, read : Nat, freed : Nat]]
    BY <1>1, <1>2, Zenon
<1>4. \A s \in H2Stream : h2Body[s].freed <= h2Body[s].read /\ h2Body[s].read <= h2Body[s].wire
    BY <1>1, <1>2, Zenon
<1>5. /\ h2Sink = [s \in H2Stream |-> "pending"] /\ h2Rest = [s \in H2Stream |-> 0]
      /\ h2Req = [s \in H2Stream |-> 0] /\ h2Avail = [s \in H2Stream |-> 0]
      /\ h2Sent = [s \in H2Stream |-> "whole"]
    BY Zenon DEF H2Init
<1> HIDE DEF H2Init
<1>6. 0 \in 0..H2Chunk
    BY Http2Assumption
<1> QED BY <1>3, <1>4, <1>5, <1>6, SMTT(30) DEF H2Inv, H2Sinks

\* A reservation of n units of which `gone` are sent at once.
LEMMA H2ReserveStep ==
    ASSUME H2Inv, NEW s \in H2Stream, NEW n \in Nat, NEW gone \in Nat,
           gone <= H2Reserved(s, n), H2Reserve(s, n, gone)
    PROVE  /\ h2Req' \in [H2Stream -> Nat] /\ h2Avail' \in [H2Stream -> Nat]
           /\ h2Req'[s] = n - gone /\ h2Avail'[s] <= n - gone
           /\ \A r \in H2Stream \ {s} : h2Req'[r] = h2Req[r] /\ h2Avail'[r] = h2Avail[r]
<1>1. H2Reserved(s, n) \in Nat /\ H2Reserved(s, n) <= n
    BY SMTT(30) DEF H2Inv, H2Reserved
<1>2. n - gone \in Nat /\ H2Reserved(s, n) - gone \in Nat /\ H2Reserved(s, n) - gone <= n - gone
    BY <1>1, SMTT(30)
<1>3. /\ h2Req' = [h2Req EXCEPT ![s] = n - gone]
      /\ h2Avail' = [h2Avail EXCEPT ![s] = H2Reserved(s, n) - gone]
    BY Zenon DEF H2Reserve
<1>4. h2Req \in [H2Stream -> Nat] /\ h2Avail \in [H2Stream -> Nat]
    BY Zenon DEF H2Inv
<1> QED BY <1>2, <1>3, <1>4, Zenon

\* Every step keeps the invariant.
LEMMA H2InvStep == H2Inv /\ [H2Next]_h2Vars => H2Inv'
<1> SUFFICES ASSUME H2Inv, [H2Next]_h2Vars PROVE H2Inv'
    BY Zenon
<1>0. H2Chunk \in Nat \ {0}
    BY Http2Assumption, Zenon
<1>1. CASE UNCHANGED <<h2Sink, h2Send, h2Body>>
    BY <1>1, Zenon DEF H2Inv, h2Send
<1>2. ASSUME NEW s \in H2Stream, H2ClientSends(s) \/ H2ReadBody(s) \/ H2Consume(s) PROVE H2Inv'
    <2>1. UNCHANGED <<h2Sink, h2Send>>
        BY <1>2, Zenon DEF H2ClientSends, H2ReadBody, H2Consume
    <2>2. /\ h2Body' \in [H2Stream -> [wire : Nat, read : Nat, freed : Nat]]
          /\ \A r \in H2Stream : /\ h2Body'[r].freed <= h2Body'[r].read
                                 /\ h2Body'[r].read <= h2Body'[r].wire
        <3> DEFINE b == h2Body[s]
        <3>1. b \in [wire : Nat, read : Nat, freed : Nat] /\ b.freed <= b.read /\ b.read <= b.wire
            BY Zenon DEF H2Inv
        <3>2. PICK c \in [wire : Nat, read : Nat, freed : Nat] :
                 h2Body' = [h2Body EXCEPT ![s] = c] /\ c.freed <= c.read /\ c.read <= c.wire
            <4>1. CASE H2ClientSends(s)
                <5>1. h2Body' = [h2Body EXCEPT ![s] = [b EXCEPT !.wire = b.wire + 1]]
                    BY <4>1, Zenon DEF H2ClientSends
                <5>2. /\ [b EXCEPT !.wire = b.wire + 1] \in [wire : Nat, read : Nat, freed : Nat]
                      /\ [b EXCEPT !.wire = b.wire + 1].freed = b.freed
                      /\ [b EXCEPT !.wire = b.wire + 1].read = b.read
                      /\ [b EXCEPT !.wire = b.wire + 1].wire = b.wire + 1
                    BY <3>1
                <5>3. b.read <= b.wire + 1
                    BY <3>1, SMTT(30)
                <5> QED BY <3>1, <5>1, <5>2, <5>3, Zenon
            <4>2. CASE H2ReadBody(s)
                <5>1. \/ h2Body' = [h2Body EXCEPT ![s] = [b EXCEPT !.read = b.wire]]
                      \/ h2Body' = [h2Body EXCEPT ![s] = b]
                    BY <4>2, Zenon DEF H2ReadBody, H2Inv
                <5> QED BY <3>1, <5>1, SMTT(30)
            <4>3. CASE H2Consume(s)
                <5>1. PICK n \in 1..(b.read - b.freed) :
                         h2Body' = [h2Body EXCEPT ![s] = [b EXCEPT !.freed = b.freed + n]]
                    BY <4>3, Zenon DEF H2Consume
                <5>2. /\ [b EXCEPT !.freed = b.freed + n] \in [wire : Nat, read : Nat, freed : Nat]
                      /\ [b EXCEPT !.freed = b.freed + n].freed = b.freed + n
                      /\ [b EXCEPT !.freed = b.freed + n].read = b.read
                      /\ [b EXCEPT !.freed = b.freed + n].wire = b.wire
                    BY <3>1
                <5>3. b.freed + n <= b.read
                    BY <3>1, SMTT(30)
                <5> QED BY <3>1, <5>1, <5>2, <5>3, Zenon
            <4> QED BY <1>2, <4>1, <4>2, <4>3, Zenon
        <3> QED BY <3>2, Zenon DEF H2Inv
    <2> QED BY <2>1, <2>2, Zenon DEF H2Inv, h2Send
<1>3. ASSUME NEW s \in H2Stream, H2Assign(s) PROVE H2Inv'
    <2>1. /\ h2Avail' \in [H2Stream -> Nat]
          /\ \A r \in H2Stream : h2Avail'[r] <= h2Req[r]
        BY <1>3, SMTT(30) DEF H2Assign, H2Inv
    <2>2. UNCHANGED <<h2Sink, h2Rest, h2Req, h2Sent, h2Body>>
        BY <1>3, Zenon DEF H2Assign, h2Recv
    <2> QED BY <2>1, <2>2, Zenon DEF H2Inv
<1>4. ASSUME NEW s \in H2Stream, H2SendResponse(s) \/ H2WaitWritable(s) PROVE H2Inv'
    <2>1. UNCHANGED <<h2Send, h2Body>>
        BY <1>4, Zenon DEF H2SendResponse, H2WaitWritable, h2Recv
    <2>2. h2Sink' \in [H2Stream -> H2Sinks]
        BY <1>4, Zenon DEF H2SendResponse, H2WaitWritable, H2Inv, H2Sinks
    <2>3. \A r \in H2Stream : h2Sink'[r] = "waiting" => r \notin H2Datagram /\ h2Rest[r] > 0
        BY <1>4, Zenon DEF H2SendResponse, H2WaitWritable, H2Inv
    <2> QED BY <2>1, <2>2, <2>3, Zenon DEF H2Inv, h2Send
<1>5. ASSUME NEW s \in H2Stream, H2Write(s) PROVE H2Inv'
    <2>1. PICK n \in H2NextChunk(s) : /\ h2Rest' = [h2Rest EXCEPT ![s] = n - H2Reserved(s, n)]
                                      /\ H2Reserve(s, n, H2Reserved(s, n))
        BY <1>5, Zenon DEF H2Write
    <2>2. n \in 0..H2Chunk /\ n \in Nat
        BY <1>0, <2>1, SMTT(30) DEF H2NextChunk, H2Inv
    <2>3. H2Reserved(s, n) \in Nat /\ H2Reserved(s, n) <= n
        BY <2>2, SMTT(30) DEF H2Inv, H2Reserved
    <2>4. n - H2Reserved(s, n) \in 0..H2Chunk
        BY <1>0, <2>2, <2>3, SMTT(30)
    <2>5. /\ h2Rest' \in [H2Stream -> 0..H2Chunk] /\ h2Rest'[s] = n - H2Reserved(s, n)
          /\ \A r \in H2Stream \ {s} : h2Rest'[r] = h2Rest[r]
        BY <2>1, <2>4, Zenon DEF H2Inv
    <2>6. /\ h2Req' \in [H2Stream -> Nat] /\ h2Avail' \in [H2Stream -> Nat]
          /\ h2Req'[s] = n - H2Reserved(s, n) /\ h2Avail'[s] <= n - H2Reserved(s, n)
          /\ \A r \in H2Stream \ {s} : h2Req'[r] = h2Req[r] /\ h2Avail'[r] = h2Avail[r]
        BY <2>1, <2>2, <2>3, H2ReserveStep
    <2>7. h2Sink[s] = "ready" /\ UNCHANGED <<h2Sink, h2Sent, h2Body>>
        BY <1>5, Zenon DEF H2Write, h2Recv
    <2> QED BY <2>5, <2>6, <2>7, Zenon DEF H2Inv
<1>6. ASSUME NEW s \in H2Stream, H2WriteDatagram(s) PROVE H2Inv'
    <2>1. PICK n \in 1..H2Chunk :
             LET gone == IF h2Avail[s] >= n THEN n ELSE 0 IN
             /\ H2Reserve(s, n, gone)
             /\ h2Sent' = [h2Sent EXCEPT ![s] = IF gone \in 1..(n - 1) THEN "cut" ELSE @]
        BY <1>6, Zenon DEF H2WriteDatagram
    <2> DEFINE gone == IF h2Avail[s] >= n THEN n ELSE 0
    <2>2. n \in Nat /\ gone \in Nat /\ gone \notin 1..(n - 1) /\ h2Avail[s] \in Nat
        BY <1>0, SMTT(30) DEF H2Inv
    <2>3. gone <= H2Reserved(s, n)
        BY <2>2, SMTT(30) DEF H2Reserved
    <2>4. h2Sent' = h2Sent
        BY <2>1, <2>2, Zenon DEF H2Inv
    <2>5. H2Reserve(s, n, gone)
        BY <2>1, Zenon
    <2> HIDE DEF gone
    <2>6. /\ h2Req' \in [H2Stream -> Nat] /\ h2Avail' \in [H2Stream -> Nat]
          /\ h2Req'[s] = n - gone /\ h2Avail'[s] <= n - gone
          /\ \A r \in H2Stream \ {s} : h2Req'[r] = h2Req[r] /\ h2Avail'[r] = h2Avail[r]
        BY <2>2, <2>3, <2>5, H2ReserveStep, Zenon
    <2>7. s \in H2Datagram /\ UNCHANGED <<h2Sink, h2Rest, h2Body>>
        BY <1>6, Zenon DEF H2WriteDatagram, h2Recv
    <2> QED BY <2>4, <2>6, <2>7, Zenon DEF H2Inv
<1>7. ASSUME NEW s \in H2Stream, H2Eof(s) PROVE H2Inv'
    <2>1. /\ h2Sink' = [h2Sink EXCEPT ![s] = "ended"] /\ h2Rest' = [h2Rest EXCEPT ![s] = 0]
          /\ H2Reserve(s, 0, 0) /\ UNCHANGED <<h2Sent, h2Body>>
        BY <1>7, Zenon DEF H2Eof, h2Recv
    <2>2. /\ h2Req' \in [H2Stream -> Nat] /\ h2Avail' \in [H2Stream -> Nat]
          /\ h2Req'[s] = 0 - 0 /\ h2Avail'[s] <= 0 - 0
          /\ \A r \in H2Stream \ {s} : h2Req'[r] = h2Req[r] /\ h2Avail'[r] = h2Avail[r]
        <3>1. 0 <= H2Reserved(s, 0)
            BY SMTT(30) DEF H2Reserved, H2Inv
        <3> QED BY <2>1, <3>1, H2ReserveStep, Zenon
    <2>3. /\ h2Sink' \in [H2Stream -> H2Sinks] /\ h2Rest' \in [H2Stream -> 0..H2Chunk]
          /\ h2Sink'[s] = "ended" /\ h2Rest'[s] = 0
          /\ \A r \in H2Stream \ {s} : h2Sink'[r] = h2Sink[r] /\ h2Rest'[r] = h2Rest[r]
        BY <1>0, <2>1, SMTT(30) DEF H2Inv, H2Sinks
    <2> QED BY <2>1, <2>2, <2>3, SMTT(30) DEF H2Inv
<1>8. ASSUME H2ClientEnds \/ H2WindowUpdate \/ H2Handshake \/ H2Listen \/ H2GracefulShutdown
             \/ H2Drain \/ \E s \in H2Stream : H2ClientCloses(s)
      PROVE  H2Inv'
    <2>1. UNCHANGED <<h2Sink, h2Rest, h2Req, h2Avail, h2Sent, h2Body>>
        BY <1>8, Zenon DEF H2ClientEnds, H2WindowUpdate, H2Handshake, H2Listen, H2GracefulShutdown,
                    H2Drain, H2ClientCloses, h2Send, h2Recv
    <2> QED BY <2>1, Zenon DEF H2Inv
<1>9. CASE UNCHANGED h2Vars
    BY <1>1, <1>9, Zenon DEF h2Vars, h2Recv
<1> QED BY <1>2, <1>3, <1>4, <1>5, <1>6, <1>7, <1>8, <1>9, Zenon DEF H2Next

\* H2FlowControl for every number of streams, every window and every length of
\* chunks and bodies: a sink waits for capacity it has asked h2 for, the client
\* gets window back only for what was read, and no datagram is cut.
THEOREM FlowControl == H2Spec => []H2FlowControl
<1>1. H2Inv => H2FlowControl
    BY Zenon DEF H2Inv, H2FlowControl
<1> QED BY <1>1, H2InvInit, H2InvStep, PTL DEF H2Spec
=============================================================================
