----------------------------- MODULE FramingProofs -----------------------------
(***************************************************************************)
(* The two readers of HTTP/1.1 bodies hand on what the server framed.      *)
(*                                                                         *)
(* A response is a fixed sequence of bytes, each body byte with its number *)
(* and each piece of the framing with the number of body bytes before it.  *)
(* Both proofs keep the position of the reader in that sequence: what the  *)
(* reader holds and what the network holds is the run of the response's    *)
(* bytes behind that position, and the framing at the position agrees with *)
(* the state the reader is in.  A read may split the response anywhere.    *)
(***************************************************************************)
EXTENDS ForwardedStream, ReverseProxy, TLAPS

-----------------------------------------------------------------------------
(* Runs of a fixed sequence of bytes.                                      *)

\* s is what stands in b behind the first p bytes.
RunOf(s, b, p) == \A i \in 1 .. Len(s) : s[i] = b[p + i]

\* The first n elements of a sequence, and the others.
LEMMA CutHead ==
    ASSUME NEW S, NEW s \in Seq(S), NEW n \in 0 .. Len(s)
    PROVE  /\ SubSeq(s, 1, n) \in Seq(S) /\ Len(SubSeq(s, 1, n)) = n
           /\ \A i \in 1 .. n : SubSeq(s, 1, n)[i] = s[i]
OBVIOUS

LEMMA CutTail ==
    ASSUME NEW S, NEW s \in Seq(S), NEW n \in 0 .. Len(s)
    PROVE  /\ SubSeq(s, n + 1, Len(s)) \in Seq(S) /\ Len(SubSeq(s, n + 1, Len(s))) = Len(s) - n
           /\ \A i \in 1 .. Len(s) - n : SubSeq(s, n + 1, Len(s))[i] = s[n + i]
<1>1. SubSeq(s, n + 1, Len(s)) \in Seq(S) /\ Len(SubSeq(s, n + 1, Len(s))) = Len(s) - n
    OBVIOUS
<1>2. \A i \in 1 .. Len(s) - n : SubSeq(s, n + 1, Len(s))[i] = s[n + i]
    OBVIOUS
<1> QED BY <1>1, <1>2, Zenon

\* Two sequences joined.
LEMMA Joined ==
    ASSUME NEW S, NEW s \in Seq(S), NEW t \in Seq(S)
    PROVE  s \o t \in Seq(S) /\ Len(s \o t) = Len(s) + Len(t)
OBVIOUS

\* A run cut in two is two adjacent runs.
LEMMA RunCut ==
    ASSUME NEW S, NEW s \in Seq(S), NEW n \in 0 .. Len(s), NEW b, NEW p \in Int, RunOf(s, b, p)
    PROVE  RunOf(SubSeq(s, 1, n), b, p) /\ RunOf(SubSeq(s, n + 1, Len(s)), b, p + n)
<1>1. RunOf(SubSeq(s, 1, n), b, p)
    BY DEF RunOf
<1>2. RunOf(SubSeq(s, n + 1, Len(s)), b, p + n)
    <2>1. \A i \in 1 .. Len(s) - n : n + i \in 1 .. Len(s) /\ p + (n + i) = (p + n) + i
        OBVIOUS
    <2>2. \A i \in 1 .. Len(s) - n : s[n + i] = b[(p + n) + i]
        BY <2>1, Zenon DEF RunOf
    <2> QED BY <2>2, CutTail DEF RunOf
<1> QED BY <1>1, <1>2, Zenon

\* Two adjacent runs are one.
LEMMA RunJoin ==
    ASSUME NEW S, NEW s \in Seq(S), NEW t \in Seq(S), NEW b, NEW p \in Int,
           RunOf(s, b, p), RunOf(t, b, p + Len(s))
    PROVE  s \o t \in Seq(S) /\ Len(s \o t) = Len(s) + Len(t) /\ RunOf(s \o t, b, p)
<1>1. s \o t \in Seq(S) /\ Len(s \o t) = Len(s) + Len(t)
    OBVIOUS
<1>2. ASSUME NEW i \in 1 .. Len(s) + Len(t)
      PROVE  (s \o t)[i] = b[p + i]
    <2>1. CASE i <= Len(s)
        BY <2>1 DEF RunOf
    <2>2. CASE i > Len(s)
        <3>1. i - Len(s) \in 1 .. Len(t) /\ (s \o t)[i] = t[i - Len(s)]
            BY <2>2
        <3>2. t[i - Len(s)] = b[(p + Len(s)) + (i - Len(s))]
            BY <3>1, Zenon DEF RunOf
        <3>3. (p + Len(s)) + (i - Len(s)) = p + i
            OBVIOUS
        <3> QED BY <3>1, <3>2, <3>3, Zenon
    <2> QED BY <2>1, <2>2
<1> QED BY <1>1, <1>2, Zenon DEF RunOf

\* Sequences that agree at every position are the same.
LEMMA SameSequence ==
    ASSUME NEW S, NEW s \in Seq(S), NEW t \in Seq(S), Len(s) = Len(t),
           \A i \in 1 .. Len(s) : s[i] = t[i]
    PROVE  s = t
OBVIOUS

\* Sequences are joined in any order.
Associate(s, t, u) == (s \o t) \o u = s \o (t \o u)

LEMMA Associates ==
    ASSUME NEW S, NEW s \in Seq(S), NEW t \in Seq(S), NEW u \in Seq(S)
    PROVE  Associate(s, t, u)
<1>1. /\ (s \o t) \o u \in Seq(S) /\ s \o (t \o u) \in Seq(S)
      /\ Len((s \o t) \o u) = Len(s) + (Len(t) + Len(u))
      /\ Len(s \o (t \o u)) = Len(s) + (Len(t) + Len(u))
    OBVIOUS
<1>2. \A i \in 1 .. Len(s) + (Len(t) + Len(u)) : ((s \o t) \o u)[i] = (s \o (t \o u))[i]
    OBVIOUS
<1>3. (s \o t) \o u = s \o (t \o u)
    BY <1>1, <1>2, SameSequence, SMTT(30)
<1> QED BY <1>3, Zenon DEF Associate

\* What is taken from the front of t goes to the end of s.
LEMMA Rejoined ==
    ASSUME NEW S, NEW s \in Seq(S), NEW t \in Seq(S), NEW n \in 0 .. Len(t)
    PROVE  (s \o SubSeq(t, 1, n)) \o SubSeq(t, n + 1, Len(t)) = s \o t
<1> DEFINE h == SubSeq(t, 1, n)
           r == SubSeq(t, n + 1, Len(t))
<1>1. /\ h \in Seq(S) /\ Len(h) = n /\ \A i \in 1 .. n : h[i] = t[i]
    BY CutHead, Zenon
<1>2. /\ r \in Seq(S) /\ Len(r) = Len(t) - n /\ \A i \in 1 .. Len(t) - n : r[i] = t[n + i]
    BY CutTail, Zenon
<1> HIDE DEF h, r
<1>3. h \o r \in Seq(S) /\ Len(h \o r) = Len(t)
    <2>1. h \o r \in Seq(S) /\ Len(h \o r) = Len(h) + Len(r)
        BY <1>1, <1>2, Joined, Zenon
    <2>2. n + (Len(t) - n) = Len(t)
        OBVIOUS
    <2> QED BY <1>1, <1>2, <2>1, <2>2, Zenon
<1>4. ASSUME NEW i \in 1 .. Len(t)
      PROVE  (h \o r)[i] = t[i]
    <2>1. CASE i <= n
        BY <1>1, <1>2, <2>1
    <2>2. CASE i > n
        <3>1. (h \o r)[i] = r[i - n] /\ i - n \in 1 .. Len(t) - n /\ n + (i - n) = i
            BY <1>1, <1>2, <2>2, SMTT(30)
        <3> QED BY <1>2, <3>1, Zenon
    <2>3. i <= n \/ i > n
        OBVIOUS
    <2> QED BY <2>1, <2>2, <2>3, Zenon
<1>5. h \o r = t
    BY <1>3, <1>4, SameSequence, Zenon
<1>6. Associate(s, h, r)
    BY <1>1, <1>2, Associates, Zenon
<1> QED BY <1>5, <1>6, Zenon DEF Associate, h, r

\* What is dropped from s is dropped from s and t together.
LEMMA DropsFront ==
    ASSUME NEW S, NEW s \in Seq(S), NEW t \in Seq(S), NEW n \in 0 .. Len(s)
    PROVE  /\ n \in 0 .. Len(s \o t)
           /\ SubSeq(s, n + 1, Len(s)) \o t = SubSeq(s \o t, n + 1, Len(s \o t))
<1>1. /\ s \o t \in Seq(S) /\ Len(s \o t) = Len(s) + Len(t) /\ n \in 0 .. Len(s \o t)
    OBVIOUS
<1>2. /\ SubSeq(s, n + 1, Len(s)) \o t \in Seq(S)
      /\ Len(SubSeq(s, n + 1, Len(s)) \o t) = Len(s) - n + Len(t)
    OBVIOUS
<1>3. /\ SubSeq(s \o t, n + 1, Len(s \o t)) \in Seq(S)
      /\ Len(SubSeq(s \o t, n + 1, Len(s \o t))) = Len(s) - n + Len(t)
    BY <1>1
<1>4. \A i \in 1 .. Len(s) - n + Len(t) :
         (SubSeq(s, n + 1, Len(s)) \o t)[i] = SubSeq(s \o t, n + 1, Len(s \o t))[i]
    BY <1>1, SMTT(30)
<1> QED BY <1>1, <1>2, <1>3, <1>4, SameSequence, Zenon

-----------------------------------------------------------------------------
FkHead == {"interim", "final", "bad_gateway"}
FkEnds == {"open", "complete", "panic", "lost", "eof", "bad_response", "unexpected_eof",
           "bad_chunk_size", "bad_suffix", "invalid_state"}

FkTypes ==
    /\ fkResponse \in Responses
    /\ fkState \in {"idle", "waiting", "plain", "prefix", "chunk", "suffix"}
    /\ fkBuffer \in Seq(FkByte) /\ fkChunk \in Seq(FkByte) /\ fkIn \in Seq(FkByte)
    /\ fkOut \in Seq(FkByte) /\ fkHeads \in Seq(FkHead)
    /\ fkRemaining \in Nat /\ fkSent \in Nat /\ fkLast \in BOOLEAN /\ fkFake \in BOOLEAN
    /\ fkPending \in BOOLEAN /\ fkEnd \in FkEnds

\* How many bytes of the response have been given to the sink and taken by it.
FkTaken == Len(fkResponse.bytes) - Len(fkIn) - Len(fkChunk)

\* How many of them it has done with: it holds the others in its buffer.
FkFrom == FkTaken - Len(fkBuffer)

\* While the sink can go on, what it holds, what it is given and what is to be
\* read are adjacent runs of the response.
FkPlaced ==
    fkState # "idle" =>
        /\ FkFrom \in Nat /\ RunOf(fkBuffer, fkResponse.bytes, FkFrom)
        /\ RunOf(fkChunk, fkResponse.bytes, FkTaken)
        /\ RunOf(fkIn, fkResponse.bytes, Len(fkResponse.bytes) - Len(fkIn))

FkInWaiting == fkOut = <<>> /\ fkSent = 0 /\ fkEnd = "open" /\ \A i \in DOMAIN fkHeads : fkHeads[i] = "interim"

\* fkSent is the number of bytes that went out, until a write had more than
\* the announced length left; the rest of that one stays too long.
FkInPlain ==
    LET len == fkResponse.len IN
    /\ len # Chunked /\ fkBuffer = <<>>
    /\ \E e \in 1 .. FkTaken :
          /\ fkResponse.bytes[e].kind = "final" /\ Len(fkOut) = FkTaken - e
          /\ \/ len = Unknown /\ fkEnd = "open"
             \/ fkSent = Len(fkOut) /\ fkSent <= len /\ fkEnd = (IF fkSent = len THEN "complete" ELSE "open")
             \/ /\ fkChunk # <<>> /\ fkEnd = "open" /\ fkSent + Len(fkChunk) > len
                /\ 0 <= len /\ len < Len(fkResponse.bytes) - e

FkInPrefix == FkSizeLineAt(fkResponse.bytes, FkFrom + 1, Len(fkOut))

FkInChunk ==
    /\ fkBuffer = <<>> /\ FkTaken >= 1 /\ fkRemaining > 0
    /\ fkResponse.bytes[FkTaken].kind = "line" /\ fkResponse.bytes[FkTaken].n = fkRemaining
    /\ fkResponse.bytes[FkTaken].at = Len(fkOut)

\* Behind a chunk, or at a byte of the chunk that the client's sink left.
FkInSuffix ==
    \/ fkChunk # <<>> /\ fkChunk[1].kind = "body" /\ fkBuffer = <<>>
    \/ \E q \in 1 .. FkTaken :
          LET line == fkResponse.bytes[q] IN
          /\ line.kind = "line" /\ fkLast = (line.n = 0)
          /\ FkTaken = q + line.n + Len(fkBuffer) /\ Len(fkBuffer) < Len(Suffix)
          /\ Len(fkOut) = line.at + line.n
          /\ \A i \in DOMAIN fkBuffer : fkBuffer[i].kind = Suffix[i]

FkPhase ==
    /\ fkState = "waiting" => FkInWaiting
    /\ fkState = "plain" => FkInPlain
    /\ fkState \in {"prefix", "chunk", "suffix"} => fkResponse.len = Chunked /\ fkEnd = "open"
    /\ fkState = "prefix" => FkInPrefix
    /\ fkState = "chunk" => FkInChunk
    /\ fkState = "suffix" => FkInSuffix

FkFaithful ==
    /\ \A i \in DOMAIN fkOut : fkOut[i].kind = "body" /\ fkOut[i].n = i
    /\ fkEnd = "complete" =>
          IF fkResponse.len = Chunked THEN FkBodyWithin(fkResponse.bytes, Len(fkOut))
          ELSE Len(fkOut) = fkResponse.len
    /\ \A i \in DOMAIN fkHeads : fkHeads[i] # "interim" => i = Len(fkHeads)
    /\ fkEnd = "panic" => fkResponse.len >= 0 /\ ~FkBodyWithin(fkResponse.bytes, fkResponse.len)

FkInv == FkTypes /\ FkPlaced /\ FkPhase /\ FkFaithful

FsInv ==
    /\ fsState \in {"want", "body", "done"} /\ fsLen \in Nat \union {Chunked}
    /\ fsSent \in Nat /\ fsSkip \in Nat /\ fsLeft \in Nat /\ fsWindow \in Nat /\ fsChunk \in Nat
    /\ fsSkip <= fsChunk /\ (fsState = "want" => fsChunk = 0)
    /\ fsState = "body" => fsChunk - fsSkip <= fsWindow

-----------------------------------------------------------------------------
\* What the client's sink is given never exceeds the body that was read.
LEMMA FsInvHolds == FsInit /\ [][FsNext]_fsVars => []FsInv
<1>1. FsInit => FsInv
    BY ForwardedAssumption, SMT DEF FsInit, FsInv, Chunked
<1>2. FsInv /\ [FsNext]_fsVars => FsInv'
  <2> SUFFICES ASSUME FsInv, [FsNext]_fsVars
               PROVE  FsInv'
    BY Zenon
  <2> USE DEF FsInv
  <2>1. CASE FsOnReadRequest
    BY <2>1, ForwardedAssumption DEF FsOnReadRequest
  <2>2. CASE FsReadBody
    <3>0. 0..Least(fsLeft, ReadMax) \subseteq 0..fsLeft
      BY ForwardedAssumption DEF Least
    <3>1. PICK n \in 0..fsLeft :
          /\ n = 0 => fsLeft = 0
          /\ fsLeft' = fsLeft - n /\ fsWindow' = fsWindow + n
          /\ IF n > 0 /\ (fsLen = Chunked \/ fsSent < fsLen)
             THEN /\ fsChunk' = IF fsLen = Chunked THEN n ELSE Least(n, fsLen - fsSent)
                  /\ fsSent' = fsSent + fsChunk'
                  /\ UNCHANGED <<fsState, fsEnd>>
             ELSE /\ fsState' = "done" /\ fsEnd' = "eof"
                  /\ UNCHANGED <<fsChunk, fsSent>>
      BY <2>2, <3>0, Zenon DEF FsReadBody
    <3>2. n \in Nat /\ n <= fsLeft
      OBVIOUS
    <3>3. fsLen # Chunked => Least(n, fsLen - fsSent) = IF n <= fsLen - fsSent THEN n ELSE fsLen - fsSent
      BY <3>2 DEF Least
    <3>4. fsState = "body" /\ fsChunk = 0 /\ fsLen' = fsLen /\ fsSkip' = fsSkip
      BY <2>2, Zenon DEF FsReadBody
    <3>5. CASE n > 0 /\ (fsLen = Chunked \/ fsSent < fsLen)
      <4>1. fsChunk' \in Nat /\ fsChunk' <= n
        BY <3>1, <3>2, <3>3, <3>5 DEF Chunked
      <4>2. fsLeft' = fsLeft - n /\ fsWindow' = fsWindow + n /\ fsSent' = fsSent + fsChunk' /\ fsState' = fsState
        BY <3>1, <3>5, Zenon
      <4>3. fsSent \in Nat /\ fsLeft \in Nat /\ fsWindow \in Nat /\ fsSkip = 0
        BY <3>4
      <4>4. \A c \in Nat : c <= n => fsSent + c \in Nat /\ 0 <= c /\ c - 0 <= fsWindow + n
        BY <3>2, <4>3
      <4>5. fsLeft - n \in Nat /\ fsWindow + n \in Nat
        BY <3>2, <4>3
      <4> QED BY <3>4, <4>1, <4>2, <4>3, <4>4, <4>5, Zenon
    <3>6. CASE ~(n > 0 /\ (fsLen = Chunked \/ fsSent < fsLen))
      BY <3>1, <3>2, <3>4, <3>6
    <3> QED BY <3>5, <3>6, Zenon
  <2>3. CASE FsReadDone
    BY <2>3, Zenon DEF FsReadDone
  <2>4. CASE FsCancelRead
    BY <2>4, Zenon DEF FsCancelRead
  <2>5. CASE FsPipeWrite
    <3>1. PICK n \in 1..fsChunk : fsChunk' = fsChunk - n /\ FsConsume(n)
      BY <2>5, Zenon DEF FsPipeWrite
    <3>2. Least(fsSkip, n) = IF fsSkip <= n THEN fsSkip ELSE n
      BY DEF Least
    <3>3. /\ fsSkip' = fsSkip - (IF fsSkip <= n THEN fsSkip ELSE n)
          /\ fsWindow' = IF fsState = "body" THEN fsWindow - (n - (IF fsSkip <= n THEN fsSkip ELSE n)) ELSE fsWindow
      BY <3>1, <3>2, Zenon DEF FsConsume
    <3>4. UNCHANGED <<fsState, fsLen, fsSent, fsLeft, fsEnd>>
      BY <2>5, Zenon DEF FsPipeWrite
    <3> QED BY <3>1, <3>3, <3>4
  <2>6. CASE UNCHANGED fsVars
    BY <2>6, Zenon DEF fsVars
  <2> QED BY <2>1, <2>2, <2>3, <2>4, <2>5, <2>6, Zenon DEF FsNext
<1> QED BY <1>1, <1>2, PTL

-----------------------------------------------------------------------------
\* What the assumption on responses says of the one at hand.
LEMMA FkResponseFacts ==
    ASSUME FkTypes
    PROVE  /\ fkResponse.bytes \in Seq(FkByte) /\ fkResponse.len \in Nat \union {Unknown, Chunked}
           /\ \A i \in 1 .. Len(fkResponse.bytes) :
                 /\ fkResponse.bytes[i].kind = "final" =>
                       IF fkResponse.len = Chunked THEN FkSizeLineAt(fkResponse.bytes, i + 1, 0)
                       ELSE \A j \in 1 .. Len(fkResponse.bytes) - i :
                               fkResponse.bytes[i + j].kind = "body" /\ fkResponse.bytes[i + j].n = j
                 /\ fkResponse.bytes[i].kind = "line" => FkChunkBehind(fkResponse.bytes, i)
<1>1. FkWellFormed(fkResponse)
    BY ForwardedAssumption, Zenon DEF FkTypes
<1>2. fkResponse.bytes \in Seq(FkByte)
    BY <1>1, Zenon DEF FkWellFormed
<1>3. DOMAIN fkResponse.bytes = 1 .. Len(fkResponse.bytes)
    BY <1>2
<1> QED BY <1>1, <1>3, Zenon DEF FkWellFormed

-----------------------------------------------------------------------------
FkOver == FkEnds \ {"open", "complete", "panic"}

\* An answer behind interim ones.
LEMMA FkAnswered ==
    ASSUME NEW S, NEW h \in Seq(S), NEW x \in S, \A i \in DOMAIN h : h[i] = "interim"
    PROVE  /\ Append(h, x) \in Seq(S)
           /\ \A i \in DOMAIN Append(h, x) : Append(h, x)[i] # "interim" => i = Len(Append(h, x))
           /\ x = "interim" => \A i \in DOMAIN Append(h, x) : Append(h, x)[i] = "interim"
<1>1. Append(h, x) \in Seq(S) /\ Len(Append(h, x)) = Len(h) + 1
    OBVIOUS
<1>2. DOMAIN h = 1 .. Len(h) /\ DOMAIN Append(h, x) = 1 .. Len(h) + 1
    BY <1>1
<1>3. Append(h, x)[Len(h) + 1] = x /\ \A i \in 1 .. Len(h) : Append(h, x)[i] = h[i]
    OBVIOUS
<1> QED BY <1>1, <1>2, <1>3

\* A sink that fails delivers nothing more.
LEMMA FkFailsInv ==
    ASSUME FkInv, NEW why \in FkOver, FkFails(why), UNCHANGED <<fkResponse, fkIn>>,
           \/ fkHeads' = fkHeads
           \/ fkState = "waiting" /\ fkHeads' = Append(fkHeads, "bad_gateway")
    PROVE  FkInv'
<1>0. "bad_gateway" \in FkHead
    BY Zenon DEF FkHead
<1>1. FkTypes'
  <2>1. fkHeads' \in Seq(FkHead)
    BY <1>0, FkAnswered, Zenon DEF FkInv, FkTypes, FkPhase, FkInWaiting
  <2>2. <<>> \in Seq(FkByte) /\ why \in FkEnds
    BY DEF FkOver
  <2> QED BY <2>1, <2>2, Zenon DEF FkInv, FkTypes, FkFails
<1>2. FkPlaced' /\ FkPhase'
    BY Zenon DEF FkFails, FkPlaced, FkPhase
<1>3. FkFaithful'
  <2>1. fkEnd' # "complete" /\ fkEnd' # "panic" /\ fkOut' = fkOut
    BY Zenon DEF FkFails, FkOver, FkEnds
  <2>2. \A i \in DOMAIN fkHeads' : fkHeads'[i] # "interim" => i = Len(fkHeads')
    <3>1. CASE fkHeads' = fkHeads
      BY <3>1, Zenon DEF FkInv, FkFaithful
    <3>2. CASE fkState = "waiting" /\ fkHeads' = Append(fkHeads, "bad_gateway")
      <4>1. fkHeads \in Seq(FkHead) /\ \A i \in DOMAIN fkHeads : fkHeads[i] = "interim"
        BY <3>2, Zenon DEF FkInv, FkTypes, FkPhase, FkInWaiting
      <4> QED BY <1>0, <3>2, <4>1, FkAnswered, Zenon
    <3> QED BY <3>1, <3>2, Zenon
  <2> QED BY <2>1, <2>2, Zenon DEF FkInv, FkFaithful
<1> QED BY <1>1, <1>2, <1>3, Zenon DEF FkInv

\* What the sink holds and what it is given are one run of the response.
LEMMA FkAllIsRun ==
    ASSUME FkInv, fkState # "idle"
    PROVE  /\ fkBuffer \o fkChunk \in Seq(FkByte)
           /\ Len(fkBuffer \o fkChunk) = Len(fkBuffer) + Len(fkChunk)
           /\ RunOf(fkBuffer \o fkChunk, fkResponse.bytes, FkFrom)
           /\ FkFrom \in Nat /\ FkTaken = FkFrom + Len(fkBuffer)
<1>1. fkBuffer \in Seq(FkByte) /\ fkChunk \in Seq(FkByte) /\ fkIn \in Seq(FkByte)
    BY Zenon DEF FkInv, FkTypes
<1>2. fkResponse.bytes \in Seq(FkByte)
    BY FkResponseFacts, Zenon DEF FkInv
<1>3. FkFrom \in Nat /\ RunOf(fkBuffer, fkResponse.bytes, FkFrom) /\ RunOf(fkChunk, fkResponse.bytes, FkTaken)
    BY Zenon DEF FkInv, FkPlaced
<1>4. FkTaken = FkFrom + Len(fkBuffer)
    BY <1>1, <1>2 DEF FkFrom, FkTaken
<1>5. FkFrom \in Int
    BY <1>3
<1> QED BY <1>1, <1>3, <1>4, <1>5, RunJoin, Zenon

\* Where the sink stands, in numbers.
LEMMA FkNumbers ==
    ASSUME FkInv, fkState # "idle"
    PROVE  /\ Len(fkChunk) \in Nat /\ Len(fkBuffer) \in Nat /\ Len(fkResponse.bytes) \in Nat
           /\ FkTaken \in Nat /\ FkFrom \in Nat /\ FkTaken = FkFrom + Len(fkBuffer)
           /\ FkTaken + Len(fkChunk) <= Len(fkResponse.bytes)
           /\ FkFrom + (Len(fkBuffer) + Len(fkChunk)) <= Len(fkResponse.bytes)
<1>1. Len(fkBuffer) \in Nat /\ Len(fkChunk) \in Nat /\ Len(fkIn) \in Nat /\ Len(fkResponse.bytes) \in Nat
    BY FkResponseFacts DEF FkInv, FkTypes
<1>2. FkFrom \in Nat /\ FkTaken = FkFrom + Len(fkBuffer)
    BY FkAllIsRun, Zenon
<1>3. FkTaken = Len(fkResponse.bytes) - Len(fkIn) - Len(fkChunk)
    BY Zenon DEF FkTaken
<1>4. FkTaken + Len(fkChunk) <= Len(fkResponse.bytes)
    BY <1>1, <1>3
<1> QED BY <1>1, <1>2, <1>4

\* The sink takes the first n of these bytes and puts the others back.
LEMMA FkTakes ==
    ASSUME FkInv, fkState # "idle", UNCHANGED <<fkResponse, fkIn>>,
           NEW n \in 0 .. Len(fkBuffer) + Len(fkChunk),
           fkBuffer' = <<>>, fkChunk' = FkDrop(fkBuffer \o fkChunk, n)
    PROVE  /\ fkBuffer' \in Seq(FkByte) /\ fkChunk' \in Seq(FkByte)
           /\ Len(fkChunk') = Len(fkBuffer) + Len(fkChunk) - n
           /\ FkTaken' = FkFrom + n /\ FkFrom' = FkFrom + n /\ FkPlaced'
<1> DEFINE all == fkBuffer \o fkChunk
<1>1. /\ all \in Seq(FkByte) /\ Len(all) = Len(fkBuffer) + Len(fkChunk)
      /\ RunOf(all, fkResponse.bytes, FkFrom) /\ FkFrom \in Nat /\ FkTaken = FkFrom + Len(fkBuffer)
    BY FkAllIsRun, Zenon
<1>2. fkChunk' = SubSeq(all, n + 1, Len(all))
    BY Zenon DEF FkDrop
<1> HIDE DEF all
<1>3. n \in 0 .. Len(all) /\ FkFrom \in Int
    BY <1>1
<1>4. fkChunk' \in Seq(FkByte) /\ Len(fkChunk') = Len(all) - n
    BY <1>1, <1>2, <1>3, CutTail, Zenon
<1>5. RunOf(fkChunk', fkResponse.bytes, FkFrom + n)
    BY <1>1, <1>2, <1>3, RunCut, Zenon
<1>6. fkBuffer' \in Seq(FkByte) /\ Len(fkBuffer') = 0
    OBVIOUS
<1>7. Len(fkBuffer) \in Nat /\ Len(fkChunk) \in Nat /\ Len(fkIn) \in Nat /\ Len(fkResponse.bytes) \in Nat
    BY FkResponseFacts DEF FkInv, FkTypes
<1>8. FkTaken' = FkFrom + n
  <2>1. Len(fkResponse.bytes) - Len(fkIn) - (Len(all) - n) = FkFrom + n
    <3>1. FkTaken = Len(fkResponse.bytes) - Len(fkIn) - Len(fkChunk)
      BY Zenon DEF FkTaken
    <3> QED BY <1>1, <1>7, <3>1, SMTT(30)
  <2> QED BY <1>4, <2>1, Zenon DEF FkTaken
<1>9. FkFrom' = FkFrom + n /\ FkFrom + n \in Nat
    BY <1>1, <1>6, <1>8 DEF FkFrom
<1>10. RunOf(fkBuffer', fkResponse.bytes, FkFrom + n)
    BY <1>6 DEF RunOf
<1>11. RunOf(fkIn, fkResponse.bytes, Len(fkResponse.bytes) - Len(fkIn))
    BY Zenon DEF FkInv, FkPlaced
<1>12. FkPlaced'
    BY <1>5, <1>8, <1>9, <1>10, <1>11, Zenon DEF FkPlaced
<1>13. Len(fkChunk') = Len(fkBuffer) + Len(fkChunk) - n
    BY <1>1, <1>4
<1> QED BY <1>4, <1>6, <1>8, <1>9, <1>12, <1>13, Zenon

\* The sink holds all of these bytes.
LEMMA FkHolds ==
    ASSUME FkInv, fkState # "idle", UNCHANGED <<fkResponse, fkIn>>,
           fkBuffer' = fkBuffer \o fkChunk, fkChunk' = <<>>
    PROVE  fkBuffer' \in Seq(FkByte) /\ fkChunk' \in Seq(FkByte) /\ FkFrom' = FkFrom /\ FkPlaced'
<1>1. /\ fkBuffer' \in Seq(FkByte) /\ Len(fkBuffer') = Len(fkBuffer) + Len(fkChunk)
      /\ RunOf(fkBuffer', fkResponse.bytes, FkFrom) /\ FkFrom \in Nat /\ FkTaken = FkFrom + Len(fkBuffer)
    BY FkAllIsRun, Zenon
<1>2. fkChunk' \in Seq(FkByte) /\ Len(fkChunk') = 0
    OBVIOUS
<1>3. Len(fkBuffer) \in Nat /\ Len(fkChunk) \in Nat /\ Len(fkIn) \in Nat /\ Len(fkResponse.bytes) \in Nat
    BY FkResponseFacts DEF FkInv, FkTypes
<1>4. FkFrom' = FkFrom
    BY <1>1, <1>2, <1>3 DEF FkFrom, FkTaken
<1>5. RunOf(fkChunk', fkResponse.bytes, FkTaken')
    BY <1>2 DEF RunOf
<1>6. RunOf(fkIn, fkResponse.bytes, Len(fkResponse.bytes) - Len(fkIn))
    BY Zenon DEF FkInv, FkPlaced
<1>7. FkPlaced'
    BY <1>1, <1>4, <1>5, <1>6, Zenon DEF FkPlaced
<1> QED BY <1>1, <1>2, <1>4, <1>7, Zenon

-----------------------------------------------------------------------------
\* The response's head, and what comes with it.
LEMMA FkHeadersInv ==
    ASSUME FkInv, fkState = "waiting", FkOnResponseHeadersChunk(fkChunk), UNCHANGED <<fkResponse, fkIn>>
    PROVE  FkInv'
<1> DEFINE all == fkBuffer \o fkChunk
           b == fkResponse.bytes
<1>1. /\ all \in Seq(FkByte) /\ Len(all) = Len(fkBuffer) + Len(fkChunk)
      /\ RunOf(all, b, FkFrom) /\ FkFrom \in Nat
    BY FkAllIsRun, Zenon
<1>2. FkInWaiting /\ FkTypes /\ FkFaithful
    BY Zenon DEF FkInv, FkPhase
<1>3. DOMAIN all = 1 .. Len(all)
    BY <1>1
<1>4. UNCHANGED <<fkRemaining, fkLast, fkSent, fkOut>>
    BY Zenon DEF FkOnResponseHeadersChunk
<1> DEFINE Interim(p) == /\ fkHeads' = Append(fkHeads, "interim")
                         /\ fkBuffer' = <<>> /\ FkUnsent(FkDrop(all, p))
                         /\ UNCHANGED <<fkState, fkFake, fkEnd>>
           Final(p) == /\ all[p].kind = "final" /\ fkHeads' = Append(fkHeads, "final")
                       /\ fkState' = IF fkResponse.len = Chunked THEN "prefix" ELSE "plain"
                       /\ fkEnd' = IF fkResponse.len = 0 THEN "complete" ELSE "open"
                       /\ fkBuffer' = <<>> /\ FkUnsent(FkDrop(all, p))
                       /\ fkFake' = (Len(all) > p)
<1>5. \/ /\ fkBuffer' = all /\ FkUnsent(<<>>)
         /\ UNCHANGED <<fkState, fkFake, fkHeads, fkEnd>>
      \/ FkFails("bad_response") /\ fkHeads' = Append(fkHeads, "bad_gateway")
      \/ \E p \in DOMAIN all : Interim(p) \/ Final(p)
    BY Zenon DEF FkOnResponseHeadersChunk
<1> HIDE DEF all
<1>6. CASE /\ fkBuffer' = all /\ FkUnsent(<<>>)
           /\ UNCHANGED <<fkState, fkFake, fkHeads, fkEnd>>
  <2>1. fkChunk' = <<>> /\ fkPending' \in BOOLEAN
    BY <1>6, Zenon DEF FkUnsent
  <2>2. fkBuffer' \in Seq(FkByte) /\ fkChunk' \in Seq(FkByte) /\ FkPlaced'
    BY <1>6, <2>1, FkHolds, Zenon DEF all
  <2>3. FkTypes'
    BY <1>2, <1>4, <1>6, <2>1, <2>2, Zenon DEF FkTypes
  <2>4. FkPhase'
    BY <1>2, <1>4, <1>6, Zenon DEF FkPhase, FkInWaiting
  <2>5. FkFaithful'
    BY <1>2, <1>4, <1>6, Zenon DEF FkFaithful
  <2> QED BY <2>2, <2>3, <2>4, <2>5, Zenon DEF FkInv
<1>7. CASE FkFails("bad_response") /\ fkHeads' = Append(fkHeads, "bad_gateway")
  <2>1. "bad_response" \in FkOver
    BY Zenon DEF FkOver, FkEnds
  <2> QED BY <1>7, <2>1, FkFailsInv, Zenon
<1>8. ASSUME NEW p \in DOMAIN all, fkBuffer' = <<>>, FkUnsent(FkDrop(all, p))
      PROVE  /\ fkBuffer' \in Seq(FkByte) /\ fkChunk' \in Seq(FkByte) /\ fkPending' \in BOOLEAN
             /\ FkTaken' = FkFrom + p /\ FkFrom' = FkFrom + p /\ FkPlaced'
  <2>1. fkChunk' = FkDrop(all, p) /\ fkPending' \in BOOLEAN
    BY <1>8, Zenon DEF FkUnsent
  <2>2. p \in 0 .. Len(fkBuffer) + Len(fkChunk)
    BY <1>1, <1>3
  <2> QED BY <1>8, <2>1, <2>2, FkTakes, Zenon DEF all
<1>9. ASSUME NEW x \in FkHead, fkHeads' = Append(fkHeads, x)
      PROVE  /\ fkHeads' \in Seq(FkHead)
             /\ \A i \in DOMAIN fkHeads' : fkHeads'[i] # "interim" => i = Len(fkHeads')
             /\ x = "interim" => \A i \in DOMAIN fkHeads' : fkHeads'[i] = "interim"
  <2>1. fkHeads \in Seq(FkHead) /\ \A i \in DOMAIN fkHeads : fkHeads[i] = "interim"
    BY <1>2, Zenon DEF FkTypes, FkInWaiting
  <2> QED BY <1>9, <2>1, FkAnswered, Zenon
<1>10. ASSUME NEW p \in DOMAIN all, Interim(p)
       PROVE  FkInv'
  <2>1. "interim" \in FkHead
    BY Zenon DEF FkHead
  <2>2. /\ fkHeads' \in Seq(FkHead) /\ \A i \in DOMAIN fkHeads' : fkHeads'[i] = "interim"
        /\ \A i \in DOMAIN fkHeads' : fkHeads'[i] # "interim" => i = Len(fkHeads')
    BY <1>9, <1>10, <2>1, Zenon
  <2>3. FkTypes' /\ FkPlaced'
    BY <1>2, <1>4, <1>8, <1>10, <2>2, Zenon DEF FkTypes
  <2>4. FkPhase'
    BY <1>2, <1>4, <1>10, <2>2, Zenon DEF FkPhase, FkInWaiting
  <2>5. FkFaithful'
    BY <1>2, <1>4, <1>10, <2>2, Zenon DEF FkFaithful
  <2> QED BY <2>3, <2>4, <2>5, Zenon DEF FkInv
<1>11. ASSUME NEW p \in DOMAIN all, Final(p)
       PROVE  FkInv'
  <2> DEFINE e == FkFrom + p
  <2>1. "final" \in FkHead /\ "complete" \in FkEnds /\ "open" \in FkEnds
    BY Zenon DEF FkHead, FkEnds
  <2>2. /\ fkHeads' \in Seq(FkHead)
        /\ \A i \in DOMAIN fkHeads' : fkHeads'[i] # "interim" => i = Len(fkHeads')
    BY <1>9, <1>11, <2>1, Zenon
  <2>3. /\ fkBuffer' \in Seq(FkByte) /\ fkChunk' \in Seq(FkByte) /\ fkPending' \in BOOLEAN
        /\ FkTaken' = e /\ FkFrom' = e /\ FkPlaced'
    BY <1>8, <1>11, Zenon
  <2>4. FkTypes'
    <3>1. (Len(all) > p) \in BOOLEAN
      OBVIOUS
    <3> QED BY <1>2, <1>4, <1>11, <2>1, <2>2, <2>3, <3>1, Zenon DEF FkTypes
  <2>5. e \in 1 .. Len(b) /\ b[e].kind = "final"
    <3>1. p \in 1 .. Len(all) /\ b[e] = all[p]
      BY <1>1, <1>3, Zenon DEF RunOf
    <3>2. /\ Len(fkBuffer) \in Nat /\ Len(fkChunk) \in Nat /\ Len(b) \in Nat
          /\ FkFrom + (Len(fkBuffer) + Len(fkChunk)) <= Len(b)
      BY FkNumbers, Zenon
    <3>3. e \in 1 .. Len(b)
      BY <1>1, <3>1, <3>2, SMTT(30)
    <3> QED BY <1>11, <3>1, <3>3, Zenon
  <2>6. fkResponse.len = Chunked => FkSizeLineAt(b, e + 1, 0)
    BY <1>2, <2>5, FkResponseFacts, Zenon
  <2>7. fkOut' = <<>> /\ Len(fkOut') = 0 /\ DOMAIN fkOut' = {} /\ fkSent' = 0
    BY <1>2, <1>4 DEF FkInWaiting
  <2>8. CASE fkResponse.len = Chunked
    <3>1. fkState' = "prefix" /\ fkEnd' = "open" /\ fkResponse' = fkResponse
      BY <1>11, <2>8 DEF Chunked
    <3>2. FkInPrefix'
      BY <2>3, <2>6, <2>7, <2>8, <3>1, Zenon DEF FkInPrefix
    <3>3. FkPhase'
      BY <2>8, <3>1, <3>2, Zenon DEF FkPhase
    <3>4. fkEnd' # "complete" /\ fkEnd' # "panic"
      BY <3>1, Zenon
    <3>5. FkFaithful'
      BY <2>2, <2>7, <3>4, Zenon DEF FkFaithful
    <3> QED BY <2>3, <2>4, <3>3, <3>5, Zenon DEF FkInv
  <2>9. CASE fkResponse.len # Chunked
    <3>1. fkState' = "plain" /\ fkResponse' = fkResponse
      BY <1>11, <2>9, Zenon
    <3>2. /\ fkEnd' = (IF fkResponse.len = 0 THEN "complete" ELSE "open")
          /\ fkResponse.len \in Nat \union {Unknown}
      BY <1>2, <1>11, <2>9, FkResponseFacts, Zenon
    <3>3. \/ fkResponse.len = Unknown /\ fkEnd' = "open"
          \/ 0 <= fkResponse.len /\ fkEnd' = (IF 0 = fkResponse.len THEN "complete" ELSE "open")
      BY <3>2 DEF Unknown
    <3>4. e \in 1 .. e /\ 0 = e - e
      BY <2>5
    <3>5. FkInPlain'
      <4> HIDE DEF e
      <4> QED BY <1>11, <2>3, <2>5, <2>7, <2>9, <3>1, <3>3, <3>4, Zenon DEF FkInPlain
    <3>6. FkPhase'
      BY <3>1, <3>5, Zenon DEF FkPhase
    <3>7. (fkEnd' = "complete" => fkResponse.len = 0) /\ fkEnd' # "panic"
      BY <3>2, Zenon
    <3>8. FkFaithful'
      BY <2>2, <2>7, <2>9, <3>1, <3>7, Zenon DEF FkFaithful
    <3> QED BY <2>3, <2>4, <3>6, <3>8, Zenon DEF FkInv
  <2> QED BY <2>8, <2>9, Zenon
<1> QED BY <1>5, <1>6, <1>7, <1>10, <1>11, Zenon

\* With nothing held, the sink takes the first n bytes of what it is given.
LEMMA FkTakesChunk ==
    ASSUME FkInv, fkState # "idle", UNCHANGED <<fkResponse, fkIn>>, fkBuffer = <<>>, fkBuffer' = <<>>,
           NEW n \in 0 .. Len(fkChunk), fkChunk' = FkDrop(fkChunk, n)
    PROVE  /\ fkChunk' \in Seq(FkByte) /\ Len(fkChunk') = Len(fkChunk) - n
           /\ FkTaken \in Nat /\ FkFrom = FkTaken
           /\ FkTaken' = FkTaken + n /\ FkFrom' = FkTaken + n /\ FkPlaced'
<1>1. fkChunk \in Seq(FkByte)
    BY Zenon DEF FkInv, FkTypes
<1>2. fkBuffer \o fkChunk = fkChunk /\ Len(fkBuffer) = 0 /\ Len(fkChunk) \in Nat
    BY <1>1
<1>3. FkFrom \in Nat /\ FkTaken = FkFrom + Len(fkBuffer)
    BY FkAllIsRun, Zenon
<1>4. FkFrom = FkTaken
    BY <1>2, <1>3
<1>5. n \in 0 .. Len(fkBuffer) + Len(fkChunk) /\ Len(fkBuffer) + Len(fkChunk) - n = Len(fkChunk) - n
    BY <1>2
<1> QED BY <1>2, <1>3, <1>4, <1>5, FkTakes, Zenon

\* The client is given the first n of these bytes, which are the next of the body.
LEMMA FkDelivers ==
    ASSUME FkInv, fkState # "idle", NEW n \in 0 .. Len(fkChunk),
           \A i \in 1 .. n : /\ fkResponse.bytes[FkTaken + i].kind = "body"
                             /\ fkResponse.bytes[FkTaken + i].n = Len(fkOut) + i,
           fkOut' = fkOut \o SubSeq(fkChunk, 1, n)
    PROVE  /\ fkOut' \in Seq(FkByte) /\ Len(fkOut') = Len(fkOut) + n
           /\ \A i \in DOMAIN fkOut' : fkOut'[i].kind = "body" /\ fkOut'[i].n = i
<1> DEFINE b == fkResponse.bytes
           t == SubSeq(fkChunk, 1, n)
<1>1. fkChunk \in Seq(FkByte) /\ fkOut \in Seq(FkByte)
    BY Zenon DEF FkInv, FkTypes
<1>2. FkTaken \in Int /\ RunOf(fkChunk, b, FkTaken)
    <2>1. FkTaken \in Int
        BY FkNumbers
    <2> QED BY <2>1, Zenon DEF FkInv, FkPlaced
<1>3. t \in Seq(FkByte) /\ Len(t) = n /\ RunOf(t, b, FkTaken)
    BY <1>1, <1>2, CutHead, RunCut, Zenon
<1>4. \A k \in 1 .. n : t[k].kind = "body" /\ t[k].n = Len(fkOut) + k
    BY <1>3, Zenon DEF RunOf
<1>5. fkOut' = fkOut \o t
    BY Zenon
<1> HIDE DEF t
<1>6. fkOut' \in Seq(FkByte) /\ Len(fkOut') = Len(fkOut) + n
    BY <1>1, <1>3, <1>5, Joined, Zenon
<1>7. /\ \A i \in 1 .. Len(fkOut) : (fkOut \o t)[i] = fkOut[i]
      /\ \A i \in 1 .. Len(t) : (fkOut \o t)[Len(fkOut) + i] = t[i]
    BY <1>1, <1>3
<1>8. DOMAIN fkOut' = 1 .. Len(fkOut) + n
    BY <1>6
<1>9. ASSUME NEW i \in 1 .. Len(fkOut) + n
      PROVE  fkOut'[i].kind = "body" /\ fkOut'[i].n = i
  <2>1. CASE i <= Len(fkOut)
    <3>1. i \in 1 .. Len(fkOut) /\ DOMAIN fkOut = 1 .. Len(fkOut)
      BY <1>1, <2>1
    <3> QED BY <1>5, <1>7, <3>1, Zenon DEF FkInv, FkFaithful
  <2>2. CASE i > Len(fkOut)
    <3>1. i - Len(fkOut) \in 1 .. n /\ Len(fkOut) + (i - Len(fkOut)) = i
      BY <1>1, <2>2
    <3> QED BY <1>3, <1>4, <1>5, <1>7, <3>1, ZenonT(30)
  <2>3. Len(fkOut) \in Nat
    BY <1>1
  <2> QED BY <2>1, <2>2, <2>3
<1> QED BY <1>6, <1>8, <1>9, Zenon

-----------------------------------------------------------------------------
\* A body that is not chunked.
LEMMA FkPlainInv ==
    ASSUME FkInv, fkState = "plain", fkChunk # <<>>, FkOnNonEncodedChunk(fkChunk), UNCHANGED <<fkResponse, fkIn>>
    PROVE  FkInv'
<1> DEFINE b == fkResponse.bytes
           len == fkResponse.len
           size == IF len = Unknown THEN Len(fkChunk) ELSE Least(Len(fkChunk), len - fkSent)
           Sent(n) == fkSent + Len(fkChunk) - (size - n)
           Panics(n) == Sent(n) = len /\ (n < size \/ Len(fkChunk) # size)
<1>1. FkTypes /\ FkPlaced /\ FkFaithful /\ FkInPlain
    BY Zenon DEF FkInv, FkPhase
<1>2. CASE len # Unknown /\ len <= fkSent
  <2>1. FkFails("unexpected_eof") /\ UNCHANGED fkHeads
    BY <1>2, Zenon DEF FkOnNonEncodedChunk
  <2>2. "unexpected_eof" \in FkOver
    BY Zenon DEF FkOver, FkEnds
  <2> QED BY <2>1, <2>2, FkFailsInv, Zenon
<1>3. CASE ~(len # Unknown /\ len <= fkSent)
  <2>1. PICK n \in 0 .. size :
            /\ fkSent' = Sent(n) /\ fkOut' = fkOut \o SubSeq(fkChunk, 1, n)
            /\ IF Panics(n)
               THEN fkEnd' = "panic" /\ fkState' = "idle" /\ fkChunk' = <<>> /\ fkPending' = FALSE
               ELSE /\ fkEnd' = IF Sent(n) = len THEN "complete" ELSE fkEnd
                    /\ FkUnsent(FkDrop(fkChunk, n)) /\ UNCHANGED fkState
            /\ UNCHANGED <<fkBuffer, fkRemaining, fkLast, fkFake, fkHeads>>
    BY <1>3, Zenon DEF FkOnNonEncodedChunk
  <2>2. PICK e \in 1 .. FkTaken :
            /\ b[e].kind = "final" /\ Len(fkOut) = FkTaken - e
            /\ \/ len = Unknown /\ fkEnd = "open"
               \/ fkSent = Len(fkOut) /\ fkSent <= len /\ fkEnd = (IF fkSent = len THEN "complete" ELSE "open")
               \/ /\ fkChunk # <<>> /\ fkEnd = "open" /\ fkSent + Len(fkChunk) > len
                  /\ 0 <= len /\ len < Len(b) - e
    BY <1>1, Zenon DEF FkInPlain
  <2>3. /\ fkChunk \in Seq(FkByte) /\ fkOut \in Seq(FkByte) /\ fkIn \in Seq(FkByte) /\ b \in Seq(FkByte)
        /\ fkBuffer = <<>> /\ fkSent \in Nat /\ len \in Nat \union {Unknown}
    BY <1>1, FkResponseFacts, Zenon DEF FkTypes, FkInPlain
  <2>4. Len(fkChunk) \in Nat \ {0} /\ Len(fkOut) \in Nat /\ Len(fkIn) \in Nat /\ Len(b) \in Nat
    BY <2>3
  <2>5. FkTaken = Len(b) - Len(fkIn) - Len(fkChunk)
    BY Zenon DEF FkTaken
  <2>6. FkTaken \in Nat /\ FkTaken + Len(fkChunk) <= Len(b) /\ e \in 1 .. Len(b)
    BY <2>4, <2>5
  <2>7. /\ len = Unknown => size = Len(fkChunk)
        /\ len # Unknown => /\ fkSent < len /\ len \in Nat
                            /\ size = IF Len(fkChunk) <= len - fkSent THEN Len(fkChunk) ELSE len - fkSent
    <3>1. len # Unknown => fkSent < len /\ len \in Nat /\ len - fkSent \in Int
      BY <1>3, <2>3 DEF Unknown
    <3>2. Len(fkChunk) \in Int
      BY <2>4
    <3> QED BY <3>1, <3>2, Zenon DEF Least
  <2> HIDE DEF size
  <2>8. size \in 0 .. Len(fkChunk) /\ n \in 0 .. Len(fkChunk)
    BY <2>3, <2>4, <2>7, SMTT(30) DEF Unknown
  <2>9. \A j \in 1 .. Len(b) - e : b[e + j].kind = "body" /\ b[e + j].n = j
    <3>1. len # Chunked /\ b[e].kind = "final" /\ e \in 1 .. Len(b)
      BY <1>1, <2>2, <2>6, Zenon DEF FkInPlain
    <3> QED BY <1>1, <3>1, FkResponseFacts, Zenon
  <2>10. len \in 0 .. Len(b) - e - 1 => ~FkBodyWithin(b, len)
    <3> SUFFICES ASSUME len \in 0 .. Len(b) - e - 1
                 PROVE  ~FkBodyWithin(b, len)
      BY Zenon
    <3>1. len + 1 \in 1 .. Len(b) - e /\ e + (len + 1) \in 1 .. Len(b) /\ ~(len + 1 <= len)
      <4>1. \A x, y, z \in Int : /\ y >= 1 /\ x \in 0 .. z - y - 1
                                => x + 1 \in 1 .. z - y /\ y + (x + 1) \in 1 .. z /\ ~(x + 1 <= x)
        OBVIOUS
      <4>2. len \in Int /\ e \in Int /\ Len(b) \in Int /\ e >= 1
        BY <2>4, <2>6
      <4> QED BY <4>1, <4>2, Zenon
    <3>2. DOMAIN b = 1 .. Len(b)
      BY <2>3
    <3> QED BY <2>9, <3>1, <3>2, Zenon DEF FkBodyWithin
  <2>12. \A i \in 1 .. n : b[FkTaken + i].kind = "body" /\ b[FkTaken + i].n = Len(fkOut) + i
    <3>1. \A i \in 1 .. n : Len(fkOut) + i \in 1 .. Len(b) - e /\ e + (Len(fkOut) + i) = FkTaken + i
      BY <2>2, <2>4, <2>6, <2>8
    <3> QED BY <2>9, <3>1, Zenon
  <2>13. /\ fkOut' \in Seq(FkByte) /\ Len(fkOut') = Len(fkOut) + n
         /\ \A i \in DOMAIN fkOut' : fkOut'[i].kind = "body" /\ fkOut'[i].n = i
    <3>1. fkState # "idle"
      BY Zenon
    <3> QED BY <2>1, <2>8, <2>12, <3>1, FkDelivers, Zenon
  <2>14. Sent(n) \in Nat
    BY <2>3, <2>4, <2>8
  <2>15. CASE Panics(n)
    <3>1. fkEnd' = "panic" /\ fkState' = "idle" /\ fkChunk' = <<>> /\ fkPending' = FALSE
      BY <2>1, <2>15, Zenon
    <3>2. "panic" \in FkEnds /\ <<>> \in Seq(FkByte) /\ "panic" # "complete"
      BY DEF FkEnds
    <3>3. FkTypes'
      BY <1>1, <2>1, <2>13, <2>14, <3>1, <3>2, Zenon DEF FkTypes
    <3>4. FkPlaced' /\ FkPhase'
      BY <3>1, Zenon DEF FkPlaced, FkPhase
    <3>5. len \in 0 .. Len(b) - e - 1
      <4>1. len # Unknown
        BY <2>14, <2>15 DEF Unknown
      <4>2. fkSent + Len(fkChunk) > len
        BY <2>3, <2>4, <2>7, <2>8, <2>15, <4>1
      <4>3. CASE fkSent = Len(fkOut)
        <5>1. Len(fkOut) = FkTaken - e /\ len \in Nat /\ Len(fkOut) + Len(fkChunk) > len
          BY <2>2, <2>7, <4>1, <4>2, <4>3, Zenon
        <5> HIDE DEF b, len
        <5> QED BY <2>4, <2>6, <5>1
      <4>4. CASE 0 <= len /\ len < Len(b) - e
        <5>1. len \in Nat
          BY <2>7, <4>1, Zenon
        <5> HIDE DEF b, len
        <5> QED BY <2>4, <2>6, <4>4, <5>1
      <4> QED BY <2>2, <4>1, <4>3, <4>4, Zenon
    <3>6. len >= 0
      BY <2>4, <2>6, <3>5
    <3>7. FkFaithful'
      BY <1>1, <2>1, <2>10, <2>13, <3>1, <3>2, <3>5, <3>6, Zenon DEF FkFaithful
    <3> QED BY <3>3, <3>4, <3>7, Zenon DEF FkInv
  <2>16. CASE ~Panics(n)
    <3>1. /\ fkEnd' = (IF Sent(n) = len THEN "complete" ELSE fkEnd) /\ fkState' = "plain"
          /\ fkChunk' = FkDrop(fkChunk, n) /\ fkPending' \in BOOLEAN
      BY <2>1, <2>16, Zenon DEF FkUnsent
    <3>2. /\ fkChunk' \in Seq(FkByte) /\ Len(fkChunk') = Len(fkChunk) - n
          /\ FkTaken' = FkTaken + n /\ FkPlaced'
      BY <2>1, <2>3, <2>8, <3>1, FkTakesChunk, Zenon
    <3>3. "complete" \in FkEnds
      BY Zenon DEF FkEnds
    <3>4. FkTypes'
      BY <1>1, <2>1, <2>13, <2>14, <3>1, <3>2, <3>3, Zenon DEF FkTypes
    <3>5. e \in 1 .. FkTaken + n /\ Len(fkOut) + n = (FkTaken + n) - e
      BY <2>2, <2>4, <2>6, <2>8
    <3>6. \/ len = Unknown /\ fkEnd' = "open"
          \/ /\ Sent(n) = Len(fkOut) + n /\ Sent(n) <= len
             /\ fkEnd' = (IF Sent(n) = len THEN "complete" ELSE "open")
          \/ /\ fkChunk' # <<>> /\ fkEnd' = "open" /\ Sent(n) + (Len(fkChunk) - n) > len
             /\ 0 <= len /\ len < Len(b) - e
      <4>1. CASE len = Unknown
        BY <2>2, <2>14, <3>1, <4>1 DEF Unknown
      <4>2. CASE len # Unknown /\ fkSent + Len(fkChunk) <= len
        <5>0. size = Len(fkChunk)
          BY <2>3, <2>4, <2>7, <4>2
        <5>1. Sent(n) = fkSent + n
          BY <2>3, <2>4, <2>8, <5>0
        <5>2. fkSent = Len(fkOut) /\ fkEnd = "open"
          BY <2>2, <2>3, <2>4, <2>7, <4>2
        <5>3. Sent(n) = Len(fkOut) + n /\ Sent(n) <= len
          BY <2>3, <2>4, <2>7, <2>8, <4>2, <5>1, <5>2, SMTT(30)
        <5> QED BY <3>1, <5>2, <5>3, Zenon
      <4>3. CASE len # Unknown /\ fkSent + Len(fkChunk) > len
        <5>1. size = len - fkSent /\ size < Len(fkChunk) /\ Sent(n) # len
          BY <2>3, <2>4, <2>7, <2>8, <2>16, <4>3
        <5>2. fkEnd = "open" /\ len < Len(b) - e
          <6>1. fkSent < len /\ len \in Nat /\ fkSent + Len(fkChunk) > len
            BY <2>7, <4>3, Zenon
          <6>2. CASE 0 <= len /\ len < Len(b) - e
            BY <2>2, <2>3, <6>1, <6>2 DEF Unknown
          <6>3. CASE fkSent = Len(fkOut) /\ fkEnd = (IF fkSent = len THEN "complete" ELSE "open")
            <7>1. Len(fkOut) = FkTaken - e
              BY <2>2, Zenon
            <7> HIDE DEF b, len
            <7> QED BY <2>3, <2>4, <2>6, <6>1, <6>3, <7>1
          <6>4. len # Unknown
            BY <4>3, Zenon
          <6> QED BY <2>2, <6>2, <6>3, <6>4, Zenon
        <5>0. n \in 0 .. size /\ len \in Nat
          BY <2>7, <4>3, Zenon
        <5>3. Sent(n) + (Len(fkChunk) - n) > len /\ n < Len(fkChunk) /\ 0 <= len
          <6>1. fkSent + Len(fkChunk) > len
            BY <4>3, Zenon
          <6> HIDE DEF b, len
          <6> QED BY <2>3, <2>4, <5>0, <5>1, <6>1
        <5>4. fkChunk' # <<>>
          BY <2>4, <2>8, <3>2, <5>3
        <5> QED BY <3>1, <5>1, <5>2, <5>3, <5>4, Zenon
      <4>4. Len(fkChunk) \in Nat /\ fkSent \in Nat /\ len \in Int
        BY <2>3, <2>4 DEF Unknown
      <4> QED BY <4>1, <4>2, <4>3, <4>4
    <3>7. FkInPlain'
      <4>1. fkSent' = Sent(n) /\ fkResponse' = fkResponse /\ fkBuffer' = <<>> /\ len # Chunked
        BY <1>1, <2>1, <2>3, Zenon DEF FkInPlain
      <4>2. e \in 1 .. FkTaken' /\ Len(fkOut') = FkTaken' - e /\ fkResponse'.bytes[e].kind = "final"
        <5>1. FkTaken' = FkTaken + n /\ Len(fkOut') = Len(fkOut) + n
          BY <2>13, <3>2, Zenon
        <5>2. fkResponse'.bytes[e].kind = "final"
          BY <2>2, <4>1, Zenon
        <5> QED BY <3>5, <5>1, <5>2, Zenon
      <4> HIDE DEF Sent
      <4>3. \/ fkResponse'.len = Unknown /\ fkEnd' = "open"
            \/ /\ fkSent' = Len(fkOut') /\ fkSent' <= fkResponse'.len
               /\ fkEnd' = (IF fkSent' = fkResponse'.len THEN "complete" ELSE "open")
            \/ /\ fkChunk' # <<>> /\ fkEnd' = "open" /\ fkSent' + Len(fkChunk') > fkResponse'.len
               /\ 0 <= fkResponse'.len /\ fkResponse'.len < Len(fkResponse'.bytes) - e
        BY <2>13, <3>2, <3>6, <4>1, Zenon
      <4> QED BY <4>1, <4>2, <4>3, Zenon DEF FkInPlain
    <3>8. FkPhase'
      BY <3>1, <3>7, Zenon DEF FkPhase
    <3>9. FkFaithful'
      <4>1. fkEnd' = "complete" => Len(fkOut') = len
        BY <2>13, <3>6, Zenon
      <4>2. fkEnd' # "panic" /\ len # Chunked
        BY <1>1, <3>6, Zenon DEF FkInPlain
      <4> QED BY <1>1, <2>1, <2>13, <4>1, <4>2, Zenon DEF FkFaithful
    <3> QED BY <3>2, <3>4, <3>8, <3>9, Zenon DEF FkInv
  <2> QED BY <2>15, <2>16, Zenon
<1> QED BY <1>2, <1>3, Zenon

-----------------------------------------------------------------------------
\* A chunk's size line.
LEMMA FkPrefixInv ==
    ASSUME FkInv, fkState = "prefix", FkOnEncodedChunkPrefix(fkChunk), UNCHANGED <<fkResponse, fkIn>>
    PROVE  FkInv'
<1> DEFINE b == fkResponse.bytes
           all == fkBuffer \o fkChunk
           Line(p) == /\ \A i \in 1 .. p - 1 : all[i].kind \notin {"line", "bad"}
                      /\ all[p].kind = "line"
                      /\ fkState' = IF all[p].n = 0 THEN "suffix" ELSE "chunk"
                      /\ fkLast' = (all[p].n = 0) /\ fkRemaining' = all[p].n
                      /\ fkBuffer' = <<>> /\ fkFake' = (Len(all) > p) /\ FkUnsent(FkDrop(all, p))
                      /\ UNCHANGED fkEnd
<1>1. FkTypes /\ FkFaithful /\ FkInPrefix /\ fkResponse.len = Chunked /\ fkEnd = "open"
    BY Zenon DEF FkInv, FkPhase
<1>2. /\ all \in Seq(FkByte) /\ Len(all) = Len(fkBuffer) + Len(fkChunk)
      /\ RunOf(all, b, FkFrom) /\ FkFrom \in Nat
    BY FkAllIsRun, Zenon
<1>3. UNCHANGED <<fkSent, fkOut, fkHeads>>
    BY Zenon DEF FkOnEncodedChunkPrefix
<1>4. \/ /\ fkBuffer' = all /\ FkUnsent(<<>>)
         /\ UNCHANGED <<fkState, fkRemaining, fkLast, fkFake, fkEnd>>
      \/ FkFails("bad_chunk_size")
      \/ \E p \in DOMAIN all : Line(p)
    BY Zenon DEF FkOnEncodedChunkPrefix, FkFirst
<1>5. CASE /\ fkBuffer' = all /\ FkUnsent(<<>>)
           /\ UNCHANGED <<fkState, fkRemaining, fkLast, fkFake, fkEnd>>
  <2>1. fkChunk' = <<>> /\ fkPending' \in BOOLEAN
    BY <1>5, Zenon DEF FkUnsent
  <2>2. fkBuffer' \in Seq(FkByte) /\ fkChunk' \in Seq(FkByte) /\ FkFrom' = FkFrom /\ FkPlaced'
    BY <1>5, <2>1, FkHolds, Zenon
  <2>3. FkTypes'
    BY <1>1, <1>3, <1>5, <2>1, <2>2, Zenon DEF FkTypes
  <2>4. FkInPrefix'
    BY <1>1, <1>3, <2>2, Zenon DEF FkInPrefix
  <2>5. FkPhase'
    BY <1>1, <1>5, <2>4, Zenon DEF FkPhase
  <2>6. FkFaithful'
    BY <1>1, <1>3, <1>5, Zenon DEF FkFaithful
  <2> QED BY <2>2, <2>3, <2>5, <2>6, Zenon DEF FkInv
<1>6. CASE FkFails("bad_chunk_size")
  <2>1. "bad_chunk_size" \in FkOver
    BY Zenon DEF FkOver, FkEnds
  <2> QED BY <1>3, <1>6, <2>1, FkFailsInv, Zenon
<1>7. ASSUME NEW p \in DOMAIN all, Line(p)
      PROVE  FkInv'
  <2> DEFINE l == FkFrom + p
  <2> HIDE DEF all
  <2>1. p \in 1 .. Len(all) /\ p \in 0 .. Len(fkBuffer) + Len(fkChunk)
    BY <1>2
  <2>2. fkChunk' = FkDrop(all, p) /\ fkPending' \in BOOLEAN
    BY <1>7, Zenon DEF FkUnsent
  <2>3. /\ fkBuffer' \in Seq(FkByte) /\ fkChunk' \in Seq(FkByte)
        /\ FkTaken' = l /\ FkFrom' = l /\ FkPlaced'
    <3>1. fkBuffer' = <<>> /\ fkState # "idle"
      BY <1>7, Zenon
    <3> QED BY <2>1, <2>2, <3>1, FkTakes, Zenon DEF all
  <2>4. all[p] \in FkByte /\ all[p].n \in Nat
    <3>1. all[p] \in FkByte
      BY <1>2, <2>1
    <3> QED BY <3>1, Zenon DEF FkByte
  <2>5. b[l] = all[p] /\ b[l].kind = "line"
    BY <1>2, <1>7, <2>1, Zenon DEF RunOf
  <2>6. l \in Nat /\ l \in 1 .. Len(b) /\ FkFrom + 1 <= l
    <3>1. /\ Len(fkBuffer) \in Nat /\ Len(fkChunk) \in Nat /\ Len(b) \in Nat
          /\ FkFrom + (Len(fkBuffer) + Len(fkChunk)) <= Len(b)
      BY FkNumbers, Zenon
    <3> QED BY <1>2, <2>1, <3>1, SMTT(30)
  <2>7. b[l].at = Len(fkOut)
    <3>1. PICK q \in FkFrom + 1 .. Len(b) + 1 :
              /\ \A i \in FkFrom + 1 .. q - 1 : b[i].kind = "size"
              /\ q <= Len(b) => b[q].kind = "bad" \/ (b[q].kind = "line" /\ b[q].at = Len(fkOut))
      BY <1>1, Zenon DEF FkInPrefix, FkSizeLineAt
    <3>2. ~(l \in FkFrom + 1 .. q - 1)
      <4>1. "line" # "size"
        BY Zenon
      <4> QED BY <2>5, <3>1, <4>1, Zenon
    <3> HIDE DEF l
    <3>3. q \in Int /\ q <= l /\ q <= Len(b)
      BY <1>2, <2>6, <3>2
    <3>4. CASE q # l
      <4>1. q - FkFrom \in 1 .. p - 1 /\ q - FkFrom \in 1 .. Len(all) /\ FkFrom + (q - FkFrom) = q
        BY <1>2, <2>1, <3>3, <3>4 DEF l
      <4>2. all[q - FkFrom] = b[q]
        BY <1>2, <4>1, Zenon DEF RunOf
      <4>3. all[q - FkFrom].kind \notin {"line", "bad"}
        BY <1>7, <4>1, Zenon
      <4> QED BY <3>1, <3>3, <4>2, <4>3, Zenon
    <3>5. CASE q = l
      <4>1. "line" # "bad"
        BY Zenon
      <4> QED BY <2>5, <3>1, <3>3, <3>5, <4>1, Zenon
    <3> QED BY <3>4, <3>5, Zenon
  <2>8. FkTypes'
    <3>0. (Len(all) > p) \in BOOLEAN
      OBVIOUS
    <3>1. fkState' \in {"suffix", "chunk"} /\ fkLast' \in BOOLEAN /\ fkFake' \in BOOLEAN
      BY <1>7, <3>0, Zenon
    <3> QED BY <1>1, <1>3, <1>7, <2>2, <2>3, <2>4, <3>1, Zenon DEF FkTypes
  <2>9. FkFaithful'
    BY <1>1, <1>3, <1>7, Zenon DEF FkFaithful
  <2>10. CASE all[p].n = 0
    <3>1. /\ fkState' = "suffix" /\ fkLast' = TRUE /\ fkResponse' = fkResponse /\ fkEnd' = "open"
          /\ fkOut' = fkOut
      BY <1>1, <1>3, <1>7, <2>10, Zenon
    <3>2. /\ Len(fkBuffer') = 0 /\ DOMAIN fkBuffer' = {} /\ l \in 1 .. l /\ l = l + 0 + 0
          /\ 0 < Len(Suffix)
      BY <1>7, <2>6 DEF Suffix
    <3>3. b[l].n = 0 /\ Len(fkOut) = b[l].at + 0
      <4>1. Len(fkOut) \in Nat
        BY <1>1 DEF FkTypes
      <4>2. \A x \in Nat : x = x + 0
        OBVIOUS
      <4> QED BY <2>5, <2>7, <2>10, <4>1, <4>2, Zenon
    <3> HIDE DEF l
    <3>4. FkInSuffix'
      BY <2>3, <2>5, <3>1, <3>2, <3>3, Zenon DEF FkInSuffix
    <3>5. FkPhase'
      BY <1>1, <3>1, <3>4, Zenon DEF FkPhase
    <3> QED BY <2>3, <2>8, <2>9, <3>5, Zenon DEF FkInv
  <2>11. CASE all[p].n # 0
    <3>1. /\ fkState' = "chunk" /\ fkRemaining' = b[l].n /\ fkResponse' = fkResponse /\ fkEnd' = "open"
          /\ fkBuffer' = <<>> /\ fkOut' = fkOut
      BY <1>1, <1>3, <1>7, <2>5, <2>11, Zenon
    <3>2. all[p].n > 0 /\ l >= 1
      <4> HIDE DEF l
      <4> QED BY <2>4, <2>6, <2>11
    <3>3. fkRemaining' > 0
      BY <2>5, <3>1, <3>2, Zenon
    <3>4. FkInChunk'
      BY <2>3, <2>5, <2>7, <3>1, <3>2, <3>3, Zenon DEF FkInChunk
    <3>5. FkPhase'
      BY <1>1, <3>1, <3>4, Zenon DEF FkPhase
    <3> QED BY <2>3, <2>8, <2>9, <3>5, Zenon DEF FkInv
  <2> QED BY <2>10, <2>11, Zenon
<1> QED BY <1>4, <1>5, <1>6, <1>7, Zenon

-----------------------------------------------------------------------------
\* A chunk, or as much of it as there is.
LEMMA FkChunkInv ==
    ASSUME FkInv, fkState = "chunk", FkOnEncodedChunk(fkChunk), UNCHANGED <<fkResponse, fkIn>>
    PROVE  FkInv'
<1> DEFINE b == fkResponse.bytes
           size == Least(Len(fkChunk), fkRemaining)
<1>1. FkTypes /\ FkFaithful /\ FkInChunk /\ fkResponse.len = Chunked /\ fkEnd = "open"
    BY Zenon DEF FkInv, FkPhase
<1>2. PICK n \in 0 .. size :
          /\ fkOut' = fkOut \o SubSeq(fkChunk, 1, n)
          /\ fkRemaining' = fkRemaining - size
          /\ fkState' = IF fkRemaining' > 0 THEN "idle" ELSE "suffix"
          /\ fkLast' = FALSE /\ fkBuffer' = <<>> /\ fkFake' = TRUE
          /\ FkUnsent(FkDrop(fkChunk, n))
          /\ UNCHANGED <<fkSent, fkHeads, fkEnd>>
    BY Zenon DEF FkOnEncodedChunk
<1>3. /\ fkChunk \in Seq(FkByte) /\ fkRemaining \in Nat /\ fkRemaining > 0 /\ fkBuffer = <<>>
      /\ b[FkTaken].at = Len(fkOut) /\ FkTaken >= 1 /\ b[FkTaken].kind = "line" /\ b[FkTaken].n = fkRemaining
    BY <1>1, Zenon DEF FkTypes, FkInChunk
<1>4. /\ Len(fkChunk) \in Nat /\ Len(b) \in Nat /\ FkTaken \in Nat /\ FkTaken + Len(fkChunk) <= Len(b)
    BY FkNumbers, Zenon
<1>5. size = IF Len(fkChunk) <= fkRemaining THEN Len(fkChunk) ELSE fkRemaining
  <2>1. Len(fkChunk) \in Int /\ fkRemaining \in Int
    BY <1>3, <1>4
  <2> QED BY <2>1, Zenon DEF Least
<1> HIDE DEF size
<1>6. n \in 0 .. Len(fkChunk) /\ size \in 0 .. Len(fkChunk) /\ size <= fkRemaining /\ n <= size
    BY <1>3, <1>4, <1>5
<1>7. \A i \in 1 .. size : b[FkTaken + i].kind = "body" /\ b[FkTaken + i].n = Len(fkOut) + i
  <2>1. FkTaken \in 1 .. Len(b)
    BY <1>3, <1>4
  <2>2. FkChunkBehind(b, FkTaken)
    BY <1>1, <1>3, <2>1, FkResponseFacts, Zenon
  <2>3. \A i \in 1 .. fkRemaining : FkTaken + i <= Len(b) =>
            b[FkTaken + i].kind = "body" /\ b[FkTaken + i].n = Len(fkOut) + i
    <3>1. b[FkTaken].n # 0
      BY <1>3
    <3> QED BY <1>3, <2>2, <3>1, Zenon DEF FkChunkBehind
  <2>4. \A i \in 1 .. size : i \in 1 .. fkRemaining /\ FkTaken + i <= Len(b)
    BY <1>3, <1>4, <1>6
  <2> QED BY <2>3, <2>4, Zenon
<1>8. \A i \in 1 .. n : i \in 1 .. size
    BY <1>6
<1>9. \A i \in 1 .. n : b[FkTaken + i].kind = "body" /\ b[FkTaken + i].n = Len(fkOut) + i
    BY <1>7, <1>8, Zenon
<1>10. fkState # "idle" /\ fkChunk' = FkDrop(fkChunk, n) /\ fkPending' \in BOOLEAN
    BY <1>2, Zenon DEF FkUnsent
<1>11. /\ fkOut' \in Seq(FkByte) /\ Len(fkOut') = Len(fkOut) + n
       /\ \A i \in DOMAIN fkOut' : fkOut'[i].kind = "body" /\ fkOut'[i].n = i
    BY <1>2, <1>6, <1>9, <1>10, FkDelivers, Zenon
<1>12. /\ fkBuffer' \in Seq(FkByte) /\ fkChunk' \in Seq(FkByte) /\ Len(fkChunk') = Len(fkChunk) - n
       /\ FkTaken' = FkTaken + n /\ FkPlaced'
  <2>1. <<>> \in Seq(FkByte)
    OBVIOUS
  <2> QED BY <1>2, <1>3, <1>6, <1>10, <2>1, FkTakesChunk, Zenon
<1>13. FkFaithful'
  <2>1. fkEnd' # "complete" /\ fkEnd' # "panic"
    BY <1>1, <1>2, Zenon
  <2> QED BY <1>1, <1>2, <1>11, <2>1, Zenon DEF FkFaithful
<1>14. FkTypes'
  <2>1. fkRemaining - size \in Nat
    BY <1>3, <1>6
  <2> QED BY <1>1, <1>2, <1>10, <1>11, <1>12, <2>1, Zenon DEF FkTypes
<1>15. CASE fkRemaining' > 0
  BY <1>2, <1>12, <1>13, <1>14, <1>15, Zenon DEF FkPhase, FkInv
<1>16. CASE ~(fkRemaining' > 0)
  <2>1. fkState' = "suffix" /\ fkEnd' = "open" /\ fkResponse' = fkResponse /\ fkResponse'.len = Chunked
    BY <1>1, <1>2, <1>16, Zenon
  <2>2. size = fkRemaining
    <3>1. ~(fkRemaining - size > 0)
      BY <1>2, <1>16, Zenon
    <3> QED BY <1>3, <1>6, <3>1
  <2>3. CASE n = size
    <3> DEFINE q == FkTaken
    <3>1. q \in 1 .. q + n /\ q + n = q + fkRemaining + 0 /\ 0 < Len(Suffix) /\ fkRemaining # 0
      BY <1>3, <1>4, <2>2, <2>3 DEF Suffix
    <3>2. Len(fkBuffer') = 0 /\ DOMAIN fkBuffer' = {}
      BY <1>2
    <3>3. Len(fkOut') = b[q].at + fkRemaining
      BY <1>3, <1>11, <2>2, <2>3, Zenon
    <3>4. \E r \in 1 .. FkTaken' :
             /\ b[r].kind = "line" /\ fkLast' = (b[r].n = 0)
             /\ FkTaken' = r + b[r].n + Len(fkBuffer') /\ Len(fkBuffer') < Len(Suffix)
             /\ Len(fkOut') = b[r].at + b[r].n
             /\ \A i \in DOMAIN fkBuffer' : fkBuffer'[i].kind = Suffix[i]
      BY <1>2, <1>3, <1>12, <3>1, <3>2, <3>3, Zenon
    <3>5. FkInSuffix'
      BY <2>1, <3>4, Zenon DEF FkInSuffix
    <3> QED BY <1>12, <1>13, <1>14, <2>1, <3>5, Zenon DEF FkPhase, FkInv
  <2>4. CASE n # size
    <3>1. n + 1 \in 1 .. Len(fkChunk) /\ n + 1 \in 1 .. size /\ 1 \in 1 .. Len(fkChunk) - n
      BY <1>4, <1>6, <2>4
    <3>2. fkChunk[n + 1] = b[FkTaken + (n + 1)]
      BY <1>10, <3>1, Zenon DEF FkInv, FkPlaced, RunOf
    <3>3. fkChunk'[1] = fkChunk[n + 1]
      BY <1>3, <1>6, <1>10, <3>1, CutTail, Zenon DEF FkDrop
    <3>4. fkChunk' # <<>>
      BY <1>4, <1>6, <1>12, <2>4
    <3>5. FkInSuffix'
      BY <1>2, <1>7, <3>1, <3>2, <3>3, <3>4, Zenon DEF FkInSuffix
    <3> QED BY <1>12, <1>13, <1>14, <2>1, <3>5, Zenon DEF FkPhase, FkInv
  <2> QED BY <2>3, <2>4, Zenon
<1> QED BY <1>15, <1>16, Zenon

-----------------------------------------------------------------------------
\* What is dropped of the second of two sequences is dropped of the two.
LEMMA DropBoth ==
    ASSUME NEW S, NEW s \in Seq(S), NEW t \in Seq(S), NEW n \in 0 .. Len(t)
    PROVE  FkDrop(t, n) = FkDrop(s \o t, Len(s) + n)
<1> DEFINE u == s \o t
<1>1. u \in Seq(S) /\ Len(u) = Len(s) + Len(t) /\ \A i \in 1 .. Len(t) : u[Len(s) + i] = t[i]
    OBVIOUS
<1>2. Len(s) + n \in 0 .. Len(u) /\ Len(s) \in Nat /\ Len(t) \in Nat
    BY <1>1
<1> HIDE DEF u
<1>3. /\ FkDrop(t, n) \in Seq(S) /\ Len(FkDrop(t, n)) = Len(t) - n
      /\ \A i \in 1 .. Len(t) - n : FkDrop(t, n)[i] = t[n + i]
    BY CutTail, Zenon DEF FkDrop
<1>4. /\ FkDrop(u, Len(s) + n) \in Seq(S) /\ Len(FkDrop(u, Len(s) + n)) = Len(u) - (Len(s) + n)
      /\ \A i \in 1 .. Len(u) - (Len(s) + n) : FkDrop(u, Len(s) + n)[i] = u[(Len(s) + n) + i]
    BY <1>1, <1>2, CutTail, Zenon DEF FkDrop
<1>5. \A k \in Nat : k + Len(t) - (k + n) = Len(t) - n
    BY <1>2
<1>6. Len(u) - (Len(s) + n) = Len(t) - n
    BY <1>1, <1>2
<1>7. \A i \in 1 .. Len(t) - n : n + i \in 1 .. Len(t) /\ (Len(s) + n) + i = Len(s) + (n + i)
    BY <1>2
<1>8. \A i \in 1 .. Len(t) - n : FkDrop(u, Len(s) + n)[i] = FkDrop(t, n)[i]
    BY <1>1, <1>3, <1>4, <1>6, <1>7, Zenon
<1> DEFINE x == FkDrop(t, n)
           y == FkDrop(u, Len(s) + n)
<1>9. x \in Seq(S) /\ y \in Seq(S) /\ Len(x) = Len(y) /\ \A i \in 1 .. Len(x) : x[i] = y[i]
    BY <1>3, <1>4, <1>6, <1>8, Zenon
<1> HIDE DEF x, y
<1>10. x = y
    BY <1>9, SMTT(30)
<1> QED BY <1>10, Zenon DEF x, y, u

\* The CRLF behind a chunk.
LEMMA FkSuffixInv ==
    ASSUME FkInv, fkState = "suffix", fkChunk # <<>>, FkOnEncodedChunkSuffix(fkChunk), UNCHANGED <<fkResponse, fkIn>>
    PROVE  FkInv'
<1> DEFINE b == fkResponse.bytes
           take == Least(Len(fkChunk), Len(Suffix) - Len(fkBuffer))
           suffix == fkBuffer \o SubSeq(fkChunk, 1, take)
           rest == FkDrop(fkChunk, take)
           Bad == \E i \in DOMAIN suffix : suffix[i].kind # Suffix[i]
<1>1. FkTypes /\ FkFaithful /\ FkInSuffix /\ fkResponse.len = Chunked /\ fkEnd = "open" /\ fkState # "idle"
    BY Zenon DEF FkInv, FkPhase
<1>2. /\ Len(fkChunk) \in Nat /\ Len(fkBuffer) \in Nat /\ Len(b) \in Nat /\ FkFrom \in Nat
      /\ FkTaken \in Nat /\ FkTaken = FkFrom + Len(fkBuffer) /\ FkTaken + Len(fkChunk) <= Len(b)
    BY <1>1, FkNumbers, Zenon
<1>3. fkChunk \in Seq(FkByte) /\ fkBuffer \in Seq(FkByte) /\ Len(fkChunk) # 0
    BY <1>1 DEF FkTypes
<1>4. Len(Suffix) = 2 /\ Suffix[1] = "cr" /\ Suffix[2] = "lf"
    BY Zenon DEF Suffix
<1>5. Len(fkBuffer) < 2
    BY <1>1, <1>3, <1>4 DEF FkInSuffix
<1>6. take = IF Len(fkChunk) <= 2 - Len(fkBuffer) THEN Len(fkChunk) ELSE 2 - Len(fkBuffer)
  <2>1. Len(fkChunk) \in Int /\ 2 - Len(fkBuffer) \in Int
    BY <1>2
  <2> QED BY <1>4, <2>1, Zenon DEF Least
<1>7. UNCHANGED fkHeads
    BY Zenon DEF FkOnEncodedChunkSuffix
<1>8. IF Bad THEN FkFails("bad_suffix")
      ELSE /\ UNCHANGED <<fkRemaining, fkLast, fkSent, fkFake, fkOut>>
           /\ \/ /\ Len(suffix) < Len(Suffix)
                 /\ fkBuffer' = suffix /\ FkUnsent(rest) /\ UNCHANGED <<fkState, fkEnd>>
              \/ /\ Len(suffix) = Len(Suffix) /\ fkLast
                 /\ fkBuffer' = <<>> /\ fkState' = "idle" /\ fkEnd' = "complete"
                 /\ FkUnsent(<<>>)
              \/ /\ Len(suffix) = Len(Suffix) /\ ~fkLast
                 /\ fkBuffer' = <<>> /\ fkState' = "prefix" /\ FkUnsent(rest)
                 /\ UNCHANGED fkEnd
    BY Zenon DEF FkOnEncodedChunkSuffix
<1> HIDE DEF take
<1>9. take \in 1 .. Len(fkChunk) /\ take \in 0 .. Len(fkChunk) /\ take + Len(fkBuffer) <= 2
    BY <1>2, <1>3, <1>5, <1>6
<1>10. /\ SubSeq(fkChunk, 1, take) \in Seq(FkByte) /\ Len(SubSeq(fkChunk, 1, take)) = take
       /\ \A i \in 1 .. take : SubSeq(fkChunk, 1, take)[i] = fkChunk[i]
    BY <1>3, <1>9, CutHead, Zenon
<1> DEFINE head == SubSeq(fkChunk, 1, take)
<1> HIDE DEF head
<1>11. /\ suffix \in Seq(FkByte) /\ Len(suffix) = Len(fkBuffer) + take
       /\ \A i \in 1 .. Len(fkBuffer) : suffix[i] = fkBuffer[i]
       /\ \A i \in 1 .. take : suffix[Len(fkBuffer) + i] = fkChunk[i]
  <2>1. head \in Seq(FkByte) /\ Len(head) = take /\ \A i \in 1 .. take : head[i] = fkChunk[i]
    BY <1>10, Zenon DEF head
  <2>2. /\ fkBuffer \o head \in Seq(FkByte) /\ Len(fkBuffer \o head) = Len(fkBuffer) + take
        /\ \A i \in 1 .. Len(fkBuffer) : (fkBuffer \o head)[i] = fkBuffer[i]
        /\ \A i \in 1 .. take : (fkBuffer \o head)[Len(fkBuffer) + i] = head[i]
    BY <1>3, <1>9, <2>1
  <2> QED BY <2>1, <2>2, Zenon DEF head
<1> HIDE DEF suffix
<1>12. DOMAIN suffix = 1 .. Len(suffix)
    BY <1>11
<1>13. CASE Bad
  <2>1. "bad_suffix" \in FkOver
    BY Zenon DEF FkOver, FkEnds
  <2>2. FkFails("bad_suffix")
    BY <1>8, <1>13, Zenon
  <2> QED BY <1>7, <2>1, <2>2, FkFailsInv, Zenon
<1>14. CASE ~Bad
  <2>1. \A i \in 1 .. Len(suffix) : suffix[i].kind = Suffix[i]
    BY <1>12, <1>14, Zenon
  <2>2. ~(fkChunk[1].kind = "body" /\ fkBuffer = <<>>)
    <3> SUFFICES ASSUME fkBuffer = <<>>
                 PROVE  fkChunk[1].kind # "body"
      BY Zenon
    <3>1. Len(fkBuffer) = 0 /\ 1 \in 1 .. take /\ 1 \in 1 .. Len(suffix) /\ Len(fkBuffer) + 1 = 1
      BY <1>9, <1>11
    <3>2. fkChunk[1].kind = "cr"
      <4>1. suffix[Len(fkBuffer) + 1] = fkChunk[1]
        BY <1>11, <3>1, Zenon
      <4>2. suffix[1].kind = "cr"
        BY <1>4, <2>1, <3>1, Zenon
      <4> QED BY <3>1, <4>1, <4>2, Zenon
    <3> QED BY <3>2, Zenon
  <2>3. PICK q \in 1 .. FkTaken :
            /\ b[q].kind = "line" /\ fkLast = (b[q].n = 0)
            /\ FkTaken = q + b[q].n + Len(fkBuffer)
            /\ Len(fkOut) = b[q].at + b[q].n
    BY <1>1, <2>2, Zenon DEF FkInSuffix
  <2>4. q \in 1 .. Len(b) /\ b[q].n \in Nat /\ b[q].at \in Nat /\ FkFrom = q + b[q].n
    <3>1. q \in 1 .. Len(b) /\ b \in Seq(FkByte)
      BY <1>1, <1>2, FkResponseFacts
    <3> HIDE DEF b
    <3>2. b[q] \in FkByte
      BY <3>1
    <3>3. b[q].n \in Nat /\ b[q].at \in Nat
      BY <3>2, Zenon DEF FkByte
    <3> DEFINE m == b[q].n
    <3>4. FkTaken = q + m + Len(fkBuffer) /\ m \in Nat
      BY <2>3, <3>3, Zenon
    <3> HIDE DEF m
    <3>5. FkFrom = q + m
      BY <1>2, <3>1, <3>4
    <3> QED BY <3>1, <3>3, <3>5, Zenon DEF m
  <2>5. FkChunkBehind(b, q)
    BY <1>1, <2>3, <2>4, FkResponseFacts, Zenon
  <2>6. UNCHANGED <<fkRemaining, fkLast, fkSent, fkFake, fkOut>>
    BY <1>8, <1>14, Zenon
  <2>7. CASE /\ Len(suffix) < Len(Suffix)
             /\ fkBuffer' = suffix /\ FkUnsent(rest) /\ UNCHANGED <<fkState, fkEnd>>
    <3>1. take = Len(fkChunk)
      BY <1>2, <1>4, <1>5, <1>6, <1>11, <2>7
    <3>2. SubSeq(fkChunk, 1, Len(fkChunk)) = fkChunk /\ FkDrop(fkChunk, Len(fkChunk)) = <<>>
      BY <1>3 DEF FkDrop
    <3>3. fkBuffer' = fkBuffer \o fkChunk /\ fkChunk' = <<>> /\ fkPending' \in BOOLEAN
      BY <2>7, <3>1, <3>2, Zenon DEF FkUnsent, suffix
    <3>4. fkBuffer' \in Seq(FkByte) /\ fkChunk' \in Seq(FkByte) /\ FkFrom' = FkFrom /\ FkPlaced'
      BY <1>1, <3>3, FkHolds, Zenon
    <3>5. FkTypes'
      BY <1>1, <1>7, <2>6, <2>7, <3>3, <3>4, Zenon DEF FkTypes
    <3>6. FkFaithful'
      BY <1>1, <1>7, <2>6, <2>7, Zenon DEF FkFaithful
    <3>7. FkTaken' = FkTaken + Len(fkChunk)
      <4>1. Len(fkChunk') = 0 /\ Len(fkIn) \in Nat
        BY <1>1, <3>3 DEF FkTypes
      <4> QED BY <1>2, <4>1 DEF FkTaken
    <3>8. q \in 1 .. FkTaken + Len(fkChunk) /\ FkTaken + Len(fkChunk) = q + b[q].n + Len(suffix)
      <4> DEFINE m == b[q].n
      <4>1. FkTaken = q + m + Len(fkBuffer) /\ m \in Nat /\ Len(suffix) = Len(fkBuffer) + Len(fkChunk)
        BY <1>11, <2>3, <2>4, <3>1, Zenon
      <4> HIDE DEF m
      <4>2. q \in 1 .. FkTaken + Len(fkChunk) /\ FkTaken + Len(fkChunk) = q + m + Len(suffix)
        BY <1>2, <4>1
      <4> QED BY <4>2, Zenon DEF m
    <3>9. \E r \in 1 .. FkTaken' :
             /\ b[r].kind = "line" /\ fkLast' = (b[r].n = 0)
             /\ FkTaken' = r + b[r].n + Len(fkBuffer') /\ Len(fkBuffer') < Len(Suffix)
             /\ Len(fkOut') = b[r].at + b[r].n
             /\ \A i \in DOMAIN fkBuffer' : fkBuffer'[i].kind = Suffix[i]
      BY <1>12, <2>1, <2>3, <2>6, <2>7, <3>7, <3>8, Zenon
    <3>10. FkInSuffix'
      BY <3>9, Zenon DEF FkInSuffix
    <3>11. FkPhase'
      BY <1>1, <2>7, <3>10, Zenon DEF FkPhase
    <3> QED BY <3>4, <3>5, <3>6, <3>11, Zenon DEF FkInv
  <2>8. CASE /\ Len(suffix) = Len(Suffix) /\ fkLast
             /\ fkBuffer' = <<>> /\ fkState' = "idle" /\ fkEnd' = "complete"
             /\ FkUnsent(<<>>)
    <3>1. <<>> \in Seq(FkByte) /\ fkChunk' = <<>> /\ fkPending' \in BOOLEAN /\ "complete" \in FkEnds
      BY <2>8 DEF FkUnsent, FkEnds
    <3>2. FkTypes'
      BY <1>1, <1>7, <2>6, <2>8, <3>1, Zenon DEF FkTypes
    <3>3. FkPlaced' /\ FkPhase'
      BY <2>8, Zenon DEF FkPlaced, FkPhase
    <3>4. b[q].n = 0
      BY <2>3, <2>8, Zenon
    <3>5. FkBodyWithin(b, b[q].at)
      BY <2>5, <3>4, Zenon DEF FkChunkBehind
    <3>6. Len(fkOut) = b[q].at
      <4>1. \A x \in Nat : x + 0 = x
        OBVIOUS
      <4> QED BY <2>3, <2>4, <3>4, <4>1, Zenon
    <3>7. FkBodyWithin(b, Len(fkOut'))
      BY <2>6, <3>5, <3>6, Zenon
    <3>8. fkEnd' # "panic"
      BY <2>8, Zenon
    <3>9. FkFaithful'
      BY <1>1, <1>7, <2>6, <3>7, <3>8, Zenon DEF FkFaithful
    <3> QED BY <3>2, <3>3, <3>9, Zenon DEF FkInv
  <2>9. CASE /\ Len(suffix) = Len(Suffix) /\ ~fkLast
             /\ fkBuffer' = <<>> /\ fkState' = "prefix" /\ FkUnsent(rest)
             /\ UNCHANGED fkEnd
    <3>1. fkChunk' = rest /\ fkPending' \in BOOLEAN /\ fkEnd' = "open" /\ fkResponse' = fkResponse
      BY <1>1, <2>9, Zenon DEF FkUnsent
    <3>2. rest = FkDrop(fkBuffer \o fkChunk, Len(fkBuffer) + take)
      BY <1>3, <1>9, DropBoth, Zenon
    <3>3. Len(fkBuffer) + take = 2 /\ 2 \in 0 .. Len(fkBuffer) + Len(fkChunk)
      <4>1. Len(fkBuffer) + take = 2
        BY <1>4, <1>11, <2>9, Zenon
      <4> QED BY <1>2, <1>9, <4>1
    <3>4. /\ fkBuffer' \in Seq(FkByte) /\ fkChunk' \in Seq(FkByte)
          /\ FkTaken' = FkFrom + 2 /\ FkFrom' = FkFrom + 2 /\ FkPlaced'
      <4>1. fkBuffer' = <<>> /\ fkChunk' = FkDrop(fkBuffer \o fkChunk, 2)
        BY <2>9, <3>1, <3>2, <3>3, Zenon
      <4> QED BY <1>1, <3>3, <4>1, FkTakes, Zenon
    <3>5. FkTypes'
      <4>1. fkState' \in {"idle", "waiting", "plain", "prefix", "chunk", "suffix"}
        BY <2>9, Zenon
      <4> QED BY <1>1, <1>7, <2>6, <2>9, <3>1, <3>4, <4>1, Zenon DEF FkTypes
    <3>6. FkFaithful'
      BY <1>1, <1>7, <2>6, <2>9, Zenon DEF FkFaithful
    <3> DEFINE c == q + b[q].n
    <3>7. FkSizeLineAt(b, c + 3, Len(fkOut))
      <4>1. b[q].n # 0
        BY <2>3, <2>9, Zenon
      <4> QED BY <2>3, <2>5, <4>1, Zenon DEF FkChunkBehind
    <3>8. c = FkFrom
      BY <2>4, Zenon
    <3>9. \A x \in Nat : (x + 2) + 1 = x + 3
      OBVIOUS
    <3> HIDE DEF c
    <3>12. FkInPrefix'
      BY <1>2, <2>6, <3>1, <3>4, <3>7, <3>8, <3>9, Zenon DEF FkInPrefix
    <3>13. FkPhase'
      BY <1>1, <2>9, <3>1, <3>12, Zenon DEF FkPhase
    <3> QED BY <3>4, <3>5, <3>6, <3>13, Zenon DEF FkInv
  <2> QED BY <1>8, <1>14, <2>7, <2>8, <2>9, Zenon
<1> QED BY <1>13, <1>14, Zenon

-----------------------------------------------------------------------------
\* Every step of the sink and of its pipe keeps the invariant.
LEMMA FkInvStep ==
    ASSUME FkInv, [FkNext]_fkVars
    PROVE  FkInv'
<1>1. CASE FkRead
  <2> DEFINE b == fkResponse.bytes
  <2>1. PICK n \in 1 .. Len(fkIn) : fkChunk' = SubSeq(fkIn, 1, n) /\ fkIn' = FkDrop(fkIn, n)
    BY <1>1, Zenon DEF FkRead
  <2>2. /\ fkChunk = <<>>
        /\ UNCHANGED <<fkState, fkBuffer, fkRemaining, fkLast, fkSent, fkFake, fkResponse, fkPending,
                       fkOut, fkHeads, fkEnd>>
    BY <1>1, Zenon DEF FkRead
  <2>3. FkTypes /\ FkFaithful /\ FkPlaced /\ FkPhase /\ fkIn \in Seq(FkByte) /\ b \in Seq(FkByte)
    BY FkResponseFacts, Zenon DEF FkInv, FkTypes
  <2>4. Len(fkIn) \in Nat /\ Len(b) \in Nat /\ n \in 0 .. Len(fkIn) /\ Len(fkChunk) = 0
    BY <2>2, <2>3
  <2>5. /\ fkChunk' \in Seq(FkByte) /\ Len(fkChunk') = n /\ fkIn' \in Seq(FkByte) /\ Len(fkIn') = Len(fkIn) - n
    BY <2>1, <2>3, <2>4, CutHead, CutTail, ZenonT(30) DEF FkDrop
  <2>6. FkTaken' = FkTaken /\ FkTaken = Len(b) - Len(fkIn)
    BY <2>2, <2>4, <2>5 DEF FkTaken
  <2>7. FkFrom' = FkFrom
    BY <2>2, <2>6, Zenon DEF FkFrom
  <2>8. FkPlaced'
    <3> SUFFICES ASSUME fkState # "idle"
                 PROVE  FkPlaced'
      BY <2>2, Zenon DEF FkPlaced
    <3>1. Len(b) - Len(fkIn) \in Int /\ (Len(b) - Len(fkIn)) + n = Len(b) - (Len(fkIn) - n)
      BY <2>4
    <3>2. RunOf(fkIn, b, Len(b) - Len(fkIn))
      BY <2>3, Zenon DEF FkPlaced
    <3>3. RunOf(fkChunk', b, FkTaken) /\ RunOf(fkIn', b, Len(b) - (Len(fkIn) - n))
      BY <2>1, <2>3, <2>4, <2>6, <3>1, <3>2, RunCut, Zenon DEF FkDrop
    <3> QED BY <2>2, <2>3, <2>5, <2>6, <2>7, <3>3, Zenon DEF FkPlaced
  <2>9. FkTypes' /\ FkFaithful'
    BY <2>2, <2>3, <2>5, Zenon DEF FkTypes, FkFaithful
  <2>10. FkPhase'
    BY <2>2, <2>3, <2>6, <2>7, Zenon DEF FkPhase, FkInWaiting, FkInPlain, FkInPrefix, FkInChunk, FkInSuffix
  <2> QED BY <2>8, <2>9, <2>10, Zenon DEF FkInv
<1>2. CASE FkWrite
  <2>1. fkChunk # <<>> /\ UNCHANGED <<fkResponse, fkIn>>
    BY <1>2, Zenon DEF FkWrite
  <2>2. CASE fkState = "idle"
    <3>1. FkFails("invalid_state") /\ UNCHANGED fkHeads
      BY <1>2, <2>2, Zenon DEF FkWrite
    <3>2. "invalid_state" \in FkOver
      BY Zenon DEF FkOver, FkEnds
    <3> QED BY <2>1, <3>1, <3>2, FkFailsInv, Zenon
  <2>3. CASE fkState = "waiting"
    <3>1. FkOnResponseHeadersChunk(fkChunk)
      BY <1>2, <2>3, Zenon DEF FkWrite
    <3> QED BY <2>1, <2>3, <3>1, FkHeadersInv, Zenon
  <2>4. CASE fkState = "plain"
    <3>1. FkOnNonEncodedChunk(fkChunk)
      BY <1>2, <2>4, Zenon DEF FkWrite
    <3> QED BY <2>1, <2>4, <3>1, FkPlainInv, Zenon
  <2>5. CASE fkState = "prefix"
    <3>1. FkOnEncodedChunkPrefix(fkChunk)
      BY <1>2, <2>5, Zenon DEF FkWrite
    <3> QED BY <2>1, <2>5, <3>1, FkPrefixInv, Zenon
  <2>6. CASE fkState = "chunk"
    <3>1. FkOnEncodedChunk(fkChunk)
      BY <1>2, <2>6, Zenon DEF FkWrite
    <3> QED BY <2>1, <2>6, <3>1, FkChunkInv, Zenon
  <2>7. CASE fkState = "suffix"
    <3>1. FkOnEncodedChunkSuffix(fkChunk)
      BY <1>2, <2>7, Zenon DEF FkWrite
    <3> QED BY <2>1, <2>7, <3>1, FkSuffixInv, Zenon
  <2> QED BY <2>2, <2>3, <2>4, <2>5, <2>6, <2>7, Zenon DEF FkInv, FkTypes
<1>3. CASE FkWaitWritable
  <2>1. UNCHANGED <<fkResponse, fkIn, fkHeads>>
    BY <1>3, Zenon DEF FkWaitWritable
  <2>2. CASE FkFails("invalid_state")
    <3>1. "invalid_state" \in FkOver
      BY Zenon DEF FkOver, FkEnds
    <3> QED BY <2>1, <2>2, <3>1, FkFailsInv, Zenon
  <2>3. CASE /\ fkFake' = FALSE /\ fkPending' = FALSE
             /\ UNCHANGED <<fkState, fkBuffer, fkRemaining, fkLast, fkSent, fkChunk, fkOut, fkEnd>>
    <3>1. FkTaken' = FkTaken
      BY <2>1, <2>3, Zenon DEF FkTaken
    <3>2. FkFrom' = FkFrom
      BY <2>3, <3>1, Zenon DEF FkFrom
    <3>3. FkTypes' /\ FkFaithful'
      BY <2>1, <2>3, Zenon DEF FkInv, FkTypes, FkFaithful
    <3>4. FkPlaced'
      BY <2>1, <2>3, <3>1, <3>2, Zenon DEF FkInv, FkPlaced
    <3>5. FkPhase'
      BY <2>1, <2>3, <3>1, <3>2, Zenon
         DEF FkInv, FkPhase, FkInWaiting, FkInPlain, FkInPrefix, FkInChunk, FkInSuffix
    <3> QED BY <3>3, <3>4, <3>5, Zenon DEF FkInv
  <2> QED BY <1>3, <2>2, <2>3, Zenon DEF FkWaitWritable
<1>4. CASE FkEof
  <2>1. /\ fkIn' = <<>> /\ fkState' = "idle"
        /\ fkEnd' = IF fkEnd = "complete" THEN fkEnd ELSE IF fkState = "idle" THEN "lost" ELSE "eof"
        /\ fkHeads' = IF fkState = "waiting" THEN Append(fkHeads, "bad_gateway") ELSE fkHeads
        /\ UNCHANGED <<fkBuffer, fkRemaining, fkLast, fkSent, fkFake, fkResponse, fkChunk, fkPending, fkOut>>
    BY <1>4, Zenon DEF FkEof
  <2>2. FkPlaced' /\ FkPhase'
    BY <2>1, Zenon DEF FkPlaced, FkPhase
  <2>3. "lost" \in FkEnds /\ "eof" \in FkEnds /\ <<>> \in Seq(FkByte) /\ "bad_gateway" \in FkHead
    BY DEF FkEnds, FkHead
  <2>4. /\ fkHeads' \in Seq(FkHead)
        /\ \A i \in DOMAIN fkHeads' : fkHeads'[i] # "interim" => i = Len(fkHeads')
    <3>1. CASE fkState = "waiting"
      <4>1. fkHeads \in Seq(FkHead) /\ \A i \in DOMAIN fkHeads : fkHeads[i] = "interim"
        BY <3>1, Zenon DEF FkInv, FkTypes, FkPhase, FkInWaiting
      <4> QED BY <2>1, <2>3, <3>1, <4>1, FkAnswered, Zenon
    <3>2. CASE fkState # "waiting"
      BY <2>1, <3>2, Zenon DEF FkInv, FkTypes, FkFaithful
    <3> QED BY <3>1, <3>2, Zenon
  <2>5. fkEnd' \in FkEnds /\ fkEnd' # "panic" /\ (fkEnd' = "complete" => fkEnd = "complete")
    BY <2>1, <2>3, Zenon DEF FkInv, FkTypes
  <2>6. FkTypes'
    BY <2>1, <2>3, <2>4, <2>5, Zenon DEF FkInv, FkTypes
  <2>7. FkFaithful'
    BY <2>1, <2>4, <2>5, Zenon DEF FkInv, FkFaithful
  <2> QED BY <2>2, <2>6, <2>7, Zenon DEF FkInv
<1>5. CASE UNCHANGED fkVars
  <2>1. FkTaken' = FkTaken
    BY <1>5, Zenon DEF fkVars, FkTaken
  <2>2. FkFrom' = FkFrom
    BY <1>5, <2>1, Zenon DEF fkVars, FkFrom
  <2>3. FkTypes' /\ FkFaithful' /\ FkPlaced'
    BY <1>5, <2>1, <2>2, Zenon DEF fkVars, FkInv, FkTypes, FkFaithful, FkPlaced
  <2>4. FkPhase'
    BY <1>5, <2>1, <2>2, Zenon
       DEF fkVars, FkInv, FkPhase, FkInWaiting, FkInPlain, FkInPrefix, FkInChunk, FkInSuffix
  <2> QED BY <2>3, <2>4, Zenon DEF FkInv
<1> QED BY <1>1, <1>2, <1>3, <1>4, <1>5, Zenon DEF FkNext

\* The invariant holds before anything has been read.
LEMMA FkInvInit == FkInit => FkInv
<1> SUFFICES ASSUME FkInit
             PROVE  FkInv
    BY Zenon
<1> USE DEF FkInit
<1>1. /\ fkResponse.bytes \in Seq(FkByte) /\ fkIn = fkResponse.bytes /\ Len(fkResponse.bytes) \in Nat
  <2>1. FkWellFormed(fkResponse) /\ fkIn = fkResponse.bytes
    BY ForwardedAssumption, Zenon
  <2>2. fkResponse.bytes \in Seq(FkByte)
    BY <2>1, Zenon DEF FkWellFormed
  <2> QED BY <2>1, <2>2
<1>2. <<>> \in Seq(FkByte) /\ <<>> \in Seq(FkHead) /\ Len(<<>>) = 0 /\ "open" \in FkEnds /\ DOMAIN <<>> = {} /\ 0 \in Nat
    BY DEF FkEnds
<1>3. FkTypes
    BY <1>1, <1>2, Zenon DEF FkTypes
<1>4. FkTaken = 0
  <2>1. \A n \in Nat : n - n - 0 = 0
    OBVIOUS
  <2> QED BY <1>1, <1>2, <2>1, Zenon DEF FkTaken
<1>5. FkFrom = 0
  <2>1. 0 - 0 = 0
    OBVIOUS
  <2> QED BY <1>2, <1>4, <2>1, Zenon DEF FkFrom
<1>6. FkPlaced
  <2>1. RunOf(<<>>, fkResponse.bytes, 0)
    BY DEF RunOf
  <2>2. Len(fkResponse.bytes) - Len(fkIn) = 0
    BY <1>1
  <2>3. RunOf(fkIn, fkResponse.bytes, 0)
    <3>1. \A i \in 1 .. Len(fkIn) : 0 + i = i
      BY <1>1
    <3> QED BY <1>1, <3>1, Zenon DEF RunOf
  <2> QED BY <1>2, <1>4, <1>5, <2>1, <2>2, <2>3, Zenon DEF FkPlaced
<1>7. FkPhase
    BY <1>2, Zenon DEF FkPhase, FkInWaiting
<1>8. FkFaithful
    BY <1>2, Zenon DEF FkFaithful
<1> QED BY <1>3, <1>6, <1>7, <1>8, Zenon DEF FkInv

\* An exchange is forwarded faithfully, whatever the response, however it is
\* cut into reads and however little the client's sink takes at a time.
THEOREM FwFaithful == FwSpec => []FwIsFaithful
<1>1. FwInit => FkInv /\ FsInit
    BY FkInvInit, Zenon DEF FwInit
<1>2. FkInv /\ [FwNext]_fwVars => FkInv'
    BY FkInvStep, Zenon DEF FwNext, fwVars
<1>3. [FwNext]_fwVars => [FsNext]_fsVars
    BY Zenon DEF FwNext, fwVars
<1>4. FkInv /\ FsInv => FwIsFaithful
  <2>1. FsInv => fsWindow >= 0
    BY DEF FsInv
  <2> QED BY <2>1, Zenon DEF FkInv, FkFaithful, FwIsFaithful
<1> QED BY <1>1, <1>2, <1>3, <1>4, FsInvHolds, PTL DEF FwSpec

-----------------------------------------------------------------------------
(* The reverse proxy.                                                      *)

\* s is a run of the body, behind its first `at` bytes.
Numbered(s, at) == \A i \in 1 .. Len(s) : s[i].kind = "body" /\ s[i].n = at + i

\* Where what is not decoded begins, and what it is.
RpAhead == rpBuffer \o rpLeft
RpFrom == Len(rpCase.bytes) - Len(RpAhead)

\* The client is given a decoded body.
RpDecodes == ~(rpCase.chunked /\ rpCase.protocol = "Http1")

\* Before the response's head is complete.
RpBegins ==
  rpPc \in {"connect", "request", "head"} =>
    RpAhead = rpCase.bytes /\ rpBody = <<>> /\ rpOut = <<>> /\ rpStatus = 0 /\ rpLength = -1

\* While chunks are decoded, what was decoded is the body up to here.
RpCollects ==
  rpPc \in {"size", "chunk", "trailers"} =>
    /\ rpCase.chunked /\ rpLength = -1 /\ rpStatus \in {0, 200}
    /\ rpStatus = 0 => rpOut = <<>>
    /\ rpStatus = 200 => rpBody = <<>>
    /\ Numbered(rpOut \o rpBody, 0) /\ Len(rpOut \o rpBody) <= rpCase.size
    /\ rpPc = "trailers" => Len(rpOut \o rpBody) = rpCase.size

\* The decoder and the framing agree on where in the response they are.
RpInStep ==
  rpPc \in {"size", "chunk"} =>
    /\ RpFrom >= 0 /\ RunOf(RpAhead, rpCase.bytes, RpFrom)
    /\ LET at == Len(rpOut \o rpBody) IN
       /\ rpPc = "size" => RpSizeAt(rpCase.bytes, RpFrom + 1, at)
       /\ rpPc = "chunk" =>
            /\ rpSize > 0 /\ RpBodyBehind(rpCase.bytes, RpFrom, rpSize, at)
            /\ RpSizeAt(rpCase.bytes, RpFrom + rpSize + 2, at + rpSize)

\* A body that is not chunked: what was taken of it and what is left of it.
RpCounts(taken) ==
  /\ ~rpCase.chunked /\ Numbered(taken, 0) /\ Numbered(rpLeft, Len(taken))
  /\ Len(taken) + Len(rpLeft) <= rpCase.size
  /\ rpCase.length = -1 => Len(taken) + Len(rpLeft) = rpCase.size

RpPasses ==
  /\ rpPc = "buffer" => RpCounts(rpBody) /\ rpCase.length # -1 /\ rpStatus = 0 /\ rpOut = <<>>
  /\ rpPc = "first" /\ RpDecodes => RpCounts(rpBuffer) /\ rpStatus = 0 /\ rpOut = <<>>
  /\ rpPc = "fixed" => RpCounts(rpOut) /\ rpCase.length # -1 /\ rpLength = rpCase.length
  /\ rpPc = "pipe" /\ RpDecodes => RpCounts(rpOut) /\ rpCase.length = -1

RpInv ==
  /\ RpTypeOK /\ (rpEof => rpPc = "done")
  /\ RpBegins /\ RpCollects /\ RpInStep /\ RpPasses /\ RpBodyIsExact

-----------------------------------------------------------------------------
\* Body bytes that follow on each other, and such a run cut in two.
LEMMA NumberedJoin ==
    ASSUME NEW s \in Seq(RpByte), NEW t \in Seq(RpByte), NEW at \in Nat,
           Numbered(s, at), Numbered(t, at + Len(s))
    PROVE  Numbered(s \o t, at)
<1>1. Len(s \o t) = Len(s) + Len(t)
    OBVIOUS
<1>2. ASSUME NEW i \in 1 .. Len(s) + Len(t)
      PROVE  (s \o t)[i].kind = "body" /\ (s \o t)[i].n = at + i
    <2>1. CASE i <= Len(s)
        BY <2>1 DEF Numbered
    <2>2. CASE i > Len(s)
        <3>1. i - Len(s) \in 1 .. Len(t) /\ (s \o t)[i] = t[i - Len(s)]
            BY <2>2
        <3>2. t[i - Len(s)].kind = "body" /\ t[i - Len(s)].n = (at + Len(s)) + (i - Len(s))
            BY <3>1, Zenon DEF Numbered
        <3>3. (at + Len(s)) + (i - Len(s)) = at + i
            OBVIOUS
        <3> QED BY <3>1, <3>2, <3>3, Zenon
    <2> QED BY <2>1, <2>2
<1> QED BY <1>1, <1>2, Zenon DEF Numbered

LEMMA NumberedCut ==
    ASSUME NEW s \in Seq(RpByte), NEW at \in Nat, Numbered(s, at), NEW n \in 0 .. Len(s)
    PROVE  Numbered(SubSeq(s, 1, n), at) /\ Numbered(SubSeq(s, n + 1, Len(s)), at + n)
<1>1. Numbered(SubSeq(s, 1, n), at)
    BY DEF Numbered
<1>2. Numbered(SubSeq(s, n + 1, Len(s)), at + n)
    <2>1. \A i \in 1 .. Len(s) - n : n + i \in 1 .. Len(s) /\ at + (n + i) = (at + n) + i
        OBVIOUS
    <2>2. \A i \in 1 .. Len(s) - n : s[n + i].kind = "body" /\ s[n + i].n = (at + n) + i
        BY <2>1, Zenon DEF Numbered
    <2> QED BY <2>2, CutTail DEF Numbered
<1> QED BY <1>1, <1>2, Zenon

LEMMA NumberedSplit ==
    ASSUME NEW s \in Seq(RpByte), NEW t \in Seq(RpByte), NEW at \in Nat, Numbered(s \o t, at)
    PROVE  Numbered(s, at) /\ Numbered(t, at + Len(s))
<1>1. Len(s \o t) = Len(s) + Len(t) /\ Len(s) \in Nat /\ Len(t) \in Nat
    OBVIOUS
<1>2. \A i \in 1 .. Len(s) : i \in 1 .. Len(s) + Len(t) /\ (s \o t)[i] = s[i]
    OBVIOUS
<1>3. \A i \in 1 .. Len(t) : /\ Len(s) + i \in 1 .. Len(s) + Len(t) /\ (s \o t)[Len(s) + i] = t[i]
                             /\ at + (Len(s) + i) = (at + Len(s)) + i
    OBVIOUS
<1>4. Numbered(s, at)
    BY <1>1, <1>2, Zenon DEF Numbered
<1>5. Numbered(t, at + Len(s))
    BY <1>1, <1>3, Zenon DEF Numbered
<1> QED BY <1>4, <1>5, Zenon

\* What ReverseProxyAssumption says of the exchange at hand.
LEMMA RpCaseFacts ==
    ASSUME RpTypeOK
    PROVE  /\ RpExchange(rpCase) /\ rpCase.bytes \in Seq(RpByte) /\ Len(rpCase.bytes) \in Nat
           /\ rpCase.size \in Nat /\ rpCase.chunked \in BOOLEAN
           /\ rpCase.length = -1 \/ (rpCase.length = rpCase.size /\ ~rpCase.chunked)
           /\ rpCase.protocol \in {"Http1", "Http2", "Http3"}
<1>1. RpExchange(rpCase)
    BY ReverseProxyAssumption, Zenon DEF RpTypeOK
<1>2. /\ rpCase.bytes \in Seq(RpByte) /\ rpCase.size \in Nat /\ rpCase.chunked \in BOOLEAN
      /\ rpCase.protocol \in {"Http1", "Http2", "Http3"}
      /\ rpCase.length \in IF rpCase.chunked THEN {-1} ELSE {-1, rpCase.size}
    BY <1>1, Zenon DEF RpExchange
<1>3. rpCase.length = -1 \/ (rpCase.length = rpCase.size /\ ~rpCase.chunked)
    BY <1>2, Zenon
<1> QED BY <1>1, <1>2, <1>3

\* A read takes what it returns from what is left.
LEMMA RpReadFacts ==
    ASSUME RpTypeOK, NEW n \in RpReads, RpTakes(n)
    PROVE  /\ n \in Nat \ {0} /\ n \in 0 .. Len(rpLeft) /\ rpLeft \in Seq(RpByte) /\ Len(rpLeft) \in Nat
           /\ RpData(n) \in Seq(RpByte) /\ Len(RpData(n)) = n
           /\ rpLeft' \in Seq(RpByte) /\ Len(rpLeft') = Len(rpLeft) - n
<1>1. rpLeft \in Seq(RpByte) /\ Len(rpLeft) \in Nat
    BY DEF RpTypeOK
<1>2. n \in 1 .. RpReadMax /\ n <= Len(rpLeft) /\ rpLeft' = SubSeq(rpLeft, n + 1, Len(rpLeft))
    BY Zenon DEF RpReads, RpTakes
<1>3. n \in Nat \ {0} /\ n \in 0 .. Len(rpLeft)
    BY <1>1, <1>2, ReverseProxyAssumption
<1>4. RpData(n) \in Seq(RpByte) /\ Len(RpData(n)) = n
    BY <1>1, <1>3, CutHead, Zenon DEF RpData
<1>5. rpLeft' \in Seq(RpByte) /\ Len(rpLeft') = Len(rpLeft) - n
    BY <1>1, <1>2, <1>3, CutTail, Zenon
<1> QED BY <1>1, <1>3, <1>4, <1>5, Zenon

\* A read into the buffer leaves what is not decoded as it is.
LEMMA RpReadKeepsAhead ==
    ASSUME RpTypeOK, NEW n \in RpReads, RpTakes(n), UNCHANGED rpCase
    PROVE  /\ rpBuffer \o RpData(n) \in Seq(RpByte)
           /\ Len(rpBuffer \o RpData(n)) = Len(rpBuffer) + n
           /\ (rpBuffer \o RpData(n)) \o rpLeft' = RpAhead
<1>1. rpBuffer \in Seq(RpByte)
    BY Zenon DEF RpTypeOK
<1>2. rpBuffer \o RpData(n) \in Seq(RpByte) /\ Len(rpBuffer \o RpData(n)) = Len(rpBuffer) + n
    <2>1. RpData(n) \in Seq(RpByte) /\ Len(RpData(n)) = n
        BY RpReadFacts, Zenon
    <2>2. rpBuffer \o RpData(n) \in Seq(RpByte) /\ Len(rpBuffer \o RpData(n)) = Len(rpBuffer) + Len(RpData(n))
        BY <1>1, <2>1, Joined, Zenon
    <2> QED BY <2>1, <2>2, Zenon
<1>3. (rpBuffer \o SubSeq(rpLeft, 1, n)) \o SubSeq(rpLeft, n + 1, Len(rpLeft)) = rpBuffer \o rpLeft
    BY <1>1, RpReadFacts, Rejoined, Zenon
<1> QED BY <1>2, <1>3, Zenon DEF RpData, RpTakes, RpAhead

\* A read of a body that is not chunked.
LEMMA RpCountsMore ==
    ASSUME RpTypeOK, NEW taken \in Seq(RpByte), RpCounts(taken), NEW n \in RpReads, RpTakes(n)
    PROVE  /\ taken \o RpData(n) \in Seq(RpByte) /\ Len(taken \o RpData(n)) = Len(taken) + n
           /\ Numbered(taken \o RpData(n), 0) /\ Numbered(rpLeft', Len(taken) + n)
           /\ (Len(taken) + n) + Len(rpLeft') = Len(taken) + Len(rpLeft)
<1>1. Len(taken) \in Nat /\ n \in Nat /\ Len(rpLeft) \in Nat /\ 0 \in Nat /\ 0 + Len(taken) = Len(taken)
    BY RpReadFacts
<1>2. taken \o RpData(n) \in Seq(RpByte) /\ Len(taken \o RpData(n)) = Len(taken) + n
    <2>1. RpData(n) \in Seq(RpByte) /\ Len(RpData(n)) = n
        BY RpReadFacts, Zenon
    <2>2. taken \o RpData(n) \in Seq(RpByte) /\ Len(taken \o RpData(n)) = Len(taken) + Len(RpData(n))
        BY <2>1, Joined, Zenon
    <2> QED BY <2>1, <2>2, Zenon
<1>3. Numbered(taken, 0) /\ Numbered(rpLeft, Len(taken))
    BY Zenon DEF RpCounts
<1>4. Numbered(RpData(n), Len(taken)) /\ Numbered(rpLeft', Len(taken) + n)
    BY <1>1, <1>3, RpReadFacts, NumberedCut, Zenon DEF RpData, RpTakes
<1>5. Numbered(taken \o RpData(n), 0)
    BY <1>1, <1>3, <1>4, RpReadFacts, NumberedJoin, Zenon
<1>6. (Len(taken) + n) + (Len(rpLeft) - n) = Len(taken) + Len(rpLeft)
    BY <1>1
<1> QED BY <1>2, <1>4, <1>5, <1>6, RpReadFacts, Zenon

\* A server that sends no more than it announced is never cut off.
LEMMA RpTakesAll ==
    ASSUME RpTypeOK, NEW n \in RpReads, RpTakes(n), NEW have \in Nat,
           rpCase.length \in Nat, have + Len(rpLeft) <= rpCase.length
    PROVE  RpToTake(n, have) = RpData(n)
<1> DEFINE l == rpCase.length
           k == Len(rpLeft)
<1>1. l \in Nat /\ k \in Nat /\ n \in 0 .. k /\ have + k <= l
    BY RpReadFacts, Zenon
<1>2. (IF n < l - have THEN n ELSE l - have) = n
    <2> HIDE DEF l, k
    <2> QED BY <1>1
<1> QED BY <1>2, Zenon DEF RpToTake, RpData

\* The numbers of the body's bytes are at most its size.
LEMMA RpWithinSize ==
    ASSUME RpTypeOK, NEW s \in Seq(RpByte), NEW at \in Nat, Numbered(s, at),
           NEW p \in Int, RunOf(s, rpCase.bytes, p), p >= 0, p + Len(s) <= Len(rpCase.bytes),
           at <= rpCase.size
    PROVE  at + Len(s) <= rpCase.size
<1> DEFINE b == rpCase.bytes
           l == Len(s)
<1>1. l \in Nat /\ Len(b) \in Nat /\ rpCase.size \in Nat /\ b \in Seq(RpByte)
    BY RpCaseFacts
<1>2. CASE l = 0
    BY <1>1, <1>2
<1>3. CASE l # 0
    <2>1. l \in 1 .. l /\ p + l \in 1 .. Len(b)
        <3> HIDE DEF b, l
        <3> QED BY <1>1, <1>3 DEF b, l
    <2>2. s[l].kind = "body" /\ s[l].n = at + l /\ s[l] = b[p + l]
        BY <2>1, Zenon DEF Numbered, RunOf
    <2>3. b[p + l].kind = "body" => b[p + l].n <= rpCase.size
        BY <1>1, <2>1, RpCaseFacts DEF RpExchange
    <2> QED BY <2>2, <2>3, Zenon
<1> QED BY <1>2, <1>3, Zenon

\* Once the task is over only the promise itself is left to keep.
LEMMA RpOver ==
    ASSUME RpTypeOK', rpPc' \in {"done", "failed"}, rpEof' => rpPc' = "done", RpBodyIsExact'
    PROVE  RpInv'
<1>1. RpBegins' /\ RpCollects' /\ RpInStep' /\ RpPasses'
    BY Zenon DEF RpBegins, RpCollects, RpInStep, RpPasses
<1> QED BY <1>1, Zenon DEF RpInv

\* The promise is about what the client was sent.
LEMMA RpSentIsKept ==
    ASSUME RpInv, UNCHANGED <<rpCase, rpOut, rpStatus, rpLength, rpEof>>
    PROVE  RpBodyIsExact'
<1>1. RpBodyIsExact
    BY Zenon DEF RpInv
<1>2. rpCase' = rpCase /\ rpOut' = rpOut /\ rpStatus' = rpStatus /\ rpLength' = rpLength /\ rpEof' = rpEof
    BY Zenon
<1> QED BY <1>1, <1>2 DEF RpBodyIsExact

\* The client's stream is open while the task runs.
LEMMA RpStillOpen ==
    ASSUME RpInv, rpPc # "done"
    PROVE  rpEof = FALSE
<1>1. rpEof \in BOOLEAN /\ (rpEof => rpPc = "done")
    BY Zenon DEF RpInv, RpTypeOK
<1> QED BY <1>1, Zenon

\* The steps that take no byte of the response and send none.
LEMMA RpMovesInv ==
    ASSUME RpInv, RpFails \/ RpConnect \/ RpSendRequest
    PROVE  RpInv'
<1>1. /\ UNCHANGED <<rpCase, rpLeft, rpBuffer, rpSize, rpBody, rpOut, rpStatus, rpLength, rpEof, rpUploaded>>
      /\ rpPc \notin {"done"} /\ rpPc' \in {"failed", "request", "head"}
      /\ rpPc' # "failed" => rpPc \in {"connect", "request"}
    BY Zenon DEF RpFails, RpConnect, RpSendRequest
<1>2. RpTypeOK'
    BY <1>1, Zenon DEF RpInv, RpTypeOK, RpPcs
<1>3. RpBodyIsExact' /\ rpEof' = FALSE
    BY <1>1, RpSentIsKept, RpStillOpen, Zenon
<1>4. RpBegins'
    BY <1>1, Zenon DEF RpInv, RpBegins, RpAhead
<1>5. RpCollects' /\ RpInStep' /\ RpPasses'
    BY <1>1, Zenon DEF RpCollects, RpInStep, RpPasses
<1> QED BY <1>2, <1>3, <1>4, <1>5, Zenon DEF RpInv

\* The whole body of a response to an HTTP/3 client is there before its head is sent.
LEMMA RpReadBufferedInv ==
    ASSUME RpInv, RpReadBuffered
    PROVE  RpInv'
<1>1. /\ RpTypeOK /\ RpCounts(rpBody) /\ rpCase.length # -1 /\ rpStatus = 0 /\ rpOut = <<>> /\ rpEof = FALSE
      /\ rpPc = "buffer"
    BY RpStillOpen, Zenon DEF RpInv, RpPasses, RpReadBuffered
<1>2. /\ rpBody \in Seq(RpByte) /\ rpLeft \in Seq(RpByte) /\ Len(rpBody) \in Nat /\ Len(rpLeft) \in Nat
      /\ rpCase.size \in Nat /\ rpCase.length = rpCase.size
    BY <1>1, RpCaseFacts DEF RpTypeOK
<1>3. Len(rpBody) + Len(rpLeft) <= rpCase.size
    BY <1>1, Zenon DEF RpCounts
<1>4. ASSUME NEW n \in RpReads, RpTakes(n), rpBody' = rpBody \o RpToTake(n, Len(rpBody)),
             UNCHANGED <<rpPc, rpStatus, rpLength, rpOut, rpEof, rpCase, rpBuffer, rpSize, rpUploaded>>
      PROVE  RpInv'
    <2>1. RpToTake(n, Len(rpBody)) = RpData(n)
        BY <1>1, <1>2, <1>3, <1>4, RpTakesAll, Zenon
    <2>2. /\ rpBody' \in Seq(RpByte) /\ Len(rpBody') = Len(rpBody) + n
          /\ Numbered(rpBody', 0) /\ Numbered(rpLeft', Len(rpBody'))
          /\ Len(rpBody') + Len(rpLeft') = Len(rpBody) + Len(rpLeft)
        <3>1. /\ rpBody \o RpData(n) \in Seq(RpByte) /\ Len(rpBody \o RpData(n)) = Len(rpBody) + n
              /\ Numbered(rpBody \o RpData(n), 0) /\ Numbered(rpLeft', Len(rpBody) + n)
              /\ (Len(rpBody) + n) + Len(rpLeft') = Len(rpBody) + Len(rpLeft)
            BY <1>1, <1>2, <1>4, RpCountsMore, Zenon
        <3>2. rpBody' = rpBody \o RpData(n)
            BY <1>4, <2>1, Zenon
        <3> QED BY <3>1, <3>2, Zenon
    <2>3. RpCounts(rpBody)'
        BY <1>1, <1>4, <2>2, Zenon DEF RpCounts
    <2>4. RpTypeOK'
        <3>1. rpLeft' \in Seq(RpByte)
            BY <1>1, <1>4, RpReadFacts, Zenon
        <3> QED BY <1>1, <1>4, <2>2, <3>1, Zenon DEF RpTypeOK
    <2>5. RpPasses' /\ RpBegins' /\ RpCollects' /\ RpInStep'
        BY <1>1, <1>4, <2>3, Zenon DEF RpPasses, RpBegins, RpCollects, RpInStep
    <2>6. RpBodyIsExact'
        BY <1>4, RpSentIsKept, Zenon
    <2> QED BY <1>1, <1>4, <2>4, <2>5, <2>6, Zenon DEF RpInv
<1>5. ASSUME rpPc' = "failed",
             UNCHANGED <<rpLeft, rpBody, rpStatus, rpLength, rpOut, rpEof, rpCase, rpBuffer, rpSize, rpUploaded>>
      PROVE  RpInv'
    <2>1. RpTypeOK'
        BY <1>1, <1>5, Zenon DEF RpTypeOK, RpPcs
    <2>2. RpBodyIsExact' /\ rpEof' = FALSE
        BY <1>1, <1>5, RpSentIsKept, Zenon
    <2> QED BY <1>5, <2>1, <2>2, RpOver, Zenon
<1>6. ASSUME Len(rpBody) >= rpCase.length, rpStatus' = 200, rpLength' = rpCase.length, rpOut' = rpBody,
             rpBody' = <<>>, rpEof' = TRUE, rpPc' = "done",
             UNCHANGED <<rpLeft, rpCase, rpBuffer, rpSize, rpUploaded>>
      PROVE  RpInv'
    <2>1. RpTypeOK'
        BY <1>1, <1>2, <1>6 DEF RpTypeOK, RpPcs
    <2>2. Len(rpBody) = rpCase.size
        BY <1>2, <1>3, <1>6
    <2>3. \A i \in DOMAIN rpBody : rpBody[i].kind = "body" /\ rpBody[i].n = i
        <3>1. \A i \in 1 .. Len(rpBody) : rpBody[i].kind = "body" /\ rpBody[i].n = 0 + i
            BY <1>1, Zenon DEF RpCounts, Numbered
        <3> QED BY <1>2, <3>1
    <2>4. Len(rpBody) <= rpCase.size
        BY <1>2, <2>2
    <2>5. RpBodyIsExact'
        BY <1>1, <1>6, <2>2, <2>3, <2>4, Zenon DEF RpBodyIsExact, RpCounts
    <2> QED BY <1>6, <2>1, <2>5, RpOver, Zenon
<1> QED BY <1>4, <1>5, <1>6, Zenon DEF RpReadBuffered

\* The promise, for a body that is not chunked.
LEMMA RpExactIfCounted ==
    RpTypeOK /\ RpCounts(rpOut) /\ (rpEof => Len(rpOut) = rpCase.size \/ Len(rpOut) < rpLength)
      => RpBodyIsExact
<1> SUFFICES ASSUME RpTypeOK, RpCounts(rpOut), rpEof => Len(rpOut) = rpCase.size \/ Len(rpOut) < rpLength
             PROVE  RpBodyIsExact
    OBVIOUS
<1>1. rpOut \in Seq(RpByte) /\ Len(rpOut) \in Nat /\ Len(rpLeft) \in Nat /\ rpCase.size \in Nat
    BY RpCaseFacts DEF RpTypeOK
<1>2. Numbered(rpOut, 0) /\ Len(rpOut) + Len(rpLeft) <= rpCase.size /\ ~rpCase.chunked
    BY Zenon DEF RpCounts
<1>3. Len(rpOut) <= rpCase.size
    BY <1>1, <1>2
<1>4. \A i \in DOMAIN rpOut : rpOut[i].kind = "body" /\ rpOut[i].n = i
    BY <1>1, <1>2 DEF Numbered
<1> QED BY <1>2, <1>3, <1>4, Zenon DEF RpBodyIsExact

\* The bytes read together with the head are sent first.
LEMMA RpSendFirstInv ==
    ASSUME RpInv, RpSendFirst
    PROVE  RpInv'
<1>1. /\ RpTypeOK /\ rpPc = "first" /\ rpEof = FALSE /\ (RpDecodes => RpCounts(rpBuffer))
      /\ rpStatus' = 200 /\ rpLength' = rpCase.length /\ rpOut' = rpBuffer /\ rpBuffer' = <<>>
      /\ UNCHANGED <<rpCase, rpLeft, rpSize, rpBody, rpEof>>
      /\ rpPc' = IF rpCase.length >= Len(rpBuffer) THEN "fixed" ELSE "pipe"
      /\ rpUploaded' \in {rpUploaded, TRUE}
    BY RpStillOpen, Zenon DEF RpInv, RpPasses, RpSendFirst
<1>2. rpBuffer \in Seq(RpByte) /\ Len(rpBuffer) \in Nat /\ Len(rpLeft) \in Nat /\ rpCase.size \in Nat
    BY <1>1, RpCaseFacts DEF RpTypeOK
<1>3. RpTypeOK'
    <2>1. rpLength' \in Nat \cup {-1}
        BY <1>1, RpCaseFacts
    <2>2. rpUploaded' \in BOOLEAN /\ rpPc' \in RpPcs
        BY <1>1, Zenon DEF RpTypeOK, RpPcs
    <2>3. <<>> \in Seq(RpByte)
        OBVIOUS
    <2> QED BY <1>1, <1>2, <2>1, <2>2, <2>3, Zenon DEF RpTypeOK
<1>4. RpDecodes => RpCounts(rpOut)'
    BY <1>1, Zenon DEF RpCounts
<1>5. RpDecodes' = RpDecodes
    BY <1>1, Zenon DEF RpDecodes
<1>6. rpPc' = "fixed" => rpCase.length # -1 /\ RpDecodes
    BY <1>1, <1>2, RpCaseFacts DEF RpDecodes
<1>7. rpPc' = "pipe" /\ RpDecodes => rpCase.length = -1
    <2>1. RpDecodes => Len(rpBuffer) <= rpCase.size
        BY <1>1, <1>2 DEF RpCounts
    <2>2. rpPc' = "pipe" => ~(rpCase.length >= Len(rpBuffer))
        BY <1>1, Zenon
    <2> QED BY <1>1, <1>2, <2>1, <2>2, RpCaseFacts
<1>8. RpBodyIsExact'
    <2>1. CASE RpDecodes
        <3>1. (rpEof => Len(rpOut) = rpCase.size \/ Len(rpOut) < rpLength)' /\ RpCounts(rpOut)'
            BY <1>1, <1>4, <2>1, Zenon
        <3> QED BY <1>3, <3>1, RpExactIfCounted, PTL
    <2>2. CASE ~RpDecodes
        BY <1>5, <2>2, Zenon DEF RpBodyIsExact, RpDecodes
    <2> QED BY <2>1, <2>2, Zenon
<1>9. RpPasses'
    BY <1>1, <1>4, <1>5, <1>6, <1>7, Zenon DEF RpPasses
<1>10. RpBegins' /\ RpCollects' /\ RpInStep'
    BY <1>1, Zenon DEF RpBegins, RpCollects, RpInStep
<1> QED BY <1>1, <1>3, <1>8, <1>9, <1>10, Zenon DEF RpInv

\* A body of announced length is passed on as it is read.
LEMMA RpReadFixedInv ==
    ASSUME RpInv, RpReadFixed
    PROVE  RpInv'
<1>1. /\ RpTypeOK /\ rpPc = "fixed" /\ rpEof = FALSE /\ RpCounts(rpOut) /\ rpCase.length # -1
      /\ rpLength = rpCase.length
      /\ UNCHANGED <<rpCase, rpBuffer, rpSize, rpBody, rpStatus, rpLength, rpUploaded>>
    BY RpStillOpen, Zenon DEF RpInv, RpPasses, RpReadFixed
<1>2. /\ rpOut \in Seq(RpByte) /\ Len(rpOut) \in Nat /\ Len(rpLeft) \in Nat
      /\ rpCase.size \in Nat /\ rpCase.length = rpCase.size
    BY <1>1, RpCaseFacts DEF RpTypeOK
<1>3. Len(rpOut) + Len(rpLeft) <= rpCase.size
    BY <1>1, Zenon DEF RpCounts
<1>4. ASSUME NEW n \in RpReads, RpTakes(n), rpOut' = rpOut \o RpToTake(n, Len(rpOut)),
             UNCHANGED <<rpPc, rpEof>>
      PROVE  RpInv'
    <2>1. RpToTake(n, Len(rpOut)) = RpData(n)
        BY <1>1, <1>2, <1>3, <1>4, RpTakesAll, Zenon
    <2>2. /\ rpOut' \in Seq(RpByte) /\ Numbered(rpOut', 0) /\ Numbered(rpLeft', Len(rpOut'))
          /\ Len(rpOut') + Len(rpLeft') = Len(rpOut) + Len(rpLeft)
        <3>1. /\ rpOut \o RpData(n) \in Seq(RpByte) /\ Len(rpOut \o RpData(n)) = Len(rpOut) + n
              /\ Numbered(rpOut \o RpData(n), 0) /\ Numbered(rpLeft', Len(rpOut) + n)
              /\ (Len(rpOut) + n) + Len(rpLeft') = Len(rpOut) + Len(rpLeft)
            BY <1>1, <1>2, <1>4, RpCountsMore, Zenon
        <3>2. rpOut' = rpOut \o RpData(n)
            BY <1>4, <2>1, Zenon
        <3> QED BY <3>1, <3>2, Zenon
    <2>3. RpCounts(rpOut)'
        BY <1>1, <1>4, <2>2, Zenon DEF RpCounts
    <2>4. RpTypeOK'
        <3>1. rpLeft' \in Seq(RpByte)
            BY <1>1, <1>4, RpReadFacts, Zenon
        <3> QED BY <1>1, <1>4, <2>2, <3>1, Zenon DEF RpTypeOK
    <2>5. RpPasses' /\ RpBegins' /\ RpCollects' /\ RpInStep'
        BY <1>1, <1>4, <2>3, Zenon DEF RpPasses, RpBegins, RpCollects, RpInStep
    <2>6. (rpEof => Len(rpOut) = rpCase.size \/ Len(rpOut) < rpLength)'
        BY <1>1, <1>4, Zenon
    <2>7. RpBodyIsExact'
        BY <2>3, <2>4, <2>6, RpExactIfCounted, PTL
    <2> QED BY <1>1, <1>4, <2>4, <2>5, <2>7, Zenon DEF RpInv
<1>5. ASSUME Len(rpOut) < rpCase.length \/ Len(rpOut) = rpCase.length,
             rpEof' = TRUE, rpPc' = "done", UNCHANGED <<rpLeft, rpOut>>
      PROVE  RpInv'
    <2>1. RpTypeOK'
        BY <1>1, <1>5, Zenon DEF RpTypeOK, RpPcs
    <2>2. (rpEof => Len(rpOut) = rpCase.size \/ Len(rpOut) < rpLength)'
        BY <1>1, <1>2, <1>5, Zenon
    <2>3. RpCounts(rpOut)'
        BY <1>1, <1>5, Zenon DEF RpCounts
    <2>4. RpBodyIsExact'
        BY <2>1, <2>2, <2>3, RpExactIfCounted, PTL
    <2> QED BY <1>5, <2>1, <2>4, RpOver, Zenon
<1> QED BY <1>4, <1>5, Zenon DEF RpReadFixed

\* A body that ends with the connection is passed on as it is read.
LEMMA RpPipeInv ==
    ASSUME RpInv, RpPipe
    PROVE  RpInv'
<1>1. /\ RpTypeOK /\ rpPc = "pipe" /\ rpEof = FALSE
      /\ RpDecodes => RpCounts(rpOut) /\ rpCase.length = -1
      /\ UNCHANGED <<rpCase, rpBuffer, rpSize, rpBody, rpStatus, rpLength, rpUploaded>>
    BY RpStillOpen, Zenon DEF RpInv, RpPasses, RpPipe
<1>2. rpOut \in Seq(RpByte) /\ Len(rpOut) \in Nat /\ Len(rpLeft) \in Nat /\ rpCase.size \in Nat
    BY <1>1, RpCaseFacts DEF RpTypeOK
<1>3. (RpDecodes' = RpDecodes) /\ (~RpDecodes => RpBodyIsExact')
    BY <1>1, Zenon DEF RpDecodes, RpBodyIsExact
<1>4. ASSUME NEW n \in RpReads, RpTakes(n), rpOut' = rpOut \o RpData(n), UNCHANGED <<rpPc, rpEof>>
      PROVE  RpInv'
    <2>1. rpOut' \in Seq(RpByte)
        <3>1. RpData(n) \in Seq(RpByte)
            BY <1>1, <1>4, RpReadFacts, Zenon
        <3> QED BY <1>2, <1>4, <3>1, Joined, Zenon
    <2>2. RpTypeOK'
        <3>1. rpLeft' \in Seq(RpByte)
            BY <1>1, <1>4, RpReadFacts, Zenon
        <3> QED BY <1>1, <1>4, <2>1, <3>1, Zenon DEF RpTypeOK
    <2>3. RpDecodes => RpCounts(rpOut)'
        <3> SUFFICES ASSUME RpDecodes PROVE RpCounts(rpOut)'
            OBVIOUS
        <3>1. /\ Len(rpOut \o RpData(n)) = Len(rpOut) + n
              /\ Numbered(rpOut \o RpData(n), 0) /\ Numbered(rpLeft', Len(rpOut) + n)
              /\ (Len(rpOut) + n) + Len(rpLeft') = Len(rpOut) + Len(rpLeft)
            BY <1>1, <1>2, <1>4, RpCountsMore, Zenon
        <3>2. /\ Numbered(rpOut', 0) /\ Numbered(rpLeft', Len(rpOut'))
              /\ Len(rpOut') + Len(rpLeft') = Len(rpOut) + Len(rpLeft)
            BY <1>4, <3>1, Zenon
        <3> QED BY <1>1, <1>4, <3>2, Zenon DEF RpCounts
    <2>4. RpPasses' /\ RpBegins' /\ RpCollects' /\ RpInStep'
        BY <1>1, <1>3, <1>4, <2>3, Zenon DEF RpPasses, RpBegins, RpCollects, RpInStep
    <2>5. RpBodyIsExact'
        <3>1. (rpEof => Len(rpOut) = rpCase.size \/ Len(rpOut) < rpLength)'
            BY <1>1, <1>4, Zenon
        <3>2. RpDecodes => RpBodyIsExact'
            BY <2>2, <2>3, <3>1, RpExactIfCounted, PTL
        <3> QED BY <1>3, <3>2, Zenon
    <2> QED BY <1>1, <1>4, <2>2, <2>4, <2>5, Zenon DEF RpInv
<1>5. ASSUME rpLeft = <<>>, rpEof' = TRUE, rpPc' = "done", UNCHANGED <<rpLeft, rpOut>>
      PROVE  RpInv'
    <2>1. RpTypeOK'
        BY <1>1, <1>5, Zenon DEF RpTypeOK, RpPcs
    <2>2. RpDecodes => Len(rpOut) = rpCase.size
        BY <1>1, <1>2, <1>5 DEF RpCounts
    <2>3. RpDecodes => (rpEof => Len(rpOut) = rpCase.size \/ Len(rpOut) < rpLength)'
        BY <1>1, <1>5, <2>2, Zenon
    <2>4. RpDecodes => RpCounts(rpOut)'
        BY <1>1, <1>5, Zenon DEF RpCounts
    <2>5. RpDecodes => RpBodyIsExact'
        BY <2>1, <2>3, <2>4, RpExactIfCounted, PTL
    <2> QED BY <1>3, <1>5, <2>1, <2>5, RpOver, Zenon
<1>6. ASSUME rpPc' = "failed", UNCHANGED <<rpLeft, rpOut, rpEof>>
      PROVE  RpInv'
    <2>1. RpTypeOK'
        BY <1>1, <1>6, Zenon DEF RpTypeOK, RpPcs
    <2>2. RpBodyIsExact' /\ rpEof' = FALSE
        BY <1>1, <1>6, RpSentIsKept, Zenon
    <2> QED BY <1>6, <2>1, <2>2, RpOver, Zenon
<1> QED BY <1>4, <1>5, <1>6, Zenon DEF RpPipe, RpAtEof

\* What stands behind the head's end.
LEMMA RpBehindHead ==
    ASSUME RpTypeOK, NEW p \in 1 .. Len(rpCase.bytes), rpCase.bytes[p].kind = "end"
    PROVE  /\ rpCase.chunked => RpSizeAt(rpCase.bytes, p + 1, 0)
           /\ ~rpCase.chunked => /\ RpBodyBehind(rpCase.bytes, p, Len(rpCase.bytes) - p, 0)
                                 /\ rpCase.length = -1 => Len(rpCase.bytes) - p = rpCase.size
<1>1. p \in DOMAIN rpCase.bytes /\ RpExchange(rpCase)
    BY RpCaseFacts
<1> QED BY <1>1, Zenon DEF RpExchange

\* Behind the head, the decoder stands at a size line or at the body.
LEMMA RpReadHeadInv ==
    ASSUME RpInv, RpReadHead
    PROVE  RpInv'
<1>1. /\ RpTypeOK /\ rpPc = "head" /\ rpEof = FALSE /\ RpAhead = rpCase.bytes /\ rpBody = <<>>
      /\ rpOut = <<>> /\ rpStatus = 0 /\ rpLength = -1
      /\ UNCHANGED <<rpCase, rpSize, rpOut, rpLength, rpUploaded>>
    BY RpStillOpen, Zenon DEF RpInv, RpBegins, RpReadHead
<1>2. ASSUME NEW n \in RpReads, RpTakes(n), rpBuffer' = rpBuffer \o RpData(n),
             UNCHANGED <<rpPc, rpBody, rpStatus, rpEof>>
      PROVE  RpInv'
    <2>1. rpLeft' \in Seq(RpByte) /\ rpBuffer' \in Seq(RpByte) /\ RpAhead' = RpAhead
        BY <1>1, <1>2, RpReadFacts, RpReadKeepsAhead, Zenon DEF RpAhead
    <2>2. RpTypeOK'
        BY <1>1, <1>2, <2>1, Zenon DEF RpTypeOK
    <2>3. RpBegins' /\ RpCollects' /\ RpInStep' /\ RpPasses'
        BY <1>1, <1>2, <2>1, Zenon DEF RpBegins, RpCollects, RpInStep, RpPasses
    <2>4. RpBodyIsExact'
        BY <1>1, <1>2, RpSentIsKept, Zenon
    <2> QED BY <1>1, <1>2, <2>2, <2>3, <2>4, Zenon DEF RpInv
<1>3. ASSUME NEW n \in RpReads, RpTakes(n), NEW p \in DOMAIN (rpBuffer \o RpData(n)),
             (rpBuffer \o RpData(n))[p].kind = "end", rpPc' = RpMode,
             rpBuffer' = IF RpMode = "buffer" THEN <<>>
                         ELSE SubSeq(rpBuffer \o RpData(n), p + 1, Len(rpBuffer \o RpData(n))),
             rpBody' = IF RpMode = "buffer" THEN SubSeq(rpBuffer \o RpData(n), p + 1, Len(rpBuffer \o RpData(n)))
                       ELSE <<>>,
             UNCHANGED <<rpStatus, rpEof>>
      PROVE  RpInv'
    <2> DEFINE all == rpBuffer \o RpData(n)
               tail == SubSeq(all, p + 1, Len(all))
               b == rpCase.bytes
    <2>1. /\ all \in Seq(RpByte) /\ all \o rpLeft' = b /\ rpLeft' \in Seq(RpByte)
          /\ b \in Seq(RpByte) /\ rpCase.size \in Nat
        BY <1>1, <1>3, RpReadFacts, RpReadKeepsAhead, RpCaseFacts, Zenon
    <2>2. p \in DOMAIN all /\ all[p].kind = "end"
        BY <1>3, Zenon
    <2> HIDE DEF all, b
    <2>3. /\ Len(all) \in Nat /\ Len(rpLeft') \in Nat /\ Len(b) = Len(all) + Len(rpLeft')
          /\ p \in 0 .. Len(all) /\ p \in 1 .. Len(b) /\ all[p] = b[p]
        BY <2>1, <2>2
    <2>4. tail \in Seq(RpByte) /\ Len(tail) = Len(all) - p
        BY <2>1, <2>3, CutTail, Zenon
    <2>5. tail \o rpLeft' = SubSeq(b, p + 1, Len(b)) /\ p \in 0 .. Len(b)
        BY <2>1, <2>3, DropsFront, Zenon
    <2>6. /\ tail \o rpLeft' \in Seq(RpByte) /\ Len(tail \o rpLeft') = Len(b) - p
          /\ RunOf(tail \o rpLeft', b, p)
        <3>1. /\ SubSeq(b, p + 1, Len(b)) \in Seq(RpByte) /\ Len(SubSeq(b, p + 1, Len(b))) = Len(b) - p
              /\ \A i \in 1 .. Len(b) - p : SubSeq(b, p + 1, Len(b))[i] = b[p + i]
            BY <2>1, <2>5, CutTail, Zenon
        <3>2. RunOf(SubSeq(b, p + 1, Len(b)), b, p)
            BY <3>1 DEF RunOf
        <3> QED BY <2>5, <3>1, <3>2, Zenon
    <2>7. Len(tail) + Len(rpLeft') = Len(b) - p
        <3>1. Len(tail \o rpLeft') = Len(tail) + Len(rpLeft')
            BY <2>1, <2>4, Joined, Zenon
        <3> QED BY <2>6, <3>1, Zenon
    <2>8. /\ rpCase.chunked => RpSizeAt(b, p + 1, 0)
          /\ ~rpCase.chunked => /\ RpBodyBehind(b, p, Len(b) - p, 0)
                                /\ rpCase.length = -1 => Len(b) - p = rpCase.size
        BY <1>1, <2>2, <2>3, RpBehindHead, Zenon DEF b
    <2>9. ~rpCase.chunked =>
             /\ Numbered(tail, 0) /\ Numbered(rpLeft', Len(tail)) /\ Len(tail) + Len(rpLeft') <= rpCase.size
             /\ rpCase.length = -1 => Len(tail) + Len(rpLeft') = rpCase.size
        <3> SUFFICES ASSUME ~rpCase.chunked
                     PROVE  /\ Numbered(tail, 0) /\ Numbered(rpLeft', Len(tail)) /\ Len(b) - p <= rpCase.size
            BY <2>7, <2>8, Zenon
        <3> HIDE DEF tail
        <3>1. \A i \in 1 .. Len(b) - p : p + i <= Len(b)
            BY <2>3
        <3>2. Numbered(tail \o rpLeft', 0)
            BY <2>6, <2>8, <3>1, Zenon DEF Numbered, RunOf, RpBodyBehind
        <3>3. 0 \in Nat /\ 0 + Len(tail) = Len(tail) /\ 0 + (Len(b) - p) = Len(b) - p
              /\ p \in Int /\ p >= 0 /\ p + (Len(b) - p) <= Len(b) /\ 0 <= rpCase.size
            BY <2>1, <2>3, <2>4, SMTT(30)
        <3>4. Numbered(tail, 0) /\ Numbered(rpLeft', Len(tail))
            <4>1. Numbered(tail, 0) /\ Numbered(rpLeft', 0 + Len(tail))
                BY <2>1, <2>4, <3>2, <3>3, NumberedSplit, Zenon
            <4> QED BY <3>3, <4>1, Zenon
        <3>5. 0 + Len(tail \o rpLeft') <= rpCase.size
            BY <1>1, <2>6, <3>2, <3>3, RpWithinSize, Zenon DEF b
        <3> QED BY <2>6, <3>3, <3>4, <3>5, Zenon
    <2>10. /\ rpBuffer' = IF RpMode = "buffer" THEN <<>> ELSE tail
           /\ rpBody' = IF RpMode = "buffer" THEN tail ELSE <<>>
        BY <1>3, Zenon DEF all
    <2> HIDE DEF tail
    <2>11. RpTypeOK'
        <3>1. <<>> \in Seq(RpByte) /\ RpMode \in RpPcs
            BY DEF RpMode, RpPcs
        <3>2. rpBuffer' \in Seq(RpByte) /\ rpBody' \in Seq(RpByte)
            BY <2>4, <2>10, <3>1, Zenon
        <3>3. rpPc' \in RpPcs
            BY <1>3, <3>1, Zenon
        <3> QED BY <1>1, <1>3, <2>1, <3>2, <3>3, Zenon DEF RpTypeOK
    <2>12. RpBodyIsExact'
        BY <1>1, <1>3, RpSentIsKept, Zenon
    <2>13. CASE RpMode = "buffer"
        <3>1. ~rpCase.chunked /\ rpCase.length # -1
            BY <1>1, <2>13, RpCaseFacts, ReverseProxyAssumption DEF RpMode
        <3>2. RpCounts(rpBody)'
            BY <1>1, <2>9, <2>10, <2>13, <3>1, Zenon DEF RpCounts
        <3>3. RpPasses' /\ RpBegins' /\ RpCollects' /\ RpInStep'
            BY <1>1, <1>3, <2>13, <3>1, <3>2, Zenon DEF RpPasses, RpBegins, RpCollects, RpInStep
        <3> QED BY <1>1, <1>3, <2>11, <2>12, <3>3, Zenon DEF RpInv
    <2>14. CASE RpMode = "first"
        <3>1. RpDecodes' => ~rpCase.chunked
            BY <1>1, <2>14 DEF RpMode, RpDecodes
        <3>2. RpDecodes' => RpCounts(rpBuffer)'
            BY <1>1, <2>9, <2>10, <2>14, <3>1, Zenon DEF RpCounts
        <3>3. RpPasses' /\ RpBegins' /\ RpCollects' /\ RpInStep'
            BY <1>1, <1>3, <2>14, <3>2, Zenon DEF RpPasses, RpBegins, RpCollects, RpInStep
        <3> QED BY <1>1, <1>3, <2>11, <2>12, <3>3, Zenon DEF RpInv
    <2>15. CASE RpMode = "size"
        <3>1. rpCase.chunked
            BY <2>15, Zenon DEF RpMode
        <3>2. RpAhead' = tail \o rpLeft'
            BY <2>10, <2>15, Zenon DEF RpAhead
        <3>3. Len(b) - (Len(b) - p) = p /\ p >= 0
            BY <2>3
        <3>4. RpFrom' = p
            BY <1>1, <2>6, <3>2, <3>3, Zenon DEF RpFrom, b
        <3>5. rpOut' \o rpBody' = <<>> /\ Len(<<>>) = 0 /\ 0 <= rpCase.size
            BY <1>1, <2>1, <2>10, <2>15
        <3>6. Numbered(<<>>, 0)
            BY DEF Numbered
        <3>7. RpCollects'
            BY <1>1, <1>3, <2>10, <2>15, <3>1, <3>5, <3>6, Zenon DEF RpCollects
        <3>8. RpInStep'
            BY <1>1, <1>3, <2>6, <2>8, <2>15, <3>1, <3>2, <3>3, <3>4, <3>5, Zenon DEF RpInStep, b
        <3>9. RpPasses' /\ RpBegins'
            BY <1>3, <2>15, Zenon DEF RpPasses, RpBegins
        <3> QED BY <1>1, <1>3, <2>11, <2>12, <3>7, <3>8, <3>9, Zenon DEF RpInv
    <2>16. RpMode \in {"buffer", "first", "size"}
        BY Zenon DEF RpMode
    <2> QED BY <2>13, <2>14, <2>15, <2>16, Zenon
<1>4. ASSUME RpBadGateway, UNCHANGED <<rpLeft, rpBuffer, rpBody>>
      PROVE  RpInv'
    <2>1. RpTypeOK' /\ RpBodyIsExact'
        BY <1>1, <1>4 DEF RpBadGateway, RpTypeOK, RpPcs, RpBodyIsExact
    <2> QED BY <1>4, <2>1, RpOver, Zenon DEF RpBadGateway
<1> QED BY <1>2, <1>3, <1>4, Zenon DEF RpReadHead

\* need_more leaves the decoder where it is.
LEMMA RpNeedMoreInv ==
    ASSUME RpInv, rpPc \in {"size", "chunk", "trailers"}, RpNeedMore,
           UNCHANGED <<rpCase, rpSize, rpBody, rpOut, rpStatus, rpLength, rpEof, rpUploaded>>
    PROVE  RpInv'
<1>1. PICK n \in RpReads : RpTakes(n) /\ rpBuffer' = rpBuffer \o RpData(n)
    BY Zenon DEF RpNeedMore
<1>2. RpTypeOK /\ rpEof = FALSE /\ rpPc' = rpPc
    BY RpStillOpen, Zenon DEF RpInv, RpNeedMore
<1>3. rpLeft' \in Seq(RpByte) /\ rpBuffer' \in Seq(RpByte) /\ RpAhead' = RpAhead
    BY <1>1, <1>2, RpReadFacts, RpReadKeepsAhead, Zenon DEF RpAhead
<1>4. RpTypeOK'
    BY <1>2, <1>3, Zenon DEF RpTypeOK
<1>5. RpBodyIsExact'
    BY RpSentIsKept, Zenon
<1>6. RpCollects'
    BY <1>2, Zenon DEF RpInv, RpCollects
<1>7. RpInStep'
    <2>1. RpFrom' = RpFrom
        BY <1>3, Zenon DEF RpFrom
    <2> QED BY <1>2, <1>3, <2>1, Zenon DEF RpInv, RpInStep
<1>8. RpBegins' /\ RpPasses'
    BY <1>2, Zenon DEF RpBegins, RpPasses
<1> QED BY <1>2, <1>4, <1>5, <1>6, <1>7, <1>8, Zenon DEF RpInv

\* The end of a chunked body: all of it has been decoded.
LEMMA RpFinishChunkedInv ==
    ASSUME RpInv, rpPc \in {"size", "trailers"}, Len(rpOut \o rpBody) = rpCase.size, RpFinishChunked,
           UNCHANGED <<rpCase, rpLeft, rpUploaded>>, rpBuffer' \in Seq(RpByte), rpSize' \in Nat
    PROVE  RpInv'
<1>1. /\ RpTypeOK /\ rpLength = -1 /\ Numbered(rpOut \o rpBody, 0) /\ (rpStatus = 0 => rpOut = <<>>)
      /\ rpStatus' = 200 /\ rpLength' = IF rpStatus = 0 THEN Len(rpBody) ELSE rpLength
      /\ rpOut' = rpOut \o rpBody /\ rpBody' = <<>> /\ rpEof' = TRUE /\ rpPc' = "done"
    BY Zenon DEF RpInv, RpCollects, RpFinishChunked
<1>2. /\ rpOut \in Seq(RpByte) /\ rpBody \in Seq(RpByte) /\ rpOut \o rpBody \in Seq(RpByte)
      /\ Len(rpBody) \in Nat /\ <<>> \in Seq(RpByte) /\ rpCase.size \in Nat /\ rpCase.size <= rpCase.size
    BY <1>1, RpCaseFacts DEF RpTypeOK
<1>3. rpLength' \in Nat \cup {-1}
    BY <1>1, <1>2
<1>4. RpTypeOK'
    <2>1. rpEof' \in BOOLEAN /\ rpPc' \in RpPcs /\ rpStatus' \in {0, 200, 502}
        BY <1>1, Zenon DEF RpPcs
    <2>2. rpCase' \in RpExchanges /\ rpLeft' \in Seq(RpByte) /\ rpUploaded' \in BOOLEAN
        BY <1>1, Zenon DEF RpTypeOK
    <2> QED BY <1>1, <1>2, <1>3, <2>1, <2>2, Zenon DEF RpTypeOK
<1>5. rpLength' # -1 => rpLength' = rpCase.size
    <2>1. rpOut = <<>> => Len(rpOut \o rpBody) = Len(rpBody)
        BY <1>2
    <2> QED BY <1>1, <2>1, Zenon
<1>6. \A i \in DOMAIN (rpOut \o rpBody) : (rpOut \o rpBody)[i].kind = "body" /\ (rpOut \o rpBody)[i].n = i
    <2> DEFINE s == rpOut \o rpBody
    <2>1. s \in Seq(RpByte) /\ \A i \in 1 .. Len(s) : s[i].kind = "body" /\ s[i].n = 0 + i
        BY <1>1, <1>2, Zenon DEF Numbered
    <2> HIDE DEF s
    <2>2. \A i \in DOMAIN s : s[i].kind = "body" /\ s[i].n = i
        BY <2>1
    <2> QED BY <2>2, Zenon DEF s
<1>7. RpBodyIsExact'
    BY <1>1, <1>2, <1>5, <1>6, Zenon DEF RpBodyIsExact
<1> QED BY <1>1, <1>4, <1>7, RpOver, Zenon

\* The trailers behind the last chunk end the response.
LEMMA RpReadTrailersInv ==
    ASSUME RpInv, RpReadTrailers
    PROVE  RpInv'
<1>1. rpPc = "trailers" /\ UNCHANGED <<rpCase, rpSize, rpUploaded>>
    BY Zenon DEF RpReadTrailers
<1>2. rpBuffer \in Seq(RpByte) /\ rpSize \in Nat /\ Len(rpOut \o rpBody) = rpCase.size
    BY <1>1, Zenon DEF RpInv, RpTypeOK, RpCollects
<1>3. ASSUME RpFinishChunked, UNCHANGED <<rpLeft, rpBuffer>>
      PROVE  RpInv'
    BY <1>1, <1>2, <1>3, RpFinishChunkedInv, Zenon
<1>4. ASSUME RpNeedMore, UNCHANGED <<rpBody, rpOut, rpStatus, rpLength, rpEof>>
      PROVE  RpInv'
    BY <1>1, <1>4, RpNeedMoreInv, Zenon
<1> QED BY <1>3, <1>4, Zenon DEF RpReadTrailers

\* What the decoder knows of the bytes ahead.
LEMMA RpDecoderFacts ==
    ASSUME RpInv, rpPc \in {"size", "chunk"}
    PROVE  /\ RpTypeOK /\ rpEof = FALSE /\ rpCase.chunked /\ rpLength = -1 /\ rpStatus \in {0, 200}
           /\ (rpStatus = 0 => rpOut = <<>>) /\ (rpStatus = 200 => rpBody = <<>>)
           /\ rpBuffer \in Seq(RpByte) /\ rpLeft \in Seq(RpByte)
           /\ rpBody \in Seq(RpByte) /\ rpOut \in Seq(RpByte) /\ rpOut \o rpBody \in Seq(RpByte)
           /\ Numbered(rpOut \o rpBody, 0) /\ Len(rpOut \o rpBody) <= rpCase.size
           /\ Len(rpOut \o rpBody) \in Nat /\ rpCase.size \in Nat
           /\ RpAhead \in Seq(RpByte) /\ RunOf(RpAhead, rpCase.bytes, RpFrom)
           /\ RpFrom \in Nat /\ RpFrom + Len(RpAhead) = Len(rpCase.bytes) /\ Len(rpCase.bytes) \in Nat
           /\ \A i \in 1 .. Len(rpBuffer) : /\ RpFrom + i \in 1 .. Len(rpCase.bytes)
                                             /\ rpBuffer[i] = rpCase.bytes[RpFrom + i]
<1>1. /\ RpTypeOK /\ rpEof = FALSE /\ rpCase.chunked /\ rpLength = -1 /\ rpStatus \in {0, 200}
      /\ (rpStatus = 0 => rpOut = <<>>) /\ (rpStatus = 200 => rpBody = <<>>)
      /\ Numbered(rpOut \o rpBody, 0) /\ Len(rpOut \o rpBody) <= rpCase.size
    BY RpStillOpen, Zenon DEF RpInv, RpCollects
<1>2. /\ rpBuffer \in Seq(RpByte) /\ rpLeft \in Seq(RpByte)
      /\ rpBody \in Seq(RpByte) /\ rpOut \in Seq(RpByte)
    BY <1>1, Zenon DEF RpTypeOK
<1>3. /\ rpOut \o rpBody \in Seq(RpByte) /\ Len(rpOut \o rpBody) \in Nat
      /\ RpAhead \in Seq(RpByte) /\ Len(RpAhead) \in Nat /\ Len(RpAhead) = Len(rpBuffer) + Len(rpLeft)
      /\ Len(rpBuffer) \in Nat /\ Len(rpLeft) \in Nat
      /\ \A i \in 1 .. Len(rpBuffer) : i \in 1 .. Len(RpAhead) /\ RpAhead[i] = rpBuffer[i]
    BY <1>2 DEF RpAhead
<1>4. rpCase.size \in Nat /\ Len(rpCase.bytes) \in Nat
    BY <1>1, RpCaseFacts, Zenon
<1>5. RunOf(RpAhead, rpCase.bytes, RpFrom) /\ RpFrom >= 0
    BY Zenon DEF RpInv, RpInStep
<1>6. RpFrom = Len(rpCase.bytes) - Len(RpAhead)
    BY Zenon DEF RpFrom
<1>7. RpFrom \in Nat /\ RpFrom + Len(RpAhead) = Len(rpCase.bytes)
    <2>1. \A a, l \in Nat : a - l >= 0 => a - l \in Nat /\ (a - l) + l = a
        OBVIOUS
    <2> QED BY <1>3, <1>4, <1>5, <1>6, <2>1, Zenon
<1>8. \A i \in 1 .. Len(rpBuffer) : RpFrom + i \in 1 .. Len(rpCase.bytes)
    BY <1>3, <1>4, <1>7
<1>9. \A i \in 1 .. Len(rpBuffer) : rpBuffer[i] = rpCase.bytes[RpFrom + i]
    BY <1>3, <1>5, Zenon DEF RunOf
<1> QED BY <1>1, <1>2, <1>3, <1>4, <1>5, <1>7, <1>8, <1>9, Zenon

\* The decoder takes the first n bytes of its buffer.
LEMMA RpStepsForward ==
    ASSUME RpInv, rpPc \in {"size", "chunk"}, NEW n \in 0 .. Len(rpBuffer),
           rpBuffer' = SubSeq(rpBuffer, n + 1, Len(rpBuffer)), UNCHANGED <<rpCase, rpLeft>>
    PROVE  /\ rpBuffer' \in Seq(RpByte)
           /\ RpFrom' = RpFrom + n /\ RpFrom' >= 0 /\ RunOf(RpAhead, rpCase.bytes, RpFrom)'
<1>1. /\ rpBuffer \in Seq(RpByte) /\ rpLeft \in Seq(RpByte) /\ RpAhead \in Seq(RpByte)
      /\ RunOf(RpAhead, rpCase.bytes, RpFrom) /\ RpFrom \in Nat /\ Len(rpCase.bytes) \in Nat
      /\ RpFrom + Len(RpAhead) = Len(rpCase.bytes)
    BY RpDecoderFacts, Zenon
<1>2. rpBuffer' \in Seq(RpByte)
    BY <1>1, CutTail, Zenon
<1>3. n \in 0 .. Len(RpAhead) /\ RpAhead' = SubSeq(RpAhead, n + 1, Len(RpAhead))
    BY <1>1, DropsFront, Zenon DEF RpAhead
<1>4. Len(RpAhead') = Len(RpAhead) - n
    BY <1>1, <1>3, CutTail, Zenon
<1>5. /\ Len(rpCase.bytes) - (Len(RpAhead) - n) = RpFrom + n /\ RpFrom + n >= 0 /\ RpFrom \in Int
    <2>1. \A f, l, a \in Nat : \A k \in 0 .. l : f + l = a => a - (l - k) = f + k /\ f + k >= 0 /\ f \in Int
        OBVIOUS
    <2>2. Len(RpAhead) \in Nat
        BY <1>1
    <2> QED BY <1>1, <1>3, <2>1, <2>2, Zenon
<1>6. RpFrom' = RpFrom + n
    BY <1>4, <1>5, Zenon DEF RpFrom
<1>7. RunOf(SubSeq(RpAhead, n + 1, Len(RpAhead)), rpCase.bytes, RpFrom + n)
    BY <1>1, <1>3, <1>5, RunCut, Zenon
<1> QED BY <1>2, <1>3, <1>5, <1>6, <1>7, Zenon

\* What stands behind a chunk's size.
LEMMA RpBehindSize ==
    ASSUME RpTypeOK, NEW p \in 1 .. Len(rpCase.bytes), rpCase.bytes[p].kind = "size"
    PROVE  /\ RpLineEndsAt(rpCase.bytes, p + 1) /\ rpCase.bytes[p].n \in Nat
           /\ rpCase.bytes[p].n = 0 => rpCase.bytes[p].at = rpCase.size
           /\ rpCase.bytes[p].n # 0 =>
                /\ RpBodyBehind(rpCase.bytes, p + 1, rpCase.bytes[p].n, rpCase.bytes[p].at)
                /\ RpSizeAt(rpCase.bytes, p + rpCase.bytes[p].n + 3, rpCase.bytes[p].at + rpCase.bytes[p].n)
<1>1. p \in DOMAIN rpCase.bytes /\ RpExchange(rpCase) /\ rpCase.bytes[p] \in RpByte
    BY RpCaseFacts
<1>2. rpCase.bytes[p].n \in Nat
    BY <1>1 DEF RpByte
<1> QED BY <1>1, <1>2, Zenon DEF RpExchange

\* A size line: a chunk of that size follows, or the trailers.
LEMMA RpReadSizeInv ==
    ASSUME RpInv, RpReadSize
    PROVE  RpInv'
<1>1. rpPc = "size" /\ UNCHANGED <<rpCase, rpUploaded>>
    BY Zenon DEF RpReadSize
<1>2. ASSUME RpNeedMore, UNCHANGED <<rpSize, rpBody, rpOut, rpStatus, rpLength, rpEof>>
      PROVE  RpInv'
    BY <1>1, <1>2, RpNeedMoreInv, Zenon
<1>3. ASSUME rpPc' = "failed",
             UNCHANGED <<rpLeft, rpBuffer, rpSize, rpBody, rpOut, rpStatus, rpLength, rpEof>>
      PROVE  RpInv'
    <2>1. RpFails
        BY <1>1, <1>3, Zenon DEF RpFails
    <2> QED BY <2>1, RpMovesInv, Zenon
<1>4. ASSUME NEW p \in DOMAIN rpBuffer, p > 1, rpBuffer[p].kind = "nl",
             \A i \in 1 .. p - 1 : rpBuffer[i].kind # "nl",
             rpSize' = rpBuffer[1].n, UNCHANGED rpLeft,
             IF rpSize' = 0 /\ SubSeq(rpBuffer, p + 1, Len(rpBuffer)) # <<>>
                  /\ SubSeq(rpBuffer, p + 1, Len(rpBuffer))[1].kind = "nl"
             THEN /\ rpBuffer' = SubSeq(SubSeq(rpBuffer, p + 1, Len(rpBuffer)), 2,
                                        Len(SubSeq(rpBuffer, p + 1, Len(rpBuffer))))
                  /\ RpFinishChunked
             ELSE /\ rpBuffer' = SubSeq(rpBuffer, p + 1, Len(rpBuffer))
                  /\ rpPc' = IF rpSize' = 0 THEN "trailers" ELSE "chunk"
                  /\ UNCHANGED <<rpBody, rpOut, rpStatus, rpLength, rpEof>>
      PROVE  RpInv'
    <2> DEFINE b == rpCase.bytes
               f == RpFrom
               at == Len(rpOut \o rpBody)
               rest == SubSeq(rpBuffer, p + 1, Len(rpBuffer))
    <2>1. /\ RpTypeOK /\ rpEof = FALSE /\ rpCase.chunked /\ rpLength = -1 /\ rpStatus \in {0, 200}
          /\ (rpStatus = 0 => rpOut = <<>>) /\ (rpStatus = 200 => rpBody = <<>>)
          /\ rpBuffer \in Seq(RpByte) /\ Numbered(rpOut \o rpBody, 0) /\ at <= rpCase.size
          /\ at \in Nat /\ rpCase.size \in Nat /\ f \in Nat /\ Len(b) \in Nat
          /\ \A i \in 1 .. Len(rpBuffer) : f + i \in 1 .. Len(b) /\ rpBuffer[i] = b[f + i]
        BY <1>1, RpDecoderFacts, Zenon
    <2>2. RpSizeAt(b, f + 1, at)
        BY <1>1, Zenon DEF RpInv, RpInStep
    <2>3. Len(rpBuffer) \in Nat /\ p \in 1 .. Len(rpBuffer) /\ 1 \in 1 .. Len(rpBuffer) /\ 2 \in 1 .. Len(rpBuffer)
        BY <1>4, <2>1, SMTT(30)
    <2> HIDE DEF b, f, at
    <2>4. f + 1 \in 1 .. Len(b) /\ f + 2 \in 1 .. Len(b) /\ rpBuffer[1] = b[f + 1] /\ rpBuffer[2] = b[f + 2]
        BY <2>1, <2>3, Zenon
    <2>5. b[f + 1].kind = "size" /\ b[f + 1].at = at
        BY <2>1, <2>2, <2>4 DEF RpSizeAt
    <2> DEFINE k == b[f + 1].n
    <2>6. /\ RpLineEndsAt(b, (f + 1) + 1) /\ k \in Nat
          /\ k = 0 => at = rpCase.size
          /\ k # 0 => /\ RpBodyBehind(b, (f + 1) + 1, k, at)
                      /\ RpSizeAt(b, (f + 1) + k + 3, at + k)
        BY <2>1, <2>4, <2>5, RpBehindSize, Zenon DEF b
    <2>7. (f + 1) + 1 = f + 2 /\ (f + 1) + k + 3 = (f + 2) + k + 2
        <3> HIDE DEF k
        <3> QED BY <2>1, <2>6, SMTT(30)
    <2>8. b[f + 2].kind = "nl"
        BY <2>1, <2>4, <2>6, <2>7 DEF RpLineEndsAt
    <2>9. p = 2
        <3>1. p # 2 => 2 \in 1 .. p - 1
            BY <1>4, <2>3
        <3> QED BY <1>4, <2>4, <2>8, <3>1, Zenon
    <2>10. rpSize' = k /\ rest \in Seq(RpByte) /\ p \in 0 .. Len(rpBuffer)
        <3>1. p \in 0 .. Len(rpBuffer)
            BY <2>3
        <3> QED BY <1>4, <2>1, <2>4, <3>1, CutTail, Zenon
    <2> HIDE DEF k
    <2>11. ASSUME k = 0, rpBuffer' = SubSeq(rest, 2, Len(rest)), rest # <<>>, RpFinishChunked
           PROVE  RpInv'
        <3> HIDE DEF rest
        <3>1. rpBuffer' \in Seq(RpByte)
            BY <2>10, <2>11
        <3>2. Len(rpOut \o rpBody) = rpCase.size
            BY <2>6, <2>11, Zenon DEF at
        <3> QED BY <1>1, <1>4, <2>6, <2>10, <2>11, <3>1, <3>2, RpFinishChunkedInv, Zenon
    <2>12. ASSUME rpBuffer' = rest, rpPc' = IF rpSize' = 0 THEN "trailers" ELSE "chunk",
                  UNCHANGED <<rpBody, rpOut, rpStatus, rpLength, rpEof>>
           PROVE  RpInv'
        <3>1. /\ RpFrom' = f + 2 /\ RpFrom' >= 0 /\ RunOf(RpAhead, rpCase.bytes, RpFrom)'
            BY <1>1, <1>4, <2>9, <2>10, <2>12, RpStepsForward, Zenon DEF f
        <3>2. RpTypeOK'
            <4>1. rpPc' \in RpPcs
                BY <2>12, Zenon DEF RpPcs
            <4>2. rpSize' \in Nat /\ rpBuffer' \in Seq(RpByte) /\ rpLeft' = rpLeft
                BY <1>4, <2>6, <2>10, <2>12, Zenon
            <4> QED BY <1>1, <2>1, <2>12, <4>1, <4>2, Zenon DEF RpTypeOK
        <3>3. RpBodyIsExact'
            BY <1>1, <2>12, RpSentIsKept, Zenon
        <3>4. rpPc' = "trailers" => at = rpCase.size
            BY <2>6, <2>10, <2>12, Zenon
        <3>5. RpCollects'
            BY <1>1, <2>1, <2>12, <3>4, Zenon DEF RpCollects, at
        <3>6. rpPc' = "chunk" => k # 0
            BY <2>10, <2>12, Zenon
        <3>7. k # 0 => k > 0
            BY <2>6
        <3>8. RpInStep'
            <4>1. rpCase'.bytes = b /\ Len(rpOut' \o rpBody') = at /\ rpPc' # "size"
                BY <1>1, <2>12, Zenon DEF b, at
            <4>2. rpPc' = "chunk" =>
                     /\ rpSize' > 0 /\ RpBodyBehind(b, RpFrom', rpSize', at)
                     /\ RpSizeAt(b, RpFrom' + rpSize' + 2, at + rpSize')
                BY <2>6, <2>7, <2>10, <3>1, <3>6, <3>7, Zenon
            <4> QED BY <3>1, <4>1, <4>2, Zenon DEF RpInStep
        <3>9. RpBegins' /\ RpPasses'
            BY <2>12, Zenon DEF RpBegins, RpPasses
        <3> QED BY <2>1, <2>12, <3>2, <3>3, <3>5, <3>8, <3>9, Zenon DEF RpInv
    <2> QED BY <1>4, <2>10, <2>11, <2>12, Zenon
<1> QED BY <1>2, <1>3, <1>4, Zenon DEF RpReadSize

\* A chunk: it is collected or sent, and a size line follows.
LEMMA RpReadChunkInv ==
    ASSUME RpInv, RpReadChunk
    PROVE  RpInv'
<1>1. rpPc = "chunk" /\ UNCHANGED <<rpCase, rpSize, rpLength, rpEof, rpUploaded>>
    BY Zenon DEF RpReadChunk
<1>2. ASSUME RpNeedMore, UNCHANGED <<rpBody, rpOut, rpStatus>>
      PROVE  RpInv'
    BY <1>1, <1>2, RpNeedMoreInv, Zenon
<1>3. ASSUME rpPc' = "failed", UNCHANGED <<rpLeft, rpBuffer, rpBody, rpOut, rpStatus>>
      PROVE  RpInv'
    <2>1. RpFails
        BY <1>1, <1>3, Zenon DEF RpFails
    <2> QED BY <2>1, RpMovesInv, Zenon
<1>4. ASSUME Len(rpBuffer) >= rpSize + 1, rpBuffer' = SubSeq(rpBuffer, rpSize + 2, Len(rpBuffer)),
             rpPc' = "size", UNCHANGED rpLeft,
             IF rpStatus = 0 /\ Len(rpBody \o SubSeq(rpBuffer, 1, rpSize)) <= RpLimit
             THEN rpBody' = rpBody \o SubSeq(rpBuffer, 1, rpSize) /\ UNCHANGED <<rpOut, rpStatus>>
             ELSE /\ rpStatus' = 200 /\ rpOut' = rpOut \o (rpBody \o SubSeq(rpBuffer, 1, rpSize))
                  /\ rpBody' = <<>>
      PROVE  RpInv'
    <2> DEFINE b == rpCase.bytes
               f == RpFrom
               done == rpOut \o rpBody
               at == Len(done)
               data == SubSeq(rpBuffer, 1, rpSize)
    <2>1. /\ RpTypeOK /\ rpEof = FALSE /\ rpCase.chunked /\ rpLength = -1 /\ rpStatus \in {0, 200}
          /\ (rpStatus = 0 => rpOut = <<>>)
          /\ rpBuffer \in Seq(RpByte) /\ done \in Seq(RpByte) /\ Numbered(done, 0) /\ at <= rpCase.size
          /\ rpOut \in Seq(RpByte) /\ rpBody \in Seq(RpByte)
          /\ at \in Nat /\ rpCase.size \in Nat /\ f \in Nat /\ Len(b) \in Nat
          /\ \A i \in 1 .. Len(rpBuffer) : f + i \in 1 .. Len(b) /\ rpBuffer[i] = b[f + i]
        BY <1>1, RpDecoderFacts, Zenon
    <2>2. rpSize \in Nat /\ rpSize > 0 /\ RpBodyBehind(b, f, rpSize, at) /\ RpSizeAt(b, f + rpSize + 2, at + rpSize)
        BY <1>1, <2>1, Zenon DEF RpInv, RpInStep, RpTypeOK
    <2> HIDE DEF b, f, done, at
    <2>3. /\ Len(rpBuffer) \in Nat /\ rpSize \in 0 .. Len(rpBuffer) /\ rpSize + 1 \in 0 .. Len(rpBuffer)
          /\ (rpSize + 1) + 1 = rpSize + 2
          /\ \A i \in 1 .. rpSize : i \in 1 .. Len(rpBuffer)
        BY <1>4, <2>1, <2>2, SMTT(30)
    <2>4. data \in Seq(RpByte) /\ Len(data) = rpSize /\ \A i \in 1 .. rpSize : data[i] = rpBuffer[i]
        <3>1. rpBuffer \in Seq(RpByte) /\ rpSize \in 0 .. Len(rpBuffer)
            BY <2>1, <2>3, Zenon
        <3> QED BY <3>1, CutHead, Zenon
    <2> HIDE DEF data
    <2>5. \A i \in 1 .. rpSize : f + i \in 1 .. Len(b) /\ data[i] = b[f + i]
        <3>1. \A i \in 1 .. Len(rpBuffer) : f + i \in 1 .. Len(b) /\ rpBuffer[i] = b[f + i]
            BY <2>1, Zenon
        <3>2. \A i \in 1 .. rpSize : i \in 1 .. Len(rpBuffer)
            BY <2>3, Zenon
        <3>3. \A i \in 1 .. rpSize : data[i] = rpBuffer[i]
            BY <2>4, Zenon
        <3> QED BY <3>1, <3>2, <3>3, Zenon
    <2>6. Numbered(data, at) /\ RunOf(data, b, f)
        <3>1. \A i \in 1 .. rpSize : f + i <= Len(b)
            BY <2>1, <2>5
        <3> QED BY <2>2, <2>4, <2>5, <3>1, Zenon DEF Numbered, RunOf, RpBodyBehind
    <2>7. at + rpSize <= rpCase.size
        <3>1. f + rpSize <= Len(b) /\ f \in Int /\ f >= 0
            BY <2>1, <2>2, <2>5
        <3> QED BY <2>1, <2>4, <2>6, <3>1, RpWithinSize, Zenon DEF b
    <2>8. done \o data \in Seq(RpByte) /\ Len(done \o data) = at + rpSize /\ Numbered(done \o data, 0)
        <3>1. done \in Seq(RpByte) /\ data \in Seq(RpByte) /\ Numbered(done, 0) /\ Numbered(data, at)
            BY <2>1, <2>4, <2>6, Zenon
        <3>2. done \o data \in Seq(RpByte) /\ Len(done \o data) = Len(done) + Len(data)
            BY <3>1, Joined, Zenon
        <3>3. 0 \in Nat /\ 0 + Len(done) = at
            BY <2>1 DEF at
        <3>4. Numbered(done \o data, 0)
            BY <3>1, <3>3, NumberedJoin, Zenon
        <3> QED BY <2>4, <3>2, <3>4, Zenon DEF at
    <2>9. rpOut \o (rpBody \o data) = done \o data /\ rpBody \o data \in Seq(RpByte)
        <3>1. rpOut \in Seq(RpByte) /\ rpBody \in Seq(RpByte) /\ data \in Seq(RpByte)
            BY <2>1, <2>4, Zenon
        <3>2. Associate(rpOut, rpBody, data)
            BY <3>1, Associates, Zenon
        <3>3. rpBody \o data \in Seq(RpByte)
            BY <3>1, Joined, Zenon
        <3> QED BY <3>2, <3>3, Zenon DEF Associate, done
    <2>10. \/ /\ rpStatus = 0 /\ rpBody' = rpBody \o data /\ UNCHANGED <<rpOut, rpStatus>>
           \/ /\ rpStatus' = 200 /\ rpOut' = done \o data /\ rpBody' = <<>>
        BY <1>4, <2>9, Zenon DEF data
    <2>11. (rpOut \o rpBody)' = done \o data
        <3>1. (done \o data) \o <<>> = done \o data
            BY <2>8
        <3> QED BY <2>9, <2>10, <3>1, Zenon
    <2>12. /\ rpBuffer' \in Seq(RpByte)
           /\ RpFrom' = f + (rpSize + 1) /\ RpFrom' >= 0 /\ RunOf(RpAhead, rpCase.bytes, RpFrom)'
        <3>1. /\ rpPc \in {"size", "chunk"} /\ rpSize + 1 \in 0 .. Len(rpBuffer)
              /\ UNCHANGED <<rpCase, rpLeft>>
            BY <1>1, <1>4, <2>3, Zenon
        <3>2. rpBuffer' = SubSeq(rpBuffer, (rpSize + 1) + 1, Len(rpBuffer))
            BY <1>4, <2>3, Zenon
        <3> QED BY <3>1, <3>2, RpStepsForward, Zenon DEF f
    <2>13. RpTypeOK'
        <3>1. <<>> \in Seq(RpByte)
            OBVIOUS
        <3>2. rpOut' \in Seq(RpByte) /\ rpBody' \in Seq(RpByte)
            <4>1. /\ rpOut \in Seq(RpByte) /\ done \o data \in Seq(RpByte)
                  /\ rpBody \o data \in Seq(RpByte)
                BY <2>1, <2>8, <2>9, Zenon
            <4> QED BY <2>10, <3>1, <4>1, Zenon
        <3>4. rpStatus' \in {0, 200, 502}
            BY <2>1, <2>10, Zenon
        <3>3. rpPc' \in RpPcs
            BY <1>4, Zenon DEF RpPcs
        <3> QED BY <1>1, <1>4, <2>1, <2>12, <3>2, <3>3, <3>4, Zenon DEF RpTypeOK
    <2>14. RpCollects'
        <3>1. rpCase' = rpCase /\ rpCase'.chunked /\ rpLength' = -1 /\ rpPc' # "trailers"
            BY <1>1, <1>4, <2>1, Zenon
        <3>2. rpStatus' \in {0, 200} /\ (rpStatus' = 0 => rpOut' = <<>>) /\ (rpStatus' = 200 => rpBody' = <<>>)
            <4>1. rpStatus \in {0, 200} /\ (rpStatus = 0 => rpOut = <<>>) /\ 0 # 200
                BY <2>1
            <4>2. CASE rpStatus = 0 /\ UNCHANGED <<rpOut, rpStatus>>
                BY <4>1, <4>2
            <4>3. CASE rpStatus' = 200 /\ rpBody' = <<>>
                BY <4>1, <4>3
            <4> QED BY <2>10, <4>2, <4>3, Zenon
        <3>3. Numbered((rpOut \o rpBody)', 0) /\ Len((rpOut \o rpBody)') <= rpCase'.size
            BY <2>7, <2>8, <2>11, <3>1, Zenon
        <3> QED BY <3>1, <3>2, <3>3, Zenon DEF RpCollects
    <2>15. RpInStep'
        <3>1. rpCase'.bytes = b /\ Len((rpOut \o rpBody)') = at + rpSize
            BY <1>1, <2>8, <2>11, Zenon DEF b
        <3>2. (f + (rpSize + 1)) + 1 = f + rpSize + 2
            BY <2>1, <2>2
        <3>3. RpSizeAt(b, RpFrom' + 1, at + rpSize)
            BY <2>2, <2>12, <3>2, Zenon
        <3> QED BY <1>4, <2>12, <3>1, <3>3, Zenon DEF RpInStep
    <2>16. RpBodyIsExact'
        <3>1. CASE rpStatus' = 200 /\ rpOut' = done \o data
            <4> DEFINE s == done \o data
            <4>1. s \in Seq(RpByte) /\ \A i \in 1 .. Len(s) : s[i].kind = "body" /\ s[i].n = 0 + i
                BY <2>8, Zenon DEF Numbered
            <4>2. rpOut' = s /\ Len(s) <= rpCase.size
                BY <2>7, <2>8, <3>1, Zenon
            <4> HIDE DEF s
            <4>3. \A i \in DOMAIN s : s[i].kind = "body" /\ s[i].n = i
                BY <4>1
            <4> QED BY <1>1, <2>1, <4>2, <4>3, Zenon DEF RpBodyIsExact
        <3>2. CASE rpStatus = 0 /\ rpStatus' = rpStatus
            BY <3>2 DEF RpBodyIsExact
        <3> QED BY <2>10, <3>1, <3>2, Zenon
    <2>17. RpBegins' /\ RpPasses'
        BY <1>4, Zenon DEF RpBegins, RpPasses
    <2> QED BY <1>1, <2>1, <2>13, <2>14, <2>15, <2>16, <2>17, Zenon DEF RpInv
<1> QED BY <1>2, <1>3, <1>4, Zenon DEF RpReadChunk

\* Every step of the reverse proxy.
LEMMA RpInvStep == RpInv /\ [RpNext]_rpVars => RpInv'
<1> SUFFICES ASSUME RpInv, [RpNext]_rpVars PROVE RpInv'
    OBVIOUS
<1>1. CASE RpNext
    BY <1>1, RpMovesInv, RpReadHeadInv, RpReadBufferedInv, RpReadSizeInv, RpReadTrailersInv,
       RpReadChunkInv, RpSendFirstInv, RpReadFixedInv, RpPipeInv, Zenon DEF RpNext, RpStep
<1>2. CASE UNCHANGED rpVars
    <2>1. /\ UNCHANGED <<rpCase, rpPc, rpLeft, rpBuffer, rpSize, rpBody, rpOut>>
          /\ UNCHANGED <<rpStatus, rpLength, rpEof, rpUploaded>>
        BY <1>2, Zenon DEF rpVars
    <2>2. RpTypeOK' /\ (rpEof => rpPc = "done")'
        BY <2>1 DEF RpInv, RpTypeOK
    <2>3. RpBegins' /\ RpCollects'
        BY <2>1, Zenon DEF RpInv, RpBegins, RpCollects, RpAhead
    <2>4. RpInStep'
        BY <2>1, Zenon DEF RpInv, RpInStep, RpFrom, RpAhead
    <2>5. RpPasses'
        BY <2>1, Zenon DEF RpInv, RpPasses, RpCounts, RpDecodes
    <2>6. RpBodyIsExact'
        BY <2>1, RpSentIsKept, Zenon
    <2> QED BY <2>2, <2>3, <2>4, <2>5, <2>6, Zenon DEF RpInv
<1> QED BY <1>1, <1>2, Zenon

\* Before it connects.
LEMMA RpInvInit == RpInit => RpInv
<1> SUFFICES ASSUME RpInit PROVE RpInv
    OBVIOUS
<1>1. /\ rpCase \in RpExchanges /\ rpPc = "connect" /\ rpLeft = rpCase.bytes
      /\ rpBuffer = <<>> /\ rpSize = 0 /\ rpBody = <<>> /\ rpOut = <<>>
      /\ rpStatus = 0 /\ rpLength = -1 /\ rpEof = FALSE /\ rpUploaded = FALSE
    BY Zenon DEF RpInit
<1>2. rpCase.bytes \in Seq(RpByte)
    BY <1>1, ReverseProxyAssumption, Zenon DEF RpExchange
<1>3. RpTypeOK
    <2>1. /\ <<>> \in Seq(RpByte) /\ 0 \in Nat /\ -1 \in Nat \cup {-1} /\ FALSE \in BOOLEAN
          /\ 0 \in {0, 200, 502}
        OBVIOUS
    <2>2. rpPc \in RpPcs
        BY <1>1, Zenon DEF RpPcs
    <2> QED BY <1>1, <1>2, <2>1, <2>2, Zenon DEF RpTypeOK
<1>4. RpAhead = rpCase.bytes
    BY <1>1, <1>2 DEF RpAhead
<1>5. RpBegins /\ RpCollects /\ RpInStep /\ RpPasses
    BY <1>1, <1>4, Zenon DEF RpBegins, RpCollects, RpInStep, RpPasses
<1>6. RpBodyIsExact
    BY <1>1 DEF RpBodyIsExact
<1> QED BY <1>1, <1>3, <1>5, <1>6, Zenon DEF RpInv

\* RpBodyIsExact, for every exchange that follows the framing its head announces.
THEOREM ProxiedBodyIsExact == RpSpec => []RpBodyIsExact
<1>1. RpInv => RpBodyIsExact
    BY Zenon DEF RpInv
<1> QED BY <1>1, RpInvInit, RpInvStep, PTL DEF RpSpec
================================================================================
